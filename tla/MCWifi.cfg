SPECIFICATION Spec
CONSTANTS
  MaxOutages = 3
  MaxFaults = 2
INVARIANTS
  AssociationKept
PROPERTIES
  ComesBack
