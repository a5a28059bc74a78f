SPECIFICATION Spec
CONSTANTS
  Threads = {t1, t2}
  RING_CAPACITY = 1
  CHANNEL_CAPACITY = 1
  MaxEvents = 2
  MaxFaults = 1
CHECK_DEADLOCK FALSE
INVARIANTS
  ShownOnce
  HiddenForAReason
  Complete
PROPERTY
  EventuallyHandled
