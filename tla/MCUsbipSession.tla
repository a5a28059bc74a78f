--------------------------- MODULE MCUsbipSession ---------------------------
(***************************************************************************)
(* Up to MaxUrbs URBs.  A response of three bytes needs several INs of     *)
(* two bytes; an empty response leaves nothing.                            *)
(***************************************************************************)
EXTENDS UsbipSession

\* A string that is not there and the configuration cut short.
MCSetups == {GetDescriptor(3, 5, 64), GetDescriptor(2, 0, 16)}

MCOutLens == {1}
MCInLens == {2, 4}
MCResponseLens == {0, 3}
=============================================================================
