---------------------------- MODULE MCUsbControl ----------------------------
EXTENDS UsbControl

In(wLength, size) ==
  [isIn |-> TRUE, wLength |-> wLength, size |-> size, ok |-> TRUE, calls |-> FALSE]
Out(wLength) ==
  [isIn |-> FALSE, wLength |-> wLength, size |-> Minimum(wLength, EpSize), ok |-> TRUE, calls |-> TRUE]
Refused(isIn) ==
  [isIn |-> isIn, wLength |-> 2, size |-> 0, ok |-> FALSE, calls |-> FALSE]

(* A packet holds two units.  IN: a short packet, a full one that is all,  *)
(* one and a half, and a full one that is less than the host asked for     *)
(* (ended by a ZLP).  OUT: none, less than a packet, a packet, and more    *)
(* than the buffer holds.                                                  *)
MCRequests ==
  {In(2, 2), In(4, 3), In(4, 2), In(2, 0), Out(0), Out(1), Out(2), Out(3), Refused(TRUE)}
===========================================================================
