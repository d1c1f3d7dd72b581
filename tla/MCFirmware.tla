----------------------------- MODULE MCFirmware -----------------------------
EXTENDS Firmware

CONSTANTS a1, a2, v0, v1

Call(op, addr, val) == [op |-> op, addr |-> addr, val |-> val, src |-> 0]

(* One program reads and writes memory: either kind of read of one         *)
(* register and writes of both, so that a stale address shows.  The other  *)
(* switches the supply, with a write in between.                           *)
MemoryCalls ==
  { Call("readCtrl", a1, v0), Call("readBulk", a1, v0),
    Call("writeCtrl", a1, v0), Call("writeCtrl", a2, v1),
    Call("writeBulk", a1, v1), Call("program", a1, v1) }
PowerCalls ==
  {[op |-> "power", addr |-> a1, val |-> v0, src |-> n] : n \in 0..2}
    \cup {Call("writeCtrl", a2, v1)}
MCPrograms == {MemoryCalls, PowerCalls}
=============================================================================
