---------------------------- MODULE ControlPipe ----------------------------
(***************************************************************************)
(* What the control endpoint of the USB device promises the firmware above *)
(* it: a request the firmware accepted with a callback (udd.h,             *)
(* udd_g_ctrlreq.callback) has that callback called once, before the       *)
(* callback of another request is registered; only a bus reset takes it    *)
(* back.  UsbControl implements this; Firmware is built on it.             *)
(***************************************************************************)
EXTENDS Naturals

VARIABLES
  armed,      \* a callback is registered and has not been called
  runs,       \* the parity of the number of calls so far
  reset       \* the bus was reset and the driver has not noticed yet

pipeVars == <<armed, runs, reset>>

Init ==
  /\ armed = FALSE
  /\ runs = 0
  /\ reset = FALSE

Accept ==
  /\ ~armed /\ ~reset
  /\ armed' = TRUE
  /\ UNCHANGED <<runs, reset>>

Run ==
  /\ armed
  /\ armed' = FALSE
  /\ runs' = 1 - runs
  /\ UNCHANGED reset

\* The next request arrives before the end of the last one was noticed.
RunThenAccept ==
  /\ armed /\ ~reset
  /\ runs' = 1 - runs
  /\ UNCHANGED <<armed, reset>>

BusReset ==
  /\ reset' = TRUE
  /\ UNCHANGED <<armed, runs>>

Drop ==
  /\ reset
  /\ armed' = FALSE
  /\ reset' = FALSE
  /\ UNCHANGED runs

Next == Accept \/ Run \/ RunThenAccept \/ BusReset \/ Drop

Spec == Init /\ [][Next]_pipeVars
===========================================================================
