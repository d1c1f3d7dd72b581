--------------------------- MODULE UsbAutodetect ---------------------------
(***************************************************************************)
(* hdl/usb_autodetect.v finds the speed of the target from the two lines   *)
(* while it attaches and is reset.                                         *)
(*   Tick          an edge of fe_clk: FSM, timer, O_speed                  *)
(*   SetUsbModeAuto  usb.py, set_usb_mode('auto'): reg_pw.v asks for a     *)
(*                 detection with a pulse, which crosses to fe_clk by      *)
(*                 cdc_pulse.v (CdcPulse.tla)                              *)
(***************************************************************************)
EXTENDS Naturals, Sequences

CONSTANTS
  WAIT1,       \* I_wait1: how long a pull-up must be seen, 60000 cycles
  WAIT2,       \* I_wait2: how long a reset lasts at high speed, 3600000 cycles
  TIMER_MOD    \* 2**pCOUNTER_WIDTH

ASSUME UsbAutodetectAssumption ==
  /\ WAIT1 \in Nat \ {0} /\ WAIT2 \in Nat \ {0} /\ TIMER_MOD \in Nat
  /\ WAIT1 < TIMER_MOD /\ WAIT2 < TIMER_MOD

\* USB_SPEED_*
AUTO == 0
LS == 1
FS == 2
HS == 3
Speeds == {AUTO, LS, FS, HS}

\* The two lines, {linestate1, linestate0}.
SE0 == "00"
J == "01"
K == "10"
SE1 == "11"
Lines == {SE0, J, K, SE1}

VARIABLES
  state, state_r, timer, O_speed,
  restart,           \* dst_pulse of the crossing
  restart_due,       \* O_usb_auto_restart is on its way
  seen,              \* history: the runs of equal lines since pS_IDLE was left
  asked              \* history: the host asked since O_speed last went to AUTO

detectVars == <<state, state_r, timer, O_speed, restart, seen>>
vars == <<detectVars, restart_due, asked>>

States == {"IDLE", "LS", "FSHS", "WAIT_LOW", "HS", "FS", "DONE", "ERROR"}

Init ==
  /\ state = "IDLE" /\ state_r = "IDLE" /\ timer = 0
  /\ O_speed = AUTO /\ restart = FALSE /\ restart_due = FALSE
  /\ seen = <<>> /\ asked = FALSE

---------------------------------------------------------------------------
(* A definition whose name says what is wrong with it is a slip of the one *)
(* that follows it; the README says which property each breaks.            *)

FromHsUntimed(line) ==
  CASE line = J -> "FS" [] line = K -> "ERROR" [] OTHER -> "DONE"
FromHsDeaf(line) ==
  IF timer = WAIT2 THEN "DONE" ELSE IF line = J THEN "FS" ELSE "HS"
FromHs(line) ==
  IF timer = WAIT2 THEN "DONE"
  ELSE CASE line = J -> "FS" [] line = K -> "ERROR" [] OTHER -> "HS"

FromDoneUnasked == "IDLE"
FromDone == IF restart THEN "IDLE" ELSE "DONE"

FromErrorForGood == "ERROR"
FromError == "IDLE"

next_state(line) ==
  CASE state = "IDLE" -> (CASE line = K -> "LS" [] line = J -> "FSHS" [] OTHER -> "IDLE")
    [] state = "LS" -> IF line # K THEN "ERROR" ELSE IF timer = WAIT1 THEN "DONE" ELSE "LS"
    [] state = "FSHS" -> IF line # J THEN "ERROR"
                         ELSE IF timer = WAIT1 THEN "WAIT_LOW" ELSE "FSHS"
    [] state = "WAIT_LOW" -> (CASE line = J -> "WAIT_LOW" [] line = SE0 -> "HS"
                                [] OTHER -> "ERROR")
    [] state = "HS" -> FromHs(line)
    [] state = "FS" -> "DONE"
    [] state = "DONE" -> FromDone
    [] OTHER -> FromError

TimerKeptOnError ==
  IF state = "WAIT_LOW" \/ restart THEN 0
  ELSE IF state \in {"LS", "FSHS", "HS"} THEN (timer + 1) % TIMER_MOD
  ELSE timer
NextTimer ==
  IF state \in {"IDLE", "WAIT_LOW"} \/ restart THEN 0
  ELSE IF state \in {"LS", "FSHS", "HS"} THEN (timer + 1) % TIMER_MOD
  ELSE timer

AnnouncedLate ==
  IF state \in {"IDLE", "ERROR"} THEN AUTO
  ELSE IF state = "DONE" /\ state_r = "DONE" THEN O_speed
  ELSE IF state = "DONE" /\ state_r = "LS" THEN LS ELSE O_speed
Announced ==
  IF state \in {"IDLE", "ERROR"} THEN AUTO
  ELSE IF state = "DONE" /\ state_r \in {"LS", "FS", "HS"}
  THEN (CASE state_r = "LS" -> LS [] state_r = "FS" -> FS [] OTHER -> HS)
  ELSE O_speed

\* The runs of the lines, lengths capped beyond what the timer tells apart.  The
\* FSM takes SE1 inside a reset for SE0; what follows a detection is not recorded.
Cap == WAIT1 + WAIT2 + 2
Longer(run) == [line |-> run.line, n |-> IF run.n < Cap THEN run.n + 1 ELSE Cap]
Recorded(line) ==
  LET past == IF state = "IDLE" THEN <<>> ELSE seen
      n == Len(past)
      goesOn == n > 0 /\ (line = past[n].line \/ (line = SE1 /\ past[n].line = SE0))
  IN  IF state \in {"FS", "DONE", "ERROR"} THEN seen
      ELSE IF goesOn THEN [past EXCEPT ![n] = Longer(@)]
      ELSE Append(past, [line |-> line, n |-> 1])

Tick(line, deliver) ==
  /\ deliver => restart_due
  /\ restart' = deliver /\ restart_due' = (restart_due /\ ~deliver)
  /\ state' = next_state(line)
  /\ state_r' = state
  /\ timer' = NextTimer
  /\ O_speed' = Announced
  /\ seen' = Recorded(line)
  /\ asked' = IF O_speed # AUTO /\ O_speed' = AUTO THEN restart_due ELSE asked

\* Two calls of the host are further apart than a pulse takes to cross.
SetUsbModeAuto ==
  /\ ~restart_due /\ ~restart
  /\ restart_due' = TRUE /\ asked' = TRUE
  /\ UNCHANGED detectVars

Next ==
  \/ \E line \in Lines, deliver \in BOOLEAN : Tick(line, deliver)
  \/ SetUsbModeAuto

Spec == Init /\ [][Next]_vars

(* fe_clk runs and a restart arrives.                                      *)
FairSpec ==
  /\ Spec
  /\ WF_vars(\E line \in Lines, deliver \in BOOLEAN : Tick(line, deliver))
  /\ WF_vars(\E line \in Lines : Tick(line, TRUE))

---------------------------------------------------------------------------
(***************************************************************************)
(* The types, and that no more than the pull-up, the reset and what ends   *)
(* it is ever seen by a detection.                                         *)
(***************************************************************************)
TypeOK ==
  /\ state \in States /\ state_r \in States /\ timer \in 0 .. TIMER_MOD - 1
  /\ O_speed \in Speeds
  /\ restart \in BOOLEAN /\ restart_due \in BOOLEAN /\ asked \in BOOLEAN
  /\ Len(seen) <= 3

(***************************************************************************)
(* The waits end on "timer == wait1" and "timer == wait2": whatever was    *)
(* tried before, with whatever restarts, the timer never begins beyond the *)
(* value it is waiting for, from where it would go once round its range.   *)
(***************************************************************************)
WaitNotMissed ==
  /\ state \in {"LS", "FSHS"} => timer <= WAIT1
  /\ state = "HS" => timer <= WAIT2

(***************************************************************************)
(* A speed is announced only for what the lines have done since they were  *)
(* last idle: a low-speed pull-up held for WAIT1; or a full-speed pull-up  *)
(* held for WAIT1 and then a reset, which is either ended by the target's  *)
(* pull-up (full speed) or lasts for WAIT2 (high speed).                   *)
(***************************************************************************)
RunOf(i, line, least) == i <= Len(seen) /\ seen[i].line = line /\ seen[i].n >= least
Earned(speed) ==
  /\ speed = LS => RunOf(1, K, WAIT1 + 2)
  /\ speed \in {FS, HS} => RunOf(1, J, WAIT1 + 2) /\ RunOf(2, SE0, 1)
  /\ speed = FS => RunOf(3, J, 1)
  /\ speed = HS => RunOf(2, SE0, WAIT2 + 1)
SpeedIsEarned == Earned(O_speed)

(***************************************************************************)
(* A finished detection has announced a speed: however the FSM came to     *)
(* pS_DONE, the one edge at which state_r still shows it was not missed.   *)
(***************************************************************************)
DoneAnnounces == state = "DONE" /\ state_r = "DONE" => O_speed # AUTO

(***************************************************************************)
(* Once announced, the speed stays until the host asks again: noise,       *)
(* traffic and unplugging do not change it.                                *)
(***************************************************************************)
SpeedIsStable ==
  [][O_speed # AUTO /\ O_speed' # O_speed => O_speed' = AUTO /\ asked]_vars

(***************************************************************************)
(* The detector is never stuck halfway: again and again it is idle, done,  *)
(* waiting for the target's reset, or being restarted.                     *)
(***************************************************************************)
DetectionEnds == []<>(state \in {"IDLE", "DONE", "WAIT_LOW"} \/ restart)
===========================================================================
