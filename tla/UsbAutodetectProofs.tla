------------------------ MODULE UsbAutodetectProofs ------------------------
(***************************************************************************)
(* Proofs about usb_autodetect.v for waits of any length.  What has been   *)
(* seen of the lines is tied to the state and the timer (SeenSoFar), a     *)
(* detection that ends has seen what it is about to announce (Ending), an  *)
(* announced speed is held in pS_DONE and left by a restart only (Held).   *)
(***************************************************************************)
EXTENDS UsbAutodetect, TLAPS

Run == [line : Lines, n : Nat]

\* A wait lasts as long as the lines have been what the state asks for.
SeenSoFar ==
  /\ seen \in Seq(Run)
  /\ state \in {"LS", "FSHS"} => Len(seen) = 1 /\ seen[1].n > timer
  /\ state = "LS" => seen[1].line = K
  /\ state = "FSHS" => seen[1].line = J
  /\ state = "WAIT_LOW" => Len(seen) = 1 /\ RunOf(1, J, WAIT1 + 2)
  /\ state = "HS" => /\ Len(seen) = 2 /\ RunOf(1, J, WAIT1 + 2)
                     /\ seen[2].line = SE0 /\ seen[2].n > timer
  /\ state = "FS" => Earned(FS)

\* pS_DONE is entered with the speed earned, and announces it one edge later.
SpeedOf == [s \in {"LS", "FS", "HS"} |-> CASE s = "LS" -> LS [] s = "FS" -> FS [] OTHER -> HS]
Ending ==
  state = "DONE" => \/ state_r = "DONE" /\ O_speed # AUTO
                    \/ state_r \in {"LS", "FS", "HS"} /\ Earned(SpeedOf[state_r])

\* Outside of pS_DONE a speed is left only for the edge that forgets it.
Held ==
  /\ O_speed # AUTO => state \in {"DONE", "IDLE"}
  /\ O_speed # AUTO /\ state = "IDLE" => asked
  /\ restart \/ restart_due => asked
  /\ state = "DONE" /\ state_r # "DONE" => O_speed = AUTO

IInv == TypeOK /\ WaitNotMissed /\ SeenSoFar /\ Ending /\ Held /\ SpeedIsEarned

---------------------------------------------------------------------------
LEMMA InitEstablishes == Init => IInv
<1> SUFFICES ASSUME Init PROVE IInv
  OBVIOUS
<1>1. TypeOK
  <2>1. timer \in 0 .. TIMER_MOD - 1 /\ Len(seen) <= 3
    BY UsbAutodetectAssumption DEF Init
  <2>2. restart \in BOOLEAN /\ restart_due \in BOOLEAN /\ asked \in BOOLEAN
    BY DEF Init
  <2>3. state \in States /\ state_r \in States /\ O_speed \in Speeds
    BY DEF Init, States, Speeds
  <2> QED BY <2>1, <2>2, <2>3 DEF TypeOK
<1>2. WaitNotMissed /\ Ending /\ Held
  BY DEF Init, WaitNotMissed, Ending, Held
<1>3. SeenSoFar
  BY DEF Init, SeenSoFar
<1>4. SpeedIsEarned
  BY DEF Init, SpeedIsEarned, Earned, AUTO, LS, FS, HS
<1> QED BY <1>1, <1>2, <1>3, <1>4 DEF IInv

\* The first line seen after pS_IDLE begins a new record.
LEMMA RecordBegins ==
  ASSUME state = "IDLE", NEW line \in Lines
  PROVE  /\ Recorded(line) \in Seq(Run) /\ Len(Recorded(line)) = 1
         /\ Recorded(line)[1].line = line /\ Recorded(line)[1].n = 1
BY DEF Recorded, Run

\* A line that goes on makes the last run longer, up to the cap.
LEMMA RecordGoesOn ==
  ASSUME state \in {"LS", "FSHS", "WAIT_LOW", "HS"}, seen \in Seq(Run),
         NEW n \in Nat \ {0}, Len(seen) = n, NEW line \in Lines,
         line = seen[n].line \/ (line = SE1 /\ seen[n].line = SE0)
  PROVE  /\ Recorded(line) \in Seq(Run) /\ Len(Recorded(line)) = n
         /\ \A i \in 1 .. n - 1 : Recorded(line)[i] = seen[i]
         /\ Recorded(line)[n].line = seen[n].line
         /\ Recorded(line)[n].n = IF seen[n].n < Cap THEN seen[n].n + 1 ELSE Cap
<1>0. n \in 1 .. Len(seen) /\ seen[n] \in Run
  OBVIOUS
<1>1. n \in 1 .. Len(seen) /\ seen[n] \in Run /\ seen[n].n \in Nat
  BY <1>0 DEF Run
<1>2. Recorded(line) = [seen EXCEPT ![n] = Longer(seen[n])]
  <2>1. n > 0 /\ Len(seen) = n
    OBVIOUS
  <2> QED BY <2>1 DEF Recorded
<1>3. Longer(seen[n]) \in Run /\ Longer(seen[n]).line = seen[n].line
  BY <1>1, UsbAutodetectAssumption DEF Run, Longer, Cap
<1>4. Longer(seen[n]).n = IF seen[n].n < Cap THEN seen[n].n + 1 ELSE Cap
  BY DEF Longer
<1>5. Cap \in Nat
  BY UsbAutodetectAssumption DEF Cap
<1> QED BY <1>1, <1>2, <1>3, <1>4, <1>5 DEF Run

\* Another line is a run of its own; what was seen before is kept.
LEMMA RecordChanges ==
  ASSUME state \in {"LS", "FSHS", "WAIT_LOW", "HS"}, seen \in Seq(Run),
         NEW n \in Nat \ {0}, Len(seen) = n, NEW line \in Lines,
         line # seen[n].line, ~(line = SE1 /\ seen[n].line = SE0)
  PROVE  /\ Recorded(line) \in Seq(Run) /\ Len(Recorded(line)) = n + 1
         /\ \A i \in 1 .. n : Recorded(line)[i] = seen[i]
         /\ Recorded(line)[n + 1].line = line /\ Recorded(line)[n + 1].n = 1
<1>1. Recorded(line) = Append(seen, [line |-> line, n |-> 1])
  BY DEF Recorded
<1>2. [line |-> line, n |-> 1] \in Run
  BY DEF Run
<1> QED BY <1>1, <1>2
---------------------------------------------------------------------------
\* The state an edge of fe_clk leads to, and why.
LEMMA NextState ==
  ASSUME TypeOK, NEW line \in Lines
  PROVE  LET next == next_state(line) IN
         /\ next \in States
         /\ next = "LS" => \/ state = "IDLE" /\ line = K
                           \/ state = "LS" /\ line = K /\ timer # WAIT1
         /\ next = "FSHS" => \/ state = "IDLE" /\ line = J
                             \/ state = "FSHS" /\ line = J /\ timer # WAIT1
         /\ next = "WAIT_LOW" => \/ state = "FSHS" /\ line = J /\ timer = WAIT1
                                 \/ state = "WAIT_LOW" /\ line = J
         /\ next = "HS" => \/ state = "WAIT_LOW" /\ line = SE0
                           \/ state = "HS" /\ line \in {SE0, SE1} /\ timer # WAIT2
         /\ next = "FS" => state = "HS" /\ line = J /\ timer # WAIT2
         /\ next = "DONE" => \/ state = "LS" /\ line = K /\ timer = WAIT1
                             \/ state = "HS" /\ timer = WAIT2
                             \/ state = "FS"
                             \/ state = "DONE" /\ ~restart
         /\ next = "IDLE" => \/ state = "IDLE" \/ state = "ERROR"
                             \/ state = "DONE" /\ restart
         /\ next = "ERROR" => state \in {"LS", "FSHS", "WAIT_LOW", "HS"}
<1>1. state \in States /\ line \in Lines
  BY DEF TypeOK
<1>2. CASE state = "IDLE"
  BY <1>1, <1>2 DEF next_state, States, Lines, SE0, SE1, J, K
<1>3. CASE state = "LS"
  BY <1>1, <1>3 DEF next_state, States
<1>4. CASE state = "FSHS"
  BY <1>1, <1>4 DEF next_state, States
<1>5. CASE state = "WAIT_LOW"
  BY <1>1, <1>5 DEF next_state, States, Lines, SE0, SE1, J, K
<1>6. CASE state = "HS"
  <2>1. next_state(line) = FromHs(line)
    BY <1>6 DEF next_state
  <2> QED BY <2>1, <1>1, <1>6 DEF FromHs, States, Lines, SE0, SE1, J, K
<1>7. CASE state = "FS"
  BY <1>1, <1>7 DEF next_state, States
<1>8. CASE state = "DONE"
  <2>1. next_state(line) = FromDone
    BY <1>8 DEF next_state
  <2> QED BY <2>1, <1>1, <1>8 DEF FromDone, States
<1>9. CASE state = "ERROR"
  <2>1. next_state(line) = "IDLE"
    BY <1>9 DEF next_state, FromError
  <2> QED BY <2>1, <1>1, <1>9 DEF States
<1> QED BY <1>1, <1>2, <1>3, <1>4, <1>5, <1>6, <1>7, <1>8, <1>9 DEF States

\* The timer counts in the three waits and starts each of them at zero.
LEMMA Timer ==
  ASSUME TypeOK, WaitNotMissed
  PROVE  /\ NextTimer \in 0 .. TIMER_MOD - 1
         /\ state \in {"IDLE", "WAIT_LOW"} => NextTimer = 0
         /\ state \in {"LS", "FSHS"} /\ timer # WAIT1 => NextTimer <= timer + 1 /\ NextTimer <= WAIT1
         /\ state = "HS" /\ timer # WAIT2 => NextTimer <= timer + 1 /\ NextTimer <= WAIT2
<1> USE UsbAutodetectAssumption DEF TypeOK, WaitNotMissed
<1>1. timer + 1 < TIMER_MOD => (timer + 1) % TIMER_MOD = timer + 1
  OBVIOUS
<1>2. (timer + 1) % TIMER_MOD \in 0 .. TIMER_MOD - 1
  OBVIOUS
<1> QED BY <1>1, <1>2 DEF NextTimer

---------------------------------------------------------------------------
\* What an edge in the two waits for a pull-up adds to the record.
LEMMA PullUpSeen ==
  ASSUME IInv, state \in {"LS", "FSHS"}, NEW line \in Lines
  PROVE  /\ Recorded(line) \in Seq(Run) /\ Len(Recorded(line)) <= 2
         /\ line = seen[1].line =>
              /\ Len(Recorded(line)) = 1 /\ Recorded(line)[1].line = line
              /\ timer <= WAIT1 => Recorded(line)[1].n > timer + 1
<1> USE UsbAutodetectAssumption
<1>1. seen \in Seq(Run) /\ Len(seen) = 1 /\ seen[1] \in Run /\ seen[1].n > timer
  BY DEF IInv, SeenSoFar
<1>2. timer \in Nat /\ seen[1].n \in Nat /\ Cap \in Nat /\ Cap > WAIT1 + 1
  BY <1>1 DEF IInv, TypeOK, Run, Cap
<1>3. CASE line = seen[1].line
  BY <1>1, <1>2, <1>3, RecordGoesOn
<1>4. CASE line # seen[1].line
  <2>1. seen[1].line \in {J, K}
    BY DEF IInv, SeenSoFar
  <2>2. ~(line = SE1 /\ seen[1].line = SE0)
    BY <2>1 DEF J, K, SE0
  <2> QED BY <1>1, <1>4, <2>2, RecordChanges
<1> QED BY <1>3, <1>4

\* The full-speed pull-up of pS_WAIT_LOW stays in the record.
LEMMA PullUpKept ==
  ASSUME IInv, state = "WAIT_LOW", NEW line \in Lines
  PROVE  /\ Recorded(line) \in Seq(Run) /\ Len(Recorded(line)) <= 2
         /\ Recorded(line)[1].line = J /\ Recorded(line)[1].n >= WAIT1 + 2
         /\ line = J => Len(Recorded(line)) = 1
         /\ line = SE0 => /\ Len(Recorded(line)) = 2
                          /\ Recorded(line)[2].line = SE0 /\ Recorded(line)[2].n = 1
<1> USE UsbAutodetectAssumption
<1>1. /\ seen \in Seq(Run) /\ Len(seen) = 1 /\ seen[1] \in Run
      /\ seen[1].line = J /\ seen[1].n >= WAIT1 + 2
  BY DEF IInv, SeenSoFar, RunOf
<1>2. seen[1].n \in Nat /\ Cap \in Nat /\ Cap >= WAIT1 + 2
  BY <1>1 DEF Run, Cap
<1>3. J # SE0
  BY DEF J, SE0
<1>4. CASE line = J
  <2>1. /\ Recorded(line) \in Seq(Run) /\ Len(Recorded(line)) = 1
        /\ Recorded(line)[1].line = seen[1].line
        /\ Recorded(line)[1].n = IF seen[1].n < Cap THEN seen[1].n + 1 ELSE Cap
    BY <1>1, <1>4, RecordGoesOn
  <2> QED BY <2>1, <1>1, <1>2, <1>3, <1>4
<1>5. CASE line # J
  <2>1. /\ Recorded(line) \in Seq(Run) /\ Len(Recorded(line)) = 2
        /\ Recorded(line)[1] = seen[1]
        /\ Recorded(line)[2].line = line /\ Recorded(line)[2].n = 1
    <3>1. /\ state \in {"LS", "FSHS", "WAIT_LOW", "HS"} /\ 1 \in Nat \ {0}
          /\ line # seen[1].line /\ ~(line = SE1 /\ seen[1].line = SE0)
      BY <1>1, <1>3, <1>5
    <3>2. /\ Recorded(line) \in Seq(Run) /\ Len(Recorded(line)) = 1 + 1
          /\ \A i \in 1 .. 1 : Recorded(line)[i] = seen[i]
          /\ Recorded(line)[1 + 1].line = line /\ Recorded(line)[1 + 1].n = 1
      BY <3>1, <1>1, RecordChanges
    <3> QED BY <3>2
  <2> QED BY <2>1, <1>1, <1>5
<1> QED BY <1>4, <1>5

\* So do the pull-up and the reset in pS_HS, which SE1 does not end.
LEMMA ResetSeen ==
  ASSUME IInv, state = "HS", NEW line \in Lines
  PROVE  /\ Recorded(line) \in Seq(Run) /\ Len(Recorded(line)) >= 2 /\ Len(Recorded(line)) <= 3
         /\ Recorded(line)[1].line = J /\ Recorded(line)[1].n >= WAIT1 + 2
         /\ Recorded(line)[2].line = SE0 /\ Recorded(line)[2].n > timer
         /\ line \in {SE0, SE1} => Len(Recorded(line)) = 2 /\ Recorded(line)[2].n > timer + 1
         /\ line = J => /\ Len(Recorded(line)) = 3
                        /\ Recorded(line)[3].line = J /\ Recorded(line)[3].n = 1
<1> USE UsbAutodetectAssumption
<1>1. /\ seen \in Seq(Run) /\ Len(seen) = 2 /\ seen[1] \in Run /\ seen[2] \in Run
      /\ seen[1].line = J /\ seen[1].n >= WAIT1 + 2
      /\ seen[2].line = SE0 /\ seen[2].n > timer
  <2>1. /\ seen \in Seq(Run) /\ Len(seen) = 2 /\ RunOf(1, J, WAIT1 + 2)
        /\ seen[2].line = SE0 /\ seen[2].n > timer
    BY DEF IInv, SeenSoFar
  <2>2. \A i \in 1 .. Len(seen) : seen[i] \in Run
    <3>1. seen \in Seq(Run)
      BY <2>1
    <3> QED BY <3>1
  <2> QED BY <2>1, <2>2 DEF RunOf
<1>2. /\ seen[1].n \in Nat /\ seen[2].n \in Nat /\ Cap \in Nat
      /\ timer \in Nat /\ timer <= WAIT2 /\ Cap > WAIT2 + 1
  BY <1>1 DEF IInv, TypeOK, WaitNotMissed, Run, Cap
<1>3. J # SE0 /\ J # SE1
  BY DEF J, SE0, SE1
<1>4. CASE line \in {SE0, SE1}
  <2>1. /\ Recorded(line) \in Seq(Run) /\ Len(Recorded(line)) = 2
        /\ Recorded(line)[1] = seen[1] /\ Recorded(line)[2].line = seen[2].line
        /\ Recorded(line)[2].n = IF seen[2].n < Cap THEN seen[2].n + 1 ELSE Cap
    BY <1>1, <1>4, RecordGoesOn
  <2> QED BY <2>1, <1>1, <1>2, <1>3, <1>4
<1>5. CASE line \notin {SE0, SE1}
  <2>1. /\ Recorded(line) \in Seq(Run) /\ Len(Recorded(line)) = 3
        /\ Recorded(line)[1] = seen[1] /\ Recorded(line)[2] = seen[2]
        /\ Recorded(line)[3].line = line /\ Recorded(line)[3].n = 1
    <3>1. /\ state \in {"LS", "FSHS", "WAIT_LOW", "HS"} /\ 2 \in Nat \ {0}
          /\ line # seen[2].line /\ ~(line = SE1 /\ seen[2].line = SE0)
      BY <1>1, <1>5
    <3>2. /\ Recorded(line) \in Seq(Run) /\ Len(Recorded(line)) = 2 + 1
          /\ \A i \in 1 .. 2 : Recorded(line)[i] = seen[i]
          /\ Recorded(line)[2 + 1].line = line /\ Recorded(line)[2 + 1].n = 1
      BY <3>1, <1>1, RecordChanges
    <3> QED BY <3>2
  <2> QED BY <2>1, <1>1, <1>2, <1>5
<1> QED BY <1>4, <1>5

---------------------------------------------------------------------------
\* What the step relates, in one place.
LEMMA TickFacts ==
  ASSUME IInv, NEW line \in Lines, NEW deliver \in BOOLEAN, Tick(line, deliver)
  PROVE  /\ state' = next_state(line) /\ state_r' = state /\ timer' = NextTimer
         /\ seen' = Recorded(line) /\ O_speed' = Announced
         /\ TypeOK /\ WaitNotMissed
BY DEF Tick, IInv

\* A state is entered with the record it stands for.
LEMMA TickKeepsSeenSoFar ==
  ASSUME IInv, NEW line \in Lines, NEW deliver \in BOOLEAN, Tick(line, deliver)
  PROVE  SeenSoFar' /\ WaitNotMissed' /\ Len(seen') <= 3
<1> USE UsbAutodetectAssumption
<1>1. /\ state' = next_state(line) /\ timer' = NextTimer /\ seen' = Recorded(line)
      /\ TypeOK /\ WaitNotMissed /\ SeenSoFar
  BY TickFacts DEF IInv
<1>2. timer \in Nat /\ WAIT1 \in Nat /\ WAIT2 \in Nat /\ state \in States
  BY <1>1 DEF TypeOK
<1>3. timer' \in Nat
  BY <1>1, Timer
<1>4. CASE state = "IDLE"
  <2>1. Recorded(line) \in Seq(Run) /\ Len(Recorded(line)) = 1
        /\ Recorded(line)[1].line = line /\ Recorded(line)[1].n = 1 /\ timer' = 0
    BY <1>1, <1>4, RecordBegins, Timer
  <2>2. state' \in {"IDLE", "LS", "FSHS"}
        /\ (state' = "LS" => line = K) /\ (state' = "FSHS" => line = J)
    BY <1>1, <1>4, NextState DEF States
  <2> QED BY <1>1, <1>2, <2>1, <2>2 DEF SeenSoFar, WaitNotMissed
<1>5. CASE state \in {"LS", "FSHS"}
  <2>1. state' = state \/ state' = "WAIT_LOW" \/ state' \in {"DONE", "ERROR"}
    BY <1>1, <1>5, NextState DEF States
  <2>2. CASE state' = state
    <3>1. line = seen[1].line /\ timer # WAIT1 /\ timer <= WAIT1
      BY <1>1, <1>5, <2>2, NextState DEF SeenSoFar, WaitNotMissed
    <3>2. timer' <= timer + 1 /\ timer' <= WAIT1
      BY <1>1, <1>5, <3>1, Timer
    <3>3. Recorded(line) \in Seq(Run) /\ Len(Recorded(line)) = 1
          /\ Recorded(line)[1].line = line /\ Recorded(line)[1].n > timer + 1
      BY <1>5, <3>1, PullUpSeen
    <3>4. Recorded(line)[1].n \in Nat
      <4>1. Recorded(line)[1] \in Run
        BY <3>3
      <4> QED BY <4>1 DEF Run
    <3>5. seen'[1].n > timer'
      BY <1>1, <1>2, <1>3, <3>2, <3>3, <3>4
    <3> QED BY <1>1, <1>5, <2>2, <3>1, <3>2, <3>3, <3>5 DEF SeenSoFar, WaitNotMissed
  <2>3. CASE state' = "WAIT_LOW"
    <3>1. state = "FSHS" /\ line = J /\ timer = WAIT1 /\ line = seen[1].line
      BY <1>1, <1>5, <2>3, NextState DEF SeenSoFar
    <3>2. Recorded(line) \in Seq(Run) /\ Len(Recorded(line)) = 1
          /\ Recorded(line)[1].line = line /\ Recorded(line)[1].n > timer + 1
      BY <1>2, <1>5, <3>1, PullUpSeen
    <3>3. Recorded(line)[1].n \in Nat
      <4>1. Recorded(line)[1] \in Run
        BY <3>2
      <4> QED BY <4>1 DEF Run
    <3>4. RunOf(1, J, WAIT1 + 2)'
      BY <1>1, <1>2, <3>1, <3>2, <3>3 DEF RunOf
    <3> QED BY <1>1, <2>3, <3>2, <3>4 DEF SeenSoFar, WaitNotMissed
  <2>4. CASE state' \in {"DONE", "ERROR"}
    <3>1. Recorded(line) \in Seq(Run) /\ Len(Recorded(line)) <= 2
      BY <1>5, PullUpSeen
    <3>2. Len(Recorded(line)) \in Nat
      BY <3>1
    <3> QED BY <1>1, <2>4, <3>1, <3>2 DEF SeenSoFar, WaitNotMissed
  <2> QED BY <2>1, <2>2, <2>3, <2>4
<1>6. CASE state = "WAIT_LOW"
  <2>1. /\ Recorded(line) \in Seq(Run) /\ Len(Recorded(line)) <= 2
        /\ Recorded(line)[1].line = J /\ Recorded(line)[1].n >= WAIT1 + 2
        /\ line = J => Len(Recorded(line)) = 1
        /\ line = SE0 => /\ Len(Recorded(line)) = 2
                         /\ Recorded(line)[2].line = SE0 /\ Recorded(line)[2].n = 1
    BY <1>6, PullUpKept
  <2>2. Len(Recorded(line)) \in Nat /\ timer' = 0
    BY <1>1, <1>6, <2>1, Timer
  <2>3. state' \in {"WAIT_LOW", "HS", "ERROR"}
        /\ (state' = "WAIT_LOW" => line = J) /\ (state' = "HS" => line = SE0)
    BY <1>1, <1>6, NextState DEF States
  <2>4. state' \in {"WAIT_LOW", "HS"} => RunOf(1, J, WAIT1 + 2)'
    BY <1>1, <2>1, <2>2, <2>3 DEF RunOf
  <2> QED BY <1>1, <1>2, <2>1, <2>2, <2>3, <2>4 DEF SeenSoFar, WaitNotMissed
<1>7. CASE state = "HS"
  <2>1. /\ Recorded(line) \in Seq(Run) /\ Len(Recorded(line)) >= 2 /\ Len(Recorded(line)) <= 3
        /\ Recorded(line)[1].line = J /\ Recorded(line)[1].n >= WAIT1 + 2
        /\ Recorded(line)[2].line = SE0 /\ Recorded(line)[2].n > timer
        /\ line \in {SE0, SE1} => Len(Recorded(line)) = 2 /\ Recorded(line)[2].n > timer + 1
        /\ line = J => /\ Len(Recorded(line)) = 3
                       /\ Recorded(line)[3].line = J /\ Recorded(line)[3].n = 1
    BY <1>7, ResetSeen
  <2>2. state' \in {"HS", "FS", "DONE", "ERROR"}
        /\ (state' = "HS" => line \in {SE0, SE1} /\ timer # WAIT2)
        /\ (state' = "FS" => line = J)
    BY <1>1, <1>7, NextState DEF States
  <2>3. state' = "HS" => timer' <= timer + 1 /\ timer' <= WAIT2
    BY <1>1, <1>7, <2>2, Timer
  <2>4. Recorded(line)[2] \in Run /\ Recorded(line)[2].n \in Nat
    <3>1. Recorded(line)[2] \in Run
      BY <2>1
    <3> QED BY <3>1 DEF Run
  <2>5. RunOf(1, J, WAIT1 + 2)' /\ RunOf(2, SE0, 1)'
    BY <1>1, <1>2, <2>1, <2>4 DEF RunOf
  <2>6. state' = "FS" => Earned(FS)'
    <3>1. state' = "FS" => RunOf(3, J, 1)'
      <4> SUFFICES ASSUME state' = "FS" PROVE RunOf(3, J, 1)'
        OBVIOUS
      <4>1. Len(Recorded(line)) = 3 /\ Recorded(line)[3].line = J /\ Recorded(line)[3].n = 1
        BY <2>1, <2>2
      <4> QED BY <1>1, <4>1 DEF RunOf
    <3> QED BY <3>1, <2>5 DEF Earned, LS, FS, HS
  <2>7. state' = "HS" => seen'[2].n > timer'
    BY <1>1, <1>2, <1>3, <2>1, <2>2, <2>3, <2>4
  <2>8. SeenSoFar'
    <3>1. CASE state' = "HS"
      BY <1>1, <3>1, <2>1, <2>2, <2>5, <2>7 DEF SeenSoFar
    <3>2. CASE state' \in {"FS", "DONE", "ERROR"}
      BY <1>1, <3>2, <2>1, <2>6 DEF SeenSoFar
    <3> QED BY <3>1, <3>2, <2>2
  <2>9. WaitNotMissed' /\ Len(seen') <= 3
    <3>1. Len(Recorded(line)) <= 3
      BY <2>1
    <3>2. WaitNotMissed'
      BY <2>2, <2>3 DEF WaitNotMissed
    <3> QED BY <1>1, <3>1, <3>2
  <2> QED BY <2>8, <2>9
<1>8. CASE state \in {"FS", "DONE", "ERROR"}
  <2>1. seen' = seen
    BY <1>1, <1>8 DEF Recorded
  <2>2. state' \in {"IDLE", "DONE"}
    BY <1>1, <1>8, NextState DEF States
  <2> QED BY <1>1, <2>1, <2>2 DEF SeenSoFar, WaitNotMissed, TypeOK
<1> QED BY <1>2, <1>4, <1>5, <1>6, <1>7, <1>8 DEF States

\* pS_DONE is reached only from a state that has seen what it announces.
LEMMA TickKeepsEnding ==
  ASSUME IInv, NEW line \in Lines, NEW deliver \in BOOLEAN, Tick(line, deliver)
  PROVE  Ending'
<1> SUFFICES ASSUME state' = "DONE"
             PROVE  \/ state_r' = "DONE" /\ O_speed' # AUTO
                    \/ state_r' \in {"LS", "FS", "HS"} /\ Earned(SpeedOf[state_r])'
  BY DEF Ending
<1> USE UsbAutodetectAssumption
<1>1. /\ state' = next_state(line) /\ state_r' = state /\ seen' = Recorded(line)
      /\ O_speed' = Announced /\ TypeOK /\ SeenSoFar /\ Ending
  BY TickFacts DEF IInv
<1>2. timer \in Nat /\ WAIT1 \in Nat /\ WAIT2 \in Nat
  BY <1>1 DEF TypeOK
<1>3. \/ state = "LS" /\ line = K /\ timer = WAIT1
      \/ state = "HS" /\ timer = WAIT2
      \/ state = "FS"
      \/ state = "DONE" /\ ~restart
  BY <1>1, NextState
<1>4. CASE state = "LS" /\ line = K /\ timer = WAIT1
  <2>1. line = seen[1].line
    BY <1>1, <1>4 DEF SeenSoFar
  <2>2. /\ Recorded(line) \in Seq(Run) /\ Len(Recorded(line)) = 1
        /\ Recorded(line)[1].line = K /\ Recorded(line)[1].n > timer + 1
    BY <1>2, <1>4, <2>1, PullUpSeen
  <2>3. Recorded(line)[1].n \in Nat
    <3>1. Recorded(line) \in Seq(Run) /\ Len(Recorded(line)) = 1
      BY <2>2
    <3>2. Recorded(line)[1] \in Run
      BY <3>1
    <3> QED BY <3>2 DEF Run
  <2>4. RunOf(1, K, WAIT1 + 2)'
    BY <1>1, <1>2, <1>4, <2>2, <2>3 DEF RunOf
  <2>5. SpeedOf[state_r'] = LS
    BY <1>1, <1>4 DEF SpeedOf
  <2> QED BY <1>1, <1>4, <2>4, <2>5 DEF Earned, LS, FS, HS
<1>5. CASE state = "HS" /\ timer = WAIT2
  <2>1. /\ Recorded(line) \in Seq(Run) /\ Len(Recorded(line)) >= 2
        /\ Recorded(line)[1].line = J /\ Recorded(line)[1].n >= WAIT1 + 2
        /\ Recorded(line)[2].line = SE0 /\ Recorded(line)[2].n > timer
    BY <1>5, ResetSeen
  <2>2. Len(Recorded(line)) \in Nat /\ Recorded(line)[2].n \in Nat
    <3>1. Len(Recorded(line)) \in Nat /\ Recorded(line)[2] \in Run
      BY <2>1
    <3> QED BY <3>1 DEF Run
  <2>3. /\ RunOf(1, J, WAIT1 + 2)' /\ RunOf(2, SE0, 1)'
        /\ RunOf(2, SE0, WAIT2 + 1)'
    BY <1>1, <1>2, <1>5, <2>1, <2>2 DEF RunOf
  <2>4. SpeedOf[state_r'] = HS
    BY <1>1, <1>5 DEF SpeedOf
  <2> QED BY <1>1, <1>5, <2>3, <2>4 DEF Earned, LS, FS, HS
<1>6. CASE state = "FS"
  <2>1. SpeedOf[state_r'] = FS
    BY <1>1, <1>6 DEF SpeedOf
  <2>2. Earned(FS) /\ seen' = seen
    BY <1>1, <1>6 DEF SeenSoFar, Recorded
  <2> QED BY <1>1, <1>6, <2>1, <2>2 DEF Earned, RunOf
<1>7. CASE state = "DONE"
  <2>1. (state_r = "DONE" /\ O_speed # AUTO) \/ state_r \in {"LS", "FS", "HS"}
    BY <1>1, <1>7 DEF Ending
  <2>2. O_speed' # AUTO
    BY <1>1, <1>7, <2>1 DEF Announced, AUTO, LS, FS, HS
  <2> QED BY <1>1, <1>7, <2>2
<1> QED BY <1>3, <1>4, <1>5, <1>6, <1>7

\* The announced speed is the one that was earned, and the record stays with it.
LEMMA TickKeepsEarned ==
  ASSUME IInv, NEW line \in Lines, NEW deliver \in BOOLEAN, Tick(line, deliver)
  PROVE  SpeedIsEarned' /\ O_speed' \in Speeds
<1>1. /\ seen' = Recorded(line) /\ O_speed' = Announced
      /\ TypeOK /\ Ending /\ Held /\ SpeedIsEarned
  BY TickFacts DEF IInv
<1>2. CASE state \in {"IDLE", "ERROR"}
  <2>1. O_speed' = AUTO
    BY <1>1, <1>2 DEF Announced
  <2> QED BY <2>1 DEF SpeedIsEarned, Earned, Speeds, AUTO, LS, FS, HS
<1>3. CASE state = "DONE" /\ state_r \in {"LS", "FS", "HS"}
  <2>1. O_speed' = SpeedOf[state_r] /\ O_speed' \in {LS, FS, HS}
    BY <1>1, <1>3 DEF Announced, SpeedOf
  <2>2. Earned(O_speed')
    BY <1>1, <1>3, <2>1 DEF Ending
  <2>3. seen' = seen
    BY <1>1, <1>3 DEF Recorded
  <2> QED BY <2>1, <2>2, <2>3 DEF SpeedIsEarned, Earned, RunOf, Speeds
<1>4. CASE state = "DONE" /\ state_r \notin {"LS", "FS", "HS"}
  <2>1. O_speed' = O_speed /\ seen' = seen
    BY <1>1, <1>4 DEF Announced, Recorded
  <2> QED BY <1>1, <2>1 DEF SpeedIsEarned, Earned, RunOf, TypeOK
<1>5. CASE state \notin {"IDLE", "ERROR", "DONE"}
  <2>1. O_speed' = AUTO
    BY <1>1, <1>5 DEF Announced, Held
  <2> QED BY <2>1 DEF SpeedIsEarned, Earned, Speeds, AUTO, LS, FS, HS
<1> QED BY <1>2, <1>3, <1>4, <1>5

\* A speed is held until a restart the host has asked for.
LEMMA TickKeepsHeld ==
  ASSUME IInv, NEW line \in Lines, NEW deliver \in BOOLEAN, Tick(line, deliver)
  PROVE  Held'
<1>1. /\ state' = next_state(line) /\ state_r' = state /\ O_speed' = Announced
      /\ TypeOK /\ Held
  BY TickFacts DEF IInv
<1>2. state \notin {"DONE", "IDLE", "ERROR"} => O_speed' = AUTO
  BY <1>1 DEF Announced, Held
<1>3. state \in {"IDLE", "ERROR"} => O_speed' = AUTO
  BY <1>1 DEF Announced
<1>4. state = "DONE" => state' \in {"DONE", "IDLE"} /\ (state' = "IDLE" => restart)
  BY <1>1, NextState DEF States
<1>5. O_speed' # AUTO => state' \in {"DONE", "IDLE"} /\ state = "DONE"
  BY <1>2, <1>3, <1>4
<1>6. O_speed' # AUTO => asked' = asked
  BY DEF Tick
<1>7. O_speed' # AUTO /\ state' = "IDLE" => asked'
  BY <1>1, <1>4, <1>5, <1>6 DEF Held
<1>8. restart' \/ restart_due' => asked'
  BY <1>1 DEF Tick, Held
<1>9. state' = "DONE" /\ state_r' # "DONE" => O_speed' = AUTO
  BY <1>1, <1>5
<1> QED BY <1>5, <1>7, <1>8, <1>9 DEF Held

LEMMA TickKeepsIInv ==
  ASSUME IInv, NEW line \in Lines, NEW deliver \in BOOLEAN, Tick(line, deliver)
  PROVE  IInv'
<1>1. SeenSoFar' /\ WaitNotMissed' /\ Len(seen') <= 3
  BY TickKeepsSeenSoFar
<1>2. SpeedIsEarned' /\ O_speed' \in Speeds
  BY TickKeepsEarned
<1>3. timer' \in 0 .. TIMER_MOD - 1 /\ state' \in States /\ state_r' \in States
  BY TickFacts, Timer, NextState DEF TypeOK
<1>4. restart' \in BOOLEAN /\ restart_due' \in BOOLEAN /\ asked' \in BOOLEAN
  BY DEF Tick, IInv, TypeOK
<1>5. TypeOK'
  BY <1>1, <1>2, <1>3, <1>4 DEF TypeOK
<1> QED BY <1>1, <1>2, <1>5, TickKeepsEnding, TickKeepsHeld DEF IInv

LEMMA AskingKeepsIInv == IInv /\ SetUsbModeAuto => IInv'
<1> SUFFICES ASSUME IInv, SetUsbModeAuto PROVE IInv'
  OBVIOUS
<1> USE DEF SetUsbModeAuto, detectVars, IInv
<1>1. TypeOK' /\ WaitNotMissed'
  BY DEF TypeOK, WaitNotMissed
<1>2. SeenSoFar'
  BY DEF SeenSoFar, RunOf, Earned
<1>3. Ending'
  BY DEF Ending, Earned, RunOf
<1>4. Held'
  BY DEF Held
<1>5. SpeedIsEarned'
  BY DEF SpeedIsEarned, Earned, RunOf
<1> QED BY <1>1, <1>2, <1>3, <1>4, <1>5

LEMMA Stutter == IInv /\ UNCHANGED vars => IInv'
BY DEF vars, detectVars, IInv, TypeOK, WaitNotMissed, SeenSoFar, Ending, Held,
       SpeedIsEarned, Earned, RunOf

\* IInv is inductive, for waits of any length.
THEOREM Invariant == Spec => []IInv
<1>1. IInv /\ [Next]_vars => IInv'
  BY TickKeepsIInv, AskingKeepsIInv, Stutter DEF Next
<1> QED BY <1>1, InitEstablishes, PTL DEF Spec

\* The registers of the detector keep their types.
THEOREM TypeCorrect == Spec => []TypeOK
BY Invariant, PTL DEF IInv

\* No wait begins beyond the value it ends on.
THEOREM NoWaitIsMissed == Spec => []WaitNotMissed
BY Invariant, PTL DEF IInv

\* No speed is announced that the lines have not shown.
THEOREM EverySpeedIsEarned == Spec => []SpeedIsEarned
BY Invariant, PTL DEF IInv

\* A detection that has ended has announced a speed.
THEOREM EveryEndAnnounces == Spec => []DoneAnnounces
<1>1. IInv => DoneAnnounces
  BY DEF IInv, Ending, DoneAnnounces
<1> QED BY <1>1, Invariant, PTL

\* A speed is given up only for AUTO, and only after the host has asked.
THEOREM SpeedStaysUntilAsked == Spec => SpeedIsStable
<1>1. IInv /\ [Next]_vars => [O_speed # AUTO /\ O_speed' # O_speed => O_speed' = AUTO /\ asked]_vars
  <2> SUFFICES ASSUME IInv, [Next]_vars, O_speed # AUTO, O_speed' # O_speed
               PROVE  O_speed' = AUTO /\ asked
    OBVIOUS
  <2>1. ~(SetUsbModeAuto \/ UNCHANGED vars)
    BY DEF SetUsbModeAuto, vars, detectVars
  <2>2. PICK line \in Lines, deliver \in BOOLEAN : Tick(line, deliver)
    BY <2>1 DEF Next
  <2>3. state \in {"DONE", "IDLE"} /\ (state = "IDLE" => asked)
        /\ (state = "DONE" => state_r = "DONE")
    BY DEF IInv, Held
  <2>4. O_speed' = Announced
    BY <2>2, TickFacts
  <2>5. state = "IDLE"
    BY <2>3, <2>4 DEF Announced
  <2> QED BY <2>3, <2>4, <2>5 DEF Announced
<1> QED BY <1>1, Invariant, PTL DEF SpeedIsStable, Spec
===========================================================================
