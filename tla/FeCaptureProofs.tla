--------------------------- MODULE FeCaptureProofs ---------------------------
(***************************************************************************)
(* Proofs about the capture front end, for counters of any width, any      *)
(* status values and any lengths of captures.  They assume that the bus is *)
(* never idle for so long that the time counter is full (MaxIdle <= FULL   *)
(* + 1): FeCaptureLongGapLoss shows what is lost otherwise.                *)
(*                                                                         *)
(* The argument is about the age of the time counter.  An entry restarts   *)
(* it; a capture can stop only behind an entry, so the counter is still    *)
(* short when the next capture begins (CtrAge, CtrAtStop).  Hence an event *)
(* that is due an entry finds the FSM ready to write it (ShortWhenDue).    *)
(***************************************************************************)
EXTENDS FeCapture, TLAPS

\* What is written follows the FSM by a cycle.
OutputInv ==
  /\ O_data_wr <=> state_r # IDLE
  /\ O_data_wr => (O_command = TIME <=> state_r = TIME)

CtrAge ==
  /\ state = DATA => timestamp_ctr = 0
  /\ state = TIME => /\ usb_event_reg
                     /\ ctr_running => timestamp_ctr >= SHORT /\ acc = 0
  /\ O_data_wr => timestamp_ctr <= 1
  /\ wr_en => timestamp_ctr <= 2

CtrAtStop ==
  /\ capture_enable /\ ~capture_allowed => capturing_r /\ timestamp_ctr <= 3
  /\ ~capture_enable /\ ctr_running => timestamp_ctr <= 4
  /\ ~ctr_running => timestamp_ctr <= 5

ShortWhenDue ==
  state = IDLE /\ usb_event_reg /\ capture_allowed => short_timestamp

DueInv ==
  /\ due2 \in {"first", "next"} <=> state = DATA
  /\ due2 = "none" => stat2 = stat3
  /\ ~usb_event_reg => stat1 = stat2
  /\ host_synced /\ due3 = "none" => host_stat = stat3

ClockInv ==
  /\ usb_event_reg => since = 1
  /\ ctr_running => IF usb_event_reg THEN gap1 = timestamp_ctr + 1
                                     ELSE since = timestamp_ctr + 2

\* While the capture goes on, its last event has been captured.
LastInv ==
  /\ last_captured => ctr_running
  /\ ctr_running /\ capture_enable => last_captured
  /\ last_captured /\ timestamp_ctr = 0 => state = DATA
  /\ last_captured /\ timestamp_ctr = 1 => state_r = DATA
  /\ last_captured /\ timestamp_ctr >= 2 => acc = 0

\* The gap on its way to the host.
GapInv ==
  /\ due2 = "next" /\ ~timestamps_disable =>
       /\ timestamp + 1 = gap2
       /\ IF state_r = TIME THEN acc = 0 ELSE timestamp < SHORT /\ (O_data_wr \/ acc = 0)
  /\ due3 = "next" =>
       /\ state_r = DATA
       /\ ~timestamps_disable =>
            /\ timestamp_reg + 1 = gap3
            /\ IF state_r2 = TIME THEN acc = timestamp_reg
                                  ELSE timestamp_reg < SHORT /\ acc = 0

AccInv ==
  /\ acc <= FULL
  /\ state_r = TIME => acc + timestamp <= FULL

\* An entry on its way was allowed when fewer than capture_len were written.
CountInv ==
  capture_len > 0 =>
    /\ capture_count <= capture_len + 2
    /\ O_data_wr => capture_count <= capture_len + 1
    /\ state # IDLE => capture_count <= capture_len

IInv ==
  /\ TypeOK /\ OutputInv /\ CtrAge /\ CtrAtStop /\ ShortWhenDue /\ DueInv /\ EntryPerEvent
  /\ ClockInv /\ LastInv /\ GapInv /\ AccInv /\ CountInv

---------------------------------------------------------------------------

LEMMA InitIInv == Init => IInv
<1> SUFFICES ASSUME Init PROVE IInv
  OBVIOUS
<1> USE FeCaptureAssumption DEF Init, IDLE, DATA, STAT, TIME
<1>1. TypeOK
  <2>1. {timestamp_ctr, timestamp, timestamp_reg} \subseteq 0 .. FULL
    OBVIOUS
  <2>2. since \in 1 .. MaxIdle /\ {gap1, gap2, gap3} \subseteq 0 .. MaxIdle
    OBVIOUS
  <2>3. capture_count \in 0 .. COUNT_MOD - 1 /\ acc \in 0 .. 2 * FULL
    OBVIOUS
  <2> QED BY <2>1, <2>2, <2>3 DEF TypeOK
<1>2. OutputInv /\ CtrAge /\ CtrAtStop /\ ShortWhenDue /\ DueInv /\ EntryPerEvent
  BY DEF OutputInv, CtrAge, CtrAtStop, ShortWhenDue, DueInv, EntryPerEvent
<1>3. ClockInv /\ LastInv /\ GapInv /\ AccInv /\ CountInv
  BY DEF ClockInv, LastInv, GapInv, AccInv, CountInv
<1> QED BY <1>1, <1>2, <1>3 DEF IInv

\* One edge of fe_clk, with what the neighbours and the bus do in it.
Edge(usb_event, arm, en, stop) ==
  /\ usb_event \in BOOLEAN /\ arm \in BOOLEAN /\ en \in BOOLEAN /\ stop \in BOOLEAN
  /\ usb_event \/ since < MaxIdle \/ ~ctr_running
  /\ CountEntries(arm)
  /\ Neighbours(en, stop)
  /\ Fsm(usb_event)
  /\ TimestampCounter
  /\ WriteEntry
  /\ History(usb_event)
  /\ usb_event_reg' = usb_event
  /\ stat2' = stat1 /\ stat3' = stat2 /\ (~usb_event => stat1' = stat1)
  /\ rx1' \in BOOLEAN /\ rx2' = rx1 /\ stat1' \in Stat

LEMMA NextIsEdge == Next => \E e, arm, en, stop \in BOOLEAN : Edge(e, arm, en, stop)
<1> SUFFICES ASSUME Next PROVE \E e, arm, en, stop \in BOOLEAN : Edge(e, arm, en, stop)
  OBVIOUS
<1>1. PICK rx, arm, en, stop \in BOOLEAN, st \in Stat : Tick(rx, st, arm, en, stop)
  BY DEF Next
<1> DEFINE e == rx \/ st # stat1
<1>2. e \in BOOLEAN
  OBVIOUS
<1>3. Edge(e, arm, en, stop)
  <2>1. e \/ since < MaxIdle \/ ~ctr_running
    BY <1>1 DEF Tick
  <2>2. /\ CountEntries(arm) /\ Neighbours(en, stop) /\ TimestampCounter /\ WriteEntry
        /\ Pipeline(rx, st, e) /\ Fsm(e) /\ History(e)
    BY <1>1 DEF Tick
  <2>3. ~e => st = stat1
    OBVIOUS
  <2> HIDE DEF e
  <2> QED BY <1>2, <2>1, <2>2, <2>3 DEF Edge, Pipeline
<1> QED BY <1>2, <1>3

LEMMA ModInRange ==
  ASSUME NEW n \in Nat, NEW m \in Nat \ {0} PROVE n % m \in 0 .. m - 1 /\ n % m <= n
OBVIOUS
LEMMA ModOfSmall ==
  ASSUME NEW m \in Nat \ {0}, NEW n \in 0 .. m - 1 PROVE n % m = n
OBVIOUS

LEMMA Numbers ==
  ASSUME IInv
  PROVE  /\ SHORT \in Nat /\ FULL \in Nat /\ SHORT < FULL /\ 5 < SHORT
         /\ COUNT_MOD \in Nat \ {0} /\ MaxIdle \in Nat /\ MaxIdle > 1
         /\ timestamp_ctr \in 0 .. FULL /\ timestamp \in 0 .. FULL /\ timestamp_reg \in 0 .. FULL
         /\ capture_count \in 0 .. COUNT_MOD - 1 /\ capture_len \in Nat
         /\ since \in 1 .. MaxIdle
         /\ gap1 \in 0 .. MaxIdle /\ gap2 \in 0 .. MaxIdle /\ gap3 \in 0 .. MaxIdle
         /\ acc \in Nat /\ acc <= FULL
         /\ usb_event_reg \in BOOLEAN /\ ctr_running \in BOOLEAN /\ O_data_wr \in BOOLEAN
         /\ capture_enable \in BOOLEAN /\ capturing_r \in BOOLEAN /\ fifo_stop \in BOOLEAN
         /\ wr_en \in BOOLEAN /\ last_captured \in BOOLEAN /\ host_synced \in BOOLEAN
         /\ timestamps_disable \in BOOLEAN
         /\ state \in {IDLE, DATA, TIME} /\ state_r \in {IDLE, DATA, TIME}
BY FeCaptureAssumption DEF IInv, TypeOK, AccInv

---------------------------------------------------------------------------
(* One edge.                                                               *)

\* The counter: at most one more than before.
LEMMA CtrStep ==
  ASSUME IInv, NEW e, NEW arm, NEW en, NEW stop, Edge(e, arm, en, stop)
  PROVE  /\ timestamp_ctr' \in 0 .. FULL
         /\ timestamp_ctr' <= timestamp_ctr + 1
         /\ usb_event_reg \/ ~ctr_running => timestamp_ctr' = 0
         /\ ~usb_event_reg /\ ctr_running /\ timestamp_ctr < FULL =>
              timestamp_ctr' = timestamp_ctr + 1
         /\ ctr_running' <=> capture_enable /\ (usb_event_reg \/ ctr_running)
BY Numbers DEF Edge, TimestampCounter, NextCtr

\* A capture goes on only while it is allowed.
LEMMA EnableStep ==
  ASSUME IInv, NEW e, NEW arm, NEW en, NEW stop, Edge(e, arm, en, stop)
  PROVE  /\ capture_enable /\ capture_enable' => capture_allowed
         /\ capture_enable /\ ~capture_enable' => timestamp_ctr <= 3
         /\ ~capture_enable /\ capture_enable' => capture_allowed'
         /\ capture_allowed => capture_enable
<1>1. /\ capture_enable' = en /\ capture_len' = capture_len /\ fifo_stop' = stop
      /\ capture_enable => en = (capture_allowed \/ ~capturing_r)
      /\ ~capture_enable /\ en => ~stop /\ (capture_len = 0 \/ capture_count' < capture_len)
      /\ en \in BOOLEAN
  BY DEF Edge, Neighbours
<1>2. capture_enable /\ ~capture_allowed => capturing_r /\ timestamp_ctr <= 3
  BY DEF IInv, CtrAtStop
<1> QED BY <1>1, <1>2 DEF capture_allowed

\* The FSM: an event that is due its entry is written, and nothing else is.
LEMMA FsmStep ==
  ASSUME IInv, MaxIdle <= FULL + 1,
         NEW e, NEW arm, NEW en, NEW stop, Edge(e, arm, en, stop)
  PROVE  /\ state' = DATA <=> usb_event_reg /\ capture_allowed
         /\ state' = TIME => /\ state = IDLE /\ capture_allowed /\ usb_event_reg' /\ ~usb_event_reg
                             /\ timestamp_ctr >= SHORT - 1
         /\ state' \in {IDLE, DATA, TIME}
         /\ state = IDLE /\ state' = IDLE /\ capture_allowed /\ e => short_timestamp_pre
<1>1. state' = next_state(e) /\ usb_event_reg' = e /\ e \in BOOLEAN
      /\ (e \/ since < MaxIdle \/ ~ctr_running)
  BY DEF Edge, Fsm
<1>2. IDLE # DATA /\ IDLE # TIME /\ DATA # TIME
  BY DEF IDLE, DATA, TIME
<1>3. state = IDLE /\ usb_event_reg /\ capture_allowed => short_timestamp
  BY DEF IInv, ShortWhenDue
<1>4. timestamp_ctr = FULL - 1 => capture_allowed /\ ctr_running
  BY Numbers DEF IInv, CtrAtStop, capture_allowed
<1>5. timestamp_ctr = FULL - 1 /\ ~usb_event_reg => e
  BY <1>1, <1>4, Numbers DEF IInv, ClockInv
<1>6. CASE state = IDLE
  BY <1>1, <1>2, <1>3, <1>4, <1>5, <1>6, Numbers DEF next_state, short_timestamp_pre, Fits
<1>7. CASE state # IDLE
  BY <1>1, <1>2, <1>7, Numbers DEF next_state
<1> QED BY <1>6, <1>7

LEMMA StopStep ==
  ASSUME IInv, MaxIdle <= FULL + 1,
         NEW e, NEW arm, NEW en, NEW stop, Edge(e, arm, en, stop)
  PROVE  CtrAtStop'
<1>1. /\ capture_len' = capture_len /\ fifo_stop' = stop /\ capturing_r' = capture_allowed
      /\ stop => fifo_stop \/ O_data_wr \/ wr_en
      /\ CountEntries(arm)
  BY DEF Edge, Neighbours
<1>2. /\ O_data_wr => timestamp_ctr <= 1
      /\ wr_en => timestamp_ctr <= 2
      /\ ~capture_enable /\ ctr_running => timestamp_ctr <= 4
  BY DEF IInv, CtrAge, CtrAtStop
<1>3. ASSUME capture_enable', ~capture_allowed' PROVE capturing_r' /\ timestamp_ctr' <= 3
  <2>1. capture_enable /\ capture_allowed
    BY <1>3, EnableStep DEF Edge, Neighbours
  <2>2. fifo_stop' \/ (capture_len # 0 /\ ~(capture_count' < capture_len))
    BY <1>1, <1>3 DEF capture_allowed
  <2>3. CASE fifo_stop'
    <3>1. ~fifo_stop
      BY <2>1 DEF capture_allowed
    <3>2. timestamp_ctr <= 2
      BY <1>1, <1>2, <2>3, <3>1, Numbers
    <3> QED BY <1>1, <2>1, <3>2, CtrStep, Numbers
  <2>4. CASE capture_len # 0 /\ ~(capture_count' < capture_len)
    <3>1. capture_count < capture_len
      BY <2>1, <2>4 DEF capture_allowed
    <3>2. O_data_wr
      BY <1>1, <2>4, <3>1, Numbers DEF CountEntries
    <3> QED BY <1>1, <1>2, <2>1, <3>2, CtrStep, Numbers
  <2> QED BY <2>2, <2>3, <2>4
<1>4. ASSUME ~capture_enable', ctr_running' PROVE timestamp_ctr' <= 4
  BY <1>4, EnableStep, CtrStep, Numbers
<1>5. ASSUME ~ctr_running' PROVE timestamp_ctr' <= 5
  BY <1>2, <1>5, CtrStep, Numbers
<1> QED BY <1>3, <1>4, <1>5 DEF CtrAtStop

LEMMA ClockStep ==
  ASSUME IInv, MaxIdle <= FULL + 1,
         NEW e, NEW arm, NEW en, NEW stop, Edge(e, arm, en, stop)
  PROVE  ClockInv'
<1>1. /\ usb_event_reg' = e /\ e \in BOOLEAN
      /\ since' = IF e THEN 1 ELSE IF ~ctr_running /\ ~usb_event_reg THEN MaxIdle
                  ELSE IF since < MaxIdle THEN since + 1 ELSE since
      /\ gap1' = IF e THEN since ELSE 0
      /\ e \/ since < MaxIdle \/ ~ctr_running
  BY DEF Edge, History
<1>2. /\ usb_event_reg => since = 1
      /\ ctr_running /\ ~usb_event_reg => since = timestamp_ctr + 2
  BY DEF IInv, ClockInv
<1>3. CASE usb_event_reg
  BY <1>1, <1>2, <1>3, CtrStep, Numbers DEF ClockInv
<1>4. CASE ~usb_event_reg /\ ctr_running
  <2>1. timestamp_ctr < FULL
    BY <1>1, <1>2, <1>4, Numbers
  <2> QED BY <1>1, <1>2, <1>4, <2>1, CtrStep, Numbers DEF ClockInv
<1>5. CASE ~usb_event_reg /\ ~ctr_running
  BY <1>1, <1>5, CtrStep DEF ClockInv
<1> QED BY <1>3, <1>4, <1>5

\* Behind an event that was captured comes its entry, so none is on its way
\* when the counter is beyond 1.
LEMMA LastStep ==
  ASSUME IInv, MaxIdle <= FULL + 1,
         NEW e, NEW arm, NEW en, NEW stop, Edge(e, arm, en, stop)
  PROVE  LastInv'
<1>1. /\ last_captured' = IF usb_event_reg THEN capture_allowed
                          ELSE last_captured /\ capture_enable
      /\ acc' = IF ~O_data_wr THEN acc ELSE IF O_command = TIME THEN acc + O_time ELSE 0
      /\ state_r' = state
  BY DEF Edge, History, Fsm
<1>2. LastInv /\ OutputInv /\ (O_data_wr => timestamp_ctr <= 1)
  BY DEF IInv, CtrAge
<1>3. ASSUME last_captured', usb_event_reg
      PROVE  ctr_running' /\ timestamp_ctr' = 0 /\ state' = DATA
  BY <1>1, <1>3, CtrStep, EnableStep, FsmStep
<1>4. ASSUME last_captured', ~usb_event_reg
      PROVE  /\ last_captured /\ ctr_running /\ ctr_running'
             /\ timestamp_ctr' = timestamp_ctr + 1
  <2>1. last_captured /\ capture_enable
    BY <1>1, <1>4
  <2>2. ctr_running
    BY <1>2, <2>1 DEF LastInv
  <2>3. timestamp_ctr < FULL
    BY <1>4, <2>1, <2>2, Numbers DEF IInv, ClockInv, Edge
  <2> QED BY <1>4, <2>1, <2>2, <2>3, CtrStep
<1>5. ASSUME ctr_running', capture_enable' PROVE last_captured'
  <2>1. capture_enable /\ (usb_event_reg \/ ctr_running) /\ capture_allowed
    BY <1>5, CtrStep, EnableStep
  <2> QED BY <1>1, <1>2, <2>1 DEF LastInv
<1>6. ASSUME last_captured', ~usb_event_reg
      PROVE  /\ timestamp_ctr' = 1 => state_r' = DATA
             /\ timestamp_ctr' >= 2 => acc' = 0
  <2>1. CASE timestamp_ctr = 0
    <3>1. state = DATA
      BY <1>2, <1>4, <1>6, <2>1 DEF LastInv
    <3> QED BY <1>1, <1>4, <1>6, <2>1, <3>1
  <2>2. CASE timestamp_ctr = 1
    <3>1. state_r = DATA
      BY <1>2, <1>4, <1>6, <2>2 DEF LastInv
    <3>2. O_data_wr /\ O_command # TIME
      BY <1>2, <3>1 DEF OutputInv, IDLE, DATA, TIME
    <3> QED BY <1>1, <1>4, <1>6, <2>2, <3>2
  <2>3. CASE timestamp_ctr >= 2
    <3>1. acc = 0
      BY <1>2, <1>4, <1>6, <2>3 DEF LastInv
    <3>2. ~O_data_wr /\ timestamp_ctr' # 1
      BY <1>2, <1>4, <1>6, <2>3, Numbers
    <3> QED BY <1>1, <3>1, <3>2
  <2> QED BY <1>4, <1>6, <2>1, <2>2, <2>3, Numbers
<1> QED BY <1>3, <1>4, <1>5, <1>6, Numbers DEF LastInv

LEMMA AgeStep ==
  ASSUME IInv, MaxIdle <= FULL + 1,
         NEW e, NEW arm, NEW en, NEW stop, Edge(e, arm, en, stop)
  PROVE  OutputInv' /\ CtrAge' /\ AccInv'
<1>1. /\ state_r' = state /\ wr_en' = O_data_wr
      /\ O_data_wr' = (state # IDLE)
      /\ O_command' = IF state = DATA THEN (IF rx2 THEN DATA ELSE STAT)
                      ELSE IF state = TIME THEN TIME ELSE O_command
      /\ timestamp' = IF ~ctr_running THEN 0
                      ELSE IF usb_event_reg THEN timestamp_ctr ELSE timestamp
      /\ acc' = IF ~O_data_wr THEN acc ELSE IF O_command = TIME THEN acc + O_time ELSE 0
  BY DEF Edge, History, Fsm, Neighbours, WriteEntry, TimestampCounter
<1>2. OutputInv /\ CtrAge /\ LastInv /\ AccInv
  BY DEF IInv
<1>3. OutputInv'
  BY <1>1, Numbers DEF OutputInv, IDLE, DATA, STAT, TIME
<1>4. state' = TIME /\ ctr_running' => timestamp_ctr' >= SHORT /\ acc' = 0
  <2>1. SUFFICES ASSUME state' = TIME, ctr_running' PROVE timestamp_ctr' >= SHORT /\ acc' = 0
    OBVIOUS
  <2>2. /\ capture_allowed /\ usb_event_reg' /\ ~usb_event_reg /\ timestamp_ctr >= SHORT - 1
        /\ capture_enable /\ ctr_running
    BY <2>1, FsmStep, CtrStep DEF capture_allowed
  <2>3. timestamp_ctr < FULL
    BY <2>2, Numbers DEF IInv, ClockInv
  <2>4. last_captured /\ acc = 0
    BY <1>2, <2>2, Numbers DEF LastInv
  <2>5. ~O_data_wr
    BY <1>2, <2>2, Numbers DEF CtrAge
  <2> QED BY <1>1, <2>2, <2>3, <2>4, <2>5, CtrStep, Numbers
<1>5. CtrAge'
  <2>1. state' = DATA => timestamp_ctr' = 0
    BY CtrStep, FsmStep
  <2>2. O_data_wr' => timestamp_ctr' <= 1
    <3>1. state = DATA \/ state = TIME => timestamp_ctr' <= 1
      BY <1>2, CtrStep, Numbers DEF CtrAge
    <3> QED BY <1>1, <3>1, Numbers
  <2>3. wr_en' => timestamp_ctr' <= 2
    BY <1>1, <1>2, CtrStep, Numbers DEF CtrAge
  <2> QED BY <1>4, <2>1, <2>2, <2>3, FsmStep DEF CtrAge
<1>6. acc' <= FULL /\ acc' \in Nat
  <2>1. O_command = TIME /\ O_data_wr => O_time = timestamp
    BY <1>2 DEF OutputInv, O_time
  <2> QED BY <1>1, <1>2, <2>1, Numbers DEF AccInv, OutputInv
<1>7. state_r' = TIME => acc' + timestamp' <= FULL
  <2>1. SUFFICES ASSUME state = TIME PROVE acc' + timestamp' <= FULL
    BY <1>1
  <2>2. CASE ~ctr_running
    BY <1>1, <1>6, <2>2, Numbers
  <2>3. CASE ctr_running
    <3>1. usb_event_reg /\ timestamp_ctr >= SHORT /\ acc = 0
      BY <1>2, <2>1, <2>3 DEF CtrAge
    <3>2. ~O_data_wr
      BY <1>2, <3>1, Numbers DEF CtrAge
    <3> QED BY <1>1, <2>3, <3>1, <3>2, Numbers
  <2> QED BY <2>2, <2>3
<1> QED BY <1>3, <1>5, <1>6, <1>7 DEF AccInv

\* An event that is due finds the FSM with a short time, or writing the TIME.
LEMMA ShortStep ==
  ASSUME IInv, MaxIdle <= FULL + 1,
         NEW e, NEW arm, NEW en, NEW stop, Edge(e, arm, en, stop)
  PROVE  ShortWhenDue'
<1>1. SUFFICES ASSUME state' = IDLE, usb_event_reg', capture_allowed', ~timestamps_disable
               PROVE  timestamp_ctr' < SHORT
  BY DEF ShortWhenDue, short_timestamp, Fits, Edge, Neighbours
<1>2. e
  BY <1>1 DEF Edge
<1>3. CtrAtStop'
  BY StopStep
<1>4. CASE ~ctr_running'
  BY <1>3, <1>4, CtrStep, Numbers DEF CtrAtStop
<1>5. CASE ctr_running'
  <2>1. capture_enable /\ capture_allowed /\ (usb_event_reg \/ ctr_running)
    BY <1>1, <1>5, CtrStep, EnableStep DEF capture_allowed
  <2>2. CASE state = IDLE
    <3>1. short_timestamp_pre
      BY <1>1, <1>2, <2>1, <2>2, FsmStep
    <3>2. timestamp_ctr < SHORT - 1
      BY <1>1, <3>1 DEF short_timestamp_pre, Fits
    <3> QED BY <3>2, CtrStep, Numbers
  <2>3. CASE state = DATA
    <3>1. timestamp_ctr = 0
      BY <2>3 DEF IInv, CtrAge
    <3> QED BY <3>1, CtrStep, Numbers
  <2>4. CASE state = TIME
    <3>1. usb_event_reg
      BY <2>4 DEF IInv, CtrAge
    <3> QED BY <1>1, <2>1, <3>1, FsmStep DEF IDLE, DATA
  <2> QED BY <2>2, <2>3, <2>4, Numbers
<1> QED BY <1>4, <1>5

LEMMA DueStep ==
  ASSUME IInv, MaxIdle <= FULL + 1,
         NEW e, NEW arm, NEW en, NEW stop, Edge(e, arm, en, stop)
  PROVE  DueInv' /\ EntryPerEvent'
<1>1. /\ due2' = Fate /\ due3' = due2 /\ host_stat' = HostStat /\ host_synced' = HostSynced
      /\ usb_event_reg' = e /\ stat2' = stat1 /\ stat3' = stat2 /\ (~e => stat1' = stat1)
      /\ O_data_wr' = (state # IDLE)
      /\ O_command' = IF state = DATA THEN (IF rx2 THEN DATA ELSE STAT)
                      ELSE IF state = TIME THEN TIME ELSE O_command
  BY DEF Edge, History, WriteEntry
<1>2. DueInv /\ EntryPerEvent /\ due3 \in {"none", "missed", "first", "next"}
  BY DEF IInv, TypeOK
<1>3. due2' \in {"first", "next"} <=> usb_event_reg /\ capture_allowed
  BY <1>1 DEF Fate
<1>4. due2' = "none" <=> ~usb_event_reg
  BY <1>1 DEF Fate
<1>5. HostSynced => HostStat = stat3
  BY <1>2 DEF HostSynced, HostStat, DueInv, EntryPerEvent
<1>6. DueInv'
  BY <1>1, <1>2, <1>3, <1>4, <1>5, FsmStep DEF DueInv
<1>7. EntryPerEvent'
  BY <1>1, <1>2, Numbers DEF EntryPerEvent, DueInv, IDLE, DATA, STAT, TIME
<1> QED BY <1>6, <1>7

LEMMA CountStep ==
  ASSUME IInv, MaxIdle <= FULL + 1,
         NEW e, NEW arm, NEW en, NEW stop, Edge(e, arm, en, stop)
  PROVE  CountInv' /\ capture_count' \in 0 .. COUNT_MOD - 1
<1>1. /\ capture_len' = capture_len
      /\ O_data_wr' = (state # IDLE)
      /\ capture_count' = IF arm THEN 0
                          ELSE IF O_data_wr THEN (capture_count + 1) % COUNT_MOD
                          ELSE capture_count
  BY DEF Edge, Neighbours, WriteEntry, CountEntries
<1>2. (capture_count + 1) % COUNT_MOD \in 0 .. COUNT_MOD - 1
      /\ (capture_count + 1) % COUNT_MOD <= capture_count + 1
  <2>1. capture_count + 1 \in Nat
    BY Numbers
  <2> QED BY <2>1, ModInRange, Numbers
<1>3. capture_count' \in 0 .. COUNT_MOD - 1
      /\ capture_count' <= (IF O_data_wr THEN capture_count + 1 ELSE capture_count)
  BY <1>1, <1>2, Numbers
<1>4. ASSUME state' # IDLE, capture_len > 0 PROVE capture_count < capture_len
  BY <1>4, FsmStep, Numbers DEF capture_allowed
<1>5. CountInv
  BY DEF IInv
<1>6. O_data_wr' <=> state # IDLE
  BY <1>1
<1>7. CountInv'
  <2> SUFFICES ASSUME capture_len > 0
               PROVE  /\ capture_count' <= capture_len + 2
                      /\ state # IDLE => capture_count' <= capture_len + 1
                      /\ state' # IDLE => capture_count' <= capture_len
    BY <1>1, <1>6 DEF CountInv
  <2>1. /\ capture_count <= capture_len + 2
        /\ O_data_wr => capture_count <= capture_len + 1
        /\ state # IDLE => capture_count <= capture_len
    BY <1>5 DEF CountInv
  <2> QED BY <1>3, <1>4, <2>1, Numbers
<1> QED BY <1>3, <1>7

\* The gap of an event passes the counter, two registers and acc.
LEMMA GapStep ==
  ASSUME IInv, MaxIdle <= FULL + 1,
         NEW e, NEW arm, NEW en, NEW stop, Edge(e, arm, en, stop)
  PROVE  GapInv'
<1>1. /\ due2' = Fate /\ due3' = due2 /\ gap3' = gap2
      /\ gap2' = (IF Fate = "next" THEN gap1 ELSE 0)
      /\ state_r' = state /\ state_r2' = state_r
      /\ timestamps_disable' = timestamps_disable
      /\ O_data_wr' = (state # IDLE)
      /\ timestamp_reg' = timestamp
      /\ timestamp' = IF ~ctr_running THEN 0
                      ELSE IF usb_event_reg THEN timestamp_ctr ELSE timestamp
      /\ acc' = IF ~O_data_wr THEN acc ELSE IF O_command = TIME THEN acc + O_time ELSE 0
  BY DEF Edge, History, Fsm, Neighbours, WriteEntry, TimestampCounter
<1>2. OutputInv /\ CtrAge /\ LastInv /\ GapInv /\ DueInv /\ ShortWhenDue /\ ClockInv
  BY DEF IInv
<1>3. IDLE # DATA /\ IDLE # TIME /\ DATA # TIME
  BY DEF IDLE, DATA, TIME
<1>4. ASSUME due2' = "next", ~timestamps_disable
      PROVE  /\ timestamp' + 1 = gap2'
             /\ IF state_r' = TIME THEN acc' = 0
                ELSE timestamp' < SHORT /\ (O_data_wr' \/ acc' = 0)
  <2>1. usb_event_reg /\ capture_allowed /\ last_captured /\ ctr_running
    BY <1>1, <1>2, <1>4 DEF Fate, LastInv
  <2>2. timestamp' = timestamp_ctr /\ timestamp' + 1 = gap2'
    BY <1>1, <1>2, <1>4, <2>1 DEF ClockInv
  <2>3. CASE state = TIME
    <3>1. timestamp_ctr >= SHORT /\ acc = 0
      BY <1>2, <2>1, <2>3 DEF CtrAge
    <3>2. ~O_data_wr
      BY <1>2, <3>1, Numbers DEF CtrAge
    <3> QED BY <1>1, <2>2, <2>3, <3>1, <3>2
  <2>4. CASE state = DATA
    <3>1. timestamp_ctr = 0
      BY <1>2, <2>4 DEF CtrAge
    <3>2. O_data_wr' /\ state_r' # TIME
      BY <1>1, <1>3, <2>4
    <3> QED BY <2>2, <3>1, <3>2, Numbers
  <2>5. CASE state = IDLE
    <3>1. timestamp_ctr < SHORT
      BY <1>2, <1>4, <2>1, <2>5 DEF ShortWhenDue, short_timestamp, Fits
    <3>2. timestamp_ctr # 0
      BY <1>2, <1>3, <2>1, <2>5 DEF LastInv
    <3>3. acc' = 0
      <4>1. CASE timestamp_ctr = 1
        BY <1>1, <1>2, <1>3, <2>1, <4>1 DEF LastInv, OutputInv
      <4>2. CASE timestamp_ctr >= 2
        <5>1. acc = 0
          BY <1>2, <2>1, <4>2 DEF LastInv
        <5>2. ~O_data_wr
          BY <1>2, <4>2, Numbers DEF CtrAge
        <5> QED BY <1>1, <5>1, <5>2
      <4> QED BY <3>2, <4>1, <4>2, Numbers
    <3> QED BY <1>1, <1>3, <2>2, <2>5, <3>1, <3>3
  <2> QED BY <2>3, <2>4, <2>5, Numbers
<1>5. ASSUME due3' = "next"
      PROVE  /\ state_r' = DATA
             /\ ~timestamps_disable' =>
                  /\ timestamp_reg' + 1 = gap3'
                  /\ IF state_r2' = TIME THEN acc' = timestamp_reg'
                                         ELSE timestamp_reg' < SHORT /\ acc' = 0
  <2>1. due2 = "next" /\ state = DATA
    BY <1>1, <1>2, <1>5 DEF DueInv
  <2>2. SUFFICES ASSUME ~timestamps_disable
                 PROVE  /\ timestamp + 1 = gap2
                        /\ IF state_r = TIME THEN acc' = timestamp
                                             ELSE timestamp < SHORT /\ acc' = 0
    BY <1>1, <2>1
  <2>3. /\ timestamp + 1 = gap2
        /\ IF state_r = TIME THEN acc = 0 ELSE timestamp < SHORT /\ (O_data_wr \/ acc = 0)
    BY <1>2, <2>1, <2>2 DEF GapInv
  <2>4. CASE state_r = TIME
    <3>1. O_data_wr /\ O_command = TIME /\ O_time = timestamp
      BY <1>2, <1>3, <2>4 DEF OutputInv, O_time
    <3> QED BY <1>1, <2>3, <2>4, <3>1, Numbers
  <2>5. CASE state_r # TIME
    <3>1. O_data_wr => O_command # TIME
      BY <1>2, <2>5 DEF OutputInv
    <3> QED BY <1>1, <2>3, <2>5, <3>1
  <2> QED BY <2>4, <2>5
<1> QED BY <1>1, <1>4, <1>5 DEF GapInv

LEMMA TypeStep ==
  ASSUME IInv, MaxIdle <= FULL + 1,
         NEW e, NEW arm, NEW en, NEW stop, Edge(e, arm, en, stop)
  PROVE  TypeOK'
<1>1. {rx1, rx2, usb_event_reg, ctr_running, O_data_wr, capture_enable,
       capturing_r, fifo_stop, wr_en, last_captured, host_synced,
       timestamps_disable}' \subseteq BOOLEAN
  <2>1. rx1' \in BOOLEAN /\ rx2' \in BOOLEAN /\ usb_event_reg' \in BOOLEAN
    BY DEF Edge, IInv, TypeOK
  <2>2. ctr_running' \in BOOLEAN /\ O_data_wr' \in BOOLEAN
    BY Numbers DEF Edge, TimestampCounter, WriteEntry
  <2>3. /\ capture_enable' \in BOOLEAN /\ capturing_r' \in BOOLEAN /\ fifo_stop' \in BOOLEAN
        /\ wr_en' \in BOOLEAN /\ timestamps_disable' \in BOOLEAN
    BY Numbers DEF Edge, Neighbours, capture_allowed
  <2>4. last_captured' \in BOOLEAN /\ host_synced' \in BOOLEAN
    BY Numbers DEF Edge, History, HostSynced, capture_allowed, IInv, TypeOK
  <2> QED BY <2>1, <2>2, <2>3, <2>4
<1>2. {stat1, stat2, stat3, host_stat}' \subseteq Stat
  BY DEF Edge, History, HostStat, IInv, TypeOK
<1>3. {state, state_r, state_r2}' \subseteq {IDLE, DATA, TIME}
  <2>1. state_r' = state /\ state_r2' = state_r
    BY DEF Edge, Fsm
  <2> QED BY <2>1, FsmStep, Numbers
<1>4. {timestamp_ctr, timestamp, timestamp_reg}' \subseteq 0 .. FULL
  <2>1. timestamp' \in 0 .. FULL /\ timestamp_reg' \in 0 .. FULL
    BY Numbers DEF Edge, TimestampCounter
  <2> QED BY <2>1, CtrStep
<1>5. O_command' \in {DATA, STAT, TIME} /\ capture_len' \in CaptureLens
  BY DEF Edge, WriteEntry, Neighbours, IInv, TypeOK
<1>6. since' \in 1 .. MaxIdle /\ {gap1, gap2, gap3}' \subseteq 0 .. MaxIdle
  <2>1. since' \in 1 .. MaxIdle
    BY Numbers DEF Edge, History
  <2>2. gap1' \in 0 .. MaxIdle /\ gap2' \in 0 .. MaxIdle /\ gap3' \in 0 .. MaxIdle
    BY Numbers DEF Edge, History
  <2> QED BY <2>1, <2>2
<1>7. {due2, due3}' \subseteq {"none", "missed", "first", "next"}
  BY DEF Edge, History, Fate, IInv, TypeOK
<1>8. acc' \in 0 .. 2 * FULL
  <2>1. acc' \in Nat
    BY Numbers DEF Edge, History, O_time
  <2>2. acc' <= FULL
    BY AgeStep DEF AccInv
  <2> QED BY <2>1, <2>2, Numbers
<1>9. capture_count' \in 0 .. COUNT_MOD - 1
  BY CountStep
<1> QED BY <1>1, <1>2, <1>3, <1>4, <1>5, <1>6, <1>7, <1>8, <1>9 DEF TypeOK

LEMMA IInvStep == ASSUME IInv, MaxIdle <= FULL + 1, [Next]_vars PROVE IInv'
<1>1. CASE Next
  <2>1. PICK e, arm, en, stop \in BOOLEAN : Edge(e, arm, en, stop)
    BY <1>1, NextIsEdge
  <2> QED BY <2>1, TypeStep, AgeStep, StopStep, ShortStep, DueStep, ClockStep, LastStep,
             GapStep, CountStep DEF IInv
<1>2. CASE UNCHANGED vars
  <2> USE <1>2 DEF vars, pipeVars, fsmVars, timeVars, outVars, envVars, historyVars
  <2>1. TypeOK'
    BY DEF IInv, TypeOK
  <2>2. OutputInv' /\ CtrAge' /\ CtrAtStop' /\ ShortWhenDue' /\ DueInv' /\ EntryPerEvent'
    BY DEF IInv, OutputInv, CtrAge, CtrAtStop, ShortWhenDue, DueInv, EntryPerEvent,
           capture_allowed, short_timestamp, Fits
  <2>3. ClockInv' /\ LastInv' /\ GapInv' /\ AccInv' /\ CountInv'
    BY DEF IInv, ClockInv, LastInv, GapInv, AccInv, CountInv
  <2> QED BY <2>1, <2>2, <2>3 DEF IInv
<1> QED BY <1>1, <1>2

LEMMA Invariance == MaxIdle <= FULL + 1 => (Spec => []IInv)
<1> SUFFICES ASSUME MaxIdle <= FULL + 1 PROVE Spec => []IInv
  OBVIOUS
<1>1. Init => IInv
  BY InitIInv
<1>2. IInv /\ [Next]_vars => IInv'
  BY IInvStep
<1> QED BY <1>1, <1>2, PTL DEF Spec

---------------------------------------------------------------------------
(* fe_capture.v:142, with the types: a capture takes at most two entries   *)
(* more than it was asked for, and no counter leaves its width.            *)
THEOREM Overshoot == MaxIdle <= FULL + 1 => (Spec => []OvershootAtMostTwo)
<1> SUFFICES ASSUME MaxIdle <= FULL + 1 PROVE Spec => []OvershootAtMostTwo
  OBVIOUS
<1>1. IInv => OvershootAtMostTwo
  BY DEF IInv, CountInv, OvershootAtMostTwo
<1> QED BY <1>1, Invariance, PTL

(* Every event in a capture becomes an entry, and no entry is written that *)
(* is not one: the FSM is never elsewhere when an event is due.            *)
THEOREM NoEventLost == MaxIdle <= FULL + 1 => (Spec => []EntryPerEvent)
<1> SUFFICES ASSUME MaxIdle <= FULL + 1 PROVE Spec => []EntryPerEvent
  OBVIOUS
<1>1. IInv => EntryPerEvent
  BY DEF IInv
<1> QED BY <1>1, Invariance, PTL

(* The status lines the host rebuilds from the entries are the real ones   *)
(* from the first event of a capture to its last.                          *)
THEOREM StatusIsCurrent == MaxIdle <= FULL + 1 => (Spec => []HostStatusCurrent)
<1> SUFFICES ASSUME MaxIdle <= FULL + 1 PROVE Spec => []HostStatusCurrent
  OBVIOUS
<1>1. IInv => HostStatusCurrent
  BY DEF IInv, DueInv, EntryPerEvent, HostStatusCurrent, HostSynced, HostStat, TypeOK
<1> QED BY <1>1, Invariance, PTL

(* The host's clock is exact: the TIME entries and short timestamps it     *)
(* adds up (usb.py, split_data) give the cycles between two captured       *)
(* events, however O_time was cut to its bits.                             *)
THEOREM TimeIsExact == MaxIdle <= FULL + 1 => (Spec => []HostTimeExact)
<1> SUFFICES ASSUME MaxIdle <= FULL + 1 PROVE Spec => []HostTimeExact
  OBVIOUS
<1>1. IInv => HostTimeExact
  <2> SUFFICES ASSUME IInv, due3 = "next", ~timestamps_disable
               PROVE  acc + (O_time % SHORT) + 1 = gap3
    BY DEF HostTimeExact
  <2>1. /\ state_r = DATA /\ timestamp_reg + 1 = gap3
        /\ IF state_r2 = TIME THEN acc = timestamp_reg ELSE timestamp_reg < SHORT /\ acc = 0
    BY DEF IInv, GapInv
  <2>2. O_time = IF state_r2 = TIME THEN 0 ELSE timestamp_reg
    BY <2>1 DEF O_time, DATA, TIME
  <2>3. O_time \in 0 .. SHORT - 1
    BY <2>1, <2>2, Numbers
  <2>4. O_time % SHORT = O_time
    BY <2>3, ModOfSmall, Numbers
  <2> QED BY <2>1, <2>2, <2>4, Numbers
<1> QED BY <1>1, Invariance, PTL
===========================================================================
