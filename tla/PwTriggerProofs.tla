--------------------------- MODULE PwTriggerProofs ---------------------------
(***************************************************************************)
(* Proofs about pw_trigger.v: the pulse crossing that brings the match     *)
(* into its clock (line 124, CdcPulse) for synchronisers of any length,    *)
(* and the trigger output behind it (PwTrigger) for any number of pulses,  *)
(* any delays and widths, and any calls of set_trigger() at any moment.    *)
(*                                                                         *)
(* The crossing: IInv is inductive.  Outside reset the flops form one wave *)
(* (OneWave), the edge detector is at most one place behind (EdgeLag) and  *)
(* the output is high only in the wave's rise (PulseInRise); during reset  *)
(* a domain that had an edge is all zeros.                                 *)
(*                                                                         *)
(* The output: RegInv says what a half-finished or refused set_trigger()   *)
(* leaves in the registers; RunInv says, for a run the registers do not    *)
(* change in, what is loaded and counted when pulse trigger_index is on    *)
(* its way.                                                                *)
(***************************************************************************)
EXTENDS PwTrigger, CdcPulse, TLAPS

---------------------------------------------------------------------------
(* The crossing.                                                           *)

\* A synchroniser's edge keeps it a synchroniser.
LEMMA ShiftType ==
  ASSUME NEW pipe \in [Stages -> Bit], NEW in \in Bit
  PROVE  Shift(pipe, in) \in [Stages -> Bit]
BY SyncStagesAssumption DEF Shift, Stages, Bit

LEMMA TypeInit == Init => TypeOK
BY DEF Init, TypeOK, Zeros, Bit, Stages

LEMMA TypeStep == TypeOK /\ [Next]_vars => TypeOK'
<1> SUFFICES ASSUME TypeOK, [Next]_vars PROVE TypeOK'
  OBVIOUS
<1> USE DEF TypeOK
<1>z. Zeros \in [Stages -> Bit]
  BY DEF Zeros, Bit
<1>n. SYNC_STAGES \in Stages
  BY SyncStagesAssumption DEF Stages
<1>s. ASSUME NEW p \in Bit, SrcEdge(p)
      PROVE  /\ src_req' \in Bit /\ src_ack' \in Bit
             /\ ack_pipe' \in [Stages -> Bit] /\ src_cleared' \in BOOLEAN
  BY <1>s, <1>z, <1>n, ShiftType DEF SrcEdge, NextReq, Bit
<1>d. ASSUME DstEdge
      PROVE  /\ dst_req' \in Bit /\ dst_req_r' \in Bit /\ dst_pulse' \in Bit
             /\ req_pipe' \in [Stages -> Bit] /\ dst_cleared' \in BOOLEAN
  BY <1>d, <1>z, <1>n, ShiftType DEF DstEdge, Bit
<1>1. ASSUME NEW p \in Bit, SrcTick(p) PROVE TypeOK'
  BY <1>1, <1>s DEF SrcTick, dstVars
<1>2. CASE DstTick
  BY <1>2, <1>d DEF DstTick, srcVars
<1>3. ASSUME NEW p \in Bit, BothTick(p) PROVE TypeOK'
  BY <1>3, <1>s, <1>d DEF BothTick
<1>4. CASE AssertReset \/ ReleaseReset
  BY <1>4 DEF AssertReset, ReleaseReset, srcVars, dstVars, Bit
<1>5. CASE UNCHANGED vars
  BY <1>5 DEF vars, srcVars, dstVars, resetVars
<1> QED BY <1>1, <1>2, <1>3, <1>4, <1>5 DEF Next

\* Every flop of cdc_pulse.v keeps its type.
THEOREM PulseTypeCorrect == Spec => []TypeOK
<1>1. TypeOK /\ [Next]_vars => TypeOK'
  BY TypeStep
<1> QED BY <1>1, TypeInit, PTL DEF Spec

---------------------------------------------------------------------------
\* The wave, one clause at a time, over an arbitrary step of each domain.
LEMMA SrcKeepsWave ==
  ASSUME TypeOK, OneWave, EdgeLag, PulseInRise, reset = 0,
         NEW p \in Bit, SrcEdge(p), UNCHANGED dstVars
  PROVE  OneWave' /\ EdgeLag' /\ PulseInRise'
<1> USE SyncStagesAssumption DEF Stages, Bit
<1> USE DEF TypeOK
<1>1. /\ src_req' = NextReq(p)
      /\ ack_pipe' = [i \in Stages |-> IF i = 1 THEN dst_req ELSE ack_pipe[i - 1]]
      /\ src_ack' = ack_pipe[SYNC_STAGES]
      /\ req_pipe' = req_pipe /\ dst_req' = dst_req
      /\ dst_req_r' = dst_req_r /\ dst_pulse' = dst_pulse
  BY DEF SrcEdge, Shift, dstVars
<1>2. EdgeLag' /\ PulseInRise'
  BY <1>1 DEF EdgeLag, PulseInRise
<1>3. CASE src_req' = src_req
  BY <1>1, <1>2, <1>3 DEF OneWave
<1>4. CASE src_req' # src_req
  <2>1. src_ack = src_req
    BY <1>1, <1>4 DEF NextReq, busy
  <2>2. /\ \A i \in Stages : ack_pipe[i] = src_req /\ req_pipe[i] = src_req
        /\ dst_req = src_req
    BY <2>1 DEF OneWave
  <2> QED BY <1>1, <1>2, <1>4, <2>1, <2>2 DEF OneWave
<1> QED BY <1>2, <1>3, <1>4

LEMMA DstKeepsWave ==
  ASSUME TypeOK, OneWave, EdgeLag, PulseInRise, reset = 0,
         DstEdge, UNCHANGED srcVars
  PROVE  OneWave' /\ EdgeLag' /\ PulseInRise'
<1> USE SyncStagesAssumption DEF Stages, Bit
<1> USE DEF TypeOK
<1>1. /\ req_pipe' = [i \in Stages |-> IF i = 1 THEN src_req ELSE req_pipe[i - 1]]
      /\ dst_req' = req_pipe[SYNC_STAGES]
      /\ dst_req_r' = dst_req
      /\ dst_pulse' = IF dst_req_r = 0 /\ dst_req = 1 THEN 1 ELSE 0
      /\ src_req' = src_req /\ ack_pipe' = ack_pipe /\ src_ack' = src_ack
  BY DEF DstEdge, Shift, srcVars
<1>2. OneWave'
  BY <1>1 DEF OneWave
<1>3. EdgeLag'
  BY <1>1 DEF OneWave, EdgeLag
<1>4. PulseInRise'
  BY <1>1 DEF EdgeLag, PulseInRise
<1> QED BY <1>2, <1>3, <1>4

\* Coincident edges: each domain samples the other's old value.
LEMMA BothKeepWave ==
  ASSUME TypeOK, OneWave, EdgeLag, PulseInRise, reset = 0,
         NEW p \in Bit, SrcEdge(p), DstEdge
  PROVE  OneWave' /\ EdgeLag' /\ PulseInRise'
<1> USE SyncStagesAssumption DEF Stages, Bit
<1> USE DEF TypeOK
<1>1. /\ src_req' = NextReq(p)
      /\ ack_pipe' = [i \in Stages |-> IF i = 1 THEN dst_req ELSE ack_pipe[i - 1]]
      /\ src_ack' = ack_pipe[SYNC_STAGES]
      /\ req_pipe' = [i \in Stages |-> IF i = 1 THEN src_req ELSE req_pipe[i - 1]]
      /\ dst_req' = req_pipe[SYNC_STAGES]
      /\ dst_req_r' = dst_req
      /\ dst_pulse' = IF dst_req_r = 0 /\ dst_req = 1 THEN 1 ELSE 0
  BY DEF SrcEdge, DstEdge, Shift
<1>2. EdgeLag'
  BY <1>1 DEF OneWave, EdgeLag
<1>3. PulseInRise'
  BY <1>1 DEF EdgeLag, PulseInRise
<1>4. CASE src_req' = src_req
  BY <1>1, <1>2, <1>3, <1>4 DEF OneWave
<1>5. CASE src_req' # src_req
  <2>1. src_ack = src_req
    BY <1>1, <1>5 DEF NextReq, busy
  <2>2. /\ \A i \in Stages : ack_pipe[i] = src_req /\ req_pipe[i] = src_req
        /\ dst_req = src_req
    BY <2>1 DEF OneWave
  <2> QED BY <1>1, <1>2, <1>3, <1>5, <2>1, <2>2 DEF OneWave
<1> QED BY <1>4, <1>5

\* All zeros is a wave: what a reset leaves behind is a good initial state.
LEMMA ZerosAreAWave ==
  ASSUME TypeOK, SrcZero, DstZero PROVE OneWave /\ EdgeLag /\ PulseInRise
BY DEF SrcZero, DstZero, OneWave, EdgeLag, PulseInRise, Zeros

LEMMA IInvInit == Init => IInv
BY TypeInit, ZerosAreAWave DEF Init, IInv, SrcZero, DstZero

LEMMA IInvStep == IInv /\ [Next]_vars => IInv'
<1> SUFFICES ASSUME IInv, [Next]_vars PROVE IInv'
  OBVIOUS
<1>t. TypeOK /\ TypeOK'
  BY TypeStep DEF IInv
<1>b. reset \in {0, 1}
  BY <1>t DEF TypeOK, Bit
<1>1. ASSUME NEW p \in Bit, SrcTick(p) PROVE IInv'
  <2>1. CASE reset = 0
    BY <1>t, <1>1, <2>1, SrcKeepsWave DEF SrcTick, IInv
  <2>2. CASE reset = 1
    BY <1>t, <1>1, <2>2 DEF SrcTick, SrcEdge, IInv, SrcZero, DstZero, dstVars
  <2> QED BY <1>b, <2>1, <2>2
<1>2. CASE DstTick
  <2>1. CASE reset = 0
    BY <1>t, <1>2, <2>1, DstKeepsWave DEF DstTick, IInv
  <2>2. CASE reset = 1
    BY <1>t, <1>2, <2>2 DEF DstTick, DstEdge, IInv, SrcZero, DstZero, srcVars
  <2> QED BY <1>b, <2>1, <2>2
<1>3. ASSUME NEW p \in Bit, BothTick(p) PROVE IInv'
  <2>1. CASE reset = 0
    BY <1>t, <1>3, <2>1, BothKeepWave DEF BothTick, IInv
  <2>2. CASE reset = 1
    BY <1>t, <1>3, <2>2 DEF BothTick, SrcEdge, DstEdge, IInv, SrcZero, DstZero
  <2> QED BY <1>b, <2>1, <2>2
<1>4. CASE AssertReset
  BY <1>t, <1>4 DEF AssertReset, IInv
<1>5. CASE ReleaseReset
  <2>1. SrcZero' /\ DstZero' /\ reset' = 0
    BY <1>5 DEF ReleaseReset, IInv, SrcZero, DstZero, srcVars, dstVars
  <2>2. OneWave' /\ EdgeLag' /\ PulseInRise'
    BY <1>t, <2>1 DEF SrcZero, DstZero, OneWave, EdgeLag, PulseInRise, Zeros
  <2> QED BY <1>t, <2>1, <2>2 DEF IInv
<1>6. CASE UNCHANGED vars
  BY <1>t, <1>6 DEF vars, srcVars, dstVars, resetVars, IInv, OneWave, EdgeLag,
     PulseInRise, SrcZero, DstZero
<1> QED BY <1>1, <1>2, <1>3, <1>4, <1>5, <1>6 DEF Next

\* Request and acknowledge are one wave, for any depth of synchroniser.
THEOREM WaveInvariant == Spec => []IInv
BY IInvInit, IInvStep, PTL DEF Spec

LEMMA IdleFromInv == IInv => IdleMeansDelivered
<1> SUFFICES ASSUME IInv, reset = 0, ~busy PROVE ~InFlight /\ dst_pulse = 0
  BY DEF IdleMeansDelivered
<1>1. src_req = 0 /\ src_ack = 0
  BY DEF busy, IInv, TypeOK, Bit
<1>2. \A i \in Stages : ack_pipe[i] = 0
  BY <1>1 DEF IInv, OneWave
<1>3. dst_req = 0
  BY <1>1, <1>2, SyncStagesAssumption DEF IInv, OneWave, Stages
<1> QED BY <1>1, <1>3 DEF InFlight, IInv, PulseInRise, TypeOK, Bit

\* A source that is free has had its last pulse delivered.
THEOREM FreeSourceIsDelivered == Spec => []IdleMeansDelivered
BY WaveInvariant, IdleFromInv, PTL

---------------------------------------------------------------------------
\* The initial state is an empty channel.
LEMMA ChannelInit == Init => Channel!Init
BY DEF Init, Channel!Init, InFlight

\* What an edge of src_clk does to the channel: it accepts, or nothing.
LEMMA SrcEdgeInChannel ==
  ASSUME IInv, IInv', NEW p \in Bit, SrcTick(p), reset = 0
  PROVE  Channel!Accept \/ UNCHANGED <<InFlight, dst_pulse = 1, reset>>
<1>1. /\ src_req' = NextReq(p) /\ dst_req' = dst_req /\ dst_req_r' = dst_req_r
      /\ dst_pulse' = dst_pulse /\ reset' = reset
  BY DEF SrcTick, SrcEdge, dstVars
<1>2. CASE src_req' = src_req \/ dst_req = 1
  BY <1>1, <1>2 DEF InFlight
<1>3. CASE src_req' # src_req /\ dst_req # 1
  <2>1. dst_req = 0
    BY <1>3 DEF IInv, TypeOK, Bit
  <2>2. CASE src_req = 1
    <3>1. src_ack = 1
      BY <1>1, <1>3, <2>2 DEF NextReq, busy
    <3>2. dst_req = 1
      BY <2>2, <3>1, SyncStagesAssumption DEF IInv, OneWave, Stages
    <3> QED BY <2>1, <3>2
  <2>3. CASE src_req = 0
    <3>1. ~busy /\ src_req' = 1
      BY <1>1, <1>3, <2>3 DEF NextReq, busy, IInv, TypeOK, Bit
    <3>2. ~InFlight /\ dst_pulse = 0
      BY <3>1, IdleFromInv DEF IdleMeansDelivered
    <3>3. InFlight'
      BY <1>1, <2>1, <3>1 DEF InFlight
    <3> QED BY <1>1, <3>2, <3>3 DEF Channel!Accept, InFlight
  <2> QED BY <2>2, <2>3 DEF IInv, TypeOK, Bit
<1> QED BY <1>2, <1>3

\* What an edge of dst_clk does, with src_req changing or not: it delivers,
\* ends the pulse, or nothing.
LEMMA DstEdgeInChannel ==
  ASSUME IInv, IInv', DstTick, reset = 0
  PROVE  \/ Channel!Deliver \/ Channel!EndPulse
         \/ UNCHANGED <<InFlight, dst_pulse = 1, reset>>
<1>1. /\ dst_req' = req_pipe[SYNC_STAGES] /\ dst_req_r' = dst_req
      /\ dst_pulse' = IF dst_req_r = 0 /\ dst_req = 1 THEN 1 ELSE 0
      /\ src_req' = src_req /\ reset' = reset
  BY DEF DstTick, DstEdge, srcVars
<1>2. /\ dst_req \in Bit /\ dst_req_r \in Bit /\ src_req \in Bit
      /\ req_pipe[SYNC_STAGES] \in Bit /\ SYNC_STAGES \in Stages
  BY SyncStagesAssumption DEF IInv, TypeOK, Stages
<1>3. req_pipe[SYNC_STAGES] # dst_req =>
        /\ dst_req_r = dst_req
        /\ req_pipe[SYNC_STAGES] = src_req
  BY <1>2 DEF IInv, OneWave, EdgeLag, Bit
<1>4. dst_pulse = 1 => dst_req = 1 /\ dst_req_r = 1
  BY DEF IInv, PulseInRise
<1>5. dst_req_r # dst_req => req_pipe[SYNC_STAGES] = dst_req
  BY <1>2 DEF IInv, EdgeLag
<1>6. CASE dst_req_r = 0 /\ dst_req = 1
  BY <1>1, <1>2, <1>5, <1>6 DEF Channel!Deliver, InFlight, Bit
<1>7. CASE ~(dst_req_r = 0 /\ dst_req = 1)
  <2>1. dst_pulse' = 0
    BY <1>1, <1>7
  <2>2. InFlight' = InFlight
    BY <1>1, <1>2, <1>3, <1>5, <1>7 DEF InFlight, Bit
  <2> QED BY <1>1, <2>1, <2>2 DEF Channel!EndPulse
<1> QED BY <1>6, <1>7

\* Coincident edges do what the two edges do, never an Accept and a Deliver.
LEMMA BothEdgesInChannel ==
  ASSUME IInv, IInv', NEW p \in Bit, BothTick(p), reset = 0
  PROVE  \/ Channel!Accept \/ Channel!Deliver \/ Channel!EndPulse
         \/ UNCHANGED <<InFlight, dst_pulse = 1, reset>>
<1>1. /\ dst_req' = req_pipe[SYNC_STAGES] /\ dst_req_r' = dst_req
      /\ dst_pulse' = IF dst_req_r = 0 /\ dst_req = 1 THEN 1 ELSE 0
      /\ src_req' = NextReq(p) /\ reset' = reset
  BY DEF BothTick, SrcEdge, DstEdge
<1>2. /\ dst_req \in Bit /\ dst_req_r \in Bit /\ src_req \in Bit
      /\ src_ack \in Bit /\ dst_pulse \in Bit
      /\ req_pipe[SYNC_STAGES] \in Bit /\ SYNC_STAGES \in Stages
  BY SyncStagesAssumption DEF IInv, TypeOK, Stages
<1>3. req_pipe[SYNC_STAGES] # dst_req =>
        /\ dst_req_r = dst_req
        /\ req_pipe[SYNC_STAGES] = src_req
  BY <1>2 DEF IInv, OneWave, EdgeLag, Bit
<1>4. dst_pulse = 1 => dst_req = 1 /\ dst_req_r = 1
  BY DEF IInv, PulseInRise
<1>5. dst_req_r # dst_req => req_pipe[SYNC_STAGES] = dst_req
  BY <1>2 DEF IInv, EdgeLag
<1>6. src_ack = src_req => req_pipe[SYNC_STAGES] = src_req /\ dst_req = src_req
  BY <1>2 DEF IInv, OneWave
<1>7. CASE src_ack = 0 /\ src_req = 0
  BY <1>1, <1>2, <1>4, <1>6, <1>7
     DEF Channel!Accept, Channel!EndPulse, InFlight, Bit
<1>8. CASE src_ack = 1 \/ src_req = 1
  <2>1. NextReq(p) = IF src_ack = 1 THEN 0 ELSE src_req
    BY <1>2, <1>8 DEF NextReq, busy, Bit
  <2>2. CASE dst_req_r = 0 /\ dst_req = 1
    BY <1>1, <1>2, <1>5, <2>2 DEF Channel!Deliver, InFlight, Bit
  <2>3. CASE ~(dst_req_r = 0 /\ dst_req = 1)
    <3>1. dst_pulse' = 0
      BY <1>1, <2>3
    <3>2. InFlight' = InFlight
      BY <1>1, <1>2, <1>3, <1>5, <1>6, <1>8, <2>1, <2>3 DEF InFlight, Bit
    <3> QED BY <1>1, <3>1, <3>2 DEF Channel!EndPulse
  <2> QED BY <2>2, <2>3
<1> QED BY <1>2, <1>7, <1>8 DEF Bit

\* During reset only the output falls.
LEMMA ResetEdgeInChannel ==
  ASSUME IInv, reset = 1,
         (\E p \in Bit : SrcTick(p) \/ BothTick(p)) \/ DstTick
  PROVE  Channel!Quench \/ UNCHANGED <<InFlight, dst_pulse = 1, reset>>
<1>1. reset' = 1 /\ (dst_pulse' = dst_pulse \/ dst_pulse' = 0)
  BY DEF SrcTick, BothTick, DstTick, SrcEdge, DstEdge, dstVars
<1>2. ~InFlight /\ ~InFlight'
  BY <1>1 DEF InFlight
<1> QED BY <1>1, <1>2 DEF Channel!Quench, InFlight

LEMMA ChannelStep ==
  IInv /\ IInv' /\ [Next]_vars => [Channel!Next]_(Channel!chanVars)
<1> SUFFICES ASSUME IInv, IInv', [Next]_vars
             PROVE  Channel!Next \/ UNCHANGED <<InFlight, dst_pulse = 1, reset>>
  BY DEF Channel!chanVars
<1> USE DEF Channel!Next
<1>b. reset \in {0, 1}
  BY DEF IInv, TypeOK, Bit
<1>1. ASSUME NEW p \in Bit, SrcTick(p)
      PROVE  Channel!Next \/ UNCHANGED <<InFlight, dst_pulse = 1, reset>>
  BY <1>b, <1>1, SrcEdgeInChannel, ResetEdgeInChannel
<1>2. CASE DstTick
  BY <1>b, <1>2, DstEdgeInChannel, ResetEdgeInChannel
<1>3. ASSUME NEW p \in Bit, BothTick(p)
      PROVE  Channel!Next \/ UNCHANGED <<InFlight, dst_pulse = 1, reset>>
  BY <1>b, <1>3, BothEdgesInChannel, ResetEdgeInChannel
<1>4. CASE AssertReset
  BY <1>4 DEF AssertReset, dstVars, InFlight, Channel!Reset
<1>5. CASE ReleaseReset
  BY <1>5 DEF ReleaseReset, IInv, DstZero, dstVars, srcVars, InFlight,
     SrcZero, Channel!Release
<1>6. CASE UNCHANGED vars
  BY <1>6 DEF vars, srcVars, dstVars, resetVars, InFlight
<1> QED BY <1>1, <1>2, <1>3, <1>4, <1>5, <1>6 DEF Next

\* cdc_pulse.v is a one-place channel: every pulse accepted outside reset is
\* delivered as exactly one pulse before the next one is accepted.
THEOREM ImplementsPulseChannel == Spec => ImplementsChannel
<1>1. Init => Channel!Init
  BY ChannelInit
<1>2. IInv /\ IInv' /\ [Next]_vars => [Channel!Next]_(Channel!chanVars)
  BY ChannelStep
<1> QED BY <1>1, <1>2, WaveInvariant, PTL
        DEF Spec, ImplementsChannel, Channel!Spec

---------------------------------------------------------------------------
(* The trigger output.                                                     *)

Pulse == [delay : Nat, width : Nat]

Typed ==
  /\ reg \in [delay : [Index -> 0 .. MAX_DELAY], width : [Index -> Nat],
              num : 1 .. NUM_PULSES, enable : BOOLEAN]
  /\ reg_r \in [delay : [Index -> 0 .. MAX_DELAY], width : [Index -> Nat],
                num : 0 .. NUM_PULSES, enable : BOOLEAN]
  /\ state \in {"IDLE", "WAIT_FOR_ON", "WAIT_FOR_OFF"}
  /\ step \in {"delay", "width", "num", "enable", "return"}
  /\ trigger_index \in Index /\ trigger_delay \in 0 .. MAX_DELAY
  /\ trigger_width \in Nat /\ delay_counter \in Nat /\ level \in Nat
  /\ O_trigger = (state = "WAIT_FOR_OFF") /\ stable \in BOOLEAN
  /\ call \in Calls /\ emitted \in Seq(Pulse)
  /\ state = "WAIT_FOR_OFF" => emitted # <<>>

\* Only the first pulse may have no delay, and every one has a width: that of
\* the registers is so before reg_trigger_enable is set.
RegInv ==
  /\ \A i \in 1 .. reg.num - 1 : reg.delay[i] > 0
  /\ reg.enable \/ step = "enable" => \A i \in 0 .. reg.num - 1 : reg.width[i] > 0
  /\ step \in {"width", "num"} => \A i \in 1 .. call.num - 1 : reg.delay[i] > 0
  /\ step = "width" => \A i \in 1 .. call.num : call.widths[i] > 0
  /\ step = "num" => \A i \in 0 .. call.num - 1 : reg.width[i] > 0

\* The registers of trigger_clk have no num for one edge after a reset.
StartInv == reg_r.num = 0 => ~reg_r.enable /\ state = "IDLE"

Done(n) ==
  \A i \in 1 .. n : emitted[i].delay = reg.delay[i - 1] /\ emitted[i].width = reg.width[i - 1]

RunInv ==
  stable =>
    /\ reg_r = reg /\ reg.enable
    /\ state = "WAIT_FOR_ON" =>
         /\ trigger_index < reg.num /\ Len(emitted) = trigger_index /\ Done(trigger_index)
         /\ trigger_delay = reg.delay[trigger_index]
         /\ trigger_width = reg.width[trigger_index]
         /\ delay_counter = level /\ level <= trigger_delay
    /\ state = "WAIT_FOR_OFF" =>
         /\ trigger_index < reg.num /\ Len(emitted) = trigger_index + 1 /\ Done(trigger_index)
         /\ emitted[trigger_index + 1].delay = reg.delay[trigger_index]
         /\ trigger_index + 1 < reg.num => trigger_delay = reg.delay[trigger_index + 1]
         /\ trigger_width = reg.width[trigger_index]
         /\ delay_counter = level /\ 1 <= level /\ level <= trigger_width
    /\ state = "IDLE" => Len(emitted) = reg.num /\ Done(reg.num)

TriggerInv == Typed /\ RegInv /\ StartInv /\ RunInv

---------------------------------------------------------------------------

LEMMA TriggerInvInit == TriggerInit => TriggerInv
<1> SUFFICES ASSUME TriggerInit PROVE TriggerInv
  OBVIOUS
<1> USE PwTriggerAssumption DEF TriggerInit
<1>1. reg.num = 1 /\ ~reg.enable /\ reg_r.num = 0 /\ ~reg_r.enable
  OBVIOUS
<1>2. Typed
  <2>1. /\ [i \in Index |-> 0] \in [Index -> 0 .. MAX_DELAY]
        /\ [i \in Index |-> 0] \in [Index -> Nat]
    OBVIOUS
  <2>2. 1 \in 1 .. NUM_PULSES /\ 0 \in 0 .. NUM_PULSES /\ 0 \in Index /\ 0 \in 0 .. MAX_DELAY
    BY DEF Index
  <2>3. reg \in [delay : [Index -> 0 .. MAX_DELAY], width : [Index -> Nat],
                 num : 1 .. NUM_PULSES, enable : BOOLEAN]
    BY <2>1, <2>2
  <2>4. reg_r \in [delay : [Index -> 0 .. MAX_DELAY], width : [Index -> Nat],
                   num : 0 .. NUM_PULSES, enable : BOOLEAN]
    BY <2>2, <2>3
  <2>5. emitted \in Seq(Pulse)
    OBVIOUS
  <2> QED BY <2>2, <2>3, <2>4, <2>5 DEF Typed
<1>3. RegInv /\ StartInv /\ RunInv
  BY <1>1 DEF RegInv, StartInv, RunInv
<1> QED BY <1>2, <1>3 DEF TriggerInv

---------------------------------------------------------------------------
(* set_trigger().                                                          *)

\* A write that changes a register ends what is known of the run.
LEMMA HostKeepsRunInv ==
  ASSUME TriggerInv, NEW from, NEW to, Host(from, to) PROVE StartInv' /\ RunInv'
<1>1. /\ reg_r' = reg_r /\ UNCHANGED fsmVars /\ UNCHANGED pinVars
      /\ stable' <=> stable /\ reg' = reg
  BY DEF Host
<1>2. StartInv'
  BY <1>1 DEF TriggerInv, StartInv, fsmVars
<1>3. CASE stable /\ reg' = reg
  <2>1. UNCHANGED <<reg_r, reg, state, trigger_index, delay_counter, trigger_delay,
                    trigger_width, emitted, level>>
    BY <1>1, <1>3 DEF fsmVars, pinVars
  <2>2. stable
    BY <1>3
  <2> QED BY <1>2, <2>1, <2>2 DEF TriggerInv, RunInv, Done
<1>4. CASE ~(stable /\ reg' = reg)
  BY <1>1, <1>2, <1>4 DEF RunInv
<1> QED BY <1>2, <1>3, <1>4

LEMMA HostKeepsTypes ==
  ASSUME TriggerInv, NEW from, NEW to, Host(from, to),
         to \in {"delay", "width", "num", "enable", "return"},
         reg' \in [delay : [Index -> 0 .. MAX_DELAY], width : [Index -> Nat],
                   num : 1 .. NUM_PULSES, enable : BOOLEAN]
  PROVE  Typed'
BY DEF Host, TriggerInv, Typed, fsmVars, pinVars

\* What the registers' invariant says of the arguments.
LEMMA CallTypes ==
  ASSUME NEW c \in Calls
  PROVE  /\ c.num \in 1 .. NUM_PULSES /\ c.enable \in BOOLEAN
         /\ \A i \in 1 .. c.num : c.delays[i] \in 0 .. MAX_DELAY /\ c.widths[i] \in Nat
         /\ \A i \in 2 .. c.num : c.delays[i] > 0
BY PwTriggerAssumption

LEMMA CallKeepsInv == ASSUME TriggerInv, NEW c \in Calls, Call(c) PROVE TriggerInv'
<1>1. Typed'
  BY DEF Call, TriggerInv, Typed, fsmVars, pinVars
<1>2. RegInv'
  BY DEF Call, TriggerInv, RegInv
<1>3. StartInv' /\ RunInv'
  BY DEF Call, TriggerInv, StartInv, RunInv, Done, fsmVars, pinVars
<1> QED BY <1>1, <1>2, <1>3 DEF TriggerInv

LEMMA WriteDelayKeepsInv == ASSUME TriggerInv, WriteDelay PROVE TriggerInv'
<1> DEFINE d == First(reg.delay, call.num, call.delays)
           to == IF \E i \in 1 .. call.num : call.widths[i] < 1 THEN "return" ELSE "width"
<1>1. /\ reg' = [reg EXCEPT !.delay = d] /\ Host("delay", to) /\ step = "delay" /\ step' = to
      /\ call' = call
  BY DEF WriteDelay, Host
<1>2. call \in Calls /\ NUM_PULSES \in Nat \ {0} /\ MAX_DELAY \in Nat
  BY PwTriggerAssumption DEF TriggerInv, Typed
<1>3. /\ reg \in [delay : [Index -> 0 .. MAX_DELAY], width : [Index -> Nat],
                  num : 1 .. NUM_PULSES, enable : BOOLEAN]
  BY DEF TriggerInv, Typed
<1>4. \A i \in Index : i < call.num => i + 1 \in 1 .. call.num
  BY <1>2, CallTypes DEF Index
<1>5. d \in [Index -> 0 .. MAX_DELAY]
  BY <1>2, <1>3, <1>4, CallTypes DEF First
<1>6. \A i \in Index : d[i] = IF i < call.num THEN call.delays[i + 1] ELSE reg.delay[i]
  BY DEF First
<1> HIDE DEF d
<1>7. /\ reg' \in [delay : [Index -> 0 .. MAX_DELAY], width : [Index -> Nat],
                   num : 1 .. NUM_PULSES, enable : BOOLEAN]
      /\ reg'.delay = d /\ reg'.width = reg.width /\ reg'.num = reg.num
      /\ reg'.enable = reg.enable
  BY <1>1, <1>3, <1>5
<1>8. RegInv'
  <2>1. \A i \in 1 .. reg.num - 1 : d[i] > 0
    <3> TAKE i \in 1 .. reg.num - 1
    <3>1. i \in Index /\ reg.delay[i] > 0 /\ i \in Nat \ {0}
      BY <1>2, <1>3 DEF TriggerInv, RegInv, Index
    <3>2. i < call.num => i + 1 \in 2 .. call.num
      BY <1>2, <3>1, CallTypes
    <3> QED BY <1>2, <1>6, <3>1, <3>2, CallTypes
  <2>2. \A i \in 1 .. call.num - 1 : d[i] > 0
    <3> TAKE i \in 1 .. call.num - 1
    <3>1. i \in Index /\ i < call.num /\ i + 1 \in 2 .. call.num
      BY <1>2, CallTypes DEF Index
    <3> QED BY <1>2, <1>6, <3>1, CallTypes
  <2>3. to = "width" => \A i \in 1 .. call.num : call.widths[i] > 0
    BY <1>2, CallTypes
  <2>4. to \in {"return", "width"}
    OBVIOUS
  <2> HIDE DEF to
  <2> QED BY <1>1, <1>7, <2>1, <2>2, <2>3, <2>4 DEF TriggerInv, RegInv
<1>9. Typed'
  <2>1. to \in {"delay", "width", "num", "enable", "return"}
    OBVIOUS
  <2> QED BY <1>1, <1>7, <2>1, HostKeepsTypes
<1> QED BY <1>1, <1>8, <1>9, HostKeepsRunInv DEF TriggerInv

LEMMA WriteWidthKeepsInv == ASSUME TriggerInv, WriteWidth PROVE TriggerInv'
<1> DEFINE w == First(reg.width, call.num, call.widths)
<1>1. /\ reg' = [reg EXCEPT !.width = w] /\ Host("width", "num")
      /\ step = "width" /\ step' = "num" /\ call' = call
  BY DEF WriteWidth, Host
<1>2. call \in Calls /\ NUM_PULSES \in Nat \ {0} /\ MAX_DELAY \in Nat
  BY PwTriggerAssumption DEF TriggerInv, Typed
<1>3. /\ reg \in [delay : [Index -> 0 .. MAX_DELAY], width : [Index -> Nat],
                  num : 1 .. NUM_PULSES, enable : BOOLEAN]
  BY DEF TriggerInv, Typed
<1>4. \A i \in Index : i < call.num => i + 1 \in 1 .. call.num
  BY <1>2, CallTypes DEF Index
<1>5. w \in [Index -> Nat]
  BY <1>2, <1>3, <1>4, CallTypes DEF First
<1>6. \A i \in Index : w[i] = IF i < call.num THEN call.widths[i + 1] ELSE reg.width[i]
  BY DEF First
<1> HIDE DEF w
<1>7. /\ reg' \in [delay : [Index -> 0 .. MAX_DELAY], width : [Index -> Nat],
                   num : 1 .. NUM_PULSES, enable : BOOLEAN]
      /\ reg'.delay = reg.delay /\ reg'.width = w /\ reg'.num = reg.num
      /\ reg'.enable = reg.enable
  BY <1>1, <1>3, <1>5
<1>8. RegInv'
  <2>1. \A i \in Index : i < call.num => w[i] > 0
    BY <1>1, <1>4, <1>6 DEF TriggerInv, RegInv
  <2>2. \A i \in 0 .. call.num - 1 : w[i] > 0
    BY <1>2, <2>1, CallTypes DEF Index
  <2>3. reg.enable => \A i \in 0 .. reg.num - 1 : w[i] > 0
    <3> SUFFICES ASSUME reg.enable, NEW i \in 0 .. reg.num - 1 PROVE w[i] > 0
      OBVIOUS
    <3>1. i \in Index /\ reg.width[i] > 0
      BY <1>2, <1>3 DEF TriggerInv, RegInv, Index
    <3> QED BY <1>6, <2>1, <3>1
  <2> QED BY <1>1, <1>7, <2>2, <2>3 DEF TriggerInv, RegInv
<1>9. Typed'
  BY <1>1, <1>7, HostKeepsTypes
<1> QED BY <1>1, <1>8, <1>9, HostKeepsRunInv DEF TriggerInv

LEMMA WriteNumKeepsInv == ASSUME TriggerInv, WriteNum PROVE TriggerInv'
<1>1. /\ reg' = [reg EXCEPT !.num = call.num] /\ Host("num", "enable")
      /\ step = "num" /\ step' = "enable" /\ call' = call
  BY DEF WriteNum, Host
<1>2. call.num \in 1 .. NUM_PULSES
  BY CallTypes DEF TriggerInv, Typed
<1>3. /\ reg' \in [delay : [Index -> 0 .. MAX_DELAY], width : [Index -> Nat],
                   num : 1 .. NUM_PULSES, enable : BOOLEAN]
      /\ reg'.delay = reg.delay /\ reg'.width = reg.width /\ reg'.num = call.num
  BY <1>1, <1>2 DEF TriggerInv, Typed
<1>4. RegInv'
  BY <1>1, <1>3 DEF TriggerInv, RegInv
<1>5. Typed'
  BY <1>1, <1>3, HostKeepsTypes
<1> QED BY <1>1, <1>4, <1>5, HostKeepsRunInv DEF TriggerInv

LEMMA EnableKeepsInv == ASSUME TriggerInv, Enable PROVE TriggerInv'
<1>1. /\ reg' = [reg EXCEPT !.enable = call.enable] /\ Host("enable", "return")
      /\ step = "enable" /\ step' = "return" /\ call' = call
  BY DEF Enable, Host
<1>2. call.enable \in BOOLEAN
  BY CallTypes DEF TriggerInv, Typed
<1>3. /\ reg' \in [delay : [Index -> 0 .. MAX_DELAY], width : [Index -> Nat],
                   num : 1 .. NUM_PULSES, enable : BOOLEAN]
      /\ reg'.delay = reg.delay /\ reg'.width = reg.width /\ reg'.num = reg.num
  BY <1>1, <1>2 DEF TriggerInv, Typed
<1>4. RegInv'
  BY <1>1, <1>3 DEF TriggerInv, RegInv
<1>5. Typed'
  BY <1>1, <1>3, HostKeepsTypes
<1> QED BY <1>1, <1>4, <1>5, HostKeepsRunInv DEF TriggerInv

---------------------------------------------------------------------------
(* The pulses.                                                             *)

LEMMA ModOfSmall ==
  ASSUME NEW m \in Nat \ {0}, NEW n \in 0 .. m - 1 PROVE n % m = n
OBVIOUS

LEMMA EntryTypes ==
  ASSUME TriggerInv, NEW i \in Nat
  PROVE  /\ Entry(reg_r.delay, i) \subseteq 0 .. MAX_DELAY
         /\ i \in Index => /\ Entry(reg_r.delay, i) = {reg_r.delay[i]}
                           /\ Entry(reg_r.width, i) = {reg_r.width[i]}
                           /\ reg_r.width[i] \in Nat /\ reg_r.delay[i] \in 0 .. MAX_DELAY
BY DEF Entry, TriggerInv, Typed

LEMMA PulseAdded ==
  ASSUME NEW s \in Seq(Pulse), NEW p \in Pulse
  PROVE  /\ Append(s, p) \in Seq(Pulse) /\ Append(s, p) # <<>>
         /\ Len(Append(s, p)) = Len(s) + 1
<1>1. Append(s, p) \in Seq(Pulse)
  OBVIOUS
<1>2. Len(Append(s, p)) = Len(s) + 1 /\ Len(s) \in Nat
  OBVIOUS
<1>3. Append(s, p) # <<>>
  BY <1>2
<1> QED BY <1>1, <1>2, <1>3

LEMMA WidthSet ==
  ASSUME NEW s \in Seq(Pulse), s # <<>>, NEW w \in Nat, NEW t,
         t = [s EXCEPT ![Len(s)].width = w]
  PROVE  /\ t \in Seq(Pulse) /\ Len(t) = Len(s) /\ t # <<>>
         /\ \A i \in 1 .. Len(s) - 1 : t[i] = s[i]
         /\ t[Len(s)].delay = s[Len(s)].delay /\ t[Len(s)].width = w
<1>1. Len(s) \in 1 .. Len(s) /\ Len(s) \in Nat
  OBVIOUS
<1>2. s[Len(s)] \in Pulse
  BY <1>1
<1>3. [s[Len(s)] EXCEPT !.width = w] \in Pulse
  BY <1>2 DEF Pulse
<1>4. t = [s EXCEPT ![Len(s)] = [s[Len(s)] EXCEPT !.width = w]]
  BY <1>1
<1>5. t \in Seq(Pulse) /\ Len(t) = Len(s)
  BY <1>1, <1>3, <1>4
<1>6. \A i \in 1 .. Len(s) - 1 : t[i] = s[i]
  BY <1>1, <1>4
<1>7. t[Len(s)] = [s[Len(s)] EXCEPT !.width = w]
  BY <1>1, <1>4
<1>8. t[Len(s)].delay = s[Len(s)].delay /\ t[Len(s)].width = w
  BY <1>2, <1>7 DEF Pulse
<1> QED BY <1>1, <1>5, <1>6, <1>8

LEMMA IdleKeepsInv ==
  ASSUME TriggerInv, NEW match \in BOOLEAN, Tick(match), Idle(match) PROVE TriggerInv'
<1>1. /\ reg_r' = reg /\ UNCHANGED <<reg, call, step>>
      /\ state = "IDLE" /\ O_trigger' = FALSE
      /\ trigger_delay' = reg_r.delay[0] /\ trigger_width' = reg_r.width[0]
  BY DEF Tick, Idle
<1>2. /\ reg_r.delay[0] \in 0 .. MAX_DELAY /\ reg_r.width[0] \in Nat /\ 0 \in Index
      /\ reg.num \in Nat /\ reg.num > 0 /\ NUM_PULSES \in Nat
      /\ reg \in [delay : [Index -> 0 .. MAX_DELAY], width : [Index -> Nat],
                  num : 0 .. NUM_PULSES, enable : BOOLEAN]
  <2>1. NUM_PULSES \in Nat \ {0} /\ 0 \in Index
    BY PwTriggerAssumption DEF Index
  <2> QED BY <2>1 DEF TriggerInv, Typed
<1>3. RegInv' /\ StartInv'
  BY <1>1, <1>2 DEF TriggerInv, RegInv, StartInv
<1>4. CASE match /\ reg_r.enable
  <2>1. /\ delay_counter' = 0 /\ trigger_index' = 0 /\ state' = "WAIT_FOR_ON"
        /\ level' = 0 /\ emitted' = <<>> /\ stable' = (reg = reg_r /\ step = "return")
    BY <1>1, <1>4 DEF Idle
  <2>2. Typed'
    <3>1. emitted' \in Seq(Pulse) /\ stable' \in BOOLEAN
      BY <2>1
    <3> QED BY <1>1, <1>2, <2>1, <3>1 DEF TriggerInv, Typed
  <2>3. RunInv'
    <3>1. SUFFICES ASSUME reg = reg_r PROVE RunInv'
      BY <2>1 DEF RunInv
    <3>2. reg.enable /\ reg.delay[0] \in Nat
      BY <1>2, <1>4, <3>1
    <3> QED BY <1>1, <1>2, <2>1, <3>1, <3>2 DEF RunInv, Done
  <2> QED BY <1>3, <2>2, <2>3 DEF TriggerInv
<1>5. CASE ~(match /\ reg_r.enable)
  <2>1. UNCHANGED <<delay_counter, trigger_index, state, stable, level, emitted>>
    BY <1>1, <1>5 DEF Idle, pinVars
  <2>2. Typed'
    BY <1>1, <1>2, <2>1 DEF TriggerInv, Typed
  <2>3. RunInv'
    BY <1>1, <2>1 DEF TriggerInv, RunInv, Done
  <2> QED BY <1>3, <2>2, <2>3 DEF TriggerInv
<1> QED BY <1>4, <1>5

\* What every edge of trigger_clk in a run has at its beginning and its end.
LEMMA RunningTick ==
  ASSUME TriggerInv, NEW match, Tick(match), state # "IDLE"
  PROVE  /\ reg_r' = reg /\ UNCHANGED <<reg, call, step>>
         /\ RegInv' /\ StartInv'
         /\ reg.num \in 1 .. NUM_PULSES /\ reg_r.num \in 1 .. NUM_PULSES
         /\ trigger_index \in 0 .. NUM_PULSES - 1 /\ NUM_PULSES \in Nat \ {0}
         /\ delay_counter \in Nat /\ level \in Nat /\ trigger_delay \in 0 .. MAX_DELAY
         /\ trigger_width \in Nat /\ emitted \in Seq(Pulse) /\ MAX_DELAY \in Nat
         /\ \A i \in 0 .. NUM_PULSES - 1 :
              reg.delay[i] \in 0 .. MAX_DELAY /\ reg.width[i] \in Nat
<1>1. /\ reg_r' = reg /\ UNCHANGED <<reg, call, step>>
  BY DEF Tick
<1>2. NUM_PULSES \in Nat \ {0} /\ MAX_DELAY \in Nat
  BY PwTriggerAssumption
<1>3. reg.num \in 1 .. NUM_PULSES /\ reg_r.num \in 0 .. NUM_PULSES /\ reg_r.num # 0
  BY DEF TriggerInv, Typed, StartInv
<1>4. RegInv' /\ StartInv'
  BY <1>1, <1>2, <1>3 DEF TriggerInv, RegInv, StartInv
<1>5. reg_r.num \in 1 .. NUM_PULSES
  BY <1>2, <1>3
<1>6. /\ trigger_index \in 0 .. NUM_PULSES - 1 /\ delay_counter \in Nat /\ level \in Nat
      /\ trigger_delay \in 0 .. MAX_DELAY /\ trigger_width \in Nat /\ emitted \in Seq(Pulse)
  BY DEF TriggerInv, Typed, Index
<1>7. \A i \in 0 .. NUM_PULSES - 1 : reg.delay[i] \in 0 .. MAX_DELAY /\ reg.width[i] \in Nat
  BY DEF TriggerInv, Typed, Index
<1> QED BY <1>1, <1>2, <1>3, <1>4, <1>5, <1>6, <1>7

LEMMA WaitForOnKeepsInv ==
  ASSUME TriggerInv, NEW match, Tick(match), WaitForOn PROVE TriggerInv'
<1>1. state = "WAIT_FOR_ON" /\ ~O_trigger /\ UNCHANGED <<trigger_index, trigger_width, stable>>
  BY DEF WaitForOn, TriggerInv, Typed
<1>tick. /\ reg_r' = reg /\ UNCHANGED <<reg, call, step>>
         /\ RegInv' /\ StartInv'
  BY <1>1, RunningTick
<1>num. /\ reg.num \in 1 .. NUM_PULSES /\ reg_r.num \in 1 .. NUM_PULSES
        /\ trigger_index \in 0 .. NUM_PULSES - 1 /\ NUM_PULSES \in Nat \ {0}
        /\ delay_counter \in Nat /\ level \in Nat /\ trigger_delay \in 0 .. MAX_DELAY
        /\ trigger_width \in Nat /\ emitted \in Seq(Pulse) /\ MAX_DELAY \in Nat
        /\ \A i \in 0 .. NUM_PULSES - 1 :
             reg.delay[i] \in 0 .. MAX_DELAY /\ reg.width[i] \in Nat
  BY <1>1, RunningTick
<1>regs. /\ reg' \in [delay : [Index -> 0 .. MAX_DELAY], width : [Index -> Nat],
                      num : 1 .. NUM_PULSES, enable : BOOLEAN]
         /\ reg_r' \in [delay : [Index -> 0 .. MAX_DELAY], width : [Index -> Nat],
                        num : 0 .. NUM_PULSES, enable : BOOLEAN]
         /\ call' \in Calls /\ step' \in {"delay", "width", "num", "enable", "return"}
         /\ stable' \in BOOLEAN
  <2>1. /\ reg \in [delay : [Index -> 0 .. MAX_DELAY], width : [Index -> Nat],
                     num : 1 .. NUM_PULSES, enable : BOOLEAN]
        /\ call \in Calls /\ step \in {"delay", "width", "num", "enable", "return"}
        /\ stable \in BOOLEAN
    BY DEF TriggerInv, Typed
  <2>2. reg.num \in 0 .. NUM_PULSES
    BY <1>num
  <2> QED BY <1>1, <1>tick, <2>1, <2>2
<1>2. CASE delay_counter < trigger_delay
  <2>1. /\ delay_counter' = delay_counter + 1 /\ level' = level + 1
        /\ UNCHANGED <<state, trigger_delay, O_trigger, emitted>>
    BY <1>1, <1>2 DEF WaitForOn
  <2>2. Typed'
    BY <1>1, <2>1, <1>tick, <1>num DEF TriggerInv, Typed
  <2>3. RunInv'
    <3>1. stable => delay_counter = level
      BY <1>1 DEF TriggerInv, RunInv
    <3>2. stable => level' <= trigger_delay
      BY <1>1, <1>2, <2>1, <3>1, <1>tick, <1>num
    <3> QED BY <1>1, <2>1, <3>1, <3>2, <1>tick, <1>num DEF TriggerInv, RunInv, Done
  <2> QED BY <1>1, <2>2, <2>3, <1>tick, <1>num DEF TriggerInv
<1>3. CASE ~(delay_counter < trigger_delay)
  <2>1. /\ delay_counter' = 1 /\ O_trigger' = TRUE
        /\ trigger_delay' \in Entry(reg_r.delay, trigger_index + 1)
        /\ state' = "WAIT_FOR_OFF" /\ level' = 1
        /\ emitted' = IF Len(emitted) > NUM_PULSES THEN emitted
                      ELSE Append(emitted, [delay |-> level, width |-> 0])
    BY <1>1, <1>3 DEF WaitForOn, CountFromOne
  <2>2. trigger_index + 1 \in Nat /\ [delay |-> level, width |-> 0] \in Pulse
    BY <1>1, <1>tick, <1>num DEF Pulse
  <2>3. trigger_delay' \in 0 .. MAX_DELAY
    BY <2>1, <2>2, EntryTypes
  <2>4. emitted' \in Seq(Pulse) /\ emitted' # <<>>
    <3>1. CASE Len(emitted) > NUM_PULSES
      BY <2>1, <3>1, <1>num
    <3>2. CASE ~(Len(emitted) > NUM_PULSES)
      BY <2>1, <2>2, <3>2, <1>num, PulseAdded
    <3> QED BY <3>1, <3>2
  <2>5. Typed'
    <3>1. O_trigger' = (state' = "WAIT_FOR_OFF") /\ state' = "WAIT_FOR_OFF"
      BY <2>1
    <3>2. delay_counter' \in Nat /\ level' \in Nat /\ trigger_index' \in Index
          /\ trigger_width' \in Nat
      BY <1>1, <2>1, <1>num DEF Index
    <3> QED BY <1>1, <1>regs, <2>3, <2>4, <3>1, <3>2 DEF Typed
  <2>6. RunInv'
    <3>1. SUFFICES ASSUME stable PROVE RunInv'
      BY <1>1 DEF RunInv
    <3>2. /\ reg_r = reg /\ reg.enable
          /\ trigger_index < reg.num /\ Len(emitted) = trigger_index /\ Done(trigger_index)
          /\ trigger_delay = reg.delay[trigger_index]
          /\ trigger_width = reg.width[trigger_index]
          /\ delay_counter = level /\ level <= trigger_delay
      BY <1>1, <3>1 DEF TriggerInv, RunInv
    <3>3. level = trigger_delay
      BY <1>1, <1>3, <3>2, <1>tick, <1>num
    <3>4. emitted' = Append(emitted, [delay |-> level, width |-> 0])
      BY <1>1, <2>1, <3>2, <1>tick, <1>num
    <3>5. /\ Len(emitted') = trigger_index + 1
          /\ \A i \in 1 .. trigger_index : emitted'[i] = emitted[i]
          /\ emitted'[trigger_index + 1] = [delay |-> level, width |-> 0]
      BY <1>1, <2>2, <3>2, <3>4, <1>tick, <1>num
    <3>6. trigger_width > 0
      BY <1>1, <3>2, <1>tick, <1>num DEF TriggerInv, RegInv
    <3>7. trigger_index + 1 < reg.num => trigger_delay' = reg.delay[trigger_index + 1]
      <4> SUFFICES ASSUME trigger_index + 1 < reg.num
                   PROVE  trigger_delay' = reg.delay[trigger_index + 1]
        OBVIOUS
      <4>1. trigger_index + 1 \in Index
        BY <1>1, <1>tick, <1>num DEF Index
      <4> QED BY <2>1, <2>2, <3>2, <4>1, EntryTypes
    <3>8. Done(trigger_index)'
      BY <1>1, <3>2, <3>5, <1>tick, <1>num DEF Done
    <3>9. reg' = reg /\ reg_r' = reg /\ trigger_index' = trigger_index
          /\ trigger_width' = trigger_width
      BY <1>1, <1>tick, <1>num
    <3>10. emitted'[trigger_index + 1].delay = reg.delay[trigger_index]
      BY <3>2, <3>3, <3>5
    <3> QED BY <1>1, <2>1, <3>2, <3>5, <3>6, <3>7, <3>8, <3>9, <3>10, <1>tick, <1>num DEF RunInv
  <2> QED BY <1>1, <2>5, <2>6, <1>tick, <1>num DEF TriggerInv
<1> QED BY <1>2, <1>3

LEMMA WaitForOffKeepsInv ==
  ASSUME TriggerInv, NEW match, Tick(match), WaitForOff PROVE TriggerInv'
<1>1. state = "WAIT_FOR_OFF" /\ UNCHANGED <<trigger_delay, stable>>
  BY DEF WaitForOff
<1>tick. /\ reg_r' = reg /\ UNCHANGED <<reg, call, step>>
         /\ RegInv' /\ StartInv'
  BY <1>1, RunningTick
<1>num. /\ reg.num \in 1 .. NUM_PULSES /\ reg_r.num \in 1 .. NUM_PULSES
        /\ trigger_index \in 0 .. NUM_PULSES - 1 /\ NUM_PULSES \in Nat \ {0}
        /\ delay_counter \in Nat /\ level \in Nat /\ trigger_delay \in 0 .. MAX_DELAY
        /\ trigger_width \in Nat /\ emitted \in Seq(Pulse) /\ MAX_DELAY \in Nat
        /\ \A i \in 0 .. NUM_PULSES - 1 :
             reg.delay[i] \in 0 .. MAX_DELAY /\ reg.width[i] \in Nat
  BY <1>1, RunningTick
<1>regs. /\ reg' \in [delay : [Index -> 0 .. MAX_DELAY], width : [Index -> Nat],
                      num : 1 .. NUM_PULSES, enable : BOOLEAN]
         /\ reg_r' \in [delay : [Index -> 0 .. MAX_DELAY], width : [Index -> Nat],
                        num : 0 .. NUM_PULSES, enable : BOOLEAN]
         /\ call' \in Calls /\ step' \in {"delay", "width", "num", "enable", "return"}
         /\ stable' \in BOOLEAN
  <2>1. /\ reg \in [delay : [Index -> 0 .. MAX_DELAY], width : [Index -> Nat],
                     num : 1 .. NUM_PULSES, enable : BOOLEAN]
        /\ call \in Calls /\ step \in {"delay", "width", "num", "enable", "return"}
        /\ stable \in BOOLEAN
    BY DEF TriggerInv, Typed
  <2>2. reg.num \in 0 .. NUM_PULSES
    BY <1>num
  <2> QED BY <1>1, <1>tick, <2>1, <2>2
<1>2. CASE delay_counter < trigger_width
  <2>1. /\ delay_counter' = delay_counter + 1 /\ level' = level + 1
        /\ UNCHANGED <<state, trigger_index, trigger_width, O_trigger, emitted>>
    BY <1>1, <1>2 DEF WaitForOff
  <2>2. Typed'
    BY <1>1, <2>1, <1>tick, <1>num DEF TriggerInv, Typed
  <2>3. RunInv'
    <3>1. stable => delay_counter = level
      BY <1>1 DEF TriggerInv, RunInv
    <3>2. stable => 1 <= level' /\ level' <= trigger_width
      BY <1>1, <1>2, <2>1, <3>1, <1>tick, <1>num
    <3> QED BY <1>1, <2>1, <3>1, <3>2, <1>tick, <1>num DEF TriggerInv, RunInv, Done
  <2> QED BY <1>1, <2>2, <2>3, <1>tick, <1>num DEF TriggerInv
<1>3. CASE ~(delay_counter < trigger_width)
  <2>1. /\ O_trigger' = FALSE /\ level' = 1
        /\ emitted' = [emitted EXCEPT ![Len(emitted)].width = level]
        /\ IF MoreToCome
           THEN /\ trigger_index' = NextIndex /\ delay_counter' = 1
                /\ trigger_width' \in Entry(reg_r.width, trigger_index + 1)
                /\ state' = "WAIT_FOR_ON"
           ELSE /\ trigger_index' = 0 /\ delay_counter' = 0 /\ state' = "IDLE"
                /\ trigger_width' = trigger_width
    BY <1>1, <1>3 DEF WaitForOff, CountFromOne
  <2>2. emitted # <<>>
    BY <1>1 DEF TriggerInv, Typed
  <2>3. /\ emitted' \in Seq(Pulse) /\ Len(emitted') = Len(emitted)
        /\ \A i \in 1 .. Len(emitted) - 1 : emitted'[i] = emitted[i]
        /\ emitted'[Len(emitted)].delay = emitted[Len(emitted)].delay
        /\ emitted'[Len(emitted)].width = level
    <3> DEFINE s == emitted
               w == level
               t == emitted'
    <3>1. s \in Seq(Pulse) /\ s # <<>> /\ w \in Nat /\ t = [s EXCEPT ![Len(s)].width = w]
      BY <2>1, <2>2, <1>num
    <3> HIDE DEF s, w, t
    <3>2. /\ t \in Seq(Pulse) /\ Len(t) = Len(s)
          /\ \A i \in 1 .. Len(s) - 1 : t[i] = s[i]
          /\ t[Len(s)].delay = s[Len(s)].delay /\ t[Len(s)].width = w
      BY <3>1, WidthSet
    <3> QED BY <3>2 DEF s, w, t
  <2>4. ASSUME MoreToCome
        PROVE  /\ trigger_index + 1 < reg_r.num /\ trigger_index + 1 \in Index
               /\ trigger_index' = trigger_index + 1 /\ state' = "WAIT_FOR_ON"
               /\ trigger_width' = reg_r.width[trigger_index + 1] /\ trigger_width' \in Nat
    <3>1. trigger_index < reg_r.num - 1
      BY <1>1, <2>4, <1>tick, <1>num DEF MoreToCome
    <3>2. trigger_index + 1 < reg_r.num /\ trigger_index + 1 \in Index
          /\ trigger_index + 1 \in Nat
      BY <1>1, <3>1, <1>tick, <1>num DEF Index
    <3>3. 2 * NUM_PULSES \in Nat \ {0} /\ trigger_index + 1 \in 0 .. 2 * NUM_PULSES - 1
      BY <1>1, <3>2, <1>tick, <1>num
    <3>4. NextIndex = trigger_index + 1
      BY <3>3, ModOfSmall DEF NextIndex
    <3> QED BY <2>1, <2>4, <3>2, <3>4, EntryTypes
  <2>5. ASSUME ~MoreToCome
        PROVE  /\ trigger_index + 1 >= reg_r.num /\ state' = "IDLE"
               /\ trigger_index' = 0 /\ trigger_width' = trigger_width
    BY <1>1, <2>1, <2>5, <1>tick, <1>num DEF MoreToCome
  <2>6. Typed'
    <3>1. trigger_index' \in Index /\ trigger_width' \in Nat /\ delay_counter' \in Nat
          /\ state' \in {"IDLE", "WAIT_FOR_ON"}
      BY <1>1, <2>1, <2>4, <2>5, <1>tick, <1>num DEF Index
    <3>2. O_trigger' = (state' = "WAIT_FOR_OFF") /\ state' # "WAIT_FOR_OFF"
      BY <2>1, <3>1
    <3>3. level' \in Nat /\ trigger_delay' \in 0 .. MAX_DELAY
      BY <1>1, <2>1, <1>num
    <3> QED BY <1>1, <1>regs, <2>3, <3>1, <3>2, <3>3 DEF Typed
  <2>7. RunInv'
    <3>1. SUFFICES ASSUME stable PROVE RunInv'
      BY <1>1 DEF RunInv
    <3>2. /\ reg_r = reg /\ reg.enable
          /\ trigger_index < reg.num /\ Len(emitted) = trigger_index + 1
          /\ Done(trigger_index)
          /\ emitted[trigger_index + 1].delay = reg.delay[trigger_index]
          /\ trigger_index + 1 < reg.num => trigger_delay = reg.delay[trigger_index + 1]
          /\ trigger_width = reg.width[trigger_index]
          /\ delay_counter = level /\ level <= trigger_width
      BY <1>1, <3>1 DEF TriggerInv, RunInv
    <3>3. level = reg.width[trigger_index]
      BY <1>1, <1>3, <3>2, <1>tick, <1>num
    <3>4. reg' = reg /\ reg_r' = reg
      BY <1>1, <1>tick, <1>num
    <3>5. \A i \in 1 .. trigger_index + 1 :
            emitted'[i].delay = reg.delay[i - 1] /\ emitted'[i].width = reg.width[i - 1]
      <4> TAKE i \in 1 .. trigger_index + 1
      <4>1. CASE i = trigger_index + 1
        <5>1. i - 1 = trigger_index
          BY <1>1, <4>1, <1>tick, <1>num
        <5> QED BY <2>3, <3>2, <3>3, <4>1, <5>1
      <4>2. CASE i # trigger_index + 1
        <5>1. i \in 1 .. trigger_index /\ i \in 1 .. Len(emitted) - 1
          BY <1>1, <3>2, <4>2, <1>tick, <1>num
        <5> QED BY <2>3, <3>2, <5>1 DEF Done
      <4> QED BY <4>1, <4>2
    <3>6. CASE MoreToCome
      <4>1. /\ trigger_index' = trigger_index + 1 /\ state' = "WAIT_FOR_ON"
            /\ trigger_width' = reg.width[trigger_index + 1] /\ trigger_index + 1 < reg.num
            /\ delay_counter' = 1 /\ level' = 1 /\ trigger_delay' = trigger_delay
        BY <1>1, <2>1, <2>4, <3>2, <3>6
      <4>2. trigger_delay = reg.delay[trigger_index + 1] /\ trigger_delay > 0
        <5>1. trigger_index + 1 \in 1 .. reg.num - 1
          BY <1>1, <4>1, <1>tick, <1>num
        <5> QED BY <3>2, <4>1, <5>1 DEF TriggerInv, RegInv
      <4>3. 1 <= trigger_delay
        BY <1>1, <4>2, <1>tick, <1>num
      <4>4. /\ Len(emitted') = trigger_index'
            /\ \A i \in 1 .. trigger_index' :
                 emitted'[i].delay = reg'.delay[i - 1] /\ emitted'[i].width = reg'.width[i - 1]
        BY <2>3, <3>2, <3>4, <3>5, <4>1
      <4> QED BY <3>2, <3>4, <4>1, <4>2, <4>3, <4>4 DEF RunInv, Done
    <3>7. CASE ~MoreToCome
      <4>1. trigger_index + 1 = reg.num /\ state' = "IDLE"
        BY <1>1, <2>5, <3>2, <3>7, <1>tick, <1>num
      <4> QED BY <2>3, <3>2, <3>4, <3>5, <4>1 DEF RunInv, Done
    <3> QED BY <3>6, <3>7
  <2> QED BY <1>1, <2>6, <2>7, <1>tick, <1>num DEF TriggerInv
<1> QED BY <1>2, <1>3

---------------------------------------------------------------------------

LEMMA TriggerInvStep == ASSUME TriggerInv, [TriggerNext]_triggerVars PROVE TriggerInv'
<1>1. CASE \E match \in BOOLEAN : Tick(match)
  <2>1. PICK match \in BOOLEAN : Tick(match)
    BY <1>1
  <2> QED BY <2>1, IdleKeepsInv, WaitForOnKeepsInv, WaitForOffKeepsInv DEF Tick
<1>2. CASE \E c \in Calls : Call(c)
  BY <1>2, CallKeepsInv
<1>3. CASE WriteDelay \/ WriteWidth \/ WriteNum \/ Enable
  BY <1>3, WriteDelayKeepsInv, WriteWidthKeepsInv, WriteNumKeepsInv, EnableKeepsInv
<1>4. CASE UNCHANGED triggerVars
  <2>1. Typed' /\ RegInv' /\ StartInv'
    BY <1>4 DEF triggerVars, fsmVars, pinVars, TriggerInv, Typed, RegInv, StartInv
  <2>2. RunInv'
    BY <1>4 DEF triggerVars, fsmVars, pinVars, TriggerInv, RunInv, Done
  <2> QED BY <2>1, <2>2 DEF TriggerInv
<1> QED BY <1>1, <1>2, <1>3, <1>4 DEF TriggerNext

(* A match gives the pulses that were programmed when it came, to the      *)
(* cycle, for as long as no register is changed; and no run reads or       *)
(* counts past the registers there are, even when one is.                  *)
THEOREM PulsesAreAsProgrammed == TriggerSpec => []PulsesAsProgrammed
<1>1. TriggerInit => TriggerInv
  BY TriggerInvInit
<1>2. TriggerInv /\ [TriggerNext]_triggerVars => TriggerInv'
  BY TriggerInvStep
<1>3. TriggerInv => PulsesAsProgrammed
  <2> SUFFICES ASSUME TriggerInv PROVE PulsesAsProgrammed
    OBVIOUS
  <2>1. TriggerTypeOK
    <3>1. 1 .. NUM_PULSES \subseteq 0 .. NUM_PULSES
      BY PwTriggerAssumption
    <3> QED BY <3>1 DEF TriggerInv, Typed, TriggerTypeOK
  <2>2. ASSUME stable
        PROVE  /\ Len(emitted) <= reg.num
               /\ state = "IDLE" => Len(emitted) = reg.num
               /\ \A i \in 1 .. Len(emitted) :
                    /\ emitted[i].delay = reg.delay[i - 1]
                    /\ ~(O_trigger /\ i = Len(emitted)) => emitted[i].width = reg.width[i - 1]
    <3>1. /\ reg.num \in Nat /\ trigger_index \in Nat
          /\ state \in {"IDLE", "WAIT_FOR_ON", "WAIT_FOR_OFF"}
          /\ O_trigger <=> state = "WAIT_FOR_OFF"
      <4>1. NUM_PULSES \in Nat
        BY PwTriggerAssumption
      <4>2. reg.num \in 1 .. NUM_PULSES /\ trigger_index \in 0 .. NUM_PULSES - 1
        BY DEF TriggerInv, Typed, Index
      <4>3. /\ state \in {"IDLE", "WAIT_FOR_ON", "WAIT_FOR_OFF"}
            /\ O_trigger <=> state = "WAIT_FOR_OFF"
        BY DEF TriggerInv, Typed
      <4> QED BY <4>1, <4>2, <4>3
    <3>2. CASE state = "IDLE"
      BY <2>2, <3>1, <3>2 DEF TriggerInv, RunInv, Done
    <3>3. CASE state = "WAIT_FOR_ON"
      BY <2>2, <3>1, <3>3 DEF TriggerInv, RunInv, Done
    <3>4. CASE state = "WAIT_FOR_OFF"
      <4>1. /\ trigger_index < reg.num /\ Len(emitted) = trigger_index + 1
            /\ Done(trigger_index)
            /\ emitted[trigger_index + 1].delay = reg.delay[trigger_index]
        BY <2>2, <3>4 DEF TriggerInv, RunInv
      <4>2. ASSUME NEW i \in 1 .. trigger_index + 1
            PROVE  /\ emitted[i].delay = reg.delay[i - 1]
                   /\ i # trigger_index + 1 => emitted[i].width = reg.width[i - 1]
        <5>1. CASE i = trigger_index + 1
          <6>1. i - 1 = trigger_index
            BY <3>1, <5>1
          <6> QED BY <4>1, <5>1, <6>1
        <5>2. CASE i # trigger_index + 1
          <6>1. i \in 1 .. trigger_index
            BY <3>1, <5>2
          <6> QED BY <4>1, <6>1 DEF Done
        <5> QED BY <5>1, <5>2
      <4> QED BY <3>1, <3>4, <4>1, <4>2
    <3> QED BY <3>1, <3>2, <3>3, <3>4
  <2> QED BY <2>1, <2>2 DEF PulsesAsProgrammed
<1> QED BY <1>1, <1>2, <1>3, PTL DEF TriggerSpec
=============================================================================
