----------------------------- MODULE CdcPulse -----------------------------
(***************************************************************************)
(* hdl/cdc_pulse.v: a pulse crosses from the src_clk domain to the dst_clk *)
(* domain with a request that travels through a synchroniser and an        *)
(* acknowledge that travels back.  Each clock edge is a step; the clocks   *)
(* are unrelated, so edges come in any order, or together, in which case   *)
(* each domain samples what the other held before the edge.                *)
(***************************************************************************)
EXTENDS Naturals

CONSTANT SYNC_STAGES   \* pSYNC_STAGES: flops in each synchroniser

ASSUME SyncStagesAssumption == SYNC_STAGES \in Nat \ {0}

Bit == {0, 1}
Stages == 1 .. SYNC_STAGES

VARIABLES
  src_req, ack_pipe, src_ack,              \* flops clocked by src_clk
  req_pipe, dst_req, dst_req_r, dst_pulse, \* flops clocked by dst_clk
  reset,                                   \* reset_i, one level seen by both
  src_cleared, dst_cleared                 \* an edge of that clock saw this reset

srcVars == <<src_req, ack_pipe, src_ack>>
dstVars == <<req_pipe, dst_req, dst_req_r, dst_pulse>>
resetVars == <<reset, src_cleared, dst_cleared>>
vars == <<srcVars, dstVars, resetVars>>

Zeros == [i \in Stages |-> 0]

\* A synchroniser on a clock edge: one value in, every flop one place on.
Shift(pipe, in) == [i \in Stages |-> IF i = 1 THEN in ELSE pipe[i - 1]]

\* A definition whose name says what is wrong with it is a slip of the one that
\* follows it; the README says which property each breaks.
busyUntilAck == src_req = 1
\* assign busy: a pulse that comes while the channel is busy is ignored.
busy == src_req = 1 \/ src_ack = 1

Init ==
  /\ src_req = 0 /\ ack_pipe = Zeros /\ src_ack = 0
  /\ req_pipe = Zeros /\ dst_req = 0 /\ dst_req_r = 0 /\ dst_pulse = 0
  /\ reset = 0 /\ src_cleared = FALSE /\ dst_cleared = FALSE

NextReqWhenBusy(p) == IF p = 1 THEN 1 ELSE IF src_ack = 1 THEN 0 ELSE src_req
NextReqOneCycle(p) == IF ~busy /\ p = 1 THEN 1 ELSE 0
NextReqHeld(p) == IF ~busy /\ p = 1 THEN 1 ELSE src_req
\* Raise, drop or keep the request; p is src_pulse at the edge.
NextReq(p) == IF ~busy /\ p = 1 THEN 1
              ELSE IF src_ack = 1 THEN 0 ELSE src_req

SrcEdge(p) ==
  IF reset = 1
  THEN /\ src_req' = 0 /\ ack_pipe' = Zeros /\ src_ack' = 0
       /\ src_cleared' = TRUE
  ELSE /\ src_req' = NextReq(p)
       /\ ack_pipe' = Shift(ack_pipe, dst_req)
       /\ src_ack' = ack_pipe[SYNC_STAGES]
       /\ src_cleared' = src_cleared

DstEdge ==
  IF reset = 1
  THEN /\ req_pipe' = Zeros /\ dst_req' = 0 /\ dst_req_r' = 0 /\ dst_pulse' = 0
       /\ dst_cleared' = TRUE
  ELSE /\ req_pipe' = Shift(req_pipe, src_req)
       /\ dst_req' = req_pipe[SYNC_STAGES]
       /\ dst_req_r' = dst_req
       /\ dst_pulse' = IF dst_req_r = 0 /\ dst_req = 1 THEN 1 ELSE 0
       /\ dst_cleared' = dst_cleared

SrcTick(p) == SrcEdge(p) /\ UNCHANGED <<dstVars, reset, dst_cleared>>
DstTick == DstEdge /\ UNCHANGED <<srcVars, reset, src_cleared>>
BothTick(p) == SrcEdge(p) /\ DstEdge /\ UNCHANGED reset

AssertReset ==
  /\ reset = 0
  /\ reset' = 1 /\ src_cleared' = FALSE /\ dst_cleared' = FALSE
  /\ UNCHANGED <<srcVars, dstVars>>

\* The reset pin is held for at least one edge of each clock.
ReleaseReset ==
  /\ reset = 1 /\ src_cleared /\ dst_cleared
  /\ reset' = 0
  /\ UNCHANGED <<srcVars, dstVars, src_cleared, dst_cleared>>

Next ==
  \/ \E p \in Bit : SrcTick(p)
  \/ DstTick
  \/ \E p \in Bit : BothTick(p)
  \/ AssertReset
  \/ ReleaseReset

Spec == Init /\ [][Next]_vars

(* Both clocks run for ever; nothing makes a pulse or a reset come.        *)
SrcClockRuns == WF_vars(\E p \in Bit : SrcTick(p) \/ BothTick(p))
DstClockRuns == WF_vars(DstTick \/ \E p \in Bit : BothTick(p))
FairSpec == Spec /\ SrcClockRuns /\ DstClockRuns

---------------------------------------------------------------------------
\* The types.
TypeOK ==
  /\ src_req \in Bit /\ src_ack \in Bit /\ ack_pipe \in [Stages -> Bit]
  /\ req_pipe \in [Stages -> Bit]
  /\ dst_req \in Bit /\ dst_req_r \in Bit /\ dst_pulse \in Bit
  /\ reset \in Bit /\ src_cleared \in BOOLEAN /\ dst_cleared \in BOOLEAN

(***************************************************************************)
(* The request and the acknowledge are one wave: along the ring            *)
(* src_req, req_pipe, dst_req, ack_pipe, src_ack the flops agree with      *)
(* src_req up to some place and disagree with it from there on.  So the    *)
(* acknowledge a source sees is the one of its own request, in whichever   *)
(* order the edges come.                                                   *)
(***************************************************************************)
OneWave ==
  LET v == src_req IN
  /\ \A i, j \in Stages : i < j /\ req_pipe[j] = v => req_pipe[i] = v
  /\ dst_req = v => \A i \in Stages : req_pipe[i] = v
  /\ \A i \in Stages : ack_pipe[i] = v => dst_req = v
  /\ \A i, j \in Stages : i < j /\ ack_pipe[j] = v => ack_pipe[i] = v
  /\ src_ack = v => \A i \in Stages : ack_pipe[i] = v

\* The edge detector's flop is at most one edge behind, and what follows the
\* edge it has not seen yet is constant.
EdgeLag == dst_req_r # dst_req => \A i \in Stages : req_pipe[i] = dst_req

\* The output is high only in the edge's own cycle of the wave's rise.
PulseInRise == dst_pulse = 1 => dst_req_r = 1 /\ dst_req = 1

SrcZero == src_req = 0 /\ src_ack = 0 /\ ack_pipe = Zeros
DstZero == req_pipe = Zeros /\ dst_req = 0 /\ dst_req_r = 0 /\ dst_pulse = 0

(***************************************************************************)
(* All of it: out of reset the request and acknowledge are one wave and    *)
(* the output belongs to its rise; in reset each domain is cleared by the  *)
(* first edge of its clock, whatever the other one is doing.               *)
(***************************************************************************)
IInv ==
  /\ TypeOK
  /\ reset = 0 => OneWave /\ EdgeLag /\ PulseInRise
  /\ reset = 1 => (src_cleared => SrcZero) /\ (dst_cleared => DstZero)

\* A pulse was accepted and its dst_pulse is still to come.
InFlight ==
  /\ reset = 0
  /\ IF dst_req = 1 THEN dst_req_r = 0 ELSE src_req = 1

(***************************************************************************)
(* A source that is not busy is not awaiting anything: its last pulse has  *)
(* been delivered and dst_pulse is low again, so the next pulse can never  *)
(* merge with it.                                                          *)
(***************************************************************************)
IdleMeansDelivered == reset = 0 /\ ~busy => ~InFlight /\ dst_pulse = 0

(***************************************************************************)
(* Every accepted pulse is delivered once, one at a time: the handshake    *)
(* implements the one-place channel.                                       *)
(***************************************************************************)
Channel == INSTANCE PulseChannel WITH
  inflight <- InFlight, pulse <- (dst_pulse = 1), reset <- reset
ImplementsChannel == Channel!Spec

\* An accepted pulse comes out as long as both clocks run and nobody resets.
Delivered == InFlight ~> (dst_pulse = 1 \/ reset = 1)

\* The handshake finishes: a busy source becomes free again (or is reset).
FreeAgain == busy ~> (~busy \/ reset = 1)
===========================================================================
