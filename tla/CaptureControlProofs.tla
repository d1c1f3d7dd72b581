------------------------ MODULE CaptureControlProofs ------------------------
(***************************************************************************)
(* Proofs about CaptureControl, for patterns, captures, delays and gaps    *)
(* between bytes of any length that are Timely.                            *)
(*                                                                         *)
(* An arming goes through six phases, and IInv says what each of them      *)
(* fixes in both clock domains.  From the moment the pulse leaves fe_clk,  *)
(* Way counts the flops of usb_clk it has passed and Age the cycles of     *)
(* fe_clk that may have gone by since: usb_clk being less than twice as    *)
(* fast, the entries counted and the gap since the byte that matched are   *)
(* bounded by Age until ARM has been seen to fall, and nothing of the next *)
(* arming can begin before that.  FreshInv, on top of it, follows the      *)
(* bytes of a match at full speed.                                         *)
(***************************************************************************)
EXTENDS CaptureControl, Integers, TLAPS

Bit == {0, 1}

(***************************************************************************)
(* What holds in every phase.                                              *)
(***************************************************************************)
FlopTypes ==
  /\ event_reg \in Bytes \cup {None, Status} /\ quiet \in 1 .. MinByteGap
  /\ in_data \in BOOLEAN /\ data_wr \in BOOLEAN /\ wr_en \in BOOLEAN
  /\ arm_pipe \in [1 .. 4 -> BOOLEAN] /\ capturing_pipe \in [1 .. 3 -> BOOLEAN]
  /\ match_trigger \in BOOLEAN /\ match_trigger_r \in BOOLEAN
  /\ arm_prev \in BOOLEAN /\ capturing_r \in BOOLEAN
  /\ delay_counter_fe \in 0 .. capture_delay /\ delay_counter_fe_running \in BOOLEAN
  /\ capture_enable_reg \in BOOLEAN /\ capture_enable_reg2 \in BOOLEAN
  /\ capture_enable_pulse \in BOOLEAN
  /\ src_req \in Bit /\ src_ack \in Bit
  /\ dst_req \in Bit /\ dst_req_r \in Bit /\ dst_pulse \in Bit
  /\ ack_pipe \in [1 .. 2 -> Bit] /\ req_pipe \in [1 .. 2 -> Bit]
  /\ reg_arm \in Bit /\ reg_arm_r \in Bit /\ flushing \in BOOLEAN
  /\ fill \in Nat /\ usb_edges \in 0 .. 2 /\ capture_count \in Nat
  /\ matched \in BOOLEAN /\ captured \in BOOLEAN

MatcherTypes ==
  /\ input_data \in [1 .. Len(Pattern) - 1 -> Bytes]
  /\ bytes_received \in 0 .. Len(Pattern)
  /\ recent \in Seq(Bytes) /\ Len(recent) <= Len(Pattern)

SetupInv ==
  /\ setup \in Setups
  /\ CAPTURE_LEN \in Nat /\ capture_delay \in Nat /\ FIFO_LATENCY \in Nat
  /\ MinByteGap \in Nat /\ MinByteGap >= 1

\* Entries that have been counted, or have left fe_capture.v's FSM, or entered it.
One(b) == IF b THEN 1 ELSE 0
Counted == capture_count + One(data_wr)
Entered == Counted + One(in_data)

\* A capture runs over by the two entries in the pipeline when the limit is reached.
Bounded == IF CAPTURE_LEN = 0 THEN capture_count = 0 ELSE Entered <= CAPTURE_LEN + 2

BaseInv ==
  /\ SetupInv /\ FlopTypes /\ MatcherTypes /\ Bounded /\ Cdc!OneWave
  /\ arm_prev = arm_pipe[1]
  /\ event_reg \in Bytes /\ MinByteGap > 1 => quiet = 1

\* ARM's way through the flops of fe_clk, going up and going down.
ArmRising ==
  /\ arm_pipe[1] => O_arm
  /\ arm_pipe[2] => arm_pipe[1]
  /\ arm_pipe[3] => arm_pipe[2]
  /\ arm_pipe[4] => arm_pipe[3]
ArmFalling ==
  /\ O_arm => arm_pipe[1]
  /\ arm_pipe[1] => arm_pipe[2]
  /\ arm_pipe[2] => arm_pipe[3]
  /\ arm_pipe[3] => arm_pipe[4]

\* The crossing is at rest.
ChannelFree ==
  /\ src_req = 0 /\ src_ack = 0 /\ dst_req = 0 /\ dst_req_r = 0 /\ dst_pulse = 0
  /\ \A i \in 1 .. 2 : ack_pipe[i] = 0 /\ req_pipe[i] = 0

\* The count is that of this arming, none so far, or the last one's, which lets
\* nothing in.
NoneCounted ==
  \/ capture_count = 0
  \/ ~arm_pipe[4] /\ CAPTURE_LEN > 0 /\ capture_count >= CAPTURE_LEN

(***************************************************************************)
(* The phases of an arming.                                                *)
(***************************************************************************)
\* No entry is on its way to the FIFO.
NoEntry == ~in_data /\ ~data_wr /\ ~wr_en
\* At full speed: the byte that matched is the last one, at most capture_delay + n
\* cycles ago, and the match still stands.
StillShort(n) == DisarmedInTime => 2 <= quiet /\ quiet <= capture_delay + n
Held == DisarmedInTime => match_trigger

\* ARM may have been written and be on its way; what an earlier capture has left in
\* the FIFO is being flushed, or there is nothing.
BeforeMatch ==
  /\ ~matched /\ ~captured /\ ~match_trigger /\ ~delay_counter_fe_running
  /\ ~capture_enable_reg /\ ~capture_enable_pulse /\ ~capturing_r
  /\ delay_counter_fe = 0 /\ NoEntry /\ ChannelFree /\ ArmRising /\ NoneCounted
  /\ reg_arm_r <= reg_arm /\ (reg_arm_r = 0 => ~flushing)
  /\ reg_arm = 1 => fill = 0 \/ ~sniff_fifo_empty
  /\ O_arm => fill = 0

\* From the match, its own cycle included, to the capture enable.
Delay ==
  /\ match /\ (delay_counter_fe_running => matched) /\ ~captured
  /\ ~capture_enable_reg /\ ~capture_enable_pulse /\ ~capturing_r
  /\ NoEntry /\ ChannelFree /\ ArmRising /\ NoneCounted
  /\ O_arm /\ arm_pipe[1] /\ reg_arm = 1 /\ fill = 0
  /\ Held /\ (DisarmedInTime => 2 <= quiet /\ quiet <= 2 + delay_counter_fe)

\* The first cycle of capture_enable_reg, and the second, in which the pulse to usb_clk
\* is high.  With a count left over the capture has not begun yet.
Enabled ==
  /\ capture_enable_reg /\ ~capture_enable_reg2 /\ ~capture_enable_pulse
  /\ matched /\ ~delay_counter_fe_running /\ delay_counter_fe = 0
  /\ captured = capturing_r /\ (in_data => capturing_r) /\ ~data_wr /\ ~wr_en
  /\ ChannelFree /\ ArmRising /\ NoneCounted /\ (capturing_r => capture_count = 0)
  /\ O_arm /\ arm_pipe[2] /\ reg_arm = 1 /\ fill = 0
  /\ Held /\ StillShort(3)

Announced ==
  /\ capture_enable_reg /\ capture_enable_reg2 /\ capture_enable_pulse
  /\ matched /\ ~delay_counter_fe_running /\ delay_counter_fe = 0
  /\ captured = capturing_r /\ (in_data \/ data_wr => capturing_r) /\ ~wr_en
  /\ ChannelFree /\ ArmRising /\ NoneCounted /\ (capturing_r => capture_count = 0)
  /\ O_arm /\ arm_pipe[3] /\ reg_arm = 1 /\ fill = 0
  /\ Held /\ StillShort(4)

\* Flops of usb_clk the request has passed, clearing ARM the last of them; cycles of
\* fe_clk since the start, as far as usb_clk can tell; ARM, as the matcher may see it.
Way == req_pipe[1] + req_pipe[2] + dst_req + dst_req_r + (1 - reg_arm)
Age == IF reg_arm_r = 1 THEN 3 + Way - usb_edges ELSE 8
ArmUp == reg_arm_r = 1 \/ arm_prev

\* The request has been raised; ARM is up until it arrives, and falls on its way back to
\* fe_clk.  Acknowledgements are behind it.  The capture has begun, or begins with this
\* very edge.
Told ==
  /\ matched /\ ~capture_enable_pulse
  /\ ~delay_counter_fe_running /\ delay_counter_fe = 0
  /\ ArmFalling /\ ~flushing
  /\ reg_arm_r = 0 => reg_arm = 0
  /\ reg_arm_r = 1 =>
       /\ src_req = 1 /\ usb_edges <= Way
       /\ req_pipe[1] >= req_pipe[2] /\ req_pipe[2] >= dst_req
       /\ dst_req >= dst_req_r /\ dst_req_r >= 1 - reg_arm
       /\ dst_pulse = 1 <=> dst_req_r = 1 /\ reg_arm = 1
       /\ ack_pipe[1] = 1 => Way >= 3 + usb_edges
       /\ ack_pipe[2] = 1 => Way >= 4 + usb_edges
       /\ src_ack = 1 => Way >= 5 + usb_edges
       /\ reg_arm = 1 => fill <= Way
  /\ reg_arm_r = 0 /\ arm_prev => usb_edges > 0
  /\ captured \/ (reg_arm_r = 1 /\ Way = usb_edges /\ capture_allowed)
  /\ ArmUp => StillShort(2 + Age)

\* The capture runs, or has just reached its limit: the flag that usb_clk samples is high
\* in every flop the samples since the start have reached.
Capturing ==
  /\ Told /\ capture_enable_reg /\ capture_enable_reg2
  /\ captured = capturing_r /\ (capture_allowed \/ capturing_r)
  /\ \A i \in 1 .. 3 :
       i > (IF capture_allowed THEN 0 ELSE usb_edges) /\ (i <= Way \/ reg_arm = 0)
         => capturing_pipe[i]
  /\ ArmUp /\ CAPTURE_LEN > 0 =>
       Entered <= Age /\ Counted <= Age - 1 /\ capture_count <= Age - 2
  /\ Held

\* The limit was reached, with ARM down or no byte to come before it is.
Over ==
  /\ Told /\ captured /\ ~capture_enable_reg /\ ~capturing_r
  /\ ~match_trigger /\ ~in_data
  /\ CAPTURE_LEN > 0 /\ capture_count >= CAPTURE_LEN
  /\ DisarmedInTime \/ ~ArmUp

Phase == BeforeMatch \/ Delay \/ Enabled \/ Announced \/ Capturing \/ Over
IInv == BaseInv /\ Timely /\ Phase

(***************************************************************************)
(* The bytes of a match, when no byte comes between it and the end of the  *)
(* arming.  recent is what was given to the matcher since the arming, so   *)
(* it is empty while the matcher is not armed; up to the match the window  *)
(* ends with it; a second byte comes only once the count has been reset;   *)
(* and the capture ends with the byte that matched, which clears all.      *)
(***************************************************************************)
Recalled ==
  /\ bytes_received = Len(recent)
  /\ \A i \in DOMAIN input_data : i <= Len(recent) =>
       input_data[Len(Pattern) - i] = recent[Len(recent) + 1 - i]

ForgottenUnarmed == ~arm_pipe[1] /\ ~arm_pipe[2] => recent = <<>>
WindowInStep == BeforeMatch => Recalled /\ (~arm_pipe[1] => recent = <<>>)
SecondByteLate ==
  BeforeMatch /\ recent # <<>> /\ ~arm_pipe[4] =>
    /\ 2 <= quiet /\ quiet <= 4
    /\ (quiet >= 3 => arm_pipe[2]) /\ (quiet = 4 => arm_pipe[3])
MatchInStep == I_match => recent = Pattern /\ (Len(Pattern) > 1 => arm_pipe[4])
ClearedAtEnd == Over => bytes_received = 0

FreshInv == DisarmedInTime =>
  ForgottenUnarmed /\ WindowInStep /\ SecondByteLate /\ MatchInStep /\ ClearedAtEnd

---------------------------------------------------------------------------
(* The two clock edges, flop by flop.                                      *)

SetupKept ==
  /\ setup' = setup
  /\ CAPTURE_LEN' = CAPTURE_LEN /\ capture_delay' = capture_delay
  /\ MinByteGap' = MinByteGap /\ Pattern' = Pattern
  /\ DisarmedInTime' = DisarmedInTime
  /\ OutlastsDisarming' = OutlastsDisarming

FeMatch(arm) ==
  /\ match_trigger' \in BOOLEAN /\ match_trigger_r' = match_trigger
  /\ match_trigger /\ capture_done => ~match_trigger'
  /\ ~(match_trigger /\ capture_done) /\ ~(event_reg \in Bytes /\ arm) =>
       match_trigger' = match_trigger

FeQuiet(event) ==
  /\ event_reg' = event /\ event \in Bytes \cup {None, Status}
  /\ event \in Bytes => quiet >= MinByteGap /\ quiet' = 1
  /\ event \notin Bytes => quiet' = IF quiet < MinByteGap THEN quiet + 1 ELSE quiet

FeSource ==
  /\ src_req' = IF src_req = 0 /\ src_ack = 0 /\ capture_enable_pulse THEN 1
                ELSE IF src_ack = 1 THEN 0 ELSE src_req
  /\ ack_pipe' \in [1 .. 2 -> Bit]
  /\ ack_pipe'[1] = dst_req /\ ack_pipe'[2] = ack_pipe[1]
  /\ src_ack' = ack_pipe[2]
  /\ req_pipe' = req_pipe /\ dst_req' = dst_req /\ dst_req_r' = dst_req_r
  /\ dst_pulse' = dst_pulse

FeEntries ==
  /\ in_data' = (event_reg # None /\ capture_allowed)
  /\ data_wr' = in_data /\ wr_en' = data_wr
  /\ fill' = IF fill = 0 /\ wr_en THEN 1 ELSE fill
  /\ capture_count' = NextCount

FeEnable ==
  /\ capturing_r' = capture_allowed
  /\ capture_enable_reg' = NextEnable
  /\ capture_enable_reg2' = capture_enable_reg
  /\ capture_enable_pulse' = NextPulse
  /\ delay_counter_fe_running' = (~O_capture_enable /\ match)
  /\ delay_counter_fe' = IF capture_done \/ ~match THEN delay_counter_fe
                         ELSE IF delaying THEN delay_counter_fe + 1 ELSE 0

FeArm(arm) ==
  /\ usb_edges > 0 /\ usb_edges' = 0
  /\ arm = O_arm \/ arm = arm_prev
  /\ arm_prev' = O_arm
  /\ arm_pipe' \in [1 .. 4 -> BOOLEAN]
  /\ arm_pipe'[1] = O_arm /\ arm_pipe'[2] = arm_pipe[1]
  /\ arm_pipe'[3] = arm_pipe[2] /\ arm_pipe'[4] = arm_pipe[3]
  /\ matched' = (matched \/ I_match)
  /\ captured' = (captured \/ capture_allowed)
  /\ reg_arm' = reg_arm /\ reg_arm_r' = reg_arm_r /\ flushing' = flushing
  /\ capturing_pipe' = capturing_pipe

FeEdge(event, arm) ==
  /\ SetupKept /\ FeMatch(arm) /\ FeQuiet(event) /\ FeSource
  /\ FeEntries /\ FeEnable /\ FeArm(arm)

UsbKept ==
  /\ event_reg' = event_reg /\ in_data' = in_data /\ data_wr' = data_wr
  /\ capture_count' = capture_count /\ arm_pipe' = arm_pipe
  /\ match_trigger' = match_trigger /\ match_trigger_r' = match_trigger_r
  /\ arm_prev' = arm_prev /\ capturing_r' = capturing_r
  /\ delay_counter_fe' = delay_counter_fe
  /\ delay_counter_fe_running' = delay_counter_fe_running
  /\ capture_enable_reg' = capture_enable_reg
  /\ capture_enable_reg2' = capture_enable_reg2
  /\ capture_enable_pulse' = capture_enable_pulse
  /\ src_req' = src_req /\ ack_pipe' = ack_pipe /\ src_ack' = src_ack
  /\ wr_en' = wr_en /\ quiet' = quiet
  /\ I_match' = I_match /\ match' = match
  /\ O_capture_enable' = O_capture_enable
  /\ capture_allowed' = capture_allowed /\ capture_done' = capture_done

UsbDestination ==
  /\ req_pipe' \in [1 .. 2 -> Bit]
  /\ req_pipe'[1] = src_req /\ req_pipe'[2] = req_pipe[1]
  /\ dst_req' = req_pipe[2] /\ dst_req_r' = dst_req
  /\ dst_pulse' = IF dst_req_r = 0 /\ dst_req = 1 THEN 1 ELSE 0

UsbArm(write, drained) ==
  /\ usb_edges < 2 /\ usb_edges' = usb_edges + 1
  /\ write => HostMayArm
  /\ drained => ~sniff_fifo_empty /\ ~data_wr /\ ~wr_en
  /\ reg_arm' = IF write THEN 1 ELSE IF dst_pulse = 1 THEN 0 ELSE reg_arm
  /\ reg_arm_r' = reg_arm
  /\ flushing' = (~sniff_fifo_empty /\ (flushing \/ reg_arm = 1))
  /\ fill' = IF drained THEN 0
             ELSE IF fill > 0 /\ sniff_fifo_empty THEN fill + 1 ELSE fill
  /\ capturing_pipe' \in [1 .. 3 -> BOOLEAN]
  /\ capturing_pipe'[1] = capture_allowed
  /\ capturing_pipe'[2] = capturing_pipe[1]
  /\ capturing_pipe'[3] = capturing_pipe[2]
  /\ matched' = (matched /\ ~write) /\ captured' = (captured /\ ~write)

UsbEdge(write, drained) ==
  SetupKept /\ UsbKept /\ UsbDestination /\ UsbArm(write, drained)

LEMMA SetupTypes ==
  setup \in Setups => SetupInv /\ Pattern \in Seq(Bytes) /\ Pattern # <<>>
BY CaptureControlAssumption
   DEF SetupInv, Pattern, CAPTURE_LEN, capture_delay, MinByteGap

LEMMA SetupStays == setup' = setup => SetupKept
BY DEF SetupKept, CAPTURE_LEN, capture_delay, MinByteGap, Pattern, DisarmedInTime,
       OutlastsDisarming

LEMMA FeFlops ==
  ASSUME FlopTypes, NEW event \in Bytes \cup {None, Status}, NEW arm \in BOOLEAN,
         FeTick(event, arm)
  PROVE  FeEdge(event, arm)
<1>1. SetupKept
  BY SetupStays DEF FeTick
<1>2. FeMatch(arm)
  BY DEF FeTick, Matcher, TakesByte, FlopTypes, FeMatch
<1>3. FeQuiet(event)
  BY DEF FeTick, Entries, FeQuiet
<1>4. FeSource
  <2>1. Cdc!SrcEdge(IF capture_enable_pulse THEN 1 ELSE 0) /\ UNCHANGED cdcDst
    BY DEF FeTick
  <2>2. /\ src_req' = Cdc!NextReq(IF capture_enable_pulse THEN 1 ELSE 0)
        /\ ack_pipe' = [i \in 1 .. 2 |-> IF i = 1 THEN dst_req ELSE ack_pipe[i - 1]]
        /\ src_ack' = ack_pipe[2]
    BY <2>1 DEF Cdc!SrcEdge, Cdc!Shift, Cdc!Stages
  <2>3. src_req' = (IF src_req = 0 /\ src_ack = 0 /\ capture_enable_pulse THEN 1
                    ELSE IF src_ack = 1 THEN 0 ELSE src_req)
    BY <2>2 DEF Cdc!NextReq, Cdc!busy, FlopTypes, Bit
  <2>4. /\ ack_pipe' \in [1 .. 2 -> Bit]
        /\ ack_pipe'[1] = dst_req /\ ack_pipe'[2] = ack_pipe[1]
    BY <2>2 DEF FlopTypes, Bit
  <2> QED BY <2>1, <2>2, <2>3, <2>4 DEF cdcDst, FeSource
<1>5. FeEntries
  BY DEF FeTick, Entries, FeEntries
<1>6. FeEnable
  BY DEF FeTick, CaptureEnable, FeEnable
<1>7. FeArm(arm)
  <2>1. O_arm \in BOOLEAN
    BY DEF O_arm, FlopTypes
  <2>2. arm_pipe' = [i \in 1 .. 4 |-> IF i = 1 THEN O_arm ELSE arm_pipe[i - 1]]
    BY DEF FeTick, Entries, Pushed, FlopTypes
  <2>3. /\ arm_pipe' \in [1 .. 4 -> BOOLEAN]
        /\ arm_pipe'[1] = O_arm /\ arm_pipe'[2] = arm_pipe[1]
        /\ arm_pipe'[3] = arm_pipe[2] /\ arm_pipe'[4] = arm_pipe[3]
    BY <2>1, <2>2 DEF FlopTypes
  <2> QED BY <2>3 DEF FeTick, usbVars, FeArm
<1> QED BY <1>1, <1>2, <1>3, <1>4, <1>5, <1>6, <1>7 DEF FeEdge

LEMMA UsbFlops ==
  ASSUME FlopTypes, NEW write \in BOOLEAN, NEW drained \in BOOLEAN,
         UsbTick(write, drained)
  PROVE  UsbEdge(write, drained)
<1>1. SetupKept
  BY SetupStays DEF UsbTick
<1>2. UsbKept
  <2>1. /\ event_reg' = event_reg /\ in_data' = in_data /\ data_wr' = data_wr
        /\ capture_count' = capture_count /\ arm_pipe' = arm_pipe
        /\ match_trigger' = match_trigger /\ match_trigger_r' = match_trigger_r
        /\ arm_prev' = arm_prev /\ capturing_r' = capturing_r
        /\ delay_counter_fe' = delay_counter_fe
        /\ delay_counter_fe_running' = delay_counter_fe_running
        /\ capture_enable_reg' = capture_enable_reg
        /\ capture_enable_reg2' = capture_enable_reg2
        /\ capture_enable_pulse' = capture_enable_pulse
        /\ src_req' = src_req /\ ack_pipe' = ack_pipe /\ src_ack' = src_ack
        /\ wr_en' = wr_en /\ quiet' = quiet
    BY DEF UsbTick, captureVars, matcherVars, triggerVars, cdcSrc
  <2>2. I_match' = I_match /\ match' = match /\ O_capture_enable' = O_capture_enable
    BY <1>1, <2>1 DEF I_match, match, O_capture_enable, capture_enable_start, SetupKept
  <2>3. capture_allowed' = capture_allowed /\ capture_done' = capture_done
    BY <1>1, <2>1, <2>2 DEF capture_allowed, capture_done, SetupKept
  <2> QED BY <2>1, <2>2, <2>3 DEF UsbKept
<1>3. UsbDestination
  <2>1. Cdc!DstEdge
    BY DEF UsbTick
  <2>2. /\ req_pipe' = [i \in 1 .. 2 |-> IF i = 1 THEN src_req ELSE req_pipe[i - 1]]
        /\ dst_req' = req_pipe[2] /\ dst_req_r' = dst_req
        /\ dst_pulse' = (IF dst_req_r = 0 /\ dst_req = 1 THEN 1 ELSE 0)
    BY <2>1 DEF Cdc!DstEdge, Cdc!Shift, Cdc!Stages
  <2>3. /\ req_pipe' \in [1 .. 2 -> Bit]
        /\ req_pipe'[1] = src_req /\ req_pipe'[2] = req_pipe[1]
    BY <2>2 DEF FlopTypes, Bit
  <2> QED BY <2>2, <2>3 DEF UsbDestination
<1>4. UsbArm(write, drained)
  <2>1. capture_allowed \in BOOLEAN
    BY DEF capture_allowed
  <2>2. capturing_pipe' = [i \in 1 .. 3 |-> IF i = 1 THEN capture_allowed
                                            ELSE capturing_pipe[i - 1]]
    BY DEF UsbTick, Pushed, CapturingFlag, FlopTypes
  <2>3. /\ capturing_pipe' \in [1 .. 3 -> BOOLEAN]
        /\ capturing_pipe'[1] = capture_allowed
        /\ capturing_pipe'[2] = capturing_pipe[1]
        /\ capturing_pipe'[3] = capturing_pipe[2]
    BY <2>1, <2>2 DEF FlopTypes
  <2>4. flushing' = (~sniff_fifo_empty /\ (flushing \/ reg_arm = 1))
    BY DEF UsbTick, Flush, FlopTypes
  <2> QED BY <2>3, <2>4 DEF UsbTick, UsbArm
<1> QED BY <1>1, <1>2, <1>3, <1>4 DEF UsbEdge

\* The wave, written out for two flops.
LEMMA WaveOut ==
  Cdc!OneWave <=>
    /\ req_pipe[2] = src_req => req_pipe[1] = src_req
    /\ dst_req = src_req => req_pipe[1] = src_req /\ req_pipe[2] = src_req
    /\ ack_pipe[1] = src_req => dst_req = src_req
    /\ ack_pipe[2] = src_req => dst_req = src_req /\ ack_pipe[1] = src_req
    /\ src_ack = src_req => ack_pipe[1] = src_req /\ ack_pipe[2] = src_req
BY DEF Cdc!OneWave, Cdc!Stages

\* Every wire is a bit.
LEMMA Wires ==
  /\ I_match \in BOOLEAN /\ match \in BOOLEAN /\ O_capture_enable \in BOOLEAN
  /\ capture_allowed \in BOOLEAN /\ capture_done \in BOOLEAN /\ O_arm \in BOOLEAN
  /\ capture_enable_start \in BOOLEAN /\ delaying \in BOOLEAN
BY DEF I_match, match, O_capture_enable, capture_allowed, capture_done, O_arm,
       capture_enable_start, delaying

LEMMA Ones == ASSUME NEW b PROVE One(b) \in 0 .. 1 /\ (~b => One(b) = 0)
BY DEF One

---------------------------------------------------------------------------
(* An edge of fe_clk, phase by phase.                                      *)

LEMMA FeBeforeMatch ==
  ASSUME BaseInv, BeforeMatch, NEW event, NEW arm \in BOOLEAN, FeEdge(event, arm)
  PROVE  BeforeMatch' \/ Delay'
<1> USE DEF BaseInv, SetupInv, FlopTypes, Bit, FeEdge, SetupKept
<1>w. /\ ~I_match /\ ~match /\ ~O_capture_enable /\ ~capture_allowed /\ ~capture_done
  BY DEF BeforeMatch, I_match, match, O_capture_enable, capture_enable_start,
         capture_allowed, capture_done
<1>f. /\ ~in_data' /\ ~data_wr' /\ ~wr_en' /\ fill' = fill
      /\ ~matched' /\ ~captured' /\ ~capturing_r' /\ ~capture_enable_reg'
      /\ ~capture_enable_pulse' /\ ~delay_counter_fe_running' /\ delay_counter_fe' = 0
      /\ ~match_trigger_r'
  BY <1>w, Wires DEF BeforeMatch, NoEntry, NextEnable, NextPulse, FeMatch, FeArm,
                     FeEntries, FeEnable
<1>u. /\ reg_arm' = reg_arm /\ reg_arm_r' = reg_arm_r /\ flushing' = flushing
      /\ O_arm' = O_arm /\ sniff_fifo_empty' = sniff_fifo_empty
  BY <1>f DEF O_arm, sniff_fifo_empty, FeArm, FeEntries, FeEnable
<1>a. ArmRising'
  BY <1>u DEF BeforeMatch, ArmRising, FeArm, FeEntries, FeEnable
<1>c. ChannelFree'
  BY DEF BeforeMatch, ChannelFree, FeSource
<1>n. NoneCounted'
  BY DEF BeforeMatch, NoneCounted, NextCount, NoEntry, ArmRising, FeArm, FeEntries,
         FeEnable
<1>1. CASE ~match_trigger'
  BY <1>1, <1>f, <1>u, <1>a, <1>c, <1>n DEF BeforeMatch, NoEntry
<1>2. CASE match_trigger'
  <2>1. event_reg \in Bytes /\ arm
    BY <1>2 DEF BeforeMatch, FeMatch
  <2>2. O_arm /\ O_arm' /\ arm_pipe'[1] /\ reg_arm = 1
    <3>1. O_arm
      BY <2>1 DEF BeforeMatch, ArmRising, FeArm
    <3>2. reg_arm = 1
      BY <3>1 DEF BeforeMatch, O_arm
    <3> QED BY <1>u, <3>1, <3>2 DEF FeArm
  <2>3. I_match' /\ match' /\ ~capture_enable_reg'
    BY <1>2, <1>f DEF I_match, match
  <2>4. DisarmedInTime => quiet' = 2
    BY <2>1 DEF DisarmedInTime, FeQuiet
  <2>5. fill' = 0
    BY <2>2, <1>f DEF BeforeMatch
  <2> QED BY <1>2, <1>f, <1>u, <1>a, <1>c, <1>n, <2>2, <2>3, <2>4, <2>5 DEF Delay,
                                                                            NoEntry,
                                                                            Held
<1> QED BY <1>1, <1>2 DEF FeMatch

LEMMA FeDelay ==
  ASSUME BaseInv, Delay, NEW event, NEW arm \in BOOLEAN, FeEdge(event, arm)
  PROVE  Delay' \/ Enabled'
<1> USE DEF BaseInv, SetupInv, FlopTypes, Bit, FeEdge, SetupKept
<1>w. /\ match /\ ~capture_done
      /\ (O_capture_enable <=> delay_counter_fe = capture_delay)
      /\ (capture_allowed => O_capture_enable)
      /\ (delaying <=> delay_counter_fe # capture_delay)
  BY DEF Delay, O_capture_enable, capture_enable_start, capture_allowed, capture_done,
         delaying
<1>f. /\ ~data_wr' /\ ~wr_en' /\ fill' = 0 /\ matched'
      /\ ~capture_enable_pulse'
      /\ capturing_r' = capture_allowed /\ captured' = capture_allowed
      /\ (in_data' => capture_allowed)
  BY <1>w, Wires DEF Delay, NoEntry, NextPulse, match, FeArm, FeEntries, FeEnable
<1>u. /\ reg_arm' = 1 /\ O_arm'
  BY DEF O_arm, Delay, FeArm, FeEntries, FeEnable
<1>a. ArmRising' /\ arm_pipe'[1] /\ arm_pipe'[2]
  BY <1>u DEF Delay, ArmRising, FeArm, FeEntries, FeEnable
<1>c. ChannelFree'
  BY DEF Delay, ChannelFree, FeSource
<1>n. NoneCounted' /\ (capture_allowed => capture_count' = 0)
  BY DEF Delay, NoneCounted, NextCount, NoEntry, ArmRising, capture_allowed, FeArm,
         FeEntries, FeEnable
<1>q. DisarmedInTime => 2 <= quiet' /\ quiet' <= 3 + delay_counter_fe /\ match_trigger'
  <2> SUFFICES ASSUME DisarmedInTime
               PROVE  2 <= quiet' /\ quiet' <= 3 + delay_counter_fe /\ match_trigger'
    OBVIOUS
  <2>1. /\ match_trigger /\ 2 <= quiet /\ quiet + 1 <= 3 + delay_counter_fe
        /\ quiet < MinByteGap /\ event_reg \notin Bytes
    BY DEF Delay, DisarmedInTime, Held
  <2>2. quiet' = quiet + 1
    BY <2>1 DEF FeQuiet
  <2>3. match_trigger'
    BY <1>w, <2>1 DEF FeMatch
  <2> QED BY <2>1, <2>2, <2>3
<1>1. CASE delay_counter_fe = capture_delay
  <2>1. /\ capture_enable_reg' /\ ~capture_enable_reg2' /\ ~delay_counter_fe_running'
        /\ delay_counter_fe' = 0
    BY <1>1, <1>w DEF NextEnable, Delay, FeArm, FeEntries, FeEnable
  <2> QED BY <1>1, <1>f, <1>u, <1>a, <1>c, <1>n, <1>q, <2>1 DEF Enabled, Held,
                                                                StillShort
<1>2. CASE delay_counter_fe # capture_delay
  <2>1. /\ ~capture_enable_reg' /\ delay_counter_fe_running' /\ ~capture_allowed
        /\ delay_counter_fe' = delay_counter_fe + 1
    BY <1>2, <1>w DEF NextEnable, Delay, FeArm, FeEntries, FeEnable
  <2>2. match'
    BY <2>1 DEF match
  <2> QED BY <1>f, <1>u, <1>a, <1>c, <1>n, <1>q, <2>1, <2>2 DEF Delay, Held, NoEntry
<1> QED BY <1>1, <1>2

LEMMA FeEnabled ==
  ASSUME BaseInv, Enabled, NEW event, NEW arm \in BOOLEAN, FeEdge(event, arm)
  PROVE  Announced'
<1> USE DEF BaseInv, SetupInv, FlopTypes, Bit, FeEdge, SetupKept
<1>w. O_capture_enable /\ ~capture_done /\ ~delaying
      /\ (capture_allowed <=> capture_count = 0) /\ (capturing_r => capture_allowed)
  BY DEF Enabled, O_capture_enable, capture_allowed, capture_done, delaying, NoneCounted
<1>f. /\ data_wr' = in_data /\ ~wr_en' /\ fill' = 0 /\ matched'
      /\ capture_enable_reg' /\ capture_enable_reg2' /\ capture_enable_pulse'
      /\ ~delay_counter_fe_running' /\ delay_counter_fe' = 0
      /\ capturing_r' = capture_allowed /\ captured' = capture_allowed
      /\ (in_data' => capture_allowed)
  BY <1>w, Wires DEF Enabled, NextPulse, NextEnable, FeArm, FeEntries, FeEnable
<1>u. /\ reg_arm' = 1 /\ O_arm'
  BY DEF O_arm, Enabled, FeArm, FeEntries, FeEnable
<1>a. ArmRising' /\ arm_pipe'[3]
  BY <1>u DEF Enabled, ArmRising, FeArm, FeEntries, FeEnable
<1>c. ChannelFree'
  BY DEF Enabled, ChannelFree, FeSource
<1>n. NoneCounted' /\ (capture_allowed => capture_count' = 0)
  BY <1>w DEF Enabled, NoneCounted, NextCount, ArmRising, FeArm, FeEntries, FeEnable
<1>q. DisarmedInTime => 2 <= quiet' /\ quiet' <= 4 + capture_delay /\ match_trigger'
  <2> SUFFICES ASSUME DisarmedInTime
               PROVE  2 <= quiet' /\ quiet' <= 4 + capture_delay /\ match_trigger'
    OBVIOUS
  <2>1. /\ match_trigger /\ 2 <= quiet /\ quiet + 1 <= 4 + capture_delay
        /\ quiet < MinByteGap /\ event_reg \notin Bytes
    BY DEF Enabled, DisarmedInTime, Held, StillShort
  <2>2. quiet' = quiet + 1
    BY <2>1 DEF FeQuiet
  <2>3. match_trigger'
    BY <1>w, <2>1 DEF FeMatch
  <2> QED BY <2>1, <2>2, <2>3
<1> QED BY <1>w, <1>f, <1>u, <1>a, <1>c, <1>n, <1>q DEF Announced, Enabled, Held,
                                                        StillShort

LEMMA FeAnnounced ==
  ASSUME BaseInv, Announced, NEW event, NEW arm \in BOOLEAN, FeEdge(event, arm)
  PROVE  Capturing'
<1> USE DEF BaseInv, SetupInv, FlopTypes, Bit, FeEdge, SetupKept
<1>w. /\ O_capture_enable /\ ~capture_done /\ ~delaying
      /\ (capture_allowed <=> capture_count = 0) /\ (capturing_r => capture_allowed)
  BY DEF Announced, O_capture_enable, capture_allowed, capture_done, delaying,
         NoneCounted
<1>f. /\ data_wr' = in_data /\ wr_en' = data_wr /\ fill' = 0 /\ matched'
      /\ capture_enable_reg' /\ capture_enable_reg2' /\ ~capture_enable_pulse'
      /\ ~delay_counter_fe_running' /\ delay_counter_fe' = 0
      /\ capturing_r' = capture_allowed /\ captured' = capture_allowed
      /\ (in_data' => capture_allowed)
  BY <1>w, Wires DEF Announced, NextPulse, NextEnable, FeArm, FeEntries, FeEnable
<1>u. /\ reg_arm' = 1 /\ reg_arm_r' = 1 /\ ~flushing' /\ O_arm' /\ usb_edges' = 0
      /\ arm_pipe'[1] /\ arm_pipe'[2] /\ arm_pipe'[3] /\ arm_pipe'[4]
  BY DEF O_arm, Announced, ArmRising, FeArm
<1>a. ArmFalling' /\ ArmUp'
  BY <1>u DEF ArmFalling, ArmUp
<1>c. /\ src_req' = 1 /\ src_ack' = 0 /\ dst_req' = 0 /\ dst_req_r' = 0
      /\ dst_pulse' = 0 /\ ack_pipe'[1] = 0 /\ ack_pipe'[2] = 0
      /\ req_pipe'[1] = 0 /\ req_pipe'[2] = 0
  BY DEF Announced, ChannelFree, FeSource
<1>y. Way' = 0 /\ Age' = 3
  BY <1>u, <1>c DEF Way, Age
<1>n. /\ capture_count' \in Nat
      /\ CAPTURE_LEN = 0 => capture_count' = 0
      /\ capture_allowed => capture_count' <= One(data_wr)
      /\ ~capture_allowed => capture_count' = 0 /\ ~in_data /\ ~data_wr
  BY <1>w DEF Announced, NoneCounted, NextCount, ArmRising, Bounded, One,
             FeEntries
<1>e. capture_allowed' \/ capturing_r'
  BY <1>w, <1>f, <1>n, Wires DEF capture_allowed, O_capture_enable
<1>b. Entered' <= 3 /\ Counted' <= 2 /\ capture_count' <= 1
  <2>1. capture_count' <= One(data_wr)
    BY <1>n, Wires DEF One
  <2>2. data_wr' = in_data /\ in_data' \in BOOLEAN /\ capture_count' \in Nat
    BY <1>f, <1>n, Wires DEF FeEntries
  <2>3. /\ One(data_wr) \in 0 .. 1 /\ One(data_wr') \in 0 .. 1
        /\ One(in_data') \in 0 .. 1
    BY Ones
  <2>4. Counted' = capture_count' + One(data_wr') /\ Entered' = Counted' + One(in_data')
    BY DEF Counted, Entered, One
  <2> QED BY <2>1, <2>2, <2>3, <2>4
<1>q. DisarmedInTime => 2 <= quiet' /\ quiet' <= 5 + capture_delay /\ match_trigger'
  <2> SUFFICES ASSUME DisarmedInTime
               PROVE  2 <= quiet' /\ quiet' <= 5 + capture_delay /\ match_trigger'
    OBVIOUS
  <2>1. /\ match_trigger /\ 2 <= quiet /\ quiet + 1 <= 5 + capture_delay
        /\ quiet < MinByteGap /\ event_reg \notin Bytes
    BY DEF Announced, DisarmedInTime, Held, StillShort
  <2>2. quiet' = quiet + 1
    BY <2>1 DEF FeQuiet
  <2>3. match_trigger'
    BY <1>w, <2>1 DEF FeMatch
  <2> QED BY <2>1, <2>2, <2>3
<1>h. captured' \/ capture_allowed'
  BY <1>e, <1>f
<1>t. Told'
  BY <1>f, <1>u, <1>a, <1>c, <1>y, <1>h, <1>q DEF Told, StillShort
<1> QED BY <1>t, <1>f, <1>u, <1>y, <1>e, <1>b, <1>q DEF Capturing, Held

LEMMA WayRange ==
  ASSUME FlopTypes
  PROVE  Way \in 0 .. 5 /\ (reg_arm = 1 => Way <= 4)
BY DEF FlopTypes, Way, Bit

\* While ARM is up, the byte after the match is not there yet.
LEMMA NoByteYet ==
  ASSUME BaseInv, Told, ArmUp, DisarmedInTime, usb_edges > 0
  PROVE  /\ event_reg \notin Bytes
         /\ reg_arm_r = 1 => /\ 2 <= quiet /\ quiet < MinByteGap
                             /\ quiet <= capture_delay + 5 + Way - usb_edges
<1> USE DEF BaseInv, SetupInv, FlopTypes, Bit
<1>0. Way \in 0 .. 5
  BY WayRange
<1>1. 2 <= quiet /\ quiet <= capture_delay + (2 + Age)
  BY DEF Told, StillShort
<1>2. event_reg \notin Bytes
  BY <1>1 DEF DisarmedInTime
<1>3. ASSUME reg_arm_r = 1
      PROVE  quiet < MinByteGap /\ quiet <= capture_delay + 5 + Way - usb_edges
  <2>1. Age = 3 + Way - usb_edges
    BY <1>3 DEF Age
  <2> QED BY <1>0, <1>1, <2>1 DEF DisarmedInTime
<1> QED BY <1>1, <1>2, <1>3

\* Once the usb side has been told, an edge of fe_clk only lets the request age.
LEMMA FeTold ==
  ASSUME BaseInv, Told, NEW event, NEW arm \in BOOLEAN, FeEdge(event, arm),
         capture_enable_reg => capture_enable_reg2,
         ~capture_enable_reg => ~match
  PROVE  Told'
<1> USE DEF BaseInv, SetupInv, FlopTypes, Bit, FeEdge, SetupKept
<1>w. (capture_enable_reg => O_capture_enable) /\ (~capture_enable_reg => ~match)
  BY DEF O_capture_enable
<1>f. /\ matched' /\ ~capture_enable_pulse' /\ ~delay_counter_fe_running'
      /\ delay_counter_fe' = 0
  BY <1>w, Wires DEF Told, NextPulse, delaying, FeArm, FeEnable
<1>u. /\ usb_edges' = 0 /\ usb_edges > 0
      /\ reg_arm' = reg_arm /\ reg_arm_r' = reg_arm_r /\ flushing' = flushing
      /\ O_arm' = O_arm /\ arm_prev' = O_arm
  BY DEF FeArm, O_arm
<1>d. /\ req_pipe' = req_pipe /\ dst_req' = dst_req /\ dst_req_r' = dst_req_r
      /\ dst_pulse' = dst_pulse /\ Way' = Way
  BY <1>u DEF FeSource, Way
<1>a. ArmFalling' /\ ~flushing'
  BY <1>u, Wires DEF Told, ArmFalling, FeArm
<1>o. O_arm => reg_arm_r = 1
  BY DEF O_arm
<1>y. Way \in 0 .. 5
  BY WayRange
<1>1. ASSUME reg_arm_r = 1
      PROVE  /\ src_req' = 1
             /\ ack_pipe'[1] = 1 => Way >= 3
             /\ ack_pipe'[2] = 1 => Way >= 4
             /\ src_ack' = 1 => Way >= 5
             /\ reg_arm = 1 => fill' <= Way
  <2>1. /\ src_req = 1 /\ usb_edges <= Way
        /\ req_pipe[1] >= req_pipe[2] /\ req_pipe[2] >= dst_req
        /\ dst_req >= dst_req_r /\ dst_req_r >= 1 - reg_arm
        /\ ack_pipe[1] = 1 => Way >= 3 + usb_edges
        /\ ack_pipe[2] = 1 => Way >= 4 + usb_edges
        /\ src_ack = 1 => Way >= 5 + usb_edges
        /\ reg_arm = 1 => fill <= Way
    BY <1>1 DEF Told
  <2>2. src_req' = 1
    BY <1>u, <1>y, <2>1 DEF FeSource
  <2>3. dst_req = 1 => Way >= 3
    BY <2>1 DEF Way
  <2>4. /\ ack_pipe'[1] = 1 => Way >= 3
        /\ ack_pipe'[2] = 1 => Way >= 4
        /\ src_ack' = 1 => Way >= 5
    BY <1>u, <1>y, <2>1, <2>3 DEF FeSource
  <2>5. reg_arm = 1 => fill' <= Way
    BY <1>u, <1>y, <2>1 DEF FeEntries
  <2> QED BY <2>2, <2>4, <2>5
<1>2. captured'
  BY Wires DEF Told, FeArm
<1>3. ASSUME ArmUp' PROVE StillShort(2 + Age)'
  <2>1. reg_arm_r = 1
    BY <1>3, <1>u, <1>o DEF ArmUp
  <2>2. Age' = 3 + Way
    BY <2>1, <1>u, <1>d, <1>y DEF Age
  <2>3. ASSUME DisarmedInTime
        PROVE  2 <= quiet' /\ quiet' <= capture_delay + (5 + Way)
    <3>1. /\ event_reg \notin Bytes /\ 2 <= quiet /\ quiet < MinByteGap
          /\ quiet <= capture_delay + 5 + Way - usb_edges
      BY <1>u, <2>1, <2>3, NoByteYet DEF ArmUp
    <3>2. quiet' = quiet + 1
      BY <3>1 DEF FeQuiet
    <3> QED BY <1>u, <1>y, <3>1, <3>2
  <2> QED BY <2>2, <2>3, <1>y DEF StillShort
<1> QED BY <1>f, <1>u, <1>d, <1>a, <1>o, <1>y, <1>1, <1>2, <1>3 DEF Told

\* ARM, once down on its way to fe_clk, lets no byte into the matcher.
LEMMA NoByteTaken ==
  ASSUME BaseInv, Told, DisarmedInTime \/ ~ArmUp, NEW event, NEW arm \in BOOLEAN,
         FeEdge(event, arm)
  PROVE  ~(event_reg \in Bytes /\ arm)
<1>1. CASE ArmUp
  BY <1>1, NoByteYet DEF FeEdge, FeArm
<1>2. CASE ~ArmUp
  <2>1. ~O_arm /\ ~arm_prev
    BY <1>2 DEF ArmUp, O_arm
  <2> QED BY <2>1 DEF FeEdge, FeArm
<1> QED BY <1>1, <1>2

LEMMA ArmStaysDown ==
  ASSUME FlopTypes, ~ArmUp, NEW event, NEW arm, FeEdge(event, arm)
  PROVE  ~ArmUp'
BY DEF ArmUp, O_arm, FeEdge, FeArm, FlopTypes

\* The count, after its reset, only follows the entries.
LEMMA CountFollows ==
  ASSUME BaseInv, Told, NEW event, NEW arm, FeEdge(event, arm), CAPTURE_LEN > 0
  PROVE  /\ capture_count' = Counted /\ Counted' = Entered
         /\ Entered' = Entered + One(in_data')
<1> USE DEF BaseInv, FlopTypes
<1>1. capture_count' = Counted
  BY DEF FeEdge, FeEntries, NextCount, Counted, One, Told, ArmFalling
<1>2. data_wr' = in_data
  BY DEF FeEdge, FeEntries
<1> QED BY <1>1, <1>2 DEF Entered, Counted

LEMMA FeCapturing ==
  ASSUME Timely, BaseInv, Capturing, NEW event, NEW arm \in BOOLEAN, FeEdge(event, arm)
  PROVE  Capturing' \/ Over'
<1> USE DEF BaseInv, SetupInv, FlopTypes, Bit, FeEdge, SetupKept
<1>w. /\ O_capture_enable /\ Told
      /\ (capture_allowed <=> capture_count < CAPTURE_LEN \/ CAPTURE_LEN = 0)
      /\ (capture_done <=> ~capture_allowed /\ capturing_r)
      /\ (~capture_allowed => capturing_r)
  BY DEF Capturing, O_capture_enable, capture_allowed, capture_done
<1>f. /\ captured' /\ capture_enable_reg' = capture_allowed /\ capture_enable_reg2'
      /\ capturing_r' = capture_allowed /\ (in_data' => capture_allowed)
  BY <1>w, Wires DEF Capturing, NextEnable, FeArm, FeEntries, FeEnable
<1>t. Told'
  BY <1>w, FeTold DEF Capturing
<1>u. /\ usb_edges' = 0 /\ usb_edges > 0
      /\ reg_arm' = reg_arm /\ reg_arm_r' = reg_arm_r
      /\ capturing_pipe' = capturing_pipe
      /\ arm_prev' = O_arm /\ (O_arm => reg_arm_r = 1)
  BY DEF FeArm, O_arm
<1>y. Way' = Way /\ Way \in 0 .. 5
  BY <1>u, WayRange DEF FeSource, Way
<1>1. CASE capture_allowed
  <2>1. Held'
    <3>1. ASSUME DisarmedInTime PROVE match_trigger'
      <4>1. match_trigger /\ ~capture_done /\ ~(event_reg \in Bytes /\ arm)
        BY <1>1, <1>w, <3>1, NoByteTaken DEF Capturing, Held
      <4> QED BY <4>1 DEF FeMatch
    <3> QED BY <3>1 DEF Held
  <2>2. ASSUME NEW i \in 1 .. 3, i <= Way' \/ reg_arm' = 0 PROVE capturing_pipe'[i]
    BY <1>1, <1>u, <1>y, <2>2 DEF Capturing
  <2>3. ASSUME ArmUp', CAPTURE_LEN > 0
        PROVE  Entered' <= Age' /\ Counted' <= Age' - 1 /\ capture_count' <= Age' - 2
    <3>1. reg_arm_r = 1 /\ ArmUp
      BY <1>u, <2>3 DEF ArmUp
    <3>2. Age' = 3 + Way /\ Age = 3 + Way - usb_edges
      BY <3>1, <1>u, <1>y DEF Age
    <3>3. Entered <= Age /\ Counted <= Age - 1
      BY <2>3, <3>1 DEF Capturing
    <3>4. One(in_data') \in 0 .. 1 /\ Entered \in Nat /\ Counted \in Nat
      BY Ones DEF Entered, Counted
    <3> QED BY <1>w, <1>u, <1>y, <2>3, <3>2, <3>3, <3>4, CountFollows
  <2> QED BY <1>1, <1>f, <1>t, <1>u, <2>1, <2>2, <2>3 DEF Capturing
<1>2. CASE ~capture_allowed
  <2>1. capture_done /\ capture_count >= CAPTURE_LEN /\ CAPTURE_LEN > 0
    BY <1>2, <1>w
  <2>2. DisarmedInTime \/ ~ArmUp
    <3>1. CASE OutlastsDisarming
      <4>1. CAPTURE_LEN >= 7
        BY <2>1, <3>1 DEF OutlastsDisarming
      <4>2. Age <= 8
        BY <1>y DEF Age
      <4>3. ASSUME ArmUp PROVE FALSE
        BY <1>y, <2>1, <4>1, <4>2, <4>3 DEF Capturing, Age
      <4> QED BY <4>3
    <3> QED BY <3>1 DEF Timely
  <2>3. ~match_trigger'
    BY <1>w, <2>1, <2>2, NoByteTaken DEF FeMatch
  <2>4. capture_count' >= CAPTURE_LEN
    <3>1. One(data_wr) \in 0 .. 1
      BY Ones
    <3> QED BY <1>w, <2>1, <3>1, CountFollows DEF Counted
  <2>5. DisarmedInTime \/ ~ArmUp'
    BY <2>2, ArmStaysDown
  <2>6. ~capture_enable_reg' /\ ~capturing_r' /\ ~in_data'
    BY <1>2, <1>f
  <2> QED BY <1>f, <1>t, <2>1, <2>3, <2>4, <2>5, <2>6 DEF Over
<1> QED BY <1>1, <1>2

LEMMA FeOver ==
  ASSUME BaseInv, Over, NEW event, NEW arm \in BOOLEAN, FeEdge(event, arm)
  PROVE  Over'
<1> USE DEF BaseInv, SetupInv, FlopTypes, Bit, FeEdge, SetupKept
<1>w. ~match /\ ~O_capture_enable /\ ~capture_allowed /\ ~capture_done /\ Told
  BY DEF Over, Told, match, I_match, O_capture_enable, capture_enable_start,
         capture_allowed, capture_done
<1>f. /\ captured' /\ ~capture_enable_reg' /\ ~capturing_r' /\ ~in_data'
  BY <1>w, Wires DEF Over, NextEnable, FeArm, FeEntries, FeEnable
<1>t. Told'
  BY <1>w, FeTold DEF Over
<1>m. ~match_trigger'
  BY <1>w, NoByteTaken DEF Over, FeMatch
<1>n. capture_count' >= CAPTURE_LEN
  <2>1. One(data_wr) \in 0 .. 1
    BY Ones
  <2> QED BY <1>w, <2>1, CountFollows DEF Over, Counted
<1>a. DisarmedInTime \/ ~ArmUp'
  BY ArmStaysDown DEF Over
<1> QED BY <1>f, <1>t, <1>m, <1>n, <1>a DEF Over

---------------------------------------------------------------------------
(* An edge of usb_clk, phase by phase.                                     *)

LEMMA UsbBeforeMatch ==
  ASSUME BaseInv, BeforeMatch, NEW write \in BOOLEAN, NEW drained \in BOOLEAN,
         UsbEdge(write, drained)
  PROVE  BeforeMatch'
<1> USE DEF BaseInv, SetupInv, FlopTypes, Bit, UsbEdge, SetupKept
<1>k. /\ ~match_trigger' /\ ~delay_counter_fe_running' /\ ~capture_enable_reg'
      /\ ~capture_enable_pulse' /\ ~capturing_r' /\ delay_counter_fe' = 0 /\ NoEntry'
      /\ NoneCounted' /\ ~matched' /\ ~captured'
  BY DEF BeforeMatch, NoEntry, NoneCounted, UsbKept, UsbArm
<1>c. ChannelFree'
  BY DEF BeforeMatch, ChannelFree, UsbKept, UsbDestination
<1>r. /\ reg_arm' = (IF write THEN 1 ELSE reg_arm) /\ reg_arm_r' = reg_arm
      /\ (write => reg_arm = 0 /\ (fill = 0 \/ ~sniff_fifo_empty))
  BY DEF BeforeMatch, ChannelFree, UsbArm, HostMayArm
<1>e. /\ sniff_fifo_empty = (fill <= FIFO_LATENCY)
      /\ sniff_fifo_empty' = (fill' <= FIFO_LATENCY)
  BY DEF sniff_fifo_empty
<1>f. /\ fill = 0 => fill' = 0
      /\ ~sniff_fifo_empty => fill' = 0 \/ fill' = fill
      /\ reg_arm = 1 => flushing' = ~sniff_fifo_empty
      /\ reg_arm = 0 => ~flushing'
  BY <1>e DEF BeforeMatch, UsbArm
<1>l. /\ reg_arm_r' <= reg_arm' /\ (reg_arm_r' = 0 => ~flushing')
      /\ reg_arm' = 1 => fill' = 0 \/ ~sniff_fifo_empty'
  BY <1>r, <1>e, <1>f DEF BeforeMatch
<1>o. O_arm' => fill' = 0
  BY <1>r, <1>e, <1>f DEF BeforeMatch, O_arm
<1>a. ArmRising'
  <2>1. O_arm => O_arm'
    <3> SUFFICES ASSUME O_arm PROVE O_arm'
      OBVIOUS
    <3>1. reg_arm_r = 1 /\ fill = 0
      BY DEF O_arm, BeforeMatch
    <3>2. reg_arm = 1
      BY <3>1 DEF BeforeMatch
    <3>3. sniff_fifo_empty
      BY <3>1 DEF sniff_fifo_empty
    <3> QED BY <3>2, <3>3, <1>r, <1>f DEF O_arm
  <2> QED BY <2>1 DEF BeforeMatch, ArmRising, UsbKept
<1> QED BY <1>k, <1>c, <1>l, <1>o, <1>a DEF BeforeMatch

\* From the match to the pulse the usb side does not move.
LEMMA UsbStill ==
  ASSUME BaseInv, NEW write \in BOOLEAN, NEW drained \in BOOLEAN,
         UsbEdge(write, drained), O_arm, reg_arm = 1, fill = 0, ChannelFree
  PROVE  /\ O_arm' /\ reg_arm' = 1 /\ fill' = 0 /\ ChannelFree'
         /\ matched' = matched /\ captured' = captured
         /\ (ArmRising => ArmRising') /\ (NoneCounted => NoneCounted')
<1> USE DEF BaseInv, SetupInv, FlopTypes, Bit, UsbEdge, SetupKept
<1>1. ~write /\ sniff_fifo_empty
  BY DEF UsbArm, HostMayArm, sniff_fifo_empty
<1>2. /\ reg_arm' = 1 /\ reg_arm_r' = 1 /\ ~flushing' /\ fill' = 0
      /\ matched' = matched /\ captured' = captured
  BY <1>1 DEF UsbArm, ChannelFree
<1>3. O_arm'
  BY <1>2 DEF O_arm
<1>4. ChannelFree'
  BY DEF ChannelFree, UsbKept, UsbDestination
<1>5. (ArmRising => ArmRising') /\ (NoneCounted => NoneCounted')
  BY <1>3 DEF ArmRising, NoneCounted, UsbKept
<1> QED BY <1>2, <1>3, <1>4, <1>5

LEMMA UsbStarting ==
  ASSUME BaseInv, NEW write \in BOOLEAN, NEW drained \in BOOLEAN,
         UsbEdge(write, drained)
  PROVE  /\ Delay => Delay'
         /\ Enabled => Enabled'
         /\ Announced => Announced'
<1> USE DEF UsbEdge, SetupKept, UsbKept, Held, StillShort
<1>1. ASSUME Delay PROVE Delay'
  BY <1>1, UsbStill DEF Delay, NoEntry
<1>2. ASSUME Enabled PROVE Enabled'
  BY <1>2, UsbStill DEF Enabled
<1>3. ASSUME Announced PROVE Announced'
  BY <1>3, UsbStill DEF Announced
<1> QED BY <1>1, <1>2, <1>3

\* A bound that grows stays one.
LEMMA Longer ==
  \A a, b, c, q \in Int : b >= a =>
    /\ q <= a => q <= b
    /\ q <= a - 1 => q <= b - 1
    /\ q <= a - 2 => q <= b - 2
    /\ q <= c + (2 + a) => q <= c + (2 + b)
OBVIOUS

LEMMA UsbTold ==
  ASSUME Timely, BaseInv, Told, NEW drained \in BOOLEAN, UsbEdge(FALSE, drained)
  PROVE  /\ Told' /\ (ArmUp' => ArmUp) /\ (ArmUp => Age' >= Age)
         /\ \A i \in 1 .. 3 : i <= Way' \/ reg_arm' = 0 => i - 1 <= Way \/ reg_arm = 0
<1> USE DEF BaseInv, SetupInv, FlopTypes, Bit, UsbEdge, SetupKept
<1>k. /\ matched' = matched /\ captured' = captured /\ usb_edges' = usb_edges + 1
      /\ usb_edges < 2 /\ reg_arm_r' = reg_arm
      /\ reg_arm' = (IF dst_pulse = 1 THEN 0 ELSE reg_arm)
      /\ capture_allowed' = capture_allowed
      /\ arm_pipe' = arm_pipe /\ arm_prev' = arm_prev
      /\ ~capture_enable_pulse' /\ ~delay_counter_fe_running' /\ delay_counter_fe' = 0
      /\ quiet' = quiet /\ src_req' = src_req /\ ack_pipe' = ack_pipe
      /\ src_ack' = src_ack
  BY DEF UsbArm, UsbKept, Told
<1>d. /\ req_pipe'[1] = src_req /\ req_pipe'[2] = req_pipe[1]
      /\ dst_req' = req_pipe[2] /\ dst_req_r' = dst_req
      /\ dst_pulse' = (IF dst_req_r = 0 /\ dst_req = 1 THEN 1 ELSE 0)
  BY DEF UsbDestination
<1>o. reg_arm = 1 => reg_arm_r = 1
  BY DEF Told
<1>y. Way \in 0 .. 5 /\ (reg_arm = 1 => Way <= 4)
  BY WayRange
<1>1. ASSUME reg_arm = 1
      PROVE  /\ src_req = 1 /\ usb_edges <= Way
             /\ req_pipe[1] >= req_pipe[2] /\ req_pipe[2] >= dst_req
             /\ dst_req >= dst_req_r
             /\ dst_pulse = 1 <=> dst_req_r = 1
             /\ ack_pipe[1] = 1 => Way >= 3 + usb_edges
             /\ ack_pipe[2] = 1 => Way >= 4 + usb_edges
             /\ src_ack = 1 => Way >= 5 + usb_edges
             /\ fill <= Way
  BY <1>o, <1>1 DEF Told
<1>w. reg_arm = 1 => Way' = Way + 1
  BY <1>k, <1>d, <1>1 DEF Way
<1>f. ~flushing'
  <2>1. reg_arm = 1 => sniff_fifo_empty
    BY <1>y, <1>1 DEF sniff_fifo_empty, Timely
  <2> QED BY <2>1 DEF Told, UsbArm
<1>a. ArmFalling' /\ (O_arm' => O_arm)
  BY <1>k, <1>o DEF Told, ArmFalling, O_arm
<1>u. ArmUp' => ArmUp
  BY <1>k, <1>o DEF ArmUp
<1>g. ArmUp => Age' >= Age
  <2>1. CASE reg_arm = 1
    BY <2>1, <1>k, <1>o, <1>w, <1>y DEF Age
  <2>2. CASE reg_arm # 1
    BY <2>2, <1>k, <1>y DEF Age
  <2> QED BY <2>1, <2>2
<1>2. ASSUME reg_arm = 1
      PROVE  /\ src_req' = 1 /\ usb_edges' <= Way'
             /\ req_pipe'[1] >= req_pipe'[2] /\ req_pipe'[2] >= dst_req'
             /\ dst_req' >= dst_req_r' /\ dst_req_r' >= 1 - reg_arm'
             /\ dst_pulse' = 1 <=> dst_req_r' = 1 /\ reg_arm' = 1
             /\ ack_pipe'[1] = 1 => Way' >= 3 + usb_edges'
             /\ ack_pipe'[2] = 1 => Way' >= 4 + usb_edges'
             /\ src_ack' = 1 => Way' >= 5 + usb_edges'
             /\ reg_arm' = 1 => fill' <= Way'
  <2>1. /\ req_pipe'[1] >= req_pipe'[2] /\ req_pipe'[2] >= dst_req'
        /\ dst_req' >= dst_req_r' /\ dst_req_r' >= 1 - reg_arm'
        /\ dst_pulse' = 1 <=> dst_req_r' = 1 /\ reg_arm' = 1
    BY <1>k, <1>d, <1>1, <1>2
  <2>2. fill' <= Way'
    BY <1>w, <1>y, <1>1, <1>2 DEF UsbArm
  <2> QED BY <1>k, <1>w, <1>1, <1>2, <1>y, <2>1, <2>2
<1>3. captured' \/ (reg_arm_r' = 1 /\ Way' = usb_edges' /\ capture_allowed')
  <2>1. ASSUME ~captured PROVE reg_arm = 1 /\ Way = usb_edges /\ capture_allowed
    BY <2>1, <1>k DEF Told, Way
  <2> QED BY <2>1, <1>k, <1>w
<1>4. ASSUME ArmUp' PROVE StillShort(2 + Age)'
  <2>1. StillShort(2 + Age) /\ Age' >= Age
    BY <1>4, <1>u, <1>g DEF Told
  <2>2. Age \in Int /\ Age' \in Int
    <3>1. Way' \in 0 .. 5
      BY <1>k, <1>d DEF Way
    <3> QED BY <3>1, <1>y, <1>k DEF Age
  <2>3. ASSUME DisarmedInTime PROVE 2 <= quiet /\ quiet <= capture_delay + (2 + Age')
    <3>1. 2 <= quiet /\ quiet <= capture_delay + (2 + Age)
      BY <2>1, <2>3 DEF StillShort
    <3>2. quiet \in Int /\ capture_delay \in Int /\ Age' >= Age
      BY <2>1
    <3> QED BY <2>2, <3>1, <3>2, Longer
  <2>4. /\ DisarmedInTime' = DisarmedInTime /\ capture_delay' = capture_delay
        /\ quiet' = quiet
    BY <1>k
  <2> QED BY <2>3, <2>4 DEF StillShort
<1>5. \A i \in 1 .. 3 : i <= Way' \/ reg_arm' = 0 => i - 1 <= Way \/ reg_arm = 0
  <2>1. ASSUME reg_arm = 1, reg_arm' = 0 PROVE Way = 4
    BY <1>k, <1>1, <2>1 DEF Way
  <2> QED BY <2>1, <1>w, <1>y
<1> QED BY <1>k, <1>f, <1>a, <1>u, <1>g, <1>2, <1>3, <1>4, <1>5 DEF Told

LEMMA UsbCapturing ==
  ASSUME Timely, BaseInv, Capturing, NEW write \in BOOLEAN, NEW drained \in BOOLEAN,
         UsbEdge(write, drained)
  PROVE  Capturing'
<1> USE DEF BaseInv, SetupInv, FlopTypes, Bit
<1>y. Way \in 0 .. 5
  BY WayRange
<1>w. ~write
  <2> SUFFICES ASSUME write PROVE FALSE
    OBVIOUS
  <2>1. HostMayArm
    BY DEF UsbEdge, UsbArm
  <2>2. reg_arm = 0 /\ reg_arm_r = 0 /\ ~capturing_pipe[3]
    BY <2>1 DEF HostMayArm
  <2> QED BY <2>2 DEF Capturing
<1>e. UsbEdge(FALSE, drained)
  BY <1>w
<1>t. /\ Told' /\ (ArmUp' => ArmUp) /\ (ArmUp => Age' >= Age)
      /\ \A i \in 1 .. 3 : i <= Way' \/ reg_arm' = 0 => i - 1 <= Way \/ reg_arm = 0
  BY <1>e, UsbTold DEF Capturing
<1>k. /\ capture_enable_reg' = capture_enable_reg
      /\ capture_enable_reg2' = capture_enable_reg2
      /\ captured' = captured /\ capturing_r' = capturing_r
      /\ capture_allowed' = capture_allowed /\ match_trigger' = match_trigger
      /\ capture_count' = capture_count /\ Counted' = Counted /\ Entered' = Entered
      /\ CAPTURE_LEN' = CAPTURE_LEN /\ DisarmedInTime' = DisarmedInTime
      /\ usb_edges' = usb_edges + 1
  BY <1>e DEF UsbEdge, SetupKept, UsbKept, UsbArm, Counted, Entered
<1>p. \A i \in 1 .. 3 :
        i > (IF capture_allowed' THEN 0 ELSE usb_edges') /\ (i <= Way' \/ reg_arm' = 0)
          => capturing_pipe'[i]
  <2> SUFFICES ASSUME NEW i \in 1 .. 3,
                      i > (IF capture_allowed' THEN 0 ELSE usb_edges'),
                      i <= Way' \/ reg_arm' = 0
               PROVE  capturing_pipe'[i]
    OBVIOUS
  <2>1. CASE i = 1
    <3>1. capture_allowed
      <4>1. usb_edges' >= 1
        BY <1>k
      <4> QED BY <2>1, <4>1, <1>k
    <3> QED BY <2>1, <3>1, <1>e DEF UsbEdge, UsbArm
  <2>2. CASE i # 1
    <3>1. i - 1 \in 1 .. 3 /\ capturing_pipe'[i] = capturing_pipe[i - 1]
      BY <2>2, <1>e DEF UsbEdge, UsbArm
    <3>2. i - 1 <= Way \/ reg_arm = 0
      BY <1>t
    <3>3. i - 1 > (IF capture_allowed THEN 0 ELSE usb_edges)
      BY <2>2, <1>k
    <3> QED BY <3>1, <3>2, <3>3 DEF Capturing
  <2> QED BY <2>1, <2>2
<1>b. ASSUME ArmUp', CAPTURE_LEN > 0
      PROVE  Entered' <= Age' /\ Counted' <= Age' - 1 /\ capture_count' <= Age' - 2
  <2>1. Entered <= Age /\ Counted <= Age - 1 /\ capture_count <= Age - 2
    BY <1>b, <1>t DEF Capturing
  <2>2. Age \in Int /\ Age' \in Int
    <3>1. Way' \in Int
      BY <1>e DEF Way, UsbEdge, UsbArm, UsbDestination
    <3>2. usb_edges' \in Int /\ reg_arm_r' = reg_arm
      BY <1>e DEF UsbEdge, UsbArm
    <3> QED BY <3>1, <3>2, <1>y DEF Age
  <2>3. Entered \in Nat /\ Counted \in Nat
    BY Ones DEF Entered, Counted
  <2>4. Age' >= Age
    BY <1>b, <1>t
  <2>5. capture_count' = capture_count /\ Counted' = Counted /\ Entered' = Entered
    BY <1>k
  <2>6. capture_count \in Int
    OBVIOUS
  <2>7. Entered <= Age'
    BY <2>1, <2>2, <2>3, <2>4, Longer
  <2>8. Counted <= Age' - 1
    <3>1. Counted <= Age - 1 /\ Counted \in Int /\ Age \in Int /\ Age' \in Int
      BY <2>1, <2>2, <2>3
    <3> HIDE DEF BaseInv, SetupInv, FlopTypes
    <3> QED BY <2>4, <3>1, Longer
  <2>9. capture_count <= Age' - 2
    BY <2>1, <2>2, <2>4, <2>6, Longer
  <2> QED BY <2>5, <2>7, <2>8, <2>9
<1> QED BY <1>t, <1>k, <1>p, <1>b DEF Capturing, Held

\* Once everything has settled the host may arm again: the channel is at rest.
LEMMA UsbOver ==
  ASSUME Timely, BaseInv, Over, NEW write \in BOOLEAN, NEW drained \in BOOLEAN,
         UsbEdge(write, drained)
  PROVE  Over' \/ BeforeMatch'
<1> USE DEF BaseInv, SetupInv, FlopTypes, Bit
<1>1. CASE ~write
  <2>1. UsbEdge(FALSE, drained)
    BY <1>1
  <2>2. Told' /\ (ArmUp' => ArmUp)
    BY <2>1, UsbTold DEF Over
  <2>3. /\ capture_enable_reg' = capture_enable_reg /\ captured' = captured
        /\ capturing_r' = capturing_r /\ match_trigger' = match_trigger
        /\ in_data' = in_data /\ capture_count' = capture_count
        /\ CAPTURE_LEN' = CAPTURE_LEN /\ DisarmedInTime' = DisarmedInTime
    BY <2>1 DEF UsbEdge, SetupKept, UsbKept, UsbArm
  <2>4. DisarmedInTime' \/ ~ArmUp'
    BY <2>2, <2>3 DEF Over
  <2> QED BY <2>2, <2>3, <2>4 DEF Over
<1>2. CASE write
  <2>1. HostMayArm /\ Told /\ UsbEdge(TRUE, drained)
    BY <1>2 DEF UsbEdge, UsbArm, Over
  <2>2. /\ reg_arm = 0 /\ reg_arm_r = 0 /\ \A i \in 1 .. 4 : ~arm_pipe[i]
        /\ ~capture_enable_pulse /\ ~data_wr /\ ~wr_en
        /\ (fill = 0 \/ ~sniff_fifo_empty) /\ src_req = 0 /\ src_ack = 0
    BY <2>1 DEF HostMayArm, Cdc!busy
  <2>3. ChannelFree'
    <3>1. /\ ack_pipe[1] = 0 /\ ack_pipe[2] = 0 /\ dst_req = 0
          /\ req_pipe[1] = 0 /\ req_pipe[2] = 0
      BY <2>2, WaveOut
    <3>2. UsbKept /\ UsbDestination
      BY <2>1 DEF UsbEdge
    <3> QED BY <2>2, <3>1, <3>2 DEF ChannelFree, UsbKept, UsbDestination
  <2>4. /\ reg_arm' = 1 /\ reg_arm_r' = 0 /\ ~flushing' /\ ~matched' /\ ~captured'
        /\ ~O_arm'
    BY <2>1, <2>2 DEF UsbEdge, UsbArm, Told, O_arm
  <2>5. fill' = 0 \/ ~sniff_fifo_empty'
    <3>1. UsbArm(TRUE, drained)
      BY <2>1 DEF UsbEdge
    <3> QED BY <2>2, <3>1 DEF UsbArm, sniff_fifo_empty
  <2>6. /\ ~match_trigger' /\ ~delay_counter_fe_running' /\ ~capture_enable_reg'
        /\ ~capture_enable_pulse' /\ ~capturing_r' /\ delay_counter_fe' = 0 /\ NoEntry'
    BY <2>1, <2>2 DEF Over, Told, NoEntry, UsbEdge, UsbKept
  <2>7. NoneCounted' /\ ArmRising'
    <3>1. /\ arm_pipe' = arm_pipe /\ capture_count' = capture_count
          /\ CAPTURE_LEN' = CAPTURE_LEN
      BY <2>1 DEF UsbEdge, UsbKept, SetupKept
    <3> QED BY <2>2, <3>1 DEF NoneCounted, ArmRising, Over
  <2>8. reg_arm_r' <= reg_arm'
    BY <2>4
  <2> QED BY <2>3, <2>4, <2>5, <2>6, <2>7, <2>8 DEF BeforeMatch
<1> QED BY <1>1, <1>2

---------------------------------------------------------------------------
(* What holds in every phase, whatever the delay and the latency.          *)

LEMMA SeqIsFunction ==
  ASSUME NEW S, NEW s \in Seq(S), NEW n, Len(s) = n
  PROVE  s \in [1 .. n -> S]
OBVIOUS

LEMMA FeMatcherTypes ==
  ASSUME SetupInv, FlopTypes, MatcherTypes, NEW event, NEW arm \in BOOLEAN,
         FeTick(event, arm)
  PROVE  MatcherTypes'
<1>1. Pattern \in Seq(Bytes) /\ Pattern # <<>> /\ Pattern' = Pattern
  BY SetupTypes, SetupStays DEF SetupInv, FeTick, SetupKept
<1>n. Len(Pattern) \in Nat /\ Len(Pattern) >= 1
  BY <1>1
<1>2. /\ input_data' \in [1 .. Len(Pattern) - 1 -> Bytes]
      /\ bytes_received' \in 0 .. Len(Pattern)
  <2>1. CASE match_trigger /\ capture_done
    <3>1. /\ input_data' = [i \in DOMAIN input_data |-> Zero]
          /\ bytes_received' = 0
      BY <2>1 DEF FeTick, Matcher, ForgetBytes
    <3> QED BY <3>1, <1>n, CaptureControlAssumption DEF MatcherTypes
  <2>2. CASE ~(match_trigger /\ capture_done) /\ TakesByte(arm)
    <3> DEFINE n == Len(Pattern) - 1
    <3>1. /\ input_data' = Tail(Append(input_data, event_reg))
          /\ bytes_received' = IF bytes_received < Len(Pattern)
                               THEN bytes_received + 1 ELSE bytes_received
      BY <2>2 DEF FeTick, Matcher
    <3>2. input_data \in Seq(Bytes) /\ Len(input_data) = n /\ event_reg \in Bytes
      BY <2>2, <1>n DEF MatcherTypes, TakesByte
    <3>3. /\ Tail(Append(input_data, event_reg)) \in Seq(Bytes)
          /\ Len(Tail(Append(input_data, event_reg))) = n
      BY <3>2
    <3>4. Tail(Append(input_data, event_reg)) \in [1 .. n -> Bytes]
      BY <3>3, SeqIsFunction
    <3>5. bytes_received' \in 0 .. Len(Pattern)
      BY <1>n, <3>1 DEF MatcherTypes
    <3> QED BY <3>1, <3>4, <3>5
  <2>3. CASE ~(match_trigger /\ capture_done) /\ ~TakesByte(arm)
    BY <2>3 DEF FeTick, Matcher, MatcherTypes
  <2> QED BY <2>1, <2>2, <2>3
<1>3. recent' \in Seq(Bytes) /\ Len(recent') <= Len(Pattern)
  <2>1. recent' = IF ~arm THEN <<>>
                  ELSE IF event_reg \notin Bytes THEN recent
                  ELSE IF Len(recent) < Len(Pattern) THEN Append(recent, event_reg)
                  ELSE Append(Tail(recent), event_reg)
    BY DEF FeTick
  <2>2. recent \in Seq(Bytes) /\ Len(recent) <= Len(Pattern)
    BY DEF MatcherTypes
  <2>3. CASE ~arm
    BY <2>1, <2>3, <1>n
  <2>4. CASE arm /\ event_reg \notin Bytes
    BY <2>1, <2>2, <2>4
  <2>5. CASE arm /\ event_reg \in Bytes /\ Len(recent) < Len(Pattern)
    BY <2>1, <2>2, <2>5, <1>n
  <2>6. CASE arm /\ event_reg \in Bytes /\ ~(Len(recent) < Len(Pattern))
    <3>1. recent # <<>> /\ Len(recent) = Len(Pattern)
      BY <2>2, <2>6, <1>n
    <3> QED BY <2>1, <2>2, <2>6, <3>1, <1>n
  <2> QED BY <2>3, <2>4, <2>5, <2>6
<1> QED BY <1>1, <1>2, <1>3 DEF MatcherTypes

LEMMA FeBounded ==
  ASSUME SetupInv, FlopTypes, Bounded, NEW event, NEW arm, FeEdge(event, arm)
  PROVE  Bounded'
<1> USE DEF FeEdge, SetupKept, SetupInv, FlopTypes
<1>1. CASE CAPTURE_LEN = 0
  BY <1>1 DEF Bounded, FeEntries, NextCount
<1>2. CASE CAPTURE_LEN # 0
  <2>1. /\ capture_count' = IF arm_pipe[3] /\ ~arm_pipe[4] THEN 0 ELSE Counted
        /\ data_wr' = in_data
        /\ in_data' => capture_count < CAPTURE_LEN
    <3>1. data_wr => CAPTURE_LEN > 0
      BY <1>2
    <3>2. capture_count + One(data_wr) =
            IF data_wr THEN capture_count + 1 ELSE capture_count
      BY DEF One
    <3>3. capture_allowed => capture_count < CAPTURE_LEN
      BY <1>2 DEF capture_allowed
    <3> QED BY <1>2, <3>1, <3>2, <3>3 DEF FeEntries, NextCount, Counted
  <2>2. /\ One(in_data) \in 0 .. 1 /\ One(data_wr) \in 0 .. 1
        /\ One(in_data') \in 0 .. 1
        /\ (~in_data' => One(in_data') = 0)
    BY DEF One
  <2>3. Entered' = capture_count' + One(in_data) + One(in_data')
    BY <2>1 DEF Entered, Counted
  <2>4. CASE arm_pipe[3] /\ ~arm_pipe[4]
    <3>1. Entered' <= 2
      BY <2>1, <2>2, <2>3, <2>4
    <3> QED BY <1>2, <3>1, <2>2, <2>3, <2>4, <2>1 DEF Bounded
  <2>5. CASE ~(arm_pipe[3] /\ ~arm_pipe[4])
    <3>1. Entered' = (capture_count + One(data_wr)) + One(in_data) + One(in_data')
      BY <2>1, <2>3, <2>5 DEF Counted
    <3>2. (capture_count + One(data_wr)) + One(in_data) <= CAPTURE_LEN + 2
      BY <1>2 DEF Bounded, Entered, Counted
    <3>3. Entered' <= CAPTURE_LEN + 2
      BY <3>1, <3>2, <2>1, <2>2
    <3> QED BY <1>2, <3>3 DEF Bounded
  <2> QED BY <2>4, <2>5
<1> QED BY <1>1, <1>2

LEMMA FeFlopTypes ==
  ASSUME SetupInv, FlopTypes, NEW event \in Bytes \cup {None, Status},
         NEW arm \in BOOLEAN, FeEdge(event, arm)
  PROVE  FlopTypes'
<1> USE DEF FeEdge, SetupKept, SetupInv, FlopTypes, Bit
<1>1. /\ event_reg' \in Bytes \cup {None, Status} /\ quiet' \in 1 .. MinByteGap'
  BY DEF FeQuiet
<1>2. /\ in_data' \in BOOLEAN /\ data_wr' \in BOOLEAN /\ wr_en' \in BOOLEAN
      /\ fill' \in Nat /\ capture_count' \in Nat
  BY Wires DEF FeEntries, NextCount
<1>3. /\ arm_pipe' \in [1 .. 4 -> BOOLEAN] /\ capturing_pipe' \in [1 .. 3 -> BOOLEAN]
      /\ reg_arm' \in Bit /\ reg_arm_r' \in Bit /\ flushing' \in BOOLEAN
      /\ usb_edges' \in 0 .. 2 /\ matched' \in BOOLEAN /\ captured' \in BOOLEAN
      /\ arm_prev' \in BOOLEAN
  BY Wires DEF FeArm
<1>4. match_trigger' \in BOOLEAN /\ match_trigger_r' \in BOOLEAN
  BY DEF FeMatch
<1>5. /\ delay_counter_fe' \in 0 .. capture_delay'
      /\ delay_counter_fe_running' \in BOOLEAN /\ capturing_r' \in BOOLEAN
      /\ capture_enable_reg' \in BOOLEAN /\ capture_enable_reg2' \in BOOLEAN
      /\ capture_enable_pulse' \in BOOLEAN
  <2>1. delay_counter_fe' \in 0 .. capture_delay
    BY DEF FeEnable, delaying
  <2> QED BY <2>1, Wires DEF FeEnable, NextEnable, NextPulse
<1>6. /\ src_req' \in Bit /\ src_ack' \in Bit
      /\ dst_req' \in Bit /\ dst_req_r' \in Bit /\ dst_pulse' \in Bit
      /\ ack_pipe' \in [1 .. 2 -> Bit] /\ req_pipe' \in [1 .. 2 -> Bit]
  BY DEF FeSource
<1> QED BY <1>1, <1>2, <1>3, <1>4, <1>5, <1>6

LEMMA UsbFlopTypes ==
  ASSUME SetupInv, FlopTypes, NEW write \in BOOLEAN, NEW drained \in BOOLEAN,
         UsbEdge(write, drained)
  PROVE  FlopTypes'
<1> USE DEF UsbEdge, SetupKept, SetupInv, FlopTypes, Bit
<1>1. /\ req_pipe' \in [1 .. 2 -> Bit]
      /\ dst_req' \in Bit /\ dst_req_r' \in Bit /\ dst_pulse' \in Bit
  BY DEF UsbDestination
<1>2. /\ usb_edges' \in 0 .. 2 /\ reg_arm' \in Bit /\ reg_arm_r' \in Bit
      /\ flushing' \in BOOLEAN /\ fill' \in Nat
      /\ capturing_pipe' \in [1 .. 3 -> BOOLEAN]
      /\ matched' \in BOOLEAN /\ captured' \in BOOLEAN
  BY DEF UsbArm, sniff_fifo_empty
<1> QED BY <1>1, <1>2 DEF UsbKept

LEMMA WaveStep ==
  ASSUME FlopTypes, Cdc!OneWave, FeSource \/ (UsbDestination /\ UsbKept)
  PROVE  Cdc!OneWave'
<1> USE DEF FlopTypes, Bit
<1>w. /\ req_pipe[2] = src_req => req_pipe[1] = src_req
      /\ dst_req = src_req => req_pipe[1] = src_req /\ req_pipe[2] = src_req
      /\ ack_pipe[1] = src_req => dst_req = src_req
      /\ ack_pipe[2] = src_req => dst_req = src_req /\ ack_pipe[1] = src_req
      /\ src_ack = src_req => ack_pipe[1] = src_req /\ ack_pipe[2] = src_req
  BY WaveOut
<1>1. /\ req_pipe'[2] = src_req' => req_pipe'[1] = src_req'
      /\ dst_req' = src_req' => req_pipe'[1] = src_req' /\ req_pipe'[2] = src_req'
      /\ ack_pipe'[1] = src_req' => dst_req' = src_req'
      /\ ack_pipe'[2] = src_req' => dst_req' = src_req' /\ ack_pipe'[1] = src_req'
      /\ src_ack' = src_req' => ack_pipe'[1] = src_req' /\ ack_pipe'[2] = src_req'
  <2>1. CASE FeSource
    BY <2>1, <1>w DEF FeSource
  <2>2. CASE UsbDestination /\ UsbKept
    BY <2>2, <1>w DEF UsbDestination, UsbKept
  <2> QED BY <2>1, <2>2
<1> QED BY <1>1 DEF Cdc!OneWave, Cdc!Stages

LEMMA BaseInit == Init => BaseInv
<1> SUFFICES ASSUME Init PROVE BaseInv
  OBVIOUS
<1>1. SetupInv /\ Pattern \in Seq(Bytes) /\ Pattern # <<>>
  BY SetupTypes DEF Init
<1>2. FlopTypes
  <2>1. /\ ack_pipe \in [1 .. 2 -> Bit] /\ req_pipe \in [1 .. 2 -> Bit]
        /\ arm_pipe \in [1 .. 4 -> BOOLEAN] /\ capturing_pipe \in [1 .. 3 -> BOOLEAN]
    BY DEF Init, Bit
  <2>2. quiet \in 1 .. MinByteGap /\ delay_counter_fe \in 0 .. capture_delay
    BY <1>1 DEF Init, SetupInv
  <2>3. /\ src_req \in Bit /\ src_ack \in Bit
        /\ dst_req \in Bit /\ dst_req_r \in Bit /\ dst_pulse \in Bit
        /\ reg_arm \in Bit /\ reg_arm_r \in Bit /\ usb_edges \in 0 .. 2
        /\ fill \in Nat /\ capture_count \in Nat
    BY DEF Init, Bit
  <2>4. /\ event_reg \in Bytes \cup {None, Status}
        /\ in_data \in BOOLEAN /\ data_wr \in BOOLEAN /\ wr_en \in BOOLEAN
        /\ match_trigger \in BOOLEAN /\ match_trigger_r \in BOOLEAN
        /\ arm_prev \in BOOLEAN /\ capturing_r \in BOOLEAN
        /\ delay_counter_fe_running \in BOOLEAN /\ capture_enable_reg \in BOOLEAN
        /\ capture_enable_reg2 \in BOOLEAN /\ capture_enable_pulse \in BOOLEAN
        /\ flushing \in BOOLEAN /\ matched \in BOOLEAN /\ captured \in BOOLEAN
    BY DEF Init
  <2> QED BY <2>1, <2>2, <2>3, <2>4 DEF FlopTypes
<1>3. MatcherTypes
  BY <1>1, CaptureControlAssumption DEF Init, MatcherTypes
<1>4. Bounded
  BY <1>1 DEF Init, Bounded, SetupInv, Entered, Counted, One
<1>5. Cdc!OneWave
  BY DEF Init, Cdc!OneWave, Cdc!Stages
<1>6. arm_prev = arm_pipe[1] /\ event_reg \notin Bytes
  <2>1. arm_pipe[1] = FALSE /\ arm_prev = FALSE /\ event_reg \notin Bytes
    BY CaptureControlAssumption DEF Init
  <2> QED BY <2>1, Zenon
<1>7. event_reg \in Bytes /\ MinByteGap > 1 => quiet = 1
  BY <1>6 DEF Init
<1> QED BY <1>1, <1>2, <1>3, <1>4, <1>5, <1>6, <1>7 DEF BaseInv

LEMMA BaseStep == BaseInv /\ [Next]_vars => BaseInv'
<1> SUFFICES ASSUME BaseInv, [Next]_vars PROVE BaseInv'
  OBVIOUS
<1> USE DEF BaseInv
<1>1. ASSUME NEW event \in Bytes \cup {None, Status}, NEW arm \in BOOLEAN,
             FeTick(event, arm)
      PROVE  BaseInv'
  <2>1. FeEdge(event, arm)
    BY <1>1, FeFlops
  <2>2. SetupInv'
    BY <2>1 DEF FeEdge, SetupKept, SetupInv
  <2>3. FlopTypes' /\ MatcherTypes' /\ Bounded' /\ Cdc!OneWave'
    BY <1>1, <2>1, FeFlopTypes, FeMatcherTypes, FeBounded, WaveStep DEF FeEdge
  <2>4. arm_prev' = arm_pipe'[1]
    BY <2>1 DEF FeEdge, FeArm
  <2>5. event_reg' \in Bytes /\ MinByteGap' > 1 => quiet' = 1
    BY <2>1 DEF FeEdge, FeQuiet
  <2> QED BY <2>2, <2>3, <2>4, <2>5
<1>2. ASSUME NEW write \in BOOLEAN, NEW drained \in BOOLEAN, UsbTick(write, drained)
      PROVE  BaseInv'
  <2>1. UsbEdge(write, drained)
    BY <1>2, UsbFlops
  <2>2. SetupInv'
    BY <2>1 DEF UsbEdge, SetupKept, SetupInv
  <2>3. FlopTypes' /\ Cdc!OneWave'
    BY <2>1, UsbFlopTypes, WaveStep DEF UsbEdge
  <2>4. MatcherTypes' /\ Bounded'
    <3>1. /\ input_data' = input_data /\ bytes_received' = bytes_received
          /\ recent' = recent
      BY <1>2 DEF UsbTick, matcherVars
    <3>2. /\ capture_count' = capture_count /\ data_wr' = data_wr /\ in_data' = in_data
          /\ CAPTURE_LEN' = CAPTURE_LEN /\ Pattern' = Pattern
      BY <2>1 DEF UsbEdge, UsbKept, SetupKept
    <3> QED BY <3>1, <3>2 DEF MatcherTypes, Bounded, Entered, Counted
  <2>5. /\ arm_prev' = arm_pipe'[1]
        /\ event_reg' \in Bytes /\ MinByteGap' > 1 => quiet' = 1
    BY <2>1 DEF UsbEdge, UsbKept, SetupKept
  <2> QED BY <2>2, <2>3, <2>4, <2>5
<1>3. CASE UNCHANGED vars
  <2>1. setup' = setup /\ SetupKept
    BY <1>3, SetupStays DEF vars
  <2>2. SetupInv' /\ FlopTypes' /\ MatcherTypes' /\ Bounded'
    BY <1>3, <2>1 DEF vars, captureVars, matcherVars, triggerVars, cdcSrc, cdcDst,
                      usbVars,
       SetupKept, SetupInv, FlopTypes, MatcherTypes, Bounded, Entered, Counted
  <2>3. Cdc!OneWave' /\ arm_prev' = arm_pipe'[1]
    BY <1>3 DEF vars, captureVars, matcherVars, cdcSrc, cdcDst, Cdc!OneWave
  <2>4. event_reg' \in Bytes /\ MinByteGap' > 1 => quiet' = 1
    BY <1>3, <2>1 DEF vars, captureVars, SetupKept
  <2> QED BY <2>2, <2>3, <2>4
<1> QED BY <1>1, <1>2, <1>3 DEF Next

---------------------------------------------------------------------------
(* The invariant.                                                          *)

LEMMA FePhase ==
  ASSUME IInv, NEW event \in Bytes \cup {None, Status}, NEW arm \in BOOLEAN,
         FeEdge(event, arm)
  PROVE  /\ BeforeMatch => BeforeMatch' \/ Delay'
         /\ Delay => Delay' \/ Enabled'
         /\ Enabled => Announced'
         /\ Announced => Capturing'
         /\ Capturing => Capturing' \/ Over'
         /\ Over => Over'
BY FeBeforeMatch, FeDelay, FeEnabled, FeAnnounced, FeCapturing, FeOver DEF IInv

LEMMA UsbPhase ==
  ASSUME IInv, NEW write \in BOOLEAN, NEW drained \in BOOLEAN, UsbEdge(write, drained)
  PROVE  /\ BeforeMatch => BeforeMatch'
         /\ Delay => Delay'
         /\ Enabled => Enabled'
         /\ Announced => Announced'
         /\ Capturing => Capturing'
         /\ Over => Over' \/ BeforeMatch'
BY UsbBeforeMatch, UsbStarting, UsbCapturing, UsbOver DEF IInv

\* Stuttering.
LEMMA StillPhase == UNCHANGED vars /\ Phase => Phase'
<1> SUFFICES ASSUME UNCHANGED vars, Phase PROVE Phase'
  OBVIOUS
<1> USE DEF vars, captureVars, matcherVars, triggerVars, cdcSrc, cdcDst, usbVars
<1>s. SetupKept
  BY SetupStays
<1>w. /\ match' = match /\ O_arm' = O_arm /\ sniff_fifo_empty' = sniff_fifo_empty
      /\ capture_allowed' = capture_allowed
  BY <1>s DEF SetupKept, match, I_match, O_arm, sniff_fifo_empty, capture_allowed,
              O_capture_enable, capture_enable_start
<1>c. /\ ChannelFree => ChannelFree'
      /\ ArmRising => ArmRising'
      /\ NoneCounted => NoneCounted'
      /\ Held => Held'
      /\ \A n \in Int : StillShort(n) => StillShort(n)'
      /\ NoEntry => NoEntry'
  BY <1>s, <1>w DEF ChannelFree, ArmRising, NoneCounted, Held, StillShort, NoEntry,
                    SetupKept
<1>1. BeforeMatch => BeforeMatch'
  BY <1>w, <1>c DEF BeforeMatch
<1>2. Delay => Delay'
  BY <1>s, <1>w, <1>c DEF Delay, SetupKept
<1>3. Enabled => Enabled'
  BY <1>w, <1>c, <1>s DEF Enabled, SetupKept, StillShort
<1>4. Announced => Announced'
  BY <1>w, <1>c, <1>s DEF Announced, SetupKept, StillShort
<1>5. Way' = Way /\ Age' = Age /\ ArmUp' = ArmUp
      /\ Entered' = Entered /\ Counted' = Counted
  BY DEF Way, Age, ArmUp, Entered, Counted
<1>6. Told => Told'
  BY <1>s, <1>w, <1>5 DEF Told, ArmFalling, StillShort, SetupKept
<1>7. Capturing => Capturing'
  BY <1>s, <1>w, <1>c, <1>5, <1>6 DEF Capturing, SetupKept
<1>8. Over => Over'
  BY <1>s, <1>5, <1>6 DEF Over, SetupKept
<1> QED BY <1>1, <1>2, <1>3, <1>4, <1>7, <1>8 DEF Phase

LEMMA InitPhase == Init => BeforeMatch
<1> SUFFICES ASSUME Init PROVE BeforeMatch
  OBVIOUS
<1>1. ArmRising
  BY DEF Init, ArmRising
<1>2. ChannelFree /\ NoneCounted /\ NoEntry /\ ~O_arm
  BY DEF Init, ChannelFree, NoneCounted, NoEntry, O_arm
<1> QED BY <1>1, <1>2 DEF Init, BeforeMatch

\* Phases follow one another, and nothing but the phases does.
LEMMA PhaseStep == IInv /\ [Next]_vars => IInv'
<1> SUFFICES ASSUME IInv, [Next]_vars PROVE IInv'
  OBVIOUS
<1>1. BaseInv'
  BY BaseStep DEF IInv
<1>2. Timely'
  <2>1. setup' = setup
    BY DEF Next, FeTick, UsbTick, vars
  <2> QED BY <2>1, SetupStays DEF IInv, Timely, SetupKept
<1>3. Phase'
  <2>1. ASSUME NEW event \in Bytes \cup {None, Status}, NEW arm \in BOOLEAN,
               FeTick(event, arm)
        PROVE  Phase'
    BY <2>1, FeFlops, FePhase DEF IInv, BaseInv, Phase
  <2>2. ASSUME NEW write \in BOOLEAN, NEW drained \in BOOLEAN, UsbTick(write, drained)
        PROVE  Phase'
    BY <2>2, UsbFlops, UsbPhase DEF IInv, BaseInv, Phase
  <2>3. CASE UNCHANGED vars
    BY <2>3, StillPhase DEF IInv
  <2> QED BY <2>1, <2>2, <2>3 DEF Next
<1> QED BY <1>1, <1>2, <1>3 DEF IInv

(***************************************************************************)
(* The flops keep their types, and a capture counts at most two entries    *)
(* more than it was asked for, whatever the delay, the latency of the FIFO *)
(* and the speed of the bus, and however captures follow one another.      *)
(***************************************************************************)
THEOREM TypeCorrect == Spec => []TypeOK
<1>1. BaseInv => TypeOK
  <2> SUFFICES ASSUME BaseInv PROVE TypeOK
    OBVIOUS
  <2>1. /\ event_reg \in Bytes \cup {None, Status} /\ setup \in Setups
        /\ delay_counter_fe \in 0 .. capture_delay
        /\ {reg_arm, reg_arm_r, dst_pulse} \subseteq {0, 1}
    BY DEF BaseInv, SetupInv, FlopTypes, Bit
  <2>2. /\ input_data \in [1 .. Len(Pattern) - 1 -> Bytes]
        /\ bytes_received \in 0 .. Len(Pattern)
        /\ \A i \in DOMAIN recent : recent[i] \in Bytes
    BY DEF BaseInv, MatcherTypes
  <2>3. capture_count \in 0 .. CAPTURE_LEN + 2
    <3>1. One(data_wr) \in 0 .. 1 /\ One(in_data) \in 0 .. 1
      BY Ones
    <3>2. capture_count \in Nat /\ CAPTURE_LEN \in Nat
      BY DEF BaseInv, SetupInv, FlopTypes
    <3> QED BY <3>1, <3>2 DEF BaseInv, Bounded, Entered, Counted
  <2> QED BY <2>1, <2>2, <2>3 DEF TypeOK
<1> QED BY <1>1, BaseInit, BaseStep, PTL DEF Spec

(***************************************************************************)
(* Every arming goes through the phases in order, whatever the phase of    *)
(* the two clocks and the moment the host writes ARM.                      *)
(***************************************************************************)
THEOREM Phases == Spec /\ Timely => []IInv
<1>1. Init /\ Timely => IInv
  BY BaseInit, InitPhase DEF IInv, Phase
<1> QED BY <1>1, PhaseStep, PTL DEF Spec

(***************************************************************************)
(* usb.py, arm(): a capture starts after a match in the same arming, and   *)
(* once per arming, for all patterns, lengths, delays and gaps between     *)
(* bytes with which ARM is down before the capture or the gap is over.     *)
(***************************************************************************)
THEOREM StartsAreDue == Spec /\ Timely => []CaptureStartIsDue
<1>1. IInv => CaptureStartIsDue
  <2> SUFFICES ASSUME IInv, capture_allowed, ~capturing_r
               PROVE  (matched \/ I_match) /\ ~captured
    BY DEF CaptureStartIsDue
  <2>w. /\ match => I_match \/ delay_counter_fe_running
        /\ match \/ capture_enable_reg
    BY DEF capture_allowed, O_capture_enable, capture_enable_start, match
  <2>1. ASSUME BeforeMatch PROVE FALSE
    BY <2>1, <2>w DEF BeforeMatch, I_match
  <2>2. ASSUME Delay PROVE (matched \/ I_match) /\ ~captured
    BY <2>2, <2>w DEF Delay
  <2>3. ASSUME Enabled \/ Announced \/ Capturing PROVE matched /\ ~captured
    BY <2>3 DEF IInv, BaseInv, FlopTypes, Enabled, Announced, Capturing, Told
  <2>4. ASSUME Over PROVE FALSE
    BY <2>4, <2>w DEF Over, Told, I_match
  <2> QED BY <2>1, <2>2, <2>3, <2>4 DEF IInv, Phase
<1> QED BY <1>1, Phases, PTL

(***************************************************************************)
(* CAPTURE_DONE: ARM, cleared through the crossing, and the capturing      *)
(* flag, through three flops, never both read as over while a capture      *)
(* runs; the variables keep their types.                                   *)
(***************************************************************************)
THEOREM DoneIsOver == Spec /\ Timely => []DoneMeansOver
<1>1. IInv => (reg_arm = 0 /\ ~capturing_pipe[3] => ~capture_allowed)
  <2> SUFFICES ASSUME IInv, reg_arm = 0, ~capturing_pipe[3], capture_allowed
               PROVE  FALSE
    OBVIOUS
  <2>w. (match => I_match \/ delay_counter_fe_running) /\ (match \/ capture_enable_reg)
    BY DEF capture_allowed, O_capture_enable, capture_enable_start, match
  <2>1. ~BeforeMatch /\ ~Over
    BY <2>w DEF BeforeMatch, Over, Told, I_match
  <2>2. ~Delay /\ ~Enabled /\ ~Announced
    BY DEF Delay, Enabled, Announced
  <2>3. ~Capturing
    BY DEF Capturing
  <2> QED BY <2>1, <2>2, <2>3 DEF IInv, Phase
<1> QED BY <1>1, Phases, TypeCorrect, PTL DEF DoneMeansOver

(***************************************************************************)
(* reg_pw.v:469: the flush that arming starts is over when the capture it  *)
(* was armed for begins, whatever earlier ones have left in the FIFO.      *)
(***************************************************************************)
THEOREM FlushIsOver == Spec /\ Timely => []FlushSparesCapture
<1>1. IInv => FlushSparesCapture
  BY DEF IInv, Phase, FlushSparesCapture, BeforeMatch, Delay, Enabled, Announced,
         O_arm, Capturing, Over, Told
<1> QED BY <1>1, Phases, PTL

(***************************************************************************)
(* usb.py, wait_disarmed(): ARM falls only for a capture that has started  *)
(* since it was written, never for a late pulse of an earlier one.         *)
(***************************************************************************)
THEOREM DisarmsForCapture == Spec /\ Timely => DisarmMeansCapture
<1>1. IInv /\ [Next]_vars => (reg_arm = 1 /\ reg_arm' = 0 => captured)
  <2> SUFFICES ASSUME IInv, [Next]_vars, reg_arm = 1, reg_arm' = 0, ~captured
               PROVE  FALSE
    OBVIOUS
  <2> USE DEF IInv, BaseInv
  <2>1. ASSUME NEW event \in Bytes \cup {None, Status}, NEW arm \in BOOLEAN,
               FeTick(event, arm)
        PROVE  FALSE
    BY <2>1 DEF FeTick, usbVars
  <2>2. ASSUME NEW write \in BOOLEAN, NEW drained \in BOOLEAN, UsbTick(write, drained)
        PROVE  FALSE
    <3>1. dst_pulse = 1
      BY <2>2 DEF UsbTick
    <3>2. ~BeforeMatch /\ ~Delay /\ ~Enabled /\ ~Announced
      BY <3>1 DEF BeforeMatch, Delay, Enabled, Announced, ChannelFree
    <3>3. Told
      BY <3>2 DEF Phase, Capturing, Over
    <3>4. usb_edges < 2 /\ FlopTypes
      BY <2>2 DEF UsbTick
    <3>5. Way = usb_edges /\ dst_req_r = 1 /\ reg_arm_r = 1
      BY <3>1, <3>3, <3>4 DEF Told, FlopTypes, Bit
    <3>6. Way >= 4
      BY <3>3, <3>4, <3>5 DEF Told, Way, FlopTypes, Bit
    <3> QED BY <3>4, <3>5, <3>6 DEF FlopTypes
  <2>3. CASE UNCHANGED vars
    BY <2>3 DEF vars, usbVars
  <2> QED BY <2>1, <2>2, <2>3 DEF Next
<1> QED BY <1>1, Phases, PTL DEF Spec, DisarmMeansCapture

---------------------------------------------------------------------------
(* The bytes of a match, at full speed.                                    *)

\* No two phases at once.
LEMMA PhasesApart ==
  ASSUME FlopTypes'
  PROVE  /\ BeforeMatch' => ~Delay' /\ ~Enabled' /\ ~Announced' /\ ~Capturing' /\ ~Over'
         /\ Over' => ~Delay' /\ ~Enabled' /\ ~Announced' /\ ~Capturing'
BY DEF BeforeMatch, Delay, Enabled, Announced, Capturing, Over, Told, match, I_match

LEMMA SameSeq ==
  ASSUME NEW S, NEW s \in Seq(S), NEW t \in Seq(S), Len(s) = Len(t),
         \A j \in 1 .. Len(t) : s[j] = t[j]
  PROVE  s = t
OBVIOUS

\* The matcher, before the match, takes a byte into its window and into recent alike.
LEMMA Remembered ==
  ASSUME BaseInv, BeforeMatch, Recalled, ~arm_pipe[1] => recent = <<>>,
         NEW event, NEW arm \in BOOLEAN, FeTick(event, arm), FeEdge(event, arm)
  PROVE  /\ Recalled'
         /\ match_trigger' => recent' = Pattern
         /\ ~arm => recent' = <<>>
         /\ arm /\ event_reg \notin Bytes => recent' = recent
         /\ match_trigger' /\ Len(Pattern) > 1 => recent # <<>>
<1> DEFINE L == Len(Pattern)
<1> USE DEF BaseInv
<1>p. /\ Pattern \in Seq(Bytes) /\ Pattern # <<>> /\ Pattern' = Pattern
      /\ L \in Nat /\ L >= 1
  <2>1. Pattern \in Seq(Bytes) /\ Pattern # <<>>
    BY SetupTypes DEF SetupInv
  <2> QED BY <2>1 DEF FeEdge, SetupKept
<1>t. /\ input_data \in [1 .. L - 1 -> Bytes] /\ recent \in Seq(Bytes)
      /\ Len(recent) <= L
      /\ Len(recent) \in Nat /\ bytes_received = Len(recent)
      /\ \A i \in 1 .. L - 1 : i <= Len(recent) =>
           input_data[L - i] = recent[Len(recent) + 1 - i]
  BY DEF MatcherTypes, Recalled
<1>a. arm = TRUE \/ arm = FALSE
  OBVIOUS
<1>1. CASE ~arm
  <2>1. recent = <<>>
    BY <1>1 DEF BeforeMatch, ArmRising, FeEdge, FeArm, FlopTypes
  <2>2. recent' = <<>> /\ UNCHANGED <<match_trigger, input_data, bytes_received>>
    BY <1>1 DEF FeTick, Matcher, TakesByte, BeforeMatch
  <2>3. ~match_trigger'
    BY <2>2 DEF BeforeMatch
  <2> QED BY <1>1, <1>t, <2>1, <2>2, <2>3 DEF Recalled
<1>2. CASE arm /\ event_reg \notin Bytes
  <2>1. recent' = recent /\ UNCHANGED <<match_trigger, input_data, bytes_received>>
    BY <1>2 DEF FeTick, Matcher, TakesByte, BeforeMatch
  <2>2. ~match_trigger'
    BY <2>1 DEF BeforeMatch
  <2> QED BY <1>2, <1>p, <1>t, <2>1, <2>2 DEF Recalled
<1>3. CASE arm /\ event_reg \in Bytes
  <2> DEFINE window == Append(input_data, event_reg)
  <2>1. /\ input_data' = Tail(window)
        /\ bytes_received' = IF bytes_received < L
                             THEN bytes_received + 1 ELSE bytes_received
        /\ match_trigger' = (window = Pattern /\ bytes_received >= L - 1)
    BY <1>3 DEF FeTick, Matcher, TakesByte, BeforeMatch
  <2>2. recent' = IF Len(recent) < L THEN Append(recent, event_reg)
                  ELSE Append(Tail(recent), event_reg)
    BY <1>3 DEF FeTick
  <2>3. /\ window \in Seq(Bytes) /\ Len(window) = L
        /\ \A i \in 1 .. L - 1 : window[i] = input_data[i]
        /\ window[L] = event_reg
    <3>1. input_data \in Seq(Bytes) /\ Len(input_data) = L - 1
      BY <1>p, <1>t
    <3> QED BY <3>1, <1>3, <1>p
  <2>4. \A i \in 1 .. L - 1 : input_data'[i] = window[i + 1]
    BY <2>1, <2>3, <1>p
  <2>5. DOMAIN input_data' = 1 .. L - 1
    <3>1. Len(Tail(window)) = L - 1 /\ Tail(window) \in Seq(Bytes)
      BY <2>3, <1>p
    <3> QED BY <2>1, <3>1
  \* The last bytes of recent' are those of window, as far as recent' goes.
  <2>6. /\ Len(recent') = bytes_received' /\ recent' \in Seq(Bytes)
        /\ \A k \in 0 .. L - 1 : k < Len(recent') =>
             recent'[Len(recent') - k] = window[L - k]
    <3>1. CASE Len(recent) < L
      <4>1. /\ recent' = Append(recent, event_reg) /\ bytes_received' = Len(recent) + 1
            /\ Len(recent') = Len(recent) + 1 /\ recent'[Len(recent) + 1] = event_reg
            /\ recent' \in Seq(Bytes)
            /\ \A j \in 1 .. Len(recent) : recent'[j] = recent[j]
        BY <3>1, <2>1, <2>2, <1>3, <1>t
      <4>2. ASSUME NEW k \in 0 .. L - 1, k < Len(recent')
            PROVE  recent'[Len(recent') - k] = window[L - k]
        <5>1. CASE k = 0
          BY <5>1, <4>1, <2>3
        <5>2. CASE k # 0
          <6>1. k \in 1 .. L - 1 /\ k <= Len(recent) /\ L - k \in 1 .. L - 1
                /\ Len(recent) + 1 - k \in 1 .. Len(recent)
            BY <5>2, <4>1, <4>2, <1>t, <1>p
          <6>2. window[L - k] = recent[Len(recent) + 1 - k]
            BY <6>1, <1>t, <2>3
          <6> QED BY <6>1, <6>2, <4>1
        <5> QED BY <5>1, <5>2
      <4> QED BY <4>1, <4>2
    <3>2. CASE ~(Len(recent) < L)
      <4>1. Len(recent) = L /\ recent # <<>>
        BY <3>2, <1>t, <1>p
      <4>2. /\ recent' = Append(Tail(recent), event_reg) /\ bytes_received' = L
            /\ Len(recent') = L /\ recent'[L] = event_reg /\ recent' \in Seq(Bytes)
            /\ \A j \in 1 .. L - 1 : recent'[j] = recent[j + 1]
        BY <4>1, <2>1, <2>2, <1>3, <1>t, <1>p
      <4>3. ASSUME NEW k \in 0 .. L - 1
            PROVE  recent'[Len(recent') - k] = window[L - k]
        <5>1. CASE k = 0
          BY <5>1, <4>2, <2>3
        <5>2. CASE k # 0
          <6>1. k \in 1 .. L - 1 /\ L - k \in 1 .. L - 1
            BY <5>2, <1>p
          <6>2. window[L - k] = recent[L + 1 - k]
            <7>1. input_data[L - k] = recent[Len(recent) + 1 - k]
              <8>1. k \in 1 .. L - 1 /\ k <= Len(recent)
                BY <6>1, <4>1, <1>p
              <8> QED BY <8>1, <1>t
            <7> QED BY <6>1, <4>1, <7>1, <2>3
          <6>3. recent'[L - k] = recent[(L - k) + 1]
            BY <6>1, <4>2
          <6>4. (L - k) + 1 = L + 1 - k
            BY <6>1, <1>p
          <6> QED BY <6>2, <6>3, <6>4, <4>2
        <5> QED BY <5>1, <5>2
      <4> QED BY <4>2, <4>3
    <3> QED BY <3>1, <3>2
  <2>7. Recalled'
    <3> SUFFICES ASSUME NEW i \in 1 .. L - 1, i <= Len(recent')
                 PROVE  input_data'[L - i] = recent'[Len(recent') + 1 - i]
      BY <1>p, <2>5, <2>6 DEF Recalled
    <3>1. /\ L - i \in 1 .. L - 1 /\ i - 1 \in 0 .. L - 1 /\ (L - i) + 1 = L - (i - 1)
          /\ i - 1 < Len(recent') /\ Len(recent') - (i - 1) = Len(recent') + 1 - i
      BY <1>p, <2>6
    <3> QED BY <3>1, <2>4, <2>6
  <2>8. ASSUME match_trigger' PROVE recent' = Pattern
    <3>1. window = Pattern /\ Len(recent) >= L - 1
      BY <2>1, <2>8, <1>t
    <3>2. Len(recent') = L
      BY <3>1, <2>1, <2>6, <1>t, <1>p
    <3>3. ASSUME NEW j \in 1 .. L PROVE recent'[j] = Pattern[j]
      <4>1. L - j \in 0 .. L - 1 /\ L - j < L /\ L - (L - j) = j
        BY <1>p
      <4> QED BY <4>1, <3>1, <3>2, <2>6
    <3> QED BY <3>2, <3>3, <2>6, <1>p, SameSeq
  <2>9. ASSUME match_trigger', L > 1 PROVE recent # <<>>
    <3>1. Len(recent) >= L - 1
      BY <2>1, <2>9, <1>t
    <3>2. Len(recent) >= 1
      BY <3>1, <2>9, <1>t, <1>p
    <3> QED BY <3>2
  <2> QED BY <1>3, <2>7, <2>8, <2>9
<1> QED BY <1>1, <1>2, <1>3

LEMMA FreshInit == Init => FreshInv
<1> SUFFICES ASSUME Init PROVE FreshInv
  OBVIOUS
<1>1. recent = <<>> /\ Len(recent) = 0 /\ bytes_received = 0 /\ ~I_match
  BY DEF Init, I_match
<1>2. Recalled
  <2>1. DOMAIN input_data = 1 .. Len(Pattern) - 1
    BY DEF Init
  <2>2. Len(Pattern) \in Nat
    BY SetupTypes DEF Init
  <2> QED BY <1>1, <2>1, <2>2 DEF Recalled
<1> QED BY <1>1, <1>2 DEF FreshInv, ForgottenUnarmed, WindowInStep, SecondByteLate,
                          MatchInStep, ClearedAtEnd

\* An edge of fe_clk.
LEMMA FreshFe ==
  ASSUME IInv, FreshInv, NEW event \in Bytes \cup {None, Status}, NEW arm \in BOOLEAN,
         FeTick(event, arm)
  PROVE  FreshInv'
<1> SUFFICES ASSUME DisarmedInTime, DisarmedInTime' PROVE FreshInv'
  <2>1. DisarmedInTime' = DisarmedInTime
    BY FeFlops DEF IInv, BaseInv, FeEdge, SetupKept
  <2> QED BY <2>1 DEF FreshInv
<1> USE DEF IInv, BaseInv
<1>e. FeEdge(event, arm) /\ IInv'
  <2>1. [Next]_vars
    BY DEF Next
  <2> QED BY <2>1, FeFlops, PhaseStep
<1> USE DEF ForgottenUnarmed, WindowInStep, SecondByteLate, MatchInStep, ClearedAtEnd
<1>f. ForgottenUnarmed /\ WindowInStep /\ SecondByteLate /\ MatchInStep /\ ClearedAtEnd
  BY DEF FreshInv
<1>a. /\ arm_pipe'[1] = O_arm /\ arm_pipe'[2] = arm_pipe[1]
      /\ arm_pipe'[3] = arm_pipe[2] /\ arm_pipe'[4] = arm_pipe[3]
      /\ (arm = O_arm \/ arm = arm_pipe[1])
  BY <1>e DEF FeEdge, FeArm
<1>p. /\ BeforeMatch' => ~Delay' /\ ~Enabled' /\ ~Announced' /\ ~Capturing' /\ ~Over'
      /\ Over' => ~Delay' /\ ~Enabled' /\ ~Announced' /\ ~Capturing'
  <2>1. FlopTypes'
    BY <1>e
  <2> QED BY <2>1, PhasesApart
<1>s. /\ BeforeMatch => BeforeMatch' \/ Delay'
      /\ Delay => Delay' \/ Enabled'
      /\ Enabled => Announced'
      /\ Announced => Capturing'
      /\ Capturing => Capturing' \/ Over'
      /\ Over => Over'
  BY <1>e, FePhase
<1>b. BeforeMatch' => BeforeMatch
  BY <1>p, <1>s DEF Phase
<1>o. Over' => Capturing \/ Over
  BY <1>p, <1>s DEF Phase
<1>r. BeforeMatch =>
        /\ Recalled' /\ (match_trigger' => recent' = Pattern)
        /\ ~arm => recent' = <<>>
        /\ arm /\ event_reg \notin Bytes => recent' = recent
        /\ match_trigger' /\ Len(Pattern) > 1 => recent # <<>>
  BY <1>e, <1>f, Remembered
<1>g. MinByteGap >= 10 /\ (event_reg \in Bytes => quiet = 1)
  BY DEF DisarmedInTime, SetupInv
\* A second byte only comes once the count has been reset.
<1>h. BeforeMatch /\ recent # <<>> /\ event_reg \in Bytes => arm_pipe[4] /\ arm_pipe[3]
  BY <1>f, <1>g DEF BeforeMatch, ArmRising
<1>1. ~arm_pipe'[1] /\ ~arm_pipe'[2] => recent' = <<>>
  BY <1>a DEF FeTick
<1>2. BeforeMatch' => Recalled' /\ (~arm_pipe'[1] => recent' = <<>>)
  <2>1. BeforeMatch /\ ~O_arm => ~arm_pipe[1]
    BY DEF BeforeMatch, ArmRising
  <2> QED BY <1>a, <1>b, <1>r, <2>1
<1>3. BeforeMatch' /\ recent' # <<>> /\ ~arm_pipe'[4] =>
        /\ 2 <= quiet' /\ quiet' <= 4 /\ (quiet' >= 3 => arm_pipe'[2])
        /\ (quiet' = 4 => arm_pipe'[3])
  <2> SUFFICES ASSUME BeforeMatch, recent' # <<>>, ~arm_pipe[3]
               PROVE  /\ 2 <= quiet' /\ quiet' <= 4 /\ (quiet' >= 3 => arm_pipe[1])
                      /\ (quiet' = 4 => arm_pipe[2])
    BY <1>a, <1>b
  <2>1. arm
    BY <1>r
  <2>2. quiet \in Nat /\ MinByteGap \in Nat
    BY DEF FlopTypes, SetupInv
  <2>3. /\ event \in Bytes => quiet >= MinByteGap
        /\ event \notin Bytes =>
             quiet' = IF quiet < MinByteGap THEN quiet + 1 ELSE quiet
    BY <1>e DEF FeEdge, FeQuiet
  <2>4. CASE event_reg \in Bytes
    <3>1. quiet = 1
      BY <2>4, <1>g
    <3>2. quiet' = 2
      BY <3>1, <2>2, <2>3, <1>g
    <3> QED BY <3>2
  <2>5. CASE event_reg \notin Bytes
    <3>1. recent' = recent /\ recent # <<>> /\ arm_pipe[1]
      BY <2>1, <2>5, <1>r, <1>f
    <3>2. ~arm_pipe[4]
      BY DEF BeforeMatch, ArmRising
    <3>3. /\ 2 <= quiet /\ quiet <= 3 /\ (quiet = 3 => arm_pipe[2])
      BY <3>1, <3>2, <2>2, <1>f
    <3>4. quiet' = quiet + 1
      BY <3>3, <2>2, <2>3, <1>g
    <3> QED BY <3>1, <3>3, <3>4, <2>2
  <2> QED BY <2>4, <2>5
<1>4. I_match' => recent' = Pattern' /\ (Len(Pattern') > 1 => arm_pipe'[4])
  <2> SUFFICES ASSUME match_trigger', ~match_trigger
               PROVE  recent' = Pattern' /\ (Len(Pattern') > 1 => arm_pipe'[4])
    BY <1>e DEF I_match, FeEdge, FeMatch
  <2>1. event_reg \in Bytes /\ arm /\ Pattern' = Pattern
    BY <1>e DEF FeEdge, FeMatch, FlopTypes, SetupKept
  <2>2. BeforeMatch
    <3>1. ~Delay /\ ~Enabled /\ ~Announced /\ ~Capturing
      BY DEF Delay, Enabled, Announced, Capturing, Held
    <3>2. ~Over
      BY <1>s DEF Over
    <3> QED BY <3>1, <3>2 DEF Phase
  <2> QED BY <2>1, <2>2, <1>a, <1>h, <1>r
<1>5. Over' => bytes_received' = 0
  <2>1. ASSUME Over', Capturing PROVE bytes_received' = 0
    <3>1. match_trigger
      BY <2>1 DEF Capturing, Held
    <3>2. capture_done
      BY <1>e, <2>1 DEF Over, Capturing, FeEdge, FeEnable, NextEnable
    <3> QED BY <3>1, <3>2 DEF FeTick, Matcher, ForgetBytes
  <2>2. ASSUME Over PROVE bytes_received' = 0
    <3>1. ~(event_reg \in Bytes /\ arm) /\ ~match_trigger
      BY <2>2, <1>e, NoByteTaken DEF Over
    <3> QED BY <2>2, <3>1, <1>f DEF FeTick, Matcher, TakesByte
  <2> QED BY <1>o, <2>1, <2>2
<1> QED BY <1>1, <1>2, <1>3, <1>4, <1>5 DEF FreshInv

\* An edge of usb_clk.
LEMMA FreshUsb ==
  ASSUME IInv, FreshInv, NEW write \in BOOLEAN, NEW drained \in BOOLEAN,
         UsbTick(write, drained)
  PROVE  FreshInv'
<1> SUFFICES ASSUME DisarmedInTime, DisarmedInTime' PROVE FreshInv'
  <2>1. DisarmedInTime' = DisarmedInTime
    BY UsbFlops DEF IInv, BaseInv, UsbEdge, SetupKept
  <2> QED BY <2>1 DEF FreshInv
<1> USE DEF IInv, BaseInv
<1>e. UsbEdge(write, drained) /\ IInv'
  <2>1. [Next]_vars
    BY DEF Next
  <2> QED BY <2>1, UsbFlops, PhaseStep
<1>k. /\ recent' = recent /\ input_data' = input_data
      /\ bytes_received' = bytes_received
      /\ arm_pipe' = arm_pipe /\ quiet' = quiet /\ I_match' = I_match
      /\ Pattern' = Pattern
  BY <1>e DEF UsbTick, matcherVars, UsbEdge, UsbKept, SetupKept
<1> USE DEF ForgottenUnarmed, WindowInStep, SecondByteLate, MatchInStep, ClearedAtEnd
<1>f. ForgottenUnarmed /\ WindowInStep /\ SecondByteLate /\ MatchInStep /\ ClearedAtEnd
  BY DEF FreshInv
<1>p. /\ BeforeMatch' => ~Delay' /\ ~Enabled' /\ ~Announced' /\ ~Capturing' /\ ~Over'
      /\ Over' => ~Delay' /\ ~Enabled' /\ ~Announced' /\ ~Capturing'
  <2>1. FlopTypes'
    BY <1>e
  <2> QED BY <2>1, PhasesApart
<1>s. /\ BeforeMatch => BeforeMatch'
      /\ Delay => Delay'
      /\ Enabled => Enabled'
      /\ Announced => Announced'
      /\ Capturing => Capturing'
      /\ Over => Over' \/ BeforeMatch'
  BY <1>e, UsbPhase
\* Only the host's write leads back to the first phase.
<1>b. BeforeMatch' => BeforeMatch \/ (Over /\ write)
  <2>1. BeforeMatch' => BeforeMatch \/ Over
    BY <1>p, <1>s DEF Phase
  <2>2. ASSUME Over, ~write PROVE matched'
    BY <1>e, <2>2 DEF Over, Told, UsbEdge, UsbArm
  <2> QED BY <2>1, <2>2 DEF BeforeMatch
<1>w. Over /\ write => recent = <<>> /\ ~arm_pipe[1]
  BY <1>e, <1>f DEF UsbEdge, UsbArm, HostMayArm
<1>1. BeforeMatch' => Recalled' /\ (~arm_pipe'[1] => recent' = <<>>)
  <2>1. CASE BeforeMatch
    BY <2>1, <1>f, <1>k DEF Recalled
  <2>2. CASE Over /\ write
    <3>1. recent' = <<>> /\ bytes_received' = 0 /\ Len(recent') = 0
      BY <2>2, <1>f, <1>k, <1>w
    <3>2. DOMAIN input_data' = 1 .. Len(Pattern) - 1
      BY <1>k DEF MatcherTypes
    <3>3. Len(Pattern) \in Nat
      BY SetupTypes DEF SetupInv
    <3> QED BY <3>1, <3>2, <3>3 DEF Recalled
  <2> QED BY <1>b, <2>1, <2>2
<1>2. BeforeMatch' /\ recent' # <<>> /\ ~arm_pipe'[4] =>
        /\ 2 <= quiet' /\ quiet' <= 4 /\ (quiet' >= 3 => arm_pipe'[2])
        /\ (quiet' = 4 => arm_pipe'[3])
  BY <1>b, <1>f, <1>k, <1>w
<1>3. Over' => bytes_received' = 0
  BY <1>p, <1>s, <1>f, <1>k DEF Phase
<1> QED BY <1>1, <1>2, <1>3, <1>f, <1>k DEF FreshInv

LEMMA FreshStep == IInv /\ FreshInv /\ [Next]_vars => FreshInv'
<1> SUFFICES ASSUME IInv, FreshInv, [Next]_vars PROVE FreshInv'
  OBVIOUS
<1>1. CASE UNCHANGED vars
  <2> USE <1>1 DEF vars, captureVars, matcherVars, triggerVars, cdcSrc, cdcDst, usbVars
  <2>1. SetupKept
    BY SetupStays
  <2>2. IInv'
    BY PhaseStep
  <2>3. FlopTypes'
    BY <2>2 DEF IInv, BaseInv
  <2>4. /\ BeforeMatch' => BeforeMatch
        /\ Over' => Over
    <3>1. /\ match' = match /\ O_arm' = O_arm /\ sniff_fifo_empty' = sniff_fifo_empty
      BY <2>1 DEF match, I_match, O_arm, sniff_fifo_empty
    <3>2. BeforeMatch' => BeforeMatch
      BY <2>1, <3>1 DEF BeforeMatch, NoEntry, ChannelFree, ArmRising, NoneCounted,
                        SetupKept
    <3>3. Way' = Way /\ Age' = Age /\ ArmUp' = ArmUp
          /\ capture_allowed' = capture_allowed
      BY <2>1 DEF Way, Age, ArmUp, capture_allowed, O_capture_enable,
                  capture_enable_start,
                  match, I_match, SetupKept
    <3>4. Told' => Told
      BY <2>1, <3>1, <3>3 DEF Told, ArmFalling, StillShort, SetupKept
    <3> QED BY <2>1, <3>2, <3>3, <3>4 DEF Over, SetupKept
  <2> QED BY <2>1, <2>4 DEF FreshInv, ForgottenUnarmed, WindowInStep, SecondByteLate,
                            MatchInStep,
                    ClearedAtEnd, Recalled, I_match, SetupKept
<1>2. ASSUME NEW event \in Bytes \cup {None, Status}, NEW arm \in BOOLEAN,
             FeTick(event, arm)
      PROVE  FreshInv'
  BY <1>2, FreshFe
<1>3. ASSUME NEW write \in BOOLEAN, NEW drained \in BOOLEAN, UsbTick(write, drained)
      PROVE  FreshInv'
  BY <1>3, FreshUsb
<1> QED BY <1>1, <1>2, <1>3 DEF Next

LEMMA AlwaysFresh == Spec /\ Timely => []FreshInv
BY FreshInit, FreshStep, Phases, PTL DEF Spec

(***************************************************************************)
(* pw_pattern_matcher.v:91, at full speed: a match is made of bytes        *)
(* received in this arming, for patterns of any length.                    *)
(***************************************************************************)
THEOREM MatchesAreFresh == Spec /\ Timely => []FreshAtFullSpeed
<1>1. FreshInv => FreshAtFullSpeed
  BY DEF FreshInv, MatchInStep, FreshAtFullSpeed, MatchIsFresh
<1> QED BY <1>1, AlwaysFresh, PTL

(***************************************************************************)
(* pw_trigger.v:228, at full speed: with no delay and a pattern of two     *)
(* bytes or more, the capture is on in the cycle of the match, the last    *)
(* capture's count having been reset by then.                              *)
(***************************************************************************)
THEOREM FirstEntryKept == Spec /\ Timely => []NothingMissedAtMatch
<1>1. IInv /\ FreshInv => NothingMissedAtMatch
  <2> SUFFICES ASSUME IInv, FreshInv, DisarmedInTime, Len(Pattern) > 1, I_match,
                      capture_delay = 0, ~captured
               PROVE  capture_allowed
    BY DEF NothingMissedAtMatch
  <2> USE DEF IInv, BaseInv, SetupInv, FlopTypes
  <2>1. arm_pipe[4]
    BY DEF FreshInv, MatchInStep
  <2>2. O_capture_enable
    BY DEF O_capture_enable, capture_enable_start, match
  <2>3. NoneCounted => capture_allowed
    BY <2>1, <2>2 DEF NoneCounted, capture_allowed
  <2>4. ~BeforeMatch /\ ~Over
    BY DEF BeforeMatch, Over, I_match
  <2>5. Capturing => capture_allowed
    BY DEF Capturing
  <2> QED BY <2>3, <2>4, <2>5 DEF Phase, Delay, Enabled, Announced
<1> QED BY <1>1, AlwaysFresh, Phases, PTL
===========================================================================
