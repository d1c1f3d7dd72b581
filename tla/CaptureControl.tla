--------------------------- MODULE CaptureControl ---------------------------
(***************************************************************************)
(* From the ARM register to a finished capture, across both clocks:        *)
(*   reg_pw.v              reg_arm, the flush, O_arm, the capturing flag   *)
(*   pw_pattern_matcher.v  the match that starts a capture (fe_clk)        *)
(*   pw_trigger.v          the delay and the capture enable (fe_clk)       *)
(*   fe_capture.v          how many entries were captured (fe_clk)         *)
(*   cdc_pulse.v           capture_enable_pulse to usb_clk (CdcPulse.tla)  *)
(* FeTick is an edge of fe_clk, UsbTick one of usb_clk; usb_clk is the     *)
(* faster of the two by less than a factor of two (phywhisperer.xdc).      *)
(* Timestamps are left to FeCapture.tla: here each event is one entry.     *)
(***************************************************************************)
EXTENDS Naturals, Sequences

CONSTANTS
  Bytes,        \* values of a received byte
  Zero,         \* the byte the shift register is cleared to
  Setups,       \* what the host may have programmed, and the speed of the bus
  FIFO_LATENCY  \* edges of usb_clk before the FIFO shows its first entry

None == "none"       \* no event in this cycle
Status == "stat"     \* an event without a byte

ASSUME CaptureControlAssumption ==
  /\ Bytes \cap {None, Status} = {}
  /\ Zero \in Bytes /\ FIFO_LATENCY \in Nat
  /\ \A s \in Setups : /\ s.pattern \in Seq(Bytes) /\ s.pattern # <<>>
                       /\ s.len \in Nat /\ s.delay \in Nat /\ s.gap \in Nat \ {0}

VARIABLES
  \* fe_clk, fe_capture.v
  event_reg,         \* the last cycle's event: usb_event_reg and O_pm_data/O_pm_wr
  in_data,           \* state = pS_DATA
  data_wr, capture_count,
  arm_pipe,          \* arm_pipe, arm_r, arm_r2: four flops, newest first
  \* fe_clk, pw_pattern_matcher.v
  input_data, bytes_received, match_trigger, match_trigger_r,
  arm_prev,          \* O_arm at the last edge of fe_clk
  capturing_r,       \* the same flop in the matcher and in pw_trigger.v
  \* fe_clk, pw_trigger.v
  delay_counter_fe, delay_counter_fe_running,
  capture_enable_reg, capture_enable_reg2, capture_enable_pulse,
  \* both clocks, cdc_pulse.v
  src_req, ack_pipe, src_ack, req_pipe, dst_req, dst_req_r, dst_pulse,
  \* usb_clk, reg_pw.v
  reg_arm, reg_arm_r, flushing,
  capturing_pipe,    \* capturing_pipe, capturing: three flops, newest first
  wr_en,             \* sniff_fifo_wr_en (fe_clk)
  fill,              \* 0: no entry in the FIFO; n: the oldest one has been there
                     \* for n - 1 edges of usb_clk
  \* environment and history
  setup,             \* the quasi-static registers and the speed, one of Setups
  usb_edges,         \* edges of usb_clk since the last one of fe_clk
  quiet,             \* cycles since the last byte
  recent,            \* the last bytes the matcher was given in this arming
  matched, captured  \* since ARM was written: a match, a capture

captureVars == <<event_reg, in_data, data_wr, capture_count, arm_pipe>>
matcherVars == <<input_data, bytes_received, match_trigger, match_trigger_r,
                 arm_prev, capturing_r>>
triggerVars == <<delay_counter_fe, delay_counter_fe_running, capture_enable_reg,
                 capture_enable_reg2, capture_enable_pulse>>
cdcSrc == <<src_req, ack_pipe, src_ack>>
cdcDst == <<req_pipe, dst_req, dst_req_r, dst_pulse>>
usbVars == <<reg_arm, reg_arm_r, flushing, capturing_pipe>>
vars == <<captureVars, matcherVars, triggerVars, cdcSrc, cdcDst, usbVars,
          wr_en, fill, setup, usb_edges, quiet, recent, matched, captured>>

Pattern == setup.pattern       \* the mask is all ones
CAPTURE_LEN == setup.len       \* 0 for no limit
capture_delay == setup.delay
MinByteGap == setup.gap        \* fe_clk cycles between bytes: 40 at full speed

\* The next byte after a match comes when ARM has been cleared: so at full speed, with
\* delays of up to 30 cycles.
DisarmedInTime == capture_delay + 10 <= MinByteGap
\* The capture lasts longer than its start takes to clear ARM.
OutlastsDisarming == CAPTURE_LEN = 0 \/ CAPTURE_LEN >= 7
\* FIFO_LATENCY: the first entry is not seen before ARM has been cleared.
Timely == (DisarmedInTime \/ OutlastsDisarming) /\ FIFO_LATENCY >= 4

\* U_match_cdc of reg_pw.v, out of reset.
Cdc == INSTANCE CdcPulse WITH
  SYNC_STAGES <- 2, reset <- 0, src_cleared <- TRUE, dst_cleared <- TRUE

---------------------------------------------------------------------------
(* Wires.  A definition whose name says what is wrong with it is a slip of *)
(* the one that follows it; the README says which property each breaks.    *)
I_match == match_trigger /\ ~match_trigger_r
match == I_match \/ delay_counter_fe_running
capture_enable_start == match /\ delay_counter_fe = capture_delay
O_capture_enable == capture_enable_start \/ capture_enable_reg
\* Without !I_fifo_full and !I_fifo_overflow_blocked: the FIFO never fills here.
capture_allowed ==
  O_capture_enable /\ (capture_count < CAPTURE_LEN \/ CAPTURE_LEN = 0)
capture_done == ~capture_allowed /\ capturing_r
O_arm == reg_arm_r = 1 /\ ~flushing
sniff_fifo_empty == fill <= FIFO_LATENCY

Init ==
  /\ setup \in Setups
  /\ event_reg = None /\ in_data = FALSE /\ data_wr = FALSE /\ capture_count = 0
  /\ arm_pipe = [i \in 1 .. 4 |-> FALSE]
  /\ input_data = [i \in 1 .. Len(Pattern) - 1 |-> Zero] /\ bytes_received = 0
  /\ match_trigger = FALSE /\ match_trigger_r = FALSE /\ arm_prev = FALSE
  /\ capturing_r = FALSE
  /\ delay_counter_fe = 0 /\ delay_counter_fe_running = FALSE
  /\ capture_enable_reg = FALSE /\ capture_enable_reg2 = FALSE
  /\ capture_enable_pulse = FALSE
  /\ src_req = 0 /\ ack_pipe = <<0, 0>> /\ src_ack = 0
  /\ req_pipe = <<0, 0>> /\ dst_req = 0 /\ dst_req_r = 0 /\ dst_pulse = 0
  /\ reg_arm = 0 /\ reg_arm_r = 0 /\ flushing = FALSE
  /\ capturing_pipe = [i \in 1 .. 3 |-> FALSE]
  /\ wr_en = FALSE /\ fill = 0
  /\ usb_edges = 0 /\ quiet = MinByteGap /\ recent = <<>>
  /\ matched = FALSE /\ captured = FALSE

---------------------------------------------------------------------------
(* fe_clk                                                                  *)
Pushed(pipe, in) == [i \in DOMAIN pipe |-> IF i = 1 THEN in ELSE pipe[i - 1]]

\* The matcher takes the byte; arm is its arm_r, O_arm through three flops of
\* the 4x clock.
TakesByteUnarmed(arm) == event_reg \in Bytes
TakesByte(arm) == event_reg \in Bytes /\ arm

BytesKept == UNCHANGED <<input_data, bytes_received>>
ForgetBytes ==
  input_data' = [i \in DOMAIN input_data |-> Zero] /\ bytes_received' = 0

Matcher(arm) ==
  /\ match_trigger_r' = match_trigger
  /\ IF match_trigger /\ capture_done
     THEN match_trigger' = FALSE /\ ForgetBytes
     ELSE IF TakesByte(arm)
     THEN LET window == Append(input_data, event_reg) IN
          /\ input_data' = Tail(window)
          /\ bytes_received' = IF bytes_received < Len(Pattern)
                               THEN bytes_received + 1 ELSE bytes_received
          /\ match_trigger' = (window = Pattern /\ bytes_received >= Len(Pattern) - 1)
     ELSE UNCHANGED <<match_trigger, input_data, bytes_received>>

delaying == delay_counter_fe < capture_delay /\ ~O_capture_enable

EnableKeptAtDone == capture_enable_reg \/ (match /\ ~delaying)
NextEnable == ~capture_done /\ (capture_enable_reg \/ (match /\ ~delaying))

PulseAtTheEnd == ~capture_enable_reg /\ capture_enable_reg2
NextPulse == capture_enable_reg /\ ~capture_enable_reg2

CaptureEnable ==
  /\ capturing_r' = capture_allowed
  /\ capture_enable_reg' = NextEnable
  /\ capture_enable_reg2' = capture_enable_reg
  /\ capture_enable_pulse' = NextPulse
  /\ delay_counter_fe_running' = (~O_capture_enable /\ match)
  /\ delay_counter_fe' = IF capture_done \/ ~match THEN delay_counter_fe
                         ELSE IF delaying THEN delay_counter_fe + 1 ELSE 0

CountNeverReset == IF data_wr /\ CAPTURE_LEN > 0 THEN capture_count + 1
                   ELSE capture_count
NextCount == IF arm_pipe[3] /\ ~arm_pipe[4] THEN 0
             ELSE IF data_wr /\ CAPTURE_LEN > 0 THEN capture_count + 1
             ELSE capture_count

Entries(event) ==
  /\ event_reg' = event
  /\ in_data' = (event_reg # None /\ capture_allowed)
  /\ data_wr' = in_data
  /\ wr_en' = data_wr
  /\ fill' = IF fill = 0 /\ wr_en THEN 1 ELSE fill
  /\ arm_pipe' = Pushed(arm_pipe, O_arm)
  /\ capture_count' = NextCount

\* fe_clk has an edge after one or two edges of usb_clk.
FeTick(event, arm) ==
  /\ usb_edges > 0 /\ usb_edges' = 0
  /\ event \in Bytes => quiet >= MinByteGap
  /\ quiet' = IF event \in Bytes THEN 1
              ELSE IF quiet < MinByteGap THEN quiet + 1 ELSE quiet
  /\ arm \in {O_arm, arm_prev} /\ arm_prev' = O_arm
  /\ Matcher(arm)
  /\ CaptureEnable
  /\ Entries(event)
  /\ Cdc!SrcEdge(IF capture_enable_pulse THEN 1 ELSE 0)
  /\ recent' = IF ~arm THEN <<>>
               ELSE IF event_reg \notin Bytes THEN recent
               ELSE IF Len(recent) < Len(Pattern) THEN Append(recent, event_reg)
               ELSE Append(Tail(recent), event_reg)
  /\ matched' = (matched \/ I_match)
  /\ captured' = (captured \/ capture_allowed)
  /\ UNCHANGED <<cdcDst, usbVars, setup>>

---------------------------------------------------------------------------
(* usb_clk                                                                 *)

CapturingIfArmed == capture_allowed /\ reg_arm = 1
CapturingFlag == capture_allowed

(***************************************************************************)
(* The host arms after it has read CAPTURE_DONE.  Its read and its write   *)
(* are USB transfers, thousands of cycles apart, so every synchroniser has *)
(* settled in between.                                                     *)
(***************************************************************************)
HostMayArm ==
  /\ reg_arm = 0 /\ reg_arm_r = 0 /\ ~arm_prev /\ ~capturing_pipe[3]
  /\ \A i \in 1 .. 4 : ~arm_pipe[i]
  /\ ~Cdc!busy /\ dst_pulse = 0 /\ ~capture_enable_pulse
  /\ ~data_wr /\ ~wr_en /\ (fill = 0 \/ ~sniff_fifo_empty)

\* The flush, a flag cleared by an empty FIFO and set by arming.
FlushWhileArmed == flushing' = (IF reg_arm = 1 THEN ~flushing ELSE ~sniff_fifo_empty /\ flushing)
Flush == flushing' = IF sniff_fifo_empty THEN FALSE ELSE (flushing \/ reg_arm = 1)

\* write: the host writes 1 to ARM; drained: the FIFO has been read, or flushed,
\* empty.
UsbTick(write, drained) ==
  /\ usb_edges < 2 /\ usb_edges' = usb_edges + 1
  /\ write => HostMayArm
  /\ drained => ~sniff_fifo_empty /\ ~data_wr /\ ~wr_en
  /\ reg_arm' = IF write THEN 1 ELSE IF dst_pulse = 1 THEN 0 ELSE reg_arm
  /\ reg_arm_r' = reg_arm
  /\ Flush
  /\ capturing_pipe' = Pushed(capturing_pipe, CapturingFlag)
  /\ fill' = IF drained THEN 0
             ELSE IF fill > 0 /\ sniff_fifo_empty THEN fill + 1 ELSE fill
  /\ Cdc!DstEdge
  /\ matched' = (matched /\ ~write)
  /\ captured' = (captured /\ ~write)
  /\ UNCHANGED <<captureVars, matcherVars, triggerVars, cdcSrc, wr_en,
                 setup, quiet, recent>>

Next ==
  \/ \E event \in Bytes \cup {None, Status}, arm \in BOOLEAN : FeTick(event, arm)
  \/ \E write, drained \in BOOLEAN : UsbTick(write, drained)

Spec == Init /\ [][Next]_vars

(* Both clocks run; the host empties the FIFO or the flush does.           *)
FairSpec ==
  /\ Spec
  /\ WF_vars(\E event \in Bytes \cup {None, Status}, arm \in BOOLEAN : FeTick(event, arm))
  /\ WF_vars(\E write, drained \in BOOLEAN : UsbTick(write, drained))

---------------------------------------------------------------------------
\* The types; a capture counts at most two entries more than it was asked for, over
\* any number of captures and whatever stops them.
TypeOK ==
  /\ event_reg \in Bytes \cup {None, Status}
  /\ input_data \in [1 .. Len(Pattern) - 1 -> Bytes]
  /\ bytes_received \in 0 .. Len(Pattern)
  /\ setup \in Setups /\ delay_counter_fe \in 0 .. capture_delay
  /\ capture_count \in 0 .. CAPTURE_LEN + 2
  /\ {reg_arm, reg_arm_r, dst_pulse} \subseteq {0, 1}
  /\ recent = <<>> \/ \A i \in DOMAIN recent : recent[i] \in Bytes

(***************************************************************************)
(* pw_pattern_matcher.v:91, "end of capture is a good time to reset        *)
(* these": a match is made of bytes received in this arming, what went by  *)
(* before ARM was written cannot complete the pattern.                     *)
(***************************************************************************)
MatchIsFresh == I_match => recent = Pattern

\* It is so if no byte comes between the match and the end of the arming: the byte
\* that matched is then still the last one when the capture ends.
FreshAtFullSpeed == DisarmedInTime => MatchIsFresh

(***************************************************************************)
(* usb.py, arm(): the pattern initiates the capture.  A capture starts     *)
(* after a match in the same arming, and once per arming.                  *)
(***************************************************************************)
CaptureStartIsDue ==
  capture_allowed /\ ~capturing_r => (matched \/ I_match) /\ ~captured

(***************************************************************************)
(* pw_trigger.v:228: with no delay, the data that follows the match at     *)
(* once is captured.  At full speed, and with a pattern of two bytes or    *)
(* more, the first match of an arming comes after the last capture's count *)
(* has been reset, and the capture is on in the cycle of the match.        *)
(***************************************************************************)
NothingMissedAtMatch ==
  DisarmedInTime /\ Len(Pattern) > 1 =>
    (I_match /\ capture_delay = 0 /\ ~captured => capture_allowed)

(***************************************************************************)
(* CAPTURE_DONE, as the host reads it, is never seen while a capture runs: *)
(* the ARM bit and the capturing flag, which cross the clocks by different *)
(* ways, leave no gap between them.  The variables keep their types.       *)
(***************************************************************************)
DoneMeansOver ==
  /\ TypeOK
  /\ reg_arm = 0 /\ ~capturing_pipe[3] => ~capture_allowed

(***************************************************************************)
(* usb.py, wait_disarmed(): ARM is cleared for a capture that has started  *)
(* in this arming, never by a late pulse of an earlier one.                *)
(***************************************************************************)
DisarmMeansCapture == [][reg_arm = 1 /\ reg_arm' = 0 => captured]_vars

(***************************************************************************)
(* The flush that arming starts discards what earlier captures left in the *)
(* FIFO, never an entry of the capture it was armed for.                   *)
(***************************************************************************)
FlushSparesCapture == captured => ~flushing

\* A match in an armed device disarms it.
MatchDisarms == (I_match /\ reg_arm = 1) ~> reg_arm = 0
===========================================================================
