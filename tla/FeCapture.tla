----------------------------- MODULE FeCapture -----------------------------
(***************************************************************************)
(* hdl/fe_capture.v: turns the PHY's lines into capture entries.  An event *)
(* is a received byte (rxvalid) or a change of the status lines.  Each     *)
(* event becomes one DATA or STAT entry that carries a short timestamp; a  *)
(* gap too long for it is announced by a TIME entry first.                 *)
(*                                                                         *)
(* One step is one edge of fe_clk.  The byte itself is left out: it goes   *)
(* through the same three flops as the status lines.  What drives          *)
(* I_capture_enable (pw_trigger.v) and the FIFO flags (reg_pw.v) is here   *)
(* reduced to what those modules can do.                                   *)
(***************************************************************************)
EXTENDS Naturals

CONSTANTS
  SHORT,       \* 2**FE_FIFO_SHORTTIME_LEN: short timestamps are below it
  FULL,        \* largest timestamp_ctr, 2**pTIMESTAMP_FULL_WIDTH - 1
  COUNT_MOD,   \* capture_count wraps at it, 2**pCAPTURE_LEN_WIDTH
  CaptureLens, \* values of I_capture_len to consider, 0 for no limit
  MaxIdle,     \* the longest the bus stays without an event in a capture
  Stat         \* values of the five status lines

ASSUME FeCaptureAssumption ==
  /\ SHORT \in Nat /\ FULL \in Nat /\ SHORT < FULL
  /\ 5 < SHORT  \* a capture may begin with timestamp_ctr up to 5: those gaps fit
  /\ COUNT_MOD \in Nat \ {0} /\ CaptureLens \subseteq 0 .. COUNT_MOD - 1
  /\ MaxIdle \in Nat \ {0, 1} /\ Stat # {}

VARIABLES
  rx1, rx2,                \* fe_rxvalid_reg, fe_rxvalid_reg2
  stat1, stat2, stat3,     \* fe_status_bits_reg, _reg2, _reg3 (O_status)
  usb_event_reg,
  state, state_r, state_r2,
  timestamp_ctr, timestamp, timestamp_reg, ctr_running,
  O_command, O_data_wr, capture_count,
  capture_len, timestamps_disable,         \* quasi-static registers
  capture_enable, capturing_r,             \* from pw_trigger.v
  fifo_stop, wr_en,                        \* from reg_pw.v
  since,                   \* history: cycles since the last event
  gap1, gap2, gap3,        \* history: gaps of the events in the pipeline
  due2, due3,              \* history: what each of them should become
  last_captured,           \* history: the last event was captured, and the
                           \* capture has gone on since
  acc, host_stat, host_synced  \* history: what the host makes of the entries

pipeVars == <<rx1, rx2, stat1, stat2, stat3, usb_event_reg>>
fsmVars == <<state, state_r, state_r2>>
timeVars == <<timestamp_ctr, timestamp, timestamp_reg, ctr_running>>
outVars == <<O_command, O_data_wr, capture_count>>
envVars == <<capture_len, timestamps_disable, capture_enable, capturing_r,
             fifo_stop, wr_en>>
historyVars == <<since, gap1, gap2, gap3, due2, due3, last_captured,
                 acc, host_stat, host_synced>>
vars == <<pipeVars, fsmVars, timeVars, outVars, envVars, historyVars>>

IDLE == "IDLE"
DATA == "DATA"
STAT == "STAT"
TIME == "TIME"

\* A definition whose name says what is wrong with it is a slip of the one that
\* follows it; the README says which property each breaks.
capture_allowed_one_more ==
  /\ capture_enable /\ ~fifo_stop
  /\ capture_count <= capture_len \/ capture_len = 0
capture_allowed ==
  /\ capture_enable /\ ~fifo_stop
  /\ capture_count < capture_len \/ capture_len = 0

Fits(limit) == timestamps_disable \/ timestamp_ctr < limit
short_timestamp == Fits(SHORT)
short_timestamp_pre_late == Fits(SHORT)
short_timestamp_pre == Fits(SHORT - 1)

\* The FSM; usb_event is this cycle's, usb_event_reg the last cycle's.
next_state(usb_event) ==
  IF state = IDLE THEN
    IF usb_event_reg /\ short_timestamp /\ capture_allowed THEN DATA
    ELSE IF usb_event /\ ~short_timestamp_pre /\ capture_allowed THEN TIME
    ELSE IF timestamp_ctr = FULL - 1 THEN TIME
    ELSE IDLE
  ELSE IF usb_event_reg /\ capture_allowed THEN DATA ELSE IDLE

O_time_after_TIME_kept == IF state_r = TIME THEN timestamp ELSE timestamp_reg
O_time == IF state_r = TIME THEN timestamp
          ELSE IF state_r2 = TIME THEN 0
          ELSE timestamp_reg

Init ==
  /\ rx1 = FALSE /\ rx2 = FALSE /\ usb_event_reg = FALSE
  /\ stat1 \in Stat /\ stat2 = stat1 /\ stat3 = stat1
  /\ state = IDLE /\ state_r = IDLE /\ state_r2 = IDLE
  /\ timestamp_ctr = 0 /\ timestamp = 0 /\ timestamp_reg = 0
  /\ ctr_running = FALSE
  /\ O_command = DATA /\ O_data_wr = FALSE /\ capture_count = 0
  /\ capture_len \in CaptureLens /\ timestamps_disable \in BOOLEAN
  /\ capture_enable = FALSE /\ capturing_r = FALSE
  /\ fifo_stop = FALSE /\ wr_en = FALSE
  /\ since = MaxIdle /\ gap1 = 0 /\ gap2 = 0 /\ gap3 = 0
  /\ due2 = "none" /\ due3 = "none" /\ last_captured = FALSE
  /\ acc = 0 /\ host_stat = stat1 /\ host_synced = FALSE

PipelineStatusEarly(rx, st, usb_event) ==
  /\ rx1' = rx /\ rx2' = rx1
  /\ stat1' = st /\ stat2' = stat1 /\ stat3' = stat1
  /\ usb_event_reg' = usb_event
Pipeline(rx, st, usb_event) ==
  /\ rx1' = rx /\ rx2' = rx1
  /\ stat1' = st /\ stat2' = stat1 /\ stat3' = stat2
  /\ usb_event_reg' = usb_event

Fsm(usb_event) ==
  /\ state' = next_state(usb_event)
  /\ state_r' = state
  /\ state_r2' = state_r

NextCtr == IF ~ctr_running \/ usb_event_reg THEN 0
           ELSE IF timestamp_ctr < FULL THEN timestamp_ctr + 1
           ELSE timestamp_ctr

TimestampCounter ==
  /\ ctr_running' = (capture_enable /\ (usb_event_reg \/ ctr_running))
  /\ timestamp_ctr' = NextCtr
  /\ timestamp' = IF ~ctr_running THEN 0
                  ELSE IF usb_event_reg THEN timestamp_ctr ELSE timestamp
  /\ timestamp_reg' = timestamp

WriteEntry ==
  /\ O_data_wr' = (state # IDLE)
  /\ O_command' = IF state = DATA THEN (IF rx2 THEN DATA ELSE STAT)
                  ELSE IF state = TIME THEN TIME
                  ELSE O_command

\* arm is the rising edge of the synchronised I_arm.
CountEntries(arm) ==
  capture_count' = IF arm THEN 0
                   ELSE IF O_data_wr THEN (capture_count + 1) % COUNT_MOD
                   ELSE capture_count

(***************************************************************************)
(* The neighbours.  The FIFO's full and overflow_blocked flags rise only   *)
(* behind a write.  pw_trigger.v raises the capture enable on a match (en) *)
(* when the capture can start, and drops it after capture_done.            *)
(***************************************************************************)
Neighbours(en, stop) ==
  /\ UNCHANGED <<capture_len, timestamps_disable>>
  /\ wr_en' = O_data_wr
  /\ fifo_stop' = stop
  /\ stop => fifo_stop \/ O_data_wr \/ wr_en
  /\ capturing_r' = capture_allowed
  /\ capture_enable' = en
  /\ capture_enable => en = (capture_allowed \/ ~capturing_r)
  /\ ~capture_enable /\ en =>
       ~stop /\ (capture_len = 0 \/ capture_count' < capture_len)

(***************************************************************************)
(* History.  An event is due an entry if capture is allowed in the cycle   *)
(* usb_event_reg is high; the host (usb.py, split_data) adds up TIME       *)
(* entries and one more than each short timestamp.                         *)
(***************************************************************************)
Fate == IF ~usb_event_reg THEN "none"
        ELSE IF ~capture_allowed THEN "missed"
        ELSE IF last_captured THEN "next" ELSE "first"

HostStat == IF O_data_wr /\ O_command # TIME THEN stat3 ELSE host_stat
HostSynced == CASE due3 \in {"first", "next"} -> TRUE
                [] due3 = "missed"            -> FALSE
                [] OTHER                      -> host_synced

History(usb_event) ==
  /\ since' = IF usb_event THEN 1
              ELSE IF ~ctr_running /\ ~usb_event_reg THEN MaxIdle
              ELSE IF since < MaxIdle THEN since + 1 ELSE since
  /\ gap1' = IF usb_event THEN since ELSE 0
  /\ gap2' = (IF Fate = "next" THEN gap1 ELSE 0)
  /\ gap3' = gap2
  /\ due2' = Fate /\ due3' = due2
  /\ last_captured' = IF usb_event_reg THEN capture_allowed
                      ELSE last_captured /\ capture_enable
  /\ acc' = IF ~O_data_wr THEN acc
            ELSE IF O_command = TIME THEN acc + O_time ELSE 0
  /\ host_stat' = HostStat
  /\ host_synced' = HostSynced

\* While the counter runs the bus is not idle for longer than MaxIdle.
Tick(rx, st, arm, en, stop) ==
  LET usb_event == rx \/ st # stat1 IN
  /\ usb_event \/ since < MaxIdle \/ ~ctr_running
  /\ CountEntries(arm)
  /\ Neighbours(en, stop)
  /\ Pipeline(rx, st, usb_event)
  /\ Fsm(usb_event)
  /\ TimestampCounter
  /\ WriteEntry
  /\ History(usb_event)

Next == \E rx, arm, en, stop \in BOOLEAN, st \in Stat : Tick(rx, st, arm, en, stop)

Spec == Init /\ [][Next]_vars

---------------------------------------------------------------------------
\* The types; the counters keep their widths.
TypeOK ==
  /\ {rx1, rx2, usb_event_reg, ctr_running, O_data_wr, capture_enable,
      capturing_r, fifo_stop, wr_en, last_captured, host_synced,
      timestamps_disable} \subseteq BOOLEAN
  /\ {stat1, stat2, stat3, host_stat} \subseteq Stat
  /\ {state, state_r, state_r2} \subseteq {IDLE, DATA, TIME}
  /\ {timestamp_ctr, timestamp, timestamp_reg} \subseteq 0 .. FULL
  /\ O_command \in {DATA, STAT, TIME}
  /\ capture_count \in 0 .. COUNT_MOD - 1 /\ capture_len \in CaptureLens
  /\ since \in 1 .. MaxIdle /\ {gap1, gap2, gap3} \subseteq 0 .. MaxIdle
  /\ {due2, due3} \subseteq {"none", "missed", "first", "next"}
  /\ acc \in 0 .. 2 * FULL

(***************************************************************************)
(* No event is lost and none is invented: what is written as DATA or STAT  *)
(* in a cycle is the event that reached the end of the pipeline there.     *)
(***************************************************************************)
EntryPerEvent ==
  (O_data_wr /\ O_command # TIME) <=> due3 \in {"first", "next"}

(***************************************************************************)
(* The host's clock is exact: TIME entries and short timestamps add up to  *)
(* the number of fe_clk cycles between two captured events.                *)
(***************************************************************************)
HostTimeExact ==
  O_data_wr /\ O_command # TIME /\ due3 = "next" /\ ~timestamps_disable
    => acc + (O_time % SHORT) + 1 = gap3

(***************************************************************************)
(* Between the first and the last event of a capture the status lines, as  *)
(* the host rebuilds them from the entries, are the real ones.             *)
(***************************************************************************)
HostStatusCurrent == HostSynced => HostStat = stat3

(***************************************************************************)
(* fe_capture.v:142: because of the lag a capture may take one or two      *)
(* entries more than asked, never more.  The variables keep their types.   *)
(***************************************************************************)
OvershootAtMostTwo ==
  /\ TypeOK
  /\ capture_len > 0 => capture_count <= capture_len + 2
===========================================================================
