------------------------------ MODULE SniffFifo ------------------------------
(***************************************************************************)
(* The capture FIFO between the front end and the host:                    *)
(*   fe_capture.v  the end of a capture and the entries under way (fe_clk) *)
(*   reg_pw.v      FIFO writes, overflow_blocked (fe_clk); flush, FIFO     *)
(*                 reads, the empty-read marker, CAPTURE_DONE (usb_clk)    *)
(*   usb_reg_main.v  the byte counter behind a read                        *)
(*   usb.py        read_capture_data(), which reads bursts until the last  *)
(*                 entry of one says CAPTURE_DONE and EMPTY                *)
(*   fifo_generator_0  the Xilinx FIFO (external)                          *)
(* The entries of a capture are numbered from 1; 0 is one that an earlier  *)
(* capture left behind.  When the ARM bit is set and cleared again is the  *)
(* business of CaptureControl.tla: here it is what that module allows.     *)
(***************************************************************************)
EXTENDS Naturals, Sequences

CONSTANTS
  Setups,        \* capture lengths, FIFO sizes and bursts, [len, depth, threshold, burst]
  FIFO_LATENCY,  \* edges of usb_clk before a write is seen by the reader
  STRM           \* what a read of an empty FIFO returns

ASSUME SniffFifoAssumption ==
  /\ \A s \in Setups : /\ s.len \in Nat \ {0} /\ s.burst \in Nat \ {0}
                       /\ s.depth \in Nat /\ s.threshold \in 1 .. (s.depth - 1)
  /\ FIFO_LATENCY \in Nat \ {0} /\ STRM \notin Nat

VARIABLES
  setup,                     \* in Setups, never changes
  \* fe_clk
  enable, capturing_r,       \* O_capture_enable of pw_trigger.v
  in_data, data_wr, count,   \* fe_capture.v: state, O_data_wr, capture_count
  wr_en, din, overflow_blocked,
  arm_pipe,                  \* reg_arm_pipe, reg_arm_feclk, newest first
  \* the FIFO
  fifo,                      \* what it holds, oldest first: entry and age
  prog_full,
  \* usb_clk
  reg_arm, reg_arm_r, flushing,
  capturing_pipe, overflow_pipe,  \* three flops each, newest first
  empty_r, empty_fifo_read, dout,
  bytecnt, rd_dly,           \* reg_bytecnt % 4, rdflag_rs_dly
  \* the host
  left,                      \* entries still to read in this burst
  first_byte,                \* byte 0 of the entry being read
  got,                       \* the entries received, empty reads filtered out
  finished,                  \* read_capture_data() has returned
  warned,                    \* with "FIFO overflowed, capture stopped."
  \* environment and history
  started,                   \* the armed capture has begun
  usb_edges, lost            \* lost: an entry was refused

feVars == <<enable, capturing_r, in_data, data_wr, count, wr_en, din,
            overflow_blocked, arm_pipe>>
usbVars == <<reg_arm, reg_arm_r, flushing, capturing_pipe, overflow_pipe,
             empty_r, empty_fifo_read, dout, bytecnt, rd_dly>>
hostVars == <<left, first_byte, got, finished, warned>>
vars == <<feVars, fifo, prog_full, usbVars, hostVars, started, usb_edges, lost,
          setup>>

---------------------------------------------------------------------------
(* Wires.  A definition whose name says what is wrong with it is a slip of *)
(* the one that follows it; the README says which property each breaks.    *)
CAPTURE_LEN == setup.len      \* entries the host asks for
DEPTH == setup.depth          \* entries the FIFO holds, 8192
THRESHOLD == setup.threshold  \* entries at which prog_full rises, 8188
BURST == setup.burst          \* entries in a burst of reads, burst_size

sniff_fifo_full == Len(fifo) >= DEPTH
sniff_fifo_empty == fifo = <<>> \/ Head(fifo).age < FIFO_LATENCY
capture_allowed ==
  enable /\ count < CAPTURE_LEN /\ ~sniff_fifo_full /\ ~overflow_blocked
O_arm == reg_arm /\ reg_arm_r /\ ~flushing
capture_done == ~(reg_arm \/ capturing_pipe[3])

ReadAlthoughEmpty(read) == read /\ bytecnt = 0 /\ ~empty_fifo_read
ReadAlthoughMarked(read) == read /\ ~empty_r /\ bytecnt = 0
fifo_read_condition(read) == read /\ ~empty_r /\ bytecnt = 0 /\ ~empty_fifo_read
fifo_flush_condition == flushing /\ ~sniff_fifo_empty
rd_en(read) == fifo_read_condition(read) \/ fifo_flush_condition

fifo_read_data == IF empty_fifo_read THEN STRM ELSE dout

Old == [entry |-> 0, age |-> FIFO_LATENCY]

Init ==
  /\ setup \in Setups
  /\ enable = FALSE /\ capturing_r = FALSE /\ in_data = FALSE /\ data_wr = FALSE
  /\ count = 0 /\ wr_en = FALSE /\ din = 0 /\ overflow_blocked \in BOOLEAN
  /\ arm_pipe = <<FALSE, FALSE, FALSE>>
  /\ fifo \in {<<>>, <<Old>>} /\ prog_full = (Len(fifo) >= THRESHOLD)
  /\ reg_arm = FALSE /\ reg_arm_r = FALSE /\ flushing = FALSE
  /\ capturing_pipe = <<FALSE, FALSE, FALSE>>
  /\ overflow_pipe = [i \in 1 .. 3 |-> overflow_blocked]
  /\ empty_r = (fifo = <<>>) /\ empty_fifo_read \in {empty_r, FALSE} /\ dout = 0
  /\ bytecnt = 0 /\ rd_dly = FALSE
  /\ left = 0 /\ first_byte = 0 /\ got = <<>> /\ finished = TRUE /\ warned = FALSE
  /\ started = FALSE /\ usb_edges = 0 /\ lost = FALSE

Pushed(pipe, in) == <<in, pipe[1], pipe[2]>>

---------------------------------------------------------------------------
(* fe_clk                                                                  *)

\* The ARM bit is down, on both sides, long before a capture can fill the FIFO to
\* the threshold: thousands of entries against some ten cycles.
FillsAfterDisarm(event) ==
  event /\ (reg_arm \/ arm_pipe # <<FALSE, FALSE, FALSE>>) => count + 3 < THRESHOLD

\* A prog_full of the capture before has fallen: to empty the FIFO the flush has read
\* thousands of entries below the threshold.
FullFellWithFlush(start) == start => ~prog_full

Capture(event, start) ==
  /\ start => O_arm /\ ~started
  /\ FullFellWithFlush(start)
  /\ FillsAfterDisarm(event)
  /\ started' = (started \/ start)
  /\ enable' = (start \/ (enable /\ (capture_allowed \/ ~capturing_r)))
  /\ capturing_r' = capture_allowed
  /\ in_data' = (event /\ capture_allowed)
  /\ data_wr' = in_data
  /\ count' = IF data_wr THEN count + 1 ELSE count

WriteUnlessFull == wr_en' = (data_wr /\ ~sniff_fifo_full)
WriteUnlessThreshold == wr_en' = (data_wr /\ ~prog_full)

DropUnnoted == FALSE
DropNoted == data_wr /\ prog_full

WriteFifo ==
  /\ WriteUnlessThreshold
  /\ din' = IF wr_en' THEN count + 1 ELSE din
  /\ overflow_blocked' = (DropNoted \/ (overflow_blocked /\ ~arm_pipe[3]))
  /\ arm_pipe' = Pushed(arm_pipe, reg_arm)
  /\ lost' = (lost \/ (data_wr /\ prog_full))

\* The write port; prog_full rises with a write and falls some time after reads.
FifoWrite(falls) ==
  /\ fifo' = IF wr_en /\ ~sniff_fifo_full
             THEN Append(fifo, [entry |-> din, age |-> 0]) ELSE fifo
  /\ prog_full' = IF Len(fifo') >= THRESHOLD THEN TRUE ELSE (prog_full /\ ~falls)

FeTick(event, start, falls) ==
  /\ usb_edges > 0 /\ usb_edges' = 0
  /\ Capture(event, start)
  /\ WriteFifo
  /\ FifoWrite(falls)
  /\ UNCHANGED <<usbVars, hostVars, setup>>

---------------------------------------------------------------------------
(* usb_clk                                                                 *)

\* CAPTURE_DONE, the front end has settled and the host has stopped reading.
HostMayArm ==
  /\ finished /\ left = 0 /\ capture_done /\ ~reg_arm_r /\ ~capturing_r /\ ~enable
  /\ ~in_data /\ ~data_wr /\ ~wr_en /\ ~rd_dly
  /\ arm_pipe = <<FALSE, FALSE, FALSE>>
  /\ \A i \in 1 .. Len(fifo) : fifo[i].age = FIFO_LATENCY

\* It reads in a later transfer than the one that arms: the flush is over.
HostMayRead ==
  ~rd_dly /\ (left > 0 \/ (~finished /\ ~flushing /\ reg_arm_r = reg_arm))

\* ARM is cleared for a capture that has started, once the capturing flag is up
\* or the capture is over, and before its first entry shows.
MayDisarm == started /\ reg_arm /\ (capturing_pipe[3] \/ ~enable)
MustDisarm == started /\ reg_arm /\ fifo # <<>> /\ Head(fifo).age + 1 >= FIFO_LATENCY

Older(s) ==
  [i \in DOMAIN s |-> [s[i] EXCEPT !.age = IF @ < FIFO_LATENCY THEN @ + 1 ELSE @]]

\* The read port: one entry leaves, the others grow older; arming makes what is
\* there the leftover of an earlier capture.
FifoRead(read, arm) ==
  LET taken == rd_en(read) /\ ~sniff_fifo_empty
      rest  == Older(IF taken THEN Tail(fifo) ELSE fifo)
  IN  /\ dout' = IF taken THEN Head(fifo).entry ELSE dout
      /\ fifo' = IF arm THEN [i \in DOMAIN rest |-> Old] ELSE rest

MarkNeverCleared(read) ==
  empty_fifo_read' = (empty_fifo_read \/ (read /\ bytecnt = 0 /\ empty_r))
MarkEmptyRead(read) ==
  empty_fifo_read' = IF read /\ bytecnt = 0 /\ empty_r THEN TRUE
                     ELSE IF read /\ bytecnt = 3 /\ ~empty_r THEN FALSE
                     ELSE empty_fifo_read

Arming(arm, disarm) ==
  /\ arm => HostMayArm
  /\ disarm => MayDisarm
  /\ MustDisarm => disarm
  /\ reg_arm' = (arm \/ (reg_arm /\ ~disarm))
  /\ reg_arm_r' = reg_arm
  /\ flushing' = (~sniff_fifo_empty /\ (flushing \/ reg_arm))
  /\ started' = (started /\ ~arm) /\ lost' = (lost /\ ~arm)
  /\ count' = IF arm THEN 0 ELSE count

\* read_capture_data(): what it does with the byte it samples, a cycle after the
\* read; a new burst follows one that did not end the capture.
Receive ==
  LET last == bytecnt = 2 /\ left = 1 IN
  /\ first_byte' = IF bytecnt = 0 THEN fifo_read_data ELSE first_byte
  /\ got' = IF bytecnt = 2 /\ fifo_read_data # STRM
            THEN Append(got, IF first_byte = fifo_read_data THEN first_byte ELSE STRM)
            ELSE got
  /\ left' = IF bytecnt = 3 THEN left - 1 ELSE left
  /\ finished' = (finished \/ (last /\ capture_done /\ sniff_fifo_empty))
  /\ warned' = (warned \/ (last /\ capture_done /\ sniff_fifo_empty /\ overflow_pipe[3]))

Host(read, arm) ==
  /\ read => HostMayRead /\ ~arm
  /\ IF rd_dly THEN Receive
     ELSE IF arm
     THEN /\ got' = <<>> /\ finished' = FALSE /\ warned' = FALSE
          /\ UNCHANGED <<left, first_byte>>
     ELSE /\ left' = IF read /\ left = 0 THEN BURST ELSE left
          /\ UNCHANGED <<first_byte, got, finished, warned>>
  /\ rd_dly' = read
  /\ bytecnt' = IF rd_dly THEN (bytecnt + 1) % 4 ELSE bytecnt

UsbTick(read, arm, disarm) ==
  /\ usb_edges < 2 /\ usb_edges' = usb_edges + 1
  /\ Arming(arm, disarm)
  /\ capturing_pipe' = Pushed(capturing_pipe, capture_allowed)
  /\ overflow_pipe' = Pushed(overflow_pipe, overflow_blocked)
  /\ FifoRead(read, arm)
  /\ empty_r' = sniff_fifo_empty
  /\ MarkEmptyRead(read)
  /\ Host(read, arm)
  /\ UNCHANGED <<enable, capturing_r, in_data, data_wr, wr_en, din,
                 overflow_blocked, arm_pipe, prog_full, setup>>

FeStep == \E event, start, falls \in BOOLEAN : FeTick(event, start, falls)
UsbStep == \E read, arm, disarm \in BOOLEAN : UsbTick(read, arm, disarm)
Next == FeStep \/ UsbStep

Spec == Init /\ [][Next]_vars

(***************************************************************************)
(* Both clocks run; read_capture_data() reads on until it returns; ARM is  *)
(* cleared by the capture that has started (CaptureControl, MatchDisarms). *)
(***************************************************************************)
FairSpec ==
  /\ Spec /\ WF_vars(FeStep) /\ WF_vars(UsbStep)
  /\ SF_vars(\E arm, disarm \in BOOLEAN : UsbTick(TRUE, arm, disarm))
  /\ SF_vars(\E read, arm \in BOOLEAN : UsbTick(read, arm, TRUE))

---------------------------------------------------------------------------
\* The types; no more than two entries beyond the asked ones are ever counted.
TypeOK ==
  /\ count \in 0 .. CAPTURE_LEN + 2 /\ din \in 0 .. CAPTURE_LEN + 2
  /\ \A i \in DOMAIN fifo : fifo[i].entry \in 0 .. CAPTURE_LEN + 2
                              /\ fifo[i].age \in 0 .. FIFO_LATENCY
  /\ left \in 0 .. BURST /\ bytecnt \in 0 .. 3
  /\ {reg_arm, reg_arm_r, flushing, empty_r, empty_fifo_read, rd_dly, finished,
      warned, lost, overflow_blocked, prog_full} \subseteq BOOLEAN

\* The entry that has left the FIFO and whose third byte is still to be sampled.
InHand ==
  IF ~empty_fifo_read /\ (bytecnt \in {1, 2} \/ (bytecnt = 0 /\ rd_dly))
  THEN <<dout>> ELSE <<>>

\* What is in the FIFO or at its write port once the capture has begun: from then
\* on nothing else may be in it.
InFifo ==
  IF started
  THEN [i \in DOMAIN fifo |-> fifo[i].entry] \o IF wr_en THEN <<din>> ELSE <<>>
  ELSE <<>>

(***************************************************************************)
(* Without an overflow every captured entry is in exactly one place, in    *)
(* the order of capture: received, in the host's hand, in the FIFO or at   *)
(* its write port.  Reads of an empty FIFO, however they fall between the  *)
(* writes, take nothing away, and nothing of an earlier capture comes.     *)
(***************************************************************************)
EachEntryOnce ==
  ~lost => got \o InHand \o InFifo = [i \in 1 .. count |-> i]

(***************************************************************************)
(* Underflow protection (usb.py:260): the read strobe never meets an empty *)
(* FIFO, although it is guarded by last cycle's empty flag.                *)
(***************************************************************************)
NoUnderflow == HostMayRead /\ rd_en(TRUE) => ~sniff_fifo_empty

(***************************************************************************)
(* reg_pw.v:397: the FIFO is not overflowed, back-to-back writes included, *)
(* and the variables keep their types.                                     *)
(***************************************************************************)
NoOverflow ==
  /\ TypeOK
  /\ wr_en => ~sniff_fifo_full

(***************************************************************************)
(* read_capture_data() that returns without the overflow warning returns   *)
(* an unbroken beginning of the capture.                                   *)
(***************************************************************************)
UnwarnedIsUnbroken == finished /\ ~warned => \A i \in DOMAIN got : got[i] = i

(***************************************************************************)
(* usb.py:307, "FIFO overflowed, capture stopped.": what is received is a  *)
(* beginning of the capture, nothing follows an entry that was refused.    *)
(***************************************************************************)
NothingAfterOverflow == \A i \in DOMAIN got : got[i] = i

(***************************************************************************)
(* usb.py:260, "all of the captured data": when read_capture_data()        *)
(* returns, the capture is over and every entry has been received.         *)
(***************************************************************************)
DoneMeansAllRead ==
  finished /\ started => ~in_data /\ ~data_wr /\ Len(got) = count

\* A capture that has filled its length is read to its end.
HostFinishes == (started /\ count >= CAPTURE_LEN) ~> finished
=============================================================================
