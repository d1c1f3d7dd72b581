# PhyWhisperer-USB: TLA+ models, checks and proofs

PhyWhisperer-USB sits on a USB line, waits for a byte pattern, and then records
the bus and drives trigger pins. An FPGA does the work; a microcontroller carries
register accesses to it; a Python library programs and reads it. This directory
holds TLA+ models of the parts where the difficulty is, the TLC configurations
that check them on small instances, and proofs checked by TLAPS.

Paths are those of the repository; `hal/` is `src/firmware/hal/`, `hdl/` is `src/hardware/fpga/hdl/`, `usb.py` is
`src/software/phywhisperer/usb.py`.

## 1. Inventory

| part | source | state it keeps | operations | modelled in |
|---|---|---|---|---|
| pulse crossing | `hdl/cdc_pulse.v` | request and acknowledge flops, edge detector | accept a pulse, deliver it, reset | `CdcPulse`, `PulseChannel` |
| front end | `hdl/fe_capture.v` | input pipeline, FSM, timestamp counter, entry count | one edge of fe_clk | `FeCapture` |
| arming, match, capture | `hdl/reg_pw.v`, `pw_pattern_matcher.v`, `pw_trigger.v`, `fe_capture.v` | ARM bit, flush, shift register of the matcher, delay counter, capture enable, count | arm, match, start, end, disarm | `CaptureControl` |
| capture FIFO and its reading | `hdl/reg_pw.v`, `usb_reg_main.v`, `usb.py` | FIFO, overflow flag, marker of empty reads, byte counter; the host's buffer | write, refuse, read, flush, return | `SniffFifo` |
| speed detection | `hdl/usb_autodetect.v` | FSM, timer, announced speed | one edge of fe_clk, restart | `UsbAutodetect` |
| trigger output | `hdl/pw_trigger.v`, `usb.py` | pulse FSM, its counters, 8 delays and widths | one edge of trigger_clk, `set_trigger()` | `PwTrigger` |
| STAT monitor | `hdl/reg_pw.v:355-379` | match flag, update crossing | match, clear | not modelled |
| register bus | `hdl/usb_reg_main.v`, `reg_pw.v` | address, byte counter, plain registers | byte reads and writes | where `SniffFifo` needs it |
| host library | `usb.py` | mirrors of some registers, a thread | configure, arm, wait, read, close | `set_trigger`, `read_capture_data` in the modules above |
| host transport | `interface/naeusb.py` | none that outlives a call | control and bulk transfers | `Firmware` |
| USB control endpoint | `hal/sam3u1c/udphs_device.c`, `udc.c` | state of endpoint 0, payload counters, callback | SETUP, packets, ISR events, reset | `UsbControl`, `ControlPipe` |
| USB bulk endpoints | `udphs_device.c`, `udc.c`, `udi_vendor.c`, `usb.c` | a job per endpoint, DMA channel, banks, configuration | run, abort, free, alloc, halt, configure, reset | `UsbEndpoints` |
| firmware: memory access | `firmware/phywhisperer/usb.c`, `usb_xmem.c` | lock, address, bulk block flag, buffer of the data stage | four requests, programming, their callbacks | `VendorRequests`, `Firmware` |
| firmware: power | `main.c`, `usb.c` | power state, two pins | button, request | `PowerControl`, `Firmware` |
| packet parser | `protocol.py` | pending bytes and timestamps | take a chunk | not modelled |
| top level, clocks | `hdl/phywhisperer_top.v` | none of its own | wiring | not modelled: no logic |
| programming and boot | `interface/program_fpga.py`, `fpga_program.c` | none that outlives a call | shift a bitstream | its requests in `Firmware`; the rest is sequential I/O |
| board, vendor code, notebooks | `hardware/altium_source`, the rest of `firmware/hal`, `hardware/fpga/vivado` | | | not modelled: not this project's logic |

How they interact. There are four clocks: `fe_clk` (60 MHz, from the PHY),
`trigger_clk` (four times `fe_clk`, derived from it), `usb_clk` (the controller's
bus, about 100 MHz) and the host's own time. Pulses cross by `cdc_pulse.v`; levels
cross by flops in a row; data crosses in the FIFO. The host sets ARM. The matcher
then looks at the bytes, raises a match, and `pw_trigger.v` enables the capture
after a delay. The front end writes entries into the FIFO until its count is
reached or the FIFO refuses one. The start of the capture clears ARM, by a pulse
back to `usb_clk`. The host polls ARM and reads the FIFO until an entry says
CAPTURE_DONE and EMPTY.

Between the two sits the firmware. Each access of the library is a control
transfer (which register, how long) and often a second transfer with the data.
Everything the firmware does for it happens in one interrupt routine: endpoint 0
first, then the DMA of the bulk endpoints, then the bus reset. A vendor
request registers a callback, which the driver calls when the request has ended.
Only the power button is handled in the main loop.

What is hard. Every flag the host reads is an old value of another clock's
flag, each with its own lag (ARM by a pulse crossing, the capturing flag by three
flops, the EMPTY flag by the FIFO). Counters, matcher and enables are reset by
different events in different clocks, so a second capture begins with what the
first left behind. Timestamps saturate, reads overlap writes, and the order
of two edges is never written in a test: `hdl/` is simulated with fixed clock
ratios. In the firmware, the host may stop in any stage of a transfer and begin
another, an acknowledgement may be lost, a reset may fall between a request and
its callback, and the two halves of an access find whatever the last one left.
PROJECT.json lists the hazards one by one, at their lines.

What makes each part correct, in a sentence:

* crossing: each accepted pulse is delivered once, as one pulse;
* front end: one entry per event, with its own status and the exact time since
  the last;
* control: a capture starts for a match of its own arming and only once; DONE is
  not seen while it runs; nothing stale is matched, nothing fresh is flushed;
* FIFO: every captured entry reaches the host once, in order, or the host is told;
* detection: a speed is announced only if the lines have shown it, and stays;
* trigger: the pulses are the programmed ones, to the cycle, and they end;
* control endpoint: a request the host was told is done is executed once, and
  every request ends;
* bulk endpoints: a configured device always listens, and no data is lost or
  counted twice;
* memory access: a register holds what was last written to it, and the lock
  never stays taken;
* power: never two supplies at once, and the one that was asked for.

## 2. Plan

Order, with what each module composes:

1. `PulseChannel`, `CdcPulse` (done): what is promised and what is built; a
   refinement, model-checked and proved.
2. `FeCapture` (done, proved), checked against what the host reconstructs from entries.
3. `CaptureControl` (done, proved): four HDL modules and, by INSTANCE, the step of
   `CdcPulse` over its own flops, because the lag of the crossing matters there.
4. `SniffFifo` (done, proved): FIFO, register side and host together.
5. `UsbAutodetect`, `PwTrigger` (done, proved).
6. `ControlPipe`, `UsbControl` (done, proved): what the firmware is written for and the
   driver that implements it; a refinement.
7. `UsbEndpoints` (done, proved): bulk endpoints, from configuration to DMA.
8. `PowerControl`, `VendorRequests`, `Firmware` (done, proved): the firmware above the
   control pipe, with the library's calls and the button.

Left for later, in this order: the host's session (`run_capture()`, its thread,
`close()`, timeouts) over an abstract one-shot capture device; the STAT monitor
over `PulseChannel`.

Every invariant a run checks is now a theorem as well. What is left to prove is
liveness, which is out of the prover's reach (section 6).

## 3. The modules

In each module one action is one edge of a clock (or one call of the host). The
order of the edges is free unless said otherwise. A definition placed before
another with a telling name (`busyUntilAck` before `busy`) is a slip a programmer
might make there. It is used by no specification. Section 5 says what each breaks.

### CdcPulse, PulseChannel (proofs in PwTriggerProofs)

`SrcTick(p)`, `DstTick`, `BothTick(p)`: edges of one clock, or of both at once, with
`p` on the source's input. `AssertReset` and `ReleaseReset`: `reset_i` of the top
level, which is `fpga_reset`; it stays up until both domains had an edge. Every
flop of the source is a variable; `SYNC_STAGES` is `pSYNC_STAGES`. `PulseChannel`
is the abstract specification: at most one pulse in flight, delivered as one pulse
or lost to a reset only. The refinement mapping is in `CdcPulse`: a pulse is in
flight from the source's request until the destination's edge detector has seen it.

### FeCapture, FeCaptureProofs

One action, `Tick`: input pipeline, FSM, timestamp counter, entry register, count.
Its neighbours are reduced to what they can do: `capture_enable` rises when a capture
can start and falls after capture_done; the FIFO's flags rise only behind a
write. The byte is left out: it passes through the same flops as the status, which
is there. History variables compute, from the entries alone and by the rule of
`usb.py` (`split_data`), the time and the status the host will see. RESET is not
modelled; it puts the module in its initial state.

### CaptureControl, CaptureControlProofs

`FeTick(event, arm)` is an edge of `fe_clk`: matcher, delay, enable, entries, count;
`UsbTick(write, drained)` one of `usb_clk`: ARM, flush, the flags' synchronisers,
the destination half of the crossing. The matcher's own arm flops run on the 4x
clock, so `arm` is ARM's old or new value. `usb_clk` has one or two edges per edge
of `fe_clk`: the constraints file gives 10 ns and 16 ns. A `setup` is chosen at the start:
pattern, length, delay, and the distance of two bytes (40 cycles at full
speed, 1 at high speed). The history variables `matched`, `captured` and `recent`
relate to the present arming. `Timely` is the condition under which the arming works as
described: ARM is down before the next byte (`DisarmedInTime`) or before the
capture is over (`OutlastsDisarming`), and the FIFO takes four edges or more to show an
entry. The mask is all ones. Timestamps are left to `FeCapture`. The FIFO never fills here:
`capture_allowed` is without `!I_fifo_full & !I_fifo_overflow_blocked` (`fe_capture.v:293`),
which end a capture early. A capture they end is like one of that length; what becomes
of its entries is `SniffFifo`'s.

### SniffFifo, SniffFifoProofs

The end of the capture in `fe_clk` (`FeTick`), and in `usb_clk` (`UsbTick`) the
flush, the four-byte read with its marker, the flags and, on the far side, the
loop of `read_capture_data()`: a burst of reads, byte by byte, the end decided by
the flags of the last entry's third byte. Entries of a capture have numbers; 0 is
a leftover. The Xilinx FIFO is external: a queue with a latency from write
to read port, `prog_full` rising at once and falling at any later time, but before the
next capture begins: the flush empties the FIFO, thousands of entries below the
threshold (`FullFellWithFlush`). When ARM rises and falls is what `CaptureControl` shows.
The read loop has no timeout here and waits as long as it takes. Assumed: the threshold is below the depth (8188 of
8192), and a write is not seen by the reader at the very edge it is made.

### UsbAutodetect, UsbAutodetectProofs

`Tick(line, deliver)`: any of the four line states, with or without the restart
pulse, at each edge. `SetUsbModeAuto`: the host asks, and the pulse is on its way.
`seen` records the runs of equal lines since the FSM was idle.

### PwTrigger, PwTriggerProofs

`Tick(match)`: the pulse FSM at an edge of `trigger_clk`, with the registers as they
were one edge earlier. `Call`, `WriteDelay`, `WriteWidth`, `WriteNum`, `Enable`:
`set_trigger()`, one register at a time, at any moment, with the exceptions it
raises in between. A register of several bytes is written in one step. `emitted`
is what the pin did since the match.

### UsbControl, ControlPipe, UsbControlProofs

`ep` is endpoint 0: the hardware's flags and the driver's variables, one field
each. The driver's routines are functions from one `ep` to the next, under the
names they have in `udphs_device.c` without their prefix. The ISR takes two
steps: `Interrupt` reads the flags and picks the event, `Handle` runs the routine,
and the host's tokens may come in between, as they do. `Host...` are the host
controller and the hardware's answers: a token is NAKed, stalled or taken,
an ACK may be lost (the device then repeats the packet, the host drops it),
a stage may be cut short, a request given up, the bus reset. Data are
counted in units; two make a packet. What a request asks for and what the
firmware makes of it is a constant (`Requests`).

`ControlPipe` is what the firmware above relies on: a registered callback is called
once, before the next one is registered, and only a reset takes it away.
`owed` records what the host knows of a request with a callback that was not
called yet.

Assumed: the ISR is quicker than the host's abort and next SETUP, as the comment
at `udphs_device.c:1420` asks for (`HostSetup` waits for `isr` to be done); a
SETUP has eight bytes; no `over_under_run` (this firmware sets none). The payload of an OUT
request the firmware accepts is what the host announces, up to the buffer of a packet:
`main_setup_out_received()` sets it so.

### UsbEndpoints, UsbEndpointsProofs

`inp` and `out` are the endpoints: hardware, DMA channel and job in a record each.
An ISR, with the callbacks it calls, is one action; DMA and bus move between
actions. `SetConfiguration`, `SetInterface`, `SetHalt...`, `ClearHaltIn`, `ReadMem`
are what a SETUP or its callback does; `EpInterrupt...` a DMA event; `ResetInterrupt`
the reset branch of the ISR. The callback of the OUT job runs the next job, aborted or
not, so each abort and free goes through it. `FreeOut` disables the endpoint and then
aborts: that order is what keeps the next job from being started on it.

Assumed: the DMA channel of a disabled endpoint stops (`udd_ep_free` does not
stop it); the host halts only endpoints it has configured, and selects only setting 0
of the interface (it has no other); the endpoints are allocated in the order of
the descriptor, so `udd_ep_alloc` never re-runs a running job; whether a halt
condition outlives a new configuration is left open (`keepStall`). Zero-length reads and
data toggles are left out. `Held` is the sum of what the banks of an endpoint hold.

### PowerControl, VendorRequests, Firmware, FirmwareProofs

`VendorRequests` has what a SETUP, a callback and the end of a bulk job do to the
firmware's state `fw` and to the FPGA's registers, as functions. `Firmware` sends them
over the control pipe (`Pipe`, an instance of `ControlPipe` whose actions are conjoined)
and the bulk endpoints. A call of the library is the list of its transfers;
one call is under way at a time, `TimesOut` ends it between any two steps, `BusReset`
at any moment. A stage of a control transfer is an action: `SetupOut`,
`DataStage`, `StatusStage`, `Callback`. The callback may come late, with the next SETUP
(`Settled`), as `UsbControl` shows. A bulk read samples its register packet by
packet, ahead of the host (`PacketTaken`).

`expect` is what a register may hold for all the host knows: while a write is under
way, or after it timed out or a reset ended it, the old or the new value; after the last
acknowledgement of a write, its value alone. `told` says that the host has been told of
a request whose callback is still to come. `doubtful` holds the registers of which
`MemoryAsAsked` says nothing until the host has completed another write to them. A
register gets there in three ways, each of which the code allows (section 7):

* the next SETUP calls the callback of a control write that was given up before its
  data, which writes what the buffer holds from an older request (`Replays`);
* bulk data arrive before the callback of their request: the register at the old address
  and the one that was meant (`Misplaced`);
* a bus reset drops the callback of a control write the host was told is done (`LostWrite`).

The other registers are held to `expect` all the while. A bulk read that finds the job
of a given-up one under way (`leftover`) is left out of `MemoryAsAsked` too. What those
cases break is stated by properties of their own, each with a configuration in which TLC
finds it violated.

`PowerControl` takes each access of the main loop to the pins as a step, since the
request runs in the interrupt and may come between any two.

Assumed: a bulk interrupt that is due is served before a second SETUP (`Turn`)
and before a timeout; one thread on the host, whose programs are sets of the library's calls
(`Operation`).

## 4. The runs

| run | instance | distinct states | what it asks |
|---|---|---|---|
| `cdc_pulse` | 2 stages, as every instance in `hdl/` | complete | implements the channel; every pulse arrives; busy ends |
| `fe_capture` | SHORT 6, FULL 8, count mod 5, lengths 0 and 1, gaps up to 9 | complete | one entry per event, exact time, own status, overshoot |
| `capture_control` | four setups, two bytes, FIFO latency 4 | 241 310 | starts, freshness, DONE, flush, disarming |
| `sniff_fifo` | 2 entries of 6 with bursts of 2; 4 entries over a FIFO of 3 | 264 713 | each entry once; underflow, overflow, warning; the loop ends |
| `usb_autodetect` | waits of 3 and 5, timer mod 8 | 8 537 | earned, stable, announced, never stuck |
| `pw_trigger` | 2 pulses' registers, four calls | 670 466 | pulses to the cycle, pin released |
| `usb_control` | packets of 2 units, 9 requests | 121 125 | executed once, served in full, ends; implements the pipe |
| `usb_endpoints` | packets of 2, 2 banks, buffer and DMA limit 4, reads of 1, 2, 5 | 9 946 | always listening, nothing lost, transfers end |
| `firmware` | 2 registers, 2 values, two host programs | 2 351 324 | the lock, the registers, the supply |
| `fe_long_gap_loss` | gaps up to 11 | violated | an event lost behind a long gap |
| `sniff_fifo_done` | 1 entry | violated | DONE and EMPTY before the last entry |
| `usb_control_abort` | as `usb_control` | violated | the callback of a request that was given up |

Why the bounds are enough.

* `SYNC_STAGES` = 2 is the only value the code uses; the proofs cover the others.
* `FeCapture`: a short timestamp field of 3 bits becomes a limit SHORT, and the full
  counter a limit FULL. What matters is their order and the cycles around them.
  SHORT must be at least 6, since a capture may begin with a counter of up to 5
  (checked by the ASSUME); `MaxIdle` is FULL + 1, so the limit itself and the
  saturating TIME entry occur. The count wraps at 5, beyond the overshoot of 2.
* `CaptureControl`: the setups are at the limits of `Timely`, which TLC found by
  counting down: a gap of delay + 10 cycles between bytes (9 violates `CaptureStartIsDue`),
  captures of 7 entries with back-to-back bytes (6 violates it, `CaptureShortRepeat.cfg`
  shows it with 1), and a FIFO latency of 4 (3 violates `FlushSparesCapture`; the built-in
  FIFO with independent clocks takes longer). At full speed the gap is 40, so delays of
  up to 30 cycles are `DisarmedInTime`. Delays 0 and 1 cover both branches of the delay
  counter. The proofs cover everything above the limits.
* `SniffFifo`: 2 entries and bursts of 2 make empty reads fall before, between and
  after entries. A threshold of 1 in 3 leaves room for the entries under way, as
  8188 in 8192 does. `FillsAfterDisarm` says that ARM falls long before a
  capture fills the FIFO to its threshold: about ten cycles against
  thousands of entries.
* `UsbAutodetect`: what matters of the waits is that they are positive, differ, and are
  below the timer's range; the proofs do without bounds.
* `PwTrigger`: 2 pulses have a first, a next and a last; delays 0, 1, 2 and widths
  1, 2, 3 reach both sides of every comparison, and one call raises half-way.
* `UsbControl`: the requests are an IN payload of less than a packet, of a packet, of
  more, and of a packet that is less than the host asked for (which needs a ZLP); OUT
  data of nothing, part of a packet, a packet and more than the buffer takes; a refused one.
  That is every branch of the driver. Nothing counts requests, so the host sends
  any number of them.
* `UsbEndpoints`: reads below, at and above a packet, and above the DMA's limit (5 of 4);
  the buffer of the OUT endpoint (two packets here, 1024 bytes in the code) is within the
  limit (65536), so only reads are moved in parts, as in the code.
* `Firmware`: two registers tell a right address from a stale one, two values an old
  content from a new one. The library's calls are split into two host programs
  (memory; power with writes) to keep the states apart that do not interact:
  their sum, not their product, is explored.

Fairness. Clocks run, so the edges are weakly fair; a pulse, a reset, a match or
a call never has to come. Beyond that: in `SniffFifo` the host, once it may read
again and again, reads (its loop has no other exit here), and a capture that has
started clears ARM, which `MatchDisarms` shows in `CaptureControl`; in
`UsbAutodetect` a restart pulse on its way arrives, which `Delivered` shows in
`CdcPulse`. In `UsbControl` the interrupt is served, and a host in a
request repeats its tokens, as a controller does until its driver gives up; it need
not give up, so that `RequestEnds` does not lean on a timeout. In `UsbEndpoints`
the DMA moves, the host reads what it asked for, and interrupts are served. Those
polled behind another (`EpInterruptOut`, `ResetInterrupt`) are strongly fair: the
first one cannot be due again each time the ISR is done, as a packet takes longer than the
ISR. `Firmware` states no fairness; its properties are safety.

Deadlock is checked in every run.

## 5. Properties and slips

For each property, the slip that breaks it under the configuration of its run.

| run | property | slip |
|---|---|---|
| cdc_pulse | IInv, ImplementsChannel | `NextReqWhenBusy`: a pulse is taken while the last one is on its way |
| | IdleMeansDelivered | `busyUntilAck`: free too early |
| | Delivered | `NextReqOneCycle`: the request does not wait for its acknowledge |
| | FreeAgain | `NextReqHeld`: the request is never taken back |
| fe_capture | EntryPerEvent | `short_timestamp_pre_late`: TIME not one cycle early |
| | HostTimeExact | `O_time_after_TIME_kept`: the old timestamp after a TIME entry |
| | HostStatusCurrent | `PipelineStatusEarly`: a flop missing on the status |
| | OvershootAtMostTwo | `capture_allowed_one_more` |
| capture_control | FreshAtFullSpeed | `BytesKept`: the matcher is not cleared at the end |
| | NothingMissedAtMatch | `CountNeverReset` |
| | CaptureStartIsDue | `EnableKeptAtDone` |
| | DoneMeansOver | `CapturingIfArmed`: the flag follows ARM |
| | FlushSparesCapture | `FlushWhileArmed` |
| | DisarmMeansCapture | `TakesByteUnarmed`: the matcher ignores ARM |
| | MatchDisarms | `PulseAtTheEnd`: disarmed by the end instead of the start |
| sniff_fifo | EachEntryOnce | `ReadAlthoughMarked`: an entry consumed by a read that began empty |
| | NoUnderflow | `ReadAlthoughEmpty` |
| | NoOverflow | `WriteUnlessFull`: no margin for the writes under way |
| | UnwarnedIsUnbroken | `DropUnnoted` |
| | HostFinishes | `MarkNeverCleared`: after one empty read all reads are |
| usb_autodetect | TypeOK | `FromHsDeaf`: K during the reset is not an error |
| | WaitNotMissed | `TimerKeptOnError`: the timer is not cleared in pS_IDLE |
| | SpeedIsEarned | `FromHsUntimed`: high speed without the wait |
| | DoneAnnounces | `AnnouncedLate`: announced for low speed only |
| | SpeedIsStable | `FromDoneUnasked` |
| | DetectionEnds | `FromErrorForGood` |
| pw_trigger | PulsesAsProgrammed | `CountFromZero` |
| | TriggerEnds | `SameIndex` |
| usb_control | ServedInFull | `AllSentWithoutZlp`: no ZLP behind a full last packet |
| | AckedIsExecuted | `LastRequestForgotten`: a SETUP drops what the device had not seen end |
| | ImplementsControlPipe | `InitKeepsCallback`: called again by the next request |
| | CalledWhenOver | `SendZlpInAndCall`: called when the ZLP is queued |
| | RequestEnds | `StallNotRaised`: the state says stall, the hardware does not |
| usb_endpoints | OutEndpointServed | `FreeOutAbortFirst` |
| | NothingLost | `NotTransferredIgnored`: a short packet taken for a full buffer |
| | TransfersEnd | `FinishOutOnce`: the next job is not run |
| firmware | LockHeldMeansPending | `WriteLocked`: a callback that keeps the lock |
| | MemoryAsAsked | `FPGAProgramUnchecked`: no status request behind the bitstream; also `ReadBulkAtOldAddress` |
| | SupplyAsAsked | `ToggleInverted` |

Type invariants are conjuncts of the first safety property of their module
(`OvershootAtMostTwo`, `DoneMeansOver`, `NoOverflow`, `PulsesAsProgrammed`,
`ServedInFull`, `OutEndpointServed`, `LockHeldMeansPending`), and of `IInv`; in
`UsbAutodetect` it is checked on its own, as it is also proved.

## 6. What is proved

`CdcPulse`, in the first part of `PwTriggerProofs` (pw_trigger.v contains a crossing), for
synchronisers of any length (assumed: at least one stage) and edges in any order:

* `PulseTypeCorrect`, `WaveInvariant` (`IInv`), `FreeSourceIsDelivered`
  (`IdleMeansDelivered`), `ImplementsPulseChannel` (`ImplementsChannel`).

That a free source has nothing in flight is not inductive: it says nothing of what
is inside the synchronisers. The strengthening is `OneWave`. Along the ring of request
and acknowledge flops, the values agree with the source's request up to some place
and differ from there on; each edge moves that place on by one. `EdgeLag` and
`PulseInRise` tie the edge detector to it. Under reset, each domain that had an
edge is zero. The refinement then goes action by action: each edge is
Accept, Deliver, EndPulse, one of the reset's steps, or a stutter.

`CaptureControlProofs`, for patterns, captures, delays and gaps between bytes of any
length, any phase of the two clocks, and any moment at which the host arms:

* `TypeCorrect` (`TypeOK`, unconditional);
* `Phases` (`IInv`), `StartsAreDue` (`CaptureStartIsDue`), `DoneIsOver` (`DoneMeansOver`),
  `FlushIsOver` (`FlushSparesCapture`), `DisarmsForCapture` (`DisarmMeansCapture`),
  `MatchesAreFresh` (`FreshAtFullSpeed`), `FirstEntryKept` (`NothingMissedAtMatch`), with the
  hypothesis `Timely`. Without it they are false: section 4 has the limits.

`BaseInv` holds whatever the setup: types, the overshoot of two, and the wave in the crossing
(`OneWave`, the invariant of `CdcPulse`). An arming then goes through six phases
(`BeforeMatch`, `Delay`, `Enabled`, `Announced`, `Capturing`, `Over`), and `IInv` says what
each fixes in both clock domains. The hard part is the time from the enable to the fall
of ARM. `Way` counts the flops of `usb_clk` the request has passed, `Age` the cycles of
`fe_clk` that may have gone by meanwhile, as `usb_clk` is less than twice as fast.
Entries counted and cycles since the byte that matched are bounded by `Age` until ARM is
seen to fall (`Told`, `Capturing`): with a capture that outlasts this, or no byte
until it is over, a capture ends only with ARM down, so that nothing is left set for
the next arming. `Capturing` also says which flops of the capturing flag are high
already, which leaves no gap for CAPTURE_DONE. `FreshInv`, on top of `IInv`, follows the
bytes at full speed: the window of the matcher is what it received in this arming, and
clearing it at the end works because the byte that matched is still the last one. A
second byte comes only when the new arming has reached the count (`SecondByteLate`).

`UsbAutodetectProofs`, for waits of any length below the timer's range (assumed:
both positive, both below it):

* `TypeCorrect`, `NoWaitIsMissed`, `EverySpeedIsEarned`, `EveryEndAnnounces`,
  `SpeedStaysUntilAsked`.

The invariant ties history to state: in a wait the last run of equal lines is
longer than the timer (`SeenSoFar`), pS_DONE is entered only with the speed earned
and announced one edge later (`Ending`), and outside pS_DONE a speed survives
only for one edge, after a restart the host has asked for (`Held`). A restart in the
middle of a wait zeroes the timer but not the run, so the relation is an inequality.

`FeCaptureProofs`, for counters and timestamp fields of any width and any lengths of
captures: `Overshoot` (`OvershootAtMostTwo`), `NoEventLost` (`EntryPerEvent`),
`StatusIsCurrent` (`HostStatusCurrent`), `TimeIsExact` (`HostTimeExact`). The last three have
the hypothesis that no gap inside a capture is longer than the counter (`MaxIdle <= FULL + 1`):
beyond it they are false, as `fe_long_gap_loss` shows.

The invariant is about the age of the time counter. An entry restarts it, and a
capture can stop only behind an entry, so the counter is at most 3 when the capture stops, 4
when the enable falls, 5 when the next one begins (`CtrAge`, `CtrAtStop`): an
event that is due an entry therefore finds the FSM in a state that writes it (`ShortWhenDue`).
`ClockInv` and `GapInv` relate the counter to the true distance of the events, on its way
through the pipeline; `AccInv` what the host has added up so far.

`PwTrigger`, in the second part of `PwTriggerProofs`, for any number of pulses, any delays
and widths, and calls of `set_trigger()` at any moment: `PulsesAreAsProgrammed`
(`PulsesAsProgrammed`). `RegInv` says what a half-finished or refused `set_trigger()` leaves
behind: only the first pulse of those the registers announce may have no delay, and none has
no width. That is what keeps the FSM from counting to a value it has passed. `RunInv`
follows the run, pulse by pulse. For a train that is programmed anew while it runs the theorem
says that the index stays within the arrays, and `TriggerEnds` that it ends; its delays and
widths mix old and new values, and nothing more is said of them.

`UsbControlProofs`, for packets of any size and any set of requests: `TypeCorrect`,
`FullService` (`ServedInFull`), `CalledOnlyWhenOver` (`CalledWhenOver`),
`AckedRequestIsExecuted` (`AckedIsExecuted`), and the refinement `ControlPipeImplemented`
(`ImplementsControlPipe`). The invariant says what each state of the driver means for the
host's request: in DATA_OUT what has arrived is in the bank, in DATA_IN the host lags
behind by the packet in the bank or, when an ACK was lost, has it twice, and so on
(`DataOutInv` to `StallInv`). An event the ISR has picked stays until it is handled, since the
tokens of the host only add flags (`EventStands`), unless a SETUP or a reset wipes the
endpoint (`SetupIsClean`, `ResetIsClean`). `OwedInv` ties what the host was told to what
the driver still has to call. For the refinement each routine is shown to drop, to run,
to accept, or to run and accept a callback, or to leave the pipe as it is.

`UsbEndpointsProofs`, for packets, buffers, DMA transfers and reads of any size and any number
of banks (assumed: buffer and DMA limit are whole packets, and the buffer is within the limit):
`NoUnitLost` (`NothingLost`), `AlwaysListening` (`OutEndpointServed`). The flow of data
is not inductive by itself. It needs that the DMA moves only for a job (`Moving`), that an IN
job never gives the DMA more than it asks for (`InJob`), and that an OUT job is a single
transfer of whole packets (`OutJob`), so that a shorter packet is what ends it. Between a
bus reset and its handling nothing of this is promised. The units in the banks are a
recursive sum: `HeldAppend` and `HeldTail` are proved by an induction that rests on the
well-foundedness of the naturals.

`SniffFifoProofs`, for captures, FIFOs and bursts of any size and any latency of the empty
flag: `NeverUnderflows` (`NoUnderflow`), `NeverOverflows` (`NoOverflow`), `EntriesInOrder`
(`EachEntryOnce`), `OverflowIsTold` (`UnwarnedIsUnbroken`). The read strobe is guarded by last cycle's flag: `Shown` says that the flag
is good enough between reads, and `Armed` why it is when the reading begins, with the flush just
over. `Room` is the place the threshold keeps for the write that was let through with
it. `Chain` numbers the entries through all the places they can be in, from the host's buffer
to the write port; `Idle` says that before a capture there are only leftovers, which the
flush takes away, and nothing for the host. For the warning a second invariant goes on
top: a refusal comes only when ARM is down on both sides, so that the flag of it stays
(`Filling`); and the flag is ahead of whatever was stored behind the refused entry, past one
flop before that can leave the FIFO, past two when it is in the host's hand, past all three
with its second byte (`Seen`).

`FirmwareProofs`, for any registers, contents and programs of the host: `LockIsReleased`
(`LockHeldMeansPending`), `SupplySwitched` (`SupplyAsAsked`), `MemoryKept` (`MemoryAsAsked`).
The registers at any moment say little, since a callback and a bulk interrupt may still be due,
in either order. The invariant is about the memory as it will be once they have come
(`Predicted`), together with the place of the call among its transfers (`PlaceInv`) and
what a bulk job may have behind it (`ArrivedInv`). A bus reset may take the callback away,
so as long as the host was not told of what the callback writes (`Untold`), the memory
without it (`Uncalled`) has to be as expected too; once the host was told, the register
the reset takes the write from becomes doubtful. A callback that bulk data can overtake is one
that says where bulk data go (`ToBulk`) and writes nothing itself, so only two
registers can differ for it: the old address and the new. `MemoryKept` says no more
than `MemoryAsAsked` does: of a doubtful register, and of a read behind a
given-up one, nothing. For the supply the invariant follows the two writes of the
button (`Wanted`).

The step from invariant to theorem is propositional temporal logic. Each inductive invariant
was checked by TLC on the instance of its run first.

Left to TLC:

* every liveness property (`Delivered`, `FreeAgain`, `DetectionEnds`, `TriggerEnds`,
  `RequestEnds`, `TransfersEnd`, `HostFinishes`, `MatchDisarms`): fairness and ENABLED are
  beyond the prover. Everything else that a passing run checks is a theorem.

## 7. What the runs show about the code

Three runs end in a violation; PROJECT.json quotes the lines they disagree with.

* `fe_long_gap_loss`: with the FSM idle and the counter one below its limit, the
  saturating TIME entry takes the cycle in which a late event's own TIME would go;
  the next event finds the FSM in the wrong state and is not written.
* `sniff_fifo_done`: the capturing flag falls before the last entry is in the
  FIFO; a read in that window returns without it. With bursts of thousands of
  entries the window is met by the last entry of a burst only.
* `usb_control_abort`: a request given up before its data or status stage has its
  callback called by the next SETUP. The driver means to make up for an end it missed
  (and `AckedIsExecuted` shows that it does), but cannot tell one from the other; a
  memory request then runs on the length and address of an earlier one (`Replays`
  in `Firmware`).

Eight more are kept as configurations to be run by hand, each for one property
that TLC finds violated:

* `CaptureStaleBytes.cfg` (`MCCaptureControl`, `MatchIsFresh`): the end of a capture
  clears the matcher only while match_trigger is high. At full speed it is, for short
  captures, as the byte that matched is still the last; with bytes in between it is not.
* `CaptureShortRepeat.cfg` (`MCCaptureControl`, `CaptureStartIsDue`): a second match
  between the end of a short capture and the fall of ARM leaves the capture enable
  set: the next arming captures without a match.
* `SniffFifoHole.cfg` (`MCSniffFifo`, `NothingAfterOverflow`): a read during overflow
  frees room for the entries under way, which are stored behind the refused one. The
  warning is given all the same (`UnwarnedIsUnbroken`).
* `FirmwareBulkWrite.cfg` (`MCFirmware`, `BulkWriteFindsItsRegister`): the acknowledgement of
  a bulk write's status stage is lost, so the callback that sets the address waits for
  the next SETUP, and the data of the write go to the register addressed before.
  `Firmware` takes every order of the two as possible.
* `FirmwareBulkRead.cfg` (`MCFirmware`, `BulkReadIsOfItsRegister`): the result of
  `udi_vendor_bulk_in_run()` is ignored (`usb.c:135`). A bulk read that timed out leaves its
  job behind; the next one's job is refused, and the host takes the packets of the old
  one, of another register, for its own.
* `FirmwareReplay.cfg` (`MCFirmware`, `GivenUpWritesNothing`): what `usb_control_abort`
  shows, seen from the registers: a control write given up before its data writes the
  register and the value of an earlier request.
* `FirmwareReset.cfg` (`MCFirmware`, `ResetKeepsWrites`): a control write whose status stage
  the host saw acknowledged, while the device missed the end of it, is lost to a bus
  reset: `udc_reset()` drops the callback that would have written it.
* `FirmwareOff.cfg` (`MCFirmware`, `OffMeansNoPower`): the button's handling has chosen what to
  switch on; a request to switch off comes, and the main loop then switches the supply on
  (`main.c:186`), against the `"off" for no power` of `usb.py:134`.

Seen while reading or with a variant of a configuration, and not run here:

* A gap longer than the timestamp counter gets one TIME entry, and short timestamps
  then follow a counter that stands still: the host's time is too small.
* A match in the first three cycles after arming meets the count of the last capture,
  and its first entry is missed. It takes back-to-back bytes, or a pattern of one byte,
  which a single byte completes at any moment: `NothingMissedAtMatch` leaves both out,
  and fails without its condition.
* `usb_speed_auto` (`hdl/reg_pw.v:330`) takes two bits of another clock in a flop
  each: going from auto (0) to high speed (3), a read may return 1 or 2.
* `hdl/phywhisperer_top.v:327`: AUTO is taken with FS, so the branch for the
  programmable PHY settings is never reached.
* `set_trigger(num_triggers=0, ...)` writes 0 to the register before it raises;
  `num_triggers_r-1` then wraps and an enabled trigger does not stop.
* A restart outside pS_DONE does not restart the detection; it only zeroes the timer.
* A bus reset between a memory request and its callback drops the callback, which
  alone would release the lock: all memory requests are refused until the firmware
  restarts (`leaked` in `LockHeldMeansPending`).
* `empty_fifo_read` (`hdl/reg_pw.v:453`) is not reset by arming, only by a read that
  finds data: after a read that ended on an empty FIFO, the first entry of the next
  capture is preceded by an empty-read entry. The non-blocking read filters it out
  (`SniffFifo`); the blocking one (`usb.py:292`) counts it as one of its entries.
* With a power request amid the handling of the button both supplies can end up
  switched on (`raced`); `SupplyAsAsked` is about all other cases, `FirmwareOff.cfg` about
  one of these.
* Two ways in which a request is answered by NAKs until the host gives up
  (`HungByNakOut`): the ISR looks at NAK_OUT before NAK_IN whether enabled or not and disables
  both interrupts, so a stale flag of one uses up the interrupt of the other. It needs an OUT
  data stage cut short, or an IN request the firmware accepts without a payload
  (REQ_MEMREAD_CTRL before any length was given).
* A bulk write whose last packet is full stays in the buffer until a later short one:
  the transfer ends only with a short packet or a full buffer.
* A zero-length bulk read raises an interrupt for its ZLP that is enabled by a flag of the
  endpoint nothing clears (`udphs_device.c:1858`).
* `set_interface` with a setting the interface has not got frees its endpoints and then
  fails: they stay freed until the next configuration.

## 8. What is not modelled

* Clock skew inside a synchroniser beyond one edge: each samples an old or the new
  value. Flags that cross side by side (capturing and overflow) are taken
  with equal lag.
* The FPGA's reset, outside `CdcPulse`. The registers written while a capture runs, outside
  `PwTrigger`. The pattern's mask.
* In `read_capture_data()`, the timeout, the blocking variant and the underflow flag.
* The host's session: `run_capture()`, the communication thread and `close()`. Its
  hazards (PROJECT.json) follow from a few lines each and are of a single thread but one.
* The STAT monitor and the packet parser: nothing of a capture depends on them.
* In the firmware: isochronous and interrupt endpoints (none is configured), ZLPs
  of zero-length reads, suspend and wake-up, SET_ADDRESS, test modes, REQ_SAM3U_CFG,
  and data toggles of the bulk endpoints. Two threads on the host.
* The rest of `hal/`: register headers, clock, serial port and flash drivers of the chip's vendor,
  by far the most of the repository's C lines. The firmware calls few of
  them, once at start; there is no behaviour of this system in them to model. The C files with
  its logic are `usb.c`, `usb_xmem.c`, `main.c`, `udphs_device.c`, and parts of `udc.c`, and
  these are covered.
* Bytes on the wire, the PHY, USB's signalling, and the Python front end's decoding.
