--------------------------- MODULE VendorRequests ---------------------------
(***************************************************************************)
(* The vendor requests of the firmware (usb.c, usb_xmem.c) as functions of *)
(* its state, a record `fw`: what a SETUP, a callback and the end of a     *)
(* bulk job do to it.  A register of the FPGA holds one value, which a     *)
(* bulk read samples twice, packet by packet, and a control transfer once. *)
(***************************************************************************)
EXTENDS Naturals, Sequences

CONSTANTS Addr, Value, Zero     \* registers, contents, contents after a reset

NONE == "none"

ASSUME VendorRequestsAssumption == Zero \in Value /\ NONE \notin Value

MemoryRequests == {"MEMREAD_BULK", "MEMREAD_CTRL", "MEMWRITE_BULK", "MEMWRITE_CTRL"}
OutRequests == MemoryRequests \cup {"FPGA_PROGRAM", "CHANGE_PWR"}
Locks == {"unlocked", "generic", "blockin", "blockout", "ctrlmem", "usblocked"}

(* A request with its wValue; what the 8 or more bytes of its data stage   *)
(* say: the register, and for MEMWRITE_CTRL the value behind it.           *)
Payload == [addr: Addr, val: Value]
Request == [kind: OutRequests, wValue: Nat, data: Payload]

FirmwareState ==
  [ lock: Locks,                            \* _fpga_locked
    callback: OutRequests \cup {NONE},      \* udd_g_ctrlreq.callback, by its request
    wValue: Nat,                            \* udd_g_ctrlreq.req.wValue
    ctrlbuffer: Payload,
    usage: {"emem", "fpgabitstream"},       \* blockendpoint_usage
    addr: Addr, mem: [Addr -> Value],       \* the FPGA: the address pins, its registers
    loading: BOOLEAN,                       \* ctrlmemread_size is not 0
    inJob: Seq(Value), more: BOOLEAN ]      \* the bulk IN job: sampled, and still to sample

InitialFirmware(a) ==
  [ lock |-> "unlocked", callback |-> NONE, wValue |-> 0,
    ctrlbuffer |-> [addr |-> a, val |-> Zero],
    usage |-> "emem", addr |-> a, mem |-> [x \in Addr |-> Zero],
    loading |-> FALSE, inJob |-> <<>>, more |-> FALSE ]

---------------------------------------------------------------------------
(* A definition whose name says what is wrong with it is a slip of the one *)
(* that follows it.                                                        *)

\* Taking no lock at all is how fpga_unlocked is set: only when it is unlocked.
FPGA_setlock(fw, lockstatus) ==
  IF fw.lock = "unlocked" THEN [fw EXCEPT !.lock = lockstatus] ELSE fw
FPGA_releaselock(fw) == [fw EXCEPT !.lock = "unlocked"]
FPGA_setaddr(fw, addr) == [fw EXCEPT !.addr = addr]

\* Between release and release the callbacks hold the lock by another name.
WithAddress(fw, lockstatus) ==
  FPGA_setaddr(FPGA_setlock(FPGA_releaselock(fw), lockstatus), fw.ctrlbuffer.addr)

BusyIn(fw) == fw.inJob # <<>>

\* udi_vendor_bulk_in_run(): refused while a job is under way.
bulk_in_run(fw) ==
  IF BusyIn(fw) THEN fw ELSE [fw EXCEPT !.inJob = <<fw.mem[fw.addr]>>, !.more = TRUE]

ReadBulkAtOldAddress(fw) ==
  FPGA_releaselock(WithAddress(bulk_in_run(fw), "blockin"))
ctrl_readmem_bulk(fw) ==
  FPGA_releaselock(bulk_in_run(WithAddress(fw, "blockin")))

ctrl_readmem_ctrl(fw) ==
  FPGA_releaselock([WithAddress(fw, "ctrlmem") EXCEPT !.loading = TRUE])

WriteLocked(fw) ==
  LET a == WithAddress(fw, "generic")
  IN [a EXCEPT !.mem[a.addr] = a.ctrlbuffer.val]
ctrl_writemem_ctrl(fw) ==
  LET a == WithAddress(fw, "generic")
  IN FPGA_releaselock([a EXCEPT !.mem[a.addr] = a.ctrlbuffer.val])

ctrl_writemem_bulk(fw) == FPGA_releaselock(WithAddress(fw, "blockout"))

\* fpga_program_setup1() pulls PROGRAM low, and the FPGA forgets all.
ctrl_progfpga_bulk(fw) ==
  CASE fw.wValue = 160 -> [fw EXCEPT !.mem = [x \in Addr |-> Zero]]
    [] fw.wValue = 161 -> [fw EXCEPT !.usage = "fpgabitstream"]
    [] fw.wValue = 162 -> [fw EXCEPT !.usage = "emem"]
    [] OTHER -> fw

\* The callback of the last OUT request; ctrl_change_pwr() is in PowerControl.
Called(fw) ==
  [ (CASE fw.callback = "MEMREAD_BULK" -> ctrl_readmem_bulk(fw)
       [] fw.callback = "MEMREAD_CTRL" -> ctrl_readmem_ctrl(fw)
       [] fw.callback = "MEMWRITE_BULK" -> ctrl_writemem_bulk(fw)
       [] fw.callback = "MEMWRITE_CTRL" -> ctrl_writemem_ctrl(fw)
       [] fw.callback = "FPGA_PROGRAM" -> ctrl_progfpga_bulk(fw)
       [] OTHER -> fw) EXCEPT !.callback = NONE ]

Accepted(fw, r) == r.kind \in MemoryRequests => fw.lock = "unlocked"

\* An OUT request, its callback called when the pipe says so.
main_setup_out_received(fw, r) ==
  LET s == [fw EXCEPT !.usage = "emem", !.wValue = r.wValue]
      t == [s EXCEPT !.callback = r.kind]
  IN IF ~Accepted(fw, r) THEN s
     ELSE IF r.kind \in MemoryRequests THEN FPGA_setlock(t, "usblocked") ELSE t

\* REQ_MEMREAD_CTRL as an IN request: its data are read as they are sent.
main_setup_in_received(fw) ==
  LET s == [fw EXCEPT !.loading = FALSE]
  IN IF s.lock = "ctrlmem" THEN FPGA_setlock(s, "unlocked") ELSE s

\* xram[i] = main_buf_loopback[i], or the same bytes to the FPGA's configuration.
main_vendor_bulk_out_received(fw, val) ==
  LET s == IF fw.lock = "blockout" THEN FPGA_releaselock(fw) ELSE fw
  IN IF fw.usage = "emem" THEN [s EXCEPT !.mem[fw.addr] = val] ELSE fw

\* The host takes a packet; the DMA reads the next one where the FPGA is now.
PacketTaken(fw) ==
  [fw EXCEPT !.inJob = IF fw.more THEN <<fw.mem[fw.addr]>> ELSE <<>>, !.more = FALSE]

\* A bus reset: the callback and the jobs are gone, the lock is not.
udc_reset(fw) == [fw EXCEPT !.callback = NONE, !.inJob = <<>>, !.more = FALSE]
=============================================================================
