------------------------------ MODULE Firmware ------------------------------
(***************************************************************************)
(* The firmware with the host library that drives it: the vendor requests  *)
(* over the control pipe (ControlPipe, implemented by UsbControl), the     *)
(* bulk transfers that follow them (cmdReadMem and cmdWriteMem of          *)
(* naeusb.py, FPGAProgram of program_fpga.py), the supply of the target    *)
(* (PowerControl).  The library makes one call at a time; every transfer   *)
(* of it may time out, and the bus may be reset.                           *)
(***************************************************************************)
EXTENDS VendorRequests, PowerControl

CONSTANT Programs    \* host programs: the calls each makes

Operation ==
  [op : {"readCtrl", "readBulk", "writeCtrl", "writeBulk", "program", "power"},
   addr : Addr, val : Value, src : 0 .. 2]

ASSUME FirmwareAssumption == \A program \in Programs : program \subseteq Operation

VARIABLES
  armed, runs, reset,   \* the control pipe
  fw,                   \* the firmware and the FPGA's registers
  arrived,              \* what a bulk OUT job brought, its interrupt still to come
  ahead,                \* a SETUP has been served before that interrupt
  ops,                  \* the calls of the host program
  call,                 \* its call: what it is, the transfers to do, where it is, and
                        \* whether it found the bulk IN job of an earlier one under way
  loaded,               \* history: the data stage of the last OUT request took place
  expect,               \* history: what a register may hold, for all the host knows
  told,                 \* history: the host was told that the request whose callback
                        \* is still to come is done
  doubtful,             \* history: registers whose content the host cannot rely on
  leaked                \* history: a reset fell on a memory request

pipe == <<armed, runs, reset>>
host == <<ops, call>>
history == <<loaded, expect, told, doubtful, leaked>>
vars == <<pipe, fw, arrived, ahead, host, history, powerVars>>

Pipe == INSTANCE ControlPipe

---------------------------------------------------------------------------
(* The calls of the host library, as transfers.                            *)

Transfer(how, kind, wValue, o) ==
  [how |-> how, req |-> [kind |-> kind, wValue |-> wValue, data |-> [addr |-> o.addr, val |-> o.val]]]
OutReq(kind, wValue, o) == Transfer("out", kind, wValue, o)

cmdReadMem(o) ==
  IF o.op = "readCtrl" THEN <<OutReq("MEMREAD_CTRL", 0, o), Transfer("in", "MEMREAD_CTRL", 0, o)>>
  ELSE <<OutReq("MEMREAD_BULK", 0, o), Transfer("bulkIn", "MEMREAD_BULK", 0, o),
         Transfer("bulkIn", "MEMREAD_BULK", 0, o)>>

cmdWriteMem(o) ==
  IF o.op = "writeCtrl" THEN <<OutReq("MEMWRITE_CTRL", 0, o)>>
  ELSE <<OutReq("MEMWRITE_BULK", 0, o), Transfer("bulkOut", "MEMWRITE_BULK", 0, o)>>

\* A status request lies between the last of the bitstream and the end.
FPGAProgramUnchecked(o) ==
  <<OutReq("FPGA_PROGRAM", 160, o), OutReq("FPGA_PROGRAM", 161, o),
    Transfer("bulkOut", "FPGA_PROGRAM", 0, o), OutReq("FPGA_PROGRAM", 162, o)>>
FPGAProgram(o) ==
  <<OutReq("FPGA_PROGRAM", 160, o), OutReq("FPGA_PROGRAM", 161, o),
    Transfer("bulkOut", "FPGA_PROGRAM", 0, o), Transfer("in", "FPGA_STATUS", 0, o),
    OutReq("FPGA_PROGRAM", 162, o)>>

changePowerSource(o) == <<OutReq("CHANGE_PWR", o.src, o)>>

Transfers(o) ==
  CASE o.op \in {"readCtrl", "readBulk"} -> cmdReadMem(o)
    [] o.op \in {"writeCtrl", "writeBulk"} -> cmdWriteMem(o)
    [] o.op = "program" -> FPGAProgram(o)
    [] o.op = "power" -> changePowerSource(o)

Reads(o) == o.op \in {"readCtrl", "readBulk"}
Written(o, a) ==
  IF o.op \in {"writeCtrl", "writeBulk"} /\ a = o.addr THEN {o.val}
  ELSE IF o.op = "program" THEN {Zero} ELSE {}

NoCall == [op |-> [op |-> NONE], todo |-> <<>>, stage |-> "idle", leftover |-> FALSE]
Quiet == arrived = NONE

FirmwareInit ==
  /\ Pipe!Init
  /\ \E a \in Addr : fw = InitialFirmware(a)
  /\ arrived = NONE /\ ahead = FALSE
  /\ ops \in Programs /\ call = NoCall
  /\ loaded = FALSE /\ expect = [a \in Addr |-> {Zero}]
  /\ told = FALSE /\ doubtful = {} /\ leaked = FALSE
  /\ Init

---------------------------------------------------------------------------
(* The host's side of a call.                                              *)

Begin ==
  /\ call.todo = <<>> /\ ~reset
  /\ \E o \in ops :
       /\ call' = [op |-> o, todo |-> Transfers(o), stage |-> "idle", leftover |-> FALSE]
       /\ expect' = [a \in Addr |-> expect[a] \cup Written(o, a)]
  /\ UNCHANGED <<ops, pipe, fw, arrived, ahead, loaded, told, doubtful, leaked, powerVars>>

Now(how) == call.todo # <<>> /\ ~reset /\ Head(call.todo).how = how
Req == Head(call.todo).req

\* The register a call writes, when its last transfer is over.
Rewritten ==
  IF Len(call.todo) = 1 /\ call.op.op \in {"writeCtrl", "writeBulk"} THEN {call.op.addr} ELSE {}

\* A transfer is over; with the last one the host knows what it has done.
Advance ==
  /\ call' = IF Len(call.todo) = 1 THEN NoCall
             ELSE [call EXCEPT !.todo = Tail(@), !.stage = "idle"]
  /\ expect' = IF Len(call.todo) # 1 THEN expect
               ELSE [a \in Addr |-> IF Written(call.op, a) # {} THEN Written(call.op, a)
                                    ELSE expect[a]]
  /\ UNCHANGED ops

\* A timeout outlasts any interrupt that is due.
TimesOut ==
  /\ call.todo # <<>> /\ Quiet
  /\ call' = NoCall
  /\ UNCHANGED <<pipe, fw, arrived, ahead, ops, history, powerVars>>

---------------------------------------------------------------------------
(* The control endpoint's interrupt.                                       *)

\* A SETUP is served before a bulk interrupt that is due, but not two.
Turn == /\ ~Quiet => ~ahead
        /\ ahead' = ~Quiet

\* What the callback that is registered does, if there is one.
Settled == IF armed THEN Called(fw) ELSE fw
Replays == armed /\ ~loaded /\ fw.callback \in MemoryRequests
CallbackEffects ==
  /\ told' = FALSE
  /\ doubtful' = IF Replays /\ fw.callback = "MEMWRITE_CTRL"
                 THEN doubtful \cup {fw.ctrlbuffer.addr} ELSE doubtful
  /\ IF armed /\ fw.callback = "CHANGE_PWR" THEN ChangePower(fw.wValue) ELSE UNCHANGED powerVars

SetupOut ==
  /\ Now("out") /\ call.stage = "idle" /\ Turn
  /\ LET ok == Accepted(Settled, Req)
     IN /\ CASE ok /\ armed -> Pipe!RunThenAccept
             [] ok /\ ~armed -> Pipe!Accept
             [] ~ok /\ armed -> Pipe!Run
             [] ~ok /\ ~armed -> UNCHANGED pipe
        /\ call' = IF ok THEN [call EXCEPT !.stage = "data", !.leftover = BusyIn(Settled)] ELSE NoCall
  /\ fw' = main_setup_out_received(Settled, Req)
  /\ CallbackEffects
  /\ loaded' = FALSE
  /\ UNCHANGED <<arrived, ops, expect, leaked>>

\* Only REQ_MEMWRITE_CTRL sends more than a length and an address.
DataStage ==
  /\ Now("out") /\ call.stage = "data"
  /\ call' = [call EXCEPT !.stage = "status"]
  /\ loaded' = TRUE
  /\ fw' = IF Req.kind \notin MemoryRequests THEN fw
           ELSE [fw EXCEPT !.ctrlbuffer.addr = Req.data.addr,
                           !.ctrlbuffer.val = IF Req.kind = "MEMWRITE_CTRL" THEN Req.data.val ELSE @]
  /\ UNCHANGED <<pipe, arrived, ahead, ops, expect, told, doubtful, leaked, powerVars>>

StatusStage ==
  /\ Now("out") /\ call.stage = "status"
  /\ Advance
  /\ told' = TRUE /\ doubtful' = doubtful \ Rewritten
  /\ UNCHANGED <<pipe, fw, arrived, ahead, loaded, leaked, powerVars>>

\* CalledWhenOver of UsbControl: not while the host is in the request.  A lost
\* acknowledgement puts it off to the next SETUP.
Callback ==
  /\ Pipe!Run /\ Quiet
  /\ call.stage = "idle"
  /\ fw' = Called(fw)
  /\ CallbackEffects
  /\ UNCHANGED <<arrived, ahead, host, loaded, expect, leaked>>

\* The data of a read are taken from the FPGA when they are sent.
SetupIn ==
  /\ Now("in") /\ Turn
  /\ IF armed THEN Pipe!Run ELSE UNCHANGED pipe
  /\ CallbackEffects
  /\ IF Req.kind = "MEMREAD_CTRL"
     THEN fw' = main_setup_in_received(Settled)
     ELSE fw' = Settled
  /\ Advance
  /\ UNCHANGED <<arrived, loaded, leaked>>

---------------------------------------------------------------------------
(* The bulk endpoints and the bus.                                         *)

BulkOut ==
  /\ Now("bulkOut") /\ Quiet
  /\ arrived' = Req.data.val /\ ahead' = FALSE
  /\ Advance
  /\ doubtful' = doubtful \ Rewritten
  /\ UNCHANGED <<pipe, fw, loaded, told, leaked, powerVars>>

\* The data may come before the callback that was to say where they go.
Early == ~Quiet /\ armed /\ ~ahead
Misplaced ==
  IF ~Early THEN {}
  ELSE {fw.addr} \cup (IF fw.callback = "MEMWRITE_BULK" THEN {fw.ctrlbuffer.addr} ELSE {})
BulkInterrupt ==
  /\ ~Quiet
  /\ fw' = main_vendor_bulk_out_received(fw, arrived)
  /\ doubtful' = doubtful \cup Misplaced
  /\ arrived' = NONE /\ ahead' = FALSE
  /\ UNCHANGED <<pipe, host, loaded, expect, told, leaked, powerVars>>

BulkIn ==
  /\ Now("bulkIn") /\ BusyIn(fw)
  /\ fw' = PacketTaken(fw)
  /\ Advance
  /\ UNCHANGED <<pipe, arrived, ahead, loaded, told, doubtful, leaked, powerVars>>

BusReset ==
  /\ ~reset /\ Pipe!BusReset
  /\ call' = NoCall
  /\ UNCHANGED <<fw, arrived, ahead, ops, history, powerVars>>

\* The ISR looks at the DMA first.  A callback that is due falls, and with it a
\* write of which the host was told that it is done.
LostWrite == IF told /\ fw.callback = "MEMWRITE_CTRL" THEN {fw.ctrlbuffer.addr} ELSE {}
ResetInterrupt ==
  /\ Quiet /\ Pipe!Drop
  /\ fw' = udc_reset(fw)
  /\ leaked' = (leaked \/ (armed /\ fw.callback \in MemoryRequests))
  /\ told' = FALSE /\ doubtful' = doubtful \cup LostWrite
  /\ UNCHANGED <<arrived, ahead, host, loaded, expect, powerVars>>

ButtonStep ==
  /\ MainLoop
  /\ UNCHANGED <<pipe, fw, arrived, ahead, host, history>>

Next ==
  \/ Begin \/ TimesOut
  \/ SetupOut \/ DataStage \/ StatusStage \/ Callback \/ SetupIn
  \/ BulkOut \/ BulkInterrupt \/ BulkIn
  \/ BusReset \/ ResetInterrupt
  \/ ButtonStep

Spec == FirmwareInit /\ [][Next]_vars

---------------------------------------------------------------------------
TypeOK ==
  /\ PowerTypeOK
  /\ armed \in BOOLEAN /\ runs \in {0, 1} /\ reset \in BOOLEAN
  /\ fw \in FirmwareState /\ Len(fw.inJob) <= 1
  /\ arrived \in Value \cup {NONE} /\ ahead \in BOOLEAN
  /\ call.stage \in {"idle", "data", "status"}
  /\ expect \in [Addr -> SUBSET Value] /\ doubtful \subseteq Addr
  /\ loaded \in BOOLEAN /\ told \in BOOLEAN /\ leaked \in BOOLEAN

(* The lock on the FPGA is held only for a memory request whose callback   *)
(* is still to come, which will release it: memory requests are refused    *)
(* forever only after a bus reset fell on one (usb.c:309).                 *)
LockHeldMeansPending ==
  /\ TypeOK
  /\ fw.lock # "unlocked" /\ ~leaked => armed /\ fw.callback \in MemoryRequests

(* A register holds what was last written to it by whichever way, and a    *)
(* read returns that; the bitstream reaches no register.  A register is    *)
(* doubtful, and nothing is said of it until the host's next completed     *)
(* write of it, in three cases only: the next SETUP called the callback of *)
(* a control write that was given up, on the data of an older request      *)
(* (udphs_device.c:1296); the data of a bulk transfer came before the      *)
(* callback of their request (usb.c:203); a bus reset dropped the callback *)
(* of a control write the host had been told is done.  Nor is anything     *)
(* said of a bulk read that finds the job of a given-up one under way.     *)
MemoryAsAsked ==
  [][/\ ~armed' /\ arrived' = NONE =>
          \A a \in Addr \ doubtful' : fw'.mem[a] \in expect'[a]
     /\ BulkIn /\ ~call.leftover /\ call.op.addr \notin doubtful =>
          Head(fw.inJob) \in expect[call.op.addr]
     /\ SetupIn /\ Reads(call.op) =>
          /\ Settled.loading /\ Settled.addr = call.op.addr
          /\ call.op.addr \notin doubtful' => Settled.mem[Settled.addr] \in expect[call.op.addr]
    ]_vars

(* The next five do not hold: they say what those cases, and a request     *)
(* amid the button's handling, break.  The data of a bulk write go to the  *)
(* register its request names (usb.c:202).                                 *)
BulkWriteFindsItsRegister ==
  [][BulkInterrupt /\ fw.callback = "MEMWRITE_BULK" /\ ~ahead =>
       fw'.mem[fw.ctrlbuffer.addr] = arrived]_vars

(* A bulk read returns what its own register holds (usb.c:134).            *)
BulkReadIsOfItsRegister ==
  [][BulkIn /\ call.op.addr \notin doubtful => Head(fw.inJob) \in expect[call.op.addr]]_vars

(* A bus reset takes no write back that the host was told is done.         *)
ResetKeepsWrites == [][ResetInterrupt => \A a \in Addr \ doubtful : fw'.mem[a] \in expect[a]]_vars

(* A request given up before its data writes no register (udd.h:93).       *)
GivenUpWritesNothing == [][Replays /\ runs' # runs => fw'.mem = fw.mem]_vars

(* "off" for no power (usb.py:134), once the button has been handled.      *)
OffMeansNoPower == USB_PWR_STATE = 0 /\ main = "sleep" => pins = {}

(* Never two supplies at once, and the button turns the supply off, or on  *)
(* to what the host asked for last, unless a request of the host comes     *)
(* while it is being handled (main.c:182-188).                             *)
SupplyAsAsked ==
  [][~raced' =>
       /\ before' # Supplies => pins' # Supplies
       /\ main = "write" /\ main' = "sleep" =>
            pins' = IF before = {} THEN Supply(USB_PWR_STATE) ELSE {}]_powerVars
=============================================================================
