---------------------------- MODULE FirmwareProofs ----------------------------
(***************************************************************************)
(* Proofs about the firmware and the host library that drives it, for any  *)
(* registers and contents, and any programs of the host.                   *)
(***************************************************************************)
EXTENDS Firmware, TLAPS

(* The calls of the host.                                                  *)

Kinds == OutRequests \cup {"FPGA_STATUS"}
AnyTransfer ==
  [how : {"out", "in", "bulkOut", "bulkIn"},
   req : [kind : Kinds, wValue : Nat, data : Payload]]

\* rest is an end of s: what is left of a call's transfers.
EndOf(rest, s) ==
  /\ Len(rest) <= Len(s)
  /\ \A i \in 1 .. Len(rest) : rest[i] = s[Len(s) - Len(rest) + i]

\* A transfer of this call has been accepted.
Started ==
  call.todo # <<>> /\ (call.stage # "idle" \/ Len(call.todo) < Len(Transfers(call.op)))

CallType ==
  [op : Operation \cup {[op |-> NONE]}, todo : Seq(AnyTransfer),
   stage : {"idle", "data", "status"}, leftover : BOOLEAN]
Types == TypeOK /\ call \in CallType /\ ops \subseteq Operation

\* The pipe, the callback and the request the host is in go together.
CallInv ==
  /\ ~armed => fw.callback = NONE
  /\ fw.callback = "CHANGE_PWR" => fw.wValue \in 0 .. 2
  /\ call.todo = <<>> => call = NoCall
  /\ call.todo # <<>> =>
       ~reset /\ call.op \in Operation /\ EndOf(call.todo, Transfers(call.op))
  /\ call.stage # "idle" =>
       /\ call.todo # <<>> /\ Head(call.todo).how = "out"
       /\ armed /\ fw.callback = Req.kind /\ fw.wValue = Req.wValue /\ fw.usage = "emem"
  /\ call.stage = "data" => ~loaded
  /\ call.stage = "status" =>
       /\ loaded
       /\ Req.kind \in MemoryRequests => fw.ctrlbuffer.addr = call.op.addr
       /\ Req.kind = "MEMWRITE_CTRL" => fw.ctrlbuffer.val = call.op.val

LockInv == fw.lock # "unlocked" /\ ~leaked => armed /\ fw.callback \in MemoryRequests

\* What the button will write, and the pins while nothing interferes.
Wanted == IF before = {} THEN pwr_list(USB_PWR_STATE) ELSE phywhisperer_no_pwr
SupplyInv ==
  /\ main = "write" => todo # <<>>
  /\ ~raced =>
       /\ before # Supplies => pins # Supplies
       /\ main \in {"readHost", "read5V", "on", "off"} => pins = before
       /\ main = "read5V" => "host" \notin pins
       /\ main = "on" => pins # {}
       /\ main = "off" => pins = {}
       /\ main = "write" => \/ todo = Wanted /\ pins = before
                            \/ todo = Tail(Wanted) /\ pins = before \ {Wanted[1].pin}

---------------------------------------------------------------------------
(* The memory.                                                             *)

\* A callback is due, and not to run on an older request's data.
Live == armed /\ ~Replays
Ran(f, live) == IF live THEN Called(f) ELSE f

\* What the registers will hold once the interrupts due have come, in their order.
MemoryAfter(f, live, val, before_callback) ==
  IF val = NONE THEN Ran(f, live).mem
  ELSE IF before_callback THEN Ran(main_vendor_bulk_out_received(f, val), live).mem
  ELSE main_vendor_bulk_out_received(Ran(f, live), val).mem
Predicted == MemoryAfter(fw, Live, arrived, ahead)
\* ... and what, if the callback that is due never comes.
Uncalled == MemoryAfter(fw, FALSE, arrived, ahead)

\* FPGA_PROGRAM 161 has been accepted, its callback called or not.
IntoBitstream ==
  IF armed THEN fw.callback = "FPGA_PROGRAM" /\ fw.wValue = 161
  ELSE fw.usage = "fpgabitstream"

\* The callbacks that say where bulk data go.
ToBulk == \/ fw.callback = "MEMWRITE_BULK"
          \/ fw.callback = "FPGA_PROGRAM" /\ fw.wValue = 161

\* Between a bulk OUT job and its interrupt at most one SETUP, and which.
ArrivedInv ==
  /\ ahead => ~Quiet
  /\ ~Quiet /\ ~ahead =>
       /\ ~Started \/ (call.op.op = "program" /\ Len(call.todo) = 2)
       /\ ~Replays
       /\ armed => ToBulk
       /\ ~reset => IF Started THEN IntoBitstream ELSE Ran(fw, Live).usage = "emem"

\* Where each call stands once its first request has been acknowledged.
PlaceInv ==
  call.todo # <<>> =>
    /\ call.op.op = "writeBulk" /\ Len(call.todo) = 1 =>
         /\ fw.usage = "emem"
         /\ IF armed THEN fw.callback = "MEMWRITE_BULK" /\ loaded
                          /\ fw.ctrlbuffer.addr = call.op.addr
            ELSE fw.addr = call.op.addr
    /\ call.op.op = "program" /\ Len(call.todo) = 3 => IntoBitstream
    /\ call.op.op = "readCtrl" /\ Len(call.todo) = 1 =>
         IF armed THEN fw.callback = "MEMREAD_CTRL" /\ loaded
                       /\ fw.ctrlbuffer.addr = call.op.addr
         ELSE fw.loading /\ fw.addr = call.op.addr
    /\ call.op.op = "readBulk" /\ Started /\ ~call.leftover =>
         IF armed THEN /\ fw.callback = "MEMREAD_BULK" /\ fw.inJob = <<>>
                       /\ Len(call.todo) <= 2 => loaded /\ fw.ctrlbuffer.addr = call.op.addr
         ELSE Quiet /\ fw.addr = call.op.addr

\* The callback that is due writes registers, and the host was not told of it.
Untold ==
  /\ armed
  /\ \/ fw.callback = "MEMWRITE_CTRL" /\ ~told
     \/ fw.callback = "FPGA_PROGRAM" /\ fw.wValue = 160

\* A bus reset may keep the callback from coming: then the registers are to hold
\* what was expected without it, unless the host was told of the write.
MemInv ==
  /\ call.todo # <<>> => \A a \in Addr : Written(call.op, a) \subseteq expect[a]
  /\ told => armed /\ loaded
  /\ \A a \in Addr \ doubtful : Predicted[a] \in expect[a]
  /\ Untold => \A a \in Addr \ doubtful : Uncalled[a] \in expect[a]
  /\ Started /\ call.op.op = "program" =>
       \A a \in Addr \ doubtful : Predicted[a] = Zero
  /\ Started /\ call.op.op = "readBulk" /\ ~call.leftover /\ fw.inJob # <<>>
       /\ call.op.addr \notin doubtful => Head(fw.inJob) \in expect[call.op.addr]

IInv == Types /\ CallInv /\ LockInv /\ SupplyInv /\ ArrivedInv /\ PlaceInv /\ MemInv

---------------------------------------------------------------------------
(* The callbacks, field by field.                                          *)

LEMMA AddressSet ==
  ASSUME NEW f \in FirmwareState, NEW l \in Locks \ {"unlocked"}
  PROVE  /\ WithAddress(f, l) \in FirmwareState
         /\ WithAddress(f, l) = [f EXCEPT !.lock = l, !.addr = f.ctrlbuffer.addr]
<1>1. f.ctrlbuffer.addr \in Addr
  BY DEF FirmwareState, Payload
<1>2. WithAddress(f, l) = [f EXCEPT !.lock = l, !.addr = f.ctrlbuffer.addr]
  BY DEF WithAddress, FPGA_setaddr, FPGA_setlock, FPGA_releaselock, FirmwareState
<1>3. l \in Locks
  OBVIOUS
<1> QED BY <1>1, <1>2, <1>3 DEF FirmwareState

LEMMA ReadBulkEffect ==
  ASSUME NEW f \in FirmwareState
  PROVE  ctrl_readmem_bulk(f) =
           [f EXCEPT !.lock = "unlocked", !.addr = f.ctrlbuffer.addr,
                     !.inJob = IF f.inJob = <<>> THEN <<f.mem[f.ctrlbuffer.addr]>> ELSE f.inJob,
                     !.more = f.inJob = <<>> \/ f.more]
<1> DEFINE a == [f EXCEPT !.lock = "blockin", !.addr = f.ctrlbuffer.addr]
<1>1. WithAddress(f, "blockin") = a
  BY AddressSet DEF Locks
<1>2. a.inJob = f.inJob /\ a.mem = f.mem /\ a.addr = f.ctrlbuffer.addr /\ a.more = f.more
  BY DEF FirmwareState
<1>3. CASE f.inJob = <<>>
  <2>1. ctrl_readmem_bulk(f) = [[a EXCEPT !.inJob = <<a.mem[a.addr]>>, !.more = TRUE]
                                  EXCEPT !.lock = "unlocked"]
    BY <1>1, <1>2, <1>3 DEF ctrl_readmem_bulk, bulk_in_run, BusyIn, FPGA_releaselock
  <2> QED BY <1>2, <1>3, <2>1 DEF FirmwareState
<1>4. CASE f.inJob # <<>>
  <2>1. ctrl_readmem_bulk(f) = [a EXCEPT !.lock = "unlocked"]
    BY <1>1, <1>2, <1>4 DEF ctrl_readmem_bulk, bulk_in_run, BusyIn, FPGA_releaselock
  <2> QED BY <1>2, <1>4, <2>1 DEF FirmwareState
<1> QED BY <1>3, <1>4

LEMMA ReadCtrlEffect ==
  ASSUME NEW f \in FirmwareState
  PROVE  ctrl_readmem_ctrl(f) =
           [f EXCEPT !.lock = "unlocked", !.addr = f.ctrlbuffer.addr, !.loading = TRUE]
<1>1. WithAddress(f, "ctrlmem") = [f EXCEPT !.lock = "ctrlmem", !.addr = f.ctrlbuffer.addr]
  BY AddressSet DEF Locks
<1> QED BY <1>1 DEF ctrl_readmem_ctrl, FPGA_releaselock, FirmwareState

LEMMA WriteCtrlEffect ==
  ASSUME NEW f \in FirmwareState
  PROVE  ctrl_writemem_ctrl(f) =
           [f EXCEPT !.lock = "unlocked", !.addr = f.ctrlbuffer.addr,
                     !.mem = [@ EXCEPT ![f.ctrlbuffer.addr] = f.ctrlbuffer.val]]
<1> DEFINE a == [f EXCEPT !.lock = "generic", !.addr = f.ctrlbuffer.addr]
<1>1. WithAddress(f, "generic") = a
  BY AddressSet DEF Locks
<1>2. a.ctrlbuffer = f.ctrlbuffer /\ a.mem = f.mem /\ a.addr = f.ctrlbuffer.addr
  BY DEF FirmwareState
<1>3. ctrl_writemem_ctrl(f) =
        [[a EXCEPT !.mem = [a.mem EXCEPT ![a.addr] = a.ctrlbuffer.val]] EXCEPT !.lock = "unlocked"]
  BY <1>1, <1>2 DEF ctrl_writemem_ctrl, FPGA_releaselock, FirmwareState
<1> QED BY <1>2, <1>3 DEF FirmwareState

LEMMA WriteBulkEffect ==
  ASSUME NEW f \in FirmwareState
  PROVE  ctrl_writemem_bulk(f) = [f EXCEPT !.lock = "unlocked", !.addr = f.ctrlbuffer.addr]
<1>1. WithAddress(f, "blockout") = [f EXCEPT !.lock = "blockout", !.addr = f.ctrlbuffer.addr]
  BY AddressSet DEF Locks
<1> QED BY <1>1 DEF ctrl_writemem_bulk, FPGA_releaselock, FirmwareState

\* What a callback does, by its request: all the proofs need of it.
LEMMA CalledEffect ==
  ASSUME NEW f \in FirmwareState, Len(f.inJob) <= 1
  PROVE  /\ Called(f) \in FirmwareState /\ Len(Called(f).inJob) <= 1
         /\ Called(f).callback = NONE
         /\ Called(f).ctrlbuffer = f.ctrlbuffer /\ Called(f).wValue = f.wValue
         /\ Called(f).lock = IF f.callback \in MemoryRequests THEN "unlocked" ELSE f.lock
         /\ Called(f).addr = IF f.callback \in MemoryRequests THEN f.ctrlbuffer.addr ELSE f.addr
         /\ Called(f).usage = IF f.callback # "FPGA_PROGRAM" THEN f.usage
                              ELSE IF f.wValue = 161 THEN "fpgabitstream"
                              ELSE IF f.wValue = 162 THEN "emem" ELSE f.usage
         /\ Called(f).loading <=> f.callback = "MEMREAD_CTRL" \/ f.loading
         /\ Called(f).inJob = IF f.callback = "MEMREAD_BULK" /\ f.inJob = <<>>
                              THEN <<f.mem[f.ctrlbuffer.addr]>> ELSE f.inJob
         /\ Called(f).mem =
              IF f.callback = "MEMWRITE_CTRL"
              THEN [f.mem EXCEPT ![f.ctrlbuffer.addr] = f.ctrlbuffer.val]
              ELSE IF f.callback = "FPGA_PROGRAM" /\ f.wValue = 160 THEN [x \in Addr |-> Zero]
              ELSE f.mem
<1>1. /\ f.ctrlbuffer.addr \in Addr /\ f.ctrlbuffer.val \in Value /\ Zero \in Value
      /\ f.mem \in [Addr -> Value] /\ f.addr \in Addr /\ f.wValue \in Nat
      /\ f.inJob \in Seq(Value) /\ f.more \in BOOLEAN /\ f.loading \in BOOLEAN
      /\ f.callback \in OutRequests \cup {NONE}
      /\ NONE \notin OutRequests
  BY VendorRequestsAssumption DEF FirmwareState, Payload, OutRequests, MemoryRequests, NONE
<1>2. CASE f.callback = "MEMREAD_BULK"
  <2> DEFINE j == IF f.inJob = <<>> THEN <<f.mem[f.ctrlbuffer.addr]>> ELSE f.inJob
             m == f.inJob = <<>> \/ f.more
  <2>1. Called(f) = [f EXCEPT !.lock = "unlocked", !.addr = f.ctrlbuffer.addr,
                              !.inJob = j, !.more = m, !.callback = NONE]
    BY <1>2, ReadBulkEffect DEF Called, FirmwareState
  <2>2. j \in Seq(Value) /\ Len(j) <= 1 /\ m \in BOOLEAN
    BY <1>1
  <2>3. j = IF f.callback = "MEMREAD_BULK" /\ f.inJob = <<>>
            THEN <<f.mem[f.ctrlbuffer.addr]>> ELSE f.inJob
    BY <1>2
  <2> HIDE DEF j, m
  <2>4. Called(f) \in FirmwareState
    BY <1>1, <2>1, <2>2 DEF FirmwareState, Locks
  <2> QED BY <1>1, <1>2, <2>1, <2>2, <2>3, <2>4 DEF FirmwareState, MemoryRequests
<1>3. CASE f.callback = "MEMREAD_CTRL"
  <2>1. Called(f) = [f EXCEPT !.lock = "unlocked", !.addr = f.ctrlbuffer.addr,
                              !.loading = TRUE, !.callback = NONE]
    BY <1>3, ReadCtrlEffect DEF Called, FirmwareState
  <2>2. Called(f) \in FirmwareState
    BY <1>1, <2>1 DEF FirmwareState, Locks
  <2> QED BY <1>1, <1>3, <2>1, <2>2 DEF FirmwareState, MemoryRequests
<1>4. CASE f.callback = "MEMWRITE_BULK"
  <2>1. Called(f) = [f EXCEPT !.lock = "unlocked", !.addr = f.ctrlbuffer.addr,
                              !.callback = NONE]
    BY <1>4, WriteBulkEffect DEF Called, FirmwareState
  <2>2. Called(f) \in FirmwareState
    BY <1>1, <2>1 DEF FirmwareState, Locks
  <2> QED BY <1>1, <1>4, <2>1, <2>2 DEF FirmwareState, MemoryRequests
<1>5. CASE f.callback = "MEMWRITE_CTRL"
  <2> DEFINE m == [f.mem EXCEPT ![f.ctrlbuffer.addr] = f.ctrlbuffer.val]
  <2>1. Called(f) = [f EXCEPT !.lock = "unlocked", !.addr = f.ctrlbuffer.addr,
                              !.mem = m, !.callback = NONE]
    BY <1>5, WriteCtrlEffect DEF Called, FirmwareState
  <2>2. m \in [Addr -> Value]
    BY <1>1
  <2>3. m = [f.mem EXCEPT ![f.ctrlbuffer.addr] = f.ctrlbuffer.val]
    OBVIOUS
  <2> HIDE DEF m
  <2>4. Called(f) \in FirmwareState
    BY <1>1, <2>1, <2>2 DEF FirmwareState, Locks
  <2> QED BY <1>1, <1>5, <2>1, <2>3, <2>4 DEF FirmwareState, MemoryRequests
<1>6. CASE f.callback = "FPGA_PROGRAM"
  <2> DEFINE z == [x \in Addr |-> Zero]
  <2>1. z \in [Addr -> Value] /\ z = [x \in Addr |-> Zero]
    BY <1>1
  <2> HIDE DEF z
  <2>2. CASE f.wValue = 160
    <3>1. Called(f) = [f EXCEPT !.mem = z, !.callback = NONE]
      BY <1>6, <2>1, <2>2 DEF Called, ctrl_progfpga_bulk, FirmwareState
    <3>2. Called(f) \in FirmwareState
      BY <1>1, <2>1, <3>1 DEF FirmwareState
    <3> QED BY <1>1, <1>6, <2>1, <2>2, <3>1, <3>2 DEF FirmwareState, MemoryRequests
  <2>3. CASE f.wValue = 161
    <3>1. Called(f) = [f EXCEPT !.usage = "fpgabitstream", !.callback = NONE]
      BY <1>6, <2>3 DEF Called, ctrl_progfpga_bulk, FirmwareState
    <3>2. Called(f) \in FirmwareState
      BY <1>1, <3>1 DEF FirmwareState
    <3> QED BY <1>1, <1>6, <2>3, <3>1, <3>2 DEF FirmwareState, MemoryRequests
  <2>4. CASE f.wValue = 162
    <3>1. Called(f) = [f EXCEPT !.usage = "emem", !.callback = NONE]
      BY <1>6, <2>4 DEF Called, ctrl_progfpga_bulk, FirmwareState
    <3>2. Called(f) \in FirmwareState
      BY <1>1, <3>1 DEF FirmwareState
    <3> QED BY <1>1, <1>6, <2>4, <3>1, <3>2 DEF FirmwareState, MemoryRequests
  <2>5. CASE f.wValue \notin {160, 161, 162}
    <3>1. Called(f) = [f EXCEPT !.callback = NONE]
      BY <1>6, <2>5 DEF Called, ctrl_progfpga_bulk, FirmwareState
    <3>2. Called(f) \in FirmwareState
      BY <1>1, <3>1 DEF FirmwareState
    <3> QED BY <1>1, <1>6, <2>5, <3>1, <3>2 DEF FirmwareState, MemoryRequests
  <2> QED BY <2>2, <2>3, <2>4, <2>5
<1>7. CASE f.callback \in {"CHANGE_PWR", NONE}
  <2>1. Called(f) = [f EXCEPT !.callback = NONE]
    BY <1>7 DEF Called, NONE
  <2>2. Called(f) \in FirmwareState
    BY <1>1, <2>1 DEF FirmwareState
  <2> QED BY <1>1, <1>7, <2>1, <2>2 DEF FirmwareState, MemoryRequests, NONE
<1> QED BY <1>1, <1>2, <1>3, <1>4, <1>5, <1>6, <1>7 DEF OutRequests, MemoryRequests

---------------------------------------------------------------------------
(* The other interrupts.                                                   *)

LEMMA SetupOutEffect ==
  ASSUME NEW f \in FirmwareState, NEW r, r.kind \in OutRequests, r.wValue \in Nat
  PROVE  LET g == main_setup_out_received(f, r)
         IN /\ g \in FirmwareState
            /\ g.usage = "emem" /\ g.addr = f.addr /\ g.mem = f.mem /\ g.inJob = f.inJob
            /\ g.ctrlbuffer = f.ctrlbuffer /\ g.loading = f.loading /\ g.wValue = r.wValue
            /\ ~Accepted(f, r) => g.callback = f.callback /\ g.lock = f.lock
            /\ Accepted(f, r) => g.callback = r.kind
            /\ Accepted(f, r) /\ r.kind \notin MemoryRequests => g.lock = f.lock
<1> DEFINE s == [f EXCEPT !.usage = "emem", !.wValue = r.wValue]
           t == [f EXCEPT !.usage = "emem", !.wValue = r.wValue, !.callback = r.kind]
           u == [f EXCEPT !.usage = "emem", !.wValue = r.wValue, !.callback = r.kind,
                          !.lock = "usblocked"]
<1>1. CASE ~Accepted(f, r)
  <2>1. main_setup_out_received(f, r) = s
    BY <1>1 DEF main_setup_out_received
  <2>2. s \in FirmwareState
    BY DEF FirmwareState
  <2> QED BY <1>1, <2>1, <2>2 DEF FirmwareState
<1>2. CASE Accepted(f, r) /\ r.kind \notin MemoryRequests
  <2>1. main_setup_out_received(f, r) = t
    BY <1>2 DEF main_setup_out_received, FirmwareState
  <2>2. t \in FirmwareState
    BY DEF FirmwareState
  <2> QED BY <1>2, <2>1, <2>2 DEF FirmwareState
<1>3. CASE Accepted(f, r) /\ r.kind \in MemoryRequests
  <2>1. f.lock = "unlocked"
    BY <1>3 DEF Accepted
  <2>2. main_setup_out_received(f, r) = u
    BY <1>3, <2>1 DEF main_setup_out_received, FPGA_setlock, FirmwareState
  <2>3. u \in FirmwareState
    BY DEF FirmwareState, Locks
  <2> QED BY <1>3, <2>2, <2>3 DEF FirmwareState
<1> QED BY <1>1, <1>2, <1>3

LEMMA SetupInEffect ==
  ASSUME NEW f \in FirmwareState
  PROVE  /\ main_setup_in_received(f) = [f EXCEPT !.loading = FALSE]
         /\ main_setup_in_received(f) \in FirmwareState
<1>1. [f EXCEPT !.loading = FALSE].lock = f.lock
  BY DEF FirmwareState
<1>2. main_setup_in_received(f) = [f EXCEPT !.loading = FALSE]
  BY <1>1 DEF main_setup_in_received, FPGA_setlock
<1> QED BY <1>2 DEF FirmwareState

\* The FPGA's memory after the interrupt of a bulk OUT job, and all else but the lock.
LEMMA BulkOutEffect ==
  ASSUME NEW f \in FirmwareState, NEW val \in Value
  PROVE  LET g == main_vendor_bulk_out_received(f, val)
         IN /\ g \in FirmwareState
            /\ g.mem = IF f.usage = "emem" THEN [f.mem EXCEPT ![f.addr] = val] ELSE f.mem
            /\ g.lock \in {f.lock, "unlocked"} /\ g.callback = f.callback
            /\ g.wValue = f.wValue /\ g.ctrlbuffer = f.ctrlbuffer /\ g.usage = f.usage
            /\ g.addr = f.addr /\ g.loading = f.loading /\ g.inJob = f.inJob
<1> DEFINE s == IF f.lock = "blockout" THEN FPGA_releaselock(f) ELSE f
<1>1. /\ s \in FirmwareState /\ s.mem = f.mem
      /\ s.lock \in {f.lock, "unlocked"} /\ s.callback = f.callback
      /\ s.wValue = f.wValue /\ s.ctrlbuffer = f.ctrlbuffer /\ s.usage = f.usage
      /\ s.addr = f.addr /\ s.loading = f.loading /\ s.inJob = f.inJob
  BY DEF FPGA_releaselock, FirmwareState, Locks
<1>2. main_vendor_bulk_out_received(f, val) =
        IF f.usage = "emem" THEN [s EXCEPT !.mem = [s.mem EXCEPT ![f.addr] = val]] ELSE f
  BY <1>1 DEF main_vendor_bulk_out_received, FirmwareState
<1> HIDE DEF s
<1>3. CASE f.usage = "emem"
  <2> DEFINE m == [s.mem EXCEPT ![f.addr] = val]
  <2>1. m \in [Addr -> Value] /\ m = [f.mem EXCEPT ![f.addr] = val]
    BY <1>1 DEF FirmwareState
  <2> HIDE DEF m
  <2>2. main_vendor_bulk_out_received(f, val) = [s EXCEPT !.mem = m]
    BY <1>2, <1>3 DEF m
  <2>3. [s EXCEPT !.mem = m] \in FirmwareState
    BY <1>1, <2>1 DEF FirmwareState
  <2> QED BY <1>1, <1>3, <2>1, <2>2, <2>3 DEF FirmwareState
<1>4. CASE f.usage # "emem"
  BY <1>2, <1>4
<1> QED BY <1>3, <1>4

LEMMA PacketTakenEffect ==
  ASSUME NEW f \in FirmwareState
  PROVE  LET g == PacketTaken(f)
         IN /\ g \in FirmwareState /\ Len(g.inJob) <= 1
            /\ g.inJob # <<>> => g.inJob = <<f.mem[f.addr]>>
            /\ g.lock = f.lock /\ g.callback = f.callback /\ g.wValue = f.wValue
            /\ g.ctrlbuffer = f.ctrlbuffer /\ g.usage = f.usage /\ g.addr = f.addr
            /\ g.mem = f.mem /\ g.loading = f.loading
<1> DEFINE j == IF f.more THEN <<f.mem[f.addr]>> ELSE <<>>
<1>1. j \in Seq(Value) /\ Len(j) <= 1 /\ (j # <<>> => j = <<f.mem[f.addr]>>)
  BY DEF FirmwareState
<1> HIDE DEF j
<1>2. PacketTaken(f) = [f EXCEPT !.inJob = j, !.more = FALSE]
  BY DEF PacketTaken, j
<1>3. [f EXCEPT !.inJob = j, !.more = FALSE] \in FirmwareState
  BY <1>1 DEF FirmwareState
<1> QED BY <1>1, <1>2, <1>3 DEF FirmwareState

LEMMA ResetEffect ==
  ASSUME NEW f \in FirmwareState
  PROVE  LET g == udc_reset(f)
         IN /\ g \in FirmwareState /\ Len(g.inJob) <= 1
            /\ g.callback = NONE /\ g.inJob = <<>> /\ g.mem = f.mem
            /\ g.lock = f.lock
<1> DEFINE e == <<>>
<1>1. e \in Seq(Value) /\ Len(e) = 0 /\ e = <<>>
  OBVIOUS
<1> HIDE DEF e
<1>2. udc_reset(f) = [f EXCEPT !.callback = NONE, !.inJob = e, !.more = FALSE]
  BY <1>1 DEF udc_reset
<1>3. udc_reset(f) \in FirmwareState
  BY <1>1, <1>2 DEF FirmwareState
<1> QED BY <1>1, <1>2, <1>3 DEF FirmwareState

---------------------------------------------------------------------------
(* What a call has still to do.                                            *)

LEMMA TransfersOf ==
  ASSUME NEW o \in Operation
  PROVE  /\ Transfers(o) \in Seq(AnyTransfer) /\ Transfers(o) # <<>>
         /\ o.op = "readCtrl" =>
              Transfers(o) = <<OutReq("MEMREAD_CTRL", 0, o), Transfer("in", "MEMREAD_CTRL", 0, o)>>
         /\ o.op = "readBulk" =>
              Transfers(o) = <<OutReq("MEMREAD_BULK", 0, o), Transfer("bulkIn", "MEMREAD_BULK", 0, o),
                               Transfer("bulkIn", "MEMREAD_BULK", 0, o)>>
         /\ o.op = "writeCtrl" => Transfers(o) = <<OutReq("MEMWRITE_CTRL", 0, o)>>
         /\ o.op = "writeBulk" =>
              Transfers(o) = <<OutReq("MEMWRITE_BULK", 0, o),
                               Transfer("bulkOut", "MEMWRITE_BULK", 0, o)>>
         /\ o.op = "program" =>
              Transfers(o) = <<OutReq("FPGA_PROGRAM", 160, o), OutReq("FPGA_PROGRAM", 161, o),
                               Transfer("bulkOut", "FPGA_PROGRAM", 0, o),
                               Transfer("in", "FPGA_STATUS", 0, o),
                               OutReq("FPGA_PROGRAM", 162, o)>>
         /\ o.op = "power" => Transfers(o) = <<OutReq("CHANGE_PWR", o.src, o)>>
<1>1. ASSUME NEW h \in {"out", "in", "bulkOut", "bulkIn"}, NEW k \in Kinds, NEW w \in Nat
      PROVE  Transfer(h, k, w, o) \in AnyTransfer
  <2>1. [addr |-> o.addr, val |-> o.val] \in Payload
    BY DEF Operation, Payload
  <2> QED BY <2>1 DEF Transfer, AnyTransfer
<1>2. /\ o.src \in Nat /\ 0 \in Nat /\ 160 \in Nat /\ 161 \in Nat /\ 162 \in Nat
      /\ o.op \in {"readCtrl", "readBulk", "writeCtrl", "writeBulk", "program", "power"}
  BY DEF Operation
<1>3. {"MEMREAD_CTRL", "MEMREAD_BULK", "MEMWRITE_CTRL", "MEMWRITE_BULK", "FPGA_PROGRAM",
       "FPGA_STATUS", "CHANGE_PWR"} \subseteq Kinds
  BY DEF Kinds, OutRequests, MemoryRequests
<1>4. CASE o.op = "readCtrl"
  <2>1. Transfers(o) = <<OutReq("MEMREAD_CTRL", 0, o), Transfer("in", "MEMREAD_CTRL", 0, o)>>
    BY <1>4 DEF Transfers, cmdReadMem
  <2>2. OutReq("MEMREAD_CTRL", 0, o) \in AnyTransfer /\ Transfer("in", "MEMREAD_CTRL", 0, o) \in AnyTransfer
    BY <1>1, <1>2, <1>3 DEF OutReq
  <2> QED BY <1>4, <2>1, <2>2
<1>5. CASE o.op = "readBulk"
  <2>1. Transfers(o) = <<OutReq("MEMREAD_BULK", 0, o), Transfer("bulkIn", "MEMREAD_BULK", 0, o),
                         Transfer("bulkIn", "MEMREAD_BULK", 0, o)>>
    BY <1>5 DEF Transfers, cmdReadMem
  <2>2. OutReq("MEMREAD_BULK", 0, o) \in AnyTransfer /\ Transfer("bulkIn", "MEMREAD_BULK", 0, o) \in AnyTransfer
    BY <1>1, <1>2, <1>3 DEF OutReq
  <2> QED BY <1>5, <2>1, <2>2
<1>6. CASE o.op = "writeCtrl"
  <2>1. Transfers(o) = <<OutReq("MEMWRITE_CTRL", 0, o)>>
    BY <1>6 DEF Transfers, cmdWriteMem
  <2>2. OutReq("MEMWRITE_CTRL", 0, o) \in AnyTransfer
    BY <1>1, <1>2, <1>3 DEF OutReq
  <2> QED BY <1>6, <2>1, <2>2
<1>7. CASE o.op = "writeBulk"
  <2>1. Transfers(o) = <<OutReq("MEMWRITE_BULK", 0, o), Transfer("bulkOut", "MEMWRITE_BULK", 0, o)>>
    BY <1>7 DEF Transfers, cmdWriteMem
  <2>2. OutReq("MEMWRITE_BULK", 0, o) \in AnyTransfer /\ Transfer("bulkOut", "MEMWRITE_BULK", 0, o) \in AnyTransfer
    BY <1>1, <1>2, <1>3 DEF OutReq
  <2> QED BY <1>7, <2>1, <2>2
<1>8. CASE o.op = "program"
  <2>1. Transfers(o) = <<OutReq("FPGA_PROGRAM", 160, o), OutReq("FPGA_PROGRAM", 161, o),
                         Transfer("bulkOut", "FPGA_PROGRAM", 0, o),
                         Transfer("in", "FPGA_STATUS", 0, o),
                         OutReq("FPGA_PROGRAM", 162, o)>>
    BY <1>8 DEF Transfers, FPGAProgram
  <2>2. /\ OutReq("FPGA_PROGRAM", 160, o) \in AnyTransfer
        /\ OutReq("FPGA_PROGRAM", 161, o) \in AnyTransfer
        /\ OutReq("FPGA_PROGRAM", 162, o) \in AnyTransfer
        /\ Transfer("bulkOut", "FPGA_PROGRAM", 0, o) \in AnyTransfer
        /\ Transfer("in", "FPGA_STATUS", 0, o) \in AnyTransfer
    BY <1>1, <1>2, <1>3 DEF OutReq
  <2> QED BY <1>8, <2>1, <2>2
<1>9. CASE o.op = "power"
  <2>1. Transfers(o) = <<OutReq("CHANGE_PWR", o.src, o)>>
    BY <1>9 DEF Transfers, changePowerSource
  <2>2. OutReq("CHANGE_PWR", o.src, o) \in AnyTransfer
    BY <1>1, <1>2, <1>3 DEF OutReq
  <2> QED BY <1>9, <2>1, <2>2
<1> QED BY <1>2, <1>4, <1>5, <1>6, <1>7, <1>8, <1>9

\* The next transfer of a call, by how many are left.
LEMMA NextTransfer ==
  ASSUME NEW o \in Operation, NEW rest \in Seq(AnyTransfer), rest # <<>>,
         EndOf(rest, Transfers(o))
  PROVE  \/ /\ o.op = "readCtrl" /\ Len(rest) = 2 /\ Len(Transfers(o)) = 2
            /\ Head(rest) = OutReq("MEMREAD_CTRL", 0, o)
         \/ /\ o.op = "readCtrl" /\ Len(rest) = 1 /\ Len(Transfers(o)) = 2
            /\ Head(rest) = Transfer("in", "MEMREAD_CTRL", 0, o)
         \/ /\ o.op = "readBulk" /\ Len(rest) = 3 /\ Len(Transfers(o)) = 3
            /\ Head(rest) = OutReq("MEMREAD_BULK", 0, o)
         \/ /\ o.op = "readBulk" /\ Len(rest) \in {1, 2} /\ Len(Transfers(o)) = 3
            /\ Head(rest) = Transfer("bulkIn", "MEMREAD_BULK", 0, o)
         \/ /\ o.op = "writeCtrl" /\ Len(rest) = 1 /\ Len(Transfers(o)) = 1
            /\ Head(rest) = OutReq("MEMWRITE_CTRL", 0, o)
         \/ /\ o.op = "writeBulk" /\ Len(rest) = 2 /\ Len(Transfers(o)) = 2
            /\ Head(rest) = OutReq("MEMWRITE_BULK", 0, o)
         \/ /\ o.op = "writeBulk" /\ Len(rest) = 1 /\ Len(Transfers(o)) = 2
            /\ Head(rest) = Transfer("bulkOut", "MEMWRITE_BULK", 0, o)
         \/ /\ o.op = "program" /\ Len(rest) = 5 /\ Len(Transfers(o)) = 5
            /\ Head(rest) = OutReq("FPGA_PROGRAM", 160, o)
         \/ /\ o.op = "program" /\ Len(rest) = 4 /\ Len(Transfers(o)) = 5
            /\ Head(rest) = OutReq("FPGA_PROGRAM", 161, o)
         \/ /\ o.op = "program" /\ Len(rest) = 3 /\ Len(Transfers(o)) = 5
            /\ Head(rest) = Transfer("bulkOut", "FPGA_PROGRAM", 0, o)
         \/ /\ o.op = "program" /\ Len(rest) = 2 /\ Len(Transfers(o)) = 5
            /\ Head(rest) = Transfer("in", "FPGA_STATUS", 0, o)
         \/ /\ o.op = "program" /\ Len(rest) = 1 /\ Len(Transfers(o)) = 5
            /\ Head(rest) = OutReq("FPGA_PROGRAM", 162, o)
         \/ /\ o.op = "power" /\ Len(rest) = 1 /\ Len(Transfers(o)) = 1
            /\ Head(rest) = OutReq("CHANGE_PWR", o.src, o)
<1> DEFINE t == Transfers(o)
           n == Len(rest)
<1>1. n \in Nat \ {0} /\ Head(rest) = rest[1] /\ n <= Len(t) /\ rest[1] = t[Len(t) - n + 1]
  BY DEF EndOf
<1>2. o.op \in {"readCtrl", "readBulk", "writeCtrl", "writeBulk", "program", "power"}
  BY DEF Operation
<1>3. CASE o.op = "readCtrl"
  <2>1. t = <<OutReq("MEMREAD_CTRL", 0, o), Transfer("in", "MEMREAD_CTRL", 0, o)>>
    BY <1>3, TransfersOf
  <2>2. Len(t) = 2 /\ t[1] = OutReq("MEMREAD_CTRL", 0, o) /\ t[2] = Transfer("in", "MEMREAD_CTRL", 0, o)
    BY <2>1
  <2> HIDE DEF t, n
  <2>3. (n = 2 /\ Head(rest) = t[1]) \/ (n = 1 /\ Head(rest) = t[2])
    BY <1>1, <2>2
  <2> QED BY <1>3, <2>2, <2>3 DEF t, n
<1>4. CASE o.op = "readBulk"
  <2>1. t = <<OutReq("MEMREAD_BULK", 0, o), Transfer("bulkIn", "MEMREAD_BULK", 0, o),
              Transfer("bulkIn", "MEMREAD_BULK", 0, o)>>
    BY <1>4, TransfersOf
  <2>2. /\ Len(t) = 3 /\ t[1] = OutReq("MEMREAD_BULK", 0, o)
        /\ t[2] = Transfer("bulkIn", "MEMREAD_BULK", 0, o)
        /\ t[3] = Transfer("bulkIn", "MEMREAD_BULK", 0, o)
    BY <2>1
  <2> HIDE DEF t, n
  <2>3. (n = 3 /\ Head(rest) = t[1]) \/ (n = 2 /\ Head(rest) = t[2]) \/ (n = 1 /\ Head(rest) = t[3])
    BY <1>1, <2>2
  <2> QED BY <1>4, <2>2, <2>3 DEF t, n
<1>5. CASE o.op = "writeCtrl"
  <2>1. t = <<OutReq("MEMWRITE_CTRL", 0, o)>>
    BY <1>5, TransfersOf
  <2>2. Len(t) = 1 /\ t[1] = OutReq("MEMWRITE_CTRL", 0, o)
    BY <2>1
  <2> HIDE DEF t, n
  <2>3. (n = 1 /\ Head(rest) = t[1])
    BY <1>1, <2>2
  <2> QED BY <1>5, <2>2, <2>3 DEF t, n
<1>6. CASE o.op = "writeBulk"
  <2>1. t = <<OutReq("MEMWRITE_BULK", 0, o), Transfer("bulkOut", "MEMWRITE_BULK", 0, o)>>
    BY <1>6, TransfersOf
  <2>2. /\ Len(t) = 2 /\ t[1] = OutReq("MEMWRITE_BULK", 0, o)
        /\ t[2] = Transfer("bulkOut", "MEMWRITE_BULK", 0, o)
    BY <2>1
  <2> HIDE DEF t, n
  <2>3. (n = 2 /\ Head(rest) = t[1]) \/ (n = 1 /\ Head(rest) = t[2])
    BY <1>1, <2>2
  <2> QED BY <1>6, <2>2, <2>3 DEF t, n
<1>7. CASE o.op = "program"
  <2>1. t = <<OutReq("FPGA_PROGRAM", 160, o), OutReq("FPGA_PROGRAM", 161, o),
              Transfer("bulkOut", "FPGA_PROGRAM", 0, o),
              Transfer("in", "FPGA_STATUS", 0, o), OutReq("FPGA_PROGRAM", 162, o)>>
    BY <1>7, TransfersOf
  <2>2. /\ Len(t) = 5 /\ t[1] = OutReq("FPGA_PROGRAM", 160, o)
        /\ t[2] = OutReq("FPGA_PROGRAM", 161, o)
        /\ t[3] = Transfer("bulkOut", "FPGA_PROGRAM", 0, o)
        /\ t[4] = Transfer("in", "FPGA_STATUS", 0, o) /\ t[5] = OutReq("FPGA_PROGRAM", 162, o)
    BY <2>1
  <2> HIDE DEF t, n
  <2>3. \/ (n = 5 /\ Head(rest) = t[1]) \/ (n = 4 /\ Head(rest) = t[2])
        \/ (n = 3 /\ Head(rest) = t[3]) \/ (n = 2 /\ Head(rest) = t[4])
        \/ (n = 1 /\ Head(rest) = t[5])
    BY <1>1, <2>2
  <2> QED BY <1>7, <2>2, <2>3 DEF t, n
<1>8. CASE o.op = "power"
  <2>1. t = <<OutReq("CHANGE_PWR", o.src, o)>>
    BY <1>8, TransfersOf
  <2>2. Len(t) = 1 /\ t[1] = OutReq("CHANGE_PWR", o.src, o)
    BY <2>1
  <2> HIDE DEF t, n
  <2>3. (n = 1 /\ Head(rest) = t[1])
    BY <1>1, <2>2
  <2> QED BY <1>8, <2>2, <2>3 DEF t, n
<1> QED BY <1>2, <1>3, <1>4, <1>5, <1>6, <1>7, <1>8

LEMMA NoneLeft ==
  ASSUME NEW s \in Seq(AnyTransfer) PROVE s = <<>> <=> Len(s) = 0
OBVIOUS

LEMMA RestOfCall ==
  ASSUME NEW s, NEW rest \in Seq(AnyTransfer), rest # <<>>, EndOf(rest, s), Len(s) \in Nat
  PROVE  /\ Tail(rest) \in Seq(AnyTransfer) /\ EndOf(Tail(rest), s)
         /\ Len(Tail(rest)) = Len(rest) - 1 /\ Len(rest) \in Nat \ {0}
         /\ Tail(rest) = <<>> <=> Len(rest) = 1
<1> DEFINE n == Len(rest)
<1>1. n \in Nat \ {0}
  OBVIOUS
<1>2. Tail(rest) \in Seq(AnyTransfer) /\ Len(Tail(rest)) = n - 1
  OBVIOUS
<1>3. \A i \in 1 .. n - 1 : Tail(rest)[i] = rest[i + 1]
  OBVIOUS
<1>4. Tail(rest) = <<>> <=> n = 1
  <2>1. Tail(rest) = <<>> <=> Len(Tail(rest)) = 0
    BY <1>2, NoneLeft
  <2> QED BY <1>1, <1>2, <2>1
<1>5. EndOf(Tail(rest), s)
  <2>1. n <= Len(s) /\ \A i \in 1 .. n : rest[i] = s[Len(s) - n + i]
    BY DEF EndOf
  <2> HIDE DEF n
  <2>2. ASSUME NEW i \in 1 .. n - 1 PROVE Tail(rest)[i] = s[Len(s) - (n - 1) + i]
    <3>1. i + 1 \in 1 .. n /\ Len(s) - n + (i + 1) = Len(s) - (n - 1) + i
      BY <1>1
    <3> QED BY <1>3, <2>1, <3>1
  <2> QED BY <1>1, <1>2, <2>1, <2>2 DEF EndOf
<1> QED BY <1>1, <1>2, <1>4, <1>5

---------------------------------------------------------------------------
(* The supply: the button's reads and writes, and the host's request.      *)

LEMMA SubsetsOfSupplies ==
  ASSUME NEW s \in SUBSET Supplies
  PROVE  s = {} \/ s = {"5V"} \/ s = {"host"} \/ s = Supplies
<1>1. s \subseteq {"5V", "host"}
  BY DEF Supplies
<1>2. CASE "5V" \in s /\ "host" \in s
  BY <1>1, <1>2 DEF Supplies
<1>3. CASE "5V" \in s /\ "host" \notin s
  BY <1>1, <1>3
<1>4. CASE "5V" \notin s /\ "host" \in s
  BY <1>1, <1>4
<1>5. CASE "5V" \notin s /\ "host" \notin s
  BY <1>1, <1>5
<1> QED BY <1>2, <1>3, <1>4, <1>5

\* Both lists switch one supply off and then the other on or off.
LEMMA Lists ==
  ASSUME NEW n \in 0 .. 2
  PROVE  \E p \in Supplies, w \in Write :
           /\ pwr_list(n) = <<Off(p), w>> /\ p # w.pin
           /\ Supply(n) = IF w.on THEN {w.pin} ELSE {}
           /\ \A s \in SUBSET Supplies :
                Supply(n) = IF w.on THEN (s \ {p}) \cup {w.pin} ELSE (s \ {p}) \ {w.pin}
<1>1. CASE n = 0
  <2>1. pwr_list(n) = <<Off("host"), Off("5V")>> /\ Supply(n) = {}
    BY <1>1 DEF pwr_list, Supply, phywhisperer_no_pwr
  <2>2. Off("5V") \in Write /\ Off("5V").pin = "5V" /\ ~Off("5V").on /\ "host" \in Supplies
    BY DEF Off, Write, Supplies
  <2>3. \A s \in SUBSET Supplies : (s \ {"host"}) \ {"5V"} = {}
    BY DEF Supplies
  <2> QED BY <2>1, <2>2, <2>3
<1>2. CASE n = 1
  <2>1. pwr_list(n) = <<Off("host"), On("5V")>> /\ Supply(n) = {"5V"}
    BY <1>2 DEF pwr_list, Supply, phywhisperer_5V_pwr
  <2>2. On("5V") \in Write /\ On("5V").pin = "5V" /\ On("5V").on /\ "host" \in Supplies
    BY DEF On, Write, Supplies
  <2>3. \A s \in SUBSET Supplies : (s \ {"host"}) \cup {"5V"} = {"5V"}
    BY DEF Supplies
  <2> QED BY <2>1, <2>2, <2>3
<1>3. CASE n = 2
  <2>1. pwr_list(n) = <<Off("5V"), On("host")>> /\ Supply(n) = {"host"}
    BY <1>3 DEF pwr_list, Supply, phywhisperer_host_pwr
  <2>2. On("host") \in Write /\ On("host").pin = "host" /\ On("host").on /\ "5V" \in Supplies
    BY DEF On, Write, Supplies
  <2>3. \A s \in SUBSET Supplies : (s \ {"5V"}) \cup {"host"} = {"host"}
    BY DEF Supplies
  <2> QED BY <2>1, <2>2, <2>3
<1> QED BY <1>1, <1>2, <1>3

LEMMA NoSupply == pwr_list(0) = phywhisperer_no_pwr /\ Supply(0) = {}
BY DEF pwr_list, Supply

LEMMA WantedList ==
  ASSUME PowerTypeOK
  PROVE  LET supply == IF before = {} THEN Supply(USB_PWR_STATE) ELSE {}
         IN \E p \in Supplies, w \in Write :
              /\ Wanted = <<Off(p), w>> /\ Off(p) \in Write /\ p # w.pin
              /\ supply = IF w.on THEN {w.pin} ELSE {}
              /\ \A s \in SUBSET Supplies :
                   supply = IF w.on THEN (s \ {p}) \cup {w.pin} ELSE (s \ {p}) \ {w.pin}
<1> DEFINE m == IF before = {} THEN USB_PWR_STATE ELSE 0
<1>1. m \in 0 .. 2
  BY DEF PowerTypeOK
<1>2. /\ Wanted = pwr_list(m)
      /\ Supply(m) = IF before = {} THEN Supply(USB_PWR_STATE) ELSE {}
  BY NoSupply DEF Wanted
<1> HIDE DEF m
<1>3. PICK p \in Supplies, w \in Write :
        /\ pwr_list(m) = <<Off(p), w>> /\ p # w.pin
        /\ Supply(m) = IF w.on THEN {w.pin} ELSE {}
        /\ \A s \in SUBSET Supplies :
             Supply(m) = IF w.on THEN (s \ {p}) \cup {w.pin} ELSE (s \ {p}) \ {w.pin}
  BY <1>1, Lists
<1>4. Off(p) \in Write
  BY DEF Off, Write
<1> QED BY <1>2, <1>3, <1>4

\* What SupplyAsAsked says of a step.
Asked ==
  ~raced' =>
    /\ before' # Supplies => pins' # Supplies
    /\ main = "write" /\ main' = "sleep" =>
         pins' = IF before = {} THEN Supply(USB_PWR_STATE) ELSE {}

LEMMA ChangePowerKeepsSupply ==
  ASSUME PowerTypeOK, SupplyInv, NEW n \in 0 .. 2, ChangePower(n)
  PROVE  PowerTypeOK' /\ SupplyInv' /\ Asked
<1>1. /\ pins' = Supply(n) /\ USB_PWR_STATE' = n /\ (raced' <=> main # "sleep")
      /\ UNCHANGED <<main, todo, before>> /\ raced' \in BOOLEAN
  BY DEF ChangePower
<1>2. Supply(n) \subseteq Supplies /\ Supply(n) # Supplies
  <2>1. Supply(n) \in {{}, {"5V"}, {"host"}}
    BY DEF Supply
  <2>2. {"5V"} # Supplies /\ {"host"} # Supplies /\ {} # Supplies
    BY DEF Supplies
  <2> QED BY <2>1, <2>2 DEF Supplies
<1>3. PowerTypeOK'
  BY <1>1, <1>2 DEF PowerTypeOK
<1>4. SupplyInv' /\ Asked
  BY <1>1, <1>2 DEF SupplyInv, Asked
<1> QED BY <1>3, <1>4

LEMMA WritePinKeepsSupply ==
  ASSUME PowerTypeOK, SupplyInv, WritePin PROVE PowerTypeOK' /\ SupplyInv' /\ Asked
<1> DEFINE supply == IF before = {} THEN Supply(USB_PWR_STATE) ELSE {}
<1>1. /\ main = "write" /\ todo \in Seq(Write) /\ todo # <<>> /\ Len(todo) \in {1, 2}
      /\ pins \subseteq Supplies /\ before \subseteq Supplies /\ raced \in BOOLEAN
  <2>1. /\ main = "write" /\ todo \in Seq(Write) /\ todo # <<>> /\ Len(todo) <= 2
        /\ pins \subseteq Supplies /\ before \subseteq Supplies /\ raced \in BOOLEAN
    <3>1. main = "write"
      BY DEF WritePin
    <3>2. todo # <<>>
      BY <3>1 DEF SupplyInv
    <3> QED BY <3>1, <3>2 DEF PowerTypeOK
  <2>2. Len(todo) \in Nat /\ Len(todo) # 0
    BY <2>1
  <2>3. Len(todo) \in {1, 2}
    <3>1. \A n \in Nat : n # 0 /\ n <= 2 => n \in {1, 2}
      OBVIOUS
    <3> QED BY <2>1, <2>2, <3>1
  <2> QED BY <2>1, <2>3
<1>2. /\ pins' = IF Head(todo).on THEN pins \cup {Head(todo).pin} ELSE pins \ {Head(todo).pin}
      /\ todo' = Tail(todo) /\ main' = IF Len(todo) = 1 THEN "sleep" ELSE "write"
      /\ UNCHANGED <<USB_PWR_STATE, before, raced>>
  BY DEF WritePin
<1>3. /\ Head(todo) \in Write /\ Tail(todo) \in Seq(Write) /\ Len(Tail(todo)) = Len(todo) - 1
  BY <1>1
<1>4. PowerTypeOK'
  <2>1. pins' \subseteq Supplies
    BY <1>1, <1>2, <1>3 DEF Write
  <2>2. Len(todo') <= 2 /\ todo' \in Seq(Write)
    BY <1>1, <1>2, <1>3
  <2> QED BY <1>2, <2>1, <2>2 DEF PowerTypeOK
<1>5. main' = "write" => todo' # <<>>
  <2>1. main' = "write" => Len(todo') = 1
    BY <1>1, <1>2, <1>3
  <2> QED BY <2>1
<1>6. ASSUME ~raced
      PROVE  /\ before # Supplies => pins' # Supplies
             /\ main' = "write" => /\ todo' = Tail(Wanted)
                                   /\ pins' = before \ {Wanted[1].pin}
             /\ main' = "sleep" => pins' = supply
  <2>1. PICK p \in Supplies, w \in Write :
          /\ Wanted = <<Off(p), w>> /\ Off(p) \in Write /\ p # w.pin
          /\ supply = IF w.on THEN {w.pin} ELSE {}
          /\ \A s \in SUBSET Supplies :
               supply = IF w.on THEN (s \ {p}) \cup {w.pin} ELSE (s \ {p}) \ {w.pin}
    BY WantedList
  <2>2. /\ Len(Wanted) = 2 /\ Head(Wanted) = Off(p) /\ Wanted[1] = Off(p)
        /\ Tail(Wanted) = <<w>> /\ Len(Tail(Wanted)) = 1 /\ Head(Tail(Wanted)) = w
        /\ Off(p).pin = p /\ ~Off(p).on
    BY <2>1 DEF Off
  <2>3. supply # Supplies
    <3>1. {w.pin} # Supplies /\ {} # Supplies
      BY DEF Supplies
    <3> QED BY <2>1, <3>1
  <2> HIDE DEF supply
  <2>4. CASE todo = Wanted /\ pins = before
    <3>0. Len(todo) = 2 /\ Head(todo).pin = p /\ ~Head(todo).on /\ Tail(todo) = Tail(Wanted)
      BY <2>2, <2>4
    <3>1. pins' = before \ {p} /\ todo' = Tail(Wanted) /\ main' = "write"
      <4>1. pins' = pins \ {Head(todo).pin}
        BY <1>2, <3>0
      <4>2. todo' = Tail(todo) /\ main' = "write"
        BY <1>2, <3>0
      <4> QED BY <2>4, <3>0, <4>1, <4>2
    <3>2. pins' # Supplies
      BY <2>1, <3>1
    <3> QED BY <2>2, <3>1, <3>2
  <2>5. CASE todo = Tail(Wanted) /\ pins = before \ {Wanted[1].pin}
    <3>1. main' = "sleep"
      BY <1>2, <2>2, <2>5
    <3>2. pins' = IF w.on THEN (before \ {p}) \cup {w.pin} ELSE (before \ {p}) \ {w.pin}
      BY <1>2, <2>2, <2>5
    <3>3. pins' = supply
      BY <1>1, <2>1, <3>2
    <3> QED BY <2>3, <3>1, <3>3
  <2> QED BY <1>1, <1>6, <2>4, <2>5 DEF SupplyInv
<1>7. Wanted' = Wanted
  BY <1>2 DEF Wanted
<1>8. main' \in {"sleep", "write"}
  BY <1>2
<1>9. SupplyInv'
  BY <1>2, <1>5, <1>6, <1>7, <1>8 DEF SupplyInv
<1>10. Asked
  BY <1>2, <1>6 DEF Asked
<1> QED BY <1>4, <1>9, <1>10

LEMMA MainLoopKeepsSupply ==
  ASSUME PowerTypeOK, SupplyInv, MainLoop PROVE PowerTypeOK' /\ SupplyInv' /\ Asked
<1>1. CASE Button
  BY <1>1 DEF Button, PowerTypeOK, SupplyInv, Asked
<1>2. CASE ReadHost
  BY <1>2 DEF ReadHost, PowerTypeOK, SupplyInv, Asked
<1>3. CASE Read5V
  <2>1. "host" \notin pins /\ "5V" \notin pins /\ pins \subseteq Supplies => pins = {}
    BY DEF Supplies
  <2> QED BY <1>3, <2>1 DEF Read5V, PowerTypeOK, SupplyInv, Asked
<1>4. CASE Choose
  <2>1. /\ main \in {"on", "off"} /\ main' = "write" /\ todo' = Toggle(main, USB_PWR_STATE)
        /\ UNCHANGED <<pins, USB_PWR_STATE, before, raced>>
    BY <1>4 DEF Choose
  <2>2. Toggle(main, USB_PWR_STATE) \in {pwr_list(USB_PWR_STATE), pwr_list(0)}
    BY <2>1, NoSupply DEF Toggle
  <2>3. \A n \in 0 .. 2 : pwr_list(n) \in Seq(Write) /\ Len(pwr_list(n)) = 2
    <3> TAKE n \in 0 .. 2
    <3>1. PICK p \in Supplies, w \in Write : pwr_list(n) = <<Off(p), w>>
      BY Lists
    <3>2. Off(p) \in Write
      BY DEF Off, Write
    <3> QED BY <3>1, <3>2
  <2>4. todo' \in Seq(Write) /\ Len(todo') = 2
    BY <2>1, <2>2, <2>3 DEF PowerTypeOK
  <2>5. PowerTypeOK'
    BY <2>1, <2>4 DEF PowerTypeOK
  <2>6. ~raced => todo' = Wanted' /\ pins = before
    BY <2>1 DEF SupplyInv, Wanted, Toggle
  <2>7. todo' # <<>>
    BY <2>4
  <2> QED BY <2>1, <2>5, <2>6, <2>7 DEF SupplyInv, Asked
<1>5. CASE WritePin
  BY <1>5, WritePinKeepsSupply
<1> QED BY <1>1, <1>2, <1>3, <1>4, <1>5 DEF MainLoop

LEMMA SupplyStep ==
  ASSUME PowerTypeOK, SupplyInv,
         (\E n \in 0 .. 2 : ChangePower(n)) \/ MainLoop \/ UNCHANGED powerVars
  PROVE  PowerTypeOK' /\ SupplyInv' /\ (Asked \/ UNCHANGED powerVars)
<1>1. CASE UNCHANGED powerVars
  BY <1>1 DEF powerVars, PowerTypeOK, SupplyInv, Wanted
<1> QED BY <1>1, ChangePowerKeepsSupply, MainLoopKeepsSupply

---------------------------------------------------------------------------
(* The parts of a step that several actions share.                         *)

LEMMA TypesOf ==
  ASSUME Types
  PROVE  /\ armed \in BOOLEAN /\ runs \in {0, 1} /\ reset \in BOOLEAN
         /\ fw \in FirmwareState /\ Len(fw.inJob) <= 1
         /\ arrived \in Value \cup {NONE} /\ ahead \in BOOLEAN
         /\ expect \in [Addr -> SUBSET Value] /\ doubtful \subseteq Addr
         /\ loaded \in BOOLEAN /\ told \in BOOLEAN /\ leaked \in BOOLEAN
         /\ call \in CallType /\ ops \subseteq Operation /\ PowerTypeOK
BY DEF Types, TypeOK

LEMMA NoCallType == NoCall \in CallType /\ NoCall.todo = <<>> /\ NoCall.stage = "idle"
BY DEF NoCall, CallType

LEMMA WrittenType ==
  ASSUME NEW o \in Operation, NEW a \in Addr
  PROVE  Written(o, a) \subseteq Value
BY VendorRequestsAssumption DEF Written, Operation

\* The request the host is in.
LEMMA Requested ==
  ASSUME Types, CallInv, call.todo # <<>>
  PROVE  /\ call.op \in Operation /\ ~reset
         /\ call.todo \in Seq(AnyTransfer) /\ EndOf(call.todo, Transfers(call.op))
         /\ Req.kind \in Kinds /\ Req.wValue \in Nat
         /\ Req.data = [addr |-> call.op.addr, val |-> call.op.val]
         /\ Head(call.todo).how = "out" =>
              /\ Req.kind \in OutRequests
              /\ Req.kind = "CHANGE_PWR" => Req.wValue \in 0 .. 2
<1>1. /\ call.op \in Operation /\ ~reset
      /\ call.todo \in Seq(AnyTransfer) /\ EndOf(call.todo, Transfers(call.op))
  BY TypesOf DEF CallInv, CallType
<1>2. call.op.src \in 0 .. 2
  BY <1>1 DEF Operation
<1>3. Head(call.todo) \in AnyTransfer
  BY <1>1
<1>4. Req.kind \in Kinds /\ Req.wValue \in Nat
  BY <1>3 DEF Req, AnyTransfer
<1> DEFINE h == Head(call.todo)
           o == call.op
<1>5. /\ h.req.data = [addr |-> o.addr, val |-> o.val]
      /\ h.how = "out" => h.req.kind \in OutRequests
      /\ h.how = "out" /\ h.req.kind = "CHANGE_PWR" => h.req.wValue \in 0 .. 2
  <2>1. \/ \E k \in OutRequests \ {"CHANGE_PWR"}, w \in Nat : h = OutReq(k, w, o)
        \/ h = OutReq("CHANGE_PWR", o.src, o)
        \/ \E how \in {"in", "bulkIn", "bulkOut"}, k \in Kinds : h = Transfer(how, k, 0, o)
    <3>1. /\ {"MEMREAD_CTRL", "MEMREAD_BULK", "MEMWRITE_CTRL", "MEMWRITE_BULK",
              "FPGA_PROGRAM"} \subseteq OutRequests \ {"CHANGE_PWR"}
          /\ {"MEMREAD_CTRL", "MEMREAD_BULK", "MEMWRITE_BULK", "FPGA_PROGRAM",
              "FPGA_STATUS"} \subseteq Kinds
          /\ 0 \in Nat /\ 160 \in Nat /\ 161 \in Nat /\ 162 \in Nat
      BY DEF OutRequests, MemoryRequests, Kinds
    <3> HIDE DEF h, o
    <3> QED BY <1>1, <3>1, NextTransfer DEF h, o
  <2>2. CASE \E k \in OutRequests \ {"CHANGE_PWR"}, w \in Nat : h = OutReq(k, w, o)
    BY <2>2 DEF OutReq, Transfer
  <2>3. CASE h = OutReq("CHANGE_PWR", o.src, o)
    BY <1>2, <2>3 DEF OutReq, Transfer, OutRequests
  <2>4. CASE \E how \in {"in", "bulkIn", "bulkOut"}, k \in Kinds : h = Transfer(how, k, 0, o)
    BY <2>4 DEF Transfer
  <2> QED BY <2>1, <2>2, <2>3, <2>4
<1> QED BY <1>1, <1>4, <1>5 DEF Req

\* The callback that is due, if there is one, has run.
LEMMA SettledEffect ==
  ASSUME IInv
  PROVE  /\ Settled \in FirmwareState /\ Len(Settled.inJob) <= 1 /\ Settled.callback = NONE
         /\ Settled.ctrlbuffer = fw.ctrlbuffer /\ Settled.wValue = fw.wValue
         /\ Settled.lock # "unlocked" => leaked
<1>1. /\ armed \in BOOLEAN /\ leaked \in BOOLEAN /\ fw \in FirmwareState /\ Len(fw.inJob) <= 1
      /\ ~armed => fw.callback = NONE
      /\ fw.lock # "unlocked" /\ ~leaked => armed /\ fw.callback \in MemoryRequests
  BY TypesOf DEF IInv, CallInv, LockInv
<1>2. CASE armed
  <2>1. Settled = Called(fw)
    BY <1>2 DEF Settled
  <2>2. /\ Called(fw) \in FirmwareState /\ Len(Called(fw).inJob) <= 1
        /\ Called(fw).callback = NONE
        /\ Called(fw).ctrlbuffer = fw.ctrlbuffer /\ Called(fw).wValue = fw.wValue
        /\ Called(fw).lock = IF fw.callback \in MemoryRequests THEN "unlocked" ELSE fw.lock
    BY <1>1, CalledEffect
  <2> QED BY <1>1, <1>2, <2>1, <2>2
<1>3. CASE ~armed
  BY <1>1, <1>3 DEF Settled
<1> QED BY <1>2, <1>3

LEMMA CallbackMarks ==
  ASSUME IInv, CallbackEffects
  PROVE  /\ told' = FALSE /\ doubtful \subseteq doubtful' /\ doubtful' \subseteq Addr
         /\ Replays /\ fw.callback = "MEMWRITE_CTRL" => fw.ctrlbuffer.addr \in doubtful'
         /\ (\E n \in 0 .. 2 : ChangePower(n)) \/ UNCHANGED powerVars
<1>1. /\ doubtful \subseteq Addr /\ fw.ctrlbuffer.addr \in Addr
      /\ fw.callback = "CHANGE_PWR" => fw.wValue \in 0 .. 2
  BY TypesOf DEF IInv, CallInv, FirmwareState, Payload
<1>2. /\ told' = FALSE
      /\ doubtful' = IF Replays /\ fw.callback = "MEMWRITE_CTRL"
                     THEN doubtful \cup {fw.ctrlbuffer.addr} ELSE doubtful
  BY DEF CallbackEffects
<1>3. (\E n \in 0 .. 2 : ChangePower(n)) \/ UNCHANGED powerVars
  BY <1>1 DEF CallbackEffects
<1> QED BY <1>1, <1>2, <1>3

LEMMA Advanced ==
  ASSUME IInv, call.todo # <<>>, Advance
  PROVE  /\ call' \in CallType /\ ops' = ops /\ expect' \in [Addr -> SUBSET Value]
         /\ call'.stage = "idle" /\ Len(call.todo) \in Nat \ {0}
         /\ Len(call.todo) = 1 =>
              /\ call' = NoCall
              /\ \A a \in Addr : expect'[a] = IF Written(call.op, a) # {} THEN Written(call.op, a)
                                              ELSE expect[a]
         /\ Len(call.todo) # 1 =>
              /\ call'.op = call.op /\ call'.leftover = call.leftover /\ call'.todo # <<>>
              /\ Len(call'.todo) = Len(call.todo) - 1 /\ call'.todo \in Seq(AnyTransfer)
              /\ EndOf(call'.todo, Transfers(call.op))
              /\ expect' = expect
<1>1. /\ call \in CallType /\ expect \in [Addr -> SUBSET Value] /\ call.op \in Operation
      /\ call.todo \in Seq(AnyTransfer) /\ EndOf(call.todo, Transfers(call.op))
  BY TypesOf, Requested DEF IInv
<1>2. Len(Transfers(call.op)) \in Nat
  BY <1>1, TransfersOf
<1>3. /\ Tail(call.todo) \in Seq(AnyTransfer) /\ EndOf(Tail(call.todo), Transfers(call.op))
      /\ Len(Tail(call.todo)) = Len(call.todo) - 1 /\ Len(call.todo) \in Nat \ {0}
      /\ Tail(call.todo) = <<>> <=> Len(call.todo) = 1
  BY <1>1, <1>2, RestOfCall
<1>4. CASE Len(call.todo) = 1
  <2>1. call' = NoCall /\ ops' = ops
    BY <1>4 DEF Advance
  <2>2. expect' = [a \in Addr |-> IF Written(call.op, a) # {} THEN Written(call.op, a)
                                  ELSE expect[a]]
    BY <1>4 DEF Advance
  <2>3. expect' \in [Addr -> SUBSET Value]
    BY <1>1, <2>2, WrittenType
  <2> QED BY <1>3, <1>4, <2>1, <2>2, <2>3, NoCallType
<1>5. CASE Len(call.todo) # 1
  <2>1. /\ call' = [call EXCEPT !.todo = Tail(call.todo), !.stage = "idle"]
        /\ expect' = expect /\ ops' = ops
    BY <1>5 DEF Advance
  <2>2. /\ call'.todo = Tail(call.todo) /\ call'.stage = "idle" /\ call'.op = call.op
        /\ call'.leftover = call.leftover /\ call' \in CallType
    BY <1>1, <1>3, <2>1 DEF CallType
  <2> QED BY <1>1, <1>3, <1>5, <2>1, <2>2
<1> QED BY <1>4, <1>5

---------------------------------------------------------------------------
(* The types, the pipe with its callback, and the lock, action by action.  *)

Base == Types /\ CallInv /\ LockInv

LEMMA InitBase == FirmwareInit => Base /\ SupplyInv
<1> SUFFICES ASSUME FirmwareInit PROVE Base /\ SupplyInv
  OBVIOUS
<1>1. PICK a \in Addr : fw = InitialFirmware(a)
  BY DEF FirmwareInit
<1>2. /\ fw \in FirmwareState /\ fw.lock = "unlocked" /\ fw.callback = NONE /\ fw.inJob = <<>>
  <2> DEFINE e == <<>>
             m == [x \in Addr |-> Zero]
  <2>1. e \in Seq(Value) /\ m \in [Addr -> Value] /\ [addr |-> a, val |-> Zero] \in Payload
    BY VendorRequestsAssumption DEF Payload
  <2>2. e = <<>>
    OBVIOUS
  <2> HIDE DEF e, m
  <2>3. fw = [ lock |-> "unlocked", callback |-> NONE, wValue |-> 0,
               ctrlbuffer |-> [addr |-> a, val |-> Zero],
               usage |-> "emem", addr |-> a, mem |-> m,
               loading |-> FALSE, inJob |-> e, more |-> FALSE ]
    BY <1>1 DEF InitialFirmware, e, m
  <2> QED BY <2>1, <2>2, <2>3 DEF FirmwareState, Locks
<1>3. Len(fw.inJob) <= 1
  BY <1>2
<1>4. /\ armed = FALSE /\ runs = 0 /\ reset = FALSE
  BY DEF FirmwareInit, Pipe!Init
<1>5. PowerTypeOK /\ SupplyInv
  <2>1. /\ pins = {} /\ USB_PWR_STATE = 0 /\ main = "sleep" /\ todo = <<>>
        /\ before = {} /\ raced = FALSE
    BY DEF FirmwareInit, Init
  <2>2. todo \in Seq(Write) /\ Len(todo) <= 2
    BY <2>1
  <2>3. PowerTypeOK
    <3>1. 0 \in 0 .. 2 /\ {} \subseteq Supplies /\ FALSE \in BOOLEAN
      OBVIOUS
    <3>2. pins \subseteq Supplies /\ before \subseteq Supplies /\ USB_PWR_STATE \in 0 .. 2
          /\ raced \in BOOLEAN
      BY <2>1, <3>1
    <3> QED BY <2>1, <2>2, <3>2 DEF PowerTypeOK
  <2>4. {} # Supplies
    BY DEF Supplies
  <2> QED BY <2>1, <2>3, <2>4 DEF SupplyInv
<1>6. ops \subseteq Operation
  BY FirmwareAssumption DEF FirmwareInit
<1>7. expect \in [Addr -> SUBSET Value]
  BY VendorRequestsAssumption DEF FirmwareInit
<1>8. Types
  BY <1>2, <1>3, <1>4, <1>5, <1>6, <1>7, NoCallType DEF FirmwareInit, Types, TypeOK
<1>9. CallInv
  BY <1>2, <1>4, NoCallType DEF FirmwareInit, CallInv, NONE
<1>10. LockInv
  BY <1>2 DEF LockInv
<1> QED BY <1>5, <1>8, <1>9, <1>10 DEF Base

LEMMA BeginKeepsBase == ASSUME IInv, PowerTypeOK', Begin PROVE Base'
<1>1. PICK o \in ops :
        /\ call' = [op |-> o, todo |-> Transfers(o), stage |-> "idle", leftover |-> FALSE]
        /\ expect' = [a \in Addr |-> expect[a] \cup Written(o, a)]
  BY DEF Begin
<1>2. /\ UNCHANGED <<ops, armed, runs, reset, fw, arrived, ahead, loaded, told, doubtful, leaked>>
      /\ ~reset
  BY DEF Begin, pipe
<1>3. o \in Operation /\ Transfers(o) \in Seq(AnyTransfer) /\ Transfers(o) # <<>>
  BY <1>1, TypesOf, TransfersOf DEF IInv
<1>4. expect' \in [Addr -> SUBSET Value]
  BY <1>1, <1>3, WrittenType, TypesOf DEF IInv
<1>5. call' \in CallType
  BY <1>1, <1>3 DEF CallType
<1>6. Types'
  <2>1. /\ armed' \in BOOLEAN /\ runs' \in {0, 1} /\ reset' \in BOOLEAN
        /\ fw' \in FirmwareState /\ Len(fw'.inJob) <= 1
        /\ arrived' \in Value \cup {NONE} /\ ahead' \in BOOLEAN
        /\ doubtful' \subseteq Addr /\ told' \in BOOLEAN
        /\ loaded' \in BOOLEAN /\ leaked' \in BOOLEAN /\ ops' \subseteq Operation
    BY <1>2, TypesOf DEF IInv
  <2>2. call'.stage \in {"idle", "data", "status"}
    BY <1>1
  <2> QED BY <1>4, <1>5, <2>1, <2>2 DEF Types, TypeOK
<1>7. EndOf(Transfers(o), Transfers(o))
  BY <1>3 DEF EndOf
<1>8. CallInv'
  BY <1>1, <1>2, <1>3, <1>7 DEF IInv, CallInv
<1> QED BY <1>2, <1>6, <1>8 DEF IInv, LockInv, Base

\* The host gives up, or the bus is reset under it.
LEMMA GivingUpKeepsBase ==
  ASSUME IInv, PowerTypeOK', call' = NoCall, reset' \in BOOLEAN,
         UNCHANGED <<armed, runs, fw, arrived, ahead, ops, loaded, expect, told, doubtful, leaked>>
  PROVE  Base'
<1>1. Types'
  BY NoCallType, TypesOf DEF IInv, Types, TypeOK
<1>2. CallInv'
  BY NoCallType DEF IInv, CallInv
<1> QED BY <1>1, <1>2 DEF IInv, LockInv, Base

LEMMA SetupOutKeepsBase == ASSUME IInv, PowerTypeOK', SetupOut PROVE Base'
<1> DEFINE ok == Accepted(Settled, Req)
<1>1. /\ call.todo # <<>> /\ ~reset /\ Head(call.todo).how = "out" /\ call.stage = "idle"
      /\ Turn /\ fw' = main_setup_out_received(Settled, Req) /\ CallbackEffects
      /\ loaded' = FALSE /\ UNCHANGED <<arrived, ops, expect, leaked>>
  BY DEF SetupOut, Now
<1>2. /\ call.op \in Operation /\ Req.kind \in OutRequests /\ Req.wValue \in Nat
      /\ Req.kind = "CHANGE_PWR" => Req.wValue \in 0 .. 2
      /\ EndOf(call.todo, Transfers(call.op))
  BY <1>1, Requested DEF IInv
<1>3. /\ fw' \in FirmwareState /\ fw'.inJob = Settled.inJob /\ fw'.wValue = Req.wValue
      /\ fw'.usage = "emem"
      /\ ~ok => fw'.callback = NONE /\ fw'.lock = Settled.lock
      /\ ok => fw'.callback = Req.kind
      /\ ok /\ Req.kind \notin MemoryRequests => fw'.lock = Settled.lock
  BY <1>1, <1>2, SettledEffect, SetupOutEffect
<1>4. /\ armed' \in BOOLEAN /\ runs' \in {0, 1} /\ reset' = reset
      /\ armed' <=> ok
  <2>1. armed \in BOOLEAN /\ runs \in {0, 1} /\ reset \in BOOLEAN
    BY TypesOf DEF IInv
  <2>2. CASE ok /\ armed
    <3>1. Pipe!RunThenAccept
      BY <2>1, <2>2 DEF SetupOut
    <3> QED BY <2>1, <2>2, <3>1 DEF Pipe!RunThenAccept
  <2>3. CASE ok /\ ~armed
    <3>1. Pipe!Accept
      BY <2>1, <2>3 DEF SetupOut
    <3> QED BY <2>1, <2>3, <3>1 DEF Pipe!Accept
  <2>4. CASE ~ok /\ armed
    <3>1. Pipe!Run
      BY <2>1, <2>4 DEF SetupOut
    <3>2. runs' \in {0, 1} /\ reset' = reset
      BY <2>1, <3>1 DEF Pipe!Run
    <3>3. armed' = FALSE
      BY <3>1 DEF Pipe!Run
    <3> QED BY <2>4, <3>2, <3>3
  <2>5. CASE ~ok /\ ~armed
    <3>1. UNCHANGED pipe
      BY <2>1, <2>5 DEF SetupOut
    <3> QED BY <2>1, <2>5, <3>1 DEF pipe
  <2> QED BY <2>2, <2>3, <2>4, <2>5
<1>5. call' = IF ok THEN [call EXCEPT !.stage = "data", !.leftover = BusyIn(Settled)] ELSE NoCall
  BY DEF SetupOut
<1>6. /\ call' \in CallType
      /\ ok => /\ call'.todo = call.todo /\ call'.op = call.op /\ call'.stage = "data"
      /\ ~ok => call' = NoCall
  <2>1. call \in CallType /\ BusyIn(Settled) \in BOOLEAN
    BY TypesOf DEF IInv, BusyIn
  <2> QED BY <1>5, <2>1, NoCallType DEF CallType
<1>7. ahead' \in BOOLEAN
  BY <1>1 DEF Turn
<1>8. Len(fw'.inJob) <= 1
  BY <1>3, SettledEffect
<1>9. Types'
  <2>1. /\ arrived' \in Value \cup {NONE} /\ expect' \in [Addr -> SUBSET Value]
        /\ loaded' \in BOOLEAN /\ leaked' \in BOOLEAN /\ ops' \subseteq Operation
        /\ reset' \in BOOLEAN
    BY <1>1, <1>4, TypesOf DEF IInv
  <2>2. doubtful' \subseteq Addr /\ told' \in BOOLEAN
    BY <1>1, CallbackMarks
  <2>3. call'.stage \in {"idle", "data", "status"}
    BY <1>6 DEF CallType
  <2> QED BY <1>3, <1>4, <1>6, <1>7, <1>8, <2>1, <2>2, <2>3 DEF Types, TypeOK
<1>10. CallInv'
  <2>1. CASE ok
    <3>1. Req' = Req /\ Head(call'.todo) = Head(call.todo)
      BY <1>6, <2>1 DEF Req
    <3> QED BY <1>1, <1>2, <1>3, <1>4, <1>6, <2>1, <3>1 DEF CallInv
  <2>2. CASE ~ok
    <3>1. call' = NoCall /\ fw'.callback = NONE /\ NONE # "CHANGE_PWR"
      BY <1>3, <1>6, <2>2 DEF NONE
    <3> QED BY <3>1, NoCallType DEF CallInv
  <2> QED BY <2>1, <2>2
<1>11. LockInv'
  <2>1. ok /\ Req.kind \in MemoryRequests => armed' /\ fw'.callback \in MemoryRequests
    BY <1>3, <1>4
  <2>2. ~(ok /\ Req.kind \in MemoryRequests) => (fw'.lock # "unlocked" => leaked')
    BY <1>1, <1>3, SettledEffect
  <2> QED BY <2>1, <2>2 DEF LockInv
<1> QED BY <1>9, <1>10, <1>11 DEF Base

LEMMA PayloadSet ==
  ASSUME NEW p \in Payload, NEW a, NEW v
  PROVE  [[p EXCEPT !.addr = a] EXCEPT !.val = v] = [addr |-> a, val |-> v]
<1>1. p = [addr |-> p.addr, val |-> p.val]
  BY DEF Payload
<1>2. [p EXCEPT !.addr = a] = [addr |-> a, val |-> p.val]
  BY <1>1
<1>3. [[addr |-> a, val |-> p.val] EXCEPT !.val = v] = [addr |-> a, val |-> v]
  OBVIOUS
<1> QED BY <1>2, <1>3

LEMMA DataStageKeepsBase == ASSUME IInv, PowerTypeOK', DataStage PROVE Base'
<1>1. /\ call.todo # <<>> /\ ~reset /\ Head(call.todo).how = "out" /\ call.stage = "data"
      /\ call' = [call EXCEPT !.stage = "status"] /\ loaded' = TRUE
      /\ UNCHANGED <<armed, runs, reset, arrived, ahead, ops, expect, told, doubtful, leaked>>
  BY DEF DataStage, Now, pipe
<1>2. /\ call.op \in Operation /\ EndOf(call.todo, Transfers(call.op))
      /\ Req.data = [addr |-> call.op.addr, val |-> call.op.val]
  BY <1>1, Requested DEF IInv
<1>3. call \in CallType /\ fw \in FirmwareState
  BY TypesOf DEF IInv
<1>4. /\ call' \in CallType /\ call'.todo = call.todo /\ call'.op = call.op
      /\ call'.stage = "status" /\ Req' = Req
  BY <1>1, <1>3 DEF CallType, Req
<1>5. /\ fw' \in FirmwareState /\ fw'.lock = fw.lock /\ fw'.callback = fw.callback
      /\ fw'.wValue = fw.wValue /\ fw'.inJob = fw.inJob /\ fw'.usage = fw.usage
      /\ Req.kind \in MemoryRequests => fw'.ctrlbuffer.addr = call.op.addr
      /\ Req.kind = "MEMWRITE_CTRL" => fw'.ctrlbuffer.val = call.op.val
  <2> DEFINE v == IF Req.kind = "MEMWRITE_CTRL" THEN Req.data.val ELSE fw.ctrlbuffer.val
             b == [addr |-> Req.data.addr, val |-> v]
  <2>1. b \in Payload /\ fw.ctrlbuffer \in Payload
    BY <1>2, <1>3 DEF Payload, Operation, FirmwareState
  <2>2. CASE Req.kind \notin MemoryRequests
    BY <1>3, <2>2 DEF DataStage, MemoryRequests
  <2>3. CASE Req.kind \in MemoryRequests
    <3> DEFINE c == [fw EXCEPT !.ctrlbuffer = [fw.ctrlbuffer EXCEPT !.addr = Req.data.addr]]
    <3>0. c.ctrlbuffer = [fw.ctrlbuffer EXCEPT !.addr = Req.data.addr]
      BY <1>3 DEF FirmwareState
    <3>1. fw' = [c EXCEPT !.ctrlbuffer = [c.ctrlbuffer EXCEPT !.val = v]]
      BY <1>3, <2>1, <2>3 DEF DataStage, FirmwareState, Payload
    <3>4. [c.ctrlbuffer EXCEPT !.val = v] = b
      <4> HIDE DEF c, v
      <4>1. [c.ctrlbuffer EXCEPT !.val = v]
              = [[fw.ctrlbuffer EXCEPT !.addr = Req.data.addr] EXCEPT !.val = v]
        BY <3>0
      <4> QED BY <2>1, <4>1, PayloadSet
    <3>2. fw' = [fw EXCEPT !.ctrlbuffer = b]
      BY <1>3, <3>1, <3>4 DEF FirmwareState
    <3>3. b.addr = call.op.addr /\ (Req.kind = "MEMWRITE_CTRL" => b.val = call.op.val)
      BY <1>2
    <3> HIDE DEF b
    <3> QED BY <1>3, <2>1, <3>2, <3>3 DEF FirmwareState
  <2> QED BY <2>2, <2>3
<1>6. Types'
  BY <1>1, <1>4, <1>5, TypesOf DEF IInv, Types, TypeOK
<1>7. CallInv'
  BY <1>1, <1>2, <1>4, <1>5 DEF IInv, CallInv
<1> QED BY <1>1, <1>5, <1>6, <1>7 DEF IInv, LockInv, Base

\* Any action that ends a transfer and leaves pipe and callback as they are.
LEMMA TransferKeepsBase ==
  ASSUME IInv, PowerTypeOK', call.todo # <<>>, ~reset, Advance,
         UNCHANGED <<armed, runs, reset, loaded, leaked>>,
         told' \in BOOLEAN, doubtful' \subseteq doubtful,
         fw' \in FirmwareState, Len(fw'.inJob) <= 1, fw'.lock = fw.lock,
         fw'.callback = fw.callback, fw'.wValue = fw.wValue,
         arrived' \in Value \cup {NONE}, ahead' \in BOOLEAN
  PROVE  Base'
<1>1. /\ call' \in CallType /\ ops' = ops /\ expect' \in [Addr -> SUBSET Value]
      /\ call'.stage = "idle" /\ call.op \in Operation
      /\ Len(call.todo) = 1 => call' = NoCall
      /\ Len(call.todo) # 1 => call'.op = call.op /\ call'.todo # <<>>
                               /\ EndOf(call'.todo, Transfers(call.op))
  BY Advanced, Requested DEF IInv
<1>2. Types'
  BY <1>1, TypesOf DEF IInv, Types, TypeOK
<1>3. CallInv'
  BY <1>1, NoCallType DEF IInv, CallInv
<1> QED BY <1>2, <1>3 DEF IInv, LockInv, Base

LEMMA StatusStageKeepsBase == ASSUME IInv, PowerTypeOK', StatusStage PROVE Base'
<1>1. /\ call.todo # <<>> /\ ~reset /\ Advance
      /\ UNCHANGED <<armed, runs, reset, fw, arrived, ahead, loaded, leaked>>
      /\ told' \in BOOLEAN /\ doubtful' \subseteq doubtful
  BY DEF StatusStage, Now, pipe
<1> QED BY <1>1, TransferKeepsBase, TypesOf DEF IInv

LEMMA CallbackKeepsBase == ASSUME IInv, PowerTypeOK', Callback PROVE Base'
<1>1. /\ armed /\ armed' = FALSE /\ runs' = 1 - runs /\ reset' = reset /\ fw' = Called(fw)
      /\ call.stage = "idle" /\ CallbackEffects
      /\ UNCHANGED <<arrived, ahead, ops, call, loaded, expect, leaked>>
  BY DEF Callback, Pipe!Run, host
<1>2. /\ fw' \in FirmwareState /\ Len(fw'.inJob) <= 1 /\ fw'.callback = NONE
      /\ fw'.lock # "unlocked" => leaked
  BY <1>1, SettledEffect DEF Settled
<1>3. runs' \in {0, 1}
  BY <1>1, TypesOf DEF IInv
<1>4. Types'
  BY <1>1, <1>2, <1>3, CallbackMarks, TypesOf DEF IInv, Types, TypeOK
<1>5. CallInv'
  BY <1>1, <1>2 DEF IInv, CallInv, NONE
<1> QED BY <1>1, <1>2, <1>4, <1>5 DEF LockInv, Base

LEMMA SetupInKeepsBase == ASSUME IInv, PowerTypeOK', SetupIn PROVE Base'
<1>1. /\ call.todo # <<>> /\ ~reset /\ Turn /\ CallbackEffects /\ Advance
      /\ UNCHANGED <<arrived, loaded, leaked>>
  BY DEF SetupIn, Now
<1>2. armed' = FALSE /\ runs' \in {0, 1} /\ reset' = reset
  <2>1. armed \in BOOLEAN /\ runs \in {0, 1}
    BY TypesOf DEF IInv
  <2> QED BY <2>1 DEF SetupIn, Pipe!Run, pipe
<1>3. /\ fw' \in FirmwareState /\ Len(fw'.inJob) <= 1 /\ fw'.callback = NONE
      /\ fw'.lock = Settled.lock
  <2>1. fw' = Settled \/ fw' = main_setup_in_received(Settled)
    BY DEF SetupIn
  <2>2. /\ main_setup_in_received(Settled) = [Settled EXCEPT !.loading = FALSE]
        /\ main_setup_in_received(Settled) \in FirmwareState
    BY SettledEffect, SetupInEffect
  <2> QED BY <2>1, <2>2, SettledEffect DEF FirmwareState
<1>4. /\ call' \in CallType /\ ops' = ops /\ expect' \in [Addr -> SUBSET Value]
      /\ call'.stage = "idle" /\ call.op \in Operation
      /\ Len(call.todo) = 1 => call' = NoCall
      /\ Len(call.todo) # 1 => call'.op = call.op /\ call'.todo # <<>>
                               /\ EndOf(call'.todo, Transfers(call.op))
  BY <1>1, Advanced, Requested DEF IInv
<1>5. ahead' \in BOOLEAN
  BY <1>1 DEF Turn
<1>6. Types'
  BY <1>1, <1>2, <1>3, <1>4, <1>5, CallbackMarks, TypesOf DEF IInv, Types, TypeOK
<1>7. CallInv'
  BY <1>1, <1>2, <1>3, <1>4, NoCallType DEF CallInv, NONE
<1>8. LockInv'
  BY <1>1, <1>3, SettledEffect DEF LockInv
<1> QED BY <1>6, <1>7, <1>8 DEF Base

LEMMA BulkOutKeepsBase == ASSUME IInv, PowerTypeOK', BulkOut PROVE Base'
<1>1. /\ call.todo # <<>> /\ ~reset /\ Advance /\ arrived' = Req.data.val /\ ahead' = FALSE
      /\ UNCHANGED <<armed, runs, reset, fw, loaded, told, leaked>>
      /\ doubtful' \subseteq doubtful
  BY DEF BulkOut, Now, pipe
<1>2. arrived' \in Value /\ told' \in BOOLEAN
  BY <1>1, Requested, TypesOf DEF IInv, Operation
<1> QED BY <1>1, <1>2, TransferKeepsBase, TypesOf DEF IInv

LEMMA BulkInKeepsBase == ASSUME IInv, PowerTypeOK', BulkIn PROVE Base'
<1>1. /\ call.todo # <<>> /\ ~reset /\ Advance /\ fw' = PacketTaken(fw)
      /\ UNCHANGED <<armed, runs, reset, arrived, ahead, loaded, told, doubtful, leaked>>
  BY DEF BulkIn, Now, pipe
<1>2. /\ fw \in FirmwareState /\ arrived \in Value \cup {NONE} /\ ahead \in BOOLEAN
      /\ told \in BOOLEAN
  BY TypesOf DEF IInv
<1>3. /\ fw' \in FirmwareState /\ Len(fw'.inJob) <= 1 /\ fw'.lock = fw.lock
      /\ fw'.callback = fw.callback /\ fw'.wValue = fw.wValue
  BY <1>1, <1>2, PacketTakenEffect
<1> QED BY <1>1, <1>2, <1>3, TransferKeepsBase

LEMMA BulkInterruptKeepsBase == ASSUME IInv, PowerTypeOK', BulkInterrupt PROVE Base'
<1>1. /\ arrived # NONE /\ fw' = main_vendor_bulk_out_received(fw, arrived)
      /\ arrived' = NONE /\ ahead' = FALSE
      /\ UNCHANGED <<armed, runs, reset, ops, call, loaded, expect, told, leaked>>
  BY DEF BulkInterrupt, Quiet, pipe, host
<1>2. doubtful' \subseteq Addr
  <2>1. doubtful \subseteq Addr /\ fw.addr \in Addr /\ fw.ctrlbuffer.addr \in Addr
    BY TypesOf DEF IInv, FirmwareState, Payload
  <2> QED BY <2>1 DEF BulkInterrupt, Misplaced
<1>3. fw \in FirmwareState /\ Len(fw.inJob) <= 1 /\ arrived \in Value
  BY <1>1, TypesOf DEF IInv
<1>4. /\ fw' \in FirmwareState /\ fw'.lock \in {fw.lock, "unlocked"}
      /\ fw'.callback = fw.callback /\ fw'.wValue = fw.wValue
      /\ fw'.ctrlbuffer = fw.ctrlbuffer /\ fw'.inJob = fw.inJob /\ fw'.usage = fw.usage
  BY <1>1, <1>3, BulkOutEffect
<1>5. Types'
  BY <1>1, <1>2, <1>3, <1>4, TypesOf DEF IInv, Types, TypeOK
<1>6. CallInv'
  BY <1>1, <1>4 DEF IInv, CallInv, Req
<1>7. LockInv'
  BY <1>1, <1>4 DEF IInv, LockInv
<1> QED BY <1>5, <1>6, <1>7 DEF Base

LEMMA ResetInterruptKeepsBase == ASSUME IInv, PowerTypeOK', ResetInterrupt PROVE Base'
<1>1. /\ reset /\ armed' = FALSE /\ reset' = FALSE /\ runs' = runs /\ fw' = udc_reset(fw)
      /\ leaked' = (leaked \/ (armed /\ fw.callback \in MemoryRequests))
      /\ told' = FALSE /\ doubtful' = doubtful \cup LostWrite
      /\ UNCHANGED <<arrived, ahead, ops, call, loaded, expect>>
  BY DEF ResetInterrupt, Pipe!Drop, host
<1>2. fw \in FirmwareState /\ fw.ctrlbuffer.addr \in Addr /\ doubtful \subseteq Addr
  BY TypesOf DEF IInv, FirmwareState, Payload
<1>3. /\ fw' \in FirmwareState /\ Len(fw'.inJob) <= 1 /\ fw'.callback = NONE
      /\ fw'.lock = fw.lock
  BY <1>1, <1>2, ResetEffect
<1>4. doubtful' \subseteq Addr
  BY <1>1, <1>2 DEF LostWrite
<1>5. leaked' \in BOOLEAN
  BY <1>1
<1>6. Types'
  BY <1>1, <1>3, <1>4, <1>5, TypesOf DEF IInv, Types, TypeOK
<1>7. call.todo = <<>>
  BY <1>1 DEF IInv, CallInv
<1>8. CallInv'
  BY <1>1, <1>3, <1>7 DEF IInv, CallInv, NONE
<1>9. LockInv'
  BY <1>1, <1>3 DEF IInv, LockInv
<1> QED BY <1>6, <1>8, <1>9 DEF Base

LEMMA BaseStep == ASSUME IInv, [Next]_vars PROVE Base' /\ SupplyInv' /\ (Asked \/ UNCHANGED powerVars)
<1>1. PowerTypeOK' /\ SupplyInv' /\ (Asked \/ UNCHANGED powerVars)
  <2>1. PowerTypeOK /\ SupplyInv
    BY TypesOf DEF IInv
  <2>2. (\E n \in 0 .. 2 : ChangePower(n)) \/ MainLoop \/ UNCHANGED powerVars
    <3>1. CASE SetupOut \/ Callback \/ SetupIn
      BY <3>1, CallbackMarks DEF SetupOut, Callback, SetupIn
    <3>2. CASE \/ Begin \/ TimesOut \/ DataStage \/ StatusStage \/ BulkOut \/ BulkInterrupt
               \/ BulkIn \/ BusReset \/ ResetInterrupt \/ ButtonStep \/ UNCHANGED vars
      BY <3>2 DEF Begin, TimesOut, DataStage, StatusStage, BulkOut, BulkInterrupt, BulkIn,
                  BusReset, ResetInterrupt, ButtonStep, vars
    <3> QED BY <3>1, <3>2 DEF Next
  <2> QED BY <2>1, <2>2, SupplyStep
<1>2. CASE TimesOut
  BY <1>1, <1>2, GivingUpKeepsBase, TypesOf DEF TimesOut, pipe, history, IInv
<1>3. CASE BusReset
  BY <1>1, <1>3, GivingUpKeepsBase DEF BusReset, Pipe!BusReset, history
<1>4. CASE ButtonStep \/ UNCHANGED vars
  <2>1. UNCHANGED <<armed, runs, reset, fw, arrived, ahead, ops, call, loaded, expect, told, doubtful,
                   leaked>>
    BY <1>4 DEF ButtonStep, vars, pipe, host, history
  <2>2. Types'
    BY <1>1, <2>1, TypesOf DEF IInv, Types, TypeOK
  <2>3. CallInv' /\ LockInv'
    BY <2>1 DEF IInv, CallInv, LockInv, Req
  <2> QED BY <1>1, <2>2, <2>3 DEF Base
<1> QED BY <1>1, <1>2, <1>3, <1>4, BeginKeepsBase, SetupOutKeepsBase, DataStageKeepsBase,
           StatusStageKeepsBase, CallbackKeepsBase, SetupInKeepsBase, BulkOutKeepsBase,
           BulkInKeepsBase, BulkInterruptKeepsBase, ResetInterruptKeepsBase DEF Next

---------------------------------------------------------------------------
(* The memory, now and once the interrupts due have come.                  *)

\* What a callback that runs, and an interrupt of bulk data, do to memory m.
Effect(f, live, m) ==
  IF ~live THEN m
  ELSE IF f.callback = "MEMWRITE_CTRL" THEN [m EXCEPT ![f.ctrlbuffer.addr] = f.ctrlbuffer.val]
  ELSE IF f.callback = "FPGA_PROGRAM" /\ f.wValue = 160 THEN [x \in Addr |-> Zero]
  ELSE m
Landed(f, val, m) == IF f.usage = "emem" THEN [m EXCEPT ![f.addr] = val] ELSE m

LEMMA RanEffect ==
  ASSUME NEW f \in FirmwareState, Len(f.inJob) <= 1, NEW live \in BOOLEAN
  PROVE  /\ Ran(f, live) \in FirmwareState /\ Len(Ran(f, live).inJob) <= 1
         /\ Ran(f, live).mem = Effect(f, live, f.mem)
         /\ Ran(f, live).addr = IF live /\ f.callback \in MemoryRequests
                                THEN f.ctrlbuffer.addr ELSE f.addr
         /\ Ran(f, live).usage = IF ~live \/ f.callback # "FPGA_PROGRAM" THEN f.usage
                                 ELSE IF f.wValue = 161 THEN "fpgabitstream"
                                 ELSE IF f.wValue = 162 THEN "emem" ELSE f.usage
<1>1. CASE live
  <2>1. Ran(f, live) = Called(f)
    BY <1>1 DEF Ran
  <2>2. Called(f).mem = Effect(f, live, f.mem)
    BY <1>1, CalledEffect DEF Effect
  <2>3. Called(f) \in FirmwareState /\ Len(Called(f).inJob) <= 1
    BY CalledEffect
  <2>4. Called(f).addr = IF f.callback \in MemoryRequests THEN f.ctrlbuffer.addr ELSE f.addr
    BY CalledEffect
  <2>5. Called(f).usage = IF f.callback # "FPGA_PROGRAM" THEN f.usage
                          ELSE IF f.wValue = 161 THEN "fpgabitstream"
                          ELSE IF f.wValue = 162 THEN "emem" ELSE f.usage
    BY CalledEffect
  <2> HIDE DEF Ran, Effect
  <2>6. Ran(f, live).mem = Effect(f, live, f.mem)
    BY <2>1, <2>2
  <2>7. Ran(f, live) \in FirmwareState /\ Len(Ran(f, live).inJob) <= 1
    BY <2>1, <2>3
  <2>8. Ran(f, live).addr = IF live /\ f.callback \in MemoryRequests
                            THEN f.ctrlbuffer.addr ELSE f.addr
    BY <1>1, <2>1, <2>4
  <2>9. Ran(f, live).usage = IF ~live \/ f.callback # "FPGA_PROGRAM" THEN f.usage
                             ELSE IF f.wValue = 161 THEN "fpgabitstream"
                             ELSE IF f.wValue = 162 THEN "emem" ELSE f.usage
    <3>1. Ran(f, live).usage = IF f.callback # "FPGA_PROGRAM" THEN f.usage
                               ELSE IF f.wValue = 161 THEN "fpgabitstream"
                               ELSE IF f.wValue = 162 THEN "emem" ELSE f.usage
      BY <2>1, <2>5
    <3> QED BY <1>1, <3>1
  <2> QED BY <2>6, <2>7, <2>8, <2>9
<1>2. CASE ~live
  <2>1. Ran(f, live) = f /\ Effect(f, live, f.mem) = f.mem
    BY <1>2 DEF Ran, Effect
  <2> QED BY <1>2, <2>1
<1> QED BY <1>1, <1>2

LEMMA MemoryAfterIs ==
  ASSUME NEW f \in FirmwareState, Len(f.inJob) <= 1, NEW live \in BOOLEAN,
         NEW early \in BOOLEAN, NEW val \in Value \cup {NONE}
  PROVE  MemoryAfter(f, live, val, early) =
           IF val = NONE THEN Effect(f, live, f.mem)
           ELSE IF early THEN Effect(f, live, Landed(f, val, f.mem))
           ELSE Landed(Ran(f, live), val, Effect(f, live, f.mem))
<1>1. CASE val = NONE
  BY <1>1, RanEffect DEF MemoryAfter
<1>2. CASE val # NONE /\ early
  <2> DEFINE g == main_vendor_bulk_out_received(f, val)
  <2>1. /\ g \in FirmwareState /\ Len(g.inJob) <= 1 /\ g.mem = Landed(f, val, f.mem)
        /\ g.callback = f.callback /\ g.wValue = f.wValue /\ g.ctrlbuffer = f.ctrlbuffer
    BY <1>2, BulkOutEffect DEF Landed
  <2>2. MemoryAfter(f, live, val, early) = Ran(g, live).mem
    BY <1>2 DEF MemoryAfter
  <2> HIDE DEF g
  <2>3. Ran(g, live).mem = Effect(g, live, g.mem)
    BY <2>1, RanEffect
  <2>4. Effect(g, live, g.mem) = Effect(f, live, Landed(f, val, f.mem))
    BY <2>1 DEF Effect
  <2> QED BY <1>2, <2>2, <2>3, <2>4
<1>3. CASE val # NONE /\ ~early
  <2>1. /\ Ran(f, live) \in FirmwareState /\ Ran(f, live).mem = Effect(f, live, f.mem)
        /\ val \in Value
    BY <1>3, RanEffect
  <2>2. main_vendor_bulk_out_received(Ran(f, live), val).mem
          = Landed(Ran(f, live), val, Effect(f, live, f.mem))
    BY <2>1, BulkOutEffect DEF Landed
  <2> QED BY <1>3, <2>2 DEF MemoryAfter
<1> QED BY <1>1, <1>2, <1>3

LEMMA MemoryType ==
  ASSUME NEW f \in FirmwareState, Len(f.inJob) <= 1, NEW live \in BOOLEAN,
         NEW early \in BOOLEAN, NEW val \in Value \cup {NONE}
  PROVE  MemoryAfter(f, live, val, early) \in [Addr -> Value]
<1>1. ASSUME NEW g \in FirmwareState, NEW v \in Value, NEW m \in [Addr -> Value]
      PROVE  Landed(g, v, m) \in [Addr -> Value]
  BY DEF Landed
<1>2. ASSUME NEW m \in [Addr -> Value]
      PROVE  Effect(f, live, m) \in [Addr -> Value]
  <2>1. f.ctrlbuffer.val \in Value /\ Zero \in Value
    BY VendorRequestsAssumption DEF FirmwareState, Payload
  <2> QED BY <2>1 DEF Effect
<1>3. f.mem \in [Addr -> Value] /\ Ran(f, live) \in FirmwareState
  BY RanEffect DEF FirmwareState
<1> QED BY <1>1, <1>2, <1>3, MemoryAfterIs

\* It depends on no other field.
LEMMA SameMemory ==
  ASSUME NEW f \in FirmwareState, Len(f.inJob) <= 1, NEW live \in BOOLEAN,
         NEW g \in FirmwareState, Len(g.inJob) <= 1,
         NEW early \in BOOLEAN, NEW val \in Value \cup {NONE},
         g.mem = f.mem, g.addr = f.addr, g.usage = f.usage, g.callback = f.callback,
         g.wValue = f.wValue, g.ctrlbuffer = f.ctrlbuffer
  PROVE  MemoryAfter(g, live, val, early) = MemoryAfter(f, live, val, early)
<1>1. Effect(g, live, g.mem) = Effect(f, live, f.mem)
  BY DEF Effect
<1>2. Landed(g, val, g.mem) = Landed(f, val, f.mem)
  BY DEF Landed
<1>3. Effect(g, live, Landed(g, val, g.mem)) = Effect(f, live, Landed(f, val, f.mem))
  BY <1>2 DEF Effect
<1>4. Ran(g, live).addr = Ran(f, live).addr /\ Ran(g, live).usage = Ran(f, live).usage
  <2>1. /\ Ran(f, live).addr = IF live /\ f.callback \in MemoryRequests
                               THEN f.ctrlbuffer.addr ELSE f.addr
        /\ Ran(f, live).usage = IF ~live \/ f.callback # "FPGA_PROGRAM" THEN f.usage
                                ELSE IF f.wValue = 161 THEN "fpgabitstream"
                                ELSE IF f.wValue = 162 THEN "emem" ELSE f.usage
    BY RanEffect
  <2>2. /\ Ran(g, live).addr = IF live /\ g.callback \in MemoryRequests
                               THEN g.ctrlbuffer.addr ELSE g.addr
        /\ Ran(g, live).usage = IF ~live \/ g.callback # "FPGA_PROGRAM" THEN g.usage
                                ELSE IF g.wValue = 161 THEN "fpgabitstream"
                                ELSE IF g.wValue = 162 THEN "emem" ELSE g.usage
    BY RanEffect
  <2> QED BY <2>1, <2>2
<1>5. Landed(Ran(g, live), val, Effect(g, live, g.mem))
        = Landed(Ran(f, live), val, Effect(f, live, f.mem))
  BY <1>1, <1>4 DEF Landed
<1> QED BY <1>1, <1>3, <1>5, MemoryAfterIs

\* The state that follows, from its variables.
LEMMA PredictedIs ==
  ASSUME Types, CallInv
  PROVE  /\ Live \in BOOLEAN /\ Predicted \in [Addr -> Value]
         /\ Predicted = MemoryAfter(fw, Live, arrived, ahead)
         /\ arrived = NONE => Predicted = Ran(fw, Live).mem
         /\ ~armed => Ran(fw, Live) = fw
<1>1. Live \in BOOLEAN
  BY TypesOf DEF Live
<1>2. Predicted = MemoryAfter(fw, Live, arrived, ahead)
  BY DEF Predicted
<1>3. Predicted \in [Addr -> Value]
  BY <1>1, <1>2, TypesOf, MemoryType
<1>4. arrived = NONE => Predicted = Ran(fw, Live).mem
  BY <1>2 DEF MemoryAfter
<1>5. ~armed => Ran(fw, Live) = fw
  BY DEF Ran, Live
<1> QED BY <1>1, <1>2, <1>3, <1>4, <1>5

LEMMA PredictedNext ==
  ASSUME Types', CallInv'
  PROVE  /\ Live' \in BOOLEAN /\ Predicted' \in [Addr -> Value]
         /\ Predicted' = MemoryAfter(fw', Live', arrived', ahead')
         /\ arrived' = NONE => Predicted' = Ran(fw', Live').mem
         /\ ~armed' => Ran(fw', Live') = fw'
<1>0. /\ armed' \in BOOLEAN /\ ahead' \in BOOLEAN /\ arrived' \in Value \cup {NONE}
      /\ fw' \in FirmwareState /\ Len(fw'.inJob) <= 1
  BY DEF Types, TypeOK
<1>1. Live' \in BOOLEAN /\ (~armed' => ~Live')
  BY <1>0 DEF Live
<1>2. Predicted' = MemoryAfter(fw', Live', arrived', ahead')
  BY DEF Predicted
<1>3. Predicted' \in [Addr -> Value]
  BY <1>0, <1>1, <1>2, MemoryType
<1>4. arrived' = NONE => Predicted' = Ran(fw', Live').mem
  BY <1>2 DEF MemoryAfter
<1>5. ~armed' => Ran(fw', Live') = fw'
  BY <1>1 DEF Ran
<1> QED BY <1>1, <1>2, <1>3, <1>4, <1>5

\* What the callback that is due will find.
LEMMA UncalledIs ==
  ASSUME Types, CallInv
  PROVE  /\ Uncalled \in [Addr -> Value]
         /\ Uncalled = IF arrived = NONE THEN fw.mem ELSE Landed(fw, arrived, fw.mem)
         /\ ~Live => Predicted = Uncalled
         /\ (arrived = NONE \/ ahead) => Predicted = Effect(fw, Live, Uncalled)
<1>1. /\ fw \in FirmwareState /\ Len(fw.inJob) <= 1 /\ ahead \in BOOLEAN
      /\ arrived \in Value \cup {NONE} /\ Live \in BOOLEAN
  BY TypesOf, PredictedIs
<1>2. Uncalled = IF arrived = NONE THEN Effect(fw, FALSE, fw.mem)
                 ELSE IF ahead THEN Effect(fw, FALSE, Landed(fw, arrived, fw.mem))
                 ELSE Landed(Ran(fw, FALSE), arrived, Effect(fw, FALSE, fw.mem))
  BY <1>1, MemoryAfterIs DEF Uncalled
<1>3. Uncalled = IF arrived = NONE THEN fw.mem ELSE Landed(fw, arrived, fw.mem)
  BY <1>2 DEF Effect, Ran
<1>4. Predicted = IF arrived = NONE THEN Effect(fw, Live, fw.mem)
                  ELSE IF ahead THEN Effect(fw, Live, Landed(fw, arrived, fw.mem))
                  ELSE Landed(Ran(fw, Live), arrived, Effect(fw, Live, fw.mem))
  BY <1>1, PredictedIs, MemoryAfterIs
<1>5. ~Live => Predicted = Uncalled
  BY <1>3, <1>4 DEF Effect, Ran
<1>6. (arrived = NONE \/ ahead) => Predicted = Effect(fw, Live, Uncalled)
  BY <1>3, <1>4
<1>7. Uncalled \in [Addr -> Value]
  BY <1>1, MemoryType DEF Uncalled
<1> QED BY <1>3, <1>5, <1>6, <1>7

LEMMA UncalledNext ==
  ASSUME Types', CallInv'
  PROVE  /\ Uncalled' \in [Addr -> Value]
         /\ Uncalled' = IF arrived' = NONE THEN fw'.mem ELSE Landed(fw', arrived', fw'.mem)
         /\ ~Live' => Predicted' = Uncalled'
         /\ (arrived' = NONE \/ ahead') => Predicted' = Effect(fw', Live', Uncalled')
<1>1. /\ armed' \in BOOLEAN /\ ahead' \in BOOLEAN /\ arrived' \in Value \cup {NONE}
      /\ fw' \in FirmwareState /\ Len(fw'.inJob) <= 1 /\ Live' \in BOOLEAN
  BY PredictedNext DEF Types, TypeOK
<1>2. Uncalled' = MemoryAfter(fw', FALSE, arrived', ahead')
  BY DEF Uncalled
<1>3. Uncalled' = IF arrived' = NONE THEN Effect(fw', FALSE, fw'.mem)
                  ELSE IF ahead' THEN Effect(fw', FALSE, Landed(fw', arrived', fw'.mem))
                  ELSE Landed(Ran(fw', FALSE), arrived', Effect(fw', FALSE, fw'.mem))
  BY <1>1, <1>2, MemoryAfterIs
<1>4. Uncalled' = IF arrived' = NONE THEN fw'.mem ELSE Landed(fw', arrived', fw'.mem)
  BY <1>3 DEF Effect, Ran
<1>5. Predicted' = IF arrived' = NONE THEN Effect(fw', Live', fw'.mem)
                   ELSE IF ahead' THEN Effect(fw', Live', Landed(fw', arrived', fw'.mem))
                   ELSE Landed(Ran(fw', Live'), arrived', Effect(fw', Live', fw'.mem))
  BY <1>1, PredictedNext, MemoryAfterIs
<1>6. ~Live' => Predicted' = Uncalled'
  BY <1>4, <1>5 DEF Effect, Ran
<1>7. (arrived' = NONE \/ ahead') => Predicted' = Effect(fw', Live', Uncalled')
  BY <1>4, <1>5
<1>8. Uncalled' \in [Addr -> Value]
  BY <1>1, <1>2, MemoryType
<1> QED BY <1>4, <1>6, <1>7, <1>8

---------------------------------------------------------------------------
(* Where the calls stand, action by action.                                *)

\* The transfers left, by the next of them.
LEMMA Standing ==
  ASSUME Types, CallInv, call.todo # <<>>
  PROVE  LET n == Len(call.todo)
             l == Len(Transfers(call.op))
             o == call.op.op
         IN /\ n \in Nat \ {0} /\ l \in Nat
            /\ Now("out") =>
                 \/ o = "readCtrl" /\ n = 2 /\ l = 2 /\ Req.kind = "MEMREAD_CTRL"
                 \/ o = "readBulk" /\ n = 3 /\ l = 3 /\ Req.kind = "MEMREAD_BULK"
                 \/ o = "writeCtrl" /\ n = 1 /\ l = 1 /\ Req.kind = "MEMWRITE_CTRL"
                 \/ o = "writeBulk" /\ n = 2 /\ l = 2 /\ Req.kind = "MEMWRITE_BULK"
                 \/ o = "program" /\ n = 5 /\ l = 5 /\ Req.kind = "FPGA_PROGRAM" /\ Req.wValue = 160
                 \/ o = "program" /\ n = 4 /\ l = 5 /\ Req.kind = "FPGA_PROGRAM" /\ Req.wValue = 161
                 \/ o = "program" /\ n = 1 /\ l = 5 /\ Req.kind = "FPGA_PROGRAM" /\ Req.wValue = 162
                 \/ o = "power" /\ n = 1 /\ l = 1 /\ Req.kind = "CHANGE_PWR"
            /\ Now("in") => \/ o = "readCtrl" /\ n = 1 /\ l = 2 /\ Req.kind = "MEMREAD_CTRL"
                            \/ o = "program" /\ n = 2 /\ l = 5 /\ Req.kind = "FPGA_STATUS"
            /\ Now("bulkOut") => \/ o = "writeBulk" /\ n = 1 /\ l = 2
                                 \/ o = "program" /\ n = 3 /\ l = 5
            /\ Now("bulkIn") => o = "readBulk" /\ n \in {1, 2} /\ l = 3
<1> DEFINE n == Len(call.todo)
           h == Head(call.todo)
           o == call.op
           l == Len(Transfers(call.op))
<1>1. /\ o \in Operation /\ call.todo \in Seq(AnyTransfer) /\ EndOf(call.todo, Transfers(o))
  BY Requested
<1>2. n \in Nat \ {0} /\ l \in Nat
  <2>1. Transfers(o) \in Seq(AnyTransfer)
    BY <1>1, TransfersOf
  <2> QED BY <1>1, <2>1
<1> HIDE DEF n, h, o, l
<1>4. \/ o.op = "readCtrl" /\ n = 2 /\ l = 2 /\ h = OutReq("MEMREAD_CTRL", 0, o)
      \/ o.op = "readCtrl" /\ n = 1 /\ l = 2 /\ h = Transfer("in", "MEMREAD_CTRL", 0, o)
      \/ o.op = "readBulk" /\ n = 3 /\ l = 3 /\ h = OutReq("MEMREAD_BULK", 0, o)
      \/ o.op = "readBulk" /\ n \in {1, 2} /\ l = 3 /\ h = Transfer("bulkIn", "MEMREAD_BULK", 0, o)
      \/ o.op = "writeCtrl" /\ n = 1 /\ l = 1 /\ h = OutReq("MEMWRITE_CTRL", 0, o)
      \/ o.op = "writeBulk" /\ n = 2 /\ l = 2 /\ h = OutReq("MEMWRITE_BULK", 0, o)
      \/ o.op = "writeBulk" /\ n = 1 /\ l = 2 /\ h = Transfer("bulkOut", "MEMWRITE_BULK", 0, o)
      \/ o.op = "program" /\ n = 5 /\ l = 5 /\ h = OutReq("FPGA_PROGRAM", 160, o)
      \/ o.op = "program" /\ n = 4 /\ l = 5 /\ h = OutReq("FPGA_PROGRAM", 161, o)
      \/ o.op = "program" /\ n = 3 /\ l = 5 /\ h = Transfer("bulkOut", "FPGA_PROGRAM", 0, o)
      \/ o.op = "program" /\ n = 2 /\ l = 5 /\ h = Transfer("in", "FPGA_STATUS", 0, o)
      \/ o.op = "program" /\ n = 1 /\ l = 5 /\ h = OutReq("FPGA_PROGRAM", 162, o)
      \/ o.op = "power" /\ n = 1 /\ l = 1 /\ h = OutReq("CHANGE_PWR", o.src, o)
  BY <1>1, NextTransfer DEF n, h, o, l
<1> DEFINE k == h.req.kind
           w == h.req.wValue
           Is(op, left, all, how, kind) ==
             o.op = op /\ n = left /\ l = all /\ h.how = how /\ k = kind
<1>5. \/ Is("readCtrl", 2, 2, "out", "MEMREAD_CTRL")
      \/ Is("readCtrl", 1, 2, "in", "MEMREAD_CTRL")
      \/ Is("readBulk", 3, 3, "out", "MEMREAD_BULK")
      \/ Is("readBulk", 1, 3, "bulkIn", "MEMREAD_BULK")
      \/ Is("readBulk", 2, 3, "bulkIn", "MEMREAD_BULK")
      \/ Is("writeCtrl", 1, 1, "out", "MEMWRITE_CTRL")
      \/ Is("writeBulk", 2, 2, "out", "MEMWRITE_BULK")
      \/ Is("writeBulk", 1, 2, "bulkOut", "MEMWRITE_BULK")
      \/ Is("program", 5, 5, "out", "FPGA_PROGRAM") /\ w = 160
      \/ Is("program", 4, 5, "out", "FPGA_PROGRAM") /\ w = 161
      \/ Is("program", 3, 5, "bulkOut", "FPGA_PROGRAM")
      \/ Is("program", 2, 5, "in", "FPGA_STATUS")
      \/ Is("program", 1, 5, "out", "FPGA_PROGRAM") /\ w = 162
      \/ Is("power", 1, 1, "out", "CHANGE_PWR")
  BY <1>4 DEF Transfer, OutReq
<1> HIDE DEF k, w
<1>6. h.how = "out" =>
        \/ o.op = "readCtrl" /\ n = 2 /\ l = 2 /\ k = "MEMREAD_CTRL"
        \/ o.op = "readBulk" /\ n = 3 /\ l = 3 /\ k = "MEMREAD_BULK"
        \/ o.op = "writeCtrl" /\ n = 1 /\ l = 1 /\ k = "MEMWRITE_CTRL"
        \/ o.op = "writeBulk" /\ n = 2 /\ l = 2 /\ k = "MEMWRITE_BULK"
        \/ o.op = "program" /\ n = 5 /\ l = 5 /\ k = "FPGA_PROGRAM" /\ w = 160
        \/ o.op = "program" /\ n = 4 /\ l = 5 /\ k = "FPGA_PROGRAM" /\ w = 161
        \/ o.op = "program" /\ n = 1 /\ l = 5 /\ k = "FPGA_PROGRAM" /\ w = 162
        \/ o.op = "power" /\ n = 1 /\ l = 1 /\ k = "CHANGE_PWR"
  BY <1>5
<1>7. h.how = "in" => \/ o.op = "readCtrl" /\ n = 1 /\ l = 2 /\ k = "MEMREAD_CTRL"
                      \/ o.op = "program" /\ n = 2 /\ l = 5 /\ k = "FPGA_STATUS"
  BY <1>5
<1>8. h.how = "bulkOut" => \/ o.op = "writeBulk" /\ n = 1 /\ l = 2
                           \/ o.op = "program" /\ n = 3 /\ l = 5
  BY <1>5
<1>9. h.how = "bulkIn" => o.op = "readBulk" /\ n \in {1, 2} /\ l = 3
  BY <1>5
<1> QED BY <1>2, <1>6, <1>7, <1>8, <1>9 DEF Now, Req, n, h, o, l, k, w

\* A call that goes on has been accepted.
LEMMA GoesOn ==
  ASSUME Types, CallInv, call.todo # <<>>, call'.todo # <<>>, call'.op = call.op,
         Len(call'.todo) = Len(call.todo) - 1
  PROVE  Started'
<1>1. /\ Len(call.todo) \in Nat /\ Len(Transfers(call.op)) \in Nat
      /\ Len(call.todo) <= Len(Transfers(call.op))
  BY Standing DEF CallInv, EndOf
<1>2. Transfers(call'.op) = Transfers(call.op)
  OBVIOUS
<1> QED BY <1>1, <1>2 DEF Started

LEMMA NotStarted == ASSUME call'.todo = <<>> PROVE ~Started' /\ PlaceInv'
BY DEF Started, PlaceInv

\* While the bulk interrupt is still to come and no SETUP was served, the host is
\* between two calls, at the first SETUP of one, or at the status of FPGAProgram().
LEMMA AwaitingInterrupt ==
  ASSUME IInv, ~Quiet, ~ahead, call.todo # <<>>
  PROVE  /\ call.stage = "idle"
         /\ Now("out") => ~Started
         /\ Now("in") => call.op.op = "program"
         /\ ~Now("bulkIn")
<1>1. Types /\ CallInv /\ (~Started \/ (call.op.op = "program" /\ Len(call.todo) = 2))
  BY DEF IInv, ArrivedInv
<1>2. call.stage = "idle"
  <2>1. ASSUME call.stage # "idle" PROVE FALSE
    <3>1. Started
      BY <2>1 DEF Started
    <3>2. Now("out") /\ call.op.op = "program" /\ Len(call.todo) = 2
      BY <1>1, <2>1, <3>1 DEF CallInv, Now
    <3> QED BY <1>1, <3>2, Standing
  <2> QED BY <2>1
<1>3. ASSUME Len(call.todo) < Len(Transfers(call.op)) PROVE Started
  BY <1>3 DEF Started
<1>4. ~Started => Len(call.todo) = Len(Transfers(call.op))
  <2>1. EndOf(call.todo, Transfers(call.op)) /\ Len(call.todo) \in Nat
        /\ Len(Transfers(call.op)) \in Nat
    BY <1>1, Standing DEF CallInv
  <2> QED BY <1>3, <2>1 DEF EndOf
<1>5. ASSUME Now("out"), Len(call.todo) = 2, call.op.op = "program" PROVE FALSE
  <2> DEFINE n == Len(call.todo)
             o == call.op.op
  <2>1. \/ o = "readCtrl" \/ o = "readBulk" \/ o = "writeCtrl" \/ o = "writeBulk"
        \/ n = 5 \/ n = 4 \/ n = 1
    BY <1>1, <1>5, Standing
  <2> QED BY <1>5, <2>1
<1>6. Now("in") => \/ Len(call.todo) = 1 /\ Len(Transfers(call.op)) = 2
                   \/ call.op.op = "program"
  BY <1>1, Standing
<1>7. ASSUME Now("bulkIn") PROVE FALSE
  <2>1. call.op.op = "readBulk" /\ Len(call.todo) \in {1, 2} /\ Len(Transfers(call.op)) = 3
    BY <1>1, <1>7, Standing
  <2> QED BY <1>1, <1>4, <2>1
<1>8. Now("in") => call.op.op = "program"
  <2>1. ASSUME Len(call.todo) = 1 /\ Len(Transfers(call.op)) = 2 PROVE call.op.op = "program"
    BY <1>1, <1>4, <2>1
  <2> QED BY <1>6, <2>1
<1>9. Now("out") => ~Started
  BY <1>1, <1>5
<1> QED BY <1>2, <1>7, <1>8, <1>9

\* What neither the host nor the button changes.
LEMMA Unmoved ==
  ASSUME Types, CallInv, UNCHANGED <<armed, loaded, fw, arrived, ahead>>
  PROVE  /\ Predicted' = Predicted /\ (Live' <=> Live) /\ (Replays' <=> Replays)
         /\ (IntoBitstream' <=> IntoBitstream) /\ (Quiet' <=> Quiet)
         /\ Uncalled' = Uncalled /\ (ToBulk' <=> ToBulk)
         /\ Ran(fw, Live)' = Ran(fw, Live)
<1>1. /\ (Replays' <=> Replays) /\ (Quiet' <=> Quiet) /\ (IntoBitstream' <=> IntoBitstream)
      /\ Uncalled' = Uncalled /\ (ToBulk' <=> ToBulk)
  BY DEF Replays, Quiet, IntoBitstream, Uncalled, ToBulk
<1>2. Live' <=> Live
  BY <1>1 DEF Live
<1>3. Live' = Live
  BY <1>2, PredictedIs DEF Live
<1>4. Predicted' = Predicted
  BY <1>3 DEF Predicted
<1>5. Ran(fw, Live)' = Ran(fw, Live)
  BY <1>3
<1> QED BY <1>1, <1>2, <1>4, <1>5

\* A bulk OUT job has come: its register or the FPGA's configuration is the place.
LEMMA BulkOutPlace ==
  ASSUME IInv, BulkOut
  PROVE  /\ Quiet /\ ~Replays /\ (armed => ToBulk)
         /\ \/ /\ call.op.op = "writeBulk" /\ Len(call.todo) = 1
               /\ Ran(fw, Live).usage = "emem" /\ Ran(fw, Live).addr = call.op.addr
            \/ /\ call.op.op = "program" /\ Len(call.todo) = 3 /\ Started
               /\ IntoBitstream /\ Ran(fw, Live).usage = "fpgabitstream"
<1>1. /\ Quiet /\ call.todo # <<>> /\ Now("bulkOut") /\ Types /\ CallInv /\ PlaceInv
      /\ fw \in FirmwareState /\ Len(fw.inJob) <= 1 /\ Live \in BOOLEAN
  BY TypesOf, PredictedIs DEF BulkOut, Now, IInv
<1>2. /\ Ran(fw, Live).addr = IF Live /\ fw.callback \in MemoryRequests
                              THEN fw.ctrlbuffer.addr ELSE fw.addr
      /\ Ran(fw, Live).usage = IF ~Live \/ fw.callback # "FPGA_PROGRAM" THEN fw.usage
                               ELSE IF fw.wValue = 161 THEN "fpgabitstream"
                               ELSE IF fw.wValue = 162 THEN "emem" ELSE fw.usage
  BY <1>1, RanEffect
<1>3. \/ call.op.op = "writeBulk" /\ Len(call.todo) = 1
      \/ call.op.op = "program" /\ Len(call.todo) = 3 /\ Len(Transfers(call.op)) = 5
  BY <1>1, Standing
<1>4. CASE call.op.op = "writeBulk" /\ Len(call.todo) = 1
  <2>1. /\ fw.usage = "emem"
        /\ armed => fw.callback = "MEMWRITE_BULK" /\ loaded /\ fw.ctrlbuffer.addr = call.op.addr
        /\ ~armed => fw.addr = call.op.addr
    BY <1>1, <1>4 DEF PlaceInv
  <2>2. ~Replays
    BY <2>1 DEF Replays
  <2>3. Live <=> armed
    BY <2>2 DEF Live
  <2>4. armed => fw.callback \in MemoryRequests /\ fw.callback # "FPGA_PROGRAM"
    BY <2>1 DEF MemoryRequests
  <2>5. Ran(fw, Live).addr = call.op.addr
    BY <1>2, <2>1, <2>3, <2>4
  <2>6. Ran(fw, Live).usage = "emem"
    BY <1>2, <2>1, <2>3, <2>4
  <2> QED BY <1>1, <1>4, <2>1, <2>2, <2>5, <2>6 DEF ToBulk
<1>5. CASE call.op.op = "program" /\ Len(call.todo) = 3 /\ Len(Transfers(call.op)) = 5
  <2>1. IntoBitstream /\ Started
    BY <1>1, <1>5 DEF PlaceInv, Started
  <2>2. ~Replays
    BY <2>1 DEF Replays, IntoBitstream, MemoryRequests
  <2>3. Live <=> armed
    BY <2>2 DEF Live
  <2>4. /\ armed => fw.callback = "FPGA_PROGRAM" /\ fw.wValue = 161
        /\ ~armed => fw.usage = "fpgabitstream"
    BY <2>1 DEF IntoBitstream
  <2>5. Ran(fw, Live).usage = "fpgabitstream"
    BY <1>2, <2>3, <2>4
  <2> QED BY <1>1, <1>5, <2>1, <2>2, <2>4, <2>5 DEF ToBulk
<1> QED BY <1>3, <1>4, <1>5

\* A transfer of the call is over.
LEMMA AdvancedTo ==
  ASSUME IInv, call.todo # <<>>, Advance
  PROVE  /\ Len(call.todo) = 1 => call' = NoCall /\ call'.todo = <<>>
         /\ Len(call.todo) # 1 => /\ call'.op = call.op /\ call'.leftover = call.leftover
                                  /\ call'.todo # <<>> /\ Len(call'.todo) = Len(call.todo) - 1
                                  /\ Started' /\ expect' = expect
         /\ call'.stage = "idle" /\ Len(call.todo) \in Nat
<1>1. Types /\ CallInv
  BY DEF IInv
<1>2. /\ Len(call.todo) = 1 => call' = NoCall /\ call'.todo = <<>>
      /\ Len(call.todo) # 1 => /\ call'.op = call.op /\ call'.leftover = call.leftover
                               /\ call'.todo # <<>> /\ Len(call'.todo) = Len(call.todo) - 1
                               /\ expect' = expect
      /\ call'.stage = "idle" /\ Len(call.todo) \in Nat
  BY Advanced, NoCallType
<1>3. Len(call.todo) # 1 => Started'
  BY <1>1, <1>2, GoesOn
<1> QED BY <1>2, <1>3

LEMMA ArrivedStep == ASSUME IInv, Base', [Next]_vars PROVE ArrivedInv'
<1>1. Types /\ CallInv /\ ArrivedInv /\ Types' /\ CallInv'
  BY DEF IInv, Base
<1>2. ASSUME ahead' <=> ~Quiet' PROVE ArrivedInv'
  BY <1>2 DEF ArrivedInv
<1>3. CASE Begin
  <2>1. PICK o \in ops :
          call' = [op |-> o, todo |-> Transfers(o), stage |-> "idle", leftover |-> FALSE]
    BY <1>3 DEF Begin
  <2>2. /\ call.todo = <<>> /\ UNCHANGED <<armed, loaded, reset, fw, arrived, ahead>>
    BY <1>3 DEF Begin, pipe
  <2>3. Len(Transfers(o)) \in Nat
    BY <1>1, <2>1, TypesOf, TransfersOf
  <2>4. ~Started /\ ~Started'
    BY <2>1, <2>2, <2>3 DEF Started
  <2> QED BY <1>1, <2>2, <2>4, Unmoved DEF ArrivedInv
<1>4. CASE TimesOut
  BY <1>1, <1>2, <1>4 DEF TimesOut, ArrivedInv, Quiet
<1>5. CASE BusReset
  <2>1. /\ call' = NoCall /\ reset' = TRUE /\ UNCHANGED <<armed, loaded, fw, arrived, ahead>>
    BY <1>5 DEF BusReset, Pipe!BusReset, history
  <2>2. ~Started'
    BY <2>1, NoCallType, NotStarted
  <2> QED BY <1>1, <2>1, <2>2, Unmoved DEF ArrivedInv
<1>6. CASE SetupOut \/ SetupIn
  <2>1. Turn /\ arrived' = arrived
    BY <1>6 DEF SetupOut, SetupIn
  <2> QED BY <1>2, <2>1 DEF Turn, Quiet
<1>7. CASE DataStage \/ StatusStage
  <2>1. UNCHANGED <<arrived, ahead>> /\ call.todo # <<>> /\ call.stage # "idle"
    BY <1>7 DEF DataStage, StatusStage, Now
  <2>2. ahead <=> ~Quiet
    BY <1>1, <2>1, AwaitingInterrupt DEF ArrivedInv
  <2> QED BY <1>2, <2>1, <2>2 DEF Quiet
<1>8. CASE Callback \/ ResetInterrupt
  BY <1>1, <1>2, <1>8 DEF Callback, ResetInterrupt, ArrivedInv, Quiet
<1>9. CASE BulkOut
  <2>1. /\ call.todo # <<>> /\ Advance /\ ahead' = FALSE /\ ~reset
        /\ UNCHANGED <<armed, fw, loaded>>
    BY <1>9 DEF BulkOut, Now, pipe
  <2>2. (Replays' <=> Replays) /\ (Live' <=> Live) /\ (IntoBitstream' <=> IntoBitstream)
    BY <2>1 DEF Replays, Live, IntoBitstream
  <2>3. Ran(fw, Live)' = Ran(fw, Live)
    BY <2>1, <2>2 DEF Ran
  <2>4. ~Replays /\ (armed' => ToBulk')
    <3>1. ToBulk' <=> ToBulk
      BY <2>1 DEF ToBulk
    <3> QED BY <1>9, <2>1, <3>1, BulkOutPlace
  <2>5. CASE call.op.op = "writeBulk" /\ Len(call.todo) = 1 /\ Ran(fw, Live).usage = "emem"
    <3>1. ~Started'
      BY <2>1, <2>5, AdvancedTo, NotStarted
    <3> QED BY <2>1, <2>2, <2>3, <2>4, <2>5, <3>1 DEF ArrivedInv
  <2>6. CASE call.op.op = "program" /\ Len(call.todo) = 3 /\ IntoBitstream
    <3>1. Started' /\ call'.op.op = "program" /\ Len(call'.todo) = 2
      BY <2>1, <2>6, AdvancedTo
    <3> QED BY <2>1, <2>2, <2>4, <2>6, <3>1 DEF ArrivedInv
  <2> QED BY <1>9, <2>5, <2>6, BulkOutPlace
<1>10. CASE BulkInterrupt
  BY <1>2, <1>10 DEF BulkInterrupt, Quiet
<1>11. CASE BulkIn
  <2>1. UNCHANGED <<arrived, ahead>> /\ call.todo # <<>> /\ Now("bulkIn")
    BY <1>11 DEF BulkIn, Now
  <2>2. ahead <=> ~Quiet
    BY <1>1, <2>1, AwaitingInterrupt DEF ArrivedInv
  <2> QED BY <1>2, <2>1, <2>2 DEF Quiet
<1>12. CASE ButtonStep \/ UNCHANGED vars
  <2>1. UNCHANGED <<armed, loaded, reset, fw, arrived, ahead, call>>
    BY <1>12 DEF ButtonStep, vars, pipe, host, history
  <2>2. Started' <=> Started
    BY <2>1 DEF Started
  <2> QED BY <1>1, <2>1, <2>2, Unmoved DEF ArrivedInv
<1> QED BY <1>3, <1>4, <1>5, <1>6, <1>7, <1>8, <1>9, <1>10, <1>11, <1>12 DEF Next

\* Before its first request is acknowledged a call says nothing of the firmware,
\* but that a bulk read which finds no job under way is to start one.
LEMMA FirstRequest ==
  ASSUME Types, CallInv, call.todo # <<>>, Now("out")
  PROVE  /\ call.op.op = "writeBulk" => Len(call.todo) = 2
         /\ call.op.op = "program" => Len(call.todo) \in {1, 4, 5}
         /\ call.op.op = "readCtrl" => Len(call.todo) = 2
         /\ call.op.op = "readBulk" => Len(call.todo) = 3 /\ Req.kind = "MEMREAD_BULK"
<1> DEFINE o == call.op.op
           n == Len(call.todo)
<1>1. \/ o = "readCtrl" /\ n = 2
      \/ o = "readBulk" /\ n = 3 /\ Req.kind = "MEMREAD_BULK"
      \/ o = "writeCtrl"
      \/ o = "writeBulk" /\ n = 2
      \/ o = "program" /\ n \in {1, 4, 5}
      \/ o = "power"
  BY Standing
<1> HIDE DEF o, n
<1> QED BY <1>1 DEF o, n

LEMMA PlaceOfFirstRequest ==
  ASSUME call'.op.op = "writeBulk" => Len(call'.todo) = 2,
         call'.op.op = "program" => Len(call'.todo) \in {1, 4, 5},
         call'.op.op = "readCtrl" => Len(call'.todo) = 2,
         call'.op.op = "readBulk" => Len(call'.todo) = 3,
         call'.op.op = "readBulk" /\ Started' /\ ~call'.leftover =>
           armed' /\ fw'.callback = "MEMREAD_BULK" /\ fw'.inJob = <<>>
  PROVE  PlaceInv'
<1>1. ASSUME NEW o, NEW n, o = "writeBulk" => n = 2, o = "program" => n \in {1, 4, 5},
             o = "readCtrl" => n = 2, o = "readBulk" => n = 3
      PROVE  /\ ~(o = "writeBulk" /\ n = 1) /\ ~(o = "program" /\ n = 3)
             /\ ~(o = "readCtrl" /\ n = 1) /\ ~(o = "readBulk" /\ n <= 2)
  BY <1>1
<1>2. /\ ~(call'.op.op = "writeBulk" /\ Len(call'.todo) = 1)
      /\ ~(call'.op.op = "program" /\ Len(call'.todo) = 3)
      /\ ~(call'.op.op = "readCtrl" /\ Len(call'.todo) = 1)
      /\ ~(call'.op.op = "readBulk" /\ Len(call'.todo) <= 2)
  BY <1>1
<1> QED BY <1>2 DEF PlaceInv

LEMMA ProgramRequest ==
  ASSUME Types, CallInv, call.todo # <<>>, Now("out")
  PROVE  /\ Req.kind = "FPGA_PROGRAM" <=> call.op.op = "program"
         /\ call.op.op = "program" =>
              /\ Len(Transfers(call.op)) = 5
              /\ \/ Len(call.todo) = 5 /\ Req.wValue = 160
                 \/ Len(call.todo) = 4 \/ Len(call.todo) = 1
<1> DEFINE o == call.op.op
           n == Len(call.todo)
           l == Len(Transfers(call.op))
           k == Req.kind
<1>1. \/ o = "readCtrl" /\ k = "MEMREAD_CTRL"
      \/ o = "readBulk" /\ k = "MEMREAD_BULK"
      \/ o = "writeCtrl" /\ k = "MEMWRITE_CTRL"
      \/ o = "writeBulk" /\ k = "MEMWRITE_BULK"
      \/ /\ o = "program" /\ l = 5 /\ k = "FPGA_PROGRAM"
         /\ (n = 5 /\ Req.wValue = 160) \/ n = 4 \/ n = 1
      \/ o = "power" /\ k = "CHANGE_PWR"
  BY Standing
<1> HIDE DEF o, n, l, k
<1>2. o = "program" => l = 5 /\ ((n = 5 /\ Req.wValue = 160) \/ n = 4 \/ n = 1)
  BY <1>1
<1>3. k = "FPGA_PROGRAM" <=> o = "program"
  BY <1>1
<1> QED BY <1>2, <1>3 DEF o, n, l, k

\* The two places a clause of PlaceInv can be disturbed: a request is acknowledged ...
LEMMA StatusPlace == ASSUME IInv, StatusStage PROVE PlaceInv'
<1>1. /\ call.todo # <<>> /\ Now("out") /\ call.stage = "status" /\ Advance
      /\ UNCHANGED <<armed, loaded, fw, arrived>> /\ Types /\ CallInv /\ PlaceInv
  BY DEF StatusStage, Now, IInv, pipe
<1>2. /\ armed /\ fw.callback = Req.kind /\ fw.wValue = Req.wValue /\ fw.usage = "emem" /\ loaded
      /\ Req.kind \in MemoryRequests => fw.ctrlbuffer.addr = call.op.addr
      /\ Started
  BY <1>1 DEF CallInv, Started
<1>3. CASE Len(call.todo) = 1
  BY <1>1, <1>3, AdvancedTo, NotStarted
<1>4. CASE Len(call.todo) # 1
  <2>1. /\ call'.op = call.op /\ call'.leftover = call.leftover
        /\ Len(call'.todo) = Len(call.todo) - 1
    BY <1>1, <1>4, AdvancedTo
  <2> DEFINE o == call.op.op
             n == Len(call.todo)
  <2>2. \/ o = "readCtrl" /\ n = 2 /\ Req.kind = "MEMREAD_CTRL"
        \/ o = "readBulk" /\ n = 3 /\ Req.kind = "MEMREAD_BULK"
        \/ o = "writeBulk" /\ n = 2 /\ Req.kind = "MEMWRITE_BULK"
        \/ o = "program" /\ n = 5
        \/ o = "program" /\ n = 4 /\ Req.kind = "FPGA_PROGRAM" /\ Req.wValue = 161
    BY <1>1, <1>4, Standing
  <2>3. CASE o = "readCtrl" /\ n = 2 /\ Req.kind = "MEMREAD_CTRL"
    <3>1. fw.ctrlbuffer.addr = call.op.addr
      BY <1>2, <2>3 DEF MemoryRequests
    <3> QED BY <1>1, <1>2, <2>1, <2>3, <3>1 DEF PlaceInv
  <2>4. CASE o = "readBulk" /\ n = 3 /\ Req.kind = "MEMREAD_BULK"
    <3>1. fw.ctrlbuffer.addr = call.op.addr
      BY <1>2, <2>4 DEF MemoryRequests
    <3>2. ~call.leftover => fw.inJob = <<>>
      BY <1>1, <1>2, <2>4 DEF PlaceInv
    <3> QED BY <1>1, <1>2, <2>1, <2>4, <3>1, <3>2 DEF PlaceInv
  <2>5. CASE o = "writeBulk" /\ n = 2 /\ Req.kind = "MEMWRITE_BULK"
    <3>1. fw.ctrlbuffer.addr = call.op.addr
      BY <1>2, <2>5 DEF MemoryRequests
    <3> QED BY <1>1, <1>2, <2>1, <2>5, <3>1 DEF PlaceInv
  <2>6. CASE o = "program" /\ n = 5
    <3>1. call'.op.op = "program" /\ Len(call'.todo) = 4
      BY <2>1, <2>6
    <3> QED BY <3>1 DEF PlaceInv
  <2>7. CASE o = "program" /\ n = 4 /\ Req.kind = "FPGA_PROGRAM" /\ Req.wValue = 161
    <3>1. call'.op.op = "program"
      BY <2>1, <2>7
    <3>2. IntoBitstream'
      BY <1>1, <1>2, <2>7 DEF IntoBitstream
    <3> QED BY <3>1, <3>2 DEF PlaceInv
  <2> QED BY <2>2, <2>3, <2>4, <2>5, <2>6, <2>7
<1> QED BY <1>3, <1>4

\* ... and its callback is called.
LEMMA CallbackPlace == ASSUME IInv, Callback PROVE PlaceInv'
<1> SUFFICES ASSUME call'.todo # <<>> PROVE PlaceInv'
  BY NotStarted
<1>1. /\ armed /\ armed' = FALSE /\ fw' = Called(fw) /\ Quiet' /\ call' = call
      /\ call.stage = "idle" /\ PlaceInv /\ CallInv /\ Types /\ call.todo # <<>>
  BY DEF Callback, Pipe!Run, host, Quiet, IInv
<1>2. fw \in FirmwareState /\ Len(fw.inJob) <= 1
  BY TypesOf, <1>1
<1>3. /\ fw'.addr = IF fw.callback \in MemoryRequests THEN fw.ctrlbuffer.addr ELSE fw.addr
      /\ fw'.usage = IF fw.callback # "FPGA_PROGRAM" THEN fw.usage
                     ELSE IF fw.wValue = 161 THEN "fpgabitstream"
                     ELSE IF fw.wValue = 162 THEN "emem" ELSE fw.usage
      /\ fw'.loading <=> fw.callback = "MEMREAD_CTRL" \/ fw.loading
  BY <1>1, <1>2, CalledEffect
<1>4. call.op.op = "writeBulk" /\ Len(call.todo) = 1 =>
        fw'.usage = "emem" /\ fw'.addr = call.op.addr
  <2> HAVE call.op.op = "writeBulk" /\ Len(call.todo) = 1
  <2>1. fw.callback = "MEMWRITE_BULK" /\ fw.usage = "emem" /\ fw.ctrlbuffer.addr = call.op.addr
    BY <1>1 DEF PlaceInv
  <2> QED BY <1>3, <2>1 DEF MemoryRequests
<1>5. call.op.op = "program" /\ Len(call.todo) = 3 => fw'.usage = "fpgabitstream"
  BY <1>1, <1>3 DEF PlaceInv, IntoBitstream
<1>6. call.op.op = "readCtrl" /\ Len(call.todo) = 1 => fw'.loading /\ fw'.addr = call.op.addr
  <2> HAVE call.op.op = "readCtrl" /\ Len(call.todo) = 1
  <2>1. fw.callback = "MEMREAD_CTRL" /\ fw.ctrlbuffer.addr = call.op.addr
    BY <1>1 DEF PlaceInv
  <2> QED BY <1>3, <2>1 DEF MemoryRequests
<1>7. call.op.op = "readBulk" /\ Started /\ ~call.leftover => fw'.addr = call.op.addr
  <2> HAVE call.op.op = "readBulk" /\ Started /\ ~call.leftover
  <2>1. Len(call.todo) <= 2
    <3>1. Len(Transfers(call.op)) = 3 /\ Len(call.todo) \in Nat
      BY <1>1, Standing, TransfersOf, Requested
    <3> QED BY <1>1, <3>1 DEF Started
  <2>2. fw.callback = "MEMREAD_BULK" /\ fw.ctrlbuffer.addr = call.op.addr
    BY <1>1, <2>1 DEF PlaceInv
  <2> QED BY <1>3, <2>2 DEF MemoryRequests
<1>8. Started' <=> Started
  BY <1>1 DEF Started
<1> QED BY <1>1, <1>4, <1>5, <1>6, <1>7, <1>8 DEF PlaceInv, IntoBitstream

LEMMA PlaceStep == ASSUME IInv, Base', [Next]_vars PROVE PlaceInv'
<1>1. Types /\ CallInv /\ PlaceInv /\ fw \in FirmwareState
  BY TypesOf DEF IInv
<1>2. CASE Begin
  <2>1. PICK o \in ops :
          call' = [op |-> o, todo |-> Transfers(o), stage |-> "idle", leftover |-> FALSE]
    BY <1>2 DEF Begin
  <2>2. o \in Operation
    BY <1>1, <2>1, TypesOf
  <2>3. /\ o.op = "writeBulk" => Len(call'.todo) = 2
        /\ o.op = "program" => Len(call'.todo) = 5
        /\ o.op = "readCtrl" => Len(call'.todo) = 2
        /\ o.op = "readBulk" => Len(call'.todo) = 3
        /\ Len(Transfers(o)) \in Nat
    BY <2>1, <2>2, TransfersOf
  <2>4. ~Started'
    BY <2>1, <2>3 DEF Started
  <2>5. call'.op = o
    BY <2>1
  <2> QED BY <2>3, <2>4, <2>5, PlaceOfFirstRequest
<1>3. CASE TimesOut \/ BusReset
  BY <1>3, NoCallType, NotStarted DEF TimesOut, BusReset
<1>4. CASE SetupOut
  <2> DEFINE ok == Accepted(Settled, Req)
  <2>1. /\ call.todo # <<>> /\ Now("out")
        /\ fw' = main_setup_out_received(Settled, Req)
        /\ call' = IF ok THEN [call EXCEPT !.stage = "data", !.leftover = BusyIn(Settled)] ELSE NoCall
    BY <1>4 DEF SetupOut, Now
  <2>2. CASE ~ok
    BY <2>1, <2>2, NoCallType, NotStarted
  <2>3. CASE ok
    <3>1. /\ call'.todo = call.todo /\ call'.op = call.op /\ call'.stage = "data"
          /\ call'.leftover = BusyIn(Settled)
      <4>1. call \in CallType
        BY <1>1, TypesOf
      <4> QED BY <2>1, <2>3, <4>1 DEF CallType
    <3>2. Req.kind \in OutRequests /\ Req.wValue \in Nat
      BY <1>1, <2>1, Requested DEF Now
    <3>3. fw'.callback = Req.kind /\ fw'.inJob = Settled.inJob
      BY <2>1, <2>3, <3>2, SettledEffect, SetupOutEffect
    <3>4. armed'
      BY <3>1 DEF Base, CallInv
    <3>5. /\ call.op.op = "writeBulk" => Len(call.todo) = 2
          /\ call.op.op = "program" => Len(call.todo) \in {1, 4, 5}
          /\ call.op.op = "readCtrl" => Len(call.todo) = 2
          /\ call.op.op = "readBulk" => Len(call.todo) = 3 /\ Req.kind = "MEMREAD_BULK"
      BY <1>1, <2>1, FirstRequest
    <3>6. ~call'.leftover => fw'.inJob = <<>>
      BY <3>1, <3>3 DEF BusyIn
    <3> QED BY <3>1, <3>3, <3>4, <3>5, <3>6, PlaceOfFirstRequest
  <2> QED BY <2>2, <2>3
<1>5. CASE DataStage
  <2>1. /\ call.todo # <<>> /\ Now("out") /\ call.stage = "data"
        /\ call' = [call EXCEPT !.stage = "status"] /\ armed' = armed
    BY <1>5 DEF DataStage, Now, pipe
  <2>2. /\ call'.todo = call.todo /\ call'.op = call.op /\ call'.leftover = call.leftover
    <3>1. call \in CallType
      BY <1>1, TypesOf
    <3> QED BY <2>1, <3>1 DEF CallType
  <2>3. fw'.callback = fw.callback /\ fw'.inJob = fw.inJob
    BY <1>1, <1>5 DEF DataStage, FirmwareState
  <2>4. /\ call.op.op = "writeBulk" => Len(call.todo) = 2
        /\ call.op.op = "program" => Len(call.todo) \in {1, 4, 5}
        /\ call.op.op = "readCtrl" => Len(call.todo) = 2
        /\ call.op.op = "readBulk" => Len(call.todo) = 3
    BY <1>1, <2>1, FirstRequest
  <2>5. Started /\ armed
    BY <1>1, <2>1 DEF Started, CallInv
  <2>6. call.op.op = "readBulk" /\ ~call.leftover => fw.callback = "MEMREAD_BULK" /\ fw.inJob = <<>>
    BY <1>1, <2>1, <2>5 DEF PlaceInv
  <2> QED BY <2>1, <2>2, <2>3, <2>4, <2>5, <2>6, PlaceOfFirstRequest
<1>6. CASE StatusStage
  BY <1>6, StatusPlace
<1>7. CASE Callback
  BY <1>7, CallbackPlace
<1>8. CASE SetupIn
  <2>1. call.todo # <<>> /\ Now("in") /\ Advance
    BY <1>8 DEF SetupIn, Now
  <2>2. \/ Len(call.todo) = 1
        \/ call.op.op = "program" /\ Len(call.todo) = 2
    BY <1>1, <2>1, Standing
  <2>3. CASE Len(call.todo) = 1
    BY <2>1, <2>3, AdvancedTo, NotStarted
  <2>4. CASE call.op.op = "program" /\ Len(call.todo) = 2
    <3>1. call'.op.op = "program" /\ Len(call'.todo) = 1
      BY <2>1, <2>4, AdvancedTo
    <3> QED BY <3>1 DEF PlaceInv
  <2> QED BY <2>2, <2>3, <2>4
<1>9. CASE BulkOut
  <2>1. call.todo # <<>> /\ Now("bulkOut") /\ Advance
    BY <1>9 DEF BulkOut, Now
  <2>2. \/ Len(call.todo) = 1
        \/ call.op.op = "program" /\ Len(call.todo) = 3
    BY <1>1, <2>1, Standing
  <2>3. CASE Len(call.todo) = 1
    BY <2>1, <2>3, AdvancedTo, NotStarted
  <2>4. CASE call.op.op = "program" /\ Len(call.todo) = 3
    <3>1. call'.op.op = "program" /\ Len(call'.todo) = 2
      BY <2>1, <2>4, AdvancedTo
    <3> QED BY <3>1 DEF PlaceInv
  <2> QED BY <2>2, <2>3, <2>4
<1>10. CASE BulkInterrupt
  <2>1. /\ arrived # NONE /\ arrived' = NONE /\ fw' = main_vendor_bulk_out_received(fw, arrived)
        /\ UNCHANGED <<armed, loaded, call>>
    BY <1>10 DEF BulkInterrupt, Quiet, pipe, host
  <2>2. arrived \in Value
    BY <1>1, <2>1, TypesOf
  <2>3. /\ fw'.callback = fw.callback /\ fw'.wValue = fw.wValue
        /\ fw'.ctrlbuffer = fw.ctrlbuffer /\ fw'.inJob = fw.inJob /\ fw'.usage = fw.usage
        /\ fw'.addr = fw.addr /\ fw'.loading = fw.loading
    BY <1>1, <2>1, <2>2, BulkOutEffect
  <2>4. (Started' <=> Started) /\ (IntoBitstream' <=> IntoBitstream) /\ Quiet'
    BY <2>1, <2>3 DEF Started, IntoBitstream, Quiet
  <2> QED BY <1>1, <2>1, <2>3, <2>4 DEF PlaceInv
<1>11. CASE BulkIn
  <2>1. /\ call.todo # <<>> /\ Now("bulkIn") /\ fw.inJob # <<>> /\ Advance
        /\ fw' = PacketTaken(fw) /\ UNCHANGED <<armed, loaded, arrived>>
    BY <1>11 DEF BulkIn, Now, BusyIn, pipe
  <2>2. call.op.op = "readBulk" /\ Len(call.todo) \in {1, 2} /\ Len(Transfers(call.op)) = 3
    BY <1>1, <2>1, Standing
  <2>3. CASE Len(call.todo) = 1
    BY <2>1, <2>3, AdvancedTo, NotStarted
  <2>4. CASE Len(call.todo) = 2
    <3>1. /\ call'.op = call.op /\ call'.leftover = call.leftover
      BY <2>1, <2>4, AdvancedTo
    <3>2. Started
      BY <2>1, <2>2, <2>4 DEF Started
    <3>3. ~call.leftover => ~armed /\ Quiet /\ fw.addr = call.op.addr
      BY <1>1, <2>1, <2>2, <3>2 DEF PlaceInv
    <3>4. fw'.addr = fw.addr
      BY <1>1, <2>1, PacketTakenEffect
    <3>5. Quiet' <=> Quiet
      BY <2>1 DEF Quiet
    <3> QED BY <2>1, <2>2, <3>1, <3>3, <3>4, <3>5 DEF PlaceInv
  <2> QED BY <2>2, <2>3, <2>4
<1>12. CASE ResetInterrupt
  <2>1. call' = call /\ call.todo = <<>>
    BY <1>1, <1>12 DEF ResetInterrupt, Pipe!Drop, host, CallInv
  <2> QED BY <2>1, NotStarted
<1>13. CASE ButtonStep \/ UNCHANGED vars
  <2>1. UNCHANGED <<armed, loaded, fw, arrived, ahead, call>>
    BY <1>13 DEF ButtonStep, vars, pipe, host, history
  <2>2. (Started' <=> Started) /\ (IntoBitstream' <=> IntoBitstream) /\ (Quiet' <=> Quiet)
    BY <2>1 DEF Started, IntoBitstream, Quiet
  <2> QED BY <1>1, <2>1, <2>2 DEF PlaceInv
<1> QED BY <1>2, <1>3, <1>4, <1>5, <1>6, <1>7, <1>8, <1>9, <1>10, <1>11, <1>12, <1>13 DEF Next

---------------------------------------------------------------------------
(* What the registers hold, action by action.                              *)

LEMMA MemoryFacts ==
  ASSUME IInv
  PROVE  /\ Types /\ CallInv /\ ArrivedInv /\ PlaceInv
         /\ fw \in FirmwareState /\ Len(fw.inJob) <= 1 /\ fw.mem \in [Addr -> Value]
         /\ Live \in BOOLEAN /\ Predicted \in [Addr -> Value] /\ Uncalled \in [Addr -> Value]
         /\ arrived \in Value \cup {NONE} /\ ahead \in BOOLEAN /\ armed \in BOOLEAN
         /\ expect \in [Addr -> SUBSET Value] /\ doubtful \subseteq Addr
         /\ call.todo # <<>> => \A a \in Addr : Written(call.op, a) \subseteq expect[a]
         /\ told => armed /\ loaded
         /\ \A a \in Addr \ doubtful : Predicted[a] \in expect[a]
         /\ Untold => \A a \in Addr \ doubtful : Uncalled[a] \in expect[a]
         /\ Started /\ call.op.op = "program" =>
              \A a \in Addr \ doubtful : Predicted[a] = Zero
         /\ Started /\ call.op.op = "readBulk" /\ ~call.leftover /\ fw.inJob # <<>>
              /\ call.op.addr \notin doubtful => Head(fw.inJob) \in expect[call.op.addr]
<1>1. Types /\ CallInv /\ ArrivedInv /\ PlaceInv /\ MemInv
  BY DEF IInv
<1>2. fw.mem \in [Addr -> Value]
  BY <1>1, TypesOf DEF FirmwareState
<1> QED BY <1>1, <1>2, TypesOf, PredictedIs, UncalledIs DEF MemInv

\* The host makes no call, or none that has been accepted, and nothing moved.
LEMMA NothingStarted ==
  ASSUME IInv, ~Started',
         UNCHANGED <<armed, loaded, fw, arrived, ahead, told, doubtful>>,
         \A a \in Addr : expect[a] \subseteq expect'[a],
         call'.todo # <<>> => \A a \in Addr : Written(call'.op, a) \subseteq expect'[a]
  PROVE  MemInv'
<1>1. Predicted' = Predicted /\ Uncalled' = Uncalled
  BY MemoryFacts, Unmoved
<1>2. Untold' <=> Untold
  BY DEF Untold
<1> QED BY <1>1, <1>2, MemoryFacts DEF MemInv

\* The values a call writes are among those expected; with its last transfer they
\* are all that is.
LEMMA AdvanceKeepsMemory ==
  ASSUME IInv, call.todo # <<>>, Advance, told' => armed' /\ loaded',
         \A a \in Addr \ doubtful' :
           Predicted'[a] \in IF Len(call.todo) = 1 /\ Written(call.op, a) # {}
                             THEN Written(call.op, a) ELSE expect[a],
         Untold' => \A a \in Addr \ doubtful' :
                      /\ Uncalled'[a] \in expect[a]
                      /\ Len(call.todo) = 1 => Written(call.op, a) = {},
         Len(call.todo) # 1 /\ call.op.op = "program" =>
           \A a \in Addr \ doubtful' : Predicted'[a] = Zero,
         Len(call.todo) # 1 /\ call.op.op = "readBulk" /\ ~call.leftover /\ fw'.inJob # <<>>
           /\ call.op.addr \notin doubtful' => Head(fw'.inJob) \in expect[call.op.addr]
  PROVE  MemInv'
<1>1. CASE Len(call.todo) = 1
  <2>1. /\ call'.todo = <<>>
        /\ \A a \in Addr : expect'[a] = IF Written(call.op, a) # {} THEN Written(call.op, a)
                                        ELSE expect[a]
    BY <1>1, Advanced, NoCallType
  <2>2. ~Started'
    BY <2>1, NotStarted
  <2>3. \A a \in Addr \ doubtful' : Predicted'[a] \in expect'[a]
    BY <1>1, <2>1
  <2>4. Untold' => \A a \in Addr \ doubtful' : Uncalled'[a] \in expect'[a]
    BY <1>1, <2>1
  <2> QED BY <2>1, <2>2, <2>3, <2>4 DEF MemInv
<1>2. CASE Len(call.todo) # 1
  <2>1. call'.op = call.op /\ call'.leftover = call.leftover /\ expect' = expect
    BY <1>2, AdvancedTo
  <2>2. \A a \in Addr : Written(call.op, a) \subseteq expect[a]
    BY MemoryFacts
  <2> QED BY <1>2, <2>1, <2>2 DEF MemInv
<1> QED BY <1>1, <1>2

\* Where a bulk job that has come is put, once its callback has run.
LEMMA FirstSetupPlace ==
  ASSUME IInv, SetupOut, ~Quiet
  PROVE  ~ahead /\ ~Started /\ ~Replays /\ Ran(fw, Live).usage = "emem"
<1>1. Now("out") /\ call.todo # <<>> /\ ~reset /\ ~ahead
  BY DEF SetupOut, Now, Turn
<1>2. ~Started
  BY <1>1, AwaitingInterrupt
<1> QED BY <1>1, <1>2, MemoryFacts DEF ArrivedInv

\* Settled is Ran unless a callback runs on an older request's data.
LEMMA SettledIsRan ==
  ASSUME Types, ~Replays PROVE Settled = Ran(fw, Live) /\ (Live <=> armed)
<1>1. Live <=> armed
  BY DEF Live
<1> QED BY <1>1 DEF Settled, Ran

\* ... which makes the register it writes doubtful.
LEMMA SettledMemory ==
  ASSUME IInv, CallbackEffects, Quiet
  PROVE  \A a \in Addr \ doubtful' : Settled.mem[a] = Predicted[a]
<1>1. Predicted = Ran(fw, Live).mem
  BY MemoryFacts, PredictedIs DEF Quiet
<1>2. CASE ~Replays
  BY <1>1, <1>2, SettledIsRan, MemoryFacts
<1>3. CASE Replays
  <2>1. armed /\ ~Live /\ fw.callback # "FPGA_PROGRAM"
    BY <1>3 DEF Replays, Live, MemoryRequests
  <2>2. Predicted = fw.mem /\ Settled = Called(fw)
    BY <1>1, <2>1 DEF Ran, Settled
  <2>3. Called(fw).mem = IF fw.callback = "MEMWRITE_CTRL"
                         THEN [fw.mem EXCEPT ![fw.ctrlbuffer.addr] = fw.ctrlbuffer.val]
                         ELSE fw.mem
    BY <2>1, MemoryFacts, CalledEffect
  <2>4. fw.callback = "MEMWRITE_CTRL" => fw.ctrlbuffer.addr \in doubtful'
    BY <1>3, CallbackMarks
  <2>5. ASSUME NEW a \in Addr \ doubtful' PROVE Called(fw).mem[a] = fw.mem[a]
    <3>1. CASE fw.callback = "MEMWRITE_CTRL"
      <4>1. a # fw.ctrlbuffer.addr
        BY <2>4, <3>1
      <4> QED BY <2>3, <3>1, <4>1, MemoryFacts
    <3> QED BY <2>3, <3>1
  <2> QED BY <2>2, <2>5
<1> QED BY <1>2, <1>3

LEMMA WrittenBy ==
  ASSUME NEW o \in Operation, NEW a \in Addr
  PROVE  /\ o.op \in {"writeCtrl", "writeBulk"} =>
              Written(o, a) = IF a = o.addr THEN {o.val} ELSE {}
         /\ o.op = "program" => Written(o, a) = {Zero}
         /\ o.op \in {"readCtrl", "readBulk", "power"} => Written(o, a) = {}
         /\ o.addr \in Addr /\ o.val \in Value
BY DEF Written, Operation

LEMMA SetupOutMemory == ASSUME IInv, Base', SetupOut PROVE MemInv'
<1> DEFINE ok == Accepted(Settled, Req)
           reprogram == ok /\ Req.kind = "FPGA_PROGRAM" /\ Req.wValue = 160
<1>1. /\ call.todo # <<>> /\ Now("out") /\ Turn /\ CallbackEffects
      /\ fw' = main_setup_out_received(Settled, Req) /\ loaded' = FALSE
      /\ arrived' = arrived /\ expect' = expect
      /\ call' = IF ok THEN [call EXCEPT !.stage = "data", !.leftover = BusyIn(Settled)] ELSE NoCall
  BY DEF SetupOut, Now
<1>2. Types' /\ CallInv' /\ told' = FALSE /\ doubtful \subseteq doubtful'
  BY <1>1, CallbackMarks DEF Base
<1>3. Req.kind \in OutRequests /\ Req.wValue \in Nat /\ call.op \in Operation
  BY <1>1, Requested, MemoryFacts DEF Now
<1>4. /\ fw' \in FirmwareState /\ fw'.usage = "emem" /\ fw'.addr = Settled.addr
      /\ fw'.mem = Settled.mem /\ fw'.inJob = Settled.inJob /\ fw'.wValue = Req.wValue
      /\ ~ok => fw'.callback = NONE
      /\ ok => fw'.callback = Req.kind
  BY <1>1, <1>3, SettledEffect, SetupOutEffect
<1>5. /\ ok => /\ call'.todo = call.todo /\ call'.op = call.op
               /\ call'.leftover = BusyIn(Settled)
      /\ ~ok => call'.todo = <<>>
  <2>1. call \in CallType
    BY MemoryFacts, TypesOf
  <2> QED BY <1>1, <2>1, NoCallType DEF CallType
<1>6. armed' => ok
  BY <1>4 DEF SetupOut, Pipe!Run, pipe
<1>7. ok => armed'
  <2>1. CASE armed
    BY <2>1 DEF SetupOut, Pipe!RunThenAccept
  <2>2. CASE ~armed
    BY <2>2 DEF SetupOut, Pipe!Accept
  <2> QED BY <2>1, <2>2
<1> HIDE DEF ok
<1>8. \A a \in Addr \ doubtful' : Uncalled'[a] = Predicted[a]
  <2>1. CASE Quiet
    <3>1. Uncalled' = Settled.mem
      BY <1>1, <1>2, <1>4, <2>1, UncalledNext DEF Quiet
    <3> QED BY <1>1, <2>1, <3>1, SettledMemory
  <2>2. CASE ~Quiet
    <3>1. ~Replays /\ ~ahead /\ Ran(fw, Live).usage = "emem" /\ arrived # NONE
      BY <2>2, FirstSetupPlace DEF Quiet
    <3>2. Settled = Ran(fw, Live)
      BY <3>1, SettledIsRan, MemoryFacts
    <3>3. Ran(fw, Live).mem = Effect(fw, Live, fw.mem)
      BY MemoryFacts, RanEffect
    <3>4. Predicted = Landed(Settled, arrived, Settled.mem)
      <4>1. Predicted = MemoryAfter(fw, Live, arrived, ahead)
        BY MemoryFacts, PredictedIs
      <4> QED BY <3>1, <3>2, <3>3, <4>1, MemoryFacts, MemoryAfterIs
    <3>5. Uncalled' = Landed(fw', arrived, fw'.mem)
      BY <1>1, <1>2, <3>1, UncalledNext
    <3>6. Landed(fw', arrived, fw'.mem) = Landed(Settled, arrived, Settled.mem)
      BY <1>4, <3>1, <3>2 DEF Landed
    <3> QED BY <3>4, <3>5, <3>6
  <2> QED BY <2>1, <2>2
<1>9. Predicted' = IF reprogram THEN [x \in Addr |-> Zero] ELSE Uncalled'
  <2>1. Predicted' = Effect(fw', Live', Uncalled')
    BY <1>1, <1>2, UncalledNext DEF Turn, Quiet
  <2>2. CASE ~ok
    <3>1. ~Live'
      BY <1>6, <2>2 DEF Live
    <3> QED BY <2>1, <2>2, <3>1 DEF Effect
  <2>3. CASE ok /\ Req.kind \in MemoryRequests
    <3>1. Replays'
      BY <1>1, <1>4, <1>7, <2>3 DEF Replays
    <3>2. ~Live'
      BY <3>1 DEF Live
    <3>3. Req.kind # "FPGA_PROGRAM"
      BY <2>3 DEF MemoryRequests
    <3> QED BY <2>1, <2>3, <3>2, <3>3 DEF Effect
  <2>4. CASE ok /\ Req.kind \notin MemoryRequests
    <3>1. ~Replays' /\ fw'.callback = Req.kind /\ Req.kind # "MEMWRITE_CTRL"
      BY <1>4, <2>4 DEF Replays, MemoryRequests
    <3>2. Live'
      BY <1>7, <2>4, <3>1 DEF Live
    <3> QED BY <1>4, <2>1, <2>4, <3>1, <3>2 DEF Effect
  <2> QED BY <2>2, <2>3, <2>4
<1>10. reprogram => \A a \in Addr : Zero \in expect[a]
  <2> HAVE reprogram
  <2>1. Req.kind = "FPGA_PROGRAM"
    BY DEF reprogram
  <2>2. call.op.op = "program"
    BY <1>1, <2>1, ProgramRequest, MemoryFacts
  <2> HIDE DEF reprogram
  <2> QED BY <1>1, <1>3, <2>2, WrittenBy, MemoryFacts
<1>11. \A a \in Addr \ doubtful' : Uncalled'[a] \in expect'[a]
  BY <1>1, <1>2, <1>8, MemoryFacts
<1>12. \A a \in Addr \ doubtful' : Predicted'[a] \in expect'[a]
  <2>1. CASE reprogram
    BY <1>1, <1>9, <1>10, <2>1
  <2>2. CASE ~reprogram
    BY <1>9, <1>11, <2>2
  <2> QED BY <2>1, <2>2
<1>13. CASE ~ok
  <2>1. ~Started'
    BY <1>5, <1>13, NotStarted
  <2> QED BY <1>2, <1>5, <1>11, <1>12, <1>13, <2>1 DEF MemInv
<1>14. CASE ok
  <2>1. \A a \in Addr : Written(call'.op, a) \subseteq expect'[a]
    BY <1>1, <1>5, <1>14, MemoryFacts
  <2>2. fw'.inJob # <<>> => call'.leftover
    BY <1>4, <1>5, <1>14 DEF BusyIn
  <2>3. call'.op.op = "program" => \A a \in Addr \ doubtful' : Predicted'[a] = Zero
    <3> HAVE call'.op.op = "program"
    <3>1. CASE reprogram
      BY <1>9, <3>1
    <3>2. CASE ~reprogram
      <4>1. call.op.op = "program"
        BY <1>5, <1>14
      <4>2. Req.kind = "FPGA_PROGRAM" /\ Len(Transfers(call.op)) = 5
        BY <1>1, <4>1, ProgramRequest, MemoryFacts
      <4>3. Req.wValue # 160
        BY <1>14, <3>2, <4>2 DEF reprogram
      <4>4. Len(call.todo) = 4 \/ Len(call.todo) = 1
        BY <1>1, <4>1, <4>3, ProgramRequest, MemoryFacts
      <4>5. \A n : n = 4 \/ n = 1 => n < 5
        OBVIOUS
      <4>6. Started
        BY <1>1, <4>2, <4>4, <4>5 DEF Started
      <4>7. \A a \in Addr \ doubtful' : Predicted[a] = Zero
        BY <1>2, <4>1, <4>6, MemoryFacts
      <4> QED BY <1>8, <1>9, <3>2, <4>7
    <3> QED BY <3>1, <3>2
  <2> QED BY <1>2, <1>11, <1>12, <2>1, <2>2, <2>3 DEF MemInv
<1> QED BY <1>13, <1>14

\* In a request the interrupt of an earlier bulk job comes before the callback.
LEMMA InRequest ==
  ASSUME IInv, call.todo # <<>>, Now("out"), call.stage # "idle"
  PROVE  Predicted = Effect(fw, Live, Uncalled) /\ (ahead <=> ~Quiet) /\ Started
<1>1. ahead <=> ~Quiet
  BY MemoryFacts, AwaitingInterrupt DEF ArrivedInv
<1>2. Predicted = Effect(fw, Live, Uncalled)
  BY <1>1, MemoryFacts, UncalledIs DEF Quiet
<1>3. Started
  BY DEF Started
<1> QED BY <1>1, <1>2, <1>3

LEMMA DataStageMemory == ASSUME IInv, Base', DataStage PROVE MemInv'
<1>1. /\ call.todo # <<>> /\ Now("out") /\ call.stage = "data" /\ loaded' = TRUE
      /\ call' = [call EXCEPT !.stage = "status"]
      /\ UNCHANGED <<armed, arrived, ahead, expect, told, doubtful>>
  BY DEF DataStage, Now, pipe
<1>2. call'.todo = call.todo /\ call'.op = call.op /\ call'.leftover = call.leftover
      /\ call'.stage = "status" /\ Req' = Req
  <2>1. call \in CallType
    BY MemoryFacts, TypesOf
  <2> QED BY <1>1, <2>1 DEF CallType, Req
<1>3. /\ armed /\ ~loaded /\ fw.callback = Req.kind
      /\ Predicted = Effect(fw, Live, Uncalled) /\ (ahead <=> ~Quiet) /\ Started
  BY <1>1, InRequest, MemoryFacts DEF CallInv
<1>4. /\ Types' /\ CallInv' /\ fw' \in FirmwareState /\ Len(fw'.inJob) <= 1
  BY DEF Base, Types, TypeOK
<1>5. /\ fw'.mem = fw.mem /\ fw'.addr = fw.addr /\ fw'.usage = fw.usage /\ fw'.inJob = fw.inJob
      /\ fw'.callback = fw.callback /\ fw'.wValue = fw.wValue
      /\ Req.kind \notin MemoryRequests => fw' = fw
  <2>1. CASE Req.kind \notin MemoryRequests
    BY <2>1 DEF DataStage
  <2>2. CASE Req.kind \in MemoryRequests
    BY <2>2, MemoryFacts DEF DataStage, FirmwareState
  <2> QED BY <2>1, <2>2
<1>6. Live' /\ Live' \in BOOLEAN
  BY <1>1, <1>3, <1>4, PredictedNext DEF Live, Replays
<1>7. Uncalled' = Uncalled
  <2>1. Landed(fw', arrived, fw'.mem) = Landed(fw, arrived, fw.mem)
    BY <1>5 DEF Landed
  <2> QED BY <1>1, <1>4, <1>5, <2>1, MemoryFacts, UncalledIs, UncalledNext
<1>8. Predicted' = Effect(fw', TRUE, Uncalled)
  <2>1. Predicted' = Effect(fw', Live', Uncalled')
    BY <1>1, <1>3, <1>4, UncalledNext DEF Quiet
  <2> QED BY <1>6, <1>7, <2>1 DEF Effect
<1>9. call.op \in Operation /\ Req.kind \in OutRequests
  BY <1>1, MemoryFacts, Requested DEF Now
<1>10. ~told /\ (Untold' <=> Untold)
  BY <1>1, <1>3, <1>5, MemoryFacts DEF Untold
<1>11. CASE Req.kind \notin MemoryRequests
  <2>1. Live
    BY <1>3, <1>11 DEF Live, Replays
  <2>2. Predicted' = Predicted
    BY <1>3, <1>5, <1>8, <1>11, <2>1 DEF Effect
  <2> QED BY <1>1, <1>2, <1>3, <1>5, <1>7, <1>10, <2>2, MemoryFacts DEF MemInv
<1>12. CASE Req.kind \in MemoryRequests
  <2>1. ~Live
    BY <1>3, <1>12 DEF Live, Replays
  <2>2. Predicted = Uncalled
    BY <2>1, MemoryFacts, UncalledIs
  <2>3. Req.kind # "FPGA_PROGRAM"
    BY <1>12 DEF MemoryRequests
  <2>4. call.op.op # "program"
    BY <1>1, <2>3, ProgramRequest, MemoryFacts
  <2>5. \A a \in Addr \ doubtful : Predicted'[a] \in expect[a]
    <3>1. CASE Req.kind # "MEMWRITE_CTRL"
      <4>1. Predicted' = Predicted
        BY <1>3, <1>5, <1>8, <2>2, <2>3, <3>1 DEF Effect
      <4> QED BY <4>1, MemoryFacts
    <3>2. CASE Req.kind = "MEMWRITE_CTRL"
      <4>1. fw'.ctrlbuffer.addr = call.op.addr /\ fw'.ctrlbuffer.val = call.op.val
        BY <1>2, <1>4, <1>12, <3>2 DEF CallInv
      <4>2. Predicted' = [Predicted EXCEPT ![call.op.addr] = call.op.val]
        BY <1>3, <1>5, <1>8, <2>2, <3>2, <4>1 DEF Effect
      <4>3. call.op.op = "writeCtrl"
        <5> DEFINE o == call.op.op
                   k == Req.kind
        <5>1. \/ o = "readCtrl" /\ k = "MEMREAD_CTRL"
              \/ o = "readBulk" /\ k = "MEMREAD_BULK"
              \/ o = "writeCtrl"
              \/ o = "writeBulk" /\ k = "MEMWRITE_BULK"
              \/ o = "program" /\ k = "FPGA_PROGRAM"
              \/ o = "power" /\ k = "CHANGE_PWR"
          BY <1>1, Standing, MemoryFacts
        <5> QED BY <3>2, <5>1
      <4>4. call.op.addr \in Addr /\ call.op.val \in expect[call.op.addr]
        <5>1. call.op.addr \in Addr
          BY <1>9 DEF Operation
        <5>2. Written(call.op, call.op.addr) = {call.op.val}
          BY <4>3 DEF Written
        <5>3. Written(call.op, call.op.addr) \subseteq expect[call.op.addr]
          BY <1>1, <5>1, MemoryFacts
        <5> QED BY <5>1, <5>2, <5>3
      <4>5. \A a \in Addr \ doubtful : Predicted[a] \in expect[a]
        BY MemoryFacts
      <4>6. Predicted \in [Addr -> Value]
        BY MemoryFacts
      <4> QED BY <4>2, <4>4, <4>5, <4>6
    <3> QED BY <3>1, <3>2
  <2> QED BY <1>1, <1>2, <1>3, <1>5, <1>7, <1>10, <2>4, <2>5, MemoryFacts DEF MemInv
<1> QED BY <1>11, <1>12

LEMMA StatusStageMemory == ASSUME IInv, Base', StatusStage PROVE MemInv'
<1>1. /\ call.todo # <<>> /\ Now("out") /\ call.stage = "status" /\ Advance
      /\ UNCHANGED <<armed, loaded, fw, arrived, ahead>>
      /\ told' = TRUE /\ doubtful' = doubtful \ Rewritten
  BY DEF StatusStage, Now, pipe
<1>2. /\ armed /\ loaded /\ fw.callback = Req.kind /\ fw.wValue = Req.wValue
      /\ Req.kind \in MemoryRequests => fw.ctrlbuffer.addr = call.op.addr
      /\ Req.kind = "MEMWRITE_CTRL" => fw.ctrlbuffer.val = call.op.val
      /\ Predicted = Effect(fw, Live, Uncalled) /\ Started
  BY <1>1, InRequest, MemoryFacts DEF CallInv
<1>3. Predicted' = Predicted /\ Uncalled' = Uncalled
  BY <1>1, MemoryFacts, Unmoved
<1>4. Live
  BY <1>2 DEF Live, Replays
<1>5. call.op \in Operation
  BY <1>1, MemoryFacts, Requested
<1>6. ASSUME NEW a \in Addr \ doubtful', ~(Len(call.todo) = 1 /\ Written(call.op, a) # {})
      PROVE  a \in Addr \ doubtful
  <2>1. ASSUME a \in Rewritten PROVE FALSE
    <3>1. Len(call.todo) = 1 /\ call.op.op \in {"writeCtrl", "writeBulk"} /\ a = call.op.addr
      BY <2>1 DEF Rewritten
    <3>2. Written(call.op, a) = {call.op.val}
      BY <1>5, <3>1, WrittenBy
    <3> QED BY <1>6, <3>1, <3>2
  <2> QED BY <1>1, <2>1
<1>7. call.op.op \notin {"writeCtrl", "writeBulk"} => doubtful' = doubtful
  BY <1>1 DEF Rewritten
<1>8. ASSUME NEW a \in Addr \ doubtful', Len(call.todo) = 1, Written(call.op, a) # {}
      PROVE  Predicted[a] \in Written(call.op, a)
  <2> DEFINE o == call.op.op
  <2>1. (o = "writeCtrl" /\ Req.kind = "MEMWRITE_CTRL") \/ o = "program" \/ o = "power"
    BY <1>1, <1>8, Standing, MemoryFacts
  <2>2. CASE o = "writeCtrl" /\ Req.kind = "MEMWRITE_CTRL"
    <3>1. a = call.op.addr /\ Written(call.op, a) = {call.op.val}
      BY <1>8, <2>2 DEF Written
    <3>2. fw.ctrlbuffer.addr = call.op.addr /\ fw.ctrlbuffer.val = call.op.val
      BY <1>2, <2>2 DEF MemoryRequests
    <3>3. Predicted = [Uncalled EXCEPT ![a] = call.op.val]
      BY <1>2, <1>4, <2>2, <3>1, <3>2 DEF Effect
    <3> QED BY <3>1, <3>3, MemoryFacts
  <2>3. CASE o = "program"
    <3>1. Written(call.op, a) = {Zero}
      BY <2>3 DEF Written
    <3>2. Predicted[a] = Zero
      BY <1>2, <1>7, <2>3, MemoryFacts
    <3> QED BY <3>1, <3>2
  <2>4. CASE o = "power"
    BY <1>8, <2>4 DEF Written
  <2> QED BY <2>1, <2>2, <2>3, <2>4
<1>9. \A a \in Addr \ doubtful' :
        Predicted'[a] \in IF Len(call.todo) = 1 /\ Written(call.op, a) # {}
                          THEN Written(call.op, a) ELSE expect[a]
  BY <1>3, <1>6, <1>8, MemoryFacts
\* The host has been told of a write; the start of the bitstream is no call's end.
<1>10. Untold' => \A a \in Addr \ doubtful' :
                    /\ Uncalled'[a] \in expect[a]
                    /\ Len(call.todo) = 1 => Written(call.op, a) = {}
  <2> HAVE Untold'
  <2>1. Req.kind = "FPGA_PROGRAM" /\ Req.wValue = 160
    BY <1>1, <1>2 DEF Untold
  <2>2. call.op.op = "program" /\ Len(call.todo) # 1 /\ Untold
    <3>1. call.op.op = "program"
      BY <1>1, <2>1, ProgramRequest, MemoryFacts
    <3>2. Len(call.todo) = 5 \/ Len(call.todo) = 4
      BY <1>1, <2>1, <3>1, Standing, MemoryFacts
    <3>3. Untold
      BY <1>2, <2>1 DEF Untold
    <3> QED BY <3>1, <3>2, <3>3
  <2> QED BY <1>3, <1>7, <2>2, MemoryFacts
<1>11. Len(call.todo) # 1 /\ call.op.op = "program" =>
         \A a \in Addr \ doubtful' : Predicted'[a] = Zero
  BY <1>2, <1>3, <1>7, MemoryFacts
<1>12. call.op.op = "readBulk" /\ ~call.leftover /\ fw.inJob # <<>>
         /\ call.op.addr \notin doubtful' => Head(fw.inJob) \in expect[call.op.addr]
  BY <1>2, <1>7, MemoryFacts
<1>13. told' => armed' /\ loaded'
  BY <1>1, <1>2
<1> QED BY <1>1, <1>9, <1>10, <1>11, <1>12, <1>13, AdvanceKeepsMemory

LEMMA CallbackMemory == ASSUME IInv, Base', Callback PROVE MemInv'
<1>1. /\ armed /\ armed' = FALSE /\ fw' = Called(fw) /\ arrived = NONE /\ arrived' = NONE
      /\ call' = call /\ expect' = expect /\ call.stage = "idle" /\ CallbackEffects
  BY DEF Callback, Pipe!Run, host, Quiet
<1>2. /\ (Started' <=> Started) /\ Types' /\ CallInv' /\ ~Untold'
      /\ told' = FALSE /\ doubtful \subseteq doubtful'
  BY <1>1, CallbackMarks DEF Started, Base, Untold
<1>3. \A a \in Addr \ doubtful' : Predicted'[a] = Predicted[a] /\ fw'.mem[a] = Predicted[a]
  <2>1. Predicted' = fw'.mem
    BY <1>1, <1>2, PredictedNext
  <2>2. fw'.mem = Settled.mem
    BY <1>1 DEF Settled
  <2>3. Quiet
    BY <1>1 DEF Quiet
  <2> QED BY <1>1, <2>1, <2>2, <2>3, SettledMemory
<1>4. Started /\ call.op.op = "readBulk" /\ ~call.leftover /\ fw'.inJob # <<>>
        /\ call.op.addr \notin doubtful' => Head(fw'.inJob) \in expect[call.op.addr]
  <2> HAVE /\ Started /\ call.op.op = "readBulk" /\ ~call.leftover /\ fw'.inJob # <<>>
           /\ call.op.addr \notin doubtful'
  <2>1. call.todo # <<>> /\ call.op \in Operation
    BY MemoryFacts, Requested DEF Started
  <2>2. Len(call.todo) <= 2
    <3>1. Len(Transfers(call.op)) = 3 /\ Len(call.todo) \in Nat
      BY <2>1, MemoryFacts, Standing, TransfersOf
    <3> QED BY <1>1, <3>1 DEF Started
  <2>3. fw.callback = "MEMREAD_BULK" /\ fw.inJob = <<>> /\ fw.ctrlbuffer.addr = call.op.addr
    BY <1>1, <2>1, <2>2, MemoryFacts DEF PlaceInv
  <2>4. fw'.inJob = <<fw.mem[fw.ctrlbuffer.addr]>> /\ fw'.mem = fw.mem
    <3>1. /\ Called(fw).inJob = IF fw.callback = "MEMREAD_BULK" /\ fw.inJob = <<>>
                                THEN <<fw.mem[fw.ctrlbuffer.addr]>> ELSE fw.inJob
          /\ Called(fw).mem =
               IF fw.callback = "MEMWRITE_CTRL"
               THEN [fw.mem EXCEPT ![fw.ctrlbuffer.addr] = fw.ctrlbuffer.val]
               ELSE IF fw.callback = "FPGA_PROGRAM" /\ fw.wValue = 160 THEN [x \in Addr |-> Zero]
               ELSE fw.mem
      BY MemoryFacts, CalledEffect
    <3> QED BY <1>1, <2>3, <3>1
  <2>5. call.op.addr \in Addr \ doubtful'
    BY <2>1 DEF Operation
  <2>6. Head(fw'.inJob) = Predicted[call.op.addr]
    BY <1>3, <2>3, <2>4, <2>5
  <2> QED BY <1>2, <2>5, <2>6, MemoryFacts
<1>5. \A a \in Addr \ doubtful' : Predicted'[a] \in expect'[a]
  BY <1>1, <1>2, <1>3, MemoryFacts
<1>6. Started /\ call.op.op = "program" => \A a \in Addr \ doubtful' : Predicted'[a] = Zero
  BY <1>2, <1>3, MemoryFacts
<1> QED BY <1>1, <1>2, <1>4, <1>5, <1>6, MemoryFacts DEF MemInv

LEMMA SetupInMemory == ASSUME IInv, Base', SetupIn PROVE MemInv'
<1>1. /\ call.todo # <<>> /\ Now("in") /\ Turn /\ CallbackEffects /\ Advance
      /\ arrived' = arrived /\ (fw' = Settled \/ fw' = main_setup_in_received(Settled))
  BY DEF SetupIn, Now
<1>2. /\ armed' = FALSE /\ Types' /\ CallInv' /\ ~Untold' /\ ~Live'
      /\ told' = FALSE /\ doubtful \subseteq doubtful'
  <2>1. armed' = FALSE
    BY MemoryFacts DEF SetupIn, Pipe!Run, pipe
  <2> QED BY <1>1, <2>1, CallbackMarks DEF Base, Untold, Live
<1>3. /\ Settled \in FirmwareState /\ fw' \in FirmwareState
      /\ fw'.mem = Settled.mem /\ fw'.addr = Settled.addr /\ fw'.usage = Settled.usage
  BY <1>1, SettledEffect, SetupInEffect DEF FirmwareState
<1>4. call.op \in Operation
  BY <1>1, MemoryFacts, Requested
<1>5. /\ call.op.op \in {"readCtrl", "program"}
      /\ call.op.op = "readCtrl" => Len(call.todo) = 1
      /\ call.op.op = "program" => Len(call.todo) = 2 /\ Started
  <2> DEFINE o == call.op.op
  <2>1. \/ o = "readCtrl" /\ Len(call.todo) = 1
        \/ o = "program" /\ Len(call.todo) = 2 /\ Len(Transfers(call.op)) = 5
    BY <1>1, Standing, MemoryFacts
  <2>2. Len(call.todo) = 2 /\ Len(Transfers(call.op)) = 5 => Started
    BY <1>1 DEF Started
  <2> QED BY <2>1, <2>2
<1>6. \A a \in Addr \ doubtful' : Predicted'[a] = Predicted[a]
  <2>1. CASE Quiet
    <3>1. Predicted' = Settled.mem
      BY <1>1, <1>2, <1>3, <2>1, UncalledNext DEF Quiet
    <3> QED BY <1>1, <2>1, <3>1, SettledMemory
  <2>2. CASE ~Quiet
    <3>1. ~ahead /\ arrived # NONE /\ ~Replays
      BY <1>1, <2>2, MemoryFacts DEF Turn, Quiet, ArrivedInv
    <3>2. Settled = Ran(fw, Live)
      BY <3>1, SettledIsRan, MemoryFacts
    <3>3. Ran(fw, Live).mem = Effect(fw, Live, fw.mem)
      BY MemoryFacts, RanEffect
    <3>4. Predicted = Landed(Settled, arrived, Settled.mem)
      <4>1. Predicted = MemoryAfter(fw, Live, arrived, ahead)
        BY MemoryFacts, PredictedIs
      <4> QED BY <3>1, <3>2, <3>3, <4>1, MemoryFacts, MemoryAfterIs
    <3>5. Predicted' = Landed(fw', arrived, fw'.mem)
      BY <1>1, <1>2, <3>1, UncalledNext
    <3>6. Landed(fw', arrived, fw'.mem) = Landed(Settled, arrived, Settled.mem)
      BY <1>3 DEF Landed
    <3> QED BY <3>4, <3>5, <3>6
  <2> QED BY <2>1, <2>2
<1>7. Len(call.todo) = 1 => \A a \in Addr : Written(call.op, a) = {}
  BY <1>5 DEF Written
<1>8. \A a \in Addr \ doubtful' : Predicted'[a] \in expect[a]
  BY <1>2, <1>6, MemoryFacts
<1>9. call.op.op = "program" => \A a \in Addr \ doubtful' : Predicted'[a] = Zero
  BY <1>2, <1>5, <1>6, MemoryFacts
<1>10. call.op.op # "readBulk"
  BY <1>5
<1> QED BY <1>1, <1>2, <1>7, <1>8, <1>9, <1>10, AdvanceKeepsMemory

LEMMA BulkOutMemory == ASSUME IInv, Base', BulkOut PROVE MemInv'
<1>1. /\ call.todo # <<>> /\ Now("bulkOut") /\ Quiet /\ Advance
      /\ arrived' = Req.data.val /\ ahead' = FALSE
      /\ doubtful' = doubtful \ Rewritten
      /\ UNCHANGED <<armed, fw, loaded, told>>
  BY DEF BulkOut, Now, pipe
<1>2. /\ call.op \in Operation /\ arrived' = call.op.val
  BY <1>1, MemoryFacts, Requested
<1>3. call.op.val \in Value /\ call.op.addr \in Addr /\ call.op.val # NONE
  BY <1>2, VendorRequestsAssumption DEF Operation
<1>4. Live' = Live
  <2>1. Live' <=> Live
    BY <1>1 DEF Live, Replays
  <2>2. Live \in BOOLEAN /\ Live' \in BOOLEAN
    BY MemoryFacts, PredictedNext DEF Base
  <2> QED BY <2>1, <2>2
<1>5. Predicted' = Landed(Ran(fw, Live), call.op.val, Predicted)
  <2>1. Predicted = Effect(fw, Live, fw.mem)
    BY <1>1, MemoryFacts, PredictedIs, RanEffect DEF Quiet
  <2>2. Predicted' = MemoryAfter(fw, Live, call.op.val, FALSE)
    BY <1>1, <1>2, <1>4, PredictedNext DEF Base
  <2>3. MemoryAfter(fw, Live, call.op.val, FALSE)
          = Landed(Ran(fw, Live), call.op.val, Effect(fw, Live, fw.mem))
    BY <1>3, MemoryFacts, MemoryAfterIs
  <2> QED BY <2>1, <2>2, <2>3
<1>6. ~Untold' /\ (told' => armed' /\ loaded')
  <2>1. armed => ToBulk
    BY BulkOutPlace
  <2> QED BY <1>1, <2>1, MemoryFacts DEF Untold, ToBulk
<1>7. CASE /\ call.op.op = "writeBulk" /\ Len(call.todo) = 1
           /\ Ran(fw, Live).usage = "emem" /\ Ran(fw, Live).addr = call.op.addr
  <2>1. Predicted' = [Predicted EXCEPT ![call.op.addr] = call.op.val]
    BY <1>5, <1>7 DEF Landed
  <2>2. \A a \in Addr : Written(call.op, a) = IF a = call.op.addr THEN {call.op.val} ELSE {}
    BY <1>7 DEF Written
  <2>3. doubtful' = doubtful \ {call.op.addr}
    BY <1>1, <1>7 DEF Rewritten
  <2>4. ASSUME NEW a \in Addr \ doubtful'
        PROVE  Predicted'[a] \in IF Len(call.todo) = 1 /\ Written(call.op, a) # {}
                                 THEN Written(call.op, a) ELSE expect[a]
    <3>1. CASE a = call.op.addr
      BY <1>7, <2>1, <2>2, <3>1, MemoryFacts
    <3>2. CASE a # call.op.addr
      <4>1. a \in Addr \ doubtful /\ Written(call.op, a) = {}
        BY <2>2, <2>3, <3>2
      <4>2. Predicted'[a] = Predicted[a]
        BY <2>1, <3>2, MemoryFacts
      <4>3. Predicted[a] \in expect[a]
        BY <4>1, MemoryFacts
      <4> QED BY <4>1, <4>2, <4>3
    <3> QED BY <3>1, <3>2
  <2> QED BY <1>1, <1>6, <1>7, <2>4, AdvanceKeepsMemory
<1>8. CASE /\ call.op.op = "program" /\ Len(call.todo) = 3 /\ Started
           /\ Ran(fw, Live).usage = "fpgabitstream"
  <2>1. Predicted' = Predicted /\ doubtful' = doubtful
    BY <1>1, <1>5, <1>8 DEF Landed, Rewritten
  <2>2. \A a \in Addr \ doubtful : Predicted[a] = Zero /\ Predicted[a] \in expect[a]
    BY <1>8, MemoryFacts
  <2> QED BY <1>1, <1>6, <1>8, <2>1, <2>2, AdvanceKeepsMemory
<1> QED BY <1>7, <1>8, BulkOutPlace

\* Bulk data that come before the callback of their request touch no register but
\* those that become doubtful.
LEMMA BulkInterruptMemory == ASSUME IInv, Base', BulkInterrupt PROVE MemInv'
<1>1. /\ arrived # NONE /\ arrived' = NONE /\ fw' = main_vendor_bulk_out_received(fw, arrived)
      /\ doubtful' = doubtful \cup Misplaced
      /\ UNCHANGED <<armed, loaded, told, call, expect>>
  BY DEF BulkInterrupt, Quiet, pipe, host
<1>2. arrived \in Value
  BY <1>1, MemoryFacts
<1>3. /\ fw'.callback = fw.callback /\ fw'.inJob = fw.inJob /\ fw'.wValue = fw.wValue
      /\ fw'.ctrlbuffer = fw.ctrlbuffer /\ fw'.mem = Landed(fw, arrived, fw.mem)
  BY <1>1, <1>2, MemoryFacts, BulkOutEffect DEF Landed
<1>4. (Live' <=> Live) /\ (Started' <=> Started) /\ (Untold' <=> Untold)
  BY <1>1, <1>3 DEF Live, Replays, Started, Untold
<1>5. Live' = Live
  BY <1>4, MemoryFacts, PredictedNext DEF Base
<1>6. Uncalled' = Uncalled
  BY <1>1, <1>3, MemoryFacts, UncalledIs, UncalledNext DEF Base
<1>7. Predicted' = Effect(fw, Live, Uncalled)
  <2>1. Predicted' = Effect(fw', Live', Uncalled')
    BY <1>1, UncalledNext DEF Base
  <2> QED BY <1>3, <1>5, <1>6, <2>1 DEF Effect
<1>8. \A a \in Addr \ doubtful' : Predicted'[a] = Predicted[a]
  <2>1. CASE ahead
    BY <1>7, <2>1, MemoryFacts, UncalledIs
  <2>2. CASE ~armed
    BY <1>7, <2>2, MemoryFacts, UncalledIs DEF Effect, Live
  <2>3. CASE armed /\ ~ahead
    <3>1. ToBulk /\ ~Replays /\ Live
      BY <1>1, <2>3, MemoryFacts DEF ArrivedInv, Quiet, Live
    <3>2. \A m : Effect(fw, Live, m) = m
      BY <3>1 DEF Effect, ToBulk
    <3>3. Predicted = Landed(Ran(fw, Live), arrived, fw.mem)
      <4>1. Predicted = MemoryAfter(fw, Live, arrived, ahead)
        BY MemoryFacts, PredictedIs
      <4> QED BY <1>1, <2>3, <3>2, <4>1, MemoryFacts, MemoryAfterIs
    <3>4. Predicted' = Landed(fw, arrived, fw.mem)
      BY <1>1, <1>7, <3>2, MemoryFacts, UncalledIs
    <3>5. fw.addr \in Misplaced /\ Ran(fw, Live).addr \in Misplaced
      <4>1. Misplaced = {fw.addr} \cup (IF fw.callback = "MEMWRITE_BULK" THEN {fw.ctrlbuffer.addr}
                                        ELSE {})
        BY <1>1, <2>3 DEF Misplaced, Early, Quiet
      <4>2. Ran(fw, Live).addr = IF fw.callback \in MemoryRequests
                                 THEN fw.ctrlbuffer.addr ELSE fw.addr
        BY <3>1, MemoryFacts, RanEffect
      <4>3. fw.callback \in MemoryRequests => fw.callback = "MEMWRITE_BULK"
        BY <3>1 DEF ToBulk, MemoryRequests
      <4> QED BY <4>1, <4>2, <4>3
    <3>6. ASSUME NEW a \in Addr \ doubtful' PROVE Predicted'[a] = Predicted[a]
      <4>1. a # fw.addr /\ a # Ran(fw, Live).addr
        BY <1>1, <3>5
      <4>2. Landed(fw, arrived, fw.mem)[a] = fw.mem[a]
        BY <4>1, MemoryFacts DEF Landed
      <4>3. Landed(Ran(fw, Live), arrived, fw.mem)[a] = fw.mem[a]
        BY <4>1, MemoryFacts DEF Landed
      <4> QED BY <3>3, <3>4, <4>2, <4>3
    <3> QED BY <3>6
  <2> QED BY <2>1, <2>2, <2>3
<1>9. /\ \A a \in Addr \ doubtful' : Predicted'[a] \in expect[a]
      /\ Started /\ call.op.op = "program" => \A a \in Addr \ doubtful' : Predicted'[a] = Zero
      /\ Untold => \A a \in Addr \ doubtful' : Uncalled'[a] \in expect[a]
  BY <1>1, <1>6, <1>8, MemoryFacts
<1> QED BY <1>1, <1>3, <1>4, <1>9, MemoryFacts DEF MemInv

LEMMA BulkInMemory == ASSUME IInv, Base', BulkIn PROVE MemInv'
<1>1. /\ call.todo # <<>> /\ Now("bulkIn") /\ fw.inJob # <<>> /\ Advance
      /\ fw' = PacketTaken(fw)
      /\ UNCHANGED <<armed, loaded, arrived, ahead, told, doubtful>>
  BY DEF BulkIn, Now, BusyIn, pipe
<1>2. /\ fw' \in FirmwareState /\ Len(fw'.inJob) <= 1
      /\ fw'.inJob # <<>> => fw'.inJob = <<fw.mem[fw.addr]>>
      /\ fw'.mem = fw.mem /\ fw'.addr = fw.addr /\ fw'.usage = fw.usage
      /\ fw'.callback = fw.callback /\ fw'.wValue = fw.wValue /\ fw'.ctrlbuffer = fw.ctrlbuffer
  BY <1>1, MemoryFacts, PacketTakenEffect
<1>3. call.op.op = "readBulk" /\ Len(call.todo) \in {1, 2} /\ Len(Transfers(call.op)) = 3
  BY <1>1, MemoryFacts, Standing
<1>4. Started /\ call.op \in Operation
  <2>1. \A n : n \in {1, 2} => n < 3
    OBVIOUS
  <2> QED BY <1>1, <1>3, <2>1, MemoryFacts, Requested DEF Started
<1>5. Live' = Live /\ (Untold' <=> Untold)
  <2>1. (Live' <=> Live) /\ (Untold' <=> Untold)
    BY <1>1, <1>2 DEF Live, Replays, Untold
  <2> QED BY <2>1, MemoryFacts, PredictedNext DEF Base
<1>6. Predicted' = Predicted /\ Uncalled' = Uncalled
  <2>1. Predicted' = MemoryAfter(fw', Live, arrived, ahead)
    BY <1>1, <1>5, PredictedNext DEF Base
  <2>2. MemoryAfter(fw', Live, arrived, ahead) = MemoryAfter(fw, Live, arrived, ahead)
    BY <1>2, MemoryFacts, SameMemory
  <2>3. Landed(fw', arrived, fw'.mem) = Landed(fw, arrived, fw.mem)
    BY <1>2 DEF Landed
  <2>4. Uncalled' = Uncalled
    BY <1>1, <1>2, <2>3, MemoryFacts, UncalledIs, UncalledNext DEF Base
  <2> QED BY <2>1, <2>2, <2>4, MemoryFacts, PredictedIs
<1>7. \A a \in Addr : Written(call.op, a) = {}
  BY <1>3 DEF Written
<1>8. ~call.leftover /\ fw'.inJob # <<>> /\ call.op.addr \notin doubtful' =>
        Head(fw'.inJob) \in expect[call.op.addr]
  <2> HAVE ~call.leftover /\ fw'.inJob # <<>> /\ call.op.addr \notin doubtful'
  <2>1. ~armed /\ Quiet /\ fw.addr = call.op.addr
    BY <1>1, <1>3, <1>4, MemoryFacts DEF PlaceInv
  <2>2. Predicted = fw.mem
    BY <2>1, MemoryFacts, PredictedIs DEF Quiet
  <2>3. Head(fw'.inJob) = fw.mem[call.op.addr]
    BY <1>2, <2>1
  <2>4. call.op.addr \in Addr \ doubtful
    BY <1>1, <1>4 DEF Operation
  <2> QED BY <2>2, <2>3, <2>4, MemoryFacts
<1>9. /\ \A a \in Addr \ doubtful' : Predicted'[a] \in expect[a]
      /\ Untold' => \A a \in Addr \ doubtful' : Uncalled'[a] \in expect[a]
      /\ told' => armed' /\ loaded'
  BY <1>1, <1>5, <1>6, MemoryFacts
<1>10. call.op.op # "program"
  BY <1>3
<1> QED BY <1>1, <1>7, <1>8, <1>9, <1>10, AdvanceKeepsMemory

\* A callback that falls had been told to the host, and its register becomes doubtful,
\* or it had not, and the registers are as expected without it.
LEMMA ResetInterruptMemory == ASSUME IInv, Base', ResetInterrupt PROVE MemInv'
<1>1. /\ arrived = NONE /\ arrived' = NONE /\ armed' = FALSE /\ fw' = udc_reset(fw) /\ reset
      /\ call' = call /\ expect' = expect /\ told' = FALSE
      /\ doubtful' = doubtful \cup LostWrite
  BY DEF ResetInterrupt, Pipe!Drop, Quiet, host
<1>2. call'.todo = <<>>
  BY <1>1, MemoryFacts DEF CallInv
<1>3. ~Started' /\ ~Untold'
  BY <1>1, <1>2, NotStarted DEF Untold
<1>4. Predicted' = fw.mem
  <2>1. fw'.mem = fw.mem
    BY <1>1, MemoryFacts, ResetEffect
  <2> QED BY <1>1, <2>1, PredictedNext DEF Base
<1>5. Uncalled = fw.mem /\ Predicted = Effect(fw, Live, fw.mem)
  BY <1>1, MemoryFacts, UncalledIs
<1>6. ASSUME NEW a \in Addr \ doubtful' PROVE fw.mem[a] \in expect[a]
  <2>0. a \in Addr \ doubtful
    BY <1>1
  <2>1. CASE Untold
    BY <1>5, <2>0, <2>1, MemoryFacts
  <2>2. CASE ~Untold
    <3>1. Predicted[a] = fw.mem[a]
      <4>1. CASE Live /\ fw.callback = "MEMWRITE_CTRL"
        <5>1. a # fw.ctrlbuffer.addr
          BY <1>1, <2>2, <4>1 DEF Untold, Live, LostWrite
        <5> QED BY <1>5, <4>1, <5>1, MemoryFacts DEF Effect
      <4>2. CASE ~(Live /\ fw.callback = "MEMWRITE_CTRL")
        BY <1>5, <2>2, <4>2 DEF Effect, Untold, Live
      <4> QED BY <4>1, <4>2
    <3> QED BY <2>0, <3>1, MemoryFacts
  <2> QED BY <2>1, <2>2
<1> QED BY <1>1, <1>2, <1>3, <1>4, <1>6 DEF MemInv

LEMMA MemoryStep == ASSUME IInv, Base', [Next]_vars PROVE MemInv'
<1>1. CASE Begin
  <2>1. PICK o \in ops :
          /\ call' = [op |-> o, todo |-> Transfers(o), stage |-> "idle", leftover |-> FALSE]
          /\ expect' = [a \in Addr |-> expect[a] \cup Written(o, a)]
    BY <1>1 DEF Begin
  <2>2. UNCHANGED <<armed, loaded, fw, arrived, ahead, told, doubtful>>
    BY <1>1 DEF Begin, pipe
  <2>3. Len(Transfers(o)) \in Nat
    BY <2>1, TypesOf, TransfersOf, MemoryFacts
  <2>4. ~Started'
    BY <2>1, <2>3 DEF Started
  <2>5. \A a \in Addr : expect[a] \subseteq expect'[a] /\ Written(call'.op, a) \subseteq expect'[a]
    BY <2>1
  <2> QED BY <2>2, <2>4, <2>5, NothingStarted
<1>2. CASE TimesOut \/ BusReset
  <2>1. call' = NoCall /\ UNCHANGED <<armed, loaded, fw, arrived, ahead, expect, told, doubtful>>
    BY <1>2 DEF TimesOut, BusReset, Pipe!BusReset, history, pipe
  <2>2. ~Started' /\ call'.todo = <<>>
    BY <2>1, NoCallType, NotStarted
  <2> QED BY <2>1, <2>2, NothingStarted
<1>3. CASE ButtonStep \/ UNCHANGED vars
  <2>1. UNCHANGED <<armed, loaded, fw, arrived, ahead, call, expect, told, doubtful>>
    BY <1>3 DEF ButtonStep, vars, pipe, host, history
  <2>2. (Started' <=> Started) /\ (Untold' <=> Untold)
    BY <2>1 DEF Started, Untold
  <2>3. Predicted' = Predicted /\ Uncalled' = Uncalled
    BY <2>1, MemoryFacts, Unmoved
  <2> QED BY <2>1, <2>2, <2>3, MemoryFacts DEF MemInv
<1> QED BY <1>1, <1>2, <1>3, SetupOutMemory, DataStageMemory, StatusStageMemory,
           CallbackMemory, SetupInMemory, BulkOutMemory, BulkInterruptMemory,
           BulkInMemory, ResetInterruptMemory DEF Next

---------------------------------------------------------------------------
(* The theorems.                                                           *)

LEMMA InitIInv == FirmwareInit => IInv
<1> SUFFICES ASSUME FirmwareInit PROVE IInv
  OBVIOUS
<1>1. Base /\ SupplyInv
  BY InitBase
<1>2. /\ arrived = NONE /\ ahead = FALSE /\ call.todo = <<>> /\ ~armed
      /\ expect = [a \in Addr |-> {Zero}] /\ ~told
  BY NoCallType DEF FirmwareInit, Pipe!Init
<1>3. ~Started /\ ~Untold
  BY <1>2 DEF Started, Untold
<1>4. ArrivedInv /\ PlaceInv
  BY <1>2 DEF ArrivedInv, PlaceInv, Quiet
<1>5. Predicted = [a \in Addr |-> Zero]
  <2>1. fw.mem = [a \in Addr |-> Zero]
    BY DEF FirmwareInit, InitialFirmware
  <2> QED BY <1>1, <1>2, <2>1, PredictedIs DEF Base
<1>6. MemInv
  BY <1>2, <1>3, <1>5 DEF MemInv
<1> QED BY <1>1, <1>4, <1>6 DEF IInv, Base

LEMMA NextIInv == IInv /\ [Next]_vars => IInv'
<1> SUFFICES ASSUME IInv, [Next]_vars PROVE IInv'
  OBVIOUS
<1>1. Base' /\ SupplyInv'
  BY BaseStep
<1>2. ArrivedInv' /\ PlaceInv' /\ MemInv'
  BY <1>1, ArrivedStep, PlaceStep, MemoryStep
<1> QED BY <1>1, <1>2 DEF IInv, Base

THEOREM Inductive == Spec => []IInv
<1>1. IInv /\ UNCHANGED vars => IInv'
  BY NextIInv
<1> QED BY <1>1, InitIInv, NextIInv, PTL DEF Spec

\* The lock on the FPGA is held only for a memory request whose callback is still to
\* come and will release it, unless a bus reset took that callback away
\* (usb_xmem.c FPGA_setlock(), usb.c:309, ctrl_readmem_bulk() and its siblings).
THEOREM LockIsReleased == Spec => []LockHeldMeansPending
<1>1. IInv => LockHeldMeansPending
  BY DEF IInv, Types, LockInv, LockHeldMeansPending
<1> QED BY <1>1, Inductive, PTL

\* The button and the host's request together never connect both supplies, and the
\* button turns the supply off or on to what the host asked for last (main.c:182,
\* usb.c ctrl_change_pwr()), unless one comes while the other is being handled.
THEOREM SupplySwitched == Spec => SupplyAsAsked
<1>1. IInv /\ [Next]_vars =>
        [~raced' =>
           /\ before' # Supplies => pins' # Supplies
           /\ main = "write" /\ main' = "sleep" =>
                pins' = IF before = {} THEN Supply(USB_PWR_STATE) ELSE {}]_powerVars
  BY BaseStep DEF Asked
<1> QED BY <1>1, Inductive, PTL DEF Spec, SupplyAsAsked

\* What a step of MemoryAsAsked says.
Remembered ==
  /\ ~armed' /\ arrived' = NONE => \A a \in Addr \ doubtful' : fw'.mem[a] \in expect'[a]
  /\ BulkIn /\ ~call.leftover /\ call.op.addr \notin doubtful =>
       Head(fw.inJob) \in expect[call.op.addr]
  /\ SetupIn /\ Reads(call.op) =>
       /\ Settled.loading /\ Settled.addr = call.op.addr
       /\ call.op.addr \notin doubtful' => Settled.mem[Settled.addr] \in expect[call.op.addr]

\* A control read finds the callback of its request called and no bulk data on the way.
LEMMA ControlReadIsCurrent ==
  ASSUME IInv, SetupIn, Reads(call.op)
  PROVE  /\ Settled.loading /\ Settled.addr = call.op.addr
         /\ call.op.addr \notin doubtful' => Settled.mem[Settled.addr] \in expect[call.op.addr]
<1>1. /\ call.todo # <<>> /\ Now("in") /\ Turn /\ CallbackEffects
  BY DEF SetupIn, Now
<1>2. call.op \in Operation
  BY <1>1, MemoryFacts, Requested
<1>3. call.op.op = "readCtrl" /\ Len(call.todo) = 1
  <2> DEFINE o == call.op.op
  <2>1. (o = "readCtrl" /\ Len(call.todo) = 1) \/ o = "program"
    BY <1>1, Standing, MemoryFacts
  <2> QED BY <2>1 DEF Reads
<1>4. Quiet
  <2>1. ASSUME ~Quiet PROVE FALSE
    <3>1. ~ahead
      BY <1>1, <2>1 DEF Turn
    <3> QED BY <1>1, <1>3, <2>1, <3>1, AwaitingInterrupt
  <2> QED BY <2>1
<1>5. /\ armed => fw.callback = "MEMREAD_CTRL" /\ fw.ctrlbuffer.addr = call.op.addr
      /\ ~armed => fw.loading /\ fw.addr = call.op.addr
  BY <1>1, <1>3, MemoryFacts DEF PlaceInv
<1>6. Settled.loading /\ Settled.addr = call.op.addr
  <2>1. CASE armed
    <3>1. /\ Called(fw).loading <=> fw.callback = "MEMREAD_CTRL" \/ fw.loading
          /\ Called(fw).addr = IF fw.callback \in MemoryRequests
                               THEN fw.ctrlbuffer.addr ELSE fw.addr
      BY MemoryFacts, CalledEffect
    <3> QED BY <1>5, <2>1, <3>1 DEF Settled, MemoryRequests
  <2>2. CASE ~armed
    BY <1>5, <2>2 DEF Settled
  <2> QED BY <2>1, <2>2
<1>7. call.op.addr \notin doubtful' => Settled.mem[call.op.addr] \in expect[call.op.addr]
  <2> HAVE call.op.addr \notin doubtful'
  <2>1. call.op.addr \in Addr \ doubtful' /\ call.op.addr \in Addr \ doubtful
    BY <1>1, <1>2, CallbackMarks DEF Operation
  <2>2. Settled.mem[call.op.addr] = Predicted[call.op.addr]
    BY <1>1, <1>4, <2>1, SettledMemory
  <2> QED BY <2>1, <2>2, MemoryFacts
<1> QED BY <1>6, <1>7

LEMMA RememberedStep == ASSUME IInv, [Next]_vars PROVE Remembered
<1>1. IInv'
  BY NextIInv
<1>2. Types' /\ CallInv' /\ MemInv'
  BY <1>1 DEF IInv
<1>3. ~armed' /\ arrived' = NONE => \A a \in Addr \ doubtful' : fw'.mem[a] \in expect'[a]
  <2> HAVE ~armed' /\ arrived' = NONE
  <2>1. Predicted' = fw'.mem
    BY <1>2, PredictedNext
  <2> QED BY <1>2, <2>1 DEF MemInv
<1>4. BulkIn /\ ~call.leftover /\ call.op.addr \notin doubtful =>
        Head(fw.inJob) \in expect[call.op.addr]
  <2> HAVE BulkIn /\ ~call.leftover /\ call.op.addr \notin doubtful
  <2>1. call.todo # <<>> /\ Now("bulkIn") /\ fw.inJob # <<>>
    BY DEF BulkIn, Now, BusyIn
  <2>2. call.op.op = "readBulk" /\ Len(call.todo) \in {1, 2} /\ Len(Transfers(call.op)) = 3
    BY <2>1, MemoryFacts, Standing
  <2>3. \A n : n \in {1, 2} => n < 3
    OBVIOUS
  <2>4. Started
    BY <2>1, <2>2, <2>3 DEF Started
  <2> QED BY <2>1, <2>2, <2>4, MemoryFacts
<1>5. SetupIn /\ Reads(call.op) =>
        /\ Settled.loading /\ Settled.addr = call.op.addr
        /\ call.op.addr \notin doubtful' => Settled.mem[Settled.addr] \in expect[call.op.addr]
  BY ControlReadIsCurrent
<1> QED BY <1>3, <1>4, <1>5 DEF Remembered

\* A register holds what was last written to it, and a read returns that, through every
\* timeout and bus reset.  Nothing is said of a register, until the host's next completed
\* write of it, to which the callback of a given-up control write was replayed, which bulk
\* data that came before the callback of their request may have reached, or of which a
\* bus reset took back a control write the host had been told is done; nor of a bulk read
\* that finds the job of a given-up one under way (usb.c ctrl_writemem_bulk(),
\* main_vendor_bulk_out_received(), ctrl_progfpga_bulk()).
THEOREM MemoryKept == Spec => MemoryAsAsked
<1>1. IInv /\ [Next]_vars =>
        [/\ ~armed' /\ arrived' = NONE => \A a \in Addr \ doubtful' : fw'.mem[a] \in expect'[a]
         /\ BulkIn /\ ~call.leftover /\ call.op.addr \notin doubtful =>
              Head(fw.inJob) \in expect[call.op.addr]
         /\ SetupIn /\ Reads(call.op) =>
              /\ Settled.loading /\ Settled.addr = call.op.addr
              /\ call.op.addr \notin doubtful' =>
                   Settled.mem[Settled.addr] \in expect[call.op.addr]]_vars
  BY RememberedStep DEF Remembered
<1> QED BY <1>1, Inductive, PTL DEF Spec, MemoryAsAsked
=============================================================================
