---------------------------- MODULE UsbEndpoints ----------------------------
(***************************************************************************)
(* The two bulk endpoints of the firmware, from the requests that create   *)
(* and disturb them down to the DMA:                                       *)
(*   udphs_device.c   udd_ep_alloc .. udd_ep_abort, udd_ep_trans_done,     *)
(*                    udd_ep_interrupt, the bus reset                      *)
(*   udc.c            SET_CONFIGURATION, SET_INTERFACE, ENDPOINT_HALT      *)
(*   usb.c            main_vendor_enable and the callbacks of the jobs     *)
(* An ISR is one action, its callbacks included; the DMA channels and the  *)
(* bus move between the actions.  Data is counted in units of which EpSize *)
(* fill a packet.                                                          *)
(***************************************************************************)
EXTENDS Integers, Sequences

CONSTANTS
  EpSize,         \* the packet: 512 bytes at high speed, 64 at full speed
  NBanks,         \* UDD_BULK_NB_BANK
  LOOPBACK_SIZE,  \* MAIN_LOOPBACK_SIZE, the buffer of a job on the OUT endpoint
  MAX_TRANS,      \* UDD_ENDPOINT_MAX_TRANS, what one DMA transfer can move
  ReadSizes       \* the lengths asked for with REQ_MEMREAD_BULK; the host library
                  \* asks for less than 48 bytes in another way (naeusb.py:444)

ASSUME UsbEndpointsAssumption ==
  /\ EpSize \in Nat \ {0} /\ NBanks \in Nat \ {0}
  /\ LOOPBACK_SIZE \in Nat \ {0} /\ LOOPBACK_SIZE % EpSize = 0
  /\ MAX_TRANS \in Nat \ {0} /\ MAX_TRANS % EpSize = 0 /\ LOOPBACK_SIZE <= MAX_TRANS
  /\ ReadSizes \subseteq Nat \ {0}

VARIABLES
  udc_num_configuration,   \* TRUE: the configuration with the two endpoints
  reset,                   \* a bus reset the ISR has not handled yet
  inp, out,                \* the endpoints: hardware, DMA channel, job
  unread,                  \* history: units of the started reads the host has not taken
  unreported,              \* history: units accepted on OUT and not reported yet
  owed                     \* history: those of them that end with a short packet

vars == <<udc_num_configuration, reset, inp, out, unread, unreported, owed>>

Minimum(a, b) == IF a < b THEN a ELSE b
Maximum(a, b) == IF a < b THEN b ELSE a

\* The units a row of banks holds.
Held(banks) ==
  LET upTo[i \in 0 .. Len(banks)] == IF i = 0 THEN 0 ELSE upTo[i - 1] + banks[i]
  IN  upTo[Len(banks)]

Unused ==
  [ enabled |-> FALSE, stall |-> FALSE, banks |-> <<>>,         \* EPT_ENABL, FRCESTALL
    dma |-> FALSE, left |-> 0, dmaDone |-> FALSE,               \* CHANN_ENB, BUFF_COUNT, END_*_ST
    dmaIE |-> FALSE,
    busy |-> FALSE, size |-> 0, cnt |-> 0 ]                     \* udd_ep_job_t

Init ==
  /\ udc_num_configuration = FALSE /\ reset = FALSE
  /\ inp = Unused /\ out = Unused
  /\ unread = 0 /\ unreported = 0 /\ owed = 0

---------------------------------------------------------------------------
(* Jobs.  A definition whose name says what is wrong with it is a slip of  *)
(* the one that follows it.                                                *)

\* A status left over from an aborted transfer is read, and gone.
StartDma(e) ==
  LET next_trans == Minimum(e.size - e.cnt, MAX_TRANS)
  IN [e EXCEPT !.dma = TRUE, !.left = next_trans, !.dmaDone = FALSE, !.dmaIE = TRUE,
               !.cnt = @ + next_trans]

Refused(e) == ~e.enabled \/ e.stall \/ e.busy
NewJob(e, n) == [e EXCEPT !.busy = TRUE, !.size = n, !.cnt = 0]

\* udi_vendor_bulk_in_run(): its callback only releases a lock.
RunIn(e, n) == IF Refused(e) THEN e ELSE StartDma(NewJob(e, n))

\* udi_vendor_bulk_out_run()
RunOut(e) == IF Refused(e) THEN e ELSE StartDma(NewJob(e, LOOPBACK_SIZE))

FinishIn(e) == [e EXCEPT !.busy = FALSE]

\* main_vendor_bulk_out_received() runs the next job, aborted or not.
FinishOutOnce(e) == [e EXCEPT !.busy = FALSE]
FinishOut(e) == IF e.busy THEN RunOut([e EXCEPT !.busy = FALSE]) ELSE e

\* With the endpoint disabled first, the callback cannot run a job again.
Disabled(e, keepStall) ==
  [e EXCEPT !.enabled = FALSE, !.stall = @ /\ keepStall, !.banks = <<>>, !.dma = FALSE]
FreeOutAbortFirst(e) == Disabled(FinishOut(e), FALSE)
FreeOut(e) == FinishOut(Disabled(e, FALSE))
FreeIn(e, keepStall) == FinishIn(Disabled(e, keepStall))

Alloc(e) == [e EXCEPT !.enabled = TRUE]

---------------------------------------------------------------------------
(* The control endpoint's interrupt: the requests that reach the bulk      *)
(* endpoints.  The host asks nothing of an endpoint it has not configured. *)

\* The data under way is given up by whoever asked for this.
Forget == unread' = 0 /\ unreported' = 0 /\ owed' = 0

SetConfiguration ==
  /\ ~reset
  /\ \E on, keepStall \in BOOLEAN :
       LET i == IF udc_num_configuration THEN FreeIn(inp, keepStall) ELSE inp
           o == IF udc_num_configuration THEN FreeOut(out) ELSE out
       IN /\ udc_num_configuration' = on
          /\ inp' = IF on THEN Alloc(i) ELSE i
          /\ out' = IF on THEN RunOut(Alloc(o)) ELSE o
  /\ Forget
  /\ UNCHANGED reset

SetInterface ==
  /\ ~reset /\ udc_num_configuration
  /\ \E keepStall \in BOOLEAN : inp' = Alloc(FreeIn(inp, keepStall))
  /\ out' = RunOut(Alloc(FreeOut(out)))
  /\ Forget
  /\ UNCHANGED <<udc_num_configuration, reset>>

\* The job is aborted and the banks are killed; then the endpoint stalls.
SetHaltIn ==
  /\ ~reset /\ udc_num_configuration
  /\ inp' = [FinishIn(inp) EXCEPT !.dma = FALSE, !.banks = <<>>, !.stall = TRUE]
  /\ unread' = 0
  /\ UNCHANGED <<udc_num_configuration, reset, out, unreported, owed>>

\* The aborted job runs again, and an endpoint with a job is not halted.
SetHaltOut ==
  /\ ~reset /\ udc_num_configuration
  /\ out' = FinishOut([out EXCEPT !.dma = FALSE])
  /\ unreported' = Held(out.banks)
  /\ owed' = 0
  /\ UNCHANGED <<udc_num_configuration, reset, inp, unread>>

ClearHaltIn ==
  /\ ~reset /\ udc_num_configuration
  /\ inp' = [inp EXCEPT !.stall = FALSE]
  /\ UNCHANGED <<udc_num_configuration, reset, out, unread, unreported, owed>>

\* ctrl_readmem_bulk() does not look at the result of udi_vendor_bulk_in_run().
ReadMem ==
  /\ ~reset /\ udc_num_configuration
  /\ \E n \in ReadSizes :
       /\ inp' = RunIn(inp, n)
       /\ unread' = IF Refused(inp) THEN unread ELSE unread + n
  /\ UNCHANGED <<udc_num_configuration, reset, out, unreported, owed>>

---------------------------------------------------------------------------
(* The interrupts of the bulk endpoints and of the bus reset.              *)

DmaEvent(e) == e.dmaIE /\ e.dmaDone
FreeBank(e) == Len(e.banks) < NBanks

TransDoneIn(e) ==
  IF ~e.busy THEN e
  ELSE IF e.cnt # e.size THEN StartDma(e)
  ELSE FinishIn(e)

EpInterruptIn ==
  /\ DmaEvent(inp)
  /\ inp' = TransDoneIn([inp EXCEPT !.dmaIE = FALSE, !.dmaDone = FALSE])
  /\ UNCHANGED <<udc_num_configuration, reset, out, unread, unreported, owed>>

\* nb_remaining: a short packet ends the transfer.
NotTransferredIgnored(e) == e
NotTransferred(e) == IF e.left = 0 THEN e ELSE [e EXCEPT !.cnt = @ - e.left, !.size = e.cnt - e.left]

EpInterruptOut ==
  /\ ~DmaEvent(inp) /\ DmaEvent(out)
  /\ LET e == NotTransferred([out EXCEPT !.dmaIE = FALSE, !.dmaDone = FALSE])
     IN /\ out' = FinishOut(e)
        /\ unreported' = IF e.busy THEN unreported - e.size ELSE unreported
        /\ owed' = IF e.busy THEN Maximum(owed - e.size, 0) ELSE owed
  /\ UNCHANGED <<udc_num_configuration, reset, inp, unread>>

ResetInterrupt ==
  /\ reset
  /\ ~DmaEvent(inp) /\ ~DmaEvent(out)
  /\ reset' = FALSE
  /\ udc_num_configuration' = FALSE
  /\ \E keepStall \in BOOLEAN :
       inp' = IF udc_num_configuration THEN FreeIn(FinishIn(inp), keepStall) ELSE FinishIn(inp)
  /\ out' = IF udc_num_configuration THEN FreeOut(FinishOut(out)) ELSE FinishOut(out)
  /\ Forget

---------------------------------------------------------------------------
(* The hardware and the host.                                              *)

DmaIn ==
  /\ inp.dma /\ FreeBank(inp)
  /\ LET n == Minimum(inp.left, EpSize)
     IN inp' = [inp EXCEPT !.banks = Append(@, n), !.left = @ - n,
                           !.dma = (inp.left # n), !.dmaDone = (inp.left = n)]
  /\ UNCHANGED <<udc_num_configuration, reset, out, unread, unreported, owed>>

DmaOut ==
  /\ out.dma /\ out.banks # <<>>
  /\ LET n == Head(out.banks)
         ends == out.left = n \/ n < EpSize
     IN out' = [out EXCEPT !.banks = Tail(@), !.left = @ - n, !.dma = ~ends, !.dmaDone = ends]
  /\ UNCHANGED <<udc_num_configuration, reset, inp, unread, unreported, owed>>

Answers(e) == ~reset /\ e.enabled /\ ~e.stall

HostIn ==
  /\ Answers(inp) /\ inp.banks # <<>>
  /\ inp' = [inp EXCEPT !.banks = Tail(@)]
  /\ unread' = unread - Head(inp.banks)
  /\ UNCHANGED <<udc_num_configuration, reset, out, unreported, owed>>

HostOut ==
  /\ Answers(out) /\ FreeBank(out)
  /\ \E n \in 1..EpSize :
       /\ out' = [out EXCEPT !.banks = Append(@, n)]
       /\ unreported' = unreported + n
       /\ owed' = IF n < EpSize /\ owed = 0 THEN unreported + n ELSE owed
  /\ UNCHANGED <<udc_num_configuration, reset, inp, unread>>

\* Whether the reset disables the endpoints is left open.
BusReset ==
  /\ ~reset
  /\ reset' = TRUE
  /\ \/ inp' = Disabled(inp, FALSE) /\ out' = Disabled(out, FALSE) /\ Forget
     \/ UNCHANGED <<inp, out, unread, unreported, owed>>
  /\ UNCHANGED udc_num_configuration

Next ==
  \/ SetConfiguration \/ SetInterface
  \/ SetHaltIn \/ SetHaltOut \/ ClearHaltIn \/ ReadMem
  \/ EpInterruptIn \/ EpInterruptOut \/ ResetInterrupt
  \/ DmaIn \/ DmaOut \/ HostIn \/ HostOut \/ BusReset

(* Interrupts are served (the one polled first cannot take them all: it is *)
(* served in less time than a packet takes), the DMA moves, and the host   *)
(* reads what it asked for.  Nothing obliges it to ask, write or reset.    *)
Fairness ==
  /\ WF_vars(EpInterruptIn) /\ SF_vars(EpInterruptOut) /\ SF_vars(ResetInterrupt)
  /\ WF_vars(DmaIn) /\ WF_vars(DmaOut) /\ WF_vars(HostIn)

Spec == Init /\ [][Next]_vars /\ Fairness

---------------------------------------------------------------------------
Endpoint ==
  [ enabled: BOOLEAN, stall: BOOLEAN, banks: Seq(0..EpSize),
    dma: BOOLEAN, left: Nat, dmaDone: BOOLEAN, dmaIE: BOOLEAN,
    busy: BOOLEAN, size: Nat, cnt: Nat ]

TypeOK ==
  /\ udc_num_configuration \in BOOLEAN /\ reset \in BOOLEAN
  /\ inp \in Endpoint /\ Len(inp.banks) <= NBanks
  /\ out \in Endpoint /\ Len(out.banks) <= NBanks
  /\ unread \in Nat /\ unreported \in Nat /\ owed \in Nat

(* Outside a bus reset a job belongs to an endpoint that is enabled and    *)
(* has something that will finish it: the DMA at work, or its interrupt.   *)
Alive(e) == e.enabled /\ (e.dma \/ DmaEvent(e))
NoOrphanJob == /\ inp.busy => Alive(inp)
               /\ out.busy => Alive(out)

(* A configured device always listens on its OUT endpoint, through aborts, *)
(* attempts to halt it, new configurations and resets (usb.c:466-480); an  *)
(* unconfigured one has no endpoint enabled.                               *)
OutEndpointServed ==
  ~reset => /\ TypeOK /\ NoOrphanJob
            /\ IF udc_num_configuration THEN out.busy ELSE ~out.enabled /\ ~inp.enabled

(* What the bulk callback is told (nb_transfered) is what arrived, and a   *)
(* read sends what was asked for: between the two ends every unit is in a  *)
(* bank or in the job, none twice and none lost.                           *)
NothingLost ==
  ~reset =>
    /\ unreported = (IF out.busy THEN out.cnt - out.left ELSE 0) + Held(out.banks)
    /\ unread = (IF inp.busy THEN inp.size - inp.cnt ELSE 0)
                + (IF inp.dma THEN inp.left ELSE 0) + Held(inp.banks)

(* A write that ends with a short packet is reported, and a read that was  *)
(* started is done once the host has taken its data, or either is aborted. *)
TransfersEnd == /\ (owed > 0) ~> (owed = 0)
                /\ inp.busy ~> ~inp.busy
===========================================================================
