----------------------------- MODULE UsbControl -----------------------------
(***************************************************************************)
(* The control endpoint of the firmware: hal/sam3u1c/udphs_device.c, the   *)
(* routines udd_ctrl_*, as the interrupt runs them, with the host on the   *)
(* other side.                                                             *)
(*   Host...     the host controller: a SETUP, then tokens of the data and *)
(*               status stages; it may give up, cut a stage short, miss an *)
(*               acknowledgement or reset the bus                          *)
(*   Interrupt   the ISR reads the endpoint's status and picks an event    *)
(*   Handle      the routine of that event; tokens may come in between     *)
(* Data is counted, in units of which EpSize fill a packet.                *)
(***************************************************************************)
EXTENDS Integers

CONSTANTS
  EpSize,     \* USB_DEVICE_EP_CTRL_SIZE, 64 bytes
  Requests    \* what the host asks and what the firmware makes of it

Minimum(a, b) == IF a < b THEN a ELSE b

(* A request: its direction, wLength, the payload_size the firmware gives  *)
(* it, whether it is accepted, and whether a callback is registered.  The  *)
(* buffer of an OUT request holds a packet (usb.c:302, ctrlbuffer).        *)
ASSUME UsbControlAssumption ==
  /\ EpSize \in Nat \ {0}
  /\ Requests # {}
  /\ Requests \subseteq [isIn: BOOLEAN, wLength: Nat, size: Nat, ok: BOOLEAN, calls: BOOLEAN]
  /\ \A r \in Requests : /\ r.size <= r.wLength
                         /\ r.calls => r.ok /\ ~r.isIn
                         /\ r.isIn /\ r.ok => r.wLength > 0
                         /\ ~r.isIn /\ r.ok => r.size = Minimum(r.wLength, EpSize)

VARIABLES
  ep,         \* endpoint 0: the hardware's flags and the driver's variables
  isr,        \* the event the ISR found, "none" outside the ISR
  host,       \* the host: its request, the stage it is in, what was moved
  owed        \* history: how the host's request with a callback, not called
              \* yet, came to its end, and the units the device acknowledged

vars == <<ep, isr, host, owed>>

NONE == "none"
Outcomes == {"done", "stalled", "abandoned", "reset"}
Nothing == [outcome |-> NONE, units |-> 0]

EMPTY == -1                  \* the bank holds no packet
Bank == 0..EpSize \cup {EMPTY}

States == {"SETUP", "DATA_OUT", "DATA_IN", "WAIT_IN_ZLP", "WAIT_OUT_ZLP", "STALL_REQ"}
Events == {"setup", "in", "out", "nakOut", "nakIn", "reset"}

Init ==
  /\ ep = [ setup |-> FALSE, out |-> EMPTY,                      \* RX_SETUP, RX_BK_RDY
            tx |-> EMPTY, sent |-> FALSE,                        \* TX_PK_RDY, TX_COMPLT
            nakIn |-> FALSE, nakOut |-> FALSE, stall |-> FALSE,  \* NAK_IN, NAK_OUT, FRCESTALL
            sentIE |-> FALSE, nakInIE |-> FALSE, nakOutIE |-> FALSE,
            reset |-> FALSE,
            state |-> "SETUP", callback |-> FALSE,
            isIn |-> FALSE, wLength |-> 0, size |-> 0,
            cnt |-> 0, prev |-> 0, short |-> FALSE,
            runs |-> 0 ]                                         \* history: calls, parity
  /\ isr = NONE
  /\ \E r \in Requests :
       host = [req |-> r, stage |-> "idle", moved |-> 0, dup |-> FALSE,
               cut |-> FALSE, outcome |-> NONE]
  /\ owed = Nothing

---------------------------------------------------------------------------
(* The driver's routines: each takes the endpoint as it is to the endpoint *)
(* as it leaves it.  A definition whose name says what is wrong with it is *)
(* a slip of the one that follows it.                                      *)

InitKeepsCallback(s) ==
  [s EXCEPT !.sentIE = FALSE, !.out = EMPTY, !.size = 0, !.state = "SETUP"]
ctrl_init(s) == [s EXCEPT !.sentIE = FALSE, !.out = EMPTY, !.callback = FALSE, !.size = 0,
                          !.state = "SETUP"]

\* The callback stays registered until udd_ctrl_init().
ctrl_endofrequest(s) == IF s.callback THEN [s EXCEPT !.runs = 1 - @] ELSE s

StallNotRaised(s) == [s EXCEPT !.state = "STALL_REQ"]
ctrl_stall_data(s) == [s EXCEPT !.state = "STALL_REQ", !.stall = TRUE]

SendZlpInAndCall(s) ==
  [ctrl_endofrequest(s) EXCEPT !.callback = FALSE,
            !.state = "WAIT_IN_ZLP", !.sent = FALSE, !.tx = 0,
            !.sentIE = TRUE, !.nakOut = FALSE, !.nakOutIE = TRUE]
ctrl_send_zlp_in(s) ==
  [s EXCEPT !.state = "WAIT_IN_ZLP", !.sent = FALSE, !.tx = 0,
            !.sentIE = TRUE, !.nakOut = FALSE, !.nakOutIE = TRUE]

ctrl_send_zlp_out(s) ==
  [s EXCEPT !.state = "WAIT_OUT_ZLP", !.nakIn = FALSE, !.nakInIE = TRUE]

\* A packet, unless an OUT ZLP has ended the data stage meanwhile.
SendPacket(s) ==
  LET n == Minimum(s.size - s.cnt, EpSize)
      t == [s EXCEPT !.short = n < EpSize]
  IN IF s.out # EMPTY THEN [t EXCEPT !.state = "WAIT_OUT_ZLP"]
     ELSE [t EXCEPT !.cnt = @ + n, !.sent = FALSE, !.tx = n, !.sentIE = TRUE]

AllSentWithoutZlp(s) == s.wLength = s.prev \/ s.size = s.cnt
AllSent(s) == s.wLength = s.prev \/ s.short

ctrl_in_sent(s0) ==
  LET s == [s0 EXCEPT !.sentIE = FALSE]
      t == [s EXCEPT !.prev = @ + s.cnt]
  IN IF s.state = "WAIT_IN_ZLP" THEN ctrl_init(ctrl_endofrequest(s))
     ELSE IF s.size # s.cnt THEN SendPacket(s)
     ELSE IF AllSent(t) THEN ctrl_send_zlp_out(t) ELSE SendPacket(t)

\* Outside the data stage an OUT packet ends the request, or is an error.
OutEndsRequest(s) ==
  ctrl_init(IF s.state \in {"DATA_IN", "WAIT_OUT_ZLP"} THEN ctrl_endofrequest(s)
                                                       ELSE ctrl_stall_data(s))

ctrl_out_received(s) ==
  LET n == Minimum(s.out, s.size - s.cnt)
      t == [s EXCEPT !.cnt = @ + n, !.out = EMPTY]
  IN IF s.state # "DATA_OUT" THEN OutEndsRequest(s)
     ELSE IF n # EpSize \/ s.wLength <= s.prev + t.cnt
          THEN ctrl_send_zlp_in([t EXCEPT !.size = t.cnt])
     ELSE IF t.size = t.cnt THEN ctrl_stall_data(t)       \* over_under_run is never set
     ELSE [t EXCEPT !.nakIn = FALSE, !.nakInIE = TRUE]

ctrl_underflow(s) ==
  IF s.out # EMPTY THEN s
  ELSE CASE s.state = "DATA_OUT" -> ctrl_send_zlp_in(s)
         [] s.state = "WAIT_OUT_ZLP" -> [s EXCEPT !.stall = TRUE]
         [] OTHER -> s

ctrl_overflow(s) ==
  IF ~s.sent /\ s.state = "WAIT_IN_ZLP" THEN [s EXCEPT !.stall = TRUE] ELSE s

udc_process_setup(s, r) ==
  [s EXCEPT !.isIn = r.isIn, !.wLength = r.wLength, !.size = r.size, !.callback = r.calls]

LastRequestForgotten(s) == IF s.state # "SETUP" THEN ctrl_init(s) ELSE s
EndLastRequest(s) == IF s.state # "SETUP" THEN ctrl_init(ctrl_endofrequest(s)) ELSE s

ctrl_setup_received(s0, r) ==
  LET s == EndLastRequest(s0)
      t == [udc_process_setup(s, r) EXCEPT !.setup = FALSE]
      data == [t EXCEPT !.prev = 0, !.cnt = 0]
  IN IF ~r.ok THEN ctrl_stall_data(t)
     ELSE IF r.isIn THEN ctrl_in_sent([data EXCEPT !.state = "DATA_IN"])
     ELSE IF r.wLength = 0 THEN ctrl_send_zlp_in(t)
     ELSE [data EXCEPT !.state = "DATA_OUT", !.nakIn = FALSE, !.nakInIE = TRUE]

\* The bus reset branch of the ISR, as far as endpoint 0 is concerned.
reset_ep_ctrl(s) == ctrl_init([s EXCEPT !.reset = FALSE])

---------------------------------------------------------------------------
(* The interrupt.                                                          *)

Raised ==
  \/ ep.setup \/ ep.out # EMPTY \/ ep.reset
  \/ (ep.sent /\ ep.sentIE)
  \/ (ep.nakOut /\ ep.nakOutIE)
  \/ (ep.nakIn /\ ep.nakInIE)

\* The NAK flags count here whether or not their interrupts are enabled.
Event ==
  IF ep.setup THEN "setup"
  ELSE IF ep.sent /\ ep.sentIE THEN "in"
  ELSE IF ep.out # EMPTY THEN "out"
  ELSE IF ep.nakOut THEN "nakOut"
  ELSE IF ep.nakIn THEN "nakIn"
  ELSE "reset"

Interrupt ==
  /\ isr = NONE /\ Raised
  /\ isr' = Event
  /\ ep' = [ep EXCEPT !.nakInIE = FALSE, !.nakOutIE = FALSE]
  /\ UNCHANGED <<host, owed>>

Handler ==
  CASE isr = "setup" -> ctrl_setup_received(ep, host.req)
    [] isr = "in" -> ctrl_in_sent(ep)
    [] isr = "out" -> ctrl_out_received(ep)
    [] isr = "nakOut" -> ctrl_overflow([ep EXCEPT !.nakOut = FALSE])
    [] isr = "nakIn" -> ctrl_underflow([ep EXCEPT !.nakIn = FALSE])
    [] OTHER -> reset_ep_ctrl(ep)

Idle == host.stage = "idle"
Known(outcome) == [outcome |-> outcome, units |-> host.moved]

Handle ==
  /\ isr # NONE
  /\ isr' = NONE
  /\ ep' = Handler
  /\ owed' = IF isr = "setup" /\ Idle /\ host.req.calls THEN Known(host.outcome)
             ELSE IF isr \in {"setup", "reset"} \/ ep'.runs # ep.runs THEN Nothing
             ELSE owed
  /\ UNCHANGED host

---------------------------------------------------------------------------
(* The host controller and the endpoint's hardware.                        *)

TakesIn == IF host.req.isIn THEN host.stage = "data" ELSE host.stage = "status"
SendsOut == IF host.req.isIn THEN host.stage = "status" ELSE host.stage = "data"

\* A request whose SETUP is not handled yet is accounted for by Handle.
Over(outcome) ==
  owed' = IF host.req.calls /\ ~ep.setup /\ ~Idle THEN Known(outcome) ELSE owed

Ends(outcome) ==
  /\ host' = [host EXCEPT !.stage = "idle", !.outcome = outcome, !.dup = FALSE]
  /\ Over(outcome)

\* udphs_device.c:1420-1426: the ISR is quicker than an abort and a SETUP.
HostSetup ==
  /\ Idle /\ isr = NONE /\ ~ep.setup /\ ~ep.reset
  /\ \E r \in Requests :
       host' = [req |-> r,
                stage |-> IF r.wLength = 0 THEN "status" ELSE "data",
                moved |-> 0, dup |-> FALSE, cut |-> FALSE, outcome |-> NONE]
  /\ ep' = [ep EXCEPT !.setup = TRUE, !.stall = FALSE, !.tx = EMPTY]
  /\ UNCHANGED <<isr, owed>>

HostStalled ==
  /\ TakesIn \/ SendsOut
  /\ ~ep.setup /\ ~ep.reset /\ ep.stall
  /\ Ends("stalled")
  /\ UNCHANGED <<ep, isr>>

HostInNak ==
  /\ TakesIn /\ ~ep.reset
  /\ ep.setup \/ (~ep.stall /\ ep.tx = EMPTY)
  /\ ep' = [ep EXCEPT !.nakIn = TRUE]
  /\ UNCHANGED <<isr, host, owed>>

\* The endpoint repeats a packet whose ACK it missed; the host drops it.
HostIn ==
  /\ TakesIn /\ ~ep.setup /\ ~ep.stall /\ ~ep.reset /\ ep.tx # EMPTY
  /\ \E acked \in BOOLEAN :
       LET got == IF host.dup THEN 0 ELSE ep.tx
           over == host.req.isIn /\ ~host.dup
                   /\ (ep.tx < EpSize \/ host.moved + got >= host.req.wLength)
       IN /\ ep' = IF acked THEN [ep EXCEPT !.tx = EMPTY, !.sent = TRUE] ELSE ep
          /\ IF host.req.isIn
             THEN /\ host' = [host EXCEPT !.moved = @ + got, !.dup = ~acked /\ ~over,
                                          !.stage = IF over THEN "status" ELSE "data"]
                  /\ UNCHANGED owed
             ELSE Ends("done")
  /\ UNCHANGED isr

HostOutNak ==
  /\ SendsOut /\ ~ep.reset
  /\ ep.setup \/ (~ep.stall /\ ep.out # EMPTY)
  /\ ep' = [ep EXCEPT !.nakOut = TRUE]
  /\ UNCHANGED <<isr, host, owed>>

HostOut ==
  /\ SendsOut /\ ~ep.setup /\ ~ep.stall /\ ~ep.reset /\ ep.out = EMPTY
  /\ LET n == IF host.req.isIn THEN 0 ELSE Minimum(EpSize, host.req.wLength - host.moved)
         all == host.moved + n
     IN /\ ep' = [ep EXCEPT !.out = n]
        /\ IF host.req.isIn THEN Ends("done")
           ELSE /\ host' = [host EXCEPT !.moved = all,
                              !.stage = IF all = host.req.wLength THEN "status" ELSE "data"]
                /\ UNCHANGED owed
  /\ UNCHANGED isr

\* The status stage before the data stage is over.
HostCutsShort ==
  /\ host.stage = "data"
  /\ host' = [host EXCEPT !.stage = "status", !.cut = TRUE, !.dup = FALSE]
  /\ UNCHANGED <<ep, isr, owed>>

HostGivesUp ==
  /\ ~Idle
  /\ Ends("abandoned")
  /\ UNCHANGED <<ep, isr>>

\* The hardware disables the endpoint; the reset outlasts a running ISR.
BusReset ==
  /\ isr = NONE /\ ~ep.reset
  /\ ep' = [ep EXCEPT !.setup = FALSE, !.out = EMPTY, !.tx = EMPTY, !.sent = FALSE,
                      !.nakIn = FALSE, !.nakOut = FALSE, !.stall = FALSE, !.sentIE = FALSE,
                      !.nakInIE = FALSE, !.nakOutIE = FALSE, !.reset = TRUE]
  /\ Ends("reset")
  /\ UNCHANGED isr

Next ==
  \/ Interrupt \/ Handle
  \/ HostSetup \/ HostStalled \/ HostInNak \/ HostIn \/ HostOutNak \/ HostOut
  \/ HostCutsShort \/ HostGivesUp \/ BusReset

(* The interrupt is served, and the host repeats its tokens; it need not   *)
(* send requests, give up, cut a stage short or reset the bus.             *)
Fairness ==
  /\ WF_vars(Interrupt) /\ WF_vars(Handle)
  /\ WF_vars(HostStalled) /\ WF_vars(HostInNak) /\ WF_vars(HostIn)
  /\ WF_vars(HostOutNak) /\ WF_vars(HostOut)

Spec == Init /\ [][Next]_vars /\ Fairness

---------------------------------------------------------------------------
ControlEndpoint ==
  [ setup: BOOLEAN, out: Bank, tx: Bank, sent: BOOLEAN,
    nakIn: BOOLEAN, nakOut: BOOLEAN, stall: BOOLEAN,
    sentIE: BOOLEAN, nakInIE: BOOLEAN, nakOutIE: BOOLEAN, reset: BOOLEAN,
    state: States, callback: BOOLEAN, isIn: BOOLEAN, wLength: Nat, size: Nat,
    cnt: Nat, prev: Nat, short: BOOLEAN, runs: {0, 1} ]

TypeOK ==
  /\ ep \in ControlEndpoint
  /\ isr \in Events \cup {NONE}
  /\ host \in [ req: Requests, stage: {"idle", "data", "status"}, moved: Nat, dup: BOOLEAN,
                cut: BOOLEAN, outcome: Outcomes \cup {NONE} ]
  /\ owed \in [outcome: Outcomes \cup {NONE}, units: Nat]

(* The endpoint implements the control pipe the firmware is written for:   *)
(* a registered callback is called once, before the next is registered,    *)
(* and only a bus reset takes it back (udd.h:93).                          *)
Pipe == INSTANCE ControlPipe WITH armed <- ep.callback, runs <- ep.runs, reset <- ep.reset
ImplementsControlPipe == Pipe!Spec

(* A request the host was told is done is executed, with all the data the  *)
(* host had acknowledged, also when the device did not notice the end of   *)
(* the status stage (udphs_device.c:1285-1287); only a bus reset in        *)
(* between lets it fall.                                                   *)
AckedIsExecuted ==
  [][owed.outcome = "done" /\ owed' # owed /\ isr # "reset" =>
       ep'.runs # ep.runs /\ (owed.units > 0 => ep.cnt = owed.units)]_vars

(* A callback is called only when the host is done with its request, never *)
(* while data or status are still to come.                                 *)
CalledWhenOver == [][ep'.runs # ep.runs => owed # Nothing]_vars

(* udd.h:93: "Callback called after reception of ZLP from setup request".  *)
CalledAfterZlp == [][ep'.runs # ep.runs => owed.outcome = "done"]_vars

(* A request the firmware accepts, with a payload that fits its buffer, is *)
(* served in full: an IN request the host does not cut short gives all of  *)
(* the payload, and none is answered with a stall.                         *)
Fits(r) == r.ok /\ (IF r.isIn THEN r.size > 0 ELSE r.wLength = r.size)
ServedInFull ==
  /\ TypeOK
  /\ Fits(host.req) /\ ~host.cut =>
       /\ host.outcome # "stalled"
       /\ host.req.isIn /\ host.stage = "status" => host.moved = host.req.size

(* Every request comes to an end without a timeout of the host: it is      *)
(* done, or stalled.                                                       *)
HungByNakOut == IF host.req.isIn THEN host.req.size = 0 ELSE host.cut
RequestEnds == ~Idle ~> (Idle \/ HungByNakOut)
===========================================================================
