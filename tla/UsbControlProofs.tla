-------------------------- MODULE UsbControlProofs --------------------------
(***************************************************************************)
(* Proofs about the control endpoint, for packets of any size and any set  *)
(* of requests.  The inductive invariant IInv says, beside the types: the  *)
(* event the ISR has picked stays (EventStands), a SETUP or a reset that   *)
(* is due has cleaned the endpoint (SetupIsClean, ResetIsClean), and what  *)
(* each state of the driver means for the host and its request (the        *)
(* conjuncts from StateSane to StallInv).                                  *)
(***************************************************************************)
EXTENDS UsbControl, TLAPS

EventStands ==
  /\ isr = "setup" => ep.setup
  /\ isr = "in" => ep.sent /\ ep.sentIE
  /\ isr = "out" => ep.out # EMPTY
  /\ isr = "nakOut" => ep.nakOut
  /\ isr = "nakIn" => ep.nakIn
  /\ isr = "reset" => ep.reset
  /\ ep.setup => isr \in {NONE, "setup"}
  /\ ep.reset => isr \in {NONE, "reset"}

SetupIsClean ==
  ep.setup => /\ ep.tx = EMPTY /\ ~ep.stall /\ ~ep.reset
              /\ host.moved = 0 /\ ~host.dup
              /\ Idle => host.outcome = "abandoned"
              /\ host.stage = "data" => host.req.wLength > 0

ResetIsClean ==
  ep.reset => /\ ep.out = EMPTY /\ ~ep.setup /\ ~ep.sentIE /\ ~ep.nakIn /\ ~ep.nakOut
              /\ Idle

HostSane ==
  /\ ~Idle => host.outcome = NONE
  /\ host.cut => host.stage # "data"
  /\ host.outcome = "stalled" => ~Fits(host.req) \/ host.cut
  /\ host.stage = "status" /\ host.req.isIn /\ ~host.cut /\ Fits(host.req) =>
       host.moved = host.req.size

StateSane ==
  /\ ep.state \in {"SETUP", "WAIT_IN_ZLP", "STALL_REQ"} => ep.out = EMPTY
  /\ ep.sentIE => ep.state \in {"DATA_IN", "WAIT_IN_ZLP"}
  /\ ep.callback => ep.state \in {"DATA_OUT", "WAIT_IN_ZLP", "STALL_REQ"}

\* What the driver works on is the host's request.
Current == ~ep.setup /\ ~ep.reset
ServesHost ==
  Current =>
    IF ep.state = "SETUP" THEN Idle
    ELSE ep.wLength = host.req.wLength /\ ep.callback = host.req.calls

DataOutInv ==
  Current /\ ep.state = "DATA_OUT" =>
    /\ ~host.req.isIn /\ host.req.ok /\ ep.wLength > 0
    /\ ep.size = host.req.size /\ ep.cnt = 0 /\ ep.prev = 0
    /\ ep.tx = EMPTY /\ ~ep.stall
    /\ host.moved = IF ep.out = EMPTY THEN 0 ELSE ep.out
    /\ ep.out # EMPTY => ep.out = ep.size
    /\ host.stage = "data" => ~ep.nakIn /\ host.moved < ep.wLength

WaitInZlpInv ==
  Current /\ ep.state = "WAIT_IN_ZLP" =>
    /\ ~host.req.isIn /\ host.req.ok
    /\ host.stage # "data" /\ ~ep.nakOut /\ ~ep.stall
    /\ host.moved > 0 => ep.cnt = host.moved
    /\ ~Idle => ep.tx # EMPTY /\ ~ep.sent

DataInInv ==
  Current /\ ep.state = "DATA_IN" =>
    /\ host.req.isIn /\ host.req.ok /\ ~ep.stall
    /\ ep.size = host.req.size /\ ep.cnt <= ep.size
    /\ ep.prev = 0 \/ (ep.prev = ep.size /\ ep.cnt = ep.size /\ ep.short)
    /\ ep.sent <=> ep.tx = EMPTY
    /\ ep.tx # EMPTY => /\ ep.tx <= ep.cnt
                        /\ ep.short <=> ep.tx < EpSize
    /\ ep.short => ep.cnt = ep.size
    /\ ep.out # EMPTY => Idle
    /\ host.stage = "data" =>
         /\ ep.sent \/ host.dup => host.moved = ep.cnt /\ ~ep.short /\ host.moved < ep.wLength
         /\ ~ep.sent /\ ~host.dup => host.moved = ep.cnt - ep.tx
         /\ ep.sent => ~host.dup

WaitOutZlpInv ==
  Current /\ ep.state = "WAIT_OUT_ZLP" =>
    /\ host.req.isIn /\ host.req.ok /\ ep.tx = EMPTY
    /\ host.req.size > 0 /\ ~host.cut =>
         /\ host.stage # "data" /\ ~ep.stall
         /\ ep.nakIn => ep.out # EMPTY
    /\ ep.out # EMPTY => Idle

StallInv ==
  Current /\ ep.state = "STALL_REQ" => ep.stall /\ ep.tx = EMPTY /\ ~Fits(host.req)

OwedInv ==
  /\ owed.outcome = NONE => owed.units = 0
  /\ owed.outcome # NONE => ep.callback /\ (Idle \/ ep.setup)
  /\ ep.callback /\ owed.outcome = NONE => Current /\ ~Idle
  /\ owed.outcome = "done" =>
       ep.state = "WAIT_IN_ZLP" /\ (owed.units > 0 => ep.cnt = owed.units)

IInv ==
  /\ TypeOK /\ EventStands /\ SetupIsClean /\ ResetIsClean /\ HostSane
  /\ StateSane /\ ServesHost /\ DataOutInv /\ WaitInZlpInv /\ DataInInv
  /\ WaitOutZlpInv /\ StallInv /\ OwedInv

---------------------------------------------------------------------------
\* What the host's tokens leave alone: the driver's variables.
SameDriver ==
  /\ ep'.state = ep.state /\ ep'.callback = ep.callback /\ ep'.runs = ep.runs
  /\ ep'.wLength = ep.wLength /\ ep'.size = ep.size
  /\ ep'.cnt = ep.cnt /\ ep'.prev = ep.prev /\ ep'.short = ep.short
  /\ ep'.sentIE = ep.sentIE

\* What the firmware hears of a step: nothing.
Unheard == ep'.callback = ep.callback /\ ep'.runs = ep.runs /\ ep'.reset = ep.reset

\* The end of a request: a callback is called.
Unregistered ==
  /\ ~ep'.callback /\ ep'.reset = ep.reset /\ Current /\ Idle
  /\ ep'.runs = (IF ep.callback THEN 1 - ep.runs ELSE ep.runs)

\* A bus reset: the callback is forgotten.
Dropped == ep.reset /\ ~ep'.callback /\ ~ep'.reset /\ ep'.runs = ep.runs

LEMMA InitIInv == Init => IInv
<1> SUFFICES ASSUME Init PROVE IInv
  OBVIOUS
<1> USE DEF Init
<1>1. PICK r \in Requests :
        host = [req |-> r, stage |-> "idle", moved |-> 0, dup |-> FALSE,
                cut |-> FALSE, outcome |-> NONE]
  OBVIOUS
<1>2. TypeOK
  BY <1>1 DEF TypeOK, ControlEndpoint, Bank, EMPTY, States, Nothing
<1>3. EventStands /\ SetupIsClean /\ ResetIsClean /\ StateSane /\ OwedInv
  BY DEF EventStands, SetupIsClean, ResetIsClean, StateSane, OwedInv, Nothing, NONE
<1>4. HostSane
  BY <1>1 DEF HostSane, Idle, NONE
<1>5. ServesHost /\ DataOutInv /\ WaitInZlpInv /\ DataInInv /\ WaitOutZlpInv /\ StallInv
  BY <1>1 DEF ServesHost, DataOutInv, WaitInZlpInv, DataInInv, WaitOutZlpInv, StallInv, Idle
<1> QED BY <1>2, <1>3, <1>4, <1>5 DEF IInv

---------------------------------------------------------------------------
(* The host's tokens.                                                      *)

LEMMA SetupKeepsIInv == ASSUME IInv, HostSetup PROVE IInv'
<1> USE DEF IInv, HostSetup
<1>1. PICK r \in Requests :
        host' = [req |-> r, stage |-> IF r.wLength = 0 THEN "status" ELSE "data",
                 moved |-> 0, dup |-> FALSE, cut |-> FALSE, outcome |-> NONE]
  OBVIOUS
<1>2. /\ SameDriver /\ ep'.setup /\ ~ep'.stall /\ ep'.tx = EMPTY
      /\ ep'.out = ep.out /\ ep'.sent = ep.sent /\ ep'.reset = ep.reset
      /\ ep'.nakIn = ep.nakIn /\ ep'.nakOut = ep.nakOut
  BY DEF SameDriver, TypeOK, ControlEndpoint
<1>3. TypeOK'
  BY <1>1, UsbControlAssumption DEF TypeOK, ControlEndpoint, Bank
<1>4. EventStands' /\ SetupIsClean' /\ ResetIsClean' /\ StateSane'
  <2>1. host'.stage = "data" => host'.req.wLength > 0
    BY <1>1, UsbControlAssumption
  <2> QED BY <1>1, <1>2, <2>1 DEF EventStands, SetupIsClean, ResetIsClean, StateSane,
             SameDriver, Idle
<1>5. HostSane'
  BY <1>1, UsbControlAssumption DEF HostSane, Idle, NONE, Fits
<1>6. ServesHost' /\ DataOutInv' /\ WaitInZlpInv' /\ DataInInv' /\ WaitOutZlpInv' /\ StallInv'
  BY <1>2 DEF ServesHost, DataOutInv, WaitInZlpInv, DataInInv, WaitOutZlpInv, StallInv, Current
<1>7. OwedInv'
  BY <1>2 DEF OwedInv, SameDriver, Current
<1> QED BY <1>3, <1>4, <1>5, <1>6, <1>7

LEMMA StalledKeepsIInv == ASSUME IInv, HostStalled PROVE IInv'
<1> USE DEF IInv, HostStalled
<1>1. ep' = ep /\ isr' = isr /\ ~ep.setup /\ ~ep.reset /\ ep.stall /\ ~Idle
  BY DEF TakesIn, SendsOut, Idle
<1>2. /\ host'.req = host.req /\ host'.stage = "idle" /\ host'.moved = host.moved
      /\ ~host'.dup /\ host'.cut = host.cut /\ host'.outcome = "stalled"
  BY DEF Ends, TypeOK
<1>3. IF host.req.calls
      THEN owed'.outcome = "stalled" /\ owed'.units = host.moved
      ELSE owed' = owed
  BY <1>1 DEF Ends, Over, Known
<1>4. TypeOK'
  BY DEF Ends, TypeOK, Outcomes, Over, Known
<1>5. EventStands' /\ SetupIsClean' /\ ResetIsClean' /\ StateSane'
  BY <1>1, <1>2 DEF EventStands, SetupIsClean, ResetIsClean, StateSane, Idle, NONE
<1>6. HostSane'
  <2>1. ~Fits(host.req) \/ host.cut
    BY <1>1 DEF ServesHost, DataOutInv, WaitInZlpInv, DataInInv, WaitOutZlpInv, StallInv,
                Current, TypeOK, ControlEndpoint, States, Fits
  <2> QED BY <1>2, <2>1 DEF HostSane, Idle, NONE
<1>7. ServesHost' /\ DataOutInv' /\ WaitInZlpInv' /\ DataInInv' /\ WaitOutZlpInv' /\ StallInv'
  BY <1>1, <1>2 DEF ServesHost, DataOutInv, WaitInZlpInv, DataInInv, WaitOutZlpInv, StallInv,
                    Idle, Current
<1>8. OwedInv'
  BY <1>1, <1>2, <1>3 DEF OwedInv, Idle, Current, NONE, ServesHost
<1> QED BY <1>4, <1>5, <1>6, <1>7, <1>8

LEMMA InNakKeepsIInv == ASSUME IInv, HostInNak PROVE IInv'
<1> USE DEF IInv, HostInNak
<1>1. /\ SameDriver /\ ep'.setup = ep.setup /\ ep'.stall = ep.stall /\ ep'.tx = ep.tx
      /\ ep'.out = ep.out /\ ep'.sent = ep.sent /\ ep'.reset = ep.reset
      /\ ep'.nakIn /\ ep'.nakOut = ep.nakOut
      /\ isr' = isr /\ host' = host /\ owed' = owed
  BY DEF SameDriver, TypeOK, ControlEndpoint
<1>2. TypeOK'
  BY DEF TypeOK, ControlEndpoint
<1>3. EventStands' /\ SetupIsClean' /\ ResetIsClean' /\ HostSane' /\ StateSane'
  BY <1>1 DEF EventStands, SetupIsClean, ResetIsClean, HostSane, StateSane, SameDriver, Idle
<1>4. ServesHost' /\ DataOutInv' /\ WaitInZlpInv' /\ DataInInv' /\ StallInv' /\ OwedInv'
  BY <1>1 DEF ServesHost, DataOutInv, WaitInZlpInv, DataInInv, StallInv, OwedInv, SameDriver,
              Idle, Current, TakesIn
<1>5. WaitOutZlpInv'
  BY <1>1 DEF WaitOutZlpInv, SameDriver, Idle, Current, TakesIn
<1> QED BY <1>2, <1>3, <1>4, <1>5

LEMMA OutNakKeepsIInv == ASSUME IInv, HostOutNak PROVE IInv'
<1> USE DEF IInv, HostOutNak
<1>1. /\ SameDriver /\ ep'.setup = ep.setup /\ ep'.stall = ep.stall /\ ep'.tx = ep.tx
      /\ ep'.out = ep.out /\ ep'.sent = ep.sent /\ ep'.reset = ep.reset
      /\ ep'.nakIn = ep.nakIn /\ ep'.nakOut
      /\ isr' = isr /\ host' = host /\ owed' = owed
  BY DEF SameDriver, TypeOK, ControlEndpoint
<1>2. TypeOK'
  BY DEF TypeOK, ControlEndpoint
<1>3. EventStands' /\ SetupIsClean' /\ ResetIsClean' /\ HostSane' /\ StateSane'
  BY <1>1 DEF EventStands, SetupIsClean, ResetIsClean, HostSane, StateSane, SameDriver, Idle
<1>4. ServesHost' /\ DataOutInv' /\ DataInInv' /\ WaitOutZlpInv' /\ StallInv' /\ OwedInv'
  BY <1>1 DEF ServesHost, DataOutInv, WaitOutZlpInv, DataInInv, StallInv, OwedInv, SameDriver,
              Idle, Current
<1>5. WaitInZlpInv'
  BY <1>1 DEF WaitInZlpInv, SameDriver, Idle, Current, SendsOut
<1> QED BY <1>2, <1>3, <1>4, <1>5

\* A packet of an IN request: the host's count follows the driver's.
LEMMA InDataKeepsIInv ==
  ASSUME IInv, HostIn, host.req.isIn PROVE IInv'
<1> USE DEF IInv
<1> DEFINE got == IF host.dup THEN 0 ELSE ep.tx
           over == ~host.dup /\ (ep.tx < EpSize \/ host.moved + got >= host.req.wLength)
<1>1. PICK acked \in BOOLEAN :
        /\ ep' = IF acked THEN [ep EXCEPT !.tx = EMPTY, !.sent = TRUE] ELSE ep
        /\ host' = [host EXCEPT !.moved = @ + got, !.dup = ~acked /\ ~over,
                                !.stage = IF over THEN "status" ELSE "data"]
        /\ owed' = owed
  BY DEF HostIn, TakesIn
<1>2. /\ SameDriver /\ ep'.setup = ep.setup /\ ep'.stall = ep.stall
      /\ ep'.tx = (IF acked THEN EMPTY ELSE ep.tx) /\ ep'.out = ep.out
      /\ ep'.sent = (acked \/ ep.sent) /\ ep'.reset = ep.reset
      /\ ep'.nakIn = ep.nakIn /\ ep'.nakOut = ep.nakOut
  BY <1>1 DEF SameDriver, TypeOK, ControlEndpoint
<1>3. /\ host'.req = host.req /\ host'.stage = (IF over THEN "status" ELSE "data")
      /\ host'.moved = host.moved + got /\ host'.dup = (~acked /\ ~over)
      /\ host'.cut = host.cut /\ host'.outcome = host.outcome
  BY <1>1 DEF TypeOK
<1>4. /\ Current /\ host.stage = "data" /\ ep.tx # EMPTY /\ ~ep.stall /\ isr' = isr
      /\ host.outcome = NONE /\ ~host.cut
  BY DEF HostIn, TakesIn, Current, HostSane, Idle
<1>5. /\ ep.tx \in 0 .. EpSize /\ ep.cnt \in Nat /\ host.moved \in Nat /\ ep.size \in Nat
      /\ host.req \in Requests /\ ep.wLength \in Nat /\ EpSize \in Nat \ {0}
      /\ host.dup \in BOOLEAN /\ ep.short \in BOOLEAN /\ ep.sent \in BOOLEAN
      /\ ep.state \in States
  BY <1>4, UsbControlAssumption DEF TypeOK, ControlEndpoint, Bank, EMPTY
<1>6. TypeOK'
  <2>1. ep' \in ControlEndpoint
    BY <1>1 DEF TypeOK, ControlEndpoint, Bank
  <2>2. host.moved + got \in Nat
    BY <1>5
  <2>3. PICK m \in Nat, d \in BOOLEAN, st \in {"data", "status"} :
          host' = [host EXCEPT !.moved = m, !.dup = d, !.stage = st]
    BY <1>1, <2>2
  <2>4. host' \in [ req: Requests, stage: {"idle", "data", "status"}, moved: Nat, dup: BOOLEAN,
                    cut: BOOLEAN, outcome: Outcomes \cup {NONE} ]
    BY <2>3 DEF TypeOK
  <2> QED BY <1>1, <1>4, <2>1, <2>4 DEF TypeOK
<1>7. EventStands' /\ SetupIsClean' /\ ResetIsClean' /\ StateSane'
  BY <1>2, <1>3, <1>4 DEF EventStands, SetupIsClean, ResetIsClean, StateSane, SameDriver, Idle,
       Current
\* All of the payload has been packed when the host takes the last packet.
<1>8. host.req.size > 0 =>
        /\ ep.state = "DATA_IN"
        /\ ep.wLength = host.req.wLength /\ ep.size = host.req.size
  BY <1>4, <1>5 DEF ServesHost, DataOutInv, WaitInZlpInv, DataInInv, WaitOutZlpInv, StallInv,
       Current, States, Idle
<1>9. host.req.size <= host.req.wLength
  BY <1>5, UsbControlAssumption
<1>10. HostSane'
  <2>1. CASE over /\ host.req.size > 0
    <3>1. host.moved + got = ep.cnt
      BY <1>4, <1>5, <1>8, <2>1 DEF DataInInv
    <3>2. ep.cnt = ep.size
      BY <1>4, <1>5, <1>8, <1>9, <2>1, <3>1 DEF DataInInv
    <3> QED BY <1>3, <1>4, <1>8, <2>1, <3>1, <3>2 DEF HostSane, Idle, NONE
  <2>2. CASE over /\ ~(host.req.size > 0)
    BY <1>3, <1>4, <2>2 DEF HostSane, Idle, NONE, Fits
  <2>3. CASE ~over
    BY <1>3, <1>4, <2>3 DEF HostSane, Idle, NONE
  <2> QED BY <2>1, <2>2, <2>3
<1>11. ServesHost' /\ DataOutInv' /\ WaitInZlpInv' /\ StallInv'
  BY <1>2, <1>3, <1>4 DEF ServesHost, DataOutInv, WaitInZlpInv, StallInv, SameDriver, Idle,
       Current
<1>12. DataInInv'
  <2>1. CASE ep.state = "DATA_IN"
    <3>1. CASE over
      BY <1>2, <1>3, <1>4, <1>5, <2>1, <3>1 DEF DataInInv, SameDriver, Idle, Current, EMPTY
    <3>2. CASE ~over
      <4>1. /\ host.moved + got = ep.cnt /\ ~ep.short /\ ep.cnt < ep.wLength
            /\ host'.stage = "data" /\ host'.dup = ~acked /\ ~ep.sent
        BY <1>3, <1>4, <1>5, <2>1, <3>2 DEF DataInInv, ServesHost
      <4> HIDE DEF got, over
      <4> QED BY <1>2, <1>3, <1>4, <1>5, <2>1, <4>1 DEF DataInInv, SameDriver, Idle, Current,
                 EMPTY
    <3> QED BY <3>1, <3>2
  <2> QED BY <1>2, <2>1 DEF DataInInv, SameDriver
<1>13. WaitOutZlpInv' /\ OwedInv'
  BY <1>1, <1>2, <1>3, <1>4 DEF WaitOutZlpInv, OwedInv, SameDriver, Idle, Current
<1> QED BY <1>6, <1>7, <1>10, <1>11, <1>12, <1>13

\* The status stage of an OUT request, which the device may miss.
LEMMA InStatusKeepsIInv ==
  ASSUME IInv, HostIn, ~host.req.isIn PROVE IInv'
<1> USE DEF IInv, HostIn
<1>1. PICK acked \in BOOLEAN :
        /\ ep' = IF acked THEN [ep EXCEPT !.tx = EMPTY, !.sent = TRUE] ELSE ep
        /\ Ends("done")
  BY DEF TakesIn
<1>2. /\ SameDriver /\ ep'.setup = ep.setup /\ ep'.stall = ep.stall
      /\ ep'.tx = (IF acked THEN EMPTY ELSE ep.tx) /\ ep'.out = ep.out
      /\ ep'.sent = (acked \/ ep.sent) /\ ep'.reset = ep.reset
      /\ ep'.nakIn = ep.nakIn /\ ep'.nakOut = ep.nakOut
  BY <1>1 DEF SameDriver, TypeOK, ControlEndpoint
<1>3. /\ host'.req = host.req /\ host'.stage = "idle" /\ host'.moved = host.moved
      /\ ~host'.dup /\ host'.cut = host.cut /\ host'.outcome = "done"
  BY <1>1 DEF TypeOK, Ends
<1>4. Current /\ host.stage = "status" /\ ep.tx # EMPTY /\ ~ep.stall /\ ~Idle /\ isr' = isr
  BY DEF TakesIn, Current, Idle
<1>5. IF host.req.calls
      THEN owed'.outcome = "done" /\ owed'.units = host.moved
      ELSE owed' = owed
  BY <1>1, <1>4 DEF Ends, Over, Known, Current
<1>6. TypeOK'
  BY <1>1 DEF TypeOK, ControlEndpoint, Bank, EMPTY, Ends, Over, Known, Outcomes
<1>7. ep.state = "WAIT_IN_ZLP"
  BY <1>4 DEF ServesHost, DataOutInv, DataInInv, WaitOutZlpInv, StallInv, Current, States, Idle,
       TypeOK, ControlEndpoint
<1>8. EventStands' /\ SetupIsClean' /\ ResetIsClean' /\ HostSane' /\ StateSane'
  BY <1>2, <1>3, <1>4 DEF EventStands, SetupIsClean, ResetIsClean, HostSane, StateSane,
       SameDriver, Idle, Current
<1>9. ServesHost' /\ DataOutInv' /\ WaitInZlpInv' /\ DataInInv' /\ WaitOutZlpInv' /\ StallInv'
  BY <1>2, <1>3, <1>4, <1>7 DEF ServesHost, DataOutInv, WaitInZlpInv, DataInInv, WaitOutZlpInv,
       StallInv, SameDriver, Idle, Current
<1>10. OwedInv'
  BY <1>2, <1>3, <1>4, <1>5, <1>7 DEF OwedInv, ServesHost, WaitInZlpInv, SameDriver, Idle,
       Current, NONE
<1> QED BY <1>6, <1>8, <1>9, <1>10

\* The first packet of an OUT request is all that fits the buffer.
LEMMA OutKeepsIInv == ASSUME IInv, HostOut PROVE IInv'
<1> USE DEF IInv
<1> DEFINE n == IF host.req.isIn THEN 0 ELSE Minimum(EpSize, host.req.wLength - host.moved)
<1>1. /\ Current /\ ep.out = EMPTY /\ ~ep.stall /\ ~Idle /\ isr' = isr
      /\ host.stage = (IF host.req.isIn THEN "status" ELSE "data")
      /\ ep.state \in States /\ EpSize \in Nat \ {0} /\ host.req \in Requests
      /\ host.req.wLength \in Nat
  BY UsbControlAssumption DEF HostOut, SendsOut, Current, Idle, TypeOK, ControlEndpoint
<1>2. ep.state \in (IF host.req.isIn THEN {"DATA_IN", "WAIT_OUT_ZLP"} ELSE {"DATA_OUT"})
  BY <1>1 DEF ServesHost, DataOutInv, WaitInZlpInv, DataInInv, WaitOutZlpInv, StallInv, States,
       Current
<1>3. ~host.req.isIn =>
        /\ host.moved = 0 /\ host.req.wLength > 0 /\ n = host.req.size /\ ep.size = n
        /\ ep.wLength = host.req.wLength
  BY <1>1, <1>2, UsbControlAssumption DEF DataOutInv, ServesHost, Minimum
<1>4. n \in 0 .. EpSize
  BY <1>1, <1>3 DEF Minimum
<1>5. /\ SameDriver /\ ep'.setup = ep.setup /\ ep'.stall = ep.stall /\ ep'.tx = ep.tx
      /\ ep'.out = n /\ ep'.sent = ep.sent /\ ep'.reset = ep.reset
      /\ ep'.nakIn = ep.nakIn /\ ep'.nakOut = ep.nakOut
  BY DEF HostOut, SameDriver, TypeOK, ControlEndpoint
<1>6. ASSUME host.req.isIn
      PROVE  /\ host'.req = host.req /\ host'.stage = "idle" /\ host'.moved = host.moved
             /\ ~host'.dup /\ host'.cut = host.cut /\ host'.outcome = "done" /\ owed' = owed
  BY <1>1, <1>6, UsbControlAssumption DEF HostOut, TypeOK, Ends, Over
<1>7. ASSUME ~host.req.isIn
      PROVE  /\ host'.req = host.req /\ host'.moved = n
             /\ host'.stage = (IF n = host.req.wLength THEN "status" ELSE "data")
             /\ host'.dup = host.dup /\ host'.cut = host.cut /\ host'.outcome = host.outcome
             /\ owed' = owed
  <2>1. /\ host' = [host EXCEPT !.moved = host.moved + n,
              !.stage = IF host.moved + n = host.req.wLength THEN "status" ELSE "data"]
        /\ owed' = owed
    BY <1>7 DEF HostOut
  <2>2. host.moved + n = n
    BY <1>3, <1>4, <1>7
  <2> QED BY <2>1, <2>2 DEF TypeOK
<1>8. TypeOK'
  <2>1. ep' \in ControlEndpoint
    BY <1>4 DEF HostOut, TypeOK, ControlEndpoint, Bank
  <2>2. CASE host.req.isIn
    <3>1. Ends("done")
      BY <2>2 DEF HostOut
    <3> QED BY <1>1, <1>6, <2>1, <2>2, <3>1 DEF TypeOK, Ends, Outcomes
  <2>3. CASE ~host.req.isIn
    <3>1. /\ host' = [host EXCEPT !.moved = host.moved + n,
                !.stage = IF host.moved + n = host.req.wLength THEN "status" ELSE "data"]
          /\ owed' = owed
      BY <2>3 DEF HostOut
    <3>2. host.moved + n \in Nat
      BY <1>3, <1>4, <2>3
    <3> QED BY <1>1, <2>1, <3>1, <3>2 DEF TypeOK
  <2> QED BY <2>2, <2>3
<1>9. EventStands' /\ SetupIsClean' /\ ResetIsClean' /\ StateSane'
  BY <1>1, <1>2, <1>5 DEF EventStands, SetupIsClean, ResetIsClean, StateSane, SameDriver, Current
<1>10. HostSane'
  BY <1>1, <1>6, <1>7 DEF HostSane, Idle, NONE, Current
<1>11. ServesHost' /\ WaitInZlpInv' /\ DataInInv' /\ WaitOutZlpInv' /\ StallInv'
  BY <1>1, <1>2, <1>4, <1>5, <1>6, <1>7 DEF ServesHost, WaitInZlpInv, DataInInv, WaitOutZlpInv,
       StallInv, SameDriver, Idle, Current, EMPTY
<1>12. DataOutInv'
  BY <1>1, <1>2, <1>3, <1>4, <1>5, <1>7, UsbControlAssumption DEF DataOutInv, SameDriver, Idle,
       Current, EMPTY, Minimum
<1>13. OwedInv'
  BY <1>1, <1>2, <1>5, <1>6, <1>7 DEF OwedInv, SameDriver, StateSane, Idle, Current
<1> QED BY <1>8, <1>9, <1>10, <1>11, <1>12, <1>13

LEMMA CutKeepsIInv == ASSUME IInv, HostCutsShort PROVE IInv'
<1> USE DEF IInv
<1>1. /\ ep' = ep /\ isr' = isr /\ owed' = owed /\ host.stage = "data"
      /\ host'.req = host.req /\ host'.stage = "status" /\ host'.moved = host.moved
      /\ ~host'.dup /\ host'.cut /\ host'.outcome = host.outcome
  BY DEF HostCutsShort, TypeOK
<1>2. TypeOK'
  BY DEF HostCutsShort, TypeOK
<1>3. EventStands' /\ SetupIsClean' /\ ResetIsClean' /\ HostSane' /\ StateSane' /\ OwedInv'
  BY <1>1 DEF EventStands, SetupIsClean, ResetIsClean, HostSane, StateSane, OwedInv, Idle,
       Current
<1>4. ServesHost' /\ DataOutInv' /\ WaitInZlpInv' /\ DataInInv' /\ WaitOutZlpInv' /\ StallInv'
  BY <1>1 DEF ServesHost, DataOutInv, WaitInZlpInv, DataInInv, WaitOutZlpInv, StallInv, Idle,
       Current
<1> QED BY <1>2, <1>3, <1>4

LEMMA GivesUpKeepsIInv == ASSUME IInv, HostGivesUp PROVE IInv'
<1> USE DEF IInv
<1>1. ep' = ep /\ isr' = isr /\ ~Idle
  BY DEF HostGivesUp
<1>2. /\ host'.req = host.req /\ host'.stage = "idle" /\ host'.moved = host.moved
      /\ ~host'.dup /\ host'.cut = host.cut /\ host'.outcome = "abandoned"
  BY DEF HostGivesUp, Ends, TypeOK
<1>3. IF host.req.calls /\ ~ep.setup
      THEN owed'.outcome = "abandoned" /\ owed'.units = host.moved
      ELSE owed' = owed
  BY DEF HostGivesUp, Ends, Over, Known
<1>4. TypeOK'
  BY DEF HostGivesUp, Ends, TypeOK, Outcomes, Over, Known
<1>5. EventStands' /\ SetupIsClean' /\ ResetIsClean' /\ HostSane' /\ StateSane'
  BY <1>1, <1>2 DEF EventStands, SetupIsClean, ResetIsClean, HostSane, StateSane, Idle, NONE
<1>6. ServesHost' /\ DataOutInv' /\ WaitInZlpInv' /\ DataInInv' /\ WaitOutZlpInv' /\ StallInv'
  BY <1>1, <1>2 DEF ServesHost, DataOutInv, WaitInZlpInv, DataInInv, WaitOutZlpInv, StallInv,
       Idle, Current
<1>7. OwedInv'
  BY <1>1, <1>2, <1>3 DEF OwedInv, Idle, Current, NONE, ResetIsClean, StateSane, ServesHost
<1> QED BY <1>4, <1>5, <1>6, <1>7

LEMMA BusResetKeepsIInv == ASSUME IInv, BusReset PROVE IInv'
<1> USE DEF IInv
<1>1. /\ isr = NONE /\ isr' = isr /\ ~ep.reset
      /\ ep'.reset /\ ~ep'.setup /\ ep'.out = EMPTY /\ ~ep'.sentIE
      /\ ~ep'.nakIn /\ ~ep'.nakOut
      /\ ep'.state = ep.state /\ ep'.callback = ep.callback /\ ep'.cnt = ep.cnt
  BY DEF BusReset, TypeOK, ControlEndpoint
<1>2. /\ host'.req = host.req /\ host'.stage = "idle" /\ host'.moved = host.moved
      /\ ~host'.dup /\ host'.cut = host.cut /\ host'.outcome = "reset"
  BY DEF BusReset, Ends, TypeOK
<1>3. IF host.req.calls /\ ~ep.setup /\ ~Idle
      THEN owed'.outcome = "reset" /\ owed'.units = host.moved
      ELSE owed' = owed
  BY DEF BusReset, Ends, Over, Known
<1>4. TypeOK'
  <2>1. ep' \in ControlEndpoint
    <3> DEFINE half == [ep EXCEPT !.setup = FALSE, !.out = EMPTY, !.tx = EMPTY, !.sent = FALSE,
                                  !.nakIn = FALSE, !.nakOut = FALSE]
    <3>1. half \in ControlEndpoint
      BY DEF TypeOK, ControlEndpoint, Bank
    <3>2. ep' = [half EXCEPT !.stall = FALSE, !.sentIE = FALSE, !.nakInIE = FALSE,
                             !.nakOutIE = FALSE, !.reset = TRUE]
      BY DEF BusReset
    <3> HIDE DEF half
    <3> QED BY <3>1, <3>2 DEF ControlEndpoint
  <2> QED BY <2>1 DEF BusReset, Ends, TypeOK, Outcomes, Over, Known
<1>5. EventStands' /\ SetupIsClean' /\ ResetIsClean' /\ HostSane' /\ StateSane'
  BY <1>1, <1>2 DEF EventStands, SetupIsClean, ResetIsClean, HostSane, StateSane, Idle, NONE
<1>6. ServesHost' /\ DataOutInv' /\ WaitInZlpInv' /\ DataInInv' /\ WaitOutZlpInv' /\ StallInv'
  BY <1>1 DEF ServesHost, DataOutInv, WaitInZlpInv, DataInInv, WaitOutZlpInv, StallInv, Current
<1>7. OwedInv'
  BY <1>1, <1>2, <1>3 DEF OwedInv, Idle, Current, NONE, StateSane, ServesHost
<1> QED BY <1>4, <1>5, <1>6, <1>7

---------------------------------------------------------------------------
(* The interrupt.                                                          *)

LEMMA InterruptKeepsIInv == ASSUME IInv, Interrupt PROVE IInv'
<1> USE DEF IInv
<1>1. /\ SameDriver /\ ep'.setup = ep.setup /\ ep'.stall = ep.stall /\ ep'.tx = ep.tx
      /\ ep'.out = ep.out /\ ep'.sent = ep.sent /\ ep'.reset = ep.reset
      /\ ep'.nakIn = ep.nakIn /\ ep'.nakOut = ep.nakOut
      /\ host' = host /\ owed' = owed /\ isr' = Event
  BY DEF Interrupt, SameDriver, TypeOK, ControlEndpoint
<1>2. TypeOK'
  BY DEF Interrupt, Event, Events, TypeOK, ControlEndpoint
<1>3. EventStands'
  <2>1. ep.setup \/ (ep.sent /\ ep.sentIE) \/ ep.out # EMPTY \/ ep.nakOut \/ ep.nakIn \/ ep.reset
    BY DEF Interrupt, Raised
  <2>2. ep.reset => Event = "reset"
    BY DEF Event, ResetIsClean
  <2> QED BY <1>1, <2>1, <2>2 DEF EventStands, SameDriver, Event, NONE
<1>4. SetupIsClean' /\ ResetIsClean' /\ HostSane' /\ StateSane' /\ OwedInv'
  BY <1>1 DEF SetupIsClean, ResetIsClean, HostSane, StateSane, OwedInv, Idle, Current,
       SameDriver
<1>5. ServesHost' /\ DataOutInv' /\ WaitInZlpInv' /\ DataInInv' /\ WaitOutZlpInv' /\ StallInv'
  BY <1>1 DEF ServesHost, DataOutInv, WaitInZlpInv, DataInInv, WaitOutZlpInv, StallInv, Idle,
       Current, SameDriver
<1> QED BY <1>2, <1>3, <1>4, <1>5

---------------------------------------------------------------------------
(* The driver's routines, on any endpoint they may be given.               *)

LEMMA CtrlInit ==
  ASSUME NEW s \in ControlEndpoint
  PROVE  /\ ctrl_init(s) \in ControlEndpoint
         /\ ctrl_init(s).out = EMPTY /\ ~ctrl_init(s).sentIE /\ ~ctrl_init(s).callback
         /\ ctrl_init(s).state = "SETUP" /\ ctrl_init(s).runs = s.runs
         /\ ctrl_init(s).setup = s.setup /\ ctrl_init(s).reset = s.reset
         /\ ctrl_init(s).tx = s.tx /\ ctrl_init(s).stall = s.stall
         /\ ctrl_init(s).nakIn = s.nakIn /\ ctrl_init(s).nakOut = s.nakOut
BY DEF ctrl_init, ControlEndpoint, Bank, States

LEMMA CtrlEndOfRequest ==
  ASSUME NEW s \in ControlEndpoint
  PROVE  /\ ctrl_endofrequest(s) \in ControlEndpoint
         /\ ctrl_endofrequest(s).runs = (IF s.callback THEN 1 - s.runs ELSE s.runs)
         /\ ctrl_endofrequest(s) = [s EXCEPT !.runs = ctrl_endofrequest(s).runs]
BY DEF ctrl_endofrequest, ControlEndpoint

LEMMA CtrlSendZlpIn ==
  ASSUME NEW s \in ControlEndpoint
  PROVE  /\ ctrl_send_zlp_in(s) \in ControlEndpoint
         /\ ctrl_send_zlp_in(s).state = "WAIT_IN_ZLP" /\ ~ctrl_send_zlp_in(s).sent
         /\ ctrl_send_zlp_in(s).tx = 0 /\ ~ctrl_send_zlp_in(s).nakOut
         /\ ctrl_send_zlp_in(s).out = s.out /\ ctrl_send_zlp_in(s).stall = s.stall
         /\ ctrl_send_zlp_in(s).setup = s.setup /\ ctrl_send_zlp_in(s).reset = s.reset
         /\ ctrl_send_zlp_in(s).callback = s.callback /\ ctrl_send_zlp_in(s).runs = s.runs
         /\ ctrl_send_zlp_in(s).wLength = s.wLength /\ ctrl_send_zlp_in(s).cnt = s.cnt
<1>1. ctrl_send_zlp_in(s) \in ControlEndpoint
  <2>0. 0 \in Bank
    BY UsbControlAssumption DEF Bank
  <2> DEFINE half == [s EXCEPT !.state = "WAIT_IN_ZLP", !.sent = FALSE, !.tx = 0]
  <2>1. half \in ControlEndpoint
    BY <2>0 DEF ControlEndpoint, States
  <2>2. ctrl_send_zlp_in(s) = [half EXCEPT !.sentIE = TRUE, !.nakOut = FALSE, !.nakOutIE = TRUE]
    BY DEF ctrl_send_zlp_in
  <2> HIDE DEF half
  <2> QED BY <2>1, <2>2 DEF ControlEndpoint
<1> QED BY <1>1 DEF ctrl_send_zlp_in, ControlEndpoint

LEMMA CtrlSendZlpOut ==
  ASSUME NEW s \in ControlEndpoint
  PROVE  /\ ctrl_send_zlp_out(s) \in ControlEndpoint
         /\ ctrl_send_zlp_out(s) = [s EXCEPT !.state = "WAIT_OUT_ZLP", !.nakIn = FALSE,
                                             !.nakInIE = TRUE]
BY DEF ctrl_send_zlp_out, ControlEndpoint, States

LEMMA CtrlSendPacket ==
  ASSUME NEW s \in ControlEndpoint, s.cnt <= s.size, s.out = EMPTY
  PROVE  /\ SendPacket(s) \in ControlEndpoint
         /\ SendPacket(s).tx = Minimum(s.size - s.cnt, EpSize)
         /\ SendPacket(s).cnt = s.cnt + SendPacket(s).tx
         /\ SendPacket(s).short <=> SendPacket(s).tx < EpSize
         /\ ~SendPacket(s).sent /\ SendPacket(s).sentIE
         /\ SendPacket(s).state = s.state /\ SendPacket(s).callback = s.callback
         /\ SendPacket(s).runs = s.runs /\ SendPacket(s).stall = s.stall
         /\ SendPacket(s).setup = s.setup /\ SendPacket(s).reset = s.reset
         /\ SendPacket(s).nakIn = s.nakIn /\ SendPacket(s).nakOut = s.nakOut
         /\ SendPacket(s).out = s.out /\ SendPacket(s).wLength = s.wLength
         /\ SendPacket(s).size = s.size /\ SendPacket(s).prev = s.prev
<1> DEFINE n == Minimum(s.size - s.cnt, EpSize)
<1>1. n \in Bank /\ n \in Nat /\ (n < EpSize) \in BOOLEAN
  BY UsbControlAssumption DEF Minimum, ControlEndpoint, Bank
<1>2. SendPacket(s) = [s EXCEPT !.short = n < EpSize, !.cnt = @ + n, !.sent = FALSE, !.tx = n,
                                !.sentIE = TRUE]
  BY DEF SendPacket
<1> HIDE DEF n
<1>3. SendPacket(s) \in ControlEndpoint
  <2>1. s.cnt + n \in Nat
    BY <1>1 DEF ControlEndpoint
  <2> QED BY <1>1, <1>2, <2>1 DEF ControlEndpoint
<1>4. SendPacket(s).short = (n < EpSize) /\ SendPacket(s).tx = n
  BY <1>1, <1>2 DEF ControlEndpoint
<1>5. SendPacket(s).short <=> SendPacket(s).tx < EpSize
  BY <1>4
<1> QED BY <1>1, <1>2, <1>3, <1>5 DEF n, ControlEndpoint

\* In the data stage of an IN request either a packet goes out or the status
\* stage begins: because all is sent, or because its ZLP is there already.
LEMMA CtrlInSent ==
  ASSUME NEW s \in ControlEndpoint, s.state = "DATA_IN", s.cnt <= s.size,
         NEW r, r = ctrl_in_sent(s)
  PROVE  /\ r \in ControlEndpoint
         /\ r.callback = s.callback /\ r.runs = s.runs /\ r.setup = s.setup
         /\ r.reset = s.reset /\ r.out = s.out /\ r.wLength = s.wLength /\ r.size = s.size
         /\ r.stall = s.stall /\ r.nakOut = s.nakOut
         /\ \/ /\ r.state = "WAIT_OUT_ZLP" /\ r.tx = s.tx /\ ~r.sentIE
               /\ \/ s.out # EMPTY
                  \/ ~r.nakIn /\ s.cnt = s.size /\ (s.short \/ s.wLength = s.prev + s.cnt)
            \/ /\ r.state = "DATA_IN" /\ s.out = EMPTY /\ ~r.sent /\ r.sentIE
               /\ r.tx = Minimum(s.size - s.cnt, EpSize) /\ r.cnt = s.cnt + r.tx
               /\ r.short <=> r.tx < EpSize
               /\ r.prev = (IF s.cnt = s.size THEN s.prev + s.cnt ELSE s.prev)
               /\ s.cnt = s.size => ~s.short /\ s.wLength # s.prev + s.cnt
<1> DEFINE u == [s EXCEPT !.sentIE = FALSE]
           t == [u EXCEPT !.prev = @ + u.cnt]
<1>1. /\ u \in ControlEndpoint /\ u.state = s.state /\ u.callback = s.callback
      /\ u.runs = s.runs /\ u.wLength = s.wLength /\ u.size = s.size /\ u.cnt = s.cnt
      /\ u.prev = s.prev /\ u.short = s.short /\ ~u.sentIE /\ u.setup = s.setup
      /\ u.stall = s.stall /\ u.tx = s.tx /\ u.out = s.out /\ u.reset = s.reset
      /\ u.nakOut = s.nakOut
  BY DEF ControlEndpoint
<1> HIDE DEF u
<1>2. /\ t \in ControlEndpoint /\ t.state = s.state /\ t.callback = s.callback
      /\ t.runs = s.runs /\ t.wLength = s.wLength /\ t.size = s.size /\ t.cnt = s.cnt
      /\ t.prev = s.prev + s.cnt /\ t.short = s.short /\ ~t.sentIE /\ t.setup = s.setup
      /\ t.stall = s.stall /\ t.tx = s.tx /\ t.out = s.out /\ t.reset = s.reset
      /\ t.nakOut = s.nakOut
  BY <1>1 DEF ControlEndpoint
<1> HIDE DEF t
<1>3. r = IF s.size # s.cnt THEN SendPacket(u)
          ELSE IF s.wLength = s.prev + s.cnt \/ s.short THEN ctrl_send_zlp_out(t)
          ELSE SendPacket(t)
  BY <1>1, <1>2 DEF ctrl_in_sent, u, t, AllSent
<1>4. CASE s.out = EMPTY /\ s.size # s.cnt
  <2>1. r = SendPacket(u) /\ u.cnt <= u.size /\ u.out = EMPTY
    BY <1>1, <1>3, <1>4
  <2> QED BY <1>1, <1>4, <2>1, CtrlSendPacket
<1>5. CASE s.out # EMPTY /\ s.size # s.cnt
  <2> DEFINE b == Minimum(s.size - s.cnt, EpSize) < EpSize
  <2>1. b \in BOOLEAN
    OBVIOUS
  <2>2. r = [u EXCEPT !.short = b, !.state = "WAIT_OUT_ZLP"]
    BY <1>1, <1>3, <1>5 DEF SendPacket
  <2> HIDE DEF b
  <2>3. r \in ControlEndpoint
    BY <1>1, <1>5, <2>1, <2>2 DEF ControlEndpoint, States
  <2>4. /\ r.state = "WAIT_OUT_ZLP" /\ r.tx = u.tx /\ ~r.sentIE /\ r.callback = u.callback
        /\ r.runs = u.runs /\ r.setup = u.setup /\ r.reset = u.reset /\ r.out = u.out
        /\ r.wLength = u.wLength /\ r.size = u.size /\ r.stall = u.stall
        /\ r.nakOut = u.nakOut
    BY <1>1, <1>5, <2>2 DEF ControlEndpoint
  <2> QED BY <1>1, <1>5, <2>3, <2>4
<1>6. CASE s.size = s.cnt /\ (s.wLength = s.prev + s.cnt \/ s.short)
  <2>1. /\ r \in ControlEndpoint
        /\ r = [t EXCEPT !.state = "WAIT_OUT_ZLP", !.nakIn = FALSE, !.nakInIE = TRUE]
    BY <1>2, <1>3, <1>6, CtrlSendZlpOut
  <2>2. /\ r.state = "WAIT_OUT_ZLP" /\ r.tx = t.tx /\ ~r.sentIE /\ r.callback = t.callback
        /\ r.runs = t.runs /\ r.setup = t.setup /\ r.reset = t.reset /\ r.out = t.out
        /\ r.wLength = t.wLength /\ r.size = t.size /\ r.stall = t.stall
        /\ r.nakOut = t.nakOut /\ ~r.nakIn
    BY <1>2, <2>1 DEF ControlEndpoint
  <2> QED BY <1>2, <1>6, <2>1, <2>2
<1>7. CASE s.out = EMPTY /\ s.size = s.cnt /\ ~(s.wLength = s.prev + s.cnt \/ s.short)
  BY <1>2, <1>3, <1>7, CtrlSendPacket DEF ControlEndpoint
<1>8. CASE s.out # EMPTY /\ s.size = s.cnt /\ ~(s.wLength = s.prev + s.cnt \/ s.short)
  <2> DEFINE b == Minimum(s.size - s.cnt, EpSize) < EpSize
  <2>1. b \in BOOLEAN
    OBVIOUS
  <2>2. r = [t EXCEPT !.short = b, !.state = "WAIT_OUT_ZLP"]
    BY <1>2, <1>3, <1>8 DEF SendPacket
  <2> HIDE DEF b
  <2>3. r \in ControlEndpoint
    BY <1>2, <1>8, <2>1, <2>2 DEF ControlEndpoint, States
  <2>4. /\ r.state = "WAIT_OUT_ZLP" /\ r.tx = t.tx /\ ~r.sentIE /\ r.callback = t.callback
        /\ r.runs = t.runs /\ r.setup = t.setup /\ r.reset = t.reset /\ r.out = t.out
        /\ r.wLength = t.wLength /\ r.size = t.size /\ r.stall = t.stall
        /\ r.nakOut = t.nakOut
    BY <1>2, <1>8, <2>2 DEF ControlEndpoint
  <2> QED BY <1>2, <1>8, <2>3, <2>4
<1> QED BY <1>4, <1>5, <1>6, <1>7, <1>8

---------------------------------------------------------------------------
(* The events.                                                             *)

LEMMA ResetHandledKeepsIInv == ASSUME IInv, Handle, isr = "reset" PROVE IInv' /\ Dropped
<1> USE DEF IInv
<1> DEFINE s == [ep EXCEPT !.reset = FALSE]
<1>1. /\ ep' = ctrl_init(s) /\ isr' = NONE /\ host' = host /\ owed' = Nothing
      /\ ~ep.setup /\ Idle
  BY DEF Handle, Handler, reset_ep_ctrl, EventStands, ResetIsClean
<1>2. s \in ControlEndpoint /\ ~s.reset /\ ~s.setup /\ s.runs = ep.runs
  BY <1>1 DEF TypeOK, ControlEndpoint
<1> HIDE DEF s
<1>3. /\ ep' \in ControlEndpoint /\ ep'.out = EMPTY /\ ~ep'.sentIE /\ ~ep'.callback
      /\ ep'.state = "SETUP" /\ ~ep'.setup /\ ~ep'.reset /\ ep'.runs = ep.runs
  BY <1>1, <1>2, CtrlInit
<1>4. TypeOK'
  BY <1>1, <1>3 DEF TypeOK, Nothing
<1>5. EventStands' /\ SetupIsClean' /\ ResetIsClean' /\ HostSane' /\ StateSane' /\ OwedInv'
  BY <1>1, <1>3 DEF EventStands, SetupIsClean, ResetIsClean, HostSane, StateSane, OwedInv,
       Idle, Nothing, NONE
<1>6. ServesHost' /\ DataOutInv' /\ WaitInZlpInv' /\ DataInInv' /\ WaitOutZlpInv' /\ StallInv'
  BY <1>1, <1>3 DEF ServesHost, DataOutInv, WaitInZlpInv, DataInInv, WaitOutZlpInv, StallInv,
       Idle
<1> QED BY <1>4, <1>5, <1>6, <1>1, <1>3 DEF Dropped, EventStands

\* The NAK of an OUT token cannot find the driver waiting for the IN ZLP.
LEMMA NakOutHandledKeepsIInv == ASSUME IInv, Handle, isr = "nakOut" PROVE IInv' /\ Unheard
<1> USE DEF IInv
<1>1. Current /\ ep.nakOut
  BY DEF EventStands, Current, NONE
<1>2. ep' = [ep EXCEPT !.nakOut = FALSE]
  BY <1>1 DEF Handle, Handler, ctrl_overflow, WaitInZlpInv, TypeOK, ControlEndpoint
<1>3. /\ SameDriver /\ ep'.setup = ep.setup /\ ep'.stall = ep.stall /\ ep'.tx = ep.tx
      /\ ep'.out = ep.out /\ ep'.sent = ep.sent /\ ep'.reset = ep.reset
      /\ ep'.nakIn = ep.nakIn /\ ~ep'.nakOut
      /\ isr' = NONE /\ host' = host /\ owed' = owed
  BY <1>2 DEF Handle, SameDriver, TypeOK, ControlEndpoint
<1>4. TypeOK'
  BY <1>2, <1>3 DEF TypeOK, ControlEndpoint
<1>5. EventStands' /\ SetupIsClean' /\ ResetIsClean' /\ HostSane' /\ StateSane' /\ OwedInv'
  BY <1>1, <1>3 DEF EventStands, SetupIsClean, ResetIsClean, HostSane, StateSane, OwedInv,
       Idle, Current, SameDriver, NONE
<1>6. ServesHost' /\ DataOutInv' /\ WaitInZlpInv' /\ DataInInv' /\ WaitOutZlpInv' /\ StallInv'
  BY <1>3 DEF ServesHost, DataOutInv, WaitInZlpInv, DataInInv, WaitOutZlpInv, StallInv, Idle,
       Current, SameDriver
<1> QED BY <1>4, <1>5, <1>6, <1>3 DEF Unheard, SameDriver

\* The NAK of an IN token: the host has left the data stage of an OUT
\* request, or has asked an answered IN request for more than its payload.
LEMMA NakInHandledKeepsIInv == ASSUME IInv, Handle, isr = "nakIn" PROVE IInv' /\ Unheard
<1> USE DEF IInv
<1> DEFINE s == [ep EXCEPT !.nakIn = FALSE]
<1>1. Current /\ ep.nakIn
  BY DEF EventStands, Current, NONE
<1>2. ep' = ctrl_underflow(s) /\ isr' = NONE /\ host' = host
  BY DEF Handle, Handler
<1>3. /\ s \in ControlEndpoint /\ s.state = ep.state /\ s.callback = ep.callback
      /\ s.runs = ep.runs /\ s.wLength = ep.wLength /\ s.size = ep.size /\ s.cnt = ep.cnt
      /\ s.prev = ep.prev /\ s.short = ep.short /\ s.sentIE = ep.sentIE
      /\ s.setup = ep.setup /\ s.stall = ep.stall /\ s.tx = ep.tx
      /\ s.out = ep.out /\ s.sent = ep.sent /\ s.reset = ep.reset
      /\ ~s.nakIn /\ s.nakOut = ep.nakOut
  BY DEF TypeOK, ControlEndpoint
<1> HIDE DEF s
<1>4. /\ ep' \in ControlEndpoint /\ ep'.runs = ep.runs /\ ep'.callback = ep.callback
      /\ ep'.setup = ep.setup /\ ep'.reset = ep.reset /\ ep'.out = ep.out
      /\ ep'.wLength = ep.wLength /\ ep'.cnt = ep.cnt
  <2>1. [s EXCEPT !.stall = TRUE] \in ControlEndpoint
    BY <1>3 DEF ControlEndpoint
  <2> QED BY <1>2, <1>3, <2>1, CtrlSendZlpIn DEF ctrl_underflow, ControlEndpoint
<1>5. owed' = owed
  BY <1>4 DEF Handle
<1>6. TypeOK'
  BY <1>2, <1>4, <1>5 DEF TypeOK
<1>7. CASE ep.out = EMPTY /\ ep.state = "DATA_OUT"
  <2>1. ep' = ctrl_send_zlp_in(s)
    BY <1>2, <1>3, <1>7 DEF ctrl_underflow
  <2>2. /\ ep'.state = "WAIT_IN_ZLP" /\ ~ep'.sent /\ ep'.tx = 0 /\ ~ep'.nakOut
        /\ ep'.stall = ep.stall
    BY <1>3, <2>1, CtrlSendZlpIn
  <2>3. /\ ~host.req.isIn /\ host.req.ok /\ host.stage # "data" /\ host.moved = 0 /\ ~ep.stall
    BY <1>1, <1>7 DEF DataOutInv
  <2>4. EventStands' /\ SetupIsClean' /\ ResetIsClean' /\ HostSane' /\ StateSane' /\ OwedInv'
    BY <1>1, <1>2, <1>4, <1>5, <1>7, <2>2 DEF EventStands, SetupIsClean, ResetIsClean, HostSane,
         StateSane, OwedInv, Idle, Current, NONE
  <2>5. ServesHost' /\ DataOutInv' /\ WaitInZlpInv' /\ DataInInv' /\ WaitOutZlpInv' /\ StallInv'
    BY <1>1, <1>2, <1>4, <1>7, <2>2, <2>3 DEF ServesHost, DataOutInv, WaitInZlpInv, DataInInv,
         WaitOutZlpInv, StallInv, Idle, Current, EMPTY
  <2> QED BY <1>6, <2>4, <2>5, <1>4 DEF Unheard
<1>8. CASE ~(ep.out = EMPTY /\ ep.state = "DATA_OUT")
  <2>1. /\ SameDriver /\ ep'.tx = ep.tx /\ ep'.sent = ep.sent
        /\ ~ep'.nakIn /\ ep'.nakOut = ep.nakOut
        /\ ep'.stall = (ep.stall \/ (ep.out = EMPTY /\ ep.state = "WAIT_OUT_ZLP"))
    <3>1. ep' = s \/ ep' = [s EXCEPT !.stall = TRUE]
      BY <1>2, <1>3, <1>8 DEF ctrl_underflow
    <3>2. ep'.stall = (ep.stall \/ (ep.out = EMPTY /\ ep.state = "WAIT_OUT_ZLP"))
      BY <1>2, <1>3, <1>8 DEF ctrl_underflow, ControlEndpoint
    <3> QED BY <1>3, <3>1, <3>2 DEF SameDriver, ControlEndpoint
  <2>2. EventStands' /\ SetupIsClean' /\ ResetIsClean' /\ HostSane' /\ StateSane' /\ OwedInv'
    BY <1>1, <1>2, <1>4, <1>5, <2>1 DEF EventStands, SetupIsClean, ResetIsClean, HostSane,
         StateSane, OwedInv, Idle, Current, SameDriver, NONE
  <2>3. ServesHost' /\ DataOutInv' /\ WaitInZlpInv' /\ DataInInv' /\ StallInv'
    BY <1>1, <1>2, <1>4, <1>8, <2>1 DEF ServesHost, DataOutInv, WaitInZlpInv, DataInInv,
         StallInv, Idle, Current, SameDriver
  <2>4. WaitOutZlpInv'
    BY <1>1, <1>2, <1>4, <2>1 DEF WaitOutZlpInv, Idle, Current, SameDriver
  <2> QED BY <1>6, <2>2, <2>3, <2>4, <1>4 DEF Unheard
<1> QED BY <1>7, <1>8

\* The host has acknowledged the IN ZLP: the request is over.
LEMMA ZlpInSentKeepsIInv ==
  ASSUME IInv, Handle, isr = "in", ep.state = "WAIT_IN_ZLP" PROVE IInv' /\ Unregistered
<1> USE DEF IInv
<1> DEFINE s == [ep EXCEPT !.sentIE = FALSE]
<1>1. Current /\ ep.sent
  BY DEF EventStands, Current, NONE
<1>2. Idle
  BY <1>1 DEF WaitInZlpInv
<1>3. /\ s \in ControlEndpoint /\ s.state = ep.state /\ s.callback = ep.callback
      /\ s.runs = ep.runs /\ s.setup = ep.setup /\ s.reset = ep.reset
  BY DEF TypeOK, ControlEndpoint
<1>4. ep' = ctrl_init(ctrl_endofrequest(s)) /\ isr' = NONE /\ host' = host
  BY <1>3 DEF Handle, Handler, ctrl_in_sent
<1> HIDE DEF s
<1>5. /\ ep' \in ControlEndpoint /\ ep'.out = EMPTY /\ ~ep'.sentIE /\ ~ep'.callback
      /\ ep'.state = "SETUP" /\ ~ep'.setup /\ ~ep'.reset
      /\ ep'.runs = (IF ep.callback THEN 1 - ep.runs ELSE ep.runs)
  <2>1. /\ ctrl_endofrequest(s) \in ControlEndpoint
        /\ ctrl_endofrequest(s).runs = (IF ep.callback THEN 1 - ep.runs ELSE ep.runs)
        /\ ~ctrl_endofrequest(s).setup /\ ~ctrl_endofrequest(s).reset
    BY <1>1, <1>3, CtrlEndOfRequest DEF ControlEndpoint, Current
  <2> QED BY <1>4, <2>1, CtrlInit
<1>6. owed' = Nothing
  <2>1. CASE ep.callback
    <3>1. ep'.runs # ep.runs
      BY <1>5, <2>1 DEF TypeOK, ControlEndpoint
    <3> QED BY <3>1 DEF Handle
  <2>2. CASE ~ep.callback
    <3>1. owed.outcome = NONE /\ owed.units = 0
      BY <2>2 DEF OwedInv, TypeOK
    <3>2. owed = Nothing
      BY <3>1 DEF Nothing, TypeOK
    <3> QED BY <3>2 DEF Handle
  <2> QED BY <2>1, <2>2
<1>7. TypeOK'
  BY <1>4, <1>5, <1>6 DEF TypeOK, Nothing
<1>8. EventStands' /\ SetupIsClean' /\ ResetIsClean' /\ HostSane' /\ StateSane' /\ OwedInv'
  BY <1>4, <1>5, <1>6 DEF EventStands, SetupIsClean, ResetIsClean, HostSane, StateSane, OwedInv,
       Idle, Nothing, NONE
<1>9. ServesHost' /\ DataOutInv' /\ WaitInZlpInv' /\ DataInInv' /\ WaitOutZlpInv' /\ StallInv'
  BY <1>2, <1>4, <1>5 DEF ServesHost, DataOutInv, WaitInZlpInv, DataInInv, WaitOutZlpInv,
       StallInv, Idle
<1> QED BY <1>7, <1>8, <1>9, <1>1, <1>2, <1>5 DEF Unregistered, Current, TypeOK, ControlEndpoint

\* The host has acknowledged a packet of an IN request.
LEMMA PacketSentKeepsIInv ==
  ASSUME IInv, Handle, isr = "in", ep.state = "DATA_IN" PROVE IInv' /\ Unheard
<1> USE DEF IInv
<1>1. Current /\ ep.sent /\ ep.tx = EMPTY /\ ~ep.stall /\ ep.cnt <= ep.size
  BY DEF EventStands, Current, NONE, DataInInv
<1>2. ep' = ctrl_in_sent(ep) /\ isr' = NONE /\ host' = host
  BY DEF Handle, Handler
<1>3. /\ ep' \in ControlEndpoint
      /\ ep'.callback = ep.callback /\ ep'.runs = ep.runs /\ ep'.setup = ep.setup
      /\ ep'.reset = ep.reset /\ ep'.out = ep.out /\ ep'.wLength = ep.wLength
      /\ ep'.size = ep.size /\ ep'.stall = ep.stall
      /\ \/ /\ ep'.state = "WAIT_OUT_ZLP" /\ ep'.tx = ep.tx /\ ~ep'.sentIE
            /\ \/ ep.out # EMPTY
               \/ ~ep'.nakIn /\ ep.cnt = ep.size /\ (ep.short \/ ep.wLength = ep.prev + ep.cnt)
         \/ /\ ep'.state = "DATA_IN" /\ ep.out = EMPTY /\ ~ep'.sent /\ ep'.sentIE
            /\ ep'.tx = Minimum(ep.size - ep.cnt, EpSize) /\ ep'.cnt = ep.cnt + ep'.tx
            /\ ep'.short <=> ep'.tx < EpSize
            /\ ep'.prev = (IF ep.cnt = ep.size THEN ep.prev + ep.cnt ELSE ep.prev)
            /\ ep.cnt = ep.size => ~ep.short /\ ep.wLength # ep.prev + ep.cnt
  <2>1. ep \in ControlEndpoint
    BY DEF TypeOK
  <2> QED BY <1>1, <1>2, <2>1, CtrlInSent
<1>4. owed' = owed /\ ~ep.callback /\ owed.outcome = NONE
  BY <1>3 DEF Handle, StateSane, OwedInv, TypeOK
<1>5. /\ EpSize \in Nat \ {0} /\ ep.cnt \in Nat /\ ep.size \in Nat /\ ep.prev \in Nat
      /\ ep.wLength \in Nat /\ ep.short \in BOOLEAN /\ host.moved \in Nat
  BY UsbControlAssumption DEF TypeOK, ControlEndpoint
<1>6. TypeOK'
  BY <1>2, <1>3, <1>4 DEF TypeOK
<1>7. EventStands' /\ SetupIsClean' /\ ResetIsClean' /\ HostSane' /\ StateSane' /\ OwedInv'
  BY <1>1, <1>2, <1>3, <1>4 DEF EventStands, SetupIsClean, ResetIsClean, HostSane, StateSane,
       OwedInv, Idle, Current, NONE
<1>8. ServesHost' /\ DataOutInv' /\ WaitInZlpInv' /\ StallInv'
  BY <1>1, <1>2, <1>3 DEF ServesHost, DataOutInv, WaitInZlpInv, StallInv, Idle, Current
<1>9. WaitOutZlpInv'
  BY <1>1, <1>2, <1>3, <1>5 DEF WaitOutZlpInv, DataInInv, Idle, Current
<1>10. DataInInv'
  <2>1. SUFFICES ASSUME ep'.state = "DATA_IN" PROVE DataInInv'
    BY DEF DataInInv
  <2>2. ep'.tx \in 0 .. EpSize /\ ep'.tx <= ep.size - ep.cnt
        /\ (ep'.tx < EpSize => ep'.cnt = ep.size)
    BY <1>1, <1>3, <1>5, <2>1 DEF Minimum
  <2>3. ep'.prev = 0 \/ (ep'.prev = ep'.size /\ ep'.cnt = ep'.size /\ ep'.short)
    <3>1. CASE ep.cnt = ep.size
      <4>1. ep.prev = 0
        BY <1>1, <1>3, <2>1, <3>1 DEF DataInInv
      <4>2. ep'.tx = 0
        BY <1>3, <1>5, <2>1, <2>2, <3>1
      <4> QED BY <1>3, <1>5, <2>1, <3>1, <4>1, <4>2
    <3>2. CASE ep.cnt # ep.size
      BY <1>1, <1>3, <1>5, <2>1, <3>2 DEF DataInInv
    <3> QED BY <3>1, <3>2
  <2> QED BY <1>1, <1>2, <1>3, <1>5, <2>1, <2>2, <2>3 DEF DataInInv, Idle, Current, EMPTY
<1> QED BY <1>6, <1>7, <1>8, <1>9, <1>10, <1>3 DEF Unheard

\* The host's OUT ZLP ends an IN request, noticed before the last packet or not.
LEMMA ZlpOutReceivedKeepsIInv ==
  ASSUME IInv, Handle, isr = "out", ep.state # "DATA_OUT" PROVE IInv' /\ Unheard
<1> USE DEF IInv
<1>1. Current /\ ep.out # EMPTY
  BY DEF EventStands, Current, NONE
<1>2. ep.state \in {"DATA_IN", "WAIT_OUT_ZLP"} /\ Idle /\ ~ep.callback /\ owed.outcome = NONE
  BY <1>1 DEF StateSane, DataInInv, WaitOutZlpInv, OwedInv, TypeOK, ControlEndpoint, States
<1>3. ep' = ctrl_init(ep) /\ isr' = NONE /\ host' = host
  BY <1>2 DEF Handle, Handler, ctrl_out_received, OutEndsRequest, ctrl_endofrequest
<1>4. /\ ep' \in ControlEndpoint /\ ep'.out = EMPTY /\ ~ep'.sentIE /\ ~ep'.callback
      /\ ep'.state = "SETUP" /\ ~ep'.setup /\ ~ep'.reset /\ ep'.runs = ep.runs
  <2>1. ep \in ControlEndpoint /\ ~ep.setup /\ ~ep.reset
    BY <1>1 DEF TypeOK, Current
  <2> QED BY <1>3, <2>1, CtrlInit
<1>5. owed' = owed /\ owed.units = 0
  BY <1>2, <1>4 DEF Handle, OwedInv
<1>6. TypeOK'
  BY <1>3, <1>4, <1>5 DEF TypeOK
<1>7. EventStands' /\ SetupIsClean' /\ ResetIsClean' /\ HostSane' /\ StateSane' /\ OwedInv'
  BY <1>2, <1>3, <1>4, <1>5 DEF EventStands, SetupIsClean, ResetIsClean, HostSane, StateSane,
       OwedInv, Idle, NONE
<1>8. ServesHost' /\ DataOutInv' /\ WaitInZlpInv' /\ DataInInv' /\ WaitOutZlpInv' /\ StallInv'
  BY <1>2, <1>3, <1>4 DEF ServesHost, DataOutInv, WaitInZlpInv, DataInInv, WaitOutZlpInv,
       StallInv, Idle
<1> QED BY <1>6, <1>7, <1>8, <1>1, <1>2, <1>4 DEF Unheard, Current, TypeOK, ControlEndpoint

\* A packet of an OUT request: all the host sends, or more than the buffer holds.
LEMMA PacketReceivedKeepsIInv ==
  ASSUME IInv, Handle, isr = "out", ep.state = "DATA_OUT" PROVE IInv' /\ Unheard
<1> USE DEF IInv
<1> DEFINE t == [ep EXCEPT !.cnt = ep.out, !.out = EMPTY]
           z == [t EXCEPT !.size = t.cnt]
<1>1. /\ Current /\ ep.out # EMPTY /\ host.moved = ep.out /\ ep.out = ep.size
      /\ ~host.req.isIn /\ host.req.ok /\ ep.size = host.req.size /\ ep.cnt = 0
      /\ ep.prev = 0 /\ ep.tx = EMPTY /\ ~ep.stall
      /\ host.stage = "data" => host.moved < ep.wLength
  BY DEF EventStands, Current, NONE, DataOutInv
<1>2. ep.out \in 0 .. EpSize /\ EpSize \in Nat \ {0} /\ ep \in ControlEndpoint
  BY <1>1, UsbControlAssumption DEF TypeOK, ControlEndpoint, Bank, EMPTY
<1>3. ep.wLength = host.req.wLength /\ host.req.size = Minimum(ep.wLength, EpSize)
      /\ ep.wLength \in Nat
  BY <1>1, UsbControlAssumption DEF ServesHost, TypeOK, ControlEndpoint
<1>4. /\ t \in ControlEndpoint /\ t.out = EMPTY /\ t.cnt = ep.out /\ t.state = ep.state
      /\ t.callback = ep.callback /\ t.runs = ep.runs /\ t.wLength = ep.wLength
      /\ t.size = ep.size /\ t.setup = ep.setup /\ t.reset = ep.reset /\ t.tx = EMPTY
      /\ t.stall = ep.stall /\ t.prev = ep.prev /\ t.sentIE = ep.sentIE
  BY <1>1, <1>2 DEF ControlEndpoint, Bank
<1>5. isr' = NONE /\ host' = host /\ ep' = ctrl_out_received(ep)
  BY DEF Handle, Handler
<1>6. /\ Minimum(ep.out, ep.size - ep.cnt) = ep.out
      /\ [ep EXCEPT !.cnt = @ + ep.out, !.out = EMPTY] = t
  <2>1. 0 + ep.out = ep.out /\ ep.size - 0 = ep.size
    BY <1>1, <1>2
  <2> QED BY <1>1, <2>1 DEF Minimum
<1> HIDE DEF t
<1>7. CASE ep.out # EpSize \/ ep.wLength <= ep.out
  <2>1. z \in ControlEndpoint /\ z.out = EMPTY /\ z.cnt = ep.out
        /\ z.callback = ep.callback /\ z.runs = ep.runs /\ z.wLength = ep.wLength
        /\ z.setup = ep.setup /\ z.reset = ep.reset /\ z.stall = ep.stall
    BY <1>4 DEF ControlEndpoint
  <2>2. ep' = ctrl_send_zlp_in(z)
    <3>1. ep.out # EpSize \/ ep.wLength <= ep.prev + t.cnt
      BY <1>1, <1>2, <1>4, <1>7
    <3> QED BY <1>5, <1>6, <3>1 DEF ctrl_out_received
  <2> HIDE DEF z
  <2>3. /\ ep' \in ControlEndpoint
        /\ ep'.state = "WAIT_IN_ZLP" /\ ~ep'.sent /\ ep'.tx = 0 /\ ~ep'.nakOut
        /\ ep'.out = EMPTY /\ ep'.stall = ep.stall /\ ep'.setup = ep.setup
        /\ ep'.reset = ep.reset /\ ep'.callback = ep.callback /\ ep'.runs = ep.runs
        /\ ep'.wLength = ep.wLength /\ ep'.cnt = ep.out
    BY <2>1, <2>2, CtrlSendZlpIn
  <2>4. owed' = owed
    BY <2>3 DEF Handle
  <2>5. host.stage # "data"
    BY <1>1, <1>2, <1>3, <1>7 DEF Minimum
  <2>6. TypeOK'
    BY <1>5, <2>3, <2>4 DEF TypeOK
  <2>7. EventStands' /\ SetupIsClean' /\ ResetIsClean' /\ HostSane' /\ StateSane' /\ OwedInv'
    BY <1>1, <1>5, <2>3, <2>4 DEF EventStands, SetupIsClean, ResetIsClean, HostSane,
         StateSane, OwedInv, Idle, Current, NONE
  <2>8. ServesHost' /\ DataOutInv' /\ WaitInZlpInv' /\ DataInInv' /\ WaitOutZlpInv' /\ StallInv'
    BY <1>1, <1>5, <2>3, <2>5 DEF ServesHost, DataOutInv, WaitInZlpInv, DataInInv,
         WaitOutZlpInv, StallInv, Idle, Current, EMPTY
  <2> QED BY <2>6, <2>7, <2>8, <2>3 DEF Unheard
<1>8. CASE ~(ep.out # EpSize \/ ep.wLength <= ep.out)
  <2>1. ep' = ctrl_stall_data(t)
    <3>1. ~(ep.out # EpSize \/ ep.wLength <= ep.prev + t.cnt) /\ t.size = t.cnt
      BY <1>1, <1>2, <1>4, <1>8
    <3> QED BY <1>5, <1>6, <3>1 DEF ctrl_out_received
  <2>2. /\ ep' \in ControlEndpoint /\ ep'.state = "STALL_REQ" /\ ep'.stall /\ ep'.out = EMPTY
        /\ ep'.tx = EMPTY /\ ep'.setup = ep.setup /\ ep'.reset = ep.reset
        /\ ep'.callback = ep.callback /\ ep'.runs = ep.runs /\ ep'.wLength = ep.wLength
        /\ ep'.sentIE = ep.sentIE
    BY <1>4, <2>1 DEF ctrl_stall_data, ControlEndpoint, States
  <2>3. owed' = owed
    BY <2>2 DEF Handle
  <2>4. ~Fits(host.req)
    BY <1>1, <1>2, <1>3, <1>8 DEF Fits
  <2>5. TypeOK'
    BY <1>5, <2>2, <2>3 DEF TypeOK
  <2>6. EventStands' /\ SetupIsClean' /\ ResetIsClean' /\ HostSane' /\ StateSane' /\ OwedInv'
    BY <1>1, <1>5, <2>2, <2>3 DEF EventStands, SetupIsClean, ResetIsClean, HostSane,
         StateSane, OwedInv, Idle, Current, NONE
  <2>7. ServesHost' /\ DataOutInv' /\ WaitInZlpInv' /\ DataInInv' /\ WaitOutZlpInv' /\ StallInv'
    BY <1>1, <1>5, <2>2, <2>4 DEF ServesHost, DataOutInv, WaitInZlpInv, DataInInv,
         WaitOutZlpInv, StallInv, Idle, Current
  <2> QED BY <2>5, <2>6, <2>7, <2>2 DEF Unheard
<1> QED BY <1>7, <1>8

\* A SETUP finds the endpoint clean, whatever became of the last request.
LEMMA LastRequestEnds ==
  ASSUME IInv, ep.setup, NEW s, s = EndLastRequest(ep)
  PROVE  /\ s \in ControlEndpoint /\ s.state = "SETUP" /\ s.out = EMPTY
         /\ ~s.sentIE /\ ~s.callback /\ s.setup /\ ~s.reset
         /\ s.tx = EMPTY /\ ~s.stall /\ s.nakIn = ep.nakIn /\ s.nakOut = ep.nakOut
         /\ s.runs = (IF ep.callback THEN 1 - ep.runs ELSE ep.runs)
<1> USE DEF IInv
<1>1. /\ ep \in ControlEndpoint /\ ep.tx = EMPTY /\ ~ep.stall /\ ~ep.reset
  BY DEF TypeOK, SetupIsClean
<1>2. CASE ep.state = "SETUP"
  BY <1>1, <1>2 DEF EndLastRequest, StateSane, ControlEndpoint
<1>3. CASE ep.state # "SETUP"
  <2> DEFINE u == ctrl_endofrequest(ep)
  <2>1. /\ u \in ControlEndpoint /\ u.runs = (IF ep.callback THEN 1 - ep.runs ELSE ep.runs)
        /\ u.setup = ep.setup /\ u.reset = ep.reset /\ u.tx = ep.tx /\ u.stall = ep.stall
        /\ u.nakIn = ep.nakIn /\ u.nakOut = ep.nakOut
    <3>1. u = [ep EXCEPT !.runs = u.runs]
      BY <1>1, CtrlEndOfRequest
    <3> HIDE DEF u
    <3>2. /\ u.setup = ep.setup /\ u.reset = ep.reset /\ u.tx = ep.tx /\ u.stall = ep.stall
          /\ u.nakIn = ep.nakIn /\ u.nakOut = ep.nakOut
      BY <1>1, <3>1 DEF ControlEndpoint
    <3> QED BY <1>1, <3>2, CtrlEndOfRequest DEF u
  <2>2. s = ctrl_init(u)
    BY <1>3 DEF EndLastRequest
  <2> HIDE DEF u
  <2> QED BY <1>1, <2>1, <2>2, CtrlInit
<1> QED BY <1>2, <1>3

\* What the driver has made of the SETUP, whichever way it answers.
SetupTaken ==
  /\ isr' = NONE /\ host' = host
  /\ ep' \in ControlEndpoint /\ ~ep'.setup /\ ~ep'.reset /\ ep'.out = EMPTY
  /\ ep'.wLength = host.req.wLength /\ ep'.callback = host.req.calls
  /\ ep'.runs = (IF ep.callback THEN 1 - ep.runs ELSE ep.runs)
  /\ owed' = IF Idle /\ host.req.calls THEN Known(host.outcome) ELSE Nothing
  /\ host.moved = 0 /\ ~host.dup /\ (Idle => host.outcome = "abandoned")

LEMMA SetupAnswered ==
  ASSUME IInv, Handle, isr = "setup"
  PROVE  /\ SetupTaken
         /\ CASE ~host.req.ok ->
                   ep'.state = "STALL_REQ" /\ ep'.stall /\ ep'.tx = EMPTY /\ ~ep'.sentIE
              [] host.req.ok /\ ~host.req.isIn /\ host.req.wLength = 0 ->
                   /\ ep'.state = "WAIT_IN_ZLP" /\ ~ep'.nakOut /\ ~ep'.stall
                   /\ ep'.tx = 0 /\ ~ep'.sent
              [] host.req.ok /\ ~host.req.isIn /\ host.req.wLength # 0 ->
                   /\ ep'.state = "DATA_OUT" /\ ep'.size = host.req.size /\ ~ep'.nakIn
                   /\ ep'.cnt = 0 /\ ep'.prev = 0 /\ ep'.tx = EMPTY /\ ~ep'.stall /\ ~ep'.sentIE
              [] host.req.ok /\ host.req.isIn ->
                   /\ ~ep'.stall /\ ep'.size = host.req.size
                   /\ \/ /\ ep'.state = "WAIT_OUT_ZLP" /\ ep'.tx = EMPTY /\ ~ep'.sentIE
                         /\ ~ep'.nakIn /\ host.req.size = 0
                      \/ /\ ep'.state = "DATA_IN" /\ ~ep'.sent /\ ep'.sentIE
                         /\ ep'.tx = Minimum(host.req.size, EpSize) /\ ep'.cnt = ep'.tx
                         /\ ep'.short <=> ep'.tx < EpSize
                         /\ ep'.prev = 0
<1> DEFINE r == host.req
           s == EndLastRequest(ep)
           t == [s EXCEPT !.isIn = r.isIn, !.wLength = r.wLength, !.size = r.size,
                          !.callback = r.calls, !.setup = FALSE]
           data == [t EXCEPT !.prev = 0, !.cnt = 0]
<1>1. /\ ep.setup /\ r \in Requests /\ host.moved = 0 /\ ~host.dup
      /\ Idle => host.outcome = "abandoned"
  BY DEF IInv, EventStands, SetupIsClean, TypeOK
<1>2. /\ r.isIn \in BOOLEAN /\ r.wLength \in Nat /\ r.size \in Nat /\ r.ok \in BOOLEAN
      /\ r.calls \in BOOLEAN
  BY <1>1, UsbControlAssumption
<1>3. isr' = NONE /\ host' = host /\ ep' = ctrl_setup_received(ep, r)
      /\ owed' = IF Idle /\ r.calls THEN Known(host.outcome) ELSE Nothing
  <2> HIDE DEF s, t, data
  <2>1. isr' = NONE /\ host' = host /\ ep' = ctrl_setup_received(ep, r)
    BY DEF Handle, Handler
  <2>2. owed' = IF Idle /\ r.calls THEN Known(host.outcome) ELSE Nothing
    BY DEF Handle
  <2> QED BY <2>1, <2>2
<1>4. /\ s \in ControlEndpoint /\ s.state = "SETUP" /\ s.out = EMPTY
      /\ ~s.sentIE /\ s.setup /\ ~s.reset /\ s.tx = EMPTY /\ ~s.stall
      /\ s.runs = (IF ep.callback THEN 1 - ep.runs ELSE ep.runs)
  BY <1>1, LastRequestEnds
<1>5. udc_process_setup(s, r) = [s EXCEPT !.isIn = r.isIn, !.wLength = r.wLength,
                                          !.size = r.size, !.callback = r.calls]
  BY DEF udc_process_setup
<1>6. [udc_process_setup(s, r) EXCEPT !.setup = FALSE] = t
  BY <1>4, <1>5 DEF ControlEndpoint
<1>7. ep' = IF ~r.ok THEN ctrl_stall_data(t)
            ELSE IF r.isIn THEN ctrl_in_sent([data EXCEPT !.state = "DATA_IN"])
            ELSE IF r.wLength = 0 THEN ctrl_send_zlp_in(t)
            ELSE [data EXCEPT !.state = "DATA_OUT", !.nakIn = FALSE, !.nakInIE = TRUE]
  BY <1>3, <1>6 DEF ctrl_setup_received
<1> HIDE DEF s
<1>8. /\ t \in ControlEndpoint /\ t.out = EMPTY /\ ~t.sentIE /\ ~t.setup /\ ~t.reset
      /\ t.tx = EMPTY /\ ~t.stall /\ t.runs = s.runs
      /\ t.wLength = r.wLength /\ t.size = r.size /\ t.callback = r.calls
  BY <1>2, <1>4 DEF ControlEndpoint
<1> HIDE DEF t
<1>9. /\ data \in ControlEndpoint /\ data.out = EMPTY /\ ~data.sentIE /\ ~data.setup
      /\ ~data.reset /\ data.tx = EMPTY /\ ~data.stall /\ data.runs = s.runs
      /\ data.wLength = r.wLength /\ data.size = r.size /\ data.callback = r.calls
      /\ data.prev = 0 /\ data.cnt = 0
  BY <1>8 DEF ControlEndpoint
<1> HIDE DEF data
<1>10. CASE ~r.ok
  <2>1. ep' = ctrl_stall_data(t)
    BY <1>7, <1>10
  <2>2. /\ ep' \in ControlEndpoint /\ ep'.state = "STALL_REQ" /\ ep'.stall /\ ep'.out = EMPTY
        /\ ep'.tx = EMPTY /\ ~ep'.sentIE /\ ~ep'.setup /\ ~ep'.reset /\ ep'.runs = s.runs
        /\ ep'.wLength = r.wLength /\ ep'.callback = r.calls
    BY <1>8, <2>1 DEF ctrl_stall_data, ControlEndpoint, States
  <2> QED BY <1>1, <1>3, <1>4, <1>10, <2>2 DEF SetupTaken
<1>11. CASE r.ok /\ ~r.isIn /\ r.wLength = 0
  <2>1. ep' = ctrl_send_zlp_in(t)
    BY <1>7, <1>11
  <2>2. /\ ep' \in ControlEndpoint /\ ep'.state = "WAIT_IN_ZLP" /\ ~ep'.sent
        /\ ep'.tx = 0 /\ ~ep'.nakOut /\ ep'.out = EMPTY /\ ~ep'.stall
        /\ ~ep'.setup /\ ~ep'.reset /\ ep'.runs = s.runs
        /\ ep'.wLength = r.wLength /\ ep'.callback = r.calls
    BY <1>8, <2>1, CtrlSendZlpIn
  <2> QED BY <1>1, <1>3, <1>4, <1>11, <2>2 DEF SetupTaken
<1>12. CASE r.ok /\ ~r.isIn /\ r.wLength # 0
  <2>1. ep' = [data EXCEPT !.state = "DATA_OUT", !.nakIn = FALSE, !.nakInIE = TRUE]
    BY <1>7, <1>12
  <2>2. /\ ep' \in ControlEndpoint /\ ep'.state = "DATA_OUT" /\ ep'.size = r.size
        /\ ~ep'.nakIn /\ ep'.cnt = 0 /\ ep'.prev = 0 /\ ep'.tx = EMPTY /\ ~ep'.stall
        /\ ~ep'.sentIE /\ ep'.out = EMPTY /\ ~ep'.setup /\ ~ep'.reset /\ ep'.runs = s.runs
        /\ ep'.wLength = r.wLength /\ ep'.callback = r.calls
    BY <1>9, <2>1 DEF ControlEndpoint, States
  <2> QED BY <1>1, <1>3, <1>4, <1>12, <2>2 DEF SetupTaken
<1>13. CASE r.ok /\ r.isIn
  <2> DEFINE d == [data EXCEPT !.state = "DATA_IN"]
  <2>1. /\ d \in ControlEndpoint /\ d.state = "DATA_IN" /\ d.out = EMPTY /\ ~d.setup
        /\ ~d.reset /\ d.tx = EMPTY /\ ~d.stall /\ d.runs = s.runs
        /\ d.wLength = r.wLength /\ d.size = r.size /\ d.callback = r.calls
        /\ d.prev = 0 /\ d.cnt = 0 /\ d.cnt <= d.size
    BY <1>2, <1>9 DEF ControlEndpoint, States
  <2>2. ep' = ctrl_in_sent(d)
    BY <1>7, <1>13
  <2>3. r.wLength > 0
    BY <1>1, <1>13, UsbControlAssumption
  <2> HIDE DEF d
  <2>4. /\ ep' \in ControlEndpoint /\ ~ep'.stall /\ ep'.size = r.size /\ ep'.out = EMPTY
        /\ ~ep'.setup /\ ~ep'.reset /\ ep'.runs = s.runs
        /\ ep'.wLength = r.wLength /\ ep'.callback = r.calls
        /\ \/ /\ ep'.state = "WAIT_OUT_ZLP" /\ ep'.tx = d.tx /\ ~ep'.sentIE
              /\ \/ d.out # EMPTY
                 \/ ~ep'.nakIn /\ d.cnt = d.size /\ (d.short \/ d.wLength = d.prev + d.cnt)
           \/ /\ ep'.state = "DATA_IN" /\ d.out = EMPTY /\ ~ep'.sent /\ ep'.sentIE
              /\ ep'.tx = Minimum(d.size - d.cnt, EpSize) /\ ep'.cnt = d.cnt + ep'.tx
              /\ ep'.short <=> ep'.tx < EpSize
              /\ ep'.prev = (IF d.cnt = d.size THEN d.prev + d.cnt ELSE d.prev)
              /\ d.cnt = d.size => ~d.short /\ d.wLength # d.prev + d.cnt
    BY <2>1, <2>2, CtrlInSent
  <2>5. Minimum(r.size, EpSize) \in Nat
    BY <1>2, UsbControlAssumption DEF Minimum
  <2>6. \/ /\ ep'.state = "WAIT_OUT_ZLP" /\ ep'.tx = EMPTY /\ ~ep'.sentIE
           /\ ~ep'.nakIn /\ r.size = 0
        \/ /\ ep'.state = "DATA_IN" /\ ~ep'.sent /\ ep'.sentIE
           /\ ep'.tx = Minimum(r.size, EpSize) /\ ep'.cnt = ep'.tx
           /\ ep'.short <=> ep'.tx < EpSize
           /\ ep'.prev = 0
    BY <1>2, <2>1, <2>4, <2>5
  <2> QED BY <1>1, <1>3, <1>4, <1>13, <2>4, <2>6 DEF SetupTaken
<1> QED BY <1>2, <1>10, <1>11, <1>12, <1>13

LEMMA SetupHandledKeepsIInv == ASSUME IInv, Handle, isr = "setup" PROVE IInv'
<1> DEFINE r == host.req
<1>1. /\ isr' = NONE /\ host' = host
      /\ ep' \in ControlEndpoint /\ ~ep'.setup /\ ~ep'.reset /\ ep'.out = EMPTY
      /\ ep'.wLength = r.wLength /\ ep'.callback = r.calls
      /\ owed' = IF Idle /\ r.calls THEN Known(host.outcome) ELSE Nothing
      /\ host.moved = 0 /\ ~host.dup /\ (Idle => host.outcome = "abandoned")
  BY SetupAnswered DEF SetupTaken
<1>2. /\ r \in Requests /\ r.wLength \in Nat /\ r.size \in Nat /\ EpSize \in Nat \ {0}
      /\ r.calls => r.ok /\ ~r.isIn
      /\ host.outcome \in Outcomes \cup {NONE}
  BY UsbControlAssumption DEF IInv, TypeOK
<1>3. TypeOK' /\ HostSane' /\ SetupIsClean' /\ ResetIsClean' /\ EventStands'
  BY <1>1, <1>2 DEF IInv, TypeOK, HostSane, SetupIsClean, ResetIsClean, EventStands, Idle,
       Known, Nothing, NONE
<1>4. /\ owed'.outcome = (IF Idle /\ r.calls THEN "abandoned" ELSE NONE)
      /\ owed'.outcome = NONE => owed'.units = 0
  BY <1>1 DEF Known, Nothing, NONE
<1>5. (host.stage = "data" => r.wLength > 0) /\ ep.setup
  BY DEF IInv, EventStands, SetupIsClean
<1>6. OwedInv'
  BY <1>1, <1>4 DEF OwedInv, Idle, Current, NONE
<1>7. StateSane' /\ ServesHost' /\ DataOutInv' /\ WaitInZlpInv' /\ DataInInv'
        /\ WaitOutZlpInv' /\ StallInv'
  <2>1. CASE ~r.ok
    <3>1. ep'.state = "STALL_REQ" /\ ep'.stall /\ ep'.tx = EMPTY /\ ~ep'.sentIE
      BY <2>1, SetupAnswered
    <3> QED BY <1>1, <1>2, <2>1, <3>1 DEF StateSane, ServesHost, DataOutInv, WaitInZlpInv,
               DataInInv, WaitOutZlpInv, StallInv, Current, Fits
  <2>2. CASE r.ok /\ ~r.isIn /\ r.wLength = 0
    <3>1. /\ ep'.state = "WAIT_IN_ZLP" /\ ~ep'.nakOut /\ ~ep'.stall
          /\ ep'.tx = 0 /\ ~ep'.sent
      BY <2>2, SetupAnswered
    <3> QED BY <1>1, <1>5, <2>2, <3>1 DEF StateSane, ServesHost, DataOutInv, WaitInZlpInv,
               DataInInv, WaitOutZlpInv, StallInv, Current, Idle, EMPTY
  <2>3. CASE r.ok /\ ~r.isIn /\ r.wLength # 0
    <3>1. /\ ep'.state = "DATA_OUT" /\ ep'.size = r.size /\ ~ep'.nakIn
          /\ ep'.cnt = 0 /\ ep'.prev = 0 /\ ep'.tx = EMPTY /\ ~ep'.stall /\ ~ep'.sentIE
      BY <2>3, SetupAnswered
    <3> QED BY <1>1, <1>2, <1>5, <2>3, <3>1 DEF StateSane, ServesHost, DataOutInv,
               WaitInZlpInv, DataInInv, WaitOutZlpInv, StallInv, Current, Idle
  <2>4. CASE r.ok /\ r.isIn
    <3>1. /\ ~ep'.stall /\ ep'.size = r.size
          /\ \/ /\ ep'.state = "WAIT_OUT_ZLP" /\ ep'.tx = EMPTY /\ ~ep'.sentIE
                /\ ~ep'.nakIn /\ r.size = 0
             \/ /\ ep'.state = "DATA_IN" /\ ~ep'.sent /\ ep'.sentIE
                /\ ep'.tx = Minimum(r.size, EpSize) /\ ep'.cnt = ep'.tx
                /\ ep'.short <=> ep'.tx < EpSize
                /\ ep'.prev = 0
      BY <2>4, SetupAnswered
    <3>2. /\ Minimum(r.size, EpSize) \in Nat /\ Minimum(r.size, EpSize) <= r.size
          /\ Minimum(r.size, EpSize) < EpSize => Minimum(r.size, EpSize) = r.size
      BY <1>2 DEF Minimum
    <3>3. ~r.calls
      BY <1>2, <2>4
    <3>4. StateSane' /\ ServesHost' /\ DataOutInv' /\ WaitInZlpInv' /\ StallInv'
      BY <1>1, <2>4, <3>1, <3>3 DEF StateSane, ServesHost, DataOutInv, WaitInZlpInv,
         StallInv, Current, Idle
    <3>5. WaitOutZlpInv'
      BY <1>1, <2>4, <3>1 DEF WaitOutZlpInv, Current, Idle
    <3>6. DataInInv'
      BY <1>1, <1>2, <2>4, <3>1, <3>2 DEF DataInInv, Current, Idle, EMPTY
    <3> QED BY <3>4, <3>5, <3>6
  <2>5. r.ok \in BOOLEAN /\ r.isIn \in BOOLEAN
    BY <1>2, UsbControlAssumption
  <2> QED BY <2>1, <2>2, <2>3, <2>4, <2>5
<1> QED BY <1>3, <1>6, <1>7 DEF IInv

---------------------------------------------------------------------------

LEMMA IInvStep == ASSUME IInv, [Next]_vars PROVE IInv'
<1>1. CASE Interrupt
  BY <1>1, InterruptKeepsIInv
<1>2. CASE Handle
  <2>1. isr \in Events
    BY <1>2 DEF Handle, IInv, TypeOK
  <2>2. ep.sentIE => ep.state \in {"DATA_IN", "WAIT_IN_ZLP"}
    BY DEF IInv, StateSane
  <2>3. isr = "in" => ep.state \in {"DATA_IN", "WAIT_IN_ZLP"}
    BY <2>2 DEF IInv, EventStands
  <2> QED BY <1>2, <2>1, <2>3, SetupHandledKeepsIInv, ZlpInSentKeepsIInv, PacketSentKeepsIInv,
             ZlpOutReceivedKeepsIInv, PacketReceivedKeepsIInv, NakOutHandledKeepsIInv,
             NakInHandledKeepsIInv, ResetHandledKeepsIInv DEF Events
<1>3. CASE HostSetup
  BY <1>3, SetupKeepsIInv
<1>4. CASE HostStalled
  BY <1>4, StalledKeepsIInv
<1>5. CASE HostInNak
  BY <1>5, InNakKeepsIInv
<1>6. CASE HostIn
  BY <1>6, InDataKeepsIInv, InStatusKeepsIInv
<1>7. CASE HostOutNak
  BY <1>7, OutNakKeepsIInv
<1>8. CASE HostOut
  BY <1>8, OutKeepsIInv
<1>9. CASE HostCutsShort
  BY <1>9, CutKeepsIInv
<1>10. CASE HostGivesUp
  BY <1>10, GivesUpKeepsIInv
<1>11. CASE BusReset
  BY <1>11, BusResetKeepsIInv
<1>12. CASE UNCHANGED vars
  BY <1>12 DEF vars, IInv, TypeOK, EventStands, SetupIsClean, ResetIsClean, HostSane, StateSane,
     ServesHost, DataOutInv, WaitInZlpInv, DataInInv, WaitOutZlpInv, StallInv, OwedInv, Idle,
     Current
<1> QED BY <1>1, <1>2, <1>3, <1>4, <1>5, <1>6, <1>7, <1>8, <1>9, <1>10, <1>11, <1>12 DEF Next

LEMMA Invariance == Spec => []IInv
<1>1. Init => IInv
  BY InitIInv
<1>2. IInv /\ [Next]_vars => IInv'
  BY IInvStep
<1> QED BY <1>1, <1>2, PTL DEF Spec

---------------------------------------------------------------------------
(* The state and its types, for every size of a packet and every set of    *)
(* requests the firmware may meet.                                         *)
THEOREM TypeCorrect == Spec => []TypeOK
<1>1. IInv => TypeOK
  BY DEF IInv
<1> QED BY <1>1, Invariance, PTL

(* A request the firmware accepts and that fits its buffer is served in    *)
(* full (ctrl_in_sent, ctrl_out_received): no stall answers it, and the    *)
(* host that takes its data to the end has all of the payload.             *)
THEOREM FullService == Spec => []ServedInFull
<1>1. IInv => ServedInFull
  BY DEF IInv, HostSane, ServedInFull
<1> QED BY <1>1, Invariance, PTL

---------------------------------------------------------------------------
(* Callbacks: which step calls one, registers one or forgets one.          *)

LEMMA TokensAreUnheard ==
  ASSUME IInv, [Next]_vars, ~Handle, ~BusReset PROVE Unheard
<1> USE DEF Unheard
<1>1. ep \in ControlEndpoint
  BY DEF IInv, TypeOK
<1>2. CASE UNCHANGED vars
  BY <1>2 DEF vars
<1>3. CASE Interrupt \/ HostSetup
  BY <1>1, <1>3 DEF Interrupt, HostSetup, ControlEndpoint
<1>4. CASE HostInNak \/ HostOutNak
  BY <1>1, <1>4 DEF HostInNak, HostOutNak, ControlEndpoint
<1>5. CASE HostIn
  <2>1. PICK acked \in BOOLEAN :
          ep' = IF acked THEN [ep EXCEPT !.tx = EMPTY, !.sent = TRUE] ELSE ep
    BY <1>5 DEF HostIn
  <2> QED BY <1>1, <2>1 DEF ControlEndpoint
<1>6. CASE HostOut
  <2>1. \E n : ep' = [ep EXCEPT !.out = n]
    BY <1>6 DEF HostOut
  <2> QED BY <1>1, <2>1 DEF ControlEndpoint
<1>7. CASE HostStalled \/ HostCutsShort \/ HostGivesUp
  BY <1>7 DEF HostStalled, HostCutsShort, HostGivesUp
<1> QED BY <1>2, <1>3, <1>4, <1>5, <1>6, <1>7 DEF Next

LEMMA BusResetIsHeard ==
  ASSUME IInv, BusReset
  PROVE  ep'.callback = ep.callback /\ ep'.runs = ep.runs /\ ep'.reset = TRUE
BY DEF BusReset, IInv, TypeOK, ControlEndpoint

LEMMA HandledIsHeard ==
  ASSUME IInv, Handle
  PROVE  \/ Unheard
         \/ isr = "reset" /\ Dropped
         \/ isr = "in" /\ Unregistered
         \/ isr = "setup" /\ ep.setup /\ SetupTaken
<1>1. isr \in Events
  BY DEF Handle, IInv, TypeOK
<1>2. ep.sentIE => ep.state \in {"DATA_IN", "WAIT_IN_ZLP"}
  BY DEF IInv, StateSane
<1>3. /\ isr = "in" => ep.state \in {"DATA_IN", "WAIT_IN_ZLP"}
      /\ isr = "setup" => ep.setup
  BY <1>2 DEF IInv, EventStands
<1> QED BY <1>1, <1>3, SetupAnswered, ZlpInSentKeepsIInv, PacketSentKeepsIInv,
           ZlpOutReceivedKeepsIInv, PacketReceivedKeepsIInv, NakOutHandledKeepsIInv,
           NakInHandledKeepsIInv, ResetHandledKeepsIInv DEF Events

\* A call finds the host done with the request it belongs to.
LEMMA CallStep ==
  ASSUME IInv, [Next]_vars, ep'.runs # ep.runs PROVE owed # Nothing
<1>1. Handle
  BY TokensAreUnheard, BusResetIsHeard DEF Unheard
<1>2. ep.callback /\ ((Current /\ Idle) \/ ep.setup)
  BY <1>1, HandledIsHeard DEF Unheard, Dropped, Unregistered, SetupTaken
<1>3. owed.outcome # NONE
  BY <1>2 DEF IInv, OwedInv, Current
<1> QED BY <1>3 DEF Nothing

(* The callback of a request (udd.h:93) is never called while the host has *)
(* still data or status of that request to move.                           *)
THEOREM CalledOnlyWhenOver == Spec => CalledWhenOver
<1>1. IInv /\ [Next]_vars => (ep'.runs # ep.runs => owed # Nothing)
  BY CallStep
<1>2. UNCHANGED vars => ep'.runs = ep.runs
  BY DEF vars
<1> QED BY <1>1, <1>2, Invariance, PTL DEF Spec, CalledWhenOver

\* What the host knows to be done stays owed until it is executed.
LEMMA AckedStep ==
  ASSUME IInv, [Next]_vars, owed.outcome = "done", owed' # owed, isr # "reset"
  PROVE  ep'.runs # ep.runs /\ (owed.units > 0 => ep.cnt = owed.units)
<1>1. /\ ep.callback /\ (Idle \/ ep.setup) /\ ep.runs \in {0, 1}
      /\ owed.units > 0 => ep.cnt = owed.units
  BY DEF IInv, OwedInv, NONE, TypeOK, ControlEndpoint
<1>2. ~Over("done") /\ ~Over("stalled") /\ ~Over("abandoned") /\ ~Over("reset")
  BY <1>1 DEF Over
<1>3. ~UNCHANGED vars /\ ~Interrupt /\ ~HostSetup /\ ~HostInNak /\ ~HostOutNak
      /\ ~HostCutsShort
  BY DEF vars, Interrupt, HostSetup, HostInNak, HostOutNak, HostCutsShort
<1>4. ~HostStalled /\ ~HostGivesUp /\ ~BusReset
  BY <1>2 DEF HostStalled, HostGivesUp, BusReset, Ends
<1>5. ~HostIn /\ ~HostOut
  BY <1>2 DEF HostIn, HostOut, Ends
<1>6. Handle
  BY <1>3, <1>4, <1>5 DEF Next
<1>7. CASE Unheard
  <2>1. isr = "setup"
    BY <1>6, <1>7 DEF Handle, Unheard
  <2>2. SetupTaken
    BY <1>6, <2>1, SetupAnswered
  <2> QED BY <1>1, <2>2 DEF SetupTaken
<1>8. CASE ~Unheard
  BY <1>1, <1>6, <1>8, HandledIsHeard DEF Unregistered, SetupTaken
<1> QED BY <1>1, <1>7, <1>8

(* A request the host was told is done is executed, with all the data the  *)
(* host had acknowledged: its callback is called (udphs_device.c:1285-1287 *)
(* when the device missed the end of the status stage), unless the bus is  *)
(* reset in between.                                                       *)
THEOREM AckedRequestIsExecuted == Spec => AckedIsExecuted
<1>1. IInv /\ [Next]_vars =>
        (owed.outcome = "done" /\ owed' # owed /\ isr # "reset" =>
           ep'.runs # ep.runs /\ (owed.units > 0 => ep.cnt = owed.units))
  BY AckedStep
<1>2. UNCHANGED vars => owed' = owed
  BY DEF vars
<1> QED BY <1>1, <1>2, Invariance, PTL DEF Spec, AckedIsExecuted

---------------------------------------------------------------------------
(* The control pipe.                                                       *)

LEMMA PipeInit == Init => Pipe!Init
BY DEF Init, Pipe!Init

LEMMA PipeStep == ASSUME IInv, [Next]_vars PROVE [Pipe!Next]_(Pipe!pipeVars)
<1> USE DEF Pipe!Next, Pipe!pipeVars
<1>1. /\ ep.callback \in BOOLEAN /\ ep.reset \in BOOLEAN
      /\ ep.setup => ep.reset = FALSE
  BY DEF IInv, TypeOK, ControlEndpoint, ResetIsClean
<1>2. CASE BusReset
  BY <1>2, BusResetIsHeard DEF Pipe!BusReset
<1>3. CASE Unheard
  BY <1>3 DEF Unheard
<1>4. CASE ep' \in ControlEndpoint /\ Dropped
  BY <1>4 DEF Dropped, Pipe!Drop, ControlEndpoint
<1>5. CASE ep' \in ControlEndpoint /\ Unregistered
  BY <1>1, <1>5 DEF Unregistered, Pipe!Run, ControlEndpoint
<1>6. CASE ep.setup /\ SetupTaken
  <2>1. ep'.callback \in BOOLEAN /\ ep'.reset = ep.reset
    BY <1>1, <1>6 DEF SetupTaken, ControlEndpoint
  <2>2. CASE ~ep.callback
    BY <1>1, <1>6, <2>1, <2>2 DEF SetupTaken, Pipe!Accept
  <2>3. CASE ep.callback /\ ~ep'.callback
    BY <1>1, <1>6, <2>1, <2>3 DEF SetupTaken, Pipe!Run
  <2>4. CASE ep.callback /\ ep'.callback
    BY <1>1, <1>6, <2>1, <2>4 DEF SetupTaken, Pipe!RunThenAccept
  <2> QED BY <2>2, <2>3, <2>4
<1>7. ep' \in ControlEndpoint
  BY IInvStep DEF IInv, TypeOK
<1> QED BY <1>2, <1>3, <1>4, <1>5, <1>6, <1>7, TokensAreUnheard, HandledIsHeard

(* The control endpoint implements the control pipe the firmware is        *)
(* written for: a callback registered by udc_process_setup() is called     *)
(* once, before the next is registered, and only a bus reset takes it back.*)
THEOREM ControlPipeImplemented == Spec => ImplementsControlPipe
<1>1. Init => Pipe!Init
  BY PipeInit
<1>2. IInv /\ [Next]_vars => [Pipe!Next]_(Pipe!pipeVars)
  BY PipeStep
<1> QED BY <1>1, <1>2, Invariance, PTL DEF Spec, ImplementsControlPipe, Pipe!Spec
===========================================================================
