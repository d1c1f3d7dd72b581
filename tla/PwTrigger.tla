----------------------------- MODULE PwTrigger -----------------------------
(***************************************************************************)
(* hdl/pw_trigger.v, the half that drives the trigger pin, with the        *)
(* registers of reg_pw.v it reads and usb.py's set_trigger() that writes   *)
(* them, one register at a time, whatever the trigger is doing.            *)
(*   Tick(match)  an edge of trigger_clk; match is dst_pulse of the        *)
(*                crossing from the pattern matcher (CdcPulse.tla)         *)
(*   Call, Write..., Enable   set_trigger() and what it sends in turn      *)
(* The names say trigger where PwTriggerProofs.tla has CdcPulse beside it. *)
(***************************************************************************)
EXTENDS Naturals, Sequences

CONSTANTS
  NUM_PULSES,   \* pNUM_TRIGGER_PULSES, 8; a trigger_index has twice that range
  MAX_DELAY,    \* bounds the delays a register can hold
  Calls         \* arguments of set_trigger(): [num, delays, widths, enable]

ASSUME PwTriggerAssumption ==
  /\ NUM_PULSES \in Nat \ {0} /\ MAX_DELAY \in Nat
  /\ \A c \in Calls :
       /\ c.num \in 1 .. NUM_PULSES /\ c.enable \in BOOLEAN
       /\ c.delays \in Seq(0 .. MAX_DELAY) /\ Len(c.delays) = c.num
       /\ c.widths \in Seq(Nat) /\ Len(c.widths) = c.num
       /\ \A i \in 2 .. c.num : c.delays[i] > 0

VARIABLES
  reg,           \* reg_trigger_delay, _width, reg_num_triggers, reg_trigger_enable
  reg_r,         \* the same one edge of trigger_clk later
  state, trigger_index, delay_counter, trigger_delay, trigger_width, O_trigger,
  call, step,    \* the set_trigger() under way and what it does next
  stable,        \* history: no register has changed since before the match
  level,         \* history: for how long O_trigger has been at its level
  emitted        \* history: [delay, width] of the pulses since the match

fsmVars == <<state, trigger_index, delay_counter, trigger_delay, trigger_width, O_trigger>>
pinVars == <<level, emitted>>
triggerVars == <<reg, reg_r, fsmVars, call, step, stable, pinVars>>

Index == 0 .. NUM_PULSES - 1

TriggerInit ==
  /\ reg = [delay |-> [i \in Index |-> 0], width |-> [i \in Index |-> 0],
            num |-> 1, enable |-> FALSE]
  /\ reg_r = [reg EXCEPT !.num = 0]
  /\ state = "IDLE" /\ trigger_index = 0 /\ delay_counter = 0
  /\ trigger_delay = 0 /\ trigger_width = 0 /\ O_trigger = FALSE
  /\ call \in Calls /\ step = "return"
  /\ stable = FALSE /\ level = 0 /\ emitted = <<>>

---------------------------------------------------------------------------
(* A definition whose name says what is wrong with it is a slip of the one *)
(* that follows it; the README says which property each breaks.            *)

\* The subtraction is done in 32 bits without a sign: less one, zero is huge.
MoreToCome == reg_r.num = 0 \/ trigger_index < reg_r.num - 1

SameIndex == trigger_index
NextIndex == (trigger_index + 1) % (2 * NUM_PULSES)

CountFromZero == 0
CountFromOne == 1

\* Reading past the end of an array gives anything.
Entry(array, i) == IF i \in Index THEN {array[i]} ELSE 0 .. MAX_DELAY

Idle(match) ==
  /\ state = "IDLE"
  /\ O_trigger' = FALSE
  /\ trigger_delay' = reg_r.delay[0] /\ trigger_width' = reg_r.width[0]
  /\ IF match /\ reg_r.enable
     THEN /\ delay_counter' = 0 /\ trigger_index' = 0 /\ state' = "WAIT_FOR_ON"
          /\ level' = 0 /\ emitted' = <<>>
          /\ stable' = (reg = reg_r /\ step = "return")
     ELSE UNCHANGED <<delay_counter, trigger_index, state, stable, pinVars>>

WaitForOn ==
  /\ state = "WAIT_FOR_ON"
  /\ IF delay_counter < trigger_delay /\ ~O_trigger
     THEN /\ delay_counter' = delay_counter + 1 /\ level' = level + 1
          /\ UNCHANGED <<state, trigger_delay, O_trigger, emitted>>
     ELSE /\ delay_counter' = CountFromOne /\ O_trigger' = TRUE
          /\ trigger_delay' \in Entry(reg_r.delay, trigger_index + 1)
          /\ state' = "WAIT_FOR_OFF"
          /\ level' = 1
          /\ emitted' = IF Len(emitted) > NUM_PULSES THEN emitted
                        ELSE Append(emitted, [delay |-> level, width |-> 0])
  /\ UNCHANGED <<trigger_index, trigger_width, stable>>

WaitForOff ==
  /\ state = "WAIT_FOR_OFF"
  /\ IF delay_counter < trigger_width
     THEN /\ delay_counter' = delay_counter + 1 /\ level' = level + 1
          /\ UNCHANGED <<state, trigger_index, trigger_width, O_trigger, emitted>>
     ELSE /\ O_trigger' = FALSE /\ level' = 1
          /\ emitted' = [emitted EXCEPT ![Len(emitted)].width = level]
          /\ IF MoreToCome
             THEN /\ trigger_index' = NextIndex /\ delay_counter' = CountFromOne
                  /\ trigger_width' \in Entry(reg_r.width, trigger_index + 1)
                  /\ state' = "WAIT_FOR_ON"
             ELSE /\ trigger_index' = 0 /\ delay_counter' = 0 /\ state' = "IDLE"
                  /\ UNCHANGED trigger_width
  /\ UNCHANGED <<trigger_delay, stable>>

Tick(match) ==
  /\ Idle(match) \/ WaitForOn \/ WaitForOff
  /\ reg_r' = reg
  /\ UNCHANGED <<reg, call, step>>

---------------------------------------------------------------------------
(* set_trigger(): what it checks, sends, and where it raises.              *)
(* The capture delay it also sets, between num and enable, is none of the  *)
(* pulses' business.                                                       *)

First(array, n, list) == [i \in Index |-> IF i < n THEN list[i + 1] ELSE array[i]]

Host(from, to) ==
  /\ step = from /\ step' = to
  /\ stable' = (stable /\ reg' = reg)
  /\ UNCHANGED <<reg_r, fsmVars, call, pinVars>>

Call(c) ==
  /\ step = "return" /\ step' = "delay" /\ call' = c
  /\ UNCHANGED <<reg, reg_r, fsmVars, stable, pinVars>>
WriteDelay ==
  /\ reg' = [reg EXCEPT !.delay = First(@, call.num, call.delays)]
  /\ Host("delay", IF \E i \in 1 .. call.num : call.widths[i] < 1 THEN "return" ELSE "width")
WriteWidth ==
  /\ reg' = [reg EXCEPT !.width = First(@, call.num, call.widths)]
  /\ Host("width", "num")
WriteNum ==
  /\ reg' = [reg EXCEPT !.num = call.num]
  /\ Host("num", "enable")
Enable ==
  /\ reg' = [reg EXCEPT !.enable = call.enable]
  /\ Host("enable", "return")

TriggerNext ==
  \/ \E match \in BOOLEAN : Tick(match)
  \/ \E c \in Calls : Call(c)
  \/ WriteDelay \/ WriteWidth \/ WriteNum \/ Enable

TriggerSpec == TriggerInit /\ [][TriggerNext]_triggerVars

(* trigger_clk runs.                                                       *)
FairTriggerSpec == TriggerSpec /\ WF_triggerVars(\E match \in BOOLEAN : Tick(match))

---------------------------------------------------------------------------
(***************************************************************************)
(* The types.  No run goes past the last pulse there are registers for,    *)
(* even when it is reprogrammed on the way.                                *)
(***************************************************************************)
TriggerTypeOK ==
  /\ state \in {"IDLE", "WAIT_FOR_ON", "WAIT_FOR_OFF"}
  /\ step \in {"delay", "width", "num", "enable", "return"}
  /\ trigger_index \in Index
  /\ O_trigger = (state = "WAIT_FOR_OFF")
  /\ reg.num \in 0 .. NUM_PULSES /\ trigger_delay \in 0 .. MAX_DELAY

(***************************************************************************)
(* A match gives the pulses that were programmed when it came, unless they *)
(* are programmed anew before the last of them is over: each as late after *)
(* the one before and as wide as its registers say, to the cycle, and then *)
(* no more.  Delay and width are loaded from the next entries at different *)
(* moments, and the counters begin at 0 or at 1.  The index stays within   *)
(* the arrays whatever is programmed (TriggerTypeOK).                      *)
(***************************************************************************)
PulsesAsProgrammed ==
  /\ TriggerTypeOK
  /\ stable =>
       /\ Len(emitted) <= reg.num
       /\ state = "IDLE" => Len(emitted) = reg.num
       /\ \A i \in 1 .. Len(emitted) :
            /\ emitted[i].delay = reg.delay[i - 1]
            /\ ~(O_trigger /\ i = Len(emitted)) => emitted[i].width = reg.width[i - 1]

(***************************************************************************)
(* Every run of the trigger ends, whenever it is reprogrammed: the pin is  *)
(* released and the next match is heard.                                   *)
(***************************************************************************)
TriggerEnds == (state # "IDLE") ~> (state = "IDLE")
===========================================================================
