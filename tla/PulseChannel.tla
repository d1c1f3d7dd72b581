--------------------------- MODULE PulseChannel ---------------------------
(***************************************************************************)
(* What cdc_pulse.v promises the two clock domains it joins: a one-place   *)
(* channel.  A pulse accepted from the source domain is delivered to the   *)
(* destination domain once, as one pulse; a pulse is accepted only when    *)
(* the channel is empty and nothing is being delivered; only a reset loses *)
(* an accepted pulse.  CdcPulse implements this; the modules that compose  *)
(* several domains use it as it stands.                                    *)
(***************************************************************************)
EXTENDS Naturals

VARIABLES
  inflight,   \* TRUE: a pulse was accepted and is not delivered yet
  pulse,      \* the output of the channel, high while it delivers
  reset       \* the reset both domains see

chanVars == <<inflight, pulse, reset>>

Init ==
  /\ inflight = FALSE
  /\ pulse = FALSE
  /\ reset = 0

Accept ==
  /\ reset = 0 /\ ~inflight /\ ~pulse
  /\ inflight' = TRUE
  /\ UNCHANGED <<pulse, reset>>

Deliver ==
  /\ reset = 0 /\ inflight
  /\ inflight' = FALSE
  /\ pulse' = TRUE
  /\ UNCHANGED reset

EndPulse ==
  /\ reset = 0 /\ pulse
  /\ pulse' = FALSE
  /\ UNCHANGED <<inflight, reset>>

\* A reset discards what is in flight; the output falls before it ends.
Reset ==
  /\ reset = 0
  /\ reset' = 1 /\ inflight' = FALSE
  /\ UNCHANGED pulse

Quench ==
  /\ reset = 1
  /\ pulse' = FALSE
  /\ UNCHANGED <<inflight, reset>>

Release ==
  /\ reset = 1 /\ ~pulse
  /\ reset' = 0
  /\ UNCHANGED <<inflight, pulse>>

Next == Accept \/ Deliver \/ EndPulse \/ Reset \/ Quench \/ Release

Spec == Init /\ [][Next]_chanVars
===========================================================================
