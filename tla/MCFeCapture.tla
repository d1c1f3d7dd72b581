---------------------------- MODULE MCFeCapture ----------------------------
(* fe_capture.v with short counters; the status lines take two values that *)
(* the code treats alike.                                                  *)
EXTENDS FeCapture, TLC

StatSymmetry == Permutations(Stat)
===========================================================================
