---------------------------- MODULE MCSniffFifo ----------------------------
(* SniffFifo with FIFOs of a few entries for one of 8192. *)
EXTENDS SniffFifo

Setup(len, depth, threshold, burst) ==
  [len |-> len, depth |-> depth, threshold |-> threshold, burst |-> burst]

\* A capture that fits, read in bursts of two; one the FIFO is too small for.
ReadSetups == {Setup(2, 7, 6, 2), Setup(4, 3, 1, 1)}

OverflowSetup == {Setup(4, 3, 1, 1)}
OneEntrySetup == {Setup(1, 5, 4, 1)}
===========================================================================
