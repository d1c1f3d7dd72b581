-------------------------- MODULE MCCaptureControl --------------------------
(* CaptureControl with two bytes, one of them the zero of the shift register. *)
EXTENDS CaptureControl

CONSTANTS a, b

Setup(pattern, len, delay, gap) ==
  [pattern |-> pattern, len |-> len, delay |-> delay, gap |-> gap]

\* As close to the limits of Timely as they go: full speed with a pattern that overlaps
\* itself; high speed with one that every second byte may complete and a capture just
\* longer than the way back to ARM.
GoodSetups == {Setup(<<a, a>>, 1, d, d + 10) : d \in {0, 1}}
                \cup {Setup(<<a>>, 7, d, 1) : d \in {0, 1}}

\* High speed and few entries.
LongerPattern == {Setup(<<a, b>>, 3, 0, 1)}
ShortCapture == {Setup(<<a>>, 1, 0, 1)}
===========================================================================
