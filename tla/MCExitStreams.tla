--------------------------- MODULE MCExitStreams ---------------------------
(* Small instances of ExitStreams. *)
EXTENDS ExitStreams

CONSTANTS r1, r2, c1, c2

\* The exit of c2 accepts r1 only.
OneSupports == [c \in Circuits |-> IF c = c1 THEN Requests ELSE {r1}]
=============================================================================
