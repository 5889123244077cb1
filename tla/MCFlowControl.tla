--------------------------- MODULE MCFlowControl ---------------------------
(* Small instances of FlowControl for TLC. *)
EXTENDS FlowControl, TLC

StreamSymmetry == Permutations(Streams)
=============================================================================
