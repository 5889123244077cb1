--------------------------- MODULE MCStreamInput ---------------------------
(* StreamInput with the sizes of StreamInput.cfg: a read shorter and one longer *)
(* than a cell, and cells without payload.                                      *)
EXTENDS StreamInput
=============================================================================
