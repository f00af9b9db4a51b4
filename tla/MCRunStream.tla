----------------------------- MODULE MCRunStream -----------------------------
(* Instances of RunStream for TLC.                                          *)
EXTENDS RunStream

CONSTANTS k1, p1, p2, c1
=============================================================================
