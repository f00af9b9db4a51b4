----------------------------- MODULE MCGraphRun -----------------------------
(* Instances of GraphRun.                                                  *)
EXTENDS GraphRun
CONSTANTS html, vue, c1
=============================================================================
