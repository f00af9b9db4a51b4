---------------------------- MODULE MCTaskRuntime ----------------------------
(* Instances of TaskRuntime for TLC.                                       *)
EXTENDS TaskRuntime, TLC

CONSTANTS r1, r2, a1, a2, p1, p2, w1, w2

\* Two runs for the same application, or a single one.
SameApp == r1 :> a1 @@ r2 :> a1
OneRun == r1 :> a1

\* One process with one or two slots, or two processes with one slot each.
OneHost == w1 :> p1
TwoSlots == w1 :> p1 @@ w2 :> p1
TwoHosts == w1 :> p1 @@ w2 :> p2

=============================================================================
