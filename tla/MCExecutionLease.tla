-------------------------- MODULE MCExecutionLease --------------------------
(* Instances of ExecutionLease: the writers of each run of TLC.            *)
EXTENDS ExecutionLease, TLC

CONSTANTS w1, w2, w3, r1

\* Two attempts of one run and a request of the older endpoints.
RunLegacy == w1 :> "run" @@ w2 :> "run" @@ w3 :> "legacy"
OneRunOf == w1 :> r1 @@ w2 :> r1 @@ w3 :> None
\* The attempts are interchangeable.
Attempts == Permutations({w1, w2})

\* A run, a restoration and a summary.
RunRestore == w1 :> "run" @@ w2 :> "restore" @@ w3 :> "summary"
FirstRunOf == w1 :> r1 @@ w2 :> None @@ w3 :> None
=============================================================================
