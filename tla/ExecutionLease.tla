--------------------------- MODULE ExecutionLease ---------------------------
(***************************************************************************)
(* Who may change the source of one application: the Redis lease and the   *)
(* app_execution row a writer takes (internal/core/execution/coordinator), *)
(* the fences on publishing and on checkpoints (internal/dal/taskstore),   *)
(* and the programs that write (internal/logic).  Applications share       *)
(* nothing here, so there is one.                                          *)
(*                                                                         *)
(* A writer is one attempt under an owner id of its own: an attempt of a   *)
(* graph run, a request of the older endpoints ("legacy"), a chat with the *)
(* agent or a summary (both hold the lease and publish nothing), or the    *)
(* restoration of an old version.  Leases expire at any moment, because a  *)
(* process may stall for longer than their 45 seconds; the writer then     *)
(* goes on until a renewal, which comes every 10 seconds, tells it.        *)
(*                                                                         *)
(* Task rows carry what this protocol reads of them; TaskRuntime has the   *)
(* whole of them.  The recoverable, paused and awaiting_approval statuses  *)
(* are one, "parked", and the unsuccessful ends are one, "ended".          *)
(***************************************************************************)
EXTENDS Naturals, Sequences, FiniteSets

CONSTANTS
  Writer,      \* the attempts, one per owner id
  Run,         \* the graph runs of the application
  Kind,        \* the program a writer executes
  RunOf,       \* the run an attempt belongs to
  None,
  Present,     \* which of the attempts may take part together
  Earlier,     \* how many versions the application may have at the start
  LegacyFiles, \* does the application have files from before versions?
  MaxFaults    \* bound: statements failed or not answered, crashes, stalls past the leases

Kinds == {"run", "legacy", "summary", "restore"}

ASSUME LeaseConstants ==
  /\ Kind \in [Writer -> Kinds]
  /\ RunOf \in [Writer -> Run \cup {None}]
  /\ \A w \in Writer : Kind[w] = "run" <=> RunOf[w] \in Run
  /\ None \notin Writer \cup Run
  /\ Present \subseteq SUBSET Writer
  /\ Earlier \subseteq Nat
  /\ LegacyFiles \in BOOLEAN
  /\ MaxFaults \in Nat

VARIABLES
  redis,     \* the token in codegen:lock:<app>
  row,       \* the app_execution row; alive stands for lease_until > NOW(3)
  versions,  \* source_version: the author of each and the version it started from
  run,       \* agent_run.status
  ckpt,      \* run_checkpoint: the claim it was saved under
  pc,        \* where each writer is
  claim,     \* its execution.Claim
  live,      \* is its context not cancelled?
  seen,      \* the checkpoint it resumes; the version a restorer was looking at
  outcome,   \* what is left to tell the run's row: Suspend or Fail
  lost,      \* writers whose claim or release was not answered
  faults

table == <<row, versions, run, ckpt>>
local == <<claim, live, seen, outcome>>
env == <<lost, faults>>
vars == <<redis, table, pc, local, env>>

RunStatus == {"absent", "pending", "running", "pausing", "cancelling",
              "parked", "completed", "ended"}
Active == {"pending", "running", "pausing", "cancelling", "parked"}
PC == {"new", "loading", "locking", "claiming", "preparing", "importing",
       "working", "point", "frozen", "failing", "releasing", "unlocking",
       "settling", "ended", "dead"}
\* Between Acquire and the last use of the lease.
Holding == {"preparing", "importing", "working", "point", "frozen"}
Claim == [epoch : Nat, base : Nat]
NoClaim == [epoch |-> 0, base |-> 0]

TypeOK ==
  /\ redis \in Writer \cup {None}
  /\ row \in [epoch : Nat, owner : Writer \cup {None}, alive : BOOLEAN, current : Nat]
  /\ row.alive => row.owner # None
  /\ versions \in Seq([by : Writer \cup {None}, start : Nat])
  /\ run \in [Run -> RunStatus]
  /\ ckpt \in [Run -> Claim]
  /\ pc \in [Writer -> PC]
  /\ claim \in [Writer -> Claim]
  /\ live \in [Writer -> BOOLEAN]
  /\ seen \in [Writer -> Claim]
  /\ outcome \in [Writer -> {"none", "suspend", "refused", "fail"}]
  /\ lost \subseteq Writer
  /\ faults \in 0 .. MaxFaults

Init ==
  /\ redis = None
  /\ \E n \in Earlier :
       /\ row = [epoch |-> n, owner |-> None, alive |-> FALSE, current |-> n]
       /\ versions = [v \in 1 .. n |-> [by |-> None, start |-> v - 1]]
  /\ run = [r \in Run |-> "absent"]
  /\ ckpt = [r \in Run |-> NoClaim]   \* epochs start at 1: NoClaim is no row
  /\ \E present \in Present :
       pc = [w \in Writer |-> IF w \in present THEN "new" ELSE "ended"]
  /\ claim = [w \in Writer |-> NoClaim]
  /\ live = [w \in Writer |-> FALSE]
  /\ seen = [w \in Writer |-> NoClaim]
  /\ outcome = [w \in Writer |-> "none"]
  /\ lost = {}
  /\ faults = 0

-----------------------------------------------------------------------------
Saved(r) == ckpt[r] # NoClaim
Busy == \E r \in Run : run[r] \in Active      \* some row has the active_key
Goto(w, l) == pc' = [pc EXCEPT ![w] = l]
SetRun(r, s) == run' = [run EXCEPT ![r] = s]
Fault == faults < MaxFaults /\ faults' = faults + 1
Unanswered(w) == Fault /\ lost' = lost \cup {w}

\* The goroutine is gone and its variables with it.
Leave(w, l) ==
  /\ Goto(w, l)
  /\ claim' = [claim EXCEPT ![w] = NoClaim]
  /\ live' = [live EXCEPT ![w] = FALSE]
  /\ seen' = [seen EXCEPT ![w] = NoClaim]
  /\ outcome' = [outcome EXCEPT ![w] = "none"]

\* An attempt that will not publish, or has done so, calls Release, which
\* stops its context; only when all is given back it tells the run's row.
GiveUp(w, o) ==
  /\ Goto(w, "releasing")
  /\ live' = [live EXCEPT ![w] = FALSE]
  /\ outcome' = [outcome EXCEPT ![w] = IF Kind[w] = "run" THEN o ELSE "none"]

-----------------------------------------------------------------------------
(* The programs, up to the lease                                           *)

\* CreateRun and the dispatch of the run to a fresh attempt.
CreateRun(r) ==
  /\ run[r] = "absent"
  /\ ~Busy
  /\ SetRun(r, "pending")
  /\ UNCHANGED <<redis, row, versions, ckpt, pc, local, env>>

StartAttempt(w) ==
  /\ Kind[w] = "run"
  /\ pc[w] = "new"
  /\ run[RunOf[w]] = "pending"
  /\ SetRun(RunOf[w], "running")
  /\ Goto(w, "loading")
  /\ UNCHANGED <<redis, row, versions, ckpt, local, env>>

LoadCheckpoint(w) ==
  /\ pc[w] = "loading"
  /\ seen' = [seen EXCEPT ![w] = ckpt[RunOf[w]]]
  /\ Goto(w, "locking")
  /\ UNCHANGED <<redis, table, claim, live, outcome, env>>

\* Requests outside the task runtime first look for an active run.
CheckActive(w, from) ==
  /\ pc[w] = "new"
  /\ IF Busy THEN Leave(w, "ended")
     ELSE /\ Goto(w, "locking")
          /\ seen' = [seen EXCEPT ![w] = from]
          /\ UNCHANGED <<claim, live, outcome>>
  /\ UNCHANGED <<redis, table, env>>

StartLegacy(w) == Kind[w] = "legacy" /\ CheckActive(w, NoClaim)

\* What some page shows as the current version: it may have been loaded long ago.
ShownVersions == 1 .. row.current

StartRestore(w) ==
  /\ Kind[w] = "restore"
  /\ \E v \in ShownVersions : CheckActive(w, [epoch |-> 0, base |-> v])

StartSummary(w) ==
  /\ Kind[w] = "summary"
  /\ pc[w] = "new"
  /\ Goto(w, "locking")
  /\ UNCHANGED <<redis, table, local, env>>

-----------------------------------------------------------------------------
(* execution.Acquire                                                       *)

\* The writer gets no lease: the handler returns the error, and the row of a
\* run has to hear of it.
TurnedAway(w) ==
  IF Kind[w] = "run"
    THEN /\ Goto(w, "settling")
         /\ outcome' = [outcome EXCEPT ![w] = "fail"]
         /\ UNCHANGED <<claim, live, seen>>
    ELSE Leave(w, "ended")

\* AcquireLease: SET NX.  If it is not answered the caller has no function to
\* give the key back with, and nobody renews it.
Lock(w) ==
  /\ pc[w] = "locking"
  /\ \/ /\ redis = None
        /\ redis' = w
        /\ live' = [live EXCEPT ![w] = TRUE]
        /\ Goto(w, "claiming")
        /\ UNCHANGED <<claim, seen, outcome, env>>
     \/ redis # None /\ TurnedAway(w) /\ UNCHANGED <<redis, env>>
     \/ redis = None /\ redis' \in {None, w} /\ Unanswered(w) /\ TurnedAway(w)
  /\ UNCHANGED table

Vacant == row.owner = None \/ ~row.alive
\* Instead of TakeRow: attempts claim in the name of their run.
TakeRowForRun(w) ==
  row' = [row EXCEPT !.epoch = @ + 1, !.owner = RunOf[w], !.alive = TRUE]
TakeRow(w) ==
  row' = [row EXCEPT !.epoch = @ + 1, !.owner = w, !.alive = TRUE]
\* Instead of Refused: the error branch returns without unlocking.
RefusedKeepsLock(w) ==
  /\ Goto(w, IF Kind[w] = "run" THEN "settling" ELSE "ended")
  /\ live' = [live EXCEPT ![w] = FALSE]
  /\ outcome' = [outcome EXCEPT ![w] = IF Kind[w] = "run" THEN "fail" ELSE "none"]
  /\ UNCHANGED <<claim, seen>>
Refused(w) ==
  /\ Goto(w, "unlocking")
  /\ live' = [live EXCEPT ![w] = FALSE]
  /\ outcome' = [outcome EXCEPT ![w] = IF Kind[w] = "run" THEN "fail" ELSE "none"]
  /\ UNCHANGED <<claim, seen>>

TakeClaim(w) ==
  /\ pc[w] = "claiming"
  /\ \/ /\ live[w]
        /\ Vacant
        /\ TakeRow(w)
        /\ claim' = [claim EXCEPT ![w] = [epoch |-> row.epoch + 1, base |-> row.current]]
        /\ Goto(w, "preparing")
        /\ UNCHANGED <<live, seen, outcome, env>>
     \/ /\ ~live[w] \/ ~Vacant
        /\ Refused(w)
        /\ UNCHANGED <<row, env>>
     \/ /\ live[w]            \* the claim fails, or commits unanswered
        /\ Vacant
        /\ TakeRow(w) \/ UNCHANGED row
        /\ Unanswered(w)
        /\ Refused(w)
  /\ UNCHANGED <<redis, versions, run, ckpt>>

-----------------------------------------------------------------------------
(* What a lease is for.  The fence every publication passes, in the        *)
(* transaction that moves the pointer.                                     *)

Owns(w) == row.alive /\ row.owner = w /\ row.epoch = claim[w].epoch
\* Instead of Fenced: the fence compares the base version and forgets the owner.
FencedByBase(w) == row.current # claim[w].base
Fenced(w) == ~(Owns(w) /\ row.current = claim[w].base)

\* The version the files of the writer continue: a resumed attempt has its
\* checkpoint's, a restoration stands for the one its user was looking at.
Writes(w) == Kind[w] \in {"run", "legacy", "restore"}
Resuming(w) == Kind[w] = "run" /\ seen[w] # NoClaim
StartedFrom(w) ==
  IF Resuming(w) \/ Kind[w] = "restore" THEN seen[w].base ELSE claim[w].base

\* publishTx and the source_version row.
Publication(w) ==
  /\ live[w]
  /\ ~Fenced(w)
  /\ versions' = Append(versions, [by |-> w, start |-> StartedFrom(w)])
  /\ row' = [row EXCEPT !.current = Len(versions) + 1]

\* The rest of beginCodeExecution: a resumed attempt insists on the version
\* its checkpoint was taken from; the first execution of an application that
\* has only files imports them.
\* Instead of BaselineChanged: a resumed attempt takes whatever version is current.
BaselineIgnored(w) == Resuming(w) /\ claim[w].base < seen[w].base
BaselineChanged(w) == Resuming(w) /\ claim[w].base # seen[w].base
Imports(w) == Writes(w) /\ LegacyFiles /\ claim[w].base = 0 /\ ~Resuming(w)

Prepare(w) ==
  /\ pc[w] = "preparing"
  /\ live[w]
  /\ IF BaselineChanged(w)
       THEN GiveUp(w, "fail")
       ELSE Goto(w, IF Imports(w) THEN "importing" ELSE "working") /\ UNCHANGED <<live, outcome>>
  /\ UNCHANGED <<redis, table, claim, seen, env>>

\* A publication that is not answered stays, and the writer gives up; so it does
\* after a statement that fails, here and wherever it holds the lease (Abort).
Import(w) ==
  /\ pc[w] = "importing"
  /\ \/ /\ Publication(w)
        /\ claim' = [claim EXCEPT ![w].base = Len(versions) + 1]
        /\ Goto(w, "working")
        /\ UNCHANGED <<live, outcome, faults>>
     \/ Publication(w) /\ Fault /\ GiveUp(w, "fail") /\ UNCHANGED claim
     \/ /\ live[w] => Fenced(w)
        /\ GiveUp(w, "fail")
        /\ UNCHANGED <<row, versions, claim, faults>>
  /\ UNCHANGED <<redis, run, ckpt, seen, lost>>

\* The safe point of a graph run: SaveCheckpoint under checkpointFence, then a
\* read of the row that says whether to stop.
\* Instead of Checkpointable: checkpoints are not fenced.
CheckpointUnfenced(w) == run[RunOf[w]] \in {"running", "pausing"}
Checkpointable(w) == run[RunOf[w]] \in {"running", "pausing"} /\ Owns(w)

SavePoint(w) ==
  /\ Kind[w] = "run"
  /\ pc[w] = "working"
  /\ \/ /\ live[w]
        /\ Checkpointable(w)
        /\ ckpt' = [ckpt EXCEPT ![RunOf[w]] = claim[w]]
        /\ Goto(w, "point")
        /\ UNCHANGED <<live, outcome>>
     \/ /\ live[w] => ~Checkpointable(w)
        /\ GiveUp(w, "fail")
        /\ UNCHANGED ckpt
  /\ UNCHANGED <<redis, row, versions, run, claim, seen, env>>

\* A pause stops the attempt; an unapproved plan stops some.
PassPoint(w) ==
  /\ pc[w] = "point"
  /\ \/ /\ run[RunOf[w]] # "pausing" /\ live[w]
        /\ Goto(w, "working")
        /\ UNCHANGED <<live, outcome>>
     \/ live[w] /\ GiveUp(w, "suspend")
     \/ ~live[w] /\ GiveUp(w, "fail")
  /\ UNCHANGED <<redis, table, claim, seen, env>>

\* A restoration compares what the user saw with what it claimed.
ExpectedIsBase(w) == seen[w].base = claim[w].base

\* The work is over.  A summary has nothing to publish; a restoration replaces
\* the workspace by the files of an older version.
Ready(w) ==
  \/ Kind[w] \in {"run", "legacy"}
  \/ Kind[w] = "restore" /\ ExpectedIsBase(w) /\ claim[w].base > 1  \* an older one exists

FinishWork(w) ==
  /\ pc[w] = "working"
  /\ live[w]
  /\ IF Ready(w) THEN Goto(w, "frozen") /\ UNCHANGED <<live, outcome>>
                 ELSE GiveUp(w, "none")
  /\ UNCHANGED <<redis, table, claim, seen, env>>

\* Any error on the way, a cancelled context among them.  A run whose files
\* are frozen is the Manager's: it fails the row first and releases after.
Abort(w) ==
  /\ pc[w] \in Holding
  /\ IF pc[w] = "frozen" /\ Kind[w] = "run"
       THEN /\ Goto(w, "failing")
            /\ outcome' = [outcome EXCEPT ![w] = "fail"]
            /\ UNCHANGED live
       ELSE GiveUp(w, "fail")
  /\ UNCHANGED <<redis, table, claim, seen, env>>

-----------------------------------------------------------------------------
(* Publishing                                                              *)

Publish(w) ==
  /\ Kind[w] = "legacy"
  /\ pc[w] = "frozen"
  /\ \/ Publication(w)
     \/ (live[w] => Fenced(w)) /\ UNCHANGED <<row, versions>>
  /\ GiveUp(w, "none")
  /\ UNCHANGED <<redis, run, ckpt, claim, seen, env>>

\* A restoration also refuses when some run of the application is active.
\* Instead of NoActiveRun: only runs that execute are in the way.
NoExecutingRun == \A r \in Run : run[r] \notin {"running", "pausing", "cancelling"}
NoActiveRun == ~Busy

PublishRestoration(w) ==
  /\ Kind[w] = "restore"
  /\ pc[w] = "frozen"
  /\ \/ NoActiveRun /\ Publication(w)
     \/ (live[w] /\ NoActiveRun => Fenced(w)) /\ UNCHANGED <<row, versions>>
  /\ GiveUp(w, "none")
  /\ UNCHANGED <<redis, run, ckpt, claim, seen, env>>

\* GormStore.Complete: version, pointer and row in one transaction, if the
\* row is running and the fence holds.  When its answer is lost the Manager
\* fails the row, as it does on every other error (no shutdown excuses these);
\* a pause that came first suspends.
Commit(w) ==
  /\ Publication(w)
  /\ SetRun(RunOf[w], "completed")

Complete(w) ==
  /\ Kind[w] = "run"
  /\ pc[w] = "frozen"
  /\ \/ /\ run[RunOf[w]] = "running"
        /\ Commit(w)
        /\ \/ GiveUp(w, "none") /\ UNCHANGED faults
           \/ Goto(w, "failing") /\ Fault /\ UNCHANGED <<live, outcome>>
     \/ /\ run[RunOf[w]] = "pausing"
        /\ GiveUp(w, "suspend")
        /\ UNCHANGED <<row, versions, run, faults>>
     \/ /\ run[RunOf[w]] # "pausing"
        /\ run[RunOf[w]] = "running" /\ live[w] => Fenced(w)
        /\ Goto(w, "failing")
        /\ UNCHANGED <<row, versions, run, faults, live, outcome>>
  /\ UNCHANGED <<redis, ckpt, claim, seen, lost>>

-----------------------------------------------------------------------------
(* The end of an attempt                                                   *)

\* GormStore.Fail: never over an end or a safe stop; an error after the
\* shutdown began makes a run that has a checkpoint recoverable.
\* Instead of FailedFrom: only the safe stops are kept.
FailedFromEnd(r) == IF run[r] = "parked" THEN "parked" ELSE "ended"
FailedFrom(r) ==
  IF run[r] \in {"completed", "ended", "parked"} THEN run[r] ELSE "ended"
InterruptedFrom(r) ==
  IF run[r] \in {"pending", "running", "pausing"} /\ Saved(r) THEN "parked"
  ELSE FailedFrom(r)

Fail(r) == SetRun(r, FailedFrom(r))
FailOrInterrupt(r) == Fail(r) \/ SetRun(r, InterruptedFrom(r))

\* Manager.failRun; a statement that fails is logged, and the row stays.
Report(w) ==
  \/ /\ IF outcome[w] = "fail" THEN FailOrInterrupt(RunOf[w]) ELSE Fail(RunOf[w])
     /\ UNCHANGED faults
  \/ Fault /\ UNCHANGED run

FailRow(w) ==
  /\ pc[w] = "failing"
  /\ Report(w)
  /\ GiveUp(w, "none")
  /\ UNCHANGED <<redis, row, versions, ckpt, claim, seen, lost>>

\* Lease.Release, once, after the context and the renewals: give back the row
\* if the claim is still the row's, then the Redis key if it holds the
\* token.  An error is logged: what was not given back expires.
\* Instead of OwnRow: the update has no condition on epoch and owner.
AnyRow(w) == row.owner # None
OwnRow(w) == row.owner = w /\ row.epoch = claim[w].epoch

ReleaseRow(w) ==
  /\ pc[w] = "releasing"
  /\ \/ /\ row' = IF OwnRow(w) THEN [row EXCEPT !.owner = None, !.alive = FALSE] ELSE row
        /\ UNCHANGED env
     \/ Unanswered(w) /\ UNCHANGED row
  /\ Goto(w, "unlocking")
  /\ UNCHANGED <<redis, versions, run, ckpt, claim, live, seen, outcome>>

Unlock(w) ==
  /\ pc[w] = "unlocking"
  /\ \/ redis' = (IF redis = w THEN None ELSE redis) /\ UNCHANGED env
     \/ redis = w /\ Unanswered(w) /\ UNCHANGED redis
  /\ IF outcome[w] = "none" THEN Leave(w, "ended")
                            ELSE Goto(w, "settling") /\ UNCHANGED local
  /\ UNCHANGED table

\* The Manager suspends or fails the row of an attempt that gave up.  GormStore.
\* Suspend may be refused, fail, or commit without an answer: each is reported as
\* a failure, by when the run may have been resumed.
SuspendRow(w) ==
  /\ outcome[w] = "suspend"
  /\ \/ /\ run[RunOf[w]] \in {"running", "pausing"}
        /\ SetRun(RunOf[w], "parked")
        /\ \/ Leave(w, "ended") /\ UNCHANGED faults
           \/ /\ Fault
              /\ outcome' = [outcome EXCEPT ![w] = "refused"]
              /\ UNCHANGED <<pc, claim, live, seen>>
     \/ /\ \/ run[RunOf[w]] \notin {"running", "pausing"} /\ UNCHANGED faults
           \/ Fault
        /\ outcome' = [outcome EXCEPT ![w] = "refused"]
        /\ UNCHANGED <<run, pc, claim, live, seen>>

Settle(w) ==
  /\ pc[w] = "settling"
  /\ \/ SuspendRow(w)
     \/ outcome[w] # "suspend" /\ Report(w) /\ Leave(w, "ended")
  /\ UNCHANGED <<redis, row, versions, ckpt, lost>>

-----------------------------------------------------------------------------
(* Time, users and crashes                                                 *)

\* One of the two leases of a writer is someone else's, or nobody's: it has
\* stalled, and then the other may run out as well.
Lapsed(w) == redis # w \/ (pc[w] \in Holding /\ ~Owns(w))

\* A renewal finds that a lease is gone.
LoseLease(w) ==
  /\ live[w]
  /\ Lapsed(w)
  /\ live' = [live EXCEPT ![w] = FALSE]
  /\ UNCHANGED <<redis, table, pc, claim, seen, outcome, env>>

\* Instead of CancelContext: Acquire makes a context without the budget's
\* deadline, and nobody cancels.
NeverCancelled(w) == FALSE /\ live[w] /\ UNCHANGED vars

\* The budget's deadline, a cancel request, a shutdown, a closed connection.
\* Once the files of a run are frozen its commit has its own context, but
\* Validate still looks at this one.
CancelContext(w) ==
  /\ live[w]
  /\ live' = [live EXCEPT ![w] = FALSE]
  /\ UNCHANGED <<redis, table, pc, claim, seen, outcome, env>>

ExpireRedis ==
  /\ redis # None
  /\ IF live[redis] /\ ~Lapsed(redis) THEN Fault ELSE UNCHANGED faults
  /\ redis' = None
  /\ UNCHANGED <<table, pc, local, lost>>

ExpireRow ==
  /\ row.alive
  /\ IF live[row.owner] /\ ~Lapsed(row.owner) THEN Fault ELSE UNCHANGED faults
  /\ row' = [row EXCEPT !.alive = FALSE]
  /\ UNCHANGED <<redis, versions, run, ckpt, pc, local, lost>>

Crash(w) ==
  /\ pc[w] \notin {"new", "ended", "dead"}
  /\ Fault
  /\ Leave(w, "dead")
  /\ UNCHANGED <<redis, table, lost>>

\* InterruptStale, by the process that gets the runtime lock.  The attempt may
\* be dead, or go on in a process that lost the lock.
Interrupt(r) ==
  /\ run[r] \in {"pending", "running", "pausing", "cancelling"}
  /\ SetRun(r, IF Saved(r) /\ run[r] # "cancelling" THEN "parked" ELSE "ended")
  /\ UNCHANGED <<redis, row, versions, ckpt, pc, local, env>>

PauseRun(r) ==
  /\ run[r] = "running"
  /\ SetRun(r, "pausing")
  /\ UNCHANGED <<redis, row, versions, ckpt, pc, local, env>>

CancelRun(r) ==
  /\ run[r] \in {"pending", "running", "pausing", "parked"}
  /\ SetRun(r, IF run[r] \in {"running", "pausing"} THEN "cancelling" ELSE "ended")
  /\ UNCHANGED <<redis, row, versions, ckpt, pc, local, env>>

ResumeRun(r) ==
  /\ run[r] = "parked"
  /\ Saved(r)
  /\ SetRun(r, "pending")
  /\ UNCHANGED <<redis, row, versions, ckpt, pc, local, env>>

Step(w) ==
  \/ LoadCheckpoint(w) \/ StartLegacy(w) \/ StartRestore(w) \/ StartSummary(w)
  \/ Lock(w) \/ TakeClaim(w) \/ Prepare(w) \/ Import(w) \/ PassPoint(w)
  \/ FinishWork(w) \/ Publish(w) \/ PublishRestoration(w) \/ Complete(w)
  \/ FailRow(w) \/ ReleaseRow(w) \/ Unlock(w) \/ Settle(w)

Next ==
  \/ \E w \in Writer : \/ Step(w) \/ StartAttempt(w) \/ SavePoint(w) \/ Abort(w)
                       \/ LoseLease(w) \/ CancelContext(w) \/ Crash(w)
  \/ \E r \in Run : \/ CreateRun(r) \/ Interrupt(r) \/ PauseRun(r)
                    \/ CancelRun(r) \/ ResumeRun(r)
  \/ ExpireRedis \/ ExpireRow

Spec == Init /\ [][Next]_vars

\* Leases end: the budget's deadline cancels every context in the end, and a
\* lease nobody renews expires.  Nothing is assumed of the writers' progress.
RedisRunsOut == redis # None /\ ~live[redis] /\ ExpireRedis
RowRunsOut == row.alive /\ ~live[row.owner] /\ ExpireRow
FairSpec ==
  /\ Spec
  /\ \A w \in Writer : WF_vars(CancelContext(w))
  /\ WF_vars(RedisRunsOut)
  /\ WF_vars(RowRunsOut)

-----------------------------------------------------------------------------
(* Properties                                                              *)

\* No update is lost: the current version is the last one published, and
\* every version was made from its predecessor - the files its writer started
\* from, or the version the user of a restoration was looking at.
LinearHistory ==
  /\ row.current = Len(versions)
  /\ \A i \in 1 .. Len(versions) : versions[i].start = i - 1

\* A run is completed exactly when its result is among the versions: neither a
\* lost answer, nor a cancellation, nor another attempt of the same run leaves
\* a published run failed or a completed run unpublished.
Imported(i) == i = 1 /\ LegacyFiles
PublishedBy(i, r) == versions[i].by # None /\ RunOf[versions[i].by] = r /\ ~Imported(i)
RunHasItsVersion ==
  \A r \in Run :
    run[r] = "completed" <=>
      \E i \in 1 .. Len(versions) : PublishedBy(i, r)

\* While a run is active, what it saved stays a continuation of the current
\* version: a restoration never comes between a run's checkpoint and its
\* resumption, so the resumption is never refused.
RunBaseIsCurrent ==
  \A r \in Run : run[r] \in Active /\ Saved(r) => ckpt[r].base = row.current

\* A writer that is done holds neither lock, whatever step it was refused or
\* failed at, unless an answer was lost; nothing else has to expire.
EndedHoldsNothing ==
  \A w \in Writer :
    pc[w] = "ended" /\ w \notin lost => redis # w /\ row.owner # w

\* A writer publishes only under the latest claim: once another has claimed
\* the application, a stalled writer that wakes up changes no source.
FencedPublish ==
  [][versions' # versions =>
       claim[versions'[Len(versions')].by].epoch = row.epoch]_vars

\* A stalled attempt never overwrites the checkpoint of the attempt that
\* resumed its run.
CheckpointsMoveForward ==
  [][\A r \in Run : ckpt'[r].epoch >= ckpt[r].epoch]_vars

\* A row lease that has not expired leaves its holder only when the holder
\* itself gives it back: the late release of an earlier writer spares it.
LeaseIsTakenByNobody ==
  [][\A w \in Writer :
       row.alive /\ row.owner = w /\ row'.owner # w
         => pc[w] = "releasing" /\ pc'[w] = "unlocking"]_vars

\* No writer keeps an application locked forever: not one that hangs and goes on
\* renewing, not one that dies between any two steps, and not one whose lock,
\* claim or release was carried out and not answered.
HoldsSome(w) == redis = w \/ (row.owner = w /\ row.alive)
LeaseEnds == \A w \in Writer : HoldsSome(w) ~> ~HoldsSome(w)
=============================================================================
