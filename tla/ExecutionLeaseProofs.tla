------------------------- MODULE ExecutionLeaseProofs -------------------------
(***************************************************************************)
(* Proofs about ExecutionLease, for any number of writers and runs, any    *)
(* number of earlier versions and any number of faults: its types, that no *)
(* source update is lost, that a run is completed exactly when its version *)
(* is published, what the fences keep stalled writers from, and that an    *)
(* attempt that is over holds nothing.                                     *)
(***************************************************************************)
EXTENDS ExecutionLease, SequenceTheorems, TLAPS

-----------------------------------------------------------------------------
(* The inductive invariant                                                 *)

\* From its claim until it has given it back.
Taken == Holding \cup {"failing", "releasing"}
\* Its baseline has been accepted.
Based == {"importing", "working", "point", "frozen"}
Edits == Based \ {"importing"}

\* Claims are numbered, and no two writers have the same number.
ClaimsAreNumbered ==
  /\ \A w \in Writer : claim[w].epoch <= row.epoch
  /\ \A v, w \in Writer :
       pc[v] \in Taken /\ pc[w] \in Taken /\ v # w => claim[v].epoch # claim[w].epoch

\* Who holds the row has the latest claim, or will not give it back.
RowIsAccountedFor ==
  \A w \in Writer : row.owner = w =>
    (pc[w] \in Taken /\ claim[w].epoch = row.epoch) \/ w \in lost \/ pc[w] = "dead"

\* Who holds the Redis key will give it back, or never learnt that it does.
KeyIsAccountedFor ==
  \A w \in Writer : redis = w =>
    pc[w] \in Taken \cup {"claiming", "unlocking"} \/ w \in lost \/ pc[w] = "dead"

\* Under the latest claim nobody else moves the pointer.
LatestBaseIsCurrent ==
  \A w \in Writer :
    pc[w] \in Holding /\ claim[w].epoch = row.epoch => claim[w].base = row.current

\* A writer continues the version it claimed: a resumed attempt the one its
\* checkpoint names, a restoration the one its user saw, which there was; files
\* from before versions are imported by neither.
BaseOfCheckpoint(w) == pc[w] \in Based /\ Resuming(w) => seen[w].base = claim[w].base
ImportIsFirst(w) ==
  pc[w] = "importing" => claim[w].base = 0 /\ ~Resuming(w) /\ LegacyFiles /\ Kind[w] # "restore"
RestoresSomething(w) ==
  Kind[w] = "restore" =>
    /\ pc[w] \notin {"new", "ended", "dead"} => row.current > 0
    /\ pc[w] \in Holding => claim[w].base > 0
BaseOfUser(w) == Kind[w] = "restore" /\ pc[w] = "frozen" => seen[w].base = claim[w].base
StartsAtItsBase ==
  \A w \in Writer :
    BaseOfCheckpoint(w) /\ ImportIsFirst(w) /\ RestoresSomething(w) /\ BaseOfUser(w)

\* Where there are such files, they are a version before any run saves or
\* publishes anything.
ImportedFirst ==
  LegacyFiles =>
    /\ \A r \in Run : Saved(r) => ckpt[r].base > 0
    /\ \A w \in Writer : Kind[w] = "run" /\ seen[w] # NoClaim => seen[w].base > 0
    /\ \A w \in Writer : Kind[w] = "run" /\ pc[w] \in Edits => claim[w].base > 0

OnlyRunsLoad == \A w \in Writer : pc[w] = "loading" => Kind[w] = "run"

\* One run at a time; one that was never started has saved nothing; and what
\* was saved is no later than what is published.
OneActiveRun ==
  /\ \A q, r \in Run : run[q] \in Active /\ run[r] \in Active => q = r
  /\ \A r \in Run : run[r] = "absent" => ~Saved(r)
CheckpointsAreOld ==
  /\ \A r \in Run : ckpt[r].epoch <= row.epoch /\ ckpt[r].base <= row.current
  /\ \A w \in Writer : claim[w].base <= row.current

-----------------------------------------------------------------------------
(* The types                                                               *)

LocalTypes ==
  /\ pc \in [Writer -> PC]
  /\ claim \in [Writer -> Claim]
  /\ live \in [Writer -> BOOLEAN]
  /\ seen \in [Writer -> Claim]
  /\ outcome \in [Writer -> {"none", "suspend", "refused", "fail"}]
RowTypes ==
  /\ row \in [epoch : Nat, owner : Writer \cup {None}, alive : BOOLEAN, current : Nat]
  /\ row.alive => row.owner # None
RunTypes == run \in [Run -> RunStatus] /\ ckpt \in [Run -> Claim]
VersionTypes == versions \in Seq([by : Writer \cup {None}, start : Nat])
EnvTypes == redis \in Writer \cup {None} /\ lost \subseteq Writer /\ faults \in 0 .. MaxFaults

LEMMA TypeParts ==
  TypeOK <=> LocalTypes /\ RowTypes /\ RunTypes /\ VersionTypes /\ EnvTypes
BY DEF TypeOK, LocalTypes, RowTypes, RunTypes, VersionTypes, EnvTypes

\* What an action does to a writer's locals, whichever action it is.
LEMMA LeaveLocals ==
  ASSUME LocalTypes, NEW w \in Writer, NEW l \in PC, Leave(w, l)
  PROVE  LocalTypes'
<1>1. NoClaim \in Claim
  BY DEF NoClaim, Claim
<1> QED BY <1>1 DEF Leave, Goto, LocalTypes

LEMMA GiveUpLocals ==
  ASSUME LocalTypes, NEW w \in Writer, NEW o \in {"none", "suspend", "fail"}, GiveUp(w, o),
         UNCHANGED <<claim, seen>>
  PROVE  LocalTypes'
BY DEF GiveUp, Goto, LocalTypes, PC

\* A writer that gets no lease, and the last word of an attempt.
LEMMA TurnedAwayLocals ==
  ASSUME LocalTypes, NEW w \in Writer, TurnedAway(w)
  PROVE  /\ LocalTypes'
         /\ Leave(w, "ended") \/ (Goto(w, "settling") /\ UNCHANGED <<claim, live, seen>>)
<1>1. "ended" \in PC /\ "settling" \in PC
  BY DEF PC
<1>2. CASE Leave(w, "ended")
  BY <1>1, <1>2, LeaveLocals
<1>3. CASE ~Leave(w, "ended")
  BY <1>1, <1>3 DEF TurnedAway, Goto, LocalTypes
<1> QED BY <1>2, <1>3 DEF TurnedAway

LEMMA SettleLocals ==
  ASSUME LocalTypes, NEW w \in Writer, Settle(w)
  PROVE  /\ LocalTypes'
         /\ Leave(w, "ended") \/ UNCHANGED <<pc, claim, live, seen>>
<1>1. "ended" \in PC
  BY DEF PC
<1>2. CASE Leave(w, "ended")
  BY <1>1, <1>2, LeaveLocals
<1>3. CASE ~Leave(w, "ended")
  BY <1>3 DEF Settle, SuspendRow, LocalTypes
<1> QED BY <1>2, <1>3 DEF Settle, SuspendRow

LEMMA PublicationTypes ==
  ASSUME RowTypes, VersionTypes, LocalTypes, NEW w \in Writer, Publication(w)
  PROVE  RowTypes' /\ VersionTypes'
<1>1. StartedFrom(w) \in Nat
  BY DEF StartedFrom, LocalTypes, Claim
<1>2. Len(versions) + 1 \in Nat
  BY DEF VersionTypes
<1>3. RowTypes'
  BY <1>2 DEF Publication, RowTypes
<1>4. [by |-> w, start |-> StartedFrom(w)] \in [by : Writer \cup {None}, start : Nat]
  BY <1>1
<1>5. VersionTypes'
  BY <1>4 DEF Publication, VersionTypes
<1> QED BY <1>3, <1>5

LEMMA SetRunTypes ==
  ASSUME RunTypes, NEW r, NEW s \in RunStatus, SetRun(r, s), UNCHANGED ckpt
  PROVE  RunTypes'
BY DEF SetRun, RunTypes

\* Whatever run it is about: a writer without one changes no row.
LEMMA FailTypes ==
  ASSUME RunTypes, NEW r, FailOrInterrupt(r) \/ Fail(r), UNCHANGED ckpt
  PROVE  RunTypes'
<1>1. PICK s : SetRun(r, s) /\ (s \in RunStatus \/ s = run[r])
  BY DEF FailOrInterrupt, Fail, FailedFrom, InterruptedFrom, RunStatus
<1> QED BY <1>1 DEF SetRun, RunTypes

LEMMA ReportTypes ==
  ASSUME RunTypes, NEW w, Report(w), UNCHANGED ckpt
  PROVE  RunTypes'
<1>1. CASE UNCHANGED run
  BY <1>1 DEF RunTypes
<1> QED BY <1>1, FailTypes DEF Report

LEMMA LocalStep ==
  ASSUME TypeOK, OnlyRunsLoad, [Next]_vars
  PROVE  LocalTypes'
<1>1. LocalTypes /\ RunTypes /\ RowTypes /\ VersionTypes
  BY TypeParts
<1>2. NoClaim \in Claim /\ "ended" \in PC /\ "dead" \in PC
  BY DEF NoClaim, Claim, PC
<1>3. CASE UNCHANGED vars
  BY <1>1, <1>3 DEF vars, local, LocalTypes
<1>4. CASE \E r \in Run : CreateRun(r) \/ Interrupt(r) \/ PauseRun(r) \/ CancelRun(r) \/ ResumeRun(r)
  BY <1>1, <1>4 DEF CreateRun, Interrupt, PauseRun, CancelRun, ResumeRun, local, LocalTypes
<1>5. CASE ExpireRedis \/ ExpireRow
  BY <1>1, <1>5 DEF ExpireRedis, ExpireRow, local, LocalTypes
<1> SUFFICES ASSUME NEW w \in Writer,
                    \/ Step(w) \/ StartAttempt(w) \/ SavePoint(w) \/ Abort(w)
                    \/ LoseLease(w) \/ CancelContext(w) \/ Crash(w)
             PROVE  LocalTypes'
  BY <1>3, <1>4, <1>5 DEF Next
<1>6. CASE StartAttempt(w) \/ StartSummary(w) \/ LoseLease(w) \/ CancelContext(w)
  BY <1>1, <1>6 DEF StartAttempt, StartSummary, LoseLease, CancelContext, Goto, local, LocalTypes, PC
<1>7. CASE LoadCheckpoint(w)
  <2>1. RunOf[w] \in Run
    BY <1>7, LeaseConstants DEF LoadCheckpoint, OnlyRunsLoad, LeaseConstants
  <2> QED BY <1>1, <1>7, <2>1 DEF LoadCheckpoint, Goto, LocalTypes, RunTypes, PC
<1>8. ASSUME NEW from \in Claim, CheckActive(w, from) PROVE LocalTypes'
  <2>1. CASE Leave(w, "ended")
    BY <1>1, <1>2, <2>1, LeaveLocals
  <2>2. CASE ~Leave(w, "ended")
    BY <1>1, <1>8, <2>2 DEF CheckActive, Goto, LocalTypes, PC
  <2> QED BY <2>1, <2>2
<1>9. CASE StartLegacy(w) \/ StartRestore(w)
  <2>1. \A v \in ShownVersions : [epoch |-> 0, base |-> v] \in Claim
    BY <1>1 DEF ShownVersions, RowTypes, Claim
  <2> QED BY <1>2, <1>8, <1>9, <2>1 DEF StartLegacy, StartRestore
<1>10. CASE Lock(w)
  <2>1. CASE TurnedAway(w)
    BY <1>1, <2>1, TurnedAwayLocals
  <2>2. CASE ~TurnedAway(w)
    BY <1>1, <1>10, <2>2 DEF Lock, Goto, LocalTypes, PC
  <2> QED BY <2>1, <2>2
<1>11. CASE TakeClaim(w)
  <2>1. [epoch |-> row.epoch + 1, base |-> row.current] \in Claim
    BY <1>1 DEF RowTypes, Claim
  <2>2. CASE Refused(w)
    BY <1>1, <2>2 DEF Refused, Goto, LocalTypes, PC
  <2> QED BY <1>1, <1>11, <2>1, <2>2 DEF TakeClaim, Goto, LocalTypes, PC
<1>12. CASE Import(w)
  <2>1. CASE GiveUp(w, "fail") /\ UNCHANGED <<claim, seen>>
    BY <1>1, <2>1, GiveUpLocals
  <2>2. CASE /\ claim' = [claim EXCEPT ![w].base = Len(versions) + 1]
             /\ Goto(w, "working") /\ UNCHANGED <<live, outcome, seen>>
    <3>1. [claim[w] EXCEPT !.base = Len(versions) + 1] \in Claim
      <4>1. claim[w] \in Claim /\ Len(versions) + 1 \in Nat
        BY <1>1 DEF LocalTypes, VersionTypes
      <4> QED BY <4>1 DEF Claim
    <3>2. claim' = [claim EXCEPT ![w] = [claim[w] EXCEPT !.base = Len(versions) + 1]]
      BY <1>1, <2>2 DEF LocalTypes
    <3> QED BY <1>1, <2>2, <3>1, <3>2 DEF Goto, LocalTypes, PC
  <2> QED BY <1>12, <2>1, <2>2 DEF Import
<1>13. CASE Prepare(w) \/ SavePoint(w) \/ PassPoint(w) \/ FinishWork(w) \/ Abort(w)
            \/ Publish(w) \/ PublishRestoration(w) \/ Complete(w) \/ FailRow(w)
  <2>1. CASE \E o \in {"none", "suspend", "fail"} : GiveUp(w, o)
    BY <1>1, <1>13, <2>1, GiveUpLocals
       DEF Prepare, SavePoint, PassPoint, FinishWork, Abort, Publish, PublishRestoration,
           Complete, FailRow
  <2>2. CASE ~ \E o \in {"none", "suspend", "fail"} : GiveUp(w, o)
    BY <1>1, <1>13, <2>2
       DEF Prepare, SavePoint, PassPoint, FinishWork, Abort, Publish, PublishRestoration,
           Complete, FailRow, Goto, LocalTypes, PC
  <2> QED BY <2>1, <2>2
<1>14. CASE ReleaseRow(w)
  BY <1>1, <1>14 DEF ReleaseRow, Goto, LocalTypes, PC
<1>15. CASE Unlock(w)
  <2>1. CASE Leave(w, "ended")
    BY <1>1, <1>2, <2>1, LeaveLocals
  <2>2. CASE ~Leave(w, "ended")
    BY <1>1, <1>15, <2>2 DEF Unlock, Goto, local, LocalTypes, PC
  <2> QED BY <2>1, <2>2
<1>16. CASE Settle(w) \/ Crash(w)
  BY <1>1, <1>2, <1>16, LeaveLocals, SettleLocals DEF Crash
<1> QED
  BY <1>6, <1>7, <1>9, <1>10, <1>11, <1>12, <1>13, <1>14, <1>15, <1>16 DEF Step

LEMMA RowStep ==
  ASSUME TypeOK, [Next]_vars
  PROVE  RowTypes' /\ VersionTypes'
<1>1. LocalTypes /\ RowTypes /\ VersionTypes
  BY TypeParts
<1>2. CASE UNCHANGED <<row, versions>>
  BY <1>1, <1>2 DEF RowTypes, VersionTypes
<1>3. CASE ExpireRow
  BY <1>1, <1>3 DEF ExpireRow, RowTypes, VersionTypes
<1>4. ASSUME NEW w \in Writer, TakeClaim(w)
      PROVE  RowTypes' /\ VersionTypes'
  <2>1. CASE TakeRow(w)
    <3>1. row.epoch + 1 \in Nat /\ w # None
      BY <1>1, LeaseConstants DEF RowTypes, LeaseConstants
    <3> QED BY <1>1, <1>4, <2>1, <3>1 DEF TakeClaim, TakeRow, RowTypes, VersionTypes
  <2>2. CASE UNCHANGED row
    BY <1>1, <1>4, <2>2 DEF TakeClaim, RowTypes, VersionTypes
  <2> QED BY <1>4, <2>1, <2>2 DEF TakeClaim
<1>5. ASSUME NEW w \in Writer, Import(w) \/ Publish(w) \/ PublishRestoration(w) \/ Complete(w)
      PROVE  RowTypes' /\ VersionTypes'
  BY <1>1, <1>2, <1>5, PublicationTypes DEF Import, Publish, PublishRestoration, Complete, Commit
<1>6. ASSUME NEW w \in Writer, ReleaseRow(w)
      PROVE  RowTypes' /\ VersionTypes'
  BY <1>1, <1>6 DEF ReleaseRow, RowTypes, VersionTypes
<1>7. CASE \E w \in Writer :
             \/ StartAttempt(w) \/ SavePoint(w) \/ Abort(w) \/ LoseLease(w) \/ CancelContext(w)
             \/ Crash(w) \/ LoadCheckpoint(w) \/ StartLegacy(w) \/ StartRestore(w)
             \/ StartSummary(w) \/ Lock(w) \/ Prepare(w) \/ PassPoint(w) \/ FinishWork(w)
             \/ FailRow(w) \/ Unlock(w) \/ Settle(w)
  BY <1>2, <1>7 DEF StartAttempt, SavePoint, Abort, LoseLease, CancelContext, Crash,
     LoadCheckpoint, StartLegacy, StartRestore, CheckActive, StartSummary, Lock, Prepare,
     PassPoint, FinishWork, FailRow, Unlock, Settle, table
<1>8. CASE UNCHANGED vars \/ ExpireRedis
           \/ \E r \in Run : CreateRun(r) \/ Interrupt(r) \/ PauseRun(r) \/ CancelRun(r) \/ ResumeRun(r)
  BY <1>2, <1>8 DEF ExpireRedis, CreateRun, Interrupt, PauseRun, CancelRun, ResumeRun, vars, table
<1> QED BY <1>3, <1>4, <1>5, <1>6, <1>7, <1>8 DEF Next, Step

LEMMA RunStep ==
  ASSUME TypeOK, [Next]_vars
  PROVE  RunTypes'
<1>1. LocalTypes /\ RunTypes
  BY TypeParts
<1>2. CASE UNCHANGED <<run, ckpt>>
  BY <1>1, <1>2 DEF RunTypes
<1>3. {"pending", "running", "pausing", "cancelling", "parked", "completed", "ended"} \subseteq RunStatus
  BY DEF RunStatus
<1>4. CASE \E r \in Run : CreateRun(r) \/ Interrupt(r) \/ PauseRun(r) \/ CancelRun(r) \/ ResumeRun(r)
  BY <1>1, <1>3, <1>4, SetRunTypes DEF CreateRun, Interrupt, PauseRun, CancelRun, ResumeRun
<1>5. ASSUME NEW w \in Writer, StartAttempt(w) \/ Complete(w)
      PROVE  RunTypes'
  BY <1>1, <1>2, <1>3, <1>5, SetRunTypes DEF StartAttempt, Complete, Commit
<1>6. ASSUME NEW w \in Writer, FailRow(w) \/ Settle(w)
      PROVE  RunTypes'
  BY <1>1, <1>2, <1>3, <1>6, SetRunTypes, ReportTypes DEF FailRow, Settle, SuspendRow
<1>7. ASSUME NEW w \in Writer, SavePoint(w)
      PROVE  RunTypes'
  BY <1>1, <1>7 DEF SavePoint, RunTypes, LocalTypes
<1>8. CASE \E w \in Writer :
             \/ Abort(w) \/ LoseLease(w) \/ CancelContext(w)
             \/ Crash(w) \/ LoadCheckpoint(w) \/ StartLegacy(w) \/ StartRestore(w)
             \/ StartSummary(w) \/ Lock(w) \/ TakeClaim(w) \/ Prepare(w) \/ Import(w)
             \/ PassPoint(w) \/ FinishWork(w) \/ Publish(w) \/ PublishRestoration(w)
             \/ ReleaseRow(w) \/ Unlock(w)
  BY <1>2, <1>8 DEF Abort, LoseLease, CancelContext, Crash, TakeClaim, Import, Publish,
     PublishRestoration, ReleaseRow, LoadCheckpoint, StartLegacy, StartRestore, CheckActive,
     StartSummary, Lock, Prepare, PassPoint, FinishWork, Unlock, table
<1>9. CASE UNCHANGED vars \/ ExpireRedis \/ ExpireRow
  BY <1>2, <1>9 DEF ExpireRedis, ExpireRow, vars, table
<1> QED BY <1>4, <1>5, <1>6, <1>7, <1>8, <1>9 DEF Next, Step

LEMMA EnvStep ==
  ASSUME TypeOK, [Next]_vars
  PROVE  EnvTypes'
<1>1. EnvTypes /\ MaxFaults \in Nat
  BY TypeParts, LeaseConstants DEF LeaseConstants
<1>2. CASE UNCHANGED <<redis, env>>
  BY <1>1, <1>2 DEF EnvTypes, env
<1>3. faults \in 0 .. MaxFaults /\ (Fault => faults' \in 0 .. MaxFaults)
  BY <1>1 DEF EnvTypes, Fault
<1>4. CASE ExpireRedis \/ ExpireRow \/ \E w \in Writer : Crash(w)
  BY <1>1, <1>3, <1>4 DEF EnvTypes, ExpireRedis, ExpireRow, Crash
<1>5. ASSUME NEW w \in Writer,
             \/ Lock(w) \/ TakeClaim(w) \/ Import(w) \/ Complete(w) \/ FailRow(w)
             \/ ReleaseRow(w) \/ Unlock(w) \/ Settle(w)
      PROVE  EnvTypes'
  <2>1. redis' \in Writer \cup {None}
    BY <1>1, <1>5 DEF EnvTypes, Lock, TakeClaim, Import, Complete, FailRow, ReleaseRow, Unlock, Settle
  <2>2. lost' \subseteq Writer
    BY <1>1, <1>5 DEF EnvTypes, Lock, TakeClaim, Import, Complete, FailRow, ReleaseRow, Unlock,
       Settle, Unanswered, env
  <2>3. faults' \in 0 .. MaxFaults
    BY <1>3, <1>5 DEF Lock, TakeClaim, Import, Complete, FailRow, ReleaseRow, Unlock, Settle,
       SuspendRow, Report, Unanswered, env
  <2> QED BY <2>1, <2>2, <2>3 DEF EnvTypes
<1>6. CASE \E w \in Writer :
             \/ StartAttempt(w) \/ SavePoint(w) \/ Abort(w) \/ LoseLease(w) \/ CancelContext(w)
             \/ LoadCheckpoint(w) \/ StartLegacy(w) \/ StartRestore(w)
             \/ StartSummary(w) \/ Prepare(w) \/ PassPoint(w) \/ FinishWork(w)
             \/ Publish(w) \/ PublishRestoration(w)
  BY <1>2, <1>6 DEF StartAttempt, SavePoint, Abort, LoseLease, CancelContext,
     LoadCheckpoint, StartLegacy, StartRestore, CheckActive, StartSummary, Prepare,
     PassPoint, FinishWork, Publish, PublishRestoration
<1>7. CASE UNCHANGED vars
           \/ \E r \in Run : CreateRun(r) \/ Interrupt(r) \/ PauseRun(r) \/ CancelRun(r) \/ ResumeRun(r)
  BY <1>2, <1>7 DEF CreateRun, Interrupt, PauseRun, CancelRun, ResumeRun, vars
<1> QED BY <1>4, <1>5, <1>6, <1>7 DEF Next, Step

-----------------------------------------------------------------------------
(* Who moves, and where to                                                 *)

WriterStep(w) ==
  \/ Step(w) \/ StartAttempt(w) \/ SavePoint(w) \/ Abort(w)
  \/ LoseLease(w) \/ CancelContext(w) \/ Crash(w)
OtherStep ==
  \/ UNCHANGED vars \/ ExpireRedis \/ ExpireRow
  \/ \E r \in Run : CreateRun(r) \/ Interrupt(r) \/ PauseRun(r) \/ CancelRun(r) \/ ResumeRun(r)

LEMMA Steps ==
  ASSUME [Next]_vars
  PROVE  OtherStep \/ \E w \in Writer : WriterStep(w)
BY DEF Next, WriterStep, OtherStep

\* A writer changes the locals of no other writer.
LEMMA Alone ==
  ASSUME LocalTypes, NEW w \in Writer, WriterStep(w), NEW v \in Writer, v # w
  PROVE  pc'[v] = pc[v] /\ claim'[v] = claim[v] /\ seen'[v] = seen[v]
<1>1. CASE \E l \in PC : Leave(w, l)
  BY <1>1 DEF Leave, Goto, LocalTypes
<1>2. CASE UNCHANGED <<claim, seen>> /\ \E l : Goto(w, l)
  BY <1>2 DEF Goto, LocalTypes
<1>3. CASE UNCHANGED <<pc, claim, seen>>
  BY <1>3
<1>4. ASSUME NEW from, CheckActive(w, from) PROVE pc'[v] = pc[v] /\ claim'[v] = claim[v] /\ seen'[v] = seen[v]
  BY <1>1, <1>4 DEF CheckActive, Goto, LocalTypes, PC
<1>5. CASE LoadCheckpoint(w) \/ TakeClaim(w) \/ Import(w)
  BY <1>5 DEF LoadCheckpoint, TakeClaim, Import, Refused, GiveUp, Goto, LocalTypes
<1>6. CASE Lock(w) \/ Unlock(w) \/ Settle(w) \/ Crash(w)
  <2>1. CASE TurnedAway(w)
    BY <1>1, <1>2, <2>1, TurnedAwayLocals DEF PC
  <2>2. CASE Settle(w)
    BY <1>1, <1>3, <2>2, SettleLocals DEF PC
  <2> QED BY <1>1, <1>2, <1>6, <2>1, <2>2 DEF Lock, Unlock, Crash, PC, local
<1>7. CASE LoseLease(w) \/ CancelContext(w)
  BY <1>3, <1>7 DEF LoseLease, CancelContext
<1>8. CASE StartAttempt(w) \/ StartSummary(w) \/ Prepare(w) \/ SavePoint(w) \/ PassPoint(w)
           \/ FinishWork(w) \/ Abort(w) \/ Publish(w) \/ PublishRestoration(w) \/ Complete(w)
           \/ FailRow(w) \/ ReleaseRow(w)
  BY <1>2, <1>8 DEF StartAttempt, StartSummary, Prepare, SavePoint, PassPoint, FinishWork,
     Abort, Publish, PublishRestoration, Complete, FailRow, ReleaseRow, GiveUp, local
<1> QED
  BY <1>4, <1>5, <1>6, <1>7, <1>8 DEF WriterStep, Step, StartLegacy, StartRestore

\* Time and users leave the writers' locals and the versions alone.
LEMMA Still ==
  ASSUME RowTypes, OtherStep
  PROVE  /\ UNCHANGED <<pc, local, versions, ckpt, lost>>
         /\ row'.owner = row.owner /\ row'.epoch = row.epoch /\ row'.current = row.current
         /\ redis' \in {redis, None}
<1>1. CASE ExpireRow
  BY <1>1 DEF ExpireRow, RowTypes, local
<1> QED
  BY <1>1 DEF OtherStep, ExpireRedis, CreateRun, Interrupt, PauseRun, CancelRun, ResumeRun,
     vars, table, local, env

\* The life of a writer: a claim is taken once, and given back by Release or
\* not at all; what is dead stays dead.
LEMMA Moves ==
  ASSUME LocalTypes, NEW w \in Writer, WriterStep(w), pc'[w] # pc[w]
  PROVE  /\ pc[w] # "dead"
         /\ pc'[w] # "new"
         /\ pc'[w] = "loading" => StartAttempt(w)
         /\ pc'[w] = "claiming" => Lock(w)
         /\ pc[w] = "claiming" => TakeClaim(w) \/ pc'[w] = "dead"
         /\ pc'[w] \in Taken => pc[w] \in Taken \/ TakeClaim(w)
         /\ pc[w] \in Taken =>
              pc'[w] \in Taken \/ pc'[w] = "dead" \/ (pc[w] = "releasing" /\ ReleaseRow(w))
         /\ pc[w] = "unlocking" => Unlock(w) \/ pc'[w] = "dead"
<1> DEFINE From(l) == pc[w] = l
           To(l) == pc'[w] = l
<1>1. \A l : (Goto(w, l) \/ Leave(w, l) => To(l))
  BY DEF Leave, Goto, LocalTypes
<1>2. \A o : GiveUp(w, o) => To("releasing")
  BY <1>1 DEF GiveUp
<1>3. CASE StartAttempt(w) \/ LoadCheckpoint(w) \/ StartLegacy(w) \/ StartRestore(w)
           \/ StartSummary(w) \/ Lock(w)
  BY <1>1, <1>3, TurnedAwayLocals DEF StartAttempt, LoadCheckpoint, StartLegacy, StartRestore,
     CheckActive, StartSummary, Lock, Taken, Holding
<1>4. CASE TakeClaim(w)
  BY <1>1, <1>4 DEF TakeClaim, Refused, Taken, Holding
<1>5. CASE Prepare(w) \/ Import(w) \/ PassPoint(w) \/ FinishWork(w) \/ SavePoint(w) \/ Abort(w)
           \/ Publish(w) \/ PublishRestoration(w) \/ Complete(w) \/ FailRow(w)
  <2>1. pc[w] \in Taken \ {"releasing"}
    BY <1>5 DEF Prepare, Import, PassPoint, FinishWork, SavePoint, Abort, Publish,
       PublishRestoration, Complete, FailRow, Taken, Holding
  <2>2. pc'[w] \in Taken
    BY <1>1, <1>2, <1>5 DEF Prepare, Import, PassPoint, FinishWork, SavePoint, Abort, Publish,
       PublishRestoration, Complete, FailRow, Taken, Holding
  <2> QED BY <2>1, <2>2 DEF Taken, Holding
<1>6. CASE ReleaseRow(w) \/ Unlock(w) \/ Settle(w) \/ Crash(w)
  <2>1. CASE Settle(w)
    BY <1>1, <2>1, SettleLocals DEF Settle, Taken, Holding
  <2> QED BY <1>1, <1>6, <2>1 DEF ReleaseRow, Unlock, Crash, Taken, Holding
<1>7. CASE LoseLease(w) \/ CancelContext(w)
  BY <1>7 DEF LoseLease, CancelContext
<1> QED BY <1>3, <1>4, <1>5, <1>6, <1>7 DEF WriterStep, Step

LEMMA LoadStep ==
  ASSUME LocalTypes, RowTypes, OnlyRunsLoad, [Next]_vars
  PROVE  OnlyRunsLoad'
<1>1. CASE OtherStep
  BY <1>1, Still DEF OnlyRunsLoad
<1>2. ASSUME NEW w \in Writer, WriterStep(w)
      PROVE  OnlyRunsLoad'
  <2>1. \A v \in Writer : v # w => pc'[v] = pc[v]
    BY <1>2, Alone
  <2>2. pc'[w] = "loading" => pc[w] = "loading" \/ StartAttempt(w)
    BY <1>2, Moves
  <2> QED BY <2>1, <2>2 DEF OnlyRunsLoad, StartAttempt
<1> QED BY <1>1, <1>2, Steps

LEMMA TypeInit ==
  ASSUME Init
  PROVE  TypeOK /\ OnlyRunsLoad
<1>1. NoClaim \in Claim
  BY DEF NoClaim, Claim
<1>2. LocalTypes /\ OnlyRunsLoad
  BY <1>1 DEF Init, LocalTypes, OnlyRunsLoad, PC
<1>3. RunTypes
  BY <1>1 DEF Init, RunTypes, RunStatus
<1>4. EnvTypes
  BY LeaseConstants DEF Init, EnvTypes, LeaseConstants
<1>5. PICK n \in Earlier :
        /\ row = [epoch |-> n, owner |-> None, alive |-> FALSE, current |-> n]
        /\ versions = [v \in 1 .. n |-> [by |-> None, start |-> v - 1]]
  BY DEF Init
<1>6. n \in Nat
  BY LeaseConstants DEF LeaseConstants
<1>7. RowTypes
  BY <1>5, <1>6 DEF RowTypes
<1>8. \A v \in 1 .. n : [by |-> None, start |-> v - 1] \in [by : Writer \cup {None}, start : Nat]
  OBVIOUS
<1>9. VersionTypes
  BY <1>5, <1>6, <1>8, IsASeq DEF VersionTypes
<1> QED BY <1>2, <1>3, <1>4, <1>7, <1>9, TypeParts

\* Every variable keeps its type: the lease row, the version rows and the run
\* rows stay well formed whatever fails, and a row that is alive has an owner.
THEOREM TypeCorrect == Spec => []TypeOK
<1>1. Init => TypeOK /\ OnlyRunsLoad
  BY TypeInit
<1>2. TypeOK /\ OnlyRunsLoad /\ [Next]_vars => (TypeOK /\ OnlyRunsLoad)'
  <2> SUFFICES ASSUME TypeOK, OnlyRunsLoad, [Next]_vars
               PROVE  (TypeOK /\ OnlyRunsLoad)'
    OBVIOUS
  <2>1. LocalTypes /\ RowTypes
    BY TypeParts
  <2>2. OnlyRunsLoad'
    BY <2>1, LoadStep
  <2>3. TypeOK'
    BY LocalStep, RowStep, RunStep, EnvStep
       DEF TypeOK, LocalTypes, RowTypes, RunTypes, VersionTypes, EnvTypes
  <2> QED BY <2>2, <2>3
<1> QED BY <1>1, <1>2, PTL DEF Spec

-----------------------------------------------------------------------------
(* Claims and who holds the two locks                                      *)

\* Only TakeClaim gives the row a number and a writer a claim.
LEMMA NumbersStay ==
  ASSUME TypeOK, NEW w \in Writer, WriterStep(w), ~TakeClaim(w)
  PROVE  /\ row'.epoch = row.epoch
         /\ row'.owner # row.owner =>
              ReleaseRow(w) /\ pc[w] = "releasing" /\ OwnRow(w) /\ row'.owner = None
         /\ claim'[w].epoch \in {claim[w].epoch, 0}
         /\ pc'[w] \in Taken => claim'[w].epoch = claim[w].epoch
<1>1. LocalTypes /\ RowTypes /\ VersionTypes
  BY TypeParts
<1>2. NoClaim.epoch = 0
  BY DEF NoClaim
<1>3. \A l : Leave(w, l) => claim'[w].epoch = 0 /\ pc'[w] = l
  BY <1>1, <1>2 DEF Leave, Goto, LocalTypes
<1>4. \A o : GiveUp(w, o) => pc'[w] = "releasing"
  BY <1>1 DEF GiveUp, Goto, LocalTypes
<1>5. CASE Import(w)
  <2>1. CASE claim' = [claim EXCEPT ![w].base = Len(versions) + 1]
    <3>1. claim'[w] = [claim[w] EXCEPT !.base = Len(versions) + 1]
      BY <1>1, <2>1 DEF LocalTypes
    <3>2. claim'[w].epoch = claim[w].epoch
      <4>1. claim[w] \in Claim
        BY <1>1 DEF LocalTypes
      <4> QED BY <3>1, <4>1 DEF Claim
    <3> QED BY <1>1, <1>5, <3>2 DEF Import, Publication, RowTypes
  <2> QED BY <1>1, <1>5, <2>1 DEF Import, Publication, RowTypes
<1>6. CASE ReleaseRow(w)
  BY <1>1, <1>6 DEF ReleaseRow, RowTypes
<1>7. CASE Publish(w) \/ PublishRestoration(w) \/ Complete(w)
  BY <1>1, <1>7 DEF Publish, PublishRestoration, Complete, Commit, Publication, RowTypes
<1>8. CASE StartLegacy(w) \/ StartRestore(w) \/ Lock(w) \/ Unlock(w) \/ Settle(w) \/ Crash(w)
  <2>1. row' = row
    BY <1>8 DEF StartLegacy, StartRestore, CheckActive, Lock, Unlock, Settle, Crash, table
  <2>2. claim' = claim \/ Leave(w, "ended") \/ Leave(w, "dead")
    BY <1>1, <1>8, TurnedAwayLocals, SettleLocals
       DEF StartLegacy, StartRestore, CheckActive, Lock, Unlock, Crash, local
  <2> QED BY <1>3, <2>1, <2>2 DEF Taken, Holding
<1>9. CASE \/ StartAttempt(w) \/ SavePoint(w) \/ Abort(w) \/ LoseLease(w) \/ CancelContext(w)
           \/ LoadCheckpoint(w) \/ StartSummary(w) \/ Prepare(w) \/ PassPoint(w)
           \/ FinishWork(w) \/ FailRow(w)
  BY <1>9 DEF StartAttempt, SavePoint, Abort, LoseLease, CancelContext, LoadCheckpoint,
     StartSummary, Prepare, PassPoint, FinishWork, FailRow, table, local
<1> QED BY <1>5, <1>6, <1>7, <1>8, <1>9 DEF WriterStep, Step

\* What TakeClaim does, whether or not its answer arrives.
LEMMA ClaimTaken ==
  ASSUME TypeOK, NEW w \in Writer, TakeClaim(w)
  PROVE  /\ pc[w] = "claiming" /\ row'.current = row.current
         /\ \/ /\ row.owner = None \/ ~row.alive
               /\ row'.epoch = row.epoch + 1 /\ row'.owner = w
               /\ \/ /\ pc'[w] = "preparing"
                     /\ claim'[w] = [epoch |-> row.epoch + 1, base |-> row.current]
                  \/ pc'[w] = "unlocking" /\ claim'[w] = claim[w] /\ w \in lost'
            \/ row' = row /\ pc'[w] = "unlocking" /\ claim'[w] = claim[w]
         /\ seen' = seen
<1>1. LocalTypes /\ RowTypes
  BY TypeParts
<1>2. TakeRow(w) => row'.epoch = row.epoch + 1 /\ row'.owner = w /\ row'.current = row.current
  BY <1>1 DEF TakeRow, RowTypes
<1> QED BY <1>1, <1>2 DEF TakeClaim, Refused, Unanswered, Vacant, Goto, LocalTypes

LEMMA ClaimStep ==
  ASSUME TypeOK, ClaimsAreNumbered, [Next]_vars
  PROVE  ClaimsAreNumbered'
<1>1. LocalTypes /\ RowTypes
  BY TypeParts
<1>2. /\ row.epoch \in Nat
      /\ \A v \in Writer : claim[v].epoch \in Nat /\ claim[v].epoch <= row.epoch
  BY <1>1 DEF RowTypes, LocalTypes, Claim, ClaimsAreNumbered
<1>3. CASE OtherStep
  BY <1>1, <1>3, Still DEF ClaimsAreNumbered, local
<1>4. ASSUME NEW w \in Writer, WriterStep(w)
      PROVE  ClaimsAreNumbered'
  <2>1. \A v \in Writer : v # w => pc'[v] = pc[v] /\ claim'[v] = claim[v]
    BY <1>1, <1>4, Alone
  <2>2. CASE TakeClaim(w)
    <3>1. "claiming" \notin Taken /\ "unlocking" \notin Taken
      BY DEF Taken, Holding
    <3>2. CASE claim'[w] = [epoch |-> row.epoch + 1, base |-> row.current] /\ row'.epoch = row.epoch + 1
      BY <1>2, <2>1, <3>2 DEF ClaimsAreNumbered
    <3>3. CASE claim'[w] = claim[w] /\ pc'[w] \notin Taken /\ row'.epoch \in {row.epoch, row.epoch + 1}
      BY <1>2, <2>1, <3>3 DEF ClaimsAreNumbered
    <3> QED BY <2>2, <3>1, <3>2, <3>3, ClaimTaken
  <2>3. CASE ~TakeClaim(w)
    <3>1. pc'[w] \in Taken => pc[w] \in Taken /\ claim'[w].epoch = claim[w].epoch
      BY <1>1, <1>4, <2>3, NumbersStay, Moves
    <3>2. row'.epoch = row.epoch /\ claim'[w].epoch \in {claim[w].epoch, 0}
      BY <1>4, <2>3, NumbersStay
    <3> QED BY <1>2, <2>1, <3>1, <3>2 DEF ClaimsAreNumbered
  <2> QED BY <2>2, <2>3
<1> QED BY <1>3, <1>4, Steps

LEMMA LostGrows ==
  ASSUME [Next]_vars
  PROVE  lost \subseteq lost'
<1>1. CASE OtherStep
  BY <1>1 DEF OtherStep, ExpireRedis, ExpireRow, CreateRun, Interrupt, PauseRun, CancelRun,
     ResumeRun, vars, env
<1>2. ASSUME NEW w \in Writer, WriterStep(w)
      PROVE  lost \subseteq lost'
  BY <1>2 DEF WriterStep, Step, StartAttempt, SavePoint, Abort, LoseLease, CancelContext, Crash,
     LoadCheckpoint, StartLegacy, StartRestore, CheckActive, StartSummary, Lock, TakeClaim,
     Prepare, Import, PassPoint, FinishWork, Publish, PublishRestoration, Complete, FailRow,
     ReleaseRow, Unlock, Settle, Unanswered, env
<1> QED BY <1>1, <1>2, Steps

LEMMA RowHolderStep ==
  ASSUME TypeOK, ClaimsAreNumbered, RowIsAccountedFor, [Next]_vars
  PROVE  RowIsAccountedFor'
<1>1. LocalTypes /\ RowTypes /\ None \notin Writer
  BY TypeParts, LeaseConstants DEF LeaseConstants
<1>2. CASE OtherStep
  BY <1>1, <1>2, Still DEF RowIsAccountedFor, local
<1>3. ASSUME NEW w \in Writer, WriterStep(w), NEW v \in Writer, row'.owner = v
      PROVE  (pc'[v] \in Taken /\ claim'[v].epoch = row'.epoch) \/ v \in lost' \/ pc'[v] = "dead"
  <2>1. v # w => pc'[v] = pc[v] /\ claim'[v] = claim[v]
    BY <1>1, <1>3, Alone
  <2>2. lost \subseteq lost'
    BY <1>3, LostGrows
  <2>3. CASE TakeClaim(w) /\ row' # row
    BY <1>3, <2>3, ClaimTaken DEF Taken, Holding
  <2>4. CASE TakeClaim(w) /\ row' = row
    <3>1. pc[w] = "claiming" /\ "claiming" \notin Taken /\ "claiming" # "dead"
      BY <2>4, ClaimTaken DEF Taken, Holding
    <3> QED BY <1>3, <2>1, <2>2, <2>4, <3>1 DEF RowIsAccountedFor
  <2>5. CASE ~TakeClaim(w)
    <3>1. row.owner = v /\ row'.epoch = row.epoch
      BY <1>1, <1>3, <2>5, NumbersStay
    <3>2. (pc[v] \in Taken /\ claim[v].epoch = row.epoch) \/ v \in lost \/ pc[v] = "dead"
      BY <3>1 DEF RowIsAccountedFor
    <3>3. CASE v # w
      BY <2>1, <2>2, <3>1, <3>2, <3>3
    <3>4. CASE v = w /\ pc[w] \in Taken /\ claim[w].epoch = row.epoch
      <4>1. CASE pc'[w] \in Taken
        BY <1>3, <2>5, <3>1, <3>4, <4>1, NumbersStay
      <4>2. CASE ReleaseRow(w)
        <5>1. OwnRow(w)
          BY <3>1, <3>4 DEF OwnRow
        <5>2. row' # [row EXCEPT !.owner = None, !.alive = FALSE]
          BY <1>1, <1>3 DEF RowTypes
        <5> QED BY <3>4, <4>2, <5>1, <5>2 DEF ReleaseRow, Unanswered
      <4> QED BY <1>1, <1>3, <3>4, <4>1, <4>2, Moves
    <3>5. CASE v = w /\ (w \in lost \/ pc[w] = "dead")
      BY <1>1, <1>3, <2>2, <3>5, Moves
    <3> QED BY <3>2, <3>3, <3>4, <3>5
  <2> QED BY <2>3, <2>4, <2>5
<1> QED BY <1>2, <1>3, Steps DEF RowIsAccountedFor

LEMMA KeyHolderStep ==
  ASSUME TypeOK, KeyIsAccountedFor, [Next]_vars
  PROVE  KeyIsAccountedFor'
<1>1. LocalTypes /\ RowTypes /\ None \notin Writer
  BY TypeParts, LeaseConstants DEF LeaseConstants
<1> DEFINE Known == Taken \cup {"claiming", "unlocking"}
<1>2. CASE OtherStep
  BY <1>1, <1>2, Still DEF KeyIsAccountedFor, local
<1>3. ASSUME NEW w \in Writer, WriterStep(w), NEW v \in Writer, redis' = v
      PROVE  pc'[v] \in Known \/ v \in lost' \/ pc'[v] = "dead"
  <2>1. v # w => pc'[v] = pc[v]
    BY <1>1, <1>3, Alone
  <2>2. lost \subseteq lost'
    BY <1>3, LostGrows
  <2>3. CASE Lock(w) /\ redis' # redis
    <3>1. v = w /\ (Goto(w, "claiming") \/ Unanswered(w))
      BY <1>1, <1>3, <2>3 DEF Lock
    <3> QED BY <1>1, <3>1 DEF Unanswered, Goto, LocalTypes
  <2>4. CASE ~(Lock(w) /\ redis' # redis)
    <3>1. redis = v
      BY <1>1, <1>3, <2>4 DEF WriterStep, Step, StartAttempt, SavePoint, Abort, LoseLease, CancelContext,
         Crash, LoadCheckpoint, StartLegacy, StartRestore, CheckActive, StartSummary, TakeClaim,
         Prepare, Import, PassPoint, FinishWork, Publish, PublishRestoration, Complete, FailRow,
         ReleaseRow, Unlock, Settle
    <3>2. pc[v] \in Known \/ v \in lost \/ pc[v] = "dead"
      BY <3>1 DEF KeyIsAccountedFor
    <3>3. CASE v = w /\ pc[w] = "claiming" /\ TakeClaim(w)
      BY <3>3, ClaimTaken DEF Taken, Holding
    <3>4. CASE v = w /\ pc[w] = "unlocking" /\ Unlock(w)
      BY <1>1, <1>3, <3>1, <3>4 DEF Unlock, Unanswered
    <3>5. CASE v = w /\ ReleaseRow(w)
      BY <1>1, <3>5 DEF ReleaseRow, Goto, LocalTypes
    <3> QED BY <1>1, <1>3, <2>1, <2>2, <3>2, <3>3, <3>4, <3>5, Moves
  <2> QED BY <2>3, <2>4
<1> QED BY <1>2, <1>3, Steps DEF KeyIsAccountedFor

-----------------------------------------------------------------------------
(* Versions                                                                *)

\* The pointer and the versions move together, and only for a writer that
\* holds the row under the latest claim.
LEMMA OnlyPublication ==
  ASSUME TypeOK, NEW w \in Writer, WriterStep(w)
  PROVE  \/ /\ versions' = versions /\ row'.current = row.current
            /\ ~TakeClaim(w) /\ pc'[w] \in Taken => claim'[w] = claim[w]
         \/ /\ versions' = Append(versions, [by |-> w, start |-> StartedFrom(w)])
            /\ row'.current = Len(versions) + 1
            /\ row.owner = w /\ row.epoch = claim[w].epoch /\ row.current = claim[w].base
            /\ \/ pc[w] = "importing" /\ pc'[w] = "working" /\ run' = run
                  /\ claim'[w].epoch = claim[w].epoch /\ claim'[w].base = Len(versions) + 1
               \/ pc[w] = "importing" /\ pc'[w] = "releasing" /\ claim' = claim /\ run' = run
               \/ pc[w] = "frozen" /\ pc'[w] = "releasing" /\ claim' = claim
                  /\ Kind[w] \in {"legacy", "restore"} /\ run' = run
                  /\ (Kind[w] = "restore" => NoActiveRun)
               \/ pc[w] = "frozen" /\ pc'[w] \in {"releasing", "failing"} /\ claim' = claim
                  /\ Kind[w] = "run" /\ run[RunOf[w]] = "running" /\ SetRun(RunOf[w], "completed")
<1>1. LocalTypes /\ RowTypes /\ VersionTypes
  BY TypeParts
<1>2. \A l : Goto(w, l) \/ Leave(w, l) => pc'[w] = l
  BY <1>1 DEF Goto, Leave, LocalTypes
<1>3. \A o : GiveUp(w, o) => pc'[w] = "releasing"
  BY <1>2 DEF GiveUp
<1>4. Publication(w) =>
        /\ versions' = Append(versions, [by |-> w, start |-> StartedFrom(w)])
        /\ row'.current = Len(versions) + 1
        /\ row.owner = w /\ row.epoch = claim[w].epoch /\ row.current = claim[w].base
  BY <1>1 DEF Publication, Fenced, Owns, RowTypes
<1>5. CASE Import(w)
  <2>1. CASE Publication(w) /\ claim' = [claim EXCEPT ![w].base = Len(versions) + 1] /\ Goto(w, "working")
    <3>1. claim'[w].epoch = claim[w].epoch /\ claim'[w].base = Len(versions) + 1
      <4>1. claim'[w] = [claim[w] EXCEPT !.base = Len(versions) + 1] /\ claim[w] \in Claim
        BY <1>1, <2>1 DEF LocalTypes
      <4> QED BY <4>1 DEF Claim
    <3> QED BY <1>2, <1>4, <1>5, <2>1, <3>1 DEF Import
  <2> QED BY <1>3, <1>4, <1>5, <2>1 DEF Import
<1>6. CASE Publish(w) \/ PublishRestoration(w)
  BY <1>3, <1>4, <1>6 DEF Publish, PublishRestoration
<1>7. CASE Complete(w)
  BY <1>2, <1>3, <1>4, <1>7 DEF Complete, Commit
<1>8. CASE TakeClaim(w)
  BY <1>8, ClaimTaken DEF TakeClaim
<1>9. CASE ReleaseRow(w)
  BY <1>1, <1>9 DEF ReleaseRow, RowTypes
<1>10. CASE \/ StartAttempt(w) \/ SavePoint(w) \/ Abort(w) \/ LoseLease(w) \/ CancelContext(w)
            \/ LoadCheckpoint(w) \/ StartSummary(w) \/ Prepare(w) \/ PassPoint(w)
            \/ FinishWork(w) \/ FailRow(w)
  BY <1>10 DEF StartAttempt, SavePoint, Abort, LoseLease, CancelContext, LoadCheckpoint,
     StartSummary, Prepare, PassPoint, FinishWork, FailRow, table, local
<1>11. CASE Crash(w) \/ StartLegacy(w) \/ StartRestore(w) \/ Lock(w) \/ Unlock(w) \/ Settle(w)
  <2>1. versions' = versions /\ row' = row
    BY <1>11 DEF Crash, StartLegacy, StartRestore, CheckActive, Lock, Unlock, Settle, table
  <2>2. claim' = claim \/ Leave(w, "ended") \/ Leave(w, "dead")
    BY <1>1, <1>11, TurnedAwayLocals, SettleLocals
       DEF Crash, StartLegacy, StartRestore, CheckActive, Lock, Unlock, local
  <2> QED BY <1>2, <2>1, <2>2 DEF Taken, Holding
<1> QED BY <1>5, <1>6, <1>7, <1>8, <1>9, <1>10, <1>11 DEF WriterStep, Step

\* Appending a version leaves the earlier ones as they are.
LEMMA VersionsAppended ==
  ASSUME VersionTypes, NEW e \in [by : Writer \cup {None}, start : Nat], versions' = Append(versions, e)
  PROVE  /\ Len(versions) \in Nat /\ Len(versions') = Len(versions) + 1
         /\ versions'[Len(versions) + 1] = e
         /\ \A i \in 1 .. Len(versions) : versions'[i] = versions[i]
BY DEF VersionTypes

LEMMA VersionsDiffer ==
  ASSUME VersionTypes, NEW e
  PROVE  Append(versions, e) # versions
<1>1. Len(Append(versions, e)) = Len(versions) + 1 /\ Len(versions) \in Nat
  BY DEF VersionTypes
<1> QED BY <1>1

LEMMA LatestBaseStep ==
  ASSUME TypeOK, LinearHistory, ClaimsAreNumbered, LatestBaseIsCurrent, [Next]_vars
  PROVE  LatestBaseIsCurrent'
<1>1. LocalTypes /\ RowTypes /\ VersionTypes
  BY TypeParts
<1>2. /\ row.epoch \in Nat /\ Holding \subseteq Taken
      /\ \A v \in Writer : claim[v].epoch \in Nat /\ claim[v].epoch <= row.epoch
  BY <1>1 DEF RowTypes, LocalTypes, Claim, ClaimsAreNumbered, Taken
<1>3. CASE OtherStep
  BY <1>1, <1>3, Still DEF LatestBaseIsCurrent, local
<1>4. ASSUME NEW w \in Writer, WriterStep(w), NEW v \in Writer,
             pc'[v] \in Holding, claim'[v].epoch = row'.epoch
      PROVE  claim'[v].base = row'.current
  <2>1. v # w => pc'[v] = pc[v] /\ claim'[v] = claim[v]
    BY <1>1, <1>4, Alone
  <2>2. CASE TakeClaim(w)
    <3>1. v = w => pc'[w] = "preparing"
      BY <1>4, <2>2, ClaimTaken DEF Holding
    <3>2. CASE v = w
      BY <2>2, <3>1, <3>2, ClaimTaken
    <3>3. CASE v # w
      <4>1. row'.epoch = row.epoch
        BY <1>2, <1>4, <2>1, <2>2, <3>3, ClaimTaken
      <4> QED BY <1>4, <2>1, <2>2, <3>3, <4>1, ClaimTaken DEF LatestBaseIsCurrent
    <3> QED BY <3>2, <3>3
  <2>3. CASE ~TakeClaim(w)
    <3>1. row'.epoch = row.epoch /\ claim[v].epoch = row.epoch /\ pc[v] \in Taken
      BY <1>1, <1>2, <1>4, <2>1, <2>3, NumbersStay, Moves
    <3>2. pc[v] \in Holding
      <4>1. v = w /\ pc[w] \in {"failing", "releasing"} => pc'[w] \notin Holding
        <5>1. \A l : (Goto(w, l) \/ Leave(w, l)) => pc'[w] = l
          BY <1>1 DEF Leave, Goto, LocalTypes
        <5>2. ASSUME pc[w] \in {"failing", "releasing"}
              PROVE  \/ FailRow(w) \/ ReleaseRow(w) \/ Crash(w)
                     \/ LoseLease(w) \/ CancelContext(w)
          BY <1>4, <2>3, <5>2 DEF WriterStep, Step, StartAttempt, SavePoint, Abort, LoadCheckpoint,
             StartLegacy, StartRestore, CheckActive, StartSummary, Lock, Prepare, Import,
             PassPoint, FinishWork, Publish, PublishRestoration, Complete, Unlock, Settle, Holding
        <5> QED BY <5>1, <5>2 DEF FailRow, ReleaseRow, Crash, LoseLease, CancelContext, GiveUp, Holding
      <4> QED BY <1>4, <2>1, <3>1, <4>1 DEF Taken
    <3>3. claim[v].base = row.current
      BY <3>1, <3>2 DEF LatestBaseIsCurrent
    <3>4. CASE versions' = versions /\ row'.current = row.current
      <4>1. claim'[v].base = claim[v].base
        BY <1>2, <1>4, <2>1, <2>3, <3>4, OnlyPublication, VersionsDiffer
      <4> QED BY <3>3, <3>4, <4>1
    <3>5. CASE /\ row.owner = w /\ row.epoch = claim[w].epoch /\ row'.current = Len(versions) + 1
               /\ pc[w] \in Holding
               /\ (claim'[w].base = Len(versions) + 1 \/ pc'[w] \in {"releasing", "failing"})
      <4>1. v = w
        BY <1>2, <3>1, <3>2, <3>5 DEF ClaimsAreNumbered
      <4> QED BY <1>4, <3>5, <4>1 DEF Holding
    <3> QED BY <1>4, <3>4, <3>5, OnlyPublication DEF Holding
  <2> QED BY <2>2, <2>3
<1> QED BY <1>3, <1>4, Steps DEF LatestBaseIsCurrent

LEMMA CurrentGrows ==
  ASSUME TypeOK, LinearHistory, NEW w \in Writer, WriterStep(w)
  PROVE  row'.current \in {row.current, row.current + 1} /\ row.current \in Nat
<1>1. row.current \in Nat /\ Len(versions) = row.current
  BY TypeParts DEF RowTypes, LinearHistory
<1> QED BY <1>1, OnlyPublication

\* What a writer is looking at does not change while it holds a claim.
LEMMA SeenStays ==
  ASSUME LocalTypes, NEW w \in Writer, WriterStep(w), pc'[w] \in Taken
  PROVE  seen'[w] = seen[w]
<1>1. \A l : Goto(w, l) \/ Leave(w, l) => pc'[w] = l
  BY DEF Goto, Leave, LocalTypes
<1>2. CASE StartLegacy(w) \/ StartRestore(w) \/ LoadCheckpoint(w) \/ Crash(w) \/ Lock(w)
           \/ Unlock(w) \/ Settle(w)
  <2>1. pc'[w] \in {"locking", "ended", "dead", "settling", "claiming"}
    BY <1>1, <1>2, TurnedAwayLocals, SettleLocals
       DEF StartLegacy, StartRestore, CheckActive, LoadCheckpoint, Crash, Lock, Unlock, Settle
  <2> QED BY <2>1 DEF Taken, Holding
<1>3. CASE \/ StartAttempt(w) \/ SavePoint(w) \/ Abort(w) \/ LoseLease(w) \/ CancelContext(w)
           \/ StartSummary(w) \/ TakeClaim(w) \/ Prepare(w) \/ Import(w) \/ PassPoint(w)
           \/ FinishWork(w) \/ FailRow(w) \/ Publish(w) \/ PublishRestoration(w)
           \/ Complete(w) \/ ReleaseRow(w)
  BY <1>3 DEF StartAttempt, SavePoint, Abort, LoseLease, CancelContext, StartSummary, TakeClaim,
     Refused, Prepare, Import, PassPoint, FinishWork, FailRow, Publish, PublishRestoration,
     Complete, ReleaseRow, local
<1> QED BY <1>2, <1>3 DEF WriterStep, Step

\* How a writer comes to what it does under its claim.
LEMMA WorkMoves ==
  ASSUME LocalTypes, NEW w \in Writer, WriterStep(w), pc'[w] # pc[w]
  PROVE  /\ pc'[w] = "preparing" => TakeClaim(w)
         /\ pc'[w] = "importing" => Prepare(w)
         /\ pc'[w] = "working" => Prepare(w) \/ Import(w) \/ pc[w] = "point"
         /\ pc'[w] = "point" => SavePoint(w)
         /\ pc'[w] = "frozen" => FinishWork(w)
<1>1. \A l : Goto(w, l) \/ Leave(w, l) => pc'[w] = l
  BY DEF Goto, Leave, LocalTypes
<1>2. \A o : GiveUp(w, o) => pc'[w] = "releasing"
  BY <1>1 DEF GiveUp
<1>3. CASE \/ StartLegacy(w) \/ StartRestore(w) \/ LoadCheckpoint(w) \/ Crash(w) \/ Lock(w)
           \/ Unlock(w) \/ Settle(w) \/ StartAttempt(w) \/ StartSummary(w) \/ TakeClaim(w)
           \/ LoseLease(w) \/ CancelContext(w) \/ ReleaseRow(w)
  BY <1>1, <1>3, TurnedAwayLocals, SettleLocals
     DEF StartLegacy, StartRestore, CheckActive, LoadCheckpoint, Crash, Lock, Unlock, StartAttempt, StartSummary, TakeClaim, Refused, LoseLease, CancelContext, ReleaseRow
<1>4. CASE Prepare(w) \/ Import(w) \/ SavePoint(w) \/ PassPoint(w) \/ FinishWork(w)
  BY <1>1, <1>2, <1>4 DEF Prepare, Import, SavePoint, PassPoint, FinishWork
<1>5. CASE Abort(w) \/ Publish(w) \/ PublishRestoration(w) \/ Complete(w) \/ FailRow(w)
  BY <1>1, <1>2, <1>5 DEF Abort, Publish, PublishRestoration, Complete, FailRow
<1> QED BY <1>3, <1>4, <1>5 DEF WriterStep, Step

\* A restoration begins when there is something to restore.
LEMMA FreshWriter ==
  ASSUME LocalTypes, RowTypes, NEW w \in Writer, WriterStep(w), Kind[w] = "restore",
         pc[w] \in {"new", "ended", "dead"}, pc'[w] \notin {"new", "ended", "dead"}
  PROVE  row.current > 0
<1>1. \A l : Goto(w, l) \/ Leave(w, l) => pc'[w] = l
  BY DEF Goto, Leave, LocalTypes
<1>2. CASE StartRestore(w)
  BY <1>2 DEF StartRestore, ShownVersions, RowTypes
<1>3. CASE \/ StartLegacy(w) \/ StartSummary(w) \/ StartAttempt(w)
  BY <1>3 DEF StartLegacy, StartSummary, StartAttempt
<1>4. CASE \/ LoadCheckpoint(w) \/ Crash(w) \/ Lock(w) \/ Unlock(w) \/ Settle(w) \/ TakeClaim(w)
           \/ LoseLease(w) \/ CancelContext(w) \/ ReleaseRow(w)
           \/ Prepare(w) \/ Import(w) \/ SavePoint(w) \/ PassPoint(w) \/ FinishWork(w)
           \/ Abort(w) \/ Publish(w) \/ PublishRestoration(w) \/ Complete(w) \/ FailRow(w)
  BY <1>1, <1>4 DEF LoadCheckpoint, Crash, Lock, Unlock, Settle, TakeClaim, LoseLease,
     CancelContext, ReleaseRow, Prepare, Import, SavePoint, PassPoint, FinishWork, Abort,
     Publish, PublishRestoration, Complete, FailRow, Holding
<1> QED BY <1>2, <1>3, <1>4 DEF WriterStep, Step

LEMMA StartStep ==
  ASSUME TypeOK, LinearHistory, StartsAtItsBase, [Next]_vars
  PROVE  StartsAtItsBase'
<1>1. LocalTypes /\ RowTypes /\ VersionTypes
  BY TypeParts
<1>2. Holding \subseteq Taken /\ Based \subseteq Holding /\ row.current \in Nat
  BY <1>1 DEF Holding, Taken, Based, RowTypes
<1>3. CASE OtherStep
  BY <1>1, <1>3, Still DEF StartsAtItsBase, BaseOfCheckpoint, ImportIsFirst, RestoresSomething,
     BaseOfUser, Resuming, local
<1>4. ASSUME NEW w \in Writer, WriterStep(w), NEW v \in Writer
      PROVE  (BaseOfCheckpoint(v) /\ ImportIsFirst(v) /\ RestoresSomething(v) /\ BaseOfUser(v))'
  <2>1. row.current > 0 => row'.current > 0
    BY <1>2, <1>4, CurrentGrows
  <2>2. /\ BaseOfCheckpoint(v) /\ ImportIsFirst(v) /\ RestoresSomething(v) /\ BaseOfUser(v)
    BY DEF StartsAtItsBase
  <2>3. CASE v # w
    <3>1. pc'[v] = pc[v] /\ claim'[v] = claim[v] /\ seen'[v] = seen[v]
      BY <1>1, <1>4, <2>3, Alone
    <3> QED BY <2>1, <2>2, <3>1 DEF BaseOfCheckpoint, ImportIsFirst, RestoresSomething, BaseOfUser, Resuming
  <2>4. CASE v = w
    <3>1. pc'[w] \in Taken => seen'[w] = seen[w]
      BY <1>1, <1>4, SeenStays
    <3>2. CASE pc'[w] \in Holding /\ ~TakeClaim(w) /\ versions' = versions
      <4>1. claim'[w] = claim[w] /\ seen'[w] = seen[w] /\ row'.current = row.current
        BY <1>1, <1>2, <1>4, <3>1, <3>2, OnlyPublication, VersionsDiffer
      <4>2. pc'[w] = "preparing" => pc[w] = "preparing"
        BY <1>1, <1>4, <3>2, WorkMoves
      <4>3. pc[w] \in Holding
        BY <1>1, <1>2, <1>4, <3>2, WorkMoves DEF Holding, Prepare, Import, SavePoint, FinishWork
      <4>4. RestoresSomething(w)'
        BY <1>2, <2>1, <2>2, <2>4, <4>1, <4>3 DEF RestoresSomething, Holding
      <4>5. CASE Prepare(w)
        <5>1. Resuming(w) /\ pc'[w] \in Based => seen[w].base = claim[w].base
          BY <1>1, <4>2, <3>2, <1>4, <4>1, <4>3, <4>5
             DEF Prepare, BaselineChanged, GiveUp, Goto, LocalTypes, Based
        <5>2. pc'[w] = "importing" => Imports(w)
          BY <1>1, <4>5 DEF Prepare, GiveUp, Goto, LocalTypes
        <5>3. pc'[w] # "frozen"
          BY <1>1, <4>5 DEF Prepare, GiveUp, Goto, LocalTypes
        <5>4. Imports(w) /\ pc[w] = "preparing" => claim[w].base = 0 /\ ~Resuming(w) /\ LegacyFiles /\ Kind[w] # "restore"
          BY <2>2, <2>4 DEF Imports, RestoresSomething, Holding
        <5> QED BY <2>4, <4>1, <4>4, <4>5, <5>1, <5>2, <5>3, <5>4
               DEF Prepare, BaseOfCheckpoint, ImportIsFirst, BaseOfUser, Resuming
      <4>6. CASE ~Prepare(w)
        <5>1. pc'[w] \in Based => pc[w] \in Based
          BY <1>1, <1>4, <4>6, WorkMoves DEF Based, Import, SavePoint, FinishWork
        <5>2. pc'[w] = "importing" => pc[w] = "importing"
          BY <1>1, <1>4, <4>6, WorkMoves
        <5>3. Kind[w] = "restore" /\ pc'[w] = "frozen" => seen[w].base = claim[w].base
          <6>1. CASE pc[w] = "frozen"
            BY <2>2, <2>4, <6>1 DEF BaseOfUser
          <6>2. CASE FinishWork(w)
            BY <1>1, <6>2 DEF FinishWork, Ready, ExpectedIsBase, GiveUp, Goto, LocalTypes
          <6> QED BY <1>1, <1>4, <6>1, <6>2, WorkMoves
        <5> QED BY <2>2, <2>4, <4>1, <4>4, <5>1, <5>2, <5>3
               DEF BaseOfCheckpoint, ImportIsFirst, BaseOfUser, Resuming
      <4> QED BY <4>5, <4>6
    <3>3. CASE versions' # versions
      <4>1. CASE pc[w] = "importing" /\ pc'[w] = "working" /\ claim'[w].base = Len(versions) + 1
        <5>1. seen'[w] = seen[w] /\ ~Resuming(w) /\ Kind[w] # "restore"
          BY <1>2, <2>2, <2>4, <3>1, <4>1 DEF ImportIsFirst, Holding
        <5> QED BY <2>4, <4>1, <5>1 DEF BaseOfCheckpoint, ImportIsFirst, RestoresSomething, BaseOfUser, Resuming
      <4>2. CASE pc[w] \in {"importing", "frozen"} /\ pc'[w] \in {"releasing", "failing"}
        BY <2>1, <2>2, <2>4, <4>2 DEF BaseOfCheckpoint, ImportIsFirst, RestoresSomething, BaseOfUser, Based, Holding
      <4> QED BY <1>4, <3>3, <4>1, <4>2, OnlyPublication
    <3>4. CASE TakeClaim(w)
      <4>1. pc[w] = "claiming" /\ row'.current = row.current /\ seen' = seen
            /\ \/ pc'[w] = "preparing" /\ claim'[w].base = row.current
               \/ pc'[w] = "unlocking"
        BY <3>4, ClaimTaken
      <4> QED BY <2>2, <2>4, <4>1 DEF BaseOfCheckpoint, ImportIsFirst, RestoresSomething, BaseOfUser, Based, Holding
    <3>5. CASE pc'[w] \notin Holding
      <4>1. Kind[w] = "restore" /\ pc'[w] \notin {"new", "ended", "dead"} => row'.current > 0
        <5>1. CASE pc[w] \in {"new", "ended", "dead"} /\ pc'[w] # pc[w] /\ Kind[w] = "restore"
                   /\ pc'[w] \notin {"ended", "dead"}
          BY <1>1, <1>2, <1>4, <5>1, <2>1, FreshWriter
        <5> QED BY <2>1, <2>2, <2>4, <5>1 DEF RestoresSomething
      <4> QED BY <2>4, <3>5, <4>1 DEF BaseOfCheckpoint, ImportIsFirst, RestoresSomething, BaseOfUser, Based, Holding
    <3> QED BY <2>4, <3>2, <3>3, <3>4, <3>5
  <2> QED BY <2>3, <2>4
<1> QED BY <1>3, <1>4, Steps DEF StartsAtItsBase

LEMMA HistoryStep ==
  ASSUME TypeOK, LinearHistory, StartsAtItsBase, [Next]_vars
  PROVE  LinearHistory'
<1>1. LocalTypes /\ RowTypes /\ VersionTypes
  BY TypeParts
<1>2. Len(versions) \in Nat
  BY <1>1 DEF VersionTypes
<1>3. CASE versions' = versions /\ row'.current = row.current
  BY <1>3 DEF LinearHistory
<1>4. CASE OtherStep
  BY <1>1, <1>3, <1>4, Still
<1>5. ASSUME NEW w \in Writer, WriterStep(w), versions' # versions
      PROVE  LinearHistory'
  <2> DEFINE e == [by |-> w, start |-> StartedFrom(w)]
  <2>1. /\ versions' = Append(versions, e) /\ row'.current = Len(versions) + 1
        /\ row.current = claim[w].base /\ pc[w] \in {"importing", "frozen"}
    BY <1>5, OnlyPublication
  <2>2. StartedFrom(w) = claim[w].base
    <3>1. BaseOfCheckpoint(w) /\ ImportIsFirst(w) /\ BaseOfUser(w)
      BY DEF StartsAtItsBase
    <3> QED BY <2>1, <3>1 DEF StartedFrom, BaseOfCheckpoint, ImportIsFirst, BaseOfUser, Based
  <2>3. e.start = Len(versions)
    BY <2>1, <2>2 DEF LinearHistory
  <2>4. e \in [by : Writer \cup {None}, start : Nat]
    BY <1>2, <2>3, <2>2, <2>1 DEF LinearHistory
  <2>5. /\ Len(versions') = Len(versions) + 1 /\ versions'[Len(versions) + 1] = e
        /\ \A i \in 1 .. Len(versions) : versions'[i] = versions[i]
    BY <1>1, <2>1, <2>4, VersionsAppended
  <2> HIDE DEF e
  <2> QED BY <1>2, <2>1, <2>3, <2>5 DEF LinearHistory
<1>6. ASSUME NEW w \in Writer, WriterStep(w), versions' = versions
      PROVE  row'.current = row.current
  BY <1>1, <1>6, OnlyPublication, VersionsDiffer
<1> QED BY <1>3, <1>4, <1>5, <1>6, Steps

-----------------------------------------------------------------------------
(* Checkpoints                                                             *)

\* Only the safe point of an attempt saves, and under the latest claim.
LEMMA OnlySavePoint ==
  ASSUME LocalTypes, NEW w \in Writer, WriterStep(w)
  PROVE  \/ ckpt' = ckpt
         \/ /\ ckpt' = [ckpt EXCEPT ![RunOf[w]] = claim[w]]
            /\ Kind[w] = "run" /\ pc[w] = "working" /\ pc'[w] = "point" /\ Owns(w)
            /\ run[RunOf[w]] \in {"running", "pausing"}
            /\ UNCHANGED <<row, versions, run, claim, seen>>
<1>1. CASE SavePoint(w)
  BY <1>1 DEF SavePoint, Checkpointable, Goto, LocalTypes
<1>2. CASE \/ Step(w) \/ StartAttempt(w) \/ Abort(w) \/ LoseLease(w) \/ CancelContext(w)
           \/ Crash(w)
  BY <1>2 DEF Step, StartAttempt, Abort, LoseLease, CancelContext, Crash,
     LoadCheckpoint, StartLegacy, StartRestore, CheckActive, StartSummary, Lock, TakeClaim,
     Prepare, Import, PassPoint, FinishWork, Publish, PublishRestoration, Complete, FailRow,
     ReleaseRow, Unlock, Settle, table
<1> QED BY <1>1, <1>2 DEF WriterStep

\* An attempt looks at a checkpoint of its run or at none.
LEMMA SeenOfRun ==
  ASSUME LocalTypes, NEW w \in Writer, WriterStep(w), Kind[w] = "run"
  PROVE  \/ seen'[w] \in {seen[w], NoClaim}
         \/ pc[w] = "loading" /\ seen'[w] = ckpt[RunOf[w]] /\ UNCHANGED <<ckpt, row>>
<1>1. \A l : Leave(w, l) => seen'[w] = NoClaim
  BY DEF Leave, LocalTypes
<1>2. CASE LoadCheckpoint(w)
  BY <1>2 DEF LoadCheckpoint, LocalTypes, table
<1>3. CASE Lock(w) \/ Unlock(w) \/ Settle(w) \/ Crash(w)
  BY <1>1, <1>3, TurnedAwayLocals, SettleLocals DEF Lock, Unlock, Crash, local
<1>4. CASE \/ StartAttempt(w) \/ SavePoint(w) \/ Abort(w) \/ LoseLease(w) \/ CancelContext(w)
           \/ StartSummary(w) \/ TakeClaim(w) \/ Prepare(w) \/ Import(w) \/ PassPoint(w)
           \/ FinishWork(w) \/ Publish(w) \/ PublishRestoration(w) \/ Complete(w) \/ FailRow(w)
           \/ ReleaseRow(w)
  BY <1>4 DEF StartAttempt, SavePoint, Abort, LoseLease, CancelContext, StartSummary, TakeClaim,
     Refused, Prepare, Import, PassPoint, FinishWork, Publish, PublishRestoration, Complete,
     FailRow, ReleaseRow, local
<1> QED BY <1>2, <1>3, <1>4 DEF WriterStep, Step, StartLegacy, StartRestore

LEMMA ImportedStep ==
  ASSUME TypeOK, OnlyRunsLoad, ImportedFirst, [Next]_vars
  PROVE  ImportedFirst'
<1>1. LocalTypes /\ RowTypes /\ VersionTypes /\ RunTypes
  BY TypeParts
<1>2. CASE OtherStep
  BY <1>1, <1>2, Still DEF ImportedFirst, Saved, local
<1> SUFFICES ASSUME LegacyFiles, NEW w \in Writer, WriterStep(w)
             PROVE  ImportedFirst'
  BY <1>2, Steps DEF ImportedFirst
<1>3. \A v \in Writer : v # w => pc'[v] = pc[v] /\ claim'[v] = claim[v] /\ seen'[v] = seen[v]
  BY <1>1, Alone
<1>4. \A v \in Writer : Kind[v] = "run" => RunOf[v] \in Run
  BY LeaseConstants DEF LeaseConstants
<1>5. Edits \subseteq Taken /\ Edits = {"working", "point", "frozen"}
  BY DEF Edits, Based, Taken, Holding
<1>6. ASSUME NEW r \in Run, Saved(r)'
      PROVE  ckpt'[r].base > 0
  <2>1. CASE ckpt' = ckpt
    BY <1>6, <2>1 DEF ImportedFirst, Saved
  <2>2. CASE /\ ckpt' = [ckpt EXCEPT ![RunOf[w]] = claim[w]]
             /\ Kind[w] = "run" /\ pc[w] = "working"
    BY <1>1, <1>4, <1>5, <1>6, <2>2 DEF ImportedFirst, Saved, RunTypes
  <2> QED BY <1>1, <2>1, <2>2, OnlySavePoint
<1>7. ASSUME NEW v \in Writer, Kind[v] = "run", seen'[v] # NoClaim
      PROVE  seen'[v].base > 0
  BY <1>1, <1>3, <1>4, <1>7, SeenOfRun DEF ImportedFirst, Saved
<1>8. ASSUME NEW v \in Writer, Kind[v] = "run", pc'[v] \in Edits
      PROVE  claim'[v].base > 0
  <2>1. CASE v # w
    BY <1>3, <1>8, <2>1 DEF ImportedFirst
  <2>2. CASE v = w /\ versions' # versions
    <3>1. Len(versions) \in Nat
      BY <1>1 DEF VersionTypes
    <3>2. claim'[w].base = Len(versions) + 1
      BY <1>5, <1>8, <2>2, OnlyPublication
    <3> QED BY <2>2, <3>1, <3>2
  <2>3. CASE v = w /\ versions' = versions
    <3>1. ~TakeClaim(w)
      BY <1>5, <1>8, <2>3, ClaimTaken
    <3>2. claim'[w] = claim[w]
      BY <1>1, <1>5, <1>8, <2>3, <3>1, OnlyPublication, VersionsDiffer
    <3>3. CASE pc[w] \in Edits
      BY <1>8, <2>3, <3>2, <3>3 DEF ImportedFirst
    <3>4. CASE Prepare(w) /\ pc'[w] = "working"
      <4>1. ~BaselineChanged(w) /\ ~Imports(w)
        BY <1>1, <3>4 DEF Prepare, GiveUp, Goto, LocalTypes
      <4>2. claim[w].base # 0 \/ (Resuming(w) /\ claim[w].base = seen[w].base)
        BY <1>8, <2>3, <4>1 DEF Imports, Writes, BaselineChanged
      <4>3. claim[w].base \in Nat
        BY <1>1 DEF LocalTypes, Claim
      <4> QED BY <1>8, <2>3, <3>2, <4>2, <4>3 DEF ImportedFirst, Resuming
    <3>5. pc[w] \notin Edits => Prepare(w) /\ pc'[w] = "working"
      <4>1. ASSUME Import(w), pc[w] \notin Edits PROVE FALSE
        <5>1. ~(Publication(w))
          BY <1>1, <2>3, VersionsDiffer DEF Publication
        <5>2. pc'[w] = "releasing"
          BY <1>1, <4>1, <5>1 DEF Import, GiveUp, Goto, LocalTypes
        <5> QED BY <1>5, <1>8, <2>3, <5>2
      <4> QED BY <1>1, <1>5, <1>8, <2>3, <4>1, WorkMoves DEF SavePoint, FinishWork
    <3> QED BY <3>3, <3>4, <3>5
  <2> QED BY <2>1, <2>2, <2>3
<1> QED BY <1>6, <1>7, <1>8 DEF ImportedFirst

-----------------------------------------------------------------------------
(* Runs                                                                    *)

\* No attempt revives a run or undoes its completion, and only a publication
\* completes one.
LEMMA RunOfWriter ==
  ASSUME TypeOK, NEW w \in Writer, WriterStep(w), NEW r \in Run, run'[r] # run[r]
  PROVE  /\ run[r] # "completed"
         /\ run'[r] # "absent"
         /\ run'[r] \in Active => run[r] \in Active
         /\ run'[r] = "completed" => r = RunOf[w] /\ Complete(w) /\ versions' # versions
<1>1. RunTypes /\ VersionTypes
  BY TypeParts
<1>2. \A q, s : SetRun(q, s) => q = r /\ run'[r] = s
  BY <1>1 DEF SetRun, RunTypes
<1>3. \A q : FailOrInterrupt(q) \/ Fail(q) => q = r /\ run'[r] \in {"ended", "parked", run[r]}
                                              /\ run[r] \notin {"completed", "ended"}
                                              /\ (run'[r] = "parked" => run[r] \in Active)
  BY <1>2 DEF FailOrInterrupt, Fail, FailedFrom, InterruptedFrom, Active
<1>4. CASE FailRow(w)
  BY <1>3, <1>4 DEF FailRow, Report, Active
<1>5. CASE Settle(w)
  <2>1. CASE SetRun(RunOf[w], "parked") /\ run[RunOf[w]] \in {"running", "pausing"}
    BY <1>2, <2>1 DEF Active
  <2> QED BY <1>3, <1>5, <2>1 DEF Settle, SuspendRow, Report, Active
<1>6. CASE StartAttempt(w)
  BY <1>2, <1>6 DEF StartAttempt, Active
<1>7. CASE Complete(w)
  <2>1. Commit(w) /\ run[RunOf[w]] = "running"
    BY <1>7 DEF Complete
  <2>2. versions' # versions
    BY <1>1, <2>1, VersionsDiffer DEF Commit, Publication
  <2> QED BY <1>2, <1>7, <2>1, <2>2 DEF Commit, Active
<1>8. CASE \/ SavePoint(w) \/ Abort(w) \/ LoseLease(w) \/ CancelContext(w) \/ Crash(w)
           \/ LoadCheckpoint(w) \/ StartLegacy(w) \/ StartRestore(w) \/ StartSummary(w) \/ Lock(w)
           \/ TakeClaim(w) \/ Prepare(w) \/ Import(w) \/ PassPoint(w) \/ FinishWork(w)
           \/ Publish(w) \/ PublishRestoration(w) \/ ReleaseRow(w) \/ Unlock(w)
  BY <1>8 DEF SavePoint, Abort, LoseLease, CancelContext, Crash, LoadCheckpoint, StartLegacy,
     StartRestore, CheckActive, StartSummary, Lock, TakeClaim, Prepare, Import, PassPoint,
     FinishWork, Publish, PublishRestoration, ReleaseRow, Unlock, table
<1> QED BY <1>4, <1>5, <1>6, <1>7, <1>8 DEF WriterStep, Step

LEMMA RunOfOthers ==
  ASSUME TypeOK, OtherStep, NEW r \in Run, run'[r] # run[r]
  PROVE  /\ run[r] # "completed" /\ run'[r] \notin {"absent", "completed"}
         /\ run'[r] \in Active => run[r] \in Active \/ CreateRun(r)
<1>1. RunTypes
  BY TypeParts
<1>2. \A q, s : SetRun(q, s) => q = r /\ run'[r] = s
  BY <1>1 DEF SetRun, RunTypes
<1>3. PICK q \in Run : CreateRun(q) \/ Interrupt(q) \/ PauseRun(q) \/ CancelRun(q) \/ ResumeRun(q)
  BY DEF OtherStep, ExpireRedis, ExpireRow, vars, table
<1>4. CASE CreateRun(q)
  BY <1>2, <1>4 DEF CreateRun
<1>5. CASE Interrupt(q) \/ PauseRun(q) \/ CancelRun(q) \/ ResumeRun(q)
  BY <1>2, <1>5 DEF Interrupt, PauseRun, CancelRun, ResumeRun, Active
<1> QED BY <1>3, <1>4, <1>5

LEMMA OneActiveStep ==
  ASSUME TypeOK, OneActiveRun, [Next]_vars
  PROVE  OneActiveRun'
<1>1. LocalTypes /\ RowTypes /\ RunTypes
  BY TypeParts
<1>2. CASE OtherStep
  <2>1. CASE \E r \in Run : CreateRun(r)
    <3>1. PICK r \in Run : CreateRun(r)
      BY <2>1
    <3>2. \A q \in Run : q # r => run'[q] = run[q]
      BY <1>1, <3>1 DEF CreateRun, SetRun, RunTypes
    <3>3. \A q \in Run : run[q] \notin Active
      BY <3>1 DEF CreateRun, Busy
    <3>4. run'[r] # "absent" /\ ckpt' = ckpt
      BY <1>1, <3>1 DEF CreateRun, SetRun, RunTypes
    <3> QED BY <3>2, <3>3, <3>4 DEF OneActiveRun, Saved
  <2>2. CASE ~ \E r \in Run : CreateRun(r)
    <3>1. \A r \in Run : /\ run'[r] \in Active => run[r] \in Active
                         /\ run'[r] = "absent" => run[r] = "absent"
      BY <1>2, <2>2, RunOfOthers
    <3>2. ckpt' = ckpt
      BY <1>1, <1>2, Still
    <3> QED BY <3>1, <3>2 DEF OneActiveRun, Saved
  <2> QED BY <2>1, <2>2
<1>3. ASSUME NEW w \in Writer, WriterStep(w)
      PROVE  OneActiveRun'
  <2>1. \A r \in Run : /\ run'[r] \in Active => run[r] \in Active
                       /\ run'[r] = "absent" => run[r] = "absent"
    BY <1>3, RunOfWriter
  <2>2. ASSUME NEW r \in Run, run'[r] = "absent"
        PROVE  ~Saved(r)'
    <3>1. run[r] = "absent" /\ ~Saved(r)
      BY <2>1, <2>2 DEF OneActiveRun
    <3>2. ckpt'[r] = ckpt[r]
      BY <1>1, <1>3, <3>1, OnlySavePoint DEF RunTypes
    <3> QED BY <3>1, <3>2 DEF Saved
  <2> QED BY <2>1, <2>2 DEF OneActiveRun
<1> QED BY <1>2, <1>3, Steps

LEMMA OldStep ==
  ASSUME TypeOK, LinearHistory, ClaimsAreNumbered, CheckpointsAreOld, [Next]_vars
  PROVE  CheckpointsAreOld'
<1>1. LocalTypes /\ RowTypes /\ RunTypes /\ VersionTypes
  BY TypeParts
<1>2. /\ row.epoch \in Nat /\ row.current \in Nat
      /\ \A w \in Writer : claim[w].epoch \in Nat /\ claim[w].base \in Nat
      /\ \A r \in Run : ckpt[r].epoch \in Nat /\ ckpt[r].base \in Nat
  BY <1>1 DEF LocalTypes, RowTypes, RunTypes, Claim
<1>3. CASE OtherStep
  BY <1>1, <1>3, Still DEF CheckpointsAreOld, local
<1>4. ASSUME NEW w \in Writer, WriterStep(w)
      PROVE  CheckpointsAreOld'
  <2>1. row'.current \in {row.current, row.current + 1}
    BY <1>4, CurrentGrows
  <2>2. row'.epoch \in {row.epoch, row.epoch + 1}
    BY <1>4, NumbersStay, ClaimTaken
  <2>3. ASSUME NEW r \in Run
        PROVE  ckpt'[r].epoch <= row'.epoch /\ ckpt'[r].base <= row'.current
    <3>1. CASE ckpt' = ckpt
      BY <1>2, <2>1, <2>2, <3>1 DEF CheckpointsAreOld
    <3>2. CASE ckpt' = [ckpt EXCEPT ![RunOf[w]] = claim[w]] /\ row' = row
      <4>1. ckpt'[r] \in {ckpt[r], claim[w]}
        BY <1>1, <3>2 DEF RunTypes
      <4> QED BY <3>2, <4>1 DEF CheckpointsAreOld, ClaimsAreNumbered
    <3> QED BY <1>1, <1>4, <3>1, <3>2, OnlySavePoint
  <2>4. ASSUME NEW v \in Writer
        PROVE  claim'[v].base <= row'.current
    <3>1. CASE v # w
      <4>1. claim'[v] = claim[v]
        BY <1>1, <1>4, <3>1, Alone
      <4> QED BY <1>2, <2>1, <4>1 DEF CheckpointsAreOld
    <3>2. claim'[w].base \in {claim[w].base, 0, row.current} \/ claim'[w].base = row'.current
      <4>1. CASE TakeClaim(w)
        BY <4>1, ClaimTaken
      <4>2. CASE Import(w)
        <5>1. CASE versions' # versions
          BY <1>2, <1>4, <5>1, OnlyPublication
        <5>2. CASE versions' = versions
          BY <1>1, <4>2, <5>2, VersionsDiffer DEF Import, Publication
        <5> QED BY <5>1, <5>2
      <4>3. CASE claim' = claim \/ claim' = [claim EXCEPT ![w] = NoClaim]
        BY <1>1, <4>3 DEF LocalTypes, NoClaim
      <4>4. CASE ~TakeClaim(w) /\ ~Import(w)
        <5>1. claim' = claim \/ claim' = [claim EXCEPT ![w] = NoClaim]
          BY <1>4, <4>4 DEF WriterStep, Step, StartAttempt, SavePoint, Abort, LoseLease,
             CancelContext, Crash, LoadCheckpoint, StartLegacy, StartRestore, CheckActive,
             StartSummary, Lock, Prepare, PassPoint, FinishWork, Publish, PublishRestoration,
             Complete, FailRow, ReleaseRow, Unlock, Settle, SuspendRow, TurnedAway, Leave, local
        <5> QED BY <4>3, <5>1
      <4> QED BY <4>1, <4>2, <4>4
    <3> QED BY <1>2, <2>1, <3>1, <3>2 DEF CheckpointsAreOld
  <2> QED BY <2>3, <2>4 DEF CheckpointsAreOld
<1> QED BY <1>3, <1>4, Steps

\* A completed run is completed by the version it publishes, and by it alone.
LEMMA CompletedStep ==
  ASSUME TypeOK, LinearHistory, StartsAtItsBase, ImportedFirst, RunHasItsVersion, [Next]_vars
  PROVE  RunHasItsVersion'
<1>1. LocalTypes /\ RowTypes /\ RunTypes /\ VersionTypes
  BY TypeParts
<1>2. CASE versions' = versions
  <2>1. \A r \in Run : run'[r] = "completed" <=> run[r] = "completed"
    <3>1. CASE OtherStep
      BY <3>1, RunOfOthers
    <3>2. ASSUME NEW w \in Writer, WriterStep(w)
          PROVE  \A r \in Run : run'[r] = "completed" <=> run[r] = "completed"
      BY <1>2, <3>2, RunOfWriter
    <3> QED BY <3>1, <3>2, Steps
  <2> QED BY <1>2, <2>1 DEF RunHasItsVersion, PublishedBy, Imported
<1>3. ASSUME NEW w \in Writer, WriterStep(w), versions' # versions
      PROVE  RunHasItsVersion'
  <2>0. PICK n : n = Len(versions) + 1
    OBVIOUS
  <2>1. /\ versions' = Append(versions, [by |-> w, start |-> StartedFrom(w)])
        /\ row.current = claim[w].base
        /\ \/ pc[w] = "importing" /\ run' = run
           \/ pc[w] = "frozen" /\ Kind[w] \in {"legacy", "restore"} /\ run' = run
           \/ pc[w] = "frozen" /\ Kind[w] = "run" /\ SetRun(RunOf[w], "completed")
    BY <1>3, OnlyPublication
  <2>2. [by |-> w, start |-> StartedFrom(w)] \in [by : Writer \cup {None}, start : Nat]
    BY <1>1 DEF StartedFrom, LocalTypes, Claim
  <2>3. /\ Len(versions) \in Nat /\ Len(versions') = n /\ versions'[n].by = w
        /\ \A i \in 1 .. Len(versions) : versions'[i] = versions[i]
    BY <1>1, <2>0, <2>1, <2>2, VersionsAppended
  <2>4. row.current = Len(versions) /\ w # None
    BY LeaseConstants DEF LinearHistory, LeaseConstants
  <2>5. ASSUME NEW r \in Run
        PROVE  /\ PublishedBy(n, r)' <=> RunOf[w] = r /\ ~Imported(n)
               /\ \A i \in 1 .. Len(versions) : PublishedBy(i, r)' <=> PublishedBy(i, r)
    BY <2>3, <2>4 DEF PublishedBy, Imported
  <2>6. ASSUME NEW r \in Run
        PROVE  run'[r] = "completed" <=> run[r] = "completed" \/ (RunOf[w] = r /\ ~Imported(n))
    <3>1. CASE pc[w] = "importing" /\ run' = run
      <4>1. claim[w].base = 0 /\ LegacyFiles
        BY <3>1 DEF StartsAtItsBase, ImportIsFirst
      <4>2. n = 1
        <5>1. Len(versions) = 0
          BY <2>1, <2>4, <4>1
        <5> QED BY <2>0, <5>1
      <4> QED BY <3>1, <4>1, <4>2 DEF Imported
    <3>2. CASE Kind[w] \in {"legacy", "restore"} /\ run' = run
      BY <3>2, LeaseConstants DEF LeaseConstants
    <3>3. CASE pc[w] = "frozen" /\ Kind[w] = "run" /\ SetRun(RunOf[w], "completed")
      <4>1. LegacyFiles => claim[w].base > 0
        BY <3>3 DEF ImportedFirst, Edits, Based
      <4>2. ~Imported(n)
        BY <2>0, <2>1, <2>3, <2>4, <4>1 DEF Imported
      <4> QED BY <1>1, <3>3, <4>2 DEF SetRun, RunTypes
    <3> QED BY <2>1, <3>1, <3>2, <3>3
  <2>7. 1 .. Len(versions') = (1 .. Len(versions)) \cup {n}
    BY <2>0, <2>3
  <2> QED BY <2>5, <2>6, <2>7 DEF RunHasItsVersion
<1> QED BY <1>2, <1>3, Steps, <1>1, Still

\* Nothing comes between a checkpoint and the resumption of its run, as long as
\* the older endpoints, which look for an active run before they start and not
\* when they publish, are left alone.
LEMMA RunBaseStep ==
  ASSUME TypeOK, LinearHistory, StartsAtItsBase, ImportedFirst, LatestBaseIsCurrent,
         OneActiveRun, CheckpointsAreOld, RunBaseIsCurrent, [Next]_vars,
         \A w \in Writer : Kind[w] # "legacy"
  PROVE  RunBaseIsCurrent'
<1>1. LocalTypes /\ RowTypes /\ RunTypes /\ VersionTypes
  BY TypeParts
<1>2. CASE OtherStep
  <2>1. ckpt' = ckpt /\ row'.current = row.current
    BY <1>1, <1>2, Still
  <2>2. \A r \in Run : run'[r] \in Active => run[r] \in Active \/ run[r] = "absent"
    BY <1>2, RunOfOthers DEF CreateRun
  <2> QED BY <2>1, <2>2 DEF RunBaseIsCurrent, OneActiveRun, Saved
<1>3. ASSUME NEW w \in Writer, WriterStep(w)
      PROVE  RunBaseIsCurrent'
  <2>1. \A r \in Run : run'[r] \in Active => run[r] \in Active
    BY <1>3, RunOfWriter
  <2>2. CASE versions' = versions /\ ckpt' = ckpt
    <3>1. row'.current = row.current
      BY <1>1, <1>3, <2>2, OnlyPublication, VersionsDiffer
    <3> QED BY <2>1, <2>2, <3>1 DEF RunBaseIsCurrent, Saved
  <2>3. CASE ckpt' # ckpt
    <3>1. /\ ckpt' = [ckpt EXCEPT ![RunOf[w]] = claim[w]] /\ row' = row
          /\ Owns(w) /\ pc[w] = "working"
      BY <1>1, <1>3, <2>3, OnlySavePoint
    <3>2. claim[w].base = row.current
      BY <3>1 DEF LatestBaseIsCurrent, Owns, Holding
    <3>3. \A r \in Run : ckpt'[r] \in {ckpt[r], claim[w]} /\ (ckpt'[r] = ckpt[r] \/ ckpt'[r] = claim[w])
      BY <1>1, <3>1 DEF RunTypes
    <3> QED BY <2>1, <3>1, <3>2, <3>3 DEF RunBaseIsCurrent, Saved
  <2>4. CASE versions' # versions
    <3>1. ckpt' = ckpt
      BY <1>1, <1>3, <2>4, OnlySavePoint
    <3>2. /\ row.current = claim[w].base
          /\ \/ pc[w] = "importing" /\ run' = run
             \/ NoActiveRun /\ run' = run
             \/ run[RunOf[w]] = "running" /\ SetRun(RunOf[w], "completed") /\ Kind[w] = "run"
      BY <1>3, <2>4, OnlyPublication
    <3>3. CASE pc[w] = "importing"
      <4>1. claim[w].base = 0 /\ LegacyFiles
        BY <3>3 DEF StartsAtItsBase, ImportIsFirst
      <4>2. \A r \in Run : ~Saved(r)
        <5>1. \A r \in Run : ckpt[r].base \in Nat /\ ckpt[r].base <= 0
          BY <1>1, <3>2, <4>1 DEF CheckpointsAreOld, RunTypes, Claim
        <5> QED BY <4>1, <5>1 DEF ImportedFirst
      <4> QED BY <3>1, <4>2 DEF RunBaseIsCurrent, Saved
    <3>4. CASE NoActiveRun /\ run' = run
      BY <3>4 DEF RunBaseIsCurrent, NoActiveRun, Busy
    <3>5. CASE run[RunOf[w]] = "running" /\ SetRun(RunOf[w], "completed") /\ Kind[w] = "run"
      <4>1. RunOf[w] \in Run
        BY <3>5, LeaseConstants DEF LeaseConstants
      <4>2. \A r \in Run : run[r] \in Active => r = RunOf[w]
        BY <3>5, <4>1 DEF OneActiveRun, Active
      <4>3. run'[RunOf[w]] = "completed"
        BY <1>1, <3>5, <4>1 DEF SetRun, RunTypes
      <4> QED BY <2>1, <4>2, <4>3 DEF RunBaseIsCurrent, Active
    <3> QED BY <3>2, <3>3, <3>4, <3>5
  <2> QED BY <2>2, <2>3, <2>4
<1> QED BY <1>2, <1>3, Steps

-----------------------------------------------------------------------------
(* The theorems                                                            *)

\* What holds of every reachable state.
Protocol ==
  /\ TypeOK /\ OnlyRunsLoad
  /\ ClaimsAreNumbered /\ RowIsAccountedFor /\ KeyIsAccountedFor
  /\ LinearHistory /\ LatestBaseIsCurrent /\ StartsAtItsBase
  /\ ImportedFirst /\ OneActiveRun /\ CheckpointsAreOld /\ RunHasItsVersion

LEMMA ProtocolInit ==
  ASSUME Init
  PROVE  Protocol /\ RunBaseIsCurrent
<1>1. PICK n \in Earlier :
        /\ row = [epoch |-> n, owner |-> None, alive |-> FALSE, current |-> n]
        /\ versions = [v \in 1 .. n |-> [by |-> None, start |-> v - 1]]
  BY DEF Init
<1>2. n \in Nat /\ None \notin Writer
  BY LeaseConstants DEF LeaseConstants
<1>3. TypeOK /\ OnlyRunsLoad
  BY TypeInit
<1>4. /\ \A w \in Writer : pc[w] \in {"new", "ended"} /\ claim[w] = NoClaim /\ seen[w] = NoClaim
      /\ \A r \in Run : ckpt[r] = NoClaim /\ run[r] = "absent"
      /\ redis = None
  BY DEF Init
<1>5. NoClaim.epoch = 0 /\ NoClaim.base = 0 /\ row.epoch = n /\ row.current = n /\ row.owner = None
  BY <1>1 DEF NoClaim
<1>6. ClaimsAreNumbered /\ RowIsAccountedFor /\ KeyIsAccountedFor
  BY <1>2, <1>4, <1>5 DEF ClaimsAreNumbered, RowIsAccountedFor, KeyIsAccountedFor, Taken, Holding
<1>7. Len(versions) = n /\ \A i \in 1 .. n : versions[i].by = None /\ versions[i].start = i - 1
  <2>1. \A v \in 1 .. n : [by |-> None, start |-> v - 1] \in [by : {None}, start : Nat]
    OBVIOUS
  <2>2. versions \in Seq([by : {None}, start : Nat]) /\ DOMAIN versions = 1 .. n
    BY <1>1, <1>2, <2>1, IsASeq
  <2>3. Len(versions) = n
    BY <1>2, <2>2, LenProperties
  <2> QED BY <1>1, <2>3
<1>8. LinearHistory
  BY <1>5, <1>7 DEF LinearHistory
<1>9. RunHasItsVersion
  BY <1>4, <1>7 DEF RunHasItsVersion, PublishedBy
<1>10. LatestBaseIsCurrent /\ StartsAtItsBase
  BY <1>4 DEF LatestBaseIsCurrent, StartsAtItsBase, BaseOfCheckpoint, ImportIsFirst,
     RestoresSomething, BaseOfUser, Holding, Based
<1>11. ImportedFirst /\ OneActiveRun /\ RunBaseIsCurrent
  BY <1>4 DEF ImportedFirst, OneActiveRun, RunBaseIsCurrent, Saved, Active, Edits, Based
<1>12. CheckpointsAreOld
  BY <1>2, <1>4, <1>5 DEF CheckpointsAreOld
<1> QED BY <1>3, <1>6, <1>8, <1>9, <1>10, <1>11, <1>12 DEF Protocol

LEMMA ProtocolStep ==
  ASSUME Protocol, [Next]_vars
  PROVE  Protocol'
<1>1. TypeOK /\ LocalTypes /\ RowTypes
  BY TypeParts DEF Protocol
<1>2. OnlyRunsLoad'
  BY <1>1, LoadStep DEF Protocol
<1>3. TypeOK'
  BY LocalStep, RowStep, RunStep, EnvStep
     DEF Protocol, TypeOK, LocalTypes, RowTypes, RunTypes, VersionTypes, EnvTypes
<1>4. ClaimsAreNumbered' /\ RowIsAccountedFor' /\ KeyIsAccountedFor'
  BY ClaimStep, RowHolderStep, KeyHolderStep DEF Protocol
<1>5. LinearHistory' /\ LatestBaseIsCurrent' /\ StartsAtItsBase'
  BY HistoryStep, LatestBaseStep, StartStep DEF Protocol
<1>6. ImportedFirst' /\ OneActiveRun' /\ CheckpointsAreOld' /\ RunHasItsVersion'
  BY ImportedStep, OneActiveStep, OldStep, CompletedStep DEF Protocol
<1> QED BY <1>2, <1>3, <1>4, <1>5, <1>6 DEF Protocol

LEMMA ProtocolHolds == Spec => []Protocol
<1>1. Init => Protocol
  BY ProtocolInit
<1>2. Protocol /\ [Next]_vars => Protocol'
  BY ProtocolStep
<1> QED BY <1>1, <1>2, PTL DEF Spec

\* No source update is lost: the versions form one line, each made from the one
\* before it - by the writer's own files, its checkpoint or the version its user
\* saw - and the pointer of publishTx is at the end of it.
THEOREM HistoryIsLinear == Spec => []LinearHistory
<1>1. Protocol => LinearHistory
  BY DEF Protocol
<1> QED BY <1>1, ProtocolHolds, PTL

\* GormStore.Complete commits a run and its version together: whatever answer is
\* lost and whichever attempt reports afterwards, a run is completed exactly when
\* a version of its own is among those published.
THEOREM CompletedIsPublished == Spec => []RunHasItsVersion
<1>1. Protocol => RunHasItsVersion
  BY DEF Protocol
<1> QED BY <1>1, ProtocolHolds, PTL

\* Acquire and Release leave nothing behind: an attempt that is over, refused or
\* failed at any step, holds neither the Redis key nor the row, unless the answer
\* to its lock, its claim or its release was lost.
THEOREM NothingIsLeftHeld == Spec => []EndedHoldsNothing
<1>1. Protocol => EndedHoldsNothing
  BY DEF Protocol, RowIsAccountedFor, KeyIsAccountedFor, EndedHoldsNothing, Taken, Holding
<1> QED BY <1>1, ProtocolHolds, PTL

\* Where the older endpoints are not in use, what a run has saved stays a
\* continuation of the current version for as long as the run may be resumed:
\* beginCodeExecution never refuses a resumption because of a restoration.  The
\* older endpoints look for an active run before they claim and not when they
\* publish, so they have to be left out.
THEOREM ResumptionIsCurrent ==
  ASSUME \A w \in Writer : Kind[w] # "legacy"
  PROVE  Spec => []RunBaseIsCurrent
<1>1. Init => Protocol /\ RunBaseIsCurrent
  BY ProtocolInit
<1>2. (Protocol /\ RunBaseIsCurrent) /\ [Next]_vars => (Protocol /\ RunBaseIsCurrent)'
  <2> SUFFICES ASSUME Protocol, RunBaseIsCurrent, [Next]_vars
               PROVE  Protocol' /\ RunBaseIsCurrent'
    OBVIOUS
  <2> QED BY ProtocolStep, RunBaseStep DEF Protocol
<1> QED BY <1>1, <1>2, PTL DEF Spec

\* publishTx fences: every version that appears is published under the latest
\* claim, so a writer that stalled while another claimed changes no source.
THEOREM PublicationIsFenced == Spec => FencedPublish
<1>1. Protocol /\ [Next]_vars =>
        [versions' # versions => claim[versions'[Len(versions')].by].epoch = row.epoch]_vars
  <2> SUFFICES ASSUME Protocol, [Next]_vars, versions' # versions
               PROVE  claim[versions'[Len(versions')].by].epoch = row.epoch
    OBVIOUS
  <2>1. TypeOK /\ LocalTypes /\ RowTypes /\ VersionTypes
    BY TypeParts DEF Protocol
  <2>2. PICK w \in Writer : WriterStep(w)
    BY <2>1, Steps, Still
  <2>3. /\ versions' = Append(versions, [by |-> w, start |-> StartedFrom(w)])
        /\ row.epoch = claim[w].epoch
    BY <2>1, <2>2, OnlyPublication
  <2>4. [by |-> w, start |-> StartedFrom(w)] \in [by : Writer \cup {None}, start : Nat]
    BY <2>1 DEF StartedFrom, LocalTypes, Claim
  <2>5. versions'[Len(versions')] = [by |-> w, start |-> StartedFrom(w)]
    BY <2>1, <2>3, <2>4, VersionsAppended
  <2> QED BY <2>3, <2>5
<1> QED BY <1>1, ProtocolHolds, PTL DEF Spec, FencedPublish

\* checkpointFence: a stalled attempt never overwrites what a later attempt of
\* its run has saved.
THEOREM CheckpointsAreFenced == Spec => CheckpointsMoveForward
<1>1. Protocol /\ [Next]_vars => [\A r \in Run : ckpt'[r].epoch >= ckpt[r].epoch]_vars
  <2> SUFFICES ASSUME Protocol, [Next]_vars, NEW r \in Run
               PROVE  ckpt'[r].epoch >= ckpt[r].epoch
    OBVIOUS
  <2>1. TypeOK /\ LocalTypes /\ RowTypes /\ RunTypes
    BY TypeParts DEF Protocol
  <2>2. ckpt[r].epoch \in Nat /\ ckpt[r].epoch <= row.epoch
    BY <2>1 DEF Protocol, CheckpointsAreOld, RunTypes, Claim
  <2>3. CASE ckpt' = ckpt
    BY <2>2, <2>3
  <2>4. ASSUME NEW w \in Writer, ckpt' = [ckpt EXCEPT ![RunOf[w]] = claim[w]], Owns(w)
        PROVE  ckpt'[r].epoch >= ckpt[r].epoch
    <3>1. ckpt'[r] \in {ckpt[r], claim[w]} /\ claim[w].epoch = row.epoch
      BY <2>1, <2>4 DEF RunTypes, Owns
    <3> QED BY <2>2, <3>1
  <2> QED BY <2>1, <2>3, <2>4, Steps, Still, OnlySavePoint
<1> QED BY <1>1, ProtocolHolds, PTL DEF Spec, CheckpointsMoveForward

\* ExecutionStore.Release spares a claim that is not its own, and Claim takes
\* only a row that is free or expired: a live row lease is given up by its holder.
THEOREM LeaseStaysItsHolders == Spec => LeaseIsTakenByNobody
<1>1. Protocol /\ [Next]_vars =>
        [\A w \in Writer : row.alive /\ row.owner = w /\ row'.owner # w
                             => pc[w] = "releasing" /\ pc'[w] = "unlocking"]_vars
  <2> SUFFICES ASSUME Protocol, [Next]_vars, NEW w \in Writer,
                      row.alive, row.owner = w, row'.owner # w
               PROVE  pc[w] = "releasing" /\ pc'[w] = "unlocking"
    OBVIOUS
  <2>1. TypeOK /\ LocalTypes /\ RowTypes /\ None \notin Writer
    BY TypeParts, LeaseConstants DEF Protocol, LeaseConstants
  <2>2. PICK v \in Writer : WriterStep(v)
    BY <2>1, Steps, Still
  <2>3. ~TakeClaim(v)
    BY <2>1, ClaimTaken
  <2>4. ReleaseRow(v) /\ OwnRow(v)
    BY <2>1, <2>2, <2>3, NumbersStay
  <2>5. v = w
    BY <2>4 DEF OwnRow
  <2> QED BY <2>1, <2>4, <2>5 DEF ReleaseRow, Goto, LocalTypes
<1> QED BY <1>1, ProtocolHolds, PTL DEF Spec, LeaseIsTakenByNobody

=============================================================================
