--------------------------- MODULE TaskRowsProofs ---------------------------
(***************************************************************************)
(* What the steps of TaskRuntime do to the rows of the runs, and what      *)
(* follows: the reservation of an application, the event stream, the ends  *)
(* and the cancellations, and that the runtime implements RunLifecycle.    *)
(*                                                                         *)
(* Whatever a step of the runtime does elsewhere, it does one of five      *)
(* things to the row of a run; only the sweep of a starting server touches *)
(* several rows.  RowsStep says so, the first half of the module proves    *)
(* it action by action, and the second half needs nothing else.            *)
(***************************************************************************)
EXTENDS TaskRuntimeProofs

RowSame(r) ==
  /\ status'[r] = status[r]
  /\ activeKey'[r] = activeKey[r]
  /\ ckpt'[r] = ckpt[r]
  /\ seq'[r] = seq[r]
  /\ done'[r] = done[r]

\* The handler appends an event, perhaps with a checkpoint.
Works(r) ==
  /\ status[r] \in {"running", "pausing"}
  /\ status'[r] = status[r]
  /\ activeKey'[r] = activeKey[r]
  /\ ckpt[r] => ckpt'[r]
  /\ seq'[r] = seq[r] + 1
  /\ done'[r] = done[r]

\* The run is created, or taken up again.
Admits(r) ==
  /\ status[r] \in {"absent"} \cup Parked
  /\ KeyFree(r)
  /\ status'[r] = "pending"
  /\ activeKey'[r] = AppOf[r]
  /\ ckpt'[r] = ckpt[r]
  /\ seq'[r] = seq[r] + 1
  /\ done'[r] = done[r]

Moving ==
  {<<"pending", "running">>, <<"running", "pausing">>}
  \cup {"running", "pausing"} \X {"cancelling", "paused", "awaiting_approval"}
  \cup {"pending", "running", "pausing"} \X {"recoverable"}

Moves(r) ==
  /\ <<status[r], status'[r]>> \in Moving
  /\ status'[r] = "recoverable" => ckpt[r]
  /\ activeKey'[r] = activeKey[r]
  /\ ckpt'[r] = ckpt[r]
  /\ seq'[r] = seq[r] + 1
  /\ done'[r] = done[r]

Ending ==
  {<<"running", "completed">>, <<"cancelling", "canceled">>}
  \cup ({"pending"} \cup Parked) \X {"canceled"}
  \cup {"pending", "running", "pausing"} \X {"failed", "interrupted"}

Ends(r) ==
  /\ <<status[r], status'[r]>> \in Ending
  /\ activeKey'[r] = None
  /\ ckpt'[r] = ckpt[r]
  /\ \E k \in 1 .. 3 : /\ seq'[r] = seq[r] + k
                       /\ done'[r] = done[r] \cup {seq[r] + k}

Sweeps(r) ==
  \/ Moves(r) /\ status'[r] = "recoverable"
  \/ Ends(r) /\ <<status[r], status'[r]>> \in
       {<<"cancelling", "canceled">>}
       \cup {"pending", "running", "pausing"} \X {"interrupted"}

RowStep(r) == Works(r) \/ Admits(r) \/ Moves(r) \/ Ends(r)

RowsStep ==
  \/ \E r \in Run : RowStep(r) /\ \A q \in Run \ {r} : RowSame(q)
  \/ \A r \in Run : RowSame(r) \/ Sweeps(r)

\* InterruptStale writes what it read: a run it selected that has not moved on
\* is still one it selects.
SnapInv ==
  \A p \in Proc, r \in Run :
    /\ snap[p][r] <= seq[r]
    /\ snap[p][r] # 0 /\ snap[p][r] = seq[r] => Stale(r)

-----------------------------------------------------------------------------
LEMMA SameStep == ASSUME UNCHANGED rows PROVE RowsStep
BY DEF rows, RowsStep, RowSame

LEMMA MoveToStep ==
  ASSUME RowsTypeOK, NEW r \in Run, NEW s, MoveTo(r, s),
         <<status[r], s>> \in Moving, s = "recoverable" => ckpt[r]
  PROVE  RowsStep
<1>1. Moves(r)
  BY DEF RowsTypeOK, MoveTo, Become, AppendEvents, Moves
<1>2. \A q \in Run \ {r} : RowSame(q)
  BY DEF RowsTypeOK, MoveTo, Become, AppendEvents, RowSame
<1> QED BY <1>1, <1>2 DEF RowsStep, RowStep

LEMMA FinishStep ==
  ASSUME RowsTypeOK, NEW r \in Run, NEW s, NEW k \in {2, 3}, Finish(r, s, k),
         <<status[r], s>> \in Ending
  PROVE  RowsStep
<1>1. Ends(r)
  BY DEF RowsTypeOK, Finish, Become, Ends
<1>2. \A q \in Run \ {r} : RowSame(q)
  BY DEF RowsTypeOK, Finish, Become, RowSame
<1> QED BY <1>1, <1>2 DEF RowsStep, RowStep

LEMMA AdmitStep ==
  ASSUME RowsTypeOK, NEW p \in Proc, NEW r \in Run,
         \/ CreateRun(p, r)
         \/ TakeUpAgain(p, r, {"awaiting_approval"})
         \/ TakeUpAgain(p, r, {"paused", "recoverable"})
  PROVE  RowsStep
<1>1. Admits(r)
  BY DEF RowsTypeOK, CreateRun, TakeUpAgain, Become, AppendEvents, Admits, Parked
<1>2. \A q \in Run \ {r} : RowSame(q)
  BY DEF RowsTypeOK, CreateRun, TakeUpAgain, Become, AppendEvents, RowSame
<1> QED BY <1>1, <1>2 DEF RowsStep, RowStep

\* The changes of status the actions make, spelled out.
LEMMA MovingPairs ==
  ASSUME NEW s
  PROVE  /\ s = "pending" => <<s, "running">> \in Moving
         /\ s = "running" => <<s, "pausing">> \in Moving
         /\ s \in {"running", "pausing"} =>
              \A t \in {"cancelling", "paused", "awaiting_approval"} : <<s, t>> \in Moving
         /\ s \in {"pending", "running", "pausing"} => <<s, "recoverable">> \in Moving
BY DEF Moving

LEMMA EndingPairs ==
  ASSUME NEW s
  PROVE  /\ s = "running" => <<s, "completed">> \in Ending
         /\ s \in {"pending", "cancelling"} \cup Parked => <<s, "canceled">> \in Ending
         /\ s \in {"pending", "running", "pausing"} =>
              \A t \in {"failed", "interrupted"} : <<s, t>> \in Ending
BY DEF Ending

LEMMA UsersStep == ASSUME TypeInv, NEW p \in Proc, Users(p) PROVE RowsStep
<1> RowsTypeOK BY DEF TypeInv, TypeOK, RowsTypeOK
<1> PICK r \in Run : CreateRun(p, r) \/ Pause(p, r) \/ Cancel(p, r)
                     \/ Approve(p, r) \/ Resume(p, r)
  BY DEF Users
<1>1. CASE CreateRun(p, r) \/ Approve(p, r) \/ Resume(p, r)
  BY <1>1, AdmitStep DEF Approve, Resume
<1>2. CASE Pause(p, r)
  BY <1>2, MoveToStep, MovingPairs DEF Pause
<1>3. CASE Cancel(p, r)
  <2>1. CASE UNCHANGED rows BY <2>1, SameStep
  <2>2. CASE status[r] \in {"running", "pausing"} /\ MoveTo(r, "cancelling")
    BY <2>2, MoveToStep, MovingPairs
  <2>3. CASE status[r] \in {"pending"} \cup Parked /\ Finish(r, "canceled", 2)
    BY <2>3, FinishStep, EndingPairs
  <2> QED BY <1>3, <2>1, <2>2, <2>3 DEF Cancel, CancelRow
<1> QED BY <1>1, <1>2, <1>3

LEMMA OutboxStep == ASSUME TypeInv, NEW p \in Proc, Outbox(p) PROVE RowsStep
<1> RowsTypeOK BY DEF TypeInv, TypeOK, RowsTypeOK
<1>1. CASE UNCHANGED rows BY <1>1, SameStep
<1>2. ASSUME NEW s \in Slot, MarkRunning(p, s) PROVE RowsStep
  <2>1. g[s].run \in Run BY <1>2 DEF TypeInv, TypeOK, HasRun, MarkRunning
  <2>2. \/ UNCHANGED rows
        \/ status[g[s].run] = "pending" /\ MoveTo(g[s].run, "running")
    BY <1>2 DEF MarkRunning
  <2> QED BY <1>1, <2>1, <2>2, MoveToStep, MovingPairs
<1> QED
  BY <1>1, <1>2
  DEF Outbox, Tick, LoopExit, Claim, ClaimFails, ClaimRefused, Dispatch, Ack, Retry, Settle

LEMMA ExecutionStep == ASSUME TypeInv, NEW s \in Slot, Execution(s) PROVE RowsStep
<1> RowsTypeOK BY DEF TypeInv, TypeOK, RowsTypeOK
<1> DEFINE r == g[s].run
<1>1. CASE UNCHANGED rows BY <1>1, SameStep
<1>2. g[s].pc # "free" => r \in Run BY DEF TypeInv, HasRun
<1> HIDE DEF r
<1>3. CASE Emit(s) \/ SaveCheckpoint(s)
  <2>1. r \in Run BY <1>2, <1>3 DEF Emit, SaveCheckpoint, In
  <2>2. Works(r)
    BY <1>3, <2>1 DEF r, Emit, SaveCheckpoint, AppendEvents, Works, RowsTypeOK
  <2>3. \A q \in Run \ {r} : RowSame(q)
    BY <1>3, <2>1 DEF r, Emit, SaveCheckpoint, AppendEvents, RowSame, RowsTypeOK
  <2> QED BY <2>1, <2>2, <2>3 DEF RowsStep, RowStep
<1>4. CASE Suspend(s)
  <2>1. r \in Run BY <1>2, <1>4 DEF Suspend, In
  <2>2. \/ UNCHANGED rows
        \/ /\ status[r] \in {"running", "pausing"}
           /\ \E t \in {"paused", "awaiting_approval"} : MoveTo(r, t)
    BY <1>4 DEF Suspend, r
  <2> QED BY <1>1, <2>1, <2>2, MoveToStep, MovingPairs
<1>5. CASE Complete(s)
  <2>1. r \in Run BY <1>2, <1>5 DEF Complete, In
  <2>2. UNCHANGED rows \/ (status[r] = "running" /\ Finish(r, "completed", 3))
    BY <1>5 DEF Complete, r
  <2> QED BY <1>1, <2>1, <2>2, FinishStep, EndingPairs
<1>6. CASE Fail(s)
  <2>1. r \in Run BY <1>2, <1>6 DEF Fail, In
  <2>2. \/ UNCHANGED rows
        \/ status[r] = "cancelling" /\ Finish(r, "canceled", 2)
        \/ /\ status[r] \in {"pending", "running", "pausing"}
           /\ \/ ckpt[r] /\ MoveTo(r, "recoverable")
              \/ \E t \in {"failed", "interrupted"} : Finish(r, t, 3)
    BY <1>6 DEF Fail, FailRow, r
  <2> QED BY <1>1, <2>1, <2>2, MoveToStep, FinishStep, MovingPairs, EndingPairs
<1> QED
  BY <1>1, <1>3, <1>4, <1>5, <1>6
  DEF Execution, Register, CheckCancelled, HandlerEnds, Exit

LEMMA InterruptStaleStep ==
  ASSUME TypeInv, SnapInv, NEW p \in Proc, InterruptStale(p) PROVE RowsStep
<1> SUFFICES ASSUME NEW r \in Run PROVE RowSame(r) \/ Sweeps(r)
  BY DEF RowsStep
<1> RowsTypeOK BY DEF TypeInv, TypeOK, RowsTypeOK
<1>1. CASE snap[p][r] = 0
  BY <1>1 DEF InterruptStale, RowSame
<1>2. CASE snap[p][r] # 0
  <2>1. Stale(r) BY <1>2 DEF SnapInv, InterruptStale
  <2>2. status'[r] = SweptTo(r) /\ ckpt'[r] = ckpt[r] /\ seq'[r] = seq[r] + SweepEvents(r)
    BY <1>2 DEF InterruptStale
  <2>3. CASE SweptTo(r) = "recoverable"
    <3>1. activeKey'[r] = activeKey[r] /\ done'[r] = done[r]
      BY <1>2, <2>3 DEF InterruptStale, Terminal
    <3> QED
      BY <2>1, <2>2, <2>3, <3>1
      DEF Sweeps, Moves, Moving, Stale, Executing, SweptTo, SweepEvents
  <2>4. CASE SweptTo(r) # "recoverable"
    <3>1. SweptTo(r) \in Terminal /\ SweepEvents(r) \in 1 .. 3
      BY <2>4 DEF SweptTo, Terminal, SweepEvents
    <3>2. activeKey'[r] = None /\ done'[r] = done[r] \cup {seq[r] + SweepEvents(r)}
      BY <1>2, <3>1 DEF InterruptStale
    <3>3. <<status[r], status'[r]>> \in
            {<<"cancelling", "canceled">>}
            \cup {"pending", "running", "pausing"} \X {"interrupted"}
      BY <2>1, <2>2, <2>4 DEF Stale, Executing, SweptTo
    <3>4. Ends(r)
      BY <2>2, <3>1, <3>2, <3>3 DEF Ends, Ending
    <3> QED BY <3>3, <3>4 DEF Sweeps
  <2> QED BY <2>3, <2>4
<1> QED BY <1>1, <1>2

\* Every step of the runtime does to the rows what RowsStep says.
LEMMA EveryStep == ASSUME TypeInv, SnapInv, [Next]_vars PROVE RowsStep
<1>1. CASE UNCHANGED rows BY <1>1, SameStep
<1>2. ASSUME NEW p \in Proc, Process(p) PROVE RowsStep
  BY <1>1, <1>2, InterruptStaleStep
  DEF Process, AcquireRuntime, ReadStale, StartFails, Shutdown, Drained,
      ProcessExit, Crash, LockFreed, Volatile
<1> QED
  BY <1>1, <1>2, UsersStep, OutboxStep, ExecutionStep
  DEF Next, vars, CancelHandle

-----------------------------------------------------------------------------
(* The inductive invariant                                                 *)

RowInv ==
  /\ KeyHeldWhileUnfinished
  /\ OneUnfinishedRunPerApp
  /\ DoneClosesTheStream
  /\ RecoverableHasCheckpoint

Inv == TypeInv /\ SnapInv /\ RowInv

LEMMA InvInit == Init => Inv
<1> SUFFICES ASSUME Init PROVE Inv
  OBVIOUS
<1>1. TypeInv BY TypeInit
<1>2. SnapInv BY DEF Init, SnapInv
<1>3. RowInv
  BY DEF Init, RowInv, KeyHeldWhileUnfinished, OneUnfinishedRunPerApp,
         DoneClosesTheStream, RecoverableHasCheckpoint, Unfinished, Terminal
<1> QED BY <1>1, <1>2, <1>3 DEF Inv

\* A row that changes has a new last event.
LEMMA EveryChangeIsAnEvent ==
  ASSUME RowsTypeOK, RowsStep, NEW r \in Run
  PROVE  RowSame(r) \/ seq'[r] > seq[r]
<1>1. RowStep(r) \/ Sweeps(r) => seq'[r] > seq[r]
  BY DEF RowsTypeOK, RowStep, Works, Admits, Moves, Ends, Sweeps
<1> QED BY <1>1 DEF RowsStep

LEMMA SnapStep == ASSUME Inv, [Next]_vars PROVE SnapInv'
<1>1. RowsTypeOK /\ SnapInv /\ RowsStep
  BY EveryStep DEF Inv, TypeInv, TypeOK, RowsTypeOK
<1>2. snap \in [Proc -> [Run -> Nat]] /\ seq' \in [Run -> Nat]
  BY TypeStep DEF Inv, TypeInv, TypeOK
<1>3. ASSUME NEW p \in Proc
      PROVE  \/ snap'[p] = snap[p]
             \/ snap'[p] = [r \in Run |-> 0]
             \/ ReadStale(p)
  <2>1. CASE UNCHANGED snap BY <2>1
  <2>2. ASSUME NEW q \in Proc, Users(q) \/ Outbox(q) PROVE UNCHANGED snap
    BY <2>2 DEF Users, CreateRun, Pause, Cancel, Approve, Resume, TakeUpAgain,
                Outbox, Tick, LoopExit, Claim, ClaimFails, ClaimRefused, Dispatch, MarkRunning,
                Ack, Retry, Settle
  <2>3. ASSUME NEW s \in Slot, Execution(s) PROVE UNCHANGED snap
    BY <2>3 DEF Execution, Register, CheckCancelled, Emit, SaveCheckpoint,
                HandlerEnds, Suspend, Complete, Fail, Exit
  <2>4. ASSUME NEW q \in Proc, Process(q)
        PROVE  \/ UNCHANGED snap
               \/ snap' = [snap EXCEPT ![q] = [r \in Run |-> 0]]
               \/ ReadStale(q)
    BY <2>4 DEF Process, AcquireRuntime, InterruptStale, StartFails, Shutdown, Drained,
                ProcessExit, Crash, LockFreed, Volatile
  <2>5. ASSUME NEW q \in Proc, Process(q)
        PROVE  \/ snap'[p] = snap[p]
               \/ snap'[p] = [r \in Run |-> 0]
               \/ ReadStale(p)
    BY <1>2, <2>4, <2>5 DEF ReadStale
  <2> QED
    BY <2>1, <2>2, <2>3, <2>5 DEF Next, vars, CancelHandle
<1>4. ASSUME NEW p \in Proc, NEW r \in Run
      PROVE  /\ snap'[p][r] <= seq'[r]
             /\ snap'[p][r] # 0 /\ snap'[p][r] = seq'[r] => Stale(r)'
  <2>1. seq[r] \in Nat /\ seq'[r] \in Nat /\ snap[p][r] \in Nat
    BY <1>1, <1>2 DEF RowsTypeOK
  <2>2. RowSame(r) \/ seq'[r] > seq[r]
    BY <1>1, EveryChangeIsAnEvent
  <2>3. CASE snap'[p] = snap[p]
    BY <1>1, <2>1, <2>2, <2>3 DEF SnapInv, RowSame, Stale
  <2>4. CASE snap'[p] = [x \in Run |-> 0]
    BY <2>1, <2>4
  <2>5. CASE ReadStale(p)
    <3>1. snap'[p][r] = IF Stale(r) THEN seq[r] ELSE 0
      BY <1>2, <2>5 DEF ReadStale
    <3>2. seq'[r] = seq[r] /\ (Stale(r)' <=> Stale(r))
      BY <2>5 DEF ReadStale, rows, Stale
    <3> QED BY <2>1, <3>1, <3>2
  <2> QED BY <1>3, <2>3, <2>4, <2>5
<1> QED BY <1>4 DEF SnapInv

\* What a step does to the parts of the invariant that are about one row.
LEMMA RowStepInv ==
  ASSUME RowsTypeOK, RowInv, NEW r \in Run, RowSame(r) \/ RowStep(r) \/ Sweeps(r)
  PROVE  /\ activeKey'[r] = IF status'[r] \in Unfinished THEN AppOf[r] ELSE None
         /\ done'[r] = IF status'[r] \in Terminal THEN {seq'[r]} ELSE {}
         /\ status'[r] = "recoverable" => ckpt'[r]
<1>1. /\ activeKey[r] = IF status[r] \in Unfinished THEN AppOf[r] ELSE None
      /\ done[r] = IF status[r] \in Terminal THEN {seq[r]} ELSE {}
      /\ status[r] = "recoverable" => ckpt[r]
      /\ status[r] \in Status
  BY DEF RowsTypeOK, RowInv, KeyHeldWhileUnfinished, DoneClosesTheStream,
         RecoverableHasCheckpoint
<1>2. CASE RowSame(r)
  BY <1>1, <1>2 DEF RowSame
<1>3. CASE Works(r)
  BY <1>1, <1>3 DEF Works, Terminal
<1>4. CASE Admits(r)
  BY <1>1, <1>4 DEF Admits, Terminal, Parked, Unfinished, Status
<1>5. CASE Moves(r)
  BY <1>1, <1>5 DEF Moves, Moving, Terminal, Executing, Parked, Unfinished, Status
<1>6. CASE Ends(r)
  BY <1>1, <1>6 DEF Ends, Ending, Terminal, Parked, Unfinished, Status
<1> QED BY <1>2, <1>3, <1>4, <1>5, <1>6 DEF RowStep, Sweeps

LEMMA OneRunStep ==
  ASSUME RowsTypeOK, RowInv, RowsStep PROVE OneUnfinishedRunPerApp'
<1> SUFFICES ASSUME NEW q \in Run, NEW r \in Run, q # r, AppOf[q] = AppOf[r],
                    status'[q] \in Unfinished, status'[r] \in Unfinished
             PROVE  FALSE
  BY DEF OneUnfinishedRunPerApp
<1>1. ~(status[q] \in Unfinished /\ status[r] \in Unfinished)
  BY DEF RowInv, OneUnfinishedRunPerApp
\* A run that was not unfinished and is: it was created, alone.
<1>2. ASSUME NEW x \in Run, status[x] \notin Unfinished, status'[x] \in Unfinished
      PROVE  Admits(x) /\ \A y \in Run \ {x} : RowSame(y)
  <2>1. ~RowSame(x) /\ ~Sweeps(x)
    BY <1>2 DEF RowSame, Sweeps, Moves, Moving, Ends, Ending, Unfinished, Status,
                Executing, Parked, Terminal
  <2>2. ~Works(x) /\ ~Moves(x) /\ ~Ends(x)
    BY <1>2 DEF Works, Moves, Moving, Ends, Ending, Unfinished, Status,
                Executing, Parked, Terminal
  <2> QED BY <2>1, <2>2 DEF RowsStep, RowStep
<1>3. ASSUME NEW x \in {q, r}, NEW y \in {q, r}, x # y,
             status[x] \notin Unfinished, status'[y] \in Unfinished,
             status'[x] \in Unfinished
      PROVE  FALSE
  <2>1. KeyFree(x) /\ RowSame(y) BY <1>2, <1>3 DEF Admits
  <2>2. activeKey[y] = AppOf[y]
    BY <1>3, <2>1 DEF RowSame, RowInv, KeyHeldWhileUnfinished
  <2> QED BY <1>3, <2>1, <2>2 DEF KeyFree
<1> QED BY <1>1, <1>3

LEMMA InvStep == Inv /\ [Next]_vars => Inv'
<1> SUFFICES ASSUME Inv, [Next]_vars PROVE Inv'
  OBVIOUS
<1>1. TypeInv' BY TypeStep DEF Inv
<1>2. SnapInv' BY SnapStep
<1>3. RowsTypeOK /\ RowInv /\ RowsStep
  BY EveryStep DEF Inv, TypeInv, TypeOK, RowsTypeOK
<1>4. \A r \in Run : RowSame(r) \/ RowStep(r) \/ Sweeps(r)
  BY <1>3 DEF RowsStep
<1>5. RowInv'
  BY <1>3, <1>4, RowStepInv, OneRunStep
  DEF RowInv, KeyHeldWhileUnfinished, DoneClosesTheStream, RecoverableHasCheckpoint
<1> QED BY <1>1, <1>2, <1>5 DEF Inv

LEMMA Invariance == Spec => []Inv
BY InvInit, InvStep, PTL DEF Spec

-----------------------------------------------------------------------------
(* What follows                                                            *)

\* Across creations, suspensions, resumes, failures, redeliveries, crashes,
\* restarts and a lost runtime lock, active_key is the application of an
\* unfinished run and NULL in every other row.
THEOREM KeyHeld == Spec => []KeyHeldWhileUnfinished
<1>1. Inv => KeyHeldWhileUnfinished BY DEF Inv, RowInv
<1> QED BY <1>1, Invariance, PTL

\* An application never has two unfinished runs.
THEOREM OneRunPerApp == Spec => []OneUnfinishedRunPerApp
<1>1. Inv => OneUnfinishedRunPerApp BY DEF Inv, RowInv
<1> QED BY <1>1, Invariance, PTL

\* A run has one "done" event exactly when it is over, and no event after it.
THEOREM DoneIsLast == Spec => []DoneClosesTheStream
<1>1. Inv => DoneClosesTheStream BY DEF Inv, RowInv
<1> QED BY <1>1, Invariance, PTL

\* A run offered for recovery has a checkpoint.
THEOREM RecoverableRuns == Spec => []RecoverableHasCheckpoint
<1>1. Inv => RecoverableHasCheckpoint BY DEF Inv, RowInv
<1> QED BY <1>1, Invariance, PTL

\* No step of any process changes a run that is over, or adds to its stream.
THEOREM EndsAreFinal == Spec => EndIsFinal
<1>1. Inv /\ [Next]_vars =>
        [\A r \in Run : status[r] \in Terminal =>
           UNCHANGED <<status[r], seq[r], activeKey[r]>>]_vars
  <2> SUFFICES ASSUME Inv, [Next]_vars, NEW r \in Run, status[r] \in Terminal
               PROVE  UNCHANGED <<status[r], seq[r], activeKey[r]>>
    OBVIOUS
  <2>1. RowsStep BY EveryStep DEF Inv
  <2>2. ~RowStep(r) /\ ~Sweeps(r)
    BY DEF RowStep, Works, Admits, Moves, Moving, Ends, Ending, Sweeps, Terminal, Parked
  <2> QED BY <2>1, <2>2 DEF RowsStep, RowSame
<1> QED BY <1>1, Invariance, PTL DEF Spec, EndIsFinal

\* A run that is being cancelled becomes canceled or stays as it is.
THEOREM CancelsAreFinal == Spec => CancelIsFinal
<1>1. Inv /\ [Next]_vars =>
        [\A r \in Run : status[r] = "cancelling" =>
           status'[r] \in {"cancelling", "canceled"}]_vars
  <2> SUFFICES ASSUME Inv, [Next]_vars, NEW r \in Run, status[r] = "cancelling"
               PROVE  status'[r] \in {"cancelling", "canceled"}
    OBVIOUS
  <2>1. RowsStep BY EveryStep DEF Inv
  <2>2. ~Works(r) /\ ~Admits(r) /\ ~Moves(r)
    BY DEF Works, Admits, Moves, Moving, Parked
  <2>3. Ends(r) => status'[r] = "canceled"
    BY DEF Ends, Ending, Parked
  <2> QED BY <2>1, <2>2, <2>3 DEF RowsStep, RowSame, RowStep, Sweeps
<1> QED BY <1>1, Invariance, PTL DEF Spec, CancelIsFinal

-----------------------------------------------------------------------------
(* The runtime implements RunLifecycle.                                    *)

LEMMA LifecycleAdmit ==
  ASSUME Inv, NEW r \in Run, Admits(r), status' = [status EXCEPT ![r] = "pending"]
  PROVE  Lifecycle!Next
<1>1. CASE status[r] \in Parked
  BY <1>1 DEF Lifecycle!Next, Lifecycle!Resume, Lifecycle!Parked, Parked, Lifecycle!Become
<1>2. CASE status[r] = "absent"
  <2>1. \A q \in Run : AppOf[q] = AppOf[r] => ~Lifecycle!Reserves(q)
    <3> SUFFICES ASSUME NEW q \in Run, AppOf[q] = AppOf[r], Lifecycle!Reserves(q)
                 PROVE  FALSE
      OBVIOUS
    <3>1. status[q] \in Unfinished /\ q # r
      BY <1>2 DEF Lifecycle!Reserves, Lifecycle!Terminal, Unfinished, Terminal,
                  Inv, TypeInv, TypeOK
    <3>2. activeKey[q] = AppOf[q]
      BY <3>1 DEF Inv, RowInv, KeyHeldWhileUnfinished
    <3> QED BY <3>1, <3>2 DEF Admits, KeyFree
  <2> QED BY <1>2, <2>1 DEF Lifecycle!Next, Lifecycle!Admit, Lifecycle!Become
<1> QED BY <1>1, <1>2 DEF Admits

LEMMA LifecycleOther ==
  ASSUME Inv, NEW r \in Run, NEW s \in Status, status' = [status EXCEPT ![r] = s],
         <<status[r], s>> \in Moving \cup Ending
  PROVE  Lifecycle!Next
<1>1. CASE s \in {"recoverable", "interrupted"}
  <2>1. status[r] \in {"pending", "running", "pausing"}
    BY <1>1 DEF Moving, Ending
  <2>2. status' \in [Run -> Lifecycle!Status]
    BY DEF Inv, TypeInv, TypeOK, Lifecycle!Status, Lifecycle!Executing, Lifecycle!Parked,
           Lifecycle!Terminal, Status, Executing, Parked, Terminal
  <2> QED BY <1>1, <2>1, <2>2
          DEF Lifecycle!Next, Lifecycle!Interrupt, Lifecycle!Interrupted,
              Inv, TypeInv, TypeOK
<1>2. CASE s \notin {"recoverable", "interrupted"} /\ <<status[r], s>> \in Moving
  <2>1. \/ status[r] = "pending" /\ s = "running"
        \/ status[r] = "running" /\ s = "pausing"
        \/ status[r] \in {"running", "pausing"} /\ s = "cancelling"
        \/ status[r] \in {"running", "pausing"} /\ s \in {"paused", "awaiting_approval"}
    BY <1>2 DEF Moving
  <2> QED BY <2>1 DEF Lifecycle!Next, Lifecycle!Start, Lifecycle!AskPause,
                      Lifecycle!AskCancel, Lifecycle!Park, Lifecycle!Become
<1>3. CASE s \notin {"recoverable", "interrupted"} /\ <<status[r], s>> \in Ending
  <2>1. \/ status[r] = "running" /\ s = "completed"
        \/ status[r] \in {"pending", "cancelling"} \cup Parked /\ s = "canceled"
        \/ status[r] \in {"pending", "running", "pausing"} /\ s = "failed"
    BY <1>3 DEF Ending
  <2> QED BY <2>1 DEF Lifecycle!Next, Lifecycle!Complete, Lifecycle!Abort,
                      Lifecycle!Become, Lifecycle!Parked, Parked
<1> QED BY <1>1, <1>2, <1>3

LEMMA LifecycleStep == Inv /\ [Next]_vars => [Lifecycle!Next]_status
<1> SUFFICES ASSUME Inv, [Next]_vars PROVE Lifecycle!Next \/ UNCHANGED status
  OBVIOUS
<1>1. RowsStep BY EveryStep DEF Inv
<1>2. status \in [Run -> Status] /\ status' \in [Run -> Status]
  BY InvStep DEF Inv, TypeInv, TypeOK
<1>3. CASE \A r \in Run : RowSame(r) \/ Sweeps(r)
  <2>1. status' \in [Run -> Lifecycle!Status]
    BY <1>2 DEF Lifecycle!Status, Lifecycle!Executing, Lifecycle!Parked,
                Lifecycle!Terminal, Status, Executing, Parked, Terminal
  <2>2. \A r \in Run : status'[r] # status[r] =>
                        status'[r] \in Lifecycle!Interrupted(status[r])
    BY <1>3 DEF RowSame, Sweeps, Moves, Moving, Lifecycle!Interrupted
  <2> QED BY <2>1, <2>2 DEF Lifecycle!Next, Lifecycle!Interrupt
<1>4. ASSUME NEW r \in Run, RowStep(r), \A q \in Run \ {r} : RowSame(q)
      PROVE  Lifecycle!Next \/ UNCHANGED status
  <2>1. status' = [status EXCEPT ![r] = status'[r]]
    BY <1>2, <1>4 DEF RowSame
  <2>2. CASE Works(r)
    BY <1>2, <2>1, <2>2 DEF Works
  <2>3. CASE Admits(r)
    BY <2>1, <2>3, LifecycleAdmit DEF Admits
  <2>4. CASE Moves(r) \/ Ends(r)
    BY <1>2, <2>1, <2>4, LifecycleOther DEF Moves, Ends
  <2> QED BY <1>4, <2>2, <2>3, <2>4 DEF RowStep
<1> QED BY <1>1, <1>3, <1>4 DEF RowsStep

\* Seen through the status column alone, the runtime with its outbox, its
\* goroutines, its crashes and its lost answers is a RunLifecycle.
THEOREM ImplementsLifecycle == Spec => LifecycleSpec
<1>1. Init => Lifecycle!Init BY DEF Init, Lifecycle!Init
<1> QED BY <1>1, LifecycleStep, Invariance, PTL DEF Spec, LifecycleSpec, Lifecycle!Spec
=============================================================================
