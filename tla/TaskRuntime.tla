----------------------------- MODULE TaskRuntime -----------------------------
(***************************************************************************)
(* The detached task runtime: the rows of agent_run, run_event and         *)
(* task_outbox (internal/dal/taskstore), the Manager of every server       *)
(* process that serves them (internal/core/task), and what crashes, lost   *)
(* answers and a lost runtime lock do to both.                             *)
(*                                                                         *)
(* A run is created with a task_ready row in the outbox.  The process that *)
(* holds the runtime lock drains the outbox: each message takes a slot of  *)
(* the worker semaphore, marks the run running and starts a goroutine.     *)
(* The goroutine registers a handle (so that a cancel request can reach    *)
(* it), calls the handler, and completes, suspends or fails the run.       *)
(* Users pause, cancel, approve and resume at any moment, through any      *)
(* process that serves HTTP.                                               *)
(*                                                                         *)
(* The events of a run are represented by last_sequence and by the         *)
(* positions of its "done" events; the handler is any program that may     *)
(* emit, save checkpoints, stop at a safe point, return or fail.  The      *)
(* event_available rows of the outbox only wake subscribers.               *)
(*                                                                         *)
(* A definition whose name says what goes wrong in it (FinishBlanksKey,    *)
(* before Finish) is a mistake the code does not make: no action uses it,  *)
(* and each property is known to fail when one takes its place.            *)
(***************************************************************************)
EXTENDS Naturals, Sequences, FiniteSets

CONSTANTS
  Run,        \* the runs, one per request_id
  App,        \* the applications
  AppOf,      \* the application of a run
  Proc,       \* the server processes
  Slot,       \* the slots of the worker semaphores of all the processes
  Host,       \* the process a slot belongs to
  None,       \* NULL in a column, nil in memory
  MaxReady,   \* bound: task_ready rows of one run (creation, then resumes)
  MaxSeq,     \* bound: handlers append no event beyond this sequence
  MaxFaults,  \* bound: lost answers, failed statements and lost locks
  MaxStops    \* bound: crashes and shutdowns

ASSUME TaskConstants ==
  /\ AppOf \in [Run -> App]
  /\ Host \in [Slot -> Proc]
  /\ None \notin Run \cup App \cup Proc \cup Slot
  /\ {MaxReady, MaxSeq, MaxFaults, MaxStops} \subseteq Nat

VARIABLES
  \* agent_run, run_checkpoint, run_event
  status,     \* agent_run.status, "absent" when there is no row
  activeKey,  \* agent_run.active_key
  ckpt,       \* is there a run_checkpoint row?
  seq,        \* agent_run.last_sequence
  done,       \* the sequences of the run's "done" events
  \* task_outbox
  ready,      \* the statuses of the run's task_ready rows, oldest first
  \* the MySQL named lock
  owner,      \* the process whose connection holds the runtime lock
  \* the processes
  mode,       \* where the process is in its life
  snap,       \* InterruptStale's read: last_sequence of the rows it selected
  disp,       \* the outbox loop: where it is and the message in hand
  batch,      \* the messages ClaimOutbox returned and dispatch has not seen
  g,          \* the goroutine in each slot
  exec,       \* Manager.executions: the slot of a run's registered handle
  cancelReq,  \* runs whose handle Manager.Control is about to cancel
  \* the environment
  faults, stops

rows == <<status, activeKey, ckpt, seq, done>>
loop == <<disp, batch>>
workers == <<g, exec>>
env == <<faults, stops>>
vars == <<rows, ready, owner, mode, snap, loop, workers, cancelReq, env>>

-----------------------------------------------------------------------------
(* Types                                                                   *)

Terminal == {"completed", "failed", "interrupted", "canceled"}
Executing == {"running", "pausing", "cancelling"}
Parked == {"paused", "awaiting_approval", "recoverable"}
Status == {"absent", "pending"} \cup Executing \cup Parked \cup Terminal
Unfinished == Status \ (Terminal \cup {"absent"})

OutboxStatus == {"pending", "processing", "delivered", "failed"}
Message == Run \X (1 .. MaxReady)

\* down: no process.  starting: holds the lock.  sweeping: InterruptStale has
\* read.  up.  halted: the outbox loop cancelled Manager.ctx and is gone, the
\* HTTP server serves on.  stopping: Shutdown was called.  drained: the runtime
\* is released while the HTTP server finishes.
Mode == {"down", "starting", "sweeping", "up", "halted", "stopping", "drained"}
Serving == {"up", "halted", "stopping", "drained"}

Goroutine == [pc : {"free", "reserved", "enter", "check", "handler",
                    "suspending", "completing", "failing", "tail"},
              run : Run \cup {None},
              canceled : BOOLEAN,
              arg : {"none", "paused", "awaiting_approval",
                     "failed", "interrupted"}]
Free == [pc |-> "free", run |-> None, canceled |-> FALSE, arg |-> "none"]
Idle == [pc |-> "off", msg |-> None]

TypeOK ==
  /\ status \in [Run -> Status]
  /\ activeKey \in [Run -> App \cup {None}]
  /\ ckpt \in [Run -> BOOLEAN]
  /\ seq \in [Run -> Nat]
  /\ done \in [Run -> SUBSET Nat]
  /\ ready \in [Run -> Seq(OutboxStatus)]
  /\ owner \in Proc \cup {None}
  /\ mode \in [Proc -> Mode]
  /\ snap \in [Proc -> [Run -> Nat]]
  /\ disp \in [Proc -> [pc : {"off", "idle", "drain", "marking", "ack", "retry"},
                        msg : Message \cup {None}]]
  /\ batch \in [Proc -> SUBSET Message]
  /\ g \in [Slot -> Goroutine]
  /\ exec \in [Proc -> [Run -> Slot \cup {None}]]
  /\ cancelReq \in [Proc -> SUBSET Run]
  /\ faults \in 0 .. MaxFaults
  /\ stops \in 0 .. MaxStops

-----------------------------------------------------------------------------
Init ==
  /\ status = [r \in Run |-> "absent"]
  /\ activeKey = [r \in Run |-> None]
  /\ ckpt = [r \in Run |-> FALSE]
  /\ seq = [r \in Run |-> 0]
  /\ done = [r \in Run |-> {}]
  /\ ready = [r \in Run |-> <<>>]
  /\ owner = None
  /\ mode = [p \in Proc |-> "down"]
  /\ snap = [p \in Proc |-> [r \in Run |-> 0]]
  /\ disp = [p \in Proc |-> Idle]
  /\ batch = [p \in Proc |-> {}]
  /\ g = [s \in Slot |-> Free]
  /\ exec = [p \in Proc |-> [r \in Run |-> None]]
  /\ cancelReq = [p \in Proc |-> {}]
  /\ faults = 0
  /\ stops = 0

-----------------------------------------------------------------------------
(* The transactions on one run.  Each appends its events, numbered from    *)
(* last_sequence + 1, in the transaction that changes the row.             *)

AppendEvents(r, k) == seq' = [seq EXCEPT ![r] = @ + k] /\ UNCHANGED done

Become(r, s) == status' = [status EXCEPT ![r] = s]

\* The row moves on to s, and one event says so.
MoveTo(r, s) ==
  /\ Become(r, s)
  /\ AppendEvents(r, 1)
  /\ UNCHANGED <<activeKey, ckpt>>

FinishBlanksKey(r, s, k) ==
  /\ Become(r, s)
  /\ activeKey' = [activeKey EXCEPT ![r] = ""]
  /\ seq' = [seq EXCEPT ![r] = @ + k]
  /\ done' = [done EXCEPT ![r] = @ \cup {seq[r] + k}]
  /\ UNCHANGED ckpt

\* The row ends: active_key is cleared and the last of the k events is "done".
Finish(r, s, k) ==
  /\ Become(r, s)
  /\ activeKey' = [activeKey EXCEPT ![r] = None]
  /\ seq' = [seq EXCEPT ![r] = @ + k]
  /\ done' = [done EXCEPT ![r] = @ \cup {seq[r] + k}]
  /\ UNCHANGED ckpt

KeyFreeIfIdle(r) ==
  \A q \in Run \ {r} : activeKey[q] = AppOf[r] => status[q] \notin Executing

\* uk_agent_run_active_key: no other row holds the application.
KeyFree(r) == \A q \in Run \ {r} : activeKey[q] # AppOf[r]

\* One statement fails, or it commits and its answer is lost.
Fault == faults < MaxFaults /\ faults' = faults + 1 /\ UNCHANGED stops

-----------------------------------------------------------------------------
(* Requests: GormStore.CreateRun and GormStore.Control                     *)

AddReady(r) ==
  /\ Len(ready[r]) < MaxReady
  /\ ready' = [ready EXCEPT ![r] = Append(@, "pending")]

\* The insert of CreateRun.  (A request_id that has its row is answered with
\* that row, an application that has its key with ErrActiveRun: no change.)
\* Start looks at Manager.ctx before, so a halted or stopping process may still
\* insert; Manager.Control never looks.
CreateRun(p, r) ==
  /\ mode[p] \in Serving
  /\ status[r] = "absent"
  /\ KeyFree(r)
  /\ Become(r, "pending")
  /\ activeKey' = [activeKey EXCEPT ![r] = AppOf[r]]
  /\ AppendEvents(r, 1)
  /\ AddReady(r)
  /\ UNCHANGED <<ckpt, owner, mode, snap, loop, workers, cancelReq, env>>

Pause(p, r) ==
  /\ mode[p] \in Serving
  /\ status[r] = "running"
  /\ MoveTo(r, "pausing")
  /\ UNCHANGED <<ready, owner, mode, snap, loop, workers, cancelReq, env>>

\* Cancel and reject.  Where nothing executes the run ends at once; otherwise
\* the goroutine is told, after the commit (CancelHandle).  A repeated cancel
\* changes no row but tells the goroutine again.  If the answer is lost, or
\* the read that follows the commit fails, the goroutine is not told.
CancelRow(r) ==
  \/ status[r] \in {"cancelling", "canceled"} /\ UNCHANGED rows
  \/ status[r] \in {"running", "pausing"} /\ MoveTo(r, "cancelling")
  \/ status[r] \in {"pending"} \cup Parked /\ Finish(r, "canceled", 2)

Cancel(p, r) ==
  /\ mode[p] \in Serving
  /\ CancelRow(r)
  /\ \/ cancelReq' = [cancelReq EXCEPT ![p] = @ \cup {r}] /\ UNCHANGED env
     \/ UNCHANGED cancelReq /\ Fault
  /\ UNCHANGED <<ready, owner, mode, snap, loop, workers>>

\* The second half of Manager.Control: cancel the registered handle, if any.
CancelHandle(p, r) ==
  /\ r \in cancelReq[p]
  /\ cancelReq' = [cancelReq EXCEPT ![p] = @ \ {r}]
  /\ g' = [s \in Slot |-> IF s = exec[p][r]
                            THEN [g[s] EXCEPT !.canceled = TRUE] ELSE g[s]]
  /\ UNCHANGED <<rows, ready, owner, mode, snap, loop, exec, env>>

\* Approve and resume: the checkpoint is there, the key is kept or taken again.
TakeUpAgain(p, r, from) ==
  /\ mode[p] \in Serving
  /\ ckpt[r]
  /\ status[r] \in from
  /\ KeyFree(r)
  /\ Become(r, "pending")
  /\ activeKey' = [activeKey EXCEPT ![r] = AppOf[r]]
  /\ AppendEvents(r, 1)
  /\ AddReady(r)
  /\ UNCHANGED <<ckpt, owner, mode, snap, loop, workers, cancelReq, env>>

ResumeUnparked(p, r) == TakeUpAgain(p, r, {"paused", "recoverable", "running"})

Approve(p, r) == TakeUpAgain(p, r, {"awaiting_approval"})
Resume(p, r) == TakeUpAgain(p, r, {"paused", "recoverable"})

-----------------------------------------------------------------------------
(* The outbox loop: Manager.outboxLoop, drainOutbox and dispatch           *)

At(p, pc) == disp[p].pc = pc
Goto(p, pc) == disp' = [disp EXCEPT ![p].pc = pc]
SetRow(m, o) == ready' = [ready EXCEPT ![m[1]][m[2]] = o]

\* A tick, or a wake-up.  A loop that finds the lock lost, or gets no answer to
\* CheckRuntime, cancels Manager.ctx and is gone.  That is all: nothing gives up
\* a lock that is still held, ends the process or starts another loop.
Tick(p) ==
  /\ mode[p] = "up" /\ At(p, "idle")
  /\ \/ owner = p /\ Goto(p, "drain") /\ UNCHANGED <<mode, env>>
     \/ /\ \/ owner # p /\ UNCHANGED env
           \/ Fault
        /\ Goto(p, "off")
        /\ mode' = [mode EXCEPT ![p] = "halted"]
  /\ UNCHANGED <<rows, ready, owner, snap, batch, workers, cancelReq>>

LoopExit(p) ==
  /\ mode[p] = "stopping" /\ At(p, "idle")
  /\ Goto(p, "off")
  /\ UNCHANGED <<rows, ready, owner, mode, snap, batch, workers, cancelReq, env>>

RowsIn(o) == {m \in Message : m[2] <= Len(ready[m[1]]) /\ ready[m[1]][m[2]] = o}

\* ClaimOutbox: rows claimed more than a minute ago (aged) are pending again,
\* and the pending rows that are due are claimed.  Time decides which those are.
ClaimRows(aged, due) ==
  ready' = [r \in Run |-> [i \in 1 .. Len(ready[r]) |->
              IF <<r, i>> \in due THEN "processing"
              ELSE IF <<r, i>> \in aged THEN "pending" ELSE ready[r][i]]]

Claim(p) ==
  /\ mode[p] = "up" /\ At(p, "drain") /\ batch[p] = {}
  /\ \E aged \in SUBSET RowsIn("processing") :
     \E due \in SUBSET (RowsIn("pending") \cup aged) :
       /\ ClaimRows(aged, due)
       /\ batch' = [batch EXCEPT ![p] = due]
       /\ IF due = {} THEN Goto(p, "idle") ELSE UNCHANGED disp
  /\ UNCHANGED <<rows, owner, mode, snap, workers, cancelReq, env>>

\* A statement of ClaimOutbox fails, or its answer is lost: the rows it had
\* claimed by then stay claimed, and nobody dispatches them.
ClaimFails(p) ==
  /\ At(p, "drain") /\ batch[p] = {}
  /\ \E aged \in SUBSET RowsIn("processing") :
     \E due \in SUBSET (RowsIn("pending") \cup aged) : ClaimRows(aged, due)
  /\ Fault
  /\ Goto(p, "idle")
  /\ UNCHANGED <<rows, owner, mode, snap, batch, workers, cancelReq>>

\* Its context, Manager.ctx, is cancelled.
ClaimRefused(p) ==
  /\ mode[p] # "up" /\ At(p, "drain") /\ batch[p] = {}
  /\ Goto(p, "idle")
  /\ UNCHANGED <<rows, ready, owner, mode, snap, batch, workers, cancelReq, env>>

FreeSlots(p) == {s \in Slot : Host[s] = p /\ g[s].pc = "free"}

\* dispatch reads the run and, if it is pending, takes a slot of the semaphore.
\* A delivered message is one whose run was not pending when it was read.
Dispatch(p) ==
  /\ At(p, "drain")
  /\ \E m \in batch[p] :
     /\ batch' = [batch EXCEPT ![p] = @ \ {m}]
     /\ \/ /\ mode[p] = "up" /\ status[m[1]] # "pending"
           /\ disp' = [disp EXCEPT ![p] = [pc |-> "ack", msg |-> m]]
           /\ UNCHANGED <<g, env>>
        \/ /\ mode[p] = "up" /\ status[m[1]] = "pending"
           /\ \E s \in FreeSlots(p) :
                g' = [g EXCEPT ![s] = [Free EXCEPT !.pc = "reserved", !.run = m[1]]]
           /\ disp' = [disp EXCEPT ![p] = [pc |-> "marking", msg |-> m]]
           /\ UNCHANGED env
        \/ /\ \/ mode[p] # "up" /\ UNCHANGED env
              \/ status[m[1]] = "pending" /\ FreeSlots(p) = {} /\ UNCHANGED env
              \/ Fault
           /\ disp' = [disp EXCEPT ![p] = [pc |-> "retry", msg |-> m]]
           /\ UNCHANGED g
  /\ UNCHANGED <<rows, ready, owner, mode, snap, exec, cancelReq>>

MarkRunningLeaks(p, s) ==
  /\ At(p, "marking") /\ Host[s] = p /\ g[s].pc = "reserved"
  /\ \/ /\ status[g[s].run] = "pending"
        /\ MoveTo(g[s].run, "running")
        /\ g' = [g EXCEPT ![s].pc = "enter"]
        /\ Goto(p, "ack")
     \/ /\ status[g[s].run] # "pending"
        /\ UNCHANGED <<rows, g>>
        /\ Goto(p, "retry")
  /\ UNCHANGED <<ready, owner, mode, snap, batch, exec, cancelReq, env>>

\* MarkRunning: a transaction, then a separate read of the run.  The goroutine
\* starts only if both succeed; otherwise the slot is given back.
MarkRunning(p, s) ==
  LET r == g[s].run
      started == g' = [g EXCEPT ![s].pc = "enter"] /\ Goto(p, "ack")
      abandoned == g' = [g EXCEPT ![s] = Free] /\ Goto(p, "retry")
      runnable == status[r] = "pending" /\ mode[p] = "up"
  IN
  /\ At(p, "marking") /\ Host[s] = p /\ g[s].pc = "reserved"
  /\ \/ runnable /\ MoveTo(r, "running") /\ started /\ UNCHANGED env
     \/ runnable /\ MoveTo(r, "running") /\ abandoned /\ Fault
     \/ ~runnable /\ UNCHANGED rows /\ abandoned /\ UNCHANGED env
  /\ UNCHANGED <<ready, owner, mode, snap, batch, exec, cancelReq>>

\* MarkOutboxDelivered (with Manager.ctx) and RetryOutbox (with a context of
\* its own) write the row whatever its status is now.
Settle(p, pc, o) ==
  /\ At(p, pc)
  /\ disp' = [disp EXCEPT ![p] = [pc |-> "drain", msg |-> None]]
  /\ \/ (pc = "retry" \/ mode[p] = "up") /\ SetRow(disp[p].msg, o) /\ UNCHANGED env
     \/ pc = "ack" /\ mode[p] # "up" /\ UNCHANGED <<ready, env>>
     \/ Fault /\ UNCHANGED ready
  /\ UNCHANGED <<rows, owner, mode, snap, batch, workers, cancelReq>>

RetryGivesUp(p) == Settle(p, "retry", "failed")

Ack(p) == Settle(p, "ack", "delivered")
Retry(p) == Settle(p, "retry", "pending")

-----------------------------------------------------------------------------
(* A goroutine: Manager.execute                                            *)

In(s, pc) == g[s].pc = pc
Step(s, pc) == g' = [g EXCEPT ![s].pc = pc]
StepTo(s, pc, arg) == g' = [g EXCEPT ![s].pc = pc, ![s].arg = arg]

\* runCtx is a child of Manager.ctx.
CtxAlive(s) == ~g[s].canceled /\ mode[Host[s]] = "up"

Register(s) ==
  /\ In(s, "enter")
  /\ exec' = [exec EXCEPT ![Host[s]][g[s].run] = s]
  /\ Step(s, "check")
  /\ UNCHANGED <<rows, ready, owner, mode, snap, loop, cancelReq, env>>

CheckCancelledNever(s) ==
  /\ In(s, "check")
  /\ Step(s, "handler")
  /\ UNCHANGED <<rows, ready, owner, mode, snap, loop, exec, cancelReq, env>>

\* A cancel request that came before the handle was registered is seen here.
CheckCancelled(s) ==
  /\ In(s, "check")
  /\ \/ /\ g' = [g EXCEPT ![s].pc = "handler",
                          ![s].canceled = @ \/ status[g[s].run] = "cancelling"]
        /\ UNCHANGED env
     \/ /\ g' = [g EXCEPT ![s].pc = "handler", ![s].canceled = TRUE]
        /\ Fault
  /\ UNCHANGED <<rows, ready, owner, mode, snap, loop, exec, cancelReq>>

\* AppendEvent and SaveCheckpoint, called by the handler.
Emit(s) ==
  /\ In(s, "handler") /\ CtxAlive(s)
  /\ status[g[s].run] \in {"running", "pausing"}
  /\ seq[g[s].run] < MaxSeq
  /\ AppendEvents(g[s].run, 1)
  /\ UNCHANGED <<status, activeKey, ckpt, ready, owner, mode, snap, loop,
                 workers, cancelReq, env>>

SaveCheckpoint(s) ==
  /\ In(s, "handler") /\ CtxAlive(s)
  /\ status[g[s].run] \in {"running", "pausing"}
  /\ seq[g[s].run] < MaxSeq
  /\ ckpt' = [ckpt EXCEPT ![g[s].run] = TRUE]
  /\ AppendEvents(g[s].run, 1)
  /\ UNCHANGED <<status, activeKey, ready, owner, mode, snap, loop,
                 workers, cancelReq, env>>

\* The handler is over.  At a safe point it saw the run pausing, or a plan to
\* be approved; it succeeds only if its context is alive; it may always fail
\* (an error, a panic, the 25 minutes of runCtx).
HandlerEnds(s) ==
  /\ In(s, "handler")
  /\ \/ /\ ckpt[g[s].run] /\ CtxAlive(s)
        /\ \/ StepTo(s, "suspending", "awaiting_approval")
           \/ status[g[s].run] = "pausing" /\ StepTo(s, "suspending", "paused")
     \/ CtxAlive(s) /\ Step(s, "completing")
     \/ StepTo(s, "failing",
               IF mode[Host[s]] = "up" THEN "failed" ELSE "interrupted")
  /\ UNCHANGED <<rows, ready, owner, mode, snap, loop, exec, cancelReq, env>>

SuspendCancelling(s) ==
  /\ In(s, "suspending")
  /\ MoveTo(g[s].run, g[s].arg)
  /\ StepTo(s, "tail", "none")
  /\ UNCHANGED <<ready, owner, mode, snap, loop, exec, cancelReq, env>>

\* store.Suspend, after the execution lease was released.
Suspend(s) ==
  LET r == g[s].run
      fails == StepTo(s, "failing", "failed")
      accepted == /\ status[r] \in {"running", "pausing"}
                  /\ g[s].arg \in {"paused", "awaiting_approval"}
  IN
  /\ In(s, "suspending")
  /\ \/ /\ accepted
        /\ MoveTo(r, g[s].arg)
        /\ \/ StepTo(s, "tail", "none") /\ UNCHANGED env
           \/ fails /\ Fault
     \/ /\ \/ ~accepted /\ UNCHANGED env
           \/ Fault
        /\ UNCHANGED rows
        /\ fails
  /\ UNCHANGED <<ready, owner, mode, snap, loop, exec, cancelReq>>

\* store.Complete.  It may be refused by a validator or by the publication
\* fence (ExecutionLease says when); the version and the run commit together.
\* The three events are code_completed, run_completed and done; a description
\* adds a fourth that no property tells apart.
Complete(s) ==
  LET r == g[s].run
      fails == StepTo(s, "failing", "failed")
  IN
  /\ In(s, "completing")
  /\ \/ /\ status[r] = "running"
        /\ Finish(r, "completed", 3)
        /\ \/ Step(s, "tail") /\ UNCHANGED env
           \/ fails /\ Fault
     \/ /\ status[r] = "pausing"
        /\ StepTo(s, "suspending", "paused")
        /\ UNCHANGED <<rows, env>>
     \/ UNCHANGED <<rows, env>> /\ fails
  /\ UNCHANGED <<ready, owner, mode, snap, loop, exec, cancelReq>>

FailRowTwice(r, interrupted) ==
  Finish(r, IF status[r] = "cancelling" THEN "canceled" ELSE "failed", 3)

\* store.Fail: a stop that was persisted is never downgraded.
FailRow(r, interrupted) ==
  LET open == status[r] \in {"pending", "running", "pausing"}
      recover == interrupted /\ ckpt[r]
  IN
  \/ status[r] \in Terminal \cup Parked /\ UNCHANGED rows
  \/ status[r] = "cancelling" /\ Finish(r, "canceled", 2)
  \/ open /\ recover /\ MoveTo(r, "recoverable")
  \/ open /\ ~recover /\ Finish(r, IF interrupted THEN "interrupted" ELSE "failed", 3)

Fail(s) ==
  /\ In(s, "failing")
  /\ StepTo(s, "tail", "none")
  /\ \/ FailRow(g[s].run, g[s].arg = "interrupted") /\ UNCHANGED env
     \/ UNCHANGED rows /\ Fault
  /\ UNCHANGED <<ready, owner, mode, snap, loop, exec, cancelReq>>

ExitForgets(s) ==
  /\ In(s, "tail")
  /\ g' = [g EXCEPT ![s] = Free]
  /\ exec' = [exec EXCEPT ![Host[s]][g[s].run] = None]
  /\ UNCHANGED <<rows, ready, owner, mode, snap, loop, cancelReq, env>>

\* The deferred functions: forget the handle if it is still this goroutine's,
\* give the slot back.
Exit(s) ==
  /\ In(s, "tail")
  /\ g' = [g EXCEPT ![s] = Free]
  /\ exec' = [exec EXCEPT ![Host[s]][g[s].run] = IF @ = s THEN None ELSE @]
  /\ UNCHANGED <<rows, ready, owner, mode, snap, loop, cancelReq, env>>

-----------------------------------------------------------------------------
(* Processes: StartWorkers, InterruptStale, Shutdown, crashes              *)

SetMode(p, m) == mode' = [mode EXCEPT ![p] = m]

\* AcquireRuntime: GET_LOCK(name, 0) fails at once when it is held.
AcquireRuntime(p) ==
  /\ mode[p] = "down" /\ owner = None
  /\ owner' = p
  /\ SetMode(p, "starting")
  /\ UNCHANGED <<rows, ready, snap, loop, workers, cancelReq, env>>

StaleUncontrolled(r) == status[r] \in {"pending", "running"}

\* InterruptStale first reads the unfinished runs, without locking them.
Stale(r) == status[r] \in {"pending"} \cup Executing

ReadStale(p) ==
  /\ mode[p] = "starting"
  /\ SetMode(p, "sweeping")
  /\ snap' = [snap EXCEPT ![p] = [r \in Run |-> IF Stale(r) THEN seq[r] ELSE 0]]
  /\ UNCHANGED <<rows, ready, owner, loop, workers, cancelReq, env>>

\* What becomes of a run InterruptStale selected, and how many events say so.
SweptTo(r) ==
  IF status[r] = "cancelling" THEN "canceled"
  ELSE IF ckpt[r] THEN "recoverable" ELSE "interrupted"
SweepEvents(r) ==
  IF SweptTo(r) = "recoverable" THEN 1
  ELSE IF SweptTo(r) = "canceled" THEN 2 ELSE 3

\* Then it writes them all, each event at the sequence after the one it read:
\* uk_run_event_sequence refuses the transaction if a selected run has moved
\* on.  Every undelivered task_ready row is marked failed, whatever its run.
InterruptStale(p) ==
  LET swept == {r \in Run : snap[p][r] # 0}
      ended == {r \in swept : SweptTo(r) \in Terminal}
  IN
  /\ mode[p] = "sweeping"
  /\ \A r \in swept : seq[r] = snap[p][r]
  /\ status' = [r \in Run |-> IF r \in swept THEN SweptTo(r) ELSE status[r]]
  /\ activeKey' = [r \in Run |-> IF r \in ended THEN None ELSE activeKey[r]]
  /\ seq' = [r \in Run |-> IF r \in swept THEN seq[r] + SweepEvents(r) ELSE seq[r]]
  /\ done' = [r \in Run |-> IF r \in ended THEN done[r] \cup {seq[r] + SweepEvents(r)}
                            ELSE done[r]]
  /\ ready' = [r \in Run |-> [i \in 1 .. Len(ready[r]) |->
                 IF ready[r][i] \in {"pending", "processing"} THEN "failed"
                 ELSE ready[r][i]]]
  /\ SetMode(p, "up")
  /\ disp' = [disp EXCEPT ![p].pc = "idle"]
  /\ snap' = [snap EXCEPT ![p] = [r \in Run |-> 0]]
  /\ UNCHANGED <<ckpt, owner, batch, workers, cancelReq, env>>

\* The process is gone with all it had in memory.
Volatile(p) ==
  /\ SetMode(p, "down")
  /\ snap' = [snap EXCEPT ![p] = [r \in Run |-> 0]]
  /\ disp' = [disp EXCEPT ![p] = Idle]
  /\ batch' = [batch EXCEPT ![p] = {}]
  /\ g' = [s \in Slot |-> IF Host[s] = p THEN Free ELSE g[s]]
  /\ exec' = [exec EXCEPT ![p] = [r \in Run |-> None]]
  /\ cancelReq' = [cancelReq EXCEPT ![p] = {}]
  /\ UNCHANGED <<rows, ready>>

\* StartWorkers fails: the lock is released and the server does not start.
StartFails(p) ==
  /\ mode[p] = "sweeping"
  /\ \/ \E r \in Run : snap[p][r] # 0 /\ seq[r] # snap[p][r]
        /\ UNCHANGED env
     \/ Fault
  /\ Volatile(p)
  /\ owner' = IF owner = p THEN None ELSE owner

\* Manager.Shutdown, called for a SIGTERM only, cancels Manager.ctx; when the loop and the goroutines are
\* gone it releases the lock, while HTTP requests may still be served.
Stop == stops < MaxStops /\ stops' = stops + 1 /\ UNCHANGED faults

Shutdown(p) ==
  /\ mode[p] \in {"up", "halted"} /\ Stop
  /\ SetMode(p, "stopping")
  /\ UNCHANGED <<rows, ready, owner, snap, loop, workers, cancelReq>>

DrainedEarly(p) ==
  /\ mode[p] = "stopping" /\ At(p, "off")
  /\ SetMode(p, "drained")
  /\ owner' = IF owner = p THEN None ELSE owner
  /\ UNCHANGED <<rows, ready, snap, loop, workers, cancelReq, env>>

Drained(p) ==
  /\ mode[p] = "stopping" /\ At(p, "off")
  /\ \A s \in Slot : Host[s] = p => In(s, "free")
  /\ SetMode(p, "drained")
  /\ owner' = IF owner = p THEN None ELSE owner
  /\ UNCHANGED <<rows, ready, snap, loop, workers, cancelReq, env>>

ProcessExit(p) == mode[p] = "drained" /\ Volatile(p) /\ UNCHANGED <<owner, env>>

\* A crash, or an exit before the goroutines are gone (ShutdownTimeout).
Crash(p) == mode[p] # "down" /\ Volatile(p) /\ Stop /\ UNCHANGED owner

\* MySQL drops the lock of a connection that is gone.  It may also drop the
\* connection of a process that is there, which finds out at its next Tick.
LockFreed(p) ==
  /\ owner = p
  /\ \/ mode[p] = "down" /\ UNCHANGED env
     \/ mode[p] # "down" /\ Fault
  /\ owner' = None
  /\ UNCHANGED <<rows, ready, mode, snap, loop, workers, cancelReq>>

-----------------------------------------------------------------------------
Users(p) ==
  \E r \in Run : CreateRun(p, r) \/ Pause(p, r) \/ Cancel(p, r)
                 \/ Approve(p, r) \/ Resume(p, r)
Outbox(p) ==
  \/ Tick(p) \/ LoopExit(p) \/ Claim(p) \/ ClaimFails(p) \/ ClaimRefused(p)
  \/ Dispatch(p)
  \/ \E s \in Slot : MarkRunning(p, s)
  \/ Ack(p) \/ Retry(p)
Execution(s) ==
  \/ Register(s) \/ CheckCancelled(s) \/ Emit(s) \/ SaveCheckpoint(s)
  \/ HandlerEnds(s) \/ Suspend(s) \/ Complete(s) \/ Fail(s) \/ Exit(s)
Process(p) ==
  \/ AcquireRuntime(p) \/ ReadStale(p) \/ InterruptStale(p) \/ StartFails(p)
  \/ Shutdown(p) \/ Drained(p) \/ ProcessExit(p) \/ Crash(p) \/ LockFreed(p)

Next ==
  \/ \E p \in Proc : Users(p) \/ Outbox(p) \/ Process(p)
                     \/ \E r \in Run : CancelHandle(p, r)
  \/ \E s \in Slot : Execution(s)

Spec == Init /\ [][Next]_vars

\* The scheduler runs every goroutine that can run, a handler is over within
\* the 25 minutes of its context, a server that is down is started again, and
\* MySQL notices that the connection of a dead process is gone.  Users, faults
\* and whoever sends a SIGTERM owe nothing: a halted process stays halted.
\* A pending row is due within a minute, so that a loop that keeps polling
\* ends up claiming it, however often it polls too early: strong fairness.
ClaimAll(p) == Claim(p) /\ batch'[p] = RowsIn("pending") \cup RowsIn("processing")

Fairness ==
  /\ \A p \in Proc :
       /\ WF_vars(Tick(p) \/ LoopExit(p) \/ ClaimRefused(p) \/ Dispatch(p))
       /\ WF_vars(\E s \in Slot : MarkRunning(p, s))
       /\ WF_vars(Ack(p) \/ Retry(p))
       /\ SF_vars(ClaimAll(p))
       /\ \A r \in Run : WF_vars(CancelHandle(p, r))
       /\ WF_vars(AcquireRuntime(p) \/ ReadStale(p) \/ InterruptStale(p)
                  \/ StartFails(p) \/ Drained(p) \/ ProcessExit(p))
       /\ WF_vars(mode[p] = "down" /\ LockFreed(p))
  /\ \A s \in Slot :
       WF_vars(Register(s) \/ CheckCancelled(s) \/ HandlerEnds(s) \/ Suspend(s)
               \/ Complete(s) \/ Fail(s) \/ Exit(s))

FairSpec == Spec /\ Fairness

-----------------------------------------------------------------------------
(* Properties                                                              *)

\* A run holds its application's key from creation to end and never after:
\* what admits a new run (active_key IS NULL) and what ends one (status) are
\* written by eight transactions and never disagree.
KeyHeldWhileUnfinished ==
  \A r \in Run :
    activeKey[r] = IF status[r] \in Unfinished THEN AppOf[r] ELSE None

\* At most one unfinished run per application, across suspensions, resumes,
\* restarts and processes.
OneUnfinishedRunPerApp ==
  \A q, r \in Run :
    q # r /\ AppOf[q] = AppOf[r] => ~(status[q] \in Unfinished /\ status[r] \in Unfinished)

\* A finished run has exactly one "done" event and it is the last event; an
\* unfinished one has none.  Subscribers stop reading at that event.
DoneClosesTheStream ==
  \A r \in Run :
    done[r] = IF status[r] \in Terminal THEN {seq[r]} ELSE {}

\* The end of a run is final: no late failure, suspension, control request or
\* restart changes its status or appends to its stream.
EndIsFinal ==
  [][\A r \in Run : status[r] \in Terminal =>
       UNCHANGED <<status[r], seq[r], activeKey[r]>>]_vars

\* An accepted cancellation is never overtaken: no completion, failure or
\* suspension that raced it wins.
CancelIsFinal ==
  [][\A r \in Run : status[r] = "cancelling" =>
       status'[r] \in {"cancelling", "canceled"}]_vars

\* A run offered for recovery has a checkpoint to recover from.
RecoverableHasCheckpoint == \A r \in Run : status[r] = "recoverable" => ckpt[r]

\* A server that starts interrupts no run whose handler is at work in another
\* server: the first one gave up the runtime only after its goroutines ended.
NoForeignInterrupt ==
  [][\A p \in Proc, s \in Slot :
       /\ mode[p] = "sweeping" /\ mode'[p] = "up"
       /\ In(s, "handler")
       => status'[g[s].run] = status[g[s].run]]_vars

\* The goroutines that can still emit, save, return or suspend for a run.  One
\* that only has a failure to report is not counted: see OneAttemptAtATime.
Attempts(r) ==
  {s \in Slot : /\ g[s].run = r
                /\ g[s].pc \in {"enter", "check", "handler", "suspending", "completing"}}

\* A run is worked on by one goroutine at a time, while it executes or after it
\* has ended: whatever answer is lost, no message that is redelivered, claimed
\* twice or acknowledged late starts a second one beside it, nor does a resume.
\* It says nothing of a goroutine whose Suspend committed without an answer:
\* that one reports a failure, store.Fail has no attempt to compare, and if the
\* run was resumed meanwhile it is the new attempt that fails.
OneAttemptAtATime ==
  \A r \in Run : /\ Cardinality(Attempts(r)) <= 1
                 /\ Attempts(r) # {} => status[r] \in Executing \cup Terminal

\* A cancel request stops the handler of the run it names and no other: a
\* registered handle is that of a goroutine of the run, and a handler at work
\* can be reached, also when the goroutine of an earlier attempt ends late.
HandlesAreOwn ==
  /\ \A p \in Proc, r \in Run :
       exec[p][r] # None =>
         /\ Host[exec[p][r]] = p
         /\ g[exec[p][r]].run = r
         /\ g[exec[p][r]].pc \notin {"free", "reserved", "enter"}
  /\ \A s \in Slot :
       g[s].pc \in {"check", "handler"} => exec[Host[s]][g[s].run] = s

\* A slot is reserved only for the message its process is dispatching: the
\* semaphore leaks no slot.
SlotsAreAccountedFor ==
  \A s \in Slot : g[s].pc = "reserved" =>
    disp[Host[s]].pc = "marking" /\ g[s].run = disp[Host[s]].msg[1]

\* A cancellation accepted before the handler starts reaches it, whether the
\* handle was registered in time or not.
CancelReachesHandler ==
  \A s \in Slot :
    /\ g[s].pc = "handler"
    /\ status[g[s].run] = "cancelling"
    => g[s].canceled \/ \E p \in Proc : g[s].run \in cancelReq[p]

\* Every accepted cancellation takes effect.
CancelSettles ==
  \A r \in Run : status[r] = "cancelling" ~> status[r] = "canceled"

\* Every pending run is started, ended or interrupted, whatever becomes of its
\* outbox row (claimed without an answer, refused for want of a slot, handed
\* back by a server that stops), unless a server is halted: that one neither
\* serves the run nor lets another do it before somebody restarts it.
PendingIsServed ==
  \A r \in Run :
    status[r] = "pending" ~> \/ status[r] # "pending"
                             \/ \E p \in Proc : mode[p] = "halted"

\* No run executes for ever.
ExecutionEnds ==
  \A r \in Run : status[r] \in Executing ~> status[r] \notin Executing

\* The abstract specification.
Lifecycle == INSTANCE RunLifecycle
  WITH Run <- Run, App <- App, AppOf <- AppOf, status <- status
LifecycleSpec == Lifecycle!Spec

=============================================================================
