-------------------------- MODULE TaskRuntimeProofs --------------------------
(***************************************************************************)
(* Proofs about TaskRuntime, for any number of runs, applications,         *)
(* processes, slots, faults and crashes.                                   *)
(***************************************************************************)
EXTENDS TaskRuntime, SequenceTheorems, TLAPS

-----------------------------------------------------------------------------
(* Types                                                                   *)

\* The parts of TypeOK, by who writes them.
RowsTypeOK ==
  /\ status \in [Run -> Status]
  /\ activeKey \in [Run -> App \cup {None}]
  /\ ckpt \in [Run -> BOOLEAN]
  /\ seq \in [Run -> Nat]
  /\ done \in [Run -> SUBSET Nat]
ReadyTypeOK == ready \in [Run -> Seq(OutboxStatus)]
DispTypeOK ==
  disp \in [Proc -> [pc : {"off", "idle", "drain", "marking", "ack", "retry"},
                     msg : Message \cup {None}]]
WorkTypeOK == g \in [Slot -> Goroutine]
ExecTypeOK == exec \in [Proc -> [Run -> Slot \cup {None}]]
SnapTypeOK == snap \in [Proc -> [Run -> Nat]]
EnvTypeOK == faults \in 0 .. MaxFaults /\ stops \in 0 .. MaxStops

\* Helpers that write one variable keep its type.
LEMMA StepType ==
  ASSUME WorkTypeOK, NEW s, NEW pc \in {"check", "handler", "completing", "tail"},
         Step(s, pc)
  PROVE  WorkTypeOK'
BY DEF WorkTypeOK, Step, Goroutine

LEMMA StepToType ==
  ASSUME WorkTypeOK, NEW s,
         NEW pc \in {"suspending", "failing", "tail"},
         NEW arg \in {"none", "paused", "awaiting_approval", "failed", "interrupted"},
         StepTo(s, pc, arg)
  PROVE  WorkTypeOK'
BY DEF WorkTypeOK, StepTo, Goroutine

LEMMA GotoType ==
  ASSUME DispTypeOK, NEW p,
         NEW pc \in {"off", "idle", "drain", "marking", "ack", "retry"},
         Goto(p, pc)
  PROVE  DispTypeOK'
BY DEF DispTypeOK, Goto

LEMMA FaultType == ASSUME TypeOK, Fault PROVE EnvTypeOK'
BY TaskConstants DEF TypeOK, Fault, EnvTypeOK, TaskConstants

LEMMA StopType == ASSUME TypeOK, Stop PROVE EnvTypeOK'
BY TaskConstants DEF TypeOK, Stop, EnvTypeOK, TaskConstants

LEMMA MoveToType ==
  ASSUME RowsTypeOK, NEW r \in Run, NEW s \in Status, MoveTo(r, s)
  PROVE  RowsTypeOK'
BY DEF RowsTypeOK, MoveTo, Become, AppendEvents

LEMMA FinishType ==
  ASSUME RowsTypeOK, NEW r \in Run, NEW s \in Status, NEW k \in Nat, Finish(r, s, k)
  PROVE  RowsTypeOK'
BY DEF RowsTypeOK, Finish, Become

\* An outbox row that is overwritten leaves a sequence of rows.
LEMMA SetRowType ==
  ASSUME ReadyTypeOK, NEW m, NEW o \in OutboxStatus, SetRow(m, o)
  PROVE  ReadyTypeOK'
<1> SUFFICES ASSUME NEW r \in Run PROVE ready'[r] \in Seq(OutboxStatus)
  BY DEF ReadyTypeOK, SetRow
<1>1. \A s \in Seq(OutboxStatus) : \A i : [s EXCEPT ![i] = o] \in Seq(OutboxStatus)
  <2> SUFFICES ASSUME NEW s \in Seq(OutboxStatus), NEW i
               PROVE  [s EXCEPT ![i] = o] \in Seq(OutboxStatus)
    OBVIOUS
  <2>1. s \in [1 .. Len(s) -> OutboxStatus] /\ Len(s) \in Nat
    BY ElementOfSeq, LenProperties
  <2>2. [s EXCEPT ![i] = o] \in [1 .. Len(s) -> OutboxStatus]
    BY <2>1
  <2> QED BY <2>1, <2>2, SeqDef
<1> QED BY <1>1 DEF ReadyTypeOK, SetRow

\* A goroutine works for a run from the moment its slot is reserved.
HasRun == \A s \in Slot : g[s].pc # "free" => g[s].run \in Run
TypeInv == TypeOK /\ HasRun

LEMMA TypeInit == Init => TypeInv
BY TaskConstants, EmptySeq
DEF TaskConstants, Init, TypeInv, TypeOK, HasRun, Status, Mode, Idle, Free,
    Goroutine, OutboxStatus

LEMMA CreateRunType ==
  ASSUME TypeInv, NEW p \in Proc, NEW r \in Run, CreateRun(p, r) PROVE TypeInv'
<1>1. ready' \in [Run -> Seq(OutboxStatus)]
  BY AppendProperties DEF TypeInv, TypeOK, CreateRun, AddReady, OutboxStatus
<1>2. activeKey' \in [Run -> App \cup {None}]
  BY TaskConstants DEF TaskConstants, TypeInv, TypeOK, CreateRun
<1> QED
  BY <1>1, <1>2
  DEF TypeInv, TypeOK, HasRun, CreateRun, Become, AppendEvents, Status,
      loop, workers, env

LEMMA TakeUpAgainType ==
  ASSUME TypeInv, NEW p \in Proc, NEW r \in Run, NEW from, TakeUpAgain(p, r, from)
  PROVE  TypeInv'
<1>1. ready' \in [Run -> Seq(OutboxStatus)]
  BY AppendProperties DEF TypeInv, TypeOK, TakeUpAgain, AddReady, OutboxStatus
<1>2. activeKey' \in [Run -> App \cup {None}]
  BY TaskConstants DEF TaskConstants, TypeInv, TypeOK, TakeUpAgain
<1> QED
  BY <1>1, <1>2
  DEF TypeInv, TypeOK, HasRun, TakeUpAgain, Become, AppendEvents, Status,
      loop, workers, env

LEMMA PauseType ==
  ASSUME TypeInv, NEW p \in Proc, NEW r \in Run, Pause(p, r) PROVE TypeInv'
<1>1. RowsTypeOK'
  BY MoveToType DEF TypeInv, TypeOK, RowsTypeOK, Pause, Status, Executing
<1> QED
  BY <1>1 DEF TypeInv, TypeOK, RowsTypeOK, HasRun, Pause, loop, workers, env

LEMMA CancelType ==
  ASSUME TypeInv, NEW p \in Proc, NEW r \in Run, Cancel(p, r) PROVE TypeInv'
<1>1. RowsTypeOK'
  <2>1. RowsTypeOK BY DEF TypeInv, TypeOK, RowsTypeOK
  <2>2. CASE UNCHANGED rows BY <2>1, <2>2 DEF rows, RowsTypeOK
  <2>3. CASE MoveTo(r, "cancelling")
    BY <2>1, <2>3, MoveToType DEF Status, Executing
  <2>4. CASE Finish(r, "canceled", 2)
    BY <2>1, <2>4, FinishType DEF Status, Terminal
  <2> QED BY <2>2, <2>3, <2>4 DEF Cancel, CancelRow
<1>2. EnvTypeOK'
  BY FaultType DEF Cancel, TypeInv, TypeOK, EnvTypeOK, env
<1>3. cancelReq' \in [Proc -> SUBSET Run]
  <2>1. cancelReq \in [Proc -> SUBSET Run] BY DEF TypeInv, TypeOK
  <2>2. \/ cancelReq' = [cancelReq EXCEPT ![p] = @ \cup {r}]
        \/ UNCHANGED cancelReq
    BY DEF Cancel
  <2> QED BY <2>1, <2>2
<1>4. UNCHANGED <<ready, owner, mode, snap, disp, batch, g, exec>>
  BY DEF Cancel, loop, workers
<1>5. HasRun'
  BY <1>4 DEF TypeInv, HasRun
<1>6. TypeOK'
  BY <1>1, <1>2, <1>3, <1>4 DEF TypeInv, TypeOK, RowsTypeOK, EnvTypeOK
<1> QED
  BY <1>5, <1>6 DEF TypeInv

LEMMA CancelHandleType ==
  ASSUME TypeInv, NEW p \in Proc, NEW r \in Run, CancelHandle(p, r) PROVE TypeInv'
<1>1. \A s \in Slot : /\ [g[s] EXCEPT !.canceled = TRUE] \in Goroutine
                      /\ [g[s] EXCEPT !.canceled = TRUE].pc = g[s].pc
                      /\ [g[s] EXCEPT !.canceled = TRUE].run = g[s].run
  <2>1. g \in [Slot -> Goroutine] BY DEF TypeInv, TypeOK
  <2> QED BY <2>1 DEF Goroutine
<1>2. g' \in [Slot -> Goroutine] /\ HasRun'
  BY <1>1 DEF TypeInv, TypeOK, HasRun, CancelHandle
<1>3. cancelReq' \in [Proc -> SUBSET Run]
  BY DEF TypeInv, TypeOK, CancelHandle
<1>4. UNCHANGED <<rows, ready, owner, mode, snap, disp, batch, exec, faults, stops>>
  BY DEF CancelHandle, loop, env
<1>5. TypeOK'
  BY <1>2, <1>3, <1>4 DEF TypeInv, TypeOK, rows
<1> QED
  BY <1>2, <1>5 DEF TypeInv

LEMMA UsersType ==
  ASSUME TypeInv, NEW p \in Proc, Users(p) PROVE TypeInv'
BY CreateRunType, TakeUpAgainType, PauseType, CancelType
DEF Users, Approve, Resume

-----------------------------------------------------------------------------
(* Types: the outbox loop                                                  *)

LEMMA TickType == ASSUME TypeInv, NEW p \in Proc, Tick(p) PROVE TypeInv'
<1>1. DispTypeOK'
  BY GotoType DEF TypeInv, TypeOK, DispTypeOK, Tick
<1>2. mode' \in [Proc -> Mode]
  <2>1. mode \in [Proc -> Mode] BY DEF TypeInv, TypeOK
  <2>2. UNCHANGED mode \/ mode' = [mode EXCEPT ![p] = "halted"] BY DEF Tick
  <2> QED BY <2>1, <2>2 DEF Mode
<1>3. EnvTypeOK'
  BY FaultType DEF TypeInv, TypeOK, EnvTypeOK, env, Tick
<1>4. UNCHANGED <<rows, ready, owner, snap, batch, g, exec, cancelReq>>
  BY DEF Tick, workers
<1> QED
  BY <1>1, <1>2, <1>3, <1>4 DEF TypeInv, TypeOK, HasRun, DispTypeOK, EnvTypeOK, rows

LEMMA LoopExitType == ASSUME TypeInv, NEW p \in Proc, LoopExit(p) PROVE TypeInv'
<1>1. DispTypeOK'
  BY GotoType DEF TypeInv, TypeOK, DispTypeOK, LoopExit
<1>3. UNCHANGED <<rows, ready, owner, mode, snap, batch, g, exec, cancelReq, faults, stops>>
  BY DEF LoopExit, workers, env
<1> QED
  BY <1>1, <1>3 DEF TypeInv, TypeOK, HasRun, DispTypeOK, rows

LEMMA ClaimRefusedType == ASSUME TypeInv, NEW p \in Proc, ClaimRefused(p) PROVE TypeInv'
<1>1. DispTypeOK'
  BY GotoType DEF TypeInv, TypeOK, DispTypeOK, ClaimRefused
<1>3. UNCHANGED <<rows, ready, owner, mode, snap, batch, g, exec, cancelReq, faults, stops>>
  BY DEF ClaimRefused, workers, env
<1> QED
  BY <1>1, <1>3 DEF TypeInv, TypeOK, HasRun, DispTypeOK, rows

\* A function on 1 .. n is a sequence of rows.
LEMMA RowsAreASeq ==
  ASSUME NEW n \in Nat, NEW q \in [1 .. n -> OutboxStatus]
  PROVE  q \in Seq(OutboxStatus)
BY SeqDef

LEMMA ClaimRowsType ==
  ASSUME TypeInv, NEW aged, NEW due, ClaimRows(aged, due)
  PROVE  ReadyTypeOK'
<1> SUFFICES ASSUME NEW r \in Run PROVE ready'[r] \in Seq(OutboxStatus)
  BY DEF ReadyTypeOK, ClaimRows
<1> DEFINE q == [i \in 1 .. Len(ready[r]) |->
                    IF <<r, i>> \in due THEN "processing"
                    ELSE IF <<r, i>> \in aged THEN "pending" ELSE ready[r][i]]
<1>1. ready[r] \in Seq(OutboxStatus) BY DEF TypeInv, TypeOK
<1>2. Len(ready[r]) \in Nat BY <1>1, LenProperties
<1>3. q \in [1 .. Len(ready[r]) -> OutboxStatus]
  BY <1>1, ElementOfSeq DEF OutboxStatus
<1>4. ready'[r] = q
  BY DEF ClaimRows
<1> HIDE DEF q
<1> QED BY <1>2, <1>3, <1>4, RowsAreASeq

LEMMA ClaimType == ASSUME TypeInv, NEW p \in Proc, Claim(p) PROVE TypeInv'
<1> PICK aged \in SUBSET RowsIn("processing") :
      \E due \in SUBSET (RowsIn("pending") \cup aged) :
        /\ ClaimRows(aged, due)
        /\ batch' = [batch EXCEPT ![p] = due]
        /\ IF due = {} THEN Goto(p, "idle") ELSE UNCHANGED disp
  BY DEF Claim
<1> PICK due \in SUBSET (RowsIn("pending") \cup aged) :
        /\ ClaimRows(aged, due)
        /\ batch' = [batch EXCEPT ![p] = due]
        /\ IF due = {} THEN Goto(p, "idle") ELSE UNCHANGED disp
  OBVIOUS
<1>1. ReadyTypeOK'
  BY ClaimRowsType
<1>2. DispTypeOK'
  BY GotoType DEF TypeInv, TypeOK, DispTypeOK
<1>3. batch' \in [Proc -> SUBSET Message]
  <2>1. batch \in [Proc -> SUBSET Message] BY DEF TypeInv, TypeOK
  <2> QED BY <2>1 DEF RowsIn
<1>4. UNCHANGED <<rows, owner, mode, snap, g, exec, cancelReq, faults, stops>>
  BY DEF Claim, workers, env
<1> QED
  BY <1>1, <1>2, <1>3, <1>4 DEF TypeInv, TypeOK, HasRun, ReadyTypeOK, DispTypeOK, rows

LEMMA ClaimFailsType == ASSUME TypeInv, NEW p \in Proc, ClaimFails(p) PROVE TypeInv'
<1>1. ReadyTypeOK'
  BY ClaimRowsType DEF ClaimFails
<1>2. DispTypeOK'
  BY GotoType DEF TypeInv, TypeOK, DispTypeOK, ClaimFails
<1>3. EnvTypeOK'
  BY FaultType DEF TypeInv, TypeOK, EnvTypeOK, ClaimFails
<1>4. UNCHANGED <<rows, owner, mode, snap, batch, g, exec, cancelReq>>
  BY DEF ClaimFails, workers
<1> QED
  BY <1>1, <1>2, <1>3, <1>4
  DEF TypeInv, TypeOK, HasRun, ReadyTypeOK, DispTypeOK, EnvTypeOK, rows

LEMMA DispatchType == ASSUME TypeInv, NEW p \in Proc, Dispatch(p) PROVE TypeInv'
<1> PICK m \in batch[p] :
       /\ batch' = [batch EXCEPT ![p] = @ \ {m}]
       /\ \/ /\ mode[p] = "up" /\ status[m[1]] # "pending"
             /\ disp' = [disp EXCEPT ![p] = [pc |-> "ack", msg |-> m]]
             /\ UNCHANGED <<g, env>>
          \/ /\ mode[p] = "up" /\ status[m[1]] = "pending"
             /\ \E s \in FreeSlots(p) :
                  g' = [g EXCEPT ![s] = [Free EXCEPT !.pc = "reserved", !.run = m[1]]]
             /\ disp' = [disp EXCEPT ![p] = [pc |-> "marking", msg |-> m]]
             /\ UNCHANGED env
          \/ /\ \/ mode[p] # "up" /\ UNCHANGED env
                \/ status[m[1]] = "pending" /\ FreeSlots(p) = {} /\ UNCHANGED env
                \/ Fault
             /\ disp' = [disp EXCEPT ![p] = [pc |-> "retry", msg |-> m]]
             /\ UNCHANGED g
  BY DEF Dispatch
<1>1. batch \in [Proc -> SUBSET Message] /\ m \in Message /\ m[1] \in Run
  BY DEF TypeInv, TypeOK, Message
<1>2. batch' \in [Proc -> SUBSET Message]
  BY <1>1
<1>3. DispTypeOK'
  <2>1. DispTypeOK BY DEF TypeInv, TypeOK, DispTypeOK
  <2>2. \E pc \in {"ack", "marking", "retry"} :
          disp' = [disp EXCEPT ![p] = [pc |-> pc, msg |-> m]]
    OBVIOUS
  <2> QED BY <1>1, <2>1, <2>2 DEF DispTypeOK
<1>4. EnvTypeOK'
  BY FaultType DEF TypeInv, TypeOK, EnvTypeOK, env
<1>5. WorkTypeOK' /\ HasRun'
  <2>1. WorkTypeOK /\ HasRun BY DEF TypeInv, TypeOK, WorkTypeOK
  <2>2. CASE UNCHANGED g BY <2>1, <2>2 DEF WorkTypeOK, HasRun
  <2>3. ASSUME NEW s \in Slot,
               g' = [g EXCEPT ![s] = [Free EXCEPT !.pc = "reserved", !.run = m[1]]]
        PROVE  WorkTypeOK' /\ HasRun'
    BY <1>1, <2>1, <2>3 DEF WorkTypeOK, HasRun, Free, Goroutine
  <2> QED BY <2>2, <2>3 DEF FreeSlots
<1>6. UNCHANGED <<rows, ready, owner, mode, snap, exec, cancelReq>>
  BY DEF Dispatch
<1> QED
  BY <1>2, <1>3, <1>4, <1>5, <1>6
  DEF TypeInv, TypeOK, DispTypeOK, EnvTypeOK, WorkTypeOK, rows

LEMMA MarkRunningType ==
  ASSUME TypeInv, NEW p \in Proc, NEW s \in Slot, MarkRunning(p, s) PROVE TypeInv'
<1>1. WorkTypeOK /\ HasRun BY DEF TypeInv, TypeOK, WorkTypeOK
<1>2. g[s].run \in Run BY <1>1 DEF MarkRunning, HasRun
<1>3. RowsTypeOK'
  <2>1. RowsTypeOK BY DEF TypeInv, TypeOK, RowsTypeOK
  <2>2. UNCHANGED rows \/ MoveTo(g[s].run, "running") BY DEF MarkRunning
  <2> QED BY <1>2, <2>1, <2>2, MoveToType DEF rows, RowsTypeOK, Status, Executing
<1>4. DispTypeOK'
  BY GotoType DEF TypeInv, TypeOK, DispTypeOK, MarkRunning
<1>5. EnvTypeOK'
  BY FaultType DEF TypeInv, TypeOK, EnvTypeOK, env, MarkRunning
<1>6. WorkTypeOK' /\ HasRun'
  <2>1. \/ g' = [g EXCEPT ![s].pc = "enter"]
        \/ g' = [g EXCEPT ![s] = Free]
    BY DEF MarkRunning
  <2>2. CASE g' = [g EXCEPT ![s].pc = "enter"]
    BY <1>1, <1>2, <2>2 DEF WorkTypeOK, HasRun, Goroutine
  <2>3. CASE g' = [g EXCEPT ![s] = Free]
    <3>1. Free \in Goroutine /\ Free.pc = "free" BY DEF Free, Goroutine
    <3> HIDE DEF Free
    <3> QED BY <1>1, <2>3, <3>1 DEF WorkTypeOK, HasRun
  <2> QED BY <2>1, <2>2, <2>3
<1>7. UNCHANGED <<ready, owner, mode, snap, batch, exec, cancelReq>>
  BY DEF MarkRunning
<1> QED
  BY <1>3, <1>4, <1>5, <1>6, <1>7
  DEF TypeInv, TypeOK, RowsTypeOK, DispTypeOK, EnvTypeOK, WorkTypeOK

LEMMA SettleType ==
  ASSUME TypeInv, NEW p \in Proc, NEW pc, NEW o \in OutboxStatus, Settle(p, pc, o)
  PROVE  TypeInv'
<1>1. ReadyTypeOK'
  BY SetRowType DEF TypeInv, TypeOK, ReadyTypeOK, Settle
<1>2. DispTypeOK'
  <2>1. DispTypeOK BY DEF TypeInv, TypeOK, DispTypeOK
  <2>2. disp' = [disp EXCEPT ![p] = [pc |-> "drain", msg |-> None]] BY DEF Settle
  <2> QED BY <2>1, <2>2 DEF DispTypeOK
<1>3. EnvTypeOK'
  BY FaultType DEF TypeInv, TypeOK, EnvTypeOK, env, Settle
<1>4. UNCHANGED <<rows, owner, mode, snap, batch, g, exec, cancelReq>>
  BY DEF Settle, workers
<1> QED
  BY <1>1, <1>2, <1>3, <1>4
  DEF TypeInv, TypeOK, HasRun, ReadyTypeOK, DispTypeOK, EnvTypeOK, rows

LEMMA OutboxType == ASSUME TypeInv, NEW p \in Proc, Outbox(p) PROVE TypeInv'
<1>1. {"delivered", "pending"} \subseteq OutboxStatus BY DEF OutboxStatus
<1> QED
  BY <1>1, TickType, LoopExitType, ClaimType, ClaimFailsType, ClaimRefusedType,
     DispatchType, MarkRunningType, SettleType
  DEF Outbox, Ack, Retry

-----------------------------------------------------------------------------
(* Types: the goroutines                                                   *)

\* A goroutine that moves on still works for its run.
LEMMA StepHasRun ==
  ASSUME WorkTypeOK, HasRun, NEW s \in Slot, g[s].pc # "free", NEW pc, Step(s, pc)
  PROVE  HasRun'
BY DEF WorkTypeOK, HasRun, Step, Goroutine

LEMMA StepToHasRun ==
  ASSUME WorkTypeOK, HasRun, NEW s \in Slot, g[s].pc # "free", NEW pc, NEW arg,
         StepTo(s, pc, arg)
  PROVE  HasRun'
BY DEF WorkTypeOK, HasRun, StepTo, Goroutine

LEMMA RegisterType == ASSUME TypeInv, NEW s \in Slot, Register(s) PROVE TypeInv'
<1>1. WorkTypeOK /\ HasRun /\ g[s].pc # "free"
  BY DEF TypeInv, TypeOK, WorkTypeOK, Register, In
<1>2. WorkTypeOK' /\ HasRun'
  BY <1>1, StepType, StepHasRun DEF Register
<1>3. exec' \in [Proc -> [Run -> Slot \cup {None}]]
  <2>1. exec \in [Proc -> [Run -> Slot \cup {None}]] BY DEF TypeInv, TypeOK
  <2> QED BY <2>1 DEF Register
<1>4. UNCHANGED <<rows, ready, owner, mode, snap, disp, batch, cancelReq, faults, stops>>
  BY DEF Register, loop, env
<1> QED
  BY <1>2, <1>3, <1>4 DEF TypeInv, TypeOK, WorkTypeOK, rows

LEMMA CheckCancelledType ==
  ASSUME TypeInv, NEW s \in Slot, CheckCancelled(s) PROVE TypeInv'
<1>1. WorkTypeOK /\ HasRun /\ g[s].pc # "free"
  BY DEF TypeInv, TypeOK, WorkTypeOK, CheckCancelled, In
<1>2. PICK c \in BOOLEAN :
        g' = [g EXCEPT ![s].pc = "handler", ![s].canceled = c]
  <2>1. g[s].canceled \in BOOLEAN BY <1>1 DEF WorkTypeOK, Goroutine
  <2> QED BY <2>1 DEF CheckCancelled
<1>3. WorkTypeOK' /\ HasRun'
  BY <1>1, <1>2 DEF WorkTypeOK, HasRun, Goroutine
<1>4. EnvTypeOK'
  BY FaultType DEF TypeInv, TypeOK, EnvTypeOK, env, CheckCancelled
<1>5. UNCHANGED <<rows, ready, owner, mode, snap, disp, batch, exec, cancelReq>>
  BY DEF CheckCancelled, loop
<1> QED
  BY <1>3, <1>4, <1>5 DEF TypeInv, TypeOK, WorkTypeOK, EnvTypeOK, rows

LEMMA HandlerType ==
  ASSUME TypeInv, NEW s \in Slot, Emit(s) \/ SaveCheckpoint(s) PROVE TypeInv'
<1>1. ckpt \in [Run -> BOOLEAN] /\ seq \in [Run -> Nat] /\ g[s].run \in Run
  BY DEF TypeInv, TypeOK, HasRun, Emit, SaveCheckpoint, In
<1>2. seq' \in [Run -> Nat]
  BY <1>1 DEF Emit, SaveCheckpoint, AppendEvents
<1>4. ckpt' \in [Run -> BOOLEAN]
  <2>1. ckpt' = ckpt \/ ckpt' = [ckpt EXCEPT ![g[s].run] = TRUE]
    BY DEF Emit, SaveCheckpoint
  <2> QED BY <1>1, <2>1
<1>3. UNCHANGED <<status, activeKey, done, ready, owner, mode, snap, disp, batch,
                  g, exec, cancelReq, faults, stops>>
  BY DEF Emit, SaveCheckpoint, AppendEvents, loop, workers, env
<1> QED
  BY <1>2, <1>3, <1>4 DEF TypeInv, TypeOK, HasRun

LEMMA HandlerEndsType ==
  ASSUME TypeInv, NEW s \in Slot, HandlerEnds(s) PROVE TypeInv'
<1>1. WorkTypeOK /\ HasRun /\ g[s].pc # "free"
  BY DEF TypeInv, TypeOK, WorkTypeOK, HandlerEnds, In
<1>2. WorkTypeOK' /\ HasRun'
  <2>1. \/ \E pc \in {"completing"} : Step(s, pc)
        \/ \E pc \in {"suspending", "failing"},
              arg \in {"paused", "awaiting_approval", "failed", "interrupted"} :
             StepTo(s, pc, arg)
    BY DEF HandlerEnds
  <2> QED BY <1>1, <2>1, StepType, StepToType, StepHasRun, StepToHasRun
<1>3. UNCHANGED <<rows, ready, owner, mode, snap, disp, batch, exec, cancelReq,
                  faults, stops>>
  BY DEF HandlerEnds, loop, env
<1> QED
  BY <1>2, <1>3 DEF TypeInv, TypeOK, WorkTypeOK, rows

\* The three ways a goroutine settles its run.
LEMMA SettlingType ==
  ASSUME TypeInv, NEW s \in Slot, Suspend(s) \/ Complete(s) \/ Fail(s) PROVE TypeInv'
<1>1. WorkTypeOK /\ HasRun /\ g[s].pc # "free"
  BY DEF TypeInv, TypeOK, WorkTypeOK, Suspend, Complete, Fail, In
<1>2. g[s].run \in Run /\ g[s].arg \in {"none", "paused", "awaiting_approval",
                                       "failed", "interrupted"}
  BY <1>1 DEF HasRun, WorkTypeOK, Goroutine
<1>3. WorkTypeOK' /\ HasRun'
  BY <1>1, StepType, StepToType, StepHasRun, StepToHasRun
  DEF Suspend, Complete, Fail
<1>4. RowsTypeOK'
  <2>1. RowsTypeOK BY DEF TypeInv, TypeOK, RowsTypeOK
  <2>2. CASE UNCHANGED rows BY <2>1, <2>2 DEF rows, RowsTypeOK
  <2>3. ASSUME NEW t \in Status, MoveTo(g[s].run, t) PROVE RowsTypeOK'
    BY <1>2, <2>1, <2>3, MoveToType
  <2>4. ASSUME NEW t \in Status, NEW k \in Nat, Finish(g[s].run, t, k)
        PROVE  RowsTypeOK'
    BY <1>2, <2>1, <2>4, FinishType
  <2>5. {"paused", "awaiting_approval", "recoverable", "completed", "canceled",
         "failed", "interrupted"} \subseteq Status
    BY DEF Status, Parked, Terminal
  <2>6. CASE Suspend(s)
    <3>1. UNCHANGED rows \/ \E t \in Status : MoveTo(g[s].run, t)
      BY <2>5, <2>6 DEF Suspend
    <3> QED BY <2>2, <2>3, <3>1
  <2>7. CASE Complete(s)
    BY <2>2, <2>4, <2>5, <2>7 DEF Complete
  <2>8. CASE Fail(s)
    BY <2>2, <2>3, <2>4, <2>5, <2>8 DEF Fail, FailRow
  <2> QED BY <2>6, <2>7, <2>8
<1>5. EnvTypeOK'
  BY FaultType DEF TypeInv, TypeOK, EnvTypeOK, env, Suspend, Complete, Fail
<1>6. UNCHANGED <<ready, owner, mode, snap, disp, batch, exec, cancelReq>>
  BY DEF Suspend, Complete, Fail, loop
<1> QED
  BY <1>3, <1>4, <1>5, <1>6
  DEF TypeInv, TypeOK, WorkTypeOK, RowsTypeOK, EnvTypeOK

LEMMA ExitType == ASSUME TypeInv, NEW s \in Slot, Exit(s) PROVE TypeInv'
<1>1. WorkTypeOK /\ HasRun BY DEF TypeInv, TypeOK, WorkTypeOK
<1>2. Free \in Goroutine /\ Free.pc = "free" BY DEF Free, Goroutine
<1>3. WorkTypeOK' /\ HasRun'
  BY <1>1, <1>2 DEF WorkTypeOK, HasRun, Exit
<1>4. exec' \in [Proc -> [Run -> Slot \cup {None}]]
  <2>1. exec \in [Proc -> [Run -> Slot \cup {None}]] BY DEF TypeInv, TypeOK
  <2> QED BY <2>1 DEF Exit
<1>5. UNCHANGED <<rows, ready, owner, mode, snap, disp, batch, cancelReq, faults, stops>>
  BY DEF Exit, loop, env
<1> QED
  BY <1>3, <1>4, <1>5 DEF TypeInv, TypeOK, WorkTypeOK, rows

LEMMA ExecutionType == ASSUME TypeInv, NEW s \in Slot, Execution(s) PROVE TypeInv'
BY RegisterType, CheckCancelledType, HandlerType, HandlerEndsType, SettlingType,
   ExitType
DEF Execution

-----------------------------------------------------------------------------
(* Types: the processes                                                    *)

LEMMA SetModeType ==
  ASSUME TypeInv, NEW p, NEW m \in Mode, SetMode(p, m)
  PROVE  mode' \in [Proc -> Mode]
<1>1. mode \in [Proc -> Mode] BY DEF TypeInv, TypeOK
<1> QED BY <1>1 DEF SetMode

LEMMA VolatileType ==
  ASSUME TypeInv, NEW p \in Proc, Volatile(p), owner' \in Proc \cup {None}, EnvTypeOK'
  PROVE  TypeInv'
<1>1. mode' \in [Proc -> Mode]
  BY SetModeType DEF Volatile, Mode
<1>2. snap' \in [Proc -> [Run -> Nat]]
  <2>1. snap \in [Proc -> [Run -> Nat]] BY DEF TypeInv, TypeOK
  <2> QED BY <2>1 DEF Volatile
<1>3. DispTypeOK'
  <2>1. DispTypeOK BY DEF TypeInv, TypeOK, DispTypeOK
  <2> QED BY <2>1 DEF DispTypeOK, Volatile, Idle
<1>4. batch' \in [Proc -> SUBSET Message] /\ cancelReq' \in [Proc -> SUBSET Run]
  <2>1. batch \in [Proc -> SUBSET Message] /\ cancelReq \in [Proc -> SUBSET Run]
    BY DEF TypeInv, TypeOK
  <2> QED BY <2>1 DEF Volatile
<1>5. WorkTypeOK' /\ HasRun'
  <2>1. WorkTypeOK /\ HasRun BY DEF TypeInv, TypeOK, WorkTypeOK
  <2>2. Free \in Goroutine /\ Free.pc = "free" BY DEF Free, Goroutine
  <2> QED BY <2>1, <2>2 DEF WorkTypeOK, HasRun, Volatile
<1>6. exec' \in [Proc -> [Run -> Slot \cup {None}]]
  <2>1. exec \in [Proc -> [Run -> Slot \cup {None}]] BY DEF TypeInv, TypeOK
  <2> QED BY <2>1 DEF Volatile
<1>7. UNCHANGED <<rows, ready>>
  BY DEF Volatile
<1> QED
  BY <1>1, <1>2, <1>3, <1>4, <1>5, <1>6, <1>7
  DEF TypeInv, TypeOK, DispTypeOK, WorkTypeOK, EnvTypeOK, rows

\* The steps that change nothing but who holds the lock and what the process
\* is doing.
LEMMA ModeChangeType ==
  ASSUME TypeInv, NEW p \in Proc,
         AcquireRuntime(p) \/ Shutdown(p) \/ Drained(p) \/ LockFreed(p)
  PROVE  TypeInv'
<1>1. mode' \in [Proc -> Mode]
  <2>1. UNCHANGED mode \/ \E m \in {"starting", "stopping", "drained"} : SetMode(p, m)
    BY DEF AcquireRuntime, Shutdown, Drained, LockFreed
  <2>2. {"starting", "stopping", "drained"} \subseteq Mode BY DEF Mode
  <2> QED BY <2>1, <2>2, SetModeType DEF TypeInv, TypeOK
<1>2. owner' \in Proc \cup {None}
  BY DEF TypeInv, TypeOK, AcquireRuntime, Shutdown, Drained, LockFreed
<1>3. EnvTypeOK'
  BY FaultType, StopType
  DEF TypeInv, TypeOK, EnvTypeOK, env, AcquireRuntime, Shutdown, Drained, LockFreed
<1>4. UNCHANGED <<rows, ready, snap, disp, batch, g, exec, cancelReq>>
  BY DEF AcquireRuntime, Shutdown, Drained, LockFreed, loop, workers
<1> QED
  BY <1>1, <1>2, <1>3, <1>4 DEF TypeInv, TypeOK, HasRun, EnvTypeOK, rows

LEMMA ReadStaleType == ASSUME TypeInv, NEW p \in Proc, ReadStale(p) PROVE TypeInv'
<1>1. mode' \in [Proc -> Mode]
  BY SetModeType DEF ReadStale, Mode
<1>2. snap' \in [Proc -> [Run -> Nat]]
  <2>1. snap \in [Proc -> [Run -> Nat]] /\ seq \in [Run -> Nat]
    BY DEF TypeInv, TypeOK
  <2> QED BY <2>1 DEF ReadStale
<1>3. UNCHANGED <<rows, ready, owner, disp, batch, g, exec, cancelReq, faults, stops>>
  BY DEF ReadStale, loop, workers, env
<1> QED
  BY <1>1, <1>2, <1>3 DEF TypeInv, TypeOK, HasRun, rows

LEMMA InterruptStaleType ==
  ASSUME TypeInv, NEW p \in Proc, InterruptStale(p) PROVE TypeInv'
<1>1. RowsTypeOK'
  <2>1. RowsTypeOK BY DEF TypeInv, TypeOK, RowsTypeOK
  <2>2. \A r \in Run : SweptTo(r) \in Status /\ SweepEvents(r) \in Nat
    BY DEF SweptTo, SweepEvents, Status, Parked, Terminal
  <2> HIDE DEF SweptTo, SweepEvents
  <2>3. status' \in [Run -> Status]
    BY <2>1, <2>2 DEF RowsTypeOK, InterruptStale
  <2>4. activeKey' \in [Run -> App \cup {None}]
    BY <2>1, <2>2 DEF RowsTypeOK, InterruptStale
  <2>5. seq' \in [Run -> Nat]
    BY <2>1, <2>2 DEF RowsTypeOK, InterruptStale
  <2>6. done' \in [Run -> SUBSET Nat]
    BY <2>1, <2>2 DEF RowsTypeOK, InterruptStale
  <2>7. ckpt' \in [Run -> BOOLEAN]
    BY <2>1 DEF RowsTypeOK, InterruptStale
  <2> QED BY <2>3, <2>4, <2>5, <2>6, <2>7 DEF RowsTypeOK
<1>2. ReadyTypeOK'
  <2> SUFFICES ASSUME NEW r \in Run PROVE ready'[r] \in Seq(OutboxStatus)
    BY DEF ReadyTypeOK, InterruptStale
  <2> DEFINE q == [i \in 1 .. Len(ready[r]) |->
                    IF ready[r][i] \in {"pending", "processing"} THEN "failed"
                    ELSE ready[r][i]]
  <2>1. ready[r] \in Seq(OutboxStatus) BY DEF TypeInv, TypeOK
  <2>2. Len(ready[r]) \in Nat BY <2>1, LenProperties
  <2>3. q \in [1 .. Len(ready[r]) -> OutboxStatus]
    BY <2>1, ElementOfSeq DEF OutboxStatus
  <2>4. ready'[r] = q
    BY DEF InterruptStale
  <2> HIDE DEF q
  <2> QED BY <2>2, <2>3, <2>4, RowsAreASeq
<1>3. mode' \in [Proc -> Mode]
  BY SetModeType DEF InterruptStale, Mode
<1>4. DispTypeOK'
  <2>1. DispTypeOK BY DEF TypeInv, TypeOK, DispTypeOK
  <2>2. Goto(p, "idle") BY DEF InterruptStale, Goto
  <2> QED BY <2>1, <2>2, GotoType
<1>5. snap' \in [Proc -> [Run -> Nat]]
  <2>1. snap \in [Proc -> [Run -> Nat]] BY DEF TypeInv, TypeOK
  <2>2. snap' = [snap EXCEPT ![p] = [r \in Run |-> 0]] BY DEF InterruptStale
  <2> QED BY <2>1, <2>2
<1>6. UNCHANGED <<owner, batch, g, exec, cancelReq, faults, stops>>
  BY DEF InterruptStale, workers, env
<1> QED
  BY <1>1, <1>2, <1>3, <1>4, <1>5, <1>6
  DEF TypeInv, TypeOK, HasRun, RowsTypeOK, ReadyTypeOK, DispTypeOK

LEMMA ProcessType == ASSUME TypeInv, NEW p \in Proc, Process(p) PROVE TypeInv'
<1>1. CASE AcquireRuntime(p) \/ Shutdown(p) \/ Drained(p) \/ LockFreed(p)
  BY <1>1, ModeChangeType
<1>2. CASE ReadStale(p) BY <1>2, ReadStaleType
<1>3. CASE InterruptStale(p) BY <1>3, InterruptStaleType
<1>4. CASE StartFails(p) \/ ProcessExit(p) \/ Crash(p)
  <2>1. owner' \in Proc \cup {None}
    BY <1>4 DEF TypeInv, TypeOK, StartFails, ProcessExit, Crash
  <2>2. EnvTypeOK'
    BY <1>4, FaultType, StopType
    DEF TypeInv, TypeOK, EnvTypeOK, env, StartFails, ProcessExit, Crash
  <2>3. Volatile(p) BY <1>4 DEF StartFails, ProcessExit, Crash
  <2> QED BY <2>1, <2>2, <2>3, VolatileType
<1> QED BY <1>1, <1>2, <1>3, <1>4 DEF Process

LEMMA TypeStep == TypeInv /\ [Next]_vars => TypeInv'
<1> SUFFICES ASSUME TypeInv, [Next]_vars PROVE TypeInv'
  OBVIOUS
<1>1. CASE Next
  BY <1>1, UsersType, OutboxType, ProcessType, CancelHandleType, ExecutionType DEF Next
<1>2. CASE UNCHANGED vars
  BY <1>2 DEF vars, rows, loop, workers, env, TypeInv, TypeOK, HasRun
<1> QED BY <1>1, <1>2

\* Every variable has its type: a column holds one of its values, a goroutine
\* in a slot works for a run, the outbox rows of a run are a sequence.
THEOREM TypeCorrect == Spec => []TypeOK
<1>1. Init => TypeInv BY TypeInit
<1>2. TypeInv /\ [Next]_vars => TypeInv' BY TypeStep
<1>3. TypeInv => TypeOK BY DEF TypeInv
<1> QED BY <1>1, <1>2, <1>3, PTL DEF Spec
=============================================================================
