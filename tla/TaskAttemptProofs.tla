-------------------------- MODULE TaskAttemptProofs --------------------------
(***************************************************************************)
(* What the goroutines of TaskRuntime do to each other: the slots of the   *)
(* semaphore, the registered handles, and the attempts at a run.           *)
(*                                                                         *)
(* The slots are accounted for whatever happens.  That the attempts at a   *)
(* run come one after the other rests on the runtime lock: it is proved    *)
(* where one process at a time has it (OneRuntime), which is what the lock *)
(* gives as long as MySQL takes it from no process that is alive           *)
(* (LockKept), and a single server has in any case.                        *)
(***************************************************************************)
EXTENDS TaskRowsProofs, FiniteSetTheorems

-----------------------------------------------------------------------------
(* The inductive invariant                                                 *)

\* The modes in which a process has, or believes it has, the runtime lock.
Started == {"up", "halted", "stopping"}
HasRuntime(p) == mode[p] \in {"starting", "sweeping"} \cup Started
OneRuntime == \A p, q \in Proc : HasRuntime(p) /\ HasRuntime(q) => p = q

\* MySQL takes the lock from no process that goes on as it was.
LockKept ==
  \A p \in Proc : owner = p /\ HasRuntime(p) /\ mode'[p] = mode[p] => owner' = p

\* Nothing runs in a process that has not started or has drained.
Quiet ==
  \A p \in Proc : mode[p] \notin Started =>
    /\ disp[p].pc = "off"
    /\ \A s \in Slot : Host[s] = p => g[s].pc = "free"

\* A process reserves one slot at a time.
OneReserved ==
  \A s, t \in Slot :
    g[s].pc = "reserved" /\ g[t].pc = "reserved" /\ Host[s] = Host[t] => s = t

\* The goroutines that can still do something for their run.  One that reports
\* an error may, after a lost answer, report what succeeded, and a run that
\* was resumed meanwhile: it can only end the run.  One that was interrupted
\* can still make the run recoverable.
AtWork(s) ==
  \/ g[s].pc \in {"enter", "check", "handler", "suspending", "completing"}
  \/ g[s].pc = "failing" /\ g[s].arg = "interrupted"

OneAtWork == \A s, t \in Slot : AtWork(s) /\ AtWork(t) /\ g[s].run = g[t].run => s = t
WorkIsDue == \A s \in Slot : AtWork(s) => status[g[s].run] \in Executing \cup Terminal

Accounts == Quiet /\ SlotsAreAccountedFor /\ OneReserved
Attempting == OneAtWork /\ WorkIsDue /\ HandlesAreOwn

-----------------------------------------------------------------------------
(* What a step does to the goroutines                                      *)

Others(s) == \A t \in Slot \ {s} : g'[t] = g[t]
Stands(s) == g'[s].pc = g[s].pc /\ g'[s].run = g[s].run /\ g'[s].arg = g[s].arg
Goes(p, from, to) ==
  /\ disp[p].pc = from /\ disp'[p].pc = to /\ \A q \in Proc \ {p} : disp'[q] = disp[q]
  /\ mode' = mode

\* A slot is taken for the message in hand.
Reserves(p, s) ==
  /\ Host[s] = p /\ g[s].pc = "free" /\ g'[s].pc = "reserved" /\ Others(s)
  /\ Goes(p, "drain", "marking") /\ g'[s].run = disp'[p].msg[1]
  /\ mode[p] = "up" /\ exec' = exec
\* The goroutine begins, or its slot is given back.
Begins(p, s) ==
  /\ Host[s] = p /\ g[s].pc = "reserved" /\ g'[s].pc = "enter" /\ Others(s)
  /\ Goes(p, "marking", "ack") /\ exec' = exec /\ g'[s].run = g[s].run
  /\ mode[p] = "up"
  /\ status[g[s].run] = "pending" /\ status'[g[s].run] = "running"
Abandons(p, s) ==
  /\ Host[s] = p /\ g[s].pc = "reserved" /\ g'[s].pc = "free" /\ Others(s)
  /\ Goes(p, "marking", "retry") /\ exec' = exec
\* It registers its handle, goes on, or leaves.
Registers(s) ==
  /\ g[s].pc = "enter" /\ g'[s].pc = "check" /\ g'[s].run = g[s].run /\ Others(s)
  /\ exec' = [exec EXCEPT ![Host[s]][g[s].run] = s]
Passing ==
  {<<"check", "handler">>}
  \cup {"handler"} \X {"suspending", "completing", "failing"}
  \cup {"suspending"} \X {"tail", "failing"}
  \cup {"completing"} \X {"tail", "suspending", "failing"}
  \cup {<<"failing", "tail">>}
Advances(s) ==
  /\ <<g[s].pc, g'[s].pc>> \in Passing /\ g'[s].run = g[s].run /\ Others(s)
  /\ exec' = exec
Departs(s) ==
  /\ g[s].pc = "tail" /\ g'[s].pc = "free" /\ Others(s)
  /\ exec' = [exec EXCEPT ![Host[s]][g[s].run] = IF @ = s THEN None ELSE @]

OneSlot(s) == Registers(s) \/ Advances(s) \/ Departs(s)

LEMMA StepEdits ==
  ASSUME WorkTypeOK, NEW s \in Slot, NEW pc, Step(s, pc)
  PROVE  g'[s].pc = pc /\ g'[s].run = g[s].run /\ g'[s].arg = g[s].arg /\ Others(s)
<1>1. g[s] \in Goroutine /\ g'[s] = [g[s] EXCEPT !.pc = pc] /\ Others(s)
  BY DEF WorkTypeOK, Step, Others
<1> QED BY <1>1 DEF Goroutine

LEMMA StepToEdits ==
  ASSUME WorkTypeOK, NEW s \in Slot, NEW pc, NEW arg, StepTo(s, pc, arg)
  PROVE  g'[s].pc = pc /\ g'[s].run = g[s].run /\ g'[s].arg = arg /\ Others(s)
<1>1. g[s] \in Goroutine /\ g' = [g EXCEPT ![s] = [g[s] EXCEPT !.pc = pc, !.arg = arg]]
  BY DEF WorkTypeOK, StepTo
<1>2. g'[s] = [g[s] EXCEPT !.pc = pc, !.arg = arg] /\ Others(s)
  BY <1>1 DEF WorkTypeOK, Others
<1>3. \A q \in Goroutine : /\ [q EXCEPT !.pc = pc, !.arg = arg].pc = pc
                           /\ [q EXCEPT !.pc = pc, !.arg = arg].run = q.run
                           /\ [q EXCEPT !.pc = pc, !.arg = arg].arg = arg
  BY DEF Goroutine
<1> QED BY <1>1, <1>2, <1>3

LEMMA ExecutionSlots ==
  ASSUME TypeInv, NEW s \in Slot, Execution(s)
  PROVE  /\ OneSlot(s) \/ (UNCHANGED <<g, exec>>)
         /\ UNCHANGED <<disp, mode>>
<1>1. WorkTypeOK /\ g[s] \in Goroutine
  BY DEF TypeInv, TypeOK, WorkTypeOK
<1>2. UNCHANGED <<disp, mode>>
  BY DEF Execution, Register, CheckCancelled, Emit, SaveCheckpoint, HandlerEnds, Suspend,
         Complete, Fail, Exit, loop
<1>3. CASE Register(s)
  <2>1. /\ g[s].pc = "enter" /\ Step(s, "check")
        /\ exec' = [exec EXCEPT ![Host[s]][g[s].run] = s]
    BY <1>3 DEF Register, In
  <2>2. g'[s].pc = "check" /\ g'[s].run = g[s].run /\ Others(s)
    BY <1>1, <2>1, StepEdits
  <2>3. Registers(s)
    BY <2>1, <2>2 DEF Registers
  <2> QED BY <1>2, <2>3 DEF OneSlot
<1>4. CASE CheckCancelled(s)
  <2>1. \E b \in BOOLEAN : g' = [g EXCEPT ![s] = [g[s] EXCEPT !.pc = "handler", !.canceled = b]]
    BY <1>1, <1>4 DEF CheckCancelled, Goroutine
  <2>2. \A b \in BOOLEAN : [g[s] EXCEPT !.pc = "handler", !.canceled = b].pc = "handler"
                        /\ [g[s] EXCEPT !.pc = "handler", !.canceled = b].run = g[s].run
    BY <1>1 DEF Goroutine
  <2>3. g'[s].pc = "handler" /\ g'[s].run = g[s].run /\ Others(s)
    BY <1>1, <2>1, <2>2 DEF WorkTypeOK, Others
  <2> QED BY <1>2, <1>4, <2>3 DEF CheckCancelled, In, Advances, Passing, OneSlot
<1>5. CASE Emit(s) \/ SaveCheckpoint(s)
  BY <1>2, <1>5 DEF Emit, SaveCheckpoint, workers
<1>6. CASE HandlerEnds(s) \/ Suspend(s) \/ Complete(s) \/ Fail(s)
  <2>1. exec' = exec
    BY <1>6 DEF HandlerEnds, Suspend, Complete, Fail
  <2>2. \E to \in {"tail", "suspending", "completing", "failing"} :
          /\ <<g[s].pc, to>> \in Passing
          /\ Step(s, to) \/ \E arg : StepTo(s, to, arg)
    BY <1>6 DEF HandlerEnds, Suspend, Complete, Fail, In, Passing
  <2> QED BY <1>1, <1>2, <2>1, <2>2, StepEdits, StepToEdits DEF Advances, OneSlot
<1>7. CASE Exit(s)
  <2>1. g' = [g EXCEPT ![s] = Free] /\ Free.pc = "free"
    BY <1>7 DEF Exit, Free
  <2>2. g'[s].pc = "free" /\ Others(s)
    BY <1>1, <2>1 DEF WorkTypeOK, Others
  <2> QED BY <1>2, <1>7, <2>2 DEF Exit, In, Departs, OneSlot
<1> QED BY <1>2, <1>3, <1>4, <1>5, <1>6, <1>7 DEF Execution

LEMMA OutboxSlots ==
  ASSUME TypeInv, NEW p \in Proc, Outbox(p)
  PROVE  \/ \E s \in Slot : Reserves(p, s) \/ Begins(p, s) \/ Abandons(p, s)
         \/ /\ UNCHANGED <<g, exec>>
            /\ \A q \in Proc \ {p} : disp'[q] = disp[q] /\ mode'[q] = mode[q]
            /\ disp[p].pc \notin {"off", "marking"}
            /\ mode'[p] = mode[p] \/ (mode[p] = "up" /\ mode'[p] = "halted")
<1>1. WorkTypeOK /\ DispTypeOK /\ mode \in [Proc -> Mode]
  BY DEF TypeInv, TypeOK, WorkTypeOK, DispTypeOK
<1>2. \A pc : Goto(p, pc) => /\ disp'[p].pc = pc /\ disp'[p].msg = disp[p].msg
                             /\ \A q \in Proc \ {p} : disp'[q] = disp[q]
  <2> SUFFICES ASSUME NEW pc, Goto(p, pc)
               PROVE  /\ disp'[p].pc = pc /\ disp'[p].msg = disp[p].msg
                      /\ \A q \in Proc \ {p} : disp'[q] = disp[q]
    OBVIOUS
  <2>1. disp' = [disp EXCEPT ![p] = [disp[p] EXCEPT !.pc = pc]]
    BY DEF Goto
  <2> QED BY <1>1, <2>1 DEF DispTypeOK
<1>3. CASE Tick(p) \/ LoopExit(p) \/ Claim(p) \/ ClaimFails(p) \/ ClaimRefused(p)
  <2>1. UNCHANGED <<g, exec>> /\ disp[p].pc \in {"idle", "drain"}
    BY <1>3 DEF Tick, LoopExit, Claim, ClaimFails, ClaimRefused, At, workers
  <2>2. disp' = disp \/ \E pc : Goto(p, pc)
    BY <1>3 DEF Tick, LoopExit, Claim, ClaimFails, ClaimRefused
  <2>3. \/ mode' = mode
        \/ mode[p] = "up" /\ mode' = [mode EXCEPT ![p] = "halted"]
    BY <1>3 DEF Tick, LoopExit, Claim, ClaimFails, ClaimRefused
  <2>4. \A q \in Proc \ {p} : disp'[q] = disp[q]
    BY <1>2, <2>2
  <2>5. /\ \A q \in Proc \ {p} : mode'[q] = mode[q]
        /\ mode'[p] = mode[p] \/ (mode[p] = "up" /\ mode'[p] = "halted")
    BY <1>1, <2>3
  <2> QED BY <2>1, <2>4, <2>5
<1>4. CASE Ack(p) \/ Retry(p)
  <2>1. /\ disp[p].pc \in {"ack", "retry"} /\ \E v : disp' = [disp EXCEPT ![p] = v]
        /\ UNCHANGED <<g, exec, mode>>
    BY <1>4 DEF Ack, Retry, Settle, At, workers
  <2> QED BY <1>1, <2>1 DEF DispTypeOK
<1>5. CASE Dispatch(p)
  <2>1. PICK m : \/ /\ \E s \in FreeSlots(p) :
                         g' = [g EXCEPT ![s] = [Free EXCEPT !.pc = "reserved", !.run = m[1]]]
                    /\ mode[p] = "up"
                    /\ disp' = [disp EXCEPT ![p] = [pc |-> "marking", msg |-> m]]
                 \/ /\ UNCHANGED g
                    /\ \E pc \in {"ack", "retry"} : disp' = [disp EXCEPT ![p] = [pc |-> pc, msg |-> m]]
    BY <1>5 DEF Dispatch
  <2>2. disp[p].pc = "drain" /\ mode' = mode /\ exec' = exec
    BY <1>5 DEF Dispatch, At
  <2>3. CASE UNCHANGED g /\ \E pc \in {"ack", "retry"} : disp' = [disp EXCEPT ![p] = [pc |-> pc, msg |-> m]]
    <3>1. \E v : disp' = [disp EXCEPT ![p] = v]
      BY <2>3
    <3> QED BY <1>1, <2>2, <2>3, <3>1 DEF DispTypeOK
  <2>4. ASSUME NEW s \in FreeSlots(p), mode[p] = "up",
               g' = [g EXCEPT ![s] = [Free EXCEPT !.pc = "reserved", !.run = m[1]]],
               disp' = [disp EXCEPT ![p] = [pc |-> "marking", msg |-> m]]
        PROVE  Reserves(p, s) /\ s \in Slot
    <3>1. s \in Slot /\ Host[s] = p /\ g[s].pc = "free"
      BY DEF FreeSlots
    <3>2. g'[s] = [Free EXCEPT !.pc = "reserved", !.run = m[1]] /\ Others(s)
      BY <1>1, <2>4, <3>1 DEF WorkTypeOK, Others
    <3>3. g'[s].pc = "reserved" /\ g'[s].run = m[1]
      BY <3>2 DEF Free
    <3>4. disp'[p].pc = "marking" /\ disp'[p].msg = m /\ \A q \in Proc \ {p} : disp'[q] = disp[q]
      BY <1>1, <2>4 DEF DispTypeOK
    <3> QED BY <2>2, <2>4, <3>1, <3>2, <3>3, <3>4 DEF Reserves, Goes
  <2> QED BY <2>1, <2>3, <2>4
<1>6. ASSUME NEW s \in Slot, MarkRunning(p, s)
      PROVE  Begins(p, s) \/ Abandons(p, s)
  <2>1. /\ disp[p].pc = "marking" /\ Host[s] = p /\ g[s].pc = "reserved" /\ UNCHANGED <<mode, exec>>
        /\ \/ /\ status[g[s].run] = "pending" /\ mode[p] = "up" /\ MoveTo(g[s].run, "running")
              /\ Step(s, "enter") /\ Goto(p, "ack")
           \/ g' = [g EXCEPT ![s] = Free] /\ Goto(p, "retry")
    BY <1>6 DEF MarkRunning, At, Step
  <2>2. CASE g' = [g EXCEPT ![s] = Free] /\ Goto(p, "retry")
    <3>1. g'[s].pc = "free" /\ Others(s)
      BY <1>1, <2>2 DEF WorkTypeOK, Others, Free
    <3> QED BY <1>2, <2>1, <2>2, <3>1 DEF Abandons, Goes
  <2>3. CASE /\ status[g[s].run] = "pending" /\ mode[p] = "up" /\ MoveTo(g[s].run, "running")
             /\ Step(s, "enter") /\ Goto(p, "ack")
    <3>1. g'[s].pc = "enter" /\ g'[s].run = g[s].run /\ Others(s)
      BY <1>1, <2>3, StepEdits
    <3>2. status'[g[s].run] = "running"
      <4>1. g[s].run \in Run /\ status \in [Run -> Status]
        BY <2>1 DEF TypeInv, TypeOK, HasRun
      <4> QED BY <2>3, <4>1 DEF MoveTo, Become
    <3> QED BY <1>2, <2>1, <2>3, <3>1, <3>2 DEF Begins, Goes
  <2> QED BY <2>1, <2>2, <2>3
<1> QED BY <1>3, <1>4, <1>5, <1>6 DEF Outbox

LEMMA VolatileSlots ==
  ASSUME TypeInv, NEW p \in Proc, Volatile(p)
  PROVE  /\ mode'[p] = "down" /\ disp'[p].pc = "off"
         /\ \A q \in Proc \ {p} : mode'[q] = mode[q] /\ disp'[q] = disp[q]
         /\ \A s \in Slot : IF Host[s] = p THEN g'[s].pc = "free" ELSE g'[s] = g[s]
         /\ exec' = [exec EXCEPT ![p] = [r \in Run |-> None]]
         /\ UNCHANGED rows
<1>1. mode \in [Proc -> Mode] /\ DispTypeOK /\ WorkTypeOK
  BY DEF TypeInv, TypeOK, DispTypeOK, WorkTypeOK
<1>2. Free.pc = "free" /\ Idle.pc = "off"
  BY DEF Free, Idle
<1>3. mode'[p] = "down" /\ \A q \in Proc \ {p} : mode'[q] = mode[q]
  BY <1>1 DEF Volatile, SetMode
<1>4. disp'[p].pc = "off" /\ \A q \in Proc \ {p} : disp'[q] = disp[q]
  <2>1. disp' = [disp EXCEPT ![p] = Idle]
    BY DEF Volatile
  <2> QED BY <1>1, <1>2, <2>1 DEF DispTypeOK
<1>5. \A s \in Slot : IF Host[s] = p THEN g'[s].pc = "free" ELSE g'[s] = g[s]
  BY <1>2 DEF Volatile
<1> QED BY <1>3, <1>4, <1>5 DEF Volatile

\* The life of a process, but for its deaths.
LEMMA ProcessSlots ==
  ASSUME TypeInv, NEW p \in Proc, Process(p)
  PROVE  \/ Volatile(p)
         \/ /\ UNCHANGED <<g, exec>>
            /\ \A q \in Proc \ {p} : mode'[q] = mode[q] /\ disp'[q] = disp[q]
            /\ \/ mode'[p] = mode[p] /\ disp'[p] = disp[p]
               \/ /\ <<mode[p], mode'[p]>> \in
                       {<<"down", "starting">>, <<"starting", "sweeping">>,
                        <<"up", "stopping">>, <<"halted", "stopping">>}
                  /\ disp'[p] = disp[p]
               \/ InterruptStale(p) /\ mode[p] = "sweeping" /\ mode'[p] = "up"
               \/ /\ mode[p] = "stopping" /\ mode'[p] = "drained"
                  /\ disp[p].pc = "off" /\ disp'[p] = disp[p]
                  /\ \A s \in Slot : Host[s] = p => g[s].pc = "free"
<1>1. mode \in [Proc -> Mode] /\ DispTypeOK
  BY DEF TypeInv, TypeOK, DispTypeOK
<1>2. CASE StartFails(p) \/ ProcessExit(p) \/ Crash(p)
  BY <1>2 DEF StartFails, ProcessExit, Crash
<1>3. CASE InterruptStale(p)
  <2>1. \E v : disp' = [disp EXCEPT ![p] = v]
    BY <1>3 DEF InterruptStale
  <2>2. mode' = [mode EXCEPT ![p] = "up"] /\ mode[p] = "sweeping" /\ UNCHANGED <<g, exec>>
    BY <1>3 DEF InterruptStale, SetMode, workers
  <2> QED BY <1>1, <1>3, <2>1, <2>2 DEF DispTypeOK
<1>4. CASE AcquireRuntime(p) \/ ReadStale(p) \/ Shutdown(p) \/ LockFreed(p)
  BY <1>1, <1>4 DEF AcquireRuntime, ReadStale, Shutdown, LockFreed, SetMode, loop, workers
<1>5. CASE Drained(p)
  BY <1>1, <1>5 DEF Drained, SetMode, At, In, loop, workers
<1> QED BY <1>2, <1>3, <1>4, <1>5 DEF Process

LEMMA CancelSlots ==
  ASSUME TypeInv, NEW p \in Proc, NEW r \in Run, CancelHandle(p, r)
  PROVE  /\ \A s \in Slot : Stands(s)
         /\ UNCHANGED <<exec, disp, mode, rows>>
<1>1. \A s \in Slot : g[s] \in Goroutine
  BY DEF TypeInv, TypeOK
<1>2. \A q \in Goroutine : /\ [q EXCEPT !.canceled = TRUE].pc = q.pc
                           /\ [q EXCEPT !.canceled = TRUE].run = q.run
                           /\ [q EXCEPT !.canceled = TRUE].arg = q.arg
  BY DEF Goroutine
<1> QED BY <1>1, <1>2 DEF CancelHandle, Stands, loop

LEMMA StepCases ==
  ASSUME [Next]_vars
  PROVE  \/ UNCHANGED vars
         \/ \E p \in Proc : Users(p) \/ Outbox(p) \/ Process(p)
         \/ \E p \in Proc : \E r \in Run : CancelHandle(p, r)
         \/ \E s \in Slot : Execution(s)
BY DEF Next

LEMMA UsersSlots ==
  ASSUME UNCHANGED vars \/ \E p \in Proc : Users(p)
  PROVE  UNCHANGED <<g, exec, disp, mode>>
BY DEF vars, Users, CreateRun, Pause, Cancel, Approve, Resume, TakeUpAgain, workers, loop

-----------------------------------------------------------------------------
(* The slots                                                               *)

LEMMA AccountsInit == Init => Accounts
BY DEF Init, Accounts, Quiet, Started, SlotsAreAccountedFor, OneReserved, Idle, Free

\* Steps that change no slot's state, and how the rest of a process may change.
LEMMA AccountsStand ==
  ASSUME Accounts, \A s \in Slot : g'[s].pc = g[s].pc /\ g'[s].run = g[s].run,
         \A p \in Proc : \/ disp'[p] = disp[p]
                         \/ disp[p].pc # "marking" /\ mode'[p] \in Started,
         \A p \in Proc : \/ mode'[p] = mode[p] \/ mode'[p] \in Started
                         \/ mode[p] \notin Started
                         \/ /\ disp[p].pc = "off"
                            /\ \A s \in Slot : Host[s] = p => g[s].pc = "free"
  PROVE  Accounts'
<1>1. \A s \in Slot : Host[s] \in Proc
  BY TaskConstants DEF TaskConstants
<1>2. Quiet'
  BY DEF Accounts, Quiet, Started
<1>3. SlotsAreAccountedFor' /\ OneReserved'
  BY <1>1 DEF Accounts, SlotsAreAccountedFor, OneReserved
<1> QED BY <1>2, <1>3 DEF Accounts

\* Steps of one slot.
LEMMA AccountsMove ==
  ASSUME Accounts, NEW p \in Proc, NEW s \in Slot, Host[s] = p, Others(s),
         mode' = mode, mode[p] \in Started,
         \A q \in Proc \ {p} : disp'[q] = disp[q],
         \/ /\ disp'[p] = disp[p] /\ g[s].pc # "reserved" /\ g'[s].pc # "reserved"
         \/ /\ g[s].pc = "reserved" /\ g'[s].pc # "reserved"
         \/ /\ disp[p].pc # "marking" /\ disp'[p].pc = "marking"
            /\ g'[s].pc = "reserved" /\ g'[s].run = disp'[p].msg[1]
  PROVE  Accounts'
<1>1. \A t \in Slot : Host[t] \in Proc
  BY TaskConstants DEF TaskConstants
<1>2. Quiet'
  BY DEF Accounts, Quiet, Started, Others
<1>3. ASSUME NEW t \in Slot, g'[t].pc = "reserved", t # s
      PROVE  /\ g[t].pc = "reserved" /\ g'[t].run = g[t].run
             /\ disp'[Host[t]] = disp[Host[t]]
             /\ g'[s].pc = "reserved" => Host[t] # p
  <2>1. g[t].pc = "reserved" /\ g'[t].run = g[t].run
    BY <1>3 DEF Others
  <2>2. disp[Host[t]].pc = "marking"
    BY <2>1 DEF Accounts, SlotsAreAccountedFor
  <2>3. g[s].pc = "reserved" => Host[t] # p
    BY <1>3, <2>1 DEF Accounts, OneReserved
  <2> QED BY <1>1, <2>1, <2>2, <2>3
<1>4. SlotsAreAccountedFor' /\ OneReserved'
  BY <1>3 DEF Accounts, SlotsAreAccountedFor, OneReserved, Others
<1> QED BY <1>2, <1>4 DEF Accounts

LEMMA AccountsStep ==
  ASSUME TypeInv, Accounts, [Next]_vars
  PROVE  Accounts'
<1>1. \A s \in Slot : Host[s] \in Proc
  BY TaskConstants DEF TaskConstants
<1>2. CASE UNCHANGED vars \/ \E p \in Proc : Users(p)
  BY <1>2, UsersSlots, AccountsStand
<1>3. CASE \E p \in Proc, r \in Run : CancelHandle(p, r)
  BY <1>3, CancelSlots, AccountsStand DEF Stands
<1>4. ASSUME NEW s \in Slot, Execution(s)
      PROVE  Accounts'
  <2>1. UNCHANGED <<disp, mode>>
    BY <1>4, ExecutionSlots
  <2>2. CASE UNCHANGED <<g, exec>>
    BY <2>1, <2>2, AccountsStand
  <2>3. CASE OneSlot(s)
    <3>1. g[s].pc \notin {"free", "reserved"} /\ g'[s].pc # "reserved" /\ Others(s)
      BY <2>3 DEF OneSlot, Registers, Advances, Departs, Passing
    <3>2. mode[Host[s]] \in Started
      BY <1>1, <3>1 DEF Accounts, Quiet, Started
    <3> QED BY <1>1, <2>1, <3>1, <3>2, AccountsMove
  <2> QED BY <1>4, <2>2, <2>3, ExecutionSlots
<1>5. ASSUME NEW p \in Proc, Outbox(p)
      PROVE  Accounts'
  <2>1. ASSUME NEW s \in Slot, Reserves(p, s) \/ Begins(p, s) \/ Abandons(p, s)
        PROVE  Accounts'
    <3>1. Host[s] = p /\ Others(s) /\ mode' = mode /\ disp[p].pc # "off"
          /\ \A q \in Proc \ {p} : disp'[q] = disp[q]
      BY <2>1 DEF Reserves, Begins, Abandons, Goes
    <3>2. mode[p] \in Started
      BY <3>1 DEF Accounts, Quiet, Started
    <3>3. CASE Reserves(p, s)
      BY <3>1, <3>2, <3>3, AccountsMove DEF Reserves, Goes
    <3>4. CASE Begins(p, s) \/ Abandons(p, s)
      BY <3>1, <3>2, <3>4, AccountsMove DEF Begins, Abandons
    <3> QED BY <2>1, <3>3, <3>4
  <2>2. CASE /\ UNCHANGED <<g, exec>>
             /\ \A q \in Proc \ {p} : disp'[q] = disp[q] /\ mode'[q] = mode[q]
             /\ disp[p].pc \notin {"off", "marking"}
             /\ mode'[p] = mode[p] \/ (mode[p] = "up" /\ mode'[p] = "halted")
    <3>1. mode'[p] \in Started
      BY <2>2 DEF Accounts, Quiet, Started
    <3> QED BY <2>2, <3>1, AccountsStand
  <2> QED BY <1>5, <2>1, <2>2, OutboxSlots
<1>6. ASSUME NEW p \in Proc, Process(p)
      PROVE  Accounts'
  <2>1. CASE Volatile(p)
    <3>1. /\ mode'[p] = "down" /\ disp'[p].pc = "off"
          /\ \A q \in Proc \ {p} : mode'[q] = mode[q] /\ disp'[q] = disp[q]
          /\ \A s \in Slot : IF Host[s] = p THEN g'[s].pc = "free" ELSE g'[s] = g[s]
      BY <2>1, VolatileSlots
    <3>2. Quiet'
      BY <3>1 DEF Accounts, Quiet, Started
    <3>3. SlotsAreAccountedFor' /\ OneReserved'
      BY <1>1, <3>1 DEF Accounts, SlotsAreAccountedFor, OneReserved
    <3> QED BY <3>2, <3>3 DEF Accounts
  <2>2. CASE ~Volatile(p)
    <3>1. disp'[p] = disp[p] \/ (disp[p].pc # "marking" /\ mode'[p] \in Started)
      BY <1>6, <2>2, ProcessSlots DEF Accounts, Quiet, Started
    <3> QED BY <1>6, <2>2, <3>1, ProcessSlots, AccountsStand DEF Started
  <2> QED BY <2>1, <2>2
<1> QED BY <1>2, <1>3, <1>4, <1>5, <1>6, StepCases

\* A slot of the semaphore is reserved only while the loop of its process marks
\* the run of the message in hand as running: whatever fails, is shut down or
\* dies, no slot is lost.
THEOREM SlotsAccounted == Spec => []SlotsAreAccountedFor
<1>1. TypeInv /\ Accounts /\ [Next]_vars => (TypeInv /\ Accounts)'
  BY TypeStep, AccountsStep
<1>2. Accounts => SlotsAreAccountedFor
  BY DEF Accounts
<1> QED BY <1>1, <1>2, TypeInit, AccountsInit, PTL DEF Spec

-----------------------------------------------------------------------------
(* The handles                                                             *)

Own(p, r, s) ==
  Host[s] = p /\ g[s].run = r /\ g[s].pc \notin {"free", "reserved", "enter"}

LEMMA HandlesInit == Init => HandlesAreOwn
BY DEF Init, HandlesAreOwn, Free

\* A handle is registered by a slot that has none, and there is no other
\* attempt whose handle it could replace.
LEMMA HandlesStep ==
  ASSUME TypeInv, HandlesAreOwn, OneAtWork, [Next]_vars
  PROVE  HandlesAreOwn'
<1>1. /\ \A s \in Slot : Host[s] \in Proc
      /\ \A s \in Slot : g[s].pc # "free" => g[s].run \in Run
      /\ exec \in [Proc -> [Run -> Slot \cup {None}]] /\ None \notin Slot
  BY TaskConstants DEF TaskConstants, TypeInv, TypeOK, HasRun
<1>2. /\ \A p \in Proc, r \in Run : exec[p][r] # None => exec[p][r] \in Slot /\ Own(p, r, exec[p][r])
      /\ \A s \in Slot : g[s].pc \in {"check", "handler"} => exec[Host[s]][g[s].run] = s
  BY <1>1 DEF HandlesAreOwn, Own
<1>3. CASE exec' = exec /\ \A s \in Slot : Stands(s)
  BY <1>1, <1>2, <1>3 DEF HandlesAreOwn, Own, Stands
<1>4. ASSUME exec' = exec, NEW s \in Slot, Others(s), g'[s].run = g[s].run \/ g[s].pc = "free",
             \/ g[s].pc \in {"free", "reserved"} /\ g'[s].pc \in {"free", "reserved", "enter"}
             \/ Advances(s)
      PROVE  HandlesAreOwn'
  <2>1. \A p \in Proc, r \in Run : exec[p][r] # None => Own(p, r, exec[p][r])'
    <3> SUFFICES ASSUME NEW p \in Proc, NEW r \in Run, exec[p][r] # None
                 PROVE  Own(p, r, exec[p][r])'
      OBVIOUS
    <3>1. CASE exec[p][r] = s
      BY <1>2, <1>4, <3>1 DEF Own, Advances, Passing
    <3>2. CASE exec[p][r] # s
      BY <1>2, <1>4, <3>2 DEF Own, Others
    <3> QED BY <3>1, <3>2
  <2>2. \A t \in Slot : g'[t].pc \in {"check", "handler"} => exec[Host[t]][g'[t].run] = t
    BY <1>2, <1>4 DEF Advances, Passing, Others
  <2> QED BY <1>4, <2>1, <2>2 DEF HandlesAreOwn, Own
<1>5. ASSUME NEW s \in Slot, Registers(s)
      PROVE  HandlesAreOwn'
  <2>1. /\ g[s].pc = "enter" /\ g[s].run \in Run /\ Host[s] \in Proc
        /\ g'[s].pc = "check" /\ g'[s].run = g[s].run
        /\ \A t \in Slot : t # s => g'[t] = g[t]
    BY <1>1, <1>5 DEF Registers, Others
  <2>2. \A p \in Proc, r \in Run :
          exec'[p][r] = IF p = Host[s] /\ r = g[s].run THEN s ELSE exec[p][r]
    BY <1>1, <1>5, <2>1 DEF Registers
  <2>3. \A p \in Proc, r \in Run : exec[p][r] # s
    BY <1>1, <1>2, <2>1 DEF Own
  <2>4. ASSUME NEW p \in Proc, NEW r \in Run, exec'[p][r] # None
        PROVE  /\ Host[exec'[p][r]] = p /\ g'[exec'[p][r]].run = r
               /\ g'[exec'[p][r]].pc \notin {"free", "reserved", "enter"}
    <3>1. CASE p = Host[s] /\ r = g[s].run
      BY <2>1, <2>2, <3>1
    <3>2. CASE ~(p = Host[s] /\ r = g[s].run)
      BY <1>2, <2>1, <2>2, <2>3, <2>4, <3>2 DEF Own
    <3> QED BY <3>1, <3>2
  <2>5. ASSUME NEW t \in Slot, g'[t].pc \in {"check", "handler"}, t # s
        PROVE  exec'[Host[t]][g'[t].run] = t
    <3>1. g'[t] = g[t] /\ exec[Host[t]][g[t].run] = t /\ Host[t] \in Proc /\ g[t].run \in Run
      BY <1>1, <1>2, <2>1, <2>5
    <3>2. g[t].run # g[s].run
      BY <2>1, <2>5, <3>1 DEF OneAtWork, AtWork
    <3> QED BY <2>2, <3>1, <3>2
  <2>6. exec'[Host[s]][g'[s].run] = s
    BY <2>1, <2>2
  <2> QED BY <2>4, <2>5, <2>6 DEF HandlesAreOwn
<1>6. ASSUME NEW s \in Slot, Departs(s)
      PROVE  HandlesAreOwn'
  <2>1. /\ g[s].run \in Run /\ Host[s] \in Proc
        /\ g'[s].pc = "free" /\ \A t \in Slot : t # s => g'[t] = g[t]
    BY <1>1, <1>6 DEF Departs, Others
  <2>2. \A p \in Proc, r \in Run :
          exec'[p][r] = IF p = Host[s] /\ r = g[s].run /\ exec[p][r] = s THEN None ELSE exec[p][r]
    BY <1>1, <1>6, <2>1 DEF Departs
  <2>3. ASSUME NEW p \in Proc, NEW r \in Run, exec'[p][r] # None
        PROVE  /\ Host[exec'[p][r]] = p /\ g'[exec'[p][r]].run = r
               /\ g'[exec'[p][r]].pc \notin {"free", "reserved", "enter"}
    <3>1. exec'[p][r] = exec[p][r] /\ exec[p][r] \in Slot /\ Own(p, r, exec[p][r])
      BY <1>2, <2>2, <2>3
    <3>2. exec[p][r] # s
      BY <2>2, <2>3, <3>1 DEF Own
    <3> QED BY <2>1, <3>1, <3>2 DEF Own
  <2>4. ASSUME NEW t \in Slot, g'[t].pc \in {"check", "handler"}
        PROVE  exec'[Host[t]][g'[t].run] = t
    <3>1. t # s /\ g'[t] = g[t]
      BY <2>1, <2>4
    <3>2. exec[Host[t]][g[t].run] = t /\ Host[t] \in Proc /\ g[t].run \in Run
      BY <1>1, <1>2, <2>4, <3>1
    <3> QED BY <2>2, <3>1, <3>2
  <2> QED BY <2>3, <2>4 DEF HandlesAreOwn
<1>7. ASSUME NEW p \in Proc, Volatile(p)
      PROVE  HandlesAreOwn'
  <2>1. \A s \in Slot : IF Host[s] = p THEN g'[s].pc = "free" ELSE g'[s] = g[s]
    BY <1>7, VolatileSlots
  <2>2. \A q \in Proc, r \in Run : exec'[q][r] = IF q = p THEN None ELSE exec[q][r]
    BY <1>1, <1>7, VolatileSlots
  <2>3. ASSUME NEW q \in Proc, NEW r \in Run, exec'[q][r] # None
        PROVE  /\ Host[exec'[q][r]] = q /\ g'[exec'[q][r]].run = r
               /\ g'[exec'[q][r]].pc \notin {"free", "reserved", "enter"}
    BY <1>2, <2>1, <2>2, <2>3 DEF Own
  <2>4. ASSUME NEW t \in Slot, g'[t].pc \in {"check", "handler"}
        PROVE  exec'[Host[t]][g'[t].run] = t
    <3>1. Host[t] # p /\ g'[t] = g[t]
      BY <2>1, <2>4
    <3>2. exec[Host[t]][g[t].run] = t /\ Host[t] \in Proc /\ g[t].run \in Run
      BY <1>1, <1>2, <2>4, <3>1
    <3> QED BY <2>2, <3>1, <3>2
  <2> QED BY <2>3, <2>4 DEF HandlesAreOwn
<1>8. CASE UNCHANGED vars \/ \E p \in Proc : Users(p)
  BY <1>3, <1>8, UsersSlots DEF Stands
<1>9. CASE \E p \in Proc, r \in Run : CancelHandle(p, r)
  BY <1>3, <1>9, CancelSlots
<1>10. ASSUME NEW s \in Slot, Execution(s)
       PROVE  HandlesAreOwn'
  <2>1. CASE UNCHANGED <<g, exec>>
    BY <1>3, <2>1 DEF Stands
  <2>2. CASE Advances(s)
    BY <1>4, <2>2 DEF Advances
  <2> QED BY <1>5, <1>6, <1>10, <2>1, <2>2, ExecutionSlots DEF OneSlot
<1>11. ASSUME NEW p \in Proc, Outbox(p)
       PROVE  HandlesAreOwn'
  <2>1. CASE UNCHANGED <<g, exec>>
    BY <1>3, <2>1 DEF Stands
  <2>2. ASSUME NEW s \in Slot, Reserves(p, s) \/ Begins(p, s)
        PROVE  HandlesAreOwn'
    BY <1>4, <2>2 DEF Reserves, Begins
  <2>3. ASSUME NEW s \in Slot, Abandons(p, s)
        PROVE  HandlesAreOwn'
    <3>1. \A q \in Proc, r \in Run : exec[q][r] # s
      BY <1>1, <1>2, <2>3 DEF Abandons, Own
    <3>2. \A t \in Slot : t # s => g'[t] = g[t]
      BY <2>3 DEF Abandons, Others
    <3> QED BY <1>2, <2>3, <3>1, <3>2 DEF Abandons, HandlesAreOwn, Own
  <2> QED BY <1>11, <2>1, <2>2, <2>3, OutboxSlots
<1>12. ASSUME NEW p \in Proc, Process(p), ~Volatile(p)
       PROVE  HandlesAreOwn'
  BY <1>3, <1>12, ProcessSlots DEF Stands
<1> QED BY <1>7, <1>8, <1>9, <1>10, <1>11, <1>12, StepCases

-----------------------------------------------------------------------------
(* The attempts                                                            *)

Due(r) == status[r] \in Executing \cup Terminal

\* Only a goroutine at work takes its run out of execution without ending it,
\* and it is the last it does.
LEMMA ExecutionDue ==
  ASSUME TypeInv, NEW s \in Slot, Execution(s), NEW r \in Run, Due(r)
  PROVE  Due(r)' \/ (r = g[s].run /\ AtWork(s) /\ ~AtWork(s)')
<1>1. WorkTypeOK /\ status \in [Run -> Status] /\ (g[s].pc # "free" => g[s].run \in Run)
  BY DEF TypeInv, TypeOK, WorkTypeOK, HasRun
<1>2. CASE status' = status
  BY <1>2 DEF Due
<1>3. ASSUME NEW t \in Executing \cup Terminal, NEW q \in Run, Become(q, t)
      PROVE  Due(r)'
  BY <1>1, <1>3 DEF Due, Become
<1>4. ASSUME NEW t, NEW q \in Run, Become(q, t), q # r
      PROVE  Due(r)'
  BY <1>1, <1>4 DEF Due, Become
<1>6. CASE Suspend(s)
  <2>1. CASE UNCHANGED rows
    BY <1>2, <2>1 DEF rows
  <2>2. CASE /\ Become(g[s].run, g[s].arg)
             /\ StepTo(s, "tail", "none") \/ (StepTo(s, "failing", "failed") /\ Fault)
    <3>1. ~AtWork(s)'
      BY <1>1, <2>2, StepToEdits DEF AtWork
    <3>2. AtWork(s) /\ g[s].run \in Run
      BY <1>1, <1>6 DEF Suspend, In, AtWork
    <3> QED BY <1>4, <2>2, <3>1, <3>2
  <2> QED BY <1>6, <2>1, <2>2 DEF Suspend, MoveTo
<1>7. CASE Complete(s)
  <2>1. g[s].run \in Run
    BY <1>1, <1>7 DEF Complete, In
  <2>2. UNCHANGED rows \/ Finish(g[s].run, "completed", 3)
    BY <1>7 DEF Complete
  <2> QED BY <1>2, <1>3, <2>1, <2>2 DEF rows, Finish, Terminal
<1>8. CASE Fail(s)
  <2>1. g[s].run \in Run /\ g[s].pc = "failing" /\ StepTo(s, "tail", "none")
    BY <1>1, <1>8 DEF Fail, In
  <2>2. \/ UNCHANGED rows
        \/ \E t \in Terminal, k \in {2, 3} : Finish(g[s].run, t, k)
        \/ g[s].arg = "interrupted" /\ MoveTo(g[s].run, "recoverable")
    BY <1>8 DEF Fail, FailRow, Terminal
  <2>3. CASE g[s].arg = "interrupted" /\ MoveTo(g[s].run, "recoverable")
    <3>1. AtWork(s)
      BY <2>1, <2>3 DEF AtWork
    <3>2. ~AtWork(s)'
      BY <1>1, <2>1, StepToEdits DEF AtWork
    <3> QED BY <1>4, <2>1, <2>3, <3>1, <3>2 DEF MoveTo
  <2> QED BY <1>2, <1>3, <2>1, <2>2, <2>3 DEF rows, Finish
<1>9. CASE ~(Suspend(s) \/ Complete(s) \/ Fail(s))
  BY <1>2, <1>9 DEF Execution, Register, CheckCancelled, Emit, SaveCheckpoint, HandlerEnds, Exit, rows
<1> QED BY <1>6, <1>7, <1>8, <1>9

LEMMA UsersDue ==
  ASSUME TypeInv, NEW p \in Proc, Users(p), NEW r \in Run, Due(r)
  PROVE  Due(r)'
<1>1. status \in [Run -> Status]
  BY DEF TypeInv, TypeOK
<1>2. ASSUME NEW q \in Run, NEW t, Become(q, t), t \in Executing \cup Terminal \/ ~Due(q)
      PROVE  Due(r)'
  BY <1>1, <1>2 DEF Due, Become
<1>3. ASSUME NEW q \in Run, CreateRun(p, q) \/ Approve(p, q) \/ Resume(p, q)
      PROVE  Due(r)'
  <2>1. status[q] \in {"absent"} \cup Parked /\ Become(q, "pending")
    BY <1>3 DEF CreateRun, Approve, Resume, TakeUpAgain, Parked
  <2> QED BY <1>2, <2>1 DEF Due, Executing, Terminal, Parked
<1>4. ASSUME NEW q \in Run, Pause(p, q)
      PROVE  Due(r)'
  BY <1>2, <1>4 DEF Pause, MoveTo, Executing
<1>5. ASSUME NEW q \in Run, Cancel(p, q)
      PROVE  Due(r)'
  <2>1. status' = status \/ \E t \in {"cancelling", "canceled"} : Become(q, t)
    BY <1>5 DEF Cancel, CancelRow, MoveTo, Finish, rows
  <2> QED BY <1>2, <2>1 DEF Due, Executing, Terminal
<1> QED BY <1>3, <1>4, <1>5 DEF Users

LEMMA OutboxDue ==
  ASSUME TypeInv, NEW p \in Proc, Outbox(p), NEW r \in Run
  PROVE  Due(r) => Due(r)'
<1>1. status \in [Run -> Status]
  BY DEF TypeInv, TypeOK
<1>2. status' = status \/ \E q \in Run : Become(q, "running")
  <2>1. ASSUME NEW s \in Slot, MarkRunning(p, s)
        PROVE  UNCHANGED rows \/ (g[s].run \in Run /\ Become(g[s].run, "running"))
    BY <2>1 DEF MarkRunning, MoveTo, TypeInv, HasRun
  <2>2. UNCHANGED rows \/ \E s \in Slot : MarkRunning(p, s)
    BY DEF Outbox, Tick, LoopExit, Claim, ClaimFails, ClaimRefused, Dispatch, Ack, Retry, Settle
  <2> QED BY <2>1, <2>2 DEF rows
<1> QED BY <1>1, <1>2 DEF Due, Become, Executing

\* Nobody is left at work when nobody begins.
LEMMA AttemptsKeep ==
  ASSUME OneAtWork, WorkIsDue,
         \A s \in Slot : AtWork(s)' => /\ AtWork(s) /\ g'[s].run = g[s].run
                                       /\ Due(g[s].run) => status'[g[s].run] \in Executing \cup Terminal
  PROVE  OneAtWork' /\ WorkIsDue'
<1>1. OneAtWork'
  BY DEF OneAtWork
<1>2. WorkIsDue'
  BY DEF WorkIsDue, Due
<1> QED BY <1>1, <1>2

LEMMA AttemptsStep ==
  ASSUME TypeInv, Accounts, OneRuntime, OneAtWork, WorkIsDue, [Next]_vars
  PROVE  OneAtWork' /\ WorkIsDue'
<1>1. /\ \A s \in Slot : Host[s] \in Proc
      /\ \A s \in Slot : AtWork(s) => g[s].pc # "free" /\ g[s].run \in Run
  BY TaskConstants DEF TaskConstants, TypeInv, HasRun, AtWork
<1>2. \A s \in Slot : Stands(s) => (AtWork(s)' => AtWork(s) /\ g'[s].run = g[s].run)
  BY DEF Stands, AtWork
<1>3. CASE UNCHANGED vars
  BY <1>3, <1>2, AttemptsKeep DEF Stands, Due, vars, workers, rows
<1>4. ASSUME NEW p \in Proc, Users(p)
      PROVE  OneAtWork' /\ WorkIsDue'
  <2>1. \A s \in Slot : AtWork(s)' => AtWork(s) /\ g'[s].run = g[s].run
    BY <1>2, <1>4, UsersSlots DEF Stands
  <2>2. \A r \in Run : Due(r) => Due(r)'
    BY <1>4, UsersDue
  <2> QED BY <1>1, <2>1, <2>2, AttemptsKeep DEF Due
<1>5. ASSUME NEW p \in Proc, NEW r \in Run, CancelHandle(p, r)
      PROVE  OneAtWork' /\ WorkIsDue'
  BY <1>2, <1>5, CancelSlots, AttemptsKeep DEF Due, rows
<1>6. ASSUME NEW s \in Slot, Execution(s)
      PROVE  OneAtWork' /\ WorkIsDue'
  <2>1. ASSUME NEW t \in Slot, AtWork(t)'
        PROVE  AtWork(t) /\ g'[t].run = g[t].run
    <3>1. CASE UNCHANGED <<g, exec>>
      BY <1>2, <2>1, <3>1 DEF Stands
    <3>2. CASE OneSlot(s) /\ t # s
      BY <2>1, <3>2 DEF OneSlot, Registers, Advances, Departs, Others, AtWork
    <3>3. CASE OneSlot(s) /\ t = s
      BY <2>1, <3>3 DEF OneSlot, Registers, Advances, Departs, Passing, AtWork
    <3> QED BY <1>6, <3>1, <3>2, <3>3, ExecutionSlots
  <2>2. ASSUME NEW t \in Slot, AtWork(t)', Due(g[t].run)
        PROVE  status'[g[t].run] \in Executing \cup Terminal
    <3>1. AtWork(t) /\ g[t].run \in Run
      BY <1>1, <2>1, <2>2
    <3>2. PICK r \in Run : r = g[t].run
      BY <3>1
    <3>3. Due(r)' \/ (r = g[s].run /\ AtWork(s) /\ ~AtWork(s)')
      BY <1>6, <2>2, <3>2, ExecutionDue
    <3>4. ~(r = g[s].run /\ AtWork(s) /\ ~AtWork(s)')
      BY <2>2, <3>1, <3>2 DEF OneAtWork
    <3> QED BY <3>2, <3>3, <3>4 DEF Due
  <2> QED BY <2>1, <2>2, AttemptsKeep
<1>7. ASSUME NEW p \in Proc, Outbox(p)
      PROVE  OneAtWork' /\ WorkIsDue'
  <2>1. \A r \in Run : Due(r) => Due(r)'
    BY <1>7, OutboxDue
  <2>2. ASSUME NEW s \in Slot, Begins(p, s)
        PROVE  OneAtWork' /\ WorkIsDue'
    <3>1. /\ g'[s].run = g[s].run /\ status[g[s].run] = "pending" /\ status'[g[s].run] = "running"
          /\ \A t \in Slot : t # s => g'[t] = g[t]
      BY <2>2 DEF Begins, Others
    <3>2. \A t \in Slot : t # s /\ AtWork(t)' => AtWork(t) /\ g'[t].run = g[t].run
                                                 /\ g[t].run # g[s].run /\ g[t].run \in Run
      BY <1>1, <3>1 DEF WorkIsDue, AtWork, Executing, Terminal
    <3>3. OneAtWork'
      BY <3>1, <3>2 DEF OneAtWork
    <3>4. WorkIsDue'
      BY <2>1, <3>1, <3>2 DEF WorkIsDue, Due, Executing
    <3> QED BY <3>3, <3>4
  <2>3. CASE ~(\E s \in Slot : Begins(p, s))
    <3>1. \A s \in Slot : AtWork(s)' => AtWork(s) /\ g'[s].run = g[s].run
      <4>1. CASE UNCHANGED <<g, exec>>
        BY <1>2, <4>1 DEF Stands
      <4>2. ASSUME NEW t \in Slot, Reserves(p, t) \/ Abandons(p, t)
            PROVE  \A s \in Slot : AtWork(s)' => AtWork(s) /\ g'[s].run = g[s].run
        BY <4>2 DEF Reserves, Abandons, Others, AtWork
      <4> QED BY <1>7, <2>3, <4>1, <4>2, OutboxSlots
    <3> QED BY <1>1, <2>1, <3>1, AttemptsKeep DEF Due
  <2> QED BY <2>2, <2>3
<1>8. ASSUME NEW p \in Proc, Process(p)
      PROVE  OneAtWork' /\ WorkIsDue'
  <2>1. CASE Volatile(p)
    <3>1. \A s \in Slot : AtWork(s)' => AtWork(s) /\ g'[s].run = g[s].run
      BY <2>1, VolatileSlots DEF AtWork
    <3> QED BY <2>1, <3>1, VolatileSlots, AttemptsKeep DEF Due, rows
  <2>2. CASE InterruptStale(p) /\ mode[p] = "sweeping" /\ UNCHANGED <<g, exec>>
    <3>1. \A s \in Slot : ~AtWork(s)
      BY <1>1, <2>2 DEF Accounts, Quiet, OneRuntime, HasRuntime, Started
    <3> QED BY <1>2, <2>2, <3>1, AttemptsKeep DEF Stands
  <2>3. CASE UNCHANGED <<g, exec>> /\ UNCHANGED rows
    BY <1>2, <2>3, AttemptsKeep DEF Stands, Due, rows
  <2>4. Volatile(p) \/ InterruptStale(p) \/ UNCHANGED rows
    BY <1>8 DEF Process, AcquireRuntime, ReadStale, StartFails, Shutdown, Drained, ProcessExit, Crash,
                LockFreed
  <2> QED BY <1>8, <2>1, <2>2, <2>3, <2>4, ProcessSlots DEF InterruptStale, workers
<1> QED BY <1>3, <1>4, <1>5, <1>6, <1>7, <1>8, StepCases

-----------------------------------------------------------------------------
(* Cancellations                                                           *)

\* No goroutine, outbox loop or starting server makes a run cancelling.
LEMMA OnlyUsersCancel ==
  ASSUME TypeInv, NEW r \in Run, [Next]_vars, status'[r] = "cancelling", status[r] # "cancelling"
  PROVE  \E p \in Proc : Cancel(p, r)
<1>1. status \in [Run -> Status]
  BY DEF TypeInv, TypeOK
<1>2. status' # status
  OBVIOUS
<1>3. ASSUME NEW q, NEW t, Become(q, t)
      PROVE  q = r /\ t = "cancelling"
  BY <1>1, <1>3 DEF Become
<1>4. ASSUME NEW p \in Proc, Users(p)
      PROVE  Cancel(p, r)
  <2>1. PICK q \in Run : CreateRun(p, q) \/ Pause(p, q) \/ Cancel(p, q) \/ Approve(p, q) \/ Resume(p, q)
    BY <1>4 DEF Users
  <2>2. CASE CreateRun(p, q) \/ Approve(p, q) \/ Resume(p, q)
    BY <1>3, <2>2 DEF CreateRun, Approve, Resume, TakeUpAgain
  <2>3. CASE Pause(p, q)
    BY <1>3, <2>3 DEF Pause, MoveTo
  <2>4. CASE Cancel(p, q)
    <3>1. UNCHANGED rows \/ \E t : Become(q, t)
      BY <2>4 DEF Cancel, CancelRow, MoveTo, Finish
    <3> QED BY <1>2, <1>3, <2>4, <3>1 DEF rows
  <2> QED BY <2>1, <2>2, <2>3, <2>4
<1>5. ASSUME NEW p \in Proc, Outbox(p)
      PROVE  FALSE
  <2>1. UNCHANGED rows \/ \E q : Become(q, "running")
    BY <1>5 DEF Outbox, Tick, LoopExit, Claim, ClaimFails, ClaimRefused, Dispatch, MarkRunning, Ack, Retry, Settle, MoveTo
  <2> QED BY <1>2, <1>3, <2>1 DEF rows
<1>6. ASSUME NEW s \in Slot, Execution(s)
      PROVE  FALSE
  <2>1. g[s].arg # "cancelling"
    BY DEF TypeInv, TypeOK, Goroutine
  <2>2. CASE Suspend(s)
    <3>1. UNCHANGED rows \/ MoveTo(g[s].run, g[s].arg)
      BY <2>2 DEF Suspend
    <3> QED BY <1>2, <1>3, <2>1, <3>1 DEF MoveTo, rows
  <2>3. CASE Complete(s)
    <3>1. UNCHANGED rows \/ Finish(g[s].run, "completed", 3)
      BY <2>3 DEF Complete
    <3> QED BY <1>2, <1>3, <3>1 DEF Finish, rows
  <2>4. CASE Fail(s)
    <3>1. UNCHANGED rows \/ \E t \in {"canceled", "recoverable", "interrupted", "failed"} : Become(g[s].run, t)
      BY <2>4 DEF Fail, FailRow, MoveTo, Finish
    <3> QED BY <1>2, <1>3, <3>1 DEF rows
  <2>5. CASE ~(Suspend(s) \/ Complete(s) \/ Fail(s))
    BY <1>2, <1>6, <2>5
    DEF Execution, Register, CheckCancelled, Emit, SaveCheckpoint, HandlerEnds, Exit, rows
  <2> QED BY <2>2, <2>3, <2>4, <2>5
<1>7. ASSUME NEW p \in Proc, Process(p)
      PROVE  FALSE
  <2>1. CASE InterruptStale(p)
    BY <1>1, <2>1 DEF InterruptStale, SweptTo
  <2>2. CASE ~InterruptStale(p)
    BY <1>2, <1>7, <2>2
    DEF Process, AcquireRuntime, ReadStale, StartFails, Shutdown, Drained, ProcessExit, Crash,
        LockFreed, Volatile, rows
  <2> QED BY <2>1, <2>2
<1>8. ASSUME NEW p \in Proc, NEW q \in Run, CancelHandle(p, q)
      PROVE  FALSE
  BY <1>2, <1>8 DEF CancelHandle, rows
<1> QED BY <1>2, <1>4, <1>5, <1>6, <1>7, <1>8, StepCases DEF vars, rows

\* A request waits until the handle is told.
LEMMA RequestsWait ==
  ASSUME TypeInv, NEW p \in Proc, NEW r \in Run, [Next]_vars, r \in cancelReq[p], r \notin cancelReq'[p]
  PROVE  CancelHandle(p, r) \/ Volatile(p)
<1>1. cancelReq \in [Proc -> SUBSET Run] /\ cancelReq' # cancelReq
  BY DEF TypeInv, TypeOK
<1>2. ASSUME NEW q \in Proc, NEW t \in Run, CancelHandle(q, t)
      PROVE  CancelHandle(p, r)
  <2>1. cancelReq' = [cancelReq EXCEPT ![q] = @ \ {t}]
    BY <1>2 DEF CancelHandle
  <2>2. q = p /\ t = r
    BY <1>1, <2>1
  <2> QED BY <1>2, <2>2
<1>3. ASSUME NEW q \in Proc, Volatile(q)
      PROVE  Volatile(p)
  BY <1>1, <1>3 DEF Volatile
<1>4. ASSUME NEW q \in Proc, Users(q)
      PROVE  FALSE
  <2>1. cancelReq' = cancelReq \/ \E t : cancelReq' = [cancelReq EXCEPT ![q] = @ \cup {t}]
    BY <1>4 DEF Users, CreateRun, Pause, Cancel, Approve, Resume, TakeUpAgain
  <2> QED BY <1>1, <2>1
<1>5. ASSUME NEW q \in Proc, Outbox(q)
      PROVE  FALSE
  BY <1>1, <1>5 DEF Outbox, Tick, LoopExit, Claim, ClaimFails, ClaimRefused, Dispatch, MarkRunning, Ack, Retry, Settle
<1>6. ASSUME NEW q \in Proc, Process(q), ~Volatile(q)
      PROVE  FALSE
  BY <1>1, <1>6 DEF Process, AcquireRuntime, ReadStale, InterruptStale, StartFails, Shutdown, Drained,
                    ProcessExit, Crash, LockFreed
<1>7. ASSUME NEW s \in Slot, Execution(s)
      PROVE  FALSE
  BY <1>1, <1>7 DEF Execution, Register, CheckCancelled, Emit, SaveCheckpoint, HandlerEnds, Suspend,
                    Complete, Fail, Exit
<1> QED BY <1>1, <1>2, <1>3, <1>4, <1>5, <1>6, <1>7, StepCases DEF vars

\* A handler starts with CheckCancelled, and a cancelled context stays so.
LEMMA HandlersAtWork ==
  ASSUME TypeInv, NEW s \in Slot, [Next]_vars, g'[s].pc = "handler"
  PROVE  /\ g'[s].run = g[s].run /\ g[s].run \in Run
         /\ \/ CheckCancelled(s)
            \/ g[s].pc = "handler" /\ (g[s].canceled => g'[s].canceled)
<1>1. /\ g[s] \in Goroutine /\ WorkTypeOK
      /\ g[s].pc # "free" => g[s].run \in Run
  BY DEF TypeInv, TypeOK, WorkTypeOK, HasRun
<1>2. CASE g'[s] = g[s]
  BY <1>1, <1>2
<1>3. ASSUME NEW p \in Proc, NEW r \in Run, CancelHandle(p, r)
      PROVE  g'[s] = g[s] \/ g'[s] = [g[s] EXCEPT !.canceled = TRUE]
  BY <1>3 DEF CancelHandle
<1>4. CASE g'[s] = [g[s] EXCEPT !.canceled = TRUE]
  BY <1>1, <1>4 DEF Goroutine
<1>5. ASSUME NEW t \in Slot, Execution(t)
      PROVE  g'[s] = g[s] \/ CheckCancelled(s)
  <2>1. CASE t # s
    BY <1>5, <2>1, ExecutionSlots DEF OneSlot, Registers, Advances, Departs, Others
  <2>2. CASE t = s
    <3>1. CASE Emit(s) \/ SaveCheckpoint(s)
      BY <3>1 DEF Emit, SaveCheckpoint, workers
    <3>2. ASSUME NEW to \in {"check", "completing", "suspending", "failing", "tail"}, NEW arg,
                 Step(s, to) \/ StepTo(s, to, arg)
          PROVE  FALSE
      BY <1>1, <3>2, StepEdits, StepToEdits
    <3>3. CASE Register(s)
      BY <3>2, <3>3 DEF Register
    <3>4. CASE HandlerEnds(s)
      BY <3>2, <3>4 DEF HandlerEnds
    <3>5. CASE Suspend(s) \/ Complete(s) \/ Fail(s)
      BY <3>2, <3>5 DEF Suspend, Complete, Fail
    <3>6. CASE Exit(s)
      BY <1>1, <3>6 DEF Exit, WorkTypeOK, Free
    <3> QED BY <1>5, <2>2, <3>1, <3>3, <3>4, <3>5, <3>6 DEF Execution
  <2> QED BY <2>1, <2>2
<1>6. ASSUME NEW p \in Proc, Outbox(p)
      PROVE  g'[s] = g[s]
  BY <1>6, OutboxSlots DEF Reserves, Begins, Abandons, Others
<1>7. ASSUME NEW p \in Proc, Process(p)
      PROVE  g'[s] = g[s]
  BY <1>7, ProcessSlots, VolatileSlots
<1>8. CASE UNCHANGED vars \/ \E p \in Proc : Users(p)
  BY <1>2, <1>8, UsersSlots
<1>9. CASE CheckCancelled(s)
  <2>1. \E b \in BOOLEAN : g' = [g EXCEPT ![s] = [g[s] EXCEPT !.pc = "handler", !.canceled = b]]
    BY <1>1, <1>9 DEF CheckCancelled, Goroutine
  <2>2. \A b \in BOOLEAN : [g[s] EXCEPT !.pc = "handler", !.canceled = b].run = g[s].run
    BY <1>1 DEF Goroutine
  <2>3. g'[s].run = g[s].run
    BY <1>1, <2>1, <2>2 DEF WorkTypeOK
  <2> QED BY <1>1, <1>9, <2>3 DEF CheckCancelled, In
<1> QED BY <1>2, <1>3, <1>4, <1>5, <1>6, <1>7, <1>8, <1>9, StepCases

OneServer == MaxFaults = 0 /\ \A p, q \in Proc : p = q

LEMMA CancelReachesStep ==
  ASSUME OneServer, TypeInv, HandlesAreOwn, CancelReachesHandler, [Next]_vars
  PROVE  CancelReachesHandler'
<1> SUFFICES ASSUME NEW s \in Slot, g'[s].pc = "handler", status'[g'[s].run] = "cancelling"
             PROVE  g'[s].canceled \/ \E p \in Proc : g'[s].run \in cancelReq'[p]
  BY DEF CancelReachesHandler
<1>1. g'[s].run = g[s].run /\ g[s].run \in Run /\ Host[s] \in Proc
  BY HandlersAtWork, TaskConstants DEF TaskConstants
<1>2. PICK r \in Run : r = g[s].run
  BY <1>1
<1>3. ~Fault
  BY TaskConstants DEF OneServer, Fault, TypeInv, TypeOK, TaskConstants
<1>4. CASE status[r] # "cancelling"
  <2>1. PICK p \in Proc : Cancel(p, r)
    BY <1>1, <1>2, <1>4, OnlyUsersCancel
  <2>2. cancelReq' = [cancelReq EXCEPT ![p] = @ \cup {r}] /\ cancelReq \in [Proc -> SUBSET Run]
    BY <1>3, <2>1 DEF Cancel, TypeInv, TypeOK
  <2> QED BY <1>1, <1>2, <2>2
<1>5. CASE status[r] = "cancelling" /\ CheckCancelled(s)
  <2>1. g[s] \in Goroutine /\ WorkTypeOK
    BY DEF TypeInv, TypeOK, WorkTypeOK
  <2>2. g' = [g EXCEPT ![s] = [g[s] EXCEPT !.pc = "handler", !.canceled = TRUE]]
    BY <1>2, <1>3, <1>5, <2>1 DEF CheckCancelled, Goroutine
  <2>3. [g[s] EXCEPT !.pc = "handler", !.canceled = TRUE].canceled = TRUE
    BY <2>1 DEF Goroutine
  <2>4. g'[s].canceled = TRUE
    BY <2>1, <2>2, <2>3 DEF WorkTypeOK
  <2> QED BY <2>4
<1>6. CASE status[r] = "cancelling" /\ ~CheckCancelled(s)
  <2>1. g[s].pc = "handler" /\ (g[s].canceled => g'[s].canceled)
    BY <1>6, HandlersAtWork
  <2>2. CASE g[s].canceled
    BY <2>1, <2>2
  <2>3. CASE ~g[s].canceled
    <3>1. PICK p \in Proc : r \in cancelReq[p]
      BY <1>2, <1>6, <2>1, <2>3 DEF CancelReachesHandler
    <3>2. CASE r \in cancelReq'[p]
      BY <1>1, <1>2, <3>2
    <3>3. CASE CancelHandle(p, r)
      <4>1. exec[p][r] = s
        BY <1>1, <1>2, <2>1 DEF HandlesAreOwn, OneServer
      <4>2. g'[s] = [g[s] EXCEPT !.canceled = TRUE] /\ g[s] \in Goroutine
        BY <3>3, <4>1 DEF CancelHandle, TypeInv, TypeOK
      <4> QED BY <4>2 DEF Goroutine
    <3>4. CASE Volatile(p)
      <4>1. Host[s] = p
        BY <1>1 DEF OneServer
      <4> QED BY <3>4, <4>1, VolatileSlots
    <3> QED BY <3>1, <3>2, <3>3, <3>4, RequestsWait
  <2> QED BY <2>2, <2>3
<1> QED BY <1>4, <1>5, <1>6

-----------------------------------------------------------------------------
(* The runtime lock                                                        *)

LockInv == \A p \in Proc : HasRuntime(p) => owner = p

LEMMA LockStep ==
  ASSUME TypeInv, LockInv, LockKept, [Next]_vars
  PROVE  LockInv'
<1>1. mode \in [Proc -> Mode] /\ \A p \in Proc : p # None
  BY TaskConstants DEF TypeInv, TypeOK, TaskConstants
<1>2. CASE owner' = owner /\ \A p \in Proc : HasRuntime(p)' => HasRuntime(p)
  BY <1>2 DEF LockInv, HasRuntime, Started
<1>3. CASE UNCHANGED <<owner, mode>>
  BY <1>2, <1>3 DEF HasRuntime, Started
<1>4. ASSUME NEW p \in Proc, Users(p)
      PROVE  UNCHANGED <<owner, mode>>
  BY <1>4 DEF Users, CreateRun, Pause, Cancel, Approve, Resume, TakeUpAgain
<1>5. ASSUME NEW p \in Proc, Outbox(p)
      PROVE  owner' = owner /\ \A q \in Proc : HasRuntime(q)' => HasRuntime(q)
  <2>1. owner' = owner
    BY <1>5 DEF Outbox, Tick, LoopExit, Claim, ClaimFails, ClaimRefused, Dispatch, MarkRunning, Ack, Retry, Settle
  <2>2. mode' = mode \/ (mode[p] = "up" /\ mode' = [mode EXCEPT ![p] = "halted"])
    BY <1>5 DEF Outbox, Tick, LoopExit, Claim, ClaimFails, ClaimRefused, Dispatch, MarkRunning, Ack, Retry, Settle
  <2> QED BY <1>1, <2>1, <2>2 DEF HasRuntime, Started
<1>6. ASSUME NEW s \in Slot, Execution(s)
      PROVE  UNCHANGED <<owner, mode>>
  BY <1>6 DEF Execution, Register, CheckCancelled, Emit, SaveCheckpoint, HandlerEnds, Suspend,
              Complete, Fail, Exit
<1>7. ASSUME NEW p \in Proc, NEW r \in Run, CancelHandle(p, r)
      PROVE  UNCHANGED <<owner, mode>>
  BY <1>7 DEF CancelHandle
<1>8. ASSUME NEW p \in Proc, Process(p)
      PROVE  LockInv'
  <2>1. CASE AcquireRuntime(p)
    BY <1>1, <2>1 DEF AcquireRuntime, SetMode, LockInv, HasRuntime, Started
  <2>2. CASE ReadStale(p) \/ InterruptStale(p) \/ Shutdown(p)
    BY <1>1, <1>2, <2>2 DEF ReadStale, InterruptStale, Shutdown, SetMode, HasRuntime, Started
  <2>3. CASE StartFails(p) \/ Drained(p) \/ ProcessExit(p) \/ Crash(p)
    <3>1. owner' = owner \/ (owner = p /\ owner' = None)
      BY <2>3 DEF StartFails, Drained, ProcessExit, Crash
    <3>2. mode' = [mode EXCEPT ![p] = "drained"] \/ mode' = [mode EXCEPT ![p] = "down"]
      BY <2>3 DEF StartFails, Drained, ProcessExit, Crash, Volatile, SetMode
    <3> QED BY <1>1, <3>1, <3>2 DEF LockInv, HasRuntime, Started
  <2>4. CASE LockFreed(p)
    <3>1. owner = p /\ owner' = None /\ mode' = mode
      BY <2>4 DEF LockFreed
    <3>2. ~HasRuntime(p)
      BY <1>1, <3>1 DEF LockKept
    <3> QED BY <3>1, <3>2 DEF LockInv, HasRuntime, Started
  <2> QED BY <1>8, <2>1, <2>2, <2>3, <2>4 DEF Process
<1> QED BY <1>2, <1>3, <1>4, <1>5, <1>6, <1>7, <1>8, StepCases DEF vars

LEMMA LockInvIsOne == ASSUME LockInv PROVE OneRuntime
BY DEF LockInv, OneRuntime

-----------------------------------------------------------------------------
(* The theorems                                                            *)

AttemptInv == TypeInv /\ Accounts /\ Attempting

LEMMA AttemptInit == Init => AttemptInv
<1> SUFFICES ASSUME Init PROVE AttemptInv
  OBVIOUS
<1>1. \A s \in Slot : ~AtWork(s)
  BY DEF Init, AtWork, Free
<1> QED BY <1>1, TypeInit, AccountsInit, HandlesInit DEF AttemptInv, Attempting, OneAtWork, WorkIsDue

LEMMA AttemptStep ==
  ASSUME AttemptInv, OneRuntime, [Next]_vars
  PROVE  AttemptInv'
BY TypeStep, AccountsStep, AttemptsStep, HandlesStep DEF AttemptInv, Attempting

\* The runtime lock of MySQL lets one process at a time start, execute or stop,
\* as long as it is taken from none that is alive.
THEOREM LockServesOne == Spec /\ [][LockKept]_vars => []OneRuntime
<1>1. Init => TypeInv /\ LockInv
  BY TypeInit DEF Init, LockInv, HasRuntime, Started
<1>2. TypeInv /\ LockInv /\ [Next]_vars /\ [LockKept]_vars => (TypeInv /\ LockInv)'
  <2> SUFFICES ASSUME TypeInv, LockInv, [Next]_vars, [LockKept]_vars
               PROVE  LockInv'
    BY TypeStep
  <2>1. CASE UNCHANGED vars
    BY <2>1 DEF vars, LockInv, HasRuntime, Started
  <2>2. CASE LockKept
    BY <2>2, LockStep
  <2> QED BY <2>1, <2>2
<1>3. LockInv => OneRuntime
  BY LockInvIsOne
<1> QED BY <1>1, <1>2, <1>3, PTL DEF Spec

\* Where one process at a time has the runtime, a registered handle is that of
\* a goroutine of its run, and a handler at work can be reached through it: the
\* late end of an earlier attempt removes no other attempt's handle.
THEOREM HandlesStayOwn == Spec /\ []OneRuntime => []HandlesAreOwn
<1>1. AttemptInv /\ OneRuntime /\ [Next]_vars => AttemptInv'
  BY AttemptStep
<1>2. AttemptInv => HandlesAreOwn
  BY DEF AttemptInv, Attempting
<1> QED BY <1>1, <1>2, AttemptInit, PTL DEF Spec

\* Where one process at a time has the runtime, a server that starts interrupts
\* no run whose handler is at work anywhere.
THEOREM NobodyIsInterrupted == Spec /\ []OneRuntime => NoForeignInterrupt
<1>1. AttemptInv /\ OneRuntime /\ [Next]_vars => AttemptInv'
  BY AttemptStep
<1>2. AttemptInv /\ OneRuntime =>
        [\A p \in Proc, s \in Slot :
           /\ mode[p] = "sweeping" /\ mode'[p] = "up"
           /\ In(s, "handler")
           => status'[g[s].run] = status[g[s].run]]_vars
  <2> SUFFICES ASSUME AttemptInv, OneRuntime, NEW p \in Proc, NEW s \in Slot,
                      mode[p] = "sweeping", In(s, "handler")
               PROVE  FALSE
    OBVIOUS
  <2>1. Host[s] \in Proc
    BY TaskConstants DEF TaskConstants
  <2>2. mode[Host[s]] \in Started
    BY <2>1 DEF AttemptInv, Accounts, Quiet, Started, In
  <2> QED BY <2>1, <2>2 DEF OneRuntime, HasRuntime, Started
<1> QED BY <1>1, <1>2, AttemptInit, PTL DEF Spec, NoForeignInterrupt

LEMMA AttemptIsAlone ==
  ASSUME AttemptInv
  PROVE  OneAttemptAtATime
<1> SUFFICES ASSUME NEW r \in Run
             PROVE  /\ Cardinality(Attempts(r)) <= 1
                    /\ Attempts(r) # {} => status[r] \in Executing \cup Terminal
  BY DEF OneAttemptAtATime
<1>1. \A s \in Attempts(r) : s \in Slot /\ AtWork(s) /\ g[s].run = r
  BY DEF Attempts, AtWork, AttemptInv, TypeInv, TypeOK, Goroutine
<1>2. \A s, t \in Attempts(r) : s = t
  BY <1>1 DEF AttemptInv, Attempting, OneAtWork
<1>3. CASE Attempts(r) = {}
  BY <1>3, FS_EmptySet
<1>4. CASE Attempts(r) # {}
  <2>1. PICK s : Attempts(r) = {s}
    BY <1>2, <1>4
  <2>2. Cardinality({s}) = 1
    BY FS_Singleton
  <2>3. status[r] \in Executing \cup Terminal
    BY <1>1, <2>1 DEF AttemptInv, Attempting, WorkIsDue
  <2> QED BY <2>1, <2>2, <2>3
<1> QED BY <1>3, <1>4

\* Where one process at a time has the runtime, one goroutine at a time works
\* on a run, and the run is executing or over, whatever statements fail, answers
\* are lost and servers crash: neither a redelivered message nor a resume starts
\* a second one.  What a lost answer can leave beside it is a goroutine that is
\* about to report a failure; it emits, saves and returns nothing more.
THEOREM AttemptsComeInTurn == Spec /\ []OneRuntime => []OneAttemptAtATime
<1>1. AttemptInv /\ OneRuntime /\ [Next]_vars => AttemptInv'
  BY AttemptStep
<1>2. AttemptInv => OneAttemptAtATime
  BY AttemptIsAlone
<1> QED BY <1>1, <1>2, AttemptInit, PTL DEF Spec

\* In a single server that loses no answer, a cancellation that was accepted
\* reaches the handler, whether it came before the handle was registered,
\* before the check or after.  With two servers it need not: the one that has
\* drained still takes the request, and has no handle to cancel.
THEOREM CancellationsArrive ==
  ASSUME OneServer
  PROVE  Spec => []CancelReachesHandler
<1>1. Init => AttemptInv /\ CancelReachesHandler
  BY AttemptInit DEF Init, CancelReachesHandler, Free
<1>2. AttemptInv /\ CancelReachesHandler /\ [Next]_vars => (AttemptInv /\ CancelReachesHandler)'
  <2> SUFFICES ASSUME AttemptInv, CancelReachesHandler, [Next]_vars
               PROVE  AttemptInv' /\ CancelReachesHandler'
    OBVIOUS
  <2>1. OneRuntime
    BY DEF OneServer, OneRuntime
  <2>2. TypeInv /\ HandlesAreOwn
    BY DEF AttemptInv, Attempting
  <2> QED BY <2>1, <2>2, AttemptStep, CancelReachesStep
<1> QED BY <1>1, <1>2, PTL DEF Spec

=============================================================================
