---------------------------- MODULE RunLifecycle ----------------------------
(***************************************************************************)
(* What the task runtime promises about a run, with everything about how   *)
(* it gets there left out: no outbox, no goroutines, no processes.         *)
(*                                                                         *)
(* A run reserves its application from its creation to its end, whatever   *)
(* happens in between; it executes only after having been pending; a       *)
(* cancellation that was accepted is never turned into anything else; and  *)
(* an end is an end.  TaskRuntime implements this module.                  *)
(***************************************************************************)
EXTENDS Naturals

CONSTANTS
  Run,      \* the runs, one per request_id
  App,      \* the applications
  AppOf     \* the application a run belongs to

VARIABLE status

\* The statuses of task/types.go and task/checkpoint.go, and "absent" for a
\* run whose row has not been inserted.
Terminal == {"completed", "failed", "interrupted", "canceled"}
Executing == {"running", "pausing", "cancelling"}
Parked == {"paused", "awaiting_approval", "recoverable"}
Status == {"absent", "pending"} \cup Executing \cup Parked \cup Terminal

Reserves(r) == status[r] \notin Terminal \cup {"absent"}

TypeOK == status \in [Run -> Status]

-----------------------------------------------------------------------------
Init == status = [r \in Run |-> "absent"]

Become(r, s) == status' = [status EXCEPT ![r] = s]

\* A run is admitted when no run of its application is unfinished.
Admit(r) ==
  /\ status[r] = "absent"
  /\ \A q \in Run : AppOf[q] = AppOf[r] => ~Reserves(q)
  /\ Become(r, "pending")

Start(r) == status[r] = "pending" /\ Become(r, "running")

AskPause(r) == status[r] = "running" /\ Become(r, "pausing")

AskCancel(r) == status[r] \in {"running", "pausing"} /\ Become(r, "cancelling")

\* A safe point: nothing executes any more and the run can be taken up again.
Park(r) ==
  /\ status[r] \in {"running", "pausing"}
  /\ \E s \in {"paused", "awaiting_approval"} : Become(r, s)

Resume(r) == status[r] \in Parked /\ Become(r, "pending")

\* Only a run nobody asked to pause or to cancel completes.
Complete(r) == status[r] = "running" /\ Become(r, "completed")

\* Failure, and a cancellation that took effect.
Abort(r) ==
  \/ status[r] \in {"pending", "running", "pausing"} /\ Become(r, "failed")
  \/ status[r] \in {"pending", "cancelling"} \cup Parked /\ Become(r, "canceled")

\* A server stops or starts: each of the runs it leaves or finds unfinished is
\* taken to a state in which nothing executes.
Interrupted(s) ==
  CASE s = "cancelling" -> {"canceled"}
    [] s \in {"pending", "running", "pausing"} -> {"recoverable", "interrupted"}
    [] OTHER -> {}

Interrupt ==
  /\ status' \in [Run -> Status]
  /\ \A r \in Run :
        status'[r] # status[r] => status'[r] \in Interrupted(status[r])

Next ==
  \/ \E r \in Run : \/ Admit(r) \/ Start(r) \/ AskPause(r) \/ AskCancel(r)
                    \/ Park(r) \/ Resume(r) \/ Complete(r) \/ Abort(r)
  \/ Interrupt

Spec == Init /\ [][Next]_status

=============================================================================
