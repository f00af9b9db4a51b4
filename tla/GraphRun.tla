------------------------------- MODULE GraphRun -------------------------------
(***************************************************************************)
(* One graph run of the code-generation workflow: its nodes, the agents    *)
(* they call, the execution budget those calls are charged to, and the     *)
(* safe points at which the run can be parked and from which it resumes.   *)
(* (internal/ai/graph, internal/ai/agent, internal/core/execution,         *)
(* internal/core/contextmgr, internal/logic/app_task_logic.go)             *)
(*                                                                         *)
(* An attempt executes router -> prompt_enhancer -> code_generator ->      *)
(* quality_check, the last one back to code_generator while it finds       *)
(* faults and retries are left.  After every node, and whenever an agent   *)
(* has compacted its context, a safe point saves a checkpoint: the next    *)
(* node, the workflow's state, the files, the budget, the plan and its     *)
(* approval.  An attempt that is suspended, or dies with its process, is   *)
(* continued by another one from there.                                    *)
(*                                                                         *)
(* The row's life cycle is TaskRuntime's, the lease and the publication    *)
(* are ExecutionLease's; here one attempt at a time holds both, and        *)
(* cancellation, deadline and a lost lease are one thing: the attempt's    *)
(* context ends (Cut).  Files are known by a number: 0 is what the version *)
(* the run started from holds, every change makes a new one.               *)
(***************************************************************************)
EXTENDS Naturals, FiniteSetsExt

CONSTANTS
  Type,         \* code generation types: whole-file ones and tool-driven ones
  ToolDriven,   \* those of Type whose agent writes with tools (vue)
  Call,         \* ids of tool calls
  MaxRetries,   \* wc.MaxRetries: repairs the quality check may ask for
  Retries,      \* BudgetOptions, for all attempts together
  ModelCalls,
  ToolCalls,
  Tokens,
  OutputTokens,
  MaxCrashes,   \* how often the server dies
  MaxFaults,    \* how many statements fail
  MaxOver,      \* by how much a bill exceeds what was reserved for it
  None

ASSUME GraphAssumption ==
  /\ ToolDriven \subseteq Type
  /\ {MaxRetries, Retries, ModelCalls, ToolCalls, MaxCrashes, MaxFaults, MaxOver} \subseteq Nat
  /\ {Tokens, OutputTokens} \subseteq Nat \ {0}
  /\ None \notin Type \cup Call

VARIABLES
  status,     \* agent_run.status
  cp,         \* run_checkpoint, or None
  published,  \* the files of the published version, or None
  pc,         \* where the attempt is; "idle" when there is none
  node,       \* the node it executes
  aim,        \* what its call, its save or its end is for
  wc,         \* WorkFlowContext; a plan is known by its hash
  files,      \* the files in its workspace
  hash,       \* the approved hash it carries from checkpoint to checkpoint
  journal,    \* its tool_execution rows
  used,       \* Budget.used
  broken,     \* Budget.persistErr # nil
  require,    \* input.RequireApproval
  mode,       \* does the application have files already?
  build,      \* graphCompatibility() of the server that is up
  approved,   \* the plans the user has approved
  spent,      \* what the provider was asked for, and has billed at most; by how much
              \* the last bill, and bills that are not on record, exceed what was reserved
  accepted,   \* the files the quality check found valid
  made,       \* the last number given to files
  crashes, faults

row == <<status, published>>
work == <<node, wc, files, hash, journal>>
meter == <<used, broken>>
ghost == <<approved, spent, accepted, made>>
env == <<require, mode, build, crashes>>
vars == <<row, cp, pc, aim, work, meter, ghost, env, faults>>

Executing == {"running", "pausing"}
Parked == {"awaiting_approval", "paused", "recoverable"}
Status == Executing \cup Parked \cup {"pending", "completed", "failed", "interrupted"}
Node == {"router", "prompt_enhancer", "code_generator", "quality_check"}
Entry == Node \cup {"END"}
Agent == {"router", "code_generator", "quality_check"}   \* the nodes that ask a model
PC == {"idle", "begin", "node", "assemble", "asking", "called", "answered", "lost", "tool",
       "claiming", "changing", "erred", "point", "save", "saved", "result", "done", "leaving"}
Aim == {"none", "answer", "summary", "commit", "point", "blocked",
        "failed", "paused", "awaiting_approval"}

NoUse == [calls |-> 0, tools |-> 0, retries |-> 0, tokens |-> 0, reserved |-> 0]
Usage == [calls : Nat, tools : Nat, retries : Nat, tokens : Nat, reserved : Nat]
NoSpending == [calls |-> 0, tokens |-> 0, over |-> 0, unseen |-> 0]
Spending == [calls : Nat, tokens : Nat, over : Nat, unseen : Nat]
Fresh(t) == [type |-> t, plan |-> None, retry |-> 0, verdict |-> "none",
             next |-> "router", sums |-> {}]
Context == [type : Type \cup {None}, plan : Type \cup {None}, retry : Nat,
            verdict : {"none", "valid", "invalid"}, next : Entry, sums : SUBSET Agent]
Checkpoint == [wc : Context, files : Nat, used : Usage, approved : Type \cup {None}, build : Nat]

ASSUME NoneAssumption == None \notin Checkpoint

TypeOK ==
  /\ status \in Status
  /\ cp \in Checkpoint \cup {None}
  /\ published \in Nat \cup {None}
  /\ pc \in PC /\ node \in Node /\ aim \in Aim
  /\ wc \in Context /\ files \in Nat /\ hash \in Type \cup {None}
  /\ journal \in [Call -> {"none", "running", "succeeded", "uncertain"}]
  /\ used \in Usage /\ broken \in BOOLEAN
  /\ require \in BOOLEAN /\ mode \in {"bootstrap", "modify"} /\ build \in Nat
  /\ approved \subseteq Type
  /\ spent \in Spending
  /\ accepted \subseteq Nat /\ made \in Nat
  /\ crashes \in 0 .. MaxCrashes /\ faults \in 0 .. MaxFaults

Init ==
  /\ status = "pending" /\ cp = None /\ published = None
  /\ pc = "idle" /\ aim = "none"
  /\ node = "router" /\ wc = Fresh(None) /\ files = 0 /\ hash = None
  /\ journal = [c \in Call |-> "none"]
  /\ used = NoUse /\ broken = FALSE
  /\ require \in BOOLEAN /\ mode \in {"bootstrap", "modify"} /\ build = 1
  /\ approved = {} /\ spent = NoSpending /\ accepted = {} /\ made = 0
  /\ crashes = 0 /\ faults = 0

Goto(p, a) == pc' = p /\ aim' = a
Fault == faults < MaxFaults /\ faults' = faults + 1

\* The attempt's memory, workspace and context are gone.
Forget ==
  /\ node' = "router" /\ wc' = Fresh(None) /\ files' = 0 /\ hash' = None
  /\ journal' = [c \in Call |-> "none"]
  /\ used' = NoUse /\ broken' = FALSE

\* The handler returns: workspace and lease are released, then the Manager
\* suspends or fails the row.
Stop(outcome) == Goto("leaving", outcome) /\ Forget

Leave ==
  /\ pc = "leaving"
  /\ status' = aim
  /\ Goto("idle", "none")
  /\ UNCHANGED <<published, cp, work, meter, ghost, env, faults>>

-----------------------------------------------------------------------------
(* The budget.  Every change of it is written to the checkpoint, if there  *)
(* is one, before the attempt goes on; a write that fails, also one that   *)
(* only lost its answer, stops every later use.                            *)

Within == ~broken /\ used.tokens < Tokens
Observed(u) == IF cp = None THEN None ELSE [cp EXCEPT !.used = u]
WriteFails(U) == Fault /\ broken' = TRUE /\ cp' \in {cp} \cup {Observed(u) : u \in U}

\* One of a limited resource is taken: on to p, or an error.
Consume(count, limit, u, p) ==
  \/ Within /\ count < limit /\ used' = u
     /\ \/ cp' = Observed(u) /\ pc' = p /\ UNCHANGED <<broken, faults>>
        \/ WriteFails({u}) /\ pc' = "erred"
  \/ ~(Within /\ count < limit) /\ pc' = "erred" /\ UNCHANGED <<cp, meter, faults>>

\* Tokens for the input (1) and for as much output as is left.
Left(u) == Tokens - u.tokens - u.reserved - 1
Reserve(u) == [u EXCEPT !.reserved = 1 + Min({OutputTokens, Left(u)})]
CountCall(u) == [u EXCEPT !.calls = @ + 1]
\* Instead of Settle: the reservation is given back twice.
SettleTwice(u, n) == [u EXCEPT !.tokens = @ + n, !.reserved = 0 - @]
Settle(u, n) == [u EXCEPT !.tokens = @ + n, !.reserved = 0]

\* Instead of RestoreBudget: the next attempt gets back what the last one had reserved.
RestoreUnreserved(u) == [u EXCEPT !.reserved = 0]
\* The next attempt is charged for it, whatever became of that call.
RestoreBudget(u) == Settle(u, u.reserved)

-----------------------------------------------------------------------------
(* Beginning                                                               *)

Start ==
  /\ status = "pending" /\ pc = "idle"
  /\ status' = "running" /\ Goto("begin", "none")
  /\ UNCHANGED <<published, cp, work, meter, ghost, env, faults>>

\* An application with files has a type, another one may.
BeginFresh ==
  /\ pc = "begin" /\ cp = None
  /\ \E t \in Type \cup {None} : (mode = "modify" => t # None) /\ wc' = Fresh(t)
  /\ Goto("node", "none")
  /\ UNCHANGED <<row, cp, node, files, hash, journal, meter, ghost, env, faults>>

\* The plan is yet to be approved at the node that would carry it out.
Gated(w, h) == require /\ w.next = "code_generator" /\ w.plan # h
Resumable == cp.build = build /\ RestoreBudget(cp.used).tokens < Tokens
\* Instead of Held: the gate is left to the safe point.
HeldNever == FALSE
\* A restart just after the plan was saved must still stop at the gate.
Held == Gated(cp.wc, cp.approved)
\* Instead of ResumeFiles: the attempt starts over from the base version.
ResumeFromBase == 0
\* The workspace gets the checkpoint's files, not the base version's.
ResumeFiles == cp.files
\* The workflow is entered at the node the checkpoint's envelope names.
EnterAt(n) ==
  IF n = "END" THEN Goto("result", "none") /\ node' = "quality_check"
               ELSE Goto("node", "none") /\ node' = n

BeginAgain ==
  /\ pc = "begin" /\ cp # None
  /\ \/ ~Resumable /\ Stop("failed")
     \/ Resumable /\ Held /\ Stop("awaiting_approval")
     \/ /\ Resumable /\ ~Held
        /\ EnterAt(cp.wc.next)
        /\ wc' = cp.wc /\ files' = ResumeFiles /\ hash' = cp.approved
        /\ used' = RestoreBudget(cp.used)
        /\ UNCHANGED <<journal, broken>>
  /\ UNCHANGED <<row, cp, ghost, env, faults>>

-----------------------------------------------------------------------------
(* The nodes                                                               *)

NoFiles == files = 0 /\ mode = "bootstrap"
\* A website that exists, or has faults, is edited; only Vue is also built with tools.
BuiltWithTools == wc.type \in ToolDriven
HasTools ==
  node = "code_generator" /\ (mode = "modify" \/ wc.verdict = "invalid" \/ BuiltWithTools)

\* A node that has no use for its agent.
Skip ==
  \/ node = "router" /\ wc.type # None /\ UNCHANGED wc
  \/ node = "prompt_enhancer" /\ wc' = [wc EXCEPT !.plan = IF @ = None THEN wc.type ELSE @]
  \/ node = "quality_check" /\ NoFiles /\ wc' = [wc EXCEPT !.verdict = "invalid"]

EnterNode ==
  /\ pc = "node"
  /\ \/ Skip /\ pc' = "point"
     \/ /\ \/ node = "router" /\ wc.type = None
           \/ node = "code_generator"
           \/ node = "quality_check" /\ ~NoFiles
        /\ pc' = "assemble" /\ UNCHANGED wc
  /\ UNCHANGED <<row, cp, aim, node, files, hash, journal, meter, ghost, env, faults>>

\* The context fits; or older turns are summarised first; or it is too large
\* and nothing can be left out.
Assemble ==
  /\ pc = "assemble"
  /\ \/ Goto("asking", "answer")
     \/ Goto("asking", "summary")
     \/ Goto("save", "blocked")
  /\ UNCHANGED <<row, cp, work, meter, ghost, env, faults>>

\* A model call is counted, then its tokens are reserved, both on record
\* before the provider hears of it.  A reservation that cannot be written is
\* taken back.
AskModel ==
  /\ pc = "asking"
  /\ UNCHANGED <<row, aim, work, approved, accepted, made, env>>
  /\ LET counted == CountCall(used) IN
     IF Within /\ used.calls < ModelCalls /\ Left(used) > 0
       THEN \/ /\ used' = Reserve(counted) /\ cp' = Observed(used') /\ pc' = "called"
               /\ spent' = [spent EXCEPT !.calls = @ + 1, !.over = 0]
               /\ UNCHANGED <<broken, faults>>
            \/ /\ used' = counted /\ WriteFails({counted, Reserve(counted)})
               /\ pc' = "erred" /\ UNCHANGED spent
       ELSE Consume(used.calls, ModelCalls, counted, "erred") /\ UNCHANGED spent

\* The provider bills what was reserved or less, or more than that.
Billed(bill, over, unseen) ==
  spent' = [spent EXCEPT !.tokens = @ + bill + over, !.over = over, !.unseen = @ + unseen]
Overrun(bill) == IF bill < used.reserved THEN {0} ELSE 0 .. MaxOver

\* What the call cost is on record before its answer is used; what was reserved
\* is charged when the provider does not say.  That write's failure shows later.
FinishModel ==
  /\ pc = "called"
  /\ \E bill \in 0 .. used.reserved : \E over \in Overrun(bill) :
       \/ pc' = "answered" /\ used' = Settle(used, bill + over)
          /\ \/ cp' = Observed(used') /\ Billed(bill, over, 0) /\ UNCHANGED <<broken, faults>>
             \/ WriteFails({used'}) /\ Billed(bill, over, over)
       \/ pc' = "lost" /\ bill = used.reserved /\ used' = Settle(used, bill)
          /\ Billed(bill, over, over)
          /\ \/ cp' = Observed(used') /\ UNCHANGED <<broken, faults>>
             \/ WriteFails({used'})
  /\ UNCHANGED <<row, aim, work, approved, accepted, made, env>>

\* The agent asks again while there are retries, the summariser does not.
RetryModel ==
  /\ pc = "lost"
  /\ IF aim = "answer"
       THEN Consume(used.retries, Retries, [used EXCEPT !.retries = @ + 1], "asking")
       ELSE pc' = "erred" /\ UNCHANGED <<cp, meter, faults>>
  /\ UNCHANGED <<row, aim, work, ghost, env>>

SaveCode == made' = made + 1 /\ files' = made + 1
\* A whole answer is collected, parsed and saved; of an agent with tools the
\* stream is only passed on, since what its tools did is there already.
AnswerIsSaved == ~HasTools /\ SaveCode
AnswerIsPassedOn == HasTools /\ UNCHANGED <<files, made>>
NodeAnswers ==
  \/ /\ node = "router"
     /\ \E t \in Type : wc' = [wc EXCEPT !.type = t]
     /\ UNCHANGED <<files, made, accepted>>
  \/ /\ node = "code_generator"
     /\ AnswerIsSaved \/ AnswerIsPassedOn
     /\ UNCHANGED <<wc, accepted>>
  \/ /\ node = "quality_check"
     /\ \/ wc' = [wc EXCEPT !.verdict = "valid"] /\ accepted' = accepted \cup {files}
        \/ wc' = [wc EXCEPT !.verdict = "invalid"] /\ UNCHANGED accepted
     /\ UNCHANGED <<files, made>>

\* The agent is done, or wants a tool, or the answer is of no use; a summary
\* is committed at a safe point, or does not validate.
Answered ==
  /\ pc = "answered"
  /\ \/ aim = "answer" /\ NodeAnswers /\ Goto("point", "none")
     \/ aim = "answer" /\ HasTools /\ Goto("tool", "none") /\ UNCHANGED <<wc, files, made, accepted>>
     \/ pc' = "erred" /\ UNCHANGED <<aim, wc, files, made, accepted>>
     \/ /\ aim = "summary" /\ Goto("save", "commit")
        /\ wc' = [wc EXCEPT !.sums = @ \cup {node}]
        /\ UNCHANGED <<files, made, accepted>>
  /\ UNCHANGED <<row, cp, node, hash, journal, meter, approved, spent, env, faults>>

\* The error of a node is the workflow's, and what its stream ends with.
WorkflowFails == Stop("failed")

\* Without its summary an agent goes on if its context is below the hard
\* limit; the quality check makes its agent's error a verdict; any other error
\* ends the run.
Erred ==
  /\ pc = "erred"
  /\ \/ /\ aim = "summary"
        /\ Goto("asking", "answer") \/ Goto("save", "blocked")
        /\ UNCHANGED <<work, meter>>
     \/ /\ aim # "summary" /\ aim # "point" /\ node = "quality_check"
        /\ wc' = [wc EXCEPT !.verdict = "invalid"]
        /\ Goto("point", "none")
        /\ UNCHANGED <<node, files, hash, journal, meter>>
     \/ aim # "summary" /\ (aim = "point" \/ node # "quality_check") /\ WorkflowFails
  /\ UNCHANGED <<row, cp, ghost, env, faults>>

-----------------------------------------------------------------------------
(* The tools                                                               *)

UseTool ==
  /\ pc = "tool"
  /\ Consume(used.tools, ToolCalls, [used EXCEPT !.tools = @ + 1], "claiming")
  /\ UNCHANGED <<row, aim, work, ghost, env>>

Record(c, s) == journal' = [journal EXCEPT ![c] = s]

\* Reading needs no record.  A change is claimed first; a call that is on
\* record is answered from there, or refused when its outcome is not known.
ClaimTool ==
  /\ pc = "claiming"
  /\ \/ pc' = "assemble" /\ UNCHANGED <<journal, faults>>
     \/ \E c \in Call :
          \/ journal[c] = "none" /\ Record(c, "running") /\ pc' = "changing" /\ UNCHANGED faults
          \/ journal[c] = "none" /\ Fault /\ pc' = "erred" /\ UNCHANGED journal
          \/ journal[c] = "succeeded" /\ pc' = "assemble" /\ UNCHANGED <<journal, faults>>
  /\ UNCHANGED <<row, cp, aim, node, wc, files, hash, meter, ghost, env>>

ChangeFiles ==
  /\ pc = "changing"
  /\ \E c \in Call :
       /\ journal[c] = "running"
       /\ \/ SaveCode /\ Record(c, "succeeded") /\ pc' = "assemble" /\ UNCHANGED faults
          \/ Record(c, "uncertain") /\ pc' = "erred" /\ UNCHANGED <<files, made, faults>>
          \/ SaveCode /\ Fault /\ pc' = "erred" /\ UNCHANGED journal
  /\ UNCHANGED <<row, cp, aim, node, wc, hash, meter, approved, spent, accepted, env>>

-----------------------------------------------------------------------------
(* Safe points                                                             *)

NextNode ==
  CASE node = "router" -> "prompt_enhancer"
    [] node = "prompt_enhancer" -> "code_generator"
    [] node = "code_generator" -> "quality_check"
    [] node = "quality_check" -> "END"
Repairs == node = "quality_check" /\ wc.verdict # "valid" /\ wc.retry < MaxRetries

\* The node is done.  A repair is charged before it is part of the state.
PostHandler ==
  /\ pc = "point"
  /\ aim' = "point"
  /\ \/ /\ ~Repairs /\ pc' = "save"
        /\ wc' = [wc EXCEPT !.next = NextNode]
        /\ UNCHANGED <<cp, meter, faults>>
     \/ /\ Repairs
        /\ Consume(used.retries, Retries, [used EXCEPT !.retries = @ + 1], "save")
        /\ wc' = [wc EXCEPT !.next = "code_generator", !.retry = @ + 1]
  /\ UNCHANGED <<row, node, files, hash, journal, ghost, env>>

\* Instead of Carried: the approval stays behind.
CarriedNot == None
Carried == hash
Saved == [wc |-> wc, files |-> files, used |-> used, approved |-> Carried, build |-> build]
SafePoint ==
  /\ pc = "save"
  /\ \/ Within /\ cp' = Saved /\ pc' = "saved" /\ UNCHANGED <<aim, work, meter, faults>>
     \/ ~Within /\ Stop("failed") /\ UNCHANGED <<cp, faults>>
     \/ Fault /\ cp' \in {cp, Saved} /\ Stop("failed")
  /\ UNCHANGED <<row, ghost, env>>

\* The row is read after the checkpoint is written: a pause that came in the
\* meantime is seen.
AfterSave ==
  /\ pc = "saved"
  /\ \/ Gated(wc, hash) /\ Stop("awaiting_approval")
     \/ ~Gated(wc, hash) /\ (status = "pausing" \/ aim = "blocked") /\ Stop("paused")
     \/ /\ ~Gated(wc, hash) /\ status = "running" /\ aim # "blocked"
        /\ \/ aim = "commit" /\ Goto("asking", "answer") /\ UNCHANGED node
           \/ aim = "point" /\ wc.next = "END" /\ Goto("result", "none") /\ UNCHANGED node
           \/ aim = "point" /\ wc.next # "END" /\ Goto("node", "none") /\ node' = wc.next
        /\ UNCHANGED <<wc, files, hash, journal, meter>>
  /\ UNCHANGED <<row, cp, ghost, env, faults>>

\* The workflow is over; what it made is frozen, if it is any good.
Conclude ==
  /\ pc = "result"
  /\ \/ wc.verdict = "valid" /\ pc' = "done" /\ UNCHANGED <<aim, work, meter>>
     \/ wc.verdict # "valid" /\ Stop("failed")
  /\ UNCHANGED <<row, cp, ghost, env, faults>>

\* Validate and Complete; a pause that comes before Complete drops the result.
Publish ==
  /\ pc = "done"
  /\ \/ /\ Within /\ status = "running"
        /\ status' = "completed" /\ published' = files
        /\ Goto("idle", "none") /\ Forget
     \/ /\ Stop(IF Within THEN "paused" ELSE "failed")
        /\ Within => status = "pausing"
        /\ UNCHANGED row
  /\ UNCHANGED <<cp, ghost, env, faults>>

-----------------------------------------------------------------------------
(* What may happen at any time                                             *)

\* A call the attempt does not live to see may have cost what was reserved, or more.
Abandon ==
  \/ pc # "called" /\ UNCHANGED spent
  \/ pc = "called" /\ \E over \in 0 .. MaxOver : Billed(used.reserved, over, over)

\* The deadline, a cancellation or the loss of the lease ends the context.
Cut ==
  /\ pc \notin {"idle", "leaving"}
  /\ Fault /\ Abandon /\ Stop("failed")
  /\ UNCHANGED <<row, cp, approved, accepted, made, env>>

\* The server dies.  The next one, which may have other prompts, tools or
\* models, sweeps the row.
Crash ==
  /\ crashes < MaxCrashes /\ crashes' = crashes + 1
  /\ status \in Executing \cup Parked
  /\ status' = IF status \in Parked THEN status
               ELSE IF cp = None THEN "interrupted" ELSE "recoverable"
  /\ build' \in {build, build + 1}
  /\ Abandon /\ Goto("idle", "none") /\ Forget
  /\ UNCHANGED <<published, cp, approved, accepted, made, require, mode, faults>>

Control(s) == status' = s /\ UNCHANGED <<published, pc, aim, work, meter, spent, accepted, made, env, faults>>

Pause == status = "running" /\ Control("pausing") /\ UNCHANGED <<cp, approved>>
Resume == status \in {"paused", "recoverable"} /\ Control("pending") /\ UNCHANGED <<cp, approved>>

\* The user approves the plan of the checkpoint, and no other.
Approve ==
  /\ status = "awaiting_approval"
  /\ cp' = [cp EXCEPT !.approved = cp.wc.plan]
  /\ approved' = approved \cup {cp.wc.plan}
  /\ Control("pending")

-----------------------------------------------------------------------------
Work ==
  \/ BeginFresh \/ BeginAgain \/ EnterNode \/ Assemble \/ AskModel \/ FinishModel
  \/ RetryModel \/ Answered \/ Erred \/ UseTool \/ ClaimTool \/ ChangeFiles
  \/ PostHandler \/ SafePoint \/ AfterSave \/ Conclude \/ Publish \/ Leave

Next == Work \/ Start \/ Cut \/ Crash \/ Pause \/ Resume \/ Approve

Spec == Init /\ [][Next]_vars

-----------------------------------------------------------------------------
(* Properties                                                              *)

\* No code is generated under a plan the user has yet to approve, whatever
\* crashes, pauses and compactions came between plan and approval.
GateIsKept ==
  require /\ node = "code_generator" => wc.plan \in approved

\* The user is asked about a plan that is there, and never twice about the same.
AsksOnce ==
  status = "awaiting_approval" => cp.wc.plan \notin approved \cup {None}

\* The limits hold for the run, not for the attempt: all attempts together
\* make no more calls and are billed no more tokens, also by calls nobody saw
\* the end of.  Only the provider exceeds them: with the last bill, which stops
\* what follows, or with a bill of which the record knows the reservation alone.
SpendIsBounded ==
  /\ spent.calls <= ModelCalls
  /\ spent.tokens <= Tokens + spent.over + spent.unseen

\* What is published is, to the file, what the quality check found valid.
PublishedIsChecked == published \in accepted \cup {None}
=============================================================================
