----------------------------- MODULE ChatMemory -----------------------------
(* The conversation of one application: its messages and summaries in MySQL, *)
(* the usage and the running flag of a summary in one Redis hash, and the    *)
(* actors that work on them: requests that talk to a model, summaries, and   *)
(* the user who deletes the application.  Requests and summaries hold the    *)
(* lease of the application, which ExecutionLease models; here one of them   *)
(* may lose it and go on until its context is cancelled.                     *)
(*                                                                           *)
(* A message is its number in turns, the sequence of the turns of messages;  *)
(* what a model writes about messages is the set of those it was given.  The *)
(* Redis list of recent messages is written and never read by the program,   *)
(* so it is left out; the cached page of the history is in Apps.             *)
EXTENDS Naturals, Sequences, FiniteSets

CONSTANTS
  Talker,       \* requests at work: a chat with the agent or a generation
                \* (a run of the task runtime, or a request that is a stream)
  Summariser,   \* goroutines of generateSummary
  None,
  MinRecords,   \* 4: fewer messages are never summarised
  Need,         \* 16: as many messages always are
  Keep,         \* 12: what a summary leaves as it is
  KeepLarge,    \* 2: the same, when the messages are long
  MaxUncovered, \* 1000: more messages without a summary are refused
  MaxMessages,  \* bound: messages said, calls counted before a run is resumed
  MaxFaults     \* bound: lost leases, crashes, cancelled requests, and statements
                \* that fail and are not noticed

Actor == Talker \cup Summariser

ASSUME ChatConstants ==
  /\ {MinRecords, Need, Keep, KeepLarge, MaxUncovered} \subseteq Nat \ {0}
  /\ {MaxMessages, MaxFaults} \subseteq Nat
  /\ None \notin Actor \cup Nat
  /\ Talker \cap Summariser = {}

VARIABLES
  alive,    \* app.isDelete = 0
  turns,    \* chat_history: the turn of every user and AI message
  sums,     \* chat_history: the summaries, the last turn and messages of each
  dbTokens, \* app.tokenUsage
  meta,     \* the hash memory:<app>:meta; Blank when it does not exist
  holder,   \* who holds the lease of the application
  live,     \* is the context of an actor not cancelled?
  pc,
  prev,     \* the summary an actor has read
  draft,    \* the summary a summariser is about to save
  own,      \* an actor's copy of the hash
  hash,     \* the copy of SetSummary
  prompt,   \* the messages a talker gives to the model
  adrift,   \* history: since Redis last forgot the usage, has a lease been lost,
            \* or a run been resumed with no usage in Redis?
  faults

chat == <<alive, turns, sums, dbTokens>>
local == <<prev, draft, own, hash, prompt>>
vars == <<chat, meta, holder, live, pc, local, adrift, faults>>

Blank == [tokens |-> 0, on |-> FALSE, owner |-> None]
NoSummary == [turn |-> 0, covers |-> {}]
TalkPcs == {"idle", "say", "restore", "readApp", "writeUsage", "summary",
            "records", "model", "count", "answer", "leave", "release", "check"}
SumPcs == {"idle", "acquire", "readMeta", "mark", "summary", "records", "insert",
           "usage", "usageDb", "writeMeta", "readHash", "writeHash",
           "unmark", "owner", "release"}
Summary == [turn : Nat, covers : SUBSET Nat]
Metadata == [tokens : Nat, on : BOOLEAN, owner : Summariser \cup {None}]

\* The type invariant: the rows, the hash and the locals of every actor of the
\* chat history service stay well formed.
TypeOK ==
  /\ alive \in BOOLEAN
  /\ turns \in Seq(Nat)
  /\ sums \in Seq(Summary)
  /\ dbTokens \in Nat
  /\ meta \in Metadata
  /\ holder \in Actor \cup {None}
  /\ live \in [Actor -> BOOLEAN]
  /\ pc \in [Actor -> TalkPcs \cup SumPcs]
  /\ prev \in [Actor -> Summary]
  /\ draft \in [Summariser -> Summary]
  /\ own \in [Actor -> Metadata] /\ hash \in [Summariser -> Metadata]
  /\ prompt \in [Talker -> SUBSET Nat]
  /\ adrift \in BOOLEAN /\ faults \in Nat

Init ==
  /\ alive = TRUE /\ turns = <<>> /\ sums = <<>> /\ dbTokens = 0
  /\ meta = Blank /\ holder = None
  /\ live = [a \in Actor |-> TRUE]
  /\ pc = [a \in Actor |-> "idle"]
  /\ prev = [a \in Actor |-> NoSummary]
  /\ draft = [s \in Summariser |-> NoSummary]
  /\ own = [a \in Actor |-> Blank] /\ hash = [s \in Summariser |-> Blank]
  /\ prompt = [t \in Talker |-> {}]
  /\ adrift = FALSE /\ faults = 0

Goto(a, step) == pc' = [pc EXCEPT ![a] = step]

Fault == faults < MaxFaults /\ faults' = faults + 1

\* A statement whose failure is ignored.
Tried(statement, without) ==
  \/ statement /\ UNCHANGED faults
  \/ without /\ Fault

------------------------------------------------------------------------------
(* What the rows say                                                       *)

\* The greatest turn of a live row; a summary has the last turn it covers.
LastTurn ==
  LET used == {turns[i] : i \in DOMAIN turns} \cup {sums[i].turn : i \in DOMAIN sums}
  IN IF used = {} THEN 0 ELSE CHOOSE n \in used : \A m \in used : m <= n

\* AddChatMessage inserts a message under the lock of the row of the application.
AddChatMessage(byUser) ==
  turns' = Append(turns, IF byUser THEN LastTurn + 1 ELSE LastTurn)

Newest == IF sums = <<>> THEN NoSummary ELSE sums[Len(sums)]

\* The turn after the last one of a summary is passed over.
UncoveredAfterNext(s) == {i \in DOMAIN turns : turns[i] > s.turn + 1}

\* loadUncoveredConversation: the messages after the last turn of a summary.
Uncovered(s) == {i \in DOMAIN turns : turns[i] > s.turn}

TooLong(records) == Cardinality(records) > MaxUncovered

\* needsConversationSummary; large stands for contextmgr.Estimate.
NeedsSummary(records, large) ==
  /\ Cardinality(records) >= MinRecords
  /\ Cardinality(records) >= Need \/ large

\* conversationSummaryCutoff: the turns before the first of the kept messages.
Kept(records, keep) == {i \in records : Cardinality({j \in records : j >= i}) <= keep}
FirstKept(records, keep) == CHOOSE i \in Kept(records, keep) :
                              \A j \in Kept(records, keep) : i <= j
\* The turn of the first kept message counts as covered.
CuttableInclusive(records, keep) ==
  {turns[i] : i \in {j \in records \ Kept(records, keep) :
                       turns[j] <= turns[FirstKept(records, keep)]}}

Cuttable(records, keep) ==
  {turns[i] : i \in {j \in records \ Kept(records, keep) :
                       turns[j] < turns[FirstKept(records, keep)]}}
Cutoff(records, keep) ==
  CHOOSE n \in Cuttable(records, keep) : \A m \in Cuttable(records, keep) : m <= n

------------------------------------------------------------------------------
(* A request                                                               *)

\* ChatWithAgent, GraphToGenCode: look for the application and
\* take its lease; whoever finds it taken is refused.
Begin(t) ==
  /\ pc[t] = "idle" /\ alive /\ holder = None
  /\ Len(turns) < MaxMessages
  /\ holder' = t
  /\ Goto(t, "say")
  /\ UNCHANGED <<chat, meta, live, local, faults>>

\* chatWithAgent, graphToGenCode: the user's message, then the conversation; the
\* request fails when the application is gone.
Say(t) ==
  /\ pc[t] = "say" /\ live[t]
  /\ \/ alive /\ AddChatMessage(TRUE) /\ Goto(t, "restore")
     \/ ~alive /\ UNCHANGED turns /\ Goto(t, "leave")
  /\ UNCHANGED <<alive, sums, dbTokens, meta, holder, live, local, faults>>

\* execute, resumed: a run that goes on from its checkpoint takes the lease and
\* says and reads nothing; its message is older than the checkpoint.
Resume(t) ==
  /\ pc[t] = "idle" /\ alive /\ holder = None
  /\ turns # <<>> /\ Len(turns) < MaxMessages /\ dbTokens < MaxMessages
  /\ holder' = t
  /\ adrift' = (adrift \/ (meta = Blank /\ dbTokens > 0))
  /\ Goto(t, "model")
  /\ UNCHANGED <<chat, meta, live, local, faults>>

\* restoreTotalTokenUsage: usage that Redis has forgotten comes from MySQL.
RestoreUsage(t) ==
  /\ pc[t] = "restore" /\ live[t]
  /\ own' = [own EXCEPT ![t] = IF meta.tokens > 0 THEN @ ELSE meta]
  /\ Goto(t, IF meta.tokens > 0 THEN "summary" ELSE "readApp")
  /\ UNCHANGED <<chat, meta, holder, live, prev, draft, hash, prompt, faults>>

ReadApp(t) ==
  /\ pc[t] = "readApp" /\ live[t]
  /\ own' = [own EXCEPT ![t].tokens = dbTokens]
  /\ Goto(t, IF ~alive THEN "leave" ELSE IF dbTokens = 0 THEN "summary" ELSE "writeUsage")
  /\ UNCHANGED <<chat, meta, holder, live, prev, draft, hash, prompt, faults>>

\* SetMetadata writes every field of the hash.
WriteUsage(t) ==
  /\ pc[t] = "writeUsage" /\ live[t]
  /\ meta' = own[t]
  /\ own' = [own EXCEPT ![t] = Blank]
  /\ Goto(t, "summary")
  /\ UNCHANGED <<chat, holder, live, prev, draft, hash, prompt, faults>>

\* loadUncoveredConversation is two reads.
ReadSummary(a) ==
  /\ pc[a] = "summary" /\ live[a]
  /\ prev' = [prev EXCEPT ![a] = Newest]
  /\ Goto(a, "records")
  /\ UNCHANGED <<chat, meta, holder, live, draft, own, hash, prompt, faults>>

\* A conversation that is too long is cut to its last messages.
LoadPromptTail(t) ==
  /\ pc[t] = "records" /\ live[t]
  /\ Goto(t, "model")
  /\ prompt' = [prompt EXCEPT ![t] = prev[t].covers \cup
                  Kept(Uncovered(prev[t]), MaxUncovered)]
  /\ prev' = [prev EXCEPT ![t] = NoSummary]
  /\ UNCHANGED <<chat, meta, holder, live, draft, own, hash, faults>>

\* EnsureMemoryLoaded: the summary and everything it does not cover.
LoadPrompt(t) ==
  /\ pc[t] = "records" /\ live[t]
  /\ LET records == Uncovered(prev[t])
     IN IF TooLong(records)
        THEN Goto(t, "leave") /\ UNCHANGED prompt
        ELSE Goto(t, "model")
             /\ prompt' = [prompt EXCEPT ![t] = prev[t].covers \cup records]
  /\ prev' = [prev EXCEPT ![t] = NoSummary]
  /\ UNCHANGED <<chat, meta, holder, live, draft, own, hash, faults>>

CountInRow == dbTokens' = IF alive THEN dbTokens + 1 ELSE dbTokens
CountInHash == meta' = [meta EXCEPT !.tokens = @ + 1]

\* A model call: RecordTokenUsage counts it in the row of the application first;
\* it goes on when it cannot.
CallModel(t) ==
  /\ pc[t] = "model" /\ live[t]
  /\ prompt' = [prompt EXCEPT ![t] = {}]
  /\ Tried(CountInRow, UNCHANGED dbTokens)
  /\ Goto(t, "count")
  /\ UNCHANGED <<alive, turns, sums, meta, holder, live, prev, draft, own, hash>>

\* AddTokenUsage increments a field, if it can; an absent hash starts at zero.
CountUsage(t) ==
  /\ pc[t] = "count" /\ live[t]
  /\ Tried(CountInHash, UNCHANGED meta)
  /\ Goto(t, "answer")
  /\ UNCHANGED <<chat, holder, live, local>>

\* The answer is saved when the stream has ended; that it cannot be is ignored.
Answer(t) ==
  /\ pc[t] = "answer" /\ live[t]
  /\ \/ alive /\ AddChatMessage(FALSE) /\ Goto(t, "release")
     \/ ~alive /\ UNCHANGED turns /\ Goto(t, "release")
  /\ UNCHANGED <<alive, sums, dbTokens, meta, holder, live, local, faults>>

\* An error of the model or of a statement, or a cancelled context, ends the
\* request; its answer, if any, is not saved.  A run that fails, and a request
\* that fails before its stream has begun, leave without a look at the summary.
TalkFails(t) ==
  /\ pc[t] \in TalkPcs \ {"idle", "leave", "release", "check"}
  /\ pc[t] # "count" \/ ~live[t]
  /\ prompt' = [prompt EXCEPT ![t] = {}]
  /\ \/ Goto(t, "leave")
     \/ pc[t] \in {"model", "count", "answer"} /\ Goto(t, "release")
  /\ UNCHANGED <<chat, meta, holder, live, prev, draft, own, hash, faults>>

ReleaseLease(a) ==
  /\ pc[a] \in {"leave", "release"}
  /\ holder' = IF holder = a THEN None ELSE holder
  /\ prev' = [prev EXCEPT ![a] = NoSummary]
  /\ own' = [own EXCEPT ![a] = Blank]
  /\ draft' = [s \in Summariser |-> IF s = a THEN NoSummary ELSE draft[s]]
  /\ hash' = [s \in Summariser |-> IF s = a THEN Blank ELSE hash[s]]
  /\ live' = [live EXCEPT ![a] = TRUE]
  /\ Goto(a, IF a \in Talker /\ pc[a] = "release" THEN "check" ELSE "idle")
  /\ UNCHANGED <<chat, meta, prompt, faults>>

\* MaybeGenerateSummary starts a goroutine when there is enough to summarise.
MaybeSummarise(t) ==
  /\ pc[t] = "check"
  /\ \E large \in BOOLEAN :
       LET records == Uncovered(Newest)
           free == {s \in Summariser : pc[s] = "idle"}
       IN IF ~TooLong(records) /\ NeedsSummary(records, large) /\ free # {}
          THEN \E s \in free : pc' = [pc EXCEPT ![t] = "idle", ![s] = "acquire"]
          ELSE Goto(t, "idle")
  /\ UNCHANGED <<chat, meta, holder, live, local, faults>>

------------------------------------------------------------------------------
(* generateSummary                                                         *)

\* A summary that finds the lease taken is given up.
AcquireLease(s) ==
  /\ pc[s] = "acquire"
  /\ IF holder = None
     THEN holder' = s /\ Goto(s, "readMeta")
     ELSE UNCHANGED holder /\ Goto(s, "idle")
  /\ UNCHANGED <<chat, meta, live, local, faults>>

\* It reads the hash and writes it back with itself as the owner.
ReadMeta(s) ==
  /\ pc[s] = "readMeta" /\ live[s]
  /\ own' = [own EXCEPT ![s] = [meta EXCEPT !.on = TRUE, !.owner = s]]
  /\ Goto(s, "mark")
  /\ UNCHANGED <<chat, meta, holder, live, prev, draft, hash, prompt, faults>>

\* When the answer is lost, the deferred calls are not registered yet.
Mark(s) ==
  /\ pc[s] = "mark" /\ live[s]
  /\ meta' = own[s]
  /\ Goto(s, "summary") \/ Goto(s, "release")
  /\ UNCHANGED <<chat, holder, live, local, faults>>

\* It chooses what to cover.  Summarising it in batches may fail at any of them.
Summarise(s) ==
  /\ pc[s] = "records" /\ live[s]
  /\ \E large \in BOOLEAN :
       LET records == Uncovered(prev[s])
           keep == IF large THEN KeepLarge ELSE Keep
           covered(turn) == {i \in records : turns[i] <= turn}
       IN /\ ~TooLong(records) /\ NeedsSummary(records, large)
          /\ Cuttable(records, keep) # {}
          /\ draft' = [draft EXCEPT ![s] =
                         [turn |-> Cutoff(records, keep),
                          covers |-> prev[s].covers \cup covered(Cutoff(records, keep))]]
  /\ prev' = [prev EXCEPT ![s] = NoSummary]
  /\ Goto(s, "insert")
  /\ UNCHANGED <<chat, meta, holder, live, own, hash, prompt, faults>>

\* The summary is inserted whether or not the application still exists.
InsertSummary(s) ==
  /\ pc[s] = "insert" /\ live[s]
  /\ sums' = Append(sums, draft[s])
  /\ draft' = [draft EXCEPT ![s] = NoSummary]
  /\ Goto(s, "usage")
  /\ UNCHANGED <<alive, turns, dbTokens, meta, holder, live, prev, own, hash, prompt,
                 faults>>

\* The usage of the summary is missing in the copy that is written back.
AddUsageOnce(s) ==
  /\ pc[s] = "usage" /\ live[s]
  /\ Tried(CountInHash, UNCHANGED meta)
  /\ Goto(s, "usageDb")
  /\ UNCHANGED <<chat, holder, live, local>>

\* Its usage is counted in its copy and, if possible, in Redis and in MySQL.
AddUsage(s) ==
  /\ pc[s] = "usage" /\ live[s]
  /\ own' = [own EXCEPT ![s].tokens = @ + 1]
  /\ Tried(CountInHash, UNCHANGED meta)
  /\ Goto(s, "usageDb")
  /\ UNCHANGED <<chat, holder, live, prev, draft, hash, prompt>>

AddUsageDb(s) ==
  /\ pc[s] = "usageDb" /\ live[s]
  /\ Tried(CountInRow, UNCHANGED dbTokens)
  /\ Goto(s, "writeMeta")
  /\ UNCHANGED <<alive, turns, sums, meta, holder, live, local>>

\* SetMetadata with the copy of its start and its own usage.
WriteMeta(s) ==
  /\ pc[s] = "writeMeta" /\ live[s]
  /\ meta' = own[s]
  /\ Goto(s, "readHash")
  /\ UNCHANGED <<chat, holder, live, local, faults>>

\* LoadChatHistoryToMemory: SetSummary reads and rewrites the whole hash
\* (twice in a row; the second time is as the first).
ReadHash(s) ==
  /\ pc[s] = "readHash" /\ live[s]
  /\ hash' = [hash EXCEPT ![s] = meta]
  /\ Goto(s, "writeHash")
  /\ UNCHANGED <<chat, meta, holder, live, prev, draft, own, prompt, faults>>

WriteHash(s) ==
  /\ pc[s] = "writeHash" /\ live[s]
  /\ meta' = hash[s]
  /\ hash' = [hash EXCEPT ![s] = Blank]
  /\ Goto(s, "unmark")
  /\ UNCHANGED <<chat, holder, live, prev, draft, own, prompt, faults>>

\* Nothing to summarise, an error, or a cancelled context: the deferred calls.
\* An insert whose answer is lost counts no usage.
SummaryFails(s) ==
  /\ pc[s] \in SumPcs \ {"idle", "acquire", "unmark", "owner", "release"}
  /\ pc[s] = "usageDb" => ~live[s]
  /\ prev' = [prev EXCEPT ![s] = NoSummary]
  /\ draft' = [draft EXCEPT ![s] = NoSummary]
  /\ hash' = [hash EXCEPT ![s] = Blank]
  /\ Goto(s, IF pc[s] \in {"readMeta", "mark"} THEN "release" ELSE "unmark")
  /\ UNCHANGED <<chat, meta, holder, live, own, prompt, faults>>

\* The first of them is skipped when the context is cancelled; it writes the
\* copy back without looking at the owner.
Unmark(s) ==
  /\ pc[s] = "unmark"
  /\ meta' = IF live[s] THEN [own[s] EXCEPT !.on = FALSE] ELSE meta
  /\ own' = [own EXCEPT ![s] = Blank]
  /\ Goto(s, "owner")
  /\ UNCHANGED <<chat, holder, live, prev, draft, hash, prompt, faults>>

\* The owner is forgotten as an empty field.
ClearSummaryOwnerBlank(s) ==
  /\ pc[s] = "owner"
  /\ meta' = IF meta.owner = s THEN [on |-> FALSE, tokens |-> meta.tokens] ELSE meta
  /\ Goto(s, "release")
  /\ UNCHANGED <<chat, holder, live, local, faults>>

\* ClearSummaryOwner, one script with a context of its own.
ClearSummaryOwner(s) ==
  /\ pc[s] = "owner"
  /\ meta' = IF meta.owner = s THEN [meta EXCEPT !.on = FALSE, !.owner = None] ELSE meta
  /\ Goto(s, "release")
  /\ UNCHANGED <<chat, holder, live, local, faults>>

------------------------------------------------------------------------------
(* Readers, the owner of the application, and the world                    *)

\* DeleteApp, AdminDeleteApp: one transaction for the application and its rows.
DeleteApp ==
  /\ alive
  /\ alive' = FALSE /\ turns' = <<>> /\ sums' = <<>>
  /\ UNCHANGED <<dbTokens, meta, holder, live, pc, local, adrift, faults>>

\* Redis forgets the hash a day after it was last written, as a matter of
\* course: nobody has been at work for that long.
Expire ==
  /\ \A a \in Actor : pc[a] = "idle"
  /\ meta # Blank /\ meta' = Blank
  /\ adrift' = FALSE
  /\ UNCHANGED <<chat, holder, live, pc, local, faults>>

\* The lease of an actor that is stalled expires.
LoseLease ==
  /\ Fault /\ holder # None
  /\ holder' = None
  /\ adrift' = TRUE
  /\ UNCHANGED <<chat, meta, live, pc, local>>

\* Its context is cancelled when a renewal fails.  The context of a request is
\* also cancelled when its browser goes away, or its run is cancelled.
CancelContext(a) ==
  /\ live[a] /\ pc[a] \notin {"idle", "acquire", "check", "leave", "release"}
  /\ \/ holder # a /\ UNCHANGED faults
     \/ holder = a /\ a \in Talker /\ Fault
  /\ live' = [live EXCEPT ![a] = FALSE]
  /\ UNCHANGED <<chat, meta, holder, pc, local, adrift>>

\* The server dies; its lease expires before another request of anyone.
Crash ==
  /\ Fault
  /\ pc' = [a \in Actor |-> "idle"]
  /\ prev' = [a \in Actor |-> NoSummary] /\ own' = [a \in Actor |-> Blank]
  /\ draft' = [s \in Summariser |-> NoSummary] /\ hash' = [s \in Summariser |-> Blank]
  /\ prompt' = [t \in Talker |-> {}]
  /\ holder' = None /\ live' = [a \in Actor |-> TRUE]
  /\ UNCHANGED <<chat, meta, adrift>>

TalkStep(t) ==
  \/ Resume(t)
  \/ /\ UNCHANGED adrift
     /\ \/ Begin(t) \/ Say(t) \/ RestoreUsage(t) \/ ReadApp(t) \/ WriteUsage(t)
        \/ ReadSummary(t) \/ LoadPrompt(t) \/ CallModel(t) \/ CountUsage(t)
        \/ Answer(t) \/ TalkFails(t) \/ ReleaseLease(t) \/ MaybeSummarise(t)

SummaryStep(s) ==
  /\ UNCHANGED adrift
  /\ \/ AcquireLease(s) \/ ReadMeta(s) \/ Mark(s) \/ ReadSummary(s) \/ Summarise(s)
     \/ InsertSummary(s) \/ AddUsage(s) \/ AddUsageDb(s) \/ WriteMeta(s)
     \/ ReadHash(s) \/ WriteHash(s) \/ SummaryFails(s) \/ Unmark(s)
     \/ ClearSummaryOwner(s) \/ ReleaseLease(s)

Next ==
  \/ \E t \in Talker : TalkStep(t)
  \/ \E s \in Summariser : SummaryStep(s)
  \/ \E a \in Actor : CancelContext(a)
  \/ DeleteApp \/ Expire \/ LoseLease \/ Crash

Spec == Init /\ [][Next]_vars

\* Every request and summary goes on; nobody need ask anything of the server
\* again, but a user who waits for an answer does.
Fairness ==
  /\ \A t \in Talker : WF_vars(TalkStep(t))
  /\ \A s \in Summariser : WF_vars(SummaryStep(s)) /\ SF_vars(Summarise(s) /\ UNCHANGED adrift)

FairSpec == Spec /\ Fairness

------------------------------------------------------------------------------
(* Properties                                                              *)

\* What a summary that is read, written or being written covers is the whole
\* conversation up to its turn, whoever else speaks in the meantime: its turn
\* never splits a turn that can still grow (conversationSummaryCutoff).
Complete(s) == \A i \in DOMAIN turns : turns[i] <= s.turn => i \in s.covers
CoverageComplete ==
  /\ \A i \in DOMAIN sums : Complete(sums[i])
  /\ \A s \in Summariser : Complete(draft[s])

\* The model is given every message of the conversation, verbatim or through the
\* summary, whatever Redis has forgotten and whichever summary was saved while
\* the request was reading (loadUncoveredConversation, two reads).
PromptComplete ==
  [][\A t \in Talker : pc[t] = "records" /\ pc'[t] = "model"
       => DOMAIN turns \subseteq prompt'[t]]_vars

\* The page of an application (enrichAppMemory) shows the usage in MySQL, but for
\* one count at most for each failure: a crash, a context that is cancelled (its
\* browser has gone) between the two counts, or a count of MySQL or Redis that
\* fails.  That Redis forgets the hash makes no difference, nor that a summary
\* writes a whole copy of it back, for the lease keeps all others from counting
\* in between.  Nothing is said (adrift) once a lease was lost or a run was
\* resumed with no usage in Redis, until Redis forgets the hash.
ShownTokens == IF meta.tokens = 0 THEN dbTokens ELSE meta.tokens
Counting == \E a \in Actor : pc[a] \in {"count", "usageDb"}
UsageAgrees ==
  ~adrift /\ alive /\ ~Counting
    => ShownTokens <= dbTokens + faults /\ dbTokens <= ShownTokens + faults

\* "summary failures must not block chat or code generation"
\* (AGENT_MEMORY_SYSTEM_PLAN.md:52): a conversation that has become too long to
\* be read is read again, or deleted.
FailuresDoNotBlock == TooLong(Uncovered(Newest)) ~> ~TooLong(Uncovered(Newest))

=============================================================================
