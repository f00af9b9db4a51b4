------------------------------ MODULE ChatPage ------------------------------
(* The chat page of an application in graph mode, and POST /app/graph/runs.   *)
(*                                                                            *)
(* A page (ChatPage.tsx) sends a message by a POST that creates a run, and    *)
(* follows the run.  The POST may be lost on its way back, and the page may   *)
(* be reloaded with the POST still under way, so the page keeps the request's *)
(* id in sessionStorage, which outlives a reload, and repeats the POST with   *)
(* it.  The server creates at most one run for an id, and one at a time for   *)
(* an application.  Runs live by RunLifecycle, which TaskRuntime implements.  *)
(*                                                                            *)
(* A POST is under way at the server (post[n]) independently of the page that *)
(* sent it.  The buttons act on a status that may be out of date, so any of   *)
(* them may be pressed at any time.  What is displayed is left out.           *)
EXTENDS Naturals, FiniteSets, Sequences

CONSTANTS
  Page,      \* browser tabs, all of the owner of the application
  Text,      \* messages a user may type
  Nothing,
  MaxSends,  \* bound: messages sent by the user
  MaxLoads,  \* bound: times a page is loaded
  MaxPosts,  \* bound: POSTs under way at a time
  MaxRuns    \* bound: rows of agent_run

ASSUME PageConstants == {MaxSends, MaxLoads, MaxPosts, MaxRuns} \subseteq Nat \ {0}

VARIABLES
  status,    \* agent_run: the status of a run, "absent" until there is one
  request,   \* agent_run: its request_id, Nothing until there is one
  post,      \* the POSTs under way
  tab,       \* sessionStorage: the request that waits for its answer, and the run
  page,      \* the state of the page that is loaded
  ids,       \* request ids made so far
  sends,     \* messages the user has sent
  sendOf     \* history: per request id the message it was first made for

pageVars == <<status, request, post, tab, page, ids, sends, sendOf>>

Run == 1 .. MaxRuns
L == INSTANCE RunLifecycle WITH App <- {1}, AppOf <- [r \in Run |-> 1]

RequestId == 1 .. MaxRuns
Asked == [text : Text, id : RequestId]
FlowStep == {"none", "posting", "following"}

\* discovery: the requests of a page that has just been loaded.
\* send, watch: two flows of handleSendMessage may run, as approving or resuming
\* starts one without knowing of the other (bound: one of each kind).
Loaded ==
  [load : 1 .. MaxLoads, discovery : {"active", "post", "posting", "run", "done"},
   generating : BOOLEAN, restoring : BOOLEAN, send : FlowStep, watch : FlowStep]
Posted ==
  [by : Page, load : 1 .. MaxLoads, id : RequestId,
   step : {"auth", "limit", "app", "look", "active", "insert", "reply"}, run : Run \cup {Nothing}]

PageTypes ==
  /\ L!TypeOK
  /\ request \in [Run -> RequestId \cup {Nothing}]
  /\ post \in [1 .. MaxPosts -> Posted \cup {Nothing}]
  /\ tab \in [Page -> [pending : Asked \cup {Nothing}, run : Run \cup {Nothing}]]
  /\ page \in [Page -> Loaded]
  /\ ids \in 0 .. MaxRuns /\ sends \in 0 .. MaxSends
  /\ sendOf \in [RequestId -> 0 .. MaxSends]

Fresh(load) ==
  [load |-> load, discovery |-> "active", generating |-> FALSE, restoring |-> FALSE,
   send |-> "none", watch |-> "none"]

PageInit ==
  /\ status = [r \in Run |-> "absent"]
  /\ request = [r \in Run |-> Nothing]
  /\ post = [n \in 1 .. MaxPosts |-> Nothing]
  /\ tab = [p \in Page |-> [pending |-> Nothing, run |-> Nothing]]
  /\ page = [p \in Page |-> Fresh(1)]
  /\ ids = 0 /\ sends = 0
  /\ sendOf = [i \in RequestId |-> 0]

RunRows == <<status, request>>
Ids == <<ids, sends, sendOf>>

-----------------------------------------------------------------------------
(* Sending a message.                                                       *)

Free == {n \in 1 .. MaxPosts : post[n] = Nothing}

\* A POST with the id leaves the page p.
Post(p, id) ==
  /\ Free # {}
  /\ post' = [post EXCEPT ![CHOOSE n \in Free : \A m \in Free : n <= m] =
       [by |-> p, load |-> page[p].load, id |-> id, step |-> "auth", run |-> Nothing]]

\* generateCode: a message that still waits for its answer keeps its id.
IdFor(p, text) ==
  IF tab[p].pending # Nothing /\ tab[p].pending.text = text
  THEN tab[p].pending.id ELSE ids + 1

Send(p, text) ==
  LET id == IdFor(p, text)
  IN /\ page[p].discovery = "done"
     /\ ~page[p].generating /\ ~page[p].restoring /\ page[p].send = "none"
     /\ sends < MaxSends /\ id \in RequestId
     /\ sends' = sends + 1
     /\ ids' = IF id > ids THEN id ELSE ids
     /\ sendOf' = IF id > ids THEN [sendOf EXCEPT ![id] = sends'] ELSE sendOf
     /\ tab' = [tab EXCEPT ![p].pending = [text |-> text, id |-> id]]
     /\ page' = [page EXCEPT ![p].generating = TRUE, ![p].send = "posting"]
     /\ Post(p, id)
     /\ UNCHANGED RunRows

-----------------------------------------------------------------------------
(* The server: StartGraphRun and CreateRun.                                 *)

RunOf(id) == {r \in Run : request[r] = id}
Unfinished == {r \in Run : L!Reserves(r)}

To(n, step, run) == post' = [post EXCEPT ![n].step = step, ![n].run = run]
Handled(n) == UNCHANGED <<RunRows, Ids, tab, page>>

PostAt(n, step) == post[n] # Nothing /\ post[n].step = step

\* What comes before CreateRun lets the request pass, or refuses it.
Pass(n, step) == To(n, step, Nothing) /\ Handled(n)

FoundRun(n) == \E r \in RunOf(post[n].id) : To(n, "reply", r)

\* The run of the request, then the one that is unfinished, are looked for.
LookForRequest(n) ==
  /\ PostAt(n, "look")
  /\ IF RunOf(post[n].id) # {} THEN FoundRun(n) ELSE To(n, "active", Nothing)
  /\ Handled(n)

LookForActive(n) ==
  /\ PostAt(n, "active")
  /\ IF Unfinished = {} THEN To(n, "insert", Nothing)
     ELSE IF RunOf(post[n].id) \cap Unfinished # {} THEN FoundRun(n)
     ELSE To(n, "reply", Nothing)
  /\ Handled(n)

\* The two unique keys of the table.
KeysAreFree(id) == RunOf(id) = {} /\ Unfinished = {}

\* The row is inserted unless a key is taken, by the request or by another run.
CreateRun(n) ==
  /\ PostAt(n, "insert")
  /\ IF KeysAreFree(post[n].id)
     THEN \E r \in Run :
            /\ \A q \in Run : status[q] = "absent" => r <= q
            /\ L!Admit(r)
            /\ request' = [request EXCEPT ![r] = post[n].id]
            /\ To(n, "reply", r)
     ELSE /\ IF RunOf(post[n].id) # {} THEN FoundRun(n) ELSE To(n, "reply", Nothing)
          /\ UNCHANGED RunRows
  /\ UNCHANGED <<Ids, tab, page>>

-----------------------------------------------------------------------------
(* The answer.                                                              *)

\* A page that was loaded since does not wait for it any more.
Awaited(n) == post[n].load = page[post[n].by].load

\* The request is done with, and its run is the one to follow.
Created(p, r) == tab' = [tab EXCEPT ![p] = [pending |-> Nothing, run |-> r]]

\* handleSendMessage ends; each flow says that nothing is generated any more.
EndOf(p, flow) == [page[p] EXCEPT ![flow] = "none", !.generating = FALSE]

Watch(p) == [page[p] EXCEPT !.generating = TRUE, !.watch = "following"]

\* The answer reaches the page, or is lost and the page sees an error.  What a
\* refused request leaves behind is still pending.
PostIsAnswered(n, arrives) ==
  LET p == post[n].by
      r == IF arrives THEN post[n].run ELSE Nothing
      discovering == page[p].discovery = "posting"
  IN /\ PostAt(n, "reply")
     /\ post' = [post EXCEPT ![n] = Nothing]
     /\ IF ~Awaited(n) THEN UNCHANGED <<tab, page>>
        ELSE IF r = Nothing
        THEN /\ page' = [page EXCEPT ![p] =
                  IF discovering THEN [@ EXCEPT !.discovery = "done"]
                  ELSE EndOf(p, "send")]
             /\ UNCHANGED tab
        ELSE /\ page' = [page EXCEPT ![p] =
                  IF discovering THEN [Watch(p) EXCEPT !.discovery = "done"]
                  ELSE [@ EXCEPT !.send = "following"]]
             /\ Created(p, r)
     /\ UNCHANGED <<RunRows, Ids>>

-----------------------------------------------------------------------------
(* Following a run, and the buttons.                                        *)

\* The stream of RunStream ends: the run is over or parked, or the page has given
\* up.
FlowEnds(p, flow) ==
  /\ page[p][flow] = "following"
  /\ page' = [page EXCEPT ![p] = EndOf(p, flow)]
  /\ UNCHANGED <<RunRows, Ids, post, tab>>

\* controlRun; the server does what the status of the run allows.  Approving
\* and resuming starts another flow if none ran when the button was pressed,
\* which may have changed since.
Control(p, action) ==
  LET r == tab[p].run
  IN /\ r # Nothing
     /\ CASE action = "pause" -> L!AskPause(r)
          [] action = "cancel" -> L!AskCancel(r) \/ (L!Abort(r) /\ status'[r] = "canceled")
          [] action = "resume" -> L!Resume(r)
     /\ \/ UNCHANGED page
        \/ /\ action = "resume" /\ page[p].watch = "none"
           /\ page' = [page EXCEPT ![p] = Watch(p)]
     /\ UNCHANGED <<request, Ids, post, tab>>

\* An older version is restored (ExecutionLease): meanwhile nothing is sent.
RestoreVersion(p, begins) ==
  /\ page[p].restoring = ~begins
  /\ begins => page[p].discovery = "done" /\ ~page[p].generating /\ Unfinished = {}
  /\ page' = [page EXCEPT ![p].restoring = begins]
  /\ UNCHANGED <<RunRows, Ids, post, tab>>

\* The task runtime; one run at most is unfinished when it is interrupted.
RunMoves(r) ==
  /\ \/ L!Start(r) \/ L!Park(r) \/ L!Complete(r) \/ L!Abort(r)
     \/ \E s \in L!Interrupted(status[r]) : L!Become(r, s)
  /\ UNCHANGED <<request, Ids, post, tab, page>>

-----------------------------------------------------------------------------
(* Loading the page.                                                        *)

\* What is in sessionStorage stays, and so does what is under way at the server.
Reload(p) ==
  /\ page[p].load < MaxLoads
  /\ page' = [page EXCEPT ![p] = Fresh(@.load + 1)]
  /\ UNCHANGED <<RunRows, Ids, post, tab>>

\* The unfinished run is asked for, which may fail.
DiscoverActive(p) ==
  /\ page[p].discovery = "active"
  /\ \/ \E r \in Unfinished :
          /\ page' = [page EXCEPT ![p] = [Watch(p) EXCEPT !.discovery = "done"]]
          /\ tab' = [tab EXCEPT ![p].run = r]
     \/ /\ Unfinished = {}
        /\ page' = [page EXCEPT ![p].discovery =
                      IF tab[p].pending # Nothing THEN "post" ELSE "run"]
        /\ UNCHANGED tab
     \/ page' = [page EXCEPT ![p].discovery = "done"] /\ UNCHANGED tab
  /\ UNCHANGED <<RunRows, Ids, post>>

\* Instead of IdOfPending: a request that is repeated gets a new id.
AnotherId(p) == ids + 1

IdOfPending(p) == tab[p].pending.id

\* A request that still waits for its answer is repeated under its id.
Repeat(p) ==
  LET id == IdOfPending(p)
  IN /\ page[p].discovery = "post" /\ id \in RequestId
     /\ page' = [page EXCEPT ![p].discovery = "posting"]
     /\ ids' = IF id > ids THEN id ELSE ids
     /\ sendOf' = [sendOf EXCEPT ![id] = sendOf[tab[p].pending.id]]
     /\ Post(p, id)
     /\ UNCHANGED <<RunRows, tab, sends>>

\* Else the run the page followed last is shown again.
DiscoverRun(p) ==
  /\ page[p].discovery = "run"
  /\ page' = [page EXCEPT ![p] =
       [IF tab[p].run # Nothing THEN Watch(p) ELSE @ EXCEPT !.discovery = "done"]]
  /\ UNCHANGED <<RunRows, Ids, post, tab>>

PageStep(p) ==
  \/ \E text \in Text : Send(p, text)
  \/ DiscoverActive(p) \/ Repeat(p) \/ DiscoverRun(p) \/ Reload(p)
  \/ \E flow \in {"send", "watch"} : FlowEnds(p, flow)
  \/ \E action \in {"pause", "cancel", "resume"} : Control(p, action)
  \/ \E begins \in BOOLEAN : RestoreVersion(p, begins)

ServerStep(n) ==
  \/ LookForRequest(n) \/ LookForActive(n) \/ CreateRun(n)
  \/ \E arrives \in BOOLEAN : PostIsAnswered(n, arrives)

-----------------------------------------------------------------------------
\* A message the user has sent leads to one run at most, however often its
\* request is repeated because an answer was lost or the page loaded again
\* (request_id, and the pending request in sessionStorage).
OneRunPerSend ==
  \A r, q \in Run :
    r # q /\ request[r] # Nothing /\ request[q] # Nothing
      => sendOf[request[r]] # sendOf[request[q]]

=============================================================================
