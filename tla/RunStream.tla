------------------------------ MODULE RunStream ------------------------------
(***************************************************************************)
(* How the browser follows a run: the rows of run_event, the notification  *)
(* hub of each server process (core/task/hub.go), the subscriptions that   *)
(* turn rows into server-sent events (manager.go, app_handler.go), the     *)
(* connections in between, and the client that reconnects                  *)
(* (frontend/src/api/run-stream.ts).                                       *)
(*                                                                         *)
(* The database owns the history.  A notification carries nothing: it      *)
(* makes a subscription look again.  It comes from the process that        *)
(* committed an event or from the one that drains the outbox, and a        *)
(* subscription elsewhere looks again with each heartbeat.  A connection   *)
(* may be cut at any moment with frames in flight; the client asks for     *)
(* what follows the last event it showed, and asks for the state of the    *)
(* run before it believes that a stream that ended has said everything.    *)
(*                                                                         *)
(* An event is its sequence and whether it ends the run ("done"), parks it *)
(* ("suspended") or neither ("work").                                      *)
(*                                                                         *)
(* A definition that stands "instead of" the next one is a mistake the     *)
(* code does not make: no action uses it, and each property is known to    *)
(* fail when one takes its place.                                          *)
(***************************************************************************)
EXTENDS Naturals, Sequences

CONSTANTS
  Page,        \* the pages that follow the run
  Proc,        \* the server processes
  Drainer,     \* the process that holds the runtime lock and drains the outbox
  Conn,        \* bound: the connections that may exist at the same time
  None,        \* no connection
  MaxRetries,  \* reconnections in a row without a new event (10 in the code)
  MaxLog,      \* bound: no work and no suspension beyond this sequence
  MaxFaults    \* bound: failed reads, refused and cut connections

ASSUME StreamConstants ==
  /\ Drainer \in Proc
  /\ None \notin Conn
  /\ {MaxRetries, MaxLog, MaxFaults} \subseteq Nat

VARIABLES
  status,   \* agent_run.status: "active" (pending, running, pausing,
            \* cancelling), "parked" or "ended"
  log,      \* run_event: the kind of the event with each sequence
  news,     \* the processes that still have to notify their hub
  sub,      \* for each connection: the subscription at its server end
  link,     \* for each connection: "open", "cut", or how the server ended it
  wire,     \* for each connection: the frames in flight
  page,     \* for each page: the generator frames() of run-stream.ts
  shown,    \* for each page: the sequences of the events it passed on
  faults

run == <<status, log, news>>
server == <<sub, link, wire>>
client == <<page, shown>>
vars == <<run, server, client, faults>>

Kind == {"work", "suspended", "done"}
Stop == {"suspended", "done"}
\* A stream of the client that has ended, for whatever reason.
Over == {"done", "returned", "failed", "rejected", "aborted"}

Init ==
  /\ status = "active"
  /\ log = <<"work">>     \* run_created
  /\ news = {Drainer}
  /\ sub = [c \in Conn |-> [pc |-> "none", proc |-> Drainer, after |-> 0,
                            token |-> FALSE]]
  /\ link = [c \in Conn |-> "unused"]
  /\ wire = [c \in Conn |-> <<>>]
  /\ page = [k \in Page |-> [pc |-> "connect", conn |-> None, after |-> 0,
                             retries |-> 0]]
  /\ shown = [k \in Page |-> <<>>]
  /\ faults = 0

Fault == faults < MaxFaults /\ faults' = faults + 1

-----------------------------------------------------------------------------
(* The run.  Its row and its events change in one transaction, which also   *)
(* leaves an event_available row for the process that drains the outbox.    *)
(* The process that commits notifies its own hub as well, unless its answer *)
(* is lost or the events are those of InterruptStale, which notifies nobody.*)

Commit(events, s) ==
  /\ log' = log \o events
  /\ status' = s
  /\ \E P \in SUBSET Proc : news' = news \cup P \cup {Drainer}
  /\ UNCHANGED <<server, client, faults>>

\* Of what the workflow streams, steps, tool calls and compactions are events,
\* one each; the text of the model is not.
Progress == <<"work">>

\* AppendEvent, MarkRunning, and controls that do not stop the run.
Work ==
  /\ status = "active" /\ Len(log) < MaxLog
  /\ Commit(Progress, "active")

\* Suspend, a shutdown or a restart that finds a checkpoint.
Suspend ==
  /\ status = "active" /\ Len(log) < MaxLog
  /\ Commit(<<"suspended">>, "parked")

\* Approve and resume: a run_control event.
Resume ==
  /\ status = "parked" /\ Len(log) < MaxLog
  /\ Commit(<<"work">>, "active")

\* Complete, Fail, a restart without a checkpoint, the cancellation of a
\* parked run: events and, in the same transaction, done.
Finish ==
  /\ status # "ended"
  /\ Commit(<<"work", "done">>, "ended")

-----------------------------------------------------------------------------
(* The hub.  The channel of a subscription holds one notification; another  *)
(* one is dropped, since a look at the rows serves both.                    *)

Signalled(c, p) == sub[c].pc # "none" /\ sub[c].proc = p

Notify(p) ==
  /\ p \in news
  /\ news' = news \ {p}
  /\ sub' = [c \in Conn |-> IF Signalled(c, p) THEN [sub[c] EXCEPT !.token = TRUE]
                                               ELSE sub[c]]
  /\ UNCHANGED <<status, log, link, wire, client, faults>>

-----------------------------------------------------------------------------
(* A subscription: Subscription.Next and the loop of SubscribeGraphRun.     *)

To(c, pc) == sub' = [sub EXCEPT ![c].pc = pc]

\* The handler returns: deferred Close, and the response ends, if the
\* connection still is one.
Close(c, how) ==
  /\ sub' = [sub EXCEPT ![c].pc = "none", ![c].token = FALSE]
  /\ link' = [link EXCEPT ![c] = IF @ = "open" THEN how ELSE @]

\* ListEvents finds something: the first event after the last one sent.
Unsent(c) == sub[c].after < Len(log)

Frame(n) == [seq |-> n, event |-> log[n]]

\* Next returns that event, and the handler writes it; what is written to a
\* connection that was cut is lost.
Send(c) ==
  LET n == sub[c].after + 1
  IN  /\ Unsent(c)
      /\ sub' = [sub EXCEPT ![c].after = n]
      /\ wire' = [wire EXCEPT ![c] = IF link[c] = "open" THEN Append(@, Frame(n)) ELSE @]

List(c) ==
  /\ sub[c].pc = "list"
  /\ \/ Send(c)
     \/ ~Unsent(c) /\ To(c, "check") /\ UNCHANGED wire
  /\ UNCHANGED <<run, link, client, faults>>

\* A run that stopped may have written its last events after List looked.
Drained(c) == sub[c].after >= Len(log)

\* The row of the run is read again.
AtRest == status # "active"

\* GetRun: the end of the stream, another look, or waiting.
Check(c) ==
  /\ sub[c].pc = "check"
  /\ \/ ~AtRest /\ To(c, "wait") /\ UNCHANGED link
     \/ AtRest /\ ~Drained(c) /\ To(c, "list") /\ UNCHANGED link
     \/ AtRest /\ Drained(c) /\ Close(c, "eof")
  /\ UNCHANGED <<run, wire, client, faults>>

Wake(c) ==
  /\ sub[c].pc = "wait" /\ sub[c].token
  /\ sub' = [sub EXCEPT ![c].pc = "list", ![c].token = FALSE]
  /\ UNCHANGED <<run, link, wire, client, faults>>

\* Instead of Heartbeat: the process waits for its own notifications only.
HeartbeatNever(c) == FALSE

\* 15 seconds without a notification: a heartbeat is written, then Next is
\* called again and looks at the rows.
Heartbeat(c) ==
  /\ sub[c].pc = "wait"
  /\ To(c, "list")
  /\ UNCHANGED <<run, link, wire, client, faults>>

\* Instead of WriteFails: the failure of a heartbeat goes unnoticed.
WriteFailsOnEvents(c) ==
  /\ link[c] = "cut" /\ sub[c].pc = "list" /\ Unsent(c)
  /\ Close(c, "error")
  /\ UNCHANGED <<run, wire, client, faults>>

\* A heartbeat or an event is written to a connection that was cut: some such
\* write fails, and the handler returns.
WriteFails(c) ==
  /\ link[c] = "cut"
  /\ sub[c].pc = "wait" \/ (sub[c].pc = "list" /\ Unsent(c))
  /\ Close(c, "error")
  /\ UNCHANGED <<run, wire, client, faults>>

\* ListEvents, GetSourceFiles or GetRun fails, or the server shuts down.
ReadFails(c) ==
  /\ sub[c].pc # "none"
  /\ Fault
  /\ Close(c, "error")
  /\ UNCHANGED <<run, wire, client>>

-----------------------------------------------------------------------------
(* The network and the processes.                                           *)

\* A connection breaks: what is in flight is lost, and only a write or a read
\* tells the two ends.
Cut(c) ==
  /\ link[c] = "open"
  /\ Fault
  /\ link' = [link EXCEPT ![c] = "cut"]
  /\ wire' = [wire EXCEPT ![c] = <<>>]
  /\ UNCHANGED <<run, sub, client>>

\* A process dies with its subscriptions.  The outbox is in the database: its
\* notifications are repeated by whoever drains it next.
Crash(p) ==
  /\ \E c \in Conn : sub[c].pc # "none" /\ sub[c].proc = p
  /\ Fault
  /\ sub' = [c \in Conn |-> IF sub[c].proc = p THEN [sub[c] EXCEPT !.pc = "none", !.token = FALSE]
                                               ELSE sub[c]]
  /\ link' = [c \in Conn |-> IF link[c] = "open" /\ sub[c].proc = p
                               THEN "cut" ELSE link[c]]
  /\ wire' = [c \in Conn |-> IF link'[c] = "cut" THEN <<>> ELSE wire[c]]
  /\ news' = news \ ({p} \ {Drainer})
  /\ UNCHANGED <<status, log, client>>

-----------------------------------------------------------------------------
(* The client: reconnectableRunResponse.                                    *)

Become(k, pc) == page' = [page EXCEPT ![k].pc = pc]

FreeConn(c) == sub[c].pc = "none" /\ \A k \in Page : page[k].conn # c

\* Instead of Echo: a refusal carries no id.
EchoNothing(k) == 0

\* sendSseErrorAndExit numbers its frames with the Last-Event-ID the client
\* sent, so that a client that has shown events takes them for repetitions.
Echo(k) == page[k].after

\* An entry of the hub with an empty channel.
Subscription(p, after) == [pc |-> "list", proc |-> p, after |-> after, token |-> FALSE]

\* subscribe(after): the request reaches a process, which looks up the run,
\* enters the hub, and only then reads events.
Subscribed(k, c, p) ==
  /\ sub' = [sub EXCEPT ![c] = Subscription(p, page[k].after)]
  /\ link' = [link EXCEPT ![c] = "open"]
  /\ wire' = [wire EXCEPT ![c] = <<>>]
  /\ UNCHANGED faults

\* The look-up fails: a stream of two frames, error and done.
Refused(k, c) ==
  /\ Fault
  /\ link' = [link EXCEPT ![c] = "error"]
  /\ wire' = [wire EXCEPT ![c] = <<[seq |-> Echo(k), event |-> "error"],
                                   [seq |-> Echo(k), event |-> "done"]>>]
  /\ UNCHANGED sub

Connect(k) ==
  /\ page[k].pc = "connect"
  /\ \E c \in Conn :
       /\ FreeConn(c)
       /\ page' = [page EXCEPT ![k].pc = "reading", ![k].conn = c]
       /\ Refused(k, c) \/ \E p \in Proc : Subscribed(k, c, p)
  /\ UNCHANGED <<run, shown>>

\* No answer, or one that is not an event stream (a proxy, an expired session).
ConnectFails(k) ==
  /\ page[k].pc = "connect"
  /\ Fault
  /\ Become(k, "retry") \/ Become(k, "rejected")
  /\ UNCHANGED <<run, server, shown>>

\* A connection the page no longer reads: reader.cancel().
HangUp(k) == link' = [link EXCEPT ![page[k].conn] = IF @ = "open" THEN "cut" ELSE @]

\* Instead of Shown: the page forgets which event it showed last.
ShownWithoutCursor(k, n) == [page[k] EXCEPT !.retries = 0]

Shown(k, n) == [page[k] EXCEPT !.after = n, !.retries = 0]

\* A complete frame has arrived.  A repetition is skipped; "done" ends the
\* stream, whoever sent it.
Read(k) ==
  LET c == page[k].conn
      f == Head(wire[c])
      isNew == f.seq = 0 \/ f.seq > page[k].after
  IN  /\ page[k].pc = "reading" /\ wire[c] # <<>>
      /\ wire' = [wire EXCEPT ![c] = Tail(@)]
      /\ shown' = IF isNew /\ f.seq > 0 THEN [shown EXCEPT ![k] = Append(@, f.seq)]
                                        ELSE shown
      /\ LET q == IF isNew /\ f.seq > 0 THEN Shown(k, f.seq) ELSE page[k]
         IN  IF isNew /\ f.event = "done"
               THEN page' = [page EXCEPT ![k] = [q EXCEPT !.pc = "done", !.conn = None]]
                    /\ HangUp(k)
               ELSE page' = [page EXCEPT ![k] = q] /\ UNCHANGED link
      /\ UNCHANGED <<run, sub, faults>>

\* The response ends.  A broken one may look like an error or like an end.
StreamEnds(k) ==
  LET c == page[k].conn
  IN  /\ page[k].pc = "reading" /\ wire[c] = <<>> /\ link[c] # "open"
      /\ \E pc \in {"state"} \cup (IF link[c] = "cut" THEN {"retry"} ELSE {}) :
           page' = [page EXCEPT ![k].pc = pc, ![k].conn = None]
      /\ UNCHANGED <<run, server, shown, faults>>

\* Instead of SawAll: the status alone decides.
SawAllSurely(k) == TRUE

SawAll(k) == page[k].after >= Len(log)

\* getState(): status and lastSequence of one row.
StateSaysStop(k) == AtRest /\ SawAll(k)

AskState(k) ==
  /\ page[k].pc = "state"
  /\ \/ Become(k, IF StateSaysStop(k) THEN "returned" ELSE "retry")
        /\ UNCHANGED faults
     \/ Become(k, "retry") /\ Fault
  /\ UNCHANGED <<run, server, shown>>

MayRetry(k) == page[k].retries < MaxRetries

\* After a delay the client connects again, or gives up.
Retry(k) ==
  /\ page[k].pc = "retry"
  /\ IF MayRetry(k)
       THEN page' = [page EXCEPT ![k].pc = "connect", ![k].retries = @ + 1]
       ELSE Become(k, "failed")
  /\ UNCHANGED <<run, server, shown, faults>>

\* The user leaves the page.
Abort(k) ==
  /\ page[k].pc \notin Over
  /\ page' = [page EXCEPT ![k].pc = "aborted", ![k].conn = None]
  /\ IF page[k].conn = None THEN UNCHANGED link ELSE HangUp(k)
  /\ UNCHANGED <<run, sub, wire, shown, faults>>

-----------------------------------------------------------------------------
Serve(c) ==
  List(c) \/ Check(c) \/ Wake(c) \/ Heartbeat(c) \/ WriteFails(c) \/ ReadFails(c)
  \/ Cut(c)

Follow(k) ==
  Connect(k) \/ ConnectFails(k) \/ Read(k) \/ StreamEnds(k) \/ AskState(k) \/ Retry(k)
  \/ Abort(k)

Next ==
  \/ Work \/ Suspend \/ Resume \/ Finish
  \/ \E p \in Proc : Notify(p) \/ Crash(p)
  \/ \E c \in Conn : Serve(c)
  \/ \E k \in Page : Follow(k)

Spec == Init /\ [][Next]_vars

\* Goroutines, timers and the browser run; of the writes to a connection that
\* was cut, one fails in the end.  Nobody has to notify anybody: what a hub
\* does is an improvement on the heartbeat.  Runs and faults owe nothing.
Fairness ==
  /\ \A c \in Conn : /\ WF_vars(List(c) \/ Check(c) \/ Heartbeat(c))
                     /\ SF_vars(WriteFails(c))
  /\ \A k \in Page : WF_vars(Connect(k) \/ Read(k) \/ StreamEnds(k) \/ AskState(k)
                             \/ Retry(k))

FairSpec == Spec /\ Fairness

-----------------------------------------------------------------------------
(* Properties                                                               *)

\* A page passes on every event once and in order, through any number of cut
\* connections, crashes and repetitions.
ShownInOrder == \A k \in Page : \A i \in 1 .. Len(shown[k]) : shown[k][i] = i

\* A page that stops because the run is at rest has shown the event that put
\* it to rest, even if the run moves while the page asks.
ReturnsAtAStop ==
  \A k \in Page : page[k].pc = "returned" =>
    /\ shown[k] # <<>>
    /\ log[Len(shown[k])] \in Stop

\* A page that has shown events takes nothing but the end of the run for its
\* end: not the end of a stream, and not the "done" of a refused subscription.
DoneIsTheRuns ==
  \A k \in Page : page[k].pc = "done" /\ shown[k] # <<>> =>
    status = "ended" /\ Len(shown[k]) = Len(log)

\* A page that stays catches up again and again, whichever process writes the
\* events and whether or not anybody is notified.
CatchesUp ==
  \A k \in Page : []<>(Len(shown[k]) = Len(log) \/ page[k].pc \in Over)

\* A subscription whose browser is gone leaves the hub.
SubscriberLeaves == \A c \in Conn : link[c] = "cut" ~> sub[c].pc = "none"

=============================================================================
