--------------------------- MODULE RunStreamProofs ---------------------------
(***************************************************************************)
(* Proofs about RunStream, for any number of pages, processes and          *)
(* connections, and any number of faults: what a page passes on, and what  *)
(* it takes for the end of a run.                                          *)
(***************************************************************************)
EXTENDS RunStream, SequenceTheorems, TLAPS

-----------------------------------------------------------------------------
(* The inductive invariant                                                 *)

SubPC == {"none", "list", "check", "wait"}
Links == {"unused", "open", "cut", "eof", "error"}
Frames == [seq : Nat, event : Kind \cup {"error"}]
PagePC == {"connect", "reading", "state", "retry"} \cup Over

Subs == [pc : SubPC, proc : Proc, after : Nat, token : BOOLEAN]
Pages == [pc : PagePC, conn : Conn \cup {None}, after : Nat, retries : Nat]

RunTypes ==
  /\ status \in {"active", "parked", "ended"}
  /\ log \in Seq(Kind)
ServerTypes ==
  /\ sub \in [Conn -> Subs]
  /\ link \in [Conn -> Links]
  /\ wire \in [Conn -> Seq(Frames)]
ClientTypes ==
  /\ page \in [Page -> Pages]
  /\ shown \in [Page -> Seq(Nat)]

\* A run at rest has said so with its last event, and "done" is final.
StopIsSaid ==
  /\ log # <<>>
  /\ status = "parked" => log[Len(log)] = "suspended"
  /\ status = "ended" => log[Len(log)] = "done"
  /\ \A i \in 1 .. Len(log) : log[i] = "done" => i = Len(log) /\ status = "ended"

\* A page reads one connection, and nobody else reads that one.
OneReader ==
  /\ \A k \in Page : page[k].pc = "reading" <=> page[k].conn \in Conn
  /\ \A j, k \in Page : page[j].conn = page[k].conn /\ page[k].conn \in Conn => j = k

\* Where a page is in the run: it has shown what is before its cursor, which
\* is never ahead of the rows.
CursorIsShown ==
  \A k \in Page : page[k].after = Len(shown[k]) /\ page[k].after <= Len(log)

\* What is in flight to a page: the events after its cursor, without a gap, or
\* a refusal, which repeats the cursor.
Continues(k, c) ==
  \A i \in 1 .. Len(wire[c]) :
    /\ wire[c][i].seq = page[k].after + i
    /\ wire[c][i].seq <= Len(log)
    /\ wire[c][i].event = log[wire[c][i].seq]
Repeats(k, c) == \A i \in 1 .. Len(wire[c]) : wire[c][i].seq = page[k].after
InFlight ==
  \A k \in Page : page[k].pc = "reading" =>
    LET c == page[k].conn
    IN  \/ Continues(k, c)
        \/ Repeats(k, c) /\ link[c] = "error"

\* A connection that is open has somebody who serves it, from where the frames
\* in flight end.
OpenIsServed ==
  /\ \A c \in Conn : link[c] = "open" => sub[c].pc # "none"
  /\ \A c \in Conn : sub[c].after <= Len(log)
  /\ \A k \in Page : page[k].pc = "reading" /\ link[page[k].conn] = "open" =>
       /\ Continues(k, page[k].conn)
       /\ sub[page[k].conn].after = page[k].after + Len(wire[page[k].conn])

Types == RunTypes /\ ServerTypes /\ ClientTypes
Delivery ==
  /\ Types /\ StopIsSaid /\ OneReader /\ CursorIsShown /\ InFlight /\ OpenIsServed
  /\ ShownInOrder /\ ReturnsAtAStop /\ DoneIsTheRuns

-----------------------------------------------------------------------------
(* The rows                                                                *)

RunStep == Work \/ Suspend \/ Resume \/ Finish

LEMMA Nexts ==
  ASSUME [Next]_vars
  PROVE  \/ UNCHANGED vars \/ RunStep
         \/ \E p \in Proc : Notify(p) \/ Crash(p)
         \/ \E c \in Conn : Serve(c)
         \/ \E k \in Page : Follow(k)
BY DEF Next, RunStep

\* Only the run writes its rows.
LEMMA RowsStay ==
  ASSUME [Next]_vars, ~RunStep
  PROVE  UNCHANGED <<status, log>>
<1>1. ASSUME NEW c \in Conn, Serve(c) PROVE UNCHANGED <<status, log>>
  BY <1>1 DEF Serve, List, Check, Wake, Heartbeat, WriteFails, ReadFails, Cut, run
<1>2. ASSUME NEW k \in Page, Follow(k) PROVE UNCHANGED <<status, log>>
  BY <1>2 DEF Follow, Connect, ConnectFails, Read, StreamEnds, AskState, Retry, Abort, run
<1>3. ASSUME NEW p \in Proc, Notify(p) \/ Crash(p) PROVE UNCHANGED <<status, log>>
  BY <1>3 DEF Notify, Crash
<1> QED BY <1>1, <1>2, <1>3, Nexts DEF vars, run

\* The rows only grow, a run that ended writes no more, and what puts a run to
\* rest is the last it says.
LEMMA RowsStep ==
  ASSUME RunTypes, StopIsSaid, [Next]_vars
  PROVE  /\ RunTypes' /\ StopIsSaid'
         /\ Len(log) \in Nat /\ Len(log') \in Nat /\ Len(log) <= Len(log')
         /\ \A i \in 1 .. Len(log) : log'[i] = log[i]
         /\ status = "ended" => UNCHANGED <<status, log>>
<1>1. Len(log) \in Nat
  BY DEF RunTypes
<1>2. CASE ~RunStep
  BY <1>1, <1>2, RowsStay DEF RunTypes, StopIsSaid
<1>3. ASSUME NEW e \in {"work", "suspended"}, Commit(<<e>>, IF e = "work" THEN "active" ELSE "parked"),
             status # "ended"
      PROVE  /\ RunTypes' /\ StopIsSaid'
             /\ Len(log') = Len(log) + 1
             /\ \A i \in 1 .. Len(log) : log'[i] = log[i]
  <2>1. log' = log \o <<e>> /\ <<e>> \in Seq(Kind) /\ status' = IF e = "work" THEN "active" ELSE "parked"
    BY <1>3 DEF Commit, Kind
  <2>2. /\ log' \in Seq(Kind) /\ Len(log') = Len(log) + 1 /\ log'[Len(log) + 1] = e
        /\ \A i \in 1 .. Len(log) : log'[i] = log[i]
    BY <2>1 DEF RunTypes
  <2>3. \A i \in 1 .. Len(log) : log[i] # "done"
    BY <1>3 DEF StopIsSaid
  <2>4. StopIsSaid'
    <3>1. log' # <<>>
      BY <1>1, <2>2
    <3>2. \A i \in 1 .. Len(log') : log'[i] # "done"
      BY <1>1, <2>2, <2>3
    <3> QED BY <1>3, <2>1, <2>2, <3>1, <3>2 DEF StopIsSaid
  <2> QED BY <2>1, <2>2, <2>4 DEF RunTypes
<1>4. CASE Finish
  <2>1. log' = log \o <<"work", "done">> /\ <<"work", "done">> \in Seq(Kind) /\ status' = "ended"
    BY <1>4 DEF Finish, Commit, Kind
  <2>2. /\ log' \in Seq(Kind) /\ Len(log') = Len(log) + 2
        /\ log'[Len(log) + 1] = "work" /\ log'[Len(log) + 2] = "done"
        /\ \A i \in 1 .. Len(log) : log'[i] = log[i]
    BY <2>1 DEF RunTypes
  <2>3. \A i \in 1 .. Len(log) : log[i] # "done"
    BY <1>4 DEF StopIsSaid, Finish
  <2>4. StopIsSaid'
    <3>1. log' # <<>>
      BY <1>1, <2>2
    <3>2. \A i \in 1 .. Len(log') : log'[i] = "done" => i = Len(log')
      BY <1>1, <2>2, <2>3
    <3> QED BY <2>1, <2>2, <3>1, <3>2 DEF StopIsSaid
  <2> QED BY <1>1, <1>4, <2>1, <2>2, <2>4 DEF RunTypes, Finish
<1>5. CASE Work \/ Suspend \/ Resume
  <2>1. /\ status # "ended"
        /\ \E e \in {"work", "suspended"} : Commit(<<e>>, IF e = "work" THEN "active" ELSE "parked")
    BY <1>5 DEF Work, Suspend, Resume, Progress
  <2> QED BY <1>1, <1>3, <2>1
<1> QED BY <1>2, <1>4, <1>5 DEF RunStep

-----------------------------------------------------------------------------
(* The types                                                               *)

SubTypes == sub \in [Conn -> Subs]
WireTypes == link \in [Conn -> Links] /\ wire \in [Conn -> Seq(Frames)]

LEMMA SubStep ==
  ASSUME Types, [Next]_vars
  PROVE  SubTypes'
<1>1. SubTypes /\ Len(log) \in Nat
  BY DEF Types, ServerTypes, SubTypes, RunTypes
<1>2. CASE UNCHANGED sub
  BY <1>1, <1>2 DEF SubTypes
<1>3. ASSUME NEW c \in Conn, Serve(c)
      PROVE  SubTypes'
  <2>1. CASE Check(c) \/ Wake(c) \/ Heartbeat(c) \/ WriteFails(c) \/ ReadFails(c)
    BY <1>1, <2>1 DEF Check, Wake, Heartbeat, WriteFails, ReadFails, To, Close, SubTypes, Subs, SubPC
  <2>2. CASE List(c)
    <3>1. sub[c].after + 1 \in Nat
      BY <1>1 DEF SubTypes, Subs
    <3> QED BY <1>1, <2>2, <3>1 DEF List, Send, To, SubTypes, Subs, SubPC
  <2> QED BY <1>2, <1>3, <2>1, <2>2 DEF Serve, Cut
<1>4. ASSUME NEW k \in Page, Connect(k)
      PROVE  SubTypes'
  <2>1. page[k].after \in Nat
    BY DEF Types, ClientTypes, Pages
  <2>2. \A p \in Proc : Subscription(p, page[k].after) \in Subs
    BY <2>1 DEF Subscription, Subs, SubPC
  <2>3. ASSUME NEW c \in Conn, NEW p \in Proc, Subscribed(k, c, p)
        PROVE  SubTypes'
    BY <1>1, <2>2, <2>3 DEF Subscribed, SubTypes
  <2> QED BY <1>2, <1>4, <2>3 DEF Connect, Refused
<1>5. ASSUME NEW k \in Page, Follow(k), ~Connect(k)
      PROVE  SubTypes'
  BY <1>2, <1>5 DEF Follow, ConnectFails, Read, StreamEnds, AskState, Retry, Abort, server
<1>6. ASSUME NEW p \in Proc, Notify(p) \/ Crash(p)
      PROVE  SubTypes'
  <2>1. \A q \in Subs : [q EXCEPT !.token = TRUE] \in Subs
                      /\ [q EXCEPT !.pc = "none", !.token = FALSE] \in Subs
    BY DEF Subs, SubPC
  <2> QED BY <1>1, <1>6, <2>1 DEF Notify, Crash, SubTypes
<1>7. CASE RunStep \/ UNCHANGED vars
  BY <1>2, <1>7 DEF RunStep, Work, Suspend, Resume, Finish, Commit, vars, server
<1> QED BY <1>3, <1>4, <1>5, <1>6, <1>7, Nexts

LEMMA WireStep ==
  ASSUME Types, OneReader, [Next]_vars
  PROVE  WireTypes'
<1>1. /\ WireTypes /\ SubTypes /\ Len(log) \in Nat /\ log \in Seq(Kind)
      /\ \A k \in Page : page[k].after \in Nat
  BY DEF Types, ServerTypes, ClientTypes, Pages, SubTypes, WireTypes, RunTypes
<1>2. CASE UNCHANGED <<link, wire>>
  BY <1>1, <1>2 DEF WireTypes
<1>3. ASSUME NEW c \in Conn, Serve(c)
      PROVE  WireTypes'
  <2>1. CASE Check(c) \/ WriteFails(c) \/ ReadFails(c) \/ Cut(c)
    <3>1. /\ wire' = wire \/ wire' = [wire EXCEPT ![c] = <<>>]
          /\ \E l \in Links : link' = link \/ link' = [link EXCEPT ![c] = l]
      BY <1>1, <2>1 DEF Check, WriteFails, ReadFails, Cut, Close, WireTypes, Links
    <3>2. link' \in [Conn -> Links]
      BY <1>1, <3>1 DEF WireTypes
    <3>3. <<>> \in Seq(Frames)
      OBVIOUS
    <3>4. wire' \in [Conn -> Seq(Frames)]
      BY <1>1, <3>1, <3>3 DEF WireTypes
    <3> QED BY <3>2, <3>4 DEF WireTypes
  <2>2. CASE Send(c) /\ UNCHANGED link
    <3>1. sub[c].after + 1 \in 1 .. Len(log)
      BY <1>1, <2>2 DEF Send, Unsent, SubTypes, Subs
    <3>2. Frame(sub[c].after + 1) \in Frames
      BY <1>1, <3>1 DEF Frame, Frames
    <3>3. wire' = [wire EXCEPT ![c] = IF link[c] = "open" THEN Append(wire[c], Frame(sub[c].after + 1)) ELSE wire[c]]
      BY <2>2 DEF Send
    <3> QED BY <1>1, <2>2, <3>2, <3>3 DEF WireTypes
  <2> QED BY <1>2, <1>3, <2>1, <2>2 DEF Serve, List, Wake, Heartbeat
<1>4. ASSUME NEW k \in Page, Follow(k)
      PROVE  WireTypes'
  <2>1. CASE Connect(k)
    <3>1. \A e \in {"error", "done"} : [seq |-> Echo(k), event |-> e] \in Frames
      BY <1>1 DEF Echo, Frames, Kind
    <3>2. <<[seq |-> Echo(k), event |-> "error"], [seq |-> Echo(k), event |-> "done"]>> \in Seq(Frames)
      BY <3>1
    <3>3. CASE \E c \in Conn : Refused(k, c)
      BY <1>1, <3>2, <3>3 DEF Refused, WireTypes, Links
    <3>4. CASE \E c \in Conn, p \in Proc : Subscribed(k, c, p)
      BY <1>1, <3>4 DEF Subscribed, WireTypes, Links
    <3> QED BY <2>1, <3>3, <3>4 DEF Connect
  <2>2. CASE Read(k)
    <3>1. link' \in [Conn -> Links]
      BY <1>1, <2>2 DEF Read, HangUp, WireTypes, Links
    <3>2. wire' = [wire EXCEPT ![page[k].conn] = Tail(@)] /\ wire[page[k].conn] # <<>>
      BY <2>2 DEF Read
    <3>3. \A s \in Seq(Frames) : s # <<>> => Tail(s) \in Seq(Frames)
      OBVIOUS
    <3> QED BY <1>1, <3>1, <3>2, <3>3 DEF WireTypes
  <2>3. CASE Abort(k)
    BY <1>1, <2>3 DEF Abort, HangUp, WireTypes, Links
  <2> QED BY <1>2, <1>4, <2>1, <2>2, <2>3 DEF Follow, ConnectFails, StreamEnds, AskState, Retry, server
<1>5. ASSUME NEW p \in Proc, Notify(p) \/ Crash(p)
      PROVE  WireTypes'
  <2>1. CASE Crash(p)
    <3>1. link' \in [Conn -> Links]
      BY <1>1, <2>1 DEF Crash, WireTypes, Links
    <3>2. wire' = [c \in Conn |-> IF link'[c] = "cut" THEN <<>> ELSE wire[c]]
      BY <2>1 DEF Crash
    <3> QED BY <1>1, <3>1, <3>2 DEF WireTypes
  <2> QED BY <1>2, <1>5, <2>1 DEF Notify
<1>6. CASE RunStep \/ UNCHANGED vars
  BY <1>2, <1>6 DEF RunStep, Work, Suspend, Resume, Finish, Commit, vars, server
<1> QED BY <1>3, <1>4, <1>5, <1>6, Nexts

\* What a page is turned into when its stream begins or ends.
Turned(q, l, c) == [q EXCEPT !.pc = l, !.conn = c]
Turns(k, l, c) == page' = [page EXCEPT ![k] = Turned(page[k], l, c)]

LEMMA PageFields ==
  ASSUME NEW q \in Pages, NEW l \in PagePC, NEW c \in Conn \cup {None}
  PROVE  /\ Turned(q, l, c) \in Pages
         /\ Turned(q, l, c).pc = l /\ Turned(q, l, c).conn = c /\ Turned(q, l, c).after = q.after
BY DEF Pages, Turned

LEMMA ShownFields ==
  ASSUME NEW k \in Page, page[k] \in Pages, NEW n \in Nat
  PROVE  /\ Shown(k, n) \in Pages
         /\ Shown(k, n).pc = page[k].pc /\ Shown(k, n).conn = page[k].conn
         /\ Shown(k, n).after = n
BY DEF Pages, Shown

LEMMA PageEdits ==
  ASSUME ClientTypes, NEW k \in Page, NEW l \in PagePC, NEW c \in Conn \cup {None},
         Turns(k, l, c)
  PROVE  /\ page' \in [Page -> Pages]
         /\ page'[k].pc = l /\ page'[k].conn = c /\ page'[k].after = page[k].after
         /\ \A j \in Page : j # k => page'[j] = page[j]
<1>1. page[k] \in Pages
  BY DEF ClientTypes
<1>2. page' = [page EXCEPT ![k] = Turned(page[k], l, c)]
  BY DEF Turns
<1>3. page'[k] = Turned(page[k], l, c)
  BY <1>2 DEF ClientTypes
<1>4. DOMAIN page' = Page /\ page' = [j \in Page |-> page'[j]] /\ \A j \in Page : j # k => page'[j] = page[j]
  BY <1>2 DEF ClientTypes
<1>5. Turned(page[k], l, c) \in Pages /\ page'[k].pc = l /\ page'[k].conn = c
      /\ page'[k].after = page[k].after
  BY <1>1, <1>3, PageFields
<1>6. page' \in [Page -> Pages]
  BY <1>2, <1>5 DEF ClientTypes
<1> QED BY <1>4, <1>5, <1>6

LEMMA BecomeEdits ==
  ASSUME ClientTypes, NEW k \in Page, NEW l \in PagePC, Become(k, l)
  PROVE  /\ page' \in [Page -> Pages]
         /\ page'[k].pc = l /\ page'[k].conn = page[k].conn /\ page'[k].after = page[k].after
         /\ \A j \in Page : j # k => page'[j] = page[j]
<1>1. page[k] \in Pages
  BY DEF ClientTypes
<1>2. page'[k] = [page[k] EXCEPT !.pc = l]
  BY DEF ClientTypes, Become
<1>3. /\ page'[k] \in Pages
      /\ page'[k].pc = l /\ page'[k].conn = page[k].conn /\ page'[k].after = page[k].after
  BY <1>1, <1>2 DEF Pages
<1>4. DOMAIN page' = Page /\ page' = [j \in Page |-> page'[j]] /\ \A j \in Page : j # k => page'[j] = page[j]
  BY DEF ClientTypes, Become
<1> QED BY <1>3, <1>4 DEF ClientTypes

LEMMA Turnings ==
  ASSUME NEW k \in Page
  PROVE  /\ Connect(k) => \E c \in Conn : Turns(k, "reading", c)
         /\ StreamEnds(k) => \E l \in {"state", "retry"} : Turns(k, l, None)
         /\ Abort(k) => Turns(k, "aborted", None)
         /\ {"reading", "state", "retry", "aborted"} \subseteq PagePC
<1>1. \A l, c : page' = [page EXCEPT ![k].pc = l, ![k].conn = c] => Turns(k, l, c)
  BY DEF Turns, Turned
<1>2. Connect(k) => \E c \in Conn : page' = [page EXCEPT ![k].pc = "reading", ![k].conn = c]
  BY DEF Connect
<1>3. StreamEnds(k) => \E l \in {"state", "retry"} : page' = [page EXCEPT ![k].pc = l, ![k].conn = None]
  BY DEF StreamEnds
<1>4. Abort(k) => page' = [page EXCEPT ![k].pc = "aborted", ![k].conn = None]
  BY DEF Abort
<1>5. {"reading", "state", "retry", "aborted"} \subseteq PagePC
  BY DEF PagePC, Over
<1> QED BY <1>1, <1>2, <1>3, <1>4, <1>5

LEMMA ClientStep ==
  ASSUME Types, OneReader, [Next]_vars
  PROVE  ClientTypes'
<1>1. ClientTypes /\ WireTypes
  BY DEF Types, ServerTypes, WireTypes
<1>2. CASE UNCHANGED <<page, shown>>
  BY <1>1, <1>2 DEF ClientTypes
<1>3. ASSUME NEW k \in Page, Follow(k)
      PROVE  ClientTypes'
  <2>1. CASE Read(k) /\ page[k].conn \in Conn
    <3> DEFINE f == Head(wire[page[k].conn])
    <3>1. f.seq \in Nat
      <4>1. wire[page[k].conn] \in Seq(Frames) /\ wire[page[k].conn] # <<>>
        BY <1>1, <2>1 DEF Read, WireTypes
      <4>2. f \in Frames
        BY <4>1
      <4> QED BY <4>2 DEF Frames
    <3>2. shown' \in [Page -> Seq(Nat)]
      BY <1>1, <2>1, <3>1 DEF Read, ClientTypes
    <3>3. /\ Shown(k, f.seq) \in Pages
          /\ page[k] \in Pages
      BY <1>1, <3>1 DEF Shown, ClientTypes, Pages
    <3>4. \E q \in {Shown(k, f.seq), page[k]} :
             \/ page' = [page EXCEPT ![k] = [q EXCEPT !.pc = "done", !.conn = None]]
             \/ page' = [page EXCEPT ![k] = q]
      BY <2>1 DEF Read
    <3>5. \A q \in Pages :
             [q EXCEPT !.pc = "done", !.conn = None] \in Pages
      BY DEF Pages, PagePC, Over
    <3>6. page' \in [Page -> Pages]
      <4> HIDE DEF f
      <4> QED BY <1>1, <3>3, <3>4, <3>5 DEF ClientTypes
    <3> QED BY <3>2, <3>6 DEF ClientTypes
  <2>2. CASE Connect(k) \/ ConnectFails(k) \/ StreamEnds(k) \/ AskState(k) \/ Abort(k)
    <3>1. shown' = shown
      BY <2>2 DEF Connect, ConnectFails, StreamEnds, AskState, Abort
    <3>2. CASE \E l \in PagePC : Become(k, l)
      BY <1>1, <3>1, <3>2, BecomeEdits DEF ClientTypes
    <3>3. CASE \E l \in PagePC, c \in Conn \cup {None} : Turns(k, l, c)
      BY <1>1, <3>1, <3>3, PageEdits DEF ClientTypes
    <3>4. CASE ConnectFails(k) \/ AskState(k)
      BY <3>2, <3>4 DEF ConnectFails, AskState, PagePC, Over
    <3>5. CASE Connect(k) \/ StreamEnds(k) \/ Abort(k)
      BY <3>3, <3>5, Turnings
    <3> QED BY <2>2, <3>4, <3>5
  <2>3. CASE Retry(k)
    <3>1. CASE Become(k, "failed")
      BY <1>1, <2>3, <3>1, BecomeEdits DEF Retry, ClientTypes, PagePC, Over
    <3>2. CASE page' = [page EXCEPT ![k].pc = "connect", ![k].retries = @ + 1]
      <4>1. page[k].retries + 1 \in Nat
        BY <1>1 DEF ClientTypes, Pages
      <4>2. page' \in [Page -> Pages]
        BY <1>1, <3>2, <4>1 DEF ClientTypes, Pages, PagePC
      <4> QED BY <1>1, <2>3, <4>2 DEF Retry, ClientTypes
    <3> QED BY <2>3, <3>1, <3>2 DEF Retry
  <2>4. Read(k) => page[k].conn \in Conn
    BY DEF Read, OneReader
  <2> QED BY <1>3, <2>1, <2>2, <2>3, <2>4 DEF Follow
<1>4. ASSUME NEW c \in Conn, Serve(c)
      PROVE  ClientTypes'
  BY <1>2, <1>4 DEF Serve, List, Check, Wake, Heartbeat, WriteFails, ReadFails, Cut, client
<1>5. CASE RunStep \/ UNCHANGED vars \/ \E p \in Proc : Notify(p) \/ Crash(p)
  BY <1>2, <1>5 DEF RunStep, Work, Suspend, Resume, Finish, Commit, Notify, Crash, vars, client
<1> QED BY <1>3, <1>4, <1>5, Nexts

-----------------------------------------------------------------------------
(* What is in flight                                                       *)

\* No frame is added: some are lost, and connections only close.
Fewer ==
  \A d \in Conn :
    /\ sub'[d].after = sub[d].after
    /\ wire'[d] = wire[d] \/ wire'[d] = <<>>
    /\ link'[d] = "open" => link[d] = "open" /\ wire'[d] = wire[d] /\ sub'[d].pc # "none"
    /\ link[d] = "error" => link'[d] = "error"
\* No page gets ahead: its cursor stays, and it goes on or stops reading.
Calm ==
  /\ shown' = shown
  /\ \A k \in Page : /\ page'[k].after = page[k].after
                     /\ \/ page'[k].pc = page[k].pc /\ page'[k].conn = page[k].conn
                        \/ page'[k].pc # "reading" /\ page'[k].conn \notin Conn

LEMMA FewerFrames ==
  ASSUME Delivery, [Next]_vars,
         \A c \in Conn : ~(List(c) /\ Send(c)), \A k \in Page : ~Connect(k) /\ ~Read(k)
  PROVE  Fewer
<1>1. ServerTypes /\ OpenIsServed
  BY DEF Delivery, Types
<1>2. /\ sub \in [Conn -> Subs] /\ link \in [Conn -> Links] /\ wire \in [Conn -> Seq(Frames)]
      /\ \A c \in Conn : link[c] = "open" => sub[c].pc # "none"
  BY <1>1 DEF ServerTypes, OpenIsServed
<1>3. CASE UNCHANGED <<sub, link, wire>>
  BY <1>2, <1>3 DEF Fewer
<1>4. ASSUME NEW c \in Conn, Serve(c)
      PROVE  Fewer
  <2>1. \A q \in Subs, l \in SubPC : [q EXCEPT !.pc = l] \in Subs /\ [q EXCEPT !.pc = l].pc = l
                                     /\ [q EXCEPT !.pc = l].after = q.after
    BY DEF Subs
  <2>2. \A q \in Subs, l \in SubPC :
          /\ [q EXCEPT !.pc = l, !.token = FALSE].pc = l
          /\ [q EXCEPT !.pc = l, !.token = FALSE].after = q.after
    BY DEF Subs
  <2>3. CASE List(c) \/ Heartbeat(c) \/ (Check(c) /\ \E l \in {"wait", "list"} : To(c, l) /\ UNCHANGED link)
    <3>1. \E l \in SubPC \ {"none"} : sub' = [sub EXCEPT ![c] = [sub[c] EXCEPT !.pc = l]]
      BY <2>3 DEF List, Heartbeat, To, SubPC
    <3>2. UNCHANGED <<link, wire>>
      BY <2>3 DEF List, Heartbeat, Check
    <3> QED BY <1>2, <2>1, <3>1, <3>2 DEF Fewer
  <2>4. CASE Wake(c)
    <3>1. sub' = [sub EXCEPT ![c] = [sub[c] EXCEPT !.pc = "list", !.token = FALSE]] /\ "list" \in SubPC
      BY <2>4 DEF Wake, SubPC
    <3> QED BY <1>2, <2>2, <2>4, <3>1 DEF Wake, Fewer
  <2>5. CASE WriteFails(c) \/ ReadFails(c) \/ (Check(c) /\ Close(c, "eof"))
    <3>1. sub' = [sub EXCEPT ![c] = [sub[c] EXCEPT !.pc = "none", !.token = FALSE]] /\ "none" \in SubPC
      BY <2>5 DEF WriteFails, ReadFails, Close, SubPC
    <3>2. \E how \in {"eof", "error"} : link' = [link EXCEPT ![c] = IF @ = "open" THEN how ELSE @]
      BY <2>5 DEF WriteFails, ReadFails, Close
    <3>3. wire' = wire
      BY <2>5 DEF WriteFails, ReadFails, Check
    <3> QED BY <1>2, <2>2, <3>1, <3>2, <3>3 DEF Fewer
  <2>6. CASE Cut(c)
    BY <1>2, <2>6 DEF Cut, Fewer
  <2> QED BY <1>4, <2>3, <2>4, <2>5, <2>6 DEF Serve, Check
<1>5. ASSUME NEW k \in Page, Follow(k)
      PROVE  Fewer
  <2>1. CASE Abort(k)
    <3>1. link' = link \/ link' = [link EXCEPT ![page[k].conn] = IF @ = "open" THEN "cut" ELSE @]
      BY <2>1 DEF Abort, HangUp
    <3> QED BY <1>2, <2>1, <3>1 DEF Abort, Fewer
  <2> QED BY <1>3, <1>5, <2>1 DEF Follow, ConnectFails, StreamEnds, AskState, Retry, server
<1>6. ASSUME NEW p \in Proc, Notify(p) \/ Crash(p)
      PROVE  Fewer
  <2>1. \A q \in Subs : /\ [q EXCEPT !.token = TRUE].pc = q.pc
                        /\ [q EXCEPT !.token = TRUE].after = q.after
                        /\ [q EXCEPT !.pc = "none", !.token = FALSE].after = q.after
    BY DEF Subs
  <2>2. CASE Notify(p)
    BY <1>2, <2>1, <2>2 DEF Notify, Fewer
  <2>3. CASE Crash(p)
    BY <1>2, <2>1, <2>3 DEF Crash, Fewer
  <2> QED BY <1>6, <2>2, <2>3
<1>7. CASE RunStep \/ UNCHANGED vars
  BY <1>3, <1>7 DEF RunStep, Work, Suspend, Resume, Finish, Commit, vars, server
<1> QED BY <1>4, <1>5, <1>6, <1>7, Nexts

\* How a page comes to believe that the run is at rest.
LEMMA CalmPages ==
  ASSUME Delivery, [Next]_vars, \A k \in Page : ~Connect(k) /\ ~Read(k)
  PROVE  /\ Calm
         /\ \A k \in Page : page'[k].pc = "done" => page[k].pc = "done"
         /\ \A k \in Page : page'[k].pc = "returned" => page[k].pc = "returned" \/ StateSaysStop(k)
<1>1. ClientTypes /\ OneReader /\ None \notin Conn
  BY StreamConstants DEF Delivery, Types, StreamConstants
<1>2. \A k \in Page : page[k].pc # "reading" => page[k].conn \notin Conn
  BY <1>1 DEF OneReader
<1>3. CASE UNCHANGED <<page, shown>>
  BY <1>3 DEF Calm
<1>4. ASSUME NEW k \in Page, Follow(k)
      PROVE  /\ Calm
             /\ \A j \in Page : page'[j].pc = "done" => page[j].pc = "done"
             /\ \A j \in Page : page'[j].pc = "returned" => page[j].pc = "returned" \/ StateSaysStop(j)
  <2>1. shown' = shown
    BY <1>4 DEF Follow, ConnectFails, StreamEnds, AskState, Retry, Abort
  <2>2. CASE StreamEnds(k) \/ Abort(k)
    <3>1. \E l \in {"state", "retry", "aborted"} : Turns(k, l, None)
      BY <2>2, Turnings
    <3>2. {"state", "retry", "aborted"} \subseteq PagePC
      BY DEF PagePC, Over
    <3> QED BY <1>1, <2>1, <3>1, <3>2, PageEdits DEF Calm
  <2>3. ASSUME NEW l \in {"retry", "rejected", "returned", "failed"}, Become(k, l), page[k].pc # "reading",
               l = "returned" => StateSaysStop(k)
        PROVE  /\ Calm
               /\ \A j \in Page : page'[j].pc = "done" => page[j].pc = "done"
               /\ \A j \in Page : page'[j].pc = "returned" => page[j].pc = "returned" \/ StateSaysStop(j)
    <3>1. l \in PagePC /\ l \notin {"reading", "done"}
      BY DEF PagePC, Over
    <3>2. /\ page'[k].pc = l /\ page'[k].conn = page[k].conn /\ page'[k].after = page[k].after
          /\ \A j \in Page : j # k => page'[j] = page[j]
      BY <1>1, <2>3, <3>1, BecomeEdits
    <3> QED BY <1>2, <2>1, <2>3, <3>1, <3>2 DEF Calm
  <2>4. CASE ConnectFails(k) \/ AskState(k)
    <3>1. page[k].pc # "reading"
          /\ \E l \in {"retry", "rejected", "returned", "failed"} :
                Become(k, l) /\ (l = "returned" => StateSaysStop(k))
      BY <2>4 DEF ConnectFails, AskState
    <3> QED BY <2>3, <3>1
  <2>5. CASE Retry(k)
    <3>1. CASE Become(k, "failed")
      BY <2>3, <2>5, <3>1 DEF Retry
    <3>2. CASE page' = [page EXCEPT ![k].pc = "connect", ![k].retries = @ + 1]
      <4>1. /\ page'[k].pc = "connect" /\ page'[k].conn = page[k].conn /\ page'[k].after = page[k].after
            /\ \A j \in Page : j # k => page'[j] = page[j]
        BY <1>1, <3>2 DEF ClientTypes, Pages
      <4> QED BY <1>2, <2>1, <2>5, <4>1 DEF Retry, Calm
    <3> QED BY <2>5, <3>1, <3>2 DEF Retry
  <2> QED BY <1>4, <2>2, <2>4, <2>5 DEF Follow
<1>5. ASSUME NEW c \in Conn, Serve(c)
      PROVE  UNCHANGED <<page, shown>>
  BY <1>5 DEF Serve, List, Check, Wake, Heartbeat, WriteFails, ReadFails, Cut, client
<1>6. CASE RunStep \/ UNCHANGED vars \/ \E p \in Proc : Notify(p) \/ Crash(p)
  BY <1>3, <1>6 DEF RunStep, Work, Suspend, Resume, Finish, Commit, Notify, Crash, vars, client
<1> QED BY <1>3, <1>4, <1>5, <1>6, Nexts

Flow == OneReader /\ CursorIsShown /\ InFlight /\ OpenIsServed /\ ShownInOrder

\* What every step relies on: the rows it may add to are behind every cursor.
LEMMA RowsAhead ==
  ASSUME Delivery, [Next]_vars
  PROVE  /\ Len(log) \in Nat /\ Len(log') \in Nat /\ Len(log) <= Len(log')
         /\ \A i \in 1 .. Len(log) : log'[i] = log[i]
         /\ \A k \in Page : page[k].after \in Nat /\ page[k] \in Pages
         /\ \A c \in Conn : sub[c] \in Subs /\ sub[c].after \in Nat /\ wire[c] \in Seq(Frames)
         /\ \A c \in Conn : \A i \in 1 .. Len(wire[c]) : wire[c][i].seq \in Nat
         /\ page \in [Page -> Pages] /\ shown \in [Page -> Seq(Nat)]
         /\ sub \in [Conn -> Subs] /\ link \in [Conn -> Links] /\ wire \in [Conn -> Seq(Frames)]
<1>1. Types /\ StopIsSaid
  BY DEF Delivery
<1>2. /\ page \in [Page -> Pages] /\ shown \in [Page -> Seq(Nat)]
      /\ sub \in [Conn -> Subs] /\ link \in [Conn -> Links] /\ wire \in [Conn -> Seq(Frames)]
  BY <1>1 DEF Types, ServerTypes, ClientTypes
<1>3. \A q \in Pages : q.after \in Nat
  BY DEF Pages
<1>4. \A q \in Subs : q.after \in Nat
  BY DEF Subs
<1>5. \A c \in Conn : \A i \in 1 .. Len(wire[c]) : wire[c][i].seq \in Nat
  <2> SUFFICES ASSUME NEW c \in Conn, NEW i \in 1 .. Len(wire[c])
               PROVE  wire[c][i].seq \in Nat
    OBVIOUS
  <2>1. wire[c] \in Seq(Frames)
    BY <1>2
  <2>2. wire[c][i] \in Frames
    BY <2>1
  <2> QED BY <2>2 DEF Frames
<1> QED BY <1>1, <1>2, <1>3, <1>4, <1>5, RowsStep DEF Types

\* Rows that grow take nothing from what is in flight.
LEMMA StillContinues ==
  ASSUME Delivery, [Next]_vars, NEW k \in Page, NEW c \in Conn,
         wire'[c] = wire[c] \/ wire'[c] = <<>>, page'[k].after = page[k].after
  PROVE  /\ Continues(k, c) => Continues(k, c)'
         /\ Repeats(k, c) => Repeats(k, c)'
<1>1. CASE wire'[c] = <<>>
  BY <1>1 DEF Continues, Repeats
<1>2. CASE wire'[c] = wire[c]
  <2>1. Repeats(k, c) => Repeats(k, c)'
    BY <1>2 DEF Repeats
  <2>2. ASSUME Continues(k, c), NEW i \in 1 .. Len(wire[c])
        PROVE  /\ wire[c][i].seq = page[k].after + i
               /\ wire[c][i].seq <= Len(log')
               /\ wire[c][i].event = log'[wire[c][i].seq]
    <3>1. /\ wire[c][i].seq = page[k].after + i /\ wire[c][i].seq <= Len(log)
          /\ wire[c][i].event = log[wire[c][i].seq] /\ page[k].after \in Nat
      BY <2>2, RowsAhead DEF Continues
    <3>2. wire[c][i].seq \in 1 .. Len(log)
      BY <3>1, RowsAhead
    <3> QED BY <3>1, <3>2, RowsAhead
  <2> QED BY <1>2, <2>1, <2>2 DEF Continues
<1> QED BY <1>1, <1>2

LEMMA FewerKeeps ==
  ASSUME Delivery, [Next]_vars, Fewer, Calm
  PROVE  Flow'
<1>1. OneReader /\ CursorIsShown /\ InFlight /\ OpenIsServed /\ ShownInOrder
  BY DEF Delivery
<1>2. OneReader' /\ ShownInOrder'
  BY <1>1 DEF OneReader, ShownInOrder, Calm
<1>3. CursorIsShown'
  BY <1>1, RowsAhead DEF CursorIsShown, Calm
<1>4. ASSUME NEW k \in Page, page'[k].pc = "reading"
      PROVE  /\ page[k].pc = "reading" /\ page'[k].conn = page[k].conn /\ page[k].conn \in Conn
             /\ page'[k].after = page[k].after
  BY <1>1, <1>4 DEF Calm, OneReader
<1>5. ASSUME NEW k \in Page, page'[k].pc = "reading"
      PROVE  \/ Continues(k, page[k].conn)'
             \/ Repeats(k, page[k].conn)' /\ link'[page[k].conn] = "error"
  <2>1. PICK c \in Conn : c = page[k].conn
    BY <1>4, <1>5
  <2>2. wire'[c] = wire[c] \/ wire'[c] = <<>>
    BY DEF Fewer
  <2>3. /\ Continues(k, c) => Continues(k, c)'
        /\ Repeats(k, c) => Repeats(k, c)'
    BY <1>4, <1>5, <2>2, StillContinues
  <2>4. Continues(k, c) \/ (Repeats(k, c) /\ link[c] = "error")
    BY <1>1, <1>4, <1>5, <2>1 DEF InFlight
  <2>5. page'[k].conn = c
    BY <1>4, <1>5, <2>1
  <2> QED BY <2>1, <2>3, <2>4, <2>5 DEF Fewer, Continues, Repeats
<1>6. InFlight'
  BY <1>4, <1>5 DEF InFlight, Continues, Repeats
<1>7. OpenIsServed'
  <2>1. \A c \in Conn : link'[c] = "open" => sub'[c].pc # "none"
    BY DEF Fewer
  <2>2. \A c \in Conn : sub'[c].after <= Len(log')
    BY <1>1, RowsAhead DEF Fewer, OpenIsServed
  <2>3. ASSUME NEW k \in Page, page'[k].pc = "reading", link'[page[k].conn] = "open"
        PROVE  /\ Continues(k, page[k].conn)'
               /\ sub'[page[k].conn].after = page'[k].after + Len(wire'[page[k].conn])
    <3>1. PICK c \in Conn : c = page[k].conn
      BY <1>4, <2>3
    <3>2. link[c] = "open" /\ wire'[c] = wire[c] /\ sub'[c].after = sub[c].after
      BY <2>3, <3>1 DEF Fewer
    <3>3. Continues(k, c) /\ sub[c].after = page[k].after + Len(wire[c])
      BY <1>1, <1>4, <2>3, <3>1, <3>2 DEF OpenIsServed
    <3>4. Continues(k, c)'
      BY <1>4, <2>3, <3>2, <3>3, StillContinues
    <3>5. page'[k].conn = c
      BY <1>4, <2>3, <3>1
    <3> QED BY <1>4, <2>3, <3>1, <3>2, <3>3, <3>4, <3>5 DEF Continues
  <2> QED BY <1>4, <2>1, <2>2, <2>3 DEF OpenIsServed, Continues
<1> QED BY <1>2, <1>3, <1>6, <1>7 DEF Flow

LEMMA SendKeeps ==
  ASSUME Delivery, [Next]_vars, NEW c \in Conn, List(c), Send(c)
  PROVE  Flow'
<1>1. OneReader /\ CursorIsShown /\ InFlight /\ OpenIsServed /\ ShownInOrder
  BY DEF Delivery
<1>2. UNCHANGED <<page, shown, link, log>>
  BY DEF List, run, client
<1>3. PICK n : n = sub[c].after + 1
  OBVIOUS
<1>4. n \in 1 .. Len(log)
  BY <1>3, RowsAhead DEF Send, Unsent
<1>5. /\ sub'[c].after = n /\ sub'[c].pc = sub[c].pc
      /\ \A d \in Conn : d # c => sub'[d] = sub[d]
  BY <1>3, RowsAhead DEF Send, Subs
<1>6. /\ wire'[c] = IF link[c] = "open" THEN Append(wire[c], Frame(n)) ELSE wire[c]
      /\ \A d \in Conn : d # c => wire'[d] = wire[d]
  BY <1>3, RowsAhead DEF Send
<1>7. Frame(n).seq = n /\ Frame(n).event = log[n]
  BY DEF Frame
<1>8. ASSUME NEW k \in Page, link[c] = "open", page[k].pc = "reading", page[k].conn = c
      PROVE  Continues(k, c)' /\ sub'[c].after = page'[k].after + Len(wire'[c])
  <2>1. Continues(k, c) /\ sub[c].after = page[k].after + Len(wire[c])
    BY <1>1, <1>8 DEF OpenIsServed
  <2>2. /\ Len(wire'[c]) = Len(wire[c]) + 1 /\ wire'[c][Len(wire[c]) + 1] = Frame(n)
        /\ \A i \in 1 .. Len(wire[c]) : wire'[c][i] = wire[c][i]
        /\ Len(wire[c]) \in Nat
    <3>1. log \in Seq(Kind)
      BY DEF Delivery, Types, RunTypes
    <3>2. log[n] \in Kind /\ n \in Nat
      BY <1>4, <3>1
    <3>3. Frame(n) \in Frames
      BY <3>2 DEF Frame, Frames
    <3>4. wire[c] \in Seq(Frames)
      BY RowsAhead
    <3> QED BY <1>6, <1>8, <3>3, <3>4
  <2>3. n = page[k].after + Len(wire[c]) + 1
    BY <1>3, <2>1
  <2>4. sub'[c].after = page'[k].after + Len(wire'[c])
    <3>1. page[k].after \in Nat
      BY RowsAhead
    <3>2. page'[k].after = page[k].after /\ sub'[c].after = n
      BY <1>2, <1>5
    <3> QED BY <2>2, <2>3, <3>1, <3>2
  <2>5. ASSUME NEW i \in 1 .. Len(wire'[c])
        PROVE  /\ wire'[c][i].seq = page[k].after + i
               /\ wire'[c][i].seq <= Len(log)
               /\ wire'[c][i].event = log[wire'[c][i].seq]
    <3>1. CASE i = Len(wire[c]) + 1
      <4>1. page[k].after \in Nat
        BY RowsAhead
      <4>2. wire'[c][i].seq = n /\ wire'[c][i].event = log[n]
        BY <1>7, <2>2, <3>1
      <4>3. n = page[k].after + i /\ n <= Len(log)
        BY <1>4, <2>2, <2>3, <3>1, <4>1
      <4> QED BY <4>2, <4>3
    <3>2. CASE i \in 1 .. Len(wire[c])
      BY <2>1, <2>2, <3>2 DEF Continues
    <3> QED BY <2>2, <3>1, <3>2
  <2>6. Continues(k, c)'
    BY <1>2, <2>5 DEF Continues
  <2> QED BY <2>4, <2>6
<1>9. OneReader' /\ CursorIsShown' /\ ShownInOrder'
  BY <1>1, <1>2 DEF OneReader, CursorIsShown, ShownInOrder
<1>10. InFlight'
  <2> SUFFICES ASSUME NEW k \in Page, page[k].pc = "reading"
               PROVE  \/ Continues(k, page[k].conn)'
                      \/ Repeats(k, page[k].conn)' /\ link'[page[k].conn] = "error"
    BY <1>2 DEF InFlight, Continues, Repeats
  <2>1. PICK d \in Conn : d = page[k].conn
    BY <1>1 DEF OneReader
  <2>2. CASE d = c /\ link[c] = "open"
    <3>1. Continues(k, c)'
      BY <1>8, <2>1, <2>2
    <3>2. page'[k].conn = c
      BY <1>2, <2>1, <2>2
    <3> QED BY <3>1, <3>2 DEF Continues
  <2>3. CASE ~(d = c /\ link[c] = "open")
    <3>1. wire'[d] = wire[d]
      BY <1>6, <2>3
    <3>2. Continues(k, d) \/ (Repeats(k, d) /\ link[d] = "error")
      BY <1>1, <2>1 DEF InFlight
    <3> QED BY <1>2, <2>1, <3>1, <3>2 DEF Continues, Repeats
  <2> QED BY <2>2, <2>3
<1>11. OpenIsServed'
  <2>1. \A d \in Conn : link'[d] = "open" => sub'[d].pc # "none"
    BY <1>1, <1>2, <1>5 DEF OpenIsServed
  <2>2. \A d \in Conn : sub'[d].after <= Len(log')
    <3>1. n <= Len(log)
      BY <1>4
    <3> QED BY <1>1, <1>2, <1>5, <3>1 DEF OpenIsServed
  <2>3. ASSUME NEW k \in Page, page[k].pc = "reading", link[page[k].conn] = "open"
        PROVE  /\ Continues(k, page[k].conn)'
               /\ sub'[page[k].conn].after = page'[k].after + Len(wire'[page[k].conn])
    <3>1. PICK d \in Conn : d = page[k].conn
      BY <1>1, <2>3 DEF OneReader
    <3>2. CASE d = c
      BY <1>2, <1>8, <2>3, <3>1, <3>2 DEF Continues
    <3>3. CASE d # c
      <4>1. Continues(k, d) /\ sub[d].after = page[k].after + Len(wire[d])
        BY <1>1, <2>3, <3>1 DEF OpenIsServed
      <4> QED BY <1>2, <1>5, <1>6, <3>1, <3>3, <4>1 DEF Continues
    <3> QED BY <3>2, <3>3
  <2> QED BY <1>2, <2>1, <2>2, <2>3 DEF OpenIsServed, Continues
<1> QED BY <1>9, <1>10, <1>11 DEF Flow

\* What a page does with the first frame of its connection.
ReadsNext(k, c) ==
  /\ Continues(k, c)
  /\ page[k].after + 1 <= Len(log)
  /\ shown' = [shown EXCEPT ![k] = Append(@, page[k].after + 1)]
  /\ page'[k].after = page[k].after + 1
  /\ page'[k].pc = "done" => log[page[k].after + 1] = "done"
SkipsRepetition(k, c) ==
  /\ Repeats(k, c) /\ link[c] = "error"
  /\ shown' = shown
  /\ page'[k].after = page[k].after
  /\ page'[k].pc = "done" => page[k].after = 0

LEMMA ReadFrame ==
  ASSUME Delivery, [Next]_vars, NEW k \in Page, Read(k), NEW c \in Conn, c = page[k].conn
  PROVE  /\ ReadsNext(k, c) \/ SkipsRepetition(k, c)
         /\ \/ page'[k].pc = "reading" /\ page'[k].conn = c /\ link' = link
            \/ page'[k].pc = "done" /\ page'[k].conn = None
               /\ link' = [link EXCEPT ![c] = IF @ = "open" THEN "cut" ELSE @]
         /\ \A j \in Page : j # k => page'[j] = page[j]
         /\ \A d \in Conn : d # c => wire'[d] = wire[d]
         /\ Len(wire'[c]) = Len(wire[c]) - 1 /\ Len(wire[c]) \in Nat \ {0}
         /\ \A i \in 1 .. Len(wire'[c]) : wire'[c][i] = wire[c][i + 1]
         /\ UNCHANGED <<sub, log, status>>
<1> DEFINE f == Head(wire[c])
           isNew == f.seq = 0 \/ f.seq > page[k].after
           q == IF isNew /\ f.seq > 0 THEN Shown(k, f.seq) ELSE page[k]
<1>1. /\ page[k].pc = "reading" /\ wire[c] # <<>> /\ wire[c] \in Seq(Frames) /\ page[k] \in Pages
      /\ page[k].after \in Nat /\ page[k].conn = c
  BY RowsAhead DEF Read
<1>2. /\ wire' = [wire EXCEPT ![c] = Tail(@)]
      /\ shown' = IF isNew /\ f.seq > 0 THEN [shown EXCEPT ![k] = Append(@, f.seq)] ELSE shown
      /\ IF isNew /\ f.event = "done"
           THEN page' = [page EXCEPT ![k] = [q EXCEPT !.pc = "done", !.conn = None]] /\ HangUp(k)
           ELSE page' = [page EXCEPT ![k] = q] /\ UNCHANGED link
      /\ UNCHANGED <<sub, log, status>>
  BY DEF Read, run
<1>3. /\ Len(wire[c]) \in Nat \ {0} /\ Len(Tail(wire[c])) = Len(wire[c]) - 1 /\ f = wire[c][1]
      /\ \A i \in 1 .. Len(Tail(wire[c])) : Tail(wire[c])[i] = wire[c][i + 1]
      /\ f \in Frames
  BY <1>1
<1>4. f.seq \in Nat
  BY <1>3 DEF Frames
<1>5. /\ q \in Pages /\ q.pc = page[k].pc /\ q.conn = page[k].conn
      /\ q.after = IF isNew /\ f.seq > 0 THEN f.seq ELSE page[k].after
  <2>1. CASE isNew /\ f.seq > 0
    <3>1. q = Shown(k, f.seq)
      BY <2>1
    <3>2. /\ Shown(k, f.seq) \in Pages
          /\ Shown(k, f.seq).pc = page[k].pc /\ Shown(k, f.seq).conn = page[k].conn
          /\ Shown(k, f.seq).after = f.seq
      BY <1>1, <1>4, ShownFields
    <3> HIDE DEF f, q, isNew
    <3> QED BY <2>1, <3>1, <3>2
  <2> QED BY <1>1, <2>1
<1>6. Continues(k, c) \/ (Repeats(k, c) /\ link[c] = "error")
  BY <1>1 DEF Delivery, InFlight
<1>7. "done" \in PagePC
  BY DEF PagePC, Over
<1> HIDE DEF q, f, isNew
<1>8. /\ page'[k].after = q.after
      /\ \/ page'[k].pc = "reading" /\ page'[k].conn = c /\ link' = link
         \/ page'[k].pc = "done" /\ page'[k].conn = None /\ isNew /\ f.event = "done"
            /\ link' = [link EXCEPT ![c] = IF @ = "open" THEN "cut" ELSE @]
      /\ \A j \in Page : j # k => page'[j] = page[j]
  <2>1. CASE ~(isNew /\ f.event = "done")
    <3>1. page' = [page EXCEPT ![k] = q] /\ link' = link
      BY <1>2, <2>1
    <3>2. page'[k] = q /\ \A j \in Page : j # k => page'[j] = page[j]
      BY <3>1, RowsAhead
    <3>3. page'[k].pc = "reading" /\ page'[k].conn = c /\ page'[k].after = q.after
      BY <1>1, <1>5, <3>2
    <3> QED BY <3>1, <3>2, <3>3
  <2>2. CASE isNew /\ f.event = "done"
    <3>1. page' = [page EXCEPT ![k] = Turned(q, "done", None)] /\ HangUp(k)
      BY <1>2, <2>2 DEF Turned
    <3>2. page'[k] = Turned(q, "done", None) /\ \A j \in Page : j # k => page'[j] = page[j]
      BY <3>1, RowsAhead
    <3>3. page'[k].pc = "done" /\ page'[k].conn = None /\ page'[k].after = q.after
      BY <1>5, <1>7, <3>2, PageFields
    <3>4. link' = [link EXCEPT ![c] = IF @ = "open" THEN "cut" ELSE @]
      BY <1>1, <3>1 DEF HangUp
    <3> QED BY <2>2, <3>2, <3>3, <3>4
  <2> QED BY <2>1, <2>2
<1>9. ReadsNext(k, c) \/ SkipsRepetition(k, c)
  <2>1. CASE Continues(k, c)
    <3>1. f.seq = page[k].after + 1 /\ f.seq <= Len(log) /\ f.event = log[f.seq]
      BY <1>3, <2>1 DEF Continues
    <3>2. isNew /\ f.seq > 0
      BY <1>1, <3>1 DEF isNew
    <3> QED BY <1>2, <1>5, <1>8, <2>1, <3>1, <3>2 DEF ReadsNext
  <2>2. CASE Repeats(k, c) /\ link[c] = "error"
    <3>1. f.seq = page[k].after
      BY <1>3, <2>2 DEF Repeats
    <3>2. ~(isNew /\ f.seq > 0) /\ (isNew => page[k].after = 0)
      BY <1>1, <3>1 DEF isNew
    <3> QED BY <1>2, <1>5, <1>8, <2>2, <3>2 DEF SkipsRepetition
  <2> QED BY <1>6, <2>1, <2>2
<1>10. /\ wire'[c] = Tail(wire[c])
       /\ \A d \in Conn : d # c => wire'[d] = wire[d]
  BY <1>2, RowsAhead
<1> QED BY <1>2, <1>3, <1>8, <1>9, <1>10

LEMMA ReadKeeps ==
  ASSUME Delivery, [Next]_vars, NEW k \in Page, Read(k)
  PROVE  Flow'
<1>1. OneReader /\ CursorIsShown /\ InFlight /\ OpenIsServed /\ ShownInOrder
  BY DEF Delivery
<1>2. PICK c \in Conn : c = page[k].conn /\ page[k].pc = "reading"
  BY <1>1 DEF Read, OneReader
<1> DEFINE a == page[k].after
<1>3. /\ ReadsNext(k, c) \/ SkipsRepetition(k, c)
      /\ \/ page'[k].pc = "reading" /\ page'[k].conn = c /\ link' = link
         \/ page'[k].pc = "done" /\ page'[k].conn = None
            /\ link' = [link EXCEPT ![c] = IF @ = "open" THEN "cut" ELSE @]
      /\ \A j \in Page : j # k => page'[j] = page[j]
      /\ \A d \in Conn : d # c => wire'[d] = wire[d]
      /\ Len(wire'[c]) = Len(wire[c]) - 1 /\ Len(wire[c]) \in Nat \ {0}
      /\ \A i \in 1 .. Len(wire'[c]) : wire'[c][i] = wire[c][i + 1]
      /\ UNCHANGED <<sub, log, status>>
  BY <1>2, ReadFrame
<1>4. a \in Nat /\ Len(shown[k]) = a /\ shown[k] \in Seq(Nat) /\ None \notin Conn
  BY <1>1, RowsAhead, StreamConstants DEF CursorIsShown, StreamConstants
<1>5. OneReader'
  BY <1>1, <1>2, <1>3, <1>4 DEF OneReader
<1>6. ASSUME NEW j \in Page
      PROVE  /\ page'[j].after = Len(shown'[j]) /\ page'[j].after <= Len(log')
             /\ \A i \in 1 .. Len(shown'[j]) : shown'[j][i] = i
  <2>1. /\ page[j].after = Len(shown[j]) /\ page[j].after <= Len(log)
        /\ \A i \in 1 .. Len(shown[j]) : shown[j][i] = i
    BY <1>1 DEF CursorIsShown, ShownInOrder
  <2>2. CASE SkipsRepetition(k, c)
    BY <1>3, <2>1, <2>2 DEF SkipsRepetition
  <2>3. CASE ReadsNext(k, c) /\ j # k
    <3>1. shown'[j] = shown[j]
      BY <2>3, RowsAhead DEF ReadsNext
    <3> QED BY <1>3, <2>1, <2>3, <3>1
  <2>4. CASE ReadsNext(k, c) /\ j = k
    <3>1. shown'[k] = Append(shown[k], a + 1) /\ page'[k].after = a + 1 /\ a + 1 <= Len(log)
      BY <2>4, RowsAhead DEF ReadsNext
    <3>2. Len(shown'[k]) = a + 1 /\ shown'[k][a + 1] = a + 1
          /\ \A i \in 1 .. a : shown'[k][i] = shown[k][i]
      BY <1>4, <3>1
    <3> QED BY <1>3, <1>4, <2>1, <2>4, <3>1, <3>2
  <2> QED BY <1>3, <2>2, <2>3, <2>4
<1>7. CursorIsShown' /\ ShownInOrder'
  BY <1>6 DEF CursorIsShown, ShownInOrder
<1>8. /\ Continues(k, c) /\ page'[k].after = a + 1 => Continues(k, c)'
      /\ Repeats(k, c) /\ page'[k].after = a => Repeats(k, c)'
  <2>1. \A i \in 1 .. Len(wire'[c]) : i + 1 \in 1 .. Len(wire[c])
    BY <1>3
  <2>2. Repeats(k, c) /\ page'[k].after = a => Repeats(k, c)'
    BY <1>3, <2>1 DEF Repeats
  <2>3. ASSUME Continues(k, c), page'[k].after = a + 1, NEW i \in 1 .. Len(wire'[c])
        PROVE  /\ wire'[c][i].seq = page'[k].after + i
               /\ wire'[c][i].seq <= Len(log')
               /\ wire'[c][i].event = log'[wire'[c][i].seq]
    <3>1. /\ wire[c][i + 1].seq = a + (i + 1) /\ wire[c][i + 1].seq <= Len(log)
          /\ wire[c][i + 1].event = log[wire[c][i + 1].seq]
      BY <2>1, <2>3 DEF Continues
    <3>2. wire'[c][i] = wire[c][i + 1]
      BY <1>3
    <3>3. a + (i + 1) = page'[k].after + i
      BY <1>4, <2>3
    <3> QED BY <1>3, <3>1, <3>2, <3>3
  <2> QED BY <2>2, <2>3 DEF Continues
<1>9. \A j \in Page : j # k /\ page[j].pc = "reading" => page[j].conn \in Conn /\ page[j].conn # c
  BY <1>1, <1>2 DEF OneReader
<1>10. ASSUME NEW j \in Page, j # k, NEW d \in Conn, d # c
       PROVE  Continues(j, d)' = Continues(j, d) /\ Repeats(j, d)' = Repeats(j, d)
  BY <1>3, <1>10 DEF Continues, Repeats
<1>11. InFlight'
  <2> SUFFICES ASSUME NEW j \in Page, page'[j].pc = "reading"
               PROVE  \E d \in Conn : /\ d = page'[j].conn
                                      /\ Continues(j, d)' \/ (Repeats(j, d)' /\ link'[d] = "error")
    BY DEF InFlight, Continues, Repeats
  <2>1. CASE j = k
    <3>1. page'[k].conn = c /\ link' = link
      BY <1>3, <2>1
    <3> QED BY <1>3, <1>8, <2>1, <3>1 DEF ReadsNext, SkipsRepetition
  <2>2. CASE j # k
    <3>1. page'[j] = page[j] /\ page[j].pc = "reading"
      BY <1>3, <2>2
    <3>2. PICK d \in Conn : d = page[j].conn /\ d # c
      BY <1>9, <2>2, <3>1
    <3>3. Continues(j, d) \/ (Repeats(j, d) /\ link[d] = "error")
      BY <1>1, <3>1, <3>2 DEF InFlight
    <3>4. link'[d] = link[d]
      BY <1>3, <3>2, RowsAhead
    <3> QED BY <1>10, <2>2, <3>1, <3>2, <3>3, <3>4
  <2> QED BY <2>1, <2>2
<1>12. OpenIsServed'
  <2>1. \A d \in Conn : link'[d] = "open" => link[d] = "open"
    BY <1>3, RowsAhead
  <2>2. \A d \in Conn : link'[d] = "open" => sub'[d].pc # "none"
    BY <1>1, <1>3, <2>1 DEF OpenIsServed
  <2>3. \A d \in Conn : sub'[d].after <= Len(log')
    BY <1>1, <1>3 DEF OpenIsServed
  <2>4. ASSUME NEW j \in Page, page'[j].pc = "reading", link'[page'[j].conn] = "open"
        PROVE  \E d \in Conn : /\ d = page'[j].conn /\ Continues(j, d)'
                               /\ sub'[d].after = page'[j].after + Len(wire'[d])
    <3>1. CASE j = k
      <4>1. page'[k].conn = c /\ link[c] = "open"
        BY <1>3, <2>4, <3>1
      <4>2. ReadsNext(k, c)
        BY <1>3, <4>1 DEF SkipsRepetition
      <4>3. Continues(k, c)' /\ page'[k].after = a + 1
        BY <1>8, <4>2 DEF ReadsNext
      <4>4. sub[c].after = a + Len(wire[c])
        BY <1>1, <1>2, <4>1 DEF OpenIsServed
      <4>5. sub'[c].after = page'[k].after + Len(wire'[c])
        <5>1. sub'[c].after = sub[c].after /\ page'[k].after = a + 1
          BY <1>3, <4>3
        <5>2. Len(wire'[c]) = Len(wire[c]) - 1 /\ Len(wire[c]) \in Nat \ {0}
          BY <1>3
        <5>3. a \in Nat
          BY <1>4
        <5> HIDE DEF a
        <5>4. \A x, n \in Nat : n # 0 => x + n = (x + 1) + (n - 1)
          OBVIOUS
        <5>5. a + Len(wire[c]) = (a + 1) + (Len(wire[c]) - 1)
          BY <5>2, <5>3, <5>4
        <5> QED BY <4>4, <5>1, <5>2, <5>5
      <4> QED BY <3>1, <4>1, <4>3, <4>5
    <3>2. CASE j # k
      <4>1. page'[j] = page[j] /\ page[j].pc = "reading"
        BY <1>3, <2>4, <3>2
      <4>2. PICK d \in Conn : d = page[j].conn /\ d # c
        BY <1>9, <3>2, <4>1
      <4>3. Continues(j, d) /\ sub[d].after = page[j].after + Len(wire[d])
        BY <1>1, <2>1, <2>4, <4>1, <4>2 DEF OpenIsServed
      <4> QED BY <1>3, <1>10, <3>2, <4>1, <4>2, <4>3
    <3> QED BY <3>1, <3>2
  <2>5. ASSUME NEW j \in Page, page'[j].pc = "reading", link'[page'[j].conn] = "open"
        PROVE  /\ Continues(j, page[j].conn)'
               /\ sub'[page'[j].conn].after = page'[j].after + Len(wire'[page'[j].conn])
    <3>1. PICK d \in Conn : /\ d = page'[j].conn /\ Continues(j, d)'
                            /\ sub'[d].after = page'[j].after + Len(wire'[d])
      BY <2>4, <2>5
    <3>2. sub'[page'[j].conn].after = page'[j].after + Len(wire'[page'[j].conn])
      BY <3>1
    <3>3. Continues(j, page[j].conn)'
      BY <3>1 DEF Continues
    <3> QED BY <3>2, <3>3
  <2> QED BY <2>2, <2>3, <2>5 DEF OpenIsServed
<1> QED BY <1>5, <1>7, <1>11, <1>12 DEF Flow

LEMMA ConnectKeeps ==
  ASSUME Delivery, [Next]_vars, NEW k \in Page, Connect(k)
  PROVE  /\ Flow'
         /\ shown' = shown
         /\ \A j \in Page : page'[j].pc = page[j].pc \/ page'[j].pc = "reading"
<1>1. OneReader /\ CursorIsShown /\ InFlight /\ OpenIsServed /\ ShownInOrder
  BY DEF Delivery
<1>2. PICK c \in Conn :
        /\ FreeConn(c)
        /\ page' = [page EXCEPT ![k].pc = "reading", ![k].conn = c]
        /\ Refused(k, c) \/ \E p \in Proc : Subscribed(k, c, p)
  BY DEF Connect
<1>3. page[k].pc = "connect" /\ UNCHANGED <<log, shown>>
  BY DEF Connect, run
<1>4. ClientTypes /\ None \notin Conn
  BY StreamConstants DEF Delivery, Types, StreamConstants
<1>5. /\ page'[k].pc = "reading" /\ page'[k].conn = c /\ page'[k].after = page[k].after
      /\ \A j \in Page : j # k => page'[j] = page[j]
  <2>1. Turns(k, "reading", c)
    BY <1>2 DEF Turns, Turned
  <2>2. "reading" \in PagePC
    BY DEF PagePC
  <2> QED BY <1>4, <2>1, <2>2, PageEdits
<1>6. \A j \in Page : page[j].conn # c
  BY <1>2 DEF FreeConn
<1>7. \A d \in Conn : d # c => sub'[d] = sub[d] /\ link'[d] = link[d] /\ wire'[d] = wire[d]
  BY <1>2, RowsAhead DEF Refused, Subscribed
<1>8. \/ /\ Repeats(k, c)' /\ link'[c] = "error" /\ sub'[c] = sub[c]
      \/ /\ Continues(k, c)' /\ link'[c] = "open" /\ sub'[c].pc = "list"
         /\ sub'[c].after = page'[k].after + Len(wire'[c]) /\ sub'[c].after = page[k].after
  <2>1. CASE Refused(k, c)
    <3>1. link'[c] = "error" /\ sub'[c] = sub[c]
      BY <2>1, RowsAhead DEF Refused
    <3>2. wire'[c] = <<[seq |-> page[k].after, event |-> "error"], [seq |-> page[k].after, event |-> "done"]>>
      BY <2>1, RowsAhead DEF Refused, Echo
    <3>3. /\ Len(wire'[c]) = 2 /\ wire'[c][1].seq = page[k].after /\ wire'[c][2].seq = page[k].after
      BY <3>2
    <3>4. \A i \in 1 .. Len(wire'[c]) : wire'[c][i].seq = page'[k].after
      BY <1>5, <3>3
    <3> QED BY <3>1, <3>4 DEF Repeats
  <2>2. ASSUME NEW p \in Proc, Subscribed(k, c, p)
        PROVE  /\ Continues(k, c)' /\ link'[c] = "open" /\ sub'[c].pc = "list"
               /\ sub'[c].after = page'[k].after + Len(wire'[c]) /\ sub'[c].after = page[k].after
    <3>1. /\ sub'[c] = Subscription(p, page[k].after) /\ link'[c] = "open" /\ wire'[c] = <<>>
      BY <2>2, RowsAhead DEF Subscribed
    <3>2. sub'[c].pc = "list" /\ sub'[c].after = page[k].after
      BY <3>1 DEF Subscription
    <3>3. Len(wire'[c]) = 0
      BY <3>1
    <3>4. page[k].after \in Nat
      BY RowsAhead
    <3>5. page'[k].after + Len(wire'[c]) = page[k].after
      BY <1>5, <3>3, <3>4
    <3> QED BY <3>1, <3>2, <3>3, <3>5 DEF Continues
  <2> QED BY <1>2, <2>1, <2>2
<1>9. OneReader'
  BY <1>1, <1>4, <1>5, <1>6 DEF OneReader
<1>10. ShownInOrder'
  BY <1>1, <1>3 DEF ShownInOrder
<1>11. \A j \in Page : page'[j].after = page[j].after
  BY <1>5
<1>12. CursorIsShown'
  BY <1>1, <1>3, <1>11 DEF CursorIsShown
<1>13. ASSUME NEW j \in Page, j # k, page'[j].pc = "reading"
       PROVE  \E d \in Conn : /\ d # c /\ d = page'[j].conn /\ d = page[j].conn
                              /\ page[j].pc = "reading"
                              /\ Continues(j, d)' = Continues(j, d) /\ Repeats(j, d)' = Repeats(j, d)
  <2>1. page'[j] = page[j]
    BY <1>5, <1>13
  <2>2. PICK d \in Conn : d = page[j].conn
    BY <1>1, <1>13, <2>1 DEF OneReader
  <2>3. d # c
    BY <1>6, <2>2
  <2>4. wire'[d] = wire[d]
    BY <1>7, <2>3
  <2>5. Continues(j, d)' = Continues(j, d) /\ Repeats(j, d)' = Repeats(j, d)
    BY <1>3, <2>1, <2>4 DEF Continues, Repeats
  <2> QED BY <1>13, <2>1, <2>2, <2>3, <2>5
<1>14. InFlight'
  <2>1. ASSUME NEW j \in Page, page'[j].pc = "reading"
        PROVE  \E d \in Conn : /\ d = page'[j].conn
                               /\ Continues(j, d)' \/ (Repeats(j, d)' /\ link'[d] = "error")
    <3>1. CASE j = k
      BY <1>5, <1>8, <3>1
    <3>2. CASE j # k
      <4>1. PICK d \in Conn : /\ d # c /\ d = page'[j].conn /\ d = page[j].conn
                              /\ page[j].pc = "reading"
                              /\ Continues(j, d)' = Continues(j, d) /\ Repeats(j, d)' = Repeats(j, d)
        BY <1>13, <2>1, <3>2
      <4>2. Continues(j, d) \/ (Repeats(j, d) /\ link[d] = "error")
        BY <1>1, <4>1 DEF InFlight
      <4> QED BY <1>7, <4>1, <4>2
    <3> QED BY <3>1, <3>2
  <2> QED BY <2>1 DEF InFlight, Continues, Repeats
<1>15. OpenIsServed'
  <2>1. \A d \in Conn : link'[d] = "open" => sub'[d].pc # "none"
    BY <1>1, <1>7, <1>8 DEF OpenIsServed
  <2>2. \A d \in Conn : sub'[d].after <= Len(log')
    BY <1>1, <1>3, <1>7, <1>8 DEF OpenIsServed, CursorIsShown
  <2>3. ASSUME NEW j \in Page, page'[j].pc = "reading", link'[page'[j].conn] = "open"
        PROVE  \E d \in Conn : /\ d = page'[j].conn /\ Continues(j, d)'
                               /\ sub'[d].after = page'[j].after + Len(wire'[d])
    <3>1. CASE j = k
      BY <1>5, <1>8, <2>3, <3>1
    <3>2. CASE j # k
      <4>1. PICK d \in Conn : /\ d # c /\ d = page'[j].conn /\ d = page[j].conn
                              /\ page[j].pc = "reading"
                              /\ Continues(j, d)' = Continues(j, d) /\ Repeats(j, d)' = Repeats(j, d)
        BY <1>13, <2>3, <3>2
      <4>2. sub'[d] = sub[d] /\ link'[d] = link[d] /\ wire'[d] = wire[d] /\ page'[j] = page[j]
        BY <1>5, <1>7, <3>2, <4>1
      <4>3. Continues(j, d) /\ sub[d].after = page[j].after + Len(wire[d])
        BY <1>1, <2>3, <4>1, <4>2 DEF OpenIsServed
      <4> QED BY <4>1, <4>2, <4>3
    <3> QED BY <3>1, <3>2
  <2>4. ASSUME NEW j \in Page, page'[j].pc = "reading", link'[page'[j].conn] = "open"
        PROVE  /\ Continues(j, page[j].conn)'
               /\ sub'[page'[j].conn].after = page'[j].after + Len(wire'[page'[j].conn])
    <3>1. PICK d \in Conn : /\ d = page'[j].conn /\ Continues(j, d)'
                            /\ sub'[d].after = page'[j].after + Len(wire'[d])
      BY <2>3, <2>4
    <3>2. sub'[page'[j].conn].after = page'[j].after + Len(wire'[page'[j].conn])
      BY <3>1
    <3>3. Continues(j, page[j].conn)'
      BY <3>1 DEF Continues
    <3> QED BY <3>2, <3>3
  <2> QED BY <2>1, <2>2, <2>4 DEF OpenIsServed
<1> QED BY <1>3, <1>5, <1>9, <1>10, <1>12, <1>14, <1>15 DEF Flow

LEMMA FlowStep ==
  ASSUME Delivery, [Next]_vars
  PROVE  Flow'
<1>1. CASE \E k \in Page : Connect(k)
  BY <1>1, ConnectKeeps
<1>2. CASE \E k \in Page : Read(k)
  BY <1>2, ReadKeeps
<1>3. CASE \E c \in Conn : List(c) /\ Send(c)
  BY <1>3, SendKeeps
<1>4. CASE ~(\E k \in Page : Connect(k) \/ Read(k)) /\ ~(\E c \in Conn : List(c) /\ Send(c))
  BY <1>4, FewerFrames, CalmPages, FewerKeeps
<1> QED BY <1>1, <1>2, <1>3, <1>4

-----------------------------------------------------------------------------
(* What a page takes for the end                                           *)

\* How the state of a page that stopped came about.
LEMMA HowPagesStop ==
  ASSUME Delivery, [Next]_vars, NEW j \in Page
  PROVE  \/ /\ shown'[j] = shown[j]
            /\ page'[j].pc = "returned" => page[j].pc = "returned" \/ StateSaysStop(j)
            /\ page'[j].pc = "done" => page[j].pc = "done"
         \/ /\ ReadsNext(j, page[j].conn) \/ SkipsRepetition(j, page[j].conn)
            /\ page'[j].pc \in {"reading", "done"}
            /\ UNCHANGED <<status, log>>
<1>1. CASE \E k \in Page : Connect(k)
  BY <1>1, ConnectKeeps
<1>2. ASSUME NEW k \in Page, Read(k), k # j
      PROVE  shown'[j] = shown[j] /\ page'[j] = page[j]
  <2>1. PICK c \in Conn : c = page[k].conn
    BY <1>2 DEF Read, Delivery, OneReader
  <2>2. (ReadsNext(k, c) \/ SkipsRepetition(k, c)) /\ page'[j] = page[j]
    BY <1>2, <2>1, ReadFrame
  <2> QED BY <1>2, <2>2, RowsAhead DEF ReadsNext, SkipsRepetition
<1>3. CASE Read(j)
  <2>1. PICK c \in Conn : c = page[j].conn
    BY <1>3 DEF Read, Delivery, OneReader
  <2> QED BY <1>3, <2>1, ReadFrame
<1>4. CASE ~(\E k \in Page : Connect(k) \/ Read(k))
  BY <1>4, CalmPages DEF Calm
<1> QED BY <1>1, <1>2, <1>3, <1>4

LEMMA StopStep ==
  ASSUME Delivery, [Next]_vars
  PROVE  ReturnsAtAStop' /\ DoneIsTheRuns'
<1>1. /\ Types /\ StopIsSaid /\ CursorIsShown /\ ReturnsAtAStop /\ DoneIsTheRuns
      /\ RunTypes
  BY DEF Delivery, Types
<1>2. \A j \in Page : /\ shown[j] \in Seq(Nat) /\ page[j].after \in Nat
                      /\ page[j].after = Len(shown[j]) /\ Len(shown[j]) <= Len(log)
  BY <1>1, RowsAhead DEF CursorIsShown
<1>3. ASSUME NEW j \in Page, page'[j].pc = "returned"
      PROVE  shown'[j] # <<>> /\ log'[Len(shown'[j])] \in Stop
  <2>1. shown'[j] = shown[j] /\ (page[j].pc = "returned" \/ StateSaysStop(j))
    BY <1>3, HowPagesStop
  <2>2. shown[j] # <<>> /\ log[Len(shown[j])] \in Stop
    <3>1. CASE page[j].pc = "returned"
      BY <1>1, <3>1 DEF ReturnsAtAStop
    <3>2. CASE StateSaysStop(j)
      <4>1. Len(shown[j]) = Len(log) /\ Len(log) \in Nat /\ log # <<>>
        BY <1>1, <1>2, <3>2, RowsAhead DEF StateSaysStop, SawAll, StopIsSaid
      <4>2. status \in {"parked", "ended"}
        BY <1>1, <3>2 DEF StateSaysStop, AtRest, RunTypes
      <4>3. log[Len(log)] \in Stop
        BY <1>1, <4>2 DEF StopIsSaid, Stop
      <4>4. Len(log) # 0
        BY <1>1, <4>1 DEF RunTypes
      <4> QED BY <4>1, <4>3, <4>4
    <3> QED BY <2>1, <3>1, <3>2
  <2>3. Len(shown[j]) \in 1 .. Len(log)
    BY <1>2, <2>2
  <2> QED BY <2>1, <2>2, <2>3, RowsAhead
<1>4. ASSUME NEW j \in Page, page'[j].pc = "done", shown'[j] # <<>>
      PROVE  status' = "ended" /\ Len(shown'[j]) = Len(log')
  <2>1. CASE shown'[j] = shown[j] /\ page[j].pc = "done"
    <3>1. status = "ended" /\ Len(shown[j]) = Len(log)
      BY <1>1, <1>4, <2>1 DEF DoneIsTheRuns
    <3>2. UNCHANGED <<status, log>>
      BY <1>1, <3>1, RowsStep
    <3> QED BY <2>1, <3>1, <3>2
  <2>2. CASE ReadsNext(j, page[j].conn) /\ UNCHANGED <<status, log>>
    <3>1. log[page[j].after + 1] = "done" /\ page[j].after + 1 \in 1 .. Len(log)
      BY <1>2, <1>4, <2>2, RowsAhead DEF ReadsNext
    <3>2. page[j].after + 1 = Len(log) /\ status = "ended"
      BY <1>1, <3>1 DEF StopIsSaid
    <3>3. shown'[j] = Append(shown[j], page[j].after + 1)
      BY <2>2, RowsAhead DEF ReadsNext
    <3>4. Len(shown'[j]) = page[j].after + 1
      BY <1>2, <3>3
    <3> QED BY <2>2, <3>2, <3>4
  <2>3. CASE SkipsRepetition(j, page[j].conn)
    <3>1. page[j].after = 0 /\ shown'[j] = shown[j]
      BY <1>4, <2>3 DEF SkipsRepetition
    <3>2. shown[j] = <<>>
      BY <1>2, <3>1
    <3> QED BY <1>4, <3>1, <3>2
  <2> QED BY <1>4, <2>1, <2>2, <2>3, HowPagesStop
<1> QED BY <1>3, <1>4 DEF ReturnsAtAStop, DoneIsTheRuns

-----------------------------------------------------------------------------
(* The theorems                                                            *)

LEMMA DeliveryAtFirst ==
  ASSUME Init
  PROVE  Delivery
<1>1. None \notin Conn /\ Drainer \in Proc
  BY StreamConstants DEF StreamConstants
<1>2. log = <<"work">> /\ Len(log) = 1 /\ log[1] = "work" /\ status = "active"
  BY DEF Init
<1>3. RunTypes /\ StopIsSaid
  BY <1>2 DEF RunTypes, StopIsSaid, Kind
<1>4. ServerTypes
  BY <1>1 DEF Init, ServerTypes, Subs, SubPC, Links
<1>5. ClientTypes
  BY DEF Init, ClientTypes, Pages, PagePC
<1>6. /\ \A k \in Page : /\ page[k].pc = "connect" /\ page[k].conn = None /\ page[k].after = 0
                         /\ shown[k] = <<>>
      /\ \A c \in Conn : link[c] = "unused" /\ sub[c].after = 0
  BY DEF Init
<1>7. OneReader /\ CursorIsShown /\ InFlight /\ ShownInOrder /\ ReturnsAtAStop /\ DoneIsTheRuns
  BY <1>1, <1>2, <1>6 DEF OneReader, CursorIsShown, InFlight, ShownInOrder, ReturnsAtAStop, DoneIsTheRuns
<1>8. OpenIsServed
  BY <1>2, <1>6 DEF OpenIsServed
<1> QED BY <1>3, <1>4, <1>5, <1>7, <1>8 DEF Delivery, Types

LEMMA DeliveryStep ==
  ASSUME Delivery, [Next]_vars
  PROVE  Delivery'
<1>1. Types /\ StopIsSaid /\ OneReader /\ RunTypes
  BY DEF Delivery, Types
<1>2. RunTypes' /\ StopIsSaid'
  BY <1>1, RowsStep
<1>3. ServerTypes'
  BY <1>1, SubStep, WireStep DEF ServerTypes, SubTypes, WireTypes
<1>4. ClientTypes'
  BY <1>1, ClientStep
<1> QED BY <1>2, <1>3, <1>4, FlowStep, StopStep DEF Delivery, Types, Flow

\* The rows, the frames in flight and the pages agree as Delivery says in every
\* state the system reaches.
THEOREM DeliveryHolds == Spec => []Delivery
BY DeliveryAtFirst, DeliveryStep, PTL DEF Spec

\* Every page passes on every event once and in order: the cursor a client
\* reconnects with, the rows a subscription reads from there and the frames a
\* cut connection loses leave no gap and no repetition.
THEOREM EventsAreShownInOrder == Spec => []ShownInOrder
BY DeliveryHolds, PTL DEF Delivery

\* A page that asked for the state of the run and stopped has shown the event
\* that put the run to rest, whatever the run did since.
THEOREM PagesReturnAtAStop == Spec => []ReturnsAtAStop
BY DeliveryHolds, PTL DEF Delivery

\* A page that has shown events takes for the end of the run only the run's own
\* last event, with every event before it shown.
THEOREM DoneIsBelievedOnce == Spec => []DoneIsTheRuns
BY DeliveryHolds, PTL DEF Delivery

=============================================================================
