-------------------------------- MODULE Site --------------------------------
(* The server as its routes put it together (router.go), and browsers that    *)
(* use it: a request passes the middleware of its route (Accounts, RateLimit) *)
(* and is handled (Apps, ChatPage).                                           *)
(*                                                                            *)
(* Everything any number of clients may do at once is too much to check.  A   *)
(* case says which requests each client sends, how many, and what may go      *)
(* wrong meanwhile; the behaviours are those of all the cases.                *)
EXTENDS Apps, RateLimit, ChatPage

CONSTANTS
  Cases      \* what may happen in a behaviour, see Init

Case ==
  [users : Seq(UserRow), messages : Seq(Nat), ops : [Client -> SUBSET Ops],
   asks : [Client -> Nat], pages : SUBSET Page, faults : Nat, clock : Nat]

ASSUME SiteConstants ==
  /\ Cases \subseteq Case
  /\ \A k \in Cases :
       /\ Len(k.users) \in 1 .. MaxUsers /\ Len(k.messages) <= MaxMessages
       /\ \A i, j \in DOMAIN k.messages : i < j => k.messages[i] <= k.messages[j]
  /\ MaxApps # 0

VARIABLES
  case,      \* the case of this behaviour
  asked,     \* requests a client has sent
  faults     \* failures so far

siteVars == <<case, asked, faults>>
vars == <<accountVars, appVars, limitVars, pageVars, siteVars>>

SiteTypes ==
  /\ case \in Cases
  /\ asked \in [Client -> Nat] /\ \A c \in Client : asked[c] <= case.asks[c]
  /\ faults \in 0 .. case.faults

TypeOK == AccountTypes /\ AppTypes /\ LimitTypes /\ PageTypes /\ SiteTypes

-----------------------------------------------------------------------------
AccountsOf(c) == {u \in UserId : users[u].by = c}

\* The users there are at first have logged in, and the first of them has made
\* an application with a conversation of case.messages messages.
Init ==
  /\ case \in Cases
  /\ users = case.users
  /\ sessions = [c \in Client |->
       IF AccountsOf(c) = {} THEN None
       ELSE [user |-> Min(AccountsOf(c)), role |-> users[Min(AccountsOf(c))].role]]
  /\ cookie = [c \in Client |-> sessions[c] # None]
  /\ req = [c \in Client |-> None]
  /\ answer = [c \in Client |-> None]
  /\ apps = <<[owner |-> 1, name |-> 1, priority |-> 1, gone |-> FALSE]>>
  /\ second = case.messages
  /\ cache = None /\ stale = FALSE
  /\ walk = [c \in Client |-> NoWalk]
  /\ got = [c \in Client |-> None]
  /\ asked = [c \in Client |-> 0]
  /\ faults = 0
  /\ LimitInit /\ PageInit

\* A failure, of those the case allows.
Fault == faults < case.faults /\ faults' = faults + 1

-----------------------------------------------------------------------------
(* Requests.                                                                *)

Gone == {<<"user", u>> : u \in {u \in UserId : users[u].gone}}
          \cup {<<"app", a>> : a \in {a \in AppId : apps[a].gone}}

Wanted(op) ==
  CASE op \in {"register", "login", "addUser"} -> Account
    [] op \in UserOps -> UserId
    [] op \in {"history", "chat"} -> {Talked}
    [] op \in AppOps -> AppId
    [] OTHER -> {None}

\* A client sends a request; one for the conversation begins a walk through it
\* or asks for the next page of the one begun.
Sends(c) ==
  /\ asked[c] < case.asks[c]
  /\ asked' = [asked EXCEPT ![c] = @ + 1]
  /\ \E op \in case.ops[c] : \E what \in Wanted(op) :
       /\ Ask(c, op, what, Gone)
       /\ IF op = "history" /\ walk[c].size = 0
          THEN \E size \in 1 .. MaxSize :
                 walk' = [walk EXCEPT ![c] = [NoWalk EXCEPT !.size = size]]
          ELSE UNCHANGED walk
  /\ UNCHANGED <<apps, second, cache, stale, got, limitVars, pageVars, case, faults>>

ChatKey(c) == <<"app-chat", req[c].user>>

\* The limiter of /app/chat.
Limit(c) ==
  /\ At(c, "limit")
  /\ \/ Admit(ChatKey(c)) /\ GoOn(c, "do")
     \/ Refuse(ChatKey(c)) /\ Answer(c, FALSE, {}) /\ UNCHANGED Stored
  /\ UNCHANGED <<appVars, pageVars, siteVars>>

Handle(c) ==
  \/ /\ AccountStep(c)
     /\ UNCHANGED <<appVars, limitVars, pageVars, siteVars>>
  \/ /\ \/ OwnerStep(c) \/ AdminStep(c) \/ List(c) \/ HistoryStep(c) \/ ChatStep(c)
        \/ ClearHistory(c, TRUE) \/ FillCache(c, TRUE)
     /\ UNCHANGED <<limitVars, pageVars, siteVars>>

-----------------------------------------------------------------------------
(* The page, and the POSTs of its requests.                                 *)

RunKey(p) == <<"app-graph-run", Min(AccountsOf(p))>>

\* AuthMiddleware, the limiter and StartGraphRun.
Checked(n) ==
  \/ /\ PostAt(n, "auth")
     /\ Pass(n, IF KnownUser(post[n].by) THEN "limit" ELSE "reply")
     /\ UNCHANGED limitVars
  \/ /\ PostAt(n, "limit")
     /\ \/ Admit(RunKey(post[n].by)) /\ Pass(n, "app")
        \/ Refuse(RunKey(post[n].by)) /\ Pass(n, "reply")
  \/ /\ PostAt(n, "app")
     /\ Pass(n, IF Exists(Talked) THEN "look" ELSE "reply")
     /\ UNCHANGED limitVars

PageWorks ==
  /\ \/ /\ \E p \in case.pages : PageStep(p)
        /\ UNCHANGED limitVars
     \/ \E n \in 1 .. MaxPosts :
          Checked(n) \/ (ServerStep(n) /\ UNCHANGED limitVars)
     \/ /\ \E r \in Run : RunMoves(r)
        /\ UNCHANGED limitVars
  /\ UNCHANGED <<accountVars, appVars, siteVars>>

-----------------------------------------------------------------------------
(* Time and failures.                                                       *)

TimePasses ==
  /\ clock < case.clock
  /\ Tick
  /\ UNCHANGED <<accountVars, appVars, pageVars, siteVars>>

Fails ==
  /\ Fault
  /\ \/ /\ \E n \in 1 .. MaxPosts : PostIsAnswered(n, FALSE)
        /\ UNCHANGED <<accountVars, appVars>>
     \/ /\ \E c \in Client : ClearHistory(c, FALSE) \/ FillCache(c, FALSE)
        /\ UNCHANGED pageVars
     \/ CacheExpires /\ UNCHANGED <<accountVars, pageVars>>
     \/ (\E c \in Client : Expire(c)) /\ UNCHANGED <<appVars, pageVars>>
  /\ UNCHANGED <<limitVars, case, asked>>

Next ==
  \/ \E c \in Client : Sends(c) \/ Limit(c) \/ Handle(c)
  \/ PageWorks \/ TimePasses \/ Fails

Spec == Init /\ [][Next]_vars

-----------------------------------------------------------------------------
(* Properties                                                               *)

\* Two answers show users who are deleted: that of a login, which does not look
\* at isDelete, and the lists of other people's applications, where such a user
\* still owns some (UserLogin, GetAppVoList).
ShowsAnyUser == {"login", "listGood", "listApps"}

Hides(a) ==
  "app" \notin a.late /\ ("user" \in a.late => a.op \in ShowsAnyUser)

\* But for these, no answer shows or changes a row that was deleted before its
\* request was sent, nor serves a user who was deleted before, whatever sessions
\* (also one opened after the deletion), caches and cached pages still hold: the
\* row of the user is looked at again for every request (GetLoginUserVo, and
\* isDelete in user_logic.go and app_logic.go).
DeletedIsHidden == \A c \in Client : answer[c] # None => Hides(answer[c])

\* Who walks through a conversation page by page sees no message twice and none
\* out of order, also when messages share a second and others are added
\* meanwhile; and misses none between two that are shown, unless the cached page
\* was ever behind by two messages (ListAppChatHistoryByCursor).
WalkMissesNothing ==
  \A c \in Client :
    \A i \in 2 .. Len(walk[c].shown) :
      LET above == walk[c].shown[i - 1]
      IN IF stale THEN walk[c].shown[i] < above ELSE walk[c].shown[i] = above - 1

=============================================================================
