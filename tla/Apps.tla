-------------------------------- MODULE Apps --------------------------------
(* Applications and the conversations shown with them: the rows of MySQL,    *)
(* the page of the newest messages that Redis caches for a day, and the       *)
(* requests of owners and administrators that read and write them.            *)
(*                                                                            *)
(* One application, Talked, has a conversation.  A message is its number in   *)
(* it, as its id grows with it; second[i] is the second it was created in,    *)
(* for that is how precise createTime is.  What messages and applications     *)
(* contain is left out.  The summaries of a conversation are in ChatMemory.   *)
EXTENDS Accounts, FiniteSetsExt, SequencesExt

CONSTANTS
  MaxSize,    \* what a page may have at most (50 messages, 20 applications)
  Window,     \* the newest messages that are read and cached (100)
  MaxMessages \* bound: messages of the conversation

ASSUME AppConstants == {MaxSize, Window} \subseteq Nat \ {0} /\ MaxMessages \in Nat

Talked == 1

VARIABLES
  apps,      \* the table of applications, by id
  second,    \* chat_history: the second in which a message was created
  cache,     \* Redis: the messages of the cached page, or None
  stale,     \* history: has the cached page ever been Behind?
  walk,      \* a client that reads the conversation page by page
  got        \* the messages a request has read so far

appVars == <<apps, second, cache, stale, walk, got>>
Talk == <<second, cache, stale, walk, got>>

AppRow == [owner : 1 .. MaxUsers, name : 1 .. 2, priority : 0 .. 1, gone : BOOLEAN]
NoWalk == [size |-> 0, after |-> None, shown |-> <<>>]

AppId == DOMAIN apps
Exists(a) == a \in AppId /\ ~apps[a].gone
Owns(c, a) == apps[a].owner = req[c].user

\* The rows of the conversation that are not deleted: they go with the application.
Message == DOMAIN second
Rows == IF Exists(Talked) THEN Message ELSE {}

AppTypes ==
  /\ apps \in Seq(AppRow) /\ Len(apps) <= MaxApps
  /\ second \in Seq(Nat) /\ Len(second) <= MaxMessages
  /\ cache = None \/ cache \subseteq Message
  /\ stale \in BOOLEAN
  /\ \A c \in Client : /\ walk[c].size \in 0 .. MaxSize
                       /\ walk[c].after \in Message \cup {None}
                       /\ walk[c].shown \in Seq(Message)
                       /\ got[c] = None \/ got[c] \subseteq Message

Only(c, ok) == Reply(c, ok) /\ UNCHANGED appVars

-----------------------------------------------------------------------------
(* Owners                                                                   *)

AddApp(c) ==
  /\ Doing(c, "addApp", "do") /\ Len(apps) < MaxApps
  /\ apps' = Append(apps, [owner |-> req[c].user, name |-> 1, priority |-> 0,
                           gone |-> FALSE])
  /\ Reply(c, TRUE)
  /\ UNCHANGED Talk

\* The row is read and then written; one that was deleted in between is left
\* alone, and the answer says that it was updated.
ReadThen(c, allowed, step) ==
  IF Exists(req[c].what) /\ allowed
  THEN GoOn(c, step) /\ UNCHANGED appVars
  ELSE Only(c, FALSE)

WriteRow(c, changed) ==
  /\ apps' = IF Exists(req[c].what) THEN [apps EXCEPT ![req[c].what] = changed] ELSE apps
  /\ Reply(c, TRUE)
  /\ UNCHANGED Talk

UpdateApp(c) ==
  \/ Doing(c, "updateApp", "do") /\ ReadThen(c, Owns(c, req[c].what), "write")
  \/ /\ Doing(c, "updateApp", "write")
     /\ WriteRow(c, [apps[req[c].what] EXCEPT !.name = 2])

\* One transaction marks the row and those of the conversation; the cached page
\* stays.  Then the working memory is cleared, which may fail.
MarkGone(c, allowed) ==
  IF Exists(req[c].what) /\ allowed
  THEN /\ apps' = [apps EXCEPT ![req[c].what].gone = TRUE]
       /\ GoOn(c, "clear")
       /\ UNCHANGED Talk
  ELSE Only(c, FALSE)

DeleteApp(c) ==
  \/ Doing(c, "deleteApp", "do") /\ MarkGone(c, Owns(c, req[c].what))
  \/ Doing(c, "deleteApp", "clear") /\ \E ok \in BOOLEAN : Only(c, ok)

\* The row, and then that of its owner, who may have been deleted.
GetApp(c) == Doing(c, "getApp", "do") /\ ReadThen(c, Owns(c, req[c].what), "owner")

GetAppVo(c) ==
  LET owner == apps[req[c].what].owner
  IN /\ At(c, "owner")
     /\ Answer(c, IsLive(owner), About(c) \cup {<<"user", owner>>})
     /\ UNCHANGED <<Stored, appVars>>

\* The files of the current version or of an older program, if there are any.
GetSourceCode(c) ==
  /\ Doing(c, "source", "do")
  /\ \E found \in BOOLEAN : Only(c, Exists(req[c].what) /\ Owns(c, req[c].what) /\ found)

OwnerStep(c) ==
  \/ AddApp(c) \/ UpdateApp(c) \/ DeleteApp(c) \/ GetApp(c) \/ GetAppVo(c)
  \/ GetSourceCode(c)

-----------------------------------------------------------------------------
(* Administrators                                                           *)

\* The priority is overwritten even when only the name was meant.
AdminUpdateApp(c) ==
  \/ Doing(c, "adminUpdate", "do") /\ ReadThen(c, TRUE, "write")
  \/ /\ Doing(c, "adminUpdate", "write")
     /\ \E priority \in 0 .. 1 :
          WriteRow(c, [apps[req[c].what] EXCEPT !.priority = priority])

AdminDeleteApp(c) ==
  \/ Doing(c, "adminDelete", "do") /\ MarkGone(c, TRUE)
  \/ Doing(c, "adminDelete", "clear") /\ \E ok \in BOOLEAN : Only(c, ok)

AdminGetAppVo(c) == Doing(c, "adminGet", "do") /\ ReadThen(c, TRUE, "owner")

AdminStep(c) == AdminUpdateApp(c) \/ AdminDeleteApp(c) \/ AdminGetAppVo(c)

-----------------------------------------------------------------------------
(* Lists: the rows are counted, then those of one page are read, and the two *)
(* may see different tables.                                                 *)

MyApps(c) == {a \in AppId : Exists(a) /\ Owns(c, a)}
GoodApps == {a \in AppId : Exists(a) /\ apps[a].priority > 0}
AllApps == {a \in AppId : Exists(a)}
AllUsers == {u \in UserId : IsLive(u)}

\* Messages are listed as rows of their application.
AllChats == IF Rows = {} THEN {} ELSE {Talked}

AppLists == {"listMy", "listGood", "listApps"}
Lists == AppLists \cup {"listUsers", "listChats"}

Listed(c) ==
  CASE req[c].op = "listMy" -> {"app"} \X MyApps(c)
    [] req[c].op = "listGood" -> {"app"} \X GoodApps
    [] req[c].op = "listApps" -> {"app"} \X AllApps
    [] req[c].op = "listUsers" -> {"user"} \X AllUsers
    [] req[c].op = "listChats" -> {"app"} \X AllChats

\* The rows of the page num, the newest first.
PageOf(rows, num) ==
  {r \in rows : Cardinality({s \in rows : s[2] > r[2]}) \div MaxSize = num - 1}

\* GetAppVoList adds the users who own the applications, deleted ones too.
WithOwners(c, page) ==
  page \cup (IF req[c].op \in AppLists
             THEN {<<"user", apps[row[2]].owner>> : row \in page} ELSE {})

List(c) ==
  /\ req[c] # None /\ req[c].op \in Lists
  /\ \/ At(c, "do") /\ GoOn(c, "find") /\ UNCHANGED appVars
     \/ /\ At(c, "find")
        /\ \E num \in 1 .. 2 : Answer(c, TRUE, WithOwners(c, PageOf(Listed(c), num)))
        /\ UNCHANGED <<Stored, appVars>>

-----------------------------------------------------------------------------
(* The conversation                                                         *)

Newest(rows, n) == {i \in rows : Cardinality({j \in rows : j > i}) < n}

\* A request to /app/chat of the owner: the message of the user, and the one of
\* the model if it comes to that.
OpenChat(c) == Doing(c, "chat", "do") /\ ReadThen(c, Owns(c, req[c].what), "insert")

\* The page lacks more than the last of the messages: one was added before it was
\* cached, or the cache was not cleared in time.
Behind(page, messages) ==
  page # None /\ Cardinality({i \in messages : \A j \in page : j < i}) > 1

\* AddChatMessage inserts the row under the lock of its application, in the
\* second of the last one or a later one, and then clears the cached page; that
\* this failed is not noticed.
AddChatMessage(c) ==
  /\ At(c, "insert") /\ req[c].op = "chat" /\ Len(second) < MaxMessages
  /\ IF Exists(Talked)
     THEN /\ \E later \in 0 .. 1 :
               second' = Append(second, later + IF second = <<>> THEN 0 ELSE Last(second))
          /\ GoOn(c, "clear")
          /\ stale' = (stale \/ Behind(cache, DOMAIN second'))
          /\ UNCHANGED <<apps, cache, walk, got>>
     ELSE Only(c, FALSE)

ClearHistory(c, works) ==
  /\ Doing(c, "chat", "clear")
  /\ cache' = IF works THEN None ELSE cache
  /\ GoOn(c, "insert") \/ Reply(c, TRUE)
  /\ UNCHANGED <<apps, second, stale, walk, got>>

CacheExpires ==
  cache # None /\ cache' = None /\ UNCHANGED <<apps, second, stale, walk, got>>

\* ListAppChatHistoryByCursor: the application, the cached page or the rows that
\* then become it, and what is after the cursor.
ReadApp(c) ==
  /\ Doing(c, "history", "do")
  /\ ReadThen(c, Owns(c, req[c].what) \/ req[c].role = "admin", "cache")

ReadInto(c, step, messages) ==
  /\ GoOn(c, step)
  /\ got' = [got EXCEPT ![c] = messages]
  /\ UNCHANGED <<apps, second, cache, stale, walk>>

ReadCache(c) ==
  At(c, "cache") /\ ReadInto(c, IF cache = None THEN "rows" ELSE "page", cache)

ReadRows(c) == At(c, "rows") /\ ReadInto(c, "fill", Newest(Rows, Window))

FillCache(c, works) ==
  /\ At(c, "fill")
  /\ cache' = IF works THEN got[c] ELSE cache
  /\ stale' = (stale \/ Behind(cache', Message))
  /\ GoOn(c, "page")
  /\ UNCHANGED <<apps, second, walk, got>>

\* Instead of Older: only the second counts.
OlderSecond(i, j) == second[i] < second[j]

\* After the cursor are the messages of earlier seconds, and those of the same
\* second with a smaller id.
Older(i, j) == second[i] < second[j] \/ (second[i] = second[j] /\ i < j)

After(messages, cursor) ==
  IF cursor = None THEN messages ELSE {i \in messages : Older(i, cursor)}

\* ORDER BY create_time DESC, id DESC.
NewestFirst(page) ==
  [i \in 1 .. Cardinality(page) |->
     CHOOSE m \in page : Cardinality({j \in page : j > m}) = i - 1]

\* The page, the cursor for the next one, and whether there is more: a walk of
\* which nothing is left has size 0.
ShowPage(c) ==
  /\ At(c, "page")
  /\ LET left == After(got[c], walk[c].after)
         page == Newest(left, walk[c].size)
         more == left # page
     IN walk' = [walk EXCEPT
          ![c].size = IF more THEN @ ELSE 0,
          ![c].after = IF more THEN Min(page) ELSE None,
          ![c].shown = @ \o NewestFirst(page)]
  /\ got' = [got EXCEPT ![c] = None]
  /\ Reply(c, TRUE)
  /\ UNCHANGED <<apps, second, cache, stale>>

HistoryStep(c) == ReadApp(c) \/ ReadCache(c) \/ ReadRows(c) \/ ShowPage(c)

ChatStep(c) == OpenChat(c) \/ AddChatMessage(c)

=============================================================================
