------------------------------ MODULE Accounts ------------------------------
(* Users, their sessions, and the part of every request that comes before    *)
(* its handler: AuthMiddleware and DevRequireAdmin.  The table of users is    *)
(* in MySQL, the sessions are in Redis under the id in the cookie.            *)
(*                                                                            *)
(* A client is a browser.  A request is req[c]: what is asked of which row,   *)
(* the next step of the server, and the user the middleware found.  One that  *)
(* is over leaves its answer.  Of passwords only who knows them is kept.      *)
EXTENDS Naturals, Sequences

CONSTANTS
  Client,     \* browsers
  None,
  Account,    \* names of accounts
  MaxUsers,   \* bound: rows of the table of users
  MaxApps     \* bound: rows of the table of applications

ASSUME AccountConstants == {MaxUsers, MaxApps} \subseteq Nat /\ None \notin Nat

VARIABLES
  users,      \* the table of users, by id
  sessions,   \* Redis: the user and the role of the session a client opened
  cookie,     \* does the browser send the cookie of that session?
  req,        \* the request of a client that the server works on
  answer      \* how the last request of a client ended

accountVars == <<users, sessions, cookie, req, answer>>
Stored == <<users, sessions, cookie>>

Role == {"user", "admin"}
Open == {"register", "login", "logout", "getUser", "listGood"}
AdminOps == {"addUser", "updateUser", "deleteUser", "listUsers", "adminUpdate",
             "adminDelete", "adminGet", "listApps", "listChats"}
OwnOps == {"whoAmI", "addApp", "updateApp", "deleteApp", "getApp", "source",
           "listMy", "history", "chat"}
Limited == {"chat"}
UserOps == {"getUser", "updateUser", "deleteUser"}
AppOps == {"adminUpdate", "adminDelete", "adminGet", "updateApp", "deleteApp",
           "getApp", "source", "history", "chat"}
Ops == Open \cup AdminOps \cup OwnOps

Step == {"auth", "limit", "do", "insert", "write", "clear", "owner", "find",
         "cache", "rows", "fill", "page"}
Id == 1 .. (IF MaxUsers > MaxApps THEN MaxUsers ELSE MaxApps)

Row == {"user", "app"} \X Id

UserRow == [account : Account, role : Role, gone : BOOLEAN, by : Client]
Session == [user : 1 .. MaxUsers, role : Role]
Request == [op : Ops, step : Step, what : Id \cup Account \cup {None},
            user : 1 .. MaxUsers \cup {None}, role : Role, gone : SUBSET Row]

AnswerOf == [op : Ops, ok : BOOLEAN, late : SUBSET {"user", "app"}]

AccountTypes ==
  /\ users \in Seq(UserRow) /\ Len(users) <= MaxUsers
  /\ sessions \in [Client -> Session \cup {None}]
  /\ cookie \in [Client -> BOOLEAN]
  /\ req \in [Client -> Request \cup {None}]
  /\ answer \in [Client -> AnswerOf \cup {None}]

UserId == DOMAIN users
IsLive(u) == u \in UserId /\ ~users[u].gone

-----------------------------------------------------------------------------
(* A request: it is sent, passes the middleware and is answered.            *)

\* gone: the rows that were deleted before it was sent.
Ask(c, op, what, gone) ==
  /\ req[c] = None
  /\ req' = [req EXCEPT ![c] =
       [op |-> op, step |-> IF op \in Open THEN "do" ELSE "auth", what |-> what,
        user |-> None, role |-> "user", gone |-> gone]]
  /\ UNCHANGED <<Stored, answer>>

At(c, step) == req[c] # None /\ req[c].step = step
Doing(c, op, step) == At(c, step) /\ req[c].op = op

GoOn(c, step) ==
  /\ req' = [req EXCEPT ![c].step = step]
  /\ UNCHANGED <<Stored, answer>>

\* The rows a request is about: what it asks for, and the user the middleware
\* found.
About(c) ==
  {<<"user", req[c].user>>}
    \cup (IF req[c].op \in UserOps THEN {<<"user", req[c].what>>} ELSE {})
    \cup (IF req[c].op \in AppOps THEN {<<"app", req[c].what>>} ELSE {})

\* late: is the answer about a user, or an application, that was deleted before
\* the request was sent?
Answer(c, ok, rows) ==
  /\ req' = [req EXCEPT ![c] = None]
  /\ answer' = [answer EXCEPT ![c] =
       [op |-> req[c].op, ok |-> ok,
        late |-> IF ok THEN {row[1] : row \in rows \cap req[c].gone} ELSE {}]]

Over(c, ok) == Answer(c, ok, About(c))
Reply(c, ok) == Over(c, ok) /\ UNCHANGED Stored

\* Instead of KnownUser: the session is believed, the row is not looked at.
SessionIsEnough(c) == cookie[c] /\ sessions[c] # None

\* GetLoginUserVo: the session names the user, whose row must not be deleted.
KnownUser(c) == cookie[c] /\ sessions[c] # None /\ IsLive(sessions[c].user)

\* The role is the one the user had when the session was opened.
IsAdmin(c) == sessions[c].role = "admin"

Authenticate(c) ==
  /\ At(c, "auth")
  /\ IF KnownUser(c) /\ (req[c].op \in AdminOps => IsAdmin(c))
     THEN /\ req' = [req EXCEPT
               ![c].step = IF req[c].op \in Limited THEN "limit" ELSE "do",
               ![c].user = sessions[c].user, ![c].role = sessions[c].role]
          /\ UNCHANGED <<Stored, answer>>
     ELSE Reply(c, FALSE)

\* A session ends after a day.
Expire(c) ==
  /\ sessions[c] # None
  /\ sessions' = [sessions EXCEPT ![c] = None]
  /\ UNCHANGED <<users, cookie, req, answer>>

-----------------------------------------------------------------------------
(* Registering, logging in and out.                                         *)

Create(c, role) ==
  /\ Len(users) < MaxUsers
  /\ users' = Append(users, [account |-> req[c].what, role |-> role,
                             gone |-> FALSE, by |-> c])
  /\ Over(c, TRUE)
  /\ UNCHANGED <<sessions, cookie>>

RowsOf(account) == {u \in UserId : users[u].account = account}

\* UserRegister counts the rows of the account, deleted ones too, and inserts
\* later; the schema that could keep a second row out is not in the repository.
CheckName(c) ==
  /\ Doing(c, "register", "do")
  /\ IF RowsOf(req[c].what) = {} THEN GoOn(c, "insert") ELSE Reply(c, FALSE)

Register(c) == Doing(c, "register", "insert") /\ Create(c, "user")

\* UserLogin takes the first row of the account, a deleted one included, and
\* answers with it.
Login(c) ==
  /\ Doing(c, "login", "do")
  /\ LET rows == RowsOf(req[c].what)
         first == CHOOSE u \in rows : \A v \in rows : u <= v
     IN IF rows # {} /\ users[first].by = c
        THEN /\ sessions' = [sessions EXCEPT
                  ![c] = [user |-> first, role |-> users[first].role]]
             /\ cookie' = [cookie EXCEPT ![c] = TRUE]
             /\ Answer(c, TRUE, {<<"user", first>>})
             /\ UNCHANGED users
        ELSE Reply(c, FALSE)

\* UserLogout deletes the key as the cookie spells it, where the id is escaped;
\* the session, whose name GetLoginUserVo unescapes, stays until it expires.
Logout(c) ==
  /\ Doing(c, "logout", "do")
  /\ cookie' = [cookie EXCEPT ![c] = FALSE]
  /\ Over(c, TRUE)
  /\ UNCHANGED <<users, sessions>>

WhoAmI(c) == Doing(c, "whoAmI", "do") /\ Reply(c, TRUE)

GetUserByID(c) == Doing(c, "getUser", "do") /\ Reply(c, IsLive(req[c].what))

-----------------------------------------------------------------------------
(* What an administrator does with users.                                   *)

AddUser(c) == Doing(c, "addUser", "do") /\ \E role \in Role : Create(c, role)

\* One statement changes a row that is not deleted, if there is one.
ChangeUser(c, changed) ==
  IF IsLive(req[c].what)
  THEN /\ users' = [users EXCEPT ![req[c].what] = changed]
       /\ Over(c, TRUE)
       /\ UNCHANGED <<sessions, cookie>>
  ELSE Reply(c, FALSE)

UpdateUser(c) ==
  /\ Doing(c, "updateUser", "do")
  /\ \E role \in Role : ChangeUser(c, [users[req[c].what] EXCEPT !.role = role])

DeleteUser(c) ==
  /\ Doing(c, "deleteUser", "do")
  /\ ChangeUser(c, [users[req[c].what] EXCEPT !.gone = TRUE])

AccountStep(c) ==
  \/ Authenticate(c)
  \/ CheckName(c) \/ Register(c) \/ Login(c) \/ Logout(c) \/ WhoAmI(c)
  \/ GetUserByID(c) \/ AddUser(c) \/ UpdateUser(c) \/ DeleteUser(c)

=============================================================================
