------------------------------- MODULE MCSite -------------------------------
(* The cases of Site that are checked.                                      *)
EXTENDS Site

CONSTANTS c1, c2, c3, alice, bob

Of(first, other, third) ==
  [c \in Client |-> CASE c = c1 -> first [] c = c2 -> other [] c = c3 -> third]
Owner == [account |-> alice, role |-> "user", gone |-> FALSE, by |-> c1]
Admin == [account |-> bob, role |-> "admin", gone |-> FALSE, by |-> c2]
Reader == [account |-> bob, role |-> "admin", gone |-> FALSE, by |-> c3]

Idle ==
  [users |-> <<Owner, Admin>>, messages |-> <<0>>, ops |-> Of({}, {}, {}),
   asks |-> Of(0, 0, 0), pages |-> {}, faults |-> 0, clock |-> 0]

MCCases ==
  { \* One walks through a conversation that grows and may be deleted.
    [Idle EXCEPT !.ops = Of({"chat"}, {"history"}, {}), !.asks = Of(2, 2, 0),
                     !.faults = 1],
    [Idle EXCEPT !.ops = Of({"history", "chat"}, {"adminDelete", "listChats"}, {}),
                     !.asks = Of(3, 2, 0), !.messages = <<0, 0, 1>>, !.faults = 1],
    \* Two walk, and may cache different pages.
    [Idle EXCEPT !.ops = Of({"chat"}, {"history"}, {"history"}),
                     !.asks = Of(1, 2, 1), !.users = <<Owner, Admin, Reader>>],
    \* An owner and an administrator, three requests in all.
    [Idle EXCEPT !.ops = Of(OwnOps \ {"chat"}, AdminOps, {}), !.asks = Of(2, 1, 0)],
    [Idle EXCEPT !.ops = Of(OwnOps \ {"chat"}, AdminOps, {}), !.asks = Of(1, 2, 0)],
    \* A user who is deleted while logged in, or logs in afterwards.
    [Idle EXCEPT !.ops = Of(Open \cup {"whoAmI", "getApp"}, {"deleteUser", "listApps"}, {}),
                     !.asks = Of(2, 2, 0)],
    [Idle EXCEPT !.ops = Of(Open, Open, {}), !.asks = Of(2, 2, 0),
                     !.users = <<Owner>>, !.faults = 1],
    \* Many requests in a short time.
    [Idle EXCEPT !.ops = Of({"chat"}, {}, {}), !.asks = Of(5, 0, 0), !.clock = 5],
    \* A page, whose application may be deleted.
    [Idle EXCEPT !.pages = {c1}, !.faults = 1],
    [Idle EXCEPT !.pages = {c1},
                     !.ops = Of({}, {"adminDelete"}, {}), !.asks = Of(0, 1, 0)] }

MCKeys == {"app-chat", "app-graph-run"} \X (1 .. MaxUsers)

=============================================================================
