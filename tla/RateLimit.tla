------------------------------ MODULE RateLimit ------------------------------
(* The rate limiter: a script that Redis runs as one step keeps, for every    *)
(* route and user, a sorted set of the requests let through during the last   *)
(* Interval.  A member is its time and a number: two requests of the same     *)
(* millisecond are two members.  The set and the counter of the numbers are   *)
(* keys of their own that expire together after a quiet time.                 *)
EXTENDS Naturals, FiniteSets

CONSTANTS
  Key,       \* a route and a user
  Rate,      \* requests let through in an Interval
  Interval,
  Slack      \* how much longer than an Interval the keys live (1000 ms)

ASSUME LimitConstants == {Rate, Interval} \subseteq Nat \ {0} /\ Slack \in Nat

VARIABLES
  clock,     \* the clock of Redis
  zset,      \* per key: the members, pairs of a time and a number
  seq,       \* per key: the last number
  until,     \* per key: when the two keys expire
  admitted   \* history: the requests let through during the last Interval, per key

limitVars == <<clock, zset, seq, until, admitted>>

LimitTypes ==
  /\ clock \in Nat
  /\ \A k \in Key : /\ zset[k] \subseteq (0 .. clock) \X (1 .. seq[k])
                    /\ until[k] <= clock + Interval + Slack

LimitInit ==
  /\ clock = 0
  /\ zset = [k \in Key |-> {}] /\ seq = [k \in Key |-> 0]
  /\ until = [k \in Key |-> 0] /\ admitted = [k \in Key |-> {}]

\* ZREMRANGEBYSCORE removes up to and including the time of the cutoff.
Recent(k) == {m \in zset[k] : m[1] + Interval > clock}

\* Instead of Member: requests of the same millisecond are one member.
MemberOfTime(k) == <<clock, 1>>

Member(k) == <<clock, seq[k] + 1>>

\* Admission is one script: forget the old members, count, add.
Admissible(k) == Cardinality(Recent(k)) < Rate

Admit(k) ==
  /\ Admissible(k)
  /\ zset' = [zset EXCEPT ![k] = Recent(k) \cup {Member(k)}]
  /\ seq' = [seq EXCEPT ![k] = @ + 1]
  /\ until' = [until EXCEPT ![k] = clock + Interval + Slack]
  /\ admitted' = [admitted EXCEPT ![k] = @ \cup {<<clock, Cardinality(@)>>}]
  /\ UNCHANGED clock

Refuse(k) ==
  /\ ~Admissible(k)
  /\ zset' = [zset EXCEPT ![k] = Recent(k)]
  /\ UNCHANGED <<clock, seq, until, admitted>>

\* Instead of Tick: only the key of the numbers expires.
TickForgetsNumbers ==
  /\ clock' = clock + 1
  /\ seq' = [k \in Key |-> IF until[k] <= clock' THEN 0 ELSE seq[k]]
  /\ admitted' = [k \in Key |-> {a \in admitted[k] : clock' - a[1] < Interval}]
  /\ UNCHANGED <<zset, until>>

\* Time passes, and Redis drops the keys whose time has come.
Tick ==
  /\ clock' = clock + 1
  /\ zset' = [k \in Key |-> IF until[k] <= clock' THEN {} ELSE zset[k]]
  /\ seq' = [k \in Key |-> IF until[k] <= clock' THEN 0 ELSE seq[k]]
  /\ admitted' = [k \in Key |-> {a \in admitted[k] : clock' - a[1] < Interval}]
  /\ UNCHANGED until

\* In no stretch of time as long as an Interval are more than Rate requests of a
\* user let through on a route, whenever they come and however often the keys
\* have expired and started anew (the sliding window of rate_limit.go).
WindowIsKept == \A k \in Key : Cardinality(admitted[k]) <= Rate

=============================================================================
