----------------------------- MODULE SiteProofs -----------------------------
(* Proofs about Site, one component at a time: what the rate limiter lets     *)
(* through, what the pages have created, what is hidden once deleted, what a  *)
(* walk through a conversation shows; and from all of them the types.         *)
EXTENDS Site, FiniteSetTheorems, TLAPS

-----------------------------------------------------------------------------
(* The rate limiter                                                        *)

Since(S, t) == {m \in S : m[1] >= t}

LimitShape ==
  /\ clock \in Nat
  /\ zset \in [Key -> SUBSET (Nat \X Nat)] /\ admitted \in [Key -> SUBSET (Nat \X Nat)]
  /\ seq \in [Key -> Nat] /\ until \in [Key -> Nat]

\* The members of a set are older than its clock and its next number, and the key
\* outlives their Interval.
MembersFit(k) ==
  /\ IsFiniteSet(zset[k])
  /\ \A m \in zset[k] : /\ m[1] <= clock /\ m[2] <= seq[k]
                        /\ m[1] + Interval <= until[k]

HistoryFits(k) ==
  /\ IsFiniteSet(admitted[k])
  /\ \A a \in admitted[k] : a[1] <= clock /\ clock < a[1] + Interval

\* Of the requests let through since a time within the last Interval the set has
\* a member each.
MembersCount(k) ==
  \A t \in Nat : clock < t + Interval =>
    Cardinality(Since(admitted[k], t)) <= Cardinality(Since(zset[k], t))

WindowInv ==
  /\ LimitShape
  /\ \A k \in Key : /\ MembersFit(k) /\ HistoryFits(k) /\ MembersCount(k)
                    /\ Cardinality(Recent(k)) <= Rate

LEMMA SinceFinite ==
  ASSUME NEW S, IsFiniteSet(S), NEW t
  PROVE  IsFiniteSet(Since(S, t)) /\ Cardinality(Since(S, t)) \in Nat
BY FS_Subset, FS_CardinalityType DEF Since

LEMMA SinceAdd ==
  ASSUME NEW S, IsFiniteSet(S), NEW x \in Nat \X Nat, NEW t \in Nat
  PROVE  Cardinality(Since(S \cup {x}, t)) =
           IF x[1] >= t /\ x \notin S THEN Cardinality(Since(S, t)) + 1
           ELSE Cardinality(Since(S, t))
<1>1. CASE x[1] >= t
  <2>1. Since(S \cup {x}, t) = Since(S, t) \cup {x} /\ (x \in Since(S, t) <=> x \in S)
    BY <1>1 DEF Since
  <2> QED BY <2>1, <1>1, SinceFinite, FS_AddElement
<1>2. CASE ~(x[1] >= t)
  <2>1. Since(S \cup {x}, t) = Since(S, t)
    BY <1>2 DEF Since
  <2> QED BY <2>1, <1>2
<1> QED BY <1>1, <1>2

LEMMA RecentFinite ==
  ASSUME NEW k \in Key, MembersFit(k)
  PROVE  IsFiniteSet(Recent(k)) /\ Cardinality(Recent(k)) \in Nat
BY FS_Subset, FS_CardinalityType DEF Recent, MembersFit

\* What is forgotten is too old to count.
LEMMA RecentCounts ==
  ASSUME LimitShape, NEW k \in Key, NEW t \in Nat, clock < t + Interval
  PROVE  Since(Recent(k), t) = Since(zset[k], t)
BY LimitConstants DEF LimitShape, LimitConstants, Recent, Since

LEMMA AdmitWindow ==
  ASSUME WindowInv, NEW j, Admit(j)
  PROVE  WindowInv'
<1>0. Interval \in Nat /\ Rate \in Nat /\ Slack \in Nat /\ Interval > 0
  BY LimitConstants DEF LimitConstants
<1>1. ASSUME j \notin Key PROVE WindowInv'
  <2>1. zset' = zset /\ seq' = seq /\ until' = until /\ admitted' = admitted /\ clock' = clock
    BY <1>1 DEF Admit, WindowInv, LimitShape
  <2> QED BY <2>1 DEF WindowInv, LimitShape, MembersFit, HistoryFits, MembersCount, Recent
<1>2. ASSUME j \in Key PROVE WindowInv'
  <2>1. /\ MembersFit(j) /\ HistoryFits(j) /\ MembersCount(j)
        /\ IsFiniteSet(Recent(j)) /\ Cardinality(Recent(j)) \in Nat
        /\ Cardinality(Recent(j)) < Rate
        /\ clock \in Nat /\ seq[j] \in Nat /\ until[j] \in Nat
        /\ admitted[j] \subseteq Nat \X Nat /\ zset[j] \subseteq Nat \X Nat
    BY <1>2, RecentFinite DEF WindowInv, LimitShape, Admit, Admissible
  <2> DEFINE a == <<clock, Cardinality(admitted[j])>>
             m == <<clock, seq[j] + 1>>
  <2>2. /\ a \in Nat \X Nat /\ m \in Nat \X Nat /\ m \notin zset[j] /\ m \notin Recent(j)
        /\ a[1] = clock /\ m[1] = clock /\ m[2] = seq[j] + 1
    BY <2>1, FS_CardinalityType DEF HistoryFits, MembersFit, Recent
  <2>3. /\ zset'[j] = Recent(j) \cup {m} /\ admitted'[j] = admitted[j] \cup {a}
        /\ seq'[j] = seq[j] + 1 /\ until'[j] = clock + Interval + Slack /\ clock' = clock
    BY <1>2 DEF Admit, Member, WindowInv, LimitShape
  <2> HIDE DEF a, m
  <2>4. \A k \in Key \ {j} :
           zset'[k] = zset[k] /\ admitted'[k] = admitted[k] /\ seq'[k] = seq[k] /\ until'[k] = until[k]
    BY <1>2 DEF Admit, WindowInv, LimitShape
  <2>5. LimitShape'
    <3>1. Recent(j) \cup {m} \subseteq Nat \X Nat /\ admitted[j] \cup {a} \subseteq Nat \X Nat
      BY <2>1, <2>2 DEF Recent
    <3>2. zset' = [zset EXCEPT ![j] = Recent(j) \cup {m}] /\ admitted' = [admitted EXCEPT ![j] = @ \cup {a}]
      BY DEF Admit, Member, a, m
    <3>3. zset' \in [Key -> SUBSET (Nat \X Nat)] /\ admitted' \in [Key -> SUBSET (Nat \X Nat)]
      BY <3>1, <3>2 DEF WindowInv, LimitShape
    <3> QED BY <3>3, <2>1, <1>0 DEF Admit, WindowInv, LimitShape
  <2>6. MembersFit(j)'
    <3>1. IsFiniteSet(zset'[j])
      BY <2>1, <2>3, FS_AddElement
    <3>2. ASSUME NEW x \in zset'[j]
          PROVE  x[1] <= clock /\ x[2] <= seq[j] + 1 /\ x[1] + Interval <= clock + Interval + Slack
      <4>1. CASE x = m
        BY <4>1, <2>1, <2>2, <1>0
      <4>2. CASE x \in Recent(j)
        <5>1. x \in Nat \X Nat /\ x[1] <= clock /\ x[2] <= seq[j]
          BY <4>2, <2>1 DEF Recent, MembersFit
        <5> QED BY <5>1, <2>1, <1>0
      <4> QED BY <4>1, <4>2, <2>3
    <3> QED BY <3>1, <3>2, <2>3 DEF MembersFit
  <2>7. HistoryFits(j)'
    <3>1. IsFiniteSet(admitted'[j])
      <4>1. IsFiniteSet(admitted[j])
        BY <2>1 DEF HistoryFits
      <4> QED BY <4>1, <2>3, FS_AddElement
    <3>2. a[1] = clock /\ clock < clock + Interval
      BY <2>1, <2>2, <1>0
    <3>3. \A x \in admitted'[j] : x[1] <= clock /\ clock < x[1] + Interval
      BY <3>2, <2>1, <2>3 DEF HistoryFits
    <3> QED BY <3>1, <3>3, <2>3 DEF HistoryFits
  <2>8. MembersCount(j)'
    <3> SUFFICES ASSUME NEW t \in Nat, clock < t + Interval
                 PROVE  Cardinality(Since(admitted'[j], t)) <= Cardinality(Since(zset'[j], t))
      BY <2>3 DEF MembersCount
    <3> DEFINE C == Cardinality(Since(admitted[j], t))
               D == Cardinality(Since(zset[j], t))
    <3>1. C <= D /\ C \in Nat /\ D \in Nat
      BY <2>1, SinceFinite DEF MembersCount, MembersFit, HistoryFits
    <3>2. Cardinality(Since(zset'[j], t)) = IF clock >= t THEN D + 1 ELSE D
      <4>1. Cardinality(Since(Recent(j), t)) = D
        BY RecentCounts, <1>2 DEF WindowInv
      <4>2. Cardinality(Since(Recent(j) \cup {m}, t)) =
              IF m[1] >= t /\ m \notin Recent(j) THEN Cardinality(Since(Recent(j), t)) + 1
              ELSE Cardinality(Since(Recent(j), t))
        BY <2>1, <2>2, SinceAdd
      <4>3. zset'[j] = Recent(j) \cup {m} /\ m[1] = clock /\ m \notin Recent(j)
        BY <2>2, <2>3
      <4> QED BY <4>1, <4>2, <4>3
    <3>3. Cardinality(Since(admitted'[j], t)) = C \/ (clock >= t /\ Cardinality(Since(admitted'[j], t)) = C + 1)
      <4>1. IsFiniteSet(admitted[j])
        BY <2>1 DEF HistoryFits
      <4>2. Cardinality(Since(admitted[j] \cup {a}, t)) =
              IF a[1] >= t /\ a \notin admitted[j] THEN Cardinality(Since(admitted[j], t)) + 1
              ELSE Cardinality(Since(admitted[j], t))
        BY <4>1, <2>2, SinceAdd
      <4>3. admitted'[j] = admitted[j] \cup {a} /\ a[1] = clock
        BY <2>2, <2>3
      <4>4. CASE a[1] >= t /\ a \notin admitted[j]
        BY <4>2, <4>3, <4>4
      <4>5. CASE ~(a[1] >= t /\ a \notin admitted[j])
        BY <4>2, <4>3, <4>5
      <4> QED BY <4>4, <4>5
    <3> HIDE DEF C, D
    <3> QED BY <3>1, <3>2, <3>3
  <2>9. Cardinality(Recent(j)') <= Rate
    <3>1. Recent(j)' \subseteq Recent(j) \cup {m}
      BY <2>3 DEF Recent
    <3>2. IsFiniteSet(Recent(j) \cup {m}) /\ Cardinality(Recent(j) \cup {m}) = Cardinality(Recent(j)) + 1
      BY <2>1, <2>2, FS_AddElement
    <3>3. Cardinality(Recent(j)') <= Cardinality(Recent(j)) + 1 /\ Cardinality(Recent(j)') \in Nat
      BY <3>1, <3>2, FS_Subset, FS_CardinalityType
    <3> QED BY <3>3, <2>1, <1>0
  <2>10. ASSUME NEW k \in Key \ {j}
         PROVE  MembersFit(k)' /\ HistoryFits(k)' /\ MembersCount(k)' /\ Cardinality(Recent(k)') <= Rate
    BY <2>3, <2>4 DEF WindowInv, MembersFit, HistoryFits, MembersCount, Recent
  <2> QED BY <2>5, <2>6, <2>7, <2>8, <2>9, <2>10 DEF WindowInv
<1> QED BY <1>1, <1>2

LEMMA RefuseWindow ==
  ASSUME WindowInv, NEW j, Refuse(j)
  PROVE  WindowInv'
<1>1. /\ clock' = clock /\ seq' = seq /\ until' = until /\ admitted' = admitted
      /\ \A k \in Key : zset'[k] = zset[k] \/ zset'[k] = Recent(k)
      /\ LimitShape'
  BY DEF Refuse, WindowInv, LimitShape, Recent
<1>2. ASSUME NEW k \in Key
      PROVE  /\ MembersFit(k)' /\ HistoryFits(k)' /\ MembersCount(k)'
             /\ Recent(k)' = Recent(k)
  <2>1. MembersFit(k) /\ IsFiniteSet(Recent(k)) /\ Recent(k) \subseteq zset[k]
    BY RecentFinite DEF WindowInv, Recent
  <2>2. MembersFit(k)' /\ HistoryFits(k)'
    BY <2>1, <1>1 DEF MembersFit, HistoryFits, WindowInv
  <2>3. ASSUME NEW t \in Nat, clock < t + Interval
        PROVE  Since(zset'[k], t) = Since(zset[k], t)
    BY <2>3, <1>1, RecentCounts DEF WindowInv
  <2>4. MembersCount(k)'
    BY <2>3, <1>1 DEF MembersCount, WindowInv
  <2>5. Recent(k)' = Recent(k)
    BY <1>1 DEF Recent
  <2> QED BY <2>2, <2>4, <2>5
<1> QED BY <1>1, <1>2 DEF WindowInv

\* A key that expires has no member that still counts.
LEMMA TickWindow ==
  ASSUME WindowInv, Tick
  PROVE  WindowInv'
<1>0. Interval \in Nat /\ Rate \in Nat /\ clock \in Nat /\ clock' = clock + 1
  BY LimitConstants DEF LimitConstants, WindowInv, LimitShape, Tick
<1>1. LimitShape'
  BY <1>0 DEF Tick, WindowInv, LimitShape
<1>2. ASSUME NEW k \in Key
      PROVE  MembersFit(k)' /\ HistoryFits(k)' /\ MembersCount(k)' /\ Cardinality(Recent(k)') <= Rate
  <2>1. /\ MembersFit(k) /\ HistoryFits(k) /\ MembersCount(k) /\ Cardinality(Recent(k)) <= Rate
        /\ IsFiniteSet(Recent(k)) /\ Cardinality(Recent(k)) \in Nat
        /\ zset[k] \subseteq Nat \X Nat /\ admitted[k] \subseteq Nat \X Nat
        /\ until[k] \in Nat /\ seq[k] \in Nat
    BY RecentFinite DEF WindowInv, LimitShape
  <2>2. /\ zset'[k] = (IF until[k] <= clock' THEN {} ELSE zset[k])
        /\ seq'[k] = (IF until[k] <= clock' THEN 0 ELSE seq[k])
        /\ admitted'[k] = {a \in admitted[k] : clock' - a[1] < Interval}
        /\ until'[k] = until[k]
    BY DEF Tick
  <2>3. MembersFit(k)'
    <3>1. IsFiniteSet(zset'[k])
      BY <2>1, <2>2, FS_EmptySet DEF MembersFit
    <3>2. ASSUME NEW m \in zset'[k]
          PROVE  m[1] <= clock' /\ m[2] <= seq'[k] /\ m[1] + Interval <= until[k]
      <4>1. m \in zset[k] /\ seq'[k] = seq[k] /\ m \in Nat \X Nat
        BY <2>1, <2>2
      <4> QED BY <4>1, <2>1, <1>0 DEF MembersFit
    <3> QED BY <3>1, <3>2, <2>2 DEF MembersFit
  <2>4. HistoryFits(k)'
    <3>1. IsFiniteSet(admitted'[k])
      BY <2>1, <2>2, FS_Subset DEF HistoryFits
    <3>2. ASSUME NEW a \in admitted'[k]
          PROVE  a[1] <= clock' /\ clock' < a[1] + Interval
      BY <2>1, <2>2, <1>0 DEF HistoryFits
    <3> QED BY <3>1, <3>2 DEF HistoryFits
  <2>5. MembersCount(k)'
    <3> SUFFICES ASSUME NEW t \in Nat, clock' < t + Interval
                 PROVE  Cardinality(Since(admitted'[k], t)) <= Cardinality(Since(zset'[k], t))
      BY DEF MembersCount
    <3>1. clock < t + Interval
      BY <1>0
    <3>2. Since(admitted'[k], t) = Since(admitted[k], t)
      BY <2>1, <2>2, <1>0 DEF Since
    <3>3. Since(zset'[k], t) = Since(zset[k], t)
      <4>1. CASE until[k] <= clock'
        <5>1. \A m \in zset[k] : ~(m[1] >= t)
          BY <4>1, <2>1, <1>0 DEF MembersFit
        <5> QED BY <5>1, <4>1, <2>2 DEF Since
      <4>2. CASE ~(until[k] <= clock')
        BY <4>2, <2>2
      <4> QED BY <4>1, <4>2
    <3> QED BY <3>1, <3>2, <3>3, <2>1 DEF MembersCount
  <2>6. Cardinality(Recent(k)') <= Rate
    <3>1. Recent(k)' \subseteq Recent(k)
      BY <2>1, <2>2, <1>0 DEF Recent
    <3>2. Cardinality(Recent(k)') <= Cardinality(Recent(k)) /\ Cardinality(Recent(k)') \in Nat
      BY <3>1, <2>1, FS_Subset, FS_CardinalityType
    <3> QED BY <3>2, <2>1, <1>0
  <2> QED BY <2>3, <2>4, <2>5, <2>6
<1> QED BY <1>1, <1>2 DEF WindowInv

LEMMA WindowStep ==
  ASSUME WindowInv, [Next]_vars
  PROVE  WindowInv'
<1>1. CASE limitVars' = limitVars
  BY <1>1 DEF limitVars, WindowInv, LimitShape, MembersFit, HistoryFits, MembersCount, Recent
<1>2. CASE Tick \/ \E j : Admit(j) \/ Refuse(j)
  BY <1>2, AdmitWindow, RefuseWindow, TickWindow
<1>3. CASE Next
  <2>1. ASSUME NEW c \in Client, Sends(c) \/ Limit(c) \/ Handle(c)
        PROVE  limitVars' = limitVars \/ \E j : Admit(j) \/ Refuse(j)
    BY <2>1 DEF Sends, Limit, Handle
  <2>2. CASE PageWorks
    BY <2>2, <1>1, <1>2 DEF PageWorks, Checked
  <2>3. CASE TimePasses \/ Fails
    BY <2>3, <1>1, <1>2 DEF TimePasses, Fails
  <2> QED BY <1>3, <1>1, <1>2, <2>1, <2>2, <2>3 DEF Next
<1> QED BY <1>1, <1>3 DEF vars

LEMMA WindowHolds == WindowInv => WindowIsKept
<1> SUFFICES ASSUME WindowInv, NEW k \in Key
             PROVE  Cardinality(admitted[k]) <= Rate
  BY DEF WindowIsKept
<1> DEFINE t == IF clock < Interval THEN 0 ELSE clock + 1 - Interval
<1>1. /\ Interval \in Nat /\ Rate \in Nat /\ clock \in Nat /\ Interval > 0
      /\ MembersFit(k) /\ HistoryFits(k) /\ MembersCount(k) /\ Cardinality(Recent(k)) <= Rate
      /\ zset[k] \subseteq Nat \X Nat /\ admitted[k] \subseteq Nat \X Nat
  BY LimitConstants DEF LimitConstants, WindowInv, LimitShape
<1>2. t \in Nat /\ clock < t + Interval /\ \A n \in Nat : n >= t <=> clock < n + Interval
  BY <1>1
<1> HIDE DEF t
<1>3. Since(admitted[k], t) = admitted[k]
  BY <1>1, <1>2 DEF HistoryFits, Since
<1>4. Since(zset[k], t) = Recent(k)
  BY <1>1, <1>2 DEF Recent, Since
<1>5. Cardinality(admitted[k]) <= Cardinality(Recent(k))
  BY <1>1, <1>2, <1>3, <1>4 DEF MembersCount
<1>6. Cardinality(admitted[k]) \in Nat /\ Cardinality(Recent(k)) \in Nat
  BY <1>1, RecentFinite, FS_CardinalityType DEF HistoryFits
<1> QED BY <1>1, <1>5, <1>6

LEMMA WindowInit == Init => WindowInv
<1> SUFFICES ASSUME LimitInit PROVE WindowInv
  BY DEF Init
<1>1. LimitShape
  BY DEF LimitInit, LimitShape
<1>2. ASSUME NEW k \in Key
      PROVE  MembersFit(k) /\ HistoryFits(k) /\ MembersCount(k) /\ Cardinality(Recent(k)) <= Rate
  <2>1. zset[k] = {} /\ admitted[k] = {} /\ Recent(k) = {}
    BY DEF LimitInit, Recent
  <2>2. \A t : Since({}, t) = {}
    BY DEF Since
  <2>3. IsFiniteSet({}) /\ Cardinality({}) = 0 /\ 0 <= Rate
    BY FS_EmptySet, LimitConstants DEF LimitConstants
  <2> QED BY <2>1, <2>2, <2>3 DEF MembersFit, HistoryFits, MembersCount
<1> QED BY <1>1, <1>2 DEF WindowInv

\* In no stretch of time as long as an Interval are more than Rate requests of a
\* user let through on a route, for any rate, any interval and any slack of the
\* keys' expiry, and whatever the routes ask of the limiter.
THEOREM LimiterKeepsItsWindow == Spec => []WindowIsKept
<1>1. WindowInv /\ [Next]_vars => WindowInv'
  BY WindowStep
<1> QED BY <1>1, WindowInit, WindowHolds, PTL DEF Spec

-----------------------------------------------------------------------------
(* The pages and their requests                                            *)

PageShape == PageTypes /\ case \in Cases

\* No id is anywhere before it was made.
IdsAreMade ==
  /\ \A p \in Page : tab[p].pending # Nothing => tab[p].pending.id <= ids
  /\ \A n \in 1 .. MaxPosts : post[n] # Nothing => post[n].id <= ids
  /\ \A r \in Run : request[r] # Nothing => request[r] <= ids

\* Every id was made for a message of its own, and has at most one run.
SendsDiffer ==
  \A i \in 1 .. ids : /\ sendOf[i] \in 1 .. sends
                      /\ \A j \in 1 .. ids : sendOf[i] = sendOf[j] => i = j

RequestsDiffer ==
  \A r, q \in Run : request[r] # Nothing /\ request[r] = request[q] => r = q

\* While a page finds out what there was before it was loaded, it has no POST of
\* its own under way, so that the pending request stays.
PostsFit ==
  \A n \in 1 .. MaxPosts :
    post[n] # Nothing =>
      /\ post[n].load <= page[post[n].by].load
      /\ Awaited(n) => page[post[n].by].discovery \in {"posting", "done"}

PendingIsThere == \A p \in Page : page[p].discovery = "post" => tab[p].pending # Nothing

PageInv ==
  PageShape /\ IdsAreMade /\ SendsDiffer /\ RequestsDiffer /\ PostsFit /\ PendingIsThere

Tab == [pending : Asked \cup {Nothing}, run : Run \cup {Nothing}]

LEMMA ShapeOf ==
  ASSUME PageShape
  PROVE  /\ request \in [Run -> RequestId \cup {Nothing}]
         /\ post \in [1 .. MaxPosts -> Posted \cup {Nothing}]
         /\ tab \in [Page -> Tab] /\ page \in [Page -> Loaded]
         /\ ids \in 0 .. MaxRuns /\ sends \in 0 .. MaxSends
         /\ sendOf \in [RequestId -> 0 .. MaxSends] /\ L!TypeOK
         /\ case.pages \subseteq Page
<1>1. case \in Case
  BY SiteConstants DEF SiteConstants, PageShape
<1> QED BY <1>1 DEF PageShape, PageTypes, Tab, Case

Discovered(g, d) == [g EXCEPT !.discovery = d]
Ended(g, flow) == [g EXCEPT ![flow] = "none", !.generating = FALSE]
Watching(g) == [g EXCEPT !.generating = TRUE, !.watch = "following"]
Sending(g) == [g EXCEPT !.generating = TRUE, !.send = "posting"]
Answered(g) == [g EXCEPT !.send = "following"]
Restores(g, b) == [g EXCEPT !.restoring = b]

\* Of a page only its load and its discovery matter here.
Like(h, g) == h \in Loaded /\ h.load = g.load /\ h.discovery = g.discovery

LEMMA LoadedFields ==
  ASSUME NEW g \in Loaded
  PROVE  /\ g.load \in 1 .. MaxLoads
         /\ Like(g, g) /\ Like(Watching(g), g) /\ Like(Sending(g), g) /\ Like(Answered(g), g)
         /\ \A flow \in {"send", "watch"} : Like(Ended(g, flow), g)
         /\ \A b \in BOOLEAN : Like(Restores(g, b), g)
         /\ \A d \in {"active", "post", "posting", "run", "done"} :
              /\ Discovered(g, d) \in Loaded
              /\ Discovered(g, d).load = g.load /\ Discovered(g, d).discovery = d
<1>1. \A flow \in {"send", "watch"} : Like(Ended(g, flow), g)
  <2>1. Like(Ended(g, "send"), g)
    BY DEF Loaded, FlowStep, Like, Ended
  <2>2. Like(Ended(g, "watch"), g)
    BY DEF Loaded, FlowStep, Like, Ended
  <2> QED BY <2>1, <2>2
<1>2. Like(g, g) /\ Like(Watching(g), g) /\ Like(Sending(g), g) /\ Like(Answered(g), g)
  BY DEF Loaded, FlowStep, Like, Watching, Sending, Answered
<1>3. \A b \in BOOLEAN : Like(Restores(g, b), g)
  BY DEF Loaded, Like, Restores
<1>4. \A d \in {"active", "post", "posting", "run", "done"} :
        /\ Discovered(g, d) \in Loaded
        /\ Discovered(g, d).load = g.load /\ Discovered(g, d).discovery = d
  BY DEF Loaded, Discovered
<1> QED BY <1>1, <1>2, <1>3, <1>4 DEF Loaded

Stepped(x, s, r) == [x EXCEPT !.step = s, !.run = r]
Leaving(p, id) == [by |-> p, load |-> page[p].load, id |-> id, step |-> "auth", run |-> Nothing]
PostStep == {"auth", "limit", "app", "look", "active", "insert", "reply"}

LEMMA PostedFields ==
  ASSUME NEW x \in Posted
  PROVE  /\ x.by \in Page /\ x.load \in 1 .. MaxLoads /\ x.id \in RequestId
         /\ x.run \in Run \cup {Nothing}
         /\ \A s \in PostStep, r \in Run \cup {Nothing} :
              /\ Stepped(x, s, r) \in Posted /\ Stepped(x, s, r).by = x.by
              /\ Stepped(x, s, r).load = x.load /\ Stepped(x, s, r).id = x.id
BY DEF Posted, Stepped, PostStep

LEMMA NewPostFields ==
  ASSUME NEW p \in Page, NEW id \in RequestId, page[p] \in Loaded
  PROVE  /\ Leaving(p, id) \in Posted /\ Leaving(p, id).by = p
         /\ Leaving(p, id).load = page[p].load /\ Leaving(p, id).id = id
<1>1. page[p].load \in 1 .. MaxLoads
  BY LoadedFields
<1> QED BY <1>1 DEF Leaving, Posted

LEMMA TabFields ==
  ASSUME NEW t \in Tab
  PROVE  /\ t.pending \in Asked \cup {Nothing} /\ t.run \in Run \cup {Nothing}
         /\ \A a \in Asked \cup {Nothing} :
              [t EXCEPT !.pending = a] \in Tab /\ [t EXCEPT !.pending = a].pending = a
         /\ \A r \in Run \cup {Nothing} :
              [t EXCEPT !.run = r] \in Tab /\ [t EXCEPT !.run = r].pending = t.pending
BY DEF Tab

LEMMA LifecycleTypes ==
  ASSUME L!TypeOK, NEW r \in Run,
         \/ status' = status
         \/ L!Admit(r) \/ L!Start(r) \/ L!AskPause(r) \/ L!AskCancel(r) \/ L!Park(r)
         \/ L!Resume(r) \/ L!Complete(r) \/ L!Abort(r)
         \/ \E s \in L!Interrupted(status[r]) : L!Become(r, s)
  PROVE  L!TypeOK'
<1>1. \A s \in L!Status : L!Become(r, s) => L!TypeOK'
  BY DEF L!TypeOK, L!Become
<1>2. status' = status \/ \E s \in L!Status : L!Become(r, s)
  BY DEF L!Admit, L!Start, L!AskPause, L!AskCancel, L!Park, L!Resume, L!Complete, L!Abort,
         L!Interrupted, L!Status, L!Executing, L!Parked, L!Terminal
<1> QED BY <1>1, <1>2 DEF L!TypeOK

\* A page changes, and nothing about requests does.
LEMMA PageOnly ==
  ASSUME PageInv, L!TypeOK', case' = case, NEW p \in Page, NEW g \in Loaded,
         page' = [page EXCEPT ![p] = g],
         g.load = page[p].load,
         \/ g.discovery = page[p].discovery \/ page[p].discovery = "active"
         \/ g.discovery = "done",
         g.discovery = "post" => page[p].discovery = "post" \/ tab[p].pending # Nothing,
         tab' \in [Page -> Tab], \A q \in Page : tab'[q].pending = tab[q].pending,
         UNCHANGED <<request, post, Ids>>
  PROVE  PageInv'
<1>1. /\ post \in [1 .. MaxPosts -> Posted \cup {Nothing}]
      /\ page \in [Page -> Loaded]
      /\ IdsAreMade /\ SendsDiffer /\ RequestsDiffer /\ PostsFit /\ PendingIsThere
  BY ShapeOf DEF PageInv
<1>2. page'[p] = g /\ \A q \in Page \ {p} : page'[q] = page[q]
  BY <1>1
<1>3. PageShape'
  <2>1. page' \in [Page -> Loaded]
    BY <1>1
  <2> QED BY <2>1 DEF PageInv, PageShape, PageTypes, Tab, Ids
<1>4. IdsAreMade' /\ SendsDiffer' /\ RequestsDiffer'
  BY <1>1 DEF IdsAreMade, SendsDiffer, RequestsDiffer, Ids
<1>5. PostsFit'
  <2> SUFFICES ASSUME NEW n \in 1 .. MaxPosts, post[n] # Nothing
               PROVE  /\ post[n].load <= page'[post[n].by].load
                      /\ post[n].load = page'[post[n].by].load =>
                           page'[post[n].by].discovery \in {"posting", "done"}
    BY DEF PostsFit, Awaited
  <2>1. /\ post[n].load <= page[post[n].by].load
        /\ post[n].load = page[post[n].by].load =>
             page[post[n].by].discovery \in {"posting", "done"}
        /\ post[n].by \in Page
    BY <1>1, PostedFields DEF PostsFit, Awaited
  <2> QED BY <2>1, <1>2
<1>6. PendingIsThere'
  BY <1>1, <1>2 DEF PendingIsThere
<1> QED BY <1>3, <1>4, <1>5, <1>6 DEF PageInv

LEMMA DiscoverySteps ==
  ASSUME PageInv, case' = case, NEW p \in Page,
         \/ DiscoverActive(p) \/ DiscoverRun(p)
         \/ \E flow \in {"send", "watch"} : FlowEnds(p, flow)
         \/ \E action \in {"pause", "cancel", "resume"} : Control(p, action)
         \/ \E begins \in BOOLEAN : RestoreVersion(p, begins)
  PROVE  PageInv'
<1>1. /\ tab \in [Page -> Tab] /\ page \in [Page -> Loaded] /\ L!TypeOK
      /\ tab[p] \in Tab /\ page[p] \in Loaded
  BY ShapeOf DEF PageInv
<1> DEFINE Goes(g) ==
      /\ g \in Loaded /\ g.load = page[p].load
      /\ \/ g.discovery = page[p].discovery \/ page[p].discovery = "active"
         \/ g.discovery = "done"
      /\ g.discovery = "post" => page[p].discovery = "post" \/ tab[p].pending # Nothing
      Tabs == tab' \in [Page -> Tab] /\ \A q \in Page : tab'[q].pending = tab[q].pending
<1>2. /\ Goes(page[p]) /\ Goes(Watching(page[p]))
      /\ Goes(Discovered(page[p], "done")) /\ Goes(Discovered(Watching(page[p]), "done"))
      /\ page[p].discovery = "active" =>
           /\ tab[p].pending # Nothing => Goes(Discovered(page[p], "post"))
           /\ Goes(Discovered(page[p], "run"))
      /\ \A flow \in {"send", "watch"} : Goes(Ended(page[p], flow))
      /\ \A b \in BOOLEAN : Goes(Restores(page[p], b))
  <2>1. \A h : Like(h, page[p]) => Goes(h)
    BY DEF Like
  <2>2. \A d \in {"post", "run", "done"} :
           /\ Discovered(page[p], d) \in Loaded
           /\ Discovered(page[p], d).load = page[p].load
           /\ Discovered(page[p], d).discovery = d
    BY <1>1, LoadedFields
  <2>3. /\ Discovered(Watching(page[p]), "done") \in Loaded
        /\ Discovered(Watching(page[p]), "done").load = page[p].load
        /\ Discovered(Watching(page[p]), "done").discovery = "done"
    BY <1>1, LoadedFields DEF Like
  <2>4. Goes(page[p]) /\ Goes(Watching(page[p]))
    BY <2>1, <1>1, LoadedFields
  <2>5. \A flow \in {"send", "watch"} : Goes(Ended(page[p], flow))
    BY <2>1, <1>1, LoadedFields
  <2>6. \A b \in BOOLEAN : Goes(Restores(page[p], b))
    BY <2>1, <1>1, LoadedFields
  <2>7. /\ Goes(Discovered(page[p], "done")) /\ Goes(Discovered(Watching(page[p]), "done"))
    BY <2>2, <2>3
  <2>8. page[p].discovery = "active" =>
          /\ tab[p].pending # Nothing => Goes(Discovered(page[p], "post"))
          /\ Goes(Discovered(page[p], "run"))
    BY <2>2
  <2> HIDE DEF Goes
  <2> QED BY <2>4, <2>5, <2>6, <2>7, <2>8
<1>3. UNCHANGED tab => Tabs
  BY <1>1
<1>4. \A r \in Run : tab' = [tab EXCEPT ![p].run = r] => Tabs
  BY <1>1, TabFields
<1>5. page' = page => page' = [page EXCEPT ![p] = page[p]]
  BY <1>1
<1> DEFINE Effect ==
      /\ \E g : Goes(g) /\ page' = [page EXCEPT ![p] = g]
      /\ Tabs /\ L!TypeOK' /\ UNCHANGED <<request, post, Ids>>
<1> HIDE DEF Goes, Tabs
<1>6. L!TypeOK' \/ status' # status
  BY <1>1, LifecycleTypes DEF L!TypeOK
<1>7. ASSUME DiscoverActive(p) PROVE Effect
  <2>1. UNCHANGED <<request, post, Ids>> /\ L!TypeOK'
    BY <1>6, <1>7 DEF DiscoverActive, RunRows
  <2>2. Tabs
    BY <1>3, <1>4, <1>7 DEF DiscoverActive, Unfinished
  <2>3. \E g : Goes(g) /\ page' = [page EXCEPT ![p] = g]
    <3>1. page[p].discovery = "active"
      BY <1>7 DEF DiscoverActive
    <3>2. \/ page' = [page EXCEPT ![p] = Discovered(Watching(page[p]), "done")]
          \/ /\ tab[p].pending # Nothing
             /\ page' = [page EXCEPT ![p] = Discovered(page[p], "post")]
          \/ page' = [page EXCEPT ![p] = Discovered(page[p], "run")]
          \/ page' = [page EXCEPT ![p] = Discovered(page[p], "done")]
      BY <1>1, <1>7 DEF DiscoverActive, Discovered, Watch, Watching
    <3> QED BY <3>1, <3>2, <1>2
  <2> QED BY <2>1, <2>2, <2>3
<1>8. ASSUME DiscoverRun(p) PROVE Effect
  <2>1. \/ page' = [page EXCEPT ![p] = Discovered(Watching(page[p]), "done")]
        \/ page' = [page EXCEPT ![p] = Discovered(page[p], "done")]
    BY <1>1, <1>8 DEF DiscoverRun, Discovered, Watch, Watching
  <2> QED BY <2>1, <1>2, <1>3, <1>6, <1>8 DEF DiscoverRun, RunRows
<1>9. ASSUME NEW flow \in {"send", "watch"}, FlowEnds(p, flow) PROVE Effect
  <2>1. page' = [page EXCEPT ![p] = Ended(page[p], flow)]
    BY <1>9 DEF FlowEnds, EndOf, Ended
  <2> QED BY <2>1, <1>2, <1>3, <1>6, <1>9 DEF FlowEnds, RunRows
<1>10. ASSUME NEW action \in {"pause", "cancel", "resume"}, Control(p, action) PROVE Effect
  <2>1. L!TypeOK'
    <3>1. tab[p].run \in Run
      BY <1>1, <1>10, TabFields DEF Control
    <3>2. L!AskPause(tab[p].run) \/ L!AskCancel(tab[p].run) \/ L!Abort(tab[p].run) \/ L!Resume(tab[p].run)
      BY <1>10 DEF Control
    <3> QED BY <1>1, <3>1, <3>2, LifecycleTypes
  <2>2. page' = page \/ page' = [page EXCEPT ![p] = Watching(page[p])]
    BY <1>10 DEF Control, Watch, Watching
  <2> QED BY <2>1, <2>2, <1>2, <1>3, <1>5, <1>10 DEF Control
<1>11. ASSUME NEW begins \in BOOLEAN, RestoreVersion(p, begins) PROVE Effect
  <2>1. page' = [page EXCEPT ![p] = Restores(page[p], begins)]
    BY <1>1, <1>11 DEF RestoreVersion, Restores
  <2> QED BY <2>1, <1>2, <1>3, <1>6, <1>11 DEF RestoreVersion, RunRows
<1> QED BY <1>7, <1>8, <1>9, <1>10, <1>11, PageOnly DEF Goes, Tabs

\* A POST goes on at the server, and may create a run for its id.
LEMMA PostOnly ==
  ASSUME PageInv, L!TypeOK', case' = case, NEW n \in 1 .. MaxPosts, post[n] # Nothing,
         NEW s \in PostStep, NEW r \in Run \cup {Nothing}, To(n, s, r),
         request' \in [Run -> RequestId \cup {Nothing}], RequestsDiffer',
         \A q \in Run : request'[q] = request[q] \/ request'[q] = post[n].id,
         UNCHANGED <<Ids, tab, page>>
  PROVE  PageInv'
<1>1. /\ post \in [1 .. MaxPosts -> Posted \cup {Nothing}]
      /\ page \in [Page -> Loaded] /\ request \in [Run -> RequestId \cup {Nothing}]
      /\ IdsAreMade /\ SendsDiffer /\ RequestsDiffer /\ PostsFit /\ PendingIsThere
  BY ShapeOf DEF PageInv
<1>2. /\ post[n] \in Posted /\ post' = [post EXCEPT ![n] = Stepped(post[n], s, r)]
  BY <1>1 DEF To, Stepped
<1>3. /\ Stepped(post[n], s, r) \in Posted
      /\ Stepped(post[n], s, r).by = post[n].by
      /\ Stepped(post[n], s, r).load = post[n].load
      /\ Stepped(post[n], s, r).id = post[n].id
  BY <1>2, PostedFields
<1>4. /\ post' \in [1 .. MaxPosts -> Posted \cup {Nothing}]
      /\ \A m \in 1 .. MaxPosts : post'[m] # Nothing =>
           /\ post[m] # Nothing /\ post'[m].by = post[m].by
           /\ post'[m].load = post[m].load /\ post'[m].id = post[m].id
  BY <1>1, <1>2, <1>3
<1>5. PageShape'
  BY <1>4 DEF PageInv, PageShape, PageTypes, Tab, Ids
<1>6. IdsAreMade' /\ SendsDiffer'
  BY <1>1, <1>4 DEF IdsAreMade, SendsDiffer, Ids
<1>7. PostsFit' /\ PendingIsThere'
  BY <1>1, <1>4 DEF PostsFit, PendingIsThere, Awaited
<1> QED BY <1>5, <1>6, <1>7 DEF PageInv

\* A POST leaves a page, under an id that was made at the latest now.
LEMMA NewPost ==
  ASSUME PageInv, case' = case, UNCHANGED RunRows,
         NEW p \in Page, NEW id \in RequestId, Post(p, id),
         NEW g \in Loaded, page' = [page EXCEPT ![p] = g], g.load = page[p].load,
         g.discovery = "posting" \/ (g.discovery = "done" /\ page[p].discovery = "done"),
         tab' \in [Page -> Tab],
         \A q \in Page : /\ tab'[q].pending # Nothing => tab'[q].pending.id <= ids'
                         /\ q # p => tab'[q] = tab[q],
         ids' \in 0 .. MaxRuns, ids <= ids', id <= ids', sends' \in 0 .. MaxSends,
         sendOf' \in [RequestId -> 0 .. MaxSends], SendsDiffer'
  PROVE  PageInv'
<1>1. /\ post \in [1 .. MaxPosts -> Posted \cup {Nothing}] /\ L!TypeOK /\ ids \in 0 .. MaxRuns
      /\ page \in [Page -> Loaded] /\ request \in [Run -> RequestId \cup {Nothing}]
      /\ IdsAreMade /\ RequestsDiffer /\ PostsFit /\ PendingIsThere
      /\ MaxRuns \in Nat
  BY ShapeOf, PageConstants DEF PageInv, PageConstants
<1>2. /\ Leaving(p, id) \in Posted /\ Leaving(p, id).by = p
      /\ Leaving(p, id).load = page[p].load /\ Leaving(p, id).id = id
  BY <1>1, NewPostFields
<1>3. /\ post' \in [1 .. MaxPosts -> Posted \cup {Nothing}]
      /\ \A m \in 1 .. MaxPosts : post'[m] = post[m] \/ post'[m] = Leaving(p, id)
  <2>1. PICK n : post' = [post EXCEPT ![n] = Leaving(p, id)]
    BY DEF Post, Leaving
  <2> QED BY <2>1, <1>1, <1>2
<1>4. page' \in [Page -> Loaded] /\ page'[p] = g /\ \A q \in Page \ {p} : page'[q] = page[q]
  BY <1>1
<1>5. PageShape'
  BY <1>1, <1>3, <1>4 DEF PageInv, PageShape, PageTypes, Tab, RunRows, L!TypeOK
<1>6. IdsAreMade'
  <2>1. \A n \in 1 .. MaxPosts : post'[n] # Nothing => post'[n].id <= ids'
    <3> SUFFICES ASSUME NEW n \in 1 .. MaxPosts, post'[n] # Nothing
                 PROVE  post'[n].id <= ids'
      OBVIOUS
    <3>1. CASE post'[n] = Leaving(p, id)
      BY <3>1, <1>2
    <3>2. CASE post'[n] = post[n]
      <4>1. post[n] \in Posted /\ post[n].id <= ids
        BY <3>2, <1>1 DEF IdsAreMade
      <4>2. post[n].id \in Nat
        BY <4>1, PostedFields DEF RequestId
      <4> QED BY <4>1, <4>2, <3>2, <1>1
    <3> QED BY <3>1, <3>2, <1>3
  <2>2. \A r \in Run : request'[r] # Nothing => request'[r] <= ids'
    <3> SUFFICES ASSUME NEW r \in Run, request[r] # Nothing
                 PROVE  request[r] <= ids'
      BY DEF RunRows
    <3>1. request[r] \in Nat /\ request[r] <= ids
      BY <1>1 DEF IdsAreMade, RequestId
    <3> QED BY <3>1, <1>1
  <2> QED BY <2>1, <2>2 DEF IdsAreMade
<1>7. RequestsDiffer'
  BY <1>1 DEF RequestsDiffer, RunRows
<1>8. PostsFit'
  <2> SUFFICES ASSUME NEW n \in 1 .. MaxPosts, post'[n] # Nothing
               PROVE  /\ post'[n].load <= page'[post'[n].by].load
                      /\ post'[n].load = page'[post'[n].by].load =>
                           page'[post'[n].by].discovery \in {"posting", "done"}
    BY DEF PostsFit, Awaited
  <2>1. CASE post'[n] = Leaving(p, id)
    <3>1. g.load \in Nat
      BY LoadedFields
    <3> QED BY <2>1, <3>1, <1>2, <1>4
  <2>2. CASE post'[n] = post[n]
    <3>1. /\ post[n].load <= page[post[n].by].load
          /\ post[n].load = page[post[n].by].load =>
               page[post[n].by].discovery \in {"posting", "done"}
          /\ post[n].by \in Page
      BY <2>2, <1>1, PostedFields DEF PostsFit, Awaited
    <3> QED BY <2>2, <3>1, <1>4
  <2> QED BY <2>1, <2>2, <1>3
<1>9. PendingIsThere'
  BY <1>1, <1>4 DEF PendingIsThere
<1> QED BY <1>5, <1>6, <1>7, <1>8, <1>9 DEF PageInv

LEMMA ReloadStep ==
  ASSUME PageInv, case' = case, NEW p \in Page, Reload(p)
  PROVE  PageInv'
<1>1. /\ post \in [1 .. MaxPosts -> Posted \cup {Nothing}] /\ tab \in [Page -> Tab]
      /\ page \in [Page -> Loaded] /\ page[p].load \in 1 .. MaxLoads /\ MaxLoads \in Nat
      /\ PostsFit /\ PendingIsThere
  BY ShapeOf, LoadedFields, PageConstants DEF PageInv, PageConstants
<1>2. /\ page' = [page EXCEPT ![p] = Fresh(page[p].load + 1)]
      /\ page[p].load + 1 \in 1 .. MaxLoads
  BY <1>1 DEF Reload
<1>3. \A l \in 1 .. MaxLoads :
        Fresh(l) \in Loaded /\ Fresh(l).load = l /\ Fresh(l).discovery = "active"
  BY DEF Fresh, Loaded, FlowStep
<1>4. /\ page' \in [Page -> Loaded] /\ \A q \in Page \ {p} : page'[q] = page[q]
      /\ page'[p].load = page[p].load + 1 /\ page'[p].discovery = "active"
  BY <1>1, <1>2, <1>3
<1>5. PageShape'
  BY <1>4 DEF PageInv, PageShape, PageTypes, Reload, RunRows, Ids, L!TypeOK
<1>6. IdsAreMade' /\ SendsDiffer' /\ RequestsDiffer'
  BY DEF PageInv, IdsAreMade, SendsDiffer, RequestsDiffer, Reload, RunRows, Ids
<1>7. PostsFit'
  <2> SUFFICES ASSUME NEW n \in 1 .. MaxPosts, post[n] # Nothing
               PROVE  /\ post[n].load <= page'[post[n].by].load
                      /\ post[n].load = page'[post[n].by].load =>
                           page'[post[n].by].discovery \in {"posting", "done"}
    BY DEF PostsFit, Awaited, Reload
  <2>1. /\ post[n].load <= page[post[n].by].load
        /\ post[n].load = page[post[n].by].load =>
             page[post[n].by].discovery \in {"posting", "done"}
    BY <1>1 DEF PostsFit, Awaited
  <2>2. post[n].by \in Page /\ post[n].load \in Nat
    <3>1. post[n] \in Posted
      BY <1>1
    <3> QED BY <3>1, PostedFields
  <2>3. \A i, j \in Nat : i <= j => i <= j + 1 /\ i # j + 1
    OBVIOUS
  <2> QED BY <2>1, <2>2, <2>3, <1>1, <1>4
<1>8. PendingIsThere'
  BY <1>1, <1>4 DEF PendingIsThere, Reload
<1> QED BY <1>5, <1>6, <1>7, <1>8 DEF PageInv

LEMMA ServerSteps ==
  ASSUME PageInv, case' = case, NEW n \in 1 .. MaxPosts,
         \/ LookForRequest(n) \/ LookForActive(n) \/ CreateRun(n)
         \/ post[n] # Nothing /\ \E s \in {"limit", "app", "look", "reply"} : Pass(n, s)
  PROVE  PageInv'
<1>1. /\ request \in [Run -> RequestId \cup {Nothing}] /\ L!TypeOK /\ RequestsDiffer
      /\ post \in [1 .. MaxPosts -> Posted \cup {Nothing}]
  BY ShapeOf DEF PageInv
<1>2. ASSUME post[n] # Nothing, NEW s \in PostStep, NEW r \in Run \cup {Nothing}, To(n, s, r), Handled(n)
      PROVE  PageInv'
  <2>1. L!TypeOK' /\ RequestsDiffer' /\ request' = request
    BY <1>1, <1>2 DEF L!TypeOK, RequestsDiffer, Handled, RunRows
  <2> QED BY <2>1, <1>1, <1>2, PostOnly DEF Handled
<1>3. CASE LookForRequest(n)
  <2>1. post[n] # Nothing /\ Handled(n) /\ \E r \in Run \cup {Nothing} : To(n, "reply", r) \/ To(n, "active", r)
    BY <1>3 DEF LookForRequest, PostAt, FoundRun, RunOf
  <2> QED BY <2>1, <1>2 DEF PostStep
<1>4. CASE LookForActive(n)
  <2>1. post[n] # Nothing /\ Handled(n) /\ \E r \in Run \cup {Nothing} : To(n, "reply", r) \/ To(n, "insert", r)
    BY <1>4 DEF LookForActive, PostAt, FoundRun, RunOf
  <2> QED BY <2>1, <1>2 DEF PostStep
<1>5. CASE post[n] # Nothing /\ \E s \in {"limit", "app", "look", "reply"} : Pass(n, s)
  BY <1>5, <1>2 DEF Pass, PostStep
<1>6. CASE CreateRun(n)
  <2>1. post[n] # Nothing /\ UNCHANGED <<Ids, tab, page>>
    BY <1>6 DEF CreateRun, PostAt
  <2>2. CASE KeysAreFree(post[n].id)
    <3>1. PICK r \in Run : L!Admit(r) /\ request' = [request EXCEPT ![r] = post[n].id] /\ To(n, "reply", r)
      BY <1>6, <2>2 DEF CreateRun
    <3>2. L!TypeOK'
      BY <3>1, <1>1, LifecycleTypes
    <3>3. post[n].id \in RequestId
      <4>1. post[n] \in Posted
        BY <2>1, <1>1
      <4> QED BY <4>1, PostedFields
    <3>4. \A q \in Run : request[q] # post[n].id
      BY <2>2 DEF KeysAreFree, RunOf
    <3>5. /\ request' \in [Run -> RequestId \cup {Nothing}]
          /\ \A q \in Run : request'[q] = request[q] \/ request'[q] = post[n].id
      BY <3>1, <3>3, <1>1
    <3>6. RequestsDiffer'
      BY <3>1, <3>4, <1>1 DEF RequestsDiffer
    <3> QED BY <3>1, <3>2, <3>5, <3>6, <2>1, PostOnly DEF PostStep
  <2>3. CASE ~KeysAreFree(post[n].id)
    <3>1. UNCHANGED RunRows /\ \E r \in Run \cup {Nothing} : To(n, "reply", r)
      BY <1>6, <2>3 DEF CreateRun, FoundRun, RunOf
    <3> QED BY <3>1, <2>1, <1>2 DEF PostStep, Handled
  <2> QED BY <2>2, <2>3
<1> QED BY <1>3, <1>4, <1>5, <1>6

LEMMA AnswerStep ==
  ASSUME PageInv, case' = case, NEW n \in 1 .. MaxPosts, NEW arrives \in BOOLEAN,
         PostIsAnswered(n, arrives)
  PROVE  PageInv'
<1> DEFINE p == post[n].by
           r == IF arrives THEN post[n].run ELSE Nothing
<1>1. /\ post \in [1 .. MaxPosts -> Posted \cup {Nothing}] /\ tab \in [Page -> Tab]
      /\ page \in [Page -> Loaded] /\ L!TypeOK
      /\ IdsAreMade /\ SendsDiffer /\ RequestsDiffer /\ PostsFit /\ PendingIsThere
  BY ShapeOf DEF PageInv
<1>2. post[n] \in Posted /\ post[n] # Nothing /\ post' = [post EXCEPT ![n] = Nothing]
  BY <1>1 DEF PostIsAnswered, PostAt
<1>3. p \in Page /\ r \in Run \cup {Nothing} /\ page[p] \in Loaded
  BY <1>1, <1>2, PostedFields
<1>4. UNCHANGED <<RunRows, Ids>>
  BY DEF PostIsAnswered
<1>5. \/ UNCHANGED <<tab, page>>
      \/ /\ page[p].discovery \in {"posting", "done"}
         /\ \/ UNCHANGED tab
            \/ tab' = [tab EXCEPT ![p] = [pending |-> Nothing, run |-> r]]
         /\ \E g \in Loaded : /\ page' = [page EXCEPT ![p] = g]
                              /\ g.load = page[p].load
                              /\ g.discovery \in {"done", page[p].discovery}
  <2>1. CASE ~Awaited(n)
    BY <2>1 DEF PostIsAnswered
  <2>2. CASE Awaited(n)
    <3>1. page[p].discovery \in {"posting", "done"}
      BY <1>1, <1>2, <2>2 DEF PostsFit
    <3>2. UNCHANGED tab \/ tab' = [tab EXCEPT ![p] = [pending |-> Nothing, run |-> r]]
      BY <2>2 DEF PostIsAnswered, Created
    <3>3. \/ page' = [page EXCEPT ![p] = Discovered(page[p], "done")]
          \/ page' = [page EXCEPT ![p] = Ended(page[p], "send")]
          \/ page' = [page EXCEPT ![p] = Discovered(Watching(page[p]), "done")]
          \/ page' = [page EXCEPT ![p] = Answered(page[p])]
      <4>1. CASE r = Nothing
        BY <2>2, <1>1, <1>3, <4>1 DEF PostIsAnswered, Discovered, EndOf, Ended
      <4>2. CASE r # Nothing
        BY <2>2, <1>1, <1>3, <4>2 DEF PostIsAnswered, Discovered, Watch, Watching, Answered
      <4> QED BY <4>1, <4>2
    <3>4. Like(Ended(page[p], "send"), page[p]) /\ Like(Answered(page[p]), page[p])
      BY <1>3, LoadedFields
    <3>5. /\ Discovered(page[p], "done") \in Loaded
          /\ Discovered(page[p], "done").load = page[p].load
          /\ Discovered(page[p], "done").discovery = "done"
      BY <1>3, LoadedFields
    <3>6. /\ Discovered(Watching(page[p]), "done") \in Loaded
          /\ Discovered(Watching(page[p]), "done").load = page[p].load
          /\ Discovered(Watching(page[p]), "done").discovery = "done"
      BY <1>3, LoadedFields DEF Like
    <3> HIDE DEF p, r
    <3> QED BY <3>1, <3>2, <3>3, <3>4, <3>5, <3>6 DEF Like
  <2> QED BY <2>1, <2>2
<1> HIDE DEF p, r
<1>6. /\ page' \in [Page -> Loaded]
      /\ \A q \in Page : /\ page'[q].load = page[q].load
                         /\ page'[q].discovery \in {"done", page[q].discovery}
  BY <1>1, <1>3, <1>5
<1>7. [pending |-> Nothing, run |-> r] \in Tab /\ [pending |-> Nothing, run |-> r].pending = Nothing
  BY <1>3 DEF Tab
<1>8. tab' \in [Page -> Tab]
  BY <1>1, <1>5, <1>7
<1>9. /\ post' \in [1 .. MaxPosts -> Posted \cup {Nothing}]
      /\ \A m \in 1 .. MaxPosts : post'[m] = Nothing \/ post'[m] = post[m]
  BY <1>1, <1>2
<1>10. PageShape'
  BY <1>4, <1>6, <1>8, <1>9, ShapeOf DEF PageInv, PageShape, PageTypes, Tab, RunRows, Ids, L!TypeOK
<1>11. \A q \in Page : /\ tab'[q].pending # Nothing => tab'[q] = tab[q]
                       /\ page'[q].discovery = "post" => tab'[q] = tab[q]
  BY <1>1, <1>3, <1>5, <1>6, <1>7
<1>12. IdsAreMade' /\ SendsDiffer' /\ RequestsDiffer'
  BY <1>1, <1>4, <1>9, <1>11 DEF IdsAreMade, SendsDiffer, RequestsDiffer, RunRows, Ids
<1>13. PostsFit'
  <2> SUFFICES ASSUME NEW m \in 1 .. MaxPosts, post'[m] # Nothing
               PROVE  /\ post'[m].load <= page'[post'[m].by].load
                      /\ post'[m].load = page'[post'[m].by].load =>
                           page'[post'[m].by].discovery \in {"posting", "done"}
    BY DEF PostsFit, Awaited
  <2>1. post'[m] = post[m] /\ post[m] \in Posted
    BY <1>1, <1>9
  <2>2. /\ post[m].load <= page[post[m].by].load
        /\ post[m].load = page[post[m].by].load =>
             page[post[m].by].discovery \in {"posting", "done"}
    BY <2>1, <1>1 DEF PostsFit, Awaited
  <2>3. post[m].by \in Page
    BY <2>1, PostedFields
  <2> QED BY <2>1, <2>2, <2>3, <1>6
<1>14. PendingIsThere'
  BY <1>1, <1>6, <1>11 DEF PendingIsThere
<1> QED BY <1>10, <1>12, <1>13, <1>14 DEF PageInv

LEMMA RepeatStep ==
  ASSUME PageInv, case' = case, NEW p \in Page, Repeat(p)
  PROVE  PageInv'
<1>1. /\ tab \in [Page -> Tab] /\ page \in [Page -> Loaded] /\ page[p] \in Loaded
      /\ ids \in 0 .. MaxRuns /\ sends \in 0 .. MaxSends
      /\ sendOf \in [RequestId -> 0 .. MaxSends]
      /\ IdsAreMade /\ SendsDiffer /\ PendingIsThere /\ MaxRuns \in Nat
  BY ShapeOf, PageConstants DEF PageInv, PageConstants
<1> DEFINE id == tab[p].pending.id
<1>2. id \in RequestId /\ page[p].discovery = "post" /\ Post(p, id) /\ UNCHANGED <<RunRows, tab, sends>>
  BY DEF Repeat, IdOfPending
<1>3. id <= ids
  BY <1>1, <1>2 DEF PendingIsThere, IdsAreMade
<1>4. ids' = ids /\ sendOf' = sendOf
  <2>1. ~(id > ids)
    BY <1>1, <1>2, <1>3 DEF RequestId
  <2> QED BY <2>1, <1>1 DEF Repeat, IdOfPending
<1>5. /\ page' = [page EXCEPT ![p] = Discovered(page[p], "posting")]
      /\ Discovered(page[p], "posting") \in Loaded
      /\ Discovered(page[p], "posting").load = page[p].load
      /\ Discovered(page[p], "posting").discovery = "posting"
  <2>1. page' = [page EXCEPT ![p] = Discovered(page[p], "posting")]
    BY <1>1 DEF Repeat, Discovered
  <2> QED BY <2>1, <1>1, LoadedFields
<1>6. SendsDiffer'
  BY <1>1, <1>2, <1>4 DEF SendsDiffer
<1> HIDE DEF id
<1>7. \A q \in Page : /\ tab'[q].pending # Nothing => tab'[q].pending.id <= ids'
                      /\ q # p => tab'[q] = tab[q]
  BY <1>1, <1>2, <1>4 DEF IdsAreMade
<1>8. tab' \in [Page -> Tab] /\ ids' \in 0 .. MaxRuns /\ ids <= ids' /\ id <= ids'
      /\ sends' \in 0 .. MaxSends /\ sendOf' \in [RequestId -> 0 .. MaxSends]
  BY <1>1, <1>2, <1>3, <1>4
<1> QED BY <1>2, <1>5, <1>6, <1>7, <1>8, NewPost

LEMMA SendStep ==
  ASSUME PageInv, case' = case, NEW p \in Page, NEW text \in Text, Send(p, text)
  PROVE  PageInv'
<1>1. /\ tab \in [Page -> Tab] /\ page \in [Page -> Loaded] /\ page[p] \in Loaded
      /\ ids \in 0 .. MaxRuns /\ sends \in 0 .. MaxSends
      /\ sendOf \in [RequestId -> 0 .. MaxSends]
      /\ IdsAreMade /\ SendsDiffer /\ PendingIsThere /\ MaxRuns \in Nat /\ MaxSends \in Nat
  BY ShapeOf, PageConstants DEF PageInv, PageConstants
<1> DEFINE id == IdFor(p, text)
           asks == [text |-> text, id |-> id]
<1>2. id \in RequestId /\ sends' = sends + 1 /\ sends < MaxSends /\ Post(p, id) /\ UNCHANGED RunRows
  BY DEF Send
<1>3. /\ ids' = (IF id > ids THEN id ELSE ids)
      /\ sendOf' = IF id > ids THEN [sendOf EXCEPT ![id] = sends'] ELSE sendOf
  BY DEF Send
<1>4. id <= ids \/ id = ids + 1
  BY <1>1 DEF IdFor, IdsAreMade
<1>5. /\ page' = [page EXCEPT ![p] = Sending(page[p])]
      /\ Sending(page[p]) \in Loaded /\ Sending(page[p]).load = page[p].load
      /\ page[p].discovery = "done" /\ Sending(page[p]).discovery = "done"
  <2>1. page' = [page EXCEPT ![p] = Sending(page[p])] /\ page[p].discovery = "done"
    BY <1>1 DEF Send, Sending
  <2> QED BY <2>1, <1>1, LoadedFields DEF Like
<1>6. tab' = [tab EXCEPT ![p] = [tab[p] EXCEPT !.pending = asks]] /\ asks \in Asked /\ asks.id = id
  <2>1. tab' = [tab EXCEPT ![p] = [tab[p] EXCEPT !.pending = asks]]
    BY <1>1 DEF Send
  <2> QED BY <2>1, <1>2 DEF Asked
<1> HIDE DEF id, asks
<1>7. tab' \in [Page -> Tab] /\ tab'[p].pending = asks /\ \A q \in Page \ {p} : tab'[q] = tab[q]
  BY <1>1, <1>6, TabFields
<1>8. /\ ids' \in 0 .. MaxRuns /\ ids <= ids' /\ id <= ids' /\ ids \in Nat /\ id \in Nat \ {0}
      /\ sends \in Nat /\ sends' \in 0 .. MaxSends /\ sendOf' \in [RequestId -> 0 .. MaxSends]
  BY <1>1, <1>2, <1>3 DEF RequestId
<1>9. SendsDiffer'
  <2>1. CASE id <= ids
    <3>1. ids' = ids /\ sendOf' = sendOf
      BY <2>1, <1>3, <1>8
    <3>2. \A i \in 1 .. ids : sendOf[i] \in 1 .. sends => sendOf[i] \in 1 .. sends + 1
      BY <1>8
    <3> QED BY <3>1, <3>2, <1>1, <1>2 DEF SendsDiffer
  <2>2. CASE id = ids + 1
    <3>1. ids' = id /\ sendOf' = [sendOf EXCEPT ![id] = sends + 1]
      BY <2>2, <1>2, <1>3, <1>8
    <3>2. \A i \in 1 .. id : i = id \/ i \in 1 .. ids
      BY <2>2, <1>8
    <3>3. id \in RequestId /\ \A i \in 1 .. ids : i # id /\ i \in RequestId
      BY <2>2, <1>1, <1>2, <1>8 DEF RequestId
    <3>4. /\ sendOf'[id] = sends + 1 /\ \A i \in 1 .. ids : sendOf'[i] = sendOf[i]
      BY <3>1, <3>3, <1>1
    <3>5. \A i \in 1 .. ids : sendOf[i] \in 1 .. sends
      BY <1>1 DEF SendsDiffer
    <3>6. sends + 1 \in 1 .. sends + 1 /\ \A k \in 1 .. sends : k \in 1 .. sends + 1 /\ k # sends + 1
      BY <1>8
    <3>7. ASSUME NEW i \in 1 .. id
          PROVE  sendOf'[i] \in 1 .. sends + 1
      BY <3>2, <3>4, <3>5, <3>6
    <3>8. ASSUME NEW i \in 1 .. id, NEW j \in 1 .. id, sendOf'[i] = sendOf'[j]
          PROVE  i = j
      <4>1. CASE i = id /\ j \in 1 .. ids
        BY <4>1, <3>8, <3>4, <3>5, <3>6
      <4>2. CASE j = id /\ i \in 1 .. ids
        BY <4>2, <3>8, <3>4, <3>5, <3>6
      <4>3. CASE i \in 1 .. ids /\ j \in 1 .. ids
        BY <4>3, <3>8, <3>4, <1>1 DEF SendsDiffer
      <4> QED BY <4>1, <4>2, <4>3, <3>2
    <3> QED BY <3>1, <3>7, <3>8, <1>2 DEF SendsDiffer
  <2> QED BY <2>1, <2>2, <1>4
<1>10. \A q \in Page : /\ tab'[q].pending # Nothing => tab'[q].pending.id <= ids'
                       /\ q # p => tab'[q] = tab[q]
  <2> SUFFICES ASSUME NEW q \in Page, q # p, tab[q].pending # Nothing
               PROVE  tab[q].pending.id <= ids'
    BY <1>6, <1>7, <1>8
  <2>1. tab[q].pending.id \in Nat
    <3>1. tab[q].pending \in Asked
      BY <1>1, TabFields
    <3> QED BY <3>1 DEF Asked, RequestId
  <2>2. tab[q].pending.id <= ids
    BY <1>1 DEF IdsAreMade
  <2> QED BY <2>1, <2>2, <1>8
<1> QED BY <1>2, <1>5, <1>7, <1>8, <1>9, <1>10, NewPost

LEMMA PageKept ==
  ASSUME PageInv, UNCHANGED <<pageVars, case>>
  PROVE  PageInv'
BY DEF PageInv, PageShape, PageTypes, L!TypeOK, pageVars, IdsAreMade, SendsDiffer, RequestsDiffer,
       PostsFit, Awaited, PendingIsThere

LEMMA PageInvStep ==
  ASSUME PageInv, [Next]_vars
  PROVE  PageInv'
<1>1. CASE UNCHANGED vars
  BY <1>1, PageKept DEF vars, siteVars
<1>2. ASSUME NEW c \in Client, Sends(c) \/ Limit(c) \/ Handle(c)
      PROVE  PageInv'
  <2>1. UNCHANGED <<pageVars, case>>
    BY <1>2 DEF Sends, Limit, Handle, siteVars
  <2> QED BY <2>1, PageKept
<1>3. CASE TimePasses
  <2>1. UNCHANGED <<pageVars, case>>
    BY <1>3 DEF TimePasses, siteVars
  <2> QED BY <2>1, PageKept
<1>4. CASE Fails
  <2>1. case' = case /\ (UNCHANGED pageVars \/ \E n \in 1 .. MaxPosts : PostIsAnswered(n, FALSE))
    BY <1>4 DEF Fails
  <2> QED BY <2>1, PageKept, AnswerStep
<1>5. CASE PageWorks
  <2>1. case' = case
    BY <1>5 DEF PageWorks, siteVars
  <2>2. ASSUME NEW p \in case.pages, PageStep(p) PROVE PageInv'
    <3>1. p \in Page
      BY ShapeOf DEF PageInv
    <3> QED BY <3>1, <2>1, <2>2, SendStep, RepeatStep, ReloadStep, DiscoverySteps DEF PageStep
  <2>3. ASSUME NEW n \in 1 .. MaxPosts, Checked(n) \/ ServerStep(n) PROVE PageInv'
    <3>1. CASE Checked(n)
      <4>1. post[n] # Nothing /\ \E s \in {"limit", "app", "look", "reply"} : Pass(n, s)
        BY <3>1 DEF Checked, PostAt
      <4> QED BY <4>1, <2>1, ServerSteps
    <3>2. CASE ServerStep(n)
      BY <3>2, <2>1, ServerSteps, AnswerStep DEF ServerStep
    <3> QED BY <3>1, <3>2, <2>3
  <2>4. ASSUME NEW r \in Run, RunMoves(r) PROVE PageInv'
    <3>1. L!TypeOK'
      BY <2>4, ShapeOf, LifecycleTypes DEF PageInv, RunMoves
    <3> QED BY <3>1, <2>1, <2>4 DEF RunMoves, PageInv, PageShape, PageTypes, Ids, IdsAreMade,
                 SendsDiffer, RequestsDiffer, PostsFit, Awaited, PendingIsThere
  <2> QED BY <1>5, <2>2, <2>3, <2>4 DEF PageWorks
<1> QED BY <1>1, <1>2, <1>3, <1>4, <1>5 DEF Next

LEMMA PageInvInit == Init => PageInv
<1> SUFFICES ASSUME Init PROVE PageInv
  OBVIOUS
<1>1. {MaxSends, MaxLoads, MaxPosts, MaxRuns} \subseteq Nat \ {0}
  BY PageConstants DEF PageConstants
<1>2. /\ ids = 0 /\ sends = 0 /\ request = [r \in Run |-> Nothing]
      /\ post = [n \in 1 .. MaxPosts |-> Nothing] /\ sendOf = [i \in RequestId |-> 0]
      /\ tab = [p \in Page |-> [pending |-> Nothing, run |-> Nothing]]
      /\ page = [p \in Page |-> Fresh(1)] /\ status = [r \in Run |-> "absent"] /\ case \in Cases
  BY DEF Init, PageInit
<1>3. Fresh(1) \in Loaded /\ Fresh(1).discovery = "active"
  BY <1>1 DEF Fresh, Loaded, FlowStep
<1>4. PageShape
  <2>1. L!TypeOK
    BY <1>2 DEF L!TypeOK, L!Status
  <2>2. page \in [Page -> Loaded]
    BY <1>2, <1>3
  <2>3. ids \in 0 .. MaxRuns /\ sends \in 0 .. MaxSends /\ sendOf \in [RequestId -> 0 .. MaxSends]
    BY <1>1, <1>2
  <2> QED BY <1>2, <2>1, <2>2, <2>3 DEF PageShape, PageTypes
<1>5. IdsAreMade /\ SendsDiffer /\ RequestsDiffer /\ PostsFit
  BY <1>2 DEF IdsAreMade, SendsDiffer, RequestsDiffer, PostsFit
<1>6. PendingIsThere
  BY <1>2, <1>3 DEF PendingIsThere
<1> QED BY <1>4, <1>5, <1>6 DEF PageInv

LEMMA OneRunHolds == PageInv => OneRunPerSend
<1> SUFFICES ASSUME PageInv, NEW r \in Run, NEW q \in Run, r # q,
                    request[r] # Nothing, request[q] # Nothing
             PROVE  sendOf[request[r]] # sendOf[request[q]]
  BY DEF OneRunPerSend
<1>1. request[r] \in RequestId /\ request[q] \in RequestId /\ request[r] # request[q]
  BY ShapeOf DEF PageInv, RequestsDiffer
<1>2. request[r] \in 1 .. ids /\ request[q] \in 1 .. ids
  BY <1>1, ShapeOf DEF PageInv, IdsAreMade, RequestId
<1> QED BY <1>1, <1>2 DEF PageInv, SendsDiffer

\* A message the user has sent leads to one run at most, for any number of pages,
\* reloads, POSTs under way and lost answers.
THEOREM MessageHasOneRun == Spec => []OneRunPerSend
<1>1. PageInv /\ [Next]_vars => PageInv'
  BY PageInvStep
<1> QED BY <1>1, PageInvInit, OneRunHolds, PTL DEF Spec

-----------------------------------------------------------------------------
(* What was deleted                                                        *)

\* Every request remembers rows that are gone; a request that has passed the
\* middleware is of a user who was there when it was sent, and one that has found
\* its application is about one that was.
RequestFits(c) ==
  /\ req[c].gone \subseteq Gone
  /\ req[c].op \in {"register", "login", "addUser"} => req[c].what \in Account
  /\ req[c].op \in UserOps => req[c].step \in {"auth", "do"}
  /\ req[c].op \notin Open /\ req[c].step # "auth" => req[c].user \in 1 .. MaxUsers
  /\ req[c].step # "auth" => <<"user", req[c].user>> \notin req[c].gone
  /\ req[c].op \in AppOps /\ req[c].step \notin {"auth", "limit", "do"} =>
       <<"app", req[c].what>> \notin req[c].gone

TableShape ==
  /\ AccountTypes
  /\ apps \in Seq(AppRow) /\ Len(apps) <= MaxApps
  /\ case \in Cases

HiddenInv ==
  /\ TableShape
  /\ \A c \in Client : req[c] # None => RequestFits(c)
  /\ DeletedIsHidden

\* What an answer about these rows shows is hidden well enough.
Fits(c, rows) ==
  \A row \in rows \cap req[c].gone : row[1] = "user" /\ req[c].op \in ShowsAnyUser

LEMMA Least ==
  ASSUME NEW T, T \subseteq Nat, T # {}
  PROVE  \E x \in T : \A y \in T : x <= y
<1> DEFINE Upto == {0 .. x : x \in T}
<1>1. Upto \subseteq FiniteSubsetsOf(Nat)
  <2>1. \A x \in T : 0 .. x \subseteq Nat /\ IsFiniteSet(0 .. x)
    BY FS_Interval
  <2> QED BY <2>1 DEF FiniteSubsetsOf
<1>2. Upto # {}
  OBVIOUS
<1>3. PICK U \in Upto : \A V \in Upto : <<V, U>> \notin StrictSubsetOrdering(Nat)
  BY <1>1, <1>2, FS_StrictSubsetOrderingWellFounded, WFMin
<1>4. PICK x \in T : U = 0 .. x
  BY <1>3
<1>5. ASSUME NEW y \in T, y < x PROVE FALSE
  <2>1. x \in 0 .. x /\ x \notin 0 .. y /\ 0 .. y \subseteq 0 .. x
    BY <1>5
  <2>2. <<0 .. y, U>> \in StrictSubsetOrdering(Nat)
    BY <2>1, <1>4 DEF StrictSubsetOrdering
  <2> QED BY <2>2, <1>3
<1> QED BY <1>4, <1>5

\* The tables only grow, and a row that is gone stays as it is.
Grow(old, new) ==
  /\ DOMAIN old \subseteq DOMAIN new
  /\ \A i \in DOMAIN old : old[i].gone => new[i].gone

LEMMA Appended ==
  ASSUME NEW S, NEW t \in Seq(S), NEW x \in S
  PROVE  /\ Append(t, x) \in Seq(S) /\ Len(Append(t, x)) = Len(t) + 1
         /\ Grow(t, Append(t, x))
BY DEF Grow

LEMMA GoneGrows ==
  ASSUME Grow(users, users'), Grow(apps, apps')
  PROVE  Gone \subseteq Gone'
BY DEF Grow, Gone, UserId, AppId

LEMMA RowFields ==
  /\ \A x \in UserRow, role \in Role : [x EXCEPT !.role = role] \in UserRow
  /\ \A x \in UserRow : [x EXCEPT !.gone = TRUE] \in UserRow
  /\ \A x \in AppRow, priority \in 0 .. 1 : [x EXCEPT !.priority = priority] \in AppRow
  /\ \A x \in AppRow : [x EXCEPT !.name = 2] \in AppRow
  /\ \A x \in AppRow : [x EXCEPT !.gone = TRUE] \in AppRow
<1>1. \A x \in UserRow, role \in Role : [x EXCEPT !.role = role] \in UserRow
  BY DEF UserRow
<1>2. \A x \in UserRow : [x EXCEPT !.gone = TRUE] \in UserRow
  BY DEF UserRow
<1>3. \A x \in AppRow, priority \in 0 .. 1 : [x EXCEPT !.priority = priority] \in AppRow
  BY DEF AppRow
<1>4. \A x \in AppRow : [x EXCEPT !.name = 2] \in AppRow
  BY DEF AppRow
<1>5. \A x \in AppRow : [x EXCEPT !.gone = TRUE] \in AppRow
  BY DEF AppRow
<1> QED BY <1>1, <1>2, <1>3, <1>4, <1>5

\* The ids of rows are ids, and what is gone is a set of rows.
LEMMA IdsFit ==
  ASSUME TableShape
  PROVE  UserId \subseteq 1 .. MaxUsers /\ UserId \subseteq Id /\ AppId \subseteq Id
         /\ Gone \subseteq Row
<1>1. /\ users \in Seq(UserRow) /\ Len(users) <= MaxUsers
      /\ apps \in Seq(AppRow) /\ Len(apps) <= MaxApps
      /\ MaxUsers \in Nat /\ MaxApps \in Nat
  BY AccountConstants DEF TableShape, AccountTypes, AccountConstants
<1>2. UserId \subseteq 1 .. MaxUsers /\ AppId \subseteq 1 .. MaxApps
  BY <1>1 DEF UserId, AppId
<1>3. 1 .. MaxUsers \subseteq Id /\ 1 .. MaxApps \subseteq Id
  BY <1>1 DEF Id
<1>4. UserId \subseteq Id /\ AppId \subseteq Id
  BY <1>2, <1>3
<1>5. Gone \subseteq Row
  <2>1. /\ \A u \in UserId : <<"user", u>> \in Row
        /\ \A a \in AppId : <<"app", a>> \in Row
    BY <1>4 DEF Row
  <2> QED BY <2>1 DEF Gone
<1> QED BY <1>2, <1>4, <1>5

-----------------------------------------------------------------------------
\* What a step does to the tables, the sessions and the cookies.
TablesStep ==
  /\ users' \in Seq(UserRow) /\ Len(users') <= MaxUsers /\ Grow(users, users')
  /\ apps' \in Seq(AppRow) /\ Len(apps') <= MaxApps /\ Grow(apps, apps')
  /\ sessions' \in [Client -> Session \cup {None}] /\ cookie' \in [Client -> BOOLEAN]

LEMMA CreateTables ==
  ASSUME HiddenInv, NEW c \in Client, req[c] # None, req[c].what \in Account,
         NEW role \in Role, Create(c, role), UNCHANGED apps
  PROVE  TablesStep
<1>1. [account |-> req[c].what, role |-> role, gone |-> FALSE, by |-> c] \in UserRow
  BY DEF UserRow
<1>2. /\ users \in Seq(UserRow) /\ Len(users) \in Nat /\ Len(users) < MaxUsers /\ MaxUsers \in Nat
  BY AccountConstants DEF AccountConstants, HiddenInv, TableShape, AccountTypes, Create
<1>3. /\ users' = Append(users, [account |-> req[c].what, role |-> role, gone |-> FALSE, by |-> c])
      /\ UNCHANGED <<apps, sessions, cookie>>
  BY DEF Create
<1>4. users' \in Seq(UserRow) /\ Len(users') = Len(users) + 1 /\ Grow(users, users')
  BY <1>1, <1>2, <1>3, Appended
<1>5. Len(users') <= MaxUsers
  BY <1>2, <1>4
<1>6. Grow(apps, apps)
  BY DEF Grow
<1> QED BY <1>3, <1>4, <1>5, <1>6 DEF TablesStep, HiddenInv, TableShape, AccountTypes

LEMMA ChangeTables ==
  ASSUME HiddenInv, NEW c \in Client, UNCHANGED apps, NEW x,
         IsLive(req[c].what) => x \in UserRow, ChangeUser(c, x)
  PROVE  TablesStep
<1>1. Grow(users, users) /\ Grow(apps, apps)
  BY DEF Grow
<1>2. CASE IsLive(req[c].what)
  <2>1. users' = [users EXCEPT ![req[c].what] = x] /\ UNCHANGED <<sessions, cookie>>
    BY <1>2 DEF ChangeUser
  <2>2. /\ users \in Seq(UserRow) /\ req[c].what \in DOMAIN users
        /\ ~users[req[c].what].gone /\ x \in UserRow
    BY <1>2 DEF HiddenInv, TableShape, AccountTypes, IsLive, UserId
  <2>3. users' \in Seq(UserRow) /\ Len(users') = Len(users) /\ Grow(users, users')
    BY <2>1, <2>2 DEF Grow
  <2> QED BY <2>1, <2>3, <1>1 DEF TablesStep, HiddenInv, TableShape, AccountTypes
<1>3. CASE ~IsLive(req[c].what)
  <2>1. UNCHANGED <<users, sessions, cookie>>
    BY <1>3 DEF ChangeUser, Reply, Stored
  <2> QED BY <2>1, <1>1 DEF TablesStep, HiddenInv, TableShape, AccountTypes
<1> QED BY <1>2, <1>3

LEMMA WriteTables ==
  ASSUME HiddenInv, NEW c \in Client, NEW a, NEW x, UNCHANGED Stored,
         \/ apps' = apps
         \/ Exists(a) /\ x \in AppRow /\ apps' = [apps EXCEPT ![a] = x]
  PROVE  TablesStep
<1>1. Grow(users, users) /\ Grow(apps, apps)
  BY DEF Grow
<1>2. CASE apps' = apps
  BY <1>1, <1>2 DEF Stored, TablesStep, HiddenInv, TableShape, AccountTypes
<1>3. CASE Exists(a) /\ x \in AppRow /\ apps' = [apps EXCEPT ![a] = x]
  <2>1. apps \in Seq(AppRow) /\ a \in DOMAIN apps /\ ~apps[a].gone
    BY <1>3 DEF HiddenInv, TableShape, Exists, AppId
  <2>2. apps' \in Seq(AppRow) /\ Len(apps') = Len(apps) /\ Grow(apps, apps')
    BY <1>3, <2>1 DEF Grow
  <2> QED BY <2>2, <1>1 DEF Stored, TablesStep, HiddenInv, TableShape, AccountTypes
<1> QED BY <1>2, <1>3

-----------------------------------------------------------------------------
\* What a step does to a request: it may go on, be answered, pass the middleware
\* or be sent.
Advances(c) ==
  \E step \in Step :
    /\ req[c] # None /\ req' = [req EXCEPT ![c].step = step] /\ answer' = answer
    /\ req[c].op \in UserOps => step = "do"
    /\ req[c].step # "auth" /\ step # "auth"
    /\ req[c].op \in AppOps /\ step \notin {"limit", "do"} =>
         req[c].step \notin {"auth", "limit", "do"} \/ Exists(req[c].what)

Ends(c) ==
  \E ok \in BOOLEAN : \E rows :
    req[c] # None /\ Answer(c, ok, rows) /\ (ok => Fits(c, rows))

Enters(c) ==
  /\ At(c, "auth") /\ KnownUser(c) /\ answer' = answer
  /\ req' = [req EXCEPT ![c].step = IF req[c].op \in Limited THEN "limit" ELSE "do",
                        ![c].user = sessions[c].user, ![c].role = sessions[c].role]

Begins(c) ==
  \E op \in Ops : \E what \in Wanted(op) : Ask(c, op, what, Gone)

RequestStep(c) == Advances(c) \/ Ends(c) \/ Enters(c) \/ Begins(c)

LEMMA LiveIsThere ==
  /\ \A u : IsLive(u) => <<"user", u>> \notin Gone
  /\ \A a : Exists(a) => <<"app", a>> \notin Gone
BY DEF IsLive, Exists, Gone, UserId, AppId

LEMMA RequestOf ==
  ASSUME HiddenInv, NEW c \in Client, req[c] # None
  PROVE  /\ RequestFits(c) /\ req[c] \in Request
         /\ req[c].op \in Ops /\ req[c].step \in Step /\ req[c].gone \subseteq Row
BY DEF HiddenInv, TableShape, AccountTypes, Request

\* An answer is about nothing that was gone, if the rows it asks for are there.
LEMMA AboutFits ==
  ASSUME HiddenInv, NEW c \in Client, req[c] # None, req[c].step # "auth",
         req[c].op \in UserOps => IsLive(req[c].what),
         req[c].op \in AppOps =>
           req[c].step \notin {"auth", "limit", "do"} \/ Exists(req[c].what)
  PROVE  About(c) \cap req[c].gone = {}
<1>1. RequestFits(c)
  BY RequestOf
<1>2. <<"user", req[c].user>> \notin req[c].gone
  BY <1>1 DEF RequestFits
<1>3. req[c].op \in UserOps => <<"user", req[c].what>> \notin req[c].gone
  BY <1>1, LiveIsThere DEF RequestFits
<1>4. req[c].op \in AppOps => <<"app", req[c].what>> \notin req[c].gone
  BY <1>1, LiveIsThere DEF RequestFits
<1> QED BY <1>2, <1>3, <1>4 DEF About

LEMMA TablesKept ==
  ASSUME HiddenInv, NEW c \in Client, UNCHANGED <<Stored, apps>>
  PROVE  TablesStep
<1>1. UNCHANGED Stored /\ apps' = apps
  OBVIOUS
<1> QED BY <1>1, WriteTables

\* A refusal shows nothing.
LEMMA Refused ==
  ASSUME HiddenInv, NEW c \in Client, req[c] # None, NEW rows, Answer(c, FALSE, rows)
  PROVE  RequestStep(c)
BY DEF RequestStep, Ends

LEMMA OverEnds ==
  ASSUME HiddenInv, NEW c \in Client, req[c] # None, NEW ok \in BOOLEAN, Over(c, ok),
         ok => About(c) \cap req[c].gone = {}
  PROVE  RequestStep(c)
BY DEF RequestStep, Ends, Over, Fits

LEMMA GoesOn ==
  ASSUME HiddenInv, NEW c \in Client, req[c] # None, NEW step \in Step, GoOn(c, step),
         req[c].op \notin UserOps, req[c].step # "auth", step # "auth",
         req[c].op \in AppOps /\ step \notin {"limit", "do"} =>
           req[c].step \notin {"auth", "limit", "do"} \/ Exists(req[c].what)
  PROVE  RequestStep(c)
BY DEF RequestStep, Advances, GoOn

-----------------------------------------------------------------------------
LEMMA LoginTables ==
  ASSUME HiddenInv, NEW c \in Client, Login(c), UNCHANGED apps
  PROVE  TablesStep
<1> DEFINE rows == RowsOf(req[c].what)
           first == CHOOSE u \in rows : \A v \in rows : u <= v
<1>1. /\ users \in Seq(UserRow) /\ Len(users) <= MaxUsers /\ MaxUsers \in Nat
      /\ sessions \in [Client -> Session \cup {None}] /\ cookie \in [Client -> BOOLEAN]
  BY AccountConstants DEF HiddenInv, TableShape, AccountTypes, AccountConstants
<1>2. Grow(users, users) /\ Grow(apps, apps)
  BY DEF Grow
<1>3. CASE rows # {} /\ users[first].by = c
  <2>1. rows \subseteq Nat /\ rows \subseteq UserId
    BY <1>1 DEF RowsOf, UserId
  <2>2. first \in UserId
    <3>1. \E u \in rows : \A v \in rows : u <= v
      <4> HIDE DEF rows
      <4> QED BY <1>3, <2>1, Least
    <3>2. first \in rows
      <4> HIDE DEF rows
      <4> QED BY <3>1
    <3> QED BY <3>2, <2>1
  <2> HIDE DEF first
  <2>3. first \in 1 .. MaxUsers /\ users[first].role \in Role
    <3>1. first \in 1 .. Len(users) /\ users[first] \in UserRow
      BY <2>2, <1>1 DEF UserId
    <3>2. first \in 1 .. MaxUsers
      BY <3>1, <1>1
    <3> QED BY <3>1, <3>2 DEF UserRow
  <2>4. [user |-> first, role |-> users[first].role] \in Session
    BY <2>3 DEF Session
  <2>5. /\ sessions' = [sessions EXCEPT ![c] = [user |-> first, role |-> users[first].role]]
        /\ cookie' = [cookie EXCEPT ![c] = TRUE] /\ UNCHANGED users
    BY <1>3 DEF Login, first
  <2>6. sessions' \in [Client -> Session \cup {None}] /\ cookie' \in [Client -> BOOLEAN]
    BY <2>4, <2>5, <1>1
  <2> QED BY <2>5, <2>6, <1>1, <1>2 DEF TablesStep, HiddenInv, TableShape
<1>4. CASE ~(rows # {} /\ users[first].by = c)
  <2>1. UNCHANGED Stored
    BY <1>4 DEF Login, Reply
  <2> QED BY <2>1, TablesKept
<1> QED BY <1>3, <1>4

LEMMA AccountSteps ==
  ASSUME HiddenInv, NEW c \in Client, AccountStep(c), UNCHANGED apps
  PROVE  TablesStep /\ RequestStep(c)
<1>1. req[c] # None
  BY DEF AccountStep, Authenticate, CheckName, Register, Login, Logout, WhoAmI, GetUserByID,
         AddUser, UpdateUser, DeleteUser, Doing, At
<1>2. RequestFits(c)
  BY <1>1, RequestOf
<1>3. CASE Authenticate(c)
  <2>1. UNCHANGED Stored
    BY <1>3 DEF Authenticate, Reply
  <2>2. Enters(c) \/ Over(c, FALSE)
    BY <1>3 DEF Authenticate, Enters, Reply
  <2> QED BY <2>1, <2>2, <1>1, TablesKept, OverEnds DEF RequestStep
<1>4. CASE CheckName(c) \/ WhoAmI(c) \/ GetUserByID(c)
  <2>1. UNCHANGED Stored /\ req[c].step = "do"
    BY <1>4 DEF CheckName, WhoAmI, GetUserByID, Reply, GoOn, Doing, At
  <2>2. CASE CheckName(c)
    <3>1. req[c].op = "register" /\ (GoOn(c, "insert") \/ Over(c, FALSE))
      BY <2>2 DEF CheckName, Doing, Reply
    <3>2. req[c].op \notin UserOps /\ req[c].op \notin AppOps /\ "insert" \in Step
      BY <3>1 DEF UserOps, AppOps, Step
    <3> QED BY <3>1, <3>2, <2>1, <1>1, GoesOn, OverEnds, TablesKept
  <2>3. CASE WhoAmI(c)
    <3>1. Over(c, TRUE) /\ req[c].op \notin UserOps /\ req[c].op \notin AppOps
      BY <2>3 DEF WhoAmI, Doing, Reply, UserOps, AppOps
    <3> QED BY <3>1, <2>1, <1>1, AboutFits, OverEnds, TablesKept
  <2>4. CASE GetUserByID(c)
    <3>1. Over(c, IsLive(req[c].what)) /\ IsLive(req[c].what) \in BOOLEAN /\ req[c].op \notin AppOps
      BY <2>4 DEF GetUserByID, Doing, Reply, AppOps, IsLive
    <3>2. IsLive(req[c].what) => About(c) \cap req[c].gone = {}
      BY <3>1, <2>1, <1>1, AboutFits
    <3> QED BY <3>1, <3>2, <2>1, <1>1, OverEnds, TablesKept
  <2> QED BY <1>4, <2>2, <2>3, <2>4
<1>5. CASE Register(c) \/ AddUser(c)
  <2>1. /\ req[c].op \in {"register", "addUser"} /\ req[c].step \in {"insert", "do"}
        /\ \E role \in Role : Create(c, role)
    BY <1>5 DEF Register, AddUser, Doing, At, Role
  <2>2. req[c].what \in Account /\ req[c].op \notin UserOps /\ req[c].op \notin AppOps
    BY <2>1, <1>2 DEF RequestFits, UserOps, AppOps
  <2>3. Over(c, TRUE)
    BY <2>1 DEF Create
  <2>4. About(c) \cap req[c].gone = {}
    BY <2>1, <2>2, <1>1, AboutFits
  <2> QED BY <2>1, <2>2, <2>3, <2>4, <1>1, CreateTables, OverEnds
<1>6. CASE Login(c)
  <2>1. /\ req[c].op = "login"
        /\ (\E u : Answer(c, TRUE, {<<"user", u>>})) \/ Over(c, FALSE)
    <3> DEFINE rows == RowsOf(req[c].what)
               first == CHOOSE u \in rows : \A v \in rows : u <= v
    <3>1. req[c].op = "login"
      BY <1>6 DEF Login, Doing
    <3>2. CASE rows # {} /\ users[first].by = c
      <4>1. Answer(c, TRUE, {<<"user", first>>})
        BY <1>6, <3>2 DEF Login
      <4> HIDE DEF first
      <4> QED BY <3>1, <4>1
    <3>3. CASE ~(rows # {} /\ users[first].by = c)
      BY <1>6, <3>1, <3>3 DEF Login, Reply
    <3> QED BY <3>2, <3>3
  <2>2. \A u : Fits(c, {<<"user", u>>})
    <3>1. \A u : <<"user", u>>[1] = "user"
      OBVIOUS
    <3>2. req[c].op \in ShowsAnyUser
      BY <2>1 DEF ShowsAnyUser
    <3> QED BY <3>1, <3>2 DEF Fits
  <2>3. RequestStep(c)
    BY <2>1, <2>2, <1>1, OverEnds DEF RequestStep, Ends
  <2> QED BY <2>3, <1>6, LoginTables
<1>7. CASE Logout(c)
  <2>1. req[c].op = "logout" /\ req[c].step = "do" /\ Over(c, TRUE)
    BY <1>7 DEF Logout, Doing, At
  <2>2. About(c) \cap req[c].gone = {}
    BY <2>1, <1>1, AboutFits DEF UserOps, AppOps
  <2>3. TablesStep
    <3>1. Grow(users, users) /\ Grow(apps, apps)
      BY DEF Grow
    <3> QED BY <3>1, <1>7 DEF Logout, TablesStep, HiddenInv, TableShape, AccountTypes
  <2> QED BY <2>1, <2>2, <2>3, <1>1, OverEnds
<1>8. CASE UpdateUser(c) \/ DeleteUser(c)
  <2>1. req[c].op \in UserOps /\ req[c].op \notin AppOps /\ req[c].step = "do"
    BY <1>8 DEF UpdateUser, DeleteUser, Doing, At, UserOps, AppOps
  <2>2. PICK x : ChangeUser(c, x) /\ (IsLive(req[c].what) => x \in UserRow)
    <3>1. IsLive(req[c].what) => users[req[c].what] \in UserRow
      BY DEF IsLive, UserId, HiddenInv, TableShape, AccountTypes
    <3>2. CASE UpdateUser(c)
      <4>1. PICK role \in Role : ChangeUser(c, [users[req[c].what] EXCEPT !.role = role])
        BY <3>2 DEF UpdateUser
      <4> QED BY <4>1, <3>1, RowFields
    <3>3. CASE DeleteUser(c)
      BY <3>3, <3>1, RowFields DEF DeleteUser
    <3> QED BY <1>8, <3>2, <3>3
  <2>3. Over(c, FALSE) \/ (IsLive(req[c].what) /\ Over(c, TRUE))
    BY <2>2 DEF ChangeUser, Reply
  <2>4. IsLive(req[c].what) => About(c) \cap req[c].gone = {}
    BY <2>1, <1>1, AboutFits
  <2> QED BY <2>2, <2>3, <2>4, <1>1, ChangeTables, OverEnds
<1> QED BY <1>3, <1>4, <1>5, <1>6, <1>7, <1>8 DEF AccountStep

LEMMA SourceAndLists ==
  ASSUME HiddenInv, NEW c \in Client, GetSourceCode(c) \/ List(c)
  PROVE  TablesStep /\ RequestStep(c)
<1>1. req[c] # None /\ UNCHANGED <<Stored, apps>> /\ TablesStep
  <2>1. req[c] # None /\ UNCHANGED <<Stored, apps>>
    BY DEF GetSourceCode, List, Doing, At, Only, Reply, GoOn, appVars
  <2> QED BY <2>1, TablesKept
<1>2. req[c].gone \subseteq Gone
  BY <1>1, RequestOf DEF RequestFits
<1>3. CASE GetSourceCode(c)
  <2>1. PICK ok \in BOOLEAN : Over(c, ok) /\ (ok => Exists(req[c].what))
    BY <1>3 DEF GetSourceCode, Only, Reply, Exists
  <2>2. req[c].op \notin UserOps /\ req[c].step = "do"
    BY <1>3 DEF GetSourceCode, Doing, At, UserOps
  <2>3. ok => About(c) \cap req[c].gone = {}
    BY <2>1, <2>2, <1>1, AboutFits
  <2> QED BY <2>1, <2>3, <1>1, OverEnds
<1>4. CASE List(c)
  <2>1. req[c].op \in Lists /\ req[c].op \notin UserOps /\ req[c].op \notin AppOps
    BY <1>4 DEF List, Lists, AppLists, UserOps, AppOps
  <2>2. CASE At(c, "do") /\ GoOn(c, "find")
    <3>1. "find" \in Step /\ req[c].step = "do"
      BY <2>2 DEF At, Step
    <3> QED BY <2>1, <2>2, <3>1, <1>1, GoesOn
  <2>3. CASE \E num \in 1 .. 2 : Answer(c, TRUE, WithOwners(c, PageOf(Listed(c), num)))
    <3>1. PICK num \in 1 .. 2 : Answer(c, TRUE, WithOwners(c, PageOf(Listed(c), num)))
      BY <2>3
    <3>2. PageOf(Listed(c), num) \subseteq Listed(c)
      BY DEF PageOf
    <3>3. \A row \in Listed(c) : row \notin Gone
      <4>1. \A a : Exists(a) => <<"app", a>> \notin Gone
        BY LiveIsThere
      <4>2. \A u : IsLive(u) => <<"user", u>> \notin Gone
        BY LiveIsThere
      <4>3. Listed(c) \subseteq ({"app"} \X AllApps) \cup ({"user"} \X AllUsers)
        <5>1. MyApps(c) \subseteq AllApps /\ GoodApps \subseteq AllApps /\ AllChats \subseteq AllApps
          BY DEF MyApps, GoodApps, AllApps, AllChats, Rows, Exists
        <5> QED BY <5>1, <2>1 DEF Listed, Lists, AppLists
      <4> QED BY <4>1, <4>2, <4>3 DEF AllApps, AllUsers
    <3>4. PageOf(Listed(c), num) \cap req[c].gone = {}
      BY <3>2, <3>3, <1>2
    <3>5. CASE req[c].op = "listMy"
      <4>1. \A row \in PageOf(Listed(c), num) : apps[row[2]].owner = req[c].user
        BY <3>2, <3>5 DEF Listed, MyApps, Owns
      <4>2. WithOwners(c, PageOf(Listed(c), num))
              \subseteq PageOf(Listed(c), num) \cup {<<"user", req[c].user>>}
        BY <4>1 DEF WithOwners
      <4>3. <<"user", req[c].user>> \notin req[c].gone
        BY <1>1, <1>4, RequestOf DEF RequestFits, List, At
      <4> QED BY <4>2, <4>3, <3>1, <3>4, <1>1 DEF RequestStep, Ends, Fits
    <3>6. CASE req[c].op # "listMy"
      <4>1. WithOwners(c, PageOf(Listed(c), num)) \cap req[c].gone # {} =>
              req[c].op \in ShowsAnyUser
        BY <3>4, <3>6 DEF WithOwners, AppLists, ShowsAnyUser
      <4>2. \A row \in WithOwners(c, PageOf(Listed(c), num)) \cap req[c].gone :
              row[1] = "user"
        BY <3>4 DEF WithOwners
      <4> QED BY <4>1, <4>2, <3>1, <1>1 DEF RequestStep, Ends, Fits
    <3> QED BY <3>5, <3>6
  <2> QED BY <1>4, <2>2, <2>3 DEF List
<1> QED BY <1>3, <1>4

\* The requests about one application.
LEMMA ReadSteps ==
  ASSUME HiddenInv, NEW c \in Client, req[c] # None, req[c].step = "do",
         req[c].op \notin UserOps, NEW allowed, NEW step \in Step, step # "auth",
         ReadThen(c, allowed, step)
  PROVE  TablesStep /\ RequestStep(c)
<1>1. UNCHANGED <<Stored, apps>>
  BY DEF ReadThen, GoOn, Only, Reply, appVars
<1>2. CASE Exists(req[c].what) /\ GoOn(c, step)
  BY <1>1, <1>2, GoesOn, TablesKept
<1>3. CASE Over(c, FALSE)
  BY <1>1, <1>3, OverEnds, TablesKept
<1> QED BY <1>2, <1>3 DEF ReadThen, Only, Reply

LEMMA OnlySteps ==
  ASSUME HiddenInv, NEW c \in Client, req[c] # None, NEW ok \in BOOLEAN, Only(c, ok),
         ok => About(c) \cap req[c].gone = {}
  PROVE  TablesStep /\ RequestStep(c)
<1>1. UNCHANGED <<Stored, apps>> /\ Over(c, ok)
  BY DEF Only, Reply, appVars
<1> QED BY <1>1, OverEnds, TablesKept

LEMMA WriteSteps ==
  ASSUME HiddenInv, NEW c \in Client, req[c] # None, req[c].step = "write",
         req[c].op \notin UserOps, NEW x, Exists(req[c].what) => x \in AppRow, WriteRow(c, x)
  PROVE  TablesStep /\ RequestStep(c)
<1>1. UNCHANGED Stored /\ Over(c, TRUE)
  BY DEF WriteRow, Reply
<1>2. \/ apps' = apps
      \/ Exists(req[c].what) /\ x \in AppRow /\ apps' = [apps EXCEPT ![req[c].what] = x]
  BY DEF WriteRow
<1>3. TablesStep
  BY <1>1, <1>2, WriteTables
<1>4. About(c) \cap req[c].gone = {}
  BY AboutFits
<1> QED BY <1>1, <1>3, <1>4, OverEnds

LEMMA MarkSteps ==
  ASSUME HiddenInv, NEW c \in Client, req[c] # None, req[c].step = "do",
         req[c].op \notin UserOps, NEW allowed, MarkGone(c, allowed)
  PROVE  TablesStep /\ RequestStep(c)
<1>1. CASE Exists(req[c].what) /\ allowed
  <2>1. /\ apps' = [apps EXCEPT ![req[c].what] = [apps[req[c].what] EXCEPT !.gone = TRUE]]
        /\ GoOn(c, "clear")
    <3>1. apps \in Seq(AppRow)
      BY DEF HiddenInv, TableShape
    <3> QED BY <1>1, <3>1 DEF MarkGone
  <2>2. [apps[req[c].what] EXCEPT !.gone = TRUE] \in AppRow
    <3>1. apps[req[c].what] \in AppRow
      BY <1>1 DEF HiddenInv, TableShape, Exists, AppId
    <3> QED BY <3>1, RowFields
  <2>3. UNCHANGED Stored
    BY <2>1 DEF GoOn
  <2>4. TablesStep
    BY <1>1, <2>1, <2>2, <2>3, WriteTables
  <2>5. "clear" \in Step
    BY DEF Step
  <2> QED BY <1>1, <2>1, <2>4, <2>5, GoesOn
<1>2. CASE ~(Exists(req[c].what) /\ allowed)
  BY <1>2, OnlySteps DEF MarkGone
<1> QED BY <1>1, <1>2

LEMMA AppSteps ==
  ASSUME HiddenInv, NEW c \in Client, OwnerStep(c) \/ AdminStep(c) \/ List(c)
  PROVE  TablesStep /\ RequestStep(c)
<1>1. CASE GetSourceCode(c) \/ List(c)
  BY <1>1, SourceAndLists
<1>2. CASE AddApp(c)
  <2>1. /\ req[c] # None /\ req[c].op = "addApp" /\ req[c].step = "do" /\ Len(apps) < MaxApps
        /\ UNCHANGED Stored /\ Over(c, TRUE)
    BY <1>2 DEF AddApp, Doing, At, Reply
  <2>2. req[c].op \notin UserOps /\ req[c].op \notin AppOps /\ req[c].op \notin Open
    BY <2>1 DEF UserOps, AppOps, Open
  <2>3. About(c) \cap req[c].gone = {}
    BY <2>1, <2>2, AboutFits
  <2>4. req[c].user \in 1 .. MaxUsers
    BY <2>1, <2>2, RequestOf DEF RequestFits
  <2>5. TablesStep
    <3> DEFINE row == [owner |-> req[c].user, name |-> 1, priority |-> 0, gone |-> FALSE]
    <3>1. row \in AppRow
      BY <2>4 DEF AppRow
    <3>2. apps \in Seq(AppRow) /\ Len(apps) \in Nat /\ MaxApps \in Nat
      BY AccountConstants DEF AccountConstants, HiddenInv, TableShape
    <3>3. apps' = Append(apps, row)
      BY <1>2 DEF AddApp
    <3> HIDE DEF row
    <3>4. apps' \in Seq(AppRow) /\ Len(apps') = Len(apps) + 1 /\ Grow(apps, apps')
      BY <3>1, <3>2, <3>3, Appended
    <3>5. Len(apps') <= MaxApps
      BY <2>1, <3>2, <3>4
    <3>6. Grow(users, users)
      BY DEF Grow
    <3> QED BY <2>1, <3>4, <3>5, <3>6 DEF Stored, TablesStep, HiddenInv, TableShape, AccountTypes
  <2> QED BY <2>1, <2>3, <2>5, OverEnds
<1>3. CASE At(c, "do") /\ (UpdateApp(c) \/ GetApp(c) \/ AdminUpdateApp(c) \/ AdminGetAppVo(c))
  <2>1. req[c] # None /\ req[c].step = "do" /\ req[c].op \notin UserOps
    BY <1>3 DEF UpdateApp, GetApp, AdminUpdateApp, AdminGetAppVo, Doing, At, UserOps
  <2>2. \E allowed : ReadThen(c, allowed, "write") \/ ReadThen(c, allowed, "owner")
    BY <1>3, <2>1 DEF UpdateApp, GetApp, AdminUpdateApp, AdminGetAppVo, Doing, At
  <2> QED BY <2>1, <2>2, ReadSteps DEF Step
<1>4. CASE At(c, "write") /\ (UpdateApp(c) \/ AdminUpdateApp(c))
  <2>1. req[c] # None /\ req[c].step = "write" /\ req[c].op \notin UserOps
    BY <1>4 DEF UpdateApp, AdminUpdateApp, Doing, At, UserOps
  <2>2. Exists(req[c].what) => apps[req[c].what] \in AppRow
    BY DEF Exists, AppId, HiddenInv, TableShape
  <2>3. \E x : (Exists(req[c].what) => x \in AppRow) /\ WriteRow(c, x)
    <3>1. CASE UpdateApp(c)
      <4>1. WriteRow(c, [apps[req[c].what] EXCEPT !.name = 2])
        BY <1>4, <3>1 DEF UpdateApp, Doing, At
      <4> QED BY <4>1, <2>2, RowFields
    <3>2. CASE AdminUpdateApp(c)
      <4>1. PICK priority \in 0 .. 1 : WriteRow(c, [apps[req[c].what] EXCEPT !.priority = priority])
        BY <1>4, <3>2 DEF AdminUpdateApp, Doing, At
      <4> QED BY <4>1, <2>2, RowFields
    <3> QED BY <1>4, <3>1, <3>2
  <2> QED BY <2>1, <2>3, WriteSteps
<1>5. CASE At(c, "do") /\ (DeleteApp(c) \/ AdminDeleteApp(c))
  <2>1. /\ req[c] # None /\ req[c].step = "do" /\ req[c].op \notin UserOps
        /\ \E allowed : MarkGone(c, allowed)
    BY <1>5 DEF DeleteApp, AdminDeleteApp, Doing, At, UserOps
  <2> QED BY <2>1, MarkSteps
<1>6. CASE At(c, "clear") /\ (DeleteApp(c) \/ AdminDeleteApp(c))
  <2>1. /\ req[c] # None /\ req[c].step = "clear" /\ req[c].op \notin UserOps
        /\ \E ok \in BOOLEAN : Only(c, ok)
    BY <1>6 DEF DeleteApp, AdminDeleteApp, Doing, At, UserOps
  <2>2. About(c) \cap req[c].gone = {}
    BY <2>1, AboutFits
  <2> QED BY <2>1, <2>2, OnlySteps
<1>7. CASE GetAppVo(c)
  <2> DEFINE owner == apps[req[c].what].owner
  <2>1. /\ req[c] # None /\ req[c].step = "owner" /\ UNCHANGED <<Stored, apps>>
        /\ Answer(c, IsLive(owner), About(c) \cup {<<"user", owner>>})
    BY <1>7 DEF GetAppVo, At, appVars
  <2>2. RequestFits(c)
    BY <2>1, RequestOf
  <2>3. req[c].op \notin UserOps
    BY <2>1, <2>2 DEF RequestFits
  <2>4. About(c) \cap req[c].gone = {}
    BY <2>1, <2>3, AboutFits
  <2>5. IsLive(owner) => (About(c) \cup {<<"user", owner>>}) \cap req[c].gone = {}
    BY <2>2, <2>4, LiveIsThere DEF RequestFits
  <2>6. IsLive(owner) \in BOOLEAN
    BY DEF IsLive
  <2> HIDE DEF owner
  <2> QED BY <2>1, <2>5, <2>6, TablesKept DEF RequestStep, Ends, Fits
<1> QED BY <1>1, <1>2, <1>3, <1>4, <1>5, <1>6, <1>7
        DEF OwnerStep, AdminStep, UpdateApp, DeleteApp, GetApp, AdminUpdateApp, AdminDeleteApp,
            AdminGetAppVo, Doing

LEMMA TalkSteps ==
  ASSUME HiddenInv, NEW c \in Client,
         \/ HistoryStep(c) \/ ChatStep(c)
         \/ \E works \in BOOLEAN : ClearHistory(c, works) \/ FillCache(c, works)
  PROVE  TablesStep /\ RequestStep(c)
<1>1. CASE ReadApp(c) \/ OpenChat(c)
  <2>1. /\ req[c] # None /\ req[c].step = "do" /\ req[c].op \notin UserOps
        /\ \E allowed : ReadThen(c, allowed, "cache") \/ ReadThen(c, allowed, "insert")
    BY <1>1 DEF ReadApp, OpenChat, Doing, At, UserOps
  <2> QED BY <2>1, ReadSteps DEF Step
<1>2. ASSUME req[c] # None, req[c].step \in {"cache", "rows", "fill", "insert", "clear"},
             UNCHANGED apps, NEW s \in {"rows", "page", "fill", "clear", "insert"}, GoOn(c, s)
      PROVE  TablesStep /\ RequestStep(c)
  <2>1. RequestFits(c) /\ s \in Step /\ UNCHANGED <<Stored, apps>>
    BY <1>2, RequestOf DEF Step, GoOn
  <2>2. req[c].op \notin UserOps
    BY <1>2, <2>1 DEF RequestFits
  <2> QED BY <1>2, <2>1, <2>2, GoesOn, TablesKept
<1>3. CASE ReadCache(c) \/ ReadRows(c) \/ \E works \in BOOLEAN : FillCache(c, works)
  <2>1. /\ req[c] # None /\ req[c].step \in {"cache", "rows", "fill"} /\ UNCHANGED apps
        /\ \E s \in {"rows", "page", "fill"} : GoOn(c, s)
    BY <1>3 DEF ReadCache, ReadRows, FillCache, ReadInto, At
  <2> QED BY <2>1, <1>2
<1>4. CASE AddChatMessage(c)
  <2>1. req[c] # None /\ req[c].step = "insert"
    BY <1>4 DEF AddChatMessage, At
  <2>2. (UNCHANGED apps /\ GoOn(c, "clear")) \/ Only(c, FALSE)
    BY <1>4 DEF AddChatMessage
  <2> QED BY <2>1, <2>2, <1>2, OnlySteps
<1>5. ASSUME req[c] # None, req[c].step \in {"page", "clear"}, UNCHANGED apps, Reply(c, TRUE)
      PROVE  TablesStep /\ RequestStep(c)
  <2>1. req[c].op \notin UserOps
    BY <1>5, RequestOf DEF RequestFits
  <2>2. About(c) \cap req[c].gone = {}
    BY <1>5, <2>1, AboutFits
  <2>3. UNCHANGED <<Stored, apps>> /\ Over(c, TRUE)
    BY <1>5 DEF Reply
  <2> QED BY <1>5, <2>2, <2>3, OverEnds, TablesKept
<1>6. CASE ShowPage(c)
  <2>1. req[c] # None /\ req[c].step = "page" /\ UNCHANGED apps /\ Reply(c, TRUE)
    BY <1>6 DEF ShowPage, At
  <2> QED BY <2>1, <1>5
<1>7. CASE \E works \in BOOLEAN : ClearHistory(c, works)
  <2>1. /\ req[c] # None /\ req[c].step = "clear" /\ UNCHANGED apps
        /\ GoOn(c, "insert") \/ Reply(c, TRUE)
    BY <1>7 DEF ClearHistory, Doing, At
  <2> QED BY <2>1, <1>2, <1>5
<1> QED BY <1>1, <1>3, <1>4, <1>6, <1>7 DEF HistoryStep, ChatStep

LEMMA LimitSteps ==
  ASSUME HiddenInv, NEW c \in Client, Limit(c)
  PROVE  TablesStep /\ RequestStep(c)
<1>1. req[c] # None /\ req[c].step = "limit" /\ UNCHANGED apps
  BY DEF Limit, At, appVars
<1>2. req[c].op \notin UserOps
  BY <1>1, RequestOf DEF RequestFits
<1>3. UNCHANGED Stored /\ (GoOn(c, "do") \/ Answer(c, FALSE, {}))
  BY DEF Limit, GoOn
<1>4. "do" \in Step
  BY DEF Step
<1> QED BY <1>1, <1>2, <1>3, <1>4, GoesOn, Refused, TablesKept

-----------------------------------------------------------------------------
AtStep(q, s) == [q EXCEPT !.step = s]
EnteredAs(q, s, u, r) == [q EXCEPT !.step = s, !.user = u, !.role = r]
NewRequest(op, what) ==
  [op |-> op, step |-> IF op \in Open THEN "do" ELSE "auth", what |-> what,
   user |-> None, role |-> "user", gone |-> Gone]

LEMMA RequestFields ==
  ASSUME NEW q \in Request, NEW s \in Step
  PROVE  /\ q.op \in Ops /\ q.gone \in SUBSET Row
         /\ AtStep(q, s) \in Request /\ AtStep(q, s).step = s
         /\ AtStep(q, s).op = q.op /\ AtStep(q, s).what = q.what
         /\ AtStep(q, s).user = q.user /\ AtStep(q, s).gone = q.gone
         /\ \A u \in 1 .. MaxUsers, r \in Role :
              /\ EnteredAs(q, s, u, r) \in Request /\ EnteredAs(q, s, u, r).step = s
              /\ EnteredAs(q, s, u, r).op = q.op /\ EnteredAs(q, s, u, r).what = q.what
              /\ EnteredAs(q, s, u, r).user = u /\ EnteredAs(q, s, u, r).gone = q.gone
<1>1. /\ q.op \in Ops /\ q.gone \in SUBSET Row
      /\ AtStep(q, s) \in Request /\ AtStep(q, s).step = s
      /\ AtStep(q, s).op = q.op /\ AtStep(q, s).what = q.what
      /\ AtStep(q, s).user = q.user /\ AtStep(q, s).gone = q.gone
  BY DEF Request, AtStep
<1>2. ASSUME NEW u \in 1 .. MaxUsers, NEW r \in Role
      PROVE  /\ EnteredAs(q, s, u, r) \in Request /\ EnteredAs(q, s, u, r).step = s
             /\ EnteredAs(q, s, u, r).op = q.op /\ EnteredAs(q, s, u, r).what = q.what
             /\ EnteredAs(q, s, u, r).user = u /\ EnteredAs(q, s, u, r).gone = q.gone
  BY DEF Request, EnteredAs
<1> QED BY <1>1, <1>2

LEMMA NewRequestFields ==
  ASSUME TableShape, NEW op \in Ops, NEW what \in Wanted(op)
  PROVE  /\ NewRequest(op, what) \in Request
         /\ NewRequest(op, what).op = op /\ NewRequest(op, what).what = what
         /\ NewRequest(op, what).step = (IF op \in Open THEN "do" ELSE "auth")
         /\ NewRequest(op, what).user = None /\ NewRequest(op, what).gone = Gone
<1>1. what \in Id \cup Account \cup {None}
  <2>1. Talked \in Id
    <3>1. MaxUsers \in Nat /\ MaxApps \in Nat /\ MaxApps # 0
      BY AccountConstants, SiteConstants DEF AccountConstants, SiteConstants
    <3> QED BY <3>1 DEF Id, Talked
  <2>2. UserId \subseteq Id /\ AppId \subseteq Id
    BY IdsFit
  <2>3. Wanted(op) \in {Account, UserId, {Talked}, AppId, {None}}
    BY DEF Wanted
  <2> QED BY <2>1, <2>2, <2>3
<1>2. Gone \in SUBSET Row /\ "user" \in Role /\ "do" \in Step /\ "auth" \in Step
  BY IdsFit DEF Role, Step
<1> QED BY <1>1, <1>2 DEF NewRequest, Request

LEMMA AnswerFields ==
  ASSUME NEW op \in Ops, NEW ok \in BOOLEAN, NEW late \in SUBSET {"user", "app"}
  PROVE  /\ [op |-> op, ok |-> ok, late |-> late] \in AnswerOf
         /\ [op |-> op, ok |-> ok, late |-> late].op = op
         /\ [op |-> op, ok |-> ok, late |-> late].late = late
BY DEF AnswerOf

\* The next request of the client who takes the step fits, and so does its answer.
LEMMA StepFits ==
  ASSUME HiddenInv, NEW c \in Client, RequestStep(c), TablesStep
  PROVE  /\ \E q \in Request \cup {None} : req' = [req EXCEPT ![c] = q]
         /\ req'[c] # None => RequestFits(c)'
         /\ \/ answer' = answer
            \/ \E a \in AnswerOf : answer' = [answer EXCEPT ![c] = a] /\ Hides(a)
<1>1. /\ TableShape /\ Gone \subseteq Gone'
      /\ req \in [Client -> Request \cup {None}] /\ sessions \in [Client -> Session \cup {None}]
  BY GoneGrows DEF HiddenInv, TableShape, AccountTypes, TablesStep
<1>2. req[c] # None => RequestFits(c) /\ req[c] \in Request
  BY RequestOf
<1>3. CASE Advances(c)
  <2>1. PICK s \in Step :
          /\ req[c] # None /\ req' = [req EXCEPT ![c] = AtStep(req[c], s)] /\ answer' = answer
          /\ req[c].op \in UserOps => s = "do"
          /\ req[c].step # "auth" /\ s # "auth"
          /\ req[c].op \in AppOps /\ s \notin {"limit", "do"} =>
               req[c].step \notin {"auth", "limit", "do"} \/ Exists(req[c].what)
    <3>1. \A s : [req EXCEPT ![c].step = s] = [req EXCEPT ![c] = AtStep(req[c], s)]
      BY <1>1 DEF AtStep
    <3> QED BY <1>3, <3>1 DEF Advances
  <2>2. /\ AtStep(req[c], s) \in Request /\ AtStep(req[c], s).step = s
        /\ AtStep(req[c], s).op = req[c].op /\ AtStep(req[c], s).what = req[c].what
        /\ AtStep(req[c], s).user = req[c].user /\ AtStep(req[c], s).gone = req[c].gone
    BY <2>1, <1>2, RequestFields
  <2>3. req'[c] = AtStep(req[c], s)
    BY <2>1, <1>1
  <2>4. req[c].op \in AppOps /\ s \notin {"auth", "limit", "do"} =>
          <<"app", req[c].what>> \notin req[c].gone
    BY <2>1, <1>2, LiveIsThere DEF RequestFits
  <2>5. RequestFits(c)'
    BY <1>1, <1>2, <2>1, <2>2, <2>3, <2>4 DEF RequestFits
  <2> QED BY <2>1, <2>2, <2>5
<1>4. CASE Ends(c)
  <2>1. PICK ok \in BOOLEAN : \E rows :
          req[c] # None /\ Answer(c, ok, rows) /\ (ok => Fits(c, rows))
    BY <1>4 DEF Ends
  <2>2. PICK rows : req[c] # None /\ Answer(c, ok, rows) /\ (ok => Fits(c, rows))
    BY <2>1
  <2>3. req' = [req EXCEPT ![c] = None] /\ req'[c] = None
    BY <2>2, <1>1 DEF Answer
  <2> DEFINE late == IF ok THEN {row[1] : row \in rows \cap req[c].gone} ELSE {}
             a == [op |-> req[c].op, ok |-> ok, late |-> late]
  <2>4. /\ late \subseteq {"user", "app"} /\ "app" \notin late
        /\ "user" \in late => req[c].op \in ShowsAnyUser
    BY <2>2 DEF Fits
  <2>5. a \in AnswerOf /\ Hides(a)
    <3>1. req[c].op \in Ops
      BY <2>2, RequestOf
    <3> HIDE DEF late
    <3>2. a \in AnswerOf /\ a.late = late /\ a.op = req[c].op
      BY <3>1, <2>4, AnswerFields
    <3> HIDE DEF a
    <3> QED BY <3>2, <2>4 DEF Hides
  <2>6. answer' = [answer EXCEPT ![c] = a]
    BY <2>2 DEF Answer
  <2> HIDE DEF a
  <2> QED BY <2>3, <2>5, <2>6
<1>5. CASE Enters(c)
  <2> DEFINE s == IF req[c].op \in Limited THEN "limit" ELSE "do"
             u == sessions[c].user
             r == sessions[c].role
  <2>1. req[c] # None /\ IsLive(u) /\ sessions[c] # None /\ answer' = answer
    BY <1>5 DEF Enters, At, KnownUser
  <2>2. u \in 1 .. MaxUsers /\ <<"user", u>> \notin Gone
    BY <2>1, <1>1, IdsFit, LiveIsThere DEF IsLive
  <2>3. r \in Role
    BY <2>1, <1>1 DEF Session
  <2>4. s \in Step /\ s \in {"limit", "do"} /\ (req[c].op \in UserOps => s = "do")
    BY DEF Step, Limited, UserOps
  <2>5. req' = [req EXCEPT ![c] = EnteredAs(req[c], s, u, r)]
    BY <1>5, <1>1 DEF Enters, EnteredAs
  <2> HIDE DEF s, u, r
  <2>6. /\ EnteredAs(req[c], s, u, r) \in Request /\ EnteredAs(req[c], s, u, r).step = s
        /\ EnteredAs(req[c], s, u, r).op = req[c].op /\ EnteredAs(req[c], s, u, r).what = req[c].what
        /\ EnteredAs(req[c], s, u, r).user = u /\ EnteredAs(req[c], s, u, r).gone = req[c].gone
    BY <2>1, <2>2, <2>3, <2>4, <1>2, RequestFields
  <2>7. req'[c] = EnteredAs(req[c], s, u, r)
    BY <2>5, <1>1
  <2>8. RequestFits(c)'
    BY <1>1, <1>2, <2>1, <2>2, <2>4, <2>6, <2>7 DEF RequestFits
  <2> QED BY <2>1, <2>5, <2>6, <2>8
<1>6. CASE Begins(c)
  <2>1. PICK op \in Ops : \E what \in Wanted(op) : Ask(c, op, what, Gone)
    BY <1>6 DEF Begins
  <2>2. PICK what \in Wanted(op) : Ask(c, op, what, Gone)
    BY <2>1
  <2>3. req' = [req EXCEPT ![c] = NewRequest(op, what)] /\ answer' = answer
    BY <2>2 DEF Ask, NewRequest
  <2>4. /\ NewRequest(op, what) \in Request
        /\ NewRequest(op, what).op = op /\ NewRequest(op, what).what = what
        /\ NewRequest(op, what).step = (IF op \in Open THEN "do" ELSE "auth")
        /\ NewRequest(op, what).user = None /\ NewRequest(op, what).gone = Gone
    BY <1>1, NewRequestFields
  <2>5. <<"user", None>> \notin Gone
    <3>1. None \notin UserId
      BY AccountConstants, IdsFit, <1>1 DEF AccountConstants
    <3> QED BY <3>1 DEF Gone
  <2>6. op \in {"register", "login", "addUser"} => what \in Account
    BY DEF Wanted, UserOps, AppOps
  <2>7. req'[c] = NewRequest(op, what)
    BY <2>3, <1>1
  <2>8. RequestFits(c)'
    BY <1>1, <2>4, <2>5, <2>6, <2>7 DEF RequestFits
  <2> QED BY <2>3, <2>4, <2>8
<1> QED BY <1>3, <1>4, <1>5, <1>6 DEF RequestStep

LEMMA HiddenKept ==
  ASSUME HiddenInv, case' = case, TablesStep,
         \/ UNCHANGED <<req, answer>>
         \/ \E c \in Client : RequestStep(c)
  PROVE  HiddenInv'
<1>1. /\ Gone \subseteq Gone' /\ req \in [Client -> Request \cup {None}]
      /\ answer \in [Client -> AnswerOf \cup {None}]
      /\ DeletedIsHidden
  <2>1. Gone \subseteq Gone'
    BY GoneGrows DEF TablesStep
  <2> QED BY <2>1 DEF HiddenInv, TableShape, AccountTypes
<1>2. ASSUME NEW d \in Client, req'[d] = req[d], req[d] # None
      PROVE  RequestFits(d)'
  <2>1. RequestFits(d)
    BY <1>2, RequestOf
  <2> QED BY <2>1, <1>1, <1>2 DEF RequestFits
<1>3. CASE UNCHANGED <<req, answer>>
  <2>1. TableShape'
    BY <1>1, <1>3 DEF TablesStep, HiddenInv, TableShape, AccountTypes
  <2> QED BY <2>1, <1>1, <1>2, <1>3 DEF HiddenInv, DeletedIsHidden
<1>4. ASSUME NEW c \in Client, RequestStep(c)
      PROVE  HiddenInv'
  <2>1. PICK q \in Request \cup {None} : req' = [req EXCEPT ![c] = q]
    BY <1>4, StepFits
  <2>2. req'[c] # None => RequestFits(c)'
    BY <1>4, StepFits
  <2>3. \/ answer' = answer
        \/ \E a \in AnswerOf : answer' = [answer EXCEPT ![c] = a] /\ Hides(a)
    BY <1>4, StepFits
  <2>4. req' \in [Client -> Request \cup {None}] /\ \A d \in Client \ {c} : req'[d] = req[d]
    BY <2>1, <1>1
  <2>5. /\ answer' \in [Client -> AnswerOf \cup {None}]
        /\ \A d \in Client : answer'[d] = answer[d] \/ Hides(answer'[d])
    BY <2>3, <1>1
  <2>6. DeletedIsHidden'
    BY <2>5, <1>1 DEF DeletedIsHidden, Hides
  <2>7. TableShape'
    BY <2>4, <2>5 DEF TablesStep, HiddenInv, TableShape, AccountTypes
  <2>8. \A d \in Client : req'[d] # None => RequestFits(d)'
    BY <2>2, <2>4, <1>2
  <2> QED BY <2>6, <2>7, <2>8 DEF HiddenInv
<1> QED BY <1>3, <1>4

LEMMA HiddenStep ==
  ASSUME HiddenInv, [Next]_vars
  PROVE  HiddenInv'
<1>1. ASSUME UNCHANGED <<accountVars, apps, case>>
      PROVE  HiddenInv'
  <2>1. TablesStep
    BY <1>1 DEF accountVars, TablesStep, Grow, HiddenInv, TableShape, AccountTypes
  <2> QED BY <1>1, <2>1, HiddenKept DEF accountVars
<1>2. CASE UNCHANGED vars
  BY <1>1, <1>2 DEF vars, appVars, siteVars
<1>3. ASSUME NEW c \in Client, Sends(c)
      PROVE  HiddenInv'
  <2>1. case' = case /\ UNCHANGED apps
    BY <1>3 DEF Sends
  <2>2. PICK op \in case.ops[c] : \E what \in Wanted(op) : Ask(c, op, what, Gone)
    BY <1>3 DEF Sends
  <2>3. op \in Ops
    <3>1. case \in Case
      BY SiteConstants DEF SiteConstants, HiddenInv, TableShape
    <3>2. case.ops \in [Client -> SUBSET Ops]
      BY <3>1 DEF Case
    <3> QED BY <3>2
  <2>4. Begins(c) /\ UNCHANGED Stored
    BY <2>2, <2>3 DEF Begins, Ask
  <2> QED BY <2>1, <2>4, TablesKept, HiddenKept DEF RequestStep
<1>4. ASSUME NEW c \in Client, Limit(c) \/ Handle(c)
      PROVE  HiddenInv'
  <2>1. case' = case
    BY <1>4 DEF Limit, Handle, siteVars
  <2>2. TablesStep /\ RequestStep(c)
    <3>1. CASE AccountStep(c) /\ UNCHANGED apps
      BY <3>1, AccountSteps
    <3>2. CASE OwnerStep(c) \/ AdminStep(c) \/ List(c)
      BY <3>2, AppSteps
    <3>3. CASE HistoryStep(c) \/ ChatStep(c) \/ ClearHistory(c, TRUE) \/ FillCache(c, TRUE)
      BY <3>3, TalkSteps
    <3>4. CASE Limit(c)
      BY <3>4, LimitSteps
    <3> QED BY <1>4, <3>1, <3>2, <3>3, <3>4 DEF Handle, appVars
  <2> QED BY <2>1, <2>2, HiddenKept
<1>5. CASE PageWorks \/ TimePasses
  BY <1>1, <1>5 DEF PageWorks, TimePasses, appVars, siteVars
<1>6. CASE Fails
  <2>1. case' = case
    BY <1>6 DEF Fails
  <2>2. CASE UNCHANGED <<accountVars, appVars>>
    BY <1>1, <2>1, <2>2 DEF appVars
  <2>3. ASSUME NEW c \in Client, ClearHistory(c, FALSE) \/ FillCache(c, FALSE)
        PROVE  HiddenInv'
    BY <2>1, <2>3, TalkSteps, HiddenKept
  <2>4. CASE CacheExpires /\ UNCHANGED <<accountVars, pageVars>>
    BY <1>1, <2>1, <2>4 DEF CacheExpires
  <2>5. ASSUME NEW c \in Client, Expire(c), UNCHANGED appVars
        PROVE  HiddenInv'
    <3>1. TablesStep
      <4>1. /\ sessions \in [Client -> Session \cup {None}]
            /\ sessions' = [sessions EXCEPT ![c] = None] /\ UNCHANGED <<users, apps, cookie>>
        BY <2>5 DEF Expire, appVars, HiddenInv, TableShape, AccountTypes
      <4>2. sessions' \in [Client -> Session \cup {None}]
        BY <4>1
      <4> QED BY <4>1, <4>2 DEF TablesStep, Grow, HiddenInv, TableShape, AccountTypes
    <3> QED BY <2>1, <2>5, <3>1, HiddenKept DEF Expire
  <2> QED BY <1>6, <2>2, <2>3, <2>4, <2>5 DEF Fails
<1> QED BY <1>2, <1>3, <1>4, <1>5, <1>6 DEF Next

LEMMA HiddenInit == Init => HiddenInv
<1> SUFFICES ASSUME Init PROVE HiddenInv
  OBVIOUS
<1>1. /\ case \in Cases /\ users = case.users /\ case.users \in Seq(UserRow)
      /\ Len(users) \in 1 .. MaxUsers /\ MaxUsers \in Nat /\ MaxApps \in Nat \ {0}
  <2>1. case \in Cases /\ users = case.users
    BY DEF Init
  <2>2. case.users \in Seq(UserRow)
    BY <2>1, SiteConstants DEF SiteConstants, Case
  <2> QED BY <2>1, <2>2, SiteConstants, AccountConstants DEF SiteConstants, AccountConstants
<1>2. apps \in Seq(AppRow) /\ Len(apps) <= MaxApps
  <2>1. [owner |-> 1, name |-> 1, priority |-> 1, gone |-> FALSE] \in AppRow
    BY <1>1 DEF AppRow
  <2>2. apps = <<[owner |-> 1, name |-> 1, priority |-> 1, gone |-> FALSE]>>
    BY DEF Init
  <2> QED BY <2>1, <2>2, <1>1
<1>3. sessions \in [Client -> Session \cup {None}]
  <2> SUFFICES ASSUME NEW c \in Client, AccountsOf(c) # {}
               PROVE  [user |-> Min(AccountsOf(c)), role |-> users[Min(AccountsOf(c))].role] \in Session
    BY DEF Init
  <2>1. AccountsOf(c) \subseteq UserId /\ UserId \subseteq 1 .. MaxUsers
    BY <1>1 DEF AccountsOf, UserId
  <2>2. \E u \in AccountsOf(c) : \A v \in AccountsOf(c) : u <= v
    <3> DEFINE own == AccountsOf(c)
    <3>1. own \subseteq Nat /\ own # {}
      <4>1. 1 .. MaxUsers \subseteq Nat
        BY <1>1
      <4> QED BY <4>1, <2>1
    <3> HIDE DEF own
    <3>2. \E u \in own : \A v \in own : u <= v
      BY <3>1, Least
    <3> QED BY <3>2 DEF own
  <2>3. Min(AccountsOf(c)) \in AccountsOf(c)
    BY <2>2 DEF Min
  <2>4. Min(AccountsOf(c)) \in 1 .. MaxUsers /\ users[Min(AccountsOf(c))] \in UserRow
    BY <2>1, <2>3, <1>1 DEF UserId
  <2>5. users[Min(AccountsOf(c))].role \in Role
    BY <2>4 DEF UserRow
  <2> QED BY <2>4, <2>5 DEF Session
<1>4. cookie \in [Client -> BOOLEAN]
  BY DEF Init
<1>5. /\ req = [c \in Client |-> None] /\ answer = [c \in Client |-> None]
  BY DEF Init
<1>6. TableShape
  BY <1>1, <1>2, <1>3, <1>4, <1>5 DEF TableShape, AccountTypes
<1> QED BY <1>5, <1>6 DEF HiddenInv, DeletedIsHidden

\* But for the user a login answers with and the owners in lists of applications,
\* no answer shows or changes a row that was deleted before its request was sent,
\* or serves a user deleted before, for any number of clients, users and
\* applications, and whatever sessions, caches and cached pages still hold.
THEOREM DeletedStaysHidden == Spec => []DeletedIsHidden
<1>1. HiddenInv /\ [Next]_vars => HiddenInv'
  BY HiddenStep
<1>2. HiddenInv => DeletedIsHidden
  BY DEF HiddenInv
<1> QED BY <1>1, <1>2, HiddenInit, PTL DEF Spec

-----------------------------------------------------------------------------
(* The walk through a conversation                                         *)

\* What is read of a conversation are its messages from one to another.
IsPage(S) == \E b \in 0 .. Len(second) : \E a \in 1 .. b + 1 : S = a .. b

\* The messages read go as far as n, if there are any.
Reaches(S, n) == S = {} \/ \E j \in S : n <= j

SecondsFit ==
  /\ second \in Seq(Nat) /\ Len(second) <= MaxMessages /\ stale \in BOOLEAN
  /\ \A i, j \in DOMAIN second : i < j => second[i] <= second[j]

\* The cached page is behind by one message at most, unless it was ever Behind.
CacheFits ==
  cache # None => IsPage(cache) /\ (~stale => Reaches(cache, Len(second) - 1))

\* Each message of a walk is the one before the last, or at least an older one.
Descends(s, gaps) ==
  \A i \in 2 .. Len(s) : s[i] < s[i - 1] /\ (~gaps => s[i] = s[i - 1] - 1)

\* A walk has come from some message down to that of its cursor.
WalkFits(c) ==
  /\ walk[c].after \in Message \cup {None}
  /\ \A i \in DOMAIN walk[c].shown : walk[c].shown[i] \in Message
  /\ walk[c].after # None =>
       walk[c].shown # <<>> /\ walk[c].shown[Len(walk[c].shown)] = walk[c].after
  /\ walk[c].size # 0 /\ walk[c].after = None => walk[c].shown = <<>>
  /\ Descends(walk[c].shown, stale)

\* A request for a page reads on where its walk has stopped.
WalkStep == {"cache", "rows", "fill", "page"}
ReadFits(c) ==
  /\ req[c].op = "history" => walk[c].size # 0
  /\ req[c].step \in WalkStep => req[c].op = "history"
  /\ req[c].step \in {"fill", "page"} =>
       /\ IsPage(got[c])
       /\ ~stale /\ walk[c].after # None => Reaches(got[c], walk[c].after - 1)

Walk == [size : 0 .. MaxSize, after : Nat \cup {None}, shown : Seq(Nat)]

WalkInv ==
  /\ SecondsFit /\ CacheFits
  /\ walk \in [Client -> Walk] /\ got \in [Client -> (SUBSET Nat) \cup {None}]
  /\ \A c \in Client : /\ WalkFits(c)
                       /\ got[c] # None => IsPage(got[c])
                       /\ req[c] # None => ReadFits(c)

\* The newest of some messages that follow one another.
LEMMA NewestOf ==
  ASSUME NEW a \in Nat, NEW b \in Nat, NEW n \in Nat \ {0}
  PROVE  \E d \in Nat : /\ a <= d /\ (a <= b => d <= b) /\ Newest(a .. b, n) = d .. b
                        /\ Newest(a .. b, n) = a .. b \/ a < d
<1>1. ASSUME NEW i \in a .. b
      PROVE  Cardinality({j \in a .. b : j > i}) = b - i
  <2>1. {j \in a .. b : j > i} = (i + 1) .. b
    OBVIOUS
  <2>2. i + 1 \in Int /\ b \in Int
    OBVIOUS
  <2>3. Cardinality((i + 1) .. b) = IF i + 1 > b THEN 0 ELSE b - (i + 1) + 1
    BY <2>2, FS_Interval
  <2> QED BY <2>1, <2>3
<1>2. Newest(a .. b, n) = {i \in a .. b : b - i < n}
  BY <1>1 DEF Newest
<1> DEFINE newest == Newest(a .. b, n)
<1>3. n \in Nat /\ n # 0
  OBVIOUS
<1>4. CASE b - a < n
  <2>1. \A i \in a .. b : b - i < n
    BY <1>3, <1>4
  <2>2. newest = a .. b
    BY <1>2, <2>1
  <2> HIDE DEF newest
  <2>3. /\ a \in Nat /\ a <= a /\ (a <= b => a <= b)
        /\ newest = a .. b /\ (newest = a .. b \/ a < a)
    BY <2>2
  <2>4. \E d \in Nat : /\ a <= d /\ (a <= b => d <= b) /\ newest = d .. b
                       /\ newest = a .. b \/ a < d
    BY <2>3
  <2> QED BY <2>4 DEF newest
<1>5. CASE ~(b - a < n)
  <2> DEFINE e == b - n + 1
  <2>1. e \in Nat /\ a < e /\ e <= b
    BY <1>3, <1>5
  <2>2. \A i \in Int : (a <= i /\ i <= b /\ b - i < n) <=> (e <= i /\ i <= b)
    BY <1>3, <1>5
  <2> HIDE DEF e
  <2>3. ASSUME NEW i PROVE i \in newest <=> i \in e .. b
    <3>1. i \in newest <=> i \in a .. b /\ b - i < n
      BY <1>2
    <3>2. i \in a .. b <=> i \in Int /\ a <= i /\ i <= b
      OBVIOUS
    <3>3. i \in e .. b <=> i \in Int /\ e <= i /\ i <= b
      BY <2>1
    <3> QED BY <2>2, <3>1, <3>2, <3>3
  <2>4. newest = e .. b
    <3> HIDE DEF newest
    <3>1. newest \subseteq e .. b /\ e .. b \subseteq newest
      BY <2>3
    <3> QED BY <3>1
  <2> HIDE DEF newest
  <2>5. \E d \in Nat : /\ a <= d /\ (a <= b => d <= b) /\ newest = d .. b
                       /\ newest = a .. b \/ a < d
    BY <2>1, <2>4
  <2> QED BY <2>5 DEF newest
<1> QED BY <1>4, <1>5

\* Messages that follow one another, the newest first.
Down(b, a) == [i \in 1 .. (b - a + 1) |-> b - i + 1]

LEMMA NewestFirstOf ==
  ASSUME NEW a \in Nat, NEW b \in Nat, a <= b + 1
  PROVE  NewestFirst(a .. b) = Down(b, a)
<1>1. a \in Int /\ b \in Int
  OBVIOUS
<1>2. Cardinality(a .. b) = b - a + 1
  <2>1. Cardinality(a .. b) = IF a > b THEN 0 ELSE b - a + 1
    BY <1>1, FS_Interval
  <2> QED BY <2>1
<1>3. ASSUME NEW m \in a .. b
      PROVE  Cardinality({j \in a .. b : j > m}) = b - m
  <2>1. {j \in a .. b : j > m} = (m + 1) .. b
    OBVIOUS
  <2>2. m + 1 \in Int
    OBVIOUS
  <2>3. Cardinality((m + 1) .. b) = IF m + 1 > b THEN 0 ELSE b - (m + 1) + 1
    BY <1>1, <2>2, FS_Interval
  <2>4. (IF m + 1 > b THEN 0 ELSE b - (m + 1) + 1) = b - m
    OBVIOUS
  <2> QED BY <2>1, <2>3, <2>4
<1>4. ASSUME NEW i \in 1 .. (b - a + 1)
      PROVE  (CHOOSE m \in a .. b : Cardinality({j \in a .. b : j > m}) = i - 1) = b - i + 1
  <2> DEFINE P(m) == Cardinality({j \in a .. b : j > m}) = i - 1
  <2>1. b - i + 1 \in a .. b
    BY <1>4
  <2>2. P(b - i + 1)
    BY <1>3, <2>1, <1>4
  <2>3. \A m \in a .. b : P(m) => m = b - i + 1
    BY <1>3, <1>4
  <2> HIDE DEF P
  <2>4. (CHOOSE m \in a .. b : P(m)) = b - i + 1
    BY <2>1, <2>2, <2>3
  <2> QED BY <2>4 DEF P
<1> QED BY <1>2, <1>4 DEF NewestFirst, Down

\* What is after the cursor are the messages with a smaller number.
LEMMA AfterOf ==
  ASSUME SecondsFit, NEW S, S \subseteq Message, NEW cursor \in Message
  PROVE  After(S, cursor) = {i \in S : i < cursor}
<1>1. \A i \in Message : i \in Nat /\ second[i] \in Nat
  BY DEF SecondsFit, Message
<1>2. \A i \in Message : Older(i, cursor) <=> i < cursor
  <2> SUFFICES ASSUME NEW i \in Message PROVE Older(i, cursor) <=> i < cursor
    OBVIOUS
  <2>1. i < cursor => second[i] <= second[cursor]
    BY DEF SecondsFit, Message
  <2>2. cursor < i => second[cursor] <= second[i]
    BY DEF SecondsFit, Message
  <2>3. i < cursor \/ cursor < i \/ i = cursor
    BY <1>1
  <2> QED BY <1>1, <2>1, <2>2, <2>3 DEF Older
<1>3. cursor # None
  BY <1>1, AccountConstants DEF AccountConstants
<1> QED BY <1>2, <1>3 DEF After

LEMMA LeastOf ==
  ASSUME NEW a \in Nat, NEW b \in Nat, a <= b
  PROVE  Min(a .. b) = a
<1>1. a \in a .. b /\ \A y \in a .. b : a <= y
  OBVIOUS
<1>2. \A x \in a .. b : (\A y \in a .. b : x <= y) => x = a
  OBVIOUS
<1> QED BY <1>1, <1>2 DEF Min

LEMMA LengthOf ==
  ASSUME NEW s \in Seq(Nat)
  PROVE  Len(s) \in Nat /\ DOMAIN s = 1 .. Len(s) /\ (Len(s) # 0 <=> s # <<>>)
OBVIOUS

LEMMA JoinOf ==
  ASSUME NEW s \in Seq(Nat), NEW r \in Seq(Nat)
  PROVE  /\ s \o r \in Seq(Nat) /\ Len(s \o r) = Len(s) + Len(r)
         /\ \A i \in 1 .. Len(s) : (s \o r)[i] = s[i]
         /\ \A i \in (Len(s) + 1) .. (Len(s) + Len(r)) : (s \o r)[i] = r[i - Len(s)]
OBVIOUS

LEMMA DownOf ==
  ASSUME NEW a \in Nat, NEW b \in Nat, a <= b + 1
  PROVE  /\ Down(b, a) \in Seq(Nat) /\ Len(Down(b, a)) = b - a + 1
         /\ \A i \in 1 .. (b - a + 1) : Down(b, a)[i] = b - i + 1
<1>1. b - a + 1 \in Nat
  OBVIOUS
<1>2. \A i \in 1 .. (b - a + 1) : b - i + 1 \in Nat
  OBVIOUS
<1> QED BY <1>1, <1>2 DEF Down

LEMMA NotBehind ==
  ASSUME NEW n \in Nat, NEW b \in 0 .. n, NEW a \in 1 .. (b + 1), NEW S, S = a .. b,
         S # None, ~Behind(S, 1 .. n)
  PROVE  Reaches(S, n - 1)
<1>1. CASE b < a
  BY <1>1 DEF Reaches
<1>2. CASE a <= b
  <2>1. {i \in 1 .. n : \A j \in S : j < i} = (b + 1) .. n
    <3>1. ASSUME NEW i \in 1 .. n PROVE (\A j \in S : j < i) <=> b + 1 <= i
      BY <1>2
    <3> QED BY <3>1
  <2>2. b + 1 \in Int /\ n \in Int
    OBVIOUS
  <2>3. Cardinality((b + 1) .. n) = IF b + 1 > n THEN 0 ELSE n - (b + 1) + 1
    BY <2>2, FS_Interval
  <2>4. ~((IF b + 1 > n THEN 0 ELSE n - (b + 1) + 1) > 1)
    BY <2>1, <2>3 DEF Behind
  <2>5. n - 1 <= b /\ b \in S
    BY <2>4, <1>2
  <2> QED BY <2>5 DEF Reaches
<1> QED BY <1>1, <1>2

-----------------------------------------------------------------------------
\* A page is shown: the walk goes on with its messages.
WalkedTo(w, size, after, shown) == [w EXCEPT !.size = size, !.after = after, !.shown = shown]

LEMMA MessagesOf ==
  ASSUME SecondsFit
  PROVE  Message = 1 .. Len(second) /\ Len(second) \in Nat /\ Message \subseteq Nat
BY DEF SecondsFit, Message

\* What is left of what was read: messages that follow one another, and down from
\* the cursor unless the cache was behind.
LEMMA LeftOf ==
  ASSUME SecondsFit, NEW S, IsPage(S), NEW cursor \in Message \cup {None},
         ~stale /\ cursor # None => Reaches(S, cursor - 1)
  PROVE  \E e \in 1 .. (Len(second) + 1), t \in 0 .. Len(second) :
           /\ e <= t + 1 /\ After(S, cursor) = e .. t
           /\ cursor # None => t < cursor /\ (~stale /\ e <= t => t = cursor - 1)
<1>1. PICK b \in 0 .. Len(second) : \E a \in 1 .. b + 1 : S = a .. b
  BY DEF IsPage
<1>2. PICK a \in 1 .. b + 1 : S = a .. b
  BY <1>1
<1>3. Message = 1 .. Len(second) /\ Len(second) \in Nat
  BY MessagesOf
<1>4. a \in 1 .. (Len(second) + 1) /\ a <= b + 1 /\ a \in Nat /\ b \in Nat
  BY <1>3
<1>5. CASE cursor = None
  BY <1>2, <1>4, <1>5 DEF After
<1>6. CASE cursor # None
  <2>1. cursor \in Message /\ cursor \in Nat /\ S \subseteq Message
    BY <1>2, <1>3, <1>4, <1>6
  <2>2. After(S, cursor) = {i \in a .. b : i < cursor}
    BY <2>1, <1>2, AfterOf
  <2>3. CASE cursor <= a
    <3>1. After(S, cursor) = 1 .. 0
      BY <2>1, <2>2, <2>3, <1>4
    <3>2. 1 \in 1 .. (Len(second) + 1) /\ 0 \in 0 .. Len(second) /\ 0 < cursor
      BY <1>3, <2>1
    <3> QED BY <3>1, <3>2
  <2>4. CASE a < cursor /\ b < cursor
    <3>1. After(S, cursor) = a .. b
      BY <2>1, <2>2, <2>4, <1>4
    <3>2. ~stale /\ a <= b => b = cursor - 1
      <4> SUFFICES ASSUME ~stale, a <= b PROVE b = cursor - 1
        OBVIOUS
      <4>1. Reaches(S, cursor - 1) /\ S # {}
        BY <1>2, <1>4, <1>6
      <4>2. \E j \in a .. b : cursor - 1 <= j
        BY <4>1, <1>2 DEF Reaches
      <4> QED BY <4>2, <2>1, <2>4, <1>4
    <3> QED BY <3>1, <3>2, <1>4, <2>4
  <2>5. CASE a < cursor /\ ~(b < cursor)
    <3>1. cursor - 1 \in Nat /\ cursor - 1 \in 0 .. Len(second) /\ a <= (cursor - 1) + 1
          /\ cursor - 1 < cursor
      BY <2>1, <2>5, <1>3, <1>4
    <3>2. After(S, cursor) = a .. (cursor - 1)
      <4>1. \A i \in Int : (a <= i /\ i <= b /\ i < cursor) <=> (a <= i /\ i <= cursor - 1)
        BY <2>1, <2>5, <1>4
      <4>2. \A i : i \in After(S, cursor) <=> i \in Int /\ a <= i /\ i <= b /\ i < cursor
        BY <2>2, <1>4
      <4>3. \A i : i \in a .. (cursor - 1) <=> i \in Int /\ a <= i /\ i <= cursor - 1
        BY <1>4, <3>1
      <4>4. \A i : i \in After(S, cursor) <=> i \in a .. (cursor - 1)
        BY <4>1, <4>2, <4>3
      <4>5. After(S, cursor) \subseteq a .. (cursor - 1) /\ a .. (cursor - 1) \subseteq After(S, cursor)
        BY <4>4
      <4> QED BY <4>5
    <3> QED BY <3>1, <3>2, <1>4
  <2> QED BY <2>1, <2>3, <2>4, <2>5, <1>4
<1> QED BY <1>5, <1>6

\* A walk goes on with messages that follow one another.
Follows(q, s, d, t, gaps) ==
  /\ q \in Seq(Nat) /\ Descends(q, gaps)
  /\ \A i \in DOMAIN q : q[i] \in d .. t \/ \E j \in DOMAIN s : q[i] = s[j]
  /\ d <= t => q # <<>> /\ q[Len(q)] = d

LEMMA StillDescends ==
  ASSUME NEW s \in Seq(Nat), NEW d \in Nat, NEW t \in Nat, d <= t + 1, NEW gaps \in BOOLEAN,
         Descends(s, gaps),
         s # <<>> /\ d <= t => t < s[Len(s)] /\ (~gaps => t = s[Len(s)] - 1)
  PROVE  Follows(s \o Down(t, d), s, d, t, gaps)
<1> DEFINE r == Down(t, d)
           q == s \o r
           n == Len(s)
           m == Len(q)
<1>0. /\ r \in Seq(Nat) /\ Len(r) = t - d + 1
      /\ \A i \in 1 .. (t - d + 1) : r[i] = t - i + 1
  BY DownOf
<1> HIDE DEF r
<1>1. q \in Seq(Nat) /\ m = n + (t - d + 1) /\ n \in Nat /\ m \in Nat
  <2>1. q \in Seq(Nat) /\ Len(q) = Len(s) + Len(r)
    BY <1>0, JoinOf
  <2> HIDE DEF q
  <2>2. Len(s) \in Nat /\ Len(q) \in Nat
    BY <2>1, LengthOf
  <2> QED BY <2>1, <2>2, <1>0
<1>2. \A i \in 1 .. n : q[i] = s[i]
  BY <1>0, JoinOf
<1>3. \A i \in (n + 1) .. m : q[i] = t - (i - n) + 1
  <2>1. \A i \in (n + 1) .. (n + Len(r)) : q[i] = r[i - n]
    BY <1>0, JoinOf
  <2> HIDE DEF q, n, m
  <2>2. \A i \in (n + 1) .. m : i \in (n + 1) .. (n + Len(r)) /\ i - n \in 1 .. (t - d + 1)
    BY <1>0, <1>1
  <2> QED BY <2>1, <2>2, <1>0
<1>4. DOMAIN q = 1 .. m /\ DOMAIN s = 1 .. n /\ (n # 0 => s # <<>>) /\ (m # 0 => q # <<>>)
  <2> HIDE DEF q
  <2> QED BY <1>1, LengthOf
<1>5. \A i \in 2 .. n : s[i] < s[i - 1] /\ (~gaps => s[i] = s[i - 1] - 1)
  BY DEF Descends
<1>6. n # 0 /\ d <= t => t < s[n] /\ (~gaps => t = s[n] - 1)
  BY <1>4
<1> HIDE DEF q, n, m
<1>9. ASSUME NEW i \in 1 .. m
      PROVE  q[i] \in d .. t \/ \E j \in DOMAIN s : q[i] = s[j]
  <2>1. CASE i \in 1 .. n
    BY <2>1, <1>2, <1>4
  <2>2. CASE i \in (n + 1) .. m
    <3>1. q[i] = t - (i - n) + 1
      BY <2>2, <1>3
    <3>2. t - (i - n) + 1 \in d .. t
      BY <2>2, <1>1
    <3> QED BY <3>1, <3>2
  <2>3. i \in 1 .. n \/ i \in (n + 1) .. m
    BY <1>1
  <2> QED BY <2>1, <2>2, <2>3
<1>10. d <= t => m # 0 /\ q[m] = d
  <2> SUFFICES ASSUME d <= t PROVE m # 0 /\ q[m] = d
    OBVIOUS
  <2>1. m \in (n + 1) .. m /\ m # 0 /\ t - (m - n) + 1 = d
    BY <1>1
  <2>2. q[m] = t - (m - n) + 1
    BY <2>1, <1>3
  <2> QED BY <2>1, <2>2
<1>11. ASSUME NEW i \in 2 .. m
       PROVE  q[i] < q[i - 1] /\ (~gaps => q[i] = q[i - 1] - 1)
  <2>1. i \in Nat /\ 2 <= i /\ i <= m
    BY <1>1
  <2>2. CASE i <= n
    <3>1. i \in 2 .. n /\ i \in 1 .. n /\ i - 1 \in 1 .. n
      BY <2>1, <2>2, <1>1
    <3>2. q[i] = s[i] /\ q[i - 1] = s[i - 1]
      BY <3>1, <1>2
    <3> QED BY <3>1, <3>2, <1>5
  <2>3. CASE i = n + 1
    <3>1. i \in (n + 1) .. m /\ i - 1 = n /\ n \in 1 .. n /\ d <= t /\ n # 0
      BY <2>1, <2>3, <1>1
    <3>2. q[i] = t - (i - n) + 1 /\ q[n] = s[n]
      BY <3>1, <1>2, <1>3
    <3>3. t - (i - n) + 1 = t
      BY <2>3, <1>1
    <3> QED BY <3>1, <3>2, <3>3, <1>6
  <2>4. CASE n + 1 < i
    <3>1. i \in (n + 1) .. m /\ i - 1 \in (n + 1) .. m
      BY <2>1, <2>4, <1>1
    <3>2. q[i] = t - (i - n) + 1 /\ q[i - 1] = t - (i - 1 - n) + 1
      BY <3>1, <1>3
    <3>3. t - (i - n) + 1 < t - (i - 1 - n) + 1 /\ t - (i - n) + 1 = (t - (i - 1 - n) + 1) - 1
      BY <2>1, <1>1
    <3> QED BY <3>2, <3>3
  <2>5. i <= n \/ i = n + 1 \/ n + 1 < i
    BY <2>1, <1>1
  <2> QED BY <2>2, <2>3, <2>4, <2>5
<1>12. Descends(q, gaps)
  BY <1>11 DEF Descends, m
<1>13. d <= t => q # <<>> /\ q[Len(q)] = d
  BY <1>4, <1>10 DEF m
<1>14. Follows(q, s, d, t, gaps)
  BY <1>1, <1>4, <1>9, <1>12, <1>13 DEF Follows
<1> QED BY <1>14 DEF q, r

LEMMA ShowSteps ==
  ASSUME WalkInv, NEW c \in Client, ShowPage(c)
  PROVE  WalkFits(c)' /\ \E w \in Walk : walk' = [walk EXCEPT ![c] = w]
<1> DEFINE size == walk[c].size
           after == walk[c].after
           shown == walk[c].shown
           left == After(got[c], after)
           portion == Newest(left, size)
           more == left # portion
           first == NewestFirst(portion)
           next == Min(portion)
           q == shown \o first
<1>1. /\ req[c] # None /\ req[c].step = "page" /\ UNCHANGED <<second, stale>>
      /\ walk' = [walk EXCEPT ![c] = WalkedTo(walk[c], IF more THEN size ELSE 0,
                                              IF more THEN next ELSE None, q)]
  <2> DEFINE x == IF more THEN size ELSE 0
             y == IF more THEN next ELSE None
  <2>1. walk \in [Client -> Walk]
    BY DEF WalkInv
  <2>2. walk' = [walk EXCEPT ![c].size = x, ![c].after = y, ![c].shown = q]
    BY <2>1 DEF ShowPage, Walk
  <2> HIDE DEF x, y, q
  <2>3. walk' = [walk EXCEPT ![c] = WalkedTo(walk[c], x, y, q)]
    BY <2>1, <2>2 DEF WalkedTo
  <2>4. req[c] # None /\ req[c].step = "page" /\ UNCHANGED <<second, stale>>
    BY DEF ShowPage, At
  <2> QED BY <2>3, <2>4 DEF x, y
<1>2. /\ SecondsFit /\ IsPage(got[c]) /\ walk \in [Client -> Walk] /\ walk[c] \in Walk
      /\ WalkFits(c) /\ size # 0 /\ (~stale /\ after # None => Reaches(got[c], after - 1))
  BY <1>1 DEF WalkInv, ReadFits, WalkStep
<1>3. /\ size \in 0 .. MaxSize /\ size \in Nat \ {0} /\ after \in Nat \cup {None}
      /\ shown \in Seq(Nat) /\ after \in Message \cup {None} /\ Len(shown) \in Nat
  BY <1>2, AppConstants DEF Walk, WalkFits, AppConstants
<1>4. Message = 1 .. Len(second) /\ Len(second) \in Nat /\ Message' = Message
  BY <1>1, <1>2, MessagesOf DEF Message
<1>5. PICK e \in 1 .. (Len(second) + 1), t \in 0 .. Len(second) :
        /\ e <= t + 1 /\ left = e .. t
        /\ after # None => t < after /\ (~stale /\ e <= t => t = after - 1)
  BY <1>2, <1>3, LeftOf
<1>6. e \in Nat /\ t \in Nat
  BY <1>4
<1>7. PICK d \in Nat : e <= d /\ d <= t + 1 /\ portion = d .. t /\ (more => d <= t)
  <2>1. PICK x \in Nat : /\ e <= x /\ (e <= t => x <= t) /\ Newest(e .. t, size) = x .. t
                         /\ Newest(e .. t, size) = e .. t \/ e < x
    <3> HIDE DEF size
    <3> QED BY <1>3, <1>6, NewestOf
  <2>2. portion = x .. t
    BY <1>5, <2>1
  <2>3. CASE e <= t
    BY <2>1, <2>2, <2>3, <1>6
  <2>4. CASE t < e
    <3>1. e .. t = {} /\ e = t + 1 /\ portion \subseteq e .. t
      BY <2>4, <1>5, <1>6 DEF Newest
    <3>2. portion = e .. t /\ ~more
      BY <3>1, <1>5
    <3> QED BY <3>1, <3>2, <1>6
  <2> QED BY <2>3, <2>4, <1>6
<1>8. more => next = d
  BY <1>6, <1>7, LeastOf
<1>9. first = Down(t, d)
  BY <1>6, <1>7, NewestFirstOf
<1>10. /\ q \in Seq(Nat)
       /\ Descends(q, stale)
       /\ \A i \in DOMAIN q : q[i] \in d .. t \/ \E j \in DOMAIN shown : q[i] = shown[j]
       /\ d <= t => q # <<>> /\ q[Len(q)] = d
  <2>1. q = shown \o Down(t, d) /\ Descends(shown, stale)
    BY <1>2, <1>9 DEF WalkFits
  <2>2. shown # <<>> /\ d <= t => t < shown[Len(shown)] /\ (~stale => t = shown[Len(shown)] - 1)
    <3> SUFFICES ASSUME shown # <<>>, d <= t
                 PROVE  t < shown[Len(shown)] /\ (~stale => t = shown[Len(shown)] - 1)
      OBVIOUS
    <3>1. after # None /\ shown[Len(shown)] = after
      BY <1>2 DEF WalkFits
    <3>2. e <= t
      BY <1>6, <1>7
    <3> QED BY <3>1, <3>2, <1>5
  <2>3. stale \in BOOLEAN
    BY <1>2 DEF SecondsFit
  <2>4. d \in Nat /\ t \in Nat /\ d <= t + 1 /\ shown \in Seq(Nat)
    BY <1>3, <1>6, <1>7
  <2> HIDE DEF q, shown, first, after, portion, left, more
  <2>5. Follows(q, shown, d, t, stale)
    BY <2>1, <2>2, <2>3, <2>4, StillDescends
  <2> QED BY <2>5 DEF Follows
<1> DEFINE s == IF more THEN size ELSE 0
           a == IF more THEN next ELSE None
<1>11. s \in 0 .. MaxSize /\ a \in Nat \cup {None} /\ (s # 0 => more) /\ (a # None => more /\ a = d)
       /\ (s # 0 /\ a = None => FALSE)
  <2>1. None \notin Nat /\ 0 \in 0 .. MaxSize
    BY AccountConstants, AppConstants DEF AccountConstants, AppConstants
  <2> HIDE DEF more, size, next
  <2> QED BY <2>1, <1>3, <1>7, <1>8
<1> DEFINE w == WalkedTo(walk[c], s, a, q)
<1>12. /\ w \in Walk /\ w.size = s /\ w.after = a /\ w.shown = q
       /\ walk' = [walk EXCEPT ![c] = w] /\ walk'[c] = w
  <2>1. walk' = [walk EXCEPT ![c] = w]
    BY <1>1
  <2>2. s \in 0 .. MaxSize /\ a \in Nat \cup {None} /\ q \in Seq(Nat) /\ walk[c] \in Walk
    BY <1>2, <1>10, <1>11
  <2> HIDE DEF s, a, q
  <2>3. w \in Walk /\ w.size = s /\ w.after = a /\ w.shown = q
    BY <2>2 DEF Walk, WalkedTo
  <2> HIDE DEF w
  <2> QED BY <2>1, <2>3, <1>2
<1>13. a \in Message \cup {None}
  BY <1>11, <1>4, <1>6, <1>7, <1>5
<1> HIDE DEF w, s, a, q, more, next, first, portion, left
<1>14. \A i \in DOMAIN q : q[i] \in Message
  <2>1. d .. t \subseteq Message
    BY <1>4, <1>5, <1>6, <1>7
  <2>2. \A j \in DOMAIN shown : shown[j] \in Message
    BY <1>2 DEF WalkFits
  <2> HIDE DEF shown
  <2> QED BY <2>1, <2>2, <1>10
<1>15. a # None => q # <<>> /\ q[Len(q)] = a
  BY <1>7, <1>10, <1>11
<1>17. WalkFits(c)'
  <2>1. stale' = stale /\ Message' = Message /\ walk'[c] = w
    BY <1>1, <1>4, <1>12
  <2> QED BY <2>1, <1>10, <1>11, <1>12, <1>13, <1>14, <1>15 DEF WalkFits
<1> QED BY <1>12, <1>17

-----------------------------------------------------------------------------
\* A step of one client leaves the walks of the others as they are.
LEMMA WalkKept ==
  ASSUME WalkInv, NEW c \in Client, \A d \in Client \ {c} : req'[d] = req[d],
         NEW w \in Walk, walk' = [walk EXCEPT ![c] = w],
         NEW g \in (SUBSET Nat) \cup {None}, got' = [got EXCEPT ![c] = g],
         SecondsFit', CacheFits', Len(second) <= Len(second'), stale => stale',
         WalkFits(c)', got'[c] # None => IsPage(got[c])', req'[c] # None => ReadFits(c)'
  PROVE  WalkInv'
<1>1. /\ walk \in [Client -> Walk] /\ got \in [Client -> (SUBSET Nat) \cup {None}]
      /\ SecondsFit /\ Len(second) \in Nat /\ Len(second') \in Nat
      /\ Message = 1 .. Len(second) /\ Message' = 1 .. Len(second')
  BY DEF WalkInv, SecondsFit, Message
<1>2. walk' \in [Client -> Walk] /\ got' \in [Client -> (SUBSET Nat) \cup {None}]
  BY <1>1
<1>3. Message \subseteq Message'
  BY <1>1
<1>4. ASSUME NEW d \in Client, IsPage(got[d]), got'[d] = got[d] PROVE IsPage(got[d])'
  <2>1. PICK b \in 0 .. Len(second) : \E a \in 1 .. b + 1 : got[d] = a .. b
    BY <1>4 DEF IsPage
  <2>2. b \in 0 .. Len(second')
    BY <1>1
  <2> QED BY <1>4, <2>1, <2>2 DEF IsPage
<1>5. ASSUME NEW d \in Client \ {c}
      PROVE  WalkFits(d)' /\ (got'[d] # None => IsPage(got[d])')
             /\ (req'[d] # None => ReadFits(d)')
  <2>1. walk'[d] = walk[d] /\ got'[d] = got[d] /\ req'[d] = req[d]
    BY <1>1
  <2>2. WalkFits(d) /\ (got[d] # None => IsPage(got[d])) /\ (req[d] # None => ReadFits(d))
    BY DEF WalkInv
  <2>3. Descends(walk[d].shown, stale) => Descends(walk[d].shown, stale')
    BY DEF Descends
  <2>4. WalkFits(d)'
    BY <2>1, <2>2, <2>3, <1>3 DEF WalkFits
  <2>5. got'[d] # None => IsPage(got[d])'
    BY <2>1, <2>2, <1>4
  <2>6. ASSUME req'[d] # None PROVE ReadFits(d)'
    <3>1. ReadFits(d)
      BY <2>1, <2>2, <2>6
    <3>2. req[d].step \in {"fill", "page"} => IsPage(got[d])'
      BY <2>1, <3>1, <1>4 DEF ReadFits
    <3>3. Reaches(got'[d], walk'[d].after - 1) <=> Reaches(got[d], walk[d].after - 1)
      BY <2>1
    <3> QED BY <3>1, <3>2, <3>3, <2>1 DEF ReadFits
  <2> QED BY <2>4, <2>5, <2>6
<1> QED BY <1>2, <1>5 DEF WalkInv

\* What a client does that is not about the conversation.
Elsewhere(c) ==
  /\ req[c] # None /\ \A d \in Client \ {c} : req'[d] = req[d]
  /\ req'[c] = None \/ (req'[c].op = req[c].op /\ req'[c].step \notin WalkStep)

LEMMA WalkApart ==
  ASSUME WalkInv, NEW c \in Client, Elsewhere(c), UNCHANGED <<walk, got>>,
         SecondsFit', CacheFits', Len(second) <= Len(second'), stale => stale'
  PROVE  WalkInv'
<1>1. /\ walk \in [Client -> Walk] /\ got \in [Client -> (SUBSET Nat) \cup {None}]
      /\ walk[c] \in Walk /\ got[c] \in (SUBSET Nat) \cup {None}
      /\ WalkFits(c) /\ (got[c] # None => IsPage(got[c])) /\ (req[c] # None => ReadFits(c))
      /\ Len(second) \in Nat /\ Len(second') \in Nat
      /\ Message = 1 .. Len(second) /\ Message' = 1 .. Len(second')
  BY DEF WalkInv, SecondsFit, Message
<1>2. Message \subseteq Message'
  BY <1>1
<1>3. Descends(walk[c].shown, stale) => Descends(walk[c].shown, stale')
  BY DEF Descends
<1>4. WalkFits(c)'
  BY <1>1, <1>2, <1>3 DEF WalkFits
<1>5. got'[c] # None => IsPage(got[c])'
  <2> SUFFICES ASSUME got[c] # None PROVE IsPage(got[c])'
    OBVIOUS
  <2>1. PICK b \in 0 .. Len(second) : \E a \in 1 .. b + 1 : got[c] = a .. b
    BY <1>1 DEF IsPage
  <2>2. b \in 0 .. Len(second')
    BY <1>1
  <2> QED BY <2>1, <2>2 DEF IsPage
<1>6. req'[c] # None => ReadFits(c)'
  BY <1>1 DEF Elsewhere, ReadFits, WalkStep
<1>7. \A d \in Client \ {c} : req'[d] = req[d]
  BY DEF Elsewhere
<1> DEFINE w == walk[c]
           g == got[c]
<1>8. /\ w \in Walk /\ walk' = [walk EXCEPT ![c] = w]
      /\ g \in (SUBSET Nat) \cup {None} /\ got' = [got EXCEPT ![c] = g]
  BY <1>1
<1> HIDE DEF w, g
<1> QED BY <1>4, <1>5, <1>6, <1>7, <1>8, WalkKept

LEMMA WalkElsewhere ==
  ASSUME WalkInv, NEW c \in Client, Elsewhere(c), UNCHANGED Talk
  PROVE  WalkInv'
<1>1. UNCHANGED <<second, cache, stale, walk, got>>
  BY DEF Talk
<1>2. SecondsFit' /\ CacheFits' /\ Len(second) <= Len(second') /\ (stale => stale')
  BY <1>1 DEF WalkInv, SecondsFit, CacheFits, IsPage, Reaches
<1> QED BY <1>1, <1>2, WalkApart

\* A step that is not of a request changes nothing but the cache.
LEMMA WalkAlone ==
  ASSUME WalkInv, UNCHANGED <<req, second, stale, walk, got>>, cache' \in {cache, None}
  PROVE  WalkInv'
<1>1. CacheFits'
  BY DEF WalkInv, CacheFits, IsPage, Reaches
<1> QED BY <1>1 DEF WalkInv, SecondsFit, WalkFits, ReadFits, IsPage, Reaches, Message

LEMMA GoesElsewhere ==
  ASSUME HiddenInv, NEW c \in Client, req[c] # None
  PROVE  /\ \A s \in Step \ WalkStep : GoOn(c, s) => Elsewhere(c)
         /\ \A ok, rows : Answer(c, ok, rows) => Elsewhere(c)
         /\ \A ok : Over(c, ok) \/ Reply(c, ok) \/ Only(c, ok) => Elsewhere(c)
<1>1. req \in [Client -> Request \cup {None}] /\ req[c] \in Request
  BY RequestOf DEF HiddenInv, TableShape, AccountTypes
<1>2. ASSUME NEW s \in Step \ WalkStep, GoOn(c, s) PROVE Elsewhere(c)
  <2>1. req' = [req EXCEPT ![c] = AtStep(req[c], s)]
    BY <1>1, <1>2 DEF GoOn, AtStep
  <2>2. AtStep(req[c], s).op = req[c].op /\ AtStep(req[c], s).step = s
    BY <1>1, RequestFields
  <2> QED BY <2>1, <2>2, <1>1 DEF Elsewhere
<1>3. ASSUME NEW ok, NEW rows, Answer(c, ok, rows) PROVE Elsewhere(c)
  BY <1>1, <1>3 DEF Answer, Elsewhere
<1> QED BY <1>2, <1>3 DEF Over, Reply, Only

LEMMA AccountElsewhere ==
  ASSUME HiddenInv, NEW c \in Client, AccountStep(c)
  PROVE  Elsewhere(c)
<1>1. req[c] # None
  BY DEF AccountStep, Authenticate, CheckName, Register, Login, Logout, WhoAmI, GetUserByID,
         AddUser, UpdateUser, DeleteUser, Doing, At
<1>2. CASE Authenticate(c)
  <2> DEFINE s == IF req[c].op \in Limited THEN "limit" ELSE "do"
             u == sessions[c].user
             r == sessions[c].role
  <2>1. CASE Reply(c, FALSE)
    BY <1>1, <2>1, GoesElsewhere
  <2>2. CASE req' = [req EXCEPT ![c].step = s, ![c].user = u, ![c].role = r]
    <3>1. req \in [Client -> Request \cup {None}] /\ req[c] \in Request
      BY <1>1, RequestOf DEF HiddenInv, TableShape, AccountTypes
    <3>2. s \notin WalkStep
      BY DEF WalkStep
    <3> HIDE DEF s, u, r
    <3>3. req' = [req EXCEPT ![c] = EnteredAs(req[c], s, u, r)]
      BY <2>2, <3>1 DEF EnteredAs
    <3>4. EnteredAs(req[c], s, u, r).op = req[c].op /\ EnteredAs(req[c], s, u, r).step = s
      BY <3>1 DEF Request, EnteredAs
    <3> QED BY <1>1, <3>1, <3>2, <3>3, <3>4 DEF Elsewhere
  <2> QED BY <1>2, <2>1, <2>2 DEF Authenticate
<1>3. CASE CheckName(c)
  <2>1. "insert" \in Step \ WalkStep
    BY DEF Step, WalkStep
  <2> QED BY <1>1, <1>3, <2>1, GoesElsewhere DEF CheckName
<1>4. CASE \/ Register(c) \/ Login(c) \/ Logout(c) \/ WhoAmI(c) \/ GetUserByID(c)
           \/ AddUser(c) \/ UpdateUser(c) \/ DeleteUser(c)
  <2>1. \/ \E ok : Over(c, ok) \/ Reply(c, ok)
        \/ \E ok, rows : Answer(c, ok, rows)
    BY <1>4 DEF Register, Login, Logout, WhoAmI, GetUserByID, AddUser, UpdateUser, DeleteUser,
                Create, ChangeUser
  <2> QED BY <1>1, <2>1, GoesElsewhere
<1> QED BY <1>2, <1>3, <1>4 DEF AccountStep

LEMMA AppElsewhere ==
  ASSUME HiddenInv, NEW c \in Client,
         OwnerStep(c) \/ AdminStep(c) \/ List(c) \/ OpenChat(c)
  PROVE  Elsewhere(c) /\ UNCHANGED Talk
<1>1. req[c] # None
  BY DEF OwnerStep, AddApp, UpdateApp, DeleteApp, GetApp, GetAppVo, GetSourceCode,
         AdminStep, AdminUpdateApp, AdminDeleteApp, AdminGetAppVo, List, OpenChat, Doing, At
<1>2. {"write", "clear", "owner", "find", "insert"} \subseteq Step \ WalkStep
  BY DEF Step, WalkStep
<1>3. ASSUME NEW ok, Only(c, ok) PROVE Elsewhere(c) /\ UNCHANGED Talk
  BY <1>1, <1>3, GoesElsewhere DEF Only, appVars, Talk
<1>4. ASSUME NEW s \in {"write", "clear", "owner", "find", "insert"}, GoOn(c, s)
      PROVE  Elsewhere(c)
  BY <1>1, <1>2, <1>4, GoesElsewhere
<1>5. ASSUME NEW allowed, NEW s \in {"write", "owner", "insert"}, ReadThen(c, allowed, s)
      PROVE  Elsewhere(c) /\ UNCHANGED Talk
  BY <1>3, <1>4, <1>5 DEF ReadThen, appVars, Talk
<1>6. ASSUME NEW allowed, MarkGone(c, allowed) PROVE Elsewhere(c) /\ UNCHANGED Talk
  BY <1>3, <1>4, <1>6 DEF MarkGone
<1>7. ASSUME NEW x, WriteRow(c, x) PROVE Elsewhere(c) /\ UNCHANGED Talk
  BY <1>1, <1>7, GoesElsewhere DEF WriteRow
<1>8. CASE AddApp(c)
  BY <1>1, <1>8, GoesElsewhere DEF AddApp
<1>9. CASE UpdateApp(c) \/ AdminUpdateApp(c)
  BY <1>5, <1>7, <1>9 DEF UpdateApp, AdminUpdateApp
<1>10. CASE DeleteApp(c) \/ AdminDeleteApp(c)
  BY <1>3, <1>6, <1>10 DEF DeleteApp, AdminDeleteApp
<1>11. CASE GetApp(c) \/ AdminGetAppVo(c) \/ OpenChat(c)
  BY <1>5, <1>11 DEF GetApp, AdminGetAppVo, OpenChat
<1>12. CASE GetAppVo(c)
  <2>1. UNCHANGED appVars /\ \E ok, rows : Answer(c, ok, rows)
    BY <1>12 DEF GetAppVo
  <2> QED BY <1>1, <2>1, GoesElsewhere DEF appVars, Talk
<1>13. CASE GetSourceCode(c)
  BY <1>3, <1>13 DEF GetSourceCode
<1>14. CASE List(c)
  <2>1. UNCHANGED appVars /\ (GoOn(c, "find") \/ \E ok, rows : Answer(c, ok, rows))
    BY <1>14 DEF List
  <2> QED BY <1>1, <1>4, <2>1, GoesElsewhere DEF appVars, Talk
<1> QED BY <1>8, <1>9, <1>10, <1>11, <1>12, <1>13, <1>14 DEF OwnerStep, AdminStep

-----------------------------------------------------------------------------
\* A request for a page goes on reading.
LEMMA ReadingKept ==
  ASSUME HiddenInv, WalkInv, NEW c \in Client, req[c] # None, req[c].op = "history",
         NEW s \in WalkStep, GoOn(c, s), UNCHANGED <<second, walk>>,
         stale => stale', stale' \in BOOLEAN, CacheFits',
         NEW g \in (SUBSET Nat) \cup {None}, got' = [got EXCEPT ![c] = g],
         g # None => IsPage(g),
         s \in {"fill", "page"} =>
           IsPage(g) /\ (~stale' /\ walk[c].after # None => Reaches(g, walk[c].after - 1))
  PROVE  WalkInv'
<1>1. /\ walk \in [Client -> Walk] /\ got \in [Client -> (SUBSET Nat) \cup {None}]
      /\ walk[c] \in Walk /\ SecondsFit /\ WalkFits(c) /\ ReadFits(c)
  BY DEF WalkInv
<1>2. req \in [Client -> Request \cup {None}] /\ req[c] \in Request /\ s \in Step
  BY RequestOf DEF HiddenInv, TableShape, AccountTypes, WalkStep, Step
<1>3. req' = [req EXCEPT ![c] = AtStep(req[c], s)]
  BY <1>2 DEF GoOn, AtStep
<1>4. AtStep(req[c], s).op = "history" /\ AtStep(req[c], s).step = s
  BY <1>2, RequestFields
<1>5. req'[c].op = "history" /\ req'[c].step = s /\ \A d \in Client \ {c} : req'[d] = req[d]
  BY <1>2, <1>3, <1>4
<1>6. SecondsFit' /\ Len(second) <= Len(second')
  BY <1>1 DEF SecondsFit
<1>7. Descends(walk[c].shown, stale) => Descends(walk[c].shown, stale')
  BY DEF Descends
<1>8. WalkFits(c)'
  BY <1>1, <1>7 DEF WalkFits, Message
<1>9. got'[c] = g /\ walk'[c] = walk[c] /\ second' = second
  BY <1>1
<1>10. got'[c] # None => IsPage(got[c])'
  BY <1>9 DEF IsPage
<1>11. ReadFits(c)'
  <2>1. walk'[c].size # 0
    BY <1>1, <1>9 DEF ReadFits
  <2>2. s \in {"fill", "page"} =>
          IsPage(got[c])' /\ (~stale' /\ walk'[c].after # None => Reaches(got'[c], walk'[c].after - 1))
    BY <1>9 DEF IsPage
  <2> QED BY <1>5, <2>1, <2>2 DEF ReadFits
<1> DEFINE w == walk[c]
<1>12. w \in Walk /\ walk' = [walk EXCEPT ![c] = w]
  BY <1>1
<1> HIDE DEF w
<1> QED BY <1>5, <1>6, <1>8, <1>10, <1>11, <1>12, WalkKept

\* The rows that are read go as far as the conversation does.
LEMMA RowsArePage ==
  ASSUME SecondsFit
  PROVE  /\ IsPage(Newest(Rows, Window)) /\ Newest(Rows, Window) \in SUBSET Nat
         /\ Reaches(Newest(Rows, Window), Len(second))
<1>1. Message = 1 .. Len(second) /\ Len(second) \in Nat /\ Window \in Nat \ {0}
  BY MessagesOf, AppConstants DEF AppConstants
<1>2. CASE Rows = {} \/ Len(second) = 0
  <2>1. Newest(Rows, Window) = {}
    BY <1>1, <1>2 DEF Newest, Rows
  <2>2. {} = 1 .. 0 /\ 0 \in 0 .. Len(second) /\ 1 \in 1 .. 0 + 1
    BY <1>1
  <2> QED BY <2>1, <2>2 DEF IsPage, Reaches
<1>3. CASE Rows # {} /\ Len(second) # 0
  <2>1. Rows = 1 .. Len(second)
    BY <1>1, <1>3 DEF Rows
  <2>2. PICK d \in Nat : /\ 1 <= d /\ (1 <= Len(second) => d <= Len(second))
                         /\ Newest(1 .. Len(second), Window) = d .. Len(second)
    <3> DEFINE n == Len(second)
    <3>1. n \in Nat /\ 1 \in Nat /\ Window \in Nat \ {0}
      BY <1>1
    <3> HIDE DEF n
    <3>2. \E d \in Nat : /\ 1 <= d /\ (1 <= n => d <= n) /\ Newest(1 .. n, Window) = d .. n
                         /\ Newest(1 .. n, Window) = 1 .. n \/ 1 < d
      BY <3>1, NewestOf
    <3> QED BY <3>2 DEF n
  <2>3. Newest(Rows, Window) = d .. Len(second) /\ d \in 1 .. Len(second) + 1
        /\ Len(second) \in d .. Len(second) /\ Len(second) \in 0 .. Len(second)
    BY <1>1, <1>3, <2>1, <2>2
  <2> QED BY <2>3, <1>1 DEF IsPage, Reaches
<1> QED BY <1>2, <1>3

\* What goes as far as the last message but one goes as far as any cursor.
LEMMA ReachesFurther ==
  ASSUME SecondsFit, NEW S, IsPage(S), Reaches(S, Len(second) - 1) \/ Reaches(S, Len(second)),
         NEW i \in Message
  PROVE  Reaches(S, i - 1)
<1>1. PICK b \in 0 .. Len(second) : \E a \in 1 .. b + 1 : S = a .. b
  BY DEF IsPage
<1>2. PICK a \in 1 .. b + 1 : S = a .. b
  BY <1>1
<1>3. i \in 1 .. Len(second) /\ Len(second) \in Nat
  BY MessagesOf
<1>4. CASE S # {}
  <2>1. PICK j \in S : Len(second) - 1 <= j
    <3>1. \E j \in S : Len(second) - 1 <= j \/ Len(second) <= j
      BY <1>4 DEF Reaches
    <3> QED BY <3>1, <1>2, <1>3
  <2>2. i - 1 <= j
    BY <2>1, <1>2, <1>3
  <2> QED BY <2>2 DEF Reaches
<1> QED BY <1>4 DEF Reaches

LEMMA PageIsSet ==
  ASSUME SecondsFit, NEW S, IsPage(S)
  PROVE  S \in SUBSET Nat /\ S \subseteq Message
BY MessagesOf DEF IsPage

LEMMA CacheKept ==
  ASSUME WalkInv, NEW S, S # None => IsPage(S), UNCHANGED second, cache' = S,
         stale' = (stale \/ Behind(S, Message))
  PROVE  CacheFits' /\ stale' \in BOOLEAN
<1>1. SecondsFit /\ Message = 1 .. Len(second) /\ Len(second) \in Nat
  BY MessagesOf DEF WalkInv
<1>2. stale' \in BOOLEAN
  BY <1>1 DEF SecondsFit, Behind
<1>3. ASSUME S # None, ~stale' PROVE Reaches(S, Len(second) - 1)
  <2>1. PICK b \in 0 .. Len(second) : \E a \in 1 .. b + 1 : S = a .. b
    BY <1>3 DEF IsPage
  <2>2. PICK a \in 1 .. b + 1 : S = a .. b
    BY <2>1
  <2>3. ~Behind(S, 1 .. Len(second))
    BY <1>1, <1>3
  <2>4. a \in 1 .. (b + 1)
    OBVIOUS
  <2> QED BY <1>1, <1>3, <2>2, <2>3, <2>4, NotBehind
<1> QED BY <1>2, <1>3 DEF CacheFits, IsPage

LEMMA HistoryWalks ==
  ASSUME HiddenInv, WalkInv, NEW c \in Client,
         HistoryStep(c) \/ \E works \in BOOLEAN : FillCache(c, works)
  PROVE  WalkInv'
<1>1. /\ req[c] # None
      /\ ReadFits(c) /\ SecondsFit /\ CacheFits /\ WalkFits(c)
      /\ got \in [Client -> (SUBSET Nat) \cup {None}] /\ walk \in [Client -> Walk]
      /\ (got[c] # None => IsPage(got[c])) /\ stale \in BOOLEAN
  <2>1. req[c] # None
    BY DEF HistoryStep, ReadApp, ReadCache, ReadRows, ShowPage, FillCache, Doing, At
  <2> QED BY <2>1 DEF WalkInv, SecondsFit
<1>2. got' = got => got' = [got EXCEPT ![c] = got[c]] /\ got[c] \in (SUBSET Nat) \cup {None}
  BY <1>1
<1>3. CASE ReadApp(c)
  <2>1. req[c].op = "history" /\ "cache" \in WalkStep
    BY <1>3 DEF ReadApp, Doing, WalkStep
  <2>2. CASE Only(c, FALSE)
    BY <1>1, <2>2, GoesElsewhere, WalkElsewhere DEF Only, appVars, Talk
  <2>3. CASE GoOn(c, "cache") /\ UNCHANGED appVars
    <3>1. UNCHANGED <<second, cache, stale, walk, got>>
      BY <2>3 DEF appVars
    <3>2. CacheFits'
      BY <1>1, <3>1 DEF CacheFits, IsPage, Reaches
    <3> DEFINE g == got[c]
    <3>3. got' = [got EXCEPT ![c] = g] /\ g \in (SUBSET Nat) \cup {None} /\ (g # None => IsPage(g))
      BY <1>1, <1>2, <3>1
    <3>4. (stale => stale') /\ stale' \in BOOLEAN /\ "cache" \notin {"fill", "page"}
      BY <1>1, <3>1
    <3> HIDE DEF g
    <3> QED BY <1>1, <2>1, <2>3, <3>1, <3>2, <3>3, <3>4, ReadingKept
  <2> QED BY <1>3, <2>2, <2>3 DEF ReadApp, ReadThen
<1>4. CASE ReadCache(c)
  <2> DEFINE s == IF cache = None THEN "rows" ELSE "page"
             g == cache
  <2>1. /\ req[c].op = "history" /\ s \in WalkStep /\ GoOn(c, s)
        /\ UNCHANGED <<second, cache, stale, walk>> /\ got' = [got EXCEPT ![c] = g]
    BY <1>1, <1>4 DEF ReadCache, ReadInto, At, ReadFits, WalkStep
  <2>2. g # None => IsPage(g) /\ (~stale => Reaches(g, Len(second) - 1))
    BY <1>1 DEF CacheFits
  <2>3. CacheFits'
    BY <1>1, <2>1 DEF CacheFits, IsPage, Reaches
  <2>4. s \in {"fill", "page"} => g # None
    OBVIOUS
  <2>5. walk[c].after # None => walk[c].after \in Message
    BY <1>1 DEF WalkFits
  <2> HIDE DEF g, s
  <2>6. g \in (SUBSET Nat) \cup {None}
    <3>1. CASE g # None
      <4>1. IsPage(g) /\ SecondsFit
        BY <1>1, <2>2, <3>1
      <4> QED BY <4>1, PageIsSet
    <3> QED BY <3>1
  <2>7. g # None /\ ~stale /\ walk[c].after # None => Reaches(g, walk[c].after - 1)
    BY <1>1, <2>2, <2>5, ReachesFurther
  <2> QED BY <1>1, <2>1, <2>2, <2>3, <2>4, <2>6, <2>7, ReadingKept
<1>5. CASE ReadRows(c)
  <2> DEFINE g == Newest(Rows, Window)
  <2>1. /\ req[c].op = "history" /\ "fill" \in WalkStep /\ GoOn(c, "fill")
        /\ UNCHANGED <<second, cache, stale, walk>> /\ got' = [got EXCEPT ![c] = g]
    BY <1>1, <1>5 DEF ReadRows, ReadInto, At, ReadFits, WalkStep
  <2>2. IsPage(g) /\ g \in SUBSET Nat /\ Reaches(g, Len(second))
    BY <1>1, RowsArePage
  <2>3. CacheFits'
    BY <1>1, <2>1 DEF CacheFits, IsPage, Reaches
  <2>4. walk[c].after # None => walk[c].after \in Message
    BY <1>1 DEF WalkFits
  <2> HIDE DEF g
  <2>5. walk[c].after # None => Reaches(g, walk[c].after - 1)
    BY <1>1, <2>2, <2>4, ReachesFurther
  <2> QED BY <1>1, <2>1, <2>2, <2>3, <2>5, ReadingKept
<1>6. CASE \E works \in BOOLEAN : FillCache(c, works)
  <2> DEFINE g == got[c]
             S == cache'
  <2>1. /\ req[c].op = "history" /\ req[c].step = "fill" /\ "page" \in WalkStep
        /\ GoOn(c, "page") /\ UNCHANGED <<second, walk, got>> /\ S \in {cache, g}
        /\ stale' = (stale \/ Behind(S, Message))
    BY <1>1, <1>6 DEF FillCache, At, ReadFits, WalkStep
  <2>2. IsPage(g) /\ (~stale /\ walk[c].after # None => Reaches(g, walk[c].after - 1))
    BY <1>1, <2>1 DEF ReadFits
  <2>3. S # None => IsPage(S)
    BY <1>1, <2>1, <2>2 DEF CacheFits
  <2>4. got' = [got EXCEPT ![c] = g] /\ g \in (SUBSET Nat) \cup {None}
    BY <1>2, <2>1
  <2>5. stale => stale'
    BY <2>1
  <2> HIDE DEF g
  <2>6. CacheFits' /\ stale' \in BOOLEAN
    BY <2>1, <2>3, CacheKept
  <2> QED BY <1>1, <2>1, <2>2, <2>4, <2>5, <2>6, ReadingKept
<1>7. CASE ShowPage(c)
  <2>1. PICK w \in Walk : walk' = [walk EXCEPT ![c] = w]
    BY <1>7, ShowSteps
  <2>2. WalkFits(c)'
    BY <1>7, ShowSteps
  <2>3. /\ UNCHANGED <<second, cache, stale>> /\ got' = [got EXCEPT ![c] = None]
        /\ Reply(c, TRUE)
    BY <1>7 DEF ShowPage
  <2>4. req' = [req EXCEPT ![c] = None] /\ req \in [Client -> Request \cup {None}]
    BY <2>3 DEF Reply, Over, Answer, HiddenInv, TableShape, AccountTypes
  <2>5. req'[c] = None /\ \A d \in Client \ {c} : req'[d] = req[d]
    BY <2>4
  <2>6. SecondsFit' /\ CacheFits' /\ Len(second) <= Len(second')
    BY <1>1, <2>3 DEF SecondsFit, CacheFits, IsPage, Reaches
  <2>7. stale => stale'
    BY <2>3
  <2> DEFINE g == None
  <2>8. g \in (SUBSET Nat) \cup {None} /\ got' = [got EXCEPT ![c] = g]
    BY <2>3
  <2>9. got'[c] # None => IsPage(got[c])'
    BY <1>1, <2>3
  <2> HIDE DEF g
  <2> QED BY <2>1, <2>2, <2>5, <2>6, <2>7, <2>8, <2>9, WalkKept
<1> QED BY <1>3, <1>4, <1>5, <1>6, <1>7 DEF HistoryStep

LEMMA SecondsGrow ==
  ASSUME SecondsFit, Len(second) < MaxMessages, NEW later \in 0 .. 1,
         second' = Append(second, later + IF second = <<>> THEN 0 ELSE Last(second)),
         stale' \in BOOLEAN
  PROVE  SecondsFit'
<1> DEFINE n == Len(second)
           x == later + IF second = <<>> THEN 0 ELSE Last(second)
<1>1. n \in Nat /\ second \in Seq(Nat) /\ DOMAIN second = 1 .. n /\ MaxMessages \in Nat /\ n < MaxMessages
  BY AppConstants DEF SecondsFit, AppConstants
<1>2. /\ \A i \in 1 .. n : second[i] \in Nat
      /\ \A i, j \in 1 .. n : i < j => second[i] <= second[j]
  <2>1. \A i, j \in DOMAIN second : i < j => second[i] <= second[j]
    BY DEF SecondsFit
  <2>2. \A i \in DOMAIN second : second[i] \in Nat
    BY DEF SecondsFit
  <2>3. DOMAIN second = 1 .. n
    BY <1>1
  <2> HIDE DEF n
  <2> QED BY <2>1, <2>2, <2>3
<1>3. x \in Nat /\ \A i \in 1 .. n : second[i] <= x
  <2>1. CASE n = 0
    BY <2>1, <1>1
  <2>2. CASE n # 0
    <3>1. n \in 1 .. n /\ second # <<>> /\ x = later + second[n]
      BY <2>2, <1>1 DEF Last
    <3>2. \A i \in 1 .. n : second[i] <= second[n]
      BY <3>1, <1>1, <1>2
    <3>3. later \in Nat
      OBVIOUS
    <3> HIDE DEF x
    <3> QED BY <3>1, <3>2, <3>3, <1>2
  <2> QED BY <2>1, <2>2
<1> HIDE DEF x
<1>4. second' = Append(second, x)
  BY DEF x
<1>5. /\ second' \in Seq(Nat) /\ Len(second') = n + 1 /\ DOMAIN second' = 1 .. (n + 1)
      /\ \A i \in 1 .. n : second'[i] = second[i]
      /\ second'[n + 1] = x
  BY <1>1, <1>3, <1>4
<1> HIDE DEF n
<1>6. ASSUME NEW i \in 1 .. (n + 1), NEW j \in 1 .. (n + 1), i < j
      PROVE  second'[i] <= second'[j]
  <2>1. i \in 1 .. n /\ (j \in 1 .. n \/ j = n + 1)
    BY <1>1, <1>6
  <2> QED BY <2>1, <1>2, <1>3, <1>5, <1>6
<1>7. Len(second') <= MaxMessages
  BY <1>1, <1>5
<1> QED BY <1>5, <1>6, <1>7 DEF SecondsFit

LEMMA TalkWalks ==
  ASSUME HiddenInv, WalkInv, NEW c \in Client,
         AddChatMessage(c) \/ \E works \in BOOLEAN : ClearHistory(c, works)
  PROVE  WalkInv'
<1>1. req[c] # None /\ SecondsFit /\ CacheFits
  BY DEF WalkInv, AddChatMessage, ClearHistory, Doing, At
<1>2. {"insert", "clear"} \subseteq Step \ WalkStep
  BY DEF Step, WalkStep
<1>3. CASE Only(c, FALSE)
  BY <1>1, <1>3, GoesElsewhere, WalkElsewhere DEF Only, appVars, Talk
<1>4. ASSUME NEW later \in 0 .. 1, Len(second) < MaxMessages,
             second' = Append(second, later + IF second = <<>> THEN 0 ELSE Last(second)),
             GoOn(c, "clear"), stale' = (stale \/ Behind(cache, DOMAIN second')),
             UNCHANGED <<cache, walk, got>>
      PROVE  WalkInv'
  <2>1. Elsewhere(c)
    BY <1>1, <1>2, <1>4, GoesElsewhere
  <2>2. stale' \in BOOLEAN
    BY <1>1, <1>4 DEF SecondsFit, Behind
  <2>3. SecondsFit'
    BY <1>1, <1>4, <2>2, SecondsGrow
  <2>4. Len(second') = Len(second) + 1 /\ Len(second) \in Nat
    BY <1>1, <1>4 DEF SecondsFit
  <2>5. Len(second) <= Len(second') /\ Len(second') \in Nat /\ DOMAIN second' = 1 .. Len(second')
    BY <2>3, <2>4 DEF SecondsFit
  <2>6. CacheFits'
    <3>1. CASE cache = None
      BY <1>4, <3>1 DEF CacheFits
    <3>2. CASE cache # None
      <4>1. PICK b \in 0 .. Len(second) : \E a \in 1 .. b + 1 : cache = a .. b
        BY <1>1, <3>2 DEF CacheFits, IsPage
      <4>2. PICK a \in 1 .. b + 1 : cache = a .. b
        BY <4>1
      <4>3. b \in 0 .. Len(second') /\ a \in 1 .. (b + 1)
        BY <2>4
      <4>4. ~stale' => ~Behind(cache, 1 .. Len(second'))
        BY <1>4, <2>5
      <4>5. ~stale' => Reaches(cache, Len(second') - 1)
        <5> DEFINE S == cache
                   n == Len(second')
        <5>1. n \in Nat /\ b \in 0 .. n /\ S = a .. b /\ S # None /\ (~stale' => ~Behind(S, 1 .. n))
          BY <2>5, <3>2, <4>2, <4>3, <4>4
        <5> HIDE DEF S, n
        <5>2. ~stale' => Reaches(S, n - 1)
          BY <4>3, <5>1, NotBehind
        <5> QED BY <5>2 DEF S, n
      <4>6. Reaches(cache, Len(second') - 1) <=> Reaches(cache', Len(second') - 1)
        BY <1>4
      <4> QED BY <1>4, <4>2, <4>3, <4>5, <4>6 DEF CacheFits, IsPage
    <3> QED BY <3>1, <3>2
  <2> QED BY <1>4, <2>1, <2>3, <2>5, <2>6, WalkApart
<1>5. CASE AddChatMessage(c)
  BY <1>3, <1>4, <1>5 DEF AddChatMessage
<1>6. CASE \E works \in BOOLEAN : ClearHistory(c, works)
  <2>1. /\ UNCHANGED <<second, stale, walk, got>> /\ cache' \in {cache, None}
        /\ GoOn(c, "insert") \/ Reply(c, TRUE)
    BY <1>6 DEF ClearHistory
  <2>2. Elsewhere(c)
    BY <1>1, <1>2, <2>1, GoesElsewhere
  <2>3. SecondsFit' /\ CacheFits' /\ Len(second) <= Len(second') /\ (stale => stale')
    BY <1>1, <2>1 DEF SecondsFit, CacheFits, IsPage, Reaches
  <2> QED BY <2>1, <2>2, <2>3, WalkApart
<1> QED BY <1>5, <1>6

LEMMA SendsWalks ==
  ASSUME HiddenInv, WalkInv, NEW c \in Client, Sends(c)
  PROVE  WalkInv'
<1>1. /\ SecondsFit /\ CacheFits /\ WalkFits(c) /\ (got[c] # None => IsPage(got[c]))
      /\ walk \in [Client -> Walk] /\ walk[c] \in Walk
      /\ got \in [Client -> (SUBSET Nat) \cup {None}]
  BY DEF WalkInv
<1>2. UNCHANGED <<second, cache, stale, got>>
  BY DEF Sends
<1>3. PICK op \in case.ops[c] : \E what \in Wanted(op) :
        /\ Ask(c, op, what, Gone)
        /\ IF op = "history" /\ walk[c].size = 0
           THEN \E size \in 1 .. MaxSize :
                  walk' = [walk EXCEPT ![c] = [NoWalk EXCEPT !.size = size]]
           ELSE UNCHANGED walk
  BY DEF Sends
<1>4. PICK what \in Wanted(op) :
        /\ Ask(c, op, what, Gone)
        /\ IF op = "history" /\ walk[c].size = 0
           THEN \E size \in 1 .. MaxSize :
                  walk' = [walk EXCEPT ![c] = [NoWalk EXCEPT !.size = size]]
           ELSE UNCHANGED walk
  BY <1>3
<1>5. op \in Ops /\ TableShape
  <2>1. case \in Case /\ TableShape
    BY SiteConstants DEF SiteConstants, HiddenInv, TableShape
  <2>2. case.ops \in [Client -> SUBSET Ops]
    BY <2>1 DEF Case
  <2> QED BY <2>1, <2>2
<1>6. /\ req' = [req EXCEPT ![c] = NewRequest(op, what)]
      /\ req \in [Client -> Request \cup {None}]
  BY <1>4, <1>5 DEF Ask, NewRequest, TableShape, AccountTypes
<1>7. /\ NewRequest(op, what).op = op
      /\ NewRequest(op, what).step = (IF op \in Open THEN "do" ELSE "auth")
  BY <1>5, NewRequestFields
<1>8. /\ req'[c].op = op /\ req'[c].step \notin WalkStep
      /\ \A d \in Client \ {c} : req'[d] = req[d]
  BY <1>6, <1>7 DEF WalkStep
<1>9. PICK w \in Walk : /\ walk' = [walk EXCEPT ![c] = w]
                        /\ w = walk[c] \/ (w.size # 0 /\ w.after = None /\ w.shown = <<>>)
                        /\ op = "history" => w.size # 0
  <2>1. CASE op = "history" /\ walk[c].size = 0
    <3>1. PICK size \in 1 .. MaxSize : walk' = [walk EXCEPT ![c] = [NoWalk EXCEPT !.size = size]]
      BY <1>4, <2>1
    <3>2. [NoWalk EXCEPT !.size = size] = [size |-> size, after |-> None, shown |-> <<>>]
      BY DEF NoWalk
    <3>3. size \in 0 .. MaxSize /\ size # 0 /\ <<>> \in Seq(Nat)
      BY AppConstants DEF AppConstants
    <3> DEFINE x == [size |-> size, after |-> None, shown |-> <<>>]
    <3>4. x \in Walk /\ x.size # 0 /\ x.after = None /\ x.shown = <<>>
      BY <3>3 DEF Walk
    <3>5. walk' = [walk EXCEPT ![c] = x]
      BY <3>1, <3>2
    <3> HIDE DEF x
    <3> QED BY <3>4, <3>5
  <2>2. CASE ~(op = "history" /\ walk[c].size = 0)
    <3>1. walk' = [walk EXCEPT ![c] = walk[c]]
      BY <1>1, <1>4, <2>2
    <3> QED BY <1>1, <2>2, <3>1
  <2> QED BY <2>1, <2>2
<1>10. walk'[c] = w
  BY <1>1, <1>9
<1>11. WalkFits(c)'
  <2>1. CASE w = walk[c]
    BY <1>1, <1>2, <1>10, <2>1 DEF WalkFits, Message
  <2>2. CASE w.size # 0 /\ w.after = None /\ w.shown = <<>>
    <3>1. DOMAIN w.shown = {} /\ Descends(w.shown, stale')
      BY <2>2 DEF Descends
    <3> QED BY <1>10, <2>2, <3>1 DEF WalkFits
  <2> QED BY <1>9, <2>1, <2>2
<1>12. ReadFits(c)'
  BY <1>8, <1>9, <1>10 DEF ReadFits, WalkStep
<1>13. /\ SecondsFit' /\ CacheFits' /\ Len(second) <= Len(second') /\ (stale => stale')
       /\ got'[c] # None => IsPage(got[c])'
  BY <1>1, <1>2 DEF SecondsFit, CacheFits, IsPage, Reaches
<1> DEFINE g == got[c]
<1>14. g \in (SUBSET Nat) \cup {None} /\ got' = [got EXCEPT ![c] = g]
  BY <1>1, <1>2
<1> HIDE DEF g
<1> QED BY <1>8, <1>9, <1>11, <1>12, <1>13, <1>14, WalkKept

LEMMA WalkInvStep ==
  ASSUME HiddenInv, WalkInv, [Next]_vars
  PROVE  WalkInv'
<1>1. CASE UNCHANGED <<req, appVars>>
  BY <1>1, WalkAlone DEF appVars
<1>2. CASE UNCHANGED vars
  BY <1>1, <1>2 DEF vars, accountVars
<1>3. ASSUME NEW c \in Client, Sends(c) PROVE WalkInv'
  BY <1>3, SendsWalks
<1>4. ASSUME NEW c \in Client, Limit(c) PROVE WalkInv'
  <2>1. req[c] # None /\ UNCHANGED Talk
    BY <1>4 DEF Limit, At, appVars, Talk
  <2>2. "do" \in Step \ WalkStep
    BY DEF Step, WalkStep
  <2>3. GoOn(c, "do") \/ Answer(c, FALSE, {})
    BY <1>4 DEF Limit
  <2> QED BY <2>1, <2>2, <2>3, GoesElsewhere, WalkElsewhere
<1>5. ASSUME NEW c \in Client, Handle(c) PROVE WalkInv'
  <2>1. CASE AccountStep(c) /\ UNCHANGED appVars
    BY <2>1, AccountElsewhere, WalkElsewhere DEF appVars, Talk
  <2>2. CASE OwnerStep(c) \/ AdminStep(c) \/ List(c) \/ OpenChat(c)
    BY <2>2, AppElsewhere, WalkElsewhere
  <2>3. CASE HistoryStep(c) \/ FillCache(c, TRUE)
    BY <2>3, HistoryWalks
  <2>4. CASE AddChatMessage(c) \/ ClearHistory(c, TRUE)
    BY <2>4, TalkWalks
  <2> QED BY <1>5, <2>1, <2>2, <2>3, <2>4 DEF Handle, ChatStep
<1>6. CASE PageWorks \/ TimePasses
  BY <1>1, <1>6 DEF PageWorks, TimePasses, accountVars
<1>7. CASE Fails
  <2>1. CASE UNCHANGED <<accountVars, appVars>>
    BY <1>1, <2>1 DEF accountVars
  <2>2. ASSUME NEW c \in Client, ClearHistory(c, FALSE) \/ FillCache(c, FALSE)
        PROVE  WalkInv'
    BY <2>2, TalkWalks, HistoryWalks
  <2>3. CASE CacheExpires /\ UNCHANGED <<accountVars, pageVars>>
    BY <2>3, WalkAlone DEF CacheExpires, accountVars
  <2>4. ASSUME NEW c \in Client, Expire(c), UNCHANGED appVars
        PROVE  WalkInv'
    BY <1>1, <2>4 DEF Expire
  <2> QED BY <1>7, <2>1, <2>2, <2>3, <2>4 DEF Fails
<1> QED BY <1>2, <1>3, <1>4, <1>5, <1>6, <1>7 DEF Next

LEMMA WalkInit == Init => WalkInv
<1> SUFFICES ASSUME Init PROVE WalkInv
  OBVIOUS
<1>1. /\ second = case.messages /\ cache = None /\ stale = FALSE
      /\ walk = [c \in Client |-> NoWalk] /\ got = [c \in Client |-> None]
      /\ req = [c \in Client |-> None] /\ case \in Cases
  BY DEF Init
<1>2. SecondsFit
  <2>1. case.messages \in Seq(Nat)
    BY <1>1, SiteConstants DEF SiteConstants, Case
  <2>2. /\ Len(case.messages) <= MaxMessages
        /\ \A i, j \in DOMAIN case.messages : i < j => case.messages[i] <= case.messages[j]
    BY <1>1, SiteConstants DEF SiteConstants
  <2> QED BY <1>1, <2>1, <2>2 DEF SecondsFit
<1>3. NoWalk \in Walk /\ NoWalk.size = 0 /\ NoWalk.after = None /\ NoWalk.shown = <<>>
  <2>1. 0 \in 0 .. MaxSize /\ <<>> \in Seq(Nat)
    BY AppConstants DEF AppConstants
  <2> QED BY <2>1 DEF NoWalk, Walk
<1>4. ASSUME NEW c \in Client PROVE WalkFits(c)
  <2>1. walk[c] = NoWalk
    BY <1>1
  <2>2. DOMAIN walk[c].shown = {} /\ Descends(walk[c].shown, stale)
    BY <1>3, <2>1 DEF Descends
  <2> QED BY <1>3, <2>1, <2>2 DEF WalkFits
<1>5. CacheFits /\ walk \in [Client -> Walk] /\ got \in [Client -> (SUBSET Nat) \cup {None}]
  BY <1>1, <1>3 DEF CacheFits
<1> QED BY <1>1, <1>2, <1>4, <1>5 DEF WalkInv

\* Who walks through the conversation sees its messages one after the other, each
\* once and none out of order, and misses none between two that are shown unless
\* the cached page was ever behind by two: for conversations, pages and windows of
\* any size, and any number of clients that write and read at once.
THEOREM WalksMissNothing == Spec => []WalkMissesNothing
<1>1. Init => HiddenInv /\ WalkInv
  BY HiddenInit, WalkInit
<1>2. HiddenInv /\ WalkInv /\ [Next]_vars => (HiddenInv /\ WalkInv)'
  BY HiddenStep, WalkInvStep
<1>3. WalkInv => WalkMissesNothing
  BY DEF WalkInv, WalkFits, Descends, WalkMissesNothing
<1> QED BY <1>1, <1>2, <1>3, PTL DEF Spec

-----------------------------------------------------------------------------
(* Types                                                                   *)

\* What the invariants above leave open of the types: the numbers of the limiter's
\* members, when its keys expire, and the counters of a case.
Limits == \A k \in Key : /\ \A m \in zset[k] : m[2] # 0
                         /\ until[k] <= clock + Interval + Slack

CountsInv ==
  /\ Limits
  /\ asked \in [Client -> Nat] /\ \A c \in Client : asked[c] <= case.asks[c]
  /\ faults \in 0 .. case.faults

LEMMA LimitsKept ==
  ASSUME WindowInv, Limits, limitVars' = limitVars \/ Tick \/ \E j : Admit(j) \/ Refuse(j)
  PROVE  Limits'
<1>1. /\ clock \in Nat /\ Interval \in Nat /\ Slack \in Nat
      /\ zset \in [Key -> SUBSET (Nat \X Nat)] /\ seq \in [Key -> Nat] /\ until \in [Key -> Nat]
  BY LimitConstants DEF LimitConstants, WindowInv, LimitShape
<1>2. CASE limitVars' = limitVars
  BY <1>2 DEF limitVars, Limits
<1>3. CASE Tick
  <2> SUFFICES ASSUME NEW k \in Key
               PROVE  (\A m \in zset'[k] : m[2] # 0) /\ until'[k] <= clock' + Interval + Slack
    BY DEF Limits
  <2>1. /\ zset'[k] = {} \/ zset'[k] = zset[k]
        /\ until'[k] = until[k] /\ until[k] \in Nat /\ clock' = clock + 1
    BY <1>1, <1>3 DEF Tick
  <2>2. (\A m \in zset[k] : m[2] # 0) /\ until[k] <= clock + Interval + Slack
    BY DEF Limits
  <2> QED BY <1>1, <2>1, <2>2
<1>4. ASSUME NEW j, Admit(j) PROVE Limits'
  <2> SUFFICES ASSUME NEW k \in Key
               PROVE  (\A m \in zset'[k] : m[2] # 0) /\ until'[k] <= clock' + Interval + Slack
    BY DEF Limits
  <2>1. (\A m \in zset[k] : m[2] # 0) /\ until[k] <= clock + Interval + Slack /\ clock' = clock
    BY <1>4 DEF Limits, Admit
  <2>2. CASE k = j
    <3>1. /\ zset'[k] = Recent(k) \cup {<<clock, seq[k] + 1>>}
          /\ until'[k] = clock + Interval + Slack
      BY <1>1, <1>4, <2>2 DEF Admit, Member
    <3>2. seq[k] + 1 # 0 /\ <<clock, seq[k] + 1>>[2] = seq[k] + 1 /\ Recent(k) \subseteq zset[k]
      BY <1>1 DEF Recent
    <3> QED BY <1>1, <2>1, <3>1, <3>2
  <2>3. CASE k # j
    BY <1>1, <1>4, <2>1, <2>3 DEF Admit
  <2> QED BY <2>2, <2>3
<1>5. ASSUME NEW j, Refuse(j) PROVE Limits'
  <2> SUFFICES ASSUME NEW k \in Key
               PROVE  (\A m \in zset'[k] : m[2] # 0) /\ until'[k] <= clock' + Interval + Slack
    BY DEF Limits
  <2>1. zset'[k] \subseteq zset[k] /\ until' = until /\ clock' = clock
    BY <1>1, <1>5 DEF Refuse, Recent
  <2> QED BY <2>1 DEF Limits
<1> QED BY <1>2, <1>3, <1>4, <1>5

LEMMA CountsStep ==
  ASSUME WindowInv, TableShape, CountsInv, [Next]_vars
  PROVE  CountsInv'
<1>1. /\ asked \in [Client -> Nat] /\ \A c \in Client : asked[c] <= case.asks[c]
      /\ faults \in 0 .. case.faults /\ Limits
  BY DEF CountsInv
<1>2. case.faults \in Nat /\ case.asks \in [Client -> Nat]
  <2>1. case \in Case
    BY SiteConstants DEF SiteConstants, TableShape
  <2> QED BY <2>1 DEF Case
<1>3. /\ limitVars' = limitVars \/ Tick \/ \E j : Admit(j) \/ Refuse(j)
      /\ case' = case
  <2>1. CASE UNCHANGED vars
    BY <2>1 DEF vars, siteVars
  <2>2. ASSUME NEW c \in Client, Sends(c) \/ Limit(c) \/ Handle(c)
        PROVE  (limitVars' = limitVars \/ \E j : Admit(j) \/ Refuse(j)) /\ case' = case
    BY <2>2 DEF Sends, Limit, Handle, siteVars
  <2>3. CASE PageWorks
    BY <2>3 DEF PageWorks, Checked, siteVars
  <2>4. CASE TimePasses \/ Fails
    BY <2>4 DEF TimePasses, Fails, siteVars
  <2> QED BY <2>1, <2>2, <2>3, <2>4 DEF Next
<1>4. Limits'
  BY <1>1, <1>3, LimitsKept
<1>5. /\ asked' = asked \/ \E c \in Client : asked[c] < case.asks[c]
                                             /\ asked' = [asked EXCEPT ![c] = asked[c] + 1]
      /\ faults' = faults \/ (faults < case.faults /\ faults' = faults + 1)
  <2>1. CASE UNCHANGED vars
    BY <2>1 DEF vars, siteVars
  <2>2. ASSUME NEW c \in Client, Sends(c)
        PROVE  /\ asked[c] < case.asks[c] /\ asked' = [asked EXCEPT ![c] = asked[c] + 1]
               /\ faults' = faults
    BY <2>2 DEF Sends
  <2>3. ASSUME NEW c \in Client, Limit(c) \/ Handle(c)
        PROVE  asked' = asked /\ faults' = faults
    BY <2>3 DEF Limit, Handle, siteVars
  <2>4. CASE PageWorks \/ TimePasses \/ Fails
    BY <2>4 DEF PageWorks, TimePasses, Fails, Fault, siteVars
  <2> QED BY <2>1, <2>2, <2>3, <2>4 DEF Next
<1>6. asked' \in [Client -> Nat] /\ \A c \in Client : asked'[c] <= case'.asks[c]
  <2>1. ASSUME NEW c \in Client, asked[c] < case.asks[c],
               asked' = [asked EXCEPT ![c] = asked[c] + 1]
        PROVE  asked' \in [Client -> Nat] /\ \A d \in Client : asked'[d] <= case.asks[d]
    <3>1. asked[c] \in Nat /\ case.asks[c] \in Nat /\ asked[c] + 1 <= case.asks[c]
      BY <1>1, <1>2, <2>1
    <3> QED BY <1>1, <2>1, <3>1
  <2> QED BY <1>1, <1>3, <1>5, <2>1
<1>7. faults' \in 0 .. case'.faults
  BY <1>1, <1>2, <1>3, <1>5
<1> QED BY <1>4, <1>6, <1>7 DEF CountsInv

LEMMA CountsInit == Init => CountsInv
<1> SUFFICES ASSUME Init PROVE CountsInv
  OBVIOUS
<1>1. case \in Case
  BY SiteConstants DEF SiteConstants, Init
<1>2. case.faults \in Nat /\ case.asks \in [Client -> Nat]
  BY <1>1 DEF Case
<1>3. /\ asked = [c \in Client |-> 0] /\ faults = 0 /\ clock = 0
      /\ zset = [k \in Key |-> {}] /\ until = [k \in Key |-> 0]
  BY DEF Init, LimitInit
<1>4. 0 <= 0 + Interval + Slack
  BY LimitConstants DEF LimitConstants
<1> QED BY <1>2, <1>3, <1>4 DEF CountsInv, Limits

LEMMA TypesHold ==
  ASSUME WindowInv, PageInv, HiddenInv, WalkInv, CountsInv
  PROVE  TypeOK
<1>1. AccountTypes /\ PageTypes /\ case \in Cases
  BY DEF HiddenInv, TableShape, PageInv, PageShape
<1>2. SiteTypes
  BY <1>1 DEF CountsInv, SiteTypes
<1>3. LimitTypes
  <2>1. clock \in Nat
    BY DEF WindowInv, LimitShape
  <2>2. ASSUME NEW k \in Key
        PROVE  zset[k] \subseteq (0 .. clock) \X (1 .. seq[k]) /\ until[k] <= clock + Interval + Slack
    <3>1. ASSUME NEW m \in zset[k] PROVE m \in (0 .. clock) \X (1 .. seq[k])
      <4>1. m \in Nat \X Nat /\ m[1] <= clock /\ m[2] <= seq[k] /\ m[2] # 0 /\ seq[k] \in Nat
        BY DEF WindowInv, LimitShape, MembersFit, CountsInv, Limits
      <4>2. m[1] \in 0 .. clock /\ m[2] \in 1 .. seq[k] /\ m = <<m[1], m[2]>>
        BY <2>1, <4>1
      <4> QED BY <4>2
    <3> QED BY <3>1 DEF CountsInv, Limits
  <2> QED BY <2>1, <2>2 DEF LimitTypes
<1>4. AppTypes
  <2>1. apps \in Seq(AppRow) /\ Len(apps) <= MaxApps
    BY DEF HiddenInv, TableShape
  <2>2. SecondsFit /\ (cache = None \/ cache \subseteq Message)
    BY PageIsSet DEF WalkInv, CacheFits
  <2>3. ASSUME NEW c \in Client
        PROVE  /\ walk[c].size \in 0 .. MaxSize /\ walk[c].after \in Message \cup {None}
               /\ walk[c].shown \in Seq(Message) /\ (got[c] = None \/ got[c] \subseteq Message)
    <3>1. walk[c] \in Walk /\ WalkFits(c) /\ (got[c] # None => IsPage(got[c]))
      BY DEF WalkInv
    <3>2. walk[c].size \in 0 .. MaxSize /\ walk[c].shown \in Seq(Nat)
      BY <3>1 DEF Walk
    <3>3. /\ walk[c].after \in Message \cup {None}
          /\ \A i \in DOMAIN walk[c].shown : walk[c].shown[i] \in Message
      BY <3>1 DEF WalkFits
    <3>4. walk[c].shown \in Seq(Message)
      <4> DEFINE s == walk[c].shown
      <4>1. s \in Seq(Nat) /\ \A i \in DOMAIN s : s[i] \in Message
        BY <3>2, <3>3
      <4> HIDE DEF s
      <4>2. s \in Seq(Message)
        BY <4>1
      <4> QED BY <4>2 DEF s
    <3>5. got[c] = None \/ got[c] \subseteq Message
      BY <2>2, <3>1, PageIsSet
    <3> QED BY <3>2, <3>3, <3>4, <3>5
  <2> QED BY <2>1, <2>2, <2>3 DEF AppTypes, SecondsFit
<1> QED BY <1>1, <1>2, <1>3, <1>4 DEF TypeOK

\* Every variable of the server, the limiter and the pages keeps its type, and no
\* bound of a case is exceeded.
THEOREM TypeCorrect == Spec => []TypeOK
<1> DEFINE Inv == WindowInv /\ PageInv /\ HiddenInv /\ WalkInv /\ CountsInv
<1>1. Init => Inv
  BY WindowInit, PageInvInit, HiddenInit, WalkInit, CountsInit
<1>2. Inv /\ [Next]_vars => Inv'
  BY WindowStep, PageInvStep, HiddenStep, WalkInvStep, CountsStep DEF HiddenInv
<1>3. Inv => TypeOK
  BY TypesHold
<1> QED BY <1>1, <1>2, <1>3, PTL DEF Spec

=============================================================================
