--------------------------- MODULE ChatMemoryProofs ---------------------------
(***************************************************************************)
(* Proofs about ChatMemory, for any number of requests and summaries, any  *)
(* thresholds and any number of faults: its types, that no message is ever *)
(* missing from a summary or from what the model is given, and that the    *)
(* usage shown is the usage counted, but for one count per failure.        *)
(***************************************************************************)
EXTENDS ChatMemory, FiniteSetTheorems, SequenceTheorems, TLAPS

-----------------------------------------------------------------------------
(* Least and greatest numbers                                              *)

\* A set of numbers that is not empty has a least element.
LEMMA LeastElement ==
  ASSUME NEW S \in SUBSET Nat, S # {}
  PROVE  \E n \in S : \A m \in S : n <= m
<1> DEFINE R == OpToRel(<, Nat)
<1>1. IsWellFoundedOn(R, Nat)
  BY NatLessThanWellFounded
<1>2. \A m, n \in Nat : m < n => <<m, n>> \in R
  BY DEF OpToRel
<1> HIDE DEF R
<1>3. PICK n \in S : \A m \in S : ~ (<<m, n>> \in R)
  BY <1>1, WFMin
<1>4. \A m \in S : ~ (m < n)
  BY <1>2, <1>3
<1>5. \A m \in S : n <= m
  BY <1>4
<1> QED BY <1>5

\* A set of numbers with a bound that is not empty has a greatest element.
LEMMA GreatestElement ==
  ASSUME NEW S \in SUBSET Nat, S # {}, NEW b \in Nat, \A n \in S : n <= b
  PROVE  \E n \in S : \A m \in S : m <= n
<1> DEFINE D == {k \in Nat : \E n \in S : n + k = b}
<1>1. \A n \in S : b - n \in D
  OBVIOUS
<1>2. D # {} /\ D \in SUBSET Nat
  BY <1>1
<1> HIDE DEF D
<1>3. PICK k \in D : \A j \in D : k <= j
  BY <1>2, LeastElement
<1>4. PICK n \in S : n + k = b
  BY DEF D
<1>5. \A m \in S : m <= n
  BY <1>1, <1>2, <1>3, <1>4
<1> QED BY <1>5

\* The numbers of a sequence have a bound: a least place where they had none
\* would come after one where they have.
LEMMA BoundedSequence ==
  ASSUME NEW q \in Seq(Nat)
  PROVE  \E b \in Nat : \A i \in DOMAIN q : q[i] <= b
<1> DEFINE Bounded(n) == \E b \in Nat : \A i \in 1 .. n : q[i] <= b
           Bad == {n \in 0 .. Len(q) : ~Bounded(n)}
<1>1. DOMAIN q = 1 .. Len(q) /\ Len(q) \in Nat /\ \A i \in 1 .. Len(q) : q[i] \in Nat
  OBVIOUS
<1>2. Bounded(0)
  <2>1. \A i \in 1 .. 0 : q[i] <= 0
    OBVIOUS
  <2> QED BY <2>1
<1>3. ASSUME NEW n \in 1 .. Len(q), Bounded(n - 1) PROVE Bounded(n)
  <2>1. PICK b \in Nat : \A i \in 1 .. (n - 1) : q[i] <= b
    BY <1>3
  <2>2. q[n] \in Nat
    BY <1>1
  <2>3. ASSUME NEW i \in 1 .. n PROVE q[i] <= b + q[n]
    <3>1. q[i] \in Nat /\ (i = n \/ i \in 1 .. (n - 1))
      BY <1>1
    <3> QED BY <2>1, <2>2, <3>1
  <2>4. b + q[n] \in Nat
    BY <2>2
  <2> QED BY <2>3, <2>4
<1> HIDE DEF Bounded
<1>4. ASSUME Bad # {} PROVE FALSE
  <2>1. Bad \in SUBSET Nat
    BY <1>1
  <2>2. PICK n \in Bad : \A m \in Bad : n <= m
    BY <1>4, <2>1, LeastElement
  <2>3. n \in 1 .. Len(q)
    BY <1>1, <1>2
  <2>4. n - 1 \in 0 .. Len(q) /\ n - 1 \notin Bad
    BY <1>1, <2>2, <2>3
  <2> QED BY <1>3, <2>3, <2>4
<1>5. Bounded(Len(q))
  BY <1>1, <1>4
<1> QED BY <1>1, <1>5 DEF Bounded
-----------------------------------------------------------------------------
(* Types                                                                   *)

\* The parts of TypeOK.
Rows ==
  /\ alive \in BOOLEAN /\ turns \in Seq(Nat)
  /\ sums \in Seq(Summary) /\ dbTokens \in Nat
Hashes ==
  /\ meta \in Metadata
  /\ own \in [Actor -> Metadata] /\ hash \in [Summariser -> Metadata]
Control ==
  /\ holder \in Actor \cup {None} /\ live \in [Actor -> BOOLEAN]
  /\ pc \in [Actor -> TalkPcs \cup SumPcs] /\ faults \in Nat
History == adrift \in BOOLEAN
Texts ==
  /\ prev \in [Actor -> Summary] /\ draft \in [Summariser -> Summary]
  /\ prompt \in [Talker -> SUBSET Nat]
Types == Rows /\ Hashes /\ Control /\ History /\ Texts

LEMMA TypesAreAll == TypeOK <=> Types
BY DEF TypeOK, Types, Rows, Hashes, Control, History, Texts

\* Every message has a turn, and so has every summary (chat_history).
LEMMA RowsAre ==
  ASSUME Rows
  PROVE  /\ turns \in Seq(Nat) /\ Len(turns) \in Nat /\ DOMAIN turns = 1 .. Len(turns)
         /\ sums \in Seq(Summary) /\ Len(sums) \in Nat /\ DOMAIN sums = 1 .. Len(sums)
         /\ \A i \in DOMAIN turns : turns[i] \in Nat
         /\ \A i \in DOMAIN sums : sums[i] \in Summary /\ sums[i].turn \in Nat
<1>1. turns \in Seq(Nat) /\ sums \in Seq(Summary)
  BY DEF Rows
<1>2. /\ Len(turns) \in Nat /\ DOMAIN turns = 1 .. Len(turns)
      /\ \A i \in DOMAIN turns : turns[i] \in Nat
  BY <1>1
<1>3. /\ Len(sums) \in Nat /\ DOMAIN sums = 1 .. Len(sums)
      /\ \A i \in DOMAIN sums : sums[i] \in Summary
  BY <1>1
<1>4. \A v \in Summary : v.turn \in Nat
  BY DEF Summary
<1> QED BY <1>1, <1>2, <1>3, <1>4

\* The last turn is a number that no message and no summary exceeds (LastTurn,
\* AddChatMessage).
LEMMA LastTurnIsLast ==
  ASSUME Rows
  PROVE  /\ LastTurn \in Nat
         /\ \A i \in DOMAIN turns : turns[i] <= LastTurn
<1> DEFINE used == {turns[i] : i \in DOMAIN turns} \cup {sums[i].turn : i \in DOMAIN sums}
           last == [i \in DOMAIN sums |-> sums[i].turn]
<1>1. /\ turns \in Seq(Nat) /\ Len(sums) \in Nat /\ DOMAIN sums = 1 .. Len(sums)
      /\ \A i \in DOMAIN turns : turns[i] \in Nat
      /\ \A i \in DOMAIN sums : sums[i].turn \in Nat
  BY RowsAre
<1>2. /\ last \in Seq(Nat) /\ DOMAIN last = DOMAIN sums
      /\ \A i \in DOMAIN sums : last[i] = sums[i].turn
  <2>1. last \in [1 .. Len(sums) -> Nat]
    BY <1>1
  <2>2. last \in Seq(Nat)
    <3> HIDE DEF last
    <3> QED BY <1>1, <2>1, IsASeq
  <2> QED BY <2>2
<1> HIDE DEF last
<1>3. PICK b \in Nat : \A i \in DOMAIN turns : turns[i] <= b
  BY <1>1, BoundedSequence
<1>4. PICK c \in Nat : \A i \in DOMAIN last : last[i] <= c
  BY <1>2, BoundedSequence
<1>5. used \in SUBSET Nat
  BY <1>1
<1>6. \A n \in used : n <= b + c
  <2>1. \A i \in DOMAIN turns : turns[i] \in Nat /\ turns[i] <= b + c
    BY <1>1, <1>3
  <2>2. \A i \in DOMAIN sums : sums[i].turn \in Nat /\ sums[i].turn <= b + c
    BY <1>1, <1>2, <1>4
  <2> QED BY <2>1, <2>2
<1>7. \A i \in DOMAIN turns : turns[i] \in used
  OBVIOUS
<1>8. LastTurn = IF used = {} THEN 0 ELSE CHOOSE n \in used : \A m \in used : m <= n
  BY DEF LastTurn
<1> HIDE DEF used
<1>9. used # {} => \E n \in used : \A m \in used : m <= n
  <2>1. b + c \in Nat OBVIOUS
  <2> QED BY <1>5, <1>6, <2>1, GreatestElement
<1> QED BY <1>5, <1>7, <1>8, <1>9

LEMMA NewestType == ASSUME Rows PROVE Newest \in Summary
<1>1. NoSummary \in Summary
  BY DEF NoSummary, Summary
<1>2. CASE sums = <<>>
  BY <1>1, <1>2 DEF Newest
<1>3. CASE sums # <<>>
  <2>1. /\ sums \in Seq(Summary) /\ Len(sums) \in Nat
        /\ \A i \in 1 .. Len(sums) : sums[i] \in Summary
    BY RowsAre
  <2>2. Len(sums) # 0
    BY <1>3, <2>1, EmptySeq
  <2> QED BY <1>3, <2>1, <2>2 DEF Newest
<1> QED BY <1>2, <1>3

LEMMA AddChatMessageType ==
  ASSUME Rows, NEW byUser \in BOOLEAN, AddChatMessage(byUser)
  PROVE  turns' \in Seq(Nat)
BY LastTurnIsLast DEF Rows, AddChatMessage

\* What is cut off ends before the first message that is kept
\* (conversationSummaryCutoff).
LEMMA CutoffIsBeforeKept ==
  ASSUME Rows, NEW p \in Summary, NEW keep \in Nat \ {0},
         Cuttable(Uncovered(p), keep) # {}
  PROVE  /\ Cutoff(Uncovered(p), keep) \in Nat
         /\ \E i \in DOMAIN turns : turns[i] > Cutoff(Uncovered(p), keep)
<1> DEFINE records == Uncovered(p)
           kept == Kept(records, keep)
           cuttable == Cuttable(records, keep)
<1>1. /\ turns \in Seq(Nat) /\ Len(turns) \in Nat /\ DOMAIN turns = 1 .. Len(turns)
      /\ records \subseteq 1 .. Len(turns) /\ records \in SUBSET Nat
  BY DEF Rows, Uncovered
<1>2. records # {}
  BY DEF Cuttable
<1> HIDE DEF records
<1>3. PICK last \in records : \A j \in records : j <= last
  <2>1. \A j \in records : j <= Len(turns)
    BY <1>1
  <2> QED BY <1>1, <1>2, <2>1, GreatestElement
<1>4. last \in kept
  <2>0. \A j \in records : j >= last <=> j = last
    BY <1>1, <1>3
  <2>1. {j \in records : j >= last} = {last}
    BY <1>3, <2>0
  <2>2. Cardinality({j \in records : j >= last}) = 1
    BY <2>1, FS_Singleton
  <2> QED BY <1>3, <2>2 DEF Kept
<1>5. kept \in SUBSET Nat /\ kept \subseteq records
  BY <1>1 DEF Kept
<1>6. FirstKept(records, keep) \in kept
  <2>1. \E i \in kept : \A j \in kept : i <= j
    <3> HIDE DEF kept
    <3> QED BY <1>4, <1>5, LeastElement
  <2> QED BY <2>1 DEF FirstKept
<1> DEFINE first == FirstKept(records, keep)
<1>7. first \in DOMAIN turns /\ turns[first] \in Nat
  BY <1>1, <1>5, <1>6
<1>8. cuttable \in SUBSET Nat /\ \A n \in cuttable : n < turns[first]
  BY <1>1, <1>7 DEF Cuttable
<1>9. cuttable # {}
  BY DEF records
<1>10. Cutoff(records, keep) = CHOOSE n \in cuttable : \A m \in cuttable : m <= n
  BY DEF Cutoff
<1> HIDE DEF first, cuttable
<1>11. \E n \in cuttable : \A m \in cuttable : m <= n
  <2>1. \A n \in cuttable : n <= turns[first]
    BY <1>7, <1>8
  <2> QED BY <1>7, <1>8, <1>9, <2>1, GreatestElement
<1>12. Cutoff(records, keep) \in cuttable
  BY <1>10, <1>11
<1>13. Cutoff(records, keep) \in Nat /\ turns[first] > Cutoff(records, keep)
  BY <1>7, <1>8, <1>12
<1> QED BY <1>7, <1>13 DEF records

\* A new summary ends before the last message, and covers all that its base
\* covers and all messages after that up to its turn (generateSummary).
LEMMA DraftIsSound ==
  ASSUME Rows, Texts, NEW s \in Summariser, Summarise(s)
  PROVE  /\ draft'[s] \in Summary
         /\ \E i \in DOMAIN turns : turns[i] > draft'[s].turn
         /\ \A i \in DOMAIN turns :
              turns[i] <= draft'[s].turn /\ turns[i] > prev[s].turn
                => i \in draft'[s].covers
         /\ prev[s].covers \subseteq draft'[s].covers
<1> DEFINE records == Uncovered(prev[s])
<1>1. prev[s] \in Summary /\ draft \in [Summariser -> Summary]
  BY DEF Texts, Actor
<1>2. PICK large \in BOOLEAN :
        LET keep == IF large THEN KeepLarge ELSE Keep
            cut == Cutoff(records, keep)
        IN /\ Cuttable(records, keep) # {}
           /\ draft' = [draft EXCEPT ![s] =
                [turn |-> cut,
                 covers |-> prev[s].covers \cup {i \in records : turns[i] <= cut}]]
  BY DEF Summarise
<1> DEFINE keep == IF large THEN KeepLarge ELSE Keep
           cut == Cutoff(records, keep)
           new == [turn |-> cut,
                   covers |-> prev[s].covers \cup {i \in records : turns[i] <= cut}]
<1>3. keep \in Nat \ {0}
  BY ChatConstants
<1>4. Cuttable(records, keep) # {} /\ draft'[s] = new
  BY <1>1, <1>2
<1>5. cut \in Nat /\ \E i \in DOMAIN turns : turns[i] > cut
  <2> HIDE DEF keep
  <2> QED BY <1>1, <1>3, <1>4, CutoffIsBeforeKept
<1>6. /\ \A i \in DOMAIN turns : turns[i] \in Nat
      /\ records = {i \in DOMAIN turns : turns[i] > prev[s].turn}
      /\ records \in SUBSET Nat /\ prev[s].covers \in SUBSET Nat
  BY <1>1, RowsAre DEF Uncovered, Summary
<1> HIDE DEF records, cut
<1>7. new \in Summary
  BY <1>5, <1>6 DEF Summary
<1>8. new.turn = cut /\ new.covers = prev[s].covers \cup {i \in records : turns[i] <= cut}
  OBVIOUS
<1> HIDE DEF new
<1> QED BY <1>4, <1>5, <1>6, <1>7, <1>8

-----------------------------------------------------------------------------
(* Types are kept                                                          *)

\* Only messages, summaries, counted calls and a deletion change rows.
LEMMA RowsStep ==
  ASSUME Types, [Next]_vars
  PROVE  Rows'
<1>1. Rows /\ Hashes /\ Control /\ Texts
  BY DEF Types
<1>2. ASSUME NEW t \in Talker, Say(t) PROVE Rows'
  <2>1. turns' \in Seq(Nat)
    BY <1>1, <1>2, AddChatMessageType DEF Say, Rows
  <2> QED BY <1>1, <1>2, <2>1 DEF Rows, chat, local, Say
<1>3. ASSUME NEW t \in Talker, Resume(t) PROVE Rows'
  BY <1>1, <1>3 DEF Rows, chat, local, Resume
<1>4. ASSUME NEW t \in Talker, Answer(t) PROVE Rows'
  <2>1. turns' \in Seq(Nat)
    BY <1>1, <1>4, AddChatMessageType DEF Answer, Rows
  <2> QED BY <1>1, <1>4, <2>1 DEF Rows, chat, local, Answer
<1>5. ASSUME NEW s \in Summariser, InsertSummary(s) PROVE Rows'
  <2>1. sums \in Seq(Summary) /\ draft[s] \in Summary
    BY <1>1 DEF Rows, Texts
  <2>2. sums' \in Seq(Summary)
    BY <2>1, <1>5 DEF InsertSummary
  <2> QED BY <1>1, <1>5, <2>2 DEF Rows, chat, local, InsertSummary
<1>6. ASSUME NEW t \in Talker, CallModel(t) PROVE Rows'
  BY <1>1, <1>6 DEF Rows, chat, local, CallModel, Tried, CountInRow
<1>7. ASSUME NEW s \in Summariser, AddUsageDb(s) PROVE Rows'
  BY <1>1, <1>7 DEF Rows, chat, local, AddUsageDb, Tried, CountInRow
<1>8. ASSUME NEW t \in Talker,
             Begin(t) \/ RestoreUsage(t) \/ ReadApp(t) \/ WriteUsage(t) \/
             ReadSummary(t) \/ LoadPrompt(t) \/ CountUsage(t) \/
             TalkFails(t) \/ ReleaseLease(t) \/ MaybeSummarise(t)
      PROVE  Rows'
  BY <1>1, <1>8
     DEF Rows, chat, local, Begin, RestoreUsage, ReadApp, WriteUsage,
         ReadSummary, LoadPrompt, CountUsage, TalkFails, ReleaseLease,
         MaybeSummarise
<1>9. ASSUME NEW s \in Summariser,
             AcquireLease(s) \/ ReadMeta(s) \/ Mark(s) \/ ReadSummary(s) \/
             Summarise(s) \/ AddUsage(s) \/ WriteMeta(s) \/ ReadHash(s) \/
             WriteHash(s) \/ SummaryFails(s) \/ Unmark(s) \/
             ClearSummaryOwner(s) \/ ReleaseLease(s)
      PROVE  Rows'
  BY <1>1, <1>9
     DEF Rows, chat, local, AcquireLease, ReadMeta, Mark, ReadSummary,
         Summarise, AddUsage, WriteMeta, ReadHash, WriteHash, SummaryFails,
         Unmark, ClearSummaryOwner, ReleaseLease
<1>10. ASSUME NEW a \in Actor, CancelContext(a) PROVE Rows'
  BY <1>1, <1>10 DEF Rows, chat, local, CancelContext, Fault
<1>11. ASSUME DeleteApp PROVE Rows'
  <2>1. <<>> \in Seq(Nat) /\ <<>> \in Seq(Summary)
    OBVIOUS
  <2> QED BY <1>1, <1>11, <2>1 DEF Rows, DeleteApp
<1>12. ASSUME Expire PROVE Rows'
  BY <1>1, <1>12 DEF Rows, chat, local, Expire, Fault
<1>13. ASSUME LoseLease PROVE Rows'
  BY <1>1, <1>13 DEF Rows, chat, local, LoseLease, Fault
<1>14. ASSUME Crash PROVE Rows'
  BY <1>1, <1>14 DEF Rows, chat, local, Crash, Fault
<1>15. CASE UNCHANGED vars
  BY <1>1, <1>15 DEF Rows, vars, chat, local
<1> QED
  BY <1>2, <1>3, <1>4, <1>5, <1>6, <1>7, <1>8, <1>9, <1>10, <1>11, <1>12,
     <1>13, <1>14, <1>15
     DEF Next, TalkStep, SummaryStep

\* The hash and the copies of it keep their fields.
LEMMA HashesStep ==
  ASSUME Types, [Next]_vars
  PROVE  Hashes'
<1>1. Rows /\ Hashes /\ Control /\ Texts
  BY DEF Types
<1>2. ASSUME NEW t \in Talker, CountUsage(t) PROVE Hashes'
  <2>1. meta \in Metadata /\ (meta' = [meta EXCEPT !.tokens = @ + 1] \/ meta' = meta)
    BY <1>1, <1>2 DEF Hashes, CountUsage, Tried, CountInHash
  <2>2. meta' \in Metadata
    BY <2>1 DEF Metadata
  <2> QED BY <1>1, <1>2, <2>2 DEF Hashes, chat, local, CountUsage
<1>3. ASSUME NEW t \in Talker, ReadApp(t) PROVE Hashes'
  <2>1. /\ own[t] \in Metadata /\ dbTokens \in Nat
        /\ own' = [own EXCEPT ![t] = [own[t] EXCEPT !.tokens = dbTokens]]
    BY <1>1, <1>3 DEF Hashes, Rows, Actor, ReadApp
  <2>2. [own[t] EXCEPT !.tokens = dbTokens] \in Metadata
    BY <2>1 DEF Metadata
  <2> QED BY <1>1, <1>3, <2>1, <2>2 DEF Hashes, Actor, chat, ReadApp
<1>4. ASSUME NEW s \in Summariser, AddUsage(s) PROVE Hashes'
  <2>1. /\ meta \in Metadata
        /\ meta' = [meta EXCEPT !.tokens = @ + 1] \/ meta' = meta
        /\ own[s] \in Metadata
        /\ own' = [own EXCEPT ![s] = [own[s] EXCEPT !.tokens = @ + 1]]
    BY <1>1, <1>4 DEF Hashes, Actor, AddUsage, Tried, CountInHash
  <2>2. meta' \in Metadata /\ [own[s] EXCEPT !.tokens = @ + 1] \in Metadata
    BY <2>1 DEF Metadata
  <2> QED BY <1>1, <1>4, <2>1, <2>2 DEF Hashes, Actor, chat, AddUsage
<1>5. ASSUME NEW t \in Talker, RestoreUsage(t) PROVE Hashes'
  BY <1>1, <1>5 DEF Hashes, chat, local, Actor, Metadata, Blank, RestoreUsage
<1>6. ASSUME NEW t \in Talker, WriteUsage(t) PROVE Hashes'
  BY <1>1, <1>6 DEF Hashes, chat, local, Actor, Metadata, Blank, WriteUsage
<1>7. ASSUME NEW t \in Talker, ReleaseLease(t) PROVE Hashes'
  BY <1>1, <1>7 DEF Hashes, chat, local, Actor, Metadata, Blank, ReleaseLease
<1>8. ASSUME NEW s \in Summariser, ReadMeta(s) PROVE Hashes'
  BY <1>1, <1>8 DEF Hashes, chat, local, Actor, Metadata, Blank, ReadMeta
<1>9. ASSUME NEW s \in Summariser, Mark(s) PROVE Hashes'
  BY <1>1, <1>9 DEF Hashes, chat, local, Actor, Metadata, Blank, Mark
<1>10. ASSUME NEW s \in Summariser, WriteMeta(s) PROVE Hashes'
  BY <1>1, <1>10 DEF Hashes, chat, local, Actor, Metadata, Blank, WriteMeta
<1>11. ASSUME NEW s \in Summariser, ReadHash(s) PROVE Hashes'
  BY <1>1, <1>11 DEF Hashes, chat, local, Actor, Metadata, Blank, ReadHash
<1>12. ASSUME NEW s \in Summariser, WriteHash(s) PROVE Hashes'
  BY <1>1, <1>12 DEF Hashes, chat, local, Actor, Metadata, Blank, WriteHash
<1>13. ASSUME NEW s \in Summariser, SummaryFails(s) PROVE Hashes'
  BY <1>1, <1>13
     DEF Hashes, chat, local, Actor, Metadata, Blank, SummaryFails
<1>14. ASSUME NEW s \in Summariser, Unmark(s) PROVE Hashes'
  BY <1>1, <1>14 DEF Hashes, chat, local, Actor, Metadata, Blank, Unmark
<1>15. ASSUME NEW s \in Summariser, ClearSummaryOwner(s) PROVE Hashes'
  BY <1>1, <1>15
     DEF Hashes, chat, local, Actor, Metadata, Blank, ClearSummaryOwner
<1>16. ASSUME NEW s \in Summariser, ReleaseLease(s) PROVE Hashes'
  BY <1>1, <1>16
     DEF Hashes, chat, local, Actor, Metadata, Blank, ReleaseLease
<1>17. ASSUME NEW t \in Talker,
             Begin(t) \/ Resume(t) \/ Say(t) \/ ReadSummary(t) \/
             LoadPrompt(t) \/ CallModel(t) \/ Answer(t) \/ TalkFails(t) \/
             MaybeSummarise(t)
      PROVE  Hashes'
  BY <1>1, <1>17
     DEF Hashes, chat, local, Begin, Resume, Say, ReadSummary, LoadPrompt,
         CallModel, Answer, TalkFails, MaybeSummarise
<1>18. ASSUME NEW s \in Summariser,
             AcquireLease(s) \/ ReadSummary(s) \/ Summarise(s) \/
             InsertSummary(s) \/ AddUsageDb(s)
      PROVE  Hashes'
  BY <1>1, <1>18
     DEF Hashes, chat, local, AcquireLease, ReadSummary, Summarise,
         InsertSummary, AddUsageDb
<1>19. ASSUME NEW a \in Actor, CancelContext(a) PROVE Hashes'
  BY <1>1, <1>19
     DEF Hashes, chat, local, Actor, Metadata, Blank, CancelContext, Fault
<1>20. ASSUME DeleteApp PROVE Hashes'
  BY <1>1, <1>20 DEF Hashes, chat, local, Actor, Metadata, Blank, DeleteApp
<1>21. ASSUME Expire PROVE Hashes'
  BY <1>1, <1>21
     DEF Hashes, chat, local, Actor, Metadata, Blank, Expire, Fault
<1>22. ASSUME LoseLease PROVE Hashes'
  BY <1>1, <1>22
     DEF Hashes, chat, local, Actor, Metadata, Blank, LoseLease, Fault
<1>23. ASSUME Crash PROVE Hashes'
  BY <1>1, <1>23
     DEF Hashes, chat, local, Actor, Metadata, Blank, Crash, Fault
<1>24. CASE UNCHANGED vars
  BY <1>1, <1>24 DEF Hashes, vars, chat, local
<1> QED
  BY <1>2, <1>3, <1>4, <1>5, <1>6, <1>7, <1>8, <1>9, <1>10, <1>11, <1>12,
     <1>13, <1>14, <1>15, <1>16, <1>17, <1>18, <1>19, <1>20, <1>21, <1>22,
     <1>23, <1>24
     DEF Next, TalkStep, SummaryStep

\* Every step leads to a step of the program.
LEMMA ControlStep ==
  ASSUME Types, [Next]_vars
  PROVE  Control'
<1>1. Rows /\ Hashes /\ Control /\ Texts
  BY DEF Types
<1>2. ASSUME NEW t \in Talker, Begin(t) PROVE Control'
  BY <1>1, <1>2 DEF Control, chat, local, Goto, Actor, TalkPcs, SumPcs, Begin
<1>3. ASSUME NEW t \in Talker, Say(t) PROVE Control'
  BY <1>1, <1>3 DEF Control, chat, local, Goto, Actor, TalkPcs, SumPcs, Say
<1>4. ASSUME NEW t \in Talker, Resume(t) PROVE Control'
  BY <1>1, <1>4
     DEF Control, chat, local, Goto, Actor, TalkPcs, SumPcs, Resume
<1>5. ASSUME NEW t \in Talker, RestoreUsage(t) PROVE Control'
  BY <1>1, <1>5
     DEF Control, chat, local, Goto, Actor, TalkPcs, SumPcs, RestoreUsage
<1>6. ASSUME NEW t \in Talker, ReadApp(t) PROVE Control'
  BY <1>1, <1>6
     DEF Control, chat, local, Goto, Actor, TalkPcs, SumPcs, ReadApp
<1>7. ASSUME NEW t \in Talker, WriteUsage(t) PROVE Control'
  BY <1>1, <1>7
     DEF Control, chat, local, Goto, Actor, TalkPcs, SumPcs, WriteUsage
<1>8. ASSUME NEW t \in Talker, ReadSummary(t) PROVE Control'
  BY <1>1, <1>8
     DEF Control, chat, local, Goto, Actor, TalkPcs, SumPcs, ReadSummary
<1>9. ASSUME NEW t \in Talker, LoadPrompt(t) PROVE Control'
  BY <1>1, <1>9
     DEF Control, chat, local, Goto, Actor, TalkPcs, SumPcs, LoadPrompt
<1>10. ASSUME NEW t \in Talker, CallModel(t) PROVE Control'
  BY <1>1, <1>10
     DEF Control, chat, local, Goto, Actor, TalkPcs, SumPcs, CallModel,
         Tried, Fault
<1>11. ASSUME NEW t \in Talker, CountUsage(t) PROVE Control'
  BY <1>1, <1>11
     DEF Control, chat, local, Goto, Actor, TalkPcs, SumPcs, CountUsage,
         Tried, Fault
<1>12. ASSUME NEW t \in Talker, Answer(t) PROVE Control'
  BY <1>1, <1>12
     DEF Control, chat, local, Goto, Actor, TalkPcs, SumPcs, Answer
<1>13. ASSUME NEW t \in Talker, TalkFails(t) PROVE Control'
  BY <1>1, <1>13
     DEF Control, chat, local, Goto, Actor, TalkPcs, SumPcs, TalkFails
<1>14. ASSUME NEW t \in Talker, ReleaseLease(t) PROVE Control'
  BY <1>1, <1>14
     DEF Control, chat, local, Goto, Actor, TalkPcs, SumPcs, ReleaseLease
<1>15. ASSUME NEW t \in Talker, MaybeSummarise(t) PROVE Control'
  BY <1>1, <1>15
     DEF Control, chat, local, Goto, Actor, TalkPcs, SumPcs, MaybeSummarise
<1>17. ASSUME NEW s \in Summariser, AcquireLease(s) PROVE Control'
  BY <1>1, <1>17
     DEF Control, chat, local, Goto, Actor, TalkPcs, SumPcs, AcquireLease
<1>18. ASSUME NEW s \in Summariser, ReadMeta(s) PROVE Control'
  BY <1>1, <1>18
     DEF Control, chat, local, Goto, Actor, TalkPcs, SumPcs, ReadMeta
<1>19. ASSUME NEW s \in Summariser, Mark(s) PROVE Control'
  BY <1>1, <1>19 DEF Control, chat, local, Goto, Actor, TalkPcs, SumPcs, Mark
<1>20. ASSUME NEW s \in Summariser, ReadSummary(s) PROVE Control'
  BY <1>1, <1>20
     DEF Control, chat, local, Goto, Actor, TalkPcs, SumPcs, ReadSummary
<1>21. ASSUME NEW s \in Summariser, Summarise(s) PROVE Control'
  BY <1>1, <1>21
     DEF Control, chat, local, Goto, Actor, TalkPcs, SumPcs, Summarise
<1>22. ASSUME NEW s \in Summariser, InsertSummary(s) PROVE Control'
  BY <1>1, <1>22
     DEF Control, chat, local, Goto, Actor, TalkPcs, SumPcs, InsertSummary
<1>23. ASSUME NEW s \in Summariser, AddUsage(s) PROVE Control'
  BY <1>1, <1>23
     DEF Control, chat, local, Goto, Actor, TalkPcs, SumPcs, AddUsage,
         Tried, Fault
<1>24. ASSUME NEW s \in Summariser, AddUsageDb(s) PROVE Control'
  BY <1>1, <1>24
     DEF Control, chat, local, Goto, Actor, TalkPcs, SumPcs, AddUsageDb,
         Tried, Fault
<1>25. ASSUME NEW s \in Summariser, WriteMeta(s) PROVE Control'
  BY <1>1, <1>25
     DEF Control, chat, local, Goto, Actor, TalkPcs, SumPcs, WriteMeta
<1>26. ASSUME NEW s \in Summariser, ReadHash(s) PROVE Control'
  BY <1>1, <1>26
     DEF Control, chat, local, Goto, Actor, TalkPcs, SumPcs, ReadHash
<1>27. ASSUME NEW s \in Summariser, WriteHash(s) PROVE Control'
  BY <1>1, <1>27
     DEF Control, chat, local, Goto, Actor, TalkPcs, SumPcs, WriteHash
<1>28. ASSUME NEW s \in Summariser, SummaryFails(s) PROVE Control'
  BY <1>1, <1>28
     DEF Control, chat, local, Goto, Actor, TalkPcs, SumPcs, SummaryFails
<1>29. ASSUME NEW s \in Summariser, Unmark(s) PROVE Control'
  BY <1>1, <1>29
     DEF Control, chat, local, Goto, Actor, TalkPcs, SumPcs, Unmark
<1>30. ASSUME NEW s \in Summariser, ClearSummaryOwner(s) PROVE Control'
  BY <1>1, <1>30
     DEF Control, chat, local, Goto, Actor, TalkPcs, SumPcs, ClearSummaryOwner
<1>31. ASSUME NEW s \in Summariser, ReleaseLease(s) PROVE Control'
  BY <1>1, <1>31
     DEF Control, chat, local, Goto, Actor, TalkPcs, SumPcs, ReleaseLease
<1>32. ASSUME NEW a \in Actor, CancelContext(a) PROVE Control'
  BY <1>1, <1>32
     DEF Control, chat, local, Goto, Actor, TalkPcs, SumPcs, CancelContext,
         Fault
<1>33. ASSUME DeleteApp PROVE Control'
  BY <1>1, <1>33
     DEF Control, chat, local, Goto, Actor, TalkPcs, SumPcs, DeleteApp
<1>34. ASSUME Expire PROVE Control'
  BY <1>1, <1>34
     DEF Control, chat, local, Goto, Actor, TalkPcs, SumPcs, Expire, Fault
<1>35. ASSUME LoseLease PROVE Control'
  BY <1>1, <1>35
     DEF Control, chat, local, Goto, Actor, TalkPcs, SumPcs, LoseLease, Fault
<1>36. ASSUME Crash PROVE Control'
  BY <1>1, <1>36
     DEF Control, chat, local, Goto, Actor, TalkPcs, SumPcs, Crash, Fault
<1>37. CASE UNCHANGED vars
  BY <1>1, <1>37 DEF Control, vars, chat, local
<1> QED
  BY <1>2, <1>3, <1>4, <1>5, <1>6, <1>7, <1>8, <1>9, <1>10, <1>11, <1>12,
     <1>13, <1>14, <1>15, <1>17, <1>18, <1>19, <1>20, <1>21, <1>22, <1>23,
     <1>24, <1>25, <1>26, <1>27, <1>28, <1>29, <1>30, <1>31, <1>32,
     <1>33, <1>34, <1>35, <1>36, <1>37
     DEF Next, TalkStep, SummaryStep

\* What is read, drafted and given to the model stays made of messages.
LEMMA TextsStep ==
  ASSUME Types, [Next]_vars
  PROVE  Texts'
<1>1. Rows /\ Hashes /\ Control /\ Texts
  BY DEF Types
<1>2. ASSUME NEW t \in Talker, ReadSummary(t) PROVE Texts'
  <2>1. Newest \in Summary
    BY <1>1, NewestType
  <2> QED BY <1>1, <1>2, <2>1 DEF Texts, chat, ReadSummary
<1>3. ASSUME NEW t \in Talker, LoadPrompt(t) PROVE Texts'
  <2>1. Uncovered(prev[t]) \subseteq Nat
    BY <1>1, RowsAre DEF Uncovered
  <2>2. prev[t] \in Summary
    BY <1>1 DEF Texts, Actor
  <2>3. prev[t].covers \subseteq Nat
    BY <2>2 DEF Summary
  <2> QED
    BY <1>1, <1>3, <2>1, <2>3 DEF Texts, chat, Actor, Summary, NoSummary, LoadPrompt
<1>4. ASSUME NEW s \in Summariser, ReadSummary(s) PROVE Texts'
  <2>1. Newest \in Summary
    BY <1>1, NewestType
  <2> QED BY <1>1, <1>4, <2>1 DEF Texts, chat, ReadSummary
<1>5. ASSUME NEW s \in Summariser, Summarise(s) PROVE Texts'
  <2>1. prev[s] \in Summary
    BY <1>1 DEF Texts, Actor
  <2>2. draft'[s] \in Summary
    BY <1>1, <1>5, <2>1, DraftIsSound
  <2> QED BY <1>1, <1>5, <2>2 DEF Texts, chat, Actor, Summary, NoSummary, Summarise
<1>6. ASSUME NEW t \in Talker, CallModel(t) PROVE Texts'
  BY <1>1, <1>6 DEF Texts, chat, local, Actor, Summary, NoSummary, CallModel
<1>7. ASSUME NEW t \in Talker, TalkFails(t) PROVE Texts'
  BY <1>1, <1>7 DEF Texts, chat, local, Actor, Summary, NoSummary, TalkFails
<1>8. ASSUME NEW t \in Talker, ReleaseLease(t) PROVE Texts'
  BY <1>1, <1>8
     DEF Texts, chat, local, Actor, Summary, NoSummary, ReleaseLease
<1>9. ASSUME NEW s \in Summariser, InsertSummary(s) PROVE Texts'
  BY <1>1, <1>9
     DEF Texts, chat, local, Actor, Summary, NoSummary, InsertSummary
<1>10. ASSUME NEW s \in Summariser, SummaryFails(s) PROVE Texts'
  BY <1>1, <1>10
     DEF Texts, chat, local, Actor, Summary, NoSummary, SummaryFails
<1>11. ASSUME NEW s \in Summariser, ReleaseLease(s) PROVE Texts'
  BY <1>1, <1>11
     DEF Texts, chat, local, Actor, Summary, NoSummary, ReleaseLease
<1>12. ASSUME NEW t \in Talker,
             Begin(t) \/ Resume(t) \/ Say(t) \/ RestoreUsage(t) \/
             ReadApp(t) \/ WriteUsage(t) \/ CountUsage(t) \/ Answer(t) \/
             MaybeSummarise(t)
      PROVE  Texts'
  BY <1>1, <1>12
     DEF Texts, chat, local, Begin, Resume, Say, RestoreUsage, ReadApp,
         WriteUsage, CountUsage, Answer, MaybeSummarise
<1>13. ASSUME NEW s \in Summariser,
             AcquireLease(s) \/ ReadMeta(s) \/ Mark(s) \/ AddUsage(s) \/
             AddUsageDb(s) \/ WriteMeta(s) \/ ReadHash(s) \/ WriteHash(s) \/
             Unmark(s) \/ ClearSummaryOwner(s)
      PROVE  Texts'
  BY <1>1, <1>13
     DEF Texts, chat, local, AcquireLease, ReadMeta, Mark, AddUsage,
         AddUsageDb, WriteMeta, ReadHash, WriteHash, Unmark, ClearSummaryOwner
<1>14. ASSUME NEW a \in Actor, CancelContext(a) PROVE Texts'
  BY <1>1, <1>14
     DEF Texts, chat, local, Actor, Summary, NoSummary, CancelContext, Fault
<1>15. ASSUME DeleteApp PROVE Texts'
  BY <1>1, <1>15 DEF Texts, chat, local, Actor, Summary, NoSummary, DeleteApp
<1>16. ASSUME Expire PROVE Texts'
  BY <1>1, <1>16
     DEF Texts, chat, local, Actor, Summary, NoSummary, Expire, Fault
<1>17. ASSUME LoseLease PROVE Texts'
  BY <1>1, <1>17
     DEF Texts, chat, local, Actor, Summary, NoSummary, LoseLease, Fault
<1>18. ASSUME Crash PROVE Texts'
  BY <1>1, <1>18
     DEF Texts, chat, local, Actor, Summary, NoSummary, Crash, Fault
<1>19. CASE UNCHANGED vars
  BY <1>1, <1>19 DEF Texts, vars, chat, local
<1> QED
  BY <1>2, <1>3, <1>4, <1>5, <1>6, <1>7, <1>8, <1>9, <1>10, <1>11, <1>12,
     <1>13, <1>14, <1>15, <1>16, <1>17, <1>18, <1>19
     DEF Next, TalkStep, SummaryStep

\* The history variable is true or false.
LEMMA HistoryStep ==
  ASSUME Types, [Next]_vars
  PROVE  History'
<1>1. adrift \in BOOLEAN
  BY DEF Types, History
<1>2. \/ UNCHANGED adrift \/ \E t \in Talker : Resume(t)
      \/ Expire \/ LoseLease
  BY DEF Next, TalkStep, SummaryStep, CancelContext, DeleteApp, Crash, vars
<1>3. \A t \in Talker : Resume(t) => adrift' \in BOOLEAN
  <2> SUFFICES ASSUME NEW t \in Talker, Resume(t) PROVE adrift' \in BOOLEAN
    OBVIOUS
  <2>1. adrift' = (adrift \/ (meta = Blank /\ dbTokens > 0))
    BY DEF Resume
  <2> QED BY <2>1
<1>4. (Expire => adrift' = FALSE) /\ (LoseLease => adrift' = TRUE)
  BY DEF Expire, LoseLease
<1> QED BY <1>1, <1>2, <1>3, <1>4 DEF History

\* Everything starts empty.
LEMMA InitTypes == Init => Types
<1> SUFFICES ASSUME Init PROVE Types
  OBVIOUS
<1>1. <<>> \in Seq(Nat) /\ <<>> \in Seq(Summary)
  OBVIOUS
<1>2. Rows
  BY <1>1 DEF Init, Rows
<1>3. Hashes
  BY DEF Init, Hashes, Blank, Metadata
<1>4. Control
  BY DEF Init, Control, TalkPcs, SumPcs
<1>5. Texts
  BY DEF Init, Texts, NoSummary, Summary
<1>6. History
  BY DEF Init, History
<1> QED BY <1>2, <1>3, <1>4, <1>5, <1>6 DEF Types

\* The types of the chat history hold in every state.
THEOREM TypeCorrect == Spec => []TypeOK
<1>1. Types /\ [Next]_vars => Types'
  BY RowsStep, HashesStep, ControlStep, HistoryStep, TextsStep DEF Types
<1> QED BY <1>1, InitTypes, TypesAreAll, PTL DEF Spec

-----------------------------------------------------------------------------
(* Nothing is missing                                                      *)

\* A text is sound when it covers the conversation up to its turn, and that
\* turn is over: a later one has begun, or the first has not.
Sound(v) ==
  IF turns = <<>> THEN alive => v.turn = 0
  ELSE Complete(v) /\ \E i \in DOMAIN turns : turns[i] > v.turn

\* The texts that may still be read or saved.
Known == {NoSummary} \cup {sums[i] : i \in DOMAIN sums}
           \cup {prev[a] : a \in Actor} \cup {draft[s] : s \in Summariser}

\* Between its question and its answer, a request has been heard.
Spoken == {"restore", "readApp", "writeUsage", "summary", "records", "model",
           "count", "answer"}
Heard == alive => \A t \in Talker : pc[t] \in Spoken => turns # <<>>

IInv == Types /\ Heard /\ \A v \in Known : Sound(v)

LEMMA KnownTypes == ASSUME Types PROVE \A v \in Known : v \in Summary
<1>1. \A i \in DOMAIN sums : sums[i] \in Summary
  BY RowsAre DEF Types
<1>2. \A a \in Actor : prev[a] \in Summary
  BY DEF Types, Texts
<1>3. \A s \in Summariser : draft[s] \in Summary
  BY DEF Types, Texts
<1>4. NoSummary \in Summary
  BY DEF NoSummary, Summary
<1> QED BY <1>1, <1>2, <1>3, <1>4 DEF Known

\* A message is added to a conversation in which every known text is sound: its
\* turn comes after theirs (AddChatMessage).
LEMMA AddedKeepsSound ==
  ASSUME Rows, NEW v \in Summary, Sound(v), alive, alive',
         NEW byUser \in BOOLEAN, AddChatMessage(byUser),
         byUser \/ turns # <<>>
  PROVE  Sound(v)' /\ turns' # <<>>
<1> DEFINE n == IF byUser THEN LastTurn + 1 ELSE LastTurn
           k == Len(turns) + 1
<1>1. /\ turns \in Seq(Nat) /\ Len(turns) \in Nat /\ DOMAIN turns = 1 .. Len(turns)
      /\ \A i \in DOMAIN turns : turns[i] \in Nat
  BY RowsAre
<1>2. LastTurn \in Nat /\ \A i \in DOMAIN turns : turns[i] <= LastTurn
  BY LastTurnIsLast
<1>3. n \in Nat /\ turns' = Append(turns, n)
  BY <1>2 DEF AddChatMessage
<1>4. v.turn \in Nat
  BY DEF Summary
<1>5. n > v.turn
  <2>1. CASE turns = <<>>
    <3>1. v.turn = 0 /\ n = LastTurn + 1
      BY <2>1 DEF Sound
    <3> QED BY <1>2, <3>1
  <2>2. CASE turns # <<>>
    <3>1. PICK i \in DOMAIN turns : turns[i] > v.turn
      BY <2>2 DEF Sound
    <3>2. turns[i] \in Nat /\ turns[i] <= LastTurn
      BY <1>1, <1>2, <3>1
    <3>3. LastTurn > v.turn
      BY <1>2, <1>4, <3>1, <3>2
    <3> QED BY <1>2, <1>4, <3>3
  <2> QED BY <2>1, <2>2
<1> HIDE DEF n
<1>6. /\ DOMAIN turns' = 1 .. k /\ k \in 1 .. k /\ turns'[k] = n
      /\ \A i \in DOMAIN turns : turns'[i] = turns[i] /\ i \in Nat
      /\ \A i \in 1 .. k : i = k \/ i \in DOMAIN turns
  BY <1>1, <1>3
<1>7. turns' # <<>>
  BY <1>1, <1>6
<1>8. ASSUME NEW i \in 1 .. k, turns'[i] <= v.turn PROVE i \in v.covers
  <2>1. i \in DOMAIN turns /\ turns[i] <= v.turn
    BY <1>3, <1>4, <1>5, <1>6, <1>8
  <2>2. turns # <<>>
    BY <1>1, <2>1
  <2> QED BY <2>1, <2>2 DEF Sound, Complete
<1> QED BY <1>5, <1>6, <1>7, <1>8 DEF Sound, Complete

\* Whatever happens to the conversation, a known text stays sound.
LEMMA SoundStep ==
  ASSUME IInv, [Next]_vars, NEW v \in Summary, Sound(v)
  PROVE  Sound(v)'
<1>1. Rows /\ Heard
  BY DEF IInv, Types
<1>2. ASSUME NEW t \in Talker, Say(t) PROVE Sound(v)'
  <2>1. CASE alive /\ AddChatMessage(TRUE)
    <3>1. alive'
      BY <1>2, <2>1 DEF Say
    <3> QED BY <1>1, <2>1, <3>1, AddedKeepsSound
  <2>2. CASE ~alive /\ UNCHANGED <<turns, alive>>
    BY <2>2 DEF Sound, Complete
  <2> QED BY <1>2, <2>1, <2>2 DEF Say
<1>3. ASSUME NEW t \in Talker, Answer(t) PROVE Sound(v)'
  <2>1. CASE alive /\ AddChatMessage(FALSE)
    <3>1. alive' /\ turns # <<>>
      BY <1>1, <1>3, <2>1 DEF Answer, Heard, Spoken
    <3> QED BY <1>1, <2>1, <3>1, AddedKeepsSound
  <2>2. CASE ~alive /\ UNCHANGED <<turns, alive>>
    BY <2>2 DEF Sound, Complete
  <2> QED BY <1>3, <2>1, <2>2 DEF Answer
<1>4. ASSUME DeleteApp PROVE Sound(v)'
  BY <1>4 DEF DeleteApp, Sound
<1>5. CASE UNCHANGED <<turns, alive>>
  BY <1>5 DEF Sound, Complete
<1>6. ASSUME NEW t \in Talker, TalkStep(t)
      PROVE  Say(t) \/ Answer(t) \/ UNCHANGED <<turns, alive>>
  BY <1>6
     DEF TalkStep, chat, Begin, Resume, RestoreUsage, ReadApp, WriteUsage,
         ReadSummary, LoadPrompt, CallModel, CountUsage, TalkFails, ReleaseLease,
         MaybeSummarise
<1>7. ASSUME NEW s \in Summariser, SummaryStep(s) PROVE UNCHANGED <<turns, alive>>
  BY <1>7
     DEF SummaryStep, chat, AcquireLease, ReadMeta, Mark, ReadSummary, Summarise,
         InsertSummary, AddUsage, AddUsageDb, WriteMeta, ReadHash, WriteHash,
         SummaryFails, Unmark, ClearSummaryOwner, ReleaseLease
<1>8. ASSUME (\E a \in Actor : CancelContext(a)) \/ Expire \/ LoseLease \/ Crash
               \/ UNCHANGED vars
      PROVE  UNCHANGED <<turns, alive>>
  BY <1>8 DEF CancelContext, Expire, LoseLease, Crash, vars, chat
<1> QED BY <1>2, <1>3, <1>4, <1>5, <1>6, <1>7, <1>8 DEF Next

\* A text that becomes known and was not is a new draft of generateSummary.
LEMMA KnownStep ==
  ASSUME Types, [Next]_vars, NEW v \in Known'
  PROVE  v \in Known \/ \E s \in Summariser : Summarise(s) /\ v = draft'[s]
<1> DEFINE Old == v \in Known
           New == \E s \in Summariser : Summarise(s) /\ v = draft'[s]
<1>1. /\ sums \in Seq(Summary) /\ Len(sums) \in Nat /\ DOMAIN sums = 1 .. Len(sums)
      /\ prev \in [Actor -> Summary] /\ draft \in [Summariser -> Summary]
  BY RowsAre DEF Types, Texts
<1>2. Newest \in Known
  <2>1. CASE sums = <<>>
    BY <2>1 DEF Newest, Known
  <2>2. CASE sums # <<>>
    <3>1. Len(sums) \in DOMAIN sums
      BY <1>1, <2>2, EmptySeq
    <3> QED BY <2>2, <3>1 DEF Newest, Known
  <2> QED BY <2>1, <2>2
<1>3. ASSUME UNCHANGED <<sums, prev, draft>> PROVE Old
  BY <1>3 DEF Known
<1>4. ASSUME NEW a \in Actor, ReadSummary(a) PROVE Old
  <2>1. \A b \in Actor : prev'[b] \in {Newest, prev[b]}
    BY <1>1, <1>4 DEF ReadSummary
  <2>2. UNCHANGED <<sums, draft>>
    BY <1>4 DEF ReadSummary, chat
  <2> QED BY <1>2, <2>1, <2>2 DEF Known
<1>5. ASSUME NEW t \in Talker, LoadPrompt(t) PROVE Old
  <2>1. \A b \in Actor : prev'[b] \in {NoSummary, prev[b]}
    BY <1>1, <1>5 DEF LoadPrompt
  <2>2. UNCHANGED <<sums, draft>>
    BY <1>5 DEF LoadPrompt, chat
  <2> QED BY <2>1, <2>2 DEF Known
<1>6. ASSUME NEW a \in Actor, ReleaseLease(a) PROVE Old
  <2>1. \A b \in Actor : prev'[b] \in {NoSummary, prev[b]}
    BY <1>1, <1>6 DEF ReleaseLease
  <2>2. \A b \in Summariser : draft'[b] \in {NoSummary, draft[b]}
    BY <1>6 DEF ReleaseLease
  <2>3. UNCHANGED sums
    BY <1>6 DEF ReleaseLease, chat
  <2> QED BY <2>1, <2>2, <2>3 DEF Known
<1>7. ASSUME NEW s \in Summariser, Summarise(s) PROVE Old \/ New
  <2>1. \A b \in Actor : prev'[b] \in {NoSummary, prev[b]}
    BY <1>1, <1>7 DEF Summarise
  <2>2. \A b \in Summariser : b = s \/ draft'[b] = draft[b]
    BY <1>1, <1>7 DEF Summarise
  <2>3. UNCHANGED sums
    BY <1>7 DEF Summarise, chat
  <2> QED BY <1>7, <2>1, <2>2, <2>3 DEF Known
<1>8. ASSUME NEW s \in Summariser, InsertSummary(s) PROVE Old
  <2>1. draft[s] \in Summary /\ sums' = Append(sums, draft[s])
    BY <1>1, <1>8 DEF InsertSummary
  <2>2. \A i \in DOMAIN sums' :
          sums'[i] = draft[s] \/ (i \in DOMAIN sums /\ sums'[i] = sums[i])
    BY <1>1, <2>1
  <2>3. \A b \in Summariser : draft'[b] \in {NoSummary, draft[b]}
    BY <1>1, <1>8 DEF InsertSummary
  <2>4. UNCHANGED prev
    BY <1>8 DEF InsertSummary
  <2> QED BY <2>2, <2>3, <2>4 DEF Known
<1>9. ASSUME NEW s \in Summariser, SummaryFails(s) PROVE Old
  <2>1. \A b \in Actor : prev'[b] \in {NoSummary, prev[b]}
    BY <1>1, <1>9 DEF SummaryFails
  <2>2. \A b \in Summariser : draft'[b] \in {NoSummary, draft[b]}
    BY <1>1, <1>9 DEF SummaryFails
  <2>3. UNCHANGED sums
    BY <1>9 DEF SummaryFails, chat
  <2> QED BY <2>1, <2>2, <2>3 DEF Known
<1>10. ASSUME DeleteApp PROVE Old
  BY <1>10 DEF DeleteApp, local, Known
<1>11. ASSUME Crash PROVE Old
  BY <1>11 DEF Crash, chat, Known
<1>12. ASSUME NEW t \in Talker, TalkStep(t)
       PROVE  \/ ReadSummary(t) \/ LoadPrompt(t) \/ ReleaseLease(t)
              \/ UNCHANGED <<sums, prev, draft>>
  BY <1>12
     DEF TalkStep, chat, local, Begin, Resume, Say, RestoreUsage, ReadApp,
         WriteUsage, CallModel, CountUsage, Answer, TalkFails, MaybeSummarise
<1>13. ASSUME NEW s \in Summariser, SummaryStep(s)
       PROVE  \/ ReadSummary(s) \/ Summarise(s) \/ InsertSummary(s)
              \/ SummaryFails(s) \/ ReleaseLease(s)
              \/ UNCHANGED <<sums, prev, draft>>
  BY <1>13
     DEF SummaryStep, chat, local, AcquireLease, ReadMeta, Mark, AddUsage,
         AddUsageDb, WriteMeta, ReadHash, WriteHash, Unmark, ClearSummaryOwner
<1>14. ASSUME (\E a \in Actor : CancelContext(a)) \/ Expire \/ LoseLease
                \/ UNCHANGED vars
       PROVE  UNCHANGED <<sums, prev, draft>>
  BY <1>14 DEF CancelContext, Expire, LoseLease, vars, chat, local
<1>15. Talker \subseteq Actor /\ Summariser \subseteq Actor
  BY DEF Actor
<1> HIDE DEF Old, New
<1>16. ASSUME NEW t \in Talker, TalkStep(t) PROVE Old
  BY <1>3, <1>4, <1>5, <1>6, <1>12, <1>15, <1>16
<1>17. ASSUME NEW s \in Summariser, SummaryStep(s) PROVE Old \/ New
  BY <1>3, <1>4, <1>6, <1>7, <1>8, <1>9, <1>13, <1>15, <1>17
<1>18. Old \/ New
  BY <1>3, <1>10, <1>11, <1>14, <1>16, <1>17 DEF Next
<1> QED BY <1>18 DEF Old, New

\* A request that is between its question and its answer has said something,
\* unless the application has been deleted since.
LEMMA HeardStep ==
  ASSUME Types, Heard, [Next]_vars
  PROVE  Heard'
<1>1. /\ pc \in [Actor -> TalkPcs \cup SumPcs] /\ Talker \subseteq Actor
      /\ Talker \cap Summariser = {} /\ Rows
  BY ChatConstants DEF Types, Control, Actor
<1>2. ASSUME NEW t \in Talker, Say(t) PROVE Heard'
  <2>1. CASE AddChatMessage(TRUE)
    <3>1. turns' # <<>>
      BY <1>1, <2>1, LastTurnIsLast, RowsAre DEF AddChatMessage
    <3> QED BY <3>1 DEF Heard
  <2>2. CASE ~alive'
    BY <2>2 DEF Heard
  <2>3. AddChatMessage(TRUE) \/ ~alive'
    BY <1>2 DEF Say
  <2> QED BY <2>1, <2>2, <2>3
<1>3. ASSUME NEW t \in Talker, Answer(t) PROVE Heard'
  <2>1. CASE AddChatMessage(FALSE)
    <3>1. turns' # <<>>
      BY <1>1, <2>1, LastTurnIsLast, RowsAre DEF AddChatMessage
    <3> QED BY <3>1 DEF Heard
  <2>2. CASE ~alive'
    BY <2>2 DEF Heard
  <2> QED BY <1>3, <2>1, <2>2 DEF Answer
<1>4. ASSUME UNCHANGED <<turns, alive>>,
             \A t \in Talker : pc'[t] \in Spoken => pc[t] \in Spoken
      PROVE  Heard'
  BY <1>4 DEF Heard
<1>5. ASSUME NEW t \in Talker, TalkStep(t)
      PROVE  \/ Say(t) \/ Resume(t) \/ Answer(t)
             \/ UNCHANGED <<turns, alive>>
                /\ \A u \in Talker : pc'[u] \in Spoken => pc[u] \in Spoken
  BY <1>1, <1>5
     DEF TalkStep, chat, Goto, Spoken, Begin, RestoreUsage, ReadApp, WriteUsage,
         ReadSummary, LoadPrompt, CallModel, CountUsage, TalkFails, ReleaseLease,
         MaybeSummarise
<1>6. ASSUME NEW s \in Summariser, SummaryStep(s)
      PROVE  /\ UNCHANGED <<turns, alive>>
             /\ \A u \in Talker : pc'[u] = pc[u]
  BY <1>1, <1>6
     DEF SummaryStep, chat, Goto, AcquireLease, ReadMeta, Mark, ReadSummary,
         Summarise, InsertSummary, AddUsage, AddUsageDb, WriteMeta, ReadHash,
         WriteHash, SummaryFails, Unmark, ClearSummaryOwner, ReleaseLease
<1>7. ASSUME DeleteApp PROVE Heard'
  BY <1>7 DEF DeleteApp, Heard
<1>8. ASSUME Crash
      PROVE  UNCHANGED <<turns, alive>> /\ \A u \in Talker : pc'[u] \notin Spoken
  BY <1>1, <1>8 DEF Crash, chat, Spoken
<1>9. ASSUME (\E a \in Actor : CancelContext(a)) \/ Expire \/ LoseLease
               \/ UNCHANGED vars
      PROVE  UNCHANGED <<turns, alive, pc>>
  BY <1>9 DEF CancelContext, Expire, LoseLease, vars, chat
<1>10. ASSUME NEW t \in Talker, Resume(t) PROVE Heard'
  BY <1>10 DEF Resume, Heard, chat
<1> QED BY <1>2, <1>3, <1>4, <1>5, <1>6, <1>7, <1>8, <1>9, <1>10 DEF Next

LEMMA IInvHolds == Spec => []IInv
<1>1. Init => IInv
  <2> SUFFICES ASSUME Init PROVE IInv
    OBVIOUS
  <2>1. Types
    BY InitTypes
  <2>2. Heard
    BY ChatConstants DEF Init, Heard, Spoken, Actor
  <2>3. \A v \in Known : v = NoSummary
    BY DEF Init, Known
  <2>4. Sound(NoSummary)
    BY DEF Init, Sound, NoSummary
  <2> QED BY <2>1, <2>2, <2>3, <2>4 DEF IInv
<1>2. IInv /\ [Next]_vars => IInv'
  <2> SUFFICES ASSUME IInv, [Next]_vars PROVE IInv'
    OBVIOUS
  <2>1. Types /\ Heard /\ \A v \in Known : Sound(v)
    BY DEF IInv
  <2>2. Types'
    BY <2>1, RowsStep, HashesStep, ControlStep, HistoryStep, TextsStep DEF Types
  <2>3. Heard'
    BY <2>1, HeardStep
  <2>4. ASSUME NEW v \in Known' PROVE Sound(v)'
    <3>1. CASE v \in Known
      BY <2>1, <3>1, KnownTypes, SoundStep
    <3>2. ASSUME NEW s \in Summariser, Summarise(s), v = draft'[s] PROVE Sound(v)'
      <4>1. prev[s] \in Known
        BY DEF Known, Actor
      <4>2. /\ Rows /\ Texts /\ \A i \in DOMAIN turns : turns[i] \in Nat
            /\ prev[s] \in Summary /\ Sound(prev[s])
        BY <2>1, <4>1, KnownTypes, RowsAre DEF Types
      <4>3. /\ \E i \in DOMAIN turns : turns[i] > v.turn
            /\ \A i \in DOMAIN turns :
                 turns[i] <= v.turn /\ turns[i] > prev[s].turn => i \in v.covers
            /\ prev[s].covers \subseteq v.covers
        BY <3>2, <4>2, DraftIsSound
      <4>4. turns # <<>>
        BY <4>3
      <4>5. Complete(prev[s])
        BY <4>2, <4>4 DEF Sound
      <4>6. prev[s].turn \in Nat
        BY <4>2 DEF Summary
      <4>7. ASSUME NEW i \in DOMAIN turns, turns[i] <= v.turn PROVE i \in v.covers
        <5>1. CASE turns[i] <= prev[s].turn
          BY <4>3, <4>5, <5>1 DEF Complete
        <5>2. CASE turns[i] > prev[s].turn
          BY <4>3, <4>7, <5>2
        <5> QED BY <4>2, <4>6, <5>1, <5>2
      <4>8. UNCHANGED <<turns, alive>>
        BY <3>2 DEF Summarise, chat
      <4>9. Sound(v)
        BY <4>3, <4>4, <4>7 DEF Sound, Complete
      <4> QED BY <4>8, <4>9 DEF Sound, Complete
    <3> QED BY <2>1, <3>1, <3>2, KnownStep
  <2> QED BY <2>2, <2>3, <2>4 DEF IInv
<1> QED BY <1>1, <1>2, PTL DEF Spec

\* No summary that is saved, or about to be, misses a message of a turn it says
\* it covers, whoever speaks while it is made (generateSummary).
THEOREM CoverageCorrect == Spec => []CoverageComplete
<1>1. IInv => CoverageComplete
  <2> SUFFICES ASSUME IInv PROVE CoverageComplete
    OBVIOUS
  <2>1. \A v \in Known : Sound(v)
    BY DEF IInv
  <2>2. \A v \in Known : Complete(v)
    <3>1. turns = <<>> => DOMAIN turns = {}
      OBVIOUS
    <3> QED BY <2>1, <3>1 DEF Sound, Complete
  <2> QED BY <2>2 DEF CoverageComplete, Known
<1> QED BY <1>1, IInvHolds, PTL

\* The model is given the whole conversation (EnsureMemoryLoaded): a summary
\* saved between the two reads of loadUncoveredConversation loses nothing.
THEOREM PromptCorrect == Spec => PromptComplete
<1>1. IInv /\ [Next]_vars
        => \A t \in Talker : pc[t] = "records" /\ pc'[t] = "model"
             => DOMAIN turns \subseteq prompt'[t]
  <2> SUFFICES ASSUME IInv, [Next]_vars, NEW t \in Talker,
                      pc[t] = "records", pc'[t] = "model"
               PROVE  DOMAIN turns \subseteq prompt'[t]
    OBVIOUS
  <2>1. Types /\ \A v \in Known : Sound(v)
    BY DEF IInv
  <2>2. /\ pc \in [Actor -> TalkPcs \cup SumPcs] /\ prompt \in [Talker -> SUBSET Nat]
        /\ Talker \subseteq Actor /\ Talker \cap Summariser = {}
    BY <2>1, ChatConstants DEF Types, Control, Texts, Actor
  <2>3. LoadPrompt(t)
    <3>1. ASSUME NEW u \in Talker, TalkStep(u) PROVE u = t /\ LoadPrompt(t)
      BY <2>2, <3>1
         DEF TalkStep, Goto, Begin, Resume, Say, RestoreUsage, ReadApp, WriteUsage,
             ReadSummary, LoadPrompt, CallModel, CountUsage, Answer, TalkFails,
             ReleaseLease, MaybeSummarise
    <3>2. ASSUME NEW s \in Summariser, SummaryStep(s) PROVE FALSE
      <4>1. pc'[t] = pc[t]
        BY <2>2, <3>2
           DEF SummaryStep, Goto, AcquireLease, ReadMeta, Mark, ReadSummary,
               Summarise, InsertSummary, AddUsage, AddUsageDb, WriteMeta, ReadHash,
               WriteHash, SummaryFails, Unmark, ClearSummaryOwner, ReleaseLease
      <4> QED BY <4>1
    <3>3. ASSUME \/ \E a \in Actor : CancelContext(a)
                 \/ DeleteApp \/ Expire \/ LoseLease \/ Crash \/ UNCHANGED vars
          PROVE  FALSE
      BY <2>2, <3>3 DEF CancelContext, DeleteApp, Expire, LoseLease, Crash, vars
    <3> QED BY <3>1, <3>2, <3>3 DEF Next
  <2>4. prompt'[t] = prev[t].covers \cup Uncovered(prev[t])
    BY <2>2, <2>3 DEF LoadPrompt, Goto
  <2>5. /\ prev[t] \in Known /\ prev[t].turn \in Nat
        /\ \A i \in DOMAIN turns : turns[i] \in Nat
    BY <2>1, <2>2, KnownTypes, RowsAre DEF Known, Types, Summary
  <2>6. ASSUME NEW i \in DOMAIN turns PROVE i \in prompt'[t]
    <3>1. turns # <<>>
      OBVIOUS
    <3>2. Complete(prev[t])
      BY <2>1, <2>5, <3>1 DEF Sound
    <3>3. CASE turns[i] <= prev[t].turn
      BY <2>4, <3>2, <3>3 DEF Complete
    <3>4. CASE turns[i] > prev[t].turn
      BY <2>4, <3>4 DEF Uncovered
    <3> QED BY <2>5, <3>3, <3>4
  <2> QED BY <2>6
<1> QED BY <1>1, IInvHolds, PTL DEF Spec, PromptComplete

-----------------------------------------------------------------------------
(* The usage                                                               *)

\* Two counts that differ by the failures at most.
Near(m, d, f) == m <= d + f /\ d <= m + f

LEMMA NearFacts ==
  ASSUME NEW m \in Nat, NEW d \in Nat, NEW f \in Nat
  PROVE  /\ Near(d, d, f)
         /\ Near(m, d, f) => Near(m, d, f + 1) /\ Near(m + 1, d + 1, f)
         /\ Near(m, d, f) => Near(m + 1, d, f + 1) /\ Near(m, d + 1, f + 1)
         /\ Near(m, d, f) => Near(m + 1, d + 1, f + 1)
         /\ Near(m + 1, d, f) => Near(m, d, f + 1) /\ Near(m + 1, d, f + 1)
         /\ Near(m, d + 1, f) => Near(m, d, f + 1) /\ Near(m, d + 1, f + 1)
BY DEF Near

\* The steps at which an actor does nothing for the conversation, and those at
\* which the hash need not have been restored.
Resting == {"idle", "check", "acquire"}
Fresh == {"idle", "say", "restore", "readApp", "writeUsage", "leave"}

\* A request counts its own usage, and a summary its own.
Apart ==
  (\A t \in Talker : pc[t] # "usageDb") /\ (\A s \in Summariser : pc[s] # "count")

\* A cancelled context ends with its request.
Rested == Apart /\ \A a \in Actor : pc[a] \in Resting => live[a]

\* Whoever is at work holds the lease, and a summary goes on.
Alone ==
  /\ \A a \in Actor : pc[a] \notin Resting => holder = a
  /\ \A s \in Summariser : live[s]

\* The steps at which a summariser has a copy of the hash to write back.
Copied == {"mark", "summary", "records", "insert", "usage", "writeMeta",
           "readHash", "writeHash", "unmark"}

\* What a request at work has still to count, or to write into the hash.
Told(t) ==
  /\ pc[t] = "writeUsage" => own[t].tokens = dbTokens
  /\ pc[t] = "count" => /\ Near(meta.tokens + 1, dbTokens, faults)
                        /\ ~live[t] => Near(meta.tokens, dbTokens, faults)

\* The copies of a summary at work are as good as the hash.
CopyOf(s) ==
  /\ pc[s] \in Copied => Near(own[s].tokens, dbTokens, faults)
  /\ pc[s] = "writeHash" => Near(hash[s].tokens, dbTokens, faults)
  /\ pc[s] = "usageDb" => /\ Near(own[s].tokens, dbTokens + 1, faults)
                          /\ Near(meta.tokens, dbTokens + 1, faults)

\* The hash agrees with the row, or Redis has forgotten it and nobody has come
\* further than to restore it.
Settled == Near(meta.tokens, dbTokens, faults)
Forgotten == meta = Blank /\ \A a \in Actor : pc[a] \in Fresh
Totals == Counting \/ Settled \/ Forgotten

Owed == (\A t \in Talker : Told(t)) /\ (\A s \in Summariser : CopyOf(s)) /\ Totals

Steady == ~adrift /\ alive
UsageInv == Rested /\ (Steady => Alone /\ Owed)

\* What the proofs of this part need of the types.
LEMMA UsageTypes ==
  ASSUME Types
  PROVE  /\ pc \in [Actor -> TalkPcs \cup SumPcs] /\ live \in [Actor -> BOOLEAN]
         /\ Talker \subseteq Actor /\ Summariser \subseteq Actor /\ None \notin Actor
         /\ Talker \cap Summariser = {}
         /\ \A a \in Actor : a \in Talker \/ a \in Summariser
         /\ meta \in Metadata /\ meta.tokens \in Nat /\ dbTokens \in Nat /\ faults \in Nat
         /\ own \in [Actor -> Metadata] /\ hash \in [Summariser -> Metadata]
         /\ \A a \in Actor : own[a].tokens \in Nat
         /\ \A s \in Summariser : hash[s].tokens \in Nat
<1>1. /\ pc \in [Actor -> TalkPcs \cup SumPcs] /\ live \in [Actor -> BOOLEAN]
      /\ meta \in Metadata /\ dbTokens \in Nat /\ faults \in Nat
      /\ own \in [Actor -> Metadata] /\ hash \in [Summariser -> Metadata]
  BY DEF Types, Rows, Hashes, Control
<1>2. \A m \in Metadata : m.tokens \in Nat
  BY DEF Metadata
<1>3. /\ Talker \subseteq Actor /\ Summariser \subseteq Actor /\ None \notin Actor
      /\ Talker \cap Summariser = {}
      /\ \A a \in Actor : a \in Talker \/ a \in Summariser
  BY ChatConstants DEF Actor
<1> QED BY <1>1, <1>2, <1>3

\* Steady states come from steady states, but for the step at which Redis forgets.
LEMMA StaysSteady ==
  ASSUME Types, [Next]_vars, Steady', ~Expire
  PROVE  Steady /\ ~LoseLease /\ ~DeleteApp
<1>1. adrift \in BOOLEAN /\ ~adrift' /\ alive'
  BY DEF Types, History, Steady
<1>2. ~LoseLease /\ ~DeleteApp
  BY <1>1 DEF LoseLease, DeleteApp
<1>3. (\E t \in Talker : Resume(t)) \/ UNCHANGED adrift
  BY <1>2 DEF Next, TalkStep, SummaryStep, CancelContext, Crash, vars
<1>4. \A t \in Talker : Resume(t) => ~adrift
  BY <1>1 DEF Resume
<1>5. alive' => alive
  BY DEF Next, TalkStep, SummaryStep, Begin, Resume, Say, RestoreUsage, ReadApp,
         WriteUsage, ReadSummary, LoadPrompt, CallModel, CountUsage, Answer, TalkFails,
         ReleaseLease, MaybeSummarise, AcquireLease, ReadMeta, Mark,
         Summarise, InsertSummary, AddUsage, AddUsageDb, WriteMeta, ReadHash,
         WriteHash, SummaryFails, Unmark, ClearSummaryOwner, CancelContext, DeleteApp,
         Expire, LoseLease, Crash, chat, vars
<1>6. ~adrift
  BY <1>1, <1>3, <1>4
<1> QED BY <1>1, <1>2, <1>5, <1>6 DEF Steady

\* A step of one actor that takes or gives nothing back moves it alone.
TalkWork(t) ==
  \/ Say(t) \/ RestoreUsage(t) \/ ReadApp(t) \/ WriteUsage(t) \/ ReadSummary(t)
  \/ LoadPrompt(t) \/ CallModel(t) \/ CountUsage(t) \/ Answer(t) \/ TalkFails(t)
SumWork(s) ==
  \/ ReadMeta(s) \/ Mark(s) \/ ReadSummary(s) \/ Summarise(s)
  \/ InsertSummary(s) \/ AddUsage(s) \/ AddUsageDb(s) \/ WriteMeta(s)
  \/ ReadHash(s) \/ WriteHash(s) \/ SummaryFails(s) \/ Unmark(s)
  \/ ClearSummaryOwner(s)

LEMMA TalkWorks ==
  ASSUME Types, NEW t \in Talker, TalkWork(t)
  PROVE  /\ pc[t] \notin Resting /\ pc'[t] \notin Resting /\ pc'[t] # "usageDb"
         /\ holder' = holder /\ live' = live
         /\ \A a \in Actor \ {t} : pc'[a] = pc[a]
<1>1. pc \in [Actor -> TalkPcs \cup SumPcs] /\ t \in Actor
  BY UsageTypes
<1> QED
  BY <1>1
     DEF TalkWork, Goto, Resting, TalkPcs, Say, RestoreUsage, ReadApp, WriteUsage,
         ReadSummary, LoadPrompt, CallModel, CountUsage, Answer, TalkFails

LEMMA SumWorks ==
  ASSUME Types, NEW s \in Summariser, SumWork(s)
  PROVE  /\ pc[s] \notin Resting /\ pc'[s] \notin Resting /\ pc'[s] # "count"
         /\ holder' = holder /\ live' = live
         /\ \A a \in Actor \ {s} : pc'[a] = pc[a]
<1>1. pc \in [Actor -> TalkPcs \cup SumPcs] /\ s \in Actor
  BY UsageTypes
<1> QED
  BY <1>1
     DEF SumWork, Goto, Resting, SumPcs, ReadMeta, Mark, ReadSummary, Summarise,
         InsertSummary, AddUsage, AddUsageDb, WriteMeta, ReadHash, WriteHash,
         SummaryFails, Unmark, ClearSummaryOwner

\* Every step is one of these.
LEMMA StepsAre ==
  ASSUME [Next]_vars
  PROVE  \/ \E t \in Talker : \/ TalkWork(t) \/ Begin(t) \/ Resume(t)
                              \/ ReleaseLease(t) \/ MaybeSummarise(t)
         \/ \E s \in Summariser : SumWork(s) \/ AcquireLease(s) \/ ReleaseLease(s)
         \/ \E a \in Actor : CancelContext(a)
         \/ DeleteApp \/ Expire \/ LoseLease \/ Crash \/ UNCHANGED vars
BY DEF Next, TalkStep, SummaryStep, TalkWork, SumWork

LEMMA RestedStep ==
  ASSUME Types, [Next]_vars, Rested
  PROVE  Rested'
<1>1. /\ pc \in [Actor -> TalkPcs \cup SumPcs] /\ live \in [Actor -> BOOLEAN]
      /\ Talker \subseteq Actor /\ Summariser \subseteq Actor
      /\ Talker \cap Summariser = {}
  BY UsageTypes
<1>2. ASSUME NEW t \in Talker, TalkWork(t) PROVE Rested'
  BY <1>1, <1>2, TalkWorks DEF Rested, Apart
<1>3. ASSUME NEW s \in Summariser, SumWork(s) PROVE Rested'
  BY <1>1, <1>3, SumWorks DEF Rested, Apart
<1>4. ASSUME NEW t \in Talker, Begin(t) \/ Resume(t) PROVE Rested'
  BY <1>1, <1>4 DEF Begin, Resume, Goto, Rested, Apart, Resting
<1>5. ASSUME NEW a \in Actor, ReleaseLease(a) PROVE Rested'
  BY <1>1, <1>5 DEF ReleaseLease, Goto, Rested, Apart
<1>6. ASSUME NEW t \in Talker, MaybeSummarise(t) PROVE Rested'
  BY <1>1, <1>6 DEF MaybeSummarise, Goto, Rested, Apart, Resting
<1>7. ASSUME NEW s \in Summariser, AcquireLease(s) PROVE Rested'
  BY <1>1, <1>7 DEF AcquireLease, Goto, Rested, Apart, Resting
<1>8. ASSUME NEW a \in Actor, CancelContext(a) PROVE Rested'
  BY <1>1, <1>8 DEF CancelContext, Rested, Apart, Resting
<1>9. ASSUME Crash PROVE Rested'
  BY <1>1, <1>9 DEF Crash, Rested, Apart
<1>10. ASSUME DeleteApp \/ Expire \/ LoseLease \/ UNCHANGED vars PROVE Rested'
  BY <1>10 DEF DeleteApp, Expire, LoseLease, vars, Rested, Apart
<1> QED
  BY <1>1, <1>2, <1>3, <1>4, <1>5, <1>6, <1>7, <1>8, <1>9, <1>10, StepsAre

\* Nobody works without the lease while it is not lost.
LEMMA AloneStep ==
  ASSUME Types, [Next]_vars, Steady', ~Expire, Rested, Alone
  PROVE  Alone'
<1>1. /\ pc \in [Actor -> TalkPcs \cup SumPcs] /\ live \in [Actor -> BOOLEAN]
      /\ Talker \subseteq Actor /\ Summariser \subseteq Actor /\ None \notin Actor
      /\ Talker \cap Summariser = {}
  BY UsageTypes
<1>2. ASSUME NEW t \in Talker, TalkWork(t) PROVE Alone'
  BY <1>1, <1>2, TalkWorks DEF Alone
<1>3. ASSUME NEW s \in Summariser, SumWork(s) PROVE Alone'
  BY <1>1, <1>3, SumWorks DEF Alone
<1>4. ASSUME NEW t \in Talker, Begin(t) \/ Resume(t) PROVE Alone'
  BY <1>1, <1>4 DEF Begin, Resume, Goto, Alone, Resting
<1>5. ASSUME NEW a \in Actor, ReleaseLease(a) PROVE Alone'
  BY <1>1, <1>5 DEF ReleaseLease, Goto, Alone, Resting
<1>6. ASSUME NEW t \in Talker, MaybeSummarise(t) PROVE Alone'
  BY <1>1, <1>6 DEF MaybeSummarise, Goto, Alone, Resting
<1>7. ASSUME NEW s \in Summariser, AcquireLease(s) PROVE Alone'
  BY <1>1, <1>7 DEF AcquireLease, Goto, Alone, Resting
<1>8. ASSUME NEW a \in Actor, CancelContext(a) PROVE Alone'
  <2>1. holder = a
    BY <1>1, <1>8 DEF CancelContext, Alone, Resting
  <2>2. a \in Talker /\ live' = [live EXCEPT ![a] = FALSE] /\ UNCHANGED <<pc, holder>>
    BY <1>8, <2>1 DEF CancelContext
  <2> QED BY <1>1, <2>2 DEF Alone
<1>9. ASSUME Crash PROVE Alone'
  BY <1>1, <1>9 DEF Crash, Alone, Resting
<1>10. CASE UNCHANGED vars
  BY <1>10 DEF vars, Alone
<1> QED
  BY <1>1, <1>2, <1>3, <1>4, <1>5, <1>6, <1>7, <1>8, <1>9, <1>10, StepsAre, StaysSteady

\* One request at work: all others rest, so no copy of the hash is about.  What
\* it owes after the step, and whether the hash agrees with the row.
LEMMA TalkStepOwes ==
  ASSUME Types, Steady, Steady', Alone, Owed,
         NEW t \in Talker, TalkWork(t) \/ ReleaseLease(t)
  PROVE  /\ Told(t)'
         /\ \/ pc'[t] = "count" \/ Settled'
            \/ Forgotten /\ meta' = Blank /\ pc'[t] \in Fresh
<1>1. /\ pc \in [Actor -> TalkPcs \cup SumPcs] /\ live \in [Actor -> BOOLEAN]
      /\ Talker \subseteq Actor /\ Summariser \subseteq Actor
      /\ Talker \cap Summariser = {} /\ t \in Actor /\ None \notin Actor
      /\ meta \in Metadata /\ meta.tokens \in Nat /\ dbTokens \in Nat /\ faults \in Nat
      /\ own \in [Actor -> Metadata]
  BY UsageTypes
<1>2. pc[t] \notin Resting
  BY TalkWorks DEF ReleaseLease, Resting
<1>3. \A a \in Actor \ {t} : pc[a] \in Resting
  BY <1>1, <1>2 DEF Alone
<1>4. /\ pc[t] # "count" => Settled \/ Forgotten
      /\ Forgotten => meta = Blank /\ pc[t] \in Fresh
  <2>1. pc[t] # "usageDb"
    BY DEF TalkWork, Say, RestoreUsage, ReadApp, WriteUsage, ReadSummary, LoadPrompt,
           CallModel, CountUsage, Answer, TalkFails, ReleaseLease, TalkPcs
  <2>2. pc[t] # "count" => ~Counting
    BY <1>3, <2>1 DEF Counting, Resting
  <2> QED BY <1>1, <2>2 DEF Owed, Totals, Forgotten
<1>5. Told(t) /\ alive
  BY DEF Owed, Steady
<1>6. Blank.tokens = 0
  BY DEF Blank
<1>7. CASE Say(t) \/ RestoreUsage(t) \/ ReadSummary(t) \/ LoadPrompt(t) \/ Answer(t)
             \/ ReleaseLease(t)
  <2>1. /\ meta' = meta /\ dbTokens' = dbTokens /\ faults' = faults
        /\ pc'[t] \notin {"count", "writeUsage"} /\ pc[t] # "count"
    BY <1>1, <1>7
       DEF Say, RestoreUsage, ReadSummary, LoadPrompt, Answer, ReleaseLease, Goto, chat
  <2>2. pc[t] \in Fresh => \/ Say(t) /\ pc[t] = "say"
                           \/ RestoreUsage(t) /\ pc[t] = "restore"
                           \/ ReleaseLease(t)
    BY <1>7 DEF Say, RestoreUsage, ReadSummary, LoadPrompt, Answer, Fresh
  <2>3. ASSUME Forgotten PROVE pc'[t] \in Fresh
    <3>1. meta = Blank /\ pc[t] \in Fresh
      BY <1>4, <2>3
    <3>2. CASE Say(t)
      BY <1>1, <3>2 DEF Say, Goto, Fresh
    <3>3. CASE RestoreUsage(t)
      BY <1>1, <1>6, <3>1, <3>3 DEF RestoreUsage, Goto, Fresh
    <3>4. CASE ReleaseLease(t)
      BY <1>1, <3>1, <3>4 DEF ReleaseLease, Goto, Fresh
    <3> QED BY <2>2, <3>1, <3>2, <3>3, <3>4
  <2>4. Told(t)'
    BY <2>1 DEF Told
  <2> QED BY <1>4, <2>1, <2>3, <2>4 DEF Settled
<1>8. CASE ReadApp(t)
  <2>1. /\ own' = [own EXCEPT ![t] = [own[t] EXCEPT !.tokens = dbTokens]]
        /\ meta' = meta /\ dbTokens' = dbTokens /\ faults' = faults /\ pc[t] = "readApp"
        /\ pc'[t] = IF dbTokens = 0 THEN "summary" ELSE "writeUsage"
    BY <1>1, <1>5, <1>8 DEF ReadApp, chat, Goto
  <2>2. own'[t] = [own[t] EXCEPT !.tokens = dbTokens] /\ own[t] \in Metadata
    BY <1>1, <2>1
  <2>3. own'[t].tokens = dbTokens
    BY <2>2 DEF Metadata
  <2>4. Told(t)'
    BY <2>1, <2>3 DEF Told
  <2>5. CASE Settled
    BY <2>1, <2>4, <2>5 DEF Settled
  <2>6. CASE Forgotten /\ dbTokens = 0
    <3>1. Near(0, 0, faults)
      BY <1>1, NearFacts
    <3> QED BY <1>4, <1>6, <2>1, <2>4, <2>6, <3>1 DEF Settled
  <2>7. CASE Forgotten /\ dbTokens # 0
    BY <1>4, <2>1, <2>4, <2>7 DEF Fresh
  <2> QED BY <1>4, <2>1, <2>5, <2>6, <2>7
<1>9. CASE WriteUsage(t)
  <2>1. /\ meta' = own[t] /\ dbTokens' = dbTokens /\ faults' = faults
        /\ pc[t] = "writeUsage" /\ pc'[t] = "summary"
    BY <1>1, <1>9 DEF WriteUsage, Goto, chat
  <2>2. meta'.tokens = dbTokens
    BY <1>5, <2>1 DEF Told
  <2>3. Near(dbTokens, dbTokens, faults)
    BY <1>1, NearFacts
  <2> QED BY <2>1, <2>2, <2>3 DEF Told, Settled
<1>10. CASE CallModel(t)
  <2>1. /\ meta' = meta /\ live' = live /\ live[t] /\ pc[t] = "model" /\ pc'[t] = "count"
        /\ \/ dbTokens' = dbTokens + 1 /\ faults' = faults
           \/ dbTokens' = dbTokens /\ faults' = faults + 1
    BY <1>1, <1>5, <1>10 DEF CallModel, Tried, CountInRow, Fault, Goto
  <2>2. Near(meta.tokens, dbTokens, faults)
    BY <1>4, <2>1 DEF Fresh, Settled
  <2>3. Near(meta.tokens + 1, dbTokens', faults')
    BY <1>1, <2>1, <2>2, NearFacts
  <2>4. Told(t)'
    BY <2>1, <2>3 DEF Told
  <2> QED BY <2>1, <2>4
<1>11. CASE CountUsage(t)
  <2>1. /\ dbTokens' = dbTokens /\ pc[t] = "count" /\ pc'[t] = "answer"
        /\ \/ meta' = [meta EXCEPT !.tokens = @ + 1] /\ faults' = faults
           \/ meta' = meta /\ faults' = faults + 1
    BY <1>1, <1>11 DEF CountUsage, Tried, CountInHash, Fault, Goto, chat
  <2>2. Near(meta.tokens + 1, dbTokens, faults)
    BY <1>5, <2>1 DEF Told
  <2>3. \/ meta'.tokens = meta.tokens + 1 /\ faults' = faults
        \/ meta'.tokens = meta.tokens /\ faults' = faults + 1
    BY <1>1, <2>1 DEF Metadata
  <2>4. Near(meta'.tokens, dbTokens, faults')
    BY <1>1, <2>2, <2>3, NearFacts
  <2>5. Told(t)'
    BY <2>1 DEF Told
  <2> QED BY <2>1, <2>4, <2>5 DEF Settled
<1>12. CASE TalkFails(t)
  <2>1. /\ meta' = meta /\ dbTokens' = dbTokens /\ faults' = faults
        /\ pc'[t] = "leave" \/ (pc[t] \in {"model", "count", "answer"} /\ pc'[t] = "release")
        /\ pc[t] = "count" => ~live[t]
    BY <1>1, <1>12 DEF TalkFails, Goto, chat
  <2>2. Told(t)'
    BY <2>1 DEF Told
  <2>3. CASE pc[t] = "count"
    BY <1>5, <2>1, <2>2, <2>3 DEF Told, Settled
  <2>4. CASE pc[t] # "count"
    BY <1>4, <2>1, <2>2, <2>4 DEF Settled, Fresh
  <2> QED BY <2>3, <2>4
<1> QED BY <1>7, <1>8, <1>9, <1>10, <1>11, <1>12 DEF TalkWork

LEMMA TalkKeepsUsage ==
  ASSUME Types, Steady, Steady', Alone, Owed,
         NEW t \in Talker, TalkWork(t) \/ ReleaseLease(t)
  PROVE  Owed'
<1>1. /\ pc \in [Actor -> TalkPcs \cup SumPcs]
      /\ Talker \subseteq Actor /\ Summariser \subseteq Actor
      /\ Talker \cap Summariser = {} /\ t \in Actor /\ None \notin Actor
  BY UsageTypes
<1>2. pc[t] \notin Resting /\ \A a \in Actor \ {t} : pc'[a] = pc[a]
  BY <1>1, TalkWorks DEF ReleaseLease, Goto, Resting
<1>3. \A a \in Actor \ {t} : pc'[a] \in Resting /\ pc'[a] = pc[a]
  BY <1>1, <1>2 DEF Alone
<1>4. /\ Told(t)'
      /\ \/ pc'[t] = "count" \/ Settled'
         \/ Forgotten /\ meta' = Blank /\ pc'[t] \in Fresh
  BY TalkStepOwes
<1>5. \A u \in Talker \ {t} : Told(u)'
  BY <1>1, <1>3 DEF Told, Resting
<1>6. \A s \in Summariser : CopyOf(s)'
  BY <1>1, <1>3 DEF CopyOf, Copied, Resting
<1>7. Totals'
  <2>1. CASE pc'[t] = "count"
    BY <1>1, <2>1 DEF Totals, Counting
  <2>2. CASE Settled'
    BY <2>2 DEF Totals
  <2>3. CASE Forgotten /\ meta' = Blank /\ pc'[t] \in Fresh
    <3>1. \A a \in Actor : pc'[a] \in Fresh
      BY <1>3, <2>3 DEF Forgotten
    <3> QED BY <2>3, <3>1 DEF Totals, Forgotten
  <2> QED BY <1>4, <2>1, <2>2, <2>3
<1> QED BY <1>4, <1>5, <1>6, <1>7 DEF Owed

\* What a summary at work owes, and that the hash agrees with the row but
\* between its two counts.
LEMMA SummaryStepOwes ==
  ASSUME Types, Steady, Steady', Alone, Owed,
         NEW s \in Summariser, SumWork(s) \/ ReleaseLease(s)
  PROVE  /\ CopyOf(s)'
         /\ \/ pc'[s] = "usageDb" \/ Settled'
            \/ Forgotten /\ meta' = Blank /\ pc'[s] \in Fresh
<1>1. /\ pc \in [Actor -> TalkPcs \cup SumPcs]
      /\ Talker \subseteq Actor /\ Summariser \subseteq Actor
      /\ Talker \cap Summariser = {} /\ s \in Actor /\ None \notin Actor
      /\ meta \in Metadata /\ meta.tokens \in Nat /\ dbTokens \in Nat /\ faults \in Nat
      /\ own \in [Actor -> Metadata] /\ hash \in [Summariser -> Metadata]
      /\ own[s] \in Metadata /\ own[s].tokens \in Nat /\ hash[s].tokens \in Nat
  BY UsageTypes
<1>2. pc[s] \notin Resting
  BY SumWorks DEF ReleaseLease, Resting
<1>3. \A a \in Actor \ {s} : pc[a] \in Resting
  BY <1>1, <1>2 DEF Alone
<1>4. pc[s] # "count"
  BY DEF SumWork, ReadMeta, Mark, ReadSummary, Summarise, InsertSummary, AddUsage,
         AddUsageDb, WriteMeta, ReadHash, WriteHash, SummaryFails, Unmark,
         ClearSummaryOwner, ReleaseLease, SumPcs
<1>5. /\ pc[s] # "usageDb" => Settled \/ Forgotten
      /\ Forgotten => meta = Blank /\ pc[s] \in Fresh
  <2>1. pc[s] # "usageDb" => ~Counting
    BY <1>3, <1>4 DEF Counting, Resting
  <2> QED BY <1>1, <2>1 DEF Owed, Totals, Forgotten
<1>6. CopyOf(s) /\ alive /\ live[s]
  BY DEF Owed, Steady, Alone
<1>7. CASE ReleaseLease(s)
  <2>1. /\ meta' = meta /\ dbTokens' = dbTokens /\ faults' = faults
        /\ pc[s] \in {"leave", "release"} /\ pc'[s] = "idle"
    BY <1>1, <1>7 DEF ReleaseLease, Goto, chat
  <2>2. CopyOf(s)'
    BY <2>1 DEF CopyOf, Copied
  <2> QED BY <1>5, <2>1, <2>2 DEF Settled, Fresh
<1>8. CASE ReadMeta(s)
  <2>1. /\ own' = [own EXCEPT ![s] = [meta EXCEPT !.on = TRUE, !.owner = s]]
        /\ meta' = meta /\ dbTokens' = dbTokens /\ faults' = faults
        /\ pc[s] = "readMeta" /\ pc'[s] = "mark"
    BY <1>1, <1>8 DEF ReadMeta, Goto, chat
  <2>2. own'[s].tokens = meta.tokens
    BY <1>1, <2>1 DEF Metadata
  <2>3. Settled
    BY <1>5, <2>1 DEF Fresh
  <2> QED BY <2>1, <2>2, <2>3 DEF CopyOf, Settled
<1>9. CASE Mark(s) \/ WriteMeta(s)
  <2>1. /\ meta' = own[s] /\ own' = own /\ dbTokens' = dbTokens /\ faults' = faults
        /\ pc[s] \in Copied /\ pc'[s] \in {"summary", "release", "readHash"}
    BY <1>1, <1>9 DEF Mark, WriteMeta, Goto, chat, local, Copied
  <2> QED BY <1>6, <2>1 DEF CopyOf, Copied, Settled
<1>10. CASE ReadSummary(s) \/ Summarise(s) \/ InsertSummary(s)
  <2>1. /\ meta' = meta /\ own' = own /\ dbTokens' = dbTokens /\ faults' = faults
        /\ pc[s] \in {"summary", "records", "insert"}
        /\ pc'[s] \in {"records", "insert", "usage"}
    BY <1>1, <1>10 DEF ReadSummary, Summarise, InsertSummary, Goto, chat
  <2>2. Settled
    BY <1>5, <2>1 DEF Fresh
  <2> QED BY <1>6, <2>1, <2>2 DEF CopyOf, Copied, Settled
<1>11. CASE AddUsage(s)
  <2>1. /\ own' = [own EXCEPT ![s] = [own[s] EXCEPT !.tokens = @ + 1]]
        /\ dbTokens' = dbTokens /\ pc[s] = "usage" /\ pc'[s] = "usageDb"
        /\ \/ meta' = [meta EXCEPT !.tokens = @ + 1] /\ faults' = faults
           \/ meta' = meta /\ faults' = faults + 1
    BY <1>1, <1>11 DEF AddUsage, Tried, CountInHash, Fault, Goto, chat
  <2>2. own'[s] = [own[s] EXCEPT !.tokens = @ + 1]
    BY <1>1, <2>1
  <2>3. own'[s].tokens = own[s].tokens + 1
    BY <1>1, <2>2 DEF Metadata
  <2>4. \/ meta'.tokens = meta.tokens + 1 /\ faults' = faults
        \/ meta'.tokens = meta.tokens /\ faults' = faults + 1
    BY <1>1, <2>1 DEF Metadata
  <2>5. /\ Near(own[s].tokens, dbTokens, faults)
        /\ Near(meta.tokens, dbTokens, faults)
    BY <1>5, <1>6, <2>1 DEF CopyOf, Copied, Fresh, Settled
  <2>6. Near(own'[s].tokens, dbTokens + 1, faults')
    BY <1>1, <2>3, <2>4, <2>5 DEF Near
  <2>7. Near(meta'.tokens, dbTokens + 1, faults')
    BY <1>1, <2>4, <2>5, NearFacts
  <2> QED BY <2>1, <2>6, <2>7 DEF CopyOf, Copied
<1>12. CASE AddUsageDb(s)
  <2>1. /\ own' = own /\ meta' = meta /\ pc[s] = "usageDb" /\ pc'[s] = "writeMeta"
        /\ \/ dbTokens' = dbTokens + 1 /\ faults' = faults
           \/ dbTokens' = dbTokens /\ faults' = faults + 1
    BY <1>1, <1>6, <1>12 DEF AddUsageDb, Tried, CountInRow, Fault, Goto, local
  <2>2. /\ Near(own[s].tokens, dbTokens + 1, faults)
        /\ Near(meta.tokens, dbTokens + 1, faults)
    BY <1>6, <2>1 DEF CopyOf
  <2>3. Near(own[s].tokens, dbTokens', faults')
    BY <1>1, <2>1, <2>2, NearFacts
  <2>4. Near(meta.tokens, dbTokens', faults')
    BY <1>1, <2>1, <2>2, NearFacts
  <2> QED BY <2>1, <2>3, <2>4 DEF CopyOf, Copied, Settled
<1>13. CASE ReadHash(s)
  <2>1. /\ own' = own /\ meta' = meta /\ dbTokens' = dbTokens /\ faults' = faults
        /\ hash'[s] = meta /\ pc[s] = "readHash" /\ pc'[s] = "writeHash"
    BY <1>1, <1>13 DEF ReadHash, Goto, chat
  <2>2. Settled
    BY <1>5, <2>1 DEF Fresh
  <2> QED BY <1>6, <2>1, <2>2 DEF CopyOf, Copied, Settled
<1>14. CASE WriteHash(s)
  <2>1. /\ own' = own /\ meta' = hash[s] /\ dbTokens' = dbTokens /\ faults' = faults
        /\ pc[s] = "writeHash" /\ pc'[s] = "unmark"
    BY <1>1, <1>14 DEF WriteHash, Goto, chat
  <2> QED BY <1>6, <2>1 DEF CopyOf, Copied, Settled
<1>15. CASE SummaryFails(s)
  <2>1. /\ own' = own /\ meta' = meta /\ dbTokens' = dbTokens /\ faults' = faults
        /\ pc[s] \in SumPcs \ {"idle", "acquire", "unmark", "owner", "release"}
        /\ pc[s] = "usageDb" => ~live[s]
        /\ pc'[s] = IF pc[s] \in {"readMeta", "mark"} THEN "release" ELSE "unmark"
    BY <1>1, <1>15 DEF SummaryFails, Goto, chat
  <2>2. pc[s] # "usageDb" /\ pc[s] \notin Fresh
    BY <1>6, <2>1 DEF SumPcs, Fresh
  <2>3. Settled
    BY <1>5, <2>2
  <2>4. CASE pc[s] \in {"readMeta", "mark"}
    BY <2>1, <2>3, <2>4 DEF CopyOf, Copied, Settled
  <2>5. CASE pc[s] \notin {"readMeta", "mark"}
    <3>1. pc[s] \in Copied /\ pc'[s] = "unmark"
      BY <2>1, <2>2, <2>5 DEF Copied, SumPcs
    <3> QED BY <1>6, <2>1, <2>3, <3>1 DEF CopyOf, Settled
  <2> QED BY <2>4, <2>5
<1>16. CASE Unmark(s)
  <2>1. /\ meta' = [own[s] EXCEPT !.on = FALSE] /\ dbTokens' = dbTokens
        /\ faults' = faults /\ pc[s] = "unmark" /\ pc'[s] = "owner"
    BY <1>1, <1>6, <1>16 DEF Unmark, Goto, chat
  <2>2. meta'.tokens = own[s].tokens
    BY <1>1, <2>1 DEF Metadata
  <2> QED BY <1>6, <2>1, <2>2 DEF CopyOf, Copied, Settled
<1>17. CASE ClearSummaryOwner(s)
  <2>1. /\ meta' = meta \/ meta' = [meta EXCEPT !.on = FALSE, !.owner = None]
        /\ dbTokens' = dbTokens /\ faults' = faults
        /\ pc[s] = "owner" /\ pc'[s] = "release"
    BY <1>1, <1>17 DEF ClearSummaryOwner, Goto, chat
  <2>2. meta'.tokens = meta.tokens
    BY <1>1, <2>1 DEF Metadata
  <2>3. Settled
    BY <1>5, <2>1 DEF Fresh
  <2> QED BY <2>1, <2>2, <2>3 DEF CopyOf, Copied, Settled
<1> QED
  BY <1>7, <1>8, <1>9, <1>10, <1>11, <1>12, <1>13, <1>14, <1>15, <1>16, <1>17 DEF SumWork

\* One summary at work: all others rest, so its copy is the only one.
LEMMA SummaryKeepsUsage ==
  ASSUME Types, Steady, Steady', Alone, Owed,
         NEW s \in Summariser, SumWork(s) \/ ReleaseLease(s)
  PROVE  Owed'
<1>1. /\ pc \in [Actor -> TalkPcs \cup SumPcs]
      /\ Talker \subseteq Actor /\ Summariser \subseteq Actor
      /\ Talker \cap Summariser = {} /\ s \in Actor /\ None \notin Actor
  BY UsageTypes
<1>2. pc[s] \notin Resting /\ \A a \in Actor \ {s} : pc'[a] = pc[a]
  BY <1>1, SumWorks DEF ReleaseLease, Goto, Resting
<1>3. \A a \in Actor \ {s} : pc'[a] \in Resting /\ pc'[a] = pc[a]
  BY <1>1, <1>2 DEF Alone
<1>4. /\ CopyOf(s)'
      /\ \/ pc'[s] = "usageDb" \/ Settled'
         \/ Forgotten /\ meta' = Blank /\ pc'[s] \in Fresh
  BY SummaryStepOwes
<1>5. \A t \in Talker : Told(t)'
  BY <1>1, <1>3 DEF Told, Resting
<1>6. \A u \in Summariser \ {s} : CopyOf(u)'
  BY <1>1, <1>3 DEF CopyOf, Copied, Resting
<1>7. Totals'
  <2>1. CASE pc'[s] = "usageDb"
    BY <1>1, <2>1 DEF Totals, Counting
  <2>2. CASE Settled'
    BY <2>2 DEF Totals
  <2>3. CASE Forgotten /\ meta' = Blank /\ pc'[s] \in Fresh
    <3>1. \A a \in Actor : pc'[a] \in Fresh
      BY <1>3, <2>3 DEF Forgotten
    <3> QED BY <2>3, <3>1 DEF Totals, Forgotten
  <2> QED BY <1>4, <2>1, <2>2, <2>3
<1> QED BY <1>4, <1>5, <1>6, <1>7 DEF Owed

\* Whoever begins finds everyone at rest, and whoever rests owes nothing.
LEMMA OthersKeepUsage ==
  ASSUME Types, Steady, Steady', Alone, Owed,
         \/ \E t \in Talker : Begin(t) \/ Resume(t) \/ MaybeSummarise(t)
         \/ \E s \in Summariser : AcquireLease(s)
  PROVE  Owed'
<1>1. /\ pc \in [Actor -> TalkPcs \cup SumPcs]
      /\ Talker \subseteq Actor /\ Summariser \subseteq Actor
      /\ Talker \cap Summariser = {} /\ None \notin Actor
      /\ dbTokens \in Nat /\ faults \in Nat
  BY UsageTypes
<1>2. UNCHANGED <<meta, dbTokens, faults, own, hash, live>>
  BY DEF Begin, Resume, MaybeSummarise, AcquireLease, chat, local
<1>3. ASSUME NEW a \in Actor
      PROVE  \/ pc'[a] = pc[a]
             \/ pc[a] \in Resting /\ pc'[a] \in Resting \cup {"say", "model", "readMeta"}
  BY <1>1, <1>3 DEF Begin, Resume, MaybeSummarise, AcquireLease, Goto, Resting
<1>4. \A t \in Talker : Told(t)'
  BY <1>1, <1>2, <1>3 DEF Owed, Told, Resting
<1>5. \A s \in Summariser : CopyOf(s)'
  BY <1>1, <1>2, <1>3 DEF Owed, CopyOf, Copied, Resting
<1>6. Counting => Counting'
  BY <1>3 DEF Counting, Resting
<1>7. Settled => Settled'
  BY <1>2 DEF Settled
<1>8. ASSUME Forgotten PROVE Settled' \/ Forgotten'
  <2>1. ASSUME NEW t \in Talker, Begin(t) PROVE Forgotten'
    BY <1>1, <1>2, <1>8, <2>1 DEF Begin, Goto, Forgotten, Fresh
  <2>2. ASSUME NEW t \in Talker, Resume(t) PROVE Settled'
    <3>1. meta = Blank /\ ~ (meta = Blank /\ dbTokens > 0)
      BY <1>8, <2>2 DEF Resume, Forgotten, Steady
    <3>2. meta.tokens = 0 /\ dbTokens = 0
      BY <1>1, <3>1 DEF Blank
    <3> QED BY <1>1, <1>2, <3>2, NearFacts DEF Settled
  <2>3. ASSUME NEW t \in Talker, MaybeSummarise(t) PROVE FALSE
    BY <1>1, <1>8, <2>3 DEF MaybeSummarise, Forgotten, Fresh
  <2>4. ASSUME NEW s \in Summariser, AcquireLease(s) PROVE FALSE
    BY <1>1, <1>8, <2>4 DEF AcquireLease, Forgotten, Fresh
  <2> QED BY <2>1, <2>2, <2>3, <2>4
<1>9. Totals'
  BY <1>6, <1>7, <1>8 DEF Owed, Totals
<1> QED BY <1>4, <1>5, <1>9 DEF Owed

\* A failure between the two counts costs one of them.
LEMMA FaultKeepsUsage ==
  ASSUME Types, Steady, Steady', Rested, Alone, Owed,
         Crash \/ \E a \in Actor : CancelContext(a)
  PROVE  Owed'
<1>1. /\ pc \in [Actor -> TalkPcs \cup SumPcs] /\ live \in [Actor -> BOOLEAN]
      /\ Talker \subseteq Actor /\ Summariser \subseteq Actor
      /\ Talker \cap Summariser = {} /\ None \notin Actor
      /\ meta.tokens \in Nat /\ dbTokens \in Nat /\ faults \in Nat
      /\ \A a \in Actor : own[a].tokens \in Nat
      /\ \A s \in Summariser : hash[s].tokens \in Nat
      /\ \A a \in Actor : a \in Talker \/ a \in Summariser
  BY UsageTypes
<1>2. CASE Crash
  <2>1. /\ pc' = [a \in Actor |-> "idle"] /\ meta' = meta /\ dbTokens' = dbTokens
        /\ faults' = faults + 1
    BY <1>2 DEF Crash, Fault, chat
  <2>2. (\A t \in Talker : Told(t)') /\ (\A s \in Summariser : CopyOf(s)')
    BY <1>1, <2>1 DEF Told, CopyOf, Copied
  <2>3. ASSUME NEW t \in Talker, pc[t] = "count" PROVE Settled'
    <3>1. Near(meta.tokens + 1, dbTokens, faults)
      BY <2>3 DEF Owed, Told
    <3> QED BY <1>1, <2>1, <3>1, NearFacts DEF Settled
  <2>4. ASSUME NEW s \in Summariser, pc[s] = "usageDb" PROVE Settled'
    <3>1. Near(meta.tokens, dbTokens + 1, faults)
      BY <2>4 DEF Owed, CopyOf
    <3> QED BY <1>1, <2>1, <3>1, NearFacts DEF Settled
  <2>5. Settled => Settled'
    BY <1>1, <2>1 DEF Settled, Near
  <2>6. Forgotten => Forgotten'
    BY <2>1 DEF Forgotten, Fresh
  <2>7. Counting => Settled'
    <3> SUFFICES ASSUME NEW a \in Actor, pc[a] \in {"count", "usageDb"} PROVE Settled'
      BY DEF Counting
    <3>1. \/ a \in Talker /\ pc[a] = "count"
          \/ a \in Summariser /\ pc[a] = "usageDb"
      BY <1>1 DEF Rested, Apart
    <3> QED BY <2>3, <2>4, <3>1
  <2> QED BY <2>2, <2>5, <2>6, <2>7 DEF Owed, Totals
<1>3. ASSUME NEW a \in Actor, CancelContext(a) PROVE Owed'
  <2>1. holder = a /\ a \in Talker
    BY <1>1, <1>3 DEF CancelContext, Alone, Resting
  <2>2. /\ UNCHANGED <<pc, meta, dbTokens, own, hash>> /\ faults' = faults + 1
    BY <1>3, <2>1 DEF CancelContext, Fault, chat, local
  <2>3. ASSUME NEW t \in Talker PROVE Told(t)'
    <3>1. Told(t)
      BY DEF Owed
    <3>2. /\ Near(meta.tokens + 1, dbTokens, faults) =>
                /\ Near(meta.tokens + 1, dbTokens, faults + 1)
                /\ Near(meta.tokens, dbTokens, faults + 1)
      BY <1>1, NearFacts
    <3> QED BY <2>2, <3>1, <3>2 DEF Told
  <2>4. ASSUME NEW s \in Summariser PROVE CopyOf(s)'
    <3>1. CopyOf(s) /\ own[s].tokens \in Nat /\ hash[s].tokens \in Nat
      BY <1>1 DEF Owed
    <3>2. /\ Near(own[s].tokens, dbTokens, faults) => Near(own[s].tokens, dbTokens, faults + 1)
          /\ Near(hash[s].tokens, dbTokens, faults) => Near(hash[s].tokens, dbTokens, faults + 1)
      BY <1>1, <3>1, NearFacts
    <3>3. \A m \in Nat : Near(m, dbTokens + 1, faults) => Near(m, dbTokens + 1, faults + 1)
      BY <1>1, NearFacts
    <3> QED BY <1>1, <2>2, <3>1, <3>2, <3>3 DEF CopyOf
  <2>5. Settled => Settled'
    BY <1>1, <2>2, NearFacts DEF Settled
  <2>6. Totals'
    BY <2>2, <2>5 DEF Owed, Totals, Counting, Forgotten
  <2> QED BY <2>3, <2>4, <2>6 DEF Owed
<1> QED BY <1>2, <1>3

\* When Redis forgets the hash, everyone rests.
LEMMA ExpireSettles ==
  ASSUME Types, Rested, Expire
  PROVE  Alone' /\ Owed'
<1>1. /\ UNCHANGED <<pc, live>> /\ meta' = Blank /\ \A a \in Actor : pc[a] = "idle"
      /\ Talker \subseteq Actor /\ Summariser \subseteq Actor
  BY UsageTypes DEF Expire
<1>2. Alone'
  BY <1>1 DEF Alone, Rested, Apart, Resting
<1>3. Owed'
  BY <1>1 DEF Owed, Told, CopyOf, Copied, Totals, Forgotten, Fresh
<1> QED BY <1>2, <1>3

\* The usage that is shown is that in MySQL, but for one count at most for each
\* failure, whichever summaries wrote their copies of the hash back: while no
\* lease is lost, whoever writes one is the only one at work, and a request has
\* restored what Redis forgot before it counts (RecordTokenUsage,
\* generateSummary, restoreTotalTokenUsage).
THEOREM UsageCorrect == Spec => []UsageAgrees
<1>1. Init => Types /\ UsageInv
  <2> SUFFICES ASSUME Init PROVE UsageInv
    BY InitTypes
  <2>1. \A a \in Actor : pc[a] = "idle" /\ live[a]
    BY DEF Init
  <2>2. meta = Blank
    BY DEF Init
  <2> QED BY <2>1, <2>2
          DEF UsageInv, Rested, Apart, Alone, Resting, Owed, Told, CopyOf, Copied, Totals,
              Forgotten, Fresh, Actor
<1>2. Types /\ UsageInv /\ [Next]_vars => (Types /\ UsageInv)'
  <2> SUFFICES ASSUME Types, UsageInv, [Next]_vars PROVE Types' /\ UsageInv'
    OBVIOUS
  <2>1. Types'
    BY RowsStep, HashesStep, ControlStep, HistoryStep, TextsStep DEF Types
  <2>2. Rested /\ Rested'
    BY RestedStep DEF UsageInv
  <2>3. ASSUME Steady', ~Expire PROVE Alone' /\ Owed'
    <3>1. Steady /\ Alone /\ Owed /\ ~LoseLease /\ ~DeleteApp
      BY <2>3, StaysSteady DEF UsageInv
    <3>2. Alone'
      BY <2>2, <2>3, <3>1, AloneStep
    <3>3. CASE UNCHANGED vars
      BY <3>1, <3>3
         DEF vars, chat, local, Alone, Owed, Told, CopyOf, Totals, Counting, Settled,
             Forgotten
    <3>4. Owed'
      BY <2>2, <2>3, <3>1, <3>3, StepsAre, TalkKeepsUsage, SummaryKeepsUsage,
         OthersKeepUsage, FaultKeepsUsage
    <3> QED BY <3>2, <3>4
  <2>4. ASSUME Expire PROVE Alone' /\ Owed'
    BY <2>2, <2>4, ExpireSettles
  <2>5. UsageInv'
    BY <2>2, <2>3, <2>4 DEF UsageInv
  <2> QED BY <2>1, <2>5
<1>3. Types /\ UsageInv => UsageAgrees
  <2> SUFFICES ASSUME Types, UsageInv, ~adrift, alive, ~Counting
               PROVE  ShownTokens <= dbTokens + faults /\ dbTokens <= ShownTokens + faults
    BY DEF UsageAgrees
  <2>1. dbTokens \in Nat /\ faults \in Nat
    BY UsageTypes
  <2>2. Settled \/ Forgotten
    BY DEF UsageInv, Steady, Owed, Totals
  <2>3. Blank.tokens = 0
    BY DEF Blank
  <2>4. \/ ShownTokens = dbTokens
        \/ ShownTokens = meta.tokens /\ Near(meta.tokens, dbTokens, faults)
    BY <2>2, <2>3 DEF ShownTokens, Settled, Forgotten
  <2>5. CASE ShownTokens = dbTokens
    BY <2>1, <2>5
  <2> QED BY <2>4, <2>5 DEF Near
<1> QED BY <1>1, <1>2, <1>3, PTL DEF Spec

=============================================================================
