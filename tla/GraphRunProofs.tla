---------------------------- MODULE GraphRunProofs ----------------------------
(***************************************************************************)
(* Proofs about GraphRun, for any number of crashes and faults and any     *)
(* limits: its types, that no plan is carried out that was not approved,   *)
(* that the budget is kept by all attempts together, and that what is      *)
(* published is what was checked.                                          *)
(***************************************************************************)
EXTENDS GraphRun, TLAPS

-----------------------------------------------------------------------------
(* The invariant.  First the types, in parts that can be used one by one.    *)

RowTypes ==
  /\ status \in Status
  /\ cp \in Checkpoint \cup {None}
  /\ published \in Nat \cup {None}
PlaceTypes == pc \in PC /\ node \in Node /\ aim \in Aim
WorkTypes ==
  /\ wc \in Context /\ files \in Nat /\ hash \in Type \cup {None}
  /\ journal \in [Call -> {"none", "running", "succeeded", "uncertain"}]
MeterTypes == used \in Usage /\ broken \in BOOLEAN
GhostTypes ==
  /\ approved \subseteq Type
  /\ spent \in Spending
  /\ accepted \subseteq Nat /\ made \in Nat
EnvTypes ==
  /\ require \in BOOLEAN /\ mode \in {"bootstrap", "modify"} /\ build \in Nat
  /\ crashes \in 0 .. MaxCrashes /\ faults \in 0 .. MaxFaults
Types == RowTypes /\ PlaceTypes /\ WorkTypes /\ MeterTypes /\ GhostTypes /\ EnvTypes

InAttempt == pc \notin {"idle", "begin", "leaving"}
Planned == {"code_generator", "quality_check", "END"}   \* entries that need a plan

\* Where the attempt is agrees with the row, and tells what it holds.
PlaceInv ==
  /\ (pc = "idle") <=> (status \notin Executing)
  /\ status \in Parked => cp # None
  /\ pc = "leaving" => \/ aim = "failed"
                       \/ aim \in {"paused", "awaiting_approval"} /\ cp # None
  /\ pc \in {"saved", "result", "done"} => cp # None
  /\ ~InAttempt => used = NoUse /\ node = "router" /\ wc = Fresh(None) /\ hash = None

\* Only agents and the code generator's tools are called; a node that is done
\* names the one that follows it.
OrderInv ==
  /\ pc \in {"tool", "claiming", "changing"} => node = "code_generator"
  /\ node = "prompt_enhancer" => pc \in {"node", "point", "save", "saved"}
  /\ pc \in {"result", "done"} => node = "quality_check"
  /\ pc \in {"save", "saved"} =>
       /\ aim \in {"commit", "blocked", "point"}
       /\ node = "prompt_enhancer" => aim = "point"
       /\ aim = "point" =>
            /\ node = "router" => wc.next = "prompt_enhancer"
            /\ node = "prompt_enhancer" => wc.next = "code_generator"
            /\ node = "code_generator" => wc.next = "quality_check"
            /\ node = "quality_check" => wc.next \in {"code_generator", "END"}

\* What the provider was asked for is covered twice: by the attempt's budget
\* while there is an attempt, and by the checkpoint's with what it has reserved;
\* both are short of the bills they never saw, and of nothing else.
SpendInv ==
  /\ spent.calls <= ModelCalls
  /\ spent.tokens + used.reserved <= Tokens + spent.over + spent.unseen
  /\ pc # "called" => used.reserved = 0
  /\ pc = "called" => spent.over = 0
  /\ InAttempt => /\ spent.calls <= used.calls /\ used.calls <= ModelCalls
                  /\ spent.tokens <= used.tokens + spent.unseen
  /\ cp # None =>
       /\ spent.calls <= cp.used.calls /\ cp.used.calls <= ModelCalls
       /\ spent.tokens + used.reserved <= cp.used.tokens + cp.used.reserved + spent.unseen
  /\ cp = None /\ (status = "pending" \/ pc = "begin") => spent.calls = 0 /\ spent.tokens = 0

\* Past the router there is a type, past the enhancer a plan, in the checkpoint
\* as in the attempt.
PlanInv ==
  /\ InAttempt /\ node # "router" => wc.type # None
  /\ node \in Planned => wc.plan # None
  /\ wc.next # "router" => wc.type # None
  /\ wc.next \in Planned => wc.plan # None
  /\ pc = "point" /\ node = "router" => wc.type # None
  /\ pc = "point" /\ node = "prompt_enhancer" => wc.plan # None
  /\ cp # None => /\ cp.wc.next # "router" => cp.wc.type # None
                  /\ cp.wc.next \in Planned => cp.wc.plan # None

\* At most one plan was ever approved: the checkpoint's, which no later step
\* changes, and whose approval every attempt carries.
GateInv ==
  /\ require /\ node = "code_generator" => wc.plan = hash
  /\ hash \in approved \cup {None}
  /\ cp # None => cp.approved \in approved \cup {None}
  /\ approved # {} => /\ cp # None /\ cp.wc.plan # None
                      /\ approved = {cp.wc.plan} /\ cp.approved = cp.wc.plan
                      /\ InAttempt => hash = wc.plan /\ wc.plan = cp.wc.plan
  /\ (pc = "leaving" /\ aim = "awaiting_approval") \/ status = "awaiting_approval"
       => approved = {} /\ cp.wc.plan # None
  /\ pc = "saved" => cp.wc = wc

\* While the verdict is "valid" the files are those it was given for, and nothing
\* but the way out is left.
FileInv ==
  /\ wc.verdict = "valid" =>
       /\ files \in accepted /\ node = "quality_check"
       /\ pc \in {"point", "save", "saved", "result", "done"}
       /\ pc # "point" => wc.next = "END"
       /\ pc \in {"save", "saved"} => aim = "point"
  /\ cp # None /\ cp.wc.verdict = "valid" => cp.files \in accepted /\ cp.wc.next = "END"
  /\ pc = "done" => wc.verdict = "valid"
  /\ published \in accepted \cup {None}

-----------------------------------------------------------------------------
(* The budget's operators                                                  *)

\* The lesser of two numbers.
LEMMA LesserOfTwo ==
  ASSUME NEW a \in Nat, NEW b \in Nat
  PROVE  Min({a, b}) \in Nat /\ Min({a, b}) <= a /\ Min({a, b}) <= b
<1>1. \E x \in {a, b} : \A y \in {a, b} : x <= y
  <2>1. CASE a <= b BY <2>1
  <2>2. CASE b <= a BY <2>2
  <2> QED BY <2>1, <2>2
<1> QED BY <1>1 DEF Min

\* A use that grows is a use.
LEMMA GrowingUse ==
  ASSUME NEW u \in Usage
  PROVE  /\ [u EXCEPT !.tools = @ + 1] \in Usage
         /\ [u EXCEPT !.tools = @ + 1].calls = u.calls
         /\ [u EXCEPT !.tools = @ + 1].tokens = u.tokens
         /\ [u EXCEPT !.tools = @ + 1].reserved = u.reserved
         /\ [u EXCEPT !.retries = @ + 1] \in Usage
         /\ [u EXCEPT !.retries = @ + 1].calls = u.calls
         /\ [u EXCEPT !.retries = @ + 1].tokens = u.tokens
         /\ [u EXCEPT !.retries = @ + 1].reserved = u.reserved
         /\ CountCall(u) \in Usage
         /\ CountCall(u).calls = u.calls + 1
         /\ CountCall(u).tokens = u.tokens
         /\ CountCall(u).reserved = u.reserved
BY DEF Usage, CountCall

\* Settling turns a reservation into tokens used.
LEMMA SettledUse ==
  ASSUME NEW u \in Usage, NEW n \in Nat
  PROVE  /\ Settle(u, n) \in Usage
         /\ Settle(u, n).calls = u.calls
         /\ Settle(u, n).tokens = u.tokens + n
         /\ Settle(u, n).reserved = 0
<1>1. /\ u.calls \in Nat /\ u.tools \in Nat /\ u.retries \in Nat /\ u.tokens \in Nat
      /\ u = [calls |-> u.calls, tools |-> u.tools, retries |-> u.retries,
              tokens |-> u.tokens, reserved |-> u.reserved]
  BY DEF Usage
<1>2. [u EXCEPT !.tokens = u.tokens + n]
        = [calls |-> u.calls, tools |-> u.tools, retries |-> u.retries,
           tokens |-> u.tokens + n, reserved |-> u.reserved]
  BY <1>1
<1>4. Settle(u, n) = [[u EXCEPT !.tokens = u.tokens + n] EXCEPT !.reserved = 0]
  BY DEF Settle
<1>5. Settle(u, n) = [calls |-> u.calls, tools |-> u.tools, retries |-> u.retries,
                      tokens |-> u.tokens + n, reserved |-> 0]
  BY <1>2, <1>4
<1>3. u.tokens + n \in Nat
  BY <1>1
<1> QED BY <1>1, <1>3, <1>5 DEF Usage

\* What is reserved is left.
LEMMA ReservedUse ==
  ASSUME NEW u \in Usage, u.reserved = 0, Left(u) > 0
  PROVE  /\ Reserve(u) \in Usage
         /\ Reserve(u).calls = u.calls
         /\ Reserve(u).tokens = u.tokens
         /\ u.tokens + Reserve(u).reserved <= Tokens
<1>1. u.tokens \in Nat /\ OutputTokens \in Nat /\ Tokens \in Nat
  BY GraphAssumption DEF Usage, GraphAssumption
<1>2. Left(u) \in Nat /\ Left(u) = Tokens - u.tokens - 1
  BY <1>1 DEF Left
<1> DEFINE m == Min({OutputTokens, Left(u)})
<1>3. m \in Nat /\ m <= Left(u)
  BY <1>1, <1>2, LesserOfTwo
<1> HIDE DEF m
<1>4. Reserve(u) = [u EXCEPT !.reserved = 1 + m]
  BY DEF Reserve, m
<1> QED BY <1>1, <1>2, <1>3, <1>4 DEF Usage

\* The checkpoint with another budget is otherwise the same.
LEMMA ObservedCheckpoint ==
  ASSUME cp \in Checkpoint \cup {None}, NEW u \in Usage
  PROVE  /\ Observed(u) \in Checkpoint \cup {None}
         /\ Observed(u) = None <=> cp = None
         /\ cp # None => /\ Observed(u).used = u
                         /\ Observed(u).wc = cp.wc
                         /\ Observed(u).files = cp.files
                         /\ Observed(u).approved = cp.approved
                         /\ Observed(u).build = cp.build
<1>1. CASE cp = None
  BY <1>1 DEF Observed
<1>2. CASE cp # None
  <2>1. cp \in Checkpoint /\ Observed(u) = [cp EXCEPT !.used = u]
    BY <1>2 DEF Observed
  <2>2. cp = [wc |-> cp.wc, files |-> cp.files, used |-> cp.used,
              approved |-> cp.approved, build |-> cp.build]
    BY <2>1 DEF Checkpoint
  <2>3. Observed(u) = [wc |-> cp.wc, files |-> cp.files, used |-> u,
                       approved |-> cp.approved, build |-> cp.build]
    BY <2>1, <2>2
  <2>4. Observed(u) \in Checkpoint
    BY <2>1, <2>3 DEF Checkpoint
  <2> QED BY <1>2, <2>3, <2>4, NoneAssumption DEF NoneAssumption
<1> QED BY <1>1, <1>2

\* What a checkpoint holds.
LEMMA CheckpointParts ==
  ASSUME NEW k \in Checkpoint
  PROVE  /\ k.wc \in Context /\ k.files \in Nat /\ k.used \in Usage
         /\ k.approved \in Type \cup {None} /\ k.build \in Nat
BY DEF Checkpoint

\* What is saved is a checkpoint, and is not none.
LEMMA SavedCheckpoint ==
  ASSUME WorkTypes, MeterTypes, EnvTypes
  PROVE  /\ Saved \in Checkpoint /\ Saved # None
         /\ Saved.wc = wc /\ Saved.files = files /\ Saved.used = used
         /\ Saved.approved = hash
<1>1. wc \in Context /\ files \in Nat /\ used \in Usage /\ hash \in Type \cup {None} /\ build \in Nat
  BY DEF WorkTypes, MeterTypes, EnvTypes
<1>2. Saved = [wc |-> wc, files |-> files, used |-> used, approved |-> hash, build |-> build]
  BY DEF Saved, Carried
<1>3. Saved \in Checkpoint
  BY <1>1, <1>2 DEF Checkpoint
<1> QED BY <1>2, <1>3, NoneAssumption DEF NoneAssumption

\* Only the budget of the checkpoint may change.
SameCheckpoint ==
  /\ cp' \in Checkpoint \cup {None}
  /\ cp' = None <=> cp = None
  /\ cp # None => /\ cp'.wc = cp.wc /\ cp'.files = cp.files
                  /\ cp'.approved = cp.approved

\* A limited resource is taken and that is on record, or something is wrong.
LEMMA ConsumeStep ==
  ASSUME RowTypes, MeterTypes, EnvTypes, NEW u \in Usage, NEW p \in PC,
         NEW count, NEW limit, Consume(count, limit, u, p)
  PROVE  /\ SameCheckpoint
         /\ cp # None => \/ cp'.used = used'
                         \/ cp'.used = cp.used
         /\ used' \in {used, u} /\ broken' \in BOOLEAN
         /\ pc' \in {p, "erred"}
         /\ pc' = p /\ p # "erred" => count < limit /\ used' = u
         /\ faults' \in 0 .. MaxFaults
<1>1. /\ Observed(u) \in Checkpoint \cup {None} /\ (Observed(u) = None <=> cp = None)
      /\ cp # None => /\ Observed(u).used = u /\ Observed(u).wc = cp.wc
                      /\ Observed(u).files = cp.files /\ Observed(u).approved = cp.approved
  BY ObservedCheckpoint DEF RowTypes
<1>2. /\ cp \in Checkpoint \cup {None} /\ used \in Usage /\ broken \in BOOLEAN
      /\ faults \in 0 .. MaxFaults
  BY DEF RowTypes, MeterTypes, EnvTypes
<1>3. CASE cp' = Observed(u) /\ pc' = p /\ used' = u /\ count < limit /\ UNCHANGED <<broken, faults>>
  BY <1>1, <1>2, <1>3 DEF SameCheckpoint
<1>4. CASE WriteFails({u}) /\ pc' = "erred" /\ used' = u /\ count < limit
  <2>1. cp' \in {cp, Observed(u)} /\ broken' = TRUE
    BY <1>4 DEF WriteFails
  <2>2. faults' \in 0 .. MaxFaults
    BY <1>2, <1>4, GraphAssumption DEF WriteFails, Fault, GraphAssumption
  <2> QED BY <1>1, <1>2, <1>4, <2>1, <2>2 DEF SameCheckpoint
<1>5. CASE pc' = "erred" /\ UNCHANGED <<cp, meter, faults>> /\ ~(Within /\ count < limit)
  <2>1. cp' = cp /\ used' = used /\ broken' = broken /\ faults' = faults
    BY <1>5 DEF meter
  <2> QED BY <1>2, <1>5, <2>1 DEF SameCheckpoint
<1> QED BY <1>3, <1>4, <1>5 DEF Consume

\* A model call is asked for, within the limits and on record, or something is
\* wrong and nobody was asked.
LEMMA AskStep ==
  ASSUME RowTypes, MeterTypes, EnvTypes, AskModel, used.reserved = 0
  PROVE  /\ SameCheckpoint
         /\ used' \in Usage /\ broken' \in BOOLEAN /\ faults' \in 0 .. MaxFaults
         /\ \/ /\ pc' = "called" /\ used.calls < ModelCalls
               /\ used'.calls = used.calls + 1 /\ used'.tokens = used.tokens
               /\ used.tokens + used'.reserved <= Tokens
               /\ spent' = [spent EXCEPT !.calls = @ + 1, !.over = 0]
               /\ cp # None => cp'.used = used'
            \/ /\ pc' = "erred" /\ used'.reserved = 0 /\ used'.tokens = used.tokens
               /\ \/ used'.calls = used.calls
                  \/ used'.calls = used.calls + 1 /\ used.calls < ModelCalls
               /\ spent' = spent
               /\ cp # None => \/ cp'.used = cp.used
                               \/ /\ cp'.used \in Usage /\ cp'.used.calls = used'.calls
                                  /\ cp'.used.tokens = used.tokens
                                  /\ used.tokens + cp'.used.reserved <= Tokens
<1> DEFINE c == CountCall(used)
           r == Reserve(c)
<1>1. /\ cp \in Checkpoint \cup {None} /\ used \in Usage /\ broken \in BOOLEAN
      /\ faults \in 0 .. MaxFaults
  BY DEF RowTypes, MeterTypes, EnvTypes
<1>2. /\ c \in Usage /\ c.calls = used.calls + 1 /\ c.tokens = used.tokens /\ c.reserved = 0
      /\ used.tokens \in Nat /\ Left(used) = Left(c) /\ Tokens \in Nat
  BY <1>1, GrowingUse, GraphAssumption DEF Left, Usage, GraphAssumption
<1>3. CASE Within /\ used.calls < ModelCalls /\ Left(used) > 0
  <2>1. /\ r \in Usage /\ r.calls = c.calls /\ r.tokens = c.tokens
        /\ c.tokens + r.reserved <= Tokens
    <3> HIDE DEF c
    <3> QED BY <1>2, <1>3, ReservedUse
  <2> HIDE DEF c, r
  <2>2. \A u \in {c, r} :
          /\ Observed(u) \in Checkpoint \cup {None} /\ (Observed(u) = None <=> cp = None)
          /\ cp # None => /\ Observed(u).used = u /\ Observed(u).wc = cp.wc
                          /\ Observed(u).files = cp.files /\ Observed(u).approved = cp.approved
    BY <1>1, <1>2, <2>1, ObservedCheckpoint
  <2>3. \/ /\ used' = r /\ cp' = Observed(r) /\ pc' = "called"
           /\ spent' = [spent EXCEPT !.calls = @ + 1, !.over = 0] /\ UNCHANGED <<broken, faults>>
        \/ /\ used' = c /\ WriteFails({c, r}) /\ pc' = "erred" /\ UNCHANGED spent
    BY <1>3 DEF AskModel, c, r
  <2>4. CASE used' = r /\ cp' = Observed(r) /\ pc' = "called"
             /\ spent' = [spent EXCEPT !.calls = @ + 1, !.over = 0] /\ UNCHANGED <<broken, faults>>
    BY <1>1, <1>2, <1>3, <2>1, <2>2, <2>4 DEF SameCheckpoint
  <2>5. CASE used' = c /\ WriteFails({c, r}) /\ pc' = "erred" /\ UNCHANGED spent
    <3>1. cp' \in {cp, Observed(c), Observed(r)} /\ broken' = TRUE
      BY <2>5 DEF WriteFails
    <3>2. faults' \in 0 .. MaxFaults
      BY <1>1, <2>5, GraphAssumption DEF WriteFails, Fault, GraphAssumption
    <3>3. c.tokens <= Tokens
      BY <1>1, <1>2, <1>3 DEF Within
    <3> QED BY <1>1, <1>2, <1>3, <2>1, <2>2, <2>5, <3>1, <3>2, <3>3 DEF SameCheckpoint
  <2> QED BY <2>3, <2>4, <2>5
<1>4. CASE ~(Within /\ used.calls < ModelCalls /\ Left(used) > 0)
  <2> HIDE DEF c, r
  <2>1. Consume(used.calls, ModelCalls, c, "erred") /\ UNCHANGED spent
    BY <1>4 DEF AskModel, c
  <2>2. "erred" \in PC
    BY DEF PC
  <2>3. /\ SameCheckpoint /\ used' \in {used, c} /\ broken' \in BOOLEAN /\ pc' = "erred"
        /\ faults' \in 0 .. MaxFaults
    BY <1>2, <2>1, <2>2, ConsumeStep
  <2>4. CASE Within /\ used.calls < ModelCalls
    <3>1. used' = c /\ cp' \in {cp, Observed(c)}
      BY <2>1, <2>4 DEF Consume, WriteFails
    <3>2. cp # None => Observed(c).used = c
      BY <1>1, <1>2, ObservedCheckpoint
    <3>3. c.tokens <= Tokens
      BY <1>2, <2>4 DEF Within
    <3> QED BY <1>1, <1>2, <2>1, <2>3, <2>4, <3>1, <3>2, <3>3
  <2>5. CASE ~(Within /\ used.calls < ModelCalls)
    <3>1. used' = used /\ cp' = cp
      BY <2>1, <2>5 DEF Consume, meter
    <3> QED BY <1>1, <2>1, <2>3, <3>1
  <2> QED BY <2>4, <2>5
<1> QED BY <1>3, <1>4

\* What a bill does to what was spent.
LEMMA BilledSpending ==
  ASSUME spent \in Spending, NEW bill \in Nat, NEW over \in Nat, NEW unseen \in Nat,
         Billed(bill, over, unseen)
  PROVE  /\ spent' \in Spending
         /\ spent'.calls = spent.calls /\ spent'.tokens = spent.tokens + bill + over
         /\ spent'.over = over /\ spent'.unseen = spent.unseen + unseen
<1>1. spent' = [calls |-> spent.calls, tokens |-> spent.tokens + bill + over,
                over |-> over, unseen |-> spent.unseen + unseen]
  BY DEF Billed, Spending
<1>2. spent.calls \in Nat /\ spent.tokens + bill + over \in Nat /\ spent.unseen + unseen \in Nat
  BY DEF Spending
<1> QED BY <1>1, <1>2 DEF Spending

LEMMA AskedSpending ==
  ASSUME spent \in Spending, spent' = [spent EXCEPT !.calls = @ + 1, !.over = 0]
  PROVE  /\ spent' \in Spending
         /\ spent'.calls = spent.calls + 1 /\ spent'.tokens = spent.tokens
         /\ spent'.over = 0 /\ spent'.unseen = spent.unseen
<1>1. spent' = [calls |-> spent.calls + 1, tokens |-> spent.tokens, over |-> 0,
                unseen |-> spent.unseen]
  BY DEF Spending
<1>2. spent.calls + 1 \in Nat /\ spent.tokens \in Nat /\ spent.unseen \in Nat
  BY DEF Spending
<1> QED BY <1>1, <1>2 DEF Spending

\* What a call has cost replaces what was reserved for it; what is not on record
\* of a bill that exceeds the reservation is counted as unseen.
LEMMA FinishStep ==
  ASSUME RowTypes, MeterTypes, EnvTypes, FinishModel
  PROVE  /\ SameCheckpoint
         /\ used' \in Usage /\ broken' \in BOOLEAN /\ faults' \in 0 .. MaxFaults
         /\ pc' \in {"answered", "lost"}
         /\ \E bill \in 0 .. used.reserved, over, unseen, charged \in Nat :
              /\ Billed(bill, over, unseen)
              /\ over = 0 \/ bill = used.reserved
              /\ bill + over <= charged + unseen
              /\ used'.calls = used.calls /\ used'.tokens = used.tokens + charged
              /\ cp # None => \/ cp'.used = used'
                              \/ cp'.used = cp.used /\ bill + over <= used.reserved + unseen
         /\ used'.reserved = 0
<1>1. /\ cp \in Checkpoint \cup {None} /\ used \in Usage /\ broken \in BOOLEAN
      /\ faults \in 0 .. MaxFaults /\ used.reserved \in Nat /\ MaxOver \in Nat
  BY GraphAssumption DEF RowTypes, MeterTypes, EnvTypes, Usage, GraphAssumption
<1> DEFINE Write == cp' = Observed(used') /\ UNCHANGED <<broken, faults>>
<1>2. PICK bill \in 0 .. used.reserved, over \in 0 .. MaxOver, unseen \in Nat,
           charged \in Nat :
        /\ Billed(bill, over, unseen) /\ (over = 0 \/ bill = used.reserved)
        /\ used' = Settle(used, charged) /\ pc' \in {"answered", "lost"}
        /\ bill + over <= charged + unseen
        /\ Write \/ (WriteFails({used'}) /\ unseen = over)
  <2>1. PICK bill \in 0 .. used.reserved : \E over \in Overrun(bill) :
          \/ pc' = "answered" /\ used' = Settle(used, bill + over)
             /\ ((Write /\ Billed(bill, over, 0)) \/ (WriteFails({used'}) /\ Billed(bill, over, over)))
          \/ pc' = "lost" /\ bill = used.reserved /\ used' = Settle(used, bill)
             /\ Billed(bill, over, over) /\ (Write \/ WriteFails({used'}))
    BY DEF FinishModel
  <2>2. PICK over \in Overrun(bill) :
          \/ pc' = "answered" /\ used' = Settle(used, bill + over)
             /\ ((Write /\ Billed(bill, over, 0)) \/ (WriteFails({used'}) /\ Billed(bill, over, over)))
          \/ pc' = "lost" /\ bill = used.reserved /\ used' = Settle(used, bill)
             /\ Billed(bill, over, over) /\ (Write \/ WriteFails({used'}))
    BY <2>1
  <2>3. over \in 0 .. MaxOver /\ (over = 0 \/ bill = used.reserved) /\ bill \in Nat /\ over \in Nat
    BY <1>1, <2>2 DEF Overrun
  <2>4. bill + over \in Nat /\ bill + over <= bill + over + 0 /\ bill + over <= bill + over + over
    BY <2>3
  <2> HIDE DEF Write
  <2>5. CASE pc' = "answered" /\ used' = Settle(used, bill + over) /\ Write /\ Billed(bill, over, 0)
    BY <2>3, <2>4, <2>5
  <2>6. CASE pc' = "answered" /\ used' = Settle(used, bill + over)
             /\ WriteFails({used'}) /\ Billed(bill, over, over)
    BY <2>3, <2>4, <2>6
  <2>7. CASE pc' = "lost" /\ used' = Settle(used, bill) /\ Billed(bill, over, over)
             /\ (Write \/ WriteFails({used'}))
    BY <2>3, <2>4, <2>7
  <2> QED BY <2>2, <2>5, <2>6, <2>7
<1>3. /\ used' \in Usage /\ used'.calls = used.calls
      /\ used'.tokens = used.tokens + charged /\ used'.reserved = 0
  BY <1>1, <1>2, SettledUse
<1>4. /\ Observed(used') \in Checkpoint \cup {None} /\ (Observed(used') = None <=> cp = None)
      /\ cp # None => /\ Observed(used').used = used' /\ Observed(used').wc = cp.wc
                      /\ Observed(used').files = cp.files
                      /\ Observed(used').approved = cp.approved
  <2>1. \A u \in Usage :
          /\ Observed(u) \in Checkpoint \cup {None} /\ (Observed(u) = None <=> cp = None)
          /\ cp # None => /\ Observed(u).used = u /\ Observed(u).wc = cp.wc
                          /\ Observed(u).files = cp.files /\ Observed(u).approved = cp.approved
    BY <1>1, ObservedCheckpoint
  <2> QED BY <1>3, <2>1
<1>5. /\ cp' = Observed(used') \/ (cp' = cp /\ unseen = over)
      /\ broken' \in BOOLEAN /\ faults' \in 0 .. MaxFaults
  <2>1. cp' = Observed(used') \/ (cp' = cp /\ unseen = over)
    BY <1>2 DEF WriteFails
  <2>2. broken' \in BOOLEAN
    BY <1>1, <1>2 DEF WriteFails
  <2>3. faults' \in 0 .. MaxFaults
    <3>1. faults' = faults \/ Fault
      BY <1>2 DEF WriteFails
    <3> QED BY <1>1, <3>1, GraphAssumption DEF Fault, GraphAssumption
  <2> QED BY <2>1, <2>2, <2>3
<1>6. /\ SameCheckpoint
      /\ cp # None => cp'.used = used' \/ (cp'.used = cp.used /\ unseen = over)
  BY <1>1, <1>4, <1>5 DEF SameCheckpoint
<1>7. unseen = over => bill + over <= used.reserved + unseen
  BY <1>1, <1>2
<1>8. over \in Nat /\ unseen \in Nat
  BY <1>1, <1>2
<1> QED BY <1>2, <1>3, <1>5, <1>6, <1>7, <1>8

\* A retry, a tool call or a repair is charged, or something is wrong; tokens and
\* calls stay as they are.
LEMMA UseStep ==
  ASSUME RowTypes, MeterTypes, EnvTypes, RetryModel \/ UseTool \/ PostHandler
  PROVE  /\ SameCheckpoint
         /\ used' \in Usage /\ used'.calls = used.calls /\ used'.tokens = used.tokens
         /\ used'.reserved = used.reserved
         /\ broken' \in BOOLEAN /\ faults' \in 0 .. MaxFaults
         /\ pc' \in {"erred"} \cup (IF pc = "lost" THEN {"asking"} ELSE
                                    IF pc = "tool" THEN {"claiming"} ELSE {"save"})
         /\ cp # None => cp'.used = used' \/ cp'.used = cp.used
<1>1. /\ cp \in Checkpoint \cup {None} /\ used \in Usage /\ broken \in BOOLEAN
      /\ faults \in 0 .. MaxFaults
  BY DEF RowTypes, MeterTypes, EnvTypes
<1>2. "asking" \in PC /\ "claiming" \in PC /\ "save" \in PC
  BY DEF PC
<1>3. CASE UNCHANGED <<cp, meter, faults>>
  <2>1. cp' = cp /\ used' = used /\ broken' = broken /\ faults' = faults
    BY <1>3 DEF meter
  <2>2. pc' \in {"erred"} \cup (IF pc = "lost" THEN {"asking"} ELSE
                                IF pc = "tool" THEN {"claiming"} ELSE {"save"})
    BY DEF RetryModel, UseTool, PostHandler, Consume
  <2> QED BY <1>1, <2>1, <2>2 DEF SameCheckpoint
<1>4. ASSUME NEW count, NEW limit, NEW p \in PC, NEW u \in Usage,
             u.calls = used.calls, u.tokens = used.tokens, u.reserved = used.reserved,
             Consume(count, limit, u, p),
             p = (IF pc = "lost" THEN "asking" ELSE IF pc = "tool" THEN "claiming" ELSE "save")
      PROVE  /\ SameCheckpoint
             /\ used' \in Usage /\ used'.calls = used.calls /\ used'.tokens = used.tokens
             /\ used'.reserved = used.reserved
             /\ broken' \in BOOLEAN /\ faults' \in 0 .. MaxFaults
             /\ pc' \in {"erred"} \cup (IF pc = "lost" THEN {"asking"} ELSE
                                        IF pc = "tool" THEN {"claiming"} ELSE {"save"})
             /\ cp # None => cp'.used = used' \/ cp'.used = cp.used
  BY <1>1, <1>4, ConsumeStep
<1>5. CASE RetryModel /\ aim = "answer"
  BY <1>1, <1>2, <1>4, <1>5, GrowingUse DEF RetryModel
<1>6. CASE UseTool
  BY <1>1, <1>2, <1>4, <1>6, GrowingUse DEF UseTool
<1>7. CASE PostHandler /\ Repairs
  BY <1>1, <1>2, <1>4, <1>7, GrowingUse DEF PostHandler
<1>8. CASE (RetryModel /\ aim # "answer") \/ (PostHandler /\ ~Repairs)
  BY <1>3, <1>8 DEF RetryModel, PostHandler
<1> QED BY <1>5, <1>6, <1>7, <1>8

-----------------------------------------------------------------------------
(* Types are kept                                                          *)

LEMMA RowTypesKept ==
  ASSUME Types, PlaceInv, SpendInv, Next
  PROVE  RowTypes'
<1> USE DEF Types
<1>1. status \in Status /\ cp \in Checkpoint \cup {None} /\ published \in Nat \cup {None}
  BY DEF RowTypes
<1>2. CASE AskModel
  BY <1>1, <1>2, AskStep DEF AskModel, row, SameCheckpoint, RowTypes, SpendInv
<1>3. CASE FinishModel
  BY <1>1, <1>3, FinishStep DEF FinishModel, row, SameCheckpoint, RowTypes
<1>4. CASE RetryModel \/ UseTool \/ PostHandler
  BY <1>1, <1>4, UseStep DEF RetryModel, UseTool, PostHandler, row, SameCheckpoint, RowTypes
<1>5. CASE SafePoint
  BY <1>1, <1>5, SavedCheckpoint DEF SafePoint, row, RowTypes
<1>6. CASE Approve
  <2>1. cp.wc \in Context /\ cp # None
    BY <1>1, <1>6, CheckpointParts DEF Approve, PlaceInv, Parked
  <2>2. [cp EXCEPT !.approved = cp.wc.plan] \in Checkpoint
    BY <1>1, <2>1 DEF Checkpoint, Context
  <2> QED BY <1>1, <1>6, <2>2 DEF Approve, Control, RowTypes, Status
<1>7. CASE Start \/ Pause \/ Resume \/ Crash \/ Leave
  <2>1. UNCHANGED <<cp, published>>
    BY <1>7 DEF Start, Pause, Resume, Crash, Leave, Control
  <2>2. status' \in Status
    BY <1>1, <1>7 DEF Start, Pause, Resume, Crash, Leave, Control, PlaceInv, Status, Executing,
                     Parked
  <2> QED BY <1>1, <2>1, <2>2 DEF RowTypes
<1>8. CASE Publish
  <2>1. cp' = cp /\ status' \in Status /\ published' \in Nat \cup {None}
    BY <1>1, <1>8 DEF Publish, row, WorkTypes, Status
  <2> QED BY <1>1, <2>1 DEF RowTypes
<1>9. CASE BeginFresh \/ BeginAgain \/ EnterNode \/ Assemble \/ Answered \/ Erred
           \/ ClaimTool \/ ChangeFiles \/ AfterSave \/ Conclude \/ Cut
  <2>1. UNCHANGED <<cp, status, published>>
    BY <1>9 DEF BeginFresh, BeginAgain, EnterAt, EnterNode, Assemble, Answered, Erred,
         WorkflowFails, ClaimTool, ChangeFiles, AfterSave, Conclude, Cut, row
  <2> QED BY <1>1, <2>1 DEF RowTypes
<1> QED BY <1>2, <1>3, <1>4, <1>5, <1>6, <1>7, <1>8, <1>9 DEF Next, Work

LEMMA PlaceTypesKept ==
  ASSUME Types, SpendInv, Next
  PROVE  PlaceTypes'
<1> USE DEF Types
<1>1. pc \in PC /\ node \in Node /\ aim \in Aim /\ wc \in Context
  BY DEF PlaceTypes, WorkTypes
<1> USE DEF PlaceTypes
<1>2. CASE AskModel
  BY <1>1, <1>2, AskStep DEF AskModel, work, PC, SpendInv
<1>3. CASE FinishModel \/ RetryModel \/ UseTool
  BY <1>1, <1>3, FinishStep, UseStep DEF FinishModel, RetryModel, UseTool, work, PC
<1>4. CASE PostHandler
  BY <1>1, <1>4, UseStep DEF PostHandler, PC, Aim
<1>5. CASE BeginAgain
  <2>1. cp.wc \in Context
    BY <1>5, CheckpointParts DEF BeginAgain, EnterAt, RowTypes
  <2> QED BY <1>1, <1>5, <2>1 DEF BeginAgain, EnterAt, Stop, Goto, Forget, Node, PC, Aim,
       Context, Entry
<1>6. CASE AfterSave
  BY <1>1, <1>6 DEF AfterSave, Stop, Goto, Forget, Node, PC, Aim, Context, Entry
<1>7. CASE Start \/ BeginFresh \/ EnterNode \/ Assemble \/ ClaimTool \/ ChangeFiles \/ Leave
  BY <1>1, <1>7 DEF Start, BeginFresh, EnterNode, Assemble, ClaimTool, ChangeFiles, Leave,
                    Goto, work, PC, Aim
<1>8. CASE Answered \/ Erred
  BY <1>1, <1>8 DEF Answered, Erred, WorkflowFails, Stop, Goto, Forget, work, PC, Aim, Node
<1>9. CASE SafePoint \/ Conclude \/ Publish \/ Cut \/ Crash
  BY <1>1, <1>9 DEF SafePoint, Conclude, Publish, Cut, Crash, Stop, Goto, Forget, work, PC, Aim, Node
<1>10. CASE Pause \/ Resume \/ Approve
  BY <1>1, <1>10 DEF Pause, Resume, Approve, Control, work
<1> QED BY <1>2, <1>3, <1>4, <1>5, <1>6, <1>7, <1>8, <1>9, <1>10 DEF Next, Work

LEMMA WorkTypesKept ==
  ASSUME Types, OrderInv, Next
  PROVE  WorkTypes'
<1>1. /\ wc \in Context /\ files \in Nat /\ hash \in Type \cup {None} /\ made \in Nat
      /\ journal \in [Call -> {"none", "running", "succeeded", "uncertain"}]
      /\ node \in Node /\ cp \in Checkpoint \cup {None}
  BY DEF Types, WorkTypes, GhostTypes, PlaceTypes, RowTypes
<1>2. Fresh(None) \in Context /\ \A t \in Type : Fresh(t) \in Context
  BY DEF Fresh, Context, Entry, Node
<1>3. ASSUME Forget PROVE WorkTypes'
  BY <1>2, <1>3 DEF Forget, WorkTypes
<1>4. ASSUME UNCHANGED work PROVE WorkTypes'
  BY <1>1, <1>4 DEF work, WorkTypes
<1>5. ASSUME wc' \in Context, files' \in Nat, UNCHANGED <<hash, journal>> PROVE WorkTypes'
  BY <1>1, <1>5 DEF WorkTypes
<1>6. CASE AskModel \/ FinishModel \/ RetryModel \/ UseTool \/ Assemble \/ Start
           \/ Pause \/ Resume \/ Approve \/ Leave
  BY <1>4, <1>6 DEF AskModel, FinishModel, RetryModel, UseTool, Assemble, Start, Pause,
                    Resume, Approve, Control, Leave
<1>7. CASE Cut \/ Crash
  BY <1>3, <1>7 DEF Cut, Crash, Stop
<1>8. CASE SafePoint \/ Conclude \/ Publish
  BY <1>3, <1>4, <1>8 DEF SafePoint, Conclude, Publish, Stop
<1>9. CASE BeginFresh
  BY <1>1, <1>2, <1>5, <1>9 DEF BeginFresh
<1>10. CASE BeginAgain
  <2>1. CASE Forget
    BY <1>3, <2>1
  <2>2. CASE wc' = cp.wc /\ files' = cp.files /\ hash' = cp.approved /\ UNCHANGED journal
    BY <1>1, <1>10, <2>2, CheckpointParts DEF BeginAgain, EnterAt, WorkTypes
  <2> QED BY <1>10, <2>1, <2>2 DEF BeginAgain, EnterAt, Stop, ResumeFiles
<1>11. CASE EnterNode
  <2>1. wc.type \in Type \cup {None} /\ wc.plan \in Type \cup {None}
    BY <1>1 DEF Context
  <2>2. /\ [wc EXCEPT !.plan = IF @ = None THEN wc.type ELSE @] \in Context
        /\ [wc EXCEPT !.verdict = "invalid"] \in Context
    BY <1>1, <2>1 DEF Context
  <2>3. wc' \in Context
    BY <1>1, <1>11, <2>2 DEF EnterNode, Skip
  <2> QED BY <1>1, <1>5, <1>11, <2>3 DEF EnterNode
<1>12. CASE Answered
  <2>1. /\ \A t \in Type : [wc EXCEPT !.type = t] \in Context
        /\ [wc EXCEPT !.verdict = "valid"] \in Context
        /\ [wc EXCEPT !.verdict = "invalid"] \in Context
    BY <1>1 DEF Context
  <2>2. node \in Agent => [wc EXCEPT !.sums = @ \cup {node}] \in Context
    BY <1>1 DEF Context
  <2>3. node \in Agent
    BY <1>1, <1>12 DEF Answered, OrderInv, Node, Agent
  <2>4. wc' \in Context
    BY <1>1, <1>12, <2>1, <2>2, <2>3 DEF Answered, NodeAnswers, AnswerIsSaved,
         AnswerIsPassedOn
  <2>5. files' \in Nat
    BY <1>1, <1>12 DEF Answered, NodeAnswers, AnswerIsSaved, AnswerIsPassedOn, SaveCode
  <2> QED BY <1>5, <1>12, <2>4, <2>5 DEF Answered
<1>13. CASE Erred
  <2>1. [wc EXCEPT !.verdict = "invalid"] \in Context
    BY <1>1 DEF Context
  <2>2. CASE Stop("failed")
    BY <1>3, <2>2 DEF Stop
  <2>3. CASE UNCHANGED work
    BY <1>4, <2>3
  <2>4. CASE wc' = [wc EXCEPT !.verdict = "invalid"] /\ UNCHANGED <<files, hash, journal>>
    BY <1>1, <1>5, <2>1, <2>4
  <2> QED BY <1>13, <2>2, <2>3, <2>4 DEF Erred, WorkflowFails
<1>14. CASE ClaimTool \/ ChangeFiles
  <2>1. files' \in Nat /\ wc' = wc /\ hash' = hash
    BY <1>1, <1>14 DEF ClaimTool, ChangeFiles, SaveCode
  <2>2. journal' \in [Call -> {"none", "running", "succeeded", "uncertain"}]
    BY <1>1, <1>14 DEF ClaimTool, ChangeFiles, Record
  <2> QED BY <1>1, <2>1, <2>2 DEF WorkTypes
<1>15. CASE PostHandler
  <2>1. \A e \in Entry : [wc EXCEPT !.next = e] \in Context
    BY <1>1 DEF Context
  <2>4. [wc EXCEPT !.next = "code_generator", !.retry = wc.retry + 1] \in Context
    <3>1. [wc EXCEPT !.next = "code_generator"] \in Context
      BY <2>1 DEF Entry, Node
    <3>2. \A w \in Context : [w EXCEPT !.retry = wc.retry + 1] \in Context
      BY <1>1 DEF Context
    <3>3. [wc EXCEPT !.next = "code_generator", !.retry = wc.retry + 1]
            = [[wc EXCEPT !.next = "code_generator"] EXCEPT !.retry = wc.retry + 1]
      BY <1>1 DEF Context
    <3> QED BY <3>1, <3>2, <3>3
  <2>2. NextNode \in Entry
    BY <1>1 DEF NextNode, Node, Entry
  <2>3. wc' \in Context
    BY <1>15, <2>1, <2>2, <2>4 DEF PostHandler
  <2> QED BY <1>1, <1>5, <1>15, <2>3 DEF PostHandler
<1>16. CASE AfterSave
  <2>1. CASE Forget
    BY <1>3, <2>1
  <2>2. CASE UNCHANGED <<wc, files, hash, journal>>
    BY <1>1, <1>5, <2>2
  <2> QED BY <1>16, <2>1, <2>2 DEF AfterSave, Stop
<1> QED BY <1>6, <1>7, <1>8, <1>9, <1>10, <1>11, <1>12, <1>13, <1>14, <1>15, <1>16
        DEF Next, Work

LEMMA MeterTypesKept ==
  ASSUME Types, SpendInv, Next
  PROVE  MeterTypes'
<1>1. used \in Usage /\ broken \in BOOLEAN /\ cp \in Checkpoint \cup {None}
  BY DEF Types, MeterTypes, RowTypes
<1>2. NoUse \in Usage
  BY DEF NoUse, Usage
<1>3. ASSUME Forget PROVE MeterTypes'
  BY <1>2, <1>3 DEF Forget, MeterTypes
<1>4. ASSUME UNCHANGED meter PROVE MeterTypes'
  BY <1>1, <1>4 DEF meter, MeterTypes
<1>5. CASE AskModel
  BY <1>5, AskStep DEF Types, AskModel, SpendInv, MeterTypes
<1>6. CASE FinishModel
  BY <1>6, FinishStep DEF Types, MeterTypes
<1>7. CASE RetryModel \/ UseTool \/ PostHandler
  BY <1>7, UseStep DEF Types, MeterTypes
<1>8. CASE BeginAgain
  <2>1. CASE Forget
    BY <1>3, <2>1
  <2>2. CASE used' = RestoreBudget(cp.used) /\ UNCHANGED broken
    <3>1. cp.used \in Usage /\ cp.used.reserved \in Nat
      BY <1>1, <1>8, CheckpointParts DEF BeginAgain, EnterAt, Usage
    <3>2. RestoreBudget(cp.used) \in Usage
      BY <3>1, SettledUse DEF RestoreBudget
    <3> QED BY <1>1, <2>2, <3>2 DEF MeterTypes
  <2> QED BY <1>8, <2>1, <2>2 DEF BeginAgain, EnterAt, Stop
<1>9. CASE Cut \/ Crash
  BY <1>3, <1>9 DEF Cut, Crash, Stop
<1>10. CASE SafePoint \/ Conclude \/ Publish \/ AfterSave \/ Erred
  BY <1>3, <1>4, <1>10 DEF SafePoint, Conclude, Publish, AfterSave, Erred, WorkflowFails,
       Stop
<1>11. CASE Start \/ BeginFresh \/ EnterNode \/ Assemble \/ Answered \/ ClaimTool \/ ChangeFiles
            \/ Leave \/ Pause \/ Resume \/ Approve
  <2>1. UNCHANGED meter
    BY <1>11 DEF Start, BeginFresh, EnterNode, Assemble, Answered, ClaimTool, ChangeFiles,
                 Leave, Pause, Resume, Approve, Control, env, work, meter
  <2> QED BY <1>4, <2>1
<1> QED BY <1>5, <1>6, <1>7, <1>8, <1>9, <1>10, <1>11 DEF Next, Work

LEMMA GhostTypesKept ==
  ASSUME Types, PlaceInv, SpendInv, GateInv, Next
  PROVE  GhostTypes'
<1>1. /\ approved \subseteq Type /\ accepted \subseteq Nat /\ made \in Nat /\ files \in Nat
      /\ spent \in Spending /\ used.reserved \in Nat /\ MaxOver \in Nat
  BY GraphAssumption DEF Types, GhostTypes, WorkTypes, MeterTypes, Usage, GraphAssumption
<1>3. spent' \in Spending
  <2>1. CASE AskModel
    BY <1>1, <2>1, AskStep, AskedSpending DEF Types, AskModel, SpendInv
  <2>2. CASE FinishModel
    <3>1. PICK bill \in 0 .. used.reserved, over \in Nat, unseen \in Nat : Billed(bill, over, unseen)
      BY <2>2, FinishStep DEF Types
    <3> QED BY <1>1, <3>1, BilledSpending
  <2>3. CASE Cut \/ Crash
    <3>1. Abandon
      BY <2>3 DEF Cut, Crash
    <3>2. ASSUME NEW over \in 0 .. MaxOver, Billed(used.reserved, over, over)
          PROVE  spent' \in Spending
      BY <1>1, <3>2, BilledSpending
    <3> QED BY <1>1, <3>1, <3>2 DEF Abandon
  <2>4. CASE UNCHANGED spent
    BY <1>1, <2>4
  <2> QED BY <2>1, <2>2, <2>3, <2>4 DEF Next, Work, BeginFresh, BeginAgain, EnterAt,
       EnterNode, Assemble, RetryModel, Answered, Erred, WorkflowFails, UseTool, ClaimTool,
       ChangeFiles, PostHandler, SafePoint, AfterSave, Conclude, Publish, Leave, Start,
       Pause, Resume, Approve, Control, ghost
<1>4. /\ accepted' \subseteq Nat /\ made' \in Nat
  <2>1. CASE Answered \/ ChangeFiles
    BY <1>1, <2>1 DEF Answered, ChangeFiles, NodeAnswers, AnswerIsSaved, AnswerIsPassedOn,
         SaveCode
  <2>2. CASE UNCHANGED <<accepted, made>>
    BY <1>1, <2>2
  <2> QED BY <2>1, <2>2 DEF Next, Work, BeginFresh, BeginAgain, EnterAt, EnterNode,
       Assemble, AskModel, FinishModel, RetryModel, Erred, WorkflowFails, UseTool,
       ClaimTool, PostHandler, SafePoint, AfterSave, Conclude, Publish, Leave, Start, Cut,
       Crash, Pause, Resume, Approve, Control, ghost
<1>5. approved' \subseteq Type
  <2>1. CASE Approve
    <3>1. cp.wc.plan \in Type \cup {None} /\ cp.wc.plan # None
      BY <2>1, CheckpointParts DEF Approve, GateInv, PlaceInv, Parked, Types, RowTypes, Context
    <3> QED BY <1>1, <2>1, <3>1 DEF Approve
  <2>2. CASE UNCHANGED approved
    BY <1>1, <2>2
  <2> QED BY <2>1, <2>2 DEF Next, Work, BeginFresh, BeginAgain, EnterAt, EnterNode,
       Assemble, AskModel, FinishModel, RetryModel, Answered, Erred, WorkflowFails,
       UseTool, ClaimTool, ChangeFiles, PostHandler, SafePoint, AfterSave, Conclude,
       Publish, Leave, Start, Cut, Crash, Pause, Resume, ghost
<1> QED BY <1>3, <1>4, <1>5 DEF GhostTypes

LEMMA EnvTypesKept ==
  ASSUME Types, SpendInv, Next
  PROVE  EnvTypes'
<1>1. /\ require \in BOOLEAN /\ mode \in {"bootstrap", "modify"} /\ build \in Nat
      /\ crashes \in 0 .. MaxCrashes /\ faults \in 0 .. MaxFaults
  BY DEF Types, EnvTypes
<1>2. faults' \in 0 .. MaxFaults
  <2>1. CASE AskModel
    BY <2>1, AskStep DEF Types, AskModel, SpendInv
  <2>2. CASE FinishModel
    BY <2>2, FinishStep DEF Types
  <2>3. CASE RetryModel \/ UseTool \/ PostHandler
    BY <2>3, UseStep DEF Types
  <2>4. CASE faults' = faults \/ Fault
    BY <1>1, <2>4, GraphAssumption DEF Fault, GraphAssumption
  <2> QED BY <2>1, <2>2, <2>3, <2>4 DEF Next, Work, BeginFresh, BeginAgain, EnterAt,
       EnterNode, Assemble, Answered, Erred, WorkflowFails, ClaimTool, ChangeFiles,
       SafePoint, AfterSave, Conclude, Publish, Leave, Start, Cut, Crash, Pause, Resume,
       Approve, Control
<1>3. UNCHANGED env \/ Crash
  BY DEF Next, Work, BeginFresh, BeginAgain, EnterAt, EnterNode, Assemble, AskModel,
       FinishModel, RetryModel, Answered, Erred, WorkflowFails, UseTool, ClaimTool,
       ChangeFiles, PostHandler, SafePoint, AfterSave, Conclude, Publish, Leave, Start,
       Cut, Pause, Resume, Approve, Control
<1>4. /\ require' \in BOOLEAN
      /\ mode' \in {"bootstrap", "modify"}
  BY <1>1, <1>3 DEF env, Crash
<1>5. build' \in Nat /\ crashes' \in 0 .. MaxCrashes
  BY <1>1, <1>3, GraphAssumption DEF env, Crash, GraphAssumption
<1> QED BY <1>2, <1>4, <1>5 DEF EnvTypes

-----------------------------------------------------------------------------
(* The attempt's place and order                                           *)

\* Where the attempt is, what it works on and what the row says fit together.
LEMMA PlaceKept ==
  ASSUME Types, PlaceInv, SpendInv, Next
  PROVE  PlaceInv'
<1> USE DEF PlaceInv, InAttempt, Executing, Parked
<1>1. status \in Status /\ pc \in PC /\ aim \in Aim /\ cp \in Checkpoint \cup {None}
  BY DEF Types, RowTypes, PlaceTypes
<1>2. CASE AskModel
  <2>1. SameCheckpoint /\ pc' \in {"called", "erred"}
    BY <1>2, AskStep DEF Types, AskModel, SpendInv
  <2> QED BY <1>2, <2>1 DEF AskModel, SameCheckpoint, row, work
<1>3. CASE FinishModel
  <2>1. SameCheckpoint /\ pc' \in {"answered", "lost"}
    BY <1>3, FinishStep DEF Types
  <2> QED BY <1>3, <2>1 DEF FinishModel, SameCheckpoint, row, work
<1>4. CASE RetryModel \/ UseTool \/ PostHandler
  <2>1. SameCheckpoint /\ pc' \in {"erred", "asking", "claiming", "save"}
    BY <1>4, UseStep DEF Types
  <2> QED BY <1>4, <2>1 DEF RetryModel, UseTool, PostHandler, SameCheckpoint, row, work
<1>5. CASE Start \/ BeginFresh
  BY <1>5 DEF Start, BeginFresh, Goto, work, meter, row
<1>6. CASE BeginAgain
  BY <1>6 DEF BeginAgain, EnterAt, Stop, Goto, Forget, row
<1>7. CASE EnterNode \/ Assemble \/ Answered \/ ClaimTool \/ ChangeFiles
  BY <1>7 DEF EnterNode, Assemble, Answered, ClaimTool, ChangeFiles, Goto, row, work
<1>8. CASE Erred \/ Conclude \/ Cut
  BY <1>8 DEF Erred, WorkflowFails, Conclude, Cut, Stop, Goto, Forget, row, work
<1>9. CASE SafePoint
  BY <1>9, SavedCheckpoint DEF SafePoint, Stop, Goto, Forget, row, work, Types
<1>10. CASE AfterSave \/ Publish
  BY <1>10 DEF AfterSave, Publish, Stop, Goto, Forget, row, work, meter
<1>11. CASE Leave \/ Crash
  BY <1>1, <1>11 DEF Leave, Crash, Goto, Forget, work, meter, Aim, Status
<1>12. CASE Pause \/ Resume
  BY <1>12 DEF Pause, Resume, Control, work, meter
<1>13. CASE Approve
  BY <1>13 DEF Approve, Control, work, meter
<1> QED BY <1>2, <1>3, <1>4, <1>5, <1>6, <1>7, <1>8, <1>9, <1>10, <1>11, <1>12, <1>13
        DEF Next, Work

\* Only an agent is asked; after a node comes the one that follows it.
LEMMA OrderKept ==
  ASSUME Types, PlaceInv, OrderInv, SpendInv, Next
  PROVE  OrderInv'
<1> USE DEF OrderInv
<1>1. node \in Node /\ wc \in Context
  BY DEF Types, PlaceTypes, WorkTypes
<1>2. CASE AskModel
  BY <1>2, AskStep DEF Types, AskModel, SpendInv, work
<1>3. CASE FinishModel
  BY <1>3, FinishStep DEF Types, FinishModel, work
<1>4. CASE RetryModel \/ UseTool
  BY <1>4, UseStep DEF Types, RetryModel, UseTool, work
<1>5. CASE PostHandler
  <2>1. pc' \in {"erred", "save"}
    BY <1>5, UseStep DEF Types, PostHandler
  <2>2. CASE ~Repairs
    BY <1>1, <1>5, <2>1, <2>2 DEF PostHandler, NextNode, Node, Context
  <2>3. CASE Repairs
    BY <1>1, <1>5, <2>1, <2>3 DEF PostHandler, Repairs, Context
  <2> QED BY <2>2, <2>3
<1>6. ASSUME Forget, pc' \in {"idle", "leaving"} PROVE OrderInv'
  BY <1>6 DEF Forget
<1>7. CASE Start \/ BeginFresh \/ Leave \/ Pause \/ Resume \/ Approve
  BY <1>7 DEF Start, BeginFresh, Leave, Pause, Resume, Approve, Control, Goto, work, PlaceInv, InAttempt
<1>8. CASE BeginAgain
  <2>1. CASE Stop("failed") \/ Stop("awaiting_approval")
    BY <1>6, <2>1 DEF Stop, Goto
  <2>2. CASE pc' = "result" /\ node' = "quality_check"
    BY <2>2
  <2>3. CASE pc' = "node"
    BY <2>3
  <2> QED BY <1>8, <2>1, <2>2, <2>3 DEF BeginAgain, EnterAt, Goto
<1>9. CASE EnterNode \/ Assemble \/ ClaimTool \/ ChangeFiles
  BY <1>9 DEF EnterNode, Assemble, ClaimTool, ChangeFiles, Goto, work, Skip
<1>10. CASE Answered
  BY <1>10 DEF Answered, Goto, HasTools, BuiltWithTools
<1>11. CASE Erred \/ Conclude \/ Cut \/ SafePoint
  BY <1>6, <1>11 DEF Erred, WorkflowFails, Conclude, Cut, SafePoint, Stop, Goto, work
<1>12. CASE AfterSave
  BY <1>1, <1>6, <1>12 DEF AfterSave, Stop, Goto, Node
<1>13. CASE Publish \/ Crash
  BY <1>6, <1>13 DEF Publish, Crash, Stop, Goto
<1> QED BY <1>2, <1>3, <1>4, <1>5, <1>7, <1>8, <1>9, <1>10, <1>11, <1>12, <1>13
        DEF Next, Work

-----------------------------------------------------------------------------
(* The budget                                                              *)

\* What was spent is covered by the budget in memory while there is an attempt,
\* and by the one on record, with what it has reserved, also when there is none.
LEMMA SpendKept ==
  ASSUME Types, PlaceInv, SpendInv, Next
  PROVE  SpendInv'
<1>1. /\ used \in Usage /\ spent \in Spending
      /\ used.calls \in Nat /\ used.tokens \in Nat /\ used.reserved \in Nat
      /\ spent.calls \in Nat /\ spent.tokens \in Nat /\ spent.over \in Nat /\ spent.unseen \in Nat
      /\ ModelCalls \in Nat /\ Tokens \in Nat /\ MaxOver \in Nat
  BY GraphAssumption DEF Types, MeterTypes, GhostTypes, Usage, Spending, GraphAssumption
<1>2. cp # None => /\ cp \in Checkpoint /\ cp.used \in Usage
                   /\ cp.used.calls \in Nat /\ cp.used.tokens \in Nat
                   /\ cp.used.reserved \in Nat
  BY CheckpointParts DEF Types, RowTypes, Usage
<1>3. /\ NoUse.calls = 0 /\ NoUse.tokens = 0 /\ NoUse.reserved = 0
  BY DEF NoUse
<1>4. CASE AskModel
  <2>1. used.reserved = 0 /\ pc = "asking" /\ status' = status
    BY <1>4 DEF AskModel, SpendInv, row
  <2>2. CASE /\ pc' = "called" /\ used.calls < ModelCalls
             /\ used'.calls = used.calls + 1 /\ used'.tokens = used.tokens
             /\ used.tokens + used'.reserved <= Tokens
             /\ spent' = [spent EXCEPT !.calls = @ + 1, !.over = 0]
             /\ cp # None => cp'.used = used'
    <3>1. used'.reserved \in Nat
      BY <1>4, <2>1, AskStep DEF Types, Usage
    <3>2. /\ spent'.calls = spent.calls + 1 /\ spent'.tokens = spent.tokens
          /\ spent'.over = 0 /\ spent'.unseen = spent.unseen
      BY <1>1, <2>2, AskedSpending
    <3>3. cp' = None <=> cp = None
      BY <1>4, <2>1, AskStep DEF Types, SameCheckpoint
    <3>4. spent.calls <= used.calls /\ spent.tokens <= used.tokens + spent.unseen
      BY <2>1 DEF SpendInv, InAttempt
    <3>5. /\ spent'.calls <= used'.calls /\ spent'.calls <= ModelCalls
          /\ spent'.tokens <= used'.tokens + spent'.unseen /\ used'.calls <= ModelCalls
          /\ spent'.tokens + used'.reserved <= used'.tokens + used'.reserved + spent'.unseen
          /\ spent'.tokens + used'.reserved <= Tokens + spent'.over + spent'.unseen
      BY <1>1, <2>2, <3>1, <3>2, <3>4
    <3>6. status' # "pending"
      BY <2>1 DEF PlaceInv, Executing
    <3> QED BY <2>2, <3>2, <3>3, <3>5, <3>6 DEF SpendInv
  <2>3. CASE /\ pc' = "erred" /\ used'.reserved = 0 /\ used'.tokens = used.tokens
             /\ \/ used'.calls = used.calls
                \/ used'.calls = used.calls + 1 /\ used.calls < ModelCalls
             /\ spent' = spent
             /\ cp # None => \/ cp'.used = cp.used
                             \/ /\ cp'.used \in Usage /\ cp'.used.calls = used'.calls
                                /\ cp'.used.tokens = used.tokens
                                /\ used.tokens + cp'.used.reserved <= Tokens
    <3>1. cp' = None <=> cp = None
      BY <1>4, <2>1, AskStep DEF Types, SameCheckpoint
    <3>2. cp # None => \/ cp'.used = cp.used
                       \/ /\ cp'.used.reserved \in Nat /\ cp'.used.calls = used'.calls
                          /\ cp'.used.tokens = used.tokens
      BY <2>3 DEF Usage
    <3> QED BY <1>1, <1>2, <2>1, <2>3, <3>1, <3>2 DEF SpendInv, InAttempt
  <2> QED BY <1>4, <2>1, <2>2, <2>3, AskStep DEF Types
<1>5. CASE FinishModel
  <2>1. PICK bill \in 0 .. used.reserved, over \in Nat, unseen \in Nat, charged \in Nat :
          /\ Billed(bill, over, unseen) /\ (over = 0 \/ bill = used.reserved)
          /\ bill + over <= charged + unseen
          /\ used'.calls = used.calls /\ used'.tokens = used.tokens + charged
          /\ cp # None => \/ cp'.used = used'
                          \/ cp'.used = cp.used /\ bill + over <= used.reserved + unseen
    BY <1>5, FinishStep DEF Types
  <2>2. /\ spent'.calls = spent.calls /\ spent'.tokens = spent.tokens + bill + over
        /\ spent'.over = over /\ spent'.unseen = spent.unseen + unseen
    BY <1>1, <2>1, BilledSpending
  <2>3. /\ pc = "called" /\ pc' \in {"answered", "lost"} /\ used'.reserved = 0
        /\ cp' = None <=> cp = None
        /\ status' = status
    BY <1>5, FinishStep DEF Types, FinishModel, SameCheckpoint, row
  <2>4. /\ spent.calls <= ModelCalls /\ spent.over = 0
        /\ spent.tokens + used.reserved <= Tokens + spent.over + spent.unseen
        /\ spent.calls <= used.calls /\ used.calls <= ModelCalls
        /\ spent.tokens <= used.tokens + spent.unseen
    BY <2>3 DEF SpendInv, InAttempt
  <2>5. /\ spent'.calls <= ModelCalls /\ spent'.calls <= used'.calls /\ used'.calls <= ModelCalls
        /\ spent'.tokens + used'.reserved <= Tokens + spent'.over + spent'.unseen
        /\ spent'.tokens <= used'.tokens + spent'.unseen
    BY <1>1, <2>1, <2>2, <2>3, <2>4
  <2>6. cp # None =>
          /\ spent'.calls <= cp'.used.calls /\ cp'.used.calls <= ModelCalls
          /\ spent'.tokens + used'.reserved <= cp'.used.tokens + cp'.used.reserved + spent'.unseen
    <3>1. CASE cp # None /\ cp'.used = used'
      BY <1>1, <2>1, <2>2, <2>3, <2>5, <3>1
    <3>2. CASE cp # None /\ cp'.used = cp.used /\ bill + over <= used.reserved + unseen
      <4>1. /\ spent.calls <= cp.used.calls /\ cp.used.calls <= ModelCalls
            /\ spent.tokens + used.reserved <= cp.used.tokens + cp.used.reserved + spent.unseen
        BY <3>2 DEF SpendInv
      <4> QED BY <1>1, <1>2, <2>1, <2>2, <2>3, <3>2, <4>1
    <3> QED BY <2>1, <3>1, <3>2
  <2>7. status' # "pending"
    BY <2>3 DEF PlaceInv, Executing
  <2> QED BY <2>3, <2>5, <2>6, <2>7 DEF SpendInv
<1>6. CASE RetryModel \/ UseTool \/ PostHandler
  <2>1. /\ used'.calls = used.calls /\ used'.tokens = used.tokens /\ used'.reserved = used.reserved
        /\ cp' = None <=> cp = None
        /\ cp # None => cp'.used = used' \/ cp'.used = cp.used
        /\ pc' \in {"erred", "asking", "claiming", "save"}
    BY <1>6, UseStep DEF Types, SameCheckpoint
  <2>2. spent' = spent /\ pc \in {"lost", "tool", "point"} /\ status' = status
    BY <1>6 DEF RetryModel, UseTool, PostHandler, ghost, row
  <2> QED BY <1>1, <1>2, <2>1, <2>2 DEF SpendInv, InAttempt
<1>7. ASSUME Forget, pc' \in {"idle", "leaving"}, status' # "pending" \/ UNCHANGED status,
             spent' = spent \/ Abandon, cp' = cp
      PROVE  SpendInv'
  <2>0. used'.reserved = 0
    BY <1>3, <1>7 DEF Forget
  <2>1. PICK over \in Nat : \/ spent' = spent /\ over = 0
                            \/ /\ pc = "called" /\ spent'.calls = spent.calls
                               /\ spent'.tokens = spent.tokens + used.reserved + over
                               /\ spent'.over = over /\ spent'.unseen = spent.unseen + over
    <3>1. CASE spent' = spent
      BY <3>1
    <3>2. ASSUME NEW over \in 0 .. MaxOver, Billed(used.reserved, over, over)
          PROVE  /\ over \in Nat /\ spent'.calls = spent.calls
                 /\ spent'.tokens = spent.tokens + used.reserved + over
                 /\ spent'.over = over /\ spent'.unseen = spent.unseen + over
      BY <1>1, <3>2, BilledSpending
    <3> QED BY <1>7, <3>1, <3>2 DEF Abandon
  <2>2. /\ spent.calls <= ModelCalls
        /\ spent.tokens + used.reserved <= Tokens + spent.over + spent.unseen
        /\ pc = "called" => spent.over = 0
    BY DEF SpendInv
  <2>3. /\ spent'.calls <= ModelCalls
        /\ spent'.tokens + used'.reserved <= Tokens + spent'.over + spent'.unseen
    BY <1>1, <2>0, <2>1, <2>2
  <2>4. cp # None =>
          /\ spent'.calls <= cp.used.calls /\ cp.used.calls <= ModelCalls
          /\ spent'.tokens + used'.reserved <= cp.used.tokens + cp.used.reserved + spent'.unseen
    BY <1>1, <1>2, <2>0, <2>1 DEF SpendInv
  <2>5. cp = None /\ (status' = "pending" \/ pc' = "begin") =>
          spent'.calls = 0 /\ spent'.tokens = 0
    <3>1. CASE cp = None /\ status = "pending"
      <4>1. used.reserved = 0 /\ spent.calls = 0 /\ spent.tokens = 0 /\ pc # "called"
        BY <3>1 DEF SpendInv, PlaceInv, Executing
      <4> QED BY <1>1, <2>1, <4>1
    <3> QED BY <1>7, <3>1
  <2> QED BY <1>7, <2>0, <2>3, <2>4, <2>5 DEF SpendInv, InAttempt
<1>8. ASSUME UNCHANGED <<cp, meter, spent, status>>, InAttempt, InAttempt', pc # "called", pc' # "called"
      PROVE  SpendInv'
  BY <1>1, <1>2, <1>8 DEF SpendInv, InAttempt, meter
<1>9. CASE EnterNode \/ Assemble \/ Answered \/ ClaimTool \/ ChangeFiles
  <2>1. UNCHANGED <<cp, meter, spent, status>> /\ pc \notin {"idle", "begin", "leaving", "called"}
    BY <1>9 DEF EnterNode, Assemble, Answered, ClaimTool, ChangeFiles, ghost, row
  <2>2. pc' \notin {"idle", "begin", "leaving", "called"}
    BY <1>9 DEF EnterNode, Assemble, Answered, ClaimTool, ChangeFiles, Goto
  <2> QED BY <1>8, <2>1, <2>2 DEF InAttempt
<1>10. CASE Erred \/ Conclude
  <2>1. CASE Forget /\ pc' = "leaving"
    BY <1>7, <1>10, <2>1 DEF Erred, WorkflowFails, Conclude, row, ghost
  <2>2. CASE UNCHANGED meter /\ pc' \in {"asking", "save", "point", "done"}
    BY <1>8, <1>10, <2>2 DEF Erred, WorkflowFails, Conclude, InAttempt, row, ghost
  <2> QED BY <1>10, <2>1, <2>2 DEF Erred, WorkflowFails, Conclude, Stop, Goto
<1>11. CASE SafePoint
  <2>1. spent' = spent /\ status' = status /\ pc = "save"
    BY <1>11 DEF SafePoint, row, ghost
  <2>2. cp' = cp \/ (cp' = Saved /\ cp'.used = used /\ cp' # None)
    BY <1>11, SavedCheckpoint DEF SafePoint, Types
  <2>3. CASE UNCHANGED meter /\ pc' = "saved"
    BY <1>1, <1>2, <2>1, <2>2, <2>3 DEF SpendInv, InAttempt, meter
  <2>4. CASE Forget /\ pc' = "leaving"
    <3>1. used'.reserved = 0
      BY <1>3, <2>4 DEF Forget
    <3> QED BY <1>1, <1>2, <2>1, <2>2, <2>4, <3>1 DEF SpendInv, InAttempt
  <2> QED BY <1>11, <2>3, <2>4 DEF SafePoint, Stop, Goto
<1>12. CASE AfterSave \/ Publish
  <2>1. CASE Forget /\ pc' \in {"idle", "leaving"}
    BY <1>7, <1>12, <2>1 DEF AfterSave, Publish, row, ghost
  <2>2. CASE UNCHANGED meter /\ pc' \in {"asking", "result", "node"}
    BY <1>8, <1>12, <2>2 DEF AfterSave, Publish, Stop, Goto, InAttempt, row, ghost
  <2> QED BY <1>12, <2>1, <2>2 DEF AfterSave, Publish, Stop, Goto
<1>13. CASE Cut
  BY <1>7, <1>13 DEF Cut, Stop, Goto, row
<1>14. CASE Crash
  BY <1>7, <1>14 DEF Crash, Goto, Parked
<1>15. CASE Start \/ Pause \/ Resume \/ Leave
  <2>1. UNCHANGED <<cp, meter, spent>>
    BY <1>15 DEF Start, Pause, Resume, Leave, Control, ghost
  <2>2. /\ pc = "called" <=> pc' = "called"
        /\ InAttempt' => InAttempt
        /\ cp = None /\ (status' = "pending" \/ pc' = "begin") => status = "pending" \/ pc = "begin"
    BY <1>15 DEF Start, Pause, Resume, Leave, Control, Goto, InAttempt, PlaceInv, Executing, Parked
  <2> QED BY <1>1, <1>2, <2>1, <2>2 DEF SpendInv, meter
<1>16. CASE Approve
  <2>1. /\ UNCHANGED <<pc, used, spent>> /\ cp # None
        /\ cp' = [cp EXCEPT !.approved = cp.wc.plan]
    BY <1>16 DEF Approve, Control, meter, PlaceInv, Parked
  <2>2. cp'.used = cp.used /\ cp' # None
    <3>1. cp.wc.plan \in Type \cup {None}
      BY <1>2, <2>1, CheckpointParts DEF Context
    <3>2. cp' \in Checkpoint
      BY <1>2, <2>1, <3>1 DEF Checkpoint
    <3> QED BY <1>2, <2>1, <3>2, NoneAssumption DEF NoneAssumption, Checkpoint
  <2> QED BY <1>1, <1>2, <2>1, <2>2 DEF SpendInv, InAttempt
<1>17. CASE BeginFresh
  <2>1. /\ UNCHANGED <<used, spent, cp, status>> /\ cp = None /\ pc = "begin" /\ pc' = "node"
    BY <1>17 DEF BeginFresh, Goto, meter, ghost, row
  <2>2. used = NoUse
    BY <2>1 DEF PlaceInv, InAttempt
  <2> QED BY <1>1, <1>3, <2>1, <2>2 DEF SpendInv, InAttempt
<1>18. CASE BeginAgain
  <2>1. UNCHANGED <<spent, cp, status>> /\ cp # None /\ pc = "begin"
    BY <1>18 DEF BeginAgain, EnterAt, ghost, row
  <2>2. CASE Forget /\ pc' = "leaving"
    BY <1>7, <2>1, <2>2
  <2>3. CASE used' = RestoreBudget(cp.used) /\ pc' \in {"result", "node"}
    <3>1. /\ used'.calls = cp.used.calls /\ used'.reserved = 0
          /\ used'.tokens = cp.used.tokens + cp.used.reserved
      BY <1>2, <2>1, <2>3, SettledUse DEF RestoreBudget
    <3> QED BY <1>1, <1>2, <2>1, <2>3, <3>1 DEF SpendInv, InAttempt
  <2> QED BY <1>18, <2>2, <2>3 DEF BeginAgain, EnterAt, Stop, Goto
<1> QED BY <1>4, <1>5, <1>6, <1>9, <1>10, <1>11, <1>12, <1>13, <1>14, <1>15, <1>16, <1>17, <1>18
        DEF Next, Work

-----------------------------------------------------------------------------
(* The plan and its approval                                               *)

\* Who carries out a plan, or is about to, has one.
LEMMA PlanKept ==
  ASSUME Types, PlaceInv, OrderInv, SpendInv, PlanInv, Next
  PROVE  PlanInv'
<1>1. /\ wc \in Context /\ node \in Node /\ cp \in Checkpoint \cup {None}
      /\ \A t \in Type : t # None
  BY GraphAssumption DEF Types, WorkTypes, PlaceTypes, RowTypes, GraphAssumption
<1>2. ASSUME SameCheckpoint \/ cp' = cp, UNCHANGED work, InAttempt' => InAttempt,
             pc' = "point" => pc = "point"
      PROVE  PlanInv'
  BY <1>2 DEF PlanInv, SameCheckpoint, work
<1>3. ASSUME cp' = cp, Forget, ~InAttempt', pc' # "point" PROVE PlanInv'
  BY <1>3 DEF PlanInv, Forget, Fresh, Planned
<1>4. CASE AskModel
  BY <1>2, <1>4, AskStep DEF Types, SpendInv, AskModel, InAttempt
<1>5. CASE FinishModel
  BY <1>2, <1>5, FinishStep DEF Types, FinishModel, InAttempt
<1>6. CASE RetryModel \/ UseTool
  BY <1>2, <1>6, UseStep DEF Types, RetryModel, UseTool, InAttempt
<1>7. CASE PostHandler
  <2>1. SameCheckpoint /\ pc' # "point" /\ node' = node /\ pc = "point"
    BY <1>7, UseStep DEF Types, PostHandler
  <2>2. /\ wc'.type = wc.type /\ wc'.plan = wc.plan
        /\ wc'.next = NextNode \/ (node = "quality_check" /\ wc'.next = "code_generator")
    BY <1>1, <1>7 DEF PostHandler, Repairs, Context
  <2> QED BY <1>1, <2>1, <2>2 DEF PlanInv, SameCheckpoint, InAttempt, Planned, NextNode, Node
<1>8. CASE Start \/ Assemble \/ ClaimTool \/ ChangeFiles \/ Pause \/ Resume
  <2>1. UNCHANGED <<cp, wc, node>> /\ (InAttempt' => InAttempt) /\ (pc' = "point" => pc = "point")
    BY <1>8 DEF Start, Assemble, ClaimTool, ChangeFiles, Pause, Resume, Control, Goto, work, InAttempt
  <2> QED BY <2>1 DEF PlanInv
<1>9. CASE Leave
  <2>1. UNCHANGED <<cp, wc, node>> /\ ~InAttempt' /\ pc' # "point"
    BY <1>9 DEF Leave, Goto, work, InAttempt
  <2> QED BY <2>1 DEF PlanInv
<1>10. CASE BeginFresh
  <2>1. /\ cp' = None /\ node' = "router" /\ wc'.next = "router" /\ pc' = "node"
    BY <1>10 DEF BeginFresh, Fresh, Goto, PlaceInv, InAttempt
  <2> QED BY <2>1 DEF PlanInv, Planned
<1>11. CASE BeginAgain
  <2>1. cp' = cp /\ cp # None
    BY <1>11 DEF BeginAgain, EnterAt
  <2>2. CASE Forget /\ pc' = "leaving"
    BY <1>3, <2>1, <2>2 DEF InAttempt
  <2>3. CASE /\ wc' = cp.wc /\ pc' \in {"result", "node"}
             /\ node' = cp.wc.next \/ (cp.wc.next = "END" /\ node' = "quality_check")
    BY <2>1, <2>3 DEF PlanInv, Planned
  <2> QED BY <1>11, <2>2, <2>3 DEF BeginAgain, EnterAt, Stop, Goto
<1>12. CASE EnterNode
  <2>1. /\ UNCHANGED <<cp, node>> /\ pc' \in {"point", "assemble"} /\ pc = "node"
        /\ node = "router" /\ pc' = "point" => wc.type # None
    BY <1>12 DEF EnterNode, Skip
  <2>2. /\ wc'.type = wc.type /\ wc'.next = wc.next
        /\ wc'.plan = wc.plan \/ (wc.plan = None /\ wc'.plan = wc.type)
        /\ node = "prompt_enhancer" => \/ wc'.plan = wc.plan /\ wc.plan # None
                                       \/ wc'.plan = wc.type
    BY <1>1, <1>12 DEF EnterNode, Skip, Context, OrderInv
  <2>3. node = "prompt_enhancer" => wc.type # None
    BY <2>1 DEF PlanInv, InAttempt
  <2> QED BY <2>1, <2>2, <2>3 DEF PlanInv, InAttempt
<1>13. CASE Answered
  <2>1. UNCHANGED <<cp, node>> /\ pc = "answered"
    BY <1>13 DEF Answered
  <2>2. /\ wc'.next = wc.next /\ wc'.plan = wc.plan
        /\ wc'.type = wc.type \/ wc'.type \in Type
        /\ node = "router" /\ pc' = "point" => wc'.type \in Type
    BY <1>1, <1>13 DEF Answered, NodeAnswers, AnswerIsSaved, AnswerIsPassedOn, Goto,
         HasTools, BuiltWithTools, Context
  <2>3. node # "prompt_enhancer" /\ InAttempt
    BY <2>1 DEF OrderInv, InAttempt
  <2> QED BY <1>1, <2>1, <2>2, <2>3 DEF PlanInv
<1>14. CASE Erred
  <2>1. cp' = cp /\ pc = "erred"
    BY <1>14 DEF Erred, WorkflowFails
  <2>2. CASE Forget /\ pc' = "leaving"
    BY <1>3, <2>1, <2>2 DEF InAttempt
  <2>3. CASE UNCHANGED work /\ pc' \in {"asking", "save"}
    BY <1>2, <2>1, <2>3 DEF InAttempt
  <2>4. CASE /\ wc' = [wc EXCEPT !.verdict = "invalid"] /\ node' = node
             /\ node = "quality_check"
    <3>1. wc'.type = wc.type /\ wc'.plan = wc.plan /\ wc'.next = wc.next
      BY <1>1, <2>4 DEF Context
    <3> QED BY <2>1, <2>4, <3>1 DEF PlanInv, InAttempt
  <2> QED BY <1>14, <2>2, <2>3, <2>4 DEF Erred, WorkflowFails, Stop, Goto
<1>15. CASE SafePoint
  <2>1. /\ Saved # None /\ Saved.wc = wc /\ pc = "save"
    BY <1>15, SavedCheckpoint DEF SafePoint, Types
  <2>2. CASE UNCHANGED work /\ pc' = "saved"
    BY <1>15, <2>1, <2>2 DEF SafePoint, PlanInv, InAttempt, Stop, Goto, work
  <2>3. CASE Forget /\ pc' = "leaving"
    BY <1>15, <2>1, <2>3 DEF SafePoint, PlanInv, InAttempt, Forget, Fresh, Planned
  <2> QED BY <1>15, <2>2, <2>3 DEF SafePoint, Stop, Goto
<1>16. CASE AfterSave
  <2>1. cp' = cp /\ pc = "saved"
    BY <1>16 DEF AfterSave
  <2>2. CASE Forget /\ pc' = "leaving"
    BY <1>3, <2>1, <2>2 DEF InAttempt
  <2>3. CASE wc' = wc /\ node' \in {node, wc.next} /\ pc' \in {"asking", "result", "node"}
    BY <2>1, <2>3 DEF PlanInv, InAttempt
  <2> QED BY <1>16, <2>2, <2>3 DEF AfterSave, Stop, Goto
<1>17. CASE Conclude \/ Publish \/ Cut \/ Crash
  <2>1. cp' = cp
    BY <1>17 DEF Conclude, Publish, Cut, Crash
  <2>2. CASE Forget /\ pc' \in {"idle", "leaving"}
    BY <1>3, <2>1, <2>2 DEF InAttempt
  <2>3. CASE UNCHANGED work /\ pc' = "done" /\ pc = "result"
    BY <1>2, <2>1, <2>3 DEF InAttempt
  <2> QED BY <1>17, <2>2, <2>3 DEF Conclude, Publish, Cut, Crash, Stop, Goto
<1>18. CASE Approve
  <2>1. UNCHANGED <<wc, node, pc>> /\ cp # None /\ cp' = [cp EXCEPT !.approved = cp.wc.plan]
    BY <1>18 DEF Approve, Control, work, PlaceInv, Parked
  <2>2. cp'.wc = cp.wc
    BY <1>1, <2>1 DEF Checkpoint
  <2> QED BY <2>1, <2>2 DEF PlanInv, InAttempt
<1> QED BY <1>4, <1>5, <1>6, <1>7, <1>8, <1>9, <1>10, <1>11, <1>12, <1>13, <1>14, <1>15,
           <1>16, <1>17, <1>18 DEF Next, Work

\* The only plan that was ever approved is the checkpoint's, and the attempt
\* carries its approval along.
LEMMA GateKept ==
  ASSUME Types, PlaceInv, SpendInv, PlanInv, GateInv, Next
  PROVE  GateInv'
<1>1. /\ wc \in Context /\ node \in Node /\ cp \in Checkpoint \cup {None}
      /\ hash \in Type \cup {None}
  BY DEF Types, WorkTypes, PlaceTypes, RowTypes
<1>2. ASSUME SameCheckpoint \/ cp' = cp, UNCHANGED <<node, hash, approved, require>>,
             wc'.plan = wc.plan, InAttempt' => InAttempt, pc' # "saved", pc' # "leaving",
             status' = "awaiting_approval" => status = "awaiting_approval"
      PROVE  GateInv'
  BY <1>1, <1>2 DEF GateInv, SameCheckpoint
<1>3. ASSUME cp' = cp, Forget, ~InAttempt', pc' # "saved", UNCHANGED <<approved, require>>,
             (pc' = "leaving" /\ aim' = "awaiting_approval") \/ status' = "awaiting_approval"
               => \/ status = "awaiting_approval"
                  \/ approved = {} /\ cp # None /\ cp.wc.plan # None
      PROVE  GateInv'
  BY <1>3 DEF GateInv, Forget
<1>4. CASE AskModel
  BY <1>2, <1>4, AskStep DEF Types, SpendInv, AskModel, InAttempt, work, row, env
<1>5. CASE FinishModel
  BY <1>2, <1>5, FinishStep DEF Types, FinishModel, InAttempt, work, row, env
<1>6. CASE RetryModel \/ UseTool
  BY <1>2, <1>6, UseStep DEF Types, RetryModel, UseTool, InAttempt, work, row, ghost, env
<1>7. CASE PostHandler
  <2>1. wc'.plan = wc.plan
    BY <1>1, <1>7 DEF PostHandler, Context
  <2> QED BY <1>2, <1>7, <2>1, UseStep DEF Types, PostHandler, InAttempt, row, ghost, env
<1>8. CASE Assemble \/ ClaimTool \/ ChangeFiles
  <2>1. /\ UNCHANGED <<cp, wc, node, hash, approved, require, status>>
        /\ InAttempt' => InAttempt
        /\ pc' # "saved" /\ pc' # "leaving"
    BY <1>8 DEF Assemble, ClaimTool, ChangeFiles, Goto, work, row, ghost, env, InAttempt
  <2> QED BY <1>2, <2>1
<1>9. CASE Start \/ Pause \/ Resume
  <2>1. /\ UNCHANGED <<cp, wc, node, hash, approved, require, aim>> \/ Start
        /\ InAttempt' => InAttempt
        /\ pc' = "saved" => pc = "saved"
        /\ pc' = "leaving" => pc = "leaving"
        /\ status' # "awaiting_approval"
    BY <1>9 DEF Start, Pause, Resume, Control, Goto, work, ghost, env, InAttempt
  <2>2. UNCHANGED <<cp, wc, node, hash, approved, require>>
    BY <2>1 DEF Start, work, ghost, env
  <2>3. pc' = "leaving" => aim' = aim
    BY <1>9 DEF Start, Pause, Resume, Control, Goto
  <2> QED BY <2>1, <2>2, <2>3 DEF GateInv
<1>10. CASE Leave
  <2>1. /\ UNCHANGED <<cp, wc, node, hash, approved, require>>
        /\ pc' = "idle" /\ pc = "leaving" /\ status' = aim
    BY <1>10 DEF Leave, Goto, work, ghost, env
  <2> QED BY <2>1 DEF GateInv, InAttempt
<1>11. CASE BeginFresh
  <2>1. /\ UNCHANGED <<cp, node, hash, approved, require, status>> /\ cp = None
        /\ pc = "begin" /\ pc' = "node"
    BY <1>11 DEF BeginFresh, Goto, row, ghost, env
  <2>2. node = "router" /\ approved = {} /\ status # "awaiting_approval"
    BY <2>1 DEF PlaceInv, InAttempt, GateInv, Executing
  <2> QED BY <2>1, <2>2 DEF GateInv
<1>12. CASE BeginAgain
  <2>1. UNCHANGED <<cp, approved, require, status>> /\ cp # None /\ pc = "begin"
    BY <1>12 DEF BeginAgain, EnterAt, row, ghost, env
  <2>2. CASE Stop("failed")
    BY <1>3, <2>1, <2>2 DEF Stop, Goto, InAttempt
  <2>3. CASE Held /\ Stop("awaiting_approval")
    <3>1. require /\ cp.wc.next = "code_generator" /\ cp.wc.plan # cp.approved
      BY <2>3 DEF Held, Gated
    <3>2. cp.wc.plan # None /\ approved = {}
      BY <2>1, <3>1 DEF PlanInv, Planned, GateInv
    <3> QED BY <1>3, <2>1, <2>3, <3>2 DEF Stop, Goto, InAttempt
  <2>4. CASE /\ ~Held /\ wc' = cp.wc /\ hash' = cp.approved /\ pc' \in {"result", "node"}
             /\ \/ cp.wc.next = "END" /\ node' = "quality_check"
                \/ cp.wc.next # "END" /\ node' = cp.wc.next
    <3>1. require /\ node' = "code_generator" => cp.wc.plan = cp.approved
      BY <2>4 DEF Held, Gated
    <3>2. status # "awaiting_approval"
      BY <2>1 DEF PlaceInv, Executing
    <3> QED BY <2>1, <2>4, <3>1, <3>2 DEF GateInv
  <2> QED BY <1>12, <2>2, <2>3, <2>4 DEF BeginAgain, EnterAt, Goto
<1>13. CASE EnterNode
  <2>1. /\ UNCHANGED <<cp, node, hash, approved, require, status>>
        /\ pc = "node" /\ pc' \in {"point", "assemble"}
    BY <1>13 DEF EnterNode, row, ghost, env
  <2>2. wc'.plan = wc.plan \/ (wc.plan = None /\ node = "prompt_enhancer")
    BY <1>1, <1>13 DEF EnterNode, Skip, Context
  <2>3. wc.plan = None => approved = {}
    BY <2>1 DEF GateInv, InAttempt
  <2>4. status # "awaiting_approval"
    BY <2>1 DEF PlaceInv, Executing
  <2> QED BY <2>1, <2>2, <2>3, <2>4 DEF GateInv, InAttempt
<1>14. CASE Answered
  <2>1. wc'.plan = wc.plan
    BY <1>1, <1>14 DEF Answered, NodeAnswers, AnswerIsSaved, AnswerIsPassedOn, Context
  <2>2. /\ UNCHANGED <<cp, node, hash, approved, require, status>>
        /\ pc = "answered" /\ pc' # "saved" /\ pc' # "leaving"
    BY <1>14 DEF Answered, Goto, row, env
  <2> QED BY <1>2, <2>1, <2>2 DEF InAttempt
<1>15. CASE Erred
  <2>1. /\ UNCHANGED <<cp, approved, require, status>> /\ pc = "erred"
    BY <1>15 DEF Erred, WorkflowFails, row, ghost, env
  <2>2. CASE Stop("failed")
    BY <1>3, <2>1, <2>2 DEF Stop, Goto, InAttempt
  <2>3. CASE UNCHANGED <<node, hash>> /\ wc'.plan = wc.plan /\ pc' # "saved" /\ pc' # "leaving"
    BY <1>2, <2>1, <2>3 DEF InAttempt
  <2>4. [wc EXCEPT !.verdict = "invalid"].plan = wc.plan
    BY <1>1 DEF Context
  <2> QED BY <1>15, <2>2, <2>3, <2>4 DEF Erred, WorkflowFails, Goto, work
<1>16. CASE SafePoint
  <2>1. /\ Saved # None /\ Saved.wc = wc /\ Saved.approved = hash /\ pc = "save"
        /\ UNCHANGED <<approved, require, status>>
    BY <1>16, SavedCheckpoint DEF SafePoint, Types, row, ghost, env
  <2>2. status # "awaiting_approval"
    BY <2>1 DEF PlaceInv, Executing
  <2>3. /\ approved # {} => /\ wc.plan # None /\ approved = {wc.plan} /\ hash = wc.plan
        /\ hash \in approved \cup {None}
    BY <2>1 DEF GateInv, InAttempt
  <2>4. CASE cp' = Saved /\ UNCHANGED work /\ pc' = "saved"
    BY <2>1, <2>2, <2>3, <2>4 DEF GateInv, InAttempt, work
  <2>5. CASE cp' \in {cp, Saved} /\ Stop("failed")
    <3>1. CASE cp' = cp
      BY <1>3, <2>1, <2>5, <3>1 DEF Stop, Goto, InAttempt
    <3>2. CASE cp' = Saved
      <4>1. /\ hash' = None /\ node' = "router" /\ pc' = "leaving" /\ aim' = "failed"
        BY <2>5 DEF Stop, Goto, Forget
      <4> QED BY <2>1, <2>2, <2>3, <3>2, <4>1 DEF GateInv, InAttempt
    <3> QED BY <2>5, <3>1, <3>2
  <2> QED BY <1>16, <2>4, <2>5 DEF SafePoint
<1>17. CASE AfterSave
  <2>1. /\ UNCHANGED <<cp, approved, require, status>> /\ pc = "saved" /\ cp # None /\ cp.wc = wc
    BY <1>17 DEF AfterSave, row, ghost, env, PlaceInv, GateInv
  <2>2. CASE Gated(wc, hash) /\ Stop("awaiting_approval")
    <3>1. wc.next = "code_generator" /\ wc.plan # hash
      BY <2>2 DEF Gated
    <3>2. cp.wc.plan # None /\ approved = {}
      BY <2>1, <3>1 DEF PlanInv, Planned, GateInv, InAttempt
    <3> QED BY <1>3, <2>1, <2>2, <3>2 DEF Stop, Goto, InAttempt
  <2>3. CASE Stop("paused")
    BY <1>3, <2>1, <2>3 DEF Stop, Goto, InAttempt
  <2>4. CASE /\ ~Gated(wc, hash) /\ UNCHANGED <<wc, hash>> /\ pc' \in {"asking", "result", "node"}
             /\ node' = node \/ node' = wc.next
    <3>1. require /\ node' = "code_generator" => wc.plan = hash
      BY <2>4 DEF Gated, GateInv
    <3>2. status # "awaiting_approval"
      BY <2>1 DEF PlaceInv, Executing
    <3> QED BY <2>1, <2>4, <3>1, <3>2 DEF GateInv, InAttempt
  <2> QED BY <1>17, <2>2, <2>3, <2>4 DEF AfterSave, Goto
<1>18. CASE Conclude \/ Publish \/ Cut
  <2>1. UNCHANGED <<cp, approved, require>>
    BY <1>18 DEF Conclude, Publish, Cut, ghost, env
  <2>2. status' = "awaiting_approval" => status = "awaiting_approval"
    BY <1>18 DEF Conclude, Publish, Cut, row
  <2>3. CASE Forget /\ pc' \in {"idle", "leaving"} /\ aim' # "awaiting_approval"
    BY <1>3, <2>1, <2>2, <2>3 DEF InAttempt
  <2>4. CASE UNCHANGED work /\ pc' = "done" /\ pc = "result"
    BY <1>2, <2>1, <2>2, <2>4 DEF InAttempt, work
  <2> QED BY <1>18, <2>3, <2>4 DEF Conclude, Publish, Cut, Stop, Goto
<1>19. CASE Crash
  <2>1. /\ UNCHANGED <<cp, approved, require>> /\ pc' = "idle" /\ Forget
        /\ status' = "awaiting_approval" => status = "awaiting_approval"
    BY <1>19 DEF Crash, Goto
  <2> QED BY <1>3, <2>1 DEF InAttempt
<1>20. CASE Approve
  <2>1. /\ UNCHANGED <<wc, node, hash, pc, aim, require>> /\ cp # None /\ pc = "idle"
        /\ cp' = [cp EXCEPT !.approved = cp.wc.plan] /\ approved' = approved \cup {cp.wc.plan}
        /\ status' = "pending"
    BY <1>20 DEF Approve, Control, work, env, PlaceInv, Parked, Executing
  <2>2. cp'.wc = cp.wc /\ cp'.approved = cp.wc.plan /\ cp' # None
    <3>1. cp.wc.plan \in Type \cup {None}
      BY <1>1, <2>1, CheckpointParts DEF Context
    <3>2. cp' \in Checkpoint
      BY <1>1, <2>1, <3>1 DEF Checkpoint
    <3> QED BY <1>1, <2>1, <3>2, NoneAssumption DEF Checkpoint, NoneAssumption
  <2>3. approved = {} /\ cp.wc.plan # None
    BY <1>20 DEF Approve, GateInv
  <2>4. node = "router" /\ hash = None
    BY <2>1 DEF PlaceInv, InAttempt
  <2> QED BY <2>1, <2>2, <2>3, <2>4 DEF GateInv, InAttempt
<1> QED BY <1>4, <1>5, <1>6, <1>7, <1>8, <1>9, <1>10, <1>11, <1>12, <1>13, <1>14, <1>15,
           <1>16, <1>17, <1>18, <1>19, <1>20 DEF Next, Work

-----------------------------------------------------------------------------
(* The files                                                               *)

\* A verdict is about the files there are, and they stay as they are from it to
\* the publication.
LEMMA FileKept ==
  ASSUME Types, PlaceInv, SpendInv, FileInv, Next
  PROVE  FileInv'
<1>1. /\ wc \in Context /\ node \in Node /\ cp \in Checkpoint \cup {None}
  BY DEF Types, WorkTypes, PlaceTypes, RowTypes
<1>2. ASSUME SameCheckpoint \/ cp' = cp, wc'.verdict # "valid", pc' # "done",
             accepted \subseteq accepted', UNCHANGED published
      PROVE  FileInv'
  BY <1>1, <1>2 DEF FileInv, SameCheckpoint
<1>3. ASSUME UNCHANGED <<cp, wc, node, files, pc, aim, accepted, published>> PROVE FileInv'
  BY <1>3 DEF FileInv
<1>4. ASSUME Forget PROVE wc'.verdict # "valid"
  BY <1>4 DEF Forget, Fresh
<1>5. CASE AskModel
  <2>1. pc = "asking" /\ UNCHANGED <<wc, accepted, published>>
    BY <1>5 DEF AskModel, work, row
  <2>2. SameCheckpoint /\ pc' \in {"called", "erred"}
    BY <1>5, AskStep DEF Types, SpendInv, AskModel
  <2> QED BY <1>2, <2>1, <2>2 DEF FileInv
<1>6. CASE FinishModel
  <2>1. pc = "called" /\ UNCHANGED <<wc, accepted, published>>
    BY <1>6 DEF FinishModel, work, row
  <2>2. SameCheckpoint /\ pc' \in {"answered", "lost"}
    BY <1>6, FinishStep DEF Types
  <2> QED BY <1>2, <2>1, <2>2 DEF FileInv
<1>7. CASE RetryModel \/ UseTool
  <2>1. pc \in {"lost", "tool"} /\ UNCHANGED <<wc, accepted, published>>
    BY <1>7 DEF RetryModel, UseTool, work, row, ghost
  <2>2. SameCheckpoint /\ pc' \in {"erred", "asking", "claiming"}
    BY <1>7, UseStep DEF Types, RetryModel, UseTool
  <2> QED BY <1>2, <2>1, <2>2 DEF FileInv
<1>8. CASE PostHandler
  <2>1. /\ pc = "point" /\ aim' = "point" /\ UNCHANGED <<node, files, accepted, published>>
        /\ SameCheckpoint /\ pc' \in {"erred", "save"}
    BY <1>8, UseStep DEF Types, PostHandler, ghost, row
  <2>2. wc'.verdict = wc.verdict
    BY <1>1, <1>8 DEF PostHandler, Context
  <2>3. CASE wc.verdict # "valid"
    BY <1>2, <2>1, <2>2, <2>3
  <2>4. CASE wc.verdict = "valid"
    <3>1. files \in accepted /\ node = "quality_check"
      BY <2>4 DEF FileInv
    <3>2. pc' = "save" /\ wc'.next = "END"
      BY <1>1, <1>8, <2>4, <3>1 DEF PostHandler, Repairs, NextNode, Context
    <3> QED BY <1>1, <2>1, <2>2, <3>1, <3>2 DEF FileInv, SameCheckpoint
  <2> QED BY <2>3, <2>4
<1>9. CASE Start \/ BeginFresh
  <2>1. /\ UNCHANGED <<cp, accepted, published>> /\ pc' # "done"
        /\ (wc' = wc /\ pc = "idle") \/ BeginFresh
    BY <1>9 DEF Start, BeginFresh, Goto, ghost, work, row
  <2>2. wc'.verdict # "valid"
    BY <2>1 DEF BeginFresh, Fresh, FileInv
  <2> QED BY <1>2, <2>1, <2>2
<1>10. CASE Leave
  <2>1. UNCHANGED <<cp, accepted, published, wc>> /\ pc' = "idle" /\ pc = "leaving"
    BY <1>10 DEF Leave, Goto, ghost, work
  <2> QED BY <1>2, <2>1 DEF FileInv
<1>11. CASE Pause \/ Resume
  BY <1>3, <1>11 DEF Pause, Resume, Control, work
<1>12. CASE BeginAgain
  <2>1. UNCHANGED <<cp, accepted, published>> /\ cp # None
    BY <1>12 DEF BeginAgain, EnterAt, ghost, row
  <2>2. CASE Forget /\ pc' = "leaving"
    BY <1>2, <1>4, <2>1, <2>2
  <2>3. CASE /\ wc' = cp.wc /\ files' = cp.files
             /\ \/ cp.wc.next = "END" /\ node' = "quality_check" /\ pc' = "result"
                \/ cp.wc.next # "END" /\ pc' = "node"
    BY <2>1, <2>3 DEF FileInv
  <2> QED BY <1>12, <2>2, <2>3 DEF BeginAgain, EnterAt, Stop, Goto, ResumeFiles
<1>13. CASE EnterNode
  <2>1. /\ UNCHANGED <<cp, accepted, published>> /\ pc = "node" /\ pc' \in {"point", "assemble"}
    BY <1>13 DEF EnterNode, ghost, row
  <2>2. wc'.verdict # "valid"
    <3>1. wc.verdict # "valid"
      BY <2>1 DEF FileInv
    <3> QED BY <1>1, <1>13, <3>1 DEF EnterNode, Skip, Context
  <2> QED BY <1>2, <2>1, <2>2
<1>14. CASE Assemble \/ ClaimTool \/ ChangeFiles
  <2>1. /\ UNCHANGED <<cp, accepted, published, wc>> /\ pc \in {"assemble", "claiming", "changing"}
        /\ pc' # "done"
    BY <1>14 DEF Assemble, ClaimTool, ChangeFiles, Goto, ghost, row, work
  <2> QED BY <1>2, <2>1 DEF FileInv
<1>15. CASE Answered
  <2>1. /\ UNCHANGED <<cp, published, node>> /\ pc = "answered" /\ accepted \subseteq accepted'
        /\ pc' # "done"
    BY <1>15 DEF Answered, NodeAnswers, AnswerIsSaved, AnswerIsPassedOn, Goto, row
  <2>2. wc.verdict # "valid"
    BY <2>1 DEF FileInv
  <2>3. \/ wc'.verdict # "valid"
        \/ files' \in accepted' /\ node = "quality_check" /\ pc' = "point"
    BY <1>1, <1>15, <2>2 DEF Answered, NodeAnswers, AnswerIsSaved, AnswerIsPassedOn, Goto,
         Context
  <2>4. CASE files' \in accepted' /\ node = "quality_check" /\ pc' = "point"
    BY <2>1, <2>4 DEF FileInv
  <2> QED BY <1>2, <2>1, <2>3, <2>4
<1>16. CASE Erred
  <2>1. UNCHANGED <<cp, accepted, published>> /\ pc = "erred" /\ pc' # "done"
    BY <1>16 DEF Erred, WorkflowFails, Stop, Goto, ghost, row
  <2>2. wc.verdict # "valid" /\ [wc EXCEPT !.verdict = "invalid"].verdict # "valid"
    BY <1>1, <2>1 DEF FileInv, Context
  <2>3. wc'.verdict # "valid"
    BY <1>4, <1>16, <2>2 DEF Erred, WorkflowFails, Stop, work
  <2> QED BY <1>2, <2>1, <2>3
<1>17. CASE SafePoint
  <2>1. /\ Saved # None /\ Saved.wc = wc /\ Saved.files = files /\ pc = "save"
        /\ UNCHANGED <<accepted, published>>
    BY <1>17, SavedCheckpoint DEF SafePoint, Types, row, ghost
  <2>2. wc.verdict = "valid" => /\ files \in accepted /\ node = "quality_check"
                                /\ wc.next = "END" /\ aim = "point"
    BY <2>1 DEF FileInv
  <2>3. CASE cp' = Saved /\ UNCHANGED <<aim, work>> /\ pc' = "saved"
    BY <2>1, <2>2, <2>3 DEF FileInv, work
  <2>4. CASE cp' \in {cp, Saved} /\ Stop("failed")
    <3>1. wc'.verdict # "valid" /\ pc' # "done"
      BY <1>4, <2>4 DEF Stop, Goto
    <3> QED BY <2>1, <2>2, <2>4, <3>1 DEF FileInv
  <2> QED BY <1>17, <2>3, <2>4 DEF SafePoint
<1>18. CASE AfterSave
  <2>1. UNCHANGED <<cp, accepted, published>> /\ pc = "saved"
    BY <1>18 DEF AfterSave, row, ghost
  <2>2. CASE Forget /\ pc' = "leaving"
    BY <1>2, <1>4, <2>1, <2>2
  <2>3. CASE /\ UNCHANGED <<wc, files>>
             /\ \/ aim = "commit" /\ pc' = "asking"
                \/ aim = "point" /\ wc.next = "END" /\ pc' = "result" /\ node' = node
                \/ wc.next # "END" /\ pc' = "node"
    BY <2>1, <2>3 DEF FileInv
  <2> QED BY <1>18, <2>2, <2>3 DEF AfterSave, Stop, Goto
<1>19. CASE Conclude
  <2>1. UNCHANGED <<cp, accepted, published>> /\ pc = "result"
    BY <1>19 DEF Conclude, row, ghost
  <2>2. CASE wc.verdict = "valid" /\ pc' = "done" /\ UNCHANGED work
    BY <2>1, <2>2 DEF FileInv, work
  <2>3. CASE Forget /\ pc' = "leaving"
    BY <1>2, <1>4, <2>1, <2>3
  <2> QED BY <1>19, <2>2, <2>3 DEF Conclude, Stop, Goto
<1>20. CASE Publish
  <2>1. UNCHANGED <<cp, accepted>> /\ published' \in {published, files} /\ pc = "done"
        /\ Forget /\ pc' # "done"
    BY <1>20 DEF Publish, row, ghost, Stop, Goto
  <2>2. files \in accepted
    BY <2>1 DEF FileInv
  <2> QED BY <1>4, <2>1, <2>2 DEF FileInv
<1>21. CASE Cut \/ Crash
  <2>1. UNCHANGED <<cp, accepted, published>> /\ Forget /\ pc' # "done"
    BY <1>21 DEF Cut, Crash, row, Stop, Goto
  <2> QED BY <1>2, <1>4, <2>1
<1>22. CASE Approve
  <2>1. /\ UNCHANGED <<wc, node, files, pc, aim, accepted, published>>
        /\ cp' = [cp EXCEPT !.approved = cp.wc.plan] /\ cp # None
    BY <1>22 DEF Approve, Control, work, PlaceInv, Parked
  <2>2. cp'.wc = cp.wc /\ cp'.files = cp.files
    BY <1>1, <2>1 DEF Checkpoint
  <2> QED BY <2>1, <2>2 DEF FileInv
<1> QED BY <1>5, <1>6, <1>7, <1>8, <1>9, <1>10, <1>11, <1>12, <1>13, <1>14, <1>15, <1>16, <1>17,
           <1>18, <1>19, <1>20, <1>21, <1>22 DEF Next, Work

-----------------------------------------------------------------------------
(* The theorems                                                            *)

IInv == Types /\ PlaceInv /\ OrderInv /\ SpendInv /\ PlanInv /\ GateInv /\ FileInv

LEMMA InitIInv ==
  ASSUME Init
  PROVE  IInv
<1>1. Fresh(None) \in Context /\ NoUse \in Usage
  BY DEF Fresh, Context, Entry, Node, NoUse, Usage
<1>2. NoSpending \in Spending
  BY DEF NoSpending, Spending
<1>3. Types
  <2>1. RowTypes /\ PlaceTypes
    BY DEF Init, RowTypes, PlaceTypes, Status, PC, Node, Aim
  <2>2. WorkTypes /\ MeterTypes
    BY <1>1 DEF Init, WorkTypes, MeterTypes
  <2>3. GhostTypes
    BY <1>2 DEF Init, GhostTypes
  <2>4. EnvTypes
    BY GraphAssumption DEF Init, EnvTypes, GraphAssumption
  <2> QED BY <2>1, <2>2, <2>3, <2>4 DEF Types
<1>4. PlaceInv /\ OrderInv /\ PlanInv /\ GateInv /\ FileInv
  BY DEF Init, PlaceInv, OrderInv, PlanInv, GateInv, FileInv, InAttempt, Executing, Parked,
         Planned, Fresh
<1>5. SpendInv
  BY GraphAssumption DEF Init, SpendInv, InAttempt, NoUse, NoSpending, GraphAssumption
<1> QED BY <1>3, <1>4, <1>5 DEF IInv

LEMMA NextIInv ==
  ASSUME IInv, [Next]_vars
  PROVE  IInv'
<1>1. CASE Next
  <2>1. Types'
    BY <1>1, RowTypesKept, PlaceTypesKept, WorkTypesKept, MeterTypesKept, GhostTypesKept,
       EnvTypesKept DEF IInv, Types
  <2>2. PlaceInv' /\ OrderInv' /\ SpendInv'
    BY <1>1, PlaceKept, OrderKept, SpendKept DEF IInv
  <2>3. PlanInv' /\ GateInv' /\ FileInv'
    BY <1>1, PlanKept, GateKept, FileKept DEF IInv
  <2> QED BY <2>1, <2>2, <2>3 DEF IInv
<1>2. CASE UNCHANGED vars
  <2> USE <1>2 DEF vars, row, work, meter, ghost, env, IInv
  <2>1. Types'
    BY DEF Types, RowTypes, PlaceTypes, WorkTypes, MeterTypes, GhostTypes, EnvTypes
  <2>2. PlaceInv' /\ OrderInv'
    BY DEF PlaceInv, OrderInv, InAttempt
  <2>3. SpendInv' /\ PlanInv'
    BY DEF SpendInv, PlanInv, InAttempt
  <2>4. GateInv' /\ FileInv'
    BY DEF GateInv, FileInv, InAttempt
  <2> QED BY <2>1, <2>2, <2>3, <2>4
<1> QED BY <1>1, <1>2

\* The strengthened invariant holds in every reachable state.
THEOREM Invariance == Spec => []IInv
BY InitIInv, NextIInv, PTL DEF Spec

\* Every variable of a graph run keeps its type.
THEOREM TypeCorrect == Spec => []TypeOK
<1>1. IInv => TypeOK
  BY DEF IInv, Types, RowTypes, PlaceTypes, WorkTypes, MeterTypes, GhostTypes, EnvTypes, TypeOK
<1> QED BY <1>1, Invariance, PTL

\* No code is generated under a plan that was not approved, where approval is
\* asked for.
THEOREM GateCorrect == Spec => []GateIsKept
<1>1. IInv => GateIsKept
  BY DEF IInv, PlanInv, GateInv, Planned, GateIsKept
<1> QED BY <1>1, Invariance, PTL

\* The user is asked about a plan there is, and never again about the same.
THEOREM AskCorrect == Spec => []AsksOnce
<1>1. IInv => AsksOnce
  BY DEF IInv, GateInv, AsksOnce
<1> QED BY <1>1, Invariance, PTL

\* All attempts of a run together keep its budget.
THEOREM SpendCorrect == Spec => []SpendIsBounded
<1>1. IInv => SpendIsBounded
  <2> SUFFICES ASSUME IInv PROVE SpendIsBounded
    OBVIOUS
  <2>1. /\ spent.tokens \in Nat /\ spent.over \in Nat /\ spent.unseen \in Nat
        /\ used.reserved \in Nat /\ Tokens \in Nat
    BY GraphAssumption DEF IInv, Types, GhostTypes, MeterTypes, Usage, Spending, GraphAssumption
  <2> QED BY <2>1 DEF IInv, SpendInv, SpendIsBounded
<1> QED BY <1>1, Invariance, PTL

\* What is published was found valid as it is.
THEOREM PublishCorrect == Spec => []PublishedIsChecked
<1>1. IInv => PublishedIsChecked
  BY DEF IInv, FileInv, PublishedIsChecked
<1> QED BY <1>1, Invariance, PTL
=============================================================================
