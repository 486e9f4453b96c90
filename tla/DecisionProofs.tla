--------------------------- MODULE DecisionProofs ---------------------------
(***************************************************************************)
(* Theorems about the decision of a run, for any thresholds, budgets,      *)
(* citations and histories and any number of deaths.                       *)
(***************************************************************************)
EXTENDS Decision, TLAPS, FiniteSetTheorems, WellFoundedInduction

-----------------------------------------------------------------------------
(* What an event is made of.                                               *)

Tiers == {"C", "B", "A"}

LEMMA Levels ==
  /\ Level = Tiers
  /\ Weight["C"] = 1 /\ Weight["B"] = 2 /\ Weight["A"] = 3
BY DEF Level, Weight, Tiers

LEMMA Weights ==
  /\ \A l \in Level : Weight[l] \in 1..3 /\ Weight["A"] >= Weight[l]
  /\ \A l \in Level : Weight[l] >= Weight["A"] => l = "A"
  /\ \A l \in Level : Weight[l] >= Weight["B"] => l \in {"A", "B"}
  /\ \A a, b, c \in Level : Weight[a] >= Weight[b] /\ Weight[b] >= Weight[c]
                              => Weight[a] >= Weight[c]
  /\ \A a, b \in Level : Weight[a] < Weight[b] \/ Weight[a] >= Weight[b]
  /\ "A" \in Level /\ "B" \in Level /\ "none" \notin Level
BY Levels DEF Tiers

LEMMA EventParts ==
  ASSUME NEW e \in Event
  PROVE  /\ e.base \in Level /\ e.level \in Level /\ e.image \in BOOLEAN
         /\ e.llm \in Calls /\ e.valid \in BOOLEAN /\ e.rec \in Recs
         /\ e.context \in Contexts /\ e.sop \in Lookups /\ e.repair \in Repairs
         /\ e.replan \in Replans /\ e.decision \in Decisions
         /\ e.approval \in {"auto", "pending"}
BY DEF Event

\* The constants events are started from.
LEMMA Blanks ==
  /\ NoRec \in Recs /\ NoContext \in Contexts /\ Skipped \in Contexts
  /\ NoReplan \in Replans /\ NoDecision \in Decisions
  /\ Repair("none", 0) \in Repairs /\ Repair("not_needed", 0) \in Repairs
  /\ Repair("not_allowed", 0) \in Repairs
<1>1. NoRec \in Recs
  BY DEF NoRec, Recs, NextSteps
<1>2. NoContext \in Contexts /\ Skipped \in Contexts
  BY DecisionAssumption DEF NoContext, Skipped, Contexts
<1>3. NoReplan \in Replans
  BY DEF NoReplan, Replans
<1>4. NoDecision \in Decisions
  BY DEF NoDecision, Decisions
<1>5. /\ Repair("none", 0) \in Repairs /\ Repair("not_needed", 0) \in Repairs
      /\ Repair("not_allowed", 0) \in Repairs
  BY DEF Repair, Repairs, MaxRepairs
<1>6. QED
  BY <1>1, <1>2, <1>3, <1>4, <1>5

-----------------------------------------------------------------------------
(* What the budget admits.                                                 *)

\* Every non-empty set of numbers has a least one.
LEMMA Least ==
  ASSUME NEW T \in SUBSET Nat, T # {}
  PROVE  \E x \in T : \A y \in T : x <= y
<1> DEFINE Less == OpToRel(<, Nat)
<1>1. IsWellFoundedOn(Less, Nat)
  BY NatLessThanWellFounded
<1>2. \A x, y \in Nat : <<y, x>> \in Less <=> y < x
  BY DEF OpToRel
<1> HIDE DEF Less
<1>3. PICK x \in T : \A y \in T : ~ (<<y, x>> \in Less)
  BY <1>1, WFMin
<1>4. SUFFICES ASSUME NEW y \in T PROVE x <= y
  OBVIOUS
<1>5. x \in Nat /\ y \in Nat
  OBVIOUS
<1>6. ~ (<<y, x>> \in Less)
  BY <1>3
<1>7. ~ (y < x)
  BY <1>2, <1>5, <1>6
<1>8. QED
  BY <1>5, <1>7

\* The order of the items is a strict total order.
LEMMA TotalOrder ==
  /\ \A x \in Item : ~Before(x, x)
  /\ \A x, y \in Item : x = y \/ Before(x, y) \/ Before(y, x)
  /\ \A x, y \in Item : ~(Before(x, y) /\ Before(y, x))
  /\ \A x, y, z \in Item : Before(x, y) /\ Before(y, z) => Before(x, z)
<1>1. \A x \in Item : Priority[x.kind] \in Nat /\ x.id \in Nat
  BY DEF Item, Priority
<1>2. \A x, y \in Item : Priority[x.kind] = Priority[y.kind] => x.kind = y.kind
  BY DEF Item, Priority
<1>3. \A x, y \in Item : x.kind = y.kind /\ x.id = y.id => x = y
  BY DEF Item
<1>4. QED
  BY <1>1, <1>2, <1>3 DEF Before

\* A finite, non-empty set of items has a last one.
LEMMA LastItem ==
  ASSUME NEW S \in SUBSET Item, IsFiniteSet(S), S # {}
  PROVE  \E x \in S : \A y \in S : y = x \/ Before(y, x)
<1> DEFINE Bad == {T \in SUBSET S : T # {} /\ ~\E x \in T : \A y \in T : y = x \/ Before(y, x)}
           Sizes == {n \in Nat : \E T \in Bad : Cardinality(T) = n}
<1>1. SUFFICES ASSUME Bad # {} PROVE FALSE
  OBVIOUS
<1>2. \A T \in SUBSET S : IsFiniteSet(T) /\ Cardinality(T) \in Nat
  BY FS_Subset, FS_CardinalityType
<1>3. Sizes # {} /\ Sizes \in SUBSET Nat
  BY <1>1, <1>2
<1>4. PICK n \in Sizes : \A m \in Sizes : n <= m
  BY <1>3, Least
<1>5. PICK T \in Bad : Cardinality(T) = n
  BY <1>4
<1>6. PICK x \in T : TRUE
  BY <1>5
<1> DEFINE R == T \ {x}
<1>7. IsFiniteSet(T) /\ x \in T
  BY <1>2, <1>5, <1>6
<1>8. Cardinality(R) = Cardinality(T) - 1
  BY <1>7, FS_RemoveElement
<1>9. R \in SUBSET S /\ Cardinality(R) \in Nat
  BY <1>2, <1>5
<1>10. R \notin Bad
  <2>1. ASSUME R \in Bad PROVE FALSE
    <3>1. Cardinality(R) \in Sizes
      BY <2>1, <1>9
    <3>2. n <= Cardinality(R)
      BY <3>1, <1>4
    <3>3. n \in Nat
      BY <1>4
    <3> HIDE DEF R, Sizes, Bad
    <3>4. QED
      BY <3>2, <3>3, <1>5, <1>8, <1>9
  <2>2. QED
    BY <2>1
<1>11. CASE R = {}
  BY <1>5, <1>6, <1>11
<1>12. CASE R # {}
  <2>1. PICK z \in R : \A y \in R : y = z \/ Before(y, z)
    BY <1>9, <1>10, <1>12
  <2>2. z \in Item /\ x \in Item /\ T \subseteq Item /\ z \in T
    BY <2>1, <1>5, <1>6
  <2>3. CASE Before(x, z)
    BY <2>1, <2>2, <2>3, <1>5
  <2>4. CASE Before(z, x)
    <3>1. \A y \in T : y = x \/ Before(y, x)
      BY <2>1, <2>2, <2>4, TotalOrder
    <3>2. QED
      BY <3>1, <1>5, <1>6
  <2>5. QED
    BY <2>1, <2>2, <2>3, <2>4, <1>6, TotalOrder
<1>13. QED
  BY <1>11, <1>12

\* What is kept of S, in this order.
Keeps(S, kept, round) ==
  \A x \in S : x \in kept <=>
    Size({y \in kept : Before(y, x)} \cup {x}, round) <= TokenBudget

\* The items can be taken in their order.
LEMMA SomethingIsKept ==
  ASSUME NEW S \in SUBSET Item, IsFiniteSet(S), NEW round
  PROVE  \E kept \in SUBSET S : Keeps(S, kept, round)
<1> DEFINE Bad == {T \in SUBSET S : ~\E kept \in SUBSET T : Keeps(T, kept, round)}
           Sizes == {n \in Nat : \E T \in Bad : Cardinality(T) = n}
<1>1. SUFFICES ASSUME Bad # {} PROVE FALSE
  OBVIOUS
<1>2. \A T \in SUBSET S : IsFiniteSet(T) /\ Cardinality(T) \in Nat
  BY FS_Subset, FS_CardinalityType
<1>3. Sizes # {} /\ Sizes \in SUBSET Nat
  BY <1>1, <1>2
<1>4. PICK n \in Sizes : \A m \in Sizes : n <= m
  BY <1>3, Least
<1>5. PICK T \in Bad : Cardinality(T) = n
  BY <1>4
<1>6. T # {}
  <2>1. Keeps({}, {}, round)
    BY DEF Keeps
  <2>2. QED
    BY <2>1, <1>5
<1>7. T \in SUBSET Item /\ IsFiniteSet(T)
  BY <1>2, <1>5
<1>8. PICK x \in T : \A y \in T : y = x \/ Before(y, x)
  BY <1>6, <1>7, LastItem
<1> DEFINE R == T \ {x}
<1>9. Cardinality(R) = Cardinality(T) - 1
  BY <1>7, FS_RemoveElement
<1>10. R \in SUBSET S /\ Cardinality(R) \in Nat
  BY <1>2, <1>5
<1>11. R \notin Bad
  <2>1. ASSUME R \in Bad PROVE FALSE
    <3>1. Cardinality(R) \in Sizes
      BY <2>1, <1>10
    <3>2. n <= Cardinality(R)
      BY <3>1, <1>4
    <3>3. n \in Nat
      BY <1>4
    <3> HIDE DEF R, Sizes, Bad
    <3>4. QED
      BY <3>2, <3>3, <1>5, <1>9, <1>10
  <2>2. QED
    BY <2>1
<1>12. PICK old \in SUBSET R : Keeps(R, old, round)
  BY <1>10, <1>11
<1> DEFINE fits == Size(old \cup {x}, round) <= TokenBudget
           kept == IF fits THEN old \cup {x} ELSE old
<1>13. \A z \in R : {y \in kept : Before(y, z)} = {y \in old : Before(y, z)}
  <2>1. \A z \in R : ~Before(x, z)
    BY <1>7, <1>8, TotalOrder
  <2>2. QED
    BY <2>1
<1>14. {y \in kept : Before(y, x)} = old
  <2>1. \A y \in old : Before(y, x)
    BY <1>8, <1>12
  <2>2. ~Before(x, x)
    BY <1>7, <1>8, TotalOrder
  <2>3. QED
    BY <2>1, <2>2
<1>15. kept \in SUBSET T
  BY <1>8, <1>12
<1>16. Keeps(T, kept, round)
  <2> SUFFICES ASSUME NEW z \in T
               PROVE  z \in kept <=>
                        Size({y \in kept : Before(y, z)} \cup {z}, round) <= TokenBudget
    BY DEF Keeps
  <2>1. CASE z = x
    <3>1. x \notin old
      BY <1>12
    <3>2. x \in kept <=> fits
      BY <3>1
    <3>3. QED
      BY <2>1, <3>2, <1>14
  <2>2. CASE z # x
    <3>1. z \in R /\ (z \in kept <=> z \in old)
      BY <2>2
    <3> HIDE DEF kept, R
    <3>2. z \in old <=> Size({y \in old : Before(y, z)} \cup {z}, round) <= TokenBudget
      BY <3>1, <1>12 DEF Keeps
    <3>3. QED
      BY <3>1, <3>2, <1>13
  <2>3. QED
    BY <2>1, <2>2
<1>17. QED
  BY <1>5, <1>15, <1>16

LEMMA SmallerOne ==
  ASSUME NEW a \in Int, NEW b \in Int
  PROVE  Min({a, b}) \in Int /\ Min({a, b}) <= a /\ Min({a, b}) <= b
<1>1. \E x \in {a, b} : \A y \in {a, b} : x <= y
  OBVIOUS
<1>2. Min({a, b}) = CHOOSE x \in {a, b} : \A y \in {a, b} : x <= y
  BY DEF Min
<1>3. Min({a, b}) \in {a, b} /\ \A y \in {a, b} : Min({a, b}) <= y
  BY <1>1, <1>2
<1>4. QED
  BY <1>3

LEMMA CandidateItems ==
  ASSUME NEW cites \in Seq(Nat), NEW facts \in Nat
  PROVE  Candidates(cites, facts) \in SUBSET Item /\ IsFiniteSet(Candidates(cites, facts))
<1> DEFINE a == Min({Len(cites), MaxCitations})
           b == Min({facts, MaxMemoryEvents})
           c == Min({facts, 1})
           fa == [i \in 1..a |-> [kind |-> "sop", id |-> cites[i]]]
           fb == [i \in 1..b |-> [kind |-> "memory", id |-> i]]
           A == {[kind |-> "sop", id |-> cites[i]] : i \in 1..a}
           B == {[kind |-> "memory", id |-> n] : n \in 1..b}
           C == {[kind |-> "summary", id |-> 0] : n \in {1} \cap {c}}
<1>1. /\ a \in Int /\ a <= Len(cites)
      /\ b \in Int
  <2>1. /\ Len(cites) \in Int /\ facts \in Int
        /\ MaxCitations \in Int /\ MaxMemoryEvents \in Int
    BY DecisionAssumption
  <2>2. a \in Int /\ a <= Len(cites)
    BY <2>1, SmallerOne
  <2>3. b \in Int
    <3>1. Min({facts, MaxMemoryEvents}) \in Int
      BY <2>1, SmallerOne
    <3>2. QED
      BY <3>1
  <2>4. QED
    BY <2>2, <2>3
<1> HIDE DEF a, b, c
<1>2. A \in SUBSET Item
  BY <1>1 DEF Item
<1>3. B \in SUBSET Item
  BY <1>1 DEF Item
<1>4. C \in SUBSET Item /\ C \in SUBSET {[kind |-> "summary", id |-> 0]}
  BY DEF Item
<1>5. IsFiniteSet(1..a) /\ IsFiniteSet(1..b)
  BY <1>1, FS_Interval
<1>6. fa \in Surjection(1..a, A)
  BY DEF Surjection
<1>7. fb \in Surjection(1..b, B)
  BY DEF Surjection
<1>8. IsFiniteSet(A) /\ IsFiniteSet(B)
  <2> HIDE DEF A, B, fa, fb
  <2>1. QED
    BY <1>5, <1>6, <1>7, FS_Surjection
<1>9. IsFiniteSet(C)
  <2> HIDE DEF C
  <2>1. IsFiniteSet({[kind |-> "summary", id |-> 0]})
    BY FS_Singleton
  <2>2. QED
    BY <2>1, <1>4, FS_Subset
<1>10. Candidates(cites, facts) = A \cup C \cup B
  BY DEF Candidates, a, b, c
<1> HIDE DEF A, B, C
<1>11. QED
  BY <1>2, <1>3, <1>4, <1>8, <1>9, <1>10, FS_Union

LEMMA AdmittedItems ==
  ASSUME NEW cites \in Seq(Nat), NEW facts \in Nat, NEW round
  PROVE  /\ Admit(cites, facts, round) \in SUBSET Candidates(cites, facts)
         /\ Keeps(Candidates(cites, facts), Admit(cites, facts, round), round)
<1> DEFINE S == Candidates(cites, facts)
<1>1. \E kept \in SUBSET S : Keeps(S, kept, round)
  BY CandidateItems, SomethingIsKept
<1>2. Admit(cites, facts, round) = CHOOSE kept \in SUBSET S : Keeps(S, kept, round)
  BY DEF Admit, Keeps
<1> HIDE DEF S
<1>3. QED
  BY <1>1, <1>2 DEF S

\* The optional items of a context are within the budget, whatever their number and sizes.
THEOREM ContextFits ==
  ASSUME NEW cites \in Seq(Nat), NEW facts \in Nat, NEW round
  PROVE  \/ Admit(cites, facts, round) = {}
         \/ Size(Admit(cites, facts, round), round) <= TokenBudget
<1> DEFINE S == Candidates(cites, facts)
           kept == Admit(cites, facts, round)
<1>1. kept \in SUBSET S /\ Keeps(S, kept, round) /\ S \in SUBSET Item /\ IsFiniteSet(S)
  BY AdmittedItems, CandidateItems
<1> HIDE DEF S, kept
<1>2. IsFiniteSet(kept) /\ kept \in SUBSET Item
  BY <1>1, FS_Subset
<1>3. SUFFICES ASSUME kept # {} PROVE Size(kept, round) <= TokenBudget
  BY DEF kept
<1>4. PICK x \in kept : \A y \in kept : y = x \/ Before(y, x)
  BY <1>2, <1>3, LastItem
<1>5. {y \in kept : Before(y, x)} \cup {x} = kept
  BY <1>4
<1>6. QED
  BY <1>1, <1>4, <1>5 DEF Keeps

\* The context builder gives a context of the facts it was given, and the round that asks
\* makes no difference to what is admitted.
LEMMA BuiltContext ==
  ASSUME NEW sop \in Lookups, NEW facts \in 0..MaxHistory
  PROVE  /\ Built(sop, facts, 1) \in Contexts
         /\ Built(sop, facts, 1).facts = facts
         /\ Built(sop, facts, 1).status = "built"
         /\ Built(sop, facts, 2) = Built(sop, facts, 1)
<1> DEFINE found == sop = "retrieved"
           cites == IF found THEN Ranked ELSE <<>>
<1>1. found \in BOOLEAN /\ 1 \in 1..MaxRounds /\ 2 \in 1..MaxRounds
  BY DEF MaxRounds
<1>2. cites \in Seq(Nat) /\ facts \in Nat
  BY DecisionAssumption
<1>3. Admitted[found][facts][1] = Admit(cites, facts, 1)
        /\ Admitted[found][facts][2] = Admit(cites, facts, 2)
  BY <1>1 DEF Admitted
<1> HIDE DEF cites, found
<1>4. Admit(cites, facts, 1) = Admit(cites, facts, 2)
  BY DEF Admit, Size
<1>5. Admit(cites, facts, 1) \in SUBSET Item
  BY <1>2, AdmittedItems, CandidateItems
<1>6. QED
  BY <1>3, <1>4, <1>5 DEF Built, Contexts, found

-----------------------------------------------------------------------------
(* What the functions on events do, field by field.                        *)

\* The fields an update leaves alone.
SameHead(e, f) == e.base = f.base /\ e.image = f.image /\ e.approval = f.approval

LEMMA EscalateFields ==
  ASSUME NEW e \in Event, NEW facts
  PROVE  /\ Escalate(e, facts) \in Event
         /\ SameHead(Escalate(e, facts), e)
         /\ Escalate(e, facts).level = IF e.level = "B" /\ facts >= Threshold
                                        THEN "A" ELSE e.level
         /\ Escalate(e, facts).llm = e.llm /\ Escalate(e, facts).valid = e.valid
         /\ Escalate(e, facts).rec = e.rec /\ Escalate(e, facts).repair = e.repair
         /\ Escalate(e, facts).replan = e.replan /\ Escalate(e, facts).decision = e.decision
BY Weights DEF Escalate, Event, SameHead

LEMMA ConcludedFields ==
  ASSUME NEW e \in Event, NEW rec \in Recs
  PROVE  /\ Concluded(e, rec) \in Event
         /\ SameHead(Concluded(e, rec), e)
         /\ Concluded(e, rec).rec = rec
         /\ Concluded(e, rec).valid = (rec.level \in Level)
         /\ Concluded(e, rec).llm = "success" => rec.level \in Level
         /\ Concluded(e, rec).level = e.level /\ Concluded(e, rec).context = e.context
         /\ Concluded(e, rec).sop = e.sop /\ Concluded(e, rec).repair = e.repair
         /\ Concluded(e, rec).replan = e.replan /\ Concluded(e, rec).decision = e.decision
<1> DEFINE valid == rec.level \in Level
           llm == IF valid THEN "success" ELSE "invalid_json"
<1>1. valid \in BOOLEAN /\ llm \in Calls /\ (llm = "success" => valid)
  BY DEF Calls
<1>2. Concluded(e, rec) = [e EXCEPT !.rec = rec, !.valid = valid, !.llm = llm]
  BY DEF Concluded
<1> HIDE DEF valid, llm
<1>3. /\ Concluded(e, rec) \in Event
      /\ SameHead(Concluded(e, rec), e)
      /\ Concluded(e, rec).rec = rec
      /\ Concluded(e, rec).valid = valid
      /\ Concluded(e, rec).llm = llm
      /\ Concluded(e, rec).level = e.level /\ Concluded(e, rec).context = e.context
      /\ Concluded(e, rec).sop = e.sop /\ Concluded(e, rec).repair = e.repair
      /\ Concluded(e, rec).replan = e.replan /\ Concluded(e, rec).decision = e.decision
  BY <1>1, <1>2 DEF Event, SameHead
<1>4. QED
  BY <1>1, <1>3 DEF valid

LEMMA FallbackFields ==
  ASSUME NEW e \in Event, NEW why \in {"overloaded", "timeout"}
  PROVE  /\ Fallback(e, why) \in Event
         /\ SameHead(Fallback(e, why), e)
         /\ Fallback(e, why).rec = NoRec /\ Fallback(e, why).valid = FALSE
         /\ Fallback(e, why).context = Skipped
         /\ Fallback(e, why).repair = Repair("not_allowed", 0)
         /\ Fallback(e, why).level = e.level /\ Fallback(e, why).sop = e.sop
         /\ Fallback(e, why).replan = e.replan /\ Fallback(e, why).decision = e.decision
BY Blanks DEF Fallback, Event, SameHead, Calls

LEMMA TraceFields ==
  ASSUME NEW e \in Event
  PROVE  /\ WithTrace(e) \in Event
         /\ SameHead(WithTrace(e), e)
         /\ WithTrace(e).repair = IF e.repair.status = "none" THEN Repair("not_needed", 0)
                                                             ELSE e.repair
         /\ WithTrace(e).level = e.level /\ WithTrace(e).rec = e.rec
         /\ WithTrace(e).valid = e.valid /\ WithTrace(e).llm = e.llm
         /\ WithTrace(e).context = e.context /\ WithTrace(e).sop = e.sop
         /\ WithTrace(e).replan = e.replan /\ WithTrace(e).decision = e.decision
BY Blanks DEF WithTrace, Event, SameHead

LEMMA AdoptFields ==
  ASSUME NEW e \in Event, NEW c \in Event
  PROVE  /\ Adopt(e, c) \in Event
         /\ SameHead(Adopt(e, c), e)
         /\ Adopt(e, c).level = c.level /\ Adopt(e, c).rec = c.rec
         /\ Adopt(e, c).valid = c.valid /\ Adopt(e, c).llm = c.llm
         /\ Adopt(e, c).context = c.context /\ Adopt(e, c).sop = c.sop
         /\ Adopt(e, c).repair = c.repair
         /\ Adopt(e, c).replan = e.replan /\ Adopt(e, c).decision = e.decision
BY DEF Adopt, Event, SameHead

\* e.rec and e.replan with a review required.
LEMMA ReviewedFields ==
  ASSUME NEW e \in Event
  PROVE  /\ Reviewed(e) \in Event
         /\ SameHead(Reviewed(e), e)
         /\ Reviewed(e).rec = [e.rec EXCEPT !.review = TRUE]
         /\ Reviewed(e).replan = [e.replan EXCEPT !.status = "manual_review",
                                                  !.review = TRUE]
         /\ Reviewed(e).level = e.level /\ Reviewed(e).valid = e.valid
         /\ Reviewed(e).llm = e.llm
         /\ Reviewed(e).context = e.context /\ Reviewed(e).sop = e.sop
         /\ Reviewed(e).repair = e.repair /\ Reviewed(e).decision = e.decision
<1>1. [e.rec EXCEPT !.review = TRUE] \in Recs
  BY DEF Event, Recs
<1>2. [e.replan EXCEPT !.status = "manual_review", !.review = TRUE] \in Replans
  BY DEF Event, Replans
<1>3. QED
  BY <1>1, <1>2 DEF Reviewed, Event, SameHead

LEMMA CarriedFields ==
  ASSUME NEW e \in Event
  PROVE  /\ Carried(e) \in Event
         /\ SameHead(Carried(e), e)
         /\ Carried(e).rec = NoRec /\ Carried(e).valid = FALSE
         /\ Carried(e).replan = NoReplan /\ Carried(e).decision = NoDecision
         /\ Carried(e).level = e.level
         /\ Carried(e).context = e.context /\ Carried(e).sop = e.sop
         /\ Carried(e).repair = e.repair
BY Blanks DEF Carried, Event, SameHead, Calls

\* The decision rounds of a replan, one longer.
LEMMA RoundAdded ==
  ASSUME NEW replan \in Replans, NEW e \in Event
  PROVE  /\ WithRound(replan, e) \in Replans
         /\ WithRound(replan, e).rounds =
              Append(replan.rounds, [level |-> e.rec.level, context |-> e.context])
         /\ WithRound(replan, e).status = replan.status
         /\ WithRound(replan, e).actions = replan.actions
         /\ WithRound(replan, e).review = replan.review
<1>1. [level |-> e.rec.level, context |-> e.context] \in Rounds
  BY DEF Event, Recs, Rounds
<1>2. QED
  BY <1>1 DEF WithRound, Replans

LEMMA FirstRoundFields ==
  ASSUME NEW e \in Event
  PROVE  /\ FirstRound(e) \in Event
         /\ SameHead(FirstRound(e), e)
         /\ FirstRound(e).replan = WithRound(NoReplan, e)
         /\ FirstRound(e).level = e.level /\ FirstRound(e).rec = e.rec
         /\ FirstRound(e).valid = e.valid /\ FirstRound(e).llm = e.llm
         /\ FirstRound(e).context = e.context /\ FirstRound(e).sop = e.sop
         /\ FirstRound(e).repair = e.repair /\ FirstRound(e).decision = e.decision
<1>1. WithRound(NoReplan, e) \in Replans
  BY RoundAdded, Blanks
<1>2. QED
  BY <1>1 DEF FirstRound, Event, SameHead

\* What becomes of an answer: a registered relation, a conflict reviewed, citations that
\* the model was shown and the lookup had found.
LEMMA AdviceFields ==
  ASSUME NEW e \in Event, NEW rec \in Advice(e)
  PROVE  /\ rec \in Recs
         /\ rec.relation = "conflict" => rec.review
         /\ rec.cites \subseteq Cited(e.context) \cap Retrieved(e.sop)
<1>1. PICK a \in Answer \cup {NoAnswer} : rec = Recommendation(e, a)
  BY DEF Advice
<1>2. CASE a = NoAnswer
  BY <1>1, <1>2, Blanks DEF Recommendation, NoRec
<1>3. CASE a # NoAnswer
  <2> DEFINE relation == Assess(e.image, a)
             cites == Cited(e.context) \cap Retrieved(e.sop)
             insists == a.level = "A" \/ (a.level = "B" /\ a.insists)
  <2>1. a \in Answer
    BY <1>3
  <2>2. rec = [level |-> a.level, relation |-> relation, step |-> NextStep(a),
               insists |-> insists, cites |-> cites, review |-> relation = "conflict"]
    BY <1>1, <1>3 DEF Recommendation
  <2>3. a.level \in Level \cup {"none"} /\ a.insists \in BOOLEAN
    BY <2>1 DEF Answer
  <2>4. relation \in Relations
    BY <2>1 DEF Assess, Answer, Relations
  <2>5. NextStep(a) \in NextSteps
    BY <2>1 DEF NextStep, Answer, NextSteps
  <2>6. cites \in SUBSET Range(Ranked)
    BY DEF Retrieved
  <2>7. insists \in BOOLEAN
    OBVIOUS
  <2> HIDE DEF relation, cites, insists
  <2>8. rec \in Recs /\ rec.relation = relation /\ rec.review = (relation = "conflict")
          /\ rec.cites = cites
    BY <2>2, <2>3, <2>4, <2>5, <2>6, <2>7 DEF Recs
  <2>9. QED
    BY <2>8 DEF cites
<1>4. QED
  BY <1>2, <1>3
-----------------------------------------------------------------------------
(* The inductive invariant.                                                *)

\* What holds of every version of the event, row, pipeline's or thread's: its level is at
\* least that of the rules and of the memory it was told, its repairs are recorded as they
\* were made, a conflict is reviewed, and what was cited was shown.
Sound(e) ==
  /\ Weight[e.level] >= Weight[e.base]
  /\ e.base = "B" /\ e.context.facts >= Threshold => e.level = "A"
  /\ e.repair.status \in {"none", "not_needed", "not_allowed"} => e.repair.count = 0
  /\ e.repair.status = "repaired" => e.repair.count = 1
  /\ e.rec.relation = "conflict" => e.rec.review
  /\ e.rec.cites \subseteq Cited(e.context) \cap Retrieved(e.sop)
  /\ e.decision.level \in Level => Weight[e.decision.level] >= Weight[e.base]

\* The context is the one the builder made of these facts.
Governed(e) == e.context = Built(e.sop, e.context.facts, 1)

\* A valid answer has a level, and such a context behind it.
Backed(e) == e.valid => e.rec.level \in Level /\ Governed(e)

\* The second round was asked with the context of the first, which is still the event's,
\* after frames had been found; its level is not lower, unless a person looks.
Compared(e) ==
  /\ e.replan.rounds[1].context = e.context
  /\ e.replan.rounds[2].context = e.context
  /\ e.replan.actions = <<"succeeded">>
  /\ \/ e.rec.review
     \/ Weight[e.replan.rounds[2].level] >= Weight[e.replan.rounds[1].level]

Short(replan) == Len(replan.rounds) <= MaxRounds /\ Len(replan.actions) <= MaxActions

Replanned(e) ==
  /\ Short(e.replan)
  /\ Len(e.replan.rounds) = 2 => Compared(e)
  /\ e.replan.status = "resolved" => Len(e.replan.rounds) = 2
  /\ e.replan.status = "manual_review" => e.replan.review
  /\ e.replan.review => e.rec.review

\* A valid answer that is in doubt or asks for more is reviewed.
Settled(e) == \/ e.rec.review
              \/ e.valid => /\ e.rec.relation \notin {"conflict", "insufficient"}
                            /\ e.rec.step = "decide"

Decided(e) ==
  /\ Settled(e)
  /\ e.repair.status # "none"
  /\ e.decision.level \in Level
  /\ Weight[e.decision.level] >= Weight[e.level]
  /\ e.decision.review = e.rec.review
  /\ e.decision.grounded = Grounded(e)

\* Nothing of an earlier attempt but the repair, the level and what it was told.
Fresh(e) == e.rec = NoRec /\ ~e.valid /\ e.replan = NoReplan

\* The requests of the attempt, n of them not for a repair.
Within(n) == spent.requests <= n + spent.repairs

\* The trace of e counts the repairs of this attempt and the one before it.
Counted(e) == spent.before + spent.repairs <= e.repair.count

Budget ==
  /\ spent.before + spent.repairs <= MaxRepairs
  /\ Within(2)
  /\ pc \in {"first", "replan"} => Within(1)
  /\ pc = "first" /\ thread.at = "begin" => Within(0)
  /\ pc = "second" /\ thread.at = "begin" => Within(1)
  /\ pc \in {"first", "second"} /\ thread.at \in {"begin", "asked"} => Counted(copy)
  /\ pc = "first" /\ thread.at = "done" /\ copy.valid => Counted(copy)
  /\ pc = "replan" /\ event.valid => Counted(event)

\* While the pipeline waits for the thread, the copy is one of its event.
Waiting ==
  /\ pc \in {"first", "second"} =>
       /\ thread.at # "idle"
       /\ thread.round = IF pc = "first" THEN 1 ELSE 2
       /\ copy.base = event.base
       /\ copy.repair.status # "none"
       /\ thread.at \in {"asked", "repair"} => Governed(copy)
       /\ thread.at = "done" => Backed(copy)
       /\ thread.at = "repair" => copy.repair.count = 0
       /\ copy.llm = "success" /\ thread.at = "done" => copy.valid
  /\ pc = "first" => /\ Fresh(event)
                     /\ thread.at = "begin" => Fresh(copy)
  /\ pc = "second" =>
       /\ event.valid
       /\ event.replan = [status |-> "none", actions |-> <<"succeeded">>, review |-> FALSE,
                          rounds |-> <<[level |-> event.rec.level,
                                        context |-> event.context]>>]
       /\ copy.context = event.context
       /\ copy.sop = event.sop
  /\ pc \notin {"first", "second"} => thread.at = "idle"

\* Where the pipeline is, and what it has established by then.
Phases ==
  /\ pc = "start" => Fresh(event)
  /\ pc = "replan" => event.replan = NoReplan
  /\ pc \in {"first", "replan", "second", "plan"} => event.repair.status # "none"
  /\ pc = "plan" => Settled(event)
  /\ pc \in {"decided", "executing", "done"} => Decided(event)
  /\ pc \in {"start", "first", "replan", "second", "plan"} => run.status = "analyzing"
  /\ run.status # "analyzing" => Decided(run.event)
  /\ pc = "dead" => event = run.event

IInv ==
  /\ TypeOK
  /\ Sound(run.event) /\ Sound(event) /\ Sound(copy)
  /\ Backed(run.event) /\ Backed(event)
  /\ Replanned(run.event) /\ Replanned(event) /\ Short(copy.replan)
  /\ Budget
  /\ Waiting
  /\ Phases

\* What becomes of the order: a recorded check has made it where one is needed, its run
\* remembers it, or has lost it in a crash.
Checked == tools \notin {"none", "failed"}

Holding ==
  /\ tools = "none" => hold = "none"
  /\ pc \notin {"executing", "dead", "done"} => tools = "none"
  /\ pc = "dead" => /\ run.status # "executing" => tools = "none"
                    /\ hold # "made"
  /\ pc = "executing" => /\ run.status = "executing"
                         /\ run.event.decision = event.decision
                         /\ Checked /\ hold = "made" => event.approval = "pending"
  /\ Checked /\ hold = "none" => ~Holds(run.event.decision)
  /\ pc # "done" => run.status \in {"analyzing", "decided", "executing"}
  /\ pc = "done" => run.status \in {"waiting_approval", "succeeded", "manual_takeover"}
  /\ run.status = "waiting_approval" => run.event.approval = "pending"
  /\ run.status = "succeeded" /\ hold # "orphaned" => ~Holds(run.event.decision)

-----------------------------------------------------------------------------
(* What the parts of the invariant say of the functions on events.         *)

LEMMA Bounds ==
  /\ Threshold \in Nat /\ Threshold > 0
  /\ MaxHistory \in Nat /\ MaxCrashes \in Nat
  /\ MaxRounds = 2 /\ MaxActions = 1 /\ MaxRepairs = 1
BY DecisionAssumption DEF MaxRounds, MaxActions, MaxRepairs

LEMMA FieldTypes ==
  ASSUME NEW e \in Event
  PROVE  /\ e.context.facts \in 0..MaxHistory /\ e.context.facts \in Nat
         /\ e.rec.level \in Level \cup {"none"} /\ e.rec.review \in BOOLEAN
         /\ e.repair.count \in {0, 1}
         /\ e.replan.rounds \in Seq(Rounds) /\ e.replan.actions \in Seq(Receipts)
         /\ e.decision.level \in Level \cup {"none"}
<1>1. /\ e.rec \in Recs /\ e.context \in Contexts /\ e.repair \in Repairs
      /\ e.replan \in Replans /\ e.decision \in Decisions
  BY EventParts
<1>2. e.context.facts \in 0..MaxHistory /\ e.context.facts \in Nat
  BY <1>1, Bounds DEF Contexts
<1>3. e.rec.level \in Level \cup {"none"} /\ e.rec.review \in BOOLEAN
  BY <1>1 DEF Recs
<1>4. e.repair.count \in {0, 1}
  BY <1>1, Bounds DEF Repairs
<1>5. e.replan.rounds \in Seq(Rounds) /\ e.replan.actions \in Seq(Receipts)
  BY <1>1 DEF Replans
<1>6. e.decision.level \in Level \cup {"none"}
  BY <1>1 DEF Decisions
<1>7. QED
  BY <1>2, <1>3, <1>4, <1>5, <1>6

LEMMA Nothing ==
  /\ NoRec.level = "none" /\ NoRec.relation = "none" /\ NoRec.cites = {}
  /\ NoRec.review = FALSE
  /\ NoReplan.rounds = <<>> /\ NoReplan.actions = <<>>
  /\ NoReplan.status = "none" /\ NoReplan.review = FALSE
  /\ NoDecision.level = "none"
  /\ Skipped.facts = 0
  /\ \A status, count : /\ Repair(status, count).status = status
                        /\ Repair(status, count).count = count
BY DEF NoRec, NoReplan, NoDecision, Skipped, Repair

\* Without a replan there is nothing to compare.
LEMMA Unplanned ==
  ASSUME NEW e, e.replan = NoReplan
  PROVE  Replanned(e)
BY Nothing, Bounds DEF Replanned, Short

\* The rules' own fallback claims nothing.
LEMMA FallbackSound ==
  ASSUME NEW e \in Event, Sound(e), NEW why \in {"overloaded", "timeout"}
  PROVE  /\ Sound(Fallback(e, why)) /\ Backed(Fallback(e, why))
         /\ Fallback(e, why).repair.status # "none"
<1> DEFINE f == Fallback(e, why)
<1>1. /\ f.rec = NoRec /\ f.valid = FALSE /\ f.context = Skipped
      /\ f.repair = Repair("not_allowed", 0)
      /\ f.level = e.level /\ f.sop = e.sop /\ f.decision = e.decision
      /\ f.base = e.base
  BY FallbackFields DEF SameHead
<1> HIDE DEF f
<1>2. /\ f.rec.relation = "none" /\ f.rec.cites = {} /\ f.context.facts = 0
      /\ f.repair.status = "not_allowed" /\ f.repair.count = 0
  BY <1>1, Nothing
<1>3. ~ (f.context.facts >= Threshold)
  BY <1>2, Bounds
<1>4. Sound(f)
  BY <1>1, <1>2, <1>3 DEF Sound
<1>5. QED
  BY <1>1, <1>2, <1>4 DEF Backed, f

LEMMA TraceSound ==
  ASSUME NEW e \in Event, Sound(e)
  PROVE  /\ Sound(WithTrace(e))
         /\ Backed(e) => Backed(WithTrace(e))
         /\ WithTrace(e).repair.status # "none"
<1>1. /\ Sound(WithTrace(e))
      /\ WithTrace(e).repair.status # "none"
  BY TraceFields, Nothing DEF Sound, SameHead
<1>2. Backed(e) => Backed(WithTrace(e))
  BY TraceFields DEF Backed, Governed
<1>3. QED
  BY <1>1, <1>2

LEMMA AdoptSound ==
  ASSUME NEW e \in Event, NEW c \in Event, Sound(e), Sound(c), e.base = c.base
  PROVE  /\ Sound(Adopt(e, c))
         /\ Backed(c) => Backed(Adopt(e, c))
<1>1. Sound(Adopt(e, c))
  BY AdoptFields DEF Sound, SameHead
<1>2. Backed(c) => Backed(Adopt(e, c))
  BY AdoptFields DEF Backed, Governed
<1>3. QED
  BY <1>1, <1>2

\* A review takes nothing back.
LEMMA ReviewedSound ==
  ASSUME NEW e \in Event, Sound(e), Backed(e), Short(e.replan),
         Len(e.replan.rounds) = 2 => /\ e.replan.rounds[1].context = e.context
                                     /\ e.replan.rounds[2].context = e.context
                                     /\ e.replan.actions = <<"succeeded">>
  PROVE  /\ Sound(Reviewed(e)) /\ Backed(Reviewed(e))
         /\ Replanned(Reviewed(e))
         /\ Settled(Reviewed(e))
<1> DEFINE f == Reviewed(e)
<1>1. /\ f.rec.review = TRUE /\ f.rec.level = e.rec.level
      /\ f.rec.relation = e.rec.relation /\ f.rec.cites = e.rec.cites
  BY ReviewedFields, EventParts DEF Recs
<1>2. /\ f.replan.status = "manual_review" /\ f.replan.review = TRUE
      /\ f.replan.rounds = e.replan.rounds /\ f.replan.actions = e.replan.actions
  BY ReviewedFields, EventParts DEF Replans
<1>3. /\ f.level = e.level /\ f.valid = e.valid /\ f.context = e.context
      /\ f.sop = e.sop /\ f.repair = e.repair /\ f.decision = e.decision
      /\ f.base = e.base
  BY ReviewedFields DEF SameHead
<1> HIDE DEF f
<1>4. Sound(f)
  BY <1>1, <1>3 DEF Sound
<1>5. Backed(f)
  BY <1>1, <1>3 DEF Backed, Governed
<1>6. Replanned(f)
  BY <1>1, <1>2, <1>3 DEF Replanned, Compared, Short
<1>7. Settled(f)
  BY <1>1 DEF Settled
<1>8. QED
  BY <1>4, <1>5, <1>6, <1>7 DEF f

LEMMA CarriedSound ==
  ASSUME NEW e \in Event, Sound(e)
  PROVE  Sound(Carried(e)) /\ Backed(Carried(e)) /\ Fresh(Carried(e))
<1> DEFINE f == Carried(e)
<1>1. /\ f.rec = NoRec /\ f.valid = FALSE /\ f.replan = NoReplan
      /\ f.decision = NoDecision /\ f.context = e.context /\ f.repair = e.repair
      /\ f.level = e.level /\ f.sop = e.sop /\ f.base = e.base
  BY CarriedFields DEF SameHead
<1> HIDE DEF f
<1>2. /\ f.rec.relation = "none" /\ f.rec.cites = {}
      /\ f.decision.level \notin Level
  BY <1>1, Nothing, Weights
<1>3. Sound(f)
  BY <1>1, <1>2 DEF Sound
<1>4. QED
  BY <1>1, <1>3 DEF Backed, Fresh, f

\* Another replan leaves what is sound as it is.
WithReplan(e, replan) == [e EXCEPT !.replan = replan]

LEMMA ReplanSound ==
  ASSUME NEW e \in Event, NEW replan \in Replans, Sound(e), Backed(e),
         NEW f, f = WithReplan(e, replan)
  PROVE  /\ f \in Event /\ Sound(f) /\ Backed(f) /\ f.replan = replan
         /\ f.base = e.base /\ f.level = e.level /\ f.rec = e.rec /\ f.valid = e.valid
         /\ f.context = e.context /\ f.sop = e.sop /\ f.repair = e.repair
         /\ f.llm = e.llm /\ f.decision = e.decision
<1>1. /\ f \in Event /\ f.replan = replan
      /\ f.base = e.base /\ f.level = e.level /\ f.rec = e.rec /\ f.valid = e.valid
      /\ f.context = e.context /\ f.sop = e.sop /\ f.repair = e.repair
      /\ f.llm = e.llm /\ f.decision = e.decision
  BY DEF Event, WithReplan
<1>2. Sound(f)
  BY <1>1 DEF Sound
<1>3. Backed(f)
  BY <1>1 DEF Backed, Governed
<1>4. QED
  BY <1>1, <1>2, <1>3

\* The first round is the only one, and no action has been taken yet.
LEMMA FirstRoundSound ==
  ASSUME NEW e \in Event, Sound(e), Backed(e)
  PROVE  LET f == FirstRound(e)
             round == [level |-> e.rec.level, context |-> e.context]
         IN  /\ f \in Event /\ Sound(f) /\ Backed(f)
             /\ f.replan \in Replans
             /\ f.replan = [status |-> "none", rounds |-> <<round>>, actions |-> <<>>,
                           review |-> FALSE]
             /\ round \in Rounds
<1> DEFINE f == FirstRound(e)
           round == [level |-> e.rec.level, context |-> e.context]
<1>1. /\ f \in Event /\ f.base = e.base /\ f.replan = WithRound(NoReplan, e)
      /\ f.level = e.level /\ f.rec = e.rec /\ f.valid = e.valid
      /\ f.context = e.context /\ f.sop = e.sop /\ f.repair = e.repair
      /\ f.decision = e.decision
  BY FirstRoundFields DEF SameHead
<1>2. round \in Rounds
  BY EventParts DEF Recs, Rounds
<1>3. WithRound(NoReplan, e) = [status |-> "none", rounds |-> <<round>>, actions |-> <<>>,
                                review |-> FALSE]
  <2>1. Append(<<>>, round) = <<round>>
    BY <1>2
  <2>2. WithRound(NoReplan, e) = [NoReplan EXCEPT !.rounds = Append(<<>>, round)]
    BY Nothing DEF WithRound
  <2> HIDE DEF round
  <2>3. QED
    BY <2>1, <2>2 DEF NoReplan
<1>4. f.replan \in Replans
  BY <1>1, EventParts
<1> HIDE DEF f, round
<1>5. Sound(f) /\ Backed(f)
  BY <1>1 DEF Sound, Backed, Governed
<1>6. QED
  BY <1>1, <1>2, <1>3, <1>4, <1>5 DEF f, round

-----------------------------------------------------------------------------
(* The analysis thread keeps the invariant.                                *)

ThreadType == [at : {"idle", "begin", "asked", "repair", "done"}, round : 1..MaxRounds]

RunType == [status : {"analyzing", "decided", "executing", "waiting_approval", "succeeded",
                      "manual_takeover"},
            event : Event]

ToolsOK == /\ tools \in {"none", "checking", "checked", "others", "all", "failed"}
           /\ hold \in {"none", "made", "orphaned"}

SpentType == [requests : Nat, repairs : Nat, before : Nat]

LEMMA TypeParts ==
  TypeOK <=>
    /\ run \in RunType /\ event \in Event /\ copy \in Event /\ thread \in ThreadType
    /\ pc \in {"start", "first", "replan", "second", "plan", "decided", "executing",
               "done", "dead"}
    /\ ToolsOK
    /\ history \in 0..MaxHistory /\ spent \in SpentType /\ crashes \in 0..MaxCrashes
BY DEF TypeOK, RunType, ThreadType, SpentType, ToolsOK

\* Numbers of the budget.
LEMMA SpentNumbers ==
  ASSUME TypeOK
  PROVE  spent.requests \in Nat /\ spent.repairs \in Nat /\ spent.before \in Nat
BY TypeParts DEF SpentType

\* A step of the thread changes the copy, and what the attempt has spent.
LEMMA ThreadFrame ==
  ASSUME IInv, pc \in {"first", "second"},
         UNCHANGED <<run, event, pc, history, crashes>>, ToolsOK',
         copy' \in Event, thread' \in ThreadType, spent' \in SpentType,
         Sound(copy'), copy'.replan = copy.replan, Budget', Waiting'
  PROVE  IInv'
<1>1. TypeOK'
  BY TypeParts DEF IInv, TypeOK, ThreadType, SpentType, ToolsOK
<1>2. /\ Sound(run.event)' /\ Sound(event)' /\ Sound(copy)'
      /\ Backed(run.event)' /\ Backed(event)'
      /\ Replanned(run.event)' /\ Replanned(event)' /\ Short(copy.replan)'
  BY DEF IInv
<1>3. Phases'
  BY DEF IInv, Phases
<1>4. QED
  BY <1>1, <1>2, <1>3 DEF IInv

\* Looking up memory and citations, and building the context from them.
LookUp(e, sop, facts) == [e EXCEPT !.sop = sop, !.context = Built(sop, facts, 1)]

LEMMA LookedUp ==
  ASSUME NEW e \in Event, NEW sop \in Lookups, NEW facts \in 0..MaxHistory,
         NEW f, f = LookUp(e, sop, facts)
  PROVE  /\ f \in Event /\ SameHead(f, e)
         /\ f.sop = sop /\ f.context = Built(sop, facts, 1)
         /\ f.context.facts = facts /\ Governed(f)
         /\ f.level = e.level /\ f.rec = e.rec /\ f.valid = e.valid /\ f.llm = e.llm
         /\ f.repair = e.repair /\ f.replan = e.replan /\ f.decision = e.decision
<1> DEFINE c == Built(sop, facts, 1)
<1>1. c \in Contexts /\ c.facts = facts
  BY BuiltContext
<1>2. c = Built(sop, facts, 1) /\ f = [e EXCEPT !.sop = sop, !.context = c]
  BY DEF LookUp
<1> HIDE DEF c
<1>3. /\ f \in Event /\ SameHead(f, e)
      /\ f.sop = sop /\ f.context = c
      /\ f.level = e.level /\ f.rec = e.rec /\ f.valid = e.valid /\ f.llm = e.llm
      /\ f.repair = e.repair /\ f.replan = e.replan /\ f.decision = e.decision
  BY <1>1, <1>2 DEF Event, SameHead
<1>4. f.context.facts = facts /\ Governed(f)
  BY <1>1, <1>2, <1>3 DEF Governed
<1>5. QED
  BY <1>2, <1>3, <1>4

LEMMA ConsultKeeps ==
  ASSUME IInv, Consult, ToolsOK', UNCHANGED crashes
  PROVE  IInv'
<1>1. /\ TypeOK /\ Sound(copy) /\ Waiting /\ Budget
      /\ event \in Event /\ copy \in Event /\ thread \in ThreadType
      /\ history \in 0..MaxHistory /\ spent \in SpentType
  BY TypeParts DEF IInv
<1>2. /\ thread.at = "begin" /\ thread' = [thread EXCEPT !.at = "asked"]
      /\ spent' = [spent EXCEPT !.requests = @ + 1]
      /\ UNCHANGED <<run, event, pc, history>>
  BY DEF Consult
<1>3. pc \in {"first", "second"}
  BY <1>1, <1>2 DEF Waiting
<1>4. thread' \in ThreadType /\ thread'.at = "asked" /\ thread'.round = thread.round
  BY <1>1, <1>2 DEF ThreadType
<1>5. /\ spent' \in SpentType /\ spent'.requests = spent.requests + 1
      /\ spent'.repairs = spent.repairs /\ spent'.before = spent.before
  BY <1>1, <1>2 DEF SpentType
<1>6. /\ copy' \in Event /\ Sound(copy') /\ Governed(copy')
      /\ SameHead(copy', copy)
      /\ copy'.repair = copy.repair /\ copy'.replan = copy.replan
      /\ pc = "second" => copy'.context = copy.context /\ copy'.sop = copy.sop
  <2>1. CASE pc = "first"
    <3> DEFINE e == Escalate(copy, history)
    <3>1. thread.round = 1 /\ Fresh(copy)
      BY <1>1, <1>2, <2>1 DEF Waiting
    <3>2. PICK sop \in Lookups : copy' = LookUp(e, sop, history)
      BY <3>1 DEF Consult, Facts, Lookups, LookUp
    <3>3. /\ e \in Event /\ SameHead(e, copy)
          /\ e.level = (IF copy.level = "B" /\ history >= Threshold THEN "A"
                                                                   ELSE copy.level)
          /\ e.rec = copy.rec /\ e.repair = copy.repair /\ e.replan = copy.replan
          /\ e.decision = copy.decision
      BY <1>1, EscalateFields
    <3> HIDE DEF e
    <3>4. /\ copy' \in Event /\ SameHead(copy', e) /\ Governed(copy')
          /\ copy'.context.facts = history /\ copy'.level = e.level
          /\ copy'.rec = e.rec /\ copy'.repair = e.repair /\ copy'.replan = e.replan
          /\ copy'.decision = e.decision
      BY <1>1, <3>2, <3>3, LookedUp
    <3>5. copy'.base = copy.base /\ copy.base \in Level /\ copy.level \in Level
      BY <1>1, <3>3, <3>4, EventParts DEF SameHead
    <3>6. Weight[copy'.level] >= Weight[copy'.base]
      BY <1>1, <3>3, <3>4, <3>5, Weights DEF Sound
    <3>7. copy'.base = "B" /\ copy'.context.facts >= Threshold => copy'.level = "A"
      <4>1. copy.base = "B" => copy.level \in {"A", "B"}
        BY <1>1, <3>5, Weights DEF Sound
      <4>2. QED
        BY <4>1, <3>3, <3>4, <3>5
    <3>8. Sound(copy')
      BY <1>1, <3>1, <3>3, <3>4, <3>5, <3>6, <3>7, Nothing DEF Sound, Fresh
    <3>9. QED
      BY <2>1, <3>3, <3>4, <3>8 DEF SameHead
  <2>2. CASE pc = "second"
    <3>1. /\ thread.round = 2 /\ Governed(copy)
          /\ copy.sop \in Lookups /\ copy.context.facts \in 0..MaxHistory
      <4>1. thread.round = 2 /\ event.valid /\ copy.context = event.context
              /\ copy.sop = event.sop
        BY <1>1, <2>2 DEF Waiting
      <4>2. Backed(event)
        BY DEF IInv
      <4>3. QED
        BY <1>1, <4>1, <4>2, EventParts, FieldTypes DEF Backed, Governed
    <3>2. copy' = [copy EXCEPT !.sop = copy.sop,
                               !.context = Built(copy.sop, copy.context.facts, 2)]
      <4>1. thread.round # 1
        BY <3>1
      <4>2. QED
        BY <3>1, <4>1 DEF Consult, Facts
    <3>3. Built(copy.sop, copy.context.facts, 2) = Built(copy.sop, copy.context.facts, 1)
      BY <3>1, BuiltContext
    <3>4. copy' = LookUp(copy, copy.sop, copy.context.facts)
      BY <3>2, <3>3 DEF LookUp
    <3>5. /\ copy' \in Event /\ SameHead(copy', copy) /\ Governed(copy')
          /\ copy'.context = Built(copy.sop, copy.context.facts, 1)
          /\ copy'.sop = copy.sop /\ copy'.level = copy.level
          /\ copy'.rec = copy.rec /\ copy'.repair = copy.repair
          /\ copy'.replan = copy.replan /\ copy'.decision = copy.decision
      BY <1>1, <3>1, <3>4, LookedUp
    <3>6. copy'.context = copy.context
      BY <3>1, <3>5 DEF Governed
    <3>7. Sound(copy')
      BY <1>1, <3>5, <3>6 DEF Sound, SameHead
    <3>8. QED
      BY <3>5, <3>6, <3>7
  <2>3. QED
    BY <1>3, <2>1, <2>2
<1>7. Budget'
  <2>1. /\ spent.requests \in Nat /\ spent.repairs \in Nat /\ spent.before \in Nat
    BY <1>1, SpentNumbers
  <2>2. Counted(copy)
    BY <1>1, <1>2, <1>3 DEF Budget
  <2>3. pc = "first" => Within(0)
    BY <1>1, <1>2 DEF Budget
  <2>4. pc = "second" => Within(1)
    BY <1>1, <1>2 DEF Budget
  <2>5. QED
    BY <1>1, <1>2, <1>3, <1>4, <1>5, <1>6, <2>1, <2>2, <2>3, <2>4 DEF Budget, Within, Counted
<1>8. Waiting'
  BY <1>1, <1>2, <1>3, <1>4, <1>6 DEF Waiting, SameHead
<1>9. QED
  BY <1>2, <1>3, <1>4, <1>5, <1>6, <1>7, <1>8, ThreadFrame

LEMMA RespondKeeps ==
  ASSUME IInv, Respond, ToolsOK', UNCHANGED crashes
  PROVE  IInv'
<1>1. /\ TypeOK /\ Sound(copy) /\ Waiting /\ Budget
      /\ event \in Event /\ copy \in Event /\ thread \in ThreadType
      /\ spent \in SpentType
  BY TypeParts DEF IInv
<1>2. thread.at = "asked" /\ UNCHANGED <<run, event, pc, history>>
  BY DEF Respond
<1>3. pc \in {"first", "second"} /\ Governed(copy) /\ Counted(copy)
  BY <1>1, <1>2 DEF Waiting, Budget
<1>4. /\ spent.requests \in Nat /\ spent.repairs \in Nat /\ spent.before \in Nat
      /\ copy.repair.count \in {0, 1}
  BY <1>1, SpentNumbers, FieldTypes
<1>5. PICK rec \in Advice(copy) :
        \/ /\ rec.level \in Level
           /\ copy' = Concluded(copy, rec)
           /\ thread' = [thread EXCEPT !.at = "done"]
           /\ UNCHANGED spent
        \/ /\ rec.level \notin Level
           /\ MayRepair(copy)
           /\ copy' = [copy EXCEPT !.rec = rec]
           /\ thread' = [thread EXCEPT !.at = "repair"]
           /\ spent' = [spent EXCEPT !.requests = @ + 1, !.repairs = @ + 1]
        \/ /\ rec.level \notin Level
           /\ ~MayRepair(copy)
           /\ copy' = [Concluded(copy, rec) EXCEPT !.repair.status = "exhausted"]
           /\ thread' = [thread EXCEPT !.at = "done"]
           /\ UNCHANGED spent
  BY DEF Respond
<1>6. /\ rec \in Recs
      /\ rec.relation = "conflict" => rec.review
      /\ rec.cites \subseteq Cited(copy.context) \cap Retrieved(copy.sop)
  BY <1>1, <1>5, AdviceFields
<1> DEFINE c == Concluded(copy, rec)
<1>7. /\ c \in Event /\ SameHead(c, copy) /\ c.rec = rec
      /\ c.valid = (rec.level \in Level) /\ (c.llm = "success" => c.valid)
      /\ c.level = copy.level /\ c.context = copy.context /\ c.sop = copy.sop
      /\ c.repair = copy.repair /\ c.replan = copy.replan /\ c.decision = copy.decision
  BY <1>1, <1>6, ConcludedFields
<1> HIDE DEF c
<1>8. CASE rec.level \in Level /\ copy' = c /\ thread' = [thread EXCEPT !.at = "done"]
             /\ UNCHANGED spent
  <2>1. Sound(copy')
    BY <1>1, <1>6, <1>7, <1>8 DEF Sound, SameHead
  <2>2. Backed(copy') /\ copy' \in Event /\ copy'.replan = copy.replan
    BY <1>3, <1>7, <1>8 DEF Backed, Governed
  <2>3. thread' \in ThreadType /\ thread'.at = "done" /\ thread'.round = thread.round
    BY <1>1, <1>8 DEF ThreadType
  <2>4. Budget'
    BY <1>1, <1>2, <1>3, <1>7, <1>8, <2>3 DEF Budget, Within, Counted
  <2>5. Waiting'
    BY <1>1, <1>2, <1>3, <1>7, <1>8, <2>2, <2>3 DEF Waiting, SameHead
  <2>6. QED
    BY <1>1, <1>2, <1>3, <1>8, <2>1, <2>2, <2>3, <2>4, <2>5, ThreadFrame
<1>9. CASE /\ rec.level \notin Level /\ MayRepair(copy) /\ copy' = [copy EXCEPT !.rec = rec]
           /\ thread' = [thread EXCEPT !.at = "repair"]
           /\ spent' = [spent EXCEPT !.requests = @ + 1, !.repairs = @ + 1]
  <2>1. /\ copy' \in Event /\ SameHead(copy', copy) /\ copy'.rec = rec
        /\ copy'.level = copy.level /\ copy'.context = copy.context /\ copy'.sop = copy.sop
        /\ copy'.repair = copy.repair /\ copy'.replan = copy.replan
        /\ copy'.decision = copy.decision
    BY <1>1, <1>6, <1>9 DEF Event, SameHead
  <2>2. Sound(copy') /\ Governed(copy')
    BY <1>1, <1>3, <1>6, <2>1 DEF Sound, Governed, SameHead
  <2>3. thread' \in ThreadType /\ thread'.at = "repair" /\ thread'.round = thread.round
    BY <1>1, <1>9 DEF ThreadType
  <2>4. /\ spent' \in SpentType /\ spent'.requests = spent.requests + 1
        /\ spent'.repairs = spent.repairs + 1 /\ spent'.before = spent.before
    <3>1. spent' = [spent EXCEPT !.requests = spent.requests + 1,
                                 !.repairs = spent.repairs + 1]
      BY <1>9
    <3>2. spent.requests + 1 \in Nat /\ spent.repairs + 1 \in Nat
      BY <1>4
    <3>3. QED
      BY <1>1, <3>1, <3>2 DEF SpentType
  <2>5. copy.repair.count = 0 /\ spent.before = 0 /\ spent.repairs = 0
    BY <1>3, <1>4, <1>9, Bounds DEF MayRepair, Counted
  <2>6. Budget'
    BY <1>1, <1>2, <1>3, <1>4, <2>3, <2>4, <2>5, Bounds DEF Budget, Within, Counted
  <2>7. Waiting'
    BY <1>1, <1>2, <1>3, <2>1, <2>2, <2>3, <2>5 DEF Waiting, SameHead
  <2>8. QED
    BY <1>2, <1>3, <2>1, <2>2, <2>3, <2>4, <2>6, <2>7, ThreadFrame
<1>10. CASE /\ rec.level \notin Level /\ copy' = [c EXCEPT !.repair.status = "exhausted"]
            /\ thread' = [thread EXCEPT !.at = "done"] /\ UNCHANGED spent
  <2>1. c.repair \in Repairs
    BY <1>7, EventParts
  <2>2. /\ copy' \in Event /\ SameHead(copy', c) /\ copy'.rec = c.rec
        /\ copy'.level = c.level /\ copy'.context = c.context /\ copy'.sop = c.sop
        /\ copy'.valid = c.valid /\ copy'.llm = c.llm
        /\ copy'.repair.status = "exhausted" /\ copy'.repair.count = c.repair.count
        /\ copy'.replan = c.replan /\ copy'.decision = c.decision
    BY <1>7, <1>10, <2>1 DEF Event, Repairs, SameHead
  <2>3. Sound(copy') /\ ~copy'.valid /\ Backed(copy')
    <3>1. Sound(c)
      BY <1>1, <1>6, <1>7 DEF Sound, SameHead
    <3>2. ~copy'.valid
      BY <1>7, <1>10, <2>2
    <3>3. Sound(copy')
      BY <2>2, <3>1 DEF Sound, SameHead
    <3>4. Backed(copy')
      BY <3>2 DEF Backed
    <3> QED BY <3>2, <3>3, <3>4
  <2>4. thread' \in ThreadType /\ thread'.at = "done" /\ thread'.round = thread.round
    BY <1>1, <1>10 DEF ThreadType
  <2>5. Budget'
    BY <1>1, <1>2, <1>3, <1>10, <2>3, <2>4 DEF Budget, Within, Counted
  <2>6. Waiting'
    BY <1>1, <1>2, <1>3, <1>7, <2>2, <2>3, <2>4 DEF Waiting, SameHead
  <2>7. QED
    BY <1>1, <1>2, <1>3, <1>7, <1>10, <2>2, <2>3, <2>4, <2>5, <2>6, ThreadFrame
<1>11. QED
  BY <1>5, <1>8, <1>9, <1>10 DEF c

LEMMA RepairedKeeps ==
  ASSUME IInv, Repaired, ToolsOK', UNCHANGED crashes
  PROVE  IInv'
<1>1. /\ TypeOK /\ Sound(copy) /\ Waiting /\ Budget
      /\ event \in Event /\ copy \in Event /\ thread \in ThreadType
      /\ spent \in SpentType
  BY TypeParts DEF IInv
<1>2. /\ thread.at = "repair" /\ thread' = [thread EXCEPT !.at = "done"]
      /\ UNCHANGED <<run, event, pc, history, spent>>
  BY DEF Repaired
<1>3. pc \in {"first", "second"} /\ Governed(copy) /\ copy.repair.count = 0
  BY <1>1, <1>2 DEF Waiting
<1>4. thread' \in ThreadType /\ thread'.at = "done" /\ thread'.round = thread.round
  BY <1>1, <1>2 DEF ThreadType
<1>5. /\ spent.requests \in Nat /\ spent.repairs \in Nat /\ spent.before \in Nat
      /\ spent.before + spent.repairs <= 1
  BY <1>1, SpentNumbers, Bounds DEF Budget
<1>6. PICK rec \in Recs :
        /\ rec.relation = "conflict" => rec.review
        /\ rec.cites \subseteq Cited(copy.context) \cap Retrieved(copy.sop)
        /\ \E status \in {"repaired", "exhausted"} :
             copy' = [Concluded(copy, rec) EXCEPT !.repair = Repair(status, 1)]
  <2>1. PICK rec \in Advice(copy) :
          copy' = IF rec.level \in Level
                    THEN [Concluded(copy, rec) EXCEPT
                            !.repair = Repair("repaired", copy.repair.count + 1)]
                    ELSE [Concluded(copy, copy.rec) EXCEPT
                            !.repair = Repair("exhausted", copy.repair.count + 1)]
    BY DEF Repaired
  <2>2. copy.repair.count + 1 = 1
    BY <1>3
  <2>3. CASE rec.level \in Level
    <3>1. copy' = [Concluded(copy, rec) EXCEPT !.repair = Repair("repaired", 1)]
      BY <2>1, <2>2, <2>3
    <3>2. QED
      BY <1>1, <3>1, AdviceFields
  <2>4. CASE rec.level \notin Level
    <3>1. copy' = [Concluded(copy, copy.rec) EXCEPT !.repair = Repair("exhausted", 1)]
      BY <2>1, <2>2, <2>4
    <3>2. /\ copy.rec \in Recs
          /\ copy.rec.relation = "conflict" => copy.rec.review
          /\ copy.rec.cites \subseteq Cited(copy.context) \cap Retrieved(copy.sop)
      BY <1>1, EventParts DEF Sound
    <3>3. QED
      BY <3>1, <3>2
  <2>5. QED
    BY <2>3, <2>4
<1>7. PICK status \in {"repaired", "exhausted"} :
        copy' = [Concluded(copy, rec) EXCEPT !.repair = Repair(status, 1)]
  BY <1>6
<1> DEFINE c == Concluded(copy, rec)
<1>8. /\ c \in Event /\ SameHead(c, copy) /\ c.rec = rec
      /\ c.valid = (rec.level \in Level) /\ (c.llm = "success" => c.valid)
      /\ c.level = copy.level /\ c.context = copy.context /\ c.sop = copy.sop
      /\ c.repair = copy.repair /\ c.replan = copy.replan /\ c.decision = copy.decision
  BY <1>1, <1>6, ConcludedFields
<1>9. copy' = [c EXCEPT !.repair = Repair(status, 1)]
  BY <1>7
<1> HIDE DEF c
<1>10. /\ Repair(status, 1) \in Repairs
       /\ Repair(status, 1).status = status /\ Repair(status, 1).count = 1
  BY <1>7 DEF Repair, Repairs, MaxRepairs
<1>11. /\ copy' \in Event /\ SameHead(copy', c) /\ copy'.rec = c.rec
       /\ copy'.level = c.level /\ copy'.context = c.context /\ copy'.sop = c.sop
       /\ copy'.valid = c.valid /\ copy'.llm = c.llm /\ copy'.repair = Repair(status, 1)
       /\ copy'.replan = c.replan /\ copy'.decision = c.decision
  BY <1>8, <1>9, <1>10 DEF Event, SameHead
<1>12. Sound(copy')
  BY <1>1, <1>6, <1>7, <1>8, <1>10, <1>11 DEF Sound, SameHead
<1>13. Backed(copy')
  BY <1>3, <1>8, <1>11 DEF Backed, Governed
<1>14. Budget'
  BY <1>1, <1>2, <1>3, <1>4, <1>5, <1>10, <1>11 DEF Budget, Within, Counted
<1>15. Waiting'
  BY <1>1, <1>2, <1>3, <1>4, <1>7, <1>8, <1>10, <1>11, <1>13 DEF Waiting, SameHead
<1>16. QED
  BY <1>1, <1>2, <1>3, <1>4, <1>8, <1>11, <1>12, <1>14, <1>15, ThreadFrame

LEMMA RaiseKeeps ==
  ASSUME IInv, Raise, ToolsOK', UNCHANGED crashes
  PROVE  IInv'
<1> DEFINE rec == IF thread.round = 1 THEN NoRec ELSE copy.rec
           repair == IF thread.round = 1 /\ copy.repair.status = "not_needed"
                       THEN Repair("not_allowed", 0) ELSE copy.repair
<1>1. /\ TypeOK /\ Sound(copy) /\ Waiting /\ Budget
      /\ event \in Event /\ copy \in Event /\ thread \in ThreadType
      /\ spent \in SpentType
  BY TypeParts DEF IInv
<1>2. /\ thread.at \in {"begin", "asked"} /\ thread' = [thread EXCEPT !.at = "done"]
      /\ UNCHANGED <<run, event, pc, history, spent>>
      /\ copy' = [copy EXCEPT !.llm = "failed", !.valid = FALSE, !.rec = rec,
                              !.repair = repair]
  BY DEF Raise
<1>3. pc \in {"first", "second"}
  BY <1>1, <1>2 DEF Waiting
<1>4. thread' \in ThreadType /\ thread'.at = "done" /\ thread'.round = thread.round
  BY <1>1, <1>2 DEF ThreadType
<1>5. /\ rec \in Recs
      /\ rec.relation = "conflict" => rec.review
      /\ rec.cites \subseteq Cited(copy.context) \cap Retrieved(copy.sop)
  <2>1. /\ NoRec \in Recs /\ NoRec.relation # "conflict"
        /\ NoRec.cites \subseteq Cited(copy.context) \cap Retrieved(copy.sop)
    BY Blanks, Nothing
  <2>2. /\ copy.rec \in Recs
        /\ copy.rec.relation = "conflict" => copy.rec.review
        /\ copy.rec.cites \subseteq Cited(copy.context) \cap Retrieved(copy.sop)
    BY <1>1, EventParts DEF Sound
  <2>3. QED
    BY <2>1, <2>2
<1>6. /\ repair \in Repairs
      /\ repair.status # "none" \/ copy.repair.status = "none"
      /\ repair.status \in {"none", "not_needed", "not_allowed"} => repair.count = 0
      /\ repair.status = "repaired" => repair.count = 1
  BY <1>1, EventParts, Blanks, Nothing DEF Sound
<1> HIDE DEF rec, repair
<1>7. /\ copy' \in Event /\ SameHead(copy', copy) /\ copy'.rec = rec
      /\ copy'.level = copy.level /\ copy'.context = copy.context /\ copy'.sop = copy.sop
      /\ copy'.valid = FALSE /\ copy'.llm = "failed" /\ copy'.repair = repair
      /\ copy'.replan = copy.replan /\ copy'.decision = copy.decision
  BY <1>1, <1>2, <1>5, <1>6 DEF Event, SameHead, Calls
<1>8. Sound(copy') /\ Backed(copy')
  BY <1>1, <1>5, <1>6, <1>7 DEF Sound, Backed, SameHead
<1>9. Budget'
  <2>1. /\ spent.requests \in Nat /\ spent.repairs \in Nat /\ spent.before \in Nat
    BY <1>1, SpentNumbers
  <2>2. QED
    BY <1>1, <1>2, <1>3, <1>4, <1>7, <2>1 DEF Budget, Within, Counted
<1>10. Waiting'
  BY <1>1, <1>2, <1>3, <1>4, <1>6, <1>7, <1>8 DEF Waiting, SameHead
<1>11. QED
  BY <1>1, <1>2, <1>3, <1>4, <1>7, <1>8, <1>9, <1>10, ThreadFrame

-----------------------------------------------------------------------------
(* The pipeline keeps the invariant.                                       *)

\* A step after which nobody waits for the thread.
LEMMA PipelineFrame ==
  ASSUME IInv, history' = history, spent' = spent, ToolsOK',
         crashes' = crashes \/ crashes' \in 0..MaxCrashes,
         pc' \notin {"first", "second"},
         pc' \in {"start", "replan", "plan", "decided", "executing", "done", "dead"},
         event' \in Event, run' \in RunType,
         \/ copy' = event' /\ thread' = [at |-> "idle", round |-> 1]
         \/ copy' = event' /\ thread' = thread /\ thread.at = "idle"
         \/ copy' = copy /\ thread' = thread /\ thread.at = "idle",
         Sound(event'), Backed(event'), Replanned(event'),
         run'.event = run.event \/ run'.event = event',
         pc' = "replan" => Within(1) /\ (event'.valid => Counted(event)'),
         Phases'
  PROVE  IInv'
<1>1. TypeOK'
  BY TypeParts, Bounds DEF IInv, TypeOK, ThreadType, RunType, ToolsOK
<1>2. Sound(run.event)' /\ Backed(run.event)' /\ Replanned(run.event)'
  BY DEF IInv
<1>3. Sound(copy)' /\ Short(copy.replan)'
  BY DEF IInv, Replanned
<1>4. Budget'
  BY DEF IInv, Budget, Within, Counted
<1>5. Waiting'
  BY DEF Waiting
<1>6. QED
  BY <1>1, <1>2, <1>3, <1>4, <1>5 DEF IInv

\* Where the pipeline is between two of its steps nobody works on a copy.
LEMMA Idle ==
  ASSUME IInv, pc \notin {"first", "second"}
  PROVE  thread.at = "idle"
BY DEF IInv, Waiting

LEMMA BeginKeeps ==
  ASSUME IInv, Begin, ToolsOK', UNCHANGED crashes
  PROVE  IInv'
<1> DEFINE e == WithTrace(event)
<1>1. /\ TypeOK /\ Sound(event) /\ Backed(event) /\ Fresh(event) /\ Replanned(event)
      /\ event \in Event /\ run \in RunType /\ thread \in ThreadType
      /\ run.status = "analyzing" /\ thread.at = "idle" /\ pc = "start"
  BY TypeParts, Idle DEF Begin, IInv, Phases
<1>2. /\ e \in Event /\ Sound(e) /\ Backed(e) /\ Fresh(e) /\ e.repair.status # "none"
      /\ e.base = event.base /\ e.valid = FALSE /\ e.replan = NoReplan
  BY <1>1, TraceFields, TraceSound DEF Fresh, SameHead
<1>3. e.repair.count \in {0, 1}
  BY <1>2, FieldTypes
<1>4. /\ spent' = [requests |-> 0, repairs |-> 0, before |-> e.repair.count]
      /\ UNCHANGED <<run, history>>
  BY DEF Begin
<1>5. /\ spent' \in SpentType /\ spent'.requests = 0 /\ spent'.repairs = 0
      /\ spent'.before = e.repair.count
  BY <1>3, <1>4 DEF SpentType
<1>6. Replanned(e)
  BY <1>2, Unplanned
<1>7. /\ Sound(run.event)' /\ Backed(run.event)' /\ Replanned(run.event)'
  BY <1>4 DEF IInv
<1> HIDE DEF e
<1>8. CASE event' = e /\ copy' = e /\ thread' = [at |-> "begin", round |-> 1] /\ pc' = "first"
  <2>1. TypeOK'
    BY <1>1, <1>2, <1>4, <1>5, <1>8, TypeParts, Bounds DEF TypeOK, ThreadType, SpentType, ToolsOK
  <2>2. Budget'
    BY <1>3, <1>5, <1>8, Bounds DEF Budget, Within, Counted
  <2>3. Waiting'
    BY <1>2, <1>8 DEF Waiting
  <2>4. Phases'
    BY <1>1, <1>2, <1>4, <1>8 DEF Phases
  <2>5. QED
    BY <1>2, <1>6, <1>7, <1>8, <2>1, <2>2, <2>3, <2>4 DEF IInv, Replanned
<1>9. CASE event' = Fallback(e, "overloaded") /\ pc' = "replan" /\ UNCHANGED <<copy, thread>>
  <2>1. /\ event' \in Event /\ Sound(event') /\ Backed(event')
        /\ event'.replan = NoReplan /\ event'.valid = FALSE
        /\ event'.repair.status # "none"
    BY <1>2, <1>9, FallbackFields, FallbackSound
  <2>2. TypeOK'
    BY <1>1, <1>4, <1>5, <1>9, <2>1, TypeParts DEF TypeOK, SpentType, ToolsOK
  <2>3. Budget'
    BY <1>3, <1>5, <1>9, <2>1, Bounds DEF Budget, Within
  <2>4. Waiting'
    BY <1>1, <1>9 DEF Waiting
  <2>5. Phases'
    BY <1>1, <1>4, <1>9, <2>1 DEF Phases
  <2>6. Replanned(event')
    BY <2>1, Unplanned
  <2>7. Sound(copy)' /\ Short(copy.replan)'
    BY <1>9 DEF IInv
  <2>8. QED
    BY <1>7, <2>1, <2>2, <2>3, <2>4, <2>5, <2>6, <2>7 DEF IInv
<1>10. QED
  BY <1>8, <1>9 DEF Begin, e

LEMMA AdoptFirstKeeps ==
  ASSUME IInv, AdoptFirst, ToolsOK', UNCHANGED crashes
  PROVE  IInv'
<1>1. /\ TypeOK /\ Sound(event) /\ Sound(copy) /\ Waiting /\ Budget /\ Phases
      /\ event \in Event /\ copy \in Event /\ run \in RunType
  BY TypeParts DEF IInv
<1>2. /\ pc = "first" /\ thread.at = "done" /\ pc' = "replan"
      /\ event' = Adopt(event, copy) /\ Forget /\ UNCHANGED <<run, history, spent>>
  BY DEF AdoptFirst
<1>3. /\ Fresh(event) /\ Backed(copy) /\ copy.base = event.base
      /\ copy.repair.status # "none" /\ run.status = "analyzing"
  BY <1>1, <1>2 DEF Waiting, Phases
<1>4. /\ event' \in Event /\ Sound(event') /\ Backed(event')
      /\ event'.replan = NoReplan /\ event'.valid = copy.valid
      /\ event'.repair = copy.repair
  BY <1>1, <1>2, <1>3, AdoptFields, AdoptSound DEF Fresh
<1>5. Replanned(event')
  BY <1>4, Unplanned
<1>6. Within(1) /\ (event'.valid => Counted(event)')
  BY <1>1, <1>2, <1>4 DEF Budget, Counted
<1>7. Phases'
  BY <1>1, <1>2, <1>3, <1>4 DEF Phases
<1>8. QED
  BY <1>1, <1>2, <1>4, <1>5, <1>6, <1>7, PipelineFrame DEF Forget

LEMMA TimeoutFirstKeeps ==
  ASSUME IInv, TimeoutFirst, ToolsOK', UNCHANGED crashes
  PROVE  IInv'
<1>1. /\ TypeOK /\ Sound(event) /\ Waiting /\ Budget /\ Phases
      /\ event \in Event /\ run \in RunType
  BY TypeParts DEF IInv
<1>2. /\ pc = "first" /\ pc' = "replan"
      /\ event' = Fallback(event, "timeout") /\ Forget /\ UNCHANGED <<run, history, spent>>
  BY DEF TimeoutFirst
<1>3. Fresh(event) /\ run.status = "analyzing"
  BY <1>1, <1>2 DEF Waiting, Phases
<1>4. /\ event' \in Event /\ Sound(event') /\ Backed(event')
      /\ event'.replan = NoReplan /\ event'.valid = FALSE
      /\ event'.repair.status # "none"
  BY <1>1, <1>2, <1>3, FallbackFields, FallbackSound DEF Fresh
<1>5. Replanned(event')
  BY <1>4, Unplanned
<1>6. Within(1)
  BY <1>1, <1>2 DEF Budget
<1>7. Phases'
  BY <1>1, <1>2, <1>3, <1>4 DEF Phases
<1>8. QED
  BY <1>1, <1>2, <1>4, <1>5, <1>6, <1>7, PipelineFrame DEF Forget

LEMMA SettleKeeps ==
  ASSUME IInv, Settle, ToolsOK', UNCHANGED crashes
  PROVE  IInv'
<1> DEFINE e == FirstRound(event)
           round == [level |-> event.rec.level, context |-> event.context]
<1>1. /\ TypeOK /\ Sound(event) /\ Backed(event) /\ Phases
      /\ event \in Event /\ run \in RunType /\ thread.at = "idle" /\ pc = "replan"
  BY TypeParts, Idle DEF Settle, IInv
<1>2. /\ e \in Event /\ Sound(e) /\ Backed(e) /\ e.replan \in Replans
      /\ e.replan = [status |-> "none", rounds |-> <<round>>, actions |-> <<>>,
                     review |-> FALSE]
      /\ e.repair = event.repair
  BY <1>1, FirstRoundSound, FirstRoundFields
<1>3. /\ ~Inspects(e)
      /\ event' = CASE ~e.valid -> [e EXCEPT !.replan.status = "model_unavailable"]
                    [] e.valid /\ Unsettled(e) -> Reviewed(e)
                    [] OTHER -> [e EXCEPT !.replan.status = "not_requested"]
      /\ pc' = "plan" /\ UNCHANGED <<run, thread, history, spent>> /\ copy' = event'
  BY DEF Settle
<1>4. /\ Len(e.replan.rounds) = 1 /\ e.replan.actions = <<>>
      /\ e.replan.status = "none" /\ e.replan.review = FALSE
  <2>1. Len(<<round>>) = 1
    OBVIOUS
  <2>2. QED
    BY <1>2, <2>1
<1>5. Short(e.replan)
  BY <1>4, Bounds DEF Short
<1>6. event.repair.status # "none" /\ run.status = "analyzing"
  BY <1>1 DEF Phases
<1>7. e.valid \in BOOLEAN
  BY <1>2, EventParts
<1> HIDE DEF e
<1>8. /\ event' \in Event /\ Sound(event') /\ Backed(event') /\ Replanned(event')
      /\ Settled(event') /\ event'.repair.status # "none"
  <2>1. ASSUME NEW status \in {"model_unavailable", "not_requested"},
               event' = [e EXCEPT !.replan.status = status],
               ~e.valid \/ ~Unsettled(e)
        PROVE  /\ event' \in Event /\ Sound(event') /\ Backed(event') /\ Replanned(event')
               /\ Settled(event') /\ event'.repair.status # "none"
    <3> DEFINE next == [e.replan EXCEPT !.status = status]
    <3>1. event' = WithReplan(e, next)
      BY <2>1 DEF WithReplan
    <3>2. /\ next \in Replans /\ next.status = status /\ next.review = FALSE
          /\ next.rounds = e.replan.rounds /\ next.actions = e.replan.actions
      BY <1>2, <1>4, <2>1 DEF Replans
    <3> HIDE DEF next
    <3>3. /\ event' \in Event /\ Sound(event') /\ Backed(event') /\ event'.replan = next
          /\ event'.rec = e.rec /\ event'.valid = e.valid /\ event'.repair = e.repair
      BY <1>2, <3>1, <3>2, ReplanSound
    <3>4. Replanned(event')
      <4>1. Len(next.rounds) # 2 /\ Short(next)
        <5>1. next.rounds = e.replan.rounds /\ next.actions = e.replan.actions
          BY <3>2
        <5>2. Len(next.rounds) = 1
          BY <1>4, <5>1
        <5>3. Short(next)
          BY <1>5, <5>1 DEF Short
        <5> QED BY <5>2, <5>3
      <4>2. next.status \notin {"resolved", "manual_review"}
        BY <2>1, <3>2
      <4>3. QED
        BY <3>2, <3>3, <4>1, <4>2 DEF Replanned
    <3>5. Settled(event')
      <4>1. e.rec.step \in NextSteps
        BY <1>2, EventParts DEF Recs
      <4>2. QED
        BY <1>3, <2>1, <3>3, <4>1 DEF Settled, Unsettled, Inspects, NextSteps
    <3>6. QED
      BY <1>2, <1>6, <3>3, <3>4, <3>5
  <2>2. ASSUME event' = Reviewed(e)
        PROVE  /\ event' \in Event /\ Sound(event') /\ Backed(event') /\ Replanned(event')
               /\ Settled(event') /\ event'.repair.status # "none"
    <3>1. Len(e.replan.rounds) # 2
      BY <1>4
    <3>2. Sound(event') /\ Backed(event') /\ Replanned(event') /\ Settled(event')
      BY <1>2, <1>5, <2>2, <3>1, ReviewedSound
    <3>3. event' \in Event /\ event'.repair = e.repair
      BY <1>2, <2>2, ReviewedFields
    <3>4. QED
      BY <1>2, <1>6, <3>2, <3>3
  <2>3. CASE ~e.valid
    BY <1>3, <2>1, <2>3
  <2>4. CASE e.valid /\ Unsettled(e)
    BY <1>3, <2>2, <2>4
  <2>5. CASE e.valid /\ ~Unsettled(e)
    <3>1. event' = [e EXCEPT !.replan.status = "not_requested"]
      BY <1>3, <2>5
    <3>2. QED
      BY <2>1, <2>5, <3>1
  <2>6. QED
    BY <1>7, <2>3, <2>4, <2>5
<1>9. Phases'
  BY <1>3, <1>6, <1>8 DEF Phases
<1>10. QED
  BY <1>1, <1>3, <1>8, <1>9, PipelineFrame

LEMMA InspectKeeps ==
  ASSUME IInv, Inspect, ToolsOK', UNCHANGED crashes
  PROVE  IInv'
<1>1. /\ TypeOK /\ Sound(event) /\ Backed(event) /\ Phases /\ Budget /\ event.valid
      /\ event \in Event /\ run \in RunType /\ thread.at = "idle" /\ pc = "replan"
  BY TypeParts, Idle DEF Inspect, Inspects, IInv
<1>2. PICK receipt \in Receipts :
        LET e == [FirstRound(event) EXCEPT !.replan.actions = <<receipt>>] IN
        /\ run' = [run EXCEPT !.event = e]
        /\ \/ /\ receipt = "succeeded" /\ event' = e /\ copy' = e
              /\ thread' = [at |-> "begin", round |-> 2] /\ pc' = "second"
           \/ /\ event' = Reviewed(e) /\ pc' = "plan" /\ UNCHANGED <<copy, thread>>
  BY DEF Inspect
<1> DEFINE e == [FirstRound(event) EXCEPT !.replan.actions = <<receipt>>]
           f == FirstRound(event)
           round == [level |-> event.rec.level, context |-> event.context]
           next == [f.replan EXCEPT !.actions = <<receipt>>]
<1>3. UNCHANGED <<history, spent>>
  BY DEF Inspect
<1>4. /\ run' = [run EXCEPT !.event = e]
      /\ \/ /\ receipt = "succeeded" /\ event' = e /\ copy' = e
            /\ thread' = [at |-> "begin", round |-> 2] /\ pc' = "second"
         \/ /\ event' = Reviewed(e) /\ pc' = "plan" /\ UNCHANGED <<copy, thread>>
  BY <1>2
<1>5. /\ f \in Event /\ Sound(f) /\ Backed(f) /\ f.replan \in Replans
      /\ f.replan = [status |-> "none", rounds |-> <<round>>, actions |-> <<>>,
                     review |-> FALSE]
      /\ f.base = event.base /\ f.rec = event.rec /\ f.valid = event.valid
      /\ f.context = event.context /\ f.sop = event.sop /\ f.repair = event.repair
  BY <1>1, FirstRoundSound, FirstRoundFields DEF SameHead
<1>6. e = WithReplan(f, next)
  BY DEF WithReplan
<1>7. <<receipt>> \in Seq(Receipts) /\ Len(<<receipt>>) = 1 /\ Len(<<round>>) = 1
  BY <1>2
<1>8. /\ next = [status |-> "none", rounds |-> <<round>>, actions |-> <<receipt>>,
                   review |-> FALSE]
      /\ next \in Replans
  <2>1. next = [status |-> "none", rounds |-> <<round>>, actions |-> <<receipt>>,
                  review |-> FALSE]
    <3> DEFINE actions == <<receipt>>
               rounds == <<round>>
    <3>1. /\ next = [f.replan EXCEPT !.actions = actions]
          /\ f.replan = [status |-> "none", rounds |-> rounds, actions |-> <<>>,
                         review |-> FALSE]
      BY <1>5
    <3> HIDE DEF f, round, next, actions, rounds
    <3>2. next = [status |-> "none", rounds |-> rounds, actions |-> actions,
                  review |-> FALSE]
      <4>1. next = [[status |-> "none", rounds |-> rounds, actions |-> <<>>,
                     review |-> FALSE] EXCEPT !.actions = actions]
        BY <3>1
      <4>2. QED
        BY <4>1
    <3>3. QED
      BY <3>2 DEF actions, rounds
  <2>2. next \in Replans
    <3> DEFINE actions == <<receipt>>
    <3>1. actions \in Seq(Receipts)
      BY <1>7
    <3>2. next = [f.replan EXCEPT !.actions = actions]
      OBVIOUS
    <3> HIDE DEF f, round, next, actions
    <3>3. QED
      BY <1>5, <3>1, <3>2 DEF Replans
  <2>3. QED
    BY <2>1, <2>2
<1> HIDE DEF e, f, next
<1>9. /\ e \in Event /\ Sound(e) /\ Backed(e) /\ e.replan = next
      /\ e.base = f.base /\ e.rec = f.rec /\ e.valid = f.valid
      /\ e.context = f.context /\ e.sop = f.sop /\ e.repair = f.repair
  BY <1>5, <1>6, <1>8, ReplanSound
<1>10. /\ Len(e.replan.rounds) = 1 /\ Len(e.replan.actions) = 1
       /\ e.replan.status = "none" /\ e.replan.review = FALSE
  BY <1>7, <1>8, <1>9
<1>11. Short(e.replan) /\ Replanned(e)
  BY <1>10, Bounds DEF Replanned, Short
<1>12. /\ run' \in RunType /\ run'.event = e /\ run'.status = run.status
       /\ run.status = "analyzing"
  BY <1>1, <1>4, <1>9 DEF RunType, Phases
<1>13. e.repair.status # "none"
  BY <1>1, <1>5, <1>9 DEF Phases
<1>14. CASE /\ receipt = "succeeded" /\ event' = e /\ copy' = e
            /\ thread' = [at |-> "begin", round |-> 2] /\ pc' = "second"
  <2>1. TypeOK'
    BY <1>1, <1>3, <1>9, <1>12, <1>14, TypeParts, Bounds DEF TypeOK, ThreadType, RunType, ToolsOK
  <2>2. Within(1) /\ Counted(event)
    BY <1>1 DEF Budget
  <2>3. Budget'
    BY <1>1, <1>3, <1>5, <1>9, <1>14, <2>2 DEF Budget, Within, Counted
  <2>4. Waiting'
    <3>1. event'.replan = [status |-> "none", actions |-> <<"succeeded">>,
                           review |-> FALSE,
                           rounds |-> <<[level |-> event'.rec.level,
                                         context |-> event'.context]>>]
      BY <1>5, <1>8, <1>9, <1>14
    <3>2. QED
      BY <1>1, <1>5, <1>9, <1>13, <1>14, <3>1 DEF Waiting
  <2>5. Phases'
    BY <1>12, <1>13, <1>14 DEF Phases
  <2>6. QED
    BY <1>9, <1>11, <1>12, <1>14, <2>1, <2>3, <2>4, <2>5 DEF IInv
<1>15. CASE event' = Reviewed(e) /\ pc' = "plan" /\ UNCHANGED <<copy, thread>>
  <2>1. /\ event' \in Event /\ Sound(event') /\ Backed(event') /\ Replanned(event')
        /\ Settled(event') /\ event'.repair = e.repair
    <3>1. Len(e.replan.rounds) # 2
      BY <1>10
    <3>2. Sound(event') /\ Backed(event') /\ Replanned(event') /\ Settled(event')
      BY <1>9, <1>11, <1>15, <3>1, ReviewedSound
    <3>3. event' \in Event /\ event'.repair = e.repair
      BY <1>9, <1>15, ReviewedFields
    <3>4. QED
      BY <3>2, <3>3
  <2>2. Phases'
    BY <1>12, <1>13, <1>15, <2>1 DEF Phases
  <2>3. TypeOK'
    BY <1>1, <1>3, <1>12, <1>15, <2>1, TypeParts DEF TypeOK, RunType, ToolsOK
  <2>4. Budget'
    BY <1>1, <1>3, <1>15 DEF Budget, Within, IInv
  <2>5. Waiting'
    BY <1>1, <1>15 DEF Waiting
  <2>6. Sound(copy)' /\ Short(copy.replan)'
    BY <1>15 DEF IInv
  <2>7. QED
    BY <1>9, <1>11, <1>12, <2>1, <2>2, <2>3, <2>4, <2>5, <2>6 DEF IInv
<1>16. QED
  BY <1>4, <1>14, <1>15

LEMMA AdoptSecondKeeps ==
  ASSUME IInv, AdoptSecond, ToolsOK', UNCHANGED crashes
  PROVE  IInv'
<1> DEFINE a == Adopt(event, copy)
           next == WithRound(a.replan, a)
           e == [a EXCEPT !.replan = WithRound(@, a)]
           first == [level |-> event.rec.level, context |-> event.context]
           second == [level |-> a.rec.level, context |-> a.context]
<1>1. /\ TypeOK /\ Sound(event) /\ Sound(copy) /\ Waiting /\ Phases
      /\ event \in Event /\ copy \in Event /\ run \in RunType /\ Backed(event)
  BY TypeParts DEF IInv
<1>2. /\ pc = "second" /\ thread.at = "done" /\ copy.llm = "success"
      /\ pc' = "plan" /\ Forget /\ UNCHANGED <<history, spent>>
      /\ run' = [run EXCEPT !.event = event']
      /\ event' = IF Contested(event.rec, e)
                    THEN Reviewed(e) ELSE [e EXCEPT !.replan.status = "resolved"]
  BY DEF AdoptSecond
<1>3. /\ copy.base = event.base /\ copy.repair.status # "none"
      /\ copy.valid /\ Backed(copy) /\ event.valid
      /\ event.replan = [status |-> "none", actions |-> <<"succeeded">>, review |-> FALSE,
                         rounds |-> <<first>>]
      /\ copy.context = event.context
      /\ run.status = "analyzing"
  BY <1>1, <1>2 DEF Waiting, Phases
<1>4. /\ a \in Event /\ Sound(a) /\ Backed(a) /\ a.replan = event.replan
      /\ a.rec = copy.rec /\ a.valid = copy.valid /\ a.context = event.context
      /\ a.repair = copy.repair
  BY <1>1, <1>3, AdoptFields, AdoptSound
<1>5. a.replan \in Replans
  BY <1>4, EventParts
<1>6. /\ next \in Replans /\ next.status = "none" /\ next.review = FALSE
      /\ next.actions = <<"succeeded">> /\ next.rounds = Append(<<first>>, second)
  <2>1. /\ next \in Replans /\ next.status = a.replan.status
        /\ next.review = a.replan.review /\ next.actions = a.replan.actions
        /\ next.rounds = Append(a.replan.rounds, second)
    BY <1>4, <1>5, RoundAdded
  <2>2. /\ a.replan.status = "none" /\ a.replan.review = FALSE
        /\ a.replan.actions = <<"succeeded">> /\ a.replan.rounds = <<first>>
    <3> HIDE DEF a, first
    <3>1. QED
      BY <1>3, <1>4
  <2> HIDE DEF a, next, first, second
  <2>3. QED
    BY <2>1, <2>2
<1>7. e = WithReplan(a, next)
  BY DEF WithReplan
<1>8. /\ Len(next.rounds) = 2
      /\ next.rounds[1] = first /\ next.rounds[2] = second
      /\ Len(next.actions) = 1
  <2> HIDE DEF first, second, next
  <2>1. <<first>> \in Seq({first, second}) /\ Len(<<first>>) = 1 /\ <<first>>[1] = first
    OBVIOUS
  <2>2. /\ Len(next.rounds) = 2 /\ next.rounds[1] = first /\ next.rounds[2] = second
    BY <1>6, <2>1
  <2>3. Len(next.actions) = 1
    BY <1>6
  <2>4. QED
    BY <2>2, <2>3
<1>9. first.level = event.rec.level /\ second.level = a.rec.level
        /\ first.context = event.context /\ second.context = a.context
  OBVIOUS
<1> HIDE DEF a, next, e, first, second
<1>10. /\ e \in Event /\ Sound(e) /\ Backed(e) /\ e.replan = next
       /\ e.rec = a.rec /\ e.valid = a.valid /\ e.context = a.context
       /\ e.repair = a.repair
  BY <1>4, <1>6, <1>7, ReplanSound
<1>11. Short(e.replan)
  <2>1. Len(e.replan.rounds) = 2 /\ Len(e.replan.actions) = 1
    BY <1>8, <1>10
  <2>2. QED
    BY <2>1, Bounds DEF Short
<1>12. /\ e.replan.rounds[1].context = e.context
       /\ e.replan.rounds[2].context = e.context
       /\ e.replan.actions = <<"succeeded">>
  BY <1>4, <1>6, <1>8, <1>9, <1>10
<1>13. event.rec.level \in Level /\ e.rec.level \in Level
  BY <1>1, <1>3, <1>4, <1>10 DEF Backed
<1>14. /\ event' \in Event /\ Sound(event') /\ Backed(event') /\ Replanned(event')
       /\ Settled(event') /\ event'.repair.status # "none"
  <2>1. CASE Contested(event.rec, e)
    <3>1. event' = Reviewed(e)
      BY <1>2, <2>1
    <3>2. Sound(event') /\ Backed(event') /\ Replanned(event') /\ Settled(event')
      BY <1>10, <1>11, <1>12, <3>1, ReviewedSound
    <3>3. event' \in Event /\ event'.repair = e.repair
      BY <1>10, <3>1, ReviewedFields
    <3>4. QED
      BY <1>3, <1>4, <1>10, <3>2, <3>3
  <2>2. CASE ~Contested(event.rec, e)
    <3> DEFINE last == [e.replan EXCEPT !.status = "resolved"]
    <3>1. event' = WithReplan(e, last)
      BY <1>2, <2>2 DEF WithReplan
    <3>2. /\ last \in Replans /\ last.status = "resolved" /\ last.review = FALSE
          /\ last.rounds = e.replan.rounds /\ last.actions = e.replan.actions
      BY <1>6, <1>10 DEF Replans
    <3> HIDE DEF last
    <3>3. /\ event' \in Event /\ Sound(event') /\ Backed(event') /\ event'.replan = last
          /\ event'.rec = e.rec /\ event'.valid = e.valid /\ event'.repair = e.repair
          /\ event'.context = e.context
      BY <1>10, <3>1, <3>2, ReplanSound
    <3>4. Weight[e.rec.level] >= Weight[event.rec.level]
      BY <1>13, <2>2, Weights DEF Contested
    <3>5. Compared(event')
      <4>1. /\ event'.replan.rounds[1].level = event.rec.level
            /\ event'.replan.rounds[2].level = e.rec.level
        BY <1>8, <1>9, <1>10, <3>2, <3>3
      <4>2. QED
        BY <1>12, <3>2, <3>3, <3>4, <4>1 DEF Compared
    <3>6. Replanned(event')
      <4>1. Short(event'.replan)
        BY <1>11, <1>8, <1>10, <3>2, <3>3, Bounds DEF Short
      <4>2. Len(event'.replan.rounds) = 2
        BY <1>8, <1>10, <3>2, <3>3
      <4>3. QED
        BY <3>2, <3>3, <3>5, <4>1, <4>2 DEF Replanned
    <3>7. Settled(event')
      <4>1. e.rec.step \in NextSteps
        BY <1>10, EventParts DEF Recs
      <4>2. QED
        BY <2>2, <3>3, <4>1 DEF Settled, Contested, Unsettled, NextSteps
    <3>8. QED
      BY <1>3, <1>4, <1>10, <3>3, <3>6, <3>7
  <2>3. QED
    BY <2>1, <2>2
<1>15. /\ run' \in RunType /\ run'.event = event' /\ run'.status = "analyzing"
  BY <1>1, <1>2, <1>3, <1>14 DEF RunType
<1>16. Phases'
  BY <1>2, <1>14, <1>15 DEF Phases
<1>17. QED
  BY <1>2, <1>14, <1>15, <1>16, PipelineFrame DEF Forget

LEMMA RefuseSecondKeeps ==
  ASSUME IInv, RefuseSecond, ToolsOK', UNCHANGED crashes
  PROVE  IInv'
<1>1. /\ TypeOK /\ Sound(event) /\ Backed(event) /\ Waiting /\ Phases /\ Replanned(event)
      /\ event \in Event /\ run \in RunType
  BY TypeParts DEF IInv
<1>2. /\ pc = "second" /\ event' = Reviewed(event) /\ pc' = "plan" /\ Forget
      /\ UNCHANGED <<run, history, spent>>
  BY DEF RefuseSecond
<1>3. /\ run.status = "analyzing" /\ event.repair.status # "none"
      /\ Len(event.replan.rounds) = 1
  <2> DEFINE round == [level |-> event.rec.level, context |-> event.context]
  <2>1. Len(<<round>>) = 1
    OBVIOUS
  <2>2. QED
    BY <1>1, <1>2, <2>1 DEF Waiting, Phases
<1>4. Len(event.replan.rounds) # 2
  BY <1>3
<1>5. Sound(event') /\ Backed(event') /\ Replanned(event') /\ Settled(event')
  BY <1>1, <1>2, <1>4, ReviewedSound DEF Replanned
<1>6. event' \in Event /\ event'.repair = event.repair
  BY <1>1, <1>2, ReviewedFields
<1>7. Phases'
  BY <1>2, <1>3, <1>5, <1>6 DEF Phases
<1>8. QED
  BY <1>1, <1>2, <1>5, <1>6, <1>7, PipelineFrame DEF Forget

\* The dispatcher's level is one of the three and not below the rules'.
LEMMA FinalLevelRises ==
  ASSUME NEW e \in Event
  PROVE  FinalLevel(e) \in Level /\ Weight[FinalLevel(e)] >= Weight[e.level]
<1>1. e.level \in Level
  BY EventParts
<1>2. CASE FinalLevel(e) = e.level
  BY <1>1, <1>2, Weights
<1>3. CASE /\ FinalLevel(e) = e.rec.level
           /\ e.rec.level \in Level /\ Weight[e.rec.level] > Weight[e.level]
  BY <1>1, <1>3, Weights
<1>4. QED
  BY <1>2, <1>3 DEF FinalLevel

LEMMA PlanKeeps ==
  ASSUME IInv, Plan, ToolsOK', UNCHANGED crashes
  PROVE  IInv'
<1> DEFINE decision == [level |-> FinalLevel(event), rule |-> event.level,
                        review |-> event.rec.review, grounded |-> Grounded(event)]
<1>1. /\ TypeOK /\ Sound(event) /\ Backed(event) /\ Phases /\ Replanned(event)
      /\ event \in Event /\ run \in RunType /\ thread.at = "idle" /\ pc = "plan"
  BY TypeParts, Idle DEF Plan, IInv
<1>2. /\ event' = [event EXCEPT !.decision = decision]
      /\ run' = [status |-> "decided", event |-> event'] /\ pc' = "decided"
      /\ UNCHANGED <<thread, history, spent>> /\ copy' = event'
  BY DEF Plan
<1>3. /\ decision.level \in Level /\ Weight[decision.level] >= Weight[event.level]
      /\ decision.review = event.rec.review /\ decision.grounded = Grounded(event)
  BY <1>1, FinalLevelRises
<1>4. decision \in Decisions
  <2>1. event.rec.review \in BOOLEAN /\ event.level \in Level
    BY <1>1, FieldTypes, EventParts
  <2>2. Grounded(event) \in SUBSET Range(Ranked)
    BY DEF Grounded, Retrieved
  <2>3. QED
    BY <1>3, <2>1, <2>2 DEF Decisions
<1> HIDE DEF decision
<1>5. /\ event' \in Event /\ event'.decision = decision
      /\ event'.base = event.base /\ event'.level = event.level /\ event'.rec = event.rec
      /\ event'.valid = event.valid /\ event'.context = event.context
      /\ event'.sop = event.sop /\ event'.repair = event.repair
      /\ event'.replan = event.replan
  BY <1>1, <1>2, <1>4 DEF Event
<1>6. Sound(event')
  <2>1. event.base \in Level /\ event.level \in Level
    BY <1>1, EventParts
  <2>2. Weight[decision.level] >= Weight[event.base]
    BY <1>1, <1>3, <2>1, Weights DEF Sound
  <2>3. QED
    BY <1>1, <1>5, <2>2 DEF Sound
<1>7. Backed(event') /\ Replanned(event')
  BY <1>1, <1>5 DEF Backed, Governed, Replanned, Compared
<1>8. Decided(event')
  BY <1>1, <1>3, <1>5 DEF Phases, Decided, Settled, Grounded
<1>9. run' \in RunType /\ run'.event = event' /\ run'.status = "decided"
  BY <1>2, <1>5 DEF RunType
<1>10. Phases'
  BY <1>2, <1>8, <1>9 DEF Phases
<1>11. QED
  BY <1>1, <1>2, <1>5, <1>6, <1>7, <1>9, <1>10, PipelineFrame

LEMMA DispatchKeeps ==
  ASSUME IInv, Dispatch, ToolsOK', UNCHANGED crashes
  PROVE  IInv'
<1>1. /\ TypeOK /\ Sound(event) /\ Backed(event) /\ Phases /\ Replanned(event)
      /\ event \in Event /\ run \in RunType /\ thread.at = "idle" /\ pc = "decided"
  BY TypeParts, Idle DEF Dispatch, IInv
<1>2. /\ run' = [status |-> "executing", event |-> event] /\ pc' = "executing"
      /\ UNCHANGED <<event, copy, thread, history, spent>>
  BY DEF Dispatch
<1>3. run' \in RunType /\ run'.event = event /\ run'.status = "executing"
  BY <1>1, <1>2 DEF RunType
<1>4. Phases'
  BY <1>1, <1>2, <1>3 DEF Phases
<1>5. QED
  BY <1>1, <1>2, <1>3, <1>4, PipelineFrame

LEMMA CheckKeeps ==
  ASSUME IInv, Check, ToolsOK', UNCHANGED crashes
  PROVE  IInv'
<1> DEFINE approval == IF Holds(event.decision) THEN "pending" ELSE event.approval
<1>1. /\ TypeOK /\ Sound(event) /\ Backed(event) /\ Phases /\ Replanned(event)
      /\ event \in Event /\ run \in RunType /\ thread.at = "idle" /\ pc = "executing"
  BY TypeParts, Idle DEF Check, IInv
<1>2. /\ UNCHANGED <<run, thread, pc, history, spent>> /\ copy' = event'
      /\ event' = event \/ event' = [event EXCEPT !.approval = approval]
  BY DEF Check, Ran, Held
<1>3. approval \in {"auto", "pending"}
  BY <1>1, EventParts
<1> HIDE DEF approval
<1>4. /\ event' \in Event /\ event'.decision = event.decision
      /\ event'.base = event.base /\ event'.level = event.level /\ event'.rec = event.rec
      /\ event'.valid = event.valid /\ event'.context = event.context
      /\ event'.sop = event.sop /\ event'.repair = event.repair
      /\ event'.replan = event.replan
  BY <1>1, <1>2, <1>3 DEF Event
<1>5. /\ Sound(event') /\ Backed(event') /\ Replanned(event')
  BY <1>1, <1>4 DEF Sound, Backed, Governed, Replanned, Compared
<1>6. Decided(event')
  BY <1>1, <1>4 DEF Phases, Decided, Settled, Grounded
<1>7. Phases'
  BY <1>1, <1>2, <1>6 DEF Phases
<1>8. QED
  BY <1>1, <1>2, <1>4, <1>5, <1>7, PipelineFrame

LEMMA ToolKeeps ==
  ASSUME IInv, Recorded \/ OtherTool, ToolsOK', UNCHANGED crashes
  PROVE  IInv'
<1>1. /\ TypeOK /\ Sound(event) /\ Backed(event) /\ Phases /\ Replanned(event)
      /\ event \in Event /\ run \in RunType /\ thread.at = "idle" /\ pc = "executing"
  BY TypeParts, Idle DEF Recorded, OtherTool, IInv
<1>2. UNCHANGED <<run, event, copy, thread, pc, history, spent>>
  BY DEF Recorded, OtherTool, Ran
<1>3. Phases'
  BY <1>1, <1>2 DEF Phases
<1>4. QED
  BY <1>1, <1>2, <1>3, PipelineFrame

LEMMA EndStatus == End(event) \in {"waiting_approval", "manual_takeover", "succeeded"}
BY DEF End

LEMMA ConcludeKeeps ==
  ASSUME IInv, Conclude, ToolsOK', UNCHANGED crashes
  PROVE  IInv'
<1>1. /\ TypeOK /\ Sound(event) /\ Backed(event) /\ Phases /\ Replanned(event)
      /\ event \in Event /\ run \in RunType /\ thread.at = "idle" /\ pc = "executing"
  BY TypeParts, Idle DEF Conclude, IInv
<1>2. /\ run' = [status |-> End(event), event |-> event] /\ pc' = "done"
      /\ UNCHANGED <<event, copy, thread, history, spent>>
  BY DEF Conclude
<1>3. run' \in RunType /\ run'.event = event
  BY <1>1, <1>2, EndStatus DEF RunType
<1>4. Phases'
  BY <1>1, <1>2, <1>3 DEF Phases
<1>5. QED
  BY <1>1, <1>2, <1>3, <1>4, PipelineFrame

LEMMA OtherAlarmKeeps ==
  ASSUME IInv, OtherAlarm, ToolsOK', UNCHANGED crashes
  PROVE  IInv'
<1>1. history < MaxHistory /\ history' = history + 1 /\ history \in 0..MaxHistory
        /\ UNCHANGED <<run, event, copy, thread, pc, spent>>
  BY TypeParts DEF OtherAlarm, IInv
<1>2. history' \in 0..MaxHistory
  BY <1>1, Bounds
<1>3. TypeOK'
  BY <1>1, <1>2, TypeParts DEF IInv, TypeOK, RunType, ThreadType, SpentType, ToolsOK
<1>4. Budget' /\ Waiting' /\ Phases'
  <2>1. Budget'
    BY <1>1 DEF IInv, Budget, Within, Counted
  <2>2. Waiting'
    BY <1>1 DEF IInv, Waiting
  <2>3. Phases'
    BY <1>1 DEF IInv, Phases
  <2>4. QED
    BY <2>1, <2>2, <2>3
<1>5. QED
  BY <1>1, <1>3, <1>4 DEF IInv

LEMMA CrashKeeps ==
  ASSUME IInv, Crash, ToolsOK'
  PROVE  IInv'
<1>1. /\ TypeOK /\ Phases /\ run \in RunType /\ crashes \in 0..MaxCrashes
      /\ Sound(run.event) /\ Backed(run.event) /\ Replanned(run.event)
  BY TypeParts DEF IInv
<1>2. /\ crashes < MaxCrashes /\ crashes' = crashes + 1 /\ pc' = "dead"
      /\ event' = run.event /\ Forget /\ UNCHANGED <<run, history, spent>>
  BY DEF Crash
<1>3. crashes' \in 0..MaxCrashes
  BY <1>1, <1>2, Bounds
<1>4. run.event \in Event
  BY <1>1 DEF RunType
<1>5. Phases'
  BY <1>1, <1>2 DEF Phases
<1>6. QED
  BY <1>1, <1>2, <1>3, <1>4, <1>5, PipelineFrame DEF Forget

LEMMA RecoverKeeps ==
  ASSUME IInv, Recover, ToolsOK'
  PROVE  IInv'
<1>1. /\ TypeOK /\ Phases /\ run \in RunType /\ event \in Event /\ pc = "dead"
      /\ crashes \in 0..MaxCrashes
      /\ Sound(event) /\ Backed(event) /\ Replanned(event) /\ event = run.event
  BY TypeParts DEF IInv, Recover, Phases
<1>2. Forget /\ UNCHANGED <<history, spent, crashes>>
  BY DEF Recover
<1>3. CASE Audit
  <2>1. /\ run.status = "executing" /\ event' = event /\ pc' \in {"executing", "done"}
        /\ \/ run' = run
           \/ run' = [run EXCEPT !.status = "manual_takeover"]
           \/ run' = [run EXCEPT !.status = End(event)]
    BY <1>3 DEF Audit
  <2>2. run' \in RunType /\ run'.event = run.event
    BY <1>1, <2>1, EndStatus DEF RunType
  <2>3. Phases'
    BY <1>1, <2>1, <2>2 DEF Phases
  <2>4. QED
    BY <1>1, <1>2, <2>1, <2>2, <2>3, PipelineFrame DEF Forget
<1>4. CASE /\ pc' = "start" /\ event' = Carried(event)
           /\ run' = [status |-> "analyzing", event |-> event']
  <2>1. /\ event' \in Event /\ Sound(event') /\ Backed(event') /\ Fresh(event')
    BY <1>1, <1>4, CarriedFields, CarriedSound
  <2>2. Replanned(event')
    BY <2>1, Unplanned DEF Fresh
  <2>3. run' \in RunType /\ run'.event = event' /\ run'.status = "analyzing"
    BY <1>4, <2>1 DEF RunType
  <2>4. Phases'
    BY <1>4, <2>1, <2>3 DEF Phases
  <2>5. QED
    BY <1>1, <1>2, <1>4, <2>1, <2>2, <2>3, <2>4, PipelineFrame DEF Forget
<1>5. QED
  BY <1>3, <1>4 DEF Recover, Restart

-----------------------------------------------------------------------------
(* The invariant.                                                          *)

LEMMA InitHolds == Init => IInv
<1> SUFFICES ASSUME Init PROVE IInv
  OBVIOUS
<1>1. PICK level \in Level, image \in BOOLEAN : event = NewEvent(level, image)
  BY DEF Init
<1>2. /\ event.base = level /\ event.level = level /\ event.rec = NoRec
      /\ event.valid = FALSE /\ event.context = NoContext
      /\ event.repair = Repair("none", 0) /\ event.replan = NoReplan
      /\ event.decision = NoDecision
  BY <1>1 DEF NewEvent
<1>3. event \in Event
  BY <1>1, Blanks DEF NewEvent, Event, Calls, Lookups
<1>4. /\ run = [status |-> "analyzing", event |-> event] /\ copy = event
      /\ thread = [at |-> "idle", round |-> 1] /\ pc = "start"
      /\ tools = "none" /\ hold = "none"
      /\ history \in 0..MaxHistory
      /\ spent = [requests |-> 0, repairs |-> 0, before |-> 0] /\ crashes = 0
  BY DEF Init
<1>5. TypeOK
  BY <1>3, <1>4, Bounds DEF TypeOK
<1>6. Sound(event)
  <2>1. NoContext.facts = 0 /\ ~ (0 >= Threshold)
    BY Bounds DEF NoContext
  <2>2. Weight[level] >= Weight[level]
    BY Weights
  <2>3. QED
    BY <1>2, <2>1, <2>2, Nothing, Weights DEF Sound
<1>7. Backed(event) /\ Replanned(event) /\ Fresh(event)
  BY <1>2, Unplanned DEF Backed, Fresh
<1>8. Budget
  BY <1>4, Bounds DEF Budget, Within
<1>9. Waiting
  BY <1>4 DEF Waiting
<1>10. Phases
  BY <1>4, <1>7 DEF Phases
<1>11. QED
  BY <1>4, <1>5, <1>6, <1>7, <1>8, <1>9, <1>10 DEF IInv, Replanned

LEMMA StutterKeeps ==
  ASSUME IInv, UNCHANGED vars
  PROVE  IInv'
<1>1. TypeOK'
  BY DEF vars, toolVars, IInv, TypeOK
<1>2. Budget'
  BY DEF vars, IInv, Budget, Within, Counted
<1>3. Waiting'
  BY DEF vars, IInv, Waiting
<1>4. Phases'
  BY DEF vars, IInv, Phases
<1>5. QED
  BY <1>1, <1>2, <1>3, <1>4 DEF vars, IInv

\* The rows of the tools and the order have their types after every step.
LEMMA ToolsTyped ==
  ASSUME TypeOK, [Next]_vars
  PROVE  ToolsOK'
<1>1. ToolsOK
  BY TypeParts
<1>2. CASE UNCHANGED toolVars
  BY <1>1, <1>2 DEF toolVars, ToolsOK
<1>3. CASE Check
  BY <1>1, <1>3 DEF Check, Ran, ToolsOK
<1>4. CASE Recorded \/ OtherTool
  BY <1>1, <1>4 DEF Recorded, OtherTool, Outcomes, Ran, ToolsOK
<1>5. CASE Crash
  BY <1>1, <1>5 DEF Crash, ToolsOK
<1>6. CASE Conclude \/ Recover \/ UNCHANGED vars
  BY <1>1, <1>6 DEF Conclude, Recover, vars, toolVars, ToolsOK
<1>7. QED
  BY <1>2, <1>3, <1>4, <1>5, <1>6 DEF Next, Tools

LEMMA NextKeeps == IInv /\ [Next]_vars => IInv'
<1> SUFFICES ASSUME IInv, [Next]_vars PROVE IInv'
  OBVIOUS
<1>0. ToolsOK'
  BY ToolsTyped DEF IInv
<1>1. CASE Thread /\ UNCHANGED crashes
  BY <1>0, <1>1, ConsultKeeps, RespondKeeps, RepairedKeeps, RaiseKeeps DEF Thread
<1>2. CASE Pipeline /\ UNCHANGED crashes
  BY <1>0, <1>2, BeginKeeps, AdoptFirstKeeps, TimeoutFirstKeeps, SettleKeeps, InspectKeeps,
     AdoptSecondKeeps, RefuseSecondKeeps, PlanKeeps, DispatchKeeps
     DEF Pipeline
<1>3. CASE Tools /\ UNCHANGED crashes
  BY <1>0, <1>3, CheckKeeps, ToolKeeps, ConcludeKeeps DEF Tools
<1>4. CASE OtherAlarm /\ UNCHANGED crashes
  BY <1>0, <1>4, OtherAlarmKeeps
<1>5. CASE Crash
  BY <1>0, <1>5, CrashKeeps
<1>6. CASE Recover
  BY <1>0, <1>6, RecoverKeeps
<1>7. CASE UNCHANGED vars
  BY <1>7, StutterKeeps
<1>8. QED
  BY <1>1, <1>2, <1>3, <1>4, <1>5, <1>6, <1>7 DEF Next

LEMMA Invariant == Spec => []IInv
BY InitHolds, NextKeeps, PTL DEF Spec

-----------------------------------------------------------------------------
(* What becomes of the order.                                              *)

\* Until the tools run there is no order and no end.
LEMMA AnalysisHolds ==
  ASSUME IInv, Holding, Thread \/ Pipeline \/ OtherAlarm, UNCHANGED toolVars
  PROVE  Holding'
<1>1. CASE UNCHANGED <<run, event, pc>>
  BY <1>1 DEF Holding, Checked, Holds, toolVars
<1>2. CASE Begin \/ AdoptFirst \/ TimeoutFirst \/ Settle \/ Inspect \/ AdoptSecond
             \/ RefuseSecond
  <2>1. /\ pc \in {"start", "first", "replan", "second"}
        /\ pc' \in {"first", "replan", "second", "plan"}
        /\ run' = run \/ \E e \in {event'} \cup {run'.event} : run' = [run EXCEPT !.event = e]
    BY <1>2 DEF Begin, AdoptFirst, TimeoutFirst, Settle, Inspect, AdoptSecond, RefuseSecond
  <2>2. run.status = "analyzing" /\ run \in RunType
    BY <2>1, TypeParts DEF IInv, Phases
  <2>3. run'.status = "analyzing"
    BY <2>1, <2>2 DEF RunType
  <2>4. tools' = "none" /\ hold' = "none"
    BY <2>1 DEF Holding, toolVars
  <2>5. QED
    BY <2>1, <2>3, <2>4 DEF Holding, Checked
<1>3. CASE Plan \/ Dispatch
  <2>1. /\ pc \in {"plan", "decided"} /\ pc' \in {"decided", "executing"}
        /\ run'.status \in {"decided", "executing"}
        /\ pc' = "executing" => run'.status = "executing" /\ run'.event = event'
    BY <1>3 DEF Plan, Dispatch
  <2>2. tools' = "none" /\ hold' = "none"
    BY <2>1 DEF Holding, toolVars
  <2>3. QED
    BY <2>1, <2>2 DEF Holding, Checked
<1>4. QED
  BY <1>1, <1>2, <1>3 DEF Thread, Consult, Respond, Repaired, Raise, Pipeline, OtherAlarm

LEMMA ToolsHold ==
  ASSUME IInv, Holding, Check \/ Recorded \/ OtherTool
  PROVE  Holding'
<1>1. pc = "executing" /\ pc' = "executing" /\ run' = run /\ run.status = "executing"
        /\ run.event.decision = event.decision
  BY DEF Check, Recorded, OtherTool, Ran, Holding
<1>2. CASE Check
  <2>1. event \in Event /\ event.approval \in {"auto", "pending"}
    BY TypeParts, EventParts DEF IInv
  <2>2. event'.decision = event.decision
    BY <1>2, <2>1 DEF Check, Held, Event
  <2>3. CASE tools' = "failed"
    BY <1>1, <2>2, <2>3 DEF Holding, Checked
  <2>4. CASE event' = Held(event) /\ hold' = IF Holds(event.decision) THEN "made" ELSE hold
    <3>1. Holds(event.decision) => event'.approval = "pending" /\ hold' = "made"
      BY <2>1, <2>4 DEF Held, Event
    <3>2. ~Holds(event.decision) => hold' = "none"
      BY <1>2, <2>4 DEF Check, Holding
    <3>3. tools' # "none"
      BY <1>2 DEF Check, Ran
    <3>4. QED
      BY <1>1, <2>2, <3>1, <3>2, <3>3 DEF Holding, Checked
  <2>5. QED
    BY <1>2, <2>3, <2>4 DEF Check, Ran
<1>3. CASE Recorded \/ OtherTool
  <2>1. UNCHANGED <<event, hold>> /\ tools' # "none" /\ (Checked' => Checked)
    BY <1>3 DEF Recorded, OtherTool, Outcomes, Checked, Ran
  <2>2. QED
    BY <1>1, <2>1 DEF Holding, Checked, Holds
<1>4. QED
  BY <1>2, <1>3

\* A run ends waiting if it remembers its order, and succeeds only if there is none, or if
\* it was lost.
LEMMA ConcludeHolds ==
  ASSUME IInv, Holding, Conclude
  PROVE  Holding'
<1>1. /\ pc = "executing" /\ pc' = "done" /\ tools \in {"all", "failed"}
      /\ run' = [status |-> End(event), event |-> event]
      /\ UNCHANGED <<event, tools, hold>>
  BY DEF Conclude
<1>2. run'.status = End(event) /\ run'.event = event
  BY <1>1
<1>3. End(event) = "waiting_approval" => event.approval = "pending"
  BY DEF End
<1>4. End(event) = "succeeded" => tools = "all" /\ event.approval # "pending"
  BY <1>1 DEF End
<1>5. hold \in {"none", "made", "orphaned"}
  BY TypeParts DEF IInv, ToolsOK
<1>6. run.event.decision = event.decision
  BY <1>1 DEF Holding
<1>7. QED
  BY <1>1, <1>2, <1>3, <1>4, <1>5, <1>6, EndStatus DEF Holding, Checked

LEMMA CrashHolds ==
  ASSUME IInv, Holding, Crash
  PROVE  Holding'
<1>1. /\ pc \notin {"dead", "done"} /\ pc' = "dead" /\ UNCHANGED <<run, tools>>
      /\ hold' = IF hold = "made" THEN "orphaned" ELSE hold
  BY DEF Crash
<1>2. QED
  BY <1>1 DEF Holding, Checked

LEMMA RecoverHolds ==
  ASSUME IInv, Holding, Recover
  PROVE  Holding'
<1>1. /\ pc = "dead" /\ event = run.event /\ UNCHANGED <<tools, hold>>
      /\ run \in RunType /\ hold \in {"none", "made", "orphaned"}
  BY TypeParts DEF IInv, Phases, Recover, ToolsOK
<1>2. CASE Audit
  <2>1. run.status = "executing" /\ event' = event
    BY <1>2 DEF Audit
  <2>2. CASE run' = [run EXCEPT !.status = "manual_takeover"] /\ pc' = "done"
    <3>1. run'.status = "manual_takeover" /\ run'.event = run.event
      BY <1>1, <2>2 DEF RunType
    <3>2. QED
      BY <1>1, <2>2, <3>1 DEF Holding, Checked
  <2>3. CASE tools = "all" /\ run' = [run EXCEPT !.status = End(event)] /\ pc' = "done"
    <3>1. run'.status = End(event) /\ run'.event = run.event
      BY <1>1, <2>3 DEF RunType
    <3>2. End(event) = "waiting_approval" => event.approval = "pending"
      BY DEF End
    <3>3. QED
      BY <1>1, <2>3, <3>1, <3>2, EndStatus DEF Holding, Checked
  <2>4. CASE pc' = "executing" /\ run' = run
    BY <1>1, <2>1, <2>4 DEF Holding, Checked
  <2>5. QED
    BY <1>2, <2>2, <2>3, <2>4 DEF Audit
<1>3. CASE Restart
  <2>1. /\ run.status # "executing" /\ pc' = "start"
        /\ run' = [status |-> "analyzing", event |-> event']
    BY <1>3 DEF Restart
  <2>2. run'.status = "analyzing" /\ tools' = "none"
    BY <1>1, <2>1 DEF Holding
  <2>3. QED
    BY <1>1, <2>1, <2>2 DEF Holding, Checked
<1>4. QED
  BY <1>2, <1>3 DEF Recover

LEMMA HoldingKeeps == IInv /\ Holding /\ [Next]_vars => Holding'
<1> SUFFICES ASSUME IInv, Holding, [Next]_vars PROVE Holding'
  OBVIOUS
<1>1. CASE UNCHANGED vars
  BY <1>1 DEF vars, toolVars, Holding, Checked, Holds
<1>2. QED
  BY <1>1, AnalysisHolds, ToolsHold, ConcludeHolds, CrashHolds, RecoverHolds
  DEF Next, Tools, toolVars

LEMMA HoldingInvariant == Spec => []Holding
<1>1. Init => Holding
  BY DEF Init, Holding, Checked
<1>2. QED
  BY <1>1, HoldingKeeps, Invariant, PTL DEF Spec

-----------------------------------------------------------------------------
(* The theorems.                                                           *)

\* The row, the event and the copy have their types, in particular every evidence relation
\* is a registered one and every context holds items of the three kinds, whatever the
\* answers, the budget and the number of deaths (assess_evidence, ContextBuilder.build).
THEOREM TypeCorrect == Spec => []TypeOK
<1>1. IInv => TypeOK
  BY DEF IInv
<1>2. QED
  BY <1>1, Invariant, PTL

\* One attempt stays within the budget of docs/agent-runtime.md: three requests, two
\* rounds, one action, one repair that an earlier attempt may have used up.
THEOREM BudgetsKept == Spec => []BudgetsHold
<1>1. IInv => BudgetsHold
  <2> SUFFICES ASSUME IInv PROVE BudgetsHold
    OBVIOUS
  <2>1. spent.requests \in Nat /\ spent.repairs \in Nat /\ spent.before \in Nat
    BY SpentNumbers DEF IInv
  <2>2. spent.before + spent.repairs <= 1 /\ spent.requests <= 2 + spent.repairs
    BY Bounds DEF IInv, Budget, Within
  <2>3. spent.requests <= MaxRequests /\ spent.repairs + spent.before <= MaxRepairs
    BY <2>1, <2>2, Bounds DEF MaxRequests
  <2>4. Short(run.event.replan) /\ Short(event.replan) /\ Short(copy.replan)
    BY DEF IInv, Replanned
  <2>5. QED
    BY <2>3, <2>4 DEF BudgetsHold, Short
<1>2. QED
  BY <1>1, Invariant, PTL

\* The decided level is not below what perception reported, and a repeated incident is
\* decided as an A, whichever round, repair or attempt the adopted answer came from (plan,
\* _apply_memory_escalation, _copy_analysis_result).
THEOREM RulesAreTheFloor == Spec => []NeverBelowTheRules
<1>1. IInv => NeverBelowTheRules
  <2> SUFFICES ASSUME IInv, event.decision.level \in Level
               PROVE  /\ Weight[event.decision.level] >= Weight[event.base]
                      /\ (/\ pc \in {"decided", "executing", "done"}
                          /\ event.base = "B"
                          /\ event.context.facts >= Threshold)
                           => event.decision.level = "A"
    BY DEF NeverBelowTheRules
  <2>1. Sound(event)
    BY DEF IInv
  <2>2. Weight[event.decision.level] >= Weight[event.base]
    BY <2>1 DEF Sound
  <2>3. ASSUME pc \in {"decided", "executing", "done"}, event.base = "B",
               event.context.facts >= Threshold
        PROVE  event.decision.level = "A"
    <3>1. event.level = "A"
      BY <2>1, <2>3 DEF Sound
    <3>2. Weight[event.decision.level] >= Weight["A"]
      BY <2>3, <3>1 DEF IInv, Phases, Decided
    <3>3. QED
      BY <3>2, Weights
  <2>4. QED
    BY <2>2, <2>3
<1>2. QED
  BY <1>1, Invariant, PTL

\* What succeeds without an operator has no A decision, no conflict, no answer in doubt and
\* no second round that took a level back (_require_evidence_review, _check_and_hold),
\* unless its worker was lost between the check that made the order and the last transition.
THEOREM DoubtIsHeld == Spec => []UncertainIsHeld
<1>1. IInv /\ Holding => UncertainIsHeld
  <2> DEFINE e == run.event
  <2> SUFFICES ASSUME IInv, Holding, run.status = "succeeded", hold # "orphaned"
               PROVE  /\ e.decision.level # "A"
                      /\ e.rec.relation # "conflict"
                      /\ e.valid => /\ e.rec.relation # "insufficient"
                                    /\ e.rec.step = "decide"
                      /\ Len(e.replan.rounds) = 2 =>
                           Weight[e.replan.rounds[2].level] >= Weight[e.replan.rounds[1].level]
    BY DEF UncertainIsHeld
  <2> HIDE DEF e
  <2>1. ~Holds(e.decision) /\ Decided(e) /\ Sound(e) /\ Replanned(e)
    BY DEF IInv, Phases, Holding, e
  <2>2. e.decision.level # "A" /\ ~e.rec.review
    BY <2>1 DEF Holds, Decided
  <2>3. e.rec.relation # "conflict"
    BY <2>1, <2>2 DEF Sound
  <2>4. e.valid => e.rec.relation # "insufficient" /\ e.rec.step = "decide"
    BY <2>1, <2>2 DEF Decided, Settled
  <2>5. Len(e.replan.rounds) = 2 =>
          Weight[e.replan.rounds[2].level] >= Weight[e.replan.rounds[1].level]
    BY <2>1, <2>2 DEF Replanned, Compared
  <2>6. QED
    BY <2>2, <2>3, <2>4, <2>5
<1>2. QED
  BY <1>1, Invariant, HoldingInvariant, PTL

\* Both rounds are told the same, for any budget, sizes and ranking (ContextBuilder.build
\* leaves the round's own metadata out of what it admits).
THEOREM RoundsAreAlike == Spec => []RoundsCompareAlike
<1>1. IInv => RoundsCompareAlike
  BY DEF IInv, Replanned, Compared, RoundsCompareAlike
<1>2. QED
  BY <1>1, Invariant, PTL

\* A finished run with a built context satisfies the trace validator's contracts; where its
\* worker was lost between the check that made the order and the last transition it may
\* have succeeded unreviewed, and satisfies the others.
THEOREM TraceHolds == Spec => []TraceIsValid
<1>1. IInv /\ Holding => TraceIsValid
  <2> DEFINE e == run.event
  <2> SUFFICES ASSUME IInv, Holding, pc = "done", e.context.status = "built",
                      e.sop \in {"retrieved", "no_evidence"}
               PROVE  TraceErrors(run.status, e) \subseteq
                        IF hold = "orphaned" THEN {"unresolved_evidence_run_succeeded"} ELSE {}
    BY DEF TraceIsValid
  <2>1. /\ Decided(e) /\ Sound(e) /\ Replanned(e)
        /\ run.status = "waiting_approval" => e.approval = "pending"
        /\ run.status = "succeeded" /\ hold # "orphaned" => ~Holds(e.decision)
        /\ e \in Event
    <3>1. run.status # "analyzing" /\ run \in RunType
      BY TypeParts DEF IInv, Holding
    <3>2. QED
      BY <3>1 DEF IInv, Phases, Holding, RunType
  <2> HIDE DEF e
  <2>2. RepairContract(e) = {}
    <3>1. e.repair.count \in {0, 1}
      BY <2>1, FieldTypes
    <3>2. QED
      BY <2>1, <3>1 DEF RepairContract, Sound, Decided
  <2>3. ContextContract(e) = {}
    BY DEF ContextContract
  <2>4. /\ e.replan.review => e.decision.review
        /\ e.replan.review /\ run.status = "succeeded" => hold = "orphaned"
    BY <2>1 DEF Replanned, Decided, Holds
  <2>5. ReplanContract(e, run.status)
          \subseteq IF hold = "orphaned" THEN {"unresolved_evidence_run_succeeded"} ELSE {}
    <3>1. /\ Len(e.replan.rounds) <= MaxRounds /\ Len(e.replan.actions) <= MaxActions
          /\ Len(e.replan.rounds) = 2 =>
               /\ e.replan.rounds[2].context = e.context
               /\ e.replan.actions = <<"succeeded">>
          /\ e.replan.status = "resolved" => Len(e.replan.rounds) = 2
          /\ e.replan.status = "manual_review" => e.replan.review
      BY <2>1 DEF Replanned, Short, Compared
    <3>2. /\ Len(e.replan.rounds) \in Nat /\ Len(e.replan.actions) \in Nat
      BY <2>1, FieldTypes
    <3>3. ~ (Len(e.replan.rounds) > MaxRounds) /\ ~ (Len(e.replan.actions) > MaxActions)
      BY <3>1, <3>2, Bounds
    <3>4. QED
      BY <2>4, <3>1, <3>3 DEF ReplanContract
  <2>6. CitationContract(e) = {}
    <3>1. e.decision.grounded \subseteq Cited(e.context) \cap Retrieved(e.sop)
      BY <2>1 DEF Decided, Grounded
    <3>2. e.rec.cites \subseteq Cited(e.context) \cap Retrieved(e.sop)
      BY <2>1 DEF Sound
    <3>3. QED
      BY <3>1, <3>2 DEF CitationContract
  <2>7. ApprovalContract(e, run.status) = {}
    <3>1. e.rec.relation = "conflict" => e.decision.review
      BY <2>1 DEF Sound, Decided
    <3>2. run.status = "waiting_approval" => e.approval = "pending"
      BY <2>1
    <3>3. QED
      BY <3>1, <3>2 DEF ApprovalContract
  <2>8. QED
    BY <2>2, <2>3, <2>5, <2>6, <2>7 DEF TraceErrors
<1>2. QED
  BY <1>1, Invariant, HoldingInvariant, PTL
=============================================================================
