----------------------------- MODULE AgentProofs -----------------------------
(***************************************************************************)
(* Theorems about AgentEngine, for any limits, requests, faults and reads. *)
(***************************************************************************)
EXTENDS AgentEngine, WellFoundedInduction, TLAPS

-----------------------------------------------------------------------------
(* Merging: the last request that names a field decides it.                *)

LEMMA LargestExists ==
  ASSUME NEW n \in Nat, NEW S \in SUBSET (1..n), S # {}
  PROVE  \E i \in S : \A j \in S : j <= i
<1> DEFINE T == {n - i : i \in S}
<1>1. T \subseteq Nat /\ T # {}
  <2>1. PICK i : i \in S
    OBVIOUS
  <2>2. n - i \in T
    BY <2>1
  <2>3. T \subseteq Nat
    OBVIOUS
  <2> QED BY <2>2, <2>3
<1>2. \E x \in T : \A y \in T : ~ (<<y, x>> \in OpToRel(<, Nat))
  <2> HIDE DEF T
  <2> QED BY <1>1, NatLessThanWellFounded, WFMin, Zenon
<1>3. PICK x \in T : \A y \in T : ~ (y < x)
  <2> HIDE DEF T
  <2> QED BY <1>1, <1>2 DEF OpToRel
<1>4. PICK i \in S : x = n - i
  OBVIOUS
<1>5. ASSUME NEW j \in S PROVE j <= i
  <2>1. n - j \in T
    OBVIOUS
  <2>2. ~ (n - j < n - i)
    BY <1>3, <1>4, <2>1
  <2>3. i \in Nat /\ j \in Nat
    OBVIOUS
  <2> QED BY <2>2, <2>3
<1> QED BY <1>5

LEMMA LatestIs ==
  ASSUME NEW rs \in Seq(Requests), NEW f, Naming(rs, f) # {}
  PROVE  /\ Latest(rs, f) \in Naming(rs, f)
         /\ \A j \in Naming(rs, f) : j <= Latest(rs, f)
<1>1. Naming(rs, f) \in SUBSET (1..Len(rs)) /\ Len(rs) \in Nat
  BY DEF Naming
<1>2. \E i \in Naming(rs, f) : \A j \in Naming(rs, f) : j <= i
  BY <1>1, LargestExists
<1> QED BY <1>2 DEF Latest

\* Where a field gets its value from, without the CHOOSE.
LEMMA MergedValue ==
  ASSUME NEW b, NEW rs \in Seq(Requests), NEW f \in Fields
  PROVE  \/ /\ \A i \in 1..Len(rs) : f \notin DOMAIN rs[i]
            /\ Merged(b, rs)[f] = b[f]
         \/ \E i \in 1..Len(rs) :
              /\ f \in DOMAIN rs[i]
              /\ \A j \in 1..Len(rs) : f \in DOMAIN rs[j] => j <= i
              /\ Merged(b, rs)[f] = rs[i][f]
<1>1. CASE Naming(rs, f) = {}
  BY <1>1 DEF Naming, Merged
<1>2. CASE Naming(rs, f) # {}
  BY <1>2, LatestIs DEF Naming, Merged
<1> QED BY <1>1, <1>2

LEMMA MergedNamed ==
  ASSUME NEW b, NEW rs \in Seq(Requests), NEW f \in Fields,
         \E i \in 1..Len(rs) : f \in DOMAIN rs[i]
  PROVE  \E i \in 1..Len(rs) :
            /\ f \in DOMAIN rs[i]
            /\ \A j \in 1..Len(rs) : f \in DOMAIN rs[j] => j <= i
            /\ Merged(b, rs)[f] = rs[i][f]
BY MergedValue

\* Merging the rest into what the first ones have made of the budget is
\* merging all of them.
LEMMA MergeInPortions ==
  ASSUME NEW b, NEW rs \in Seq(Requests), NEW k \in 0..Len(rs)
  PROVE  Merged(Merged(b, SubSeq(rs, 1, k)), SubSeq(rs, k + 1, Len(rs))) = Merged(b, rs)
<1> DEFINE head == SubSeq(rs, 1, k)
           tail == SubSeq(rs, k + 1, Len(rs))
<1>1. /\ head \in Seq(Requests) /\ Len(head) = k
      /\ tail \in Seq(Requests) /\ Len(tail) = Len(rs) - k
      /\ \A i \in 1..k : head[i] = rs[i]
      /\ \A i \in 1..(Len(rs) - k) : tail[i] = rs[k + i]
  OBVIOUS
<1> HIDE DEF head, tail
<1>2. ASSUME NEW f \in Fields
      PROVE  Merged(Merged(b, head), tail)[f] = Merged(b, rs)[f]
  <2>1. CASE \A i \in 1..Len(tail) : f \notin DOMAIN tail[i]
    <3>1. Merged(Merged(b, head), tail)[f] = Merged(b, head)[f]
      BY <1>1, <2>1, MergedValue
    <3>2. ASSUME NEW j \in 1..Len(rs), f \in DOMAIN rs[j]
          PROVE  j \in 1..k /\ head[j] = rs[j]
      <4>1. CASE j <= k
        BY <1>1, <4>1
      <4>2. CASE k < j
        <5>1. j - k \in 1..Len(tail) /\ tail[j - k] = rs[j]
          BY <1>1, <4>2
        <5> QED BY <2>1, <3>2, <5>1
      <4> QED BY <4>1, <4>2
    <3>3. CASE \A i \in 1..Len(head) : f \notin DOMAIN head[i]
      <4>1. Merged(b, head)[f] = b[f]
        BY <1>1, <3>3, MergedValue
      <4>2. \A j \in 1..Len(rs) : f \notin DOMAIN rs[j]
        BY <1>1, <3>2, <3>3
      <4>3. Merged(b, rs)[f] = b[f]
        BY <4>2, MergedValue
      <4> QED BY <3>1, <4>1, <4>3
    <3>4. CASE \E i \in 1..Len(head) : f \in DOMAIN head[i]
      <4>1. PICK i \in 1..Len(head) :
              /\ f \in DOMAIN head[i]
              /\ \A j \in 1..Len(head) : f \in DOMAIN head[j] => j <= i
              /\ Merged(b, head)[f] = head[i][f]
        <5>1. head \in Seq(Requests)
          BY <1>1
        <5> QED BY <3>4, <5>1, MergedNamed
      <4>2. i \in 1..Len(rs) /\ f \in DOMAIN rs[i] /\ head[i] = rs[i]
        BY <1>1, <4>1
      <4>3. PICK m \in 1..Len(rs) :
              /\ f \in DOMAIN rs[m]
              /\ \A j \in 1..Len(rs) : f \in DOMAIN rs[j] => j <= m
              /\ Merged(b, rs)[f] = rs[m][f]
        BY <4>2, MergedValue
      <4>4. m \in 1..Len(head) /\ f \in DOMAIN head[m]
        BY <1>1, <3>2, <4>3
      <4>5. m = i
        BY <4>1, <4>2, <4>3, <4>4
      <4> QED BY <3>1, <4>1, <4>2, <4>3, <4>5
    <3> QED BY <3>3, <3>4
  <2>2. CASE \E i \in 1..Len(tail) : f \in DOMAIN tail[i]
    <3>1. PICK i \in 1..Len(tail) :
            /\ f \in DOMAIN tail[i]
            /\ \A j \in 1..Len(tail) : f \in DOMAIN tail[j] => j <= i
            /\ Merged(Merged(b, head), tail)[f] = tail[i][f]
      <4>1. tail \in Seq(Requests)
        BY <1>1
      <4> QED BY <2>2, <4>1, MergedNamed
    <3>2. k + i \in 1..Len(rs) /\ tail[i] = rs[k + i]
      BY <1>1, <3>1
    <3>3. PICK m \in 1..Len(rs) :
            /\ f \in DOMAIN rs[m]
            /\ \A j \in 1..Len(rs) : f \in DOMAIN rs[j] => j <= m
            /\ Merged(b, rs)[f] = rs[m][f]
      BY <3>1, <3>2, MergedValue
    <3>4. k + i <= m
      BY <3>1, <3>2, <3>3
    <3>5. m - k \in 1..Len(tail) /\ tail[m - k] = rs[m]
      BY <1>1, <3>1, <3>4
    <3>6. m - k <= i
      BY <3>1, <3>3, <3>5
    <3>7. m = k + i
      BY <3>1, <3>4, <3>6
    <3> QED BY <3>1, <3>2, <3>3, <3>7
  <2> QED BY <2>1, <2>2
<1>3. Merged(Merged(b, head), tail) = Merged(b, rs)
  BY <1>2 DEF Merged
<1> QED BY <1>3 DEF head, tail

LEMMA MergedType ==
  ASSUME NEW b \in Budgets, NEW rs \in Seq(Requests)
  PROVE  Merged(b, rs) \in Budgets
<1>1. ASSUME NEW f \in Fields PROVE Merged(b, rs)[f] \in Nat
  BY MergedValue, BudgetAssumption DEF Budgets
<1> QED BY <1>1 DEF Merged, Budgets

LEMMA MergedNothing ==
  ASSUME NEW b \in Budgets
  PROVE  Merged(b, <<>>) = b
BY DEF Merged, Naming, Budgets

\* One more request is merged into what the others have made of the budget.
LEMMA MergedOneMore ==
  ASSUME NEW b \in Budgets, NEW rs \in Seq(Requests), NEW r \in Requests
  PROVE  Merged(b, Append(rs, r)) = With(Merged(b, rs), r)
<1> DEFINE more == Append(rs, r)
<1>1. /\ more \in Seq(Requests) /\ Len(more) = Len(rs) + 1
      /\ \A i \in 1..Len(rs) : more[i] = rs[i]
      /\ more[Len(rs) + 1] = r
  OBVIOUS
<1> HIDE DEF more
<1>2. ASSUME NEW f \in Fields
      PROVE  Merged(b, more)[f] = IF f \in DOMAIN r THEN r[f] ELSE Merged(b, rs)[f]
  <2>1. CASE f \in DOMAIN r
    <3>1. PICK m \in 1..Len(more) :
            /\ \A j \in 1..Len(more) : f \in DOMAIN more[j] => j <= m
            /\ Merged(b, more)[f] = more[m][f]
      BY <1>1, <2>1, MergedValue
    <3>2. m = Len(rs) + 1
      BY <1>1, <2>1, <3>1
    <3> QED BY <1>1, <2>1, <3>1, <3>2
  <2>2. CASE f \notin DOMAIN r
    <3>1. ASSUME NEW j \in 1..Len(more), f \in DOMAIN more[j]
          PROVE  j \in 1..Len(rs) /\ f \in DOMAIN rs[j] /\ more[j] = rs[j]
      BY <1>1, <2>2, <3>1
    <3>2. CASE \A i \in 1..Len(rs) : f \notin DOMAIN rs[i]
      <4>1. Merged(b, more)[f] = b[f]
        BY <1>1, <3>1, <3>2, MergedValue
      <4>2. Merged(b, rs)[f] = b[f]
        BY <3>2, MergedValue
      <4> QED BY <2>2, <4>1, <4>2
    <3>3. CASE \E i \in 1..Len(rs) : f \in DOMAIN rs[i]
      <4>1. PICK i \in 1..Len(rs) :
              /\ f \in DOMAIN rs[i]
              /\ \A j \in 1..Len(rs) : f \in DOMAIN rs[j] => j <= i
              /\ Merged(b, rs)[f] = rs[i][f]
        BY <3>3, MergedValue
      <4>2. i \in 1..Len(more) /\ f \in DOMAIN more[i] /\ more[i] = rs[i]
        BY <1>1, <4>1
      <4>3. PICK m \in 1..Len(more) :
              /\ f \in DOMAIN more[m]
              /\ \A j \in 1..Len(more) : f \in DOMAIN more[j] => j <= m
              /\ Merged(b, more)[f] = more[m][f]
        BY <1>1, <4>2, MergedValue
      <4>4. m = i
        BY <1>1, <3>1, <4>1, <4>2, <4>3
      <4> QED BY <2>2, <4>1, <4>2, <4>3, <4>4
    <3> QED BY <3>2, <3>3
  <2> QED BY <2>1, <2>2
<1>3. Merged(b, more) = With(Merged(b, rs), r)
  BY <1>2 DEF Merged, With
<1> QED BY <1>3 DEF more
-----------------------------------------------------------------------------
(* The invariant.  The engine merges and validates the overrides in other  *)
(* portions than the API: both arrive at the merge of all committed ones,  *)
(* which the API has found valid.                                          *)

CommittedIsValid == Valid(Merged(DefaultBudget, overrides))

\* What waits for a flush is read-only; a response is malformed so often at most.
GatheredAreReads ==
    /\ pc # "act" => \A i \in (answered + 1)..counted : asked[i] \in Reads
    /\ pc \in {"flush_call", "count"} => counted < Len(asked)
    /\ pc # "done" => malformed < MaxMalformed

\* A batch ends with all calls answered unless the run ends with it.
CutShort ==
    /\ ConversationAnswered
    /\ pc = "top" => answered = Len(asked) \/ Reached(used, "tool_calls")
    /\ pc = "flush_end" => counted = Len(asked) \/ Reached(used, "tool_calls") \/ stop

\* After the one late step there is no way to another.
LateAtMostOnce ==
    \/ late = 0
    \/ late = 1 /\ cancelled /\ pc \notin {"turn", "flush_call", "count"}

AgentInv ==
    /\ TypeOK
    /\ GatheredAreReads
    /\ CutShort
    /\ LateAtMostOnce
    /\ AcceptedBudgetsTakeForce /\ CommittedIsValid
    /\ ReportedMetIsMet

LEMMA InitAgent == Init => AgentInv
<1> SUFFICES ASSUME Init PROVE AgentInv
  OBVIOUS
<1>1. Merged(DefaultBudget, <<>>) = DefaultBudget
  BY MergedNothing, BudgetAssumption
<1>2. TypeOK
  <2>1. budget \in Budgets /\ overrides \in Seq(Requests) /\ applied \in 0..Len(overrides)
    BY BudgetAssumption DEF Init
  <2>2. cursor \in 1..Len(Script)
    BY CallsAssumption DEF Init
  <2>3. /\ asked \in Seq(Calls) /\ Len(asked) <= MaxBatch
        /\ counted \in 0..Len(asked) /\ answered \in 0..counted
    BY LimitsAssumption DEF Init
  <2>4. /\ results \in [1..MaxBatch -> Outputs \cup {"none"}]
        /\ cache \in [Reads -> Outputs \cup {"none"}] /\ shown \subseteq Reads
        /\ used \in [Dims -> Nat]
    BY DEF Init, NoResults
  <2>5. /\ attempts \in 0..MaxRetries /\ recoveries \in 0..MaxRecoveries
        /\ malformed \in 0..MaxMalformed /\ rejections \in 0..MaxRejections
        /\ late \in Nat
    BY LimitsAssumption DEF Init
  <2> QED BY <2>1, <2>2, <2>3, <2>4, <2>5 DEF Init, TypeOK
<1>3. AcceptedBudgetsTakeForce /\ CommittedIsValid
  <2>1. overrides = <<>> /\ SubSeq(overrides, 1, applied) = <<>> /\ budget = DefaultBudget
    BY DEF Init
  <2> QED BY <1>1, <2>1, BudgetAssumption DEF AcceptedBudgetsTakeForce, CommittedIsValid
<1>4. GatheredAreReads /\ CutShort /\ LateAtMostOnce /\ ReportedMetIsMet
  BY LimitsAssumption DEF Init, GatheredAreReads, CutShort, ConversationAnswered, LateAtMostOnce,
     ReportedMetIsMet
<1> QED BY <1>2, <1>3, <1>4 DEF AgentInv

LEMMA SpentType ==
  ASSUME NEW u \in [Dims -> Nat], NEW d \in Dims, NEW n \in Nat
  PROVE  Spent(u, d, n) \in [Dims -> Nat]
BY LimitsAssumption DEF Spent

LEMMA CostType ==
  ASSUME NEW u, used \in [Dims -> Nat], Cost(u)
  PROVE  u \in [Dims -> Nat] /\ u["tool_calls"] = used["tool_calls"]
<1>1. PICK t \in 0..1, s \in 0..1 :
        u = Spent(Spent(used, "total_tokens", t), "active_time", s)
  BY DEF Cost
<1>2. u \in [Dims -> Nat]
  <2> DEFINE v == Spent(used, "total_tokens", t)
  <2>0. "total_tokens" \in Dims /\ "active_time" \in Dims /\ t \in Nat /\ s \in Nat
    BY <1>1 DEF Dims
  <2>1. v \in [Dims -> Nat]
    BY <2>0, SpentType
  <2> HIDE DEF v
  <2>2. Spent(v, "active_time", s) \in [Dims -> Nat]
    BY <2>0, <2>1, SpentType
  <2> QED BY <1>1, <2>2 DEF v
<1>3. u["tool_calls"] = used["tool_calls"]
  BY <1>1 DEF Spent, Dims
<1> QED BY <1>2, <1>3

LEMMA FinishEnds ==
  ASSUME NEW o, NEW r, NEW u, Finish(o, r, u)
  PROVE  pc' = "done"
BY DEF Finish

\* How run() ends, and the boolean it reports.
LEMMA FinishFacts ==
  ASSUME TypeOK, NEW o, NEW r \in SUBSET Dims, NEW u, Finish(o, r, u)
  PROVE  /\ pc' = "done" /\ outcome' = o /\ reasons' \in SUBSET Dims
         /\ gaps' \in BOOLEAN /\ warned' \in SUBSET Dims
         /\ ~gaps' => met
<1>1. gaps' \in BOOLEAN /\ (~gaps' => met)
  BY Zenon DEF Finish, TypeOK
<1>2. warned' \in SUBSET Dims
  BY DEF Finish, Crossed, TypeOK
<1> QED BY <1>1, <1>2 DEF Finish

-----------------------------------------------------------------------------
(* Steps.                                                                  *)

USE DEF limits, users, batch, memory, retries, tally, end

LEMMA TypeStep == AgentInv /\ [Next]_vars => TypeOK'
<1> SUFFICES ASSUME AgentInv, [Next]_vars PROVE TypeOK'
  OBVIOUS
<1> USE DEF AgentInv, TypeOK
<1>1. CASE Cancel
  BY <1>1 DEF vars, Cancel
<1>2. CASE Top
  BY <1>2 DEF vars, Top
<1>3. CASE OutOfBudget
  <2>1. PICK spent \in SUBSET Dims : Finish("budget", spent, used)
    BY <1>3 DEF OutOfBudget, Dims
  <2>2. /\ pc' = "done" /\ outcome' = "budget"
        /\ reasons' \in SUBSET Dims /\ gaps' \in BOOLEAN /\ warned' \in SUBSET Dims
    BY <2>1, FinishFacts
  <2> QED BY <1>3, <2>2 DEF vars, OutOfBudget
<1>4. CASE Boundary
  <2>1. CASE cancelled
    <3>1. Finish("cancelled", {}, used)
      BY <1>4, <2>1 DEF Boundary
    <3>2. /\ pc' = "done" /\ outcome' = "cancelled"
          /\ reasons' \in SUBSET Dims /\ gaps' \in BOOLEAN /\ warned' \in SUBSET Dims
      BY <3>1, FinishFacts
    <3> QED BY <1>4, <2>1, <3>2 DEF vars, Boundary
  <2>2. CASE ~ (cancelled)
    BY <1>4, <2>2 DEF vars, Boundary
  <2> QED BY <2>1, <2>2
<1>5. CASE BeginTurn
  <2>1. budget' \in Budgets /\ applied' \in 0..Len(overrides)
    <3>1. SubSeq(overrides, applied + 1, Len(overrides)) \in Seq(Requests)
      OBVIOUS
    <3>2. Merged(budget, SubSeq(overrides, applied + 1, Len(overrides))) \in Budgets
      BY <3>1, MergedType
    <3> QED BY <1>5, <3>2 DEF BeginTurn, Apply
  <2>2. nudged' \in BOOLEAN
    BY <1>5, Zenon DEF BeginTurn
  <2>3. warned' \in SUBSET Dims /\ shown' \in SUBSET Reads /\ late' \in Nat /\ pc' = "request"
    BY <1>5 DEF BeginTurn, Crossed
  <2> QED BY <1>5, <2>1, <2>2, <2>3 DEF vars, BeginTurn
<1>6. CASE Request
  <2>1. used' \in [Dims -> Nat]
    <3>1. "provider_requests" \in Dims
      BY DEF Dims
    <3> QED BY <1>6, <3>1, SpentType DEF Request
  <2> QED BY <1>6, <2>1 DEF vars, Request
<1>7. CASE OutOfRequests
  <2>1. Finish("budget", {"provider_requests"}, used)
    BY <1>7 DEF OutOfRequests
  <2>2. /\ pc' = "done" /\ outcome' \in {"cancelled", "budget"}
        /\ reasons' \in SUBSET Dims /\ gaps' \in BOOLEAN /\ warned' \in SUBSET Dims
    BY <2>1, FinishFacts DEF Dims
  <2> QED BY <1>7, <2>2 DEF vars, OutOfRequests
<1>8. CASE Retry
  BY <1>8, LimitsAssumption, SMTT(30) DEF vars, Retry
<1>9. CASE Recover
  BY <1>9, LimitsAssumption, SMTT(30) DEF vars, Recover
<1>10. CASE ProviderFails
  BY <1>10 DEF vars, ProviderFails, Abort
<1>11. CASE OutOfTokens
  <2>1. used' \in [Dims -> Nat] /\ Finish("budget", {"total_tokens"}, used')
    BY <1>11, CostType DEF OutOfTokens
  <2>2. /\ pc' = "done" /\ outcome' = "budget"
        /\ reasons' \in SUBSET Dims /\ gaps' \in BOOLEAN /\ warned' \in SUBSET Dims
    BY <2>1, FinishFacts DEF Dims
  <2> QED BY <1>11, <2>1, <2>2 DEF vars, OutOfTokens
<1>12. CASE Malformed
  <2>1. /\ used' \in [Dims -> Nat] /\ malformed' \in 0..MaxMalformed
        /\ asked' \in Seq(Calls) /\ Len(asked') <= MaxBatch
        /\ counted' \in 0..Len(asked') /\ answered' \in 0..counted'
        /\ results' \in [1..MaxBatch -> Outputs \cup {"none"}]
        /\ attempts' \in 0..MaxRetries /\ recoveries' \in 0..MaxRecoveries
    BY <1>12, CostType, LimitsAssumption, SMTT(30) DEF Malformed, GatheredAreReads, NoResults
  <2>2. CASE malformed' >= MaxMalformed
    <3>1. Finish("malformed", {}, used')
      BY <1>12, <2>2 DEF Malformed
    <3>2. /\ pc' = "done" /\ outcome' = "malformed"
          /\ reasons' \in SUBSET Dims /\ gaps' \in BOOLEAN /\ warned' \in SUBSET Dims
      BY <3>1, FinishFacts
    <3> QED BY <1>12, <2>1, <3>2 DEF vars, Malformed
  <2>3. CASE ~ (malformed' >= MaxMalformed)
    BY <1>12, <2>1, <2>3 DEF vars, Malformed
  <2> QED BY <2>2, <2>3
<1>13. ASSUME NEW calls \in Responses, Receive(calls) PROVE TypeOK'
  <2>1. calls \in Seq(Calls) /\ Len(calls) <= MaxBatch
    <3>1. PICK n \in 0..MaxBatch : calls \in [1..n -> Calls]
      BY DEF Responses
    <3> QED BY <3>1, LimitsAssumption, SMTT(30)
  <2>2. /\ used' \in [Dims -> Nat]
        /\ counted' \in 0..Len(asked') /\ answered' \in 0..counted'
        /\ results' \in [1..MaxBatch -> Outputs \cup {"none"}]
        /\ attempts' \in 0..MaxRetries /\ recoveries' \in 0..MaxRecoveries
    BY <1>13, <2>1, CostType, LimitsAssumption, SMTT(30) DEF Receive, NoResults
  <2> QED BY <1>13, <2>1, <2>2 DEF vars, Receive
<1>14. CASE AnswerCancelled
  <2>1. Finish("cancelled", {}, used)
    BY <1>14 DEF AnswerCancelled
  <2>2. /\ pc' = "done" /\ outcome' \in {"cancelled", "budget"}
        /\ reasons' \in SUBSET Dims /\ gaps' \in BOOLEAN /\ warned' \in SUBSET Dims
    BY <2>1, FinishFacts DEF Dims
  <2> QED BY <1>14, <2>2 DEF vars, AnswerCancelled
<1>15. CASE AnswerWithCalls
  BY <1>15 DEF vars, AnswerWithCalls
<1>16. CASE Reject
  BY <1>16, LimitsAssumption DEF vars, Reject
<1>17. CASE Final
  <2>1. gaps' \in BOOLEAN
    BY <1>17, Zenon DEF Final
  <2>2. warned' \in SUBSET Dims
    BY <1>17 DEF Final, Crossed
  <2>3. pc' = "done" /\ outcome' = "final" /\ reasons' \in SUBSET Dims
    BY <1>17 DEF Final
  <2> QED BY <1>17, <2>1, <2>2, <2>3 DEF vars, Final
<1>18. CASE NextCall
  BY <1>18 DEF vars, NextCall
<1>19. CASE Count
  <2>1. used' \in [Dims -> Nat]
    <3>1. "tool_calls" \in Dims
      BY DEF Dims
    <3> QED BY <1>19, <3>1, SpentType DEF Count
  <2>2. counted' \in 0..Len(asked) /\ answered \in 0..counted' /\ late' \in Nat
    BY <1>19 DEF Count, GatheredAreReads
  <2> QED BY <1>19, <2>1, <2>2 DEF vars, Count
<1>20. CASE Act
  BY <1>20 DEF vars, Act
<1>21. ASSUME NEW i \in 1..MaxBatch, RunRead(i) PROVE TypeOK'
  <2>1. cursor' \in 1..Len(Script) /\ Script[cursor] \in Outputs
    BY <1>21, CallsAssumption DEF RunRead, Outputs
  <2> QED BY <1>21, <2>1 DEF vars, RunRead
<1>22. CASE ProcessRead
  <2>1. answered + 1 \in 1..counted /\ answered + 1 \in 1..MaxBatch
    BY <1>22, LimitsAssumption, SMTT(30) DEF ProcessRead
  <2>2. asked[answered + 1] \in Reads
    BY <1>22, <2>1 DEF ProcessRead, Flushing, GatheredAreReads
  <2>3. results[answered + 1] \in Outputs
    BY <1>22, <2>1 DEF ProcessRead
  <2>4. cache' \in [Reads -> Outputs \cup {"none"}]
    BY <1>22, <2>2, <2>3 DEF ProcessRead
  <2>5. shown' \in SUBSET Reads
    BY <1>22, <2>2 DEF ProcessRead
  <2>6. /\ results' \in [1..MaxBatch -> Outputs \cup {"none"}]
        /\ answered' \in 0..counted /\ met' \in BOOLEAN
    BY <1>22, <2>1 DEF ProcessRead
  <2> QED BY <1>22, <2>4, <2>5, <2>6 DEF vars, ProcessRead
<1>23. CASE Flushed
  BY <1>23 DEF vars, Flushed
<1>24. CASE EndBatch
  <2>1. CASE stop
    <3>1. Finish("cancelled", {}, used)
      BY <1>24, <2>1 DEF EndBatch
    <3>2. /\ pc' = "done" /\ outcome' = "cancelled"
          /\ reasons' \in SUBSET Dims /\ gaps' \in BOOLEAN /\ warned' \in SUBSET Dims
      BY <3>1, FinishFacts
    <3> QED BY <1>24, <2>1, <3>2 DEF vars, EndBatch
  <2>2. CASE ~ (stop)
    BY <1>24, <2>2 DEF vars, EndBatch
  <2> QED BY <2>1, <2>2
<1>25. ASSUME NEW r \in Requests, Adjust(r) PROVE TypeOK'
  BY <1>25 DEF vars, Adjust
<1>26. ASSUME UNCHANGED vars PROVE TypeOK'
  BY <1>26 DEF vars
<1> QED BY <1>1, <1>2, <1>3, <1>4, <1>5, <1>6, <1>7, <1>8, <1>9, <1>10, <1>11, <1>12, <1>13, <1>14, <1>15, <1>16, <1>17, <1>18, <1>19, <1>20, <1>21, <1>22, <1>23, <1>24, <1>25, <1>26 DEF Next, Turn, Batch, Ended

LEMMA BudgetStep ==
  AgentInv /\ [Next]_vars => (AcceptedBudgetsTakeForce /\ CommittedIsValid)'
<1> SUFFICES ASSUME AgentInv, [Next]_vars
             PROVE  (AcceptedBudgetsTakeForce /\ CommittedIsValid)'
  OBVIOUS
<1>0. /\ overrides \in Seq(Requests) /\ applied \in 0..Len(overrides)
      /\ budget = Merged(DefaultBudget, SubSeq(overrides, 1, applied))
      /\ Valid(Merged(DefaultBudget, overrides))
  BY DEF AgentInv, TypeOK, AcceptedBudgetsTakeForce, CommittedIsValid
<1>1. ASSUME NEW r \in Requests, Adjust(r)
      PROVE  (AcceptedBudgetsTakeForce /\ CommittedIsValid)'
  <2>1. overrides' = Append(overrides, r) /\ UNCHANGED <<budget, applied>>
    BY <1>1 DEF Adjust
  <2>2. SubSeq(overrides', 1, applied) = SubSeq(overrides, 1, applied)
    BY <1>0, <2>1
  <2>3. Valid(Merged(DefaultBudget, overrides'))
    <3>1. Valid(With(Merged(DefaultBudget, overrides), r))
      BY <1>1 DEF Adjust
    <3> QED BY <1>0, <2>1, <3>1, MergedOneMore, BudgetAssumption
  <2> QED BY <1>0, <2>1, <2>2, <2>3 DEF AcceptedBudgetsTakeForce, CommittedIsValid
<1>2. CASE BeginTurn
  <2>1. UNCHANGED overrides
    BY <1>2 DEF BeginTurn
  <2>2. CASE UNCHANGED limits
    BY <1>0, <2>1, <2>2 DEF AcceptedBudgetsTakeForce, CommittedIsValid
  <2>3. CASE Apply(applied + 1)
    <3>1. Merged(budget, SubSeq(overrides, applied + 1, Len(overrides)))
            = Merged(DefaultBudget, overrides)
      BY <1>0, MergeInPortions
    <3>2. budget' = Merged(DefaultBudget, overrides) /\ applied' = Len(overrides)
      BY <1>0, <2>3, <3>1 DEF Apply
    <3>3. SubSeq(overrides, 1, Len(overrides)) = overrides
      BY <1>0
    <3> QED BY <1>0, <2>1, <3>2, <3>3 DEF AcceptedBudgetsTakeForce, CommittedIsValid
  <2> QED BY <1>2, <2>2, <2>3 DEF BeginTurn
<1>3. ASSUME UNCHANGED <<budget, applied, overrides>>
      PROVE  (AcceptedBudgetsTakeForce /\ CommittedIsValid)'
  BY <1>0, <1>3 DEF AcceptedBudgetsTakeForce, CommittedIsValid
<1>4. \/ \E r \in Requests : Adjust(r)
      \/ BeginTurn
      \/ UNCHANGED <<budget, applied, overrides>>
  BY DEF Next, Turn, Batch, Ended, vars, Receive, RunRead,
     Cancel, Top, OutOfBudget, Boundary, Request, OutOfRequests, Retry, Recover, ProviderFails, OutOfTokens, Malformed, AnswerCancelled, AnswerWithCalls, Reject, Final, NextCall, Count, Act, ProcessRead, Flushed, EndBatch
<1> QED BY <1>1, <1>2, <1>3, <1>4

Control == GatheredAreReads /\ CutShort /\ LateAtMostOnce

LEMMA ControlStep == AgentInv /\ [Next]_vars => Control'
<1> SUFFICES ASSUME AgentInv, [Next]_vars PROVE Control'
  OBVIOUS
<1> USE DEF AgentInv, TypeOK, Control, GatheredAreReads, CutShort, ConversationAnswered,
    LateAtMostOnce, Reached
<1>1. CASE Cancel
  BY <1>1 DEF vars, Cancel
<1>2. CASE Top
  BY <1>2 DEF vars, Top
<1>3. CASE OutOfBudget
  <2>1. pc' = "done"
    BY <1>3, FinishEnds DEF OutOfBudget
  <2> QED BY <1>3, <2>1 DEF vars, OutOfBudget
<1>4. CASE Boundary
  <2>1. CASE cancelled
    <3>1. pc' = "done"
      BY <1>4, <2>1, FinishEnds DEF Boundary
    <3> QED BY <1>4, <2>1, <3>1 DEF vars, Boundary
  <2>2. CASE ~ (cancelled)
    BY <1>4, <2>2 DEF vars, Boundary
  <2> QED BY <2>1, <2>2
<1>5. CASE BeginTurn
  BY <1>5 DEF vars, BeginTurn
<1>6. CASE Request
  BY <1>6 DEF vars, Request
<1>7. CASE OutOfRequests
  <2>1. pc' = "done"
    BY <1>7, FinishEnds DEF OutOfRequests
  <2> QED BY <1>7, <2>1 DEF vars, OutOfRequests
<1>8. CASE Retry
  BY <1>8 DEF vars, Retry
<1>9. CASE Recover
  BY <1>9 DEF vars, Recover
<1>10. CASE ProviderFails
  BY <1>10 DEF vars, ProviderFails, Abort
<1>11. CASE OutOfTokens
  <2>1. pc' = "done"
    BY <1>11, FinishEnds DEF OutOfTokens
  <2> QED BY <1>11, <2>1 DEF vars, OutOfTokens
<1>12. CASE Malformed
  <2>1. CASE malformed' >= MaxMalformed
    <3>1. pc' = "done"
      BY <1>12, <2>1, FinishEnds DEF Malformed
    <3> QED BY <1>12, <2>1, <3>1 DEF vars, Malformed
  <2>2. CASE ~ (malformed' >= MaxMalformed)
    BY <1>12, <2>2, LimitsAssumption DEF vars, Malformed
  <2> QED BY <2>1, <2>2
<1>13. ASSUME NEW calls \in Responses, Receive(calls) PROVE Control'
  BY <1>13 DEF vars, Receive
<1>14. CASE AnswerCancelled
  <2>1. pc' = "done"
    BY <1>14, FinishEnds DEF AnswerCancelled
  <2> QED BY <1>14, <2>1 DEF vars, AnswerCancelled
<1>15. CASE AnswerWithCalls
  BY <1>15 DEF vars, AnswerWithCalls
<1>16. CASE Reject
  BY <1>16 DEF vars, Reject
<1>17. CASE Final
  BY <1>17 DEF vars, Final
<1>18. CASE NextCall
  BY <1>18 DEF vars, NextCall
<1>19. CASE Count
  BY <1>19 DEF vars, Count
<1>20. CASE Act
  BY <1>20 DEF vars, Act
<1>21. ASSUME NEW i \in 1..MaxBatch, RunRead(i) PROVE Control'
  BY <1>21 DEF vars, RunRead
<1>22. CASE ProcessRead
  BY <1>22 DEF vars, ProcessRead
<1>23. CASE Flushed
  BY <1>23 DEF vars, Flushed
<1>24. CASE EndBatch
  <2>1. CASE stop
    <3>1. pc' = "done"
      BY <1>24, <2>1, FinishEnds DEF EndBatch
    <3> QED BY <1>24, <2>1, <3>1 DEF vars, EndBatch
  <2>2. CASE ~ (stop)
    BY <1>24, <2>2 DEF vars, EndBatch
  <2> QED BY <2>1, <2>2
<1>25. ASSUME NEW r \in Requests, Adjust(r) PROVE Control'
  BY <1>25 DEF vars, Adjust
<1>26. ASSUME UNCHANGED vars PROVE Control'
  BY <1>26 DEF vars
<1> QED BY <1>1, <1>2, <1>3, <1>4, <1>5, <1>6, <1>7, <1>8, <1>9, <1>10, <1>11, <1>12, <1>13, <1>14, <1>15, <1>16, <1>17, <1>18, <1>19, <1>20, <1>21, <1>22, <1>23, <1>24, <1>25, <1>26 DEF Next, Turn, Batch, Ended

LEMMA ReportedStep == AgentInv /\ [Next]_vars => ReportedMetIsMet'
<1> SUFFICES ASSUME AgentInv, [Next]_vars PROVE ReportedMetIsMet'
  OBVIOUS
<1> USE DEF ReportedMetIsMet, AgentInv
<1>1. CASE Cancel
  BY <1>1 DEF vars, Cancel
<1>2. CASE Top
  BY <1>2 DEF vars, Top
<1>3. CASE OutOfBudget
  <2>1. ~gaps' => met
    BY <1>3, FinishFacts DEF OutOfBudget, Dims
  <2> QED BY <1>3, <2>1 DEF OutOfBudget
<1>4. CASE Boundary
  <2>1. CASE cancelled
    <3>1. ~gaps' => met
      BY <1>4, <2>1, FinishFacts DEF Boundary
    <3> QED BY <1>4, <2>1, <3>1 DEF Boundary
  <2>2. CASE ~ (cancelled)
    BY <1>4, <2>2 DEF Boundary
  <2> QED BY <2>1, <2>2
<1>5. CASE BeginTurn
  BY <1>5 DEF vars, BeginTurn
<1>6. CASE Request
  BY <1>6 DEF vars, Request
<1>7. CASE OutOfRequests
  <2>1. ~gaps' => met
    BY <1>7, FinishFacts DEF OutOfRequests, Dims
  <2> QED BY <1>7, <2>1 DEF OutOfRequests
<1>8. CASE Retry
  BY <1>8 DEF vars, Retry
<1>9. CASE Recover
  BY <1>9 DEF vars, Recover
<1>10. CASE ProviderFails
  <2>1. outcome' = "error"
    BY <1>10 DEF ProviderFails, Abort
  <2> QED BY <2>1
<1>11. CASE OutOfTokens
  <2>1. ~gaps' => met
    BY <1>11, FinishFacts DEF OutOfTokens, Dims
  <2> QED BY <1>11, <2>1 DEF OutOfTokens
<1>12. CASE Malformed
  <2>1. CASE malformed' >= MaxMalformed
    <3>1. ~gaps' => met
      BY <1>12, <2>1, FinishFacts DEF Malformed
    <3> QED BY <1>12, <2>1, <3>1 DEF Malformed
  <2>2. CASE ~ (malformed' >= MaxMalformed)
    BY <1>12, <2>2 DEF Malformed
  <2> QED BY <2>1, <2>2
<1>13. ASSUME NEW calls \in Responses, Receive(calls) PROVE ReportedMetIsMet'
  BY <1>13 DEF vars, Receive
<1>14. CASE AnswerCancelled
  <2>1. ~gaps' => met
    BY <1>14, FinishFacts DEF AnswerCancelled, Dims
  <2> QED BY <1>14, <2>1 DEF AnswerCancelled
<1>15. CASE AnswerWithCalls
  BY <1>15 DEF vars, AnswerWithCalls
<1>16. CASE Reject
  BY <1>16 DEF vars, Reject
<1>17. CASE Final
  BY <1>17 DEF vars, Final
<1>18. CASE NextCall
  BY <1>18 DEF vars, NextCall
<1>19. CASE Count
  BY <1>19 DEF vars, Count
<1>20. CASE Act
  BY <1>20 DEF vars, Act
<1>21. ASSUME NEW i \in 1..MaxBatch, RunRead(i) PROVE ReportedMetIsMet'
  BY <1>21 DEF vars, RunRead
<1>22. CASE ProcessRead
  <2>1. pc' # "done"
    BY <1>22 DEF ProcessRead, Flushing
  <2> QED BY <2>1
<1>23. CASE Flushed
  BY <1>23 DEF vars, Flushed
<1>24. CASE EndBatch
  <2>1. CASE stop
    <3>1. ~gaps' => met
      BY <1>24, <2>1, FinishFacts DEF EndBatch
    <3> QED BY <1>24, <2>1, <3>1 DEF EndBatch
  <2>2. CASE ~ (stop)
    BY <1>24, <2>2 DEF EndBatch
  <2> QED BY <2>1, <2>2
<1>25. ASSUME NEW r \in Requests, Adjust(r) PROVE ReportedMetIsMet'
  BY <1>25 DEF vars, Adjust
<1>26. ASSUME UNCHANGED vars PROVE ReportedMetIsMet'
  BY <1>26 DEF vars
<1> QED BY <1>1, <1>2, <1>3, <1>4, <1>5, <1>6, <1>7, <1>8, <1>9, <1>10, <1>11, <1>12, <1>13, <1>14, <1>15, <1>16, <1>17, <1>18, <1>19, <1>20, <1>21, <1>22, <1>23, <1>24, <1>25, <1>26 DEF Next, Turn, Batch, Ended

-----------------------------------------------------------------------------
(* The theorems.                                                           *)

(* The typing, the portions of the overrides, the batches and the late     *)
(* steps, together inductive, for AgentEngine.run with any limits.         *)
THEOREM AgentInvariant == Spec => []AgentInv
<1>1. AgentInv /\ [Next]_vars => AgentInv'
  BY TypeStep, BudgetStep, ControlStep, ReportedStep DEF AgentInv, Control
<1> QED BY InitAgent, <1>1, PTL DEF Spec

(* Every variable of the loop keeps its type: no call is answered before   *)
(* it is counted, no fault step outside its script is taken, whatever the  *)
(* limits (AgentEngine.run).                                               *)
THEOREM TypeCorrect == Spec => []TypeOK
<1>1. AgentInv => TypeOK
  BY DEF AgentInv
<1> QED BY AgentInvariant, <1>1, PTL

(* No request is sent with a tool call unanswered, for any limits,         *)
(* requests and batches (the while condition of AgentEngine.run).          *)
THEOREM AnsweredTheorem == Spec => []ConversationAnswered
<1>1. AgentInv => ConversationAnswered
  BY DEF AgentInv, CutShort
<1> QED BY AgentInvariant, <1>1, PTL

(* At most one turn or one tool call is begun after a cancellation         *)
(* (_wait_for_resume), however long the batches are.                       *)
THEOREM CancelTheorem == Spec => []CancelIsPrompt
<1>1. AgentInv => CancelIsPrompt
  BY DEF AgentInv, LateAtMostOnce, CancelIsPrompt
<1> QED BY AgentInvariant, <1>1, PTL

(* An override the API has accepted is never rejected or skipped by the    *)
(* engine, for any number of requests of any shape, as long as no commit   *)
(* of config is lost (_apply_budget_overrides, adjust_run_budget).         *)
THEOREM BudgetTheorem == Spec => []AcceptedBudgetsTakeForce
<1>1. AgentInv => AcceptedBudgetsTakeForce
  BY DEF AgentInv
<1> QED BY AgentInvariant, <1>1, PTL

(* A run reported to meet its contract meets it when it ends (the last     *)
(* lines of AgentEngine.run).                                              *)
THEOREM ReportedTheorem == Spec => []ReportedMetIsMet
<1>1. AgentInv => ReportedMetIsMet
  BY DEF AgentInv
<1> QED BY AgentInvariant, <1>1, PTL
=============================================================================
