--------------------------- MODULE WorkerPoolProofs ---------------------------
(***************************************************************************)
(* Theorems about WorkerPool, for any set of runs, any pool and any number *)
(* of cancellations and crashes.                                           *)
(***************************************************************************)
EXTENDS WorkerPool, FiniteSetTheorems, TLAPS

\* Taking a run out of the queue leaves a queue.
LEMMA WithoutType ==
  ASSUME NEW q \in Seq(Runs), NEW r
  PROVE  Without(q, r) \in Seq(Runs)
<1>1. CASE \E i \in 1..Len(q) : q[i] = r
  <2> DEFINE i == CHOOSE i \in 1..Len(q) : q[i] = r
  <2>1. i \in 1..Len(q)
    BY <1>1
  <2> HIDE DEF i
  <2>2. RemoveAt(q, i) \in Seq(Runs)
    BY <2>1 DEF RemoveAt
  <2> QED BY <1>1, <2>2 DEF Without, i
<1>2. CASE ~ \E i \in 1..Len(q) : q[i] = r
  BY <1>2 DEF Without
<1> QED BY <1>1, <1>2

-----------------------------------------------------------------------------
(* No run without a thread.  Across a restart the promise is carried by    *)
(* what the reconciliation has selected: no run becomes preparing, running *)
(* or scoring between its two statements.                                  *)

OrphansOK ==
    loop = "reconcile" => \A r \in Runs : status[r] \in Interrupted => r \in orphans

PoolInv == TypeOK /\ RunningHasThread /\ OrphansOK

LEMMA InitPool == Init => PoolInv
BY PoolAssumption DEF Init, PoolInv, TypeOK, RunningHasThread, OrphansOK, Statuses,
   Terminal, Interrupted, Limits

LEMMA TypeStep == TypeOK /\ [Next]_vars => TypeOK'
<1> SUFFICES ASSUME TypeOK, [Next]_vars PROVE TypeOK'
  OBVIOUS
<1> USE PoolAssumption DEF TypeOK, Statuses, Terminal, Interrupted, Limits, runs, users, main
<1>1. ASSUME NEW r \in Runs, Create(r) PROVE TypeOK'
  BY <1>1 DEF Create
<1>2. ASSUME NEW r \in Runs, ReadForCancel(r) PROVE TypeOK'
  BY <1>2 DEF ReadForCancel
<1>3. ASSUME NEW r \in Runs, LockForCancel(r) PROVE TypeOK'
  BY <1>3 DEF LockForCancel
<1>4. ASSUME NEW r \in Runs, CommitCancel(r) PROVE TypeOK'
  BY <1>4, WithoutType DEF CommitCancel
<1>5. ASSUME NEW r \in Runs, Toggle(r) PROVE TypeOK'
  BY <1>5 DEF Toggle
<1>6. ASSUME NEW n \in Limits, SetLimit(n) PROVE TypeOK'
  BY <1>6 DEF SetLimit
<1>7. CASE Start
  BY <1>7 DEF Start
<1>8. CASE Reconcile
  BY <1>8 DEF Reconcile
<1>9. CASE BeginPass
  BY <1>9 DEF BeginPass
<1>10. ASSUME NEW r \in Runs, Claim(r) PROVE TypeOK'
  BY <1>10, WithoutType DEF Claim
<1>11. CASE Submit
  BY <1>11 DEF Submit
<1>12. CASE EndPass
  BY <1>12 DEF EndPass
<1>13. CASE Drained
  BY <1>13 DEF Drained
<1>14. CASE LoopFails
  BY <1>14 DEF LoopFails
<1>15. CASE Crash
  BY <1>15 DEF Crash
<1>16. ASSUME NEW r \in Runs, Progress(r) PROVE TypeOK'
  BY <1>16 DEF Progress
<1>17. ASSUME NEW r \in Runs, Verdict(r) PROVE TypeOK'
  BY <1>17 DEF Verdict
<1>18. CASE UNCHANGED vars
  BY <1>18 DEF vars
<1> QED
  BY <1>1, <1>2, <1>3, <1>4, <1>5, <1>6, <1>7, <1>8, <1>9, <1>10, <1>11, <1>12, <1>13,
     <1>14, <1>15, <1>16, <1>17, <1>18 DEF Next, RunnerLoop, Thread

\* A step of a user, or of the thread of one run, makes no run preparing, running
\* or scoring that was not, and takes no thread from one that stays so.
LEMMA OthersKeepThreads ==
  ASSUME PoolInv,
         UNCHANGED main,
         \A r \in Runs : status'[r] \in Interrupted =>
            status[r] \in Interrupted /\ (slot[r] = "active" => slot'[r] = "active")
  PROVE  RunningHasThread' /\ OrphansOK'
BY DEF PoolInv, RunningHasThread, OrphansOK, Live, main

LEMMA ThreadStep == PoolInv /\ [Next]_vars => RunningHasThread' /\ OrphansOK'
<1> SUFFICES ASSUME PoolInv, [Next]_vars PROVE RunningHasThread' /\ OrphansOK'
  OBVIOUS
<1>t. TypeOK /\ TypeOK'
  BY TypeStep DEF PoolInv
<1> DEFINE Keeps == \A s \in Runs : status'[s] \in Interrupted =>
              status[s] \in Interrupted /\ (slot[s] = "active" => slot'[s] = "active")
<1>1. ASSUME NEW r \in Runs, Create(r) PROVE UNCHANGED main /\ Keeps
  BY <1>1, <1>t DEF Create, TypeOK, Interrupted
<1>2. ASSUME NEW r \in Runs, ReadForCancel(r) \/ LockForCancel(r) PROVE UNCHANGED main /\ Keeps
  BY <1>2 DEF ReadForCancel, LockForCancel, runs
<1>3. ASSUME NEW r \in Runs, CommitCancel(r) PROVE UNCHANGED main /\ Keeps
  BY <1>3, <1>t DEF CommitCancel, TypeOK, Interrupted
<1>4. ASSUME NEW r \in Runs, Toggle(r) PROVE UNCHANGED main /\ Keeps
  BY <1>4 DEF Toggle
<1>5. ASSUME NEW n \in Limits, SetLimit(n) PROVE UNCHANGED main /\ Keeps
  BY <1>5 DEF SetLimit, runs
<1>6. ASSUME NEW r \in Runs, Progress(r) PROVE UNCHANGED main /\ Keeps
  BY <1>6, <1>t DEF Progress, TypeOK, Interrupted
<1>7. ASSUME NEW r \in Runs, Verdict(r) PROVE UNCHANGED main /\ Keeps
  BY <1>7, <1>t DEF Verdict, TypeOK, Interrupted
<1>8. ASSUME UNCHANGED vars PROVE UNCHANGED main /\ Keeps
  BY <1>8 DEF vars, runs
<1> HIDE DEF Keeps
<1>9. CASE UNCHANGED main /\ Keeps
  BY <1>9, OthersKeepThreads DEF Keeps
<1> USE DEF PoolInv, RunningHasThread, OrphansOK, Live, runs
<1>10. CASE Start
  BY <1>10 DEF Start
<1>11. CASE Reconcile
  BY <1>11, <1>t DEF Reconcile, TypeOK, Interrupted
<1>12. CASE BeginPass
  BY <1>12, <1>t DEF BeginPass, TypeOK
<1>13. ASSUME NEW r \in Runs, Claim(r) PROVE RunningHasThread' /\ OrphansOK'
  BY <1>13, <1>t DEF Claim, TypeOK
<1>14. CASE Submit
  BY <1>14, <1>t DEF Submit, TypeOK
<1>15. CASE EndPass \/ LoopFails
  BY <1>15 DEF EndPass, LoopFails
<1>16. CASE Drained \/ Crash
  BY <1>16 DEF Drained, Crash
<1> QED
  BY <1>1, <1>2, <1>3, <1>4, <1>5, <1>6, <1>7, <1>8, <1>9, <1>10, <1>11, <1>12, <1>13,
     <1>14, <1>15, <1>16 DEF Next, RunnerLoop, Thread

\* The invariant of the pool: types, threads, and what a reconciliation has
\* selected (Worker.run_forever).
THEOREM PoolInvariant == Spec => []PoolInv
<1>1. PoolInv /\ [Next]_vars => PoolInv'
  BY TypeStep, ThreadStep DEF PoolInv
<1> QED BY <1>1, InitPool, PTL DEF Spec

\* Every variable keeps its type, for any pool.
THEOREM TypeCorrect == Spec => []TypeOK
<1>1. PoolInv => TypeOK
  BY DEF PoolInv
<1> QED BY <1>1, PoolInvariant, PTL

\* No run is left preparing, running or scoring without a thread while the
\* Runner is up, whenever it crashed before (Worker.claim, fill_available_slots,
\* reconcile_orphaned_runs).
THEOREM NoRunLeftBehind == Spec => []RunningHasThread
<1>1. PoolInv => RunningHasThread
  BY DEF PoolInv
<1> QED BY <1>1, PoolInvariant, PTL

-----------------------------------------------------------------------------
(* The executor always has a thread for the next future.  A pass claims    *)
(* only below the limit it has read, which is at most the pool.            *)

PoolFits ==
    /\ IsFiniteSet(Futures \cup claimed)
    /\ Cardinality(Futures \cup claimed) <= PoolSize
    /\ loop # "submit" => claimed = {}

LEMMA FitsShrinks ==
  ASSUME PoolFits, Futures' \cup claimed' \subseteq Futures \cup claimed,
         loop' # "submit" => claimed' = {}, PoolSize \in Nat
  PROVE  PoolFits'
<1>1. /\ IsFiniteSet(Futures' \cup claimed')
      /\ Cardinality(Futures' \cup claimed') <= Cardinality(Futures \cup claimed)
  BY FS_Subset DEF PoolFits
<1>2. Cardinality(Futures \cup claimed) \in Nat /\ Cardinality(Futures' \cup claimed') \in Nat
  BY <1>1, FS_CardinalityType DEF PoolFits
<1> QED BY <1>1, <1>2 DEF PoolFits

LEMMA ClaimFits ==
  ASSUME PoolFits, TypeOK, NEW r \in Runs, Claim(r)
  PROVE  PoolFits'
<1>1. claimed = {} /\ claimed' = {r} /\ loop' = "submit" /\ Futures' = Futures
  BY DEF PoolFits, Claim, Futures
<1>2. IsFiniteSet(Futures) /\ Cardinality(Futures) \in Nat
  BY <1>1, FS_CardinalityType DEF PoolFits
<1>3. Cardinality(Futures) + 1 <= PoolSize
  BY <1>2, PoolAssumption DEF Claim, TypeOK, Limits
<1>4. /\ IsFiniteSet(Futures \cup {r})
      /\ Cardinality(Futures \cup {r}) <= Cardinality(Futures) + 1
  <2>1. /\ IsFiniteSet(Futures \cup {r})
        /\ Cardinality(Futures \cup {r}) =
              IF r \in Futures THEN Cardinality(Futures) ELSE Cardinality(Futures) + 1
    BY <1>2, FS_AddElement
  <2> QED BY <1>2, <2>1
<1>5. Cardinality(Futures \cup {r}) \in Nat
  BY <1>4, FS_CardinalityType
<1> QED BY <1>1, <1>2, <1>3, <1>4, <1>5, PoolAssumption DEF PoolFits

LEMMA FitsStep == TypeOK /\ PoolFits /\ [Next]_vars => PoolFits'
<1> SUFFICES ASSUME TypeOK, PoolFits, [Next]_vars PROVE PoolFits'
  OBVIOUS
<1> DEFINE Shrinks == /\ Futures' \cup claimed' \subseteq Futures \cup claimed
                      /\ loop' # "submit" => claimed' = {}
<1> USE DEF PoolFits, TypeOK, Futures
<1>1. CASE UNCHANGED <<slot, main>>
  BY <1>1 DEF main
<1>2. ASSUME NEW r \in Runs, Claim(r) PROVE PoolFits'
  BY <1>2, ClaimFits
<1>3. ASSUME NEW r \in Runs, Verdict(r) PROVE Shrinks
  BY <1>3 DEF Verdict, main
<1>4. CASE Start \/ Reconcile \/ EndPass \/ LoopFails
  <2>1. Shrinks
    BY <1>4 DEF Start, Reconcile, EndPass, LoopFails
  <2> QED BY <2>1, FitsShrinks, PoolAssumption
<1>5. CASE BeginPass
  <2>1. Shrinks
    BY <1>5 DEF BeginPass
  <2> QED BY <2>1, FitsShrinks, PoolAssumption
<1>6. CASE Submit
  <2>1. Shrinks
    BY <1>6 DEF Submit
  <2> QED BY <2>1, FitsShrinks, PoolAssumption
<1>7. CASE Drained \/ Crash
  <2>1. Shrinks
    BY <1>7 DEF Drained, Crash
  <2> QED BY <2>1, FitsShrinks, PoolAssumption
<1>8. ASSUME NEW r \in Runs, Verdict(r) PROVE PoolFits'
  BY <1>3, <1>8, FitsShrinks, PoolAssumption
<1>9. ASSUME NEW r \in Runs,
             \/ Create(r) \/ ReadForCancel(r) \/ LockForCancel(r) \/ CommitCancel(r)
             \/ Toggle(r) \/ Progress(r)
      PROVE UNCHANGED <<slot, main>>
  BY <1>9 DEF Create, ReadForCancel, LockForCancel, CommitCancel, Toggle, Progress
<1>10. ASSUME NEW n \in Limits, SetLimit(n) PROVE UNCHANGED <<slot, main>>
  BY <1>10 DEF SetLimit
<1>11. CASE UNCHANGED vars
  BY <1>11, <1>1 DEF vars
<1> HIDE DEF PoolFits, TypeOK, Futures
<1> QED
  BY <1>1, <1>2, <1>4, <1>5, <1>6, <1>7, <1>8, <1>9, <1>10, <1>11
     DEF Next, RunnerLoop, Thread

\* However the limit moves, the executor has a thread for every future: a
\* submitted run never waits for one (fill_available_slots, the executor of
\* run_forever).
THEOREM PoolNeverOverfull == Spec => [](Cardinality(Futures \cup claimed) <= PoolSize)
<1>1. Init => PoolFits
  <2> SUFFICES ASSUME Init PROVE PoolFits
    OBVIOUS
  <2>1. Futures \cup claimed = {} /\ claimed = {}
    BY DEF Init, Futures
  <2> QED BY <2>1, FS_EmptySet, PoolAssumption DEF PoolFits
<1>2. PoolFits => Cardinality(Futures \cup claimed) <= PoolSize
  BY DEF PoolFits
<1> QED BY <1>1, <1>2, FitsStep, TypeCorrect, PTL DEF Spec
=============================================================================
