---------------------------- MODULE IncidentProofs ----------------------------
(***************************************************************************)
(* Theorems about IncidentDirector for every plan: any horizon, ages,      *)
(* budgets, phases, tickets and catalogue.                                 *)
(***************************************************************************)
EXTENDS IncidentDirector, TLAPS

\* The sequence is satisfied exactly as far as the gates have been passed.
CursorOK ==
    /\ cursor >= 1 <=> "baseline" \in attempted
    /\ cursor >= 2 <=> HasPassed("canary")
    /\ cursor >= 3 <=> HasPassed("replay")
    /\ cursor >= 4 <=> HasPassed("soak")

\* Nothing a rollback can restore is better than what early damage left.
DamageOK ==
    \A r \in actions : ~r.snapshotBefore =>
        /\ dataIntegrity <= GreaterOf(0, 100 - r.dataCost)
        /\ \A s \in snapshots : s.dataIntegrity <= GreaterOf(0, 100 - r.dataCost)

\* The token and the snapshots leave a trace in the record.
RecordOK ==
    /\ tokenUsed => \E r \in actions : r.action \in Irreversible
    /\ \A r \in actions : r.action \in Irreversible => r.risky
    /\ \A r \in actions : r.snapshotBefore => snapshots # {}

IncidentInv == IncidentTypeOK /\ CursorOK /\ DamageOK /\ RecordOK

-----------------------------------------------------------------------------
\* The clock never runs back, never passes the horizon, and moves one tick.
LEMMA AdvanceKeepsTime ==
    ASSUME IncidentTypeOK, Advance
    PROVE  /\ tick' \in 0..Horizon
           /\ tick' \in {tick, tick + 1}
           /\ activated' \subseteq Tickets
  BY PlanAssumption DEF IncidentTypeOK, Advance, LesserOf

\* What an action of the table costs.
LEMMA PolicyTyped ==
    ASSUME NEW a \in DOMAIN Policy
    PROVE  Policy[a].risk \in Nat /\ Policy[a].cost \in Nat
  BY DEF Policy

\* The irreversible actions are all risky.
LEMMA IrreversibleRisky ==
    ASSUME NEW a \in DOMAIN Policy, a \in Irreversible
    PROVE  Policy[a].risk > 0
  BY DEF Policy, Irreversible

\* What an action does to the service and to the record, by name.
LEMMA ActEffects ==
    ASSUME IncidentTypeOK, NEW a \in DOMAIN Policy, NEW target \in Targets,
           NEW supported \in BOOLEAN, Act(a, target, supported)
    PROVE  \E cost \in Nat, risky \in BOOLEAN :
              /\ dataIntegrity' = GreaterOf(0, dataIntegrity - cost)
              /\ actions' = actions \cup
                   {[action |-> a, risky |-> risky, dataCost |-> cost,
                     snapshotBefore |-> snapshots # {}]}
              /\ a \in Irreversible => risky
<1> DEFINE exposed == Policy[a].risk + (IF supported THEN 0 ELSE 5)
           bare == exposed > 0 /\ snapshots = {}
           cost == Policy[a].cost + (IF bare THEN 5 ELSE 0)
           risky == exposed > 0
<1>1. Policy[a].risk \in Nat /\ Policy[a].cost \in Nat
  BY PolicyTyped
<1>2. exposed \in Nat /\ (a \in Irreversible => exposed > 0)
  BY <1>1, IrreversibleRisky
<1>3. cost \in Nat
  BY <1>1
<1>4. risky \in BOOLEAN
  BY <1>2
<1>5. /\ dataIntegrity' = GreaterOf(0, dataIntegrity - cost)
      /\ actions' = actions \cup
           {[action |-> a, risky |-> risky, dataCost |-> cost,
             snapshotBefore |-> snapshots # {}]}
  BY DEF Act
<1>6. a \in Irreversible => risky
  BY <1>2
<1> HIDE DEF cost, risky
<1> QED BY <1>3, <1>4, <1>5, <1>6

LEMMA ActTyped ==
    ASSUME IncidentTypeOK, NEW a \in DOMAIN Policy, NEW target \in Targets,
           NEW supported \in BOOLEAN, Act(a, target, supported)
    PROVE  /\ risk' \in 0..100
           /\ dataIntegrity' \in 0..100
           /\ mitigations' \subseteq Mitigation
           /\ tokenUsed' \in BOOLEAN
           /\ actionBudget' \in 0..ActionBudget
           /\ actions' \subseteq Record
<1>1. risk' \in 0..100
  <2> DEFINE exposed == Policy[a].risk + (IF supported THEN 0 ELSE 5)
             bare == exposed > 0 /\ snapshots = {}
  <2>1. exposed \in Nat
    BY PolicyTyped
  <2>2. PICK delta \in Nat : risk' = LesserOf(100, risk + delta)
    <3> DEFINE delta == exposed + (IF bare THEN 10 ELSE 0)
    <3>1. delta \in Nat
      BY <2>1
    <3>2. risk' = LesserOf(100, risk + exposed + (IF bare THEN 10 ELSE 0))
      BY DEF Act
    <3>3. risk \in Int
      BY DEF IncidentTypeOK
    <3>4. risk + exposed + (IF bare THEN 10 ELSE 0) = risk + delta
      BY <2>1, <3>3
    <3> HIDE DEF delta
    <3> QED BY <3>1, <3>2, <3>4
  <2> QED BY <2>2 DEF IncidentTypeOK, LesserOf
<1>2. PICK cost \in Nat, risky \in BOOLEAN :
          /\ dataIntegrity' = GreaterOf(0, dataIntegrity - cost)
          /\ actions' = actions \cup
               {[action |-> a, risky |-> risky, dataCost |-> cost,
                 snapshotBefore |-> snapshots # {}]}
  BY ActEffects
<1>3. dataIntegrity' \in 0..100
  BY <1>2 DEF IncidentTypeOK, GreaterOf
<1>4. actions' \subseteq Record
  <2> DEFINE b == snapshots # {}
  <2>1. b \in BOOLEAN
    OBVIOUS
  <2>2. actions' = actions \cup
               {[action |-> a, risky |-> risky, dataCost |-> cost,
                 snapshotBefore |-> b]}
    BY <1>2
  <2> HIDE DEF b
  <2> QED BY <2>1, <2>2 DEF IncidentTypeOK, Record
<1>5. mitigations' \subseteq Mitigation
  BY DEF Act, IncidentTypeOK, Mitigation
<1>6. tokenUsed' \in BOOLEAN
  BY DEF Act, IncidentTypeOK
<1>7. actionBudget' \in 0..ActionBudget
  BY PlanAssumption DEF Act, IncidentTypeOK
<1> QED BY <1>1, <1>3, <1>4, <1>5, <1>6, <1>7

\* What a rollback leaves in the record.
LEMMA RollbackTyped ==
    ASSUME NEW snapshot \in snapshots, Rollback(snapshot), actions \subseteq Record
    PROVE  /\ actions' \subseteq Record
           /\ actions \subseteq actions'
           /\ \A r \in actions' \ actions :
                 r.action \notin Irreversible /\ r.snapshotBefore
<1> DEFINE mark == [action |-> "rollback", risky |-> FALSE, dataCost |-> 0,
                    snapshotBefore |-> TRUE]
<1>1. mark \in Record
  BY DEF Record
<1>2. mark.action \notin Irreversible /\ mark.snapshotBefore
  BY DEF Irreversible
<1>3. actions' = actions \cup {mark}
  BY DEF Rollback
<1> HIDE DEF mark
<1> QED BY <1>1, <1>2, <1>3

LEMMA VerifyTyped ==
    ASSUME IncidentTypeOK, NEW mode \in VerificationModes, NEW fit \in BOOLEAN, Verify(mode, fit)
    PROVE  /\ attempted' \subseteq VerificationModes
           /\ cursor' \in 0..4
           /\ passes' \subseteq Pass
<1>1. attempted' \subseteq VerificationModes
  BY DEF IncidentTypeOK, Verify
<1>2. Len(Sequence) = 4
  BY DEF Sequence
<1>3. cursor' \in 0..4
  BY <1>2 DEF IncidentTypeOK, Verify
<1>4. Passed(mode, fit) => mode \in Gates
  BY DEF Passed, Gates
<1>5. passes' \subseteq Pass
  BY <1>4 DEF IncidentTypeOK, Verify, Pass
<1> QED BY <1>1, <1>3, <1>5

(* Every variable keeps its type: risk and integrity stay percentages      *)
(* through every action and rollback, no budget is overdrawn.              *)
THEOREM TypeCorrect == IncidentSpec => []IncidentTypeOK
<1>1. IncidentInit => IncidentTypeOK
  <2> SUFFICES ASSUME IncidentInit PROVE IncidentTypeOK
    OBVIOUS
  <2>1. tokenUsed \in BOOLEAN
    BY DEF IncidentInit
  <2>2. /\ tick \in 0..Horizon
        /\ risk \in 0..100
        /\ dataIntegrity \in 0..100
        /\ actionBudget \in 0..ActionBudget
        /\ snapshotBudget \in 0..SnapshotBudget
        /\ cursor \in 0..4
    BY PlanAssumption DEF IncidentInit
  <2> QED BY <2>1, <2>2 DEF IncidentInit, IncidentTypeOK
<1>2. IncidentTypeOK /\ [IncidentNext]_incidentVars => IncidentTypeOK'
  <2> SUFFICES ASSUME IncidentTypeOK, [IncidentNext]_incidentVars PROVE IncidentTypeOK'
    OBVIOUS
  <2> USE DEF incidentVars, clock, service, ledger, captures, findings, gates
  <2>1. CASE OtherCall
    BY <2>1, AdvanceKeepsTime DEF OtherCall, IncidentTypeOK
  <2>2. CASE \E view \in Views : Observe(view)
    <3>1. PhaseAt[tick] \in Phases
      BY PlanAssumption DEF IncidentTypeOK
    <3> QED BY <2>2, <3>1, AdvanceKeepsTime DEF Observe, IncidentTypeOK
  <2>3. CASE \E ticket \in Tickets : Decide(ticket)
    BY <2>3, AdvanceKeepsTime DEF Decide, IncidentTypeOK
  <2>4. CASE Snapshot
    <3>1. tick' \in 0..Horizon /\ activated' \subseteq Tickets
      BY <2>4, AdvanceKeepsTime DEF Snapshot
    <3>2. snapshotBudget' \in 0..SnapshotBudget
      BY <2>4, PlanAssumption DEF Snapshot, IncidentTypeOK
    <3>3. snapshots' \subseteq Capture
      BY <2>4 DEF Snapshot, IncidentTypeOK, Capture
    <3> QED BY <2>4, <3>1, <3>2, <3>3 DEF Snapshot, IncidentTypeOK
  <2>5. CASE \E a \in Catalogue, target \in Targets, supported \in BOOLEAN :
                Act(a, target, supported)
    <3>1. PICK a \in DOMAIN Policy, target \in Targets, supported \in BOOLEAN :
                Act(a, target, supported)
      BY <2>5, PlanAssumption
    <3>2. tick' \in 0..Horizon /\ activated' \subseteq Tickets
      BY <3>1, AdvanceKeepsTime DEF Act
    <3>3. /\ risk' \in 0..100 /\ dataIntegrity' \in 0..100
          /\ mitigations' \subseteq Mitigation /\ tokenUsed' \in BOOLEAN
          /\ actionBudget' \in 0..ActionBudget /\ actions' \subseteq Record
      BY <3>1, ActTyped
    <3>4. UNCHANGED <<captures, findings, gates>>
      BY <3>1 DEF Act
    <3> QED BY <3>2, <3>3, <3>4 DEF IncidentTypeOK
  <2>6. CASE \E snapshot \in snapshots : Rollback(snapshot)
    <3>1. PICK snapshot \in snapshots : Rollback(snapshot)
      BY <2>6
    <3>2. tick' \in 0..Horizon /\ activated' \subseteq Tickets
      BY <3>1, AdvanceKeepsTime DEF Rollback
    <3>3. /\ risk' \in 0..100 /\ dataIntegrity' \in 0..100
          /\ mitigations' \subseteq Mitigation
      BY <3>1 DEF Rollback, IncidentTypeOK, Capture
    <3>4. actions' \subseteq Record
      BY <3>1, RollbackTyped DEF IncidentTypeOK
    <3> QED BY <3>1, <3>2, <3>3, <3>4 DEF Rollback, IncidentTypeOK
  <2>7. CASE \E mode \in AskedModes, fit \in BOOLEAN : Verify(mode, fit)
    <3>1. PICK mode \in VerificationModes, fit \in BOOLEAN : Verify(mode, fit)
      BY <2>7, PlanAssumption
    <3>2. tick' \in 0..Horizon /\ activated' \subseteq Tickets
      BY <3>1, AdvanceKeepsTime DEF Verify
    <3>3. attempted' \subseteq VerificationModes /\ cursor' \in 0..4 /\ passes' \subseteq Pass
      BY <3>1, VerifyTyped
    <3>4. UNCHANGED <<service, ledger, captures, findings>>
      BY <3>1 DEF Verify
    <3> QED BY <3>2, <3>3, <3>4 DEF IncidentTypeOK
  <2>8. CASE UNCHANGED incidentVars
    BY <2>8 DEF IncidentTypeOK
  <2> QED BY <2>1, <2>2, <2>3, <2>4, <2>5, <2>6, <2>7, <2>8 DEF IncidentNext
<1> QED BY <1>1, <1>2, PTL DEF IncidentSpec

-----------------------------------------------------------------------------
\* A verification moves the sequence exactly when it passes the next gate.
LEMMA VerifyKeepsCursor ==
    ASSUME IncidentInv, NEW mode \in VerificationModes, NEW fit \in BOOLEAN, Verify(mode, fit)
    PROVE  CursorOK'
<1> DEFINE new == [mode |-> mode, tick |-> tick]
<1>1. /\ Len(Sequence) = 4
      /\ Sequence[1] = "baseline" /\ Sequence[2] = "canary"
      /\ Sequence[3] = "replay" /\ Sequence[4] = "soak"
  BY DEF Sequence
<1>2. cursor \in 0..4
  BY DEF IncidentInv, IncidentTypeOK
<1>3. attempted' = attempted \cup {mode}
  BY DEF Verify
<1>4. \A m : HasPassed(m)' <=> HasPassed(m) \/ (m = mode /\ Passed(mode, fit))
  <2>1. new.mode = mode
    OBVIOUS
  <2>2. passes' = IF Passed(mode, fit) THEN passes \cup {new} ELSE passes
    BY DEF Verify
  <2> HIDE DEF new
  <2> QED BY <2>1, <2>2 DEF HasPassed
<1>5. /\ Passed("canary", fit) => cursor >= 1
      /\ Passed("replay", fit) => cursor >= 2
      /\ Passed("soak", fit) => cursor >= 3
  BY DEF Passed, Aged, IncidentInv, CursorOK
<1>6. ~Passed("baseline", fit) /\ ~Passed("quick", fit)
  BY DEF Passed
<1>7. CASE mode = "baseline"
  <2>1. cursor' = IF cursor = 0 THEN 1 ELSE cursor
    BY <1>1, <1>2, <1>7 DEF Verify, Gates
  <2> QED BY <1>2, <1>3, <1>4, <1>6, <1>7, <2>1 DEF CursorOK, IncidentInv
<1>8. CASE mode = "quick"
  <2>1. cursor' = cursor
    BY <1>1, <1>2, <1>8 DEF Verify
  <2> QED BY <1>2, <1>3, <1>4, <1>6, <1>8, <2>1 DEF CursorOK, IncidentInv
<1>9. CASE mode = "canary"
  <2>1. cursor' = IF cursor = 1 /\ Passed(mode, fit) THEN 2 ELSE cursor
    BY <1>1, <1>2, <1>9 DEF Verify, Gates
  <2> QED BY <1>2, <1>3, <1>4, <1>5, <1>9, <2>1 DEF CursorOK, IncidentInv
<1>10. CASE mode = "replay"
  <2>1. cursor' = IF cursor = 2 /\ Passed(mode, fit) THEN 3 ELSE cursor
    BY <1>1, <1>2, <1>10 DEF Verify, Gates
  <2> QED BY <1>2, <1>3, <1>4, <1>5, <1>10, <2>1 DEF CursorOK, IncidentInv
<1>11. CASE mode = "soak"
  <2>1. cursor' = IF cursor = 3 /\ Passed(mode, fit) THEN 4 ELSE cursor
    BY <1>1, <1>2, <1>11 DEF Verify, Gates
  <2> QED BY <1>2, <1>3, <1>4, <1>5, <1>11, <2>1 DEF CursorOK, IncidentInv
<1> QED BY <1>7, <1>8, <1>9, <1>10, <1>11 DEF VerificationModes

\* An action without a snapshot lowers the integrity for good: there is no
\* capture to return to, and later ones see the lower value.
LEMMA ActKeepsRecord ==
    ASSUME IncidentInv, NEW a \in DOMAIN Policy, NEW target \in Targets,
           NEW supported \in BOOLEAN, Act(a, target, supported)
    PROVE  DamageOK' /\ RecordOK'
<1> DEFINE b == snapshots # {}
<1>1. PICK cost \in Nat, risky \in BOOLEAN :
          /\ dataIntegrity' = GreaterOf(0, dataIntegrity - cost)
          /\ actions' = actions \cup
               {[action |-> a, risky |-> risky, dataCost |-> cost,
                 snapshotBefore |-> b]}
          /\ a \in Irreversible => risky
  BY ActEffects DEF IncidentInv
<1> DEFINE new == [action |-> a, risky |-> risky, dataCost |-> cost,
                   snapshotBefore |-> b]
<1>2. snapshots' = snapshots
  BY DEF Act, captures
<1>3. new.action = a /\ new.risky = risky /\ new.dataCost = cost
      /\ new.snapshotBefore = b
  OBVIOUS
<1>4. actions' = actions \cup {new}
  BY <1>1
<1>5. dataIntegrity \in 0..100 /\ \A r \in actions : r.dataCost \in Nat
  BY DEF IncidentInv, IncidentTypeOK, Record
<1>6. b \in BOOLEAN /\ (b <=> snapshots # {})
  OBVIOUS
<1>7. tokenUsed' = (tokenUsed \/ a \in Irreversible)
  BY DEF Act
<1> HIDE DEF new, b
<1>8. DamageOK'
  <2>1. \A r \in actions : ~r.snapshotBefore =>
            dataIntegrity' <= GreaterOf(0, 100 - r.dataCost)
    BY <1>1, <1>5 DEF IncidentInv, DamageOK, GreaterOf
  <2>2. dataIntegrity' <= GreaterOf(0, 100 - cost)
    BY <1>1, <1>5 DEF GreaterOf
  <2>3. \A r \in actions, s \in snapshots : ~r.snapshotBefore =>
            s.dataIntegrity <= GreaterOf(0, 100 - r.dataCost)
    BY DEF IncidentInv, DamageOK
  <2> QED BY <1>2, <1>3, <1>4, <1>6, <2>1, <2>2, <2>3 DEF DamageOK
<1>9. RecordOK'
  <2>1. \A r \in actions' : r.action \in Irreversible => r.risky
    BY <1>1, <1>3, <1>4 DEF IncidentInv, RecordOK
  <2>2. \A r \in actions' : r.snapshotBefore => snapshots' # {}
    BY <1>2, <1>3, <1>4, <1>6 DEF IncidentInv, RecordOK
  <2>3. tokenUsed' => \E r \in actions' : r.action \in Irreversible
    BY <1>3, <1>4, <1>7 DEF IncidentInv, RecordOK
  <2> QED BY <2>1, <2>2, <2>3 DEF RecordOK
<1> QED BY <1>8, <1>9

\* A rollback returns to a capture, which is no better than early damage.
LEMMA RollbackKeepsRecord ==
    ASSUME IncidentInv, NEW snapshot \in snapshots, Rollback(snapshot)
    PROVE  DamageOK' /\ RecordOK'
<1>1. /\ actions \subseteq actions'
      /\ \A r \in actions' \ actions :
            r.action \notin Irreversible /\ r.snapshotBefore
  BY RollbackTyped DEF IncidentInv, IncidentTypeOK
<1>2. snapshots' = snapshots /\ tokenUsed' = tokenUsed
      /\ dataIntegrity' = snapshot.dataIntegrity
  BY DEF Rollback, captures
<1>3. DamageOK'
  BY <1>1, <1>2 DEF IncidentInv, DamageOK
<1>4. RecordOK'
  <2>1. \A r \in actions' : r.action \in Irreversible => r.risky
    BY <1>1 DEF IncidentInv, RecordOK
  <2>2. snapshots' # {}
    BY <1>2
  <2> QED BY <1>1, <1>2, <2>1, <2>2 DEF IncidentInv, RecordOK
<1> QED BY <1>3, <1>4

\* A snapshot captures what there is.
LEMMA SnapshotKeepsRecord ==
    ASSUME IncidentInv, Snapshot
    PROVE  DamageOK' /\ RecordOK'
<1> DEFINE new == [risk |-> risk, dataIntegrity |-> dataIntegrity,
                   mitigations |-> mitigations]
<1>1. new.dataIntegrity = dataIntegrity
  OBVIOUS
<1>2. snapshots' = snapshots \cup {new}
  BY DEF Snapshot
<1>3. UNCHANGED <<actions, tokenUsed, dataIntegrity>>
  BY DEF Snapshot, service, ledger
<1> HIDE DEF new
<1> QED BY <1>1, <1>2, <1>3 DEF IncidentInv, DamageOK, RecordOK

(* The inductive invariant of the replay (IncidentDirector as a whole): the*)
(* cursor follows the gates, early damage binds every capture, the record  *)
(* remembers the token.                                                    *)
THEOREM IncidentInvariant == IncidentSpec => []IncidentInv
<1>1. IncidentInit => CursorOK /\ DamageOK /\ RecordOK
  BY DEF IncidentInit, CursorOK, DamageOK, RecordOK, HasPassed
<1>2. IncidentInv /\ IncidentTypeOK' /\ [IncidentNext]_incidentVars => IncidentInv'
  <2> SUFFICES ASSUME IncidentInv, IncidentTypeOK', [IncidentNext]_incidentVars
               PROVE  CursorOK' /\ DamageOK' /\ RecordOK'
    BY DEF IncidentInv
  <2>1. UNCHANGED <<attempted, cursor, passes>> => CursorOK'
    BY DEF IncidentInv, CursorOK, HasPassed
  <2>2. UNCHANGED <<service, ledger, captures>> => DamageOK' /\ RecordOK'
    BY DEF IncidentInv, DamageOK, RecordOK, service, ledger, captures
  <2>3. CASE Snapshot
    BY <2>1, <2>3, SnapshotKeepsRecord DEF Snapshot, gates
  <2>4. CASE \E a \in Catalogue, target \in Targets, supported \in BOOLEAN :
                Act(a, target, supported)
    <3>1. PICK a \in DOMAIN Policy, target \in Targets, supported \in BOOLEAN :
                Act(a, target, supported)
      BY <2>4, PlanAssumption
    <3> QED BY <2>1, <3>1, ActKeepsRecord DEF Act, gates
  <2>5. CASE \E snapshot \in snapshots : Rollback(snapshot)
    BY <2>1, <2>5, RollbackKeepsRecord DEF Rollback, gates
  <2>6. CASE \E mode \in AskedModes, fit \in BOOLEAN : Verify(mode, fit)
    <3>1. PICK mode \in VerificationModes, fit \in BOOLEAN : Verify(mode, fit)
      BY <2>6, PlanAssumption
    <3> QED BY <2>2, <3>1, VerifyKeepsCursor DEF Verify
  <2>7. CASE \/ OtherCall \/ UNCHANGED incidentVars
             \/ \E view \in Views : Observe(view)
             \/ \E ticket \in Tickets : Decide(ticket)
    BY <2>1, <2>2, <2>7
       DEF OtherCall, Observe, Decide, incidentVars, gates, service, ledger, captures
  <2> QED BY <2>3, <2>4, <2>5, <2>6, <2>7 DEF IncidentNext
<1> QED BY <1>1, <1>2, TypeCorrect, PTL DEF IncidentSpec, IncidentInv

(* The two computations of the order of the verifications agree            *)
(* (_verification_sequence_satisfied, _verify).                            *)
THEOREM SequenceTheorem == IncidentSpec => []SequenceFollowsGates
<1>1. IncidentInv => SequenceFollowsGates
  BY DEF IncidentInv, IncidentTypeOK, CursorOK, SequenceFollowsGates, GatesComplete,
     Gates, Sequence
<1> QED BY <1>1, IncidentInvariant, PTL

(* No sequence of snapshots and rollbacks brings back what an action taken *)
(* without a snapshot has cost (_snapshot, _action, _rollback).            *)
THEOREM DamageTheorem == IncidentSpec => []EarlyDamageIsPermanent
<1>1. IncidentInv => EarlyDamageIsPermanent
  BY DEF IncidentInv, DamageOK, EarlyDamageIsPermanent
<1> QED BY <1>1, IncidentInvariant, PTL

(* An investigation that may end has spent its token with a snapshot in    *)
(* hand (completion_gaps, _action, _rollback).                             *)
THEOREM GuardedTheorem == IncidentSpec => []CompleteMeansGuarded
<1>1. IncidentInv => CompleteMeansGuarded
  BY DEF IncidentInv, RecordOK, IncidentComplete, CompleteMeansGuarded
<1> QED BY <1>1, IncidentInvariant, PTL

-----------------------------------------------------------------------------
(* The replay implements the ladder of gates, with the canary at its foot  *)
(* (_verify, advance).                                                     *)
THEOREM ImplementsLadder == IncidentSpec => LadderSpec
<1> DEFINE ladder == <<"canary", "replay", "soak">>
           mapped == {[gate |-> p.mode, tick |-> p.tick] : p \in passes}
<1>1. IncidentInit => Climbed!Init
  BY DEF IncidentInit, Climbed!Init
<1>2. IncidentTypeOK /\ [IncidentNext]_incidentVars => [Climbed!Next]_<<tick, mapped>>
  <2> SUFFICES ASSUME IncidentTypeOK, [IncidentNext]_incidentVars PROVE [Climbed!Next]_<<tick, mapped>>
    OBVIOUS
  <2>1. tick' \in {tick, tick + 1}
    <3>1. Advance \/ tick' = tick
      BY DEF IncidentNext, OtherCall, Observe, Decide, Snapshot, Act, Rollback, Verify,
             incidentVars, clock
    <3> QED BY <3>1, AdvanceKeepsTime
  <2>2. CASE passes' = passes
    BY <2>1, <2>2 DEF Climbed!Next, Climbed!Wait, Climbed!TimePasses
  <2>3. CASE passes' # passes
    <3>1. PICK mode \in VerificationModes, fit \in BOOLEAN : Verify(mode, fit)
      BY <2>3, PlanAssumption
         DEF IncidentNext, OtherCall, Observe, Decide, Snapshot, Act, Rollback, incidentVars, gates
    <3>2. /\ Passed(mode, fit)
          /\ passes' = passes \cup {[mode |-> mode, tick |-> tick]}
      BY <2>3, <3>1 DEF Verify
    <3>3. mapped' = mapped \cup {[gate |-> mode, tick |-> tick]}
      <4> DEFINE image(p) == [gate |-> p.mode, tick |-> p.tick]
                 pass == [mode |-> mode, tick |-> tick]
      <4>1. image(pass) = [gate |-> mode, tick |-> tick]
        OBVIOUS
      <4>2. passes' = passes \cup {pass}
        BY <3>2
      <4> HIDE DEF image, pass
      <4>3. {image(p) : p \in passes'} = {image(p) : p \in passes} \cup {image(pass)}
        BY <4>2
      <4> QED BY <4>1, <4>3 DEF image
    <3>4. \A below \in Gates : \A n :
             Aged(below, n) => \E q \in mapped : q.gate = below /\ tick - q.tick >= n
      <4> SUFFICES ASSUME NEW below \in Gates, NEW n, Aged(below, n)
                   PROVE  \E q \in mapped : q.gate = below /\ tick - q.tick >= n
        OBVIOUS
      <4>1. PICK p \in passes : p.mode = below /\ tick - p.tick >= n
        BY DEF Aged, HasPassed
      <4> DEFINE rung == [gate |-> p.mode, tick |-> p.tick]
      <4>2. rung \in mapped /\ rung.gate = p.mode /\ rung.tick = p.tick
        OBVIOUS
      <4> HIDE DEF rung, mapped
      <4> QED BY <4>1, <4>2
    <3>5. Len(ladder) = 3
      OBVIOUS
    <3> HIDE DEF mapped
    <3>6. CASE mode = "canary"
      <4>1. Climbed!Climb(1)
        BY <2>1, <3>3, <3>6 DEF Climbed!Climb, Climbed!TimePasses, mapped
      <4> QED BY <3>5, <4>1 DEF Climbed!Next
    <3>7. CASE mode = "replay"
      <4>1. \E q \in mapped : q.gate = "canary" /\ tick - q.tick >= ReplayAfter
        BY <3>2, <3>4, <3>7 DEF Passed, Gates
      <4>2. Climbed!Climb(2)
        BY <2>1, <3>3, <3>7, <4>1 DEF Climbed!Climb, Climbed!TimePasses, mapped
      <4> QED BY <3>5, <4>2 DEF Climbed!Next
    <3>8. CASE mode = "soak"
      <4>1. \E q \in mapped : q.gate = "replay" /\ tick - q.tick >= SoakAfter
        BY <3>2, <3>4, <3>8 DEF Passed, Gates
      <4>2. Climbed!Climb(3)
        BY <2>1, <3>3, <3>8, <4>1 DEF Climbed!Climb, Climbed!TimePasses, mapped
      <4> QED BY <3>5, <4>2 DEF Climbed!Next
    <3> QED BY <3>2, <3>6, <3>7, <3>8 DEF Passed
  <2> QED BY <2>2, <2>3
<1> QED BY <1>1, <1>2, TypeCorrect, PTL DEF IncidentSpec, LadderSpec, Climbed!Spec
=============================================================================
