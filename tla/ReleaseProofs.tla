---------------------------- MODULE ReleaseProofs ----------------------------
(***************************************************************************)
(* Theorems about ReleaseDirector for every plan: any horizon, ages,       *)
(* budgets, tickets and catalogue.                                         *)
(***************************************************************************)
EXTENDS ReleaseDirector, TLAPS

\* A deployment other than the counterfeit one has spent the token.
TokenOK ==
    deployment # Bad =>
        /\ tokenUsed
        /\ \E r \in actions : r.action \in {"promote_digest", "rollback_to_digest"}

\* Once a gate has passed, nothing it looked at can change for the worse.
PassOK ==
    passes # {} =>
        /\ Recovered
        /\ SnapshotFirst
        /\ \A p \in passes : p.digest = deployment /\ p.tick <= tick

\* Every pass rests on an earlier one of the gate before.
ChainOK ==
    /\ \A c \in passes : c.mode = "canary" =>
          \E p \in passes : p.mode = "provenance" /\ p.tick <= c.tick
    /\ \A r \in passes : r.mode = "replay" =>
          \E c \in passes : c.mode = "canary" /\ c.tick + ReplayAfter <= r.tick
    /\ \A s \in passes : s.mode = "soak" =>
          /\ s.tick >= SoakMin
          /\ \E r \in passes : r.mode = "replay" /\ r.tick + SoakAfter <= s.tick

FlagOK == recoveryVerified <=> HasPassed("soak")

ReleaseInv == TypeOK /\ TokenOK /\ PassOK /\ ChainOK /\ FlagOK

-----------------------------------------------------------------------------
\* The clock never runs back and never passes the horizon.
LEMMA AdvanceKeepsTime ==
    ASSUME TypeOK, Advance
    PROVE  /\ tick' \in 0..Horizon
           /\ tick <= tick'
           /\ activated' \subseteq Tickets
  BY PlanAssumption, SMTT(30) DEF TypeOK, Advance, Least

\* An action leaves the ledger typed and spends something only.
LEMMA ChargeTyped ==
    ASSUME TypeOK, NEW a \in Actions, Charge(a)
    PROVE  /\ integrity' \in 0..100
           /\ integrity' <= integrity
           /\ tokenUsed' \in BOOLEAN
           /\ actionBudget' \in 0..ActionBudget
           /\ actions' \subseteq Record
           /\ actions \subseteq actions'
<1>1. Cost[a] \in Nat
  BY DEF Cost, Actions
<1>2. /\ integrity' \in 0..100
      /\ integrity' <= integrity
  <2>1. PICK extra \in {0, 8} : integrity' = Most(0, integrity - Cost[a] - extra)
    BY DEF Charge
  <2>2. integrity \in 0..100
    BY DEF TypeOK
  <2> QED BY <1>1, <2>1, <2>2 DEF Most
<1>3. tokenUsed' \in BOOLEAN
  BY DEF TypeOK, Charge
<1>4. actionBudget' \in 0..ActionBudget
  BY PlanAssumption DEF TypeOK, Charge
<1>5. actions' \subseteq Record /\ actions \subseteq actions'
  <2> DEFINE b == snapshots > 0
  <2>1. b \in BOOLEAN
    BY DEF TypeOK
  <2>2. actions' = actions \cup {[action |-> a, snapshotBefore |-> b]}
    BY DEF Charge
  <2> HIDE DEF b
  <2> QED BY <2>1, <2>2 DEF TypeOK, Record
<1> QED BY <1>2, <1>3, <1>4, <1>5

\* What release_action leaves alone, and the entry of the catalogue it charges.
LEMMA ActCharges ==
    ASSUME Act
    PROVE  /\ \E a \in Actions : Charge(a)
           /\ Advance
           /\ UNCHANGED <<findings, gates, snapshotBudget, snapshots>>
           /\ paused => paused'
           /\ quarantined \subseteq quarantined'
<1>1. {"preserve_evidence", "pause_rollout", "quarantine_digest",
       "clean_rebuild", "promote_digest", "rollback_to_digest",
       "retag_in_place", "clear_shared_cache", "disable_signature_policy",
       "patch_source"} \subseteq Actions
  BY DEF Actions, Cost
<1>2. CASE PauseRollout
  BY <1>1, <1>2 DEF PauseRollout, capacity, findings, gates
<1>3. CASE \E digest \in artifacts : QuarantineDigest(digest)
  BY <1>1, <1>3 DEF QuarantineDigest, capacity, findings, gates
<1>4. CASE \E digest \in artifacts, a \in {"promote_digest", "rollback_to_digest"} :
               Deploy(a, digest)
  BY <1>1, <1>4 DEF Deploy, containment, capacity, findings, gates
<1>5. CASE \E digest \in {Clean, Wrong} : CleanRebuild(digest)
  BY <1>1, <1>5 DEF CleanRebuild, containment, findings, gates
<1>6. CASE \E a \in {"preserve_evidence", "retag_in_place", "clear_shared_cache",
                     "disable_signature_policy", "patch_source"} : CostOnly(a)
  BY <1>1, <1>6 DEF CostOnly, containment, capacity, findings, gates
<1> QED BY <1>2, <1>3, <1>4, <1>5, <1>6 DEF Act

\* The parts of the state only release_action writes stay typed.
LEMMA ActTyped ==
    ASSUME TypeOK, Act
    PROVE  /\ artifacts' \subseteq Digests
           /\ deployment' \in artifacts'
           /\ paused' \in BOOLEAN
           /\ quarantined' \subseteq artifacts'
           /\ rebuildBudget' \in 0..RebuildBudget
<1>1. CASE PauseRollout
  BY <1>1 DEF PauseRollout, TypeOK, registry, capacity
<1>2. CASE \E digest \in artifacts : QuarantineDigest(digest)
  BY <1>2 DEF QuarantineDigest, TypeOK, registry, capacity
<1>3. CASE \E digest \in artifacts, a \in {"promote_digest", "rollback_to_digest"} :
               Deploy(a, digest)
  BY <1>3 DEF Deploy, TypeOK, containment, capacity
<1>4. CASE \E digest \in {Clean, Wrong} : CleanRebuild(digest)
  BY <1>4, PlanAssumption, SMTT(30) DEF CleanRebuild, TypeOK, Digests, containment
<1>5. CASE \E a \in {"preserve_evidence", "retag_in_place", "clear_shared_cache",
                     "disable_signature_policy", "patch_source"} : CostOnly(a)
  BY <1>5 DEF CostOnly, TypeOK, registry, containment, capacity
<1> QED BY <1>1, <1>2, <1>3, <1>4, <1>5 DEF Act

\* What a verification writes stays typed.
LEMMA VerifyTyped ==
    ASSUME TypeOK, NEW mode \in Modes, Verify(mode)
    PROVE  /\ attempted' \subseteq Modes
           /\ cursor' \in 0..Len(Sequence)
           /\ passes' \subseteq Pass
           /\ recoveryVerified' \in BOOLEAN
<1>1. attempted' \subseteq Modes
  BY DEF TypeOK, Verify
<1>2. Len(Sequence) = 5
  BY DEF Sequence
<1>3. cursor' \in 0..Len(Sequence)
  BY <1>2 DEF TypeOK, Verify
<1>4. deployment \in Digests
  BY DEF TypeOK
<1>5. passes' \subseteq Pass
  BY <1>4 DEF TypeOK, Verify, Pass
<1>6. recoveryVerified' \in BOOLEAN
  BY DEF TypeOK, Verify
<1> QED BY <1>1, <1>3, <1>5, <1>6

(* Every variable keeps its type: the clock stays within the horizon, no   *)
(* budget is overdrawn, what is deployed or quarantined is in the registry.*)
THEOREM TypeCorrect == Spec => []TypeOK
<1>1. Init => TypeOK
  <2>1. 0 \in 0..Len(Sequence)
    BY DEF Sequence
  <2> SUFFICES ASSUME Init PROVE TypeOK
    OBVIOUS
  <2>2. /\ paused \in BOOLEAN
        /\ tokenUsed \in BOOLEAN
        /\ recoveryVerified \in BOOLEAN
    BY DEF Init
  <2>3. /\ tick \in 0..Horizon
        /\ integrity \in 0..100
        /\ snapshotBudget \in 0..SnapshotBudget
        /\ rebuildBudget \in 0..RebuildBudget
        /\ actionBudget \in 0..ActionBudget
        /\ snapshots \in Nat
    BY PlanAssumption DEF Init
  <2>4. /\ artifacts \subseteq Digests
        /\ deployment \in artifacts
        /\ quarantined \subseteq artifacts
    BY DEF Init, Digests
  <2> QED BY <2>1, <2>2, <2>3, <2>4 DEF Init, TypeOK
<1>2. TypeOK /\ [Next]_vars => TypeOK'
  <2> SUFFICES ASSUME TypeOK, [Next]_vars PROVE TypeOK'
    OBVIOUS
  <2> USE DEF vars, clock, registry, containment, ledger, capacity, findings, gates
  <2>1. CASE OtherCall
    BY <2>1, AdvanceKeepsTime DEF OtherCall, TypeOK
  <2>2. CASE \E view \in Views : Observe(view)
    BY <2>2, AdvanceKeepsTime DEF Observe, TypeOK
  <2>3. CASE \E ticket \in Tickets : Decide(ticket)
    BY <2>3, AdvanceKeepsTime DEF Decide, TypeOK
  <2>4. CASE Snapshot
    <3>1. tick' \in 0..Horizon /\ activated' \subseteq Tickets
      BY <2>4, AdvanceKeepsTime DEF Snapshot
    <3>2. snapshotBudget' \in 0..SnapshotBudget
      BY <2>4, PlanAssumption, SMTT(30) DEF Snapshot, TypeOK
    <3>3. snapshots' \in Nat
      BY <2>4, PlanAssumption DEF Snapshot, TypeOK
    <3> QED BY <2>4, <3>1, <3>2, <3>3 DEF Snapshot, TypeOK
  <2>5. CASE Act
    <3>1. tick' \in 0..Horizon /\ activated' \subseteq Tickets
      BY <2>5, ActCharges, AdvanceKeepsTime
    <3>2. UNCHANGED <<findings, gates, snapshotBudget, snapshots>>
      BY <2>5, ActCharges
    <3>3. /\ integrity' \in 0..100
          /\ tokenUsed' \in BOOLEAN
          /\ actionBudget' \in 0..ActionBudget
          /\ actions' \subseteq Record
      BY <2>5, ActCharges, ChargeTyped
    <3> QED BY <2>5, <3>1, <3>2, <3>3, ActTyped DEF TypeOK
  <2>6. CASE \E mode \in Checks : Verify(mode)
    <3>1. PICK mode \in Modes : Verify(mode)
      BY <2>6, CandidateAssumption
    <3>2. tick' \in 0..Horizon /\ activated' \subseteq Tickets
      BY <3>1, AdvanceKeepsTime DEF Verify
    <3> QED BY <3>1, <3>2, VerifyTyped DEF Verify, TypeOK
  <2>7. CASE UNCHANGED vars
    BY <2>7 DEF TypeOK
  <2> QED BY <2>1, <2>2, <2>3, <2>4, <2>5, <2>6, <2>7 DEF Next
<1> QED BY <1>1, <1>2, PTL DEF Spec

-----------------------------------------------------------------------------
(* A step that leaves the verdict of the gates alone: no gate is passed,   *)
(* the flag stays, the deployment and the safety of the actions hold if a  *)
(* gate has passed.                                                        *)
Harmless ==
    /\ UNCHANGED <<passes, recoveryVerified>>
    /\ tick <= tick'
    /\ actions \subseteq actions'
    /\ deployment' # deployment => ~tokenUsed
    /\ deployment' # Bad => deployment' = deployment \/
          (tokenUsed' /\ \E r \in actions' :
               r.action \in {"promote_digest", "rollback_to_digest"})
    /\ tokenUsed => tokenUsed'
    /\ paused => paused'
    /\ quarantined \subseteq quarantined'
    /\ tokenUsed /\ SnapshotFirst => SnapshotFirst'

\* An action of release_action is harmless: the token is asked for.
LEMMA ChargeSafe ==
    ASSUME NEW a \in Actions, Charge(a)
    PROVE  /\ tokenUsed => tokenUsed'
           /\ actions \subseteq actions'
           /\ \E r \in actions' : r.action = a
           /\ a \in Irreversible => ~tokenUsed /\ tokenUsed'
           /\ tokenUsed /\ SnapshotFirst => SnapshotFirst'
<1>1. tokenUsed => tokenUsed'
  BY DEF Charge
<1>2. actions \subseteq actions'
  BY DEF Charge
<1>3. \E r \in actions' : r.action = a
  <2> DEFINE record == [action |-> a, snapshotBefore |-> snapshots > 0]
  <2>1. record \in actions'
    BY DEF Charge
  <2>2. record.action = a
    OBVIOUS
  <2> HIDE DEF record
  <2> QED BY <2>1, <2>2
<1>4. a \in Irreversible => ~tokenUsed /\ tokenUsed'
  BY DEF Charge
<1>5. tokenUsed /\ SnapshotFirst => SnapshotFirst'
  <2> DEFINE b == snapshots > 0
  <2>1. actions' = actions \cup {[action |-> a, snapshotBefore |-> b]}
    BY DEF Charge
  <2> HIDE DEF b
  <2> QED BY <1>4, <2>1 DEF SnapshotFirst
<1> QED BY <1>1, <1>2, <1>3, <1>4, <1>5

LEMMA ActHarmless ==
    ASSUME TypeOK, Act
    PROVE  Harmless
<1>1. /\ UNCHANGED <<passes, recoveryVerified>>
      /\ paused => paused'
      /\ quarantined \subseteq quarantined'
      /\ Advance
  BY ActCharges DEF gates
<1>2. tick <= tick'
  BY <1>1, AdvanceKeepsTime
<1>3. /\ tokenUsed => tokenUsed'
      /\ actions \subseteq actions'
      /\ tokenUsed /\ SnapshotFirst => SnapshotFirst'
  BY ActCharges, ChargeSafe
<1>4. /\ deployment' # deployment => ~tokenUsed
      /\ deployment' # Bad => deployment' = deployment \/
            (tokenUsed' /\ \E r \in actions' :
                 r.action \in {"promote_digest", "rollback_to_digest"})
  <2>1. CASE UNCHANGED deployment
    BY <2>1
  <2>2. CASE \E digest \in artifacts, a \in {"promote_digest", "rollback_to_digest"} :
                 Deploy(a, digest)
    <3>1. PICK digest \in artifacts, a \in {"promote_digest", "rollback_to_digest"} :
                 Deploy(a, digest)
      BY <2>2
    <3>2. a \in Actions /\ a \in Irreversible
      BY DEF Actions, Cost, Irreversible
    <3> QED BY <3>1, <3>2, ChargeSafe DEF Deploy
  <2> QED BY <2>1, <2>2
        DEF Act, PauseRollout, QuarantineDigest, CleanRebuild, CostOnly, registry
<1> QED BY <1>1, <1>2, <1>3, <1>4 DEF Harmless

\* So are the steps that neither act nor verify.
LEMMA OthersHarmless ==
    ASSUME TypeOK,
           \/ OtherCall
           \/ \E view \in Views : Observe(view)
           \/ \E ticket \in Tickets : Decide(ticket)
           \/ Snapshot
           \/ UNCHANGED vars
    PROVE  Harmless
<1>1. tick \in 0..Horizon
  BY DEF TypeOK
<1>2. tick <= tick'
  BY <1>1, AdvanceKeepsTime
     DEF OtherCall, Observe, Decide, Snapshot, vars, clock
<1>3. UNCHANGED <<passes, recoveryVerified, actions, deployment, tokenUsed,
                  paused, quarantined>>
  BY DEF OtherCall, Observe, Decide, Snapshot, vars, registry, containment,
         ledger, gates
<1> QED BY <1>2, <1>3 DEF Harmless, SnapshotFirst

\* Harmless steps preserve the invariant: a gate that has passed means the
\* deployment is no longer the counterfeit one, so the token is gone.
LEMMA HarmlessPreserves ==
    ASSUME ReleaseInv, TypeOK', Harmless
    PROVE  TokenOK' /\ PassOK' /\ ChainOK' /\ FlagOK'
<1>1. TokenOK'
  <2> SUFFICES ASSUME deployment' # Bad
               PROVE  /\ tokenUsed'
                      /\ \E r \in actions' :
                            r.action \in {"promote_digest", "rollback_to_digest"}
    BY DEF TokenOK
  <2>1. CASE deployment' = deployment
    BY <2>1 DEF ReleaseInv, TokenOK, Harmless
  <2>2. CASE deployment' # deployment
    BY <2>2 DEF Harmless
  <2> QED BY <2>1, <2>2
<1>2. PassOK'
  <2> SUFFICES ASSUME passes # {}
               PROVE  /\ Recovered'
                      /\ SnapshotFirst'
                      /\ \A p \in passes : p.digest = deployment' /\ p.tick <= tick'
    BY DEF PassOK, Harmless
  <2>1. /\ Recovered
        /\ SnapshotFirst
        /\ \A p \in passes : p.digest = deployment /\ p.tick <= tick
    BY DEF ReleaseInv, PassOK
  <2>2. tokenUsed
    BY <2>1, DigestsAssumption DEF ReleaseInv, TokenOK, Recovered
  <2>3. deployment' = deployment
    BY <2>2 DEF Harmless
  <2>4. Recovered' /\ SnapshotFirst'
    BY <2>1, <2>2, <2>3 DEF Recovered, Contained, Harmless
  <2>5. \A p \in passes : p.tick \in Int
    BY PlanAssumption, SMTT(30) DEF ReleaseInv, TypeOK, Pass
  <2>6. tick \in Int /\ tick' \in Int /\ tick <= tick'
    BY DEF ReleaseInv, TypeOK, Harmless
  <2> QED BY <2>1, <2>3, <2>4, <2>5, <2>6
<1>3. ChainOK'
  BY DEF ReleaseInv, ChainOK, Harmless
<1>4. FlagOK'
  BY DEF ReleaseInv, FlagOK, HasPassed, Harmless
<1> QED BY <1>1, <1>2, <1>3, <1>4

-----------------------------------------------------------------------------
\* What a verification adds, if it adds anything, and on what it rests.
LEMMA VerifyAdds ==
    ASSUME NEW mode \in Modes, Verify(mode), passes' # passes
    PROVE  /\ mode \in Gates
           /\ Passed(mode)
           /\ passes' = passes \cup
                 {[mode |-> mode, tick |-> tick, digest |-> deployment]}
  BY DEF Verify

LEMMA VerifyPreserves ==
    ASSUME ReleaseInv, TypeOK', NEW mode \in Modes, Verify(mode)
    PROVE  TokenOK' /\ PassOK' /\ ChainOK' /\ FlagOK'
<1> DEFINE new == [mode |-> mode, tick |-> tick, digest |-> deployment]
<1>1. UNCHANGED <<deployment, paused, quarantined, actions, tokenUsed>>
  BY DEF Verify, registry, containment, ledger
<1>2. /\ tick \in Int /\ tick' \in Int /\ tick <= tick'
      /\ \A p \in passes : p.tick \in Int
      /\ {ReplayAfter, SoakAfter, SoakMin} \subseteq Int
  <2>1. TypeOK /\ Advance
    BY DEF ReleaseInv, Verify
  <2>2. tick \in 0..Horizon /\ tick' \in 0..Horizon /\ tick <= tick'
    BY <2>1, AdvanceKeepsTime DEF TypeOK
  <2>3. \A p \in passes : p.tick \in 0..Horizon
    BY <2>1 DEF TypeOK, Pass
  <2>4. {Horizon, ReplayAfter, SoakAfter, SoakMin} \subseteq Int
    BY PlanAssumption
  <2> QED BY <2>2, <2>3, <2>4
<1>3. TokenOK'
  BY <1>1 DEF ReleaseInv, TokenOK
<1>4. FlagOK'
  <2>1. CASE mode = "soak" /\ Passed(mode)
    <3>1. new \in passes' /\ new.mode = "soak"
      BY <2>1 DEF Verify, Gates
    <3>2. recoveryVerified'
      BY <2>1 DEF Verify
    <3> QED BY <3>1, <3>2 DEF FlagOK, HasPassed
  <2>2. CASE ~(mode = "soak" /\ Passed(mode))
    <3>1. recoveryVerified' <=> recoveryVerified
      BY <2>2 DEF Verify
    <3>2. HasPassed("soak")' <=> HasPassed("soak")
      BY <2>2 DEF Verify, HasPassed
    <3> QED BY <3>1, <3>2 DEF ReleaseInv, FlagOK
  <2> QED BY <2>1, <2>2
<1>5. CASE passes' = passes
  <2>1. PassOK'
    BY <1>1, <1>2, <1>5
       DEF ReleaseInv, PassOK, Recovered, Contained, SnapshotFirst
  <2>2. ChainOK'
    BY <1>5 DEF ReleaseInv, ChainOK
  <2> QED BY <1>3, <1>4, <2>1, <2>2
<1>6. CASE passes' # passes
  <2>1. mode \in Gates /\ Passed(mode) /\ passes' = passes \cup {new}
    BY <1>6, VerifyAdds
  <2>2. PassOK'
    <3>1. Recovered /\ SnapshotFirst
      <4>1. CASE passes # {}
        BY <4>1 DEF ReleaseInv, PassOK
      <4>2. CASE passes = {}
        BY <2>1, <4>2 DEF Passed, Gates, Aged, HasPassed
      <4> QED BY <4>1, <4>2
    <3>2. \A p \in passes' : p.digest = deployment /\ p.tick <= tick
      BY <1>2, <2>1 DEF ReleaseInv, PassOK
    <3>3. \A p \in passes' : p.tick \in Int
      BY <1>2, <2>1
    <3> QED BY <1>1, <1>2, <3>1, <3>2, <3>3
            DEF PassOK, Recovered, Contained, SnapshotFirst
  <2>3. ChainOK'
    <3>1. \A c \in passes' : c.mode = "canary" =>
             \E p \in passes' : p.mode = "provenance" /\ p.tick <= c.tick
      <4>1. CASE mode = "canary"
        <5>1. \E p \in passes : p.mode = "provenance" /\ p.tick <= tick
          BY <2>1, <4>1 DEF Passed, HasPassed, ReleaseInv, PassOK
        <5> QED BY <2>1, <5>1 DEF ReleaseInv, ChainOK
      <4>2. CASE mode # "canary"
        BY <2>1, <4>2 DEF ReleaseInv, ChainOK
      <4> QED BY <4>1, <4>2
    <3>2. \A r \in passes' : r.mode = "replay" =>
             \E c \in passes' : c.mode = "canary" /\ c.tick + ReplayAfter <= r.tick
      <4>1. CASE mode = "replay"
        <5>1. \E c \in passes : c.mode = "canary" /\ c.tick + ReplayAfter <= tick
          BY <1>2, <2>1, <4>1 DEF Passed, Aged, HasPassed
        <5> QED BY <2>1, <5>1 DEF ReleaseInv, ChainOK
      <4>2. CASE mode # "replay"
        BY <2>1, <4>2 DEF ReleaseInv, ChainOK
      <4> QED BY <4>1, <4>2
    <3>3. \A s \in passes' : s.mode = "soak" =>
             /\ s.tick >= SoakMin
             /\ \E r \in passes' : r.mode = "replay" /\ r.tick + SoakAfter <= s.tick
      <4>1. CASE mode = "soak"
        <5>1. /\ tick >= SoakMin
              /\ \E r \in passes : r.mode = "replay" /\ r.tick + SoakAfter <= tick
          BY <1>2, <2>1, <4>1 DEF Passed, Aged, HasPassed
        <5> QED BY <2>1, <5>1 DEF ReleaseInv, ChainOK
      <4>2. CASE mode # "soak"
        BY <2>1, <4>2 DEF ReleaseInv, ChainOK
      <4> QED BY <4>1, <4>2
    <3> QED BY <3>1, <3>2, <3>3 DEF ChainOK
  <2> QED BY <1>3, <1>4, <2>2, <2>3
<1> QED BY <1>5, <1>6

-----------------------------------------------------------------------------
(* The inductive invariant of the replay (ReleaseDirector as a whole): a   *)
(* passed gate freezes what it looked at, and passes rest on one another.  *)
THEOREM ReleaseInvariant == Spec => []ReleaseInv
<1>1. Init => TokenOK /\ PassOK /\ ChainOK /\ FlagOK
  BY DEF Init, TokenOK, PassOK, ChainOK, FlagOK, HasPassed
<1>2. ReleaseInv /\ TypeOK' /\ [Next]_vars => ReleaseInv'
  <2> SUFFICES ASSUME ReleaseInv, TypeOK', [Next]_vars
               PROVE  TokenOK' /\ PassOK' /\ ChainOK' /\ FlagOK'
    BY DEF ReleaseInv
  <2>1. TypeOK
    BY DEF ReleaseInv
  <2>2. CASE Act
    BY <2>1, <2>2, ActHarmless, HarmlessPreserves
  <2>3. CASE \E mode \in Checks : Verify(mode)
    BY <2>3, VerifyPreserves, CandidateAssumption
  <2>4. CASE ~Act /\ ~\E mode \in Checks : Verify(mode)
    BY <2>1, <2>4, OthersHarmless, HarmlessPreserves DEF Next
  <2> QED BY <2>2, <2>3, <2>4
<1> QED BY <1>1, <1>2, TypeCorrect, PTL DEF Spec, ReleaseInv

(* A verified recovery rests on passes of the deployed digest in order and *)
(* of age (_verify).                                                       *)
THEOREM ChainTheorem == Spec => []VerifiedRestsOnChain
<1>1. ReleaseInv => VerifiedRestsOnChain
  <2> SUFFICES ASSUME ReleaseInv, recoveryVerified
               PROVE  \E p, c, r, s \in passes :
                        /\ p.mode = "provenance" /\ c.mode = "canary"
                        /\ r.mode = "replay" /\ s.mode = "soak"
                        /\ p.tick <= c.tick
                        /\ c.tick + ReplayAfter <= r.tick
                        /\ r.tick + SoakAfter <= s.tick
                        /\ s.tick >= SoakMin
                        /\ {p.digest, c.digest, r.digest, s.digest} \subseteq
                               Acceptable \cap {deployment}
    BY DEF VerifiedRestsOnChain
  <2>1. PICK s \in passes : s.mode = "soak"
    BY DEF ReleaseInv, FlagOK, HasPassed
  <2>2. PICK r \in passes : r.mode = "replay" /\ r.tick + SoakAfter <= s.tick
    BY <2>1 DEF ReleaseInv, ChainOK
  <2>3. PICK c \in passes : c.mode = "canary" /\ c.tick + ReplayAfter <= r.tick
    BY <2>2 DEF ReleaseInv, ChainOK
  <2>4. PICK p \in passes : p.mode = "provenance" /\ p.tick <= c.tick
    BY <2>3 DEF ReleaseInv, ChainOK
  <2>5. s.tick >= SoakMin
    BY <2>1 DEF ReleaseInv, ChainOK
  <2>6. {p.digest, c.digest, r.digest, s.digest} \subseteq
             Acceptable \cap {deployment}
    BY <2>1, <2>2, <2>3, <2>4 DEF ReleaseInv, PassOK, Recovered
  <2> QED BY <2>1, <2>2, <2>3, <2>4, <2>5, <2>6
<1> QED BY <1>1, ReleaseInvariant, PTL

(* What the audit calls verified is deployed, contained and was made with  *)
(* a snapshot behind it, in every later state (audit).                     *)
THEOREM VerifiedTheorem == Spec => []VerifiedStaysRecovered
<1>1. ReleaseInv => VerifiedStaysRecovered
  BY DigestsAssumption DEF ReleaseInv, VerifiedStaysRecovered, FlagOK, HasPassed,
     PassOK, TokenOK, Recovered
<1> QED BY <1>1, ReleaseInvariant, PTL

(* The contract the agent ends on implies the verdict the judge reads      *)
(* (completion_gaps, audit).                                               *)
THEOREM CompleteTheorem == Spec => []CompleteMeansVerified
<1>1. ReleaseInv => CompleteMeansVerified
  BY DEF ReleaseInv, CompleteMeansVerified, Complete, FlagOK, HasPassed, Gates,
     PassOK
<1> QED BY <1>1, ReleaseInvariant, PTL

-----------------------------------------------------------------------------
\* An attempt to disable the policy spends integrity while there is any.
LEMMA DenialSpends ==
    ASSUME TypeOK, Charge("disable_signature_policy"), integrity >= 90
    PROVE  integrity' < integrity
<1>1. Cost["disable_signature_policy"] = 20
  BY DEF Cost
<1>2. PICK extra \in {0, 8} :
          integrity' = Most(0, integrity - Cost["disable_signature_policy"] - extra)
  BY DEF Charge
<1>3. integrity \in 0..100
  BY DEF TypeOK
<1> QED BY <1>1, <1>2, <1>3 DEF Most

\* Only the refused action brings a denial, and it costs integrity.
LEMMA NewDenial ==
    ASSUME TypeOK, [Next]_vars, ~Denied, Denied', integrity >= 90
    PROVE  integrity' < integrity
<1>1. actions' # actions
  BY DEF Denied
<1>2. Act
  BY <1>1 DEF Next, OtherCall, Observe, Decide, Snapshot, Verify, vars, ledger
<1>3. PICK a \in Actions : Charge(a)
  BY <1>2, ActCharges
<1>4. a = "disable_signature_policy"
  <2> DEFINE b == snapshots > 0
  <2>1. actions' = actions \cup {[action |-> a, snapshotBefore |-> b]}
    BY <1>3 DEF Charge
  <2> HIDE DEF b
  <2> QED BY <2>1 DEF Denied
<1> QED BY <1>3, <1>4, DenialSpends

\* No step shortens the age of what has passed, or lowers integrity silently.
LEMMA TimeRuns ==
    ASSUME TypeOK, [Next]_vars
    PROVE  tick <= tick' /\ tick' \in Int /\ tick \in Int
<1>1. tick \in 0..Horizon
  BY DEF TypeOK
<1>2. CASE Act
  BY <1>1, <1>2, ActCharges, AdvanceKeepsTime
<1>3. CASE ~Act
  <2>1. Advance \/ tick' = tick
    BY <1>3 DEF Next, OtherCall, Observe, Decide, Snapshot, Verify, vars, clock
  <2> QED BY <1>1, <2>1, AdvanceKeepsTime
<1> QED BY <1>2, <1>3

(* A soak that would pass keeps passing unless the candidate repeats the   *)
(* replay or spends integrity (_verify, advance).                          *)
THEOREM ReadinessTheorem == Spec => ReadinessIsKept
<1>1. ASSUME ReleaseInv, ReleaseInv', [Next]_vars, Passed("soak"), ~Passed("soak")'
      PROVE  \/ \E p \in passes' \ passes : p.mode = "replay"
             \/ integrity' < integrity
  <2> SUFFICES ASSUME ~\E p \in passes' \ passes : p.mode = "replay"
               PROVE  integrity' < integrity
    OBVIOUS
  <2>1. TypeOK /\ TypeOK'
    BY <1>1 DEF ReleaseInv
  <2>2. /\ Aged("replay", SoakAfter) /\ tick >= SoakMin
        /\ integrity >= 90 /\ ~Denied
    BY <1>1 DEF Passed
  <2>3. passes \subseteq passes'
    <3>1. CASE Act
      BY <3>1, ActCharges DEF gates
    <3>2. CASE ~Act
      BY <1>1, <3>2
         DEF Next, OtherCall, Observe, Decide, Snapshot, Verify, vars, gates
    <3> QED BY <3>1, <3>2
  <2>4. Recovered'
    BY <1>1, <2>2, <2>3 DEF Aged, HasPassed, ReleaseInv, PassOK
  <2>5. tick <= tick' /\ tick \in Int /\ tick' \in Int
    BY <1>1, <2>1, TimeRuns
  <2>6. Aged("replay", SoakAfter)' /\ tick' >= SoakMin
    <3>1. {SoakAfter, SoakMin, Horizon} \subseteq Int
      BY PlanAssumption
    <3>2. \A p \in passes' : p.mode = "replay" => p \in passes
      OBVIOUS
    <3>3. \A p \in passes : p.tick \in Int
      <4>1. \A p \in passes : p.tick \in 0..Horizon
        BY <2>1 DEF TypeOK, Pass
      <4> QED BY <3>1, <4>1
    <3> QED BY <2>2, <2>3, <2>5, <3>1, <3>2, <3>3 DEF Aged, HasPassed
  <2>7. ~(integrity' >= 90) \/ Denied'
    BY <1>1, <2>4, <2>6 DEF Passed
  <2>8. CASE Denied'
    BY <1>1, <2>1, <2>2, <2>8, NewDenial
  <2>9. CASE ~(integrity' >= 90)
    BY <2>1, <2>2, <2>9 DEF TypeOK
  <2> QED BY <2>7, <2>8, <2>9
<1> QED BY <1>1, ReleaseInvariant, PTL DEF Spec, ReadinessIsKept

(* A replay that passes less than SoakAfter before the horizon settles the *)
(* verdict: the clock cannot make it old enough (_latest_passing, advance).*)
THEOREM LateReplayTheorem == Spec => LateReplayIsFinal
<1>1. ASSUME TypeOK, [Next]_vars,
             NEW p \in passes, p.mode = "replay", p.tick + SoakAfter > Horizon
      PROVE  recoveryVerified' = recoveryVerified
  <2>1. tick \in 0..Horizon /\ p.tick \in 0..Horizon
    BY <1>1 DEF TypeOK, Pass
  <2>2. ~Aged("replay", SoakAfter)
    BY <1>1, <2>1, PlanAssumption DEF Aged
  <2>3. ~Passed("soak")
    BY <2>2 DEF Passed
  <2>4. CASE Act
    BY <2>4, ActCharges DEF gates
  <2>5. CASE \E mode \in Checks : Verify(mode)
    <3>1. PICK mode \in Checks : Verify(mode)
      BY <2>5
    <3>2. ~(mode = "soak" /\ Passed(mode))
      BY <2>3
    <3>3. recoveryVerified \in BOOLEAN
      BY <1>1 DEF TypeOK
    <3> QED BY <3>1, <3>2, <3>3 DEF Verify
  <2>6. CASE ~Act /\ ~\E mode \in Checks : Verify(mode)
    BY <1>1, <2>6 DEF Next, OtherCall, Observe, Decide, Snapshot, vars, gates
  <2> QED BY <2>4, <2>5, <2>6
<1>2. TypeOK /\ [Next]_vars =>
        ((\E p \in passes : p.mode = "replay" /\ p.tick + SoakAfter > Horizon) =>
            recoveryVerified' = recoveryVerified)
  BY <1>1
<1> QED BY <1>2, TypeCorrect, PTL DEF Spec, LateReplayIsFinal

-----------------------------------------------------------------------------
\* The clock moves by at most one tick a call.
LEMMA OneTick ==
    ASSUME TypeOK, [Next]_vars
    PROVE  tick' \in {tick, tick + 1}
<1>1. tick \in 0..Horizon /\ Horizon \in Nat
  BY PlanAssumption DEF TypeOK
<1>2. Advance \/ tick' = tick
  <2>1. CASE Act
    BY <2>1, ActCharges
  <2>2. CASE ~Act
    BY <2>2 DEF Next, OtherCall, Observe, Decide, Snapshot, Verify, vars, clock
  <2> QED BY <2>1, <2>2
<1> QED BY <1>1, <1>2 DEF Advance, Least

(* The replay implements the ladder of gates: a pass climbs, every other   *)
(* call lets time pass (_verify, advance).                                 *)
THEOREM ImplementsLadder == Spec => LadderSpec
<1> DEFINE ladder == <<"provenance", "canary", "replay", "soak">>
           age == <<0, 0, ReplayAfter, SoakAfter>>
           mapped == {[gate |-> p.mode, tick |-> p.tick] : p \in passes}
<1>1. Init => Climbed!Init
  BY DEF Init, Climbed!Init
<1>2. ReleaseInv /\ [Next]_vars => [Climbed!Next]_<<tick, mapped>>
  <2> SUFFICES ASSUME ReleaseInv, [Next]_vars PROVE [Climbed!Next]_<<tick, mapped>>
    OBVIOUS
  <2>0. TypeOK
    BY DEF ReleaseInv
  <2>1. tick' \in {tick, tick + 1}
    BY <2>0, OneTick
  <2>2. CASE passes' = passes
    BY <2>1, <2>2 DEF Climbed!Next, Climbed!Wait, Climbed!TimePasses
  <2>3. CASE passes' # passes
    <3>1. PICK mode \in Modes : Verify(mode)
      <4>1. ~Act
        BY <2>3, ActCharges DEF gates
      <4> QED BY <2>3, <4>1, CandidateAssumption
              DEF Next, OtherCall, Observe, Decide, Snapshot, vars, gates
    <3>2. /\ mode \in Gates
          /\ Passed(mode)
          /\ passes' = passes \cup
                {[mode |-> mode, tick |-> tick, digest |-> deployment]}
      BY <2>3, <3>1, VerifyAdds
    <3>3. mapped' = mapped \cup {[gate |-> mode, tick |-> tick]}
      <4> DEFINE image(p) == [gate |-> p.mode, tick |-> p.tick]
                 pass == [mode |-> mode, tick |-> tick, digest |-> deployment]
      <4>1. image(pass) = [gate |-> mode, tick |-> tick]
        OBVIOUS
      <4>2. passes' = passes \cup {pass}
        BY <3>2
      <4> HIDE DEF image, pass
      <4>3. {image(p) : p \in passes'} = {image(p) : p \in passes} \cup {image(pass)}
        BY <4>2
      <4> QED BY <4>1, <4>3 DEF image
    <3>4. {ReplayAfter, SoakAfter} \subseteq Int /\ tick \in Int
          /\ \A p \in passes : p.tick \in Int
      <4>1. \A p \in passes : p.tick \in 0..Horizon
        BY <2>0 DEF TypeOK, Pass
      <4> QED BY <2>0, <4>1, PlanAssumption DEF TypeOK
    <3>5. \A below \in Gates : \A n \in Int :
             (\E p \in passes : p.mode = below /\ tick - p.tick >= n)
                => \E q \in mapped : q.gate = below /\ tick - q.tick >= n
      <4> SUFFICES ASSUME NEW below \in Gates, NEW n \in Int,
                          NEW p \in passes, p.mode = below, tick - p.tick >= n
                   PROVE  \E q \in mapped : q.gate = below /\ tick - q.tick >= n
        OBVIOUS
      <4> DEFINE rung == [gate |-> p.mode, tick |-> p.tick]
      <4>1. rung \in mapped /\ rung.gate = p.mode /\ rung.tick = p.tick
        OBVIOUS
      <4> HIDE DEF rung, mapped
      <4> QED BY <4>1
    <3>6. Len(ladder) = 4
      OBVIOUS
    <3> HIDE DEF mapped
    <3>7. CASE mode = "provenance"
      <4>1. Climbed!Climb(1)
        BY <2>1, <3>3, <3>7 DEF Climbed!Climb, Climbed!TimePasses, mapped
      <4> QED BY <3>6, <4>1 DEF Climbed!Next
    <3>8. CASE mode = "canary"
      <4>1. \E p \in passes : p.mode = "provenance" /\ tick - p.tick >= 0
        BY <3>2, <3>4, <3>8 DEF Passed, Aged, HasPassed, ReleaseInv, PassOK
      <4>2. \E q \in mapped : q.gate = "provenance" /\ tick - q.tick >= 0
        BY <3>4, <3>5, <4>1 DEF Gates
      <4>3. Climbed!Climb(2)
        BY <2>1, <3>3, <3>8, <4>2 DEF Climbed!Climb, Climbed!TimePasses, mapped
      <4> QED BY <3>6, <4>3 DEF Climbed!Next
    <3>9. CASE mode = "replay"
      <4>1. \E p \in passes : p.mode = "canary" /\ tick - p.tick >= ReplayAfter
        BY <3>2, <3>4, <3>9 DEF Passed, Aged, HasPassed
      <4>2. \E q \in mapped : q.gate = "canary" /\ tick - q.tick >= ReplayAfter
        BY <3>4, <3>5, <4>1 DEF Gates
      <4>3. Climbed!Climb(3)
        BY <2>1, <3>3, <3>9, <4>2 DEF Climbed!Climb, Climbed!TimePasses, mapped
      <4> QED BY <3>6, <4>3 DEF Climbed!Next
    <3>10. CASE mode = "soak"
      <4>1. \E p \in passes : p.mode = "replay" /\ tick - p.tick >= SoakAfter
        BY <3>2, <3>4, <3>10 DEF Passed, Aged, HasPassed
      <4>2. \E q \in mapped : q.gate = "replay" /\ tick - q.tick >= SoakAfter
        BY <3>4, <3>5, <4>1 DEF Gates
      <4>3. Climbed!Climb(4)
        BY <2>1, <3>3, <3>10, <4>2 DEF Climbed!Climb, Climbed!TimePasses, mapped
      <4> QED BY <3>6, <4>3 DEF Climbed!Next
    <3> QED BY <3>2, <3>7, <3>8, <3>9, <3>10 DEF Gates
  <2> QED BY <2>2, <2>3
<1> QED BY <1>1, <1>2, ReleaseInvariant, PTL DEF Spec, LadderSpec, Climbed!Spec
=============================================================================
