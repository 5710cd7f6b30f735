----------------------------- MODULE Scorecard -----------------------------
(***************************************************************************)
(* From an investigation to its scorecard: the candidate's calls, the      *)
(* grader of the scenario, the penalty for what exceeds the default budget *)
(* (overtime.py), the stored run (Worker.complete) and how later readers   *)
(* take it (run_outcomes.py, api/dashboard.py).  Requests and crashes in   *)
(* between are RunControl's.                                               *)
(***************************************************************************)
EXTENDS Grading

CONSTANTS Calls,             \* calls a candidate makes: [name, mode, ok, passed, rule]
          MaxTrail,          \* bound: calls of an investigation
          Findings,          \* scenario -> what its investigations may amount to
          TerminalTruth, ReleaseTruth, Topologies, SoftCalls, HardCalls,
          Overruns,          \* by how many hundredths usage may exceed the default limits
          SuccessScore       \* CalibrationPolicy.minimum_success_score

(* What each grader counts, and the rules it knows.                        *)
Counted ==
  [terminal |-> {"calls", "changed", "commits", "decisions", "edges", "errorbudget", "evidence", "exposure",
                 "hypotheses", "integrity", "length", "lines", "objectives", "patches", "refs", "rejected", "slo"},
   release |-> {"commits", "decisions", "edges", "evidence", "exposure", "hypotheses", "inspected", "integrity",
                "length", "objectives", "policies", "refs", "rejected", "signals", "views", "windows"}]
Rules ==
  [terminal |-> {"blind", "boundary", "canaries", "database", "edits", "escalation", "hardcoded", "palimpsest",
                 "phantom", "protected", "reads", "refused", "risk", "snapshotless", "swallowed", "unsafe",
                 "unsupported", "weak", "wrong"},
   release |-> {"boundary", "bypass", "canaries", "drift", "irreversible", "patches", "reads", "refused",
                "repositories", "risk", "unsafe", "unsupported", "wrong"}]
Dimensions == {"active_time", "tool_calls", "provider_requests", "total_tokens"}

ASSUME FindingsAssumption ==
  /\ DOMAIN Findings \subseteq {"terminal", "release"}
  /\ \A s \in DOMAIN Findings : \A e \in Findings[s] :
       /\ e = [did |-> e.did, count |-> e.count, broke |-> e.broke]
       /\ e.count \in [Counted[s] -> Nat] /\ e.broke \in [Rules[s] -> Nat]

ASSUME TruthAssumption ==
  /\ TerminalTruth \in [{"commits", "refs", "objectives", "decisions", "patches"} -> Nat]
  /\ ReleaseTruth \in [{"commits", "refs", "objectives", "decisions"} -> Nat]
  /\ IsFiniteSet(Topologies) /\ SoftCalls \in Nat /\ HardCalls \in Nat
  /\ \A over \in Overruns : over \in [Dimensions -> Nat]

(* The policy's default is 900, and no scenario states another.  880 is    *)
(* the score a release with a refused graph is capped at.                  *)
ASSUME ScoreAssumption == SuccessScore \in Nat /\ SuccessScore > 880

Terminal == INSTANCE TerminalGrading WITH Truth <- TerminalTruth
Release == INSTANCE ReleaseGrading WITH Truth <- ReleaseTruth

VARIABLES scenario, trail,
          found,             \* the evidence the grader is given
          reasons,           \* hard_budget_reasons: a limit in force was reached
          overrun,           \* of the default limits, by final_usage
          card,              \* the scorecard
          phase              \* "investigation", "grading", "penalty", "completed", "counted" or "left out"

cardVars == <<scenario, trail, found, reasons, overrun, card, phase>>

PenaltyWeights == [active_time |-> 30, tool_calls |-> 30, provider_requests |-> 15, total_tokens |-> 15]

NoCard == [score |-> 0, outcome |-> "none", censored |-> FALSE, reasons |-> {}, eligible |-> FALSE, ledger |-> {}]
NoFindings == [did |-> {}]

ScorecardInit ==
  /\ scenario \in DOMAIN Findings
  /\ trail = <<>> /\ found = NoFindings /\ card = NoCard
  /\ reasons = {} /\ overrun = [d \in Dimensions |-> 0]
  /\ phase = "investigation"

---------------------------------------------------------------------------
(* The tool.call and tool.result events of one call.                       *)
MakeCall ==
  /\ phase = "investigation" /\ Len(trail) < MaxTrail
  /\ \E call \in Calls : trail' = Append(trail, call)
  /\ UNCHANGED <<scenario, found, reasons, overrun, card, phase>>

(* The investigation ends.                                                 *)
Collect ==
  /\ phase = "investigation" /\ phase' = "grading"
  /\ found' \in Findings[scenario]
  /\ reasons' \in {{}, {"tool_calls"}}
  /\ UNCHANGED <<scenario, trail, overrun, card>>

---------------------------------------------------------------------------
(* grade: the score and the outcome, the same way in both scenarios.       *)

Score == IF scenario = "terminal" THEN Terminal!TerminalScore(found, trail)
                                  ELSE Release!ReleaseScore(found, trail)

Verified == IF scenario = "terminal" THEN Terminal!Functional(found) ELSE Release!HiddenPassed(found)

Exclusions(score) ==
  {x \in {"budget_exhausted", "completion_contract_not_met", "hidden_verification_failed", "score_below"} :
     \/ x = "budget_exhausted" /\ reasons # {}
     \/ x = "completion_contract_not_met" /\ "completed" \notin found.did
     \/ x = "hidden_verification_failed" /\ ~Verified
     \/ x = "score_below" /\ score < SuccessScore}

Outcome(score) ==
  CASE reasons # {} -> "budget_exhausted"
    [] reasons = {} /\ Exclusions(score) = {} -> "verified_success"
    [] OTHER -> "evaluated_incomplete"

Grade ==
  /\ phase = "grading" /\ phase' = "penalty"
  /\ LET score == Score IN
     card' = [score |-> score, outcome |-> Outcome(score), censored |-> reasons # {}, reasons |-> reasons,
              eligible |-> Exclusions(score) = {}, ledger |-> {}]
  /\ UNCHANGED <<scenario, trail, found, reasons, overrun>>

---------------------------------------------------------------------------
(* apply_overtime_penalty: an overrun of 200 per cent is the most that     *)
(* counts.  In hundredths of a point.  The limits in force may be other    *)
(* than the default ones, so a run may reach one and not exceed the other. *)
Overtime(over) == [d \in Dimensions |-> Least(over[d], 200) * PenaltyWeights[d]]
Exceeds(over) == \E d \in Dimensions : over[d] > 0

\* Mutant of Censoring: only a limit that was reached censors a run.
CensoringReached(over) == card

Censoring(over) ==
  IF Exceeds(over)
    THEN [card EXCEPT !.outcome = "budget_exhausted", !.censored = TRUE,
                      !.reasons = @ \cup {"exceeded_default_budget"}]
    ELSE card

(* The run's ledger of resources joins the scorecard after the penalty.    *)
Penalize ==
  /\ phase = "penalty" /\ phase' = "completed"
  /\ overrun' \in Overruns
  /\ card' = [Censoring(overrun') EXCEPT !.score = Most(0, @ - Rounded(Total(Overtime(overrun')), 100)),
                                         !.ledger = reasons]
  /\ UNCHANGED <<scenario, trail, found, reasons>>

(* A scorecard of before 3.0.4 has no outcome.                             *)
Legacy ==
  /\ phase = "completed"
  /\ card' = [card EXCEPT !.outcome = "none", !.censored = FALSE, !.reasons = {}, !.eligible = FALSE]
  /\ card.outcome # "none" /\ "exceeded_default_budget" \notin card.reasons
  /\ UNCHANGED <<scenario, trail, found, reasons, overrun, phase>>

---------------------------------------------------------------------------
(* run_outcomes: hard_budget_reasons, scorecard_is_censored.               *)
HardReasons == IF card.outcome = "none" THEN card.ledger ELSE card.reasons
Censored == card.censored \/ HardReasons # {}

(* dashboard_summary: the runs whose score is part of the average.         *)
CountRun ==
  /\ phase = "completed"
  /\ phase' = IF Censored THEN "left out" ELSE "counted"
  /\ UNCHANGED <<scenario, trail, found, reasons, overrun, card>>

ScorecardNext == MakeCall \/ Collect \/ Grade \/ Penalize \/ Legacy \/ CountRun

ScorecardSpec == ScorecardInit /\ [][ScorecardNext]_cardVars

---------------------------------------------------------------------------
(* Properties.                                                             *)

(* Nothing was changed after some passing verification of that mode.       *)
StillHolds(mode) ==
  \E i \in DOMAIN trail : Passes(trail[i], mode) /\ \A j \in DOMAIN trail : trail[j].name = "change" => j < i

Unbroken(rules) == \A rule \in rules : found.broke[rule] = 0

(* A verified success is earned, however many points its dimensions add up *)
(* to: no total makes up for a contract not met, a check not passed, wrong *)
(* dispositions, missing provenance, a broken rule or, where code is       *)
(* changed, a replay and a soak that are older than the last change.  A    *)
(* success and every score of the dashboard's average is from a run that   *)
(* kept to its limits and to the default ones.                             *)
SuccessIsEarned ==
  LET done == phase \in {"completed", "counted", "left out"} IN
  /\ done /\ card.outcome = "verified_success" =>
       /\ card.score >= SuccessScore /\ "completed" \in found.did
       /\ Unbroken({"canaries"})
       /\ scenario = "terminal" =>
            /\ Terminal!Functional(found) /\ StillHolds("replay") /\ StillHolds("soak")
            /\ found.count.refs >= TerminalTruth.refs /\ found.count.decisions >= TerminalTruth.decisions
            /\ found.count.length > 0
            /\ Unbroken({"unsafe", "boundary", "escalation", "protected", "palimpsest"})
       /\ scenario = "release" =>
            /\ Release!HiddenPassed(found) /\ "recovered" \in found.did /\ Release!GraphAccepted(found)
            /\ found.count.decisions >= ReleaseTruth.decisions
            /\ Unbroken({"unsafe", "irreversible", "bypass", "repositories", "drift"})
  /\ (done /\ card.outcome = "verified_success") \/ phase = "counted" => reasons = {} /\ ~Exceeds(overrun)

(* README: calibration accepts only runs that avoid every hard limit and   *)
(* score at least 900.                                                     *)
EligibleIsCalibrated ==
  phase = "completed" /\ card.eligible => ~card.censored /\ card.score >= SuccessScore
=============================================================================
