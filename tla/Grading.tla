------------------------------ MODULE Grading ------------------------------
(***************************************************************************)
(* What the graders of both scenarios compute with (scoring.py,            *)
(* scenarios/counterfeit-release/grading/hidden.py): points for what was   *)
(* done, portions of a target, caps, and the order of the candidate's      *)
(* calls.  An investigation is a record                                    *)
(*                                                                         *)
(*   did    what was done, cited, recognised or passed at least once       *)
(*   count  how far a counted fact got, by its name                        *)
(*   broke  how often a rule was broken, by its name                       *)
(*                                                                         *)
(* and the sequence of its tool calls with their results.  How a text or a *)
(* command is recognised is left out: a fact is there or it is not.        *)
(***************************************************************************)
EXTENDS Integers, Sequences, FiniteSets, FiniteSetsExt, Functions

Least(a, b) == IF a < b THEN a ELSE b
Most(a, b) == IF a > b THEN a ELSE b
When(condition, points) == IF condition THEN points ELSE 0

(* Python's round() of n / d, halves to the even neighbour.                *)
Rounded(n, d) ==
  LET down == n \div d
      twice == 2 * (n % d)
  IN  IF twice > d \/ (twice = d /\ down % 2 = 1) THEN down + 1 ELSE down

(* ratio_points                                                            *)
Ratio(value, maximum, points) ==
  IF maximum <= 0 THEN 0 ELSE Rounded(points * Least(value, maximum), maximum)

(* What is lost for each breach, down to nothing.                          *)
Spared(points, each, breaches) == Most(0, points - each * breaches)

(* The points of a table for the facts that are there.                     *)
Points(table, facts) == FoldFunctionOnSet(+, 0, table, facts \cap DOMAIN table)

Metric(value, maximum) == Most(0, Least(value, maximum))

Total(table) == FoldFunction(+, 0, table)

(* The deductions and, in any order, the caps whose condition holds.       *)
Capped(raw, deducted, caps) == Min({Most(0, raw - deducted)} \cup {c[1] : c \in {d \in caps : d[2]}})

---------------------------------------------------------------------------
(* The calls, in the order of their tool.call events.  A change is a       *)
(* write_file elsewhere than to the report, or a command MUTATING_COMMAND  *)
(* matches; ids are given once, so a call holds its own result.            *)

Changes(trail) == {i \in DOMAIN trail : trail[i].name = "change"}

(* verification_before: the call counts, whatever its result.              *)
VerifiedBefore(trail, mode) ==
  \E i \in DOMAIN trail : /\ trail[i].name = "verify" /\ trail[i].mode = mode
                          /\ \A j \in Changes(trail) : i < j

Passes(call, mode) == call.name = "verify" /\ call.mode = mode /\ call.ok /\ call.passed

(* Mutant of VerifiedAfter: after some change is enough.                   *)
VerifiedAfterOne(trail, mode) ==
  \E i \in DOMAIN trail : /\ Passes(trail[i], mode)
                          /\ \E j \in Changes(trail) : i > j

VerifiedAfter(trail, mode) ==
  \E i \in DOMAIN trail : /\ Passes(trail[i], mode)
                          /\ \A j \in Changes(trail) : i > j

Faulted(trail) == {i \in DOMAIN trail : trail[i].rule}

(* recovered_fault_rule_count: the same call again, and it went well; of   *)
(* the tools in loose any call.                                            *)
RecoveredFaults(trail, loose) ==
  {i \in Faulted(trail) : \E j \in DOMAIN trail :
     /\ j > i /\ trail[j].ok /\ trail[j].name = trail[i].name
     /\ trail[j].mode = trail[i].mode \/ trail[i].name \in loose}
=============================================================================
