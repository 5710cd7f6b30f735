---------------------------- MODULE MCScorecard ----------------------------
EXTENDS Scorecard

Item(name, mode, passed, rule) == [name |-> name, mode |-> mode, ok |-> ~rule, passed |-> passed, rule |-> rule]
MCCalls == {Item("change", "code", FALSE, FALSE), Item("verify", "replay", TRUE, FALSE),
            Item("verify", "replay", FALSE, TRUE), Item("verify", "soak", TRUE, FALSE)}

MCTerminalTruth == [commits |-> 4, refs |-> 3, objectives |-> 3, decisions |-> 2, patches |-> 2]
MCReleaseTruth == [commits |-> 5, refs |-> 3, objectives |-> 3, decisions |-> 2]
MCTopologies == {"tag-race", "key-rotation"}
MCOverruns == {[d \in Dimensions |-> 0], [d \in Dimensions |-> IF d = "tool_calls" THEN 300 ELSE 0],
               [d \in Dimensions |-> 50]}

Nothing(rules) == [rule \in rules |-> 0]

TerminalSolved ==
  [did |-> {"static", "regression", "mutation", "runtime_contract", "golden_replay", "git", "database", "browser",
            "runtime", "cross-repository", "incident", "preserved", "routing", "identity", "custody", "history",
            "both", "corroborated", "psql", "sqlite", "versions", "clock", "toolchain", "permissions", "gates",
            "contract", "probe", "selfverify", "recognised", "completed", "verification", "restraint"},
   count |-> [slo |-> 300, errorbudget |-> 100, integrity |-> 100, hypotheses |-> 8, rejected |-> 4, commits |-> 4,
              refs |-> 3, evidence |-> 50, edges |-> 16, objectives |-> 3, decisions |-> 2, exposure |-> 4,
              patches |-> 2, changed |-> 2, lines |-> 100, length |-> 6500, calls |-> 150],
   broke |-> Nothing({"blind", "edits", "protected", "phantom", "database", "escalation", "boundary", "refused",
                      "unsafe", "unsupported", "snapshotless", "weak", "hardcoded", "swallowed", "wrong", "risk",
                      "canaries", "palimpsest", "reads"})]

ReleaseSolved ==
  [did |-> {"source_contract", "recovered", "registry", "provenance", "attestation", "live", "report_values",
            "tag-race", "key-rotation", "source-clean", "subject-divergence", "digest-bound", "rooted-signature",
            "quarantined", "rollback", "state", "paused", "preserved", "corroborated", "git", "artifact",
            "signature", "runtime", "browser", "cross-repository", "release", "active", "offline-root",
            "reproducible", "clocks", "history", "branches", "contract", "identity", "recognised", "completed",
            "verification"},
   count |-> [integrity |-> 100, hypotheses |-> 10, rejected |-> 5, evidence |-> 50, edges |-> 18, commits |-> 5,
              refs |-> 3, objectives |-> 3, decisions |-> 2, views |-> 4, policies |-> 3, signals |-> 4, windows |-> 4,
              inspected |-> 3, exposure |-> 4, length |-> 5500],
   broke |-> Nothing({"repositories", "drift", "unsafe", "unsupported", "patches", "canaries", "reads", "boundary",
                      "refused", "irreversible", "bypass", "wrong", "risk"})]

(* A solved investigation, and each with one thing amiss that matters.     *)
Without(e, facts) == {[e EXCEPT !.did = @ \ {fact}] : fact \in facts}
Short(e, counts) == {[e EXCEPT !.count[c] = @ - 1] : c \in counts}
Lacking(e, c) == [e EXCEPT !.count[c] = 0]
Broken(e, rules) == {[e EXCEPT !.broke[rule] = 1] : rule \in rules}
Beyond(e) == [e EXCEPT !.broke["protected"] = 1, !.count["changed"] = @ + 1]

MCFindings ==
  [terminal |-> {TerminalSolved} \cup Without(TerminalSolved, {"completed", "mutation"})
                \cup {Lacking(TerminalSolved, "length")}
                \cup Short(TerminalSolved, {"refs", "decisions", "objectives"})
                \cup Broken(TerminalSolved, {"unsafe", "boundary", "escalation", "canaries", "palimpsest"})
                \cup {Beyond(TerminalSolved)},
   release |-> {ReleaseSolved} \cup Without(ReleaseSolved, {"completed", "recovered", "digest-bound", "source_contract", "rollback"})
                \cup Short(ReleaseSolved, {"decisions", "objectives", "length"})
                \cup Broken(ReleaseSolved, {"unsafe", "irreversible", "bypass", "canaries", "repositories", "drift"})]
=============================================================================
