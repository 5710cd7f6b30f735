---------------------------- MODULE TruthGraphs ----------------------------
(***************************************************************************)
(* scenario/truth_graph.py: private graphs of what is true of a scenario,  *)
(* and which observations amount to a resolution of it.  A graph is        *)
(*                                                                         *)
(*   weight   of each node, by its id                                      *)
(*   paths    the acceptable ones: required nodes, groups of alternatives  *)
(*            and required checks                                          *)
(*   minimum  of the coverage, in hundredths                               *)
(*                                                                         *)
(* Edges and kinds of nodes have no part in the evaluation.                *)
(***************************************************************************)
EXTENDS Grading

Weight(graph, nodes) == Points(graph.weight, nodes)

(* validate_references                                                     *)
Valid(graph) ==
  /\ graph.paths # {}
  /\ \A path \in graph.paths :
       /\ path.required \cup UNION path.groups \subseteq DOMAIN graph.weight
       /\ {} \notin path.groups

Missing(path, observed, passed) ==
  [nodes |-> path.required \ observed,
   groups |-> {group \in path.groups : group \cap observed = {}},
   checks |-> path.checks \ passed]

Components(parts) == Cardinality(parts.nodes) + Cardinality(parts.groups) + Cardinality(parts.checks)

Satisfied(path, observed, passed) == Components(Missing(path, observed, passed)) = 0

(* In thousandths.                                                         *)
PathCoverage(path, observed, passed) ==
  LET all == Components([nodes |-> path.required, groups |-> path.groups, checks |-> path.checks])
  IN  IF all = 0 THEN 1000 ELSE Rounded(1000 * (all - Components(Missing(path, observed, passed))), all)

Covered(graph, observed) == 100 * Weight(graph, observed) >= graph.minimum * Total(graph.weight)

(* evaluate_truth_graph                                                    *)
Accepted(graph, observed, passed) ==
  Covered(graph, observed) /\ \E path \in graph.paths : Satisfied(path, observed, passed)

PartialCredit(graph, observed, passed) ==
  LET best == CHOOSE c \in {PathCoverage(p, observed, passed) : p \in graph.paths} :
                \A p \in graph.paths : PathCoverage(p, observed, passed) <= c
      gate == Rounded(100000 * Weight(graph, observed), Most(1, graph.minimum) * Total(graph.weight))
  IN  Rounded(7 * best + 3 * Least(1000, gate), 100)
=============================================================================
