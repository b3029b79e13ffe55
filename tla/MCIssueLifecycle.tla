-------------------------- MODULE MCIssueLifecycle --------------------------
(* Model checking instances of the lifecycle facts and projection. *)
EXTENDS IssueLifecycle, TLC

(* Clients are interchangeable, and so are issues. *)
Symmetry == Permutations(Clients) \cup Permutations(Issues)

(* State constraint: two issues get commands, and one of them more than a  *)
(* single one. A command touches no fact of an issue it does not name.     *)
OneIssueGrows ==
    /\ Cardinality({i \in Issues : Len(facts[i]) > 1 \/ Writers(i) # {}}) <= 2
    /\ Cardinality({i \in Issues : Len(facts[i]) + Cardinality(Writers(i)) > 2}) <= 1
=============================================================================
