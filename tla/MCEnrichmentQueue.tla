-------------------------- MODULE MCEnrichmentQueue --------------------------
(* Model checking instances of the enrichment queue. *)
EXTENDS EnrichmentQueue, TLC

(* Issues are interchangeable, and so are workers. *)
Symmetry == Permutations(Issues) \cup Permutations(Workers)

(* With many issues, the discussion of one at most grows past its report. *)
OneDiscussionGrows == Cardinality({i \in Issues : Len(discussion[i]) > 1}) <= 1
=============================================================================
