---------------------- MODULE MCEnrichmentReadCommitted ----------------------
(* Model checking instances of the enrichment transactions. *)
EXTENDS EnrichmentReadCommitted, TLC

(* Clients are interchangeable. *)
Symmetry == Permutations(Clients)
=============================================================================
