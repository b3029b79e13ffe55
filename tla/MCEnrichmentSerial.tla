------------------------- MODULE MCEnrichmentSerial -------------------------
(* Model checking instance of the enrichment transactions, run freely or   *)
(* one at a time.                                                          *)
EXTENDS EnrichmentReadCommitted, TLC

(* Whether a behaviour runs its transactions one at a time. *)
VARIABLE serial

EitherInit == serial \in BOOLEAN /\ Init

EitherNext ==
    /\ UNCHANGED serial
    /\ Next
    /\ serial => Cardinality(Open') <= 1

EitherSpec == EitherInit /\ [][EitherNext]_<<vars, serial>>

(* Run one at a time, the transactions, whose handlers take several        *)
(* statements and may abort after each of them, are exactly the steps of   *)
(* EnrichmentQueue, whose handlers are atomic.                             *)
SerialIsQueue ==
    /\ Queue!Init
    /\ [][serial => [Queue!Next]_Queue!vars]_<<vars, serial>>

(* Clients are interchangeable. *)
Symmetry == Permutations(Clients)
=============================================================================
