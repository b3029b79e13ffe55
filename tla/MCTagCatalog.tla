---------------------------- MODULE MCTagCatalog ----------------------------
(* Model checking instances of the tag catalog: with the backfill and no   *)
(* tagged issue, or with the issue, no backfill, no texts and no scores.   *)
EXTENDS TagCatalog, TLC

VARIABLE store

(* Without a backfill a legacy tag is like any other: it may be the first. *)
TagStoreInit ==
    /\ store \in {"catalog", "issues"}
    /\ TagInit
    /\ store = "catalog" => \A i \in TaggedIssue : base[i] = {}
    /\ store = "issues" =>
           /\ merged = <<>>
           /\ \A i \in TaggedIssue : Cardinality(base[i]) <= 2
                                    /\ (base[i] # {} => LegacyTag \subseteq base[i])

Plain(todo) == \A n \in DOMAIN todo : todo[n][2].text = "none" /\ todo[n][2].score = "none"

TagStoreNext ==
    /\ UNCHANGED store
    /\ IF store = "catalog" THEN UNCHANGED carried ELSE UNCHANGED seeding
    /\ TagNext
    /\ \A w \in Writers : IF store = "catalog" THEN DOMAIN writing'[w].issues = {}
                                               ELSE Plain(writing'[w].todo)

TagStoreSpec == TagStoreInit /\ [][TagStoreNext]_<<store, tagVars>>

(* Tags without a legacy row are interchangeable, and so are writers. *)
Symmetry == Permutations(TagName \ LegacyTag) \cup Permutations(Writers)
=============================================================================
