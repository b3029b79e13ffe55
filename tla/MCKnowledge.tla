----------------------------- MODULE MCKnowledge -----------------------------
(* Model checking instance of memories, curation and the backfills of      *)
(* issues. They share no state, so only one of them leaves its initial     *)
(* state in a behaviour.                                                   *)
EXTENDS Memories, Curation, LifecycleBackfill, ContentBackfill, TLC

VARIABLE store

(* The last issue of a batch is a closed one that the server leaves alone. *)
Still == Max(Issue)

KnowledgeInit ==
    /\ store \in {"memories", "curation", "lifecycle", "content"}
    /\ MemoryInit /\ CurationInit /\ LifecycleBackfillInit /\ ContentBackfillInit
    /\ thread[Still] = <<Report>>
    /\ issueRow[Still] = [status |-> "closed", to |-> Nobody]
    /\ store # "curation" => issueClosed = [c \in Move |-> FALSE]
    /\ store # "lifecycle" =>
           \A i \in Issue : thread[i] = <<Report>> /\ issueRow[i] = issueRow[Still]

KnowledgeNext ==
    /\ UNCHANGED store
    /\ \/ /\ store = "memories" /\ MemoryNext
          /\ UNCHANGED <<curationVars, lifecycleBackfillVars, contentBackfillVars>>
       \/ /\ store = "curation" /\ CurationNext
          /\ UNCHANGED <<memoryVars, lifecycleBackfillVars, contentBackfillVars>>
       \/ /\ store = "lifecycle" /\ LifecycleBackfillNext /\ command'.issue # Still
          /\ UNCHANGED <<memoryVars, curationVars, contentBackfillVars>>
       \/ /\ store = "content" /\ ContentBackfillNext
          /\ UNCHANGED <<memoryVars, curationVars, lifecycleBackfillVars>>

KnowledgeSpec ==
    KnowledgeInit
    /\ [][KnowledgeNext]_<<store, memoryVars, curationVars,
                           lifecycleBackfillVars, contentBackfillVars>>

(* Memories are interchangeable, and so are requests. *)
Symmetry == Permutations(Memory) \cup Permutations(Requests)
=============================================================================
