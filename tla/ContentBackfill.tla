---------------------------- MODULE ContentBackfill ----------------------------
(***************************************************************************)
(* The command that seeds the content facts of all issues from the issues  *)
(* table and rebuilds every content projection from its facts              *)
(* (internal/issues/appendonly/content.go), beside enrichments that append *)
(* a fact and write the projection (internal/issues/content_persistence.go).*)
(*                                                                         *)
(* The content of an issue is a number: 0 as it was created, which is all  *)
(* the issues table ever holds, and n after the n-th analysis. A fact holds*)
(* the content whole. Two unique indexes guard the facts: one on (issue,   *)
(* sequence), and one on (source, source id), of which an issue's seed has *)
(* the only key that comes twice.                                          *)
(***************************************************************************)
EXTENDS Integers, Sequences, SequencesExt

CONSTANTS
    Item,         \* issue ids
    LegacyItem,   \* issues without facts or projection
    MaxContents,  \* bound: analyses of an issue
    MaxFills      \* bound: backfills

ASSUME ContentBackfillAssumption ==
    /\ LegacyItem \subseteq Item
    /\ MaxContents \in Nat /\ MaxFills \in Nat

VARIABLES
    contentFacts,  \* contentFacts[i]: the facts' contents, by sequence
    contentRow,    \* contentRow[i]: the projection
    seeded,        \* issues whose facts hold their seed
    analyses,      \* analyses[i]: analyses begun
    contentFill,   \* the backfill's next statement and open transaction
    fills,         \* backfills begun
    update,        \* the update under way and what it has loaded
    outdated       \* history: issues updated between the backfill's reading
                   \* of their facts and its commit

contentTables == <<contentFacts, contentRow, seeded>>
contentBackfillVars ==
    <<contentTables, analyses, contentFill, fills, update, outdated>>

NoRowYet == [content |-> 0, count |-> 0]
NoUpdate == [issue |-> {}, content |-> 0, count |-> 0]
IdleContentFill ==
    [at |-> "idle", last |-> [i \in Item |-> 0], inserted |-> {},
     rebuilt |-> [i \in Item |-> NoRowYet], behind |-> {}]

ReducedContent(facts) == [content |-> Last(facts), count |-> Len(facts)]

(* Mutant, for the sensitivity of ContentReplays: a rebuild that keeps the *)
(* count of facts there was when the backfill began.                       *)
CountedAtStart(i) ==
    [content |-> Last(contentFacts[i] \o IF i \in contentFill.inserted THEN <<0>> ELSE <<>>),
     count |-> contentFill.last[i]]

-----------------------------------------------------------------------------
(* The server: applyIssueContentFieldUpdate loads the state, inserts a     *)
(* fact numbered after the count it loaded, and writes the projection.     *)

LoadContent(i) ==
    /\ update = NoUpdate
    /\ analyses[i] < MaxContents
    /\ analyses' = [analyses EXCEPT ![i] = @ + 1]
    /\ update' = [issue |-> {i}, content |-> analyses[i] + 1, count |-> contentRow[i].count]
    /\ UNCHANGED <<contentTables, contentFill, fills, outdated>>

(* An insert waits for a transaction that has inserted its sequence, and   *)
(* an upsert for one that has written the row.                             *)
WriteContent(i) ==
    /\ update.issue = {i}
    /\ i \notin contentFill.inserted
    /\ IF update.count < Len(contentFacts[i])
       THEN UNCHANGED <<contentTables, contentFill>>
       ELSE /\ contentFacts' = [contentFacts EXCEPT ![i] = Append(@, update.content)]
            /\ contentRow' = [contentRow EXCEPT ![i] =
                   [content |-> update.content, count |-> update.count + 1]]
            /\ contentFill' = [contentFill EXCEPT !.behind =
                   IF contentFill.at = "upsert" THEN @ \cup {i} ELSE @]
            /\ UNCHANGED seeded
    /\ update' = NoUpdate
    /\ UNCHANGED <<analyses, fills, outdated>>

-----------------------------------------------------------------------------
(* The backfill: one transaction for all issues.                           *)

StartFill ==
    /\ contentFill.at = "idle" /\ fills < MaxFills
    /\ fills' = fills + 1
    /\ contentFill' = [IdleContentFill EXCEPT !.at = "insert",
                          !.last = [i \in Item |-> Len(contentFacts[i])]]
    /\ UNCHANGED <<contentTables, analyses, update, outdated>>

(* The seed is the content of the issues table, numbered after the facts   *)
(* there were: ON CONFLICT (source, source_id) DO NOTHING, and a sequence  *)
(* that was taken meanwhile fails the run.                                 *)
Unseeded == Item \ seeded

InsertSeeds ==
    /\ contentFill.at = "insert"
    /\ contentFill' =
          IF \E i \in Unseeded : contentFill.last[i] < Len(contentFacts[i])
          THEN IdleContentFill
          ELSE [contentFill EXCEPT !.at = "rebuild", !.inserted = Unseeded]
    /\ UNCHANGED <<contentTables, analyses, fills, update, outdated>>

Rebuilt(i) ==
    ReducedContent(contentFacts[i] \o IF i \in contentFill.inserted THEN <<0>> ELSE <<>>)

RebuildRows ==
    /\ contentFill.at = "rebuild"
    /\ contentFill' = [contentFill EXCEPT !.at = "upsert",
                          !.rebuilt = [i \in Item |-> Rebuilt(i)]]
    /\ UNCHANGED <<contentTables, analyses, fills, update, outdated>>

UpsertRowsAndCommit ==
    /\ contentFill.at = "upsert"
    /\ contentFacts' = [i \in Item |->
           IF i \in contentFill.inserted THEN Append(contentFacts[i], 0) ELSE contentFacts[i]]
    /\ contentRow' = contentFill.rebuilt
    /\ seeded' = seeded \cup contentFill.inserted
    /\ outdated' = contentFill.behind
    /\ contentFill' = IdleContentFill
    /\ UNCHANGED <<analyses, fills, update>>

FillDies ==
    /\ contentFill # IdleContentFill
    /\ contentFill' = IdleContentFill
    /\ UNCHANGED <<contentTables, analyses, fills, update, outdated>>

-----------------------------------------------------------------------------
ContentBackfillInit ==
    /\ contentFacts = [i \in Item |-> IF i \in LegacyItem THEN <<>> ELSE <<0>>]
    /\ contentRow = [i \in Item |-> IF i \in LegacyItem THEN NoRowYet ELSE ReducedContent(<<0>>)]
    /\ seeded = {}
    /\ analyses = [i \in Item |-> 0]
    /\ contentFill = IdleContentFill
    /\ fills = 0
    /\ update = NoUpdate
    /\ outdated = {}

FillStep ==
    StartFill \/ InsertSeeds \/ RebuildRows \/ UpsertRowsAndCommit \/ FillDies

ContentBackfillNext ==
    \/ \E i \in Item : LoadContent(i) \/ WriteContent(i)
    \/ FillStep

ContentBackfillSpec == ContentBackfillInit /\ [][ContentBackfillNext]_contentBackfillVars

-----------------------------------------------------------------------------
(* The projection of an issue is the content of its last fact and counts   *)
(* its facts, so the next update's sequence is free: except for an issue   *)
(* updated between the rebuild's reading of the facts and its commit,      *)
(* whose every later update fails, until another backfill repairs it.      *)
ContentReplays ==
    \A i \in Item :
        i \notin outdated /\ contentFacts[i] # <<>>
            => contentRow[i] = ReducedContent(contentFacts[i])
=============================================================================
