---------------------------- MODULE BackfillProofs ----------------------------
(***************************************************************************)
(* The backfills of issues beside a server that keeps writing them: the    *)
(* content projection follows its facts, and the lifecycle facts tell what *)
(* an issue shows, for any issues and bounds.                              *)
(***************************************************************************)
EXTENDS ContentBackfill, LifecycleBackfill, FiniteSetTheorems,
        WellFoundedInduction, TLAPS

(***************************************************************************)
(* Content.                                                                *)
(***************************************************************************)

Row == [content : Nat, count : Nat]
Fill == [at : {"idle", "insert", "rebuild", "upsert"}, last : [Item -> Nat],
         inserted : SUBSET Item, rebuilt : [Item -> Row], behind : SUBSET Item]
Pending == [issue : SUBSET Item, content : Nat, count : Nat]

ContentTypeOK ==
    /\ contentFacts \in [Item -> Seq(Nat)]
    /\ contentRow \in [Item -> Row]
    /\ seeded \subseteq Item
    /\ analyses \in [Item -> Nat]
    /\ contentFill \in Fill
    /\ update \in Pending
    /\ outdated \subseteq Item

(* Facts as they will be when the backfill commits. *)
Filled(i) == contentFacts[i] \o IF i \in contentFill.inserted THEN <<0>> ELSE <<>>

(* No row and no update counts more facts than there are, which is what    *)
(* makes a late update fail instead of skipping a sequence.                *)
CountInv ==
    \A i \in Item :
        /\ contentRow[i].count <= Len(contentFacts[i])
        /\ update.issue = {i} => update.count <= Len(contentFacts[i])

(* The open transaction: every issue has a fact or is given one, and its   *)
(* rows are right for the issues nobody has updated behind it.             *)
FillInv ==
    /\ \A i \in seeded : contentFacts[i] # <<>>
    /\ contentFill.at \in {"rebuild", "upsert"} => contentFill.inserted = Item \ seeded
    /\ contentFill.at = "upsert" =>
         \A i \in Item :
            /\ contentFill.rebuilt[i].count <= Len(Filled(i))
            /\ i \notin contentFill.behind => contentFill.rebuilt[i] = ReducedContent(Filled(i))

ContentInv == ContentTypeOK /\ CountInv /\ FillInv /\ ContentReplays

-----------------------------------------------------------------------------
(* Reducing facts one longer. *)
LEMMA ReducedAppend ==
    ASSUME NEW facts \in Seq(Nat), NEW x \in Nat
    PROVE  /\ Append(facts, x) \in Seq(Nat) /\ Append(facts, x) # <<>>
           /\ Len(Append(facts, x)) = Len(facts) + 1
           /\ ReducedContent(Append(facts, x)) = [content |-> x, count |-> Len(facts) + 1]
BY DEF ReducedContent, Last

LEMMA ReducedCount ==
    ASSUME NEW facts
    PROVE  ReducedContent(facts).count = Len(facts)
BY DEF ReducedContent

(* Non-empty facts reduce to a row. *)
LEMMA ReducedType ==
    ASSUME NEW facts \in Seq(Nat), facts # <<>>
    PROVE  ReducedContent(facts) \in Row
<1>1. Len(facts) \in 1 .. Len(facts)
  OBVIOUS
<1>2. facts[Len(facts)] \in Nat
  BY <1>1
<1>3. Len(facts) \in Nat
  OBVIOUS
<1>4. QED  BY <1>2, <1>3 DEF ReducedContent, Last, Row

(* The seed's place is after the facts there are. *)
LEMMA FilledAs ==
    ASSUME ContentTypeOK, NEW i \in Item
    PROVE  /\ i \in contentFill.inserted => Filled(i) = Append(contentFacts[i], 0)
           /\ i \notin contentFill.inserted => Filled(i) = contentFacts[i]
<1>1. contentFacts[i] \in Seq(Nat)
  BY DEF ContentTypeOK
<1>2. contentFacts[i] \o <<0>> = Append(contentFacts[i], 0)
  BY <1>1
<1>3. contentFacts[i] \o <<>> = contentFacts[i]
  BY <1>1
<1>4. QED  BY <1>2, <1>3 DEF Filled

-----------------------------------------------------------------------------
LEMMA IdleFillType == IdleContentFill \in Fill
BY DEF IdleContentFill, Fill, NoRowYet, Row

LEMMA ContentStarts == ContentBackfillInit => ContentInv
<1> SUFFICES ASSUME ContentBackfillInit
             PROVE  ContentInv
  OBVIOUS
<1>1. /\ <<0>> \in Seq(Nat) /\ <<0>> # <<>>
      /\ ReducedContent(<<0>>) = [content |-> 0, count |-> 1]
  BY DEF ReducedContent, Last
<1>2. NoRowYet \in Row /\ ReducedContent(<<0>>) \in Row /\ NoUpdate \in Pending
  BY <1>1 DEF NoRowYet, Row, NoUpdate, Pending
<1>3. ContentTypeOK
  BY <1>1, <1>2, IdleFillType DEF ContentBackfillInit, ContentTypeOK
<1>4. CountInv
  BY <1>1 DEF ContentBackfillInit, CountInv, NoRowYet, NoUpdate
<1>5. FillInv /\ ContentReplays
  BY DEF ContentBackfillInit, FillInv, ContentReplays, IdleContentFill
<1>6. QED  BY <1>3, <1>4, <1>5 DEF ContentInv

LEMMA LoadKeeps ==
    ASSUME ContentInv, NEW i \in Item, LoadContent(i)
    PROVE  ContentInv'
<1>1. analyses' \in [Item -> Nat] /\ analyses[i] + 1 \in Nat
  BY DEF ContentInv, ContentTypeOK, LoadContent
<1>2. contentRow[i].count \in Nat
  BY DEF ContentInv, ContentTypeOK, Row
<1>3. update' \in Pending
  BY <1>1, <1>2 DEF LoadContent, Pending
<1>4. ContentTypeOK'
  BY <1>1, <1>3 DEF ContentInv, ContentTypeOK, LoadContent, contentTables
<1>5. CountInv'
  BY DEF ContentInv, CountInv, LoadContent, contentTables
<1>6. FillInv' /\ ContentReplays'
  BY DEF ContentInv, FillInv, ContentReplays, Filled, LoadContent, contentTables
<1>7. QED  BY <1>4, <1>5, <1>6 DEF ContentInv

LEMMA WriteKeeps ==
    ASSUME ContentInv, NEW i \in Item, WriteContent(i)
    PROVE  ContentInv'
<1>1. NoUpdate \in Pending
  BY DEF NoUpdate, Pending
<1>2. CASE update.count < Len(contentFacts[i])
  <2>1. UNCHANGED <<contentFacts, contentRow, seeded, contentFill, analyses, outdated>>
    BY <1>2 DEF WriteContent, contentTables
  <2>2. ContentTypeOK'
    BY <1>1, <2>1 DEF ContentInv, ContentTypeOK, WriteContent
  <2>3. CountInv'
    BY <2>1 DEF ContentInv, CountInv, WriteContent, NoUpdate
  <2>4. FillInv' /\ ContentReplays'
    BY <2>1 DEF ContentInv, FillInv, ContentReplays, Filled
  <2>5. QED  BY <2>2, <2>3, <2>4 DEF ContentInv
<1>3. CASE ~(update.count < Len(contentFacts[i]))
  <2> DEFINE facts == contentFacts[i]
             grown == Append(facts, update.content)
  <2>1. /\ contentFacts' = [contentFacts EXCEPT ![i] = grown]
        /\ contentRow' = [contentRow EXCEPT ![i] =
               [content |-> update.content, count |-> update.count + 1]]
        /\ contentFill' = [contentFill EXCEPT !.behind =
               IF contentFill.at = "upsert" THEN contentFill.behind \cup {i}
                                            ELSE contentFill.behind]
        /\ update' = NoUpdate
        /\ UNCHANGED <<seeded, analyses, outdated>>
        /\ i \notin contentFill.inserted
    BY <1>3 DEF WriteContent
  <2>2. facts \in Seq(Nat) /\ update.content \in Nat /\ update.count \in Nat
    BY DEF ContentInv, ContentTypeOK, Pending
  <2>3. update.count = Len(facts)
    BY <1>3, <2>2 DEF ContentInv, CountInv, WriteContent
  <2>4. grown \in Seq(Nat) /\ grown # <<>> /\ Len(grown) = Len(facts) + 1
        /\ ReducedContent(grown) = [content |-> update.content, count |-> Len(facts) + 1]
    BY <2>2, ReducedAppend
  <2>5. ReducedContent(grown) \in Row
    BY <2>4, ReducedType
  <2>6. contentFacts'[i] = grown /\ contentRow'[i] = ReducedContent(grown)
    BY <2>1, <2>3, <2>4 DEF ContentInv, ContentTypeOK
  <2>7. \A j \in Item \ {i} :
           contentFacts'[j] = contentFacts[j] /\ contentRow'[j] = contentRow[j]
    BY <2>1 DEF ContentInv, ContentTypeOK
  <2>8. /\ contentFill' \in Fill
        /\ contentFill'.at = contentFill.at
        /\ contentFill'.inserted = contentFill.inserted
        /\ contentFill'.rebuilt = contentFill.rebuilt
        /\ contentFill.behind \subseteq contentFill'.behind
        /\ contentFill.at = "upsert" => i \in contentFill'.behind
    <3>1. contentFill \in Fill
      BY DEF ContentInv, ContentTypeOK
    <3>2. QED  BY <2>1, <3>1 DEF Fill
  <2>9. ContentTypeOK'
    <3>1. contentFacts' \in [Item -> Seq(Nat)]
      BY <2>1, <2>4 DEF ContentInv, ContentTypeOK
    <3>2. contentRow' \in [Item -> Row]
      BY <2>1, <2>3, <2>4, <2>5 DEF ContentInv, ContentTypeOK
    <3>3. QED
      BY <1>1, <2>1, <2>8, <3>1, <3>2 DEF ContentInv, ContentTypeOK
  <2>10. CountInv'
    <3>1. ReducedContent(grown).count = Len(grown)
      BY <2>4
    <3>2. Len(grown) <= Len(grown)
      BY <2>4
    <3>3. \A j \in Item : update'.issue # {j}
      BY <2>1 DEF NoUpdate
    <3>4. QED
      BY <2>6, <2>7, <3>1, <3>2, <3>3 DEF ContentInv, CountInv
  <2>11. ContentReplays'
    BY <2>1, <2>6, <2>7 DEF ContentInv, ContentReplays
  <2>12. FillInv'
    <3>1. \A j \in seeded : contentFacts'[j] # <<>>
      BY <2>4, <2>6, <2>7 DEF ContentInv, FillInv, ContentTypeOK
    <3>2. ASSUME contentFill.at = "upsert", NEW j \in Item
          PROVE  /\ contentFill.rebuilt[j].count <= Len(Filled(j)')
                 /\ j \notin contentFill'.behind
                      => contentFill.rebuilt[j] = ReducedContent(Filled(j)')
      <4>1. CASE j = i
        <5>1. Filled(i) = facts /\ Filled(i)' = grown
          BY <2>1, <2>8, <2>6, <2>9, FilledAs DEF ContentInv, Filled, ContentTypeOK
        <5>2. contentFill.rebuilt[i].count <= Len(facts)
          BY <3>2, <5>1 DEF ContentInv, FillInv
        <5>3. contentFill.rebuilt[i].count \in Nat
          BY DEF ContentInv, ContentTypeOK, Fill, Row
        <5>4. contentFill.rebuilt[i].count <= Len(grown)
          BY <2>2, <2>4, <5>2, <5>3
        <5>5. QED  BY <2>8, <3>2, <4>1, <5>1, <5>4
      <4>2. CASE j # i
        <5>1. Filled(j)' = Filled(j)
          BY <2>7, <2>8, <4>2 DEF Filled
        <5>2. QED  BY <2>8, <3>2, <5>1 DEF ContentInv, FillInv
      <4>3. QED  BY <4>1, <4>2
    <3>3. QED
      BY <2>1, <2>8, <3>1, <3>2 DEF ContentInv, FillInv
  <2>13. QED  BY <2>9, <2>10, <2>11, <2>12 DEF ContentInv
<1>4. QED  BY <1>2, <1>3

(* Steps of the backfill that only change what it holds. *)
LEMMA FillKeeps ==
    ASSUME ContentInv, UNCHANGED <<contentFacts, contentRow, seeded, analyses, update, outdated>>,
           contentFill' \in Fill,
           contentFill'.at = "upsert" =>
              \A i \in Item : contentFill'.rebuilt[i] = ReducedContent(Filled(i)'),
           contentFill'.at \in {"rebuild", "upsert"} => contentFill'.inserted = Item \ seeded
    PROVE  ContentInv'
<1>1. ContentTypeOK'
  BY DEF ContentInv, ContentTypeOK
<1>2. CountInv' /\ ContentReplays'
  BY DEF ContentInv, CountInv, ContentReplays
<1>3. ASSUME NEW i \in Item, contentFill'.at = "upsert"
      PROVE  contentFill'.rebuilt[i].count <= Len(Filled(i)')
  <2>1. contentFill'.rebuilt[i].count = Len(Filled(i)')
    BY <1>3, ReducedCount
  <2>2. contentFill'.rebuilt[i].count \in Nat
    BY DEF Fill, Row
  <2>3. QED  BY <2>1, <2>2
<1>4. FillInv'
  BY <1>3 DEF ContentInv, FillInv
<1>5. QED  BY <1>1, <1>2, <1>4 DEF ContentInv

LEMMA StartKeeps ==
    ASSUME ContentInv, StartFill
    PROVE  ContentInv'
<1> DEFINE counted == [i \in Item |-> Len(contentFacts[i])]
<1>1. counted \in [Item -> Nat]
  BY DEF ContentInv, ContentTypeOK
<1>2. contentFill' \in Fill /\ contentFill'.at = "insert"
  <2>1. contentFill' = [IdleContentFill EXCEPT !.at = "insert", !.last = counted]
    BY DEF StartFill
  <2> HIDE DEF counted
  <2>2. QED  BY <1>1, <2>1, IdleFillType DEF Fill
<1>3. QED
  BY <1>2, FillKeeps DEF StartFill, contentTables

LEMMA InsertKeeps ==
    ASSUME ContentInv, InsertSeeds
    PROVE  ContentInv'
<1>1. contentFill \in Fill /\ seeded \subseteq Item
  BY DEF ContentInv, ContentTypeOK
<1>2. CASE contentFill' = IdleContentFill
  <2>1. contentFill'.at = "idle"
    BY <1>2 DEF IdleContentFill
  <2>2. QED
    BY <1>2, <2>1, IdleFillType, FillKeeps DEF InsertSeeds, contentTables
<1>3. CASE contentFill' = [contentFill EXCEPT !.at = "rebuild", !.inserted = Unseeded]
  <2>1. contentFill' \in Fill /\ contentFill'.at = "rebuild"
        /\ contentFill'.inserted = Item \ seeded
    BY <1>1, <1>3 DEF Fill, Unseeded
  <2>2. QED
    BY <2>1, FillKeeps DEF InsertSeeds, contentTables
<1>4. QED  BY <1>2, <1>3 DEF InsertSeeds

LEMMA RebuildKeeps ==
    ASSUME ContentInv, RebuildRows
    PROVE  ContentInv'
<1>1. contentFill \in Fill
  BY DEF ContentInv, ContentTypeOK
<1>2. contentFill.inserted = Item \ seeded
  BY DEF ContentInv, FillInv, RebuildRows
<1>3. ASSUME NEW i \in Item
      PROVE  Rebuilt(i) = ReducedContent(Filled(i)) /\ Rebuilt(i) \in Row
  <2>1. contentFacts[i] \in Seq(Nat)
    BY DEF ContentInv, ContentTypeOK
  <2>2. Filled(i) \in Seq(Nat) /\ Filled(i) # <<>>
    <3>1. CASE i \in contentFill.inserted
      BY <2>1, <3>1, FilledAs, ReducedAppend DEF ContentInv
    <3>2. CASE i \notin contentFill.inserted
      BY <1>2, <2>1, <3>2, FilledAs DEF ContentInv, FillInv
    <3>3. QED  BY <3>1, <3>2
  <2>3. Rebuilt(i) = ReducedContent(Filled(i))
    BY DEF Rebuilt, Filled
  <2>4. QED  BY <2>2, <2>3, ReducedType
<1>4. [i \in Item |-> Rebuilt(i)] \in [Item -> Row]
  BY <1>3
<1>5. /\ contentFill' \in Fill /\ contentFill'.at = "upsert"
      /\ contentFill'.inserted = contentFill.inserted
      /\ contentFill'.rebuilt = [i \in Item |-> Rebuilt(i)]
  <2> DEFINE rebuilt == [i \in Item |-> Rebuilt(i)]
  <2>1. rebuilt \in [Item -> Row]
    BY <1>4
  <2>2. contentFill' = [contentFill EXCEPT !.at = "upsert", !.rebuilt = rebuilt]
    BY DEF RebuildRows
  <2> HIDE DEF rebuilt
  <2>3. /\ contentFill' \in Fill /\ contentFill'.at = "upsert"
        /\ contentFill'.inserted = contentFill.inserted
        /\ contentFill'.rebuilt = rebuilt
    BY <1>1, <2>1, <2>2 DEF Fill
  <2>4. QED  BY <2>3 DEF rebuilt
<1>6. \A i \in Item : Filled(i)' = Filled(i)
  BY <1>5 DEF Filled, RebuildRows, contentTables
<1>7. \A i \in Item : contentFill'.rebuilt[i] = ReducedContent(Filled(i)')
  BY <1>3, <1>5, <1>6
<1>8. QED
  BY <1>2, <1>5, <1>7, FillKeeps DEF RebuildRows, contentTables

LEMMA CommitKeeps ==
    ASSUME ContentInv, UpsertRowsAndCommit
    PROVE  ContentInv'
<1>1. contentFill \in Fill /\ contentFill.at = "upsert" /\ contentFill' = IdleContentFill
  BY DEF ContentInv, ContentTypeOK, UpsertRowsAndCommit
<1>2. contentFill'.at = "idle"
  BY <1>1 DEF IdleContentFill
<1>3. \A i \in Item : contentFacts'[i] = Filled(i)
  BY FilledAs DEF ContentInv, UpsertRowsAndCommit
<1>4. ASSUME NEW i \in Item
      PROVE  /\ Filled(i) \in Seq(Nat)
             /\ Len(contentFacts[i]) <= Len(Filled(i))
             /\ Filled(i) # <<>>
  <2>1. contentFacts[i] \in Seq(Nat)
    BY DEF ContentInv, ContentTypeOK
  <2>2. CASE i \in contentFill.inserted
    <3>1. Len(contentFacts[i]) <= Len(contentFacts[i]) + 1
      BY <2>1
    <3>2. Filled(i) = Append(contentFacts[i], 0)
      BY <2>2, FilledAs DEF ContentInv
    <3>3. QED  BY <2>1, <3>1, <3>2, ReducedAppend
  <2>3. CASE i \notin contentFill.inserted
    BY <1>1, <2>1, <2>3, FilledAs DEF ContentInv, FillInv
  <2>4. QED  BY <2>2, <2>3
<1>5. contentFacts' \in [Item -> Seq(Nat)]
  <2>1. contentFacts' = [i \in Item |-> contentFacts'[i]]
    BY DEF UpsertRowsAndCommit
  <2>2. QED  BY <1>3, <1>4, <2>1
<1>6. contentRow' \in [Item -> Row] /\ contentRow' = contentFill.rebuilt
  BY <1>1 DEF Fill, UpsertRowsAndCommit
<1>7. seeded' \subseteq Item /\ outdated' \subseteq Item
  BY <1>1 DEF ContentInv, ContentTypeOK, Fill, UpsertRowsAndCommit
<1>8. ContentTypeOK'
  BY <1>1, <1>5, <1>6, <1>7, IdleFillType DEF ContentInv, ContentTypeOK, UpsertRowsAndCommit
<1>9. CountInv'
  <2> SUFFICES ASSUME NEW i \in Item
               PROVE  /\ contentRow'[i].count <= Len(contentFacts'[i])
                      /\ update.issue = {i} => update.count <= Len(contentFacts'[i])
    BY DEF CountInv, UpsertRowsAndCommit
  <2>1. contentRow'[i].count <= Len(contentFacts'[i])
    BY <1>1, <1>3, <1>6 DEF ContentInv, FillInv
  <2>2. ASSUME update.issue = {i}
        PROVE  update.count <= Len(contentFacts'[i])
    <3>1. update.count <= Len(contentFacts[i])
      BY <2>2 DEF ContentInv, CountInv
    <3>2. update.count \in Nat /\ Len(contentFacts[i]) \in Nat /\ Len(Filled(i)) \in Nat
      BY <1>4 DEF ContentInv, ContentTypeOK, Pending
    <3>3. QED  BY <1>3, <1>4, <3>1, <3>2
  <2>3. QED  BY <2>1, <2>2
<1>10. FillInv'
  BY <1>2, <1>3, <1>4, <1>7 DEF FillInv
<1>11. ContentReplays'
  BY <1>1, <1>3, <1>6 DEF ContentInv, FillInv, ContentReplays, UpsertRowsAndCommit
<1>12. QED  BY <1>8, <1>9, <1>10, <1>11 DEF ContentInv

LEMMA DieKeeps ==
    ASSUME ContentInv, FillDies
    PROVE  ContentInv'
<1>1. contentFill' = IdleContentFill /\ contentFill'.at = "idle"
  BY DEF FillDies, IdleContentFill
<1>2. QED
  BY <1>1, IdleFillType, FillKeeps DEF FillDies, contentTables

LEMMA ContentStep ==
    ContentInv /\ [ContentBackfillNext]_contentBackfillVars => ContentInv'
<1> SUFFICES ASSUME ContentInv, [ContentBackfillNext]_contentBackfillVars
             PROVE  ContentInv'
  OBVIOUS
<1>1. CASE UNCHANGED contentBackfillVars
  <2>1. ContentTypeOK' /\ CountInv'
    BY <1>1 DEF contentBackfillVars, contentTables, ContentInv, ContentTypeOK, CountInv
  <2>2. FillInv' /\ ContentReplays'
    BY <1>1 DEF contentBackfillVars, contentTables, ContentInv, FillInv, ContentReplays, Filled
  <2>3. QED  BY <2>1, <2>2 DEF ContentInv
<1>2. ASSUME NEW i \in Item, LoadContent(i) \/ WriteContent(i)
      PROVE  ContentInv'
  BY <1>2, LoadKeeps, WriteKeeps
<1>3. CASE FillStep
  BY <1>3, StartKeeps, InsertKeeps, RebuildKeeps, CommitKeeps, DieKeeps DEF FillStep
<1>4. QED  BY <1>1, <1>2, <1>3 DEF ContentBackfillNext

(* The inductive invariant holds in every reachable state. *)
THEOREM ContentInvariant == ContentBackfillSpec => []ContentInv
<1>1. ContentBackfillInit => ContentInv
  BY ContentStarts
<1>2. ContentInv /\ [ContentBackfillNext]_contentBackfillVars => ContentInv'
  BY ContentStep
<1>3. QED  BY <1>1, <1>2, PTL DEF ContentBackfillSpec

(* Beside a backfill of every issue, whatever enrichments commit, the      *)
(* content projection of an issue is the reduction of its facts, except    *)
(* where an update came in between the backfill's reading and its commit   *)
(* (rebuildIssueContentProjections, applyIssueContentFieldUpdate).         *)
THEOREM ContentReplaysItsFacts == ContentBackfillSpec => []ContentReplays
<1>1. ContentInv => ContentReplays
  BY DEF ContentInv
<1>2. QED  BY <1>1, ContentInvariant, PTL

(***************************************************************************)
(* Lifecycle.                                                              *)
(***************************************************************************)
People == Person \cup {Nobody}
ShownRows ==
    {r \in [status : {"open", "closed"}, by : People, to : People] :
        r.status = "open" => r.by = Nobody}
Posts == {Report} \cup [kind : {"closed", "reopened", "assigned"}, who : People]
Facts == [number : Nat, kind : {"created", "closed", "reopened", "assigned"},
          who : People, live : BOOLEAN]
Commands == [issue : Issue, kind : {"closed", "reopened", "assigned"}, who : People,
             post : BOOLEAN, number : Nat, shown : ShownRows]

Bounded(facts) == \E n \in Nat : \A f \in facts : f.number <= n
Distinct(facts) == \A f, g \in facts : f.number = g.number => f = g

(* Facts nobody raced on have numbers of their own. *)
FactsInv ==
    /\ \A i \in Issue : lifecycleFacts[i] # {} => lifecycleRow[i] # NoProjection
    /\ \A i \in Issue : Bounded(lifecycleFacts[i])
    /\ \A i \in Issue \ overlapped : Distinct(lifecycleFacts[i])

(* What the transaction has written of an issue replaces all its facts by  *)
(* facts that replay the row, which is what the issue shows unless a       *)
(* command wrote it behind the backfill's back.                            *)
WriteInv(w) ==
    /\ w.issue \in Issue \ fill.todo
    /\ w.gone = lifecycleFacts[w.issue]
    /\ w.facts \in SUBSET Facts /\ w.row \in ShownRows
    /\ Bounded(w.facts) /\ Distinct(w.facts)
    /\ Replay(w.facts) = w.row
    /\ w.issue \notin fill.touched =>
          /\ w.row = Shown(w.issue)
          /\ w.facts = Derived(thread[w.issue], Shown(w.issue)).facts

ReadInv ==
    fill.at \in {"posts", "replace"} /\ AtHand \notin fill.touched =>
        /\ fill.shown = Shown(AtHand)
        /\ fill.at = "replace" => fill.posts = thread[AtHand]

(* A command on an issue nobody raced on has read what it still shows, and *)
(* has a number after those of all its facts.                              *)
CommandInv ==
    command # NoCommand /\ command.issue \notin overlapped =>
        /\ command.shown = Shown(command.issue)
        /\ \A f \in lifecycleFacts[command.issue] : f.number < command.number

SettledInv ==
    \A i \in settled \cap Issue :
        /\ lifecycleRow[i] # NoProjection
        /\ lifecycleFacts[i] = Derived(thread[i], lifecycleRow[i]).facts

(* What the invariant says of the tables, the command and the history. *)
TablesInv ==
    /\ issueRow \in [Issue -> [status : {"open", "closed"}, to : People]]
    /\ thread \in [Issue -> Seq(Posts)]
    /\ lifecycleFacts \in [Issue -> SUBSET Facts]
    /\ lifecycleRow \in [Issue -> ShownRows \cup {NoProjection}]
    /\ command \in Commands \cup {NoCommand}
    /\ FactsInv /\ CommandInv /\ SettledInv /\ FactsTellTheIssue

FillTypeOK ==
    /\ fill = [at |-> fill.at, todo |-> fill.todo, last |-> fill.last,
               shown |-> fill.shown, posts |-> fill.posts,
               wrote |-> fill.wrote, touched |-> fill.touched]
    /\ fill.at \in {"idle", "issue", "posts", "replace", "mark"}
    /\ fill.todo \subseteq Issue
    /\ fill.at \in {"posts", "replace"} => fill.todo # {} /\ fill.shown \in ShownRows
    /\ fill.at = "replace" => fill.posts \in Seq(Posts)

WritesInv ==
    /\ \A w \in fill.wrote : WriteInv(w)
    /\ \A v, w \in fill.wrote : v.issue = w.issue => v = w

LifecycleFillInv == TablesInv /\ FillTypeOK /\ WritesInv /\ ReadInv

-----------------------------------------------------------------------------
(* The smallest of a set of naturals, and the largest of a bounded one.    *)
NatBelow == {ss \in Nat \X Nat : ss[1] < ss[2]}

LEMMA LeastExists ==
    ASSUME NEW S \in SUBSET Nat, S # {}
    PROVE  \E x \in S : \A y \in S : x <= y
<1>1. IsWellFoundedOn(NatBelow, Nat)
  BY NatLessThanWellFounded DEF OpToRel, NatBelow
<1>2. \E x \in S : \A y \in S : <<y, x>> \notin NatBelow
  BY <1>1, WFMin, S \subseteq Nat
<1>3. \A x, y \in Nat : <<y, x>> \notin NatBelow => x <= y
  BY DEF NatBelow
<1>4. QED  BY <1>2, <1>3

LEMMA LeastIn ==
    ASSUME NEW S \in SUBSET Nat, S # {}
    PROVE  Min(S) \in S
BY LeastExists DEF Min

LEMMA GreatestExists ==
    ASSUME NEW S \in SUBSET Nat, S # {}, NEW n \in Nat, \A x \in S : x <= n
    PROVE  \E x \in S : \A y \in S : y <= x
<1> DEFINE above == {b \in Nat : \A x \in S : x <= b}
<1>1. PICK m \in above : \A b \in above : m <= b
  BY LeastExists
<1>2. SUFFICES ASSUME m \notin S PROVE FALSE
  BY <1>1
<1>3. \A x \in S : x < m
  BY <1>1, <1>2
<1>4. m > 0
  <2>1. PICK x \in S : x \in Nat
    OBVIOUS
  <2>2. x < m
    BY <1>3, <2>1
  <2>3. QED  BY <1>1, <2>1, <2>2
<1>5. m - 1 \in above
  BY <1>1, <1>3, <1>4
<1>6. QED  BY <1>1, <1>5

-----------------------------------------------------------------------------
(* The latest of facts.                                                    *)

(* Facts with numbers of their own have a latest among any of them. *)
LEMMA LatestExists ==
    ASSUME NEW facts \in SUBSET Facts, Bounded(facts), Distinct(facts),
           NEW some \in SUBSET facts, some # {}
    PROVE  Latest(some) \in some
<1> DEFINE numbers == {f.number : f \in some}
<1>1. numbers \in SUBSET Nat /\ numbers # {}
  BY DEF Facts
<1>2. PICK n \in Nat : \A x \in numbers : x <= n
  BY DEF Bounded
<1> HIDE DEF numbers
<1>3. PICK x \in numbers : \A y \in numbers : y <= x
  BY <1>1, <1>2, GreatestExists
<1> USE DEF numbers
<1>4. PICK f \in some : \A g \in some : g.number <= f.number
  BY <1>3
<1>5. \A g \in some \ {f} : g.number < f.number
  <2> TAKE g \in some \ {f}
  <2>1. g.number <= f.number /\ g.number # f.number
    BY <1>4 DEF Distinct
  <2>2. g.number \in Nat /\ f.number \in Nat
    BY DEF Facts
  <2>3. QED  BY <2>1, <2>2
<1>6. QED  BY <1>5 DEF Latest

(* The fact with the greatest number is the latest. *)
LEMMA LatestIs ==
    ASSUME NEW facts \in SUBSET Facts, NEW f \in facts,
           \A g \in facts \ {f} : g.number < f.number
    PROVE  Latest(facts) = f
<1> DEFINE IsLatest(h) == \A g \in facts \ {h} :
              g.number < h.number \/ (g.number = h.number /\ ~g.live)
<1>1. \A h \in facts : h.number \in Nat
  BY DEF Facts
<1>2. IsLatest(f)
  OBVIOUS
<1>3. \A h \in facts : IsLatest(h) => h = f
  <2> SUFFICES ASSUME NEW h \in facts, IsLatest(h), h # f PROVE FALSE
    OBVIOUS
  <2>1. h.number < f.number
    OBVIOUS
  <2>2. f.number <= h.number
    BY <1>1
  <2>3. QED  BY <1>1, <2>1, <2>2
<1>4. Latest(facts) = CHOOSE h \in facts : IsLatest(h)
  BY DEF Latest
<1> HIDE DEF IsLatest
<1>5. QED  BY <1>2, <1>3, <1>4

-----------------------------------------------------------------------------
(* Replaying facts, column by column.                                      *)

Assigned(facts) == {f \in facts : f.kind = "assigned"}
Told(facts) ==
    IF facts \ Assigned(facts) = {} THEN Opened
    ELSE Applied(Opened, Latest(facts \ Assigned(facts)))

LEMMA ReplayIs ==
    ASSUME NEW facts
    PROVE  Replay(facts) = IF Assigned(facts) = {} THEN Told(facts)
                           ELSE Applied(Told(facts), Latest(Assigned(facts)))
BY DEF Replay, Assigned, Told

(* Telling facts one by one keeps rows well-formed. *)
LEMMA AppliedType ==
    ASSUME NEW row \in ShownRows, NEW f \in Facts
    PROVE  /\ f.kind \in {"created", "closed", "reopened", "assigned"}
           /\ f.kind # "created" => Applied(row, f) \in ShownRows
           /\ Applied(Opened, f) \in ShownRows
           /\ f.kind # "assigned" => Applied(Opened, f).to = Nobody
           /\ f.kind = "assigned" => Applied(row, f) = [row EXCEPT !.to = f.who]
           /\ f.kind = "closed" => Applied(row, f) = [row EXCEPT !.status = "closed", !.by = f.who]
           /\ f.kind = "reopened" => Applied(row, f) = [row EXCEPT !.status = "open", !.by = Nobody]
<1> USE DEF Facts, People
<1>1. f.kind \in {"created", "closed", "reopened", "assigned"}
  OBVIOUS
<1>2. Opened = [status |-> "open", by |-> Nobody, to |-> Nobody]
  BY DEF Opened, NoProjection
<1>3. f.kind = "created" => Applied(Opened, f) = Opened
  BY <1>2 DEF Applied
<1>4. \A r : f.kind = "assigned" => Applied(r, f) = [r EXCEPT !.to = f.who]
  BY DEF Applied
<1>5. \A r : f.kind = "closed" => Applied(r, f) = [r EXCEPT !.status = "closed", !.by = f.who]
  BY DEF Applied
<1>6. \A r : f.kind = "reopened" => Applied(r, f) = [r EXCEPT !.status = "open", !.by = Nobody]
  BY DEF Applied
<1>7. CASE f.kind = "created"
  BY <1>2, <1>3, <1>7 DEF ShownRows
<1>8. CASE f.kind = "assigned"
  <2>1. \A r \in ShownRows : [r EXCEPT !.to = f.who] \in ShownRows
    BY DEF ShownRows
  <2>2. Opened \in ShownRows
    BY <1>2 DEF ShownRows
  <2>3. QED  BY <1>4, <1>8, <2>1, <2>2
<1>9. CASE f.kind = "closed"
  <2>1. \A r \in ShownRows : [r EXCEPT !.status = "closed", !.by = f.who] \in ShownRows
    BY DEF ShownRows
  <2>2. Opened \in ShownRows
    BY <1>2 DEF ShownRows
  <2>3. [Opened EXCEPT !.status = "closed", !.by = f.who].to = Nobody
    BY <1>2
  <2>4. QED  BY <1>5, <1>9, <2>1, <2>2, <2>3
<1>10. CASE f.kind = "reopened"
  <2>1. \A r \in ShownRows : [r EXCEPT !.status = "open", !.by = Nobody] \in ShownRows
    BY DEF ShownRows
  <2>2. Opened \in ShownRows
    BY <1>2 DEF ShownRows
  <2>3. [Opened EXCEPT !.status = "open", !.by = Nobody].to = Nobody
    BY <1>2
  <2>4. QED  BY <1>6, <1>10, <2>1, <2>2, <2>3
<1>11. QED  BY <1>1, <1>7, <1>8, <1>9, <1>10

(* What a set of facts with numbers of their own replays to. *)
LEMMA ToldType ==
    ASSUME NEW facts \in SUBSET Facts, Bounded(facts), Distinct(facts)
    PROVE  /\ Told(facts) \in ShownRows /\ Told(facts).to = Nobody
           /\ Assigned(facts) # {} =>
                 /\ Latest(Assigned(facts)) \in facts
                 /\ Replay(facts) = [Told(facts) EXCEPT !.to = Latest(Assigned(facts)).who]
           /\ Assigned(facts) = {} => Replay(facts) = Told(facts)
           /\ Replay(facts) \in ShownRows
<1>1. Opened \in ShownRows /\ Opened.to = Nobody
  BY DEF Opened, NoProjection, ShownRows, People
<1>2. Told(facts) \in ShownRows /\ Told(facts).to = Nobody
  <2>1. CASE facts \ Assigned(facts) = {}
    BY <1>1, <2>1 DEF Told
  <2>2. CASE facts \ Assigned(facts) # {}
    <3>1. Latest(facts \ Assigned(facts)) \in facts \ Assigned(facts)
      BY <2>2, LatestExists, facts \ Assigned(facts) \in SUBSET facts
    <3>2. PICK f \in Facts : f = Latest(facts \ Assigned(facts)) /\ f.kind # "assigned"
      BY <3>1 DEF Assigned
    <3>3. Applied(Opened, f) \in ShownRows /\ Applied(Opened, f).to = Nobody
      BY <1>1, <3>2, AppliedType
    <3>4. QED  BY <2>2, <3>2, <3>3 DEF Told
  <2>3. QED  BY <2>1, <2>2
<1>3. CASE Assigned(facts) = {}
  BY <1>2, <1>3, ReplayIs
<1>4. CASE Assigned(facts) # {}
  <2>1. Latest(Assigned(facts)) \in Assigned(facts)
    BY <1>4, LatestExists, Assigned(facts) \in SUBSET facts DEF Assigned
  <2>2. PICK f \in facts : f = Latest(Assigned(facts)) /\ f.kind = "assigned"
    BY <2>1 DEF Assigned
  <2>3. f \in Facts
    BY <2>2
  <2>4. Applied(Told(facts), f) \in ShownRows /\ Applied(Told(facts), f) = [Told(facts) EXCEPT !.to = f.who]
    BY <1>2, <2>2, <2>3, AppliedType
  <2>5. Replay(facts) = Applied(Told(facts), f)
    BY <1>4, <2>2, ReplayIs
  <2>6. QED  BY <1>2, <1>4, <2>2, <2>4, <2>5
<1>5. QED  BY <1>3, <1>4

LEMMA RowWith ==
    ASSUME NEW row \in ShownRows, NEW s \in {"open", "closed"}, NEW p \in People
    PROVE  [row EXCEPT !.status = s, !.by = p] = [status |-> s, by |-> p, to |-> row.to]
<1> DEFINE Rows == [status : {"open", "closed"}, by : People, to : People]
<1>1. row \in Rows
  BY DEF ShownRows
<1> PICK changed : changed = [row EXCEPT !.status = s, !.by = p]
  OBVIOUS
<1>2. changed \in Rows
  BY <1>1
<1>3. changed.status = s /\ changed.by = p /\ changed.to = row.to
  BY <1>1
<1>4. changed = [status |-> changed.status, by |-> changed.by, to |-> changed.to]
  BY <1>2
<1>5. QED  BY <1>3, <1>4

(* A fact numbered after all others takes effect after them. *)
LEMMA ReplayOneMore ==
    ASSUME NEW facts \in SUBSET Facts, Bounded(facts), Distinct(facts),
           NEW f \in Facts, f.kind # "created",
           \A g \in facts : g.number < f.number
    PROVE  /\ Replay(facts \cup {f}) = Applied(Replay(facts), f)
           /\ Replay(facts \cup {f}) \in ShownRows
           /\ Bounded(facts \cup {f}) /\ Distinct(facts \cup {f})
           /\ facts \cup {f} \in SUBSET Facts
<1> PICK more : more = facts \cup {f}
  OBVIOUS
<1>1. f.number \in Nat /\ \A g \in facts : g.number \in Nat
  BY DEF Facts
<1>2. Bounded(more)
  <2>1. \A g \in more : g.number <= f.number
    BY <1>1
  <2>2. QED  BY <1>1, <2>1 DEF Bounded
<1>3. Distinct(more)
  BY <1>1 DEF Distinct
<1>4. more \in SUBSET Facts
  OBVIOUS
<1>5. Told(facts) \in ShownRows /\ Told(facts).to = Nobody /\ Replay(facts) \in ShownRows
  BY ToldType
<1>6. Replay(more) = Applied(Replay(facts), f)
  <2>1. CASE f.kind = "assigned"
    <3>1. more \ Assigned(more) = facts \ Assigned(facts)
      BY <2>1 DEF Assigned
    <3>2. Told(more) = Told(facts)
      BY <3>1 DEF Told
    <3>3. Assigned(more) \in SUBSET Facts /\ f \in Assigned(more)
      BY <2>1, <1>4 DEF Assigned
    <3>4. \A g \in Assigned(more) \ {f} : g.number < f.number
      BY DEF Assigned
    <3>5. Latest(Assigned(more)) = f
      BY <3>3, <3>4, LatestIs
    <3>6. Replay(more) = [Told(facts) EXCEPT !.to = f.who]
      BY <1>2, <1>3, <1>4, <3>2, <3>3, <3>5, ToldType
    <3>7. Replay(facts) = Told(facts) \/ \E p : Replay(facts) = [Told(facts) EXCEPT !.to = p]
      BY ToldType
    <3>8. Applied(Replay(facts), f) = [Replay(facts) EXCEPT !.to = f.who]
      BY <1>5, <2>1, AppliedType
    <3>9. [Replay(facts) EXCEPT !.to = f.who] = [Told(facts) EXCEPT !.to = f.who]
      BY <1>5, <3>7 DEF ShownRows
    <3>10. QED  BY <3>6, <3>8, <3>9
  <2>2. CASE f.kind # "assigned"
    <3>1. Assigned(more) = Assigned(facts)
      BY <2>2 DEF Assigned
    <3>2. more \ Assigned(more) \in SUBSET Facts /\ f \in more \ Assigned(more)
      BY <2>2, <1>4 DEF Assigned
    <3>3. \A g \in (more \ Assigned(more)) \ {f} : g.number < f.number
      BY DEF Assigned
    <3>4. Latest(more \ Assigned(more)) = f
      BY <3>2, <3>3, LatestIs
    <3>5. Told(more) = Applied(Opened, f)
      BY <3>2, <3>4 DEF Told
    <3>6. \A r \in ShownRows : \A p \in People :
             Applied([r EXCEPT !.to = p], f) = [Applied(r, f) EXCEPT !.to = p]
      <4> TAKE r \in ShownRows
      <4> TAKE p \in People
      <4>1. [r EXCEPT !.to = p] \in ShownRows
        BY DEF ShownRows
      <4>2. f.kind \in {"closed", "reopened"}
        BY <2>2, AppliedType, <1>5
      <4>3. CASE f.kind = "closed"
        <5>1. Applied(r, f) = [r EXCEPT !.status = "closed", !.by = f.who]
          BY <4>3, AppliedType
        <5>2. Applied([r EXCEPT !.to = p], f) = [[r EXCEPT !.to = p] EXCEPT !.status = "closed", !.by = f.who]
          BY <4>1, <4>3, AppliedType
        <5>3. QED  BY <5>1, <5>2 DEF ShownRows
      <4>4. CASE f.kind = "reopened"
        <5>1. Applied(r, f) = [r EXCEPT !.status = "open", !.by = Nobody]
          BY <4>4, AppliedType
        <5>2. Applied([r EXCEPT !.to = p], f) = [[r EXCEPT !.to = p] EXCEPT !.status = "open", !.by = Nobody]
          BY <4>1, <4>4, AppliedType
        <5>3. QED  BY <5>1, <5>2 DEF ShownRows
      <4>5. QED  BY <4>2, <4>3, <4>4
    <3>7. \A r \in ShownRows : r.to = Nobody => Applied(r, f) = Applied(Opened, f)
      <4> TAKE r \in ShownRows
      <4> HAVE r.to = Nobody
      <4>0. Opened = [status |-> "open", by |-> Nobody, to |-> Nobody] /\ Opened \in ShownRows
        BY DEF Opened, NoProjection, ShownRows, People
      <4>2. f.kind \in {"closed", "reopened"}
        BY <2>2, AppliedType, <1>5
      <4>3. CASE f.kind = "closed"
        <5>1. Applied(r, f) = [r EXCEPT !.status = "closed", !.by = f.who]
          BY <4>3, AppliedType
        <5>2. Applied(Opened, f) = [Opened EXCEPT !.status = "closed", !.by = f.who]
          BY <4>0, <4>3, AppliedType
        <5>3. Opened.to = Nobody
          BY <4>0
        <5>4. f.who \in People /\ Nobody \in People
          BY DEF Facts, People
        <5>5. \A row \in ShownRows : \A s \in {"open", "closed"} : \A q \in People :
                 [row EXCEPT !.status = s, !.by = q] = [status |-> s, by |-> q, to |-> row.to]
          BY RowWith
        <5>6. Applied(r, f) = [status |-> "closed", by |-> f.who, to |-> Nobody]
          BY <5>1, <5>4, <5>5
        <5>7. Applied(Opened, f) = [status |-> "closed", by |-> f.who, to |-> Nobody]
          BY <4>0, <5>2, <5>3, <5>4, <5>5
        <5>8. QED  BY <5>6, <5>7
      <4>4. CASE f.kind = "reopened"
        <5>1. Applied(r, f) = [r EXCEPT !.status = "open", !.by = Nobody]
          BY <4>4, AppliedType
        <5>2. Applied(Opened, f) = [Opened EXCEPT !.status = "open", !.by = Nobody]
          BY <4>0, <4>4, AppliedType
        <5>3. Opened.to = Nobody
          BY <4>0
        <5>4. f.who \in People /\ Nobody \in People
          BY DEF Facts, People
        <5>5. \A row \in ShownRows : \A s \in {"open", "closed"} : \A q \in People :
                 [row EXCEPT !.status = s, !.by = q] = [status |-> s, by |-> q, to |-> row.to]
          BY RowWith
        <5>6. Applied(r, f) = [status |-> "open", by |-> Nobody, to |-> Nobody]
          BY <5>1, <5>4, <5>5
        <5>7. Applied(Opened, f) = [status |-> "open", by |-> Nobody, to |-> Nobody]
          BY <4>0, <5>2, <5>3, <5>4, <5>5
        <5>8. QED  BY <5>6, <5>7
      <4>5. QED  BY <4>2, <4>3, <4>4
    <3>8. Applied(Told(facts), f) = Told(more)
      BY <1>5, <3>5, <3>7
    <3>9. CASE Assigned(facts) = {}
      BY <1>2, <1>3, <1>4, <3>1, <3>8, <3>9, ToldType
    <3>10. CASE Assigned(facts) # {}
      <4>1. Latest(Assigned(facts)) \in facts
        BY <3>10, ToldType
      <4>2. PICK p \in People : p = Latest(Assigned(facts)).who
        BY <4>1 DEF Facts
      <4>3. Replay(facts) = [Told(facts) EXCEPT !.to = p]
        BY <3>10, <4>2, ToldType
      <4>4. Replay(more) = [Told(more) EXCEPT !.to = p]
        BY <3>10, <1>2, <1>3, <1>4, <3>1, <4>2, ToldType
      <4>5. Applied(Replay(facts), f) = [Applied(Told(facts), f) EXCEPT !.to = p]
        BY <1>5, <3>6, <4>3
      <4>6. QED  BY <3>8, <4>4, <4>5
    <3>11. QED  BY <3>9, <3>10
  <2>3. QED  BY <2>1, <2>2
<1>7. Replay(more) \in ShownRows
  BY <1>2, <1>3, <1>4, ToldType
<1>8. QED  BY <1>2, <1>3, <1>4, <1>6, <1>7

-----------------------------------------------------------------------------
(* Deriving facts.                                                         *)

LEMMA FromPostsType ==
    ASSUME NEW posts \in Seq(Posts)
    PROVE  /\ FromPosts(posts) \in SUBSET Facts
           /\ \A f \in FromPosts(posts) : f.number <= Len(posts)
           /\ Bounded(FromPosts(posts)) /\ Distinct(FromPosts(posts))
<1>1. \A f \in FromPosts(posts) : \E n \in 1 .. Len(posts) :
          /\ posts[n] \in Posts
          /\ f = LifecycleFact(n, IF posts[n] = Report THEN "created" ELSE posts[n].kind,
                               posts[n].who, FALSE)
  <2>1. DOMAIN posts = 1 .. Len(posts) /\ \A n \in 1 .. Len(posts) : posts[n] \in Posts
    OBVIOUS
  <2> TAKE f \in FromPosts(posts)
  <2>2. PICK n \in DOMAIN posts :
          f = LifecycleFact(n, IF posts[n] = Report THEN "created" ELSE posts[n].kind,
                            posts[n].who, FALSE)
    BY DEF FromPosts
  <2>3. QED  BY <2>1, <2>2
<1>2. \A f \in FromPosts(posts) : f \in Facts /\ f.number <= Len(posts)
  <2> TAKE f \in FromPosts(posts)
  <2>1. PICK n \in 1 .. Len(posts) :
          /\ posts[n] \in Posts
          /\ f = LifecycleFact(n, IF posts[n] = Report THEN "created" ELSE posts[n].kind,
                               posts[n].who, FALSE)
    BY <1>1
  <2>2. n \in Nat /\ n <= Len(posts)
    OBVIOUS
  <2>3. CASE posts[n] = Report
    BY <2>1, <2>2, <2>3 DEF Report, LifecycleFact, Facts, People
  <2>4. CASE posts[n] # Report
    BY <2>1, <2>2, <2>4 DEF Posts, LifecycleFact, Facts, People
  <2>5. QED  BY <2>3, <2>4
<1>3. \A n \in 1 .. Len(posts) : \A k, w :
          LifecycleFact(n, k, w, FALSE).number = n
  BY DEF LifecycleFact
<1>4. Distinct(FromPosts(posts))
  <2> SUFFICES ASSUME NEW f \in FromPosts(posts), NEW g \in FromPosts(posts),
                      f.number = g.number
               PROVE  f = g
    BY DEF Distinct
  <2>1. PICK n \in 1 .. Len(posts) :
          f = LifecycleFact(n, IF posts[n] = Report THEN "created" ELSE posts[n].kind,
                               posts[n].who, FALSE)
    BY <1>1
  <2>2. PICK k \in 1 .. Len(posts) :
          g = LifecycleFact(k, IF posts[k] = Report THEN "created" ELSE posts[k].kind,
                               posts[k].who, FALSE)
    BY <1>1
  <2>3. f.number = n /\ g.number = k
    BY <1>3, <2>1, <2>2
  <2>4. n = k
    BY <2>3
  <2>5. QED  BY <2>1, <2>2, <2>4
<1>5. Len(posts) \in Nat
  OBVIOUS
<1>6. QED  BY <1>2, <1>4, <1>5 DEF Bounded

(* Whatever the posts tell, the facts derived from them and from what the  *)
(* issue shows replay what it shows, which is the row written beside them. *)
LEMMA DerivedReplays ==
    ASSUME NEW posts \in Seq(Posts), NEW row \in ShownRows
    PROVE  /\ Derived(posts, row).facts \in SUBSET Facts
           /\ Bounded(Derived(posts, row).facts) /\ Distinct(Derived(posts, row).facts)
           /\ Replay(Derived(posts, row).facts) = row
           /\ Derived(posts, row).row = row
<1> PICK F : F = FromPosts(posts)
  OBVIOUS
<1> PICK n : n = Len(posts)
  OBVIOUS
<1>1. F \in SUBSET Facts /\ Bounded(F) /\ Distinct(F) /\ n \in Nat /\ \A f \in F : f.number <= n
  BY FromPostsType
<1>2. PICK told \in ShownRows : told = Replay(F)
  BY <1>1, ToldType
<1> PICK A : A = InferAssigned(told, row, n)
  OBVIOUS
<1> PICK m : m = n + Cardinality(A)
  OBVIOUS
<1> PICK S : S = InferStatus(told, row, m)
  OBVIOUS
<1>3. Derived(posts, row) = [facts |-> F \cup A \cup S, row |-> Reconciled(told, row)]
  BY <1>2 DEF Derived
<1>4. /\ F \cup A \in SUBSET Facts /\ Bounded(F \cup A) /\ Distinct(F \cup A)
      /\ m \in Nat /\ \A f \in F \cup A : f.number <= m
      /\ Replay(F \cup A) = [told EXCEPT !.to = row.to]
  <2>1. CASE told.to = row.to
    <3>1. A = {}
      BY <2>1 DEF InferAssigned
    <3>2. m = n
      BY <1>1, <3>1, FS_EmptySet
    <3>3. F \cup A = F
      BY <3>1
    <3>4. told = [told EXCEPT !.to = row.to]
      BY <2>1 DEF ShownRows
    <3>5. QED  BY <1>1, <1>2, <3>2, <3>3, <3>4
  <2>2. CASE told.to # row.to
    <3>1. PICK f : f = LifecycleFact(n + 1, "assigned", row.to, FALSE)
      OBVIOUS
    <3>2. A = {f}
      BY <2>2, <3>1 DEF InferAssigned
    <3>3. m = n + 1
      BY <1>1, <3>2, FS_Singleton
    <3>4. f \in Facts /\ f.kind = "assigned" /\ f.number = n + 1 /\ f.who = row.to
      BY <1>1, <3>1 DEF LifecycleFact, Facts, ShownRows
    <3>5. \A g \in F : g.number < f.number
      BY <1>1, <3>4 DEF Facts
    <3>6. Replay(F \cup {f}) = Applied(told, f) /\ Bounded(F \cup {f}) /\ Distinct(F \cup {f})
      BY <1>1, <1>2, <3>4, <3>5, ReplayOneMore
    <3>7. Applied(told, f) = [told EXCEPT !.to = row.to]
      BY <3>4 DEF Applied
    <3>8. \A g \in F \cup {f} : g.number <= m
      BY <1>1, <3>3, <3>4 DEF Facts
    <3>9. m \in Nat /\ F \cup {f} \in SUBSET Facts
      BY <1>1, <3>3, <3>4
    <3>10. QED  BY <3>2, <3>6, <3>7, <3>8, <3>9
  <2>3. QED  BY <2>1, <2>2
<1>5. PICK now \in ShownRows : now = [told EXCEPT !.to = row.to] /\ now = Replay(F \cup A)
  <2>1. [told EXCEPT !.to = row.to] \in ShownRows
    BY DEF ShownRows
  <2>2. QED  BY <1>4, <2>1
<1> DEFINE Tells(facts) ==
             facts \in SUBSET Facts /\ Bounded(facts) /\ Distinct(facts) /\ Replay(facts) = row
<1>6. Tells(F \cup A \cup S)
  <2>0. now.to = row.to /\ now.status = told.status /\ now.by = told.by
    BY <1>5 DEF ShownRows
  <2>1. ASSUME NEW f \in Facts, S = {f}, f.number = m + 1, f.kind \in {"closed", "reopened"},
               Applied(now, f) = row
        PROVE  Tells(F \cup A \cup S)
    <3>1. \A g \in F \cup A : g.number < f.number
      BY <1>4, <2>1 DEF Facts
    <3>2. PICK seen : seen = F \cup A
      OBVIOUS
    <3>3. /\ seen \in SUBSET Facts /\ Bounded(seen) /\ Distinct(seen)
          /\ f.kind # "created" /\ \A g \in seen : g.number < f.number
      BY <1>4, <2>1, <3>1, <3>2
    <3>4. /\ Replay(seen \cup {f}) = Applied(Replay(seen), f)
          /\ Bounded(seen \cup {f}) /\ Distinct(seen \cup {f})
          /\ seen \cup {f} \in SUBSET Facts
      BY ONLY f \in Facts, <3>3, ReplayOneMore
    <3>5. QED  BY <1>5, <2>1, <3>2, <3>4
  <2>2. CASE row.status = "closed" /\ (told.status # "closed" \/ told.by # row.by)
    <3>1. PICK f : f = LifecycleFact(m + 1, "closed", row.by, FALSE)
      OBVIOUS
    <3>2. S = {f}
      BY <2>2, <3>1 DEF InferStatus
    <3>3. f \in Facts /\ f.kind = "closed" /\ f.number = m + 1 /\ f.who = row.by
      BY <1>4, <3>1 DEF LifecycleFact, Facts, ShownRows
    <3>4. Applied(now, f) = [now EXCEPT !.status = "closed", !.by = row.by]
      BY <3>3 DEF Applied
    <3>5. Applied(now, f) = row
      <4>1. row.status = "closed" /\ now.to = row.to
        BY <2>0, <2>2
      <4>2. [now EXCEPT !.status = "closed", !.by = row.by] = row
        BY <4>1 DEF ShownRows
      <4>3. QED  BY <3>4, <4>2
    <3>6. QED  BY <2>1, <3>2, <3>3, <3>5
  <2>3. CASE row.status = "open" /\ told.status # "open"
    <3>1. PICK f : f = LifecycleFact(m + 1, "reopened", Nobody, FALSE)
      OBVIOUS
    <3>2. S = {f}
      BY <2>3, <3>1 DEF InferStatus
    <3>3. f \in Facts /\ f.kind = "reopened" /\ f.number = m + 1
      BY <1>4, <3>1 DEF LifecycleFact, Facts, People
    <3>4. Applied(now, f) = [now EXCEPT !.status = "open", !.by = Nobody]
      BY <3>3 DEF Applied
    <3>5. row.by = Nobody
      BY <2>3 DEF ShownRows
    <3>6. Applied(now, f) = row
      BY <2>0, <2>3, <3>4, <3>5, ZenonT(30) DEF ShownRows
    <3>7. QED  BY <2>1, <3>2, <3>3, <3>6
  <2>4. CASE /\ ~(row.status = "closed" /\ (told.status # "closed" \/ told.by # row.by))
             /\ ~(row.status = "open" /\ told.status # "open")
    <3>1. S = {}
      BY <2>4 DEF InferStatus
    <3>2. told.status = row.status /\ told.by = row.by
      BY <2>4 DEF ShownRows
    <3>3. now = row
      BY <2>0, <3>2 DEF ShownRows
    <3>4. F \cup A \cup S = F \cup A
      BY <3>1
    <3>5. QED  BY <1>4, <1>5, <3>3, <3>4
  <2>5. QED  BY <2>2, <2>3, <2>4
<1>7. Reconciled(told, row) = row
  BY DEF Reconciled, ShownRows
<1>8. QED  BY <1>3, <1>6, <1>7

-----------------------------------------------------------------------------
(* Steps of the backfill alone.                                            *)

LEMMA ShownType ==
    ASSUME TablesInv, NEW i \in Issue
    PROVE  Shown(i) \in ShownRows
<1>1. lifecycleRow[i] \in ShownRows \cup {NoProjection}
  BY DEF TablesInv
<1>2. PICK r : r = issueRow[i]
  OBVIOUS
<1>3. r.status \in {"open", "closed"} /\ r.to \in People
  BY <1>2 DEF TablesInv
<1>4. [status |-> r.status, by |-> Nobody, to |-> r.to] \in ShownRows
  BY <1>3 DEF ShownRows, People
<1>5. QED  BY <1>1, <1>2, <1>4 DEF Shown

LEMMA AtHandIsNext ==
    ASSUME FillTypeOK, fill.todo # {}
    PROVE  AtHand \in fill.todo /\ AtHand \in Issue
BY LeastIn, LifecycleBackfillAssumption DEF AtHand, FillTypeOK

LEMMA TablesKept ==
    ASSUME TablesInv, UNCHANGED <<issueTables, command, settled, overlapped>>
    PROVE  TablesInv' /\ \A i \in Issue : Shown(i)' = Shown(i)
<1>1. /\ issueRow' = issueRow /\ thread' = thread /\ lifecycleFacts' = lifecycleFacts
      /\ lifecycleRow' = lifecycleRow /\ command' = command
      /\ settled' = settled /\ overlapped' = overlapped
  BY DEF issueTables
<1>2. \A i : Shown(i)' = Shown(i)
  BY <1>1 DEF Shown
<1>3. FactsInv' = FactsInv
  BY <1>1 DEF FactsInv
<1>4. CommandInv' = CommandInv
  BY <1>1, <1>2 DEF CommandInv
<1>5. SettledInv' = SettledInv
  BY <1>1 DEF SettledInv
<1>6. FactsTellTheIssue' = FactsTellTheIssue
  BY <1>1 DEF FactsTellTheIssue
<1>7. QED  BY <1>1, <1>2, <1>3, <1>4, <1>5, <1>6 DEF TablesInv

LEMMA EmptyFill ==
    ASSUME TablesInv',
           NEW at \in {"idle", "issue", "mark"}, NEW todo \in SUBSET Issue, NEW last,
           fill' = [at |-> at, todo |-> todo, last |-> last, shown |-> NoProjection,
                    posts |-> <<>>, wrote |-> {}, touched |-> {}]
    PROVE  LifecycleFillInv'
<1>1. fill'.at = at /\ fill'.todo = todo /\ fill'.wrote = {}
  OBVIOUS
<1>2. FillTypeOK'
  BY <1>1 DEF FillTypeOK
<1>3. WritesInv' /\ ReadInv'
  BY <1>1 DEF WritesInv, ReadInv
<1>4. QED  BY <1>2, <1>3 DEF LifecycleFillInv

(* A backfill without a transaction, or with an empty one. *)
LEMMA FillStartsOver ==
    ASSUME TablesInv, UNCHANGED <<issueTables, command, settled, overlapped>>,
           NEW at \in {"idle", "issue", "mark"}, NEW todo \in SUBSET Issue, NEW last,
           fill' = [at |-> at, todo |-> todo, last |-> last, shown |-> NoProjection,
                    posts |-> <<>>, wrote |-> {}, touched |-> {}]
    PROVE  LifecycleFillInv'
<1>1. TablesInv'
  BY TablesKept
<1>2. QED  BY <1>1, EmptyFill

LEMMA StartBatchKeeps == ASSUME LifecycleFillInv, StartBatch PROVE LifecycleFillInv'
<1>1. Batch \in SUBSET Issue
  BY DEF Batch, Remaining
<1>2. fill' = [at |-> "issue", todo |-> Batch, last |-> Max(Batch), shown |-> NoProjection,
               posts |-> <<>>, wrote |-> {}, touched |-> {}]
  BY DEF StartBatch, IdleFill
<1>3. QED  BY <1>1, <1>2, FillStartsOver DEF LifecycleFillInv, StartBatch

LEMMA FillEnds ==
    ASSUME LifecycleFillInv, fill' = IdleFill,
           UNCHANGED <<issueTables, command, settled, overlapped>>
    PROVE  LifecycleFillInv'
<1>1. fill' = [at |-> "idle", todo |-> {}, last |-> 0, shown |-> NoProjection,
               posts |-> <<>>, wrote |-> {}, touched |-> {}]
  BY DEF IdleFill
<1>2. QED  BY <1>1, FillStartsOver DEF LifecycleFillInv

LEMMA RerunKeeps == ASSUME LifecycleFillInv, Rerun PROVE LifecycleFillInv'
BY FillEnds DEF Rerun

LEMMA WritesKept ==
    ASSUME WritesInv, UNCHANGED issueTables,
           fill'.wrote = fill.wrote, fill'.touched = fill.touched, fill'.todo = fill.todo
    PROVE  WritesInv'
<1>1. lifecycleFacts' = lifecycleFacts /\ thread' = thread
      /\ lifecycleRow' = lifecycleRow /\ issueRow' = issueRow
  BY DEF issueTables
<1>2. \A i : Shown(i)' = Shown(i)
  BY <1>1 DEF Shown
<1>3. \A w : WriteInv(w) => WriteInv(w)'
  BY <1>1, <1>2 DEF WriteInv
<1>4. QED  BY <1>3 DEF WritesInv

LEMMA ReadIssueKeeps == ASSUME LifecycleFillInv, ReadIssue PROVE LifecycleFillInv'
<1> USE DEF LifecycleFillInv
<1>1. TablesInv' /\ \A i \in Issue : Shown(i)' = Shown(i)
  BY TablesKept DEF ReadIssue
<1>2. AtHand \in fill.todo /\ AtHand \in Issue
  BY AtHandIsNext DEF ReadIssue
<1>3. PICK row \in ShownRows : row = Shown(AtHand)
  BY <1>2, ShownType
<1>4. fill' = [at |-> "posts", todo |-> fill.todo, last |-> fill.last, shown |-> row,
               posts |-> fill.posts, wrote |-> fill.wrote, touched |-> fill.touched]
  BY <1>3 DEF ReadIssue, FillTypeOK
<1>5. /\ fill'.at = "posts" /\ fill'.todo = fill.todo /\ fill'.shown = row
      /\ fill'.wrote = fill.wrote /\ fill'.touched = fill.touched
  BY <1>4
<1>6. FillTypeOK'
  BY <1>2, <1>4, <1>5 DEF FillTypeOK
<1>7. WritesInv'
  BY <1>5, WritesKept DEF ReadIssue
<1>8. AtHand' = AtHand
  BY <1>5 DEF AtHand
<1>9. ReadInv'
  BY <1>1, <1>2, <1>3, <1>5, <1>8 DEF ReadInv
<1>10. QED  BY <1>1, <1>6, <1>7, <1>9

LEMMA ReadPostsKeeps == ASSUME LifecycleFillInv, ReadPosts PROVE LifecycleFillInv'
<1> USE DEF LifecycleFillInv
<1>1. TablesInv' /\ \A i \in Issue : Shown(i)' = Shown(i)
  BY TablesKept DEF ReadPosts
<1>2. AtHand \in fill.todo /\ AtHand \in Issue /\ fill.shown \in ShownRows
  BY AtHandIsNext DEF ReadPosts, FillTypeOK
<1>3. PICK posts \in Seq(Posts) : posts = thread[AtHand]
  BY <1>2 DEF TablesInv
<1>4. fill' = [at |-> "replace", todo |-> fill.todo, last |-> fill.last, shown |-> fill.shown,
               posts |-> posts, wrote |-> fill.wrote, touched |-> fill.touched]
  BY <1>3 DEF ReadPosts, FillTypeOK
<1>5. /\ fill'.at = "replace" /\ fill'.todo = fill.todo /\ fill'.shown = fill.shown
      /\ fill'.posts = posts
      /\ fill'.wrote = fill.wrote /\ fill'.touched = fill.touched
  BY <1>4
<1>6. FillTypeOK'
  BY <1>2, <1>4, <1>5 DEF FillTypeOK
<1>7. WritesInv'
  BY <1>5, WritesKept DEF ReadPosts
<1>8. AtHand' = AtHand /\ thread' = thread
  BY <1>5 DEF AtHand, ReadPosts, issueTables
<1>9. ReadInv'
  BY <1>1, <1>2, <1>3, <1>5, <1>8 DEF ReadInv, ReadPosts
<1>10. QED  BY <1>1, <1>6, <1>7, <1>9

(* The derived facts and row take the place of what there is. *)
LEMMA ReplaceFactsKeeps == ASSUME LifecycleFillInv, ReplaceFacts PROVE LifecycleFillInv'
<1> USE DEF LifecycleFillInv
<1>1. TablesInv' /\ \A i \in Issue : Shown(i)' = Shown(i)
  BY TablesKept DEF ReplaceFacts
<1>2. PICK i \in Issue : i = AtHand /\ i \in fill.todo
  BY AtHandIsNext DEF ReplaceFacts, FillTypeOK
<1>3. fill.at = "replace" /\ fill.posts \in Seq(Posts) /\ fill.shown \in ShownRows
  BY DEF ReplaceFacts, FillTypeOK
<1> PICK posts \in Seq(Posts) : posts = fill.posts
  BY <1>3
<1> PICK row \in ShownRows : row = fill.shown
  BY <1>3
<1> PICK facts : facts = Derived(posts, row).facts
  OBVIOUS
<1>4. /\ facts \in SUBSET Facts /\ Bounded(facts) /\ Distinct(facts) /\ Replay(facts) = row
      /\ Derived(posts, row).row = row
  BY DerivedReplays
<1> PICK w : w = [issue |-> i, gone |-> lifecycleFacts[i], facts |-> facts, row |-> row]
  OBVIOUS
<1>5. w.issue = i /\ w.gone = lifecycleFacts[i] /\ w.facts = facts /\ w.row = row
  OBVIOUS
<1>6. fill' = [at |-> "issue", todo |-> fill.todo \ {i}, last |-> fill.last, shown |-> fill.shown,
               posts |-> fill.posts, wrote |-> fill.wrote \cup {w}, touched |-> fill.touched]
  BY <1>2, <1>4 DEF ReplaceFacts, FillTypeOK
<1>7. /\ fill'.at = "issue" /\ fill'.todo = fill.todo \ {i}
      /\ fill'.wrote = fill.wrote \cup {w} /\ fill'.touched = fill.touched
  BY <1>6
<1>8. FillTypeOK'
  BY <1>6, <1>7 DEF FillTypeOK
<1>9. lifecycleFacts' = lifecycleFacts /\ thread' = thread
  BY DEF ReplaceFacts, issueTables
<1>10. \A v \in fill.wrote : WriteInv(v)'
  <2> SUFFICES ASSUME NEW v \in fill.wrote PROVE WriteInv(v)'
    OBVIOUS
  <2>1. WriteInv(v)
    BY DEF WritesInv
  <2>2. Shown(v.issue)' = Shown(v.issue)
    BY <1>1, <2>1 DEF WriteInv
  <2>3. QED  BY <1>7, <1>9, <2>1, <2>2 DEF WriteInv
<1>11. WriteInv(w)'
  <2>1. i \notin fill.touched => row = Shown(i) /\ posts = thread[i]
    BY <1>2, <1>3 DEF ReadInv
  <2>2. i \notin fill.touched => row = Shown(i)' /\ facts = Derived(thread[i], Shown(i)').facts
    BY <1>1, <2>1
  <2>3. QED  BY <1>4, <1>5, <1>7, <1>9, <2>2 DEF WriteInv
<1>12. \A v \in fill.wrote : v.issue # i
  BY <1>2 DEF WritesInv, WriteInv
<1>13. WritesInv'
  BY <1>5, <1>7, <1>10, <1>11, <1>12 DEF WritesInv
<1>14. ReadInv'
  BY <1>7 DEF ReadInv
<1>15. QED  BY <1>1, <1>8, <1>13, <1>14

LEMMA NoProjectionIsNotShown == NoProjection \notin ShownRows
BY DEF NoProjection, ShownRows

(* The rows and facts written, and nothing else, take effect. *)
LEMMA WritesCommit ==
    ASSUME LifecycleFillInv, CommitBatch
    PROVE  /\ \A w \in fill.wrote : /\ w.issue \in Issue
                                    /\ lifecycleFacts'[w.issue] = w.facts
                                    /\ lifecycleRow'[w.issue] = w.row
           /\ \A i \in Issue \ Written : /\ lifecycleFacts'[i] = lifecycleFacts[i]
                                         /\ lifecycleRow'[i] = lifecycleRow[i]
<1> DEFINE write(i) == CHOOSE w \in fill.wrote : w.issue = i
<1>1. \A w \in fill.wrote : write(w.issue) = w
  BY DEF LifecycleFillInv, WritesInv
<1>2. /\ lifecycleFacts' = [i \in Issue |->
               IF i \in Written THEN (lifecycleFacts[i] \ write(i).gone) \cup write(i).facts
               ELSE lifecycleFacts[i]]
      /\ lifecycleRow' = [i \in Issue |-> IF i \in Written THEN write(i).row ELSE lifecycleRow[i]]
  BY DEF CommitBatch
<1> HIDE DEF write
<1>3. ASSUME NEW w \in fill.wrote
      PROVE  /\ w.issue \in Issue
             /\ lifecycleFacts'[w.issue] = w.facts
             /\ lifecycleRow'[w.issue] = w.row
  <2>1. w.issue \in Issue /\ w.gone = lifecycleFacts[w.issue]
    BY DEF LifecycleFillInv, WritesInv, WriteInv
  <2>2. w.issue \in Written
    BY DEF Written
  <2>3. lifecycleFacts'[w.issue] = (lifecycleFacts[w.issue] \ w.gone) \cup w.facts
    BY <1>1, <1>2, <2>1, <2>2
  <2>4. lifecycleRow'[w.issue] = w.row
    BY <1>1, <1>2, <2>1, <2>2
  <2>5. QED  BY <2>1, <2>3, <2>4
<1>4. QED  BY <1>2, <1>3

LEMMA CommitBatchKeeps == ASSUME LifecycleFillInv, CommitBatch PROVE LifecycleFillInv'
<1> PICK raced : raced = fill.touched \cup (Written \cap {command.issue})
  OBVIOUS
<1>1. /\ settled' = (settled \cup Written) \ raced
      /\ overlapped' = (overlapped \ Written) \cup raced
      /\ issueRow' = issueRow /\ thread' = thread /\ command' = command
      /\ fill.todo = {}
  BY DEF CommitBatch
<1>2. \A w \in fill.wrote : WriteInv(w)
  BY DEF LifecycleFillInv, WritesInv
<1>3. \A w \in fill.wrote : /\ w.issue \in Issue
                            /\ lifecycleFacts'[w.issue] = w.facts
                            /\ lifecycleRow'[w.issue] = w.row
  BY WritesCommit
<1>4. \A i \in Issue \ Written : /\ lifecycleFacts'[i] = lifecycleFacts[i]
                                 /\ lifecycleRow'[i] = lifecycleRow[i]
                                 /\ Shown(i)' = Shown(i)
  BY <1>1, WritesCommit DEF Shown
<1>5. \A i \in Written : \E w \in fill.wrote : w.issue = i
  BY DEF Written
<1>6. lifecycleFacts' \in [Issue -> SUBSET Facts]
  <2>1. \A i \in Issue : lifecycleFacts'[i] \in SUBSET Facts
    <3> TAKE i \in Issue
    <3>1. CASE i \in Written
      <4>1. PICK w \in fill.wrote : w.issue = i
        BY <1>5, <3>1
      <4>2. w.facts \in SUBSET Facts
        BY <1>2 DEF WriteInv
      <4>3. QED  BY <1>3, <4>1, <4>2
    <3>2. CASE i \notin Written
      BY <1>4, <3>2 DEF LifecycleFillInv, TablesInv
    <3>3. QED  BY <3>1, <3>2
  <2>2. \E F : lifecycleFacts' = [i \in Issue |-> F[i]]
    <3>1. lifecycleFacts' = [i \in Issue |-> lifecycleFacts'[i]]
      BY DEF CommitBatch
    <3>2. QED  BY <3>1
  <2>3. QED  BY <2>1, <2>2
<1>7. lifecycleRow' \in [Issue -> ShownRows \cup {NoProjection}]
  <2>1. \A i \in Issue : lifecycleRow'[i] \in ShownRows \cup {NoProjection}
    <3> TAKE i \in Issue
    <3>1. CASE i \in Written
      <4>1. PICK w \in fill.wrote : w.issue = i
        BY <1>5, <3>1
      <4>2. w.row \in ShownRows
        BY <1>2 DEF WriteInv
      <4>3. QED  BY <1>3, <4>1, <4>2
    <3>2. CASE i \notin Written
      BY <1>4, <3>2 DEF LifecycleFillInv, TablesInv
    <3>3. QED  BY <3>1, <3>2
  <2>2. \E F : lifecycleRow' = [i \in Issue |-> F[i]]
    <3>1. lifecycleRow' = [i \in Issue |-> lifecycleRow'[i]]
      BY DEF CommitBatch
    <3>2. QED  BY <3>1
  <2>3. QED  BY <2>1, <2>2
<1>8. FactsInv'
  <2> SUFFICES ASSUME NEW i \in Issue
               PROVE  /\ lifecycleFacts'[i] # {} => lifecycleRow'[i] # NoProjection
                      /\ Bounded(lifecycleFacts'[i])
                      /\ i \notin overlapped' => Distinct(lifecycleFacts'[i])
    BY DEF FactsInv
  <2>1. CASE i \in Written
    <3>1. PICK w \in fill.wrote : w.issue = i
      BY <1>5, <2>1
    <3>2. w.row \in ShownRows /\ Bounded(w.facts) /\ Distinct(w.facts)
      BY <1>2 DEF WriteInv
    <3>3. QED  BY <1>3, <3>1, <3>2, NoProjectionIsNotShown
  <2>2. CASE i \notin Written
    <3>1. i \notin overlapped' => i \notin overlapped
      BY <1>1, <2>2
    <3>2. QED  BY <1>4, <2>2, <3>1 DEF LifecycleFillInv, TablesInv, FactsInv
  <2>3. QED  BY <2>1, <2>2
<1>9. FactsTellTheIssue'
  <2> SUFFICES ASSUME NEW i \in Issue, i \notin overlapped',
                      \E f \in lifecycleFacts'[i] : f.kind = "created"
               PROVE  Replay(lifecycleFacts'[i]) = lifecycleRow'[i]
    BY DEF FactsTellTheIssue
  <2>1. CASE i \in Written
    <3>1. PICK w \in fill.wrote : w.issue = i
      BY <1>5, <2>1
    <3>2. Replay(w.facts) = w.row
      BY <1>2 DEF WriteInv
    <3>3. QED  BY <1>3, <3>1, <3>2
  <2>2. CASE i \notin Written
    <3>1. i \notin overlapped
      BY <1>1, <2>2
    <3>2. QED  BY <1>4, <2>2, <3>1 DEF LifecycleFillInv, TablesInv, FactsTellTheIssue
  <2>3. QED  BY <2>1, <2>2
<1>10. CommandInv'
  <2> SUFFICES ASSUME command # NoCommand, command.issue \notin overlapped'
               PROVE  /\ command.shown = Shown(command.issue)'
                      /\ \A f \in lifecycleFacts'[command.issue] : f.number < command.number
    BY <1>1 DEF CommandInv
  <2>1. command.issue \in Issue
    BY DEF LifecycleFillInv, TablesInv, Commands
  <2>2. command.issue \notin Written /\ command.issue \notin overlapped
    BY <1>1
  <2>3. PICK i \in Issue \ Written : i = command.issue
    BY <2>1, <2>2
  <2>4. /\ command.shown = Shown(i)
        /\ \A f \in lifecycleFacts[i] : f.number < command.number
    BY <2>2, <2>3 DEF LifecycleFillInv, TablesInv, CommandInv
  <2>5. lifecycleFacts'[i] = lifecycleFacts[i] /\ Shown(i)' = Shown(i)
    BY <1>4
  <2>6. command'.issue = i
    BY <1>1, <2>3
  <2>7. QED  BY <1>1, <2>3, <2>4, <2>5, <2>6 DEF Shown
<1>11. SettledInv'
  <2> SUFFICES ASSUME NEW i \in Issue, i \in settled'
               PROVE  /\ lifecycleRow'[i] # NoProjection
                      /\ lifecycleFacts'[i] = Derived(thread[i], lifecycleRow'[i]).facts
    BY <1>1 DEF SettledInv
  <2>1. CASE i \in Written
    <3>1. PICK w \in fill.wrote : w.issue = i
      BY <1>5, <2>1
    <3>2. i \notin fill.touched
      BY <1>1
    <3>3. w.row \in ShownRows /\ w.row = Shown(i) /\ w.facts = Derived(thread[i], Shown(i)).facts
      BY <1>2, <3>1, <3>2 DEF WriteInv
    <3>4. QED  BY <1>3, <3>1, <3>3, NoProjectionIsNotShown
  <2>2. CASE i \notin Written
    <3>1. i \in settled
      BY <1>1, <2>2
    <3>2. QED  BY <1>4, <2>2, <3>1 DEF LifecycleFillInv, TablesInv, SettledInv
  <2>3. QED  BY <2>1, <2>2
<1>12. TablesInv'
  BY <1>1, <1>6, <1>7, <1>8, <1>9, <1>10, <1>11 DEF LifecycleFillInv, TablesInv
<1>13. fill' = [at |-> "mark", todo |-> {}, last |-> fill.last, shown |-> NoProjection,
                posts |-> <<>>, wrote |-> {}, touched |-> {}]
  BY DEF CommitBatch, IdleFill
<1>14. QED  BY <1>12, <1>13, EmptyFill DEF LifecycleFillInv

(* What CommandReads adds one to. *)
LEMMA GreatestIs ==
    ASSUME NEW S \in SUBSET Nat, S # {}, NEW n \in Nat, \A x \in S : x <= n
    PROVE  Max(S) \in S /\ \A y \in S : y <= Max(S)
<1>1. \E x \in S : \A y \in S : x >= y
  <2>1. PICK x \in S : \A y \in S : y <= x
    BY GreatestExists
  <2>2. \A y \in S : x \in Nat /\ y \in Nat
    OBVIOUS
  <2>3. QED  BY <2>1, <2>2
<1>2. Max(S) \in S /\ \A y \in S : Max(S) >= y
  BY <1>1 DEF Max
<1>3. QED  BY <1>2

LEMMA FreshNumber ==
    ASSUME NEW facts \in SUBSET Facts, Bounded(facts),
           NEW n, n = Max({f.number : f \in facts} \cup {0}) + 1
    PROVE  n \in Nat /\ \A f \in facts : f.number < n
<1> PICK S : S = {f.number : f \in facts} \cup {0}
  OBVIOUS
<1>1. S \in SUBSET Nat /\ S # {}
  BY DEF Facts
<1>2. PICK b \in Nat : \A x \in S : x <= b
  BY DEF Bounded
<1>3. Max(S) \in S /\ \A y \in S : y <= Max(S)
  BY <1>1, <1>2, GreatestIs
<1>4. \A f \in facts : f.number \in S
  OBVIOUS
<1>5. PICK m \in Nat : m = Max(S)
  BY <1>1, <1>3
<1>6. \A f \in facts : f.number \in Nat /\ f.number <= m
  BY <1>1, <1>3, <1>4, <1>5
<1>7. n = m + 1
  BY <1>5
<1>8. QED  BY <1>6, <1>7

LEMMA CommandReadsKeeps ==
    ASSUME LifecycleFillInv,
           NEW i \in Issue, NEW kind \in {"closed", "reopened", "assigned"},
           NEW who \in People, NEW post \in BOOLEAN, CommandReads(i, kind, who, post)
    PROVE  LifecycleFillInv'
<1>1. /\ issueRow' = issueRow /\ thread' = thread /\ lifecycleFacts' = lifecycleFacts
      /\ lifecycleRow' = lifecycleRow /\ fill' = fill
      /\ settled' = settled /\ overlapped' = overlapped
  BY DEF CommandReads, issueTables
<1>2. \A j : Shown(j)' = Shown(j)
  BY <1>1 DEF Shown
<1>3. PICK n : n = Max({f.number : f \in lifecycleFacts[i]} \cup {0}) + 1
  OBVIOUS
<1>4. n \in Nat /\ \A f \in lifecycleFacts[i] : f.number < n
  BY <1>3, FreshNumber DEF LifecycleFillInv, TablesInv, FactsInv
<1>5. PICK row \in ShownRows : row = Shown(i)
  BY ShownType DEF LifecycleFillInv
<1>6. command' = [issue |-> i, kind |-> kind, who |-> who, post |-> post, number |-> n, shown |-> row]
  BY <1>3, <1>5 DEF CommandReads
<1>7. command' \in Commands
  BY <1>4, <1>6 DEF Commands
<1>8. command'.issue = i /\ command'.number = n /\ command'.shown = Shown(i)
  BY <1>5, <1>6
<1>9. CommandInv'
  BY <1>1, <1>2, <1>4, <1>8 DEF CommandInv
<1>10. FactsInv' /\ SettledInv' /\ FactsTellTheIssue'
  BY <1>1 DEF LifecycleFillInv, TablesInv, FactsInv, SettledInv, FactsTellTheIssue
<1>11. TablesInv'
  BY <1>1, <1>7, <1>9, <1>10 DEF LifecycleFillInv, TablesInv
<1>12. WritesInv'
  <2>1. UNCHANGED issueTables
    BY <1>1 DEF issueTables
  <2>2. QED  BY <1>1, <2>1, WritesKept DEF LifecycleFillInv
<1>13. FillTypeOK'
  BY <1>1 DEF LifecycleFillInv, FillTypeOK
<1>14. AtHand' = AtHand
  BY <1>1 DEF AtHand
<1>15. ReadInv'
  BY <1>1, <1>2, <1>14 DEF LifecycleFillInv, ReadInv
<1>16. QED  BY <1>11, <1>12, <1>13, <1>15 DEF LifecycleFillInv

LEMMA CommandCommitsKeeps ==
    ASSUME LifecycleFillInv, CommandCommits PROVE LifecycleFillInv'
<1>1. command \in Commands
  BY DEF LifecycleFillInv, TablesInv, CommandCommits
<1>2. PICK i \in Issue : i = command.issue
  BY <1>1 DEF Commands
<1>3. PICK fact \in Facts :
         /\ fact = LifecycleFact(command.number, command.kind, command.who, TRUE)
         /\ fact.number = command.number /\ fact.kind # "created"
  <2>1. PICK fact : fact = LifecycleFact(command.number, command.kind, command.who, TRUE)
    OBVIOUS
  <2>2. fact \in Facts /\ fact.number = command.number /\ fact.kind # "created"
    BY <1>1, <2>1 DEF Commands, LifecycleFact, Facts
  <2>3. QED  BY <2>1, <2>2
<1>4. /\ i \notin Written
      /\ lifecycleFacts' = [lifecycleFacts EXCEPT ![i] = @ \cup {fact}]
      /\ lifecycleRow' = [lifecycleRow EXCEPT ![i] = Applied(command.shown, fact)]
      /\ command' = NoCommand
      /\ settled' = settled \ {i}
      /\ issueRow' = issueRow /\ overlapped' = overlapped
  BY <1>2, <1>3 DEF CommandCommits
<1>5. /\ lifecycleFacts \in [Issue -> SUBSET Facts]
      /\ lifecycleRow \in [Issue -> ShownRows \cup {NoProjection}]
      /\ thread \in [Issue -> Seq(Posts)]
      /\ FactsInv /\ CommandInv /\ SettledInv /\ FactsTellTheIssue
  BY DEF LifecycleFillInv, TablesInv
<1>6. thread' \in [Issue -> Seq(Posts)] /\ \A j \in Issue \ {i} : thread'[j] = thread[j]
  <2>1. PICK p : p = [kind |-> command.kind, who |-> command.who]
    OBVIOUS
  <2>2. p \in Posts
    BY <1>1, <2>1 DEF Commands, Posts
  <2>3. thread' = IF command.post THEN [thread EXCEPT ![i] = Append(@, p)] ELSE thread
    BY <1>2, <2>1 DEF CommandCommits
  <2>4. \A s \in Seq(Posts) : Append(s, p) \in Seq(Posts)
    BY <2>2
  <2>5. QED  BY <1>5, <2>3, <2>4
<1>7. PICK row \in ShownRows : row = Applied(command.shown, fact)
  <2>1. command.shown \in ShownRows
    BY <1>1 DEF Commands
  <2>2. QED  BY <1>3, <2>1, AppliedType
<1>8. /\ lifecycleFacts'[i] = lifecycleFacts[i] \cup {fact}
      /\ lifecycleRow'[i] = row
      /\ \A j \in Issue \ {i} : /\ lifecycleFacts'[j] = lifecycleFacts[j]
                                /\ lifecycleRow'[j] = lifecycleRow[j]
                                /\ Shown(j)' = Shown(j)
  BY <1>4, <1>5, <1>7 DEF Shown
<1>9. /\ lifecycleFacts' \in [Issue -> SUBSET Facts]
      /\ lifecycleRow' \in [Issue -> ShownRows \cup {NoProjection}]
  BY <1>4, <1>5, <1>7
<1>10. Bounded(lifecycleFacts[i]) /\ lifecycleFacts[i] \in SUBSET Facts
  BY <1>5 DEF FactsInv
<1>11. Bounded(lifecycleFacts'[i])
  <2>1. PICK n \in Nat : \A f \in lifecycleFacts[i] : f.number <= n
    BY <1>10 DEF Bounded
  <2>2. fact.number \in Nat /\ \A f \in lifecycleFacts[i] : f.number \in Nat
    BY <1>10 DEF Facts
  <2>3. n + fact.number \in Nat /\ \A f \in lifecycleFacts'[i] : f.number <= n + fact.number
    BY <1>8, <2>1, <2>2
  <2>4. QED  BY <2>3 DEF Bounded
<1>12. i \notin overlapped =>
          /\ command.shown = Shown(i)
          /\ Replay(lifecycleFacts'[i]) = Applied(Replay(lifecycleFacts[i]), fact)
          /\ Distinct(lifecycleFacts'[i])
  <2> SUFFICES ASSUME i \notin overlapped
               PROVE  /\ command.shown = Shown(i)
                      /\ Replay(lifecycleFacts'[i]) = Applied(Replay(lifecycleFacts[i]), fact)
                      /\ Distinct(lifecycleFacts'[i])
    OBVIOUS
  <2>1. command.shown = Shown(i) /\ \A f \in lifecycleFacts[i] : f.number < fact.number
    BY <1>2, <1>3, <1>5 DEF CommandCommits, CommandInv
  <2>2. Distinct(lifecycleFacts[i])
    BY <1>5 DEF FactsInv
  <2>3. QED  BY <1>3, <1>8, <1>10, <2>1, <2>2, ReplayOneMore
<1>13. FactsInv'
  <2> SUFFICES ASSUME NEW j \in Issue
               PROVE  /\ lifecycleFacts'[j] # {} => lifecycleRow'[j] # NoProjection
                      /\ Bounded(lifecycleFacts'[j])
                      /\ j \notin overlapped => Distinct(lifecycleFacts'[j])
    BY <1>4 DEF FactsInv
  <2>1. CASE j = i
    BY <1>8, <1>11, <1>12, <2>1, NoProjectionIsNotShown
  <2>2. CASE j # i
    BY <1>5, <1>8, <2>2 DEF FactsInv
  <2>3. QED  BY <2>1, <2>2
<1>14. FactsTellTheIssue'
  <2> SUFFICES ASSUME NEW j \in Issue, j \notin overlapped,
                      \E f \in lifecycleFacts'[j] : f.kind = "created"
               PROVE  Replay(lifecycleFacts'[j]) = lifecycleRow'[j]
    BY <1>4 DEF FactsTellTheIssue
  <2>1. CASE j = i
    <3>1. \E f \in lifecycleFacts[i] : f.kind = "created"
      BY <1>3, <1>8, <2>1
    <3>2. Replay(lifecycleFacts[i]) = lifecycleRow[i]
      BY <1>5, <2>1, <3>1 DEF FactsTellTheIssue
    <3>3. lifecycleRow[i] # NoProjection
      BY <1>5, <3>1 DEF FactsInv
    <3>4. Shown(i) = lifecycleRow[i]
      BY <3>3 DEF Shown
    <3>5. QED  BY <1>7, <1>8, <1>12, <2>1, <3>2, <3>4
  <2>2. CASE j # i
    BY <1>5, <1>8, <2>2 DEF FactsTellTheIssue
  <2>3. QED  BY <2>1, <2>2
<1>15. SettledInv'
  BY <1>4, <1>5, <1>6, <1>8 DEF SettledInv
<1>16. CommandInv'
  BY <1>4 DEF CommandInv
<1>17. TablesInv'
  BY <1>4, <1>6, <1>9, <1>13, <1>14, <1>15, <1>16 DEF TablesInv, LifecycleFillInv
<1>18. fill' = [at |-> fill.at, todo |-> fill.todo, last |-> fill.last,
                shown |-> fill.shown, posts |-> fill.posts, wrote |-> fill.wrote,
                touched |-> fill.touched \cup ({i} \cap InHand)]
  BY <1>2 DEF CommandCommits, LifecycleFillInv, FillTypeOK
<1>19. /\ fill'.at = fill.at /\ fill'.todo = fill.todo /\ fill'.shown = fill.shown
       /\ fill'.posts = fill.posts /\ fill'.wrote = fill.wrote
       /\ fill'.touched = fill.touched \cup ({i} \cap InHand)
  BY <1>18
<1>20. FillTypeOK'
  BY <1>18, <1>19 DEF LifecycleFillInv, FillTypeOK
<1>21. WritesInv'
  <2> SUFFICES ASSUME NEW w \in fill.wrote PROVE WriteInv(w)'
    BY <1>19 DEF WritesInv, LifecycleFillInv
  <2>1. WriteInv(w)
    BY DEF WritesInv, LifecycleFillInv
  <2>2. w.issue \in Issue \ {i}
    BY <1>4, <2>1 DEF WriteInv, Written
  <2>3. PICK j \in Issue \ {i} : j = w.issue
    BY <2>2
  <2>4. lifecycleFacts'[j] = lifecycleFacts[j] /\ Shown(j)' = Shown(j) /\ thread'[j] = thread[j]
    BY <1>6, <1>8
  <2>5. QED  BY <1>19, <2>1, <2>3, <2>4 DEF WriteInv
<1>22. ReadInv'
  <2> SUFFICES ASSUME fill.at \in {"posts", "replace"}, AtHand \notin fill'.touched
               PROVE  /\ fill.shown = Shown(AtHand)'
                      /\ fill.at = "replace" => fill.posts = thread'[AtHand]
    BY <1>19 DEF ReadInv, AtHand
  <2>1. PICK j \in Issue : j = AtHand
    BY AtHandIsNext DEF LifecycleFillInv, FillTypeOK
  <2>2. j \in InHand
    BY <2>1 DEF InHand
  <2>3. j # i /\ j \notin fill.touched
    BY <1>19, <2>1, <2>2
  <2>4. Shown(j)' = Shown(j) /\ thread'[j] = thread[j]
    BY <1>6, <1>8, <2>3
  <2>5. AtHand' = j
    BY <1>19, <2>1 DEF AtHand
  <2>6. QED  BY <2>1, <2>3, <2>4, <2>5 DEF ReadInv, LifecycleFillInv
<1>23. QED  BY <1>17, <1>20, <1>21, <1>22 DEF LifecycleFillInv

-----------------------------------------------------------------------------
LEMMA OneFact ==
    ASSUME NEW f, f.number = 1
    PROVE  Bounded({f}) /\ Distinct({f}) /\ Bounded({}) /\ Distinct({})
<1>1. \A g \in {f} : g.number <= 1
  OBVIOUS
<1>2. \A g \in {} : g.number <= 1
  OBVIOUS
<1>3. QED  BY <1>1, <1>2 DEF Bounded, Distinct

LEMMA LifecycleFillStarts == LifecycleBackfillInit => LifecycleFillInv
<1> SUFFICES ASSUME LifecycleBackfillInit PROVE LifecycleFillInv
  OBVIOUS
<1> USE DEF LifecycleBackfillInit
<1> PICK f : f = LifecycleFact(1, "created", Nobody, TRUE)
  OBVIOUS
<1>1. f \in Facts /\ f.number = 1 /\ f.kind = "created"
  BY DEF LifecycleFact, Facts, People
<1>2. Opened = [status |-> "open", by |-> Nobody, to |-> Nobody] /\ Opened \in ShownRows
  BY DEF Opened, NoProjection, ShownRows, People
<1>3. Replay({f}) = Opened
  <2>1. Assigned({f}) = {}
    BY <1>1 DEF Assigned
  <2>2. Latest({f}) = f
    <3>1. {f} \in SUBSET Facts /\ f \in {f} /\ {f} \ {f} = {}
      BY <1>1
    <3>2. \A g \in {f} \ {f} : g.number < f.number
      BY <3>1
    <3>3. QED  BY <3>1, <3>2, LatestIs
  <2>3. Applied(Opened, f) = Opened
    BY <1>1, <1>2 DEF Applied
  <2>4. Told({f}) = Opened
    BY <2>1, <2>2, <2>3 DEF Told
  <2>5. QED  BY <2>1, <2>4, ReplayIs
<1>4. Bounded({f}) /\ Distinct({f}) /\ Bounded({}) /\ Distinct({})
  BY <1>1, OneFact
<1>5. \A i \in Issue : \/ lifecycleFacts[i] = {} /\ lifecycleRow[i] = NoProjection
                       \/ lifecycleFacts[i] = {f} /\ lifecycleRow[i] = Opened
  OBVIOUS
<1>6. /\ lifecycleFacts \in [Issue -> SUBSET Facts]
      /\ lifecycleRow \in [Issue -> ShownRows \cup {NoProjection}]
  BY <1>1, <1>2, <1>5
<1>7. FactsInv /\ FactsTellTheIssue
  BY <1>2, <1>3, <1>4, <1>5, NoProjectionIsNotShown DEF FactsInv, FactsTellTheIssue
<1>8. LegacyThreads \in SUBSET Seq(Posts)
  <2>1. Report \in Posts /\ \A k \in {"closed", "reopened", "assigned"}, p \in People :
            [kind |-> k, who |-> p] \in Posts
    BY DEF Posts
  <2>2. <<Report>> \in Seq(Posts)
    BY <2>1
  <2>3. \A p \in Posts : <<Report, p>> \in Seq(Posts)
    BY <2>1
  <2>4. \A p, q \in Posts : <<Report, p, q>> \in Seq(Posts)
    BY <2>1
  <2>5. \A s \in LegacyThreads :
           \/ s = <<Report>>
           \/ \E p \in Posts : s = <<Report, p>>
           \/ \E p, q \in Posts : s = <<Report, p, q>>
    <3> TAKE s \in LegacyThreads
    <3>1. CASE s = <<Report>>
      BY <3>1
    <3>2. CASE \E k \in {"closed", "assigned"}, w \in Person :
                 s = <<Report, [kind |-> k, who |-> w]>>
      BY <2>1, <3>2 DEF People
    <3>3. CASE \E w \in Person :
                 s = <<Report, [kind |-> "closed", who |-> w], [kind |-> "reopened", who |-> Nobody]>>
      <4>1. PICK w \in Person :
                 s = <<Report, [kind |-> "closed", who |-> w], [kind |-> "reopened", who |-> Nobody]>>
        BY <3>3
      <4>2. [kind |-> "closed", who |-> w] \in Posts /\ [kind |-> "reopened", who |-> Nobody] \in Posts
        BY DEF Posts, People
      <4>3. QED  BY <4>1, <4>2
    <3>4. QED  BY <3>1, <3>2, <3>3 DEF LegacyThreads
  <2>6. ASSUME NEW s \in LegacyThreads PROVE s \in Seq(Posts)
    BY <2>2, <2>3, <2>4, <2>5
  <2>7. QED  BY <2>6
<1>9. thread \in [Issue -> Seq(Posts)]
  BY <1>8
<1>10. CommandInv /\ SettledInv
  BY DEF CommandInv, SettledInv
<1>11. TablesInv
  BY <1>6, <1>7, <1>9, <1>10 DEF TablesInv, People
<1>12. fill = [at |-> "idle", todo |-> {}, last |-> 0, shown |-> NoProjection,
               posts |-> <<>>, wrote |-> {}, touched |-> {}]
  BY DEF IdleFill
<1>13. fill.at = "idle" /\ fill.todo = {} /\ fill.wrote = {}
  BY <1>12
<1>14. FillTypeOK
  BY <1>12, <1>13 DEF FillTypeOK
<1>15. WritesInv /\ ReadInv
  BY <1>13 DEF WritesInv, ReadInv
<1>16. QED  BY <1>11, <1>14, <1>15 DEF LifecycleFillInv

LEMMA LifecycleFillStep ==
    LifecycleFillInv /\ [LifecycleBackfillNext]_lifecycleBackfillVars => LifecycleFillInv'
<1> SUFFICES ASSUME LifecycleFillInv, [LifecycleBackfillNext]_lifecycleBackfillVars
             PROVE  LifecycleFillInv'
  OBVIOUS
<1>1. CASE BackfillStep
  <2>1. Checkpoint \/ BackfillDies => LifecycleFillInv'
    BY FillEnds DEF Checkpoint, BackfillDies
  <2>2. QED  BY <1>1, <2>1, StartBatchKeeps, ReadIssueKeeps, ReadPostsKeeps,
                ReplaceFactsKeeps, CommitBatchKeeps, RerunKeeps DEF BackfillStep
<1>2. CASE CommandCommits
  BY <1>2, CommandCommitsKeeps
<1>3. CASE \E i \in Issue, kind \in {"closed", "reopened", "assigned"},
              who \in Person \cup {Nobody}, post \in BOOLEAN : CommandReads(i, kind, who, post)
  BY <1>3, CommandReadsKeeps DEF People
<1>4. CASE UNCHANGED lifecycleBackfillVars
  <2>1. /\ UNCHANGED <<issueTables, command, settled, overlapped>> /\ fill' = fill
    BY <1>4 DEF lifecycleBackfillVars
  <2>2. TablesInv' /\ \A i \in Issue : Shown(i)' = Shown(i)
    BY <2>1, TablesKept DEF LifecycleFillInv
  <2>3. WritesInv'
    BY <2>1, WritesKept DEF LifecycleFillInv
  <2>4. FillTypeOK'
    BY <2>1 DEF LifecycleFillInv, FillTypeOK
  <2>5. ReadInv'
    <3>1. AtHand' = AtHand /\ thread' = thread
      BY <2>1 DEF AtHand, issueTables
    <3>2. fill.at \in {"posts", "replace"} => AtHand \in Issue
      BY AtHandIsNext DEF LifecycleFillInv, FillTypeOK
    <3>3. QED  BY <2>1, <2>2, <3>1, <3>2 DEF LifecycleFillInv, ReadInv
  <2>6. QED  BY <2>2, <2>3, <2>4, <2>5 DEF LifecycleFillInv
<1>5. QED  BY <1>1, <1>2, <1>3, <1>4 DEF LifecycleBackfillNext

(* The inductive invariant of the lifecycle backfill beside commands       *)
(* (appendonly/lifecycle.go, lifecycle_persistence.go).                    *)
THEOREM LifecycleBackfillInvariant == LifecycleBackfillSpec => []LifecycleFillInv
BY LifecycleFillStarts, LifecycleFillStep, PTL DEF LifecycleBackfillSpec

(* However commands, batches, crashes and reruns follow each other, an     *)
(* issue that none of them raced on has a projection that replays its      *)
(* facts, live and inferred ones together (buildLifecycleProjection).      *)
THEOREM BackfilledFactsTell == LifecycleBackfillSpec => []FactsTellTheIssue
<1>1. LifecycleFillInv => FactsTellTheIssue
  BY DEF LifecycleFillInv, TablesInv
<1>2. QED  BY <1>1, LifecycleBackfillInvariant, PTL

(* A step of the backfill leaves what issues show, and a second backfill   *)
(* of the same issue writes what is there (replaceFactsForIssue).          *)
LEMMA BackfillKeeps ==
    LifecycleFillInv /\ BackfillStep =>
        \A i \in Issue :
          /\ i \notin fill.touched => Shown(i)' = Shown(i)
          /\ i \in settled /\ i \notin fill.touched
                => UNCHANGED <<lifecycleFacts[i], lifecycleRow[i]>>
<1> SUFFICES ASSUME LifecycleFillInv, BackfillStep, NEW i \in Issue, i \notin fill.touched
             PROVE  /\ Shown(i)' = Shown(i)
                    /\ i \in settled => UNCHANGED <<lifecycleFacts[i], lifecycleRow[i]>>
  OBVIOUS
<1>1. CASE ~CommitBatch
  <2>1. lifecycleFacts' = lifecycleFacts /\ lifecycleRow' = lifecycleRow /\ issueRow' = issueRow
    BY <1>1 DEF BackfillStep, StartBatch, ReadIssue, ReadPosts, ReplaceFacts, Checkpoint,
                BackfillDies, Rerun, issueTables
  <2>2. QED  BY <2>1 DEF Shown
<1>2. CASE CommitBatch
  <2>1. issueRow' = issueRow
    BY <1>2 DEF CommitBatch
  <2>2. CASE i \notin Written
    <3>1. lifecycleFacts'[i] = lifecycleFacts[i] /\ lifecycleRow'[i] = lifecycleRow[i]
      BY <1>2, <2>2, WritesCommit
    <3>2. QED  BY <2>1, <3>1 DEF Shown
  <2>3. CASE i \in Written
    <3>1. PICK w \in fill.wrote : w.issue = i
      BY <2>3 DEF Written
    <3>2. lifecycleFacts'[i] = w.facts /\ lifecycleRow'[i] = w.row
      BY <1>2, <3>1, WritesCommit
    <3>3. w.row = Shown(i) /\ w.row \in ShownRows /\ w.facts = Derived(thread[i], Shown(i)).facts
      BY <3>1 DEF LifecycleFillInv, WritesInv, WriteInv
    <3>4. Shown(i)' = Shown(i)
      BY <3>2, <3>3, NoProjectionIsNotShown DEF Shown
    <3>5. ASSUME i \in settled PROVE UNCHANGED <<lifecycleFacts[i], lifecycleRow[i]>>
      <4>1. lifecycleRow[i] # NoProjection /\ lifecycleFacts[i] = Derived(thread[i], lifecycleRow[i]).facts
        BY <3>5 DEF LifecycleFillInv, TablesInv, SettledInv
      <4>2. Shown(i) = lifecycleRow[i]
        BY <4>1 DEF Shown
      <4>3. QED  BY <3>2, <3>3, <4>1, <4>2
    <3>6. QED  BY <3>4, <3>5
  <2>4. QED  BY <2>2, <2>3
<1>3. QED  BY <1>1, <1>2

(* No batch, crash or rerun changes what an untouched issue shows, and an  *)
(* issue untouched since its last backfill keeps its facts.                *)
THEOREM BackfillKeepsShown == LifecycleBackfillSpec => BackfillKeepsIssues
<1>1. LifecycleFillInv /\ [LifecycleBackfillNext]_lifecycleBackfillVars =>
         [BackfillStep => \A i \in Issue :
            /\ i \notin fill.touched => Shown(i)' = Shown(i)
            /\ i \in settled /\ i \notin fill.touched
                  => UNCHANGED <<lifecycleFacts[i], lifecycleRow[i]>>]_lifecycleBackfillVars
  BY BackfillKeeps
<1>2. QED  BY <1>1, LifecycleBackfillInvariant, PTL DEF LifecycleBackfillSpec, BackfillKeepsIssues
===============================================================================
