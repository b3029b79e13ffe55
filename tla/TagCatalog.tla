----------------------------- MODULE TagCatalog -----------------------------
(***************************************************************************)
(* The tag catalog: an append-only stream of events per tag, a projection  *)
(* of each stream, the history of merges and the tags issues carry.        *)
(* Runtime writers take an advisory lock per tag until they commit. The    *)
(* backfill, which seeds the streams from the legacy tables and rebuilds   *)
(* every projection, takes none: only the unique indexes and the rows it   *)
(* writes stand between it and the writers.                                *)
(***************************************************************************)
EXTENDS Naturals, Sequences, FiniteSets, SequencesExt

CONSTANTS
    TagName,      \* names of tags
    LegacyTag,    \* tags with a row in the legacy table, which is not written to
    TaggedIssue,  \* issues
    Writers,      \* transactions of the runtime
    NoTag,
    MaxBegun,     \* bound: transactions that begin
    MaxTagRuns    \* bound: runs of the backfill

ASSUME TagAssumption ==
    /\ LegacyTag \subseteq TagName /\ NoTag \notin TagName
    /\ MaxBegun \in Nat /\ MaxTagRuns \in Nat

(* Descriptions and scores are abstracted to two values each besides none. *)
Value == {"none", "legacy", "live"}

VARIABLES
    events,      \* events[t]: the stream of t; its position numbers an event
    projection,  \* projection[t]: the row of t
    merged,      \* rows of tag_merge_history in the order of their commits
    base,        \* base[i]: tags in the issues row of i
    shown,       \* shown[i]: tags in its content projection, or {}
    writing,     \* writing[w]: the transaction of w
    analysed,    \* analysed[i]: how far an enrichment of i is, and its tags
    seeding,     \* the backfill
    begun,       \* how many transactions have begun, their now()
    runs,        \* how often the backfill has begun
    touched,     \* history: tags committed to since the backfill began
    raced,       \* history: tags committed to during the last backfill
    crossed      \* history: issues enriched across a merge or with an alias

tagVars == <<events, projection, merged, base, shown, writing, analysed, seeding,
             begun, runs, touched, raced, crossed>>

streams == <<events, projection, merged>>
carried == <<base, shown, analysed, crossed>>
backfill == <<seeding, runs, touched, raced>>

NoTagRow == [status |-> "none", canonical |-> NoTag, text |-> "none", score |-> "none", count |-> 0]
FirstRow == [NoTagRow EXCEPT !.status = "active"]

(* row: the history row a backfilled merge stands for; from: its source.   *)
NoEvent == [kind |-> "none", from |-> "none", text |-> "none", score |-> "none",
            canonical |-> NoTag, row |-> 0]
TagEvent(kind, from) == [NoEvent EXCEPT !.kind = kind, !.from = from]

Or(value, otherwise) == IF value = "none" THEN otherwise ELSE value
RowOrFirst(row) == IF row = NoTagRow THEN FirstRow ELSE row

(* by: the writer whose transaction stores the tags. *)
NoAnalysis == [at |-> "idle", tags |-> <<>>, by |-> {}]

(* Mutants: an upsert that revives a merged tag, a backfill that seeds a   *)
(* legacy tag on every run or replays merges in reverse, an enrichment     *)
(* that does not wait until its tags are stored.                           *)
Revives(row, text) == [RowOrFirst(row) EXCEPT !.status = "active", !.text = Or(text, @),
                                              !.count = @ + 1]
NeverSeeded(t, from, row) == FALSE
LatestFirst(m, n) == m.at > n.at \/ (m.at = n.at /\ m.id < n.id)
Unawaited(i) == analysed[i].at # "idle"

-----------------------------------------------------------------------------
(* What a runtime event makes of the row.                                  *)

MergeUpsert(row, text) ==
    [RowOrFirst(row) EXCEPT !.text = Or(text, @), !.count = @ + 1]

MergeScore(row, score) == [RowOrFirst(row) EXCEPT !.score = score, !.count = @ + 1]

MergeMerged(row, canonical) ==
    [RowOrFirst(row) EXCEPT !.status = "merged", !.canonical = canonical, !.count = @ + 1]

(* What the backfill makes of an event: reduceTagProjection. *)
Reduced(row, e) ==
    CASE e.kind \in {"observed_state", "upserted"} ->
             [row EXCEPT !.text = Or(e.text, @), !.score = Or(e.score, @), !.count = @ + 1]
      [] e.kind = "specificity_updated" -> [row EXCEPT !.score = e.score, !.count = @ + 1]
      [] e.kind = "merged" ->
             [row EXCEPT !.status = "merged", !.canonical = e.canonical, !.count = @ + 1]

Replayed(stream) == IF stream = <<>> THEN NoTagRow ELSE FoldLeft(Reduced, FirstRow, stream)

-----------------------------------------------------------------------------
(* Runtime transactions. todo: the (tag, event) pairs still to append;     *)
(* rows, new: rows and events of the tags it holds the lock of.            *)

NoTx == [open |-> FALSE, todo |-> <<>>, rows |-> [t \in {} |-> NoTagRow],
         new |-> [t \in {} |-> <<>>], issues |-> [i \in {} |-> {}],
         aliases |-> <<>>, canonical |-> NoTag, at |-> 0]

Open(w) == writing[w].open
Held(w) == DOMAIN writing[w].rows

Begin(w, tx) ==
    /\ ~Open(w)
    /\ begun < MaxBegun
    /\ begun' = begun + 1
    /\ writing' = [writing EXCEPT ![w] = tx]
    /\ UNCHANGED <<streams, backfill>>

UpsertTx(names, text) ==
    [NoTx EXCEPT !.open = TRUE,
       !.todo = [n \in DOMAIN names |-> <<names[n], [TagEvent("upserted", "live")
                                                       EXCEPT !.text = text]>>]]

(* UpsertTags and UpdateTagSpecificity (of tags in the catalog). *)
UpsertTags(w, names, text) == Begin(w, UpsertTx(names, text)) /\ UNCHANGED carried

UpdateTagSpecificity(w, t) ==
    /\ projection[t].status = "active"
    /\ Begin(w, [NoTx EXCEPT !.open = TRUE,
                   !.todo = <<<<t, [TagEvent("specificity_updated", "live")
                                      EXCEPT !.score = "live"]>>>>])
    /\ UNCHANGED carried

MergedList(tags, canonical, aliases) ==
    IF tags \cap aliases = {} THEN tags ELSE (tags \ aliases) \cup {canonical}

(* MergeTags lists the tags of the issues table and writes the tags of the *)
(* issues it changes to the content; then the canonical tag, if it has no  *)
(* row, and the aliases get their events. rescored: issues with scores the *)
(* merge changes; scores are left out, which issues have some is open.     *)
MergeTags(w, canonical, aliases, rescored) ==
    LET gone == ToSet(aliases)
        changed == {i \in TaggedIssue : MergedList(base[i], canonical, gone) # base[i]}
                   \cup rescored IN
    /\ canonical \notin gone
    /\ Begin(w, [NoTx EXCEPT !.open = TRUE, !.at = begun + 1,
                   !.canonical = canonical, !.aliases = aliases,
                   !.issues = [i \in changed |-> MergedList(base[i], canonical, gone)],
                   !.todo = <<<<canonical, TagEvent("observed_state", "live")>>>> \o
                            [n \in DOMAIN aliases |->
                               <<aliases[n], [TagEvent("merged", "live")
                                                EXCEPT !.canonical = canonical]>>]])
    /\ UNCHANGED carried

NextRow(row, e) ==
    CASE e.kind = "upserted" -> MergeUpsert(row, e.text)
      [] e.kind = "specificity_updated" -> MergeScore(row, e.score)
      [] e.kind = "merged" -> MergeMerged(row, e.canonical)
      [] e.kind = "observed_state" -> MergeUpsert(row, "none")

(* ensureActiveTagProjection leaves a tag that has a row alone. *)
Appends(row, e) == e.kind # "observed_state" \/ row = NoTagRow

With(f, t, x) == [s \in DOMAIN f \cup {t} |-> IF s = t THEN x ELSE f[s]]

(* Lock the tag, load its row, insert the event after its count and write  *)
(* the row. An insert waits for an event of the backfill with its number,  *)
(* and fails if the number is taken.                                       *)
AppendEvent(w) ==
    LET tx == writing[w] t == Head(tx.todo)[1] e == Head(tx.todo)[2]
        row == projection[t] IN
    /\ Open(w) /\ tx.todo # <<>>
    /\ \A v \in Writers \ {w} : t \notin Held(v)
    /\ Appends(row, e) => row.count = Len(events[t]) /\ seeding.new[t] = <<>>
    /\ writing' = [writing EXCEPT ![w] =
         [tx EXCEPT !.todo = Tail(@),
                    !.rows = With(@, t, IF Appends(row, e) THEN NextRow(row, e) ELSE row),
                    !.new = With(@, t, IF Appends(row, e) THEN <<e>> ELSE <<>>)]]
    /\ UNCHANGED <<streams, carried, backfill, begun>>

CommittedEvents(new) == [t \in TagName |-> events[t] \o (IF t \in DOMAIN new THEN new[t] ELSE <<>>)]

(* The enrichment whose tags w was to store goes on. *)
Released(w, at) ==
    [i \in TaggedIssue |-> IF w \in analysed[i].by
                          THEN IF at = "idle" THEN NoAnalysis
                               ELSE [analysed[i] EXCEPT !.at = at, !.by = {}]
                          ELSE analysed[i]]

Commit(w) ==
    LET tx == writing[w] changed == {t \in Held(w) : tx.new[t] # <<>>} IN
    /\ Open(w) /\ tx.todo = <<>>
    /\ events' = CommittedEvents(tx.new)
    /\ projection' = [t \in TagName |-> IF t \in changed THEN tx.rows[t] ELSE projection[t]]
    /\ merged' = merged \o [n \in DOMAIN tx.aliases |->
                              [canonical |-> tx.canonical, alias |-> tx.aliases[n],
                               at |-> tx.at, id |-> Len(merged) + n]]
    /\ shown' = [i \in TaggedIssue |-> IF i \in DOMAIN tx.issues THEN tx.issues[i] ELSE shown[i]]
    /\ crossed' = IF tx.aliases = <<>> THEN crossed
                  ELSE crossed \cup {i \in TaggedIssue : analysed[i] # NoAnalysis}
    /\ analysed' = Released(w, "stored")
    /\ touched' = touched \cup changed
    /\ writing' = [writing EXCEPT ![w] = NoTx]
    /\ UNCHANGED <<base, seeding, begun, runs, raced>>

(* The transaction fails, or the database breaks a cycle of waits. *)
Abort(w) ==
    /\ Open(w)
    /\ writing' = [writing EXCEPT ![w] = NoTx]
    /\ analysed' = Released(w, "idle")
    /\ UNCHANGED <<streams, base, shown, crossed, backfill, begun>>

-----------------------------------------------------------------------------
(* An enrichment: the model scores tags, from the catalog or of its own,   *)
(* a transaction stores them, and those to display are written to the      *)
(* content projection, not to the issues row.                              *)

(* The last merge t was part of made it an alias. *)
Alias(t) ==
    \E n \in DOMAIN merged :
        /\ merged[n].at # 0 /\ merged[n].alias = t
        /\ \A m \in n + 1 .. Len(merged) : t \notin {merged[m].alias, merged[m].canonical}

(* The prompt offers active tags, or the built-in ones if there are none,  *)
(* and shows the tags of memories; a tag outside of it is kept too.        *)
Analyse(i, names) ==
    /\ analysed[i] = NoAnalysis
    /\ analysed' = [analysed EXCEPT ![i] =
         [at |-> IF names = <<>> THEN "stored" ELSE "chosen", tags |-> names, by |-> {}]]
    /\ crossed' = IF \E n \in DOMAIN names : Alias(names[n]) THEN crossed \cup {i} ELSE crossed
    /\ UNCHANGED <<streams, base, shown, writing, begun, backfill>>

(* EnsureStoredTags upserts every tag, stored already or not. *)
StoreTags(i, w, text) ==
    /\ analysed[i].at = "chosen"
    /\ Begin(w, UpsertTx(analysed[i].tags, text))
    /\ analysed' = [analysed EXCEPT ![i].at = "storing", ![i].by = {w}]
    /\ UNCHANGED <<base, shown, crossed>>

Stored(i) == analysed[i].at = "stored"

(* tags: those with the highest scores. *)
WriteTags(i, tags) ==
    /\ Stored(i)
    /\ \A w \in Writers : i \notin DOMAIN writing[w].issues
    /\ tags \subseteq ToSet(analysed[i].tags)
    /\ shown' = [shown EXCEPT ![i] = tags]
    /\ analysed' = [analysed EXCEPT ![i] = NoAnalysis]
    /\ crossed' = IF \E w \in Writers : writing[w].aliases # <<>>
                  THEN crossed \cup {i} ELSE crossed
    /\ UNCHANGED <<streams, base, writing, begun, backfill>>

AnalysisFails(i) ==
    /\ analysed[i].at \in {"chosen", "stored"}
    /\ analysed' = [analysed EXCEPT ![i] = NoAnalysis]
    /\ UNCHANGED <<streams, base, shown, crossed, writing, begun, backfill>>

-----------------------------------------------------------------------------
(* TagStore.BackfillBatch. The merge history is read before the            *)
(* transaction; the legacy table does not change.                          *)

NoNew == [t \in TagName |-> <<>>]
NotSeeding == [at |-> "idle", history |-> <<>>, new |-> NoNew, rows |-> [t \in TagName |-> NoTagRow]]

BackfillTags ==
    /\ seeding = NotSeeding
    /\ runs < MaxTagRuns
    /\ runs' = runs + 1
    /\ seeding' = [NotSeeding EXCEPT !.at = "seed", !.history = merged]
    /\ touched' = {}
    /\ UNCHANGED <<streams, carried, writing, begun, raced>>

(* ON CONFLICT (source, source_id) DO NOTHING. *)
AlreadySeeded(t, from, row) ==
    \E n \in DOMAIN events[t] : events[t][n].from = from /\ events[t][n].row = row

Seed(new, t, e) == IF AlreadySeeded(t, e.from, e.row) THEN new ELSE [new EXCEPT ![t] = Append(@, e)]

LegacySeeds(new) ==
    [t \in TagName |-> IF t \in LegacyTag
                       THEN Seed(new, t, [TagEvent("observed_state", "legacy")
                                            EXCEPT !.text = "legacy", !.score = "legacy"])[t]
                       ELSE new[t]]

(* ORDER BY created_at, id: a row comes after the rows before it. *)
Before(m, n) == m.at < n.at \/ (m.at = n.at /\ m.id < n.id)
InMergeOrder(rows) ==
    [n \in DOMAIN rows |-> CHOOSE m \in ToSet(rows) :
        Cardinality({k \in DOMAIN rows : Before(rows[k], m)}) = n - 1]

(* The canonical tag of a merge is seeded unless it is in the legacy table *)
(* or this run has seeded it.                                              *)
SeedMerge(new, m) ==
    LET seen == \E n \in DOMAIN new[m.canonical] : new[m.canonical][n].from = "canonical"
        first == IF m.canonical \in LegacyTag \/ seen THEN new
                 ELSE Seed(new, m.canonical, TagEvent("observed_state", "canonical")) IN
    Seed(first, m.alias, [TagEvent("merged", "row") EXCEPT !.canonical = m.canonical, !.row = m.id])

(* Every insert takes the number after the last committed one, waits for a *)
(* writer that has it and fails if that writer commits.                    *)
SeedEvents ==
    LET new == FoldLeft(SeedMerge, LegacySeeds(NoNew), InMergeOrder(seeding.history)) IN
    /\ seeding.at = "seed"
    /\ \A w \in Writers : \A t \in Held(w) : writing[w].new[t] # <<>> => new[t] = <<>>
    /\ seeding' = [seeding EXCEPT !.at = "reduce", !.new = new]
    /\ UNCHANGED <<streams, carried, writing, begun, runs, touched, raced>>

ReduceEvents ==
    /\ seeding.at = "reduce"
    /\ seeding' = [seeding EXCEPT !.at = "write",
                     !.rows = [t \in TagName |-> Replayed(CommittedEvents(seeding.new)[t])]]
    /\ UNCHANGED <<streams, carried, writing, begun, runs, touched, raced>>

(* The rows are written, once no writer holds one of them, and committed.  *)
WriteProjections ==
    /\ seeding.at = "write"
    /\ \A w \in Writers : \A t \in Held(w) : writing[w].new[t] = <<>>
    /\ events' = CommittedEvents(seeding.new)
    /\ projection' = [t \in TagName |-> IF seeding.rows[t] = NoTagRow THEN projection[t]
                                        ELSE seeding.rows[t]]
    /\ raced' = touched
    /\ seeding' = NotSeeding
    /\ UNCHANGED <<merged, carried, writing, begun, runs, touched>>

BackfillFails ==
    /\ seeding.at \in {"reduce", "write", "seed"}
    /\ seeding' = NotSeeding
    /\ UNCHANGED <<streams, carried, writing, begun, runs, touched, raced>>

-----------------------------------------------------------------------------
(* Legacy rows of the history precede the streams. An issue may be created *)
(* with tags of any name.                                                  *)

LegacyMerges == {<<>>} \cup
    {<<[canonical |-> c, alias |-> a, at |-> 0, id |-> 1]>> : c \in TagName, a \in TagName \ LegacyTag}

TagInit ==
    /\ events = NoNew
    /\ projection = [t \in TagName |-> NoTagRow]
    /\ merged \in {h \in LegacyMerges : \A n \in DOMAIN h : h[n].canonical # h[n].alias}
    /\ base \in [TaggedIssue -> SUBSET TagName]
    /\ shown = base
    /\ writing = [w \in Writers |-> NoTx]
    /\ analysed = [i \in TaggedIssue |-> NoAnalysis]
    /\ seeding = NotSeeding
    /\ begun = 0 /\ runs = 0
    /\ touched = {} /\ raced = {} /\ crossed = {}

Names == {<<t>> : t \in TagName} \cup {s \in TagName \X TagName : s[1] # s[2]}

TagStep(w) ==
    \/ \E names \in Names, text \in {"none", "live"} : UpsertTags(w, names, text)
    \/ \E t \in TagName : UpdateTagSpecificity(w, t)
    \/ \E canonical \in TagName, aliases \in Names, rescored \in SUBSET TaggedIssue :
         MergeTags(w, canonical, aliases, rescored)
    \/ AppendEvent(w) \/ Commit(w) \/ Abort(w)

EnrichmentStep(i) ==
    \/ \E names \in Names \cup {<<>>} : Analyse(i, names)
    \/ \E w \in Writers, text \in {"none", "live"} : StoreTags(i, w, text)
    \/ \E tags \in SUBSET TagName : WriteTags(i, tags)
    \/ AnalysisFails(i)

TagNext ==
    \/ \E w \in Writers : TagStep(w)
    \/ \E i \in TaggedIssue : EnrichmentStep(i)
    \/ BackfillTags \/ SeedEvents \/ ReduceEvents \/ WriteProjections \/ BackfillFails

TagSpec == TagInit /\ [][TagNext]_tagVars

-----------------------------------------------------------------------------
(* Properties.                                                             *)

(* A projection is what its stream replays to, and counts its events (the  *)
(* next one is numbered after the count), whatever writers and the         *)
(* backfill do at once: except for a tag a writer committed to after the   *)
(* last backfill had read its stream, until the backfill runs again.       *)
TagsReplay ==
    \A t \in TagName :
        \/ projection[t] = Replayed(events[t])
        \/ t \in raced /\ projection[t].count < Len(events[t])

(* Two merges that give a tag away began in the other order than they      *)
(* committed.                                                              *)
Overlapped(t) ==
    \E m, n \in DOMAIN merged : m < n /\ merged[m].alias = t /\ merged[n].alias = t
                                      /\ merged[m].at > merged[n].at

(* A tag merged away by the runtime stays merged into the tag of its last  *)
(* merge, although every backfill appends the merges of the history again, *)
(* behind younger events: unless two merges of it ran at once or it was    *)
(* written to during the last backfill.                                    *)
MergesStick ==
    \A n \in DOMAIN merged :
        LET t == merged[n].alias IN
        /\ merged[n].at # 0 /\ t \notin raced /\ ~Overlapped(t)
        /\ \A m \in n + 1 .. Len(merged) : merged[m].alias # t
        => projection[t].status = "merged" /\ projection[t].canonical = merged[n].canonical

FirstSeeded(t) ==
    t \in LegacyTag /\ ~\E n \in DOMAIN events[t] : events[t][n].from = "legacy"

(* "Make backfills idempotent": a tag nobody writes to during a backfill   *)
(* or wrote to during the one before keeps its text and score, but for the *)
(* first time the backfill finds it in the legacy table.                   *)
BackfillKeepsText ==
    [][\A t \in TagName :
         seeding.at = "write" /\ seeding'.at = "idle" /\ projection[t] # NoTagRow
         /\ t \notin touched \cup raced /\ ~FirstSeeded(t)
           => /\ projection'[t].text = projection[t].text
              /\ projection'[t].score = projection[t].score]_tagVars

(* EnsureStoredTags: no issue shows a tag the catalog has no row of but    *)
(* one it was created with, whatever enrichments fail before, while and    *)
(* after their tags are stored, and whatever merges rewrite the issue.     *)
ShownTagsAreStored ==
    \A i \in TaggedIssue : \A t \in shown[i] \ base[i] : projection[t] # NoTagRow

(* "tags can also be merged (collapse synonyms)": after a merge no issue   *)
(* carries an alias, if none was enriched across it or with an alias.      *)
AliasesLeaveIssues == \A i \in TaggedIssue \ crossed : \A t \in shown[i] : ~Alias(t)
=============================================================================
