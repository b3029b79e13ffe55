# A verification project for Sortit

Sortit keeps issues as append-only discussions and derives everything else from
them: a background worker analyses each discussion with a language model and
writes a canonical text, tags and an embedding; caches and maps follow a
revision counter that every write bumps. This directory models the parts of it
that are concurrent and stateful, checks them with TLC on small instances and
proves the most important results for every instance with TLAPS.

## The system

| component | state | operations | what must hold |
|---|---|---|---|
| commands (`internal/issues/commands`) | none of their own | create, refine, re-enrich, progress, assign, close, reopen, combine, split, link; each one transaction | posts numbered without gaps; a closed issue is not refined; a refinement reaches the worker |
| enrichment queue (`enrichment_jobs_postgres.go`) | one job row per issue: target post, lease | enqueue, claim, complete, retry | the row of a newer target is never deleted for an older one |
| enrichment projection (`enrichment_persistence.go`, `snapshots.go`) | status and target per issue; snapshots | update, sync from the queue | agrees with queue and content |
| worker (`internal/issueenrichment`) | the claimed job, what was read for it | claim, load, analyse, apply, fail, drop, stop | late, repeated and failed work does no harm; all work is done in the end |
| Postgres store and unit of work | READ COMMITTED transactions | begin, commit, rollback | |
| lifecycle facts (`lifecycle_persistence.go`) | append-only facts, one projection row per issue | create, assign, close, reopen, combine, split | sequences unique, projection = fold of facts |
| content facts (`content_persistence.go`) | append-only facts, one projection row per issue | append and project | the same |
| revision bus (`revision.go`, `/revision/stream`) | a counter, a channel per client | bump, subscribe, cancel, receive | no blocking, no send on a closed channel, clients converge |
| revision-keyed caches (`tagcooccurrence`, `tagmeans`, `ridgelambda`, `ridgedecomp`, `themes`, `tagmetrics`) | a result and its revision | current | a result covers what was written and bumped before it was asked for |
| map projection (`mapview/corpus_loader.go`) | a table of layouts by revision | load, rebuild, delete | the same, across restarts as far as the code deletes rows |
| theme labels (`themes`) | identities and labels of themes | factorise, label, return of a labelling job | a label is made from tags its theme still has |
| memories (`internal/memories`) | concepts and the overview, proposals | create, supersede, archive, reinforce, synthesise, accept, reject | one active memory per subject, none lost; a proposal settled once |
| curation (`internal/curation`) | proposed moves | create, accept, reject | a move applied once |
| auth (`internal/auth`) | sessions, tokens, CLI logins, profiles, and facts about them | login, logout, reap, revoke, exchange | an ended session has one end, a token is handed out once, rows follow facts |
| tags (`tag_*` of `internal/issues`) | event stream and projection per tag, merge history | upsert, score, merge | projection = fold of events; a merged tag stays merged and leaves the issues |
| append-only backfill (`internal/issues/appendonly`) | checkpoints, and the facts above | backfill, parity | idempotent and harmless beside live writes |
| views, search, numerics, AI client, API, MCP, CLI, web | none that is shared | reads, transport | outside these models |

Commands and the worker interact only through rows of the database. A command
commits a post, the projection (status *pending*, target = the post's sequence)
and a job row together. The worker claims the job in a transaction of its own,
reads the issue, analyses it for many seconds outside any transaction, and
writes the outcome in a third one. Every commit bumps the revision; the bus fans
the new number out to the open streams.

Hard behaviours: what the worker read before the analysis is used after it; a
30-second lease may run out under a live worker; the worker goroutine ends at
the first error and only a process start brings it back; READ COMMITTED lets a
statement write back what another transaction has replaced; two transactions
lock job and projection in opposite orders; a bump's increment and its fanout
are separate; a cache reads the revision before it computes and keeps its result
afterwards; memories and curation write without any transaction; and backfills
derive facts from rows they read on another connection while the server writes
on.

## Modules

**`EnrichmentQueue`** is the specification of the enrichment path. One action is
one transaction of the code, or one step of a worker outside a transaction.

| variable | code |
|---|---|
| `lifecycle`, `discussion` | status and posts of an issue (kinds only: a report, a refinement, or a `"note"` for progress, assigned, closed and reopened) |
| `enrichment` | the row of `issue_enrichment_projections`: status, target |
| `content` | which posts, and which generation of the tag catalog, the current raw text, tags and embedding were made from |
| `snapshots` | sequences with a row in `issue_snapshots` |
| `job` | the row of `issue_enrichment_jobs`; `due` says that its lease (or retry delay) is over |
| `pc`, `claim` | where `ProcessOne` of a worker is, and the job and posts it holds |
| `catalog`, `asked` | the catalog an analysis would use, and the one of the last re-enrichment request |

Commands are `Create`, `Refine`, `ReEnrich`, `Progress`, `Assign`, `Close`,
`Reopen`, `Combine`, `Split` (their handlers in `internal/issues/commands`); the
worker is `Claim`, `Load`, `LoadFails`, `AnalysisSucceeds`, `AnalysisFails`,
`ApplyJob`, `FailJob`, `DropJob`; `Stop`, `Restart`, `LeaseExpires` and
`CatalogImproves` are the environment. `Link` touches no variable. The attempt
count and the projection's copy of the lease steer nothing and are left out.
`Store.Get` is several statements, but posts up to a claimed target were
committed before the claim, so `Load` is one step. `LoadFails` exists because
`ProcessOne` treats every error of that read as "not found"; the constant
`ReadFailures` switches it on.

**`EnrichmentReadCommitted`** opens the same transactions up into the statements
PostgreSQL runs, for one issue, some clients and one worker. A variable holds
committed rows; `lock` says who has written a row and holds it; `cmd` and `stmt`
are the next statement of a command or of the worker, `seen` the projection row
the worker loaded and will write back. The last row a transaction needs is
locked in the step that commits. `Abort` may happen at any statement (unique
violation, deadlock victim, cancelled request, lost connection). `Queue` is an
`INSTANCE` of `EnrichmentQueue` with a refinement mapping, and `SerialIsQueue`
says that with one open transaction at a time (`serial`) this module
implements it: both modules describe the same code. Not modelled: two workers at
statement level, the insert conflict of two workers' content facts, a deleted
job row re-inserted during a lock wait, and the closed-issue guard (no close
changes the status here; a `"note"` command stands for it). Creation is one
step, since nobody knows the new id before it commits.

**`RevisionBus`** is `RevisionTracker` and the stream handler. `Add` is the
atomic increment of `Bump`; `Lock`, `Offer`, `Drain`, `OfferAgain`, `Unlock` are
the fanout under the mutex, one channel operation each; `Subscribe`,
`SendCurrent`, `Receive`, `Cancel` are the handler, which takes values between
any two of them. `Subscribe` and `Cancel` need the mutex only for one map
operation and are one step each.

**`IssueLifecycle`** is the other half of the same commands: who closed, reopened
and assigned an issue. `UpdateIssueFields` loads the projection row, takes
`MAX(sequence) + 1`, inserts a fact and overwrites the projection, each in a
statement of its own and without a lock until the last.

| variable | code |
|---|---|
| `facts`, `projection` | rows of `issue_lifecycle_facts` as they commit, and the row of `issue_lifecycle_projections` (status, assignee, fact count) |
| `posts` | number of posts of an issue: all that keeps assign, close and reopen apart, since (issue, sequence) of `issue_posts` is unique and each of them inserts one |
| `lock` | the transaction that has written the projection row |
| `cmd` | the command of a client: its sources, the one it is at, its next statement, what it has loaded and numbered |
| `raced` | history: issues on which a combine or split overlapped another command |

`Begin`, `BeginCombine` and `BeginSplit` open a transaction and make the checks
of its handler; `ReadPosts`, `LoadProjection`, `NumberFact` and
`UpsertProjection` are the statements; `InsertPostAndCommit` and
`MergeAndCommit` write the rest and commit; `Abort` is any failure. A combine
goes through its sources in the caller's order. `Create` is one step. The
content side of the same transactions is in the two modules above; refinements
and progress write no lifecycle row, and a command whose post collides with
theirs aborts. Two combines over the same sources in opposite orders may wait
for each other; the database ends one, so the cycle is left to `Abort`. The
columns that say when and why an issue was closed follow the status and are
left out.

**`RevisionCaches`** is every cache keyed by the bus's revision, with the caches
each is made from (`Inputs`). The corpus is a version number, and a result is the
oldest version read for it. `Ask`, `Probe`, `Look`, `ReadStore`, `AskCache`,
`Keep` and `Fail` are a call from reading the revision to keeping the result;
`inside` is the mutex of the caches that compute under one. `Commit`, `Bump` and
`InvalidateMaps` are a write with what its observer and listener do after it.
`StartAgain` is a new process: caches are empty, the revision is 1, the map table
is as it was. `Promised` says what a result owes its caller: all bumped writes;
after a restart, for maps, only writes of this process that deleted the stored
rows, since a row of the same number left by the process before is taken for
this one's; and then nothing for the regions of clusters, which keep in memory
what they took from such a row. `Invalidate` has no caller and is left out.

**`ThemeLabels`** is the rest of the theme cache: `Factorise` carries identities
and labels over to the themes of a new decomposition by similarity (rows of tag
loadings are numbers, and the closer the more alike), `NotAvailable` is a corpus
too small for themes, `JobReturns` a labelling job's answer, at any time later.
The guard `labelInFlight` never refuses, since each job is for a new generation.

**`Memories`**: every operation is a few statements that each commit. `ops` says
where a request is and what it has read: `CreateMemory`, `LookUpPrior`,
`SupersedePrior`, `InsertMemory` (or `InsertFails`, at the partial unique index);
`ReinforceRead` and `ReinforceWrite`; `TransitionRead` with `SupersedeMemory` or
`ArchiveMemory`; a synthesis up to `Propose`; `AcceptProposal` and `MarkAccepted`,
`RejectProposal` and `MarkRejected`; and `Interrupted` at any point. `origin`,
`dropped` and `disputed` are history.

**`Curation`**: `AcceptMove`, `Dispatch` (the handler's own transaction, in
another part), `MarkMoveAccepted`, with `DispatchFails` and `ReviewBreaksOff` in
between. A handler may run again on the same move and then has its effect again.
The close of a stale issue is two steps: `DispatchClose` reads the issue's status
and has nothing to do if it is `SeenClosed`, `CloseIssueCommits` closes it.
Between them, and between a review that broke off and its retry, the issue may
be closed or reopened from elsewhere (`IssueCommand`), so a move can close its
issue twice. `applied`, `reopened`, `unneeded`, `together` and `brokenOff` are
history.

**`Sessions`**: logout, reaper and backfill statement by statement. `sessionTx`
holds what a transaction has read, its uncommitted facts (`staged`) and the rows
it has deleted; the two unique indexes make an insert wait or fail.
`WaitsFor` and `BreakSessionDeadlock` are the database's deadlock detector,
`SessionCrash` a process that dies with its transaction open.
**`APITokens`** is the same for creation, revocation and the token backfill, with
the pending CLI logins in the server's memory (`BeginCLILogin`,
`CompleteCLILogin`, `MarkComplete`, `Exchange`, `ServerRestarts`).
**`UserProfiles`** is what logins of one account and the profile backfill do to a
user's row and profile facts.

**`TagCatalog`**: writers take a lock per tag (`Begin`), append events and write
the projection one tag after another (`AppendEvent`) and commit; a merge also
rewrites the tags of the issues it finds in the issues table. `Analyse`, `StoreTags` and
`WriteTags` are an enrichment: the model scores tags, a transaction upserts all of
them into the catalog (`EnsureStoredTags`), a later one writes those to display;
`AnalysisFails` ends it in between. The tags may be any: the prompt offers the
catalog's active ones, or built-in ones if there are none, shows those of
memories, merged or not, and a tag the model makes up is kept. Scores of issues are
left out; a merge also rewrites issues whose scores name an alias, so which
(`rescored`) is open. The backfill, without those locks, is `BackfillTags`,
`SeedEvents`, `ReduceEvents`, `WriteProjections`. Names, descriptions and scores of
tags are small sets.

**`LifecycleBackfill`** rebuilds the lifecycle facts of issues in batches
(`StartBatch`, `ReadIssue`, `ReadPosts`, `ReplaceFacts`, `CommitBatch`,
`Checkpoint`, `BackfillDies`, `Rerun`) beside a server whose commands are two
steps here (`CommandReads`, `CommandCommits`), being opened up in
`IssueLifecycle`. `Derived` is how posts, and what the issue shows, become facts.
**`ContentBackfill`** is `LoadContent` and `WriteContent` of an enrichment beside
`StartFill`, `InsertSeeds`, `RebuildRows`, `UpsertRowsAndCommit`.

The `MC` modules hold the symmetry sets, the state constraints and the
compositions. `MCAuth` (sessions, tokens, profiles) and `MCKnowledge` (memories,
curation, two backfills) put stores that share no state side by side: a variable
`store` picks the one that leaves its initial state, which checks each of them
as if alone. `MCRevisionBus` does so with the bus, the labels and each cache
asked for. `MCTagCatalog` takes the catalog apart: either writers beside the
backfill, with no enrichment and no merge that rewrites an issue, or writers
beside enrichments of an issue created with at most two tags, without backfill,
texts and scores. `MCEnrichmentSerial` runs `EnrichmentReadCommitted` freely or, by the
variable `serial`, one transaction at a time. The modules `...Proofs` hold the
theorems. Definitions introduced as mutants (`EnqueuedAfterNext`,
`StillWantedUnchecked`, `KeepsOldest`, ...) are wrong versions of the helpers
after them and take no part in any specification: with one substituted, the
property it belongs to is violated.

## Runs

| run | instance | shows |
|---|---|---|
| `queue_workers` | 1 issue, 2 workers, 4 posts, 2 catalogs | with serial transactions no refinement is lost, queue and projection agree, content never regresses, a job goes only when done, a re-enrichment is not satisfied by an analysis begun before it |
| `queue_issues` | 3 issues, 1 worker, 2 posts, failing reads | a complete issue is current, with combine and split, even when reads fail |
| `queue_liveness` | 2 issues, 1 worker, 2 posts | failed issues keep a job; every issue is completed in the end |
| `rc_transactions` | 2 clients and the worker, 4 posts | statement by statement: posts stay numbered, a queued target is not taken back, only a claimed target is deleted; and as long as one transaction is open at a time, the statement level implements `EnrichmentQueue` |
| `rc_ends` | 2 clients, 2 posts | every command ends in spite of the opposite lock orders |
| `rc_lost` | violation | a stale target written back loses a refinement (`worker.go:142`, `docs/workflow.md:103`) |
| `bus_streams` | 2 bumpers, 2 clients, 3 bumps; 2 callers, 3 versions, 2 starts; 2 themes of 3 rows | fanout is safe and never blocks; clients converge if bumps do not overlap; what caches serve covers what was bumped; labels are for the tags their theme has |
| `lifecycle_commands` | 3 issues, 2 clients, 3 facts, 1 assignee | without a combine or split beside another command the projection replays the facts; with one it forgets, but invents nothing; the proofs' invariant holds |
| `auth_stores` | 2 sessions, tokens and users, half of them older than the facts; 1 or 2 of each process | histories say once what happened and agree with the rows requests read; expired sessions go in the end |
| `knowledge` | 3 memories on a tag and the overview, a proposal, 2 requests; a move, 2 reviewers; 2 issues, a rerun; 2 items, 3 backfills | no subject loses its memory by interleaving, a proposal is settled once unless two reviews of it overlap or one breaks off, a move is repeated by such reviews only and closes an issue again only after a reopen, the backfills keep issues and replay |
| `tags` | 3 tags, an issue, 2 writers, 2 transactions, 2 backfills | rows replay their events, merges stick, backfills keep texts, an issue shows no tag without a row unless it was created with it |
| `tags_merge` | violation | a merge misses an alias that an enrichment gave an issue (`postgres_persistence.go:185`, `docs/workflow.md:196`) |

Findings. `rc_lost`: the apply, the failure or the completion of a superseded job
writes back the target it has read, over a refinement committed meanwhile, whose
job is then dropped as superseded. `tags_merge`: `MergeTags` looks for aliases in
`issues.tags_json`, which is written once, when an issue is created. So a merge
misses an alias that only an enrichment chose, and a second merge on an issue
created with two aliases writes the first one back. The property leaves out
issues whose enrichment crossed a merge or chose a tag that was an alias already
(`crossed`): there the alias comes back by itself.

Bounds. `MaxPosts` bounds a discussion: three targets in flight (an older claim,
a newer job, a newest refinement) are already reached with 4 posts; more posts
repeat them. Two workers give every overlap of an expired lease; a third could
only hold one more old claim, and the theorems cover it. Three issues are the
fewest a combine needs; there `OneDiscussionGrows` lets only one discussion grow
past its report, since growing discussions do not touch each other. `MaxOpen = 3`
is everyone at once. Three bumps over two bumpers suffice for an overlap, a
channel found full and a later bump. `MaxFacts` bounds the facts of an issue
when a command begins, so that two commands beside each other may go one past
it; three facts are a creation, a close or assignment, and the one that has to
follow it. `OneIssueGrows` lets commands work on two issues at a time and one of
them have a longer history; a combine still has its two sources and its result.
Two clients give every race of two commands; the theorems cover more.

In the caches, two callers are one that computes and one that overtakes it or
waits for its mutex. `CachesWithin` asks one cache (and by it those below) in a
behaviour, and keeps the second process and the third version for stored maps,
the only results that outlive a process. `MaxThemes`, `MaxId` and `MaxGen` of 2
let a theme retire, drift and be relabelled while a job for it runs; of the three
rows, neighbours are alike and the outer ones are not. Batches of 1 in `MCAuth`
make every second row a batch of its own, so the cursor moves between them; one
crash leaves one transaction undone at any of its steps; the process then begins
anew.
Three memories on two subjects are a replaced one, its replacement and a third
to collide. `MaxApplied = 3` is one more than a double review gives; with
`MaxReopened = 1` a close, a reopen, a close again and one too many are in reach.
`Still`, the
last issue of a lifecycle batch, is closed and left alone, so that a batch always
holds an issue beside the one commands write. `MaxFills = 3` is a seed, a
repetition and the repair of what the second one raced with. `MaxBegun = 2`
transactions overlap each other, an enrichment and each step of the first and
the second backfill; a third does not fit the time. That `MCTagCatalog` keeps
enrichments and the backfill apart is a bound as well: `ShownTagsAreStored` is
proved with both together. Symmetry is over sets whose
members are interchangeable, and only in runs that check safety.

Fairness. `EnrichmentQueue`: a running worker goes on (the loop of `Run`);
leases expire; a claim is strongly fair to each issue because it takes the due
job with the oldest `updated_at`, except for an issue that is requested again
and again, which `RequestsEnd` excludes; an issue analysed for ever succeeds at
last. Nothing makes a client act, a process stop or restart:
`EventuallyEnriched` assumes that crashes end and one worker is left running,
which is not automatic, since the worker stops for good at its first error.
`EnrichmentReadCommitted`: lock queues are first come first served, the
deadlock detector breaks two-party cycles, a failed insert ends its command.
`RevisionBus`: a goroutine in `Bump` runs on and the mutex is handed over;
nothing is assumed of clients, and the convergence properties speak only of
clients that keep reading. `Sessions`: open requests and sweeps go on unless
their process dies, the reaper's ticker comes again, row locks are handed over,
and the detector breaks deadlocks; crashes are bounded, and a reaper that died
is started again. The other modules state no liveness.

What the models reach beyond their properties, each stated as the exception in
a property or left to an abort:

- A re-enrichment is honoured by an analysis begun after the request; one of the
  same target that was under way completes the job before it
  (`docs/workflow.md:119`).
- Bumps that overlap leave a client on an older revision until the next bump
  (`revision.go:43`): `ConvergesUnlessBumpsOverlap`.
- A combine or split beside another command of a source gives two facts one
  number and loses a change from the projection (`docs/data-model.md:64`):
  `ReplaysUnlessRaced`. Two combines over the same sources in opposite orders
  wait for each other until the database ends one (`combine_issues.go:104`).
- A failed read in `ProcessOne` deletes the job as if the issue were gone
  (`LoadFails`, `worker.go:85-94`): what is shown as complete is current even
  then, but the issue may stay pending.
- The canonicaliser takes every post up to the target, progress included
  (`Defining`, `canonicalize.go:32`).
- A restarted process takes a stored map of the same revision number for its own
  (`corpus_loader.go:110`), until a write deletes it. A caller with an older
  revision, having waited for the mutex, replaces a newer result by its own
  (`ridgedecomp/cache.go:87-112`): it is fresh, but kept under the older number
  and so computed again.
- The first content backfill of an issue that has facts but no seed appends the
  content it was created with behind its analyses (`appendonly/content.go:285`):
  the projection follows the facts and takes the issue back.
- Merging a into b and then b into a leaves both tags merged.
- A create of a memory that breaks off between its two writes leaves its subject
  without one (`dropped`). A reinforcement brings back the memory it read, though
  superseded or archived since (`service.go:365`).
- A second review beside the first, or after one that broke off, makes a
  proposal's memory or applies a move twice, or rejects what was applied
  (`disputed`, `together`, `brokenOff`); an issue reopened in between is closed
  again.
- Of a lease that ran out, a second process may complete the target before the
  first reports a failure: no job is left behind it. `FailedIsRetried` is for one
  worker.
- A CLI login creates its token before it looks at the login: one that was
  exchanged, has ended or is unknown leaves a token nobody holds
  (`cli_login.go:142`). `HandedOutOnce` does not forbid it.
- A backfill beside live writes leaves wrong what was written between its reading
  and its writing, until it runs again: lifecycle facts of such issues
  (`overlapped`), content rows (`outdated`), rows of tags and what merges say of
  them (`raced`). The properties of the backfills say that nothing else becomes
  wrong, and that such rows of content and tags count too few facts, so that
  writers fail instead of giving a number twice.
- An enrichment that crosses a merge, or chooses an alias because a memory or the
  model names it, gives its issue the alias (`crossed`), whatever `MergeTags` does.

## What is proved

Each theorem is for any values of the constants that satisfy the named
assumption of its module. None of the properties is inductive by itself; the
invariants below say what else has to hold.

`EnrichmentQueueProofs`, from `QueueAssumption`:

- `TypeCorrect`: `TypeOK`.
- `QueueInvariant`: `QueueInv`, if `ReadFailures = FALSE`. That a job may be
  deleted for a target depends on what a worker holds. `IssueInv` ties the four
  rows of an issue together (no job means the content covers exactly the posts up
  to the target; a job has the projection's target; defining posts lie within it),
  `WorkerInv` what a claim holds (its target was once the issue's, its texts are
  all the posts up to it, a job to be dropped is really superseded). One lemma
  per action.
- `NoLostRefinement`, `QueueAndStatusAgree`, `CompleteMeansCurrent` and
  `ReEnrichHonoured` follow from it state by state; `NoRegression` and
  `JobsLeaveDone` step by step.
- `RetryIsScheduled`: `FailedIsRetried`, with one worker, by `RetryInv`: a worker
  whose target is the one shown still holds the job, so that what its failure
  writes to the projection it writes to the job too.

`EnrichmentReadCommittedProofs`, from the assumptions of
`EnrichmentReadCommitted`:

- `TransactionsInvariant`, by `TransactionsInv`: what a transaction in the middle
  of its statements may hold. The number a command has read is the next one still,
  or taken, and a refinement keeps the posts locked from its insert to its commit
  (`CommandInv`); a worker with a claim has its job in the queue, or one for a
  later target, and that job covers the projection it has loaded (`ClaimInv`).
  `PostsAreNumbered`, `JobsCoverProjections` and `OnlyClaimedGo` follow from it.
- `SerialImplementsQueue`: the detailed transactions, run one after another,
  implement `EnrichmentQueue`, every step mapped to a step or a stutter
  (`SerialInv` says that a snapshot read at the first statement still is the
  state at the last). With `EnrichmentQueueProofs` this carries the theorems on
  lost work down to the statements, for serial transactions only: `rc_lost`
  shows that READ COMMITTED does not give that.

`RevisionProofs`:

- `FanoutIsSafe` and `BusTypeCorrect`, from `BusAssumption`, by an invariant that
  is the type and the mutex discipline together.
- `CachesServeFresh`, from `CachesAssumption`, by `CachesInvariant`. Entries and
  calls are compared through one function, `need`, which gives each revision the
  last version bumped when it was reached: some such function exists in every
  state, every result kept under a revision has read at least that version, and so
  has every call that began with it. A call begins at a revision no later than
  those of the calls it makes, so what a nested cache answers is new enough for
  its caller. `Reliable` says which caches' results are bound by it, which stored
  maps are not until the first deletion after a restart. The mutexes play no part.
- `ThemeLabelsAreCurrent`, by `ThemesInv`: identities are given once
  to one theme each, with a label made from a row it has not drifted from
  (`IdentityInv`), and a labelling job of a label's latest generation has the row
  that the label was given for (`JobsInv`).

`IssueLifecycleProofs`, from `LifecycleAssumption`:

- `LifecycleInvariant`: `LifecycleInv`, with `LifecycleTypeCorrect`. That a
  projection replays its facts is not inductive: a command that has loaded the
  projection will write it back later. `RaceInv` says when that does no harm. On
  an issue without a race, whoever will still get its post in (`Fresh`), or
  closes without one, has seen the current projection and the last sequence, and
  a merge is alone. A commit of one poster takes the number of every other post
  numbered so far, so the others are no longer `Fresh`. `CommandInv` says what an
  open command may hold (distinct sources that exist, a result of its own);
  `IssueInv` is the goal, with a last fact for `MAX(sequence)`.
- `ReplaysWithoutRaces` follows from it.
- `ProjectionInventsNothing`, for raced issues too, by a second invariant: facts
  only grow, and each row a command holds was a projection once.

`KnowledgeProofs`:

- `SubjectIsKept`, `ProposalIsSettledOnce`, `OnlyReinforcementRevives`, from
  `MemoryAssumption`. `MemoryInvariant` says what a request may rely on until its
  next write (`OpInv`: the id of the memory it makes is its own, what it has read
  still exists on the subject it read) and what an undisputed proposal may have
  become (`Undisputed`: one review at most, and no memory but the one it names or
  that review will name).
- `MoveIsSettledOnce`, from `CurationAssumption`, by `CurationInvariant`. A review
  past its handler has applied its move or found its issue closed (`ReviewInv`). A
  move never under two reviews at once, and never left by one past its handler,
  has at most one review, while it is pending, and has been applied only if that
  review has or it is accepted (`Alone`). A move to close an issue has closed it
  no more often than it was reopened, as long as the issue is open or a review has
  seen it open (`ClosesOpen`); this holds for broken-off reviews too, but not
  for two at once, each of which may have seen the issue open.

`BackfillProofs`:

- `ContentReplaysItsFacts`, from `ContentBackfillAssumption`, by
  `ContentInvariant`: no row and no update counts more facts than there are, which
  makes a late update fail instead of skipping a number, and the rows the open
  rebuild has made are right for every issue nobody has updated behind it.
- `LifecycleBackfillInvariant`, by `LifecycleFillInv`, and from it
  `BackfilledFactsTell` and `BackfillKeepsShown`. `TablesInv` is about what is
  committed: facts nobody raced on have numbers of their own, a command's number
  comes after all of them, and an issue with facts replays to its row. `WritesInv`
  and `ReadInv` are about the open batch: what it has derived from an issue's row
  replays to that row unless the issue was raced on since. The lemmas
  `ReplayOneMore` and `DerivedReplays` say what one more fact, and the facts
  derived from a row, do to a replay.

`AuthProofs`, from the assumptions of its modules:

- `HistoryAgrees`, `LogoutIsNotExpired` and `CursorIsCovered`, by
  `SessionInvariant`. A reaper's session keeps its row until the reaper commits,
  because the row is locked; what a logout has numbered follows facts that are
  there, and what it has inserted keeps that key from everybody else (`Apart`); a
  batch of the backfill is the beginning of what is left, so whatever lies before
  its next session has its fact, committed or not.
- `TokenHistory` and `HandedOut`, by `TokenInv` (a revoker that has found a token
  active holds its row; a fact the seeding has staged is nowhere else) and
  `HandedInv` (a token is in one place: with its request, in one login's result, or handed
  out).
- `LatestProfile`, by `ProfileInv`: what a login has numbered comes last, unless
  it is the first and a seed has taken it since, and a seed that is not committed
  keeps other facts of its user out.

`TagCatalogProofs`, from `TagAssumption`:

- `TagRowsReplay`: `TagsReplay`, by `CatalogInv`. A writer holds the lock of every
  tag it has read, so what it has staged of a tag is the row of the stream with
  its event at the end (`WriterInv`). The backfill takes no lock: the row it
  writes is the stream's, or counts too few events because a writer has committed
  since (`SeedingInv`). The runtime keeps a row by one event at a time and
  the backfill reduces the whole stream; `ReplaySteps` and `ReplayOneMore` say that
  the two agree.
- `MergedTagsStick`: `MergesStick`, by `StickInv`. Replay has the last merge of a
  stream decide status and target (`ReplaySays`), so the proof is about which
  merge comes last: the history is seeded in the order of the merges
  (`MergeOrder`), rows the backfill has not read belong to tags touched
  since (`HistoryRead`), and a stream says its last merge unless a merge got in
  before the history was seeded (`MergeSaid`).
- `BackfillIsIdempotent`: `BackfillKeepsText`, from the same invariant: seeds
  other than the first of the legacy table carry no text and no score
  (`QuietReplay`).
- `ShownTagsHaveRows`: `ShownTagsAreStored`, by `ShownOK`, for enrichments, merges
  and backfills together. The tags of an enrichment have rows once they are
  stored; while a transaction stores them, and for what an open merge adds to an
  issue, each has a row or is still to get one in that transaction (`Coming`).
  That is enough because a row never goes (`RowsStay`), and an enrichment goes on
  only when its transaction has committed (`CarriedOK`).

Only model-checked: the liveness properties (`EventuallyEnriched`,
`EveryCommandEnds`, `EveryBumpReturns`, `ConvergesUnlessBumpsOverlap`,
`ExpiredAreSwept`), which are beyond the prover, as is what a recursive reduction
of data computes for every input; and the two counterexamples, `rc_lost` and
`tags_merge`.

## Not modelled

- Numerics (decomposition, ridge regression, clustering, layout, similarity,
  regions of tags): linear algebra on floating-point vectors. The models keep
  only what such a result was made from.
- Read views, search, analytics, diagnostics and parity reports: queries that
  change nothing and hold nothing between two calls.
- API, MCP server, CLI, web interface: decoding, routing and wiring, apart from
  the stream handler and the worker's start and stop, which are modelled.
- The AI provider and OAuth provider: external, a nondeterministic outcome here.
- The in-memory store, a test double without rollback, and the SQLite store, one
  connection and so serial: the server uses neither.
- Schema tools and generated code.
- The enrichment backfill: a batch like those of the other kinds, from a
  projection that the code in question already keeps.
- Inside modelled parts: the worker's scoring and reinforcing after its commit,
  best-effort writes that only log an error, and issue events, which nothing
  reads back. `PROJECT.json` gives the reason part by part, and every hazard
  with the properties that cover it.

Most of the repository's lines are in these parts, so the share of the source
the modules stand for stays small; the code that decides what concurrent
requests, workers and backfills do to shared rows is in the modules above.
