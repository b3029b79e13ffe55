----------------------- MODULE EnrichmentReadCommitted -----------------------
(***************************************************************************)
(* The transactions of module EnrichmentQueue, opened up into the          *)
(* statements PostgreSQL runs for them at READ COMMITTED, the level every  *)
(* transaction of the code has: a statement sees what is committed when it *)
(* starts, a written row stays locked until the end, and what a statement  *)
(* read may be stale when a later one writes it back.                      *)
(*                                                                         *)
(* One issue and the one worker of one server process. A variable holds    *)
(* committed rows; what an open transaction will write follows from what   *)
(* it has read, and the row it has written is in lock. The last row a      *)
(* transaction needs is locked in the step that commits it.                *)
(***************************************************************************)
EXTENDS Integers, Sequences, FiniteSets

CONSTANTS
    Issue,     \* the issue whose rows these are
    NoIssue,   \* the issue of a worker without a claim, in the abstract queue
    Clients,   \* command handlers that may run at once
    Worker,    \* the enrichment worker
    NoOne,     \* the holder of a row that is not locked
    MaxPosts,  \* bound: posts in the discussion
    MaxOpen    \* transactions that may be open at once; 1 is serial execution

ASSUME TransactionsAssumption ==
    /\ Issue # NoIssue
    /\ Worker \notin Clients
    /\ NoOne \notin Clients \cup {Worker}
    /\ MaxPosts \in Nat \ {0}
    /\ MaxOpen \in Nat \ {0}

VARIABLES
    posts,      \* issue_posts rows, as <<sequence, kind>>
    proj,       \* issue_enrichment_projections row
    job,        \* issue_enrichment_jobs row, target 0 when there is none
    texts,      \* posts the current content comes from
    snapshots,  \* sequences with a row in issue_snapshots
    lock,       \* lock[row]: the transaction that has written the row
    cmd,        \* cmd[c]: the command of client c, its next statement, its read
    pc,         \* where the worker is in ProcessOne, between transactions
    stmt,       \* the worker's next statement within a transaction
    claim,      \* the target claimed and the posts analysed
    seen        \* the projection row the worker's transaction has loaded

rows == <<posts, proj, job, texts, snapshots>>
workerVars == <<pc, stmt, claim, seen>>
vars == <<posts, proj, job, texts, snapshots, lock, cmd, pc, stmt, claim, seen>>

Row == {"post", "projection", "job"}
Idle == [kind |-> "none", stmt |-> "none", read |-> 0]
NoJob == [target |-> 0, due |-> FALSE]
NoClaim == [target |-> 0, texts |-> {}]

PostSequences == {p[1] : p \in posts}
Defining == {p[1] : p \in {q \in posts : q[2] # "note"}}

-----------------------------------------------------------------------------
(* Locks and transactions.                                                 *)

Open == {c \in Clients : cmd[c] # Idle} \cup (IF stmt # "none" THEN {Worker} ELSE {})
MayOpen == Cardinality(Open) < MaxOpen

Free(row, t) == lock[row] \in {t, NoOne}
Lock(row, t) == lock' = [lock EXCEPT ![row] = t]
Release(t) == lock' = [row \in Row |-> IF lock[row] = t THEN NoOne ELSE lock[row]]

(* Mutants, for the sensitivity of the properties below: an insert of a    *)
(* taken sequence that nothing refuses, enqueues with the wrong target, a  *)
(* delete that ignores it, an end that neither commits nor rolls back.     *)
TakenNever(n) == FALSE
EnqueuedAsAsked(target) == [target |-> target, due |-> TRUE]
EnqueuedKeepingTarget(target) ==
    [target |-> IF job.target > 0 THEN job.target ELSE target, due |-> TRUE]
DeletedWhateverTarget == NoJob
EndHoldingLocks(c) == cmd' = [cmd EXCEPT ![c] = Idle] /\ UNCHANGED lock

(* UNIQUE (issue_id, sequence): the post this transaction would insert. *)
Taken(n) == n \in PostSequences

Enqueued(target) ==
    [target |-> IF job.target > target THEN job.target ELSE target, due |-> TRUE]

(* DELETE ... WHERE target_sequence = $2: a row for another target stays. *)
Deleted == IF job.target = claim.target THEN NoJob ELSE job

(* The row a transaction still has to lock for its next statement. A       *)
(* DELETE or UPDATE ... WHERE target_sequence = $2 passes a row by that    *)
(* has another target; the claim skips a locked row and never waits.       *)
Wants(t) ==
    IF t \in Clients
    THEN CASE cmd[t].stmt = "post" -> {"post"}
           [] cmd[t].stmt = "projection" -> {"projection"}
           [] cmd[t].stmt = "job" -> {"job"}
           [] OTHER -> {}
    ELSE CASE stmt \in {"write", "sync"} -> {"projection"}
           [] stmt \in {"delete", "finish"} /\ job.target = claim.target -> {"job"}
           [] OTHER -> {}

WaitsFor(t, u) == t # u /\ \E row \in Wants(t) : lock[row] = u

Deadlocked(t) ==
    \E u \in Clients \cup {Worker} : WaitsFor(t, u) /\ WaitsFor(u, t)

-----------------------------------------------------------------------------
(* Commands.                                                               *)

(* Nobody knows the issue before its creation commits: one step will do. *)
Create(c) ==
    /\ posts = {}
    /\ cmd[c] = Idle
    /\ MayOpen
    /\ posts' = {<<1, "report">>}
    /\ proj' = [status |-> "pending", target |-> 1]
    /\ job' = Enqueued(1)
    /\ texts' = {1}
    /\ UNCHANGED <<snapshots, lock, cmd, workerVars>>

(* uow.Get: the discussion or the target the rest of the handler uses. *)
Begin(c, kind) ==
    /\ posts # {}
    /\ cmd[c] = Idle
    /\ MayOpen
    /\ kind = "reenrich" \/ Cardinality(posts) < MaxPosts
    /\ cmd' = [cmd EXCEPT ![c] =
                 IF kind = "reenrich"
                 THEN [kind |-> kind, stmt |-> "projection", read |-> proj.target]
                 ELSE [kind |-> kind, stmt |-> "post", read |-> Cardinality(posts) + 1]]
    /\ UNCHANGED <<rows, lock, workerVars>>

End(c) == cmd' = [cmd EXCEPT ![c] = Idle] /\ Release(c)

(* A note is the only row its command writes. *)
InsertNote(c) ==
    /\ cmd[c].kind = "note"
    /\ Free("post", c)
    /\ ~Taken(cmd[c].read)
    /\ posts' = posts \cup {<<cmd[c].read, "note">>}
    /\ End(c)
    /\ UNCHANGED <<proj, job, texts, snapshots, workerVars>>

InsertRefinement(c) ==
    /\ cmd[c].kind = "refinement"
    /\ cmd[c].stmt = "post"
    /\ Free("post", c)
    /\ ~Taken(cmd[c].read)
    /\ Lock("post", c)
    /\ cmd' = [cmd EXCEPT ![c].stmt = "projection"]
    /\ UNCHANGED <<rows, workerVars>>

UpsertProjection(c) ==
    /\ cmd[c].stmt = "projection"
    /\ Free("projection", c)
    /\ Lock("projection", c)
    /\ cmd' = [cmd EXCEPT ![c].stmt = "job"]
    /\ UNCHANGED <<rows, workerVars>>

(* The enqueue works on the row it finds when it gets the lock. Its sync   *)
(* of the projection writes what this transaction has already written.     *)
EnqueueAndCommit(c) ==
    /\ cmd[c].stmt = "job"
    /\ Free("job", c)
    /\ posts' = IF cmd[c].kind = "refinement"
                THEN posts \cup {<<cmd[c].read, "refinement">>} ELSE posts
    /\ proj' = [status |-> "pending", target |-> cmd[c].read]
    /\ job' = Enqueued(cmd[c].read)
    /\ End(c)
    /\ UNCHANGED <<texts, snapshots, workerVars>>

(* A sequence that is taken, a deadlock, a cancelled request, a lost       *)
(* connection: the command fails and leaves nothing behind.                *)
Abort(c) ==
    /\ cmd[c] # Idle
    /\ End(c)
    /\ UNCHANGED <<rows, workerVars>>

-----------------------------------------------------------------------------
(* The worker.                                                             *)

(* UPDATE ... FOR UPDATE SKIP LOCKED ... RETURNING. *)
Claim ==
    /\ pc = "idle" /\ stmt = "none"
    /\ MayOpen
    /\ job.target > 0 /\ job.due
    /\ lock["job"] = NoOne
    /\ Lock("job", Worker)
    /\ claim' = [NoClaim EXCEPT !.target = job.target]
    /\ stmt' = "load"
    /\ UNCHANGED <<rows, cmd, pc, seen>>

(* loadEnrichmentProjectionState: a SELECT, so it waits for nobody. *)
LoadProjection ==
    /\ stmt = "load"
    /\ seen' = proj
    /\ stmt' = IF pc = "fail" THEN "write" ELSE "sync"
    /\ UNCHANGED <<rows, lock, cmd, pc, claim>>

(* syncEnrichmentProjectionFromQueue writes back the row it has loaded;    *)
(* then the claim, or the drop, commits.                                   *)
SyncAndCommit ==
    /\ stmt = "sync"
    /\ Free("projection", Worker)
    /\ proj' = seen
    /\ job' = IF pc = "idle" THEN [job EXCEPT !.due = FALSE]
              ELSE IF lock["job"] = Worker THEN NoJob ELSE job
    /\ Release(Worker)
    /\ stmt' = "none"
    /\ IF pc = "idle" THEN pc' = "claimed" /\ UNCHANGED claim
                      ELSE pc' = "idle" /\ claim' = NoClaim
    /\ UNCHANGED <<posts, texts, snapshots, cmd, seen>>

Load ==
    /\ pc = "claimed"
    /\ IF proj.target = claim.target
       THEN /\ pc' = "analyzing"
            /\ claim' = [claim EXCEPT !.texts = {n \in PostSequences : n <= claim.target}]
       ELSE pc' = "drop" /\ UNCHANGED claim
    /\ UNCHANGED <<rows, lock, cmd, stmt, seen>>

Analyse ==
    /\ pc = "analyzing"
    /\ pc' \in {"apply", "fail"}
    /\ UNCHANGED <<rows, lock, cmd, stmt, claim, seen>>

(* applyJob and failJob open their transaction and read the target again. *)
Recheck ==
    /\ pc \in {"apply", "fail"} /\ stmt = "none"
    /\ MayOpen
    /\ stmt' = IF proj.target # claim.target THEN "delete"
               ELSE IF pc = "apply" THEN "write" ELSE "load"
    /\ UNCHANGED <<rows, lock, cmd, pc, claim, seen>>

(* updateIssueEnrichmentState, all of the row for a success; a failure     *)
(* keeps the target it has loaded.                                         *)
WriteProjection ==
    /\ stmt = "write"
    /\ Free("projection", Worker)
    /\ Lock("projection", Worker)
    /\ stmt' = "finish"
    /\ UNCHANGED <<rows, cmd, pc, claim, seen>>

(* The job row is deleted (or due later) if it still has the target; the   *)
(* sync rewrites the transaction's own projection row; and all commits.    *)
FinishAndCommit ==
    /\ stmt = "finish"
    /\ job.target = claim.target => Free("job", Worker)
    /\ IF pc = "apply"
       THEN /\ proj' = [status |-> "complete", target |-> claim.target]
            /\ texts' = claim.texts
            /\ snapshots' = snapshots \cup {claim.target}
            /\ job' = Deleted
       ELSE /\ proj' = [status |-> "failed", target |-> seen.target]
            /\ job' = IF job.target = claim.target THEN [job EXCEPT !.due = FALSE] ELSE job
            /\ UNCHANGED <<texts, snapshots>>
    /\ Release(Worker)
    /\ stmt' = "none"
    /\ pc' = "idle"
    /\ claim' = NoClaim
    /\ UNCHANGED <<posts, cmd, seen>>

(* completeJob, in a transaction of its own or in the one of Recheck. *)
DeleteJob ==
    /\ \/ pc = "drop" /\ stmt = "none" /\ MayOpen
       \/ stmt = "delete"
    /\ IF job.target = claim.target
       THEN Free("job", Worker) /\ Lock("job", Worker)
       ELSE UNCHANGED lock
    /\ stmt' = "reload"
    /\ UNCHANGED <<rows, cmd, pc, claim, seen>>

Reload ==
    /\ stmt = "reload"
    /\ seen' = proj
    /\ stmt' = "sync"
    /\ UNCHANGED <<rows, lock, cmd, pc, claim>>

(* Any error ends Run, the deadlock that PostgreSQL breaks included. *)
Stop ==
    /\ pc # "stopped"
    /\ pc' = "stopped"
    /\ stmt' = "none"
    /\ claim' = NoClaim
    /\ Release(Worker)
    /\ UNCHANGED <<rows, cmd, seen>>

Restart ==
    /\ pc = "stopped"
    /\ pc' = "idle"
    /\ UNCHANGED <<rows, lock, cmd, stmt, claim, seen>>

LeaseExpires ==
    /\ job.target > 0 /\ ~job.due
    /\ job' = [job EXCEPT !.due = TRUE]
    /\ UNCHANGED <<posts, proj, texts, snapshots, lock, cmd, workerVars>>

-----------------------------------------------------------------------------
Init ==
    /\ posts = {}
    /\ proj = [status |-> "complete", target |-> 0]
    /\ job = NoJob
    /\ texts = {}
    /\ snapshots = {}
    /\ lock = [row \in Row |-> NoOne]
    /\ cmd = [c \in Clients |-> Idle]
    /\ pc = "idle"
    /\ stmt = "none"
    /\ claim = NoClaim
    /\ seen = [status |-> "complete", target |-> 0]

Statement(c) ==
    InsertNote(c) \/ InsertRefinement(c) \/ UpsertProjection(c) \/ EnqueueAndCommit(c)

WorkerStatement ==
    \/ LoadProjection \/ SyncAndCommit \/ WriteProjection \/ FinishAndCommit
    \/ stmt = "delete" /\ DeleteJob
    \/ Reload

Next ==
    \/ \E c \in Clients :
          \/ Create(c)
          \/ \E kind \in {"refinement", "note", "reenrich"} : Begin(c, kind)
          \/ Statement(c)
          \/ Abort(c)
    \/ Claim \/ Load \/ Analyse \/ Recheck \/ DeleteJob \/ WorkerStatement
    \/ Stop \/ Restart \/ LeaseExpires

Spec == Init /\ [][Next]_vars

(* Lock queues are first come, first served, so a statement that could run *)
(* again and again runs; deadlock_timeout breaks a cycle; an insert that   *)
(* fails ends its command. Nothing makes a command start.                  *)
FairSpec ==
    /\ Spec
    /\ \A c \in Clients : SF_vars(Statement(c))
    /\ SF_vars(WorkerStatement)
    /\ \A c \in Clients : WF_vars(cmd[c].stmt = "post" /\ Taken(cmd[c].read) /\ Abort(c))
    /\ WF_vars(\/ \E c \in Clients : Deadlocked(c) /\ Abort(c)
               \/ Deadlocked(Worker) /\ Stop)

-----------------------------------------------------------------------------
(* Properties.                                                             *)

(* The rows, locks and statements are those the code can produce. *)
TypeOK ==
    /\ posts \subseteq (1 .. MaxPosts) \X {"report", "refinement", "note"}
    /\ proj \in [status : {"complete", "pending", "failed"}, target : 0 .. MaxPosts]
    /\ job \in [target : 0 .. MaxPosts, due : BOOLEAN]
    /\ texts \subseteq 1 .. MaxPosts
    /\ snapshots \subseteq 1 .. MaxPosts
    /\ lock \in [Row -> Clients \cup {Worker, NoOne}]
    /\ cmd \in [Clients -> [kind : {"none", "refinement", "note", "reenrich"},
                            stmt : {"none", "post", "projection", "job"},
                            read : 0 .. MaxPosts]]
    /\ pc \in {"idle", "claimed", "analyzing", "apply", "fail", "drop", "stopped"}
    /\ stmt \in {"none", "load", "sync", "write", "finish", "delete", "reload"}
    /\ claim \in [target : 0 .. MaxPosts, texts : SUBSET (1 .. MaxPosts)]
    /\ seen \in [status : {"complete", "pending", "failed"}, target : 0 .. MaxPosts]

(* The posts of a discussion are numbered from 1 without a gap or a double,*)
(* although every handler numbers its post after the discussion it read.   *)
PostsNumbered == PostSequences = 1 .. Cardinality(posts)

(* A waiting job is never for less than the projection shows: whatever is  *)
(* stale in a projection, a queued target is not taken back.               *)
JobCoversProjection == job.target # 0 => job.target >= proj.target

(* The worker never forgets a job it has not seen: a job row goes only for *)
(* the target the worker has claimed.                                      *)
OnlyClaimedJobsGo ==
    [][job.target # 0 /\ job'.target = 0 => job.target = claim.target]_vars

(* "A refinement updates the canonical description and re-enriches": its   *)
(* text is in the content, or a job that covers it is waiting. At READ     *)
(* COMMITTED the worker can write a stale target back over a refinement    *)
(* that has just committed, and then drops the refinement's job as         *)
(* superseded.                                                             *)
RefinementNotLost == \A n \in Defining : n \in texts \/ job.target >= n

(* Every command ends: the locks of commands and worker can make a cycle,  *)
(* but only one that the deadlock detector sees.                           *)
EveryCommandEnds == \A c \in Clients : cmd[c] # Idle ~> cmd[c] = Idle

(* The transactions as steps of EnrichmentQueue: an MC module states that  *)
(* they are, run one at a time.                                            *)
IssueRow(value) == [i \in {Issue} |-> value]
Discussion ==
    [n \in 1 .. Cardinality(posts) |-> CHOOSE kind \in {"report", "refinement", "note"} :
                                          <<n, kind>> \in posts]
Queue == INSTANCE EnrichmentQueue WITH
    Issues <- {Issue}, Workers <- {Worker}, MaxCatalog <- 0, ReadFailures <- FALSE,
    lifecycle <- IssueRow(IF posts = {} THEN "absent" ELSE "open"),
    discussion <- IssueRow(Discussion),
    enrichment <- IssueRow(proj),
    content <- IssueRow([texts |-> texts, catalog |-> 0]),
    snapshots <- IssueRow(snapshots),
    job <- IssueRow(job),
    pc <- [w \in {Worker} |-> pc],
    claim <- [w \in {Worker} |->
                IF pc \in {"idle", "stopped"}
                THEN [issue |-> NoIssue, target |-> 0, texts |-> {}, catalog |-> 0]
                ELSE [issue |-> Issue, target |-> claim.target,
                      texts |-> claim.texts, catalog |-> 0]],
    catalog <- 0,
    asked <- IssueRow(0)
=============================================================================
