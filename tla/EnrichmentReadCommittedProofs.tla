-------------------- MODULE EnrichmentReadCommittedProofs --------------------
(***************************************************************************)
(* Theorems about the transactions of the enrichment queue at READ         *)
(* COMMITTED, for any set of clients and any bounds: what holds however    *)
(* they overlap, and that run one at a time they implement the atomic      *)
(* steps of module EnrichmentQueue.                                        *)
(***************************************************************************)
EXTENDS MCEnrichmentSerial, FiniteSetTheorems, TLAPS

-----------------------------------------------------------------------------
(* The inductive invariant.                                                *)

(* Posts are numbered without a gap or a double, and each has one kind.    *)
PostsInv ==
    /\ IsFiniteSet(posts)
    /\ PostsNumbered
    /\ \A p, q \in posts : p[1] = q[1] => p = q
    /\ posts = {} => job.target = 0

Numbering(c) == cmd[c].kind \in {"refinement", "note"}

(* A command's number was the next one when it read the discussion, so it  *)
(* is the next one still or taken; a refinement keeps the posts locked     *)
(* from its insert to its commit.                                          *)
CommandInv(c) ==
    /\ cmd[c].kind = "none" \/ cmd[c].stmt = "none" => cmd[c] = Idle
    /\ cmd[c].kind # "none" => posts # {}
    /\ Numbering(c) => cmd[c].read \in 1 .. Cardinality(posts) + 1
    /\ cmd[c].kind = "note" => cmd[c].stmt = "post"
    /\ cmd[c].kind = "reenrich" => cmd[c].stmt # "post"
    /\ cmd[c].kind = "refinement" /\ cmd[c].stmt # "post" =>
           lock["post"] = c /\ ~Taken(cmd[c].read)

(* The transactions of the worker: its claim, its end, its failure, and    *)
(* the dropping of a job, found superseded at the first or second read.    *)
Claiming == pc = "idle" /\ stmt # "none"
Holding == pc \notin {"idle", "stopped"} \/ stmt # "none"
Seen == stmt = "sync" \/ (pc = "fail" /\ stmt \in {"write", "finish"})

(* A worker with a claim has its job, or one for a later target, in the    *)
(* queue, because no other worker removes jobs. A projection row that it   *)
(* has loaded was covered by that job.                                     *)
ClaimInv ==
    /\ stmt = "load" => pc \in {"idle", "fail"}
    /\ stmt \in {"write", "finish", "delete"} => pc \in {"apply", "fail"}
    /\ stmt = "reload" => pc \in {"drop", "apply", "fail"}
    /\ stmt = "sync" => pc \in {"idle", "drop", "apply", "fail"}
    /\ Holding => claim.target > 0 /\ job.target >= claim.target
    /\ pc \in {"idle", "stopped"} => claim.texts = {}
    /\ Claiming => lock["job"] = Worker /\ job.due
    /\ lock["job"] = Worker => stmt # "none" /\ job.target = claim.target
    /\ stmt \in {"reload", "sync"} /\ job.target = claim.target => lock["job"] = Worker
    /\ Seen => seen.target <= job.target
    /\ lock["post"] # Worker

TransactionsInv ==
    /\ TypeOK
    /\ PostsInv
    /\ \A c \in Clients : CommandInv(c)
    /\ ClaimInv
    /\ JobCoversProjection

(* What the open transaction has read is true to its end, if there is one  *)
(* at a time.                                                              *)
SerialInv ==
    /\ \A t, u \in Open : t = u
    /\ \A c \in Clients : cmd[c].kind = "reenrich" => cmd[c].read = proj.target
    /\ Seen => seen = proj
    /\ pc \in {"apply", "fail"} /\ stmt \in {"delete", "reload", "sync"} =>
           proj.target # claim.target
    /\ pc \in {"apply", "fail"} /\ stmt \in {"load", "write", "finish"} =>
           proj.target = claim.target

EitherInv == TransactionsInv /\ IsFiniteSet(Open) /\ serial \in BOOLEAN /\ (serial => SerialInv)

-----------------------------------------------------------------------------
(* Types.                                                                  *)

Status == {"complete", "pending", "failed"}
Kind == {"report", "refinement", "note"}
ProjRow == [status : Status, target : 0 .. MaxPosts]
JobRow == [target : 0 .. MaxPosts, due : BOOLEAN]
Command == [kind : {"none", "refinement", "note", "reenrich"},
            stmt : {"none", "post", "projection", "job"}, read : 0 .. MaxPosts]
ClaimRow == [target : 0 .. MaxPosts, texts : SUBSET (1 .. MaxPosts)]

(* A row that an enqueue leaves is a job row, due, for what was asked and  *)
(* for what was there.                                                     *)
LEMMA EnqueuedRow ==
    ASSUME job \in JobRow, NEW n \in 0 .. MaxPosts
    PROVE  /\ Enqueued(n) \in JobRow
           /\ Enqueued(n).due
           /\ Enqueued(n).target >= n /\ Enqueued(n).target >= job.target
           /\ Enqueued(n).target \in {n, job.target}
    BY TransactionsAssumption DEF JobRow, Enqueued

(* Locking and releasing keep a holder per row, and leave others their rows. *)
LEMMA Locks ==
    ASSUME TypeOK, NEW t \in Clients \cup {Worker}
    PROVE  /\ \A row \in Row : Lock(row, t) =>
                 /\ lock' \in [Row -> Clients \cup {Worker, NoOne}]
                 /\ lock'[row] = t
                 /\ \A other \in Row \ {row} : lock'[other] = lock[other]
           /\ Release(t) =>
                 /\ lock' \in [Row -> Clients \cup {Worker, NoOne}]
                 /\ \A row \in Row : /\ lock'[row] # t
                                     /\ lock[row] # t => lock'[row] = lock[row]
                                     /\ lock'[row] \in {lock[row], NoOne}
    BY TransactionsAssumption DEF TypeOK, Lock, Release

(* The same with the rows by name. *)
LEMMA RowNames ==
    /\ "post" \in Row /\ "projection" \in Row /\ "job" \in Row
    /\ "post" # "job" /\ "post" # "projection" /\ "projection" # "job"
    BY DEF Row

(* The initial state satisfies the invariant. *)
LEMMA TransactionsStart == Init => TransactionsInv
    <1> SUFFICES ASSUME Init PROVE TransactionsInv
        OBVIOUS
    <1>1. TypeOK
        BY TransactionsAssumption DEF Init, TypeOK, NoJob, NoClaim, Idle
    <1>2. PostsInv
        BY FS_EmptySet DEF Init, PostsInv, PostsNumbered, PostSequences, NoJob
    <1>3. \A c \in Clients : CommandInv(c)
        BY DEF Init, CommandInv, Idle, Numbering
    <1>4. ClaimInv
        BY TransactionsAssumption DEF Init, ClaimInv, Holding, Claiming, Seen, NoClaim, Row
    <1>5. JobCoversProjection
        BY DEF Init, JobCoversProjection, NoJob
    <1> QED
        BY <1>1, <1>2, <1>3, <1>4, <1>5 DEF TransactionsInv

(* What a command reads of the discussion. *)
LEMMA PostCount ==
    ASSUME TransactionsInv
    PROVE  /\ Cardinality(posts) \in Nat
           /\ posts # {} => Cardinality(posts) > 0
           /\ \A n \in Nat : Taken(n) <=> n \in 1 .. Cardinality(posts)
    <1>1. IsFiniteSet(posts) /\ PostsNumbered
        BY DEF TransactionsInv, PostsInv
    <1>2. Cardinality(posts) \in Nat /\ (posts # {} => Cardinality(posts) # 0)
        BY <1>1, FS_CardinalityType, FS_EmptySet
    <1> QED
        BY <1>1, <1>2 DEF PostsNumbered, Taken

(* A post with the next number. *)
LEMMA PostAdded ==
    ASSUME TransactionsInv, NEW n \in Nat, NEW kind \in Kind,
           n \in 1 .. Cardinality(posts) + 1, ~Taken(n), n <= MaxPosts,
           posts' = posts \cup {<<n, kind>>}
    PROVE  /\ posts' \subseteq (1 .. MaxPosts) \X Kind
           /\ n = Cardinality(posts) + 1
           /\ Cardinality(posts)' = Cardinality(posts) + 1
           /\ PostSequences' = PostSequences \cup {n}
           /\ posts' # {} /\ IsFiniteSet(posts)' /\ PostsNumbered'
           /\ (\A p, q \in posts : p[1] = q[1] => p = q)'
    <1>1. Cardinality(posts) \in Nat /\ n = Cardinality(posts) + 1
        BY PostCount
    <1>2. posts \subseteq (1 .. MaxPosts) \X Kind
        BY DEF TransactionsInv, TypeOK, Kind
    <1>3. <<n, kind>> \in (1 .. MaxPosts) \X Kind
        BY TransactionsAssumption, <1>1
    <1>4. PostSequences = 1 .. Cardinality(posts)
        BY DEF TransactionsInv, PostsInv, PostsNumbered
    <1>5. PostSequences' = PostSequences \cup {n}
        <2>1. <<n, kind>>[1] = n /\ <<n, kind>> \in posts' /\ posts \subseteq posts'
            OBVIOUS
        <2>2. \A p \in posts' : p \in posts \/ p = <<n, kind>>
            OBVIOUS
        <2> QED
            BY <2>1, <2>2 DEF PostSequences
    <1>6. <<n, kind>> \notin posts /\ \A p \in posts : p[1] # n
        BY DEF Taken, PostSequences
    <1>7. IsFiniteSet(posts') /\ Cardinality(posts') = Cardinality(posts) + 1
        BY <1>6, FS_AddElement DEF TransactionsInv, PostsInv
    <1>8. PostsNumbered'
        BY <1>1, <1>4, <1>5, <1>7 DEF PostsNumbered
    <1>9. (\A p, q \in posts : p[1] = q[1] => p = q)'
        BY <1>6 DEF TransactionsInv, PostsInv
    <1> QED
        BY <1>1, <1>2, <1>3, <1>5, <1>7, <1>8, <1>9

-----------------------------------------------------------------------------
(* Commands keep the invariant.                                            *)

(* A command that a step leaves alone, and its lock, stays right, also     *)
(* when posts are added, unless it has the lock that the step needed.      *)
LEMMA CommandKept ==
    ASSUME TransactionsInv, NEW c \in Clients, cmd'[c] = cmd[c],
           lock["post"] = c => lock'["post"] = c,
           \/ posts' = posts
           \/ /\ lock["post"] # c /\ posts' # {}
              /\ Cardinality(posts)' = Cardinality(posts) + 1
    PROVE  CommandInv(c)'
    <1>1. CommandInv(c)
        BY DEF TransactionsInv
    <1>2. CASE posts' = posts
        BY <1>1, <1>2 DEF CommandInv, Numbering, Taken, PostSequences
    <1>3. CASE /\ lock["post"] # c /\ posts' # {}
               /\ Cardinality(posts)' = Cardinality(posts) + 1
        <2>1. Numbering(c)' => cmd'[c].read \in 1 .. Cardinality(posts)' + 1
            BY <1>1, <1>3, PostCount DEF CommandInv, Numbering
        <2> QED
            BY <1>1, <1>3, <2>1 DEF CommandInv, Numbering
    <1> QED
        BY <1>2, <1>3

(* A step that leaves the posts alone and removes no job keeps PostsInv.   *)
LEMMA PostsKept ==
    ASSUME TransactionsInv, posts' = posts, job.target = 0 => job'.target = 0 \/ posts # {}
    PROVE  PostsInv'
    BY DEF TransactionsInv, PostsInv, PostsNumbered, PostSequences

(* The worker's part is untouched by a step that leaves its variables and  *)
(* the locks on jobs and posts from and to it alone, and the jobs.         *)
LEMMA WorkerKept ==
    ASSUME TransactionsInv, UNCHANGED workerVars, UNCHANGED job,
           lock'["job"] = Worker <=> lock["job"] = Worker, lock'["post"] # Worker
    PROVE  ClaimInv'
    BY DEF TransactionsInv, ClaimInv, Holding, Claiming, Seen, workerVars

(* Create: nothing is open and no job waits before the issue exists. *)
LEMMA CreateKeeps ==
    ASSUME TransactionsInv, NEW c \in Clients, Create(c)
    PROVE  TransactionsInv'
    <1>1. posts = {} /\ job.target = 0 /\ Cardinality(posts) = 0
        BY FS_EmptySet DEF Create, TransactionsInv, PostsInv
    <1>2. job \in JobRow /\ MaxPosts \in Nat \ {0}
        BY TransactionsAssumption DEF TransactionsInv, TypeOK, JobRow
    <1>3. job' \in JobRow /\ job'.target = 1
        BY <1>1, <1>2, EnqueuedRow DEF Create
    <1>4. ~Taken(1)
        BY <1>1 DEF Taken, PostSequences
    <1>5. posts' = posts \cup {<<1, "report">>} /\ "report" \in Kind
        BY <1>1 DEF Create, Kind
    <1>6. /\ posts' \subseteq (1 .. MaxPosts) \X Kind
          /\ posts' # {} /\ IsFiniteSet(posts)' /\ PostsNumbered'
          /\ (\A p, q \in posts : p[1] = q[1] => p = q)'
        BY <1>1, <1>2, <1>4, <1>5, PostAdded
    <1>7. TypeOK'
        BY <1>2, <1>3, <1>6 DEF Create, TransactionsInv, TypeOK, JobRow, Kind, workerVars
    <1>8. PostsInv'
        BY <1>6 DEF PostsInv
    <1>9. \A d \in Clients : CommandInv(d)'
        <2>1. \A d \in Clients : cmd[d].kind = "none"
            BY <1>1 DEF TransactionsInv, CommandInv
        <2> QED
            BY <2>1 DEF Create, TransactionsInv, CommandInv, Idle, Numbering
    <1>10. ClaimInv'
        <2>1. ~Holding
            BY <1>1 DEF TransactionsInv, TypeOK, ClaimInv
        <2> QED
            BY <2>1 DEF Create, TransactionsInv, ClaimInv, Holding, Claiming, Seen, workerVars
    <1>11. JobCoversProjection'
        BY <1>3 DEF Create, JobCoversProjection
    <1> QED
        BY <1>7, <1>8, <1>9, <1>10, <1>11 DEF TransactionsInv

(* Begin: the number after the posts there are, or the target shown. *)
LEMMA BeginKeeps ==
    ASSUME TransactionsInv, NEW c \in Clients,
           NEW kind \in {"refinement", "note", "reenrich"}, Begin(c, kind)
    PROVE  TransactionsInv'
    <1>1. Cardinality(posts) \in Nat /\ proj.target \in 0 .. MaxPosts /\ MaxPosts \in Nat
        BY PostCount, TransactionsAssumption DEF TransactionsInv, TypeOK
    <1> PICK new : new = IF kind = "reenrich"
                         THEN [kind |-> kind, stmt |-> "projection", read |-> proj.target]
                         ELSE [kind |-> kind, stmt |-> "post", read |-> Cardinality(posts) + 1]
        OBVIOUS
    <1>2. cmd' = [cmd EXCEPT ![c] = new] /\ UNCHANGED <<rows, lock, workerVars>>
        BY DEF Begin
    <1>3. new \in Command
        BY <1>1 DEF Begin, Command
    <1>4. TypeOK'
        BY <1>2, <1>3 DEF TransactionsInv, TypeOK, Command, rows, workerVars
    <1>5. PostsInv'
        BY <1>2, PostsKept DEF rows
    <1>6. \A d \in Clients : CommandInv(d)'
        <2>1. CommandInv(c)'
            <3>1. cmd'[c] = new /\ posts # {} /\ posts' = posts
                BY <1>2 DEF Begin, TransactionsInv, TypeOK, rows
            <3> QED
                BY <1>1, <3>1 DEF CommandInv, Numbering, Idle
        <2>2. ASSUME NEW d \in Clients \ {c} PROVE CommandInv(d)'
            BY <1>2, CommandKept DEF TransactionsInv, TypeOK, rows
        <2> QED
            BY <2>1, <2>2
    <1>7. ClaimInv'
        BY <1>2, WorkerKept DEF TransactionsInv, ClaimInv, rows
    <1>8. JobCoversProjection'
        BY <1>2 DEF TransactionsInv, JobCoversProjection, rows
    <1> QED
        BY <1>4, <1>5, <1>6, <1>7, <1>8 DEF TransactionsInv

(* Leaving: commands end with their locks. *)
LEMMA EndTypes ==
    ASSUME TransactionsInv, NEW c \in Clients, End(c)
    PROVE  /\ cmd' \in [Clients -> Command] /\ cmd'[c] = Idle
           /\ \A d \in Clients \ {c} : cmd'[d] = cmd[d]
           /\ lock' \in [Row -> Clients \cup {Worker, NoOne}]
           /\ \A row \in Row : lock'[row] # c /\ (lock[row] # c => lock'[row] = lock[row])
           /\ \A row \in Row : lock'[row] = Worker <=> lock[row] = Worker
    <1>1. Idle \in Command
        BY TransactionsAssumption DEF Idle, Command
    <1>2. cmd \in [Clients -> Command] /\ TypeOK
        BY DEF TransactionsInv, TypeOK, Command
    <1>3. /\ lock' \in [Row -> Clients \cup {Worker, NoOne}]
          /\ \A row \in Row : /\ lock'[row] # c
                              /\ lock[row] # c => lock'[row] = lock[row]
                              /\ lock'[row] \in {lock[row], NoOne}
        BY <1>2, Locks DEF End
    <1>4. c # Worker /\ NoOne # Worker
        BY TransactionsAssumption
    <1> QED
        BY <1>1, <1>2, <1>3, <1>4 DEF End

(* A command that ended is idle. *)
LEMMA EndedIdle == ASSUME NEW c \in Clients, cmd'[c] = Idle PROVE CommandInv(c)'
    BY DEF CommandInv, Numbering, Idle

(* InsertNote. *)
LEMMA InsertNoteKeeps ==
    ASSUME TransactionsInv, NEW c \in Clients, InsertNote(c)
    PROVE  TransactionsInv'
    <1>1. /\ End(c) /\ UNCHANGED <<proj, job, texts, snapshots, workerVars>>
          /\ posts' = posts \cup {<<cmd[c].read, "note">>}
          /\ ~Taken(cmd[c].read) /\ lock["post"] \in {c, NoOne} /\ cmd[c].kind = "note"
        BY DEF InsertNote, Free
    <1>2. cmd[c].read \in 1 .. Cardinality(posts) + 1 /\ cmd[c].read <= MaxPosts
          /\ cmd[c].read \in Nat
        BY <1>1, PostCount, TransactionsAssumption
        DEF TransactionsInv, CommandInv, Numbering, TypeOK
    <1>3. "note" \in Kind
        BY DEF Kind
    <1>4. /\ posts' \subseteq (1 .. MaxPosts) \X Kind
          /\ Cardinality(posts)' = Cardinality(posts) + 1
          /\ posts' # {} /\ IsFiniteSet(posts)' /\ PostsNumbered'
          /\ (\A p, q \in posts : p[1] = q[1] => p = q)'
        BY <1>1, <1>2, <1>3, PostAdded
    <1>5. /\ cmd' \in [Clients -> Command] /\ cmd'[c] = Idle
          /\ \A d \in Clients \ {c} : cmd'[d] = cmd[d]
          /\ lock' \in [Row -> Clients \cup {Worker, NoOne}]
          /\ \A row \in Row : lock'[row] = Worker <=> lock[row] = Worker
        BY <1>1, EndTypes
    <1>6. TypeOK'
        BY <1>1, <1>4, <1>5 DEF TransactionsInv, TypeOK, Command, Kind, workerVars
    <1>7. PostsInv'
        BY <1>4 DEF PostsInv
    <1>8. ASSUME NEW d \in Clients PROVE CommandInv(d)'
        <2>1. CASE d = c
            BY <1>5, <2>1, EndedIdle
        <2>2. CASE d # c
            <3>1. lock["post"] # d
                BY <1>1, <2>2, TransactionsAssumption
            <3> QED
                BY <1>4, <1>5, <2>2, <3>1, CommandKept
        <2> QED
            BY <2>1, <2>2
    <1>9. ClaimInv'
        BY <1>1, <1>5, WorkerKept, RowNames DEF TransactionsInv, ClaimInv
    <1>10. JobCoversProjection'
        BY <1>1 DEF TransactionsInv, JobCoversProjection
    <1> QED
        BY <1>6, <1>7, <1>8, <1>9, <1>10 DEF TransactionsInv

(* InsertRefinement and UpsertProjection: the next statement, with a lock. *)
LEMMA StatementKeeps ==
    ASSUME TransactionsInv, NEW c \in Clients, NEW row \in {"post", "projection"},
           NEW next \in {"projection", "job"},
           Lock(row, c), Free(row, c), cmd' = [cmd EXCEPT ![c].stmt = next],
           UNCHANGED <<rows, workerVars>>, cmd[c].kind \in {"refinement", "reenrich"},
           \/ row = "post" /\ cmd[c].kind = "refinement" /\ ~Taken(cmd[c].read)
           \/ row = "projection" /\ cmd[c].stmt # "post"
    PROVE  TransactionsInv'
    <1>1. /\ row \in Row /\ lock' \in [Row -> Clients \cup {Worker, NoOne}]
          /\ lock'[row] = c /\ \A other \in Row \ {row} : lock'[other] = lock[other]
        BY Locks DEF Row, TransactionsInv
    <1>2. /\ cmd' \in [Clients -> Command] /\ \A d \in Clients \ {c} : cmd'[d] = cmd[d]
          /\ cmd'[c].kind = cmd[c].kind /\ cmd'[c].read = cmd[c].read /\ cmd'[c].stmt = next
        BY DEF TransactionsInv, TypeOK, Command
    <1>3. TypeOK'
        BY <1>1, <1>2 DEF TransactionsInv, TypeOK, Command, rows, workerVars
    <1>4. PostsInv'
        BY PostsKept DEF rows
    <1>5. c # Worker /\ lock[row] # Worker
        BY TransactionsAssumption DEF Free
    <1>6. lock'["post"] # Worker /\ (lock'["job"] = Worker <=> lock["job"] = Worker)
        BY <1>1, <1>5, RowNames DEF TransactionsInv, ClaimInv
    <1>7. ASSUME NEW d \in Clients PROVE CommandInv(d)'
        <2>1. CASE d = c
            <3>1. posts' = posts /\ posts # {} /\ CommandInv(c) /\ lock'["post"] \in {lock["post"], c}
                BY <1>1, RowNames DEF rows, TransactionsInv, CommandInv
            <3>2. cmd'[c].kind = "refinement" => lock'["post"] = c /\ ~Taken(cmd[c].read)'
                BY <1>1, <1>2, <3>1 DEF CommandInv, Taken, PostSequences
            <3> QED
                BY <1>2, <2>1, <3>1, <3>2 DEF CommandInv, Numbering
        <2>2. CASE d # c
            <3>1. lock["post"] = d => lock'["post"] = d
                BY <1>1, <2>2, RowNames, TransactionsAssumption DEF Free
            <3> QED
                BY <1>2, <2>2, <3>1, CommandKept DEF rows
        <2> QED
            BY <2>1, <2>2
    <1>8. ClaimInv'
        BY <1>6, WorkerKept DEF rows
    <1>9. JobCoversProjection'
        BY DEF TransactionsInv, JobCoversProjection, rows
    <1> QED
        BY <1>3, <1>4, <1>7, <1>8, <1>9 DEF TransactionsInv

(* Each of these statements. *)
LEMMA InsertRefinementKeeps ==
    ASSUME TransactionsInv, NEW c \in Clients, InsertRefinement(c)
    PROVE  TransactionsInv'
    BY StatementKeeps DEF InsertRefinement

LEMMA UpsertProjectionKeeps ==
    ASSUME TransactionsInv, NEW c \in Clients, UpsertProjection(c)
    PROVE  TransactionsInv'
    <1>1. cmd[c].kind \in {"refinement", "reenrich"}
        BY DEF UpsertProjection, TransactionsInv, TypeOK, CommandInv, Idle
    <1> QED
        BY <1>1, StatementKeeps DEF UpsertProjection

(* The number or target a command has read is one of a row. *)
LEMMA ReadType ==
    ASSUME TransactionsInv, NEW c \in Clients
    PROVE  cmd[c].read \in 0 .. MaxPosts
    BY DEF TransactionsInv, TypeOK

(* EnqueueAndCommit: the job grows to what the command asks for. *)
LEMMA EnqueueAndCommitKeeps ==
    ASSUME TransactionsInv, NEW c \in Clients, EnqueueAndCommit(c)
    PROVE  TransactionsInv'
    <1> PICK n : n = cmd[c].read
        OBVIOUS
    <1>1. /\ End(c) /\ UNCHANGED <<texts, snapshots, workerVars>>
          /\ proj' = [status |-> "pending", target |-> n] /\ job' = Enqueued(n)
          /\ lock["job"] \in {c, NoOne} /\ cmd[c].stmt = "job"
          /\ posts' = IF cmd[c].kind = "refinement"
                      THEN posts \cup {<<n, "refinement">>} ELSE posts
        BY DEF EnqueueAndCommit, Free
    <1>2. n \in 0 .. MaxPosts /\ MaxPosts \in Nat /\ n \in Nat
        BY ReadType, TransactionsAssumption
    <1>3. job \in JobRow
        BY DEF TransactionsInv, TypeOK, JobRow
    <1>4. job' \in JobRow /\ job'.due /\ job'.target >= n /\ job'.target >= job.target
        BY <1>1, <1>2, <1>3, EnqueuedRow
    <1>5. cmd[c].kind # "none" /\ posts # {} /\ CommandInv(c)
        BY <1>1 DEF TransactionsInv, CommandInv, Idle
    <1>6. \/ posts' = posts
          \/ /\ posts' = posts \cup {<<n, "refinement">>} /\ lock["post"] = c /\ ~Taken(n)
             /\ n \in 1 .. Cardinality(posts) + 1
        BY <1>1, <1>5 DEF CommandInv, Numbering
    <1>7. /\ posts' \subseteq (1 .. MaxPosts) \X Kind
          /\ posts' # {} /\ IsFiniteSet(posts)' /\ PostsNumbered'
          /\ (\A p, q \in posts : p[1] = q[1] => p = q)'
          /\ \/ posts' = posts
             \/ lock["post"] = c /\ Cardinality(posts)' = Cardinality(posts) + 1
        <2>1. CASE posts' = posts
            BY <1>5, <2>1
            DEF TransactionsInv, TypeOK, Kind, PostsInv, PostsNumbered, PostSequences
        <2>2. CASE /\ posts' = posts \cup {<<n, "refinement">>} /\ lock["post"] = c /\ ~Taken(n)
                   /\ n \in 1 .. Cardinality(posts) + 1
            <3>1. "refinement" \in Kind /\ n <= MaxPosts
                BY <1>2 DEF Kind
            <3> QED
                BY <1>2, <2>2, <3>1, PostAdded
        <2> QED
            BY <1>6, <2>1, <2>2
    <1>8. /\ cmd' \in [Clients -> Command] /\ cmd'[c] = Idle
          /\ \A d \in Clients \ {c} : cmd'[d] = cmd[d]
          /\ lock' \in [Row -> Clients \cup {Worker, NoOne}]
          /\ \A row \in Row : /\ lock'[row] = Worker <=> lock[row] = Worker
                              /\ lock[row] # c => lock'[row] = lock[row]
        BY <1>1, EndTypes
    <1>9. TypeOK'
        <2>1. proj' \in [status : {"complete", "pending", "failed"}, target : 0 .. MaxPosts]
            BY <1>1, <1>2
        <2> QED
            BY <1>1, <1>4, <1>7, <1>8, <2>1 DEF TransactionsInv, TypeOK, Command, Kind, JobRow, workerVars
    <1>10. PostsInv'
        BY <1>7 DEF PostsInv
    <1>11. ASSUME NEW d \in Clients PROVE CommandInv(d)'
        <2>1. CASE d = c
            BY <1>8, <2>1, EndedIdle
        <2>2. CASE d # c
            <3>1. lock["post"] = d => lock'["post"] = d /\ posts' = posts
                BY <1>7, <1>8, <2>2, RowNames
            <3> QED
                BY <1>7, <1>8, <2>2, <3>1, CommandKept
        <2> QED
            BY <2>1, <2>2
    <1>12. ClaimInv'
        <2>1. lock["job"] # Worker /\ lock'["job"] # Worker /\ lock'["post"] # Worker
            BY <1>1, <1>8, RowNames, TransactionsAssumption DEF TransactionsInv, ClaimInv
        <2>2. ClaimInv /\ ~Claiming
            BY <2>1 DEF TransactionsInv, ClaimInv
        <2>3. /\ job.target \in Nat /\ job'.target \in Nat /\ job'.target >= job.target
              /\ claim.target \in Nat /\ seen.target \in Nat
            BY <1>2, <1>3, <1>4 DEF TransactionsInv, TypeOK, JobRow
        <2>4. stmt \in {"reload", "sync"} => Holding /\ job.target # claim.target
            BY <2>1, <2>2 DEF ClaimInv, Holding
        <2>5. UNCHANGED <<pc, stmt, claim, seen>>
            BY <1>1 DEF workerVars
        <2>6. Holding => claim.target > 0 /\ job'.target >= claim.target
            BY <2>2, <2>3 DEF ClaimInv
        <2>7. stmt \in {"reload", "sync"} => job'.target # claim.target
            BY <2>2, <2>3, <2>4 DEF ClaimInv
        <2>8. Seen => seen.target <= job'.target
            BY <2>2, <2>3 DEF ClaimInv
        <2> QED
            BY <2>1, <2>2, <2>5, <2>6, <2>7, <2>8 DEF ClaimInv, Holding, Claiming, Seen
    <1>13. JobCoversProjection'
        BY <1>1, <1>2, <1>4 DEF JobCoversProjection
    <1> QED
        BY <1>9, <1>10, <1>11, <1>12, <1>13 DEF TransactionsInv

(* Abort leaves nothing behind. *)
LEMMA AbortKeeps ==
    ASSUME TransactionsInv, NEW c \in Clients, Abort(c)
    PROVE  TransactionsInv'
    <1>1. End(c) /\ UNCHANGED <<rows, workerVars>>
        BY DEF Abort
    <1>2. /\ cmd' \in [Clients -> Command] /\ cmd'[c] = Idle
          /\ \A d \in Clients \ {c} : cmd'[d] = cmd[d]
          /\ lock' \in [Row -> Clients \cup {Worker, NoOne}]
          /\ \A row \in Row : /\ lock'[row] = Worker <=> lock[row] = Worker
                              /\ lock[row] # c => lock'[row] = lock[row]
        BY <1>1, EndTypes
    <1>3. TypeOK'
        BY <1>1, <1>2 DEF TransactionsInv, TypeOK, Command, rows, workerVars
    <1>4. PostsInv'
        BY <1>1, PostsKept DEF rows
    <1>5. ASSUME NEW d \in Clients PROVE CommandInv(d)'
        BY <1>1, <1>2, EndedIdle, CommandKept, RowNames DEF rows
    <1>6. ClaimInv'
        BY <1>1, <1>2, WorkerKept, RowNames DEF TransactionsInv, ClaimInv, rows
    <1>7. JobCoversProjection'
        BY <1>1 DEF TransactionsInv, JobCoversProjection, rows
    <1> QED
        BY <1>3, <1>4, <1>5, <1>6, <1>7 DEF TransactionsInv

-----------------------------------------------------------------------------
(* The worker keeps the invariant.                                         *)

(* The worker leaves commands, their locks and the posts alone, and queues *)
(* no job where there is none.                                             *)
LEMMA WorkerSteps ==
    ASSUME TransactionsInv, UNCHANGED <<posts, cmd>>, TypeOK', ClaimInv', JobCoversProjection',
           \A row \in Row : lock[row] \in Clients => lock'[row] = lock[row],
           job.target = 0 => job'.target = 0
    PROVE  TransactionsInv'
    <1>1. PostsInv'
        BY PostsKept
    <1>2. \A c \in Clients : CommandInv(c)'
        BY CommandKept, RowNames
    <1> QED
        BY <1>1, <1>2 DEF TransactionsInv

(* What the worker's cases turn on. *)
LEMMA WorkerFacts ==
    ASSUME TransactionsInv
    PROVE  /\ job.target \in Nat /\ proj.target \in Nat /\ claim.target \in Nat
           /\ seen.target \in Nat /\ MaxPosts \in Nat
           /\ TypeOK /\ ClaimInv /\ JobCoversProjection
           /\ job \in JobRow /\ claim \in ClaimRow /\ NoJob \in JobRow /\ NoClaim \in ClaimRow
           /\ NoJob.target = 0 /\ NoClaim.target = 0 /\ NoClaim.texts = {}
           /\ Worker # NoOne /\ Worker \notin Clients /\ NoOne \notin Clients
    BY TransactionsAssumption
    DEF TransactionsInv, TypeOK, JobRow, ClaimRow, NoJob, NoClaim

(* Claim takes the lock of the job it claims. *)
LEMMA ClaimKeeps == ASSUME TransactionsInv, Claim PROVE TransactionsInv'
    <1>1. /\ lock' \in [Row -> Clients \cup {Worker, NoOne}] /\ lock'["job"] = Worker
          /\ \A row \in Row \ {"job"} : lock'[row] = lock[row]
          /\ lock["job"] = NoOne
        BY Locks, RowNames DEF Claim, TransactionsInv
    <1>2. /\ claim' \in ClaimRow /\ claim'.target = job.target /\ claim'.texts = {}
        BY WorkerFacts DEF Claim, ClaimRow, NoClaim, JobRow
    <1>3. TypeOK'
        BY <1>1, <1>2, WorkerFacts DEF Claim, TypeOK, ClaimRow, rows
    <1>4. ClaimInv'
        BY <1>1, <1>2, WorkerFacts, RowNames
        DEF Claim, ClaimInv, Holding, Claiming, Seen, rows
    <1>5. JobCoversProjection'
        BY WorkerFacts DEF Claim, JobCoversProjection, rows
    <1> QED
        BY <1>1, <1>3, <1>4, <1>5, WorkerSteps, WorkerFacts DEF Claim, rows

(* The steps that read, or move on, and change no row and no lock. *)
LEMMA ReadingKeeps ==
    ASSUME TransactionsInv, LoadProjection \/ Load \/ Analyse \/ Recheck \/ Reload \/ Restart
    PROVE  TransactionsInv'
    <1>1. UNCHANGED <<rows, lock, cmd>>
        BY DEF LoadProjection, Load, Analyse, Recheck, Reload, Restart
    <1>2. claim' \in ClaimRow
        <2>1. CASE Load
            <3>1. {n \in PostSequences : n <= claim.target} \subseteq 1 .. MaxPosts
                BY DEF PostSequences, TransactionsInv, TypeOK
            <3> QED
                BY <2>1, <3>1, WorkerFacts DEF Load, ClaimRow
        <2>2. CASE claim' = claim
            BY <2>2, WorkerFacts
        <2> QED
            BY <2>1, <2>2 DEF LoadProjection, Analyse, Recheck, Reload, Restart
    <1>3. TypeOK'
        BY <1>1, <1>2, WorkerFacts
        DEF LoadProjection, Load, Analyse, Recheck, Reload, Restart, TypeOK, ClaimRow, rows
    <1>4. ClaimInv'
        <2>1. CASE LoadProjection
            BY <2>1, WorkerFacts
            DEF LoadProjection, ClaimInv, Holding, Claiming, Seen, JobCoversProjection, rows
        <2>2. CASE Load
            <3>1. claim'.target = claim.target
                BY <2>2, WorkerFacts DEF Load, ClaimRow
            <3> QED
                BY <2>2, <3>1, WorkerFacts DEF Load, ClaimInv, Holding, Claiming, Seen, rows
        <2>3. CASE Analyse
            BY <2>3, WorkerFacts DEF Analyse, ClaimInv, Holding, Claiming, Seen, rows
        <2>4. CASE Recheck
            BY <2>4, WorkerFacts DEF Recheck, ClaimInv, Holding, Claiming, Seen, rows
        <2>5. CASE Reload
            BY <2>5, WorkerFacts
            DEF Reload, ClaimInv, Holding, Claiming, Seen, JobCoversProjection, rows
        <2>6. CASE Restart
            <3>1. stmt = "none"
                BY <2>6, WorkerFacts DEF Restart, ClaimInv, TypeOK
            <3> QED
                BY <2>6, <3>1, WorkerFacts DEF Restart, ClaimInv, Holding, Claiming, Seen, rows
        <2> QED
            BY <2>1, <2>2, <2>3, <2>4, <2>5, <2>6
    <1>5. JobCoversProjection'
        BY <1>1, WorkerFacts DEF JobCoversProjection, rows
    <1> QED
        BY <1>1, <1>3, <1>4, <1>5, WorkerSteps DEF rows

(* WriteProjection and DeleteJob take a lock. *)
LEMMA WriteProjectionKeeps == ASSUME TransactionsInv, WriteProjection PROVE TransactionsInv'
    <1>1. /\ lock' \in [Row -> Clients \cup {Worker, NoOne}]
          /\ \A row \in Row \ {"projection"} : lock'[row] = lock[row]
          /\ lock["projection"] \in {Worker, NoOne}
        BY Locks, RowNames DEF WriteProjection, TransactionsInv, Free
    <1>2. TypeOK'
        BY <1>1, WorkerFacts DEF WriteProjection, TypeOK, rows
    <1>3. ClaimInv'
        BY <1>1, WorkerFacts, RowNames
        DEF WriteProjection, ClaimInv, Holding, Claiming, Seen, rows
    <1>4. JobCoversProjection'
        BY WorkerFacts DEF WriteProjection, JobCoversProjection, rows
    <1> QED
        BY <1>1, <1>2, <1>3, <1>4, WorkerSteps, WorkerFacts DEF WriteProjection, rows

LEMMA DeleteJobKeeps == ASSUME TransactionsInv, DeleteJob PROVE TransactionsInv'
    <1>1. /\ lock' \in [Row -> Clients \cup {Worker, NoOne}]
          /\ \A row \in Row \ {"job"} : lock'[row] = lock[row]
          /\ lock'["job"] = lock["job"] \/ lock["job"] \in {Worker, NoOne}
          /\ job.target = claim.target => lock'["job"] = Worker
          /\ job.target # claim.target => lock' = lock
        BY Locks, RowNames, WorkerFacts DEF DeleteJob, TypeOK, Free
    <1>2. pc \in {"drop", "apply", "fail"}
        BY WorkerFacts DEF DeleteJob, ClaimInv
    <1>3. TypeOK'
        BY <1>1, WorkerFacts DEF DeleteJob, TypeOK, rows
    <1>4. ClaimInv'
        BY <1>1, <1>2, WorkerFacts, RowNames
        DEF DeleteJob, ClaimInv, Holding, Claiming, Seen, rows
    <1>5. JobCoversProjection'
        BY WorkerFacts DEF DeleteJob, JobCoversProjection, rows
    <1> QED
        BY <1>1, <1>3, <1>4, <1>5, WorkerSteps, WorkerFacts DEF DeleteJob, rows

(* What a release of the worker's locks leaves. *)
LEMMA WorkerReleases ==
    ASSUME TransactionsInv, Release(Worker)
    PROVE  /\ lock' \in [Row -> Clients \cup {Worker, NoOne}]
           /\ \A row \in Row : lock[row] \in Clients => lock'[row] = lock[row]
           /\ lock'["job"] # Worker /\ lock'["post"] # Worker
    BY Locks, RowNames, WorkerFacts

(* SyncAndCommit ends the claim or the drop. *)
LEMMA SyncAndCommitKeeps == ASSUME TransactionsInv, SyncAndCommit PROVE TransactionsInv'
    <1>1. /\ lock' \in [Row -> Clients \cup {Worker, NoOne}]
          /\ \A row \in Row : lock[row] \in Clients => lock'[row] = lock[row]
          /\ lock'["job"] # Worker /\ lock'["post"] # Worker
        BY WorkerReleases DEF SyncAndCommit
    <1>2. /\ job' \in JobRow /\ job'.target \in {0, job.target}
          /\ job'.target # 0 => job'.target = job.target
          /\ pc = "idle" => job'.target = job.target
        BY WorkerFacts DEF SyncAndCommit, JobRow
    <1>3. claim' \in ClaimRow /\ stmt = "sync" /\ stmt' = "none" /\ proj' = seen
          /\ \/ pc = "idle" /\ pc' = "claimed" /\ claim' = claim
             \/ pc' = "idle" /\ claim' = NoClaim
        BY WorkerFacts DEF SyncAndCommit
    <1>4. TypeOK'
        BY <1>1, <1>2, <1>3, WorkerFacts DEF SyncAndCommit, TypeOK, ClaimRow, JobRow
    <1>5. ClaimInv'
        BY <1>1, <1>2, <1>3, WorkerFacts DEF ClaimInv, Holding, Claiming, Seen
    <1>6. JobCoversProjection'
        BY <1>2, <1>3, WorkerFacts DEF JobCoversProjection, ClaimInv, Seen
    <1> QED
        BY <1>1, <1>2, <1>4, <1>5, <1>6, WorkerSteps DEF SyncAndCommit

(* FinishAndCommit writes the outcome. *)
LEMMA FinishAndCommitKeeps == ASSUME TransactionsInv, FinishAndCommit PROVE TransactionsInv'
    <1>1. /\ lock' \in [Row -> Clients \cup {Worker, NoOne}]
          /\ \A row \in Row : lock[row] \in Clients => lock'[row] = lock[row]
          /\ lock'["job"] # Worker /\ lock'["post"] # Worker
        BY WorkerReleases DEF FinishAndCommit
    <1>2. pc \in {"apply", "fail"} /\ Holding /\ (pc = "fail" => Seen)
        BY WorkerFacts DEF FinishAndCommit, ClaimInv, Holding, Seen
    <1>3. /\ job' \in JobRow
          /\ job'.target # 0 => job'.target = job.target
          /\ pc = "apply" => job'.target # claim.target
        <2>1. claim.target > 0
            BY <1>2, WorkerFacts DEF ClaimInv
        <2>2. CASE pc = "apply"
            <3>1. job' = IF job.target = claim.target THEN NoJob ELSE job
                BY <2>2 DEF FinishAndCommit, Deleted
            <3> QED
                BY <2>1, <3>1, WorkerFacts
        <2>3. CASE pc = "fail"
            <3>1. job' = IF job.target = claim.target THEN [job EXCEPT !.due = FALSE] ELSE job
                BY <2>3 DEF FinishAndCommit
            <3> QED
                BY <2>3, <3>1, WorkerFacts DEF JobRow
        <2> QED
            BY <1>2, <2>2, <2>3
    <1>4. /\ proj' \in [status : {"complete", "pending", "failed"}, target : 0 .. MaxPosts]
          /\ texts' \subseteq 1 .. MaxPosts /\ snapshots' \subseteq 1 .. MaxPosts
          /\ proj'.target = IF pc = "apply" THEN claim.target ELSE seen.target
        BY <1>2, WorkerFacts DEF FinishAndCommit, ClaimRow, TypeOK, ClaimInv
    <1>5. claim' = NoClaim /\ pc' = "idle" /\ stmt' = "none"
        BY DEF FinishAndCommit
    <1>6. TypeOK'
        BY <1>1, <1>3, <1>4, <1>5, WorkerFacts DEF FinishAndCommit, TypeOK, ClaimRow, JobRow
    <1>7. ClaimInv'
        BY <1>1, <1>5, WorkerFacts DEF ClaimInv, Holding, Claiming, Seen
    <1>8. JobCoversProjection'
        BY <1>2, <1>3, <1>4, WorkerFacts DEF JobCoversProjection, ClaimInv
    <1> QED
        BY <1>1, <1>3, <1>6, <1>7, <1>8, WorkerSteps, WorkerFacts DEF FinishAndCommit, JobRow

(* Stop and LeaseExpires. *)
LEMMA StopKeeps == ASSUME TransactionsInv, Stop PROVE TransactionsInv'
    <1>1. /\ lock' \in [Row -> Clients \cup {Worker, NoOne}]
          /\ \A row \in Row : lock[row] \in Clients => lock'[row] = lock[row]
          /\ lock'["job"] # Worker /\ lock'["post"] # Worker
        BY WorkerReleases DEF Stop
    <1>2. TypeOK'
        BY <1>1, WorkerFacts DEF Stop, TypeOK, ClaimRow, rows
    <1>3. ClaimInv'
        BY <1>1, WorkerFacts DEF Stop, ClaimInv, Holding, Claiming, Seen, rows
    <1>4. JobCoversProjection'
        BY WorkerFacts DEF Stop, JobCoversProjection, rows
    <1> QED
        BY <1>1, <1>2, <1>3, <1>4, WorkerSteps DEF Stop, rows

LEMMA LeaseExpiresKeeps == ASSUME TransactionsInv, LeaseExpires PROVE TransactionsInv'
    <1>1. job' \in JobRow /\ job'.target = job.target /\ job'.due
        BY WorkerFacts DEF LeaseExpires, JobRow
    <1>2. TypeOK'
        BY <1>1, WorkerFacts DEF LeaseExpires, TypeOK, JobRow, workerVars
    <1>3. ClaimInv'
        BY <1>1, WorkerFacts DEF LeaseExpires, ClaimInv, Holding, Claiming, Seen, workerVars
    <1>4. JobCoversProjection'
        BY <1>1, WorkerFacts DEF LeaseExpires, JobCoversProjection
    <1> QED
        BY <1>1, <1>2, <1>3, <1>4, WorkerSteps DEF LeaseExpires

LEMMA TransactionsStutter == TransactionsInv /\ UNCHANGED vars => TransactionsInv'
    BY DEF vars, TransactionsInv, TypeOK, PostsInv, PostsNumbered, PostSequences, CommandInv,
           Numbering, Taken, ClaimInv, Holding, Claiming, Seen, JobCoversProjection

(* Every step keeps the invariant. *)
LEMMA TransactionsStep == TransactionsInv /\ [Next]_vars => TransactionsInv'
    <1> SUFFICES ASSUME TransactionsInv, [Next]_vars PROVE TransactionsInv'
        OBVIOUS
    <1>1. ASSUME NEW c \in Clients, Create(c) PROVE TransactionsInv'
        BY <1>1, CreateKeeps
    <1>2. ASSUME NEW c \in Clients, NEW kind \in {"refinement", "note", "reenrich"},
                 Begin(c, kind)
          PROVE  TransactionsInv'
        BY <1>2, BeginKeeps
    <1>3. ASSUME NEW c \in Clients, Statement(c) PROVE TransactionsInv'
        BY <1>3, InsertNoteKeeps, InsertRefinementKeeps, UpsertProjectionKeeps,
           EnqueueAndCommitKeeps DEF Statement
    <1>4. ASSUME NEW c \in Clients, Abort(c) PROVE TransactionsInv'
        BY <1>4, AbortKeeps
    <1>5. CASE WorkerStatement
        BY <1>5, ReadingKeeps, SyncAndCommitKeeps, WriteProjectionKeeps, FinishAndCommitKeeps,
           DeleteJobKeeps DEF WorkerStatement
    <1>6. CASE Claim \/ Load \/ Analyse \/ Recheck \/ DeleteJob \/ Stop \/ Restart \/ LeaseExpires
        BY <1>6, ClaimKeeps, ReadingKeeps, DeleteJobKeeps, StopKeeps, LeaseExpiresKeeps
    <1> QED
        BY <1>1, <1>2, <1>3, <1>4, <1>5, <1>6, TransactionsStutter DEF Next

(* The inductive invariant, for any clients, however transactions overlap. *)
THEOREM TransactionsInvariant == Spec => []TransactionsInv
    BY TransactionsStart, TransactionsStep, PTL DEF Spec

(* "The next sequence" that concurrent commands read never makes a gap or  *)
(* a double in a discussion (postgres.go: UNIQUE (issue_id, sequence)).    *)
THEOREM PostsAreNumbered == Spec => []PostsNumbered
    <1>1. TransactionsInv => PostsNumbered
        BY DEF TransactionsInv, PostsInv
    <1> QED
        BY <1>1, TransactionsInvariant, PTL

(* A stale projection never takes back what a waiting job is for.          *)
THEOREM JobsCoverProjections == Spec => []JobCoversProjection
    <1>1. TransactionsInv => JobCoversProjection
        BY DEF TransactionsInv
    <1> QED
        BY <1>1, TransactionsInvariant, PTL

(* A job row goes only for the target that the worker has claimed.         *)
LEMMA GoneIsClaimed ==
    ASSUME TransactionsInv, [Next]_vars, job.target # 0, job'.target = 0
    PROVE  job.target = claim.target
    <1>1. CASE SyncAndCommit
        BY <1>1, WorkerFacts DEF SyncAndCommit, ClaimInv, JobRow
    <1>2. CASE FinishAndCommit
        BY <1>2, WorkerFacts DEF FinishAndCommit, Deleted, JobRow
    <1>3. ASSUME NEW c \in Clients, Create(c) PROVE FALSE
        BY <1>3 DEF Create, TransactionsInv, PostsInv
    <1>4. ASSUME NEW c \in Clients, EnqueueAndCommit(c) PROVE FALSE
        <2>1. job' = Enqueued(cmd[c].read) /\ cmd[c].read \in 0 .. MaxPosts
            BY <1>4, ReadType DEF EnqueueAndCommit
        <2> QED
            BY <2>1, EnqueuedRow, WorkerFacts
    <1>5. CASE UNCHANGED job
        BY <1>5
    <1>6. CASE LeaseExpires
        BY <1>6, WorkerFacts DEF LeaseExpires, JobRow
    <1>7. \/ SyncAndCommit \/ FinishAndCommit \/ UNCHANGED job \/ LeaseExpires
          \/ \E c \in Clients : Create(c) \/ EnqueueAndCommit(c)
        BY DEF Next, Begin, Statement, InsertNote, InsertRefinement, UpsertProjection, Abort,
               Claim, Load, Analyse, Recheck, DeleteJob, WorkerStatement, LoadProjection,
               WriteProjection, Reload, Stop, Restart, rows, vars
    <1> QED
        BY <1>1, <1>2, <1>3, <1>4, <1>5, <1>6, <1>7

(* The worker removes no job it has not seen, at any step.                 *)
THEOREM OnlyClaimedGo == Spec => OnlyClaimedJobsGo
    <1>1. TransactionsInv /\ [Next]_vars =>
             [job.target # 0 /\ job'.target = 0 => job.target = claim.target]_vars
        BY GoneIsClaimed
    <1> QED
        BY <1>1, TransactionsInvariant, PTL DEF Spec, OnlyClaimedJobsGo

-----------------------------------------------------------------------------
(* The discussion of the abstract queue.                                   *)

(* Its posts are those of the table, by their numbers.                     *)
DiscussionOfPosts ==
    /\ Discussion \in Seq(Kind) /\ Len(Discussion) = Cardinality(posts)
    /\ \A n \in 1 .. Cardinality(posts) : <<n, Discussion[n]>> \in posts
    /\ \A n \in 1 .. Cardinality(posts), k \in Kind :
          <<n, k>> \in posts => Discussion[n] = k

LEMMA DiscussionIs == TransactionsInv => DiscussionOfPosts
    <1> SUFFICES ASSUME TransactionsInv PROVE DiscussionOfPosts
        OBVIOUS
    <1>1. Cardinality(posts) \in Nat /\ PostSequences = 1 .. Cardinality(posts)
        BY PostCount DEF TransactionsInv, PostsInv, PostsNumbered
    <1>2. posts \subseteq (1 .. MaxPosts) \X Kind
        BY DEF TransactionsInv, TypeOK, Kind
    <1>3. \A p, q \in posts : p[1] = q[1] => p = q
        BY DEF TransactionsInv, PostsInv
    <1>4. ASSUME NEW n \in 1 .. Cardinality(posts)
          PROVE  \E k \in Kind : <<n, k>> \in posts
        <2>1. PICK p \in posts : p[1] = n
            BY <1>1 DEF PostSequences
        <2> QED
            BY <1>2, <2>1
    <1>5. ASSUME NEW n \in 1 .. Cardinality(posts)
          PROVE  Discussion[n] \in Kind /\ <<n, Discussion[n]>> \in posts
        BY <1>4 DEF Discussion, Kind
    <1>6. ASSUME NEW n \in 1 .. Cardinality(posts), NEW k \in Kind, <<n, k>> \in posts
          PROVE  Discussion[n] = k
        <2>1. <<n, k>> = <<n, Discussion[n]>>
            BY <1>3, <1>5, <1>6
        <2> QED
            BY <2>1
    <1>7. Discussion \in [1 .. Cardinality(posts) -> Kind]
        BY <1>5 DEF Discussion
    <1>8. Discussion \in Seq(Kind) /\ Len(Discussion) = Cardinality(posts)
        BY <1>1, <1>7
    <1> QED
        BY <1>5, <1>6, <1>8 DEF DiscussionOfPosts

(* The next post is appended to it.                                        *)
LEMMA DiscussionGrows ==
    ASSUME TransactionsInv, TransactionsInv', NEW kind \in Kind,
           Cardinality(posts)' = Cardinality(posts) + 1,
           posts' = posts \cup {<<Cardinality(posts) + 1, kind>>}
    PROVE  Discussion' = Append(Discussion, kind)
    <1> PICK count : count = Cardinality(posts)
        OBVIOUS
    <1>1. count \in Nat /\ Cardinality(posts)' = count + 1
        BY PostCount
    <1>2. /\ Discussion \in Seq(Kind) /\ Len(Discussion) = count
          /\ \A n \in 1 .. count : <<n, Discussion[n]>> \in posts
        BY DiscussionIs DEF DiscussionOfPosts
    <1>3. /\ Discussion' \in Seq(Kind) /\ Len(Discussion') = count + 1
          /\ \A n \in 1 .. count + 1, k \in Kind : <<n, k>> \in posts' => Discussion'[n] = k
        <2>1. DiscussionOfPosts'
            BY DiscussionIs, PTL
        <2> QED
            BY <1>1, <2>1 DEF DiscussionOfPosts
    <1>4. ASSUME NEW n \in 1 .. count PROVE Discussion'[n] = Discussion[n]
        <2>1. Discussion[n] \in Kind /\ <<n, Discussion[n]>> \in posts' /\ n \in 1 .. count + 1
            BY <1>1, <1>2
        <2> QED
            BY <1>3, <2>1
    <1>5. Discussion'[count + 1] = kind
        <2>1. <<count + 1, kind>> \in posts' /\ count + 1 \in 1 .. count + 1
            BY <1>1
        <2> QED
            BY <1>3, <2>1
    <1> QED
        BY <1>1, <1>2, <1>3, <1>4, <1>5

(* A table with one issue. *)
LEMMA OneRow ==
    /\ \A value : IssueRow(value)[Issue] = value
    /\ \A value, new : [IssueRow(value) EXCEPT ![Issue] = new] = IssueRow(new)
    BY DEF IssueRow

(* A table with one worker. *)
LEMMA OneWorker ==
    /\ \A value : [w \in {Worker} |-> value][Worker] = value
    /\ \A value, new : [[w \in {Worker} |-> value] EXCEPT ![Worker] = new]
                         = [w \in {Worker} |-> new]
    OBVIOUS

(* What the abstract worker holds. *)
Held == IF pc \in {"idle", "stopped"}
        THEN [issue |-> NoIssue, target |-> 0, texts |-> {}, catalog |-> 0]
        ELSE [issue |-> Issue, target |-> claim.target, texts |-> claim.texts, catalog |-> 0]

(* A step that leaves the posts leaves all that the queue makes of them.   *)
LEMMA SamePosts == ASSUME UNCHANGED posts PROVE UNCHANGED Queue!issueVars
    BY DEF Queue!issueVars, IssueRow, Discussion

-----------------------------------------------------------------------------
(* Statements that commit nothing are no step of the queue.                *)
LEMMA QueueStutters ==
    ASSUME UNCHANGED rows, pc' = pc, pc \in {"idle", "stopped"} \/ claim' = claim
    PROVE  UNCHANGED Queue!vars
    BY DEF Queue!vars, rows, IssueRow, Discussion

(* A creation is one. *)
LEMMA CreateIsQueue ==
    ASSUME TransactionsInv, NEW c \in Clients, Create(c)
    PROVE  Queue!Create(Issue)
    <1>1. TransactionsInv'
        BY CreateKeeps
    <1>2. posts = {} /\ posts' = {<<1, "report">>} /\ posts' # {}
        BY DEF Create
    <1>3. Cardinality(posts)' = 1
        BY <1>2, FS_Singleton
    <1>4. Discussion' = <<"report">>
        <2>1. /\ Discussion' \in Seq(Kind) /\ Len(Discussion') = 1
              /\ \A n \in 1 .. 1, k \in Kind : <<n, k>> \in posts' => Discussion'[n] = k
            <3>1. DiscussionOfPosts'
                BY <1>1, DiscussionIs, PTL
            <3> QED
                BY <1>3, <3>1 DEF DiscussionOfPosts
        <2>2. Discussion'[1] = "report"
            BY <1>2, <2>1 DEF Kind
        <2> QED
            BY <2>1, <2>2
    <1>5. Queue!SaveIssues({Issue}, "pending")
        BY <1>2, <1>4, OneRow DEF Queue!SaveIssues, Queue!Exists, Create, IssueRow
    <1>6. Enqueued(1) = Queue!Enqueued(job, 1)
        BY DEF Enqueued, Queue!Enqueued
    <1> QED
        BY <1>2, <1>5, <1>6, OneRow
        DEF Queue!Create, Create, IssueRow, Queue!workerVars, workerVars, NoJob, Queue!NoJob

(* So are a note and a refinement, whose number is the next one still. *)
LEMMA NoteIsQueue ==
    ASSUME TransactionsInv, NEW c \in Clients, InsertNote(c)
    PROVE  Queue!Progress(Issue)
    <1>1. TransactionsInv'
        BY InsertNoteKeeps
    <1>2. /\ cmd[c].kind = "note" /\ ~Taken(cmd[c].read)
          /\ posts' = posts \cup {<<cmd[c].read, "note">>}
          /\ UNCHANGED <<proj, job, texts, snapshots, workerVars>>
        BY DEF InsertNote
    <1>3. /\ cmd[c].read \in 1 .. Cardinality(posts) + 1 /\ cmd[c].read <= MaxPosts
          /\ posts # {} /\ Cardinality(posts) \in Nat /\ MaxPosts \in Nat
        BY <1>2, PostCount, ReadType, TransactionsAssumption
        DEF TransactionsInv, CommandInv, Numbering
    <1>4. cmd[c].read = Cardinality(posts) + 1 /\ Cardinality(posts)' = Cardinality(posts) + 1
        <2>1. "note" \in Kind /\ cmd[c].read \in Nat
            BY <1>3 DEF Kind
        <2> QED
            BY <1>2, <1>3, <2>1, PostAdded
    <1>5. Discussion' = Append(Discussion, "note") /\ Len(Discussion) < MaxPosts
        BY <1>1, <1>2, <1>3, <1>4, DiscussionGrows, DiscussionIs DEF Kind, DiscussionOfPosts
    <1>6. posts' # {}
        BY <1>2
    <1> QED
        BY <1>2, <1>3, <1>5, <1>6, OneRow
        DEF Queue!Progress, Queue!SavePost, IssueRow, Queue!workerVars, workerVars

LEMMA RefinementIsQueue ==
    ASSUME TransactionsInv, NEW c \in Clients, EnqueueAndCommit(c), cmd[c].kind = "refinement"
    PROVE  Queue!Refine(Issue)
    <1>1. TransactionsInv'
        BY EnqueueAndCommitKeeps
    <1> PICK n : n = cmd[c].read
        OBVIOUS
    <1>2. /\ posts' = posts \cup {<<n, "refinement">>}
          /\ proj' = [status |-> "pending", target |-> n] /\ job' = Enqueued(n)
          /\ UNCHANGED <<texts, snapshots, workerVars>> /\ cmd[c].stmt = "job"
        BY DEF EnqueueAndCommit
    <1>3. /\ n \in 1 .. Cardinality(posts) + 1 /\ n <= MaxPosts /\ ~Taken(n) /\ n \in Nat
          /\ posts # {} /\ Cardinality(posts) \in Nat /\ MaxPosts \in Nat
        BY <1>2, PostCount, ReadType, TransactionsAssumption
        DEF TransactionsInv, CommandInv, Numbering
    <1>4. n = Cardinality(posts) + 1 /\ Cardinality(posts)' = Cardinality(posts) + 1
        BY <1>2, <1>3, PostAdded DEF Kind
    <1>5. /\ Discussion' = Append(Discussion, "refinement")
          /\ Len(Discussion) < MaxPosts /\ Len(Discussion) + 1 = n
        BY <1>1, <1>2, <1>3, <1>4, DiscussionGrows, DiscussionIs DEF Kind, DiscussionOfPosts
    <1>6. posts' # {} /\ Enqueued(n) = Queue!Enqueued(job, n)
        BY <1>2 DEF Enqueued, Queue!Enqueued
    <1> QED
        BY <1>2, <1>3, <1>5, <1>6, OneRow
        DEF Queue!Refine, Queue!SavePost, IssueRow, Queue!workerVars, workerVars

(* A re-enrichment asks for the target shown, if nothing changed it since  *)
(* it was read.                                                            *)
LEMMA ReenrichmentIsQueue ==
    ASSUME TransactionsInv, SerialInv, NEW c \in Clients, EnqueueAndCommit(c),
           cmd[c].kind # "refinement"
    PROVE  Queue!ReEnrich(Issue)
    <1>1. /\ posts' = posts /\ proj' = [status |-> "pending", target |-> cmd[c].read]
          /\ job' = Enqueued(cmd[c].read)
          /\ UNCHANGED <<texts, snapshots, workerVars>> /\ cmd[c].stmt = "job"
        BY DEF EnqueueAndCommit
    <1>2. cmd[c].kind = "reenrich" /\ posts # {}
        BY <1>1 DEF TransactionsInv, CommandInv, TypeOK, Idle
    <1>3. cmd[c].read = proj.target
        BY <1>2 DEF SerialInv
    <1>4. proj' = [proj EXCEPT !.status = "pending"]
        BY <1>1, <1>3 DEF TransactionsInv, TypeOK
    <1>5. job' = Queue!Enqueued(job, proj.target)
        BY <1>1, <1>3 DEF Enqueued, Queue!Enqueued
    <1> QED
        <2>1. UNCHANGED Queue!issueVars /\ UNCHANGED Queue!workerVars
            BY <1>1, SamePosts DEF workerVars, Queue!workerVars
        <2>2. [IssueRow(proj) EXCEPT ![Issue].status = "pending"] = IssueRow(proj')
            BY <1>4, OneRow
        <2>3. \A asking \in BOOLEAN :
                 [IssueRow(0) EXCEPT ![Issue] = IF asking THEN IssueRow(0)[Issue] ELSE 0] = IssueRow(0)
            BY OneRow
        <2>4. Queue!UnderWay(Issue) \in BOOLEAN
            BY DEF Queue!UnderWay
        <2>5. [IssueRow(0) EXCEPT ![Issue] = IF Queue!UnderWay(Issue) THEN IssueRow(0)[Issue] ELSE 0]
                 = IssueRow(0)
            BY <2>3, <2>4
        <2> QED
            BY <1>1, <1>2, <1>5, <2>1, <2>2, <2>5, OneRow
            DEF Queue!ReEnrich, Queue!issueVars, IssueRow

(* The commits and the other steps of the worker. *)
LEMMA SyncIsQueue ==
    ASSUME TransactionsInv, SerialInv, SyncAndCommit
    PROVE  Queue!Claim(Worker, Issue) \/ Queue!DropJob(Worker)
    <1>1. /\ stmt = "sync" /\ proj' = proj /\ UNCHANGED <<posts, texts, snapshots>>
          /\ pc \in {"idle", "drop", "apply", "fail"}
        BY WorkerFacts DEF SyncAndCommit, SerialInv, Seen, ClaimInv
    <1>2. CASE pc = "idle"
        <2>1. /\ claim' = claim /\ claim.target = job.target /\ claim.texts = {}
              /\ job.target > 0 /\ job.due /\ pc' = "claimed" /\ job' = [job EXCEPT !.due = FALSE]
            BY <1>1, <1>2, WorkerFacts DEF SyncAndCommit, ClaimInv, Claiming, Holding
        <2>2. Queue!Claim(Worker, Issue)
            <3>1. UNCHANGED Queue!issueVars
                BY <1>1, SamePosts
            <3>2. Held' = [issue |-> Issue, target |-> job.target, texts |-> {}, catalog |-> 0]
                BY <2>1 DEF Held
            <3>3. [IssueRow(job) EXCEPT ![Issue].due = FALSE] = IssueRow(job')
                BY <2>1, OneRow, ZenonT(30)
            <3> QED
                BY <1>1, <1>2, <2>1, <3>1, <3>2, <3>3, OneRow, OneWorker
                DEF Queue!Claim, IssueRow, Held
        <2> QED
            BY <2>2
    <1>3. CASE pc # "idle"
        <2>1. /\ pc' = "idle" /\ pc \in {"drop", "apply", "fail"}
              /\ pc # "drop" => proj.target # claim.target
              /\ job.target = claim.target <=> lock["job"] = Worker
              /\ job' = IF lock["job"] = Worker THEN NoJob ELSE job
            BY <1>1, <1>3, WorkerFacts DEF SyncAndCommit, ClaimInv, SerialInv
        <2>2. job' = Queue!Completed(job, claim.target)
            BY <2>1 DEF Queue!Completed, NoJob, Queue!NoJob
        <2>3. Queue!DropJob(Worker)
            <3>1. UNCHANGED Queue!issueVars
                BY <1>1, SamePosts
            <3>2. Held' = Queue!NoClaim /\ Held.issue = Issue /\ Held.target = claim.target
                BY <2>1 DEF Held, Queue!NoClaim
            <3>3. Queue!Finish(Worker)
                BY <2>1, <3>2, OneWorker DEF Queue!Finish, Held
            <3>4. Queue!CompleteJob(Issue, claim.target)
                BY <2>2, OneRow DEF Queue!CompleteJob, IssueRow
            <3>5. pc # "drop" => ~Queue!StillWanted(Worker)
                BY <2>1, <3>2, OneRow, OneWorker DEF Queue!StillWanted, Held
            <3> QED
                BY <1>1, <2>1, <3>1, <3>2, <3>3, <3>4, <3>5, OneWorker
                DEF Queue!DropJob, IssueRow, Held
        <2> QED
            BY <2>3
    <1> QED
        BY <1>2, <1>3

LEMMA FinishIsQueue ==
    ASSUME TransactionsInv, SerialInv, FinishAndCommit
    PROVE  Queue!ApplyJob(Worker) \/ Queue!FailJob(Worker)
    <1>1. /\ stmt = "finish" /\ pc \in {"apply", "fail"} /\ posts' = posts /\ pc' = "idle"
          /\ proj.target = claim.target
        BY WorkerFacts DEF FinishAndCommit, SerialInv, ClaimInv
    <1>2. CASE pc = "apply"
        <2>1. /\ proj' = [status |-> "complete", target |-> claim.target]
              /\ texts' = claim.texts /\ snapshots' = snapshots \cup {claim.target}
              /\ job' = Queue!Completed(job, claim.target)
            BY <1>2 DEF FinishAndCommit, Deleted, Queue!Completed, NoJob, Queue!NoJob
        <2>2. Queue!ApplyJob(Worker)
            <3>1. UNCHANGED Queue!issueVars
                BY <1>1, SamePosts
            <3>2. /\ Held' = Queue!NoClaim /\ Held.issue = Issue /\ Held.target = claim.target
                  /\ Held.texts = claim.texts /\ Held.catalog = 0
                BY <1>1 DEF Held, Queue!NoClaim
            <3>3. Queue!Finish(Worker)
                BY <1>1, <3>2, OneWorker DEF Queue!Finish, Held
            <3>4. Queue!CompleteJob(Issue, claim.target)
                BY <2>1, OneRow DEF Queue!CompleteJob, IssueRow
            <3>5. Queue!StillWanted(Worker)
                BY <1>1, <3>2, OneRow, OneWorker DEF Queue!StillWanted, Held
            <3> QED
                BY <1>1, <1>2, <2>1, <3>1, <3>2, <3>3, <3>4, <3>5, OneRow, OneWorker
                DEF Queue!ApplyJob, IssueRow, Held
        <2> QED
            BY <2>2
    <1>3. CASE pc = "fail"
        <2>1. /\ proj' = [status |-> "failed", target |-> proj.target] /\ texts' = texts
              /\ snapshots' = snapshots /\ job' = Queue!Retried(job, claim.target)
            BY <1>1, <1>3 DEF FinishAndCommit, Queue!Retried, SerialInv, Seen
        <2>2. proj' = [proj EXCEPT !.status = "failed"]
            BY <2>1 DEF TransactionsInv, TypeOK
        <2>3. Queue!FailJob(Worker)
            <3>1. UNCHANGED Queue!issueVars
                BY <1>1, SamePosts
            <3>2. Held' = Queue!NoClaim /\ Held.issue = Issue /\ Held.target = claim.target
                BY <1>1 DEF Held, Queue!NoClaim
            <3>3. Queue!Finish(Worker)
                BY <1>1, <3>2, OneWorker DEF Queue!Finish, Held
            <3>4. Queue!StillWanted(Worker)
                BY <1>1, <3>2, OneRow, OneWorker DEF Queue!StillWanted, Held
            <3>5. [IssueRow(proj) EXCEPT ![Issue].status = "failed"] = IssueRow(proj')
                BY <2>2, OneRow
            <3> QED
                BY <1>1, <1>3, <2>1, <3>1, <3>2, <3>3, <3>4, <3>5, OneRow, OneWorker
                DEF Queue!FailJob, IssueRow, Held
        <2> QED
            BY <2>3
    <1> QED
        BY <1>1, <1>2, <1>3

LEMMA LoadIsQueue == ASSUME TransactionsInv, Load PROVE Queue!Load(Worker)
    <1>1. {n \in PostSequences : n <= claim.target}
             = {n \in 1 .. Len(Discussion) : n <= claim.target}
        BY DiscussionIs DEF DiscussionOfPosts, TransactionsInv, PostsInv, PostsNumbered
    <1>2. pc = "claimed" /\ UNCHANGED rows
        BY DEF Load
    <1>3. CASE proj.target = claim.target
        <2>1. /\ pc' = "analyzing" /\ claim'.target = claim.target
              /\ claim'.texts = {n \in 1 .. Len(Discussion) : n <= claim.target}
            BY <1>1, <1>3, WorkerFacts DEF Load, ClaimRow
        <2> QED
            <3>1. UNCHANGED Queue!issueVars
                BY <1>2, SamePosts DEF rows
            <3>2. /\ Held' = [issue |-> Issue, target |-> claim.target,
                             texts |-> {n \in 1 .. Len(Discussion) : n <= claim.target},
                             catalog |-> 0]
                  /\ Held.issue = Issue /\ Held.target = claim.target
                BY <1>2, <2>1 DEF Held
            <3> QED
                BY <1>2, <1>3, <2>1, <3>1, <3>2, OneRow, OneWorker, ZenonT(30)
                DEF Queue!Load, IssueRow, Held, rows
    <1>4. CASE proj.target # claim.target
        <2>1. pc' = "drop" /\ claim' = claim
            BY <1>4 DEF Load
        <2> QED
            <3>1. UNCHANGED Queue!issueVars
                BY <1>2, SamePosts DEF rows
            <3>2. Held' = Held /\ Held.issue = Issue /\ Held.target = claim.target
                BY <1>2, <2>1 DEF Held
            <3> QED
                BY <1>2, <1>4, <2>1, <3>1, <3>2, OneRow, OneWorker
                DEF Queue!Load, IssueRow, Held, rows
    <1> QED
        BY <1>3, <1>4

LEMMA OthersAreQueue ==
    ASSUME TransactionsInv
    PROVE  /\ Analyse => Queue!AnalysisSucceeds(Worker) \/ Queue!AnalysisFails(Worker)
           /\ Stop => Queue!Stop(Worker)
           /\ Restart => Queue!Restart(Worker)
           /\ LeaseExpires => Queue!LeaseExpires(Issue)
    <1>1. ASSUME Analyse PROVE Queue!AnalysisSucceeds(Worker) \/ Queue!AnalysisFails(Worker)
        <2>1. UNCHANGED Queue!issueVars
            BY <1>1, SamePosts DEF Analyse, rows
        <2>2. /\ pc = "analyzing" /\ pc' \in {"apply", "fail"}
              /\ UNCHANGED <<proj, job, texts, snapshots, claim>>
            BY <1>1 DEF Analyse, rows
        <2>3. Held' = Held
            BY <2>2 DEF Held
        <2> QED
            BY <2>1, <2>2, <2>3, OneWorker
            DEF Queue!AnalysisSucceeds, Queue!AnalysisFails, IssueRow, Held
    <1>2. ASSUME Stop PROVE Queue!Stop(Worker)
        <2>1. UNCHANGED Queue!issueVars
            BY <1>2, SamePosts DEF Stop, rows
        <2>2. pc # "stopped" /\ pc' = "stopped" /\ UNCHANGED <<proj, job, texts, snapshots>>
            BY <1>2 DEF Stop, rows
        <2>3. Held' = Queue!NoClaim
            BY <2>2 DEF Held, Queue!NoClaim
        <2> QED
            BY <2>1, <2>2, <2>3, OneWorker DEF Queue!Stop, IssueRow, Held
    <1>3. ASSUME Restart PROVE Queue!Restart(Worker)
        <2>1. UNCHANGED Queue!issueVars
            BY <1>3, SamePosts DEF Restart, rows
        <2>2. /\ pc = "stopped" /\ pc' = "idle" /\ UNCHANGED <<proj, job, texts, snapshots>>
            BY <1>3 DEF Restart, rows
        <2>3. Held' = Held
            BY <2>2 DEF Held
        <2> QED
            BY <2>1, <2>2, <2>3, OneWorker DEF Queue!Restart, IssueRow, Held
    <1>4. ASSUME LeaseExpires PROVE Queue!LeaseExpires(Issue)
        <2>1. UNCHANGED Queue!issueVars
            BY <1>4, SamePosts DEF LeaseExpires
        <2>2. UNCHANGED Queue!workerVars
            BY <1>4 DEF LeaseExpires, workerVars, Queue!workerVars
        <2>3. [IssueRow(job) EXCEPT ![Issue].due = TRUE] = IssueRow(job')
            BY <1>4, OneRow DEF LeaseExpires
        <2> QED
            BY <1>4, <2>1, <2>2, <2>3, OneRow DEF LeaseExpires, Queue!LeaseExpires, IssueRow
    <1> QED
        BY <1>1, <1>2, <1>3, <1>4

-----------------------------------------------------------------------------
(* One transaction at a time.                                              *)

(* A step opens one transaction at most. *)
LEMMA OpenOneMore ==
    ASSUME TransactionsInv, [Next]_vars
    PROVE  \E t : Open' \subseteq Open \cup {t}
    <1>1. ASSUME NEW c \in Clients, UNCHANGED workerVars,
                 \A d \in Clients \ {c} : cmd'[d] = cmd[d]
          PROVE  Open' \subseteq Open \cup {c}
        BY <1>1 DEF Open, workerVars
    <1>2. ASSUME UNCHANGED cmd PROVE Open' \subseteq Open \cup {Worker}
        BY <1>2 DEF Open
    <1>3. cmd \in [Clients -> Command]
        BY DEF TransactionsInv, TypeOK, Command
    <1>4. ASSUME NEW c \in Clients,
                 \/ Create(c) \/ Statement(c) \/ Abort(c)
                 \/ \E kind \in {"refinement", "note", "reenrich"} : Begin(c, kind)
          PROVE  UNCHANGED workerVars /\ \A d \in Clients \ {c} : cmd'[d] = cmd[d]
        BY <1>3, <1>4 DEF Create, Statement, Abort, Begin, InsertNote, InsertRefinement,
                          UpsertProjection, EnqueueAndCommit, End
    <1>5. ASSUME \/ WorkerStatement \/ Claim \/ Load \/ Analyse \/ Recheck \/ DeleteJob
                 \/ Stop \/ Restart \/ LeaseExpires \/ UNCHANGED vars
          PROVE  UNCHANGED cmd
        BY <1>5 DEF WorkerStatement, LoadProjection, SyncAndCommit, WriteProjection,
                    FinishAndCommit, Reload, Claim, Load, Analyse, Recheck, DeleteJob, Stop,
                    Restart, LeaseExpires, vars
    <1>6. \/ \E c \in Clients :
                \/ Create(c) \/ Statement(c) \/ Abort(c)
                \/ \E kind \in {"refinement", "note", "reenrich"} : Begin(c, kind)
          \/ WorkerStatement \/ Claim \/ Load \/ Analyse \/ Recheck \/ DeleteJob
          \/ Stop \/ Restart \/ LeaseExpires \/ UNCHANGED vars
        BY DEF Next
    <1> QED
        BY <1>1, <1>2, <1>4, <1>5, <1>6

(* A finite set of one element at most has no two. *)
LEMMA NoTwo ==
    ASSUME NEW S, IsFiniteSet(S), Cardinality(S) <= 1, NEW t \in S, NEW u \in S
    PROVE  t = u
    <1>1. IsFiniteSet({t}) /\ Cardinality({t}) = 1
        BY FS_Singleton
    <1>2. Cardinality(S) \in Nat
        BY FS_CardinalityType
    <1>3. {t} \in SUBSET S
        OBVIOUS
    <1>4. Cardinality({t}) <= Cardinality(S) /\ (Cardinality(S) = Cardinality({t}) => S = {t})
        BY <1>3, FS_Subset
    <1> QED
        BY <1>1, <1>2, <1>4

(* What has been read stays true while its transaction is the only one.    *)
LEMMA SerialStep ==
    ASSUME TransactionsInv, SerialInv, [Next]_vars, \A t, u \in Open' : t = u
    PROVE  SerialInv'
    <1>1. cmd \in [Clients -> Command] /\ Worker \notin Clients
        BY TransactionsAssumption DEF TransactionsInv, TypeOK, Command
    <1>2. ASSUME NEW c \in Clients, cmd[c] # Idle
          PROVE  stmt = "none" /\ \A d \in Clients \ {c} : cmd[d] = Idle
        BY <1>1, <1>2 DEF SerialInv, Open
    <1>3. Idle.kind = "none"
        BY DEF Idle
    <1>4. ASSUME UNCHANGED <<proj, workerVars>>,
                 \A c \in Clients : cmd'[c].kind = "reenrich" => cmd'[c].read = proj.target
          PROVE  SerialInv'
        BY <1>4 DEF SerialInv, Seen, workerVars
    <1>5. ASSUME NEW c \in Clients, NEW kind \in {"refinement", "note", "reenrich"},
                 Begin(c, kind)
          PROVE  SerialInv'
        <2>1. UNCHANGED <<proj, workerVars>>
            BY <1>5 DEF Begin, rows
        <2>2. cmd'[c].kind = "reenrich" => cmd'[c].read = proj.target
            BY <1>1, <1>5 DEF Begin
        <2>3. \A d \in Clients \ {c} : cmd'[d] = cmd[d]
            BY <1>1, <1>5 DEF Begin
        <2> QED
            BY <1>4, <2>1, <2>2, <2>3 DEF SerialInv
    <1>6. ASSUME NEW c \in Clients,
                 InsertNote(c) \/ InsertRefinement(c) \/ UpsertProjection(c) \/ Abort(c)
          PROVE  SerialInv'
        <2>1. UNCHANGED <<proj, workerVars>>
            BY <1>6 DEF InsertNote, InsertRefinement, UpsertProjection, Abort, rows
        <2>2. \/ cmd'[c] = Idle
              \/ cmd'[c].kind = cmd[c].kind /\ cmd'[c].read = cmd[c].read
            BY <1>1, <1>6 DEF InsertNote, InsertRefinement, UpsertProjection, Abort, End, Command
        <2>3. \A d \in Clients \ {c} : cmd'[d] = cmd[d]
            BY <1>1, <1>6 DEF InsertNote, InsertRefinement, UpsertProjection, Abort, End
        <2> QED
            BY <1>3, <1>4, <2>1, <2>2, <2>3 DEF SerialInv
    <1>7. ASSUME NEW c \in Clients, Create(c) \/ EnqueueAndCommit(c) PROVE SerialInv'
        <2>1. \A d \in Clients \ {c} : cmd[d] = Idle
            BY <1>2, <1>7 DEF Create, EnqueueAndCommit, TransactionsInv, CommandInv, Idle
        <2>2. cmd'[c] = Idle /\ \A d \in Clients \ {c} : cmd'[d] = cmd[d]
            BY <1>1, <1>7 DEF Create, EnqueueAndCommit, End
        <2>3. stmt = "none"
            <3>1. CASE Create(c)
                <4>1. job.target = 0
                    BY <3>1 DEF Create, TransactionsInv, PostsInv
                <4> QED
                    BY <4>1, WorkerFacts DEF ClaimInv, Holding
            <3>2. CASE EnqueueAndCommit(c)
                BY <1>2, <3>2 DEF EnqueueAndCommit, Idle
            <3> QED
                BY <1>7, <3>1, <3>2
        <2>4. UNCHANGED <<pc, stmt, claim, seen>>
            BY <1>7 DEF Create, EnqueueAndCommit, workerVars
        <2> QED
            BY <1>3, <2>1, <2>2, <2>3, <2>4 DEF SerialInv, Seen
    <1>8. ASSUME UNCHANGED <<proj, cmd>>,
                 Seen' => seen' = proj,
                 (pc \in {"apply", "fail"} /\ stmt \in {"delete", "reload", "sync"})' =>
                     proj.target # claim'.target,
                 (pc \in {"apply", "fail"} /\ stmt \in {"load", "write", "finish"})' =>
                     proj.target = claim'.target
          PROVE  SerialInv'
        BY <1>8 DEF SerialInv
    <1>9. CASE Claim \/ Load \/ Analyse \/ Stop \/ Restart
        <2>1. UNCHANGED <<proj, cmd>>
            BY <1>9 DEF Claim, Load, Analyse, Stop, Restart, rows
        <2>2. ~Seen' /\ ~(pc \in {"apply", "fail"} /\ stmt # "none")'
            BY <1>9, WorkerFacts DEF Claim, Load, Analyse, Stop, Restart, Seen, TypeOK, ClaimInv
        <2> QED
            BY <1>8, <2>1, <2>2
    <1>10. CASE LoadProjection \/ Recheck \/ WriteProjection \/ DeleteJob \/ Reload
        <2>1. UNCHANGED <<proj, cmd, pc, claim>>
            BY <1>10 DEF LoadProjection, Recheck, WriteProjection, DeleteJob, Reload, rows
        <2>2. CASE LoadProjection
            <3>1. seen' = proj /\ stmt = "load" /\ pc \in {"idle", "fail"}
                  /\ stmt' = IF pc = "fail" THEN "write" ELSE "sync"
                BY <2>2, WorkerFacts DEF LoadProjection, ClaimInv
            <3> QED
                BY <1>8, <2>1, <3>1 DEF SerialInv
        <2>3. CASE Recheck
            <3>1. ~Seen' \/ seen' = proj
                BY <2>3 DEF Recheck, Seen
            <3> QED
                BY <1>8, <2>1, <2>3, <3>1 DEF Recheck
        <2>4. CASE WriteProjection
            BY <1>8, <2>1, <2>4, WorkerFacts DEF WriteProjection, SerialInv, Seen, ClaimInv
        <2>5. CASE DeleteJob
            BY <1>8, <2>1, <2>5, WorkerFacts DEF DeleteJob, SerialInv, Seen, ClaimInv
        <2>6. CASE Reload
            BY <1>8, <2>1, <2>6, WorkerFacts DEF Reload, SerialInv, Seen, ClaimInv
        <2> QED
            BY <1>10, <2>2, <2>3, <2>4, <2>5, <2>6
    <1>11. CASE SyncAndCommit \/ FinishAndCommit
        <2>1. \A c \in Clients : cmd[c] = Idle
            BY <1>2, <1>11 DEF SyncAndCommit, FinishAndCommit
        <2>2. UNCHANGED cmd /\ stmt' = "none"
            BY <1>11 DEF SyncAndCommit, FinishAndCommit
        <2> QED
            BY <1>3, <2>1, <2>2 DEF SerialInv, Seen
    <1>12. CASE LeaseExpires \/ UNCHANGED vars
        <2>1. UNCHANGED <<proj, workerVars, cmd>>
            BY <1>12 DEF LeaseExpires, vars, workerVars
        <2> QED
            BY <1>4, <2>1 DEF SerialInv
    <1> QED
        BY <1>5, <1>6, <1>7, <1>9, <1>10, <1>11, <1>12 DEF Next, Statement, WorkerStatement

(* The invariant of the behaviours that may be serial.                     *)
LEMMA EitherStarts == EitherInit => EitherInv
    <1> SUFFICES ASSUME EitherInit PROVE EitherInv
        OBVIOUS
    <1>1. TransactionsInv
        BY TransactionsStart DEF EitherInit
    <1>2. Open = {}
        BY DEF EitherInit, Init, Open
    <1>3. SerialInv
        BY <1>2 DEF EitherInit, Init, SerialInv, Seen, Idle
    <1> QED
        BY <1>1, <1>2, <1>3, FS_EmptySet DEF EitherInv, EitherInit

LEMMA EitherStep == EitherInv /\ [EitherNext]_<<vars, serial>> => EitherInv'
    <1> SUFFICES ASSUME EitherInv, [EitherNext]_<<vars, serial>> PROVE EitherInv'
        OBVIOUS
    <1>1. TransactionsInv /\ [Next]_vars /\ serial' = serial
        BY DEF EitherInv, EitherNext
    <1>2. TransactionsInv'
        BY <1>1, TransactionsStep
    <1>3. IsFiniteSet(Open)'
        <2>1. PICK t : Open' \subseteq Open \cup {t}
            BY <1>1, OpenOneMore
        <2>2. IsFiniteSet(Open \cup {t})
            BY FS_AddElement DEF EitherInv
        <2> QED
            BY <2>1, <2>2, FS_Subset
    <1>4. ASSUME serial PROVE SerialInv'
        <2>1. CASE UNCHANGED <<vars, serial>>
            BY <1>4, <2>1 DEF EitherInv, SerialInv, Seen, Open, vars
        <2>2. CASE EitherNext
            <3>1. Cardinality(Open') <= 1
                BY <1>4, <2>2 DEF EitherNext
            <3>2. \A t, u \in Open' : t = u
                BY <1>3, <3>1, NoTwo
            <3> QED
                BY <1>1, <1>4, <3>2, SerialStep DEF EitherInv
        <2> QED
            BY <2>1, <2>2
    <1> QED
        BY <1>1, <1>2, <1>3, <1>4 DEF EitherInv

(* The initial states are initial states of the queue.                     *)
LEMMA QueueStarts == Init => Queue!Init
    <1> SUFFICES ASSUME Init PROVE Queue!Init
        OBVIOUS
    <1>1. Cardinality(posts) = 0 /\ posts = {}
        BY FS_EmptySet DEF Init
    <1>2. Discussion = <<>>
        BY <1>1 DEF Discussion
    <1> QED
        BY <1>1, <1>2
        DEF Init, Queue!Init, IssueRow, Queue!NoJob, NoJob, Queue!NoClaim

(* Every step, when transactions do not overlap, is one of the queue.      *)
LEMMA StepIsQueue ==
    ASSUME TransactionsInv, SerialInv, [Next]_vars
    PROVE  [Queue!Next]_Queue!vars
    <1>1. Issue \in {Issue} /\ Worker \in {Worker}
        OBVIOUS
    <1>2. ASSUME NEW c \in Clients, Create(c) PROVE Queue!Next
        BY <1>1, <1>2, CreateIsQueue DEF Queue!Next, Queue!Command
    <1>3. ASSUME NEW c \in Clients, InsertNote(c) PROVE Queue!Next
        BY <1>1, <1>3, NoteIsQueue DEF Queue!Next, Queue!Command
    <1>4. ASSUME NEW c \in Clients, EnqueueAndCommit(c) PROVE Queue!Next
        BY <1>1, <1>4, RefinementIsQueue, ReenrichmentIsQueue DEF Queue!Next, Queue!Command
    <1>5. CASE SyncAndCommit
        BY <1>1, <1>5, SyncIsQueue DEF Queue!Next, Queue!WorkerStep
    <1>6. CASE FinishAndCommit
        BY <1>1, <1>6, FinishIsQueue DEF Queue!Next, Queue!WorkerStep
    <1>7. CASE Load \/ Analyse \/ Stop \/ Restart \/ LeaseExpires
        BY <1>1, <1>7, LoadIsQueue, OthersAreQueue DEF Queue!Next, Queue!WorkerStep
    <1>8. ASSUME NEW c \in Clients,
                 \/ InsertRefinement(c) \/ UpsertProjection(c) \/ Abort(c)
                 \/ \E kind \in {"refinement", "note", "reenrich"} : Begin(c, kind)
          PROVE  UNCHANGED Queue!vars
        <2>1. UNCHANGED <<rows, workerVars>>
            BY <1>8 DEF InsertRefinement, UpsertProjection, Abort, Begin
        <2> QED
            BY <2>1, QueueStutters DEF workerVars
    <1>9. CASE Claim \/ LoadProjection \/ Recheck \/ WriteProjection \/ DeleteJob \/ Reload
        <2>1. UNCHANGED rows /\ pc' = pc /\ (pc = "idle" \/ claim' = claim)
            BY <1>9 DEF Claim, LoadProjection, Recheck, WriteProjection, DeleteJob, Reload
        <2> QED
            BY <2>1, QueueStutters
    <1>10. CASE UNCHANGED vars
        BY <1>10, QueueStutters DEF vars, rows
    <1> QED
        BY <1>2, <1>3, <1>4, <1>5, <1>6, <1>7, <1>8, <1>9, <1>10
        DEF Next, Statement, WorkerStatement

(* Run one at a time, the transactions of the code, which take several     *)
(* statements and may break off after each, implement the queue, whose     *)
(* transactions are steps: what is proved of its safety holds of them.     *)
THEOREM SerialImplementsQueue == EitherSpec => SerialIsQueue
    <1>1. EitherInit => Queue!Init
        BY QueueStarts DEF EitherInit
    <1>2. EitherInv /\ [EitherNext]_<<vars, serial>> =>
             [serial => [Queue!Next]_Queue!vars]_<<vars, serial>>
        <2> SUFFICES ASSUME EitherInv, EitherNext, serial PROVE [Queue!Next]_Queue!vars
            OBVIOUS
        <2>1. TransactionsInv /\ SerialInv /\ [Next]_vars
            BY DEF EitherInv, EitherNext
        <2> QED
            BY <2>1, StepIsQueue
    <1> QED
        BY <1>1, <1>2, EitherStarts, EitherStep, PTL DEF EitherSpec, SerialIsQueue

=============================================================================
