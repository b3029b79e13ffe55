--------------------------- MODULE LifecycleBackfill ---------------------------
(***************************************************************************)
(* The command that rebuilds the lifecycle facts of every issue from its   *)
(* discussion (internal/issues/appendonly/lifecycle.go), beside a server   *)
(* that keeps closing, reopening and assigning issues. For each issue of a *)
(* batch it reads the issue and then its posts, on another connection than *)
(* its transaction's, derives a fact from each post that tells one, adds   *)
(* inferred facts where the posts do not lead to what the issue shows,     *)
(* deletes the facts there are and writes these and the projection.        *)
(*                                                                         *)
(* Left out: posts that tell no closing, reopening or assignment, and when *)
(* and why an issue was closed. The server's commands, two steps of one    *)
(* client here, are opened up in module IssueLifecycle.                    *)
(***************************************************************************)
EXTENDS Integers, Sequences, FiniteSets, FiniteSetsExt

CONSTANTS
    Issue,        \* issue ids, numbered in their order
    LegacyIssue,  \* issues without facts or projection
    Person,       \* who closes issues and is assigned to them
    Nobody,
    IssueBatch,   \* issues of a batch
    MaxThread,    \* bound: posts of an issue
    MaxLifecycle, \* bound: the last fact's number when a command begins
    MaxReruns     \* bound: checkpoints started after the first

ASSUME LifecycleBackfillAssumption ==
    /\ Issue \subseteq Nat \ {0} /\ IsFiniteSet(Issue)
    /\ LegacyIssue \subseteq Issue
    /\ Nobody \notin Person
    /\ IssueBatch \in Nat \ {0}
    /\ MaxThread \in Nat /\ MaxLifecycle \in Nat /\ MaxReruns \in Nat

VARIABLES
    issueRow,        \* issueRow[i]: status and assignee in the issues table
    thread,          \* thread[i]: the discussion
    lifecycleFacts,  \* lifecycleFacts[i]: its facts
    lifecycleRow,    \* lifecycleRow[i]: its projection
    lifecycleMark,   \* the checkpoint's cursor, and the reruns so far
    fill,            \* the backfill: its next statement and open transaction
    command,         \* the server's command and what it has read
    settled,         \* history: issues untouched since their last backfill
    overlapped       \* history: issues a command wrote while a backfill was
                     \* between reading and committing them, or the reverse

issueTables == <<issueRow, thread, lifecycleFacts, lifecycleRow>>
lifecycleBackfillVars ==
    <<issueTables, lifecycleMark, fill, command, settled, overlapped>>

Report == [kind |-> "raw", who |-> Nobody]
NoProjection == [status |-> "none", by |-> Nobody, to |-> Nobody]
Opened == [NoProjection EXCEPT !.status = "open"]

LifecycleFact(number, kind, who, live) ==
    [number |-> number, kind |-> kind, who |-> who, live |-> live]

IdleFill ==
    [at |-> "idle", todo |-> {}, last |-> 0, shown |-> NoProjection,
     posts |-> <<>>, wrote |-> {}, touched |-> {}]
NoCommand == [issue |-> 0, kind |-> "none", who |-> Nobody, post |-> FALSE,
              number |-> 0, shown |-> NoProjection]

(* What reads show: the projection, and without one the issues table,      *)
(* which no longer says who closed an issue.                               *)
Shown(i) ==
    IF lifecycleRow[i] # NoProjection THEN lifecycleRow[i]
    ELSE [status |-> issueRow[i].status, by |-> Nobody, to |-> issueRow[i].to]

Applied(row, fact) ==
    CASE fact.kind = "created"  -> [row EXCEPT !.status = "open"]
      [] fact.kind = "assigned" -> [row EXCEPT !.to = fact.who]
      [] fact.kind = "closed"   -> [row EXCEPT !.status = "closed", !.by = fact.who]
      [] fact.kind = "reopened" -> [row EXCEPT !.status = "open", !.by = Nobody]

(* A projection follows the latest of the facts that bear on a column. In  *)
(* a tie of numbers the backfilled fact, which bears the time of its post, *)
(* is the earlier.                                                         *)
Latest(facts) ==
    CHOOSE f \in facts : \A g \in facts \ {f} :
        g.number < f.number \/ (g.number = f.number /\ ~g.live)

Replay(facts) ==
    LET assigned == {f \in facts : f.kind = "assigned"}
        status == facts \ assigned
        told == IF status = {} THEN Opened ELSE Applied(Opened, Latest(status))
    IN  IF assigned = {} THEN told ELSE Applied(told, Latest(assigned))

(* Mutants, for the sensitivity of the properties below: no reopening is   *)
(* inferred; the projection keeps to the posts.                            *)
OnlyClosings(told, shown, n) ==
    IF shown.status = "closed" /\ (told.status # "closed" \/ told.by # shown.by)
    THEN {LifecycleFact(n + 1, "closed", shown.by, FALSE)} ELSE {}
PostsPrevail(told, shown) == [told EXCEPT !.to = shown.to]

-----------------------------------------------------------------------------
(* Deriving facts.                                                         *)

FromPosts(posts) ==
    {LifecycleFact(n, IF posts[n] = Report THEN "created" ELSE posts[n].kind,
                   posts[n].who, FALSE) : n \in DOMAIN posts}

InferAssigned(told, shown, n) ==
    IF told.to # shown.to THEN {LifecycleFact(n + 1, "assigned", shown.to, FALSE)} ELSE {}

(* The closing is inferred also when the posts tell it otherwise.          *)
InferStatus(told, shown, n) ==
    IF shown.status = "closed" /\ (told.status # "closed" \/ told.by # shown.by)
    THEN {LifecycleFact(n + 1, "closed", shown.by, FALSE)}
    ELSE IF shown.status = "open" /\ told.status # "open"
    THEN {LifecycleFact(n + 1, "reopened", Nobody, FALSE)} ELSE {}

(* The projection follows the inferred facts, so it is what was shown.     *)
Reconciled(told, shown) ==
    [told EXCEPT !.to = shown.to, !.status = shown.status, !.by = shown.by]

Derived(posts, shown) ==
    LET fromPosts == FromPosts(posts)
        told == Replay(fromPosts)
        assigned == InferAssigned(told, shown, Len(posts))
        status == InferStatus(told, shown, Len(posts) + Cardinality(assigned))
    IN  [facts |-> fromPosts \cup assigned \cup status, row |-> Reconciled(told, shown)]

-----------------------------------------------------------------------------
(* The backfill.                                                           *)

Remaining == {i \in Issue : i > lifecycleMark.cursor}
Batch ==
    {i \in Remaining : Cardinality({j \in Remaining : j <= i}) <= IssueBatch}

(* A batch is worked off in the order of the ids. *)
AtHand == Min(fill.todo)

Written == {w.issue : w \in fill.wrote}

(* The issues whose rows the transaction will replace by what it has read. *)
InHand == Written \cup (IF fill.at \in {"posts", "replace"} THEN {AtHand} ELSE {})

StartBatch ==
    /\ fill.at = "idle" /\ Remaining # {}
    /\ fill' = [IdleFill EXCEPT !.at = "issue", !.todo = Batch, !.last = Max(Batch)]
    /\ UNCHANGED <<issueTables, lifecycleMark, command, settled, overlapped>>

(* GetIssueDetail: the issue, and then the posts. *)
ReadIssue ==
    /\ fill.at = "issue" /\ fill.todo # {}
    /\ fill' = [fill EXCEPT !.at = "posts", !.shown = Shown(AtHand)]
    /\ UNCHANGED <<issueTables, lifecycleMark, command, settled, overlapped>>

ReadPosts ==
    /\ fill.at = "posts"
    /\ fill' = [fill EXCEPT !.at = "replace", !.posts = thread[AtHand]]
    /\ UNCHANGED <<issueTables, lifecycleMark, command, settled, overlapped>>

(* The facts deleted are those committed by now; the projection's row is   *)
(* locked until the transaction ends.                                      *)
ReplaceFacts ==
    LET derived == Derived(fill.posts, fill.shown)
    IN  /\ fill.at = "replace"
        /\ fill' = [fill EXCEPT !.at = "issue", !.todo = @ \ {AtHand},
                       !.wrote = @ \cup {[issue |-> AtHand, gone |-> lifecycleFacts[AtHand],
                                          facts |-> derived.facts, row |-> derived.row]}]
        /\ UNCHANGED <<issueTables, lifecycleMark, command, settled, overlapped>>

CommitBatch ==
    LET write(i) == CHOOSE w \in fill.wrote : w.issue = i
        raced == fill.touched \cup (Written \cap {command.issue})
    IN  /\ fill.at = "issue" /\ fill.todo = {}
        /\ lifecycleFacts' = [i \in Issue |->
               IF i \in Written
               THEN (lifecycleFacts[i] \ write(i).gone) \cup write(i).facts
               ELSE lifecycleFacts[i]]
        /\ lifecycleRow' = [i \in Issue |->
               IF i \in Written THEN write(i).row ELSE lifecycleRow[i]]
        /\ fill' = [IdleFill EXCEPT !.at = "mark", !.last = fill.last]
        /\ settled' = (settled \cup Written) \ raced
        /\ overlapped' = (overlapped \ Written) \cup raced
        /\ UNCHANGED <<issueRow, thread, lifecycleMark, command>>

(* The checkpoint is a statement after the commit. *)
Checkpoint ==
    /\ fill.at = "mark"
    /\ lifecycleMark' = [lifecycleMark EXCEPT !.cursor = fill.last]
    /\ fill' = IdleFill
    /\ UNCHANGED <<issueTables, command, settled, overlapped>>

(* The command fails, or is killed: its transaction is rolled back, and    *)
(* the next batch starts from the checkpoint.                              *)
BackfillDies ==
    /\ fill # IdleFill
    /\ fill' = IdleFill
    /\ UNCHANGED <<issueTables, lifecycleMark, command, settled, overlapped>>

(* The operator names a new checkpoint. *)
Rerun ==
    /\ fill = IdleFill /\ lifecycleMark.reruns < MaxReruns
    /\ lifecycleMark.cursor > 0
    /\ lifecycleMark' = [cursor |-> 0, reruns |-> lifecycleMark.reruns + 1]
    /\ UNCHANGED <<issueTables, fill, command, settled, overlapped>>

-----------------------------------------------------------------------------
(* The server: close, reopen and assign add a post; a split closes its     *)
(* source without one.                                                     *)

CommandReads(i, kind, who, post) ==
    /\ command = NoCommand
    /\ kind = "closed" /\ post => Shown(i).status = "open"
    /\ kind = "reopened" => post /\ who = Nobody /\ Shown(i).status = "closed"
    /\ kind = "assigned" => post
    /\ kind # "reopened" => who \in Person
    /\ Len(thread[i]) < MaxThread
    /\ \A f \in lifecycleFacts[i] : f.number < MaxLifecycle
    /\ command' = [issue |-> i, kind |-> kind, who |-> who, post |-> post,
                   number |-> Max({f.number : f \in lifecycleFacts[i]} \cup {0}) + 1,
                   shown |-> Shown(i)]
    /\ UNCHANGED <<issueTables, lifecycleMark, fill, settled, overlapped>>

CommandCommits ==
    LET i == command.issue
        fact == LifecycleFact(command.number, command.kind, command.who, TRUE)
    IN  /\ command # NoCommand
        /\ i \notin Written
        /\ thread' = IF command.post
                     THEN [thread EXCEPT ![i] = Append(@, [kind |-> command.kind,
                                                           who |-> command.who])]
                     ELSE thread
        /\ lifecycleFacts' = [lifecycleFacts EXCEPT ![i] = @ \cup {fact}]
        /\ lifecycleRow' = [lifecycleRow EXCEPT ![i] = Applied(command.shown, fact)]
        /\ command' = NoCommand
        /\ fill' = [fill EXCEPT !.touched = @ \cup ({i} \cap InHand)]
        /\ settled' = settled \ {i}
        /\ UNCHANGED <<issueRow, lifecycleMark, overlapped>>

-----------------------------------------------------------------------------
(* A legacy issue's row need not agree with its posts: splits close issues *)
(* without a post.                                                         *)
LegacyThreads ==
    {<<Report>>}
    \cup {<<Report, [kind |-> k, who |-> p]>> : k \in {"closed", "assigned"}, p \in Person}
    \cup {<<Report, [kind |-> "closed", who |-> p], [kind |-> "reopened", who |-> Nobody]>> :
             p \in Person}

LifecycleBackfillInit ==
    /\ issueRow \in [Issue -> [status : {"open", "closed"}, to : Person \cup {Nobody}]]
    /\ thread \in [Issue -> LegacyThreads]
    /\ \A i \in Issue \ LegacyIssue :
          /\ issueRow[i] = [status |-> "open", to |-> Nobody]
          /\ thread[i] = <<Report>>
    /\ lifecycleFacts = [i \in Issue |-> IF i \in LegacyIssue THEN {}
                                         ELSE {LifecycleFact(1, "created", Nobody, TRUE)}]
    /\ lifecycleRow = [i \in Issue |-> IF i \in LegacyIssue THEN NoProjection ELSE Opened]
    /\ lifecycleMark = [cursor |-> 0, reruns |-> 0]
    /\ fill = IdleFill
    /\ command = NoCommand
    /\ settled = {} /\ overlapped = {}

BackfillStep ==
    \/ StartBatch \/ ReadIssue \/ ReadPosts \/ ReplaceFacts
    \/ CommitBatch \/ Checkpoint \/ BackfillDies \/ Rerun

LifecycleBackfillNext ==
    \/ BackfillStep
    \/ \E i \in Issue, kind \in {"closed", "reopened", "assigned"},
          who \in Person \cup {Nobody}, post \in BOOLEAN : CommandReads(i, kind, who, post)
    \/ CommandCommits

LifecycleBackfillSpec ==
    LifecycleBackfillInit /\ [][LifecycleBackfillNext]_lifecycleBackfillVars

-----------------------------------------------------------------------------
(* Once an issue has its 'created' fact, replaying its facts gives the     *)
(* projection, however its commands and the batches that rewrote its facts *)
(* followed each other, were killed and were rerun, as long as none        *)
(* committed between the read and the commit of another. Backfilled facts  *)
(* are numbered after posts, live ones after facts, and nothing makes the  *)
(* pair (issue, sequence) unique.                                          *)
FactsTellTheIssue ==
    \A i \in Issue :
        i \notin overlapped /\ (\E f \in lifecycleFacts[i] : f.kind = "created")
            => Replay(lifecycleFacts[i]) = lifecycleRow[i]

(* A backfill changes the facts behind an issue and never what the issue   *)
(* shows, whatever its posts say, unless a command wrote the issue since   *)
(* the backfill read it; and on an issue untouched since its last backfill *)
(* it changes nothing at all.                                              *)
BackfillKeepsIssues ==
    [][BackfillStep => \A i \in Issue :
          /\ i \notin fill.touched => Shown(i)' = Shown(i)
          /\ i \in settled /\ i \notin fill.touched
                => UNCHANGED <<lifecycleFacts[i], lifecycleRow[i]>>]_lifecycleBackfillVars
=============================================================================
