--------------------------- MODULE IssueLifecycle ---------------------------
(***************************************************************************)
(* Who closed, reopened and assigned an issue: an append-only list of      *)
(* facts, and a projection row that every command loads, changes and       *)
(* writes back (internal/issues/lifecycle_persistence.go). The commands    *)
(* are transactions at READ COMMITTED, modelled statement by statement.    *)
(*                                                                         *)
(* Nothing in the database numbers the facts or guards the projection.     *)
(* What keeps two commands apart is the post that assign, close and reopen *)
(* insert at the end, numbered after the discussion they read at the       *)
(* start: (issue, sequence) is unique, so one of the two fails. Combine    *)
(* and split close their sources without a post.                           *)
(*                                                                         *)
(* Variables hold committed rows. What an open transaction has written     *)
(* follows from what it has read, and the projection rows it has written   *)
(* are in lock. The last row a transaction needs is written in the step    *)
(* that commits it.                                                        *)
(***************************************************************************)
EXTENDS Integers, Sequences, FiniteSets, FiniteSetsExt

CONSTANTS
    Issues,    \* issue ids
    NoIssue,   \* the result of a command that creates no issue
    Clients,   \* command handlers that may run at once
    NoOne,     \* the holder of a row that is not locked
    People,    \* assignees
    Nobody,    \* the assignee of an issue that is not assigned
    MaxFacts   \* bound: facts of an issue when a command on it begins

ASSUME LifecycleAssumption ==
    /\ NoIssue \notin Issues
    /\ NoOne \notin Clients
    /\ Nobody \notin People
    /\ MaxFacts \in Nat

VARIABLES
    facts,       \* facts[i]: issue_lifecycle_facts rows of i as they committed
    projection,  \* projection[i]: issue_lifecycle_projections row of i
    posts,       \* posts[i]: posts in the discussion of i
    lock,        \* lock[i]: the transaction that has written projection[i]
    cmd,         \* cmd[c]: the command of client c and what it has read
    raced        \* history: issues on which a combine or split began while
                 \* another command was writing there, or the reverse

rows == <<facts, projection, posts>>
vars == <<facts, projection, posts, lock, cmd, raced>>

Posting == {"assign", "close", "reopen"}   \* write facts and a post
Merging == {"combine", "split"}            \* write facts and no post

FactOf == [assign |-> "assigned", close |-> "closed", reopen |-> "reopened",
           combine |-> "closed", split |-> "closed"]

NoRow == [status |-> "open", assigned |-> Nobody, count |-> 0]
Started(kind, to, sources, result, stmt) ==
    [kind |-> kind, to |-> to, sources |-> sources, at |-> 1, result |-> result,
     stmt |-> stmt, post |-> 0,
     loaded |-> [i \in Issues |-> NoRow], seq |-> [i \in Issues |-> 0]]
Idle == Started("none", Nobody, <<>>, NoIssue, "none")

Exists(i) == facts[i] # <<>>
Sources(c) == {cmd[c].sources[n] : n \in DOMAIN cmd[c].sources}
Current(c) == cmd[c].sources[cmd[c].at]
Writers(i) == {c \in Clients : i \in Sources(c)}

-----------------------------------------------------------------------------
(* Mutants, for the sensitivity of the properties below: a sequence that   *)
(* two commands may insert, a fact kind written as the status, a merge     *)
(* that writes projections without facts.                                  *)
TakenNever(c) == FALSE
AppliedAsStatus(row, kind, to) ==
    [row EXCEPT !.status = kind, !.assigned = IF kind = "assigned" THEN to ELSE @,
                !.count = @ + 1]

(* SELECT MAX(sequence) + 1: of the committed facts. *)
NextSequence(i) == 1 + Max({0} \cup {facts[i][k].seq : k \in DOMAIN facts[i]})

(* What a fact does to the projection that was loaded. *)
Applied(row, kind, to) ==
    [status |-> CASE kind = "closed" -> "closed"
                  [] kind = "reopened" -> "open"
                  [] OTHER -> row.status,
     assigned |-> IF kind = "assigned" THEN to ELSE row.assigned,
     count |-> row.count + 1]

(* UNIQUE (issue_id, sequence) of issue_posts. *)
Taken(c) == cmd[c].post <= posts[Current(c)]

-----------------------------------------------------------------------------
(* Nobody knows an issue before its creation commits: one step will do.    *)
CreatedFact == [seq |-> 1, kind |-> "created", to |-> Nobody]
Taking == {cmd[c].result : c \in Clients}

Create(i) ==
    /\ ~Exists(i) /\ i \notin Taking
    /\ facts' = [facts EXCEPT ![i] = <<CreatedFact>>]
    /\ projection' = [projection EXCEPT ![i].count = 1]
    /\ posts' = [posts EXCEPT ![i] = 1]
    /\ UNCHANGED <<lock, cmd, raced>>

(* A command opens its transaction and reads the issue's row: a closed     *)
(* issue is not closed again, an open one not reopened. Refinements and    *)
(* progress are left out: they write no lifecycle row, and a command that  *)
(* collides with their post aborts.                                        *)
Races(i, kind) ==
    \E d \in Writers(i) : kind \in Merging \/ cmd[d].kind \in Merging

MayBegin(c, i) ==
    cmd[c] = Idle /\ Exists(i) /\ Len(facts[i]) < MaxFacts

Begin(c, i, kind, to) ==
    /\ MayBegin(c, i)
    /\ kind = "close" => projection[i].status = "open"
    /\ kind = "reopen" => projection[i].status = "closed"
    /\ kind # "assign" => to = Nobody
    /\ cmd' = [cmd EXCEPT ![c] = Started(kind, to, <<i>>, NoIssue, "posts")]
    /\ raced' = IF Races(i, kind) THEN raced \cup {i} ELSE raced
    /\ UNCHANGED <<rows, lock>>

(* Combine takes its sources in the order the caller gives, closed or not. *)
BeginMerge(c, kind, sources, result) ==
    /\ \A n \in DOMAIN sources : MayBegin(c, sources[n])
    /\ ~Exists(result) /\ result \notin Taking
    /\ cmd' = [cmd EXCEPT ![c] = Started(kind, Nobody, sources, result, "load")]
    /\ raced' = raced \cup {i \in Issues : /\ \E n \in DOMAIN sources : sources[n] = i
                                           /\ Races(i, kind)}
    /\ UNCHANGED <<rows, lock>>

BeginCombine(c) ==
    \E i, j, result \in Issues : i # j /\ BeginMerge(c, "combine", <<i, j>>, result)

(* One child stands for all; a split that leaves its source open only      *)
(* creates issues.                                                         *)
BeginSplit(c) == \E i, result \in Issues : BeginMerge(c, "split", <<i>>, result)

(* The discussion is read after the issue's row, by a statement of its own. *)
ReadPosts(c) ==
    /\ cmd[c].stmt = "posts"
    /\ cmd' = [cmd EXCEPT ![c].post = posts[Current(c)] + 1, ![c].stmt = "load"]
    /\ UNCHANGED <<rows, lock, raced>>

LoadProjection(c) ==
    /\ cmd[c].stmt = "load"
    /\ cmd' = [cmd EXCEPT ![c].loaded[Current(c)] = projection[Current(c)],
                          ![c].stmt = "number"]
    /\ UNCHANGED <<rows, lock, raced>>

(* The fact itself is inserted right after: its id is new, nothing refuses *)
(* it, and nobody sees it before the commit.                               *)
NumberFact(c) ==
    /\ cmd[c].stmt = "number"
    /\ cmd' = [cmd EXCEPT ![c].seq[Current(c)] = NextSequence(Current(c)),
                          ![c].stmt = "upsert"]
    /\ UNCHANGED <<rows, lock, raced>>

(* Every column of the projection is overwritten, whoever wrote it since.  *)
UpsertProjection(c) ==
    /\ cmd[c].stmt = "upsert"
    /\ lock[Current(c)] = NoOne
    /\ cmd[c].kind \in Posting \/ cmd[c].at < Len(cmd[c].sources)
    /\ lock' = [lock EXCEPT ![Current(c)] = c]
    /\ cmd' = IF cmd[c].kind \in Posting
              THEN [cmd EXCEPT ![c].stmt = "post"]
              ELSE [cmd EXCEPT ![c].at = @ + 1, ![c].stmt = "load"]
    /\ UNCHANGED <<rows, raced>>

End(c) ==
    /\ cmd' = [cmd EXCEPT ![c] = Idle]
    /\ lock' = [i \in Issues |-> IF lock[i] = c THEN NoOne ELSE lock[i]]

CommitProjections(c) ==
    /\ facts' = [i \in Issues |-> IF i = cmd[c].result THEN <<CreatedFact>> ELSE facts[i]]
    /\ projection' = [i \in Issues |->
                   IF i \in Sources(c)
                   THEN Applied(cmd[c].loaded[i], FactOf[cmd[c].kind], cmd[c].to)
                   ELSE IF i = cmd[c].result THEN [NoRow EXCEPT !.count = 1]
                   ELSE projection[i]]

CommitFacts(c) ==
    /\ facts' = [i \in Issues |->
                   IF i \in Sources(c)
                   THEN Append(facts[i], [seq |-> cmd[c].seq[i],
                                          kind |-> FactOf[cmd[c].kind], to |-> cmd[c].to])
                   ELSE IF i = cmd[c].result THEN <<CreatedFact>> ELSE facts[i]]
    /\ projection' = [i \in Issues |->
                   IF i \in Sources(c)
                   THEN Applied(cmd[c].loaded[i], FactOf[cmd[c].kind], cmd[c].to)
                   ELSE IF i = cmd[c].result THEN [NoRow EXCEPT !.count = 1]
                   ELSE projection[i]]

InsertPostAndCommit(c) ==
    /\ cmd[c].stmt = "post"
    /\ ~Taken(c)
    /\ posts' = [posts EXCEPT ![Current(c)] = cmd[c].post]
    /\ CommitFacts(c)
    /\ End(c)
    /\ UNCHANGED raced

MergeAndCommit(c) ==
    /\ cmd[c].stmt = "upsert"
    /\ lock[Current(c)] = NoOne
    /\ cmd[c].kind \in Merging /\ cmd[c].at = Len(cmd[c].sources)
    /\ CommitFacts(c)
    /\ posts' = [posts EXCEPT ![cmd[c].result] = 1]
    /\ End(c)
    /\ UNCHANGED raced

(* A post that is taken, a deadlock, a cancelled request, a lost           *)
(* connection: the command fails and leaves nothing behind.                *)
Abort(c) ==
    /\ cmd[c] # Idle
    /\ End(c)
    /\ UNCHANGED <<rows, raced>>

-----------------------------------------------------------------------------
Init ==
    /\ facts = [i \in Issues |-> <<>>]
    /\ projection = [i \in Issues |-> NoRow]
    /\ posts = [i \in Issues |-> 0]
    /\ lock = [i \in Issues |-> NoOne]
    /\ cmd = [c \in Clients |-> Idle]
    /\ raced = {}

Statement(c) ==
    \/ ReadPosts(c) \/ LoadProjection(c) \/ NumberFact(c) \/ UpsertProjection(c)
    \/ InsertPostAndCommit(c) \/ MergeAndCommit(c)

Next ==
    \/ \E i \in Issues : Create(i)
    \/ \E c \in Clients :
          \/ \E i \in Issues, kind \in Posting, to \in People \cup {Nobody} :
                Begin(c, i, kind, to)
          \/ BeginCombine(c)
          \/ BeginSplit(c)
          \/ Statement(c)
          \/ Abort(c)

Spec == Init /\ [][Next]_vars

-----------------------------------------------------------------------------
(* Properties.                                                             *)

Row == [status : {"open", "closed"}, assigned : People \cup {Nobody}, count : Nat]
Fact == [seq : Nat, kind : {"created", "assigned", "closed", "reopened"},
         to : People \cup {Nobody}]
Command == [kind : Posting \cup Merging \cup {"none"},
            to : People \cup {Nobody},
            sources : Seq(Issues), at : Nat,
            result : Issues \cup {NoIssue},
            stmt : {"none", "posts", "load", "number", "upsert", "post"},
            post : Nat, loaded : [Issues -> Row], seq : [Issues -> Nat]]

(* The rows, locks and statements are those the code can produce. *)
TypeOK ==
    /\ facts \in [Issues -> Seq(Fact)]
    /\ projection \in [Issues -> Row]
    /\ posts \in [Issues -> Nat]
    /\ lock \in [Issues -> Clients \cup {NoOne}]
    /\ cmd \in [Clients -> Command]
    /\ raced \subseteq Issues

(* Fact k of i is the last, in the order of the sequences, of its kinds.   *)
LastOf(i, k, kinds) ==
    /\ facts[i][k].kind \in kinds
    /\ \A l \in DOMAIN facts[i] : facts[i][l].kind \in kinds => facts[i][l].seq <= facts[i][k].seq

(* The projection is what replaying the facts gives: the parity the        *)
(* append-only migration checks.                                           *)
Replays(i) ==
    /\ projection[i].count = Len(facts[i])
    /\ \A k, l \in DOMAIN facts[i] : k # l => facts[i][k].seq # facts[i][l].seq
    /\ \A k \in DOMAIN facts[i] :
          /\ LastOf(i, k, {"created", "closed", "reopened"}) =>
                projection[i].status = IF facts[i][k].kind = "closed" THEN "closed" ELSE "open"
          /\ LastOf(i, k, {"created", "assigned"}) => projection[i].assigned = facts[i][k].to

(* "Facts are immutable history. Projections are current-state read models *)
(* rebuilt or updated from facts": no command's change is lost from the    *)
(* projection, although assign, close and reopen run beside each other on  *)
(* one issue. Not so where a combine or a split overlaps another command   *)
(* on one of its sources (raced): neither inserts a post the other would   *)
(* fail at, both number their facts alike and one overwrites the other.    *)
ReplaysUnlessRaced == \A i \in Issues \ raced : Replays(i)

Shows(i, row) ==
    /\ row.count <= Len(facts[i])
    /\ row.status = "closed" => \E k \in DOMAIN facts[i] : facts[i][k].kind = "closed"
    /\ row.assigned # Nobody =>
          \E k \in DOMAIN facts[i] :
             facts[i][k].kind = "assigned" /\ facts[i][k].to = row.assigned

(* Even after a race the projection does not invent: it counts no more     *)
(* facts than there are, and shows a status and an assignee that some fact *)
(* recorded.                                                               *)
ShowsOnlyFacts == \A i \in Issues : Shows(i, projection[i])

-----------------------------------------------------------------------------
(* Why ReplaysUnlessRaced holds. On an issue without a race, a command     *)
(* that will get its post in, or closes without one, has seen every fact   *)
(* committed so far.                                                       *)

Handled(c, i, stmts) ==
    \E n \in DOMAIN cmd[c].sources :
        /\ cmd[c].sources[n] = i
        /\ n < cmd[c].at \/ (n = cmd[c].at /\ cmd[c].stmt \in stmts)

Fresh(c, i) == cmd[c].kind \in Merging \/ cmd[c].post > posts[i]

Disciplined(c) ==
    /\ cmd[c].kind = "none" => cmd[c] = Idle
    /\ cmd[c].kind # "none" =>
          /\ cmd[c].at \in DOMAIN cmd[c].sources
          /\ \A i \in Sources(c) : Exists(i)
    /\ cmd[c].kind \in Posting =>
          /\ Len(cmd[c].sources) = 1
          /\ cmd[c].result = NoIssue
          /\ cmd[c].stmt # "posts" => cmd[c].post <= posts[Current(c)] + 1
    /\ cmd[c].kind \in Merging =>
          /\ cmd[c].result \in Issues /\ ~Exists(cmd[c].result)
          /\ cmd[c].stmt \in {"load", "number", "upsert"}
          /\ \A m, n \in DOMAIN cmd[c].sources :
                cmd[c].sources[m] = cmd[c].sources[n] => m = n

CommandInv ==
    /\ \A c \in Clients : Disciplined(c)
    /\ \A c, d \in Clients :
          c # d /\ cmd[c].result # NoIssue => cmd[c].result # cmd[d].result

Numbered(i) == \A k \in DOMAIN facts[i] : facts[i][k].seq = k

IssueInv ==
    \A i \in Issues :
        /\ ~Exists(i) => projection[i] = NoRow
        /\ Exists(i) =>
              \E k \in DOMAIN facts[i] :
                  \A l \in DOMAIN facts[i] : facts[i][l].seq <= facts[i][k].seq
        /\ i \notin raced =>
              Replays(i) /\ Numbered(i)

RaceInv ==
    \A i \in Issues \ raced : \A c \in Writers(i) :
        /\ cmd[c].kind \in Merging => Writers(i) = {c}
        /\ Fresh(c, i) =>
              /\ Handled(c, i, {"number", "upsert", "post"}) =>
                    cmd[c].loaded[i] = projection[i]
              /\ Handled(c, i, {"upsert", "post"}) =>
                    cmd[c].seq[i] = Len(facts[i]) + 1

LifecycleInv == CommandInv /\ IssueInv /\ RaceInv
=============================================================================
