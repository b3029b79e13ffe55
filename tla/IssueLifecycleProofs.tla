------------------------ MODULE IssueLifecycleProofs ------------------------
(***************************************************************************)
(* Proofs about the lifecycle facts and projection, for any number of      *)
(* issues and of commands beside each other. LifecycleInv is inductive     *)
(* together with the type invariant.                                       *)
(***************************************************************************)
EXTENDS IssueLifecycle, TLAPS

IInv == TypeOK /\ LifecycleInv

-----------------------------------------------------------------------------
(* What the statements compute.                                            *)

(* The empty row, a command that begins and the idle one are of their types. *)
LEMMA NoRowType == NoRow \in Row
  BY DEF NoRow, Row

LEMMA StartedType ==
    ASSUME NEW kind \in Posting \cup Merging \cup {"none"}, NEW to \in People \cup {Nobody},
           NEW sources \in Seq(Issues), NEW result \in Issues \cup {NoIssue},
           NEW stmt \in {"none", "posts", "load"}
    PROVE  Started(kind, to, sources, result, stmt) \in Command
  BY NoRowType DEF Started, Command

LEMMA IdleType == Idle \in Command
  <1>1. <<>> \in Seq(Issues)
    OBVIOUS
  <1> QED
    BY <1>1, StartedType DEF Idle

(* MAX(sequence) + 1 is a number; where facts are numbered without a gap,  *)
(* it is the next one.                                                     *)
LEMMA NextSequenceIsNext ==
    ASSUME IInv, NEW i \in Issues, Exists(i)
    PROVE  /\ NextSequence(i) \in Nat
           /\ Numbered(i) => NextSequence(i) = Len(facts[i]) + 1
  <1> DEFINE S == {0} \cup {facts[i][k].seq : k \in DOMAIN facts[i]}
  <1>1. /\ facts[i] \in Seq(Fact)
        /\ facts[i] # <<>>
        /\ DOMAIN facts[i] = 1 .. Len(facts[i])
        /\ Len(facts[i]) \in Nat \ {0}
    BY DEF IInv, TypeOK, Exists
  <1>2. PICK m \in DOMAIN facts[i] :
           \A l \in DOMAIN facts[i] : facts[i][l].seq <= facts[i][m].seq
    BY DEF IInv, LifecycleInv, IssueInv
  <1>3. \A k \in DOMAIN facts[i] : facts[i][k].seq \in Nat
    <2>1. \A k \in 1 .. Len(facts[i]) : facts[i][k] \in Fact
      BY <1>1
    <2>2. \A f \in Fact : f.seq \in Nat
      BY DEF Fact
    <2> QED
      BY <1>1, <2>1, <2>2
  <1>4. facts[i][m].seq \in S /\ S \subseteq Nat /\ \A y \in S : facts[i][m].seq >= y
    BY <1>2, <1>3
  <1> HIDE DEF S
  <1>5. Max(S) \in S /\ \A y \in S : Max(S) >= y
    BY <1>4 DEF Max
  <1>6. Max(S) = facts[i][m].seq
    <2>1. Max(S) \in Nat /\ facts[i][m].seq \in Nat
      BY <1>4, <1>5
    <2>2. Max(S) >= facts[i][m].seq /\ facts[i][m].seq >= Max(S)
      BY <1>4, <1>5
    <2> QED
      BY <2>1, <2>2
  <1>7. ASSUME Numbered(i)
        PROVE  facts[i][m].seq = Len(facts[i])
    <2>1. Len(facts[i]) \in DOMAIN facts[i]
      BY <1>1
    <2>2. facts[i][Len(facts[i])].seq = Len(facts[i]) /\ facts[i][m].seq = m
      BY <1>7, <2>1 DEF Numbered
    <2>3. Len(facts[i]) <= m /\ m <= Len(facts[i])
      BY <1>1, <1>2, <2>1, <2>2
    <2> QED
      BY <1>1, <2>2, <2>3
  <1>8. NextSequence(i) = 1 + Max(S)
    BY DEF NextSequence, S
  <1> QED
    BY <1>1, <1>3, <1>6, <1>7, <1>8

(* A fact takes a row of the projection to a row. *)
LEMMA AppliedType ==
    ASSUME NEW row \in Row, NEW kind, NEW to \in People \cup {Nobody}
    PROVE  Applied(row, kind, to) \in Row
  <1>1. CASE kind \in {"closed", "reopened"}
    BY <1>1 DEF Applied, Row
  <1>2. CASE kind \notin {"closed", "reopened"}
    BY <1>2 DEF Applied, Row
  <1> QED
    BY <1>1, <1>2

(* The next fact, applied to a projection that replays the facts before    *)
(* it, gives a projection that replays them all.                           *)
LEMMA AppendReplays ==
    ASSUME TypeOK, NEW i \in Issues, Replays(i), Numbered(i), Exists(i),
           NEW kind \in {"assigned", "closed", "reopened"},
           NEW to \in People \cup {Nobody},
           facts'[i] = Append(facts[i], [seq |-> Len(facts[i]) + 1, kind |-> kind, to |-> to]),
           projection'[i] = Applied(projection[i], kind, to)
    PROVE  Replays(i)' /\ Numbered(i)'
  <1> DEFINE n == Len(facts[i])
             f == [seq |-> n + 1, kind |-> kind, to |-> to]
  <1>1. facts[i] \in Seq(Fact) /\ n \in Nat /\ n > 0 /\ DOMAIN facts[i] = 1 .. n
    BY DEF TypeOK, Exists
  <1>2. /\ Len(facts'[i]) = n + 1
        /\ DOMAIN facts'[i] = 1 .. n + 1
        /\ facts'[i][n + 1] = f
        /\ \A k \in 1 .. n : facts'[i][k] = facts[i][k]
    BY <1>1
  <1>3. Numbered(i)'
    BY <1>1, <1>2 DEF Numbered
  <1>4. projection[i] \in Row
    BY DEF TypeOK
  <1>5. /\ projection'[i].count = projection[i].count + 1
        /\ projection'[i].status = IF kind = "closed" THEN "closed"
                                   ELSE IF kind = "reopened" THEN "open"
                                   ELSE projection[i].status
        /\ projection'[i].assigned = IF kind = "assigned" THEN to ELSE projection[i].assigned
    BY <1>4 DEF Applied, Row
  <1>6. projection'[i].count = Len(facts'[i])
    BY <1>2, <1>5 DEF Replays
  <1>7. \A k, l \in DOMAIN facts'[i] : k # l => facts'[i][k].seq # facts'[i][l].seq
    BY <1>3 DEF Numbered
  <1>8. ASSUME NEW k \in DOMAIN facts'[i], LastOf(i, k, {"created", "closed", "reopened"})'
        PROVE  projection'[i].status = IF facts'[i][k].kind = "closed" THEN "closed" ELSE "open"
    <2>1. CASE kind \in {"closed", "reopened"}
      <3>1. facts'[i][n + 1].seq <= facts'[i][k].seq
        BY <1>1, <1>2, <1>8, <2>1 DEF LastOf
      <3>2. k = n + 1
        BY <1>1, <1>2, <1>3, <3>1 DEF Numbered
      <3> QED
        BY <1>2, <1>5, <2>1, <3>2
    <2>2. CASE kind = "assigned"
      <3>1. k \in 1 .. n
        BY <1>1, <1>2, <1>8, <2>2 DEF LastOf
      <3>2. LastOf(i, k, {"created", "closed", "reopened"})
        BY <1>1, <1>2, <1>8, <3>1 DEF LastOf
      <3> QED
        BY <1>1, <1>2, <1>5, <2>2, <3>1, <3>2 DEF Replays
    <2> QED
      BY <2>1, <2>2
  <1>9. ASSUME NEW k \in DOMAIN facts'[i], LastOf(i, k, {"created", "assigned"})'
        PROVE  projection'[i].assigned = facts'[i][k].to
    <2>1. CASE kind = "assigned"
      <3>1. facts'[i][n + 1].seq <= facts'[i][k].seq
        BY <1>1, <1>2, <1>9, <2>1 DEF LastOf
      <3>2. k = n + 1
        BY <1>1, <1>2, <1>3, <3>1 DEF Numbered
      <3> QED
        BY <1>2, <1>5, <2>1, <3>2
    <2>2. CASE kind \in {"closed", "reopened"}
      <3>1. k \in 1 .. n
        BY <1>1, <1>2, <1>9, <2>2 DEF LastOf
      <3>2. LastOf(i, k, {"created", "assigned"})
        BY <1>1, <1>2, <1>9, <3>1 DEF LastOf
      <3> QED
        BY <1>1, <1>2, <1>5, <2>2, <3>1, <3>2 DEF Replays
    <2> QED
      BY <2>1, <2>2
  <1> QED
    BY <1>3, <1>6, <1>7, <1>8, <1>9 DEF Replays

-----------------------------------------------------------------------------
(* One lemma per action.                                                   *)

(* Nothing exists at first. *)
LEMMA InitIInv == Init => IInv
  <1> SUFFICES ASSUME Init
               PROVE  IInv
    OBVIOUS
  <1>1. TypeOK
    <2>1. <<>> \in Seq(Fact)
      OBVIOUS
    <2> QED
      BY <2>1, IdleType, NoRowType DEF Init, TypeOK
  <1>2. CommandInv
    BY DEF Init, CommandInv, Disciplined, Idle, Started, Posting, Merging
  <1>3. IssueInv
    <2>1. \A i \in Issues : facts[i] = <<>> /\ projection[i] = NoRow
      BY DEF Init
    <2>2. DOMAIN <<>> = {} /\ Len(<<>>) = 0
      OBVIOUS
    <2> QED
      BY <2>1, <2>2 DEF IssueInv, Exists, Replays, Numbered, NoRow
  <1>4. RaceInv
    BY DEF Init, RaceInv, Writers, Sources, Idle, Started
  <1> QED
    BY <1>1, <1>2, <1>3, <1>4 DEF IInv, LifecycleInv

(* What an open transaction does is not visible in the rows. *)
LEMMA RowsKept ==
    ASSUME IInv, UNCHANGED rows, raced \subseteq raced'
    PROVE  IssueInv'
  BY DEF IInv, LifecycleInv, IssueInv, rows, Exists, Replays, LastOf, Numbered

(* A command that begins has read nothing of the facts; if it is not alone *)
(* on an issue and one of the two is a merge, the issue is raced.          *)
LEMMA BeginStep ==
    ASSUME IInv, NEW c \in Clients, NEW i \in Issues, NEW kind \in Posting,
           NEW to \in People \cup {Nobody}, Begin(c, i, kind, to)
    PROVE  IInv'
  <1> DEFINE K == Started(kind, to, <<i>>, NoIssue, "posts")
  <1>1. /\ cmd' = [cmd EXCEPT ![c] = K]
        /\ UNCHANGED rows /\ UNCHANGED lock
        /\ raced' = IF Races(i, kind) THEN raced \cup {i} ELSE raced
        /\ Exists(i)
    BY DEF Begin, MayBegin
  <1>2. /\ K \in Command
        /\ K.kind = kind /\ K.sources = <<i>> /\ K.at = 1 /\ K.result = NoIssue
        /\ K.stmt = "posts"
    <2>1. <<i>> \in Seq(Issues)
      OBVIOUS
    <2>2. K \in Command
      BY <2>1, StartedType
    <2> QED
      BY <2>2 DEF Started
  <1> HIDE DEF K
  <1>3. cmd'[c] = K /\ \A d \in Clients : d # c => cmd'[d] = cmd[d]
    BY <1>1 DEF IInv, TypeOK
  <1>4. TypeOK'
    BY <1>1, <1>2 DEF IInv, TypeOK, rows
  <1>5. CommandInv'
    <2>1. ASSUME NEW d \in Clients, d # c
          PROVE  Disciplined(d)'
      BY <1>1, <1>3, <2>1 DEF IInv, LifecycleInv, CommandInv, Disciplined, Sources, Current,
        Exists, rows
    <2>2. Disciplined(c)'
      <3>1. DOMAIN <<i>> = {1} /\ <<i>>[1] = i /\ Len(<<i>>) = 1
        OBVIOUS
      <3>2. Sources(c)' = {i} /\ Exists(i)'
        BY <1>1, <1>2, <1>3, <3>1 DEF Sources, Exists, rows
      <3> QED
        BY <1>2, <1>3, <3>1, <3>2 DEF Disciplined, Posting, Merging
    <2>3. \A d, e \in Clients : d # e /\ cmd'[d].result # NoIssue => cmd'[d].result # cmd'[e].result
      BY <1>2, <1>3 DEF IInv, LifecycleInv, CommandInv
    <2> QED
      BY <2>1, <2>2, <2>3 DEF CommandInv
  <1>6. IssueInv'
    BY <1>1, RowsKept
  <1>7. RaceInv'
    <2> SUFFICES ASSUME NEW j \in Issues \ raced', NEW d \in Writers(j)'
                 PROVE  /\ cmd'[d].kind \in Merging => Writers(j)' = {d}
                        /\ Fresh(d, j)' =>
                             /\ Handled(d, j, {"number", "upsert", "post"})' =>
                                  cmd'[d].loaded[j] = projection'[j]
                             /\ Handled(d, j, {"upsert", "post"})' =>
                                  cmd'[d].seq[j] = Len(facts'[j]) + 1
      BY DEF RaceInv
    <2>1. j \notin raced /\ d \in Clients
      BY <1>1 DEF Writers
    <2>2. CASE d = c
      <3>1. ~Handled(d, j, {"number", "upsert", "post"})' /\ ~Handled(d, j, {"upsert", "post"})'
        BY <1>2, <1>3, <2>2 DEF Handled
      <3>2. cmd'[d].kind \notin Merging
        BY <1>2, <1>3, <2>2 DEF Posting, Merging
      <3> QED
        BY <3>1, <3>2
    <2>3. CASE d # c
      <3>1. cmd'[d] = cmd[d] /\ d \in Writers(j)
        BY <1>3, <2>1, <2>3 DEF Writers, Sources
      <3>2. cmd[d].kind \in Merging => c \notin Writers(j)'
        BY <1>1, <1>2, <1>3, <3>1 DEF Races, Writers, Sources
      <3>3. cmd[d].kind \in Merging => Writers(j)' = {d}
        BY <1>3, <2>1, <3>1, <3>2 DEF IInv, LifecycleInv, RaceInv, Writers, Sources
      <3> QED
        BY <1>1, <2>1, <3>1, <3>3 DEF IInv, LifecycleInv, RaceInv, Fresh, Handled, rows
    <2> QED
      BY <2>2, <2>3
  <1> QED
    BY <1>4, <1>5, <1>6, <1>7 DEF IInv, LifecycleInv

(* A combine or split lays claim to an id nobody else has. *)
LEMMA BeginMergeStep ==
    ASSUME IInv, NEW c \in Clients, NEW kind \in Merging, NEW sources \in Seq(Issues),
           NEW result \in Issues, BeginMerge(c, kind, sources, result),
           sources # <<>>,
           \A m, n \in DOMAIN sources : sources[m] = sources[n] => m = n
    PROVE  IInv'
  <1> DEFINE K == Started(kind, Nobody, sources, result, "load")
             Named(i) == \E n \in DOMAIN sources : sources[n] = i
  <1>1. /\ cmd' = [cmd EXCEPT ![c] = K]
        /\ UNCHANGED rows /\ UNCHANGED lock
        /\ raced' = raced \cup {i \in Issues : Named(i) /\ Races(i, kind)}
        /\ \A n \in DOMAIN sources : Exists(sources[n])
        /\ ~Exists(result) /\ result \notin Taking
    BY DEF BeginMerge, MayBegin
  <1>2. /\ K \in Command
        /\ K.kind = kind /\ K.sources = sources /\ K.at = 1 /\ K.result = result
        /\ K.stmt = "load"
    <2>1. K \in Command
      BY StartedType
    <2> QED
      BY <2>1 DEF Started
  <1> HIDE DEF K
  <1>3. cmd'[c] = K /\ \A d \in Clients : d # c => cmd'[d] = cmd[d]
    BY <1>1 DEF IInv, TypeOK
  <1>4. TypeOK'
    BY <1>1, <1>2 DEF IInv, TypeOK, rows
  <1>5. CommandInv'
    <2>1. ASSUME NEW d \in Clients, d # c
          PROVE  Disciplined(d)'
      BY <1>1, <1>3, <2>1 DEF IInv, LifecycleInv, CommandInv, Disciplined, Sources, Current,
        Exists, rows
    <2>2. Disciplined(c)'
      <3>1. 1 \in DOMAIN sources
        OBVIOUS
      <3>2. \A i \in Sources(c)' : Exists(i)'
        BY <1>1, <1>2, <1>3 DEF Sources, Exists, rows
      <3>3. ~Exists(result)'
        BY <1>1 DEF Exists, rows
      <3> QED
        BY <1>2, <1>3, <3>1, <3>2, <3>3 DEF Disciplined, Posting, Merging
    <2>3. \A d \in Clients : cmd[d].result # result
      BY <1>1 DEF Taking
    <2>4. \A d, e \in Clients : d # e /\ cmd'[d].result # NoIssue => cmd'[d].result # cmd'[e].result
      BY <1>2, <1>3, <2>3 DEF IInv, LifecycleInv, CommandInv
    <2> QED
      BY <2>1, <2>2, <2>4 DEF CommandInv
  <1>6. IssueInv'
    BY <1>1, RowsKept
  <1>7. RaceInv'
    <2> SUFFICES ASSUME NEW j \in Issues \ raced', NEW d \in Writers(j)'
                 PROVE  /\ cmd'[d].kind \in Merging => Writers(j)' = {d}
                        /\ Fresh(d, j)' =>
                             /\ Handled(d, j, {"number", "upsert", "post"})' =>
                                  cmd'[d].loaded[j] = projection'[j]
                             /\ Handled(d, j, {"upsert", "post"})' =>
                                  cmd'[d].seq[j] = Len(facts'[j]) + 1
      BY DEF RaceInv
    <2>1. j \notin raced /\ d \in Clients
      BY <1>1 DEF Writers
    <2>2. c \in Writers(j)' => Named(j)
      BY <1>2, <1>3 DEF Writers, Sources
    <2>3. c \in Writers(j)' => Writers(j) = {}
      BY <1>1, <2>2 DEF Races
    <2>4. \A e \in Clients : e # c => (e \in Writers(j)' <=> e \in Writers(j))
      BY <1>3 DEF Writers, Sources
    <2>5. c \in Writers(j)' => Writers(j)' = {c}
      BY <2>3, <2>4 DEF Writers
    <2>6. CASE d = c
      <3>1. ~Handled(d, j, {"number", "upsert", "post"})' /\ ~Handled(d, j, {"upsert", "post"})'
        BY <1>2, <1>3, <2>6 DEF Handled
      <3> QED
        BY <2>5, <2>6, <3>1
    <2>7. CASE d # c
      <3>1. cmd'[d] = cmd[d] /\ d \in Writers(j) /\ c \notin Writers(j)'
        BY <1>3, <2>1, <2>4, <2>5, <2>7
      <3>2. cmd[d].kind \in Merging => Writers(j)' = {d}
        BY <2>1, <2>4, <3>1 DEF IInv, LifecycleInv, RaceInv, Writers
      <3> QED
        BY <1>1, <2>1, <3>1, <3>2 DEF IInv, LifecycleInv, RaceInv, Fresh, Handled, rows
    <2> QED
      BY <2>6, <2>7
  <1> QED
    BY <1>4, <1>5, <1>6, <1>7 DEF IInv, LifecycleInv

(* A statement that changes no row changes only what its own command has   *)
(* read. What is to be shown of it is left to the lemmas below.            *)
LEMMA StatementStep ==
    ASSUME IInv, NEW c \in Clients, NEW K \in Command,
           cmd[c].kind # "none",
           cmd' = [cmd EXCEPT ![c] = K], UNCHANGED rows, UNCHANGED raced,
           lock' \in [Issues -> Clients \cup {NoOne}],
           K.kind = cmd[c].kind, K.sources = cmd[c].sources, K.result = cmd[c].result,
           Disciplined(c)',
           \A i \in Sources(c) \ raced : Fresh(c, i)' =>
             /\ Handled(c, i, {"number", "upsert", "post"})' => K.loaded[i] = projection[i]
             /\ Handled(c, i, {"upsert", "post"})' => K.seq[i] = Len(facts[i]) + 1
    PROVE  IInv'
  <1>1. cmd'[c] = K /\ \A d \in Clients : d # c => cmd'[d] = cmd[d]
    BY DEF IInv, TypeOK
  <1>2. TypeOK'
    BY DEF IInv, TypeOK, rows
  <1>3. CommandInv'
    <2>1. ASSUME NEW d \in Clients, d # c
          PROVE  Disciplined(d)'
      BY <1>1, <2>1 DEF IInv, LifecycleInv, CommandInv, Disciplined, Sources, Current,
        Exists, rows
    <2>2. \A d, e \in Clients : d # e /\ cmd'[d].result # NoIssue => cmd'[d].result # cmd'[e].result
      BY <1>1 DEF IInv, LifecycleInv, CommandInv
    <2> QED
      BY <2>1, <2>2 DEF CommandInv
  <1>4. IssueInv'
    BY RowsKept
  <1>5. \A j \in Issues : Writers(j)' = Writers(j)
    BY <1>1 DEF Writers, Sources
  <1>6. RaceInv'
    <2> SUFFICES ASSUME NEW j \in Issues \ raced, NEW d \in Writers(j)
                 PROVE  /\ cmd'[d].kind \in Merging => Writers(j)' = {d}
                        /\ Fresh(d, j)' =>
                             /\ Handled(d, j, {"number", "upsert", "post"})' =>
                                  cmd'[d].loaded[j] = projection'[j]
                             /\ Handled(d, j, {"upsert", "post"})' =>
                                  cmd'[d].seq[j] = Len(facts'[j]) + 1
      BY <1>5 DEF RaceInv
    <2>1. d \in Clients /\ j \in Sources(d)
      BY DEF Writers
    <2>2. cmd'[d].kind \in Merging => Writers(j)' = {d}
      BY <1>1, <1>5, <2>1 DEF IInv, LifecycleInv, RaceInv
    <2>3. CASE d = c
      BY <1>1, <2>1, <2>2, <2>3 DEF rows
    <2>4. CASE d # c
      BY <1>1, <2>1, <2>2, <2>4 DEF IInv, LifecycleInv, RaceInv, Fresh, Handled, rows
    <2> QED
      BY <2>3, <2>4
  <1> QED
    BY <1>2, <1>3, <1>4, <1>6 DEF IInv, LifecycleInv

(* What is known of an open command. *)
LEMMA OpenCommand ==
    ASSUME IInv, NEW c \in Clients, cmd[c].kind # "none"
    PROVE  /\ cmd[c] \in Command
           /\ cmd[c].sources \in Seq(Issues)
           /\ cmd[c].at \in DOMAIN cmd[c].sources
           /\ Current(c) \in Issues /\ Current(c) \in Sources(c)
           /\ \A i \in Sources(c) : i \in Issues /\ Exists(i) /\ c \in Writers(i)
           /\ \A m, n \in DOMAIN cmd[c].sources :
                 cmd[c].sources[m] = cmd[c].sources[n] => m = n
  <1>1. cmd[c] \in Command /\ cmd[c].sources \in Seq(Issues)
    BY DEF IInv, TypeOK, Command
  <1>2. cmd[c].at \in DOMAIN cmd[c].sources /\ \A i \in Sources(c) : Exists(i)
    BY DEF IInv, LifecycleInv, CommandInv, Disciplined
  <1>3. \A n \in DOMAIN cmd[c].sources : cmd[c].sources[n] \in Issues
    BY <1>1
  <1>4. \A m, n \in DOMAIN cmd[c].sources : cmd[c].sources[m] = cmd[c].sources[n] => m = n
    <2>1. CASE cmd[c].kind \in Posting
      <3>1. Len(cmd[c].sources) = 1
        BY <2>1 DEF IInv, LifecycleInv, CommandInv, Disciplined
      <3> QED
        BY <1>1, <3>1
    <2>2. CASE cmd[c].kind \in Merging
      BY <2>2 DEF IInv, LifecycleInv, CommandInv, Disciplined
    <2> QED
      BY <1>1, <2>1, <2>2 DEF Command
  <1> QED
    BY <1>1, <1>2, <1>3, <1>4 DEF Current, Sources, Writers

(* An idle command has no statement. *)
LEMMA StatementIsOpen ==
    ASSUME IInv, NEW c \in Clients, cmd[c].stmt # "none"
    PROVE  cmd[c].kind # "none"
  BY DEF IInv, LifecycleInv, CommandInv, Disciplined, Idle, Started

(* The discussion is read before any fact, so nothing is claimed yet. *)
LEMMA ReadPostsStep ==
    ASSUME IInv, NEW c \in Clients, ReadPosts(c)
    PROVE  IInv'
  <1> DEFINE K == [cmd[c] EXCEPT !.post = posts[Current(c)] + 1, !.stmt = "load"]
  <1>1. cmd[c].stmt = "posts" /\ cmd[c].kind # "none"
    BY StatementIsOpen DEF ReadPosts
  <1>2. cmd' = [cmd EXCEPT ![c] = K] /\ UNCHANGED rows /\ UNCHANGED lock /\ UNCHANGED raced
    BY DEF ReadPosts
  <1>3. posts[Current(c)] \in Nat
    BY <1>1, OpenCommand DEF IInv, TypeOK
  <1>4. K \in Command
    <2>1. cmd[c] \in Command
      BY <1>1, OpenCommand
    <2>2. posts[Current(c)] + 1 \in Nat
      BY <1>3
    <2> QED
      BY <2>1, <2>2 DEF Command
  <1>5. /\ K.kind = cmd[c].kind /\ K.sources = cmd[c].sources /\ K.result = cmd[c].result
        /\ K.at = cmd[c].at /\ K.post = posts[Current(c)] + 1 /\ K.stmt = "load"
    BY <1>1, OpenCommand DEF Command
  <1> HIDE DEF K
  <1>6. cmd'[c] = K
    BY <1>2 DEF IInv, TypeOK
  <1>7. cmd[c].kind \in Posting
    BY <1>1, OpenCommand DEF Command, IInv, LifecycleInv, CommandInv, Disciplined
  <1>8. Disciplined(c)'
    BY <1>1, <1>2, <1>3, <1>5, <1>6, <1>7
      DEF IInv, LifecycleInv, CommandInv, Disciplined, Sources, Current, Exists, rows,
          Posting, Merging
  <1>9. \A i \in Sources(c) : ~Handled(c, i, {"number", "upsert", "post"})'
                              /\ ~Handled(c, i, {"upsert", "post"})'
    <2>1. Len(cmd[c].sources) = 1 /\ cmd[c].at \in DOMAIN cmd[c].sources
      BY <1>1, <1>7 DEF IInv, LifecycleInv, CommandInv, Disciplined
    <2>2. \A n \in DOMAIN cmd[c].sources : n = cmd[c].at
      BY <1>1, <2>1, OpenCommand
    <2> QED
      BY <1>5, <1>6, <2>1, <2>2, OpenCommand, <1>1 DEF Handled
  <1>10. lock' \in [Issues -> Clients \cup {NoOne}]
    BY <1>2 DEF IInv, TypeOK
  <1> QED
    BY <1>1, <1>2, <1>4, <1>5, <1>8, <1>9, <1>10, StatementStep

(* The projection it loads is the committed one. *)
LEMMA LoadProjectionStep ==
    ASSUME IInv, NEW c \in Clients, LoadProjection(c)
    PROVE  IInv'
  <1> DEFINE i == Current(c)
             K == [cmd[c] EXCEPT !.loaded[i] = projection[i], !.stmt = "number"]
  <1>1. cmd[c].stmt = "load" /\ cmd[c].kind # "none"
    BY StatementIsOpen DEF LoadProjection
  <1>2. cmd' = [cmd EXCEPT ![c] = K] /\ UNCHANGED rows /\ UNCHANGED lock /\ UNCHANGED raced
    BY DEF LoadProjection
  <1>3. /\ i \in Issues /\ i = cmd[c].sources[cmd[c].at]
        /\ projection[i] \in Row /\ cmd[c].loaded \in [Issues -> Row]
    BY <1>1, OpenCommand DEF IInv, TypeOK, Command, Current
  <1>4. K \in Command
    <2>1. cmd[c] \in Command
      BY <1>1, OpenCommand
    <2> QED
      BY <1>3, <2>1 DEF Command
  <1>5. /\ K.kind = cmd[c].kind /\ K.sources = cmd[c].sources /\ K.result = cmd[c].result
        /\ K.at = cmd[c].at /\ K.post = cmd[c].post /\ K.stmt = "number" /\ K.seq = cmd[c].seq
        /\ K.loaded[i] = projection[i]
        /\ \A j \in Issues : j # i => K.loaded[j] = cmd[c].loaded[j]
    BY <1>1, <1>3, OpenCommand DEF Command
  <1> HIDE DEF K, i
  <1>6. cmd'[c] = K
    BY <1>2 DEF IInv, TypeOK
  <1>7. Disciplined(c)'
    BY <1>1, <1>2, <1>5, <1>6, SMTT(30)
      DEF IInv, LifecycleInv, CommandInv, Disciplined, Sources, Current, Exists, rows, i,
          Posting, Merging
  <1>8. ASSUME NEW j \in Sources(c) \ raced, Fresh(c, j)'
        PROVE  /\ Handled(c, j, {"number", "upsert", "post"})' => K.loaded[j] = projection[j]
               /\ Handled(c, j, {"upsert", "post"})' => K.seq[j] = Len(facts[j]) + 1
    <2>1. j \in Issues /\ c \in Writers(j) /\ Fresh(c, j)
      BY <1>1, <1>2, <1>5, <1>6, <1>8, OpenCommand DEF Fresh, rows
    <2>2. j # i /\ Handled(c, j, {"number", "upsert", "post"})' =>
             Handled(c, j, {"number", "upsert", "post"})
      BY <1>3, <1>5, <1>6 DEF Handled
    <2>3. Handled(c, j, {"upsert", "post"})' => Handled(c, j, {"upsert", "post"})
      BY <1>5, <1>6 DEF Handled
    <2> QED
      BY <1>5, <1>8, <2>1, <2>2, <2>3 DEF IInv, LifecycleInv, RaceInv
  <1>9. lock' \in [Issues -> Clients \cup {NoOne}]
    BY <1>2 DEF IInv, TypeOK
  <1> QED
    BY <1>1, <1>2, <1>4, <1>5, <1>7, <1>8, <1>9, StatementStep

(* Where the facts are numbered without a gap, it takes the next number. *)
LEMMA NumberFactStep ==
    ASSUME IInv, NEW c \in Clients, NumberFact(c)
    PROVE  IInv'
  <1> DEFINE i == Current(c)
             K == [cmd[c] EXCEPT !.seq[i] = NextSequence(i), !.stmt = "upsert"]
  <1>1. cmd[c].stmt = "number" /\ cmd[c].kind # "none"
    BY StatementIsOpen DEF NumberFact
  <1>2. cmd' = [cmd EXCEPT ![c] = K] /\ UNCHANGED rows /\ UNCHANGED lock /\ UNCHANGED raced
    BY DEF NumberFact
  <1>3. i \in Issues /\ i = cmd[c].sources[cmd[c].at] /\ cmd[c].seq \in [Issues -> Nat]
    BY <1>1, OpenCommand DEF Command, Current
  <1>4. Exists(i)
    BY <1>1, OpenCommand
  <1>5. NextSequence(i) \in Nat /\ (i \notin raced => NextSequence(i) = Len(facts[i]) + 1)
    BY <1>3, <1>4, NextSequenceIsNext DEF IInv, LifecycleInv, IssueInv
  <1>6. K \in Command
    <2>1. cmd[c] \in Command
      BY <1>1, OpenCommand
    <2> QED
      BY <1>3, <1>5, <2>1 DEF Command
  <1>7. /\ K.kind = cmd[c].kind /\ K.sources = cmd[c].sources /\ K.result = cmd[c].result
        /\ K.at = cmd[c].at /\ K.post = cmd[c].post /\ K.stmt = "upsert"
        /\ K.loaded = cmd[c].loaded
        /\ K.seq[i] = NextSequence(i)
        /\ \A j \in Issues : j # i => K.seq[j] = cmd[c].seq[j]
    BY <1>1, <1>3, OpenCommand DEF Command
  <1> HIDE DEF K, i
  <1>8. cmd'[c] = K
    BY <1>2 DEF IInv, TypeOK
  <1>9. Disciplined(c)'
    BY <1>1, <1>2, <1>7, <1>8, SMTT(30)
      DEF IInv, LifecycleInv, CommandInv, Disciplined, Sources, Current, Exists, rows, i,
          Posting, Merging
  <1>10. ASSUME NEW j \in Sources(c) \ raced, Fresh(c, j)'
         PROVE  /\ Handled(c, j, {"number", "upsert", "post"})' => K.loaded[j] = projection[j]
                /\ Handled(c, j, {"upsert", "post"})' => K.seq[j] = Len(facts[j]) + 1
    <2>1. j \in Issues /\ c \in Writers(j) /\ Fresh(c, j)
      BY <1>1, <1>2, <1>7, <1>8, <1>10, OpenCommand DEF Fresh, rows
    <2>2. Handled(c, j, {"number", "upsert", "post"})' =>
             Handled(c, j, {"number", "upsert", "post"})
      BY <1>1, <1>7, <1>8 DEF Handled
    <2>3. j # i /\ Handled(c, j, {"upsert", "post"})' => Handled(c, j, {"upsert", "post"})
      BY <1>3, <1>7, <1>8 DEF Handled
    <2> QED
      BY <1>5, <1>7, <1>10, <2>1, <2>2, <2>3 DEF IInv, LifecycleInv, RaceInv
  <1>11. lock' \in [Issues -> Clients \cup {NoOne}]
    BY <1>2 DEF IInv, TypeOK
  <1> QED
    BY <1>1, <1>2, <1>6, <1>7, <1>9, <1>10, <1>11, StatementStep

(* A write that leaves the transaction open changes only the lock. *)
LEMMA UpsertProjectionStep ==
    ASSUME IInv, NEW c \in Clients, UpsertProjection(c)
    PROVE  IInv'
  <1> DEFINE K == IF cmd[c].kind \in Posting
                  THEN [cmd[c] EXCEPT !.stmt = "post"]
                  ELSE [cmd[c] EXCEPT !.at = @ + 1, !.stmt = "load"]
  <1>1. cmd[c].stmt = "upsert" /\ cmd[c].kind # "none"
    BY StatementIsOpen DEF UpsertProjection
  <1>2. cmd' = [cmd EXCEPT ![c] = K] /\ UNCHANGED rows /\ UNCHANGED raced
    BY DEF UpsertProjection
  <1>3. cmd[c].at \in Nat /\ cmd[c].at \in DOMAIN cmd[c].sources /\ cmd[c].sources \in Seq(Issues)
    BY <1>1, OpenCommand DEF Command
  <1>4. K \in Command
    <2>1. cmd[c] \in Command
      BY <1>1, OpenCommand
    <2>2. [cmd[c] EXCEPT !.stmt = "post"] \in Command
      BY <2>1 DEF Command
    <2>3. cmd[c].at + 1 \in Nat
      BY <1>3
    <2>4. [cmd[c] EXCEPT !.at = cmd[c].at + 1, !.stmt = "load"] \in Command
      BY <2>1, <2>3 DEF Command
    <2> QED
      BY <2>2, <2>4
  <1>5. /\ K.kind = cmd[c].kind /\ K.sources = cmd[c].sources /\ K.result = cmd[c].result
        /\ K.post = cmd[c].post /\ K.loaded = cmd[c].loaded /\ K.seq = cmd[c].seq
    BY <1>1, OpenCommand DEF Command
  <1>6. IF cmd[c].kind \in Posting
        THEN K.at = cmd[c].at /\ K.stmt = "post"
        ELSE K.at = cmd[c].at + 1 /\ K.stmt = "load" /\ cmd[c].at < Len(cmd[c].sources)
    BY <1>1, OpenCommand DEF Command, UpsertProjection
  <1> HIDE DEF K
  <1>7. cmd'[c] = K
    BY <1>2 DEF IInv, TypeOK
  <1>8. K.at \in DOMAIN K.sources
    BY <1>3, <1>5, <1>6
  <1>9. Disciplined(c)'
    <2>1. CASE cmd[c].kind \in Posting
      BY <1>1, <1>2, <1>5, <1>6, <1>7, <2>1
        DEF IInv, LifecycleInv, CommandInv, Disciplined, Sources, Current, Exists, rows,
            Posting, Merging
    <2>2. CASE cmd[c].kind \notin Posting
      BY <1>1, <1>2, <1>5, <1>6, <1>7, <1>8, <2>2
        DEF IInv, LifecycleInv, CommandInv, Disciplined, Sources, Exists, rows
    <2> QED
      BY <2>1, <2>2
  <1>10. ASSUME NEW j \in Sources(c) \ raced, Fresh(c, j)'
         PROVE  /\ Handled(c, j, {"number", "upsert", "post"})' => K.loaded[j] = projection[j]
                /\ Handled(c, j, {"upsert", "post"})' => K.seq[j] = Len(facts[j]) + 1
    <2>1. j \in Issues /\ c \in Writers(j) /\ Fresh(c, j)
      BY <1>1, <1>2, <1>5, <1>7, <1>10, OpenCommand DEF Fresh, rows
    <2>2. \A stmts \in {{"number", "upsert", "post"}, {"upsert", "post"}} :
             Handled(c, j, stmts)' => Handled(c, j, stmts)
      <3> SUFFICES ASSUME NEW stmts \in {{"number", "upsert", "post"}, {"upsert", "post"}},
                          Handled(c, j, stmts)'
                   PROVE  Handled(c, j, stmts)
        OBVIOUS
      <3>1. PICK n \in DOMAIN cmd[c].sources :
               /\ cmd[c].sources[n] = j
               /\ n < K.at \/ (n = K.at /\ K.stmt \in stmts)
        BY <1>5, <1>7 DEF Handled
      <3>2. n < cmd[c].at \/ n = cmd[c].at
        BY <1>3, <1>6, <3>1
      <3> QED
        BY <1>1, <3>1, <3>2 DEF Handled
    <2> QED
      BY <1>5, <1>10, <2>1, <2>2 DEF IInv, LifecycleInv, RaceInv
  <1>11. lock' \in [Issues -> Clients \cup {NoOne}]
    BY DEF IInv, TypeOK, UpsertProjection
  <1> QED
    BY <1>1, <1>2, <1>4, <1>5, <1>9, <1>10, <1>11, StatementStep

(* A command that ends takes its reads with it. *)
LEMMA AbortStep ==
    ASSUME IInv, NEW c \in Clients, Abort(c)
    PROVE  IInv'
  <1>1. /\ cmd' = [cmd EXCEPT ![c] = Idle]
        /\ lock' = [i \in Issues |-> IF lock[i] = c THEN NoOne ELSE lock[i]]
        /\ UNCHANGED rows /\ UNCHANGED raced
    BY DEF Abort, End
  <1>2. cmd'[c] = Idle /\ \A d \in Clients : d # c => cmd'[d] = cmd[d]
    BY <1>1 DEF IInv, TypeOK
  <1>3. TypeOK'
    BY <1>1, IdleType DEF IInv, TypeOK, rows
  <1>4. CommandInv'
    <2>1. ASSUME NEW d \in Clients, d # c
          PROVE  Disciplined(d)'
      BY <1>1, <1>2, <2>1 DEF IInv, LifecycleInv, CommandInv, Disciplined, Sources, Current,
        Exists, rows
    <2>2. Disciplined(c)'
      BY <1>2 DEF Disciplined, Idle, Started, Posting, Merging
    <2>3. \A d, e \in Clients : d # e /\ cmd'[d].result # NoIssue => cmd'[d].result # cmd'[e].result
      BY <1>2 DEF IInv, LifecycleInv, CommandInv, Idle, Started
    <2> QED
      BY <2>1, <2>2, <2>3 DEF CommandInv
  <1>5. IssueInv'
    BY <1>1, RowsKept
  <1>6. RaceInv'
    <2> SUFFICES ASSUME NEW j \in Issues \ raced, NEW d \in Writers(j)'
                 PROVE  /\ cmd'[d].kind \in Merging => Writers(j)' = {d}
                        /\ Fresh(d, j)' =>
                             /\ Handled(d, j, {"number", "upsert", "post"})' =>
                                  cmd'[d].loaded[j] = projection'[j]
                             /\ Handled(d, j, {"upsert", "post"})' =>
                                  cmd'[d].seq[j] = Len(facts'[j]) + 1
      BY <1>1 DEF RaceInv
    <2>1. Writers(j)' = Writers(j) \ {c}
      BY <1>2 DEF Writers, Sources, Idle, Started
    <2>2. d # c /\ d \in Writers(j) /\ cmd'[d] = cmd[d]
      BY <1>2, <2>1 DEF Writers
    <2> QED
      BY <1>1, <2>1, <2>2 DEF IInv, LifecycleInv, RaceInv, Fresh, Handled, rows
  <1> QED
    BY <1>3, <1>4, <1>5, <1>6 DEF IInv, LifecycleInv

(* The facts of an issue keep having a last one. *)
LEMMA AppendHasLast ==
    ASSUME TypeOK, NEW i \in Issues, NEW f \in Fact, facts'[i] = Append(facts[i], f),
           NEW m \in DOMAIN facts[i],
           \A l \in DOMAIN facts[i] : facts[i][l].seq <= facts[i][m].seq
    PROVE  \E k \in DOMAIN facts'[i] : \A l \in DOMAIN facts'[i] : facts'[i][l].seq <= facts'[i][k].seq
  <1> DEFINE n == Len(facts[i])
  <1>1. facts[i] \in Seq(Fact) /\ n \in Nat /\ DOMAIN facts[i] = 1 .. n
    BY DEF TypeOK
  <1>2. /\ DOMAIN facts'[i] = 1 .. n + 1
        /\ facts'[i][n + 1] = f
        /\ \A k \in 1 .. n : facts'[i][k] = facts[i][k]
    BY <1>1
  <1>3. \A g \in Fact : g.seq \in Nat
    BY DEF Fact
  <1>4. \A k \in 1 .. n : facts[i][k].seq \in Nat
    BY <1>1, <1>3
  <1>5. CASE f.seq <= facts[i][m].seq
    <2>1. \A l \in DOMAIN facts'[i] : facts'[i][l].seq <= facts'[i][m].seq
      BY <1>1, <1>2, <1>5
    <2> QED
      BY <1>1, <1>2, <2>1, SMTT(30)
  <1>6. CASE ~(f.seq <= facts[i][m].seq)
    <2>1. \A l \in 1 .. n : facts[i][l].seq <= f.seq
      <3>1. facts[i][m].seq \in Nat /\ f.seq \in Nat
        BY <1>1, <1>3, <1>4
      <3> TAKE l \in 1 .. n
      <3>2. facts[i][l].seq \in Nat /\ facts[i][l].seq <= facts[i][m].seq
        BY <1>1, <1>4
      <3> QED
        BY <1>6, <3>1, <3>2
    <2>2. \A l \in DOMAIN facts'[i] : facts'[i][l].seq <= facts'[i][n + 1].seq
      BY <1>1, <1>2, <1>3, <2>1
    <2> QED
      BY <1>1, <1>2, <2>2, SMTT(30)
  <1> QED
    BY <1>5, <1>6

(* A created issue replays its one fact. *)
LEMMA CreatedReplays ==
    ASSUME NEW i \in Issues, facts'[i] = <<CreatedFact>>,
           projection'[i] = [NoRow EXCEPT !.count = 1]
    PROVE  /\ Exists(i)' /\ Replays(i)' /\ Numbered(i)'
           /\ \E k \in DOMAIN facts'[i] :
                 \A l \in DOMAIN facts'[i] : facts'[i][l].seq <= facts'[i][k].seq
  <1>1. /\ DOMAIN facts'[i] = {1} /\ Len(facts'[i]) = 1 /\ facts'[i] # <<>>
        /\ facts'[i][1] = CreatedFact
    OBVIOUS
  <1>2. CreatedFact.seq = 1 /\ CreatedFact.kind = "created" /\ CreatedFact.to = Nobody
    BY DEF CreatedFact
  <1>3. /\ projection'[i].count = 1 /\ projection'[i].status = "open"
        /\ projection'[i].assigned = Nobody
    BY DEF NoRow
  <1> QED
    BY <1>1, <1>2, <1>3 DEF Exists, Replays, Numbered, LastOf

(* What an issue's row and facts are is left alone on another issue. *)
LEMMA IssueKept ==
    ASSUME NEW i \in Issues, facts'[i] = facts[i], projection'[i] = projection[i]
    PROVE  /\ Exists(i)' <=> Exists(i)
           /\ Replays(i)' <=> Replays(i)
           /\ Numbered(i)' <=> Numbered(i)
  BY DEF Exists, Replays, LastOf, Numbered

LEMMA CreateStep ==
    ASSUME IInv, NEW i \in Issues, Create(i)
    PROVE  IInv'
  <1>1. /\ ~Exists(i) /\ \A c \in Clients : cmd[c].result # i
        /\ UNCHANGED <<lock, cmd, raced>>
    BY DEF Create, Taking
  <1>2. projection[i] = NoRow
    BY <1>1 DEF IInv, LifecycleInv, IssueInv
  <1>3. /\ facts'[i] = <<CreatedFact>> /\ projection'[i] = [NoRow EXCEPT !.count = 1]
        /\ \A j \in Issues : j # i => /\ facts'[j] = facts[j]
                                      /\ projection'[j] = projection[j]
                                      /\ posts'[j] = posts[j]
    BY <1>2 DEF IInv, TypeOK, Create
  <1>4. TypeOK'
    <2>1. CreatedFact \in Fact
      BY DEF CreatedFact, Fact
    <2>2. <<CreatedFact>> \in Seq(Fact)
      BY <2>1
    <2>3. [NoRow EXCEPT !.count = 1] \in Row
      BY DEF NoRow, Row
    <2> QED
      BY <1>1, <1>2, <2>2, <2>3 DEF IInv, TypeOK, Create
  <1>5. \A c \in Clients : \A j \in Sources(c) : j # i
    BY <1>1, OpenCommand DEF IInv, LifecycleInv, CommandInv, Disciplined, Idle, Started, Sources
  <1>6. CommandInv'
    <2>1. ASSUME NEW c \in Clients
          PROVE  Disciplined(c)'
      <3>1. \A j \in Issues : j # i => (Exists(j)' <=> Exists(j))
        BY <1>3 DEF Exists
      <3>2. \A j \in Sources(c) : j \in Issues /\ (cmd[c].kind # "none" => Exists(j)')
        BY <1>5, <3>1, OpenCommand DEF IInv, LifecycleInv, CommandInv, Disciplined, Idle,
          Started, Sources
      <3>3. cmd[c].kind # "none" => posts'[Current(c)] = posts[Current(c)]
        BY <1>3, <1>5, OpenCommand
      <3>4. Disciplined(c)
        BY DEF IInv, LifecycleInv, CommandInv
      <3>5. cmd[c].kind \in Merging => ~Exists(cmd[c].result)'
        BY <1>1, <3>1, <3>4 DEF Disciplined
      <3> QED
        BY <1>1, <3>2, <3>3, <3>4, <3>5 DEF Disciplined, Sources, Current, Posting
    <2> QED
      BY <1>1, <2>1 DEF IInv, LifecycleInv, CommandInv
  <1>7. IssueInv'
    <2>2. ASSUME NEW j \in Issues, j # i
          PROVE  /\ ~Exists(j)' => projection'[j] = NoRow
                 /\ Exists(j)' => \E k \in DOMAIN facts'[j] :
                       \A l \in DOMAIN facts'[j] : facts'[j][l].seq <= facts'[j][k].seq
                 /\ j \notin raced' => Replays(j)' /\ Numbered(j)'
      BY <1>1, <1>3, <2>2, IssueKept DEF IInv, LifecycleInv, IssueInv
    <2> QED
      BY <1>3, <2>2, CreatedReplays DEF IssueInv
  <1>8. RaceInv'
    <2> SUFFICES ASSUME NEW j \in Issues \ raced, NEW c \in Writers(j)
                 PROVE  /\ cmd[c].kind \in Merging => Writers(j) = {c}
                        /\ Fresh(c, j)' =>
                             /\ Handled(c, j, {"number", "upsert", "post"}) =>
                                  cmd[c].loaded[j] = projection'[j]
                             /\ Handled(c, j, {"upsert", "post"}) =>
                                  cmd[c].seq[j] = Len(facts'[j]) + 1
      BY <1>1 DEF RaceInv, Writers, Sources, Handled
    <2>1. j # i
      BY <1>5 DEF Writers
    <2> QED
      BY <1>1, <1>3, <2>1 DEF IInv, LifecycleInv, RaceInv, Fresh
  <1> QED
    BY <1>4, <1>6, <1>7, <1>8 DEF IInv, LifecycleInv

(* What a commit of facts does to the rows, issue by issue. *)
LEMMA CommitIssue ==
    ASSUME IInv, NEW c \in Clients, cmd[c].kind \in Posting \cup Merging,
           CommitFacts(c), UNCHANGED raced,
           \A i \in Sources(c) \ raced : /\ Fresh(c, i)
                                         /\ Handled(c, i, {"number", "upsert", "post"})
                                         /\ Handled(c, i, {"upsert", "post"})
    PROVE  /\ facts' \in [Issues -> Seq(Fact)] /\ projection' \in [Issues -> Row]
           /\ IssueInv'
           /\ \A i \in Issues : i \notin Sources(c) /\ i # cmd[c].result =>
                                  facts'[i] = facts[i] /\ projection'[i] = projection[i]
           /\ \A i \in Issues : Exists(i)' <=> (Exists(i) \/ i = cmd[c].result)
  <1> DEFINE kind == FactOf[cmd[c].kind]
             F(i) == [seq |-> cmd[c].seq[i], kind |-> kind, to |-> cmd[c].to]
             r == cmd[c].result
  <1>1. /\ cmd[c].to \in People \cup {Nobody}
        /\ cmd[c].seq \in [Issues -> Nat] /\ cmd[c].loaded \in [Issues -> Row]
        /\ cmd[c].kind # "none"
    <2>1. cmd[c] \in Command
      BY DEF IInv, TypeOK
    <2> QED
      BY <2>1 DEF Command, Posting, Merging
  <1>2. kind \in {"assigned", "closed", "reopened"}
    BY DEF FactOf, Posting, Merging
  <1>3. \A i \in Issues : F(i) \in Fact
    BY <1>1, <1>2 DEF Fact
  <1>4. /\ r \notin Issues \/ ~Exists(r)
        /\ \A i \in Sources(c) : i \in Issues /\ Exists(i) /\ c \in Writers(i)
    <2>1. r \notin Issues \/ ~Exists(r)
      BY LifecycleAssumption DEF IInv, LifecycleInv, CommandInv, Disciplined
    <2> QED
      BY <1>1, <2>1, OpenCommand
  <1>5. /\ \A i \in Sources(c) : /\ facts'[i] = Append(facts[i], F(i))
                                 /\ projection'[i] = Applied(cmd[c].loaded[i], kind, cmd[c].to)
        /\ r \in Issues => /\ facts'[r] = <<CreatedFact>>
                           /\ projection'[r] = [NoRow EXCEPT !.count = 1]
        /\ \A i \in Issues : i \notin Sources(c) /\ i # r =>
                               facts'[i] = facts[i] /\ projection'[i] = projection[i]
        /\ DOMAIN facts' = Issues /\ DOMAIN projection' = Issues
        /\ facts' = [i \in Issues |-> facts'[i]] /\ projection' = [i \in Issues |-> projection'[i]]
    BY <1>4 DEF CommitFacts
  <1> HIDE DEF r, kind, F
  <1>6. \A i \in Issues : facts'[i] \in Seq(Fact) /\ projection'[i] \in Row
    <2>1. ASSUME NEW i \in Sources(c)
          PROVE  facts'[i] \in Seq(Fact) /\ projection'[i] \in Row
      <3>1. facts[i] \in Seq(Fact) /\ F(i) \in Fact /\ cmd[c].loaded[i] \in Row
        BY <1>1, <1>3, <1>4 DEF IInv, TypeOK
      <3>2. Applied(cmd[c].loaded[i], kind, cmd[c].to) \in Row
        BY <1>1, <3>1, AppliedType
      <3>3. Append(facts[i], F(i)) \in Seq(Fact)
        BY <3>1
      <3> QED
        BY <1>5, <3>2, <3>3
    <2>2. ASSUME r \in Issues
          PROVE  facts'[r] \in Seq(Fact) /\ projection'[r] \in Row
      <3>1. CreatedFact \in Fact
        BY DEF CreatedFact, Fact
      <3>2. <<CreatedFact>> \in Seq(Fact)
        BY <3>1
      <3>3. [NoRow EXCEPT !.count = 1] \in Row
        BY DEF NoRow, Row
      <3> QED
        BY <1>5, <2>2, <3>2, <3>3
    <2> QED
      BY <1>5, <2>1, <2>2 DEF IInv, TypeOK
  <1>7. facts' \in [Issues -> Seq(Fact)] /\ projection' \in [Issues -> Row]
    BY <1>5, <1>6
  <1>8. \A i \in Sources(c) : Exists(i)'
    <2> TAKE i \in Sources(c)
    <2>1. facts[i] \in Seq(Fact)
      BY <1>4 DEF IInv, TypeOK
    <2>2. Append(facts[i], F(i)) # <<>>
      BY <2>1
    <2> QED
      BY <1>5, <2>2 DEF Exists
  <1>9. \A i \in Issues : Exists(i)' <=> (Exists(i) \/ i = r)
    BY <1>4, <1>5, <1>8, CreatedReplays DEF Exists
  <1>10. ASSUME NEW i \in Issues
         PROVE  /\ ~Exists(i)' => projection'[i] = NoRow
                /\ Exists(i)' => \E k \in DOMAIN facts'[i] :
                      \A l \in DOMAIN facts'[i] : facts'[i][l].seq <= facts'[i][k].seq
                /\ i \notin raced' => Replays(i)' /\ Numbered(i)'
    <2>1. CASE i \in Sources(c)
      <3>1. PICK m \in DOMAIN facts[i] :
               \A l \in DOMAIN facts[i] : facts[i][l].seq <= facts[i][m].seq
        BY <1>4, <2>1 DEF IInv, LifecycleInv, IssueInv
      <3>2. \E k \in DOMAIN facts'[i] :
               \A l \in DOMAIN facts'[i] : facts'[i][l].seq <= facts'[i][k].seq
        BY <1>3, <1>5, <2>1, <3>1, AppendHasLast DEF IInv
      <3>3. ASSUME i \notin raced
            PROVE  Replays(i)' /\ Numbered(i)'
        <4>1. c \in Writers(i) /\ Exists(i) /\ Replays(i) /\ Numbered(i)
          BY <1>4, <2>1, <3>3 DEF IInv, LifecycleInv, IssueInv
        <4>2. cmd[c].loaded[i] = projection[i] /\ cmd[c].seq[i] = Len(facts[i]) + 1
          BY <2>1, <3>3, <4>1 DEF IInv, LifecycleInv, RaceInv
        <4>3. /\ facts'[i] = Append(facts[i], [seq |-> Len(facts[i]) + 1, kind |-> kind,
                                               to |-> cmd[c].to])
              /\ projection'[i] = Applied(projection[i], kind, cmd[c].to)
          BY <1>5, <2>1, <4>2 DEF F
        <4> QED
          BY <1>1, <1>2, <4>1, <4>3, AppendReplays DEF IInv
      <3> QED
        BY <1>8, <2>1, <3>2, <3>3
    <2>2. CASE i = r
      BY <1>5, <2>2, CreatedReplays
    <2>3. CASE i \notin Sources(c) /\ i # r
      BY <1>5, <2>3, IssueKept DEF IInv, LifecycleInv, IssueInv
    <2> QED
      BY <2>1, <2>2, <2>3
  <1>11. IssueInv'
    BY <1>10 DEF IssueInv
  <1> QED
    BY <1>5, <1>7, <1>9, <1>11 DEF r

(* Whoever else was writing on the issue has numbered a post that is now   *)
(* taken, and will fail.                                                   *)
LEMMA InsertPostStep ==
    ASSUME IInv, NEW c \in Clients, InsertPostAndCommit(c)
    PROVE  IInv'
  <1> DEFINE i == Current(c)
  <1>1. /\ cmd[c].stmt = "post" /\ cmd[c].kind # "none" /\ ~(cmd[c].post <= posts[i])
        /\ posts' = [posts EXCEPT ![i] = cmd[c].post]
        /\ CommitFacts(c) /\ UNCHANGED raced
        /\ cmd' = [cmd EXCEPT ![c] = Idle]
        /\ lock' = [j \in Issues |-> IF lock[j] = c THEN NoOne ELSE lock[j]]
    BY StatementIsOpen DEF InsertPostAndCommit, End, Taken
  <1>2. /\ cmd[c] \in Command /\ i \in Issues /\ i \in Sources(c)
        /\ cmd[c].at \in DOMAIN cmd[c].sources /\ cmd[c].sources \in Seq(Issues)
        /\ i = cmd[c].sources[cmd[c].at]
    BY <1>1, OpenCommand DEF Current
  <1>3. cmd[c].kind \in Posting
    BY <1>1, <1>2 DEF Command, IInv, LifecycleInv, CommandInv, Disciplined
  <1>4. /\ Len(cmd[c].sources) = 1 /\ cmd[c].result = NoIssue
        /\ cmd[c].post <= posts[i] + 1
    BY <1>1, <1>3 DEF IInv, LifecycleInv, CommandInv, Disciplined
  <1>5. posts[i] \in Nat /\ cmd[c].post = posts[i] + 1
    BY <1>1, <1>2, <1>4 DEF IInv, TypeOK, Command
  <1>6. Sources(c) = {i} /\ c \in Writers(i)
    BY <1>2, <1>4 DEF Sources, Writers
  <1>7. /\ Fresh(c, i)
        /\ Handled(c, i, {"number", "upsert", "post"}) /\ Handled(c, i, {"upsert", "post"})
    BY <1>1, <1>2, <1>5 DEF Fresh, Handled
  <1> HIDE DEF i
  <1>8. /\ facts' \in [Issues -> Seq(Fact)] /\ projection' \in [Issues -> Row]
        /\ IssueInv'
        /\ \A j \in Issues : j # i => facts'[j] = facts[j] /\ projection'[j] = projection[j]
        /\ \A j \in Issues : Exists(j)' <=> Exists(j)
    BY <1>1, <1>3, <1>4, <1>6, <1>7, CommitIssue, LifecycleAssumption
  <1>9. /\ cmd'[c] = Idle /\ \A d \in Clients : d # c => cmd'[d] = cmd[d]
        /\ posts'[i] = posts[i] + 1 /\ \A j \in Issues : j # i => posts'[j] = posts[j]
    BY <1>1, <1>2, <1>5 DEF IInv, TypeOK
  <1>10. TypeOK'
    <2>1. posts[i] + 1 \in Nat
      BY <1>5
    <2>2. posts' \in [Issues -> Nat]
      BY <1>1, <1>5, <2>1 DEF IInv, TypeOK
    <2>3. cmd' \in [Clients -> Command] /\ lock' \in [Issues -> Clients \cup {NoOne}]
      BY <1>1, IdleType DEF IInv, TypeOK
    <2> QED
      BY <1>1, <1>8, <2>2, <2>3 DEF IInv, TypeOK
  <1>11. CommandInv'
    <2>1. ASSUME NEW d \in Clients, d # c
          PROVE  Disciplined(d)'
      <3>1. cmd'[d] = cmd[d] /\ Disciplined(d) /\ Sources(d)' = Sources(d)
        BY <1>9, <2>1 DEF IInv, LifecycleInv, CommandInv, Sources
      <3>2. ASSUME NEW j \in Issues
            PROVE  posts[j] \in Nat /\ posts'[j] \in Nat /\ posts[j] <= posts'[j]
        <4>1. posts[j] \in Nat
          BY DEF IInv, TypeOK
        <4>2. CASE j = i
          BY <1>5, <1>9, <4>2
        <4>3. CASE j # i
          BY <1>9, <4>1, <4>3
        <4> QED
          BY <4>2, <4>3
      <3>3. cmd[d].kind \in Posting => cmd[d].kind # "none"
        BY DEF Posting
      <3>4. cmd[d].kind \in Posting /\ cmd[d].stmt # "posts" =>
               cmd'[d].post <= posts'[Current(d)'] + 1
        <4> SUFFICES ASSUME cmd[d].kind \in Posting, cmd[d].stmt # "posts"
                     PROVE  cmd'[d].post <= posts'[Current(d)'] + 1
          OBVIOUS
        <4>1. Current(d)' = Current(d) /\ Current(d) \in Issues /\ cmd[d].post \in Nat
          BY <3>1, <3>3, OpenCommand DEF Current, Command
        <4>2. cmd[d].post <= posts[Current(d)] + 1
          BY <3>1 DEF Disciplined
        <4> DEFINE before == posts[Current(d)]
                   after == posts'[Current(d)]
        <4>3. before \in Nat /\ after \in Nat /\ before <= after
          BY <3>2, <4>1
        <4> HIDE DEF before, after
        <4>4. cmd[d].post <= after + 1
          BY <4>1, <4>2, <4>3 DEF before
        <4> QED
          BY <3>1, <4>1, <4>4 DEF after
      <3>5. \A j \in Sources(d) : cmd[d].kind # "none" => j \in Issues
        BY OpenCommand
      <3> QED
        BY <1>8, <3>1, <3>4, <3>5 DEF Disciplined
    <2>2. Disciplined(c)'
      BY <1>9 DEF Disciplined, Idle, Started, Posting, Merging
    <2>3. \A d, e \in Clients : d # e /\ cmd'[d].result # NoIssue => cmd'[d].result # cmd'[e].result
      BY <1>9 DEF IInv, LifecycleInv, CommandInv, Idle, Started
    <2> QED
      BY <2>1, <2>2, <2>3 DEF CommandInv
  <1>12. RaceInv'
    <2> SUFFICES ASSUME NEW j \in Issues \ raced, NEW d \in Writers(j)'
                 PROVE  /\ cmd'[d].kind \in Merging => Writers(j)' = {d}
                        /\ Fresh(d, j)' =>
                             /\ Handled(d, j, {"number", "upsert", "post"})' =>
                                  cmd'[d].loaded[j] = projection'[j]
                             /\ Handled(d, j, {"upsert", "post"})' =>
                                  cmd'[d].seq[j] = Len(facts'[j]) + 1
      BY <1>1 DEF RaceInv
    <2>1. Writers(j)' = Writers(j) \ {c}
      BY <1>9 DEF Writers, Sources, Idle, Started
    <2>2. d \in Clients /\ d # c /\ d \in Writers(j) /\ cmd'[d] = cmd[d] /\ j \in Sources(d)
      BY <1>9, <2>1 DEF Writers
    <2>3. cmd'[d].kind \in Merging => Writers(j)' = {d}
      BY <2>1, <2>2 DEF IInv, LifecycleInv, RaceInv
    <2>4. CASE j # i
      BY <1>8, <1>9, <2>2, <2>3, <2>4, SMTT(30) DEF IInv, LifecycleInv, RaceInv, Fresh, Handled
    <2>5. CASE j = i
      <3>1. cmd[d].kind \notin Merging
        BY <1>6, <2>2, <2>5 DEF IInv, LifecycleInv, RaceInv
      <3>2. Disciplined(d) /\ cmd[d] \in Command
        BY <2>2 DEF IInv, TypeOK, LifecycleInv, CommandInv
      <3>3. cmd[d].kind \in Posting
        <4>1. cmd[d].kind # "none"
          BY <2>2, <3>2 DEF Disciplined, Sources, Idle, Started
        <4> QED
          BY <3>1, <3>2, <4>1 DEF Command
      <3>4. /\ Len(cmd[d].sources) = 1 /\ cmd[d].sources \in Seq(Issues)
            /\ cmd[d].at \in DOMAIN cmd[d].sources /\ j = Current(d)
        BY <2>2, <3>2, <3>3 DEF Disciplined, Command, Posting, Sources, Current
      <3>5. CASE cmd[d].stmt = "posts"
        BY <2>2, <2>3, <3>4, <3>5 DEF Handled
      <3>6. CASE cmd[d].stmt # "posts"
        <4>1. cmd[d].post <= posts[i] + 1
          BY <2>5, <3>2, <3>3, <3>4, <3>6 DEF Disciplined
        <4>2. ~Fresh(d, j)'
          BY <1>5, <1>9, <2>2, <2>5, <3>1, <3>2, <4>1 DEF Fresh, Command
        <4> QED
          BY <2>3, <4>2
      <3> QED
        BY <3>5, <3>6
    <2> QED
      BY <2>4, <2>5
  <1> QED
    BY <1>8, <1>10, <1>11, <1>12 DEF IInv, LifecycleInv

(* A merge that raced with nobody was alone on its sources.                *)
LEMMA MergeStep ==
    ASSUME IInv, NEW c \in Clients, MergeAndCommit(c)
    PROVE  IInv'
  <1> DEFINE r == cmd[c].result
  <1>1. /\ cmd[c].stmt = "upsert" /\ cmd[c].kind # "none"
        /\ cmd[c].kind \in Merging /\ cmd[c].at = Len(cmd[c].sources)
        /\ posts' = [posts EXCEPT ![r] = 1]
        /\ CommitFacts(c) /\ UNCHANGED raced
        /\ cmd' = [cmd EXCEPT ![c] = Idle]
        /\ lock' = [j \in Issues |-> IF lock[j] = c THEN NoOne ELSE lock[j]]
    BY StatementIsOpen DEF MergeAndCommit, End
  <1>2. /\ cmd[c] \in Command /\ cmd[c].sources \in Seq(Issues)
        /\ \A j \in Sources(c) : j \in Issues /\ Exists(j) /\ c \in Writers(j)
    BY <1>1, OpenCommand
  <1>3. r \in Issues /\ ~Exists(r)
    BY <1>1 DEF IInv, LifecycleInv, CommandInv, Disciplined
  <1>4. \A j \in Sources(c) :
           /\ Fresh(c, j)
           /\ Handled(c, j, {"number", "upsert", "post"}) /\ Handled(c, j, {"upsert", "post"})
    <2>1. \A n \in DOMAIN cmd[c].sources : n < cmd[c].at \/ n = cmd[c].at
      BY <1>1, <1>2
    <2> QED
      BY <1>1, <2>1 DEF Fresh, Handled, Sources
  <1>5. /\ facts' \in [Issues -> Seq(Fact)] /\ projection' \in [Issues -> Row]
        /\ IssueInv'
        /\ \A j \in Issues : j \notin Sources(c) /\ j # r =>
                               facts'[j] = facts[j] /\ projection'[j] = projection[j]
        /\ \A j \in Issues : Exists(j)' <=> (Exists(j) \/ j = r)
    BY <1>1, <1>4, CommitIssue
  <1> HIDE DEF r
  <1>6. /\ cmd'[c] = Idle /\ \A d \in Clients : d # c => cmd'[d] = cmd[d]
        /\ \A j \in Issues : j # r => posts'[j] = posts[j]
    BY <1>1, <1>3 DEF IInv, TypeOK
  <1>7. TypeOK'
    BY <1>1, <1>5, IdleType DEF IInv, TypeOK
  <1>8. CommandInv'
    <2>1. ASSUME NEW d \in Clients, d # c
          PROVE  Disciplined(d)'
      <3>1. /\ cmd'[d] = cmd[d] /\ Disciplined(d) /\ Sources(d)' = Sources(d)
            /\ Current(d)' = Current(d)
        BY <1>6, <2>1 DEF IInv, LifecycleInv, CommandInv, Sources, Current
      <3>2. ASSUME cmd[d].kind # "none"
            PROVE  \A j \in Sources(d) : j # r /\ Exists(j)'
        BY <1>3, <1>5, <3>2, OpenCommand
      <3>3. cmd[d].kind \in Posting => posts'[Current(d)] = posts[Current(d)]
        BY <1>6, <3>2, OpenCommand DEF Posting
      <3>4. cmd[d].kind \in Merging => cmd[d].result # r
        <4>1. r # NoIssue
          BY <1>3, LifecycleAssumption
        <4> QED
          BY <2>1, <4>1 DEF IInv, LifecycleInv, CommandInv, r
      <3>5. cmd[d].kind \in Merging => ~Exists(cmd[d].result)'
        BY <1>5, <3>1, <3>4 DEF Disciplined
      <3> QED
        BY <3>1, <3>2, <3>3, <3>5 DEF Disciplined
    <2>2. Disciplined(c)'
      BY <1>6 DEF Disciplined, Idle, Started, Posting, Merging
    <2>3. \A d, e \in Clients : d # e /\ cmd'[d].result # NoIssue => cmd'[d].result # cmd'[e].result
      BY <1>6 DEF IInv, LifecycleInv, CommandInv, Idle, Started
    <2> QED
      BY <2>1, <2>2, <2>3 DEF CommandInv
  <1>9. RaceInv'
    <2> SUFFICES ASSUME NEW j \in Issues \ raced, NEW d \in Writers(j)'
                 PROVE  /\ cmd'[d].kind \in Merging => Writers(j)' = {d}
                        /\ Fresh(d, j)' =>
                             /\ Handled(d, j, {"number", "upsert", "post"})' =>
                                  cmd'[d].loaded[j] = projection'[j]
                             /\ Handled(d, j, {"upsert", "post"})' =>
                                  cmd'[d].seq[j] = Len(facts'[j]) + 1
      BY <1>1 DEF RaceInv
    <2>1. Writers(j)' = Writers(j) \ {c}
      BY <1>6 DEF Writers, Sources, Idle, Started
    <2>2. d \in Clients /\ d # c /\ d \in Writers(j) /\ cmd'[d] = cmd[d] /\ j \in Sources(d)
      BY <1>6, <2>1 DEF Writers
    <2>3. j \notin Sources(c)
      BY <1>1, <1>2, <2>2 DEF IInv, LifecycleInv, RaceInv
    <2>4. j # r
      <3>1. cmd[d].kind # "none"
        BY <2>2 DEF IInv, LifecycleInv, CommandInv, Disciplined, Sources, Idle, Started
      <3> QED
        BY <1>3, <2>2, <3>1, OpenCommand
    <2>5. cmd'[d].kind \in Merging => Writers(j)' = {d}
      BY <2>1, <2>2 DEF IInv, LifecycleInv, RaceInv
    <2> QED
      BY <1>5, <1>6, <2>2, <2>3, <2>4, <2>5 DEF IInv, LifecycleInv, RaceInv, Fresh, Handled
  <1> QED
    BY <1>5, <1>7, <1>8, <1>9 DEF IInv, LifecycleInv

(* Every step keeps the invariant. *)
LEMMA NextStep == IInv /\ [Next]_vars => IInv'
  <1> SUFFICES ASSUME IInv, [Next]_vars
               PROVE  IInv'
    OBVIOUS
  <1>1. ASSUME NEW i \in Issues, Create(i)
        PROVE  IInv'
    BY <1>1, CreateStep
  <1>2. ASSUME NEW c \in Clients, NEW i \in Issues, NEW kind \in Posting,
               NEW to \in People \cup {Nobody}, Begin(c, i, kind, to)
        PROVE  IInv'
    BY <1>2, BeginStep
  <1>3. ASSUME NEW c \in Clients, BeginCombine(c)
        PROVE  IInv'
    <2>1. PICK i, j, result \in Issues : i # j /\ BeginMerge(c, "combine", <<i, j>>, result)
      BY <1>3 DEF BeginCombine
    <2> DEFINE sources == <<i, j>>
    <2>2. /\ sources \in Seq(Issues) /\ sources # <<>>
          /\ \A m, n \in DOMAIN sources : sources[m] = sources[n] => m = n
      BY <2>1
    <2>3. "combine" \in Merging
      BY DEF Merging
    <2> HIDE DEF sources
    <2>4. BeginMerge(c, "combine", sources, result)
      BY <2>1 DEF sources
    <2> QED
      BY <2>2, <2>3, <2>4, BeginMergeStep
  <1>4. ASSUME NEW c \in Clients, BeginSplit(c)
        PROVE  IInv'
    <2>1. PICK i, result \in Issues : BeginMerge(c, "split", <<i>>, result)
      BY <1>4 DEF BeginSplit
    <2> DEFINE sources == <<i>>
    <2>2. /\ sources \in Seq(Issues) /\ sources # <<>>
          /\ \A m, n \in DOMAIN sources : sources[m] = sources[n] => m = n
      OBVIOUS
    <2>3. "split" \in Merging
      BY DEF Merging
    <2> HIDE DEF sources
    <2>4. BeginMerge(c, "split", sources, result)
      BY <2>1 DEF sources
    <2> QED
      BY <2>2, <2>3, <2>4, BeginMergeStep
  <1>5. ASSUME NEW c \in Clients, Statement(c)
        PROVE  IInv'
    BY <1>5, ReadPostsStep, LoadProjectionStep, NumberFactStep, UpsertProjectionStep,
      InsertPostStep, MergeStep DEF Statement
  <1>6. ASSUME NEW c \in Clients, Abort(c)
        PROVE  IInv'
    BY <1>6, AbortStep
  <1>7. CASE UNCHANGED vars
    <2>1. UNCHANGED rows /\ UNCHANGED <<facts, projection, posts, lock, cmd, raced>>
      BY <1>7 DEF vars, rows
    <2>2. TypeOK'
      BY <2>1 DEF IInv, TypeOK
    <2>3. CommandInv'
      BY <2>1 DEF IInv, LifecycleInv, CommandInv, Disciplined, Exists, Sources, Current
    <2>4. IssueInv'
      BY <2>1, RowsKept
    <2>5. RaceInv'
      BY <2>1 DEF IInv, LifecycleInv, RaceInv, Writers, Sources, Fresh, Handled
    <2> QED
      BY <2>2, <2>3, <2>4, <2>5 DEF IInv, LifecycleInv
  <1> QED
    BY <1>1, <1>2, <1>3, <1>4, <1>5, <1>6, <1>7 DEF Next

-----------------------------------------------------------------------------
(* What the projection shows, raced or not: nothing is invented, because   *)
(* facts only grow and every row a command holds was once a projection.    *)

ShownBy(row, fs) ==
    /\ row.count <= Len(fs)
    /\ row.status = "closed" => \E k \in DOMAIN fs : fs[k].kind = "closed"
    /\ row.assigned # Nobody =>
          \E k \in DOMAIN fs : fs[k].kind = "assigned" /\ fs[k].to = row.assigned

HonestInv ==
    \A i \in Issues : /\ ShownBy(projection[i], facts[i])
                      /\ \A c \in Clients : ShownBy(cmd[c].loaded[i], facts[i])

(* The empty row shows nothing. *)
LEMMA NoRowShown == \A fs \in Seq(Fact) : ShownBy(NoRow, fs)
  BY DEF ShownBy, NoRow

(* What is shown by a history is shown by a longer one. *)
LEMMA ShownLonger ==
    ASSUME NEW fs \in Seq(Fact), NEW f \in Fact, NEW row \in Row, ShownBy(row, fs)
    PROVE  ShownBy(row, Append(fs, f))
  <1> DEFINE gs == Append(fs, f)
  <1>1. /\ Len(fs) \in Nat /\ Len(gs) = Len(fs) + 1
        /\ \A k \in DOMAIN fs : k \in DOMAIN gs /\ gs[k] = fs[k]
    OBVIOUS
  <1>2. row.count \in Nat
    BY DEF Row
  <1> HIDE DEF gs
  <1>3. ShownBy(row, gs)
    BY <1>1, <1>2 DEF ShownBy
  <1> QED
    BY <1>3 DEF gs

(* The projection a fact gives is shown by the history with that fact. *)
LEMMA ShownApplied ==
    ASSUME NEW fs \in Seq(Fact), NEW row \in Row, ShownBy(row, fs), NEW n \in Nat,
           NEW kind \in {"assigned", "closed", "reopened"}, NEW to \in People \cup {Nobody}
    PROVE  ShownBy(Applied(row, kind, to), Append(fs, [seq |-> n, kind |-> kind, to |-> to]))
  <1> DEFINE f == [seq |-> n, kind |-> kind, to |-> to]
             gs == Append(fs, f)
             new == Applied(row, kind, to)
  <1>1. f \in Fact /\ f.kind = kind /\ f.to = to
    BY DEF Fact
  <1>2. /\ Len(fs) \in Nat /\ Len(gs) = Len(fs) + 1
        /\ Len(gs) \in DOMAIN gs /\ gs[Len(gs)] = f
    BY <1>1
  <1>3. ShownBy(row, gs)
    BY <1>1, ShownLonger
  <1>4. /\ new.count = row.count + 1 /\ row.count \in Nat
        /\ new.status = "closed" => kind = "closed" \/ row.status = "closed"
        /\ new.assigned = IF kind = "assigned" THEN to ELSE row.assigned
    BY DEF Applied, Row
  <1>5. row.count <= Len(fs)
    BY DEF ShownBy
  <1> HIDE DEF f, gs, new
  <1>6. new.count <= Len(gs)
    BY <1>2, <1>4, <1>5
  <1>7. new.status = "closed" => \E k \in DOMAIN gs : gs[k].kind = "closed"
    BY <1>1, <1>2, <1>3, <1>4 DEF ShownBy
  <1>8. new.assigned # Nobody =>
           \E k \in DOMAIN gs : gs[k].kind = "assigned" /\ gs[k].to = new.assigned
    BY <1>1, <1>2, <1>3, <1>4 DEF ShownBy
  <1>9. ShownBy(new, gs)
    BY <1>6, <1>7, <1>8 DEF ShownBy
  <1> QED
    BY <1>9 DEF f, gs, new

(* The first fact takes the place of no fact. *)
LEMMA ShownCreated ==
    ASSUME NEW row \in Row, ShownBy(row, <<>>)
    PROVE  /\ ShownBy(row, <<CreatedFact>>)
           /\ ShownBy([NoRow EXCEPT !.count = 1], <<CreatedFact>>)
  <1>1. CreatedFact \in Fact
    BY DEF CreatedFact, Fact
  <1>2. <<>> \in Seq(Fact) /\ Append(<<>>, CreatedFact) = <<CreatedFact>>
    OBVIOUS
  <1> DEFINE none == <<>>
  <1>3. none \in Seq(Fact) /\ ShownBy(row, none)
    BY <1>2
  <1> HIDE DEF none
  <1>4. ShownBy(row, Append(none, CreatedFact))
    BY <1>1, <1>3, ShownLonger
  <1>5. ShownBy([NoRow EXCEPT !.count = 1], <<CreatedFact>>)
    BY DEF ShownBy, NoRow
  <1> QED
    BY <1>2, <1>4, <1>5 DEF none

(* Nothing is shown at first. *)
LEMMA InitHonest == Init => HonestInv
  <1> SUFFICES ASSUME Init, NEW i \in Issues
               PROVE  /\ ShownBy(projection[i], facts[i])
                      /\ \A c \in Clients : ShownBy(cmd[c].loaded[i], facts[i])
    BY DEF HonestInv
  <1>1. facts[i] = <<>> /\ projection[i] = NoRow /\ \A c \in Clients : cmd[c].loaded[i] = NoRow
    BY DEF Init, Idle, Started
  <1>2. <<>> \in Seq(Fact)
    OBVIOUS
  <1> QED
    BY <1>1, <1>2, NoRowShown

(* A step that changes no row, of a client that holds nothing new. *)
LEMMA HeldStep ==
    ASSUME IInv, HonestInv, UNCHANGED rows, NEW c \in Clients, NEW K,
           cmd' = [cmd EXCEPT ![c] = K],
           \A i \in Issues : K.loaded[i] \in {NoRow, projection[i], cmd[c].loaded[i]}
    PROVE  HonestInv'
  <1> SUFFICES ASSUME NEW i \in Issues
               PROVE  /\ ShownBy(projection'[i], facts'[i])
                      /\ \A d \in Clients : ShownBy(cmd'[d].loaded[i], facts'[i])
    BY DEF HonestInv
  <1>1. /\ projection'[i] = projection[i] /\ facts'[i] = facts[i] /\ facts[i] \in Seq(Fact)
        /\ cmd'[c] = K /\ \A d \in Clients : d # c => cmd'[d] = cmd[d]
    BY DEF rows, IInv, TypeOK
  <1>2. ShownBy(K.loaded[i], facts[i])
    BY <1>1, NoRowShown DEF HonestInv
  <1> QED
    BY <1>1, <1>2 DEF HonestInv

(* A step that changes rows, and makes no client hold anything new. *)
LEMMA RowsStep ==
    ASSUME IInv, HonestInv,
           \A c \in Clients : cmd'[c] \in {Idle, cmd[c]},
           \A i \in Issues :
              \/ facts'[i] = facts[i] /\ projection'[i] = projection[i]
              \/ /\ facts[i] = <<>> /\ facts'[i] = <<CreatedFact>>
                 /\ projection'[i] = [NoRow EXCEPT !.count = 1]
              \/ \E row \in Row, n \in Nat, kind \in {"assigned", "closed", "reopened"},
                    to \in People \cup {Nobody} :
                    /\ ShownBy(row, facts[i])
                    /\ facts'[i] = Append(facts[i], [seq |-> n, kind |-> kind, to |-> to])
                    /\ projection'[i] = Applied(row, kind, to)
    PROVE  HonestInv'
  <1> SUFFICES ASSUME NEW i \in Issues
               PROVE  /\ ShownBy(projection'[i], facts'[i])
                      /\ \A d \in Clients : ShownBy(cmd'[d].loaded[i], facts'[i])
    BY DEF HonestInv
  <1>1. /\ facts[i] \in Seq(Fact) /\ projection[i] \in Row
        /\ \A d \in Clients : cmd[d].loaded[i] \in Row
    <2>1. \A d \in Clients : cmd[d] \in Command
      BY DEF IInv, TypeOK
    <2>2. \A K \in Command : K.loaded \in [Issues -> Row]
      BY DEF Command
    <2> QED
      BY <2>1, <2>2 DEF IInv, TypeOK
  <1>2. \A d \in Clients : /\ cmd'[d].loaded[i] \in Row
                           /\ ShownBy(cmd'[d].loaded[i], facts[i])
    <2>1. Idle.loaded[i] = NoRow
      BY DEF Idle, Started
    <2>2. \A d \in Clients : ShownBy(cmd[d].loaded[i], facts[i])
      BY DEF HonestInv
    <2>3. ShownBy(NoRow, facts[i])
      BY <1>1, NoRowShown
    <2> QED
      BY <1>1, <2>1, <2>2, <2>3, NoRowType
  <1>3. CASE facts'[i] = facts[i] /\ projection'[i] = projection[i]
    BY <1>2, <1>3 DEF HonestInv
  <1>4. CASE /\ facts[i] = <<>> /\ facts'[i] = <<CreatedFact>>
             /\ projection'[i] = [NoRow EXCEPT !.count = 1]
    <2>1. ShownBy(projection'[i], facts'[i])
      BY <1>1, <1>4, ShownCreated DEF HonestInv
    <2>2. ASSUME NEW d \in Clients
          PROVE  ShownBy(cmd'[d].loaded[i], facts'[i])
      BY <1>2, <1>4, ShownCreated
    <2> QED
      BY <2>1, <2>2
  <1>5. ASSUME NEW row \in Row, NEW n \in Nat, NEW kind \in {"assigned", "closed", "reopened"},
               NEW to \in People \cup {Nobody}, ShownBy(row, facts[i]),
               facts'[i] = Append(facts[i], [seq |-> n, kind |-> kind, to |-> to]),
               projection'[i] = Applied(row, kind, to)
        PROVE  /\ ShownBy(projection'[i], facts'[i])
               /\ \A d \in Clients : ShownBy(cmd'[d].loaded[i], facts'[i])
    <2>1. ShownBy(projection'[i], facts'[i])
      BY <1>1, <1>5, ShownApplied
    <2>2. [seq |-> n, kind |-> kind, to |-> to] \in Fact
      BY DEF Fact
    <2>3. ASSUME NEW d \in Clients
          PROVE  ShownBy(cmd'[d].loaded[i], facts'[i])
      BY <1>1, <1>2, <1>5, <2>2, ShownLonger
    <2> QED
      BY <2>1, <2>3
  <1> QED
    BY <1>3, <1>4, <1>5

(* The commit of a command writes what it loaded, with its fact applied.   *)
LEMMA CommitHonest ==
    ASSUME IInv, HonestInv, NEW c \in Clients, cmd[c].kind \in Posting \cup Merging,
           CommitFacts(c), End(c)
    PROVE  HonestInv'
  <1>1. /\ cmd[c].kind # "none" /\ cmd[c] \in Command
    BY DEF Posting, Merging, IInv, TypeOK
  <1>2. /\ cmd[c].to \in People \cup {Nobody} /\ cmd[c].seq \in [Issues -> Nat]
        /\ cmd[c].loaded \in [Issues -> Row]
    BY <1>1 DEF Command
  <1>3. FactOf[cmd[c].kind] \in {"assigned", "closed", "reopened"}
    BY DEF FactOf, Posting, Merging
  <1>4. cmd[c].result \notin Issues \/ ~Exists(cmd[c].result)
    BY LifecycleAssumption DEF IInv, LifecycleInv, CommandInv, Disciplined
  <1>5. \A d \in Clients : cmd'[d] \in {Idle, cmd[d]}
    BY DEF End, IInv, TypeOK
  <1>6. ASSUME NEW i \in Issues, i \in Sources(c)
        PROVE  \E row \in Row, n \in Nat, kind \in {"assigned", "closed", "reopened"},
                  to \in People \cup {Nobody} :
                  /\ ShownBy(row, facts[i])
                  /\ facts'[i] = Append(facts[i], [seq |-> n, kind |-> kind, to |-> to])
                  /\ projection'[i] = Applied(row, kind, to)
    <2>1. /\ facts'[i] = Append(facts[i], [seq |-> cmd[c].seq[i],
                                           kind |-> FactOf[cmd[c].kind], to |-> cmd[c].to])
          /\ projection'[i] = Applied(cmd[c].loaded[i], FactOf[cmd[c].kind], cmd[c].to)
      BY <1>6 DEF CommitFacts
    <2>2. ShownBy(cmd[c].loaded[i], facts[i]) /\ cmd[c].loaded[i] \in Row /\ cmd[c].seq[i] \in Nat
      BY <1>2 DEF HonestInv
    <2> QED
      BY <1>2, <1>3, <2>1, <2>2, SMTT(30)
  <1>7. ASSUME NEW i \in Issues, i \notin Sources(c)
        PROVE  \/ facts'[i] = facts[i] /\ projection'[i] = projection[i]
               \/ /\ facts[i] = <<>> /\ facts'[i] = <<CreatedFact>>
                  /\ projection'[i] = [NoRow EXCEPT !.count = 1]
    BY <1>4, <1>7 DEF CommitFacts, Exists
  <1> QED
    BY <1>5, <1>6, <1>7, RowsStep

(* Every step keeps it. *)
LEMMA NextHonest == IInv /\ HonestInv /\ [Next]_vars => HonestInv'
  <1> SUFFICES ASSUME IInv, HonestInv, [Next]_vars
               PROVE  HonestInv'
    OBVIOUS
  <1>1. ASSUME NEW i \in Issues, Create(i)
        PROVE  HonestInv'
    <2>1. /\ facts[i] = <<>> /\ facts'[i] = <<CreatedFact>> /\ projection[i] = NoRow
          /\ projection'[i] = [projection[i] EXCEPT !.count = 1]
          /\ \A j \in Issues : j # i => facts'[j] = facts[j] /\ projection'[j] = projection[j]
          /\ \A c \in Clients : cmd'[c] = cmd[c]
      BY <1>1 DEF Create, Exists, IInv, TypeOK, LifecycleInv, IssueInv
    <2>2. \A j \in Issues :
             \/ facts'[j] = facts[j] /\ projection'[j] = projection[j]
             \/ /\ facts[j] = <<>> /\ facts'[j] = <<CreatedFact>>
                /\ projection'[j] = [NoRow EXCEPT !.count = 1]
      BY <2>1
    <2> QED
      BY <2>1, <2>2, RowsStep
  <1>2. ASSUME NEW c \in Clients, NEW kind, NEW to, NEW sources, NEW result, NEW stmt,
               UNCHANGED rows,
               cmd' = [cmd EXCEPT ![c] = Started(kind, to, sources, result, stmt)]
        PROVE  HonestInv'
    <2> DEFINE K == Started(kind, to, sources, result, stmt)
    <2>1. \A i \in Issues : K.loaded[i] = NoRow
      BY DEF Started
    <2>2. cmd' = [cmd EXCEPT ![c] = K]
      BY <1>2
    <2> HIDE DEF K
    <2>3. \A i \in Issues : K.loaded[i] \in {NoRow, projection[i], cmd[c].loaded[i]}
      BY <2>1
    <2> QED
      BY <1>2, <2>2, <2>3, HeldStep
  <1>3. ASSUME NEW c \in Clients, UNCHANGED rows,
               ReadPosts(c) \/ LoadProjection(c) \/ NumberFact(c) \/ UpsertProjection(c)
        PROVE  HonestInv'
    <2>1. cmd[c] \in Command /\ cmd[c].loaded \in [Issues -> Row]
      <3>1. cmd[c] \in Command
        BY DEF IInv, TypeOK
      <3> QED
        BY <3>1 DEF Command
    <2>2. PICK K : /\ cmd' = [cmd EXCEPT ![c] = K]
                   /\ \/ K.loaded = cmd[c].loaded
                      \/ K.loaded = [cmd[c].loaded EXCEPT ![Current(c)] = projection[Current(c)]]
      <3>1. CASE ReadPosts(c)
        <4> DEFINE K == [cmd[c] EXCEPT !.post = posts[Current(c)] + 1, !.stmt = "load"]
        <4>1. cmd' = [cmd EXCEPT ![c] = K]
          BY <3>1 DEF ReadPosts
        <4>2. K.loaded = cmd[c].loaded
          BY <2>1 DEF Command
        <4> HIDE DEF K
        <4> QED
          BY <4>1, <4>2
      <3>2. CASE LoadProjection(c)
        <4> DEFINE K == [cmd[c] EXCEPT !.loaded[Current(c)] = projection[Current(c)],
                                       !.stmt = "number"]
        <4>1. cmd' = [cmd EXCEPT ![c] = K]
          BY <3>2 DEF LoadProjection
        <4>2. K.loaded = [cmd[c].loaded EXCEPT ![Current(c)] = projection[Current(c)]]
          BY <2>1 DEF Command
        <4> HIDE DEF K
        <4> QED
          BY <4>1, <4>2
      <3>3. CASE NumberFact(c)
        <4> DEFINE K == [cmd[c] EXCEPT !.seq[Current(c)] = NextSequence(Current(c)),
                                       !.stmt = "upsert"]
        <4>1. cmd' = [cmd EXCEPT ![c] = K]
          BY <3>3 DEF NumberFact
        <4>2. K.loaded = cmd[c].loaded
          BY <2>1 DEF Command
        <4> HIDE DEF K
        <4> QED
          BY <4>1, <4>2
      <3>4. CASE UpsertProjection(c)
        <4> DEFINE K == IF cmd[c].kind \in Posting
                        THEN [cmd[c] EXCEPT !.stmt = "post"]
                        ELSE [cmd[c] EXCEPT !.at = @ + 1, !.stmt = "load"]
        <4>1. cmd' = [cmd EXCEPT ![c] = K]
          BY <3>4 DEF UpsertProjection
        <4>2. K.loaded = cmd[c].loaded
          BY <2>1 DEF Command
        <4> HIDE DEF K
        <4> QED
          BY <4>1, <4>2
      <3> QED
        BY <1>3, <3>1, <3>2, <3>3, <3>4
    <2>3. \A i \in Issues : K.loaded[i] \in {NoRow, projection[i], cmd[c].loaded[i]}
      BY <2>1, <2>2
    <2> QED
      BY <1>3, <2>2, <2>3, HeldStep
  <1>4. ASSUME NEW c \in Clients, Abort(c)
        PROVE  HonestInv'
    BY <1>2, <1>4 DEF Abort, End, Idle
  <1>5. ASSUME NEW c \in Clients, NEW i \in Issues, NEW kind \in Posting,
               NEW to \in People \cup {Nobody}, Begin(c, i, kind, to)
        PROVE  HonestInv'
    BY <1>2, <1>5 DEF Begin
  <1>6. ASSUME NEW c \in Clients, BeginCombine(c) \/ BeginSplit(c)
        PROVE  HonestInv'
    BY <1>2, <1>6 DEF BeginCombine, BeginSplit, BeginMerge
  <1>7. ASSUME NEW c \in Clients, Statement(c)
        PROVE  HonestInv'
    <2>1. CASE ReadPosts(c) \/ LoadProjection(c) \/ NumberFact(c) \/ UpsertProjection(c)
      BY <1>3, <2>1 DEF ReadPosts, LoadProjection, NumberFact, UpsertProjection
    <2>2. CASE InsertPostAndCommit(c)
      <3>1. cmd[c].stmt = "post" /\ CommitFacts(c) /\ End(c)
        BY <2>2 DEF InsertPostAndCommit
      <3>2. cmd[c].kind # "none" /\ cmd[c] \in Command
        BY <3>1, StatementIsOpen DEF IInv, TypeOK
      <3> QED
        BY <3>1, <3>2, CommitHonest DEF Command
    <2>3. CASE MergeAndCommit(c)
      BY <2>3, CommitHonest DEF MergeAndCommit
    <2> QED
      BY <1>7, <2>1, <2>2, <2>3 DEF Statement
  <1>8. CASE UNCHANGED vars
    BY <1>8 DEF vars, HonestInv
  <1> QED
    BY <1>1, <1>4, <1>5, <1>6, <1>7, <1>8 DEF Next

-----------------------------------------------------------------------------
(* The theorems.                                                           *)

(* Every behaviour keeps the types and the inductive invariant. *)
THEOREM LifecycleInvariant == Spec => [](TypeOK /\ LifecycleInv)
  BY InitIInv, NextStep, PTL DEF Spec, IInv

(* Sequences and counts stay numbers, every status and assignee is one the *)
(* schema allows, and a lock is held by a client (lifecycle_persistence.go *)
(* writes no other row).                                                   *)
THEOREM LifecycleTypeCorrect == Spec => []TypeOK
  BY LifecycleInvariant, PTL

(* An issue on which no combine or split overlapped another command has a  *)
(* projection that replays its facts, however many assign, close and       *)
(* reopen commands ran beside each other: the post each inserts lets at    *)
(* most one of those that read the same discussion commit.                 *)
THEOREM ReplaysWithoutRaces == Spec => []ReplaysUnlessRaced
  <1>1. TypeOK /\ LifecycleInv => ReplaysUnlessRaced
    BY DEF LifecycleInv, IssueInv, ReplaysUnlessRaced
  <1> QED
    BY <1>1, LifecycleInvariant, PTL

(* Whatever ran beside it, a command leaves a projection that counts no    *)
(* more facts than there are and shows a status and an assignee that some  *)
(* fact recorded: an overwritten change is forgotten, never made up.       *)
THEOREM ProjectionInventsNothing == Spec => []ShowsOnlyFacts
  <1>1. Init => HonestInv
    BY InitHonest
  <1>2. TypeOK /\ LifecycleInv /\ HonestInv /\ [Next]_vars => HonestInv'
    BY NextHonest DEF IInv
  <1>3. HonestInv => ShowsOnlyFacts
    BY DEF HonestInv, ShownBy, ShowsOnlyFacts, Shows
  <1> QED
    BY <1>1, <1>2, <1>3, LifecycleInvariant, PTL DEF Spec
=============================================================================
