--------------------------- MODULE KnowledgeProofs ---------------------------
(***************************************************************************)
(* Memories, their proposals and curation moves, for any sets of them, of  *)
(* tags, requests and reviewers: replacing keeps a subject, nothing else   *)
(* revives a retired memory, and a proposal or a move is settled once.     *)
(***************************************************************************)
EXTENDS Memories, Curation, FiniteSetTheorems, TLAPS

-----------------------------------------------------------------------------
(* Memories and their proposals.                                           *)

MemoryRow == [status : {"none", "active", "superseded", "archived"},
              subject : Subject, by : Memory \cup {NoMemory}]
ProposalRow == [status : {"none", "pending", "accepted", "rejected"},
                subject : Subject, memory : Memory \cup {NoMemory}]
Statements == {"idle", "lookup", "supersede", "insert", "reinforce", "transition",
               "synthesize", "propose", "mark", "reject"}
Op == [at : Statements, id : Memory \cup {NoMemory}, subject : Subject,
       prior : Memory \cup {NoMemory}, row : MemoryRow,
       proposal : Proposal \cup {NoProposal}, covered : SUBSET Subject]

MemoryTypeOK ==
    /\ memories \in [Memory -> MemoryRow]
    /\ proposals \in [Proposal -> ProposalRow]
    /\ ops \in [Requests -> Op]
    /\ origin \in [Memory -> Proposal \cup {NoProposal}]
    /\ dropped \subseteq Subject
    /\ disputed \subseteq Proposal

RowInv == \A m \in Memory : memories[m].status = "none" => memories[m] = NoRow

Creating(op) == op.at \in {"lookup", "supersede", "insert"}

(* What a request may rely on until its next write: the id of a memory to  *)
(* be made is its own and unused, and the memories it has read still exist *)
(* and are on the subject it read.                                         *)
OpInv(r) ==
    LET op == ops[r] IN
    /\ op.at = "idle" => op = Idle
    /\ Creating(op) => /\ op.id \in Memory /\ memories[op.id] = NoRow
                       /\ \A s \in Requests \ {r} : ops[s].id # op.id
    /\ op.at = "supersede" => /\ op.prior \in Memory
                              /\ memories[op.prior].status # "none"
                              /\ memories[op.prior].subject = op.subject
                              /\ op.row.subject = op.subject
    /\ op.at \in {"reinforce", "transition"} => /\ op.id \in Memory
                                                /\ memories[op.id].status # "none"
                                                /\ memories[op.id].subject = op.row.subject
    /\ op.at = "reinforce" => op.row.status = "active"
    /\ op.at = "mark" => /\ op.id \in Memory /\ memories[op.id].status # "none"
                         /\ op.proposal \in Proposal /\ origin[op.id] = op.proposal
    /\ op.at = "reject" => op.proposal \in Proposal

(* An accepted proposal names its memory. An undisputed one has one review *)
(* at most, while it is pending, and no memory but the one it names or the *)
(* one that review is about to name.                                       *)
Undisputed(q) ==
    /\ \A r, s \in Requests : ops[r].proposal = q /\ ops[s].proposal = q => r = s
    /\ \A r \in Requests : ops[r].proposal = q => proposals[q].status = "pending"
    /\ \A m \in Memory : origin[m] = q =>
         \/ proposals[q].status = "accepted" /\ proposals[q].memory = m
         \/ \E r \in Requests : /\ ops[r].at = "mark" /\ ops[r].proposal = q
                                /\ ops[r].id = m

ProposalInv(q) ==
    /\ proposals[q].status = "accepted" =>
         /\ proposals[q].memory \in Memory
         /\ memories[proposals[q].memory].status # "none"
         /\ origin[proposals[q].memory] = q
    /\ q \notin disputed => Undisputed(q)

(* A subject without an active memory has a create that has retired the    *)
(* last one, or its memories were retired on purpose.                      *)
Replacing(r, x) == ops[r].at = "insert" /\ ops[r].subject = x /\ ops[r].prior # NoMemory
Known(x) == \E m \in Memory : memories[m].status # "none" /\ memories[m].subject = x
KeptInv(x) == Known(x) => ActiveOn(x) # {} \/ \E r \in Requests : Replacing(r, x)

MemoryInv ==
    /\ MemoryTypeOK
    /\ RowInv
    /\ \A r \in Requests : OpInv(r)
    /\ \A q \in Proposal : ProposalInv(q)
    /\ \A x \in Subject \ dropped : KeptInv(x)

-----------------------------------------------------------------------------
(* The steps of one request, seen from the others.                         *)

(* A write keeps memories that exist, with their subject and origin. *)
Grows ==
    \A m \in Memory : memories[m].status # "none" =>
        /\ memories'[m].status # "none"
        /\ memories'[m].subject = memories[m].subject
        /\ origin'[m] = origin[m]

LEMMA IdleType == Idle \in Op /\ NoRow \in MemoryRow
BY DEF Idle, Op, NoRow, MemoryRow, Statements, Subject

LEMMA StepTo ==
    ASSUME MemoryTypeOK, NEW r \in Requests, NEW op \in Op, Step(r, op)
    PROVE  /\ ops' \in [Requests -> Op]
           /\ ops'[r] = op
           /\ \A s \in Requests \ {r} : ops'[s] = ops[s]
BY DEF MemoryTypeOK, Step

LEMMA OthersKeep ==
    ASSUME MemoryInv, NEW r \in Requests, Grows,
           \A s \in Requests \ {r} : ops'[s] = ops[s],
           \A s \in Requests \ {r} : Creating(ops[s]) =>
              memories'[ops[s].id] = NoRow /\ ops'[r].id # ops[s].id
    PROVE  \A s \in Requests \ {r} : OpInv(s)'
<1> SUFFICES ASSUME NEW s \in Requests \ {r}
             PROVE  OpInv(s)'
  OBVIOUS
<1>1. OpInv(s) /\ ops'[s] = ops[s] /\ ops[s] \in Op
  BY DEF MemoryInv, MemoryTypeOK
<1>2. Creating(ops[s]) => \A t \in Requests \ {s} : ops'[t].id # ops[s].id
  BY <1>1 DEF OpInv
<1>3. QED
  BY <1>1, <1>2 DEF OpInv, Creating, Grows

LEMMA ProposalsKeep ==
    ASSUME MemoryInv, NEW r \in Requests, Grows,
           \A s \in Requests \ {r} : ops'[s] = ops[s],
           UNCHANGED <<proposals, origin>>, disputed \subseteq disputed',
           ops'[r].proposal \in {ops[r].proposal, NoProposal},
           ops[r].at = "mark" => ops[r].proposal \in disputed'
    PROVE  \A q \in Proposal : ProposalInv(q)'
<1> SUFFICES ASSUME NEW q \in Proposal
             PROVE  ProposalInv(q)'
  OBVIOUS
<1>1. ProposalInv(q) /\ q # NoProposal
  BY MemoryAssumption DEF MemoryInv
<1>2. \A s \in Requests : ops'[s].proposal = q => ops[s].proposal = q
  BY <1>1
<1>3. q \notin disputed' =>
        \A s \in Requests : ops[s].at = "mark" /\ ops[s].proposal = q => ops'[s] = ops[s]
  OBVIOUS
<1>4. q \notin disputed' => Undisputed(q)'
  BY <1>1, <1>2, <1>3 DEF ProposalInv, Undisputed
<1>5. QED
  BY <1>1, <1>4 DEF ProposalInv, Grows

LEMMA SubjectsKeep ==
    ASSUME MemoryInv, NEW r \in Requests, UNCHANGED memories, dropped \subseteq dropped',
           \A s \in Requests \ {r} : ops'[s] = ops[s],
           \A x \in Subject : Replacing(r, x) => ActiveOn(x) # {} \/ x \in dropped'
    PROVE  \A x \in Subject \ dropped' : KeptInv(x)'
<1> SUFFICES ASSUME NEW x \in Subject \ dropped'
             PROVE  KeptInv(x)'
  OBVIOUS
<1>1. KeptInv(x) /\ Known(x)' = Known(x) /\ ActiveOn(x)' = ActiveOn(x)
  BY DEF MemoryInv, Known, ActiveOn
<1>2. \A s \in Requests \ {r} : Replacing(s, x) => Replacing(s, x)'
  BY DEF Replacing
<1>3. QED  BY <1>1, <1>2 DEF KeptInv

(* A step of r that writes no memory and no proposal. *)
LEMMA QuietStep ==
    ASSUME MemoryInv, NEW r \in Requests, NEW op \in Op, Step(r, op),
           UNCHANGED <<memories, proposals, origin>>,
           dropped \subseteq dropped', dropped' \subseteq Subject,
           disputed \subseteq disputed', disputed' \subseteq Proposal,
           \A s \in Requests \ {r} : Creating(ops[s]) => op.id # ops[s].id,
           OpInv(r)',
           op.proposal \in {ops[r].proposal, NoProposal},
           ops[r].at = "mark" => ops[r].proposal \in disputed',
           \A x \in Subject : Replacing(r, x) => ActiveOn(x) # {} \/ x \in dropped'
    PROVE  MemoryInv'
<1>1. /\ ops' \in [Requests -> Op] /\ ops'[r] = op
      /\ \A s \in Requests \ {r} : ops'[s] = ops[s]
  BY StepTo DEF MemoryInv
<1>2. Grows
  BY DEF Grows
<1>3. MemoryTypeOK' /\ RowInv'
  BY <1>1 DEF MemoryInv, MemoryTypeOK, RowInv
<1>4. \A s \in Requests \ {r} : Creating(ops[s]) => memories'[ops[s].id] = NoRow
  BY DEF MemoryInv, OpInv
<1>5. \A s \in Requests : OpInv(s)'
  BY <1>1, <1>2, <1>4, OthersKeep
<1>6. \A q \in Proposal : ProposalInv(q)'
  BY <1>1, <1>2, ProposalsKeep
<1>7. \A x \in Subject \ dropped' : KeptInv(x)'
  BY <1>1, SubjectsKeep
<1>8. QED  BY <1>3, <1>5, <1>6, <1>7 DEF MemoryInv

-----------------------------------------------------------------------------
(* The initial state. *)
LEMMA MemoryStarts == MemoryInit => MemoryInv
<1> SUFFICES ASSUME MemoryInit
             PROVE  MemoryInv
  OBVIOUS
<1>1. MemoryTypeOK
  BY IdleType DEF MemoryInit, MemoryTypeOK, ProposalRow, Subject
<1>2. RowInv /\ \A x \in Subject : KeptInv(x)
  BY DEF MemoryInit, RowInv, KeptInv, Known, NoRow
<1>3. \A r \in Requests : OpInv(r)
  BY DEF MemoryInit, OpInv, Creating, Idle
<1>4. \A q \in Proposal : ProposalInv(q)
  BY MemoryAssumption DEF MemoryInit, ProposalInv, Undisputed, Idle
<1>5. QED  BY <1>1, <1>2, <1>3, <1>4 DEF MemoryInv

(* Steps that only read. *)
LEMMA CreateKeeps ==
    ASSUME MemoryInv, NEW r \in Requests, NEW m \in Memory, NEW x \in Subject,
           CreateMemory(r, m, x)
    PROVE  MemoryInv'
<1> DEFINE op == [Idle EXCEPT !.at = "lookup", !.id = m, !.subject = x]
<1>1. op \in Op /\ op.at = "lookup" /\ op.id = m /\ op.proposal = NoProposal
  BY IdleType DEF Op, Statements, Idle
<1>2. Step(r, op)
  BY DEF CreateMemory
<1> HIDE DEF op
<1>3. ops'[r] = op /\ \A s \in Requests \ {r} : ops'[s] = ops[s]
  BY <1>1, <1>2, StepTo DEF MemoryInv
<1>4. memories[m] = NoRow /\ \A s \in Requests : ops[s].id # m
  BY DEF CreateMemory, Unused
<1>5. OpInv(r)'
  BY <1>1, <1>3, <1>4 DEF OpInv, Creating, CreateMemory
<1>6. ops[r].at = "idle"
  BY DEF CreateMemory, Idle
<1>7. QED
  BY <1>1, <1>2, <1>4, <1>5, <1>6, QuietStep
     DEF CreateMemory, Replacing, MemoryInv, MemoryTypeOK

LEMMA LookUpKeeps ==
    ASSUME MemoryInv, NEW r \in Requests, LookUpPrior(r)
    PROVE  MemoryInv'
<1>1. ops[r] \in Op /\ OpInv(r) /\ ops[r].at = "lookup"
  BY DEF MemoryInv, MemoryTypeOK, LookUpPrior
<1>2. PICK op \in Op :
        /\ Step(r, op)
        /\ op.id = ops[r].id /\ op.proposal = ops[r].proposal
        /\ op.at \in {"insert", "supersede"} /\ op.subject = ops[r].subject
        /\ op.at = "supersede" => /\ op.prior \in ActiveOn(op.subject)
                                  /\ op.row = memories[op.prior]
  <2>1. CASE ActiveOn(ops[r].subject) = {}
    <3>1. [ops[r] EXCEPT !.at = "insert"] \in Op
      BY <1>1 DEF Op, Statements
    <3>2. Step(r, [ops[r] EXCEPT !.at = "insert"])
      BY <2>1 DEF LookUpPrior
    <3>3. QED  BY <1>1, <3>1, <3>2 DEF Op
  <2>2. CASE ActiveOn(ops[r].subject) # {}
    <3>1. PICK m \in ActiveOn(ops[r].subject) :
             Step(r, [ops[r] EXCEPT !.at = "supersede", !.prior = m, !.row = memories[m]])
      BY <2>2 DEF LookUpPrior
    <3>2. m \in Memory /\ memories[m] \in MemoryRow
      BY DEF ActiveOn, MemoryInv, MemoryTypeOK
    <3>3. [ops[r] EXCEPT !.at = "supersede", !.prior = m, !.row = memories[m]] \in Op
      BY <1>1, <3>2 DEF Op, Statements
    <3>4. QED  BY <1>1, <3>1, <3>3 DEF Op
  <2>3. QED  BY <2>1, <2>2
<1>3. ops'[r] = op /\ \A s \in Requests \ {r} : ops'[s] = ops[s]
  BY <1>2, StepTo DEF MemoryInv
<1>4. UNCHANGED <<memories, proposals, origin, dropped, disputed>>
  BY DEF LookUpPrior
<1>5. OpInv(r)'
  BY <1>1, <1>2, <1>3, <1>4 DEF OpInv, Creating, ActiveOn
<1>6. \A s \in Requests \ {r} : Creating(ops[s]) => op.id # ops[s].id
  BY <1>2 DEF MemoryInv, OpInv
<1>7. QED
  BY <1>1, <1>2, <1>4, <1>5, <1>6, QuietStep DEF Replacing, MemoryInv, MemoryTypeOK

(* A request that has ended, or has failed without having retired a memory *)
(* or made one.                                                            *)
LEMMA EndKeeps ==
    ASSUME MemoryInv, NEW r \in Requests, Step(r, Idle),
           UNCHANGED <<memories, proposals, origin>>,
           dropped \subseteq dropped', dropped' \subseteq Subject,
           disputed \subseteq disputed', disputed' \subseteq Proposal,
           ops[r].at = "mark" => ops[r].proposal \in disputed',
           \A x \in Subject : Replacing(r, x) => ActiveOn(x) # {} \/ x \in dropped'
    PROVE  MemoryInv'
<1>1. Idle \in Op /\ Idle.at = "idle" /\ Idle.id = NoMemory /\ Idle.proposal = NoProposal
  BY IdleType DEF Idle
<1>2. ops'[r] = Idle
  BY <1>1, StepTo DEF MemoryInv
<1>3. OpInv(r)'
  BY <1>1, <1>2 DEF OpInv, Creating
<1>4. \A s \in Requests \ {r} : Creating(ops[s]) => Idle.id # ops[s].id
  BY <1>1, MemoryAssumption DEF MemoryInv, OpInv
<1>5. QED  BY <1>1, <1>3, <1>4, QuietStep

LEMMA InsertFailsKeeps ==
    ASSUME MemoryInv, NEW r \in Requests, InsertFails(r)
    PROVE  MemoryInv'
<1>1. ActiveOn(ops[r].subject) # {} /\ ops[r].at = "insert"
  BY DEF InsertFails, InTheWay
<1>2. QED
  BY <1>1, EndKeeps DEF InsertFails, Replacing, MemoryInv, MemoryTypeOK

LEMMA InterruptedKeeps ==
    ASSUME MemoryInv, NEW r \in Requests, Interrupted(r)
    PROVE  MemoryInv'
<1>1. ops[r] \in Op /\ OpInv(r)
  BY DEF MemoryInv, MemoryTypeOK
<1>2. dropped \subseteq dropped' /\ dropped' \subseteq Subject
  BY <1>1 DEF Interrupted, MemoryInv, MemoryTypeOK, Op
<1>3. disputed \subseteq disputed' /\ disputed' \subseteq Proposal
  BY <1>1 DEF Interrupted, MemoryInv, MemoryTypeOK, OpInv
<1>4. QED
  BY <1>2, <1>3, EndKeeps DEF Interrupted, Replacing

(* Reading a memory to write it back. *)
LEMMA ReadKeeps ==
    ASSUME MemoryInv, NEW r \in Requests, NEW m \in Memory,
           NEW at \in {"reinforce", "transition"},
           ops[r] = Idle, memories[m] # NoRow,
           at = "reinforce" => memories[m].status = "active",
           Step(r, [Idle EXCEPT !.at = at, !.id = m, !.row = memories[m]]),
           UNCHANGED <<memories, proposals, origin, dropped, disputed>>
    PROVE  MemoryInv'
<1> DEFINE op == [Idle EXCEPT !.at = at, !.id = m, !.row = memories[m]]
<1>1. memories[m] \in MemoryRow
  BY DEF MemoryInv, MemoryTypeOK
<1>2. /\ op \in Op /\ op.at = at /\ op.id = m /\ op.proposal = NoProposal
      /\ op.row = memories[m]
  BY <1>1, IdleType DEF Op, Statements, Idle
<1>3. Step(r, op)
  OBVIOUS
<1> HIDE DEF op
<1>4. ops'[r] = op /\ \A s \in Requests \ {r} : ops'[s] = ops[s]
  BY <1>2, <1>3, StepTo DEF MemoryInv
<1>5. memories[m].status # "none"
  BY DEF MemoryInv, RowInv
<1>6. OpInv(r)'
  BY <1>2, <1>4, <1>5 DEF OpInv, Creating
<1>7. ops[r].at = "idle"
  BY DEF Idle
<1>8. \A s \in Requests \ {r} : Creating(ops[s]) => op.id # ops[s].id
  BY <1>2 DEF MemoryInv, OpInv
<1>9. QED
  BY <1>2, <1>3, <1>6, <1>7, <1>8, QuietStep DEF Replacing, MemoryInv, MemoryTypeOK

LEMMA ReinforceReadKeeps ==
    ASSUME MemoryInv, NEW r \in Requests, NEW x \in Tag, ReinforceRead(r, x)
    PROVE  MemoryInv'
<1>1. PICK m \in ActiveOn(x) :
         Step(r, [Idle EXCEPT !.at = "reinforce", !.id = m, !.row = memories[m]])
  BY DEF ReinforceRead
<1>2. m \in Memory /\ memories[m].status = "active" /\ memories[m] # NoRow
  BY DEF ActiveOn, NoRow
<1>3. QED
  BY <1>1, <1>2, ReadKeeps DEF ReinforceRead

LEMMA TransitionReadKeeps ==
    ASSUME MemoryInv, NEW r \in Requests, NEW m \in Memory, TransitionRead(r, m)
    PROVE  MemoryInv'
BY ReadKeeps DEF TransitionRead

(* Collecting what a synthesis leaves alone. *)
LEMMA SynthesisKeeps ==
    ASSUME MemoryInv, NEW r \in Requests, SynthesizePending(r) \/ SynthesizeActive(r)
    PROVE  MemoryInv'
<1>1. ops[r] \in Op /\ OpInv(r)
  BY DEF MemoryInv, MemoryTypeOK
<1>2. PICK op \in Op : /\ Step(r, op) /\ op.at \in {"synthesize", "propose"}
                       /\ op.id = ops[r].id /\ op.proposal = ops[r].proposal
  <2>1. CASE SynthesizePending(r)
    <3> DEFINE covered == {proposals[q].subject : q \in {p \in Proposal : Pending(p)}}
    <3>1. covered \subseteq Subject
      BY DEF MemoryInv, MemoryTypeOK, ProposalRow
    <3>2. Step(r, [Idle EXCEPT !.at = "synthesize", !.covered = covered]) /\ ops[r] = Idle
      BY <2>1 DEF SynthesizePending
    <3> HIDE DEF covered
    <3>3. [Idle EXCEPT !.at = "synthesize", !.covered = covered] \in Op
      BY <3>1, IdleType DEF Op, Statements
    <3>4. QED  BY <3>2, <3>3, IdleType DEF Op
  <2>2. CASE SynthesizeActive(r)
    <3> DEFINE covered == ops[r].covered \cup {x \in Tag : ActiveOn(x) # {}}
    <3>1. covered \subseteq Subject
      BY <1>1 DEF Op, Subject
    <3>2. Step(r, [ops[r] EXCEPT !.at = "propose", !.covered = covered])
      BY <2>2 DEF SynthesizeActive
    <3> HIDE DEF covered
    <3>3. [ops[r] EXCEPT !.at = "propose", !.covered = covered] \in Op
      BY <1>1, <3>1 DEF Op, Statements
    <3>4. QED  BY <1>1, <3>2, <3>3 DEF Op
  <2>3. QED  BY <2>1, <2>2
<1>3. ops'[r] = op
  BY <1>2, StepTo DEF MemoryInv
<1>4. UNCHANGED <<memories, proposals, origin, dropped, disputed>>
  BY DEF SynthesizePending, SynthesizeActive
<1>5. OpInv(r)'
  BY <1>2, <1>3 DEF OpInv, Creating
<1>6. ops[r].at \in {"idle", "synthesize"}
  BY DEF SynthesizePending, SynthesizeActive, Idle
<1>7. \A s \in Requests \ {r} : Creating(ops[s]) => op.id # ops[s].id
  BY <1>2 DEF MemoryInv, OpInv
<1>8. QED
  BY <1>2, <1>4, <1>5, <1>6, <1>7, QuietStep DEF Replacing, MemoryInv, MemoryTypeOK

-----------------------------------------------------------------------------
(* Steps that write back a memory that exists. *)
LEMMA WriteBack ==
    ASSUME MemoryInv, NEW m \in Memory, NEW row \in MemoryRow,
           memories[m].status # "none", row.status # "none",
           row.subject = memories[m].subject,
           memories' = [memories EXCEPT ![m] = row], UNCHANGED origin
    PROVE  /\ memories' \in [Memory -> MemoryRow] /\ Grows /\ RowInv'
           /\ memories'[m] = row
           /\ \A n \in Memory \ {m} : memories'[n] = memories[n]
           /\ \A s \in Requests : Creating(ops[s]) => memories'[ops[s].id] = NoRow
           /\ \A x \in Subject : Known(x)' = Known(x)
           /\ \A x \in Subject : x # row.subject => ActiveOn(x)' = ActiveOn(x)
<1>1. /\ memories' \in [Memory -> MemoryRow]
      /\ memories'[m] = row
      /\ \A n \in Memory \ {m} : memories'[n] = memories[n]
  BY DEF MemoryInv, MemoryTypeOK
<1>2. Grows /\ RowInv'
  BY <1>1 DEF Grows, RowInv, MemoryInv
<1>3. \A s \in Requests : Creating(ops[s]) => ops[s].id \in Memory \ {m}
                                             /\ memories[ops[s].id] = NoRow
  BY DEF MemoryInv, OpInv, NoRow
<1>4. \A s \in Requests : Creating(ops[s]) => memories'[ops[s].id] = NoRow
  BY <1>1, <1>3
<1>5. \A x \in Subject : Known(x)' = Known(x)
  BY <1>1 DEF Known
<1>6. \A x \in Subject : x # row.subject => ActiveOn(x)' = ActiveOn(x)
  BY <1>1 DEF ActiveOn
<1>7. QED  BY <1>1, <1>2, <1>4, <1>5, <1>6

LEMMA SupersedeKeeps ==
    ASSUME MemoryInv, NEW r \in Requests, SupersedePrior(r)
    PROVE  MemoryInv'
<1> DEFINE row == Superseded(ops[r].row, ops[r].id)
           op == [ops[r] EXCEPT !.at = "insert"]
<1>1. ops[r] \in Op /\ OpInv(r) /\ ops[r].at = "supersede"
  BY DEF MemoryInv, MemoryTypeOK, SupersedePrior
<1>2. row \in MemoryRow /\ row.status = "superseded" /\ row.subject = ops[r].subject
  BY <1>1 DEF Superseded, Op, MemoryRow, OpInv
<1>3. /\ op \in Op /\ op.at = "insert" /\ op.id = ops[r].id /\ op.proposal = ops[r].proposal
      /\ op.subject = ops[r].subject /\ op.prior = ops[r].prior
  BY <1>1 DEF Op, Statements
<1>4. /\ Step(r, op) /\ memories' = [memories EXCEPT ![ops[r].prior] = row]
      /\ UNCHANGED <<proposals, origin, dropped, disputed>>
  BY DEF SupersedePrior
<1> HIDE DEF row, op
<1>5. /\ ops' \in [Requests -> Op] /\ ops'[r] = op
      /\ \A s \in Requests \ {r} : ops'[s] = ops[s]
  BY <1>3, <1>4, StepTo DEF MemoryInv
<1>6. /\ ops[r].prior \in Memory /\ memories[ops[r].prior].status # "none"
      /\ memories[ops[r].prior].subject = ops[r].subject
  BY <1>1 DEF OpInv
<1>7. /\ memories' \in [Memory -> MemoryRow] /\ Grows /\ RowInv'
      /\ \A s \in Requests : Creating(ops[s]) => memories'[ops[s].id] = NoRow
      /\ \A x \in Subject : Known(x)' = Known(x)
      /\ \A x \in Subject : x # ops[r].subject => ActiveOn(x)' = ActiveOn(x)
  BY <1>2, <1>4, <1>6, WriteBack
<1>8. MemoryTypeOK'
  BY <1>4, <1>5, <1>7 DEF MemoryInv, MemoryTypeOK
<1>9. OpInv(r)'
  BY <1>1, <1>3, <1>5, <1>7 DEF OpInv, Creating
<1>10. \A s \in Requests \ {r} : OpInv(s)'
  <2>1. \A s \in Requests \ {r} : Creating(ops[s]) => ops'[r].id # ops[s].id
    BY <1>3, <1>5 DEF MemoryInv, OpInv
  <2>2. QED  BY <1>5, <1>7, <2>1, OthersKeep
<1>11. \A q \in Proposal : ProposalInv(q)'
  BY <1>1, <1>3, <1>4, <1>5, <1>7, ProposalsKeep
<1>12. ASSUME NEW x \in Subject \ dropped'
       PROVE  KeptInv(x)'
  <2>1. CASE x = ops[r].subject
    <3>1. Replacing(r, x)'
      BY <1>3, <1>5, <1>6, <2>1, MemoryAssumption DEF Replacing
    <3>2. QED  BY <3>1 DEF KeptInv
  <2>2. CASE x # ops[r].subject
    <3>1. KeptInv(x)
      BY <1>4 DEF MemoryInv
    <3>2. \A s \in Requests : Replacing(s, x) => Replacing(s, x)'
      BY <1>1, <1>5 DEF Replacing
    <3>3. QED  BY <1>7, <2>2, <3>1, <3>2 DEF KeptInv
  <2>3. QED  BY <2>1, <2>2
<1>13. QED
  BY <1>7, <1>8, <1>9, <1>10, <1>11, <1>12 DEF MemoryInv

(* A reinforcement or a transition that writes and ends. *)
LEMMA WriteAndEnd ==
    ASSUME MemoryInv, NEW r \in Requests, NEW row \in MemoryRow,
           ops[r].at \in {"reinforce", "transition"},
           row.status # "none", row.subject = ops[r].row.subject,
           row.status # "active" => row.subject \in dropped',
           memories' = [memories EXCEPT ![ops[r].id] = row],
           Step(r, Idle), UNCHANGED <<proposals, origin, disputed>>,
           dropped \subseteq dropped', dropped' \subseteq Subject
    PROVE  MemoryInv'
<1>1. /\ Idle \in Op /\ Idle.at = "idle" /\ Idle.id = NoMemory
      /\ Idle.proposal = NoProposal
  BY IdleType DEF Idle
<1>2. /\ ops' \in [Requests -> Op] /\ ops'[r] = Idle
      /\ \A s \in Requests \ {r} : ops'[s] = ops[s]
  BY <1>1, StepTo DEF MemoryInv
<1>3. /\ ops[r].id \in Memory /\ memories[ops[r].id].status # "none"
      /\ memories[ops[r].id].subject = row.subject
  BY DEF MemoryInv, OpInv
<1>4. /\ memories' \in [Memory -> MemoryRow] /\ Grows /\ RowInv'
      /\ memories'[ops[r].id] = row
      /\ \A s \in Requests : Creating(ops[s]) => memories'[ops[s].id] = NoRow
      /\ \A x \in Subject : Known(x)' = Known(x)
      /\ \A x \in Subject : x # row.subject => ActiveOn(x)' = ActiveOn(x)
  BY <1>3, WriteBack, ZenonT(30)
<1>5. MemoryTypeOK'
  BY <1>2, <1>4 DEF MemoryInv, MemoryTypeOK
<1>6. OpInv(r)'
  BY <1>1, <1>2 DEF OpInv, Creating
<1>7. \A s \in Requests \ {r} : OpInv(s)'
  <2>1. \A s \in Requests \ {r} : Creating(ops[s]) => ops'[r].id # ops[s].id
    BY <1>1, <1>2, MemoryAssumption DEF MemoryInv, OpInv
  <2>2. QED  BY <1>2, <1>4, <2>1, OthersKeep
<1>8. \A q \in Proposal : ProposalInv(q)'
  BY <1>1, <1>2, <1>4, ProposalsKeep
<1>9. ASSUME NEW x \in Subject \ dropped'
      PROVE  KeptInv(x)'
  <2>1. CASE x = row.subject
    BY <1>3, <1>4, <2>1 DEF KeptInv, ActiveOn
  <2>2. CASE x # row.subject
    <3>1. KeptInv(x)
      BY DEF MemoryInv
    <3>2. \A s \in Requests : Replacing(s, x) => Replacing(s, x)'
      BY <1>2 DEF Replacing
    <3>3. QED  BY <1>4, <2>2, <3>1, <3>2 DEF KeptInv
  <2>3. QED  BY <2>1, <2>2
<1>10. QED
  BY <1>4, <1>5, <1>6, <1>7, <1>8, <1>9 DEF MemoryInv

LEMMA ReinforceKeeps ==
    ASSUME MemoryInv, NEW r \in Requests, ReinforceWrite(r)
    PROVE  MemoryInv'
<1>1. /\ ops[r].at = "reinforce" /\ Step(r, Idle)
      /\ UNCHANGED <<proposals, origin, dropped, disputed>>
  BY DEF ReinforceWrite
<1>2. ops[r].row \in MemoryRow /\ ops[r].row.status = "active" /\ dropped \subseteq Subject
  BY <1>1 DEF MemoryInv, MemoryTypeOK, OpInv, Op
<1>3. CASE InTheWay(ops[r].id, ops[r].row.subject) = {}
  <2>1. memories' = [memories EXCEPT ![ops[r].id] = ops[r].row]
    BY <1>3 DEF ReinforceWrite
  <2>2. QED  BY <1>1, <1>2, <2>1, WriteAndEnd
<1>4. CASE InTheWay(ops[r].id, ops[r].row.subject) # {}
  <2>1. UNCHANGED memories
    BY <1>4 DEF ReinforceWrite
  <2>2. QED
    BY <1>1, <1>2, <2>1, EndKeeps DEF Replacing, MemoryInv, MemoryTypeOK
<1>5. QED  BY <1>3, <1>4

LEMMA TransitionKeeps ==
    ASSUME MemoryInv, NEW r \in Requests, NEW status \in {"superseded", "archived"},
           NEW by \in Memory \cup {NoMemory}, TransitionWrite(r, status, by)
    PROVE  MemoryInv'
<1> DEFINE row == [ops[r].row EXCEPT !.status = status, !.by = by]
<1>1. ops[r].row \in MemoryRow /\ dropped \subseteq Subject
  BY DEF MemoryInv, MemoryTypeOK, Op
<1>2. row \in MemoryRow /\ row.status = status /\ row.subject = ops[r].row.subject
  BY <1>1 DEF MemoryRow
<1>3. /\ ops[r].at = "transition" /\ Step(r, Idle)
      /\ memories' = [memories EXCEPT ![ops[r].id] = row]
      /\ dropped' = dropped \cup {row.subject}
      /\ UNCHANGED <<proposals, origin, disputed>>
  BY <1>2 DEF TransitionWrite
<1> HIDE DEF row
<1>4. dropped \subseteq dropped' /\ dropped' \subseteq Subject
  BY <1>1, <1>2, <1>3 DEF MemoryRow
<1>5. QED  BY <1>2, <1>3, <1>4, WriteAndEnd

-----------------------------------------------------------------------------
(* The insert. *)
LEMMA InsertKeeps ==
    ASSUME MemoryInv, NEW r \in Requests, InsertMemory(r)
    PROVE  MemoryInv'
<1> DEFINE id == ops[r].id
           q0 == ops[r].proposal
           x0 == ops[r].subject
<1>1. /\ ops[r] \in Op /\ OpInv(r) /\ ops[r].at = "insert"
      /\ memories' = [memories EXCEPT ![id] = ActiveRow(x0)]
      /\ origin' = [origin EXCEPT ![id] = q0]
      /\ UNCHANGED <<proposals, dropped, disputed>>
  BY DEF MemoryInv, MemoryTypeOK, InsertMemory
<1>2. /\ id \in Memory /\ memories[id].status = "none"
      /\ \A s \in Requests \ {r} : ops[s].id # id
  BY <1>1 DEF OpInv, Creating, NoRow
<1>3. PICK op \in Op :
        /\ Step(r, op)
        /\ \/ q0 = NoProposal /\ op = Idle
           \/ q0 \in Proposal /\ op.at = "mark" /\ op.id = id /\ op.proposal = q0
  <2>1. CASE q0 = NoProposal
    BY <2>1, IdleType DEF InsertMemory
  <2>2. CASE q0 # NoProposal
    <3>1. Step(r, [ops[r] EXCEPT !.at = "mark"])
      BY <2>2 DEF InsertMemory
    <3>2. [ops[r] EXCEPT !.at = "mark"] \in Op
      BY <1>1 DEF Op, Statements
    <3>3. QED  BY <1>1, <2>2, <3>1, <3>2 DEF Op
  <2>3. QED  BY <2>1, <2>2
<1>4. /\ ops' \in [Requests -> Op] /\ ops'[r] = op
      /\ \A s \in Requests \ {r} : ops'[s] = ops[s]
  BY <1>3, StepTo DEF MemoryInv
<1>5. x0 \in Subject /\ q0 \in Proposal \cup {NoProposal}
  BY <1>1 DEF Op
<1>6. ActiveRow(x0) \in MemoryRow /\ ActiveRow(x0).status = "active"
      /\ ActiveRow(x0).subject = x0
  BY <1>5 DEF ActiveRow, MemoryRow
<1> HIDE DEF id, q0, x0
<1>7. /\ memories' \in [Memory -> MemoryRow] /\ memories'[id] = ActiveRow(x0)
      /\ \A m \in Memory \ {id} : memories'[m] = memories[m]
      /\ origin' \in [Memory -> Proposal \cup {NoProposal}] /\ origin'[id] = q0
      /\ \A m \in Memory \ {id} : origin'[m] = origin[m]
  BY <1>1, <1>2, <1>5, <1>6 DEF MemoryInv, MemoryTypeOK
<1>8. MemoryTypeOK'
  BY <1>1, <1>4, <1>7 DEF MemoryInv, MemoryTypeOK
<1>9. Grows /\ RowInv'
  BY <1>2, <1>6, <1>7 DEF Grows, RowInv, MemoryInv
<1>10. OpInv(r)'
  <2>1. CASE op = Idle
    BY <1>4, <2>1 DEF OpInv, Creating, Idle
  <2>2. CASE op.at = "mark" /\ op.id = id /\ op.proposal = q0 /\ q0 \in Proposal
    BY <1>2, <1>4, <1>6, <1>7, <2>2 DEF OpInv, Creating
  <2>3. QED  BY <1>3, <2>1, <2>2
<1>11. \A s \in Requests \ {r} : OpInv(s)'
  <2>1. \A s \in Requests \ {r} : Creating(ops[s]) =>
            ops[s].id \in Memory \ {id} /\ memories[ops[s].id] = NoRow
    BY <1>2 DEF MemoryInv, OpInv
  <2>2. op.id \in {id, NoMemory}
    BY <1>3 DEF Idle
  <2>3. \A s \in Requests \ {r} : Creating(ops[s]) =>
            memories'[ops[s].id] = NoRow /\ ops'[r].id # ops[s].id
    BY <1>4, <1>7, <2>1, <2>2, MemoryAssumption
  <2>4. QED  BY <1>4, <1>9, <2>3, OthersKeep
<1>12. ASSUME NEW q \in Proposal
       PROVE  ProposalInv(q)'
  <2>1. ProposalInv(q) /\ q # NoProposal
    BY MemoryAssumption DEF MemoryInv
  <2>2. \A s \in Requests : ops'[s].proposal = q => ops[s].proposal = q
    BY <1>3, <1>4, <2>1 DEF Idle, q0
  <2>3. ASSUME q \notin disputed
        PROVE  Undisputed(q)'
    <3>1. Undisputed(q)
      BY <2>1, <2>3 DEF ProposalInv
    <3>2. ASSUME NEW m \in Memory, origin'[m] = q
          PROVE  \/ proposals[q].status = "accepted" /\ proposals[q].memory = m
                 \/ \E s \in Requests : /\ ops'[s].at = "mark" /\ ops'[s].proposal = q
                                        /\ ops'[s].id = m
      <4>1. CASE m = id
        BY <1>3, <1>4, <1>7, <2>1, <3>2, <4>1
      <4>2. CASE m # id
        <5>1. origin[m] = q
          BY <1>7, <3>2, <4>2
        <5>2. \A s \in Requests : ops[s].at = "mark" => ops'[s] = ops[s]
          BY <1>1, <1>4
        <5>3. QED  BY <3>1, <5>1, <5>2 DEF Undisputed
      <4>3. QED  BY <4>1, <4>2
    <3>3. QED  BY <1>1, <2>2, <3>1, <3>2 DEF Undisputed
  <2>4. QED  BY <1>1, <1>9, <2>1, <2>3 DEF ProposalInv, Grows
<1>13. ASSUME NEW x \in Subject \ dropped'
       PROVE  KeptInv(x)'
  <2>1. CASE x = x0
    BY <1>2, <1>6, <1>7, <2>1 DEF KeptInv, ActiveOn
  <2>2. CASE x # x0
    <3>1. KeptInv(x)
      BY <1>1 DEF MemoryInv
    <3>2. Known(x)' => Known(x)
      BY <1>6, <1>7, <2>2 DEF Known
    <3>3. ActiveOn(x) \subseteq ActiveOn(x)'
      BY <1>2, <1>7 DEF ActiveOn
    <3>4. \A s \in Requests : Replacing(s, x) => Replacing(s, x)'
      BY <1>4, <2>2 DEF Replacing, x0
    <3>5. QED  BY <3>1, <3>2, <3>3, <3>4 DEF KeptInv
  <2>3. QED  BY <2>1, <2>2
<1>14. QED
  BY <1>8, <1>9, <1>10, <1>11, <1>12, <1>13 DEF MemoryInv

-----------------------------------------------------------------------------
(* Steps that leave every memory alone and change a proposal or the review *)
(* of one.                                                                 *)
LEMMA ProposalStep ==
    ASSUME MemoryInv, NEW r \in Requests, NEW op \in Op, Step(r, op),
           UNCHANGED <<memories, origin, dropped>>,
           proposals' \in [Proposal -> ProposalRow],
           disputed' \subseteq Proposal,
           ops[r].at # "insert",
           OpInv(r)',
           \A s \in Requests \ {r} : Creating(ops[s]) => op.id # ops[s].id,
           \A q \in Proposal : ProposalInv(q)'
    PROVE  MemoryInv'
<1>1. /\ ops' \in [Requests -> Op] /\ ops'[r] = op
      /\ \A s \in Requests \ {r} : ops'[s] = ops[s]
  BY StepTo DEF MemoryInv
<1>2. MemoryTypeOK' /\ RowInv' /\ Grows
  BY <1>1 DEF MemoryInv, MemoryTypeOK, RowInv, Grows
<1>3. \A s \in Requests \ {r} : Creating(ops[s]) => memories'[ops[s].id] = NoRow
  BY DEF MemoryInv, OpInv
<1>4. \A s \in Requests : OpInv(s)'
  BY <1>1, <1>2, <1>3, OthersKeep
<1>5. \A x \in Subject \ dropped' : KeptInv(x)'
  BY <1>1, SubjectsKeep DEF Replacing
<1>6. QED  BY <1>2, <1>4, <1>5 DEF MemoryInv

LEMMA ProposeKeeps ==
    ASSUME MemoryInv, NEW r \in Requests, NEW q \in Proposal, NEW x \in Tag, Propose(r, q, x)
    PROVE  MemoryInv'
<1>1. /\ Step(r, Idle) /\ UNCHANGED <<memories, origin, dropped, disputed>>
      /\ ops[r].at = "propose" /\ proposals[q].status = "none"
      /\ proposals' = [proposals EXCEPT ![q] =
                         [status |-> "pending", subject |-> x, memory |-> NoMemory]]
  BY DEF Propose
<1>2. /\ Idle \in Op /\ Idle.at = "idle" /\ Idle.id = NoMemory
      /\ Idle.proposal = NoProposal
  BY IdleType DEF Idle
<1>3. ops'[r] = Idle /\ \A s \in Requests \ {r} : ops'[s] = ops[s]
  BY <1>1, <1>2, StepTo DEF MemoryInv
<1>4. [status |-> "pending", subject |-> x, memory |-> NoMemory] \in ProposalRow
  BY DEF ProposalRow, Subject
<1>5. /\ proposals' \in [Proposal -> ProposalRow]
      /\ proposals'[q].status = "pending"
      /\ \A p \in Proposal \ {q} : proposals'[p] = proposals[p]
  BY <1>1, <1>4 DEF MemoryInv, MemoryTypeOK
<1>6. OpInv(r)'
  BY <1>2, <1>3 DEF OpInv, Creating
<1>7. \A s \in Requests \ {r} : Creating(ops[s]) => Idle.id # ops[s].id
  BY <1>2, MemoryAssumption DEF MemoryInv, OpInv
<1>8. ASSUME NEW p \in Proposal
      PROVE  ProposalInv(p)'
  <2>1. ProposalInv(p) /\ p # NoProposal
    BY MemoryAssumption DEF MemoryInv
  <2>2. \A s \in Requests : ops'[s].proposal = p => ops[s].proposal = p
    BY <1>2, <1>3, <2>1
  <2>3. \A s \in Requests : ops[s].at = "mark" => ops'[s] = ops[s]
    BY <1>1, <1>3
  <2>4. CASE p = q
    BY <1>1, <1>5, <2>1, <2>2, <2>3, <2>4 DEF ProposalInv, Undisputed
  <2>5. CASE p # q
    BY <1>1, <1>5, <2>1, <2>2, <2>3, <2>5 DEF ProposalInv, Undisputed
  <2>6. QED  BY <2>4, <2>5
<1>9. QED
  BY <1>1, <1>2, <1>5, <1>6, <1>7, <1>8, ProposalStep DEF MemoryInv, MemoryTypeOK

(* The beginning of a review. *)
LEMMA ReviewBegins ==
    ASSUME MemoryInv, NEW r \in Requests, NEW q \in Proposal, NEW op \in Op,
           ops[r] = Idle, Reviewable(q), Reviews(q), Step(r, op),
           op.proposal = q, op.at # "mark", OpInv(r)',
           \A s \in Requests \ {r} : Creating(ops[s]) => op.id # ops[s].id,
           UNCHANGED <<memories, proposals, origin, dropped>>
    PROVE  MemoryInv'
<1>1. ops'[r] = op /\ \A s \in Requests \ {r} : ops'[s] = ops[s]
  BY StepTo DEF MemoryInv
<1>2. ops[r].at = "idle" /\ ops[r].proposal = NoProposal /\ q # NoProposal
  BY MemoryAssumption DEF Idle
<1>3. /\ disputed \subseteq disputed' /\ disputed' \subseteq Proposal
      /\ UnderReview(q) => q \in disputed'
  BY DEF Reviews, MemoryInv, MemoryTypeOK
<1>4. ASSUME NEW p \in Proposal
      PROVE  ProposalInv(p)'
  <2>1. ProposalInv(p) /\ p # NoProposal
    BY MemoryAssumption DEF MemoryInv
  <2>2. \A s \in Requests : ops[s].at = "mark" => ops'[s] = ops[s]
    BY <1>1, <1>2
  <2>3. CASE p # q
    <3>1. \A s \in Requests : ops'[s].proposal = p => ops[s].proposal = p
      BY <1>1, <2>3
    <3>2. QED  BY <1>3, <2>1, <2>2, <3>1 DEF ProposalInv, Undisputed
  <2>4. CASE p = q
    <3>1. q \notin disputed' => \A s \in Requests : ops[s].proposal # q
      BY <1>3 DEF UnderReview
    <3>2. q \notin disputed' => \A s \in Requests : ops'[s].proposal = q => s = r
      BY <1>1, <3>1
    <3>3. q \notin disputed' => Undisputed(q)'
      BY <1>3, <2>1, <2>2, <2>4, <3>2
         DEF ProposalInv, Undisputed, Reviewable, Pending
    <3>4. QED  BY <2>1, <2>4, <3>3 DEF ProposalInv
  <2>5. QED  BY <2>3, <2>4
<1>5. QED
  BY <1>2, <1>3, <1>4, ProposalStep DEF MemoryInv, MemoryTypeOK

LEMMA AcceptKeeps ==
    ASSUME MemoryInv, NEW r \in Requests, NEW q \in Proposal, NEW m \in Memory,
           AcceptProposal(r, q, m)
    PROVE  MemoryInv'
<1> DEFINE op == [Idle EXCEPT !.at = "lookup", !.proposal = q, !.id = m,
                              !.subject = proposals[q].subject]
<1>1. proposals[q].subject \in Subject
  BY DEF MemoryInv, MemoryTypeOK, ProposalRow
<1>2. op \in Op /\ op.at = "lookup" /\ op.id = m /\ op.proposal = q
  BY <1>1, IdleType DEF Op, Statements, Idle
<1>3. Step(r, op) /\ memories[m] = NoRow /\ \A s \in Requests : ops[s].id # m
  BY DEF AcceptProposal, Unused
<1> HIDE DEF op
<1>4. ops'[r] = op /\ \A s \in Requests \ {r} : ops'[s] = ops[s]
  BY <1>2, <1>3, StepTo DEF MemoryInv
<1>5. OpInv(r)'
  BY <1>2, <1>3, <1>4 DEF OpInv, Creating, AcceptProposal
<1>6. QED
  BY <1>2, <1>3, <1>5, ReviewBegins DEF AcceptProposal

LEMMA RejectKeeps ==
    ASSUME MemoryInv, NEW r \in Requests, NEW q \in Proposal, RejectProposal(r, q)
    PROVE  MemoryInv'
<1> DEFINE op == [Idle EXCEPT !.at = "reject", !.proposal = q]
<1>1. op \in Op /\ op.at = "reject" /\ op.id = NoMemory /\ op.proposal = q
  BY IdleType DEF Op, Statements, Idle
<1>2. Step(r, op)
  BY DEF RejectProposal
<1> HIDE DEF op
<1>3. ops'[r] = op
  BY <1>1, <1>2, StepTo DEF MemoryInv
<1>4. OpInv(r)'
  BY <1>1, <1>3 DEF OpInv, Creating
<1>5. \A s \in Requests \ {r} : Creating(ops[s]) => op.id # ops[s].id
  BY <1>1, MemoryAssumption DEF MemoryInv, OpInv
<1>6. QED
  BY <1>1, <1>2, <1>4, <1>5, ReviewBegins DEF RejectProposal

(* The end of a review: the status is written whatever it is by then. *)
LEMMA ReviewEnds ==
    ASSUME MemoryInv, NEW r \in Requests, MarkAccepted(r) \/ MarkRejected(r)
    PROVE  MemoryInv'
<1> DEFINE q0 == ops[r].proposal
<1>1. ops[r] \in Op /\ OpInv(r)
  BY DEF MemoryInv, MemoryTypeOK
<1>2. PICK status \in {"accepted", "rejected"}, m \in Memory \cup {NoMemory} :
        /\ proposals' = [proposals EXCEPT ![q0].status = status, ![q0].memory = m]
        /\ status = "accepted" => ops[r].at = "mark" /\ m = ops[r].id
        /\ status = "rejected" => ops[r].at = "reject"
  BY <1>1 DEF MarkAccepted, MarkRejected, Settle, Op
<1>3. /\ Step(r, Idle) /\ UNCHANGED <<memories, origin, dropped, disputed>>
      /\ ops[r].at \in {"mark", "reject"}
  BY DEF MarkAccepted, MarkRejected, Settle
<1>4. q0 \in Proposal
  BY <1>1, <1>3 DEF OpInv
<1> HIDE DEF q0
<1>5. /\ proposals' \in [Proposal -> ProposalRow]
      /\ proposals'[q0].status = status /\ proposals'[q0].memory = m
      /\ \A p \in Proposal \ {q0} : proposals'[p] = proposals[p]
  <2>1. proposals[q0] \in ProposalRow
    BY <1>4 DEF MemoryInv, MemoryTypeOK
  <2>2. [proposals[q0] EXCEPT !.status = status, !.memory = m] \in ProposalRow
    BY <1>2, <2>1 DEF ProposalRow
  <2>3. proposals' = [proposals EXCEPT ![q0] =
                        [proposals[q0] EXCEPT !.status = status, !.memory = m]]
    BY <1>2, <1>4 DEF MemoryInv, MemoryTypeOK
  <2>4. QED
    BY <1>4, <2>1, <2>2, <2>3 DEF MemoryInv, MemoryTypeOK, ProposalRow
<1>6. /\ Idle \in Op /\ Idle.at = "idle" /\ Idle.id = NoMemory
      /\ Idle.proposal = NoProposal
  BY IdleType DEF Idle
<1>7. ops'[r] = Idle /\ \A s \in Requests \ {r} : ops'[s] = ops[s]
  BY <1>3, <1>6, StepTo DEF MemoryInv
<1>8. OpInv(r)'
  BY <1>6, <1>7 DEF OpInv, Creating
<1>9. \A s \in Requests \ {r} : Creating(ops[s]) => Idle.id # ops[s].id
  BY <1>6, MemoryAssumption DEF MemoryInv, OpInv
<1>10. ASSUME NEW p \in Proposal
       PROVE  ProposalInv(p)'
  <2>1. ProposalInv(p) /\ p # NoProposal
    BY MemoryAssumption DEF MemoryInv
  <2>2. \A s \in Requests : ops'[s].proposal = p => s # r /\ ops[s].proposal = p
    BY <1>6, <1>7, <2>1
  <2>3. CASE p # q0
    <3>1. \A s \in Requests : ops[s].proposal = p => ops'[s] = ops[s]
      BY <1>7, <2>3 DEF q0
    <3>2. QED
      BY <1>3, <1>5, <2>1, <2>2, <2>3, <3>1 DEF ProposalInv, Undisputed
  <2>4. CASE p = q0
    <3>1. status = "accepted" => /\ m \in Memory /\ memories[m].status # "none"
                                 /\ origin[m] = p
      BY <1>1, <1>2, <2>4 DEF OpInv, q0
    <3>2. ASSUME p \notin disputed
          PROVE  Undisputed(p)'
      <4>1. Undisputed(p)
        BY <2>1, <3>2 DEF ProposalInv
      <4>2. \A s \in Requests : ops'[s].proposal # p
        BY <2>2, <2>4, <4>1 DEF Undisputed, q0
      <4>3. proposals[p].status = "pending"
        BY <2>4, <4>1 DEF Undisputed, q0
      <4>4. \A n \in Memory : origin[n] = p => ops[r].at = "mark" /\ n = ops[r].id
        BY <2>4, <4>1, <4>3 DEF Undisputed, q0
      <4>5. \A n \in Memory : origin[n] = p => status = "accepted" /\ n = m
        BY <1>2, <4>4
      <4>6. QED
        BY <1>3, <1>5, <2>4, <4>2, <4>5 DEF Undisputed
    <3>3. QED
      BY <1>3, <1>5, <2>4, <3>1, <3>2 DEF ProposalInv
  <2>5. QED  BY <2>3, <2>4
<1>11. QED
  BY <1>3, <1>5, <1>6, <1>8, <1>9, <1>10, ProposalStep DEF MemoryInv, MemoryTypeOK

-----------------------------------------------------------------------------
LEMMA MemoryStutters == MemoryInv /\ UNCHANGED memoryVars => MemoryInv'
<1> SUFFICES ASSUME MemoryInv, UNCHANGED memoryVars
             PROVE  MemoryInv'
  OBVIOUS
<1>1. MemoryTypeOK' /\ RowInv'
  BY DEF memoryVars, MemoryInv, MemoryTypeOK, RowInv
<1>2. \A r \in Requests : OpInv(r)'
  BY DEF memoryVars, MemoryInv, OpInv
<1>3. \A q \in Proposal : ProposalInv(q)'
  BY DEF memoryVars, MemoryInv, ProposalInv, Undisputed
<1>4. \A x \in Subject \ dropped' : KeptInv(x)'
  BY DEF memoryVars, MemoryInv, KeptInv, Known, ActiveOn, Replacing
<1>5. QED  BY <1>1, <1>2, <1>3, <1>4 DEF MemoryInv

LEMMA MemoryInvStep == MemoryInv /\ [MemoryNext]_memoryVars => MemoryInv'
<1> SUFFICES ASSUME MemoryInv, [MemoryNext]_memoryVars
             PROVE  MemoryInv'
  OBVIOUS
<1>1. CASE UNCHANGED memoryVars
  BY <1>1, MemoryStutters
<1>2. ASSUME NEW r \in Requests, MemoryRequest(r)
      PROVE  MemoryInv'
  BY <1>2, CreateKeeps, ReinforceReadKeeps, SynthesisKeeps, AcceptKeeps, RejectKeeps,
     TransitionReadKeeps DEF MemoryRequest
<1>3. ASSUME NEW r \in Requests, MemoryStep(r)
      PROVE  MemoryInv'
  <2>1. CASE CreateStep(r)
    BY <2>1, LookUpKeeps, SupersedeKeeps, InsertKeeps, InsertFailsKeeps DEF CreateStep
  <2>2. CASE SupersedeMemory(r) \/ ArchiveMemory(r)
    BY <2>2, TransitionKeeps DEF SupersedeMemory, ArchiveMemory
  <2>3. CASE \E q \in Proposal, x \in Tag : Propose(r, q, x)
    BY <2>3, ProposeKeeps
  <2>4. QED
    BY <1>3, <2>1, <2>2, <2>3, ReinforceKeeps, SynthesisKeeps, ReviewEnds, InterruptedKeeps
       DEF MemoryStep
<1>4. QED  BY <1>1, <1>2, <1>3 DEF MemoryNext

(* The inductive invariant holds in every reachable state. *)
THEOREM MemoryInvariant == MemorySpec => []MemoryInv
<1>1. MemoryInit => MemoryInv
  BY MemoryStarts
<1>2. MemoryInv /\ [MemoryNext]_memoryVars => MemoryInv'
  BY MemoryInvStep
<1>3. QED  BY <1>1, <1>2, PTL DEF MemorySpec

(* A subject that had a memory has an active one or one about to be        *)
(* inserted, unless it was retired on purpose or a create broke off        *)
(* (Service.CreateMemory: supersede in one statement, insert in another).  *)
THEOREM SubjectIsKept == MemorySpec => []SubjectKept
<1>1. MemoryInv => SubjectKept
  BY DEF MemoryInv, KeptInv, Known, Replacing, SubjectKept
<1>2. QED  BY <1>1, MemoryInvariant, PTL

(* A proposal makes one memory when it is accepted and none when it is     *)
(* rejected, unless two people review it at once or a review breaks off    *)
(* (Service.AcceptProposal, RejectProposal).                               *)
THEOREM ProposalIsSettledOnce == MemorySpec => []ProposalSettledOnce
<1>1. ASSUME MemoryInv
      PROVE  ProposalSettledOnce
  <2> SUFFICES ASSUME NEW q \in Proposal
               PROVE  LET made == {m \in Memory : origin[m] = q}
                          status == proposals[q].status IN
                      /\ status = "accepted" => proposals[q].memory \in made
                      /\ q \notin disputed => /\ Cardinality(made) <= 1
                                              /\ status = "rejected" => made = {}
    BY DEF ProposalSettledOnce
  <2> DEFINE made == {m \in Memory : origin[m] = q}
  <2>1. ProposalInv(q)
    BY <1>1 DEF MemoryInv
  <2>2. proposals[q].status = "accepted" => proposals[q].memory \in made
    BY <2>1 DEF ProposalInv
  <2>3. ASSUME q \notin disputed
        PROVE  /\ \A m, n \in made : m = n
               /\ proposals[q].status = "rejected" => made = {}
    BY <2>1, <2>3 DEF ProposalInv, Undisputed
  <2>4. ASSUME q \notin disputed
        PROVE  Cardinality(made) <= 1
    <3> HIDE DEF made
    <3>1. CASE made = {}
      BY <3>1, FS_EmptySet
    <3>2. CASE made # {}
      <4>1. PICK m : made = {m}
        BY <2>3, <2>4, <3>2
      <4>2. Cardinality({m}) = 1
        BY FS_Singleton
      <4>3. QED  BY <4>1, <4>2
    <3>3. QED  BY <3>1, <3>2
  <2>5. QED  BY <2>2, <2>3, <2>4
<1>2. QED  BY <1>1, MemoryInvariant, PTL

(* A superseded or archived memory comes back only by a reinforcement that *)
(* read it before (Service.ReinforceConceptsForTags).                      *)
THEOREM OnlyReinforcementRevives == MemorySpec => RevivedOnlyByReinforcement
<1> DEFINE Revival == \A m \in Memory :
              memories[m].status \in {"superseded", "archived"} /\ memories'[m].status = "active"
                => \E r \in Requests : /\ ops[r].at = "reinforce" /\ ops[r].id = m
                                       /\ ops'[r] = Idle
<1>1. MemoryInv /\ [MemoryNext]_memoryVars => Revival
  <2> SUFFICES ASSUME MemoryInv, [MemoryNext]_memoryVars, NEW m \in Memory,
                      memories[m].status \in {"superseded", "archived"},
                      memories'[m].status = "active"
               PROVE  \E r \in Requests : /\ ops[r].at = "reinforce" /\ ops[r].id = m
                                          /\ ops'[r] = Idle
    OBVIOUS
  <2>1. memories \in [Memory -> MemoryRow] /\ ops \in [Requests -> Op]
    BY DEF MemoryInv, MemoryTypeOK
  <2>2. memories' # memories
    OBVIOUS
  <2>3. PICK r \in Requests : MemoryRequest(r) \/ MemoryStep(r)
    BY <2>2 DEF memoryVars, MemoryNext
  <2>4. \/ SupersedePrior(r) \/ InsertMemory(r) \/ ReinforceWrite(r)
        \/ \E status \in {"superseded", "archived"}, by \in Memory \cup {NoMemory} :
              TransitionWrite(r, status, by)
    <3>1. ~MemoryRequest(r)
      BY <2>2 DEF MemoryRequest, CreateMemory, ReinforceRead, SynthesizePending,
                  AcceptProposal, RejectProposal, TransitionRead
    <3>2. /\ ~LookUpPrior(r) /\ ~InsertFails(r) /\ ~SynthesizeActive(r)
          /\ ~Interrupted(r) /\ ~MarkAccepted(r) /\ ~MarkRejected(r)
          /\ \A q \in Proposal, x \in Tag : ~Propose(r, q, x)
      BY <2>2 DEF LookUpPrior, InsertFails, SynthesizeActive, Interrupted, MarkAccepted,
                  MarkRejected, Settle, Propose
    <3>3. QED
      BY <2>3, <3>1, <3>2 DEF MemoryStep, CreateStep, SupersedeMemory, ArchiveMemory
  <2>5. CASE SupersedePrior(r)
    <3>1. ops[r].row \in MemoryRow
      BY <2>1 DEF Op
    <3>2. Superseded(ops[r].row, ops[r].id).status = "superseded"
      BY <3>1 DEF Superseded, MemoryRow
    <3>3. QED  BY <2>1, <2>5, <3>2 DEF SupersedePrior
  <2>6. CASE InsertMemory(r)
    <3>1. memories[ops[r].id].status = "none"
      BY <2>6 DEF MemoryInv, OpInv, Creating, InsertMemory, NoRow
    <3>2. QED  BY <2>1, <2>6, <3>1 DEF InsertMemory
  <2>7. CASE ReinforceWrite(r)
    <3>1. ops[r].at = "reinforce" /\ ops'[r] = Idle
      BY <2>1, <2>7 DEF ReinforceWrite, Step
    <3>2. ops[r].id = m
      BY <2>1, <2>7 DEF ReinforceWrite
    <3>3. QED  BY <3>1, <3>2
  <2>8. ASSUME NEW status \in {"superseded", "archived"}, NEW by \in Memory \cup {NoMemory},
               TransitionWrite(r, status, by)
        PROVE  FALSE
    <3>1. ops[r].row \in MemoryRow
      BY <2>1 DEF Op
    <3>2. [ops[r].row EXCEPT !.status = status, !.by = by].status # "active"
      BY <3>1 DEF MemoryRow
    <3>3. QED  BY <2>1, <2>8, <3>2 DEF TransitionWrite
  <2>9. QED  BY <2>4, <2>5, <2>6, <2>7, <2>8
<1>2. QED
  BY <1>1, MemoryInvariant, PTL DEF MemorySpec, RevivedOnlyByReinforcement

-----------------------------------------------------------------------------
(* Curation: a move is settled once.                                       *)

MoveStatus == {"none", "pending", "accepted", "rejected"}

ReviewState ==
    [at : {"idle", "dispatch", "closing", "dispatched", "reject"}, move : Move \cup {NoMove}]

CurationTypeOK ==
    /\ moves \in [Move -> [kind : CurationKind, status : MoveStatus]]
    /\ reviews \in [Reviewers -> ReviewState]
    /\ issueClosed \in [Move -> BOOLEAN]
    /\ applied \in [Move -> Nat] /\ reopened \in [Move -> Nat]
    /\ unneeded \subseteq Move /\ together \subseteq Move /\ brokenOff \subseteq Move

(* A review that has got past its handler has applied its move, or found   *)
(* nothing to do.                                                          *)
ReviewInv ==
    \A v \in Reviewers :
        /\ reviews[v].at = "idle" <=> reviews[v].move = NoMove
        /\ reviews[v].at # "idle" => moves[reviews[v].move].status # "none"
        /\ reviews[v].at = "dispatched" =>
               applied[reviews[v].move] >= 1 \/ reviews[v].move \in unneeded

OneReview(c) == \A v, w \in Reviewers : reviews[v].move = c /\ reviews[w].move = c => v = w

(* A move never under two reviews at once nor left by one past its handler *)
(* is pending while it has a review, and has been applied, once, only if   *)
(* it is accepted or that review is past its handler.                      *)
Alone(c) ==
    /\ \A v \in Reviewers : reviews[v].move = c => moves[c].status = "pending"
    /\ applied[c] <= 1
    /\ applied[c] > 0 => \/ moves[c].status = "accepted"
                         \/ \E v \in Reviewers : /\ reviews[v].move = c
                                                 /\ reviews[v].at = "dispatched"

(* A move that found its issue open may close it, and then a reopen has to *)
(* come before another close.                                              *)
ClosesOpen(c) ==
    /\ applied[c] <= 1 + reopened[c]
    /\ ~issueClosed[c] => applied[c] <= reopened[c]
    /\ \A v \in Reviewers : reviews[v].move = c /\ reviews[v].at = "closing"
                               => applied[c] <= reopened[c]

MoveInv ==
    \A c \in Move :
        /\ moves[c].status = "accepted" => applied[c] >= 1 \/ c \in unneeded
        /\ moves[c].status = "none" => applied[c] = 0
        /\ c \notin together => OneReview(c)
        /\ c \notin together \cup brokenOff => Alone(c)
        /\ moves[c].kind = "close_stale" /\ c \notin together => ClosesOpen(c)

CurationInv == CurationTypeOK /\ ReviewInv /\ MoveInv

-----------------------------------------------------------------------------
LEMMA CurationStarts == CurationInit => CurationInv
BY CurationAssumption
   DEF CurationInit, CurationInv, CurationTypeOK, ReviewState, ReviewInv, MoveInv, OneReview,
       Alone, ClosesOpen, NoReview, MoveStatus, CurationKind

LEMMA CreationKeeps ==
    ASSUME CurationInv, NEW c \in Move, NEW kind \in CurationKind, CreateProposal(c, kind)
    PROVE  CurationInv'
<1>1. moves' \in [Move -> [kind : CurationKind, status : MoveStatus]]
  <2>1. [kind |-> kind, status |-> "pending"] \in [kind : CurationKind, status : MoveStatus]
    BY DEF MoveStatus
  <2>2. QED  BY <2>1 DEF CurationInv, CurationTypeOK, CreateProposal
<1>2. CurationTypeOK'
  BY <1>1 DEF CurationInv, CurationTypeOK, CreateProposal
<1>3. ReviewInv'
  BY CurationAssumption
     DEF CurationInv, CurationTypeOK, ReviewState, ReviewInv, CreateProposal
<1>4. \A v \in Reviewers : reviews[v].move # c
  BY CurationAssumption
     DEF CurationInv, CurationTypeOK, ReviewState, ReviewInv, CreateProposal
<1>5. MoveInv'
  <2> SUFFICES ASSUME NEW d \in Move
               PROVE  /\ moves'[d].status = "accepted" => applied[d] >= 1 \/ d \in unneeded
                      /\ moves'[d].status = "none" => applied[d] = 0
                      /\ d \notin together => OneReview(d)
                      /\ d \notin together \cup brokenOff => Alone(d)'
                      /\ moves'[d].kind = "close_stale" /\ d \notin together => ClosesOpen(d)
    BY DEF MoveInv, CreateProposal, OneReview, ClosesOpen
  <2>1. CASE d # c
    BY <2>1 DEF CurationInv, CurationTypeOK, MoveInv, Alone, CreateProposal
  <2>2. CASE d = c
    <3>1. applied[c] = 0 /\ moves'[c].status = "pending" /\ reopened[c] \in Nat
      BY DEF CurationInv, CurationTypeOK, MoveInv, CreateProposal
    <3>2. QED
      BY <1>4, <2>2, <3>1 DEF OneReview, Alone, ClosesOpen, CreateProposal
  <2>3. QED  BY <2>1, <2>2
<1>6. QED  BY <1>2, <1>3, <1>5 DEF CurationInv

LEMMA ReviewKeeps ==
    ASSUME CurationInv, NEW v \in Reviewers, NEW c \in Move,
           NEW at \in {"dispatch", "reject"}, Review(v, c, at)
    PROVE  CurationInv'
<1>1. reviews' \in [Reviewers -> ReviewState]
  <2>1. [at |-> at, move |-> c] \in ReviewState
    BY DEF ReviewState
  <2>2. QED  BY <2>1 DEF CurationInv, CurationTypeOK, Review
<1>2. CurationTypeOK'
  BY <1>1 DEF CurationInv, CurationTypeOK, Review
<1>3. /\ reviews'[v] = [at |-> at, move |-> c]
      /\ \A w \in Reviewers \ {v} : reviews'[w] = reviews[w]
      /\ reviews[v].at = "idle" /\ reviews[v].move = NoMove
  BY DEF CurationInv, CurationTypeOK, Review, NoReview
<1>4. ReviewInv'
  <2>1. ReviewInv /\ moves[c].status = "pending" /\ UNCHANGED <<moves, applied, unneeded>>
    BY DEF CurationInv, Review, MayReview
  <2>2. QED  BY <1>3, <2>1, CurationAssumption DEF ReviewInv
<1>5. ASSUME NEW d \in Move
      PROVE  /\ moves[d].status = "accepted" => applied[d] >= 1 \/ d \in unneeded
             /\ moves[d].status = "none" => applied[d] = 0
             /\ d \notin together' => OneReview(d)'
             /\ d \notin together' \cup brokenOff => Alone(d)'
             /\ moves[d].kind = "close_stale" /\ d \notin together' => ClosesOpen(d)'
  <2>1. d \notin together' => d \notin together
    BY DEF Review
  <2>2. \A w \in Reviewers : reviews'[w].move = d /\ w # v => reviews'[w] = reviews[w]
    BY <1>3
  <2>3. \A w \in Reviewers : reviews[w].move = d => reviews'[w] = reviews[w]
    BY <1>3, CurationAssumption
  <2>4. reviews'[v].move = d => /\ d = c /\ moves[d].status = "pending"
                                /\ reviews'[v].at \notin {"closing", "dispatched"}
    BY <1>3 DEF Review, MayReview
  <2>5. d = c /\ d \notin together' => \A w \in Reviewers : reviews[w].move # d
    BY DEF Review
  <2>6. d \notin together' => OneReview(d)'
    BY <2>1, <2>2, <2>4, <2>5 DEF CurationInv, MoveInv, OneReview
  <2>7. d \notin together' \cup brokenOff => Alone(d)'
    BY <2>1, <2>2, <2>3, <2>4 DEF CurationInv, MoveInv, Alone, Review
  <2>8. moves[d].kind = "close_stale" /\ d \notin together' => ClosesOpen(d)'
    BY <2>1, <2>2, <2>4 DEF CurationInv, MoveInv, ClosesOpen, Review
  <2>9. QED  BY <2>6, <2>7, <2>8 DEF CurationInv, MoveInv
<1>6. MoveInv'
  BY <1>5 DEF MoveInv, Review
<1>7. QED  BY <1>2, <1>4, <1>6 DEF CurationInv

(* What the steps of a review through its handler have in common. *)
LEMMA Proceeds ==
    ASSUME CurationInv, NEW v \in Reviewers, NEW at \in {"closing", "dispatched"},
           reviews[v].at # "idle", GoesOn(v, at)
    PROVE  /\ reviews[v].move \in Move
           /\ reviews' \in [Reviewers -> ReviewState]
           /\ reviews'[v].at = at
           /\ \A w \in Reviewers : reviews'[w].move = reviews[w].move
           /\ \A w \in Reviewers \ {v} : reviews'[w] = reviews[w]
<1>1. reviews[v].move \in Move
  BY CurationAssumption DEF CurationInv, CurationTypeOK, ReviewState, ReviewInv
<1>2. reviews[v] \in ReviewState /\ [reviews[v] EXCEPT !.at = at] \in ReviewState
  BY DEF CurationInv, CurationTypeOK, ReviewState
<1>3. reviews' = [reviews EXCEPT ![v] = [reviews[v] EXCEPT !.at = at]]
  BY DEF GoesOn
<1>4. QED  BY <1>1, <1>2, <1>3 DEF CurationInv, CurationTypeOK, ReviewState

(* The handler of any kind commits once. *)
LEMMA CommitKeeps ==
    ASSUME CurationInv, NEW v \in Reviewers, Dispatch(v) \/ CloseIssueCommits(v)
    PROVE  CurationInv'
<1> DEFINE c == reviews[v].move
<1>1. /\ reviews[v].at \in {"dispatch", "closing"} /\ GoesOn(v, "dispatched")
      /\ UNCHANGED <<moves, reopened, unneeded, together, brokenOff>>
      /\ applied' = [applied EXCEPT ![c] = applied[c] + 1]
      /\ \/ UNCHANGED issueClosed /\ moves[c].kind # "close_stale"
         \/ issueClosed' = [issueClosed EXCEPT ![c] = TRUE] /\ reviews[v].at = "closing"
  BY DEF Dispatch, CloseIssueCommits
<1>2. /\ c \in Move /\ reviews' \in [Reviewers -> ReviewState]
      /\ reviews'[v].at = "dispatched"
      /\ \A w \in Reviewers : reviews'[w].move = reviews[w].move
      /\ \A w \in Reviewers \ {v} : reviews'[w] = reviews[w]
  BY <1>1, Proceeds
<1>3. /\ applied[c] \in Nat /\ applied'[c] = applied[c] + 1
      /\ \A d \in Move \ {c} : applied'[d] = applied[d] /\ issueClosed'[d] = issueClosed[d]
      /\ applied' \in [Move -> Nat] /\ issueClosed' \in [Move -> BOOLEAN]
  <2>1. /\ applied[c] \in Nat /\ applied'[c] = applied[c] + 1
        /\ \A d \in Move \ {c} : applied'[d] = applied[d]
        /\ applied' \in [Move -> Nat]
    BY <1>1, <1>2 DEF CurationInv, CurationTypeOK
  <2>2. /\ \A d \in Move \ {c} : issueClosed'[d] = issueClosed[d]
        /\ issueClosed' \in [Move -> BOOLEAN]
    <3>1. issueClosed \in [Move -> BOOLEAN]
      BY DEF CurationInv, CurationTypeOK
    <3>2. [issueClosed EXCEPT ![c] = TRUE] \in [Move -> BOOLEAN]
      BY <3>1
    <3>3. QED  BY <1>1, <1>2, <3>1, <3>2
  <2>3. QED  BY <2>1, <2>2
<1>4. CurationTypeOK'
  BY <1>1, <1>2, <1>3 DEF CurationInv, CurationTypeOK
<1>5. ReviewInv'
  <2>1. \A w \in Reviewers : reviews[w].at = "dispatched" =>
            applied'[reviews[w].move] >= 1 \/ reviews[w].move \in unneeded
    BY <1>2, <1>3, CurationAssumption
       DEF CurationInv, CurationTypeOK, ReviewState, ReviewInv
  <2>2. QED
    BY <1>1, <1>2, <1>3, <2>1, CurationAssumption DEF CurationInv, ReviewInv
<1>6. MoveInv'
  <2> SUFFICES ASSUME NEW d \in Move
               PROVE  /\ moves[d].status = "accepted" => applied'[d] >= 1 \/ d \in unneeded
                      /\ moves[d].status = "none" => applied'[d] = 0
                      /\ d \notin together => OneReview(d)'
                      /\ d \notin together \cup brokenOff => Alone(d)'
                      /\ moves[d].kind = "close_stale" /\ d \notin together => ClosesOpen(d)'
    BY <1>1 DEF MoveInv
  <2>1. d \notin together => OneReview(d)'
    BY <1>2 DEF CurationInv, MoveInv, OneReview
  <2>2. CASE d # c
    <3>1. \A w \in Reviewers : reviews[w].move = d => reviews'[w] = reviews[w]
      BY <1>2, <2>2
    <3>2. d \notin together \cup brokenOff => Alone(d)'
      BY <1>1, <1>2, <1>3, <2>2, <3>1 DEF CurationInv, MoveInv, Alone
    <3>3. moves[d].kind = "close_stale" /\ d \notin together => ClosesOpen(d)'
      BY <1>1, <1>2, <1>3, <2>2, <3>1 DEF CurationInv, MoveInv, ClosesOpen
    <3>4. QED  BY <1>3, <2>1, <2>2, <3>2, <3>3 DEF CurationInv, MoveInv
  <2>3. CASE d = c
    <3>1. moves[d].status # "none"
      BY <1>1, <2>3 DEF CurationInv, ReviewInv
    <3>2. ASSUME d \notin together \cup brokenOff
          PROVE  Alone(d)'
      <4>1. Alone(d) /\ OneReview(d)
        BY <3>2 DEF CurationInv, MoveInv
      <4>2. \A w \in Reviewers : reviews[w].move = d => w = v
        BY <2>3, <4>1 DEF OneReview
      <4>3. applied[d] = 0
        BY <1>1, <1>3, <2>3, <4>1, <4>2 DEF Alone
      <4>4. QED  BY <1>1, <1>2, <1>3, <2>3, <4>1, <4>2, <4>3 DEF Alone
    <3>3. ASSUME moves[d].kind = "close_stale", d \notin together
          PROVE  ClosesOpen(d)'
      <4>1. ClosesOpen(d) /\ OneReview(d)
        BY <3>3 DEF CurationInv, MoveInv
      <4>2. reviews[v].at = "closing" /\ issueClosed'[d] = TRUE
        BY <1>1, <1>2, <2>3, <3>3 DEF CurationInv, CurationTypeOK
      <4>3. applied[d] <= reopened[d] /\ reopened[d] \in Nat /\ reopened'[d] = reopened[d]
        BY <1>1, <2>3, <4>1, <4>2 DEF ClosesOpen, CurationInv, CurationTypeOK
      <4>4. \A w \in Reviewers : reviews'[w].move = d => reviews'[w].at = "dispatched"
        BY <1>2, <2>3, <4>1 DEF OneReview
      <4>5. QED  BY <1>3, <2>3, <4>2, <4>3, <4>4 DEF ClosesOpen
    <3>4. QED  BY <1>3, <2>1, <2>3, <3>1, <3>2, <3>3
  <2>4. QED  BY <2>2, <2>3
<1>7. QED  BY <1>4, <1>5, <1>6 DEF CurationInv

(* Only a review that sees the issue open goes on to close it. *)
LEMMA DispatchCloseKeeps ==
    ASSUME CurationInv, NEW v \in Reviewers, DispatchClose(v)
    PROVE  CurationInv'
<1> DEFINE c == reviews[v].move
<1>1. /\ reviews[v].at = "dispatch"
      /\ UNCHANGED <<moves, issueClosed, applied, reopened, together, brokenOff>>
      /\ \/ /\ issueClosed[c] /\ GoesOn(v, "dispatched")
            /\ unneeded' = unneeded \cup {c}
         \/ ~issueClosed[c] /\ GoesOn(v, "closing") /\ UNCHANGED unneeded
  BY DEF DispatchClose, SeenClosed
<1>2. /\ c \in Move /\ reviews' \in [Reviewers -> ReviewState]
      /\ \/ reviews'[v].at = "dispatched" /\ c \in unneeded'
         \/ reviews'[v].at = "closing" /\ ~issueClosed[c]
      /\ \A w \in Reviewers : reviews'[w].move = reviews[w].move
      /\ \A w \in Reviewers \ {v} : reviews'[w] = reviews[w]
  BY <1>1, Proceeds
<1>3. unneeded \subseteq unneeded' /\ unneeded' \subseteq Move
  BY <1>1, <1>2 DEF CurationInv, CurationTypeOK
<1>4. CurationTypeOK'
  BY <1>1, <1>2, <1>3 DEF CurationInv, CurationTypeOK
<1>5. ReviewInv'
  BY <1>1, <1>2, <1>3, CurationAssumption DEF CurationInv, ReviewInv
<1>6. MoveInv'
  <2> SUFFICES ASSUME NEW d \in Move
               PROVE  /\ moves[d].status = "accepted" => applied[d] >= 1 \/ d \in unneeded'
                      /\ moves[d].status = "none" => applied[d] = 0
                      /\ d \notin together => OneReview(d)'
                      /\ d \notin together \cup brokenOff => Alone(d)'
                      /\ moves[d].kind = "close_stale" /\ d \notin together => ClosesOpen(d)'
    BY <1>1 DEF MoveInv
  <2>1. d \notin together => OneReview(d)'
    BY <1>2 DEF CurationInv, MoveInv, OneReview
  <2>2. \A w \in Reviewers : reviews[w].at = "dispatched" => reviews'[w] = reviews[w]
    BY <1>1, <1>2
  <2>3. d \notin together \cup brokenOff => Alone(d)'
    BY <1>1, <1>2, <2>2 DEF CurationInv, MoveInv, Alone
  <2>4. \A w \in Reviewers : reviews'[w].move = d /\ reviews'[w].at = "closing" =>
            reviews[w].move = d /\ (reviews[w].at = "closing" \/ ~issueClosed[d])
    BY <1>1, <1>2
  <2>5. moves[d].kind = "close_stale" /\ d \notin together => ClosesOpen(d)'
    BY <1>1, <2>4 DEF CurationInv, MoveInv, ClosesOpen
  <2>6. QED  BY <1>3, <2>1, <2>3, <2>5 DEF CurationInv, MoveInv
<1>7. QED  BY <1>4, <1>5, <1>6 DEF CurationInv

(* A reopen makes room for one more close. *)
LEMMA CommandKeeps ==
    ASSUME CurationInv, NEW c \in Move, NEW closes \in BOOLEAN, IssueCommand(c, closes)
    PROVE  CurationInv'
<1>1. /\ UNCHANGED <<moves, reviews, applied, unneeded, together, brokenOff>>
      /\ issueClosed' \in [Move -> BOOLEAN] /\ reopened' \in [Move -> Nat]
      /\ \A d \in Move : \/ reopened'[d] = reopened[d] /\ issueClosed'[d] = issueClosed[d]
                         \/ reopened'[d] = reopened[d] /\ issueClosed'[d] = TRUE
                         \/ reopened'[d] = reopened[d] + 1 /\ issueClosed'[d] = FALSE
  BY DEF IssueCommand, CurationInv, CurationTypeOK
<1>2. CurationTypeOK'
  BY <1>1 DEF CurationInv, CurationTypeOK
<1>3. ReviewInv'
  BY <1>1 DEF CurationInv, ReviewInv
<1>4. ASSUME NEW d \in Move, ClosesOpen(d)
      PROVE  ClosesOpen(d)'
  <2>1. applied[d] \in Nat /\ reopened[d] \in Nat /\ applied'[d] = applied[d]
    BY <1>1 DEF CurationInv, CurationTypeOK
  <2>2. /\ applied[d] <= 1 + reopened[d]
        /\ ~issueClosed[d] => applied[d] <= reopened[d]
    BY <1>4 DEF ClosesOpen
  <2>3. /\ applied[d] <= 1 + reopened'[d]
        /\ ~issueClosed'[d] => applied[d] <= reopened'[d]
        /\ applied[d] <= reopened[d] => applied[d] <= reopened'[d]
    BY <1>1, <2>1, <2>2
  <2>4. QED  BY <1>1, <1>4, <2>1, <2>3 DEF ClosesOpen
<1>5. MoveInv'
  BY <1>1, <1>4 DEF CurationInv, MoveInv, OneReview, Alone
<1>6. QED  BY <1>2, <1>3, <1>5 DEF CurationInv

(* What the three ways to end a review have in common. *)
LEMMA Ended ==
    ASSUME CurationInv, NEW v \in Reviewers, reviews' = [reviews EXCEPT ![v] = NoReview]
    PROVE  /\ reviews' \in [Reviewers -> ReviewState]
           /\ reviews'[v].at = "idle" /\ reviews'[v].move = NoMove
           /\ \A w \in Reviewers \ {v} : reviews'[w] = reviews[w]
           /\ \A c \in Move : c \notin together => OneReview(c)'
           /\ \A c \in Move, w \in Reviewers : reviews'[w].move = c => reviews'[w] = reviews[w]
<1>1. NoReview \in ReviewState
  BY DEF NoReview, ReviewState
<1>2. /\ reviews' \in [Reviewers -> ReviewState]
      /\ reviews'[v].at = "idle" /\ reviews'[v].move = NoMove
      /\ \A w \in Reviewers \ {v} : reviews'[w] = reviews[w]
  BY <1>1 DEF CurationInv, CurationTypeOK, NoReview
<1>3. \A c \in Move, w \in Reviewers : reviews'[w].move = c => reviews'[w] = reviews[w]
  BY <1>2, CurationAssumption
<1>4. \A c \in Move : c \notin together => OneReview(c)'
  BY <1>3 DEF CurationInv, MoveInv, OneReview
<1>5. QED  BY <1>2, <1>3, <1>4

LEMMA LeavingKeeps ==
    ASSUME CurationInv, NEW v \in Reviewers, DispatchFails(v) \/ ReviewBreaksOff(v)
    PROVE  CurationInv'
<1> DEFINE c == reviews[v].move
<1>1. c \in Move
  BY CurationAssumption
     DEF CurationInv, CurationTypeOK, ReviewState, ReviewInv, DispatchFails, ReviewBreaksOff
<1>2. /\ reviews' = [reviews EXCEPT ![v] = NoReview]
      /\ UNCHANGED <<moves, issueClosed, applied, reopened, unneeded, together>>
      /\ brokenOff' \in {brokenOff, brokenOff \cup {c}}
      /\ reviews[v].at = "dispatched" => c \in brokenOff'
  BY DEF DispatchFails, ReviewBreaksOff
<1>3. CurationTypeOK'
  BY <1>1, <1>2, Ended DEF CurationInv, CurationTypeOK
<1>4. ReviewInv'
  BY <1>2, Ended, CurationAssumption DEF CurationInv, CurationTypeOK, ReviewInv
<1>5. ASSUME NEW d \in Move, d \notin together \cup brokenOff'
      PROVE  Alone(d)'
  <2>1. Alone(d)
    BY <1>2, <1>5 DEF CurationInv, MoveInv
  <2>2. \A w \in Reviewers : reviews'[w].move = d => reviews'[w] = reviews[w]
    BY <1>2, Ended
  <2>3. \A w \in Reviewers : reviews[w].move = d /\ reviews[w].at = "dispatched"
                               => reviews'[w] = reviews[w]
    BY <1>2, <1>5, Ended
  <2>4. QED
    BY <1>2, <2>1, <2>2, <2>3 DEF Alone
<1>6. ASSUME NEW d \in Move, ClosesOpen(d)
      PROVE  ClosesOpen(d)'
  BY <1>2, <1>6, Ended DEF ClosesOpen
<1>7. MoveInv'
  BY <1>2, <1>5, <1>6, Ended DEF CurationInv, MoveInv
<1>8. QED  BY <1>3, <1>4, <1>7 DEF CurationInv

LEMMA SettlingKeeps ==
    ASSUME CurationInv, NEW v \in Reviewers, MarkMoveAccepted(v) \/ MarkMoveRejected(v)
    PROVE  CurationInv'
<1> DEFINE c == reviews[v].move
<1>1. c \in Move
  BY CurationAssumption
     DEF CurationInv, CurationTypeOK, ReviewState, ReviewInv, MarkMoveAccepted, MarkMoveRejected
<1>2. /\ reviews' = [reviews EXCEPT ![v] = NoReview]
      /\ UNCHANGED <<issueClosed, applied, reopened, unneeded, together, brokenOff>>
      /\ \/ reviews[v].at = "dispatched" /\ moves' = [moves EXCEPT ![c].status = "accepted"]
         \/ reviews[v].at = "reject" /\ moves' = [moves EXCEPT ![c].status = "rejected"]
  BY DEF MarkMoveAccepted, MarkMoveRejected, SettleMove
<1>3. moves' \in [Move -> [kind : CurationKind, status : MoveStatus]]
  <2>1. \A status \in MoveStatus :
           [moves[c] EXCEPT !.status = status] \in [kind : CurationKind, status : MoveStatus]
    BY <1>1 DEF CurationInv, CurationTypeOK
  <2>2. \E status \in MoveStatus :
           moves' = [moves EXCEPT ![c] = [moves[c] EXCEPT !.status = status]]
    BY <1>2 DEF MoveStatus
  <2>3. QED  BY <1>1, <2>1, <2>2 DEF CurationInv, CurationTypeOK
<1>4. /\ \A d \in Move \ {c} : moves'[d] = moves[d]
      /\ moves'[c].kind = moves[c].kind
      /\ \/ reviews[v].at = "dispatched" /\ moves'[c].status = "accepted"
         \/ reviews[v].at = "reject" /\ moves'[c].status = "rejected"
  BY <1>1, <1>2 DEF CurationInv, CurationTypeOK
<1>5. CurationTypeOK'
  BY <1>2, <1>3, Ended DEF CurationInv, CurationTypeOK
<1>6. ReviewInv'
  <2> SUFFICES ASSUME NEW w \in Reviewers
               PROVE  /\ reviews'[w].at = "idle" <=> reviews'[w].move = NoMove
                      /\ reviews'[w].at # "idle" => moves'[reviews'[w].move].status # "none"
                      /\ reviews'[w].at = "dispatched" =>
                             applied[reviews'[w].move] >= 1 \/ reviews'[w].move \in unneeded
    BY <1>2 DEF ReviewInv
  <2>1. CASE w = v
    BY <1>2, <2>1, Ended
  <2>2. CASE w # v
    BY <1>2, <1>4, <2>2, Ended, CurationAssumption
       DEF CurationInv, CurationTypeOK, ReviewState, ReviewInv
  <2>3. QED  BY <2>1, <2>2
<1>7. ASSUME NEW d \in Move, d \notin together \cup brokenOff
      PROVE  Alone(d)'
  <2>1. Alone(d) /\ OneReview(d)
    BY <1>7 DEF CurationInv, MoveInv
  <2>2. CASE d # c
    <3>1. \A w \in Reviewers : reviews'[w].move = d => reviews'[w] = reviews[w]
      BY <1>2, Ended
    <3>2. \A w \in Reviewers : reviews[w].move = d => reviews'[w] = reviews[w]
      BY <1>2, <2>2, Ended
    <3>3. moves'[d] = moves[d]
      BY <1>4, <2>2
    <3>4. QED
      BY <1>2, <2>1, <3>1, <3>2, <3>3 DEF Alone
  <2>3. CASE d = c
    <3>1. \A w \in Reviewers : reviews'[w].move # d
      <4>1. reviews'[v].move # d
        BY <1>2, <2>3, Ended, CurationAssumption
      <4>2. \A w \in Reviewers : reviews[w].move = d => w = v
        BY <2>1, <2>3 DEF OneReview
      <4>3. \A w \in Reviewers \ {v} : reviews'[w] = reviews[w]
        BY <1>2, Ended
      <4>4. QED  BY <4>1, <4>2, <4>3
    <3>2. \A w \in Reviewers : reviews[w].move = d => w = v
      BY <2>1, <2>3 DEF OneReview
    <3>3. applied[d] <= 1 /\ (applied[d] > 0 => moves'[d].status = "accepted")
      BY <1>2, <1>4, <2>1, <2>3, <3>2 DEF Alone
    <3>4. QED  BY <1>2, <3>1, <3>3 DEF Alone
  <2>4. QED  BY <2>2, <2>3
<1>8. ASSUME NEW d \in Move, ClosesOpen(d)
      PROVE  ClosesOpen(d)'
  BY <1>2, <1>8, Ended DEF ClosesOpen
<1>9. MoveInv'
  <2> SUFFICES ASSUME NEW d \in Move
               PROVE  /\ moves'[d].status = "accepted" => applied[d] >= 1 \/ d \in unneeded
                      /\ moves'[d].status = "none" => applied[d] = 0
                      /\ moves'[d].kind = moves[d].kind
    BY <1>2, <1>7, <1>8, Ended DEF CurationInv, MoveInv
  <2>1. CASE d # c
    BY <1>4, <2>1 DEF CurationInv, MoveInv
  <2>2. CASE d = c
    BY <1>4, <2>2 DEF CurationInv, MoveInv, ReviewInv
  <2>3. QED  BY <2>1, <2>2
<1>10. QED  BY <1>5, <1>6, <1>9 DEF CurationInv

LEMMA CurationStep == CurationInv /\ [CurationNext]_curationVars => CurationInv'
<1> SUFFICES ASSUME CurationInv, [CurationNext]_curationVars
             PROVE  CurationInv'
  OBVIOUS
<1>1. CASE UNCHANGED curationVars
  BY <1>1 DEF curationVars, CurationInv, CurationTypeOK, ReviewInv, MoveInv, OneReview, Alone,
              ClosesOpen
<1>2. ASSUME NEW c \in Move, NEW kind \in CurationKind, CreateProposal(c, kind)
      PROVE  CurationInv'
  BY <1>2, CreationKeeps
<1>3. ASSUME NEW v \in Reviewers, NEW c \in Move, AcceptMove(v, c) \/ RejectMove(v, c)
      PROVE  CurationInv'
  BY <1>3, ReviewKeeps DEF AcceptMove, RejectMove
<1>4. ASSUME NEW c \in Move, NEW closes \in BOOLEAN, IssueCommand(c, closes)
      PROVE  CurationInv'
  BY <1>4, CommandKeeps
<1>5. ASSUME NEW v \in Reviewers,
             \/ Dispatch(v) \/ DispatchClose(v) \/ CloseIssueCommits(v) \/ DispatchFails(v)
             \/ MarkMoveAccepted(v) \/ MarkMoveRejected(v) \/ ReviewBreaksOff(v)
      PROVE  CurationInv'
  BY <1>5, CommitKeeps, DispatchCloseKeeps, LeavingKeeps, SettlingKeeps
<1>6. QED  BY <1>1, <1>2, <1>3, <1>4, <1>5 DEF CurationNext

(* The inductive invariant holds in every reachable state. *)
THEOREM CurationInvariant == CurationSpec => []CurationInv
<1>1. CurationInit => CurationInv
  BY CurationStarts
<1>2. CurationInv /\ [CurationNext]_curationVars => CurationInv'
  BY CurationStep
<1>3. QED  BY <1>1, <1>2, PTL DEF CurationSpec

(* However reviews overlap, fail and are repeated, an accepted move has    *)
(* been applied or had nothing to apply; with no two reviews at once and   *)
(* none broken off, as often as its status says. Reviews one after the     *)
(* other close an issue again only after a reopen, though the status is    *)
(* read in a statement before the close (Service.AcceptProposal applies,   *)
(* then writes the status of the proposal).                                *)
THEOREM MoveIsSettledOnce == CurationSpec => []MoveSettledOnce
<1>1. CurationInv => MoveSettledOnce
  BY DEF CurationInv, CurationTypeOK, MoveInv, Alone, ClosesOpen, MoveSettledOnce
<1>2. QED  BY <1>1, CurationInvariant, PTL
=============================================================================
