------------------------------ MODULE Memories ------------------------------
(***************************************************************************)
(* Memories: prose kept beside the issues. A concept profiles one tag and  *)
(* the overview frames the project; each has at most one active row, which *)
(* a partial unique index enforces. Nothing here runs in a transaction:    *)
(* every operation is a few statements that each commit, and rows are read *)
(* in one of them and written back whole in another.                       *)
(***************************************************************************)
EXTENDS Naturals, FiniteSets

CONSTANTS
    Memory,    \* memory ids
    Tag,       \* subjects of concepts
    Overview,  \* the subject of the overview
    Proposal,  \* ids of memory proposals
    Requests,  \* requests, and enrichments that reinforce concepts
    NoMemory, NoProposal

Subject == Tag \cup {Overview}

ASSUME MemoryAssumption ==
    Overview \notin Tag /\ NoMemory \notin Memory /\ NoProposal \notin Proposal

VARIABLES
    memories,  \* memories[m]: its row
    proposals, \* proposals[q]: its row
    ops,       \* ops[r]: where request r is and what it has read
    origin,    \* history: the proposal a memory was made from
    dropped,   \* history: subjects retired on purpose, or by half a create
    disputed   \* history: proposals with two reviews at once, or half a one

memoryVars == <<memories, proposals, ops, origin, dropped, disputed>>

NoRow == [status |-> "none", subject |-> Overview, by |-> NoMemory]
ActiveRow(x) == [status |-> "active", subject |-> x, by |-> NoMemory]

(* at: the next statement; id: the memory made or changed; subject: of the *)
(* memory made; row: what was read of memory id or of prior; proposal: the *)
(* proposal under review; covered: subjects a synthesis leaves alone.      *)
Idle == [at |-> "idle", id |-> NoMemory, subject |-> Overview, prior |-> NoMemory,
         row |-> NoRow, proposal |-> NoProposal, covered |-> {}]

ActiveOn(x) == {m \in Memory : memories[m].status = "active" /\ memories[m].subject = x}

Step(r, op) == ops' = [ops EXCEPT ![r] = op]

(* Mutants: an index that is not partial, a prior that is retired by       *)
(* naming its successor only, a review that does not look whether the      *)
(* proposal is pending.                                                    *)
IndexOfAll(m, x) == {n \in Memory : memories[n].status # "none" /\ memories[n].subject = x} \ {m}
OnlyNamed(row, m) == [row EXCEPT !.by = m]
AnyStatus(q) == proposals[q].status # "none"

-----------------------------------------------------------------------------
(* CreateMemory: the prior row of the subject is looked up, superseded and *)
(* replaced in three statements.                                           *)

Unused(m) == memories[m] = NoRow /\ \A r \in Requests : ops[r].id # m

CreateMemory(r, m, x) ==
    /\ ops[r] = Idle
    /\ Unused(m)
    /\ Step(r, [Idle EXCEPT !.at = "lookup", !.id = m, !.subject = x])
    /\ UNCHANGED <<memories, proposals, origin, dropped, disputed>>

LookUpPrior(r) ==
    LET prior == ActiveOn(ops[r].subject) IN
    /\ ops[r].at = "lookup"
    /\ IF prior = {}
       THEN Step(r, [ops[r] EXCEPT !.at = "insert"])
       ELSE \E m \in prior :
              Step(r, [ops[r] EXCEPT !.at = "supersede", !.prior = m, !.row = memories[m]])
    /\ UNCHANGED <<memories, proposals, origin, dropped, disputed>>

Superseded(row, m) == [row EXCEPT !.status = "superseded", !.by = m]

SupersedePrior(r) ==
    /\ ops[r].at = "supersede"
    /\ memories' = [memories EXCEPT ![ops[r].prior] = Superseded(ops[r].row, ops[r].id)]
    /\ Step(r, [ops[r] EXCEPT !.at = "insert"])
    /\ UNCHANGED <<proposals, origin, dropped, disputed>>

(* Rows that keep an active row of m on x out of the index. *)
InTheWay(m, x) == ActiveOn(x) \ {m}

InsertMemory(r) ==
    LET op == ops[r] IN
    /\ op.at = "insert"
    /\ InTheWay(op.id, op.subject) = {}
    /\ memories' = [memories EXCEPT ![op.id] = ActiveRow(op.subject)]
    /\ origin' = [origin EXCEPT ![op.id] = op.proposal]
    /\ Step(r, IF op.proposal = NoProposal THEN Idle ELSE [op EXCEPT !.at = "mark"])
    /\ UNCHANGED <<proposals, dropped, disputed>>

InsertFails(r) ==
    /\ ops[r].at = "insert"
    /\ InTheWay(ops[r].id, ops[r].subject) # {}
    /\ Step(r, Idle)
    /\ UNCHANGED <<memories, proposals, origin, dropped, disputed>>

-----------------------------------------------------------------------------
(* ReinforceConceptsForTags, for one tag: the active concept is read and   *)
(* written back, active, with a higher count (which is left out).          *)

ReinforceRead(r, x) ==
    /\ ops[r] = Idle
    /\ \E m \in ActiveOn(x) :
         Step(r, [Idle EXCEPT !.at = "reinforce", !.id = m, !.row = memories[m]])
    /\ UNCHANGED <<memories, proposals, origin, dropped, disputed>>

ReinforceWrite(r) ==
    LET op == ops[r] IN
    /\ op.at = "reinforce"
    /\ memories' = IF InTheWay(op.id, op.row.subject) = {}
                   THEN [memories EXCEPT ![op.id] = op.row] ELSE memories
    /\ Step(r, Idle)
    /\ UNCHANGED <<proposals, origin, dropped, disputed>>

(* SupersedeMemory and ArchiveMemory. *)
TransitionRead(r, m) ==
    /\ ops[r] = Idle
    /\ memories[m] # NoRow
    /\ Step(r, [Idle EXCEPT !.at = "transition", !.id = m, !.row = memories[m]])
    /\ UNCHANGED <<memories, proposals, origin, dropped, disputed>>

TransitionWrite(r, status, by) ==
    LET op == ops[r] IN
    /\ op.at = "transition"
    /\ by # op.id
    /\ memories' = [memories EXCEPT ![op.id] =
                      [op.row EXCEPT !.status = status, !.by = by]]
    /\ dropped' = dropped \cup {op.row.subject}
    /\ Step(r, Idle)
    /\ UNCHANGED <<proposals, origin, disputed>>

SupersedeMemory(r) == \E by \in Memory \cup {NoMemory} : TransitionWrite(r, "superseded", by)
ArchiveMemory(r) == TransitionWrite(r, "archived", NoMemory)

-----------------------------------------------------------------------------
(* Proposals of concepts. SynthesizeProposals reads the pending proposals, *)
(* then the active memories, and drafts for a subject that has neither.    *)

Pending(q) == proposals[q].status = "pending"

SynthesizePending(r) ==
    /\ ops[r] = Idle
    /\ Step(r, [Idle EXCEPT !.at = "synthesize",
                            !.covered = {proposals[q].subject : q \in {p \in Proposal : Pending(p)}}])
    /\ UNCHANGED <<memories, proposals, origin, dropped, disputed>>

SynthesizeActive(r) ==
    /\ ops[r].at = "synthesize"
    /\ Step(r, [ops[r] EXCEPT !.at = "propose",
                              !.covered = @ \cup {x \in Tag : ActiveOn(x) # {}}])
    /\ UNCHANGED <<memories, proposals, origin, dropped, disputed>>

Propose(r, q, x) ==
    /\ ops[r].at = "propose"
    /\ x \notin ops[r].covered
    /\ proposals[q].status = "none"
    /\ proposals' = [proposals EXCEPT ![q] =
                       [status |-> "pending", subject |-> x, memory |-> NoMemory]]
    /\ Step(r, Idle)
    /\ UNCHANGED <<memories, origin, dropped, disputed>>

(* AcceptProposal creates the memory and marks the proposal afterwards;    *)
(* RejectProposal marks it. Both read it first, in a statement of their    *)
(* own.                                                                    *)
Reviewable(q) == Pending(q)

UnderReview(q) == \E r \in Requests : ops[r].proposal = q

Reviews(q) == disputed' = IF UnderReview(q) THEN disputed \cup {q} ELSE disputed

AcceptProposal(r, q, m) ==
    /\ ops[r] = Idle
    /\ Reviewable(q)
    /\ Unused(m)
    /\ Reviews(q)
    /\ Step(r, [Idle EXCEPT !.at = "lookup", !.proposal = q, !.id = m,
                            !.subject = proposals[q].subject])
    /\ UNCHANGED <<memories, proposals, origin, dropped>>

Settle(r, status, m) ==
    /\ proposals' = [proposals EXCEPT ![ops[r].proposal].status = status,
                                      ![ops[r].proposal].memory = m]
    /\ Step(r, Idle)
    /\ UNCHANGED <<memories, origin, dropped, disputed>>

MarkAccepted(r) == ops[r].at = "mark" /\ Settle(r, "accepted", ops[r].id)

RejectProposal(r, q) ==
    /\ ops[r] = Idle
    /\ Reviewable(q)
    /\ Reviews(q)
    /\ Step(r, [Idle EXCEPT !.at = "reject", !.proposal = q])
    /\ UNCHANGED <<memories, proposals, origin, dropped>>

MarkRejected(r) == ops[r].at = "reject" /\ Settle(r, "rejected", NoMemory)

(* The request is cancelled, a statement fails or the process dies. *)
Interrupted(r) ==
    LET op == ops[r] IN
    /\ op # Idle
    /\ dropped' = IF op.at = "insert" /\ op.prior # NoMemory
                  THEN dropped \cup {op.subject} ELSE dropped
    /\ disputed' = IF op.at = "mark" THEN disputed \cup {op.proposal} ELSE disputed
    /\ Step(r, Idle)
    /\ UNCHANGED <<memories, proposals, origin>>

-----------------------------------------------------------------------------
MemoryInit ==
    /\ memories = [m \in Memory |-> NoRow]
    /\ proposals = [q \in Proposal |->
                      [status |-> "none", subject |-> Overview, memory |-> NoMemory]]
    /\ ops = [r \in Requests |-> Idle]
    /\ origin = [m \in Memory |-> NoProposal]
    /\ dropped = {}
    /\ disputed = {}

CreateStep(r) == LookUpPrior(r) \/ SupersedePrior(r) \/ InsertMemory(r) \/ InsertFails(r)

MemoryRequest(r) ==
    \/ \E m \in Memory, x \in Subject : CreateMemory(r, m, x)
    \/ \E x \in Tag : ReinforceRead(r, x)
    \/ SynthesizePending(r)
    \/ \E q \in Proposal, m \in Memory : AcceptProposal(r, q, m)
    \/ \E q \in Proposal : RejectProposal(r, q)
    \/ \E m \in Memory : TransitionRead(r, m)

MemoryStep(r) ==
    \/ CreateStep(r) \/ ReinforceWrite(r) \/ SupersedeMemory(r) \/ ArchiveMemory(r)
    \/ SynthesizeActive(r)
    \/ \E q \in Proposal, x \in Tag : Propose(r, q, x)
    \/ MarkAccepted(r) \/ MarkRejected(r) \/ Interrupted(r)

MemoryNext == \E r \in Requests : MemoryRequest(r) \/ MemoryStep(r)

MemorySpec == MemoryInit /\ [][MemoryNext]_memoryVars

-----------------------------------------------------------------------------
(* Properties.                                                             *)

(* A retired memory comes back only by a reinforcement that read it while  *)
(* it was active; a replacement, a transition or a review never revives    *)
(* one.                                                                    *)
RevivedOnlyByReinforcement ==
    [][\A m \in Memory :
         memories[m].status \in {"superseded", "archived"} /\ memories'[m].status = "active"
           => \E r \in Requests : /\ ops[r].at = "reinforce" /\ ops[r].id = m
                                  /\ ops'[r] = Idle]_memoryVars

(* Replacing a concept or the overview loses nothing although it retires   *)
(* the old row in one statement and inserts the new one in another: a      *)
(* subject that had a memory has an active one, or one about to be         *)
(* inserted, however creates, reinforcements and reviews interleave,       *)
(* unless it was retired on purpose or a create broke off in between.      *)
SubjectKept ==
    \A x \in Subject \ dropped :
        (\E m \in Memory : memories[m].status # "none" /\ memories[m].subject = x)
          => ActiveOn(x) # {} \/ \E r \in Requests : ops[r].at = "insert" /\ ops[r].subject = x

(* A proposal makes one memory when it is accepted and none when it is     *)
(* rejected, unless two people review it at once or a review breaks off;   *)
(* even then an accepted one has its memory.                               *)
ProposalSettledOnce ==
    \A q \in Proposal :
        LET made == {m \in Memory : origin[m] = q}
            status == proposals[q].status IN
        /\ status = "accepted" => proposals[q].memory \in made
        /\ q \notin disputed => /\ Cardinality(made) <= 1
                                /\ status = "rejected" => made = {}
=============================================================================
