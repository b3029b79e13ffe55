------------------------------ MODULE Curation ------------------------------
(***************************************************************************)
(* Curation proposals: moves a librarian proposes and people accept or     *)
(* reject. An accepted move is applied by the handler of another part, in  *)
(* a transaction of that part's, and the proposal's status is written      *)
(* afterwards; reads and writes of the proposal are statements of their    *)
(* own.                                                                    *)
(***************************************************************************)
EXTENDS Naturals

CONSTANTS
    Move,        \* ids of curation proposals
    Reviewers,   \* accept and reject requests
    NoMove,
    MaxApplied,  \* bound: how often a move may be applied
    MaxReopened  \* bound: how often the issue of a move is reopened

ASSUME CurationAssumption ==
    NoMove \notin Move /\ MaxApplied \in Nat /\ MaxReopened \in Nat

CurationKind ==
    {"combine_issues", "close_stale", "reenrich_issue", "archive_memory", "supersede_memory"}

VARIABLES
    moves,        \* moves[c]: kind and status of its row
    reviews,      \* reviews[v]: where v is, and the move it reviews
    issueClosed,  \* issueClosed[c]: the issue c is about is closed, if c is about one
    applied,      \* history: applied[c]: how often the handler of c has changed something
    reopened,     \* history: reopened[c]: how often that issue was reopened
    unneeded,     \* history: moves to close an issue that found it closed
    together,     \* history: moves under review by two at once
    brokenOff     \* history: moves a review of which broke off after the handler

curationVars == <<moves, reviews, issueClosed, applied, reopened, unneeded, together, brokenOff>>

NoReview == [at |-> "idle", move |-> NoMove]

(* Mutants: a review of a proposal whatever its status, a handler that     *)
(* closes an issue whatever its status.                                    *)
AnyMove(c) == moves[c].status # "none"
NeverClosed(c) == FALSE

-----------------------------------------------------------------------------
(* The payload is checked against the kind before it is stored. *)
CreateProposal(c, kind) ==
    /\ moves[c].status = "none"
    /\ moves' = [moves EXCEPT ![c] = [kind |-> kind, status |-> "pending"]]
    /\ UNCHANGED <<reviews, issueClosed, applied, reopened, unneeded, together, brokenOff>>

MayReview(c) == moves[c].status = "pending"

Review(v, c, at) ==
    /\ reviews[v] = NoReview
    /\ MayReview(c)
    /\ reviews' = [reviews EXCEPT ![v] = [at |-> at, move |-> c]]
    /\ together' = IF \E w \in Reviewers : reviews[w].move = c
                   THEN together \cup {c} ELSE together
    /\ UNCHANGED <<moves, issueClosed, applied, reopened, unneeded, brokenOff>>

AcceptMove(v, c) == Review(v, c, "dispatch")
RejectMove(v, c) == Review(v, c, "reject")

GoesOn(v, at) == reviews' = [reviews EXCEPT ![v].at = at]

(* dispatch: the handler commits what the move asks for. Combining again   *)
(* makes another issue; asking for enrichment or retiring a memory again   *)
(* changes the row again.                                                  *)
Dispatch(v) ==
    LET c == reviews[v].move IN
    /\ reviews[v].at = "dispatch" /\ moves[c].kind # "close_stale"
    /\ applied[c] < MaxApplied
    /\ applied' = [applied EXCEPT ![c] = @ + 1]
    /\ GoesOn(v, "dispatched")
    /\ UNCHANGED <<moves, issueClosed, reopened, unneeded, together, brokenOff>>

(* The handler of a close reads the status of the issue and has no more to *)
(* do if it is closed; the status may change before the handler commits.   *)
SeenClosed(c) == issueClosed[c]

DispatchClose(v) ==
    LET c == reviews[v].move IN
    /\ reviews[v].at = "dispatch" /\ moves[c].kind = "close_stale"
    /\ GoesOn(v, IF SeenClosed(c) THEN "dispatched" ELSE "closing")
    /\ unneeded' = IF SeenClosed(c) THEN unneeded \cup {c} ELSE unneeded
    /\ UNCHANGED <<moves, issueClosed, applied, reopened, together, brokenOff>>

CloseIssueCommits(v) ==
    LET c == reviews[v].move IN
    /\ reviews[v].at = "closing"
    /\ applied[c] < MaxApplied
    /\ issueClosed' = [issueClosed EXCEPT ![c] = TRUE]
    /\ applied' = [applied EXCEPT ![c] = @ + 1]
    /\ GoesOn(v, "dispatched")
    /\ UNCHANGED <<moves, reopened, unneeded, together, brokenOff>>

(* The handler fails, which leaves the move pending. *)
DispatchFails(v) ==
    /\ reviews[v].at \in {"dispatch", "closing"}
    /\ reviews' = [reviews EXCEPT ![v] = NoReview]
    /\ UNCHANGED <<moves, issueClosed, applied, reopened, unneeded, together, brokenOff>>

(* A close or a reopen from elsewhere of the issue to close commits. It    *)
(* read the status earlier, so the status may be the one it writes already. *)
IssueCommand(c, closes) ==
    /\ moves[c].kind = "close_stale"
    /\ closes \/ reopened[c] < MaxReopened
    /\ issueClosed' = [issueClosed EXCEPT ![c] = closes]
    /\ reopened' = IF closes THEN reopened ELSE [reopened EXCEPT ![c] = @ + 1]
    /\ UNCHANGED <<moves, reviews, applied, unneeded, together, brokenOff>>

SettleMove(v, status) ==
    /\ moves' = [moves EXCEPT ![reviews[v].move].status = status]
    /\ reviews' = [reviews EXCEPT ![v] = NoReview]
    /\ UNCHANGED <<issueClosed, applied, reopened, unneeded, together, brokenOff>>

MarkMoveAccepted(v) == reviews[v].at = "dispatched" /\ SettleMove(v, "accepted")
MarkMoveRejected(v) == reviews[v].at = "reject" /\ SettleMove(v, "rejected")

(* The status write fails, the request is cancelled or the process dies. *)
ReviewBreaksOff(v) ==
    /\ reviews[v].at \in {"dispatched", "reject"}
    /\ brokenOff' = IF reviews[v].at = "dispatched"
                    THEN brokenOff \cup {reviews[v].move} ELSE brokenOff
    /\ reviews' = [reviews EXCEPT ![v] = NoReview]
    /\ UNCHANGED <<moves, issueClosed, applied, reopened, unneeded, together>>

-----------------------------------------------------------------------------
CurationInit ==
    /\ moves = [c \in Move |-> [kind |-> "combine_issues", status |-> "none"]]
    /\ reviews = [v \in Reviewers |-> NoReview]
    /\ issueClosed \in [Move -> BOOLEAN]
    /\ applied = [c \in Move |-> 0] /\ reopened = [c \in Move |-> 0]
    /\ unneeded = {} /\ together = {} /\ brokenOff = {}

CurationNext ==
    \/ \E c \in Move, kind \in CurationKind : CreateProposal(c, kind)
    \/ \E v \in Reviewers, c \in Move : AcceptMove(v, c) \/ RejectMove(v, c)
    \/ \E c \in Move, closes \in BOOLEAN : IssueCommand(c, closes)
    \/ \E v \in Reviewers :
         \/ Dispatch(v) \/ DispatchClose(v) \/ CloseIssueCommits(v) \/ DispatchFails(v)
         \/ MarkMoveAccepted(v) \/ MarkMoveRejected(v) \/ ReviewBreaksOff(v)

CurationSpec == CurationInit /\ [][CurationNext]_curationVars

-----------------------------------------------------------------------------
(* Properties.                                                             *)

(* "Any error leaves the proposal pending": an accepted move has been      *)
(* applied, unless it found its issue closed. One that was not reviewed by *)
(* two at once, nor by a review that broke off after its handler, is       *)
(* applied once at most if accepted and not at all if rejected. "A retried *)
(* accept of an idempotent kind is safe": reviews one after the other,     *)
(* broken off or not, close an issue again only if it was reopened.        *)
MoveSettledOnce ==
    \A c \in Move :
        /\ moves[c].status = "accepted" => applied[c] >= 1 \/ c \in unneeded
        /\ applied[c] > 1 => c \in together \cup brokenOff
        /\ moves[c].status = "rejected" /\ applied[c] > 0 => c \in together \cup brokenOff
        /\ moves[c].kind = "close_stale" /\ c \notin together => applied[c] <= 1 + reopened[c]
=============================================================================
