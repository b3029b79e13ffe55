------------------------------ MODULE Sessions ------------------------------
(***************************************************************************)
(* Login sessions: the projection row a request is looked up by, the       *)
(* append-only facts about it, and the transactions that write both        *)
(* statement by statement at READ COMMITTED: logout, the expiry reaper,    *)
(* and the backfill that gives sessions older than the facts their         *)
(* 'created' fact. A session's id is drawn at random, so the order of ids  *)
(* (which the reaper and the backfill follow) is not that of creation.     *)
(*                                                                         *)
(* Two unique indexes guard the facts, on (session, sequence) and on       *)
(* (source, session): an insert that collides with a committed fact fails, *)
(* one that collides with an open transaction's waits for its end. A       *)
(* deleted row stays locked until then too.                                *)
(***************************************************************************)
EXTENDS Integers, FiniteSets, FiniteSetsExt

CONSTANTS
    Session,      \* session ids, numbered in their order
    LegacySession,\* the sessions there were before facts were written
    Logouts,      \* logout requests
    Reapers,      \* server processes, each with a session reaper
    Backfills,    \* runs of the session-backfill command
    ReapBatch,    \* sessions a reaper lists at a time
    SeedBatch,    \* sessions a backfill batch processes
    SessionCrashes \* bound: processes that may die with a transaction open

ASSUME SessionAssumption ==
    /\ Session \subseteq Nat \ {0} /\ IsFiniteSet(Session)
    /\ LegacySession \subseteq Session
    /\ Logouts \cap Reapers = {}
    /\ Logouts \cap Backfills = {}
    /\ Reapers \cap Backfills = {}
    /\ ReapBatch \in Nat \ {0}
    /\ SeedBatch \in Nat \ {0}
    /\ SessionCrashes \in Nat

VARIABLES
    sessions,        \* ids with a row in sessions
    expired,         \* sessions whose expires_at has passed
    sessionFacts,    \* session_facts: session, sequence, source
    sessionMark,     \* the backfill's checkpoint: cursor and phase
    sessionTx,       \* sessionTx[p]: where p is, and its open transaction
    sessionCrashes   \* processes that have died so far

sessionVars ==
    <<sessions, expired, sessionFacts, sessionMark, sessionTx, sessionCrashes>>

SessionProcess == Logouts \cup Reapers \cup Backfills

(* A fact's source tells its kind and reason: session_create and           *)
(* legacy_session say 'created', session_invalidate 'invalidated' by       *)
(* logout, session_expire 'invalidated' because it expired.                *)
CreatedSources == {"session_create", "legacy_session"}
EndSources == {"session_invalidate", "session_expire"}

SessionFact(s, n, source) == [session |-> s, sequence |-> n, source |-> source]
FactsAbout(s) == {f \in sessionFacts : f.session = s}
HasCreated(s) == \E f \in FactsAbout(s) : f.source \in CreatedSources
HasEnded(s) == \E f \in FactsAbout(s) : f.source \in EndSources

(* at: the next statement; session and sequence: what it has read; staged: *)
(* facts inserted, removed: rows deleted, not committed yet; todo: ids     *)
(* listed and not processed; last, complete: the backfill batch's result.  *)
IdleTx ==
    [at |-> "idle", session |-> 0, sequence |-> 0, staged |-> {}, removed |-> {},
     todo |-> {}, last |-> 0, complete |-> FALSE]

DoneTx == [IdleTx EXCEPT !.at = "done"]

Smallest(n, S) == {s \in S : Cardinality({r \in S : r < s}) < n}

(* Mutants, for the sensitivity of the properties below: sequences that    *)
(* do not continue from the last, a delete that does not look whether the  *)
(* row is still there, a logout that leaves its row, a seed only for those *)
(* sessions that can be used, a reaper that never starts.                  *)
SecondSequence(s) == 2
RowTakenForGranted(s) == TRUE
RowKept(p) == {}
SeedsUsable(p) ==
    LET s == Min(sessionTx[p].todo) IN ~HasCreated(s) /\ s \notin expired
KeepsSweeping(todo) == IdleTx

-----------------------------------------------------------------------------
(* Indexes, locks and the end of a transaction.                            *)

(* COALESCE(MAX(sequence), 0) + 1 *)
NextSessionSequence(s) == Max({f.sequence : f \in FactsAbout(s)} \cup {0}) + 1

SameKey(f, g) ==
    /\ f.session = g.session
    /\ f.sequence = g.sequence \/ f.source = g.source

(* q's open transaction has inserted a fact with a key of f. *)
Holds(q, f) == \E g \in sessionTx[q].staged : SameKey(f, g)

TakenByCommitted(f) == \E g \in sessionFacts : SameKey(f, g)
TakenByOpen(p, f) == \E q \in SessionProcess \ {p} : Holds(q, f)

RowLocked(p, s) == \E q \in SessionProcess \ {p} : s \in sessionTx[q].removed

Move(p, tx) == sessionTx' = [sessionTx EXCEPT ![p] = tx]

(* The transaction of p ends without effect, and with it p's call. *)
Abort(p) ==
    /\ Move(p, IF p \in Logouts THEN DoneTx ELSE IdleTx)
    /\ UNCHANGED <<sessions, expired, sessionFacts, sessionMark>>

(* insertSessionFact, with no ON CONFLICT: a taken key fails the call; one *)
(* that an open transaction has inserted makes it wait.                    *)
NextFact(p, source) == SessionFact(sessionTx[p].session, sessionTx[p].sequence, source)
MayInsert(p, fact) == ~TakenByOpen(p, fact) /\ ~TakenByCommitted(fact)
InsertFails(p, fact) == ~TakenByOpen(p, fact) /\ TakenByCommitted(fact) /\ Abort(p)

-----------------------------------------------------------------------------
(* Store: a new session, its lookup, and the time.                         *)

CreateSession(s) ==
    /\ s \notin LegacySession
    /\ FactsAbout(s) = {}
    /\ sessions' = sessions \cup {s}
    /\ sessionFacts' = sessionFacts \cup {SessionFact(s, 1, "session_create")}
    /\ UNCHANGED <<expired, sessionMark, sessionTx, sessionCrashes>>

Authenticates(s) == s \in sessions /\ s \notin expired

Expire(s) ==
    /\ Authenticates(s)
    /\ expired' = expired \cup {s}
    /\ UNCHANGED <<sessions, sessionFacts, sessionMark, sessionTx, sessionCrashes>>

-----------------------------------------------------------------------------
(* DeleteSession: the row is read, the fact numbered and inserted, and the *)
(* row deleted, whether or not it is still there.                          *)

LogoutRead(p, s) ==
    /\ sessionTx[p].at = "idle"
    /\ s \in sessions
    /\ Move(p, [IdleTx EXCEPT !.at = "read", !.session = s])
    /\ UNCHANGED <<sessions, expired, sessionFacts, sessionMark>>

Number(p) ==
    LET tx == sessionTx[p] IN
    /\ tx.at = "read"
    /\ Move(p, [tx EXCEPT !.at = "numbered", !.sequence = NextSessionSequence(tx.session)])
    /\ UNCHANGED <<sessions, expired, sessionFacts, sessionMark>>

LogoutInsert(p) ==
    LET fact == NextFact(p, "session_invalidate") IN
    /\ sessionTx[p].at = "numbered"
    /\ MayInsert(p, fact)
    /\ Move(p, [sessionTx[p] EXCEPT !.at = "inserted", !.staged = {fact}])
    /\ UNCHANGED <<sessions, expired, sessionFacts, sessionMark>>

LogoutFails(p) ==
    /\ sessionTx[p].at = "numbered"
    /\ InsertFails(p, NextFact(p, "session_invalidate"))

RowDeleted(p) == {sessionTx[p].session}

LogoutDelete(p) ==
    /\ sessionTx[p].at = "inserted"
    /\ ~RowLocked(p, sessionTx[p].session)
    /\ sessions' = sessions \ RowDeleted(p)
    /\ sessionFacts' = sessionFacts \cup sessionTx[p].staged
    /\ Move(p, DoneTx)
    /\ UNCHANGED <<expired, sessionMark>>

LogoutStep(p) == Number(p) \/ LogoutInsert(p) \/ LogoutFails(p) \/ LogoutDelete(p)

-----------------------------------------------------------------------------
(* The reaper's sweep: batches of expired sessions in the order of their   *)
(* ids, each deleted in a transaction of its own whose DELETE ...          *)
(* RETURNING looks again. An error ends the sweep until the next tick.     *)

Expired == sessions \cap expired

Sweeping(todo) == IF todo = {} THEN IdleTx ELSE [IdleTx EXCEPT !.at = "sweeping", !.todo = todo]

ReaperList(p) ==
    /\ sessionTx[p].at = "idle"
    /\ Expired # {}
    /\ Move(p, Sweeping(Smallest(ReapBatch, Expired)))
    /\ UNCHANGED <<sessions, expired, sessionFacts, sessionMark>>

StillThere(s) == s \in sessions

ReaperDelete(p) ==
    LET todo == sessionTx[p].todo
        s == Min(todo) IN
    /\ sessionTx[p].at = "sweeping"
    /\ ~RowLocked(p, s)
    /\ StillThere(s)
    /\ Move(p, [sessionTx[p] EXCEPT !.at = "read", !.session = s, !.removed = {s},
                                    !.todo = todo \ {s}])
    /\ UNCHANGED <<sessions, expired, sessionFacts, sessionMark>>

ReaperGone(p) ==
    LET todo == sessionTx[p].todo
        s == Min(todo) IN
    /\ sessionTx[p].at = "sweeping"
    /\ ~RowLocked(p, s)
    /\ ~StillThere(s)
    /\ Move(p, Sweeping(todo \ {s}))
    /\ UNCHANGED <<sessions, expired, sessionFacts, sessionMark>>

ReaperInsert(p) ==
    LET tx == sessionTx[p]
        fact == NextFact(p, "session_expire") IN
    /\ tx.at = "numbered"
    /\ MayInsert(p, fact)
    /\ sessions' = sessions \ tx.removed
    /\ sessionFacts' = sessionFacts \cup {fact}
    /\ Move(p, Sweeping(tx.todo))
    /\ UNCHANGED <<expired, sessionMark>>

ReaperFails(p) ==
    /\ sessionTx[p].at = "numbered"
    /\ InsertFails(p, NextFact(p, "session_expire"))

ReaperStep(p) ==
    \/ ReaperList(p) \/ ReaperDelete(p) \/ ReaperGone(p)
    \/ Number(p) \/ ReaperInsert(p) \/ ReaperFails(p)

-----------------------------------------------------------------------------
(* BackfillBatch: the checkpoint and then the rows are read outside the    *)
(* transaction (here in one step); a session without a 'created' fact gets *)
(* one with sequence 1; the checkpoint is written after the commit, in a   *)
(* write of its own.                                                       *)

SeedList(p) ==
    LET left == {s \in sessions : s > sessionMark.cursor} IN
    /\ sessionTx[p].at = "idle"
    /\ Move(p, [IdleTx EXCEPT !.at = IF left = {} THEN "marking" ELSE "seeding",
                              !.todo = Smallest(SeedBatch, left),
                              !.last = sessionMark.cursor,
                              !.complete = Cardinality(left) <= SeedBatch])
    /\ UNCHANGED <<sessions, expired, sessionFacts, sessionMark>>

(* The rows are sorted by id. *)
NextSeed(p) == Min(sessionTx[p].todo)

NeedsSeed(p) == ~HasCreated(NextSeed(p))

Seeded(p) ==
    LET tx == sessionTx[p] IN
    [tx EXCEPT !.at = "seeding", !.last = NextSeed(p), !.todo = tx.todo \ {NextSeed(p)}]

SeedSkip(p) ==
    /\ sessionTx[p].at = "seeding" /\ sessionTx[p].todo # {}
    /\ ~NeedsSeed(p)
    /\ Move(p, Seeded(p))
    /\ UNCHANGED <<sessions, expired, sessionFacts, sessionMark>>

SeedLoad(p) ==
    /\ sessionTx[p].at = "seeding" /\ sessionTx[p].todo # {}
    /\ NeedsSeed(p)
    /\ Move(p, [sessionTx[p] EXCEPT !.at = "seed"])
    /\ UNCHANGED <<sessions, expired, sessionFacts, sessionMark>>

(* ON CONFLICT (source, source_id) DO NOTHING: a fact of the same source   *)
(* is left, one that has the sequence fails the batch.                     *)
SeedFact(p) == SessionFact(NextSeed(p), 1, "legacy_session")
AlreadySeeded(p) == \E f \in FactsAbout(NextSeed(p)) : f.source = "legacy_session"

SeedInsert(p) ==
    /\ sessionTx[p].at = "seed"
    /\ ~TakenByOpen(p, SeedFact(p))
    /\ IF AlreadySeeded(p)
       THEN Move(p, Seeded(p))
       ELSE /\ ~TakenByCommitted(SeedFact(p))
            /\ Move(p, [Seeded(p) EXCEPT !.staged = @ \cup {SeedFact(p)}])
    /\ UNCHANGED <<sessions, expired, sessionFacts, sessionMark>>

SeedFails(p) ==
    /\ sessionTx[p].at = "seed"
    /\ ~AlreadySeeded(p)
    /\ InsertFails(p, SeedFact(p))

SeedCommit(p) ==
    /\ sessionTx[p].at = "seeding"
    /\ sessionTx[p].todo = {}
    /\ sessionFacts' = sessionFacts \cup sessionTx[p].staged
    /\ Move(p, [sessionTx[p] EXCEPT !.at = "marking", !.staged = {}])
    /\ UNCHANGED <<sessions, expired, sessionMark>>

SeedMark(p) ==
    LET tx == sessionTx[p] IN
    /\ tx.at = "marking"
    /\ sessionMark' = [cursor |-> tx.last,
                       phase |-> IF tx.complete THEN "completed" ELSE "backfilling"]
    /\ Move(p, IdleTx)
    /\ UNCHANGED <<sessions, expired, sessionFacts>>

SeedStep(p) ==
    \/ SeedSkip(p) \/ SeedLoad(p) \/ SeedInsert(p) \/ SeedFails(p)
    \/ SeedCommit(p) \/ SeedMark(p)

-----------------------------------------------------------------------------
(* Deadlocks and crashes.                                                  *)

EndSource(p) == IF p \in Logouts THEN "session_invalidate" ELSE "session_expire"

(* p's next statement needs what q's open transaction holds. *)
WaitsFor(p, q) ==
    LET tx == sessionTx[p] IN
    /\ p # q
    /\ \/ tx.at = "numbered" /\ Holds(q, NextFact(p, EndSource(p)))
       \/ tx.at = "inserted" /\ tx.session \in sessionTx[q].removed
       \/ tx.at = "sweeping" /\ Min(tx.todo) \in sessionTx[q].removed
       \/ tx.at = "seed" /\ Holds(q, SeedFact(p))

InDeadlock(p) == \E q \in SessionProcess : WaitsFor(p, q) /\ WaitsFor(q, p)

(* Logout inserts its fact and then deletes the row, the reaper the other  *)
(* way round: they can wait for each other, and the database fails one.    *)
BreakSessionDeadlock(p) == InDeadlock(p) /\ Abort(p) /\ UNCHANGED sessionCrashes

(* The process dies, or its connection does: what is not committed is      *)
(* gone, and so is what the process had in mind.                           *)
SessionCrash(p) ==
    /\ sessionCrashes < SessionCrashes
    /\ sessionTx[p].at \notin {"idle", "done"}
    /\ Abort(p)
    /\ sessionCrashes' = sessionCrashes + 1

-----------------------------------------------------------------------------
SessionInit ==
    /\ sessions = LegacySession
    /\ expired = {}
    /\ sessionFacts = {}
    /\ sessionMark = [cursor |-> 0, phase |-> "none"]
    /\ sessionTx = [p \in SessionProcess |-> IdleTx]
    /\ sessionCrashes = 0

SessionNext ==
    \/ \E s \in Session : CreateSession(s) \/ Expire(s)
    \/ /\ \/ \E p \in Logouts, s \in Session : LogoutRead(p, s)
          \/ \E p \in Logouts : LogoutStep(p)
          \/ \E p \in Reapers : ReaperStep(p)
          \/ \E p \in Backfills : SeedList(p) \/ SeedStep(p)
       /\ UNCHANGED sessionCrashes
    \/ \E p \in SessionProcess : BreakSessionDeadlock(p) \/ SessionCrash(p)

SessionSpec == SessionInit /\ [][SessionNext]_sessionVars

(* A transaction that is open is carried on, a reaper's ticks keep coming, *)
(* and a deadlock is broken when its timeout has passed. The fairness is   *)
(* strong because a lock passes to whoever waits for it. Nobody has to log *)
(* out or to start a backfill.                                             *)
SessionFairness ==
    /\ \A p \in Logouts : SF_sessionVars(LogoutStep(p) /\ UNCHANGED sessionCrashes)
    /\ \A p \in Reapers : SF_sessionVars(ReaperStep(p) /\ UNCHANGED sessionCrashes)
    /\ \A p \in Backfills : SF_sessionVars(SeedStep(p) /\ UNCHANGED sessionCrashes)
    /\ \A p \in SessionProcess : WF_sessionVars(BreakSessionDeadlock(p))

FairSessionSpec == SessionSpec /\ SessionFairness

-----------------------------------------------------------------------------
(* Properties.                                                             *)

(* Half of CheckParity: no session that requests can use has a fact that   *)
(* says it ended ("invalidated_but_active"), and a session's facts are     *)
(* numbered 1, 2, ... without a gap, whoever wrote them: logout, reaper or *)
(* backfill.                                                               *)
SessionHistoryOK ==
    /\ \A s \in sessions : ~HasEnded(s)
    /\ \A f \in sessionFacts : \A n \in 1 .. f.sequence :
          \E g \in FactsAbout(f.session) : g.sequence = n

(* The reaper records an expiry only of a session still there: "a session  *)
(* removed by a concurrent logout yields no duplicate fact". (The reverse  *)
(* can happen: a logout that read the row before the reaper took it.)      *)
NoExpiryAfterLogout ==
    \A e, l \in sessionFacts :
        e.session = l.session /\ e.source = "session_expire"
          /\ l.source = "session_invalidate" => e.sequence < l.sequence

(* The other half of CheckParity, as far as the backfill has come: every   *)
(* session up to its cursor has a 'created' fact, although the cursor      *)
(* moves in a write of its own, other batches run, and ids come in any     *)
(* order.                                                                  *)
CursorCoversSessions ==
    \A s \in sessions : s <= sessionMark.cursor => HasCreated(s)

(* An expired session does not stay in the projection, whatever deadlocks, *)
(* failed sweeps and crashes come in between.                              *)
ExpiredAreSwept == \A s \in Session : s \in Expired ~> s \notin sessions
=============================================================================
