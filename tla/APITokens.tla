------------------------------ MODULE APITokens ------------------------------
(***************************************************************************)
(* API tokens: the projection row a request is looked up by, the facts     *)
(* about it, the backfill for tokens older than the facts, and the login   *)
(* of the command line, which hands a token to whoever asked for it. The   *)
(* facts have two unique indexes, on (token, sequence) and on              *)
(* (source, token, kind); sources written at runtime differ from the       *)
(* backfill's, so only one of them can hold a key twice.                   *)
(***************************************************************************)
EXTENDS Integers, FiniteSets, FiniteSetsExt

CONSTANTS
    Token,          \* token ids, numbered in their order
    LegacyToken,    \* the tokens there were before facts were written
    Revokers,       \* revocation requests
    TokenBackfills, \* runs of the token-backfill command
    TokenBatch,     \* tokens a backfill batch processes
    Login,          \* CLI logins begun
    Browsers,       \* requests that complete a CLI login
    NoToken

ASSUME TokenAssumption ==
    /\ Token \subseteq Nat \ {0} /\ IsFiniteSet(Token)
    /\ LegacyToken \subseteq Token
    /\ Revokers \cap TokenBackfills = {}
    /\ TokenBatch \in Nat \ {0}
    /\ NoToken \notin Token

VARIABLES
    tokens,     \* tokens[t]: "none", "active" or "revoked"
    tokenFacts, \* api_token_facts: token, sequence, kind, source
    tokenMark,  \* the cursor in the backfill's checkpoint
    tokenTx,    \* tokenTx[p]: where p is, and its open transaction
    logins,     \* logins[l]: pending CLI login, in the server's memory
    browsers,   \* browsers[b]: the login b completes, its token
    handed      \* history: how often a CLI login was given a token

tokenVars == <<tokens, tokenFacts, tokenMark, tokenTx, logins, browsers, handed>>
loginVars == <<logins, browsers, handed>>

TokenProcess == Revokers \cup TokenBackfills

TokenFact(t, n, kind, source) ==
    [token |-> t, sequence |-> n, kind |-> kind, source |-> source]

(* at: the next statement; token, sequence: what is worked on; need: kinds *)
(* of facts to seed for it; staged: facts not committed; todo, ended: the  *)
(* tokens listed, and those of them listed as revoked; last: the last one  *)
(* processed.                                                              *)
NoTx == [at |-> "idle", token |-> 0, sequence |-> 0, need |-> {}, staged |-> {},
         todo |-> {}, ended |-> {}, last |-> 0]

(* What p's statements see: committed facts and its own. *)
TokenFactsSeen(p, t) == {f \in tokenFacts \cup tokenTx[p].staged : f.token = t}

KindsSeen(p, t) == {f.kind : f \in TokenFactsSeen(p, t)}

(* Mutants: a backfill that does not look for a revocation's fact, an      *)
(* exchange that leaves the login to be exchanged again.                   *)
SeedsRevoked(p, t) ==
    ({"created"} \ KindsSeen(p, t)) \cup (IF t \in tokenTx[p].ended THEN {"revoked"} ELSE {})
StaysOpen(l) == logins[l]

-----------------------------------------------------------------------------
(* CreateAPIToken, in one step: nobody knows the id before it commits.     *)

Created(t) ==
    /\ tokens[t] = "none"
    /\ tokens' = [tokens EXCEPT ![t] = "active"]
    /\ tokenFacts' = tokenFacts \cup {TokenFact(t, 1, "created", "api_token_create")}

CreateAPIToken(t) ==
    Created(t) /\ UNCHANGED <<tokenMark, tokenTx, logins, browsers, handed>>

-----------------------------------------------------------------------------
(* RevokeAPIToken: the row is updated and so locked, then the fact is      *)
(* numbered and inserted.                                                  *)

NextTokenSequence(p, t) == Max({f.sequence : f \in TokenFactsSeen(p, t)} \cup {0}) + 1

SameTokenKey(f, g) ==
    /\ f.token = g.token
    /\ f.sequence = g.sequence \/ (f.kind = g.kind /\ f.source = g.source)

TokenKeyCommitted(f) == \E g \in tokenFacts : SameTokenKey(f, g)
TokenKeyOpen(p, f) ==
    \E q \in TokenProcess \ {p} : \E g \in tokenTx[q].staged : SameTokenKey(f, g)

TokenStep(p, tx) ==
    /\ tokenTx' = [tokenTx EXCEPT ![p] = tx]
    /\ UNCHANGED <<tokens, tokenFacts, tokenMark>>

RevokeUpdate(p, t) ==
    /\ tokenTx[p].at = "idle"
    /\ tokens[t] = "active"
    /\ \A q \in Revokers : tokenTx[q].token # t
    /\ TokenStep(p, [NoTx EXCEPT !.at = "updated", !.token = t])

RevokeNumber(p) ==
    LET tx == tokenTx[p] IN
    /\ tx.at = "updated"
    /\ TokenStep(p, [tx EXCEPT !.at = "numbered", !.sequence = NextTokenSequence(p, tx.token)])

RevokedFact(p) ==
    TokenFact(tokenTx[p].token, tokenTx[p].sequence, "revoked", "api_token_revoke")

RevokeInsert(p) ==
    /\ tokenTx[p].at = "numbered"
    /\ ~TokenKeyOpen(p, RevokedFact(p))
    /\ ~TokenKeyCommitted(RevokedFact(p))
    /\ tokens' = [tokens EXCEPT ![tokenTx[p].token] = "revoked"]
    /\ tokenFacts' = tokenFacts \cup {RevokedFact(p)}
    /\ tokenTx' = [tokenTx EXCEPT ![p] = NoTx]
    /\ UNCHANGED tokenMark

RevokeFails(p) ==
    /\ tokenTx[p].at = "numbered"
    /\ ~TokenKeyOpen(p, RevokedFact(p))
    /\ TokenKeyCommitted(RevokedFact(p))
    /\ TokenStep(p, NoTx)

-----------------------------------------------------------------------------
(* BackfillBatch: checkpoint and rows are read outside the transaction     *)
(* (here in one step), the facts about each token inside it.               *)

TokenList(p) ==
    LET left == {t \in Token : tokens[t] # "none" /\ t > tokenMark}
        batch == {t \in left : Cardinality({r \in left : r < t}) < TokenBatch} IN
    /\ tokenTx[p].at = "idle"
    /\ TokenStep(p, [NoTx EXCEPT !.at = "loading", !.todo = batch, !.last = tokenMark,
                                 !.ended = {t \in batch : tokens[t] = "revoked"}])

(* The kinds of facts token t, as it was listed, has none of. *)
Unseeded(p, t) ==
    ({"created"} \cup (IF t \in tokenTx[p].ended THEN {"revoked"} ELSE {})) \ KindsSeen(p, t)

TokenLoad(p) ==
    LET tx == tokenTx[p]
        t == Min(tx.todo) IN
    /\ tx.at = "loading" /\ tx.todo # {}
    /\ TokenStep(p, [tx EXCEPT !.at = "seeding", !.token = t, !.need = Unseeded(p, t)])

SeedNumber(p) ==
    LET tx == tokenTx[p] IN
    /\ tx.at = "seeding" /\ tx.need # {} /\ tx.sequence = 0
    /\ TokenStep(p, [tx EXCEPT !.sequence =
                       IF "created" \in tx.need THEN 1 ELSE NextTokenSequence(p, tx.token)])

LegacyFact(p) ==
    LET tx == tokenTx[p] IN
    TokenFact(tx.token, tx.sequence,
              IF "created" \in tx.need THEN "created" ELSE "revoked", "legacy_api_token")

InsertReady(p) == tokenTx[p].at = "seeding" /\ tokenTx[p].sequence # 0
                    /\ ~TokenKeyOpen(p, LegacyFact(p))

LegacyFactThere(p) ==
    \E f \in TokenFactsSeen(p, tokenTx[p].token) :
        f.kind = LegacyFact(p).kind /\ f.source = "legacy_api_token"

(* ON CONFLICT (source, source_id) DO NOTHING; a taken sequence fails. *)
TokenSeed(p) ==
    LET tx == tokenTx[p]
        fact == LegacyFact(p) IN
    /\ InsertReady(p)
    /\ LegacyFactThere(p) \/ ~TokenKeyCommitted(fact)
    /\ TokenStep(p, [tx EXCEPT !.sequence = 0, !.need = @ \ {fact.kind},
                               !.staged = IF LegacyFactThere(p) THEN @ ELSE @ \cup {fact}])

TokenSeedFails(p) ==
    /\ InsertReady(p)
    /\ ~LegacyFactThere(p)
    /\ TokenKeyCommitted(LegacyFact(p))
    /\ TokenStep(p, NoTx)

TokenSeeded(p) ==
    LET tx == tokenTx[p] IN
    /\ tx.at = "seeding" /\ tx.need = {}
    /\ TokenStep(p, [tx EXCEPT !.at = "loading", !.last = tx.token, !.todo = @ \ {tx.token}])

TokenCommit(p) ==
    LET tx == tokenTx[p] IN
    /\ tx.at = "loading" /\ tx.todo = {}
    /\ tokenFacts' = tokenFacts \cup tx.staged
    /\ tokenTx' = [tokenTx EXCEPT ![p] = [tx EXCEPT !.at = "marking", !.staged = {}]]
    /\ UNCHANGED <<tokens, tokenMark>>

TokenMark(p) ==
    /\ tokenTx[p].at = "marking"
    /\ tokenMark' = tokenTx[p].last
    /\ tokenTx' = [tokenTx EXCEPT ![p] = NoTx]
    /\ UNCHANGED <<tokens, tokenFacts>>

-----------------------------------------------------------------------------
(* CLI logins. They live in one process: a restart forgets them. An        *)
(* expired one is deleted by whoever comes next, so it is as good as gone. *)

BeginCLILogin(l) ==
    /\ logins[l] = [state |-> "none", result |-> NoToken]
    /\ logins' = [logins EXCEPT ![l].state = "open"]
    /\ UNCHANGED <<browsers, handed>>

Gone(l) == [state |-> "gone", result |-> NoToken]

LoginEnds(l) ==
    /\ logins[l].state = "open"
    /\ logins' = [logins EXCEPT ![l] = Gone(l)]
    /\ UNCHANGED <<browsers, handed>>

(* CompleteCLILogin creates the token before it knows that the login is    *)
(* still there.                                                            *)
CompleteCLILogin(b, l, t) ==
    /\ browsers[b] = NoToken
    /\ logins[l].state # "none"
    /\ Created(t)
    /\ browsers' = [browsers EXCEPT ![b] = [login |-> l, token |-> t]]
    /\ UNCHANGED <<tokenMark, tokenTx, logins, handed>>

(* A second completion replaces the result of the first. *)
MarkComplete(b) ==
    /\ browsers[b] # NoToken
    /\ LET l == browsers[b].login IN
       IF logins[l].state = "open"
       THEN logins' = [logins EXCEPT ![l].result = browsers[b].token]
       ELSE UNCHANGED logins
    /\ browsers' = [browsers EXCEPT ![b] = NoToken]
    /\ UNCHANGED handed

AfterExchange(l) == Gone(l)

Exchange(l) ==
    /\ logins[l].state = "open" /\ logins[l].result # NoToken
    /\ handed' = [handed EXCEPT ![logins[l].result] = @ + 1]
    /\ logins' = [logins EXCEPT ![l] = AfterExchange(l)]
    /\ UNCHANGED browsers

ServerRestarts ==
    /\ \E l \in Login : logins[l].state = "open"
    /\ logins' = [l \in Login |-> IF logins[l].state = "none" THEN logins[l] ELSE Gone(l)]
    /\ browsers' = [b \in Browsers |-> NoToken]
    /\ UNCHANGED handed

-----------------------------------------------------------------------------
TokenInit ==
    /\ tokens \in [Token -> {"none", "active", "revoked"}]
    /\ \A t \in Token : tokens[t] # "none" <=> t \in LegacyToken
    /\ tokenFacts = {}
    /\ tokenMark = 0
    /\ tokenTx = [p \in TokenProcess |-> NoTx]
    /\ logins = [l \in Login |-> [state |-> "none", result |-> NoToken]]
    /\ browsers = [b \in Browsers |-> NoToken]
    /\ handed = [t \in Token |-> 0]

CLIStep ==
    \/ \E l \in Login : BeginCLILogin(l) \/ LoginEnds(l) \/ Exchange(l)
    \/ \E b \in Browsers : MarkComplete(b)
    \/ ServerRestarts

RevokeStep(p) == RevokeNumber(p) \/ RevokeInsert(p) \/ RevokeFails(p)

TokenBackfillStep(p) ==
    \/ TokenList(p) \/ TokenLoad(p) \/ SeedNumber(p) \/ TokenSeed(p) \/ TokenSeedFails(p)
    \/ TokenSeeded(p) \/ TokenCommit(p) \/ TokenMark(p)

TokenNext ==
    \/ \E t \in Token : CreateAPIToken(t)
    \/ \E b \in Browsers, l \in Login, t \in Token : CompleteCLILogin(b, l, t)
    \/ /\ \/ \E p \in Revokers, t \in Token : RevokeUpdate(p, t)
          \/ \E p \in Revokers : RevokeStep(p)
          \/ \E p \in TokenBackfills : TokenBackfillStep(p)
       /\ UNCHANGED loginVars
    \/ CLIStep /\ UNCHANGED <<tokens, tokenFacts, tokenMark, tokenTx>>

TokenSpec == TokenInit /\ [][TokenNext]_tokenVars

-----------------------------------------------------------------------------
(* Properties.                                                             *)

KindOf(t, kind) == {f \in tokenFacts : f.token = t /\ f.kind = kind}

(* A token is revoked once and is created once in its history: revoking    *)
(* again is "a no-op rather than a spurious audit entry", also beside      *)
(* backfills that listed the token in another state.                       *)
TokenHistoryOnce ==
    \A t \in Token, kind \in {"created", "revoked"} : Cardinality(KindOf(t, kind)) <= 1

(* No token is handed out twice, whatever logins expire, are completed     *)
(* again or are lost in a restart.                                         *)
HandedOutOnce == \A t \in Token : handed[t] <= 1
=============================================================================
