----------------------------- MODULE AuthProofs -----------------------------
(***************************************************************************)
(* Proofs about the auth stores: for any number of sessions, tokens and    *)
(* users, of requests, reapers, backfills and crashes, the facts of each   *)
(* store agree with its rows, nothing is recorded twice or behind what     *)
(* ended it, and no token is handed to two command lines.                  *)
(***************************************************************************)
EXTENDS Sessions, APITokens, UserProfiles, FiniteSetTheorems, WellFoundedInduction, TLAPS

-----------------------------------------------------------------------------
(* The inductive invariant of the session store.                           *)

Sources == CreatedSources \cup EndSources
Positions == {"idle", "read", "numbered", "inserted", "done",
              "sweeping", "seeding", "seed", "marking"}

Fact == [session : Session, sequence : Nat \ {0}, source : Sources]

Transaction ==
    [at : Positions, session : Session \cup {0}, sequence : Nat,
     staged : SUBSET Fact, removed : SUBSET Session, todo : SUBSET Session,
     last : Nat, complete : BOOLEAN]

SessionTypeOK ==
    /\ sessions \subseteq Session
    /\ expired \subseteq Session
    /\ sessionFacts \subseteq Fact
    /\ sessionMark \in [cursor : Nat, phase : {"none", "backfilling", "completed"}]
    /\ sessionTx \in [SessionProcess -> Transaction]

(* A session that has existed: its id was given before facts were written, *)
(* or together with the first.                                             *)
Known(s) == s \in LegacySession \/ FactsAbout(s) # {}

(* All sequences below n are taken. *)
TakenBelow(s, n) == \A m \in 1 .. n - 1 : \E g \in FactsAbout(s) : g.sequence = m

HasLast(s) ==
    FactsAbout(s) # {} => \E f \in FactsAbout(s) : \A g \in FactsAbout(s) : g.sequence <= f.sequence

HistoryInv ==
    /\ \A s \in sessions : Known(s)
    /\ \A s \in Session : HasLast(s)
    /\ \A f \in sessionFacts : TakenBelow(f.session, f.sequence)
    /\ SessionHistoryOK
    /\ NoExpiryAfterLogout
    /\ CursorCoversSessions

(* What a logout holds: what it has numbered follows facts that are there, *)
(* and what it has inserted keeps that key from the others.                *)
LogoutInv(tx) ==
    /\ tx.at \in {"idle", "read", "numbered", "inserted", "done"}
    /\ tx.removed = {}
    /\ tx.at \in {"read", "numbered", "inserted"} => tx.session \in Session /\ Known(tx.session)
    /\ tx.at \in {"numbered", "inserted"} =>
          tx.sequence # 0 /\ TakenBelow(tx.session, tx.sequence)
    /\ tx.staged = IF tx.at = "inserted"
                   THEN {SessionFact(tx.session, tx.sequence, "session_invalidate")}
                   ELSE {}

(* A reaper's session is in the table until it commits. *)
ReaperInv(tx) ==
    /\ tx.at \in {"idle", "sweeping", "read", "numbered"}
    /\ tx.staged = {}
    /\ tx.at = "sweeping" => tx.todo # {}
    /\ IF tx.at \in {"read", "numbered"}
       THEN tx.removed = {tx.session} /\ tx.session \in sessions
       ELSE tx.removed = {}
    /\ tx.at = "numbered" => tx.sequence # 0 /\ TakenBelow(tx.session, tx.sequence)

Covered(tx, s) == HasCreated(s) \/ \E f \in tx.staged : f.session = s

(* Of the rows there are, a batch lists the first beyond the cursor, and   *)
(* works through them in their order.                                      *)
BackfillInv(tx) ==
    /\ tx.at \in {"idle", "seeding", "seed", "marking"}
    /\ tx.removed = {}
    /\ tx.at = "seed" => tx.todo # {}
    /\ tx.at \notin {"seeding", "seed"} => tx.staged = {}
    /\ \A f \in tx.staged : f.sequence = 1 /\ f.source = "legacy_session"
    /\ \A s \in tx.todo : Known(s)
    /\ tx.at \in {"seeding", "seed", "marking"} =>
          \A s \in sessions : s <= tx.last => s \in tx.todo \/ Covered(tx, s)
    /\ tx.at \in {"seeding", "seed"} =>
          \A t \in tx.todo, s \in sessions : s <= t => s \in tx.todo \/ Covered(tx, s)
    /\ tx.at = "marking" => tx.todo = {}

TxInv(p, tx) ==
    /\ p \in Logouts => LogoutInv(tx)
    /\ p \in Reapers => ReaperInv(tx)
    /\ p \in Backfills => BackfillInv(tx)
    /\ \A f \in tx.staged : Known(f.session) /\ ~TakenByCommitted(f)

(* No two open transactions hold the same key or row. *)
Apart(t, u) ==
    /\ t.removed \cap u.removed = {}
    /\ \A f \in t.staged, g \in u.staged : ~SameKey(f, g)

SessionInv ==
    /\ SessionTypeOK
    /\ HistoryInv
    /\ \A p \in SessionProcess : TxInv(p, sessionTx[p])
    /\ \A p, q \in SessionProcess : p # q => Apart(sessionTx[p], sessionTx[q])

-----------------------------------------------------------------------------
(* The inductive invariant of the token store.                             *)

TokenKinds == {"created", "revoked"}
TokenFactSet ==
    [token : Token, sequence : Nat \ {0}, kind : TokenKinds,
     source : {"api_token_create", "api_token_revoke", "legacy_api_token"}]

TokenTransaction ==
    [at : {"idle", "updated", "numbered", "loading", "seeding", "marking"},
     token : Token \cup {0}, sequence : Nat, need : SUBSET TokenKinds,
     staged : SUBSET TokenFactSet, todo : SUBSET Token, ended : SUBSET Token, last : Nat]

TokenTypeOK ==
    /\ tokens \in [Token -> {"none", "active", "revoked"}]
    /\ tokenFacts \subseteq TokenFactSet
    /\ tokenMark \in Nat
    /\ tokenTx \in [TokenProcess -> TokenTransaction]

LastOf(S) == S # {} => \E f \in S : \A g \in S : g.sequence <= f.sequence
LastOfEach(S) == \A t \in Token : LastOf({f \in S : f.token = t})

RevokedAtRuntime(t) ==
    \E f \in tokenFacts : f.token = t /\ f.kind = "revoked" /\ f.source = "api_token_revoke"

(* What every fact, committed or not, tells of the row and of the others:  *)
(* only the backfill records the creation of a legacy token, and it        *)
(* records no revocation that has been recorded when it happened.          *)
TokenFactOK(f) ==
    /\ tokens[f.token] # "none"
    /\ f.kind = "created" =>
          f.source = IF f.token \in LegacyToken THEN "legacy_api_token" ELSE "api_token_create"
    /\ f.kind = "revoked" =>
          /\ tokens[f.token] = "revoked"
          /\ f.source \in {"api_token_revoke", "legacy_api_token"}
          /\ f.source = "legacy_api_token" => ~RevokedAtRuntime(f.token)

SameKind(f, g) == f.token = g.token /\ f.kind = g.kind

TokenFactsInv ==
    /\ \A f \in tokenFacts : TokenFactOK(f)
    /\ \A f, g \in tokenFacts : SameKind(f, g) /\ f.source = g.source => f = g
    /\ \A t \in LegacyToken : tokens[t] # "none"
    /\ \A t \in Token \ LegacyToken :
          tokens[t] # "none" => \E f \in tokenFacts : f.token = t /\ f.kind = "created"
    /\ LastOfEach(tokenFacts)

(* A revoker holds the row of an active token.                             *)
RevokerInv(tx) ==
    /\ tx.at \in {"idle", "updated", "numbered"}
    /\ tx.staged = {}
    /\ tx.at = "idle" => tx.token = 0
    /\ tx.at # "idle" => tx.token \in Token /\ tokens[tx.token] = "active"
    /\ tx.at = "numbered" => tx.sequence # 0

(* What a backfill lists of a row stays true of it, and what it is about   *)
(* to seed is nowhere yet, or is there from another backfill.              *)
TokenBackfillInv(tx) ==
    /\ tx.at \in {"idle", "loading", "seeding", "marking"}
    /\ \A t \in tx.todo : tokens[t] # "none"
    /\ \A t \in tx.ended : tokens[t] = "revoked"
    /\ tx.at = "seeding" => tx.token \in Token /\ tokens[tx.token] # "none"
    /\ "created" \in tx.need => tx.token \in LegacyToken
    /\ "revoked" \in tx.need =>
          tx.token \in Token /\ tokens[tx.token] = "revoked" /\ ~RevokedAtRuntime(tx.token)
    /\ tx.sequence # 0 => tx.at = "seeding" /\ tx.need # {}
    /\ LastOfEach(tx.staged)
    /\ \A f \in tx.staged : TokenFactOK(f) /\ f.source = "legacy_api_token"
    /\ \A f, g \in tx.staged : SameKind(f, g) => f = g
    /\ \A f \in tx.staged, g \in tokenFacts : ~(SameKind(f, g) /\ g.source = f.source)

TokenTxInv(p, tx) ==
    /\ p \in Revokers => RevokerInv(tx)
    /\ p \in TokenBackfills => TokenBackfillInv(tx)

TokensApart(p, tx, q, ux) ==
    /\ p \in Revokers /\ q \in Revokers /\ tx.token # 0 => tx.token # ux.token
    /\ \A f \in tx.staged, g \in ux.staged : ~SameKind(f, g)

TokenInv ==
    /\ TokenTypeOK
    /\ TokenFactsInv
    /\ \A p \in TokenProcess : TokenTxInv(p, tokenTx[p])
    /\ \A p, q \in TokenProcess : p # q => TokensApart(p, tokenTx[p], q, tokenTx[q])

(* A token given to a command line is in one place: with the request that  *)
(* has created it, in the result of one pending login, or handed out.      *)
HandedInv ==
    /\ logins \in [Login -> [state : {"none", "open", "gone"}, result : Token \cup {NoToken}]]
    /\ browsers \in [Browsers -> [login : Login, token : Token] \cup {NoToken}]
    /\ handed \in [Token -> Nat]
    /\ \A b \in Browsers : browsers[b] # NoToken =>
          /\ tokens[browsers[b].token] # "none" /\ handed[browsers[b].token] = 0
          /\ \A l \in Login : logins[l].result # browsers[b].token
          /\ \A c \in Browsers \ {b} :
                browsers[c] # NoToken => browsers[c].token # browsers[b].token
    /\ \A l \in Login : logins[l].result # NoToken =>
          /\ logins[l].state = "open"
          /\ tokens[logins[l].result] # "none" /\ handed[logins[l].result] = 0
          /\ \A k \in Login \ {l} : logins[k].result # logins[l].result
    /\ \A t \in Token : tokens[t] = "none" => handed[t] = 0
    /\ HandedOutOnce

-----------------------------------------------------------------------------
(* The inductive invariant of the profile store.                           *)

ProfileFactSet ==
    [user : User, sequence : Nat \ {0}, profile : Profile, seeded : BOOLEAN]

ProfileTransaction ==
    [at : {"idle", "insert", "update", "updated", "numbered", "seeding", "seed", "marking"},
     account : Account \cup {Nothing}, user : User \cup {Nothing},
     profile : Profile \cup {Nothing}, sequence : Nat,
     listed : [User -> Profile \cup {Nothing}], todo : SUBSET User, last : Nat,
     staged : SUBSET ProfileFactSet]

ProfileProcess == OAuthLogins \cup ProfileBackfills

ProfileTypeOK ==
    /\ users \in [User -> Profile \cup {Nothing}]
    /\ userOf \in [Account -> User \cup {Nothing}]
    /\ profileFacts \subseteq ProfileFactSet
    /\ profileMark \in Nat
    /\ profileTx \in [ProfileProcess -> ProfileTransaction]

(* The facts of a user begin with sequence 1, have a last one, and the row *)
(* is what the last one says.                                              *)
UserOK(u) ==
    ProfileFactsOf(u) # {} =>
        /\ users[u] # Nothing
        /\ Taken(u, 1)
        /\ \E f \in ProfileFactsOf(u) :
              /\ \A g \in ProfileFactsOf(u) : g.sequence <= f.sequence
              /\ f.profile = users[u]

Locked(tx) == tx.at \in {"updated", "numbered"}

(* What a login has numbered comes last, unless it is the first and a seed *)
(* has taken it since.                                                     *)
OAuthInv(tx) ==
    /\ tx.at \in {"idle", "insert", "update", "updated", "numbered"}
    /\ tx.staged = {}
    /\ tx.at # "idle" => tx.profile \in Profile
    /\ tx.at = "insert" => tx.account \in Account
    /\ tx.at \in {"update", "updated", "numbered"} => tx.user \in User
    /\ tx.at = "numbered" =>
          /\ tx.sequence # 0
          /\ tx.sequence # 1 =>
                /\ ProfileFactsOf(tx.user) # {}
                /\ \A f \in ProfileFactsOf(tx.user) : f.sequence < tx.sequence

(* A user listed is as it was listed until it has a fact, and a seed that  *)
(* is not committed keeps other facts of its user out.                     *)
SeedInv(tx) ==
    /\ tx.at \in {"idle", "seeding", "seed", "marking"}
    /\ tx.at = "seed" => tx.todo # {}
    /\ \A u \in tx.todo :
          tx.listed[u] # Nothing /\ (ProfileFactsOf(u) = {} => users[u] = tx.listed[u])
    /\ \A f \in tx.staged :
          /\ f.user \notin tx.todo /\ f.sequence = 1
          /\ ProfileFactsOf(f.user) = {} /\ users[f.user] = f.profile
    /\ \A f, g \in tx.staged : f.user = g.user => f = g

ProfileTxInv(p, tx) ==
    /\ p \in OAuthLogins => OAuthInv(tx)
    /\ p \in ProfileBackfills => SeedInv(tx)

ProfilesApart(p, tx, q, ux) ==
    /\ p \in OAuthLogins /\ q \in OAuthLogins /\ Locked(tx) /\ Locked(ux) => tx.user # ux.user
    /\ \A f \in tx.staged, g \in ux.staged : f.user # g.user

ProfileInv ==
    /\ ProfileTypeOK
    /\ \A u \in User : UserOK(u)
    /\ \A f, g \in profileFacts : f.user = g.user /\ f.sequence = g.sequence => f = g
    /\ \A p \in ProfileProcess : ProfileTxInv(p, profileTx[p])
    /\ \A p, q \in ProfileProcess : p # q => ProfilesApart(p, profileTx[p], q, profileTx[q])

-----------------------------------------------------------------------------
(* The smallest and the largest of a set of naturals.                      *)

NatLess == {ss \in Nat \X Nat : ss[1] < ss[2]}

LEMMA NatLessWellFounded == IsWellFoundedOn(NatLess, Nat)
BY NatLessThanWellFounded DEF OpToRel, NatLess

LEMMA MinIs ==
    ASSUME NEW S \in SUBSET Nat, S # {}
    PROVE  Min(S) \in S /\ \A y \in S : Min(S) <= y
<1>1. \E x \in S : \A y \in S : <<y, x>> \notin NatLess
  BY NatLessWellFounded, WFMin, S \subseteq Nat
<1>2. \A x, y \in Nat : <<y, x>> \notin NatLess => x <= y
  BY DEF NatLess
<1>3. \E x \in S : \A y \in S : x <= y
  BY <1>1, <1>2
<1>4. QED  BY <1>3 DEF Min

LEMMA MaxIs ==
    ASSUME NEW S \in SUBSET Nat, NEW m \in S, \A v \in S : v <= m
    PROVE  Max(S) = m
<1>1. Max(S) \in S /\ \A y \in S : Max(S) >= y
  BY DEF Max
<1>2. Max(S) \in Nat /\ m \in Nat /\ Max(S) >= m /\ m >= Max(S)
  BY <1>1
<1>3. QED  BY <1>2

(* The next sequence is positive and every one below it is taken.          *)
LEMMA NextIsNext ==
    ASSUME SessionInv, NEW s \in Session
    PROVE  /\ NextSessionSequence(s) \in Nat \ {0}
           /\ TakenBelow(s, NextSessionSequence(s))
<1> DEFINE S == {f.sequence : f \in FactsAbout(s)} \cup {0}
<1>1. S \subseteq Nat
  BY DEF SessionInv, SessionTypeOK, FactsAbout, Fact
<1>2. CASE FactsAbout(s) = {}
  <2>1. S = {0}
    BY <1>2
  <2>2. Max(S) = 0
    BY <2>1, MaxIs
  <2>3. NextSessionSequence(s) = 1
    BY <2>2 DEF NextSessionSequence
  <2>4. QED  BY <2>3 DEF TakenBelow
<1>3. CASE FactsAbout(s) # {}
  <2>1. PICK f \in FactsAbout(s) : \A g \in FactsAbout(s) : g.sequence <= f.sequence
    BY <1>3 DEF SessionInv, HistoryInv, HasLast
  <2>2. f.sequence \in S /\ f.sequence \in Nat
    BY <1>1
  <2>3. \A v \in S : v <= f.sequence
    BY <2>1, <2>2
  <2>4. Max(S) = f.sequence
    BY <1>1, <2>2, <2>3, MaxIs
  <2>5. TakenBelow(s, f.sequence)
    BY DEF SessionInv, HistoryInv, FactsAbout
  <2>6. NextSessionSequence(s) = f.sequence + 1
    BY <2>4 DEF NextSessionSequence
  <2>7. \A m \in 1 .. (f.sequence + 1) - 1 : m \in 1 .. f.sequence - 1 \/ m = f.sequence
    BY <2>2
  <2>8. QED  BY <2>2, <2>5, <2>6, <2>7 DEF TakenBelow
<1>4. QED  BY <1>2, <1>3

-----------------------------------------------------------------------------
(* What a step that only moves one process keeps, and what a commit keeps  *)
(* of the others.                                                          *)

OnlyMoves(p) ==
    /\ UNCHANGED <<sessions, sessionFacts, sessionMark>>
    /\ expired' \subseteq Session
    /\ sessionTx' = [sessionTx EXCEPT ![p] = sessionTx'[p]]
    /\ sessionTx'[p] \in Transaction
    /\ TxInv(p, sessionTx'[p])
    /\ \A q \in SessionProcess \ {p} : Apart(sessionTx'[p], sessionTx[q])

LEMMA FactsStay ==
    ASSUME sessionFacts \subseteq sessionFacts'
    PROVE  \A s : /\ FactsAbout(s) \subseteq FactsAbout(s)'
                  /\ HasCreated(s) => HasCreated(s)'
                  /\ Known(s) => Known(s)'
                  /\ \A n : TakenBelow(s, n) => TakenBelow(s, n)'
<1>1. \A s : FactsAbout(s) \subseteq FactsAbout(s)'
  BY DEF FactsAbout
<1>2. QED  BY <1>1 DEF HasCreated, Known, TakenBelow

(* A row that an open transaction has deleted is still there. *)
LEMMA RemovedAreThere ==
    ASSUME SessionInv, NEW p \in SessionProcess
    PROVE  sessionTx[p].removed \subseteq sessions
<1>1. TxInv(p, sessionTx[p])
  BY DEF SessionInv
<1>2. CASE p \in Logouts
  BY <1>1, <1>2 DEF TxInv, LogoutInv
<1>3. CASE p \in Reapers
  BY <1>1, <1>3 DEF TxInv, ReaperInv
<1>4. CASE p \in Backfills
  BY <1>1, <1>4 DEF TxInv, BackfillInv
<1>5. QED  BY <1>2, <1>3, <1>4 DEF SessionProcess

LEMMA OthersStay ==
    ASSUME SessionInv, NEW q \in SessionProcess,
           sessionFacts \subseteq sessionFacts',
           sessionTx'[q] = sessionTx[q],
           \A f \in sessionFacts' \ sessionFacts, g \in sessionTx[q].staged : ~SameKey(g, f),
           sessionTx[q].removed \subseteq sessions',
           \A s \in sessions' \ sessions : HasCreated(s)'
    PROVE  TxInv(q, sessionTx[q])'
<1> DEFINE tx == sessionTx[q]
<1>1. TxInv(q, tx)
  BY DEF SessionInv
<1>2. tx' = tx
  OBVIOUS
<1>3. q \in Logouts => LogoutInv(tx)'
  BY <1>1, <1>2, FactsStay DEF TxInv, LogoutInv
<1>4. q \in Reapers => ReaperInv(tx)'
  BY <1>1, <1>2, FactsStay DEF TxInv, ReaperInv
<1>5. q \in Backfills => BackfillInv(tx)'
  <2>1. \A s : Covered(tx, s) => Covered(tx, s)'
    BY <1>2, FactsStay DEF Covered
  <2>2. \A s \in sessions' : s \in sessions \/ Covered(tx, s)'
    BY DEF Covered
  <2>3. QED  BY <1>1, <1>2, <2>1, <2>2, FactsStay DEF TxInv, BackfillInv
<1>6. \A f \in tx'.staged : Known(f.session)' /\ ~TakenByCommitted(f)'
  <2> SUFFICES ASSUME NEW f \in tx.staged
               PROVE  Known(f.session)' /\ \A g \in sessionFacts' : ~SameKey(f, g)
    BY <1>2 DEF TakenByCommitted
  <2>1. Known(f.session) /\ \A g \in sessionFacts : ~SameKey(f, g)
    BY <1>1 DEF TxInv, TakenByCommitted
  <2>2. QED  BY <2>1, FactsStay
<1>7. QED  BY <1>2, <1>3, <1>4, <1>5, <1>6 DEF TxInv

LEMMA Moved ==
    ASSUME SessionInv, NEW p \in SessionProcess, OnlyMoves(p)
    PROVE  SessionInv'
<1>1. SessionTypeOK'
  BY DEF SessionInv, SessionTypeOK, OnlyMoves
<1>2. HistoryInv'
  <2>1. UNCHANGED <<sessions, sessionFacts, sessionMark>>
    BY DEF OnlyMoves
  <2>2. HistoryInv
    BY DEF SessionInv
  <2>3. QED
    BY <2>1, <2>2 DEF HistoryInv, Known, HasLast, TakenBelow, FactsAbout, SessionHistoryOK,
                      HasEnded, NoExpiryAfterLogout, CursorCoversSessions, HasCreated
<1>3. \A q \in SessionProcess \ {p} : sessionTx'[q] = sessionTx[q]
  BY DEF OnlyMoves, SessionInv, SessionTypeOK
<1>4. \A q \in SessionProcess : TxInv(q, sessionTx[q])'
  <2> TAKE q \in SessionProcess
  <2>1. CASE q = p
    <3>1. UNCHANGED <<sessions, sessionFacts, sessionMark>> /\ TxInv(p, sessionTx'[p])
      BY DEF OnlyMoves
    <3>2. QED
      BY <2>1, <3>1 DEF TxInv, LogoutInv, ReaperInv, BackfillInv, Covered, Known, TakenBelow,
                        FactsAbout, HasCreated, TakenByCommitted
  <2>2. CASE q # p
    <3>1. sessionTx[q].removed \subseteq sessions
      BY RemovedAreThere
    <3>2. QED  BY <1>3, <2>2, <3>1, OthersStay DEF OnlyMoves
  <2>3. QED  BY <2>1, <2>2
<1>5. \A q, r \in SessionProcess : q # r => Apart(sessionTx[q], sessionTx[r])'
  <2> SUFFICES ASSUME NEW q \in SessionProcess, NEW r \in SessionProcess, q # r
               PROVE  Apart(sessionTx'[q], sessionTx'[r])
    BY DEF Apart
  <2>1. CASE q = p
    BY <1>3, <2>1 DEF OnlyMoves
  <2>2. CASE r = p
    <3>1. Apart(sessionTx'[r], sessionTx'[q])
      BY <1>3, <2>2 DEF OnlyMoves
    <3>2. QED  BY <3>1 DEF Apart, SameKey
  <2>3. CASE q # p /\ r # p
    BY <1>3, <2>3 DEF SessionInv
  <2>4. QED  BY <2>1, <2>2, <2>3
<1>6. QED  BY <1>1, <1>2, <1>4, <1>5 DEF SessionInv

-----------------------------------------------------------------------------
(* A logout moves.                                                         *)

LEMMA AbortKeeps ==
    ASSUME SessionInv, NEW p \in SessionProcess, Abort(p)
    PROVE  SessionInv'
<1>1. sessionTx'[p] \in {IdleTx, DoneTx}
  BY DEF Abort, Move, SessionInv, SessionTypeOK
<1>2. sessionTx'[p] \in Transaction /\ sessionTx'[p].staged = {} /\ sessionTx'[p].removed = {}
  <2>1. IdleTx \in Transaction /\ IdleTx.staged = {} /\ IdleTx.removed = {}
    BY DEF IdleTx, Transaction, Positions
  <2>2. DoneTx \in Transaction /\ DoneTx.staged = {} /\ DoneTx.removed = {}
    BY DEF DoneTx, IdleTx, Transaction, Positions
  <2>3. QED  BY <1>1, <2>1, <2>2
<1>3. TxInv(p, sessionTx'[p])
  <2>1. p \in Logouts => sessionTx'[p] = DoneTx
    BY DEF Abort, Move, SessionInv, SessionTypeOK
  <2>2. p \notin Logouts => sessionTx'[p] = IdleTx
    BY DEF Abort, Move, SessionInv, SessionTypeOK
  <2>3. CASE p \in Logouts
    BY <2>1, <2>3, SessionAssumption DEF TxInv, LogoutInv, IdleTx, DoneTx
  <2>4. CASE p \notin Logouts
    BY <2>2, <2>4, SessionAssumption DEF TxInv, ReaperInv, BackfillInv, IdleTx, DoneTx
  <2>5. QED  BY <2>3, <2>4
<1>4. OnlyMoves(p)
  BY <1>2, <1>3 DEF OnlyMoves, Abort, Move, Apart, SessionInv, SessionTypeOK
<1>5. QED  BY <1>4, Moved

LEMMA LogoutReadKeeps ==
    ASSUME SessionInv, NEW p \in Logouts, NEW s \in Session, LogoutRead(p, s)
    PROVE  SessionInv'
<1> DEFINE tx == [IdleTx EXCEPT !.at = "read", !.session = s]
<1>1. p \in SessionProcess /\ p \notin Reapers /\ p \notin Backfills
  BY SessionAssumption DEF SessionProcess
<1>2. tx \in Transaction /\ tx.staged = {} /\ tx.removed = {} /\ tx.at = "read" /\ tx.session = s
  BY DEF IdleTx, Transaction, Positions
<1>3. Known(s)
  BY DEF LogoutRead, SessionInv, HistoryInv
<1>4. TxInv(p, tx)
  BY <1>1, <1>2, <1>3 DEF TxInv, LogoutInv
<1>5. sessionTx' = [sessionTx EXCEPT ![p] = tx] /\ sessionTx'[p] = tx
  BY <1>1 DEF LogoutRead, Move, SessionInv, SessionTypeOK
<1>6. OnlyMoves(p)
  BY <1>2, <1>4, <1>5 DEF OnlyMoves, LogoutRead, Apart, SessionInv, SessionTypeOK
<1>7. QED  BY <1>1, <1>6, Moved

LEMMA NumberKeeps ==
    ASSUME SessionInv, NEW p \in Logouts \cup Reapers, Number(p)
    PROVE  SessionInv'
<1> DEFINE old == sessionTx[p]
           tx == [old EXCEPT !.at = "numbered", !.sequence = NextSessionSequence(old.session)]
<1>1. p \in SessionProcess /\ p \notin Backfills
  BY SessionAssumption DEF SessionProcess
<1>2. old \in Transaction /\ TxInv(p, old) /\ old.at = "read"
  BY <1>1 DEF Number, SessionInv, SessionTypeOK
<1>3. old.session \in Session /\ old.staged = {}
  <2>1. CASE p \in Logouts
    BY <1>2, <2>1 DEF TxInv, LogoutInv
  <2>2. CASE p \in Reapers
    BY <1>2, <2>2 DEF TxInv, ReaperInv, SessionInv, SessionTypeOK
  <2>3. QED  BY <2>1, <2>2
<1>4. /\ NextSessionSequence(old.session) \in Nat \ {0}
      /\ TakenBelow(old.session, NextSessionSequence(old.session))
  BY <1>3, NextIsNext
<1>5. /\ tx \in Transaction /\ tx.staged = {} /\ tx.removed = old.removed
      /\ tx.at = "numbered" /\ tx.session = old.session
      /\ tx.sequence = NextSessionSequence(old.session)
  BY <1>2, <1>3, <1>4 DEF Transaction, Positions
<1>6. TxInv(p, tx)
  <2> HIDE DEF tx, old
  <2>1. CASE p \in Logouts
    BY <1>1, <1>2, <1>4, <1>5, <2>1, SessionAssumption DEF TxInv, LogoutInv
  <2>2. CASE p \in Reapers
    BY <1>1, <1>2, <1>4, <1>5, <2>2, SessionAssumption DEF TxInv, ReaperInv
  <2>3. QED  BY <2>1, <2>2
<1>7. sessionTx' = [sessionTx EXCEPT ![p] = tx] /\ sessionTx'[p] = tx
  BY <1>1 DEF Number, Move, SessionInv, SessionTypeOK
<1>8. \A q \in SessionProcess \ {p} : Apart(tx, sessionTx[q])
  BY <1>1, <1>5 DEF Apart, SessionInv
<1>9. UNCHANGED <<sessions, expired, sessionFacts, sessionMark>> /\ expired \subseteq Session
  BY DEF Number, SessionInv, SessionTypeOK
<1>10. OnlyMoves(p)
  <2> HIDE DEF tx
  <2> QED  BY <1>5, <1>6, <1>7, <1>8, <1>9 DEF OnlyMoves
<1>11. QED  BY <1>1, <1>10, Moved

LEMMA LogoutInsertKeeps ==
    ASSUME SessionInv, NEW p \in Logouts, LogoutInsert(p)
    PROVE  SessionInv'
<1> DEFINE old == sessionTx[p]
           fact == SessionFact(old.session, old.sequence, "session_invalidate")
           tx == [old EXCEPT !.at = "inserted", !.staged = {fact}]
<1>1. p \in SessionProcess /\ p \notin Reapers /\ p \notin Backfills
  BY SessionAssumption DEF SessionProcess
<1>2. old \in Transaction /\ LogoutInv(old) /\ old.at = "numbered"
  BY <1>1 DEF LogoutInsert, SessionInv, SessionTypeOK, TxInv
<1>3. fact \in Fact
  BY <1>2 DEF LogoutInv, Fact, SessionFact, Transaction, Sources, EndSources
<1>4. /\ tx \in Transaction /\ tx.staged = {fact} /\ tx.removed = {}
      /\ tx.at = "inserted" /\ tx.session = old.session /\ tx.sequence = old.sequence
  BY <1>2, <1>3 DEF Transaction, Positions, LogoutInv
<1>5. ~TakenByOpen(p, fact) /\ ~TakenByCommitted(fact)
  BY DEF LogoutInsert, MayInsert, NextFact
<1>6. LogoutInv(tx) /\ Known(old.session)
  BY <1>2, <1>4 DEF LogoutInv
<1>7. fact.session = old.session
  BY DEF SessionFact
<1>8. TxInv(p, tx)
  <2> HIDE DEF tx, fact, old
  <2> QED  BY <1>1, <1>4, <1>5, <1>6, <1>7 DEF TxInv
<1>9. sessionTx' = [sessionTx EXCEPT ![p] = tx] /\ sessionTx'[p] = tx
  BY <1>1 DEF LogoutInsert, Move, SessionInv, SessionTypeOK, NextFact
<1>10. \A q \in SessionProcess \ {p} : Apart(tx, sessionTx[q])
  <2> HIDE DEF tx, fact
  <2> QED  BY <1>4, <1>5 DEF Apart, TakenByOpen, Holds, SameKey
<1>11. UNCHANGED <<sessions, expired, sessionFacts, sessionMark>> /\ expired \subseteq Session
  BY DEF LogoutInsert, SessionInv, SessionTypeOK
<1>12. OnlyMoves(p)
  <2> HIDE DEF tx
  <2> QED  BY <1>4, <1>8, <1>9, <1>10, <1>11 DEF OnlyMoves
<1>13. QED  BY <1>1, <1>12, Moved

-----------------------------------------------------------------------------
(* A reaper moves.                                                         *)

(* A sweep that goes on, or the end of one. *)
LEMMA SweepingIs ==
    ASSUME NEW todo \in SUBSET Session, NEW p \in Reapers
    PROVE  /\ Sweeping(todo) \in Transaction
           /\ Sweeping(todo).staged = {} /\ Sweeping(todo).removed = {}
           /\ Sweeping(todo).at \in {"idle", "sweeping"}
           /\ Sweeping(todo).at = "sweeping" => Sweeping(todo).todo # {}
           /\ TxInv(p, Sweeping(todo))
<1>1. p \notin Logouts /\ p \notin Backfills
  BY SessionAssumption
<1>2. CASE todo = {}
  BY <1>1, <1>2 DEF Sweeping, IdleTx, Transaction, Positions, TxInv, ReaperInv
<1>3. CASE todo # {}
  BY <1>1, <1>3 DEF Sweeping, IdleTx, Transaction, Positions, TxInv, ReaperInv
<1>4. QED  BY <1>2, <1>3

LEMMA ReaperListKeeps ==
    ASSUME SessionInv, NEW p \in Reapers, ReaperList(p)
    PROVE  SessionInv'
<1> DEFINE todo == Smallest(ReapBatch, Expired)
<1>1. p \in SessionProcess
  BY DEF SessionProcess
<1>2. todo \subseteq Session
  BY DEF Smallest, Expired, SessionInv, SessionTypeOK
<1>3. sessionTx' = [sessionTx EXCEPT ![p] = Sweeping(todo)] /\ sessionTx'[p] = Sweeping(todo)
  BY <1>1 DEF ReaperList, Move, SessionInv, SessionTypeOK
<1>4. /\ Sweeping(todo) \in Transaction
      /\ Sweeping(todo).staged = {} /\ Sweeping(todo).removed = {}
      /\ TxInv(p, Sweeping(todo))
  <2> HIDE DEF todo
  <2> QED  BY <1>2, SweepingIs
<1>5. UNCHANGED <<sessions, expired, sessionFacts, sessionMark>> /\ expired \subseteq Session
  BY DEF ReaperList, SessionInv, SessionTypeOK
<1>6. \A q \in SessionProcess \ {p} : Apart(sessionTx'[p], sessionTx[q])
  BY <1>3, <1>4 DEF Apart
<1>7. OnlyMoves(p)
  <2> HIDE DEF todo
  <2> QED  BY <1>3, <1>4, <1>5, <1>6 DEF OnlyMoves
<1>8. QED  BY <1>1, <1>7, Moved

LEMMA ReaperGoneKeeps ==
    ASSUME SessionInv, NEW p \in Reapers, ReaperGone(p)
    PROVE  SessionInv'
<1> DEFINE todo == sessionTx[p].todo \ {Min(sessionTx[p].todo)}
<1>1. p \in SessionProcess
  BY DEF SessionProcess
<1>2. todo \subseteq Session
  BY <1>1 DEF SessionInv, SessionTypeOK, Transaction
<1>3. sessionTx' = [sessionTx EXCEPT ![p] = Sweeping(todo)] /\ sessionTx'[p] = Sweeping(todo)
  BY <1>1 DEF ReaperGone, Move, SessionInv, SessionTypeOK
<1>4. /\ Sweeping(todo) \in Transaction
      /\ Sweeping(todo).staged = {} /\ Sweeping(todo).removed = {}
      /\ TxInv(p, Sweeping(todo))
  <2> HIDE DEF todo
  <2> QED  BY <1>2, SweepingIs
<1>5. UNCHANGED <<sessions, expired, sessionFacts, sessionMark>> /\ expired \subseteq Session
  BY DEF ReaperGone, SessionInv, SessionTypeOK
<1>6. \A q \in SessionProcess \ {p} : Apart(sessionTx'[p], sessionTx[q])
  BY <1>3, <1>4 DEF Apart
<1>7. OnlyMoves(p)
  <2> HIDE DEF todo
  <2> QED  BY <1>3, <1>4, <1>5, <1>6 DEF OnlyMoves
<1>8. QED  BY <1>1, <1>7, Moved

LEMMA ReaperDeleteKeeps ==
    ASSUME SessionInv, NEW p \in Reapers, ReaperDelete(p)
    PROVE  SessionInv'
<1> DEFINE old == sessionTx[p]
           s == Min(old.todo)
           tx == [old EXCEPT !.at = "read", !.session = s, !.removed = {s}, !.todo = old.todo \ {s}]
<1>1. p \in SessionProcess /\ p \notin Logouts /\ p \notin Backfills
  BY SessionAssumption DEF SessionProcess
<1>2. old \in Transaction /\ ReaperInv(old) /\ old.staged = {}
  BY <1>1 DEF SessionInv, SessionTypeOK, TxInv, ReaperInv
<1>3. s \in sessions /\ s \in Session
  BY DEF ReaperDelete, StillThere, SessionInv, SessionTypeOK
<1>4. /\ tx \in Transaction /\ tx.staged = {} /\ tx.removed = {s}
      /\ tx.at = "read" /\ tx.session = s
  BY <1>2, <1>3 DEF Transaction, Positions
<1>5. TxInv(p, tx)
  <2> HIDE DEF tx, s
  <2> QED  BY <1>1, <1>3, <1>4 DEF TxInv, ReaperInv
<1>6. sessionTx' = [sessionTx EXCEPT ![p] = tx] /\ sessionTx'[p] = tx
  BY <1>1 DEF ReaperDelete, Move, SessionInv, SessionTypeOK
<1>7. \A q \in SessionProcess \ {p} : Apart(tx, sessionTx[q])
  <2>1. ~RowLocked(p, s)
    BY DEF ReaperDelete
  <2> HIDE DEF tx, s
  <2>2. QED  BY <1>4, <2>1 DEF Apart, RowLocked
<1>8. UNCHANGED <<sessions, expired, sessionFacts, sessionMark>> /\ expired \subseteq Session
  BY DEF ReaperDelete, SessionInv, SessionTypeOK
<1>9. OnlyMoves(p)
  <2> HIDE DEF tx
  <2> QED  BY <1>4, <1>5, <1>6, <1>7, <1>8 DEF OnlyMoves
<1>10. QED  BY <1>1, <1>9, Moved

-----------------------------------------------------------------------------
(* A backfill moves.                                                       *)

LEMMA SmallestIsFirst ==
    ASSUME NEW n \in Nat, NEW S \in SUBSET Session,
           NEW s \in S, NEW t \in Smallest(n, S), s <= t
    PROVE  s \in Smallest(n, S)
<1> DEFINE below(x) == {r \in S : r < x}
<1>1. IsFiniteSet(S)
  BY SessionAssumption, FS_Subset
<1>2. t \in S /\ Cardinality(below(t)) < n
  BY DEF Smallest
<1>3. S \subseteq Nat
  BY SessionAssumption
<1>4. below(s) \subseteq below(t) /\ below(t) \subseteq S
  <2>1. \A r \in S : r < s => r < t
    BY <1>2, <1>3
  <2>2. QED  BY <2>1
<1>5. /\ IsFiniteSet(below(t)) /\ IsFiniteSet(below(s))
      /\ Cardinality(below(s)) <= Cardinality(below(t))
  BY <1>1, <1>4, FS_Subset
<1>6. Cardinality(below(s)) \in Nat /\ Cardinality(below(t)) \in Nat
  BY <1>5, FS_CardinalityType
<1>7. Cardinality(below(s)) < n
  BY <1>2, <1>5, <1>6
<1>8. QED  BY <1>7 DEF Smallest

LEMMA SeedListKeeps ==
    ASSUME SessionInv, NEW p \in Backfills, SeedList(p)
    PROVE  SessionInv'
<1> DEFINE left == {s \in sessions : s > sessionMark.cursor}
           todo == Smallest(SeedBatch, left)
           place == IF left = {} THEN "marking" ELSE "seeding"
           tx == [IdleTx EXCEPT !.at = place, !.todo = todo, !.last = sessionMark.cursor,
                                !.complete = Cardinality(left) <= SeedBatch]
<1>1. p \in SessionProcess /\ p \notin Logouts /\ p \notin Reapers
  BY SessionAssumption DEF SessionProcess
<1>2. left \subseteq Session /\ todo \subseteq left /\ left \subseteq sessions
  BY DEF SessionInv, SessionTypeOK, Smallest
<1>3. place \in {"marking", "seeding"} /\ (Cardinality(left) <= SeedBatch) \in BOOLEAN
  OBVIOUS
<1>4. sessionMark.cursor \in Nat
  BY DEF SessionInv, SessionTypeOK
<1>5. /\ tx \in Transaction /\ tx.staged = {} /\ tx.removed = {}
      /\ tx.at = place /\ tx.todo = todo /\ tx.last = sessionMark.cursor
  <2> HIDE DEF place, todo, left
  <2> QED  BY <1>2, <1>3, <1>4 DEF IdleTx, Transaction, Positions
<1>6. \A s \in sessions : s <= tx.last => HasCreated(s)
  <2> HIDE DEF tx
  <2> QED  BY <1>5 DEF SessionInv, HistoryInv, CursorCoversSessions
<1>7. \A t \in todo, s \in sessions : s <= t => s \in todo \/ HasCreated(s)
  <2> SUFFICES ASSUME NEW t \in todo, NEW s \in sessions, s <= t
               PROVE  s \in todo \/ HasCreated(s)
    OBVIOUS
  <2>1. CASE s \in left
    BY <1>2, <2>1, SmallestIsFirst, SessionAssumption
  <2>2. CASE s \notin left
    <3>1. s \in Nat
      BY SessionAssumption DEF SessionInv, SessionTypeOK
    <3>2. s <= sessionMark.cursor
      BY <1>4, <2>2, <3>1
    <3>3. QED  BY <1>5, <1>6, <3>2
  <2>3. QED  BY <2>1, <2>2
<1>8. place = "marking" => todo = {}
  BY <1>2
<1>9. \A s \in todo : Known(s)
  BY <1>2 DEF SessionInv, HistoryInv
<1>10. TxInv(p, tx)
  <2> HIDE DEF tx, todo, place, left
  <2> QED  BY <1>1, <1>3, <1>5, <1>6, <1>7, <1>8, <1>9 DEF TxInv, BackfillInv, Covered
<1>11. sessionTx' = [sessionTx EXCEPT ![p] = tx] /\ sessionTx'[p] = tx
  BY <1>1 DEF SeedList, Move, SessionInv, SessionTypeOK
<1>12. UNCHANGED <<sessions, expired, sessionFacts, sessionMark>> /\ expired \subseteq Session
  BY DEF SeedList, SessionInv, SessionTypeOK
<1>13. OnlyMoves(p)
  <2> HIDE DEF tx
  <2> QED  BY <1>5, <1>10, <1>11, <1>12 DEF OnlyMoves, Apart
<1>14. QED  BY <1>1, <1>13, Moved

(* The session a backfill has come to. *)
LEMMA NextSeedIs ==
    ASSUME SessionInv, NEW p \in Backfills, sessionTx[p].todo # {}
    PROVE  /\ NextSeed(p) \in sessionTx[p].todo /\ NextSeed(p) \in Session
           /\ NextSeed(p) \in Nat
           /\ \A t \in sessionTx[p].todo : NextSeed(p) <= t
<1>1. sessionTx[p].todo \subseteq Session
  BY DEF SessionInv, SessionTypeOK, Transaction, SessionProcess
<1>2. sessionTx[p].todo \in SUBSET Nat
  BY <1>1, SessionAssumption
<1>3. QED  BY <1>1, <1>2, MinIs DEF NextSeed

(* It is passed when it has its fact, committed or not. *)
LEMMA SeededKeeps ==
    ASSUME SessionInv, NEW p \in Backfills, NEW new \in SUBSET Fact,
           sessionTx[p].at \in {"seeding", "seed"}, sessionTx[p].todo # {},
           HasCreated(NextSeed(p)) \/ \E f \in new : f.session = NextSeed(p),
           \A f \in new :
               /\ f.session = NextSeed(p) /\ f.sequence = 1 /\ f.source = "legacy_session"
               /\ ~TakenByCommitted(f) /\ ~TakenByOpen(p, f),
           Move(p, [Seeded(p) EXCEPT !.staged = sessionTx[p].staged \cup new]),
           UNCHANGED <<sessions, expired, sessionFacts, sessionMark>>
    PROVE  SessionInv'
<1> DEFINE old == sessionTx[p]
           s == NextSeed(p)
           tx == [Seeded(p) EXCEPT !.staged = old.staged \cup new]
<1>1. p \in SessionProcess /\ p \notin Logouts /\ p \notin Reapers
  BY SessionAssumption DEF SessionProcess
<1>2. old \in Transaction /\ TxInv(p, old) /\ BackfillInv(old)
  BY <1>1 DEF SessionInv, SessionTypeOK, TxInv
<1>3. s \in old.todo /\ s \in Session /\ s \in Nat /\ \A t \in old.todo : s <= t
  BY NextSeedIs
<1>4. /\ tx \in Transaction /\ tx.staged = old.staged \cup new /\ tx.removed = old.removed
      /\ tx.at = "seeding" /\ tx.todo = old.todo \ {s} /\ tx.last = s
  <2> HIDE DEF s
  <2> QED  BY <1>2, <1>3 DEF Seeded, Transaction, Positions, s
<1>5. Covered(tx, s) /\ \A r : Covered(old, r) => Covered(tx, r)
  <2> HIDE DEF tx
  <2> QED  BY <1>4 DEF Covered
<1>6. \A r \in sessions : r <= s => r \in tx.todo \/ Covered(tx, r)
  <2> HIDE DEF tx, s, old
  <2> QED  BY <1>2, <1>3, <1>4, <1>5 DEF BackfillInv, old
<1>7. \A t \in tx.todo, r \in sessions : r <= t => r \in tx.todo \/ Covered(tx, r)
  <2> HIDE DEF tx, s, old
  <2> QED  BY <1>2, <1>3, <1>4, <1>5 DEF BackfillInv, old
<1>8. /\ \A f \in tx.staged : f.sequence = 1 /\ f.source = "legacy_session"
      /\ \A f \in tx.staged : Known(f.session) /\ ~TakenByCommitted(f)
      /\ tx.removed = {}
      /\ \A r \in tx.todo : Known(r)
  <2> HIDE DEF tx, s, old
  <2> QED  BY <1>2, <1>3, <1>4 DEF BackfillInv, TxInv, s, old
<1>9. TxInv(p, tx)
  <2> HIDE DEF tx, s, old
  <2> QED  BY <1>1, <1>4, <1>6, <1>7, <1>8 DEF TxInv, BackfillInv
<1>10. sessionTx' = [sessionTx EXCEPT ![p] = tx] /\ sessionTx'[p] = tx
  BY <1>1 DEF Move, SessionInv, SessionTypeOK
<1>11. \A q \in SessionProcess \ {p} : Apart(tx, sessionTx[q])
  <2> TAKE q \in SessionProcess \ {p}
  <2>1. Apart(old, sessionTx[q])
    BY <1>1 DEF SessionInv
  <2>2. \A f \in new, g \in sessionTx[q].staged : ~SameKey(f, g)
    BY DEF TakenByOpen, Holds, SameKey
  <2> HIDE DEF tx, old
  <2>3. QED  BY <1>4, <2>1, <2>2 DEF Apart
<1>12. expired' \subseteq Session
  BY DEF SessionInv, SessionTypeOK
<1>13. OnlyMoves(p)
  <2> HIDE DEF tx
  <2> QED  BY <1>4, <1>9, <1>10, <1>11, <1>12 DEF OnlyMoves
<1>14. QED  BY <1>1, <1>13, Moved

LEMMA SeedSkipKeeps ==
    ASSUME SessionInv, NEW p \in Backfills, SeedSkip(p)
    PROVE  SessionInv'
<1> DEFINE new == {}
<1>1. sessionTx[p] \in Transaction
  BY DEF SessionInv, SessionTypeOK, SessionProcess
<1>2. Seeded(p) = [Seeded(p) EXCEPT !.staged = sessionTx[p].staged \cup new]
  BY <1>1 DEF Seeded, Transaction
<1>3. /\ Move(p, [Seeded(p) EXCEPT !.staged = sessionTx[p].staged \cup new])
      /\ UNCHANGED <<sessions, expired, sessionFacts, sessionMark>>
      /\ sessionTx[p].at \in {"seeding", "seed"} /\ sessionTx[p].todo # {}
      /\ HasCreated(NextSeed(p))
  BY <1>2 DEF SeedSkip, NeedsSeed
<1>4. new \in SUBSET Fact /\ \A f \in new : FALSE
  OBVIOUS
<1> HIDE DEF new
<1>5. QED  BY <1>3, <1>4, SeededKeeps

LEMMA SeedLoadKeeps ==
    ASSUME SessionInv, NEW p \in Backfills, SeedLoad(p)
    PROVE  SessionInv'
<1> DEFINE old == sessionTx[p]
           tx == [old EXCEPT !.at = "seed"]
<1>1. p \in SessionProcess /\ p \notin Logouts /\ p \notin Reapers
  BY SessionAssumption DEF SessionProcess
<1>2. old \in Transaction /\ TxInv(p, old) /\ old.at = "seeding" /\ old.todo # {}
  BY <1>1 DEF SessionInv, SessionTypeOK, SeedLoad
<1>3. /\ tx \in Transaction /\ tx.staged = old.staged /\ tx.removed = old.removed
      /\ tx.at = "seed" /\ tx.todo = old.todo /\ tx.last = old.last
  BY <1>2 DEF Transaction, Positions
<1>4. TxInv(p, tx)
  <2> HIDE DEF tx, old
  <2> QED  BY <1>1, <1>2, <1>3 DEF TxInv, BackfillInv, Covered
<1>5. sessionTx' = [sessionTx EXCEPT ![p] = tx] /\ sessionTx'[p] = tx
  BY <1>1 DEF SeedLoad, Move, SessionInv, SessionTypeOK
<1>6. \A q \in SessionProcess \ {p} : Apart(tx, sessionTx[q])
  BY <1>1, <1>3 DEF Apart, SessionInv
<1>7. UNCHANGED <<sessions, expired, sessionFacts, sessionMark>> /\ expired \subseteq Session
  BY DEF SeedLoad, SessionInv, SessionTypeOK
<1>8. OnlyMoves(p)
  <2> HIDE DEF tx
  <2> QED  BY <1>3, <1>4, <1>5, <1>6, <1>7 DEF OnlyMoves
<1>9. QED  BY <1>1, <1>8, Moved

LEMMA SeedInsertKeeps ==
    ASSUME SessionInv, NEW p \in Backfills, SeedInsert(p)
    PROVE  SessionInv'
<1>1. p \in SessionProcess /\ sessionTx[p] \in Transaction
  BY DEF SessionInv, SessionTypeOK, SessionProcess
<1>2. BackfillInv(sessionTx[p])
  BY <1>1 DEF SessionInv, TxInv
<1>3. sessionTx[p].at = "seed" /\ sessionTx[p].todo # {}
  BY <1>2 DEF SeedInsert, BackfillInv
<1>4. NextSeed(p) \in Session
  BY <1>3, NextSeedIs
<1>5. CASE AlreadySeeded(p)
  <2> DEFINE new == {}
  <2>1. Seeded(p) = [Seeded(p) EXCEPT !.staged = sessionTx[p].staged \cup new]
    BY <1>1 DEF Seeded, Transaction
  <2>2. HasCreated(NextSeed(p))
    BY <1>5 DEF AlreadySeeded, HasCreated, CreatedSources, FactsAbout
  <2>3. /\ Move(p, [Seeded(p) EXCEPT !.staged = sessionTx[p].staged \cup new])
        /\ UNCHANGED <<sessions, expired, sessionFacts, sessionMark>>
    BY <1>5, <2>1 DEF SeedInsert
  <2>4. new \in SUBSET Fact /\ \A f \in new : FALSE
    OBVIOUS
  <2> HIDE DEF new
  <2>5. QED  BY <1>3, <2>2, <2>3, <2>4, SeededKeeps
<1>6. CASE ~AlreadySeeded(p)
  <2> DEFINE new == {SeedFact(p)}
  <2>1. new \in SUBSET Fact
    BY <1>4 DEF SeedFact, SessionFact, Fact, Sources, CreatedSources
  <2>2. [Seeded(p) EXCEPT !.staged = @ \cup {SeedFact(p)}]
          = [Seeded(p) EXCEPT !.staged = sessionTx[p].staged \cup new]
    BY <1>1 DEF Seeded, Transaction
  <2>3. \A f \in new :
            /\ f.session = NextSeed(p) /\ f.sequence = 1 /\ f.source = "legacy_session"
            /\ ~TakenByCommitted(f) /\ ~TakenByOpen(p, f)
    BY <1>6 DEF SeedFact, SessionFact, SeedInsert
  <2>4. \E f \in new : f.session = NextSeed(p)
    BY DEF SeedFact, SessionFact
  <2>5. /\ Move(p, [Seeded(p) EXCEPT !.staged = sessionTx[p].staged \cup new])
        /\ UNCHANGED <<sessions, expired, sessionFacts, sessionMark>>
    BY <1>6, <2>2 DEF SeedInsert
  <2> HIDE DEF new
  <2>6. QED  BY <1>3, <2>1, <2>3, <2>4, <2>5, SeededKeeps
<1>7. QED  BY <1>5, <1>6

-----------------------------------------------------------------------------
(* Commits.                                                                *)

(* Facts that continue the sequences of their sessions leave no gap.       *)
LEMMA NoGap ==
    ASSUME SessionInv, NEW new \in SUBSET Fact, sessionFacts' = sessionFacts \cup new,
           \A f \in new : TakenBelow(f.session, f.sequence),
           \A f, g \in new : f.session = g.session => f.sequence = g.sequence
    PROVE  /\ \A s \in Session : HasLast(s)'
           /\ \A f \in sessionFacts' : TakenBelow(f.session, f.sequence)'
<1>1. \A f \in sessionFacts' : TakenBelow(f.session, f.sequence)'
  <2>1. \A f \in sessionFacts' : TakenBelow(f.session, f.sequence)
    BY DEF SessionInv, HistoryInv
  <2>2. QED  BY <2>1, FactsStay
<1>2. \A s \in Session : HasLast(s)'
  <2> TAKE s \in Session
  <2>1. CASE \A f \in new : f.session # s
    <3>1. FactsAbout(s)' = FactsAbout(s)
      BY <2>1 DEF FactsAbout
    <3>2. QED  BY <3>1 DEF HasLast, SessionInv, HistoryInv
  <2>2. CASE \E f \in new : f.session = s
    <3>1. PICK f \in new : f.session = s
      BY <2>2
    <3>2. \A g \in FactsAbout(s)' : g \in FactsAbout(s) \/ g.sequence = f.sequence
      BY <3>1 DEF FactsAbout
    <3>3. f \in FactsAbout(s)' /\ FactsAbout(s) \subseteq FactsAbout(s)'
      BY <3>1 DEF FactsAbout
    <3>4. \A g \in FactsAbout(s)' : g.sequence \in Nat
      BY DEF FactsAbout, Fact, SessionInv, SessionTypeOK
    <3>5. CASE FactsAbout(s) = {}
      <4>1. \A g \in FactsAbout(s)' : g.sequence <= f.sequence
        BY <3>2, <3>3, <3>4, <3>5
      <4>2. QED  BY <3>3, <4>1 DEF HasLast
    <3>6. CASE FactsAbout(s) # {}
      <4>1. PICK l \in FactsAbout(s) : \A g \in FactsAbout(s) : g.sequence <= l.sequence
        BY <3>6 DEF SessionInv, HistoryInv, HasLast
      <4>2. CASE f.sequence <= l.sequence
        <5>1. \A g \in FactsAbout(s)' : g.sequence <= l.sequence
          BY <3>2, <4>1, <4>2
        <5>2. QED  BY <3>3, <5>1 DEF HasLast
      <4>3. CASE ~(f.sequence <= l.sequence)
        <5>1. l.sequence <= f.sequence
          BY <3>3, <3>4, <4>3
        <5>2. \A g \in FactsAbout(s)' : g.sequence <= f.sequence
          BY <3>2, <3>3, <3>4, <4>1, <5>1
        <5>3. QED  BY <3>3, <5>2 DEF HasLast
      <4>4. QED  BY <4>2, <4>3
    <3>7. QED  BY <3>5, <3>6
  <2>3. QED  BY <2>1, <2>2
<1>3. QED  BY <1>1, <1>2

LEMMA AllTaken ==
    ASSUME SessionTypeOK', \A f \in sessionFacts' : TakenBelow(f.session, f.sequence)'
    PROVE  \A f \in sessionFacts' : \A n \in 1 .. f.sequence :
               \E g \in FactsAbout(f.session)' : g.sequence = n
<1> SUFFICES ASSUME NEW f \in sessionFacts', NEW n \in 1 .. f.sequence
             PROVE  \E g \in FactsAbout(f.session)' : g.sequence = n
  OBVIOUS
<1>1. f.sequence \in Nat /\ f \in FactsAbout(f.session)'
  BY DEF SessionTypeOK, Fact, FactsAbout
<1>2. n \in 1 .. f.sequence - 1 \/ n = f.sequence
  BY <1>1
<1>3. QED  BY <1>1, <1>2 DEF TakenBelow

LEMMA CommitKeeps ==
    ASSUME SessionInv, NEW p \in SessionProcess, SessionTypeOK', HistoryInv',
           sessionFacts \subseteq sessionFacts',
           sessionTx' = [sessionTx EXCEPT ![p] = sessionTx'[p]],
           sessionTx'[p].staged = {}, sessionTx'[p].removed = {},
           TxInv(p, sessionTx[p])',
           \A q \in SessionProcess \ {p} :
               /\ \A f \in sessionFacts' \ sessionFacts, g \in sessionTx[q].staged : ~SameKey(g, f)
               /\ sessionTx[q].removed \subseteq sessions',
           sessions' \subseteq sessions
    PROVE  SessionInv'
<1>1. \A q \in SessionProcess \ {p} : sessionTx'[q] = sessionTx[q]
  BY DEF SessionInv, SessionTypeOK
<1>2. \A q \in SessionProcess : TxInv(q, sessionTx[q])'
  <2> TAKE q \in SessionProcess
  <2>1. CASE q = p
    BY <2>1
  <2>2. CASE q # p
    BY <1>1, <2>2, OthersStay
  <2>3. QED  BY <2>1, <2>2
<1>3. \A q, r \in SessionProcess : q # r => Apart(sessionTx[q], sessionTx[r])'
  <2> SUFFICES ASSUME NEW q \in SessionProcess, NEW r \in SessionProcess, q # r
               PROVE  Apart(sessionTx'[q], sessionTx'[r])
    BY DEF Apart
  <2>1. CASE q = p \/ r = p
    BY <2>1 DEF Apart
  <2>2. CASE q # p /\ r # p
    BY <1>1, <2>2 DEF SessionInv
  <2>3. QED  BY <2>1, <2>2
<1>4. QED  BY <1>2, <1>3 DEF SessionInv

(* Only the rest of the state is left as it is. *)
LEMMA ExpireKeeps ==
    ASSUME SessionInv, expired' \subseteq Session,
           UNCHANGED <<sessions, sessionFacts, sessionMark, sessionTx>>
    PROVE  SessionInv'
<1>1. SessionTypeOK'
  BY DEF SessionInv, SessionTypeOK
<1>2. HistoryInv'
  BY DEF SessionInv, HistoryInv, Known, HasLast, TakenBelow, FactsAbout, SessionHistoryOK,
         HasEnded, NoExpiryAfterLogout, CursorCoversSessions, HasCreated
<1>3. \A q \in SessionProcess : TxInv(q, sessionTx[q])'
  BY RemovedAreThere, OthersStay
<1>4. QED  BY <1>1, <1>2, <1>3 DEF SessionInv, Apart, SameKey

(* What is written about a session changes nothing about the others. *)
LEMMA OneSession ==
    ASSUME NEW s, NEW r, r # s, \A f \in sessionFacts' : f \in sessionFacts \/ f.session = s,
           sessionFacts \subseteq sessionFacts'
    PROVE  /\ FactsAbout(r)' = FactsAbout(r)
           /\ HasEnded(r)' <=> HasEnded(r)
<1>1. FactsAbout(r)' = FactsAbout(r)
  BY DEF FactsAbout
<1>2. QED  BY <1>1 DEF HasEnded

LEMMA CreateSessionKeeps ==
    ASSUME SessionInv, NEW s \in Session, CreateSession(s)
    PROVE  SessionInv'
<1> DEFINE f == SessionFact(s, 1, "session_create")
           new == {f}
<1>1. f \in Fact /\ f.session = s /\ f.sequence = 1 /\ f.source = "session_create"
  BY DEF SessionFact, Fact, Sources, CreatedSources
<1>2. sessionFacts' = sessionFacts \cup new /\ new \in SUBSET Fact
  BY <1>1 DEF CreateSession
<1>3. ~Known(s) /\ FactsAbout(s) = {}
  BY DEF CreateSession, Known
<1> HIDE DEF f
<1>4. FactsAbout(s)' = {f} /\ HasCreated(s)' /\ Known(s)' /\ ~HasEnded(s)'
  <2>1. FactsAbout(s)' = {f}
    BY <1>1, <1>2, <1>3 DEF FactsAbout
  <2>2. QED  BY <1>1, <2>1 DEF HasCreated, Known, HasEnded, CreatedSources, EndSources
<1>5. SessionTypeOK'
  BY <1>1, <1>2 DEF CreateSession, SessionInv, SessionTypeOK
<1>6. HistoryInv'
  <2>1. TakenBelow(f.session, f.sequence)
    BY <1>1 DEF TakenBelow
  <2>2. /\ \A r \in Session : HasLast(r)'
        /\ \A g \in sessionFacts' : TakenBelow(g.session, g.sequence)'
    <3>1. /\ \A g \in new : TakenBelow(g.session, g.sequence)
          /\ \A g, h \in new : g.session = h.session => g.sequence = h.sequence
      BY <2>1
    <3> HIDE DEF new
    <3>2. QED  BY <1>2, <3>1, NoGap
  <2>3. \A r \in sessions' : Known(r)' /\ ~HasEnded(r)' /\ (r <= sessionMark'.cursor => HasCreated(r)')
    <3> TAKE r \in sessions'
    <3>1. CASE r = s
      BY <1>4, <3>1
    <3>2. CASE r # s
      <4>1. r \in sessions /\ sessionMark' = sessionMark
        BY <3>2 DEF CreateSession
      <4>2. ~HasEnded(r)'
        BY <1>1, <1>2, <3>2, <4>1, OneSession DEF SessionInv, HistoryInv, SessionHistoryOK
      <4>3. QED
        BY <1>2, <4>1, <4>2, FactsStay DEF SessionInv, HistoryInv, CursorCoversSessions
    <3>3. QED  BY <3>1, <3>2
  <2>4. NoExpiryAfterLogout'
    <3>1. \A g \in sessionFacts' : g \in sessionFacts \/ g.source = "session_create"
      BY <1>1, <1>2
    <3>2. QED  BY <3>1 DEF NoExpiryAfterLogout, SessionInv, HistoryInv
  <2>5. SessionHistoryOK'
    BY <1>5, <2>2, <2>3, AllTaken DEF SessionHistoryOK
  <2>6. QED  BY <2>2, <2>3, <2>4, <2>5 DEF HistoryInv, CursorCoversSessions
<1>7. \A q \in SessionProcess : TxInv(q, sessionTx[q])'
  <2> TAKE q \in SessionProcess
  <2>1. \A g \in sessionTx[q].staged : g.session # s
    BY <1>3 DEF SessionInv, TxInv
  <2>2. \A h \in sessionFacts' \ sessionFacts, g \in sessionTx[q].staged : ~SameKey(g, h)
    BY <1>1, <1>2, <2>1 DEF SameKey
  <2>3. sessionTx'[q] = sessionTx[q] /\ sessions' = sessions \cup {s}
    BY DEF CreateSession
  <2>4. QED  BY <1>2, <1>4, <2>2, <2>3, RemovedAreThere, OthersStay
<1>8. \A q, r \in SessionProcess : q # r => Apart(sessionTx[q], sessionTx[r])'
  BY DEF SessionInv, CreateSession, Apart, SameKey
<1>9. QED  BY <1>5, <1>6, <1>7, <1>8 DEF SessionInv

(* A session whose row is deleted gets the fact that says it ended. *)
LEMMA EndKeepsHistory ==
    ASSUME SessionInv, SessionTypeOK', NEW f \in Fact,
           sessionFacts' = sessionFacts \cup {f},
           f.source \in EndSources,
           TakenBelow(f.session, f.sequence), ~TakenByCommitted(f),
           f.source = "session_expire" => f.session \in sessions,
           sessions' = sessions \ {f.session},
           UNCHANGED sessionMark
    PROVE  HistoryInv'
<1> DEFINE new == {f}
<1>1. /\ \A r \in Session : HasLast(r)'
      /\ \A g \in sessionFacts' : TakenBelow(g.session, g.sequence)'
  <2>1. /\ new \in SUBSET Fact /\ sessionFacts' = sessionFacts \cup new
        /\ \A g \in new : TakenBelow(g.session, g.sequence)
        /\ \A g, h \in new : g.session = h.session => g.sequence = h.sequence
    OBVIOUS
  <2> HIDE DEF new
  <2>2. QED  BY <2>1, NoGap
<1>2. \A r \in sessions' : Known(r)' /\ ~HasEnded(r)' /\ (r <= sessionMark'.cursor => HasCreated(r)')
  <2> TAKE r \in sessions'
  <2>1. r \in sessions /\ r # f.session
    OBVIOUS
  <2>2. ~HasEnded(r)'
    BY <2>1, OneSession DEF SessionInv, HistoryInv, SessionHistoryOK
  <2>3. QED  BY <2>1, <2>2, FactsStay DEF SessionInv, HistoryInv, CursorCoversSessions
<1>3. SessionHistoryOK'
  BY <1>1, <1>2, AllTaken DEF SessionHistoryOK
<1>4. NoExpiryAfterLogout'
  <2> SUFFICES ASSUME NEW e \in sessionFacts', NEW l \in sessionFacts', e.session = l.session,
                      e.source = "session_expire", l.source = "session_invalidate"
               PROVE  e.sequence < l.sequence
    BY DEF NoExpiryAfterLogout
  <2>1. CASE e \in sessionFacts /\ l \in sessionFacts
    BY <2>1 DEF SessionInv, HistoryInv, NoExpiryAfterLogout
  <2>2. CASE e = f /\ l \in sessionFacts
    <3>1. HasEnded(f.session)
      BY <2>2 DEF HasEnded, FactsAbout, EndSources
    <3>2. QED  BY <2>2, <3>1 DEF SessionInv, HistoryInv, SessionHistoryOK
  <2>3. CASE l = f /\ e \in sessionFacts
    <3>1. SUFFICES ASSUME ~(e.sequence < l.sequence)  PROVE FALSE
      OBVIOUS
    <3>2. e.sequence \in Nat /\ l.sequence \in Nat /\ l.sequence # 0
      BY <2>3 DEF SessionInv, SessionTypeOK, Fact
    <3>3. e.sequence = l.sequence \/ l.sequence \in 1 .. e.sequence - 1
      BY <3>1, <3>2
    <3>4. e \in FactsAbout(l.session) /\ TakenBelow(l.session, e.sequence)
      BY <2>3 DEF FactsAbout, SessionInv, HistoryInv
    <3>5. \E g \in FactsAbout(l.session) : g.sequence = l.sequence
      BY <3>3, <3>4 DEF TakenBelow
    <3>6. QED  BY <2>3, <3>5 DEF FactsAbout, TakenByCommitted, SameKey
  <2>4. CASE e = f /\ l = f
    BY <2>4
  <2>5. QED  BY <2>1, <2>2, <2>3, <2>4
<1>5. QED  BY <1>1, <1>2, <1>3, <1>4 DEF HistoryInv, CursorCoversSessions

LEMMA LogoutDeleteKeeps ==
    ASSUME SessionInv, NEW p \in Logouts, LogoutDelete(p)
    PROVE  SessionInv'
<1> DEFINE old == sessionTx[p]
           f == SessionFact(old.session, old.sequence, "session_invalidate")
<1>1. p \in SessionProcess /\ p \notin Reapers /\ p \notin Backfills
  BY SessionAssumption DEF SessionProcess
<1>2. old \in Transaction /\ TxInv(p, old) /\ LogoutInv(old) /\ old.at = "inserted"
  BY <1>1 DEF LogoutDelete, SessionInv, SessionTypeOK, TxInv
<1>3. old.staged = {f} /\ TakenBelow(old.session, old.sequence)
  BY <1>2 DEF LogoutInv
<1>4. /\ f.session = old.session /\ f.sequence = old.sequence /\ f.source = "session_invalidate"
      /\ f \in Fact /\ ~TakenByCommitted(f)
  BY <1>2, <1>3 DEF SessionFact, Transaction, TxInv
<1> HIDE DEF f
<1>5. /\ sessions' = sessions \ {f.session} /\ sessionFacts' = sessionFacts \cup {f}
      /\ ~RowLocked(p, f.session)
      /\ sessionTx' = [sessionTx EXCEPT ![p] = DoneTx] /\ sessionTx'[p] = DoneTx
      /\ expired' = expired /\ sessionMark' = sessionMark
  BY <1>1, <1>3, <1>4 DEF LogoutDelete, RowDeleted, Move, SessionInv, SessionTypeOK
<1>6. /\ DoneTx \in Transaction /\ DoneTx.staged = {} /\ DoneTx.removed = {} /\ DoneTx.at = "done"
  BY DEF DoneTx, IdleTx, Transaction, Positions
<1>7. SessionTypeOK'
  BY <1>4, <1>5, <1>6 DEF SessionInv, SessionTypeOK
<1>8. HistoryInv'
  BY <1>3, <1>4, <1>5, <1>7, EndKeepsHistory DEF EndSources
<1>9. TxInv(p, sessionTx[p])'
  BY <1>1, <1>5, <1>6 DEF TxInv, LogoutInv
<1>10. \A q \in SessionProcess \ {p} :
           /\ \A h \in sessionFacts' \ sessionFacts, g \in sessionTx[q].staged : ~SameKey(g, h)
           /\ sessionTx[q].removed \subseteq sessions'
  <2> TAKE q \in SessionProcess \ {p}
  <2>1. Apart(old, sessionTx[q])
    BY <1>1 DEF SessionInv
  <2>2. \A h \in sessionFacts' \ sessionFacts : h \in old.staged
    BY <1>3, <1>5
  <2>3. f.session \notin sessionTx[q].removed
    BY <1>5 DEF RowLocked
  <2>4. sessionTx[q].removed \subseteq sessions
    BY RemovedAreThere
  <2>5. QED  BY <1>5, <2>1, <2>2, <2>3, <2>4 DEF Apart, SameKey
<1>11. sessionTx' = [sessionTx EXCEPT ![p] = sessionTx'[p]]
  BY <1>5
<1>12. QED  BY <1>1, <1>5, <1>6, <1>7, <1>8, <1>9, <1>10, <1>11, CommitKeeps

LEMMA ReaperInsertKeeps ==
    ASSUME SessionInv, NEW p \in Reapers, ReaperInsert(p)
    PROVE  SessionInv'
<1> DEFINE old == sessionTx[p]
           f == SessionFact(old.session, old.sequence, "session_expire")
           next == Sweeping(old.todo)
<1>1. p \in SessionProcess /\ p \notin Logouts /\ p \notin Backfills
  BY SessionAssumption DEF SessionProcess
<1>2. old \in Transaction /\ ReaperInv(old) /\ old.at = "numbered"
  BY <1>1 DEF ReaperInsert, SessionInv, SessionTypeOK, TxInv
<1>3. /\ old.removed = {old.session} /\ old.session \in sessions /\ old.session \in Session
      /\ old.sequence # 0 /\ TakenBelow(old.session, old.sequence)
  BY <1>2 DEF ReaperInv, SessionInv, SessionTypeOK
<1>4. /\ f.session = old.session /\ f.sequence = old.sequence /\ f.source = "session_expire"
      /\ f \in Fact
  BY <1>2, <1>3 DEF SessionFact, Transaction, Fact, Sources, EndSources
<1>5. ~TakenByOpen(p, f) /\ ~TakenByCommitted(f)
  BY DEF ReaperInsert, MayInsert, NextFact
<1>6. /\ sessions' = sessions \ {f.session} /\ sessionFacts' = sessionFacts \cup {f}
      /\ sessionTx' = [sessionTx EXCEPT ![p] = next] /\ sessionTx'[p] = next
      /\ expired' = expired /\ sessionMark' = sessionMark
  BY <1>1, <1>3, <1>4 DEF ReaperInsert, NextFact, Move, SessionInv, SessionTypeOK
<1>7. old.todo \in SUBSET Session
  BY <1>2 DEF Transaction
<1>8. /\ next \in Transaction /\ next.staged = {} /\ next.removed = {}
      /\ next.at \in {"idle", "sweeping"}
      /\ next.at = "sweeping" => next.todo # {}
  <2> HIDE DEF old
  <2> QED  BY <1>7, SweepingIs
<1> HIDE DEF f, next
<1>9. SessionTypeOK'
  BY <1>4, <1>6, <1>8 DEF SessionInv, SessionTypeOK
<1>10. HistoryInv'
  BY <1>3, <1>4, <1>5, <1>6, <1>9, EndKeepsHistory DEF EndSources
<1>11. TxInv(p, sessionTx[p])'
  <2>1. /\ sessionTx'[p].staged = {} /\ sessionTx'[p].removed = {}
        /\ sessionTx'[p].at \in {"idle", "sweeping"}
        /\ sessionTx'[p].at = "sweeping" => sessionTx'[p].todo # {}
    BY <1>6, <1>8
  <2>2. ReaperInv(sessionTx[p])'
    BY <2>1 DEF ReaperInv
  <2>3. QED  BY <1>1, <2>1, <2>2 DEF TxInv
<1>12. \A q \in SessionProcess \ {p} :
           /\ \A h \in sessionFacts' \ sessionFacts, g \in sessionTx[q].staged : ~SameKey(g, h)
           /\ sessionTx[q].removed \subseteq sessions'
  <2> TAKE q \in SessionProcess \ {p}
  <2>1. old.removed \cap sessionTx[q].removed = {}
    BY <1>1 DEF SessionInv, Apart
  <2>2. \A g \in sessionTx[q].staged : ~SameKey(f, g)
    BY <1>5 DEF TakenByOpen, Holds
  <2>3. f.session \notin sessionTx[q].removed
    BY <1>3, <1>4, <2>1
  <2>4. sessionTx[q].removed \subseteq sessions
    BY RemovedAreThere
  <2>5. QED  BY <1>6, <2>2, <2>3, <2>4 DEF SameKey
<1>13. sessionTx' = [sessionTx EXCEPT ![p] = sessionTx'[p]]
  BY <1>6
<1>14. QED  BY <1>1, <1>6, <1>8, <1>9, <1>10, <1>11, <1>12, <1>13, CommitKeeps

LEMMA SeedCommitKeeps ==
    ASSUME SessionInv, NEW p \in Backfills, SeedCommit(p)
    PROVE  SessionInv'
<1> DEFINE old == sessionTx[p]
           new == old.staged
           tx == [old EXCEPT !.at = "marking", !.staged = {}]
<1>1. p \in SessionProcess /\ p \notin Logouts /\ p \notin Reapers
  BY SessionAssumption DEF SessionProcess
<1>2. /\ old \in Transaction /\ TxInv(p, old) /\ BackfillInv(old)
      /\ old.at = "seeding" /\ old.todo = {}
  BY <1>1 DEF SeedCommit, SessionInv, SessionTypeOK, TxInv
<1>3. /\ new \in SUBSET Fact
      /\ \A f \in new : f.sequence = 1 /\ f.source = "legacy_session"
  BY <1>2 DEF Transaction, BackfillInv
<1>4. /\ tx \in Transaction /\ tx.staged = {} /\ tx.removed = {}
      /\ tx.at = "marking" /\ tx.todo = {} /\ tx.last = old.last
  BY <1>2 DEF Transaction, Positions, BackfillInv
<1>5. /\ sessionFacts' = sessionFacts \cup new
      /\ sessionTx' = [sessionTx EXCEPT ![p] = tx] /\ sessionTx'[p] = tx
      /\ sessions' = sessions /\ expired' = expired /\ sessionMark' = sessionMark
  BY <1>1 DEF SeedCommit, Move, SessionInv, SessionTypeOK
<1> HIDE DEF tx
<1>6. SessionTypeOK'
  BY <1>3, <1>4, <1>5 DEF SessionInv, SessionTypeOK
<1>7. HistoryInv'
  <2>1. \A f \in new : TakenBelow(f.session, f.sequence)
    BY <1>3 DEF TakenBelow
  <2>2. /\ \A r \in Session : HasLast(r)'
        /\ \A g \in sessionFacts' : TakenBelow(g.session, g.sequence)'
    <3>1. \A f, g \in new : f.session = g.session => f.sequence = g.sequence
      BY <1>3
    <3> HIDE DEF new
    <3>2. QED  BY <1>3, <1>5, <2>1, <3>1, NoGap
  <2>3. \A f \in sessionFacts' : f \in sessionFacts \/ f.source = "legacy_session"
    BY <1>3, <1>5
  <2>4. \A r \in sessions' : ~HasEnded(r)'
    BY <1>5, <2>3 DEF HasEnded, FactsAbout, EndSources, SessionInv, HistoryInv, SessionHistoryOK
  <2>5. SessionHistoryOK'
    BY <1>6, <2>2, <2>4, AllTaken DEF SessionHistoryOK
  <2>6. NoExpiryAfterLogout'
    BY <2>3 DEF NoExpiryAfterLogout, SessionInv, HistoryInv
  <2>7. \A r \in sessions' : Known(r)' /\ (r <= sessionMark'.cursor => HasCreated(r)')
    BY <1>5, FactsStay DEF SessionInv, HistoryInv, CursorCoversSessions
  <2>8. QED  BY <2>2, <2>5, <2>6, <2>7 DEF HistoryInv, CursorCoversSessions
<1>8. TxInv(p, sessionTx[p])'
  <2>1. \A s \in sessions : s <= old.last => HasCreated(s)'
    <3> SUFFICES ASSUME NEW s \in sessions, s <= old.last
                 PROVE  HasCreated(s)'
      OBVIOUS
    <3>1. Covered(old, s)
      BY <1>2 DEF BackfillInv
    <3>2. CASE HasCreated(s)
      BY <1>5, <3>2, FactsStay
    <3>3. CASE \E f \in new : f.session = s
      <4>1. PICK f \in new : f.session = s
        BY <3>3
      <4>2. f \in FactsAbout(s)' /\ f.source \in CreatedSources
        BY <1>3, <1>5, <4>1 DEF FactsAbout, CreatedSources
      <4>3. QED  BY <4>2 DEF HasCreated
    <3>4. QED  BY <3>1, <3>2, <3>3 DEF Covered
  <2>2. QED  BY <1>1, <1>4, <1>5, <2>1 DEF TxInv, BackfillInv, Covered
<1>9. \A q \in SessionProcess \ {p} :
          /\ \A h \in sessionFacts' \ sessionFacts, g \in sessionTx[q].staged : ~SameKey(g, h)
          /\ sessionTx[q].removed \subseteq sessions'
  <2> TAKE q \in SessionProcess \ {p}
  <2>1. Apart(old, sessionTx[q])
    BY <1>1 DEF SessionInv
  <2>2. sessionTx[q].removed \subseteq sessions
    BY RemovedAreThere
  <2>3. QED  BY <1>5, <2>1, <2>2 DEF Apart, SameKey
<1>10. sessionTx' = [sessionTx EXCEPT ![p] = sessionTx'[p]]
  BY <1>5
<1>11. QED  BY <1>1, <1>4, <1>5, <1>6, <1>7, <1>8, <1>9, <1>10, CommitKeeps

LEMMA SeedMarkKeeps ==
    ASSUME SessionInv, NEW p \in Backfills, SeedMark(p)
    PROVE  SessionInv'
<1> DEFINE old == sessionTx[p]
<1>1. p \in SessionProcess /\ p \notin Logouts /\ p \notin Reapers
  BY SessionAssumption DEF SessionProcess
<1>2. old \in Transaction /\ BackfillInv(old) /\ old.at = "marking"
  BY <1>1 DEF SeedMark, SessionInv, SessionTypeOK, TxInv
<1>3. \A s \in sessions : s <= old.last => HasCreated(s)
  BY <1>2 DEF BackfillInv, Covered
<1>4. /\ sessionTx' = [sessionTx EXCEPT ![p] = IdleTx] /\ sessionTx'[p] = IdleTx
      /\ UNCHANGED <<sessions, expired, sessionFacts>>
      /\ sessionMark' \in [cursor : Nat, phase : {"none", "backfilling", "completed"}]
      /\ sessionMark'.cursor = old.last
  BY <1>1, <1>2 DEF SeedMark, Move, SessionInv, SessionTypeOK, Transaction
<1>5. /\ IdleTx \in Transaction /\ IdleTx.staged = {} /\ IdleTx.removed = {}
      /\ IdleTx.at = "idle" /\ IdleTx.todo = {}
  BY DEF IdleTx, Transaction, Positions
<1>6. SessionTypeOK'
  BY <1>4, <1>5 DEF SessionInv, SessionTypeOK
<1>7. HistoryInv'
  <2>1. HistoryInv
    BY DEF SessionInv
  <2>2. QED
    BY <1>3, <1>4, <2>1 DEF HistoryInv, Known, HasLast, TakenBelow, FactsAbout, SessionHistoryOK,
                            HasEnded, NoExpiryAfterLogout, CursorCoversSessions, HasCreated
<1>8. TxInv(p, sessionTx[p])'
  BY <1>1, <1>4, <1>5 DEF TxInv, BackfillInv
<1>9. \A q \in SessionProcess \ {p} : sessionTx[q].removed \subseteq sessions'
  BY <1>4, RemovedAreThere
<1>10. QED  BY <1>1, <1>4, <1>5, <1>6, <1>7, <1>8, <1>9, CommitKeeps

-----------------------------------------------------------------------------
(* The inductive invariant: rows, facts and open transactions agree.       *)
THEOREM SessionInvariant == SessionSpec => []SessionInv
<1>1. SessionInit => SessionInv
  <2> SUFFICES ASSUME SessionInit
               PROVE  SessionInv
    OBVIOUS
  <2>1. /\ IdleTx \in Transaction /\ IdleTx.staged = {} /\ IdleTx.removed = {}
        /\ IdleTx.at = "idle" /\ IdleTx.todo = {}
    BY DEF IdleTx, Transaction, Positions
  <2>2. SessionTypeOK
    BY <2>1, SessionAssumption DEF SessionInit, SessionTypeOK
  <2>3. HistoryInv
    <3>1. \A s \in sessions : Known(s) /\ s \in Nat /\ s # 0
      BY SessionAssumption DEF SessionInit, Known
    <3>2. CursorCoversSessions
      BY <3>1 DEF SessionInit, CursorCoversSessions
    <3>3. QED
      BY <3>1, <3>2 DEF SessionInit, HistoryInv, HasLast, FactsAbout, SessionHistoryOK,
                        HasEnded, NoExpiryAfterLogout
  <2>4. \A p \in SessionProcess : TxInv(p, sessionTx[p])
    BY <2>1 DEF SessionInit, TxInv, LogoutInv, ReaperInv, BackfillInv
  <2>5. \A p, q \in SessionProcess : p # q => Apart(sessionTx[p], sessionTx[q])
    BY <2>1 DEF SessionInit, Apart
  <2>6. QED  BY <2>2, <2>3, <2>4, <2>5 DEF SessionInv
<1>2. SessionInv /\ [SessionNext]_sessionVars => SessionInv'
  <2> SUFFICES ASSUME SessionInv, [SessionNext]_sessionVars
               PROVE  SessionInv'
    OBVIOUS
  <2>1. CASE \E s \in Session : CreateSession(s) \/ Expire(s)
    <3>1. ASSUME NEW s \in Session, Expire(s)  PROVE SessionInv'
      BY <3>1, ExpireKeeps DEF Expire, SessionInv, SessionTypeOK
    <3>2. QED  BY <2>1, <3>1, CreateSessionKeeps
  <2>2. CASE \E p \in Logouts, s \in Session : LogoutRead(p, s)
    BY <2>2, LogoutReadKeeps
  <2>3. CASE \E p \in Logouts : LogoutStep(p)
    <3>1. PICK p \in Logouts : LogoutStep(p)
      BY <2>3
    <3>2. CASE LogoutFails(p)
      BY <3>2, AbortKeeps DEF LogoutFails, InsertFails, SessionProcess
    <3>3. QED
      BY <3>1, <3>2, NumberKeeps, LogoutInsertKeeps, LogoutDeleteKeeps DEF LogoutStep
  <2>4. CASE \E p \in Reapers : ReaperStep(p)
    <3>1. PICK p \in Reapers : ReaperStep(p)
      BY <2>4
    <3>2. CASE ReaperFails(p)
      BY <3>2, AbortKeeps DEF ReaperFails, InsertFails, SessionProcess
    <3>3. QED
      BY <3>1, <3>2, NumberKeeps, ReaperListKeeps, ReaperDeleteKeeps, ReaperGoneKeeps,
         ReaperInsertKeeps DEF ReaperStep
  <2>5. CASE \E p \in Backfills : SeedList(p) \/ SeedStep(p)
    <3>1. PICK p \in Backfills : SeedList(p) \/ SeedStep(p)
      BY <2>5
    <3>2. CASE SeedFails(p)
      BY <3>2, AbortKeeps DEF SeedFails, InsertFails, SessionProcess
    <3>3. QED
      BY <3>1, <3>2, SeedListKeeps, SeedSkipKeeps, SeedLoadKeeps, SeedInsertKeeps,
         SeedCommitKeeps, SeedMarkKeeps DEF SeedStep
  <2>6. CASE \E p \in SessionProcess : BreakSessionDeadlock(p) \/ SessionCrash(p)
    BY <2>6, AbortKeeps DEF BreakSessionDeadlock, SessionCrash
  <2>7. CASE UNCHANGED sessionVars
    BY <2>7, ExpireKeeps DEF sessionVars, SessionInv, SessionTypeOK
  <2>8. QED  BY <2>1, <2>2, <2>3, <2>4, <2>5, <2>6, <2>7 DEF SessionNext
<1>3. QED  BY <1>1, <1>2, PTL DEF SessionSpec

(* Whatever logouts, reapers and backfills overlap or crash, a session     *)
(* with a row has no fact that says it ended, and the facts about a        *)
(* session are numbered without a gap.                                     *)
THEOREM HistoryAgrees == SessionSpec => []SessionHistoryOK
<1>1. SessionInv => SessionHistoryOK
  BY DEF SessionInv, HistoryInv
<1>2. QED  BY <1>1, SessionInvariant, PTL

(* A reaper whose DELETE found the row records its expiry before any       *)
(* logout of the session can be recorded.                                  *)
THEOREM LogoutIsNotExpired == SessionSpec => []NoExpiryAfterLogout
<1>1. SessionInv => NoExpiryAfterLogout
  BY DEF SessionInv, HistoryInv
<1>2. QED  BY <1>1, SessionInvariant, PTL

(* Every session up to the cursor of the backfill has its first fact,      *)
(* whatever was created, deleted or backfilled beside the batch.           *)
THEOREM CursorIsCovered == SessionSpec => []CursorCoversSessions
<1>1. SessionInv => CursorCoversSessions
  BY DEF SessionInv, HistoryInv
<1>2. QED  BY <1>1, SessionInvariant, PTL

-----------------------------------------------------------------------------
(* Tokens.                                                                 *)

LEMMA MinTodo ==
    ASSUME NEW S \in SUBSET Token, S # {}
    PROVE  Min(S) \in S
<1>1. S \subseteq Nat  BY TokenAssumption
<1>2. QED  BY <1>1, MinIs

(* Facts added to facts leave a last one if both had one.                  *)
LEMMA LastOfBoth ==
    ASSUME NEW S \in SUBSET TokenFactSet, NEW T \in SUBSET TokenFactSet,
           LastOfEach(S), LastOfEach(T)
    PROVE  LastOfEach(S \cup T)
<1> SUFFICES ASSUME NEW t \in Token, {f \in S \cup T : f.token = t} # {}
             PROVE  \E f \in {e \in S \cup T : e.token = t} :
                       \A g \in {e \in S \cup T : e.token = t} : g.sequence <= f.sequence
  BY DEF LastOfEach, LastOf
<1> DEFINE A == {f \in S : f.token = t}
           B == {f \in T : f.token = t}
<1>1. {e \in S \cup T : e.token = t} = A \cup B
  OBVIOUS
<1>2. A # {} => \E f \in A : \A g \in A : g.sequence <= f.sequence
  BY DEF LastOfEach, LastOf
<1>3. B # {} => \E f \in B : \A g \in B : g.sequence <= f.sequence
  BY DEF LastOfEach, LastOf
<1>4. \A f \in A \cup B : f.sequence \in Nat
  BY DEF TokenFactSet
<1> HIDE DEF A, B
<1>5. CASE A = {}  BY <1>1, <1>3, <1>5
<1>6. CASE B = {}  BY <1>1, <1>2, <1>6
<1>7. CASE A # {} /\ B # {}
  <2>1. PICK a \in A : \A g \in A : g.sequence <= a.sequence  BY <1>2, <1>7
  <2>2. PICK b \in B : \A g \in B : g.sequence <= b.sequence  BY <1>3, <1>7
  <2>3. CASE a.sequence <= b.sequence
    <3>1. \A g \in A \cup B : g.sequence <= b.sequence  BY <1>4, <2>1, <2>2, <2>3
    <3>2. QED  BY <1>1, <3>1
  <2>4. CASE ~(a.sequence <= b.sequence)
    <3>1. \A g \in A \cup B : g.sequence <= a.sequence  BY <1>4, <2>1, <2>2, <2>4
    <3>2. QED  BY <1>1, <3>1
  <2>5. QED  BY <2>3, <2>4
<1>8. QED  BY <1>5, <1>6, <1>7

LEMMA LastOfOne ==
    ASSUME NEW f \in TokenFactSet
    PROVE  LastOfEach({f})
BY f.sequence \in Nat, f.sequence <= f.sequence DEF LastOfEach, LastOf, TokenFactSet

(* The next sequence is a number.                                          *)
LEMMA NextTokenSequenceType ==
    ASSUME TokenInv, NEW p \in TokenProcess, NEW t \in Token
    PROVE  NextTokenSequence(p, t) \in Nat \ {0}
<1> DEFINE S == tokenFacts \cup tokenTx[p].staged
           T == TokenFactsSeen(p, t)
           N == {f.sequence : f \in T} \cup {0}
<1>1. tokenTx[p].staged \in SUBSET TokenFactSet /\ LastOfEach(tokenTx[p].staged)
  <2>1. CASE p \in Revokers
    BY <2>1 DEF TokenInv, TokenTypeOK, TokenTransaction, TokenTxInv, RevokerInv, LastOfEach, LastOf
  <2>2. CASE p \in TokenBackfills
    BY <2>2 DEF TokenInv, TokenTypeOK, TokenTransaction, TokenTxInv, TokenBackfillInv
  <2>3. QED  BY <2>1, <2>2 DEF TokenProcess
<1>2. tokenFacts \in SUBSET TokenFactSet /\ LastOfEach(tokenFacts)
  BY DEF TokenInv, TokenTypeOK, TokenFactsInv
<1>3. LastOfEach(S)  BY <1>1, <1>2, LastOfBoth
<1>4. T = {f \in S : f.token = t}  BY DEF TokenFactsSeen
<1>5. T # {} => \E f \in T : \A g \in T : g.sequence <= f.sequence
  BY <1>3, <1>4 DEF LastOfEach, LastOf
<1>6. \A f \in T : f.sequence \in Nat
  BY <1>1, <1>2, <1>4 DEF TokenFactSet
<1> HIDE DEF T
<1>7. N \in SUBSET Nat  BY <1>6
<1>8. \E m \in N : \A n \in N : n <= m
  BY <1>5, <1>6
<1>9. Max(N) \in N
  BY <1>7, <1>8 DEF Max
<1>10. QED
  BY <1>7, <1>9 DEF NextTokenSequence, T

LEMMA TokenInitOK == TokenInit => TokenInv
<1> SUFFICES ASSUME TokenInit PROVE TokenInv  OBVIOUS
<1>1. NoTx \in TokenTransaction
  BY DEF NoTx, TokenTransaction
<1>2. TokenTypeOK
  BY <1>1 DEF TokenInit, TokenTypeOK
<1>3. TokenFactsInv
  BY TokenAssumption DEF TokenInit, TokenFactsInv, LastOfEach, LastOf
<1>4. \A p \in TokenProcess : TokenTxInv(p, tokenTx[p])
  BY DEF TokenInit, TokenTxInv, RevokerInv, TokenBackfillInv, NoTx, LastOfEach, LastOf
<1>5. \A p, q \in TokenProcess : p # q => TokensApart(p, tokenTx[p], q, tokenTx[q])
  BY DEF TokenInit, TokensApart, NoTx
<1>6. QED  BY <1>2, <1>3, <1>4, <1>5 DEF TokenInv

(* A token is created: its first facts and its row appear together.        *)
LEMMA CreatedKeeps ==
    ASSUME TokenInv, NEW t \in Token, Created(t), UNCHANGED <<tokenMark, tokenTx>>
    PROVE  TokenInv'
<1> DEFINE c == TokenFact(t, 1, "created", "api_token_create")
<1>1. /\ c \in TokenFactSet /\ c.token = t /\ c.sequence = 1 /\ c.kind = "created"
      /\ c.source = "api_token_create"
  BY DEF TokenFact, TokenFactSet, TokenKinds
<1>2. /\ tokens[t] = "none" /\ tokens' = [tokens EXCEPT ![t] = "active"]
      /\ tokenFacts' = tokenFacts \cup {c}
  BY DEF Created
<1> HIDE DEF c
<1>3. TokenTypeOK'
  BY <1>1, <1>2 DEF TokenInv, TokenTypeOK
<1>4. \A r \in Token : /\ r # t => tokens'[r] = tokens[r]
                       /\ tokens[r] # "none" => tokens'[r] = tokens[r]
  BY <1>2 DEF TokenInv, TokenTypeOK
<1>5. tokens'[t] = "active"
  BY <1>2 DEF TokenInv, TokenTypeOK
<1>6. \A r : RevokedAtRuntime(r)' <=> RevokedAtRuntime(r)
  BY <1>1, <1>2 DEF RevokedAtRuntime
<1>7. ASSUME NEW f \in TokenFactSet, TokenFactOK(f)
      PROVE  TokenFactOK(f)'
  BY <1>4, <1>6, <1>7, f.token \in Token DEF TokenFactOK, TokenFactSet
<1>8. TokenFactOK(c)'
  BY <1>1, <1>2, <1>5 DEF TokenFactOK, TokenInv, TokenFactsInv
<1>9. TokenFactsInv'
  <2>1. \A f \in tokenFacts : f \in TokenFactSet /\ TokenFactOK(f)' /\ f.token # t
    BY <1>2, <1>7 DEF TokenInv, TokenTypeOK, TokenFactsInv, TokenFactOK
  <2>2. \A f \in tokenFacts' : TokenFactOK(f)'
    BY <1>2, <1>8, <2>1
  <2>3. \A f, g \in tokenFacts' : SameKind(f, g) /\ f.source = g.source => f = g
    BY <1>1, <1>2, <2>1 DEF TokenInv, TokenFactsInv, SameKind
  <2>4. \A r \in LegacyToken : tokens'[r] # "none"
    BY <1>4, TokenAssumption DEF TokenInv, TokenFactsInv
  <2>5. ASSUME NEW r \in Token \ LegacyToken, tokens'[r] # "none"
        PROVE  \E f \in tokenFacts' : f.token = r /\ f.kind = "created"
    <3>1. CASE r = t  BY <1>1, <1>2, <3>1
    <3>2. CASE r # t  BY <1>2, <1>4, <2>5, <3>2 DEF TokenInv, TokenFactsInv
    <3>3. QED  BY <3>1, <3>2
  <2>6. LastOfEach(tokenFacts')
    BY <1>1, <1>2, LastOfOne, LastOfBoth DEF TokenInv, TokenTypeOK, TokenFactsInv
  <2>7. QED  BY <2>2, <2>3, <2>4, <2>5, <2>6 DEF TokenFactsInv, LastOfEach, LastOf
<1>10. ASSUME NEW p \in TokenProcess
       PROVE  TokenTxInv(p, tokenTx[p])'
  <2> DEFINE tx == tokenTx[p]
  <2>1. tx \in TokenTransaction /\ TokenTxInv(p, tx) /\ tx' = tx
    BY DEF TokenInv, TokenTypeOK
  <2> HIDE DEF tx
  <2>2. ASSUME p \in Revokers PROVE RevokerInv(tx)'
    BY <1>4, <2>1, <2>2 DEF TokenTxInv, RevokerInv
  <2>3. ASSUME p \in TokenBackfills PROVE TokenBackfillInv(tx)'
    <3>1. TokenBackfillInv(tx)  BY <2>1, <2>3 DEF TokenTxInv
    <3>2. /\ \A r \in tx.todo : tokens'[r] # "none"
          /\ \A r \in tx.ended : tokens'[r] = "revoked"
          /\ tx.at = "seeding" => tx.token \in Token /\ tokens'[tx.token] # "none"
      BY <1>4, <2>1, <3>1 DEF TokenBackfillInv, TokenTransaction
    <3>3. "revoked" \in tx.need => tokens'[tx.token] = "revoked" /\ ~RevokedAtRuntime(tx.token)'
      <4>1. tx.token # t  \/ "revoked" \notin tx.need
        BY <1>2, <3>1 DEF TokenBackfillInv
      <4>2. QED  BY <1>4, <1>6, <2>1, <3>1, <4>1 DEF TokenBackfillInv, RevokedAtRuntime
    <3>4. \A f \in tx.staged : TokenFactOK(f)' /\ f.source = "legacy_api_token"
      BY <1>7, <2>1, <3>1 DEF TokenBackfillInv, TokenTransaction
    <3>5. \A f \in tx.staged, g \in tokenFacts' : ~(SameKind(f, g) /\ g.source = f.source)
      BY <1>1, <1>2, <3>1 DEF TokenBackfillInv
    <3> QED
      BY <2>1, <3>1, <3>2, <3>3, <3>4, <3>5 DEF TokenBackfillInv
  <2>4. QED  BY <2>1, <2>2, <2>3 DEF TokenTxInv, tx
<1>11. \A p, q \in TokenProcess : p # q => TokensApart(p, tokenTx[p], q, tokenTx[q])'
  BY DEF TokenInv, TokensApart
<1>12. QED  BY <1>3, <1>9, <1>10, <1>11 DEF TokenInv

(* A step of p on its own transaction keeps the invariant if the           *)
(* transaction stays sound and holds nothing that another holds.           *)
LEMMA TokenStepKeeps ==
    ASSUME TokenInv, NEW p \in TokenProcess, NEW tx \in TokenTransaction,
           TokenTxInv(p, tx), TokenStep(p, tx),
           \A q \in TokenProcess \ {p} :
              TokensApart(p, tx, q, tokenTx[q]) /\ TokensApart(q, tokenTx[q], p, tx)
    PROVE  TokenInv'
<1>1. /\ tokens' = tokens /\ tokenFacts' = tokenFacts /\ tokenMark' = tokenMark
      /\ tokenTx' = [tokenTx EXCEPT ![p] = tx]
  BY DEF TokenStep
<1>2. /\ tokenTx'[p] = tx
      /\ \A q \in TokenProcess \ {p} : tokenTx'[q] = tokenTx[q]
  BY <1>1 DEF TokenInv, TokenTypeOK
<1>3. TokenTypeOK'  BY <1>1 DEF TokenInv, TokenTypeOK
<1>4. TokenFactsInv'
  BY <1>1 DEF TokenInv, TokenFactsInv, TokenFactOK, RevokedAtRuntime
<1>5. \A q \in TokenProcess : TokenTxInv(q, tokenTx[q])'
  BY <1>1, <1>2
     DEF TokenInv, TokenTxInv, RevokerInv, TokenBackfillInv, TokenFactOK, RevokedAtRuntime
<1>6. \A q, r \in TokenProcess : q # r => TokensApart(q, tokenTx[q], r, tokenTx[r])'
  BY <1>2 DEF TokenInv, TokensApart
<1>7. QED  BY <1>3, <1>4, <1>5, <1>6 DEF TokenInv

(* Giving up, or ending: an idle transaction holds nothing.                *)
LEMMA TokenIdleKeeps ==
    ASSUME TokenInv, NEW p \in TokenProcess, TokenStep(p, NoTx)
    PROVE  TokenInv'
<1>1. NoTx \in TokenTransaction  BY DEF NoTx, TokenTransaction
<1>2. TokenTxInv(p, NoTx)
  BY DEF TokenTxInv, RevokerInv, TokenBackfillInv, NoTx, LastOfEach, LastOf
<1>3. ASSUME NEW q \in TokenProcess
      PROVE  TokensApart(p, NoTx, q, tokenTx[q]) /\ TokensApart(q, tokenTx[q], p, NoTx)
  BY TokenAssumption DEF TokensApart, NoTx
<1>4. QED  BY <1>1, <1>2, <1>3, TokenStepKeeps

(* What an own step of p that stages nothing must show.                    *)
LEMMA TokenQuietStep ==
    ASSUME TokenInv, NEW p \in TokenBackfills, NEW tx \in TokenTransaction,
           tx.staged = tokenTx[p].staged, TokenBackfillInv(tx), TokenStep(p, tx)
    PROVE  TokenInv'
<1>1. p \in TokenProcess /\ p \notin Revokers
  BY TokenAssumption DEF TokenProcess
<1>2. TokenTxInv(p, tx)  BY <1>1 DEF TokenTxInv
<1>3. ASSUME NEW q \in TokenProcess \ {p}
      PROVE  TokensApart(p, tx, q, tokenTx[q]) /\ TokensApart(q, tokenTx[q], p, tx)
  BY <1>1 DEF TokenInv, TokensApart
<1>4. QED  BY <1>1, <1>2, <1>3, TokenStepKeeps

LEMMA RevokeUpdateKeeps ==
    ASSUME TokenInv, NEW p \in Revokers, NEW t \in Token, RevokeUpdate(p, t)
    PROVE  TokenInv'
<1> DEFINE tx == [NoTx EXCEPT !.at = "updated", !.token = t]
<1>1. tx \in TokenTransaction /\ tx.at = "updated" /\ tx.token = t /\ tx.staged = {}
  BY DEF NoTx, TokenTransaction
<1>2. p \in TokenProcess /\ p \notin TokenBackfills  BY TokenAssumption DEF TokenProcess
<1>3. TokenStep(p, tx) /\ tokens[t] = "active" /\ \A q \in Revokers : tokenTx[q].token # t
  BY DEF RevokeUpdate
<1> HIDE DEF tx
<1>4. TokenTxInv(p, tx)  BY <1>1, <1>2, <1>3 DEF TokenTxInv, RevokerInv
<1>5. ASSUME NEW q \in TokenProcess \ {p}
      PROVE  TokensApart(p, tx, q, tokenTx[q]) /\ TokensApart(q, tokenTx[q], p, tx)
  BY <1>1, <1>3 DEF TokensApart
<1>6. QED  BY <1>1, <1>2, <1>3, <1>4, <1>5, TokenStepKeeps

LEMMA RevokeNumberKeeps ==
    ASSUME TokenInv, NEW p \in Revokers, RevokeNumber(p)
    PROVE  TokenInv'
<1> DEFINE old == tokenTx[p]
           n == NextTokenSequence(p, old.token)
           tx == [old EXCEPT !.at = "numbered", !.sequence = n]
<1>1. p \in TokenProcess /\ p \notin TokenBackfills  BY TokenAssumption DEF TokenProcess
<1>2. old \in TokenTransaction /\ RevokerInv(old) /\ old.at = "updated" /\ TokenStep(p, tx)
  BY <1>1 DEF TokenInv, TokenTypeOK, TokenTxInv, RevokeNumber
<1>3. old.token \in Token  BY <1>2 DEF RevokerInv
<1>4. n \in Nat \ {0}  BY <1>1, <1>3, NextTokenSequenceType
<1> HIDE DEF n
<1>5. /\ tx \in TokenTransaction /\ tx.at = "numbered" /\ tx.token = old.token
      /\ tx.staged = old.staged /\ tx.sequence # 0
  BY <1>2, <1>4 DEF TokenTransaction
<1>6. TokenTxInv(p, tx)
  BY <1>1, <1>2, <1>5 DEF TokenTxInv, RevokerInv
<1>7. ASSUME NEW q \in TokenProcess \ {p}
      PROVE  TokensApart(p, tx, q, tokenTx[q]) /\ TokensApart(q, tokenTx[q], p, tx)
  BY <1>1, <1>5 DEF TokenInv, TokensApart
<1> HIDE DEF tx
<1>8. QED  BY <1>1, <1>2, <1>5, <1>6, <1>7, TokenStepKeeps

LEMMA TokenListKeeps ==
    ASSUME TokenInv, NEW p \in TokenBackfills, TokenList(p)
    PROVE  TokenInv'
<1> DEFINE left == {t \in Token : tokens[t] # "none" /\ t > tokenMark}
           batch == {t \in left : Cardinality({r \in left : r < t}) < TokenBatch}
           ended == {t \in batch : tokens[t] = "revoked"}
           tx == [NoTx EXCEPT !.at = "loading", !.todo = batch, !.last = tokenMark,
                              !.ended = ended]
<1>1. TokenStep(p, tx) /\ tokenTx[p].at = "idle"
  BY DEF TokenList
<1>2. batch \subseteq Token /\ ended \subseteq batch /\ tokenMark \in Nat
  BY DEF TokenInv, TokenTypeOK
<1>3. \A t \in batch : tokens[t] # "none"
  OBVIOUS
<1>4. \A t \in ended : tokens[t] = "revoked"
  OBVIOUS
<1> HIDE DEF batch, ended
<1>5. tx \in TokenTransaction
  BY <1>2 DEF NoTx, TokenTransaction
<1>6. TokenBackfillInv(tx)
  BY <1>3, <1>4 DEF TokenBackfillInv, NoTx, LastOfEach, LastOf
<1>7. p \in TokenProcess /\ p \notin Revokers /\ tx.staged = {}
  BY TokenAssumption DEF TokenProcess, NoTx
<1>8. TokenTxInv(p, tx)  BY <1>6, <1>7 DEF TokenTxInv
<1>9. ASSUME NEW q \in TokenProcess \ {p}
      PROVE  TokensApart(p, tx, q, tokenTx[q]) /\ TokensApart(q, tokenTx[q], p, tx)
  BY <1>7 DEF TokensApart
<1> HIDE DEF tx
<1>10. QED  BY <1>1, <1>5, <1>7, <1>8, <1>9, TokenStepKeeps

LEMMA TokenLoadKeeps ==
    ASSUME TokenInv, NEW p \in TokenBackfills, TokenLoad(p)
    PROVE  TokenInv'
<1> DEFINE old == tokenTx[p]
           t == Min(old.todo)
           need == Unseeded(p, t)
           tx == [old EXCEPT !.at = "seeding", !.token = t, !.need = need]
<1>1. p \in TokenProcess /\ p \notin Revokers  BY TokenAssumption DEF TokenProcess
<1>2. /\ old \in TokenTransaction /\ TokenBackfillInv(old)
      /\ old.at = "loading" /\ old.todo # {} /\ TokenStep(p, tx)
  BY <1>1 DEF TokenInv, TokenTypeOK, TokenTxInv, TokenLoad
<1>3. t \in old.todo /\ t \in Token /\ tokens[t] # "none"
  <2>1. old.todo \in SUBSET Token  BY <1>2 DEF TokenTransaction
  <2>2. t \in old.todo  BY <1>2, <2>1, MinTodo
  <2>3. QED  BY <1>2, <2>1, <2>2 DEF TokenBackfillInv
<1>4. need \subseteq TokenKinds
  BY DEF Unseeded, TokenKinds
<1>5. "created" \in need => t \in LegacyToken
  <2> SUFFICES ASSUME t \notin LegacyToken PROVE "created" \notin need  OBVIOUS
  <2>1. \E f \in tokenFacts : f.token = t /\ f.kind = "created"
    BY <1>3 DEF TokenInv, TokenFactsInv
  <2>2. "created" \in KindsSeen(p, t)
    BY <2>1 DEF KindsSeen, TokenFactsSeen
  <2>3. QED  BY <2>2 DEF Unseeded
<1>6. "revoked" \in need => tokens[t] = "revoked" /\ ~RevokedAtRuntime(t)
  <2> SUFFICES ASSUME "revoked" \in need
               PROVE  tokens[t] = "revoked" /\ ~RevokedAtRuntime(t)
    OBVIOUS
  <2>1. t \in old.ended /\ "revoked" \notin KindsSeen(p, t)
    BY DEF Unseeded
  <2>2. ~RevokedAtRuntime(t)
    BY <2>1 DEF KindsSeen, TokenFactsSeen, RevokedAtRuntime
  <2>3. QED  BY <1>2, <2>1, <2>2 DEF TokenBackfillInv
<1>7. old.sequence = 0  BY <1>2 DEF TokenBackfillInv
<1> HIDE DEF t, need
<1>8. /\ tx \in TokenTransaction /\ tx.at = "seeding" /\ tx.token = t /\ tx.need = need
      /\ tx.sequence = 0 /\ tx.staged = old.staged /\ tx.todo = old.todo /\ tx.ended = old.ended
  BY <1>2, <1>3, <1>4, <1>7 DEF TokenTransaction
<1> HIDE DEF tx
<1>9. TokenBackfillInv(tx)
  BY <1>2, <1>3, <1>5, <1>6, <1>8 DEF TokenBackfillInv
<1>10. QED  BY <1>2, <1>8, <1>9, TokenQuietStep

LEMMA SeedNumberKeeps ==
    ASSUME TokenInv, NEW p \in TokenBackfills, SeedNumber(p)
    PROVE  TokenInv'
<1> DEFINE old == tokenTx[p]
           n == IF "created" \in old.need THEN 1 ELSE NextTokenSequence(p, old.token)
           tx == [old EXCEPT !.sequence = n]
<1>1. p \in TokenProcess /\ p \notin Revokers  BY TokenAssumption DEF TokenProcess
<1>2. /\ old \in TokenTransaction /\ TokenBackfillInv(old)
      /\ old.at = "seeding" /\ old.need # {} /\ TokenStep(p, tx)
  BY <1>1 DEF TokenInv, TokenTypeOK, TokenTxInv, SeedNumber
<1>3. n \in Nat
  <2>1. old.token \in Token  BY <1>2 DEF TokenBackfillInv
  <2>2. NextTokenSequence(p, old.token) \in Nat  BY <1>1, <2>1, NextTokenSequenceType
  <2>3. QED  BY <2>2
<1> HIDE DEF n
<1>4. /\ tx \in TokenTransaction /\ tx.at = old.at /\ tx.token = old.token /\ tx.need = old.need
      /\ tx.sequence = n /\ tx.staged = old.staged /\ tx.todo = old.todo /\ tx.ended = old.ended
  BY <1>2, <1>3 DEF TokenTransaction
<1> HIDE DEF tx
<1>5. TokenBackfillInv(tx)
  BY <1>2, <1>4 DEF TokenBackfillInv
<1>6. QED  BY <1>2, <1>4, <1>5, TokenQuietStep

LEMMA TokenSeededKeeps ==
    ASSUME TokenInv, NEW p \in TokenBackfills, TokenSeeded(p)
    PROVE  TokenInv'
<1> DEFINE old == tokenTx[p]
           tx == [old EXCEPT !.at = "loading", !.last = old.token, !.todo = @ \ {old.token}]
<1>1. p \in TokenProcess /\ p \notin Revokers  BY TokenAssumption DEF TokenProcess
<1>2. /\ old \in TokenTransaction /\ TokenBackfillInv(old)
      /\ old.at = "seeding" /\ old.need = {} /\ TokenStep(p, tx)
  BY <1>1 DEF TokenInv, TokenTypeOK, TokenTxInv, TokenSeeded
<1>3. old.token \in Nat
  BY <1>2, TokenAssumption DEF TokenBackfillInv
<1>4. /\ tx \in TokenTransaction /\ tx.at = "loading" /\ tx.need = {} /\ tx.token = old.token
      /\ tx.sequence = old.sequence /\ tx.staged = old.staged
      /\ tx.todo \subseteq old.todo /\ tx.ended = old.ended
  BY <1>2, <1>3 DEF TokenTransaction
<1> HIDE DEF tx
<1>5. TokenBackfillInv(tx)
  BY <1>2, <1>4 DEF TokenBackfillInv
<1>6. QED  BY <1>2, <1>4, <1>5, TokenQuietStep

LEMMA TokenSeedKeeps ==
    ASSUME TokenInv, NEW p \in TokenBackfills, TokenSeed(p)
    PROVE  TokenInv'
<1> PICK fact : fact = LegacyFact(p)  OBVIOUS
<1> DEFINE old == tokenTx[p]
           there == LegacyFactThere(p)
           tx == [old EXCEPT !.sequence = 0, !.need = @ \ {fact.kind},
                             !.staged = IF there THEN @ ELSE @ \cup {fact}]
<1>1. p \in TokenProcess /\ p \notin Revokers  BY TokenAssumption DEF TokenProcess
<1>2. /\ old \in TokenTransaction /\ TokenBackfillInv(old)
      /\ InsertReady(p) /\ TokenStep(p, tx) /\ (there \/ ~TokenKeyCommitted(fact))
  BY <1>1 DEF TokenInv, TokenTypeOK, TokenTxInv, TokenSeed
<1>3. old.at = "seeding" /\ old.sequence # 0 /\ ~TokenKeyOpen(p, fact)
  BY <1>2 DEF InsertReady
<1>4. /\ fact \in TokenFactSet /\ fact.token = old.token /\ fact.kind \in old.need
      /\ fact.source = "legacy_api_token"
  BY <1>2, <1>3
     DEF TokenBackfillInv, LegacyFact, TokenFact, TokenFactSet, TokenKinds, TokenTransaction
<1>5. TokenFactOK(fact)
  BY <1>2, <1>3, <1>4 DEF TokenBackfillInv, TokenFactOK, TokenFactSet, TokenKinds
<1>6. ~there => /\ \A f \in old.staged : ~SameKind(f, fact)
                /\ \A g \in tokenFacts : ~(SameKind(fact, g) /\ g.source = fact.source)
  <2>1. ~there => \A f \in tokenFacts \cup old.staged :
                     ~(f.token = old.token /\ f.kind = fact.kind /\ f.source = "legacy_api_token")
    BY DEF LegacyFactThere, TokenFactsSeen
  <2>2. QED  BY <1>2, <1>4, <2>1 DEF SameKind, TokenBackfillInv
<1>7. \A q \in TokenProcess \ {p} : \A g \in tokenTx[q].staged : ~SameKind(fact, g)
  <2> SUFFICES ASSUME NEW q \in TokenProcess \ {p}, NEW g \in tokenTx[q].staged
               PROVE  ~SameKind(fact, g)
    OBVIOUS
  <2>1. g.source = "legacy_api_token"
    <3>1. q \in Revokers => tokenTx[q].staged = {}
      BY DEF TokenInv, TokenTxInv, RevokerInv
    <3>2. QED  BY <3>1 DEF TokenInv, TokenTxInv, TokenBackfillInv, TokenProcess
  <2>2. QED  BY <1>3, <1>4, <2>1 DEF TokenKeyOpen, SameTokenKey, SameKind
<1>8. LastOfEach(old.staged \cup {fact})
  BY <1>2, <1>4, LastOfOne, LastOfBoth DEF TokenBackfillInv, TokenTransaction
<1> HIDE DEF there
<1>9. /\ tx \in TokenTransaction /\ tx.at = old.at /\ tx.token = old.token
      /\ tx.need \subseteq old.need /\ tx.sequence = 0 /\ tx.todo = old.todo /\ tx.ended = old.ended
      /\ tx.staged = IF there THEN old.staged ELSE old.staged \cup {fact}
  BY <1>2, <1>4 DEF TokenTransaction
<1> HIDE DEF tx
<1>10. TokenBackfillInv(tx)
  <2>1. LastOfEach(tx.staged)
    BY <1>2, <1>8, <1>9 DEF TokenBackfillInv
  <2>2. \A f \in tx.staged : TokenFactOK(f) /\ f.source = "legacy_api_token"
    BY <1>2, <1>4, <1>5, <1>9 DEF TokenBackfillInv
  <2>3. \A f, g \in tx.staged : SameKind(f, g) => f = g
    BY <1>2, <1>6, <1>9 DEF TokenBackfillInv, SameKind
  <2>4. \A f \in tx.staged, g \in tokenFacts : ~(SameKind(f, g) /\ g.source = f.source)
    BY <1>2, <1>6, <1>9 DEF TokenBackfillInv
  <2>5. QED  BY <1>2, <1>3, <1>9, <2>1, <2>2, <2>3, <2>4 DEF TokenBackfillInv
<1>11. TokenTxInv(p, tx)  BY <1>1, <1>10 DEF TokenTxInv
<1>12. ASSUME NEW q \in TokenProcess \ {p}
       PROVE  TokensApart(p, tx, q, tokenTx[q]) /\ TokensApart(q, tokenTx[q], p, tx)
  BY <1>1, <1>7, <1>9 DEF TokenInv, TokensApart, SameKind
<1>13. QED  BY <1>1, <1>2, <1>9, <1>11, <1>12, TokenStepKeeps

(* A revocation commits: its token was active, so no revocation of it is   *)
(* recorded, staged or about to be.                                        *)
LEMMA RevokeInsertKeeps ==
    ASSUME TokenInv, NEW p \in Revokers, RevokeInsert(p)
    PROVE  TokenInv'
<1> DEFINE old == tokenTx[p]
           t == old.token
<1> PICK c : c = RevokedFact(p)  OBVIOUS
<1>1. p \in TokenProcess /\ p \notin TokenBackfills  BY TokenAssumption DEF TokenProcess
<1>2. /\ old \in TokenTransaction /\ RevokerInv(old) /\ old.at = "numbered"
      /\ ~TokenKeyOpen(p, c) /\ ~TokenKeyCommitted(c)
      /\ tokens' = [tokens EXCEPT ![t] = "revoked"] /\ tokenFacts' = tokenFacts \cup {c}
      /\ tokenTx' = [tokenTx EXCEPT ![p] = NoTx] /\ tokenMark' = tokenMark
  BY <1>1 DEF TokenInv, TokenTypeOK, TokenTxInv, RevokeInsert
<1>3. t \in Token /\ tokens[t] = "active"  BY <1>2 DEF RevokerInv
<1>4. /\ c \in TokenFactSet /\ c.token = t /\ c.kind = "revoked" /\ c.source = "api_token_revoke"
  BY <1>2, <1>3 DEF RevokerInv, RevokedFact, TokenFact, TokenFactSet, TokenKinds, TokenTransaction
<1>5. NoTx \in TokenTransaction /\ NoTx.token = 0 /\ NoTx.staged = {}
  BY DEF NoTx, TokenTransaction
<1>6. TokenTypeOK'  BY <1>2, <1>3, <1>4, <1>5 DEF TokenInv, TokenTypeOK
<1>7. /\ tokens'[t] = "revoked"
      /\ \A r \in Token : r # t => tokens'[r] = tokens[r]
      /\ tokenTx'[p] = NoTx
      /\ \A q \in TokenProcess \ {p} : tokenTx'[q] = tokenTx[q]
  BY <1>1, <1>2, <1>3 DEF TokenInv, TokenTypeOK
<1>8. \A r : r # t => (RevokedAtRuntime(r)' <=> RevokedAtRuntime(r))
  BY <1>2, <1>4 DEF RevokedAtRuntime
<1>9. ASSUME NEW f \in TokenFactSet, TokenFactOK(f)
      PROVE  TokenFactOK(f)' /\ ~SameKind(f, c)
  <2>1. f.token \in Token /\ f.kind \in TokenKinds  BY DEF TokenFactSet
  <2>2. CASE f.token = t
    BY <1>3, <1>4, <1>7, <1>9, <2>1, <2>2 DEF TokenFactOK, SameKind
  <2>3. CASE f.token # t
    BY <1>4, <1>7, <1>8, <1>9, <2>1, <2>3 DEF TokenFactOK, SameKind
  <2>4. QED  BY <2>2, <2>3
<1>10. \A f \in tokenFacts : f \in TokenFactSet /\ TokenFactOK(f)' /\ ~SameKind(f, c) /\ ~SameKind(c, f)
  BY <1>9 DEF TokenInv, TokenTypeOK, TokenFactsInv, SameKind
<1>11. TokenFactOK(c)'
  BY <1>3, <1>4, <1>7 DEF TokenFactOK
<1>12. TokenFactsInv'
  <2>1. \A f \in tokenFacts' : TokenFactOK(f)'
    BY <1>2, <1>10, <1>11
  <2>2. \A f, g \in tokenFacts' : SameKind(f, g) /\ f.source = g.source => f = g
    BY <1>2, <1>10 DEF TokenInv, TokenFactsInv
  <2>3. \A r \in Token : tokens[r] # "none" <=> tokens'[r] # "none"
    BY <1>3, <1>7
  <2>4. /\ \A r \in LegacyToken : tokens'[r] # "none"
        /\ \A r \in Token \ LegacyToken :
              tokens'[r] # "none" => \E f \in tokenFacts' : f.token = r /\ f.kind = "created"
    BY <1>2, <2>3, TokenAssumption DEF TokenInv, TokenFactsInv
  <2>5. LastOfEach(tokenFacts')
    BY <1>2, <1>4, LastOfOne, LastOfBoth DEF TokenInv, TokenTypeOK, TokenFactsInv
  <2>6. QED  BY <2>1, <2>2, <2>4, <2>5 DEF TokenFactsInv, LastOfEach, LastOf
<1>13. ASSUME NEW q \in TokenProcess
       PROVE  TokenTxInv(q, tokenTx[q])'
  <2>1. CASE q = p
    BY <1>1, <1>7, <2>1 DEF TokenTxInv, RevokerInv, NoTx
  <2>2. CASE q # p
    <3> DEFINE tx == tokenTx[q]
    <3>1. tx \in TokenTransaction /\ TokenTxInv(q, tx) /\ tokenTx'[q] = tx
      BY <1>7, <2>2 DEF TokenInv, TokenTypeOK
    <3>2. q \in Revokers => tx.token # t
      BY <1>1, <1>3, <2>2, TokenAssumption DEF TokenInv, TokensApart
    <3> HIDE DEF tx
    <3>3. ASSUME q \in Revokers PROVE RevokerInv(tokenTx[q])'
      BY <1>7, <3>1, <3>2, <3>3 DEF TokenTxInv, RevokerInv
    <3>4. ASSUME q \in TokenBackfills PROVE TokenBackfillInv(tokenTx[q])'
      <4>1. TokenBackfillInv(tx)  BY <3>1, <3>4 DEF TokenTxInv
      <4>2. /\ \A r \in tx.todo : tokens'[r] # "none"
            /\ \A r \in tx.ended : tokens'[r] = "revoked"
            /\ tx.at = "seeding" => tx.token \in Token /\ tokens'[tx.token] # "none"
        BY <1>3, <1>7, <3>1, <4>1 DEF TokenBackfillInv, TokenTransaction
      <4>3. "revoked" \in tx.need =>
               tx.token \in Token /\ tokens'[tx.token] = "revoked" /\ ~RevokedAtRuntime(tokenTx[q].token)'
        BY <1>3, <1>7, <1>8, <3>1, <4>1 DEF TokenBackfillInv, RevokedAtRuntime
      <4>4. \A f \in tx.staged : TokenFactOK(f)' /\ f.source = "legacy_api_token"
        BY <1>9, <3>1, <4>1 DEF TokenBackfillInv, TokenTransaction
      <4>5. \A f \in tx.staged, g \in tokenFacts' : ~(SameKind(f, g) /\ g.source = f.source)
        BY <1>2, <1>4, <4>1 DEF TokenBackfillInv
      <4>6. QED
        BY <3>1, <4>1, <4>2, <4>3, <4>4, <4>5 DEF TokenBackfillInv, RevokedAtRuntime
    <3>5. QED  BY <3>3, <3>4 DEF TokenTxInv
  <2>3. QED  BY <2>1, <2>2
<1>14. \A q, r \in TokenProcess : q # r => TokensApart(q, tokenTx[q], r, tokenTx[r])'
  <2> SUFFICES ASSUME NEW q \in TokenProcess, NEW r \in TokenProcess, q # r
               PROVE  TokensApart(q, tokenTx'[q], r, tokenTx'[r])
    BY DEF TokensApart
  <2>1. TokensApart(q, tokenTx[q], r, tokenTx[r])  BY DEF TokenInv
  <2>2. CASE q = p  BY <1>5, <1>7, <2>2 DEF TokensApart
  <2>3. CASE r = p  BY <1>5, <1>7, <2>3 DEF TokensApart
  <2>4. CASE q # p /\ r # p  BY <1>7, <2>1, <2>4
  <2>5. QED  BY <2>2, <2>3, <2>4
<1>15. QED  BY <1>6, <1>12, <1>13, <1>14 DEF TokenInv

(* A batch commits: what it has staged is nowhere else.                    *)
LEMMA TokenCommitKeeps ==
    ASSUME TokenInv, NEW p \in TokenBackfills, TokenCommit(p)
    PROVE  TokenInv'
<1> DEFINE old == tokenTx[p]
           tx == [old EXCEPT !.at = "marking", !.staged = {}]
<1>1. p \in TokenProcess /\ p \notin Revokers  BY TokenAssumption DEF TokenProcess
<1>2. /\ old \in TokenTransaction /\ TokenBackfillInv(old) /\ old.at = "loading" /\ old.todo = {}
      /\ tokenFacts' = tokenFacts \cup old.staged /\ tokenTx' = [tokenTx EXCEPT ![p] = tx]
      /\ tokens' = tokens /\ tokenMark' = tokenMark
  BY <1>1 DEF TokenInv, TokenTypeOK, TokenTxInv, TokenCommit
<1>3. /\ tx \in TokenTransaction /\ tx.at = "marking" /\ tx.token = old.token
      /\ tx.need = old.need /\ tx.sequence = old.sequence /\ tx.staged = {}
      /\ tx.todo = old.todo /\ tx.ended = old.ended
  BY <1>2 DEF TokenTransaction
<1> HIDE DEF tx
<1>4. /\ tokenTx'[p] = tx
      /\ \A q \in TokenProcess \ {p} : tokenTx'[q] = tokenTx[q]
  BY <1>1, <1>2 DEF TokenInv, TokenTypeOK
<1>5. TokenTypeOK'
  BY <1>2, <1>3 DEF TokenInv, TokenTypeOK, TokenTransaction
<1>6. \A r : RevokedAtRuntime(r)' <=> RevokedAtRuntime(r)
  BY <1>2 DEF TokenBackfillInv, RevokedAtRuntime
<1>7. ASSUME NEW f, TokenFactOK(f) PROVE TokenFactOK(f)'
  BY <1>2, <1>6, <1>7 DEF TokenFactOK
<1>8. TokenFactsInv'
  <2>1. \A f \in tokenFacts' : TokenFactOK(f)'
    BY <1>2, <1>7 DEF TokenInv, TokenFactsInv, TokenBackfillInv
  <2>2. \A f, g \in tokenFacts' : SameKind(f, g) /\ f.source = g.source => f = g
    BY <1>2 DEF TokenInv, TokenFactsInv, TokenBackfillInv, SameKind
  <2>3. LastOfEach(tokenFacts')
    BY <1>2, LastOfBoth
       DEF TokenInv, TokenTypeOK, TokenFactsInv, TokenBackfillInv, TokenTransaction
  <2>4. QED
    BY <1>2, <2>1, <2>2, <2>3 DEF TokenInv, TokenFactsInv, LastOfEach, LastOf
<1>9. ASSUME NEW q \in TokenProcess
      PROVE  TokenTxInv(q, tokenTx[q])'
  <2>1. CASE q = p
    <3>1. TokenBackfillInv(tokenTx[p])'
      BY <1>2, <1>3, <1>4, <1>6, <2>1 DEF TokenBackfillInv, LastOfEach, LastOf, RevokedAtRuntime
    <3>2. QED  BY <1>1, <2>1, <3>1 DEF TokenTxInv
  <2>2. CASE q # p
    <3> DEFINE ux == tokenTx[q]
    <3>1. /\ ux \in TokenTransaction /\ TokenTxInv(q, ux) /\ tokenTx'[q] = ux
          /\ TokensApart(q, ux, p, old)
      BY <1>1, <1>4, <2>2 DEF TokenInv, TokenTypeOK
    <3> HIDE DEF ux
    <3>2. ASSUME q \in Revokers PROVE RevokerInv(tokenTx[q])'
      BY <1>2, <3>1, <3>2 DEF TokenTxInv, RevokerInv
    <3>3. ASSUME q \in TokenBackfills PROVE TokenBackfillInv(tokenTx[q])'
      <4>1. TokenBackfillInv(ux)  BY <3>1, <3>3 DEF TokenTxInv
      <4>2. \A f \in ux.staged : TokenFactOK(f)' /\ f.source = "legacy_api_token"
        BY <1>7, <4>1 DEF TokenBackfillInv
      <4>3. \A f \in ux.staged, g \in tokenFacts' : ~(SameKind(f, g) /\ g.source = f.source)
        BY <1>2, <3>1, <4>1 DEF TokenBackfillInv, TokensApart
      <4>4. "revoked" \in ux.need => ~RevokedAtRuntime(tokenTx[q].token)'
        BY <1>6, <3>1, <4>1 DEF TokenBackfillInv, RevokedAtRuntime
      <4>5. QED
        BY <1>2, <3>1, <4>1, <4>2, <4>3, <4>4 DEF TokenBackfillInv, RevokedAtRuntime
    <3>4. QED  BY <3>2, <3>3 DEF TokenTxInv
  <2>3. QED  BY <2>1, <2>2
<1>10. \A q, r \in TokenProcess : q # r => TokensApart(q, tokenTx[q], r, tokenTx[r])'
  <2> SUFFICES ASSUME NEW q \in TokenProcess, NEW r \in TokenProcess, q # r
               PROVE  TokensApart(q, tokenTx'[q], r, tokenTx'[r])
    BY DEF TokensApart
  <2>1. TokensApart(q, tokenTx[q], r, tokenTx[r])  BY DEF TokenInv
  <2>2. CASE q = p  BY <1>1, <1>3, <1>4, <2>2 DEF TokensApart
  <2>3. CASE r = p  BY <1>1, <1>3, <1>4, <2>3 DEF TokensApart
  <2>4. CASE q # p /\ r # p  BY <1>4, <2>1, <2>4
  <2>5. QED  BY <2>2, <2>3, <2>4
<1>11. QED  BY <1>5, <1>8, <1>9, <1>10 DEF TokenInv

LEMMA TokenMarkKeeps ==
    ASSUME TokenInv, NEW p \in TokenBackfills, TokenMark(p)
    PROVE  TokenInv'
<1>1. p \in TokenProcess /\ tokenTx[p] \in TokenTransaction
  BY DEF TokenInv, TokenTypeOK, TokenProcess
<1>2. NoTx \in TokenTransaction  BY DEF NoTx, TokenTransaction
<1>3. TokenTypeOK'
  BY <1>1, <1>2 DEF TokenMark, TokenInv, TokenTypeOK, TokenTransaction
<1>4. /\ tokens' = tokens /\ tokenFacts' = tokenFacts /\ tokenTx'[p] = NoTx
      /\ \A q \in TokenProcess \ {p} : tokenTx'[q] = tokenTx[q]
  BY <1>1 DEF TokenMark, TokenInv, TokenTypeOK
<1>5. TokenFactsInv'
  BY <1>4 DEF TokenInv, TokenFactsInv, TokenFactOK, RevokedAtRuntime
<1>6. NoTx.staged = {} /\ NoTx.token = 0  BY DEF NoTx
<1>7. TokenTxInv(p, tokenTx[p])'
  BY <1>4, TokenAssumption
     DEF TokenTxInv, TokenBackfillInv, NoTx, LastOfEach, LastOf
<1>8. \A q \in TokenProcess \ {p} : TokenTxInv(q, tokenTx[q])'
  BY <1>4 DEF TokenInv, TokenTxInv, RevokerInv, TokenBackfillInv, TokenFactOK, RevokedAtRuntime
<1>9. ASSUME NEW q \in TokenProcess, NEW r \in TokenProcess, q # r
      PROVE  TokensApart(q, tokenTx[q], r, tokenTx[r])'
  <2>1. TokensApart(q, tokenTx[q], r, tokenTx[r])  BY <1>9 DEF TokenInv
  <2>2. CASE q = p  BY <1>4, <1>6, <2>2 DEF TokensApart
  <2>3. CASE r = p  BY <1>4, <1>6, <2>3 DEF TokensApart
  <2>4. CASE q # p /\ r # p  BY <1>4, <2>1, <2>4 DEF TokensApart
  <2>5. QED  BY <2>2, <2>3, <2>4
<1>10. QED  BY <1>3, <1>5, <1>7, <1>8, <1>9 DEF TokenInv

LEMMA TokenUnchanged ==
    ASSUME TokenInv, UNCHANGED <<tokens, tokenFacts, tokenMark, tokenTx>>
    PROVE  TokenInv'
BY DEF TokenInv, TokenTypeOK, TokenFactsInv, TokenFactOK, RevokedAtRuntime, TokenTxInv,
       RevokerInv, TokenBackfillInv, TokensApart

LEMMA TokenNextKeeps == TokenInv /\ [TokenNext]_tokenVars => TokenInv'
<1> SUFFICES ASSUME TokenInv, [TokenNext]_tokenVars PROVE TokenInv'
  OBVIOUS
<1>1. ASSUME NEW t \in Token, CreateAPIToken(t) PROVE TokenInv'
  BY <1>1, CreatedKeeps DEF CreateAPIToken
<1>2. ASSUME NEW b \in Browsers, NEW l \in Login, NEW t \in Token, CompleteCLILogin(b, l, t)
      PROVE  TokenInv'
  BY <1>2, CreatedKeeps DEF CompleteCLILogin
<1>3. ASSUME NEW p \in Revokers, NEW t \in Token, RevokeUpdate(p, t) PROVE TokenInv'
  BY <1>3, RevokeUpdateKeeps
<1>4. ASSUME NEW p \in Revokers, RevokeStep(p) PROVE TokenInv'
  <2>1. ASSUME RevokeFails(p) PROVE TokenInv'
    BY <2>1, TokenIdleKeeps DEF RevokeFails, TokenProcess
  <2>2. QED  BY <1>4, <2>1, RevokeNumberKeeps, RevokeInsertKeeps DEF RevokeStep
<1>5. ASSUME NEW p \in TokenBackfills, TokenBackfillStep(p) PROVE TokenInv'
  <2>1. ASSUME TokenSeedFails(p) PROVE TokenInv'
    BY <2>1, TokenIdleKeeps DEF TokenSeedFails, TokenProcess
  <2>2. QED
    BY <1>5, <2>1, TokenListKeeps, TokenLoadKeeps, SeedNumberKeeps, TokenSeedKeeps,
       TokenSeededKeeps, TokenCommitKeeps, TokenMarkKeeps DEF TokenBackfillStep
<1>6. ASSUME UNCHANGED <<tokens, tokenFacts, tokenMark, tokenTx>> PROVE TokenInv'
  BY <1>6, TokenUnchanged
<1>7. QED
  BY <1>1, <1>2, <1>3, <1>4, <1>5, <1>6 DEF TokenNext, tokenVars

(* The rows, facts and open transactions of the token store are always     *)
(* sound: the inductive invariant of CreateAPIToken, RevokeAPIToken and    *)
(* the token backfill beside each other.                                   *)
THEOREM TokenSpecSound == TokenSpec => []TokenInv
BY TokenInitOK, TokenNextKeeps, PTL DEF TokenSpec

LEMMA AtMostOne ==
    ASSUME NEW S, \A x, y \in S : x = y
    PROVE  Cardinality(S) <= 1
<1>1. CASE S = {}  BY <1>1, FS_EmptySet
<1>2. CASE S # {}
  <2>1. PICK x \in S : TRUE  BY <1>2
  <2>2. S = {x}  BY <2>1
  <2>3. QED  BY <2>2, FS_Singleton
<1>3. QED  BY <1>1, <1>2

(* A token is created once and revoked at most once in its history,        *)
(* whatever revocations and backfills run beside each other, and whether   *)
(* or not it is older than the facts (CheckParity's "missing" and the      *)
(* audit log of RevokeAPIToken).                                           *)
THEOREM TokenHistory == TokenSpec => []TokenHistoryOnce
<1>1. ASSUME TokenInv PROVE TokenHistoryOnce
  <2> SUFFICES ASSUME NEW t \in Token, NEW kind \in {"created", "revoked"}
               PROVE  Cardinality(KindOf(t, kind)) <= 1
    BY DEF TokenHistoryOnce
  <2>1. ASSUME NEW f \in KindOf(t, kind), NEW g \in KindOf(t, kind)
        PROVE  f = g
    <3>1. /\ f \in tokenFacts /\ g \in tokenFacts /\ f.token = t /\ g.token = t
          /\ f.kind = kind /\ g.kind = kind /\ TokenFactOK(f) /\ TokenFactOK(g)
          /\ f \in TokenFactSet /\ g \in TokenFactSet
      BY <1>1 DEF KindOf, TokenInv, TokenTypeOK, TokenFactsInv
    <3>2. f.source = g.source
      <4>1. CASE kind = "created"  BY <3>1, <4>1 DEF TokenFactOK
      <4>2. CASE kind = "revoked"
        BY <3>1, <4>2 DEF TokenFactOK, RevokedAtRuntime, TokenFactSet
      <4>3. QED  BY <4>1, <4>2
    <3>3. QED  BY <1>1, <3>1, <3>2 DEF TokenInv, TokenFactsInv, SameKind
  <2>2. QED  BY <2>1, AtMostOne
<1>2. QED  BY <1>1, TokenSpecSound, PTL

-----------------------------------------------------------------------------
(* Logins of the command line.                                             *)

LEMMA HandedInitOK == TokenInit => HandedInv
BY TokenAssumption DEF TokenInit, HandedInv, HandedOutOnce

LEMMA HandedNextKeeps == TokenInv /\ HandedInv /\ [TokenNext]_tokenVars => HandedInv'
<1> SUFFICES ASSUME TokenInv, HandedInv, [TokenNext]_tokenVars PROVE HandedInv'
  OBVIOUS
<1> USE TokenAssumption
<1>a. tokens \in [Token -> {"none", "active", "revoked"}]
  BY DEF TokenInv, TokenTypeOK
<1>1. ASSUME NEW t \in Token, CreateAPIToken(t) PROVE HandedInv'
  BY <1>1, <1>a DEF CreateAPIToken, Created, HandedInv, HandedOutOnce
<1>2. ASSUME NEW b \in Browsers, NEW l \in Login, NEW t \in Token, CompleteCLILogin(b, l, t)
      PROVE  HandedInv'
  <2> DEFINE r == [login |-> l, token |-> t]
  <2>1. /\ r \in [login : Login, token : Token] /\ r.token = t
        /\ browsers[b] = NoToken /\ tokens[t] = "none" /\ tokens' = [tokens EXCEPT ![t] = "active"]
        /\ browsers' = [browsers EXCEPT ![b] = r] /\ logins' = logins /\ handed' = handed
    BY <1>2 DEF CompleteCLILogin, Created
  <2> HIDE DEF r
  <2>2. /\ browsers'[b] = r /\ \A c \in Browsers \ {b} : browsers'[c] = browsers[c]
        /\ tokens'[t] = "active" /\ \A s \in Token \ {t} : tokens'[s] = tokens[s]
    BY <2>1, <1>a DEF HandedInv
  <2>3. /\ browsers' \in [Browsers -> [login : Login, token : Token] \cup {NoToken}]
        /\ logins' \in [Login -> [state : {"none", "open", "gone"}, result : Token \cup {NoToken}]]
        /\ handed' \in [Token -> Nat]
        /\ \A s \in Token : tokens'[s] = "none" => handed'[s] = 0
        /\ HandedOutOnce'
    BY <2>1, <2>2 DEF HandedInv, HandedOutOnce
  <2>4. handed[t] = 0 /\ \A k \in Login : logins[k].result # t
    BY <2>1 DEF HandedInv
  <2>5. \A c \in Browsers \ {b} : browsers[c] # NoToken => browsers[c].token # t
    BY <2>1 DEF HandedInv
  <2>6. ASSUME NEW c \in Browsers, browsers'[c] # NoToken
        PROVE  /\ tokens'[browsers'[c].token] # "none" /\ handed'[browsers'[c].token] = 0
               /\ \A k \in Login : logins'[k].result # browsers'[c].token
               /\ \A d \in Browsers \ {c} :
                     browsers'[d] # NoToken => browsers'[d].token # browsers'[c].token
    <3>1. CASE c = b  BY <2>1, <2>2, <2>4, <2>5, <3>1
    <3>2. CASE c # b
      <4>1. browsers'[c] = browsers[c] /\ browsers[c] # NoToken /\ browsers[c].token \in Token
        BY <2>2, <2>6, <3>2 DEF HandedInv
      <4>2. /\ tokens[browsers[c].token] # "none" /\ handed[browsers[c].token] = 0
            /\ \A k \in Login : logins[k].result # browsers[c].token
            /\ \A d \in Browsers \ {c} :
                  browsers[d] # NoToken => browsers[d].token # browsers[c].token
        BY <4>1 DEF HandedInv
      <4>3. QED  BY <2>1, <2>2, <2>5, <3>2, <4>1, <4>2
    <3>3. QED  BY <3>1, <3>2
  <2>7. ASSUME NEW k \in Login, logins'[k].result # NoToken
        PROVE  /\ logins'[k].state = "open"
               /\ tokens'[logins'[k].result] # "none" /\ handed'[logins'[k].result] = 0
               /\ \A m \in Login \ {k} : logins'[m].result # logins'[k].result
    BY <2>1, <2>2, <2>4, <2>7 DEF HandedInv
  <2>8. QED  BY <2>3, <2>6, <2>7 DEF HandedInv
<1>3. ASSUME UNCHANGED loginVars, \A t \in Token : tokens'[t] # "none" <=> tokens[t] # "none"
      PROVE  HandedInv'
  BY <1>3, ZenonT(30) DEF loginVars, HandedInv, HandedOutOnce
<1>4. ASSUME NEW p \in Revokers, RevokeInsert(p)
      PROVE  \A t \in Token : tokens'[t] # "none" <=> tokens[t] # "none"
  BY <1>4, <1>a DEF RevokeInsert, TokenInv, TokenTxInv, RevokerInv, TokenProcess
<1>5. ASSUME NEW p \in Revokers,
             RevokeStep(p) \/ \E t \in Token : RevokeUpdate(p, t)
      PROVE  \A t \in Token : tokens'[t] # "none" <=> tokens[t] # "none"
  BY <1>4, <1>5 DEF RevokeStep, RevokeUpdate, RevokeNumber, RevokeFails, TokenStep
<1>6. ASSUME NEW p \in TokenBackfills, TokenBackfillStep(p)
      PROVE  \A t \in Token : tokens'[t] # "none" <=> tokens[t] # "none"
  BY <1>6 DEF TokenBackfillStep, TokenList, TokenLoad, SeedNumber, TokenSeed, TokenSeedFails,
              TokenSeeded, TokenCommit, TokenMark, TokenStep
<1>7. ASSUME NEW l \in Login, BeginCLILogin(l), tokens' = tokens PROVE HandedInv'
  BY <1>7 DEF BeginCLILogin, HandedInv, HandedOutOnce
<1>8. ASSUME NEW l \in Login, LoginEnds(l), tokens' = tokens PROVE HandedInv'
  BY <1>8 DEF LoginEnds, Gone, HandedInv, HandedOutOnce
<1>9. ASSUME NEW l \in Login, Exchange(l), tokens' = tokens PROVE HandedInv'
  BY <1>9 DEF Exchange, AfterExchange, Gone, HandedInv, HandedOutOnce
<1>10. ASSUME NEW b \in Browsers, MarkComplete(b), tokens' = tokens PROVE HandedInv'
  <2> DEFINE r == browsers[b]
             old == logins[r.login]
  <2>1. /\ r # NoToken /\ browsers' = [browsers EXCEPT ![b] = NoToken] /\ handed' = handed
        /\ r.login \in Login /\ r.token \in Token
    BY <1>10 DEF MarkComplete, HandedInv
  <2>2. /\ browsers'[b] = NoToken
        /\ \A c \in Browsers \ {b} : browsers'[c] = browsers[c]
        /\ browsers' \in [Browsers -> [login : Login, token : Token] \cup {NoToken}]
    BY <2>1 DEF HandedInv
  <2>3. CASE old.state = "open"
    <3>1. logins' = [logins EXCEPT ![r.login].result = r.token]
      BY <1>10, <2>3 DEF MarkComplete
    <3>2. /\ logins'[r.login].result = r.token /\ logins'[r.login].state = "open"
          /\ \A k \in Login \ {r.login} : logins'[k] = logins[k]
          /\ logins' \in [Login -> [state : {"none", "open", "gone"}, result : Token \cup {NoToken}]]
      BY <2>1, <2>3, <3>1 DEF HandedInv
    <3>3. /\ tokens[r.token] # "none" /\ handed[r.token] = 0
          /\ \A k \in Login : logins[k].result # r.token
          /\ \A c \in Browsers \ {b} : browsers[c] # NoToken => browsers[c].token # r.token
      BY <2>1 DEF HandedInv
    <3> HIDE DEF r, old
    <3>4. ASSUME NEW k \in Login, logins'[k].result # NoToken
          PROVE  /\ logins'[k].state = "open"
                 /\ tokens'[logins'[k].result] # "none" /\ handed'[logins'[k].result] = 0
                 /\ \A m \in Login \ {k} : logins'[m].result # logins'[k].result
      <4>1. CASE k = r.login  BY <1>10, <2>1, <3>2, <3>3, <4>1
      <4>2. CASE k # r.login  BY <1>10, <2>1, <3>2, <3>3, <3>4, <4>2 DEF HandedInv
      <4>3. QED  BY <4>1, <4>2
    <3>5. ASSUME NEW c \in Browsers, browsers'[c] # NoToken
          PROVE  /\ tokens'[browsers'[c].token] # "none" /\ handed'[browsers'[c].token] = 0
                 /\ \A k \in Login : logins'[k].result # browsers'[c].token
                 /\ \A d \in Browsers \ {c} :
                       browsers'[d] # NoToken => browsers'[d].token # browsers'[c].token
      <4>1. c # b /\ browsers'[c] = browsers[c] /\ browsers[c] # NoToken
        BY <2>2, <3>5
      <4>2. /\ tokens[browsers[c].token] # "none" /\ handed[browsers[c].token] = 0
            /\ \A k \in Login : logins[k].result # browsers[c].token
            /\ \A d \in Browsers \ {c} :
                  browsers[d] # NoToken => browsers[d].token # browsers[c].token
            /\ browsers[c].token # r.token
        BY <3>3, <4>1 DEF HandedInv
      <4>3. \A k \in Login : logins'[k].result # browsers[c].token
        BY <3>2, <4>2
      <4>4. QED  BY <1>10, <2>1, <2>2, <4>1, <4>2, <4>3
    <3>6. QED  BY <1>10, <2>1, <2>2, <3>2, <3>4, <3>5 DEF HandedInv, HandedOutOnce
  <2>4. CASE old.state # "open"
    <3>1. logins' = logins  BY <1>10, <2>4 DEF MarkComplete
    <3>2. QED  BY <1>10, <2>1, <2>2, <3>1 DEF HandedInv, HandedOutOnce
  <2>5. QED  BY <2>3, <2>4
<1>11. ASSUME ServerRestarts, tokens' = tokens PROVE HandedInv'
  BY <1>11 DEF ServerRestarts, Gone, HandedInv, HandedOutOnce
<1>12. ASSUME UNCHANGED tokenVars PROVE HandedInv'
  BY <1>12 DEF tokenVars, HandedInv, HandedOutOnce
<1>13. QED
  BY <1>1, <1>2, <1>3, <1>5, <1>6, <1>7, <1>8, <1>9, <1>10, <1>11, <1>12
     DEF TokenNext, CLIStep

(* No token is handed to two command lines, whatever logins expire, are    *)
(* completed twice or are lost in a restart of the server.                 *)
THEOREM HandedOut == TokenSpec => []HandedOutOnce
<1>1. HandedInv => HandedOutOnce  BY DEF HandedInv
<1>2. QED
  BY <1>1, HandedInitOK, HandedNextKeeps, TokenSpecSound, PTL DEF TokenSpec

-----------------------------------------------------------------------------
(* User profiles.                                                          *)

LEMMA NoLoginType == NoLogin \in ProfileTransaction /\ NoLogin.at = "idle" /\ NoLogin.staged = {}
                       /\ NoLogin.todo = {}
BY DEF NoLogin, ProfileTransaction

LEMMA NoLoginOK ==
    ASSUME NEW p \in ProfileProcess, NEW q, NEW ux
    PROVE  /\ ProfileTxInv(p, NoLogin)
           /\ ProfilesApart(p, NoLogin, q, ux) /\ ProfilesApart(q, ux, p, NoLogin)
BY NoLoginType DEF ProfileTxInv, OAuthInv, SeedInv, ProfilesApart, Locked

LEMMA ProfileInitOK == ProfileInit => ProfileInv
<1> SUFFICES ASSUME ProfileInit PROVE ProfileInv  OBVIOUS
<1>1. ProfileTypeOK
  BY NoLoginType, ProfileAssumption DEF ProfileInit, ProfileTypeOK, ProfileProcess
<1>2. \A u \in User : UserOK(u)
  BY DEF ProfileInit, UserOK, ProfileFactsOf
<1>3. \A p \in ProfileProcess : profileTx[p] = NoLogin
  BY DEF ProfileInit, ProfileProcess
<1>4. profileFacts = {}  BY DEF ProfileInit
<1>5. QED  BY <1>1, <1>2, <1>3, <1>4, NoLoginOK DEF ProfileInv

(* The next sequence is beyond all there are.                              *)
LEMMA NextProfileSequenceIs ==
    ASSUME ProfileInv, NEW u \in User
    PROVE  /\ NextProfileSequence(u) \in Nat \ {0}
           /\ \A f \in ProfileFactsOf(u) : f.sequence < NextProfileSequence(u)
           /\ ProfileFactsOf(u) = {} => NextProfileSequence(u) = 1
<1> DEFINE T == ProfileFactsOf(u)
           N == {f.sequence : f \in T} \cup {0}
<1>1. \A f \in T : f.sequence \in Nat
  BY DEF ProfileInv, ProfileTypeOK, ProfileFactsOf, ProfileFactSet
<1>2. T # {} => \E f \in T : \A g \in T : g.sequence <= f.sequence
  BY DEF ProfileInv, UserOK
<1> HIDE DEF T
<1>3. N \in SUBSET Nat  BY <1>1
<1>4. \E m \in N : \A n \in N : n <= m  BY <1>1, <1>2
<1>5. Max(N) \in N /\ \A n \in N : n <= Max(N)
  BY <1>3, <1>4 DEF Max
<1>6. T = {} => N = {0}  OBVIOUS
<1>7. \A f \in T : f.sequence \in N  OBVIOUS
<1> HIDE DEF N
<1>8. NextProfileSequence(u) = Max(N) + 1  BY DEF NextProfileSequence, N, T
<1>9. Max(N) \in Nat  BY <1>3, <1>5
<1>10. \A f \in T : f.sequence <= Max(N)  BY <1>5, <1>7
<1>11. \A f \in T : f.sequence < Max(N) + 1  BY <1>1, <1>9, <1>10
<1>12. T = {} => Max(N) = 0  BY <1>5, <1>6
<1>13. QED  BY <1>8, <1>9, <1>11, <1>12 DEF T

(* A step of p on its own transaction.                                     *)
LEMMA ProfileStepKeeps ==
    ASSUME ProfileInv, NEW p \in ProfileProcess, NEW tx \in ProfileTransaction,
           ProfileTxInv(p, tx), ProfileStep(p, tx),
           \A q \in ProfileProcess \ {p} :
              ProfilesApart(p, tx, q, profileTx[q]) /\ ProfilesApart(q, profileTx[q], p, tx)
    PROVE  ProfileInv'
<1>1. /\ users' = users /\ userOf' = userOf /\ profileFacts' = profileFacts
      /\ profileMark' = profileMark /\ profileTx' = [profileTx EXCEPT ![p] = tx]
  BY DEF ProfileStep, ProfileMove
<1>2. /\ profileTx'[p] = tx
      /\ \A q \in ProfileProcess \ {p} : profileTx'[q] = profileTx[q]
  BY <1>1 DEF ProfileInv, ProfileTypeOK
<1>3. ProfileTypeOK'  BY <1>1 DEF ProfileInv, ProfileTypeOK
<1>4. \A u \in User : UserOK(u)'
  BY <1>1 DEF ProfileInv, UserOK, ProfileFactsOf, Taken
<1>5. \A f, g \in profileFacts' : f.user = g.user /\ f.sequence = g.sequence => f = g
  BY <1>1 DEF ProfileInv
<1>6. \A q \in ProfileProcess : ProfileTxInv(q, profileTx[q])'
  BY <1>1, <1>2 DEF ProfileInv, ProfileTxInv, OAuthInv, SeedInv, ProfileFactsOf
<1>7. ASSUME NEW q \in ProfileProcess, NEW r \in ProfileProcess, q # r
      PROVE  ProfilesApart(q, profileTx[q], r, profileTx[r])'
  <2>1. ProfilesApart(q, profileTx'[q], r, profileTx'[r])
    BY <1>2, <1>7 DEF ProfileInv
  <2>2. QED  BY <2>1 DEF ProfilesApart, Locked
<1>8. QED  BY <1>3, <1>4, <1>5, <1>6, <1>7 DEF ProfileInv

LEMMA ProfileIdleKeeps ==
    ASSUME ProfileInv, NEW p \in ProfileProcess, ProfileStep(p, NoLogin)
    PROVE  ProfileInv'
BY NoLoginType, NoLoginOK, ProfileStepKeeps

LEMMA LoginReadsKeeps ==
    ASSUME ProfileInv, NEW p \in OAuthLogins, NEW a \in Account, NEW x \in Profile,
           LoginReads(p, a, x)
    PROVE  ProfileInv'
<1> DEFINE u == userOf[a]
           ins == [NoLogin EXCEPT !.at = "insert", !.account = a, !.profile = x]
           upd == [NoLogin EXCEPT !.at = "update", !.user = u, !.profile = x]
<1>1. p \in ProfileProcess /\ p \notin ProfileBackfills
  BY ProfileAssumption DEF ProfileProcess
<1>2. u \in User \cup {Nothing}  BY DEF ProfileInv, ProfileTypeOK
<1>3. CASE u = Nothing
  <2>1. ProfileStep(p, ins)  BY <1>3 DEF LoginReads
  <2>2. /\ ins \in ProfileTransaction /\ ins.at = "insert" /\ ins.account = a
        /\ ins.profile = x /\ ins.staged = {}
    BY DEF NoLogin, ProfileTransaction
  <2> HIDE DEF ins
  <2>3. ProfileTxInv(p, ins)  BY <1>1, <2>2 DEF ProfileTxInv, OAuthInv
  <2>4. \A q \in ProfileProcess \ {p} :
           ProfilesApart(p, ins, q, profileTx[q]) /\ ProfilesApart(q, profileTx[q], p, ins)
    BY <2>2 DEF ProfilesApart, Locked
  <2>5. QED  BY <1>1, <2>1, <2>2, <2>3, <2>4, ProfileStepKeeps
<1>4. CASE u # Nothing
  <2>1. ProfileStep(p, upd)  BY <1>4 DEF LoginReads
  <2> HIDE DEF u
  <2>2. /\ upd \in ProfileTransaction /\ upd.at = "update" /\ upd.user = u
        /\ upd.profile = x /\ upd.staged = {}
    BY <1>2 DEF NoLogin, ProfileTransaction
  <2> HIDE DEF upd
  <2>3. ProfileTxInv(p, upd)  BY <1>1, <1>2, <1>4, <2>2 DEF ProfileTxInv, OAuthInv
  <2>4. \A q \in ProfileProcess \ {p} :
           ProfilesApart(p, upd, q, profileTx[q]) /\ ProfilesApart(q, profileTx[q], p, upd)
    BY <2>2 DEF ProfilesApart, Locked
  <2>5. QED  BY <1>1, <2>1, <2>2, <2>3, <2>4, ProfileStepKeeps
<1>5. QED  BY <1>3, <1>4

(* A login takes the lock on its user's row.                               *)
LEMMA ProfileUpdateKeeps ==
    ASSUME ProfileInv, NEW p \in OAuthLogins, ProfileUpdate(p)
    PROVE  ProfileInv'
<1> DEFINE old == profileTx[p]
           tx == [old EXCEPT !.at = "updated"]
<1>1. p \in ProfileProcess /\ p \notin ProfileBackfills
  BY ProfileAssumption DEF ProfileProcess
<1>2. /\ old \in ProfileTransaction /\ OAuthInv(old) /\ old.at = "update"
      /\ RowFree(p, old.user) /\ ProfileStep(p, tx)
  BY <1>1 DEF ProfileUpdate, ProfileInv, ProfileTypeOK, ProfileTxInv
<1>3. /\ tx \in ProfileTransaction /\ tx.at = "updated" /\ tx.user = old.user
      /\ tx.profile = old.profile /\ tx.staged = old.staged
  BY <1>2 DEF ProfileTransaction
<1>4. ProfileTxInv(p, tx)  BY <1>1, <1>2, <1>3 DEF ProfileTxInv, OAuthInv
<1>5. ASSUME NEW q \in ProfileProcess \ {p}
      PROVE  ProfilesApart(p, tx, q, profileTx[q]) /\ ProfilesApart(q, profileTx[q], p, tx)
  BY <1>2, <1>3 DEF RowFree, ProfilesApart, Locked, OAuthInv
<1> HIDE DEF tx
<1>6. QED  BY <1>1, <1>2, <1>3, <1>4, <1>5, ProfileStepKeeps

LEMMA ProfileNumberKeeps ==
    ASSUME ProfileInv, NEW p \in OAuthLogins, ProfileNumber(p)
    PROVE  ProfileInv'
<1> DEFINE old == profileTx[p]
<1> PICK n : n = NextProfileSequence(old.user)  OBVIOUS
<1> DEFINE tx == [old EXCEPT !.at = "numbered", !.sequence = n]
<1>1. p \in ProfileProcess /\ p \notin ProfileBackfills
  BY ProfileAssumption DEF ProfileProcess
<1>2. /\ old \in ProfileTransaction /\ OAuthInv(old) /\ old.at = "updated" /\ ProfileStep(p, tx)
  BY <1>1 DEF ProfileNumber, ProfileInv, ProfileTypeOK, ProfileTxInv
<1>3. old.user \in User  BY <1>2 DEF OAuthInv
<1>4. /\ n \in Nat \ {0} /\ \A f \in ProfileFactsOf(old.user) : f.sequence < n
      /\ ProfileFactsOf(old.user) = {} => n = 1
  BY <1>3, NextProfileSequenceIs
<1>5. /\ tx \in ProfileTransaction /\ tx.at = "numbered" /\ tx.user = old.user
      /\ tx.profile = old.profile /\ tx.staged = old.staged /\ tx.sequence = n
  BY <1>2, <1>4 DEF ProfileTransaction
<1>6. ProfileTxInv(p, tx)  BY <1>1, <1>2, <1>4, <1>5 DEF ProfileTxInv, OAuthInv
<1>7. ASSUME NEW q \in ProfileProcess \ {p}
      PROVE  ProfilesApart(p, tx, q, profileTx[q]) /\ ProfilesApart(q, profileTx[q], p, tx)
  BY <1>1, <1>2, <1>5 DEF ProfileInv, ProfilesApart, Locked, OAuthInv
<1> HIDE DEF tx
<1>8. QED  BY <1>1, <1>2, <1>5, <1>6, <1>7, ProfileStepKeeps

(* A login commits: the row and the fact that comes last.                  *)
LEMMA FactAdded ==
    ASSUME ProfileInv, NEW p \in OAuthLogins, NEW u \in User, NEW n \in Nat \ {0},
           NEW x \in Profile,
           users' = [users EXCEPT ![u] = x],
           userOf' \in [Account -> User \cup {Nothing}],
           profileFacts' = profileFacts \cup {ProfileFact(u, n, x, FALSE)},
           profileTx' = [profileTx EXCEPT ![p] = NoLogin], profileMark' = profileMark,
           ProfileFactsOf(u) = {} => n = 1,
           \A f \in ProfileFactsOf(u) : f.sequence < n,
           \A q \in ProfileBackfills : \A f \in profileTx[q].staged : f.user # u,
           \A q \in OAuthLogins \ {p} :
              profileTx[q].at = "numbered" /\ profileTx[q].user = u => profileTx[q].sequence = 1
    PROVE  ProfileInv'
<1> DEFINE c == ProfileFact(u, n, x, FALSE)
<1>1. /\ c \in ProfileFactSet /\ c.user = u /\ c.sequence = n /\ c.profile = x
  BY DEF ProfileFact, ProfileFactSet
<1>2. profileFacts' = profileFacts \cup {c}  OBVIOUS
<1> HIDE DEF c
<1>3. p \in ProfileProcess /\ p \notin ProfileBackfills
  BY ProfileAssumption DEF ProfileProcess
<1>4. ProfileTypeOK'
  BY <1>1, <1>2, NoLoginType DEF ProfileInv, ProfileTypeOK
<1>5. /\ users'[u] = x /\ \A v \in User \ {u} : users'[v] = users[v]
      /\ profileTx'[p] = NoLogin
      /\ \A q \in ProfileProcess \ {p} : profileTx'[q] = profileTx[q]
  BY <1>3 DEF ProfileInv, ProfileTypeOK
<1>6. /\ ProfileFactsOf(u)' = ProfileFactsOf(u) \cup {c}
      /\ \A v \in User \ {u} : ProfileFactsOf(v)' = ProfileFactsOf(v)
  BY <1>1, <1>2 DEF ProfileFactsOf
<1>7. \A v \in User : \A f \in ProfileFactsOf(v) : f.sequence \in Nat
  BY DEF ProfileInv, ProfileTypeOK, ProfileFactsOf, ProfileFactSet
<1>8. ASSUME NEW v \in User PROVE UserOK(v)'
  <2>1. CASE v = u
    <3>1. users'[u] # Nothing  BY <1>5, ProfileAssumption
    <3>2. Taken(u, 1)'
      <4>1. CASE ProfileFactsOf(u) = {}  BY <1>1, <1>6, <4>1 DEF Taken
      <4>2. CASE ProfileFactsOf(u) # {}
        <5>1. Taken(u, 1)  BY <4>2 DEF ProfileInv, UserOK
        <5>2. QED  BY <1>6, <5>1 DEF Taken
      <4>3. QED  BY <4>1, <4>2
    <3>3. \A g \in ProfileFactsOf(u)' : g.sequence <= c.sequence
      BY <1>1, <1>6, <1>7
    <3>4. c \in ProfileFactsOf(u)' /\ c.profile = users'[u]
      BY <1>1, <1>5, <1>6
    <3>5. QED  BY <2>1, <3>1, <3>2, <3>3, <3>4 DEF UserOK
  <2>2. CASE v # u
    <3>1. UserOK(v)  BY DEF ProfileInv
    <3>2. ProfileFactsOf(v)' = ProfileFactsOf(v) /\ users'[v] = users[v]
      BY <1>5, <1>6, <2>2
    <3>3. Taken(v, 1)' <=> Taken(v, 1)  BY <3>2 DEF Taken
    <3>4. QED  BY <3>1, <3>2, <3>3 DEF UserOK
  <2>3. QED  BY <2>1, <2>2
<1>9. \A f, g \in profileFacts' : f.user = g.user /\ f.sequence = g.sequence => f = g
  <2>1. \A f \in profileFacts : ~(f.user = u /\ f.sequence = n)
    BY <1>7 DEF ProfileFactsOf
  <2>2. QED  BY <1>1, <1>2, <2>1 DEF ProfileInv
<1>10. ASSUME NEW q \in ProfileProcess PROVE ProfileTxInv(q, profileTx[q])'
  <2>1. CASE q = p
    BY <1>3, <1>5, <2>1, NoLoginType DEF ProfileTxInv, OAuthInv
  <2>2. CASE q # p
    <3> PICK tx : tx = profileTx[q]  OBVIOUS
    <3>1. tx \in ProfileTransaction /\ ProfileTxInv(q, tx) /\ profileTx'[q] = tx
      BY <1>5, <2>2 DEF ProfileInv, ProfileTypeOK
    <3>2. q \in OAuthLogins /\ tx.at = "numbered" /\ tx.user = u => tx.sequence = 1
      BY <2>2
    <3>3. q \in ProfileBackfills => \A f \in tx.staged : f.user # u
      OBVIOUS
    <3>4. ASSUME q \in OAuthLogins PROVE OAuthInv(profileTx[q])'
      <4>1. OAuthInv(tx)  BY <3>1, <3>4 DEF ProfileTxInv
      <4>2. tx.at = "numbered" /\ tx.sequence # 1 =>
               /\ ProfileFactsOf(tx.user)' # {}
               /\ \A f \in ProfileFactsOf(tx.user)' : f.sequence < tx.sequence
        <5>1. tx.at = "numbered" /\ tx.sequence # 1 => tx.user \in User /\ tx.user # u
          BY <3>2, <3>4, <4>1 DEF OAuthInv
        <5>2. QED  BY <1>1, <1>2, <4>1, <5>1 DEF OAuthInv, ProfileFactsOf
      <4>3. QED  BY <3>1, <4>1, <4>2 DEF OAuthInv
    <3>5. ASSUME q \in ProfileBackfills PROVE SeedInv(profileTx[q])'
      <4>1. SeedInv(tx)  BY <3>1, <3>5 DEF ProfileTxInv
      <4>2. \A v \in tx.todo :
               /\ tx.listed[v] # Nothing
               /\ ProfileFactsOf(v)' = {} => users'[v] = tx.listed[v]
        BY <1>5, <1>6, <3>1, <4>1 DEF SeedInv, ProfileTransaction
      <4>3. \A f \in tx.staged :
               /\ f.user \notin tx.todo /\ f.sequence = 1
               /\ ProfileFactsOf(f.user)' = {} /\ users'[f.user] = f.profile
        <5> SUFFICES ASSUME NEW f \in tx.staged
                     PROVE  ProfileFactsOf(f.user)' = {} /\ users'[f.user] = f.profile
          BY <4>1 DEF SeedInv
        <5>1. f.user \in User /\ f.user # u
          BY <3>1, <3>3, <3>5 DEF ProfileTransaction, ProfileFactSet
        <5>2. ProfileFactsOf(f.user) = {} /\ users[f.user] = f.profile
          BY <4>1 DEF SeedInv
        <5>3. ProfileFactsOf(f.user)' = {}
          BY <1>1, <1>2, <5>1, <5>2 DEF ProfileFactsOf
        <5>4. QED  BY <1>5, <5>1, <5>2, <5>3
      <4>4. QED  BY <3>1, <4>1, <4>2, <4>3 DEF SeedInv
    <3>6. QED  BY <3>4, <3>5 DEF ProfileTxInv
  <2>3. QED  BY <2>1, <2>2
<1>11. ASSUME NEW q \in ProfileProcess, NEW r \in ProfileProcess, q # r
       PROVE  ProfilesApart(q, profileTx[q], r, profileTx[r])'
  <2>1. ProfilesApart(q, profileTx'[q], r, profileTx'[r])
    BY <1>5, <1>11, NoLoginOK DEF ProfileInv
  <2>2. QED  BY <2>1 DEF ProfilesApart, Locked
<1>12. QED  BY <1>4, <1>8, <1>9, <1>10, <1>11 DEF ProfileInv

(* Nobody stages a fact of a user without a row.                           *)
LEMMA LoginInsertsKeeps ==
    ASSUME ProfileInv, NEW p \in OAuthLogins, NEW u \in User, LoginInserts(p, u)
    PROVE  ProfileInv'
<1> PICK tx : tx = profileTx[p]  OBVIOUS
<1>1. p \in ProfileProcess  BY DEF ProfileProcess
<1>2. /\ OAuthInv(tx) /\ tx.at = "insert" /\ users[u] = Nothing
      /\ users' = [users EXCEPT ![u] = tx.profile]
      /\ userOf' = [userOf EXCEPT ![tx.account] = u]
      /\ profileFacts' = profileFacts \cup {ProfileFact(u, 1, tx.profile, FALSE)}
      /\ profileTx' = [profileTx EXCEPT ![p] = NoLogin] /\ profileMark' = profileMark
  BY <1>1 DEF LoginInserts, ProfileMove, ProfileInv, ProfileTxInv
<1>3. tx.profile \in Profile /\ userOf' \in [Account -> User \cup {Nothing}]
  BY <1>2 DEF OAuthInv, ProfileInv, ProfileTypeOK
<1>4. ProfileFactsOf(u) = {}
  BY <1>2 DEF ProfileInv, UserOK
<1>5. \A q \in ProfileBackfills : \A f \in profileTx[q].staged : f.user # u
  <2> SUFFICES ASSUME NEW q \in ProfileBackfills, NEW f \in profileTx[q].staged, f.user = u
               PROVE  FALSE
    OBVIOUS
  <2>1. SeedInv(profileTx[q]) /\ profileTx[q] \in ProfileTransaction
    BY DEF ProfileInv, ProfileTypeOK, ProfileTxInv, ProfileProcess
  <2>2. f.profile = Nothing  BY <1>2, <2>1 DEF SeedInv
  <2>3. f.profile \in Profile  BY <2>1 DEF ProfileTransaction, ProfileFactSet
  <2>4. QED  BY <2>2, <2>3, ProfileAssumption
<1>6. \A q \in OAuthLogins \ {p} :
         profileTx[q].at = "numbered" /\ profileTx[q].user = u => profileTx[q].sequence = 1
  BY <1>4 DEF ProfileInv, ProfileTxInv, OAuthInv, ProfileProcess
<1>7. PICK n \in Nat \ {0} : n = 1  OBVIOUS
<1>8. /\ profileFacts' = profileFacts \cup {ProfileFact(u, n, tx.profile, FALSE)}
      /\ ProfileFactsOf(u) = {} => n = 1
      /\ \A f \in ProfileFactsOf(u) : f.sequence < n
  BY <1>2, <1>4, <1>7
<1>9. QED  BY <1>2, <1>3, <1>5, <1>6, <1>8, FactAdded

(* The sequence is free, so it is still the next, and nobody stages a seed.*)
LEMMA ProfileInsertKeeps ==
    ASSUME ProfileInv, NEW p \in OAuthLogins, ProfileInsert(p)
    PROVE  ProfileInv'
<1> PICK tx : tx = profileTx[p]  OBVIOUS
<1> PICK u : u = tx.user  OBVIOUS
<1>1. p \in ProfileProcess  BY DEF ProfileProcess
<1>2. /\ tx \in ProfileTransaction /\ OAuthInv(tx) /\ tx.at = "numbered"
      /\ ~Open(p, u, tx.sequence) /\ ~Taken(u, tx.sequence)
      /\ users' = [users EXCEPT ![u] = tx.profile] /\ userOf' = userOf
      /\ profileFacts' = profileFacts \cup {ProfileFact(u, tx.sequence, tx.profile, FALSE)}
      /\ profileTx' = [profileTx EXCEPT ![p] = NoLogin] /\ profileMark' = profileMark
  BY <1>1 DEF ProfileInsert, ProfileMove, ProfileInv, ProfileTypeOK, ProfileTxInv
<1>3. /\ tx.profile \in Profile /\ u \in User /\ tx.sequence \in Nat \ {0}
      /\ userOf' \in [Account -> User \cup {Nothing}]
  BY <1>2 DEF OAuthInv, ProfileInv, ProfileTypeOK, ProfileTransaction
<1>4. tx.sequence = 1 => ProfileFactsOf(u) = {}
  BY <1>2, <1>3 DEF ProfileInv, UserOK
<1>5. /\ ProfileFactsOf(u) = {} => tx.sequence = 1
      /\ \A f \in ProfileFactsOf(u) : f.sequence < tx.sequence
  BY <1>2, <1>4 DEF OAuthInv
<1>6. \A q \in ProfileBackfills : \A f \in profileTx[q].staged : f.user # u
  <2> SUFFICES ASSUME NEW q \in ProfileBackfills, NEW f \in profileTx[q].staged, f.user = u
               PROVE  FALSE
    OBVIOUS
  <2>1. SeedInv(profileTx[q])
    BY DEF ProfileInv, ProfileTxInv, ProfileProcess
  <2>2. f.sequence = 1 /\ ProfileFactsOf(u) = {}  BY <2>1 DEF SeedInv
  <2>3. tx.sequence = 1 /\ q # p  BY <1>5, <2>2, ProfileAssumption
  <2>4. QED  BY <1>2, <2>2, <2>3 DEF Open
<1>7. \A q \in OAuthLogins \ {p} :
         profileTx[q].at = "numbered" /\ profileTx[q].user = u => profileTx[q].sequence = 1
  <2> SUFFICES ASSUME NEW q \in OAuthLogins \ {p}, profileTx[q].at = "numbered"
               PROVE  profileTx[q].user # u
    OBVIOUS
  <2>1. ProfilesApart(p, profileTx[p], q, profileTx[q])
    BY DEF ProfileInv, ProfileProcess
  <2>2. QED  BY <1>2, <2>1 DEF ProfilesApart, Locked
<1>8. QED  BY <1>2, <1>3, <1>5, <1>6, <1>7, FactAdded

-----------------------------------------------------------------------------
(* The profile backfill.                                                   *)

(* A step that stages nothing.                                             *)
LEMMA SeedQuietStep ==
    ASSUME ProfileInv, NEW p \in ProfileBackfills, NEW tx \in ProfileTransaction,
           tx.staged \subseteq profileTx[p].staged, SeedInv(tx), ProfileStep(p, tx)
    PROVE  ProfileInv'
<1>1. p \in ProfileProcess /\ p \notin OAuthLogins
  BY ProfileAssumption DEF ProfileProcess
<1>2. ProfileTxInv(p, tx)  BY <1>1 DEF ProfileTxInv
<1>3. ASSUME NEW q \in ProfileProcess \ {p}
      PROVE  ProfilesApart(p, tx, q, profileTx[q]) /\ ProfilesApart(q, profileTx[q], p, tx)
  BY <1>1 DEF ProfileInv, ProfilesApart
<1>4. QED  BY <1>1, <1>2, <1>3, ProfileStepKeeps

LEMMA ProfileListKeeps ==
    ASSUME ProfileInv, NEW p \in ProfileBackfills, ProfileList(p)
    PROVE  ProfileInv'
<1> DEFINE left == {u \in User : users[u] # Nothing /\ u > profileMark}
           batch == {u \in left : Cardinality({v \in left : v < u}) < UserBatch}
           listed == [u \in User |-> IF u \in batch THEN users[u] ELSE Nothing]
           tx == [NoLogin EXCEPT !.at = "seeding", !.todo = batch, !.last = profileMark,
                                 !.listed = listed]
<1>1. ProfileStep(p, tx)  BY DEF ProfileList
<1>2. batch \subseteq User /\ \A u \in batch : users[u] # Nothing
  OBVIOUS
<1> HIDE DEF batch
<1>3. /\ listed \in [User -> Profile \cup {Nothing}] /\ profileMark \in Nat
      /\ \A u \in batch : listed[u] = users[u]
  BY <1>2 DEF ProfileInv, ProfileTypeOK
<1> HIDE DEF listed
<1>4. /\ tx \in ProfileTransaction /\ tx.at = "seeding" /\ tx.staged = {}
      /\ tx.todo = batch /\ tx.listed = listed
  BY <1>2, <1>3 DEF NoLogin, ProfileTransaction
<1> HIDE DEF tx
<1>5. SeedInv(tx)  BY <1>2, <1>3, <1>4 DEF SeedInv
<1>6. QED  BY <1>1, <1>4, <1>5, SeedQuietStep

LEMMA SeedUserIs ==
    ASSUME ProfileInv, NEW p \in ProfileBackfills, profileTx[p].todo # {}
    PROVE  SeedUser(p) \in profileTx[p].todo /\ SeedUser(p) \in User /\ SeedUser(p) \in Nat
<1>1. profileTx[p].todo \in SUBSET User
  BY DEF ProfileInv, ProfileTypeOK, ProfileProcess, ProfileTransaction
<1>2. profileTx[p].todo \in SUBSET Nat  BY <1>1, ProfileAssumption
<1>3. QED  BY <1>1, <1>2, MinIs DEF SeedUser

(* Passing over a user.                                                    *)
LEMMA UserSeededIs ==
    ASSUME ProfileInv, NEW p \in ProfileBackfills, profileTx[p].todo # {},
           profileTx[p].at \in {"seeding", "seed"}
    PROVE  /\ UserSeeded(p) \in ProfileTransaction /\ SeedInv(UserSeeded(p))
           /\ UserSeeded(p).staged = profileTx[p].staged
           /\ UserSeeded(p).todo = profileTx[p].todo \ {SeedUser(p)}
           /\ UserSeeded(p).listed = profileTx[p].listed
           /\ UserSeeded(p).at = "seeding"
<1> PICK old : old = profileTx[p]  OBVIOUS
<1> PICK u : u = SeedUser(p)  OBVIOUS
<1> PICK tx : tx = UserSeeded(p)  OBVIOUS
<1>1. old \in ProfileTransaction /\ SeedInv(old)
  BY DEF ProfileInv, ProfileTypeOK, ProfileProcess, ProfileTxInv
<1>2. u \in old.todo /\ u \in User /\ u \in Nat  BY SeedUserIs
<1>3. tx = [old EXCEPT !.at = "seeding", !.last = u, !.todo = old.todo \ {u}]
  BY DEF UserSeeded
<1>4. /\ tx \in ProfileTransaction /\ tx.at = "seeding" /\ tx.todo = old.todo \ {u}
      /\ tx.staged = old.staged /\ tx.listed = old.listed
  <2>1. old.todo \ {u} \in SUBSET User  BY <1>1 DEF ProfileTransaction
  <2>2. PICK left \in SUBSET User : left = old.todo \ {u}  BY <2>1
  <2>3. tx = [old EXCEPT !.at = "seeding", !.last = u, !.todo = left]  BY <1>3, <2>2
  <2>4. QED  BY <1>1, <1>2, <2>2, <2>3 DEF ProfileTransaction
<1>5. SeedInv(tx)  BY <1>1, <1>4 DEF SeedInv
<1>6. QED  BY <1>4, <1>5

LEMMA ProfileLoadKeeps ==
    ASSUME ProfileInv, NEW p \in ProfileBackfills, ProfileLoad(p)
    PROVE  ProfileInv'
<1> PICK old : old = profileTx[p]  OBVIOUS
<1> DEFINE tx == [old EXCEPT !.at = "seed"]
<1>1. old \in ProfileTransaction /\ SeedInv(old) /\ old.at = "seeding" /\ old.todo # {}
  BY DEF ProfileLoad, ProfileInv, ProfileTypeOK, ProfileProcess, ProfileTxInv
<1>2. /\ tx \in ProfileTransaction /\ tx.at = "seed" /\ tx.todo = old.todo
      /\ tx.staged = old.staged /\ tx.listed = old.listed
  BY <1>1 DEF ProfileTransaction
<1>3. ProfileStep(p, tx) \/ ProfileStep(p, UserSeeded(p))
  BY DEF ProfileLoad
<1> HIDE DEF tx
<1>4. SeedInv(tx)  BY <1>1, <1>2 DEF SeedInv
<1>5. CASE ProfileStep(p, tx)  BY <1>2, <1>4, <1>5, SeedQuietStep
<1>6. CASE ProfileStep(p, UserSeeded(p))  BY <1>1, <1>6, UserSeededIs, SeedQuietStep
<1>7. QED  BY <1>3, <1>5, <1>6

LEMMA ProfileSeedKeeps ==
    ASSUME ProfileInv, NEW p \in ProfileBackfills, ProfileSeed(p)
    PROVE  ProfileInv'
<1> PICK old : old = profileTx[p]  OBVIOUS
<1> PICK u : u = SeedUser(p)  OBVIOUS
<1> PICK next : next = UserSeeded(p)  OBVIOUS
<1> PICK seed : seed = ProfileFact(u, 1, old.listed[u], TRUE)  OBVIOUS
<1> PICK tx : tx = [next EXCEPT !.staged = old.staged \cup {seed}]  OBVIOUS
<1>1. p \in ProfileProcess /\ p \notin OAuthLogins
  BY ProfileAssumption DEF ProfileProcess
<1>2. old \in ProfileTransaction /\ SeedInv(old) /\ old.at = "seed" /\ old.todo # {}
  BY <1>1 DEF ProfileSeed, SeedReady, ProfileInv, ProfileTypeOK, ProfileTxInv, SeedInv
<1>3. u \in old.todo /\ u \in User  BY <1>2, SeedUserIs
<1>4. /\ next \in ProfileTransaction /\ SeedInv(next) /\ next.staged = old.staged
      /\ next.todo = old.todo \ {u} /\ next.listed = old.listed /\ next.at = "seeding"
  BY <1>2, UserSeededIs
<1>5. CASE SeededBefore(p)
  BY <1>2, <1>4, <1>5, SeedQuietStep DEF ProfileSeed
<1>6. CASE ~SeededBefore(p)
  <2>1. ~Taken(u, 1) /\ ~Open(p, u, 1) /\ ProfileStep(p, tx)
    BY <1>4, <1>6 DEF ProfileSeed, SeedReady, SeedSequence, SeedFactOf
  <2>2. ProfileFactsOf(u) = {}  BY <1>3, <2>1 DEF ProfileInv, UserOK
  <2>3. old.listed[u] \in Profile /\ users[u] = old.listed[u]
    BY <1>2, <1>3, <2>2 DEF SeedInv, ProfileTransaction
  <2>4. /\ seed \in ProfileFactSet /\ seed.user = u /\ seed.sequence = 1 /\ seed.profile = users[u]
    BY <1>3, <2>3 DEF ProfileFact, ProfileFactSet
  <2>5. /\ tx \in ProfileTransaction /\ tx.staged = old.staged \cup {seed} /\ tx.todo = next.todo
        /\ tx.listed = next.listed /\ tx.at = next.at
    BY <1>2, <1>4, <2>4, ZenonT(30) DEF ProfileTransaction
  <2>6. \A g \in old.staged : g.user # u
    BY <1>2, <1>3 DEF SeedInv
  <2>7. SeedInv(tx)
    <3>1. tx.staged = old.staged \cup {seed} /\ tx.todo = old.todo \ {u}
      BY <1>4, <2>5
    <3>2. tx.listed = next.listed /\ tx.todo = next.todo /\ tx.at = "seeding"
      BY <1>4, <2>5
    <3>3. \A g \in old.staged : /\ g.user \notin old.todo /\ g.sequence = 1
                                 /\ ProfileFactsOf(g.user) = {} /\ users[g.user] = g.profile
      BY <1>2 DEF SeedInv
    <3>4. \A g, h \in old.staged : g.user = h.user => g = h
      BY <1>2 DEF SeedInv
    <3>5. ProfileFactsOf(seed.user) = {} /\ users[seed.user] = seed.profile
      BY <2>2, <2>4
    <3>6. \A g \in tx.staged : /\ g.user \notin tx.todo /\ g.sequence = 1
                                /\ ProfileFactsOf(g.user) = {} /\ users[g.user] = g.profile
      BY <2>4, <3>1, <3>3, <3>5
    <3>7. \A g, h \in tx.staged : g.user = h.user => g = h
      <4>1. seed.user = u  BY <2>4
      <4>2. \A g \in old.staged : g.user # seed.user  BY <2>6, <4>1
      <4>3. QED  BY <3>1, <3>4, <4>2
    <3>8. \A v \in tx.todo :
             tx.listed[v] # Nothing /\ (ProfileFactsOf(v) = {} => users[v] = tx.listed[v])
      BY <1>4, <3>2 DEF SeedInv
    <3>9. QED  BY <3>2, <3>6, <3>7, <3>8 DEF SeedInv
  <2>8. ASSUME NEW q \in ProfileProcess \ {p}
        PROVE  ProfilesApart(p, tx, q, profileTx[q]) /\ ProfilesApart(q, profileTx[q], p, tx)
    <3>1. \A g \in profileTx[q].staged : g.user # u
      <4>1. q \in OAuthLogins => profileTx[q].staged = {}
        BY DEF ProfileInv, ProfileTxInv, OAuthInv
      <4>2. q \in ProfileBackfills => SeedInv(profileTx[q])
        BY DEF ProfileInv, ProfileTxInv
      <4>3. QED  BY <2>1, <4>1, <4>2 DEF Open, SeedInv, ProfileProcess
    <3>2. ProfilesApart(p, old, q, profileTx[q]) /\ ProfilesApart(q, profileTx[q], p, old)
      BY <1>1 DEF ProfileInv
    <3>3. p \notin OAuthLogins /\ seed.user = u /\ tx.staged = old.staged \cup {seed}
      BY <1>1, <2>4, <2>5
    <3>4. QED  BY <3>1, <3>2, <3>3 DEF ProfilesApart
  <2>9. ProfileTxInv(p, tx)  BY <1>1, <2>7 DEF ProfileTxInv
  <2>10. QED  BY <1>1, <2>1, <2>5, <2>8, <2>9, ProfileStepKeeps
<1>7. QED  BY <1>5, <1>6

(* A batch commits: its users had no facts, and their rows are as listed.  *)
LEMMA ProfileCommitKeeps ==
    ASSUME ProfileInv, NEW p \in ProfileBackfills, ProfileCommit(p)
    PROVE  ProfileInv'
<1> PICK old : old = profileTx[p]  OBVIOUS
<1> PICK tx : tx = [NoLogin EXCEPT !.at = "marking", !.last = old.last]  OBVIOUS
<1>1. p \in ProfileProcess /\ p \notin OAuthLogins
  BY ProfileAssumption DEF ProfileProcess
<1>2. /\ old \in ProfileTransaction /\ SeedInv(old) /\ users' = users /\ userOf' = userOf
      /\ profileFacts' = profileFacts \cup old.staged /\ profileMark' = profileMark
      /\ profileTx' = [profileTx EXCEPT ![p] = tx]
  BY <1>1 DEF ProfileCommit, ProfileMove, ProfileInv, ProfileTypeOK, ProfileTxInv
<1>3. tx \in ProfileTransaction /\ tx.at = "marking" /\ tx.staged = {} /\ tx.todo = {}
  BY <1>2 DEF NoLogin, ProfileTransaction
<1>4. /\ profileTx'[p] = tx
      /\ \A q \in ProfileProcess \ {p} : profileTx'[q] = profileTx[q]
  BY <1>1, <1>2 DEF ProfileInv, ProfileTypeOK
<1>5. ProfileTypeOK'
  BY <1>2, <1>3 DEF ProfileInv, ProfileTypeOK, ProfileTransaction
<1>6. \A f \in old.staged : /\ f \in ProfileFactSet /\ f.user \in User /\ f.sequence = 1
                            /\ ProfileFactsOf(f.user) = {} /\ users[f.user] = f.profile
  BY <1>2 DEF SeedInv, ProfileTransaction, ProfileFactSet
<1>7. ASSUME NEW v \in User PROVE UserOK(v)'
  <2>1. CASE \E f \in old.staged : f.user = v
    <3>1. PICK f \in old.staged : f.user = v  BY <2>1
    <3>2. ProfileFactsOf(v)' = {f}
      BY <1>2, <1>6, <3>1 DEF ProfileFactsOf, SeedInv
    <3>3. f.profile \in Profile  BY <1>6 DEF ProfileFactSet
    <3>4. QED  BY <1>2, <1>6, <3>1, <3>2, <3>3, ProfileAssumption DEF UserOK, Taken
  <2>2. CASE ~\E f \in old.staged : f.user = v
    <3>1. ProfileFactsOf(v)' = ProfileFactsOf(v)
      BY <1>2, <2>2 DEF ProfileFactsOf
    <3>2. QED  BY <1>2, <3>1 DEF ProfileInv, UserOK, Taken
  <2>3. QED  BY <2>1, <2>2
<1>8. \A f, g \in profileFacts' : f.user = g.user /\ f.sequence = g.sequence => f = g
  <2>1. \A f \in old.staged, g \in profileFacts : f.user # g.user
    BY <1>6 DEF ProfileFactsOf
  <2>2. QED  BY <1>2, <2>1 DEF ProfileInv, SeedInv
<1>9. ASSUME NEW q \in ProfileProcess PROVE ProfileTxInv(q, profileTx[q])'
  <2>1. CASE q = p
    BY <1>1, <1>3, <1>4, <2>1 DEF ProfileTxInv, SeedInv
  <2>2. CASE q # p
    <3> PICK ux : ux = profileTx[q]  OBVIOUS
    <3>1. /\ ux \in ProfileTransaction /\ ProfileTxInv(q, ux) /\ profileTx'[q] = ux
          /\ ProfilesApart(q, ux, p, old)
      BY <1>1, <1>4, <2>2 DEF ProfileInv, ProfileTypeOK
    <3>2. ASSUME q \in OAuthLogins PROVE OAuthInv(profileTx[q])'
      <4>1. OAuthInv(ux)  BY <3>1, <3>2 DEF ProfileTxInv
      <4>2. ux.at = "numbered" /\ ux.sequence # 1 =>
               /\ ProfileFactsOf(ux.user)' # {}
               /\ \A f \in ProfileFactsOf(ux.user)' : f.sequence < ux.sequence
        <5> SUFFICES ASSUME ux.at = "numbered", ux.sequence # 1
                     PROVE  /\ ProfileFactsOf(ux.user)' # {}
                            /\ \A f \in ProfileFactsOf(ux.user)' : f.sequence < ux.sequence
          OBVIOUS
        <5>1. \A f \in old.staged : f.user # ux.user
          BY <1>6, <4>1 DEF OAuthInv
        <5>2. QED  BY <1>2, <4>1, <5>1 DEF OAuthInv, ProfileFactsOf
      <4>3. QED  BY <3>1, <4>1, <4>2 DEF OAuthInv
    <3>3. ASSUME q \in ProfileBackfills PROVE SeedInv(profileTx[q])'
      <4>1. SeedInv(ux)  BY <3>1, <3>3 DEF ProfileTxInv
      <4>2. \A v \in ux.todo :
               /\ ux.listed[v] # Nothing
               /\ ProfileFactsOf(v)' = {} => users'[v] = ux.listed[v]
        BY <1>2, <4>1 DEF SeedInv, ProfileFactsOf
      <4>3. \A f \in ux.staged :
               /\ f.user \notin ux.todo /\ f.sequence = 1
               /\ ProfileFactsOf(f.user)' = {} /\ users'[f.user] = f.profile
        <5> SUFFICES ASSUME NEW f \in ux.staged
                     PROVE  ProfileFactsOf(f.user)' = {} /\ users'[f.user] = f.profile
          BY <4>1 DEF SeedInv
        <5>1. \A g \in old.staged : g.user # f.user
          BY <3>1 DEF ProfilesApart
        <5>2. QED  BY <1>2, <4>1, <5>1 DEF SeedInv, ProfileFactsOf
      <4>4. QED  BY <3>1, <4>1, <4>2, <4>3 DEF SeedInv
    <3>4. QED  BY <3>2, <3>3 DEF ProfileTxInv
  <2>3. QED  BY <2>1, <2>2
<1>10. ASSUME NEW q \in ProfileProcess, NEW r \in ProfileProcess, q # r
       PROVE  ProfilesApart(q, profileTx[q], r, profileTx[r])'
  <2>1. ProfilesApart(q, profileTx'[q], r, profileTx'[r])
    <3>1. ProfilesApart(q, profileTx[q], r, profileTx[r])  BY <1>10 DEF ProfileInv
    <3>2. CASE q = p  BY <1>1, <1>3, <1>4, <3>2 DEF ProfilesApart
    <3>3. CASE r = p  BY <1>1, <1>3, <1>4, <3>3 DEF ProfilesApart
    <3>4. CASE q # p /\ r # p  BY <1>4, <3>1, <3>4
    <3>5. QED  BY <3>2, <3>3, <3>4
  <2>2. QED  BY <2>1 DEF ProfilesApart, Locked
<1>11. QED  BY <1>5, <1>7, <1>8, <1>9, <1>10 DEF ProfileInv

LEMMA ProfileMarkKeeps ==
    ASSUME ProfileInv, NEW p \in ProfileBackfills, ProfileMark(p)
    PROVE  ProfileInv'
<1>1. p \in ProfileProcess /\ profileTx[p] \in ProfileTransaction
  BY DEF ProfileInv, ProfileTypeOK, ProfileProcess
<1>2. /\ users' = users /\ userOf' = userOf /\ profileFacts' = profileFacts
      /\ profileTx' = [profileTx EXCEPT ![p] = NoLogin] /\ profileMark' \in Nat
  BY <1>1 DEF ProfileMark, ProfileMove, ProfileTransaction
<1>3. /\ profileTx'[p] = NoLogin
      /\ \A q \in ProfileProcess \ {p} : profileTx'[q] = profileTx[q]
  BY <1>1, <1>2 DEF ProfileInv, ProfileTypeOK
<1>4. ProfileTypeOK'  BY <1>2, NoLoginType DEF ProfileInv, ProfileTypeOK
<1>5. \A u \in User : UserOK(u)'
  BY <1>2 DEF ProfileInv, UserOK, ProfileFactsOf, Taken
<1>6. \A f, g \in profileFacts' : f.user = g.user /\ f.sequence = g.sequence => f = g
  BY <1>2 DEF ProfileInv
<1>7. \A q \in ProfileProcess : ProfileTxInv(q, NoLogin) /\ ProfileTxInv(q, profileTx[q])
  BY NoLoginOK DEF ProfileInv
<1>8. \A q \in ProfileProcess : ProfileTxInv(q, profileTx[q])'
  BY <1>2, <1>3, <1>7 DEF ProfileTxInv, OAuthInv, SeedInv, ProfileFactsOf
<1>9. ASSUME NEW q \in ProfileProcess, NEW r \in ProfileProcess, q # r
      PROVE  ProfilesApart(q, profileTx[q], r, profileTx[r])'
  <2>1. ProfilesApart(q, profileTx'[q], r, profileTx'[r])
    BY <1>3, <1>9, NoLoginOK DEF ProfileInv
  <2>2. QED  BY <2>1 DEF ProfilesApart, Locked
<1>10. QED  BY <1>4, <1>5, <1>6, <1>8, <1>9 DEF ProfileInv

LEMMA ProfileUnchanged ==
    ASSUME ProfileInv, UNCHANGED profileVars
    PROVE  ProfileInv'
BY DEF ProfileInv, profileVars, ProfileTypeOK, UserOK, ProfileFactsOf, Taken, ProfileTxInv,
       OAuthInv, SeedInv, ProfilesApart, Locked

LEMMA ProfileNextKeeps == ProfileInv /\ [ProfileNext]_profileVars => ProfileInv'
<1> SUFFICES ASSUME ProfileInv, [ProfileNext]_profileVars PROVE ProfileInv'
  OBVIOUS
<1>1. ASSUME NEW p \in OAuthLogins, OAuthStep(p) PROVE ProfileInv'
  <2>1. ASSUME AccountTaken(p) \/ LoginFails(p) PROVE ProfileInv'
    BY <2>1, ProfileIdleKeeps DEF AccountTaken, LoginFails, ProfileProcess
  <2>2. QED
    BY <1>1, <2>1, LoginReadsKeeps, LoginInsertsKeeps, ProfileUpdateKeeps, ProfileNumberKeeps,
       ProfileInsertKeeps DEF OAuthStep
<1>2. ASSUME NEW p \in ProfileBackfills, ProfileBackfillStep(p) PROVE ProfileInv'
  <2>1. ASSUME ProfileSeedFails(p) PROVE ProfileInv'
    BY <2>1, ProfileIdleKeeps DEF ProfileSeedFails, ProfileProcess
  <2>2. QED
    BY <1>2, <2>1, ProfileListKeeps, ProfileLoadKeeps, ProfileSeedKeeps, ProfileCommitKeeps,
       ProfileMarkKeeps DEF ProfileBackfillStep
<1>3. QED  BY <1>1, <1>2, ProfileUnchanged DEF ProfileNext

(* The latest fact of a user reproduces the row, whichever logins and      *)
(* backfills wrote beside each other (CheckParity of the profile store).   *)
THEOREM LatestProfile == ProfileSpec => []LatestFactIsTheRow
<1>1. ASSUME ProfileInv PROVE LatestFactIsTheRow
  <2> SUFFICES ASSUME NEW u \in User, ProfileFactsOf(u) # {}
               PROVE  LastProfileFact(u).profile = users[u]
    BY DEF LatestFactIsTheRow
  <2>1. PICK f \in ProfileFactsOf(u) : /\ \A g \in ProfileFactsOf(u) : g.sequence <= f.sequence
                                       /\ f.profile = users[u]
    BY <1>1 DEF ProfileInv, UserOK
  <2>2. /\ LastProfileFact(u) \in ProfileFactsOf(u)
        /\ \A g \in ProfileFactsOf(u) : g.sequence <= LastProfileFact(u).sequence
    BY <2>1 DEF LastProfileFact
  <2>3. \A g \in ProfileFactsOf(u) : g.sequence \in Nat /\ g.user = u /\ g \in profileFacts
    BY <1>1 DEF ProfileInv, ProfileTypeOK, ProfileFactsOf, ProfileFactSet
  <2>4. LastProfileFact(u).sequence = f.sequence
    BY <2>1, <2>2, <2>3
  <2>5. LastProfileFact(u) = f
    BY <1>1, <2>2, <2>3, <2>4 DEF ProfileInv
  <2>6. QED  BY <2>1, <2>5
<1>2. QED  BY <1>1, ProfileInitOK, ProfileNextKeeps, PTL DEF ProfileSpec
=============================================================================
