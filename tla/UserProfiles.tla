---------------------------- MODULE UserProfiles ----------------------------
(***************************************************************************)
(* User profiles: the row of users that everything reads, and the facts    *)
(* that say what each login observed of the profile at the provider.       *)
(* Logins of one account run beside each other and beside the backfill,    *)
(* which copies a row it read before its transaction into a first fact.    *)
(* The facts have a unique index on (user, sequence).                      *)
(***************************************************************************)
EXTENDS Integers, FiniteSets, FiniteSetsExt

CONSTANTS
    User,             \* user ids, numbered in their order
    LegacyUser,       \* the users there were before facts were written
    Account,          \* accounts at the provider
    Profile,          \* profiles the provider may report
    OAuthLogins,      \* login requests
    ProfileBackfills, \* runs of the profile-backfill command
    UserBatch,        \* users a backfill batch processes
    ProfileLog,       \* bound: the facts a user may get
    Nothing           \* no user, no account, no profile

ASSUME ProfileAssumption ==
    /\ User \subseteq Nat \ {0} /\ IsFiniteSet(User)
    /\ LegacyUser \subseteq User
    /\ OAuthLogins \cap ProfileBackfills = {}
    /\ UserBatch \in Nat \ {0}
    /\ Nothing \notin Profile \cup User \cup Account

VARIABLES
    users,        \* users[u]: the profile in u's row, if there is one
    userOf,       \* auth_accounts: the user of an account
    profileFacts, \* user_profile_facts: user, sequence, profile, seeded
    profileMark,  \* the cursor in the backfill's checkpoint
    profileTx     \* profileTx[p]: where p is, and its open transaction

profileVars == <<users, userOf, profileFacts, profileMark, profileTx>>

ProfileFact(u, n, x, seeded) ==
    [user |-> u, sequence |-> n, profile |-> x, seeded |-> seeded]
ProfileFactsOf(u) == {f \in profileFacts : f.user = u}

(* at: the next statement; account, user, profile: the login; sequence:    *)
(* what it has numbered; listed, todo, last: the rows a batch listed, the  *)
(* users it has not come to, the last it has; staged: its facts.           *)
NoLogin == [at |-> "idle", account |-> Nothing, user |-> Nothing, profile |-> Nothing,
            sequence |-> 0, listed |-> [u \in User |-> Nothing], todo |-> {}, last |-> 0,
            staged |-> {}]

(* A mutant: a seed that takes the next sequence instead of the first.     *)
SeedNext(u) == Max({f.sequence : f \in ProfileFactsOf(u)} \cup {0}) + 1

ProfileMove(p, tx) == profileTx' = [profileTx EXCEPT ![p] = tx]
ProfileStep(p, tx) ==
    ProfileMove(p, tx) /\ UNCHANGED <<users, userOf, profileFacts, profileMark>>

Open(p, u, n) ==
    \E q \in ProfileBackfills \ {p} : \E f \in profileTx[q].staged :
        f.user = u /\ f.sequence = n
Taken(u, n) == \E f \in ProfileFactsOf(u) : f.sequence = n

-----------------------------------------------------------------------------
(* UpsertOAuthUser. An unchanged profile writes nothing.                   *)

LoginReads(p, a, x) ==
    LET u == userOf[a] IN
    /\ profileTx[p].at = "idle"
    /\ IF u = Nothing
       THEN ProfileStep(p, [NoLogin EXCEPT !.at = "insert", !.account = a, !.profile = x])
       ELSE /\ users[u] # x
            /\ Cardinality(ProfileFactsOf(u)) < ProfileLog
            /\ ProfileStep(p, [NoLogin EXCEPT !.at = "update", !.user = u, !.profile = x])

(* Row, account and first fact: the account is unique, the user is new.    *)
LoginInserts(p, u) ==
    LET tx == profileTx[p] IN
    /\ tx.at = "insert"
    /\ userOf[tx.account] = Nothing
    /\ users[u] = Nothing
    /\ users' = [users EXCEPT ![u] = tx.profile]
    /\ userOf' = [userOf EXCEPT ![tx.account] = u]
    /\ profileFacts' = profileFacts \cup {ProfileFact(u, 1, tx.profile, FALSE)}
    /\ ProfileMove(p, NoLogin)
    /\ UNCHANGED profileMark

AccountTaken(p) ==
    /\ profileTx[p].at = "insert"
    /\ userOf[profileTx[p].account] # Nothing
    /\ ProfileStep(p, NoLogin)

RowFree(p, u) ==
    \A q \in OAuthLogins \ {p} : profileTx[q].user = u => profileTx[q].at = "update"

ProfileUpdate(p) ==
    /\ profileTx[p].at = "update"
    /\ RowFree(p, profileTx[p].user)
    /\ ProfileStep(p, [profileTx[p] EXCEPT !.at = "updated"])

NextProfileSequence(u) == Max({f.sequence : f \in ProfileFactsOf(u)} \cup {0}) + 1

ProfileNumber(p) ==
    LET tx == profileTx[p] IN
    /\ tx.at = "updated"
    /\ ProfileStep(p, [tx EXCEPT !.at = "numbered", !.sequence = NextProfileSequence(tx.user)])

ProfileInsert(p) ==
    LET tx == profileTx[p] IN
    /\ tx.at = "numbered"
    /\ ~Open(p, tx.user, tx.sequence)
    /\ ~Taken(tx.user, tx.sequence)
    /\ users' = [users EXCEPT ![tx.user] = tx.profile]
    /\ profileFacts' = profileFacts
         \cup {ProfileFact(tx.user, tx.sequence, tx.profile, FALSE)}
    /\ ProfileMove(p, NoLogin)
    /\ UNCHANGED <<userOf, profileMark>>

LoginFails(p) ==
    LET tx == profileTx[p] IN
    /\ tx.at = "numbered"
    /\ ~Open(p, tx.user, tx.sequence)
    /\ Taken(tx.user, tx.sequence)
    /\ ProfileStep(p, NoLogin)

OAuthStep(p) ==
    \/ \E a \in Account, x \in Profile : LoginReads(p, a, x)
    \/ \E u \in User : LoginInserts(p, u)
    \/ AccountTaken(p) \/ ProfileUpdate(p) \/ ProfileNumber(p) \/ ProfileInsert(p)
    \/ LoginFails(p)

-----------------------------------------------------------------------------
(* BackfillBatch: a user without any fact gets the row as it was listed.   *)

ProfileList(p) ==
    LET left == {u \in User : users[u] # Nothing /\ u > profileMark}
        batch == {u \in left : Cardinality({v \in left : v < u}) < UserBatch} IN
    /\ profileTx[p].at = "idle"
    /\ ProfileStep(p, [NoLogin EXCEPT !.at = "seeding", !.todo = batch, !.last = profileMark,
                !.listed = [u \in User |-> IF u \in batch THEN users[u] ELSE Nothing]])

SeedUser(p) == Min(profileTx[p].todo)

UserSeeded(p) == [profileTx[p] EXCEPT !.at = "seeding", !.last = SeedUser(p),
                                      !.todo = @ \ {SeedUser(p)}]

ProfileLoad(p) ==
    /\ profileTx[p].at = "seeding" /\ profileTx[p].todo # {}
    /\ ProfileStep(p, IF ProfileFactsOf(SeedUser(p)) = {}
                      THEN [profileTx[p] EXCEPT !.at = "seed"]
                      ELSE UserSeeded(p))

SeedSequence(u) == 1

SeedFactOf(p) ==
    ProfileFact(SeedUser(p), SeedSequence(SeedUser(p)), profileTx[p].listed[SeedUser(p)], TRUE)

SeededBefore(p) == \E f \in ProfileFactsOf(SeedUser(p)) : f.seeded

SeedReady(p) ==
    profileTx[p].at = "seed" /\ ~Open(p, SeedUser(p), SeedSequence(SeedUser(p)))

(* ON CONFLICT DO NOTHING if another run has seeded the user; a login's    *)
(* fact with the same sequence fails the batch.                            *)
ProfileSeed(p) ==
    /\ SeedReady(p)
    /\ IF SeededBefore(p)
       THEN ProfileStep(p, UserSeeded(p))
       ELSE /\ ~Taken(SeedUser(p), SeedSequence(SeedUser(p)))
            /\ ProfileStep(p, [UserSeeded(p) EXCEPT !.staged = @ \cup {SeedFactOf(p)}])

ProfileSeedFails(p) ==
    /\ SeedReady(p)
    /\ ~SeededBefore(p)
    /\ Taken(SeedUser(p), SeedSequence(SeedUser(p)))
    /\ ProfileStep(p, NoLogin)

ProfileCommit(p) ==
    LET tx == profileTx[p] IN
    /\ tx.at = "seeding" /\ tx.todo = {}
    /\ profileFacts' = profileFacts \cup tx.staged
    /\ ProfileMove(p, [NoLogin EXCEPT !.at = "marking", !.last = tx.last])
    /\ UNCHANGED <<users, userOf, profileMark>>

ProfileMark(p) ==
    /\ profileTx[p].at = "marking"
    /\ profileMark' = profileTx[p].last
    /\ ProfileMove(p, NoLogin)
    /\ UNCHANGED <<users, userOf, profileFacts>>

ProfileBackfillStep(p) ==
    \/ ProfileList(p) \/ ProfileLoad(p) \/ ProfileSeed(p) \/ ProfileSeedFails(p)
    \/ ProfileCommit(p) \/ ProfileMark(p)

-----------------------------------------------------------------------------
ProfileInit ==
    /\ users \in [User -> Profile \cup {Nothing}]
    /\ \A u \in User : users[u] # Nothing <=> u \in LegacyUser
    /\ userOf \in [Account -> LegacyUser \cup {Nothing}]
    /\ \A u \in LegacyUser : Cardinality({a \in Account : userOf[a] = u}) = 1
    /\ profileFacts = {}
    /\ profileMark = 0
    /\ profileTx = [p \in OAuthLogins \cup ProfileBackfills |-> NoLogin]

ProfileNext ==
    \/ \E p \in OAuthLogins : OAuthStep(p)
    \/ \E p \in ProfileBackfills : ProfileBackfillStep(p)

ProfileSpec == ProfileInit /\ [][ProfileNext]_profileVars

-----------------------------------------------------------------------------
(* Properties.                                                             *)

LastProfileFact(u) ==
    CHOOSE f \in ProfileFactsOf(u) : \A g \in ProfileFactsOf(u) : g.sequence <= f.sequence

(* CheckParity: the latest fact of a user reproduces the row, whichever    *)
(* logins and backfills wrote beside each other; a backfill must not put   *)
(* the row it read earlier behind what a login has observed since.         *)
LatestFactIsTheRow ==
    \A u \in User : ProfileFactsOf(u) # {} => LastProfileFact(u).profile = users[u]
=============================================================================
