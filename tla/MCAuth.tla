------------------------------- MODULE MCAuth -------------------------------
(* Model checking instance of the three stores of the auth package. They   *)
(* share no state, so only one of them leaves its initial state in a       *)
(* behaviour.                                                              *)
EXTENDS Sessions, APITokens, UserProfiles, TLC

VARIABLE store

AuthInit ==
    /\ store \in {"sessions", "tokens", "profiles"}
    /\ SessionInit /\ TokenInit /\ ProfileInit
    /\ store # "tokens" => \A t \in Token : tokens[t] # "revoked"
    /\ store # "profiles" => \A u \in LegacyUser : users[u] = CHOOSE x \in Profile : TRUE
    /\ \A u \in LegacyUser : userOf[CHOOSE a \in Account : TRUE] = u

AuthNext ==
    /\ UNCHANGED store
    /\ \/ store = "sessions" /\ SessionNext /\ UNCHANGED <<tokenVars, profileVars>>
       \/ store = "tokens" /\ TokenNext /\ UNCHANGED <<sessionVars, profileVars>>
       \/ store = "profiles" /\ ProfileNext /\ UNCHANGED <<sessionVars, tokenVars>>

AuthSpec ==
    /\ AuthInit
    /\ [][AuthNext]_<<store, sessionVars, tokenVars, profileVars>>
    /\ SessionFairness
=============================================================================
