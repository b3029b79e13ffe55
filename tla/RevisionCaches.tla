--------------------------- MODULE RevisionCaches ---------------------------
(***************************************************************************)
(* The results kept by corpus revision: tag cooccurrence, corpus means,    *)
(* the ridge penalty and decomposition, themes and regions in the memory   *)
(* of the process, and the map projection in a table that outlives it. A   *)
(* caller reads the revision, looks for a result of that revision, and     *)
(* otherwise computes one from the store and from other caches and keeps   *)
(* it under the revision it began with. Meanwhile writes commit, bump the  *)
(* revision and, if they change the layout, delete the stored maps.        *)
(*                                                                         *)
(* The corpus is a number, its version: it goes up by one with each commit *)
(* that any cache depends on. A result is the oldest version read for it.  *)
(***************************************************************************)
EXTENDS Integers, Sequences, FiniteSetsExt

CONSTANTS
    Callers,      \* requests in flight
    NoCaller,     \* computes under a mutex when it is free
    Asked,        \* the caches requests ask by themselves
    MaxVersion,   \* bound: the last version of the corpus
    MaxStarts     \* bound: starts of the process

VARIABLES
    corpus,       \* the version of the corpus, 1 at first
    writing,      \* writes that have committed and whose request still runs
    bumped,       \* versions whose write this process has bumped the revision for
    invalidated,  \* those whose write has deleted the stored maps afterwards
    base,         \* the version at the start of the process
    starts,       \* how often the process has started
    kept,         \* kept[c][r]: the result that cache c has for revision r, or 0
    inside,       \* inside[c]: who computes under the mutex of c, or NoCaller
    calls         \* calls[g]: the calls g is in, each made by the one before

cacheVars == <<corpus, writing, bumped, invalidated, base, starts, kept, inside, calls>>
corpusVars == <<corpus, writing, bumped, invalidated, base, starts>>

(* What each cache reads to compute a result, in that order: "store" is a  *)
(* read of the database, anything else a call of that cache's Current.     *)
(* Reads of the database in a row count as one: the first is the oldest.   *)
Inputs ==
    [ cooccurrence |-> <<"store">>,
      means        |-> <<"store">>,
      lambda       |-> <<"store", "means">>,
      decomp       |-> <<"store", "lambda", "means">>,
      themes       |-> <<"decomp", "store">>,
      map          |-> <<"store">>,
      regions      |-> <<"store", "map">> ]

Caches == DOMAIN Inputs

(* Computations that may find the corpus too small, or the cache before    *)
(* them without a result, and keep "not available" after so many inputs.   *)
NotAvailableAfter ==
    [c \in Caches |-> CASE c = "lambda" -> {1}
                        [] c = "decomp" -> {1, 2}
                        [] c = "themes" -> {1}
                        [] OTHER -> {}]

(* Caches whose mutex is held while they compute. *)
SingleFlight == {"decomp", "themes", "map"}

ASSUME CachesAssumption ==
    /\ NoCaller \notin Callers
    /\ Asked \subseteq Caches
    /\ MaxVersion \in Nat \ {0}
    /\ MaxStarts \in Nat \ {0}

Revision == 1 + Cardinality(bumped)
Revisions == 1 .. MaxVersion
Nothing == [r \in Revisions |-> 0]

(* What a result asked for now must cover: the writes bumped before. But   *)
(* stored maps outlive a process, whose successor counts revisions from 1  *)
(* again and takes a row of the same number for its own. Of those rows     *)
(* only the ones are gone that a write of this process has deleted, and    *)
(* regions of clusters keep in memory what they took from such a row.      *)
Promised(c) ==
    CASE base # 1 /\ c = "map" -> Max({1} \cup invalidated)
      [] base # 1 /\ c = "regions" -> 1
      [] OTHER -> Max({base} \cup bumped)

Idle(g) == calls[g] # <<>> => calls[g][1].at = "done"
Top(g) == calls[g][Len(calls[g])]
Hit(f) == kept[f.cache][f.revision] # 0

Call(c) == [cache |-> c, revision |-> Revision, need |-> Promised(c),
            at |-> IF c = "map" THEN "probe" ELSE "look", read |-> 0, oldest |-> MaxVersion]

Move(g, f) == calls' = [calls EXCEPT ![g][Len(calls[g])] = f]

(* The innermost call of g returns a result made from version v. *)
Return(g, v) ==
    LET n == Len(calls[g])
        answered == [Top(g) EXCEPT !.at = "done", !.oldest = v, !.read = 0, !.revision = 1]
        goesOn == [calls[g][n - 1] EXCEPT !.oldest = Min({@, v}), !.read = @ + 1]
    IN calls' = [calls EXCEPT ![g] =
           IF n = 1 THEN <<answered>>
                    ELSE [SubSeq(calls[g], 1, n - 1) EXCEPT ![n - 1] = goesOn]]

-----------------------------------------------------------------------------
(* Writes. *)

Commit(layout) ==
    /\ corpus < MaxVersion
    /\ corpus' = corpus + 1
    /\ writing' = writing \cup {[version |-> corpus + 1, layout |-> layout, bumped |-> FALSE]}
    /\ UNCHANGED <<bumped, invalidated, base, starts, kept, inside, calls>>

Bump(w) ==
    /\ w \in writing /\ ~w.bumped
    /\ bumped' = bumped \cup {w.version}
    /\ writing' = (writing \ {w}) \cup (IF w.layout THEN {[w EXCEPT !.bumped = TRUE]} ELSE {})
    /\ UNCHANGED <<corpus, invalidated, base, starts, kept, inside, calls>>

(* The listener of the write's event, or the worker, deletes the maps; if  *)
(* that fails it is logged.                                                *)
InvalidateMaps(w) ==
    /\ w \in writing /\ w.bumped
    /\ writing' = writing \ {w}
    /\ \/ /\ kept' = [kept EXCEPT !["map"] = Nothing]
          /\ invalidated' = invalidated \cup {w.version}
       \/ UNCHANGED <<kept, invalidated>>
    /\ UNCHANGED <<corpus, bumped, base, starts, inside, calls>>

-----------------------------------------------------------------------------
(* Calls. *)

Ask(g, c) ==
    /\ Idle(g)
    /\ calls' = [calls EXCEPT ![g] = <<Call(c)>>]
    /\ UNCHANGED <<corpusVars, kept, inside>>

Busy(g, at) == ~Idle(g) /\ Top(g).at = at

(* The map loader looks for the row once before it waits for the mutex. *)
Probe(g) ==
    /\ Busy(g, "probe")
    /\ IF Hit(Top(g)) THEN Return(g, kept["map"][Top(g).revision])
                      ELSE Move(g, [Top(g) EXCEPT !.at = "look"])
    /\ UNCHANGED <<corpusVars, kept, inside>>

Look(g) ==
    LET f == Top(g) IN
    /\ Busy(g, "look")
    /\ inside[f.cache] = NoCaller
    /\ \/ /\ Hit(f)
          /\ Return(g, kept[f.cache][f.revision])
          /\ UNCHANGED inside
       \/ /\ ~Hit(f)
          /\ Move(g, [f EXCEPT !.at = "compute"])
          /\ inside' = IF f.cache \in SingleFlight THEN [inside EXCEPT ![f.cache] = g] ELSE inside
    /\ UNCHANGED <<corpusVars, kept>>

Wants(g, i) ==
    /\ Busy(g, "compute")
    /\ Top(g).read < Len(Inputs[Top(g).cache])
    /\ i = Inputs[Top(g).cache][Top(g).read + 1]

ReadStore(g) ==
    /\ Wants(g, "store")
    /\ Move(g, [Top(g) EXCEPT !.read = @ + 1, !.oldest = Min({@, corpus})])
    /\ UNCHANGED <<corpusVars, kept, inside>>

AskCache(g, c) ==
    /\ Wants(g, c)
    /\ calls' = [calls EXCEPT ![g] = Append(@, [Call(c) EXCEPT !.need = 1])]
    /\ UNCHANGED <<corpusVars, kept, inside>>

(* A cache in memory has one result, the table one map for each revision. *)
Others(c) == IF c = "map" THEN kept[c] ELSE Nothing

(* Mutants of the definition below. *)
KeptUnderLatest(f) == [kept EXCEPT ![f.cache] = [Others(f.cache) EXCEPT ![Revision] = f.oldest]]

KeptAfter(f) == [kept EXCEPT ![f.cache] = [Others(f.cache) EXCEPT ![f.revision] = f.oldest]]

Keep(g) ==
    LET f == Top(g) IN
    /\ Busy(g, "compute")
    /\ f.read = Len(Inputs[f.cache]) \/ f.read \in NotAvailableAfter[f.cache]
    /\ kept' = KeptAfter(f)
    /\ inside' = [inside EXCEPT ![f.cache] = NoCaller]
    /\ Return(g, f.oldest)
    /\ UNCHANGED corpusVars

(* An error of the database ends the call and every call it is made for,   *)
(* each of which unlocks and keeps nothing.                                *)
Fail(g) ==
    /\ ~Idle(g)
    /\ Wants(g, "store") \/ Top(g).cache = "map"
    /\ calls' = [calls EXCEPT ![g] = <<>>]
    /\ inside' = [c \in Caches |-> IF inside[c] = g THEN NoCaller ELSE inside[c]]
    /\ UNCHANGED <<corpusVars, kept>>

(* The process dies and starts again: requests and caches are gone, the    *)
(* revision is 1, the table is as it was.                                  *)
StartAgain ==
    /\ starts < MaxStarts
    /\ starts' = starts + 1
    /\ base' = corpus
    /\ writing' = {} /\ bumped' = {} /\ invalidated' = {}
    /\ kept' = [c \in Caches |-> IF c = "map" THEN kept[c] ELSE Nothing]
    /\ inside' = [c \in Caches |-> NoCaller]
    /\ calls' = [g \in Callers |-> <<>>]
    /\ UNCHANGED corpus

-----------------------------------------------------------------------------
CachesInit ==
    /\ corpus = 1 /\ base = 1 /\ starts = 1
    /\ writing = {} /\ bumped = {} /\ invalidated = {}
    /\ kept = [c \in Caches |-> Nothing]
    /\ inside = [c \in Caches |-> NoCaller]
    /\ calls = [g \in Callers |-> <<>>]

CachesNext ==
    \/ \E layout \in BOOLEAN : Commit(layout)
    \/ \E w \in writing : Bump(w) \/ InvalidateMaps(w)
    \/ \E g \in Callers :
           \/ \E c \in Asked : Ask(g, c)
           \/ Probe(g) \/ Look(g) \/ ReadStore(g) \/ Keep(g) \/ Fail(g)
           \/ \E c \in Caches : AskCache(g, c)
    \/ StartAgain

CachesSpec == CachesInit /\ [][CachesNext]_cacheVars

-----------------------------------------------------------------------------
(* "recomputing it when the cache is empty or the revision has bumped"     *)
(* (ridgedecomp/cache.go:81): whatever a request is given, by however many *)
(* caches below, was made from reads that cover every write bumped before  *)
(* the request asked; and a map, or the regions of its clusters, once the  *)
(* process is not the first on this database, every write that has deleted *)
(* the stored maps before it asked.                                        *)
ServedIsFresh ==
    \A g \in Callers :
        calls[g] # <<>> /\ calls[g][1].at = "done" => calls[g][1].oldest >= calls[g][1].need
=============================================================================
