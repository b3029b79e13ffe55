----------------------------- MODULE ThemeLabels -----------------------------
(***************************************************************************)
(* What the theme cache remembers from one factorisation to the next: the  *)
(* identities of the themes, and a label for each identity. Under its      *)
(* mutex a computation gives every new theme the identity of the old theme *)
(* it is most like, or mints one, and labels the themes that are new or    *)
(* have drifted with their top tags. A job per new label then asks a model *)
(* for a better name and comes back, under the mutex, at any time later.   *)
(*                                                                         *)
(* A theme's row of tag loadings is a number, and themes are the more      *)
(* alike the closer their numbers are. Descriptions and previous labels go *)
(* with the labels. The guard against a second job for the same label      *)
(* never refuses one, since every job is for a new generation.             *)
(***************************************************************************)
EXTENDS Integers, Sequences, FiniteSetsExt, Functions

CONSTANTS
    Row,         \* rows a theme can have, integers
    MaxThemes,   \* bound: themes of a factorisation
    MaxId,       \* bound: identities minted
    MaxGen       \* bound: generations of a label

ASSUME ThemesAssumption ==
    /\ Row \subseteq Int
    /\ {MaxThemes, MaxId, MaxGen} \subseteq Nat \ {0}

VARIABLES
    identified,  \* the latest themes with their identities, in their order
    counter,     \* identities minted so far
    label,       \* label[id]: its text, the row it was given for, its generation
    shown,       \* the labels in the cached result; <<>> if that has no themes
    jobs         \* labelling jobs that run

themeVars == <<identified, counter, label, shown, jobs>>

(* Labels: the top tags of a row, or a name the model made from them.      *)
Fallback(r) == [by |-> "tags", of |-> r]
Named(r) == [by |-> "model", of |-> r]

(* The cosine of two rows, in percent; 60 and 50 are the code's thresholds. *)
Cosine(a, b) ==
    CASE a = b -> 100
      [] a - b \in {1, -1} -> 70
      [] a - b \in {2, -2} -> 30
      [] OTHER -> 0
Matches(a, b) == Cosine(a, b) >= 60
Drifted(a, b) == Cosine(a, b) < 50

(* The assignments of new themes to old ones (0: to none) that are one to  *)
(* one and of the greatest total likeness. Which of several the solver     *)
(* takes is left open.                                                     *)
Assignments(rows) ==
    {f \in [DOMAIN rows -> {0} \cup DOMAIN identified] :
        \A i, j \in DOMAIN rows : i # j /\ f[i] = f[j] => f[i] = 0}
Likeness(rows, f) ==
    FoldFunction(+, 0, [i \in DOMAIN rows |->
                            IF f[i] = 0 THEN 0 ELSE Cosine(rows[i], identified[f[i]].row)])
Best(rows) ==
    {f \in Assignments(rows) :
        \A g \in Assignments(rows) : Likeness(rows, g) <= Likeness(rows, f)}

Keeps(rows, f, i) == f[i] # 0 /\ Matches(rows[i], identified[f[i]].row)

(* The identities that an assignment gives: kept ones, or the next minted. *)
Identify(rows, f) ==
    [i \in DOMAIN rows |->
        [row |-> rows[i],
         id |-> IF Keeps(rows, f, i)
                  THEN identified[f[i]].id
                  ELSE counter + Cardinality({k \in 1 .. i : ~Keeps(rows, f, k)})]]

(* Mint, relabel or keep. *)
Labelled(t) ==
    IF t.id \notin DOMAIN label
      THEN [text |-> Fallback(t.row), for |-> t.row, gen |-> 1]
      ELSE IF Drifted(label[t.id].for, t.row)
             THEN [text |-> Fallback(t.row), for |-> t.row, gen |-> label[t.id].gen + 1]
             ELSE label[t.id]

-----------------------------------------------------------------------------
(* A factorisation, for a new revision or for a caller with an older one. *)
Factorise(rows) ==
    \E f \in Best(rows) :
        LET new == Identify(rows, f)
            byId == [id \in {t.id : t \in Range(new)} |->
                        Labelled(CHOOSE t \in Range(new) : t.id = id)]
            minted == Cardinality({i \in DOMAIN rows : ~Keeps(rows, f, i)})
            fresh == {id \in DOMAIN byId : id \notin DOMAIN label \/ byId[id] # label[id]}
        IN
        /\ counter + minted <= MaxId
        /\ \A id \in DOMAIN byId : byId[id].gen <= MaxGen
        /\ identified' = new
        /\ counter' = counter + minted
        /\ label' = [id \in DOMAIN byId \cup DOMAIN label |->
                        IF id \in DOMAIN byId THEN byId[id] ELSE label[id]]
        /\ jobs' = jobs \cup {[id |-> id, gen |-> byId[id].gen, row |-> byId[id].for] : id \in fresh}
        /\ shown' = [id \in DOMAIN byId |-> byId[id].text]

(* No decomposition, or too few issues: there is no result, and identities *)
(* and labels wait for the next one.                                       *)
NotAvailable ==
    /\ shown' = <<>>
    /\ UNCHANGED <<identified, counter, label, jobs>>

(* Mutants of the definition below. *)
StillWantedById(j) == j.id \in DOMAIN label

StillWanted(j) == j.id \in DOMAIN label /\ label[j.id].gen = j.gen

(* A job comes back with a name, or with none. *)
JobReturns(j) ==
    /\ j \in jobs
    /\ jobs' = jobs \ {j}
    /\ \/ UNCHANGED <<label, shown>>
       \/ /\ StillWanted(j)
          /\ label' = [label EXCEPT ![j.id].text = Named(j.row)]
          /\ shown' = [id \in DOMAIN shown |-> label'[id].text]
    /\ UNCHANGED <<identified, counter>>

-----------------------------------------------------------------------------
ThemesInit ==
    /\ identified = <<>>
    /\ counter = 0
    /\ label = <<>>
    /\ shown = <<>>
    /\ jobs = {}

Factorisations == UNION {[1 .. n -> Row] : n \in 1 .. MaxThemes}

ThemesNext ==
    \/ \E rows \in Factorisations : Factorise(rows)
    \/ NotAvailable
    \/ \E j \in jobs : JobReturns(j)

ThemesSpec == ThemesInit /\ [][ThemesNext]_themeVars

-----------------------------------------------------------------------------
(* Themes have identities of their own, and each shows a label made from   *)
(* tags it has not drifted from, whichever jobs come back and when: "a job *)
(* racing a newer relabel is discarded instead of clobbering the fresher   *)
(* label" (themes/labeling.go:96-99), and a name that comes back is shown  *)
(* at once, without a new computation.                                     *)
LabelsAreCurrent ==
    /\ \A id \in DOMAIN label : label[id].text.of = label[id].for
    /\ \A i, j \in DOMAIN identified : identified[i].id = identified[j].id => i = j
    /\ shown # <<>> =>
           \A t \in Range(identified) :
               /\ shown[t.id] = label[t.id].text
               /\ ~Drifted(shown[t.id].of, t.row)
=============================================================================
