-------------------------- MODULE TagCatalogProofs --------------------------
(***************************************************************************)
(* Theorems about the tag catalog, for any tags, issues, writers and       *)
(* bounds: rows replay their streams, merges stick, backfills keep texts,  *)
(* issues show tags the catalog has.                                       *)
(***************************************************************************)
EXTENDS TagCatalog, FiniteSetTheorems, SequenceTheorems, WellFoundedInduction, TLAPS

-----------------------------------------------------------------------------
(* Induction over a set of naturals.                                       *)

NatLess == {ss \in Nat \X Nat : ss[1] < ss[2]}

LEMMA Lowest ==
    ASSUME NEW T, T \subseteq Nat, T # {}
    PROVE  \E x \in T : \A y \in T : x <= y
<1>1. IsWellFoundedOn(NatLess, Nat)
  BY NatLessThanWellFounded DEF OpToRel, NatLess
<1>2. PICK x \in T : \A y \in T : ~ (<<y, x>> \in NatLess)
  BY <1>1, WFMin
<1>3. \A m, n \in Nat : <<n, m>> \notin NatLess => m <= n
  BY DEF NatLess
<1>4. QED  BY <1>2, <1>3

LEMMA StepByStep ==
    ASSUME NEW T, NEW n \in Nat, 0 \in T, \A k \in 1 .. n : k - 1 \in T => k \in T
    PROVE  \A k \in 0 .. n : k \in T
<1> PICK U : U = {k \in 0 .. n : k \notin T}
  OBVIOUS
<1> U \subseteq Nat
  OBVIOUS
<1>1. CASE U # {}
  <2>1. PICK m \in U : \A k \in U : m <= k
    BY <1>1, Lowest
  <2>2. m \in 1 .. n
    BY <2>1
  <2>3. m - 1 \in 0 .. n /\ m - 1 \notin U
    BY <2>1, <2>2
  <2>4. QED  BY <2>1, <2>2, <2>3
<1>2. CASE U = {}
  BY <1>2
<1>3. QED  BY <1>1, <1>2

-----------------------------------------------------------------------------
(* Rows and events.                                                        *)

Row == [status : {"none", "active", "merged"}, canonical : TagName \cup {NoTag},
        text : Value, score : Value, count : Nat]
Kind == {"observed_state", "upserted", "specificity_updated", "merged"}
Event == [kind : Kind, from : {"live", "legacy", "canonical", "row"}, text : Value,
          score : Value, canonical : TagName \cup {NoTag}, row : Nat]

(* Events of the runtime: only an upsert carries a text and only an update *)
(* a score.                                                                *)
LiveEvent ==
    {e \in Event :
        /\ e.from = "live"
        /\ e.kind # "specificity_updated" => e.score = "none"
        /\ e.kind # "upserted" => e.text = "none"}

LEMMA RowTypes ==
    /\ NoTagRow \in Row /\ FirstRow \in Row
    /\ FirstRow = [status |-> "active", canonical |-> NoTag, text |-> "none",
                   score |-> "none", count |-> 0]
    /\ \A r \in Row : RowOrFirst(r) \in Row /\ RowOrFirst(r).count = r.count
BY DEF NoTagRow, FirstRow, Row, Value, RowOrFirst

RowOf(status, canonical, text, score, count) ==
    [status |-> status, canonical |-> canonical, text |-> text, score |-> score,
     count |-> count]

LEMMA RowIs ==
    ASSUME NEW r \in Row
    PROVE  /\ r = RowOf(r.status, r.canonical, r.text, r.score, r.count)
           /\ r.text \in Value /\ r.score \in Value /\ r.count \in Nat
           /\ \A status \in {r.status, "merged"}, canonical \in TagName \cup {NoTag, r.canonical},
                text \in Value, score \in Value :
                  RowOf(status, canonical, text, score, r.count + 1) \in Row
BY DEF Row, RowOf

LEMMA ReducedRow ==
    ASSUME NEW r \in Row, NEW e \in Event
    PROVE  /\ Reduced(r, e) \in Row
           /\ Reduced(r, e).count = r.count + 1
           /\ e.kind # "merged" =>
                 /\ Reduced(r, e).status = r.status
                 /\ Reduced(r, e).canonical = r.canonical
           /\ e.kind = "merged" =>
                 /\ Reduced(r, e).status = "merged"
                 /\ Reduced(r, e).canonical = e.canonical
           /\ e.text = "none" => Reduced(r, e).text = r.text
           /\ e.score = "none" /\ e.kind # "specificity_updated" =>
                 Reduced(r, e).score = r.score
<1>1. CASE e.kind \in {"observed_state", "upserted"}
  <2>1. Reduced(r, e) = [r EXCEPT !.text = Or(e.text, @), !.score = Or(e.score, @),
                                  !.count = @ + 1]
    BY <1>1 DEF Reduced
  <2>2. Or(e.text, r.text) \in Value /\ Or(e.score, r.score) \in Value
    BY DEF Or, Row, Event
  <2>3. PICK x : x = [r EXCEPT !.text = Or(e.text, @), !.score = Or(e.score, @),
                              !.count = @ + 1]
    OBVIOUS
  <2>4. x = RowOf(r.status, r.canonical, Or(e.text, r.text), Or(e.score, r.score), r.count + 1)
    BY <2>3 DEF Row, RowOf
  <2>5. x \in Row
    BY <2>2, <2>4, RowIs
  <2>6. /\ x.count = r.count + 1 /\ x.status = r.status
        /\ x.canonical = r.canonical /\ x.text = Or(e.text, r.text)
        /\ x.score = Or(e.score, r.score)
    BY <2>4 DEF RowOf
  <2>7. QED  BY <1>1, <2>1, <2>3, <2>5, <2>6 DEF Or
<1>2. CASE e.kind = "specificity_updated"
  <2>1. Reduced(r, e) = [r EXCEPT !.score = e.score, !.count = @ + 1]
    BY <1>2 DEF Reduced
  <2>2. e.score \in Value
    BY DEF Event
  <2>3. PICK x : x = [r EXCEPT !.score = e.score, !.count = @ + 1]
    OBVIOUS
  <2>4. x = RowOf(r.status, r.canonical, r.text, e.score, r.count + 1)
    BY <2>3 DEF Row, RowOf
  <2>5. x \in Row
    BY <2>2, <2>4, RowIs
  <2>6. /\ x.count = r.count + 1 /\ x.status = r.status
        /\ x.canonical = r.canonical /\ x.text = r.text
    BY <2>4 DEF RowOf
  <2>7. QED  BY <1>2, <2>1, <2>3, <2>5, <2>6
<1>3. CASE e.kind = "merged"
  <2>1. Reduced(r, e) = [r EXCEPT !.status = "merged", !.canonical = e.canonical,
                                  !.count = @ + 1]
    BY <1>3 DEF Reduced
  <2>2. e.canonical \in TagName \cup {NoTag}
    BY DEF Event
  <2>3. PICK x : x = [r EXCEPT !.status = "merged", !.canonical = e.canonical, !.count = @ + 1]
    OBVIOUS
  <2>4. x = RowOf("merged", e.canonical, r.text, r.score, r.count + 1)
    BY <2>3 DEF Row, RowOf
  <2>5. x \in Row
    BY <2>2, <2>4, RowIs DEF Row
  <2>6. /\ x.count = r.count + 1 /\ x.status = "merged"
        /\ x.canonical = e.canonical /\ x.text = r.text /\ x.score = r.score
    BY <2>4 DEF RowOf
  <2>7. QED  BY <1>3, <2>1, <2>3, <2>5, <2>6
<1>4. QED  BY <1>1, <1>2, <1>3 DEF Event, Kind

(* What the runtime makes of a row is what the backfill makes of it.       *)
LEMMA NextIsReduced ==
    ASSUME NEW r \in Row, NEW e \in LiveEvent
    PROVE  NextRow(r, e) = Reduced(RowOrFirst(r), e)
<1> PICK f \in Row : f = RowOrFirst(r)
  BY RowTypes
<1> e.kind \in Kind
  BY DEF LiveEvent, Event
<1>1. CASE e.kind = "upserted"
  <2>1. e.score = "none"
    BY <1>1 DEF LiveEvent
  <2>2. NextRow(r, e) = [f EXCEPT !.text = Or(e.text, @), !.count = @ + 1]
    BY <1>1 DEF NextRow, MergeUpsert
  <2>3. Reduced(f, e) = [f EXCEPT !.text = Or(e.text, @), !.score = f.score, !.count = @ + 1]
    BY <1>1, <2>1 DEF Reduced, Or
  <2>4. QED  BY ZenonT(30), <2>2, <2>3, RowIs DEF RowOf
<1>2. CASE e.kind = "observed_state"
  <2>1. e.score = "none" /\ e.text = "none"
    BY <1>2 DEF LiveEvent
  <2>2. NextRow(r, e) = [f EXCEPT !.text = f.text, !.count = @ + 1]
    BY <1>2 DEF NextRow, MergeUpsert, Or
  <2>3. Reduced(f, e) = [f EXCEPT !.text = f.text, !.score = f.score, !.count = @ + 1]
    BY <1>2, <2>1 DEF Reduced, Or
  <2>4. QED  BY ZenonT(30), <2>2, <2>3, RowIs DEF RowOf
<1>3. CASE e.kind = "specificity_updated"
  BY <1>3 DEF NextRow, MergeScore, Reduced
<1>4. CASE e.kind = "merged"
  BY <1>4 DEF NextRow, MergeMerged, Reduced
<1>5. QED  BY <1>1, <1>2, <1>3, <1>4 DEF Kind

-----------------------------------------------------------------------------
(* Replaying a stream, event by event.                                     *)

IsReplay(g, n, s) ==
    g = [S \in SUBSET (1 .. n) |->
           IF S = {} THEN FirstRow ELSE Reduced(g[S \ {Max(S)}], s[Max(S)])]

LEMMA Top == ASSUME NEW n \in Nat, NEW S \in SUBSET (1 .. n), n \in S PROVE Max(S) = n
<1>1. n \in S /\ \A y \in S : n >= y
  OBVIOUS
<1>2. Max(S) \in S /\ \A y \in S : Max(S) >= y
  BY <1>1 DEF Max
<1> PICK m : m = Max(S)
  OBVIOUS
<1>3. m \in 1 .. n /\ m >= n /\ n >= m
  BY <1>1, <1>2
<1>4. QED  BY <1>3

LEMMA ReplayExists ==
    ASSUME NEW s, NEW n \in Nat
    PROVE  \E g : IsReplay(g, n, s)
<1> PICK T : T = {k \in Nat : \E g : IsReplay(g, k, s)}
  OBVIOUS
<1>1. 0 \in T
  <2>1. PICK g : g = [S \in SUBSET (1 .. 0) |-> FirstRow]
    OBVIOUS
  <2>2. \A S \in SUBSET (1 .. 0) : S = {}
    OBVIOUS
  <2>3. IsReplay(g, 0, s)
    BY <2>1, <2>2 DEF IsReplay
  <2>4. QED  BY <2>3
<1>2. ASSUME NEW k \in 1 .. n, k - 1 \in T
      PROVE  k \in T
  <2>1. PICK g : IsReplay(g, k - 1, s)
    BY <1>2
  <2>2. PICK h : h = [S \in SUBSET (1 .. k) |->
                        IF k \in S THEN Reduced(g[S \ {k}], s[k]) ELSE g[S]]
    OBVIOUS
  <2>3. ASSUME NEW S \in SUBSET (1 .. k)
        PROVE  h[S] = IF S = {} THEN FirstRow ELSE Reduced(h[S \ {Max(S)}], s[Max(S)])
    <3>1. CASE k \in S
      <4>1. Max(S) = k
        BY <3>1, Top
      <4>2. h[S] = Reduced(g[S \ {k}], s[k])
        BY <2>2, <3>1
      <4>3. h[S \ {k}] = g[S \ {k}]
        BY <2>2
      <4>4. QED  BY <3>1, <4>1, <4>2, <4>3
    <3>2. CASE k \notin S
      <4>1. S \in SUBSET (1 .. k - 1)
        BY <3>2
      <4>2. g[S] = IF S = {} THEN FirstRow ELSE Reduced(g[S \ {Max(S)}], s[Max(S)])
        BY <2>1, <4>1 DEF IsReplay
      <4>3. h[S] = g[S] /\ h[S \ {Max(S)}] = g[S \ {Max(S)}]
        BY <2>2, <3>2
      <4>4. QED  BY <4>2, <4>3
    <3>3. QED  BY <3>1, <3>2
  <2>4. IsReplay(h, k, s)
    BY <2>2, <2>3 DEF IsReplay
  <2>5. QED  BY <2>4
<1>3. \A k \in 0 .. n : k \in T
  BY <1>1, <1>2, StepByStep
<1>4. n \in T
  BY <1>3
<1>5. QED  BY <1>4

Reduction(s) == FoldLeft(Reduced, FirstRow, s)

(* The rows a replay goes through.                                         *)
LEMMA ReplaySteps ==
    ASSUME NEW s, NEW n \in Nat, DOMAIN s = 1 .. n
    PROVE  \E a : /\ a[0] = FirstRow
                  /\ \A k \in 1 .. n : a[k] = Reduced(a[k - 1], s[k])
                  /\ Reduction(s) = a[n]
<1>1. Reduction(s) = (CHOOSE g : IsReplay(g, n, s))[1 .. n]
  BY DEF Reduction, FoldLeft, MapThenFoldSet, IsReplay
<1>2. PICK g : IsReplay(g, n, s) /\ Reduction(s) = g[1 .. n]
  BY <1>1, ReplayExists
<1>3. PICK a : a = [k \in 0 .. n |-> g[1 .. k]]
  OBVIOUS
<1>4. a[0] = FirstRow
  <2>1. 1 .. 0 = {}
    OBVIOUS
  <2>2. a[0] = g[1 .. 0]
    BY <1>3
  <2>3. {} \in SUBSET (1 .. n)
    OBVIOUS
  <2>4. g[{}] = FirstRow
    BY <1>2, <2>3 DEF IsReplay
  <2>5. QED  BY <2>1, <2>2, <2>4
<1>5. ASSUME NEW k \in 1 .. n
      PROVE  a[k] = Reduced(a[k - 1], s[k])
  <2>1. 1 .. k \subseteq 1 .. n /\ k \in 1 .. k /\ k \in Nat
    OBVIOUS
  <2>2. Max(1 .. k) = k
    BY <2>1, Top
  <2>3. (1 .. k) \ {k} = 1 .. k - 1
    OBVIOUS
  <2>4. g[1 .. k] = Reduced(g[(1 .. k) \ {Max(1 .. k)}], s[Max(1 .. k)])
    BY <1>2, <2>1 DEF IsReplay
  <2>5. a[k] = g[1 .. k] /\ a[k - 1] = g[1 .. k - 1]
    BY <1>3
  <2>6. QED  BY <2>2, <2>3, <2>4, <2>5
<1>6. a[n] = g[1 .. n]
  BY <1>3
<1>7. QED  BY <1>2, <1>4, <1>5, <1>6

(* One more event is one more reduction.                                   *)
LEMMA FoldOneMore ==
    ASSUME NEW s \in Seq(Event), NEW e \in Event
    PROVE  Reduction(Append(s, e)) =
               Reduced(Reduction(s), e)
<1> PICK n \in Nat : n = Len(s) /\ DOMAIN s = 1 .. n
  OBVIOUS
<1>0. PICK t : t = Append(s, e)
  OBVIOUS
<1>1. /\ DOMAIN t = 1 .. n + 1 /\ t[n + 1] = e
      /\ \A k \in 1 .. n : t[k] = s[k]
  BY <1>0
<1>2. PICK a : /\ a[0] = FirstRow
               /\ \A k \in 1 .. n : a[k] = Reduced(a[k - 1], s[k])
               /\ Reduction(s) = a[n]
  BY ReplaySteps
<1> PICK m \in Nat : m = n + 1
  OBVIOUS
<1>3. PICK b : /\ b[0] = FirstRow
               /\ \A k \in 1 .. m : b[k] = Reduced(b[k - 1], t[k])
               /\ Reduction(t) = b[m]
  <2>1. DOMAIN t = 1 .. m
    BY <1>1
  <2>2. QED  BY <2>1, m \in Nat, ReplaySteps
<1>4. PICK T : T = {k \in 0 .. n : a[k] = b[k]}
  OBVIOUS
<1>5. 0 \in T
  BY <1>2, <1>3, <1>4
<1>6. ASSUME NEW k \in 1 .. n, k - 1 \in T
      PROVE  k \in T
  <2>1. a[k] = Reduced(a[k - 1], s[k]) /\ b[k] = Reduced(b[k - 1], t[k])
    BY <1>2, <1>3
  <2>2. a[k - 1] = b[k - 1] /\ s[k] = t[k]
    BY <1>1, <1>4, <1>6
  <2>3. QED  BY <1>4, <2>1, <2>2
<1>7. a[n] = b[n]
  <2>1. \A k \in 0 .. n : k \in T
    BY <1>5, <1>6, StepByStep
  <2>2. n \in T
    BY <2>1
  <2>3. QED  BY <1>4, <2>2
<1>8. b[n + 1] = Reduced(b[n], t[n + 1])
  BY <1>3
<1>9. QED  BY <1>0, <1>1, <1>2, <1>3, <1>7, <1>8

(* A stream replays to a row that counts its events.                       *)
LEMMA ReplayedRow ==
    ASSUME NEW s \in Seq(Event)
    PROVE  /\ Replayed(s) \in Row
           /\ Replayed(s).count = Len(s)
           /\ s # <<>> => Replayed(s) = Reduction(s)
           /\ Reduction(s) = RowOrFirst(Replayed(s))
<1> PICK n \in Nat : n = Len(s) /\ DOMAIN s = 1 .. n
  OBVIOUS
<1>1. PICK a : /\ a[0] = FirstRow
               /\ \A k \in 1 .. n : a[k] = Reduced(a[k - 1], s[k])
               /\ Reduction(s) = a[n]
  BY ReplaySteps
<1>2. PICK T : T = {k \in 0 .. n : a[k] \in Row /\ a[k].count = k}
  OBVIOUS
<1>3. 0 \in T
  BY <1>1, <1>2, RowTypes
<1>4. ASSUME NEW k \in 1 .. n, k - 1 \in T
      PROVE  k \in T
  <2>1. a[k] = Reduced(a[k - 1], s[k]) /\ s[k] \in Event
    BY <1>1
  <2>2. a[k - 1] \in Row /\ a[k - 1].count = k - 1
    BY <1>2, <1>4
  <2>3. Reduced(a[k - 1], s[k]) \in Row /\ Reduced(a[k - 1], s[k]).count = a[k - 1].count + 1
    BY <2>1, <2>2, ReducedRow
  <2>4. a[k] \in Row /\ a[k].count = k
    BY <2>1, <2>2, <2>3
  <2>5. QED  BY <1>2, <2>4
<1>5. a[n] \in Row /\ a[n].count = n
  <2>1. \A k \in 0 .. n : k \in T
    BY <1>3, <1>4, StepByStep
  <2>2. n \in T
    BY <2>1
  <2>3. QED  BY <1>2, <2>2
<1>6. CASE s = <<>>
  <2>1. n = 0 /\ Replayed(s) = NoTagRow
    BY <1>6 DEF Replayed
  <2>2. NoTagRow.count = 0
    BY DEF NoTagRow
  <2>3. QED  BY <1>1, <1>6, <2>1, <2>2, RowTypes DEF RowOrFirst
<1>7. CASE s # <<>>
  <2>1. n # 0 /\ Replayed(s) = a[n]
    BY <1>1, <1>7 DEF Replayed, Reduction
  <2>2. a[n] # NoTagRow
    BY <1>5, <2>1 DEF NoTagRow
  <2>3. QED  BY <1>1, <1>5, <1>7, <2>1, <2>2 DEF RowOrFirst
<1>8. QED  BY <1>6, <1>7

LEMMA ReplayOneMore ==
    ASSUME NEW s \in Seq(Event), NEW e \in Event
    PROVE  Replayed(Append(s, e)) = Reduced(RowOrFirst(Replayed(s)), e)
<1>1. Append(s, e) # <<>> /\ Append(s, e) \in Seq(Event)
  OBVIOUS
<1>2. QED  BY <1>1, FoldOneMore, ReplayedRow

-----------------------------------------------------------------------------
(* The merges of the history in the order of their times.                  *)

MergeRow == [canonical : TagName, alias : TagName, at : Nat, id : Nat]
History == {h \in Seq(MergeRow) : \A n \in DOMAIN h : h[n].id = n}

Earlier(h, m) == {k \in DOMAIN h : Before(h[k], m)}

LEMMA HistoryRows ==
    ASSUME NEW h \in History, NEW n \in DOMAIN h
    PROVE  h[n] \in MergeRow /\ h[n].id = n /\ h[n].at \in Nat /\ n \in Nat
<1>1. h \in Seq(MergeRow) /\ h[n].id = n
  BY DEF History
<1>2. h[n] \in MergeRow /\ n \in Nat
  BY <1>1
<1>3. QED  BY <1>1, <1>2 DEF MergeRow

LEMMA UpTo ==
    ASSUME NEW n \in Nat
    PROVE  IsFiniteSet(1 .. n) /\ Cardinality(1 .. n) = n
<1>1. /\ IsFiniteSet(1 .. n)
      /\ Cardinality(1 .. n) = IF 1 > n THEN 0 ELSE n - 1 + 1
  BY 1 \in Int, n \in Int, FS_Interval
<1>2. QED  BY <1>1

LEMMA EarlierGrows ==
    ASSUME NEW h \in History, NEW i \in DOMAIN h, NEW j \in DOMAIN h, i # j
    PROVE  /\ Cardinality(Earlier(h, h[i])) \in Nat
           /\ Cardinality(Earlier(h, h[i])) < Len(h)
           /\ Before(h[i], h[j]) =>
                Cardinality(Earlier(h, h[i])) < Cardinality(Earlier(h, h[j]))
           /\ Before(h[i], h[j]) \/ Before(h[j], h[i])
<1>1. /\ h[i].at \in Nat /\ h[j].at \in Nat /\ h[i].id = i /\ h[j].id = j
      /\ i \in Nat /\ j \in Nat
  BY HistoryRows
<1>2. Before(h[i], h[j]) \/ Before(h[j], h[i])
  BY <1>1 DEF Before
<1>3. ~Before(h[i], h[i]) /\ ~Before(h[j], h[j])
  BY <1>1 DEF Before
<1>4. IsFiniteSet(DOMAIN h) /\ Cardinality(DOMAIN h) = Len(h)
  <2>1. DOMAIN h = 1 .. Len(h) /\ Len(h) \in Nat
    BY DEF History
  <2>2. QED  BY <2>1, UpTo
<1>5. \A k \in DOMAIN h :
         /\ IsFiniteSet(Earlier(h, h[k])) /\ Cardinality(Earlier(h, h[k])) \in Nat
         /\ Earlier(h, h[k]) \in SUBSET (DOMAIN h)
  <2>1. \A k \in DOMAIN h : Earlier(h, h[k]) \in SUBSET (DOMAIN h)
    BY DEF Earlier
  <2>2. QED  BY <1>4, <2>1, FS_Subset, FS_CardinalityType
<1>6. Cardinality(Earlier(h, h[i])) < Len(h)
  <2>1. Earlier(h, h[i]) # DOMAIN h
    BY <1>3 DEF Earlier
  <2>2. /\ Cardinality(Earlier(h, h[i])) <= Cardinality(DOMAIN h)
        /\ Cardinality(DOMAIN h) # Cardinality(Earlier(h, h[i]))
    BY <1>4, <1>5, <2>1, FS_Subset
  <2>3. Len(h) \in Nat
    BY DEF History
  <2>4. QED  BY <1>4, <1>5, <2>2, <2>3
<1>7. ASSUME Before(h[i], h[j])
      PROVE  Cardinality(Earlier(h, h[i])) < Cardinality(Earlier(h, h[j]))
  <2>1. Earlier(h, h[i]) \in SUBSET Earlier(h, h[j])
    <3>1. ASSUME NEW k \in DOMAIN h, Before(h[k], h[i])
          PROVE  Before(h[k], h[j])
      <4>1. h[k].at \in Nat /\ h[k].id = k /\ k \in Nat
        BY HistoryRows
      <4>2. QED  BY <1>1, <1>7, <3>1, <4>1 DEF Before
    <3>2. QED  BY <3>1 DEF Earlier
  <2>2. Earlier(h, h[i]) # Earlier(h, h[j])
    BY <1>3, <1>7 DEF Earlier
  <2>3. /\ Cardinality(Earlier(h, h[i])) <= Cardinality(Earlier(h, h[j]))
        /\ Cardinality(Earlier(h, h[j])) # Cardinality(Earlier(h, h[i]))
    BY <1>5, <2>1, <2>2, FS_Subset
  <2>4. QED  BY <1>5, <2>3
<1>8. QED  BY <1>2, <1>5, <1>6, <1>7

(* Each row is at the place its rank gives it.                             *)
LEMMA RankedOnce ==
    ASSUME NEW h \in History, NEW p \in 1 .. Len(h)
    PROVE  \E n \in DOMAIN h : Cardinality(Earlier(h, h[n])) = p - 1
<1> PICK N \in Nat : N = Len(h) /\ DOMAIN h = 1 .. N
  BY DEF History
<1>1. PICK f : f = [n \in DOMAIN h |-> Cardinality(Earlier(h, h[n])) + 1]
  OBVIOUS
<1>2. f \in [1 .. N -> 1 .. N]
  <2>1. ASSUME NEW n \in 1 .. N
        PROVE  Cardinality(Earlier(h, h[n])) + 1 \in 1 .. N
    <3>1. CASE N = 1
      <4>1. Earlier(h, h[n]) = {}
        <5>1. n = 1 /\ \A k \in DOMAIN h : k = 1
          BY <3>1
        <5>2. h[1].at \in Nat /\ h[1].id = 1
          BY <3>1, HistoryRows
        <5>3. ~Before(h[1], h[1])
          BY <5>2 DEF Before
        <5>4. QED  BY <5>1, <5>3 DEF Earlier
      <4>2. QED  BY <3>1, <4>1, FS_EmptySet
    <3>2. CASE N # 1
      <4>1. PICK j \in 1 .. N : j # n
        BY <3>2, 1 \in 1 .. N, N \in 1 .. N
      <4>2. PICK c \in Nat : c = Cardinality(Earlier(h, h[n])) /\ c < N
        BY <4>1, EarlierGrows
      <4>3. QED  BY <4>2
    <3>3. QED  BY <3>1, <3>2
  <2>2. QED  BY <1>1, <2>1
<1>3. ASSUME NEW i \in 1 .. N, NEW j \in 1 .. N, i # j
      PROVE  f[i] # f[j]
  <2>1. /\ Cardinality(Earlier(h, h[i])) \in Nat /\ Cardinality(Earlier(h, h[j])) \in Nat
        /\ \/ Cardinality(Earlier(h, h[i])) < Cardinality(Earlier(h, h[j]))
           \/ Cardinality(Earlier(h, h[j])) < Cardinality(Earlier(h, h[i]))
    BY <1>3, EarlierGrows
  <2>2. QED  BY <1>1, <2>1
<1>4. f \in Injection(1 .. N, 1 .. N)
  BY <1>2, <1>3 DEF Injection, IsInjective
<1>5. IsFiniteSet(1 .. N)
  BY FS_Interval
<1>6. f \in Surjection(1 .. N, 1 .. N)
  BY <1>4, <1>5, FS_Injection
<1>7. PICK n \in 1 .. N : f[n] = p
  BY <1>6 DEF Surjection
<1>8. Cardinality(Earlier(h, h[n])) = p - 1
  <2>1. IsFiniteSet(Earlier(h, h[n]))
    <3>1. Earlier(h, h[n]) \in SUBSET (1 .. N)
      BY DEF Earlier
    <3>2. QED  BY <1>5, <3>1, FS_Subset
  <2>2. Cardinality(Earlier(h, h[n])) \in Nat
    BY <2>1, FS_CardinalityType
  <2>3. QED  BY <1>1, <1>7, <2>2
<1>9. QED  BY <1>8

(* The rows in merge order are those of the history, each after those      *)
(* before it.                                                              *)
LEMMA MergeOrder ==
    ASSUME NEW h \in History
    PROVE  /\ InMergeOrder(h) \in Seq(MergeRow)
           /\ DOMAIN InMergeOrder(h) = DOMAIN h
           /\ \A p \in DOMAIN h : \E n \in DOMAIN h : InMergeOrder(h)[p] = h[n]
           /\ \A n \in DOMAIN h : \E p \in DOMAIN h : InMergeOrder(h)[p] = h[n]
           /\ \A p, q \in DOMAIN h : p < q => Before(InMergeOrder(h)[p], InMergeOrder(h)[q])
<1> PICK N \in Nat : N = Len(h) /\ DOMAIN h = 1 .. N
  BY DEF History
<1>1. PICK s : s = InMergeOrder(h)
  OBVIOUS
<1>2. s = [p \in 1 .. N |-> CHOOSE m \in ToSet(h) : Cardinality(Earlier(h, m)) = p - 1]
  BY <1>1 DEF InMergeOrder, Earlier
<1>3. \A m : m \in ToSet(h) <=> \E n \in DOMAIN h : m = h[n]
  BY DEF ToSet
<1>4. \A p \in 1 .. N : s[p] \in ToSet(h) /\ Cardinality(Earlier(h, s[p])) = p - 1
  <2>1. \A p \in 1 .. N : \E m \in ToSet(h) : Cardinality(Earlier(h, m)) = p - 1
    BY <1>3, RankedOnce
  <2>2. QED  BY <1>2, <2>1
<1>5. \A p \in 1 .. N : \E n \in DOMAIN h : s[p] = h[n]
  BY <1>3, <1>4
<1>6. ASSUME NEW i \in 1 .. N, NEW j \in 1 .. N,
             Cardinality(Earlier(h, h[i])) = Cardinality(Earlier(h, h[j]))
      PROVE  i = j
  BY <1>6, EarlierGrows
<1>7. ASSUME NEW n \in 1 .. N
      PROVE  \E p \in 1 .. N : s[p] = h[n]
  <2>1. PICK p \in 1 .. N : Cardinality(Earlier(h, h[n])) = p - 1
    <3>1. IsFiniteSet(1 .. N) /\ Cardinality(1 .. N) = N
      BY UpTo
    <3>2. Earlier(h, h[n]) \in SUBSET (1 .. N)
      BY DEF Earlier
    <3>3. n \notin Earlier(h, h[n])
      <4>1. h[n].at \in Nat /\ h[n].id = n /\ n \in Nat
        BY HistoryRows
      <4>2. QED  BY <4>1 DEF Before, Earlier
    <3>4. /\ Cardinality(Earlier(h, h[n])) \in Nat
          /\ Cardinality(Earlier(h, h[n])) <= N
          /\ Cardinality(Earlier(h, h[n])) # N
      <4>1. Earlier(h, h[n]) # 1 .. N
        BY <3>3
      <4>2. IsFiniteSet(Earlier(h, h[n]))
        BY <3>1, <3>2, FS_Subset
      <4>3. QED  BY <3>1, <3>2, <4>1, <4>2, FS_Subset, FS_CardinalityType
    <3>5. PICK c \in Nat : c = Cardinality(Earlier(h, h[n]))
      BY <3>4
    <3>6. c + 1 \in 1 .. N /\ c = (c + 1) - 1
      BY <3>4, <3>5
    <3>7. QED  BY <3>5, <3>6
  <2>2. PICK k \in DOMAIN h : s[p] = h[k]
    BY <1>5
  <2>3. k = n
    BY <1>4, <1>6, <2>1, <2>2
  <2>4. QED  BY <2>2, <2>3
<1>8. ASSUME NEW p \in 1 .. N, NEW q \in 1 .. N, p < q
      PROVE  Before(s[p], s[q])
  <2>1. PICK i \in 1 .. N, j \in 1 .. N : s[p] = h[i] /\ s[q] = h[j]
    BY <1>5
  <2>2. Cardinality(Earlier(h, h[i])) = p - 1 /\ Cardinality(Earlier(h, h[j])) = q - 1
    BY <1>4, <2>1
  <2>3. i # j
    BY <1>8, <2>2
  <2>4. ~Before(h[j], h[i])
    BY <1>8, <2>2, <2>3, EarlierGrows
  <2>5. QED  BY <2>1, <2>3, <2>4, EarlierGrows
<1>9. s \in Seq(MergeRow) /\ DOMAIN s = 1 .. N
  <2>1. \A p \in 1 .. N : s[p] \in MergeRow
    BY <1>5, HistoryRows
  <2>2. s \in [1 .. N -> MergeRow]
    BY <1>2, <2>1
  <2>3. QED  BY <2>2
<1>10. QED  BY <1>1, <1>5, <1>7, <1>8, <1>9

-----------------------------------------------------------------------------
(* Seeding the streams, merge by merge.                                    *)

IsSeeding(g, n, s) ==
    g = [S \in SUBSET (1 .. n) |->
           IF S = {} THEN LegacySeeds(NoNew) ELSE SeedMerge(g[S \ {Max(S)}], s[Max(S)])]

LEMMA SeedingExists ==
    ASSUME NEW s, NEW n \in Nat
    PROVE  \E g : IsSeeding(g, n, s)
<1> PICK T : T = {k \in Nat : \E g : IsSeeding(g, k, s)}
  OBVIOUS
<1>1. 0 \in T
  <2>1. PICK g : g = [S \in SUBSET (1 .. 0) |-> LegacySeeds(NoNew)]
    OBVIOUS
  <2>2. \A S \in SUBSET (1 .. 0) : S = {}
    OBVIOUS
  <2>3. IsSeeding(g, 0, s)
    BY <2>1, <2>2 DEF IsSeeding
  <2>4. QED  BY <2>3
<1>2. ASSUME NEW k \in 1 .. n, k - 1 \in T
      PROVE  k \in T
  <2>1. PICK g : IsSeeding(g, k - 1, s)
    BY <1>2
  <2>2. PICK h : h = [S \in SUBSET (1 .. k) |->
                        IF k \in S THEN SeedMerge(g[S \ {k}], s[k]) ELSE g[S]]
    OBVIOUS
  <2>3. ASSUME NEW S \in SUBSET (1 .. k)
        PROVE  h[S] = IF S = {} THEN LegacySeeds(NoNew) ELSE SeedMerge(h[S \ {Max(S)}], s[Max(S)])
    <3>1. CASE k \in S
      <4>1. Max(S) = k
        BY <3>1, Top
      <4>2. h[S] = SeedMerge(g[S \ {k}], s[k])
        BY <2>2, <3>1
      <4>3. h[S \ {k}] = g[S \ {k}]
        BY <2>2
      <4>4. QED  BY <3>1, <4>1, <4>2, <4>3
    <3>2. CASE k \notin S
      <4>1. S \in SUBSET (1 .. k - 1)
        BY <3>2
      <4>2. g[S] = IF S = {} THEN LegacySeeds(NoNew) ELSE SeedMerge(g[S \ {Max(S)}], s[Max(S)])
        BY <2>1, <4>1 DEF IsSeeding
      <4>3. h[S] = g[S] /\ h[S \ {Max(S)}] = g[S \ {Max(S)}]
        BY <2>2, <3>2
      <4>4. QED  BY <4>2, <4>3
    <3>3. QED  BY <3>1, <3>2
  <2>4. IsSeeding(h, k, s)
    BY <2>2, <2>3 DEF IsSeeding
  <2>5. QED  BY <2>4
<1>3. \A k \in 0 .. n : k \in T
  BY <1>1, <1>2, StepByStep
<1>4. n \in T
  BY <1>3
<1>5. QED  BY <1>4

Seeds(s) == FoldLeft(SeedMerge, LegacySeeds(NoNew), s)

(* The events a seeding goes through.                                      *)
LEMMA SeedSteps ==
    ASSUME NEW s, NEW n \in Nat, DOMAIN s = 1 .. n
    PROVE  \E a : /\ a[0] = LegacySeeds(NoNew)
                  /\ \A k \in 1 .. n : a[k] = SeedMerge(a[k - 1], s[k])
                  /\ Seeds(s) = a[n]
<1>1. Seeds(s) = (CHOOSE g : IsSeeding(g, n, s))[1 .. n]
  BY DEF Seeds, FoldLeft, MapThenFoldSet, IsSeeding
<1>2. PICK g : IsSeeding(g, n, s) /\ Seeds(s) = g[1 .. n]
  BY <1>1, SeedingExists
<1>3. PICK a : a = [k \in 0 .. n |-> g[1 .. k]]
  OBVIOUS
<1>4. a[0] = LegacySeeds(NoNew)
  <2>1. 1 .. 0 = {}
    OBVIOUS
  <2>2. a[0] = g[1 .. 0]
    BY <1>3
  <2>3. {} \in SUBSET (1 .. n)
    OBVIOUS
  <2>4. g[{}] = LegacySeeds(NoNew)
    BY <1>2, <2>3 DEF IsSeeding
  <2>5. QED  BY <2>1, <2>2, <2>4
<1>5. ASSUME NEW k \in 1 .. n
      PROVE  a[k] = SeedMerge(a[k - 1], s[k])
  <2>1. 1 .. k \subseteq 1 .. n /\ k \in 1 .. k /\ k \in Nat
    OBVIOUS
  <2>2. Max(1 .. k) = k
    BY <2>1, Top
  <2>3. (1 .. k) \ {k} = 1 .. k - 1
    OBVIOUS
  <2>4. g[1 .. k] = SeedMerge(g[(1 .. k) \ {Max(1 .. k)}], s[Max(1 .. k)])
    BY <1>2, <2>1 DEF IsSeeding
  <2>5. a[k] = g[1 .. k] /\ a[k - 1] = g[1 .. k - 1]
    BY <1>3
  <2>6. QED  BY <2>2, <2>3, <2>4, <2>5
<1>6. a[n] = g[1 .. n]
  BY <1>3
<1>7. QED  BY <1>2, <1>4, <1>5, <1>6


LegacyEvent == [TagEvent("observed_state", "legacy") EXCEPT !.text = "legacy", !.score = "legacy"]
CanonicalEvent == TagEvent("observed_state", "canonical")
RowEvent(m) == [TagEvent("merged", "row") EXCEPT !.canonical = m.canonical, !.row = m.id]
Unseeded(m) == ~AlreadySeeded(m.alias, "row", m.id)

SeedOf(e, t, r, k) ==
    \/ t \in LegacyTag /\ e = LegacyEvent /\ ~AlreadySeeded(t, "legacy", 0)
    \/ e = CanonicalEvent
    \/ \E l \in 1 .. k : r[l].alias = t /\ Unseeded(r[l]) /\ e = RowEvent(r[l])

LastMerge(s, e) == \E j \in DOMAIN s : s[j] = e /\ \A i \in DOMAIN s : i > j => s[i].kind # "merged"

(* What the first k rows r of the history have been seeded as.             *)
Shape(new, r, k) ==
    /\ new \in [TagName -> Seq(Event)]
    /\ \A t \in TagName : \A j \in DOMAIN new[t] : SeedOf(new[t][j], t, r, k)
    /\ \A l \in 1 .. k : Unseeded(r[l]) =>
          \E j \in DOMAIN new[r[l].alias] : new[r[l].alias][j] = RowEvent(r[l])
    /\ \A l \in 1 .. k :
          Unseeded(r[l]) /\ (\A m \in l + 1 .. k : r[m].alias # r[l].alias) =>
              LastMerge(new[r[l].alias], RowEvent(r[l]))

LEMMA TagEventIs ==
    ASSUME NEW kind, NEW from
    PROVE  TagEvent(kind, from) = [kind |-> kind, from |-> from, text |-> "none",
                                   score |-> "none", canonical |-> NoTag, row |-> 0]
<1>1. PICK e : e = TagEvent(kind, from)
  OBVIOUS
<1>2. e = [kind |-> kind, from |-> from, text |-> "none", score |-> "none",
           canonical |-> NoTag, row |-> 0]
  BY <1>1 DEF TagEvent, NoEvent
<1>3. QED  BY <1>1, <1>2

LEMMA AppendIs ==
    ASSUME NEW S, NEW s \in Seq(S), NEW e \in S
    PROVE  \E n \in Nat : /\ n = Len(s) /\ DOMAIN s = 1 .. n /\ DOMAIN Append(s, e) = 1 .. n + 1
                          /\ Append(s, e)[n + 1] = e
                          /\ \A j \in 1 .. n : Append(s, e)[j] = s[j]
<1>1. PICK n \in Nat : n = Len(s) /\ DOMAIN s = 1 .. n
  OBVIOUS
<1>2. PICK t : t = Append(s, e)
  OBVIOUS
<1>3. DOMAIN t = 1 .. n + 1 /\ t[n + 1] = e /\ \A j \in 1 .. n : t[j] = s[j]
  BY <1>1, <1>2
<1>4. QED  BY <1>1, <1>2, <1>3

LEMMA SeedEventTypes ==
    /\ LegacyEvent \in Event /\ CanonicalEvent \in Event
    /\ LegacyEvent = [kind |-> "observed_state", from |-> "legacy", text |-> "legacy",
                      score |-> "legacy", canonical |-> NoTag, row |-> 0]
    /\ CanonicalEvent = [kind |-> "observed_state", from |-> "canonical", text |-> "none",
                         score |-> "none", canonical |-> NoTag, row |-> 0]
    /\ \A m \in MergeRow :
          /\ RowEvent(m) \in Event
          /\ RowEvent(m) = [kind |-> "merged", from |-> "row", text |-> "none",
                            score |-> "none", canonical |-> m.canonical, row |-> m.id]
<1>1. LegacyEvent = [kind |-> "observed_state", from |-> "legacy", text |-> "legacy",
                     score |-> "legacy", canonical |-> NoTag, row |-> 0]
  <2>1. PICK e : e = TagEvent("observed_state", "legacy")
    OBVIOUS
  <2>2. e = [kind |-> "observed_state", from |-> "legacy", text |-> "none", score |-> "none",
             canonical |-> NoTag, row |-> 0]
    BY <2>1, TagEventIs
  <2>3. PICK f : f = [e EXCEPT !.text = "legacy", !.score = "legacy"]
    OBVIOUS
  <2>4. f = [kind |-> "observed_state", from |-> "legacy", text |-> "legacy",
             score |-> "legacy", canonical |-> NoTag, row |-> 0]
    BY <2>2, <2>3
  <2>5. QED  BY <2>1, <2>3, <2>4 DEF LegacyEvent
<1>2. CanonicalEvent = [kind |-> "observed_state", from |-> "canonical", text |-> "none",
                        score |-> "none", canonical |-> NoTag, row |-> 0]
  BY TagEventIs DEF CanonicalEvent
<1>3. LegacyEvent \in Event /\ CanonicalEvent \in Event
  BY <1>1, <1>2 DEF Event, Kind, Value
<1>4. ASSUME NEW m \in MergeRow
      PROVE  /\ RowEvent(m) \in Event
             /\ RowEvent(m) = [kind |-> "merged", from |-> "row", text |-> "none",
                               score |-> "none", canonical |-> m.canonical, row |-> m.id]
  <2>1. RowEvent(m) = [kind |-> "merged", from |-> "row", text |-> "none",
                       score |-> "none", canonical |-> m.canonical, row |-> m.id]
    <3>1. PICK e : e = TagEvent("merged", "row")
      OBVIOUS
    <3>2. e = [kind |-> "merged", from |-> "row", text |-> "none", score |-> "none",
               canonical |-> NoTag, row |-> 0]
      BY <3>1, TagEventIs
    <3>3. PICK f : f = [e EXCEPT !.canonical = m.canonical, !.row = m.id]
      OBVIOUS
    <3>4. f = [kind |-> "merged", from |-> "row", text |-> "none",
               score |-> "none", canonical |-> m.canonical, row |-> m.id]
      BY <3>2, <3>3
    <3>5. QED  BY <3>1, <3>3, <3>4 DEF RowEvent
  <2>2. m.canonical \in TagName /\ m.id \in Nat
    BY DEF MergeRow
  <2>3. QED  BY <2>1, <2>2 DEF Event, Kind, Value
<1>5. QED  BY <1>1, <1>2, <1>3, <1>4

(* An observed state of a canonical tag changes nothing of the shape.      *)
LEMMA QuietSeed ==
    ASSUME NEW new, NEW r, NEW k \in Nat, Shape(new, r, k),
           \A l \in 1 .. k : r[l] \in MergeRow,
           NEW t \in TagName
    PROVE  Shape([new EXCEPT ![t] = Append(@, CanonicalEvent)], r, k)
<1> PICK a : a = [new EXCEPT ![t] = Append(@, CanonicalEvent)]
  OBVIOUS
<1>0. new \in [TagName -> Seq(Event)]
  BY DEF Shape
<1>1. a \in [TagName -> Seq(Event)]
  BY <1>0, SeedEventTypes
<1>2. PICK n \in Nat : /\ n = Len(new[t]) /\ DOMAIN new[t] = 1 .. n /\ DOMAIN a[t] = 1 .. n + 1
                       /\ a[t][n + 1] = CanonicalEvent
                       /\ \A j \in 1 .. n : a[t][j] = new[t][j]
  BY <1>0, SeedEventTypes
<1>3. \A s \in TagName \ {t} : a[s] = new[s]
  BY <1>0
<1>4. ASSUME NEW s \in TagName, NEW j \in DOMAIN a[s]
      PROVE  SeedOf(a[s][j], s, r, k)
  <2>1. CASE s # t
    BY <1>3, <1>4, <2>1 DEF Shape
  <2>2. CASE s = t /\ j = n + 1
    BY <1>2, <2>2 DEF SeedOf
  <2>3. CASE s = t /\ j # n + 1
    <3>1. j \in 1 .. n
      BY <1>2, <2>3
    <3>2. QED  BY <1>2, <2>3, <3>1 DEF Shape
  <2>4. QED  BY <2>1, <2>2, <2>3
<1>5. ASSUME NEW l \in 1 .. k, Unseeded(r[l])
      PROVE  \E j \in DOMAIN a[r[l].alias] : a[r[l].alias][j] = RowEvent(r[l])
  <2>1. PICK j \in DOMAIN new[r[l].alias] : new[r[l].alias][j] = RowEvent(r[l])
    BY <1>5 DEF Shape
  <2>2. r[l].alias \in TagName
    BY DEF MergeRow
  <2>3. CASE r[l].alias # t
    BY <1>3, <2>1, <2>2, <2>3
  <2>4. CASE r[l].alias = t
    <3>1. j \in 1 .. n /\ j \in 1 .. n + 1
      BY <1>2, <2>1, <2>4
    <3>2. QED  BY <1>2, <2>1, <2>4, <3>1
  <2>5. QED  BY <2>3, <2>4
<1>6. ASSUME NEW l \in 1 .. k, Unseeded(r[l]), \A m \in l + 1 .. k : r[m].alias # r[l].alias
      PROVE  LastMerge(a[r[l].alias], RowEvent(r[l]))
  <2>1. LastMerge(new[r[l].alias], RowEvent(r[l]))
    BY <1>6 DEF Shape
  <2>2. r[l].alias \in TagName
    BY DEF MergeRow
  <2>3. CASE r[l].alias # t
    BY <1>3, <2>1, <2>2, <2>3
  <2>4. CASE r[l].alias = t
    <3>1. PICK j \in 1 .. n : /\ new[t][j] = RowEvent(r[l])
                              /\ \A i \in 1 .. n : i > j => new[t][i].kind # "merged"
      BY <1>2, <2>1, <2>4 DEF LastMerge
    <3>2. a[t][j] = RowEvent(r[l]) /\ j \in 1 .. n + 1
      BY <1>2, <3>1
    <3>3. \A i \in 1 .. n + 1 : i > j => a[t][i].kind # "merged"
      <4>1. CanonicalEvent.kind # "merged"
        BY SeedEventTypes
      <4>2. \A i \in 1 .. n + 1 : i \in 1 .. n \/ i = n + 1
        OBVIOUS
      <4>3. QED  BY <1>2, <3>1, <4>1, <4>2
    <3>4. QED  BY <1>2, <2>4, <3>2, <3>3 DEF LastMerge
  <2>5. QED  BY <2>3, <2>4
<1>7. QED  BY <1>1, <1>4, <1>5, <1>6 DEF Shape

(* The next row of the history, seeded.                                    *)
LEMMA RowSeed ==
    ASSUME NEW new, NEW r, NEW k \in Nat \ {0}, Shape(new, r, k - 1),
           \A l \in 1 .. k : r[l] \in MergeRow
    PROVE  Shape(Seed(new, r[k].alias, RowEvent(r[k])), r, k)
<1> PICK m \in MergeRow : m = r[k]
  OBVIOUS
<1> PICK t \in TagName : t = m.alias
  BY DEF MergeRow
<1> PICK a : a = Seed(new, t, RowEvent(m))
  OBVIOUS
<1>0. /\ new \in [TagName -> Seq(Event)]
      /\ \A s \in TagName : \A j \in DOMAIN new[s] : SeedOf(new[s][j], s, r, k)
  <2>1. \A e, s : SeedOf(e, s, r, k - 1) => SeedOf(e, s, r, k)
    BY \A l \in 1 .. k - 1 : l \in 1 .. k DEF SeedOf
  <2>2. QED  BY <2>1 DEF Shape
<1>1. RowEvent(m).from = "row" /\ RowEvent(m).row = m.id
  BY SeedEventTypes
<1>2. CASE ~Unseeded(m)
  <2>1. a = new
    BY <1>1, <1>2 DEF Seed, Unseeded
  <2>2. ASSUME NEW l \in 1 .. k, Unseeded(r[l])
        PROVE  l \in 1 .. k - 1
    BY <1>2, <2>2
  <2>3. \A l \in 1 .. k - 1 : \A j \in l + 1 .. k - 1 : j \in l + 1 .. k
    OBVIOUS
  <2>4. QED  BY <1>0, <2>1, <2>2, <2>3 DEF Shape
<1>3. CASE Unseeded(m)
  <2>1. a = [new EXCEPT ![t] = Append(@, RowEvent(m))]
    BY <1>1, <1>3 DEF Seed, Unseeded
  <2>0. RowEvent(m) \in Event /\ new[t] \in Seq(Event)
    BY <1>0, SeedEventTypes
  <2>2. a \in [TagName -> Seq(Event)] /\ a[t] = Append(new[t], RowEvent(m))
    BY <1>0, <2>0, <2>1
  <2>3. PICK n \in Nat : /\ n = Len(new[t]) /\ DOMAIN new[t] = 1 .. n
                         /\ DOMAIN a[t] = 1 .. n + 1 /\ a[t][n + 1] = RowEvent(m)
                         /\ \A j \in 1 .. n : a[t][j] = new[t][j]
    <3>1. PICK s, e, x : s = new[t] /\ e = RowEvent(m) /\ x = a[t]
      OBVIOUS
    <3>2. s \in Seq(Event) /\ e \in Event /\ x = Append(s, e)
      BY <2>0, <2>2, <3>1
    <3>3. \E n \in Nat : /\ n = Len(s) /\ DOMAIN s = 1 .. n /\ DOMAIN x = 1 .. n + 1
                         /\ x[n + 1] = e /\ \A j \in 1 .. n : x[j] = s[j]
      BY <3>2, AppendIs
    <3>4. QED  BY ZenonT(30), <3>1, <3>3
  <2>4. \A s \in TagName \ {t} : a[s] = new[s]
    BY <1>0, <2>1
  <2>5. ASSUME NEW s \in TagName, NEW j \in DOMAIN a[s]
        PROVE  SeedOf(a[s][j], s, r, k)
    <3>1. CASE s # t
      BY <1>0, <2>4, <2>5, <3>1
    <3>2. CASE s = t /\ j = n + 1
      BY <1>3, <2>3, <3>2, k \in 1 .. k DEF SeedOf
    <3>3. CASE s = t /\ j # n + 1
      <4>1. j \in 1 .. n
        BY SMTT(30), <2>3, <3>3
      <4>2. QED  BY <1>0, <2>3, <3>3, <4>1
    <3>4. QED  BY <3>1, <3>2, <3>3
  <2>6. ASSUME NEW l \in 1 .. k, Unseeded(r[l])
        PROVE  \E j \in DOMAIN a[r[l].alias] : a[r[l].alias][j] = RowEvent(r[l])
    <3>1. CASE l = k
      BY <2>3, <3>1, n + 1 \in 1 .. n + 1
    <3>2. CASE l # k
      <4>1. PICK j \in DOMAIN new[r[l].alias] : new[r[l].alias][j] = RowEvent(r[l])
        BY <2>6, <3>2, l \in 1 .. k - 1 DEF Shape
      <4>2. r[l].alias \in TagName
        BY DEF MergeRow
      <4>3. CASE r[l].alias # t
        BY <2>4, <4>1, <4>2, <4>3
      <4>4. CASE r[l].alias = t
        <5>1. j \in 1 .. n /\ j \in 1 .. n + 1
          BY <2>3, <4>1, <4>4
        <5>2. QED  BY <2>3, <4>1, <4>4, <5>1
      <4>5. QED  BY <4>3, <4>4
    <3>3. QED  BY <3>1, <3>2
  <2>7. ASSUME NEW l \in 1 .. k, Unseeded(r[l]), \A i \in l + 1 .. k : r[i].alias # r[l].alias
        PROVE  LastMerge(a[r[l].alias], RowEvent(r[l]))
    <3>1. CASE l = k
      <4>1. n + 1 \in 1 .. n + 1 /\ \A i \in 1 .. n + 1 : ~(i > n + 1)
        OBVIOUS
      <4>2. QED  BY <2>3, <3>1, <4>1 DEF LastMerge
    <3>2. CASE l # k
      <4>1. l \in 1 .. k - 1 /\ k \in l + 1 .. k /\ \A i \in l + 1 .. k - 1 : i \in l + 1 .. k
        BY <3>2
      <4>2. r[l].alias # t /\ r[l].alias \in TagName
        BY <2>7, <4>1 DEF MergeRow
      <4>3. LastMerge(new[r[l].alias], RowEvent(r[l]))
        BY <2>7, <4>1 DEF Shape
      <4>4. QED  BY <2>4, <4>2, <4>3
    <3>3. QED  BY <3>1, <3>2
  <2>8. QED  BY <2>2, <2>5, <2>6, <2>7 DEF Shape
<1>4. QED  BY <1>2, <1>3

(* The legacy tags come first.                                             *)
LEMMA LegacyShape == ASSUME NEW r PROVE Shape(LegacySeeds(NoNew), r, 0)
<1> PICK a : a = LegacySeeds(NoNew)
  OBVIOUS
<1>1. NoNew \in [TagName -> Seq(Event)] /\ \A t \in TagName : NoNew[t] = <<>>
  BY DEF NoNew
<1>2. ASSUME NEW t \in TagName
      PROVE  \/ a[t] = <<>>
             \/ /\ t \in LegacyTag /\ ~AlreadySeeded(t, "legacy", 0)
                /\ a[t] = <<LegacyEvent>>
  <2>1. CASE t \notin LegacyTag
    BY <1>1, <2>1 DEF LegacySeeds
  <2>2. CASE t \in LegacyTag
    <3>1. a[t] = Seed(NoNew, t, LegacyEvent)[t]
      BY <2>2 DEF LegacySeeds, LegacyEvent
    <3>2. LegacyEvent.from = "legacy" /\ LegacyEvent.row = 0
      BY SeedEventTypes
    <3>3. CASE AlreadySeeded(t, "legacy", 0)
      <4>1. Seed(NoNew, t, LegacyEvent) = NoNew
        BY <3>2, <3>3 DEF Seed
      <4>2. QED  BY <1>1, <3>1, <4>1
    <3>4. CASE ~AlreadySeeded(t, "legacy", 0)
      <4>1. Seed(NoNew, t, LegacyEvent) = [NoNew EXCEPT ![t] = Append(@, LegacyEvent)]
        BY <3>2, <3>4 DEF Seed
      <4>2. a[t] = Append(<<>>, LegacyEvent)
        BY <1>1, <3>1, <4>1
      <4>3. QED  BY <2>2, <3>4, <4>2
    <3>5. QED  BY <3>3, <3>4
  <2>3. QED  BY <2>1, <2>2
<1>3. a \in [TagName -> Seq(Event)]
  <2>1. \A t \in TagName : a[t] \in Seq(Event)
    <3>1. <<>> \in Seq(Event) /\ <<LegacyEvent>> \in Seq(Event)
      BY SeedEventTypes
    <3>2. QED  BY <1>2, <3>1
  <2>2. DOMAIN a = TagName /\ a = [t \in TagName |-> a[t]]
    BY DEF LegacySeeds
  <2>3. QED  BY <2>1, <2>2
<1>4. ASSUME NEW t \in TagName, NEW j \in DOMAIN a[t]
      PROVE  SeedOf(a[t][j], t, r, 0)
  <2>1. /\ t \in LegacyTag /\ ~AlreadySeeded(t, "legacy", 0)
        /\ a[t] = <<LegacyEvent>>
    BY <1>2, <1>4
  <2>2. j = 1
    BY <1>4, <2>1
  <2>3. QED  BY <2>1, <2>2 DEF SeedOf
<1>5. QED  BY <1>3, <1>4 DEF Shape

(* A canonical tag and the merged one.                                     *)
LEMMA MergeShape ==
    ASSUME NEW new, NEW r, NEW k \in Nat \ {0}, Shape(new, r, k - 1),
           \A l \in 1 .. k : r[l] \in MergeRow
    PROVE  Shape(SeedMerge(new, r[k]), r, k)
<1> PICK m \in MergeRow : m = r[k]
  OBVIOUS
<1> PICK c \in TagName : c = m.canonical
  BY DEF MergeRow
<1>1. PICK first : first \in {new, Seed(new, c, CanonicalEvent)}
                   /\ SeedMerge(new, m) = Seed(first, m.alias, RowEvent(m))
  <2>1. /\ CanonicalEvent = TagEvent("observed_state", "canonical")
        /\ RowEvent(m) = [TagEvent("merged", "row") EXCEPT !.canonical = m.canonical, !.row = m.id]
    BY DEF CanonicalEvent, RowEvent
  <2>2. QED  BY <2>1 DEF SeedMerge
<1>2. first \in {new, [new EXCEPT ![c] = Append(@, CanonicalEvent)]}
  BY <1>1 DEF Seed
<1>3. k - 1 \in Nat /\ \A l \in 1 .. k - 1 : r[l] \in MergeRow
  OBVIOUS
<1>4. Shape([new EXCEPT ![c] = Append(@, CanonicalEvent)], r, k - 1)
  BY <1>3, QuietSeed
<1>5. Shape(first, r, k - 1)
  BY <1>2, <1>4
<1>6. QED  BY <1>1, <1>5, RowSeed

(* What a run of the backfill seeds for the history h.                     *)
SeedFrom(e, t, h) ==
    \/ t \in LegacyTag /\ e = LegacyEvent /\ ~AlreadySeeded(t, "legacy", 0)
    \/ e = CanonicalEvent
    \/ \E n \in DOMAIN h : h[n].alias = t /\ Unseeded(h[n]) /\ e = RowEvent(h[n])

Seeded(new, h) ==
    /\ new \in [TagName -> Seq(Event)]
    /\ \A t \in TagName : \A j \in DOMAIN new[t] : SeedFrom(new[t][j], t, h)
    /\ \A n \in DOMAIN h : Unseeded(h[n]) =>
          \E j \in DOMAIN new[h[n].alias] : new[h[n].alias][j] = RowEvent(h[n])
    /\ \A n \in DOMAIN h :
          /\ Unseeded(h[n])
          /\ \A m \in DOMAIN h \ {n} : h[m].alias = h[n].alias => Before(h[m], h[n])
          => LastMerge(new[h[n].alias], RowEvent(h[n]))

LEMMA SeedingIs ==
    ASSUME NEW h \in History
    PROVE  Seeded(FoldLeft(SeedMerge, LegacySeeds(NoNew), InMergeOrder(h)), h)
<1>0. PICK N \in Nat : N = Len(h) /\ DOMAIN h = 1 .. N
  BY DEF History
<1>1. PICK r : r = InMergeOrder(h)
  OBVIOUS
<1>2. /\ DOMAIN r = 1 .. N
      /\ \A p \in 1 .. N : r[p] \in MergeRow
      /\ \A p \in 1 .. N : \E n \in 1 .. N : r[p] = h[n]
      /\ \A n \in 1 .. N : \E p \in 1 .. N : r[p] = h[n]
      /\ \A p, q \in 1 .. N : p < q => Before(r[p], r[q])
  <2>1. r \in Seq(MergeRow) /\ DOMAIN r = DOMAIN h
    BY <1>1, MergeOrder
  <2>2. \A p \in 1 .. N : r[p] \in MergeRow
    BY <1>0, <2>1
  <2>3. /\ \A p \in DOMAIN h : \E n \in DOMAIN h : r[p] = h[n]
        /\ \A n \in DOMAIN h : \E p \in DOMAIN h : r[p] = h[n]
        /\ \A p, q \in DOMAIN h : p < q => Before(r[p], r[q])
    BY <1>1, MergeOrder
  <2>4. QED  BY <1>0, <2>1, <2>2, <2>3
<1>3. PICK a : /\ a[0] = LegacySeeds(NoNew)
               /\ \A k \in 1 .. N : a[k] = SeedMerge(a[k - 1], r[k])
               /\ Seeds(r) = a[N]
  BY <1>2, SeedSteps
<1>4. PICK T : T = {k \in 0 .. N : Shape(a[k], r, k)}
  OBVIOUS
<1>5. 0 \in T
  BY <1>3, <1>4, LegacyShape
<1>6. ASSUME NEW k \in 1 .. N, k - 1 \in T
      PROVE  k \in T
  <2>1. Shape(a[k - 1], r, k - 1) /\ a[k] = SeedMerge(a[k - 1], r[k])
    BY <1>3, <1>4, <1>6
  <2>2. k \in Nat \ {0} /\ \A l \in 1 .. k : l \in 1 .. N
    OBVIOUS
  <2>3. Shape(a[k], r, k)
    <3>1. PICK last : last = a[k - 1]
      OBVIOUS
    <3>2. Shape(last, r, k - 1) /\ k \in Nat \ {0} /\ \A l \in 1 .. k : r[l] \in MergeRow
      BY <1>2, <2>1, <2>2, <3>1
    <3>3. Shape(SeedMerge(last, r[k]), r, k)
      BY <3>2, MergeShape
    <3>4. QED  BY <2>1, <3>1, <3>3
  <2>4. QED  BY <1>4, <2>3
<1>7. PICK new : new = a[N] /\ Shape(new, r, N)
  <2>1. \A k \in 0 .. N : k \in T
    BY <1>5, <1>6, StepByStep
  <2>2. N \in T
    BY <2>1
  <2>3. QED  BY <1>4, <2>2
<1>8. ASSUME NEW t \in TagName, NEW j \in DOMAIN new[t]
      PROVE  SeedFrom(new[t][j], t, h)
  <2>1. SeedOf(new[t][j], t, r, N)
    BY <1>7, <1>8 DEF Shape
  <2>2. \A p \in 1 .. N : \E n \in DOMAIN h : r[p] = h[n]
    BY <1>0, <1>2
  <2>3. QED  BY <2>1, <2>2 DEF SeedOf, SeedFrom
<1>9. ASSUME NEW n \in DOMAIN h, Unseeded(h[n])
      PROVE  \E j \in DOMAIN new[h[n].alias] : new[h[n].alias][j] = RowEvent(h[n])
  <2>1. PICK p \in 1 .. N : r[p] = h[n]
    BY <1>0, <1>2
  <2>2. QED  BY <1>7, <1>9, <2>1 DEF Shape
<1>10. ASSUME NEW n \in DOMAIN h, Unseeded(h[n]),
              \A m \in DOMAIN h \ {n} : h[m].alias = h[n].alias => Before(h[m], h[n])
       PROVE  LastMerge(new[h[n].alias], RowEvent(h[n]))
  <2>1. PICK p \in 1 .. N : r[p] = h[n]
    BY <1>0, <1>2
  <2>2. ASSUME NEW q \in p + 1 .. N, r[q].alias = r[p].alias
        PROVE  FALSE
    <3>1. q \in 1 .. N /\ p < q
      OBVIOUS
    <3>2. PICK m \in DOMAIN h : r[q] = h[m]
      BY <1>0, <1>2, <3>1
    <3>3. Before(h[n], h[m])
      BY <1>2, <2>1, <3>1, <3>2
    <3>4. /\ h[n].at \in Nat /\ h[n].id = n /\ h[m].at \in Nat /\ h[m].id = m
          /\ n \in Nat /\ m \in Nat
      BY HistoryRows
    <3>5. m # n /\ ~Before(h[m], h[n])
      BY <3>3, <3>4 DEF Before
    <3>6. QED  BY <1>10, <2>1, <2>2, <3>2, <3>5
  <2>3. QED  BY <1>7, <1>10, <2>1, <2>2 DEF Shape
<1>11. Seeded(new, h)
  BY <1>7, <1>8, <1>9, <1>10 DEF Seeded, Shape
<1>12. QED  BY <1>1, <1>3, <1>7, <1>11 DEF Seeds

-----------------------------------------------------------------------------
(* The inductive invariant of the streams.                                 *)

TxTypeOK(tx) ==
    /\ tx = [open |-> tx.open, todo |-> tx.todo, rows |-> tx.rows, new |-> tx.new,
             issues |-> tx.issues, aliases |-> tx.aliases, canonical |-> tx.canonical,
             at |-> tx.at]
    /\ tx.todo \in Seq(TagName \X LiveEvent)
    /\ DOMAIN tx.rows \subseteq TagName /\ DOMAIN tx.new = DOMAIN tx.rows
    /\ \A t \in DOMAIN tx.rows :
          tx.rows[t] \in Row /\ tx.new[t] \in {<<>>} \cup {<<e>> : e \in LiveEvent}
    /\ tx.aliases \in Seq(TagName) /\ tx.at \in Nat
    /\ tx.aliases # <<>> => tx.canonical \in TagName
    /\ ~tx.open => tx = NoTx

(* What a writer has appended comes next, its row is what it leads to, and *)
(* the backfill has nothing for that tag.                                  *)
Staged(tx, t) ==
    \E e \in LiveEvent : /\ tx.new[t] = <<e>>
                         /\ tx.rows[t] = Replayed(Append(events[t], e))
                         /\ seeding.new[t] = <<>>

WriterInv(w) ==
    /\ TxTypeOK(writing[w])
    /\ \A t \in Held(w) : writing[w].new[t] # <<>> => Staged(writing[w], t)

(* The row the backfill has made is that of the stream with its seeds, or  *)
(* a writer has committed behind its back and it counts too few.           *)
ReadRow(t) ==
    \/ seeding.rows[t] = Replayed(events[t] \o seeding.new[t])
    \/ t \in touched /\ seeding.rows[t].count < Len(events[t]) + Len(seeding.new[t])

SeedingInv ==
    /\ seeding = [at |-> seeding.at, history |-> seeding.history, new |-> seeding.new,
                  rows |-> seeding.rows]
    /\ seeding.at \in {"idle", "seed", "reduce", "write"}
    /\ seeding.history \in History
    /\ seeding.new \in [TagName -> Seq(Event)]
    /\ seeding.rows \in [TagName -> Row]
    /\ seeding.at = "idle" => seeding = NotSeeding
    /\ seeding.at \in {"idle", "seed"} => seeding.new = NoNew
    /\ seeding.at = "write" => \A t \in TagName : ReadRow(t)

StreamsInv ==
    /\ events \in [TagName -> Seq(Event)]
    /\ projection \in [TagName -> Row]
    /\ merged \in History
    /\ begun \in Nat /\ touched \subseteq TagName /\ raced \subseteq TagName

CatalogInv ==
    /\ StreamsInv
    /\ writing = [w \in Writers |-> writing[w]]
    /\ \A w \in Writers : WriterInv(w)
    /\ \A v, w \in Writers : v # w => Held(v) \cap Held(w) = {}
    /\ SeedingInv
    /\ TagsReplay

LEMMA NoTxTypes == TxTypeOK(NoTx) /\ DOMAIN NoTx.rows = {}
<1>1. PICK none : none = [t \in {} |-> NoTagRow]
  OBVIOUS
<1>2. PICK nothing : nothing = [t \in {} |-> <<>>]
  OBVIOUS
<1>3. DOMAIN none = {} /\ DOMAIN nothing = {}
  BY <1>1, <1>2
<1>4. PICK tx : tx = NoTx
  OBVIOUS
<1>5. tx = [open |-> FALSE, todo |-> <<>>, rows |-> none, new |-> nothing,
            issues |-> [i \in {} |-> {}], aliases |-> <<>>, canonical |-> NoTag, at |-> 0]
  BY <1>1, <1>2, <1>4 DEF NoTx
<1>6. TxTypeOK(tx) /\ DOMAIN tx.rows = {}
  BY <1>3, <1>4, <1>5 DEF TxTypeOK
<1>7. QED  BY <1>4, <1>6

LEMMA NotSeedingTypes ==
    /\ NotSeeding.at = "idle" /\ NotSeeding.history = <<>> /\ NotSeeding.new = NoNew
    /\ NotSeeding = [at |-> "idle", history |-> <<>>, new |-> NoNew, rows |-> NotSeeding.rows]
    /\ NotSeeding.rows \in [TagName -> Row]
    /\ NoNew \in [TagName -> Seq(Event)] /\ \A t \in TagName : NoNew[t] = <<>>
    /\ <<>> \in History
<1>1. NoNew \in [TagName -> Seq(Event)] /\ \A t \in TagName : NoNew[t] = <<>>
  BY DEF NoNew
<1>2. [t \in TagName |-> NoTagRow] \in [TagName -> Row]
  BY RowTypes
<1>3. PICK rows : rows = [t \in TagName |-> NoTagRow]
  OBVIOUS
<1>4. NotSeeding = [at |-> "idle", history |-> <<>>, new |-> NoNew, rows |-> rows]
  BY <1>3 DEF NotSeeding
<1>5. <<>> \in History
  BY DEF History
<1>6. QED  BY <1>1, <1>2, <1>3, <1>4, <1>5

LEMMA CatalogStarts == TagInit => CatalogInv
<1> SUFFICES ASSUME TagInit PROVE CatalogInv
  OBVIOUS
<1>1. merged \in History
  <2>1. CASE merged = <<>>
    BY <2>1, NotSeedingTypes
  <2>2. CASE merged # <<>>
    <3>1. PICK c \in TagName, a \in TagName :
             merged = <<[canonical |-> c, alias |-> a, at |-> 0, id |-> 1]>>
      BY <2>2 DEF TagInit, LegacyMerges
    <3>2. PICK m : m = [canonical |-> c, alias |-> a, at |-> 0, id |-> 1]
      OBVIOUS
    <3>3. m \in MergeRow /\ m.id = 1 /\ merged = <<m>>
      BY <3>1, <3>2 DEF MergeRow
    <3>4. QED  BY <3>3 DEF History
  <2>3. QED  BY <2>1, <2>2
<1>2. StreamsInv
  BY <1>1, NotSeedingTypes, RowTypes DEF TagInit, StreamsInv
<1>3. \A w \in Writers : writing[w] = NoTx /\ Held(w) = {}
  BY NoTxTypes DEF TagInit, Held
<1>4. \A w \in Writers : WriterInv(w)
  BY <1>3, NoTxTypes DEF WriterInv
<1>5. SeedingInv
  BY NotSeedingTypes DEF TagInit, SeedingInv
<1>6. TagsReplay
  <2>1. \A t \in TagName : events[t] = <<>> /\ projection[t] = NoTagRow
    BY NotSeedingTypes DEF TagInit
  <2>2. Replayed(<<>>) = NoTagRow
    BY DEF Replayed
  <2>3. QED  BY <2>1, <2>2 DEF TagsReplay
<1>7. writing = [w \in Writers |-> writing[w]]
  BY DEF TagInit
<1>8. QED  BY <1>2, <1>3, <1>4, <1>5, <1>6, <1>7 DEF CatalogInv

-----------------------------------------------------------------------------
(* Transactions of the runtime.                                            *)

LEMMA TxBegins ==
    ASSUME CatalogInv, NEW w \in Writers, NEW tx, Begin(w, tx), TxTypeOK(tx),
           DOMAIN tx.rows = {}
    PROVE  CatalogInv'
<1>1. /\ UNCHANGED <<events, projection, merged, seeding, touched, raced>>
      /\ begun' = begun + 1
      /\ writing' = [writing EXCEPT ![w] = tx]
  BY DEF Begin, streams, backfill
<1>2. writing = [v \in Writers |-> writing[v]]
  BY DEF CatalogInv
<1>3. writing'[w] = tx /\ \A v \in Writers \ {w} : writing'[v] = writing[v]
  BY <1>1, <1>2
<1>4. writing' = [v \in Writers |-> writing'[v]]
  BY <1>1, <1>2
<1>5. StreamsInv' /\ SeedingInv' /\ TagsReplay'
  BY <1>1 DEF CatalogInv, StreamsInv, SeedingInv, ReadRow, TagsReplay
<1>6. Held(w)' = {} /\ \A v \in Writers \ {w} : Held(v)' = Held(v)
  BY <1>3 DEF Held
<1>7. ASSUME NEW v \in Writers PROVE WriterInv(v)'
  <2>1. CASE v = w
    BY <1>3, <1>6, <2>1 DEF WriterInv
  <2>2. CASE v # w
    BY <1>1, <1>3, <1>6, <2>2 DEF CatalogInv, WriterInv, Staged
  <2>3. QED  BY <2>1, <2>2
<1>8. \A u, v \in Writers : u # v => Held(u)' \cap Held(v)' = {}
  BY <1>6 DEF CatalogInv
<1>9. QED  BY <1>4, <1>5, <1>7, <1>8 DEF CatalogInv

(* A transaction that has not begun to append.                             *)
Shaped(tx) ==
    tx = [open |-> tx.open, todo |-> tx.todo, rows |-> tx.rows, new |-> tx.new,
          issues |-> tx.issues, aliases |-> tx.aliases, canonical |-> tx.canonical,
          at |-> tx.at]

(* Only a merge merges, and only its aliases, each into its canonical tag. *)
Intended(tx, t, e) ==
    /\ e.kind = "merged" <=> t \in ToSet(tx.aliases)
    /\ e.kind = "merged" => e.canonical = tx.canonical

MergesWell(tx) ==
    /\ \A j \in DOMAIN tx.todo : Intended(tx, tx.todo[j][1], tx.todo[j][2])
    /\ \A t \in DOMAIN tx.rows : \A e \in LiveEvent : tx.new[t] = <<e>> => Intended(tx, t, e)
    /\ \A t \in ToSet(tx.aliases) :
          \/ t \in DOMAIN tx.rows /\ tx.new[t] # <<>>
          \/ \E j \in DOMAIN tx.todo : tx.todo[j][1] = t

LEMMA NoAlias == ToSet(<<>>) = {}
BY DEF ToSet

LEMMA FirstTx ==
    ASSUME NEW tx, Shaped(tx), tx.open = TRUE, tx.todo \in Seq(TagName \X LiveEvent),
           tx.rows = NoTx.rows, tx.new = NoTx.new,
           tx.aliases \in Seq(TagName), tx.aliases # <<>> => tx.canonical \in TagName,
           tx.at \in Nat
    PROVE  TxTypeOK(tx) /\ DOMAIN tx.rows = {}
<1>1. DOMAIN tx.rows = {} /\ DOMAIN tx.new = {}
  BY NoTxTypes DEF TxTypeOK
<1>2. QED  BY <1>1 DEF TxTypeOK, Shaped

LEMMA OneTag ==
    ASSUME NEW todo \in Seq(TagName \X LiveEvent)
    PROVE  \E tx : /\ tx = [NoTx EXCEPT !.open = TRUE, !.todo = todo]
                   /\ TxTypeOK(tx) /\ DOMAIN tx.rows = {} /\ tx.todo = todo /\ tx.aliases = <<>>
<1>1. PICK no : no = NoTx
  OBVIOUS
<1>2. Shaped(no) /\ no.aliases = <<>> /\ no.at = 0
  BY <1>1, NoTxTypes DEF TxTypeOK, NoTx, Shaped
<1>3. PICK tx : tx = [no EXCEPT !.open = TRUE, !.todo = todo]
  OBVIOUS
<1>4. tx = [open |-> TRUE, todo |-> todo, rows |-> no.rows, new |-> no.new,
            issues |-> no.issues, aliases |-> no.aliases, canonical |-> no.canonical,
            at |-> no.at]
  BY <1>2, <1>3 DEF Shaped
<1>5. /\ Shaped(tx) /\ tx.open = TRUE /\ tx.todo = todo /\ tx.rows = no.rows
      /\ tx.new = no.new /\ tx.aliases = no.aliases /\ tx.at = no.at
  BY <1>4 DEF Shaped
<1>6. tx.aliases = <<>> /\ tx.at \in Nat /\ tx.aliases \in Seq(TagName)
  BY <1>2, <1>5
<1>7. TxTypeOK(tx) /\ DOMAIN tx.rows = {}
  BY <1>1, <1>5, <1>6, FirstTx
<1>8. QED  BY <1>1, <1>3, <1>5, <1>6, <1>7

LEMMA NamesAre ==
    ASSUME NEW names \in Names
    PROVE  names \in Seq(TagName) /\ names # <<>>
<1>1. CASE \E t \in TagName : names = <<t>>
  BY <1>1
<1>2. CASE names \in TagName \X TagName
  <2>1. PICK s \in TagName, t \in TagName : names = <<s, t>>
    BY <1>2
  <2>2. QED  BY <2>1
<1>3. QED  BY <1>1, <1>2 DEF Names

LEMMA LiveEvents ==
    /\ \A text \in Value : [TagEvent("upserted", "live") EXCEPT !.text = text] \in LiveEvent
    /\ [TagEvent("specificity_updated", "live") EXCEPT !.score = "live"] \in LiveEvent
    /\ TagEvent("observed_state", "live") \in LiveEvent
    /\ TagEvent("observed_state", "live").kind = "observed_state"
    /\ \A c \in TagName :
          LET e == [TagEvent("merged", "live") EXCEPT !.canonical = c] IN
          e \in LiveEvent /\ e.kind = "merged" /\ e.canonical = c
    /\ \A text : [TagEvent("upserted", "live") EXCEPT !.text = text].kind = "upserted"
    /\ [TagEvent("specificity_updated", "live") EXCEPT !.score = "live"].kind
         = "specificity_updated"
<1>1. ASSUME NEW text \in Value, NEW e, e = [TagEvent("upserted", "live") EXCEPT !.text = text]
      PROVE  e \in LiveEvent
  <2>1. e = [kind |-> "upserted", from |-> "live", text |-> text, score |-> "none",
             canonical |-> NoTag, row |-> 0]
    BY <1>1, TagEventIs
  <2>2. QED  BY <2>1 DEF LiveEvent, Event, Kind, Value
<1>2. ASSUME NEW e, e = [TagEvent("specificity_updated", "live") EXCEPT !.score = "live"]
      PROVE  e \in LiveEvent
  <2>1. e = [kind |-> "specificity_updated", from |-> "live", text |-> "none", score |-> "live",
             canonical |-> NoTag, row |-> 0]
    BY <1>2, TagEventIs
  <2>2. QED  BY <2>1 DEF LiveEvent, Event, Kind, Value
<1>3. ASSUME NEW e, e = TagEvent("observed_state", "live")
      PROVE  e \in LiveEvent /\ e.kind = "observed_state"
  <2>1. e = [kind |-> "observed_state", from |-> "live", text |-> "none", score |-> "none",
             canonical |-> NoTag, row |-> 0]
    BY <1>3, TagEventIs
  <2>2. QED  BY <2>1 DEF LiveEvent, Event, Kind, Value
<1>4. ASSUME NEW c \in TagName, NEW e, e = [TagEvent("merged", "live") EXCEPT !.canonical = c]
      PROVE  e \in LiveEvent /\ e.kind = "merged" /\ e.canonical = c
  <2>1. e = [kind |-> "merged", from |-> "live", text |-> "none", score |-> "none",
             canonical |-> c, row |-> 0]
    BY <1>4, TagEventIs
  <2>2. QED  BY <2>1 DEF LiveEvent, Event, Kind, Value
<1>5. /\ \A text : [TagEvent("upserted", "live") EXCEPT !.text = text].kind = "upserted"
      /\ [TagEvent("specificity_updated", "live") EXCEPT !.score = "live"].kind
           = "specificity_updated"
  BY TagEventIs
<1>6. QED  BY <1>1, <1>2, <1>3, <1>4, <1>5

LEMMA UpsertBegins ==
    ASSUME NEW w \in Writers, NEW names \in Names, NEW text \in {"none", "live"},
           Begin(w, UpsertTx(names, text))
    PROVE  \E tx : Begin(w, tx) /\ TxTypeOK(tx) /\ DOMAIN tx.rows = {} /\ MergesWell(tx)
<1>1. PICK e \in LiveEvent : e = [TagEvent("upserted", "live") EXCEPT !.text = text]
                             /\ e.kind = "upserted"
  BY LiveEvents DEF Value
<1>2. PICK todo : todo = [n \in DOMAIN names |-> <<names[n], e>>]
  OBVIOUS
<1>3. todo \in Seq(TagName \X LiveEvent) /\ \A j \in DOMAIN todo : todo[j][2] = e
  BY <1>2, NamesAre
<1>4. PICK tx : /\ tx = [NoTx EXCEPT !.open = TRUE, !.todo = todo]
                /\ TxTypeOK(tx) /\ DOMAIN tx.rows = {} /\ tx.todo = todo /\ tx.aliases = <<>>
  BY <1>3, OneTag
<1>5. Begin(w, tx)
  BY <1>1, <1>2, <1>4 DEF UpsertTx
<1>6. TxTypeOK(tx) /\ DOMAIN tx.rows = {} /\ tx.todo = todo /\ ToSet(tx.aliases) = {}
  BY <1>4, NoAlias
<1>7. MergesWell(tx)
  BY <1>1, <1>3, <1>6 DEF MergesWell, Intended
<1>8. QED  BY <1>5, <1>6, <1>7

LEMMA UpsertKeeps ==
    ASSUME CatalogInv, NEW w \in Writers, NEW names \in Names, NEW text \in {"none", "live"},
           Begin(w, UpsertTx(names, text))
    PROVE  CatalogInv'
BY UpsertBegins, TxBegins

LEMMA SpecificityBegins ==
    ASSUME NEW w \in Writers, NEW t \in TagName, UpdateTagSpecificity(w, t)
    PROVE  \E tx : Begin(w, tx) /\ TxTypeOK(tx) /\ DOMAIN tx.rows = {} /\ MergesWell(tx)
<1>1. PICK e \in LiveEvent :
         /\ e = [TagEvent("specificity_updated", "live") EXCEPT !.score = "live"]
         /\ e.kind = "specificity_updated"
  BY LiveEvents
<1>2. PICK todo : todo = <<<<t, e>>>>
  OBVIOUS
<1>3. todo \in Seq(TagName \X LiveEvent) /\ \A j \in DOMAIN todo : todo[j][2] = e
  BY <1>2
<1>4. PICK tx : /\ tx = [NoTx EXCEPT !.open = TRUE, !.todo = todo]
                /\ TxTypeOK(tx) /\ DOMAIN tx.rows = {} /\ tx.todo = todo /\ tx.aliases = <<>>
  BY <1>3, OneTag
<1>5. Begin(w, tx)
  BY <1>1, <1>2, <1>4 DEF UpdateTagSpecificity
<1>6. TxTypeOK(tx) /\ DOMAIN tx.rows = {} /\ tx.todo = todo /\ ToSet(tx.aliases) = {}
  BY <1>4, NoAlias
<1>7. MergesWell(tx)
  BY <1>1, <1>3, <1>6 DEF MergesWell, Intended
<1>8. QED  BY <1>5, <1>6, <1>7

LEMMA SpecificityKeeps ==
    ASSUME CatalogInv, NEW w \in Writers, NEW t \in TagName, UpdateTagSpecificity(w, t)
    PROVE  CatalogInv'
BY SpecificityBegins, TxBegins

LEMMA FrontIs ==
    ASSUME NEW S, NEW p \in S, NEW rest \in Seq(S)
    PROVE  /\ <<p>> \o rest \in Seq(S)
           /\ DOMAIN (<<p>> \o rest) = 1 .. Len(rest) + 1
           /\ (<<p>> \o rest)[1] = p
           /\ \A n \in 1 .. Len(rest) : (<<p>> \o rest)[n + 1] = rest[n]
<1>1. PICK one : one = <<p>>
  OBVIOUS
<1>2. one \in Seq(S) /\ Len(one) = 1 /\ one[1] = p
  BY <1>1
<1>3. PICK todo : todo = one \o rest
  OBVIOUS
<1>4. todo \in Seq(S) /\ Len(todo) = 1 + Len(rest)
  <2>1. todo \in Seq(S) /\ Len(todo) = Len(one) + Len(rest)
    BY ZenonT(30), <1>2, <1>3, ConcatProperties
  <2>2. QED  BY <1>2, <2>1
<1>5. \A n \in 1 .. 1 + Len(rest) : todo[n] = IF n <= 1 THEN one[n] ELSE rest[n - 1]
  <2>1. \A n \in 1 .. Len(one) + Len(rest) :
           (one \o rest)[n] = IF n <= Len(one) THEN one[n] ELSE rest[n - Len(one)]
    BY <1>2, ConcatProperties
  <2>2. QED  BY <1>2, <1>3, <2>1
<1>6. Len(rest) \in Nat
  OBVIOUS
<1>7. todo[1] = p
  BY <1>2, <1>5, <1>6
<1>8. ASSUME NEW n \in 1 .. Len(rest) PROVE todo[n + 1] = rest[n]
  BY <1>5, <1>6
<1>9. DOMAIN todo = 1 .. Len(rest) + 1
  BY <1>4, <1>6
<1>10. QED  BY <1>1, <1>3, <1>4, <1>7, <1>8, <1>9

(* What a merge intends: the canonical tag, then the aliases.              *)
LEMMA MergeTodo ==
    ASSUME NEW aliases \in Seq(TagName), NEW p \in TagName \X LiveEvent, NEW e \in LiveEvent
    PROVE  \E todo \in Seq(TagName \X LiveEvent) :
             /\ todo = <<p>> \o [n \in DOMAIN aliases |-> <<aliases[n], e>>]
             /\ DOMAIN todo = 1 .. Len(aliases) + 1
             /\ todo[1] = p
             /\ \A n \in DOMAIN aliases : todo[n + 1] = <<aliases[n], e>>
<1>1. PICK rest : rest = [n \in DOMAIN aliases |-> <<aliases[n], e>>]
  OBVIOUS
<1>2. /\ rest \in Seq(TagName \X LiveEvent) /\ DOMAIN rest = DOMAIN aliases
      /\ Len(rest) = Len(aliases)
  BY <1>1
<1>3. PICK todo : todo = <<p>> \o rest
  OBVIOUS
<1>4. /\ todo \in Seq(TagName \X LiveEvent) /\ DOMAIN todo = 1 .. Len(rest) + 1
      /\ todo[1] = p /\ \A n \in 1 .. Len(rest) : todo[n + 1] = rest[n]
  BY <1>2, <1>3, FrontIs
<1>5. \A n \in DOMAIN aliases : n \in 1 .. Len(rest) /\ rest[n] = <<aliases[n], e>>
  BY <1>1, <1>2
<1>6. QED  BY <1>1, <1>2, <1>3, <1>4, <1>5

MergeTxOf(todo, issues, aliases, canonical, at) ==
    [NoTx EXCEPT !.open = TRUE, !.at = at, !.canonical = canonical, !.aliases = aliases,
                 !.issues = issues, !.todo = todo]

FreshTx(tx, todo, issues, aliases, canonical, at) ==
    /\ TxTypeOK(tx) /\ DOMAIN tx.rows = {} /\ tx.todo = todo
    /\ tx.aliases = aliases /\ tx.canonical = canonical /\ tx.at = at
    /\ tx.issues = issues

LEMMA MergeTx ==
    ASSUME NEW todo \in Seq(TagName \X LiveEvent), NEW aliases \in Seq(TagName),
           NEW canonical \in TagName, NEW at \in Nat, NEW issues
    PROVE  FreshTx(MergeTxOf(todo, issues, aliases, canonical, at),
                   todo, issues, aliases, canonical, at)
<1>1. PICK no : no = NoTx
  OBVIOUS
<1>2. Shaped(no)
  BY <1>1, NoTxTypes DEF TxTypeOK, Shaped
<1>3. PICK x : x = [no EXCEPT !.open = TRUE, !.at = at, !.canonical = canonical,
                      !.aliases = aliases, !.issues = issues, !.todo = todo]
  OBVIOUS
<1>4. x = [open |-> TRUE, todo |-> todo, rows |-> no.rows, new |-> no.new,
           issues |-> issues, aliases |-> aliases, canonical |-> canonical, at |-> at]
  BY <1>2, <1>3 DEF Shaped
<1>5. /\ Shaped(x) /\ x.open = TRUE /\ x.todo = todo /\ x.rows = no.rows
      /\ x.new = no.new /\ x.aliases = aliases /\ x.at = at
      /\ x.canonical = canonical /\ x.issues = issues
  BY <1>4 DEF Shaped
<1>6. TxTypeOK(x) /\ DOMAIN x.rows = {}
  BY <1>1, <1>5, FirstTx
<1>7. x = MergeTxOf(todo, issues, aliases, canonical, at)
  BY <1>1, <1>3 DEF MergeTxOf
<1>8. FreshTx(x, todo, issues, aliases, canonical, at)
  BY <1>5, <1>6 DEF FreshTx
<1>9. QED  BY <1>7, <1>8

(* What a merge begins with: the lists of the issues it changes.           *)
MergedLists(issues, canonical, aliases) ==
    /\ DOMAIN issues \subseteq TaggedIssue
    /\ \A i \in DOMAIN issues : issues[i] = MergedList(base[i], canonical, ToSet(aliases))

MergeWork(todo, canonical, aliases, first, e) ==
    /\ first \in LiveEvent /\ first.kind = "observed_state"
    /\ e \in LiveEvent /\ e.kind = "merged" /\ e.canonical = canonical
    /\ DOMAIN todo = 1 .. Len(aliases) + 1
    /\ todo[1] = <<canonical, first>>
    /\ \A n \in DOMAIN aliases : todo[n + 1] = <<aliases[n], e>>

NewMerge(tx, canonical, aliases) ==
    /\ TxTypeOK(tx) /\ DOMAIN tx.rows = {}
    /\ tx.aliases = aliases /\ tx.canonical = canonical /\ tx.at = begun + 1
    /\ MergedLists(tx.issues, canonical, aliases)
    /\ \E first, e : MergeWork(tx.todo, canonical, aliases, first, e)

LEMMA MergeBegins ==
    ASSUME NEW w \in Writers, NEW canonical \in TagName, NEW aliases \in Names,
           NEW rescored \in SUBSET TaggedIssue, MergeTags(w, canonical, aliases, rescored),
           begun \in Nat
    PROVE  \E tx : Begin(w, tx) /\ NewMerge(tx, canonical, aliases)
<1>1. PICK e \in LiveEvent : /\ e = [TagEvent("merged", "live") EXCEPT !.canonical = canonical]
                             /\ e.kind = "merged" /\ e.canonical = canonical
  BY LiveEvents
<1>2. PICK first \in LiveEvent : /\ first = TagEvent("observed_state", "live")
                                 /\ first.kind = "observed_state"
  BY LiveEvents
<1>3. PICK at \in Nat : at = begun + 1
  OBVIOUS
<1>4. aliases \in Seq(TagName)
  BY NamesAre
<1>5. PICK p \in TagName \X LiveEvent : p = <<canonical, first>>
  OBVIOUS
<1>6. PICK todo \in Seq(TagName \X LiveEvent) :
         /\ todo = <<p>> \o [n \in DOMAIN aliases |-> <<aliases[n], e>>]
         /\ DOMAIN todo = 1 .. Len(aliases) + 1
         /\ todo[1] = p
         /\ \A n \in DOMAIN aliases : todo[n + 1] = <<aliases[n], e>>
  BY ZenonT(30), <1>4, MergeTodo
<1>7. PICK changed, issues :
         /\ changed = {i \in TaggedIssue :
                         MergedList(base[i], canonical, ToSet(aliases)) # base[i]} \cup rescored
         /\ issues = [i \in changed |-> MergedList(base[i], canonical, ToSet(aliases))]
  OBVIOUS
<1>8. PICK tx : tx = MergeTxOf(todo, issues, aliases, canonical, at)
  OBVIOUS
<1>9. Begin(w, tx)
  BY <1>1, <1>2, <1>3, <1>5, <1>6, <1>7, <1>8 DEF MergeTags, MergeTxOf
<1>10. FreshTx(tx, todo, issues, aliases, canonical, at)
  BY <1>4, <1>8, MergeTx
<1>11. MergeWork(todo, canonical, aliases, first, e)
  <2>1. /\ DOMAIN todo = 1 .. Len(aliases) + 1
        /\ todo[1] = <<canonical, first>>
        /\ \A n \in DOMAIN aliases : todo[n + 1] = <<aliases[n], e>>
    BY <1>5, <1>6
  <2>2. QED  BY <1>1, <1>2, <2>1 DEF MergeWork
<1>12. NewMerge(tx, canonical, aliases)
  BY <1>3, <1>7, <1>10, <1>11 DEF NewMerge, FreshTx, MergedLists
<1>13. QED  BY <1>9, <1>12

LEMMA MergeIsWell ==
    ASSUME NEW tx, NEW canonical \in TagName, NEW aliases \in Names,
           NewMerge(tx, canonical, aliases), canonical \notin ToSet(aliases)
    PROVE  MergesWell(tx)
<1>1. PICK first, e : MergeWork(tx.todo, canonical, aliases, first, e)
  BY DEF NewMerge
<1>2. PICK todo : todo = tx.todo
  OBVIOUS
<1>3. /\ first.kind = "observed_state" /\ e.kind = "merged" /\ e.canonical = canonical
      /\ DOMAIN todo = 1 .. Len(aliases) + 1 /\ todo[1] = <<canonical, first>>
      /\ \A n \in DOMAIN aliases : todo[n + 1] = <<aliases[n], e>>
  BY <1>1, <1>2 DEF MergeWork
<1>4. PICK k \in Nat : k = Len(aliases) /\ DOMAIN aliases = 1 .. k /\ DOMAIN todo = 1 .. k + 1
  BY <1>3, NamesAre
<1>5. /\ tx.aliases = aliases /\ tx.canonical = canonical /\ DOMAIN tx.rows = {}
  BY DEF NewMerge
<1>6. \A n \in DOMAIN aliases : aliases[n] \in ToSet(aliases)
  BY DEF ToSet
<1>7. ASSUME NEW j \in DOMAIN todo PROVE Intended(tx, todo[j][1], todo[j][2])
  <2>1. CASE j = 1
    BY <1>3, <1>5, <2>1 DEF Intended
  <2>2. CASE j # 1
    <3>1. PICK n \in DOMAIN aliases : j = n + 1
      <4>1. j - 1 \in 1 .. k /\ j = (j - 1) + 1
        BY <1>4, <2>2
      <4>2. QED  BY <1>4, <4>1
    <3>2. todo[j] = <<aliases[n], e>>
      BY <1>3, <3>1
    <3>3. QED  BY <1>3, <1>5, <1>6, <3>2 DEF Intended
  <2>3. QED  BY <2>1, <2>2
<1>8. ASSUME NEW t \in ToSet(aliases) PROVE \E j \in DOMAIN todo : todo[j][1] = t
  <2>1. PICK n \in DOMAIN aliases : aliases[n] = t
    BY DEF ToSet
  <2>2. n + 1 \in DOMAIN todo /\ todo[n + 1] = <<aliases[n], e>>
    BY <1>3, <1>4
  <2>3. QED  BY <2>1, <2>2
<1>9. QED  BY <1>2, <1>5, <1>7, <1>8 DEF MergesWell

LEMMA MergeKeeps ==
    ASSUME CatalogInv, NEW w \in Writers, NEW canonical \in TagName, NEW aliases \in Names,
           NEW rescored \in SUBSET TaggedIssue, MergeTags(w, canonical, aliases, rescored)
    PROVE  CatalogInv'
<1>1. begun \in Nat
  BY DEF CatalogInv, StreamsInv
<1>2. PICK tx : Begin(w, tx) /\ TxTypeOK(tx) /\ DOMAIN tx.rows = {}
  BY <1>1, MergeBegins DEF NewMerge
<1>3. QED  BY <1>2, TxBegins

LEMMA WithDomain ==
    ASSUME NEW f, NEW t, NEW x PROVE DOMAIN With(f, t, x) = DOMAIN f \cup {t}
BY DEF With

LEMMA WithAt ==
    ASSUME NEW f, NEW t, NEW x PROVE With(f, t, x)[t] = x
BY DEF With

LEMMA WithOther ==
    ASSUME NEW f, NEW t, NEW x, NEW s \in DOMAIN f, s # t PROVE With(f, t, x)[s] = f[s]
BY DEF With

(* The writer w appends e to the stream of t, or leaves its row alone.     *)
Appended(w, tx, t, e) ==
    /\ t \in TagName /\ e \in LiveEvent
    /\ writing' = [writing EXCEPT ![w] = tx]
    /\ UNCHANGED <<events, projection, merged, base, shown, analysed, crossed, seeding,
                   begun, runs, touched, raced>>
    /\ writing[w].open = TRUE /\ writing[w].todo # <<>>
    /\ Head(writing[w].todo) = <<t, e>>
    /\ TxTypeOK(tx)
    /\ tx.open = TRUE /\ tx.todo = Tail(writing[w].todo)
    /\ tx.issues = writing[w].issues /\ tx.aliases = writing[w].aliases
    /\ tx.canonical = writing[w].canonical /\ tx.at = writing[w].at
    /\ \A v \in Writers \ {w} : t \notin Held(v)
    /\ DOMAIN tx.rows = Held(w) \cup {t}
    /\ \A s \in Held(w) : s # t => tx.rows[s] = writing[w].rows[s] /\ tx.new[s] = writing[w].new[s]
    /\ \/ Appends(projection[t], e) /\ tx.new[t] = <<e>> /\ Staged(tx, t)
       \/ ~Appends(projection[t], e) /\ tx.new[t] = <<>>

LEMMA AppendIsStaged ==
    ASSUME CatalogInv, NEW w \in Writers, AppendEvent(w)
    PROVE  \E tx, t, e : Appended(w, tx, t, e)
<1>1. PICK old : old = writing[w] /\ TxTypeOK(old)
  BY DEF CatalogInv, WriterInv
<1>2. PICK p \in TagName \X LiveEvent, rest \in Seq(TagName \X LiveEvent) :
         old.todo # <<>> /\ p = Head(old.todo) /\ rest = Tail(old.todo)
  <2>1. PICK todo \in Seq(TagName \X LiveEvent) : todo = old.todo
    BY <1>1 DEF TxTypeOK
  <2>2. todo # <<>>
    BY <1>1, <2>1 DEF AppendEvent
  <2>3. Head(todo) \in TagName \X LiveEvent /\ Tail(todo) \in Seq(TagName \X LiveEvent)
    BY <2>1, <2>2
  <2>4. QED  BY <2>1, <2>2, <2>3
<1>3. PICK t \in TagName, e \in LiveEvent : p = <<t, e>> /\ p[1] = t /\ p[2] = e
  OBVIOUS
<1>4. PICK row \in Row : row = projection[t]
  BY DEF CatalogInv, StreamsInv
<1>5. PICK rows : rows = With(old.rows, t, IF Appends(row, e) THEN NextRow(row, e) ELSE row)
  OBVIOUS
<1>6. PICK new : new = With(old.new, t, IF Appends(row, e) THEN <<e>> ELSE <<>>)
  OBVIOUS
<1>7. PICK tx : tx = [old EXCEPT !.todo = rest, !.rows = rows, !.new = new]
  OBVIOUS
<1>8. tx = [open |-> old.open, todo |-> rest, rows |-> rows, new |-> new, issues |-> old.issues,
            aliases |-> old.aliases, canonical |-> old.canonical, at |-> old.at]
  BY <1>1, <1>7 DEF TxTypeOK
<1>9. /\ old.open = TRUE
      /\ \A v \in Writers \ {w} : t \notin Held(v)
      /\ Appends(row, e) => row.count = Len(events[t]) /\ seeding.new[t] = <<>>
      /\ writing' = [writing EXCEPT ![w] = tx]
      /\ UNCHANGED <<events, projection, merged, base, shown, analysed, crossed, seeding,
                     begun, runs, touched, raced>>
  <2>1. old.open = TRUE
    BY <1>1 DEF AppendEvent, Open, TxTypeOK
  <2>2. /\ \A v \in Writers \ {w} : t \notin Held(v)
        /\ Appends(row, e) => row.count = Len(events[t]) /\ seeding.new[t] = <<>>
    BY <1>1, <1>2, <1>3, <1>4 DEF AppendEvent
  <2>3. writing' = [writing EXCEPT ![w] = tx]
    BY <1>1, <1>2, <1>3, <1>4, <1>5, <1>6, <1>7 DEF AppendEvent
  <2>4. QED  BY <2>1, <2>2, <2>3 DEF AppendEvent, streams, carried, backfill
<1>10. /\ NextRow(row, e) \in Row
       /\ Appends(row, e) => NextRow(row, e) = Replayed(Append(events[t], e))
  <2>1. RowOrFirst(row) \in Row /\ e \in Event
    BY RowTypes DEF LiveEvent
  <2>2. NextRow(row, e) = Reduced(RowOrFirst(row), e)
    BY NextIsReduced
  <2>3. events[t] \in Seq(Event)
    BY DEF CatalogInv, StreamsInv
  <2>4. ASSUME Appends(row, e) PROVE row = Replayed(events[t])
    <3>1. ~(row.count < Len(events[t]))
      BY <1>9, <2>3, <2>4
    <3>2. QED  BY <1>4, <3>1 DEF CatalogInv, TagsReplay
  <2>5. Replayed(Append(events[t], e)) = Reduced(RowOrFirst(Replayed(events[t])), e)
    BY <2>1, <2>3, ReplayOneMore
  <2>6. NextRow(row, e) \in Row
    BY <2>1, <2>2, ReducedRow
  <2>7. QED  BY <2>2, <2>4, <2>5, <2>6
<1>11. /\ DOMAIN old.rows = Held(w) /\ DOMAIN old.new = Held(w) /\ Held(w) \subseteq TagName
       /\ \A s \in Held(w) : old.rows[s] \in Row /\ old.new[s] \in {<<>>} \cup {<<x>> : x \in LiveEvent}
  BY <1>1 DEF TxTypeOK, Held
<1>12. /\ DOMAIN rows = Held(w) \cup {t} /\ DOMAIN new = Held(w) \cup {t}
       /\ Appends(row, e) => rows[t] = NextRow(row, e) /\ new[t] = <<e>>
       /\ ~Appends(row, e) => rows[t] = row /\ new[t] = <<>>
       /\ \A s \in Held(w) : s # t => rows[s] = old.rows[s] /\ new[s] = old.new[s]
  <2>1. PICK r : r = IF Appends(row, e) THEN NextRow(row, e) ELSE row
    OBVIOUS
  <2>2. PICK n : n = IF Appends(row, e) THEN <<e>> ELSE <<>>
    OBVIOUS
  <2>3. rows = With(old.rows, t, r) /\ new = With(old.new, t, n)
    BY <1>5, <1>6, <2>1, <2>2
  <2>4. /\ DOMAIN rows = Held(w) \cup {t} /\ DOMAIN new = Held(w) \cup {t}
        /\ rows[t] = r /\ new[t] = n
        /\ \A s \in Held(w) : s # t => rows[s] = old.rows[s] /\ new[s] = old.new[s]
    <3>1. PICK f, g : f = old.rows /\ g = old.new
      OBVIOUS
    <3>2. /\ DOMAIN rows = DOMAIN f \cup {t} /\ rows[t] = r
          /\ \A s \in DOMAIN f : s # t => rows[s] = f[s]
      <4>1. rows = With(f, t, r)
        BY <2>3, <3>1
      <4>2. DOMAIN rows = DOMAIN f \cup {t}
        BY <4>1, WithDomain
      <4>3. rows[t] = r
        BY <4>1, WithAt
      <4>4. \A s \in DOMAIN f : s # t => rows[s] = f[s]
        BY <4>1, WithOther
      <4>5. QED  BY <4>2, <4>3, <4>4
    <3>3. /\ DOMAIN new = DOMAIN g \cup {t} /\ new[t] = n
          /\ \A s \in DOMAIN g : s # t => new[s] = g[s]
      <4>1. new = With(g, t, n)
        BY <2>3, <3>1
      <4>2. DOMAIN new = DOMAIN g \cup {t}
        BY <4>1, WithDomain
      <4>3. new[t] = n
        BY <4>1, WithAt
      <4>4. \A s \in DOMAIN g : s # t => new[s] = g[s]
        BY <4>1, WithOther
      <4>5. QED  BY <4>2, <4>3, <4>4
    <3>4. QED  BY <1>11, <3>1, <3>2, <3>3
  <2>5. QED  BY <2>1, <2>2, <2>4
<1>13. /\ tx.open = old.open /\ tx.todo = rest /\ tx.rows = rows /\ tx.new = new
       /\ tx.issues = old.issues /\ tx.aliases = old.aliases /\ tx.canonical = old.canonical
       /\ tx.at = old.at
       /\ tx = [open |-> tx.open, todo |-> tx.todo, rows |-> tx.rows, new |-> tx.new,
                issues |-> tx.issues, aliases |-> tx.aliases, canonical |-> tx.canonical,
                at |-> tx.at]
  BY <1>8
<1>14. TxTypeOK(tx)
  <2>1. \A s \in Held(w) \cup {t} :
           rows[s] \in Row /\ new[s] \in {<<>>} \cup {<<x>> : x \in LiveEvent}
    <3>1. rows[t] \in Row /\ new[t] \in {<<>>} \cup {<<x>> : x \in LiveEvent}
      BY <1>10, <1>12
    <3>2. QED  BY <1>11, <1>12, <3>1
  <2>2. old.aliases \in Seq(TagName) /\ old.at \in Nat
        /\ (old.aliases # <<>> => old.canonical \in TagName)
    BY <1>1 DEF TxTypeOK
  <2>3. Held(w) \cup {t} \subseteq TagName
    BY <1>11
  <2>4. QED  BY <1>2, <1>9, <1>12, <1>13, <2>1, <2>2, <2>3 DEF TxTypeOK
<1>15. \/ /\ Appends(projection[t], e)
          /\ tx.new[t] = <<e>> /\ Staged(tx, t)
       \/ ~Appends(projection[t], e) /\ tx.new[t] = <<>>
  <2>1. CASE Appends(row, e)
    <3>1. /\ tx.new[t] = <<e>> /\ seeding.new[t] = <<>>
          /\ tx.rows[t] = Replayed(Append(events[t], e))
      BY <1>9, <1>10, <1>12, <1>13, <2>1
    <3>2. QED  BY <1>4, <2>1, <3>1 DEF Staged
  <2>2. CASE ~Appends(row, e)
    BY <1>4, <1>12, <1>13, <2>2
  <2>3. QED  BY <2>1, <2>2
<1>16. /\ writing[w].open = TRUE /\ writing[w].todo # <<>>
       /\ Head(writing[w].todo) = <<t, e>> /\ tx.todo = Tail(writing[w].todo)
       /\ tx.open = TRUE
  BY <1>1, <1>2, <1>3, <1>9, <1>13
<1>17. QED
  <2>1. DOMAIN tx.rows = Held(w) \cup {t}
    BY <1>12, <1>13
  <2>2. \A s \in Held(w) : s # t => /\ tx.rows[s] = writing[w].rows[s]
                                  /\ tx.new[s] = writing[w].new[s]
    BY <1>1, <1>12, <1>13
  <2>3. /\ tx.issues = writing[w].issues /\ tx.aliases = writing[w].aliases
        /\ tx.canonical = writing[w].canonical /\ tx.at = writing[w].at
    BY <1>1, <1>13
  <2>4. Appended(w, tx, t, e)
    BY <1>9, <1>14, <1>15, <1>16, <2>1, <2>2, <2>3 DEF Appended
  <2>5. QED  BY <2>4

LEMMA AppendKeeps ==
    ASSUME CatalogInv, NEW w \in Writers, AppendEvent(w)
    PROVE  CatalogInv'
<1>1. PICK tx, t, e : Appended(w, tx, t, e)
  BY AppendIsStaged
<1> USE DEF Appended
<1>2. writing = [v \in Writers |-> writing[v]]
  BY DEF CatalogInv
<1>3. writing'[w] = tx /\ \A v \in Writers \ {w} : writing'[v] = writing[v]
  BY <1>1, <1>2
<1>4. writing' = [v \in Writers |-> writing'[v]]
  BY <1>1, <1>2
<1>5. StreamsInv' /\ SeedingInv' /\ TagsReplay'
  BY <1>1 DEF CatalogInv, StreamsInv, SeedingInv, ReadRow, TagsReplay
<1>6. Held(w)' = Held(w) \cup {t} /\ \A v \in Writers \ {w} : Held(v)' = Held(v)
  BY <1>1, <1>3 DEF Held
<1>7. ASSUME NEW v \in Writers PROVE WriterInv(v)'
  <2>1. CASE v = w
    <3>1. ASSUME NEW s \in Held(w)', tx.new[s] # <<>> PROVE Staged(tx, s)'
      <4>1. CASE s = t
        BY <1>1, <3>1, <4>1 DEF Staged
      <4>2. CASE s # t
        <5>1. Staged(writing[w], s) /\ tx.rows[s] = writing[w].rows[s] /\ tx.new[s] = writing[w].new[s]
          BY <1>1, <1>6, <3>1, <4>2 DEF CatalogInv, WriterInv
        <5>2. QED  BY <1>1, <5>1 DEF Staged
      <4>3. QED  BY <4>1, <4>2
    <3>2. QED  BY <1>1, <1>3, <2>1, <3>1 DEF WriterInv
  <2>2. CASE v # w
    BY <1>1, <1>3, <1>6, <2>2 DEF CatalogInv, WriterInv, Staged
  <2>3. QED  BY <2>1, <2>2
<1>8. \A u, v \in Writers : u # v => Held(u)' \cap Held(v)' = {}
  BY <1>1, <1>6 DEF CatalogInv
<1>9. QED  BY <1>4, <1>5, <1>7, <1>8 DEF CatalogInv

-----------------------------------------------------------------------------
(* Commits.                                                                *)

LEMMA HistoryGrows ==
    ASSUME NEW h \in History, NEW aliases \in Seq(TagName), NEW canonical, NEW at \in Nat,
           aliases # <<>> => canonical \in TagName,
           NEW rows, rows = [n \in DOMAIN aliases |->
                               [canonical |-> canonical, alias |-> aliases[n],
                                at |-> at, id |-> Len(h) + n]]
    PROVE  /\ h \o rows \in History
           /\ Len(h) \in Nat /\ Len(aliases) \in Nat
           /\ DOMAIN h = 1 .. Len(h) /\ DOMAIN (h \o rows) = 1 .. Len(h) + Len(aliases)
           /\ Len(h \o rows) = Len(h) + Len(aliases)
           /\ \A n \in 1 .. Len(h) : (h \o rows)[n] = h[n]
           /\ \A n \in DOMAIN aliases : (h \o rows)[Len(h) + n] = rows[n]
<1>1. PICK k \in Nat : k = Len(aliases) /\ DOMAIN aliases = 1 .. k
  OBVIOUS
<1>2. PICK m \in Nat : m = Len(h) /\ DOMAIN h = 1 .. m /\ h \in Seq(MergeRow)
  BY DEF History
<1>3. ASSUME NEW n \in 1 .. k PROVE rows[n] \in MergeRow /\ rows[n].id = m + n
  <2>1. PICK r : r = [canonical |-> canonical, alias |-> aliases[n], at |-> at, id |-> m + n]
    OBVIOUS
  <2>2. canonical \in TagName /\ aliases[n] \in TagName /\ m + n \in Nat
    BY <1>1
  <2>3. r \in MergeRow /\ r.id = m + n
    BY <2>1, <2>2 DEF MergeRow
  <2>4. QED  BY <1>1, <1>2, <2>1, <2>3
<1>4. rows \in Seq(MergeRow) /\ Len(rows) = k
  BY <1>1, <1>3
<1>5. PICK g : g = h \o rows
  OBVIOUS
<1>6. g \in Seq(MergeRow) /\ Len(g) = m + k /\ DOMAIN g = 1 .. m + k
  BY <1>2, <1>4, <1>5, ConcatProperties
<1>7. \A n \in 1 .. m + k : g[n] = IF n <= m THEN h[n] ELSE rows[n - m]
  <2>1. \A n \in 1 .. Len(h) + Len(rows) :
           (h \o rows)[n] = IF n <= Len(h) THEN h[n] ELSE rows[n - Len(h)]
    BY <1>2, <1>4, ConcatProperties
  <2>2. QED  BY <1>2, <1>4, <1>5, <2>1
<1>8. ASSUME NEW n \in 1 .. m PROVE g[n] = h[n]
  <2>1. n \in 1 .. m + k /\ n <= m
    OBVIOUS
  <2>2. QED  BY <1>7, <2>1
<1>9. ASSUME NEW n \in 1 .. k PROVE g[m + n] = rows[n]
  <2>1. PICK i \in 1 .. m + k : i = m + n /\ ~(i <= m) /\ i - m = n
    OBVIOUS
  <2>2. g[i] = rows[i - m]
    BY <1>7, <2>1
  <2>3. QED  BY <2>1, <2>2
<1>10. ASSUME NEW n \in 1 .. m + k PROVE g[n].id = n
  <2>1. CASE n <= m
    BY <1>2, <1>8, <2>1 DEF History
  <2>2. CASE n > m
    <3>1. n - m \in 1 .. k /\ n = m + (n - m)
      BY <2>2
    <3>2. QED  BY ZenonT(30), <1>3, <1>9, <3>1
  <2>3. QED  BY <2>1, <2>2
<1>11. g \in History
  BY <1>6, <1>10 DEF History
<1>12. QED  BY <1>1, <1>2, <1>5, <1>6, <1>8, <1>9, <1>11

ChangedTags(w) == {t \in Held(w) : writing[w].new[t] # <<>>}

(* Of the tags a committing writer holds, those it changed get its event.  *)
LEMMA CommitIs ==
    ASSUME CatalogInv, NEW w \in Writers, Commit(w)
    PROVE  /\ events' \in [TagName -> Seq(Event)]
           /\ \A t \in ChangedTags(w) :
                 /\ Staged(writing[w], t)
                 /\ \E e \in LiveEvent :
                       writing[w].new[t] = <<e>> /\ events'[t] = Append(events[t], e)
                 /\ projection'[t] = Replayed(events'[t])
           /\ \A t \in TagName \ ChangedTags(w) :
                 events'[t] = events[t] /\ projection'[t] = projection[t]
           /\ ChangedTags(w) \subseteq TagName
           /\ touched' = touched \cup ChangedTags(w)
<1>1. PICK new : new = writing[w].new /\ DOMAIN new = Held(w) /\ Held(w) \subseteq TagName
  BY DEF CatalogInv, WriterInv, TxTypeOK, Held
<1>2. \A t \in TagName : events[t] \in Seq(Event)
  BY DEF CatalogInv, StreamsInv
<1>3. events' = CommittedEvents(new)
  BY <1>1 DEF Commit
<1>4. projection' = [t \in TagName |-> IF t \in ChangedTags(w) THEN writing[w].rows[t]
                                                          ELSE projection[t]]
      /\ touched' = touched \cup ChangedTags(w)
  BY DEF Commit, ChangedTags
<1>5. ASSUME NEW t \in ChangedTags(w)
      PROVE  /\ Staged(writing[w], t)
             /\ \E e \in LiveEvent :
                   writing[w].new[t] = <<e>> /\ events'[t] = Append(events[t], e)
             /\ projection'[t] = Replayed(events'[t])
             /\ events'[t] \in Seq(Event)
  <2>1. t \in Held(w) /\ t \in TagName /\ Staged(writing[w], t)
    BY <1>1, <1>5 DEF CatalogInv, WriterInv, ChangedTags
  <2>2. PICK e \in LiveEvent : new[t] = <<e>> /\ writing[w].rows[t] = Replayed(Append(events[t], e))
    BY <1>1, <2>1 DEF Staged
  <2>3. events'[t] = events[t] \o new[t]
    BY <1>1, <1>3, <2>1 DEF CommittedEvents
  <2>4. e \in Event
    BY DEF LiveEvent
  <2>5. events[t] \o <<e>> = Append(events[t], e) /\ Append(events[t], e) \in Seq(Event)
    BY <1>2, <2>1, <2>4, AppendIsConcat, AppendProperties
  <2>6. events'[t] = Append(events[t], e)
    BY <2>2, <2>3, <2>5
  <2>7. projection'[t] = Replayed(events'[t])
    BY <1>4, <2>1, <2>2, <2>6
  <2>8. QED  BY <1>1, <2>1, <2>2, <2>5, <2>6, <2>7
<1>6. ASSUME NEW t \in TagName \ ChangedTags(w)
      PROVE  events'[t] = events[t] /\ projection'[t] = projection[t]
  <2>1. events'[t] = events[t] \o <<>>
    BY <1>1, <1>3 DEF CommittedEvents, ChangedTags
  <2>2. events[t] \o <<>> = events[t]
    BY <1>2, ConcatEmptySeq
  <2>3. QED  BY <1>4, <2>1, <2>2
<1>7. events' = [t \in TagName |-> events'[t]]
  BY <1>3 DEF CommittedEvents
<1>8. events' \in [TagName -> Seq(Event)]
  <2>1. \A t \in TagName : events'[t] \in Seq(Event)
    BY <1>2, <1>5, <1>6
  <2>2. QED  BY <1>7, <2>1
<1>9. ChangedTags(w) \subseteq TagName
  BY <1>1 DEF ChangedTags
<1>10. QED  BY <1>4, <1>5, <1>6, <1>8, <1>9

LEMMA CommitKeeps ==
    ASSUME CatalogInv, NEW w \in Writers, Commit(w)
    PROVE  CatalogInv'
<1>1. /\ writing' = [writing EXCEPT ![w] = NoTx]
      /\ UNCHANGED <<seeding, begun, raced>>
      /\ merged' = merged \o [n \in DOMAIN writing[w].aliases |->
                               [canonical |-> writing[w].canonical, alias |-> writing[w].aliases[n],
                                at |-> writing[w].at, id |-> Len(merged) + n]]
  BY DEF Commit
<1>2. writing = [v \in Writers |-> writing[v]] /\ TxTypeOK(writing[w])
  BY DEF CatalogInv, WriterInv
<1>3. writing'[w] = NoTx /\ \A v \in Writers \ {w} : writing'[v] = writing[v]
  BY <1>1, <1>2
<1>4. writing' = [v \in Writers |-> writing'[v]]
  BY <1>1, <1>2
<1>5. /\ Held(w)' = {} /\ TxTypeOK(NoTx)
      /\ \A v \in Writers \ {w} : Held(v)' = Held(v)
  BY <1>3, NoTxTypes DEF Held
<1>6. merged' \in History
  <2>1. PICK rows : rows = [n \in DOMAIN writing[w].aliases |->
                               [canonical |-> writing[w].canonical, alias |-> writing[w].aliases[n],
                                at |-> writing[w].at, id |-> Len(merged) + n]]
    OBVIOUS
  <2>2. /\ writing[w].aliases \in Seq(TagName) /\ writing[w].at \in Nat
        /\ writing[w].aliases # <<>> => writing[w].canonical \in TagName
        /\ merged \in History
    BY <1>2 DEF CatalogInv, StreamsInv, TxTypeOK
  <2>3. merged \o rows \in History
    <3>1. PICK a, c, at : a = writing[w].aliases /\ c = writing[w].canonical /\ at = writing[w].at
      OBVIOUS
    <3>2. PICK h : h = merged
      OBVIOUS
    <3>3. rows = [n \in DOMAIN a |-> [canonical |-> c, alias |-> a[n], at |-> at, id |-> Len(h) + n]]
      BY <2>1, <3>1, <3>2
    <3>4. a \in Seq(TagName) /\ at \in Nat /\ (a # <<>> => c \in TagName) /\ h \in History
      BY <2>2, <3>1, <3>2
    <3>5. h \o rows \in History
      BY <3>3, <3>4, HistoryGrows
    <3>6. QED  BY <3>2, <3>5
  <2>4. QED  BY <1>1, <2>1, <2>3
<1>7. projection' \in [TagName -> Row]
  <2>1. projection' = [t \in TagName |-> projection'[t]]
    BY DEF Commit
  <2>2. \A t \in TagName : projection'[t] \in Row
    BY CommitIs, ReplayedRow DEF CatalogInv, StreamsInv
  <2>3. QED  BY <2>1, <2>2
<1>8. StreamsInv'
  BY <1>1, <1>6, <1>7, CommitIs DEF CatalogInv, StreamsInv
<1>9. TagsReplay'
  <2>1. ASSUME NEW t \in TagName
        PROVE  \/ projection'[t] = Replayed(events'[t])
               \/ t \in raced' /\ projection'[t].count < Len(events'[t])
    <3>1. CASE t \in ChangedTags(w)
      BY <3>1, CommitIs
    <3>2. CASE t \notin ChangedTags(w)
      BY <1>1, <3>2, CommitIs DEF CatalogInv, TagsReplay
    <3>3. QED  BY <3>1, <3>2
  <2>2. QED  BY <2>1 DEF TagsReplay
<1>10. ASSUME NEW v \in Writers PROVE WriterInv(v)'
  <2>1. CASE v = w
    BY <1>3, <1>5, <2>1 DEF WriterInv
  <2>2. CASE v # w
    <3>1. ASSUME NEW t \in Held(v), writing[v].new[t] # <<>>
          PROVE  Staged(writing[v], t)'
      <4>1. Staged(writing[v], t) /\ t \in TagName
        BY <2>2, <3>1 DEF CatalogInv, WriterInv, TxTypeOK, Held
      <4>2. t \notin ChangedTags(w)
        BY <2>2 DEF CatalogInv, ChangedTags
      <4>3. events'[t] = events[t]
        BY <4>1, <4>2, CommitIs
      <4>4. QED  BY <1>1, <1>3, <2>2, <4>1, <4>3 DEF Staged
    <3>2. TxTypeOK(writing[v])
      BY DEF CatalogInv, WriterInv
    <3>3. QED  BY <1>3, <1>5, <2>2, <3>1, <3>2 DEF WriterInv
  <2>3. QED  BY <2>1, <2>2
<1>11. ASSUME NEW t \in TagName, seeding.at = "write" PROVE ReadRow(t)'
  <2>1. ReadRow(t) /\ events[t] \in Seq(Event) /\ seeding.new[t] \in Seq(Event)
    BY <1>11 DEF CatalogInv, SeedingInv, StreamsInv
  <2>2. CASE t \in ChangedTags(w)
    <3>1. PICK e \in LiveEvent : events'[t] = Append(events[t], e)
      BY <2>2, CommitIs
    <3>2. seeding.new[t] = <<>> /\ t \in touched'
      BY <2>2, CommitIs DEF Staged
    <3>3. events[t] \o <<>> = events[t]
      BY <2>1, ConcatEmptySeq
    <3>4. Len(events'[t]) = Len(events[t]) + 1 /\ Len(events[t]) \in Nat /\ Len(<<>>) = 0
      <4>1. e \in Event
        BY DEF LiveEvent
      <4>2. QED  BY <2>1, <3>1, <4>1, AppendProperties
    <3>5. CASE seeding.rows[t] = Replayed(events[t] \o seeding.new[t])
      <4>1. seeding.rows[t].count = Len(events[t])
        BY <2>1, <3>2, <3>3, <3>5, ReplayedRow
      <4>2. QED  BY <1>1, <3>2, <3>4, <4>1 DEF ReadRow
    <3>6. CASE t \in touched /\ seeding.rows[t].count < Len(events[t]) + Len(seeding.new[t])
      <4>1. seeding.rows[t].count \in Nat
        BY DEF CatalogInv, SeedingInv, Row
      <4>2. QED  BY <1>1, <3>2, <3>4, <3>6, <4>1 DEF ReadRow
    <3>7. QED  BY <2>1, <3>5, <3>6 DEF ReadRow
  <2>3. CASE t \notin ChangedTags(w)
    BY <1>1, <2>1, <2>3, CommitIs DEF ReadRow
  <2>4. QED  BY <2>2, <2>3
<1>12. SeedingInv'
  BY <1>1, <1>11 DEF CatalogInv, SeedingInv
<1>13. \A u, v \in Writers : u # v => Held(u)' \cap Held(v)' = {}
  BY <1>5 DEF CatalogInv
<1>14. QED  BY <1>4, <1>8, <1>9, <1>10, <1>12, <1>13 DEF CatalogInv

LEMMA AbortKeeps ==
    ASSUME CatalogInv, NEW w \in Writers, Abort(w)
    PROVE  CatalogInv'
<1>1. /\ UNCHANGED <<events, projection, merged, seeding, touched, raced, begun>>
      /\ writing' = [writing EXCEPT ![w] = NoTx]
  BY DEF Abort, streams, backfill
<1>2. writing = [v \in Writers |-> writing[v]]
  BY DEF CatalogInv
<1>3. writing'[w] = NoTx /\ \A v \in Writers \ {w} : writing'[v] = writing[v]
  BY <1>1, <1>2
<1>4. writing' = [v \in Writers |-> writing'[v]]
  BY <1>1, <1>2
<1>5. StreamsInv' /\ SeedingInv' /\ TagsReplay'
  BY <1>1 DEF CatalogInv, StreamsInv, SeedingInv, ReadRow, TagsReplay
<1>6. Held(w)' = {} /\ TxTypeOK(NoTx) /\ \A v \in Writers \ {w} : Held(v)' = Held(v)
  BY <1>3, NoTxTypes DEF Held
<1>7. ASSUME NEW v \in Writers PROVE WriterInv(v)'
  <2>1. CASE v = w
    BY <1>3, <1>6, <2>1 DEF WriterInv
  <2>2. CASE v # w
    BY <1>1, <1>3, <1>6, <2>2 DEF CatalogInv, WriterInv, Staged
  <2>3. QED  BY <2>1, <2>2
<1>8. \A u, v \in Writers : u # v => Held(u)' \cap Held(v)' = {}
  BY <1>6 DEF CatalogInv
<1>9. QED  BY <1>4, <1>5, <1>7, <1>8 DEF CatalogInv

-----------------------------------------------------------------------------
(* The backfill.                                                           *)

LEMMA SeedingChanges ==
    ASSUME CatalogInv, UNCHANGED <<events, projection, merged, writing, begun, raced>>,
           touched' \subseteq TagName, SeedingInv',
           \A w \in Writers : \A t \in Held(w) :
              writing[w].new[t] # <<>> => seeding'.new[t] = <<>>
    PROVE  CatalogInv'
<1>1. \A w \in Writers : Held(w)' = Held(w)
  BY DEF Held
<1>2. ASSUME NEW w \in Writers PROVE WriterInv(w)'
  BY <1>1 DEF CatalogInv, WriterInv, Staged
<1>3. StreamsInv' /\ TagsReplay'
  BY DEF CatalogInv, StreamsInv, TagsReplay
<1>4. (writing = [w \in Writers |-> writing[w]])'
  BY DEF CatalogInv
<1>5. \A u, v \in Writers : u # v => Held(u)' \cap Held(v)' = {}
  BY <1>1 DEF CatalogInv
<1>6. QED  BY <1>2, <1>3, <1>4, <1>5 DEF CatalogInv

SeedingOf(at, history, new, rows) ==
    [at |-> at, history |-> history, new |-> new, rows |-> rows]

LEMMA SeedingNew ==
    ASSUME SeedingInv, NEW at, NEW new, NEW x, x = [seeding EXCEPT !.at = at, !.new = new]
    PROVE  x = SeedingOf(at, seeding.history, new, seeding.rows)
<1>1. PICK old : old = seeding
  OBVIOUS
<1>2. old = [at |-> old.at, history |-> old.history, new |-> old.new, rows |-> old.rows]
  BY <1>1 DEF SeedingInv
<1>3. PICK y : y = [old EXCEPT !.at = at, !.new = new]
  OBVIOUS
<1>4. y = [at |-> at, history |-> old.history, new |-> new, rows |-> old.rows]
  BY <1>2, <1>3
<1>5. QED  BY <1>1, <1>3, <1>4 DEF SeedingOf

LEMMA SeedingRows ==
    ASSUME SeedingInv, NEW at, NEW rows, NEW x, x = [seeding EXCEPT !.at = at, !.rows = rows]
    PROVE  x = SeedingOf(at, seeding.history, seeding.new, rows)
<1>1. PICK old : old = seeding
  OBVIOUS
<1>2. old = [at |-> old.at, history |-> old.history, new |-> old.new, rows |-> old.rows]
  BY <1>1 DEF SeedingInv
<1>3. PICK y : y = [old EXCEPT !.at = at, !.rows = rows]
  OBVIOUS
<1>4. y = [at |-> at, history |-> old.history, new |-> old.new, rows |-> rows]
  BY <1>2, <1>3
<1>5. QED  BY <1>1, <1>3, <1>4 DEF SeedingOf

LEMMA StartsKeeps ==
    ASSUME CatalogInv, BackfillTags
    PROVE  CatalogInv'
<1>1. PICK s, h : s = seeding' /\ h = merged /\ h \in History
  BY DEF CatalogInv, StreamsInv
<1>2. s = [at |-> "seed", history |-> h, new |-> NoNew, rows |-> NotSeeding.rows]
  <2>1. PICK no, rows : no = NotSeeding /\ rows = NotSeeding.rows
    OBVIOUS
  <2>2. no = [at |-> "idle", history |-> <<>>, new |-> NoNew, rows |-> rows]
    BY <2>1, NotSeedingTypes
  <2>3. PICK y : y = [no EXCEPT !.at = "seed", !.history = h]
    OBVIOUS
  <2>4. y = [at |-> "seed", history |-> h, new |-> NoNew, rows |-> rows]
    BY <2>2, <2>3
  <2>5. QED  BY <1>1, <2>1, <2>3, <2>4 DEF BackfillTags
<1>3. SeedingInv'
  BY <1>1, <1>2, NotSeedingTypes DEF SeedingInv
<1>4. /\ UNCHANGED <<events, projection, merged, writing, begun, raced>>
      /\ touched' = {}
  BY DEF BackfillTags, streams
<1>5. \A w \in Writers : \A t \in Held(w) : seeding'.new[t] = <<>>
  BY <1>1, <1>2, NotSeedingTypes DEF CatalogInv, WriterInv, TxTypeOK, Held
<1>6. QED  BY <1>3, <1>4, <1>5, SeedingChanges

LEMMA SeedKeeps ==
    ASSUME CatalogInv, SeedEvents
    PROVE  CatalogInv' /\ Seeded(seeding'.new, seeding.history) /\ seeding'.history = seeding.history
<1>1. PICK new : new = FoldLeft(SeedMerge, LegacySeeds(NoNew), InMergeOrder(seeding.history))
  OBVIOUS
<1>2. Seeded(new, seeding.history) /\ new \in [TagName -> Seq(Event)]
  BY <1>1, SeedingIs DEF CatalogInv, SeedingInv, Seeded
<1>3. /\ seeding' = [seeding EXCEPT !.at = "reduce", !.new = new]
      /\ \A w \in Writers : \A t \in Held(w) : writing[w].new[t] # <<>> => new[t] = <<>>
      /\ UNCHANGED <<events, projection, merged, writing, begun, raced, touched>>
  BY <1>1 DEF SeedEvents, streams
<1>4. seeding' = SeedingOf("reduce", seeding.history, new, seeding.rows)
  BY <1>3, SeedingNew DEF CatalogInv
<1>5. SeedingInv' /\ seeding'.new = new /\ seeding'.history = seeding.history
  BY <1>2, <1>4 DEF CatalogInv, SeedingInv, SeedingOf
<1>6. touched' \subseteq TagName
  BY <1>3 DEF CatalogInv, StreamsInv
<1>7. QED  BY <1>2, <1>3, <1>5, <1>6, SeedingChanges

LEMMA ReduceKeeps ==
    ASSUME CatalogInv, ReduceEvents
    PROVE  CatalogInv'
<1>1. PICK rows : rows = [t \in TagName |-> Replayed(CommittedEvents(seeding.new)[t])]
  OBVIOUS
<1>2. \A t \in TagName : events[t] \o seeding.new[t] \in Seq(Event)
  BY ConcatProperties DEF CatalogInv, StreamsInv, SeedingInv
<1>3. \A t \in TagName : CommittedEvents(seeding.new)[t] = events[t] \o seeding.new[t]
  BY DEF CommittedEvents, CatalogInv, SeedingInv
<1>4. /\ seeding' = [seeding EXCEPT !.at = "write", !.rows = rows]
      /\ UNCHANGED <<events, projection, merged, writing, begun, raced, touched>>
  BY <1>1 DEF ReduceEvents, streams
<1>5. seeding' = SeedingOf("write", seeding.history, seeding.new, rows)
  BY <1>4, SeedingRows DEF CatalogInv
<1>6. /\ \A t \in TagName : rows[t] = Replayed(events[t] \o seeding.new[t])
      /\ rows \in [TagName -> Row]
  BY <1>1, <1>2, <1>3, ReplayedRow
<1>7. \A t \in TagName : ReadRow(t)'
  BY <1>4, <1>5, <1>6 DEF ReadRow, SeedingOf
<1>8. SeedingInv'
  BY <1>5, <1>6, <1>7 DEF CatalogInv, SeedingInv, SeedingOf
<1>9. /\ touched' \subseteq TagName
      /\ \A w \in Writers : \A t \in Held(w) :
            writing[w].new[t] # <<>> => seeding'.new[t] = <<>>
  BY <1>4, <1>5 DEF CatalogInv, StreamsInv, WriterInv, Staged, SeedingOf
<1>10. QED  BY <1>4, <1>8, <1>9, SeedingChanges

LEMMA FailKeeps ==
    ASSUME CatalogInv, BackfillFails
    PROVE  CatalogInv'
<1>1. /\ seeding' = NotSeeding
      /\ UNCHANGED <<events, projection, merged, writing, begun, raced, touched>>
  BY DEF BackfillFails, streams
<1>2. SeedingInv'
  BY <1>1, NotSeedingTypes DEF SeedingInv
<1>3. \A w \in Writers : \A t \in Held(w) : seeding'.new[t] = <<>>
  BY <1>1, NotSeedingTypes DEF CatalogInv, WriterInv, TxTypeOK, Held
<1>4. QED  BY <1>1, <1>2, <1>3, SeedingChanges DEF CatalogInv, StreamsInv

LEMMA WrittenEvents ==
    ASSUME CatalogInv, WriteProjections, NEW t \in TagName
    PROVE  /\ events'[t] = events[t] \o seeding.new[t] /\ events'[t] \in Seq(Event)
           /\ events[t] \in Seq(Event) /\ seeding.new[t] \in Seq(Event)
           /\ Len(events[t]) \in Nat /\ Len(seeding.new[t]) \in Nat
           /\ Len(events'[t]) = Len(events[t]) + Len(seeding.new[t])
           /\ seeding.rows[t] = NoTagRow => projection'[t] = projection[t]
           /\ seeding.rows[t] # NoTagRow => projection'[t] = seeding.rows[t]
<1>1. events[t] \in Seq(Event) /\ seeding.new[t] \in Seq(Event)
  BY DEF CatalogInv, StreamsInv, SeedingInv
<1>2. events'[t] = events[t] \o seeding.new[t]
  BY DEF WriteProjections, CommittedEvents, CatalogInv, SeedingInv
<1>3. /\ events[t] \o seeding.new[t] \in Seq(Event)
      /\ Len(events[t] \o seeding.new[t]) = Len(events[t]) + Len(seeding.new[t])
  BY <1>1, ConcatProperties
<1>4. Len(events[t]) \in Nat /\ Len(seeding.new[t]) \in Nat
  BY <1>1
<1>5. projection' = [s \in TagName |-> IF seeding.rows[s] = NoTagRow THEN projection[s]
                                                                  ELSE seeding.rows[s]]
  BY DEF WriteProjections
<1>6. QED  BY <1>1, <1>2, <1>3, <1>4, <1>5

LEMMA WriteKeeps ==
    ASSUME CatalogInv, WriteProjections
    PROVE  CatalogInv'
<1>1. /\ seeding' = NotSeeding /\ raced' = touched /\ seeding.at = "write"
      /\ UNCHANGED <<merged, writing, begun, touched>>
      /\ \A w \in Writers : \A t \in Held(w) : writing[w].new[t] = <<>>
  BY DEF WriteProjections
<1>2. SeedingInv'
  BY <1>1, NotSeedingTypes DEF SeedingInv
<1>3. StreamsInv'
  <2>1. \A t \in TagName : projection'[t] \in Row /\ events'[t] \in Seq(Event)
    BY WrittenEvents DEF CatalogInv, StreamsInv, SeedingInv
  <2>2. /\ projection' = [t \in TagName |-> projection'[t]]
        /\ events' = [t \in TagName |-> events'[t]]
    BY DEF WriteProjections, CommittedEvents
  <2>3. events' \in [TagName -> Seq(Event)] /\ projection' \in [TagName -> Row]
    BY <2>1, <2>2
  <2>4. QED  BY <1>1, <2>3 DEF CatalogInv, StreamsInv
<1>4. ASSUME NEW t \in TagName
      PROVE  \/ projection'[t] = Replayed(events'[t])
             \/ t \in raced' /\ projection'[t].count < Len(events'[t])
  <2>1. ReadRow(t)
    BY <1>1 DEF CatalogInv, SeedingInv
  <2>2. /\ projection[t].count \in Nat
        /\ \/ projection[t] = Replayed(events[t]) /\ projection[t].count = Len(events[t])
           \/ projection[t].count < Len(events[t])
    <3>1. projection[t].count \in Nat /\ events[t] \in Seq(Event)
      BY DEF CatalogInv, StreamsInv, Row
    <3>2. QED  BY <3>1, ReplayedRow DEF CatalogInv, TagsReplay
  <2>3. CASE seeding.rows[t] # NoTagRow
    BY <1>1, <2>1, <2>3, WrittenEvents DEF ReadRow
  <2>4. CASE seeding.rows[t] = NoTagRow
    <3>1. projection'[t] = projection[t]
      BY <2>4, WrittenEvents
    <3>2. CASE seeding.rows[t] = Replayed(events[t] \o seeding.new[t])
      <4>1. NoTagRow.count = 0
        BY DEF NoTagRow
      <4>2. Len(events'[t]) = 0
        BY <2>4, <3>2, <4>1, WrittenEvents, ReplayedRow
      <4>3. Len(events[t]) = 0 /\ Len(seeding.new[t]) = 0
        <5>1. PICK m \in Nat, n \in Nat :
                 m = Len(events[t]) /\ n = Len(seeding.new[t]) /\ Len(events'[t]) = m + n
          BY WrittenEvents
        <5>2. m + n = 0
          BY <4>2, <5>1
        <5>3. m = 0 /\ n = 0
          BY <5>2
        <5>4. QED  BY <5>1, <5>3
      <4>4. events[t] = <<>> /\ events'[t] = <<>>
        BY <4>2, <4>3, WrittenEvents, EmptySeq
      <4>5. QED  BY <2>2, <3>1, <4>3, <4>4
    <3>3. CASE t \in touched /\ seeding.new[t] # <<>>
      <4>1. Len(seeding.new[t]) > 0
        BY <3>3, WrittenEvents, EmptySeq
      <4>2. projection[t].count < Len(events'[t])
        <5>1. PICK m \in Nat, n \in Nat :
                 m = Len(events[t]) /\ n = Len(seeding.new[t]) /\ Len(events'[t]) = m + n
          BY WrittenEvents
        <5>2. PICK c \in Nat : c = projection[t].count /\ c <= m
          BY <2>2, <5>1
        <5>3. n > 0
          BY <4>1, <5>1
        <5>4. c < m + n
          BY <5>2, <5>3
        <5>5. QED  BY <5>1, <5>2, <5>4
      <4>3. QED  BY <1>1, <3>1, <3>3, <4>2
    <3>4. CASE t \in touched /\ seeding.new[t] = <<>>
      <4>1. events'[t] = events[t]
        BY <3>4, WrittenEvents, ConcatEmptySeq
      <4>2. QED  BY <1>1, <2>2, <3>1, <3>4, <4>1
    <3>5. QED  BY <2>1, <3>2, <3>3, <3>4 DEF ReadRow
  <2>5. QED  BY <2>3, <2>4
<1>5. TagsReplay'
  BY <1>4 DEF TagsReplay
<1>6. \A w \in Writers : Held(w)' = Held(w)
  BY <1>1 DEF Held
<1>7. ASSUME NEW w \in Writers PROVE WriterInv(w)'
  BY <1>1, <1>6 DEF CatalogInv, WriterInv
<1>8. (writing = [w \in Writers |-> writing[w]])'
  BY <1>1 DEF CatalogInv
<1>9. \A u, v \in Writers : u # v => Held(u)' \cap Held(v)' = {}
  BY <1>6 DEF CatalogInv
<1>10. QED  BY <1>2, <1>3, <1>5, <1>7, <1>8, <1>9 DEF CatalogInv

LEMMA IdleKeeps ==
    ASSUME CatalogInv, UNCHANGED <<streams, writing, begun, backfill>>
    PROVE  CatalogInv'
BY SeedingChanges DEF CatalogInv, StreamsInv, SeedingInv, ReadRow, WriterInv, Staged, streams,
                      backfill

(* What issues carry and how far their enrichments are.                    *)
AnalysisOK(a) ==
    /\ a = [at |-> a.at, tags |-> a.tags, by |-> a.by]
    /\ a.at \in {"idle", "chosen", "storing", "stored"}
    /\ a.at \in {"chosen", "storing"} => a.tags \in Names
    /\ a.at = "stored" => a.tags \in Names \cup {<<>>}
    /\ a.by \subseteq Writers /\ (a.at # "storing" => a.by = {})

CarriedOK ==
    /\ base = [i \in TaggedIssue |-> base[i]]
    /\ shown = [i \in TaggedIssue |-> shown[i]]
    /\ analysed = [i \in TaggedIssue |-> analysed[i]]
    /\ \A i \in TaggedIssue : AnalysisOK(analysed[i])

LEMMA NoAnalysisOK == AnalysisOK(NoAnalysis) /\ NoAnalysis.by = {} /\ NoAnalysis.at = "idle"
BY DEF AnalysisOK, NoAnalysis

LEMMA CarriedStarts == TagInit => CarriedOK
BY NoAnalysisOK DEF TagInit, CarriedOK

LEMMA ReleasedOK ==
    ASSUME CarriedOK, NEW w \in Writers, NEW at \in {"idle", "stored"}, NEW i \in TaggedIssue
    PROVE  /\ AnalysisOK(Released(w, at)[i]) /\ w \notin Released(w, at)[i].by
           /\ \/ w \notin analysed[i].by /\ Released(w, at)[i] = analysed[i]
              \/ /\ w \in analysed[i].by /\ at = "stored" /\ Released(w, at)[i].by = {}
                 /\ Released(w, at)[i].tags = analysed[i].tags
              \/ Released(w, at)[i] = NoAnalysis
<1>1. PICK a : a = analysed[i] /\ AnalysisOK(a)
  BY DEF CarriedOK
<1>2. PICK x : x = [a EXCEPT !.at = at, !.by = {}]
  OBVIOUS
<1>3. x = [at |-> at, tags |-> a.tags, by |-> {}]
  BY <1>1, <1>2 DEF AnalysisOK
<1>4. Released(w, at)[i] = IF w \in a.by THEN IF at = "idle" THEN NoAnalysis ELSE x ELSE a
  BY <1>1, <1>2 DEF Released
<1>5. w \in a.by => a.tags \in Names
  BY <1>1 DEF AnalysisOK
<1>6. at = "stored" /\ w \in a.by => AnalysisOK(x)
  BY <1>3, <1>5 DEF AnalysisOK
<1>7. x.by = {} /\ x.tags = a.tags
  BY <1>3
<1>8. QED  BY <1>1, <1>4, <1>6, <1>7, NoAnalysisOK

LEMMA CarriedStep ==
    ASSUME CarriedOK, [TagNext]_tagVars
    PROVE  CarriedOK' /\ UNCHANGED base
<1>1. ASSUME UNCHANGED <<base, shown, analysed>> PROVE CarriedOK' /\ UNCHANGED base
  BY <1>1 DEF CarriedOK
<1>2. ASSUME NEW w \in Writers, Commit(w) \/ Abort(w) PROVE CarriedOK' /\ UNCHANGED base
  <2>1. PICK at \in {"idle", "stored"} : analysed' = Released(w, at)
    BY <1>2 DEF Commit, Abort
  <2>2. analysed' = [i \in TaggedIssue |-> analysed'[i]]
    BY <2>1 DEF Released
  <2>3. \A i \in TaggedIssue : AnalysisOK(analysed'[i])
    BY <2>1, ReleasedOK
  <2>4. UNCHANGED base /\ shown' = [i \in TaggedIssue |-> shown'[i]]
    BY <1>2 DEF Commit, Abort, CarriedOK
  <2>5. QED  BY <2>2, <2>3, <2>4 DEF CarriedOK
<1>3. ASSUME NEW w \in Writers, TagStep(w), ~(Commit(w) \/ Abort(w))
      PROVE  UNCHANGED <<base, shown, analysed>>
  BY <1>3 DEF TagStep, UpsertTags, UpdateTagSpecificity, MergeTags, AppendEvent, carried
<1>4. ASSUME NEW i \in TaggedIssue, NEW a, AnalysisOK(a), analysed' = [analysed EXCEPT ![i] = a],
             UNCHANGED base, shown' = [j \in TaggedIssue |-> shown'[j]]
      PROVE  CarriedOK' /\ UNCHANGED base
  BY <1>4 DEF CarriedOK
<1>5. ASSUME NEW i \in TaggedIssue, NEW names \in Names \cup {<<>>}, Analyse(i, names)
      PROVE  CarriedOK' /\ UNCHANGED base
  <2>1. PICK a : a = [at |-> IF names = <<>> THEN "stored" ELSE "chosen", tags |-> names, by |-> {}]
    OBVIOUS
  <2>2. AnalysisOK(a)
    BY <2>1 DEF AnalysisOK
  <2>3. QED  BY <1>4, <1>5, <2>1, <2>2 DEF Analyse, CarriedOK
<1>6. ASSUME NEW i \in TaggedIssue, NEW w \in Writers, NEW text, StoreTags(i, w, text)
      PROVE  CarriedOK' /\ UNCHANGED base
  <2>1. PICK a : a = analysed[i] /\ AnalysisOK(a) /\ a.at = "chosen"
    BY <1>6 DEF CarriedOK, StoreTags
  <2>2. PICK b : b = [a EXCEPT !.at = "storing", !.by = {w}]
    OBVIOUS
  <2>3. b = [at |-> "storing", tags |-> a.tags, by |-> {w}]
    BY <2>1, <2>2 DEF AnalysisOK
  <2>4. AnalysisOK(b)
    BY <2>1, <2>3 DEF AnalysisOK
  <2>5. analysed' = [analysed EXCEPT ![i] = b]
    BY <1>6, <2>1, <2>2 DEF StoreTags, CarriedOK
  <2>6. QED  BY <1>4, <1>6, <2>4, <2>5 DEF StoreTags, CarriedOK
<1>7. ASSUME NEW i \in TaggedIssue, NEW tags, WriteTags(i, tags) \/ AnalysisFails(i)
      PROVE  CarriedOK' /\ UNCHANGED base
  BY <1>4, <1>7, NoAnalysisOK DEF WriteTags, AnalysisFails, CarriedOK
<1>8. ASSUME BackfillTags \/ SeedEvents \/ ReduceEvents \/ WriteProjections \/ BackfillFails
      PROVE  UNCHANGED <<base, shown, analysed>>
  BY <1>8 DEF BackfillTags, SeedEvents, ReduceEvents, WriteProjections, BackfillFails, carried
<1>9. CASE UNCHANGED tagVars
  BY <1>1, <1>9 DEF tagVars
<1>10. ASSUME NEW i \in TaggedIssue, EnrichmentStep(i) PROVE CarriedOK' /\ UNCHANGED base
  BY <1>5, <1>6, <1>7, <1>10 DEF EnrichmentStep
<1>11. QED  BY <1>1, <1>2, <1>3, <1>8, <1>9, <1>10 DEF TagNext

LEMMA CarriedInvariant == TagSpec => []CarriedOK
<1>1. CarriedOK /\ [TagNext]_tagVars => CarriedOK'
  BY CarriedStep
<1>2. QED  BY <1>1, CarriedStarts, PTL DEF TagSpec

(* An enrichment touches the streams only by beginning to store its tags.  *)
LEMMA EnrichmentBegins ==
    ASSUME CarriedOK, NEW i \in TaggedIssue, EnrichmentStep(i)
    PROVE  \/ UNCHANGED <<streams, writing, begun, backfill>>
           \/ \E w \in Writers, names \in Names, text \in {"none", "live"} :
                 Begin(w, UpsertTx(names, text))
<1>1. ASSUME NEW w \in Writers, NEW text \in {"none", "live"}, StoreTags(i, w, text)
      PROVE  analysed[i].tags \in Names /\ Begin(w, UpsertTx(analysed[i].tags, text))
  BY <1>1 DEF StoreTags, CarriedOK, AnalysisOK
<1>2. ASSUME NEW names, Analyse(i, names) PROVE UNCHANGED <<streams, writing, begun, backfill>>
  BY <1>2 DEF Analyse
<1>3. ASSUME NEW tags, WriteTags(i, tags) PROVE UNCHANGED <<streams, writing, begun, backfill>>
  BY <1>3 DEF WriteTags
<1>4. AnalysisFails(i) => UNCHANGED <<streams, writing, begun, backfill>>
  BY DEF AnalysisFails
<1>5. QED  BY <1>1, <1>2, <1>3, <1>4 DEF EnrichmentStep

LEMMA CatalogStep ==
    ASSUME CatalogInv, CarriedOK, [TagNext]_tagVars
    PROVE  CatalogInv'
<1>1. ASSUME NEW w \in Writers, TagStep(w) PROVE CatalogInv'
  <2>1. ASSUME NEW names \in Names, NEW text \in {"none", "live"}, UpsertTags(w, names, text)
        PROVE  CatalogInv'
    BY <2>1, UpsertKeeps DEF UpsertTags
  <2>2. ASSUME NEW t \in TagName, UpdateTagSpecificity(w, t)
        PROVE  CatalogInv'
    BY <2>2, SpecificityKeeps
  <2>3. ASSUME NEW canonical \in TagName, NEW aliases \in Names,
               NEW rescored \in SUBSET TaggedIssue, MergeTags(w, canonical, aliases, rescored)
        PROVE  CatalogInv'
    BY <2>3, MergeKeeps
  <2>4. QED  BY <1>1, <2>1, <2>2, <2>3, AppendKeeps, CommitKeeps, AbortKeeps DEF TagStep
<1>2. ASSUME NEW i \in TaggedIssue, EnrichmentStep(i) PROVE CatalogInv'
  BY <1>2, EnrichmentBegins, IdleKeeps, UpsertKeeps
<1>3. CASE UNCHANGED tagVars
  BY <1>3, IdleKeeps DEF tagVars, streams, backfill
<1>4. QED
  BY <1>1, <1>2, <1>3, StartsKeeps, SeedKeeps, ReduceKeeps, WriteKeeps, FailKeeps DEF TagNext

(* Whatever writers and the backfill do, CatalogInv holds.                 *)
THEOREM CatalogInvariant == TagSpec => []CatalogInv
<1>1. TagInit => CatalogInv
  BY CatalogStarts
<1>2. CatalogInv /\ CarriedOK /\ [TagNext]_tagVars => CatalogInv'
  BY CatalogStep
<1>3. QED  BY <1>1, <1>2, CarriedInvariant, PTL DEF TagSpec

(* Every projection is what its stream replays to and counts its events,   *)
(* except for a tag a writer committed to after the last backfill had read *)
(* its stream, for any tags, issues, writers and numbers of runs.          *)
THEOREM TagRowsReplay == TagSpec => []TagsReplay
<1>1. CatalogInv => TagsReplay
  BY DEF CatalogInv
<1>2. QED  BY <1>1, CatalogInvariant, PTL

-----------------------------------------------------------------------------
(* What a stream says: whether a row has been seeded and into which tag    *)
(* its last merge goes.                                                    *)

SeededIn(s, from, row) == \E n \in DOMAIN s : s[n].from = from /\ s[n].row = row
MergedIn(s) == \E n \in DOMAIN s : s[n].kind = "merged"
Says(s, c) ==
    \E j \in DOMAIN s :
        /\ s[j].kind = "merged" /\ s[j].canonical = c
        /\ \A i \in DOMAIN s : i > j => s[i].kind # "merged"

(* g is s and then u, of m and n events.                                   *)
Joined(g, s, u, m, n) ==
    /\ DOMAIN s = 1 .. m /\ DOMAIN u = 1 .. n /\ DOMAIN g = 1 .. m + n
    /\ \A i \in 1 .. m : g[i] = s[i] /\ i \in 1 .. m + n
    /\ \A i \in 1 .. n : g[m + i] = u[i] /\ m + i \in 1 .. m + n
    /\ \A i \in 1 .. m + n : i \in 1 .. m \/ (i - m \in 1 .. n /\ m + (i - m) = i)

LEMMA ConcatIs ==
    ASSUME NEW S, NEW s \in Seq(S), NEW u \in Seq(S)
    PROVE  \E m, n \in Nat : Joined(s \o u, s, u, m, n)
<1>1. PICK m \in Nat, n \in Nat : DOMAIN s = 1 .. m /\ DOMAIN u = 1 .. n /\ m = Len(s) /\ n = Len(u)
  OBVIOUS
<1>2. PICK g : g = s \o u
  OBVIOUS
<1>3. /\ DOMAIN g = 1 .. m + n
      /\ \A i \in 1 .. m + n : g[i] = IF i <= m THEN s[i] ELSE u[i - m]
  <2>1. g \in Seq(S) /\ Len(g) = m + n
    BY <1>1, <1>2, ConcatProperties
  <2>2. \A i \in 1 .. Len(s) + Len(u) : (s \o u)[i] = IF i <= Len(s) THEN s[i] ELSE u[i - Len(s)]
    BY ConcatProperties
  <2>3. QED  BY <1>1, <1>2, <2>1, <2>2
<1>4. ASSUME NEW i \in 1 .. m PROVE g[i] = s[i] /\ i \in 1 .. m + n
  <2>1. i \in 1 .. m + n /\ i <= m
    OBVIOUS
  <2>2. QED  BY <1>3, <2>1
<1>5. ASSUME NEW i \in 1 .. n PROVE g[m + i] = u[i] /\ m + i \in 1 .. m + n
  <2>1. PICK k \in 1 .. m + n : k = m + i /\ ~(k <= m) /\ k - m = i
    OBVIOUS
  <2>2. g[k] = u[k - m]
    BY <1>3, <2>1
  <2>3. QED  BY <2>1, <2>2
<1>6. ASSUME NEW i \in 1 .. m + n PROVE i \in 1 .. m \/ (i - m \in 1 .. n /\ m + (i - m) = i)
  OBVIOUS
<1>7. Joined(g, s, u, m, n)
  BY <1>1, <1>3, <1>4, <1>5, <1>6 DEF Joined
<1>8. QED  BY <1>2, <1>7

LEMMA SeededConcat ==
    ASSUME NEW s \in Seq(Event), NEW u \in Seq(Event), NEW from, NEW row
    PROVE  SeededIn(s \o u, from, row) <=> SeededIn(s, from, row) \/ SeededIn(u, from, row)
<1>1. PICK g : g = s \o u
  OBVIOUS
<1>2. PICK m, n \in Nat : Joined(g, s, u, m, n)
  BY <1>1, ConcatIs
<1> USE DEF Joined
<1>3. ASSUME SeededIn(s, from, row) PROVE SeededIn(g, from, row)
  BY <1>2, <1>3 DEF SeededIn
<1>4. ASSUME SeededIn(u, from, row) PROVE SeededIn(g, from, row)
  <2>1. PICK i \in 1 .. n : u[i].from = from /\ u[i].row = row
    BY <1>2, <1>4 DEF SeededIn
  <2>2. g[m + i] = u[i] /\ m + i \in DOMAIN g
    BY <1>2
  <2>3. QED  BY <2>1, <2>2 DEF SeededIn
<1>5. ASSUME SeededIn(g, from, row) PROVE SeededIn(s, from, row) \/ SeededIn(u, from, row)
  <2>1. PICK i \in 1 .. m + n : g[i].from = from /\ g[i].row = row
    BY <1>2, <1>5 DEF SeededIn
  <2>2. CASE i \in 1 .. m
    BY <1>2, <2>1, <2>2 DEF SeededIn
  <2>3. CASE i - m \in 1 .. n /\ m + (i - m) = i
    <3>1. PICK k \in 1 .. n : k = i - m /\ m + k = i
      BY <2>3
    <3>2. g[m + k] = u[k]
      BY <1>2
    <3>3. QED  BY <1>2, <2>1, <3>1, <3>2 DEF SeededIn
  <2>4. QED  BY <1>2, <2>2, <2>3
<1>6. QED  BY <1>1, <1>3, <1>4, <1>5

LEMMA SaysConcat ==
    ASSUME NEW s \in Seq(Event), NEW u \in Seq(Event), NEW c
    PROVE  /\ Says(u, c) => Says(s \o u, c)
           /\ Says(s, c) /\ ~MergedIn(u) => Says(s \o u, c)
<1>1. PICK g : g = s \o u
  OBVIOUS
<1>2. PICK m, n \in Nat : Joined(g, s, u, m, n)
  BY <1>1, ConcatIs
<1> USE DEF Joined
<1>3. ASSUME Says(u, c) PROVE Says(g, c)
  <2>1. PICK j \in 1 .. n : /\ u[j].kind = "merged" /\ u[j].canonical = c
                            /\ \A i \in 1 .. n : i > j => u[i].kind # "merged"
    BY <1>2, <1>3 DEF Says
  <2>2. PICK q \in 1 .. m + n : q = m + j /\ g[q] = u[j]
    BY <1>2
  <2>3. ASSUME NEW i \in 1 .. m + n, i > q PROVE g[i].kind # "merged"
    <3>1. PICK k \in 1 .. n : k > j /\ m + k = i
      BY <2>2, <2>3
    <3>2. g[m + k] = u[k]
      BY <1>2
    <3>3. QED  BY <2>1, <3>1, <3>2
  <2>4. QED  BY <1>2, <2>1, <2>2, <2>3 DEF Says
<1>4. ASSUME Says(s, c), ~MergedIn(u) PROVE Says(g, c)
  <2>1. PICK j \in 1 .. m : /\ s[j].kind = "merged" /\ s[j].canonical = c
                            /\ \A i \in 1 .. m : i > j => s[i].kind # "merged"
    BY <1>2, <1>4 DEF Says
  <2>2. j \in 1 .. m + n /\ g[j] = s[j]
    BY <1>2
  <2>3. ASSUME NEW i \in 1 .. m + n, i > j PROVE g[i].kind # "merged"
    <3>1. CASE i \in 1 .. m
      BY <1>2, <2>1, <2>3, <3>1
    <3>2. CASE i \notin 1 .. m
      <4>1. PICK k \in 1 .. n : m + k = i
        BY <1>2, <3>2
      <4>2. g[m + k] = u[k] /\ u[k].kind # "merged"
        BY <1>2, <1>4 DEF MergedIn
      <4>3. QED  BY <4>1, <4>2
    <3>3. QED  BY <3>1, <3>2
  <2>4. QED  BY <1>2, <2>1, <2>2, <2>3 DEF Says
<1>5. QED  BY <1>1, <1>3, <1>4

(* A live event of t leaves what has been seeded and, unless it merges t,  *)
(* what the stream says.                                                   *)
LEMMA OneMoreSays ==
    ASSUME NEW s \in Seq(Event), NEW e \in LiveEvent
    PROVE  /\ \A from \in {"legacy", "row"} : \A row :
                 SeededIn(Append(s, e), from, row) <=> SeededIn(s, from, row)
           /\ e.kind = "merged" => Says(Append(s, e), e.canonical)
           /\ \A c : Says(s, c) /\ e.kind # "merged" => Says(Append(s, e), c)
<1>1. e \in Event /\ e.from = "live"
  BY DEF LiveEvent
<1>2. PICK u : u = <<e>>
  OBVIOUS
<1>3. u \in Seq(Event) /\ DOMAIN u = {1} /\ u[1] = e
  BY <1>1, <1>2
<1>4. Append(s, e) = s \o u
  BY <1>1, <1>2, AppendIsConcat
<1>5. ASSUME NEW from \in {"legacy", "row"}, NEW row
      PROVE  SeededIn(Append(s, e), from, row) <=> SeededIn(s, from, row)
  <2>1. ~SeededIn(u, from, row)
    BY <1>1, <1>3 DEF SeededIn
  <2>2. QED  BY <1>3, <1>4, <2>1, SeededConcat
<1>6. e.kind = "merged" => Says(u, e.canonical)
  BY <1>3 DEF Says
<1>7. e.kind # "merged" => ~MergedIn(u)
  BY <1>3 DEF MergedIn
<1>8. e.kind = "merged" => Says(Append(s, e), e.canonical)
  BY <1>3, <1>4, <1>6, SaysConcat
<1>9. \A c : Says(s, c) /\ e.kind # "merged" => Says(Append(s, e), c)
  BY <1>3, <1>4, <1>7, SaysConcat
<1>10. QED  BY <1>5, <1>8, <1>9

(* A stream replays to the merge it says.                                  *)
LEMMA ReplaySays ==
    ASSUME NEW s \in Seq(Event), NEW c, Says(s, c)
    PROVE  Replayed(s).status = "merged" /\ Replayed(s).canonical = c
<1>1. PICK n \in Nat : n = Len(s) /\ DOMAIN s = 1 .. n
  OBVIOUS
<1>2. PICK a : /\ a[0] = FirstRow
               /\ \A k \in 1 .. n : a[k] = Reduced(a[k - 1], s[k])
               /\ Reduction(s) = a[n]
  BY <1>1, ReplaySteps
<1>3. PICK j \in 1 .. n : /\ s[j].kind = "merged" /\ s[j].canonical = c
                          /\ \A i \in 1 .. n : i > j => s[i].kind # "merged"
  BY <1>1 DEF Says
<1>4. PICK T : T = {k \in 0 .. n : /\ a[k] \in Row
                                   /\ k >= j => a[k].status = "merged" /\ a[k].canonical = c}
  OBVIOUS
<1>5. 0 \in T
  BY <1>2, <1>4, RowTypes
<1>6. ASSUME NEW k \in 1 .. n, k - 1 \in T
      PROVE  k \in T
  <2>1. PICK r \in Row, e \in Event : r = a[k - 1] /\ e = s[k] /\ a[k] = Reduced(r, e)
    BY <1>1, <1>2, <1>4, <1>6
  <2>2. PICK x \in Row : x = Reduced(r, e)
    BY ReducedRow
  <2>3. CASE k = j
    <3>1. e.kind = "merged" /\ e.canonical = c
      BY <1>3, <2>1, <2>3
    <3>2. x.status = "merged" /\ x.canonical = c
      BY <2>2, <3>1, ReducedRow
    <3>3. QED  BY <1>4, <2>1, <2>2, <3>2
  <2>4. CASE k > j
    <3>1. r.status = "merged" /\ r.canonical = c /\ e.kind # "merged"
      BY <1>3, <1>4, <1>6, <2>1, <2>4
    <3>2. x.status = "merged" /\ x.canonical = c
      BY <2>2, <3>1, ReducedRow
    <3>3. QED  BY <1>4, <2>1, <2>2, <3>2
  <2>5. CASE k < j
    BY <1>4, <2>1, <2>2, <2>5
  <2>6. QED  BY <2>3, <2>4, <2>5
<1>7. n \in T
  <2>1. \A k \in 0 .. n : k \in T
    BY <1>5, <1>6, StepByStep
  <2>2. QED  BY <2>1
<1>8. a[n].status = "merged" /\ a[n].canonical = c /\ s # <<>>
  BY <1>1, <1>3, <1>4, <1>7
<1>9. QED  BY <1>2, <1>8, ReplayedRow

LEMMA NoTxWell == MergesWell(NoTx)
<1>1. PICK tx : tx = NoTx /\ DOMAIN tx.rows = {}
  BY NoTxTypes
<1>2. tx.aliases = <<>> /\ tx.todo = <<>>
  BY <1>1 DEF NoTx
<1>3. ToSet(tx.aliases) = {} /\ DOMAIN tx.todo = {}
  BY <1>2, NoAlias
<1>4. QED  BY <1>1, <1>3 DEF MergesWell

LEMMA AppendsWell ==
    ASSUME CatalogInv, NEW w \in Writers, NEW tx, NEW t, NEW e, Appended(w, tx, t, e),
           MergesWell(writing[w])
    PROVE  MergesWell(tx)
<1>1. PICK old : old = writing[w] /\ TxTypeOK(old) /\ MergesWell(old)
  BY DEF CatalogInv, WriterInv
<1>2. PICK todo \in Seq(TagName \X LiveEvent) : todo = old.todo /\ todo # <<>>
  BY <1>1 DEF TxTypeOK, Appended
<1>3. PICK rest \in Seq(TagName \X LiveEvent) : rest = Tail(todo)
  <2>1. Tail(todo) \in Seq(TagName \X LiveEvent)
    BY <1>2, HeadTailProperties
  <2>2. QED  BY <2>1
<1>4. /\ tx.todo = rest /\ Head(todo) = <<t, e>> /\ e \in LiveEvent
      /\ tx.aliases = old.aliases /\ tx.canonical = old.canonical
      /\ DOMAIN tx.rows = DOMAIN old.rows \cup {t}
      /\ \A s \in DOMAIN old.rows : s # t => tx.new[s] = old.new[s]
      /\ \/ tx.new[t] = <<e>>
         \/ ~Appends(projection[t], e) /\ tx.new[t] = <<>>
  BY <1>1, <1>2, <1>3 DEF Appended, Held
<1>5. PICK k \in Nat : DOMAIN rest = 1 .. k /\ DOMAIN todo = 1 .. k + 1
                       /\ todo[1] = <<t, e>> /\ \A i \in 1 .. k : rest[i] = todo[i + 1]
  <2>1. /\ Len(rest) = Len(todo) - 1 /\ \A i \in 1 .. Len(rest) : rest[i] = todo[i + 1]
    BY <1>2, <1>3, HeadTailProperties
  <2>2. todo[1] = <<t, e>>
    BY <1>2, <1>4
  <2>3. PICK k \in Nat : k = Len(rest) /\ DOMAIN rest = 1 .. k
    BY <1>3
  <2>4. DOMAIN todo = 1 .. Len(todo) /\ Len(todo) \in Nat
    BY <1>2
  <2>5. Len(todo) = k + 1
    BY <2>1, <2>3, <2>4
  <2>6. QED  BY <2>1, <2>2, <2>3, <2>4, <2>5
<1>6. \A s, x : Intended(old, s, x) <=> Intended(tx, s, x)
  BY <1>4 DEF Intended
<1>7. Intended(tx, t, e)
  <2>1. 1 \in DOMAIN todo
    BY <1>5
  <2>2. Intended(old, todo[1][1], todo[1][2])
    BY <1>1, <1>2, <2>1 DEF MergesWell
  <2>3. QED  BY <1>5, <1>6, <2>2
<1>8. ASSUME NEW j \in DOMAIN rest PROVE Intended(tx, rest[j][1], rest[j][2])
  <2>1. j + 1 \in DOMAIN todo /\ rest[j] = todo[j + 1]
    BY <1>5
  <2>2. Intended(old, todo[j + 1][1], todo[j + 1][2])
    BY <1>1, <1>2, <2>1 DEF MergesWell
  <2>3. QED  BY <1>6, <2>1, <2>2
<1>9. ASSUME NEW s \in DOMAIN tx.rows, NEW x \in LiveEvent, tx.new[s] = <<x>>
      PROVE  Intended(tx, s, x)
  <2>1. CASE s = t
    <3>1. x = e
      <4>1. <<x>> # <<>>
        OBVIOUS
      <4>2. PICK new : new = tx.new[t]
        OBVIOUS
      <4>3. new = <<x>> /\ (new = <<e>> \/ new = <<>>)
        BY <1>4, <1>9, <2>1, <4>2
      <4>4. <<x>> = <<e>>
        BY <4>1, <4>3
      <4>5. QED  BY <4>4
    <3>2. QED  BY <1>7, <2>1, <3>1
  <2>2. CASE s # t
    BY <1>1, <1>4, <1>6, <1>9, <2>2 DEF MergesWell
  <2>3. QED  BY <2>1, <2>2
<1>10. ASSUME NEW s \in ToSet(tx.aliases)
       PROVE  \/ s \in DOMAIN tx.rows /\ tx.new[s] # <<>>
              \/ \E j \in DOMAIN rest : rest[j][1] = s
  <2>1. CASE s = t
    <3>1. e.kind = "merged"
      BY <1>7, <1>10, <2>1 DEF Intended
    <3>2. Appends(projection[t], e)
      BY <3>1 DEF Appends
    <3>3. tx.new[t] = <<e>>
      BY <1>4, <3>2
    <3>4. QED  BY <1>4, <2>1, <3>3
  <2>2. CASE s # t
    <3>1. \/ s \in DOMAIN old.rows /\ old.new[s] # <<>>
          \/ \E j \in DOMAIN todo : todo[j][1] = s
      BY <1>1, <1>2, <1>4, <1>10 DEF MergesWell
    <3>2. ASSUME NEW j \in DOMAIN todo, todo[j][1] = s
          PROVE  \E i \in DOMAIN rest : rest[i][1] = s
      <4>1. j # 1
        BY <1>5, <2>2, <3>2
      <4>2. j - 1 \in 1 .. k /\ (j - 1) + 1 = j
        BY <1>5, <4>1
      <4>3. rest[j - 1] = todo[j]
        BY <1>5, <4>2
      <4>4. QED  BY <1>5, <3>2, <4>2, <4>3
    <3>3. QED  BY <1>4, <2>2, <3>1, <3>2
  <2>3. QED  BY <2>1, <2>2
<1>11. QED  BY <1>4, <1>8, <1>9, <1>10 DEF MergesWell

-----------------------------------------------------------------------------
(* The inductive invariant of the merges.                                  *)

(* Rows of the history are seeded in order, those the backfill has read    *)
(* first; a seed of the legacy table stands for no row.                    *)
RowsSeeded ==
    /\ \A t \in TagName : \A k : SeededIn(events[t], "row", k) =>
          /\ k \in DOMAIN merged
          /\ seeding.at # "idle" => k \in DOMAIN seeding.history
    /\ \A t \in TagName : \A k : SeededIn(events[t], "legacy", k) => k = 0
    /\ \A m, n \in DOMAIN merged : m < n /\ Unseeded(merged[m]) => Unseeded(merged[n])

(* The backfill has read what was there when it began, and commits since   *)
(* are recorded.                                                           *)
HistoryRead ==
    /\ seeding.at # "idle" =>
          /\ DOMAIN seeding.history \subseteq DOMAIN merged
          /\ \A n \in DOMAIN merged :
                IF n \in DOMAIN seeding.history THEN seeding.history[n] = merged[n]
                                                ELSE merged[n].alias \in touched
    /\ seeding.at \in {"reduce", "write"} => Seeded(seeding.new, seeding.history)

LastRow(n) == \A m \in DOMAIN merged : m > n => merged[m].alias # merged[n].alias

(* The stream of a tag says its last merge, or will when that is seeded.   *)
MergeSaid ==
    \A n \in DOMAIN merged :
        LET t == merged[n].alias IN
        LastRow(n) /\ merged[n].at # 0 /\ ~Overlapped(t) =>
            \/ Says(events[t], merged[n].canonical)
            \/ t \in raced /\ Unseeded(merged[n])

StickInv ==
    /\ CatalogInv
    /\ \A w \in Writers : MergesWell(writing[w])
    /\ RowsSeeded /\ HistoryRead /\ MergeSaid

LEMMA UnseededIs ==
    ASSUME NEW m
    PROVE  Unseeded(m) <=> ~SeededIn(events[m.alias], "row", m.id)
BY DEF Unseeded, AlreadySeeded, SeededIn

(* A stream keeps what has been seeded: so does the backfill.              *)
LEMMA SeededStays ==
    ASSUME NEW h \in History, NEW new, Seeded(new, h), seeding'.history = h, seeding'.new = new,
           \A t \in TagName : \A from \in {"legacy", "row"} : \A row :
              SeededIn(events[t], from, row)' <=> SeededIn(events[t], from, row)
    PROVE  Seeded(seeding.new, seeding.history)'
<1>1. \A t \in TagName : AlreadySeeded(t, "legacy", 0)' <=> AlreadySeeded(t, "legacy", 0)
  BY DEF AlreadySeeded, SeededIn
<1>2. \A n \in DOMAIN h : Unseeded(h[n])' <=> Unseeded(h[n])
  <2>1. ASSUME NEW n \in DOMAIN h PROVE Unseeded(h[n])' <=> Unseeded(h[n])
    <3>1. h[n].alias \in TagName
      BY HistoryRows DEF MergeRow
    <3>2. QED  BY <3>1 DEF Unseeded, AlreadySeeded, SeededIn
  <2>2. QED  BY <2>1
<1>3. ASSUME NEW t \in TagName, NEW e, SeedFrom(e, t, h)
      PROVE  SeedFrom(e, t, h)'
  BY <1>1, <1>2, <1>3 DEF SeedFrom
<1>4. Seeded(new, h)'
  BY <1>2, <1>3 DEF Seeded
<1>5. QED  BY <1>4

LEMMA StickStarts == TagInit => StickInv
<1> SUFFICES ASSUME TagInit PROVE StickInv
  OBVIOUS
<1>1. \A w \in Writers : MergesWell(writing[w])
  BY NoTxWell DEF TagInit
<1>2. \A t \in TagName : events[t] = <<>>
  BY NotSeedingTypes DEF TagInit
<1>3. \A t \in TagName : \A from, k : ~SeededIn(events[t], from, k)
  BY <1>2 DEF SeededIn
<1>4. merged \in History
  BY CatalogStarts DEF CatalogInv, StreamsInv
<1>5. \A n \in DOMAIN merged : Unseeded(merged[n])
  <2>1. \A n \in DOMAIN merged : merged[n].alias \in TagName
    BY <1>4, HistoryRows DEF MergeRow
  <2>2. QED  BY <1>3, <2>1, UnseededIs
<1>6. RowsSeeded
  BY <1>3, <1>5 DEF RowsSeeded
<1>7. HistoryRead
  BY NotSeedingTypes DEF TagInit, HistoryRead
<1>8. MergeSaid
  <2>1. \A n \in DOMAIN merged : merged[n].at = 0
    BY DEF TagInit, LegacyMerges
  <2>2. QED  BY <2>1 DEF MergeSaid
<1>9. QED  BY <1>1, <1>6, <1>7, <1>8, CatalogStarts DEF StickInv

(* Steps that leave the streams and the backfill alone.                    *)
LEMMA StickFrame ==
    ASSUME StickInv, CatalogInv', UNCHANGED <<events, merged, seeding, touched, raced>>,
           \A w \in Writers : MergesWell(writing'[w])
    PROVE  StickInv'
<1>1. Seeded(seeding.new, seeding.history)' <=> Seeded(seeding.new, seeding.history)
  BY DEF Seeded, SeedFrom, Unseeded, AlreadySeeded
<1>2. RowsSeeded'
  BY DEF StickInv, RowsSeeded, Unseeded, AlreadySeeded, SeededIn
<1>3. HistoryRead'
  BY <1>1 DEF StickInv, HistoryRead
<1>4. MergeSaid'
  BY DEF StickInv, MergeSaid, LastRow, Overlapped, Says, Unseeded, AlreadySeeded
<1>5. QED  BY <1>2, <1>3, <1>4 DEF StickInv

(* The history after a commit.                                             *)
LEMMA CommittedHistory ==
    ASSUME CatalogInv, NEW w \in Writers, Commit(w)
    PROVE  \E m, k \in Nat :
             /\ DOMAIN merged = 1 .. m /\ DOMAIN merged' = 1 .. m + k
             /\ DOMAIN writing[w].aliases = 1 .. k
             /\ \A n \in 1 .. m : merged'[n] = merged[n]
             /\ \A n \in 1 .. k :
                   /\ merged'[m + n].canonical = writing[w].canonical
                   /\ merged'[m + n].alias = writing[w].aliases[n]
                   /\ merged'[m + n].at = writing[w].at
                   /\ merged'[m + n].id = m + n
<1>1. TxTypeOK(writing[w]) /\ merged \in History
  BY DEF CatalogInv, WriterInv, StreamsInv
<1>2. PICK h, a, c, at : h = merged /\ a = writing[w].aliases /\ c = writing[w].canonical
                         /\ at = writing[w].at
  OBVIOUS
<1>3. a \in Seq(TagName) /\ at \in Nat /\ (a # <<>> => c \in TagName) /\ h \in History
  BY <1>1, <1>2 DEF TxTypeOK
<1>4. PICK rows : rows = [n \in DOMAIN a |-> [canonical |-> c, alias |-> a[n], at |-> at,
                                               id |-> Len(h) + n]]
  OBVIOUS
<1>5. merged' = h \o rows
  BY <1>2, <1>4 DEF Commit
<1>6. PICK g : g = h \o rows
  OBVIOUS
<1>7. /\ Len(h) \in Nat /\ Len(a) \in Nat
      /\ DOMAIN h = 1 .. Len(h) /\ DOMAIN g = 1 .. Len(h) + Len(a)
      /\ \A n \in 1 .. Len(h) : g[n] = h[n]
      /\ \A n \in DOMAIN a : g[Len(h) + n] = rows[n]
  BY SMTT(30), <1>3, <1>4, <1>6, HistoryGrows
<1>8. DOMAIN a = 1 .. Len(a)
  BY <1>3
<1>9. \A n \in DOMAIN a : /\ rows[n].canonical = c /\ rows[n].alias = a[n]
                          /\ rows[n].at = at /\ rows[n].id = Len(h) + n
  BY <1>4
<1>10. PICK m \in Nat, k \in Nat : m = Len(h) /\ k = Len(a)
  BY <1>7
<1>11. /\ DOMAIN h = 1 .. m /\ DOMAIN g = 1 .. m + k /\ DOMAIN a = 1 .. k
       /\ \A n \in 1 .. m : g[n] = h[n]
       /\ \A n \in 1 .. k : /\ g[m + n].canonical = c /\ g[m + n].alias = a[n]
                             /\ g[m + n].at = at /\ g[m + n].id = m + n
  <2>1. /\ DOMAIN h = 1 .. m /\ DOMAIN g = 1 .. m + k /\ DOMAIN a = 1 .. k
        /\ \A n \in 1 .. m : g[n] = h[n]
    BY <1>7, <1>8, <1>10
  <2>2. \A n \in 1 .. k : g[m + n] = rows[n]
    BY <1>7, <1>8, <1>10
  <2>3. \A n \in 1 .. k : /\ rows[n].canonical = c /\ rows[n].alias = a[n]
                           /\ rows[n].at = at /\ rows[n].id = m + n
    BY <1>9, <1>10, <2>1
  <2>4. QED  BY <2>1, <2>2, <2>3
<1>12. merged' = g /\ merged = h
  BY <1>2, <1>5, <1>6
<1>13. QED  BY <1>2, <1>11, <1>12

(* What a commit leaves of a stream.                                       *)
LEMMA CommittedStreams ==
    ASSUME StickInv, NEW w \in Writers, Commit(w)
    PROVE  /\ \A t \in TagName : \A from \in {"legacy", "row"} : \A row :
                 SeededIn(events[t], from, row)' <=> SeededIn(events[t], from, row)
           /\ ToSet(writing[w].aliases) \subseteq ChangedTags(w)
           /\ \A t \in ToSet(writing[w].aliases) : Says(events'[t], writing[w].canonical)
           /\ \A t \in TagName \ ToSet(writing[w].aliases) : \A c :
                 Says(events[t], c) => Says(events'[t], c)
<1>1. MergesWell(writing[w]) /\ writing[w].todo = <<>> /\ CatalogInv
  BY DEF StickInv, Commit
<1>2. ToSet(writing[w].aliases) \subseteq ChangedTags(w)
  <2>1. DOMAIN writing[w].todo = {}
    BY <1>1
  <2>2. QED  BY <1>1, <2>1 DEF MergesWell, ChangedTags, Held
<1>3. ASSUME NEW t \in ChangedTags(w)
      PROVE  \E e \in LiveEvent : /\ events'[t] = Append(events[t], e) /\ events[t] \in Seq(Event)
                                  /\ Intended(writing[w], t, e)
  <2>1. PICK e \in LiveEvent : writing[w].new[t] = <<e>> /\ events'[t] = Append(events[t], e)
    BY <1>1, <1>3, CommitIs
  <2>2. t \in DOMAIN writing[w].rows /\ t \in TagName
    BY <1>1, <1>3, CommitIs DEF ChangedTags, Held
  <2>3. Intended(writing[w], t, e)
    BY <1>1, <2>1, <2>2 DEF MergesWell
  <2>4. events[t] \in Seq(Event)
    BY <1>1, <2>2 DEF CatalogInv, StreamsInv
  <2>5. QED  BY <2>1, <2>3, <2>4
<1>4. ASSUME NEW t \in TagName, NEW from \in {"legacy", "row"}, NEW row
      PROVE  SeededIn(events[t], from, row)' <=> SeededIn(events[t], from, row)
  <2>1. CASE t \in ChangedTags(w)
    <3>1. PICK e \in LiveEvent : events'[t] = Append(events[t], e) /\ events[t] \in Seq(Event)
      BY <1>3, <2>1
    <3>2. SeededIn(Append(events[t], e), from, row) <=> SeededIn(events[t], from, row)
      BY <3>1, OneMoreSays
    <3>3. SeededIn(events'[t], from, row) <=> SeededIn(events[t], from, row)
      BY <3>1, <3>2
    <3>4. QED  BY <3>3 DEF SeededIn
  <2>2. CASE t \notin ChangedTags(w)
    BY <1>1, <2>2, CommitIs DEF SeededIn
  <2>3. QED  BY <2>1, <2>2
<1>5. ASSUME NEW t \in ToSet(writing[w].aliases)
      PROVE  Says(events'[t], writing[w].canonical)
  <2>1. PICK e \in LiveEvent : /\ events'[t] = Append(events[t], e) /\ events[t] \in Seq(Event)
                               /\ Intended(writing[w], t, e)
    BY <1>2, <1>3
  <2>2. e.kind = "merged" /\ e.canonical = writing[w].canonical
    BY <1>5, <2>1 DEF Intended
  <2>3. QED  BY <2>1, <2>2, OneMoreSays
<1>6. ASSUME NEW t \in TagName \ ToSet(writing[w].aliases), NEW c, Says(events[t], c)
      PROVE  Says(events'[t], c)
  <2>1. CASE t \in ChangedTags(w)
    <3>1. PICK e \in LiveEvent : /\ events'[t] = Append(events[t], e) /\ events[t] \in Seq(Event)
                                 /\ Intended(writing[w], t, e)
      BY <1>3, <2>1
    <3>2. e.kind # "merged"
      BY <1>6, <3>1 DEF Intended
    <3>3. QED  BY <1>6, <3>1, <3>2, OneMoreSays
  <2>2. CASE t \notin ChangedTags(w)
    BY <1>1, <1>6, <2>2, CommitIs
  <2>3. QED  BY <2>1, <2>2
<1>7. QED  BY <1>2, <1>4, <1>5, <1>6

LEMMA CommitSticks ==
    ASSUME StickInv, NEW w \in Writers, Commit(w)
    PROVE  StickInv'
<1>1. CatalogInv /\ CatalogInv' /\ RowsSeeded /\ HistoryRead /\ MergeSaid
  BY CommitKeeps DEF StickInv
<1>2. UNCHANGED <<seeding, raced>> /\ touched' = touched \cup ChangedTags(w)
  BY <1>1, CommitIs DEF Commit
<1>3. PICK m, k \in Nat :
             /\ DOMAIN merged = 1 .. m /\ DOMAIN merged' = 1 .. m + k
             /\ DOMAIN writing[w].aliases = 1 .. k
             /\ \A n \in 1 .. m : merged'[n] = merged[n]
             /\ \A n \in 1 .. k :
                   /\ merged'[m + n].canonical = writing[w].canonical
                   /\ merged'[m + n].alias = writing[w].aliases[n]
                   /\ merged'[m + n].at = writing[w].at
                   /\ merged'[m + n].id = m + n
  BY <1>1, CommittedHistory
<1>4. /\ \A n \in 1 .. m : n \in 1 .. m + k
      /\ \A n \in 1 .. m + k : n \in 1 .. m \/ \E i \in 1 .. k : n = m + i /\ n > m
  <2>1. ASSUME NEW n \in 1 .. m + k, n \notin 1 .. m
        PROVE  \E i \in 1 .. k : n = m + i /\ n > m
    <3>1. n - m \in 1 .. k /\ n = m + (n - m) /\ n > m
      BY <2>1
    <3>2. QED  BY <3>1
  <2>2. QED  BY <2>1
<1>5. ASSUME NEW n \in 1 .. m + k, n \notin 1 .. m
      PROVE  /\ merged'[n].alias \in ToSet(writing[w].aliases)
             /\ merged'[n].canonical = writing[w].canonical /\ merged'[n].id = n
  <2>1. PICK i \in 1 .. k : n = m + i
    BY <1>4, <1>5
  <2>2. writing[w].aliases[i] \in ToSet(writing[w].aliases)
    BY <1>3 DEF ToSet
  <2>3. QED  BY <1>3, <2>1, <2>2
<1>6. \A n \in DOMAIN merged' : merged'[n].alias \in TagName /\ merged'[n].id = n
  BY <1>1, HistoryRows DEF CatalogInv, StreamsInv, MergeRow
<1>7. ASSUME NEW n \in 1 .. m
      PROVE  Unseeded(merged[n])' <=> Unseeded(merged[n])
  <2>1. merged'[n] = merged[n] /\ merged[n].alias \in TagName
    BY <1>3, <1>4, <1>6
  <2>2. Unseeded(merged[n])' <=> ~SeededIn(events[merged[n].alias], "row", merged[n].id)'
    BY DEF Unseeded, AlreadySeeded, SeededIn
  <2>3. SeededIn(events[merged[n].alias], "row", merged[n].id)'
          <=> SeededIn(events[merged[n].alias], "row", merged[n].id)
    BY <2>1, CommittedStreams DEF SeededIn
  <2>4. QED  BY <2>2, <2>3, UnseededIs
<1>8. ASSUME NEW n \in 1 .. m + k, n \notin 1 .. m
      PROVE  Unseeded(merged[n])'
  <2>1. merged'[n].alias \in TagName /\ merged'[n].id = n
    BY <1>3, <1>6
  <2>2. ~SeededIn(events[merged'[n].alias], "row", n)
    BY <1>1, <1>3, <1>8, <2>1 DEF RowsSeeded
  <2>3. ~SeededIn(events'[merged'[n].alias], "row", n)
    BY <2>1, <2>2, CommittedStreams DEF SeededIn
  <2>4. QED  BY <2>1, <2>3 DEF Unseeded, AlreadySeeded, SeededIn
<1>9. RowsSeeded'
  <2>1. \A t \in TagName : \A n : SeededIn(events[t], "row", n)' =>
          /\ n \in DOMAIN merged'
          /\ seeding'.at # "idle" => n \in DOMAIN seeding'.history
    BY <1>1, <1>2, <1>3, <1>4, CommittedStreams DEF RowsSeeded
  <2>2. \A t \in TagName : \A n : SeededIn(events[t], "legacy", n)' => n = 0
    BY <1>1, CommittedStreams DEF RowsSeeded
  <2>3. ASSUME NEW i \in DOMAIN merged', NEW n \in DOMAIN merged', i < n, Unseeded(merged[i])'
        PROVE  Unseeded(merged[n])'
    <3>1. CASE n \in 1 .. m
      <4>1. i \in 1 .. m
        BY <1>3, <2>3, <3>1
      <4>2. QED  BY <1>1, <1>3, <1>7, <2>3, <3>1, <4>1 DEF RowsSeeded
    <3>2. CASE n \notin 1 .. m
      BY <1>3, <1>8, <3>2
    <3>3. QED  BY <3>1, <3>2
  <2>4. QED  BY <2>1, <2>2, <2>3 DEF RowsSeeded
<1>10. HistoryRead'
  <2>1. ASSUME seeding.at # "idle"
        PROVE  /\ DOMAIN seeding.history \subseteq DOMAIN merged'
               /\ \A n \in DOMAIN merged' :
                     IF n \in DOMAIN seeding.history THEN seeding.history[n] = merged'[n]
                                                     ELSE merged'[n].alias \in touched'
    <3>1. DOMAIN seeding.history \subseteq 1 .. m
      BY <1>1, <1>3, <2>1 DEF HistoryRead
    <3>2. ASSUME NEW n \in DOMAIN merged', n \in DOMAIN seeding.history
          PROVE  seeding.history[n] = merged'[n]
      BY <1>1, <1>3, <2>1, <3>1, <3>2 DEF HistoryRead
    <3>3. ASSUME NEW n \in DOMAIN merged', n \notin DOMAIN seeding.history
          PROVE  merged'[n].alias \in touched'
      <4>1. CASE n \in 1 .. m
        BY <1>1, <1>2, <1>3, <2>1, <3>3, <4>1 DEF HistoryRead
      <4>2. CASE n \notin 1 .. m
        BY <1>2, <1>3, <1>5, <4>2, CommittedStreams
      <4>3. QED  BY <4>1, <4>2
    <3>4. QED  BY <1>3, <1>4, <3>1, <3>2, <3>3
  <2>2. ASSUME seeding.at \in {"reduce", "write"}
        PROVE  Seeded(seeding.new, seeding.history)'
    <3>1. PICK h, new : h = seeding.history /\ new = seeding.new /\ Seeded(new, h) /\ h \in History
      BY <1>1, <2>2 DEF HistoryRead, CatalogInv, SeedingInv
    <3>2. seeding'.history = h /\ seeding'.new = new
      BY <1>2, <3>1
    <3>3. QED  BY <3>1, <3>2, CommittedStreams, SeededStays
  <2>3. QED  BY <1>2, <2>1, <2>2 DEF HistoryRead
<1>11. ASSUME NEW n \in DOMAIN merged', LastRow(n)', merged'[n].at # 0, ~Overlapped(merged[n].alias)'
       PROVE  \/ Says(events'[merged'[n].alias], merged'[n].canonical)
              \/ merged'[n].alias \in raced' /\ Unseeded(merged[n])'
  <2>1. CASE n \notin 1 .. m
    BY <1>3, <1>5, <2>1, CommittedStreams
  <2>2. CASE n \in 1 .. m
    <3>1. PICK t \in TagName : t = merged'[n].alias /\ merged'[n] = merged[n]
      BY <1>3, <1>6, <2>2
    <3>2. t \notin ToSet(writing[w].aliases)
      <4>1. ASSUME NEW i \in 1 .. k, writing[w].aliases[i] = t PROVE FALSE
        <5>1. m + i \in DOMAIN merged' /\ m + i > n
          BY <1>3, <2>2
        <5>2. merged'[m + i].alias = t
          BY <1>3, <4>1
        <5>3. QED  BY <1>11, <3>1, <5>1, <5>2 DEF LastRow
      <4>2. QED  BY <1>3, <4>1 DEF ToSet
    <3>3. LastRow(n)
      BY <1>3, <1>4, <1>11, <2>2 DEF LastRow
    <3>4. ~Overlapped(t)
      BY <1>3, <1>4, <1>11, <3>1 DEF Overlapped
    <3>5. \/ Says(events[t], merged[n].canonical)
          \/ t \in raced /\ Unseeded(merged[n])
      BY <1>1, <1>3, <1>11, <2>2, <3>1, <3>3, <3>4 DEF MergeSaid
    <3>6. QED  BY <1>2, <1>7, <2>2, <3>1, <3>2, <3>5, CommittedStreams
  <2>3. QED  BY <2>1, <2>2
<1>12. MergeSaid'
  BY <1>11 DEF MergeSaid
<1>13. \A v \in Writers : MergesWell(writing'[v])
  <2>1. writing' = [writing EXCEPT ![w] = NoTx] /\ writing = [v \in Writers |-> writing[v]]
    BY <1>1 DEF Commit, CatalogInv
  <2>2. writing'[w] = NoTx /\ \A v \in Writers \ {w} : writing'[v] = writing[v]
    BY <2>1
  <2>3. QED  BY <2>2, NoTxWell DEF StickInv
<1>14. QED  BY <1>1, <1>9, <1>10, <1>12, <1>13 DEF StickInv

-----------------------------------------------------------------------------
(* The backfill and the merges.                                            *)

(* Nothing is written and the backfill goes on.                            *)
LEMMA StickSeeding ==
    ASSUME StickInv, CatalogInv', UNCHANGED <<events, merged, writing, raced>>,
           HistoryRead', seeding'.at # "idle" =>
              \/ seeding.at # "idle" /\ seeding'.history = seeding.history
              \/ seeding'.history = merged
    PROVE  StickInv'
<1>1. RowsSeeded'
  BY DEF StickInv, RowsSeeded, Unseeded, AlreadySeeded, SeededIn
<1>2. MergeSaid'
  BY DEF StickInv, MergeSaid, LastRow, Overlapped, Says, Unseeded, AlreadySeeded
<1>3. QED  BY <1>1, <1>2 DEF StickInv

LEMMA StartSticks ==
    ASSUME StickInv, BackfillTags
    PROVE  StickInv'
<1>1. CatalogInv' /\ UNCHANGED <<events, merged, writing, raced>>
  BY StartsKeeps DEF StickInv, BackfillTags, streams
<1>2. seeding'.at = "seed" /\ seeding'.history = merged
  BY NotSeedingTypes DEF BackfillTags
<1>3. HistoryRead'
  BY <1>1, <1>2 DEF HistoryRead
<1>4. QED  BY <1>1, <1>2, <1>3, StickSeeding

LEMMA SeedSticks ==
    ASSUME StickInv, SeedEvents
    PROVE  StickInv'
<1>1. /\ CatalogInv' /\ Seeded(seeding'.new, seeding.history) /\ seeding'.history = seeding.history
      /\ seeding.at = "seed" /\ UNCHANGED <<events, merged, writing, raced, touched>>
  BY SeedKeeps DEF StickInv, SeedEvents, streams
<1>2. PICK h, new : h = seeding.history /\ new = seeding'.new /\ Seeded(new, h) /\ h \in History
  BY <1>1 DEF StickInv, CatalogInv, SeedingInv
<1>3. Seeded(seeding.new, seeding.history)'
  BY <1>1, <1>2, SeededStays DEF SeededIn
<1>4. HistoryRead'
  BY <1>1, <1>3 DEF StickInv, HistoryRead
<1>5. QED  BY <1>1, <1>4, StickSeeding

LEMMA ReduceSticks ==
    ASSUME StickInv, ReduceEvents
    PROVE  StickInv'
<1>1. /\ CatalogInv' /\ seeding.at = "reduce"
      /\ UNCHANGED <<events, merged, writing, raced, touched>>
  BY ReduceKeeps DEF StickInv, ReduceEvents, streams
<1>2. seeding'.history = seeding.history /\ seeding'.new = seeding.new
  <2>1. PICK rows : seeding' = [seeding EXCEPT !.at = "write", !.rows = rows]
    BY DEF ReduceEvents
  <2>2. seeding' = SeedingOf("write", seeding.history, seeding.new, rows)
    BY <2>1, SeedingRows DEF StickInv, CatalogInv
  <2>3. QED  BY <2>2 DEF SeedingOf
<1>3. PICK h, new : h = seeding.history /\ new = seeding.new /\ Seeded(new, h) /\ h \in History
  BY <1>1 DEF StickInv, CatalogInv, SeedingInv, HistoryRead
<1>4. Seeded(seeding.new, seeding.history)'
  BY <1>1, <1>2, <1>3, SeededStays DEF SeededIn
<1>5. HistoryRead'
  BY <1>1, <1>2, <1>4 DEF StickInv, HistoryRead
<1>6. QED  BY <1>1, <1>2, <1>5, StickSeeding

LEMMA FailSticks ==
    ASSUME StickInv, BackfillFails
    PROVE  StickInv'
<1>1. /\ CatalogInv' /\ seeding'.at = "idle"
      /\ UNCHANGED <<events, merged, writing, raced, touched>>
  BY FailKeeps, NotSeedingTypes DEF StickInv, BackfillFails, streams
<1>2. HistoryRead'
  BY <1>1 DEF HistoryRead
<1>3. QED  BY <1>1, <1>2, StickSeeding

(* What the backfill has seeded when it writes.                            *)
LEMMA WrittenSeeds ==
    ASSUME StickInv, seeding.at = "write", NEW t \in TagName
    PROVE  /\ \A k : SeededIn(seeding.new[t], "row", k) => k \in DOMAIN seeding.history
           /\ \A k : SeededIn(seeding.new[t], "legacy", k) =>
                 k = 0 /\ t \in LegacyTag /\ ~SeededIn(events[t], "legacy", 0)
           /\ \A n \in DOMAIN seeding.history :
                 seeding.history[n].alias = t /\ Unseeded(seeding.history[n]) =>
                    SeededIn(seeding.new[t], "row", n)
           /\ MergedIn(seeding.new[t]) =>
                 \E n \in DOMAIN seeding.history :
                    seeding.history[n].alias = t /\ Unseeded(seeding.history[n])
<1>1. PICK h, new : h = seeding.history /\ new = seeding.new /\ Seeded(new, h) /\ h \in History
  BY DEF StickInv, CatalogInv, SeedingInv, HistoryRead
<1>2. ASSUME NEW j \in DOMAIN new[t] PROVE SeedFrom(new[t][j], t, h)
  BY <1>1 DEF Seeded
<1>3. \A n \in DOMAIN h : /\ RowEvent(h[n]).kind = "merged" /\ RowEvent(h[n]).from = "row"
                          /\ RowEvent(h[n]).row = n
  <2>1. \A n \in DOMAIN h : h[n] \in MergeRow /\ h[n].id = n
    BY <1>1, HistoryRows
  <2>2. QED  BY <2>1, SeedEventTypes
<1>4. /\ LegacyEvent.kind = "observed_state" /\ CanonicalEvent.kind = "observed_state"
      /\ LegacyEvent.from = "legacy" /\ CanonicalEvent.from = "canonical"
      /\ LegacyEvent.row = 0
  BY SeedEventTypes
<1>5. ASSUME NEW k, SeededIn(new[t], "row", k) PROVE k \in DOMAIN h
  BY <1>2, <1>3, <1>4, <1>5 DEF SeedFrom, SeededIn
<1>6. ASSUME NEW k, SeededIn(new[t], "legacy", k)
      PROVE  k = 0 /\ t \in LegacyTag /\ ~SeededIn(events[t], "legacy", 0)
  <2>1. PICK j \in DOMAIN new[t] : new[t][j].from = "legacy" /\ new[t][j].row = k
    BY <1>6 DEF SeededIn
  <2>2. t \in LegacyTag /\ new[t][j] = LegacyEvent /\ ~AlreadySeeded(t, "legacy", 0)
    BY <1>2, <1>3, <1>4, <2>1 DEF SeedFrom
  <2>3. QED  BY <1>4, <2>1, <2>2 DEF AlreadySeeded, SeededIn
<1>7. ASSUME NEW n \in DOMAIN h, h[n].alias = t, Unseeded(h[n])
      PROVE  SeededIn(new[t], "row", n)
  <2>1. PICK j \in DOMAIN new[t] : new[t][j] = RowEvent(h[n])
    BY <1>1, <1>7 DEF Seeded
  <2>2. QED  BY <1>3, <2>1 DEF SeededIn
<1>8. ASSUME MergedIn(new[t])
      PROVE  \E n \in DOMAIN h : h[n].alias = t /\ Unseeded(h[n])
  <2>1. PICK j \in DOMAIN new[t] : new[t][j].kind = "merged"
    BY <1>8 DEF MergedIn
  <2>2. QED  BY <1>2, <1>4, <2>1 DEF SeedFrom
<1>9. QED  BY <1>1, <1>5, <1>6, <1>7, <1>8

LEMMA HistoryDomain == ASSUME NEW h \in History PROVE \E k \in Nat : DOMAIN h = 1 .. k
<1>1. h \in Seq(MergeRow)
  BY DEF History
<1>2. QED  BY <1>1

LEMMA WriteSticks ==
    ASSUME StickInv, WriteProjections
    PROVE  StickInv'
<1>1. CatalogInv /\ CatalogInv' /\ RowsSeeded /\ HistoryRead /\ MergeSaid
  BY WriteKeeps DEF StickInv
<1>2. /\ seeding.at = "write" /\ seeding'.at = "idle" /\ raced' = touched
      /\ UNCHANGED <<merged, writing, touched>>
  BY NotSeedingTypes DEF WriteProjections
<1>3. PICK h : /\ h = seeding.history /\ h \in History /\ Seeded(seeding.new, h)
               /\ \A n \in DOMAIN h : n \in DOMAIN merged /\ h[n] = merged[n]
               /\ \A n \in DOMAIN merged : n \notin DOMAIN h => merged[n].alias \in touched
  BY <1>1, <1>2 DEF HistoryRead, CatalogInv, SeedingInv
<1>4. \A n \in DOMAIN merged : merged[n].alias \in TagName /\ merged[n].id = n /\ n \in Nat
                               /\ merged[n].at \in Nat
  BY <1>1, HistoryRows DEF CatalogInv, StreamsInv, MergeRow
<1>5. ASSUME NEW t \in TagName, NEW from, NEW k
      PROVE  SeededIn(events[t], from, k)' <=>
                SeededIn(events[t], from, k) \/ SeededIn(seeding.new[t], from, k)
  <2>1. PICK s \in Seq(Event), u \in Seq(Event) :
           s = events[t] /\ u = seeding.new[t] /\ events'[t] = s \o u
    BY <1>1, WrittenEvents
  <2>2. SeededIn(s \o u, from, k) <=> SeededIn(s, from, k) \/ SeededIn(u, from, k)
    BY SeededConcat
  <2>3. SeededIn(events'[t], from, k) <=> SeededIn(events[t], from, k) \/ SeededIn(seeding.new[t], from, k)
    BY <2>1, <2>2
  <2>4. QED  BY <2>3 DEF SeededIn
<1>6. ASSUME NEW n \in DOMAIN merged
      PROVE  Unseeded(merged[n])' <=> n \notin DOMAIN h
  <2>1. PICK t \in TagName : t = merged[n].alias /\ merged[n].id = n
    BY <1>4
  <2>2. Unseeded(merged[n])' <=> ~SeededIn(events[t], "row", n)'
    BY <1>2, <2>1 DEF Unseeded, AlreadySeeded, SeededIn
  <2>3. Unseeded(merged[n]) <=> ~SeededIn(events[t], "row", n)
    BY <2>1, UnseededIs
  <2>4. CASE n \in DOMAIN h
    <3>1. h[n] = merged[n]
      BY <1>3, <2>4
    <3>2. ~SeededIn(events[t], "row", n) => SeededIn(seeding.new[t], "row", n)
      BY <1>2, <1>3, <2>1, <2>3, <2>4, <3>1, WrittenSeeds
    <3>3. QED  BY <1>5, <2>2, <2>4, <3>2
  <2>5. CASE n \notin DOMAIN h
    <3>1. ~SeededIn(seeding.new[t], "row", n)
      BY <1>2, <1>3, <2>5, WrittenSeeds
    <3>2. ~SeededIn(events[t], "row", n)
      BY <1>1, <1>2, <1>3, <2>5 DEF RowsSeeded
    <3>3. QED  BY <1>5, <2>2, <2>5, <3>1, <3>2
  <2>6. QED  BY <2>4, <2>5
<1>7. RowsSeeded'
  <2>1. ASSUME NEW t \in TagName, NEW k, SeededIn(events[t], "row", k)'
        PROVE  k \in DOMAIN merged
    <3>1. SeededIn(events[t], "row", k) \/ SeededIn(seeding.new[t], "row", k)
      BY <1>5, <2>1
    <3>2. QED  BY <1>1, <1>2, <1>3, <3>1, WrittenSeeds DEF RowsSeeded
  <2>2. ASSUME NEW t \in TagName, NEW k, SeededIn(events[t], "legacy", k)'
        PROVE  k = 0
    <3>1. SeededIn(events[t], "legacy", k) \/ SeededIn(seeding.new[t], "legacy", k)
      BY <1>5, <2>2
    <3>2. QED  BY <1>1, <1>2, <3>1, WrittenSeeds DEF RowsSeeded
  <2>3. ASSUME NEW m \in DOMAIN merged, NEW n \in DOMAIN merged, m < n, Unseeded(merged[m])'
        PROVE  Unseeded(merged[n])'
    <3>1. m \notin DOMAIN h
      BY <1>6, <2>3
    <3>2. n \notin DOMAIN h
      <4>1. PICK k \in Nat : DOMAIN h = 1 .. k
        BY <1>3, HistoryDomain
      <4>2. PICK l \in Nat : DOMAIN merged = 1 .. l
        BY <1>1, HistoryDomain DEF CatalogInv, StreamsInv
      <4>3. QED  BY <2>3, <3>1, <4>1, <4>2
    <3>3. QED  BY <1>6, <3>2
  <2>4. QED  BY <1>2, <2>1, <2>2, <2>3 DEF RowsSeeded
<1>8. HistoryRead'
  BY <1>2 DEF HistoryRead
<1>9. ASSUME NEW n \in DOMAIN merged, LastRow(n), merged[n].at # 0, ~Overlapped(merged[n].alias)
      PROVE  \/ Says(events'[merged[n].alias], merged[n].canonical)
             \/ merged[n].alias \in raced' /\ Unseeded(merged[n])'
  <2>1. PICK t \in TagName : t = merged[n].alias
    BY <1>4
  <2>2. PICK s \in Seq(Event), u \in Seq(Event) :
           s = events[t] /\ u = seeding.new[t] /\ events'[t] = s \o u
    BY <1>1, WrittenEvents
  <2>3. CASE n \notin DOMAIN h
    BY <1>2, <1>3, <1>6, <2>3
  <2>4. CASE n \in DOMAIN h /\ Unseeded(merged[n])
    <3>1. h[n] = merged[n]
      BY <1>3, <2>4
    <3>2. ASSUME NEW m \in DOMAIN h \ {n}, h[m].alias = h[n].alias
          PROVE  Before(h[m], h[n])
      <4>1. m \in DOMAIN merged /\ h[m] = merged[m] /\ merged[m].alias = t
        BY <1>3, <2>1, <3>1, <3>2
      <4>2. ~(m > n)
        BY <1>9, <2>1, <4>1 DEF LastRow
      <4>3. m < n /\ merged[m].id = m /\ merged[n].id = n
            /\ merged[m].at \in Nat /\ merged[n].at \in Nat
        BY <1>4, <3>2, <4>1, <4>2
      <4>4. ~(merged[m].at > merged[n].at)
        BY <1>9, <2>1, <4>1, <4>3 DEF Overlapped
      <4>5. QED  BY <3>1, <4>1, <4>3, <4>4 DEF Before
    <3>3. LastMerge(seeding.new[h[n].alias], RowEvent(h[n]))
      BY <1>3, <2>4, <3>1, <3>2 DEF Seeded
    <3>4. PICK e : e = RowEvent(merged[n]) /\ e.kind = "merged" /\ e.canonical = merged[n].canonical
      <4>1. merged[n] \in MergeRow
        BY <1>1, HistoryRows DEF CatalogInv, StreamsInv
      <4>2. QED  BY <4>1, SeedEventTypes
    <3>5. LastMerge(u, e)
      BY <2>1, <2>2, <3>1, <3>3, <3>4
    <3>6. Says(u, merged[n].canonical)
      BY <3>4, <3>5 DEF LastMerge, Says
    <3>7. Says(s \o u, merged[n].canonical)
      BY <3>6, SaysConcat
    <3>8. QED  BY <2>1, <2>2, <3>7
  <2>5. CASE n \in DOMAIN h /\ ~Unseeded(merged[n])
    <3>1. Says(s, merged[n].canonical)
      BY <1>1, <1>9, <2>1, <2>2, <2>5 DEF MergeSaid
    <3>2. ~MergedIn(u)
      <4>1. ASSUME NEW m \in DOMAIN h, h[m].alias = t, Unseeded(h[m]) PROVE FALSE
        <5>1. m \in DOMAIN merged /\ h[m] = merged[m]
          BY <1>3
        <5>2. ~(m > n)
          BY <1>9, <2>1, <4>1, <5>1 DEF LastRow
        <5>3. m # n
          BY <2>5, <4>1, <5>1
        <5>4. m < n
          BY <1>4, <5>1, <5>2, <5>3
        <5>5. QED  BY <1>1, <2>5, <4>1, <5>1, <5>4 DEF RowsSeeded
      <4>2. QED  BY <1>2, <1>3, <2>2, <4>1, WrittenSeeds
    <3>3. Says(s \o u, merged[n].canonical)
      BY <3>1, <3>2, SaysConcat
    <3>4. QED  BY <2>1, <2>2, <3>3
  <2>6. QED  BY <2>3, <2>4, <2>5
<1>10. MergeSaid'
  BY <1>2, <1>9 DEF MergeSaid, LastRow, Overlapped
<1>11. QED  BY <1>1, <1>2, <1>7, <1>8, <1>10 DEF StickInv

LEMMA StickStep ==
    ASSUME StickInv, CarriedOK, [TagNext]_tagVars
    PROVE  StickInv'
<1>1. CatalogInv /\ CatalogInv' /\ writing = [v \in Writers |-> writing[v]]
  BY CatalogStep DEF StickInv, CatalogInv
<1>2. ASSUME NEW w \in Writers, NEW tx, MergesWell(tx), writing' = [writing EXCEPT ![w] = tx],
             UNCHANGED <<events, merged, seeding, touched, raced>>
      PROVE  StickInv'
  <2>1. writing'[w] = tx /\ \A v \in Writers \ {w} : writing'[v] = writing[v]
    BY <1>1, <1>2
  <2>2. \A v \in Writers : MergesWell(writing'[v])
    BY <1>2, <2>1 DEF StickInv
  <2>3. QED  BY <1>1, <1>2, <2>2, StickFrame
<1>3. ASSUME NEW w \in Writers, NEW tx, MergesWell(tx), Begin(w, tx)
      PROVE  StickInv'
  BY <1>2, <1>3 DEF Begin, streams, backfill
<1>4. ASSUME NEW w \in Writers, TagStep(w) PROVE StickInv'
  <2>1. ASSUME NEW names \in Names, NEW text \in {"none", "live"}, UpsertTags(w, names, text)
        PROVE  StickInv'
    BY <1>3, <2>1, UpsertBegins DEF UpsertTags
  <2>2. ASSUME NEW t \in TagName, UpdateTagSpecificity(w, t)
        PROVE  StickInv'
    BY <1>3, <2>2, SpecificityBegins
  <2>3. ASSUME NEW canonical \in TagName, NEW aliases \in Names,
               NEW rescored \in SUBSET TaggedIssue, MergeTags(w, canonical, aliases, rescored)
        PROVE  StickInv'
    <3>1. PICK tx : Begin(w, tx) /\ NewMerge(tx, canonical, aliases)
      BY <1>1, <2>3, MergeBegins DEF CatalogInv, StreamsInv
    <3>2. canonical \notin ToSet(aliases)
      BY <2>3 DEF MergeTags
    <3>3. MergesWell(tx)
      BY <3>1, <3>2, MergeIsWell
    <3>4. QED  BY <1>3, <3>1, <3>3
  <2>4. ASSUME AppendEvent(w) PROVE StickInv'
    <3>1. PICK tx, t, e : Appended(w, tx, t, e)
      BY <1>1, <2>4, AppendIsStaged
    <3>2. MergesWell(tx)
      BY <1>1, <3>1, AppendsWell DEF StickInv
    <3>3. writing' = [writing EXCEPT ![w] = tx]
          /\ UNCHANGED <<events, merged, seeding, touched, raced>>
      BY <3>1 DEF Appended
    <3>4. QED  BY <1>2, <3>2, <3>3
  <2>5. ASSUME Abort(w) PROVE StickInv'
    BY <1>2, <2>5, NoTxWell DEF Abort, streams, backfill
  <2>6. QED  BY <1>4, <2>1, <2>2, <2>3, <2>4, <2>5, CommitSticks DEF TagStep
<1>5. ASSUME UNCHANGED <<streams, writing, begun, backfill>> PROVE StickInv'
  <2>1. \A w \in Writers : MergesWell(writing'[w])
    BY <1>5 DEF StickInv
  <2>2. QED  BY <1>1, <1>5, <2>1, StickFrame DEF streams, backfill
<1>6. ASSUME NEW i \in TaggedIssue, EnrichmentStep(i) PROVE StickInv'
  BY <1>3, <1>5, <1>6, EnrichmentBegins, UpsertBegins
<1>7. CASE UNCHANGED tagVars
  BY <1>5, <1>7 DEF tagVars, streams, backfill
<1>8. QED
  BY <1>4, <1>6, <1>7, StartSticks, SeedSticks, ReduceSticks, WriteSticks, FailSticks DEF TagNext

(* What streams say of merges and what is seeded of them stays in step.    *)
THEOREM StickInvariant == TagSpec => []StickInv
<1>1. TagInit => StickInv
  BY StickStarts
<1>2. StickInv /\ CarriedOK /\ [TagNext]_tagVars => StickInv'
  BY StickStep
<1>3. QED  BY <1>1, <1>2, CarriedInvariant, PTL DEF TagSpec

(* A tag the runtime has merged away stays merged into the tag of its last *)
(* merge however often the backfill replays the history of merges, unless  *)
(* two merges of it ran at once or it was written to during the last       *)
(* backfill.                                                               *)
THEOREM MergedTagsStick == TagSpec => []MergesStick
<1>1. ASSUME StickInv PROVE MergesStick
  <2>1. ASSUME NEW n \in DOMAIN merged, merged[n].at # 0, merged[n].alias \notin raced,
               ~Overlapped(merged[n].alias),
               \A m \in n + 1 .. Len(merged) : merged[m].alias # merged[n].alias
        PROVE  /\ projection[merged[n].alias].status = "merged"
               /\ projection[merged[n].alias].canonical = merged[n].canonical
    <3>1. PICK k \in Nat : DOMAIN merged = 1 .. k /\ k = Len(merged)
      <4>1. merged \in Seq(MergeRow)
        BY <1>1 DEF StickInv, CatalogInv, StreamsInv, History
      <4>2. QED  BY <4>1
    <3>2. LastRow(n)
      <4>1. ASSUME NEW m \in DOMAIN merged, m > n PROVE m \in n + 1 .. Len(merged)
        BY <3>1, <4>1
      <4>2. QED  BY <2>1, <4>1 DEF LastRow
    <3>3. Says(events[merged[n].alias], merged[n].canonical)
      BY <1>1, <2>1, <3>2 DEF StickInv, MergeSaid
    <3>4. merged[n].alias \in TagName
      BY <1>1, HistoryRows DEF StickInv, CatalogInv, StreamsInv, MergeRow
    <3>5. projection[merged[n].alias] = Replayed(events[merged[n].alias])
          /\ events[merged[n].alias] \in Seq(Event)
      BY <1>1, <2>1, <3>4 DEF StickInv, CatalogInv, StreamsInv, TagsReplay
    <3>6. QED  BY <3>3, <3>5, ReplaySays
  <2>2. QED  BY <2>1 DEF MergesStick
<1>2. QED  BY <1>1, StickInvariant, PTL

-----------------------------------------------------------------------------
(* Texts and scores.                                                       *)

Quiet(u) ==
    \A j \in DOMAIN u : /\ u[j].text = "none" /\ u[j].score = "none"
                        /\ u[j].kind # "specificity_updated"

LEMMA QuietReplay ==
    ASSUME NEW s \in Seq(Event), NEW u \in Seq(Event), s # <<>>, Quiet(u)
    PROVE  /\ Replayed(s \o u).text = Replayed(s).text
           /\ Replayed(s \o u).score = Replayed(s).score
<1>1. PICK g \in Seq(Event) : g = s \o u
  BY ConcatProperties
<1>2. PICK m, n \in Nat : Joined(g, s, u, m, n)
  BY <1>1, ConcatIs
<1>3. /\ DOMAIN s = 1 .. m /\ DOMAIN u = 1 .. n /\ DOMAIN g = 1 .. m + n
      /\ \A i \in 1 .. m : g[i] = s[i] /\ i \in 1 .. m + n
      /\ \A i \in 1 .. n : g[m + i] = u[i] /\ m + i \in 1 .. m + n
      /\ \A i \in 1 .. m + n : i \in 1 .. m \/ (i - m \in 1 .. n /\ m + (i - m) = i)
  BY <1>2 DEF Joined
<1>4. PICK a : /\ a[0] = FirstRow
               /\ \A k \in 1 .. m + n : a[k] = Reduced(a[k - 1], g[k])
               /\ Reduction(g) = a[m + n]
  <2>1. PICK l \in Nat : l = m + n
    OBVIOUS
  <2>2. DOMAIN g = 1 .. l
    BY <1>3, <2>1
  <2>3. PICK a : /\ a[0] = FirstRow
                 /\ \A k \in 1 .. l : a[k] = Reduced(a[k - 1], g[k])
                 /\ Reduction(g) = a[l]
    BY <2>2, ReplaySteps
  <2>4. QED  BY <2>1, <2>3
<1>5. PICK b : /\ b[0] = FirstRow
               /\ \A k \in 1 .. m : b[k] = Reduced(b[k - 1], s[k])
               /\ Reduction(s) = b[m]
  BY <1>3, ReplaySteps
<1>6. a[m] = b[m]
  <2>1. PICK T : T = {k \in 0 .. m : a[k] = b[k]}
    OBVIOUS
  <2>2. 0 \in T
    BY <1>4, <1>5, <2>1
  <2>3. ASSUME NEW k \in 1 .. m, k - 1 \in T PROVE k \in T
    <3>1. a[k - 1] = b[k - 1] /\ g[k] = s[k] /\ k \in 1 .. m + n
      BY <1>3, <2>1, <2>3
    <3>2. a[k] = b[k]
      BY <1>4, <1>5, <3>1
    <3>3. QED  BY <2>1, <3>2
  <2>4. \A k \in 0 .. m : k \in T
    BY <2>2, <2>3, StepByStep
  <2>5. m \in T
    BY <2>4
  <2>6. QED  BY <2>1, <2>5
<1>7. PICK r \in Row : r = Reduction(s)
  <2>1. Reduction(s) = Replayed(s) /\ Replayed(s) \in Row
    BY ReplayedRow
  <2>2. QED  BY <2>1
<1>8. PICK T : T = {k \in 0 .. n : /\ a[m + k] \in Row
                                   /\ a[m + k].text = r.text /\ a[m + k].score = r.score}
  OBVIOUS
<1>9. 0 \in T
  <2>1. m + 0 = m
    OBVIOUS
  <2>2. QED  BY <1>5, <1>6, <1>7, <1>8, <2>1
<1>10. ASSUME NEW k \in 1 .. n, k - 1 \in T PROVE k \in T
  <2>1. m + k \in 1 .. m + n /\ (m + k) - 1 = m + (k - 1) /\ g[m + k] = u[k]
    BY <1>3
  <2>2. PICK x \in Row, e \in Event : /\ x = a[m + (k - 1)] /\ e = u[k]
                                     /\ x.text = r.text /\ x.score = r.score
    BY <1>3, <1>8, <1>10
  <2>3. a[m + k] = Reduced(x, e)
    BY <1>4, <2>1, <2>2
  <2>4. e.text = "none" /\ e.score = "none" /\ e.kind # "specificity_updated"
    BY <1>3, <2>2 DEF Quiet
  <2>5. PICK y \in Row : y = Reduced(x, e) /\ y.text = x.text /\ y.score = x.score
    BY <2>4, ReducedRow
  <2>6. QED  BY <1>8, <2>2, <2>3, <2>5
<1>11. a[m + n].text = r.text /\ a[m + n].score = r.score
  <2>1. \A k \in 0 .. n : k \in T
    BY <1>9, <1>10, StepByStep
  <2>2. n \in T
    BY <2>1
  <2>3. QED  BY <1>8, <2>2
<1>12. g # <<>>
  <2>1. m # 0
    BY <1>3
  <2>2. QED  BY <1>3, <2>1
<1>13. Replayed(g) = Reduction(g) /\ Replayed(s) = Reduction(s)
  BY <1>12, ReplayedRow
<1>14. QED  BY <1>1, <1>4, <1>7, <1>11, <1>13

(* Only the first seed from the legacy table carries a text or a score.    *)
LEMMA SeedsAreQuiet ==
    ASSUME StickInv, seeding.at = "write", NEW t \in TagName, ~FirstSeeded(t)
    PROVE  Quiet(seeding.new[t])
<1>1. PICK h, new : h = seeding.history /\ new = seeding.new /\ Seeded(new, h) /\ h \in History
  BY DEF StickInv, CatalogInv, SeedingInv, HistoryRead
<1>2. ~(t \in LegacyTag /\ ~AlreadySeeded(t, "legacy", 0))
  <2>1. ASSUME NEW n \in DOMAIN events[t], events[t][n].from = "legacy"
        PROVE  AlreadySeeded(t, "legacy", 0)
    <3>1. SeededIn(events[t], "legacy", events[t][n].row)
      BY <2>1 DEF SeededIn
    <3>2. events[t][n].row = 0
      BY <3>1 DEF StickInv, RowsSeeded
    <3>3. QED  BY <2>1, <3>2 DEF AlreadySeeded
  <2>2. QED  BY <2>1 DEF FirstSeeded
<1>3. ASSUME NEW j \in DOMAIN new[t]
      PROVE  /\ new[t][j].text = "none" /\ new[t][j].score = "none"
             /\ new[t][j].kind # "specificity_updated"
  <2>1. SeedFrom(new[t][j], t, h)
    BY <1>1 DEF Seeded
  <2>2. CASE new[t][j] = CanonicalEvent
    BY <2>2, SeedEventTypes
  <2>3. ASSUME NEW n \in DOMAIN h, new[t][j] = RowEvent(h[n])
        PROVE  /\ new[t][j].text = "none" /\ new[t][j].score = "none"
               /\ new[t][j].kind # "specificity_updated"
    <3>1. h[n] \in MergeRow
      BY <1>1, HistoryRows
    <3>2. QED  BY <2>3, <3>1, SeedEventTypes
  <2>4. QED  BY <1>2, <2>1, <2>2, <2>3 DEF SeedFrom
<1>4. QED  BY <1>1, <1>3 DEF Quiet

LEMMA BackfillEnds ==
    ASSUME StickInv, CarriedOK, TagNext, seeding.at = "write", seeding'.at = "idle"
    PROVE  WriteProjections \/ UNCHANGED projection
<1>1. ASSUME NEW w \in Writers, TagStep(w) PROVE UNCHANGED seeding
  <2>1. \A tx : Begin(w, tx) => UNCHANGED seeding
    BY DEF Begin, backfill
  <2>2. AppendEvent(w) \/ Commit(w) \/ Abort(w) => UNCHANGED seeding
    BY DEF AppendEvent, Commit, Abort, backfill
  <2>3. QED
    BY <1>1, <2>1, <2>2 DEF TagStep, UpsertTags, UpdateTagSpecificity, MergeTags
<1>2. ASSUME NEW i \in TaggedIssue, EnrichmentStep(i) PROVE UNCHANGED seeding
  BY <1>2, EnrichmentBegins DEF Begin, backfill
<1>3. SeedEvents \/ ReduceEvents \/ BackfillTags => UNCHANGED projection
  BY DEF SeedEvents, ReduceEvents, BackfillTags, streams
<1>4. BackfillFails => UNCHANGED projection
  BY DEF BackfillFails, streams
<1>5. QED  BY <1>1, <1>2, <1>3, <1>4 DEF TagNext

LEMMA KeepsText ==
    ASSUME StickInv, WriteProjections, NEW t \in TagName, projection[t] # NoTagRow,
           t \notin touched \cup raced, ~FirstSeeded(t)
    PROVE  /\ projection'[t].text = projection[t].text
           /\ projection'[t].score = projection[t].score
<1>1. CatalogInv /\ seeding.at = "write"
  BY DEF StickInv, WriteProjections
<1>2. PICK s \in Seq(Event), u \in Seq(Event) : s = events[t] /\ u = seeding.new[t]
  BY <1>1, WrittenEvents
<1>3. projection[t] = Replayed(s) /\ s # <<>>
  <2>1. projection[t] = Replayed(s)
    BY <1>1, <1>2 DEF CatalogInv, TagsReplay
  <2>2. Replayed(<<>>) = NoTagRow
    BY DEF Replayed
  <2>3. QED  BY <2>1, <2>2
<1>4. seeding.rows[t] = Replayed(s \o u)
  BY <1>1, <1>2 DEF CatalogInv, SeedingInv, ReadRow
<1>5. Quiet(u)
  BY <1>1, <1>2, SeedsAreQuiet
<1>6. seeding.rows[t].text = projection[t].text /\ seeding.rows[t].score = projection[t].score
  BY <1>3, <1>4, <1>5, QuietReplay
<1>7. projection'[t] \in {projection[t], seeding.rows[t]}
  BY <1>1, WrittenEvents
<1>8. QED  BY <1>6, <1>7

(* A tag nobody writes to during a backfill, nor wrote to during the one   *)
(* before, keeps its text and score, but for the first time the backfill   *)
(* finds it in the legacy table.                                           *)
THEOREM BackfillIsIdempotent == TagSpec => BackfillKeepsText
<1> DEFINE Keeps ==
      \A t \in TagName :
         seeding.at = "write" /\ seeding'.at = "idle" /\ projection[t] # NoTagRow
         /\ t \notin touched \cup raced /\ ~FirstSeeded(t)
           => /\ projection'[t].text = projection[t].text
              /\ projection'[t].score = projection[t].score
<1>1. StickInv /\ CarriedOK /\ [TagNext]_tagVars => [Keeps]_tagVars
  <2>1. ASSUME StickInv, CarriedOK, TagNext PROVE Keeps
    BY <2>1, BackfillEnds, KeepsText
  <2>2. QED  BY <2>1
<1>2. TagSpec => [][Keeps]_tagVars
  BY <1>1, StickInvariant, CarriedInvariant, PTL DEF TagSpec
<1>3. QED  BY <1>2 DEF BackfillKeepsText

-----------------------------------------------------------------------------
(* What issues show.                                                       *)

HasRow(t) == t \in TagName /\ projection[t] # NoTagRow

(* w is to give t a row when it commits.                                   *)
Staging(w, t) ==
    \/ \E j \in DOMAIN writing[w].todo : writing[w].todo[j][1] = t
    \/ t \in Held(w) /\ writing[w].new[t] # <<>>

Coming(w, t) == HasRow(t) \/ Staging(w, t)

(* The tags of an enrichment have rows once they are stored; while they    *)
(* are, and what a merge adds to an issue, they have rows or get them.     *)
ShownOK ==
    /\ \A i \in TaggedIssue : \A t \in shown[i] \ base[i] : HasRow(t)
    /\ \A i \in TaggedIssue :
          /\ analysed[i].at = "stored" => \A t \in ToSet(analysed[i].tags) : HasRow(t)
          /\ \A w \in analysed[i].by :
                Open(w) /\ \A t \in ToSet(analysed[i].tags) : Coming(w, t)
    /\ \A w \in Writers : \A i \in DOMAIN writing[w].issues :
          i \in TaggedIssue /\ \A t \in writing[w].issues[i] \ base[i] : Coming(w, t)

LEMMA NoTxIs ==
    /\ DOMAIN NoTx.issues = {} /\ DOMAIN NoTx.rows = {} /\ DOMAIN NoTx.todo = {} /\ ~NoTx.open
<1>1. PICK r, n, i : r = [t \in {} |-> NoTagRow] /\ n = [t \in {} |-> <<>>] /\ i = [j \in {} |-> {}]
  OBVIOUS
<1>2. NoTx = [open |-> FALSE, todo |-> <<>>, rows |-> r, new |-> n, issues |-> i,
              aliases |-> <<>>, canonical |-> NoTag, at |-> 0]
  BY <1>1 DEF NoTx
<1>3. NoTx.issues = i /\ NoTx.rows = r /\ NoTx.todo = <<>> /\ NoTx.open = FALSE
  BY <1>2
<1>4. QED  BY <1>1, <1>3

LEMMA ShownStarts == TagInit => ShownOK
<1>1. ASSUME TagInit, NEW i \in TaggedIssue
      PROVE  shown[i] = base[i] /\ analysed[i].by = {} /\ analysed[i].at = "idle"
  BY <1>1, NoAnalysisOK DEF TagInit
<1>2. ASSUME TagInit, NEW w \in Writers PROVE DOMAIN writing[w].issues = {}
  BY <1>2, NoTxIs DEF TagInit
<1>3. QED  BY <1>1, <1>2 DEF ShownOK

(* What a transaction stages is in the catalog.                            *)
LEMMA StagedTags ==
    ASSUME CatalogInv, NEW w \in Writers, NEW t, Staging(w, t)
    PROVE  t \in TagName
<1>1. writing[w].todo \in Seq(TagName \X LiveEvent) /\ Held(w) \subseteq TagName
  BY DEF CatalogInv, WriterInv, TxTypeOK, Held
<1>2. \A j \in DOMAIN writing[w].todo : writing[w].todo[j] \in TagName \X LiveEvent
  BY <1>1
<1>3. QED  BY <1>1, <1>2 DEF Staging

(* A stream with an event has a row.                                       *)
LEMMA CommittedRow ==
    ASSUME CatalogInv, NEW w \in Writers, Commit(w), NEW t \in ChangedTags(w)
    PROVE  HasRow(t)'
<1>1. PICK e \in LiveEvent : events'[t] = Append(events[t], e)
  BY CommitIs
<1>2. t \in TagName /\ events[t] \in Seq(Event) /\ e \in Event
  BY CommitIs DEF CatalogInv, StreamsInv, LiveEvent
<1>3. Len(events'[t]) = Len(events[t]) + 1 /\ Len(events[t]) \in Nat /\ events'[t] \in Seq(Event)
  BY <1>1, <1>2, AppendProperties
<1>4. projection'[t].count = Len(events'[t])
  BY <1>3, CommitIs, ReplayedRow
<1>5. projection'[t].count # 0
  BY <1>3, <1>4
<1>6. NoTagRow.count = 0
  BY DEF NoTagRow
<1>7. QED  BY <1>2, <1>5, <1>6 DEF HasRow

(* No row is ever lost.                                                    *)
LEMMA RowsStay ==
    ASSUME CatalogInv, CarriedOK, TagNext, NEW t, HasRow(t)
    PROVE  HasRow(t)'
<1>1. ASSUME UNCHANGED projection PROVE HasRow(t)'
  BY <1>1 DEF HasRow
<1>2. ASSUME NEW w \in Writers, TagStep(w) PROVE HasRow(t)'
  <2>1. CASE Commit(w)
    <3>1. CASE t \in ChangedTags(w)
      BY <2>1, <3>1, CommittedRow
    <3>2. CASE t \notin ChangedTags(w)
      BY <2>1, <3>2, CommitIs DEF HasRow
    <3>3. QED  BY <3>1, <3>2
  <2>2. CASE AppendEvent(w) \/ Abort(w)
    BY <1>1, <2>2 DEF AppendEvent, Abort, streams
  <2>3. CASE \E tx : Begin(w, tx)
    BY <1>1, <2>3 DEF Begin, streams
  <2>4. QED
    BY <1>2, <2>1, <2>2, <2>3 DEF TagStep, UpsertTags, UpdateTagSpecificity, MergeTags
<1>3. ASSUME NEW i \in TaggedIssue, EnrichmentStep(i) PROVE HasRow(t)'
  BY <1>1, <1>3, EnrichmentBegins DEF Begin, streams
<1>4. WriteProjections => HasRow(t)'
  BY WrittenEvents DEF HasRow
<1>5. BackfillTags \/ SeedEvents \/ ReduceEvents \/ BackfillFails => UNCHANGED projection
  BY DEF BackfillTags, SeedEvents, ReduceEvents, BackfillFails, streams
<1>6. QED  BY <1>1, <1>2, <1>3, <1>4, <1>5 DEF TagNext

(* A step of w: what the others are to store is still coming.              *)
LEMMA OthersStage ==
    ASSUME ShownOK, CarriedOK, NEW w \in Writers, UNCHANGED base,
           \A v \in Writers \ {w} : writing'[v] = writing[v],
           \A t : HasRow(t) => HasRow(t)',
           \A i \in TaggedIssue : \A t \in shown'[i] \ base[i] : HasRow(t)',
           \A i \in TaggedIssue : analysed'[i] = analysed[i] \/ analysed'[i].by \subseteq {w},
           \A i \in TaggedIssue :
              /\ analysed'[i].at = "stored" => \A t \in ToSet(analysed'[i].tags) : HasRow(t)'
              /\ w \in analysed'[i].by =>
                    Open(w)' /\ \A t \in ToSet(analysed'[i].tags) : Coming(w, t)',
           \A i \in DOMAIN writing'[w].issues :
              i \in TaggedIssue /\ \A t \in writing'[w].issues[i] \ base[i] : Coming(w, t)'
    PROVE  ShownOK'
<1>1. ASSUME NEW v \in Writers, v # w
      PROVE  Open(v)' = Open(v) /\ \A t : Coming(v, t) => Coming(v, t)'
  BY <1>1 DEF Open, Coming, Staging, Held
<1>2. ASSUME NEW i \in TaggedIssue, analysed'[i].at = "stored", NEW t \in ToSet(analysed'[i].tags)
      PROVE  HasRow(t)'
  BY <1>2 DEF ShownOK
<1>3. ASSUME NEW i \in TaggedIssue, NEW v \in analysed'[i].by
      PROVE  Open(v)' /\ \A t \in ToSet(analysed'[i].tags) : Coming(v, t)'
  <2>1. CASE v = w
    BY <1>3, <2>1
  <2>2. CASE v # w
    <3>1. analysed'[i] = analysed[i] /\ v \in Writers
      BY <2>2 DEF CarriedOK, AnalysisOK
    <3>2. Open(v) /\ \A t \in ToSet(analysed[i].tags) : Coming(v, t)
      BY <3>1 DEF ShownOK
    <3>3. QED  BY <1>1, <2>2, <3>1, <3>2
  <2>3. QED  BY <2>1, <2>2
<1>4. ASSUME NEW v \in Writers, NEW i \in DOMAIN writing'[v].issues
      PROVE  i \in TaggedIssue /\ \A t \in writing'[v].issues[i] \ base'[i] : Coming(v, t)'
  <2>1. CASE v = w
    BY <2>1
  <2>2. CASE v # w
    BY <1>1, <2>2 DEF ShownOK
  <2>3. QED  BY <2>1, <2>2
<1>5. QED  BY <1>2, <1>3, <1>4 DEF ShownOK

(* A transaction begins: its issues get no tag it is not to give a row,    *)
(* and it may be an enrichment's, of the tags it is to store.              *)
Todo(tx, t) == t \in TagName /\ \E j \in DOMAIN tx.todo : tx.todo[j][1] = t

LEMMA BeginShows ==
    ASSUME ShownOK, CarriedOK, CatalogInv, NEW w \in Writers, NEW tx, Begin(w, tx), tx.open,
           UNCHANGED <<base, shown>>,
           \A i \in DOMAIN tx.issues :
              i \in TaggedIssue /\ \A t \in tx.issues[i] \ base[i] : Todo(tx, t),
           \A i \in TaggedIssue :
              \/ analysed'[i] = analysed[i]
              \/ /\ analysed'[i].by = {w} /\ analysed'[i].at = "storing"
                 /\ \A t \in ToSet(analysed'[i].tags) : Todo(tx, t)
    PROVE  ShownOK'
<1>1. ~Open(w) /\ writing' = [writing EXCEPT ![w] = tx] /\ UNCHANGED projection
  BY DEF Begin, streams
<1>2. writing'[w] = tx /\ \A v \in Writers \ {w} : writing'[v] = writing[v]
  BY <1>1 DEF CatalogInv
<1>3. Open(w)' /\ \A t : Todo(tx, t) => Coming(w, t)'
  BY <1>2 DEF Open, Todo, Coming, Staging
<1>4. \A i \in TaggedIssue : w \notin analysed[i].by
  BY <1>1 DEF ShownOK
<1>5. \A t : HasRow(t) => HasRow(t)'
  BY <1>1 DEF HasRow
<1>6. \A i \in TaggedIssue : \A t \in shown'[i] \ base[i] : HasRow(t)'
  BY <1>5 DEF ShownOK
<1>7. ASSUME NEW i \in TaggedIssue
      PROVE  /\ analysed'[i] = analysed[i] \/ analysed'[i].by \subseteq {w}
             /\ analysed'[i].at = "stored" => \A t \in ToSet(analysed'[i].tags) : HasRow(t)'
             /\ w \in analysed'[i].by =>
                    Open(w)' /\ \A t \in ToSet(analysed'[i].tags) : Coming(w, t)'
  BY <1>3, <1>4, <1>5 DEF ShownOK
<1>8. \A i \in DOMAIN writing'[w].issues :
          i \in TaggedIssue /\ \A t \in writing'[w].issues[i] \ base[i] : Coming(w, t)'
  BY <1>2, <1>3
<1>9. QED  BY <1>2, <1>5, <1>6, <1>7, <1>8, OthersStage

(* What an upsert is to store: its names.                                  *)
LEMMA UpsertTodo ==
    ASSUME NEW names \in Names, NEW text
    PROVE  /\ UpsertTx(names, text).open /\ DOMAIN UpsertTx(names, text).issues = {}
           /\ \A t \in ToSet(names) : Todo(UpsertTx(names, text), t)
<1>1. PICK e : e = [TagEvent("upserted", "live") EXCEPT !.text = text]
  OBVIOUS
<1>2. PICK todo : todo = [n \in DOMAIN names |-> <<names[n], e>>]
  OBVIOUS
<1>3. PICK no : no = NoTx /\ Shaped(no)
  BY NoTxTypes DEF TxTypeOK, Shaped
<1>4. PICK tx : tx = [no EXCEPT !.open = TRUE, !.todo = todo]
  OBVIOUS
<1>5. tx = [open |-> TRUE, todo |-> todo, rows |-> no.rows, new |-> no.new, issues |-> no.issues,
            aliases |-> no.aliases, canonical |-> no.canonical, at |-> no.at]
  BY <1>3, <1>4 DEF Shaped
<1>6. tx.open = TRUE /\ tx.todo = todo /\ tx.issues = no.issues
  BY <1>5
<1>7. UpsertTx(names, text) = tx
  BY <1>1, <1>2, <1>3, <1>4 DEF UpsertTx
<1>8. names \in Seq(TagName)
  BY NamesAre
<1>9. ASSUME NEW t \in ToSet(names) PROVE Todo(tx, t)
  <2>1. PICK n \in DOMAIN names : names[n] = t
    BY DEF ToSet
  <2>2. t \in TagName
    BY <1>8, <2>1
  <2>3. n \in DOMAIN todo /\ todo[n][1] = t
    BY <1>2, <2>1
  <2>4. QED  BY <1>6, <2>2, <2>3 DEF Todo
<1>10. QED  BY <1>3, <1>6, <1>7, <1>9, NoTxIs

LEMMA StoreShows ==
    ASSUME ShownOK, CarriedOK, CatalogInv, NEW i \in TaggedIssue, NEW w \in Writers, NEW text,
           StoreTags(i, w, text)
    PROVE  ShownOK'
<1>1. PICK a : a = analysed[i] /\ AnalysisOK(a) /\ a.at = "chosen" /\ a.tags \in Names
  BY DEF CarriedOK, AnalysisOK, StoreTags
<1>2. PICK tx : /\ tx = UpsertTx(a.tags, text) /\ tx.open /\ DOMAIN tx.issues = {}
                /\ \A t \in ToSet(a.tags) : Todo(tx, t)
  BY <1>1, UpsertTodo
<1>3. Begin(w, tx) /\ UNCHANGED <<base, shown>>
  BY <1>1, <1>2 DEF StoreTags
<1>4. PICK b : b = [a EXCEPT !.at = "storing", !.by = {w}]
  OBVIOUS
<1>5. b.at = "storing" /\ b.by = {w} /\ b.tags = a.tags
  BY <1>1, <1>4 DEF AnalysisOK
<1>6. analysed' = [analysed EXCEPT ![i] = b]
  BY <1>1, <1>4 DEF StoreTags, CarriedOK
<1>7. analysed'[i] = b /\ \A j \in TaggedIssue : j # i => analysed'[j] = analysed[j]
  BY <1>6 DEF CarriedOK
<1>8. QED  BY <1>2, <1>3, <1>5, <1>7, BeginShows

(* A merge gives issues its canonical tag, the first it stages.            *)
LEMMA MergeShows ==
    ASSUME ShownOK, CarriedOK, CatalogInv, NEW w \in Writers, NEW canonical \in TagName,
           NEW aliases \in Names, NEW rescored \in SUBSET TaggedIssue,
           MergeTags(w, canonical, aliases, rescored)
    PROVE  ShownOK'
<1>1. PICK tx : Begin(w, tx) /\ NewMerge(tx, canonical, aliases)
  BY MergeBegins DEF CatalogInv, StreamsInv
<1>2. UNCHANGED carried
  BY DEF MergeTags
<1>3. tx.aliases # <<>>
  BY <1>1, NamesAre DEF NewMerge
<1>4. TxTypeOK(tx) /\ tx.open
  <2>1. TxTypeOK(tx)
    BY <1>1 DEF NewMerge
  <2>2. NoTx.aliases = <<>>
    BY DEF NoTx
  <2>3. QED  BY <1>3, <2>1, <2>2 DEF TxTypeOK
<1>5. Todo(tx, canonical)
  <2>1. PICK first, e : MergeWork(tx.todo, canonical, aliases, first, e)
    BY <1>1 DEF NewMerge
  <2>2. DOMAIN tx.todo = 1 .. Len(aliases) + 1 /\ tx.todo[1] = <<canonical, first>>
    BY <2>1 DEF MergeWork
  <2>3. Len(aliases) \in Nat
    BY NamesAre
  <2>4. 1 \in DOMAIN tx.todo /\ tx.todo[1][1] = canonical
    BY <2>2, <2>3
  <2>5. QED  BY <2>4 DEF Todo
<1>6. ASSUME NEW i \in DOMAIN tx.issues
      PROVE  i \in TaggedIssue /\ \A t \in tx.issues[i] \ base[i] : Todo(tx, t)
  <2>1. i \in TaggedIssue /\ tx.issues[i] = MergedList(base[i], canonical, ToSet(aliases))
    BY <1>1 DEF NewMerge, MergedLists
  <2>2. tx.issues[i] \ base[i] \subseteq {canonical}
    BY <2>1 DEF MergedList
  <2>3. QED  BY <1>5, <2>1, <2>2
<1>7. QED  BY <1>1, <1>2, <1>4, <1>6, BeginShows DEF carried

LEMMA AppendShows ==
    ASSUME ShownOK, CarriedOK, CatalogInv, NEW w \in Writers, AppendEvent(w)
    PROVE  ShownOK'
<1>1. PICK tx, s, e : Appended(w, tx, s, e)
  BY AppendIsStaged
<1>2. /\ writing' = [writing EXCEPT ![w] = tx] /\ tx.open = TRUE /\ tx.issues = writing[w].issues
      /\ UNCHANGED <<projection, base, shown, analysed>>
  BY <1>1 DEF Appended
<1>3. writing'[w] = tx /\ \A v \in Writers \ {w} : writing'[v] = writing[v]
  BY <1>2 DEF CatalogInv
<1>4. \A t : HasRow(t) => HasRow(t)'
  BY <1>2 DEF HasRow
<1>5. s \in TagName /\ Coming(w, s)'
  <2>1. s \in TagName /\ s \in Held(w)'
    BY <1>1, <1>3 DEF Appended, Held
  <2>2. CASE ~Appends(projection[s], e)
    BY <1>4, <2>1, <2>2 DEF Appends, HasRow, Coming
  <2>3. CASE Appends(projection[s], e)
    <3>1. tx.new[s] = <<e>>
      BY <1>1, <2>3 DEF Appended
    <3>2. QED  BY <1>3, <2>1, <3>1 DEF Coming, Staging
  <2>4. QED  BY <2>1, <2>2, <2>3
<1>6. ASSUME NEW t, Coming(w, t) PROVE Coming(w, t)'
  <2>1. PICK todo \in Seq(TagName \X LiveEvent) :
           todo = writing[w].todo /\ todo # <<>> /\ Head(todo) = <<s, e>> /\ tx.todo = Tail(todo)
    BY <1>1 DEF Appended, CatalogInv, WriterInv, TxTypeOK
  <2>2. CASE \E j \in DOMAIN todo : todo[j][1] = t
    <3>1. PICK j \in DOMAIN todo : todo[j][1] = t
      BY <2>2
    <3>2. CASE j = 1
      BY <1>5, <2>1, <3>1, <3>2
    <3>3. CASE j # 1
      <4>1. j - 1 \in DOMAIN Tail(todo) /\ Tail(todo)[j - 1] = todo[j]
        BY <2>1, <3>3
      <4>2. QED  BY <1>3, <2>1, <3>1, <4>1 DEF Coming, Staging
    <3>4. QED  BY <3>2, <3>3
  <2>3. CASE t \in Held(w) /\ writing[w].new[t] # <<>>
    <3>1. CASE t = s
      BY <1>5, <3>1
    <3>2. CASE t # s
      <4>1. t \in DOMAIN tx.rows /\ tx.new[t] = writing[w].new[t]
        BY <1>1, <2>3, <3>2 DEF Appended
      <4>2. QED  BY <1>3, <2>3, <4>1 DEF Coming, Staging, Held
    <3>3. QED  BY <3>1, <3>2
  <2>4. CASE HasRow(t)
    BY <1>4, <2>4 DEF Coming
  <2>5. QED  BY <1>6, <2>1, <2>2, <2>3, <2>4 DEF Coming, Staging
<1>7. Open(w)'
  BY <1>2, <1>3 DEF Open
<1>8. \A i \in TaggedIssue : \A t \in shown'[i] \ base[i] : HasRow(t)'
  BY <1>2, <1>4 DEF ShownOK
<1>9. ASSUME NEW i \in TaggedIssue
      PROVE  /\ analysed'[i].at = "stored" => \A t \in ToSet(analysed'[i].tags) : HasRow(t)'
             /\ w \in analysed'[i].by =>
                    Open(w)' /\ \A t \in ToSet(analysed'[i].tags) : Coming(w, t)'
  BY <1>2, <1>4, <1>6, <1>7 DEF ShownOK
<1>10. \A i \in DOMAIN writing'[w].issues :
          i \in TaggedIssue /\ \A t \in writing'[w].issues[i] \ base[i] : Coming(w, t)'
  BY <1>2, <1>3, <1>6 DEF ShownOK
<1>11. QED  BY <1>2, <1>3, <1>4, <1>8, <1>9, <1>10, OthersStage

(* A commit gives every tag it was to store a row, an abort drops them.    *)
LEMMA EndShows ==
    ASSUME ShownOK, CarriedOK, CatalogInv, NEW w \in Writers, Commit(w) \/ Abort(w),
           \A t : HasRow(t) => HasRow(t)'
    PROVE  ShownOK'
<1>1. writing' = [writing EXCEPT ![w] = NoTx] /\ UNCHANGED base
  BY DEF Commit, Abort
<1>2. writing'[w] = NoTx /\ \A v \in Writers \ {w} : writing'[v] = writing[v]
  BY <1>1 DEF CatalogInv
<1>3. ASSUME Commit(w), NEW t, Coming(w, t) PROVE HasRow(t)'
  <2>1. writing[w].todo = <<>>
    BY <1>3 DEF Commit
  <2>2. ~\E j \in DOMAIN writing[w].todo : writing[w].todo[j][1] = t
    BY <2>1
  <2>3. HasRow(t) \/ t \in ChangedTags(w)
    BY <1>3, <2>2 DEF Coming, Staging, ChangedTags
  <2>4. QED  BY <1>3, <2>3, CommittedRow
<1>4. PICK at \in {"idle", "stored"} : analysed' = Released(w, at) /\ (at = "stored" => Commit(w))
  BY DEF Commit, Abort
<1>5. ASSUME NEW i \in TaggedIssue
      PROVE  /\ analysed'[i] = analysed[i] \/ analysed'[i].by \subseteq {w}
             /\ w \notin analysed'[i].by
             /\ analysed'[i].at = "stored" => \A t \in ToSet(analysed'[i].tags) : HasRow(t)'
  <2>1. w \notin analysed'[i].by
    BY <1>4, ReleasedOK
  <2>2. CASE analysed'[i] = analysed[i]
    BY <2>1, <2>2 DEF ShownOK
  <2>3. CASE /\ w \in analysed[i].by /\ at = "stored" /\ analysed'[i].by = {}
             /\ analysed'[i].tags = analysed[i].tags
    BY <1>3, <1>4, <2>1, <2>3 DEF ShownOK
  <2>4. CASE analysed'[i] = NoAnalysis
    BY <2>1, <2>4, NoAnalysisOK
  <2>5. QED  BY <1>4, <2>2, <2>3, <2>4, ReleasedOK
<1>6. ASSUME NEW i \in TaggedIssue, NEW t \in shown'[i] \ base[i] PROVE HasRow(t)'
  <2>1. CASE shown'[i] = shown[i]
    BY <1>6, <2>1 DEF ShownOK
  <2>2. CASE Commit(w) /\ i \in DOMAIN writing[w].issues /\ shown'[i] = writing[w].issues[i]
    BY <1>3, <1>6, <2>2 DEF ShownOK
  <2>3. QED  BY <2>1, <2>2 DEF Commit, Abort
<1>7. DOMAIN writing'[w].issues = {}
  BY <1>2, NoTxIs
<1>8. QED  BY <1>1, <1>2, <1>5, <1>6, <1>7, OthersStage

(* Steps that change neither transactions nor the catalog.                 *)
LEMMA IssueShows ==
    ASSUME ShownOK, UNCHANGED <<projection, writing, base>>, NEW i \in TaggedIssue,
           \A j \in TaggedIssue \ {i} : shown'[j] = shown[j] /\ analysed'[j] = analysed[j],
           \A t \in shown'[i] \ base[i] : HasRow(t),
           analysed'[i].by = {},
           analysed'[i].at = "stored" => \A t \in ToSet(analysed'[i].tags) : HasRow(t)
    PROVE  ShownOK'
<1>1. \A t : HasRow(t)' = HasRow(t)
  BY DEF HasRow
<1>2. \A w, t : Coming(w, t)' = Coming(w, t)
  BY <1>1 DEF Coming, Staging, Held
<1>3. \A w : Open(w)' = Open(w)
  BY DEF Open
<1>4. \A j \in TaggedIssue : \A t \in shown'[j] \ base'[j] : HasRow(t)'
  BY <1>1 DEF ShownOK
<1>5. ASSUME NEW j \in TaggedIssue
      PROVE  /\ analysed'[j].at = "stored" => \A t \in ToSet(analysed'[j].tags) : HasRow(t)'
             /\ \A w \in analysed'[j].by :
                   Open(w)' /\ \A t \in ToSet(analysed'[j].tags) : Coming(w, t)'
  <2>1. CASE j = i
    BY <1>1, <2>1
  <2>2. CASE j # i
    <3>1. \A w, t : Coming(w, t)' = Coming(w, t)
      BY <1>1 DEF Coming, Staging, Held
    <3>2. QED  BY <1>1, <1>3, <2>2, <3>1 DEF ShownOK
  <2>3. QED  BY <2>1, <2>2
<1>6. \A w \in Writers : \A j \in DOMAIN writing'[w].issues :
          j \in TaggedIssue /\ \A t \in writing'[w].issues[j] \ base'[j] : Coming(w, t)'
  BY <1>2 DEF ShownOK
<1>7. QED  BY <1>4, <1>5, <1>6 DEF ShownOK

LEMMA EnrichmentShows ==
    ASSUME ShownOK, CarriedOK, CatalogInv, NEW i \in TaggedIssue, EnrichmentStep(i)
    PROVE  ShownOK'
<1>1. ASSUME NEW names, Analyse(i, names) PROVE ShownOK'
  <2>1. PICK a : a = [at |-> IF names = <<>> THEN "stored" ELSE "chosen", tags |-> names, by |-> {}]
    OBVIOUS
  <2>2. a.by = {} /\ a.tags = names /\ (a.at = "stored" => names = <<>>)
    BY <2>1
  <2>3. analysed'[i] = a /\ \A j \in TaggedIssue \ {i} : analysed'[j] = analysed[j]
    BY <1>1, <2>1 DEF Analyse, CarriedOK
  <2>4. UNCHANGED <<projection, writing, base, shown>>
    BY <1>1 DEF Analyse, streams
  <2>5. a.at = "stored" => ToSet(a.tags) = {}
    BY <2>2, NoAlias
  <2>6. \A t \in shown'[i] \ base[i] : HasRow(t)
    BY <2>4 DEF ShownOK
  <2>7. QED  BY <2>2, <2>3, <2>4, <2>5, <2>6, IssueShows
<1>2. ASSUME NEW tags, WriteTags(i, tags) PROVE ShownOK'
  <2>1. analysed'[i] = NoAnalysis /\ \A j \in TaggedIssue \ {i} : analysed'[j] = analysed[j]
    BY <1>2 DEF WriteTags, CarriedOK
  <2>2. shown'[i] = tags /\ \A j \in TaggedIssue \ {i} : shown'[j] = shown[j]
    BY <1>2 DEF WriteTags, CarriedOK
  <2>3. UNCHANGED <<projection, writing, base>>
    BY <1>2 DEF WriteTags, streams
  <2>4. \A t \in tags : HasRow(t)
    BY <1>2 DEF WriteTags, Stored, ShownOK
  <2>5. QED  BY <2>1, <2>2, <2>3, <2>4, NoAnalysisOK, IssueShows
<1>3. ASSUME AnalysisFails(i) PROVE ShownOK'
  <2>1. analysed'[i] = NoAnalysis /\ \A j \in TaggedIssue \ {i} : analysed'[j] = analysed[j]
    BY <1>3 DEF AnalysisFails, CarriedOK
  <2>2. UNCHANGED <<projection, writing, base, shown>>
    BY <1>3 DEF AnalysisFails, streams
  <2>3. \A t \in shown'[i] \ base[i] : HasRow(t)
    BY <2>2 DEF ShownOK
  <2>4. QED  BY <2>1, <2>2, <2>3, NoAnalysisOK, IssueShows
<1>4. QED  BY <1>1, <1>2, <1>3, StoreShows DEF EnrichmentStep

LEMMA ShownStep ==
    ASSUME ShownOK, CarriedOK, CatalogInv, [TagNext]_tagVars
    PROVE  ShownOK'
<1>1. ASSUME NEW w \in Writers, TagStep(w) PROVE ShownOK'
  <2>1. ASSUME NEW names \in Names, NEW text, UpsertTags(w, names, text) PROVE ShownOK'
    BY <2>1, UpsertTodo, BeginShows DEF UpsertTags, carried
  <2>2. ASSUME NEW t \in TagName, UpdateTagSpecificity(w, t) PROVE ShownOK'
    <3>1. PICK todo : todo = <<<<t, [TagEvent("specificity_updated", "live") EXCEPT !.score = "live"]>>>>
      OBVIOUS
    <3>2. PICK no : no = NoTx /\ Shaped(no)
      BY NoTxTypes DEF TxTypeOK, Shaped
    <3>3. PICK tx : tx = [no EXCEPT !.open = TRUE, !.todo = todo]
      OBVIOUS
    <3>4. tx = [open |-> TRUE, todo |-> todo, rows |-> no.rows, new |-> no.new,
                issues |-> no.issues, aliases |-> no.aliases, canonical |-> no.canonical,
                at |-> no.at]
      BY <3>2, <3>3 DEF Shaped
    <3>5. tx.open = TRUE /\ DOMAIN tx.issues = {}
      BY <3>2, <3>4, NoTxIs
    <3>6. Begin(w, tx) /\ UNCHANGED carried
      BY <2>2, <3>1, <3>2, <3>3 DEF UpdateTagSpecificity
    <3>7. QED  BY <3>5, <3>6, BeginShows DEF carried
  <2>3. ASSUME Commit(w) \/ Abort(w) PROVE ShownOK'
    <3>1. TagNext
      BY <1>1 DEF TagNext
    <3>2. QED  BY <2>3, <3>1, EndShows, RowsStay
  <2>4. QED  BY <1>1, <2>1, <2>2, <2>3, MergeShows, AppendShows DEF TagStep
<1>2. ASSUME BackfillTags \/ SeedEvents \/ ReduceEvents \/ WriteProjections \/ BackfillFails
      PROVE  ShownOK'
  <2>1. UNCHANGED <<writing, base, shown, analysed>>
    BY <1>2 DEF BackfillTags, SeedEvents, ReduceEvents, WriteProjections, BackfillFails, carried
  <2>2. \A t : HasRow(t) => HasRow(t)'
    <3>1. TagNext
      BY <1>2 DEF TagNext
    <3>2. QED  BY <3>1, RowsStay
  <2>3. \A w, t : Coming(w, t) => Coming(w, t)'
    BY <2>1, <2>2 DEF Coming, Staging, Held
  <2>4. \A w : Open(w)' = Open(w)
    BY <2>1 DEF Open
  <2>5. QED  BY <2>1, <2>2, <2>3, <2>4 DEF ShownOK
<1>3. CASE UNCHANGED tagVars
  <2>1. \A t : HasRow(t)' = HasRow(t)
    BY <1>3 DEF tagVars, HasRow
  <2>2. \A w, t : Coming(w, t)' = Coming(w, t)
    BY <1>3, <2>1 DEF tagVars, Coming, Staging, Held
  <2>3. \A w : Open(w)' = Open(w)
    BY <1>3 DEF tagVars, Open
  <2>4. QED  BY <1>3, <2>1, <2>2, <2>3 DEF tagVars, ShownOK
<1>4. QED  BY <1>1, <1>2, <1>3, EnrichmentShows DEF TagNext

(* No issue shows a tag without a row of the catalog, but for those it was *)
(* created with: an enrichment displays its tags only once the transaction *)
(* that stores them has committed, a merge those it gives a row itself,    *)
(* and neither writers nor the backfill ever drop a row.                   *)
THEOREM ShownTagsHaveRows == TagSpec => []ShownTagsAreStored
<1>1. ShownOK /\ CarriedOK /\ CatalogInv /\ [TagNext]_tagVars => ShownOK'
  BY ShownStep
<1>2. TagSpec => []ShownOK
  BY <1>1, ShownStarts, CarriedInvariant, CatalogInvariant, PTL DEF TagSpec
<1>3. ShownOK => ShownTagsAreStored
  BY DEF ShownOK, ShownTagsAreStored, HasRow
<1>4. QED  BY <1>2, <1>3, PTL
=============================================================================
