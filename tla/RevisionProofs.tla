---------------------------- MODULE RevisionProofs ----------------------------
(***************************************************************************)
(* Proofs about the revision and what is derived from it, for any number   *)
(* of bumpers, streams, callers, processes and themes: the fan-out of a    *)
(* revision is safe, no cache serves what is stale, and themes show the    *)
(* labels they are due.                                                    *)
(***************************************************************************)
EXTENDS RevisionBus, RevisionCaches, ThemeLabels, FiniteSetTheorems, TLAPS

-----------------------------------------------------------------------------
(* The revision bus: FanoutInv is inductive with the type invariant.       *)

BusInv == TypeOK /\ FanoutInv

(* The tracker starts with no fanout under way and no stream open. *)
LEMMA BusStarts == Init => BusInv
  <1> SUFFICES ASSUME Init
               PROVE  BusInv
    OBVIOUS
  <1>1. 1 \in 1 .. MaxRevision /\ 0 \in 0 .. MaxRevision
    BY BusAssumption
  <1>2. TypeOK
    BY <1>1 DEF Init, TypeOK
  <1>3. FanoutInv
    BY DEF Init, FanoutInv, Free
  <1> QED
    BY <1>2, <1>3 DEF BusInv

(* An increment touches neither the fanout under way nor its revision:     *)
(* only a bumper with no value takes a new one.                            *)
LEMMA AddStep ==
    ASSUME BusInv, NEW b \in Bumpers, Add(b)
    PROVE  BusInv'
  <1>1. TypeOK'
    BY BusAssumption DEF BusInv, TypeOK, Add, fanout
  <1>2. FanoutInv'
    BY BusAssumption DEF BusInv, TypeOK, FanoutInv, Free, Subscribed, Add, fanout
  <1> QED
    BY <1>1, <1>2 DEF BusInv

(* A fanout begins with the subscribers of that moment. *)
LEMMA LockStep ==
    ASSUME BusInv, NEW b \in Bumpers, Lock(b)
    PROVE  BusInv'
  <1>1. TypeOK'
    BY DEF BusInv, TypeOK, Lock, Subscribed
  <1>2. FanoutInv'
    BY BusAssumption DEF BusInv, TypeOK, FanoutInv, Free, Subscribed, Lock
  <1> QED
    BY <1>1, <1>2 DEF BusInv

(* Each step of the loop sends, drains or moves on, and keeps to the       *)
(* subscribers the loop began with.                                        *)
LEMMA PublishStep ==
    ASSUME BusInv, Publish
    PROVE  BusInv'
  <1>1. ASSUME NEW s \in Streams, Offer(s)
        PROVE  BusInv'
    <2>1. value[holder] \in 0 .. MaxRevision
      BY <1>1 DEF BusInv, TypeOK, Offer, Free
    <2>2. TypeOK'
      BY <1>1, <2>1 DEF BusInv, TypeOK, Offer
    <2>3. FanoutInv'
      BY <1>1 DEF BusInv, TypeOK, FanoutInv, Free, Subscribed, Offer
    <2> QED
      BY <2>2, <2>3 DEF BusInv
  <1>2. CASE Drain
    <2>1. TypeOK'
      <3>1. 0 \in 0 .. MaxRevision
        BY BusAssumption
      <3> QED
        BY <1>2, <3>1 DEF BusInv, TypeOK, Drain, Emptied
    <2>2. FanoutInv'
      BY <1>2 DEF BusInv, TypeOK, FanoutInv, Free, Subscribed, Drain, Emptied
    <2> QED
      BY <2>1, <2>2 DEF BusInv
  <1>3. CASE OfferAgain
    <2>1. value[holder] \in 0 .. MaxRevision
      BY <1>3 DEF BusInv, TypeOK, OfferAgain, Free
    <2>2. TypeOK'
      BY <1>3, <2>1 DEF BusInv, TypeOK, OfferAgain
    <2>3. FanoutInv'
      BY <1>3 DEF BusInv, TypeOK, FanoutInv, Free, Subscribed, OfferAgain
    <2> QED
      BY <2>2, <2>3 DEF BusInv
  <1>4. CASE Unlock
    <2>1. TypeOK'
      <3>1. 0 \in 0 .. MaxRevision
        BY BusAssumption
      <3> QED
        BY <1>4, <3>1 DEF BusInv, TypeOK, Unlock, Free
    <2>2. FanoutInv'
      BY <1>4 DEF BusInv, TypeOK, FanoutInv, Free, Subscribed, Unlock
    <2> QED
      BY <2>1, <2>2 DEF BusInv
  <1> QED
    BY <1>1, <1>2, <1>3, <1>4 DEF Publish

(* A handler registers and goes only while no fanout holds the mutex, so   *)
(* the channels of a loop under way stay open.                             *)
LEMMA StreamStep ==
    ASSUME BusInv, NEW s \in Streams,
           Subscribe(s) \/ SendCurrent(s) \/ Receive(s) \/ Cancel(s)
    PROVE  BusInv'
  <1>1. TypeOK'
    <2>1. 0 \in 0 .. MaxRevision /\ revision \in 0 .. MaxRevision
      BY BusAssumption DEF BusInv, TypeOK
    <2> QED
      BY <2>1 DEF BusInv, TypeOK, fanout, Subscribe, SendCurrent, Receive, Cancel
  <1>2. CASE Subscribe(s)
    BY <1>1, <1>2 DEF BusInv, TypeOK, FanoutInv, Free, Subscribed, fanout, Subscribe
  <1>3. CASE SendCurrent(s)
    BY <1>1, <1>3 DEF BusInv, TypeOK, FanoutInv, Free, Subscribed, fanout, SendCurrent
  <1>4. CASE Receive(s)
    BY <1>1, <1>4 DEF BusInv, TypeOK, FanoutInv, Free, Subscribed, fanout, Receive
  <1>5. CASE Cancel(s)
    BY <1>1, <1>5 DEF BusInv, TypeOK, FanoutInv, Free, Subscribed, fanout, Cancel, CancelMayRun
  <1> QED
    BY <1>2, <1>3, <1>4, <1>5

(* Every step of the bus keeps the invariant. *)
LEMMA BusStep == BusInv /\ [Next]_vars => BusInv'
  <1> SUFFICES ASSUME BusInv, [Next]_vars
               PROVE  BusInv'
    OBVIOUS
  <1>1. CASE Next
    BY <1>1, AddStep, LockStep, PublishStep, StreamStep DEF Next
  <1>2. CASE UNCHANGED vars
    BY <1>2 DEF BusInv, TypeOK, FanoutInv, Free, Subscribed, vars, fanout
  <1> QED
    BY <1>1, <1>2

(* Whatever the interleaving of bumps, reads, connects and disconnects,    *)
(* a fanout sends only on open channels and keeps its revision to the end  *)
(* (revision.go: cancel closes the channel under the mutex).               *)
THEOREM FanoutIsSafe == Spec => []FanoutInv
  <1>1. BusInv => FanoutInv
    BY DEF BusInv
  <1> QED
    BY BusStarts, BusStep, <1>1, PTL DEF Spec

(* The revision is never 0 and the channels carry issued revisions.        *)
THEOREM BusTypeCorrect == Spec => []TypeOK
  <1>1. BusInv => TypeOK
    BY DEF BusInv
  <1> QED
    BY BusStarts, BusStep, <1>1, PTL DEF Spec

-----------------------------------------------------------------------------
(* The caches.                                                             *)

Versions == 1 .. MaxVersion

Frame == [cache : Caches, revision : Revisions, need : Versions,
          at : {"probe", "look", "compute", "done"}, read : Nat, oldest : Versions]

CacheTypeOK ==
    /\ kept \in [Caches -> [Revisions -> Versions \cup {0}]]
    /\ calls \in [Callers -> Seq(Frame)]

HasMax(S) == \E m \in S : \A v \in S : v <= m

(* Versions written, bumped and invalidated by this process; a write is    *)
(* bumped once, so the revision moves with every bump.                     *)
CorpusInv ==
    /\ corpus \in Versions /\ base \in 1 .. corpus
    /\ bumped \subseteq base + 1 .. corpus
    /\ invalidated \subseteq bumped
    /\ HasMax({1} \cup invalidated)
    /\ \A w \in writing :
          /\ w \in [version : base + 1 .. corpus, layout : BOOLEAN, bumped : BOOLEAN]
          /\ w.bumped <=> w.version \in bumped
          /\ \A x \in writing : x.version = w.version => x = w

(* need[r] is the last version that had been bumped, or found at the start *)
(* of the process, when its revision became r.                             *)
NeedInv(need) ==
    /\ need \in [Revisions -> Versions]
    /\ \A r, s \in Revisions : r <= s /\ s <= Revision => need[r] <= need[s]
    /\ need[Revision] \in {base} \cup bumped
    /\ \A v \in {base} \cup bumped : v <= need[Revision]

(* Caches whose every result was made, from other such results, by this    *)
(* process or by one that saw the same corpus.                             *)
Reliable(c) ==
    \/ base = 1
    \/ c \notin {"map", "regions"}
    \/ c = "map" /\ invalidated # {}

KeptInv(need) ==
    \A c \in Caches, r \in Revisions :
        Reliable(c) /\ kept[c][r] # 0 => r <= Revision /\ need[r] <= kept[c][r]

(* A call that runs has read nothing older than its revision needs; one    *)
(* that has ended has the answer its caller was promised.                  *)
FrameInv(need, f) ==
    /\ f.at = "done" => f.oldest >= f.need
    /\ f.at = "probe" => f.cache = "map"
    /\ f.at # "done" =>
          /\ f.revision <= Revision
          /\ f.need <= need[f.revision]
          /\ ~Reliable(f.cache) => f.need = 1
          /\ base = 1 \/ f.cache # "regions" => need[f.revision] <= f.oldest

(* A call and the one it waits for.                                        *)
NestedInv(f, inner) ==
    /\ f.at = "compute" /\ inner.at # "done"
    /\ f.revision <= inner.revision
    /\ inner.cache \in {"means", "lambda", "decomp"} \/ f.cache = "regions"

StackInv(need, s) ==
    /\ \A n \in 1 .. Len(s) : FrameInv(need, s[n])
    /\ \A n \in 1 .. Len(s) - 1 : NestedInv(s[n], s[n + 1])

Covered(need) ==
    /\ NeedInv(need) /\ KeptInv(need)
    /\ \A g \in Callers : StackInv(need, calls[g])

CachesInv ==
    /\ CacheTypeOK /\ CorpusInv
    /\ \E need \in [Revisions -> Versions] : Covered(need)

-----------------------------------------------------------------------------
(* The largest element of a set that has one, the smaller of two.          *)
LEMMA MaxIs ==
    ASSUME NEW S \in SUBSET Nat, NEW m \in S, \A v \in S : v <= m
    PROVE  Max(S) = m
<1>1. Max(S) \in S /\ \A y \in S : Max(S) >= y
  BY DEF Max
<1>2. Max(S) \in Nat /\ m \in Nat /\ Max(S) >= m /\ m >= Max(S)
  BY <1>1
<1>3. QED  BY <1>2

LEMMA MinOfTwo ==
    ASSUME NEW a \in Nat, NEW b \in Nat
    PROVE  /\ Min({a, b}) \in {a, b}
           /\ Min({a, b}) <= a /\ Min({a, b}) <= b
<1>1. (\A y \in {a, b} : a =< y) \/ (\A y \in {a, b} : b =< y)
  OBVIOUS
<1>2. QED  BY <1>1 DEF Min

(* The caches, and what each may ask.                                      *)
LEMMA CacheNames ==
    Caches = {"cooccurrence", "means", "lambda", "decomp", "themes", "map", "regions"}
BY DEF Caches, Inputs

LEMMA InputsKnown ==
    ASSUME NEW c \in Caches, NEW n \in 1 .. Len(Inputs[c]), Inputs[c][n] \in Caches
    PROVE  Inputs[c][n] \in {"means", "lambda", "decomp"} \/ c = "regions"
<1>1. /\ Inputs["cooccurrence"] = <<"store">>
      /\ Inputs["means"] = <<"store">>
      /\ Inputs["lambda"] = <<"store", "means">>
      /\ Inputs["decomp"] = <<"store", "lambda", "means">>
      /\ Inputs["themes"] = <<"decomp", "store">>
      /\ Inputs["map"] = <<"store">>
  BY DEF Inputs
<1>2. c \in {"cooccurrence", "means", "map"} => Inputs[c][n] = "store"
  BY <1>1
<1>3. c = "lambda" => Inputs[c][n] \in {"store", "means"}
  BY <1>1
<1>4. c = "decomp" => Inputs[c][n] \in {"store", "lambda", "means"}
  BY <1>1
<1>5. c = "themes" => Inputs[c][n] \in {"decomp", "store"}
  BY <1>1
<1>6. QED  BY <1>2, <1>3, <1>4, <1>5, CacheNames

(* The revision is bounded by the versions there are, since every bump is  *)
(* for another one.                                                        *)
LEMMA BumpsBounded ==
    ASSUME NEW from \in Versions, NEW to \in Versions, from <= to,
           NEW S, S \subseteq from + 1 .. to
    PROVE  /\ IsFiniteSet(S) /\ Cardinality(S) \in Nat
           /\ 1 + Cardinality(S) \in 1 .. to /\ 1 + Cardinality(S) \in Revisions
<1>1. from \in Nat /\ to \in Nat /\ from >= 1 /\ to <= MaxVersion
  BY CachesAssumption DEF Versions
<1>2. /\ IsFiniteSet(from + 1 .. to)
      /\ Cardinality(from + 1 .. to) = IF from + 1 > to THEN 0 ELSE to - from
  BY <1>1, FS_Interval
<1>3. IsFiniteSet(S) /\ Cardinality(S) <= Cardinality(from + 1 .. to)
  BY <1>2, FS_Subset
<1>4. Cardinality(S) \in Nat
  BY <1>3, FS_CardinalityType
<1>5. QED  BY <1>1, <1>2, <1>3, <1>4, CachesAssumption DEF Revisions

LEMMA RevisionBounds ==
    ASSUME CorpusInv
    PROVE  /\ IsFiniteSet(bumped)
           /\ Revision \in 1 .. corpus /\ Revision \in Revisions
<1>1. corpus \in Versions /\ base \in Versions /\ base <= corpus
  BY CachesAssumption DEF CorpusInv, Versions
<1>2. QED  BY <1>1, BumpsBounded DEF Revision, CorpusInv

(* What a call is promised lies within what its revision needs.            *)
LEMMA PromiseWithinNeed ==
    ASSUME CorpusInv, NEW need \in [Revisions -> Versions], NeedInv(need), NEW c \in Caches
    PROVE  /\ Promised(c) \in Versions
           /\ Promised(c) <= need[Revision]
           /\ ~Reliable(c) => Promised(c) = 1
<1>1. need[Revision] \in Versions /\ need[Revision] >= 1 /\ 1 \in Versions
  BY RevisionBounds, CachesAssumption DEF Versions
<1>2. Max({base} \cup bumped) = need[Revision]
  <2>1. {base} \cup bumped \in SUBSET Nat
    BY CachesAssumption DEF CorpusInv, Versions
  <2>2. QED  BY <2>1, MaxIs DEF NeedInv
<1>3. PICK m \in {1} \cup invalidated : \A v \in {1} \cup invalidated : v <= m
  BY DEF CorpusInv, HasMax
<1>4. Max({1} \cup invalidated) = m
  <2>1. {1} \cup invalidated \in SUBSET Nat
    BY CachesAssumption DEF CorpusInv, Versions
  <2>2. QED  BY <2>1, <1>3, MaxIs
<1>5. m \in Versions /\ m <= need[Revision]
  BY <1>1, <1>3, CachesAssumption DEF CorpusInv, NeedInv, Versions
<1>6. invalidated = {} => m = 1
  BY <1>3
<1>7. base = 1 \/ c \notin {"map", "regions"} => Promised(c) = Max({base} \cup bumped)
  BY Zenon DEF Promised
<1>8. base # 1 /\ c = "map" => Promised(c) = Max({1} \cup invalidated)
  BY Zenon DEF Promised
<1>9. base # 1 /\ c = "regions" => Promised(c) = 1
  BY Zenon DEF Promised
<1>10. CASE base = 1 \/ c \notin {"map", "regions"}
  BY <1>1, <1>2, <1>7, <1>10 DEF Reliable, Versions
<1>11. CASE base # 1 /\ c = "map"
  BY <1>4, <1>5, <1>6, <1>8, <1>11 DEF Reliable
<1>12. CASE base # 1 /\ c = "regions"
  BY <1>1, <1>9, <1>12
<1>13. QED  BY <1>10, <1>11, <1>12

-----------------------------------------------------------------------------
(* Stacks of calls.                                                        *)

(* A new top that carries on the call before it keeps the stack.           *)
LEMMA ReplaceTop ==
    ASSUME NEW need, NEW s \in Seq(Frame), s # <<>>, StackInv(need, s),
           NEW f \in Frame, FrameInv(need, f), f.at # "done",
           f.cache = s[Len(s)].cache, f.revision = s[Len(s)].revision
    PROVE  /\ [s EXCEPT ![Len(s)] = f] \in Seq(Frame)
           /\ StackInv(need, [s EXCEPT ![Len(s)] = f])
<1> DEFINE t == [s EXCEPT ![Len(s)] = f]
<1>0. Len(s) \in Nat /\ Len(s) >= 1
  OBVIOUS
<1>1. /\ t \in Seq(Frame) /\ Len(t) = Len(s)
      /\ t[Len(s)] = f
      /\ \A n \in 1 .. Len(s) - 1 : t[n] = s[n]
  OBVIOUS
<1>2. ASSUME NEW n \in 1 .. Len(s)
      PROVE  FrameInv(need, t[n])
  <2>1. CASE n = Len(s)
    BY <1>1, <2>1
  <2>2. CASE n # Len(s)
    <3>1. n \in 1 .. Len(s) - 1
      BY <1>0, <2>2
    <3>2. QED  BY <1>1, <3>1 DEF StackInv
  <2>3. QED  BY <2>1, <2>2
<1>3. ASSUME NEW n \in 1 .. Len(s) - 1
      PROVE  NestedInv(t[n], t[n + 1])
  <2>1. t[n] = s[n] /\ NestedInv(s[n], s[n + 1])
    BY <1>1, <1>3 DEF StackInv
  <2>2. CASE n + 1 = Len(s)
    BY <1>1, <2>1, <2>2 DEF NestedInv
  <2>3. CASE n + 1 # Len(s)
    <3>1. n + 1 \in 1 .. Len(s) - 1
      BY <1>0, <2>3
    <3>2. QED  BY <1>1, <2>1, <3>1
  <2>4. QED  BY <2>2, <2>3
<1>4. QED
  BY <1>1, <1>2, <1>3 DEF StackInv

(* A call made by the top of the stack.                                    *)
LEMMA PushCall ==
    ASSUME NEW need, NEW s \in Seq(Frame), s # <<>>, StackInv(need, s),
           NEW f \in Frame, FrameInv(need, f), NestedInv(s[Len(s)], f)
    PROVE  Append(s, f) \in Seq(Frame) /\ StackInv(need, Append(s, f))
<1> DEFINE t == Append(s, f)
<1>1. /\ Len(s) \in Nat /\ Len(s) >= 1
      /\ t \in Seq(Frame) /\ Len(t) = Len(s) + 1
      /\ t[Len(s) + 1] = f
      /\ \A n \in 1 .. Len(s) : t[n] = s[n]
  OBVIOUS
<1>2. ASSUME NEW n \in 1 .. Len(t)
      PROVE  FrameInv(need, t[n])
  <2>1. CASE n = Len(s) + 1
    BY <1>1, <2>1
  <2>2. CASE n # Len(s) + 1
    <3>1. n \in 1 .. Len(s)
      BY <1>1, <2>2
    <3>2. QED  BY <1>1, <3>1 DEF StackInv
  <2>3. QED  BY <2>1, <2>2
<1>3. ASSUME NEW n \in 1 .. Len(t) - 1
      PROVE  NestedInv(t[n], t[n + 1])
  <2>1. CASE n = Len(s)
    BY <1>1, <2>1
  <2>2. CASE n # Len(s)
    <3>1. n \in 1 .. Len(s) - 1 /\ n \in 1 .. Len(s) /\ n + 1 \in 1 .. Len(s)
      BY <1>1, <2>2
    <3>2. t[n] = s[n] /\ t[n + 1] = s[n + 1] /\ NestedInv(s[n], s[n + 1])
      BY <1>1, <3>1 DEF StackInv
    <3>3. QED  BY <3>2
  <2>3. QED  BY <2>1, <2>2
<1>4. QED
  BY <1>1, <1>2, <1>3 DEF StackInv

(* What is left of the stack when its top returns.                         *)
LEMMA PopCall ==
    ASSUME NEW need, NEW s \in Seq(Frame), Len(s) > 1, StackInv(need, s)
    PROVE  LET t == SubSeq(s, 1, Len(s) - 1) IN
           /\ t \in Seq(Frame) /\ t # <<>> /\ Len(t) = Len(s) - 1
           /\ \A n \in 1 .. Len(s) - 1 : t[n] = s[n]
           /\ StackInv(need, t)
<1> DEFINE t == SubSeq(s, 1, Len(s) - 1)
<1>1. /\ Len(s) \in Nat /\ t \in Seq(Frame) /\ Len(t) = Len(s) - 1
      /\ \A n \in 1 .. Len(s) - 1 : t[n] = s[n]
  OBVIOUS
<1>2. t # <<>>
  <2>1. Len(s) \in Nat /\ Len(s) - 1 # 0
    OBVIOUS
  <2> HIDE DEF t
  <2>2. Len(t) # 0
    BY <1>1, <2>1
  <2>3. Len(<<>>) = 0
    OBVIOUS
  <2>4. QED  BY <2>2, <2>3
<1>3. ASSUME NEW n \in 1 .. Len(t)
      PROVE  FrameInv(need, t[n])
  <2>1. n \in 1 .. Len(s) - 1 /\ n \in 1 .. Len(s)
    BY <1>1
  <2>2. QED  BY <1>1, <2>1 DEF StackInv
<1>4. ASSUME NEW n \in 1 .. Len(t) - 1
      PROVE  NestedInv(t[n], t[n + 1])
  <2>1. n \in 1 .. Len(s) - 1 /\ n + 1 \in 1 .. Len(s) - 1
    BY <1>1
  <2>2. t[n] = s[n] /\ t[n + 1] = s[n + 1] /\ NestedInv(s[n], s[n + 1])
    BY <1>1, <2>1 DEF StackInv
  <2>3. QED  BY <2>2
<1>5. QED
  BY <1>1, <1>2, <1>3, <1>4 DEF StackInv

(* A call in the middle of its work is not done, and the top of its stack. *)
LEMMA BusyTop ==
    ASSUME CacheTypeOK, NEW g \in Callers, ~Idle(g),
           NEW need, StackInv(need, calls[g])
    PROVE  /\ calls[g] \in Seq(Frame) /\ calls[g] # <<>>
           /\ Len(calls[g]) \in Nat \ {0}
           /\ Top(g) = calls[g][Len(calls[g])] /\ Top(g) \in Frame
           /\ FrameInv(need, Top(g)) /\ Top(g).at # "done"
<1>1. calls[g] \in Seq(Frame) /\ calls[g] # <<>> /\ calls[g][1].at # "done"
  BY DEF CacheTypeOK, Idle
<1>0. Len(calls[g]) \in Nat \ {0}
  BY <1>1
<1>2. Top(g) = calls[g][Len(calls[g])] /\ Top(g) \in Frame
  BY <1>1 DEF Top
<1>3. FrameInv(need, Top(g))
  BY <1>0, <1>2 DEF StackInv
<1>4. CASE Len(calls[g]) = 1
  BY <1>0, <1>1, <1>2, <1>3, <1>4
<1>5. CASE Len(calls[g]) # 1
  <2> DEFINE k == Len(calls[g])
  <2>0. k \in Nat /\ k # 0 /\ k # 1
    BY <1>0, <1>5
  <2> HIDE DEF k
  <2>1. k - 1 \in 1 .. k - 1 /\ (k - 1) + 1 = k
    BY <2>0
  <2>2. NestedInv(calls[g][k - 1], Top(g))
    BY <1>2, <2>1 DEF StackInv, k
  <2>3. QED  BY <1>0, <1>1, <1>2, <1>3, <2>2 DEF NestedInv
<1>6. QED  BY <1>4, <1>5

(* A step of one caller's stack alone.                                     *)
LEMMA StackStep ==
    ASSUME CachesInv, NEW need \in [Revisions -> Versions], Covered(need),
           UNCHANGED corpusVars,
           kept' \in [Caches -> [Revisions -> Versions \cup {0}]], KeptInv(need)',
           NEW g \in Callers, NEW s \in Seq(Frame), StackInv(need, s),
           calls' = [calls EXCEPT ![g] = s]
    PROVE  CachesInv'
<1>1. CacheTypeOK'
  BY DEF CachesInv, CacheTypeOK
<1>2. CorpusInv'
  BY DEF CachesInv, CorpusInv, HasMax, corpusVars
<1>3. NeedInv(need)'
  BY DEF Covered, NeedInv, Revision, corpusVars
<1>4. ASSUME NEW h \in Callers
      PROVE  StackInv(need, calls[h])'
  <2>1. StackInv(need, IF h = g THEN s ELSE calls[h])
    BY DEF Covered
  <2>2. calls'[h] = IF h = g THEN s ELSE calls[h]
    BY DEF CachesInv, CacheTypeOK
  <2>3. QED  BY <2>1, <2>2 DEF StackInv, FrameInv, NestedInv, Reliable, Revision, corpusVars
<1>5. QED  BY <1>1, <1>2, <1>3, <1>4 DEF CachesInv, Covered

(* The call e goes on with a result that is good enough for the call it    *)
(* made, and so for its own revision, which is no later.                   *)
LEMMA GoesOn ==
    ASSUME NEW need \in [Revisions -> Versions], NeedInv(need),
           NEW e \in Frame, FrameInv(need, e), NEW inner \in Frame, FrameInv(need, inner),
           NestedInv(e, inner),
           NEW v \in Versions, Reliable(inner.cache) => need[inner.revision] <= v,
           NEW o \in {e.oldest, v},
           NEW f \in Frame, f.cache = e.cache, f.revision = e.revision,
           f.need = e.need, f.at = e.at, f.oldest = o
    PROVE  f.at # "done" /\ FrameInv(need, f)
<1>1. f.at = "compute" /\ e.at = "compute"
  BY DEF NestedInv
<1>2. /\ e.revision \in Revisions /\ inner.revision \in Revisions
      /\ need[e.revision] \in Nat /\ need[inner.revision] \in Nat /\ v \in Nat
  BY DEF Frame, Versions
<1>3. need[e.revision] <= need[inner.revision]
  BY <1>2 DEF NestedInv, FrameInv, NeedInv
<1>4. ASSUME base = 1 \/ e.cache # "regions"
      PROVE  need[e.revision] <= o
  <2>1. need[inner.revision] <= v
    BY <1>4 DEF NestedInv, Reliable
  <2>2. need[e.revision] <= v
    BY <1>2, <1>3, <2>1
  <2>3. need[e.revision] <= e.oldest
    BY <1>1, <1>4 DEF FrameInv
  <2>4. QED  BY <2>2, <2>3
<1>5. FrameInv(need, f)
  BY <1>1, <1>4 DEF FrameInv
<1>6. QED  BY <1>1, <1>5

(* A request is answered with a result that is good enough.                *)
LEMMA Answered ==
    ASSUME NEW need \in [Revisions -> Versions], NEW e \in Frame, FrameInv(need, e),
           e.at # "done",
           NEW v \in Versions, Reliable(e.cache) => need[e.revision] <= v
    PROVE  LET f == [e EXCEPT !.at = "done", !.oldest = v, !.read = 0, !.revision = 1] IN
           <<f>> \in Seq(Frame) /\ StackInv(need, <<f>>)
<1> DEFINE f == [e EXCEPT !.at = "done", !.oldest = v, !.read = 0, !.revision = 1]
<1>1. 1 \in Revisions
  BY CachesAssumption DEF Revisions
<1>2. f \in Frame /\ f.at = "done" /\ f.oldest = v /\ f.need = e.need
  BY <1>1 DEF Frame
<1>3. e.need \in Nat /\ e.revision \in Revisions /\ need[e.revision] \in Nat
      /\ v \in Nat /\ 1 <= v
  BY DEF Frame, Versions
<1>4. e.need <= v
  <2>1. CASE Reliable(e.cache)
    BY <1>3, <2>1 DEF FrameInv
  <2>2. CASE ~Reliable(e.cache)
    BY <1>3, <2>2 DEF FrameInv
  <2>3. QED  BY <2>1, <2>2
<1> HIDE DEF f
<1>5. FrameInv(need, f)
  BY <1>2, <1>3, <1>4 DEF FrameInv
<1>6. <<f>> \in Seq(Frame) /\ Len(<<f>>) = 1 /\ <<f>>[1] = f
  BY <1>2
<1>7. StackInv(need, <<f>>)
  BY <1>5, <1>6 DEF StackInv
<1>8. QED  BY <1>6, <1>7 DEF f

(* A call returns a result that is good enough for its revision, to the    *)
(* request or to the call before it.                                       *)
LEMMA ReturnStep ==
    ASSUME CachesInv, NEW need \in [Revisions -> Versions], Covered(need),
           UNCHANGED corpusVars,
           kept' \in [Caches -> [Revisions -> Versions \cup {0}]], KeptInv(need)',
           NEW g \in Callers, ~Idle(g),
           NEW v \in Versions, Reliable(Top(g).cache) => need[Top(g).revision] <= v,
           Return(g, v)
    PROVE  CachesInv'
<1> DEFINE s == calls[g]
           n == Len(s)
<1>1. /\ s \in Seq(Frame) /\ s # <<>> /\ n \in Nat \ {0} /\ StackInv(need, s)
      /\ Top(g) = s[n] /\ s[n] \in Frame /\ FrameInv(need, s[n]) /\ s[n].at # "done"
  BY BusyTop DEF CachesInv, Covered
<1>2. CASE n = 1
  <2> DEFINE t == <<[s[n] EXCEPT !.at = "done", !.oldest = v, !.read = 0, !.revision = 1]>>
  <2>1. calls' = [calls EXCEPT ![g] = t]
    BY <1>1, <1>2 DEF Return
  <2>2. t \in Seq(Frame) /\ StackInv(need, t)
    BY <1>1, Answered
  <2> HIDE DEF t
  <2>3. QED  BY <2>1, <2>2, StackStep
<1>3. CASE n # 1
  <2> DEFINE t == SubSeq(s, 1, n - 1)
             e == s[n - 1]
             o == Min({e.oldest, v})
             f == [e EXCEPT !.oldest = o, !.read = e.read + 1]
             r == [t EXCEPT ![n - 1] = f]
  <2>1. n > 1 /\ n - 1 \in 1 .. n - 1 /\ n - 1 \in 1 .. n /\ (n - 1) + 1 = n
    <3> HIDE DEF n
    <3>1. QED  BY <1>1, <1>3
  <2>2. /\ t \in Seq(Frame) /\ t # <<>> /\ Len(t) = n - 1 /\ StackInv(need, t)
        /\ t[n - 1] = e
    BY <1>1, <2>1, PopCall
  <2>3. e \in Frame /\ FrameInv(need, e) /\ NestedInv(e, s[n])
    BY <1>1, <2>1 DEF StackInv
  <2>4. calls' = [calls EXCEPT ![g] = r]
    BY <1>3 DEF Return
  <2>5. o \in {e.oldest, v}
    BY <2>3, MinOfTwo, SMTT(30) DEF Frame, Versions
  <2>9. (Reliable(s[n].cache) => need[s[n].revision] <= v) /\ NeedInv(need)
    BY <1>1 DEF Covered
  <2>10. o \in Versions /\ e.read + 1 \in Nat
    <3> HIDE DEF e, o
    <3>1. QED  BY <2>3, <2>5 DEF Frame
  <2>11. f \in Frame /\ f.cache = e.cache /\ f.revision = e.revision
         /\ f.need = e.need /\ f.at = e.at /\ f.oldest = o
    <3> HIDE DEF e, o
    <3>1. QED  BY <2>3, <2>10 DEF Frame
  <2> HIDE DEF e, o, f, t, s, n
  <2>6. f.at # "done" /\ FrameInv(need, f)
    <3>1. s[n] \in Frame /\ FrameInv(need, s[n])
      BY <1>1
    <3>2. QED  BY <2>3, <2>5, <2>9, <2>11, <3>1, GoesOn
  <2>7. r \in Seq(Frame) /\ StackInv(need, r)
    BY <2>2, <2>6, <2>11, ReplaceTop
  <2> HIDE DEF r
  <2>8. QED  BY <2>4, <2>7, StackStep DEF s
<1>4. QED  BY <1>2, <1>3

-----------------------------------------------------------------------------
(* Calls begin.                                                            *)

LEMMA CallFrame ==
    ASSUME CorpusInv, NEW need \in [Revisions -> Versions], NeedInv(need), NEW c \in Caches,
           NEW f \in {Call(c), [Call(c) EXCEPT !.need = 1]}
    PROVE  /\ f \in Frame /\ FrameInv(need, f) /\ f.at # "done"
           /\ f.revision = Revision /\ f.cache = c
<1>1. /\ Promised(c) \in Versions /\ Promised(c) <= need[Revision]
      /\ ~Reliable(c) => Promised(c) = 1
  BY PromiseWithinNeed
<1>2. /\ Revision \in Revisions /\ need[Revision] \in Versions
      /\ 1 \in Versions /\ MaxVersion \in Versions
  BY RevisionBounds, CachesAssumption DEF Versions
<1>3. /\ f.cache = c /\ f.revision = Revision /\ f.need \in {Promised(c), 1}
      /\ f.at = (IF c = "map" THEN "probe" ELSE "look") /\ f.read = 0 /\ f.oldest = MaxVersion
      /\ f \in Frame
  BY <1>1, <1>2 DEF Call, Frame
<1>4. /\ f.need <= need[Revision] /\ need[Revision] <= MaxVersion
      /\ Revision <= Revision
  BY <1>1, <1>2, <1>3, CachesAssumption DEF Versions, Revisions
<1>5. FrameInv(need, f)
  BY <1>1, <1>3, <1>4 DEF FrameInv
<1>6. QED  BY <1>3, <1>5

(* Results stay as good as they are while the corpus does not change.      *)
LEMMA KeptStays ==
    ASSUME CachesInv, NEW need \in [Revisions -> Versions], Covered(need),
           UNCHANGED <<corpusVars, kept>>
    PROVE  kept' \in [Caches -> [Revisions -> Versions \cup {0}]] /\ KeptInv(need)'
BY DEF CachesInv, CacheTypeOK, Covered, KeptInv, Reliable, Revision, corpusVars

LEMMA AskKeeps ==
    ASSUME CachesInv, NEW g \in Callers, NEW c \in Asked, Ask(g, c)
    PROVE  CachesInv'
<1>1. PICK need \in [Revisions -> Versions] : Covered(need)
  BY DEF CachesInv
<1> DEFINE f == Call(c)
<1>2. f \in Frame /\ FrameInv(need, f)
  BY <1>1, CallFrame, CachesAssumption DEF CachesInv, Covered
<1>3. calls' = [calls EXCEPT ![g] = <<f>>] /\ UNCHANGED <<corpusVars, kept>>
  BY DEF Ask
<1> HIDE DEF f
<1>4. <<f>> \in Seq(Frame) /\ Len(<<f>>) = 1 /\ <<f>>[1] = f
  BY <1>2
<1>5. StackInv(need, <<f>>)
  BY <1>2, <1>4 DEF StackInv
<1>6. QED  BY <1>1, <1>3, <1>4, <1>5, KeptStays, StackStep

LEMMA AskCacheKeeps ==
    ASSUME CachesInv, NEW g \in Callers, NEW c \in Caches, AskCache(g, c)
    PROVE  CachesInv'
<1>1. PICK need \in [Revisions -> Versions] : Covered(need)
  BY DEF CachesInv
<1> DEFINE f == [Call(c) EXCEPT !.need = 1]
           s == calls[g]
<1>2. /\ f \in Frame /\ FrameInv(need, f) /\ f.at # "done"
      /\ f.revision = Revision /\ f.cache = c
  BY <1>1, CallFrame DEF CachesInv, Covered
<1>3. calls' = [calls EXCEPT ![g] = Append(s, f)] /\ UNCHANGED <<corpusVars, kept>>
  BY DEF AskCache
<1>4. ~Idle(g) /\ Top(g).at = "compute"
  BY DEF AskCache, Wants, Busy
<1>5. /\ s \in Seq(Frame) /\ s # <<>> /\ StackInv(need, s) /\ Top(g) = s[Len(s)]
      /\ Top(g) \in Frame /\ FrameInv(need, Top(g)) /\ Top(g).at # "done"
  BY <1>1, <1>4, BusyTop DEF CachesInv, Covered
<1>6. c \in {"means", "lambda", "decomp"} \/ Top(g).cache = "regions"
  <2>1. Top(g).cache \in Caches /\ Top(g).read \in Nat
    BY <1>5 DEF Frame
  <2>2. /\ Top(g).read < Len(Inputs[Top(g).cache])
        /\ c = Inputs[Top(g).cache][Top(g).read + 1]
    BY DEF AskCache, Wants
  <2>3. Len(Inputs[Top(g).cache]) \in Nat
    BY <2>1, CacheNames DEF Inputs
  <2>4. Top(g).read + 1 \in 1 .. Len(Inputs[Top(g).cache])
    BY <2>1, <2>2, <2>3
  <2>5. QED  BY <2>1, <2>2, <2>4, InputsKnown
<1>7. NestedInv(s[Len(s)], f)
  BY <1>2, <1>4, <1>5, <1>6 DEF NestedInv, FrameInv
<1> HIDE DEF f, s
<1>8. Append(s, f) \in Seq(Frame) /\ StackInv(need, Append(s, f))
  BY <1>2, <1>5, <1>7, PushCall
<1>9. QED  BY <1>1, <1>3, <1>8, KeptStays, StackStep

-----------------------------------------------------------------------------
(* Calls go on.                                                            *)

(* The top of a stack goes on by itself.                                   *)
LEMMA MoveKeeps ==
    ASSUME CachesInv, NEW need \in [Revisions -> Versions], Covered(need),
           UNCHANGED <<corpusVars, kept>>, NEW g \in Callers, ~Idle(g),
           NEW f \in Frame, FrameInv(need, f), f.at # "done",
           f.cache = Top(g).cache, f.revision = Top(g).revision, Move(g, f)
    PROVE  CachesInv'
<1> DEFINE s == calls[g]
           t == [s EXCEPT ![Len(s)] = f]
<1>1. s \in Seq(Frame) /\ s # <<>> /\ StackInv(need, s) /\ Top(g) = s[Len(s)]
  BY BusyTop DEF CachesInv, Covered
<1>2. calls' = [calls EXCEPT ![g] = t]
  BY DEF Move
<1> HIDE DEF s
<1>3. t \in Seq(Frame) /\ StackInv(need, t)
  BY <1>1, ReplaceTop
<1> HIDE DEF t
<1>4. QED  BY <1>2, <1>3, KeptStays, StackStep

(* A hit is good enough.                                                   *)
LEMMA HitKeeps ==
    ASSUME CachesInv, UNCHANGED <<corpusVars, kept>>, NEW g \in Callers, ~Idle(g),
           Hit(Top(g)), Return(g, kept[Top(g).cache][Top(g).revision])
    PROVE  CachesInv'
<1>1. PICK need \in [Revisions -> Versions] : Covered(need)
  BY DEF CachesInv
<1> DEFINE v == kept[Top(g).cache][Top(g).revision]
<1>2. Top(g) \in Frame
  BY <1>1, BusyTop DEF CachesInv, Covered
<1>3. v \in Versions /\ (Reliable(Top(g).cache) => need[Top(g).revision] <= v)
  BY <1>1, <1>2 DEF CachesInv, CacheTypeOK, Covered, KeptInv, Frame, Hit
<1> HIDE DEF v
<1>4. Return(g, v)
  BY DEF v
<1>5. QED  BY <1>1, <1>3, <1>4, KeptStays, ReturnStep

(* The top of a stack moves on without reading anything.                   *)
LEMMA MissKeeps ==
    ASSUME CachesInv, UNCHANGED <<corpusVars, kept>>, NEW g \in Callers, ~Idle(g),
           NEW place \in {"look", "compute"}, Move(g, [Top(g) EXCEPT !.at = place])
    PROVE  CachesInv'
<1>1. PICK need \in [Revisions -> Versions] : Covered(need)
  BY DEF CachesInv
<1> DEFINE f == [Top(g) EXCEPT !.at = place]
<1>2. Top(g) \in Frame /\ FrameInv(need, Top(g)) /\ Top(g).at # "done"
  BY <1>1, BusyTop DEF CachesInv, Covered
<1>3. /\ f \in Frame /\ f.at = place /\ f.cache = Top(g).cache
      /\ f.revision = Top(g).revision /\ f.need = Top(g).need /\ f.oldest = Top(g).oldest
  BY <1>2 DEF Frame
<1> HIDE DEF f
<1>4. FrameInv(need, f)
  BY <1>2, <1>3 DEF FrameInv
<1>5. QED  BY <1>1, <1>3, <1>4, MoveKeeps DEF f

LEMMA ProbeKeeps ==
    ASSUME CachesInv, NEW g \in Callers, Probe(g)
    PROVE  CachesInv'
<1>1. ~Idle(g) /\ UNCHANGED <<corpusVars, kept>>
  BY DEF Probe, Busy
<1>0. Top(g).cache = "map"
  BY <1>1, BusyTop DEF CachesInv, Covered, FrameInv, Probe, Busy
<1>2. CASE Hit(Top(g))
  BY <1>0, <1>1, <1>2, HitKeeps DEF Probe
<1>3. CASE ~Hit(Top(g))
  BY <1>1, <1>3, MissKeeps DEF Probe
<1>4. QED  BY <1>2, <1>3

LEMMA LookKeeps ==
    ASSUME CachesInv, NEW g \in Callers, Look(g)
    PROVE  CachesInv'
<1>1. ~Idle(g) /\ UNCHANGED <<corpusVars, kept>>
  BY DEF Look, Busy
<1>2. CASE Hit(Top(g))
  BY <1>1, <1>2, HitKeeps DEF Look
<1>3. CASE ~Hit(Top(g))
  BY <1>1, <1>3, MissKeeps DEF Look
<1>4. QED  BY <1>2, <1>3

LEMMA ReadStoreKeeps ==
    ASSUME CachesInv, NEW g \in Callers, ReadStore(g)
    PROVE  CachesInv'
<1>1. PICK need \in [Revisions -> Versions] : Covered(need)
  BY DEF CachesInv
<1> DEFINE e == Top(g)
           o == Min({e.oldest, corpus})
           f == [e EXCEPT !.read = e.read + 1, !.oldest = o]
<1>2. ~Idle(g) /\ UNCHANGED <<corpusVars, kept>> /\ Move(g, f)
  BY DEF ReadStore, Wants, Busy
<1>3. e \in Frame /\ FrameInv(need, e) /\ e.at # "done"
  BY <1>1, <1>2, BusyTop DEF CachesInv, Covered
<1>4. corpus \in Versions /\ e.oldest \in Versions
  BY <1>3 DEF CachesInv, CorpusInv, Frame
<1>5. o \in {e.oldest, corpus}
  BY <1>4, MinOfTwo DEF Versions
<1> HIDE DEF e, o
<1>6. o \in Versions /\ e.read + 1 \in Nat
  BY <1>3, <1>4, <1>5 DEF Frame
<1>7. /\ f \in Frame /\ f.at = e.at /\ f.cache = e.cache
      /\ f.revision = e.revision /\ f.need = e.need /\ f.oldest = o
  BY <1>3, <1>6 DEF Frame
<1>8. need[e.revision] <= corpus
  <2>1. need[Revision] <= corpus /\ Revision \in Revisions
    BY <1>1, RevisionBounds, CachesAssumption
       DEF CachesInv, CorpusInv, Covered, NeedInv, Versions
  <2>2. need[e.revision] <= need[Revision]
    BY <1>1, <1>3, <2>1 DEF Covered, NeedInv, FrameInv, Frame, Revisions
  <2>3. need[e.revision] \in Nat /\ need[Revision] \in Nat /\ corpus \in Nat
    BY <1>3, <1>4, <2>1 DEF Frame, Versions
  <2>4. QED  BY <2>1, <2>2, <2>3
<1> HIDE DEF f
<1>9. FrameInv(need, f)
  BY <1>3, <1>5, <1>7, <1>8 DEF FrameInv
<1>10. QED  BY <1>1, <1>2, <1>3, <1>7, <1>9, MoveKeeps DEF e

LEMMA KeepKeeps ==
    ASSUME CachesInv, NEW g \in Callers, Keep(g)
    PROVE  CachesInv'
<1>1. PICK need \in [Revisions -> Versions] : Covered(need)
  BY DEF CachesInv
<1> DEFINE f == Top(g)
           v == f.oldest
<1>2. /\ ~Idle(g) /\ f.at = "compute" /\ UNCHANGED corpusVars
      /\ kept' = [kept EXCEPT ![f.cache] = [Others(f.cache) EXCEPT ![f.revision] = v]]
      /\ Return(g, v)
  BY DEF Keep, KeptAfter, Busy
<1>3. f \in Frame /\ FrameInv(need, f)
  BY <1>1, <1>2, BusyTop DEF CachesInv, Covered
<1> HIDE DEF f
<1>4. v \in Versions /\ f.cache \in Caches /\ f.revision \in Revisions
  BY <1>3 DEF Frame
<1>5. f.revision <= Revision /\ (Reliable(f.cache) => need[f.revision] <= v)
  BY <1>2, <1>3 DEF FrameInv, Reliable
<1> DEFINE row == [Others(f.cache) EXCEPT ![f.revision] = v]
<1>6. /\ row \in [Revisions -> Versions \cup {0}]
      /\ row[f.revision] = v
      /\ \A r \in Revisions \ {f.revision} : row[r] \in {0, kept[f.cache][r]}
  BY <1>4 DEF CachesInv, CacheTypeOK, Others, Nothing
<1> HIDE DEF row, v
<1>7. kept' \in [Caches -> [Revisions -> Versions \cup {0}]]
  BY <1>2, <1>6 DEF CachesInv, CacheTypeOK, row
<1>8. KeptInv(need)'
  <2>1. SUFFICES ASSUME NEW c \in Caches, NEW r \in Revisions, Reliable(c), kept'[c][r] # 0
                 PROVE  r <= Revision /\ need[r] <= kept'[c][r]
    BY <1>2 DEF KeptInv, Reliable, Revision, corpusVars
  <2>2. CASE kept'[c][r] = kept[c][r]
    BY <1>1, <2>1, <2>2 DEF Covered, KeptInv
  <2>3. CASE kept'[c][r] # kept[c][r]
    <3>1. kept' = [kept EXCEPT ![f.cache] = row]
      BY <1>2 DEF row
    <3>2. c = f.cache /\ r = f.revision /\ kept'[c][r] = v
      BY <1>4, <1>6, <2>1, <2>3, <3>1 DEF CachesInv, CacheTypeOK
    <3>3. QED  BY <1>5, <2>1, <3>2
  <2>4. QED  BY <2>2, <2>3
<1>9. QED  BY <1>1, <1>2, <1>4, <1>5, <1>7, <1>8, ReturnStep DEF f

LEMMA FailKeeps ==
    ASSUME CachesInv, NEW g \in Callers, Fail(g)
    PROVE  CachesInv'
<1>1. PICK need \in [Revisions -> Versions] : Covered(need)
  BY DEF CachesInv
<1>2. calls' = [calls EXCEPT ![g] = <<>>] /\ UNCHANGED <<corpusVars, kept>>
  BY DEF Fail
<1>3. <<>> \in Seq(Frame) /\ StackInv(need, <<>>)
  BY DEF StackInv
<1>4. QED  BY <1>1, <1>2, <1>3, KeptStays, StackStep

-----------------------------------------------------------------------------
(* Writes and restarts.                                                    *)

LEMMA CommitKeeps ==
    ASSUME CachesInv, NEW layout \in BOOLEAN, Commit(layout)
    PROVE  CachesInv'
<1>1. PICK need \in [Revisions -> Versions] : Covered(need)
  BY DEF CachesInv
<1>2. CacheTypeOK' /\ Covered(need)'
  BY <1>1 DEF CachesInv, CacheTypeOK, Covered, NeedInv, KeptInv, StackInv, FrameInv,
              NestedInv, Reliable, Revision, Commit
<1>3. CorpusInv'
  <2> DEFINE new == [version |-> corpus + 1, layout |-> layout, bumped |-> FALSE]
  <2>1. corpus \in Nat /\ base \in Nat /\ base <= corpus /\ corpus < MaxVersion /\ base >= 1
    BY CachesAssumption DEF CachesInv, CorpusInv, Versions, Commit
  <2>2. corpus' \in Versions /\ base' \in 1 .. corpus'
    BY <2>1, CachesAssumption DEF Versions, Commit
  <2>3. /\ bumped' \subseteq base' + 1 .. corpus' /\ invalidated' \subseteq bumped'
        /\ corpus + 1 \notin bumped
    BY <2>1 DEF CachesInv, CorpusInv, Commit
  <2>4. HasMax({1} \cup invalidated)'
    BY DEF CachesInv, CorpusInv, HasMax, Commit
  <2>5. ASSUME NEW w \in writing'
        PROVE  /\ w \in [version : base' + 1 .. corpus', layout : BOOLEAN, bumped : BOOLEAN]
               /\ w.bumped <=> w.version \in bumped'
               /\ \A x \in writing' : x.version = w.version => x = w
    <3>1. writing' = writing \cup {new} /\ bumped' = bumped
      BY DEF Commit
    <3>2. CASE w \in writing
      <4>1. w.version \in base + 1 .. corpus /\ w.version # corpus + 1
        BY <2>1, <3>2 DEF CachesInv, CorpusInv
      <4>2. QED  BY <2>1, <3>1, <3>2, <4>1 DEF CachesInv, CorpusInv, Commit
    <3>3. CASE w = new
      <4>1. \A x \in writing : x.version # corpus + 1
        BY <2>1 DEF CachesInv, CorpusInv
      <4>2. QED  BY <2>1, <2>3, <3>1, <3>3, <4>1 DEF Commit
    <3>4. QED  BY <3>1, <3>2, <3>3
  <2>6. QED  BY <2>2, <2>3, <2>4, <2>5 DEF CorpusInv
<1>4. QED  BY <1>2, <1>3 DEF CachesInv

LEMMA BumpKeeps ==
    ASSUME CachesInv, NEW w \in writing, Bump(w)
    PROVE  CachesInv'
<1>1. PICK need \in [Revisions -> Versions] : Covered(need)
  BY DEF CachesInv
<1>2. /\ w.version \in base + 1 .. corpus /\ w.version \notin bumped
      /\ bumped' = bumped \cup {w.version}
      /\ UNCHANGED <<corpus, invalidated, base, kept, calls>>
  BY DEF CachesInv, CorpusInv, Bump
<1>3. CorpusInv'
  <2> DEFINE done == [w EXCEPT !.bumped = TRUE]
  <2>1. writing' \subseteq (writing \ {w}) \cup {done}
    BY DEF Bump
  <2>2. /\ done \in [version : base + 1 .. corpus, layout : BOOLEAN, bumped : BOOLEAN]
        /\ done.version = w.version /\ done.bumped
    BY DEF CachesInv, CorpusInv
  <2> HIDE DEF done
  <2>3. \A x \in writing \ {w} : x.version # w.version
    BY DEF CachesInv, CorpusInv
  <2>4. QED  BY <1>2, <2>1, <2>2, <2>3 DEF CachesInv, CorpusInv, HasMax
<1>4. Revision' = Revision + 1 /\ Revision \in Revisions /\ Revision + 1 \in Revisions
  <2>1. IsFiniteSet(bumped) /\ Revision \in Revisions
    BY RevisionBounds DEF CachesInv
  <2>2. Cardinality(bumped') = Cardinality(bumped) + 1 /\ Cardinality(bumped) \in Nat
    BY <1>2, <2>1, FS_AddElement, FS_CardinalityType
  <2>3. Revision' \in Revisions
    <3> DEFINE S == bumped'
    <3>1. corpus \in Versions /\ base \in Versions /\ base <= corpus
      BY CachesAssumption DEF CachesInv, CorpusInv, Versions
    <3>2. S \subseteq base + 1 .. corpus
      <4>1. bumped \subseteq base + 1 .. corpus
        BY DEF CachesInv, CorpusInv
      <4>2. QED  BY <1>2, <4>1
    <3> HIDE DEF S
    <3>3. 1 + Cardinality(S) \in Revisions
      BY <3>1, <3>2, BumpsBounded
    <3>4. QED  BY <3>3 DEF Revision, Revisions, S
  <2>4. QED  BY <2>1, <2>2, <2>3 DEF Revision
<1>5. need[Revision] \in Nat /\ w.version \in Nat /\ need[Revision] \in Versions
      /\ w.version \in Versions
  BY <1>2, <1>4, CachesAssumption DEF CachesInv, CorpusInv, Versions
<1>6. PICK then \in [Revisions -> Versions] :
          /\ then[Revision + 1] \in {w.version, need[Revision]}
          /\ w.version <= then[Revision + 1] /\ need[Revision] <= then[Revision + 1]
          /\ \A r \in Revisions : r <= Revision => then[r] = need[r]
  <2> DEFINE latest == IF w.version > need[Revision] THEN w.version ELSE need[Revision]
  <2>1. /\ latest \in {w.version, need[Revision]} /\ latest \in Versions
        /\ w.version <= latest /\ need[Revision] <= latest
    BY <1>5
  <2> HIDE DEF latest
  <2> DEFINE t == [need EXCEPT ![Revision + 1] = latest]
  <2>2. /\ t \in [Revisions -> Versions] /\ t[Revision + 1] = latest
        /\ \A r \in Revisions : r <= Revision => t[r] = need[r]
    BY <1>4, <2>1 DEF Revisions
  <2> HIDE DEF t
  <2>3. QED  BY <2>1, <2>2
<1>7. NeedInv(then)'
  <2>1. ASSUME NEW r \in Revisions, NEW s \in Revisions, r <= s, s <= Revision + 1
        PROVE  then[r] <= then[s]
    <3>1. r \in Nat /\ s \in Nat /\ Revision \in Nat
      BY <1>4 DEF Revisions
    <3>2. CASE s <= Revision
      BY <1>1, <1>6, <2>1, <3>1, <3>2 DEF Covered, NeedInv
    <3>3. CASE s = Revision + 1 /\ r <= Revision
      <4>1. need[r] <= need[Revision]
        BY <1>1, <1>4, <3>1, <3>3 DEF Covered, NeedInv
      <4>2. need[r] \in Nat /\ need[Revision] \in Nat /\ then[Revision + 1] \in Nat
        BY <1>4, <1>5, <1>6 DEF Versions
      <4>3. need[r] <= then[Revision + 1]
        BY <1>6, <4>1, <4>2
      <4>4. QED  BY <1>6, <3>3, <4>3
    <3>4. CASE s = Revision + 1 /\ r = Revision + 1
      BY <1>4, <1>6, <3>4 DEF Versions
    <3>5. QED  BY <2>1, <3>1, <3>2, <3>3, <3>4
  <2>2. then[Revision + 1] \in {base} \cup bumped'
    BY <1>1, <1>2, <1>6 DEF Covered, NeedInv
  <2>3. ASSUME NEW v \in {base} \cup bumped'
        PROVE  v <= then[Revision + 1]
    <3>1. CASE v = w.version
      BY <1>6, <3>1
    <3>2. CASE v # w.version
      <4>1. v \in {base} \cup bumped
        BY <1>2, <3>2
      <4>2. v <= need[Revision]
        BY <1>1, <4>1 DEF Covered, NeedInv
      <4>3. v \in Nat /\ need[Revision] \in Nat /\ then[Revision + 1] \in Nat
        BY <1>4, <1>5, <1>6, <4>1, CachesAssumption DEF CachesInv, CorpusInv, Versions
      <4>4. QED  BY <1>6, <4>2, <4>3
    <3>3. QED  BY <3>1, <3>2
  <2>4. QED  BY <1>4, <1>6, <2>1, <2>2, <2>3, <1>2 DEF NeedInv
<1>8. \A c : Reliable(c)' <=> Reliable(c)
  BY <1>2 DEF Reliable
<1>9. KeptInv(then)'
  <2>1. SUFFICES ASSUME NEW c \in Caches, NEW r \in Revisions, Reliable(c), kept[c][r] # 0
                 PROVE  r <= Revision + 1 /\ then[r] <= kept[c][r]
    BY <1>2, <1>4, <1>8 DEF KeptInv
  <2>2. r <= Revision /\ need[r] <= kept[c][r]
    BY <1>1, <2>1 DEF Covered, KeptInv
  <2>3. QED  BY <1>4, <1>6, <2>2 DEF Revisions
<1>10. ASSUME NEW g \in Callers
       PROVE  StackInv(then, calls[g])'
  <2>1. ASSUME NEW f \in Frame, FrameInv(need, f)
        PROVE  FrameInv(then, f)'
    <3>1. f.revision \in Revisions
      BY DEF Frame
    <3>2. f.revision <= Revision => f.revision <= Revision + 1 /\ then[f.revision] = need[f.revision]
      BY <1>4, <1>6, <3>1 DEF Revisions
    <3>3. QED  BY <1>2, <1>4, <1>8, <2>1, <3>2 DEF FrameInv
  <2>2. calls[g] \in Seq(Frame) /\ StackInv(need, calls[g])
    BY <1>1 DEF CachesInv, CacheTypeOK, Covered
  <2>3. \A n \in 1 .. Len(calls[g]) : calls[g][n] \in Frame
    BY <2>2
  <2>4. calls' = calls
    BY <1>2
  <2>5. QED  BY <2>1, <2>2, <2>3, <2>4 DEF StackInv, NestedInv
<1>11. CacheTypeOK'
  BY <1>2 DEF CachesInv, CacheTypeOK
<1>12. QED  BY <1>3, <1>6, <1>7, <1>9, <1>10, <1>11 DEF CachesInv, Covered

LEMMA InvalidationKeeps ==
    ASSUME CachesInv, NEW w \in writing, InvalidateMaps(w)
    PROVE  CachesInv'
<1>1. PICK need \in [Revisions -> Versions] : Covered(need)
  BY DEF CachesInv
<1>2. /\ UNCHANGED <<corpus, bumped, base, calls>> /\ writing' \subseteq writing
      /\ w.version \in bumped
  BY DEF CachesInv, CorpusInv, InvalidateMaps
<1>3. /\ CacheTypeOK' /\ KeptInv(need)'
      /\ invalidated' \in {invalidated, invalidated \cup {w.version}}
  <2>1. CASE UNCHANGED <<kept, invalidated>>
    BY <1>1, <1>2, <2>1
       DEF CachesInv, CacheTypeOK, Covered, KeptInv, Reliable, Revision
  <2>2. CASE /\ kept' = [kept EXCEPT !["map"] = Nothing]
             /\ invalidated' = invalidated \cup {w.version}
    <3>1. Nothing \in [Revisions -> Versions \cup {0}] /\ \A r \in Revisions : Nothing[r] = 0
      BY DEF Nothing
    <3>2. CacheTypeOK'
      BY <1>2, <2>2, <3>1 DEF CachesInv, CacheTypeOK
    <3>3. SUFFICES ASSUME NEW c \in Caches, NEW r \in Revisions,
                          Reliable(c)', kept'[c][r] # 0
                   PROVE  r <= Revision /\ need[r] <= kept'[c][r]
      BY <1>2, <2>2, <3>2 DEF KeptInv, Revision
    <3>4. c # "map" /\ kept'[c] = kept[c]
      BY <2>2, <3>1, <3>3, CacheNames DEF CachesInv, CacheTypeOK
    <3>5. Reliable(c)
      BY <1>2, <3>3, <3>4 DEF Reliable
    <3>6. QED  BY <1>1, <3>3, <3>4, <3>5 DEF Covered, KeptInv
  <2>3. QED  BY <2>1, <2>2 DEF InvalidateMaps
<1>4. CorpusInv'
  <2>1. HasMax({1} \cup invalidated)'
    <3>1. PICK m \in {1} \cup invalidated : \A v \in {1} \cup invalidated : v <= m
      BY DEF CachesInv, CorpusInv, HasMax
    <3>2. m \in Nat /\ w.version \in Nat /\ \A v \in invalidated : v \in Nat
      BY <1>2, CachesAssumption DEF CachesInv, CorpusInv, Versions
    <3>3. CASE w.version <= m
      BY <1>3, <3>1, <3>2, <3>3 DEF HasMax
    <3>4. CASE invalidated' = invalidated
      BY <3>1, <3>4 DEF HasMax
    <3>5. CASE m <= w.version /\ invalidated' = invalidated \cup {w.version}
      <4>1. \A v \in {1} \cup invalidated' : v <= w.version
        BY <3>1, <3>2, <3>5
      <4>2. QED  BY <3>5, <4>1 DEF HasMax
    <3>6. QED  BY <1>3, <3>2, <3>3, <3>4, <3>5
  <2>2. QED  BY <1>2, <1>3, <2>1 DEF CachesInv, CorpusInv
<1>5. NeedInv(need)' /\ \A g \in Callers : StackInv(need, calls[g])'
  BY <1>1, <1>2, <1>3 DEF Covered, NeedInv, StackInv, FrameInv, NestedInv, Reliable, Revision
<1>6. QED  BY <1>3, <1>4, <1>5 DEF CachesInv, Covered

(* The corpus of a process that starts is all its revision 1 needs.        *)
LEMMA StartNeeds ==
    ASSUME CorpusInv, bumped = {}, base = corpus,
           NEW need \in [Revisions -> Versions], \A r \in Revisions : need[r] = corpus
    PROVE  NeedInv(need) /\ Revision = 1
<1>1. Revision = 1
  BY FS_EmptySet DEF Revision
<1>2. corpus \in Nat /\ 1 \in Revisions
  BY CachesAssumption DEF CorpusInv, Versions, Revisions
<1>3. QED  BY <1>1, <1>2 DEF NeedInv

LEMMA InitCovered == CachesInit => CachesInv
<1> SUFFICES ASSUME CachesInit PROVE CachesInv
  OBVIOUS
<1>1. CorpusInv
  BY CachesAssumption DEF CachesInit, CorpusInv, HasMax, Versions
<1>2. CacheTypeOK
  BY DEF CachesInit, CacheTypeOK, Nothing
<1> DEFINE need == [r \in Revisions |-> 1]
<1>3. need \in [Revisions -> Versions] /\ \A r \in Revisions : need[r] = 1
  BY CachesAssumption DEF Versions
<1> HIDE DEF need
<1>4. NeedInv(need)
  BY <1>1, <1>3, StartNeeds DEF CachesInit
<1>5. KeptInv(need)
  BY DEF CachesInit, KeptInv, Nothing
<1>6. \A g \in Callers : StackInv(need, calls[g])
  BY DEF CachesInit, StackInv
<1>7. QED  BY <1>1, <1>2, <1>3, <1>4, <1>5, <1>6 DEF CachesInv, Covered

LEMMA StartKeeps ==
    ASSUME CachesInv, StartAgain
    PROVE  CachesInv'
<1>1. PICK old \in [Revisions -> Versions] : Covered(old)
  BY DEF CachesInv
<1>2. corpus \in Versions /\ corpus \in Nat /\ corpus >= 1
  BY CachesAssumption DEF CachesInv, CorpusInv, Versions
<1>3. CorpusInv'
  BY <1>2, CachesAssumption DEF StartAgain, CorpusInv, HasMax, Versions
<1>4. CacheTypeOK'
  BY DEF CachesInv, CacheTypeOK, StartAgain, Nothing
<1>5. PICK need \in [Revisions -> Versions] : \A r \in Revisions : need[r] = corpus
  <2> DEFINE t == [r \in Revisions |-> corpus]
  <2>1. t \in [Revisions -> Versions] /\ \A r \in Revisions : t[r] = corpus
    BY <1>2
  <2> HIDE DEF t
  <2>2. QED  BY <2>1
<1>6. NeedInv(need)' /\ Revision' = 1
  <2>1. Revision' = 1
    BY FS_EmptySet DEF Revision, StartAgain
  <2>2. corpus' = corpus /\ base' = corpus /\ bumped' = {} /\ 1 \in Revisions
    BY CachesAssumption DEF StartAgain, Revisions
  <2>3. QED  BY <1>2, <1>5, <2>1, <2>2 DEF NeedInv
<1>7. KeptInv(need)'
  <2>1. SUFFICES ASSUME NEW c \in Caches, NEW r \in Revisions, Reliable(c)', kept'[c][r] # 0
                 PROVE  r <= 1 /\ need[r] <= kept'[c][r]
    BY <1>6 DEF KeptInv
  <2>2. c = "map" /\ kept'[c][r] = kept[c][r]
    BY <2>1 DEF StartAgain, Nothing, CachesInv, CacheTypeOK
  <2>3. corpus = 1
    BY <2>1, <2>2 DEF StartAgain, Reliable
  <2>4. base = 1
    BY <2>3 DEF CachesInv, CorpusInv
  <2>5. r <= Revision
    BY <1>1, <2>1, <2>2, <2>4 DEF Covered, KeptInv, Reliable
  <2>6. Revision = 1
    BY <2>3, RevisionBounds DEF CachesInv
  <2>7. kept[c][r] \in Versions
    BY <2>1, <2>2 DEF CachesInv, CacheTypeOK
  <2>8. QED  BY <1>5, <2>2, <2>3, <2>5, <2>6, <2>7, CachesAssumption DEF Versions
<1>8. \A g \in Callers : StackInv(need, calls[g])'
  BY DEF StartAgain, StackInv
<1>9. QED  BY <1>3, <1>4, <1>5, <1>6, <1>7, <1>8 DEF CachesInv, Covered

-----------------------------------------------------------------------------
(* The invariant of the caches: there is for each revision a version that  *)
(* it needs, and no result kept under it, nor a call that began with it,   *)
(* has read an older one; for stored maps of an earlier process only from  *)
(* the first deletion on.                                                  *)
THEOREM CachesInvariant == CachesSpec => []CachesInv
<1>1. CachesInit => CachesInv
  BY InitCovered
<1>2. CachesInv /\ [CachesNext]_cacheVars => CachesInv'
  <2> SUFFICES ASSUME CachesInv, [CachesNext]_cacheVars
               PROVE  CachesInv'
    OBVIOUS
  <2>1. ASSUME NEW layout \in BOOLEAN, Commit(layout)
        PROVE  CachesInv'
    BY <2>1, CommitKeeps
  <2>2. ASSUME NEW w \in writing, Bump(w) \/ InvalidateMaps(w)
        PROVE  CachesInv'
    BY <2>2, BumpKeeps, InvalidationKeeps
  <2>3. ASSUME NEW g \in Callers, NEW c \in Asked, Ask(g, c)
        PROVE  CachesInv'
    BY <2>3, AskKeeps
  <2>4. ASSUME NEW g \in Callers, Probe(g) \/ Look(g) \/ ReadStore(g) \/ Keep(g) \/ Fail(g)
        PROVE  CachesInv'
    BY <2>4, ProbeKeeps, LookKeeps, ReadStoreKeeps, KeepKeeps, FailKeeps
  <2>5. ASSUME NEW g \in Callers, NEW c \in Caches, AskCache(g, c)
        PROVE  CachesInv'
    BY <2>5, AskCacheKeeps
  <2>6. CASE StartAgain
    BY <2>6, StartKeeps
  <2>7. CASE UNCHANGED cacheVars
    <3>1. UNCHANGED <<corpusVars, kept, calls>>
      BY <2>7 DEF cacheVars, corpusVars
    <3>2. PICK need \in [Revisions -> Versions] : Covered(need)
      BY DEF CachesInv
    <3>3. CacheTypeOK' /\ CorpusInv'
      BY <3>1 DEF CachesInv, CacheTypeOK, CorpusInv, HasMax, corpusVars
    <3>4. Covered(need)'
      BY <3>1, <3>2 DEF Covered, NeedInv, KeptInv, StackInv, FrameInv, NestedInv,
                        Reliable, Revision, corpusVars
    <3>5. QED  BY <3>3, <3>4 DEF CachesInv
  <2>8. QED  BY <2>1, <2>2, <2>3, <2>4, <2>5, <2>6, <2>7 DEF CachesNext
<1>3. QED  BY <1>1, <1>2, PTL DEF CachesSpec

(* What a request is served covers every write bumped before it asked.     *)
THEOREM CachesServeFresh == CachesSpec => []ServedIsFresh
<1>1. CachesInv => ServedIsFresh
  <2> SUFFICES ASSUME CachesInv, NEW g \in Callers, calls[g] # <<>>, calls[g][1].at = "done"
               PROVE  calls[g][1].oldest >= calls[g][1].need
    BY DEF ServedIsFresh
  <2>1. 1 \in 1 .. Len(calls[g])
    BY DEF CachesInv, CacheTypeOK
  <2>2. QED  BY <2>1 DEF CachesInv, Covered, StackInv, FrameInv
<1>2. QED  BY <1>1, CachesInvariant, PTL
-----------------------------------------------------------------------------
(* The labels of themes.                                                   *)

Theme == [row : Row, id : Nat]
LabelRow == [text : [by : {"tags", "model"}, of : Row], for : Row, gen : Nat]

ThemesTypeOK ==
    /\ counter \in Nat
    /\ \E n \in Nat : identified \in [1 .. n -> Theme]
    /\ label \in [DOMAIN label -> LabelRow]
    /\ \A j \in jobs : j.gen \in Nat

(* An identity belongs to one theme, was minted, and has a label made from *)
(* a row that its theme has not drifted from.                              *)
IdentityInv ==
    /\ DOMAIN label \subseteq 1 .. counter
    /\ \A i \in DOMAIN identified :
          /\ identified[i].id \in DOMAIN label
          /\ ~Drifted(label[identified[i].id].for, identified[i].row)
    /\ \A i, j \in DOMAIN identified : identified[i].id = identified[j].id => i = j
    /\ \A id \in DOMAIN label : label[id].text.of = label[id].for

(* A job is for a label given by now; one for its latest generation has    *)
(* the row that the label was given for.                                   *)
JobsInv ==
    \A j \in jobs :
        /\ j.id \in DOMAIN label
        /\ j.gen <= label[j.id].gen
        /\ j.gen = label[j.id].gen => j.row = label[j.id].for

(* The cached result shows the label of every theme. *)
ShownInv ==
    shown # <<>> =>
        /\ DOMAIN shown = {identified[i].id : i \in DOMAIN identified}
        /\ \A id \in DOMAIN shown : shown[id] = label[id].text

ThemesInv == ThemesTypeOK /\ IdentityInv /\ JobsInv /\ ShownInv

(* Identities are minted in the order of the themes. *)
Nth(M, i) == Cardinality({k \in 1 .. i : k \in M})

LEMMA Minted ==
    ASSUME NEW n \in Nat, NEW M \in SUBSET (1 .. n)
    PROVE  /\ Cardinality(M) \in Nat
           /\ \A i \in M : Nth(M, i) \in 1 .. Cardinality(M)
           /\ \A i, j \in M : Nth(M, i)
                                 = Nth(M, j) => i = j
    <1>1. IsFiniteSet(M) /\ Cardinality(M) \in Nat
        <2>1. IsFiniteSet(1 .. n)
            BY FS_Interval
        <2> QED
            BY <2>1, FS_Subset, FS_CardinalityType
    <1>2. ASSUME NEW i \in M
          PROVE  /\ IsFiniteSet({k \in 1 .. i : k \in M})
                 /\ Nth(M, i) \in 1 .. Cardinality(M)
        <2>1. {k \in 1 .. i : k \in M} \in SUBSET M /\ i \in {k \in 1 .. i : k \in M}
            OBVIOUS
        <2>2. /\ IsFiniteSet({k \in 1 .. i : k \in M})
              /\ Nth(M, i) <= Cardinality(M)
            BY <1>1, <2>1, FS_Subset DEF Nth
        <2>3. /\ Nth(M, i) \in Nat
              /\ Nth(M, i) # 0
            BY <2>1, <2>2, FS_CardinalityType, FS_EmptySet DEF Nth
        <2> QED
            BY <1>1, <2>2, <2>3
    <1>3. ASSUME NEW i \in M, NEW j \in M, i < j
          PROVE  Nth(M, i) # Nth(M, j)
        <2>1. /\ {k \in 1 .. i : k \in M} \in SUBSET {k \in 1 .. j : k \in M}
              /\ j \in {k \in 1 .. j : k \in M} /\ j \notin {k \in 1 .. i : k \in M}
            BY <1>3
        <2>2. IsFiniteSet({k \in 1 .. j : k \in M})
            BY <1>2
        <2>3. {k \in 1 .. i : k \in M} # {k \in 1 .. j : k \in M}
            BY <2>1
        <2> QED
            BY <2>1, <2>2, <2>3, FS_Subset DEF Nth
    <1>4. ASSUME NEW i \in M, NEW j \in M,
                 Nth(M, i) = Nth(M, j)
          PROVE  i = j
        <2>1. i \in Int /\ j \in Int
            OBVIOUS
        <2> QED
            BY <1>3, <1>4, <2>1
    <1> QED
        BY <1>1, <1>2, <1>4

MintedBy(rows, f) == Cardinality({i \in DOMAIN rows : ~Keeps(rows, f, i)})

(* New themes get identities of their own: those minted now, or kept ones, *)
(* no two of which come from the same old theme.                           *)
LEMMA Identified ==
    ASSUME ThemesInv, NEW n \in Nat, NEW rows \in [1 .. n -> Row], NEW f \in Assignments(rows)
    PROVE  \E new \in [1 .. n -> Theme], minted \in Nat :
              /\ new = Identify(rows, f) /\ minted = MintedBy(rows, f)
              /\ \A i \in 1 .. n :
                    new[i].id \in DOMAIN label \cup (counter + 1 .. counter + minted)
              /\ \A i, j \in 1 .. n : new[i].id = new[j].id => i = j
    <1> PICK M \in SUBSET (1 .. n) : \A i \in 1 .. n : i \in M <=> ~Keeps(rows, f, i)
        <2>1. {i \in 1 .. n : ~Keeps(rows, f, i)} \in SUBSET (1 .. n)
            OBVIOUS
        <2> QED
            BY <2>1
    <1> PICK new : new = Identify(rows, f)
        OBVIOUS
    <1> PICK minted : minted = Cardinality(M)
        OBVIOUS
    <1>1. DOMAIN rows = 1 .. n /\ M \in SUBSET (1 .. n) /\ counter \in Nat
        BY DEF ThemesInv, ThemesTypeOK
    <1>2. /\ minted \in Nat
          /\ \A i \in M : Nth(M, i) \in 1 .. minted
          /\ \A i, j \in M : Nth(M, i)
                                = Nth(M, j) => i = j
        BY <1>1, Minted
    <1>3. ASSUME NEW i \in 1 .. n, i \notin M
          PROVE  /\ new[i].row = rows[i] /\ f[i] \in DOMAIN identified
                 /\ new[i].id = identified[f[i]].id
        BY <1>1, <1>3 DEF Identify, Keeps, Assignments
    <1>4. ASSUME NEW i \in M
          PROVE  /\ new[i].row = rows[i]
                 /\ new[i].id = counter + Nth(M, i)
        <2>1. {k \in 1 .. i : ~Keeps(rows, f, k)} = {k \in 1 .. i : k \in M}
            BY <1>1
        <2> QED
            BY <1>1, <2>1 DEF Identify, Nth
    <1>5. ASSUME NEW i \in 1 .. n, i \notin M
          PROVE  new[i].id \in DOMAIN label /\ new[i].id \in 1 .. counter
        BY <1>3, <1>5 DEF ThemesInv, IdentityInv
    <1>6. ASSUME NEW i \in M
          PROVE  new[i].id \in counter + 1 .. counter + minted /\ new[i].id \in Nat
        <2>1. new[i].id = counter + Nth(M, i) /\ Nth(M, i) \in 1 .. minted
            BY <1>2, <1>4
        <2> QED
            BY <1>1, <1>2, <2>1
    <1>7. new \in [1 .. n -> Theme]
        <2>1. ASSUME NEW i \in 1 .. n PROVE new[i] \in Theme
            <3>1. new[i] = [row |-> rows[i], id |-> new[i].id]
                BY <1>1 DEF Identify
            <3>2. rows[i] \in Row /\ new[i].id \in Nat
                BY <1>5, <1>6
            <3> QED
                BY <3>1, <3>2 DEF Theme
        <2> QED
            BY <1>1, <2>1 DEF Identify
    <1>8. ASSUME NEW i \in 1 .. n, NEW j \in 1 .. n, new[i].id = new[j].id PROVE i = j
        <2>1. CASE i \in M /\ j \in M
            <3>1. counter + Nth(M, i) = counter + Nth(M, j)
                BY <1>4, <1>8, <2>1
            <3>2. Nth(M, i) \in Int /\ Nth(M, j) \in Int
                BY <1>2, <2>1
            <3>3. Nth(M, i) = Nth(M, j)
                BY <1>1, <3>1, <3>2
            <3> QED
                BY <1>2, <2>1, <3>3
        <2>2. CASE i \notin M /\ j \notin M
            <3>1. f[i] = f[j] /\ f[i] \in DOMAIN identified
                BY <1>3, <1>8, <2>2 DEF ThemesInv, IdentityInv
            <3>2. 0 \notin DOMAIN identified
                BY DEF ThemesInv, ThemesTypeOK
            <3> QED
                BY <1>1, <3>1, <3>2 DEF Assignments
        <2>3. CASE (i \in M) # (j \in M)
            BY <1>1, <1>2, <1>5, <1>6, <1>8, <2>3
        <2> QED
            BY <2>1, <2>2, <2>3
    <1>9. minted = MintedBy(rows, f)
        <2>1. {i \in DOMAIN rows : ~Keeps(rows, f, i)} = M
            BY <1>1
        <2> QED
            BY <2>1 DEF MintedBy
    <1>10. \A i \in 1 .. n : new[i].id \in DOMAIN label \cup (counter + 1 .. counter + minted)
        BY <1>5, <1>6
    <1> QED
        BY <1>2, <1>7, <1>8, <1>9, <1>10

(* A label a computation gives: for the row, and new in its generation, or *)
(* the old one that has not drifted.                                       *)
LEMMA LabelledIs ==
    ASSUME ThemesInv, NEW t \in Theme
    PROVE  /\ Labelled(t) \in LabelRow
           /\ ~Drifted(Labelled(t).for, t.row)
           /\ Labelled(t).text.of = Labelled(t).for
           /\ t.id \in DOMAIN label => \/ Labelled(t) = label[t.id]
                                       \/ Labelled(t).gen = label[t.id].gen + 1
    <1>1. t.row \in Row /\ ~Drifted(t.row, t.row)
        <2>1. t.row \in Row /\ t.row \in Int
            BY ThemesAssumption DEF Theme
        <2>2. Cosine(t.row, t.row) = 100
            BY <2>1 DEF Cosine
        <2> QED
            BY <2>1, <2>2 DEF Drifted
    <1>2. t.id \in DOMAIN label => label[t.id] \in LabelRow /\ label[t.id].text.of = label[t.id].for
        BY DEF ThemesInv, ThemesTypeOK, IdentityInv
    <1>3. CASE t.id \notin DOMAIN label
        BY <1>1, <1>3 DEF Labelled, Fallback, LabelRow
    <1>4. CASE t.id \in DOMAIN label /\ Drifted(label[t.id].for, t.row)
        BY <1>1, <1>2, <1>4 DEF Labelled, Fallback, LabelRow
    <1>5. CASE t.id \in DOMAIN label /\ ~Drifted(label[t.id].for, t.row)
        BY <1>1, <1>2, <1>5 DEF Labelled
    <1> QED
        BY <1>3, <1>4, <1>5

(* A factorisation labels the new themes, leaves other labels, and starts  *)
(* jobs for labels as they now are.                                        *)
Factorised(n, new) ==
    /\ identified' = new
    /\ \E minted \in Nat :
          /\ counter' = counter + minted
          /\ \A i \in 1 .. n : new[i].id \in DOMAIN label \cup (counter + 1 .. counter + minted)
    /\ \A i, j \in 1 .. n : new[i].id = new[j].id => i = j
    /\ label' = [id \in {new[i].id : i \in 1 .. n} \cup DOMAIN label |-> label'[id]]
    /\ \A i \in 1 .. n : label'[new[i].id] = Labelled(new[i])
    /\ \A id \in DOMAIN label : id \notin {new[i].id : i \in 1 .. n} => label'[id] = label[id]
    /\ \A j \in jobs' : \/ j \in jobs
                        \/ \E i \in 1 .. n : j = [id |-> new[i].id, gen |-> Labelled(new[i]).gen,
                                                 row |-> Labelled(new[i]).for]
    /\ shown' = [id \in {new[i].id : i \in 1 .. n} |-> label'[id].text]

(* The labels, and the whole step, of a computation that takes an         *)
(* assignment: the parts of Factorise.                                     *)
ById(new) ==
    [id \in {t.id : t \in Range(new)} |-> Labelled(CHOOSE t \in Range(new) : t.id = id)]

Computed(new, byId, minted) ==
    /\ identified' = new
    /\ counter' = counter + minted
    /\ label' = [id \in DOMAIN byId \cup DOMAIN label |->
                    IF id \in DOMAIN byId THEN byId[id] ELSE label[id]]
    /\ jobs' = jobs \cup {[id |-> id, gen |-> byId[id].gen, row |-> byId[id].for] :
                  id \in {id \in DOMAIN byId : id \notin DOMAIN label \/ byId[id] # label[id]}}
    /\ shown' = [id \in DOMAIN byId |-> byId[id].text]

LEMMA FactoriseIs ==
    ASSUME ThemesInv, NEW rows \in Factorisations, Factorise(rows)
    PROVE  \E n \in Nat : \E new \in [1 .. n -> Theme] : Factorised(n, new)
    <1>1. PICK n \in 1 .. MaxThemes : rows \in [1 .. n -> Row]
        BY DEF Factorisations
    <1>2. n \in Nat
        BY ThemesAssumption
    <1>3. PICK f \in Best(rows) :
             Computed(Identify(rows, f), ById(Identify(rows, f)), MintedBy(rows, f))
        BY DEF Factorise, Computed, ById, MintedBy
    <1>4. f \in Assignments(rows)
        BY DEF Best
    <1>5. PICK new \in [1 .. n -> Theme], minted \in Nat :
             /\ new = Identify(rows, f) /\ minted = MintedBy(rows, f)
             /\ \A i \in 1 .. n :
                   new[i].id \in DOMAIN label \cup (counter + 1 .. counter + minted)
             /\ \A i, j \in 1 .. n : new[i].id = new[j].id => i = j
        BY <1>1, <1>2, <1>4, Identified
    <1> PICK ids : ids = {new[i].id : i \in 1 .. n}
        OBVIOUS
    <1> PICK byId : byId = ById(new)
        OBVIOUS
    <1>6. Range(new) = {new[i] : i \in 1 .. n}
        BY <1>5 DEF Range
    <1>7. DOMAIN byId = ids
        BY <1>6 DEF ById
    <1>8. ASSUME NEW i \in 1 .. n
          PROVE  new[i].id \in ids /\ byId[new[i].id] = Labelled(new[i])
        <2>1. new[i] \in Range(new) /\ new[i].id \in {t.id : t \in Range(new)}
            BY <1>6
        <2>2. \A t \in Range(new) : t.id = new[i].id => t = new[i]
            BY <1>5, <1>6
        <2>3. (CHOOSE t \in Range(new) : t.id = new[i].id) = new[i]
            BY <2>1, <2>2
        <2>4. byId[new[i].id] = Labelled(CHOOSE t \in Range(new) : t.id = new[i].id)
            BY <2>1 DEF ById
        <2> QED
            BY <2>3, <2>4, <1>6
    <1>9. /\ identified' = new
          /\ counter' = counter + minted
          /\ label' = [id \in ids \cup DOMAIN label |->
                          IF id \in ids THEN byId[id] ELSE label[id]]
          /\ jobs' = jobs \cup {[id |-> id, gen |-> byId[id].gen, row |-> byId[id].for] :
                                   id \in {id \in ids : id \notin DOMAIN label \/ byId[id] # label[id]}}
          /\ shown' = [id \in ids |-> byId[id].text]
        <2>1. Computed(new, byId, minted)
            BY <1>3, <1>5
        <2> QED
            BY <1>7, <2>1 DEF Computed
    <1>10. label' = [id \in ids \cup DOMAIN label |-> label'[id]]
           /\ (\A i \in 1 .. n : label'[new[i].id] = Labelled(new[i]))
           /\ \A id \in DOMAIN label : id \notin ids => label'[id] = label[id]
        <2>1. \A id \in ids \cup DOMAIN label :
                 label'[id] = IF id \in ids THEN byId[id] ELSE label[id]
            BY <1>9
        <2>2. label' = [id \in ids \cup DOMAIN label |-> label'[id]]
            BY <1>9
        <2>3. \A i \in 1 .. n : label'[new[i].id] = Labelled(new[i])
            BY <1>8, <2>1
        <2>4. \A id \in DOMAIN label : id \notin ids => label'[id] = label[id]
            BY <2>1
        <2> QED
            BY <2>2, <2>3, <2>4
    <1>11. ASSUME NEW j \in jobs', j \notin jobs
           PROVE  \E i \in 1 .. n : j = [id |-> new[i].id, gen |-> Labelled(new[i]).gen,
                                        row |-> Labelled(new[i]).for]
        <2>1. PICK id \in ids : j = [id |-> id, gen |-> byId[id].gen, row |-> byId[id].for]
            BY <1>9, <1>11
        <2>2. PICK i \in 1 .. n : id = new[i].id
            OBVIOUS
        <2> QED
            BY <1>8, <2>1, <2>2
    <1>12. shown' = [id \in ids |-> label'[id].text]
        BY <1>9
    <1>13. Factorised(n, new)
        BY <1>5, <1>9, <1>10, <1>11, <1>12 DEF Factorised
    <1> QED
        BY <1>2, <1>5, <1>13

(* What a computation and the labels it gives keep. *)
LEMMA FactoriseKeeps ==
    ASSUME ThemesInv, NEW rows \in Factorisations, Factorise(rows)
    PROVE  ThemesInv'
    <1>1. PICK n \in Nat : \E new \in [1 .. n -> Theme] : Factorised(n, new)
        BY FactoriseIs
    <1>2. PICK new \in [1 .. n -> Theme] : Factorised(n, new)
        BY <1>1
    <1> PICK ids : ids = {new[i].id : i \in 1 .. n}
        OBVIOUS
    <1> PICK labels : labels = label'
        OBVIOUS
    <1>3. /\ identified' = new /\ DOMAIN labels = ids \cup DOMAIN label
          /\ \A i \in 1 .. n : labels[new[i].id] = Labelled(new[i]) /\ new[i].id \in ids
          /\ \A id \in DOMAIN label \ ids : labels[id] = label[id]
        BY <1>2 DEF Factorised
    <1>4. PICK minted \in Nat :
             /\ counter' = counter + minted
             /\ \A i \in 1 .. n : new[i].id \in DOMAIN label \cup (counter + 1 .. counter + minted)
        BY <1>2 DEF Factorised
    <1>5. counter \in Nat /\ DOMAIN label \subseteq 1 .. counter
        BY DEF ThemesInv, ThemesTypeOK, IdentityInv
    <1>6. \A id \in ids : \E i \in 1 .. n : id = new[i].id
        OBVIOUS
    <1>7. ASSUME NEW i \in 1 .. n
          PROVE  /\ labels[new[i].id] \in LabelRow
                 /\ ~Drifted(labels[new[i].id].for, new[i].row)
                 /\ labels[new[i].id].text.of = labels[new[i].id].for
                 /\ new[i].id \in DOMAIN label => \/ labels[new[i].id] = label[new[i].id]
                                                  \/ labels[new[i].id].gen = label[new[i].id].gen + 1
        BY <1>3, LabelledIs
    <1>8. ASSUME NEW id \in DOMAIN labels
          PROVE  /\ labels[id] \in LabelRow /\ labels[id].text.of = labels[id].for
                 /\ id \in 1 .. counter'
        <2>1. CASE id \in ids
            <3>1. PICK i \in 1 .. n : id = new[i].id
                BY <1>6, <2>1
            <3>2. id \in 1 .. counter'
                BY <1>4, <1>5, <3>1
            <3> QED
                BY <1>7, <3>1, <3>2
        <2>2. CASE id \notin ids
            <3>1. id \in DOMAIN label /\ labels[id] = label[id]
                BY <1>3, <2>2
            <3>2. id \in 1 .. counter'
                BY <1>4, <1>5, <3>1
            <3> QED
                BY <3>1, <3>2 DEF ThemesInv, ThemesTypeOK, IdentityInv
        <2> QED
            BY <2>1, <2>2
    <1>9. ASSUME NEW j \in jobs'
          PROVE  /\ j.gen \in Nat /\ j.id \in DOMAIN labels /\ j.gen <= labels[j.id].gen
                 /\ j.gen = labels[j.id].gen => j.row = labels[j.id].for
        <2>1. CASE j \in jobs
            <3>1. /\ j.id \in DOMAIN label /\ j.gen \in Nat /\ j.gen <= label[j.id].gen
                  /\ j.gen = label[j.id].gen => j.row = label[j.id].for
                  /\ label[j.id].gen \in Nat
                BY <2>1 DEF ThemesInv, ThemesTypeOK, JobsInv, LabelRow
            <3>2. j.id \in DOMAIN labels
                BY <1>3, <3>1
            <3>3. labels[j.id] = label[j.id] \/ labels[j.id].gen = label[j.id].gen + 1
                BY <1>3, <1>6, <1>7, <3>1, SMTT(30)
            <3> QED
                BY <3>1, <3>2, <3>3
        <2>2. CASE j \notin jobs
            <3>1. PICK i \in 1 .. n : j = [id |-> new[i].id, gen |-> Labelled(new[i]).gen,
                                         row |-> Labelled(new[i]).for]
                BY <1>2, <2>2 DEF Factorised
            <3>2. j.id = new[i].id /\ j.gen = labels[j.id].gen /\ j.row = labels[j.id].for
                BY <1>3, <3>1
            <3>3. labels[j.id].gen \in Nat /\ j.id \in DOMAIN labels
                BY <1>3, <1>7, <3>2 DEF LabelRow
            <3> QED
                BY <3>2, <3>3
        <2> QED
            BY <2>1, <2>2
    <1>10. labels \in [DOMAIN labels -> LabelRow]
        <2>1. labels = [id \in ids \cup DOMAIN label |-> labels[id]]
            BY <1>2 DEF Factorised
        <2> QED
            BY <1>3, <1>8, <2>1
    <1>11. ThemesTypeOK'
        BY <1>3, <1>4, <1>5, <1>9, <1>10 DEF ThemesTypeOK
    <1>12. IdentityInv'
        <2>1. \A i, j \in 1 .. n : new[i].id = new[j].id => i = j
            BY <1>2 DEF Factorised
        <2>2. DOMAIN new = 1 .. n
            OBVIOUS
        <2> QED
            BY <1>3, <1>7, <1>8, <2>1, <2>2 DEF IdentityInv
    <1>13. JobsInv'
        BY <1>9 DEF JobsInv
    <1>14. ShownInv'
        <2>1. shown' = [id \in ids |-> labels[id].text]
            BY <1>2 DEF Factorised
        <2> QED
            BY <1>3, <2>1 DEF ShownInv
    <1> QED
        BY <1>11, <1>12, <1>13, <1>14 DEF ThemesInv

(* A job that comes back names the label it was started for, or nothing. *)
LEMMA JobReturnsKeeps ==
    ASSUME ThemesInv, NEW j \in jobs, JobReturns(j)
    PROVE  ThemesInv'
    <1>1. UNCHANGED <<identified, counter>> /\ jobs' \subseteq jobs
        BY DEF JobReturns
    <1>2. CASE UNCHANGED <<label, shown>>
        BY <1>1, <1>2 DEF ThemesInv, ThemesTypeOK, IdentityInv, JobsInv, ShownInv
    <1>3. CASE /\ StillWanted(j)
               /\ label' = [label EXCEPT ![j.id].text = Named(j.row)]
               /\ shown' = [id \in DOMAIN shown |-> label'[id].text]
        <2>1. j.id \in DOMAIN label /\ j.row = label[j.id].for /\ label[j.id] \in LabelRow
            BY <1>3 DEF StillWanted, ThemesInv, ThemesTypeOK, JobsInv
        <2> PICK new : new = [label[j.id] EXCEPT !.text = Named(j.row)]
            OBVIOUS
        <2>2. /\ new \in LabelRow /\ new.text.of = new.for
              /\ new.for = label[j.id].for /\ new.gen = label[j.id].gen
            BY <2>1 DEF LabelRow, Named
        <2>3. label' = [label EXCEPT ![j.id] = new]
            BY <1>3
        <2>4. /\ DOMAIN label' = DOMAIN label
              /\ \A id \in DOMAIN label : /\ label'[id].for = label[id].for
                                          /\ label'[id].gen = label[id].gen
                                          /\ label'[id].text.of = label'[id].for
              /\ label' \in [DOMAIN label' -> LabelRow]
            BY <2>2, <2>3 DEF ThemesInv, ThemesTypeOK, IdentityInv
        <2>5. ThemesTypeOK'
            BY <1>1, <2>4 DEF ThemesInv, ThemesTypeOK
        <2>6. IdentityInv'
            BY <1>1, <2>4 DEF ThemesInv, IdentityInv
        <2>7. JobsInv'
            BY <1>1, <2>4 DEF ThemesInv, JobsInv
        <2>8. ShownInv'
            BY <1>1, <1>3 DEF ThemesInv, ShownInv
        <2> QED
            BY <2>5, <2>6, <2>7, <2>8 DEF ThemesInv
    <1> QED
        BY <1>2, <1>3 DEF JobReturns

(* Nothing is labelled at first. *)
LEMMA ThemesStart == ThemesInit => ThemesInv
    <1> SUFFICES ASSUME ThemesInit PROVE ThemesInv
        OBVIOUS
    <1>1. identified \in [1 .. 0 -> Theme] /\ DOMAIN identified = {} /\ DOMAIN label = {}
        BY DEF ThemesInit
    <1>2. label \in [DOMAIN label -> LabelRow]
        BY <1>1 DEF ThemesInit
    <1> QED
        BY <1>1, <1>2
        DEF ThemesInit, ThemesInv, ThemesTypeOK, IdentityInv, JobsInv, ShownInv

(* The inductive invariant of theme labels, for any rows and bounds.       *)
LEMMA ThemesStep == ThemesInv /\ [ThemesNext]_themeVars => ThemesInv'
    <1> SUFFICES ASSUME ThemesInv, [ThemesNext]_themeVars PROVE ThemesInv'
        OBVIOUS
    <1>1. CASE NotAvailable
        BY <1>1 DEF NotAvailable, ThemesInv, ThemesTypeOK, IdentityInv, JobsInv, ShownInv
    <1>2. CASE UNCHANGED themeVars
        BY <1>2 DEF themeVars, ThemesInv, ThemesTypeOK, IdentityInv, JobsInv, ShownInv
    <1> QED
        BY <1>1, <1>2, FactoriseKeeps, JobReturnsKeeps DEF ThemesNext

(* Themes have identities of their own and show labels that are theirs and *)
(* that they have not drifted from, however computations and the jobs of   *)
(* the labelling model come after each other (themes/labeling.go).         *)
THEOREM ThemeLabelsAreCurrent == ThemesSpec => []LabelsAreCurrent
    <1>1. ThemesInv => LabelsAreCurrent
        <2> SUFFICES ASSUME ThemesInv PROVE LabelsAreCurrent
            OBVIOUS
        <2>1. ASSUME shown # <<>>, NEW i \in DOMAIN identified
              PROVE  /\ shown[identified[i].id] = label[identified[i].id].text
                     /\ ~Drifted(shown[identified[i].id].of, identified[i].row)
            BY <2>1 DEF ThemesInv, IdentityInv, ShownInv
        <2>2. \A t \in Range(identified) : \E i \in DOMAIN identified : t = identified[i]
            BY DEF Range
        <2> QED
            BY <2>1, <2>2 DEF ThemesInv, IdentityInv, LabelsAreCurrent
    <1> QED
        BY <1>1, ThemesStart, ThemesStep, PTL DEF ThemesSpec

=============================================================================
