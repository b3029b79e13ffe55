----------------------------- MODULE RevisionBus -----------------------------
(***************************************************************************)
(* The revision bus: every committed mutation bumps an in-process counter, *)
(* and the counter's new value is fanned out over channels of capacity one *)
(* to the handlers of /revision/stream, which write it to their clients.   *)
(* A Bump is an atomic increment and then, separately, a fanout under a    *)
(* mutex; the receivers take values between any two steps of a fanout.     *)
(***************************************************************************)
EXTENDS Integers, FiniteSets

CONSTANTS
    Bumpers,      \* goroutines that bump: commands, the worker, stores, admins
    Streams,      \* connections a client may open on /revision/stream
    NoOne,        \* holds the mutex when it is free
    MaxRevision   \* bound: the last revision

ASSUME BusAssumption ==
    /\ NoOne \notin Bumpers \cup Streams
    /\ MaxRevision \in Nat \ {0}

VARIABLES
    revision,   \* the atomic counter, 1 at the start
    value,      \* value[b]: what Bump of b added up to and must fan out; or 0
    holder,     \* the bumper inside fanout, or NoOne
    todo,       \* subscribers its loop has not come to yet
    at,         \* the subscriber whose channel it found full, or NoOne
    drained,    \* whether it emptied that channel already
    stream,     \* stream[s]: the handler of s
    buffer,     \* buffer[s]: the value waiting in the channel of s, or 0
    sent        \* sent[s]: the last value written to the client; 0 before any

fanout == <<holder, todo, at, drained>>
vars == <<revision, value, holder, todo, at, drained, stream, buffer, sent>>

Free == holder = NoOne

Subscribed == {s \in Streams : stream[s] # "off"}

(* Mutants of the definitions below. *)
NoMutex == TRUE
KeepsOldest(s) == UNCHANGED buffer
BlockingOffer(s) ==
    /\ ~Free /\ at = NoOne /\ s \in todo /\ buffer[s] = 0
    /\ buffer' = [buffer EXCEPT ![s] = value[holder]]
    /\ todo' = todo \ {s}
    /\ UNCHANGED <<revision, value, holder, at, drained, stream, sent>>

-----------------------------------------------------------------------------
(* Bump. *)

Add(b) ==
    /\ value[b] = 0
    /\ revision < MaxRevision
    /\ revision' = revision + 1
    /\ value' = [value EXCEPT ![b] = revision + 1]
    /\ UNCHANGED <<fanout, stream, buffer, sent>>

Lock(b) ==
    /\ value[b] # 0
    /\ Free
    /\ holder' = b
    /\ todo' = Subscribed
    /\ UNCHANGED <<revision, value, at, drained, stream, buffer, sent>>

(* The first select: send if the channel has room. *)
Offer(s) ==
    /\ ~Free /\ at = NoOne /\ s \in todo
    /\ \/ /\ buffer[s] = 0
          /\ buffer' = [buffer EXCEPT ![s] = value[holder]]
          /\ todo' = todo \ {s}
          /\ UNCHANGED <<at, drained>>
       \/ /\ buffer[s] # 0
          /\ at' = s
          /\ drained' = FALSE
          /\ UNCHANGED <<todo, buffer>>
    /\ UNCHANGED <<revision, value, holder, stream, sent>>

Emptied(s) == buffer' = [buffer EXCEPT ![s] = 0]

(* The second: take the value out, if the client has not done so by now. *)
Drain ==
    /\ ~Free /\ at # NoOne /\ ~drained
    /\ Emptied(at)
    /\ drained' = TRUE
    /\ UNCHANGED <<revision, value, holder, todo, at, stream, sent>>

(* The third: send if there is room, else give this subscriber up. *)
OfferAgain ==
    /\ ~Free /\ at # NoOne /\ drained
    /\ buffer' = [buffer EXCEPT ![at] = IF @ = 0 THEN value[holder] ELSE @]
    /\ todo' = todo \ {at}
    /\ at' = NoOne
    /\ drained' = FALSE
    /\ UNCHANGED <<revision, value, holder, stream, sent>>

Unlock ==
    /\ ~Free /\ todo = {}
    /\ holder' = NoOne
    /\ value' = [value EXCEPT ![holder] = 0]
    /\ UNCHANGED <<revision, todo, at, drained, stream, buffer, sent>>

Publish == (\E s \in Streams : Offer(s)) \/ Drain \/ OfferAgain \/ Unlock

-----------------------------------------------------------------------------
(* The stream handler. Only its own cancel closes its channel, so its loop *)
(* never sees the channel closed.                                          *)

Subscribe(s) ==
    /\ stream[s] = "off"
    /\ Free
    /\ stream' = [stream EXCEPT ![s] = "subscribed"]
    /\ sent' = [sent EXCEPT ![s] = 0]
    /\ UNCHANGED <<revision, value, fanout, buffer>>

SendCurrent(s) ==
    /\ stream[s] = "subscribed"
    /\ stream' = [stream EXCEPT ![s] = "streaming"]
    /\ sent' = [sent EXCEPT ![s] = revision]
    /\ UNCHANGED <<revision, value, fanout, buffer>>

Receive(s) ==
    /\ stream[s] = "streaming"
    /\ buffer[s] # 0
    /\ sent' = [sent EXCEPT ![s] = buffer[s]]
    /\ buffer' = [buffer EXCEPT ![s] = 0]
    /\ UNCHANGED <<revision, value, fanout, stream>>

CancelMayRun == Free

(* The client is gone or a write failed; the deferred cancel takes the     *)
(* mutex, removes the subscriber and closes its channel.                   *)
Cancel(s) ==
    /\ stream[s] # "off"
    /\ CancelMayRun
    /\ stream' = [stream EXCEPT ![s] = "off"]
    /\ buffer' = [buffer EXCEPT ![s] = 0]
    /\ UNCHANGED <<revision, value, fanout, sent>>

-----------------------------------------------------------------------------
Init ==
    /\ revision = 1
    /\ value = [b \in Bumpers |-> 0]
    /\ holder = NoOne
    /\ todo = {}
    /\ at = NoOne
    /\ drained = FALSE
    /\ stream = [s \in Streams |-> "off"]
    /\ buffer = [s \in Streams |-> 0]
    /\ sent = [s \in Streams |-> 0]

Next ==
    \/ \E b \in Bumpers : Add(b) \/ Lock(b)
    \/ Publish
    \/ \E s \in Streams : Subscribe(s) \/ SendCurrent(s) \/ Receive(s) \/ Cancel(s)

Spec == Init /\ [][Next]_vars

(* A goroutine inside Bump runs on, and the mutex passes to whoever waits. *)
(* Nothing is assumed of the handlers: a slow client stalls its own.       *)
BusFairness == WF_vars(Publish) /\ \A b \in Bumpers : SF_vars(Lock(b))

FairSpec == Spec /\ BusFairness

-----------------------------------------------------------------------------
(* Properties.                                                             *)

(* The variables have their types: the counter (never 0, which the caches  *)
(* keyed by it take for "no revision"), the single slots of the channels   *)
(* and the fanout's loop.                                                  *)
TypeOK ==
    /\ revision \in 1 .. MaxRevision
    /\ value \in [Bumpers -> 0 .. MaxRevision]
    /\ holder \in Bumpers \cup {NoOne}
    /\ todo \subseteq Streams
    /\ at \in Streams \cup {NoOne}
    /\ drained \in BOOLEAN
    /\ stream \in [Streams -> {"off", "subscribed", "streaming"}]
    /\ buffer \in [Streams -> 0 .. MaxRevision]
    /\ sent \in [Streams -> 0 .. MaxRevision]

(* A fanout holds what it needs until it is over: the channels its loop    *)
(* still has to send to are open (a send on a closed channel panics), and  *)
(* the revision it carries stays with the bumper that took it.             *)
FanoutInv ==
    /\ todo \subseteq Subscribed
    /\ Free => todo = {} /\ at = NoOne
    /\ ~Free => value[holder] # 0
    /\ at # NoOne => at \in todo

(* "the publisher overwrites it rather than blocking": whatever a client   *)
(* does, every Bump returns.                                               *)
EveryBumpReturns == \A b \in Bumpers : value[b] # 0 ~> value[b] = 0

Attentive(s) == WF_vars(SendCurrent(s)) /\ WF_vars(Receive(s))

(* "Subscribers always converge to the latest revision": the last value    *)
(* written to an attentive client that stays is the final revision.        *)
Converges ==
    \A s \in Streams :
        Attentive(s) /\ <>[](stream[s] # "off") => <>[](sent[s] = revision)

Overlap == \E b, c \in Bumpers : b # c /\ value[b] # 0 /\ value[c] # 0

(* They do as long as no two bumps overlap, however the clients come, go   *)
(* and read, and wherever the first frame falls between bumps.             *)
ConvergesUnlessBumpsOverlap == []~Overlap => Converges
=============================================================================
