--------------------------- MODULE EnrichmentQueue ---------------------------
(***************************************************************************)
(* The durable enrichment queue: the command handlers that create, refine  *)
(* and re-enrich issues, the job table they feed, and the background       *)
(* workers that claim a job, analyse the issue outside any transaction and *)
(* write the outcome back.                                                 *)
(*                                                                         *)
(* Each database transaction is one step here, so every interleaving is    *)
(* one of transactions (module EnrichmentReadCommitted opens them up).     *)
(* What a worker read before its analysis and uses after it stays apart in *)
(* claim[w].                                                               *)
(***************************************************************************)
EXTENDS Integers, Sequences, FiniteSets

CONSTANTS
    Issues,       \* issue ids that may ever be created
    NoIssue,      \* the issue of a worker that holds no claim
    Workers,      \* enrichment workers, one per server process
    MaxPosts,     \* bound: posts in one discussion
    MaxCatalog,   \* bound: improvements of the tag catalog
    ReadFailures  \* whether Store.Get may fail although the issue exists

ASSUME QueueAssumption ==
    /\ NoIssue \notin Issues
    /\ MaxPosts \in Nat \ {0}
    /\ MaxCatalog \in Nat
    /\ ReadFailures \in BOOLEAN

VARIABLES
    lifecycle,   \* lifecycle[i]: the projected status; "absent" before creation
    discussion,  \* discussion[i]: the kinds of the posts, by post sequence
    enrichment,  \* enrichment[i]: issue_enrichment_projections row
    content,     \* content[i]: posts and catalog the current content comes from
    snapshots,   \* snapshots[i]: sequences with a row in issue_snapshots
    job,         \* job[i]: issue_enrichment_jobs row; target 0 when there is none
    pc,          \* pc[w]: where worker w is in ProcessOne
    claim,       \* claim[w]: the claimed job and what was loaded for it
    catalog,     \* generation of the tag catalog an analysis would use
    asked        \* history: the generation the last re-enrichment asked for
                 \* with no older analysis of its target under way

issueVars == <<lifecycle, discussion, asked>>
workerVars == <<pc, claim>>
vars == <<lifecycle, discussion, enrichment, content, snapshots, job, pc, claim,
          catalog, asked>>

(* "note" stands for every post that defines nothing: progress, assigned,  *)
(* closed and reopened.                                                    *)
Kind == {"report", "refinement", "note"}
Lifecycle == {"absent", "open", "closed"}
Status == {"complete", "pending", "failed"}
WorkerPC == {"idle", "claimed", "analyzing", "apply", "fail", "drop", "stopped"}

NoJob == [target |-> 0, due |-> FALSE]
NoClaim == [issue |-> NoIssue, target |-> 0, texts |-> {}, catalog |-> 0]

(* The posts whose text defines an issue: its report and its refinements. *)
Defining(i) ==
    {n \in 1 .. Len(discussion[i]) : discussion[i][n] \in {"report", "refinement"}}

Exists(i) == lifecycle[i] # "absent"

-----------------------------------------------------------------------------
(* The rows each helper of the code writes.                                *)

(* Mutants of the helpers, for the sensitivity of the properties below. *)
EnqueuedAfterNext(row, target) == [target |-> target + 1, due |-> TRUE]
EnqueuedKeepingTarget(row, target) ==
    [target |-> IF row.target > 0 THEN row.target ELSE target, due |-> TRUE]
CompletedWhateverTarget(row, target) == NoJob
RetriedAsDropped(row, target) == IF row.target = target THEN NoJob ELSE row

(* A job that is due at once, never for less than an existing row wants. *)
Enqueued(row, target) ==
    [target |-> IF row.target > target THEN row.target ELSE target, due |-> TRUE]

(* DELETE ... WHERE target_sequence = $2: a row for another target stays. *)
Completed(row, target) == IF row.target = target THEN NoJob ELSE row

(* UPDATE ... WHERE target_sequence = $2: due again only after the delay. *)
Retried(row, target) ==
    IF row.target = target THEN [row EXCEPT !.due = FALSE] ELSE row

(* A new post takes the sequence after the discussion that was read. *)
SavePost(i, kind) ==
    /\ Len(discussion[i]) < MaxPosts
    /\ discussion' = [discussion EXCEPT ![i] = Append(@, kind)]

(* The rows SaveIssue writes for the new issues `new`, all at target 1.    *)
(* Nobody has asked for a later catalog yet, so generation 0 will do.      *)
SaveIssues(new, status) ==
    /\ \A i \in new : ~Exists(i)
    /\ discussion' = [i \in Issues |-> IF i \in new THEN <<"report">> ELSE discussion[i]]
    /\ enrichment' = [i \in Issues |-> IF i \in new
                                       THEN [status |-> status, target |-> 1]
                                       ELSE enrichment[i]]
    /\ content' = [i \in Issues |-> IF i \in new
                                    THEN [texts |-> {1}, catalog |-> 0]
                                    ELSE content[i]]

-----------------------------------------------------------------------------
(* Commands.                                                               *)

Create(i) ==
    /\ SaveIssues({i}, "pending")
    /\ lifecycle' = [lifecycle EXCEPT ![i] = "open"]
    /\ job' = [job EXCEPT ![i] = Enqueued(@, 1)]
    /\ UNCHANGED <<snapshots, workerVars, catalog, asked>>

Refine(i) ==
    /\ lifecycle[i] = "open"
    /\ SavePost(i, "refinement")
    /\ enrichment' = [enrichment EXCEPT
                        ![i] = [status |-> "pending", target |-> Len(discussion[i]) + 1]]
    /\ job' = [job EXCEPT ![i] = Enqueued(@, Len(discussion[i]) + 1)]
    /\ UNCHANGED <<lifecycle, content, snapshots, workerVars, catalog, asked>>

(* An analysis of the target i shows now, with the tags of an earlier      *)
(* catalog. Read by the history variable asked only.                       *)
UnderWay(i) ==
    \E w \in Workers :
        /\ pc[w] \in {"analyzing", "apply"}
        /\ claim[w].issue = i
        /\ claim[w].target = enrichment[i].target
        /\ claim[w].catalog < catalog

ReEnrich(i) ==
    /\ lifecycle[i] = "open"
    /\ enrichment' = [enrichment EXCEPT ![i].status = "pending"]
    /\ job' = [job EXCEPT ![i] = Enqueued(@, enrichment[i].target)]
    /\ asked' = [asked EXCEPT ![i] = IF UnderWay(i) THEN @ ELSE catalog]
    /\ UNCHANGED <<lifecycle, discussion, content, snapshots, workerVars, catalog>>

Progress(i) ==
    /\ lifecycle[i] = "open"
    /\ SavePost(i, "note")
    /\ UNCHANGED <<lifecycle, enrichment, content, snapshots, job, workerVars, catalog, asked>>

Assign(i) ==
    /\ Exists(i)
    /\ SavePost(i, "note")
    /\ UNCHANGED <<lifecycle, enrichment, content, snapshots, job, workerVars, catalog, asked>>

Close(i) ==
    /\ lifecycle[i] = "open"
    /\ SavePost(i, "note")
    /\ lifecycle' = [lifecycle EXCEPT ![i] = "closed"]
    /\ UNCHANGED <<enrichment, content, snapshots, job, workerVars, catalog, asked>>

Reopen(i) ==
    /\ lifecycle[i] = "closed"
    /\ SavePost(i, "note")
    /\ lifecycle' = [lifecycle EXCEPT ![i] = "open"]
    /\ UNCHANGED <<enrichment, content, snapshots, job, workerVars, catalog, asked>>

(* The result is analysed before the transaction and needs no job; the     *)
(* sources are closed whatever their status, without a post.               *)
Combine(sources, i) ==
    /\ Cardinality(sources) >= 2
    /\ \A s \in sources : Exists(s)
    /\ SaveIssues({i}, "complete")
    /\ lifecycle' = [s \in Issues |-> IF s = i THEN "open"
                                      ELSE IF s \in sources THEN "closed" ELSE lifecycle[s]]
    /\ UNCHANGED <<snapshots, job, workerVars, catalog, asked>>

Split(source, children, closeSource) ==
    /\ Exists(source)
    /\ children # {}
    /\ SaveIssues(children, "complete")
    /\ lifecycle' = [s \in Issues |-> IF s \in children THEN "open"
                                      ELSE IF s = source /\ closeSource
                                           THEN "closed" ELSE lifecycle[s]]
    /\ UNCHANGED <<snapshots, job, workerVars, catalog, asked>>

-----------------------------------------------------------------------------
(* Workers: ProcessOne, cut where a transaction or the analyser is called. *)

Claim(w, i) ==
    /\ pc[w] = "idle"
    /\ job[i].target > 0
    /\ job[i].due
    /\ job' = [job EXCEPT ![i].due = FALSE]
    /\ pc' = [pc EXCEPT ![w] = "claimed"]
    /\ claim' = [claim EXCEPT ![w] = [issue |-> i, target |-> job[i].target,
                                      texts |-> {}, catalog |-> 0]]
    /\ UNCHANGED <<issueVars, enrichment, content, snapshots, catalog>>

(* The read after the claim: the issue still wants this target, or another *)
(* refinement superseded the job. The posts the analysis will see are      *)
(* those of this read. It is several statements in the code, but the posts *)
(* up to a claimed target were committed with it, so nothing can tear.     *)
Load(w) ==
    LET i == claim[w].issue IN
    /\ pc[w] = "claimed"
    /\ \/ /\ enrichment[i].target = claim[w].target
          /\ pc' = [pc EXCEPT ![w] = "analyzing"]
          /\ claim' = [claim EXCEPT
                         ![w] = [issue |-> i, target |-> claim[w].target,
                                 texts |-> {n \in 1 .. Len(discussion[i]) : n <= claim[w].target},
                                 catalog |-> catalog]]
       \/ /\ enrichment[i].target # claim[w].target
          /\ pc' = [pc EXCEPT ![w] = "drop"]
          /\ UNCHANGED claim
    /\ UNCHANGED <<issueVars, enrichment, content, snapshots, job, catalog>>

(* Any error of Store.Get is taken for "issue not found". *)
LoadFails(w) ==
    /\ ReadFailures
    /\ pc[w] = "claimed"
    /\ pc' = [pc EXCEPT ![w] = "drop"]
    /\ UNCHANGED <<issueVars, enrichment, content, snapshots, job, claim, catalog>>

AnalysisSucceeds(w) ==
    /\ pc[w] = "analyzing"
    /\ pc' = [pc EXCEPT ![w] = "apply"]
    /\ UNCHANGED <<issueVars, enrichment, content, snapshots, job, claim, catalog>>

AnalysisFails(w) ==
    /\ pc[w] = "analyzing"
    /\ pc' = [pc EXCEPT ![w] = "fail"]
    /\ UNCHANGED <<issueVars, enrichment, content, snapshots, job, claim, catalog>>

Finish(w) ==
    /\ pc' = [pc EXCEPT ![w] = "idle"]
    /\ claim' = [claim EXCEPT ![w] = NoClaim]

CompleteJob(i, target) == job' = [job EXCEPT ![i] = Completed(@, target)]

StillWantedUnchecked(w) == TRUE

(* The stored target is read again before anything is written. *)
StillWanted(w) == enrichment[claim[w].issue].target = claim[w].target

ApplyJob(w) ==
    LET i == claim[w].issue IN
    /\ pc[w] = "apply"
    /\ StillWanted(w)
    /\ content' = [content EXCEPT
                     ![i] = [texts |-> claim[w].texts, catalog |-> claim[w].catalog]]
    /\ snapshots' = [snapshots EXCEPT ![i] = @ \cup {claim[w].target}]
    /\ enrichment' = [enrichment EXCEPT
                        ![i] = [status |-> "complete", target |-> claim[w].target]]
    /\ CompleteJob(i, claim[w].target)
    /\ Finish(w)
    /\ UNCHANGED <<issueVars, catalog>>

FailJob(w) ==
    LET i == claim[w].issue IN
    /\ pc[w] = "fail"
    /\ StillWanted(w)
    /\ enrichment' = [enrichment EXCEPT ![i].status = "failed"]
    /\ job' = [job EXCEPT ![i] = Retried(@, claim[w].target)]
    /\ Finish(w)
    /\ UNCHANGED <<issueVars, content, snapshots, catalog>>

(* A superseded job, found so at the first read or at the second. *)
DropJob(w) ==
    /\ \/ pc[w] = "drop"
       \/ pc[w] \in {"apply", "fail"} /\ ~StillWanted(w)
    /\ CompleteJob(claim[w].issue, claim[w].target)
    /\ Finish(w)
    /\ UNCHANGED <<issueVars, enrichment, content, snapshots, catalog>>

(* A crash, a shutdown, or any store error: Run returns and the process'   *)
(* worker is gone, with whatever it had claimed, until a restart.          *)
Stop(w) ==
    /\ pc[w] # "stopped"
    /\ pc' = [pc EXCEPT ![w] = "stopped"]
    /\ claim' = [claim EXCEPT ![w] = NoClaim]
    /\ UNCHANGED <<issueVars, enrichment, content, snapshots, job, catalog>>

Restart(w) ==
    /\ pc[w] = "stopped"
    /\ pc' = [pc EXCEPT ![w] = "idle"]
    /\ UNCHANGED <<issueVars, enrichment, content, snapshots, job, claim, catalog>>

(* Time passes the lease (or the retry delay) of a job, even of a job      *)
(* whose worker is still at it.                                            *)
LeaseExpires(i) ==
    /\ job[i].target > 0
    /\ ~job[i].due
    /\ job' = [job EXCEPT ![i].due = TRUE]
    /\ UNCHANGED <<issueVars, enrichment, content, snapshots, workerVars, catalog>>

CatalogImproves ==
    /\ catalog < MaxCatalog
    /\ catalog' = catalog + 1
    /\ UNCHANGED <<issueVars, enrichment, content, snapshots, job, workerVars>>

-----------------------------------------------------------------------------
Init ==
    /\ lifecycle = [i \in Issues |-> "absent"]
    /\ discussion = [i \in Issues |-> <<>>]
    /\ enrichment = [i \in Issues |-> [status |-> "complete", target |-> 0]]
    /\ content = [i \in Issues |-> [texts |-> {}, catalog |-> 0]]
    /\ snapshots = [i \in Issues |-> {}]
    /\ job = [i \in Issues |-> NoJob]
    /\ pc = [w \in Workers |-> "idle"]
    /\ claim = [w \in Workers |-> NoClaim]
    /\ catalog = 0
    /\ asked = [i \in Issues |-> 0]

Command ==
    \/ \E i \in Issues :
          \/ Create(i) \/ Refine(i) \/ ReEnrich(i) \/ Progress(i)
          \/ Assign(i) \/ Close(i) \/ Reopen(i)
          \/ \E sources \in SUBSET Issues : Combine(sources, i)
          \/ \E children \in SUBSET Issues, closeSource \in BOOLEAN :
                Split(i, children, closeSource)

WorkerStep(w) ==
    \/ \E i \in Issues : Claim(w, i)
    \/ Load(w) \/ LoadFails(w) \/ AnalysisSucceeds(w) \/ AnalysisFails(w)
    \/ ApplyJob(w) \/ FailJob(w) \/ DropJob(w)

Next ==
    \/ Command
    \/ \E w \in Workers : WorkerStep(w) \/ Stop(w) \/ Restart(w)
    \/ \E i \in Issues : LeaseExpires(i)
    \/ CatalogImproves

Spec == Init /\ [][Next]_vars

(* A running worker keeps taking steps (the loop of Run), a lease or a     *)
(* retry delay runs out, and an issue analysed for ever succeeds at last.  *)
(* The claim is strongly fair to each issue because it takes the due job   *)
(* with the oldest updated_at, and every other use of a job renews that:   *)
(* only an issue requested again and again may be passed over for ever.    *)
Fairness ==
    /\ \A w \in Workers :
          /\ WF_vars(Load(w))
          /\ WF_vars(AnalysisSucceeds(w) \/ AnalysisFails(w))
          /\ \A i \in Issues : SF_vars(claim[w].issue = i /\ AnalysisSucceeds(w))
          /\ WF_vars(ApplyJob(w) \/ FailJob(w) \/ DropJob(w))
    /\ \A i \in Issues :
          /\ WF_vars(LeaseExpires(i))
          /\ SF_vars(\E w \in Workers : Claim(w, i))

FairSpec == Spec /\ Fairness

-----------------------------------------------------------------------------
(* Properties.                                                             *)

(* The variables hold the rows and worker states the code can produce, and *)
(* no target is beyond the posts a discussion can hold.                    *)
TypeOK ==
    /\ lifecycle \in [Issues -> Lifecycle]
    /\ discussion \in [Issues -> Seq(Kind)]
    /\ \A i \in Issues : Len(discussion[i]) <= MaxPosts
    /\ enrichment \in [Issues -> [status : Status, target : 0 .. MaxPosts]]
    /\ content \in [Issues -> [texts : SUBSET (1 .. MaxPosts), catalog : 0 .. MaxCatalog]]
    /\ snapshots \in [Issues -> SUBSET (1 .. MaxPosts)]
    /\ job \in [Issues -> [target : 0 .. MaxPosts, due : BOOLEAN]]
    /\ pc \in [Workers -> WorkerPC]
    /\ claim \in [Workers -> [issue : Issues \cup {NoIssue}, target : 0 .. MaxPosts,
                              texts : SUBSET (1 .. MaxPosts), catalog : 0 .. MaxCatalog]]
    /\ catalog \in 0 .. MaxCatalog
    /\ asked \in [Issues -> 0 .. MaxCatalog]

(* A refinement "updates the canonical description and re-enriches": from  *)
(* the commit that posts it, its text is in the content or a job is        *)
(* waiting that will cover it, however claims, drops and crashes fall.     *)
RefinementNotLost ==
    \A i \in Issues : \A n \in Defining(i) :
        n \in content[i].texts \/ job[i].target >= n

(* The projection and the queue are two tables written by different        *)
(* statements; they agree all the same: a pending issue has a job, for the *)
(* target the projection shows, and an issue with a job is not complete.   *)
QueueMatchesStatus ==
    \A i \in Issues :
        /\ enrichment[i].status = "pending" => job[i].target # 0
        /\ job[i].target # 0 =>
              /\ job[i].target = enrichment[i].target
              /\ enrichment[i].status # "complete"

(* "enrichment failed, scheduling retry": an issue shown as failed has a   *)
(* job that will retry it. True of one worker; a second worker holding the *)
(* same target after the lease ran out breaks it.                          *)
FailedIsRetried ==
    \A i \in Issues : enrichment[i].status = "failed" => job[i].target # 0

(* The inductive invariant behind the properties above: no job row is      *)
(* missing while text is, and no worker holds more than it claimed.        *)
IssueInv(i) ==
    /\ enrichment[i].target <= Len(discussion[i])
    /\ Exists(i) <=> enrichment[i].target > 0
    /\ Defining(i) \subseteq 1 .. enrichment[i].target
    /\ content[i].texts \subseteq 1 .. enrichment[i].target
    /\ job[i].target = 0 => content[i].texts = 1 .. enrichment[i].target
    /\ job[i].target # 0 => job[i].target = enrichment[i].target
    /\ enrichment[i].status = "pending" => job[i].target # 0
    /\ enrichment[i].status = "complete" => job[i].target = 0

Busy(w) == pc[w] \notin {"idle", "stopped"}

WorkerInv(w) ==
    Busy(w) =>
        /\ claim[w].issue \in Issues
        /\ claim[w].target \in 1 .. enrichment[claim[w].issue].target
        /\ pc[w] \in {"analyzing", "apply", "fail"} => claim[w].texts = 1 .. claim[w].target
        /\ pc[w] = "drop" => claim[w].target < enrichment[claim[w].issue].target

QueueInv == (\A i \in Issues : IssueInv(i)) /\ (\A w \in Workers : WorkerInv(w))

(* An issue shown as complete is complete for its latest definition: its   *)
(* content covers every report and refinement post.                        *)
CompleteIsCurrent ==
    \A i \in Issues :
        enrichment[i].status = "complete" => Defining(i) \subseteq content[i].texts

(* A worker that comes back late with the analysis of an older discussion  *)
(* never takes text out of the content again.                              *)
ContentNeverRegresses ==
    [][\A i \in Issues : content[i].texts \subseteq content'[i].texts]_vars

(* When a job row goes, the issue is complete for the target it carried    *)
(* and that target has its snapshot: a worker dropping an old job never    *)
(* removes the row of a newer one.                                         *)
JobGoesOnlyWhenDone ==
    [][\A i \in Issues :
          job[i].target # 0 /\ job'[i].target = 0 =>
              /\ enrichment'[i] = [status |-> "complete", target |-> job[i].target]
              /\ job[i].target \in snapshots'[i]]_vars

(* "the tag catalog itself has improved - re-enrich": once the issue is    *)
(* complete again, its tags come from the catalog of the request or later, *)
(* whatever older analyses come back late - all but one: an analysis of    *)
(* the same target, begun before the catalog improved, satisfies a request *)
(* made while it is under way (UnderWay leaves such a request out).        *)
ReEnrichIsHonoured ==
    \A i \in Issues : enrichment[i].status = "complete" => content[i].catalog >= asked[i]

(* Every issue left pending or failed is completed in the end, as long as  *)
(* the processes stop crashing, one worker is left running, and nobody     *)
(* goes on asking for re-enrichment, which moves a job to the back.        *)
Running(w) == pc[w] # "stopped"
CrashesEnd == \A w \in Workers : <>[]Running(w) \/ <>[]~Running(w)
RequestsEnd == <>[][\A i \in Issues : ~ReEnrich(i)]_vars
EventuallyEnriched ==
    CrashesEnd /\ RequestsEnd /\ (\E w \in Workers : <>[]Running(w)) =>
        \A i \in Issues :
            enrichment[i].status # "complete" ~> enrichment[i].status = "complete"
=============================================================================
