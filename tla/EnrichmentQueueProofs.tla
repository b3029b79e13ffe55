------------------------ MODULE EnrichmentQueueProofs ------------------------
(***************************************************************************)
(* Theorems about the enrichment queue, for any set of issues and workers  *)
(* and any bounds. Those that rest on QueueInv assume that a read of an    *)
(* existing issue does not fail (ReadFailures = FALSE); run queue_issues   *)
(* checks what remains true otherwise.                                     *)
(***************************************************************************)
EXTENDS EnrichmentQueue, TLAPS

JobRow == [target : 0 .. MaxPosts, due : BOOLEAN]
ClaimRow == [issue : Issues \cup {NoIssue}, target : 0 .. MaxPosts,
             texts : SUBSET (1 .. MaxPosts), catalog : 0 .. MaxCatalog]

(* The rows the three job statements write are rows of the table. *)
LEMMA JobRows ==
    ASSUME NEW row \in JobRow, NEW target \in 0 .. MaxPosts
    PROVE  /\ Enqueued(row, target) \in JobRow
           /\ Completed(row, target) \in JobRow
           /\ Retried(row, target) \in JobRow
    <1>1. MaxPosts \in Nat /\ row.target \in 0 .. MaxPosts /\ row.due \in BOOLEAN
        BY QueueAssumption DEF JobRow
    <1>2. Enqueued(row, target) \in JobRow
        BY <1>1 DEF JobRow, Enqueued
    <1>3. NoJob \in JobRow
        BY <1>1 DEF JobRow, NoJob
    <1>4. [row EXCEPT !.due = FALSE] \in JobRow
        BY <1>1 DEF JobRow
    <1> QED
        BY <1>2, <1>3, <1>4 DEF Completed, Retried

(* Appending a post to a discussion below its bound keeps it well-typed. *)
LEMMA SavePostType ==
    ASSUME TypeOK, NEW i \in Issues, NEW kind \in Kind, SavePost(i, kind)
    PROVE  /\ discussion' \in [Issues -> Seq(Kind)]
           /\ \A k \in Issues : Len(discussion'[k]) <= MaxPosts
           /\ Len(discussion[i]) + 1 \in 0 .. MaxPosts
    <1>1. discussion[i] \in Seq(Kind) /\ Len(discussion[i]) \in Nat
        BY DEF TypeOK
    <1>2. /\ Append(discussion[i], kind) \in Seq(Kind)
          /\ Len(Append(discussion[i], kind)) = Len(discussion[i]) + 1
        BY <1>1
    <1> QED
        BY <1>1, <1>2, QueueAssumption DEF TypeOK, SavePost

(* The initial state is well-typed. *)
LEMMA TypeInit == Init => TypeOK
    BY QueueAssumption
    DEF Init, TypeOK, Lifecycle, Status, WorkerPC, NoJob, NoClaim, Kind

(* Saving new issues keeps their rows well-typed. *)
LEMMA SaveIssuesType ==
    ASSUME TypeOK, NEW new \in SUBSET Issues, NEW status \in Status, SaveIssues(new, status)
    PROVE  /\ discussion' \in [Issues -> Seq(Kind)]
           /\ \A k \in Issues : Len(discussion'[k]) <= MaxPosts
           /\ enrichment' \in [Issues -> [status : Status, target : 0 .. MaxPosts]]
           /\ content' \in [Issues -> [texts : SUBSET (1 .. MaxPosts), catalog : 0 .. MaxCatalog]]
    <1>1. <<"report">> \in Seq(Kind) /\ Len(<<"report">>) = 1
        BY DEF Kind
    <1> QED
        BY <1>1, QueueAssumption DEF TypeOK, SaveIssues

(* Every command keeps the state well-typed. *)
LEMMA TypeCommand == TypeOK /\ Command => TypeOK'
    <1> SUFFICES ASSUME TypeOK, NEW i \in Issues,
                        \/ Create(i) \/ Refine(i) \/ ReEnrich(i) \/ Progress(i)
                        \/ Assign(i) \/ Close(i) \/ Reopen(i)
                        \/ \E sources \in SUBSET Issues : Combine(sources, i)
                        \/ \E children \in SUBSET Issues, closeSource \in BOOLEAN :
                              Split(i, children, closeSource)
                 PROVE  TypeOK'
        BY DEF Command
    <1> USE QueueAssumption
    <1>1. CASE Create(i)
        <2>1. SaveIssues({i}, "pending") /\ "pending" \in Status /\ "open" \in Lifecycle
            BY <1>1 DEF Create, Status, Lifecycle
        <2>2. Enqueued(job[i], 1) \in JobRow
            BY JobRows DEF TypeOK, JobRow
        <2> QED
            BY <1>1, <2>1, <2>2, SaveIssuesType DEF Create, TypeOK, JobRow, workerVars
    <1>2. CASE Refine(i)
        <2>1. SavePost(i, "refinement") /\ "refinement" \in Kind /\ "pending" \in Status
            BY <1>2 DEF Refine, Kind, Status
        <2>2. Enqueued(job[i], Len(discussion[i]) + 1) \in JobRow
            BY <2>1, SavePostType, JobRows DEF TypeOK, JobRow
        <2> QED
            BY <1>2, <2>1, <2>2, SavePostType DEF Refine, TypeOK, JobRow, workerVars
    <1>3. CASE ReEnrich(i)
        <2>1. Enqueued(job[i], enrichment[i].target) \in JobRow
            BY JobRows DEF TypeOK, JobRow
        <2>2. asked' \in [Issues -> 0 .. MaxCatalog]
            BY <1>3 DEF ReEnrich, TypeOK
        <2> DEFINE row == [enrichment[i] EXCEPT !.status = "pending"]
        <2>3. row \in [status : Status, target : 0 .. MaxPosts]
            <3>1. enrichment[i] \in [status : Status, target : 0 .. MaxPosts]
                BY DEF TypeOK
            <3> QED
                BY <3>1 DEF Status
        <2>4. enrichment' = [enrichment EXCEPT ![i] = row]
            BY <1>3 DEF ReEnrich, TypeOK
        <2>5. enrichment' \in [Issues -> [status : Status, target : 0 .. MaxPosts]]
            BY <2>3, <2>4 DEF TypeOK
        <2> QED
            BY <1>3, <2>1, <2>2, <2>5 DEF ReEnrich, TypeOK, JobRow, workerVars
    <1>4. CASE Progress(i) \/ Assign(i) \/ Close(i) \/ Reopen(i)
        <2>1. SavePost(i, "note") /\ "note" \in Kind /\ {"open", "closed"} \subseteq Lifecycle
            BY <1>4 DEF Progress, Assign, Close, Reopen, Kind, Lifecycle
        <2>2. lifecycle' \in [Issues -> Lifecycle]
            BY <1>4, <2>1 DEF Progress, Assign, Close, Reopen, TypeOK
        <2>3. UNCHANGED <<enrichment, content, snapshots, job, pc, claim, catalog, asked>>
            BY <1>4 DEF Progress, Assign, Close, Reopen, workerVars
        <2> QED
            BY <2>1, <2>2, <2>3, SavePostType DEF TypeOK
    <1>5. ASSUME NEW sources \in SUBSET Issues, Combine(sources, i)
          PROVE  TypeOK'
        <2>1. SaveIssues({i}, "complete") /\ "complete" \in Status
            BY <1>5 DEF Combine, Status
        <2>2. lifecycle' \in [Issues -> Lifecycle]
            BY <1>5 DEF Combine, TypeOK, Lifecycle
        <2> QED
            BY <1>5, <2>1, <2>2, SaveIssuesType DEF Combine, TypeOK, workerVars
    <1>6. ASSUME NEW children \in SUBSET Issues, NEW closeSource \in BOOLEAN,
                 Split(i, children, closeSource)
          PROVE  TypeOK'
        <2>1. SaveIssues(children, "complete") /\ "complete" \in Status
            BY <1>6 DEF Split, Status
        <2>2. lifecycle' \in [Issues -> Lifecycle]
            BY <1>6 DEF Split, TypeOK, Lifecycle
        <2> QED
            BY <1>6, <2>1, <2>2, SaveIssuesType DEF Split, TypeOK, workerVars
    <1> QED
        BY <1>1, <1>2, <1>3, <1>4, <1>5, <1>6

(* A worker only holds a claim on an issue, for a real target: with the    *)
(* type this is what makes its writes well-typed.                          *)
ClaimOK == \A w \in Workers : Busy(w) => claim[w].issue \in Issues /\ claim[w].target > 0

(* What a busy worker reads and writes lies in the tables. *)
LEMMA BusyWorker ==
    ASSUME TypeOK, ClaimOK, NEW w \in Workers, Busy(w)
    PROVE  /\ claim[w].issue \in Issues
           /\ claim[w].target \in 1 .. MaxPosts
           /\ claim[w].target \in 0 .. MaxPosts
           /\ claim[w].texts \in SUBSET (1 .. MaxPosts)
           /\ claim[w].catalog \in 0 .. MaxCatalog
           /\ job[claim[w].issue] \in JobRow
    BY QueueAssumption DEF TypeOK, ClaimOK, JobRow

(* Every worker step keeps the state well-typed. *)
LEMMA TypeWorker ==
    ASSUME TypeOK, ClaimOK, NEW w \in Workers, WorkerStep(w) \/ Stop(w) \/ Restart(w)
    PROVE  TypeOK'
    <1> DEFINE i == claim[w].issue
    <1> USE QueueAssumption
    <1>1. NoClaim \in ClaimRow
        BY DEF NoClaim, ClaimRow
    <1>0. Finish(w) => pc' \in [Workers -> WorkerPC] /\ claim' \in [Workers -> ClaimRow]
        BY <1>1 DEF Finish, TypeOK, WorkerPC, ClaimRow
    <1>2. ASSUME NEW k \in Issues, Claim(w, k)
          PROVE  TypeOK'
        <2>1. [issue |-> k, target |-> job[k].target, texts |-> {}, catalog |-> 0]
                \in ClaimRow
            BY DEF ClaimRow, TypeOK
        <2>2. [job[k] EXCEPT !.due = FALSE] \in JobRow
            BY ZenonT(30) DEF JobRow, TypeOK
        <2>3. /\ job' \in [Issues -> JobRow]
              /\ pc' \in [Workers -> WorkerPC]
              /\ claim' \in [Workers -> ClaimRow]
            BY <1>2, <2>1, <2>2 DEF Claim, TypeOK, JobRow, ClaimRow, WorkerPC
        <2> QED
            BY <1>2, <2>3 DEF Claim, TypeOK, JobRow, ClaimRow, issueVars
    <1>3. CASE Load(w)
        <2>1. Busy(w)
            BY <1>3 DEF Load, Busy
        <2>2. {n \in 1 .. Len(discussion[i]) : n <= claim[w].target} \subseteq 1 .. MaxPosts
            BY <2>1, BusyWorker DEF TypeOK
        <2>3. /\ pc' \in [Workers -> WorkerPC]
              /\ claim' \in [Workers -> ClaimRow]
            <3>1. i \in Issues /\ claim[w].target \in 0 .. MaxPosts
                BY <2>1, BusyWorker
            <3>2. ASSUME NEW texts \in SUBSET (1 .. MaxPosts)
                  PROVE  [issue |-> i, target |-> claim[w].target,
                          texts |-> texts, catalog |-> catalog] \in ClaimRow
                BY <3>1 DEF TypeOK, ClaimRow
            <3>3. pc' \in [Workers -> WorkerPC]
                BY <1>3 DEF Load, TypeOK, WorkerPC
            <3>4. CASE UNCHANGED claim
                BY <3>3, <3>4 DEF TypeOK, ClaimRow
            <3>5. ASSUME NEW texts \in SUBSET (1 .. MaxPosts),
                         claim' = [claim EXCEPT
                                     ![w] = [issue |-> i, target |-> claim[w].target,
                                             texts |-> texts, catalog |-> catalog]]
                  PROVE  claim' \in [Workers -> ClaimRow]
                BY <3>2, <3>5 DEF TypeOK, ClaimRow
            <3> QED
                BY <1>3, <2>2, <3>3, <3>4, <3>5 DEF Load
        <2> QED
            BY <1>3, <2>3 DEF Load, TypeOK, ClaimRow, issueVars
    <1>4. CASE LoadFails(w) \/ AnalysisSucceeds(w) \/ AnalysisFails(w)
        BY <1>4 DEF LoadFails, AnalysisSucceeds, AnalysisFails, TypeOK, WorkerPC, issueVars
    <1>5. CASE ApplyJob(w)
        <2>1. Busy(w)
            BY <1>5 DEF ApplyJob, Busy
        <2>2. Completed(job[i], claim[w].target) \in JobRow
            BY <2>1, BusyWorker, JobRows
        <2>3. job' \in [Issues -> JobRow]
            BY <1>5, <2>2 DEF ApplyJob, CompleteJob, TypeOK, JobRow
        <2>4. /\ enrichment' \in [Issues -> [status : Status, target : 0 .. MaxPosts]]
              /\ content' \in [Issues -> [texts : SUBSET (1 .. MaxPosts),
                                         catalog : 0 .. MaxCatalog]]
              /\ snapshots' \in [Issues -> SUBSET (1 .. MaxPosts)]
            BY <1>5, <2>1, BusyWorker DEF ApplyJob, TypeOK, Status
        <2> QED
            BY <1>0, <1>5, <2>3, <2>4 DEF ApplyJob, TypeOK, JobRow, ClaimRow, issueVars
    <1>6. CASE FailJob(w)
        <2>1. Busy(w)
            BY <1>6 DEF FailJob, Busy
        <2>2. Retried(job[i], claim[w].target) \in JobRow
            BY <2>1, BusyWorker, JobRows
        <2>3. job' \in [Issues -> JobRow]
            BY <1>6, <2>2 DEF FailJob, TypeOK, JobRow
        <2>4. enrichment' \in [Issues -> [status : Status, target : 0 .. MaxPosts]]
            <3>1. \A r \in [status : Status, target : 0 .. MaxPosts] :
                     [r EXCEPT !.status = "failed"] \in [status : Status, target : 0 .. MaxPosts]
                BY DEF Status
            <3> QED
                BY <1>6, <3>1 DEF FailJob, TypeOK
        <2> QED
            BY <1>0, <1>6, <2>3, <2>4 DEF FailJob, TypeOK, JobRow, ClaimRow, issueVars
    <1>7. CASE DropJob(w)
        <2>1. Busy(w)
            BY <1>7 DEF DropJob, Busy
        <2>2. Completed(job[i], claim[w].target) \in JobRow
            BY <2>1, BusyWorker, JobRows
        <2>3. job' \in [Issues -> JobRow]
            BY <1>7, <2>2 DEF DropJob, CompleteJob, TypeOK, JobRow
        <2> QED
            BY <1>0, <1>7, <2>3 DEF DropJob, TypeOK, JobRow, ClaimRow, issueVars
    <1>8. CASE Stop(w) \/ Restart(w)
        <2>1. /\ pc' \in [Workers -> WorkerPC]
              /\ claim' \in [Workers -> ClaimRow]
            <3>1. CASE Stop(w)
                BY <1>1, <3>1 DEF Stop, TypeOK, WorkerPC, ClaimRow
            <3>2. CASE Restart(w)
                BY <3>2 DEF Restart, TypeOK, WorkerPC, ClaimRow
            <3> QED
                BY <1>8, <3>1, <3>2
        <2> QED
            BY <1>8, <2>1 DEF Stop, Restart, TypeOK, ClaimRow, issueVars
    <1> QED
        BY <1>2, <1>3, <1>4, <1>5, <1>6, <1>7, <1>8 DEF WorkerStep

(* Only claiming makes a worker busy, and only with a claim. *)
LEMMA ClaimNext == TypeOK /\ ClaimOK /\ [Next]_vars => ClaimOK'
    <1> SUFFICES ASSUME TypeOK, ClaimOK, [Next]_vars, NEW v \in Workers, Busy(v)'
                 PROVE  claim'[v].issue \in Issues /\ claim'[v].target > 0
        BY DEF ClaimOK
    <1>1. CASE UNCHANGED workerVars
        BY <1>1 DEF workerVars, ClaimOK, Busy
    <1>2. ASSUME NEW w \in Workers, WorkerStep(w) \/ Stop(w) \/ Restart(w)
          PROVE  claim'[v].issue \in Issues /\ claim'[v].target > 0
        <2>1. ASSUME NEW k \in Issues, Claim(w, k)
              PROVE  claim'[v].issue \in Issues /\ claim'[v].target > 0
            BY <2>1 DEF Claim, TypeOK, ClaimOK, Busy
        <2>2. CASE Load(w)
            <3>1. claim'[v].issue = claim[v].issue /\ claim'[v].target = claim[v].target
                <4>1. CASE UNCHANGED claim
                    BY <4>1
                <4>2. CASE v = w
                    BY <2>2, <4>1, <4>2 DEF Load, TypeOK
                <4>3. CASE v # w
                    BY <2>2, <4>1, <4>3 DEF Load, TypeOK
                <4> QED
                    BY <4>2, <4>3
            <3>2. Busy(v)
                BY <2>2 DEF Load, TypeOK, Busy
            <3> QED
                BY <3>1, <3>2 DEF ClaimOK
        <2>3. CASE LoadFails(w) \/ AnalysisSucceeds(w) \/ AnalysisFails(w)
            BY <2>3 DEF LoadFails, AnalysisSucceeds, AnalysisFails, TypeOK, ClaimOK, Busy
        <2>4. CASE ApplyJob(w) \/ FailJob(w) \/ DropJob(w)
            BY <2>4 DEF ApplyJob, FailJob, DropJob, Finish, TypeOK, ClaimOK, Busy
        <2>5. CASE Stop(w) \/ Restart(w)
            BY <2>5 DEF Stop, Restart, TypeOK, ClaimOK, Busy
        <2> QED
            BY <1>2, <2>1, <2>2, <2>3, <2>4, <2>5 DEF WorkerStep
    <1>3. CASE Command
        BY <1>1, <1>3
        DEF Command, Create, Refine, ReEnrich, Progress, Assign, Close, Reopen, Combine, Split
    <1>4. CASE CatalogImproves \/ \E i \in Issues : LeaseExpires(i)
        BY <1>1, <1>4 DEF CatalogImproves, LeaseExpires
    <1>5. CASE UNCHANGED vars
        BY <1>1, <1>5 DEF vars, workerVars
    <1> QED
        BY <1>2, <1>3, <1>4, <1>5 DEF Next

(* Every reachable state is well-typed: no interleaving of commands,       *)
(* workers, crashes and expiring leases writes a row the schema or the     *)
(* code's own constants do not know, or a target past the discussion.      *)
THEOREM TypeCorrect == Spec => []TypeOK
    <1>1. Init => TypeOK /\ ClaimOK
        BY TypeInit DEF Init, ClaimOK, Busy
    <1>2. TypeOK /\ ClaimOK /\ [Next]_vars => (TypeOK /\ ClaimOK)'
        <2> SUFFICES ASSUME TypeOK, ClaimOK, [Next]_vars PROVE TypeOK'
            BY ClaimNext
        <2>1. CASE Command
            BY <2>1, TypeCommand
        <2>2. ASSUME NEW w \in Workers, WorkerStep(w) \/ Stop(w) \/ Restart(w)
              PROVE  TypeOK'
            BY <2>2, TypeWorker
        <2>3. ASSUME NEW i \in Issues, LeaseExpires(i)
              PROVE  TypeOK'
            BY <2>3 DEF LeaseExpires, TypeOK, issueVars, workerVars
        <2>4. CASE CatalogImproves
            BY <2>4, QueueAssumption DEF CatalogImproves, TypeOK, issueVars, workerVars
        <2>5. CASE UNCHANGED vars
            BY <2>5 DEF vars, TypeOK
        <2> QED
            BY <2>1, <2>2, <2>3, <2>4, <2>5 DEF Next
    <1> QED
        BY <1>1, <1>2, PTL DEF Spec
-----------------------------------------------------------------------------
(* The inductive invariant.                                                *)

(* An issue none of whose rows a step touches keeps its invariant. *)
LEMMA Untouched ==
    ASSUME NEW i \in Issues, IssueInv(i),
           lifecycle'[i] = "absent" <=> lifecycle[i] = "absent",
           discussion'[i] = discussion[i], enrichment'[i] = enrichment[i],
           content'[i] = content[i], job'[i].target = job[i].target
    PROVE  IssueInv(i)'
    BY DEF IssueInv, Exists, Defining

(* A worker a step does not move keeps its invariant, for targets grow. *)
LEMMA UntouchedWorker ==
    ASSUME TypeOK, TypeOK', NEW w \in Workers, WorkerInv(w),
           pc'[w] = pc[w], claim'[w] = claim[w],
           \A i \in Issues : enrichment[i].target <= enrichment'[i].target
    PROVE  WorkerInv(w)'
    <1> SUFFICES ASSUME Busy(w)
                 PROVE  WorkerInv(w)'
        BY DEF WorkerInv, Busy
    <1> DEFINE i == claim[w].issue
    <1>1. /\ i \in Issues
          /\ claim[w].target \in 1 .. enrichment[i].target
          /\ pc[w] = "drop" => claim[w].target < enrichment[i].target
          /\ pc[w] \in {"analyzing", "apply", "fail"} => claim[w].texts = 1 .. claim[w].target
        BY DEF WorkerInv
    <1>2. /\ enrichment[i].target \in Nat
          /\ enrichment'[i].target \in Nat
          /\ enrichment[i].target <= enrichment'[i].target
        BY <1>1, QueueAssumption DEF TypeOK
    <1> QED
        BY <1>1, <1>2 DEF WorkerInv

(* The new post is the last one, the others stay where they are, and it    *)
(* defines the issue only if it is a refinement.                           *)
LEMMA SavePostDefines ==
    ASSUME TypeOK, NEW i \in Issues, NEW kind \in Kind, SavePost(i, kind)
    PROVE  /\ Len(discussion'[i]) = Len(discussion[i]) + 1
           /\ Defining(i)' \subseteq Defining(i) \cup {Len(discussion[i]) + 1}
           /\ kind = "note" => Defining(i)' \subseteq Defining(i)
           /\ \A k \in Issues \ {i} : discussion'[k] = discussion[k]
    <1>1. discussion[i] \in Seq(Kind) /\ discussion'[i] = Append(discussion[i], kind)
        BY DEF TypeOK, SavePost
    <1>2. /\ Len(discussion[i]) \in Nat
          /\ Len(discussion'[i]) = Len(discussion[i]) + 1
          /\ \A n \in 1 .. Len(discussion[i]) : discussion'[i][n] = discussion[i][n]
          /\ discussion'[i][Len(discussion[i]) + 1] = kind
        BY <1>1
    <1>3. \A k \in Issues \ {i} : discussion'[k] = discussion[k]
        BY DEF TypeOK, SavePost
    <1> QED
        BY <1>2, <1>3, SMTT(30) DEF Defining

(* A new issue starts with its report as text and target, a job if it is   *)
(* pending and none otherwise.                                             *)
LEMMA SavedIssue ==
    ASSUME TypeOK, NEW new \in SUBSET Issues, NEW status \in Status,
           SaveIssues(new, status), NEW i \in new,
           lifecycle'[i] = "open",
           \/ status = "pending" /\ job'[i].target = 1
           \/ status = "complete" /\ job'[i].target = 0
    PROVE  IssueInv(i)' /\ enrichment'[i].target = 1
    <1>1. /\ discussion'[i] = <<"report">>
          /\ enrichment'[i] = [status |-> status, target |-> 1]
          /\ content'[i].texts = {1}
        BY DEF SaveIssues
    <1>2. Len(discussion'[i]) = 1 /\ Defining(i)' \subseteq 1 .. 1 /\ {1} = 1 .. 1
        BY <1>1 DEF Defining
    <1> QED
        BY <1>1, <1>2 DEF IssueInv, Exists

(* An issue that does not exist yet has no target and no job. *)
LEMMA AbsentIssue ==
    ASSUME TypeOK, NEW i \in Issues, IssueInv(i), ~Exists(i)
    PROVE  enrichment[i].target = 0 /\ job[i].target = 0
    BY QueueAssumption DEF IssueInv, TypeOK
(* Targets and lengths are numbers. *)
LEMMA Targets ==
    ASSUME TypeOK, NEW i \in Issues
    PROVE  enrichment[i].target \in Nat /\ job[i].target \in Nat /\ Len(discussion[i]) \in Nat
    <1>1. discussion[i] \in Seq(Kind)
        BY DEF TypeOK
    <1> QED
        BY <1>1, QueueAssumption DEF TypeOK

(* What a step may do to issue k: keep its invariant, and its target or more. *)
Kept(k) == IssueInv(k)' /\ enrichment[k].target <= enrichment'[k].target

(* A step that saves new issues, and at most opens or closes others, keeps *)
(* every issue's invariant.                                                *)
LEMMA SaveIssuesKeeps ==
    ASSUME TypeOK, TypeOK', QueueInv, NEW new \in SUBSET Issues, NEW status \in Status,
           SaveIssues(new, status),
           \A i \in new : /\ lifecycle'[i] = "open"
                          /\ \/ status = "pending" /\ job'[i].target = 1
                             \/ status = "complete" /\ job'[i].target = 0,
           \A i \in Issues \ new : /\ lifecycle'[i] = "absent" <=> lifecycle[i] = "absent"
                                   /\ job'[i] = job[i],
           NEW k \in Issues
    PROVE  Kept(k)
    <1>1. IssueInv(k) /\ enrichment[k].target \in Nat
        BY QueueAssumption DEF QueueInv, TypeOK
    <1>2. CASE k \in new
        <2>1. enrichment[k].target = 0
            BY <1>1, <1>2, AbsentIssue DEF SaveIssues
        <2> QED
            BY <1>2, <2>1, SavedIssue DEF Kept
    <1>3. CASE k \notin new
        <2>1. /\ discussion'[k] = discussion[k]
              /\ enrichment'[k] = enrichment[k]
              /\ content'[k] = content[k]
            BY <1>3 DEF SaveIssues
        <2> QED
            BY <1>1, <1>3, <2>1, Untouched DEF Kept
    <1> QED
        BY <1>2, <1>3

(* Every command keeps every issue's invariant. *)
LEMMA CommandKeeps ==
    ASSUME TypeOK, TypeOK', QueueInv, Command, NEW k \in Issues
    PROVE  Kept(k)
    <1>0. PICK i \in Issues :
              \/ Create(i) \/ Refine(i) \/ ReEnrich(i) \/ Progress(i)
              \/ Assign(i) \/ Close(i) \/ Reopen(i)
              \/ \E sources \in SUBSET Issues : Combine(sources, i)
              \/ \E children \in SUBSET Issues, closeSource \in BOOLEAN :
                    Split(i, children, closeSource)
        BY DEF Command
    <1>1. /\ IssueInv(k) /\ IssueInv(i)
          /\ enrichment[k].target \in Nat /\ enrichment[i].target \in Nat
          /\ job[i].target \in Nat /\ Len(discussion[i]) \in Nat
        BY Targets DEF QueueInv
    <1>2. CASE Create(i)
        <2>1. /\ SaveIssues({i}, "pending") /\ "pending" \in Status /\ {i} \in SUBSET Issues
              /\ lifecycle'[i] = "open"
              /\ job'[i].target = Enqueued(job[i], 1).target
              /\ \A m \in Issues \ {i} : lifecycle'[m] = lifecycle[m] /\ job'[m] = job[m]
            BY <1>2 DEF Create, Status, TypeOK
        <2>2. job[i].target = 0
            BY <1>1, <2>1, AbsentIssue DEF SaveIssues
        <2>3. job'[i].target = 1
            BY <2>1, <2>2 DEF Enqueued
        <2> QED
            BY <2>1, <2>3, SaveIssuesKeeps
    <1>3. CASE Refine(i)
        <2> DEFINE n == Len(discussion[i]) + 1
        <2>1. /\ SavePost(i, "refinement") /\ "refinement" \in Kind
              /\ enrichment'[i] = [status |-> "pending", target |-> n]
              /\ job'[i] = Enqueued(job[i], n)
              /\ lifecycle[i] = "open" /\ lifecycle' = lifecycle /\ content' = content
              /\ \A m \in Issues \ {i} : enrichment'[m] = enrichment[m] /\ job'[m] = job[m]
            BY <1>3 DEF Refine, Kind, TypeOK
        <2>2. /\ Len(discussion'[i]) = n
              /\ Defining(i)' \subseteq Defining(i) \cup {n}
              /\ \A m \in Issues \ {i} : discussion'[m] = discussion[m]
            BY <2>1, SavePostDefines
        <2>3. CASE k # i
            BY <1>1, <2>1, <2>2, <2>3, Untouched DEF Kept
        <2>4. CASE k = i
            <3>1. job'[i].target = n
                BY <1>1, <2>1 DEF IssueInv, Enqueued
            <3>2. Defining(i)' \subseteq 1 .. n /\ content'[i].texts \subseteq 1 .. n
                BY <1>1, <2>1, <2>2 DEF IssueInv
            <3> QED
                BY <1>1, <2>1, <2>2, <2>4, <3>1, <3>2 DEF IssueInv, Exists, Kept
        <2> QED
            BY <2>3, <2>4
    <1>4. CASE ReEnrich(i)
        <2>1. /\ enrichment'[i].status = "pending"
              /\ enrichment'[i].target = enrichment[i].target
              /\ job'[i] = Enqueued(job[i], enrichment[i].target)
              /\ lifecycle[i] = "open" /\ lifecycle' = lifecycle
              /\ content' = content /\ discussion' = discussion
              /\ \A m \in Issues \ {i} : enrichment'[m] = enrichment[m] /\ job'[m] = job[m]
            BY <1>4 DEF ReEnrich, TypeOK
        <2>2. CASE k # i
            BY <1>1, <2>1, <2>2, Untouched DEF Kept
        <2>3. CASE k = i
            <3>1. enrichment[i].target > 0 /\ job'[i].target = enrichment[i].target
                BY <1>1, <2>1 DEF IssueInv, Exists, Enqueued
            <3> QED
                BY <1>1, <2>1, <2>3, <3>1 DEF IssueInv, Exists, Defining, Kept
        <2> QED
            BY <2>2, <2>3
    <1>5. CASE Progress(i) \/ Assign(i) \/ Close(i) \/ Reopen(i)
        <2>1. /\ SavePost(i, "note") /\ "note" \in Kind
              /\ enrichment' = enrichment /\ content' = content /\ job' = job
              /\ \A m \in Issues : lifecycle'[m] = "absent" <=> lifecycle[m] = "absent"
            BY <1>5 DEF Progress, Assign, Close, Reopen, Kind, TypeOK, Exists
        <2>2. /\ Len(discussion'[i]) = Len(discussion[i]) + 1
              /\ Defining(i)' \subseteq Defining(i)
              /\ \A m \in Issues \ {i} : discussion'[m] = discussion[m]
            BY <2>1, SavePostDefines
        <2>3. CASE k # i
            BY <1>1, <2>1, <2>2, <2>3, Untouched DEF Kept
        <2>4. CASE k = i
            BY <1>1, <2>1, <2>2, <2>4 DEF IssueInv, Exists, Kept
        <2> QED
            BY <2>3, <2>4
    <1>6. ASSUME NEW sources \in SUBSET Issues, Combine(sources, i)
          PROVE  Kept(k)
        <2>1. /\ SaveIssues({i}, "complete") /\ "complete" \in Status /\ {i} \in SUBSET Issues
              /\ lifecycle'[i] = "open" /\ job' = job
              /\ \A m \in Issues \ {i} :
                    lifecycle'[m] = "absent" <=> lifecycle[m] = "absent"
            BY <1>6 DEF Combine, Status, Exists
        <2>2. job'[i].target = 0
            BY <1>1, <2>1, AbsentIssue DEF SaveIssues
        <2> QED
            BY <2>1, <2>2, SaveIssuesKeeps
    <1>7. ASSUME NEW children \in SUBSET Issues, NEW closeSource \in BOOLEAN,
                 Split(i, children, closeSource)
          PROVE  Kept(k)
        <2>1. /\ SaveIssues(children, "complete") /\ "complete" \in Status
              /\ \A m \in children : lifecycle'[m] = "open"
              /\ job' = job
              /\ \A m \in Issues \ children :
                    lifecycle'[m] = "absent" <=> lifecycle[m] = "absent"
            BY <1>7 DEF Split, Status, Exists
        <2>2. \A m \in children : job'[m].target = 0
            BY <2>1, AbsentIssue DEF SaveIssues, QueueInv
        <2> QED
            BY <2>1, <2>2, SaveIssuesKeeps
    <1> QED
        BY <1>0, <1>2, <1>3, <1>4, <1>5, <1>6, <1>7
(* A worker step leaves every issue's invariant as it was: what a worker   *)
(* writes it writes for a target that is still the issue's, and it removes *)
(* no job but the one for that target.                                     *)
LEMMA WorkerKeeps ==
    ASSUME TypeOK, TypeOK', QueueInv, ReadFailures = FALSE,
           NEW w \in Workers, WorkerStep(w) \/ Stop(w) \/ Restart(w), NEW k \in Issues
    PROVE  Kept(k)
    <1> DEFINE i == claim[w].issue
    <1>1. /\ IssueInv(k)
          /\ Busy(w) => /\ i \in Issues
                        /\ IssueInv(i)
                        /\ claim[w].target \in 1 .. enrichment[i].target
                        /\ pc[w] \in {"analyzing", "apply", "fail"} =>
                              claim[w].texts = 1 .. claim[w].target
                        /\ pc[w] = "drop" => claim[w].target < enrichment[i].target
        BY DEF QueueInv, WorkerInv
    <1>2. \A m \in Issues : enrichment[m].target \in Nat
        BY QueueAssumption DEF TypeOK
    <1>3. CASE /\ UNCHANGED <<lifecycle, discussion, enrichment, content>>
               /\ job'[k].target = job[k].target
        BY <1>1, <1>2, <1>3, Untouched DEF Kept
    <1>4. ASSUME NEW m \in Issues, Claim(w, m)
          PROVE  Kept(k)
        BY <1>3, <1>4 DEF Claim, TypeOK, issueVars
    <1>5. CASE Load(w) \/ AnalysisSucceeds(w) \/ AnalysisFails(w) \/ Stop(w) \/ Restart(w)
        BY <1>3, <1>5 DEF Load, AnalysisSucceeds, AnalysisFails, Stop, Restart, issueVars
    <1>6. CASE ApplyJob(w)
        <2>1. /\ Busy(w) /\ pc[w] = "apply"
              /\ enrichment[i].target = claim[w].target
              /\ UNCHANGED <<lifecycle, discussion>>
            BY <1>6 DEF ApplyJob, Busy, StillWanted, issueVars
        <2>2. /\ enrichment'[i] = [status |-> "complete", target |-> claim[w].target]
              /\ content'[i].texts = claim[w].texts
              /\ job'[i] = Completed(job[i], claim[w].target)
              /\ \A m \in Issues \ {i} : /\ enrichment'[m] = enrichment[m]
                                         /\ content'[m] = content[m]
                                         /\ job'[m] = job[m]
            BY <1>1, <1>6, <2>1 DEF ApplyJob, CompleteJob, TypeOK
        <2>3. CASE k # i
            BY <1>1, <1>2, <2>1, <2>2, <2>3, Untouched DEF Kept
        <2>4. CASE k = i
            <3>1. job'[i].target = 0
                BY <1>1, <2>1, <2>2 DEF IssueInv, Completed, NoJob
            <3>2. content'[i].texts = 1 .. enrichment[i].target
                BY <1>1, <2>1, <2>2
            <3> QED
                BY <1>1, <1>2, <2>1, <2>2, <2>4, <3>1, <3>2, SMTT(30)
                DEF IssueInv, Exists, Defining, Kept
        <2> QED
            BY <2>3, <2>4
    <1>7. CASE FailJob(w)
        <2>1. /\ Busy(w) /\ UNCHANGED <<lifecycle, discussion, content>>
            BY <1>7 DEF FailJob, Busy, issueVars
        <2>2. /\ enrichment'[i].status = "failed"
              /\ enrichment'[i].target = enrichment[i].target
              /\ job'[i] = Retried(job[i], claim[w].target)
              /\ \A m \in Issues \ {i} : enrichment'[m] = enrichment[m] /\ job'[m] = job[m]
            BY <1>1, <1>7, <2>1 DEF FailJob, TypeOK
        <2>3. CASE k # i
            BY <1>1, <1>2, <2>1, <2>2, <2>3, Untouched DEF Kept
        <2>4. CASE k = i
            <3>1. job'[i].target = job[i].target
                BY <2>2 DEF Retried, TypeOK
            <3> QED
                BY <1>1, <1>2, <2>1, <2>2, <2>4, <3>1, SMTT(30) DEF IssueInv, Exists, Defining, Kept
        <2> QED
            BY <2>3, <2>4
    <1>8. CASE DropJob(w)
        <2>1. /\ Busy(w) /\ enrichment[i].target # claim[w].target
              /\ job' = [job EXCEPT ![i] = Completed(@, claim[w].target)]
              /\ UNCHANGED <<lifecycle, discussion, enrichment, content>>
            BY <1>1, <1>8, <1>2 DEF DropJob, CompleteJob, Busy, StillWanted, issueVars
        <2>2. Completed(job[i], claim[w].target) = job[i] \/ job[i].target = 0
            BY <1>1, <2>1 DEF Completed, IssueInv
        <2>3. job'[k].target = job[k].target
            BY <1>1, <2>1, <2>2 DEF TypeOK, Completed, NoJob
        <2> QED
            BY <1>3, <2>1, <2>3
    <1> QED
        BY <1>4, <1>5, <1>6, <1>7, <1>8 DEF WorkerStep, LoadFails

(* The worker that takes a step ends it idle, or with a claim that is      *)
(* covered by the issue's target.                                          *)
LEMMA WorkerMoves ==
    ASSUME TypeOK, TypeOK', QueueInv, ReadFailures = FALSE,
           NEW w \in Workers, WorkerStep(w) \/ Stop(w) \/ Restart(w)
    PROVE  WorkerInv(w)'
    <1> DEFINE i == claim[w].issue
    <1>1. /\ pc \in [Workers -> WorkerPC]
          /\ \A m \in Issues : /\ enrichment[m].target \in Nat
                               /\ job[m].target \in Nat
                               /\ Len(discussion[m]) \in Nat
        BY Targets DEF TypeOK
    <1>2. Busy(w) => /\ i \in Issues
                     /\ enrichment[i].target <= Len(discussion[i])
                     /\ claim[w].target \in 1 .. enrichment[i].target
                     /\ pc[w] \in {"analyzing", "apply", "fail"} =>
                           claim[w].texts = 1 .. claim[w].target
        BY DEF QueueInv, WorkerInv, IssueInv
    <1>3. ASSUME NEW m \in Issues, Claim(w, m)
          PROVE  WorkerInv(w)'
        <2>1. /\ claim'[w].issue = m /\ claim'[w].target = job[m].target
              /\ pc'[w] = "claimed" /\ enrichment' = enrichment
              /\ job[m].target > 0
            BY <1>1, <1>3 DEF Claim, TypeOK
        <2>2. job[m].target \in 1 .. enrichment[m].target
            BY <1>1, <2>1 DEF QueueInv, IssueInv
        <2> QED
            BY <2>1, <2>2 DEF WorkerInv
    <1>4. CASE Load(w)
        <2>1. Busy(w) /\ enrichment' = enrichment
            BY <1>4 DEF Load, Busy
        <2>2. CASE enrichment[i].target = claim[w].target
            <3>1. /\ pc'[w] = "analyzing"
                  /\ claim'[w].issue = i /\ claim'[w].target = claim[w].target
                  /\ claim'[w].texts = {n \in 1 .. Len(discussion[i]) : n <= claim[w].target}
                BY <1>1, <1>4, <2>2 DEF Load, TypeOK
            <3>2. claim'[w].texts = 1 .. claim[w].target
                BY <1>1, <1>2, <2>1, <3>1
            <3> QED
                BY <1>2, <2>1, <3>1, <3>2 DEF WorkerInv
        <2>3. CASE enrichment[i].target # claim[w].target
            <3>1. pc'[w] = "drop" /\ claim' = claim
                BY <1>1, <1>4, <2>3 DEF Load
            <3> QED
                BY <1>1, <1>2, <2>1, <2>3, <3>1 DEF WorkerInv
        <2> QED
            BY <2>2, <2>3
    <1>5. CASE AnalysisSucceeds(w) \/ AnalysisFails(w)
        <2>1. /\ pc[w] = "analyzing" /\ pc'[w] \in {"apply", "fail"}
              /\ claim' = claim /\ enrichment' = enrichment
            BY <1>1, <1>5 DEF AnalysisSucceeds, AnalysisFails
        <2> QED
            BY <1>2, <2>1 DEF WorkerInv, Busy
    <1>6. CASE ApplyJob(w) \/ FailJob(w) \/ DropJob(w) \/ Stop(w) \/ Restart(w)
        <2>1. pc'[w] \in {"idle", "stopped"}
            BY <1>1, <1>6 DEF ApplyJob, FailJob, DropJob, Finish, Stop, Restart
        <2> QED
            BY <2>1 DEF WorkerInv, Busy
    <1> QED
        BY <1>3, <1>4, <1>5, <1>6 DEF WorkerStep, LoadFails

(* A worker step moves no other worker. *)
LEMMA OthersStay ==
    ASSUME TypeOK, NEW w \in Workers, WorkerStep(w) \/ Stop(w) \/ Restart(w),
           NEW v \in Workers \ {w}
    PROVE  pc'[v] = pc[v] /\ claim'[v] = claim[v]
    <1>1. pc \in [Workers -> WorkerPC] /\ claim \in [Workers -> ClaimRow]
        BY DEF TypeOK, ClaimRow
    <1>2. ASSUME NEW i \in Issues, Claim(w, i)
          PROVE  pc'[v] = pc[v] /\ claim'[v] = claim[v]
        BY <1>1, <1>2 DEF Claim
    <1>3. CASE Load(w) \/ LoadFails(w) \/ AnalysisSucceeds(w) \/ AnalysisFails(w)
        BY <1>1, <1>3 DEF Load, LoadFails, AnalysisSucceeds, AnalysisFails
    <1>4. CASE ApplyJob(w) \/ FailJob(w) \/ DropJob(w) \/ Stop(w) \/ Restart(w)
        BY <1>1, <1>4 DEF ApplyJob, FailJob, DropJob, Finish, Stop, Restart
    <1> QED
        BY <1>2, <1>3, <1>4 DEF WorkerStep

(* The inductive step. *)
LEMMA QueueNext ==
    ASSUME TypeOK, TypeOK', QueueInv, ReadFailures = FALSE, [Next]_vars
    PROVE  QueueInv'
    <1> SUFFICES /\ \A k \in Issues : Kept(k)
                 /\ \A v \in Workers :
                       (\A k \in Issues : Kept(k)) => WorkerInv(v)'
        BY DEF QueueInv, Kept
    <1>1. CASE Command
        <2>1. \A k \in Issues : Kept(k)
            BY <1>1, CommandKeeps
        <2>2. UNCHANGED <<pc, claim>>
            BY <1>1 DEF Command, Create, Refine, ReEnrich, Progress, Assign, Close, Reopen,
                        Combine, Split, workerVars
        <2> QED
            BY <2>1, <2>2, UntouchedWorker DEF QueueInv, Kept
    <1>2. ASSUME NEW w \in Workers, WorkerStep(w) \/ Stop(w) \/ Restart(w)
          PROVE  /\ \A k \in Issues : Kept(k)
                 /\ \A v \in Workers : (\A k \in Issues : Kept(k)) => WorkerInv(v)'
        <2>1. \A k \in Issues : Kept(k)
            BY <1>2, WorkerKeeps
        <2>2. ASSUME NEW v \in Workers
              PROVE  WorkerInv(v)'
            <3>1. CASE v = w
                BY <1>2, <3>1, WorkerMoves
            <3>2. CASE v # w
                <4>1. pc'[v] = pc[v] /\ claim'[v] = claim[v]
                    BY <1>2, <3>2, OthersStay
                <4> QED
                    BY <2>1, <4>1, UntouchedWorker DEF QueueInv, Kept
            <3> QED
                BY <3>1, <3>2
        <2> QED
            BY <2>1, <2>2
    <1>3. CASE \/ \E i \in Issues : LeaseExpires(i)
               \/ CatalogImproves
               \/ UNCHANGED vars
        <2>1. /\ UNCHANGED <<lifecycle, discussion, enrichment, content, pc, claim>>
              /\ \A k \in Issues : job'[k].target = job[k].target
            <3>1. ASSUME NEW i \in Issues, LeaseExpires(i), NEW k \in Issues
                  PROVE  job'[k].target = job[k].target
                BY <3>1 DEF LeaseExpires, TypeOK
            <3>2. CASE \E i \in Issues : LeaseExpires(i)
                BY <3>1, <3>2 DEF LeaseExpires, issueVars, workerVars
            <3>3. CASE CatalogImproves \/ UNCHANGED vars
                BY <3>3 DEF CatalogImproves, vars, issueVars, workerVars
            <3> QED
                BY <1>3, <3>2, <3>3
        <2>2. \A k \in Issues : enrichment[k].target <= enrichment'[k].target
            BY <2>1, QueueAssumption DEF TypeOK
        <2>3. \A k \in Issues : Kept(k)
            BY <2>1, <2>2, Untouched DEF QueueInv, Kept
        <2> QED
            BY <2>1, <2>2, <2>3, UntouchedWorker DEF QueueInv
    <1> QED
        BY <1>1, <1>2, <1>3 DEF Next

(* Initially nothing exists and no worker is busy. *)
LEMMA QueueInit == Init => QueueInv
    <1> SUFFICES ASSUME Init
                 PROVE  QueueInv
        OBVIOUS
    <1>1. ASSUME NEW i \in Issues
          PROVE  IssueInv(i)
        <2>1. /\ lifecycle[i] = "absent" /\ discussion[i] = <<>> /\ job[i].target = 0
              /\ enrichment[i].status = "complete" /\ enrichment[i].target = 0
              /\ content[i].texts = {} /\ 1 .. 0 = {}
            BY DEF Init, NoJob
        <2>2. Defining(i) = {} /\ Len(discussion[i]) = 0
            BY <2>1 DEF Defining
        <2> QED
            BY <2>1, <2>2 DEF IssueInv, Exists
    <1>2. ASSUME NEW w \in Workers
          PROVE  WorkerInv(w)
        BY DEF Init, WorkerInv, Busy
    <1> QED
        BY <1>1, <1>2 DEF QueueInv

(* The inductive invariant holds of every reachable state. *)
THEOREM QueueInvariant == ReadFailures = FALSE => (Spec => []QueueInv)
    <1> SUFFICES ASSUME ReadFailures = FALSE
                 PROVE  Spec => []QueueInv
        OBVIOUS
    <1>1. TypeOK /\ TypeOK' /\ QueueInv /\ [Next]_vars => QueueInv'
        BY QueueNext
    <1> QED
        BY <1>1, QueueInit, TypeCorrect, PTL DEF Spec

(* No refinement is lost: its text is in the content, or a job that covers *)
(* it is waiting, whatever commands, workers and crashes interleave.       *)
THEOREM NoLostRefinement == ReadFailures = FALSE => (Spec => []RefinementNotLost)
    <1> SUFFICES ASSUME ReadFailures = FALSE
                 PROVE  Spec => []RefinementNotLost
        OBVIOUS
    <1>1. TypeOK /\ QueueInv => RefinementNotLost
        <2> SUFFICES ASSUME TypeOK, QueueInv, NEW i \in Issues, NEW n \in Defining(i)
                     PROVE  n \in content[i].texts \/ job[i].target >= n
            BY DEF RefinementNotLost
        <2>1. IssueInv(i) /\ n \in 1 .. enrichment[i].target
            BY DEF QueueInv, IssueInv
        <2>2. enrichment[i].target \in Nat /\ job[i].target \in Nat
            BY QueueAssumption DEF TypeOK
        <2> QED
            BY <2>1, <2>2 DEF IssueInv
    <1> QED
        BY <1>1, QueueInvariant, TypeCorrect, PTL

(* The projection an issue shows and the job table agree. *)
THEOREM QueueAndStatusAgree == ReadFailures = FALSE => (Spec => []QueueMatchesStatus)
    <1> SUFFICES ASSUME ReadFailures = FALSE
                 PROVE  Spec => []QueueMatchesStatus
        OBVIOUS
    <1>1. QueueInv => QueueMatchesStatus
        BY DEF QueueInv, IssueInv, QueueMatchesStatus
    <1> QED
        BY <1>1, QueueInvariant, PTL

(* An issue shown as complete covers every report and refinement. *)
THEOREM CompleteMeansCurrent == ReadFailures = FALSE => (Spec => []CompleteIsCurrent)
    <1> SUFFICES ASSUME ReadFailures = FALSE
                 PROVE  Spec => []CompleteIsCurrent
        OBVIOUS
    <1>1. QueueInv => CompleteIsCurrent
        BY DEF QueueInv, IssueInv, CompleteIsCurrent
    <1> QED
        BY <1>1, QueueInvariant, PTL

(* Content only grows: the invariant says it never holds more than the     *)
(* target, and a worker writes all of a target that is still current.      *)
THEOREM NoRegression == ReadFailures = FALSE => (Spec => ContentNeverRegresses)
    <1> SUFFICES ASSUME ReadFailures = FALSE
                 PROVE  Spec => ContentNeverRegresses
        OBVIOUS
    <1>1. ASSUME TypeOK, QueueInv, [Next]_vars, NEW k \in Issues
          PROVE  content[k].texts \subseteq content'[k].texts
        <2>1. CASE content' = content
            BY <2>1
        <2>2. ASSUME NEW new \in SUBSET Issues, NEW status \in Status, SaveIssues(new, status)
              PROVE  content[k].texts \subseteq content'[k].texts
            <3>1. CASE k \in new
                <4>1. IssueInv(k) /\ ~Exists(k)
                    BY <1>1, <2>2, <3>1 DEF SaveIssues, QueueInv
                <4>2. enrichment[k].target = 0
                    BY <1>1, <4>1, AbsentIssue
                <4> QED
                    BY <4>1, <4>2 DEF IssueInv
            <3>2. CASE k \notin new
                BY <2>2, <3>2 DEF SaveIssues
            <3> QED
                BY <3>1, <3>2
        <2>3. ASSUME NEW w \in Workers, ApplyJob(w)
              PROVE  content[k].texts \subseteq content'[k].texts
            <3> DEFINE i == claim[w].issue
            <3>1. /\ i \in Issues
                  /\ claim[w].texts = 1 .. claim[w].target
                  /\ enrichment[i].target = claim[w].target
                  /\ content[i].texts \subseteq 1 .. enrichment[i].target
                BY <1>1, <2>3 DEF ApplyJob, StillWanted, QueueInv, WorkerInv, IssueInv, Busy
            <3>2. CASE k = i
                <4>1. content'[k].texts = claim[w].texts
                    BY <1>1, <2>3, <3>2 DEF ApplyJob, TypeOK
                <4> QED
                    BY <3>1, <3>2, <4>1
            <3>3. CASE k # i
                BY <1>1, <2>3, <3>3 DEF ApplyJob, TypeOK
            <3> QED
                BY <3>2, <3>3
        <2>4. CASE Command
            <3>1. \/ content' = content
                  \/ \E new \in SUBSET Issues, status \in Status : SaveIssues(new, status)
                BY <2>4 DEF Command, Create, Refine, ReEnrich, Progress, Assign, Close, Reopen,
                            Combine, Split, Status
            <3> QED
                BY <2>1, <2>2, <3>1
        <2>5. ASSUME NEW w \in Workers, WorkerStep(w) \/ Stop(w) \/ Restart(w)
              PROVE  content[k].texts \subseteq content'[k].texts
            <3>1. ApplyJob(w) \/ content' = content
                BY <2>5 DEF WorkerStep, Claim, Load, LoadFails, AnalysisSucceeds, AnalysisFails,
                            FailJob, DropJob, Stop, Restart
            <3> QED
                BY <2>1, <2>3, <3>1
        <2>6. CASE \/ \E i \in Issues : LeaseExpires(i)
                   \/ CatalogImproves
                   \/ UNCHANGED vars
            BY <2>6 DEF LeaseExpires, CatalogImproves, vars
        <2> QED
            BY <1>1, <2>4, <2>5, <2>6 DEF Next
    <1>2. TypeOK /\ QueueInv /\ [Next]_vars =>
              [\A i \in Issues : content[i].texts \subseteq content'[i].texts]_vars
        BY <1>1
    <1> QED
        BY <1>2, QueueInvariant, TypeCorrect, PTL DEF Spec, ContentNeverRegresses

(* A job row leaves the table only in the transaction that completes the   *)
(* issue for the row's target and writes that target's snapshot.           *)
THEOREM JobsLeaveDone == ReadFailures = FALSE => (Spec => JobGoesOnlyWhenDone)
    <1> SUFFICES ASSUME ReadFailures = FALSE
                 PROVE  Spec => JobGoesOnlyWhenDone
        OBVIOUS
    <1> DEFINE Done(k) == /\ enrichment'[k] = [status |-> "complete", target |-> job[k].target]
                          /\ job[k].target \in snapshots'[k]
    <1>1. ASSUME TypeOK, QueueInv, [Next]_vars, NEW k \in Issues,
                 job[k].target # 0, job'[k].target = 0
          PROVE  Done(k)
        <2>1. job[k].target \in Nat /\ IssueInv(k)
            BY <1>1, Targets DEF QueueInv
        <2>2. CASE Command
            <3>1. PICK i \in Issues : \/ Create(i) \/ Refine(i) \/ ReEnrich(i)
                                      \/ UNCHANGED job
                BY <2>2 DEF Command, Progress, Assign, Close, Reopen, Combine, Split
            <3>2. CASE Create(i)
                <4>1. IssueInv(i) /\ ~Exists(i)
                    BY <1>1, <3>2 DEF Create, SaveIssues, QueueInv
                <4>2. i # k
                    BY <1>1, <2>1, <4>1, AbsentIssue
                <4> QED
                    BY <1>1, <3>2, <4>2 DEF Create, TypeOK
            <3>3. CASE Refine(i)
                <4>1. job'[i] = Enqueued(job[i], Len(discussion[i]) + 1)
                    BY <1>1, <3>3 DEF Refine, TypeOK
                <4>2. job[i].target \in Nat /\ Len(discussion[i]) \in Nat
                    BY <1>1, Targets
                <4>3. job'[i].target # 0
                    BY <4>1, <4>2 DEF Enqueued
                <4> QED
                    BY <1>1, <3>3, <4>3 DEF Refine, TypeOK
            <3>4. CASE ReEnrich(i)
                <4>1. job'[i] = Enqueued(job[i], enrichment[i].target)
                    BY <1>1, <3>4 DEF ReEnrich, TypeOK
                <4>2. /\ job[i].target \in Nat /\ enrichment[i].target \in Nat
                      /\ enrichment[i].target > 0
                    BY <1>1, <3>4, Targets DEF ReEnrich, QueueInv, IssueInv, Exists
                <4>3. job'[i].target # 0
                    BY <4>1, <4>2 DEF Enqueued
                <4> QED
                    BY <1>1, <3>4, <4>3 DEF ReEnrich, TypeOK
            <3> QED
                BY <1>1, <3>1, <3>2, <3>3, <3>4
        <2>3. ASSUME NEW w \in Workers, WorkerStep(w) \/ Stop(w) \/ Restart(w)
              PROVE  Done(k)
            <3> DEFINE i == claim[w].issue
            <3>1. ASSUME NEW m \in Issues, Claim(w, m)
                  PROVE  FALSE
                BY <1>1, <3>1 DEF Claim, TypeOK
            <3>2. CASE UNCHANGED job
                BY <1>1, <3>2
            <3>3. CASE ApplyJob(w)
                <4>1. /\ i \in Issues
                      /\ enrichment[i].target = claim[w].target
                    BY <1>1, <3>3 DEF ApplyJob, StillWanted, QueueInv, WorkerInv, Busy
                <4>2. k = i
                    BY <1>1, <3>3, <4>1 DEF ApplyJob, CompleteJob, TypeOK
                <4>3. job[k].target = claim[w].target
                    BY <1>1, <2>1, <4>1, <4>2 DEF IssueInv
                <4> QED
                    BY <1>1, <3>3, <4>2, <4>3 DEF ApplyJob, TypeOK
            <3>4. CASE FailJob(w)
                <4>1. i \in Issues
                    BY <1>1, <3>4 DEF FailJob, QueueInv, WorkerInv, Busy
                <4>2. Retried(job[i], claim[w].target).target = job[i].target
                    BY <1>1, <4>1 DEF Retried, TypeOK
                <4> QED
                    BY <1>1, <3>4, <4>1, <4>2 DEF FailJob, TypeOK
            <3>5. CASE DropJob(w)
                <4>1. i \in Issues /\ enrichment[i].target # claim[w].target
                    BY <1>1, <3>5, Targets
                    DEF DropJob, StillWanted, QueueInv, WorkerInv, Busy
                <4>2. job[i].target # 0 => Completed(job[i], claim[w].target) = job[i]
                    BY <1>1, <4>1 DEF QueueInv, IssueInv, Completed
                <4> QED
                    BY <1>1, <3>5, <4>1, <4>2 DEF DropJob, CompleteJob, TypeOK
            <3> QED
                BY <2>3, <3>1, <3>2, <3>3, <3>4, <3>5
                DEF WorkerStep, Load, LoadFails, AnalysisSucceeds, AnalysisFails, Stop, Restart
        <2>4. ASSUME NEW i \in Issues, LeaseExpires(i)
              PROVE  FALSE
            BY <1>1, <2>4 DEF LeaseExpires, TypeOK
        <2>5. CASE CatalogImproves \/ UNCHANGED vars
            BY <1>1, <2>5 DEF CatalogImproves, vars
        <2> QED
            BY <1>1, <2>2, <2>3, <2>4, <2>5 DEF Next
    <1>2. TypeOK /\ QueueInv /\ [Next]_vars =>
              [\A i \in Issues :
                  job[i].target # 0 /\ job'[i].target = 0 =>
                      /\ enrichment'[i] = [status |-> "complete", target |-> job[i].target]
                      /\ job[i].target \in snapshots'[i]]_vars
        BY <1>1
    <1> QED
        BY <1>2, QueueInvariant, TypeCorrect, PTL DEF Spec, JobGoesOnlyWhenDone

(* Why a re-enrichment is honoured: no analysis of the current target is   *)
(* older than the request, and what does not exist has none.               *)
Recent(w) ==
    pc[w] \in {"analyzing", "apply"}
      /\ claim[w].target = enrichment[claim[w].issue].target
        => claim[w].catalog >= asked[claim[w].issue]

AskedInv ==
    /\ ReEnrichIsHonoured
    /\ \A i \in Issues : asked[i] <= catalog /\ (~Exists(i) => asked[i] = 0)
    /\ \A w \in Workers : Recent(w)

(* No issue's request, and no worker's analysis, is disturbed by a step    *)
(* that changes neither and makes no analysis current again.               *)
LEMMA AskedUntouched ==
    ASSUME TypeOK, QueueInv, AskedInv, UNCHANGED <<pc, claim, asked, catalog>>,
           \A k \in Issues :
              /\ Exists(k) => Exists(k)'
              /\ \/ enrichment'[k].target = enrichment[k].target
                 \/ enrichment'[k].target > Len(discussion[k])
                 \/ ~Exists(k)
              /\ enrichment'[k].status = "complete" =>
                    content'[k].catalog >= asked[k]
    PROVE  AskedInv'
    <1>1. ReEnrichIsHonoured'
        BY DEF ReEnrichIsHonoured
    <1>2. ASSUME NEW w \in Workers
          PROVE  Recent(w)'
        <2>1. SUFFICES ASSUME pc[w] \in {"analyzing", "apply"}
                       PROVE  Recent(w)'
            BY DEF Recent
        <2> DEFINE i == claim[w].issue
        <2>2. /\ i \in Issues /\ claim[w].target \in 1 .. enrichment[i].target
              /\ IssueInv(i)
            BY <2>1 DEF QueueInv, WorkerInv, Busy
        <2>3. /\ enrichment[i].target \in Nat /\ Len(discussion[i]) \in Nat
              /\ claim[w].catalog \in Nat
            BY <2>2, Targets DEF TypeOK
        <2>4. Exists(i) /\ claim[w].target <= Len(discussion[i])
            BY <2>2, <2>3 DEF IssueInv
        <2>5. claim[w].target = enrichment'[i].target =>
                  claim[w].target = enrichment[i].target
            BY <2>2, <2>3, <2>4
        <2> QED
            BY <2>2, <2>5 DEF Recent, AskedInv
    <1> QED
        BY <1>1, <1>2 DEF AskedInv

(* Commands other than a re-enrichment leave analyses and requests alone,  *)
(* give issues a new target or none, and complete new issues only.         *)
LEMMA AskedCommand ==
    ASSUME TypeOK, TypeOK', QueueInv, AskedInv, Command
    PROVE  AskedInv'
    <1>0. PICK i \in Issues :
              \/ Create(i) \/ Refine(i) \/ ReEnrich(i) \/ Progress(i)
              \/ Assign(i) \/ Close(i) \/ Reopen(i)
              \/ \E sources \in SUBSET Issues : Combine(sources, i)
              \/ \E children \in SUBSET Issues, closeSource \in BOOLEAN :
                    Split(i, children, closeSource)
        BY DEF Command
    <1>1. \A k \in Issues :
             /\ enrichment[k].status = "complete" => content[k].catalog >= asked[k]
             /\ ~Exists(k) => asked[k] = 0
             /\ asked[k] \in Nat /\ catalog \in Nat /\ content[k].catalog \in Nat
        <2>1. \A k \in Issues :
                 /\ enrichment[k].status = "complete" => content[k].catalog >= asked[k]
                 /\ ~Exists(k) => asked[k] = 0
            BY DEF AskedInv, ReEnrichIsHonoured
        <2>2. \A k \in Issues : asked[k] \in Nat /\ catalog \in Nat
            BY QueueAssumption DEF TypeOK
        <2>3. \A k \in Issues : content[k].catalog \in Nat
            BY QueueAssumption DEF TypeOK
        <2> QED
            BY <2>1, <2>2, <2>3
    <1>2. ASSUME NEW new \in SUBSET Issues, NEW status \in Status, SaveIssues(new, status),
                 \A k \in Issues : Exists(k) => Exists(k)',
                 UNCHANGED <<pc, claim, asked, catalog>>
          PROVE  AskedInv'
        <2>1. ASSUME NEW k \in Issues
              PROVE  /\ enrichment'[k].target = enrichment[k].target \/ ~Exists(k)
                     /\ enrichment'[k].status = "complete" => content'[k].catalog >= asked[k]
            <3>1. CASE k \in new
                <4>1. content'[k].catalog = 0 /\ ~Exists(k)
                    BY <1>2, <3>1 DEF SaveIssues
                <4> QED
                    BY <1>1, <4>1
            <3>2. CASE k \notin new
                BY <1>1, <1>2, <3>2 DEF SaveIssues
            <3> QED
                BY <3>1, <3>2
        <2> QED
            BY <1>2, <2>1, AskedUntouched
    <1>3. CASE Create(i)
        <2>1. {i} \in SUBSET Issues /\ "pending" \in Status /\ SaveIssues({i}, "pending")
            BY <1>3 DEF Create, Status
        <2>2. (\A k \in Issues : Exists(k) => Exists(k)') /\ UNCHANGED <<pc, claim, asked, catalog>>
            BY <1>3 DEF Create, Exists, TypeOK, workerVars
        <2> QED
            BY <1>2, <2>1, <2>2
    <1>4. CASE Refine(i)
        <2>1. /\ UNCHANGED <<pc, claim, asked, catalog, lifecycle, content>>
              /\ enrichment'[i] = [status |-> "pending", target |-> Len(discussion[i]) + 1]
              /\ \A m \in Issues \ {i} : enrichment'[m] = enrichment[m]
            BY <1>4 DEF Refine, workerVars, TypeOK
        <2>2. \A k \in Issues :
                 /\ Exists(k) => Exists(k)'
                 /\ \/ enrichment'[k].target = enrichment[k].target
                    \/ enrichment'[k].target > Len(discussion[k])
                 /\ enrichment'[k].status = "complete" => content'[k].catalog >= asked[k]
            BY <1>1, <2>1, Targets DEF Exists
        <2> QED
            BY <2>1, <2>2, AskedUntouched
    <1>5. CASE ReEnrich(i)
        <2>1. /\ UNCHANGED <<pc, claim, catalog, lifecycle, content>>
              /\ enrichment'[i].status = "pending"
              /\ \A m \in Issues : enrichment'[m].target = enrichment[m].target
              /\ \A m \in Issues \ {i} : enrichment'[m] = enrichment[m] /\ asked'[m] = asked[m]
              /\ asked'[i] = IF UnderWay(i) THEN asked[i] ELSE catalog
              /\ Exists(i)
            BY <1>5 DEF ReEnrich, TypeOK, workerVars, Exists
        <2>2. ReEnrichIsHonoured'
            BY <1>1, <2>1 DEF ReEnrichIsHonoured
        <2>3. \A m \in Issues : asked'[m] <= catalog' /\ (~Exists(m)' => asked'[m] = 0)
            BY <1>1, <2>1 DEF AskedInv, Exists
        <2>4. ASSUME NEW w \in Workers
              PROVE  Recent(w)'
            <3>1. SUFFICES ASSUME pc[w] \in {"analyzing", "apply"},
                                  claim[w].target = enrichment[claim[w].issue].target
                           PROVE  claim[w].catalog >= asked'[claim[w].issue]
                BY <2>1 DEF Recent, QueueInv, WorkerInv, Busy
            <3>2. /\ claim[w].issue \in Issues /\ claim[w].catalog \in Nat
                  /\ claim[w].catalog >= asked[claim[w].issue]
                <4>1. claim[w].issue \in Issues
                    BY <3>1 DEF QueueInv, WorkerInv, Busy
                <4>2. claim[w].catalog \in Nat
                    BY QueueAssumption DEF TypeOK
                <4> QED
                    BY <3>1, <4>1, <4>2 DEF AskedInv, Recent
            <3>3. CASE claim[w].issue = i /\ ~UnderWay(i)
                <4>1. ~(claim[w].catalog < catalog)
                    BY <3>1, <3>3 DEF UnderWay
                <4> QED
                    BY <1>1, <2>1, <3>2, <3>3, <4>1
            <3>4. CASE ~(claim[w].issue = i /\ ~UnderWay(i))
                BY <2>1, <3>2, <3>4
            <3> QED
                BY <3>3, <3>4
        <2> QED
            BY <2>2, <2>3, <2>4 DEF AskedInv
    <1>6. CASE Progress(i) \/ Assign(i) \/ Close(i) \/ Reopen(i)
        <2>1. /\ UNCHANGED <<pc, claim, asked, catalog, enrichment, content>>
              /\ \A k \in Issues : Exists(k) => Exists(k)'
            BY <1>6 DEF Progress, Assign, Close, Reopen, workerVars, Exists, TypeOK
        <2> QED
            BY <1>1, <2>1, AskedUntouched
    <1>7. ASSUME NEW sources \in SUBSET Issues, Combine(sources, i)
          PROVE  AskedInv'
        <2>1. {i} \in SUBSET Issues /\ "complete" \in Status /\ SaveIssues({i}, "complete")
            BY <1>7 DEF Combine, Status
        <2>2. (\A k \in Issues : Exists(k) => Exists(k)') /\ UNCHANGED <<pc, claim, asked, catalog>>
            BY <1>7 DEF Combine, Exists, workerVars
        <2> QED
            BY <1>2, <2>1, <2>2
    <1>8. ASSUME NEW children \in SUBSET Issues, NEW closeSource \in BOOLEAN,
                 Split(i, children, closeSource)
          PROVE  AskedInv'
        <2>1. "complete" \in Status /\ SaveIssues(children, "complete")
            BY <1>8 DEF Split, Status
        <2>2. (\A k \in Issues : Exists(k) => Exists(k)') /\ UNCHANGED <<pc, claim, asked, catalog>>
            BY <1>8 DEF Split, Exists, workerVars
        <2> QED
            BY <1>2, <2>1, <2>2
    <1> QED
        BY <1>0, <1>3, <1>4, <1>5, <1>6, <1>7, <1>8

(* A worker loads with the catalog of now, and applies only what is        *)
(* current.                                                                *)
LEMMA AskedWorker ==
    ASSUME TypeOK, TypeOK', QueueInv, AskedInv, ReadFailures = FALSE, NEW w \in Workers,
           WorkerStep(w) \/ Stop(w) \/ Restart(w)
    PROVE  AskedInv'
    <1> DEFINE i == claim[w].issue
    <1>1. \A k \in Issues :
             /\ enrichment[k].status = "complete" => content[k].catalog >= asked[k]
             /\ ~Exists(k) => asked[k] = 0
             /\ asked[k] <= catalog
             /\ asked[k] \in Nat /\ catalog \in Nat /\ content[k].catalog \in Nat
        BY QueueAssumption, SMTT(30) DEF AskedInv, ReEnrichIsHonoured, TypeOK
    <1>2. UNCHANGED <<lifecycle, discussion, asked, catalog>>
        BY DEF WorkerStep, Claim, Load, LoadFails, AnalysisSucceeds, AnalysisFails,
               ApplyJob, FailJob, DropJob, Stop, Restart, issueVars
    <1>3. \A v \in Workers \ {w} : pc'[v] = pc[v] /\ claim'[v] = claim[v]
        BY OthersStay
    <1>4. /\ \A k \in Issues : enrichment'[k].target = enrichment[k].target
          /\ \A k \in Issues : enrichment'[k].status = "complete" =>
                content'[k].catalog >= asked[k]
        <2>1. CASE ApplyJob(w)
            <3>1. /\ i \in Issues /\ enrichment[i].target = claim[w].target
                  /\ claim[w].catalog >= asked[i]
                BY <2>1 DEF ApplyJob, StillWanted, QueueInv, WorkerInv, Busy, AskedInv, Recent
            <3>2. /\ content'[i].catalog = claim[w].catalog
                  /\ enrichment'[i].target = claim[w].target
                  /\ \A k \in Issues \ {i} :
                        enrichment'[k] = enrichment[k] /\ content'[k] = content[k]
                BY <2>1, <3>1 DEF ApplyJob, TypeOK
            <3> QED
                BY <1>1, <3>1, <3>2
        <2>2. CASE FailJob(w)
            <3>1. i \in Issues
                BY <2>2 DEF FailJob, QueueInv, WorkerInv, Busy
            <3>2. /\ content' = content /\ enrichment'[i].status = "failed"
                  /\ enrichment'[i].target = enrichment[i].target
                  /\ \A k \in Issues \ {i} : enrichment'[k] = enrichment[k]
                BY <2>2, <3>1 DEF FailJob, TypeOK
            <3> QED
                BY <1>1, <3>1, <3>2
        <2>3. CASE UNCHANGED <<enrichment, content>>
            BY <1>1, <2>3
        <2> QED
            BY <2>1, <2>2, <2>3
            DEF WorkerStep, Claim, Load, LoadFails, AnalysisSucceeds, AnalysisFails,
                DropJob, Stop, Restart
    <1>5. ASSUME NEW v \in Workers
          PROVE  Recent(v)'
        <2>1. CASE v # w
            <3>1. SUFFICES ASSUME pc[v] \in {"analyzing", "apply"}
                           PROVE  Recent(v)'
                BY <1>3, <2>1 DEF Recent
            <3>2. claim[v].issue \in Issues
                BY <3>1 DEF QueueInv, WorkerInv, Busy
            <3> QED
                BY <1>2, <1>3, <1>4, <2>1, <3>2 DEF Recent, AskedInv
        <2>2. CASE v = w
            <3>1. CASE Load(w)
                <4>1. i \in Issues
                    BY <3>1 DEF Load, QueueInv, WorkerInv, Busy
                <4>2. CASE pc'[w] = "analyzing"
                    <5>1. claim'[w].issue = i /\ claim'[w].catalog = catalog
                        BY <3>1, <4>2 DEF Load, TypeOK
                    <5> QED
                        BY <1>1, <1>2, <2>2, <4>1, <5>1 DEF Recent
                <4>3. CASE pc'[w] = "drop"
                    BY <2>2, <4>3 DEF Recent
                <4> QED
                    BY <3>1, <4>2, <4>3 DEF Load, TypeOK
            <3>2. CASE AnalysisSucceeds(w)
                <4>1. /\ pc[w] = "analyzing" /\ claim' = claim
                      /\ UNCHANGED <<enrichment, asked>>
                    BY <3>2 DEF AnalysisSucceeds, issueVars
                <4> QED
                    BY <2>2, <4>1 DEF Recent, AskedInv
            <3>3. CASE pc'[w] \notin {"analyzing", "apply"}
                BY <2>2, <3>3 DEF Recent
            <3> QED
                BY <3>1, <3>2, <3>3
                DEF WorkerStep, Claim, LoadFails, AnalysisFails, ApplyJob, FailJob, DropJob,
                    Finish, Stop, Restart, TypeOK
        <2> QED
            BY <2>1, <2>2
    <1> QED
        BY <1>1, <1>2, <1>4, <1>5 DEF AskedInv, ReEnrichIsHonoured, Exists

(* A request to enrich again with a better catalog is honoured: no older   *)
(* analysis that comes back late completes the issue without it.           *)
THEOREM ReEnrichHonoured == ReadFailures = FALSE => (Spec => []ReEnrichIsHonoured)
    <1> SUFFICES ASSUME ReadFailures = FALSE
                 PROVE  Spec => []ReEnrichIsHonoured
        OBVIOUS
    <1>1. Init => AskedInv
        BY DEF Init, AskedInv, ReEnrichIsHonoured, Recent
    <1>2. ASSUME TypeOK, TypeOK', QueueInv, AskedInv, [Next]_vars
          PROVE  AskedInv'
        <2>1. ASSUME NEW w \in Workers, WorkerStep(w) \/ Stop(w) \/ Restart(w)
              PROVE  AskedInv'
            BY <1>2, <2>1, AskedWorker
        <2>2. CASE (\E i \in Issues : LeaseExpires(i)) \/ UNCHANGED vars
            <3>1. UNCHANGED <<lifecycle, enrichment, content, pc, claim, asked, catalog>>
                BY <2>2 DEF LeaseExpires, vars, issueVars, workerVars
            <3> QED
                BY <1>2, <3>1 DEF AskedInv, ReEnrichIsHonoured, Recent, Exists
        <2>3. CASE CatalogImproves
            <3>1. /\ UNCHANGED <<lifecycle, enrichment, content, pc, claim, asked>>
                  /\ catalog' = catalog + 1 /\ catalog \in Nat
                  /\ \A i \in Issues : asked[i] \in Nat
                BY <1>2, <2>3 DEF CatalogImproves, issueVars, workerVars, TypeOK
            <3>2. \A i \in Issues : asked'[i] <= catalog' /\ (~Exists(i)' => asked'[i] = 0)
                BY <1>2, <3>1 DEF AskedInv, Exists
            <3> QED
                BY <1>2, <3>1, <3>2 DEF AskedInv, ReEnrichIsHonoured, Recent
        <2> QED
            BY <1>2, <2>1, <2>2, <2>3, AskedCommand DEF Next
    <1>3. TypeOK /\ TypeOK' /\ QueueInv /\ AskedInv /\ [Next]_vars => AskedInv'
        BY <1>2
    <1>4. AskedInv => ReEnrichIsHonoured
        BY DEF AskedInv
    <1> QED
        BY <1>1, <1>3, <1>4, QueueInvariant, TypeCorrect, PTL DEF Spec

-----------------------------------------------------------------------------
(* Failed issues and one worker.                                           *)

(* A worker that is at the target an issue shows holds the issue's job: it *)
(* claimed a row, and only an apply or a newer post takes it away.         *)
Holds(w) ==
    Busy(w) /\ claim[w].target = enrichment[claim[w].issue].target =>
        job[claim[w].issue].target # 0

RetryInv == FailedIsRetried /\ \A w \in Workers : Holds(w)

(* A step of anybody but a worker takes no job away, shows nothing as      *)
(* failed, and leaves a job where it changes the target of an issue.       *)
LEMMA CommandKeepsJobs ==
    ASSUME TypeOK, QueueInv, Command, NEW k \in Issues
    PROVE  /\ job[k].target # 0 => job'[k].target # 0
           /\ enrichment'[k].status = "failed" => enrichment[k].status = "failed"
           /\ \/ enrichment'[k].target = enrichment[k].target
              \/ enrichment[k].target = 0
              \/ job'[k].target # 0
           /\ UNCHANGED <<pc, claim>>
    <1>0. PICK i \in Issues :
              \/ Create(i) \/ Refine(i) \/ ReEnrich(i) \/ Progress(i)
              \/ Assign(i) \/ Close(i) \/ Reopen(i)
              \/ \E sources \in SUBSET Issues : Combine(sources, i)
              \/ \E children \in SUBSET Issues, closeSource \in BOOLEAN :
                    Split(i, children, closeSource)
        BY DEF Command
    <1>1. /\ \A m \in Issues : /\ enrichment[m].target \in Nat /\ job[m].target \in Nat
                              /\ Len(discussion[m]) \in Nat /\ IssueInv(m)
          /\ job \in [Issues -> [target : 0 .. MaxPosts, due : BOOLEAN]]
          /\ enrichment \in [Issues -> [status : Status, target : 0 .. MaxPosts]]
        BY Targets DEF QueueInv, TypeOK
    <1>2. ASSUME NEW new \in SUBSET Issues, NEW status \in {"pending", "complete"},
                 SaveIssues(new, status)
          PROVE  /\ enrichment'[k].status = "failed" => enrichment[k].status = "failed"
                 /\ enrichment'[k].target = enrichment[k].target \/ enrichment[k].target = 0
        <2>1. CASE k \in new
            BY <1>1, <1>2, <2>1, AbsentIssue DEF SaveIssues
        <2>2. CASE k \notin new
            BY <1>2, <2>2 DEF SaveIssues
        <2> QED
            BY <2>1, <2>2
    <1>3. CASE Create(i)
        <2>1. /\ SaveIssues({i}, "pending") /\ {i} \in SUBSET Issues /\ UNCHANGED <<pc, claim>>
              /\ job' = [job EXCEPT ![i] = Enqueued(@, 1)]
            BY <1>3 DEF Create, workerVars
        <2>2. job[k].target # 0 => job'[k].target # 0
            BY <1>1, <2>1 DEF Enqueued
        <2> QED
            BY <1>2, <2>1, <2>2
    <1>4. CASE Refine(i)
        <2>1. /\ enrichment'[i] = [status |-> "pending", target |-> Len(discussion[i]) + 1]
              /\ job'[i] = Enqueued(job[i], Len(discussion[i]) + 1)
              /\ \A m \in Issues \ {i} : enrichment'[m] = enrichment[m] /\ job'[m] = job[m]
              /\ UNCHANGED <<pc, claim>>
            BY <1>1, <1>4 DEF Refine, workerVars
        <2>2. job'[i].target # 0
            BY <1>1, <2>1 DEF Enqueued
        <2> QED
            BY <2>1, <2>2
    <1>5. CASE ReEnrich(i)
        <2>1. /\ enrichment'[i].status = "pending" /\ enrichment'[i].target = enrichment[i].target
              /\ job'[i] = Enqueued(job[i], enrichment[i].target)
              /\ \A m \in Issues \ {i} : enrichment'[m] = enrichment[m] /\ job'[m] = job[m]
              /\ UNCHANGED <<pc, claim>>
            BY <1>1, <1>5 DEF ReEnrich, workerVars
        <2>2. job[i].target # 0 => job'[i].target # 0
            BY <1>1, <2>1 DEF Enqueued
        <2> QED
            BY <2>1, <2>2
    <1>6. CASE Progress(i) \/ Assign(i) \/ Close(i) \/ Reopen(i)
        BY <1>6 DEF Progress, Assign, Close, Reopen, workerVars
    <1>7. ASSUME NEW sources \in SUBSET Issues, Combine(sources, i)
          PROVE  /\ SaveIssues({i}, "complete") /\ {i} \in SUBSET Issues
                 /\ UNCHANGED <<job, pc, claim>>
        BY <1>7 DEF Combine, workerVars
    <1>8. ASSUME NEW children \in SUBSET Issues, NEW closeSource \in BOOLEAN,
                 Split(i, children, closeSource)
          PROVE  SaveIssues(children, "complete") /\ UNCHANGED <<job, pc, claim>>
        BY <1>8 DEF Split, workerVars
    <1> QED
        BY <1>0, <1>2, <1>3, <1>4, <1>5, <1>6, <1>7, <1>8

(* The only worker fails an issue while it holds the issue's job, and      *)
(* drops a job only when that is for another target.                       *)
LEMMA WorkerKeepsJobs ==
    ASSUME TypeOK, TypeOK', QueueInv, QueueInv', RetryInv, ReadFailures = FALSE,
           NEW w \in Workers, \A v \in Workers : v = w,
           WorkerStep(w) \/ Stop(w) \/ Restart(w)
    PROVE  RetryInv'
    <1> DEFINE i == claim[w].issue
    <1>1. /\ job \in [Issues -> [target : 0 .. MaxPosts, due : BOOLEAN]]
          /\ enrichment \in [Issues -> [status : Status, target : 0 .. MaxPosts]]
          /\ pc \in [Workers -> WorkerPC] /\ w \in DOMAIN claim
        BY DEF TypeOK
    <1>2. Busy(w) => i \in Issues
        BY DEF QueueInv, WorkerInv
    <1>3. SUFFICES FailedIsRetried' /\ Holds(w)'
        BY DEF RetryInv
    <1>4. ASSUME NEW k \in Issues, Claim(w, k)
          PROVE  FailedIsRetried' /\ Holds(w)'
        <2>1. /\ \A m \in Issues : job'[m].target = job[m].target
              /\ enrichment' = enrichment /\ claim'[w].issue = k /\ job[k].target > 0
            BY <1>1, <1>4 DEF Claim, TypeOK
        <2> QED
            BY <1>1, <2>1 DEF RetryInv, FailedIsRetried, Holds
    <1>5. CASE Load(w)
        <2>1. /\ UNCHANGED <<job, enrichment>> /\ claim'[w].issue = i
              /\ claim'[w].target = claim[w].target /\ Busy(w)
            BY <1>5 DEF Load, Busy, TypeOK
        <2> QED
            BY <2>1 DEF RetryInv, FailedIsRetried, Holds
    <1>6. CASE AnalysisSucceeds(w) \/ AnalysisFails(w)
        BY <1>6 DEF AnalysisSucceeds, AnalysisFails, RetryInv, FailedIsRetried, Holds, Busy
    <1>7. CASE Stop(w) \/ Restart(w)
        <2>1. UNCHANGED <<job, enrichment>> /\ pc'[w] \in {"idle", "stopped"}
            BY <1>1, <1>7 DEF Stop, Restart
        <2> QED
            BY <2>1 DEF RetryInv, FailedIsRetried, Holds, Busy
    <1>8. CASE ApplyJob(w) \/ FailJob(w) \/ DropJob(w)
        <2>1. pc'[w] = "idle" /\ Busy(w) /\ i \in Issues
            BY <1>1, <1>2, <1>8 DEF ApplyJob, FailJob, DropJob, Finish, Busy
        <2>2. Holds(w)'
            BY <2>1 DEF Holds, Busy
        <2>3. CASE ApplyJob(w)
            <3>1. /\ enrichment'[i].status = "complete"
                  /\ \A m \in Issues \ {i} : enrichment'[m] = enrichment[m] /\ job'[m] = job[m]
                BY <1>1, <2>1, <2>3 DEF ApplyJob, CompleteJob
            <3> QED
                BY <2>2, <3>1 DEF RetryInv, FailedIsRetried
        <2>4. CASE FailJob(w)
            <3>1. job[i].target # 0
                BY <2>1, <2>4 DEF FailJob, StillWanted, RetryInv, Holds
            <3>2. /\ job'[i].target = job[i].target
                  /\ \A m \in Issues \ {i} : enrichment'[m] = enrichment[m] /\ job'[m] = job[m]
                BY <1>1, <2>1, <2>4 DEF FailJob, Retried
            <3> QED
                BY <2>2, <3>1, <3>2 DEF RetryInv, FailedIsRetried
        <2>5. CASE DropJob(w)
            <3>1. claim[w].target # enrichment[i].target
                <4>1. /\ claim[w].target \in 1 .. enrichment[i].target
                      /\ pc[w] = "drop" => claim[w].target < enrichment[i].target
                      /\ enrichment[i].target \in Nat
                    BY <2>1, Targets DEF QueueInv, WorkerInv
                <4> QED
                    BY <2>5, <4>1 DEF DropJob, StillWanted
            <3>2. job[i].target # claim[w].target \/ job[i].target = 0
                BY <2>1, <3>1 DEF QueueInv, IssueInv
            <3>3. \A m \in Issues : job[m].target # 0 => job'[m] = job[m]
                BY <1>1, <2>1, <2>5, <3>2 DEF DropJob, CompleteJob, Completed
            <3>4. enrichment' = enrichment
                BY <2>5 DEF DropJob
            <3> QED
                BY <2>2, <3>3, <3>4 DEF RetryInv, FailedIsRetried
        <2> QED
            BY <1>8, <2>3, <2>4, <2>5
    <1> QED
        BY <1>4, <1>5, <1>6, <1>7, <1>8 DEF WorkerStep, LoadFails

(* An issue shown as failed has a job that will retry it ("enrichment      *)
(* failed, scheduling retry"), with one worker, whatever it is doing when  *)
(* commands, crashes and expiring leases come in between.                  *)
THEOREM RetryIsScheduled ==
    ReadFailures = FALSE /\ (\A v, w \in Workers : v = w) => (Spec => []FailedIsRetried)
    <1> SUFFICES ASSUME ReadFailures = FALSE, \A v, w \in Workers : v = w
                 PROVE  Spec => []FailedIsRetried
        OBVIOUS
    <1>1. Init => RetryInv
        BY DEF Init, RetryInv, FailedIsRetried, Holds, Busy
    <1>2. ASSUME TypeOK, TypeOK', QueueInv, QueueInv', RetryInv, [Next]_vars
          PROVE  RetryInv'
        <2>1. ASSUME NEW w \in Workers, WorkerStep(w) \/ Stop(w) \/ Restart(w)
              PROVE  RetryInv'
            <3>1. \A v \in Workers : v = w
                OBVIOUS
            <3> QED
                BY <1>2, <2>1, <3>1, WorkerKeepsJobs
        <2>2. CASE Command
            <3>1. FailedIsRetried'
                BY <1>2, <2>2, CommandKeepsJobs DEF RetryInv, FailedIsRetried
            <3>2. ASSUME NEW w \in Workers PROVE Holds(w)'
                <4>1. CASE ~Busy(w)
                    <5>1. pc' = pc
                        BY <2>2 DEF Command, Create, Refine, ReEnrich, Progress, Assign, Close,
                                    Reopen, Combine, Split, workerVars
                    <5> QED
                        BY <4>1, <5>1 DEF Holds, Busy
                <4>2. CASE Busy(w)
                    <5>1. /\ claim[w].issue \in Issues
                          /\ claim[w].target \in 1 .. enrichment[claim[w].issue].target
                          /\ enrichment[claim[w].issue].target \in Nat
                        BY <1>2, <4>2, Targets DEF QueueInv, WorkerInv
                    <5>2. PICK k \in Issues : k = claim[w].issue
                        BY <5>1
                    <5>3. /\ job[k].target # 0 => job'[k].target # 0
                          /\ \/ enrichment'[k].target = enrichment[k].target
                             \/ enrichment[k].target = 0
                             \/ job'[k].target # 0
                          /\ claim' = claim /\ pc' = pc
                        BY <1>2, <2>2, CommandKeepsJobs
                    <5> QED
                        BY <1>2, <4>2, <5>1, <5>2, <5>3 DEF RetryInv, Holds
                <4> QED
                    BY <4>1, <4>2
            <3> QED
                BY <3>1, <3>2 DEF RetryInv
        <2>3. CASE (\E i \in Issues : LeaseExpires(i)) \/ CatalogImproves \/ UNCHANGED vars
            <3>1. ASSUME NEW i \in Issues, LeaseExpires(i)
                  PROVE  \A k \in Issues : job'[k].target = job[k].target
                BY <1>2, <3>1 DEF LeaseExpires, TypeOK
            <3>2. /\ UNCHANGED <<enrichment, pc, claim>>
                  /\ \A k \in Issues : job'[k].target = job[k].target
                BY <2>3, <3>1 DEF LeaseExpires, CatalogImproves, vars, issueVars, workerVars
            <3>3. FailedIsRetried'
                BY <1>2, <3>2 DEF RetryInv, FailedIsRetried
            <3>4. ASSUME NEW w \in Workers PROVE Holds(w)'
                BY <1>2, <3>2 DEF RetryInv, Holds, Busy, QueueInv, WorkerInv
            <3> QED
                BY <3>3, <3>4 DEF RetryInv
        <2> QED
            BY <1>2, <2>1, <2>2, <2>3 DEF Next
    <1>3. TypeOK /\ TypeOK' /\ QueueInv /\ QueueInv' /\ RetryInv /\ [Next]_vars => RetryInv'
        BY <1>2
    <1>4. RetryInv => FailedIsRetried
        BY DEF RetryInv
    <1> QED
        BY <1>1, <1>3, <1>4, QueueInvariant, TypeCorrect, PTL DEF Spec
=============================================================================
