--------------------------- MODULE TargetOperation ---------------------------
(***************************************************************************)
(* .sandcastle: one Target operation, from the command that acquires a     *)
(* Work Item to the operation worker in a Target Checkout and back         *)
(* (target-operation-command.ts, -dispatch.ts, -invocation.ts,             *)
(* target-operation.ts, target-checkout.ts, target-operation-runtime.ts).  *)
(* Three processes hand over one authorized invocation: the Dispatcher,    *)
(* the Target job and the operation worker. People may edit the Work Item  *)
(* between any two steps.                                                  *)
(*                                                                         *)
(* The death of the Dispatcher is in AutomationDispatch, and what an       *)
(* operation does in its checkout is in DurableImplementer, AgentStages    *)
(* and FeedbackPublication.                                                *)
(***************************************************************************)
EXTENDS Naturals, FiniteSets, Sequences

CONSTANTS
  Operations,   \* bound: the operations that are run
  Revisions,    \* commits, by their 40 hexadecimal digits
  Private,      \* those that track .sandcastle/.env
  Branches,     \* bound: the branches a Pull Request may have as its base
  MaxEdits,     \* bound: changes of the Work Item by people
  MaxTroubles   \* bound: failing calls, commands and processes

IssueOperations == {"implement-issue", "implement-spec", "split-spec"}
PullRequestOperations == {"implement-feedback", "review", "update-branch"}
Scheduled == "architecture-review"

VARIABLES
  operation, reconcile, fork, \* what is run, with the authorization an operator gave, and
                              \* whether the Pull Request comes from a fork (rigid)
  item,       \* the Work Item on GitHub; revision is that of the base branch for an Issue
  at,         \* the step that is next
  acquired,   \* the snapshot the command holds, once it has read one
  invocation, \* the authorized invocation of the Dispatcher and the Target job
  worker,     \* what the operation worker was given: its number and its invocation
  settled,    \* acquisitionSettled
  answer,     \* the status the operation worker reported
  failure,    \* the error on its way to the command
  disk,       \* the Target Checkout
  log,        \* the status in the Job Log
  result,     \* what the command returned or threw
  diagnostic, \* what was published about a failure
  confirmed,  \* history: the Work Item as the last read of the acquisition saw it
  touched,    \* history: people changed its labels since the command took it
  unheard,    \* history: some call for a label failed since then
  edits, troubles

request == <<operation, reconcile, fork>>
held == <<acquired, invocation, worker, settled>>
outcome == <<answer, failure, result, diagnostic>>
evidence == <<disk, log>>
history == <<confirmed, touched, unheard>>
bounds == <<edits, troubles>>
vars == <<request, item, at, held, outcome, evidence, history, bounds>>

IsPullRequestOperation == operation \in PullRequestOperations
Number == 1
Job == "job"
Path == "checkout"

\* An error: what may be published of it, whether its message carries the output
\* of a process, and whether the registry of this process knows it.
NoFailure == [summary |-> "none", output |-> FALSE, trusted |-> FALSE]
Trusted(summary, output) == [summary |-> summary, output |-> output, trusted |-> TRUE]
Untrusted(output) == [summary |-> "message", output |-> output, trusted |-> FALSE]

\* A record with the fields of another as well.
With(f, g) == [k \in DOMAIN f \cup DOMAIN g |-> IF k \in DOMAIN f THEN f[k] ELSE g[k]]

\* Reconciliations the command line accepts; the root of a reply may be empty.
Reply(root) == [expectedReply |-> [rootCommentId |-> root, body |-> "body"]]
Reconciliations ==
  {With([invocation |-> "reconcile"], extra) : extra \in
     {<<>>, Reply("root"), Reply("")} \cup {[baseRevision |-> r] : r \in Revisions}}

TypeOK ==
  /\ operation \in Operations /\ fork \in BOOLEAN /\ settled \in BOOLEAN
  /\ Len(reconcile) <= 1 /\ (reconcile # <<>> => operation = "implement-feedback")
  /\ item \in [state : {"OPEN", "CLOSED"}, labels : SUBSET {"trigger", "in-progress", "blocked"},
               revision : Revisions, base : Branches, matches : BOOLEAN]
  /\ at \in {"read", "claim", "reread", "untrigger", "settle", "open", "input", "clone", "fetch",
             "install", "spawn", "inspect", "operate", "remove", "report", "close", "outcome",
             "block", "release", "done", "expired"}
  /\ answer \in {"none", "completed", "blocked"}
  /\ disk \in {"none", "made", "removed"} \cup Revisions
  /\ log \in {"none", "running", "completed", "failed", "timed-out"}
  /\ result \in {"none", "untouched", "completed", "blocked", "failed"}
  /\ touched \in BOOLEAN /\ unheard \in BOOLEAN
  /\ edits \in 0..MaxEdits /\ troubles \in 0..MaxTroubles

-----------------------------------------------------------------------------
(* What the acquisition reads, and what the three processes accept.        *)

Identity(i) ==
  [headSha |-> i.revision, headRefName |-> "topic", baseRefName |-> i.base,
   baseRepository |-> "origin", headRepository |-> IF fork THEN "fork" ELSE "origin"]
\* The read fails when the item no longer has the shape its operation is for.
Routable(i) == IF IsPullRequestOperation THEN ~fork ELSE i.matches
AcquisitionSnapshot(i) ==
  With([state |-> i.state, labels |-> i.labels, revision |-> i.revision],
       IF IsPullRequestOperation THEN [pullRequest |-> Identity(i)] ELSE <<>>)

SnapshotKeys ==
  {"state", "labels", "revision"} \cup {k \in {"pullRequest"} : IsPullRequestOperation}
IsPullRequestAuthorization(pr, revision) ==
  /\ DOMAIN pr = {"headSha", "headRefName", "baseRefName", "baseRepository", "headRepository"}
  /\ pr.headSha = revision /\ pr.baseRepository = pr.headRepository
RequireOperationAuthorization(s) ==
  /\ DOMAIN s = SnapshotKeys /\ s.revision \in Revisions
  /\ IsPullRequestOperation => IsPullRequestAuthorization(s.pullRequest, s.revision)

RequireAvailable(s) == s.state = "OPEN" /\ s.labels = {"trigger"}
RequireAcquiring(s) == s.state = "OPEN" /\ s.labels = {"trigger", "in-progress"}
SamePullRequest(s, t) == IsPullRequestOperation => s.pullRequest = t.pullRequest
RequireSettled(s) ==
  /\ s.state = "OPEN" /\ s.labels = {"in-progress"}
  /\ s.revision = acquired.revision /\ SamePullRequest(s, acquired)

IsFeedbackReconcileAuthorization(r) ==
  /\ r.invocation = "reconcile"
  /\ DOMAIN r \subseteq {"invocation", "baseRevision", "expectedPost", "expectedReply"}
  /\ "baseRevision" \in DOMAIN r => r.baseRevision \in Revisions
  /\ "expectedPost" \in DOMAIN r => r.expectedPost \in Revisions
  /\ "expectedReply" \in DOMAIN r => r.expectedReply.rootCommentId # ""

ScheduledKeys == {"operation", "revision", "jobId"}
OuterKeys(v) ==
  ScheduledKeys \cup {"number", "acquired"}
    \cup {k \in {"pullRequest"} : v.operation \in PullRequestOperations}
    \cup {k \in {"reconcile"} : v.operation = "implement-feedback" /\ k \in DOMAIN v}
WorkerKeys(v) == (OuterKeys(v) \ {"number"}) \cup {"checkoutPath"}
RequireAuthorizedLabelInvocation(v) ==
  /\ v.revision \in Revisions /\ v.acquired
  /\ v.operation \in PullRequestOperations =>
       IsPullRequestAuthorization(v.pullRequest, v.revision)
  /\ "reconcile" \in DOMAIN v => IsFeedbackReconcileAuthorization(v.reconcile)
IsAuthorizedOuter(v) ==
  IF v.operation = Scheduled THEN DOMAIN v = ScheduledKeys /\ v.revision \in Revisions
  ELSE DOMAIN v = OuterKeys(v) /\ RequireAuthorizedLabelInvocation(v)
IsAuthorizedWorker(v) ==
  IF v.operation = Scheduled THEN DOMAIN v = ScheduledKeys \cup {"checkoutPath"}
  ELSE DOMAIN v = WorkerKeys(v) /\ RequireAuthorizedLabelInvocation(v)

\* The number is an argument of its own, the checkout is added, and JSON carries the rest.
WorkerArguments(v, path) ==
  [number |-> IF v.operation = Scheduled THEN 0 ELSE v.number,
   invocation |-> With([k \in DOMAIN v \ {"number"} |-> v[k]], [checkoutPath |-> path])]

-----------------------------------------------------------------------------
(* The command, in the Dispatcher.                                         *)

Init ==
  /\ operation \in Operations
  /\ reconcile \in {<<>>} \cup {<<r>> : r \in {x \in Reconciliations :
                                            operation = "implement-feedback"}}
  /\ fork \in {FALSE, IsPullRequestOperation}
  /\ item \in [state : {"OPEN"}, labels : {{"trigger"}}, revision : Revisions,
               base : Branches, matches : {TRUE}]
  /\ at = "read" /\ acquired = <<>> /\ invocation = <<>> /\ worker = <<>> /\ settled = FALSE
  /\ answer = "none" /\ failure = NoFailure /\ result = "none" /\ diagnostic = NoFailure
  /\ disk = "none" /\ log = "none"
  /\ confirmed = item /\ touched = FALSE /\ unheard = FALSE /\ edits = 0 /\ troubles = 0

Trouble == troubles < MaxTroubles /\ troubles' = troubles + 1
Fine == UNCHANGED troubles
Step(from) == at = from /\ UNCHANGED <<request, confirmed, touched, edits>>
Quiet == UNCHANGED <<item, unheard>>
Throws(f) ==
  /\ failure' = f
  /\ at' = IF operation = Scheduled THEN "done" ELSE "block"
  /\ result' = IF operation = Scheduled THEN "failed" ELSE result
Put(l) == item' = [item EXCEPT !.labels = @ \cup {l}]
Take(l) == item' = [item EXCEPT !.labels = @ \ {l}]
\* A call whose answer is an error may have taken effect.
Lost(change) == Trouble /\ unheard' = TRUE /\ (change \/ UNCHANGED item)
GithubError == Untrusted(TRUE)

Authorizes == \A i \in 1..Len(reconcile) : IsFeedbackReconcileAuthorization(reconcile[i])
Available ==
  /\ Routable(item)
  /\ LET s == AcquisitionSnapshot(item) IN RequireAvailable(s) /\ RequireOperationAuthorization(s)

\* An error here leaves the Work Item as it is.
LeavesAlone ==
  /\ \/ Fine /\ (~Authorizes \/ (operation # Scheduled /\ ~Available))
     \/ Trouble
  /\ at' = "done" /\ result' = "untouched"

Read ==
  /\ Step("read") /\ Quiet
  /\ \/ LeavesAlone /\ UNCHANGED invocation
     \/ /\ operation # Scheduled /\ Authorizes /\ Available /\ Fine
        /\ at' = "claim" /\ UNCHANGED <<invocation, result>>
     \/ /\ operation = Scheduled /\ Fine
        /\ invocation' = [operation |-> operation, revision |-> item.revision, jobId |-> Job]
        /\ at' = "open" /\ UNCHANGED result
  /\ UNCHANGED <<acquired, worker, settled, answer, failure, diagnostic, evidence>>

\* addInProgress is called before the try.
Claim ==
  /\ Step("claim")
  /\ \/ Put("in-progress") /\ Fine /\ at' = "reread" /\ UNCHANGED <<unheard, failure, result>>
     \/ /\ Lost(Put("in-progress")) /\ failure' = GithubError
        /\ at' = "done" /\ result' = "failed"
  /\ UNCHANGED <<held, answer, diagnostic, evidence>>

Reread ==
  /\ Step("reread") /\ Quiet
  /\ LET s == AcquisitionSnapshot(item)
         ready == RequireAcquiring(s) /\ RequireOperationAuthorization(s)
     IN \/ Trouble /\ Throws(GithubError) /\ UNCHANGED acquired
        \/ Fine /\ ~Routable(item) /\ Throws(Untrusted(FALSE)) /\ UNCHANGED acquired
        \/ Fine /\ Routable(item) /\ acquired' = s /\ ~ready
           /\ Throws(Trusted("changed-while-starting", FALSE))
        \/ Fine /\ Routable(item) /\ acquired' = s /\ ready
           /\ at' = "untrigger" /\ UNCHANGED <<failure, result>>
  /\ UNCHANGED <<invocation, worker, settled, answer, diagnostic, evidence>>

Untrigger ==
  /\ Step("untrigger")
  /\ \/ Take("trigger") /\ Fine /\ at' = "settle" /\ UNCHANGED <<unheard, failure, result>>
     \/ Lost(Take("trigger")) /\ Throws(GithubError)
  /\ UNCHANGED <<held, answer, diagnostic, evidence>>

AuthorizedInvocation ==
  With(With([operation |-> operation, number |-> Number, revision |-> acquired.revision,
             jobId |-> Job, acquired |-> TRUE],
            IF IsPullRequestOperation THEN [pullRequest |-> acquired.pullRequest] ELSE <<>>),
       IF reconcile # <<>> THEN [reconcile |-> reconcile[1]] ELSE <<>>)

Settle ==
  /\ at = "settle" /\ UNCHANGED <<request, touched, edits>> /\ Quiet /\ confirmed' = item
  /\ LET s == AcquisitionSnapshot(item)
         ready == RequireOperationAuthorization(s) /\ RequireSettled(s)
     IN \/ Trouble /\ Throws(GithubError) /\ UNCHANGED <<settled, invocation>>
        \/ Fine /\ ~Routable(item) /\ Throws(Untrusted(FALSE)) /\ UNCHANGED <<settled, invocation>>
        \/ Fine /\ Routable(item) /\ ~ready
           /\ Throws(Trusted("changed-while-settling", FALSE)) /\ UNCHANGED <<settled, invocation>>
        \/ Fine /\ Routable(item) /\ ready /\ settled' = TRUE
           /\ invocation' = AuthorizedInvocation /\ at' = "open" /\ UNCHANGED <<failure, result>>
  /\ UNCHANGED <<acquired, worker, answer, diagnostic, evidence>>

-----------------------------------------------------------------------------
(* The Target job and its operation worker. Whatever goes wrong in them is *)
(* an exit code and some output to the Dispatcher.                         *)

JobSteps == {"input", "clone", "fetch", "install", "spawn", "inspect", "operate", "remove", "report"}
JobFails ==
  failure' = Trusted("worker-exited", TRUE) /\ at' = "close" /\ UNCHANGED answer
Works(from) ==
  Step(from) /\ Quiet /\ UNCHANGED <<acquired, invocation, settled, result, diagnostic>>
Continues(step) == Fine /\ at' = step /\ UNCHANGED <<failure, answer>>

\* createJobLog.
Open ==
  /\ Step("open") /\ Quiet
  /\ \/ Fine /\ log' = "running" /\ at' = "input" /\ UNCHANGED <<failure, result>>
     \/ Trouble /\ log' \in {"none", "running"} /\ Throws(Untrusted(FALSE))
  /\ UNCHANGED <<held, answer, diagnostic, disk>>

\* parseTargetJobInput.
Input ==
  /\ Works("input")
  /\ \/ IsAuthorizedOuter(invocation) /\ Continues("clone")
     \/ Fine /\ ~IsAuthorizedOuter(invocation) /\ JobFails
     \/ Trouble /\ JobFails
  /\ UNCHANGED <<worker, evidence>>

\* A directory of its own, a clone of the trusted repository, and its identity.
Clone ==
  /\ Works("clone")
  /\ \/ Continues("fetch") /\ disk' = "made"
     \/ Trouble /\ JobFails /\ disk' \in {"none", "made"}
  /\ UNCHANGED <<worker, log>>

Fetch ==
  /\ Works("fetch")
  /\ \/ invocation.revision \notin Private /\ Continues("install")
     \/ invocation.revision \in Private /\ Fine /\ JobFails
     \/ Trouble /\ JobFails
  /\ UNCHANGED <<worker, evidence>>

Install ==
  /\ Works("install")
  /\ \/ Continues("spawn") /\ disk' = invocation.revision
     \/ Trouble /\ JobFails /\ disk' \in {"made", invocation.revision}
  /\ UNCHANGED <<worker, log>>

Spawn ==
  /\ Works("spawn")
  /\ \/ Continues("inspect") /\ worker' = WorkerArguments(invocation, Path)
     \/ Trouble /\ JobFails /\ UNCHANGED worker
  /\ UNCHANGED evidence

\* The first reads of the operation, through the managed port: an Issue is at
\* the authorized revision, a Pull Request has to be.
ChangedAfterAcquisition ==
  IsPullRequestOperation /\ Identity(item) # worker.invocation.pullRequest
Accepted ==
  /\ IsAuthorizedWorker(worker.invocation) /\ worker.invocation.operation = operation
  /\ operation # Scheduled => worker.number \in Nat \ {0}
Inspect ==
  /\ Works("inspect")
  /\ \/ Trouble /\ JobFails
     \/ Fine /\ (~Accepted \/ ChangedAfterAcquisition) /\ JobFails
     \/ /\ Accepted /\ ~ChangedAfterAcquisition
        /\ item.state = "OPEN" \/ operation = Scheduled
        /\ Continues("operate")
     \/ /\ Accepted /\ ~ChangedAfterAcquisition /\ item.state = "CLOSED" /\ operation # Scheduled
        /\ Fine /\ answer' = "completed" /\ at' = "remove" /\ UNCHANGED failure
  /\ UNCHANGED <<worker, evidence>>

\* What the operation does, and the status it reports: one that is accepted, or
\* something that classifyTargetOperationOutcome refuses.
Operate ==
  /\ Works("operate")
  /\ \/ Fine /\ answer' \in {"completed", "blocked"} /\ at' = "remove" /\ UNCHANGED failure
     \/ Trouble /\ JobFails
  /\ UNCHANGED <<worker, evidence>>

Disposition == IF answer = "blocked" THEN "retain" ELSE "cleanup"
Remove ==
  /\ Works("remove")
  /\ \/ Disposition = "retain" /\ Continues("report") /\ UNCHANGED disk
     \/ Disposition = "cleanup" /\ Continues("report") /\ disk' = "removed"
     \/ Disposition = "cleanup" /\ Trouble /\ JobFails /\ disk' \in {disk, "removed"}
  /\ UNCHANGED <<worker, log>>

Report ==
  /\ Works("report")
  /\ \/ Continues("close")
     \/ /\ Trouble /\ failure' = Trusted("invalid-outcome", FALSE)
        /\ at' = "close" /\ UNCHANGED answer
  /\ UNCHANGED <<worker, evidence>>

\* The time of the whole job is over: its process group is killed.
TimeOut ==
  /\ at \in JobSteps /\ Works(at) /\ Fine
  /\ failure' = Trusted("timed-out", TRUE) /\ at' = "close" /\ UNCHANGED <<answer, worker, log>>
  /\ disk' \in {disk} \cup {d \in {"removed"} : at = "remove" /\ Disposition = "cleanup"}

-----------------------------------------------------------------------------
(* Back in the Dispatcher.                                                 *)

StatusOf(f, a) ==
  CASE f.summary = "timed-out" -> "timed-out"
    [] f # NoFailure /\ f.summary # "timed-out" -> "failed"
    [] f = NoFailure -> IF a = "blocked" THEN "failed" ELSE "completed"
Returns ==
  /\ at' = IF operation = Scheduled THEN "done" ELSE "outcome"
  /\ result' = IF operation = Scheduled THEN answer ELSE result
  /\ UNCHANGED failure

\* completeJobLog: on a failure it is a best effort, after a success its own
\* error is thrown and the record stays running.
Close ==
  /\ Step("close") /\ Quiet
  /\ \/ Fine /\ log' = StatusOf(failure, answer)
        /\ IF failure = NoFailure THEN Returns ELSE Throws(failure)
     \/ Trouble /\ UNCHANGED log
        /\ Throws(IF failure = NoFailure THEN Untrusted(FALSE) ELSE failure)
  /\ UNCHANGED <<held, answer, diagnostic, disk>>

Outcome ==
  /\ Step("outcome")
  /\ \/ /\ answer = "completed" /\ Fine /\ Quiet
        /\ at' = "release" /\ UNCHANGED <<failure, result>>
     \/ /\ answer = "blocked" /\ Fine /\ Put("blocked") /\ UNCHANGED unheard
        /\ at' = "release" /\ UNCHANGED <<failure, result>>
     \/ answer = "blocked" /\ Lost(Put("blocked")) /\ Throws(GithubError)
  /\ UNCHANGED <<held, answer, diagnostic, evidence>>

\* failureDiagnosticSummary.
Published(f) == [summary |-> IF f.trusted THEN f.summary ELSE "unknown",
                 output |-> FALSE, trusted |-> TRUE]

\* The two calls settle each for itself.
Block ==
  /\ Step("block") /\ at' = "release"
  /\ \/ /\ Put("blocked") /\ UNCHANGED unheard
        /\ \/ Fine /\ diagnostic' = Published(failure)
           \/ Trouble /\ diagnostic' \in {NoFailure, Published(failure)}
     \/ Lost(Put("blocked")) /\ diagnostic' = Published(failure)
  /\ UNCHANGED <<held, answer, failure, result, evidence>>

\* Only a settled command may clear in-progress.
Release ==
  /\ Step("release") /\ at' = "done"
  /\ result' = IF failure = NoFailure THEN answer ELSE "failed"
  /\ \/ settled /\ Take("in-progress") /\ Fine /\ UNCHANGED unheard
     \/ settled /\ Lost(Take("in-progress"))
     \/ ~settled /\ Fine /\ Quiet
  /\ UNCHANGED <<held, answer, failure, diagnostic, evidence>>

\* A later command finds what this one left more than seven days old.
Expire ==
  /\ Step("done") /\ at' = "expired" /\ Fine /\ Quiet
  /\ disk' = "none" /\ log' = "none"
  /\ UNCHANGED <<held, outcome>>

\* People change labels, close and reopen, push, choose another base, or change
\* what kind of Issue it is.
Edit ==
  /\ at \notin {"done", "expired"} /\ edits < MaxEdits /\ edits' = edits + 1
  /\ \/ \E l \in {"trigger", "in-progress", "blocked"} :
          item' = [item EXCEPT !.labels = IF l \in @ THEN @ \ {l} ELSE @ \cup {l}]
     \/ \E s \in {"OPEN", "CLOSED"} \ {item.state} : item' = [item EXCEPT !.state = s]
     \/ \E r \in Revisions \ {item.revision} : item' = [item EXCEPT !.revision = r]
     \/ \E b \in Branches \ {item.base} : IsPullRequestOperation /\ item' = [item EXCEPT !.base = b]
     \/ ~IsPullRequestOperation /\ item' = [item EXCEPT !.matches = ~@]
  /\ touched' = (touched \/ (at \notin {"read", "claim"} /\ item'.labels # item.labels))
  /\ UNCHANGED <<request, at, held, outcome, evidence, confirmed, unheard, troubles>>

Next ==
  \/ Read \/ Claim \/ Reread \/ Untrigger \/ Settle
  \/ Open \/ Input \/ Clone \/ Fetch \/ Install \/ Spawn \/ Inspect \/ Operate
  \/ Remove \/ Report \/ TimeOut
  \/ Close \/ Outcome \/ Block \/ Release \/ Expire \/ Edit

Spec == Init /\ [][Next]_vars

-----------------------------------------------------------------------------
\* The operation works in a checkout of the revision, on the Pull Request and
\* for the Work Item that the last read of the acquisition still saw, open, in
\* progress and not blocked, however often they changed while three processes
\* handed them over (target-operation-command.ts, target-operation-invocation.ts).
OperatesOnAcquired ==
  at' = "operate" /\ at # "operate" =>
    LET v == worker'.invocation IN
    /\ disk' = v.revision /\ v.revision \notin Private
    /\ operation # Scheduled =>
         /\ v.revision = confirmed.revision /\ worker'.number = Number
         /\ confirmed.state = "OPEN" /\ confirmed.labels = {"in-progress"}
    /\ IsPullRequestOperation => v.pullRequest = Identity(confirmed) /\ ~fork

\* When nobody else moved labels and no call for one failed, the labels say what
\* became of a command: in progress is cleared by a settled one and kept by one
\* that could not confirm its acquisition, and it is blocked exactly when the
\* operation was not completed (target-operation-command.ts, #219).
OwnershipIsVisible ==
  at = "done" /\ result # "untouched" /\ ~touched /\ ~unheard /\ operation # Scheduled =>
    /\ "in-progress" \in item.labels <=> ~settled
    /\ "blocked" \in item.labels <=> (result # "completed" \/ "blocked" \in confirmed.labels)

\* What is reported as completed was completed, its record says so and its
\* checkout is gone; what was not completed keeps its checkout for diagnosis; and
\* nothing a process wrote is published (target-operation.ts, target-checkout.ts,
\* target-operation-command.ts).
EvidenceStays ==
  /\ at = "done" /\ result = "completed" =>
       answer = "completed" /\ log = "completed" /\ disk = "removed"
  /\ log = "completed" \/ disk = "removed" => answer = "completed"
  /\ at = "done" /\ log = "failed" /\ result = "blocked" => disk = worker.invocation.revision
  /\ ~diagnostic.output /\ diagnostic.summary # "message"
=============================================================================
