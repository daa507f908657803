----------------------------- MODULE MCAgentJob -----------------------------
(***************************************************************************)
(* What runs one Agent job, for TLC: the Target operation it belongs to,   *)
(* the process that is started for it, the stages of its Agent in a        *)
(* checkout, and the implementation of an Issue on a branch. They share no *)
(* state, so one run takes them one at a time: subject says which, and the *)
(* others stay where they begin.                                           *)
(***************************************************************************)
EXTENDS WorkerProcess, Sequences

CONSTANTS Roles, Attempts, StructuredAttempts, Reads, MaxCommits, MaxOthers, MaxCommandFaults,
  Operations, Revisions, Private, Branches, MaxEdits, MaxTroubles

ASSUME JobAssumption ==
  /\ Roles \subseteq {"read", "review", "feedback", "update"}
  /\ {Attempts, StructuredAttempts, Reads} \subseteq Nat \ {0}
  /\ {MaxCommits, MaxOthers, MaxCommandFaults, MaxEdits, MaxTroubles} \subseteq Nat
  /\ Private \subseteq Revisions /\ Revisions # {} /\ Branches # {}
  /\ {"none", "made", "removed"} \cap Revisions = {}

VARIABLES
  subject,
  role, checkout, stageAt, stageAttempt, invocation, structured, answer, frozen, formatOnly,
  expired, runs, stageResult,
  accumulating, parent, remote, tracking, local, tree, workAt, baseline, head, workAttempt, reads,
  workResult, fetched, others, workFaults,
  operation, reconcile, fork, item, targetAt, acquired, targetInvocation, targetWorker, settled,
  targetAnswer, failure, disk, log, targetResult, diagnostic, confirmed, touched, unheard, edits,
  troubles

Stages == INSTANCE AgentStages WITH at <- stageAt, attempt <- stageAttempt, result <- stageResult
Work == INSTANCE DurableImplementer WITH
  at <- workAt, attempt <- workAttempt, result <- workResult, faults <- workFaults,
  MaxFaults <- MaxCommandFaults
Operation == INSTANCE TargetOperation WITH
  at <- targetAt, invocation <- targetInvocation, worker <- targetWorker, answer <- targetAnswer,
  result <- targetResult

stageVars == <<role, checkout, stageAt, stageAttempt, invocation, structured, answer, frozen,
  formatOnly, expired, runs, stageResult>>
workVars == <<accumulating, parent, remote, tracking, local, tree, workAt, baseline, head,
  workAttempt, reads, workResult, fetched, others, workFaults>>
operationVars == <<operation, reconcile, fork, item, targetAt, acquired, targetInvocation,
  targetWorker, settled, targetAnswer, failure, disk, log, targetResult, diagnostic, confirmed,
  touched, unheard, edits, troubles>>
allVars == <<subject, vars, stageVars, workVars, operationVars>>

ASSUME OperationsAssumption ==
  Operations \subseteq
    Operation!IssueOperations \cup Operation!PullRequestOperations \cup {Operation!Scheduled}

JobInit ==
  /\ subject \in {"process", "stages", "implementation", "operation"}
  /\ Init /\ Stages!Init /\ Work!Init /\ Operation!Init
  /\ subject # "stages" => role = "read"
  /\ subject # "implementation" => ~accumulating /\ tracking = Work!None
  /\ subject # "operation" => operation = Operation!Scheduled /\ item.revision \in Private
       /\ item.base = CHOOSE b \in Branches : TRUE

JobNext ==
  /\ UNCHANGED subject
  /\ \/ subject = "process" /\ Next /\ UNCHANGED <<stageVars, workVars, operationVars>>
     \/ subject = "stages" /\ Stages!Next /\ UNCHANGED <<vars, workVars, operationVars>>
     \/ subject = "implementation" /\ Work!Next /\ UNCHANGED <<vars, stageVars, operationVars>>
     \/ subject = "operation" /\ Operation!Next /\ UNCHANGED <<vars, stageVars, workVars>>

JobSpec == JobInit /\ [][JobNext]_allVars /\ Fairness

\* No sequence of rejected runs, unusable answers and failing commands takes an
\* Agent past its bounds, and what a Target operation leaves behind - labels,
\* record, checkout and diagnostic - says what became of it.
JobsAreAccountedFor ==
  /\ Stages!TypeOK /\ Stages!RunsWithinBudget /\ Work!TypeOK
  /\ subject = "operation" =>
       Operation!TypeOK /\ Operation!OwnershipIsVisible /\ Operation!EvidenceStays

\* The result of a role comes from a checkout that is what it has to be, what is
\* reported as implemented is on GitHub, with all that was there before, and an
\* operation works on what was acquired for it.
ResultsAreProven ==
  [][Stages!DeliversProven /\ Work!ImplementsProven
       /\ (subject = "operation" => Operation!OperatesOnAcquired)]_allVars
=============================================================================
