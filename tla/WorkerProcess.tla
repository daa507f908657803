--------------------------- MODULE WorkerProcess ----------------------------
(***************************************************************************)
(* .sandcastle: one worker and its process group, from the launch to the   *)
(* outcome (worker-process-lifecycle.ts, job-timeout.ts). The worker leads *)
(* a group of its own; nested workers and what they start stay in it. The  *)
(* owner hears of the leader's exit, polls the group with signal 0, and    *)
(* ends the group with SIGTERM, a grace period and SIGKILL.                *)
(*                                                                         *)
(* The group is gone when no member is left; its number is not reused      *)
(* while the owner still polls it.                                         *)
(***************************************************************************)
EXTENDS Naturals, FiniteSets

CONSTANTS
  Members,      \* the processes that can be in the group
  Leader,
  MaxFaults     \* bound: failing probes, signals, streams and launches

ASSUME LeaderAssumption == Leader \in Members
ASSUME BoundsAssumption == MaxFaults \in Nat

VARIABLES
  alive,       \* members of the group
  unborn,      \* members that were not started yet
  doomed,      \* SIGKILL reached the group
  exited,      \* the promise of the leader's exit
  group,       \* the promise of the current group observation
  deadline, grace, \* timers
  at,          \* where the owner is
  intent,      \* the outcome once the group is gone
  cleanup,     \* terminateJobProcessGroup runs for a failure already
  renewable,   \* it was given renewGroupExited
  refused,     \* signalFailures
  broken,      \* the group observation failed under the grace period
  outcome,     \* what run() returned or threw
  faults

processes == <<alive, unborn, doomed>>
timers == <<deadline, grace>>
frame == <<intent, cleanup, renewable, refused, broken>>
vars == <<processes, exited, group, timers, at, frame, outcome, faults>>

Outcomes == {"none", "completed", "timed-out", "failed", "unconfirmed"}
TypeOK ==
  /\ alive \subseteq Members /\ unborn \subseteq Members /\ alive \cap unborn = {}
  /\ exited \in {"pending", "exited", "error"} /\ group \in {"none", "pending", "gone", "failed"}
  /\ deadline \in {"off", "running", "over"} /\ grace \in {"off", "running", "over"}
  /\ at \in {"launch", "race", "settle", "signal", "grace", "kill", "await", "confirm", "output",
             "returned"}
  /\ intent \in {"none", "completed", "timed-out", "failed"} /\ outcome \in Outcomes
  /\ at = "returned" <=> outcome # "none"
  /\ grace # "off" <=> at \in {"settle", "grace", "kill"}
  /\ {cleanup, renewable, refused, broken, doomed} \subseteq BOOLEAN
  /\ faults \in 0..MaxFaults

Init ==
  /\ alive = {} /\ unborn = Members /\ doomed = FALSE
  /\ exited = "pending" /\ group = "none" /\ deadline = "off" /\ grace = "off"
  /\ at = "launch" /\ intent = "none" /\ cleanup = FALSE /\ renewable = FALSE
  /\ refused = FALSE /\ broken = FALSE /\ outcome = "none" /\ faults = 0

Fails == faults < MaxFaults /\ faults' = faults + 1
Works == UNCHANGED faults

-----------------------------------------------------------------------------
(* The group, and what the owner hears of it.                              *)

Owner == <<at, frame, outcome>>

Fork ==
  /\ alive # {} /\ ~doomed
  /\ \E m \in unborn \ {Leader} : alive' = alive \cup {m} /\ unborn' = unborn \ {m}
  /\ UNCHANGED <<doomed, exited, group, timers, Owner, faults>>

\* A member ends by itself or of SIGTERM.
Exit ==
  /\ \E m \in alive : alive' = alive \ {m}
  /\ UNCHANGED <<unborn, doomed, exited, group, timers, Owner, faults>>

Die ==
  /\ doomed /\ alive # {} /\ alive' = {}
  /\ UNCHANGED <<unborn, doomed, exited, group, timers, Owner, faults>>

\* observeChild: exit, or an error of the child or of a stream.
ExitEvent ==
  /\ at # "launch" /\ exited = "pending"
  /\ \/ Leader \notin alive /\ exited' = "exited" /\ Works
     \/ exited' = "error" /\ Fails
  /\ UNCHANGED <<processes, group, timers, Owner>>

\* groupExitObservation: the group is absent, or the probe fails otherwise.
Probe ==
  /\ group = "pending"
  /\ \/ alive = {} /\ group' = "gone" /\ Works
     \/ group' = "failed" /\ Fails
  /\ UNCHANGED <<processes, exited, timers, Owner>>

Timer ==
  /\ \/ deadline = "running" /\ deadline' = "over" /\ UNCHANGED grace
     \/ grace = "running" /\ grace' = "over" /\ UNCHANGED deadline
  /\ UNCHANGED <<processes, exited, group, Owner, faults>>

-----------------------------------------------------------------------------
(* runJobWithTimeout.                                                      *)

Observed == group' = "pending"
Unobserved == UNCHANGED group
Returns(o) == at' = "returned" /\ outcome' = o
Goes(a) == at' = a /\ UNCHANGED outcome
Quiet == UNCHANGED <<processes, exited>>

\* terminateJobProcessGroup begins.
Terminates(o, failed, renews) ==
  /\ Goes("signal") /\ intent' = o /\ cleanup' = failed /\ renewable' = renews
  /\ refused' = FALSE /\ broken' = FALSE
\* cleanupAfterGroupFailure: with a new observation, and for the last time.
CleansUp == Terminates("failed", TRUE, FALSE) /\ Observed
\* What a job is called whose leader exited but whose group outlived it.
Outlived == "completed"

\* The worker starts, cannot start, or cannot be given its startup.
Launch ==
  /\ at = "launch" /\ UNCHANGED <<doomed, exited, grace>>
  /\ \/ /\ Works /\ alive' = {Leader} /\ unborn' = unborn \ {Leader}
        /\ Goes("race") /\ deadline' = "running" /\ Observed /\ UNCHANGED frame
     \/ /\ Fails /\ Returns("failed") /\ Unobserved /\ UNCHANGED <<alive, unborn, deadline, frame>>
     \/ /\ Fails /\ alive' = {Leader} /\ unborn' = unborn \ {Leader} /\ UNCHANGED deadline
        /\ Terminates("failed", TRUE, TRUE) /\ Observed

\* The race of exit, deadline and a failing observation.
Race ==
  /\ at = "race" /\ Quiet /\ Works
  /\ \/ /\ exited = "exited" /\ Goes("settle") /\ grace' = "running"
        /\ Unobserved /\ UNCHANGED <<deadline, frame>>
     \/ /\ exited = "error" /\ Terminates("failed", TRUE, TRUE)
        /\ Unobserved /\ UNCHANGED timers
     \/ /\ deadline = "over" /\ Terminates("timed-out", FALSE, FALSE)
        /\ Unobserved /\ UNCHANGED timers
     \/ group = "failed" /\ CleansUp /\ UNCHANGED timers

\* The leader has exited; the rest of the group has the grace period.
Settle ==
  /\ at = "settle" /\ Quiet /\ Works /\ UNCHANGED deadline
  /\ \/ /\ group = "gone" /\ Goes("output") /\ grace' = "off"
        /\ intent' = "completed" /\ Unobserved /\ UNCHANGED <<cleanup, renewable, refused, broken>>
     \/ /\ grace = "over" /\ group = "pending" /\ grace' = "off"
        /\ Terminates(Outlived, FALSE, FALSE) /\ Unobserved
     \/ group = "failed" /\ grace = "over" /\ grace' = "off" /\ CleansUp

-----------------------------------------------------------------------------
(* terminateJobProcessGroup.                                               *)

Signal ==
  /\ at = "signal" /\ Goes("grace") /\ grace' = "running"
  /\ (Works /\ UNCHANGED refused) \/ (Fails /\ refused' = TRUE)
  /\ UNCHANGED <<processes, exited, group, deadline, intent, cleanup, renewable, broken>>

\* It fails: the cleanup of a failure could not be confirmed, and anything
\* else is cleaned up once more.
ThrowsTheFirst ==
  IF cleanup THEN Returns("failed") /\ Unobserved /\ UNCHANGED frame ELSE CleansUp
Throws ==
  IF cleanup THEN Returns("unconfirmed") /\ Unobserved /\ UNCHANGED frame ELSE CleansUp
\* The group is gone: with a refused signal that is a failure, too.
Ended ==
  IF refused THEN Throws
  ELSE /\ IF intent = "failed" THEN Returns("failed") ELSE Goes("output")
       /\ Unobserved /\ UNCHANGED frame

\* raceGroupWithGrace: SIGKILL follows when the period has passed, also when
\* the observation failed within it.
Passed == grace = "over"
WaitsOn == Goes("await")
Escalates == Goes("kill")
Cancels == grace' = "off"
Grace ==
  /\ at = "grace" /\ Quiet /\ Works /\ UNCHANGED deadline
  /\ \/ group = "gone" /\ Cancels /\ Ended
     \/ /\ group = "pending" /\ grace = "over" /\ Escalates /\ Unobserved
        /\ UNCHANGED <<grace, frame>>
     \/ /\ group = "failed" /\ Passed /\ Goes("kill") /\ broken' = TRUE /\ Unobserved
        /\ UNCHANGED <<grace, intent, cleanup, renewable, refused>>

Kill ==
  /\ at = "kill" /\ grace' = "off"
  /\ \/ Works /\ doomed' = TRUE /\ UNCHANGED refused
     \/ Fails /\ refused' = TRUE /\ UNCHANGED doomed
  /\ IF broken THEN Goes("confirm") /\ (IF renewable THEN Observed ELSE Unobserved)
     ELSE Goes("await") /\ Unobserved
  /\ UNCHANGED <<alive, unborn, exited, deadline, intent, cleanup, renewable, broken>>

Await ==
  /\ at = "await" /\ Quiet /\ Works /\ UNCHANGED timers
  /\ \/ group = "gone" /\ Ended
     \/ /\ group = "failed" /\ Goes("confirm") /\ (IF renewable THEN Observed ELSE Unobserved)
        /\ UNCHANGED frame

\* confirmAfterObservationFailure: one more look, but a failure all the same.
Confirm ==
  /\ at = "confirm" /\ Quiet /\ Works /\ UNCHANGED timers
  /\ (renewable => group \in {"gone", "failed"}) /\ Throws

\* The output closes when nobody holds the pipes any more; a stream may fail.
Output ==
  /\ at = "output" /\ Quiet /\ UNCHANGED <<timers, frame, group>>
  /\ \/ Works /\ alive = {} /\ exited # "error" /\ Returns(intent)
     \/ Works /\ exited = "error" /\ Returns("failed")
     \/ Fails /\ Returns("failed")

OwnerStep == Launch \/ Race \/ Settle \/ Signal \/ Grace \/ Kill \/ Await \/ Confirm \/ Output
Next == OwnerStep \/ Fork \/ Exit \/ Die \/ ExitEvent \/ Probe \/ Timer

\* Events are delivered, timers fire, the kernel carries SIGKILL out; a member
\* may run for ever otherwise.
Fairness ==
  WF_vars(OwnerStep) /\ WF_vars(Die) /\ WF_vars(ExitEvent) /\ WF_vars(Probe) /\ WF_vars(Timer)
Spec == Init /\ [][Next]_vars /\ Fairness

-----------------------------------------------------------------------------
\* Unless the outcome says that the cleanup could not be confirmed, no process
\* of the job is left when it is known: a retry never meets its predecessor.
NobodyLeft == outcome \in {"completed", "timed-out", "failed"} => alive = {}

\* A worker that kept its deadline is not reported as timed out, nor one that
\* was cut off as completed.
OutcomeFitsDeadline ==
  /\ outcome = "timed-out" => deadline = "over"
  /\ outcome = "completed" => exited = "exited"

\* An outcome is true of the processes and of the deadline.
Consistent == TypeOK /\ NobodyLeft /\ OutcomeFitsDeadline

\* run() returns, unless the kernel refuses one of its signals, SIGKILL or an earlier one.
RunReturns == (at # "launch") ~> (at = "returned" \/ refused)
=============================================================================
