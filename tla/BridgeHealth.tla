---------------------------- MODULE BridgeHealth ----------------------------
(***************************************************************************)
(* The health a Bridge reports (bridge-instance.ts), from the state that   *)
(* managed-vault-runtime.ts builds at a load through every control call,   *)
(* execution, recovery and unproven result.  The health record is a copy:  *)
(* what it copies is the registry, the Change Set service's recovery flag  *)
(* and the readiness of the Search Snapshot, and each changes on its own.  *)
(*                                                                         *)
(* An execution is what health can see of it: which Change Set, the phase  *)
(* of its Recovery Journal frame and what of it is saved.  Every step may  *)
(* fail, and the process may die between any two.  The restored paths, the *)
(* barriers, the order of the leases and the gate a request sampled before *)
(* it waited are ChangeSetService's; expiry and a journal that contradicts *)
(* its registry are not modelled.                                          *)
(***************************************************************************)
EXTENDS Integers, Sequences, SequencesExt

CONSTANTS
  None,         \* null
  MaxSubmitted, \* bound: registered Change Sets
  MaxControls,  \* bound: pause, maintenance and resume calls
  MaxFaults,    \* bound: failing migrations, saves, journal reads and writes
  MaxRestarts   \* bound: crashes, each with the load that follows

VARIABLES
  host,      \* has it a file system; is its state or journal a newer release's
  registry,  \* the persisted registry: writeMode, lifecycle, entries
  journal,   \* the frames its two slots hold, the newest last
  blocked,   \* the service's #recoveryBlocked
  current,   \* its #currentExecutionId
  lease,     \* who holds the write lease for one Change Set, and how far it is
  health,    \* BridgeHealthState
  readiness, \* SearchSnapshotManager.readiness
  control,   \* the load or control call that runs, with its locals
  controls, faults, restarts

bounds == <<controls, faults, restarts>>
vars == <<host, registry, journal, blocked, current, lease, health, readiness, control, bounds>>

Diagnostics == INSTANCE DiagnosticBundle

Full == [fileSystem |-> TRUE, newer |-> FALSE]
\* There is a Change Set service, and the vault's adapter it executes with.
Service == host = Full
Restricted == host.newer
WriteUnavailable == ~host.fileSystem

WriteModes == {"none", "manual_paused", "maintenance_pending", "maintenance_failed",
               "maintenance_paused"}
Entries(n) ==
  [changeSetId : 1..n, submissionKey : 1..n, enqueueSeq : 1..n,
   state : Diagnostics!ChangeSetStates, executionPhase : Diagnostics!ExecutionPhases \cup {None}]
Frame(id, phase) == [of |-> id, phase |-> phase]
Unleased == [by |-> None, at |-> "free"]
Idle == [at |-> "idle", retrying |-> FALSE, safety |-> FALSE, todo |-> << >>]
InitialReasonCodes ==
  {"content_tools_not_ready", "search_snapshot_building", "search_snapshot_unavailable"}

AddCode(codes, code) == IF code \in ToSet(codes) THEN codes ELSE Append(codes, code)
Without(codes, gone) == SelectSeq(codes, LAMBDA code : code \notin gone)
Write(gate, state, source) == [gate |-> gate, state |-> state, pauseSource |-> source]

-----------------------------------------------------------------------------
(* The health a load begins with.                                          *)

Pending(mode) == mode \in {"maintenance_pending", "maintenance_failed"}

LoadedReasons(unready, unavailable, mode) ==
  IF mode = "maintenance_failed" THEN <<"upgrade_failed">>
  ELSE IF unready THEN <<"content_tools_not_ready">>
  ELSE IF unavailable THEN <<"writes_paused">>
  ELSE IF Pending(mode) THEN <<"upgrade_in_progress">>
  ELSE IF mode # "none" THEN <<"writes_paused">> ELSE << >>

LoadedAction(unready, unavailable, mode) ==
  IF mode = "maintenance_failed" THEN "finish_upgrade"
  ELSE IF unready THEN "finish_initialization"
  ELSE IF Pending(mode) THEN "finish_upgrade"
  ELSE IF unavailable \/ mode # "none" THEN "resume_writes" ELSE "none"

Unfinished(entries) ==
  Diagnostics!Each(SelectSeq(entries, LAMBDA e : e.executionPhase \in {"queued", "executing"}),
                   "changeSetId")
QueueState(entries, id) ==
  LET pending == Unfinished(entries) IN
  [currentExecutionId |-> id, length |-> Len(pending),
   headChangeSetId |-> IF pending = << >> THEN None ELSE Head(pending)]

\* load(): the health before the service is opened.
InitialHealth(mode, outcome, ready) ==
  LET unavailable == WriteUnavailable
      unready == ready # "ready"
      paused == unavailable \/ mode # "none"
  IN [recovery |-> "none",
      write |->
        IF ~paused THEN Write("open", "writable", None)
        ELSE Write(IF unavailable \/ mode = "maintenance_failed" THEN "blocked" ELSE "open",
                   "paused",
                   IF unavailable \/ Pending(mode) \/ mode = "maintenance_paused"
                   THEN "maintenance" ELSE "manual"),
      queue |-> QueueState(<< >>, None),
      lifecycle |-> outcome,
      effectiveGate |->
        IF ~paused THEN None
        ELSE IF Pending(mode) THEN "upgrade_in_progress" ELSE "writes_paused",
      overall |->
        IF unavailable \/ Pending(mode) THEN "blocked"
        ELSE IF mode = "none" /\ ~unready THEN "healthy" ELSE "degraded",
      reasonCodes |-> LoadedReasons(unready, unavailable, mode),
      operatorAction |-> LoadedAction(unready, unavailable, mode)]

\* runtimeState.blockWritesForUnproven
BlockWritesForUnproven(h) ==
  [h EXCEPT !.recovery = "blocked", !.write = Write("blocked", "paused", None),
            !.effectiveGate = "recovery_blocked", !.overall = "blocked",
            !.reasonCodes = AddCode(@, "recovery_blocked"),
            !.operatorAction = "review_recovery"]

\* What the loaded runtime sees of the registry: a restricted one sees none of it.
VisibleMode == IF Restricted THEN "none" ELSE registry.writeMode
VisibleOutcome == IF Restricted THEN "not_run" ELSE registry.lifecycle
LoadableReadiness == IF Restricted THEN {"unavailable"} ELSE {"ready", "unavailable"}
\* A load opens the service, if there is one, before the Bridge listens.
Opening == IF Service THEN [Idle EXCEPT !.at = "recovering"] ELSE Idle
Serving == control.at \notin {"recovering", "failing", "draining", "down"}

Init ==
  /\ host \in [fileSystem : BOOLEAN, newer : BOOLEAN]
  /\ \E mode \in WriteModes :
       /\ Service => mode = "none"
       /\ registry = [writeMode |-> mode, lifecycle |-> "not_run", entries |-> << >>]
  /\ journal \in IF Service THEN {<< >>} ELSE {<< >>, <<Frame(1, "COMMITTED")>>}
  /\ readiness \in LoadableReadiness
  /\ blocked = FALSE /\ current = None /\ lease = Unleased
  /\ health = InitialHealth(VisibleMode, VisibleOutcome, readiness)
  /\ control = Opening
  /\ controls = 0 /\ faults = 0 /\ restarts = 0

\* The process dies at any point and the plugin is loaded again.
Restart ==
  /\ restarts < MaxRestarts /\ restarts' = restarts + 1
  /\ readiness' \in LoadableReadiness
  /\ health' = InitialHealth(VisibleMode, VisibleOutcome, readiness')
  /\ blocked' = FALSE /\ current' = None /\ lease' = Unleased
  /\ control' = Opening
  /\ UNCHANGED <<host, registry, journal, controls, faults>>

\* A build of the Search Snapshot starts, succeeds or fails.
SnapshotChanges ==
  /\ ~Restricted
  /\ readiness' \in Diagnostics!ReadinessStates \ {readiness}
  /\ UNCHANGED <<host, registry, journal, blocked, current, lease, health, control, bounds>>

-----------------------------------------------------------------------------
(* What vault_health answers.                                              *)

ProjectEffectiveGate ==
  IF health.recovery = "blocked" THEN "recovery_blocked" ELSE health.effectiveGate

\* There is a SearchSnapshotManager whose readiness is read at each observation.
Dynamic == ~Restricted
SnapshotNotReady == Dynamic /\ readiness # "ready"
StableReasons ==
  IF ~Dynamic THEN health.reasonCodes
  ELSE LET kept == Without(health.reasonCodes, InitialReasonCodes) IN
       IF health.effectiveGate = None THEN kept ELSE AddCode(kept, health.effectiveGate)
SnapshotReason ==
  IF readiness = "building" THEN "search_snapshot_building" ELSE "search_snapshot_unavailable"

ProjectOperatorAction ==
  IF SnapshotNotReady /\ health.operatorAction \in {"none", "finish_initialization"}
  THEN "wait_for_readiness"
  ELSE IF /\ Dynamic /\ readiness = "ready" /\ health.effectiveGate = "writes_paused"
          /\ health.operatorAction = "finish_initialization"
  THEN "resume_writes" ELSE health.operatorAction

ProjectObservedHealth ==
  [readiness |-> [searchSnapshot |-> readiness, cache |-> "unavailable", index |-> readiness],
   recovery |-> health.recovery,
   write |-> health.write,
   effectiveGate |-> ProjectEffectiveGate,
   overall |->
     IF SnapshotNotReady /\ health.overall = "healthy" THEN "degraded" ELSE health.overall,
   reasonCodes |->
     IF SnapshotNotReady THEN AddCode(StableReasons, SnapshotReason) ELSE StableReasons,
   operatorAction |-> ProjectOperatorAction]

-----------------------------------------------------------------------------
(* Change Sets: registration.                                              *)

\* #save: the registry, and then the queue in the health.
Saves(entries, id) ==
  /\ registry' = [registry EXCEPT !.entries = entries]
  /\ health' = [health EXCEPT !.queue = QueueState(entries, id)]
Fails == faults < MaxFaults /\ faults' = faults + 1

GateForWriteMode(mode) ==
  IF mode = "none" THEN {}
  ELSE IF Pending(mode) THEN {"upgrade_in_progress"} ELSE {"writes_paused"}
Precedence == <<"recovery_blocked", "recovery_in_progress", "upgrade_in_progress", "writes_paused">>
SelectOperationalGate(gates) ==
  LET found == SelectSeq(Precedence, LAMBDA code : code \in gates) IN
  IF found = << >> THEN None ELSE Head(found)
AdmissionGate ==
  SelectOperationalGate(GateForWriteMode(registry.writeMode) \cup ({ProjectEffectiveGate} \ {None}))

\* submit: a preflight that rejects, or a blocked recovery, registers an answer
\* that is final; a move among other operations is accepted and never executed;
\* a pause registers nothing.
Submit ==
  LET n == Len(registry.entries) + 1
      Entry(state, phase) == [changeSetId |-> n, submissionKey |-> n, enqueueSeq |-> n,
                              state |-> state, executionPhase |-> phase]
      Registers(entry) == Saves(Append(registry.entries, entry), current)
  IN
  /\ Service /\ Serving /\ n <= MaxSubmitted
  /\ \/ AdmissionGate = None /\ Registers(Entry("in_progress", "queued"))
     \/ AdmissionGate = None /\ Registers(Entry("in_progress", None))
     \/ AdmissionGate \in {None, "recovery_blocked"}
        /\ Registers(Entry("intent_not_applied", None))
  /\ UNCHANGED <<host, journal, blocked, current, lease, readiness, control, bounds>>

-----------------------------------------------------------------------------
(* Change Sets: what the holder of the write lease does.                   *)

Newest == journal[Len(journal)]
\* The journal's file keeps two frames.
Persisted(frame) == journal' = IF journal = << >> THEN <<frame>> ELSE <<Newest, frame>>
\* A write that fails may be on disk all the same.
PersistFails(frame) == Fails /\ (Persisted(frame) \/ UNCHANGED journal)

Settled(id, state) ==
  [registry.entries EXCEPT ![id].state = state,
                           ![id].executionPhase = IF @ = None THEN None ELSE "terminal"]
Executing == lease.by = "execution"
Holds(stage) == lease.at = stage
Goto(stage) == lease' = [lease EXCEPT !.at = stage]

\* #resumeQueue's list, empty while recovery is blocked or writes are paused.
Queued(entries) ==
  IF blocked \/ registry.writeMode # "none" THEN << >> ELSE Unfinished(entries)
Draining(entries) == [Idle EXCEPT !.at = "draining", !.todo = Queued(entries)]
\* What a load or a call goes on with when the lease's holder returns, or throws.
Returned(entries) == IF control.at = "recovering" THEN Draining(entries) ELSE control
Thrown ==
  CASE control.at = "recovering" -> [Idle EXCEPT !.at = "failing"]
    [] control.at = "draining" -> [Idle EXCEPT !.at = "down"]
    [] control.at = "resuming" -> Idle
    [] OTHER -> control
\* An execution's finally clause; #recover has none.
CurrentLeft == IF Executing THEN None ELSE current
Released == lease' = Unleased /\ current' = CurrentLeft
\* The holder saves its answer and returns, or fails to and throws.
SavesAnswer(entries) ==
  Released /\ Saves(entries, CurrentLeft) /\ control' = Returned(entries) /\ UNCHANGED faults
FailsToSave ==
  /\ Fails /\ Released /\ control' = Thrown
  /\ health' = [health EXCEPT !.queue = QueueState(registry.entries, CurrentLeft)]
  /\ UNCHANGED registry

\* What #recover has to do about the newest frame.
Proves(phase) ==
  CASE phase = "COMMITTED" -> "intent_applied"
    [] phase = "ROLLED_BACK" -> "intent_not_applied"
    [] OTHER -> None
ToRecover ==
  IF journal = << >> THEN "nothing"
  ELSE LET state == registry.entries[Newest.of].state IN
       CASE Newest.phase = "FAILED" -> "mark"
         [] Newest.phase = "PREPARED" ->
              IF state = "in_progress" THEN "restore"
              ELSE IF state = "intent_applied" THEN "mark" ELSE "nothing"
         [] OTHER ->
              IF state = "in_progress" THEN "record"
              ELSE IF state = Proves(Newest.phase) THEN "nothing" ELSE "mark"

LeaseFree ==
  Service /\ Serving /\ lease = Unleased /\ control.at \notin {"migrate", "resuming"}
\* A submission takes the lease while the Change Set of its key is in progress,
\* the first time and whenever it is repeated.
SubmissionWaits == \E i \in DOMAIN registry.entries : registry.entries[i].state = "in_progress"

\* #recover, of a load or of a submission.
Recover ==
  /\ \/ control.at = "recovering" /\ lease = Unleased
     \/ LeaseFree /\ SubmissionWaits /\ ToRecover # "nothing"
  /\ IF ToRecover = "nothing"
     THEN control' = Draining(registry.entries) /\ UNCHANGED <<blocked, lease>>
     ELSE /\ lease' = [by |-> "recovery", at |-> ToRecover]
          /\ blocked' = (blocked \/ ToRecover = "mark")
          /\ UNCHANGED control
  /\ UNCHANGED <<host, registry, journal, current, health, readiness, bounds>>

\* loadRecoveryFrame throws: a submission does too, and a load goes on blocked.
RecoverFails ==
  /\ control.at = "recovering" /\ lease = Unleased /\ Fails
  /\ control' = [Idle EXCEPT !.at = "failing"]
  /\ UNCHANGED <<host, registry, journal, blocked, current, lease, health, readiness,
                 controls, restarts>>

\* open's catch clause: whatever is unfinished is marked unproven, one save each.
OpenBlocked ==
  LET unfinished == ToSet(Unfinished(registry.entries))
      Marked(ids) == [i \in DOMAIN registry.entries |->
                        IF i \in ids THEN Settled(i, "result_unproven")[i]
                        ELSE registry.entries[i]]
  IN
  /\ control.at = "failing" /\ blocked' = TRUE
  /\ \/ /\ registry' = [registry EXCEPT !.entries = Marked(unfinished)]
        /\ health' = [BlockWritesForUnproven(health) EXCEPT
                         !.queue = QueueState(registry'.entries, None)]
        /\ control' = Idle /\ UNCHANGED faults
     \/ /\ Fails
        /\ \E failing \in unfinished :
             registry' = [registry EXCEPT !.entries = Marked({i \in unfinished : i < failing})]
        /\ control' = [Idle EXCEPT !.at = "down"] /\ UNCHANGED health
  /\ UNCHANGED <<host, journal, current, lease, readiness, controls, restarts>>

\* #executeMutation and #executeMove, up to the preflight.
Begins(id) ==
  /\ registry.writeMode = "none"
  /\ current' = id /\ lease' = [by |-> "execution", at |-> "preflight"]
  /\ health' = [health EXCEPT !.queue = QueueState(registry.entries, id)]
  /\ UNCHANGED <<host, registry, journal, blocked, readiness, bounds>>

\* submit: the head of the queue, once #recover has nothing left to do.
ExecuteBegins ==
  /\ LeaseFree /\ ToRecover = "nothing" /\ ~blocked
  /\ Unfinished(registry.entries) # << >> /\ Begins(Head(Unfinished(registry.entries)))
  /\ UNCHANGED control

\* #resumeQueue: one after another, whatever has become of the ones before.
QueueNext ==
  /\ control.at \in {"draining", "resuming"} /\ lease = Unleased
  /\ \/ control.todo # << >> /\ Begins(Head(control.todo))
        /\ control' = [control EXCEPT !.todo = Tail(@)]
     \/ /\ control.todo = << >> /\ control' = Idle
        /\ health' = IF control.at = "resuming" THEN health
                     ELSE [health EXCEPT !.queue = QueueState(registry.entries, None)]
        /\ UNCHANGED <<host, registry, journal, blocked, current, lease, readiness, bounds>>

\* The second preflight rejects; or PREPARED is written; or something throws
\* before the try block, with current still set.
Reject ==
  /\ Holds("preflight")
  /\ SavesAnswer(Settled(current, "intent_not_applied"))
  /\ UNCHANGED <<host, journal, blocked, readiness, controls, restarts>>
Prepare ==
  /\ Holds("preflight")
  /\ \/ Persisted(Frame(current, "PREPARED")) /\ Goto("prepared")
        /\ UNCHANGED <<faults, control>>
     \/ PersistFails(Frame(current, "PREPARED")) /\ lease' = Unleased /\ control' = Thrown
  /\ UNCHANGED <<host, registry, blocked, current, health, readiness, controls, restarts>>

\* The registry's phase.
MarkExecuting ==
  /\ Holds("prepared")
  /\ \/ /\ Saves([registry.entries EXCEPT ![current].executionPhase = "executing"], current)
        /\ Goto("executing") /\ UNCHANGED faults
     \/ Fails /\ Goto("restore") /\ UNCHANGED <<registry, health>>
  /\ UNCHANGED <<host, journal, blocked, current, readiness, control, controls, restarts>>

\* Everything is verified and COMMITTED written, or anything throws.
Commit ==
  /\ Holds("executing")
  /\ \/ Persisted(Frame(current, "COMMITTED")) /\ Goto("record") /\ UNCHANGED faults
     \/ PersistFails(Frame(current, "COMMITTED")) /\ Goto("restore")
     \/ Goto("restore") /\ UNCHANGED <<journal, faults>>
  /\ UNCHANGED <<host, registry, blocked, current, health, readiness, control, controls, restarts>>

\* #restorePrepared: ROLLED_BACK, or FAILED and the mark.
Restore ==
  /\ Holds("restore")
  /\ \/ /\ Persisted(Frame(Newest.of, "ROLLED_BACK")) /\ Goto("record")
        /\ UNCHANGED <<blocked, faults>>
     \/ Persisted(Frame(Newest.of, "FAILED")) /\ Goto("mark")
        /\ blocked' = TRUE /\ UNCHANGED faults
     \/ /\ \E phase \in {"ROLLED_BACK", "FAILED"} : PersistFails(Frame(Newest.of, phase))
        /\ blocked' = TRUE /\ Goto("mark_and_throw")
  /\ UNCHANGED <<host, registry, current, health, readiness, control, controls, restarts>>

\* The answer a durable COMMITTED or ROLLED_BACK proves.
Record ==
  /\ Holds("record")
  /\ SavesAnswer(Settled(Newest.of, Proves(Newest.phase))) \/ FailsToSave
  /\ UNCHANGED <<host, journal, blocked, readiness, controls, restarts>>

\* #markUnproven after its flag: the save, and the health.  The error of a FAILED
\* that could not be written goes on from here.
MarkUnproven ==
  LET entries == Settled(Newest.of, "result_unproven") IN
  /\ Holds("mark") \/ Holds("mark_and_throw")
  /\ \/ /\ Released /\ UNCHANGED faults
        /\ registry' = [registry EXCEPT !.entries = entries]
        /\ health' =
             BlockWritesForUnproven([health EXCEPT !.queue = QueueState(entries, CurrentLeft)])
        /\ control' = IF Holds("mark") THEN Returned(entries) ELSE Thrown
     \/ FailsToSave
  /\ UNCHANGED <<host, journal, blocked, readiness, controls, restarts>>

-----------------------------------------------------------------------------
(* The control calls.  One runs at a time, and waits for the write lease   *)
(* where the service does.  A call whose first save fails has done nothing *)
(* that can be seen.                                                       *)

Called ==
  /\ Service /\ control.at = "idle"
  /\ controls < MaxControls /\ controls' = controls + 1
SetWriteMode(mode) == registry' = [registry EXCEPT !.writeMode = mode]

\* pauseWrites: maintenance has to be resumed first.
Pause ==
  /\ Called
  /\ registry.writeMode \notin {"maintenance_pending", "maintenance_failed", "maintenance_paused"}
  /\ SetWriteMode("manual_paused")
  /\ health' = [health EXCEPT !.write = Write(@.gate, "pausing", "manual"),
                              !.effectiveGate = "writes_paused",
                              !.operatorAction = "resume_writes"]
  /\ control' = [Idle EXCEPT !.at = "pausing"]
  /\ UNCHANGED <<host, journal, blocked, current, lease, readiness, faults, restarts>>

PauseCompleted ==
  /\ control.at = "pausing" /\ lease = Unleased /\ control' = Idle
  /\ health' = IF health.recovery = "blocked" \/ health.write.gate = "blocked" THEN health
               ELSE [health EXCEPT !.write = Write("open", "paused", "manual")]
  /\ UNCHANGED <<host, registry, journal, blocked, current, lease, readiness, bounds>>

\* runMaintenance: its started() observer, before the running execution is waited for.
Maintain ==
  LET retrying == "upgrade_failed" \in ToSet(health.reasonCodes)
      safety == health.write.gate = "blocked" /\ ~retrying
  IN
  /\ Called
  /\ SetWriteMode("maintenance_pending")
  /\ health' = [health EXCEPT !.write = Write(IF safety THEN "blocked" ELSE "open",
                                              "pausing", "maintenance"),
                              !.effectiveGate = "upgrade_in_progress",
                              !.operatorAction = "finish_upgrade"]
  /\ control' = [Idle EXCEPT !.at = "maintaining", !.retrying = retrying, !.safety = safety]
  /\ UNCHANGED <<host, journal, blocked, current, lease, readiness, faults, restarts>>

MaintenanceDrained ==
  /\ control.at = "maintaining" /\ lease = Unleased
  /\ control' = [control EXCEPT !.at = "migrate"]
  /\ UNCHANGED <<host, registry, journal, blocked, current, lease, health, readiness, bounds>>

\* The observers failed() and completed().
FailedHealth(h) ==
  [h EXCEPT !.write = Write("blocked", "paused", "maintenance"),
            !.effectiveGate = "upgrade_in_progress", !.lifecycle = "failed",
            !.overall = "blocked", !.reasonCodes = AddCode(@, "upgrade_failed")]
CompletedKeepsReason(h, retrying, safety) ==
  IF h.recovery = "blocked" THEN h
  ELSE [h EXCEPT !.write = Write(IF safety THEN "blocked" ELSE "open", "paused", "maintenance"),
                 !.effectiveGate = "writes_paused", !.operatorAction = "resume_writes",
                 !.lifecycle = "succeeded"]
CompletedHealth(h, retrying, safety) ==
  IF h.recovery = "blocked"
  THEN [h EXCEPT !.write = Write("blocked", "paused", None), !.lifecycle = "succeeded"]
  ELSE [h EXCEPT !.write = Write(IF safety THEN "blocked" ELSE "open", "paused", "maintenance"),
                 !.effectiveGate = "writes_paused",
                 !.reasonCodes = Without(@, {"upgrade_failed"}),
                 !.overall = IF retrying /\ ~safety THEN "healthy" ELSE @,
                 !.operatorAction = "resume_writes", !.lifecycle = "succeeded"]

\* The migration succeeds or fails, and its outcome is saved; a save that fails
\* leaves everything as it was.
Migrate ==
  /\ control.at = "migrate" /\ control' = Idle
  /\ \/ /\ registry' = [registry EXCEPT !.writeMode = "maintenance_paused",
                                        !.lifecycle = "succeeded"]
        /\ health' = CompletedHealth(health, control.retrying, control.safety)
        /\ UNCHANGED faults
     \/ /\ Fails
        /\ registry' = [registry EXCEPT !.writeMode = "maintenance_failed", !.lifecycle = "failed"]
        /\ health' = FailedHealth(health)
     \/ Fails /\ UNCHANGED <<registry, health>>
  /\ UNCHANGED <<host, journal, blocked, current, lease, readiness, controls, restarts>>

\* resumeWrites: assertSafe, and the mode that may be left.
MayResume == health.write.gate # "blocked" /\ ~Pending(registry.writeMode)
Resume ==
  /\ Called /\ lease = Unleased /\ MayResume
  /\ SetWriteMode("none")
  /\ control' = [Idle EXCEPT !.at = "resuming",
                             !.todo = IF blocked THEN << >> ELSE Unfinished(registry.entries)]
  /\ health' = [health EXCEPT !.write = Write("open", "writable", None),
                              !.effectiveGate = None, !.operatorAction = "none"]
  /\ UNCHANGED <<host, journal, blocked, current, lease, readiness, faults, restarts>>

Next ==
  \/ Restart \/ SnapshotChanges
  \/ Submit \/ Recover \/ RecoverFails \/ OpenBlocked
  \/ ExecuteBegins \/ QueueNext \/ Reject \/ Prepare \/ MarkExecuting \/ Commit
  \/ Restore \/ Record \/ MarkUnproven
  \/ Pause \/ PauseCompleted \/ Maintain \/ MaintenanceDrained \/ Migrate \/ Resume

Spec == Init /\ [][Next]_vars

-----------------------------------------------------------------------------
(* The tools of an MCP session: what tools/list shows, and what a call of  *)
(* a tool is answered.                                                     *)

ContentTools == {"vault_discover", "vault_read", "vault_continue"}
ChangeSetTools == {"vault_change_set_submit", "vault_change_set_status"}
Tools == {"vault_health"} \cup ContentTools \cup ChangeSetTools
\* Every session of a restricted Bridge is an incompatible one.
Incompatible == Restricted
Offered == (IF Restricted THEN {} ELSE ContentTools) \cup (IF Service THEN ChangeSetTools ELSE {})

ListTools == {"vault_health"} \cup IF Incompatible THEN ContentTools \cup ChangeSetTools ELSE Offered

BlocksVaultContent(gate) == gate \in {"recovery_in_progress", "recovery_blocked"}

CallTool(tool) ==
  IF tool = "vault_health" THEN IF Incompatible THEN "incompatible" ELSE "observed"
  ELSE IF Incompatible THEN "operationally_blocked"
  ELSE IF tool \notin Offered THEN "not_found"
  ELSE IF tool \in ContentTools /\ BlocksVaultContent(ProjectEffectiveGate)
  THEN "operationally_blocked"
  ELSE IF tool = "vault_change_set_submit" /\ AdmissionGate \notin {None, "recovery_blocked"}
  THEN "operationally_blocked" ELSE "served"

-----------------------------------------------------------------------------
(* The diagnostic evidence: #collectDiagnosticEvidence.                    *)

Slot(slot, sequence, frame) ==
  [slot |-> slot, state |-> "valid", checksum |-> "valid", sequence |-> sequence,
   phase |-> frame.phase, frameSchemaVersion |-> 2, changeSetId |-> frame.of]
NoFrame(slot, state) ==
  [slot |-> slot, state |-> state,
   checksum |-> IF state = "empty" THEN "not_present" ELSE "invalid"]
Available(first, second) ==
  [availability |-> "available", journalVersion |-> 1, headerChecksum |-> "valid",
   frames |-> <<first, second>>]

\* diagnosticFacts(): the two slots, of which a write that is under way, or was torn,
\* has spoilt the older one.
Facts(frames) ==
  CASE Len(frames) = 0 -> {Available(NoFrame(0, "empty"), NoFrame(1, "empty"))}
    [] Len(frames) = 1 ->
         {Available(Slot(0, 1, frames[1]), NoFrame(1, state)) : state \in {"empty", "invalid"}}
    [] OTHER ->
         {Available(Slot(0, 3, frames[2]), older)
            : older \in {Slot(1, 2, frames[1]), NoFrame(1, "invalid")}}
         \cup {Available(Slot(0, 1, frames[1]), Slot(1, 2, frames[2]))}
\* It is read before the rest is sampled, and a frame may be written in between.
\* Without an adapter there is no journal to read.
JournalFacts ==
  IF WriteUnavailable THEN {[availability |-> "unavailable", frames |-> << >>]}
  ELSE Facts(journal) \cup IF journal = << >> THEN {} ELSE Facts(Front(journal))

CollectDiagnosticEvidence(facts) ==
  [vaultId |-> "vault",
   versions |-> [bridge |-> [wellFormed |-> TRUE], plugin |-> [wellFormed |-> TRUE],
                 protocol |-> [wellFormed |-> TRUE],
                 persistentStateSchema |-> 2, recoveryJournalSchema |-> 2],
   health |-> ProjectObservedHealth,
   listener |-> [address |-> "127.0.0.1", port |-> 27123],
   queue |-> health.queue,
   lifecycle |-> [startup |-> "ready", upgrade |-> health.lifecycle,
                  migration |-> health.lifecycle, recovery |-> "not_run"],
   journal |-> facts,
   changeSets |-> IF Restricted THEN << >> ELSE registry.entries,
   machineEvents |-> << >>]

-----------------------------------------------------------------------------
(* Properties.                                                             *)

TypeOK ==
  /\ host \in [fileSystem : BOOLEAN, newer : BOOLEAN]
  /\ registry.writeMode \in WriteModes /\ registry.lifecycle \in Diagnostics!OutcomeStates
  /\ Len(registry.entries) <= MaxSubmitted
  /\ ToSet(registry.entries) \subseteq Entries(Len(registry.entries))
  /\ Len(journal) <= 2
  /\ ToSet(journal) \subseteq [of : 1..MaxSubmitted, phase : Diagnostics!JournalPhases]
  /\ blocked \in BOOLEAN /\ current \in DOMAIN registry.entries \cup {None}
  /\ lease \in {Unleased} \cup
       [by : {"execution", "recovery"},
        at : {"preflight", "prepared", "executing", "restore", "record", "mark", "mark_and_throw"}]
  /\ readiness \in Diagnostics!ReadinessStates
  /\ control.at \in {"idle", "recovering", "failing", "draining", "down", "pausing",
                      "maintaining", "migrate", "resuming"}
  /\ {control.retrying, control.safety} \subseteq BOOLEAN
  /\ ToSet(control.todo) \subseteq DOMAIN registry.entries
  /\ controls \in 0..MaxControls /\ faults \in 0..MaxFaults /\ restarts \in 0..MaxRestarts

\* Health is told, and there is a service it is told of.
Tells == Service /\ Serving
ToldBlocked == health.recovery = "blocked"

\* The gate health tells is the one the persisted write mode and a told block make,
\* in the order of precedence, through every call and failure; a block it tells is
\* the service's, and the service's is told from the moment its mark is saved.  A
\* mark that cannot be saved is not told.
GateIsTrue ==
  Tells =>
    /\ ProjectEffectiveGate =
         SelectOperationalGate(GateForWriteMode(registry.writeMode)
                               \cup IF ToldBlocked THEN {"recovery_blocked"} ELSE {})
    /\ ToldBlocked => blocked
    /\ blocked /\ faults = 0 => ToldBlocked \/ lease.at = "mark"

\* While no block is told, health tells writable, pausing or paused, by whom, and
\* a blocked write gate exactly when the persisted mode and the running call say
\* so, and nothing executes once it says paused, across crashes and failed calls.
WritesAreTrue ==
  Tells /\ ~ToldBlocked =>
    LET write == health.write IN
    /\ write.state = "writable" <=> registry.writeMode = "none"
    /\ write.state = "paused" => ~Executing
    /\ write.gate = "blocked" <=> registry.writeMode = "maintenance_failed"
    /\ write.pauseSource = "manual" <=> registry.writeMode = "manual_paused"

\* The action health asks the operator for is one that helps: a resume that
\* would not throw, a maintenance run while one is due, none when none is.
ActionHelps ==
  Tells /\ ~ToldBlocked =>
    LET action == ProjectOperatorAction IN
    /\ action = "resume_writes" => MayResume /\ registry.writeMode # "none"
    /\ action = "finish_upgrade" => Pending(registry.writeMode)
    /\ action = "none" => registry.writeMode = "none" /\ readiness = "ready"
    /\ registry.writeMode = "maintenance_failed" => action = "finish_upgrade"

\* Nothing is called healthy while a block is told, the Search Snapshot is not
\* ready or the last maintenance failed; a failed one is named as long as it is
\* not repeated with success.
HealthyIsTrue ==
  LET told == ProjectObservedHealth IN
  /\ Serving /\ told.overall = "healthy" =>
       Service /\ ~ToldBlocked /\ readiness = "ready"
       /\ registry.writeMode # "maintenance_failed"
  /\ Tells /\ ~ToldBlocked =>
       /\ registry.writeMode = "maintenance_failed" =>
            "upgrade_failed" \in ToSet(told.reasonCodes)
       /\ "upgrade_failed" \in ToSet(told.reasonCodes) => Pending(registry.writeMode)

\* Whatever the runtime has gone through, both diagnostic producers accept its
\* evidence and their bundles verify; in a bundle the queue, the journal and the
\* outcomes speak of the same Change Sets: what executes is at the head, is named
\* as long as it does, and afterwards only if something failed.
BundlesAreTrue ==
  Serving =>
  \A facts \in JournalFacts :
    LET e == CollectDiagnosticEvidence(facts)
        bundle == Diagnostics!CreateStandardDiagnosticBundle(e, 1)
        queue == bundle.queueTimeline[1]
        outcomes == ToSet(bundle.changeSetOutcomes)
        pending == {o \in outcomes : o.executionPhase \in {"queued", "executing"}}
        Aliases(some) == {o.changeSetAlias : o \in some}
    IN /\ Diagnostics!ParseEvidence(e)
       /\ Diagnostics!VerifyStandardDiagnosticBundle(bundle)
       /\ Diagnostics!VerifyContentInclusiveDiagnosticBundle(
            Diagnostics!ContentInclusiveCopy("selection", TRUE, e).clipboard)
       /\ Service =>
            /\ {queue.currentExecutionAlias, queue.headChangeSetAlias} \ {None}
                 \subseteq Aliases(outcomes)
            /\ queue.headChangeSetAlias # None => queue.headChangeSetAlias \in Aliases(pending)
            /\ queue.length = Len(SelectSeq(bundle.changeSetOutcomes, LAMBDA o : o \in pending))
            /\ \A o \in pending : o.executionPhase = "executing" =>
                 o.changeSetAlias = queue.headChangeSetAlias
            /\ Executing => queue.currentExecutionAlias = queue.headChangeSetAlias
            /\ queue.currentExecutionAlias # None => Executing \/ faults > 0
            /\ {f.changeSetAlias : f \in {g \in ToSet(bundle.journal.frames) : g.state = "valid"}}
                 \subseteq Aliases(outcomes)

\* A tool a session is shown is a tool it is answered, and no other; content is
\* served through every pause and maintenance, and refused only by a blocked service.
ToolsAreAnswered ==
  Serving =>
    \A tool \in Tools :
      /\ tool \in ListTools <=> CallTool(tool) # "not_found"
      /\ Service /\ tool \in ContentTools => (CallTool(tool) # "served" => blocked)

HealthIsTrue ==
  /\ TypeOK /\ GateIsTrue /\ WritesAreTrue /\ ActionHelps /\ HealthyIsTrue
  /\ ToolsAreAnswered /\ BundlesAreTrue

\* What one may expect of the code and it does not do: once writes are open, the
\* Search Snapshot is ready and nothing is unproven, health is healthy again.  No
\* control call restores overall or the reasons a load began with.
HealthRecovers ==
  Tells /\ ~blocked /\ registry.writeMode = "none" /\ readiness = "ready" =>
    /\ ProjectObservedHealth.overall = "healthy" /\ ProjectObservedHealth.reasonCodes = << >>
    /\ ProjectObservedHealth.operatorAction = "none"
=============================================================================
