-------------------------- MODULE ReleaseLifecycle --------------------------
(***************************************************************************)
(* Deploying the plugin into one Managed Vault: lifecycle/install-release, *)
(* upgrade-release and uninstall-release, with the plugin that may be      *)
(* loaded meanwhile and the process deaths the file operations survive.    *)
(*                                                                         *)
(* Four directories of <vault>/.obsidian/plugins take part in an install:  *)
(* the plugin's own (live) and its dot-siblings staging, backup, failed.   *)
(* A directory is the bytes of its release-managed files and the           *)
(* operational state it carries, of which the upgrade evidence matters.    *)
(***************************************************************************)
EXTENDS Naturals, FiniteSets

CONSTANTS
  Files,       \* the release-managed file names
  Manifest,    \* the one that carries the version
  MaxCommands, \* bound: operator commands started
  MaxFaults,   \* bound: failing file operations and tampered files
  MaxCrashes   \* bound: process deaths

ASSUME FilesAssumption == Manifest \in Files
ASSUME BoundsAssumption ==
  MaxCommands \in Nat /\ MaxFaults \in Nat /\ MaxCrashes \in Nat

Versions == {"old", "new"}
Content == Versions \cup {"damaged", "missing"}
Outcomes == {"none", "in_progress", "succeeded", "failed", "rolled_back"}
Modes == {"none", "maintenance_pending", "maintenance_paused", "maintenance_failed"}
Directory == [set : [Files -> Content], evidence : Outcomes]
NoDir == [set |-> [f \in Files |-> "missing"], evidence |-> "absent"]
Dirs == Directory \cup {NoDir}
Idle == [at |-> "idle", version |-> "old", had |-> FALSE, result |-> "none"]
NoUpgrade == [at |-> "none", from |-> "old", to |-> "new", ceiling |-> 1, phases |-> 0,
              replaced |-> FALSE, spare |-> FALSE, same |-> TRUE, attached |-> TRUE,
              work |-> "none", valid |-> FALSE, outcome |-> "none"]

VARIABLES
  live, staging, backup, failed, \* the four directories
  schema,      \* schemaVersion of the authoritative bridge-state.json
  mode,        \* its changeSets.writeMode
  work,        \* what its registry holds: nothing, a queued or an executing Change Set
  newSchema,   \* the schema the new release writes (rigid)
  runtime,     \* the version of the loaded plugin, or "none"
  command,     \* the operator command that runs, or "none"
  inst,        \* installOneTarget: where it is
  up,          \* upgradeManagedVaultRelease: where it is, its closure's variables
  commands, faults, crashes,
  tampered,    \* history: somebody damaged a managed file since the set was last whole
  deployed,    \* history: a whole set was live and no uninstall began
  unsettled,   \* history: an upgrade began to change things and has not succeeded
  sawRuntime   \* history: a plugin was loaded while the command ran

dirs == <<live, staging, backup, failed>>
stored == <<schema, mode, work, newSchema>>
bounds == <<commands, faults, crashes>>
history == <<tampered, deployed, unsettled, sawRuntime>>
vars == <<dirs, stored, runtime, command, inst, up, bounds, history>>

SchemaOf(v) == IF v = "new" THEN newSchema ELSE 1
Whole(d, v) == d # NoDir /\ \A f \in Files : d.set[f] = v
Complete(d) == \E v \in Versions : Whole(d, v)
Uniform(v) == [f \in Files |-> v]
\* The plugin loads, but only to refuse: what is persisted is newer than it.
Restricted == runtime = "none" \/ schema > SchemaOf(runtime)

TypeOK ==
  /\ live \in Dirs /\ staging \in Dirs /\ backup \in Dirs /\ failed \in Dirs
  /\ schema \in 1..2 /\ newSchema \in 1..2 /\ mode \in Modes
  /\ work \in {"none", "queued", "executing"}
  /\ runtime \in Versions \cup {"none"}
  /\ command \in {"none", "install", "upgrade", "uninstall"}
  /\ inst \in [at : {"idle", "recover", "inspect", "stage", "staged", "swap", "verify",
                     "undo", "undoFailed", "cleanup"},
               version : Versions, had : BOOLEAN,
               result : {"none", "success", "unchanged", "failed"}]
  /\ up \in [at : {"none", "evidence", "drain", "replace",
                   "reload", "migrate", "recovery", "health", "succeed", "append",
                   "failing", "rollback", "reloadBack", "mark", "record",
                   "state", "journal", "remove"},
             from : Versions, to : Versions, ceiling : 1..2, phases : 0..5,
             replaced : BOOLEAN, spare : BOOLEAN, same : BOOLEAN, attached : BOOLEAN,
             work : {"none", "queued", "executing"}, valid : BOOLEAN, outcome : Outcomes]
  /\ commands \in 0..MaxCommands /\ faults \in 0..MaxFaults /\ crashes \in 0..MaxCrashes
  /\ \A b \in {tampered, deployed, unsettled, sawRuntime} : b \in BOOLEAN

Init ==
  /\ \/ live = NoDir
     \/ \E d \in {Uniform("old")} \cup {[Uniform("old") EXCEPT ![f] = "damaged"] : f \in Files} :
          live = [set |-> d, evidence |-> "none"]
  /\ staging = NoDir /\ backup = NoDir /\ failed = NoDir
  /\ schema = 1 /\ mode = "none" /\ work = "none" /\ newSchema \in 1..2
  /\ runtime = "none" /\ command = "none" /\ inst = Idle /\ up = NoUpgrade
  /\ commands = 0 /\ faults = 0 /\ crashes = 0
  /\ tampered = FALSE /\ deployed = Complete(live) /\ unsettled = FALSE /\ sawRuntime = FALSE

Fault == faults < MaxFaults /\ faults' = faults + 1
NoFault == UNCHANGED faults
\* What every step does to the history variables.
History ==
  /\ sawRuntime' = ((command # "none" /\ (sawRuntime \/ runtime # "none")) \/ runtime' # "none")
  /\ deployed' = ((deployed \/ Complete(live')) /\ up'.at # "remove")
  /\ tampered' = (/\ ~Complete(live')
                  /\ \/ tampered
                     \/ \E f \in Files : live'.set[f] = "damaged" /\ live.set[f] # "damaged")

-----------------------------------------------------------------------------
(* The loaded plugin and its host.                                         *)

\* Obsidian loads what the plugin directory holds; load() migrates what is
\* persisted and recovers what executed, unless it is newer than the plugin.
LoadedBy(v) ==
  /\ runtime' = v
  /\ IF schema <= SchemaOf(v)
     THEN schema' = SchemaOf(v) /\ work' = IF work = "executing" THEN "none" ELSE work
     ELSE UNCHANGED <<schema, work>>

LoadRuntime ==
  /\ runtime = "none" /\ command # "upgrade"
  /\ \E v \in Versions : Whole(live, v) /\ LoadedBy(v)
  /\ UNCHANGED <<dirs, mode, newSchema, command, inst, up, bounds, unsettled>>
  /\ History

UnloadRuntime ==
  /\ runtime # "none" /\ command # "upgrade" /\ runtime' = "none"
  /\ UNCHANGED <<dirs, stored, command, inst, up, bounds, unsettled>>
  /\ History

\* A Change Set is accepted, starts when writes are open, and is settled.
RuntimeWorks ==
  /\ ~Restricted
  /\ \/ work = "none" /\ mode = "none" /\ work' = "queued"
     \/ work = "queued" /\ mode = "none" /\ work' = "executing"
     \/ work = "executing" /\ work' = "none"
  /\ UNCHANGED <<dirs, schema, mode, newSchema, runtime, command, inst, up, bounds, unsettled>>
  /\ History

\* The Primary Operator's own calls: resumeWrites(), and a maintenance pass
\* that finishes an interrupted one.
Resume ==
  /\ ~Restricted /\ work # "executing" /\ mode = "maintenance_paused" /\ mode' = "none"
  /\ UNCHANGED <<dirs, schema, work, newSchema, runtime, command, inst, up, bounds, unsettled>>
  /\ History

FinishMaintenance ==
  /\ ~Restricted /\ command = "none" /\ work # "executing"
  /\ mode \in {"maintenance_pending", "maintenance_failed"} /\ mode' = "maintenance_paused"
  /\ UNCHANGED <<dirs, schema, work, newSchema, runtime, command, inst, up, bounds, unsettled>>
  /\ History

\* Somebody damages a managed file of the live directory.
Tamper ==
  /\ Complete(live) /\ Fault
  /\ \E f \in Files : live' = [live EXCEPT !.set[f] = "damaged"]
  /\ UNCHANGED <<staging, backup, failed, stored, runtime, command, inst, up, commands, crashes,
                 unsettled>>
  /\ History

\* The process that runs the command dies; the plugin dies with it when the
\* command drives it (upgrade), and may die otherwise. A directory that was
\* being written or removed stays half done.
Crash ==
  /\ crashes < MaxCrashes /\ crashes' = crashes + 1
  /\ command # "none" /\ command' = "none" /\ inst' = Idle /\ up' = NoUpgrade
  /\ runtime' \in (IF command = "upgrade" THEN {"none"} ELSE {"none", runtime})
  /\ \/ UNCHANGED dirs
     \/ /\ inst.at = "cleanup" /\ backup # NoDir
        /\ backup' = [backup EXCEPT !.set = Uniform("missing")]
        /\ UNCHANGED <<live, staging, failed>>
     \/ /\ inst.at = "stage"
        /\ staging' = [set |-> Uniform("missing"), evidence |-> "none"]
        /\ UNCHANGED <<live, backup, failed>>
  /\ UNCHANGED <<stored, commands, faults, unsettled>>
  /\ History

-----------------------------------------------------------------------------
(* installOneTarget: for a command of its own, or inside an upgrade.       *)

Install(v) == [at |-> "recover", version |-> v, had |-> FALSE, result |-> "none"]
At(a) == inst' = [inst EXCEPT !.at = a]
Returns(r) == inst' = [inst EXCEPT !.at = "idle", !.result = r]
Installing(a) ==
  /\ inst.at = a
  /\ UNCHANGED <<stored, runtime, command, up, commands, crashes, unsettled>>

RestoresNothing == FALSE
RestoresBackup == live = NoDir

\* recoverInterruptedInstall: back to the old-or-new boundary, one file
\* operation at a time.
InstallRecover ==
  /\ Installing("recover")
  /\ \/ /\ backup # NoDir /\ RestoresBackup
        /\ live' = backup /\ backup' = NoDir /\ NoFault
        /\ UNCHANGED <<staging, failed, inst>>
     \/ /\ backup # NoDir /\ ~RestoresBackup
        /\ backup' = NoDir /\ NoFault
        /\ UNCHANGED <<live, staging, failed, inst>>
     \/ /\ backup = NoDir
        /\ staging' = NoDir /\ failed' = NoDir /\ NoFault /\ At("inspect")
        /\ UNCHANGED <<live, backup>>
     \/ Fault /\ Returns("failed") /\ UNCHANGED dirs
  /\ History

NothingToRewrite == Whole(live, inst.version)

\* readBundleBytes and inspectInstalledManagedSet: drift of the bundle, a set
\* that needs nothing, or a staging directory to build.
InstallInspect ==
  /\ Installing("inspect")
  /\ \/ NothingToRewrite /\ NoFault /\ Returns("unchanged")
     \/ /\ ~NothingToRewrite /\ NoFault
        /\ inst' = [inst EXCEPT !.at = "stage", !.had = (live # NoDir)]
     \/ Fault /\ Returns("failed")
  /\ UNCHANGED dirs
  /\ History

Carried == IF inst.had THEN live.evidence ELSE "none"

\* The bundle's files and a copy of every entry that is not managed, verified;
\* what could not be staged is removed.
InstallStage ==
  /\ Installing("stage")
  /\ \/ /\ staging' = [set |-> Uniform(inst.version),
                       evidence |-> Carried]
        /\ NoFault /\ At("staged")
     \/ Fault /\ staging' = NoDir /\ Returns("failed")
  /\ UNCHANGED <<live, backup, failed>>
  /\ History

\* The first rename of the swap. Its failure leaves everything in place.
SwapOut ==
  /\ Installing("staged")
  /\ \/ /\ IF inst.had THEN backup' = live /\ live' = NoDir ELSE UNCHANGED <<live, backup>>
        /\ NoFault /\ At("swap") /\ UNCHANGED staging
     \/ inst.had /\ Fault /\ staging' = NoDir /\ Returns("failed") /\ UNCHANGED <<live, backup>>
  /\ UNCHANGED failed
  /\ History

\* The second rename; when it fails the first is taken back, unless that
\* fails too.
SwapIn ==
  /\ Installing("swap")
  /\ \/ /\ live' = staging /\ staging' = NoDir
        /\ NoFault /\ At("verify") /\ UNCHANGED backup
     \/ /\ Fault /\ staging' = NoDir /\ Returns("failed")
        /\ IF inst.had THEN live' = backup /\ backup' = NoDir ELSE UNCHANGED <<live, backup>>
     \/ /\ inst.had /\ faults + 2 <= MaxFaults /\ faults' = faults + 2
        /\ staging' = NoDir /\ Returns("failed") /\ UNCHANGED <<live, backup>>
  /\ UNCHANGED failed
  /\ History

\* The post-swap inspection; an error other than a missing file escapes
\* installOneTarget, and the new set stays.
VerifySwap ==
  /\ Installing("verify")
  /\ \/ Whole(live, inst.version) /\ NoFault /\ At("cleanup")
     \/ ~Whole(live, inst.version) /\ NoFault /\ At("undo")
     \/ Fault /\ Returns("failed")
  /\ UNCHANGED dirs
  /\ History

\* rollbackVerifiedSwap, rename by rename.
UndoSwap ==
  /\ Installing("undo")
  /\ \/ failed' = live /\ live' = NoDir /\ NoFault /\ At("undoFailed")
     \/ Fault /\ Returns("failed") /\ UNCHANGED <<live, failed>>
  /\ UNCHANGED <<staging, backup>>
  /\ History

RestoreBackup ==
  /\ Installing("undoFailed") /\ Returns("failed")
  /\ \/ /\ IF inst.had THEN live' = backup /\ backup' = NoDir ELSE UNCHANGED <<live, backup>>
        /\ failed' = NoDir /\ NoFault
     \/ Fault /\ UNCHANGED <<live, backup, failed>>
  /\ UNCHANGED staging
  /\ History

\* The backup is removed; residue is reported as a failure although the new
\* set is live.
CleanUp ==
  /\ Installing("cleanup")
  /\ \/ backup' = NoDir /\ NoFault /\ Returns("success")
     \/ backup # NoDir /\ Fault /\ Returns("failed") /\ UNCHANGED backup
  /\ UNCHANGED <<live, staging, failed>>
  /\ History

InstallStep ==
  \/ InstallRecover \/ InstallInspect \/ InstallStage \/ SwapOut \/ SwapIn
  \/ VerifySwap \/ UndoSwap \/ RestoreBackup \/ CleanUp

\* installReleaseToManagedVaults for one target that passed its preflight.
StartInstall(v) ==
  /\ command = "none" /\ commands < MaxCommands /\ commands' = commands + 1
  /\ command' = "install" /\ inst' = Install(v)
  /\ UNCHANGED <<dirs, stored, runtime, up, faults, crashes, unsettled>>
  /\ History

InstallDone ==
  /\ command = "install" /\ inst.at = "idle"
  /\ command' = "none" /\ inst' = Idle
  /\ UNCHANGED <<dirs, stored, runtime, up, bounds, unsettled>>
  /\ History

-----------------------------------------------------------------------------
(* upgradeManagedVaultRelease.                                             *)

Upgrading(a) ==
  /\ command = "upgrade" /\ up.at = a /\ inst.at = "idle"
  /\ UNCHANGED <<staging, backup, failed, newSchema, commands, crashes>>
Goes(a) == up' = [up EXCEPT !.at = a]
Fails == up' = [up EXCEPT !.at = "failing", !.outcome = "failed"]
Quiet == UNCHANGED <<live, stored, runtime, command, inst, unsettled>>

\* persistEvidence: a temporary file and a rename inside the live directory.
Persist(o) == live # NoDir /\ live' = [live EXCEPT !.evidence = o]

\* Preflight: a whole set, a rollback bundle of its version or none, and a
\* plugin that reports itself writable. Nothing was written when it refuses.
StartUpgrade(v) ==
  /\ command = "none" /\ commands < MaxCommands /\ commands' = commands + 1
  /\ ~Restricted /\ mode = "none"
  /\ \E from \in Versions, spare \in BOOLEAN :
       /\ Whole(live, from)
       /\ up' = [NoUpgrade EXCEPT !.at = "evidence", !.from = from, !.to = v,
                                  !.ceiling = SchemaOf(runtime), !.spare = spare,
                                  !.same = (runtime = from), !.work = work,
                                  !.outcome = "in_progress"]
  /\ command' = "upgrade" /\ inst' = Idle
  /\ UNCHANGED <<dirs, stored, runtime, faults, crashes, unsettled>>
  /\ History

\* The record that makes an interruption detectable, before anything changes.
RecordStart ==
  /\ Upgrading("evidence")
  /\ \/ Persist("in_progress") /\ NoFault /\ Goes("drain") /\ UNCHANGED command
     \/ Fault /\ command' = "none" /\ up' = NoUpgrade /\ UNCHANGED live
  /\ UNCHANGED <<stored, runtime, inst, unsettled>>
  /\ History

DrainedAtOnce == TRUE
DrainedOfQueue == work = "none"
Drained == work # "executing"

\* runOperatorMaintenance closes the gate, waits for what executes, and then
\* installs the bundle.
Drain ==
  /\ Upgrading("drain") /\ NoFault
  /\ unsettled' = TRUE
  /\ \/ /\ mode # "maintenance_pending" /\ mode' = "maintenance_pending"
        /\ UNCHANGED <<up, inst>>
     \/ /\ mode = "maintenance_pending" /\ Drained
        /\ Goes("replace") /\ inst' = Install(up.to) /\ UNCHANGED mode
  /\ UNCHANGED <<live, schema, work, runtime, command>>
  /\ History

\* The rest of the pass: migrateState and recheckHealth of the old plugin.
ReplaceReturned ==
  /\ Upgrading("replace")
  /\ \/ /\ inst.result = "failed" /\ mode' = "maintenance_failed" /\ Fails /\ NoFault
     \/ /\ inst.result # "failed" /\ mode' = "maintenance_paused" /\ NoFault
        /\ up' = [up EXCEPT !.at = "append", !.replaced = TRUE]
     \/ /\ inst.result # "failed" /\ mode' = "maintenance_failed" /\ Fault
        /\ up' = [up EXCEPT !.at = "failing", !.outcome = "failed", !.replaced = TRUE]
  /\ inst' = Idle
  /\ UNCHANGED <<live, schema, work, runtime, command, unsettled>>
  /\ History

\* appendPhase: the phases in their durable order, each recorded before the
\* next begins.
AppendPhase ==
  /\ Upgrading("append")
  /\ \/ /\ Persist("in_progress") /\ NoFault
        /\ up' = [up EXCEPT !.phases = up.phases + 1,
                            !.at = <<"reload", "migrate", "recovery", "health",
                                     "succeed">>[up.phases + 1]]
     \/ Fault /\ Fails /\ UNCHANGED live
  /\ UNCHANGED <<stored, runtime, command, inst, unsettled>>
  /\ History

\* The host reloads the plugin from what is on disk. A reload that fails may
\* leave a plugin the upgrade has no handle of.
Reload ==
  /\ Upgrading("reload")
  /\ \/ \E v \in Versions : Whole(live, v) /\ LoadedBy(v) /\ NoFault /\ Goes("append")
     \/ /\ Fault /\ up' = [up EXCEPT !.at = "failing", !.outcome = "failed", !.attached = FALSE]
        /\ \/ runtime' = "none" /\ UNCHANGED <<schema, work>>
           \/ \E v \in Versions : Whole(live, v) /\ LoadedBy(v)
     \/ /\ ~Complete(live) /\ runtime' = "none" /\ NoFault
        /\ up' = [up EXCEPT !.at = "failing", !.outcome = "failed", !.attached = FALSE]
        /\ UNCHANGED <<schema, work>>
  /\ UNCHANGED <<live, mode, command, inst, unsettled>>
  /\ History

\* The second pass: the running files are the bundle's.
Migrate ==
  /\ Upgrading("migrate")
  /\ \/ Restricted /\ Fails /\ NoFault /\ UNCHANGED mode
     \/ /\ ~Restricted /\ mode # "maintenance_pending"
        /\ mode' = "maintenance_pending" /\ NoFault /\ UNCHANGED up
     \/ /\ ~Restricted /\ mode = "maintenance_pending" /\ Drained
        /\ \/ Whole(live, up.to) /\ mode' = "maintenance_paused" /\ NoFault /\ Goes("append")
           \/ ~Whole(live, up.to) /\ mode' = "maintenance_failed" /\ NoFault /\ Fails
           \/ Fault /\ mode' = "maintenance_failed" /\ Fails
  /\ UNCHANGED <<live, schema, work, runtime, command, inst, unsettled>>
  /\ History

QueueUnchecked == TRUE
QueuePreserved == work = up.work

\* Health is observed once; the validation that follows uses that answer,
\* and the registry as it is then.
ObserveHealth ==
  /\ Upgrading("recovery")
  /\ \/ /\ NoFault
        /\ up' = [up EXCEPT !.at = "append",
                            !.valid = /\ runtime = up.to /\ schema = SchemaOf(up.to)
                                      /\ mode = "maintenance_paused" /\ QueuePreserved]
     \/ Fault /\ Fails
  /\ Quiet
  /\ History

ValidateHealth ==
  /\ Upgrading("health") /\ NoFault
  /\ IF up.valid /\ QueuePreserved THEN Goes("append") ELSE Fails
  /\ Quiet
  /\ History

\* The last record is the only one whose failure escapes.
Succeed ==
  /\ Upgrading("succeed") /\ command' = "none" /\ up' = NoUpgrade
  /\ \/ Persist("succeeded") /\ unsettled' = FALSE /\ NoFault
     \/ Fault /\ UNCHANGED <<live, unsettled>>
  /\ UNCHANGED <<stored, runtime, inst>>
  /\ History

\* fail(): the previous bundle comes back only if its runtime can read what
\* is persisted now.
Readable == schema <= up.ceiling

DecideRollback ==
  /\ Upgrading("failing") /\ NoFault
  /\ IF up.replaced /\ Readable /\ up.spare
     THEN Goes("rollback") /\ inst' = Install(up.from)
     ELSE Goes("mark") /\ UNCHANGED inst
  /\ UNCHANGED <<live, stored, runtime, command, unsettled>>
  /\ History

RollbackReturned ==
  /\ Upgrading("rollback") /\ NoFault /\ inst' = Idle
  /\ Goes(IF inst.result = "failed" THEN "mark" ELSE "reloadBack")
  /\ UNCHANGED <<live, stored, runtime, command, unsettled>>
  /\ History

ReloadBack ==
  /\ Upgrading("reloadBack")
  /\ \/ /\ \E v \in Versions : Whole(live, v) /\ LoadedBy(v)
        /\ NoFault /\ up' = [up EXCEPT !.at = "mark", !.attached = TRUE, !.outcome = "rolled_back"]
     \/ /\ (Fault \/ (~Complete(live) /\ NoFault)) /\ runtime' = "none"
        /\ up' = [up EXCEPT !.at = "mark", !.attached = FALSE] /\ UNCHANGED <<schema, work>>
  /\ UNCHANGED <<live, mode, command, inst, unsettled>>
  /\ History

\* markFailed: a maintenance pass that throws, where there is a plugin to run it.
MarkFailed ==
  /\ Upgrading("mark") /\ NoFault
  /\ \/ ~(up.attached /\ ~Restricted) /\ Goes("record") /\ UNCHANGED mode
     \/ /\ up.attached /\ ~Restricted
        /\ \/ /\ mode # "maintenance_pending" /\ mode' = "maintenance_pending"
              /\ UNCHANGED up
           \/ /\ mode = "maintenance_pending" /\ Drained
              /\ mode' = "maintenance_failed" /\ Goes("record")
  /\ UNCHANGED <<live, schema, work, runtime, command, inst, unsettled>>
  /\ History

RecordFailure ==
  /\ Upgrading("record") /\ command' = "none" /\ up' = NoUpgrade
  /\ \/ Persist(up.outcome) /\ NoFault
     \/ (Fault \/ (live = NoDir /\ NoFault)) /\ UNCHANGED live
  /\ UNCHANGED <<stored, runtime, inst, unsettled>>
  /\ History

UpgradeStep ==
  \/ RecordStart \/ Drain \/ ReplaceReturned \/ AppendPhase \/ Reload \/ Migrate
  \/ ObserveHealth \/ ValidateHealth \/ Succeed
  \/ DecideRollback \/ RollbackReturned \/ ReloadBack \/ MarkFailed \/ RecordFailure

-----------------------------------------------------------------------------
(* uninstallManagedVaultRelease: the evidence is read piece by piece, then *)
(* the managed files go one by one.                                        *)

StartUninstall ==
  /\ command = "none" /\ commands < MaxCommands /\ commands' = commands + 1
  /\ live # NoDir /\ \E f \in Files : live.set[f] # "missing"
  /\ command' = "uninstall" /\ up' = [NoUpgrade EXCEPT !.at = "state"] /\ inst' = Idle
  /\ UNCHANGED <<dirs, stored, runtime, faults, crashes, unsettled>>
  /\ History

Uninstalling(a) ==
  /\ command = "uninstall" /\ up.at = a
  /\ UNCHANGED <<staging, backup, failed, stored, runtime, inst, commands, crashes, unsettled>>

\* The persisted registry: nothing queued, executing, or half maintained.
GateState ==
  /\ Uninstalling("state") /\ NoFault /\ UNCHANGED live
  /\ IF work = "none" /\ mode \notin {"maintenance_pending", "maintenance_failed"}
     THEN Goes("journal") /\ UNCHANGED command
     ELSE command' = "none" /\ up' = NoUpgrade
  /\ History

EvidenceSettled == live.evidence \in {"none", "succeeded"}

\* The upgrade evidence, and the health of a plugin that is asked and answers.
GateEvidence ==
  /\ Uninstalling("journal") /\ NoFault /\ UNCHANGED live
  /\ \E asked \in BOOLEAN :
       IF EvidenceSettled /\ (asked /\ runtime # "none" => work = "none")
       THEN Goes("remove") /\ UNCHANGED command
       ELSE command' = "none" /\ up' = NoUpgrade
  /\ History

RemoveFile ==
  /\ Uninstalling("remove")
  /\ \/ \E f \in Files : /\ live.set[f] # "missing" /\ live' = [live EXCEPT !.set[f] = "missing"]
                         /\ NoFault /\ UNCHANGED <<command, up>>
     \/ /\ (Fault \/ ((\A f \in Files : live.set[f] = "missing") /\ NoFault))
        /\ command' = "none" /\ up' = NoUpgrade /\ UNCHANGED live
  /\ History

UninstallStep == GateState \/ GateEvidence \/ RemoveFile

-----------------------------------------------------------------------------
Environment ==
  \/ LoadRuntime \/ UnloadRuntime \/ RuntimeWorks \/ Resume \/ FinishMaintenance \/ Tamper \/ Crash

CommandStep == InstallStep \/ InstallDone \/ UpgradeStep \/ UninstallStep

Next ==
  \/ Environment
  \/ \E v \in Versions : StartInstall(v) \/ StartUpgrade(v)
  \/ StartUninstall
  \/ CommandStep

\* The promises and file operations a command awaits settle, and a Change Set
\* that executes finishes.
Fairness ==
  /\ WF_vars(CommandStep)
  /\ WF_vars(work = "executing" /\ RuntimeWorks)

Spec == Init /\ [][Next]_vars /\ Fairness

-----------------------------------------------------------------------------
(* Properties.                                                             *)

\* Old-or-new at every on-disk point: once a whole set was deployed, and until
\* an uninstall removes it or somebody damages it, the plugin directory holds a
\* whole set, or it is absent and the backup the next install restores is whole.
BundleRecoverable ==
  deployed /\ ~tampered => Complete(live) \/ (live = NoDir /\ Complete(backup))

\* The evidence an interruption is detected by survives every swap: while an
\* upgrade that changed something has not succeeded, what the next command will
\* find in the plugin directory does not say that there was none or that it
\* succeeded.
EvidenceHonest ==
  unsettled => (IF live # NoDir THEN live ELSE backup).evidence
                 \in {"in_progress", "failed", "rolled_back"}

\* What the next command needs is on the disk whenever this one is cut off: a
\* whole release, and the evidence of what was interrupted.
NextCommandCanGoOn == BundleRecoverable /\ EvidenceHonest

\* An install that reports success or unchanged left exactly the bundle's
\* files (post-swap verification), unless they are damaged right after.
ReportedIsDeployed ==
  inst.result \in {"success", "unchanged"} /\ ~tampered => Whole(live, inst.version)

\* The bytes are replaced only inside the drained window of the old plugin.
SwapIsDrained ==
  up.at = "replace" /\ inst.at # "idle" => mode = "maintenance_pending" /\ work # "executing"

\* What is reported is deployed, and no swap runs beside a Change Set.
Consistent == TypeOK /\ ReportedIsDeployed /\ SwapIsDrained

\* No blind downgrade: a rollback puts back a release that can read what is
\* persisted at that moment. The code keeps this for an upgrade whose running
\* plugin was the release on disk, and not for every upgrade.
Restores == up.at = "rollback" /\ live' # live /\ Whole(live', up.from)
RollsBackReadable == Restores /\ up.same => schema <= SchemaOf(up.from)
RollbackNeverBlind == [][Restores => schema <= SchemaOf(up.from)]_vars

\* An upgrade writes "succeeded" only while the loaded plugin is the new release,
\* what is persisted has its schema, its files are whole, and, unless writes were
\* resumed meanwhile, the queue is the one the upgrade began with.
SucceedsTruly ==
  live'.evidence = "succeeded" /\ command = "upgrade" /\ command' = "none" /\ live # live'
    => /\ runtime = up.to /\ schema = SchemaOf(up.to)
       /\ Whole(live, up.to) \/ tampered
       /\ mode = "maintenance_paused" => work = up.work

\* No managed file is removed while work is pending or recovery is unresolved,
\* provided no plugin was loaded since the evidence was read.
RemovesSafely ==
  command = "uninstall" /\ live' # live /\ ~tampered' /\ ~sawRuntime
    => /\ work = "none" /\ mode \in {"none", "maintenance_paused"}
       /\ live.evidence \in {"none", "succeeded"}

\* What a command claims, what it puts back and what it removes follow from what
\* was observed, with the plugin working beside it and saving its state.
ClaimsAreTrue == [][SucceedsTruly /\ RollsBackReadable /\ RemovesSafely]_vars

\* Every command ends, whatever fails.
CommandEnds == command # "none" ~> command = "none"

=============================================================================
