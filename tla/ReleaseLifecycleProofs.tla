------------------------ MODULE ReleaseLifecycleProofs ------------------------
(* Deploying into one Managed Vault, for any release, any number of         *)
(* commands, failing file operations and process deaths; and, at the end,   *)
(* what a purge of its state deletes is copied and done with, for any       *)
(* number of saves, failing steps and ends of either process.               *)
EXTENDS ReleaseLifecycle, MCStatePurge, TLAPS

-----------------------------------------------------------------------------
(* The inductive invariant.                                                 *)

UpgradeAt == {"evidence", "drain", "replace", "reload", "migrate", "recovery", "health",
              "succeed", "append", "failing", "rollback", "reloadBack", "mark", "record"}

\* What a command may be in the middle of.
Control ==
  /\ command = "none" => up = NoUpgrade /\ inst = Idle
  /\ command = "install" => up = NoUpgrade
  /\ command = "uninstall" => inst = Idle /\ up.at \in {"state", "journal", "remove"}
  /\ command = "upgrade" =>
       /\ up.at \in UpgradeAt /\ up.outcome \in {"in_progress", "failed", "rolled_back"}
       /\ up.at \notin {"replace", "rollback"} => inst = Idle
  /\ inst.result # "none" => inst.at = "idle"

\* What the four directories hold at each step of a swap.
Swapping ==
  /\ inst.at \in {"inspect", "stage", "staged"} => backup = NoDir
  /\ inst.at \in {"stage", "staged"} => inst.had = (live # NoDir)
  /\ inst.at \in {"staged", "swap"} => Whole(staging, inst.version)
  /\ inst.at = "staged" => staging.evidence = Carried
  /\ inst.at \in {"swap", "undoFailed"} => live = NoDir
  /\ inst.at = "swap" =>
       IF inst.had THEN backup # NoDir /\ staging.evidence = backup.evidence
                   ELSE backup = NoDir /\ staging.evidence = "none"
  /\ inst.at \in {"verify", "undo", "cleanup"} => live # NoDir
  /\ inst.at \in {"verify", "undo"} =>
       IF inst.had THEN backup # NoDir /\ live.evidence = backup.evidence
                   ELSE live.evidence = "none"

\* A verification that fails, fails for what somebody damaged.
Verified ==
  /\ inst.at \in {"verify", "cleanup"} \/ inst.result \in {"success", "unchanged"} =>
       tampered \/ Whole(live, inst.version)
  /\ inst.at \in {"undo", "undoFailed"} => tampered

Remembered ==
  /\ tampered => ~Complete(live)
  /\ runtime # "none" => sawRuntime
  /\ up.at = "remove" => ~deployed

\* The old plugin is drained before its files go, and stays drained.
Quiesced ==
  /\ up.at = "drain" => live # NoDir /\ live.evidence = "in_progress"
  /\ up.at = "replace" => mode = "maintenance_pending" /\ work # "executing"
  /\ mode = "maintenance_paused" => work # "executing"

Phase ==
  /\ up.at \in {"evidence", "drain", "replace"} => up.phases = 0
  /\ up.at = "append" => up.phases \in 0..4
  /\ up.at = "reload" => up.phases = 1
  /\ up.at = "migrate" => up.phases = 2
  /\ up.at = "recovery" => up.phases = 3
  /\ up.at = "health" => up.phases = 4
  /\ up.at = "succeed" => up.phases = 5

\* What the phases that are behind the upgrade have established.
Reached(n) == up.at \in {"append", "recovery", "health", "succeed"} /\ up.phases >= n
Observed ==
  /\ Reached(2) => tampered \/ Whole(live, up.to)
  /\ up.at \in {"append", "health", "succeed"} /\ up.phases >= 3 /\ up.valid =>
       /\ runtime = up.to /\ schema = SchemaOf(up.to)
       /\ mode = "maintenance_paused" => work = up.work
  /\ up.at = "succeed" \/ (up.at = "append" /\ up.phases = 4) => up.valid

Readability ==
  /\ up.same => up.ceiling = SchemaOf(up.from)
  /\ up.at = "rollback" => Readable

Gated ==
  /\ up.at \in {"journal", "remove"} /\ ~sawRuntime =>
       work = "none" /\ mode \in {"none", "maintenance_paused"}
  /\ up.at = "remove" => EvidenceSettled

IInv ==
  /\ TypeOK /\ Control /\ Swapping /\ Verified /\ Remembered
  /\ Quiesced /\ Phase /\ Observed /\ Readability /\ Gated
  /\ BundleRecoverable /\ EvidenceHonest

-----------------------------------------------------------------------------
(* Directories.                                                             *)

LEMMA DirectoriesAreThere ==
  /\ NoDir \notin Directory /\ NoDir.evidence = "absent" /\ NoDir.evidence \notin Outcomes
  /\ \A d \in Dirs : d.set \in [Files -> Content]
  /\ \A d \in Dirs : d # NoDir => d \in Directory /\ d.evidence \in Outcomes
  /\ \A v \in Versions : Uniform(v) \in [Files -> Content]
  /\ Uniform("missing") \in [Files -> Content]
BY DEF NoDir, Directory, Dirs, Outcomes, Uniform, Versions, Content

LEMMA NothingIsComplete ==
  ~Complete(NoDir)
BY DEF Complete, Whole

\* What a directory holds decides whether it is whole.
LEMMA SameSet ==
  ASSUME NEW d, NEW e, d.set = e.set, (d = NoDir) <=> (e = NoDir)
  PROVE  /\ \A v : Whole(d, v) <=> Whole(e, v)
         /\ Complete(d) <=> Complete(e)
BY DEF Complete, Whole

LEMMA Persisted ==
  ASSUME TypeOK, live # NoDir, NEW o \in Outcomes, live' = [live EXCEPT !.evidence = o]
  PROVE  /\ live' \in Dirs /\ live' # NoDir /\ live'.set = live.set /\ live'.evidence = o
<1>1. live \in Directory
  BY DirectoriesAreThere DEF TypeOK
<1>2. live' \in Directory
  BY <1>1, Zenon DEF Directory
<1>3. live'.set = live.set /\ live'.evidence = o
  BY <1>1 DEF Directory
<1> QED
  BY <1>2, <1>3, DirectoriesAreThere DEF Dirs

LEMMA Rewritten ==
  ASSUME TypeOK, live # NoDir, NEW f \in Files, NEW c \in Content,
         live' = [live EXCEPT !.set[f] = c]
  PROVE  /\ live' \in Dirs /\ live' # NoDir /\ live'.evidence = live.evidence
         /\ live'.set = [live.set EXCEPT ![f] = c]
<1>1. live \in Directory
  BY DirectoriesAreThere DEF TypeOK
<1>2. live' \in Directory
  BY <1>1, Zenon DEF Directory
<1>3. live'.set = [live.set EXCEPT ![f] = c] /\ live'.evidence = live.evidence
  BY <1>1 DEF Directory
<1> QED
  BY <1>2, <1>3, DirectoriesAreThere DEF Dirs

-----------------------------------------------------------------------------
(* Types, part by part.                                                     *)

InstRecords ==
  [at : {"idle", "recover", "inspect", "stage", "staged", "swap", "verify",
         "undo", "undoFailed", "cleanup"},
   version : Versions, had : BOOLEAN,
   result : {"none", "success", "unchanged", "failed"}]
UpRecords ==
  [at : {"none", "evidence", "drain", "replace",
         "reload", "migrate", "recovery", "health", "succeed", "append",
         "failing", "rollback", "reloadBack", "mark", "record",
         "state", "journal", "remove"},
   from : Versions, to : Versions, ceiling : 1..2, phases : 0..5,
   replaced : BOOLEAN, spare : BOOLEAN, same : BOOLEAN, attached : BOOLEAN,
   work : {"none", "queued", "executing"}, valid : BOOLEAN, outcome : Outcomes]

DirsOK == live \in Dirs /\ staging \in Dirs /\ backup \in Dirs /\ failed \in Dirs
StoredOK ==
  /\ schema \in 1..2 /\ newSchema \in 1..2 /\ mode \in Modes
  /\ work \in {"none", "queued", "executing"}
  /\ runtime \in Versions \cup {"none"}
CommandOK == command \in {"none", "install", "upgrade", "uninstall"}
BoundsOK ==
  commands \in 0..MaxCommands /\ faults \in 0..MaxFaults /\ crashes \in 0..MaxCrashes
HistoryOK ==
  /\ tampered \in BOOLEAN /\ deployed \in BOOLEAN
  /\ unsettled \in BOOLEAN /\ sawRuntime \in BOOLEAN

TypeIs ==
  /\ DirsOK /\ StoredOK /\ CommandOK /\ inst \in InstRecords /\ up \in UpRecords
  /\ BoundsOK /\ HistoryOK

LEMMA TypeParts ==
  (TypeOK <=> TypeIs) /\ (TypeOK' <=> TypeIs')
BY Zenon DEF TypeOK, TypeIs, DirsOK, StoredOK, CommandOK, BoundsOK, HistoryOK, InstRecords,
             UpRecords

LEMMA HistoryIsTyped ==
  ASSUME TypeOK, History, unsettled' \in BOOLEAN
  PROVE  HistoryOK'
BY DEF TypeOK, History, HistoryOK

LEMMA RestIsTyped ==
  /\ Idle \in InstRecords /\ NoUpgrade \in UpRecords
  /\ \A v \in Versions : Install(v) \in InstRecords
BY DEF Idle, NoUpgrade, Install, InstRecords, UpRecords, Versions, Outcomes

LEMMA SchemaIsTyped ==
  ASSUME TypeOK PROVE \A v : SchemaOf(v) \in 1..2
BY DEF TypeOK, SchemaOf

LEMMA LoadedIsTyped ==
  ASSUME TypeOK, NEW v \in Versions, LoadedBy(v)
  PROVE  /\ runtime' = v /\ schema' \in 1..2
         /\ work' \in {"none", "queued", "executing"}
         /\ work' = work \/ (work = "executing" /\ work' = "none")
BY SchemaIsTyped DEF TypeOK, LoadedBy

-----------------------------------------------------------------------------
(* What the steps of each group do.                                         *)

Beside == LoadRuntime \/ UnloadRuntime \/ RuntimeWorks \/ Resume \/ FinishMaintenance \/ Tamper

\* Beside a command, only the loaded plugin's state and one managed file change.
LEMMA BesideEffect ==
  ASSUME TypeOK, Beside
  PROVE  /\ UNCHANGED <<staging, backup, failed, newSchema, command, inst, up>>
         /\ UNCHANGED <<commands, crashes, unsettled>>
         /\ live' \in Dirs /\ live'.evidence = live.evidence /\ (live' = NoDir <=> live = NoDir)
         /\ live' = live \/ (~Complete(live') /\ tampered')
         /\ StoredOK' /\ faults' \in 0..MaxFaults /\ History
<1>1. CASE LoadRuntime
  BY <1>1, LoadedIsTyped DEF LoadRuntime, TypeOK, StoredOK, dirs, bounds
<1>2. CASE UnloadRuntime
  BY <1>2 DEF UnloadRuntime, TypeOK, StoredOK, dirs, bounds, stored
<1>3. CASE RuntimeWorks
  BY <1>3 DEF RuntimeWorks, TypeOK, StoredOK, dirs, bounds
<1>4. CASE Resume
  BY <1>4 DEF Resume, TypeOK, StoredOK, dirs, bounds, Modes
<1>5. CASE FinishMaintenance
  BY <1>5 DEF FinishMaintenance, TypeOK, StoredOK, dirs, bounds, Modes
<1>6. CASE Tamper
  <2>1. PICK f \in Files : live' = [live EXCEPT !.set[f] = "damaged"]
    BY <1>6 DEF Tamper
  <2>2. Complete(live) /\ live # NoDir /\ live.set \in [Files -> Content]
    BY <1>6, NothingIsComplete, DirectoriesAreThere DEF Tamper, TypeOK
  <2>3. /\ live' \in Dirs /\ live' # NoDir /\ live'.evidence = live.evidence
        /\ live'.set = [live.set EXCEPT ![f] = "damaged"]
    BY <2>1, <2>2, Rewritten DEF Content
  <2>4. live'.set[f] = "damaged" /\ live.set[f] # "damaged"
    BY <2>2, <2>3 DEF Complete, Whole, Versions
  <2>5. ~Complete(live')
    BY <2>4 DEF Complete, Whole, Versions
  <2>6. tampered'
    BY <1>6, <2>4, <2>5 DEF Tamper, History
  <2> QED
    BY <1>6, <2>2, <2>3, <2>5, <2>6, BoundsAssumption DEF Tamper, TypeOK, StoredOK, stored, Fault
<1> QED
  BY <1>1, <1>2, <1>3, <1>4, <1>5, <1>6 DEF Beside

\* What a step that leaves the managed files alone does to the history.
LEMMA Untouched ==
  ASSUME TypeOK, Remembered, History, live'.set = live.set, live' = NoDir <=> live = NoDir
  PROVE  /\ tampered' = tampered /\ (Complete(live') <=> Complete(live))
         /\ \A v : Whole(live', v) <=> Whole(live, v)
<1>1. /\ Complete(live') <=> Complete(live)
      /\ \A v : Whole(live', v) <=> Whole(live, v)
  BY SameSet
<1>2. tampered' = (~Complete(live') /\ tampered)
  BY DEF History, TypeOK
<1> QED
  BY <1>1, <1>2 DEF Remembered, TypeOK

\* What is not whole now was not whole before, or was moved to the backup.
LEMMA Recoverable ==
  ASSUME TypeOK, BundleRecoverable, History,
         ~Complete(live') /\ ~tampered /\ (Complete(live) \/ (live = NoDir /\ Complete(backup)))
           => live' = NoDir /\ Complete(backup')
  PROVE  BundleRecoverable'
<1>1. ASSUME ~Complete(live'), deployed', ~tampered' PROVE deployed /\ ~tampered
  BY <1>1 DEF History
<1> QED
  BY <1>1 DEF BundleRecoverable

LEMMA HistoryRemembers ==
  ASSUME TypeOK, History PROVE Remembered'
BY DEF History, Remembered

-----------------------------------------------------------------------------
(* installOneTarget.                                                        *)

InstSteps == {"idle", "recover", "inspect", "stage", "staged", "swap", "verify",
              "undo", "undoFailed", "cleanup"}

LEMMA InstMoves ==
  ASSUME TypeOK
  PROVE  /\ \A a \in InstSteps : At(a) =>
              /\ inst' \in InstRecords /\ inst'.at = a
              /\ UNCHANGED <<inst.version, inst.had, inst.result>>
         /\ \A r \in {"success", "unchanged", "failed"} : Returns(r) =>
              /\ inst' \in InstRecords /\ inst'.at = "idle" /\ inst'.result = r
              /\ inst'.version = inst.version
         /\ \A b \in BOOLEAN : inst' = [inst EXCEPT !.at = "stage", !.had = b] =>
              /\ inst' \in InstRecords /\ inst'.at = "stage" /\ inst'.had = b
              /\ UNCHANGED <<inst.version, inst.result>>
<1>0. inst \in InstRecords
  BY TypeParts DEF TypeIs
<1>1. ASSUME NEW a \in InstSteps, At(a)
      PROVE  /\ inst' \in InstRecords /\ inst'.at = a
             /\ UNCHANGED <<inst.version, inst.had, inst.result>>
  <2>1. inst' \in InstRecords
    BY <1>0, <1>1, Zenon DEF At, InstRecords, InstSteps
  <2> QED
    BY <1>0, <1>1, <2>1 DEF At, InstRecords
<1>2. ASSUME NEW r \in {"success", "unchanged", "failed"}, Returns(r)
      PROVE  /\ inst' \in InstRecords /\ inst'.at = "idle" /\ inst'.result = r
             /\ inst'.version = inst.version
  <2>1. inst' \in InstRecords
    BY <1>0, <1>2, Zenon DEF Returns, InstRecords
  <2> QED
    BY <1>0, <1>2, <2>1 DEF Returns, InstRecords
<1>3. ASSUME NEW b \in BOOLEAN, inst' = [inst EXCEPT !.at = "stage", !.had = b]
      PROVE  /\ inst' \in InstRecords /\ inst'.at = "stage" /\ inst'.had = b
             /\ UNCHANGED <<inst.version, inst.result>>
  <2>1. inst' \in InstRecords
    BY <1>0, <1>3, Zenon DEF InstRecords
  <2> QED
    BY <1>0, <1>3, <2>1 DEF InstRecords
<1> QED
  BY <1>1, <1>2, <1>3

\* What holds of the directories and the swap after each of its steps.
Swapped ==
  /\ DirsOK' /\ inst' \in InstRecords /\ Swapping' /\ Verified'
  /\ BundleRecoverable' /\ EvidenceHonest'
  /\ inst'.result # "none" => inst'.at = "idle"

LEMMA RecoverSwaps ==
  ASSUME IInv, InstallRecover PROVE Swapped
<1>0. TypeOK /\ DirsOK /\ inst.at = "recover" /\ inst.result = "none" /\ History
  BY TypeParts DEF TypeIs, IInv, InstallRecover, Installing, Control
<1>a. At("inspect") => inst' \in InstRecords /\ inst'.at = "inspect" /\ inst'.result = inst.result
  BY <1>0, InstMoves DEF InstSteps
<1>b. Returns("failed") => inst' \in InstRecords /\ inst'.at = "idle" /\ inst'.result = "failed"
  BY <1>0, InstMoves
<1>1. /\ inst' \in InstRecords /\ inst'.at \in {"recover", "inspect", "idle"}
      /\ inst'.result \in {"none", "failed"} /\ (inst'.result # "none" => inst'.at = "idle")
  BY <1>0, <1>a, <1>b, TypeParts DEF TypeIs, InstallRecover
<1>2. DirsOK' /\ (inst'.at = "inspect" => backup' = NoDir)
  BY <1>0, <1>b DEF InstallRecover, DirsOK, Dirs, dirs
<1>3. EvidenceHonest'
  BY <1>0 DEF InstallRecover, Installing, RestoresBackup, IInv, EvidenceHonest, dirs
<1>4. BundleRecoverable'
  <2>1. ~Complete(live') /\ (Complete(live) \/ (live = NoDir /\ Complete(backup)))
          => live' = NoDir /\ Complete(backup')
    BY <1>0, NothingIsComplete DEF InstallRecover, RestoresBackup, dirs
  <2> QED
    BY <1>0, <2>1, Recoverable DEF IInv
<1> QED
  BY <1>1, <1>2, <1>3, <1>4 DEF Swapped, Swapping, Verified

LEMMA InspectSwaps ==
  ASSUME IInv, InstallInspect PROVE Swapped
<1>0. TypeOK /\ inst.at = "inspect" /\ inst.result = "none" /\ History /\ backup = NoDir /\ UNCHANGED dirs
  BY DEF IInv, InstallInspect, Installing, Control, Swapping
<1>a. Returns("failed") => inst' \in InstRecords /\ inst'.at = "idle" /\ inst'.result = "failed"
  BY <1>0, InstMoves
<1>b. Returns("unchanged") =>
        /\ inst' \in InstRecords /\ inst'.at = "idle" /\ inst'.result = "unchanged"
        /\ inst'.version = inst.version
  BY <1>0, InstMoves
<1>c. inst' = [inst EXCEPT !.at = "stage", !.had = (live # NoDir)] =>
        /\ inst' \in InstRecords /\ inst'.at = "stage" /\ inst'.had = (live # NoDir)
        /\ UNCHANGED <<inst.version, inst.result>>
  <2>1. (live # NoDir) \in BOOLEAN
    OBVIOUS
  <2> QED
    BY <1>0, <2>1, InstMoves
<1>1. \/ inst'.at = "idle" /\ inst'.result = "failed"
      \/ inst'.at = "idle" /\ inst'.version = inst.version /\ Whole(live, inst.version)
      \/ inst'.at = "stage" /\ inst'.had = (live # NoDir) /\ inst'.result = "none"
  BY <1>0, <1>a, <1>b, <1>c DEF InstallInspect, NothingToRewrite
<1>2. inst' \in InstRecords
  BY <1>a, <1>b, <1>c DEF InstallInspect
<1>3. Swapping' /\ Verified'
  BY <1>0, <1>1 DEF Swapping, Verified, dirs, Whole
<1>4. DirsOK' /\ EvidenceHonest'
  BY <1>0 DEF InstallInspect, Installing, TypeOK, DirsOK, dirs, IInv, EvidenceHonest
<1>5. BundleRecoverable'
  BY <1>0, Recoverable DEF IInv, dirs
<1> QED
  BY <1>1, <1>2, <1>3, <1>4, <1>5 DEF Swapped

LEMMA StageSwaps ==
  ASSUME IInv, InstallStage PROVE Swapped
<1>0. /\ TypeOK /\ inst.at = "stage" /\ inst.result = "none" /\ History /\ backup = NoDir
      /\ inst.had = (live # NoDir) /\ UNCHANGED <<live, backup, failed>> /\ inst.version \in Versions
  <2>1. inst.version \in Versions
    BY TypeParts DEF TypeIs, InstRecords, IInv
  <2> QED
    BY <2>1 DEF IInv, InstallStage, Installing, Control, Swapping
<1>a. Returns("failed") => inst' \in InstRecords /\ inst'.at = "idle" /\ inst'.result = "failed"
  BY <1>0, InstMoves
<1>b. At("staged") => /\ inst' \in InstRecords /\ inst'.at = "staged"
                      /\ UNCHANGED <<inst.version, inst.had, inst.result>>
  BY <1>0, InstMoves DEF InstSteps
<1>1. ASSUME staging' = [set |-> Uniform(inst.version), evidence |-> Carried]
      PROVE  /\ staging' \in Dirs /\ Whole(staging', inst.version) /\ staging'.evidence = Carried
  <2>1. Carried \in Outcomes
    BY <1>0, DirectoriesAreThere DEF Carried, TypeOK, Outcomes
  <2>2. Uniform(inst.version) \in [Files -> Content]
    BY <1>0, DirectoriesAreThere
  <2>3. staging' \in Directory
    BY <1>1, <2>1, <2>2 DEF Directory
  <2>4. staging' # NoDir
    BY <2>3, DirectoriesAreThere
  <2> QED
    BY <1>1, <2>3, <2>4 DEF Dirs, Whole, Uniform
<1>2. \/ /\ staging' \in Dirs /\ Whole(staging', inst.version) /\ staging'.evidence = Carried
         /\ At("staged")
      \/ staging' = NoDir /\ Returns("failed")
  BY <1>1 DEF InstallStage
<1>3. DirsOK' /\ inst' \in InstRecords
  BY <1>0, <1>2, <1>a, <1>b DEF TypeOK, DirsOK, Dirs
<1>4. Swapping' /\ Verified' /\ (inst'.result # "none" => inst'.at = "idle")
  BY <1>0, <1>2, <1>a, <1>b DEF Swapping, Verified, Carried
<1>5. EvidenceHonest'
  BY <1>0 DEF InstallStage, Installing, IInv, EvidenceHonest
<1>6. BundleRecoverable'
  BY <1>0, Recoverable DEF IInv
<1> QED
  BY <1>3, <1>4, <1>5, <1>6 DEF Swapped

LEMMA SwapOutSwaps ==
  ASSUME IInv, SwapOut PROVE Swapped
<1>0. /\ TypeOK /\ inst.at = "staged" /\ inst.result = "none" /\ History /\ backup = NoDir
      /\ inst.had = (live # NoDir) /\ failed' = failed
      /\ Whole(staging, inst.version) /\ staging.evidence = Carried
  BY DEF IInv, SwapOut, Installing, Control, Swapping
<1>a. Returns("failed") => inst' \in InstRecords /\ inst'.at = "idle" /\ inst'.result = "failed"
  BY <1>0, InstMoves
<1>b. At("swap") => /\ inst' \in InstRecords /\ inst'.at = "swap"
                    /\ UNCHANGED <<inst.version, inst.had, inst.result>>
  BY <1>0, InstMoves DEF InstSteps
<1>1. \/ inst.had /\ backup' = live /\ live' = NoDir /\ At("swap") /\ staging' = staging
      \/ ~inst.had /\ UNCHANGED <<live, backup>> /\ At("swap") /\ staging' = staging
      \/ staging' = NoDir /\ Returns("failed") /\ UNCHANGED <<live, backup>>
  BY DEF SwapOut
<1>2. DirsOK' /\ inst' \in InstRecords
  BY <1>0, <1>1, <1>a, <1>b DEF TypeOK, DirsOK, Dirs
<1>3. Swapping' /\ Verified' /\ (inst'.result # "none" => inst'.at = "idle")
  BY <1>0, <1>1, <1>a, <1>b DEF Swapping, Verified, Carried
<1>4. EvidenceHonest'
  BY <1>0, <1>1 DEF SwapOut, Installing, IInv, EvidenceHonest
<1>5. BundleRecoverable'
  <2>1. ~Complete(live') /\ (Complete(live) \/ (live = NoDir /\ Complete(backup)))
          => live' = NoDir /\ Complete(backup')
    BY <1>0, <1>1
  <2> QED
    BY <1>0, <2>1, Recoverable DEF IInv
<1> QED
  BY <1>2, <1>3, <1>4, <1>5 DEF Swapped

LEMMA SwapInSwaps ==
  ASSUME IInv, SwapIn PROVE Swapped
<1>0. /\ TypeOK /\ inst.at = "swap" /\ inst.result = "none" /\ History /\ live = NoDir
      /\ IF inst.had THEN backup # NoDir /\ staging.evidence = backup.evidence
                     ELSE backup = NoDir /\ staging.evidence = "none"
      /\ failed' = failed /\ unsettled' = unsettled /\ EvidenceHonest
      /\ Whole(staging, inst.version) /\ staging # NoDir
  BY DEF IInv, SwapIn, Installing, Control, Swapping, Whole
<1>a. Returns("failed") => inst' \in InstRecords /\ inst'.at = "idle" /\ inst'.result = "failed"
  BY <1>0, InstMoves
<1>b. At("verify") => /\ inst' \in InstRecords /\ inst'.at = "verify"
                      /\ UNCHANGED <<inst.version, inst.had, inst.result>>
  BY <1>0, InstMoves DEF InstSteps
<1>1. \/ live' = staging /\ staging' = NoDir /\ backup' = backup /\ At("verify")
      \/ /\ inst.had /\ live' = backup /\ backup' = NoDir
         /\ staging' = NoDir /\ Returns("failed")
      \/ staging' = NoDir /\ Returns("failed") /\ UNCHANGED <<live, backup>>
  BY DEF SwapIn
<1>2. DirsOK' /\ inst' \in InstRecords
  BY <1>0, <1>1, <1>a, <1>b DEF TypeOK, DirsOK, Dirs
<1>3. Swapping' /\ Verified' /\ (inst'.result # "none" => inst'.at = "idle")
  BY <1>0, <1>1, <1>a, <1>b DEF Swapping, Verified
<1>4. EvidenceHonest'
  BY <1>0, <1>1, DirectoriesAreThere DEF EvidenceHonest
<1>5. BundleRecoverable'
  <2>1. live' = staging => Complete(live')
    <3>1. inst.version \in Versions
      BY <1>0, TypeParts DEF TypeIs, InstRecords
    <3> QED
      BY <1>0, <3>1 DEF Complete
  <2>2. ~Complete(live') /\ (Complete(live) \/ (live = NoDir /\ Complete(backup)))
          => live' = NoDir /\ Complete(backup')
    BY <1>0, <1>1, <2>1, NothingIsComplete
  <2> QED
    BY <1>0, <2>2, Recoverable DEF IInv
<1> QED
  BY <1>2, <1>3, <1>4, <1>5 DEF Swapped

LEMMA VerifySwaps ==
  ASSUME IInv, VerifySwap PROVE Swapped
<1>0. /\ TypeOK /\ inst.at = "verify" /\ inst.result = "none" /\ History /\ live # NoDir
      /\ IF inst.had THEN backup # NoDir /\ live.evidence = backup.evidence
                     ELSE live.evidence = "none"
      /\ tampered \/ Whole(live, inst.version)
      /\ UNCHANGED dirs /\ unsettled' = unsettled /\ EvidenceHonest
  BY DEF IInv, VerifySwap, Installing, Control, Swapping, Verified
<1>a. Returns("failed") => inst' \in InstRecords /\ inst'.at = "idle" /\ inst'.result = "failed"
  BY <1>0, InstMoves
<1>b. \A a \in {"cleanup", "undo"} : At(a) =>
        /\ inst' \in InstRecords /\ inst'.at = a
        /\ UNCHANGED <<inst.version, inst.had, inst.result>>
  BY <1>0, InstMoves DEF InstSteps
<1>1. \/ Whole(live, inst.version) /\ At("cleanup")
      \/ ~Whole(live, inst.version) /\ At("undo")
      \/ Returns("failed")
  BY DEF VerifySwap
<1>2. tampered' = tampered
  BY <1>0, Untouched DEF IInv, dirs
<1>3. DirsOK' /\ inst' \in InstRecords
  BY <1>0, <1>1, <1>a, <1>b DEF TypeOK, DirsOK, dirs
<1>4. Swapping' /\ Verified' /\ (inst'.result # "none" => inst'.at = "idle")
  BY <1>0, <1>1, <1>2, <1>a, <1>b DEF Swapping, Verified, dirs
<1>5. EvidenceHonest'
  BY <1>0 DEF EvidenceHonest, dirs
<1>6. BundleRecoverable'
  BY <1>0, Recoverable DEF IInv, dirs
<1> QED
  BY <1>3, <1>4, <1>5, <1>6 DEF Swapped

LEMMA UndoSwaps ==
  ASSUME IInv, UndoSwap PROVE Swapped
<1>0. /\ TypeOK /\ inst.at = "undo" /\ inst.result = "none" /\ History /\ live # NoDir
      /\ IF inst.had THEN backup # NoDir /\ live.evidence = backup.evidence
                     ELSE live.evidence = "none"
      /\ tampered /\ ~Complete(live)
      /\ UNCHANGED <<staging, backup>> /\ unsettled' = unsettled /\ EvidenceHonest
  BY DEF IInv, UndoSwap, Installing, Control, Swapping, Verified, Remembered
<1>a. Returns("failed") => inst' \in InstRecords /\ inst'.at = "idle" /\ inst'.result = "failed"
  BY <1>0, InstMoves
<1>b. At("undoFailed") => /\ inst' \in InstRecords /\ inst'.at = "undoFailed"
                          /\ UNCHANGED <<inst.version, inst.had, inst.result>>
  BY <1>0, InstMoves DEF InstSteps
<1>1. \/ failed' = live /\ live' = NoDir /\ At("undoFailed")
      \/ Returns("failed") /\ UNCHANGED <<live, failed>>
  BY DEF UndoSwap
<1>2. tampered'
  BY <1>0, <1>1, NothingIsComplete DEF History
<1>3. DirsOK' /\ inst' \in InstRecords
  BY <1>0, <1>1, <1>a, <1>b DEF TypeOK, DirsOK, Dirs
<1>4. Swapping' /\ Verified' /\ (inst'.result # "none" => inst'.at = "idle")
  BY <1>0, <1>1, <1>2, <1>a, <1>b DEF Swapping, Verified
<1>5. EvidenceHonest'
  BY <1>0, <1>1 DEF EvidenceHonest
<1>6. BundleRecoverable'
  BY <1>2 DEF BundleRecoverable
<1> QED
  BY <1>3, <1>4, <1>5, <1>6 DEF Swapped

LEMMA RestoreSwaps ==
  ASSUME IInv, RestoreBackup PROVE Swapped
<1>0. /\ TypeOK /\ inst.at = "undoFailed" /\ inst.result = "none" /\ History
      /\ tampered /\ ~Complete(live) /\ live = NoDir /\ Returns("failed")
      /\ staging' = staging /\ unsettled' = unsettled /\ EvidenceHonest
  BY DEF IInv, RestoreBackup, Installing, Control, Swapping, Verified, Remembered
<1>1. inst' \in InstRecords /\ inst'.at = "idle" /\ inst'.result = "failed"
  BY <1>0, InstMoves
<1>2. /\ \/ live' = backup /\ backup' = NoDir
         \/ UNCHANGED <<live, backup>>
      /\ failed' = NoDir \/ failed' = failed
  BY DEF RestoreBackup
<1>3. DirsOK'
  BY <1>0, <1>2 DEF TypeOK, DirsOK, Dirs
<1>4. Swapping' /\ Verified'
  BY <1>1 DEF Swapping, Verified
<1>5. EvidenceHonest'
  BY <1>0, <1>2, DirectoriesAreThere DEF EvidenceHonest
<1>6. BundleRecoverable'
  BY <1>0, Recoverable DEF IInv
<1> QED
  BY <1>1, <1>3, <1>4, <1>5, <1>6 DEF Swapped

LEMMA CleanUpSwaps ==
  ASSUME IInv, CleanUp PROVE Swapped
<1>0. /\ TypeOK /\ inst.at = "cleanup" /\ inst.result = "none" /\ History /\ live # NoDir
      /\ tampered \/ Whole(live, inst.version)
      /\ UNCHANGED <<live, staging, failed>> /\ unsettled' = unsettled /\ EvidenceHonest
  BY DEF IInv, CleanUp, Installing, Control, Swapping, Verified
<1>a. \A r \in {"success", "failed"} : Returns(r) =>
        /\ inst' \in InstRecords /\ inst'.at = "idle" /\ inst'.result = r
        /\ inst'.version = inst.version
  BY <1>0, InstMoves
<1>1. \/ backup' = NoDir /\ Returns("success")
      \/ backup' = backup /\ Returns("failed")
  BY DEF CleanUp
<1>2. tampered' = tampered
  BY <1>0, Untouched DEF IInv
<1>3. DirsOK' /\ inst' \in InstRecords
  BY <1>0, <1>1, <1>a DEF TypeOK, DirsOK, Dirs
<1>4. Swapping' /\ Verified' /\ (inst'.result # "none" => inst'.at = "idle")
  BY <1>0, <1>1, <1>2, <1>a DEF Swapping, Verified
<1>5. EvidenceHonest'
  BY <1>0 DEF EvidenceHonest
<1>6. BundleRecoverable'
  <2>1. inst.version \in Versions
    BY <1>0, TypeParts DEF TypeIs, InstRecords
  <2>2. tampered \/ Complete(live')
    BY <1>0, <2>1 DEF Complete
  <2> QED
    BY <1>0, <2>2, Recoverable DEF IInv
<1> QED
  BY <1>3, <1>4, <1>5, <1>6 DEF Swapped

\* An install leaves everything else as it is.
LEMMA InstallEffect ==
  ASSUME IInv, InstallStep
  PROVE  /\ Swapped /\ History /\ inst.at # "idle"
         /\ UNCHANGED <<schema, mode, work, newSchema, runtime, command, up>>
         /\ UNCHANGED <<commands, crashes, unsettled>> /\ faults' \in 0..MaxFaults
<1>1. Swapped
  BY RecoverSwaps, InspectSwaps, StageSwaps, SwapOutSwaps, SwapInSwaps, VerifySwaps, UndoSwaps,
     RestoreSwaps, CleanUpSwaps DEF InstallStep
<1>2. /\ History /\ inst.at # "idle"
      /\ UNCHANGED <<schema, mode, work, newSchema, runtime, command, up>>
      /\ UNCHANGED <<commands, crashes, unsettled>>
  BY DEF InstallStep, InstallRecover, InstallInspect, InstallStage, SwapOut, SwapIn, VerifySwap,
         UndoSwap, RestoreBackup, CleanUp, Installing, stored
<1>3. NoFault \/ Fault \/ (faults + 2 <= MaxFaults /\ faults' = faults + 2)
  BY DEF InstallStep, InstallRecover, InstallInspect, InstallStage, SwapOut, SwapIn, VerifySwap,
         UndoSwap, RestoreBackup, CleanUp
<1>4. faults' \in 0..MaxFaults
  BY <1>3, BoundsAssumption DEF IInv, TypeOK, NoFault, Fault
<1> QED
  BY <1>1, <1>2, <1>4

LEMMA InstallKeeps ==
  ASSUME IInv, InstallStep PROVE IInv'
<1>1. /\ Swapped /\ History /\ inst.at # "idle"
      /\ UNCHANGED <<schema, mode, work, newSchema, runtime, command, up>>
      /\ UNCHANGED <<commands, crashes, unsettled>> /\ faults' \in 0..MaxFaults
  BY InstallEffect
<1>2. TypeOK /\ inst # Idle /\ up.at \in {"none", "replace", "rollback"} /\ command \in {"install", "upgrade"}
  BY <1>1 DEF IInv, Control, NoUpgrade, Idle, TypeOK
<1>3. TypeOK'
  <2>0. BoundsOK /\ StoredOK /\ CommandOK /\ up \in UpRecords
    BY <1>2, TypeParts DEF TypeIs
  <2>1. BoundsOK' /\ StoredOK' /\ CommandOK' /\ up' \in UpRecords
    BY <1>1, <2>0 DEF BoundsOK, StoredOK, CommandOK
  <2>2. DirsOK' /\ inst' \in InstRecords
    BY <1>1 DEF Swapped
  <2>3. HistoryOK'
    BY <1>1, <1>2, HistoryIsTyped DEF TypeOK
  <2> QED
    BY <2>1, <2>2, <2>3, TypeParts DEF TypeIs
<1>4. Control'
  BY <1>1, <1>2 DEF IInv, Control, Swapped
<1>5. Remembered'
  BY <1>1, <1>2, HistoryRemembers
<1>6. Quiesced' /\ Phase' /\ Observed' /\ Readability' /\ Gated'
  BY <1>1, <1>2 DEF IInv, Quiesced, Phase, Observed, Reached, Readability, Readable, Gated, SchemaOf
<1> QED
  BY <1>1, <1>3, <1>4, <1>5, <1>6 DEF IInv, Swapped

-----------------------------------------------------------------------------
(* upgradeManagedVaultRelease.                                              *)

Moves(a) == up' \in UpRecords /\ up'.at = a
Kept == UNCHANGED <<up.from, up.to, up.ceiling, up.same, up.work>>

LEMMA UpMoves ==
  ASSUME TypeOK
  PROVE  /\ \A a \in UpgradeAt \cup {"journal", "remove"} :
              Goes(a) => Moves(a) /\ Kept /\ UNCHANGED <<up.phases, up.valid, up.outcome>>
         /\ Fails => Moves("failing") /\ Kept /\ up'.outcome = "failed"
<1>0. up \in UpRecords
  BY TypeParts DEF TypeIs
<1>1. ASSUME NEW a \in UpgradeAt \cup {"journal", "remove"}, Goes(a)
      PROVE  Moves(a) /\ Kept /\ UNCHANGED <<up.phases, up.valid, up.outcome>>
  <2>1. up' \in UpRecords
    BY <1>0, <1>1, Zenon DEF Goes, UpRecords, UpgradeAt
  <2> QED
    BY <1>0, <1>1, <2>1 DEF Goes, UpRecords, Moves, Kept
<1>2. ASSUME Fails PROVE Moves("failing") /\ Kept /\ up'.outcome = "failed"
  <2>1. up' \in UpRecords
    BY <1>0, <1>2, Zenon DEF Fails, UpRecords, Outcomes
  <2> QED
    BY <1>0, <1>2, <2>1 DEF Fails, UpRecords, Moves, Kept
<1> QED
  BY <1>1, <1>2

\* A step of the upgrade leaves the other directories and every managed file
\* alone; the evidence it writes is that of an upgrade in progress, or settles it.
Framed ==
  /\ History /\ command = "upgrade" /\ inst.at = "idle"
  /\ UNCHANGED <<staging, backup, failed, newSchema, commands, crashes>>
  /\ StoredOK' /\ faults' \in 0..MaxFaults /\ unsettled' \in BOOLEAN
  /\ live' \in Dirs /\ live'.set = live.set /\ (live' = NoDir <=> live = NoDir)
  /\ unsettled' =>
       \/ unsettled /\ live'.evidence = live.evidence
       \/ live # NoDir /\ live'.evidence \in {"in_progress", "failed", "rolled_back"}
  /\ \/ /\ command' = "upgrade" /\ up' \in UpRecords /\ up'.at \in UpgradeAt
        /\ up'.outcome \in {"in_progress", "failed", "rolled_back"}
        /\ \/ inst' = Idle
           \/ up'.at \in {"replace", "rollback"} /\ \E v \in Versions : inst' = Install(v)
     \/ command' = "none" /\ up' = NoUpgrade /\ inst' = Idle

LEMMA FramedKeeps ==
  ASSUME IInv, Framed
  PROVE  /\ TypeOK' /\ Control' /\ Swapping' /\ Verified' /\ Remembered' /\ Gated'
         /\ BundleRecoverable' /\ EvidenceHonest'
<1>0. TypeOK /\ Remembered /\ BundleRecoverable /\ EvidenceHonest /\ History
  BY DEF IInv, Framed
<1>1. /\ inst' \in InstRecords /\ inst'.result = "none" /\ inst'.at \in {"idle", "recover"}
      /\ inst' # Idle => up'.at \in {"replace", "rollback"} /\ command' = "upgrade"
  <2>1. inst' = Idle \/ \E v \in Versions : inst' = Install(v)
    BY DEF Framed
  <2>2. inst' \in InstRecords
    BY <2>1, RestIsTyped
  <2>3. inst'.result = "none" /\ inst'.at \in {"idle", "recover"}
    BY <2>1 DEF Idle, Install
  <2> QED
    BY <2>2, <2>3 DEF Framed
<1>2. TypeOK'
  <2>1. HistoryOK'
    BY <1>0, HistoryIsTyped DEF Framed
  <2>2. up' \in UpRecords
    BY RestIsTyped DEF Framed
  <2>3. BoundsOK /\ DirsOK
    BY <1>0, TypeParts DEF TypeIs
  <2>4. BoundsOK' /\ CommandOK' /\ DirsOK' /\ StoredOK'
    BY <2>3 DEF BoundsOK, CommandOK, DirsOK, Framed
  <2> QED
    BY <1>1, <2>1, <2>2, <2>4, TypeParts DEF TypeIs
<1>3. Control' /\ Swapping' /\ Verified'
  BY <1>1 DEF Framed, Control, Swapping, Verified
<1>4. Remembered'
  BY <1>0, HistoryRemembers
<1>5. Gated'
  BY DEF Framed, Gated, UpgradeAt, NoUpgrade
<1>6. BundleRecoverable'
  <2>1. Complete(live') <=> Complete(live)
    BY <1>0, Untouched DEF Framed
  <2> QED
    BY <1>0, <2>1, Recoverable DEF Framed
<1>7. EvidenceHonest'
  BY <1>0 DEF Framed, EvidenceHonest
<1> QED
  BY <1>2, <1>3, <1>4, <1>5, <1>6, <1>7

\* What each step of the upgrade keeps.
Upgraded == Framed /\ Quiesced' /\ Phase' /\ Observed' /\ Readability'

LEMMA PersistWrites ==
  ASSUME TypeOK, NEW o \in Outcomes, Persist(o)
  PROVE  /\ live # NoDir /\ live' # NoDir /\ live' \in Dirs
         /\ live'.set = live.set /\ live'.evidence = o
BY Persisted DEF Persist

LEMMA UpgradingFacts ==
  ASSUME IInv, NEW a, Upgrading(a)
  PROVE  /\ TypeOK /\ StoredOK /\ up.at = a /\ command = "upgrade" /\ inst.at = "idle"
         /\ a \notin {"replace", "rollback"} => inst = Idle
         /\ up.outcome \in {"in_progress", "failed", "rolled_back"}
         /\ live \in Dirs /\ faults \in 0..MaxFaults /\ unsettled \in BOOLEAN
         /\ UNCHANGED <<staging, backup, failed, newSchema, commands, crashes>>
         /\ NoFault \/ Fault => faults' \in 0..MaxFaults
<1>1. TypeOK /\ StoredOK
  BY TypeParts DEF IInv, TypeIs
<1>2. NoFault \/ Fault => faults' \in 0..MaxFaults
  BY <1>1, BoundsAssumption DEF TypeOK, NoFault, Fault
<1> QED
  BY <1>1, <1>2 DEF Upgrading, IInv, Control, TypeOK

\* Off the path of the phases there is nothing to keep but the ceiling.
LEMMA OffPath ==
  ASSUME IInv, newSchema' = newSchema, Kept \/ up' = NoUpgrade,
         up'.at \in {"none", "failing", "reloadBack", "mark", "record"}
  PROVE  Phase' /\ Observed' /\ Readability'
BY DEF IInv, Kept, Phase, Observed, Reached, Readability, SchemaOf, NoUpgrade

LEMMA RecordStartKeeps ==
  ASSUME IInv, RecordStart PROVE Upgraded
<1>0. Upgrading("evidence") /\ UNCHANGED <<schema, mode, work, runtime, inst, unsettled>> /\ History
  BY DEF RecordStart, stored
<1>1. /\ TypeOK /\ StoredOK /\ up.at = "evidence" /\ command = "upgrade" /\ inst = Idle
      /\ inst.at = "idle" /\ up.outcome \in {"in_progress", "failed", "rolled_back"}
      /\ live \in Dirs /\ unsettled \in BOOLEAN
      /\ UNCHANGED <<staging, backup, failed, newSchema, commands, crashes>>
      /\ NoFault \/ Fault => faults' \in 0..MaxFaults
  BY <1>0, UpgradingFacts
<1>2. StoredOK'
  BY <1>0, <1>1 DEF StoredOK
<1>3. CASE Persist("in_progress") /\ NoFault /\ Goes("drain") /\ UNCHANGED command
  <2>1. /\ live # NoDir /\ live' # NoDir /\ live' \in Dirs
        /\ live'.set = live.set /\ live'.evidence = "in_progress"
    BY <1>1, <1>3, PersistWrites DEF Outcomes
  <2>2. Moves("drain") /\ Kept /\ UNCHANGED <<up.phases, up.valid, up.outcome>>
    BY <1>1, <1>3, UpMoves DEF UpgradeAt
  <2>3. Framed
    BY <1>0, <1>1, <1>2, <1>3, <2>1, <2>2 DEF Framed, Moves, UpgradeAt
  <2>4. Quiesced' /\ Phase' /\ Observed' /\ Readability'
    BY <1>0, <1>1, <2>1, <2>2 DEF IInv, Quiesced, Phase, Observed, Reached, Readability, SchemaOf,
         Moves, Kept
  <2> QED
    BY <2>3, <2>4 DEF Upgraded
<1>4. CASE Fault /\ command' = "none" /\ up' = NoUpgrade /\ UNCHANGED live
  <2>1. Framed
    BY <1>0, <1>1, <1>2, <1>4 DEF Framed
  <2>2. Phase' /\ Observed' /\ Readability'
    BY <1>1, <1>4, OffPath DEF NoUpgrade
  <2>3. Quiesced'
    BY <1>0, <1>4 DEF IInv, Quiesced, NoUpgrade
  <2> QED
    BY <2>1, <2>2, <2>3 DEF Upgraded
<1> QED
  BY <1>3, <1>4 DEF RecordStart

LEMMA DrainKeeps ==
  ASSUME IInv, Drain PROVE Upgraded
<1>0. /\ Upgrading("drain") /\ NoFault /\ History /\ unsettled' = TRUE
      /\ UNCHANGED <<live, schema, work, runtime, command>>
  BY DEF Drain
<1>1. /\ TypeOK /\ StoredOK /\ up.at = "drain" /\ command = "upgrade" /\ inst = Idle
      /\ inst.at = "idle" /\ up.outcome \in {"in_progress", "failed", "rolled_back"}
      /\ live \in Dirs /\ faults' \in 0..MaxFaults
      /\ UNCHANGED <<staging, backup, failed, newSchema, commands, crashes>>
  BY <1>0, UpgradingFacts
<1>2. live # NoDir /\ live.evidence = "in_progress" /\ up.phases = 0 /\ up \in UpRecords
  BY <1>1, TypeParts DEF TypeIs, IInv, Quiesced, Phase
<1>3. CASE mode # "maintenance_pending" /\ mode' = "maintenance_pending" /\ UNCHANGED <<up, inst>>
  <2>1. StoredOK'
    BY <1>0, <1>1, <1>3 DEF StoredOK, Modes
  <2>2. Framed
    BY <1>0, <1>1, <1>2, <1>3, <2>1 DEF Framed, UpgradeAt
  <2>3. Quiesced' /\ Phase' /\ Observed' /\ Readability'
    BY <1>0, <1>1, <1>2, <1>3 DEF IInv, Quiesced, Phase, Observed, Reached, Readability, SchemaOf
  <2> QED
    BY <2>2, <2>3 DEF Upgraded
<1>4. CASE mode = "maintenance_pending" /\ Drained /\ Goes("replace") /\ inst' = Install(up.to)
           /\ UNCHANGED mode
  <2>1. StoredOK'
    BY <1>0, <1>1, <1>4 DEF StoredOK
  <2>2. Moves("replace") /\ Kept /\ UNCHANGED <<up.phases, up.valid, up.outcome>>
    BY <1>1, <1>4, UpMoves DEF UpgradeAt
  <2>3. \E v \in Versions : inst' = Install(v)
    BY <1>2, <1>4 DEF UpRecords
  <2>4. Framed
    BY <1>0, <1>1, <1>2, <2>1, <2>2, <2>3 DEF Framed, Moves, UpgradeAt
  <2>5. Quiesced' /\ Phase' /\ Observed' /\ Readability'
    BY <1>0, <1>1, <1>2, <1>4, <2>2 DEF IInv, Quiesced, Phase, Observed, Reached, Readability,
         SchemaOf, Moves, Kept, Drained
  <2> QED
    BY <2>4, <2>5 DEF Upgraded
<1> QED
  BY <1>3, <1>4 DEF Drain

LEMMA ReplaceReturnedKeeps ==
  ASSUME IInv, ReplaceReturned PROVE Upgraded
<1>0. /\ Upgrading("replace") /\ (NoFault \/ Fault) /\ History /\ inst' = Idle
      /\ UNCHANGED <<live, schema, work, runtime, command, unsettled>>
  BY DEF ReplaceReturned
<1>1. /\ TypeOK /\ StoredOK /\ up.at = "replace" /\ command = "upgrade" /\ inst.at = "idle"
      /\ up.outcome \in {"in_progress", "failed", "rolled_back"}
      /\ live \in Dirs /\ faults' \in 0..MaxFaults /\ unsettled \in BOOLEAN
      /\ UNCHANGED <<staging, backup, failed, newSchema, commands, crashes>>
  BY <1>0, UpgradingFacts
<1>2. up \in UpRecords /\ up.phases = 0 /\ work # "executing"
  BY <1>1, TypeParts DEF TypeIs, IInv, Phase, Quiesced
<1>3. mode' \in {"maintenance_failed", "maintenance_paused"} /\ StoredOK'
  BY <1>0, <1>1 DEF ReplaceReturned, StoredOK, Modes
<1>4. ASSUME Moves("failing"), Kept, up'.outcome = "failed" PROVE Upgraded
  <2>1. Framed
    BY <1>0, <1>1, <1>3, <1>4 DEF Framed, Moves, UpgradeAt
  <2>2. Quiesced'
    BY <1>0, <1>2, <1>4 DEF Quiesced, Moves
  <2>3. Phase' /\ Observed' /\ Readability'
    BY <1>1, <1>4, OffPath DEF Moves
  <2> QED
    BY <2>1, <2>2, <2>3 DEF Upgraded
<1>5. CASE Fails
  BY <1>1, <1>4, <1>5, UpMoves
<1>6. CASE up' = [up EXCEPT !.at = "append", !.replaced = TRUE]
  <2>1. up' \in UpRecords
    BY <1>2, <1>6, Zenon DEF UpRecords
  <2>2. Moves("append") /\ Kept /\ UNCHANGED <<up.phases, up.valid, up.outcome>>
    BY <1>2, <1>6, <2>1 DEF UpRecords, Moves, Kept
  <2>3. Framed
    BY <1>0, <1>1, <1>3, <2>2 DEF Framed, Moves, UpgradeAt
  <2>4. Quiesced' /\ Phase' /\ Observed' /\ Readability'
    BY <1>0, <1>1, <1>2, <2>2 DEF IInv, Quiesced, Phase, Observed, Reached, Readability,
         SchemaOf, Moves, Kept
  <2> QED
    BY <2>3, <2>4 DEF Upgraded
<1>7. CASE up' = [up EXCEPT !.at = "failing", !.outcome = "failed", !.replaced = TRUE]
  <2>1. up' \in UpRecords
    BY <1>2, <1>7, Zenon DEF UpRecords, Outcomes
  <2>2. Moves("failing") /\ Kept /\ up'.outcome = "failed"
    BY <1>2, <1>7, <2>1 DEF UpRecords, Moves, Kept
  <2> QED
    BY <1>4, <2>2
<1> QED
  BY <1>5, <1>6, <1>7 DEF ReplaceReturned

LEMMA AppendPhaseKeeps ==
  ASSUME IInv, AppendPhase PROVE Upgraded
<1>0. /\ Upgrading("append") /\ (NoFault \/ Fault) /\ History
      /\ UNCHANGED <<schema, mode, work, runtime, command, inst, unsettled>>
  BY DEF AppendPhase, stored
<1>1. /\ TypeOK /\ StoredOK /\ up.at = "append" /\ command = "upgrade" /\ inst = Idle
      /\ inst.at = "idle" /\ up.outcome \in {"in_progress", "failed", "rolled_back"}
      /\ live \in Dirs /\ faults' \in 0..MaxFaults /\ unsettled \in BOOLEAN
      /\ UNCHANGED <<staging, backup, failed, newSchema, commands, crashes>>
  BY <1>0, UpgradingFacts
<1>2. up \in UpRecords /\ up.phases \in 0..4 /\ Remembered
  BY <1>1, TypeParts DEF TypeIs, IInv, Phase
<1>3. StoredOK'
  BY <1>0, <1>1 DEF StoredOK
<1>4. CASE Fault /\ Fails /\ UNCHANGED live
  <2>1. Moves("failing") /\ Kept /\ up'.outcome = "failed"
    BY <1>1, <1>4, UpMoves
  <2>2. Framed
    BY <1>0, <1>1, <1>3, <1>4, <2>1 DEF Framed, Moves, UpgradeAt
  <2>3. Phase' /\ Observed' /\ Readability'
    BY <1>1, <2>1, OffPath DEF Moves
  <2>4. Quiesced'
    BY <1>0, <2>1 DEF IInv, Quiesced, Moves
  <2> QED
    BY <2>2, <2>3, <2>4 DEF Upgraded
<1>5. CASE Persist("in_progress")
           /\ up' = [up EXCEPT !.phases = up.phases + 1,
                               !.at = <<"reload", "migrate", "recovery", "health",
                                        "succeed">>[up.phases + 1]]
  <2> DEFINE next == <<"reload", "migrate", "recovery", "health", "succeed">>[up.phases + 1]
  <2>1. /\ live # NoDir /\ live' # NoDir /\ live' \in Dirs
        /\ live'.set = live.set /\ live'.evidence = "in_progress"
    BY <1>1, <1>5, PersistWrites DEF Outcomes
  <2>2. /\ up.phases + 1 \in 1..5
        /\ next = CASE up.phases = 0 -> "reload" [] up.phases = 1 -> "migrate"
                    [] up.phases = 2 -> "recovery" [] up.phases = 3 -> "health"
                    [] OTHER -> "succeed"
    BY <1>2
  <2> HIDE DEF next
  <2>3. next \in {"reload", "migrate", "recovery", "health", "succeed"} /\ up.phases + 1 \in 0..5
    BY <1>2, <2>2
  <2>4. up' = [up EXCEPT !.phases = up.phases + 1, !.at = next]
    BY <1>5 DEF next
  <2>5. up' \in UpRecords
    BY <1>2, <2>3, <2>4, Zenon DEF UpRecords
  <2>6. /\ Moves(next) /\ Kept /\ up'.phases = up.phases + 1
        /\ UNCHANGED <<up.valid, up.outcome>>
    BY <1>2, <2>4, <2>5 DEF UpRecords, Moves, Kept
  <2>7. Framed
    BY <1>0, <1>1, <1>3, <2>1, <2>3, <2>6 DEF Framed, Moves, UpgradeAt
  <2>8. /\ tampered' = tampered
        /\ \A v : Whole(live', v) <=> Whole(live, v)
    BY <1>0, <1>1, <1>2, <2>1, Untouched
  <2>9. Quiesced' /\ Phase'
    BY <1>0, <1>2, <2>2, <2>6 DEF IInv, Quiesced, Phase, Moves
  <2>10. Observed'
    BY <1>0, <1>1, <1>2, <2>2, <2>6, <2>8 DEF IInv, Observed, Reached, SchemaOf, Moves, Kept
  <2>11. Readability'
    BY <1>1, <2>2, <2>3, <2>6 DEF IInv, Readability, SchemaOf, Moves, Kept
  <2> QED
    BY <2>7, <2>9, <2>10, <2>11 DEF Upgraded
<1> QED
  BY <1>4, <1>5 DEF AppendPhase

LEMMA ReloadKeeps ==
  ASSUME IInv, Reload PROVE Upgraded
<1>0. /\ Upgrading("reload") /\ (NoFault \/ Fault) /\ History
      /\ UNCHANGED <<live, mode, command, inst, unsettled>>
  BY DEF Reload
<1>1. /\ TypeOK /\ StoredOK /\ up.at = "reload" /\ command = "upgrade" /\ inst = Idle
      /\ inst.at = "idle" /\ up.outcome \in {"in_progress", "failed", "rolled_back"}
      /\ live \in Dirs /\ faults' \in 0..MaxFaults /\ unsettled \in BOOLEAN
      /\ UNCHANGED <<staging, backup, failed, newSchema, commands, crashes>>
  BY <1>0, UpgradingFacts
<1>2. up \in UpRecords /\ up.phases = 1
  BY <1>1, TypeParts DEF TypeIs, IInv, Phase
<1>3. StoredOK' /\ (work' = work \/ work' = "none")
  <2>1. CASE \E v \in Versions : LoadedBy(v)
    BY <1>0, <1>1, <2>1, LoadedIsTyped DEF StoredOK
  <2>2. CASE runtime' = "none" /\ UNCHANGED <<schema, work>>
    BY <1>0, <1>1, <2>2 DEF StoredOK
  <2> QED
    BY <2>1, <2>2 DEF Reload
<1>4. CASE Goes("append")
  <2>1. Moves("append") /\ Kept /\ UNCHANGED <<up.phases, up.valid, up.outcome>>
    BY <1>1, <1>4, UpMoves DEF UpgradeAt
  <2>2. Framed
    BY <1>0, <1>1, <1>3, <2>1 DEF Framed, Moves, UpgradeAt
  <2>3. Quiesced' /\ Phase' /\ Observed' /\ Readability'
    BY <1>0, <1>1, <1>2, <1>3, <2>1 DEF IInv, Quiesced, Phase, Observed, Reached, Readability,
         SchemaOf, Moves, Kept
  <2> QED
    BY <2>2, <2>3 DEF Upgraded
<1>5. CASE up' = [up EXCEPT !.at = "failing", !.outcome = "failed", !.attached = FALSE]
  <2>1. up' \in UpRecords
    BY <1>2, <1>5, Zenon DEF UpRecords, Outcomes
  <2>2. Moves("failing") /\ Kept /\ up'.outcome = "failed"
    BY <1>2, <1>5, <2>1 DEF UpRecords, Moves, Kept
  <2>3. Framed
    BY <1>0, <1>1, <1>3, <2>2 DEF Framed, Moves, UpgradeAt
  <2>4. Phase' /\ Observed' /\ Readability'
    BY <1>1, <2>2, OffPath DEF Moves
  <2>5. Quiesced'
    BY <1>0, <1>3, <2>2 DEF IInv, Quiesced, Moves
  <2> QED
    BY <2>3, <2>4, <2>5 DEF Upgraded
<1> QED
  BY <1>4, <1>5 DEF Reload

LEMMA MigrateKeeps ==
  ASSUME IInv, Migrate PROVE Upgraded
<1>0. /\ Upgrading("migrate") /\ (NoFault \/ Fault) /\ History
      /\ UNCHANGED <<live, schema, work, runtime, command, inst, unsettled>>
  BY DEF Migrate
<1>1. /\ TypeOK /\ StoredOK /\ up.at = "migrate" /\ command = "upgrade" /\ inst = Idle
      /\ inst.at = "idle" /\ up.outcome \in {"in_progress", "failed", "rolled_back"}
      /\ live \in Dirs /\ faults' \in 0..MaxFaults /\ unsettled \in BOOLEAN
      /\ UNCHANGED <<staging, backup, failed, newSchema, commands, crashes>>
  BY <1>0, UpgradingFacts
<1>2. up \in UpRecords /\ up.phases = 2 /\ Remembered
  BY <1>1, TypeParts DEF TypeIs, IInv, Phase
<1>3. /\ mode' \in {mode, "maintenance_pending", "maintenance_failed", "maintenance_paused"}
      /\ mode' = "maintenance_paused" => work # "executing"
      /\ StoredOK'
  <2>1. /\ mode' \in {mode, "maintenance_pending", "maintenance_failed", "maintenance_paused"}
        /\ mode' = "maintenance_paused" => work # "executing"
    BY <1>0, <1>1 DEF Migrate, IInv, Quiesced, Drained
  <2> QED
    BY <1>0, <1>1, <2>1 DEF StoredOK, Modes
<1>4. CASE UNCHANGED up
  <2>1. Framed
    BY <1>0, <1>1, <1>2, <1>3, <1>4 DEF Framed, UpgradeAt
  <2>2. Quiesced' /\ Phase' /\ Observed' /\ Readability'
    BY <1>0, <1>1, <1>2, <1>3, <1>4
       DEF IInv, Quiesced, Phase, Observed, Reached, Readability, SchemaOf
  <2> QED
    BY <2>1, <2>2 DEF Upgraded
<1>5. CASE Fails
  <2>1. Moves("failing") /\ Kept /\ up'.outcome = "failed"
    BY <1>1, <1>5, UpMoves
  <2>2. Framed
    BY <1>0, <1>1, <1>3, <2>1 DEF Framed, Moves, UpgradeAt
  <2>3. Phase' /\ Observed' /\ Readability'
    BY <1>1, <2>1, OffPath DEF Moves
  <2>4. Quiesced'
    BY <1>0, <1>3, <2>1 DEF Quiesced, Moves
  <2> QED
    BY <2>2, <2>3, <2>4 DEF Upgraded
<1>6. CASE Whole(live, up.to) /\ Goes("append")
  <2>1. Moves("append") /\ Kept /\ UNCHANGED <<up.phases, up.valid, up.outcome>>
    BY <1>1, <1>6, UpMoves DEF UpgradeAt
  <2>2. Framed
    BY <1>0, <1>1, <1>3, <2>1 DEF Framed, Moves, UpgradeAt
  <2>3. Quiesced' /\ Phase' /\ Observed' /\ Readability'
    BY <1>0, <1>1, <1>2, <1>3, <1>6, <2>1 DEF IInv, Quiesced, Phase, Observed, Reached, Readability,
         SchemaOf, Moves, Kept
  <2> QED
    BY <2>2, <2>3 DEF Upgraded
<1> QED
  BY <1>4, <1>5, <1>6 DEF Migrate

LEMMA ObserveHealthKeeps ==
  ASSUME IInv, ObserveHealth PROVE Upgraded
<1>0. /\ Upgrading("recovery") /\ (NoFault \/ Fault) /\ History
      /\ UNCHANGED <<live, schema, mode, work, runtime, command, inst, unsettled>>
  BY DEF ObserveHealth, Quiet, stored
<1>1. /\ TypeOK /\ StoredOK /\ up.at = "recovery" /\ command = "upgrade" /\ inst = Idle
      /\ inst.at = "idle" /\ up.outcome \in {"in_progress", "failed", "rolled_back"}
      /\ live \in Dirs /\ faults' \in 0..MaxFaults /\ unsettled \in BOOLEAN
      /\ UNCHANGED <<staging, backup, failed, newSchema, commands, crashes>>
  BY <1>0, UpgradingFacts
<1>2. up \in UpRecords /\ up.phases = 3 /\ Remembered
  BY <1>1, TypeParts DEF TypeIs, IInv, Phase
<1>3. StoredOK' /\ tampered' = tampered
  BY <1>0, <1>1, <1>2, Untouched DEF StoredOK
<1>4. CASE Fails
  <2>1. Moves("failing") /\ Kept /\ up'.outcome = "failed"
    BY <1>1, <1>4, UpMoves
  <2>2. Framed
    BY <1>0, <1>1, <1>3, <2>1 DEF Framed, Moves, UpgradeAt
  <2>3. Phase' /\ Observed' /\ Readability'
    BY <1>1, <2>1, OffPath DEF Moves
  <2>4. Quiesced'
    BY <1>0, <2>1 DEF IInv, Quiesced, Moves
  <2> QED
    BY <2>2, <2>3, <2>4 DEF Upgraded
<1>5. ASSUME NEW valid, valid = (/\ runtime = up.to /\ schema = SchemaOf(up.to)
                                 /\ mode = "maintenance_paused" /\ QueuePreserved),
             up' = [up EXCEPT !.at = "append", !.valid = valid]
      PROVE  Upgraded
  <2>0. valid \in BOOLEAN
    BY <1>5
  <2>1. up' \in UpRecords
    BY <1>2, <1>5, <2>0, Zenon DEF UpRecords
  <2>2. Moves("append") /\ Kept /\ UNCHANGED <<up.phases, up.outcome>> /\ up'.valid = valid
    BY <1>2, <1>5, <2>1 DEF UpRecords, Moves, Kept
  <2>3. Framed
    BY <1>0, <1>1, <1>3, <2>2 DEF Framed, Moves, UpgradeAt
  <2>4. Quiesced' /\ Phase' /\ Readability'
    BY <1>0, <1>1, <1>2, <2>2 DEF IInv, Quiesced, Phase, Readability, SchemaOf, Moves, Kept
  <2>5. Observed'
    BY <1>0, <1>1, <1>2, <1>3, <1>5, <2>2 DEF IInv, Observed, Reached, SchemaOf, Moves, Kept,
         QueuePreserved
  <2> QED
    BY <2>3, <2>4, <2>5 DEF Upgraded
<1> QED
  BY <1>4, <1>5 DEF ObserveHealth

LEMMA ValidateHealthKeeps ==
  ASSUME IInv, ValidateHealth PROVE Upgraded
<1>0. /\ Upgrading("health") /\ NoFault /\ History
      /\ UNCHANGED <<live, schema, mode, work, runtime, command, inst, unsettled>>
  BY DEF ValidateHealth, Quiet, stored
<1>1. /\ TypeOK /\ StoredOK /\ up.at = "health" /\ command = "upgrade" /\ inst = Idle
      /\ inst.at = "idle" /\ up.outcome \in {"in_progress", "failed", "rolled_back"}
      /\ live \in Dirs /\ faults' \in 0..MaxFaults /\ unsettled \in BOOLEAN
      /\ UNCHANGED <<staging, backup, failed, newSchema, commands, crashes>>
  BY <1>0, UpgradingFacts
<1>2. up \in UpRecords /\ up.phases = 4 /\ Remembered
  BY <1>1, TypeParts DEF TypeIs, IInv, Phase
<1>3. StoredOK' /\ tampered' = tampered
  BY <1>0, <1>1, <1>2, Untouched DEF StoredOK
<1>4. CASE Fails
  <2>1. Moves("failing") /\ Kept /\ up'.outcome = "failed"
    BY <1>1, <1>4, UpMoves
  <2>2. Framed
    BY <1>0, <1>1, <1>3, <2>1 DEF Framed, Moves, UpgradeAt
  <2>3. Phase' /\ Observed' /\ Readability'
    BY <1>1, <2>1, OffPath DEF Moves
  <2>4. Quiesced'
    BY <1>0, <2>1 DEF IInv, Quiesced, Moves
  <2> QED
    BY <2>2, <2>3, <2>4 DEF Upgraded
<1>5. CASE up.valid /\ Goes("append")
  <2>1. Moves("append") /\ Kept /\ UNCHANGED <<up.phases, up.valid, up.outcome>>
    BY <1>1, <1>5, UpMoves DEF UpgradeAt
  <2>2. Framed
    BY <1>0, <1>1, <1>3, <2>1 DEF Framed, Moves, UpgradeAt
  <2>3. Quiesced' /\ Phase' /\ Readability'
    BY <1>0, <1>1, <1>2, <2>1 DEF IInv, Quiesced, Phase, Readability, SchemaOf, Moves, Kept
  <2>4. Observed'
    BY <1>0, <1>1, <1>2, <1>3, <1>5, <2>1 DEF IInv, Observed, Reached, SchemaOf, Moves, Kept
  <2> QED
    BY <2>2, <2>3, <2>4 DEF Upgraded
<1> QED
  BY <1>4, <1>5 DEF ValidateHealth

LEMMA SucceedKeeps ==
  ASSUME IInv, Succeed PROVE Upgraded
<1>0. /\ Upgrading("succeed") /\ (NoFault \/ Fault) /\ History /\ command' = "none" /\ up' = NoUpgrade
      /\ UNCHANGED <<schema, mode, work, runtime, inst>>
  BY DEF Succeed, stored
<1>1. /\ TypeOK /\ StoredOK /\ command = "upgrade" /\ inst = Idle /\ inst.at = "idle"
      /\ live \in Dirs /\ faults' \in 0..MaxFaults /\ unsettled \in BOOLEAN
      /\ UNCHANGED <<staging, backup, failed, newSchema, commands, crashes>>
  BY <1>0, UpgradingFacts
<1>2. StoredOK'
  BY <1>0, <1>1 DEF StoredOK
<1>3. /\ live' \in Dirs /\ live'.set = live.set /\ (live' = NoDir <=> live = NoDir)
      /\ unsettled' \in BOOLEAN /\ (unsettled' => unsettled /\ live' = live)
  <2>1. CASE Persist("succeeded") /\ unsettled' = FALSE
    BY <1>1, <2>1, PersistWrites DEF Outcomes
  <2>2. CASE UNCHANGED <<live, unsettled>>
    BY <1>1, <2>2
  <2> QED
    BY <2>1, <2>2 DEF Succeed
<1>4. Framed
  BY <1>0, <1>1, <1>2, <1>3 DEF Framed
<1>5. Phase' /\ Observed' /\ Readability'
  BY <1>0, <1>1, OffPath DEF NoUpgrade
<1>6. Quiesced'
  BY <1>0 DEF IInv, Quiesced, NoUpgrade
<1> QED
  BY <1>4, <1>5, <1>6 DEF Upgraded

LEMMA DecideRollbackKeeps ==
  ASSUME IInv, DecideRollback PROVE Upgraded
<1>0. /\ Upgrading("failing") /\ NoFault /\ History
      /\ UNCHANGED <<live, schema, mode, work, runtime, command, unsettled>>
  BY DEF DecideRollback, stored
<1>1. /\ TypeOK /\ StoredOK /\ up.at = "failing" /\ command = "upgrade" /\ inst = Idle
      /\ inst.at = "idle" /\ up.outcome \in {"in_progress", "failed", "rolled_back"}
      /\ live \in Dirs /\ faults' \in 0..MaxFaults /\ unsettled \in BOOLEAN
      /\ UNCHANGED <<staging, backup, failed, newSchema, commands, crashes>>
  BY <1>0, UpgradingFacts
<1>2. up \in UpRecords
  BY <1>1, TypeParts DEF TypeIs
<1>3. StoredOK'
  BY <1>0, <1>1 DEF StoredOK
<1>4. CASE Readable /\ Goes("rollback") /\ inst' = Install(up.from)
  <2>1. Moves("rollback") /\ Kept /\ UNCHANGED <<up.phases, up.valid, up.outcome>>
    BY <1>1, <1>4, UpMoves DEF UpgradeAt
  <2>2. \E v \in Versions : inst' = Install(v)
    BY <1>2, <1>4 DEF UpRecords
  <2>3. Framed
    BY <1>0, <1>1, <1>3, <2>1, <2>2 DEF Framed, Moves, UpgradeAt
  <2>4. Quiesced' /\ Phase' /\ Observed' /\ Readability'
    BY <1>0, <1>1, <1>4, <2>1 DEF IInv, Quiesced, Phase, Observed, Reached, Readability, Readable,
         SchemaOf, Moves, Kept
  <2> QED
    BY <2>3, <2>4 DEF Upgraded
<1>5. CASE Goes("mark") /\ UNCHANGED inst
  <2>1. Moves("mark") /\ Kept /\ UNCHANGED <<up.phases, up.valid, up.outcome>>
    BY <1>1, <1>5, UpMoves DEF UpgradeAt
  <2>2. Framed
    BY <1>0, <1>1, <1>3, <1>5, <2>1 DEF Framed, Moves, UpgradeAt
  <2>3. Phase' /\ Observed' /\ Readability'
    BY <1>1, <2>1, OffPath DEF Moves
  <2>4. Quiesced'
    BY <1>0, <2>1 DEF IInv, Quiesced, Moves
  <2> QED
    BY <2>2, <2>3, <2>4 DEF Upgraded
<1> QED
  BY <1>4, <1>5 DEF DecideRollback

LEMMA RollbackReturnedKeeps ==
  ASSUME IInv, RollbackReturned PROVE Upgraded
<1>0. /\ Upgrading("rollback") /\ NoFault /\ History /\ inst' = Idle
      /\ UNCHANGED <<live, schema, mode, work, runtime, command, unsettled>>
  BY DEF RollbackReturned, stored
<1>1. /\ TypeOK /\ StoredOK /\ command = "upgrade" /\ inst.at = "idle"
      /\ up.outcome \in {"in_progress", "failed", "rolled_back"}
      /\ live \in Dirs /\ faults' \in 0..MaxFaults /\ unsettled \in BOOLEAN
      /\ UNCHANGED <<staging, backup, failed, newSchema, commands, crashes>>
  BY <1>0, UpgradingFacts
<1>2. StoredOK'
  BY <1>0, <1>1 DEF StoredOK
<1>3. PICK a \in {"mark", "reloadBack"} : Goes(a)
  BY DEF RollbackReturned
<1>4. Moves(a) /\ Kept /\ UNCHANGED <<up.phases, up.valid, up.outcome>>
  BY <1>1, <1>3, UpMoves DEF UpgradeAt
<1>5. Framed
  BY <1>0, <1>1, <1>2, <1>4 DEF Framed, Moves, UpgradeAt
<1>6. Phase' /\ Observed' /\ Readability'
  BY <1>1, <1>4, OffPath DEF Moves
<1>7. Quiesced'
  BY <1>0, <1>4 DEF IInv, Quiesced, Moves
<1> QED
  BY <1>5, <1>6, <1>7 DEF Upgraded

LEMMA ReloadBackKeeps ==
  ASSUME IInv, ReloadBack PROVE Upgraded
<1>0. /\ Upgrading("reloadBack") /\ (NoFault \/ Fault) /\ History
      /\ UNCHANGED <<live, mode, command, inst, unsettled>>
  BY DEF ReloadBack
<1>1. /\ TypeOK /\ StoredOK /\ up.at = "reloadBack" /\ command = "upgrade" /\ inst = Idle
      /\ inst.at = "idle" /\ up.outcome \in {"in_progress", "failed", "rolled_back"}
      /\ live \in Dirs /\ faults' \in 0..MaxFaults /\ unsettled \in BOOLEAN
      /\ UNCHANGED <<staging, backup, failed, newSchema, commands, crashes>>
  BY <1>0, UpgradingFacts
<1>2. up \in UpRecords
  BY <1>1, TypeParts DEF TypeIs
<1>3. StoredOK' /\ (work' = work \/ work' = "none")
  <2>1. CASE \E v \in Versions : LoadedBy(v)
    BY <1>0, <1>1, <2>1, LoadedIsTyped DEF StoredOK
  <2>2. CASE runtime' = "none" /\ UNCHANGED <<schema, work>>
    BY <1>0, <1>1, <2>2 DEF StoredOK
  <2> QED
    BY <2>1, <2>2 DEF ReloadBack
<1>4. Moves("mark") /\ Kept /\ up'.outcome \in {"in_progress", "failed", "rolled_back"}
  <2>1. CASE up' = [up EXCEPT !.at = "mark", !.attached = TRUE, !.outcome = "rolled_back"]
    <3>1. up' \in UpRecords
      BY <1>2, <2>1, Zenon DEF UpRecords, Outcomes
    <3> QED
      BY <1>2, <2>1, <3>1 DEF UpRecords, Moves, Kept
  <2>2. CASE up' = [up EXCEPT !.at = "mark", !.attached = FALSE]
    <3>1. up' \in UpRecords
      BY <1>2, <2>2, Zenon DEF UpRecords
    <3> QED
      BY <1>1, <1>2, <2>2, <3>1 DEF UpRecords, Moves, Kept
  <2> QED
    BY <2>1, <2>2 DEF ReloadBack
<1>5. Framed
  BY <1>0, <1>1, <1>3, <1>4 DEF Framed, Moves, UpgradeAt
<1>6. Phase' /\ Observed' /\ Readability'
  BY <1>1, <1>4, OffPath DEF Moves
<1>7. Quiesced'
  BY <1>0, <1>3, <1>4 DEF IInv, Quiesced, Moves
<1> QED
  BY <1>5, <1>6, <1>7 DEF Upgraded

LEMMA MarkFailedKeeps ==
  ASSUME IInv, MarkFailed PROVE Upgraded
<1>0. /\ Upgrading("mark") /\ NoFault /\ History
      /\ UNCHANGED <<live, schema, work, runtime, command, inst, unsettled>>
      /\ mode' \in {mode, "maintenance_pending", "maintenance_failed"}
  BY DEF MarkFailed
<1>1. /\ TypeOK /\ StoredOK /\ up.at = "mark" /\ command = "upgrade" /\ inst = Idle
      /\ inst.at = "idle" /\ up.outcome \in {"in_progress", "failed", "rolled_back"}
      /\ live \in Dirs /\ faults' \in 0..MaxFaults /\ unsettled \in BOOLEAN
      /\ UNCHANGED <<staging, backup, failed, newSchema, commands, crashes>>
  BY <1>0, UpgradingFacts
<1>2. up \in UpRecords
  BY <1>1, TypeParts DEF TypeIs
<1>3. StoredOK'
  BY <1>0, <1>1 DEF StoredOK, Modes
<1>4. /\ up' \in UpRecords /\ up'.at \in {"mark", "record"} /\ Kept
      /\ up'.outcome \in {"in_progress", "failed", "rolled_back"}
  <2>1. Goes("record") => Moves("record") /\ Kept /\ UNCHANGED <<up.phases, up.valid, up.outcome>>
    BY <1>1, UpMoves DEF UpgradeAt
  <2> QED
    BY <1>1, <1>2, <2>1 DEF MarkFailed, Moves, Kept
<1>5. Framed
  BY <1>0, <1>1, <1>3, <1>4 DEF Framed, UpgradeAt
<1>6. Phase' /\ Observed' /\ Readability'
  BY <1>1, <1>4, OffPath
<1>7. Quiesced'
  BY <1>0, <1>4 DEF IInv, Quiesced
<1> QED
  BY <1>5, <1>6, <1>7 DEF Upgraded

LEMMA RecordFailureKeeps ==
  ASSUME IInv, RecordFailure PROVE Upgraded
<1>0. /\ Upgrading("record") /\ (NoFault \/ Fault) /\ History /\ command' = "none" /\ up' = NoUpgrade
      /\ UNCHANGED <<schema, mode, work, runtime, inst, unsettled>>
  BY DEF RecordFailure, stored
<1>1. /\ TypeOK /\ StoredOK /\ command = "upgrade" /\ inst = Idle /\ inst.at = "idle"
      /\ up.outcome \in {"in_progress", "failed", "rolled_back"}
      /\ live \in Dirs /\ faults' \in 0..MaxFaults /\ unsettled \in BOOLEAN
      /\ UNCHANGED <<staging, backup, failed, newSchema, commands, crashes>>
  BY <1>0, UpgradingFacts
<1>2. StoredOK'
  BY <1>0, <1>1 DEF StoredOK
<1>3. /\ live' \in Dirs /\ live'.set = live.set /\ (live' = NoDir <=> live = NoDir)
      /\ \/ live' = live
         \/ live # NoDir /\ live'.evidence \in {"in_progress", "failed", "rolled_back"}
  BY <1>1, PersistWrites DEF RecordFailure, Outcomes
<1>4. Framed
  BY <1>0, <1>1, <1>2, <1>3 DEF Framed
<1>5. Phase' /\ Observed' /\ Readability'
  BY <1>0, <1>1, OffPath DEF NoUpgrade
<1>6. Quiesced'
  BY <1>0 DEF IInv, Quiesced, NoUpgrade
<1> QED
  BY <1>4, <1>5, <1>6 DEF Upgraded

LEMMA UpgradeKeeps ==
  ASSUME IInv, UpgradeStep PROVE IInv'
<1>1. Upgraded
  BY RecordStartKeeps, DrainKeeps, ReplaceReturnedKeeps, AppendPhaseKeeps, ReloadKeeps,
     MigrateKeeps,
     ObserveHealthKeeps, ValidateHealthKeeps, SucceedKeeps, DecideRollbackKeeps,
     RollbackReturnedKeeps, ReloadBackKeeps, MarkFailedKeeps, RecordFailureKeeps DEF UpgradeStep
<1> QED
  BY <1>1, FramedKeeps DEF Upgraded, IInv

-----------------------------------------------------------------------------
(* The plugin, its host and others beside the command.                      *)

\* Who changes what is persisted, and when.
LEMMA BesideStored ==
  ASSUME TypeOK, Beside
  PROVE  /\ command = "upgrade" => UNCHANGED <<runtime, schema>>
         /\ \/ mode' = mode
            \/ mode = "maintenance_paused" /\ mode' = "none" /\ work' = work
            \/ /\ command = "none" /\ mode' = "maintenance_paused"
               /\ work # "executing" /\ work' = work
         /\ \/ work' = work
            \/ work = "executing" /\ work' = "none"
            \/ mode = "none" /\ mode' = "none"
         /\ runtime' = "none" => UNCHANGED <<mode, work>>
<1>1. CASE LoadRuntime
  <2>1. PICK v \in Versions : LoadedBy(v)
    BY <1>1 DEF LoadRuntime
  <2>2. runtime' # "none" /\ (work' = work \/ (work = "executing" /\ work' = "none"))
    BY <2>1, LoadedIsTyped DEF Versions
  <2> QED
    BY <1>1, <2>2 DEF LoadRuntime
<1>2. CASE UnloadRuntime
  BY <1>2 DEF UnloadRuntime, stored
<1>3. CASE RuntimeWorks
  BY <1>3 DEF RuntimeWorks, Restricted
<1>4. CASE Resume
  BY <1>4 DEF Resume, Restricted
<1>5. CASE FinishMaintenance
  BY <1>5 DEF FinishMaintenance, Restricted
<1>6. CASE Tamper
  BY <1>6 DEF Tamper, stored
<1> QED
  BY <1>1, <1>2, <1>3, <1>4, <1>5, <1>6 DEF Beside

LEMMA BesideKeeps ==
  ASSUME IInv, Beside PROVE IInv'
<1>0. TypeOK /\ Remembered /\ Control
  BY DEF IInv
<1>1. /\ UNCHANGED <<staging, backup, failed, newSchema, command, inst, up>>
      /\ UNCHANGED <<commands, crashes, unsettled>>
      /\ live' \in Dirs /\ live'.evidence = live.evidence /\ (live' = NoDir <=> live = NoDir)
      /\ live' = live \/ (~Complete(live') /\ tampered')
      /\ StoredOK' /\ faults' \in 0..MaxFaults /\ History
  BY <1>0, BesideEffect
<1>2. /\ command = "upgrade" => UNCHANGED <<runtime, schema>>
      /\ \/ mode' = mode
         \/ mode = "maintenance_paused" /\ mode' = "none" /\ work' = work
         \/ /\ command = "none" /\ mode' = "maintenance_paused"
            /\ work # "executing" /\ work' = work
      /\ \/ work' = work
         \/ work = "executing" /\ work' = "none"
         \/ mode = "none" /\ mode' = "none"
      /\ runtime' = "none" => UNCHANGED <<mode, work>>
  BY <1>0, BesideStored
<1>3. tampered' \/ (live' = live /\ tampered' = tampered)
  BY <1>0, <1>1, Untouched
<1>4. TypeOK'
  <2>1. HistoryOK'
    BY <1>0, <1>1, HistoryIsTyped DEF TypeOK
  <2>2. TypeIs
    BY <1>0, TypeParts
  <2>3. DirsOK' /\ CommandOK' /\ inst' \in InstRecords /\ up' \in UpRecords /\ BoundsOK'
    BY <1>1, <2>2 DEF TypeIs, DirsOK, CommandOK, BoundsOK
  <2> QED
    BY <1>1, <2>1, <2>3, TypeParts DEF TypeIs
<1>5. Control' /\ Phase'
  BY <1>1 DEF IInv, Control, Phase
<1>6. Swapping'
  BY <1>1 DEF IInv, Swapping, Carried
<1>7. Verified'
  BY <1>1, <1>3 DEF IInv, Verified
<1>8. Remembered'
  BY <1>0, <1>1, HistoryRemembers
<1>9. Quiesced'
  BY <1>0, <1>1, <1>2 DEF IInv, Quiesced, Control, NoUpgrade
<1>10. Observed' /\ Readability'
  <2>1. up.at \in UpgradeAt => UNCHANGED <<runtime, schema>> /\ command = "upgrade"
    BY <1>0, <1>2 DEF Control, NoUpgrade, UpgradeAt, TypeOK
  <2>2. Observed'
    <3>1. Reached(2)' => tampered' \/ Whole(live', up'.to)
      BY <1>1, <1>3 DEF IInv, Observed, Reached
    <3>2. mode' = "maintenance_paused" /\ command = "upgrade" => mode = mode' /\ work = work'
      BY <1>2 DEF IInv, Quiesced
    <3> QED
      BY <1>1, <2>1, <3>1, <3>2 DEF IInv, Observed, UpgradeAt, SchemaOf
  <2>3. Readability'
    BY <1>1, <2>1 DEF IInv, Readability, Readable, UpgradeAt, SchemaOf
  <2> QED
    BY <2>2, <2>3
<1>11. Gated'
  <2>1. up.at \in {"journal", "remove"} => command # "none"
    BY <1>0 DEF Control, NoUpgrade
  <2>2. up.at \in {"journal", "remove"} /\ ~sawRuntime' => ~sawRuntime /\ runtime' = "none"
    BY <1>0, <1>1, <2>1 DEF History, TypeOK
  <2> QED
    BY <1>1, <1>2, <2>2 DEF IInv, Gated, EvidenceSettled
<1>12. BundleRecoverable'
  <2>1. CASE tampered'
    BY <2>1 DEF BundleRecoverable
  <2>2. CASE live' = live
    BY <1>0, <1>1, <2>2, Recoverable DEF IInv
  <2> QED
    BY <1>3, <2>1, <2>2
<1>13. EvidenceHonest'
  BY <1>1 DEF IInv, EvidenceHonest
<1> QED
  BY <1>4, <1>5, <1>6, <1>7, <1>8, <1>9, <1>10, <1>11, <1>12, <1>13 DEF IInv

\* A process that dies leaves what its last file operation left.
LEMMA CrashKeeps ==
  ASSUME IInv, Crash PROVE IInv'
<1>0. /\ TypeOK /\ Remembered /\ TypeIs /\ command' = "none" /\ inst' = Idle /\ up' = NoUpgrade
      /\ runtime' \in {"none", runtime} /\ crashes' = crashes + 1 /\ crashes < MaxCrashes
      /\ UNCHANGED <<schema, mode, work, newSchema, commands, faults, unsettled>> /\ History
  BY TypeParts DEF IInv, Crash, stored
<1>1. /\ UNCHANGED <<live, failed>> /\ staging' \in Dirs /\ backup' \in Dirs
      /\ backup' = backup \/ (inst.at = "cleanup" /\ live # NoDir)
  <2>1. CASE UNCHANGED dirs
    BY <1>0, <2>1 DEF dirs, TypeOK
  <2>2. CASE /\ inst.at = "cleanup" /\ backup # NoDir
             /\ backup' = [backup EXCEPT !.set = Uniform("missing")]
             /\ UNCHANGED <<live, staging, failed>>
    <3>1. backup \in Directory
      BY <1>0, <2>2, DirectoriesAreThere DEF TypeOK
    <3>2. backup' \in Directory
      BY <2>2, <3>1, DirectoriesAreThere, Zenon DEF Directory
    <3> QED
      BY <1>0, <2>2, <3>2 DEF Dirs, TypeOK, IInv, Swapping
  <2>3. CASE /\ inst.at = "stage"
             /\ staging' = [set |-> Uniform("missing"), evidence |-> "none"]
             /\ UNCHANGED <<live, backup, failed>>
    <3>1. staging' \in Directory
      BY <2>3, DirectoriesAreThere DEF Directory, Outcomes
    <3> QED
      BY <1>0, <2>3, <3>1 DEF Dirs, TypeOK
  <2> QED
    BY <2>1, <2>2, <2>3 DEF Crash
<1>2. TypeOK'
  <2>1. HistoryOK'
    BY <1>0, HistoryIsTyped DEF TypeOK
  <2>2. DirsOK' /\ StoredOK' /\ CommandOK' /\ BoundsOK'
    BY <1>0, <1>1, BoundsAssumption DEF TypeIs, DirsOK, StoredOK, CommandOK, BoundsOK
  <2> QED
    BY <1>0, <2>1, <2>2, TypeParts, RestIsTyped DEF TypeIs
<1>3. Control' /\ Swapping' /\ Verified' /\ Phase' /\ Observed' /\ Gated'
  BY <1>0 DEF Control, Swapping, Verified, Phase, Observed, Reached, Gated, Idle, NoUpgrade
<1>4. Remembered'
  BY <1>0, HistoryRemembers
<1>5. Quiesced' /\ Readability'
  BY <1>0 DEF IInv, Quiesced, Readability, SchemaOf, NoUpgrade
<1>6. BundleRecoverable'
  BY <1>0, <1>1, Recoverable DEF IInv
<1>7. EvidenceHonest'
  BY <1>0, <1>1 DEF IInv, EvidenceHonest
<1> QED
  BY <1>2, <1>3, <1>4, <1>5, <1>6, <1>7 DEF IInv

-----------------------------------------------------------------------------
(* Commands begin and end.                                                  *)

\* A command that begins or ends touches nothing.
LEMMA BoundaryKeeps ==
  ASSUME IInv, History, Control', Phase', Readability',
         UNCHANGED <<live, staging, backup, failed, schema, mode, work, newSchema, runtime>>,
         UNCHANGED <<faults, crashes, unsettled>>,
         commands' \in 0..MaxCommands, CommandOK', up' \in UpRecords, inst' \in InstRecords,
         up'.at \in {"none", "evidence", "state"},
         inst'.at \in {"idle", "recover"}, inst'.result = "none"
  PROVE  IInv'
<1>0. TypeOK /\ Remembered /\ TypeIs
  BY TypeParts DEF IInv
<1>1. TypeOK'
  <2>1. HistoryOK'
    BY <1>0, HistoryIsTyped DEF TypeOK
  <2>2. DirsOK' /\ StoredOK' /\ BoundsOK'
    BY <1>0 DEF TypeIs, DirsOK, StoredOK, BoundsOK
  <2> QED
    BY <2>1, <2>2, TypeParts DEF TypeIs
<1>2. Swapping' /\ Verified' /\ Observed' /\ Gated'
  BY DEF Swapping, Verified, Observed, Reached, Gated
<1>3. Remembered'
  BY <1>0, HistoryRemembers
<1>4. Quiesced'
  BY DEF IInv, Quiesced
<1>5. BundleRecoverable'
  BY <1>0, Recoverable DEF IInv
<1>6. EvidenceHonest'
  BY DEF IInv, EvidenceHonest
<1> QED
  BY <1>1, <1>2, <1>3, <1>4, <1>5, <1>6 DEF IInv

LEMMA StartInstallKeeps ==
  ASSUME IInv, NEW v \in Versions, StartInstall(v) PROVE IInv'
<1>0. TypeOK /\ TypeIs /\ up = NoUpgrade
  BY TypeParts DEF IInv, StartInstall, Control
<1>1. /\ inst' \in InstRecords /\ inst'.at = "recover" /\ inst'.result = "none"
      /\ command' = "install" /\ up' = up /\ up.at = "none" /\ History
      /\ UNCHANGED <<live, staging, backup, failed, schema, mode, work, newSchema, runtime>>
      /\ UNCHANGED <<faults, crashes, unsettled>>
  BY <1>0, RestIsTyped DEF StartInstall, Install, dirs, stored, NoUpgrade
<1>2. commands' \in 0..MaxCommands /\ CommandOK' /\ up' \in UpRecords
  BY <1>0, <1>1, BoundsAssumption DEF StartInstall, TypeIs, BoundsOK, CommandOK
<1>3. Control' /\ Phase' /\ Readability'
  BY <1>0, <1>1 DEF IInv, Control, Phase, Readability, SchemaOf
<1> QED
  BY <1>1, <1>2, <1>3, BoundaryKeeps

LEMMA InstallDoneKeeps ==
  ASSUME IInv, InstallDone PROVE IInv'
<1>0. TypeOK /\ TypeIs /\ up = NoUpgrade
  BY TypeParts DEF IInv, InstallDone, Control
<1>1. /\ inst' = Idle /\ inst' \in InstRecords /\ inst'.at = "idle" /\ inst'.result = "none"
      /\ command' = "none" /\ up' = up /\ up.at = "none" /\ History
      /\ UNCHANGED <<live, staging, backup, failed, schema, mode, work, newSchema, runtime>>
      /\ UNCHANGED <<commands, faults, crashes, unsettled>>
  BY <1>0, RestIsTyped DEF InstallDone, Idle, dirs, stored, bounds, NoUpgrade
<1>2. commands' \in 0..MaxCommands /\ CommandOK' /\ up' \in UpRecords
  BY <1>0, <1>1 DEF TypeIs, BoundsOK, CommandOK
<1>3. Control' /\ Phase' /\ Readability'
  BY <1>0, <1>1 DEF IInv, Control, Phase, Readability, SchemaOf
<1> QED
  BY <1>1, <1>2, <1>3, BoundaryKeeps

LEMMA StartUninstallKeeps ==
  ASSUME IInv, StartUninstall PROVE IInv'
<1>0. TypeOK /\ TypeIs
  BY TypeParts DEF IInv
<1>1. /\ inst' = Idle /\ inst' \in InstRecords /\ inst'.at = "idle" /\ inst'.result = "none"
      /\ command' = "uninstall" /\ up' = [NoUpgrade EXCEPT !.at = "state"] /\ History
      /\ UNCHANGED <<live, staging, backup, failed, schema, mode, work, newSchema, runtime>>
      /\ UNCHANGED <<faults, crashes, unsettled>>
  BY RestIsTyped DEF StartUninstall, Idle, dirs, stored
<1>2. commands' \in 0..MaxCommands /\ CommandOK'
  BY <1>0, <1>1, BoundsAssumption DEF StartUninstall, TypeIs, BoundsOK, CommandOK
<1>3. up' \in UpRecords
  BY <1>1, RestIsTyped, Zenon DEF UpRecords
<1>4. up'.at = "state" /\ up'.ceiling = 1 /\ up'.from = "old"
  BY <1>1 DEF NoUpgrade
<1>5. Control' /\ Phase' /\ Readability'
  BY <1>1, <1>4 DEF Control, Phase, Readability, SchemaOf
<1> QED
  BY <1>1, <1>2, <1>3, <1>4, <1>5, BoundaryKeeps

LEMMA StartUpgradeKeeps ==
  ASSUME IInv, NEW v \in Versions, StartUpgrade(v) PROVE IInv'
<1>0. TypeOK /\ TypeIs /\ work \in {"none", "queued", "executing"}
  BY TypeParts DEF IInv, TypeOK
<1>1. /\ inst' = Idle /\ inst' \in InstRecords /\ inst'.at = "idle" /\ inst'.result = "none"
      /\ command' = "upgrade" /\ History
      /\ UNCHANGED <<live, staging, backup, failed, schema, mode, work, newSchema, runtime>>
      /\ UNCHANGED <<faults, crashes, unsettled>>
  BY RestIsTyped DEF StartUpgrade, Idle, dirs, stored
<1>2. commands' \in 0..MaxCommands /\ CommandOK'
  BY <1>0, <1>1, BoundsAssumption DEF StartUpgrade, TypeIs, BoundsOK, CommandOK
<1>3. PICK from \in Versions, spare \in BOOLEAN :
        up' = [NoUpgrade EXCEPT !.at = "evidence", !.from = from, !.to = v,
                                !.ceiling = SchemaOf(runtime), !.spare = spare,
                                !.same = (runtime = from), !.work = work,
                                !.outcome = "in_progress"]
  BY DEF StartUpgrade
<1>4. SchemaOf(runtime) \in 1..2 /\ (runtime = from) \in BOOLEAN
  BY <1>0, SchemaIsTyped
<1>5. up' \in UpRecords
  <2> DEFINE c == SchemaOf(runtime)
             b == runtime = from
  <2>1. c \in 1..2 /\ b \in BOOLEAN
    BY <1>4
  <2>2. up' = [NoUpgrade EXCEPT !.at = "evidence", !.from = from, !.to = v,
                                !.ceiling = c, !.spare = spare,
                                !.same = b, !.work = work, !.outcome = "in_progress"]
    BY <1>3
  <2> HIDE DEF c, b
  <2> QED
    BY <1>0, <2>1, <2>2, RestIsTyped, Zenon DEF UpRecords, Outcomes
<1>6. /\ up'.at = "evidence" /\ up'.phases = 0 /\ up'.outcome = "in_progress"
      /\ up'.ceiling = SchemaOf(runtime) /\ up'.same = (runtime = from) /\ up'.from = from
  BY <1>3 DEF NoUpgrade
<1>7. Control' /\ Phase'
  BY <1>1, <1>6 DEF Control, Phase, UpgradeAt
<1>8. Readability'
  BY <1>1, <1>6 DEF Readability, SchemaOf
<1> QED
  BY <1>1, <1>2, <1>5, <1>6, <1>7, <1>8, BoundaryKeeps

LEMMA UninstallKeeps ==
  ASSUME IInv, UninstallStep PROVE IInv'
<1>0. /\ TypeOK /\ TypeIs /\ Remembered /\ command = "uninstall" /\ inst = Idle /\ History
      /\ up.at \in {"state", "journal", "remove"} /\ BundleRecoverable
      /\ UNCHANGED <<staging, backup, failed, schema, mode, work, newSchema, runtime, inst>>
      /\ UNCHANGED <<commands, crashes, unsettled>>
  BY TypeParts DEF IInv, UninstallStep, GateState, GateEvidence, RemoveFile, Uninstalling, Control,
     stored
<1>1. ~sawRuntime' => ~sawRuntime
  BY <1>0 DEF History, TypeOK
<1>2. \/ /\ up.at = "state" /\ Goes("journal") /\ UNCHANGED <<live, command>>
         /\ work = "none" /\ mode \notin {"maintenance_pending", "maintenance_failed"}
      \/ up.at = "journal" /\ Goes("remove") /\ UNCHANGED <<live, command>> /\ EvidenceSettled
      \/ /\ up.at = "remove" /\ UNCHANGED <<command, up>>
         /\ \E f \in Files : live.set[f] # "missing" /\ live' = [live EXCEPT !.set[f] = "missing"]
      \/ command' = "none" /\ up' = NoUpgrade /\ UNCHANGED live
  BY DEF UninstallStep, GateState, GateEvidence, RemoveFile, Uninstalling
<1>3. faults' \in 0..MaxFaults
  <2>1. NoFault \/ Fault
    BY DEF UninstallStep, GateState, GateEvidence, RemoveFile
  <2> QED
    BY <1>0, <2>1, BoundsAssumption DEF NoFault, Fault, TypeOK
<1>4. /\ live' \in Dirs /\ live'.evidence = live.evidence /\ (live' = NoDir <=> live = NoDir)
      /\ live' = live \/ (up.at = "remove" /\ up' = up)
  <2>1. ASSUME NEW f \in Files, live.set[f] # "missing", live' = [live EXCEPT !.set[f] = "missing"]
        PROVE  live' \in Dirs /\ live'.evidence = live.evidence /\ (live' = NoDir <=> live = NoDir)
    <3>1. live # NoDir
      BY <2>1 DEF NoDir
    <3> QED
      BY <1>0, <2>1, <3>1, Rewritten DEF Content
  <2> QED
    BY <1>0, <1>2, <2>1 DEF TypeOK
<1>5. /\ up' \in UpRecords /\ CommandOK' /\ Control' /\ Phase' /\ Readability'
      /\ up'.at \in {"none", "journal", "remove"}
      /\ up'.at = "journal" => up.at = "state" /\ work = "none"
                                 /\ mode \notin {"maintenance_pending", "maintenance_failed"}
      /\ up'.at = "remove" => (up.at = "journal" /\ EvidenceSettled) \/ up.at = "remove"
  <2>1. CASE Goes("journal") /\ command' = command /\ up.at = "state" /\ work = "none"
             /\ mode \notin {"maintenance_pending", "maintenance_failed"}
    <3>1. Moves("journal") /\ Kept
      BY <1>0, <2>1, UpMoves
    <3> QED
      BY <1>0, <2>1, <3>1
         DEF IInv, Moves, Kept, CommandOK, Control, Phase, Readability, Idle, SchemaOf
  <2>2. CASE Goes("remove") /\ command' = command /\ up.at = "journal" /\ EvidenceSettled
    <3>1. Moves("remove") /\ Kept
      BY <1>0, <2>2, UpMoves
    <3> QED
      BY <1>0, <2>2, <3>1
         DEF IInv, Moves, Kept, CommandOK, Control, Phase, Readability, Idle, SchemaOf
  <2>3. CASE UNCHANGED <<command, up>> /\ up.at = "remove"
    BY <1>0, <2>3 DEF IInv, TypeIs, CommandOK, Control, Phase, Readability, Idle, SchemaOf
  <2>4. CASE command' = "none" /\ up' = NoUpgrade
    BY <1>0, <2>4, RestIsTyped DEF CommandOK, Control, Phase, Readability, NoUpgrade, Idle, SchemaOf
  <2> QED
    BY <1>2, <2>1, <2>2, <2>3, <2>4
<1>6. TypeOK'
  <2>1. HistoryOK'
    BY <1>0, HistoryIsTyped DEF TypeOK
  <2>2. DirsOK' /\ StoredOK' /\ BoundsOK' /\ inst' \in InstRecords
    BY <1>0, <1>3, <1>4 DEF TypeIs, DirsOK, StoredOK, BoundsOK
  <2> QED
    BY <1>5, <2>1, <2>2, TypeParts DEF TypeIs
<1>7. Swapping' /\ Verified' /\ Observed' /\ Quiesced'
  BY <1>0, <1>5 DEF IInv, Swapping, Verified, Observed, Reached, Quiesced, Idle
<1>8. Remembered'
  BY <1>0, HistoryRemembers
<1>9. Gated'
  <2>1. mode \in Modes
    BY <1>0 DEF TypeOK
  <2> QED
    BY <1>0, <1>1, <1>4, <1>5, <2>1 DEF IInv, Gated, EvidenceSettled, Modes
<1>10. BundleRecoverable'
  <2>1. CASE live' = live
    BY <1>0, <2>1, Recoverable
  <2>2. CASE up.at = "remove" /\ up' = up
    BY <1>0, <2>2 DEF History, BundleRecoverable
  <2> QED
    BY <1>4, <2>1, <2>2
<1>11. EvidenceHonest'
  BY <1>0, <1>4 DEF IInv, EvidenceHonest
<1> QED
  BY <1>5, <1>6, <1>7, <1>8, <1>9, <1>10, <1>11 DEF IInv

-----------------------------------------------------------------------------
(* The theorems.                                                            *)

LEMMA InitHolds ==
  Init => IInv
<1> SUFFICES ASSUME Init PROVE IInv
  OBVIOUS
<1>1. live \in Dirs /\ (live # NoDir => live.evidence = "none")
  <2>1. CASE live = NoDir
    BY <2>1 DEF Dirs
  <2>2. CASE \E d \in {Uniform("old")} \cup {[Uniform("old") EXCEPT ![f] = "damaged"] : f \in Files} :
               live = [set |-> d, evidence |-> "none"]
    <3>1. PICK d \in {Uniform("old")} \cup {[Uniform("old") EXCEPT ![f] = "damaged"] : f \in Files} :
            live = [set |-> d, evidence |-> "none"]
      BY <2>2
    <3>2. d \in [Files -> Content]
      BY DEF Uniform, Content, Versions
    <3>3. live \in Directory
      BY <3>1, <3>2 DEF Directory, Outcomes
    <3> QED
      BY <3>1, <3>3 DEF Dirs
  <2> QED
    BY <2>1, <2>2 DEF Init
<1>2. NoDir \in Dirs
  BY DEF Dirs
<1>3. TypeOK
  <2>1. DirsOK
    BY <1>1, <1>2 DEF Init, DirsOK
  <2>2. StoredOK /\ CommandOK
    BY DEF Init, StoredOK, CommandOK, Modes
  <2>3. BoundsOK
    BY BoundsAssumption DEF Init, BoundsOK
  <2>4. Complete(live) \in BOOLEAN
    BY DEF Complete
  <2>5. HistoryOK
    BY <2>4 DEF Init, HistoryOK
  <2>6. inst \in InstRecords /\ up \in UpRecords
    BY RestIsTyped DEF Init
  <2> QED
    BY <2>1, <2>2, <2>3, <2>5, <2>6, TypeParts DEF TypeIs
<1>4. Control /\ Swapping /\ Verified /\ Phase /\ Observed /\ Gated
  BY DEF Init, Control, Swapping, Verified, Phase, Observed, Reached, Gated, Idle, NoUpgrade
<1>5. Remembered /\ Quiesced /\ Readability
  BY DEF Init, Remembered, Quiesced, Readability, NoUpgrade, SchemaOf
<1>6. BundleRecoverable /\ EvidenceHonest
  BY DEF Init, BundleRecoverable, EvidenceHonest
<1> QED
  BY <1>3, <1>4, <1>5, <1>6 DEF IInv

LEMMA StutterKeeps ==
  ASSUME IInv, UNCHANGED vars PROVE IInv'
<1>1. /\ UNCHANGED <<live, staging, backup, failed, schema, mode, work, newSchema, runtime, command>>
      /\ UNCHANGED <<inst, up, commands, faults, crashes, tampered, deployed, unsettled, sawRuntime>>
  BY DEF vars, dirs, stored, bounds, history
<1>2. TypeOK' /\ Control' /\ Swapping' /\ Verified' /\ Remembered'
  BY <1>1 DEF IInv, TypeOK, Control, Swapping, Verified, Remembered, Carried
<1>3. Quiesced' /\ Phase' /\ Observed' /\ Readability' /\ Gated'
  BY <1>1 DEF IInv, Quiesced, Phase, Observed, Reached, Readability, Readable, Gated, SchemaOf,
     EvidenceSettled
<1>4. BundleRecoverable' /\ EvidenceHonest'
  BY <1>1 DEF IInv, BundleRecoverable, EvidenceHonest
<1> QED
  BY <1>2, <1>3, <1>4 DEF IInv

LEMMA NextKeeps ==
  ASSUME IInv, [Next]_vars PROVE IInv'
<1>1. Environment => Beside \/ Crash
  BY DEF Environment, Beside
<1> QED
  BY <1>1, BesideKeeps, CrashKeeps, InstallKeeps, InstallDoneKeeps, UpgradeKeeps, UninstallKeeps,
     StartInstallKeeps, StartUpgradeKeeps, StartUninstallKeeps, StutterKeeps DEF Next, CommandStep

LEMMA InvariantHolds ==
  Spec => []IInv
<1>1. IInv /\ [Next]_vars => IInv'
  BY NextKeeps
<1> QED
  BY <1>1, InitHolds, PTL DEF Spec

\* What an install reports as done is what the plugin directory holds, and no
\* swap runs beside a Change Set (installOneTarget, runOperatorMaintenance).
THEOREM ConsistentHolds ==
  Spec => []Consistent
<1>1. IInv => Consistent
  BY DEF IInv, Consistent, Verified, ReportedIsDeployed, Quiesced, SwapIsDrained
<1> QED
  BY <1>1, InvariantHolds, PTL

\* Wherever a command is cut off, the disk holds a whole release, live or in the
\* backup, and the evidence of the upgrade that was interrupted
\* (recoverInterruptedInstall, persistEvidence).
THEOREM NextCommandCanGoOnHolds ==
  Spec => []NextCommandCanGoOn
<1>1. IInv => NextCommandCanGoOn
  BY DEF IInv, NextCommandCanGoOn
<1> QED
  BY <1>1, InvariantHolds, PTL

\* A step that writes "succeeded" has the observations of both health phases
\* behind it.
LEMMA SuccessIsTrue ==
  ASSUME IInv, [Next]_vars PROVE SucceedsTruly
<1> SUFFICES ASSUME live'.evidence = "succeeded", command = "upgrade", command' = "none", live # live'
             PROVE  /\ runtime = up.to /\ schema = SchemaOf(up.to)
                    /\ Whole(live, up.to) \/ tampered
                    /\ mode = "maintenance_paused" => work = up.work
  BY DEF SucceedsTruly
<1>0. TypeOK
  BY DEF IInv
<1>1. Succeed
  <2>1. ~InstallStep
    BY InstallEffect
  <2>2. ~Beside
    BY <1>0, BesideEffect
  <2>3. ~Crash
    BY DEF Crash, dirs, IInv, Control
  <2>4. /\ ~InstallDone /\ ~UninstallStep /\ ~StartUninstall
        /\ \A v \in Versions : ~StartInstall(v) /\ ~StartUpgrade(v)
    BY DEF InstallDone, UninstallStep, GateState, GateEvidence, RemoveFile, Uninstalling,
       StartUninstall, StartInstall, StartUpgrade
  <2>5. ~UNCHANGED vars
    BY DEF vars
  <2>6. ~RecordStart /\ ~RecordFailure
    <3>1. Persist("in_progress") => FALSE
      BY <1>0, PersistWrites DEF Outcomes
    <3>2. RecordFailure => up.outcome \in {"in_progress", "failed", "rolled_back"}
      BY UpgradingFacts DEF RecordFailure
    <3>3. ~RecordFailure
      BY <1>0, <3>2, PersistWrites DEF RecordFailure, Outcomes
    <3> QED
      BY <3>1, <3>3 DEF RecordStart
  <2>7. UpgradeStep => Succeed
    BY <2>6 DEF UpgradeStep, Drain, ReplaceReturned, AppendPhase, Reload, Migrate, ObserveHealth,
       ValidateHealth, DecideRollback, RollbackReturned, ReloadBack, MarkFailed, Quiet
  <2> QED
    BY <2>1, <2>2, <2>3, <2>4, <2>5, <2>7 DEF Next, Environment, CommandStep, Beside
<1>2. up.at = "succeed" /\ up.phases = 5 /\ up.valid
  BY <1>1 DEF Succeed, Upgrading, IInv, Phase, Observed
<1> QED
  BY <1>2 DEF IInv, Observed, Reached

\* What a rollback puts back can read what is persisted.
LEMMA RollbackIsReadable ==
  ASSUME IInv PROVE RollsBackReadable
BY DEF IInv, RollsBackReadable, Restores, Readability, Readable

\* What is removed was gated.
LEMMA RemovalIsSafe ==
  ASSUME IInv, [Next]_vars PROVE RemovesSafely
<1> SUFFICES ASSUME command = "uninstall", live' # live, ~tampered', ~sawRuntime
             PROVE  /\ work = "none" /\ mode \in {"none", "maintenance_paused"}
                    /\ live.evidence \in {"none", "succeeded"}
  BY DEF RemovesSafely
<1>0. TypeOK
  BY DEF IInv
<1>1. RemoveFile
  <2>1. ~InstallStep
    BY InstallEffect DEF IInv, Control, Idle
  <2>2. ~Beside
    BY <1>0, BesideEffect
  <2>3. ~Crash
    BY DEF Crash, dirs, IInv, Control
  <2>4. /\ ~InstallDone /\ ~StartUninstall
        /\ \A v \in Versions : ~StartInstall(v) /\ ~StartUpgrade(v)
    BY DEF InstallDone, StartUninstall, StartInstall, StartUpgrade
  <2>5. ~UNCHANGED vars
    BY DEF vars, dirs
  <2>6. ~UpgradeStep
    BY DEF UpgradeStep, RecordStart, Drain, ReplaceReturned, AppendPhase, Reload, Migrate,
       ObserveHealth, ValidateHealth, Succeed, DecideRollback, RollbackReturned, ReloadBack,
       MarkFailed, RecordFailure, Upgrading
  <2>7. ~GateState /\ ~GateEvidence
    BY DEF GateState, GateEvidence
  <2> QED
    BY <2>1, <2>2, <2>3, <2>4, <2>5, <2>6, <2>7 DEF Next, Environment, CommandStep, Beside,
       UninstallStep
<1>2. up.at = "remove"
  BY <1>1 DEF RemoveFile, Uninstalling
<1> QED
  BY <1>2 DEF IInv, Gated, EvidenceSettled

\* What an upgrade records as succeeded, what a rollback puts back and what an
\* uninstall removes follow from what was observed, with the plugin working and
\* saving beside the command (validateHealth, fail, removeManagedBundle).
THEOREM ClaimsAreTrueHolds ==
  Spec => ClaimsAreTrue
<1>1. IInv /\ [Next]_vars => [SucceedsTruly /\ RollsBackReadable /\ RemovesSafely]_vars
  BY SuccessIsTrue, RollbackIsReadable, RemovalIsSafe
<1>2. Spec => [][Next]_vars
  BY PTL DEF Spec
<1> QED
  BY <1>1, <1>2, InvariantHolds, PTL DEF ClaimsAreTrue

-----------------------------------------------------------------------------
(* The state of the Managed Vault, between its plugin and a purge.          *)

PurgeShape ==
  DOMAIN disk = Purge!Files /\ DOMAIN seen = Purge!Files /\ DOMAIN copy = Purge!Files /\ todo \subseteq Purge!Files

Hashed == {"journal", "health", "backup", "verify", "confirm"}

\* The inventory is what is there, but for files the plugin wrote since, that
\* are still to be hashed, or are deleted.
Inventory ==
  \A f \in Purge!Files \ written :
    /\ step = "list" => IF f = "mirror" THEN seen[f] = disk[f] ELSE seen[f] = Purge!Absent
    /\ step \in {"registry", "hash"} =>
         seen[f] = disk[f] \/ (f \in todo /\ f # "mirror")
    /\ step \in Hashed => seen[f] = disk[f]
    /\ step = "delete" => disk[f] \in {seen[f], Purge!Absent}

\* What is compared is copied, but for the files still to be compared.
Copied ==
  /\ step = "verify" => \A f \in Purge!Files : seen[f] # Purge!Absent => f \in todo \/ copy[f] = seen[f]
  /\ step \in {"confirm", "delete"} => \A f \in Purge!Files : seen[f] # Purge!Absent => copy[f] = seen[f]

\* Where the plugin wrote nothing, what the gate judged is what load() would
\* take, no frame is open, and while it deletes, only the files still to be
\* deleted are left.
Judged ==
  written = {} =>
    /\ step = "hash" => judged = Purge!Loadable
    /\ step \in Hashed => judged = Purge!Loadable /\ ~judged.busy
    /\ step \in Hashed \ {"journal"} => ~disk["journal"].busy
    /\ step = "delete" => /\ ~Purge!Loadable.busy /\ ~disk["journal"].busy
                          /\ \A f \in Purge!Files \ todo : disk[f] = Purge!Absent

PurgeInv == PurgeShape /\ Inventory /\ Copied /\ Judged

-----------------------------------------------------------------------------
\* A set of files that is not empty has a first one.
LEMMA FirstIsFirst ==
  ASSUME PurgeShape, todo # {}
  PROVE  Purge!First \in todo /\ \A g \in todo : Purge!Order[Purge!First] <= Purge!Order[g]
<1>1. \E f \in todo : \A g \in todo : Purge!Order[f] <= Purge!Order[g]
  <2>1. Purge!Order["mirror"] = 1 /\ Purge!Order["auth"] = 2 /\ Purge!Order["next"] = 3 /\ Purge!Order["journal"] = 4
    BY DEF Purge!Order
  <2>2. CASE "mirror" \in todo
    BY <2>1, <2>2 DEF PurgeShape, Purge!Files
  <2>3. CASE "mirror" \notin todo /\ "auth" \in todo
    BY <2>1, <2>3 DEF PurgeShape, Purge!Files
  <2>4. CASE "mirror" \notin todo /\ "auth" \notin todo /\ "next" \in todo
    BY <2>1, <2>4 DEF PurgeShape, Purge!Files
  <2>5. CASE todo = {"journal"}
    BY <2>1, <2>5 DEF PurgeShape, Purge!Files
  <2> QED
    BY <2>2, <2>3, <2>4, <2>5 DEF PurgeShape, Purge!Files
<1> QED
  BY <1>1 DEF Purge!First

LEMMA PurgeInitInv == Purge!Init => PurgeInv
BY DEF Purge!Init, PurgeInv, PurgeShape, Inventory, Copied, Judged, Purge!AbsentFiles, Hashed

\* The plugin: every file it changes is known to be written.
LEMMA PluginInv ==
  ASSUME PurgeInv, UNCHANGED Purge!purge, written \subseteq written', DOMAIN disk' = DOMAIN disk,
         \A f \in Purge!Files : disk'[f] # disk[f] => f \in written'
  PROVE  PurgeInv'
<1> USE DEF PurgeInv, Purge!purge
<1>1. PurgeShape'
  BY DEF PurgeShape
<1>2. Inventory'
  BY DEF Inventory
<1>3. Copied'
  BY DEF Copied
<1>4. Judged'
  <2> SUFFICES ASSUME written' = {} PROVE Judged'
    BY DEF Judged
  <2>1. written = {} /\ \A f \in Purge!Files : disk'[f] = disk[f]
    OBVIOUS
  <2>2. Purge!Loadable' = Purge!Loadable
    BY <2>1 DEF Purge!Loadable, Purge!Files
  <2> QED
    BY <2>1, <2>2 DEF Judged, Purge!Files
<1> QED
  BY <1>1, <1>2, <1>3, <1>4

LEMMA PluginWritesSome ==
  ASSUME PurgeInv, Purge!PluginStep \/ Purge!PluginEnds
  PROVE  /\ UNCHANGED Purge!purge /\ written \subseteq written' /\ DOMAIN disk' = DOMAIN disk
         /\ \A f \in Purge!Files : disk'[f] # disk[f] => f \in written'
<1> USE DEF PurgeInv, PurgeShape
<1>1. ASSUME NEW f, NEW c, Purge!PluginWrites(f, c)
      PROVE  /\ written \subseteq written' /\ DOMAIN disk' = DOMAIN disk
             /\ \A g \in Purge!Files : disk'[g] # disk[g] => g \in written'
  BY <1>1 DEF Purge!PluginWrites
<1>2. UNCHANGED <<disk, written>> \/ Purge!Rename \/ \E f, c : Purge!PluginWrites(f, c)
  <2>1. CASE Purge!WriteNext \/ Purge!Mirror \/ Purge!Execute \/ Purge!PluginEnds
    BY <2>1 DEF Purge!WriteNext, Purge!Mirror, Purge!Execute, Purge!PluginEnds, Purge!MirrorWrites
  <2>2. CASE Purge!Load \/ Purge!Submit \/ Purge!Finish
    BY <2>2 DEF Purge!Load, Purge!Submit, Purge!Finish
  <2> QED
    BY <2>1, <2>2 DEF Purge!PluginStep
<1>3. CASE Purge!Rename
  BY <1>3 DEF Purge!Rename
<1>4. UNCHANGED Purge!purge
  BY DEF Purge!PluginStep, Purge!Load, Purge!WriteNext, Purge!Rename, Purge!Mirror, Purge!Submit,
     Purge!Execute, Purge!Finish, Purge!PluginEnds
<1> QED
  BY <1>1, <1>2, <1>3, <1>4

\* The purge ends.
LEMMA EndsInv ==
  ASSUME PurgeInv, step' = "off", PurgeShape'
  PROVE  PurgeInv'
BY DEF PurgeInv, Inventory, Copied, Judged, Hashed

\* It makes its inventory and asks what it may delete.
LEMMA GateInv ==
  ASSUME PurgeInv,
         \/ Purge!StartPurge \/ Purge!Listing \/ Purge!ReadRegistry
         \/ Purge!HashFile \/ Purge!ReadJournal \/ Purge!ObserveHealth
  PROVE  PurgeInv'
<1> USE DEF PurgeInv
<1>1. CASE Purge!StartPurge
  BY <1>1 DEF Purge!StartPurge, Purge!To, PurgeShape, Inventory, Copied, Judged, Purge!AbsentFiles,
     Hashed, Purge!Files
<1>2. CASE Purge!Listing
  BY <1>2, EndsInv DEF Purge!Listing, Purge!Stay, Purge!Kept, Purge!To, Purge!Ends, PurgeShape,
     Inventory, Copied, Judged, Hashed
<1>3. CASE Purge!ReadRegistry
  BY <1>3, EndsInv DEF Purge!ReadRegistry, Purge!Stay, Purge!Kept, Purge!To, Purge!Ends,
     PurgeShape, Inventory, Copied, Judged,
     Hashed, Purge!Evidence, Purge!Loadable
<1>4. CASE Purge!HashFile
  <2>1. PurgeShape'
    BY <1>4 DEF Purge!HashFile, Purge!Stay, PurgeShape, Purge!Rest
  <2>2. Purge!Loadable' = Purge!Loadable
    BY <1>4 DEF Purge!HashFile, Purge!Stay, Purge!Loadable
  <2>3. CASE todo = {}
    BY <1>4, <2>1, <2>2, <2>3, EndsInv DEF Purge!HashFile, Purge!Stay, Purge!Kept, Purge!To,
       Purge!Ends, Inventory, Copied, Judged, Hashed
  <2>4. CASE todo # {}
    <3>1. Purge!First \in todo
      BY <2>4, FirstIsFirst
    <3> HIDE DEF Purge!First
    <3> QED
      BY <1>4, <2>1, <2>2, <2>4, <3>1, EndsInv
         DEF Purge!HashFile, Purge!Stay, Purge!Kept, Purge!To, Purge!Ends, Purge!Rest, PurgeShape,
         Inventory, Copied, Judged, Hashed
  <2> QED
    BY <2>3, <2>4
<1>5. CASE Purge!ReadJournal \/ Purge!ObserveHealth
  <2>1. PurgeShape' /\ Purge!Loadable' = Purge!Loadable
    BY <1>5 DEF Purge!ReadJournal, Purge!ObserveHealth, Purge!Stay, PurgeShape, Purge!Loadable,
       Purge!Listed
  <2> QED
    BY <1>5, <2>1, EndsInv DEF Purge!ReadJournal, Purge!ObserveHealth, Purge!Stay, Purge!Kept,
       Purge!To, Purge!Ends, Inventory, Copied,
       Judged, Hashed
<1> QED
  BY <1>1, <1>2, <1>3, <1>4, <1>5

\* It copies, compares and asks.
LEMMA BackupInv ==
  ASSUME PurgeInv, Purge!BackUp \/ Purge!Verify \/ Purge!Confirm
  PROVE  PurgeInv'
<1> USE DEF PurgeInv
<1>0. todo # {} => Purge!First \in todo
  BY FirstIsFirst
<1>1. PurgeShape' /\ Purge!Loadable' = Purge!Loadable /\ UNCHANGED <<disk, seen, judged, written>>
  BY DEF Purge!BackUp, Purge!Verify, Purge!Confirm, Purge!Stay, Purge!Kept, PurgeShape,
     Purge!Listed, Purge!Rest, Purge!Loadable
<1>2. step \in Hashed \ {"journal"} /\ step' \in (Hashed \ {"journal"}) \cup {"delete", "off"}
  BY DEF Purge!BackUp, Purge!Verify, Purge!Confirm, Hashed, Purge!To, Purge!Ends
<1>3. Inventory'
  BY <1>1, <1>2 DEF Inventory, Hashed
<1>4. Copied'
  <2>1. CASE Purge!BackUp
    BY <2>1 DEF Purge!BackUp, Purge!To, Purge!Ends, Copied, Purge!Listed
  <2>2. CASE Purge!Verify
    BY <1>0, <2>2 DEF Purge!Verify, Purge!To, Purge!Ends, Copied, Purge!Rest, Purge!Verified
  <2>3. CASE Purge!Confirm
    BY <2>3 DEF Purge!Confirm, Purge!To, Purge!Ends, Copied
  <2> QED
    BY <2>1, <2>2, <2>3
<1>5. Judged'
  <2>1. ASSUME step' = "delete", written = {}
        PROVE \A f \in Purge!Files \ todo' : disk[f] = Purge!Absent
    <3>1. step = "confirm" /\ todo' = Purge!Listed
      BY <2>1 DEF Purge!BackUp, Purge!Verify, Purge!Confirm, Purge!To, Purge!Ends
    <3> QED
      BY <2>1, <3>1 DEF Inventory, Hashed, Purge!Listed
  <2> QED
    BY <1>1, <1>2, <2>1 DEF Judged, Hashed
<1> QED
  BY <1>1, <1>3, <1>4, <1>5

\* It deletes the copy that load() would not take first.
LEMMA RemoveInv ==
  ASSUME PurgeInv, Purge!Remove \/ Purge!Check
  PROVE  PurgeInv'
<1> USE DEF PurgeInv
<1>1. CASE Purge!Check
  BY <1>1, EndsInv DEF Purge!Check, Purge!Stay, PurgeShape, Purge!Ends
<1>2. CASE Purge!Remove /\ (todo = {} \/ step' = "off")
  BY <1>2, EndsInv DEF Purge!Remove, Purge!Ends, Purge!To, PurgeShape, Inventory, Copied, Judged,
     Hashed, Purge!Listed
<1>3. CASE Purge!Remove /\ todo # {} /\ step' # "off"
  <2>1. PICK f : f = Purge!First
    OBVIOUS
  <2>2. f \in todo /\ f \in Purge!Files /\ \A g \in todo : Purge!Order[f] <= Purge!Order[g]
    BY <1>3, <2>1, FirstIsFirst DEF PurgeShape
  <2>3. /\ step = "delete" /\ step' = "delete" /\ disk' = [disk EXCEPT ![f] = Purge!Absent]
        /\ todo' = todo \ {f} /\ UNCHANGED <<written, seen, copy, judged>>
    BY <1>3, <2>1 DEF Purge!Remove, Purge!Victim, Purge!To, Purge!Ends
  <2>4. PurgeShape' /\ Inventory' /\ Copied'
    BY <2>2, <2>3 DEF PurgeShape, Inventory, Copied, Hashed
  <2>5. ASSUME written = {} PROVE ~Purge!Loadable'.busy
    <3>0. /\ ~Purge!Loadable.busy /\ ~Purge!Absent.busy /\ DOMAIN disk = Purge!Files
          /\ \A g \in Purge!Files \ todo : disk[g] = Purge!Absent
      BY <2>3, <2>5 DEF Judged, Purge!Absent, PurgeShape
    <3>1. CASE f = "mirror"
      BY <2>3, <3>0, <3>1 DEF Purge!Loadable, Purge!Files
    <3>2. CASE f = "auth"
      <4>1. "mirror" \notin todo
        BY <2>2, <3>2 DEF Purge!Order
      <4> QED
        BY <2>3, <3>0, <3>2, <4>1 DEF Purge!Loadable, Purge!Files
    <3>3. CASE f \notin {"mirror", "auth"}
      BY <2>3, <3>0, <3>3 DEF Purge!Loadable, Purge!Files
    <3> QED
      BY <3>1, <3>2, <3>3
  <2>6. ASSUME written = {}
        PROVE  ~disk'["journal"].busy /\ \A g \in Purge!Files \ todo' : disk'[g] = Purge!Absent
    BY <2>2, <2>3, <2>6 DEF Judged, PurgeShape, Purge!Absent, Purge!Files
  <2> QED
    BY <2>3, <2>4, <2>5, <2>6 DEF Judged, Hashed
<1> QED
  BY <1>1, <1>2, <1>3

LEMMA PurgeNextInv == PurgeInv /\ [Purge!Next]_(Purge!vars) => PurgeInv'
<1> SUFFICES ASSUME PurgeInv, [Purge!Next]_(Purge!vars) PROVE PurgeInv'
  OBVIOUS
<1>1. CASE UNCHANGED Purge!vars
  BY <1>1
     DEF Purge!vars, Purge!purge, PurgeInv, PurgeShape, Inventory, Copied, Judged, Purge!Loadable
<1>2. CASE Purge!PluginStep \/ Purge!PluginEnds
  BY <1>2, PluginInv, PluginWritesSome
<1>3. CASE Purge!StartPurge \/ Purge!PurgeStep
  BY <1>3, GateInv, BackupInv, RemoveInv DEF Purge!PurgeStep
<1>4. CASE Purge!PurgeEnds
  BY <1>4, EndsInv DEF Purge!PurgeEnds, Purge!Ends, PurgeInv, PurgeShape
<1> QED
  BY <1>1, <1>2, <1>3, <1>4 DEF Purge!Next

-----------------------------------------------------------------------------
(* What the next load finds.                                               *)

\* The published copy is the acknowledged registry, or the one being saved
\* once it is renamed.
AuthIsCurrent ==
  disk["auth"] # Purge!Absent =>
    /\ place = "mirror" => disk["auth"] = saving
    /\ place = "down" => disk["auth"] \in {acked, saving}
    /\ place \notin {"mirror", "down"} => disk["auth"] = acked

\* Without it there is no mirror either, unless the two processes raced, and
\* before the first publication nothing is acknowledged.
MirrorIsCurrent ==
  disk["auth"] = Purge!Absent /\ cleared # "raced" =>
    disk["mirror"] = Purge!Absent /\ (cleared = "no" => acked = Purge!Absent /\ place # "mirror")

\* What is renamed is complete.
DraftIsComplete == place = "rename" => disk["next"] \in {saving, Purge!Absent}

Current == Purge!TypeOK /\ AuthIsCurrent /\ MirrorIsCurrent /\ DraftIsComplete

LEMMA InitCurrent == Purge!Init => Current
BY PurgeAssumption DEF Purge!Init, Current, Purge!TypeOK, AuthIsCurrent, MirrorIsCurrent,
   DraftIsComplete, Purge!AbsentFiles,
   Purge!Absent, Purge!Torn, Purge!Content, Purge!Files

LEMMA PurgeContents ==
  /\ Purge!Absent \in Purge!Content /\ Purge!Torn \in Purge!Content /\ Purge!Absent # Purge!Torn
  /\ \A c \in Purge!Content : c.n \in Nat /\ c.busy \in BOOLEAN /\ [c EXCEPT !.busy = FALSE] \in Purge!Content
  /\ \A c \in Purge!Content, b \in BOOLEAN :
       c.n < MaxSaves => [n |-> c.n + 1, busy |-> b] \in Purge!Content \ {Purge!Torn}
<1> USE PurgeAssumption DEF Purge!Content
<1>1. Purge!Absent \in Purge!Content /\ Purge!Torn \in Purge!Content /\ Purge!Absent # Purge!Torn
  BY DEF Purge!Absent, Purge!Torn
<1>2. \A c \in Purge!Content : c.n \in Nat /\ c.busy \in BOOLEAN
  OBVIOUS
<1>4. \A c \in Purge!Content : [c EXCEPT !.busy = FALSE] \in Purge!Content
  BY Zenon
<1>3. ASSUME NEW c \in Purge!Content, NEW b \in BOOLEAN, c.n < MaxSaves
      PROVE  [n |-> c.n + 1, busy |-> b] \in Purge!Content \ {Purge!Torn}
  <2>1. c.n + 1 \in 0..(MaxSaves + 1) /\ c.n + 1 # MaxSaves + 1
    BY <1>3
  <2>2. [n |-> c.n + 1, busy |-> b] \in Purge!Content
    BY <2>1
  <2>3. [n |-> c.n + 1, busy |-> b].n # Purge!Torn.n
    BY <2>1 DEF Purge!Torn
  <2> QED
    BY <2>2, <2>3
<1> QED
  BY <1>1, <1>2, <1>3, <1>4

\* What the files hold, when what the plugin or the purge puts there is typed.
LEMMA LoadTyped ==
  ASSUME Purge!TypeOK
  PROVE  Purge!Loadable \in Purge!Content /\ Purge!Evidence \in Purge!Content
BY DEF Purge!TypeOK, Purge!Loadable, Purge!Evidence, Purge!Files

LEMMA WriteTyped ==
  ASSUME Purge!TypeOK, NEW f \in Purge!Files, NEW c \in Purge!Content, f = "auth" => c # Purge!Torn, Purge!PluginWrites(f, c)
  PROVE  disk' \in [Purge!Files -> Purge!Content] /\ disk'["auth"] # Purge!Torn /\ written' \subseteq Purge!Files
BY DEF Purge!TypeOK, Purge!PluginWrites, Purge!Files

LEMMA PluginTyped ==
  ASSUME Current, Purge!PluginStep \/ Purge!PluginEnds
  PROVE  Purge!TypeOK'
<1> USE PurgeAssumption, PurgeContents DEF Current
<1>1. UNCHANGED Purge!purge
  BY DEF Purge!PluginStep, Purge!Load, Purge!WriteNext, Purge!Rename, Purge!Mirror, Purge!Submit,
     Purge!Execute, Purge!Finish, Purge!PluginEnds
<1>2. CASE Purge!Load
  <2>1. mem' \in Purge!Content \ {Purge!Torn} /\ acked' \in Purge!Content \ {Purge!Torn} /\ saving' = mem' /\ place' = "write"
    BY <1>2, LoadTyped DEF Purge!Load, Purge!Saves, Purge!TypeOK
  <2>2. UNCHANGED <<disk, Purge!purge, cleared, written, Purge!budget>>
    BY <1>2 DEF Purge!Load
  <2> QED
    BY <2>1, <2>2 DEF Purge!TypeOK, Purge!purge, Purge!budget
<1>3. CASE Purge!WriteNext
  BY <1>1, <1>3 DEF Purge!WriteNext, Purge!PluginWrites, Purge!Draft, Purge!TypeOK, Purge!purge,
     Purge!budget, Purge!Files
<1>4. CASE Purge!Rename
  BY <1>1, <1>4 DEF Purge!Rename, Purge!Acknowledged, Purge!TypeOK, Purge!purge, Purge!budget,
     Purge!Files, DraftIsComplete
<1>5. CASE Purge!Mirror
  <2>1. place' = "idle" /\ acked' = saving /\ mem' = saving /\ UNCHANGED <<saving, Purge!purge>>
    BY <1>5 DEF Purge!Mirror, Purge!Acknowledged
  <2>2. CASE Purge!Works /\ Purge!MirrorWrites(saving)
    BY <2>1, <2>2, WriteTyped
       DEF Purge!Works, Purge!MirrorWrites, Purge!TypeOK, Purge!purge, Purge!budget, Purge!Files
  <2>3. CASE Purge!Fails /\ UNCHANGED <<disk, written, cleared>>
    BY <2>1, <2>3 DEF Purge!Fails, Purge!TypeOK, Purge!purge
  <2> QED
    BY <1>5, <2>2, <2>3 DEF Purge!Mirror
<1>6. CASE Purge!Submit \/ Purge!Finish
  <2>1. saving' \in Purge!Content \ {Purge!Torn} /\ place' = "write" /\ UNCHANGED <<disk, mem, acked, Purge!purge, cleared, written, Purge!budget>>
    BY <1>6 DEF Purge!Submit, Purge!Finish, Purge!Saves, Purge!TypeOK
  <2> QED
    BY <2>1 DEF Purge!TypeOK, Purge!purge, Purge!budget
<1>7. CASE Purge!Execute
  <2>1. PICK c \in Purge!Content : Purge!PluginWrites("journal", c)
    BY <1>7 DEF Purge!Execute, Purge!TypeOK
  <2>2. UNCHANGED <<Purge!plugin, Purge!purge, cleared, Purge!budget>>
    BY <1>7 DEF Purge!Execute
  <2> QED
    BY <2>1, <2>2, WriteTyped DEF Purge!plugin, Purge!TypeOK, Purge!purge, Purge!budget, Purge!Files
<1>8. CASE Purge!PluginEnds
  <2>1. place' = "down" /\ deaths' \in 0..MaxPurgeCrashes /\ UNCHANGED <<mem, saving, acked, Purge!purge, slips>>
    BY <1>8 DEF Purge!PluginEnds, Purge!TypeOK
  <2>2. CASE UNCHANGED <<disk, written, cleared>>
    BY <2>1, <2>2 DEF Purge!TypeOK, Purge!purge
  <2>3. CASE Purge!MirrorWrites(Purge!Torn)
    BY <2>1, <2>3, WriteTyped DEF Purge!MirrorWrites, Purge!TypeOK, Purge!purge, Purge!Files
  <2> QED
    BY <1>8, <2>2, <2>3 DEF Purge!PluginEnds
<1> QED
  BY <1>2, <1>3, <1>4, <1>5, <1>6, <1>7, <1>8 DEF Purge!PluginStep

LEMMA PurgeTyped ==
  ASSUME Current, Purge!StartPurge \/ Purge!PurgeStep \/ Purge!PurgeEnds
  PROVE  Purge!TypeOK'
<1> USE PurgeAssumption, PurgeContents DEF Current
<1>0. todo # {} => Purge!First \in todo
  BY FirstIsFirst DEF Purge!TypeOK, PurgeShape
<1>1. CASE Purge!StartPurge
  BY <1>1 DEF Purge!StartPurge, Purge!To, Purge!AbsentFiles, Purge!plugin, Purge!TypeOK,
     Purge!budget, Purge!Files
<1>6. CASE Purge!ReadRegistry \/ Purge!Listing
  BY <1>6, LoadTyped DEF Purge!Listing, Purge!ReadRegistry, Purge!Stay, Purge!Kept, Purge!Works,
     Purge!To, Purge!Ends, Purge!plugin, Purge!TypeOK, Purge!budget
<1>7. CASE Purge!ReadJournal \/ Purge!ObserveHealth \/ Purge!PurgeEnds
  BY <1>7 DEF Purge!ReadJournal, Purge!ObserveHealth, Purge!PurgeEnds, Purge!Stay, Purge!Kept,
     Purge!Works, Purge!To, Purge!Ends, Purge!Listed, Purge!plugin, Purge!TypeOK, Purge!budget
<1>2. CASE Purge!HashFile
  BY <1>0, <1>2 DEF Purge!HashFile, Purge!Stay, Purge!Kept, Purge!Works, Purge!To, Purge!Ends,
     Purge!Rest, Purge!plugin, Purge!TypeOK, Purge!budget
<1>3. CASE Purge!BackUp
  <2>1. copy' \in [Purge!Files -> Purge!Content] /\ todo' \subseteq Purge!Files
    <3> HIDE DEF Purge!First
    <3>1. CASE todo = {} \/ ~Purge!Matches(Purge!First)
      BY <1>3, <3>1 DEF Purge!BackUp, Purge!Listed, Purge!TypeOK
    <3>2. CASE todo # {} /\ Purge!Matches(Purge!First)
      <4>1. PICK c \in Purge!Content : copy' = [copy EXCEPT ![Purge!First] = c]
        BY <1>0, <1>3, <3>2 DEF Purge!BackUp, Purge!TypeOK
      <4>2. todo' = todo \ {Purge!First}
        BY <1>3, <3>2 DEF Purge!BackUp, Purge!Rest
      <4> QED
        BY <4>1, <4>2 DEF Purge!TypeOK
    <3> QED
      BY <3>1, <3>2
  <2>2. step' \in {"off", "backup", "verify"} /\ ending' \in {ending, "failed"}
    BY <1>3 DEF Purge!BackUp, Purge!To, Purge!Ends
  <2>3. slips' \in 0..MaxPurgeFaults /\ deaths' = deaths
    BY <1>3 DEF Purge!BackUp, Purge!Works, Purge!Fails, Purge!TypeOK, Purge!budget
  <2> QED
    BY <1>3, <2>1, <2>2, <2>3 DEF Purge!BackUp, Purge!Stay, Purge!Kept, Purge!plugin, Purge!TypeOK
<1>4. CASE Purge!Verify \/ Purge!Confirm \/ Purge!Check
  BY <1>0, <1>4 DEF Purge!Verify, Purge!Confirm, Purge!Check, Purge!Stay, Purge!Kept, Purge!Works,
     Purge!To, Purge!Ends, Purge!Rest, Purge!Listed, Purge!plugin, Purge!TypeOK, Purge!budget
<1>5. CASE Purge!Remove
  <2>1. disk' \in [Purge!Files -> Purge!Content] /\ disk'["auth"] # Purge!Torn /\ todo' \subseteq Purge!Files
    <3> HIDE DEF Purge!First
    <3> QED
      BY <1>0, <1>5 DEF Purge!Remove, Purge!Victim, Purge!Listed, Purge!TypeOK, Purge!Files
  <2>2. step' \in {"off", "delete", "check"} /\ ending' \in {ending, "failed"} /\ cleared' \in {cleared, "clean", "raced"}
    BY <1>5 DEF Purge!Remove, Purge!To, Purge!Ends
  <2>3. slips' \in 0..MaxPurgeFaults /\ deaths' = deaths
    BY <1>5 DEF Purge!Remove, Purge!Works, Purge!Fails, Purge!TypeOK, Purge!budget
  <2> QED
    BY <1>5, <2>1, <2>2, <2>3 DEF Purge!Remove, Purge!plugin, Purge!TypeOK
<1> QED
  BY <1>1, <1>2, <1>3, <1>4, <1>5, <1>6, <1>7 DEF Purge!PurgeStep

\* The plugin publishes what it saves and acknowledges what it published.
LEMMA PluginCurrent ==
  ASSUME Current, Purge!PluginStep \/ Purge!PluginEnds
  PROVE  (AuthIsCurrent /\ MirrorIsCurrent /\ DraftIsComplete)'
<1> USE DEF Current
<1>1. CASE Purge!Load
  BY <1>1
     DEF Purge!Load, Purge!Saves, Purge!Loadable, AuthIsCurrent, MirrorIsCurrent, DraftIsComplete
<1>2. CASE Purge!WriteNext
  BY <1>2 DEF Purge!WriteNext, Purge!PluginWrites, Purge!Draft, Purge!TypeOK, Purge!Files,
     AuthIsCurrent, MirrorIsCurrent, DraftIsComplete
<1>3. CASE Purge!Rename
  BY <1>3 DEF Purge!Rename, Purge!Acknowledged, Purge!TypeOK, Purge!Files, AuthIsCurrent,
     MirrorIsCurrent, DraftIsComplete
<1>4. CASE Purge!Mirror
  <2>1. /\ place = "mirror" /\ place' = "idle" /\ acked' = saving /\ UNCHANGED saving
        /\ UNCHANGED <<disk, cleared>> \/ Purge!MirrorWrites(saving)
    BY <1>4 DEF Purge!Mirror, Purge!Acknowledged
  <2>2. disk'["auth"] = disk["auth"]
    BY <2>1 DEF Purge!MirrorWrites, Purge!PluginWrites, Purge!TypeOK, Purge!Files
  <2>3. disk["auth"] = Purge!Absent => cleared' = "raced" \/ UNCHANGED <<disk, cleared>>
    BY <2>1 DEF Purge!MirrorWrites
  <2>4. AuthIsCurrent' /\ DraftIsComplete'
    BY <2>1, <2>2 DEF AuthIsCurrent, DraftIsComplete
  <2>5. MirrorIsCurrent'
    BY <2>1, <2>2, <2>3 DEF MirrorIsCurrent
  <2> QED
    BY <2>4, <2>5
<1>5. CASE Purge!Submit \/ Purge!Finish
  BY <1>5
     DEF Purge!Submit, Purge!Finish, Purge!Saves, AuthIsCurrent, MirrorIsCurrent, DraftIsComplete
<1>6. CASE Purge!Execute
  BY <1>6 DEF Purge!Execute, Purge!PluginWrites, Purge!plugin, Purge!TypeOK, Purge!Files,
     AuthIsCurrent, MirrorIsCurrent, DraftIsComplete
<1>7. CASE Purge!PluginEnds
  BY <1>7 DEF Purge!PluginEnds, Purge!MirrorWrites, Purge!PluginWrites, Purge!TypeOK, Purge!Files,
     AuthIsCurrent, MirrorIsCurrent,
     DraftIsComplete
<1> QED
  BY <1>1, <1>2, <1>3, <1>4, <1>5, <1>6, <1>7 DEF Purge!PluginStep

\* A purge only takes files away; the published copy not before the mirror.
LEMMA PurgeCurrent ==
  ASSUME PurgeInv, Current, Purge!StartPurge \/ Purge!PurgeStep \/ Purge!PurgeEnds
  PROVE  (AuthIsCurrent /\ MirrorIsCurrent /\ DraftIsComplete)'
<1>1. CASE UNCHANGED <<disk, Purge!plugin, cleared>>
  BY <1>1 DEF Current, Purge!plugin, AuthIsCurrent, MirrorIsCurrent, DraftIsComplete
<1>2. CASE Purge!Remove /\ ~UNCHANGED <<disk, cleared>>
  <2>1. PICK f : f = Purge!First
    OBVIOUS
  <2>2. /\ UNCHANGED Purge!plugin /\ disk' = [disk EXCEPT ![f] = Purge!Absent] /\ step = "delete"
        /\ cleared' = (IF written = {} THEN "clean" ELSE "raced")
    BY <1>2, <2>1 DEF Purge!Remove, Purge!Victim
  <2>3. f \in todo /\ f \in Purge!Files /\ \A g \in todo : Purge!Order[f] <= Purge!Order[g]
    BY <1>2, <2>1, FirstIsFirst DEF Purge!Remove, PurgeInv, PurgeShape
  <2>4. f \notin {"mirror"} => "mirror" \notin todo
    BY <2>3 DEF Purge!Order, Purge!Files
  <2>5. written = {} => disk'["mirror"] = Purge!Absent
    BY <2>2, <2>3, <2>4 DEF PurgeInv, Judged, PurgeShape, Purge!Files
  <2>6. \A g \in Purge!Files : disk'[g] \in {disk[g], Purge!Absent}
    BY <2>2, <2>3 DEF PurgeInv, PurgeShape
  <2> QED
    BY <2>2, <2>5, <2>6
       DEF Current, Purge!plugin, AuthIsCurrent, MirrorIsCurrent, DraftIsComplete, Purge!Files
<1> QED
  BY <1>1, <1>2 DEF Purge!StartPurge, Purge!PurgeStep, Purge!PurgeEnds, Purge!Listing,
     Purge!ReadRegistry, Purge!HashFile, Purge!ReadJournal, Purge!ObserveHealth,
     Purge!BackUp, Purge!Verify, Purge!Confirm, Purge!Remove, Purge!Check, Purge!Stay, Purge!Kept

LEMMA CurrentIsKept == PurgeInv /\ Current /\ [Purge!Next]_(Purge!vars) => Current'
<1> SUFFICES ASSUME PurgeInv, Current, [Purge!Next]_(Purge!vars) PROVE Current'
  OBVIOUS
<1>1. CASE UNCHANGED Purge!vars
  BY <1>1 DEF Purge!vars, Purge!plugin, Purge!purge, Purge!budget, Current, Purge!TypeOK,
     AuthIsCurrent, MirrorIsCurrent, DraftIsComplete
<1>2. CASE Purge!Next
  BY <1>2, PluginTyped, PurgeTyped, PluginCurrent, PurgeCurrent DEF Purge!Next, Current
<1> QED
  BY <1>1, <1>2

\* What the next start of the plugin loads (managed-vault-runtime.ts, load) is
\* the registry it last acknowledged or was saving, wherever it stopped and
\* whatever a purge deleted, and nothing at all only after a confirmed deletion.
THEOREM StateIsConsistentHolds == PurgeSpec => []StateIsConsistent
<1>1. Purge!Init => PurgeInv /\ Current
  BY PurgeInitInv, InitCurrent
<1>2. PurgeInv /\ Current /\ [Purge!Next]_(Purge!vars) => (PurgeInv /\ Current)'
  BY PurgeNextInv, CurrentIsKept
<1>3. PurgeInv /\ Current => StateIsConsistent
  BY DEF Current, Purge!TypeOK, AuthIsCurrent, MirrorIsCurrent, Purge!Loadable,
     Purge!LoadIsCurrent, StateIsConsistent, Purge!Consistent
<1> QED
  BY <1>1, <1>2, <1>3, PTL DEF PurgeSpec, Purge!Spec

-----------------------------------------------------------------------------
\* In each state of a deletion, what is there is copied and done with.
LEMMA DeletionFollows ==
  ASSUME PurgeInv
  PROVE  Purge!DeletesTheCopied /\ Purge!DeletesNoWork
<1>1. Purge!DeletesTheCopied
  BY DEF PurgeInv, Inventory, Copied, Purge!DeletesTheCopied, Purge!Deletes
<1>2. Purge!DeletesNoWork
  BY DEF PurgeInv, Judged, Purge!DeletesNoWork, Purge!Deletes
<1> QED
  BY <1>1, <1>2

\* Whatever the plugin saves meanwhile, and wherever either process stops: a
\* file that a purge deletes (purge-release.ts) is in its backup as it is, if
\* the plugin did not write it since the purge began; and if it wrote nothing,
\* no deletion happens while work is pending or a journal frame is open.
THEOREM DeletionIsSafeHolds == PurgeSpec => DeletionIsSafe
<1>1. PurgeSpec => []PurgeInv
  BY PurgeInitInv, PurgeNextInv, PTL DEF PurgeSpec, Purge!Spec
<1>2. PurgeInv => [Purge!DeletesTheCopied /\ Purge!DeletesNoWork]_(Purge!vars)
  BY DeletionFollows
<1> QED
  BY <1>1, <1>2, PTL DEF DeletionIsSafe, PurgeSpec, Purge!Spec
=============================================================================
