# Verification of the Obsidian Vault Operation Bridge

TLA+ models of this repository's two programs, checked with TLC, and theorems about
them checked with the TLA+ proof system. The programs are the Vault Bridge, an Obsidian
plugin (`packages/obsidian-plugin/src`; paths below are relative to that directory
unless they say otherwise), and the Sandcastle automation (`.sandcastle`), which works
on the repository's Issues and Pull Requests. `mvp.md` is
`docs/spec/reliable-vault-operations-mvp.md`.

## 1. The system

The plugin serves an MCP endpoint over one Vault. Clients read with exact evidence and
submit *Change Sets*: groups of operations over notes, attachments, directories and
trash that are previewed, registered, executed one at a time, journaled, and either
proved applied, proved not applied, or reported unproven. The automation turns labels
of GitHub Work Items into jobs, each of which acquires its Work Item, runs one operation
in a disposable checkout, and publishes what came of it.

| Component | State it keeps | Operations | Hard part |
|---|---|---|---|
| Recovery Journal (`recovery-journal.ts`) | header, two slots, the `#tail` promise chain | open, `write`, `recover`, `diagnosticFacts` | torn slots, failed syncs, reads that overlap writes |
| Change Set service (`change-set.ts`) | registry (entries, `enqueueSeq`, tombstones, write mode), `#recoveryBlocked`, `#dequeuePaused`, three promise chains: registry, write lease, control lease | `open`, `submit`, `status`, `pause`, `runMaintenance`, `resume`, `#recover`, `#executeMutation`, `#executeMove`, `#restorePrepared` | a crash or an error between any two steps, third-party writers, jobs waiting on one another |
| Preflight (`change-set.ts` 1285-1635) | none | verdict and immutable preview | its reads are stale once it returns |
| Execution host (`file-system-change-set-execution.ts`) | staging directory, trash | `prepareFile`, `publishFile`, `removeFile`, `moveFile`, directories, trash | an operation may throw after its effect |
| Semantic evidence tracker (same file) | pending events, deadlines | `beginSemanticEvidence`, `awaitSemanticEvidence` | events before, after and without the wait; 5 s deadline |
| Bridge instance (`bridge-instance.ts`) | health, gates, sessions | tool calls, `pauseWrites`, `runMaintenance`, `resumeWrites`, `stop` | gates captured before a wait; health is a copy |
| Managed Vault runtime (`managed-vault-runtime.ts`, `main.ts`) | identity, settings, recovery copy, path change | load, classification, save, unload | two persisted copies; commands that overlap a load |
| Search Snapshot and discovery (`search-snapshot.ts`, `obsidian-search-data-source.ts`, `vault-discover.ts`) | published snapshot, readiness, generation, `#buildTail`; timer, `#builds` and `#waiters` of the refresh coordinator; versions last parsed | `invalidate`, `rebuild`, `schedule`, `whenIdle`, `dispose`; the runtime's success barrier | rebuilds that overlap changes, waiters of restarted quiet windows |
| Continuations (`vault-continuation.ts`) | token pool | issue, continue, `releaseClient` | limits, expiry, pages that split characters |
| Reads and projections (`vault-read.ts`, `frontmatter-projector.ts`, `move-reference-projection.ts`) | none | reads, edits of a body or Frontmatter, references of a moved note | caches parsed late; what a name means after a move |
| Diagnostics (`diagnostic-bundle.ts`, `content-inclusive-*.ts`) | none | bundles and their verification | a bundle of facts that contradict each other |
| Release lifecycle (`lifecycle/{install,upgrade,uninstall}-release.ts`) | managed files on disk, upgrade evidence | install, upgrade with rollback, uninstall | partial replacement, rollback, a plugin that is loaded meanwhile |
| State purge (`lifecycle/purge-release.ts`) | a backup | enumerate, gate, back up, verify, delete | a plugin that writes while it runs |
| Release assembly, corpus and installed-runtime harness, contracts | none of the product's | build and test drivers, schemas | none |
| Dispatch (`/.sandcastle/automation-dispatch.ts`, `automation-recovery.ts`) | labels, job records, worker slots | sessions: recover, promote, list, refill, drain | deaths between two label changes; people edit labels |
| Target operation (`/.sandcastle/target-operation*.ts`, `target-checkout.ts`) | acquisition, checkout, record | acquire, hand over, run, settle | three processes hand over one authorization |
| Feedback publication (`/.sandcastle/feedback-*.ts`) | branch, review threads | push, reply, reconcile | answers lost after the effect |
| Worker processes (`/.sandcastle/worker-process-lifecycle.ts`) | process group, timers | launch, race, signal, confirm | survivors; exits that race a deadline |
| Agent stages and implementer (`/.sandcastle/{structured-extraction-driver,invocation-recovery,checkout-safety,implementer}.ts`) | checkout, attempts, named branch | stages, attempts, verification | an Agent may do anything to its checkout |
| GitHub client, container, prompts | none | requests | parsing of answers |

How the Bridge interacts. A tool call in the Bridge instance reads `requestState()` and
calls `submit`. The service registers through the registry's promise chain
(`#serialize`), which saves to the runtime's store, then waits for the write lease
(`#withWriteLease`). Under the lease it runs `#recover` and executes. Execution
persists frames to the Recovery Journal and changes the Vault through the host,
waits for semantic evidence and the Search Snapshot, and saves the outcome.
`pause`, `runMaintenance` and `resume` take the control lease, then the write
lease. After a restart `open` runs `#recover` over the journal's last frame and
then `#resumeQueue` over every unfinished entry. Install, upgrade and purge are commands
of another process; they share only files with the plugin, and the control calls they make.

How the automation interacts. A Dispatch Session reads labels and starts
`TargetOperationCommandRunner`, which reads and re-reads the Work Item around
`agent:in-progress` and then starts a Target job; that process opens the record, makes
the checkout and starts the operation worker in a process group of its own; the worker
runs the Agent stages or the implementer, and the feedback operation publishes. The
answer goes back the same way, and the command settles the labels. Everything survives a
death only as labels, records and what GitHub has.

What makes each correct:

* Journal: an acknowledged frame survives every crash; a read returns the last
  frame or the one being written; nobody waits forever.
* Service: `intent_applied` only for what was wholly there, `intent_not_applied`
  only when nothing remains, outcomes final, third-party bytes kept, order of
  registration kept, writes blocked while a result is unproven, a pause that
  drains, a queue that empties, leases that do not wait for each other.
* Execution: wherever it is cut off, the disk it leaves can be decided and undone.
* Search Snapshot: what is served as ready is the Vault, publications go forward, no
  change is left out; a success barrier sees a successor of its own time, and ends.
* Reads: an answer is of one snapshot, pages join to the result, an edit changes what
  it names, the references to a moved note follow it.
* Runtime: one identity per vault, the one that is persisted; health says what is true.
* Lifecycle and purge: a failed upgrade leaves a release that can be run and evidence of
  the failure; a purge deletes only what is backed up and finished.
* Automation: one job per identity, no command forgotten, no thread answered twice, nobody
  else's commits lost, no process left behind, a result only from a checkout that proves it.

## 2. Modules

| Module | Models | Kind |
|---|---|---|
| `RecoveryJournal` | `recovery-journal.ts` | component |
| `FrameRegister` | what the journal promises | abstract specification |
| `ChangeSetService` | `change-set.ts` over several Change Sets, with the host, the store and the bridge's gate as it uses them | component |
| `AtomicChangeSets` | what a client of the service sees | abstract specification |
| `MutationExecution` | one Change Set of any kind on the disk, host operation by host operation | component |
| `MutationExecutionInvariant` | what is so at every point of such an execution | definitions for the proofs |
| `SearchSnapshot` | `search-snapshot.ts`, the version tracker, and the success barrier, host events and unload of the runtime | component |
| `Continuations` | `vault-continuation.ts`, the pages of `vault-discover.ts` | component |
| `VaultRead`, `NoteProjection`, `MoveProjection` | `vault-read.ts`; edits of bodies and Frontmatter; references of a moved note | components |
| `BridgeHealth` | health, gates and tools of `bridge-instance.ts` | component |
| `DiagnosticBundle` | both bundles, as operators | functions |
| `ManagedVaultRuntime` | identity and its two copies | component |
| `BridgeSessions` | requests, sessions and `stop()` | component |
| `ReleaseLifecycle` | install, upgrade, uninstall with a plugin that is loaded or not | component |
| `StatePurge` | purge beside a plugin that saves | component |
| `AutomationDispatch` | sessions and jobs over the labels | component |
| `TargetOperation` | one operation through its three processes | component |
| `FeedbackPublication` | push, reply and reconcile | component |
| `WorkerProcess` | one worker's process group | component |
| `AgentStages`, `DurableImplementer` | the stages of one Agent role; attempts on a named branch | components |
| `MCRecoveryJournal`, `MCChangeSetService`, `MCMutationExecution`, `MCAutomationDispatch`, `MCStatePurge` | values for TLC | models |
| `MCServiceAtomicity`, `MCManagedVault` | the service with and without faults, beside health, identity and sessions | models |
| `MCReads` | continuations, reads, edits and moves in one run | model |
| `MCAgentJob` | worker process, stages, implementation and Target operation in one run | model |
| `RecoveryJournalProofs`, `BridgeProofs`, `MutationExecutionProofs`, `SearchSnapshotProofs`, `FeedbackPublicationProofs`, `AgentJobProofs`, `AutomationDispatchProofs`, `ReleaseLifecycleProofs` | see section 5 | proofs |

`ChangeSetService` uses the journal as the atomic register of `FrameRegister`: that is
what `JournalImplementsRegister` entitles it to. Its `Persisted` is the register's
write up to `Acknowledge`, `PersistFailed` is `Fail` before or after `TakeEffect` or
`Damage`, and its `Crash` leaves `journal` as the register does without power loss. It waits
for the success barrier as a step that succeeds or throws; `SearchSnapshot` is that
barrier with everything around it. It executes a Change Set as a rewrite of paths;
`MutationExecution` is that execution in detail. `AutomationDispatch` runs a job in a few
steps; `TargetOperation` is that job, `WorkerProcess` the process in it, and
`DurableImplementer`, `AgentStages` and `FeedbackPublication` what it does.

The models that share no state share a run: an MC module gives each its own variables and
a variable `subject` says which of them moves, so a run explores each as if alone.

### 2.1 RecoveryJournal

`cache` is what reading the file returns, `disk` what was synced; a slot is what
`decodeSlot` makes of it: empty, invalid, or a sequence number with a frame. `tail` is
the chain of writes, `op` the running `#write`, `reader` one running `recover`.
`StartWrite` chooses slot and sequence as lines 391-396 do; `TearSlot` and `FillSlot`
are the partial and the complete `writeExactly`; `Sync` acknowledges. The two reads of
`#readLatest` are separate actions, since they are not chained on `#tail`.
Checksums are abstracted to "a torn slot decodes as invalid"; the encoding of the
payload is not modelled. `diagnosticFacts` only reads. Where `OpenNew`'s crash leaves a
torn header, the journal stops in `refused`.

### 2.2 ChangeSetService

`vault` gives the bytes at each path as a value: `Original`, the Change Set that
staged them, or a third party's. `state` and `before` are the registry entry (its
execution phase and record; the pre-states the immutable preview binds),
`enqueueSeq` and `nextEnqueueSeq` the order of registration, `writeMode` the persisted mode that `#dequeuePaused` and
`#admissionGate` mirror. `blocked` is `#recoveryBlocked`, `health` the gate
`blockWritesForUnproven` sets. `calls`, `lease` and `control` are the three
promise chains. `run` is the job that holds the write lease and its program counter:

| Code | Actions |
|---|---|
| `open` | `Open`, `Reject`, `BlockOpen` |
| `#recover` | `RecoverNothing`, `RecoverRefused`, `RecoverPrepared`, `RecoverUnproven`, `RecoverOutcome` |
| `#restorePrepared`, `#markUnproven` | `ComparePlan`, `Planned`, `Undo`, `VerifyRestored`, `RollBack`, `RecordNotApplied`, `PersistFAILED`, `MarkUnproven` |
| `#executeMutation` | `Preflight`, `Prepare`, `Begin`, `Stage`, `Compare`, `Publish`, `Verify`, `Commit`, `RecordApplied` |
| `submit` | `Call`, `Submit`, `Resubmit`, `StartSubmit`, `Dispatch`, `Finish` |
| `#resumeQueue` | `Dispatch`, `NextEntry` |
| `pause`, `runMaintenance`, `resume` | `RequestControl`, `Pause`, `RunMaintenance`, `Resume`, `PauseCompleted`, `MaintenanceCompleted`, `ResumeUnderLease` |
| environment | `ThirdPartyWrite`, `Crash` |

One action is one step between two awaits whose order another actor can see. Choices
made in the abstraction:

* A Change Set replaces files (staged and published by rename); the other kinds are in
  `MutationExecution`.
* Reading, verifying and preflighting a footprint is one step, except in
  `#restorePrepared` (path by path) and before each publication (`Compare`, then
  `Publish`), where the gap matters.
* An error of the host may come before or after its effect, or from a read. Within
  `#executeMutation` it restores, and so it does within a restore's own plan. But
  preflight and the reads of `#prepare` come before the `try` at line 2864: there the job
  rejects, the head stays `queued` or `executing`, and nothing drives it again until
  its key is submitted again, `resume` or a restart. An error of the registry
  store has no effect (`saveRecovery` is authoritative, the mirror is best effort). An
  error of the journal may come before or after the frame is in its slot, and the first
  write may leave the file undecodable; so may a crash during it.
* A call registers and joins the lease in one step: nothing can run in between in the
  same chain of microtasks that changes the order. A client has one call per Change
  Set at a time and may call again after the answer.
* A failed save in `pause` and before maintenance changes nothing and is left out.
* `Races = FALSE` removes third-party writes between a compare and the write it
  guards; the file system offers no conditional rename, so the promises about
  third-party bytes are stated without them, and the others with them.

### 2.3 MutationExecution

`disk` gives every path its bytes and the identity of its node; `stage`, `back` and
`trash` are private: staged files, those staged for the way back, and the managed
trash. `journal` is the durable frame with its phase and identities, `known` the identities
in the executor's own copy of it, `entry` the registry's record with the frozen preview.
`todo` is the list of host operations that the executor has planned; each is a step with
an error before or after its effect, and `Others` writes between any two.

| Code | Actions |
|---|---|
| `preflight`, `build` (769-1100, 1285-1635) | `Submit`, `Begin`, `Capture`, `Prepare` |
| the host's operations | `PrepareFile`, `PublishFile`, `DiscardPrepared`, `PrepareBack`, `PublishBack`, `LinkFile`, `RemoveFile`, `HideInTrash`, `RestoreFromTrash`, `DiscardTrash`, `RemoveCopy`, `PrepareDirectory`, `PublishDirectory`, `RemoveDirectory` |
| `#executeMutation`, `#executeMove` between them | `Compare`, `PersistIdentities`, `SavePhase`, `Verify`, `AwaitEvidence`, `Confirm`, `Commit`, `Record` |
| `#restorePrepared`, `#recover`, `#markUnproven` | `PlanRestore`, `Settle`, `AwaitRestoreEvidence`, `RollBack`, `RecordRollback`, `Fail`, `Unprove`, `Open` |

The eleven requests of `MCMutationExecution` are edits and creations (one below a directory
to be made), copies, moves of attachments, trash, moves of notes with derived rewrites,
two chains, two combinations that overlap, and one that preflight refuses. Preflight
reads at once; a wait for evidence ends or times out; `main.ts` 118-178 (which of
Obsidian's own operations the production host uses) and Obsidian's index are counted
among the errors of an operation; `resume` of a stalled head is in `ChangeSetService`.

### 2.4 SearchSnapshot

`content` counts the changes of each note; the note exists while it is odd. `notice`
holds the notes whose Vault event is under way and `parsed` what
`ObsidianSemanticVersionTracker` saw parsed last. `rebuilds` is `#buildTail`, each with
what it has read so far; it is `fresh` while `#generation` is the one it was asked for
in, which says all that the counter is used for. `timer` is the coordinator's quiet
window, `chain` its `#builds`: each refresh with the waiters that its timer copied and
the barriers that wait for its end through `#awaitBuilds`. A barrier's `stage` is the
await it stands at.

| Code | Actions |
|---|---|
| event handlers of `main.ts`, `scheduleSearchSnapshotRefresh`, `schedule` | `Deliver`, `Parse`, `Resolved` |
| `SearchSnapshotManager.rebuild`, `#rebuild`, `semanticEvidence` | `List`, `ReadBytes`, `ReadSemantic`, `Publish`, `RebuildFails` |
| `refreshSearchSnapshot` | `RebuildDirectly` |
| the timer of `schedule` | `QuietWindowEnds` |
| `publishSuccessorSearchSnapshot`, `whenIdle` | `Begin`, `DeadlinePasses`, `Settle` |
| `unload`, `dispose` | `Unload` |
| environment | `Change` |

A step is a callback with the microtasks it starts: the end of a rebuild (`Settle`)
settles its waiters, starts the refresh queued behind it, and takes every barrier it woke
through the rest of `whenIdle` and `matches()` to its next await. The readiness a barrier
looks at is the one after the next rebuild has started, since that one's continuation
is earlier in the microtask queue.

A barrier has no target or one: the note as it is when the barrier begins, with or without
`requireSemanticMatch`. Several targets and the closure of a move are conjunctions of
the same comparison and are left out, as is a rename (a deletion and a creation
here). Parsing may be late: `changed` brings any content since the last one. A file
that is gone when it is read, missing metadata, and inconsistent listings are failures of
the rebuild.

### 2.5 Reads: Continuations, VaultRead, NoteProjection, MoveProjection

`Continuations` has the two stores of tokens: `active` (frozen results cut at the limit)
and `found` (discoveries), with `holds`, what each client was given. `Issue` and
`Continue` build a page with the search for the longest prefix that fits
(`vault-continuation.ts`), `Discover` and `DiscoverNext` page through notes,
`Release` is the end of a session, `DiscoveryExpires` and `Tick` are time. An item is the
sequence of the widths of its characters, so a page that cut a character, or was not as
full as it could be, would show.

`VaultRead`: `content` is the Vault, `cached` the headings last parsed, `items` what every
item of the request has read. `Look`, `ReadBinary` and `Settle` are its awaits, `Edit` and
`Reparse` run between them; `Answer` groups. A note is a sequence of cells, so that
`Spells` is what `verifyHeadings` tests: the cells from a cached heading's start to its
end, and nothing before or after them in their line. Closing `#`, underlined headings, more
blanks and the byte order mark, which the regular expression also takes, are left out, and
so are the byte widths of characters. The host has no list of headings for a note
without any. `NoteProjection` (`EditBody`,
`EditFrontmatter`) and `MoveProjection` (`Move`) are functions with one step each, checked
against a definition of what they should do that is written by containment and by meaning
and not by their loops. Percent encoding, the grammar of links, the YAML of a value, and the map
between UTF-16 places and bytes are data; Frontmatter that is one flow mapping at the
top is not modelled; directories are one deep.

### 2.6 The vault's runtime: BridgeHealth, DiagnosticBundle, ManagedVaultRuntime, BridgeSessions

`BridgeHealth` keeps the truth (`registry`, `journal`, `blocked`, `readiness`, `current`)
beside the copy that is reported (`health`), because the code does. Of an execution it has
what health can see: which Change Set, the phase of the frame in the journal and what of it
is saved, with every step able to fail and the process to die between two of them.

| Code | Actions |
|---|---|
| `managed-vault-runtime.ts` load, `ChangeSetService.open` | `Restart`, then `Recover`, `RecoverFails`, `OpenBlocked`, `QueueNext` before the Bridge listens |
| `pauseWrites`, `runMaintenance`, `resumeWrites` with the service's side | `Pause`, `PauseCompleted`, `Maintain`, `MaintenanceDrained`, `Migrate`, `Resume` with `QueueNext` |
| `submit`, `#executeMutation`, `#executeMove` | `Submit`, `Recover`, `ExecuteBegins`, `Reject`, `Prepare`, `MarkExecuting`, `Commit`, `Restore`, `Record` |
| `#markUnproven`, `blockWritesForUnproven` | `MarkUnproven`: the flag first, then the save, then the health |
| readiness listeners | `SnapshotChanges` |

`ProjectEffectiveGate`, `ProjectOperatorAction` and `ProjectObservedHealth` are the projections
of the code, and `ListTools` and `CallTool` what a session is shown and answered.
`DiagnosticBundle` holds the exact grammar, the redaction, the checksum and the verification
of both bundles; it is applied to the evidence of every state, with the journal's slots as
a write under way may leave them. Left out: expiry, the gate sampled before `#serialize`, a
journal that contradicts its registry, and `mutation_executor_not_ready` (a host has both a
data source and an executor or neither).

`ManagedVaultRuntime` has directories that people copy and move (`CopyDirectory`,
`MoveDirectory`), each with `recovery` (authoritative) and `mirror`, and tasks that interleave
at every await: `Onload`, `Load`, `Classify`, `SaveRecovery`, `SaveMirror`, `Listen`,
`Started`, with `SaveChangeSets`, `Unload` and `Crash`. It is assumed that the operator
classifies truthfully and that a directory is not moved again before it is classified.

`BridgeSessions` is `handleRequest` and `stop()`: `Arrive`, `Admit`, `Authenticated`,
`BodyRead`, `Connected`, `SessionCreated`, `SessionHandles`, and `Stop`, `SessionsClosed`,
`ListenerClosed`, with every await a step.

### 2.7 ReleaseLifecycle

`live`, `staging`, `backup` and `failed` are the four directories of an install; a
directory is its managed files, each of a version or damaged, and the upgrade evidence
it carries. `schema`, `mode` and `work` are what the plugin has persisted, `runtime`
the release that is loaded. `inst` and `up` are the program counters and variables of
the commands.

| Code | Actions |
|---|---|
| `installOneTarget` and its recovery | `InstallRecover`, `InstallInspect`, `InstallStage`, `SwapOut`, `SwapIn`, `VerifySwap`, `UndoSwap`, `RestoreBackup`, `CleanUp` |
| `upgradeManagedVaultRelease` | `RecordStart`, `Drain`, `ReplaceReturned`, `AppendPhase`, `Reload`, `Migrate`, `ObserveHealth`, `ValidateHealth`, `Succeed` |
| its rollback | `DecideRollback`, `RollbackReturned`, `ReloadBack`, `MarkFailed`, `RecordFailure` |
| `uninstallManagedVaultRelease` | `GateState`, `GateEvidence`, `RemoveFile` |
| the plugin, the operator, accidents | `LoadRuntime`, `UnloadRuntime`, `RuntimeWorks`, `Resume`, `FinishMaintenance`, `Tamper`, `Crash` |

One Managed Vault: a batch runs several one after another. Rename by rename; copying a
file is a step that may fail. A release has two managed files, one of them the manifest.

### 2.8 StatePurge

`disk` are the files of the operational state (`data.json`, `bridge-state.json`,
`bridge-state.next`, journal), `mem`, `saving` and `acked` the plugin's registry, `todo`, `seen`
and `copy` the purge's inventory and backup. The plugin's `WriteNext`, `Rename` and
`Mirror` run between the purge's `Listing`, `ReadRegistry`, `HashFile`, `ReadJournal`,
`ObserveHealth`, `BackUp`, `Verify`, `Confirm`, `Remove` and `Check`; either process may
die anywhere (`PluginEnds`, `PurgeEnds`). Upgrade evidence, older schemas and the
validation of paths are left out, and the journal's files are one.

### 2.9 AutomationDispatch and TargetOperation

In `AutomationDispatch`, `labels`, `total`, `open`, `implemented` and `draft` are GitHub,
`log`, `aged` and `unreadable` the job records, `session` the Dispatch Session, `seen` its
listing under way, and `job` its worker slots.

| Code | Actions |
|---|---|
| `dispatchAutomationCommands` | `StartSession`, `ReadItem`, `FirstListed`, `FirstFill`, `Wake`, `Refill`, `ListingFails` |
| `automation-recovery.ts` | `Repair` |
| promotion of queued Issues | `ScanQueue`, `ReadQueued`, `Promote` |
| `TargetOperationCommandRunner.run` | `ReadAvailable`, `Claim`, `Acquire`, `RemoveTrigger`, `Settle`, `Block`, `Release`, `Done` |
| the operations, as GitHub sees them | `LogStart`, `RunImplementation`, `RunFeedback`, `RunReview`, `RunBranchUpdate`, `RunSpecSplit`, `RunSpecImplementation`, `CloseChild`, `Continue`, `LogEnd` |
| environment | `Crash`, `Age`, `Edit` |

An item is read once per listing; a death of the Dispatcher takes its jobs with it (the
control group of the systemd unit); records age while no session runs; people change
labels but do not add `agent:blocked`. Blockers and parents of queued Issues are left
out, and an Issue with an open Pull Request is not listed. Three variables are history:
`wanted` has the triggers (and `agent:queued`) that were put and whose job has not ended,
`edited` the Work Items that people changed during a listing, and `muddled` those that two
jobs had at once or whose job died where another's record stands for its own:
`NothingForgotten` does not speak of the latter (section 4, `OneOperation` and
`RecoveryForgetsNothing`).

`TargetOperation` is one job in detail: `item` is the Work Item, `acquired`, `invocation`
and `worker` what each of the three processes was given, `disk` the Target Checkout,
`log` the record, `diagnostic` what is published of a failure.

| Code | Actions |
|---|---|
| `target-operation-command.ts` | `Read`, `Claim`, `Reread`, `Untrigger`, `Settle`, `Close`, `Outcome`, `Block`, `Release` |
| `target-operation.ts`, `target-checkout.ts` | `Open`, `Input`, `Clone`, `Fetch`, `Install`, `Spawn`, `Remove`, `Report`, `TimeOut` |
| the operation worker (`target-operation-runtime.ts`) | `Inspect`, `Operate` |
| retention | `Expire` |
| people | `Edit` |

What each process accepts of the one before is modelled by the key sets of its
snapshots; all revisions are full hashes; other labels, renamed branches, transfers and
the environments of the processes are left out. The run has one operation of every path
(an Issue's, a Pull Request's with and without the same trigger rules, the scheduled
one); the other three take the same paths.

### 2.10 FeedbackPublication

`parent`, `head`, `shown` are the branch and what GitHub shows of it, `unresolved`,
`replies`, `visible` the threads, `op` the invocation, `published` the history of pushes.
`ReadPullRequest` to `ReadBack` are the awaits of `runFeedbackImplementation`; a write may take
effect and be lost, be shown late (`ShowHead`, `ShowReplies`), or be followed by a death
(`Crash`), and others push, reply and resolve. A reply is the revisions its marker names.
`Implement` is the Agent: it may leave its checkout at any revision but the acquired one,
with new commits (`Committed`) on that one, on an older one or on none, or without any:
the code compares `HEAD` with the acquired revision and nothing else
(`feedback-recovery.ts:160`, `exact-lease-publisher.ts:88`). So the lease keeps a push off
what others pushed since the head was acquired, and `SparesOthers` says that other people's
commits leave the branch only where the Agent left the acquired head out of its history.

### 2.11 WorkerProcess, AgentStages, DurableImplementer

`WorkerProcess`: `alive` is the process group, `deadline` and `grace` the timers, `exited`
and `group` the promises the owner awaits, `at` where it is in `run()`. `Fork`, `Exit` and
`Die` are the group's; `Launch`, `Race`, `Settle`, `Signal`, `Grace`, `Kill`, `Await`,
`Confirm` and `Output` the owner's; `ExitEvent`, `Probe` and `Timer` deliver.
A process that leaves the group (setsid) is outside it.

`AgentStages`: `checkout` is what git shows, which every run of an Agent changes at will
(`Produce`, `Format`); `Freeze`, `CheckUnchanged`, `Validate`, `Classify` and `Merge`
are the code around it, with the nested retry windows. Prompts, sessions and delays are data.

`DurableImplementer`: `parent` the commits, `remote`, `tracking`, `local`, `tree` the
branch on GitHub, in the clone and its worktree. `Prepare`, `Reconcile`, `Call`,
`AgentReturns`, `CheckHead`, `CheckWorktree`, `VerifyPullRequest`, `VerifyRemote` are the
implementer; the Agent may `Resume`, `Commit`, `Edit`, `Push` and `Disobey`; other
people push. Which Pull Requests exist is a choice.

## 3. Runs

Sizes are distinct states unless said otherwise; times are with two workers.

| Run | Bounds | Shows |
|---|---|---|
| `journal_crash` | 2 frames that fit, 1 that does not, sequences to 4, 2 queued writes, 1 write overlapping a reader, failing syncs (19k) | an acknowledged frame survives, the journal implements `FrameRegister`, and `recover` returns a fresh frame |
| `service_atomicity` | the service with 2 Change Sets over the same 2 paths, once with 2 crashes, 2 host errors, 1 third-party value and control calls, once with errors of journal, store and host and with races; health with 2 submissions and at most 3 of 2 control calls, 2 faults and 1 restart; 2 directories with 2 tasks each, 2 loads, 1 failing write, 1 copy; 3 requests (1.4M, 110 s) | outcomes true and final, third-party bytes survive, order kept, refinement of `AtomicChangeSets`; health true; one identity per vault; sessions end with `stop` |
| `service_control` | 2 control calls at once, 1 crash, 1 host error, fairness (426k, 112 s) | a pause drains, the queue empties or a job rejected, control calls return |
| `snapshot` | 1 note that changes up to 3 times, 1 barrier, 1 of: an event without change, a direct rebuild, a failure; unload; fairness (790k, 143 s) | what is served is current, publications go forward, barriers get a successor and end, the snapshot settles |
| `mutation` | 11 requests over 3 notes, 3 attachments, 1 directory; 2 crashes, 1 error, 1 foreign write; fairness (253k, 25 s) | whatever is cut off converges, outcomes are true of every path, foreign bytes stay, requests are decided |
| `reads` | 2 clients, 3 results, 4 calls; 6 notes of up to 33 cells, 10 requests, 1 edit and late parsing; bodies to 4 bytes, edits of 2; 6 Frontmatter blocks, 3 changes; 2 moves, 3 notes, 17 links with 3 fragments (2.4M, 180 s) | pages join and are full, held tokens work, reads are of one snapshot, exact when the cache had parsed it, edits change what they name, references follow |
| `lifecycle` | 2 commands, 2 faults, 1 process death, 2 managed files; fairness (737k, 55 s) | a whole release and the evidence are on the disk at every point, success and rollback are true, commands end |
| `purge` | 3 saves, 1 fault, 2 deaths (5.5M, 75 s) | the next load finds the last registry; a purge deletes only what it copied, and no work |
| `automation` | 1 Spec with 2 children or an Issue, its Pull Request, 2 slots, 1 death, 1 failing call or edit; fairness (477k, 120 s) | one job per identity, no command forgotten, sessions drain clean and end, commands settle |
| `feedback` | 2 threads, 3 invocations of 1 commit at most, on any base, 1 lost answer or death, 1 intervention; fairness (2.5M, 125 s) | no thread answered twice, reports true, others' commits leave only with a history the Agent dropped, what was published can be completed, invocations end |
| `worker` | a group of 3, 3 faults; 4 roles with 3 attempts each; 3 attempts of an implementation, 2 commits, 2 faults, 1 foreign push; 4 operations, 2 revisions, 2 edits and 2 troubles; fairness of the process (1.6M, 75 s) | nobody left behind, `run` returns; results are proven; an operation runs on what was acquired, and labels, record and checkout say what became of it |
| `commit_not_recorded` | 1 store error, expected violation | finding 1 |

Why the bounds suffice for the cases of interest. Sequences to 4 use each slot twice
and reach exhaustion. Two paths make a partial Change Set possible; two
Change Sets over the same paths make each the other's pre-state and queue competitor;
two crashes allow one inside recovery from the first; one third-party value suffices
because every rule compares with one expected value; two control calls make one wait
for the other. For `snapshot`: a note's content is compared only
with its own, and a barrier waits for rebuilds and never for another barrier, so one of
each meets every comparison; three changes are enough to edit, delete and create again
during one rebuild and, with three events, to have one refresh running, one queued and
a third window open. For `mutation`: every kind of operation, with a crash in the
execution and another in the restore, at every host operation. For `lifecycle`: the second command is
the one that finds what the first left; two files make a partial set. For `purge`: a save
before, one during and one after it. For `reads`: widths of one and two bytes and a limit that
cuts inside a character; headings that repeat and skip levels, a note that grew, and one in which longer names, one of
them within a line, stand where a cached heading was; names that are ambiguous
before or after a move. For `automation`: two children make a continuation, two slots a
second job of one Work Item. For `feedback`: three invocations are one that is lost, one
that reconciles, one that comes after, and one commit amends as well as adds; runs of two
are in the theorems, and are what `ReconcileCompletes` excepts. For `worker`: a child and a stray outlive the
leader; three attempts are the code's. The theorems hold for any number. `CHECK_DEADLOCK
FALSE` stands where every budget can be spent and the system is at rest.

Several properties are conjunctions, so that one run answers one question: `Consistent` is
the type invariant with what must always fit together; `Progress` the liveness of a
component (`QueueDrains` and `ControlReturns`; `BarrierEnds` and `SnapshotSettles`;
`SessionEnds` and `CommandsSettle`); `ReadsAreExact` holds `PagesJoin`, `PagesAreFull`,
`HeldTokensWork` and what each reader promises; `OutcomesStand` is `NotAppliedLeavesNothing` and
`UnprovenBlocks`; `NextCommandCanGoOn` is `BundleRecoverable` and `EvidenceHonest`;
`ResultsAreProven` and `JobsAreAccountedFor` collect what the parts of an Agent job promise;
`HealthIsTrue` is `GateIsTrue`, `WritesAreTrue`, `ActionHelps`, `HealthyIsTrue`,
`BundlesAreTrue` and `ToolsAreAnswered`.

### Fairness

`RecoveryJournal`: weak fairness of the write and the read steps, since an I/O request
completes or fails. `ChangeSetService`: weak fairness of `Execute` and of `Control`, since a
settled promise's continuation runs (evidence has a deadline). No fairness is
assumed of clients, third parties, crashes, or of reopening a dead process.
`SearchSnapshot`: weak fairness of `Deliveries` (the host delivers its events),
`Rebuild` (a read returns or throws), `QuietWindowEnds` and `DeadlinePasses` (timers
fire). None of `Change`, `Parse`, `Begin` or `Unload`: a barrier ends although its note
may never be parsed. Events are finite within the bounds; the code's timer
never fires while events keep coming less than 250 ms apart.
`MutationExecution`: weak fairness of `Work`, for the same reason as of `Execute`; the
adapter opens again after a crash. `ReleaseLifecycle`: of the command's step, and of a Change
Set that executes (a drain waits for it). `AutomationDispatch`: of the session, of every
job, and of `Age`. `FeedbackPublication`: of the invocation's own steps, none of GitHub's
showing (every wait is bounded). `WorkerProcess`: of the owner, of events, timers and
probes, and of death after SIGKILL; a process may ignore everything else for ever.
The other specifications state no liveness and no fairness.

`QueueDrains` promises two things. As long as no job rejects with the head undecided
(`Stalled`), every accepted Change Set is decided, or writes are blocked or paused, or the
process is down. And a job on its way to a Change Set and to all before it (`Driven`: the
queue that `open` or `resume` runs, or a submit of the head) decides it or rejects in
its turn. A host error before `PREPARED` is the modelled cause of a stall. It is
checked without third-party writes: with one between the locked preflight and `PREPARED`
(line 2789) the job rejects the same way.

## 4. Findings

1. `commit_not_recorded`: the save of `intent_applied` fails after `COMMITTED`;
   `resume` runs the entry again without `#recover`, its preflight finds the Change
   Set's own bytes, and `intent_not_applied` is recorded with all effects in place
   (`change-set.ts:2223`; `mvp.md:105`). `NotAppliedLeavesNothing` is violated.

### Other disagreements between code and documents

These were met while modelling. Each is stated as a definition beside the properties of
its module, and does not hold; no run repeats them.

| Definition | The code | What says otherwise |
|---|---|---|
| `ChangeSetService!UnprovenStopsQueue` | `#resumeQueue` tests `#recoveryBlocked` before its loop only, so the entry behind an unproven one is executed and its `PREPARED` replaces the `FAILED` evidence, after which a restart finds nothing that blocks (`change-set.ts:2141`) | `mvp.md:106` |
| `ChangeSetService!PauseStopsQueue` | `resume` keeps the control lease while it runs the whole queue, so a `pause` cannot stop it after the current item (`change-set.ts:2163`) | `mvp.md:490` |
| `ChangeSetService!UnprovenBlocks`, with journal errors | when `FAILED` cannot be persisted the journal keeps `PREPARED` while the entry is unproven; after a restart `#recover` returns early and writes are open (`change-set.ts:2062`) | `mvp.md:435` |
| `MutationExecution!RestoresChains` | a chain such as [copy a to b; move b to c] that is cut off in its middle may leave states that no operation's plan knows (`third-party path state`), so it ends unproven (`change-set.ts:876-912`); the test of chains crashes after the first operation only | `mvp.md:379`, A-21 |
| `SearchSnapshot!SuccessAfterQuietWindow` | `whenIdle` ends with one more wait for the builds and does not test the timer after it, so a barrier can succeed inside a quiet window; what it saw is current (`search-snapshot.ts:421`) | `mvp.md:470`, `search-snapshot.test.ts:302` |
| `Continuations!TeardownReleases`, `BridgeSessions!ReleasedHoldsNothing` | a call that looked up its session before its body was read runs when the session is gone, and what it retains stays until it expires (`bridge-instance.ts:509`, `:640`) | `mvp.md:208` |
| `VaultRead!TotalsAreLimited` | when one note is over the limit by itself, the others are answered with their content whatever their total (`vault-read.ts:215-221`) | `mvp.md:198` |
| `VaultRead!SectionsAreWhole` | headings that the cache parsed from older bytes pass when the cells at their places still spell them (`vault-read.ts:90-103`): with `# A` cached and the note edited to `# AB`, section A is answered from the heading AB; it may begin or end within a line, and hold headings of its level that were added since | `mvp.md:176`, `:196` |
| `MoveProjection!OthersStillMean` | a name that meant one note can mean another after the move; the moved note's own relative references are not rewritten; a note whose evidence is not of its bytes is left out (`obsidian-search-data-source.ts:301-310`) | `mvp.md` 8.3 item 4, A-24 |
| `BridgeHealth!HealthRecovers` | `resumeWrites` and `pauseWrites` never change `overall` or the reasons, so what a load began with stays: `blocked` with `upgrade_in_progress` after a maintenance that was repeated with success, `degraded` after a first build that failed | `mvp.md:141`, `:151` |
| `ManagedVaultRuntime!TwoLoads` | two classification commands overlap, since the command is offered until the first save ends (`main.ts:354-362`); an unload during a load leaves a listener | `mvp.md:83` |
| `ManagedVaultRuntime!NewerSurvives` | classifying a restricted vault writes an empty registry over the newer state | `mvp.md:158`, `:160` |
| `ReleaseLifecycle!RollbackNeverBlind` | the rollback bundle is compared with the release on the disk, which need not be the one that runs and has written its schema (`upgrade-release.ts:563-577`) | the comment there |
| `AutomationDispatch!OneOperation` | what excludes is the identity of a command, and a Work Item can have two, so two operations of one run at once (`/.sandcastle/automation-dispatch.ts:111-112`) | the comment there |
| `AutomationDispatch!RecoveryForgetsNothing` | the record of a job that recovery has repaired stays `running`; when a later job of the Work Item, with another trigger, dies after it has taken its trigger and before it has a record, recovery takes the old one for the owner, puts back the old trigger and clears `agent:in-progress`: the later command is forgotten (`/.sandcastle/interrupted-automation-recovery.ts:186-214`; TLC finds it with two deaths, the run has one) | the comment there (181-186): an older record "must not be allowed to impersonate the owner of a later leftover" |
| `AutomationDispatch!FinalReviewRequested` | a death or an error between the closing of the last child and `agent:review` leaves a Spec without open children, which asks for nothing (`/.sandcastle/spec-implementation-automation.ts:216-228`) | `sandcastle-automation-guide.md:98` |
| `FeedbackPublication!OldMarkersDoNotBlock` | with a reply on each of two unresolved threads nothing is selected, and what was published for one of them cannot be completed (`/.sandcastle/feedback-reconciliation.ts:141-146`) | `sandcastle-local-dispatcher-runbook.md:331` |
| `DurableImplementer!BaselineIsAuthorized` | the clone takes over remote-tracking branches and its fetch does not prune, so a shared branch that is no longer on GitHub can become the frozen baseline (`/.sandcastle/implementer.ts:266-276`) | the comment above it |

Behaviours that no document denies, but that a maintainer should know:

* Change Sets: [edit n; trash n] and [create n; trash n] pass preflight, but `build` throws
  before `PREPARED` (`change-set.ts:926-946`), so the entry stays at the head of the queue
  and `open` rejects after a restart. [trash n; create n] publishes the new note over the old
  one before it trashes, and ends unproven. In a set that also has attachments the
  match of an edit is not required semantically. A persist that throws after `COMMITTED`
  reached its slot rolls back, and a crash before `ROLLED_BACK` makes recovery report
  `intent_applied`. Third-party writes between a compare and its write are lost; a copy
  and a trash have no second compare (`change-set.ts:877`). A submit whose gate was captured before a block
  is registered as queued. A read that fails in the locked preflight or in `#prepare`
  rejects the job before the `try`, and the accepted head, with everything behind it, waits until
  somebody submits its key again, calls `resume` or restarts (`change-set.ts:2680`,
  `:2774-2787`); a submit of a later key does not drive it.
* Snapshot: a barrier that fails to match in the last wait of `whenIdle` waits for another
  event or its deadline; a match found after the deadline is a success.
* Health: while recovery is blocked, a maintenance that is retried opens the reported write gate; the
  action told may be a resume that throws, or one where there is no service; a restricted
  host's raw evidence says writes are open. A mark whose save fails leaves a service that is
  blocked and a health that does not say so (`change-set.ts:1784-1795`); an execution that
  throws before its `try` leaves the queue naming it as running until the next one
  (`change-set.ts:2678`, `:2862`).
* Runtime: classifying a copy throws when the random port is the one it had; `migrateState` and the
  save of an expiry share `bridge-state.next`.
* Sessions: an `initialize` that the transport refuses leaves its server open.
* Lifecycle: an upgrade begun while a Change Set executes always fails its health
  check; a plugin may load between an uninstall's gate and its removals; a torn
  `metadata.json` disables recovery of an interrupted install for good.
* Feedback: the push of an amended or reset checkout takes the acquired head, and whatever
  of it others had committed, off the branch: the lease names what was acquired, and no
  ancestry is asked (`exact-lease-publisher.ts:99-104`). The marker names the parent of
  the pushed head, so a run of two commits, or one that rewrote what it was given, can not
  be completed by reconcile when its reply was lost (`feedback-reconciliation.ts:134`).
* Automation: `replyToReviewThread` returns without a reply when the comment has no numeric id
  (`automation-github.ts:936`); a descendant that left the group and holds the pipes keeps
  `await observed.output` waiting (`worker-process-lifecycle.ts:349-357`); a record that cannot be
  completed turns a success into a failure (`target-operation.ts:200`), and so does the
  removal of a checkout whose work is published (`target-checkout.ts:300`);
  `addInProgress` is outside the `try`, so a call that took effect and reported an error
  leaves the label for the next session's recovery; expiry runs before the
  scheduler's lock and before recovery, so evidence older than seven days is gone when it
  is read; the managed port hides an `agent:blocked` that a person sets while the
  operation runs (`target-operation-github.ts:39-48`).

How these bound the properties: `UnprovenBlocks` and `NotAppliedLeavesNothing` are checked
without store and journal errors, as is the refinement; the first excepts an unproven result
whose evidence a later frame replaced; `CrashesConverge` excepts chains
and errors of the commit itself; `RollsBackReadable` speaks of upgrades whose running plugin was
the release on the disk; `ServedIsStored` and `ServedOnce`
except directories where commands overlapped.

## 5. Proofs

`RecoveryJournalProofs` proves, for every set of frames, capacity, queue bound and for
process crashes and power loss, `TypeOK`, `SequencesDiffer` and `AckedRecoverable`.
Assumptions: the constants' (`FramesAssumption`, `BoundsAssumption`, and
`FaultAssumption`: a device that loses power does not also fail a sync).

`AckedRecoverable` alone is not inductive: a write must be known to leave the
acknowledged frame's slot alone. `IInv` adds `Parity` (a valid record in slot `i` has a
sequence of parity `1 - i`, in the file and on the device, so two valid sequences
differ), `OpInv` (the running write targets the slot that does not hold the newest
frame, with the next sequence), `Synced` (under power loss a valid slot of the file is
on the device, but for the one just written) and `Kept` (the acknowledged frame, or a
later one, is in a slot that the running write does not target). One lemma per action
shows that it is kept; the theorems are its consequences. No run repeats power loss.

It proves `JournalImplementsRegister` with `RInv`, which adds
`Lagging` (where file and device differ, the device is one write behind) and
`Serving`. Initial states map to initial states (`InitRefines`) and each action to a
register action or a stutter (`StepRefines`).

`BridgeProofs` proves of the service, for every number of Change Sets, paths
and footprints, and with every fault switched on or off, `TypeOK`, `NoOrphanEffects`,
`AppliedWasWhole`, `CommitInOrder` and `PausedIsDrained`. Assumptions: that footprints are
not empty and that values, frames and the damaged journal are told apart
(`FootprintAssumption`, `ValuesAssumption`, `JournalAssumption`, `BoundsAssumption`). The
properties of journal and vault are not inductive: why no frame about unfinished work is ever replaced, and why a restore does
not bring an unfinished Change Set's bytes back, are facts about the queue. `IInv` says
of the store

* `Registered`: enqueue numbers are used once, and lie below the next one;
* `Previews`: a preview binds bytes of Change Sets registered earlier;
* `Journaled`: the newest frame's Change Set, while unfinished, heads the queue;
* `Effects`: an unfinished Change Set's bytes are under the newest frame;
* `Applied`: whoever is applied, journaled as committed, or wholly in the vault now,
  is in the history variable `whole`;

and of the job (`Running`) that it handles the head of the queue from `PREPARED` on,
under that Change Set's frame, and of the leases (`Leases`) that the job is at their
head. `PREPARED` may then replace the newest frame because that one, if unfinished,
would head the queue too; a restore writes bytes of Change Sets registered before the
head, none of which is unfinished. `SameStore`, `StateStep`, `JournalStep`, `VaultStep`
and `AdmitStep` say this once per kind of change, and one lemma per action cites them.

`OutcomesStandHolds`, `OthersBytesSurviveHolds` and the refinement `IsAtomicHolds` have the
hypothesis `Behaving`: the journal and the registry store report no errors, and third
parties do not write between a compare and its rename. Host operations may fail and the
process may die at any step, as often as it likes. Without it they are false (sections 4 and
2.2). `CalmInv` adds to `IInv` that entries are taken up by a job that no longer
recovers (`Within`: one whose read fails before `PREPARED` leaves nothing to restore); of the store (`CalmStore`), that the newest frame says what
the registry says or is to say (`Fitting`) of the oldest Change Set that is unfinished, or one
before it (`Eldest`); that bytes are where their Change Set writes (`Placed`) and what is
withdrawn left none (`Withdrawn`); that what a restore would bring back is there to stay
(`Lasting`); and that the evidence of an unproven result is the newest frame or under a later
one (`Evident`). Of the job (`CalmJob`) it adds the phase at each step (`Framed`), that
between two executions nothing is journaled and undecided (`Resolved`), that compared bytes are
still what they were (`Bytes`), and what blocks until recovery has found the evidence
(`Serving`, `Blocking`). The lemmas `CalmSame`, `CalmState`, `CalmAdmit`, `CalmFrame`, `CalmPublish`,
`CalmUndo`, `CalmThirdParty` and `CalmTear` say once per kind of change what a client sees of
it; one lemma per action cites them. The attempt found that `UnprovenBlocks` had held in the
run only because one host error was its bound: with two, `#resumeQueue` journals the next
Change Set over the evidence of the first. The property states that exception now, and the
run allows two.

`PausedIsDrained` needs only the types: whoever changes the write mode keeps a place in the
queue of the write lease until what was before it has ended, a refused call gives up no
place but its own (`TailKeeps`), and only `Dispatch` and `NextEntry` begin an execution.

`MutationExecutionProofs` proves of an execution on the disk, for every vault, every request
of operations of all seven kinds, and any number of errors, crashes and writes of somebody
else between any two host operations, `ExecutionIsTyped`, `ProofStatesAreTrue`
(`OutcomesAreTrue`), `RestoresSpareOthers` (`OthersAreSpared`), `StallsAreExplained` and
`ConsistentHolds` (`Consistent`, with `CrashesConverge`).
Assumptions: that files, directories and marks are told apart and paths are finitely many
(`PathsAssumption`, `BytesAssumption`), that a directory's parents are its files' parents too
and what exists lies in directories that exist (`TreeAssumption`, which only `ConsistentHolds`
needs), that requests are sequences of well-formed operations
and a note's move comes alone, as the schema demands (`RequestsAssumption`), and
`BoundsAssumption`. What makes a proof state true is spread over the plan that is still
ahead, so `IInv` (in `MutationExecutionInvariant`) speaks of `todo`:

* `PreviewOK`: the frozen preview is of the vault as it was found and names what the request
  names; it follows the projection of the request, operation by operation;
* `NodesOK`: what is staged is visible only once it was published, and a new node is
  nobody's yet; `PrivateOK`: what is kept beside the vault is the request's own;
* `RunOK`: of the rest of an execution, that every stage that exists is still to be
  published, none is made twice, a directory's place is looked at before it is made, and a
  second name is removed at once; `SharedOK`: otherwise no file has two names, so a write of
  somebody else in place changes only what he knows of;
* `UndoOK`: of the rest of a restore, that it drops the whole trash and discards every stage,
  and touches nothing that is a third party's (`Sparing`) unless one wrote since it was planned;
* `CompleteOK`, `QuietOK`: what was read back before `COMMITTED` stays, but for the paths that
  others touched; before `PREPARED` and after a verified restore the vault is as it was found;
* `PhaseOK`: where the executor can be for each durable phase and proof state.

Plans are concatenations of parts. Four orders of steps (`Leads`, `Never`, `Adjacent`,
`Preceded`) are each kept by a step of the plan and by concatenation, and are shown of
every part of `Execution` and `Restore`; one lemma per host operation says what it does to the
vault (`Good`), and one lemma turns that into the invariant. `IInv` was checked by TLC on the
requests of the run `mutation`, and on others with two writes, before it was proved.

`CrashesConverge` needs more: a restore may meet whatever an execution, and earlier restores
that were cut off, have left, and no step of it may then find what it does not know. `JInv` says
this while all is calm (`Calm`: no chain, nobody else wrote where the request does, no error of a
restore or a commit), for any number of crashes and of errors of the execution:

* `PlainOK`: each operation is the first to look at its paths, and the last, since the
  request is not a chain (`PlainView`, by induction over the projection);
* `LeftOK`: what each staged file, new directory, copy, move and trash can be left like. These
  are the states that the plan of a restore knows, so `Restore` never holds a `refuse`;
* `RunFits`: the rest of an execution is for that preview, step by step (`Means`), an identity is
  journaled before it is published, and what the restore relies on is still ahead or done (`Late`
  names the pairs of steps that must not come in that order);
* `UndoFits`: every step of the rest of a restore can be taken (`Ready`), none spoils a later one
  (`Early`), and each path that is not as before has a step ahead that mends it (`Repairs`);
* the executor never goes on to `fail` or `unprove`, and no phase is `FAILED`.

A fifth order, `Ordered`, is that of pairs of steps; it too is kept by concatenation and by a step
of the plan. `JInv` is inductive with `IInv` (`CalmNext`); TLC finds it true on the instance of
the run `mutation` too. The removal of new directories, from the leaves up, is what needs
`TreeAssumption`: without it the model's initial vaults have some in which a directory exists
below one that does not.

`SearchSnapshotProofs` proves of the snapshot, for every number of notes, barriers,
changes and events, `TypeOK`, `ReadyIsCurrent` and `SnapshotsAreSuccessors` (publications
go forward, and a barrier succeeds only with a successor). Assumptions:
`BoundsAssumption` and `NoneAssumption`. A published
snapshot is made of reads at many moments, so `IInv` speaks of the rebuild that reads:

* `OneReads`: only the first rebuild of the line has read anything;
* `FreshReads`: what a fresh rebuild has read is still so, but for notes whose event is
  under way, because every event makes all rebuilds stale;
* `ReadsFollow`: a note's content in the snapshot is not newer than in the rebuild,
  nor that than in the Vault, fresh or not;
* `ReadyIsSuccessor`: no barrier began since the publication of a ready snapshot;
* `ParsedExists` and `Dropped`: only existing notes are parsed; nothing rebuilds after
  unload.

`ReadyIsCurrent` follows from `FreshReads` at the publication, and
`SnapshotsAreSuccessors` from `ReadsFollow` and from `ReadyIsSuccessor` with the test of
`Matches`. Steps that only make rebuilds stale, add one, read, or end one are handled
once each (`StaledReading`, `AppendReading`, `ReadReading`, `SettleReading`).

`BridgeProofs` also proves of one vault's identity and sessions, for any number of
directories, ports, tasks and requests, `IdentityIsKeptHolds` and `SessionsEndWithStopHolds`.
Two facts carry the identity: a directory holds ids (on disk, in its tasks, in
memory) that no other directory holds (`HoldsId`, `IdsOwned`), and where no two of its loads
overlapped, a directory runs one task, what listens is its own, and a crash would leave the
identity that it serves (`Calm`, of `OneTask`, `Serves` and `Agrees`). An `onunload` that does not
wait makes overlapping loads possible; of those directories the property and the invariant say
only what holds of every one (`Shaped`, `Listening`, `Moved`). For the sessions, between what `stop()` closes and what is left stand the requests
that it finds at an `await`: every open server is still to be registered, belongs to a failed
`initialize`, or will be closed (`ServersOwned`), a session and a request that is handled
rest on an answered `initialize` (`SessionsStand`), and `Stopping` and `ConnectionsEnded` say how far
`stop()` is.

Of the purge (at the end of `ReleaseLifecycleProofs`) it is proved, for any number of saves,
failing steps and ends of either process (the bounds of `PurgeAssumption` are not needed),
`DeletionIsSafeHolds` and `StateIsConsistentHolds`. For the first, `IInv` follows the purge while the plugin goes on: the inventory is what is there, but
for files the plugin wrote since the purge began (`Inventory`); what is compared is copied
(`Copied`); and where it wrote nothing, the registry that was judged is the one `load()` would
take (`Judged`). The last holds through the deletion because the mirror goes before the
recovery copy: in the other order the older mirror, with work pending, would become what
`load()` takes. For the second, `Current` says where the newest registry is during a save:
in the recovery copy, or in the complete draft that is about to be renamed.

`FeedbackPublicationProofs` proves, for any number of threads, commits, invocations, faults
and other people, `InvHolds` (types and ranges), `ConsistentHolds` and
`PublicationIsTrueHolds`. `IInv` says what an invocation knows at each of its awaits: what it
read was once the head (`Acquired`), what it made is a revision, of whatever history
(`Made`), before it pushed it has published nothing (`Unpublished`), a push that was
answered is known to it (`Told`), and until it replies it has seen
every reply of the orchestrator (`Seen`), so that its thread has none when it does
(`Unanswered`) and at most one afterwards (`Single`).

Both modules that speak of commits, this one and `AgentJobProofs`, hold the lemmas on
commit trees: a sequence that gives each commit its parent is a tree, the ancestors of a
commit are the least set that is closed under parents (`Below`), that set is transitive,
and it stays when commits are added. The models compute ancestors with a recursive
function; that it is `Below` (`AncestorsAreBelow`) is proved with a least counterexample,
since the induction theorems cannot be instantiated.

`AgentJobProofs` proves the three invariants of the run `worker` for all its parts, hence for
any group of processes, any number of attempts, commits and edits, and any revisions and
branches: `ConsistentHolds`, `JobsAreAccountedForHolds` and `ResultsAreProvenHolds`. Its
assumption is `JobAssumption`: the bounds are numbers, there is at least one attempt,
and no commit is one of the marks that stand for "no commit". The parts have
an invariant each.

* `WorkerInv`: that the group is empty when `run` returns rests on what the owner was told
  before, so it adds `Absence` (a probe that answered that the group is gone was right and
  stays right: no member is left to fork one), `Standpoint` (what is known at each await of
  the owner) and `Intended` (the outcome it will report fits the timer that led to it).
* `StagesInv`: that the runs of an Agent stay within a bound is a sum over nested retries;
  `Budget` is what may have been spent at each point (`Before` the attempt, its `Own` run,
  those of the `Formatted` stage), and the lemmas `GivenFacts` and `RoundsFacts` do the
  arithmetic once. `Frozen` says that what a formatting stage delivers is what was frozen.
  This proof found a slip in the model, a guard of `Freeze` that bound differently than the
  condition in the code does; it is corrected.
* `WorkInv`: what an implementation has frozen, what it has seen of its head, and that
  what it goes on with after a failed attempt stands on the baseline (`Standing`), with the
  commits as a growing tree (`Grown`).
* `OperationInv`: the authorization is carried from process to process and to the checkout
  (`HandedOver`, `CheckedOut`; that no hand-over loses or replaces a field are lemmas about
  records, `MergeKeeps`, `InvocationKeeps`, `ArgumentsKeep`), a result stands on the evidence
  left (`EvidenceStands`), an error message is published only where it is trusted
  (`FailuresStand`), and the labels are what the job made of them while nobody else
  moved one and no call failed (`LabelsStand`).

`ReleaseLifecycleProofs` proves of install, upgrade and uninstall, for any number of
commands, saves, damaged files, failing operations and deaths of a command,
`ConsistentHolds`, `NextCommandCanGoOnHolds` and `ClaimsAreTrueHolds`. What the next command
finds is not inductive, because a command passes through states in which no release is
live. `IInv` says

* `Swapping`: what `live`, `staging` and `backup` hold at each step of a swap, and that the
  evidence of an upgrade moves with the directory that is live;
* `Verified`: a verification that fails, fails for a file that somebody damaged, so that
  undoing a swap never deletes the only whole release;
* `Quiesced`: the plugin is drained when its files go and stays so until it is loaded again;
* `Phase` and `Observed`: at the n-th phase of an upgrade, the runtime, the schema and the
  queue are those that the earlier phases observed, unless the plugin resumed writes;
* `Readability`: the ceiling of the schema is the old release's when the running
  plugin was the release on disk, and a rollback is entered only under it;
* `Gated`: a file is removed only after journal, state and evidence were found settled.

One lemma per action shows that these are kept; `Persisted`, `Rewritten` and `SameSet` say
once what a write of evidence leaves of a directory.

`AutomationDispatchProofs` proves of the Dispatcher, for any Work Items and labels, any number
of slots, failing calls, edits and deaths, `ConsistentHolds` and `DrainIsCleanHolds`. That no
command is forgotten is not inductive, because a job takes its trigger off and a repair puts
another on: what is missing has to be owed by somebody. `IInv` says

* `Accounted`: what is asked for and cannot be seen (`Missing`) is what the job that has the
  Work Item took and still owes; without such a job a label stops the Work Item, and the
  record that is left, if there is one, restores it;
* `Ownership`: one job at a time has a Work Item, with its label on it and, while it works, its
  record; of `muddled` items neither says anything;
* `SessionShape`, `JobShape`: no job runs while a session recovers, a recovery has evidence for
  what it repairs, and a job's steps follow from how it ended;
* `Listings`: a listing that was not raced is what GitHub shows, but for people's edits, from
  which `DrainIsClean` follows at an empty frontier (`EmptyFrontier`).

The attempt found that `NothingForgotten` had held of every Work Item only because the run
has one death: with two, TLC shows the exception of section 4. `EngagedStep` and
`ReleasingStep` say once what a job's step leaves to the Work Item, `JobsRest` what a step
of the session leaves to the jobs.

Model-checked only, because fairness and ENABLED are outside the prover: `RecoverServed`,
`Progress`, `Decided`, `CommandEnds`, `InvocationEnds`, `RunReturns`. Because the definitions compute by recursion over data, which the
prover's induction does not reach: the properties of `Continuations`, `VaultRead`,
`NoteProjection` and `MoveProjection`, and `HealthIsTrue`, whose queue and bundles are
filtered and sorted sequences.

## 6. What is not modelled, and why

* The corpus and the installed-runtime harness (`corpus/`, some fourteen thousand lines):
  drivers of tests of the rest.
* Release assembly and verification: hashing of files at build time.
* Contracts: schemas, and parsers that accept or refuse.
* The command line of the lifecycle and of `.sandcastle`, the parsing of what `gh` and `git`
  print, the container, prompts: functions of their inputs.
* Of modelled parts: expiry, tombstones and `status` of the service; which events the
  evidence tracker accepts; header rules of the request policy; matching of discovery
  queries; a rename as an event of the snapshot; batches of an upgrade; upgrade evidence
  in a purge; blockers and parents of queued Issues; reclaiming of the scheduler's lock;
  the environments that worker processes are given.

## 7. Plan

In order of worth:

1. Submission keys: binding, conflicts, retention and tombstones; a key never names two
   Change Sets.
2. The evidence tracker's events and probes, as a refinement of `AwaitEvidence`.
3. `SearchSnapshot` with renames and the move barrier; then as the barrier of
   `MutationExecution`.
4. The scheduler's lock and the environments of workers, beside `AutomationDispatch`.
