-------------------------- MODULE ChangeSetService --------------------------
(***************************************************************************)
(* The Change Set service (packages/obsidian-plugin/src/change-set.ts): it *)
(* registers Change Sets, executes them one at a time under a write lease, *)
(* journals every phase, restores what it cannot prove, and recovers after *)
(* a process crash.                                                        *)
(*                                                                         *)
(* A Change Set rewrites the paths of its Footprint.  The bytes at a path  *)
(* are a value: Original, the Change Set that staged them, or one that a   *)
(* third party wrote (each third-party value is written once).  The        *)
(* Recovery Journal is the atomic register that RecoveryJournal implements *)
(* (FrameRegister).  A crash is possible between any two steps.            *)
(***************************************************************************)
EXTENDS Integers, Sequences, FiniteSets

CONSTANTS
  ChangeSets, Paths,
  Footprint,      \* the paths a Change Set stages and publishes
  Original,       \* the bytes at a path at the start
  ThirdParty,     \* bound: values third parties write, each of them once
  None,           \* no path, no Change Set, no value, no frame
  Damaged,        \* a journal that #readLatest refuses
  MaxControl,     \* bound: pause, maintenance and resume calls at once
  MaxCrashes,     \* bound: process crashes
  MaxFaults,      \* bound: steps that fail with an error
  JournalFaults,  \* a read or a write of the Recovery Journal may report an error
  SaveFaults,     \* the registry store may report an error
  HostFaults,     \* a host operation or a piece of evidence may fail
  Races           \* third parties may write between a compare and its write

ASSUME FootprintAssumption ==
  /\ Footprint \in [ChangeSets -> SUBSET Paths]
  /\ \A c \in ChangeSets : Footprint[c] # {}
ASSUME ValuesAssumption ==
  /\ ChangeSets \cap ThirdParty = {}
  /\ Original \notin ChangeSets \cup ThirdParty
  /\ None \notin ChangeSets \cup ThirdParty \cup Paths \cup {Original}
ASSUME BoundsAssumption ==
  /\ MaxControl \in Nat /\ MaxCrashes \in Nat /\ MaxFaults \in Nat
  /\ {JournalFaults, SaveFaults, HostFaults, Races} \subseteq BOOLEAN

Values == {Original} \cup ChangeSets \cup ThirdParty
Phases == {"PREPARED", "COMMITTED", "ROLLED_BACK", "FAILED"}
Frame(c, phase, staged) == [id |-> c, phase |-> phase, staged |-> staged]
Frames == [id: ChangeSets, phase: Phases, staged: BOOLEAN]
ASSUME JournalAssumption == Damaged # None /\ {Damaged, None} \cap Frames = {}

States == {"none", "queued", "executing",
           "intent_applied", "intent_not_applied", "result_unproven"}
WriteModes == {"none", "manual_paused", "maintenance_pending",
               "maintenance_failed", "maintenance_paused"}
ControlKinds == {"pause", "maintenance", "resume"}

VARIABLES
  vault,       \* the bytes at each path
  journal,     \* what the Recovery Journal decodes to
  state,       \* registry: the proof state of each Change Set
  before,      \* registry: the pre-states its immutable preview binds
  enqueueSeq,  \* registry: the order of registration, 0 before it
  nextEnqueueSeq,
  writeMode,   \* registry: #dequeuePaused and #admissionGate mirror it
  proc,        \* "down", "opening" or "up"
  blocked,     \* #recoveryBlocked
  health,      \* the bridge's recovery gate: "clear" or "blocked"
  calls,       \* a client's submit call: "idle", the gate it captured, "waiting"
  lease,       \* the jobs waiting for the write lease, the holder first
  control,     \* the control calls waiting for the control lease, holder first
  run,         \* the job under the write lease
  whole,       \* history: Change Sets whose whole footprint was in the vault
  unwritten,   \* third-party values not written yet
  crashes, faults

registered == <<enqueueSeq, nextEnqueueSeq>>
durable == <<vault, journal, state, before, registered, writeMode>>
queues == <<calls, lease, control>>
gates == <<blocked, health>>
budget == <<unwritten, crashes, faults>>
vars == <<durable, proc, gates, queues, run, whole, budget>>

\* kind: the job's code path.  pc: its next step.  within: "recover" or
\* "execute", where a restore returns to.  id: the Change Set it handles.
\* left: paths still to handle; at: the path just compared; actions: paths a
\* restore plans to write; todo: what #resumeQueue found unfinished.
Job(kind, c) == [kind |-> kind, id |-> c]
Idle == [kind |-> "idle", pc |-> "idle", within |-> "execute", id |-> None,
         left |-> {}, at |-> None, actions |-> {}, todo |-> {}]

Pcs == {"idle", "recover", "plan", "undo", "roll back",
        "rolled back", "fail", "unprove", "unprove and throw", "dispatch",
        "next", "preflight", "prepare", "begin", "stage", "publish",
        "confirm", "commit", "committed", "throw", "block", "done"}

JobType == [kind: {"submit"}, id: ChangeSets] \cup [kind: ControlKinds, id: {None}]
ControlType == [kind: ControlKinds, leased: BOOLEAN]
RunType == [kind: {"idle", "open", "submit", "resume"}, pc: Pcs,
            within: {"recover", "execute"}, id: ChangeSets \cup {None},
            left: SUBSET Paths, at: Paths \cup {None},
            actions: SUBSET Paths, todo: SUBSET ChangeSets]

TypeOK ==
  /\ vault \in [Paths -> Values]
  /\ journal \in Frames \cup {None, Damaged}
  /\ state \in [ChangeSets -> States]
  /\ before \in [ChangeSets -> [Paths -> Values \cup {None}]]
  /\ enqueueSeq \in [ChangeSets -> Nat] /\ nextEnqueueSeq \in Nat \ {0}
  /\ writeMode \in WriteModes
  /\ proc \in {"down", "opening", "up"}
  /\ blocked \in BOOLEAN /\ health \in {"clear", "blocked"}
  /\ calls \in [ChangeSets -> {"idle", "clear", "blocked", "waiting"}]
  /\ lease \in Seq(JobType) /\ control \in Seq(ControlType)
  /\ run \in RunType
  /\ whole \subseteq ChangeSets
  /\ unwritten \subseteq ThirdParty
  /\ crashes \in 0..MaxCrashes /\ faults \in 0..MaxFaults

InProgress(c) == state[c] \in {"queued", "executing"}
Terminal(c) ==
  state[c] \in {"intent_applied", "intent_not_applied", "result_unproven"}

\* entries whose execution is not terminal, and the one with the least enqueueSeq
Pending == {c \in ChangeSets : InProgress(c)}
First(c, S) == c \in S /\ \A d \in S : enqueueSeq[c] <= enqueueSeq[d]
HeadOfRegistry(c) == First(c, {d \in ChangeSets : enqueueSeq[d] > 0})
HeadOfAny(c) == c \in Pending
HeadOf(c) == First(c, Pending)

\* What preflight finds, and what final verification expects, of a footprint.
AsPreviewed(c) == \A p \in Footprint[c] : vault[p] = before[c][p]
AsPublished(c) == \A p \in Footprint[c] : vault[p] = c

Init ==
  /\ vault = [p \in Paths |-> Original] /\ journal = None
  /\ state = [c \in ChangeSets |-> "none"]
  /\ before = [c \in ChangeSets |-> [p \in Paths |-> None]]
  /\ enqueueSeq = [c \in ChangeSets |-> 0] /\ nextEnqueueSeq = 1
  /\ writeMode = "none"
  /\ proc = "down" /\ blocked = FALSE /\ health = "clear"
  /\ calls = [c \in ChangeSets |-> "idle"] /\ lease = <<>> /\ control = <<>>
  /\ run = Idle /\ whole = {}
  /\ unwritten = ThirdParty /\ crashes = 0 /\ faults = 0

-----------------------------------------------------------------------------
(* Steps of the running job.                                                 *)

At(pc) == run.pc = pc

Goto(pc) == run' = [run EXCEPT !.pc = pc]

\* #restorePrepared, within #recover or as the catch of #executeMutation
Restore(within, c) ==
  run' = [run EXCEPT !.pc = "plan", !.within = within, !.id = c, !.at = None,
                     !.left = Footprint[c], !.actions = {}]
Abort == Restore("execute", run.id)

\* where a restore, or #recover itself, returns to
Returned == IF run.within = "recover" THEN "dispatch" ELSE "next"

Fault == faults < MaxFaults /\ faults' = faults + 1

\* execution.persistRecoveryFrame: the register takes the frame; or it throws,
\* and the frame may have reached the slot or not (a torn first write leaves
\* nothing that decodes).  A damaged journal refuses every write.
PersistedUnawaited(frame) ==
  journal # Damaged /\ UNCHANGED <<journal, faults>>
Persisted(frame) == journal # Damaged /\ journal' = frame /\ UNCHANGED faults
PersistFailed(frame) ==
  \/ journal = Damaged /\ UNCHANGED <<journal, faults>>
  \/ /\ JournalFaults /\ Fault
     /\ \/ journal # Damaged /\ journal' \in {journal, frame}
        \/ journal = None /\ journal' = Damaged

\* store.save: the registry changes only when it succeeds
Saved(newState) == state' = newState /\ UNCHANGED faults
SaveFailed == SaveFaults /\ Fault /\ UNCHANGED state
SetState(c, s) == [state EXCEPT ![c] = s]

\* A host operation throws, or evidence misses its deadline.
HostFailed == HostFaults /\ Fault

Wrote(newVault) ==
  /\ vault' = newVault
  /\ whole' = whole \cup
       {c \in ChangeSets : \A p \in Footprint[c] : newVault[p] = c}

-----------------------------------------------------------------------------
(* #recover: what the journal's frame and the registry's entry decide.       *)

elsewhere == <<before, registered, writeMode, proc, queues, unwritten, crashes>>
host == <<vault, whole>>

Unfinished(s) == s \in {"queued", "executing"}

MustRestore(frame, s) == frame.phase = "PREPARED" /\ Unfinished(s)

MustRecordAny(frame, s) == frame.phase # "FAILED" /\ Unfinished(s)
MustRecord(frame, s) ==
  frame.phase \in {"COMMITTED", "ROLLED_BACK"} /\ Unfinished(s)

Outcome(phase) ==
  IF phase = "COMMITTED" THEN "intent_applied" ELSE "intent_not_applied"

AlreadySettled(frame, s) ==
  \/ frame.phase = "PREPARED" /\ s \in {"intent_not_applied", "result_unproven"}
  \/ frame.phase \in {"COMMITTED", "ROLLED_BACK"} /\ s = Outcome(frame.phase)

\* any other pair of frame and entry
MustUnprove(frame, s) ==
  ~(AlreadySettled(frame, s) \/ MustRestore(frame, s) \/ MustRecord(frame, s))

RecoverNothing ==
  /\ At("recover") /\ Goto("dispatch")
  /\ \/ journal = None
     \/ journal \in Frames /\ AlreadySettled(journal, state[journal.id])
  /\ UNCHANGED <<host, journal, state, faults, gates, elsewhere>>

\* The journal refuses to be read, or the read fails.
RecoverRefused ==
  /\ At("recover") /\ Goto("throw")
  /\ \/ journal = Damaged /\ UNCHANGED faults
     \/ JournalFaults /\ Fault
  /\ UNCHANGED <<host, journal, state, gates, elsewhere>>

RecoverPrepared ==
  /\ At("recover") /\ journal \in Frames
  /\ MustRestore(journal, state[journal.id]) /\ Restore("recover", journal.id)
  /\ UNCHANGED <<host, journal, state, faults, gates, elsewhere>>

RecoverUnproven ==
  /\ At("recover") /\ journal \in Frames
  /\ MustUnprove(journal, state[journal.id])
  /\ run' = [run EXCEPT !.pc = "unprove", !.id = journal.id]
  /\ UNCHANGED <<host, journal, state, faults, gates, elsewhere>>

RecoverOutcome ==
  /\ At("recover") /\ journal \in Frames
  /\ MustRecord(journal, state[journal.id])
  /\ \/ /\ Saved(SetState(journal.id, Outcome(journal.phase)))
        /\ Goto("dispatch")
     \/ SaveFailed /\ Goto("throw")
  /\ UNCHANGED <<host, journal, gates, elsewhere>>

Recover ==
  \/ RecoverNothing \/ RecoverRefused \/ RecoverPrepared
  \/ RecoverUnproven \/ RecoverOutcome

-----------------------------------------------------------------------------
(* #restorePrepared: every path is compared before any is written.           *)

\* The before bytes need no action; the Change Set's own bytes, with the
\* identity journaled when they were staged, are to be replaced; anything else
\* is a third party's.
ComparePlan(p) ==
  /\ At("plan") /\ p \in run.left
  /\ \/ /\ vault[p] = before[run.id][p] /\ UNCHANGED faults
        /\ run' = [run EXCEPT !.left = @ \ {p}]
     \/ /\ vault[p] = run.id /\ vault[p] # before[run.id][p] /\ UNCHANGED faults
        /\ run.within = "execute" \/ journal.staged
        /\ run' = [run EXCEPT !.left = @ \ {p}, !.actions = @ \cup {p}]
     \/ /\ vault[p] # before[run.id][p] /\ UNCHANGED faults
        /\ vault[p] # run.id \/ ~(run.within = "execute" \/ journal.staged)
        /\ Goto("fail")
     \/ HostFailed /\ Goto("fail")
  /\ UNCHANGED <<host, journal, state, gates, elsewhere>>

Planned ==
  /\ At("plan") /\ run.left = {} /\ Goto("undo")
  /\ UNCHANGED <<host, journal, state, faults, gates, elsewhere>>

Undo(p) ==
  /\ At("undo") /\ p \in run.actions
  /\ \/ /\ Wrote([vault EXCEPT ![p] = before[run.id][p]])
        /\ run' = [run EXCEPT !.actions = @ \ {p}] /\ UNCHANGED faults
     \/ HostFailed /\ Goto("fail") /\ UNCHANGED host
  /\ UNCHANGED <<journal, state, gates, elsewhere>>

\* verification, then semantic evidence and the Search Snapshot
VerifyRestored ==
  /\ At("undo") /\ run.actions = {}
  /\ \/ AsPreviewed(run.id) /\ Goto("roll back") /\ UNCHANGED faults
     \/ ~AsPreviewed(run.id) /\ Goto("fail") /\ UNCHANGED faults
     \/ HostFailed /\ Goto("fail")
  /\ UNCHANGED <<host, journal, state, gates, elsewhere>>

RollBack ==
  LET frame == Frame(run.id, "ROLLED_BACK", TRUE) IN
  /\ At("roll back")
  /\ \/ Persisted(frame) /\ Goto("rolled back")
     \/ PersistFailed(frame) /\ Goto("fail")
  /\ UNCHANGED <<host, state, gates, elsewhere>>

RecordNotApplied ==
  /\ At("rolled back")
  /\ \/ Saved(SetState(run.id, "intent_not_applied")) /\ Goto(Returned)
     \/ SaveFailed /\ Goto("throw")
  /\ UNCHANGED <<host, journal, gates, elsewhere>>

\* the catch: persist FAILED, and in any case mark the result unproven
PersistFAILED ==
  LET frame == Frame(run.id, "FAILED", TRUE) IN
  /\ At("fail")
  /\ \/ Persisted(frame) /\ Goto("unprove")
     \/ PersistFailed(frame) /\ Goto("unprove and throw")
  /\ UNCHANGED <<host, state, gates, elsewhere>>

\* #markUnproven: the block is set first, the bridge's gate after the save.
MarkUnproven ==
  /\ run.pc \in {"unprove", "unprove and throw"}
  /\ blocked' = TRUE
  /\ \/ /\ Saved(SetState(run.id, "result_unproven")) /\ health' = "blocked"
        /\ Goto(IF At("unprove") THEN Returned ELSE "throw")
     \/ SaveFailed /\ Goto("throw") /\ UNCHANGED health
  /\ UNCHANGED <<host, journal, elsewhere>>

RestorePrepared ==
  \/ \E p \in Paths : ComparePlan(p) \/ Undo(p)
  \/ Planned \/ VerifyRestored \/ RollBack \/ RecordNotApplied
  \/ PersistFAILED \/ MarkUnproven

-----------------------------------------------------------------------------
(* #executeMutation.                                                         *)

\* Only the head of the queue, still in progress, executes.  Preflight under
\* the lease must find what the immutable preview binds.  What it and #prepare
\* read of the host may fail: that is before the try, so the job rejects and
\* the head stays as it was.
Preflight ==
  /\ At("preflight")
  /\ LET c == run.id IN
     \/ /\ ~HeadOf(c) /\ Goto("next") /\ UNCHANGED <<state, faults>>
     \/ /\ HeadOf(c) /\ AsPreviewed(c)
        /\ Goto("prepare") /\ UNCHANGED <<state, faults>>
     \/ /\ HeadOf(c) /\ ~AsPreviewed(c)
        /\ \/ Saved(SetState(c, "intent_not_applied")) /\ Goto("next")
           \/ SaveFailed /\ Goto("throw")
     \/ HeadOf(c) /\ HostFailed /\ Goto("throw") /\ UNCHANGED state
  /\ UNCHANGED <<host, journal, gates, elsewhere>>

\* The footprints are read afresh, then the complete PREPARED frame persists.
Prepare ==
  LET c == run.id
      frame == Frame(c, "PREPARED", FALSE) IN
  /\ At("prepare")
  /\ \/ ~AsPreviewed(c) /\ Goto("throw") /\ UNCHANGED <<journal, faults>>
     \/ /\ AsPreviewed(c)
        /\ \/ Persisted(frame) /\ Goto("begin")
           \/ PersistFailed(frame) /\ Goto("throw")
     \/ HostFailed /\ Goto("throw") /\ UNCHANGED journal
  /\ UNCHANGED <<host, state, gates, elsewhere>>

Begin ==
  /\ At("begin")
  /\ \/ Saved(SetState(run.id, "executing")) /\ Goto("stage")
     \/ SaveFailed /\ Abort
  /\ UNCHANGED <<host, journal, gates, elsewhere>>

\* Every file is staged privately; the frame persists with their identities.
Stage ==
  LET frame == Frame(run.id, "PREPARED", TRUE) IN
  /\ At("stage")
  /\ \/ /\ Persisted(frame)
        /\ run' = [run EXCEPT !.pc = "publish", !.left = Footprint[run.id],
                              !.within = "execute"]
     \/ PersistFailed(frame) /\ Abort
     \/ HostFailed /\ Abort /\ UNCHANGED journal
  /\ UNCHANGED <<host, state, gates, elsewhere>>

CompareNothing(p) ==
  /\ At("publish") /\ run.at = None /\ p \in run.left
  /\ run' = [run EXCEPT !.at = p]
  /\ UNCHANGED <<host, journal, state, faults, gates, elsewhere>>
Compare(p) ==
  /\ At("publish") /\ run.at = None /\ p \in run.left
  /\ \/ vault[p] = before[run.id][p] /\ run' = [run EXCEPT !.at = p] /\ UNCHANGED faults
     \/ vault[p] # before[run.id][p] /\ Abort /\ UNCHANGED faults
     \/ HostFailed /\ Abort
  /\ UNCHANGED <<host, journal, state, gates, elsewhere>>

\* publishFile renames the staged file over the path; a call that throws may
\* have published it.
Publish ==
  /\ At("publish") /\ run.at # None
  /\ LET published == [vault EXCEPT ![run.at] = run.id] IN
     \/ /\ Wrote(published) /\ UNCHANGED faults
        /\ run' = [run EXCEPT !.at = None, !.left = @ \ {run.at}]
     \/ HostFailed /\ Abort /\ (Wrote(published) \/ UNCHANGED host)
  /\ UNCHANGED <<journal, state, gates, elsewhere>>

VerifyNothing ==
  /\ \/ At("publish") /\ run.left = {} /\ run.at = None
     \/ At("confirm")
  /\ Goto(IF At("publish") THEN "confirm" ELSE "commit")
  /\ UNCHANGED <<host, journal, state, faults, gates, elsewhere>>

\* Raw verification, the success barrier, and the final-path check after it.
Verify ==
  /\ \/ At("publish") /\ run.left = {} /\ run.at = None
     \/ At("confirm")
  /\ \/ /\ AsPublished(run.id)
        /\ Goto(IF At("publish") THEN "confirm" ELSE "commit")
        /\ UNCHANGED faults
     \/ ~AsPublished(run.id) /\ Abort /\ UNCHANGED faults
     \/ HostFailed /\ Abort
  /\ UNCHANGED <<host, journal, state, gates, elsewhere>>

Commit ==
  LET frame == Frame(run.id, "COMMITTED", TRUE) IN
  /\ At("commit")
  /\ \/ Persisted(frame) /\ Goto("committed")
     \/ PersistFailed(frame) /\ Abort
  /\ UNCHANGED <<host, state, gates, elsewhere>>

RecordApplied ==
  /\ At("committed")
  /\ \/ Saved(SetState(run.id, "intent_applied")) /\ Goto("next")
     \/ SaveFailed /\ Goto("throw")
  /\ UNCHANGED <<host, journal, gates, elsewhere>>

ExecuteMutation ==
  \/ Preflight \/ Prepare \/ Begin \/ Stage
  \/ \E p \in Paths : Compare(p)
  \/ Publish \/ Verify \/ Commit \/ RecordApplied

-----------------------------------------------------------------------------
(* The jobs of the write lease, one at a time.                               *)

executor == <<host, journal, state, faults, gates>>

\* open() recovers before anything is served; a submit recovers before it
\* executes its own Change Set.
Open ==
  /\ proc = "down" /\ proc' = "opening"
  /\ run' = [Idle EXCEPT !.kind = "open", !.pc = "recover", !.within = "recover"]
  /\ UNCHANGED <<executor, before, registered, writeMode, queues, unwritten,
                 crashes>>

StartSubmit ==
  /\ At("idle") /\ lease # <<>> /\ Head(lease).kind = "submit"
  /\ run' = [Idle EXCEPT !.kind = "submit", !.pc = "recover",
                         !.within = "recover", !.id = Head(lease).id]
  /\ UNCHANGED <<executor, elsewhere>>

DispatchPaused ==
  /\ At("dispatch")
  /\ run' = [run EXCEPT !.within = "execute",
       !.id = IF run.kind = "submit" THEN Head(lease).id ELSE None,
       !.pc = IF blocked THEN "done"
              ELSE IF run.kind = "submit" THEN "preflight" ELSE "next",
       !.todo = IF run.kind = "open" /\ ~blocked THEN Pending ELSE {}]
  /\ UNCHANGED <<executor, elsewhere>>

\* after #recover: execute unless blocked or paused
Dispatch ==
  /\ At("dispatch")
  /\ LET go == ~blocked /\ writeMode = "none" IN
     run' = [run EXCEPT !.within = "execute",
       !.id = IF run.kind = "submit" THEN Head(lease).id ELSE None,
       !.pc = IF ~go THEN "done"
              ELSE IF run.kind = "submit" THEN "preflight" ELSE "next",
       !.todo = IF run.kind = "open" /\ go THEN Pending ELSE {}]
  /\ UNCHANGED <<executor, elsewhere>>

\* a submit executes one entry; #resumeQueue goes on until a pause
NextEntry ==
  /\ At("next")
  /\ \/ (run.todo = {} \/ writeMode # "none") /\ Goto("done")
     \/ /\ writeMode = "none"
        /\ \E c \in run.todo :
             /\ First(c, run.todo)
             /\ run' = [run EXCEPT !.pc = "preflight", !.id = c, !.todo = @ \ {c}]
  /\ UNCHANGED <<executor, elsewhere>>

\* The job rejects.  open() marks what is unfinished when #recover threw, and
\* fails when #resumeQueue did.
Reject ==
  /\ At("throw")
  /\ IF run.kind = "open" /\ run.within = "execute"
     THEN proc' = "down" /\ run' = Idle /\ blocked' = FALSE /\ health' = "clear"
     ELSE /\ UNCHANGED <<proc, health>>
          /\ Goto(IF run.kind = "open" THEN "block" ELSE "done")
          /\ blocked' = (blocked \/ run.kind = "open")
  /\ UNCHANGED <<host, journal, state, faults, before, registered,
                 writeMode, queues, unwritten, crashes>>

BlockOpen ==
  /\ At("block")
  /\ \/ /\ \E c \in ChangeSets :
             HeadOf(c) /\ Saved(SetState(c, "result_unproven"))
        /\ health' = "blocked" /\ UNCHANGED <<run, proc, blocked>>
     \/ /\ Pending # {} /\ SaveFailed
        /\ proc' = "down" /\ run' = Idle /\ blocked' = FALSE /\ health' = "clear"
     \/ /\ Pending = {} /\ Goto("done")
        /\ health' = "blocked" /\ UNCHANGED <<state, faults, proc, blocked>>
  /\ UNCHANGED <<host, journal, before, registered, writeMode, queues,
                 unwritten, crashes>>

\* The lease is released and the call answered.
Finish ==
  /\ At("done") /\ run' = Idle
  /\ proc' = "up"
  /\ lease' = IF run.kind = "open" THEN lease ELSE Tail(lease)
  /\ calls' = IF run.kind = "submit"
              THEN [calls EXCEPT ![Head(lease).id] = "idle"] ELSE calls
  /\ control' = IF run.kind = "resume" THEN Tail(control) ELSE control
  /\ UNCHANGED <<executor, before, registered, writeMode, unwritten, crashes>>

-----------------------------------------------------------------------------
(* submit(input, requestState).                                              *)

\* requestState() is evaluated before the call queues on #operationTail.
Call(c) ==
  /\ proc = "up" /\ calls[c] = "idle" /\ ~Terminal(c)
  /\ calls' = [calls EXCEPT ![c] = health]
  /\ UNCHANGED <<executor, before, registered, writeMode, proc, lease, control,
                 run, unwritten, crashes>>

Called(c) == calls[c] \in {"clear", "blocked"}
Answered(c) == calls' = [calls EXCEPT ![c] = "idle"] /\ UNCHANGED lease
Enqueued(c) ==
  calls' = [calls EXCEPT ![c] = "waiting"] /\ lease' = Append(lease, Job("submit", c))

\* recovery_blocked takes precedence over the admission gate
SelectOperationalGate(c) ==
  IF calls[c] = "blocked" THEN "recovery_blocked"
  ELSE IF writeMode \in {"maintenance_pending", "maintenance_failed"}
  THEN "upgrade_in_progress"
  ELSE IF writeMode # "none" THEN "writes_paused" ELSE "none"

\* #submitUnlocked for a key the registry does not hold
Admitted(c, s) ==
  /\ Saved(SetState(c, s))
  /\ enqueueSeq' = [enqueueSeq EXCEPT ![c] = nextEnqueueSeq]
  /\ nextEnqueueSeq' = nextEnqueueSeq + 1
  /\ before' = [before EXCEPT ![c] =
       [p \in Paths |-> IF p \in Footprint[c] THEN vault[p] ELSE None]]

Submit(c) ==
  /\ Called(c) /\ state[c] = "none"
  /\ LET gate == SelectOperationalGate(c) IN
     \/ /\ gate \in {"writes_paused", "upgrade_in_progress"}
        /\ Answered(c) /\ UNCHANGED <<state, faults, before, registered>>
     \/ /\ gate = "recovery_blocked"
        /\ Admitted(c, "intent_not_applied") /\ Answered(c)
     \/ /\ gate = "none"      \* preflight accepts the request, or refuses it
        /\ \/ Admitted(c, "queued") /\ Enqueued(c)
           \/ Admitted(c, "intent_not_applied") /\ Answered(c)
     \/ /\ gate \in {"none", "recovery_blocked"}
        /\ SaveFailed /\ Answered(c) /\ UNCHANGED <<before, registered>>
     \/ /\ gate = "none"      \* or cannot read the vault, and the call rejects
        /\ HostFailed /\ Answered(c) /\ UNCHANGED <<state, before, registered>>
  /\ UNCHANGED <<host, journal, gates, writeMode, proc, control, run,
                 unwritten, crashes>>

\* the same key again: the binding is replayed, and driven if unfinished
Resubmit(c) ==
  /\ Called(c) /\ state[c] # "none"
  /\ IF InProgress(c) THEN Enqueued(c) ELSE Answered(c)
  /\ UNCHANGED <<executor, before, registered, writeMode, proc, control, run,
                 unwritten, crashes>>

-----------------------------------------------------------------------------
(* pause(), runMaintenance() and resume() hold the control lease throughout. *)

RequestControl(kind) ==
  /\ proc = "up" /\ Len(control) < MaxControl
  /\ control' = Append(control, [kind |-> kind, leased |-> FALSE])
  /\ UNCHANGED <<executor, before, registered, writeMode, proc, calls, lease,
                 run, unwritten, crashes>>

HoldsControl(kind) ==
  control # <<>> /\ Head(control).kind = kind /\ ~Head(control).leased

Leased(kind) ==
  /\ lease' = Append(lease, Job(kind, None))
  /\ control' = [control EXCEPT ![1].leased = TRUE]


Pause ==
  /\ HoldsControl("pause")
  /\ IF writeMode \in {"maintenance_pending", "maintenance_failed", "maintenance_paused"}
     THEN control' = Tail(control) /\ UNCHANGED <<writeMode, lease>>
     ELSE writeMode' = "manual_paused" /\ Leased("pause")
  /\ UNCHANGED <<executor, before, registered, proc, calls, run, unwritten,
                 crashes>>

RunMaintenance ==
  /\ HoldsControl("maintenance")
  /\ writeMode' = "maintenance_pending" /\ Leased("maintenance")
  /\ UNCHANGED <<executor, before, registered, proc, calls, run, unwritten,
                 crashes>>

Resume ==
  /\ HoldsControl("resume") /\ Leased("resume")
  /\ UNCHANGED <<executor, before, registered, writeMode, proc, calls, run,
                 unwritten, crashes>>

\* the call that holds the control lease has come to hold the write lease
Holds(kind) ==
  /\ At("idle") /\ lease # <<>> /\ Head(lease).kind = kind
  /\ control # <<>> /\ Head(control).leased

\* pause() has drained what held the lease before it
PauseCompleted ==
  /\ Holds("pause")
  /\ lease' = Tail(lease) /\ control' = Tail(control)
  /\ UNCHANGED <<executor, before, registered, writeMode, proc, calls, run,
                 unwritten, crashes>>

\* migrate() succeeds or fails; saving that outcome may fail too
MaintenanceCompleted ==
  /\ Holds("maintenance")
  /\ lease' = Tail(lease) /\ control' = Tail(control)
  /\ \/ /\ writeMode' \in {"maintenance_paused", "maintenance_failed"}
        /\ UNCHANGED faults
     \/ SaveFaults /\ Fault /\ UNCHANGED writeMode
  /\ UNCHANGED <<host, journal, state, gates, before, registered, proc,
                 calls, run, unwritten, crashes>>

\* resume() under the lease: safe, not in an upgrade, saved, then #resumeQueue
ResumeUnderLease ==
  /\ Holds("resume")
  /\ \/ /\ health = "clear"
        /\ writeMode \notin {"maintenance_pending", "maintenance_failed"}
        /\ writeMode' = "none" /\ UNCHANGED <<faults, lease, control>>
        /\ run' = [Idle EXCEPT !.kind = "resume",
                     !.pc = IF blocked THEN "done" ELSE "next",
                     !.todo = IF blocked THEN {} ELSE Pending]
     \/ /\ \/ /\ \/ health = "blocked"
                 \/ writeMode \in {"maintenance_pending", "maintenance_failed"}
              /\ UNCHANGED faults
           \/ SaveFaults /\ Fault
        /\ lease' = Tail(lease) /\ control' = Tail(control)
        /\ UNCHANGED <<writeMode, run>>
  /\ UNCHANGED <<host, journal, state, gates, before, registered, proc,
                 calls, unwritten, crashes>>

Control ==
  \/ Pause \/ RunMaintenance \/ Resume
  \/ PauseCompleted \/ MaintenanceCompleted \/ ResumeUnderLease

-----------------------------------------------------------------------------
(* The environment.                                                          *)

\* Paths that were compared and whose guarded write is still to come.
Compared ==
  CASE At("prepare")  -> Footprint[run.id]
    [] At("publish")  -> {run.at} \ {None}
    [] At("plan")     -> Footprint[run.id] \ run.left
    [] At("undo")     -> run.actions
    [] OTHER -> {}

ThirdPartyWrite(p, v) ==
  /\ v \in unwritten /\ (p \notin Compared \/ Races)
  /\ Wrote([vault EXCEPT ![p] = v]) /\ unwritten' = unwritten \ {v}
  /\ UNCHANGED <<journal, state, faults, gates, before, registered,
                 writeMode, proc, queues, run, crashes>>

\* The process dies.  During the journal's first write it may leave a file
\* that no longer decodes (FrameRegister!Damage).
Crash ==
  /\ proc # "down" /\ crashes < MaxCrashes
  /\ crashes' = crashes + 1 /\ proc' = "down"
  /\ blocked' = FALSE /\ health' = "clear" /\ run' = Idle
  /\ calls' = [c \in ChangeSets |-> "idle"] /\ lease' = <<>> /\ control' = <<>>
  /\ \/ UNCHANGED journal
     \/ At("prepare") /\ journal = None /\ journal' = Damaged
  /\ UNCHANGED <<host, state, before, registered, writeMode, faults,
                 unwritten>>

Execute ==
  \/ Recover \/ RestorePrepared \/ ExecuteMutation
  \/ StartSubmit \/ Dispatch \/ NextEntry \/ Reject \/ BlockOpen \/ Finish

Next ==
  \/ Open \/ Execute \/ Control \/ Crash
  \/ \E c \in ChangeSets : Call(c) \/ Submit(c) \/ Resubmit(c)
  \/ \E kind \in ControlKinds : RequestControl(kind)
  \/ \E v \in ThirdParty, p \in Paths : ThirdPartyWrite(p, v)

\* Promises settle: the running job and the control calls always go on.
Fairness == WF_vars(Execute) /\ WF_vars(Control)

Spec == Init /\ [][Next]_vars
FairSpec == Spec /\ Fairness

-----------------------------------------------------------------------------
\* An applied Change Set was at some instant wholly in the vault: publishing
\* path by path, verifying after the last and before COMMITTED, and recovery
\* from any point never report a mixture (#executeMutation, #recover).
AppliedWasWhole ==
  \A c \in ChangeSets : state[c] = "intent_applied" => c \in whole

\* intent_not_applied is reported only when no partial effect remains.
NotAppliedLeavesNothing ==
  \A c \in ChangeSets : state[c] = "intent_not_applied" =>
    \A p \in Paths : vault[p] # c

\* Effects of an unfinished Change Set are covered by the journal: its frame is
\* the newest one, so recovery finds it (PREPARED before the first mutation,
\* one Change Set at a time, and no new frame before the last is resolved).
NoOrphanEffects ==
  \A c \in ChangeSets : InProgress(c) /\ (\E p \in Paths : vault[p] = c) =>
    journal \in Frames /\ journal.id = c

\* While a result is unproven a bridge at rest blocks writes, in the service
\* and in the health it publishes, after a restart as before it; unless
\* #resumeQueue, which goes on behind it, journaled a later Change Set over the
\* evidence, which is all that a restart finds.
UnprovenBlocks ==
  proc = "up" /\ At("idle") =>
    \A c \in ChangeSets : state[c] = "result_unproven" =>
      \/ blocked /\ health = "blocked"
      \/ journal \in Frames /\ enqueueSeq[c] < enqueueSeq[journal.id]

\* The Bridge never overwrites bytes a third party wrote, unless they are the
\* ones its preview bound (publishing them away, or restoring them).
SparesThirdParties ==
  \A p \in Paths : vault[p] \in ThirdParty /\ vault'[p] \in ChangeSets =>
    before[vault'[p]][p] = vault[p]

\* Change Sets are applied in the order in which they were registered.
CommitInOrder ==
  [][\A c \in ChangeSets :
       (state[c] # "intent_applied" /\ state'[c] = "intent_applied") =>
         \A d \in Pending : enqueueSeq[c] <= enqueueSeq[d]]_vars

\* Once pause() has returned, no Change Set executes until resume().
PausedIsDrained ==
  (writeMode # "none" /\ proc = "up" /\ \A i \in DOMAIN control : ~control[i].leased)
    => run.pc \notin {"preflight", "prepare", "begin", "stage", "publish",
                      "confirm", "commit"}

\* A manual pause drains the current item: #resumeQueue takes no other from
\* the queue while a pause() call waits.
PauseStopsQueue ==
  [][(\E i \in DOMAIN control : control[i].kind = "pause") =>
       ~(At("next") /\ run'.pc = "preflight")]_vars

\* With an unproven result, no further Change Set is journaled for execution.
UnprovenStopsQueue ==
  [][(\E c \in ChangeSets : state[c] = "result_unproven") =>
       ~(At("prepare") /\ journal' # journal)]_vars

Drained(c) == ~InProgress(c) \/ blocked \/ writeMode # "none" \/ proc = "down"

\* A job rejects before it journaled the head, which it leaves undecided.
Stalled == At("throw") /\ run.within = "execute" /\ HeadOf(run.id)

\* A job is on its way to a Change Set and everything before it.
Driven(c) ==
  /\ InProgress(c)
  /\ \/ run.kind \in {"open", "resume"} /\ run.pc \in {"next", "preflight"}
        /\ {d \in Pending : enqueueSeq[d] <= enqueueSeq[c]} \subseteq run.todo \cup {run.id}
     \/ HeadOf(c) /\ \E i \in DOMAIN lease :
          lease[i] = Job("submit", c) /\ (i = 1 => run.kind \in {"idle", "open"})

\* Unless it is paused, blocked or killed, the service decides every Change
\* Set it accepted, and the client need not call again; but for a job that
\* rejects before it journaled the head. Nothing drives the head then, nor what
\* is behind it, until its key is submitted again, resume() or a restart; each
\* of these decides it, unless its job rejects too.
QueueDrains ==
  /\ []~Stalled => \A c \in ChangeSets : InProgress(c) ~> Drained(c)
  /\ \A c \in ChangeSets : Driven(c) ~> (Drained(c) \/ Stalled)

\* pause(), runMaintenance() and resume() return, unless the process dies: the
\* two leases, one taken under the other, never wait for each other.
ControlReturns ==
  (Len(control) = MaxControl) ~> (Len(control) < MaxControl \/ proc = "down")

\* The service goes on: accepted work is decided and control calls return.
Progress == QueueDrains /\ ControlReturns

\* What a client sees of unfinished work: COMMITTED decides a Change Set before
\* the registry records it, and anything less is taken back.
Fate(c) ==
  IF ~InProgress(c) THEN state[c]
  ELSE IF journal \notin Frames THEN "pending"
  ELSE IF journal.id # c \/ journal.phase = "PREPARED" THEN "pending"
  ELSE CASE journal.phase = "COMMITTED"   -> "intent_applied"
         [] journal.phase = "ROLLED_BACK" -> "intent_not_applied"
         [] journal.phase = "FAILED"      -> "result_unproven"

Content(p) ==
  IF vault[p] \in ChangeSets
  THEN IF Fate(vault[p]) = "pending" THEN before[vault[p]][p] ELSE vault[p]
  ELSE vault[p]

Atomic == INSTANCE AtomicChangeSets WITH
  content <- [p \in Paths |-> Content(p)],
  fate <- [c \in ChangeSets |-> Fate(c)]
=============================================================================
