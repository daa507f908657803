-------------------------- MODULE MutationExecution --------------------------
(***************************************************************************)
(* One Change Set on the disk (packages/obsidian-plugin/src/change-set.ts: *)
(* preflight, #executeMutation, #executeMove, #restorePrepared, #recover;  *)
(* file-system-change-set-execution.ts: the host and the evidence).        *)
(* ChangeSetService knows an execution as a set of paths that are          *)
(* rewritten; here it is every host operation of every kind of request,    *)
(* with a crash, an error or somebody else's write between any two, and    *)
(* the restore that is planned from what is then found on the disk.        *)
(***************************************************************************)
EXTENDS Naturals, FiniteSets, SequencesExt, TLC

CONSTANTS
  Notes, Attachments, Directories,
  Above,        \* the directories above a path
  Bytes,        \* what files hold
  Start,        \* what is at each path when the request comes
  Requests,     \* sequences of operations
  Theirs,       \* the bytes that somebody else writes
  Absent, Dir, None,
  MaxCrashes, MaxFaults, MaxWrites   \* bounds: crashes, errors, writes of others

Files == Notes \cup Attachments
Paths == Files \cup Directories
Mutations == {"copy", "move-attachment", "trash"}
Kinds == Mutations \cup {"mkdir", "create", "edit", "move"}

\* source: the path whose bytes the request names (from); target: the path it
\* makes; to: what an edit or the target holds afterwards; rewrites: the notes
\* whose references a move rewrites, with what they hold before and after.
Operation(kind, source, target, from, to, rewrites) ==
  [kind |-> kind, source |-> source, target |-> target, from |-> from, to |-> to,
   rewrites |-> rewrites]
Known == Bytes \ {Theirs}
\* The identity of what is at a path: how it was made, and from what.
Nodes == {"start", "staged", "restored", "other"} \X (Paths \cup Nat)
WellFormed(op) ==
  /\ CASE op.kind = "mkdir" -> op.source = None /\ op.target \in Directories /\ op.to = Dir
       [] op.kind = "create" -> op.source = None /\ op.target \in Notes /\ op.to \in Known
       [] op.kind = "edit" -> op.source \in Notes /\ op.target = None /\ {op.from, op.to} \subseteq Known
       [] op.kind = "trash" -> op.source \in Files /\ op.target = None /\ op.from \in Known
       [] op.kind = "move" -> {op.source, op.target} \subseteq Notes /\ {op.from, op.to} \subseteq Known
       [] OTHER -> {op.source, op.target} \subseteq Attachments /\ op.from \in Known /\ op.to = op.from
  /\ DOMAIN op.rewrites \subseteq (IF op.kind = "move" THEN Notes ELSE {})
  /\ \A p \in DOMAIN op.rewrites : {op.rewrites[p].from, op.rewrites[p].to} \subseteq Known

ASSUME PathsAssumption ==
  /\ IsFiniteSet(Paths) /\ None \notin Paths
  /\ Notes \cap Attachments = {} /\ Files \cap Directories = {}
  /\ Above \in [Paths -> SUBSET Directories]
\* Directories are trees, and what exists is in directories that exist.
ASSUME TreeAssumption ==
  \A p \in Paths : \A d \in Above[p] :
    /\ Above[d] \subseteq Above[p] \ {d}
    /\ Start[p] # Absent => Start[d] = Dir
ASSUME BytesAssumption ==
  /\ Theirs \in Bytes /\ {Absent, Dir, None} \cap Bytes = {} /\ Absent # Dir
  /\ None \notin {Absent, Dir} \cup Nodes
  /\ Start \in [Paths -> Bytes \cup {Absent, Dir}]
ASSUME RequestsAssumption ==
  \A q \in Requests : q \in Seq(Range(q)) /\ \A i \in DOMAIN q :
    /\ q[i].kind \in Kinds /\ WellFormed(q[i]) /\ i \notin Paths
    /\ q[i].kind = "move" => Len(q) = 1
ASSUME BoundsAssumption == {MaxCrashes, MaxFaults, MaxWrites} \subseteq Nat

VARIABLES
  request,   \* (rigid)
  disk,      \* at each path: what is there, and the node that it is
  stage,     \* the staging directory, by the path or the operation of a stage
  back,      \* the rollback stages below it
  trash,     \* the managed trash, by operation
  journal,   \* the durable frame: its phase, and the paths of known identity
  entry,     \* the registry: the proof state and the immutable preview
  pc, todo,  \* the executor: where it is, the host operations ahead of it
  known,     \* the identities in its own copy of the frame
  opening,   \* it is still inside the try of open
  touched,   \* history: paths that somebody else wrote
  late,      \* history: somebody wrote after the restore was planned
  faults,    \* history: where errors occurred
  crashes, writes

private == <<stage, back, trash>>
vault == <<disk, private>>
executor == <<pc, todo, known, opening>>
history == <<touched, late, faults, crashes, writes>>
vars == <<request, vault, journal, entry, executor, history>>

At(is, node) == [is |-> is, node |-> node]
Nowhere == At(Absent, None)
Operations == 1..Len(request)
Stages == Paths \cup Operations
Places == [is : Bytes \cup {Absent, Dir}, node : {None} \cup Nodes]

TypeOK ==
  /\ request \in Requests
  /\ disk \in [Paths -> Places] /\ trash \in [Operations -> Places]
  /\ stage \in [Stages -> Bytes \cup {Dir, None}] /\ back \in [Stages -> Bytes \cup {None}]
  /\ journal \in [phase : {"none", "PREPARED", "COMMITTED", "ROLLED_BACK", "FAILED"},
                 known : SUBSET Paths]
  /\ known \cup touched \subseteq Paths
  /\ entry.state \in {"none", "in_progress", "applied", "not_applied", "unproven"}
  /\ pc \in {"submit", "queued", "capture", "prepare", "run", "evidence", "confirm", "commit",
             "record", "plan", "undo", "settle", "roll-back", "rolled-back", "fail", "unprove",
             "stalled", "down", "done"}
  /\ pc \notin {"prepare", "run", "undo"} => todo = <<>>
  /\ {opening, late} \subseteq BOOLEAN
  /\ faults \in Seq({"before", "doing", "undoing", "commit"}) /\ Len(faults) <= MaxFaults
  /\ crashes \in 0..MaxCrashes /\ writes \in 0..MaxWrites

Init ==
  /\ request \in Requests
  /\ disk = [p \in Paths |-> IF Start[p] = Absent THEN Nowhere ELSE At(Start[p], <<"start", p>>)]
  /\ stage = [k \in Stages |-> None] /\ back = [k \in Stages |-> None]
  /\ trash = [i \in Operations |-> Nowhere]
  /\ journal = [phase |-> "none", known |-> {}]
  /\ entry = [state |-> "none", preview |-> None]
  /\ pc = "submit" /\ todo = <<>> /\ known = {} /\ opening = FALSE
  /\ touched = {} /\ late = FALSE /\ faults = <<>> /\ crashes = 0 /\ writes = 0

-----------------------------------------------------------------------------
(* preflight: the request is projected, operation by operation.            *)

Blank == [accepted |-> TRUE, pre |-> <<>>, final |-> <<>>]
Current(view, p) == IF p \in DOMAIN view.final THEN view.final[p] ELSE disk[p].is
\* The pre-state of a path is the one that its first operation finds.
ProjectPaths(view, after) ==
  LET Q == DOMAIN view.final \cup DOMAIN after
  IN [accepted |-> TRUE,
      pre |-> [p \in Q |-> IF p \in DOMAIN view.pre THEN view.pre[p] ELSE Current(view, p)],
      final |-> [p \in Q |-> IF p \in DOMAIN after THEN after[p] ELSE view.final[p]]]

\* Directories above a target are made; the ones above a source must be there.
MissingAbove(view, p) == {d \in (IF p = None THEN {} ELSE Above[p]) : Current(view, d) = Absent}
Accepts(view, op) ==
  /\ MissingAbove(view, op.source) \subseteq MissingAbove(view, op.target)
  /\ op.source # None => Current(view, op.source) = op.from
  /\ op.target # None => Current(view, op.target) = Absent
  /\ \A p \in DOMAIN op.rewrites : Current(view, p) = op.rewrites[p].from

SourceAfter(op) ==
  CASE op.kind = "edit" -> op.to
    [] op.kind = "copy" -> op.from
    [] OTHER -> Absent
After(view, op) ==
  [p \in MissingAbove(view, op.target) \cup DOMAIN op.rewrites \cup ({op.source, op.target} \ {None}) |->
     CASE p = op.target -> op.to
       [] p = op.source -> SourceAfter(op)
       [] p \in DOMAIN op.rewrites \ {op.source, op.target} -> op.rewrites[p].to
       [] OTHER -> Dir]
ProjectOperation(view, op) == ProjectPaths(view, After(view, op))

Projected(view, op) ==
  IF view.accepted /\ Accepts(view, op) THEN ProjectOperation(view, op)
  ELSE [Blank EXCEPT !.accepted = FALSE]
Preflight ==
  LET View[i \in 0..Len(request)] == IF i = 0 THEN Blank ELSE Projected(View[i - 1], request[i])
  IN View[Len(request)]

-----------------------------------------------------------------------------
(* What the frame says of every path of the preview.                       *)

pre == entry.preview.pre
final == entry.preview.final
NewDirectories == {d \in DOMAIN final \cap Directories : pre[d] = Absent}
FilePaths == DOMAIN final \cap Files

IsMove == Len(request) = 1 /\ request[1].kind = "move"
move == request[1]
SelfReferring == IsMove /\ move.from # move.to

\* Markdown is staged when its bytes change, or change on the way; what a move
\* renames is not.
Changes(op, p) == op.kind \in {"create", "edit", "trash"} /\ p \in {op.source, op.target}
                  /\ op.from # op.to
Staged ==
  {p \in FilePaths \cap Notes :
     /\ final[p] # Absent
     /\ pre[p] # final[p] \/ \E i \in Operations : Changes(request[i], p)}
  \ (IF IsMove THEN {move.source, move.target} ELSE {})

MutationIndexes == {i \in Operations : request[i].kind \in Mutations}
\* Each mutation is built on what the mutations before it leave.
Built(states, op) ==
  IF states = None \/ op.kind \notin Mutations THEN states
  ELSE IF states[op.source] # op.from THEN None
  ELSE [p \in DOMAIN states |-> CASE p = op.source -> SourceAfter(op)
                                  [] p = op.target -> op.to
                                  [] OTHER -> states[p]]
BuiltBy(ops, states) == FoldLeft(Built, states, ops)
Buildable == BuiltBy(request, [p \in FilePaths |-> pre[p]]) # None

Each(s, Steps(_)) == FlattenSeq([i \in 1..Len(s) |-> Steps(s[i])])
AtDepth(S, n) == SetToSeq({d \in S : Cardinality(Above[d]) = n})
ByDepth(S) == FlattenSeq([n \in 1..Cardinality(Directories) + 1 |-> AtDepth(S, n - 1)])
InOrder == [i \in Operations |-> i]
When(condition, steps) == IF condition THEN steps ELSE <<>>

-----------------------------------------------------------------------------
(* The host operations of an execution, in their order.                    *)

StageFile(p) == << <<"prepare", p, final[p]>> >>
MakeDirectory(d) == << <<"compare", d, Nowhere>>, <<"prepare-directory", d>>,
                       <<"journal", {d}>>, <<"publish-directory", d>> >>
Rename(k, p) == << <<"compare", p, disk[p]>>, <<"publish", k, p>> >>
PublishStaged(p) == Rename(p, p)
MoveFile(s, t) == << <<"link", s, t>>, <<"unlink", s>> >>
MoveToTrash(p, i) == << <<"hide", p, i>>, <<"unlink", p>> >>
Mutate(i) ==
  LET op == request[i] IN
  CASE op.kind = "copy" -> << <<"prepare", i, op.from>>, <<"publish", i, op.target>> >>
    [] op.kind = "move-attachment" -> MoveFile(op.source, op.target)
    [] op.kind = "trash" -> MoveToTrash(op.source, i)
    [] OTHER -> <<>>
RenameNote ==
  When(SelfReferring, Rename(1, move.source))
  \o << <<"compare", move.target, Nowhere>> >> \o MoveFile(move.source, move.target)

\* Identities are durable before what they identify can be seen.
Execution ==
  << <<"save">> >> \o Each(SetToSeq(Staged), StageFile)
  \o When(Staged # {}, << <<"journal", Staged>> >>)
  \o When(SelfReferring, << <<"discard", 1>>, <<"prepare", 1, move.to>> >>)
  \o Each(ByDepth(NewDirectories), MakeDirectory)
  \o Each(SetToSeq(Staged), PublishStaged)
  \o Each(InOrder, Mutate) \o When(IsMove, RenameNote)

-----------------------------------------------------------------------------
(* The restore: planned from what is found, nothing is guessed. A plan is  *)
(* a sequence of host operations, and fails where a third party was.       *)

Refused == << <<"refuse">> >>
Is(p, value) == disk[p].is = value

UndoCopy(op, i) ==
  IF Is(op.target, op.from) \/ Is(op.target, Absent)
  THEN << <<"undo-copy", op.target, op.from>>, <<"discard", i>> >> ELSE Refused

UndoMoveAttachment(op) ==
  CASE Is(op.source, op.from) /\ Is(op.target, Absent) -> <<>>
    [] Is(op.source, Absent) /\ Is(op.target, op.from) -> MoveFile(op.target, op.source)
    [] Is(op.source, op.from) /\ Is(op.target, op.from) -> << <<"unlink", op.target>> >>
    [] OTHER -> Refused

KeepsTheCopy(op, i) ==
  CASE Is(op.source, Absent) /\ trash[i].is = op.from -> << <<"unhide", op.source, i>> >>
    [] Is(op.source, op.from) /\ trash[i].is = op.from -> << <<"drop", i>> >>
    [] Is(op.source, op.from) /\ trash[i] = Nowhere -> <<>>
    [] OTHER -> Refused

UndoTrash(op, i) ==
  CASE Is(op.source, Absent) /\ trash[i].is = op.from -> << <<"unhide", op.source, i>>, <<"drop", i>> >>
    [] Is(op.source, op.from) /\ trash[i].is = op.from -> << <<"drop", i>> >>
    [] Is(op.source, op.from) /\ trash[i] = Nowhere -> <<>>
    [] OTHER -> Refused

Undo(i) ==
  LET op == request[i] IN
  CASE op.kind = "copy" -> UndoCopy(op, i)
    [] op.kind = "move-attachment" -> UndoMoveAttachment(op)
    [] op.kind = "trash" -> UndoTrash(op, i)
    [] OTHER -> <<>>

PutBack(k, p, bytes) == << <<"prepare-back", k, bytes>>, <<"publish-back", k, p>> >>

\* The source may hold what the destination will, when the note refers to itself.
UndoRename ==
  LET there == Is(move.source, move.from) \/ Is(move.source, move.to)
      content == << <<"discard", 1>> >>
                 \o When(~Is(move.source, move.from) /\ SelfReferring,
                         PutBack(1, move.source, move.from))
  IN CASE Is(move.target, Absent) /\ there -> content
       [] Is(move.target, move.to) /\ Is(move.source, Absent) ->
            MoveFile(move.target, move.source) \o content
       [] Is(move.target, move.to) /\ there -> << <<"unlink", move.target>> >> \o content
       [] OTHER -> Refused

AnyBytes(p) ==
  CASE Is(p, pre[p]) -> << <<"discard", p>> >>
    [] p \in known -> IF pre[p] = Absent THEN << <<"unlink", p>> >> ELSE PutBack(p, p, pre[p])
    [] OTHER -> Refused

RestoreFile(p) ==
  CASE Is(p, pre[p]) -> << <<"discard", p>> >>
    [] ~Is(p, pre[p]) /\ p \in known /\ disk[p] = At(final[p], <<"staged", p>>) ->
         IF pre[p] = Absent THEN << <<"unlink", p>> >> ELSE PutBack(p, p, pre[p])
    [] OTHER -> Refused

RestoreDirectory(d) ==
  CASE Is(d, Absent) -> << <<"discard", d>> >>
    [] d \in known /\ disk[d] = At(Dir, <<"staged", d>>) -> << <<"remove-directory", d>> >>
    [] OTHER -> Refused

Restore ==
  Each(Reverse(InOrder), Undo) \o When(IsMove, UndoRename)
  \o Each(Reverse(SetToSeq(Staged)), RestoreFile)
  \o Each(Reverse(ByDepth(NewDirectories)), RestoreDirectory)
Restorable(plan) == <<"refuse">> \notin Range(plan)

-----------------------------------------------------------------------------
(* Steps of the executor. An error sends an execution to its restore and a *)
(* restore to its failure.                                                 *)

Fault(kind) == Len(faults) < MaxFaults /\ faults' = Append(faults, kind)
Works == UNCHANGED faults
Goto(l) == pc' = l /\ todo' = <<>>
elsewhere == <<request, touched, late, crashes, writes>>

Doing(step) == pc \in {"run", "undo"} /\ todo # <<>> /\ Head(todo)[1] = step
Throws == Goto(IF pc = "run" THEN "plan" ELSE "fail")
FaultHere == Fault(IF pc = "run" THEN "doing" ELSE "undoing")
\* An operation has its effect when it can, and may report an error even so.
Done(possible) ==
  /\ possible
  /\ \/ Works /\ todo' = Tail(todo) /\ UNCHANGED pc
     \/ FaultHere /\ Throws
NotDone(possible) == (IF possible THEN FaultHere ELSE Works) /\ Throws

Host(step) == Doing(step) /\ UNCHANGED <<elsewhere, journal, entry, known, opening>>
args == Head(todo)
Housed(p) == \A d \in Above[p] : disk[d].is = Dir
IsFile(p) == disk[p].is \in Bytes
Empty(d) == \A p \in Paths : d \in Above[p] => Is(p, Absent)
Puts(p, what) == disk' = [disk EXCEPT ![p] = what]
SameDisk == UNCHANGED disk

\* The node of a stage is new; what is left of an old stage makes it fail ("wx").
PrepareFile ==
  /\ Host("prepare") /\ LET ok == stage[args[2]] = None IN
     \/ Done(ok) /\ stage' = [stage EXCEPT ![args[2]] = args[3]]
     \/ NotDone(ok) /\ UNCHANGED stage
  /\ SameDisk /\ UNCHANGED <<back, trash>>

\* A rename, over whatever is there.
PublishFile ==
  /\ Host("publish") /\ LET ok == stage[args[2]] \in Bytes /\ Housed(args[3]) /\ disk[args[3]].is # Dir IN
     \/ Done(ok) /\ Puts(args[3], At(stage[args[2]], <<"staged", args[2]>>))
                 /\ stage' = [stage EXCEPT ![args[2]] = None]
     \/ NotDone(ok) /\ SameDisk /\ UNCHANGED stage
  /\ UNCHANGED <<back, trash>>

NotRecursive ==
  /\ Host("discard") /\ LET ok == args[2] \notin Directories => stage[args[2]] # Dir IN
     \/ Done(ok) /\ stage' = [stage EXCEPT ![args[2]] = None] /\ UNCHANGED back
     \/ NotDone(ok) /\ UNCHANGED <<stage, back>>
  /\ SameDisk /\ UNCHANGED trash

\* Of a stage, of a directory's stage, or of what a rollback left at its place.
DiscardPrepared ==
  /\ Host("discard")
  /\ \/ Done(TRUE) /\ stage' = [stage EXCEPT ![args[2]] = None] /\ back' = [back EXCEPT ![args[2]] = None]
     \/ NotDone(TRUE) /\ UNCHANGED <<stage, back>>
  /\ SameDisk /\ UNCHANGED trash

\* The rollback stage is made anew, in a directory at the place of the stage.
PrepareBack ==
  /\ Host("prepare-back") /\ LET ok == stage[args[2]] \in {None, Dir} IN
     \/ Done(ok) /\ stage' = [stage EXCEPT ![args[2]] = Dir] /\ back' = [back EXCEPT ![args[2]] = args[3]]
     \/ NotDone(ok) /\ UNCHANGED <<stage, back>>
  /\ SameDisk /\ UNCHANGED trash

PublishBack ==
  /\ Host("publish-back") /\ LET ok == back[args[2]] \in Bytes /\ Housed(args[3]) /\ disk[args[3]].is # Dir IN
     \/ Done(ok) /\ Puts(args[3], At(back[args[2]], <<"restored", args[2]>>))
                 /\ back' = [back EXCEPT ![args[2]] = None]
     \/ NotDone(ok) /\ SameDisk /\ UNCHANGED back
  /\ UNCHANGED <<stage, trash>>

\* moveFile is a link and an unlink: both names may remain.
LinkFile ==
  /\ Host("link") /\ LET ok == IsFile(args[2]) /\ disk[args[3]].is = Absent /\ Housed(args[3]) IN
     \/ Done(ok) /\ Puts(args[3], disk[args[2]])
     \/ NotDone(ok) /\ SameDisk
  /\ UNCHANGED private

RemoveFile ==
  /\ Host("unlink")
  /\ \/ Done(IsFile(args[2])) /\ Puts(args[2], Nowhere)
     \/ NotDone(IsFile(args[2])) /\ SameDisk
  /\ UNCHANGED private

\* moveToTrash: a second name for the file, before the first is removed.
HideInTrash ==
  /\ Host("hide") /\ LET ok == IsFile(args[2]) /\ trash[args[3]] = Nowhere IN
     \/ Done(ok) /\ trash' = [trash EXCEPT ![args[3]] = disk[args[2]]]
     \/ NotDone(ok) /\ UNCHANGED trash
  /\ SameDisk /\ UNCHANGED <<stage, back>>

\* restoreFromTrash: created anew from the hidden bytes, before they are dropped.
RestoreFromTrash ==
  /\ Host("unhide")
  /\ LET ok == trash[args[3]] # Nowhere /\ Is(args[2], Absent) /\ Housed(args[2]) IN
     \/ Done(ok) /\ Puts(args[2], At(trash[args[3]].is, <<"restored", args[2]>>))
     \/ NotDone(ok) /\ SameDisk
  /\ UNCHANGED private

DiscardTrash ==
  /\ Host("drop")
  /\ \/ Done(TRUE) /\ trash' = [trash EXCEPT ![args[2]] = Nowhere]
     \/ NotDone(TRUE) /\ UNCHANGED trash
  /\ SameDisk /\ UNCHANGED <<stage, back>>

\* The bytes are compared once more, right before the copy is removed.
RemoveCopy ==
  /\ Host("undo-copy") /\ LET ok == disk[args[2]].is \in {args[3], Absent} IN
     \/ Done(ok) /\ Puts(args[2], Nowhere)
     \/ NotDone(ok) /\ SameDisk
  /\ UNCHANGED private

\* A rename, over an empty directory too.
PublishDirectory ==
  /\ Host("publish-directory")
  /\ LET ok == Empty(args[2]) /\ disk[args[2]].is \in {Absent, Dir} /\ Housed(args[2]) IN
     \/ Done(ok) /\ Puts(args[2], At(Dir, <<"staged", args[2]>>)) /\ stage' = [stage EXCEPT ![args[2]] = None]
     \/ NotDone(ok) /\ SameDisk /\ UNCHANGED stage
  /\ UNCHANGED <<back, trash>>

RemoveDirectory ==
  /\ Host("remove-directory") /\ LET ok == Is(args[2], Dir) /\ Empty(args[2]) IN
     \/ Done(ok) /\ Puts(args[2], Nowhere)
     \/ NotDone(ok) /\ SameDisk
  /\ UNCHANGED private

\* The reads before a publication: the bytes and the node of the captured file.
Compare ==
  /\ Host("compare")
  /\ Done(disk[args[2]] = args[3]) \/ NotDone(disk[args[2]] = args[3])
  /\ UNCHANGED vault

PrepareDirectory ==
  /\ Host("prepare-directory")
  /\ \/ Done(TRUE) /\ stage' = [stage EXCEPT ![args[2]] = Dir]
     \/ NotDone(TRUE) /\ UNCHANGED stage
  /\ SameDisk /\ UNCHANGED <<back, trash>>

\* What was staged is identified in the executor's own frame, saved or not.
PersistIdentities ==
  /\ Doing("journal") /\ known' = known \cup args[2]
  /\ \/ Done(TRUE) /\ journal' = [journal EXCEPT !.known = known']
     \/ NotDone(TRUE) /\ UNCHANGED journal
  /\ UNCHANGED <<elsewhere, entry, opening, vault>>

\* The registry's phase becomes executing.
SavePhase == Host("save") /\ (Done(TRUE) \/ NotDone(TRUE)) /\ UNCHANGED vault

HostStep ==
  \/ PrepareFile \/ PublishFile \/ DiscardPrepared \/ PrepareBack \/ PublishBack
  \/ LinkFile \/ RemoveFile \/ HideInTrash \/ RestoreFromTrash \/ DiscardTrash
  \/ RemoveCopy \/ PrepareDirectory \/ PublishDirectory \/ RemoveDirectory
  \/ Compare \/ PersistIdentities \/ SavePhase

-----------------------------------------------------------------------------
(* The executor between them.                                              *)

Stands(l) == pc = l /\ todo = <<>> /\ UNCHANGED <<elsewhere, vault>>
Decides(state) == entry' = [entry EXCEPT !.state = state]

\* submit: what is refused is not applied, what is accepted is frozen.
Submit ==
  /\ Stands("submit") /\ Works /\ UNCHANGED <<journal, known, opening>>
  /\ IF Preflight.accepted
     THEN /\ entry' = [state |-> "in_progress",
                       preview |-> [pre |-> Preflight.pre, final |-> Preflight.final]]
          /\ Goto("queued")
     ELSE Decides("not_applied") /\ Goto("done")

\* The head of the queue is projected again, and must come out the same.
Unchanged == Preflight.accepted /\ Preflight.pre = pre /\ Preflight.final = final
Begin ==
  /\ Stands("queued") /\ UNCHANGED <<journal, known, opening>>
  /\ \/ Unchanged /\ Goto("capture") /\ Works /\ UNCHANGED entry
     \/ ~Unchanged /\ Decides("not_applied") /\ Goto("done") /\ Works
     \/ ~Unchanged /\ UNCHANGED entry /\ Goto("stalled") /\ Fault("before")

\* Bytes and nodes for the frame. What fails from here to PREPARED is thrown to
\* the caller, and the request stays at the head of the queue.
Captured == Staged \cup (IF IsMove THEN {move.target} ELSE {})
                   \cup (IF SelfReferring THEN {move.source} ELSE {})
Capture ==
  /\ Stands("capture") /\ UNCHANGED <<journal, entry, known, opening>>
  /\ LET ok == Buildable /\ \A p \in Captured : Is(p, pre[p]) IN
     \/ ok /\ pc' = "prepare" /\ todo' = Execution /\ Works
     \/ Goto("stalled") /\ IF ok THEN Fault("before") ELSE Works

Prepared == [phase |-> "PREPARED", known |-> {}]
Prepare ==
  /\ pc = "prepare" /\ known' = {} /\ UNCHANGED <<elsewhere, vault, entry, opening>>
  /\ \/ journal' = Prepared /\ pc' = "run" /\ UNCHANGED todo /\ Works
     \/ journal' \in {journal, Prepared} /\ Goto("stalled") /\ Fault("before")

\* Everything is read back, before and after the wait for evidence.
Whole ==
  /\ \A p \in FilePaths : Is(p, final[p])
  /\ \A d \in NewDirectories : Is(d, Dir)
  /\ \A i \in Operations : request[i].kind = "trash" => trash[i].is = request[i].from
Inspect(from, to) ==
  /\ Stands(from) /\ Works /\ Goto(IF Whole THEN to ELSE "plan")
  /\ UNCHANGED <<journal, entry, known, opening>>
Verify == Inspect("run", "evidence")
Confirm == Inspect("confirm", "commit")

\* Obsidian's events, its cache and the Search Snapshot catch up or do not.
Await(from, to, otherwise, kind) ==
  /\ Stands(from) /\ UNCHANGED <<journal, entry, known, opening>>
  /\ (Works /\ Goto(to)) \/ (Fault(kind) /\ Goto(otherwise))
AwaitEvidence == Await("evidence", "confirm", "plan", "doing")
AwaitRestoreEvidence == Await("settle", "roll-back", "fail", "undoing")

\* The frame may be durable although persisting it reports an error.
Persists(phase) == journal' = [journal EXCEPT !.phase = phase]
Commit ==
  /\ Stands("commit") /\ UNCHANGED <<entry, known, opening>>
  /\ \/ Persists("COMMITTED") /\ Goto("record") /\ Works
     \/ Persists("COMMITTED") /\ Goto("plan") /\ Fault("commit")
     \/ UNCHANGED journal /\ Goto("plan") /\ Fault("doing")

\* A save that fails leaves the request to the next start, except in open,
\* which takes every error for a recovery that did not work.
Records(from, state, kind) ==
  /\ Stands(from) /\ UNCHANGED <<journal, known>>
  /\ \/ Decides(state) /\ Goto("done") /\ Works /\ UNCHANGED opening
     \/ UNCHANGED entry /\ Fault(kind) /\ opening' = FALSE
        /\ Goto(IF opening THEN "unprove" ELSE "stalled")
Record == Records("record", "applied", "undoing")
RecordRollback == Records("rolled-back", "not_applied", "undoing")
Unprove == Records("unprove", "unproven", "undoing")

\* Nothing is touched unless every path is one that this execution left.
PlanRestore ==
  /\ pc = "plan" /\ UNCHANGED <<request, vault, journal, entry, known, opening, touched, crashes, writes>>
  /\ late' = FALSE
  /\ \E plan \in {Restore} :
       \/ Restorable(plan) /\ pc' = "undo" /\ todo' = plan /\ Works
       \/ Goto("fail") /\ IF Restorable(plan) THEN Fault("undoing") ELSE Works

Restored == /\ \A p \in FilePaths : Is(p, pre[p])
            /\ \A d \in NewDirectories : Is(d, Absent)
Settle ==
  /\ Stands("undo") /\ Works /\ Goto(IF Restored THEN "settle" ELSE "fail")
  /\ UNCHANGED <<journal, entry, known, opening>>

RollBack ==
  /\ Stands("roll-back") /\ UNCHANGED <<entry, known, opening>>
  /\ \/ Persists("ROLLED_BACK") /\ Goto("rolled-back") /\ Works
     \/ (Persists("ROLLED_BACK") \/ UNCHANGED journal) /\ Goto("fail") /\ Fault("undoing")

\* The result is unproven whether or not FAILED could be written.
Fail ==
  /\ Stands("fail") /\ Goto("unprove") /\ UNCHANGED <<entry, known, opening>>
  /\ (Persists("FAILED") /\ Works) \/ (UNCHANGED journal /\ Fault("undoing"))

Crash ==
  /\ pc \notin {"submit", "down", "done"} /\ crashes < MaxCrashes
  /\ crashes' = crashes + 1 /\ Goto("down") /\ known' = {} /\ opening' = FALSE
  /\ UNCHANGED <<request, vault, journal, entry, touched, late, faults, writes>>

OpenPrepared ==
  /\ Stands("down") /\ Works /\ UNCHANGED <<journal, entry>>
  /\ journal.phase \in {"PREPARED", "COMMITTED", "ROLLED_BACK"}
  /\ opening' = TRUE /\ known' = journal.known
  /\ Goto(CASE journal.phase = "PREPARED" -> "plan"
            [] journal.phase = "COMMITTED" -> "record"
            [] journal.phase = "ROLLED_BACK" -> "rolled-back")

\* open: the journal decides what becomes of an execution that was cut off.
Open ==
  /\ Stands("down") /\ Works /\ UNCHANGED <<journal, entry>>
  /\ opening' = (journal.phase # "none") /\ known' = journal.known
  /\ Goto(CASE journal.phase = "none" -> "queued"
            [] journal.phase = "PREPARED" -> "plan"
            [] journal.phase = "COMMITTED" -> "record"
            [] journal.phase = "ROLLED_BACK" -> "rolled-back"
            [] journal.phase = "FAILED" -> "unprove")

\* Somebody else, with an editor that writes in place, one that replaces the
\* file, or a file manager. A file that has two names changes under both.
Others ==
  /\ pc \notin {"submit", "done"} /\ writes < MaxWrites /\ writes' = writes + 1
  /\ \E p \in Paths :
       LET same == {q \in Paths : disk[q].node = disk[p].node}
           wrote == IF IsFile(p) THEN same ELSE {p} IN
       /\ Housed(p) /\ touched' = touched \cup wrote /\ late' = TRUE
       /\ \/ /\ IsFile(p)
             /\ disk' = [q \in Paths |-> IF q \in same THEN [disk[q] EXCEPT !.is = Theirs] ELSE disk[q]]
             /\ trash' = [i \in Operations |-> IF trash[i].node = disk[p].node
                                              THEN [trash[i] EXCEPT !.is = Theirs] ELSE trash[i]]
          \/ /\ IsFile(p) \/ (p \in Files /\ Is(p, Absent))
             /\ \E b \in {Theirs, disk[p].is} \cap Bytes : Puts(p, At(b, <<"other", writes'>>))
             /\ UNCHANGED trash
          \/ (IsFile(p) \/ (Is(p, Dir) /\ Empty(p))) /\ Puts(p, Nowhere) /\ UNCHANGED trash
          \/ p \in Directories /\ Is(p, Absent) /\ Puts(p, At(Dir, <<"other", writes'>>)) /\ UNCHANGED trash
  /\ UNCHANGED <<request, stage, back, journal, entry, executor, faults, crashes>>

Work ==
  \/ HostStep \/ Begin \/ Capture \/ Prepare \/ Verify \/ AwaitEvidence \/ Confirm \/ Commit
  \/ Record \/ PlanRestore \/ Settle \/ AwaitRestoreEvidence \/ RollBack \/ RecordRollback
  \/ Fail \/ Unprove \/ Open
Next == Submit \/ Work \/ Crash \/ Others
Spec == Init /\ [][Next]_vars /\ WF_vars(Work)

-----------------------------------------------------------------------------
Errors(kinds) == \E i \in DOMAIN faults : faults[i] \in kinds
Footprint == LET Q == DOMAIN final IN
  Q \cup (UNION {Above[p] : p \in Q}) \cup {p \in Paths : Above[p] \cap NewDirectories # {}}

\* Two operations with a path in common, one of them a mutation.
OpPaths(op) == {op.source, op.target} \ {None}
Chained == \E i, j \in Operations :
  i < j /\ {i, j} \cap MutationIndexes # {} /\ OpPaths(request[i]) \cap OpPaths(request[j]) # {}

\* A crash at any point, and an error on the way, can be undone: the result is
\* unproven only when somebody else wrote where the request does, when the
\* restore itself met an error, or when COMMITTED was durable and reported an
\* error. A request whose operations are chained is excepted (RestoresChains).
CrashesConverge ==
  entry.state = "unproven" /\ ~Chained =>
    touched \cap Footprint # {} \/ Errors({"undoing", "commit"})

\* A request stays at the head of the queue only for an error or a change of the
\* vault between the preflight and PREPARED, or a failed save of its result.
StallHasACause == pc = "stalled" => faults # <<>> \/ touched \cap Footprint # {} \/ ~Buildable

Consistent == TypeOK /\ CrashesConverge /\ StallHasACause

\* What a proof state says of the paths that nobody else wrote: applied, every
\* one of them is as the preview said, and the trash holds what was trashed;
\* not applied, every one is as it was found. Nothing private is left over.
OutcomesAreTrue ==
  /\ entry.state = "applied" /\ ~Errors({"commit"}) =>
       /\ \A p \in DOMAIN final \ touched : Is(p, final[p])
       /\ \A i \in Operations : request[i].kind = "trash" /\ request[i].source \notin touched
                                  => trash[i].is = request[i].from
       /\ \A k \in Stages : stage[k] = None
  /\ entry.state = "not_applied" =>
       /\ \A p \in Paths \ touched : Is(p, Start[p])
       /\ \A k \in Stages : {stage[k], back[k]} \cap Bytes = {}
       /\ \A d \in Directories : stage[d] = None
       /\ \A i \in Operations : trash[i] = Nowhere

\* A restore never takes away what somebody else had written before it was
\* planned, at any path, whatever the frame says of that path.
OthersAreSpared ==
  [][pc = "undo" /\ ~late' => \A p \in Paths : Is(p, Theirs) => disk'[p].is = Theirs]_vars

\* Every accepted request is decided, or waits at the head of the queue for a
\* restart after an error.
Decided == entry.state = "in_progress" ~> entry.state # "in_progress" \/ pc = "stalled"

\* Not checked by a run, for it fails: a chain of attachment operations that is
\* cut off can be undone as well (docs/spec/reliable-vault-operations-mvp.md, A-21).
RestoresChains == entry.state = "unproven" => touched # {} \/ Errors({"undoing", "commit"})
=============================================================================
