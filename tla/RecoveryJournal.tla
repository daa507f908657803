--------------------------- MODULE RecoveryJournal ---------------------------
(***************************************************************************)
(* The Vault Bridge's Recovery Journal (packages/obsidian-plugin/src/      *)
(* recovery-journal.ts): a preallocated file with a header and two slots.  *)
(* A write goes to the slot that does not hold the newest valid frame,     *)
(* carries the next sequence number, and is acknowledged after a sync.     *)
(* Writes are chained on one promise (#tail); recover() waits for the      *)
(* chain as it finds it and then reads both slots without joining it.      *)
(*                                                                         *)
(* A frame is a phase with its payload, a member of Frames.  The checksum  *)
(* is modelled by what it decides: a slot holds a complete record, nothing *)
(* at all, or bytes that do not decode ("invalid").                        *)
(***************************************************************************)
EXTENDS Integers, Sequences

CONSTANTS
  Frames,        \* every phase and payload a client may ask to write
  Fits,          \* those whose encoding fits the fixed slot capacity
  NoFrame,       \* the absence of a frame
  Nothing,       \* what recover() returns before the first write
  Damaged,       \* the RecoveryJournalCorruptError it throws
  MaxSequence,   \* Number.MAX_SAFE_INTEGER
  MaxQueued,     \* bound: writes chained on #tail at once
  MaxOverlap,    \* bound: writes requested while a recover() is unanswered
  PowerLoss,     \* a crash may lose what was not synced
  SyncFails      \* sync may report an error

ASSUME FramesAssumption ==
  /\ Fits \subseteq Frames
  /\ {NoFrame, Nothing, Damaged} \cap Frames = {} /\ Nothing # Damaged
ASSUME BoundsAssumption ==
  MaxSequence \in Nat \ {0} /\ MaxQueued \in Nat /\ MaxOverlap \in Nat

\* The journal claims process-crash recovery only (spec section 7.4).  It also
\* survives a power loss, but not one that follows a failed sync: the next
\* write then overwrites the only slot that reached the device.
ASSUME FaultAssumption ==
  PowerLoss \in BOOLEAN /\ SyncFails \in BOOLEAN /\ ~(PowerLoss /\ SyncFails)

Slots == {0, 1}
Empty   == [state |-> "empty",   sequence |-> 0, frame |-> NoFrame]
Invalid == [state |-> "invalid", sequence |-> 0, frame |-> NoFrame]
Unread  == [state |-> "unread",  sequence |-> 0, frame |-> NoFrame]
Record(n, f) == [state |-> "valid", sequence |-> n, frame |-> f]
Records  == [state: {"valid"}, sequence: 1..MaxSequence, frame: Fits]
SlotType == {Empty, Invalid} \cup Records

VARIABLES
  header,   \* the file's header: "absent" (size 0), "torn" or "ready"
  handle,   \* "closed", "creating", "open", or "refused" when open threw
  cache,    \* the slots as a read of the file finds them
  disk,     \* the slots as they reached the device
  tail,     \* the frames of the writes chained on #tail, the running one first
  op,       \* the running write: [pc, target, record]
  acked,    \* history: the record of the last acknowledged write, or Empty
  reader    \* one recover() call: [pc, wait, got, floor, overlap]

vars == <<header, handle, cache, disk, tail, op, acked, reader>>

IdleOp == [pc |-> "idle", target |-> 0, record |-> Empty]
IdleReader == [pc |-> "idle", wait |-> 0, got |-> [i \in Slots |-> Unread],
               floor |-> 0, overlap |-> 0]

OpType == [pc: {"idle", "writing", "torn", "written"},
           target: Slots, record: {Empty} \cup Records]
ReaderType == [pc: {"idle", "waiting", "reading"}, wait: Nat,
               got: [Slots -> SlotType \cup {Unread}],
               floor: 0..MaxSequence, overlap: 0..MaxOverlap]

TypeOK ==
  /\ header \in {"absent", "torn", "ready"}
  /\ handle \in {"closed", "creating", "open", "refused"}
  /\ cache \in [Slots -> SlotType] /\ disk \in [Slots -> SlotType]
  /\ tail \in Seq(Frames)
  /\ op \in OpType
  /\ acked \in {Empty} \cup Records
  /\ reader \in ReaderType

(***************************************************************************)
(* #readLatest over what the two slots decode to: the newest valid record, *)
(* Empty when the journal was never written, and Invalid where it throws   *)
(* RecoveryJournalCorruptError.                                            *)
(***************************************************************************)
ValidIn(file) == {i \in Slots : file[i].state = "valid"}

ReadLatestMinimum(file) ==
  LET valid == ValidIn(file) IN
  IF valid = {}
  THEN IF \A i \in Slots : file[i].state = "empty" THEN Empty ELSE Invalid
  ELSE IF valid = Slots /\ file[0].sequence = file[1].sequence THEN Invalid
  ELSE file[CHOOSE i \in valid :
              \A j \in valid : file[i].sequence <= file[j].sequence]

ReadLatest(file) ==
  LET valid == ValidIn(file) IN
  IF valid = {}
  THEN IF \A i \in Slots : file[i].state = "empty" THEN Empty ELSE Invalid
  ELSE IF valid = Slots /\ file[0].sequence = file[1].sequence THEN Invalid
  ELSE file[CHOOSE i \in valid :
              \A j \in valid : file[j].sequence <= file[i].sequence]

\* previous === undefined || previous.sequence % 2 === 0 ? 0 : 1
TargetSlotOfPrevious(previous) ==
  IF previous = Empty \/ previous.sequence % 2 = 1 THEN 0 ELSE 1
TargetSlot(previous) == IF previous.sequence % 2 = 0 THEN 0 ELSE 1

NextSequence(previous) == previous.sequence + 1

Init ==
  /\ header = "absent" /\ handle = "closed"
  /\ cache = [i \in Slots |-> Empty] /\ disk = [i \in Slots |-> Empty]
  /\ tail = <<>> /\ op = IdleOp /\ acked = Empty /\ reader = IdleReader

-----------------------------------------------------------------------------
(* openLayout.  A new file gets its header, its full size and a sync; a      *)
(* crash in between leaves a file that every later open refuses.             *)

OpenNew ==
  /\ handle = "closed" /\ header = "absent"
  /\ handle' = "creating" /\ header' = "torn"
  /\ UNCHANGED <<cache, disk, tail, op, acked, reader>>

OpenCreated ==
  /\ handle = "creating"
  /\ handle' = "open" /\ header' = "ready"
  /\ UNCHANGED <<cache, disk, tail, op, acked, reader>>

OpenExisting ==
  /\ handle = "closed" /\ header # "absent"
  /\ handle' = IF header = "ready" THEN "open" ELSE "refused"
  /\ UNCHANGED <<header, cache, disk, tail, op, acked, reader>>

-----------------------------------------------------------------------------
(* write(record): chained on #tail, so #write runs for one frame at a time.  *)

RequestWrite(f) ==
  /\ handle = "open" /\ Len(tail) < MaxQueued
  /\ reader.pc # "idle" => reader.overlap < MaxOverlap
  /\ tail' = Append(tail, f)
  /\ reader' = IF reader.pc = "idle" THEN reader
               ELSE [reader EXCEPT !.overlap = @ + 1]
  /\ UNCHANGED <<header, handle, cache, disk, op, acked>>

\* The running write settles: the chain's next link, and every recover() that
\* waits for this one, may go on.
SettledReader ==
  IF reader.wait > 0 THEN [reader EXCEPT !.wait = @ - 1] ELSE reader
Settle ==
  op' = IdleOp /\ tail' = Tail(tail) /\ reader' = SettledReader

\* A frame that does not fit, a journal #readLatest refuses, and a sequence
\* past the safe integers are rejected before any byte is written.
WriteAdmissible(f) ==
  /\ f \in Fits
  /\ ReadLatest(cache) # Invalid
  /\ NextSequence(ReadLatest(cache)) <= MaxSequence

RejectWrite ==
  /\ handle = "open" /\ tail # <<>> /\ op.pc = "idle"
  /\ ~WriteAdmissible(Head(tail))
  /\ Settle
  /\ UNCHANGED <<header, handle, cache, disk, acked>>

StartWrite ==
  /\ handle = "open" /\ tail # <<>> /\ op.pc = "idle"
  /\ WriteAdmissible(Head(tail))
  /\ LET previous == ReadLatest(cache) IN
     op' = [pc |-> "writing", target |-> TargetSlot(previous),
            record |-> Record(NextSequence(previous), Head(tail))]
  /\ UNCHANGED <<header, handle, cache, disk, tail, acked, reader>>

\* writeExactly: a prefix of the frame is in the slot
TearSlot ==
  /\ op.pc = "writing"
  /\ op' = [op EXCEPT !.pc = "torn"]
  /\ cache' = [cache EXCEPT ![op.target] = Invalid]
  /\ UNCHANGED <<header, handle, disk, tail, acked, reader>>

\* writeExactly returned: the whole frame is in the slot
FillSlot ==
  /\ op.pc \in {"writing", "torn"}
  /\ op' = [op EXCEPT !.pc = "written"]
  /\ cache' = [cache EXCEPT ![op.target] = op.record]
  /\ UNCHANGED <<header, handle, disk, tail, acked, reader>>

\* writeExactly threw (an I/O error, or a write that made no progress)
FailWrite ==
  /\ op.pc \in {"writing", "torn"}
  /\ Settle
  /\ UNCHANGED <<header, handle, cache, disk, acked>>

\* handle.sync() returned and the write is acknowledged
Sync ==
  /\ op.pc = "written"
  /\ disk' = cache /\ acked' = op.record
  /\ Settle
  /\ UNCHANGED <<header, handle, cache>>

FailSync ==
  /\ SyncFails /\ op.pc = "written"
  /\ Settle
  /\ UNCHANGED <<header, handle, cache, disk, acked>>

-----------------------------------------------------------------------------
(* recover(): await this.#tail, then #readLatest, which reads both slots in  *)
(* no given order and is not itself chained on #tail.                        *)

RecoverNotAwaiting ==
  /\ handle = "open" /\ reader.pc = "idle"
  /\ reader' = [IdleReader EXCEPT !.pc = "waiting", !.floor = acked.sequence]
  /\ UNCHANGED <<header, handle, cache, disk, tail, op, acked>>

Recover ==
  /\ handle = "open" /\ reader.pc = "idle"
  /\ reader' = [IdleReader EXCEPT !.pc = "waiting", !.wait = Len(tail),
                                  !.floor = acked.sequence]
  /\ UNCHANGED <<header, handle, cache, disk, tail, op, acked>>

StartReading ==
  /\ reader.pc = "waiting" /\ reader.wait = 0
  /\ reader' = [reader EXCEPT !.pc = "reading"]
  /\ UNCHANGED <<header, handle, cache, disk, tail, op, acked>>

ReadSlot(i) ==
  /\ reader.pc = "reading" /\ reader.got[i] = Unread
  /\ reader' = [reader EXCEPT !.got[i] = cache[i]]
  /\ UNCHANGED <<header, handle, cache, disk, tail, op, acked>>

\* both slots are read and recover() settles with ReadLatest(reader.got)
RecoverReturns ==
  /\ reader.pc = "reading" /\ \A i \in Slots : reader.got[i] # Unread
  /\ reader' = IdleReader
  /\ UNCHANGED <<header, handle, cache, disk, tail, op, acked>>

-----------------------------------------------------------------------------
\* The process dies.  Its promises are gone; the file keeps what was written,
\* or, after a power loss, any mixture of that and what was synced.
Crash ==
  /\ handle # "closed" /\ handle' = "closed"
  /\ tail' = <<>> /\ op' = IdleOp /\ reader' = IdleReader
  /\ \E survived \in [Slots -> SlotType] :
       /\ \A i \in Slots :
            survived[i] \in IF PowerLoss /\ cache[i] # disk[i]
                            THEN {cache[i], disk[i], Invalid} ELSE {cache[i]}
       /\ cache' = survived
       /\ disk' = IF PowerLoss THEN survived ELSE disk
  /\ UNCHANGED <<header, acked>>

Write ==
  \/ RejectWrite \/ StartWrite \/ TearSlot \/ FillSlot
  \/ FailWrite \/ Sync \/ FailSync
Read == StartReading \/ (\E i \in Slots : ReadSlot(i)) \/ RecoverReturns

Next ==
  \/ OpenNew \/ OpenCreated \/ OpenExisting
  \/ \E f \in Frames : RequestWrite(f)
  \/ Write \/ Recover \/ Read \/ Crash

\* Every I/O request completes, with a result or an error.
Fairness == WF_vars(Write) /\ WF_vars(Read)

Spec == Init /\ [][Next]_vars
FairSpec == Spec /\ Fairness

-----------------------------------------------------------------------------
\* An acknowledged frame is never lost: at every instant, during a write of
\* either slot and after a crash, the file decodes to that frame or to a later
\* one (#write's choice of slot and sequence, and the sync before the answer).
AckedRecoverable ==
  acked # Empty =>
    LET latest == ReadLatest(cache) IN
    /\ latest.state = "valid"
    /\ latest.sequence >= acked.sequence
    /\ latest.sequence = acked.sequence => latest = acked

\* The two slots never hold the same sequence, so #readLatest's "conflicting
\* sequences" error does not come from the journal's own writes.
SequencesDiffer ==
  ValidIn(cache) = Slots => cache[0].sequence # cache[1].sequence

\* A restart or a write never makes the journal fall back to an older frame
\* once a newer one is what the file decodes to (process crashes only).
NeverFallsBack ==
  [][ReadLatest(cache').sequence >= ReadLatest(cache).sequence]_vars

\* The journal implements the atomic register its client relies on.
ValueOf(slot) ==
  CASE slot.state = "valid"   -> slot.frame
    [] slot.state = "empty"   -> Nothing
    [] slot.state = "invalid" -> Damaged

Register == INSTANCE FrameRegister WITH
  requests <- tail, serving <- op.pc # "idle",
  value <- ValueOf(ReadLatest(cache)), durable <- ValueOf(ReadLatest(disk)),
  acked <- ValueOf(acked)

ImplementsRegister == Register!Spec

\* recover() waits only for the writes chained before it, so it is answered
\* however many writes follow, unless the process dies; and with a frame that is
\* at least as new as what was acknowledged before the call, though its two
\* reads are not atomic, while at most MaxOverlap writes are requested meanwhile.
FreshAnswer ==
  /\ reader.pc = "reading" /\ \A i \in Slots : reader.got[i] # Unread
  /\ ReadLatest(reader.got).sequence >= reader.floor
  /\ reader.floor > 0 => ReadLatest(reader.got) # Invalid
RecoverServed == (reader.pc # "idle") ~> (FreshAnswer \/ handle # "open")
=============================================================================
