------------------------ MODULE RecoveryJournalProofs ------------------------
(***************************************************************************)
(* The Recovery Journal's invariants for every set of frames, every slot   *)
(* capacity, every bound and either crash model.  The argument: the parity *)
(* of a frame's sequence fixes its slot, so the slot a write overwrites is *)
(* never the one that holds the newest frame, and whatever was last        *)
(* acknowledged stays in the slot the running write leaves alone.          *)
(***************************************************************************)
EXTENDS RecoveryJournal, TLAPS

\* Odd sequences are written to slot 0 and even ones to slot 1.
Parity(file) ==
  \A i \in Slots : file[i].state = "valid" => file[i].sequence % 2 = 1 - i

\* The running write targets the other slot than the newest frame's, with the
\* next sequence.
OpInv ==
  op.pc # "idle" =>
    /\ handle = "open" /\ tail # <<>>
    /\ op.record \in Records
    /\ op.record.sequence % 2 = 1 - op.target
    /\ \/ /\ cache[1 - op.target].state = "valid"
          /\ op.record.sequence = cache[1 - op.target].sequence + 1
       \/ cache[1 - op.target] = Empty /\ op.record.sequence = 1
    /\ op.pc = "written" => cache[op.target] = op.record

\* A slot that decodes has reached the device, unless its write awaits sync.
Synced ==
  PowerLoss => \A i \in Slots :
    (cache[i].state = "valid" /\ ~(op.pc = "written" /\ i = op.target))
      => disk[i] = cache[i]

\* A slot that no running write touches holds the acknowledged frame or a
\* later one.
Keeps(i) ==
  /\ cache[i].state = "valid"
  /\ cache[i].sequence >= acked.sequence
  /\ cache[i].sequence = acked.sequence => cache[i] = acked
  /\ op.pc # "idle" => i # op.target
Kept == acked # Empty => \E i \in Slots : Keeps(i)

IInv == TypeOK /\ Parity(cache) /\ Parity(disk) /\ OpInv /\ Synced /\ Kept

\* What #readLatest returns over slots whose sequences follow the parity rule.
LEMMA LatestFacts ==
  ASSUME NEW file \in [Slots -> SlotType], Parity(file)
  PROVE  /\ ReadLatest(file) \in SlotType
         /\ ReadLatest(file) = Empty <=> \A i \in Slots : file[i] = Empty
         /\ ReadLatest(file).state = "valid"
              <=> \E i \in Slots : file[i].state = "valid"
         /\ ReadLatest(file).state = "valid" =>
              \E i \in Slots :
                /\ file[i] = ReadLatest(file)
                /\ \A j \in Slots : file[j].state = "valid"
                                      => file[j].sequence <= file[i].sequence
<1> DEFINE valid == ValidIn(file)
<1>1. \A i \in Slots : /\ file[i] \in SlotType
                       /\ file[i].state \in {"empty", "invalid", "valid"}
                       /\ file[i].state = "empty" <=> file[i] = Empty
                       /\ file[i].state = "valid" => file[i].sequence \in Nat
  BY BoundsAssumption DEF SlotType, Empty, Invalid, Records
<1>2. valid = Slots => file[0].sequence # file[1].sequence
  BY <1>1, SMT DEF Parity, ValidIn, Slots
<1>3. CASE \A i \in Slots : file[i].state = "empty"
  <2>1. ReadLatest(file) = Empty
    BY <1>3 DEF ReadLatest, ValidIn
  <2> QED BY <2>1, <1>1, <1>3 DEF Empty, SlotType
<1>4. CASE valid = {} /\ \E i \in Slots : file[i].state # "empty"
  <2>1. ReadLatest(file) = Invalid
    BY <1>4 DEF ReadLatest, ValidIn
  <2> QED BY <2>1, <1>1, <1>4 DEF Empty, Invalid, SlotType, ValidIn
<1>5. CASE valid # {}
  <2> DEFINE newest(i) == i \in valid
                          /\ \A j \in valid : file[j].sequence <= file[i].sequence
  <2>1. \E i \in valid : newest(i)
    <3>1. CASE valid = {0} BY <3>1, <1>1 DEF ValidIn, Slots
    <3>2. CASE valid = {1} BY <3>2, <1>1 DEF ValidIn, Slots
    <3>3. CASE valid = {0, 1}
      <4>1. file[0].sequence \in Nat /\ file[1].sequence \in Nat
        BY <3>3, <1>1 DEF ValidIn, Slots
      <4>2. CASE file[0].sequence <= file[1].sequence
        BY <3>3, <4>1, <4>2
      <4>3. CASE file[1].sequence <= file[0].sequence
        BY <3>3, <4>1, <4>3
      <4> QED BY <4>1, <4>2, <4>3
    <3> QED BY <3>1, <3>2, <3>3, <1>5 DEF ValidIn, Slots
  <2> DEFINE c == CHOOSE i \in valid :
                    \A j \in valid : file[j].sequence <= file[i].sequence
  <2>2. newest(c) BY <2>1
  <2>3. ReadLatest(file) = file[c]
    BY <1>5, <1>2 DEF ReadLatest
  <2>4. c \in Slots /\ file[c].state = "valid" BY <2>2 DEF ValidIn
  <2> HIDE DEF c
  <2> QED BY <2>2, <2>3, <2>4, <1>1 DEF ValidIn, Empty
<1> QED BY <1>1, <1>3, <1>4, <1>5 DEF ValidIn

\* A journal that is not open yet satisfies the invariant.
LEMMA InitIInv == Init => IInv
<1> SUFFICES ASSUME Init PROVE IInv
  OBVIOUS
<1> USE BoundsAssumption
<1>1. TypeOK
  BY DEF Init, TypeOK, OpType, ReaderType, IdleOp, IdleReader, SlotType, Empty, Unread, Slots
<1>2. Parity(cache) /\ Parity(disk)
  BY DEF Init, Parity, Empty
<1>3. OpInv /\ Synced /\ Kept
  BY DEF Init, OpInv, Synced, Kept, IdleOp, Empty
<1> QED BY <1>1, <1>2, <1>3 DEF IInv

\* Facts about the values of the state's types that most steps use.
LEMMA TypeFacts ==
  ASSUME IInv
  PROVE  /\ cache \in [Slots -> SlotType] /\ disk \in [Slots -> SlotType]
         /\ op.pc \in {"idle", "writing", "torn", "written"}
         /\ op.target \in Slots /\ 1 - op.target \in Slots
         /\ \A i \in Slots : i = op.target \/ i = 1 - op.target
         /\ \A i \in Slots : cache[i].state = "valid"
                               => cache[i] \in Records
         /\ Invalid \in SlotType /\ Invalid.state = "invalid"
         /\ Empty \in SlotType /\ Empty.state = "empty"
         /\ \A r \in Records : /\ r \in SlotType /\ r.state = "valid"
                               /\ r # Empty /\ r.sequence \in 1..MaxSequence
         /\ acked \in {Empty} \cup Records
BY DEF IInv, TypeOK, OpType, Slots, SlotType, Records, Invalid, Empty

\* A settled write pops the chain and leaves no running write behind.
LEMMA SettleStep ==
  ASSUME IInv, tail # <<>>, Settle
  PROVE  /\ tail' \in Seq(Frames) /\ reader' \in ReaderType
         /\ op' \in OpType /\ op'.pc = "idle"
<1>1. tail' \in Seq(Frames) BY DEF Settle, IInv, TypeOK
<1>2. op' \in OpType /\ op'.pc = "idle" BY DEF Settle, IdleOp, OpType, Slots
<1>3. reader \in ReaderType BY DEF IInv, TypeOK
<1>4. CASE reader.wait > 0
  <2>1. reader.wait - 1 \in Nat BY <1>3, <1>4 DEF ReaderType
  <2>2. reader' = [reader EXCEPT !.wait = reader.wait - 1]
    BY <1>4 DEF Settle, SettledReader
  <2> QED BY <1>1, <1>2, <1>3, <2>1, <2>2 DEF ReaderType
<1>5. CASE ~(reader.wait > 0)
  BY <1>1, <1>2, <1>3, <1>5 DEF Settle, SettledReader
<1> QED BY <1>4, <1>5

\* Each kind of step preserves the invariant.  Steps that touch neither the
\* slots nor the running write leave the four journal conjuncts as they are.
LEMMA QuietStep ==
  ASSUME IInv, TypeOK', UNCHANGED <<cache, disk, op, acked>>,
         op.pc # "idle" => handle' = "open" /\ tail' # <<>>
  PROVE  IInv'
<1>1. Parity(cache)' /\ Parity(disk)' BY DEF IInv, Parity
<1>2. OpInv' BY DEF IInv, OpInv
<1>3. Synced' BY DEF IInv, Synced
<1>4. Kept' BY DEF IInv, Kept, Keeps
<1> QED BY <1>1, <1>2, <1>3, <1>4 DEF IInv

\* Settling a write that left the slots as they are.
LEMMA SettleKeeps ==
  ASSUME IInv, tail # <<>>, Settle, UNCHANGED <<header, handle, cache, disk, acked>>,
         PowerLoss => op.pc # "written"
  PROVE  IInv'
<1>1. TypeOK' BY SettleStep DEF IInv, TypeOK
<1>2. Parity(cache)' /\ Parity(disk)' BY DEF IInv, Parity
<1>3. op'.pc = "idle" BY SettleStep
<1>4. OpInv' BY <1>3 DEF OpInv
<1>5. Synced' BY DEF IInv, Synced
<1>6. Kept' BY <1>3 DEF IInv, Kept, Keeps
<1> QED BY <1>1, <1>2, <1>4, <1>5, <1>6 DEF IInv

\* Choosing the target slot and the next sequence (#write) keeps the invariant:
\* the kept slot is the other one.
LEMMA StartWriteStep == IInv /\ StartWrite => IInv'
<1> SUFFICES ASSUME IInv, StartWrite PROVE IInv'
  OBVIOUS
<1> DEFINE previous == ReadLatest(cache)
           record == Record(NextSequence(previous), Head(tail))
           target == TargetSlot(previous)
<1>1. /\ cache \in [Slots -> SlotType] /\ Parity(cache)
      /\ \A r \in SlotType : /\ r.sequence \in Nat
                             /\ r.state = "valid" <=> r \in Records
                             /\ r = Empty <=> r.state = "empty"
                             /\ r = Invalid <=> r.state = "invalid"
                             /\ r.state \in {"empty", "invalid", "valid"}
  BY DEF IInv, TypeOK, SlotType, Records, Empty, Invalid
<1>2. previous \in SlotType /\ previous # Invalid
  BY <1>1, LatestFacts DEF StartWrite, WriteAdmissible
<1>3. /\ op'.pc = "writing" /\ op'.target = target /\ op'.record = record
      /\ op' = [pc |-> "writing", target |-> target, record |-> record]
      /\ op.pc = "idle" /\ tail # <<>> /\ handle = "open"
      /\ UNCHANGED <<header, handle, cache, disk, tail, acked, reader>>
  BY DEF StartWrite
<1>4. record \in Records /\ record.sequence = previous.sequence + 1
  BY <1>1, <1>2 DEF StartWrite, WriteAdmissible, Record, Records, NextSequence
<1>5. target \in Slots /\ record.sequence % 2 = 1 - target
  BY <1>1, <1>2, <1>4 DEF TargetSlot, Slots
<1>6. \/ /\ previous.state = "valid" /\ cache[1 - target] = previous
         /\ \A j \in Slots : cache[j].state = "valid"
                               => cache[j].sequence <= previous.sequence
      \/ previous = Empty /\ \A i \in Slots : cache[i] = Empty
  <2>1. CASE previous.state = "valid"
    <3>1. PICK i \in Slots :
            /\ cache[i] = previous
            /\ \A j \in Slots : cache[j].state = "valid"
                                  => cache[j].sequence <= cache[i].sequence
      BY <2>1, <1>1, LatestFacts
    <3>2. previous.sequence % 2 = 1 - i BY <3>1, <2>1, <1>1 DEF Parity
    <3>3. i = 1 - target BY <3>2, <1>1, <1>2 DEF TargetSlot, Slots
    <3> QED BY <3>1, <3>3, <2>1
  <2>2. CASE previous = Empty
    <3>1. \A i \in Slots : cache[i] = Empty BY <2>2, <1>1, LatestFacts
    <3> QED BY <3>1, <2>2
  <2> QED BY <2>1, <2>2, <1>1, <1>2
<1> HIDE DEF previous, record, target
<1>7. TypeOK' BY <1>3, <1>4, <1>5 DEF IInv, TypeOK, OpType
<1>8. Parity(cache)' /\ Parity(disk)' BY <1>3 DEF IInv, Parity
<1>9. OpInv'
  <2>1. CASE previous.state = "valid"
    BY <2>1, <1>3, <1>4, <1>5, <1>6 DEF OpInv, Empty
  <2>2. CASE previous = Empty /\ \A i \in Slots : cache[i] = Empty
    <3>1. record.sequence = 1 BY <2>2, <1>4 DEF Empty
    <3> QED BY <3>1, <2>2, <1>3, <1>4, <1>5 DEF OpInv, Slots
  <2> QED BY <2>1, <2>2, <1>6
<1>10. Synced' BY <1>3 DEF IInv, Synced
<1>11. Kept'
  <2> SUFFICES ASSUME acked # Empty PROVE \E i \in Slots : Keeps(i)'
    BY <1>3 DEF Kept
  <2>1. PICK i \in Slots : Keeps(i) BY DEF IInv, Kept
  <2>2. PICK k \in Slots : k = 1 - target BY <1>5 DEF Slots
  <2>3. previous.state = "valid" /\ cache[k] = previous
        /\ cache[i].sequence <= previous.sequence
    BY <2>1, <2>2, <1>6, <1>1 DEF Keeps, Empty
  <2>4. /\ acked.sequence \in Nat /\ cache[i].sequence \in Nat
        /\ previous.sequence \in Nat
    BY <1>1, <1>2 DEF IInv, TypeOK, SlotType
  <2>5. ASSUME previous.sequence = acked.sequence PROVE previous = acked
    <3>1. cache[i].sequence = previous.sequence
      BY <2>1, <2>3, <2>4, <2>5 DEF Keeps
    <3>2. i = k BY <3>1, <2>1, <2>2, <2>3, <1>1 DEF Parity, Keeps, Slots
    <3> QED BY <3>2, <2>1, <2>3, <2>5 DEF Keeps
  <2>6. k # target BY <2>2, <1>5 DEF Slots
  <2>7. Keeps(k)' BY <1>3, <2>1, <2>3, <2>4, <2>5, <2>6 DEF Keeps
  <2> QED BY <2>7
<1> QED BY <1>7, <1>8, <1>9, <1>10, <1>11 DEF IInv

\* Overwriting the target of the running write, with a torn prefix or with the
\* whole frame, disturbs neither the parity nor the kept slot.
LEMMA OverwriteStep ==
  ASSUME IInv, op.pc \in {"writing", "torn"},
         NEW slot \in {Invalid, op.record}, NEW pc \in {"torn", "written"},
         pc = "written" <=> slot = op.record,
         op' = [op EXCEPT !.pc = pc],
         cache' = [cache EXCEPT ![op.target] = slot],
         UNCHANGED <<header, handle, disk, tail, acked, reader>>
  PROVE  IInv'
<1>1. /\ op'.pc = pc /\ op'.target = op.target /\ op'.record = op.record
      /\ op.target \in Slots /\ op.record \in Records /\ slot \in SlotType
      /\ handle = "open" /\ tail # <<>>
  BY TypeFacts DEF IInv, TypeOK, OpType, OpInv
<1>2. /\ cache'[op.target] = slot
      /\ \A i \in Slots : i # op.target => cache'[i] = cache[i]
      /\ cache' \in [Slots -> SlotType]
  BY <1>1, TypeFacts
<1>3. op.target # 1 - op.target /\ 1 - op.target \in Slots
  BY <1>1 DEF Slots
<1>4. TypeOK' BY <1>1, <1>2 DEF IInv, TypeOK, OpType
<1>5. Parity(cache)'
  BY <1>1, <1>2, TypeFacts DEF IInv, Parity, OpInv
<1>6. Parity(disk)' BY DEF IInv, Parity
<1>7. OpInv' BY <1>1, <1>2, <1>3 DEF IInv, OpInv
<1>8. Synced'
  <2>1. slot.state = "valid" => pc = "written" BY <1>1, TypeFacts
  <2> QED BY <2>1, <1>1, <1>2 DEF IInv, Synced
<1>9. Kept'
  <2> SUFFICES ASSUME acked # Empty PROVE \E i \in Slots : Keeps(i)'
    BY DEF Kept
  <2>1. PICK i \in Slots : Keeps(i) BY DEF IInv, Kept
  <2>2. i # op.target BY <2>1 DEF Keeps
  <2>3. Keeps(i)' BY <2>1, <2>2, <1>1, <1>2 DEF Keeps
  <2> QED BY <2>3
<1> QED BY <1>4, <1>5, <1>6, <1>7, <1>8, <1>9 DEF IInv

\* Acknowledging a write: its slot is now the kept one.
LEMMA SyncStep == IInv /\ Sync => IInv'
<1> SUFFICES ASSUME IInv, Sync PROVE IInv'
  OBVIOUS
<1>1. /\ op.target \in Slots /\ op.record \in Records /\ tail # <<>>
      /\ cache[op.target] = op.record /\ cache \in [Slots -> SlotType]
  BY TypeFacts DEF Sync, IInv, OpInv
<1>2. op'.pc = "idle" BY <1>1, SettleStep DEF Sync
<1>3. TypeOK' BY <1>1, SettleStep DEF Sync, IInv, TypeOK
<1>4. Parity(cache)' /\ Parity(disk)' BY DEF Sync, IInv, Parity
<1>5. OpInv' BY <1>2 DEF OpInv
<1>6. Synced' BY <1>2 DEF Sync, Synced
<1>7. Kept'
  <2>1. PICK i \in Slots : cache[i] = op.record BY <1>1
  <2>2. op.record.state = "valid" /\ op.record.sequence \in 1..MaxSequence
    BY <1>1, TypeFacts
  <2>3. Keeps(i)' BY <2>1, <2>2, <1>2, BoundsAssumption DEF Sync, Keeps
  <2> QED BY <2>3 DEF Kept
<1> QED BY <1>3, <1>4, <1>5, <1>6, <1>7 DEF IInv

\* A crash, with or without loss of power, leaves the kept slot readable.
LEMMA CrashStep == IInv /\ Crash => IInv'
<1> SUFFICES ASSUME IInv, Crash PROVE IInv'
  OBVIOUS
<1>1. PICK survived \in [Slots -> SlotType] :
        /\ \A i \in Slots :
             survived[i] \in IF PowerLoss /\ cache[i] # disk[i]
                             THEN {cache[i], disk[i], Invalid} ELSE {cache[i]}
        /\ cache' = survived
        /\ disk' = IF PowerLoss THEN survived ELSE disk
  BY DEF Crash
<1>2. /\ op' = IdleOp /\ op'.pc = "idle" /\ reader' = IdleReader /\ tail' = <<>>
      /\ UNCHANGED <<header, acked>> /\ handle' = "closed"
  BY DEF Crash, IdleOp
<1>3. TypeOK'
  BY <1>1, <1>2, BoundsAssumption
  DEF IInv, TypeOK, OpType, ReaderType, IdleOp, IdleReader, Slots
<1>4. Parity(cache)' BY <1>1, TypeFacts DEF IInv, Parity
<1>5. Parity(disk)' BY <1>1, <1>4 DEF IInv, Parity
<1>6. OpInv' BY <1>2 DEF OpInv
<1>7. Synced' BY <1>1, <1>2 DEF Synced
<1>8. Kept'
  <2> SUFFICES ASSUME acked # Empty PROVE \E i \in Slots : Keeps(i)'
    BY <1>2 DEF Kept
  <2>1. PICK i \in Slots : Keeps(i) BY DEF IInv, Kept
  <2>2. PowerLoss => disk[i] = cache[i]
    BY <2>1 DEF Keeps, IInv, Synced
  <2>3. survived[i] = cache[i] BY <1>1, <2>2
  <2>4. Keeps(i)' BY <2>1, <2>3, <1>1, <1>2 DEF Keeps
  <2> QED BY <2>4
<1> QED BY <1>3, <1>4, <1>5, <1>6, <1>7, <1>8 DEF IInv

\* Opening the layout (openLayout) keeps the invariant.
LEMMA OpenStep == IInv /\ (OpenNew \/ OpenCreated \/ OpenExisting) => IInv'
<1> SUFFICES ASSUME IInv, OpenNew \/ OpenCreated \/ OpenExisting PROVE IInv'
  OBVIOUS
<1>1. op.pc = "idle"
  BY DEF IInv, OpInv, OpenNew, OpenCreated, OpenExisting
<1>2. TypeOK' BY DEF IInv, TypeOK, OpenNew, OpenCreated, OpenExisting
<1> QED BY <1>1, <1>2, QuietStep DEF OpenNew, OpenCreated, OpenExisting

\* A write that joins the chain, or is refused before its slot, keeps it.
LEMMA RequestStep ==
  ASSUME IInv, NEW f \in Frames, RequestWrite(f)
  PROVE  IInv'
<1>1. tail' \in Seq(Frames) /\ tail' # <<>>
  BY DEF RequestWrite, IInv, TypeOK
<1>2. reader' \in ReaderType
  <2>1. reader \in ReaderType BY DEF IInv, TypeOK
  <2>2. CASE reader.pc = "idle" BY <2>1, <2>2 DEF RequestWrite
  <2>3. CASE reader.pc # "idle"
    <3>1. reader.overlap + 1 \in 0..MaxOverlap
      BY <2>1, <2>3, BoundsAssumption DEF RequestWrite, ReaderType
    <3>2. reader' = [reader EXCEPT !.overlap = reader.overlap + 1]
      BY <2>3 DEF RequestWrite
    <3> QED BY <2>1, <3>1, <3>2 DEF ReaderType
  <2> QED BY <2>2, <2>3
<1>3. TypeOK' BY <1>1, <1>2 DEF RequestWrite, IInv, TypeOK
<1> QED BY <1>1, <1>3, QuietStep DEF RequestWrite

\* recover() changes only what its caller sees.
LEMMA ReaderStep == IInv /\ (Recover \/ Read) => IInv'
<1> SUFFICES ASSUME IInv, Recover \/ Read PROVE IInv'
  OBVIOUS
<1>1. UNCHANGED <<header, handle, cache, disk, tail, op, acked>>
  BY DEF Recover, Read, StartReading, ReadSlot, RecoverReturns
<1>2. /\ reader \in ReaderType /\ IdleReader \in ReaderType
      /\ acked.sequence \in 0..MaxSequence /\ Len(tail) \in Nat
  BY BoundsAssumption, TypeFacts
  DEF IInv, TypeOK, ReaderType, IdleReader, Empty, Records
<1>3. reader' \in ReaderType
  <2>1. CASE Recover BY <2>1, <1>2 DEF Recover, ReaderType, IdleReader
  <2>2. CASE StartReading BY <2>2, <1>2 DEF StartReading, ReaderType
  <2>3. CASE \E i \in Slots : ReadSlot(i)
    BY <2>3, <1>2, TypeFacts DEF ReadSlot, ReaderType
  <2>4. CASE RecoverReturns BY <2>4, <1>2 DEF RecoverReturns
  <2> QED BY <2>1, <2>2, <2>3, <2>4 DEF Read
<1>4. TypeOK' BY <1>1, <1>3 DEF IInv, TypeOK
<1>5. op.pc # "idle" => handle' = "open" /\ tail' # <<>>
  BY <1>1 DEF IInv, OpInv
<1> QED BY <1>1, <1>4, <1>5, QuietStep

\* Every step of #write keeps the invariant.
LEMMA WriteStep == IInv /\ Write => IInv'
<1> SUFFICES ASSUME IInv, Write PROVE IInv'
  OBVIOUS
<1>1. CASE RejectWrite
  BY <1>1, SettleKeeps DEF RejectWrite
<1>2. CASE StartWrite
  BY <1>2, StartWriteStep
<1>3. CASE TearSlot
  BY <1>3, OverwriteStep, TypeFacts DEF TearSlot, IInv, OpInv
<1>4. CASE FillSlot
  BY <1>4, OverwriteStep DEF FillSlot
<1>5. CASE FailWrite
  BY <1>5, SettleKeeps DEF FailWrite, IInv, OpInv
<1>6. CASE Sync
  BY <1>6, SyncStep
<1>7. CASE FailSync
  BY <1>7, SettleKeeps, FaultAssumption DEF FailSync, IInv, OpInv
<1> QED BY <1>1, <1>2, <1>3, <1>4, <1>5, <1>6, <1>7 DEF Write

\* Every step keeps the invariant.
LEMMA NextIInv == IInv /\ [Next]_vars => IInv'
<1> SUFFICES ASSUME IInv, [Next]_vars PROVE IInv'
  OBVIOUS
<1>1. CASE OpenNew \/ OpenCreated \/ OpenExisting BY <1>1, OpenStep
<1>2. CASE \E f \in Frames : RequestWrite(f) BY <1>2, RequestStep
<1>3. CASE Write BY <1>3, WriteStep
<1>4. CASE Recover \/ Read BY <1>4, ReaderStep
<1>5. CASE Crash BY <1>5, CrashStep
<1>6. CASE UNCHANGED vars
  <2>1. UNCHANGED <<header, handle, cache, disk, tail, op, acked, reader>>
    BY <1>6 DEF vars
  <2>2. TypeOK' BY <2>1 DEF IInv, TypeOK
  <2>3. op.pc # "idle" => handle' = "open" /\ tail' # <<>>
    BY <2>1 DEF IInv, OpInv
  <2> QED BY <2>1, <2>2, <2>3, QuietStep
<1> QED BY <1>1, <1>2, <1>3, <1>4, <1>5, <1>6 DEF Next

\* The inductive invariant holds in every state: the slots follow the parity
\* rule, and the slot of the last acknowledged frame is never the target.
THEOREM Invariance == Spec => []IInv
<1> QED BY InitIInv, NextIInv, PTL DEF Spec

\* Every state of the journal is well typed (recovery-journal.ts as a whole).
THEOREM TypeCorrect == Spec => []TypeOK
<1>1. IInv => TypeOK BY DEF IInv
<1> QED BY <1>1, Invariance, PTL

\* #write never leaves two slots with the same sequence, so the "conflicting
\* sequences" branch of #readLatest is unreachable.
THEOREM SequencesDifferHolds == Spec => []SequencesDiffer
<1>1. IInv => SequencesDiffer
  BY DEF IInv, Parity, SequencesDiffer, ValidIn, Slots
<1> QED BY <1>1, Invariance, PTL

\* An acknowledged frame, or a later one, is what the file decodes to at every
\* instant and after every crash.
THEOREM AckedRecoverableHolds == Spec => []AckedRecoverable
<1>1. IInv => AckedRecoverable
  <2> SUFFICES ASSUME IInv, acked # Empty
               PROVE  LET latest == ReadLatest(cache) IN
                      /\ latest.state = "valid"
                      /\ latest.sequence >= acked.sequence
                      /\ latest.sequence = acked.sequence => latest = acked
    BY DEF AckedRecoverable
  <2>1. PICK i \in Slots : Keeps(i) BY DEF IInv, Kept
  <2>2. /\ cache \in [Slots -> SlotType] /\ Parity(cache)
        /\ acked.sequence \in Nat
    BY TypeFacts DEF IInv, TypeOK
  <2>3. ReadLatest(cache).state = "valid" BY <2>1, <2>2, LatestFacts DEF Keeps
  <2>4. PICK k \in Slots :
          /\ cache[k] = ReadLatest(cache)
          /\ \A j \in Slots : cache[j].state = "valid"
                                => cache[j].sequence <= cache[k].sequence
    BY <2>2, <2>3, LatestFacts
  <2>5. /\ cache[i].sequence \in Nat /\ cache[k].sequence \in Nat
        /\ cache[k].state = "valid" /\ cache[i].state = "valid"
    BY <2>1, <2>3, <2>4, TypeFacts DEF Keeps
  <2>6. cache[k].sequence >= acked.sequence
    BY <2>1, <2>2, <2>4, <2>5 DEF Keeps
  <2>7. ASSUME cache[k].sequence = acked.sequence PROVE cache[k] = acked
    <3>1. cache[i].sequence = cache[k].sequence
      BY <2>1, <2>2, <2>4, <2>5, <2>7 DEF Keeps
    <3>2. i = k BY <3>1, <2>2, <2>5 DEF Parity, Slots
    <3> QED BY <3>2, <2>1, <2>7 DEF Keeps
  <2> QED BY <2>3, <2>4, <2>6, <2>7
<1> QED BY <1>1, Invariance, PTL

-----------------------------------------------------------------------------
(***************************************************************************)
(* The Recovery Journal implements the durable register its client relies  *)
(* on (FrameRegister): every step of a write either leaves what a read     *)
(* returns alone or makes the whole new frame appear at once, and after a  *)
(* crash a read returns what it returned before or what was acknowledged.  *)
(***************************************************************************)

\* The slot beside i holds what the device holds, and is the newer of the two.
Behind(i) ==
  /\ disk[1 - i] = cache[1 - i]
  /\ \/ /\ disk[1 - i].state = "valid"
        /\ disk[i].state = "valid" => disk[i].sequence < disk[1 - i].sequence
     \/ disk[0] = Empty /\ disk[1] = Empty

\* At most one slot differs from the device, and it is behind the other.
Lagging ==
  PowerLoss =>
    /\ \A i \in Slots : disk[i] # cache[i] => Behind(i)
    /\ op.pc # "idle" => Behind(op.target)
    /\ \A i \in Slots : cache[i] = Empty => disk[i] = Empty

\* The running write carries the frame at the head of the chain, and until it
\* is whole the other slot is what a read returns.
Serving ==
  /\ op.pc # "idle" => op.record.frame = Head(tail)
  /\ op.pc = "writing" =>
       /\ cache[1 - op.target] = Empty => cache[op.target] = Empty
       /\ cache[op.target].state = "valid"
            => cache[op.target].sequence < op.record.sequence

RInv == IInv /\ Lagging /\ Serving

\* What a read returns when only slot i can be the newest.
LEMMA NewestIs ==
  ASSUME NEW file \in [Slots -> SlotType], Parity(file), NEW i \in Slots,
         file[i].state = "valid",
         file[1 - i].state = "valid" => file[1 - i].sequence < file[i].sequence
  PROVE  ReadLatest(file) = file[i]
<1>1. PICK k \in Slots :
        /\ file[k] = ReadLatest(file)
        /\ \A j \in Slots : file[j].state = "valid"
                              => file[j].sequence <= file[k].sequence
  BY LatestFacts
<1>2. /\ file[k].state = "valid" /\ file[i].sequence \in Nat
      /\ file[k].sequence \in Nat
  BY <1>1, LatestFacts DEF SlotType, Records, Empty, Invalid
<1>3. file[i].sequence <= file[k].sequence BY <1>1
<1>4. k = i BY <1>2, <1>3 DEF Slots
<1> QED BY <1>1, <1>4

\* What a read returns when neither slot decodes.
LEMMA NothingDecodes ==
  ASSUME NEW file \in [Slots -> SlotType], Parity(file),
         \A i \in Slots : file[i].state # "valid",
         \E i \in Slots : file[i] # Empty
  PROVE  ReadLatest(file) = Invalid
<1>1. ReadLatest(file) \in SlotType /\ ReadLatest(file) # Empty
      /\ ReadLatest(file).state # "valid"
  BY LatestFacts
<1> QED BY <1>1 DEF SlotType, Records

\* The invariant the refinement uses holds initially.
LEMMA InitRInv == Init => RInv
<1> SUFFICES ASSUME Init PROVE RInv
  OBVIOUS
<1>1. Lagging BY DEF Init, Lagging, IdleOp, Slots
<1>2. Serving BY DEF Init, Serving, IdleOp
<1> QED BY <1>1, <1>2, InitIInv DEF RInv

\* Steps that leave the slots and the device alone, and no write running or
\* the running one as it is.
LEMMA QuietLagging ==
  ASSUME RInv, UNCHANGED <<cache, disk>>,
         op'.pc = "idle" \/ (op' = op /\ tail' # <<>> /\ Head(tail') = Head(tail))
  PROVE  Lagging' /\ Serving'
<1>1. Lagging' BY DEF RInv, Lagging, Behind
<1>2. Serving' BY DEF RInv, Serving
<1> QED BY <1>1, <1>2

\* The start of a write keeps what is known of the device behind the cache.
LEMMA StartWriteLagging ==
  ASSUME RInv, StartWrite, IInv'
  PROVE  Lagging' /\ Serving'
<1> DEFINE t == op'.target
<1>1. /\ t \in Slots /\ 1 - t \in Slots /\ t # 1 - t
      /\ \A i \in Slots : i = t \/ i = 1 - t
      /\ op'.pc = "writing" /\ op.pc = "idle"
      /\ UNCHANGED <<cache, disk, tail>>
      /\ op'.record.frame = Head(tail)
      /\ op'.record.sequence \in Nat /\ op'.record.sequence % 2 = 1 - t
  <2>1. op'.record \in Records /\ op'.target \in Slots
        /\ op'.record.sequence % 2 = 1 - op'.target
    BY DEF StartWrite, IInv, TypeOK, OpType, OpInv
  <2> QED BY <2>1 DEF StartWrite, Record, Slots, Records
<1>2. /\ \/ /\ cache[1 - t].state = "valid"
            /\ op'.record.sequence = cache[1 - t].sequence + 1
         \/ cache[1 - t] = Empty /\ op'.record.sequence = 1
  BY <1>1 DEF IInv, OpInv
<1>3. cache \in [Slots -> SlotType] /\ Parity(cache)
      /\ disk \in [Slots -> SlotType] /\ Parity(disk)
  BY DEF RInv, IInv, TypeOK
<1>4. \A i \in Slots : cache[i].state = "valid" => cache[i].sequence \in Nat
  BY <1>3 DEF SlotType, Records, Empty, Invalid
<1>5. cache[1 - t] = Empty => cache[t] = Empty
  <2> SUFFICES ASSUME cache[1 - t] = Empty PROVE cache[t] = Empty
    OBVIOUS
  <2>1. ReadLatest(cache).sequence = 0
    BY <1>1, <1>2, <1>3, LatestFacts
    DEF StartWrite, Record, NextSequence, Empty, SlotType, Records, Invalid
  <2>2. ReadLatest(cache) = Empty
    BY <2>1, <1>3, LatestFacts
    DEF StartWrite, WriteAdmissible, SlotType, Records
  <2> QED BY <2>2, <1>1, <1>3, LatestFacts
<1>6. cache[t].state = "valid" => cache[t].sequence < op'.record.sequence
  <2> SUFFICES ASSUME cache[t].state = "valid"
               PROVE  cache[t].sequence < op'.record.sequence
    OBVIOUS
  <2>1. cache[t].sequence <= ReadLatest(cache).sequence
        /\ op'.record.sequence = ReadLatest(cache).sequence + 1
    BY <1>1, <1>3, LatestFacts DEF StartWrite, Record, NextSequence
  <2>2. ReadLatest(cache).sequence \in Nat
    BY <1>3, LatestFacts DEF SlotType, Records, Empty, Invalid
  <2> QED BY <2>1, <2>2, <1>1, <1>4
<1>7. ASSUME PowerLoss PROVE Behind(t)
  <2>1. CASE cache[1 - t] = Empty
    BY <2>1, <1>5, <1>1, <1>7 DEF RInv, Lagging, Behind, Slots
  <2>2. CASE cache[1 - t].state = "valid"
    <3>1. disk[1 - t] = cache[1 - t]
      BY <2>2, <1>1, <1>7 DEF RInv, IInv, Synced
    <3>2. CASE disk[t] = cache[t]
      <4>1. ASSUME cache[t].state = "valid"
            PROVE  cache[t].sequence < cache[1 - t].sequence
        <5>1. cache[t].sequence < cache[1 - t].sequence + 1
          BY <4>1, <1>6, <1>2, <2>2 DEF Empty
        <5>2. cache[t].sequence # cache[1 - t].sequence
          BY <4>1, <2>2, <1>1, <1>3 DEF Parity, Slots
        <5> QED BY <5>1, <5>2, <4>1, <2>2, <1>1, <1>4
      <4> QED BY <4>1, <3>1, <3>2, <2>2 DEF Behind
    <3>3. CASE disk[t] # cache[t]
      BY <3>3, <1>1, <1>7 DEF RInv, Lagging
    <3> QED BY <3>2, <3>3
  <2> QED BY <2>1, <2>2, <1>2
<1>8. Lagging' BY <1>1, <1>7 DEF RInv, Lagging, Behind
<1>9. Serving' BY <1>1, <1>5, <1>6 DEF Serving
<1> QED BY <1>8, <1>9

\* Bytes written to the target slot, torn or whole.
LEMMA OverwriteLagging ==
  ASSUME RInv, TearSlot \/ FillSlot
  PROVE  Lagging' /\ Serving'
<1> DEFINE t == op.target
<1>1. /\ t \in Slots /\ 1 - t \in Slots /\ t # 1 - t /\ op.pc # "idle"
      /\ \A i \in Slots : i = t \/ i = 1 - t
      /\ op' = [op EXCEPT !.pc = op'.pc] /\ op'.pc \in {"torn", "written"}
      /\ op'.target = t /\ op'.record = op.record
      /\ UNCHANGED <<disk, tail>>
      /\ cache'[t] # Empty /\ cache'[1 - t] = cache[1 - t]
  <2>1. op.record \in Records /\ op.pc # "idle"
    BY DEF RInv, IInv, OpInv, TearSlot, FillSlot
  <2>2. op.record # Empty /\ Invalid # Empty
    BY <2>1 DEF Records, Invalid, Empty
  <2> QED BY <2>1, <2>2, TypeFacts
          DEF RInv, IInv, TypeOK, OpType, Slots, TearSlot, FillSlot
<1>2. ASSUME PowerLoss
      PROVE  Behind(t)' /\ disk[1 - t] = cache[1 - t]
  BY <1>1, <1>2 DEF RInv, Lagging, Behind
<1>3. Lagging' BY <1>1, <1>2 DEF RInv, Lagging, Behind
<1>4. Serving' BY <1>1 DEF RInv, Serving
<1> QED BY <1>3, <1>4

\* After a sync the device is not behind the cache.
LEMMA SyncLagging ==
  ASSUME RInv, Sync
  PROVE  Lagging' /\ Serving'
<1>1. op'.pc = "idle" /\ disk' = cache /\ cache' = cache
  BY DEF Sync, Settle, IdleOp
<1> QED BY <1>1 DEF Lagging, Serving

\* After a crash the slots are what the device held.
LEMMA CrashLagging ==
  ASSUME RInv, Crash
  PROVE  Lagging' /\ Serving'
<1>1. op'.pc = "idle" /\ (PowerLoss => disk' = cache')
  BY DEF Crash, IdleOp
<1> QED BY <1>1 DEF Lagging, Serving

\* Every step keeps the invariant the refinement uses.
LEMMA NextRInv == RInv /\ [Next]_vars => RInv'
<1> SUFFICES ASSUME RInv, [Next]_vars PROVE RInv'
  OBVIOUS
<1>1. IInv /\ IInv' BY NextIInv DEF RInv
<1>2. op.pc # "idle" => tail # <<>> BY <1>1 DEF IInv, OpInv
<1>3. CASE OpenNew \/ OpenCreated \/ OpenExisting \/ Recover \/ Read
           \/ UNCHANGED vars
  <2>1. UNCHANGED <<cache, disk, op, tail>>
    BY <1>3 DEF OpenNew, OpenCreated, OpenExisting, Recover, Read,
                StartReading, ReadSlot, RecoverReturns, vars
  <2> QED BY <2>1, <1>1, <1>2, QuietLagging DEF RInv
<1>4. ASSUME NEW f \in Frames, RequestWrite(f) PROVE RInv'
  <2>1. UNCHANGED <<cache, disk, op>> /\ tail' = Append(tail, f)
    BY <1>4 DEF RequestWrite
  <2>2. tail \in Seq(Frames) BY <1>1 DEF IInv, TypeOK
  <2>3. op.pc # "idle" => tail' # <<>> /\ Head(tail') = Head(tail)
    BY <2>1, <2>2, <1>2
  <2> QED BY <2>1, <2>3, <1>1, QuietLagging DEF RInv
<1>5. CASE RejectWrite \/ FailWrite \/ FailSync
  <2>1. UNCHANGED <<cache, disk>> /\ op'.pc = "idle"
    BY <1>5 DEF RejectWrite, FailWrite, FailSync, Settle, IdleOp
  <2> QED BY <2>1, <1>1, QuietLagging DEF RInv
<1>6. CASE StartWrite BY <1>6, <1>1, StartWriteLagging DEF RInv
<1>7. CASE TearSlot \/ FillSlot BY <1>7, <1>1, OverwriteLagging DEF RInv
<1>8. CASE Sync BY <1>8, <1>1, SyncLagging DEF RInv
<1>9. CASE Crash BY <1>9, <1>1, CrashLagging DEF RInv
<1> QED BY <1>3, <1>4, <1>5, <1>6, <1>7, <1>8, <1>9 DEF Next, Write

-----------------------------------------------------------------------------
\* The register's value as the refinement maps it.
Value == ValueOf(ReadLatest(cache))
Durable == ValueOf(ReadLatest(disk))

\* The value of a slot's record is a frame, and none or damaged otherwise.
LEMMA ValueFacts ==
  /\ ValueOf(Empty) = Nothing /\ ValueOf(Invalid) = Damaged
  /\ \A r \in Records : ValueOf(r) = r.frame
                        /\ r.frame \notin {Nothing, Damaged}
BY FramesAssumption DEF ValueOf, Empty, Invalid, Records

\* The initial states of the journal are initial states of the register.
LEMMA InitRefines == Init => Register!Init
<1> SUFFICES ASSUME Init PROVE Register!Init
  OBVIOUS
<1>1. RInv BY InitRInv
<1>2. ReadLatest(cache) = Empty /\ ReadLatest(disk) = Empty
  BY <1>1, LatestFacts DEF RInv, IInv, TypeOK, Init
<1> QED BY <1>2, ValueFacts DEF Init, Register!Init, IdleOp

\* Bytes of the running write: the torn prefix changes nothing a read returns
\* unless no frame was ever written, and the whole frame appears at once.
LEMMA TearRefines ==
  ASSUME RInv, TearSlot, RInv'
  PROVE  Register!Damage \/ UNCHANGED Register!vars
<1> DEFINE t == op.target
<1>1. /\ t \in Slots /\ 1 - t \in Slots /\ 1 - (1 - t) = t
      /\ \A i \in Slots : i = t \/ i = 1 - t
      /\ op.pc = "writing" /\ op'.pc = "torn"
      /\ UNCHANGED <<disk, tail, acked>>
      /\ cache'[t] = Invalid /\ cache'[1 - t] = cache[1 - t]
      /\ cache \in [Slots -> SlotType] /\ Parity(cache)
      /\ cache' \in [Slots -> SlotType] /\ Parity(cache')
      /\ Invalid.state = "invalid" /\ Invalid # Empty
  BY TypeFacts DEF RInv, IInv, TypeOK, OpType, Slots, TearSlot, Invalid, Empty
<1>2. CASE cache[1 - t].state = "valid"
  <2>1. cache[t].state = "valid" => cache[t].sequence < cache[1 - t].sequence
    <3> SUFFICES ASSUME cache[t].state = "valid"
                 PROVE  cache[t].sequence < cache[1 - t].sequence
      OBVIOUS
    <3>1. cache[t].sequence < cache[1 - t].sequence + 1
      BY <1>1, <1>2 DEF RInv, IInv, OpInv, Serving, Empty
    <3>2. cache[t].sequence # cache[1 - t].sequence
      BY <1>1, <1>2 DEF Parity, Slots
    <3>3. cache[t].sequence \in Nat /\ cache[1 - t].sequence \in Nat
      BY <1>1 DEF SlotType, Records, Empty, Invalid
    <3> QED BY <3>1, <3>2, <3>3
  <2>2. ReadLatest(cache) = cache[1 - t] BY <2>1, <1>1, <1>2, NewestIs
  <2>3. ReadLatest(cache') = cache'[1 - t] BY <1>1, <1>2, NewestIs
  <2>4. Value' = Value BY <2>2, <2>3, <1>1 DEF Value
  <2> QED BY <2>4, <1>1 DEF Register!vars, Value
<1>3. CASE cache[1 - t] = Empty
  <2>1. \A i \in Slots : cache[i] = Empty
    BY <1>1, <1>3 DEF RInv, Serving
  <2>2. ReadLatest(cache) = Empty BY <2>1, <1>1, LatestFacts
  <2>3. \A i \in Slots : cache'[i].state # "valid"
    BY <1>1, <1>3 DEF Empty
  <2>4. ReadLatest(cache') = Invalid BY <2>3, <1>1, NothingDecodes
  <2> QED BY <2>2, <2>4, <1>1, ValueFacts DEF Register!Damage
<1> QED BY <1>1, <1>2, <1>3 DEF RInv, IInv, OpInv

\* The whole frame in its slot is the register's taking effect.
LEMMA FillRefines ==
  ASSUME RInv, FillSlot, RInv'
  PROVE  Register!TakeEffect
<1> DEFINE t == op.target
<1>1. /\ t \in Slots /\ 1 - t \in Slots /\ op.pc # "idle" /\ op'.pc # "idle"
      /\ UNCHANGED <<disk, tail, acked>>
      /\ cache'[t] = op.record /\ cache'[1 - t] = cache[1 - t]
      /\ op.record \in Records /\ op.record.state = "valid"
      /\ cache \in [Slots -> SlotType]
      /\ cache' \in [Slots -> SlotType] /\ Parity(cache')
  BY TypeFacts DEF RInv, IInv, OpInv, TypeOK, OpType, Slots, FillSlot
<1>2. cache'[1 - t].state = "valid" => cache'[1 - t].sequence < op.record.sequence
  <2>1. cache[1 - t].sequence \in Nat
    BY <1>1 DEF SlotType, Records, Empty, Invalid
  <2> QED BY <2>1, <1>1 DEF RInv, IInv, OpInv, Empty
<1>3. ReadLatest(cache') = op.record BY <1>1, <1>2, NewestIs
<1>4. ValueOf(ReadLatest(cache')) = Head(tail)
  BY <1>1, <1>3, ValueFacts DEF RInv, Serving
<1> QED BY <1>1, <1>4 DEF Register!TakeEffect

\* The start of a write is the start of a write of the register.
LEMMA StartRefines ==
  ASSUME RInv, StartWrite
  PROVE  Register!Begin
<1>1. /\ tail # <<>> /\ op.pc = "idle" /\ op'.pc # "idle"
      /\ UNCHANGED <<cache, disk, tail, acked>>
      /\ ReadLatest(cache) # Invalid
  BY DEF StartWrite, WriteAdmissible
<1>2. ReadLatest(cache) \in SlotType
  BY LatestFacts DEF RInv, IInv, TypeOK
<1>3. ValueOf(ReadLatest(cache)) # Damaged
  BY <1>1, <1>2, ValueFacts, FramesAssumption DEF SlotType
<1> QED BY <1>1, <1>3 DEF Register!Begin

\* A write that fails or is refused is a failed write of the register.
LEMMA SettleRefines ==
  ASSUME RInv, RejectWrite \/ FailWrite \/ FailSync
  PROVE  Register!Fail
<1>1. tail # <<>> /\ UNCHANGED <<cache, disk, acked>>
      /\ tail' = Tail(tail) /\ op'.pc = "idle"
  BY DEF RejectWrite, FailWrite, FailSync, Settle, IdleOp, RInv, IInv, OpInv
<1> QED BY <1>1 DEF Register!Fail

\* The acknowledgement of a write is the register's.
LEMMA SyncRefines ==
  ASSUME RInv, Sync
  PROVE  Register!Acknowledge
<1> DEFINE t == op.target
<1>1. /\ t \in Slots /\ 1 - t \in Slots /\ op.pc # "idle" /\ op'.pc = "idle"
      /\ disk' = cache /\ cache' = cache /\ tail' = Tail(tail)
      /\ cache[t] = op.record /\ acked' = op.record
      /\ op.record \in Records /\ op.record.state = "valid"
      /\ cache \in [Slots -> SlotType] /\ Parity(cache)
  BY TypeFacts
  DEF RInv, IInv, OpInv, TypeOK, OpType, Slots, Sync, Settle, IdleOp
<1>2. cache[1 - t].state = "valid" => cache[1 - t].sequence < op.record.sequence
  <2>1. cache[1 - t].sequence \in Nat
    BY <1>1 DEF SlotType, Records, Empty, Invalid
  <2> QED BY <2>1, <1>1 DEF RInv, IInv, OpInv, Empty
<1>3. ReadLatest(cache) = op.record BY <1>1, <1>2, NewestIs
<1>4. ValueOf(ReadLatest(cache)) = Head(tail)
  BY <1>1, <1>3, ValueFacts DEF RInv, Serving
<1>5. ValueOf(acked') = ValueOf(ReadLatest(cache)) BY <1>1, <1>3
<1> QED BY <1>1, <1>4, <1>5 DEF Register!Acknowledge

\* After a crash the slots decode to what they did, or to what was durable, or,
\* when no write was ever acknowledged, to a damaged journal.
LEMMA CrashRefines ==
  ASSUME RInv, Crash, RInv'
  PROVE  Register!Crash
<1>1. PICK survived \in [Slots -> SlotType] :
        /\ \A i \in Slots :
             survived[i] \in IF PowerLoss /\ cache[i] # disk[i]
                             THEN {cache[i], disk[i], Invalid} ELSE {cache[i]}
        /\ cache' = survived
        /\ disk' = IF PowerLoss THEN survived ELSE disk
  BY DEF Crash
<1>2. /\ op'.pc = "idle" /\ tail' = <<>> /\ acked' = acked
      /\ cache \in [Slots -> SlotType] /\ disk \in [Slots -> SlotType]
      /\ Parity(cache) /\ Parity(disk) /\ Parity(survived)
  BY <1>1 DEF Crash, IdleOp, RInv, IInv, TypeOK
<1>3. CASE survived = cache
  BY <1>1, <1>2, <1>3 DEF Register!Crash
<1>4. CASE survived # cache
  <2>1. PICK i \in Slots : survived[i] # cache[i] BY <1>1, <1>2, <1>4
  <2>2. PowerLoss /\ cache[i] # disk[i] /\ survived[i] \in {disk[i], Invalid}
    BY <1>1, <2>1
  <2>3. Behind(i) BY <2>2 DEF RInv, Lagging
  <2>4. /\ 1 - i \in Slots /\ \A j \in Slots : j = i \/ j = 1 - i
        /\ 1 - (1 - i) = i
    BY DEF Slots
  <2>5. survived[1 - i] = disk[1 - i] BY <2>3, <2>4, <1>1 DEF Behind
  <2>6. CASE survived[i] = disk[i]
    <3>1. survived = disk BY <2>4, <2>5, <2>6, <1>1, <1>2
    <3> QED BY <3>1, <2>2, <1>1, <1>2 DEF Register!Crash
  <2>7. CASE survived[i] = Invalid /\ disk[1 - i].state = "valid"
    <3>1. /\ disk[1 - i].state = "valid"
          /\ disk[1 - (1 - i)].state = "valid"
               => disk[1 - (1 - i)].sequence < disk[1 - i].sequence
      BY <2>7, <2>3, <2>4 DEF Behind, Empty, Slots
    <3>2. ReadLatest(disk) = disk[1 - i] BY <3>1, <2>4, <1>2, NewestIs
    <3>3. ReadLatest(survived) = survived[1 - i]
      BY <2>7, <2>4, <2>5, <1>2, NewestIs DEF Invalid
    <3> QED BY <3>2, <3>3, <2>2, <2>5, <1>1, <1>2 DEF Register!Crash
  <2>8. CASE survived[i] = Invalid /\ \A j \in Slots : disk[j] = Empty
    <3>1. ReadLatest(disk) = Empty BY <2>8, <1>2, LatestFacts
    <3>2. ReadLatest(survived) = Invalid
      BY <2>8, <2>4, <2>5, <1>2, NothingDecodes DEF Invalid, Empty
    <3> QED BY <3>1, <3>2, <2>2, <1>1, <1>2, ValueFacts DEF Register!Crash
  <2> QED BY <2>2, <2>3, <2>6, <2>7, <2>8 DEF Behind, Slots
<1> QED BY <1>3, <1>4

\* Every step of the journal is a step of the register, or none.
LEMMA StepRefines ==
  ASSUME RInv, RInv', [Next]_vars
  PROVE  [Register!Next]_(Register!vars)
<1>1. CASE OpenNew \/ OpenCreated \/ OpenExisting \/ Recover \/ Read
           \/ UNCHANGED vars
  <2>1. UNCHANGED <<cache, disk, op, tail, acked>>
    BY <1>1 DEF OpenNew, OpenCreated, OpenExisting, Recover, Read,
                StartReading, ReadSlot, RecoverReturns, vars
  <2> QED BY <2>1 DEF Register!vars
<1>2. ASSUME NEW f \in Frames, RequestWrite(f) PROVE Register!Next
  <2>1. Register!Request(f) BY <1>2 DEF RequestWrite, Register!Request
  <2> QED BY <2>1 DEF Register!Next
<1>3. CASE RejectWrite \/ FailWrite \/ FailSync
  BY <1>3, SettleRefines DEF Register!Next
<1>4. CASE StartWrite BY <1>4, StartRefines DEF Register!Next
<1>5. CASE TearSlot BY <1>5, TearRefines DEF Register!Next
<1>6. CASE FillSlot BY <1>6, FillRefines DEF Register!Next
<1>7. CASE Sync BY <1>7, SyncRefines DEF Register!Next
<1>8. CASE Crash BY <1>8, CrashRefines DEF Register!Next
<1> QED BY <1>1, <1>2, <1>3, <1>4, <1>5, <1>6, <1>7, <1>8 DEF Next, Write

\* The two-slot file implements the durable register (FrameRegister): what
\* the executor reads after a restart is the last frame it was told is
\* durable, or the single one it was writing.
THEOREM JournalImplementsRegister == Spec => ImplementsRegister
<1>1. Spec => []RInv BY InitRInv, NextRInv, PTL DEF Spec
<1>2. Spec => Register!Init /\ [][Register!Next]_(Register!vars)
  BY <1>1, InitRefines, StepRefines, PTL DEF Spec
<1> QED BY <1>2 DEF ImplementsRegister, Register!Spec
=============================================================================
