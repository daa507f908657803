---------------------------- MODULE BridgeProofs ----------------------------
(***************************************************************************)
(* Theorems about one Bridge.  Its Change Set service, for every number of *)
(* Change Sets, paths, crashes and errors: with errors of every kind, and  *)
(* third-party writes inside every window, what the journal covers, what   *)
(* "applied" means, the order of application, and that a pause drains;     *)
(* while the stores and third parties behave, that the service is atomic,  *)
(* what its other two outcomes say, and that it spares what others wrote.  *)
(* Its Managed Vaults, for any number of directories, ports and requests:  *)
(* the identity that is served, and what stop() leaves.                    *)
(***************************************************************************)
EXTENDS MCManagedVault, SequenceTheorems, TLAPS


\* The steps of #executeMutation after its locked preflight; those with a
\* PREPARED frame behind them; the steps of a restore before its outcome.
Driving == {"prepare", "begin", "stage", "publish", "confirm", "commit",
            "committed"}
Mutating == {"begin", "stage", "publish", "confirm", "commit"}
Restoring == {"plan", "undo", "roll back", "rolled back", "fail",
              "unprove and throw"}

\* Registered Change Sets are numbered, each number is used once, and a
\* preview binds bytes of Change Sets that were registered earlier.
Known(c) == state[c] # "none"
Registered ==
  /\ \A c \in ChangeSets : Known(c) => enqueueSeq[c] \in 1..(nextEnqueueSeq - 1)
  /\ \A c, d \in ChangeSets :
       Known(c) /\ Known(d) /\ enqueueSeq[c] = enqueueSeq[d] => c = d
Previews ==
  \A c \in ChangeSets : Known(c) =>
    \A p \in Footprint[c] :
      /\ before[c][p] \in Values
      /\ before[c][p] \in ChangeSets =>
           /\ Known(before[c][p])
           /\ enqueueSeq[before[c][p]] < enqueueSeq[c]

\* The newest frame's Change Set, while it is unfinished, heads the queue.
Journaled ==
  journal \in Frames =>
    /\ Known(journal.id)
    /\ InProgress(journal.id) => HeadOf(journal.id)

\* Bytes of Change Sets come from known ones, and bytes of an unfinished one
\* are the business of the newest frame.
Covered(c) == journal \in Frames /\ journal.id = c
Effects ==
  \A p \in Paths : vault[p] \in ChangeSets =>
    /\ Known(vault[p])
    /\ InProgress(vault[p]) => Covered(vault[p])

\* Whoever is applied, or journaled as committed, was wholly in the vault.
Applied ==
  /\ \A c \in ChangeSets : AsPublished(c) => c \in whole
  /\ \A c \in ChangeSets : state[c] = "intent_applied" => c \in whole
  /\ journal \in Frames /\ journal.phase = "COMMITTED" => journal.id \in whole

StoreTypes ==
  /\ vault \in [Paths -> Values] /\ whole \subseteq ChangeSets
  /\ journal \in Frames \cup {None, Damaged}
  /\ state \in [ChangeSets -> States]
StoreInv == StoreTypes /\ Registered /\ Previews /\ Journaled /\ Effects /\ Applied

\* The running job handles the head of the queue, which the newest frame is
\* about from PREPARED on; it touches only its footprint.
Running ==
  /\ run.pc = "idle" <=> run.kind = "idle"
  /\ run.pc \in Driving \cup Restoring => HeadOf(run.id)
  /\ run.pc \in Mutating \cup Restoring \cup {"unprove"} => Covered(run.id)
  /\ run.pc \in {"confirm", "commit", "committed"} => run.id \in whole
  /\ run.pc \in {"plan", "undo"} =>
       run.left \subseteq Footprint[run.id] /\ run.actions \subseteq Footprint[run.id]

\* The jobs that hold the leases are at the head of their queues.
Leases ==
  /\ run.kind \in {"submit", "resume"} =>
       lease # <<>> /\ Head(lease).kind = run.kind
  /\ run.kind = "resume" => control # <<>> /\ Head(control).leased

IInv == TypeOK /\ StoreInv /\ Running /\ Leases

-----------------------------------------------------------------------------
(* Facts about the store: one lemma per kind of change.                      *)

\* The head of the queue is one Change Set, in progress.
LEMMA HeadFacts ==
  ASSUME TypeOK, StoreInv, NEW c, HeadOf(c)
  PROVE  /\ c \in ChangeSets /\ InProgress(c) /\ Known(c)
         /\ \A d \in ChangeSets : InProgress(d) => enqueueSeq[c] <= enqueueSeq[d]
         /\ \A d \in ChangeSets : HeadOf(d) => d = c
<1>1. /\ c \in ChangeSets /\ InProgress(c) /\ Known(c)
      /\ \A d \in ChangeSets : InProgress(d) => enqueueSeq[c] <= enqueueSeq[d]
  BY DEF HeadOf, First, Pending, InProgress, Known
<1>2. ASSUME NEW d \in ChangeSets, HeadOf(d) PROVE d = c
  <2>1. d \in Pending /\ c \in Pending /\ Known(d)
    BY <1>2 DEF HeadOf, First, Pending, InProgress, Known
  <2>2. enqueueSeq[d] <= enqueueSeq[c] /\ enqueueSeq[c] <= enqueueSeq[d]
    BY <2>1, <1>2 DEF HeadOf, First
  <2>3. enqueueSeq[d] = enqueueSeq[c]
    BY <2>2, <1>1 DEF TypeOK
  <2> QED BY <2>1, <2>3, <1>1 DEF StoreInv, Registered
<1> QED BY <1>1, <1>2

store == <<vault, whole, journal, state, before, registered>>

\* Steps that leave the vault, the journal and the registry alone.
LEMMA SameStore ==
  ASSUME StoreInv, UNCHANGED store
  PROVE  /\ StoreInv'
         /\ \A c : (HeadOf(c) => HeadOf(c)') /\ (Covered(c) => Covered(c)')
<1>1. UNCHANGED <<vault, whole, journal, state, before, enqueueSeq, nextEnqueueSeq>>
  BY DEF store, registered
<1>2. Registered' /\ Previews'
  BY <1>1 DEF StoreInv, Registered, Previews, Known
<1>3. \A c : (HeadOf(c) => HeadOf(c)') /\ (Covered(c) => Covered(c)')
  BY <1>1 DEF HeadOf, First, Pending, InProgress, Covered
<1>4. Journaled' BY <1>1, <1>3 DEF StoreInv, Journaled, Known, InProgress
<1>5. Effects' BY <1>1, <1>3 DEF StoreInv, Effects, Known, InProgress
<1>6. Applied' BY <1>1 DEF StoreInv, Applied, AsPublished
<1>7. StoreTypes' BY <1>1 DEF StoreInv, StoreTypes
<1> QED BY <1>2, <1>3, <1>4, <1>5, <1>6, <1>7 DEF StoreInv

\* The registry records a new state of a Change Set that it knows.
LEMMA StateStep ==
  ASSUME TypeOK, StoreInv, NEW c \in ChangeSets, Known(c),
         NEW s \in States \ {"none"}, state' = SetState(c, s),
         s = "intent_applied" => c \in whole,
         s \in {"queued", "executing"} => InProgress(c),
         UNCHANGED <<vault, whole, journal, before, registered>>
  PROVE  /\ StoreInv'
         /\ \A d : Covered(d) => Covered(d)'
         /\ s \in {"queued", "executing"} => \A d : HeadOf(d) => HeadOf(d)'
<1>1. /\ UNCHANGED <<vault, whole, journal, before, enqueueSeq, nextEnqueueSeq>>
      /\ state' = [state EXCEPT ![c] = s] /\ state \in [ChangeSets -> States]
      /\ state' \in [ChangeSets -> States]
  BY DEF TypeOK, SetState, registered
<1>2. /\ \A d \in ChangeSets : Known(d)' <=> Known(d)
      /\ \A d \in ChangeSets : InProgress(d)' => InProgress(d)
      /\ \A d \in ChangeSets \ {c} : InProgress(d)' <=> InProgress(d)
      /\ s \in {"queued", "executing"} => InProgress(c)'
  BY <1>1 DEF Known, InProgress
<1>3. \A d \in ChangeSets : HeadOf(d) /\ InProgress(d)' => HeadOf(d)'
  BY <1>1, <1>2 DEF HeadOf, First, Pending
<1>4. \A d : HeadOf(d) => d \in ChangeSets /\ InProgress(d)
  BY DEF HeadOf, First, Pending
<1>5. Registered' /\ Previews'
  BY <1>1, <1>2 DEF StoreInv, Registered, Previews
<1>6. \A d : Covered(d)' <=> Covered(d) BY <1>1 DEF Covered
<1>7. Journaled'
  BY <1>1, <1>2, <1>3 DEF StoreInv, Journaled, Frames
<1>8. Effects' BY <1>1, <1>2, <1>6 DEF StoreInv, Effects
<1>9. Applied' BY <1>1 DEF StoreInv, Applied, AsPublished
<1>10. StoreTypes' BY <1>1 DEF StoreInv, StoreTypes
<1> QED BY <1>1, <1>2, <1>3, <1>4, <1>5, <1>6, <1>7, <1>8, <1>9, <1>10 DEF StoreInv

\* A frame about the head of the queue reaches the journal, or not, or damages
\* a journal that never held one.
LEMMA JournalStep ==
  ASSUME TypeOK, StoreInv, NEW c, HeadOf(c),
         NEW frame \in Frames, frame.id = c,
         frame.phase = "COMMITTED" => c \in whole,
         \/ journal' = frame \/ journal' = journal
         \/ journal = None /\ journal' = Damaged,
         UNCHANGED <<vault, whole, state, before, registered>>
  PROVE  /\ StoreInv'
         /\ \A d : HeadOf(d) => HeadOf(d)'
         /\ Covered(c) \/ journal' = frame => Covered(c)'
<1>1. /\ UNCHANGED <<vault, whole, state, before, enqueueSeq, nextEnqueueSeq>>
      /\ journal \in Frames \cup {None, Damaged}
      /\ None \notin Frames /\ Damaged \notin Frames
  BY JournalAssumption DEF TypeOK, registered
<1>2. /\ c \in ChangeSets /\ InProgress(c) /\ Known(c)
      /\ \A d \in ChangeSets : HeadOf(d) => d = c
  BY HeadFacts
<1>3. \A d : (HeadOf(d) <=> HeadOf(d)') /\ (Known(d) <=> Known(d)')
             /\ (InProgress(d) <=> InProgress(d)')
  BY <1>1 DEF HeadOf, First, Pending, InProgress, Known
<1>4. Registered' /\ Previews'
  BY <1>1 DEF StoreInv, Registered, Previews, Known
<1>5. Journaled' BY <1>1, <1>2, <1>3 DEF StoreInv, Journaled
<1>6. \A d \in ChangeSets : InProgress(d) /\ Covered(d) => d = c
  BY <1>2 DEF StoreInv, Journaled, Covered
<1>7. Covered(c) \/ journal' = frame => Covered(c)'
  BY <1>1 DEF Covered
<1>8. \A d \in ChangeSets : InProgress(d) /\ Covered(d) => Covered(d)'
  BY <1>6, <1>7
<1>9. Effects'
  BY <1>1, <1>3, <1>8 DEF StoreInv, Effects
<1>10. Applied' BY <1>1, <1>2 DEF StoreInv, Applied, AsPublished
<1>11. StoreTypes' BY <1>1 DEF StoreInv, StoreTypes
<1> QED BY <1>1, <1>3, <1>4, <1>5, <1>7, <1>9, <1>10, <1>11 DEF StoreInv

\* One path takes bytes that are nobody's, or that the journal covers.
LEMMA VaultStep ==
  ASSUME TypeOK, StoreInv, NEW p \in Paths, NEW v \in Values,
         v \in ChangeSets => Known(v) /\ (InProgress(v) => Covered(v)),
         Wrote([vault EXCEPT ![p] = v]),
         UNCHANGED <<journal, state, before, registered>>
  PROVE  /\ StoreInv' /\ whole \subseteq whole'
         /\ \A d : (HeadOf(d) => HeadOf(d)') /\ (Covered(d) => Covered(d)')
<1>1. /\ UNCHANGED <<journal, state, before, enqueueSeq, nextEnqueueSeq>>
      /\ vault' = [vault EXCEPT ![p] = v] /\ vault \in [Paths -> Values]
      /\ whole' = whole \cup {c \in ChangeSets :
                    \A q \in Footprint[c] : vault'[q] = c}
      /\ whole \subseteq ChangeSets
  BY DEF TypeOK, registered, Wrote
<1>2. vault' \in [Paths -> Values] /\ whole' \subseteq ChangeSets /\ whole \subseteq whole'
  BY <1>1
<1>3. \A d : /\ HeadOf(d)' <=> HeadOf(d)
             /\ Covered(d)' <=> Covered(d)
             /\ Known(d)' <=> Known(d)
             /\ InProgress(d)' <=> InProgress(d)
  BY <1>1 DEF HeadOf, First, Pending, InProgress, Known, Covered
<1>4. Registered' /\ Previews'
  BY <1>1 DEF StoreInv, Registered, Previews, Known
<1>5. Journaled' BY <1>1, <1>3 DEF StoreInv, Journaled
<1>6. Effects'
  <2> SUFFICES ASSUME NEW q \in Paths, NEW d \in ChangeSets, vault'[q] = d
               PROVE  Known(d)' /\ (InProgress(d)' => Covered(d)')
    BY DEF Effects, Known, InProgress, Covered
  <2>1. CASE q = p BY <2>1, <1>1, <1>3
  <2>2. CASE q # p
    <3>1. vault[q] = d BY <2>2, <1>1
    <3>2. Known(d) /\ (InProgress(d) => Covered(d))
      BY <3>1 DEF StoreInv, Effects
    <3> QED BY <3>2, <1>3
  <2> QED BY <2>1, <2>2
<1>7. Applied' BY <1>1, <1>2 DEF StoreInv, Applied, AsPublished
<1>8. StoreTypes' BY <1>1, <1>2 DEF StoreInv, StoreTypes
<1> QED BY <1>2, <1>3, <1>4, <1>5, <1>6, <1>7, <1>8 DEF StoreInv

-----------------------------------------------------------------------------
(* Facts about the running job.                                              *)

\* A step of the job leaves the calls, the queues and the bounds alone, so the
\* invariant follows from the store's and the job's parts of it.
LEMMA JobStep ==
  ASSUME IInv, UNCHANGED elsewhere, StoreInv', Running',
         run' \in RunType, run'.kind = run.kind,
         Fault \/ UNCHANGED faults,
         blocked' \in BOOLEAN, health' \in {"clear", "blocked"}
  PROVE  IInv'
<1>1. UNCHANGED <<before, enqueueSeq, nextEnqueueSeq, writeMode, proc, calls,
                  lease, control, unwritten, crashes>>
  BY DEF elsewhere, registered, queues
<1>2. faults' \in 0..MaxFaults
  BY BoundsAssumption DEF Fault, IInv, TypeOK
<1>3. StoreTypes' BY DEF StoreInv
<1>4. TypeOK' BY <1>1, <1>2, <1>3 DEF IInv, TypeOK, StoreTypes
<1>5. Leases' BY <1>1 DEF IInv, Leases
<1> QED BY <1>4, <1>5 DEF IInv

\* What the job's program counter says of its Change Set.
LEMMA JobFacts ==
  ASSUME IInv, NEW c, c = run.id
  PROVE  /\ run.pc \in Driving \cup Restoring =>
              HeadOf(c) /\ c \in ChangeSets /\ Known(c) /\ InProgress(c)
         /\ run.pc \in Mutating \cup Restoring \cup {"unprove"} =>
              Covered(c) /\ c \in ChangeSets /\ Known(c)
         /\ run \in RunType /\ blocked \in BOOLEAN /\ health \in {"clear", "blocked"}
<1>1. ASSUME run.pc \in Driving \cup Restoring
      PROVE  HeadOf(c) /\ c \in ChangeSets /\ Known(c) /\ InProgress(c)
  BY <1>1, HeadFacts DEF IInv, Running
<1>2. ASSUME run.pc \in Mutating \cup Restoring \cup {"unprove"}
      PROVE  Covered(c) /\ c \in ChangeSets /\ Known(c)
  BY <1>2 DEF IInv, Running, Covered, StoreInv, Journaled, Frames
<1> QED BY <1>1, <1>2 DEF IInv, TypeOK

\* The job goes on, at a step that handles no Change Set.
Free == {"recover", "dispatch", "next", "preflight", "throw", "block", "done"}
LEMMA FreeStep ==
  ASSUME IInv, run.pc # "idle", NEW pc \in Free, Goto(pc)
  PROVE  Running' /\ run' \in RunType /\ run'.kind = run.kind
<1>1. /\ run' \in RunType /\ run'.kind = run.kind /\ run'.pc = pc
  BY DEF Goto, RunType, IInv, TypeOK, Free, Pcs
<1>2. run.kind # "idle" BY DEF IInv, Running
<1> QED BY <1>1, <1>2 DEF Running, Free, Driving, Mutating, Restoring

\* The job goes on with a Change Set that the newest frame is about.
LEMMA GotoStep ==
  ASSUME IInv, run.pc # "idle", NEW c, c = run.id, HeadOf(c)', Covered(c)',
         NEW pc \in (Driving \cup Restoring \cup {"unprove"}) \ {"plan"}, Goto(pc),
         pc \in {"confirm", "commit", "committed"} => c \in whole',
         pc = "undo" => run.pc = "plan"
  PROVE  Running' /\ run' \in RunType /\ run'.kind = run.kind
<1>1. /\ run' \in RunType /\ run'.kind = run.kind /\ run'.pc = pc
      /\ run'.id = c /\ run'.left = run.left /\ run'.actions = run.actions
  BY DEF Goto, RunType, IInv, TypeOK, Pcs, Driving, Restoring
<1>2. run.kind # "idle" /\ pc # "idle"
  BY DEF IInv, Running, Driving, Restoring
<1>3. run'.pc \in {"plan", "undo"} =>
        /\ run'.left \subseteq Footprint[run'.id]
        /\ run'.actions \subseteq Footprint[run'.id]
  BY <1>1 DEF IInv, Running
<1> QED BY <1>1, <1>2, <1>3 DEF Running

\* The job stays where it is, with other paths still to handle.
LEMMA KeepStep ==
  ASSUME IInv, run.pc # "idle", NEW c, c = run.id, HeadOf(c)', Covered(c)',
         whole \subseteq whole', run'.kind = run.kind, run'.pc = run.pc,
         run'.id = c, run'.left \subseteq run.left,
         run'.actions \subseteq run.actions \cup run.left
  PROVE  Running'
BY DEF IInv, Running

\* The job turns to a restore.
LEMMA RestoreStep ==
  ASSUME IInv, run.pc # "idle", NEW c \in ChangeSets,
         NEW within \in {"recover", "execute"}, Restore(within, c),
         HeadOf(c)', Covered(c)'
  PROVE  Running' /\ run' \in RunType /\ run'.kind = run.kind
<1>1. /\ run' \in RunType /\ run'.kind = run.kind /\ run'.pc = "plan"
      /\ run'.id = c /\ run'.left = Footprint[c] /\ run'.actions = {}
  BY FootprintAssumption DEF Restore, RunType, IInv, TypeOK, Pcs
<1>2. run'.kind # "idle" BY <1>1 DEF IInv, Running
<1> QED BY <1>1, <1>2 DEF Running, Driving, Mutating, Restoring

\* Steps that change nothing but the job itself.
LEMMA QuietStep ==
  ASSUME IInv, UNCHANGED <<host, journal, state, gates, elsewhere>>,
         Fault \/ UNCHANGED faults,
         run' \in RunType, run'.kind = run.kind, Running'
  PROVE  IInv'
<1>1. UNCHANGED store
  BY DEF store, host, elsewhere, registered
<1>2. StoreInv' BY <1>1, SameStore DEF IInv
<1>3. blocked' \in BOOLEAN /\ health' \in {"clear", "blocked"}
  BY DEF gates, IInv, TypeOK
<1> QED BY <1>2, <1>3, JobStep

\* ... and what holds of its Change Set still does.
LEMMA QuietFacts ==
  ASSUME IInv, UNCHANGED <<host, journal, state, gates, elsewhere>>, NEW c
  PROVE  (HeadOf(c) => HeadOf(c)') /\ (Covered(c) => Covered(c)')
<1>1. UNCHANGED store
  BY DEF store, host, elsewhere, registered
<1> QED BY <1>1, SameStore DEF IInv

-----------------------------------------------------------------------------
(* #recover.                                                                 *)

\* The outcomes of #recover that only decide where the job goes.
LEMMA RecoverQuietStep ==
  ASSUME IInv,
         RecoverNothing \/ RecoverRefused \/ RecoverPrepared \/ RecoverUnproven
  PROVE  IInv'
<1>1. /\ run \in RunType /\ run.pc = "recover"
      /\ UNCHANGED <<host, journal, state, gates, elsewhere>> /\ (Fault \/ UNCHANGED faults)
  BY DEF IInv, TypeOK, At, RecoverNothing, RecoverRefused, RecoverPrepared,
         RecoverUnproven
<1>2. CASE RecoverNothing \/ RecoverRefused
  <2>1. PICK pc \in Free : Goto(pc)
    BY <1>2 DEF RecoverNothing, RecoverRefused, Free
  <2>2. /\ Running' /\ run' \in RunType /\ run'.kind = run.kind
    BY <2>1, <1>1, FreeStep
  <2> QED BY <2>2, <1>1, QuietStep
<1>4. CASE RecoverPrepared
  <2>1. PICK d \in ChangeSets : /\ journal \in Frames /\ d = journal.id
                                /\ InProgress(d) /\ Restore("recover", d)
    BY <1>4 DEF RecoverPrepared, MustRestore, Unfinished, InProgress, Frames
  <2>2. HeadOf(d) /\ Covered(d)
    BY <2>1 DEF IInv, StoreInv, Journaled, Covered
  <2>4. HeadOf(d)' /\ Covered(d)' BY <2>2, <1>1, QuietFacts
  <2>5. Running' /\ run' \in RunType /\ run'.kind = run.kind
    BY <2>1, <2>4, <1>1, RestoreStep
  <2> QED BY <2>5, <1>1, QuietStep
<1>5. CASE RecoverUnproven
  <2>1. /\ journal \in Frames
        /\ run' = [run EXCEPT !.pc = "unprove", !.id = journal.id]
    BY <1>5 DEF RecoverUnproven
  <2>2. /\ run' \in RunType /\ run'.kind = run.kind /\ run'.pc = "unprove"
        /\ run'.id = journal.id /\ journal' = journal
    BY <2>1, <1>1 DEF RunType, Pcs, Frames
  <2>3. run.kind # "idle" BY <1>1 DEF IInv, Running
  <2>4. Running'
    BY <2>1, <2>2, <2>3 DEF Running, Covered, Driving, Restoring, Mutating
  <2> QED BY <2>2, <2>4, <1>1, QuietStep
<1> QED BY <1>2, <1>4, <1>5

\* A final frame whose outcome the registry still lacks: a COMMITTED one is
\* about a Change Set that was wholly in the vault.
LEMMA RecoverOutcomeStep ==
  ASSUME IInv, RecoverOutcome
  PROVE  IInv'
<1>1. PICK c \in ChangeSets : journal \in Frames /\ c = journal.id
  BY DEF RecoverOutcome, Frames
<1>2. /\ run.pc # "idle" /\ UNCHANGED elsewhere
      /\ UNCHANGED <<vault, whole, journal, before, registered>>
      /\ blocked' \in BOOLEAN /\ health' \in {"clear", "blocked"}
  BY DEF RecoverOutcome, At, elsewhere, host, gates, IInv, TypeOK
<1>3. Known(c) BY <1>1 DEF IInv, StoreInv, Journaled
<1>4. CASE state' = SetState(c, Outcome(journal.phase)) /\ UNCHANGED faults
           /\ Goto("dispatch")
  <2>1. /\ Outcome(journal.phase) \in States \ {"none"}
        /\ Outcome(journal.phase) \notin {"queued", "executing"}
        /\ Outcome(journal.phase) = "intent_applied" => c \in whole
    BY <1>1 DEF Outcome, States, IInv, StoreInv, Applied
  <2>2. StoreInv' BY <1>2, <1>3, <1>4, <2>1, StateStep DEF IInv
  <2>3. Running' /\ run' \in RunType /\ run'.kind = run.kind
    BY <1>2, <1>4, FreeStep DEF Free
  <2> QED BY <1>2, <1>4, <2>2, <2>3, JobStep
<1>5. CASE SaveFailed /\ Goto("throw")
  <2>1. Running' /\ run' \in RunType /\ run'.kind = run.kind
    BY <1>2, <1>5, FreeStep DEF Free
  <2> QED BY <1>2, <1>5, <2>1, QuietStep DEF SaveFailed, RecoverOutcome
<1> QED BY <1>1, <1>4, <1>5 DEF RecoverOutcome, Saved

-----------------------------------------------------------------------------
(* #restorePrepared.                                                         *)

\* Planning touches only the footprint; every failed comparison ends in FAILED.
LEMMA PlanStep ==
  ASSUME IInv, Planned \/ \E p \in Paths : ComparePlan(p)
  PROVE  IInv'
<1>1. PICK c : c = run.id OBVIOUS
<1>2. /\ run.pc = "plan" /\ (Fault \/ UNCHANGED faults)
      /\ UNCHANGED <<host, journal, state, gates, elsewhere>>
  BY DEF Planned, ComparePlan, HostFailed, At
<1>3. HeadOf(c)' /\ Covered(c)' /\ run \in RunType
  BY <1>1, <1>2, JobFacts, QuietFacts DEF Restoring
<1>4. CASE \E pc \in {"undo", "fail"} : Goto(pc)
  <2>1. Running' /\ run' \in RunType /\ run'.kind = run.kind
    BY <1>1, <1>2, <1>3, <1>4, GotoStep DEF Restoring
  <2> QED BY <1>2, <2>1, QuietStep
<1>5. ASSUME NEW p \in Paths, p \in run.left,
             \/ run' = [run EXCEPT !.left = @ \ {p}]
             \/ run' = [run EXCEPT !.left = @ \ {p}, !.actions = @ \cup {p}]
      PROVE  IInv'
  <2>i. PICK actions \in SUBSET Paths :
          /\ run' = [run EXCEPT !.left = @ \ {p}, !.actions = actions]
          /\ actions \subseteq run.actions \cup run.left
    <3>1. run.actions \in SUBSET Paths BY <1>3 DEF RunType
    <3>2. CASE run' = [run EXCEPT !.left = @ \ {p}]
      <4>1. run' = [run EXCEPT !.left = @ \ {p}, !.actions = run.actions]
        BY <1>3, <3>2 DEF RunType
      <4> QED BY <3>1, <4>1
    <3>3. CASE run' = [run EXCEPT !.left = @ \ {p}, !.actions = @ \cup {p}]
      <4>1. run' = [run EXCEPT !.left = @ \ {p}, !.actions = run.actions \cup {p}]
        BY <3>3
      <4> QED BY <1>5, <3>1, <4>1
    <3> QED BY <1>5, <3>2, <3>3
  <2>1. /\ run' \in RunType /\ run'.kind = run.kind /\ run'.pc = run.pc
        /\ run'.id = c /\ run'.left \subseteq run.left
        /\ run'.actions \subseteq run.actions \cup run.left
    BY <1>1, <1>3, <2>i DEF RunType
  <2>2. whole \subseteq whole' BY <1>2 DEF host
  <2>3. Running' BY <1>1, <1>2, <1>3, <2>1, <2>2, KeepStep
  <2> QED BY <1>2, <2>1, <2>3, QuietStep
<1> QED BY <1>4, <1>5 DEF Planned, ComparePlan

\* What a restore writes are bytes its Change Set's preview binds.  They belong
\* to Change Sets registered earlier, and the head of the queue has none before
\* it: they are not those of an unfinished one.
LEMMA UndoStep ==
  ASSUME IInv, NEW p \in Paths, Undo(p)
  PROVE  IInv'
<1>1. PICK c : c = run.id OBVIOUS
<1>2. /\ run.pc = "undo" /\ p \in run.actions /\ UNCHANGED elsewhere
      /\ UNCHANGED <<journal, state, before, registered, gates>>
  BY DEF Undo, At, elsewhere
<1>3. /\ HeadOf(c) /\ Covered(c) /\ c \in ChangeSets /\ Known(c) /\ run \in RunType
      /\ blocked' \in BOOLEAN /\ health' \in {"clear", "blocked"}
  BY <1>1, <1>2, JobFacts DEF Restoring, gates
<1>4. CASE /\ Wrote([vault EXCEPT ![p] = before[c][p]]) /\ UNCHANGED faults
           /\ run' = [run EXCEPT !.actions = @ \ {p}]
  <2>1. p \in Footprint[c] BY <1>1, <1>2 DEF IInv, Running
  <2>2. PICK v : v = before[c][p] OBVIOUS
  <2>3. /\ v \in Values
        /\ v \in ChangeSets => Known(v) /\ enqueueSeq[v] < enqueueSeq[c]
    BY <1>3, <2>1, <2>2 DEF IInv, StoreInv, Previews
  <2>4. v \in ChangeSets => ~InProgress(v)
    <3> SUFFICES ASSUME v \in ChangeSets, InProgress(v) PROVE FALSE OBVIOUS
    <3>1. enqueueSeq[c] <= enqueueSeq[v] BY <1>3, HeadFacts DEF IInv
    <3>2. enqueueSeq[c] \in Nat /\ enqueueSeq[v] \in Nat
      BY <1>3 DEF IInv, TypeOK
    <3> QED BY <2>3, <3>1, <3>2
  <2>5. StoreInv' /\ HeadOf(c)' /\ Covered(c)' /\ whole \subseteq whole'
    BY <1>2, <1>3, <1>4, <2>2, <2>3, <2>4, VaultStep DEF IInv
  <2>6. /\ run' \in RunType /\ run'.kind = run.kind /\ run'.pc = run.pc
        /\ run'.id = c /\ run'.left \subseteq run.left
        /\ run'.actions \subseteq run.actions \cup run.left
    BY <1>1, <1>3, <1>4 DEF RunType
  <2>7. Running' BY <1>1, <1>2, <2>5, <2>6, KeepStep
  <2> QED BY <1>2, <1>3, <1>4, <2>5, <2>6, <2>7, JobStep
<1>5. CASE HostFailed /\ Goto("fail") /\ UNCHANGED host
  <2>1. HeadOf(c)' /\ Covered(c)' BY <1>2, <1>3, <1>5, QuietFacts
  <2>3. PICK pc \in {"fail"} : Goto(pc) BY <1>5
  <2>2. Running' /\ run' \in RunType /\ run'.kind = run.kind
    BY <1>1, <1>2, <2>3, <2>1, GotoStep DEF Restoring
  <2> QED BY <1>2, <1>5, <2>2, QuietStep DEF HostFailed
<1> QED BY <1>1, <1>4, <1>5 DEF Undo

\* Verification leads to ROLLED_BACK or to FAILED.
LEMMA VerifyRestoredStep ==
  ASSUME IInv, VerifyRestored
  PROVE  IInv'
<1>1. PICK c : c = run.id OBVIOUS
<1>2. /\ run.pc = "undo" /\ (Fault \/ UNCHANGED faults)
      /\ UNCHANGED <<host, journal, state, gates, elsewhere>>
  BY DEF VerifyRestored, At, HostFailed
<1>i. HeadOf(c) /\ Covered(c) BY <1>1, <1>2, JobFacts DEF Restoring
<1>3. HeadOf(c)' /\ Covered(c)' BY <1>2, <1>i, QuietFacts
<1>4. PICK pc \in {"roll back", "fail"} : Goto(pc) BY DEF VerifyRestored
<1>5. Running' /\ run' \in RunType /\ run'.kind = run.kind
  BY <1>1, <1>2, <1>3, <1>4, GotoStep DEF Restoring
<1> QED BY <1>2, <1>5, QuietStep

\* The outcomes of persistRecoveryFrame, as JournalStep takes them.
LEMMA PersistFacts ==
  ASSUME NEW frame, Persisted(frame) \/ PersistFailed(frame)
  PROVE  /\ \/ journal' = frame \/ journal' = journal
            \/ journal = None /\ journal' = Damaged
         /\ Fault \/ UNCHANGED faults
         /\ Persisted(frame) => journal' = frame
BY DEF Persisted, PersistFailed

\* ROLLED_BACK and FAILED frames are about the Change Set the restore handles.
LEMMA RestoreFrameStep ==
  ASSUME IInv, RollBack \/ PersistFAILED
  PROVE  IInv'
<1>1. PICK c : c = run.id OBVIOUS
<1>2. /\ run.pc \in Restoring \ {"plan", "undo"} /\ UNCHANGED elsewhere
      /\ UNCHANGED <<host, vault, whole, state, before, registered, gates>>
  BY DEF RollBack, PersistFAILED, At, elsewhere, host, Restoring
<1>3. /\ HeadOf(c) /\ Covered(c) /\ c \in ChangeSets
      /\ blocked' \in BOOLEAN /\ health' \in {"clear", "blocked"}
  BY <1>1, <1>2, JobFacts DEF gates
<1>4. PICK phase \in {"ROLLED_BACK", "FAILED"} :
        \/ Persisted(Frame(c, phase, TRUE)) \/ PersistFailed(Frame(c, phase, TRUE))
  BY <1>1 DEF RollBack, PersistFAILED
<1>5. PICK frame : frame = Frame(c, phase, TRUE) OBVIOUS
<1>6. frame \in Frames /\ frame.id = c /\ frame.phase # "COMMITTED"
  BY <1>3, <1>5 DEF Frame, Frames, Phases
<1>7. StoreInv' /\ HeadOf(c)' /\ Covered(c)'
  BY <1>2, <1>3, <1>4, <1>5, <1>6, PersistFacts, JournalStep DEF IInv
<1>8. PICK pc \in {"rolled back", "fail", "unprove", "unprove and throw"} : Goto(pc)
  BY DEF RollBack, PersistFAILED
<1>9. Running' /\ run' \in RunType /\ run'.kind = run.kind
  BY <1>1, <1>2, <1>7, <1>8, GotoStep DEF Restoring
<1> QED BY <1>2, <1>3, <1>4, <1>7, <1>9, PersistFacts, JobStep

\* The job returns from a restore, or from #recover, to no Change Set.
LEMMA ReturnedFree == Returned \in Free
BY DEF Returned, Free

\* The restore's outcome in the registry.
LEMMA RecordNotAppliedStep ==
  ASSUME IInv, RecordNotApplied
  PROVE  IInv'
<1>1. PICK c : c = run.id OBVIOUS
<1>2. /\ run.pc = "rolled back" /\ UNCHANGED elsewhere
      /\ UNCHANGED <<host, vault, whole, journal, before, registered, gates>>
  BY DEF RecordNotApplied, At, elsewhere, host
<1>3. /\ c \in ChangeSets /\ Known(c)
      /\ blocked' \in BOOLEAN /\ health' \in {"clear", "blocked"}
  BY <1>1, <1>2, JobFacts DEF Restoring, gates
<1>4. CASE /\ state' = SetState(c, "intent_not_applied") /\ UNCHANGED faults
           /\ Goto(Returned)
  <2>1. StoreInv' BY <1>2, <1>3, <1>4, StateStep DEF IInv, States
  <2>2. Running' /\ run' \in RunType /\ run'.kind = run.kind
    BY <1>2, <1>4, ReturnedFree, FreeStep
  <2> QED BY <1>2, <1>3, <1>4, <2>1, <2>2, JobStep
<1>5. CASE SaveFailed /\ Goto("throw")
  <2>1. Running' /\ run' \in RunType /\ run'.kind = run.kind
    BY <1>2, <1>5, FreeStep DEF Free
  <2> QED BY <1>2, <1>5, <2>1, QuietStep DEF SaveFailed
<1> QED BY <1>1, <1>4, <1>5 DEF RecordNotApplied, Saved

\* #markUnproven, whether the FAILED frame persisted or not.
LEMMA MarkUnprovenStep ==
  ASSUME IInv, MarkUnproven
  PROVE  IInv'
<1>1. PICK c : c = run.id OBVIOUS
<1>2. /\ run.pc \in {"unprove", "unprove and throw"} /\ UNCHANGED elsewhere
      /\ UNCHANGED <<host, vault, whole, journal, before, registered>>
  BY DEF MarkUnproven, elsewhere, host
<1>3. /\ c \in ChangeSets /\ Known(c) /\ run.pc # "idle"
      /\ blocked' \in BOOLEAN /\ health' \in {"clear", "blocked"}
  BY <1>1, <1>2, JobFacts DEF Restoring, MarkUnproven
<1>4. PICK pc \in Free : Goto(pc)
  <2>1. (IF At("unprove") THEN Returned ELSE "throw") \in Free
    BY ReturnedFree DEF Free
  <2>2. "throw" \in Free BY DEF Free
  <2> QED BY <2>1, <2>2 DEF MarkUnproven
<1>5. Running' /\ run' \in RunType /\ run'.kind = run.kind
  BY <1>3, <1>4, FreeStep
<1>6. CASE state' = SetState(c, "result_unproven") /\ UNCHANGED faults
  <2>1. StoreInv' BY <1>2, <1>3, <1>6, StateStep DEF IInv, States
  <2> QED BY <1>2, <1>3, <1>5, <1>6, <2>1, JobStep
<1>7. CASE SaveFailed
  <2>1. UNCHANGED store BY <1>2, <1>7 DEF store, SaveFailed
  <2>2. StoreInv' BY <2>1, SameStore DEF IInv
  <2> QED BY <1>2, <1>3, <1>5, <1>7, <2>2, JobStep DEF SaveFailed
<1> QED BY <1>1, <1>6, <1>7 DEF MarkUnproven, Saved

-----------------------------------------------------------------------------
(* #executeMutation.                                                         *)

\* The catch of #executeMutation turns to a restore of the same Change Set.
LEMMA AbortStep ==
  ASSUME IInv, run.pc # "idle", NEW c \in ChangeSets, c = run.id, Abort,
         HeadOf(c)', Covered(c)'
  PROVE  Running' /\ run' \in RunType /\ run'.kind = run.kind
BY RestoreStep DEF Abort

\* Preflight passes the head of the queue on, or refuses it.
LEMMA PreflightStep ==
  ASSUME IInv, Preflight
  PROVE  IInv'
<1>1. PICK c : c = run.id OBVIOUS
<1>2. /\ run.pc = "preflight" /\ UNCHANGED elsewhere /\ run \in RunType
      /\ UNCHANGED <<host, vault, whole, journal, before, registered, gates>>
      /\ blocked' \in BOOLEAN /\ health' \in {"clear", "blocked"}
      /\ run.kind # "idle"
  BY DEF Preflight, At, elsewhere, host, gates, IInv, TypeOK, Running
<1>3. CASE Goto("prepare") /\ UNCHANGED <<state, faults>> /\ HeadOf(c)
  <2>1. HeadOf(c)' BY <1>2, <1>3, QuietFacts
  <2>2. /\ run' \in RunType /\ run'.kind = run.kind /\ run'.pc = "prepare"
        /\ run'.id = c
    BY <1>1, <1>2, <1>3 DEF Goto, RunType, Pcs
  <2>3. Running'
    BY <1>2, <2>1, <2>2 DEF Running, Driving, Mutating, Restoring
  <2> QED BY <1>2, <1>3, <2>2, <2>3, QuietStep
<1>4. CASE (\E pc \in Free : Goto(pc)) /\ UNCHANGED state
           /\ (Fault \/ UNCHANGED faults)
  <2>1. Running' /\ run' \in RunType /\ run'.kind = run.kind
    BY <1>2, <1>4, FreeStep
  <2> QED BY <1>2, <1>4, <2>1, QuietStep
<1>5. CASE /\ HeadOf(c) /\ state' = SetState(c, "intent_not_applied")
           /\ UNCHANGED faults /\ Goto("next")
  <2>1. c \in ChangeSets /\ Known(c) BY <1>5, HeadFacts DEF IInv
  <2>2. StoreInv' BY <1>2, <1>5, <2>1, StateStep DEF IInv, States
  <2>3. Running' /\ run' \in RunType /\ run'.kind = run.kind
    BY <1>2, <1>5, FreeStep DEF Free
  <2> QED BY <1>2, <1>5, <2>2, <2>3, JobStep
<1> QED BY <1>1, <1>3, <1>4, <1>5 DEF Preflight, Saved, SaveFailed, HostFailed, Free

\* PREPARED: a new frame replaces one that is not about unfinished work, for
\* its Change Set would head the queue as well.
LEMMA PrepareStep ==
  ASSUME IInv, Prepare
  PROVE  IInv'
<1>1. PICK c : c = run.id OBVIOUS
<1>2. /\ run.pc = "prepare" /\ UNCHANGED elsewhere
      /\ UNCHANGED <<host, vault, whole, state, before, registered, gates>>
  BY DEF Prepare, At, elsewhere, host
<1>3. /\ HeadOf(c) /\ c \in ChangeSets
      /\ blocked' \in BOOLEAN /\ health' \in {"clear", "blocked"}
  BY <1>1, <1>2, JobFacts DEF Driving, gates
<1>4. CASE UNCHANGED journal /\ (Fault \/ UNCHANGED faults) /\ Goto("throw")
  <2>1. Running' /\ run' \in RunType /\ run'.kind = run.kind
    BY <1>2, <1>4, FreeStep DEF Free
  <2> QED BY <1>2, <1>4, <2>1, QuietStep
<1>5. ASSUME NEW frame, frame = Frame(c, "PREPARED", FALSE),
             \/ Persisted(frame) /\ Goto("begin")
             \/ PersistFailed(frame) /\ Goto("throw")
      PROVE  IInv'
  <2>1. frame \in Frames /\ frame.id = c /\ frame.phase # "COMMITTED"
    BY <1>3, <1>5 DEF Frame, Frames, Phases
  <2>2. /\ StoreInv' /\ HeadOf(c)' /\ (journal' = frame => Covered(c)')
        /\ Fault \/ UNCHANGED faults
    BY <1>2, <1>3, <1>5, <2>1, PersistFacts, JournalStep DEF IInv
  <2>3. CASE Persisted(frame) /\ Goto("begin")
    <3>1. Covered(c)' BY <2>2, <2>3 DEF Persisted
    <3>2. PICK pc \in {"begin"} : Goto(pc) BY <2>3
    <3>3. Running' /\ run' \in RunType /\ run'.kind = run.kind
      BY <1>1, <1>2, <2>2, <3>1, <3>2, GotoStep DEF Driving
    <3> QED BY <1>2, <1>3, <2>2, <3>3, JobStep
  <2>4. CASE Goto("throw")
    <3>1. Running' /\ run' \in RunType /\ run'.kind = run.kind
      BY <1>2, <2>4, FreeStep DEF Free
    <3> QED BY <1>2, <1>3, <2>2, <3>1, JobStep
  <2> QED BY <1>5, <2>3, <2>4
<1> QED BY <1>1, <1>4, <1>5 DEF Prepare, HostFailed

\* Its execution begins.
LEMMA BeginStep ==
  ASSUME IInv, Begin
  PROVE  IInv'
<1>1. PICK c : c = run.id OBVIOUS
<1>2. /\ run.pc = "begin" /\ UNCHANGED elsewhere
      /\ UNCHANGED <<host, vault, whole, journal, before, registered, gates>>
  BY DEF Begin, At, elsewhere, host
<1>3. /\ HeadOf(c) /\ Covered(c) /\ c \in ChangeSets /\ Known(c) /\ InProgress(c)
      /\ blocked' \in BOOLEAN /\ health' \in {"clear", "blocked"}
  BY <1>1, <1>2, JobFacts DEF Driving, Mutating, gates
<1>4. CASE state' = SetState(c, "executing") /\ UNCHANGED faults /\ Goto("stage")
  <2>1. StoreInv' /\ HeadOf(c)' /\ Covered(c)'
    BY <1>2, <1>3, <1>4, StateStep DEF IInv, States
  <2>2. PICK pc \in {"stage"} : Goto(pc) BY <1>4
  <2>3. Running' /\ run' \in RunType /\ run'.kind = run.kind
    BY <1>1, <1>2, <2>1, <2>2, GotoStep DEF Driving
  <2> QED BY <1>2, <1>3, <1>4, <2>1, <2>3, JobStep
<1>5. CASE SaveFailed /\ Abort
  <2>1. HeadOf(c)' /\ Covered(c)' BY <1>2, <1>3, <1>5, QuietFacts DEF SaveFailed
  <2>2. Running' /\ run' \in RunType /\ run'.kind = run.kind
    BY <1>1, <1>2, <1>3, <1>5, <2>1, AbortStep
  <2> QED BY <1>2, <1>5, <2>2, QuietStep DEF SaveFailed
<1> QED BY <1>1, <1>4, <1>5 DEF Begin, Saved

\* The staged identities join the frame; the first path is next.
LEMMA StageStep ==
  ASSUME IInv, Stage
  PROVE  IInv'
<1>1. PICK c : c = run.id OBVIOUS
<1>2. /\ run.pc = "stage" /\ UNCHANGED elsewhere /\ run.pc # "idle"
      /\ UNCHANGED <<host, vault, whole, state, before, registered, gates>>
  BY DEF Stage, At, elsewhere, host
<1>3. /\ HeadOf(c) /\ Covered(c) /\ c \in ChangeSets /\ run \in RunType
      /\ blocked' \in BOOLEAN /\ health' \in {"clear", "blocked"}
  BY <1>1, <1>2, JobFacts DEF Driving, Mutating, gates
<1>4. PICK frame : frame = Frame(c, "PREPARED", TRUE) OBVIOUS
<1>5. frame \in Frames /\ frame.id = c /\ frame.phase # "COMMITTED"
  BY <1>3, <1>4 DEF Frame, Frames, Phases
<1>6. CASE Persisted(frame) \/ PersistFailed(frame) \/ (HostFailed /\ UNCHANGED journal)
  <2>1. /\ \/ journal' = frame \/ journal' = journal
           \/ journal = None /\ journal' = Damaged
        /\ Fault \/ UNCHANGED faults
    BY <1>6, PersistFacts DEF HostFailed
  <2>2. StoreInv' /\ HeadOf(c)' /\ Covered(c)'
    BY <1>2, <1>3, <1>5, <2>1, JournalStep DEF IInv
  <2>3. CASE Abort
    <3>1. Running' /\ run' \in RunType /\ run'.kind = run.kind
      BY <1>1, <1>2, <1>3, <2>2, <2>3, AbortStep
    <3> QED BY <1>2, <1>3, <2>1, <2>2, <3>1, JobStep
  <2>4. CASE run' = [run EXCEPT !.pc = "publish", !.left = Footprint[c],
                                !.within = "execute"]
    <3>1. /\ run' \in RunType /\ run'.kind = run.kind /\ run'.pc = "publish"
          /\ run'.id = c
      BY <1>1, <1>3, <2>4, FootprintAssumption DEF RunType, Pcs
    <3>2. run'.kind # "idle" BY <1>2, <3>1 DEF IInv, Running
    <3>3. Running'
      BY <2>2, <3>1, <3>2 DEF Running, Driving, Mutating, Restoring
    <3> QED BY <1>2, <1>3, <2>1, <2>2, <3>1, <3>3, JobStep
  <2> QED BY <1>1, <2>3, <2>4 DEF Stage
<1> QED BY <1>1, <1>4, <1>6 DEF Stage

\* The compare before a guarded write.
LEMMA CompareStep ==
  ASSUME IInv, NEW p \in Paths, Compare(p)
  PROVE  IInv'
<1>1. PICK c : c = run.id OBVIOUS
<1>2. /\ run.pc = "publish" /\ (Fault \/ UNCHANGED faults) /\ whole \subseteq whole'
      /\ UNCHANGED <<host, journal, state, gates, elsewhere>>
  BY DEF Compare, HostFailed, At, host
<1>i. HeadOf(c) /\ Covered(c) /\ c \in ChangeSets /\ run \in RunType
  BY <1>1, <1>2, JobFacts DEF Driving, Mutating
<1>3. HeadOf(c)' /\ Covered(c)' BY <1>2, <1>i, QuietFacts
<1>4. CASE run' = [run EXCEPT !.at = p]
  <2>1. /\ run' \in RunType /\ run'.kind = run.kind /\ run'.pc = run.pc
        /\ run'.id = c /\ run'.left = run.left /\ run'.actions = run.actions
    BY <1>1, <1>i, <1>4 DEF RunType
  <2>2. Running' BY <1>1, <1>2, <1>3, <2>1, KeepStep
  <2> QED BY <1>2, <2>1, <2>2, QuietStep
<1>5. CASE Abort
  <2>1. Running' /\ run' \in RunType /\ run'.kind = run.kind
    BY <1>1, <1>2, <1>i, <1>3, <1>5, AbortStep
  <2> QED BY <1>2, <2>1, QuietStep
<1> QED BY <1>4, <1>5 DEF Compare

\* Publishing: the Change Set's bytes appear under its own PREPARED frame.
LEMMA PublishStep ==
  ASSUME IInv, Publish
  PROVE  IInv'
<1>1. PICK c, p : c = run.id /\ p = run.at OBVIOUS
<1>2. /\ run.pc = "publish" /\ run.at # None /\ UNCHANGED elsewhere
      /\ UNCHANGED <<journal, state, before, registered, gates>>
  BY DEF Publish, At, elsewhere
<1>3. /\ HeadOf(c) /\ Covered(c) /\ c \in ChangeSets /\ Known(c) /\ run \in RunType
      /\ blocked' \in BOOLEAN /\ health' \in {"clear", "blocked"}
  BY <1>1, <1>2, JobFacts DEF Driving, Mutating, gates
<1>4. p \in Paths BY <1>1, <1>2, <1>3 DEF RunType
<1>5. /\ Fault \/ UNCHANGED faults
      /\ Wrote([vault EXCEPT ![p] = c]) \/ UNCHANGED host
  BY <1>1 DEF Publish, HostFailed
<1>6. StoreInv' /\ HeadOf(c)' /\ Covered(c)' /\ whole \subseteq whole'
  <2>1. CASE Wrote([vault EXCEPT ![p] = c])
    <3>1. c \in Values BY <1>3 DEF Values
    <3> QED BY <1>2, <1>3, <1>4, <2>1, <3>1, VaultStep DEF IInv
  <2>2. CASE UNCHANGED host
    <3>1. UNCHANGED store /\ whole' = whole BY <1>2, <2>2 DEF store, host
    <3> QED BY <1>3, <3>1, SameStore DEF IInv
  <2> QED BY <1>5, <2>1, <2>2
<1>7. CASE Abort
  <2>1. Running' /\ run' \in RunType /\ run'.kind = run.kind
    BY <1>1, <1>2, <1>3, <1>6, <1>7, AbortStep
  <2> QED BY <1>2, <1>3, <1>5, <1>6, <2>1, JobStep
<1>8. CASE run' = [run EXCEPT !.at = None, !.left = @ \ {p}]
  <2>1. /\ run' \in RunType /\ run'.kind = run.kind /\ run'.pc = run.pc
        /\ run'.id = c /\ run'.left \subseteq run.left /\ run'.actions = run.actions
    BY <1>1, <1>3, <1>8 DEF RunType
  <2>2. Running' BY <1>1, <1>2, <1>6, <2>1, KeepStep
  <2> QED BY <1>2, <1>3, <1>5, <1>6, <2>1, <2>2, JobStep
<1> QED BY <1>1, <1>7, <1>8 DEF Publish

\* Whatever passes a verification is wholly in the vault at that instant.
LEMMA VerifyStep ==
  ASSUME IInv, Verify
  PROVE  IInv'
<1>1. PICK c : c = run.id OBVIOUS
<1>2. /\ run.pc \in {"publish", "confirm"} /\ (Fault \/ UNCHANGED faults)
      /\ UNCHANGED <<host, journal, state, gates, elsewhere>> /\ whole' = whole
  BY DEF Verify, At, HostFailed, host
<1>i. HeadOf(c) /\ Covered(c) /\ c \in ChangeSets
  BY <1>1, <1>2, JobFacts DEF Driving, Mutating
<1>3. HeadOf(c)' /\ Covered(c)' BY <1>2, <1>i, QuietFacts
<1>4. CASE AsPublished(c) /\ \E pc \in {"confirm", "commit"} : Goto(pc)
  <2>1. c \in whole' BY <1>2, <1>i, <1>4 DEF IInv, StoreInv, Applied
  <2>2. PICK pc \in {"confirm", "commit"} : Goto(pc) BY <1>4
  <2>3. Running' /\ run' \in RunType /\ run'.kind = run.kind
    BY <1>1, <1>2, <1>3, <2>1, <2>2, GotoStep DEF Driving
  <2> QED BY <1>2, <2>3, QuietStep
<1>5. CASE Abort
  <2>1. Running' /\ run' \in RunType /\ run'.kind = run.kind
    BY <1>1, <1>2, <1>i, <1>3, <1>5, AbortStep
  <2> QED BY <1>2, <2>1, QuietStep
<1> QED BY <1>1, <1>4, <1>5 DEF Verify

\* COMMITTED, about a Change Set that was wholly in the vault.
LEMMA CommitStep ==
  ASSUME IInv, Commit
  PROVE  IInv'
<1>1. PICK c : c = run.id OBVIOUS
<1>2. /\ run.pc = "commit" /\ UNCHANGED elsewhere /\ whole' = whole
      /\ UNCHANGED <<host, vault, whole, state, before, registered, gates>>
  BY DEF Commit, At, elsewhere, host
<1>3. /\ HeadOf(c) /\ Covered(c) /\ c \in ChangeSets
      /\ blocked' \in BOOLEAN /\ health' \in {"clear", "blocked"}
  BY <1>1, <1>2, JobFacts DEF Driving, Mutating, gates
<1>i. c \in whole BY <1>1, <1>2 DEF IInv, Running
<1>4. PICK frame : frame = Frame(c, "COMMITTED", TRUE) OBVIOUS
<1>5. frame \in Frames /\ frame.id = c
  BY <1>3, <1>4 DEF Frame, Frames, Phases
<1>6. Persisted(frame) \/ PersistFailed(frame)
  BY <1>1, <1>4 DEF Commit
<1>7. /\ StoreInv' /\ HeadOf(c)' /\ Covered(c)' /\ (Fault \/ UNCHANGED faults)
  BY <1>2, <1>3, <1>i, <1>5, <1>6, PersistFacts, JournalStep DEF IInv
<1>8. CASE Goto("committed")
  <2>1. PICK pc \in {"committed"} : Goto(pc) BY <1>8
  <2>2. Running' /\ run' \in RunType /\ run'.kind = run.kind
    BY <1>1, <1>2, <1>i, <1>7, <2>1, GotoStep DEF Driving
  <2> QED BY <1>2, <1>3, <1>7, <2>2, JobStep
<1>9. CASE Abort
  <2>1. Running' /\ run' \in RunType /\ run'.kind = run.kind
    BY <1>1, <1>2, <1>3, <1>7, <1>9, AbortStep
  <2> QED BY <1>2, <1>3, <1>7, <2>1, JobStep
<1> QED BY <1>8, <1>9 DEF Commit

\* The registry learns that it is applied.
LEMMA RecordAppliedStep ==
  ASSUME IInv, RecordApplied
  PROVE  IInv'
<1>1. PICK c : c = run.id OBVIOUS
<1>2. /\ run.pc = "committed" /\ UNCHANGED elsewhere
      /\ UNCHANGED <<host, vault, whole, journal, before, registered, gates>>
  BY DEF RecordApplied, At, elsewhere, host
<1>3. /\ c \in ChangeSets /\ Known(c)
      /\ blocked' \in BOOLEAN /\ health' \in {"clear", "blocked"}
  BY <1>1, <1>2, JobFacts DEF Driving, gates
<1>i. c \in whole BY <1>1, <1>2 DEF IInv, Running
<1>4. CASE /\ state' = SetState(c, "intent_applied") /\ UNCHANGED faults
           /\ Goto("next")
  <2>1. StoreInv' BY <1>2, <1>3, <1>i, <1>4, StateStep DEF IInv, States
  <2>2. Running' /\ run' \in RunType /\ run'.kind = run.kind
    BY <1>2, <1>4, FreeStep DEF Free
  <2> QED BY <1>2, <1>3, <1>4, <2>1, <2>2, JobStep
<1>5. CASE SaveFailed /\ Goto("throw")
  <2>1. Running' /\ run' \in RunType /\ run'.kind = run.kind
    BY <1>2, <1>5, FreeStep DEF Free
  <2> QED BY <1>2, <1>5, <2>1, QuietStep DEF SaveFailed
<1> QED BY <1>1, <1>4, <1>5 DEF RecordApplied, Saved

-----------------------------------------------------------------------------
(* The jobs of the write lease.                                              *)

\* Steps that leave the store alone, but not the calls, queues and gates.
LEMMA OtherStep ==
  ASSUME IInv, UNCHANGED store, Running', Leases', run' \in RunType,
         writeMode' \in WriteModes, proc' \in {"down", "opening", "up"},
         blocked' \in BOOLEAN, health' \in {"clear", "blocked"},
         calls' \in [ChangeSets -> {"idle", "clear", "blocked", "waiting"}],
         lease' \in Seq(JobType), control' \in Seq(ControlType),
         unwritten' \subseteq ThirdParty, crashes' \in 0..MaxCrashes,
         Fault \/ UNCHANGED faults
  PROVE  IInv'
<1>1. StoreInv' BY SameStore DEF IInv
<1>2. StoreTypes' /\ UNCHANGED <<before, enqueueSeq, nextEnqueueSeq>>
  BY <1>1 DEF StoreInv, store, registered
<1>3. faults' \in 0..MaxFaults BY BoundsAssumption DEF Fault, IInv, TypeOK
<1>4. TypeOK' BY <1>2, <1>3 DEF IInv, TypeOK, StoreTypes
<1> QED BY <1>1, <1>4 DEF IInv

\* A job that handles no Change Set, or no job.
LEMMA FreshRun ==
  ASSUME run'.pc \in Free \cup {"idle"}, run'.pc = "idle" <=> run'.kind = "idle"
  PROVE  Running'
BY DEF Running, Free, Driving, Mutating, Restoring

\* A job that does not move while the store stays as it is.
LEMMA SameRun ==
  ASSUME IInv, UNCHANGED store, UNCHANGED run
  PROVE  Running'
<1>1. PICK c : c = run.id OBVIOUS
<1>2. (HeadOf(c) => HeadOf(c)') /\ (Covered(c) => Covered(c)') /\ whole' = whole
  BY SameStore DEF IInv, store
<1> QED BY <1>1, <1>2 DEF IInv, Running

\* open() and a submit start with #recover.
LEMMA OpenStep ==
  ASSUME IInv, Open
  PROVE  IInv'
<1>1. /\ run' \in RunType /\ run'.kind = "open" /\ run'.pc = "recover"
  BY DEF Open, Idle, RunType, Pcs
<1>2. Running' BY <1>1, FreshRun DEF Free
<1>3. Leases' BY <1>1 DEF Leases
<1>4. UNCHANGED store BY DEF Open, executor, host, store
<1> QED BY <1>1, <1>2, <1>3, <1>4, OtherStep
      DEF Open, executor, gates, queues, IInv, TypeOK

\* A submit that holds the write lease names its Change Set.
LEMMA HeadIsSubmit ==
  ASSUME IInv, lease # <<>>, Head(lease).kind = "submit"
  PROVE  Head(lease).id \in ChangeSets
<1>1. lease \in Seq(JobType) BY DEF IInv, TypeOK
<1>2. PICK job \in JobType : job = Head(lease) BY <1>1
<1>3. job.kind = "submit" BY <1>2
<1> QED BY <1>2, <1>3 DEF JobType, ControlKinds

\* ... the submit at the head of the write lease.
LEMMA StartSubmitStep ==
  ASSUME IInv, StartSubmit
  PROVE  IInv'
<1>1. Head(lease).id \in ChangeSets
  BY HeadIsSubmit DEF StartSubmit
<1>2. /\ run' \in RunType /\ run'.kind = "submit" /\ run'.pc = "recover"
  BY <1>1 DEF StartSubmit, Idle, RunType, Pcs
<1>3. Running' BY <1>2, FreshRun DEF Free
<1>4. /\ UNCHANGED <<store, writeMode, proc, calls, lease, control, unwritten, crashes>>
      /\ UNCHANGED <<blocked, health, faults>>
  BY DEF StartSubmit, executor, host, store, elsewhere, queues, gates
<1>5. Leases' BY <1>2, <1>4 DEF Leases, StartSubmit
<1> QED BY <1>2, <1>3, <1>4, <1>5, OtherStep DEF IInv, TypeOK

\* After #recover, and between the entries that a job executes.
LEMMA DispatchStep ==
  ASSUME IInv, Dispatch \/ NextEntry
  PROVE  IInv'
<1>1. /\ run.kind # "idle" /\ run.pc # "idle" /\ run \in RunType /\ UNCHANGED faults
      /\ UNCHANGED <<host, journal, state, gates, elsewhere>>
  BY DEF IInv, TypeOK, Running, Dispatch, NextEntry, At, executor
<1>2. CASE \E pc \in Free : Goto(pc)
  <2>1. Running' /\ run' \in RunType /\ run'.kind = run.kind
    BY <1>1, <1>2, FreeStep
  <2> QED BY <1>1, <2>1, QuietStep
<1>3. CASE Dispatch
  <2>1. PICK id \in ChangeSets \cup {None}, pc \in {"done", "preflight", "next"},
             todo \in SUBSET ChangeSets :
          run' = [run EXCEPT !.within = "execute", !.id = id, !.pc = pc, !.todo = todo]
    <3>1. run.kind = "submit" => Head(lease).id \in ChangeSets
      BY HeadIsSubmit DEF IInv, Leases
    <3>2. Pending \subseteq ChangeSets BY DEF Pending
    <3> DEFINE go == ~blocked /\ writeMode = "none"
               id == IF run.kind = "submit" THEN Head(lease).id ELSE None
               pc == IF ~go THEN "done"
                     ELSE IF run.kind = "submit" THEN "preflight" ELSE "next"
               todo == IF run.kind = "open" /\ go THEN Pending ELSE {}
    <3>3. /\ id \in ChangeSets \cup {None} /\ pc \in {"done", "preflight", "next"}
          /\ todo \in SUBSET ChangeSets
      BY <3>1, <3>2
    <3>4. run' = [run EXCEPT !.within = "execute", !.id = id, !.pc = pc, !.todo = todo]
      BY <1>3 DEF Dispatch
    <3> QED BY <3>3, <3>4
  <2>2. run' \in RunType /\ run'.kind = run.kind /\ run'.pc = pc
    BY <1>1, <2>1 DEF RunType, Pcs
  <2>3. Running' BY <1>1, <2>2, FreshRun DEF Free
  <2> QED BY <1>1, <2>2, <2>3, QuietStep
<1>4. ASSUME NEW c \in run.todo,
             run' = [run EXCEPT !.pc = "preflight", !.id = c, !.todo = @ \ {c}]
      PROVE  IInv'
  <2>1. run' \in RunType /\ run'.kind = run.kind /\ run'.pc = "preflight"
    BY <1>1, <1>4 DEF RunType, Pcs
  <2>2. Running' BY <1>1, <2>1, FreshRun DEF Free
  <2> QED BY <1>1, <2>1, <2>2, QuietStep
<1> QED BY <1>2, <1>3, <1>4 DEF NextEntry, Free

\* A job that rejects; open() fails, or blocks what it found unfinished.
LEMMA RejectStep ==
  ASSUME IInv, Reject
  PROVE  IInv'
<1>1. /\ run.pc = "throw" /\ UNCHANGED <<store, writeMode, calls, lease, control>>
      /\ UNCHANGED <<unwritten, crashes, faults>> /\ run.kind # "idle"
  BY DEF Reject, At, host, store, queues, IInv, Running
<1>2. CASE /\ proc' = "down" /\ run' = Idle /\ blocked' = FALSE /\ health' = "clear"
  <2>1. run' \in RunType /\ run'.kind = "idle" /\ run'.pc = "idle"
    BY <1>2 DEF Idle, RunType, Pcs
  <2>2. Running' /\ Leases' BY <2>1, FreshRun DEF Leases
  <2> QED BY <1>1, <1>2, <2>1, <2>2, OtherStep DEF IInv, TypeOK
<1>3. CASE /\ \E pc \in Free : Goto(pc)
           /\ UNCHANGED <<proc, health>> /\ blocked' = (blocked \/ run.kind = "open")
  <2>1. Running' /\ run' \in RunType /\ run'.kind = run.kind
    BY <1>1, <1>3, FreeStep
  <2>2. Leases' BY <1>1, <2>1 DEF IInv, Leases
  <2>3. blocked' \in BOOLEAN BY <1>3
  <2> QED BY <1>1, <1>3, <2>1, <2>2, <2>3, OtherStep DEF IInv, TypeOK
<1> QED BY <1>2, <1>3 DEF Reject, Free

\* ... one registry entry at a time.
LEMMA BlockOpenStep ==
  ASSUME IInv, BlockOpen
  PROVE  IInv'
<1>1. /\ run.pc = "block" /\ UNCHANGED <<vault, whole, journal, before, registered>>
      /\ UNCHANGED <<host, writeMode, queues, calls, lease, control, unwritten, crashes>>
      /\ run.kind # "idle"
  BY DEF BlockOpen, At, host, queues, IInv, Running
<1>2. ASSUME NEW c \in ChangeSets, HeadOf(c), state' = SetState(c, "result_unproven"),
             UNCHANGED faults, health' = "blocked", UNCHANGED <<run, proc, blocked>>
      PROVE  IInv'
  <2>1. Known(c) BY <1>2, HeadFacts DEF IInv
  <2>2. StoreInv' BY <1>1, <1>2, <2>1, StateStep DEF IInv, States
  <2>3. Running' BY <1>1, <1>2, FreshRun DEF Free
  <2> QED BY <1>1, <1>2, <2>2, <2>3, JobStep DEF elsewhere, IInv, TypeOK
<1>3. CASE /\ SaveFailed /\ proc' = "down" /\ run' = Idle /\ blocked' = FALSE
           /\ health' = "clear"
  <2>1. run' \in RunType /\ run'.kind = "idle" /\ run'.pc = "idle"
    BY <1>3 DEF Idle, RunType, Pcs
  <2>2. Running' /\ Leases' BY <2>1, FreshRun DEF Leases
  <2>3. UNCHANGED store /\ Fault BY <1>1, <1>3 DEF SaveFailed, store
  <2> QED BY <1>1, <1>3, <2>1, <2>2, <2>3, OtherStep DEF IInv, TypeOK
<1>4. CASE Goto("done") /\ health' = "blocked" /\ UNCHANGED <<state, faults, proc, blocked>>
  <2>1. Running' /\ run' \in RunType /\ run'.kind = run.kind
    BY <1>1, <1>4, FreeStep DEF Free
  <2>2. Leases' BY <1>1, <2>1 DEF IInv, Leases
  <2>3. UNCHANGED store BY <1>1, <1>4 DEF store
  <2> QED BY <1>1, <1>4, <2>1, <2>2, <2>3, OtherStep DEF IInv, TypeOK
<1> QED BY <1>2, <1>3, <1>4 DEF BlockOpen, Saved

\* The write lease passes on.
LEMMA FinishStep ==
  ASSUME IInv, Finish
  PROVE  IInv'
<1>1. /\ UNCHANGED <<store, writeMode, unwritten, crashes, faults, blocked, health>>
      /\ run.kind # "idle" /\ run \in RunType
  BY DEF Finish, At, executor, host, store, gates, IInv, TypeOK, Running
<1>2. run' \in RunType /\ run'.kind = "idle" /\ run'.pc = "idle"
  BY DEF Finish, Idle, RunType, Pcs
<1>3. Running' /\ Leases' BY <1>2, FreshRun DEF Leases
<1>4. lease' \in Seq(JobType)
  BY <1>1 DEF Finish, IInv, TypeOK, Leases, RunType
<1>5. control' \in Seq(ControlType)
  BY <1>1 DEF Finish, IInv, TypeOK, Leases, RunType
<1>6. calls' \in [ChangeSets -> {"idle", "clear", "blocked", "waiting"}]
  BY DEF Finish, IInv, TypeOK
<1> QED BY <1>1, <1>2, <1>3, <1>4, <1>5, <1>6, OtherStep DEF Finish, IInv, TypeOK

-----------------------------------------------------------------------------
(* The clients' calls and the control calls, beside the running job.         *)

\* A call or a control call while the job stands still.
LEMMA CallStep ==
  ASSUME IInv, UNCHANGED <<store, run, blocked, health, proc, unwritten, crashes>>,
         writeMode' \in WriteModes,
         calls' \in [ChangeSets -> {"idle", "clear", "blocked", "waiting"}],
         lease' \in Seq(JobType), control' \in Seq(ControlType),
         Fault \/ UNCHANGED faults, Leases'
  PROVE  IInv'
<1>1. Running' BY SameRun
<1>2. /\ run' \in RunType /\ proc' \in {"down", "opening", "up"}
      /\ blocked' \in BOOLEAN /\ health' \in {"clear", "blocked"}
      /\ unwritten' \subseteq ThirdParty /\ crashes' \in 0..MaxCrashes
  BY DEF IInv, TypeOK
<1> QED BY <1>1, <1>2, OtherStep

\* The queue of the write lease grows at its end.
LEMMA AppendStep ==
  ASSUME IInv, NEW job \in JobType, lease' = Append(lease, job), UNCHANGED run,
         run.kind = "resume" => control' # <<>> /\ Head(control').leased
  PROVE  lease' \in Seq(JobType) /\ Leases'
<1>1. lease \in Seq(JobType) BY DEF IInv, TypeOK
<1>2. lease' \in Seq(JobType) BY <1>1
<1>3. lease # <<>> => lease' # <<>> /\ Head(lease') = Head(lease) BY <1>1
<1> QED BY <1>2, <1>3 DEF IInv, Leases

\* A submit call, and one whose key the registry holds.
LEMMA CallAgainStep ==
  ASSUME IInv, NEW c \in ChangeSets, Call(c) \/ Resubmit(c)
  PROVE  IInv'
<1>1. /\ UNCHANGED <<store, run, blocked, health, proc, unwritten, crashes>>
      /\ UNCHANGED <<writeMode, control, faults>>
  BY DEF Call, Resubmit, executor, host, store, gates
<1>2. /\ calls \in [ChangeSets -> {"idle", "clear", "blocked", "waiting"}]
      /\ health \in {"clear", "blocked"} /\ lease \in Seq(JobType)
      /\ control \in Seq(ControlType) /\ writeMode \in WriteModes
  BY DEF IInv, TypeOK
<1>3. calls' \in [ChangeSets -> {"idle", "clear", "blocked", "waiting"}]
  BY <1>2 DEF Call, Resubmit, Enqueued, Answered
<1>4. lease' \in Seq(JobType) /\ Leases'
  <2>1. CASE UNCHANGED lease BY <1>1, <1>2, <2>1 DEF IInv, Leases
  <2>2. CASE lease' = Append(lease, Job("submit", c))
    <3>1. PICK job : job = Job("submit", c) OBVIOUS
    <3>2. job \in JobType BY <3>1 DEF Job, JobType
    <3>3. run.kind = "resume" => control' # <<>> /\ Head(control').leased
      BY <1>1 DEF IInv, Leases
    <3> QED BY <1>1, <2>2, <3>1, <3>2, <3>3, AppendStep
  <2> QED BY <2>1, <2>2 DEF Call, Resubmit, Enqueued, Answered
<1> QED BY <1>1, <1>2, <1>3, <1>4, CallStep

\* A new Change Set is registered last: its number is the greatest, and what
\* its preview binds belongs to Change Sets registered before.
LEMMA AdmitStep ==
  ASSUME IInv, NEW c \in ChangeSets, state[c] = "none",
         NEW s \in {"queued", "intent_not_applied"}, Admitted(c, s),
         UNCHANGED <<vault, whole, journal>>
  PROVE  /\ StoreInv' /\ UNCHANGED faults
         /\ \A d : (HeadOf(d) => HeadOf(d)') /\ (Covered(d) => Covered(d)')
         /\ before' \in [ChangeSets -> [Paths -> Values \cup {None}]]
         /\ enqueueSeq' \in [ChangeSets -> Nat] /\ nextEnqueueSeq' \in Nat \ {0}
<1>1. /\ state' = [state EXCEPT ![c] = s] /\ UNCHANGED faults
      /\ enqueueSeq' = [enqueueSeq EXCEPT ![c] = nextEnqueueSeq]
      /\ nextEnqueueSeq' = nextEnqueueSeq + 1
      /\ before' = [before EXCEPT ![c] =
           [p \in Paths |-> IF p \in Footprint[c] THEN vault[p] ELSE None]]
  BY DEF Admitted, Saved, SetState
<1>2. /\ vault \in [Paths -> Values] /\ state \in [ChangeSets -> States]
      /\ enqueueSeq \in [ChangeSets -> Nat] /\ nextEnqueueSeq \in Nat \ {0}
      /\ before \in [ChangeSets -> [Paths -> Values \cup {None}]]
  BY DEF IInv, TypeOK
<1>3. /\ enqueueSeq' \in [ChangeSets -> Nat] /\ nextEnqueueSeq' \in Nat \ {0}
      /\ state' \in [ChangeSets -> States]
  BY <1>1, <1>2 DEF States
<1>4. before' \in [ChangeSets -> [Paths -> Values \cup {None}]]
  BY <1>1, <1>2
<1>5. /\ Known(c)' /\ ~Known(c) /\ ~InProgress(c)
      /\ \A d \in ChangeSets \ {c} : /\ Known(d)' <=> Known(d)
                                     /\ InProgress(d)' <=> InProgress(d)
                                     /\ enqueueSeq'[d] = enqueueSeq[d]
      /\ enqueueSeq'[c] = nextEnqueueSeq
      /\ \A d \in ChangeSets : InProgress(d) => Known(d)
  BY <1>1, <1>2 DEF Known, InProgress
<1>6. \A d \in ChangeSets : Known(d) => enqueueSeq[d] \in 1..(nextEnqueueSeq - 1)
  BY DEF IInv, StoreInv, Registered
<1>7. Registered'
  <2>1. \A d \in ChangeSets : Known(d)' => enqueueSeq'[d] \in 1..nextEnqueueSeq
    BY <1>2, <1>5, <1>6
  <2>2. ASSUME NEW d \in ChangeSets, NEW e \in ChangeSets, Known(d)', Known(e)',
               enqueueSeq'[d] = enqueueSeq'[e]
        PROVE  d = e
    <3>1. CASE d # c /\ e # c
      BY <1>5, <2>2, <3>1 DEF IInv, StoreInv, Registered
    <3>2. CASE d = c \/ e = c BY <1>2, <1>5, <1>6, <2>2, <3>2
    <3> QED BY <3>1, <3>2
  <2>3. nextEnqueueSeq' - 1 = nextEnqueueSeq BY <1>1, <1>2
  <2> QED BY <2>1, <2>2, <2>3 DEF Registered, Known
<1>8. \A d : HeadOf(d) => HeadOf(d)'
  <2> SUFFICES ASSUME NEW d, HeadOf(d) PROVE HeadOf(d)' OBVIOUS
  <2>1. d \in ChangeSets \ {c} /\ InProgress(d) /\ Known(d)
    BY <1>5 DEF HeadOf, First, Pending
  <2>2. ASSUME NEW e \in ChangeSets, InProgress(e)'
        PROVE  enqueueSeq'[d] <= enqueueSeq'[e]
    <3>1. CASE e = c BY <1>2, <1>5, <1>6, <2>1, <3>1
    <3>2. CASE e # c BY <1>5, <2>1, <2>2, <3>2 DEF HeadOf, First, Pending
    <3> QED BY <3>1, <3>2
  <2> QED BY <1>5, <2>1, <2>2 DEF HeadOf, First, Pending
<1>9. \A d : Covered(d)' <=> Covered(d) BY DEF Covered
<1>10. Previews'
  <2> SUFFICES ASSUME NEW d \in ChangeSets, Known(d)', NEW p \in Footprint[d]
               PROVE  /\ before'[d][p] \in Values
                      /\ before'[d][p] \in ChangeSets =>
                           /\ state'[before'[d][p]] # "none"
                           /\ enqueueSeq'[before'[d][p]] < enqueueSeq'[d]
    BY DEF Previews, Known
  <2>1. PICK v : v = before'[d][p] OBVIOUS
  <2>2. p \in Paths BY FootprintAssumption
  <2>3. CASE d = c
    <3>1. v = vault[p] BY <1>1, <1>2, <2>1, <2>2, <2>3
    <3>2. v \in Values /\ (v \in ChangeSets => Known(v))
      BY <1>2, <2>2, <3>1 DEF IInv, StoreInv, Effects
    <3>3. v \in ChangeSets => v # c /\ enqueueSeq[v] < nextEnqueueSeq
      BY <1>2, <1>5, <1>6, <3>2
    <3> QED BY <1>1, <1>2, <1>5, <2>1, <2>3, <3>2, <3>3 DEF Known
  <2>4. CASE d # c
    <3>1. v = before[d][p] /\ Known(d) BY <1>1, <1>2, <1>5, <2>1, <2>4
    <3>2. /\ v \in Values
          /\ v \in ChangeSets => Known(v) /\ enqueueSeq[v] < enqueueSeq[d]
      BY <3>1 DEF IInv, StoreInv, Previews
    <3> QED BY <1>1, <1>2, <1>5, <2>1, <2>4, <3>2 DEF Known
  <2> QED BY <2>3, <2>4
<1>11. Journaled'
  <2> SUFFICES ASSUME journal \in Frames
               PROVE  Known(journal.id)' /\ (InProgress(journal.id)' => HeadOf(journal.id)')
    BY DEF Journaled
  <2>1. PICK d \in ChangeSets : d = journal.id BY DEF Frames
  <2>2. Known(d) /\ (InProgress(d) => HeadOf(d))
    BY <2>1 DEF IInv, StoreInv, Journaled
  <2>3. Known(d)' /\ (InProgress(d)' => HeadOf(d)') BY <1>5, <1>8, <2>2
  <2> QED BY <2>1, <2>3 DEF Known, InProgress, HeadOf, First, Pending
<1>12. Effects'
  <2> SUFFICES ASSUME NEW p \in Paths, NEW d \in ChangeSets, vault[p] = d
               PROVE  Known(d)' /\ (InProgress(d)' => Covered(d)')
    BY DEF Effects, Known, InProgress, Covered
  <2>1. Known(d) /\ (InProgress(d) => Covered(d))
    BY DEF IInv, StoreInv, Effects
  <2> QED BY <1>5, <1>9, <2>1
<1>13. Applied'
  BY <1>1, <1>2 DEF IInv, StoreInv, Applied, AsPublished
<1>14. StoreTypes' BY <1>3 DEF IInv, StoreInv, StoreTypes
<1> QED BY <1>1, <1>3, <1>4, <1>7, <1>8, <1>9, <1>10, <1>11, <1>12, <1>13, <1>14
      DEF StoreInv

\* #submitUnlocked.
LEMMA SubmitStep ==
  ASSUME IInv, NEW c \in ChangeSets, Submit(c)
  PROVE  IInv'
<1>1. /\ UNCHANGED <<vault, whole, journal, run, blocked, health, proc, unwritten>>
      /\ UNCHANGED <<crashes, writeMode, control>> /\ state[c] = "none"
  BY DEF Submit, host, gates
<1>2. /\ calls \in [ChangeSets -> {"idle", "clear", "blocked", "waiting"}]
      /\ lease \in Seq(JobType)
  BY DEF IInv, TypeOK
<1>3. calls' \in [ChangeSets -> {"idle", "clear", "blocked", "waiting"}]
  BY <1>2 DEF Submit, Enqueued, Answered
<1>4. lease' \in Seq(JobType) /\ Leases'
  <2>1. CASE UNCHANGED lease BY <1>1, <1>2, <2>1 DEF IInv, Leases
  <2>2. CASE lease' = Append(lease, Job("submit", c))
    <3>1. PICK job : job = Job("submit", c) OBVIOUS
    <3>2. job \in JobType BY <3>1 DEF Job, JobType
    <3>3. run.kind = "resume" => control' # <<>> /\ Head(control').leased
      BY <1>1 DEF IInv, Leases
    <3> QED BY <1>1, <2>2, <3>1, <3>2, <3>3, AppendStep
  <2> QED BY <2>1, <2>2 DEF Submit, Enqueued, Answered
<1>5. CASE UNCHANGED <<state, before, registered>> /\ (Fault \/ UNCHANGED faults)
  <2>1. UNCHANGED store BY <1>1, <1>5 DEF store
  <2>2. writeMode' \in WriteModes /\ control' \in Seq(ControlType)
    BY <1>1 DEF IInv, TypeOK
  <2> QED BY <1>1, <1>3, <1>4, <1>5, <2>1, <2>2, CallStep
<1>6. ASSUME NEW s \in {"queued", "intent_not_applied"}, Admitted(c, s)
      PROVE  IInv'
  <2>1. /\ StoreInv' /\ UNCHANGED faults
        /\ \A d : (HeadOf(d) => HeadOf(d)') /\ (Covered(d) => Covered(d)')
        /\ before' \in [ChangeSets -> [Paths -> Values \cup {None}]]
        /\ enqueueSeq' \in [ChangeSets -> Nat] /\ nextEnqueueSeq' \in Nat \ {0}
    BY <1>1, <1>6, AdmitStep
  <2>2. Running'
    <3>1. PICK d : d = run.id OBVIOUS
    <3>2. (HeadOf(d) => HeadOf(d)') /\ (Covered(d) => Covered(d)') BY <2>1
    <3> QED BY <1>1, <3>1, <3>2 DEF IInv, Running
  <2>3. StoreTypes' BY <2>1 DEF StoreInv
  <2>4. TypeOK' BY <1>1, <1>3, <1>4, <2>1, <2>3 DEF IInv, TypeOK, StoreTypes
  <2> QED BY <1>4, <2>1, <2>2, <2>4 DEF IInv
<1> QED BY <1>5, <1>6 DEF Submit, SaveFailed, HostFailed

\* pause(), runMaintenance() and resume() queue for the control lease ...
LEMMA RequestControlStep ==
  ASSUME IInv, NEW kind \in ControlKinds, RequestControl(kind)
  PROVE  IInv'
<1>1. /\ UNCHANGED <<store, run, blocked, health, proc, unwritten, crashes>>
      /\ UNCHANGED <<writeMode, calls, lease, faults>>
  BY DEF RequestControl, executor, host, store, gates
<1>2. PICK entry \in ControlType : control' = Append(control, entry)
  BY DEF RequestControl, ControlType
<1>3. control \in Seq(ControlType) BY DEF IInv, TypeOK
<1>4. control' \in Seq(ControlType) BY <1>2, <1>3
<1>5. control # <<>> => control' # <<>> /\ Head(control') = Head(control)
  BY <1>2, <1>3
<1>6. Leases' BY <1>1, <1>5 DEF IInv, Leases
<1> QED BY <1>1, <1>4, <1>6, CallStep DEF IInv, TypeOK

\* ... and, holding it, for the write lease: no resume can be running then.
LEMMA LeasedStep ==
  ASSUME IInv, NEW kind \in ControlKinds, HoldsControl(kind), Leased(kind),
         UNCHANGED run
  PROVE  lease' \in Seq(JobType) /\ control' \in Seq(ControlType) /\ Leases'
<1>1. /\ control \in Seq(ControlType) /\ control # <<>> /\ ~Head(control).leased
  BY DEF IInv, TypeOK, HoldsControl
<1>2. PICK entry : entry = Head(control) OBVIOUS
<1>3. entry \in ControlType /\ entry = control[1] /\ 1 \in 1..Len(control)
  BY <1>1, <1>2
<1>4. [entry EXCEPT !.leased = TRUE] \in ControlType
  BY <1>3 DEF ControlType
<1>5. control' = [control EXCEPT ![1] = [entry EXCEPT !.leased = TRUE]]
  BY <1>3 DEF Leased
<1>6. control' \in Seq(ControlType) BY <1>1, <1>3, <1>4, <1>5, ExceptSeq
<1>7. PICK job : job = Job(kind, None) OBVIOUS
<1>8. job \in JobType BY <1>7 DEF Job, JobType
<1>9. run.kind # "resume" BY <1>1 DEF IInv, Leases
<1>10. lease' \in Seq(JobType) /\ Leases'
  BY <1>7, <1>8, <1>9, AppendStep DEF Leased
<1> QED BY <1>6, <1>10

\* The calls that take the control lease.
LEMMA ControlHeldStep ==
  ASSUME IInv, Pause \/ RunMaintenance \/ Resume
  PROVE  IInv'
<1>1. /\ UNCHANGED <<store, run, blocked, health, proc, unwritten, crashes>>
      /\ UNCHANGED <<calls, faults>> /\ writeMode' \in WriteModes
  BY DEF Pause, RunMaintenance, Resume, executor, host, store, gates, IInv, TypeOK,
         WriteModes
<1>2. CASE \E kind \in ControlKinds : HoldsControl(kind) /\ Leased(kind)
  <2>1. lease' \in Seq(JobType) /\ control' \in Seq(ControlType) /\ Leases'
    BY <1>1, <1>2, LeasedStep
  <2> QED BY <1>1, <2>1, CallStep DEF IInv, TypeOK
<1>3. CASE HoldsControl("pause") /\ control' = Tail(control) /\ UNCHANGED lease
  <2>1. control' \in Seq(ControlType)
    BY <1>3 DEF HoldsControl, IInv, TypeOK
  <2>2. run.kind # "resume" BY <1>3 DEF HoldsControl, IInv, Leases
  <2>3. Leases' BY <1>1, <1>3, <2>2 DEF IInv, Leases
  <2> QED BY <1>1, <1>3, <2>1, <2>3, CallStep DEF IInv, TypeOK
<1> QED BY <1>2, <1>3 DEF Pause, RunMaintenance, Resume, ControlKinds

\* The calls that come to hold both leases, and leave them.
LEMMA ControlReturnStep ==
  ASSUME IInv, PauseCompleted \/ MaintenanceCompleted \/ ResumeUnderLease
  PROVE  IInv'
<1>1. /\ UNCHANGED <<store, blocked, health, proc, calls, unwritten, crashes>>
      /\ Fault \/ UNCHANGED faults
      /\ writeMode' \in WriteModes /\ run.kind = "idle"
      /\ lease # <<>> /\ control # <<>> /\ Head(control).leased
      /\ lease \in Seq(JobType) /\ control \in Seq(ControlType)
  BY DEF PauseCompleted, MaintenanceCompleted, ResumeUnderLease, executor, host,
         store, gates, IInv, TypeOK, WriteModes, Holds, At, Running
<1>2. CASE UNCHANGED run /\ lease' = Tail(lease) /\ control' = Tail(control)
  <2>1. lease' \in Seq(JobType) /\ control' \in Seq(ControlType)
    BY <1>1, <1>2
  <2>2. Leases' BY <1>1, <1>2 DEF Leases
  <2> QED BY <1>1, <1>2, <2>1, <2>2, CallStep DEF IInv, TypeOK
<1>3. CASE ResumeUnderLease /\ UNCHANGED <<lease, control>>
           /\ run' = [Idle EXCEPT !.kind = "resume",
                        !.pc = IF blocked THEN "done" ELSE "next",
                        !.todo = IF blocked THEN {} ELSE Pending]
  <2>1. (IF blocked THEN {} ELSE Pending) \in SUBSET ChangeSets BY DEF Pending
  <2>2. run' \in RunType /\ run'.kind = "resume" /\ run'.pc \in {"done", "next"}
    BY <1>3, <2>1 DEF Idle, RunType, Pcs
  <2>3. Running' BY <2>2, FreshRun DEF Free
  <2>4. Leases' BY <1>1, <1>3, <2>2 DEF Leases, ResumeUnderLease, Holds
  <2> QED BY <1>1, <1>3, <2>2, <2>3, <2>4, OtherStep DEF IInv, TypeOK
<1> QED BY <1>2, <1>3 DEF PauseCompleted, MaintenanceCompleted, ResumeUnderLease

-----------------------------------------------------------------------------
(* The environment.                                                          *)

\* Third parties write values of their own, at any path and at any moment.
LEMMA ThirdPartyStep ==
  ASSUME IInv, NEW v \in ThirdParty, NEW p \in Paths, ThirdPartyWrite(p, v)
  PROVE  IInv'
<1>1. /\ v \in unwritten
      /\ Wrote([vault EXCEPT ![p] = v]) /\ unwritten' = unwritten \ {v}
  BY DEF ThirdPartyWrite
<1>2. v \in Values /\ v \notin ChangeSets /\ unwritten' \subseteq ThirdParty
  BY <1>1, ValuesAssumption DEF Values, IInv, TypeOK
<1>3. /\ UNCHANGED <<journal, state, before, enqueueSeq, nextEnqueueSeq, registered>>
      /\ UNCHANGED <<run, faults, blocked, health, writeMode, proc, calls, lease>>
      /\ UNCHANGED <<control, crashes>>
  BY DEF ThirdPartyWrite, registered, gates, queues
<1>4. /\ StoreInv' /\ whole \subseteq whole'
      /\ \A d : (HeadOf(d) => HeadOf(d)') /\ (Covered(d) => Covered(d)')
  BY <1>1, <1>2, <1>3, VaultStep DEF IInv
<1>5. Running'
  <2>1. PICK d : d = run.id OBVIOUS
  <2>2. (HeadOf(d) => HeadOf(d)') /\ (Covered(d) => Covered(d)') BY <1>4
  <2> QED BY <1>3, <1>4, <2>1, <2>2 DEF IInv, Running
<1>6. StoreTypes' BY <1>4 DEF StoreInv
<1>7. TypeOK' BY <1>2, <1>3, <1>6 DEF IInv, TypeOK, StoreTypes
<1>8. Leases' BY <1>3 DEF IInv, Leases
<1> QED BY <1>4, <1>5, <1>7, <1>8 DEF IInv

\* A crash leaves what is durable, but for a first frame that may be torn.
LEMMA CrashStep ==
  ASSUME IInv, Crash
  PROVE  IInv'
<1>1. /\ UNCHANGED <<vault, whole, state, before, enqueueSeq, nextEnqueueSeq>>
      /\ UNCHANGED <<registered, writeMode, faults, unwritten>>
      /\ run' = Idle /\ lease' = <<>> /\ control' = <<>> /\ proc' = "down"
      /\ blocked' = FALSE /\ health' = "clear"
      /\ calls' = [c \in ChangeSets |-> "idle"]
      /\ crashes < MaxCrashes /\ crashes' = crashes + 1
  BY DEF Crash, host, registered
<1>2. run' \in RunType /\ run'.kind = "idle" /\ run'.pc = "idle"
  BY <1>1 DEF Idle, RunType, Pcs
<1>3. Running' /\ Leases' BY <1>2, FreshRun DEF Leases
<1>4. StoreInv'
  <2>1. CASE UNCHANGED journal
    <3>1. UNCHANGED store BY <1>1, <2>1 DEF store
    <3> QED BY <3>1, SameStore DEF IInv
  <2>2. CASE At("prepare") /\ journal = None /\ journal' = Damaged
    <3>1. PICK c : c = run.id OBVIOUS
    <3>2. HeadOf(c) /\ c \in ChangeSets BY <2>2, <3>1, JobFacts DEF At, Driving
    <3>3. PICK frame \in Frames : frame.id = c /\ frame.phase # "COMMITTED"
      <4>1. Frame(c, "PREPARED", FALSE) \in Frames
        BY <3>2 DEF Frame, Frames, Phases
      <4> QED BY <4>1 DEF Frame
    <3> QED BY <1>1, <2>2, <3>2, <3>3, JournalStep DEF IInv
  <2> QED BY <2>1, <2>2 DEF Crash
<1>5. crashes' \in 0..MaxCrashes BY <1>1, BoundsAssumption DEF IInv, TypeOK
<1>6. lease' \in Seq(JobType) /\ control' \in Seq(ControlType) BY <1>1
<1>7. StoreTypes' BY <1>4 DEF StoreInv
<1>8. TypeOK' BY <1>1, <1>2, <1>5, <1>6, <1>7 DEF IInv, TypeOK, StoreTypes
<1> QED BY <1>3, <1>4, <1>8 DEF IInv

-----------------------------------------------------------------------------
(* The invariant and the theorems.                                           *)

\* An empty registry and an untouched vault satisfy the invariant.
LEMMA InitInvariant ==
  ASSUME Init
  PROVE  IInv
<1>1. /\ run.kind = "idle" /\ run.pc = "idle" /\ run \in RunType
  BY DEF Init, Idle, RunType, Pcs
<1>2. \A c \in ChangeSets : ~Known(c) /\ ~InProgress(c) /\ ~AsPublished(c)
  <2> SUFFICES ASSUME NEW c \in ChangeSets
               PROVE  ~Known(c) /\ ~InProgress(c) /\ ~AsPublished(c)
    OBVIOUS
  <2>1. PICK p \in Paths : p \in Footprint[c] BY FootprintAssumption
  <2>2. vault[p] # c BY <2>1, ValuesAssumption DEF Init
  <2> QED BY <2>1, <2>2 DEF Init, Known, InProgress, AsPublished
<1>3. journal = None /\ journal \notin Frames
  BY JournalAssumption DEF Init
<1>4. TypeOK
  <2>1. /\ vault \in [Paths -> Values] /\ state \in [ChangeSets -> States]
        /\ before \in [ChangeSets -> [Paths -> Values \cup {None}]]
        /\ enqueueSeq \in [ChangeSets -> Nat] /\ nextEnqueueSeq \in Nat \ {0}
    BY DEF Init, Values, States
  <2>2. /\ calls \in [ChangeSets -> {"idle", "clear", "blocked", "waiting"}]
        /\ lease \in Seq(JobType) /\ control \in Seq(ControlType)
    BY DEF Init
  <2>3. crashes \in 0..MaxCrashes /\ faults \in 0..MaxFaults
    BY BoundsAssumption DEF Init
  <2> QED BY <1>1, <2>1, <2>2, <2>3 DEF Init, TypeOK, WriteModes
<1>5. StoreTypes BY <1>4 DEF TypeOK, StoreTypes
<1>6. Registered /\ Previews BY <1>2 DEF Registered, Previews
<1>7. Journaled BY <1>3 DEF Journaled
<1>8. Effects BY ValuesAssumption DEF Init, Effects
<1>9. Applied BY <1>2, <1>3 DEF Applied, Init
<1>10. Running BY <1>1 DEF Running, Driving, Mutating, Restoring
<1>11. Leases BY <1>1 DEF Leases
<1> QED BY <1>4, <1>5, <1>6, <1>7, <1>8, <1>9, <1>10, <1>11 DEF IInv, StoreInv

\* Nothing happens.
LEMMA StutterStep ==
  ASSUME IInv, UNCHANGED vars
  PROVE  IInv'
<1>1. /\ UNCHANGED <<store, run, blocked, health, proc, unwritten, crashes>>
      /\ UNCHANGED <<calls, lease, control, writeMode, faults>>
  BY DEF vars, durable, gates, queues, budget, store
<1>2. Leases' BY <1>1 DEF IInv, Leases
<1> QED BY <1>1, <1>2, CallStep DEF IInv, TypeOK

\* Every step of the service, its clients, third parties and crashes preserves
\* the invariant.
LEMMA NextInvariant ==
  ASSUME IInv, [Next]_vars
  PROVE  IInv'
<1>1. CASE Recover BY <1>1, RecoverQuietStep, RecoverOutcomeStep DEF Recover
<1>2. CASE RestorePrepared
  BY <1>2, PlanStep, UndoStep, VerifyRestoredStep, RestoreFrameStep,
     RecordNotAppliedStep, MarkUnprovenStep DEF RestorePrepared
<1>3. CASE ExecuteMutation
  BY <1>3, PreflightStep, PrepareStep, BeginStep, StageStep, CompareStep,
     PublishStep, VerifyStep, CommitStep, RecordAppliedStep DEF ExecuteMutation
<1>4. CASE Open \/ StartSubmit \/ Dispatch \/ NextEntry \/ Reject \/ BlockOpen \/ Finish
  BY <1>4, OpenStep, StartSubmitStep, DispatchStep, RejectStep, BlockOpenStep,
     FinishStep
<1>5. CASE Control
  BY <1>5, ControlHeldStep, ControlReturnStep DEF Control
<1>6. CASE \E c \in ChangeSets : Call(c) \/ Submit(c) \/ Resubmit(c)
  BY <1>6, CallAgainStep, SubmitStep
<1>7. CASE \E kind \in ControlKinds : RequestControl(kind)
  BY <1>7, RequestControlStep
<1>8. CASE \E v \in ThirdParty, p \in Paths : ThirdPartyWrite(p, v)
  BY <1>8, ThirdPartyStep
<1>9. CASE Crash BY <1>9, CrashStep
<1>10. CASE UNCHANGED vars BY <1>10, StutterStep
<1> QED BY <1>1, <1>2, <1>3, <1>4, <1>5, <1>6, <1>7, <1>8, <1>9, <1>10
        DEF Next, Execute

\* The strengthened invariant holds throughout: the newest frame is about the
\* head of the queue, and all unfinished effects are that Change Set's.
THEOREM Inductive == Spec => []IInv
<1>1. Init => IInv BY InitInvariant
<1>2. IInv /\ [Next]_vars => IInv' BY NextInvariant
<1> QED BY <1>1, <1>2, PTL DEF Spec

\* The service's state keeps its types under every fault (change-set.ts).
THEOREM TypeCorrect == Spec => []TypeOK
<1>1. IInv => TypeOK BY DEF IInv
<1> QED BY <1>1, Inductive, PTL

\* Whatever fails, and whenever the process dies, the bytes of an unfinished
\* Change Set are covered by the newest frame, so #recover finds them.
THEOREM NoOrphanEffectsHolds == Spec => []NoOrphanEffects
<1>1. IInv => NoOrphanEffects
  BY DEF IInv, StoreInv, Effects, Covered, NoOrphanEffects
<1> QED BY <1>1, Inductive, PTL

\* intent_applied is reported, by #executeMutation or by #recover, only of
\* Change Sets whose whole footprint was in the vault at some instant.
THEOREM AppliedWasWholeHolds == Spec => []AppliedWasWhole
<1>1. IInv => AppliedWasWhole
  BY DEF IInv, StoreInv, Applied, AppliedWasWhole
<1> QED BY <1>1, Inductive, PTL

\* Only two steps report a Change Set applied, each of them the head of the
\* queue: the executing job after COMMITTED, and recovery for such a frame.
LEMMA AppliedByHead ==
  ASSUME IInv, [Next]_vars, NEW c \in ChangeSets,
         state[c] # "intent_applied", state'[c] = "intent_applied"
  PROVE  HeadOf(c)
<1>1. state \in [ChangeSets -> States] BY DEF IInv, TypeOK
<1>2. ASSUME NEW d, NEW s, state' = SetState(d, s) PROVE s = "intent_applied" /\ d = c
  BY <1>1, <1>2 DEF SetState
<1>3. CASE RecordApplied
  <2>1. run.id = c BY <1>2, <1>3 DEF RecordApplied, Saved, SaveFailed
  <2> QED BY <1>3, <2>1 DEF RecordApplied, At, IInv, Running, Driving
<1>4. CASE RecoverOutcome
  <2>1. journal \in Frames /\ journal.id = c
    BY <1>2, <1>4 DEF RecoverOutcome, Saved, SaveFailed
  <2>2. InProgress(c)
    BY <1>4, <2>1 DEF RecoverOutcome, MustRecord, Unfinished, InProgress
  <2> QED BY <2>1, <2>2 DEF IInv, StoreInv, Journaled
<1>5. CASE Recover /\ ~RecoverOutcome
  BY <1>5 DEF Recover, RecoverNothing, RecoverRefused, RecoverPrepared, RecoverUnproven
<1>6. CASE RestorePrepared
  <2>1. CASE RecordNotApplied \/ MarkUnproven
    <3>1. \/ UNCHANGED state
          \/ \E s \in {"intent_not_applied", "result_unproven"} :
               state' = SetState(run.id, s)
      BY <2>1 DEF RecordNotApplied, MarkUnproven, Saved, SaveFailed
    <3> QED BY <1>2, <3>1
  <2>2. CASE UNCHANGED state BY <2>2
  <2> QED
    BY <1>6, <2>1, <2>2 DEF RestorePrepared, ComparePlan, Undo, Planned,
       VerifyRestored, RollBack, PersistFAILED
<1>7. CASE ExecuteMutation /\ ~RecordApplied
  <2>1. CASE Preflight \/ Begin
    BY <1>2, <2>1 DEF Preflight, Begin, Saved, SaveFailed
  <2>2. CASE UNCHANGED state BY <2>2
  <2> QED
    BY <1>7, <2>1, <2>2 DEF ExecuteMutation, Prepare, Stage, Compare, Publish,
       Verify, Commit
<1>8. CASE Open \/ StartSubmit \/ Dispatch \/ NextEntry \/ Finish
  BY <1>8 DEF Open, StartSubmit, Dispatch, NextEntry, Finish, executor
<1>9. CASE Reject \/ BlockOpen
  BY <1>2, <1>9 DEF Reject, BlockOpen, Saved, SaveFailed
<1>10. CASE Control \/ Crash
  BY <1>10 DEF Control, Pause, RunMaintenance, Resume, PauseCompleted,
     MaintenanceCompleted, ResumeUnderLease, Crash, executor
<1>11. ASSUME NEW d \in ChangeSets, Call(d) \/ Submit(d) \/ Resubmit(d) PROVE FALSE
  BY <1>2, <1>11 DEF Call, Submit, Resubmit, Admitted, Saved, SaveFailed, executor
<1>12. ASSUME NEW kind \in ControlKinds, RequestControl(kind) PROVE FALSE
  BY <1>12 DEF RequestControl, executor
<1>13. ASSUME NEW v \in ThirdParty, NEW p \in Paths, ThirdPartyWrite(p, v) PROVE FALSE
  BY <1>13 DEF ThirdPartyWrite
<1>14. CASE UNCHANGED vars BY <1>14 DEF vars, durable
<1> QED BY <1>3, <1>4, <1>5, <1>6, <1>7, <1>8, <1>9, <1>10, <1>11, <1>12, <1>13, <1>14
        DEF Next, Execute

\* Change Sets become intent_applied in the order of their enqueueSeq.
THEOREM CommitInOrderHolds == Spec => CommitInOrder
<1>1. IInv /\ [Next]_vars =>
        [\A c \in ChangeSets :
           (state[c] # "intent_applied" /\ state'[c] = "intent_applied") =>
             \A d \in Pending : enqueueSeq[c] <= enqueueSeq[d]]_vars
  <2> SUFFICES ASSUME IInv, [Next]_vars, NEW c \in ChangeSets,
                      state[c] # "intent_applied", state'[c] = "intent_applied"
               PROVE  \A d \in Pending : enqueueSeq[c] <= enqueueSeq[d]
    OBVIOUS
  <2> QED BY AppliedByHead DEF HeadOf, First
<1> QED BY <1>1, Inductive, PTL DEF Spec, CommitInOrder

-----------------------------------------------------------------------------
(* A pause, once answered.                                                   *)

Draining == {"preflight", "prepare", "begin", "stage", "publish", "confirm", "commit"}

\* A step that leaves the control calls and the write mode alone takes up an
\* execution only where writes are not paused.
LEMMA QueuesAlone ==
  ASSUME PausedIsDrained, UNCHANGED <<writeMode, control>>, proc' = proc,
         run'.pc \in Draining => run.pc \in Draining \/ writeMode = "none"
  PROVE  PausedIsDrained'
BY DEF PausedIsDrained, Draining

\* What a control call does to the control lease drops no lease of another.
LEMMA AppendKeeps ==
  ASSUME NEW c \in Seq(ControlType), NEW entry \in ControlType,
         NEW i \in DOMAIN c, c[i].leased
  PROVE  \E j \in DOMAIN Append(c, entry) : Append(c, entry)[j].leased
<1>1. i \in 1..Len(c) /\ Append(c, entry) \in Seq(ControlType)
      /\ Len(Append(c, entry)) = Len(c) + 1 /\ Append(c, entry)[i] = c[i]
  BY LenProperties, AppendProperties
<1>2. i \in DOMAIN Append(c, entry)
  BY <1>1, LenProperties
<1> QED
  BY <1>1, <1>2

LEMMA TailKeeps ==
  ASSUME NEW c \in Seq(ControlType), c # <<>>, ~Head(c).leased,
         NEW i \in DOMAIN c, c[i].leased
  PROVE  \E j \in DOMAIN Tail(c) : Tail(c)[j].leased
<1>1. i \in 1..Len(c) /\ i # 1 /\ Len(c) \in Nat
  BY LenProperties
<1>2. /\ Tail(c) \in Seq(ControlType) /\ Len(Tail(c)) = Len(c) - 1
      /\ \A j \in 1..Len(Tail(c)) : Tail(c)[j] = c[j + 1]
  BY HeadTailProperties
<1>3. i - 1 \in 1..Len(Tail(c)) /\ (i - 1) + 1 = i
  BY <1>1, <1>2
<1>4. Tail(c)[i - 1] = c[i] /\ i - 1 \in DOMAIN Tail(c)
  BY <1>2, <1>3, LenProperties
<1> QED
  BY <1>4

LEMMA LeasedIsLeased ==
  ASSUME NEW kind \in ControlKinds, TypeOK, HoldsControl(kind), Leased(kind)
  PROVE  \E j \in DOMAIN control' : control'[j].leased
<1>1. control \in Seq(ControlType) /\ control # <<>>
  BY DEF TypeOK, HoldsControl
<1>2. PICK entry : entry = control[1]
  OBVIOUS
<1>3. entry \in ControlType /\ 1 \in DOMAIN control
  BY <1>1, <1>2
<1>4. control' = [control EXCEPT ![1] = [entry EXCEPT !.leased = TRUE]]
  BY <1>2 DEF Leased
<1>5. [entry EXCEPT !.leased = TRUE].leased
  BY <1>3 DEF ControlType
<1>6. 1 \in DOMAIN control' /\ control'[1] = [entry EXCEPT !.leased = TRUE]
  BY <1>3, <1>4
<1> QED
  BY <1>5, <1>6

\* While writes are paused and the queue is not drained, a call holds its place.
LEMMA PlaceKept ==
  ASSUME PausedIsDrained, UNCHANGED <<run, writeMode>>, proc' = proc,
         \A i \in DOMAIN control : control[i].leased =>
           \E j \in DOMAIN control' : control'[j].leased
  PROVE  PausedIsDrained'
BY DEF PausedIsDrained

\* A step after which nothing is being executed.
LEMMA Undriven ==
  run'.pc \notin Draining \/ proc' # "up" => PausedIsDrained'
BY DEF PausedIsDrained, Draining

\* Where the running job goes.
LEMMA GotoPc ==
  ASSUME run \in RunType, NEW pc, Goto(pc)
  PROVE  run'.pc = pc
BY DEF Goto, RunType

LEMMA RestorePc ==
  ASSUME run \in RunType, NEW within, NEW c, Restore(within, c)
  PROVE  run'.pc = "plan"
<1> DEFINE left == Footprint[c]
<1>1. run' = [run EXCEPT !.pc = "plan", !.within = within, !.id = c, !.at = None,
                         !.left = left, !.actions = {}]
  BY DEF Restore
<1> HIDE DEF left
<1> QED
  BY <1>1 DEF RunType

\* Recovery and a restore execute nothing.
LEMMA RestorePaused ==
  ASSUME TypeOK, Recover \/ RestorePrepared
  PROVE  run'.pc \notin Draining
<1>0. run \in RunType
  BY DEF TypeOK
<1> USE <1>0 DEF Draining
<1>1. CASE RecoverNothing \/ RecoverRefused \/ RecoverOutcome
  BY <1>1, GotoPc DEF RecoverNothing, RecoverRefused, RecoverOutcome
<1>2. CASE RecoverPrepared
  BY <1>2, RestorePc DEF RecoverPrepared
<1>3. CASE RecoverUnproven
  BY <1>3 DEF RecoverUnproven, RunType
<1>4. ASSUME NEW p \in Paths, ComparePlan(p) PROVE run'.pc \notin Draining
  <2>1. CASE Goto("fail")
    BY <2>1, GotoPc
  <2>2. CASE run' = [run EXCEPT !.left = @ \ {p}] /\ run.pc = "plan"
    BY <2>2 DEF RunType
  <2>3. CASE run' = [run EXCEPT !.left = @ \ {p}, !.actions = @ \cup {p}] /\ run.pc = "plan"
    BY <2>3 DEF RunType
  <2> QED
    BY <1>4, <2>1, <2>2, <2>3 DEF ComparePlan, At
<1>5. ASSUME NEW p \in Paths, Undo(p) PROVE run'.pc \notin Draining
  <2>1. CASE Goto("fail")
    BY <2>1, GotoPc
  <2>2. CASE run' = [run EXCEPT !.actions = @ \ {p}] /\ run.pc = "undo"
    BY <2>2 DEF RunType
  <2> QED
    BY <1>5, <2>1, <2>2 DEF Undo, At
<1>6. CASE Planned \/ VerifyRestored \/ RollBack \/ PersistFAILED
  <2>1. \/ Goto("undo") \/ Goto("roll back") \/ Goto("rolled back")
        \/ Goto("fail") \/ Goto("unprove") \/ Goto("unprove and throw")
    BY <1>6, Zenon DEF Planned, VerifyRestored, RollBack, PersistFAILED
  <2> QED
    BY <2>1, GotoPc
<1>7. CASE RecordNotApplied \/ MarkUnproven
  <2>1. Returned \in {"dispatch", "next"}
    BY DEF Returned
  <2>2. Goto(Returned) \/ Goto("throw")
    <3>1. CASE RecordNotApplied
      BY <3>1, Zenon DEF RecordNotApplied
    <3>2. CASE MarkUnproven
      BY <3>2, Zenon DEF MarkUnproven
    <3> QED
      BY <1>7, <3>1, <3>2
  <2> QED
    BY <2>1, <2>2, GotoPc
<1> QED
  BY <1>1, <1>2, <1>3, <1>4, <1>5, <1>6, <1>7 DEF Recover, RestorePrepared

\* The steps of an execution, and those that take one up.
LEMMA ExecutionPaused ==
  ASSUME TypeOK, PausedIsDrained, ExecuteMutation \/ Dispatch \/ NextEntry
  PROVE  PausedIsDrained'
<1>0. run \in RunType
  BY DEF TypeOK
<1>1. UNCHANGED <<writeMode, control>> /\ proc' = proc
  <2>1. UNCHANGED elsewhere
    BY Zenon DEF ExecuteMutation, Preflight, Prepare, Begin, Stage, Compare, Publish,
       Verify, Commit, RecordApplied, Dispatch, NextEntry
  <2> QED
    BY <2>1 DEF elsewhere, queues
<1>2. CASE ExecuteMutation
  <2>1. CASE RecordApplied
    <3>1. run'.pc \in {"next", "throw"}
      BY <1>0, <2>1, GotoPc DEF RecordApplied
    <3> QED
      BY <3>1, Undriven DEF Draining
  <2>2. CASE ExecuteMutation /\ ~RecordApplied
    <3>1. run.pc \in Draining
      BY <2>2 DEF ExecuteMutation, Preflight, Prepare, Begin, Stage, Compare, Publish,
         Verify, Commit, At, Draining
    <3> QED
      BY <1>1, <3>1, QueuesAlone
  <2> QED
    BY <1>2, <2>1, <2>2
<1>3. CASE Dispatch
  <2> DEFINE go == ~blocked /\ writeMode = "none"
             id == IF run.kind = "submit" THEN Head(lease).id ELSE None
             pc == IF ~go THEN "done" ELSE IF run.kind = "submit" THEN "preflight" ELSE "next"
             todo == IF run.kind = "open" /\ go THEN Pending ELSE {}
  <2>1. run' = [run EXCEPT !.within = "execute", !.id = id, !.pc = pc, !.todo = todo]
    BY <1>3 DEF Dispatch
  <2>2. go \/ pc = "done"
    OBVIOUS
  <2>3. run'.pc = pc
    <3> HIDE DEF id, pc, todo
    <3> QED
      BY <1>0, <2>1 DEF RunType
  <2>4. pc \in Draining => writeMode = "none"
    BY <2>2 DEF Draining
  <2> QED
    BY <1>1, <2>3, <2>4, QueuesAlone
<1>4. CASE NextEntry
  <2>1. Goto("done") \/ writeMode = "none"
    BY <1>4, Zenon DEF NextEntry
  <2>2. Goto("done") => run'.pc \notin Draining
    BY <1>0, GotoPc DEF Draining
  <2> QED
    BY <1>1, <2>1, <2>2, QueuesAlone
<1> QED
  BY <1>2, <1>3, <1>4

\* The steps that begin and end a job.
LEMMA JobPaused ==
  ASSUME TypeOK, PausedIsDrained,
         Open \/ StartSubmit \/ Reject \/ BlockOpen \/ Finish \/ Crash
  PROVE  PausedIsDrained'
<1>0. run \in RunType
  BY DEF TypeOK
<1>1. run' = Idle => run'.pc \notin Draining
  BY DEF Idle, Draining
<1>2. CASE Open \/ Finish \/ Crash
  BY <1>1, <1>2, Undriven DEF Open, Finish, Crash
<1>3. CASE StartSubmit
  <2>1. PICK c : c = Head(lease).id
    OBVIOUS
  <2>2. run' = [Idle EXCEPT !.kind = "submit", !.pc = "recover", !.within = "recover", !.id = c]
    BY <1>3, <2>1 DEF StartSubmit
  <2>3. run'.pc = "recover"
    BY <2>2 DEF Idle
  <2> QED
    BY <2>3, Undriven DEF Draining
<1>4. CASE Reject
  <2>1. run' = Idle \/ \E pc \in {"block", "done"} : Goto(pc)
    BY <1>4 DEF Reject
  <2> QED
    BY <1>0, <1>1, <2>1, GotoPc, Undriven DEF Draining
<1>5. CASE BlockOpen
  <2>1. run' = Idle \/ Goto("done") \/ (run' = run /\ run.pc = "block")
    BY <1>5 DEF BlockOpen, At
  <2> QED
    BY <1>0, <1>1, <2>1, GotoPc, Undriven DEF Draining
<1> QED
  BY <1>2, <1>3, <1>4, <1>5

\* The control calls: whoever changes the write mode holds a place in the queue.
LEMMA ControlPaused ==
  ASSUME TypeOK, PausedIsDrained, Control
  PROVE  PausedIsDrained'
<1>1. CASE \E kind \in ControlKinds : HoldsControl(kind) /\ Leased(kind)
  BY <1>1, LeasedIsLeased DEF PausedIsDrained
<1>2. CASE Pause /\ control' = Tail(control) /\ UNCHANGED writeMode
  <2>1. control \in Seq(ControlType) /\ control # <<>> /\ ~Head(control).leased
    BY <1>2 DEF Pause, HoldsControl, TypeOK
  <2>2. UNCHANGED run /\ proc' = proc
    BY <1>2 DEF Pause
  <2> QED
    BY <1>2, <2>1, <2>2, TailKeeps, PlaceKept
<1>3. CASE Pause \/ RunMaintenance \/ Resume
  BY <1>1, <1>2, <1>3 DEF Pause, RunMaintenance, Resume, ControlKinds
<1>4. CASE PauseCompleted \/ MaintenanceCompleted
  <2>1. run'.pc = "idle"
    BY <1>4 DEF PauseCompleted, MaintenanceCompleted, Holds, At
  <2> QED
    BY <2>1, Undriven DEF Draining
<1>5. CASE ResumeUnderLease
  <2> DEFINE pc == IF blocked THEN "done" ELSE "next"
             todo == IF blocked THEN {} ELSE Pending
  <2>1. \/ UNCHANGED run /\ run.pc = "idle"
        \/ run' = [Idle EXCEPT !.kind = "resume", !.pc = pc, !.todo = todo]
    BY <1>5 DEF ResumeUnderLease, Holds, At
  <2>2. pc \in {"done", "next"}
    OBVIOUS
  <2>3. run'.pc \in {"idle", pc}
    <3> HIDE DEF pc, todo
    <3> QED
      BY <2>1 DEF Idle
  <2> QED
    BY <2>2, <2>3, Undriven DEF Draining
<1> QED
  BY <1>3, <1>4, <1>5 DEF Control

LEMMA PausedStep ==
  ASSUME TypeOK, PausedIsDrained, [Next]_vars
  PROVE  PausedIsDrained'
<1>1. CASE Recover \/ RestorePrepared
  BY <1>1, RestorePaused, Undriven
<1>2. CASE ExecuteMutation \/ Dispatch \/ NextEntry
  BY <1>2, ExecutionPaused
<1>3. CASE Open \/ StartSubmit \/ Reject \/ BlockOpen \/ Finish \/ Crash
  BY <1>3, JobPaused
<1>4. CASE Control
  BY <1>4, ControlPaused
<1>5. CASE \E kind \in ControlKinds : RequestControl(kind)
  <2>1. PICK kind \in ControlKinds : RequestControl(kind)
    BY <1>5
  <2>2. PICK entry : entry = [kind |-> kind, leased |-> FALSE]
    OBVIOUS
  <2>3. control \in Seq(ControlType) /\ entry \in ControlType
    BY <2>2 DEF TypeOK, ControlType
  <2>4. control' = Append(control, entry) /\ UNCHANGED <<run, writeMode>> /\ proc' = proc
    BY <2>1, <2>2 DEF RequestControl, executor
  <2> QED
    BY <2>3, <2>4, AppendKeeps, PlaceKept
<1>6. CASE \E c \in ChangeSets : Call(c) \/ Submit(c) \/ Resubmit(c)
  <2>1. UNCHANGED <<writeMode, control, run>> /\ proc' = proc
    BY <1>6 DEF Call, Submit, Resubmit
  <2> QED
    BY <2>1, QueuesAlone
<1>7. CASE \E v \in ThirdParty, p \in Paths : ThirdPartyWrite(p, v)
  <2>1. UNCHANGED <<writeMode, control, run>> /\ proc' = proc
    BY <1>7 DEF ThirdPartyWrite, queues
  <2> QED
    BY <2>1, QueuesAlone
<1>8. CASE UNCHANGED vars
  BY <1>8, QueuesAlone DEF vars, durable, queues
<1> QED
  BY <1>1, <1>2, <1>3, <1>4, <1>5, <1>6, <1>7, <1>8 DEF Next, Execute

\* When no control call holds its place any more and writes are paused, the
\* queue has drained: nothing is between preflight and COMMITTED until a resume
\* (pause(), runMaintenance() and #resumeQueue, change-set.ts).
THEOREM PausedIsDrainedHolds == Spec => []PausedIsDrained
<1>1. Init => PausedIsDrained
  BY DEF Init, Idle, PausedIsDrained
<1>2. TypeOK /\ PausedIsDrained /\ [Next]_vars => PausedIsDrained'
  BY PausedStep
<1> QED
  BY <1>1, <1>2, TypeCorrect, PTL DEF Spec

-----------------------------------------------------------------------------
(* While the journal, the registry store and third parties behave.         *)

Behaving == ~JournalFaults /\ ~SaveFaults /\ ~Races

\* The newest frame says of its Change Set what the registry says, or is to
\* say, and no unfinished one is older.
Fits(phase, s) ==
  \/ phase = "COMMITTED" /\ s = "intent_applied"
  \/ phase = "ROLLED_BACK" /\ s = "intent_not_applied"
  \/ phase = "FAILED" /\ s = "result_unproven"
Fitting ==
  journal \in Frames => InProgress(journal.id) \/ Fits(journal.phase, state[journal.id])
Eldest ==
  journal \in Frames =>
    \A d \in ChangeSets : InProgress(d) => enqueueSeq[journal.id] <= enqueueSeq[d]

\* Bytes are where their Change Set writes, in the vault and in previews; what
\* is withdrawn left none.
Gone(c) == \A p \in Paths : vault[p] # c
Placed ==
  /\ \A p \in Paths : vault[p] \in ChangeSets => p \in Footprint[vault[p]]
  /\ \A c \in ChangeSets : Known(c) =>
       \A p \in Footprint[c] : before[c][p] \in ChangeSets => p \in Footprint[before[c][p]]
Withdrawn ==
  /\ \A c \in ChangeSets : state[c] = "intent_not_applied" => Gone(c)
  /\ journal \in Frames /\ journal.phase = "ROLLED_BACK" => Gone(journal.id)

\* What a restore of the journaled Change Set brings back is there to stay.
Stays(s) == s \in {"intent_applied", "result_unproven"}
Lasting ==
  journal \in Frames /\ InProgress(journal.id) =>
    \A p \in Footprint[journal.id] :
      before[journal.id][p] \in ChangeSets => Stays(state[before[journal.id][p]])

\* The evidence of an unproven result is the newest frame, or under a later one.
Superseded(c) == journal \in Frames /\ enqueueSeq[c] < enqueueSeq[journal.id]
Evident ==
  \A c \in ChangeSets : state[c] = "result_unproven" =>
    journal = Damaged \/ Covered(c) \/ Superseded(c)

CalmStore == Fitting /\ Eldest /\ Placed /\ Withdrawn /\ Lasting /\ Evident

-----------------------------------------------------------------------------
(* What a client sees.                                                     *)

View == <<[p \in Paths |-> Content(p)], [c \in ChangeSets |-> Fate(c)]>>

\* The fate of c under the frame j and the registry's s, and what a path shows
\* that holds v.
FateOf(j, s, c) ==
  IF s \notin {"queued", "executing"} THEN s
  ELSE IF j \notin Frames \/ j.id # c \/ j.phase = "PREPARED" THEN "pending"
  ELSE IF j.phase = "COMMITTED" THEN "intent_applied"
  ELSE IF j.phase = "ROLLED_BACK" THEN "intent_not_applied"
  ELSE "result_unproven"

LEMMA FateIs ==
  \A c \in ChangeSets :
    Fate(c) = FateOf(journal, state[c], c) /\ Fate(c)' = FateOf(journal', state'[c], c)
<1> SUFFICES ASSUME NEW c \in ChangeSets
             PROVE  Fate(c) = FateOf(journal, state[c], c) /\ Fate(c)' = FateOf(journal', state'[c], c)
  OBVIOUS
<1> DEFINE In(j) ==
      CASE j.phase = "COMMITTED"   -> "intent_applied"
        [] j.phase = "ROLLED_BACK" -> "intent_not_applied"
        [] j.phase = "FAILED"      -> "result_unproven"
<1>1. ASSUME NEW j \in Frames
      PROVE  /\ j.phase = "COMMITTED" => In(j) = "intent_applied"
             /\ j.phase = "ROLLED_BACK" => In(j) = "intent_not_applied"
             /\ j.phase = "FAILED" => In(j) = "result_unproven"
             /\ j.phase \in Phases
  <2>1. j.phase \in Phases
    BY DEF Frames
  <2>2. ASSUME j.phase = "COMMITTED" PROVE In(j) = "intent_applied"
    BY <2>2
  <2>3. ASSUME j.phase = "ROLLED_BACK" PROVE In(j) = "intent_not_applied"
    BY <2>3
  <2>4. ASSUME j.phase = "FAILED" PROVE In(j) = "result_unproven"
    BY <2>4
  <2> QED
    BY <2>1, <2>2, <2>3, <2>4
<1>2. /\ ~InProgress(c) => Fate(c) = state[c]
      /\ InProgress(c) /\ journal \notin Frames => Fate(c) = "pending"
      /\ InProgress(c) /\ journal \in Frames /\ (journal.id # c \/ journal.phase = "PREPARED") =>
           Fate(c) = "pending"
      /\ InProgress(c) /\ journal \in Frames /\ ~(journal.id # c \/ journal.phase = "PREPARED") =>
           Fate(c) = In(journal)
  BY Zenon DEF Fate
<1>3. /\ ~InProgress(c)' => Fate(c)' = state'[c]
      /\ InProgress(c)' /\ journal' \notin Frames => Fate(c)' = "pending"
      /\ InProgress(c)' /\ journal' \in Frames /\ (journal'.id # c \/ journal'.phase = "PREPARED") =>
           Fate(c)' = "pending"
      /\ InProgress(c)' /\ journal' \in Frames /\ ~(journal'.id # c \/ journal'.phase = "PREPARED") =>
           Fate(c)' = In(journal')
  BY Zenon DEF Fate
<1> HIDE DEF In
<1>4. ASSUME NEW j, NEW s
      PROVE  FateOf(j, s, c) = IF s \notin {"queued", "executing"} THEN s
                               ELSE IF j \notin Frames \/ j.id # c \/ j.phase = "PREPARED"
                                    THEN "pending" ELSE In(j)
  BY <1>1 DEF FateOf, Phases
<1> QED
  BY <1>2, <1>3, <1>4 DEF InProgress

LEMMA ContentIs ==
  \A p \in Paths :
    /\ Content(p) = IF vault[p] \in ChangeSets /\ FateOf(journal, state[vault[p]], vault[p]) = "pending"
                    THEN before[vault[p]][p] ELSE vault[p]
    /\ Content(p)' = IF vault'[p] \in ChangeSets /\ FateOf(journal', state'[vault'[p]], vault'[p]) = "pending"
                     THEN before'[vault'[p]][p] ELSE vault'[p]
BY FateIs DEF Content

\* When the view stays, and what makes an action of AtomicChangeSets.
LEMMA ViewStays ==
  ASSUME \A c \in ChangeSets : Fate(c)' = Fate(c), \A p \in Paths : Content(p)' = Content(p)
  PROVE  UNCHANGED View
BY DEF View

LEMMA ContentStays ==
  ASSUME \A p \in Paths : Content(p)' = Content(p)
  PROVE  [p \in Paths |-> Content(p)]' = [p \in Paths |-> Content(p)]
OBVIOUS

LEMMA Decides ==
  ASSUME NEW c \in ChangeSets, NEW from, NEW to, Fate(c) = from, Fate(c)' = to,
         \A d \in ChangeSets \ {c} : Fate(d)' = Fate(d)
  PROVE  Atomic!Decide(c, from, to)
BY DEF Atomic!Decide

LEMMA Installs ==
  ASSUME NEW c \in ChangeSets, NEW S,
         \A p \in Paths : Content(p)' = IF p \in S THEN c ELSE Content(p)
  PROVE  Atomic!Install(c, S)
BY DEF Atomic!Install

ViewStep == Atomic!Next \/ UNCHANGED View

-----------------------------------------------------------------------------
(* The store and the view: one lemma per kind of change.                   *)

\* Steps that leave the store alone show nothing.
LEMMA CalmSame ==
  ASSUME CalmStore, UNCHANGED store
  PROVE  CalmStore' /\ ViewStep
<1>1. /\ vault' = vault /\ journal' = journal /\ state' = state /\ before' = before
      /\ enqueueSeq' = enqueueSeq
  BY DEF store, registered
<1>2. CalmStore'
  BY <1>1 DEF CalmStore, Fitting, Eldest, Placed, Withdrawn, Lasting, Evident, Gone, Known, Covered,
     Superseded, InProgress
<1>3. UNCHANGED View
  BY <1>1, FateIs, ContentIs, ViewStays
<1> QED
  BY <1>2, <1>3 DEF ViewStep

\* A new state in the registry: the execution of c begins, or its newest frame
\* told the outcome already, or c is withdrawn before it wrote anything, or no
\* journal can tell.
StateChanges(c, s) ==
  \/ s = "executing"
  \/ Covered(c) /\ Fits(journal.phase, s)
  \/ s = "intent_not_applied" /\ ~Covered(c)
  \/ s = "result_unproven" /\ journal = Damaged
LEMMA CalmState ==
  ASSUME TypeOK, StoreInv, CalmStore, NEW c \in ChangeSets, NEW s,
         InProgress(c) \/ (state[c] = "result_unproven" /\ s = "result_unproven"),
         state' = SetState(c, s), StateChanges(c, s),
         UNCHANGED <<vault, journal, before, enqueueSeq>>
  PROVE  CalmStore' /\ ViewStep
<1>1. /\ \A d \in ChangeSets \ {c} : state'[d] = state[d]
      /\ state'[c] = s /\ s \in {"executing", "intent_applied", "intent_not_applied", "result_unproven"}
      /\ vault' = vault /\ journal' = journal /\ before' = before /\ enqueueSeq' = enqueueSeq
      /\ Damaged \notin Frames
  BY JournalAssumption DEF TypeOK, SetState, StateChanges, Fits
<1>2. /\ \A d \in ChangeSets : InProgress(d)' => InProgress(d)
      /\ \A d \in ChangeSets : Known(d)' <=> Known(d)
      /\ \A d \in ChangeSets \ {c} : InProgress(d)' <=> InProgress(d)
      /\ \A d \in ChangeSets : Stays(state[d]) => Stays(state'[d])
  BY <1>1 DEF InProgress, Known, Stays
<1>3. \A d : (Covered(d)' <=> Covered(d)) /\ (Superseded(d)' <=> Superseded(d)) /\ (Gone(d)' <=> Gone(d))
  BY <1>1 DEF Covered, Superseded, Gone
<1>4. s = "intent_not_applied" => Gone(c)
  <2>1. ASSUME s = "intent_not_applied", ~Covered(c) PROVE Gone(c)
    BY <1>1, <2>1 DEF StoreInv, Effects, Gone
  <2>2. ASSUME s = "intent_not_applied", Covered(c) PROVE Gone(c)
    BY <1>1, <2>2 DEF StateChanges, Fits, Covered, CalmStore, Withdrawn
  <2> QED
    BY <2>1, <2>2
<1>5. Fitting' /\ Eldest'
  <2>1. ASSUME journal \in Frames PROVE journal.id \in ChangeSets
    BY <2>1 DEF Frames
  <2>2. Fitting'
    BY <1>1, <1>2, <2>1 DEF CalmStore, Fitting, InProgress, StateChanges, Covered
  <2>3. Eldest'
    BY <1>1, <1>2 DEF CalmStore, Eldest
  <2> QED
    BY <2>2, <2>3
<1>6. Placed'
  BY <1>1, <1>2 DEF CalmStore, Placed
<1>7. Withdrawn'
  BY <1>1, <1>3, <1>4 DEF CalmStore, Withdrawn
<1>8. Lasting'
  <2> SUFFICES ASSUME journal' \in Frames, InProgress(journal.id)', NEW p \in Footprint[journal.id],
                      before[journal.id][p] \in ChangeSets
               PROVE  Stays(state'[before[journal.id][p]])
    BY <1>1 DEF Lasting
  <2>1. journal.id \in ChangeSets /\ InProgress(journal.id)
    BY <1>1, <1>2 DEF Frames, InProgress
  <2> QED
    BY <1>1, <1>2, <2>1 DEF CalmStore, Lasting
<1>9. Evident'
  BY <1>1, <1>3 DEF CalmStore, Evident, StateChanges, Fits
<1>10. ViewStep
  <2>1. \A d \in ChangeSets \ {c} : Fate(d)' = Fate(d)
    BY <1>1, FateIs
  <2>2. CASE s = "executing" \/ (Covered(c) /\ Fits(journal.phase, s))
    <3>1. Fate(c)' = Fate(c)
      BY <1>1, <2>2, FateIs DEF FateOf, InProgress, Covered, Fits, CalmStore, Fitting
    <3>2. \A p \in Paths : Content(p)' = Content(p)
      BY <1>1, <2>1, <3>1, FateIs, ContentIs
    <3> QED
      BY <2>1, <3>1, <3>2, ViewStays DEF ViewStep
  <2>3. CASE s = "intent_not_applied" /\ ~Covered(c)
    <3>1. Fate(c) = "pending" /\ Fate(c)' = "intent_not_applied"
      BY <1>1, <2>3, FateIs DEF FateOf, InProgress, Covered
    <3>2. \A p \in Paths : Content(p)' = Content(p)
      BY <1>1, <1>4, <2>1, <2>3, FateIs, ContentIs DEF Gone
    <3>3. Atomic!GiveUp(c)
      BY <2>1, <3>1, <3>2, Decides, ContentStays DEF Atomic!GiveUp
    <3> QED
      BY <3>3 DEF Atomic!Next, ViewStep
  <2>4. CASE s = "result_unproven" /\ journal = Damaged
    <3>1. CASE state[c] = "result_unproven"
      <4>1. Fate(c)' = Fate(c)
        BY <1>1, <2>4, <3>1, FateIs
      <4>2. \A p \in Paths : Content(p)' = Content(p)
        BY <1>1, <2>1, <4>1, FateIs, ContentIs
      <4> QED
        BY <2>1, <4>1, <4>2, ViewStays DEF ViewStep
    <3>2. CASE InProgress(c)
      <4>1. Fate(c) = "pending" /\ Fate(c)' = "result_unproven"
        BY <1>1, <2>4, <3>2, FateIs DEF FateOf, InProgress
      <4> DEFINE S == {p \in Footprint[c] : vault[p] = c}
      <4>2. \A p \in Paths : p \in S <=> vault[p] = c
        BY DEF CalmStore, Placed
      <4> HIDE DEF S
      <4>3. \A p \in Paths : Content(p)' = IF p \in S THEN c ELSE Content(p)
        BY <1>1, <2>1, <4>1, <4>2, FateIs, ContentIs
      <4>4. S \in SUBSET Footprint[c]
        BY DEF S
      <4>5. Atomic!Unprove(c)
        BY <2>1, <4>1, <4>3, <4>4, Decides, Installs DEF Atomic!Unprove
      <4> QED
        BY <4>5 DEF Atomic!Next, ViewStep
    <3> QED
      BY <3>1, <3>2
  <2> QED
    BY <2>2, <2>3, <2>4 DEF StateChanges
<1> QED
  BY <1>5, <1>6, <1>7, <1>8, <1>9, <1>10 DEF CalmStore

\* A new Change Set: nothing shows it yet.
LEMMA CalmAdmit ==
  ASSUME TypeOK, StoreInv, CalmStore, NEW c \in ChangeSets, state[c] = "none",
         NEW s \in {"queued", "intent_not_applied"}, Admitted(c, s), UNCHANGED <<vault, journal>>
  PROVE  CalmStore' /\ ViewStep
<1>1. /\ \A d \in ChangeSets \ {c} : /\ state'[d] = state[d] /\ before'[d] = before[d]
                                     /\ enqueueSeq'[d] = enqueueSeq[d]
      /\ state'[c] = s /\ enqueueSeq'[c] = nextEnqueueSeq
      /\ before'[c] = [p \in Paths |-> IF p \in Footprint[c] THEN vault[p] ELSE None]
      /\ vault' = vault /\ journal' = journal
  BY DEF TypeOK, Admitted, Saved, SetState
<1>2. /\ \A p \in Paths : vault[p] # c
      /\ journal \in Frames => journal.id \in ChangeSets \ {c}
      /\ \A d \in ChangeSets : Known(d) => d # c /\ enqueueSeq[d] < nextEnqueueSeq
  <2>1. \A p \in Paths : vault[p] # c
    BY DEF StoreInv, Effects, Known
  <2>2. journal \in Frames => journal.id \in ChangeSets \ {c}
    BY DEF StoreInv, Journaled, Known, Frames
  <2>3. ASSUME NEW d \in ChangeSets, Known(d) PROVE d # c /\ enqueueSeq[d] < nextEnqueueSeq
    <3>1. enqueueSeq[d] \in 1..(nextEnqueueSeq - 1) /\ nextEnqueueSeq \in Nat
      BY <2>3 DEF StoreInv, Registered, TypeOK
    <3> QED
      BY <2>3, <3>1 DEF Known
  <2> QED
    BY <2>1, <2>2, <2>3
<1>3. /\ \A d \in ChangeSets \ {c} : (InProgress(d)' <=> InProgress(d)) /\ (Known(d)' <=> Known(d))
      /\ \A d : (Covered(d)' <=> Covered(d)) /\ (Gone(d)' <=> Gone(d))
  BY <1>1 DEF InProgress, Known, Covered, Gone
<1>4. Fitting'
  BY <1>1, <1>2, <1>3 DEF CalmStore, Fitting, InProgress
<1>5. Eldest'
  <2> SUFFICES ASSUME journal \in Frames, NEW d \in ChangeSets, InProgress(d)'
               PROVE  enqueueSeq'[journal.id] <= enqueueSeq'[d]
    BY <1>1 DEF Eldest
  <2>1. CASE d # c
    BY <1>1, <1>2, <1>3, <2>1 DEF CalmStore, Eldest
  <2>2. CASE d = c
    <3>1. enqueueSeq[journal.id] < nextEnqueueSeq /\ enqueueSeq[journal.id] \in Nat /\ nextEnqueueSeq \in Nat
      BY <1>2 DEF StoreInv, Journaled, TypeOK
    <3> QED
      BY <1>1, <1>2, <2>2, <3>1
  <2> QED
    BY <2>1, <2>2
<1>6. Placed'
  <2>1. \A p \in Paths : vault'[p] \in ChangeSets => p \in Footprint[vault'[p]]
    BY <1>1 DEF CalmStore, Placed
  <2>2. ASSUME NEW d \in ChangeSets, Known(d)', NEW p \in Footprint[d], before'[d][p] \in ChangeSets
        PROVE  p \in Footprint[before'[d][p]]
    <3>1. p \in Paths
      BY FootprintAssumption
    <3>2. CASE d = c
      BY <1>1, <2>2, <3>1, <3>2 DEF CalmStore, Placed
    <3>3. CASE d # c
      BY <1>1, <1>3, <2>2, <3>3 DEF CalmStore, Placed
    <3> QED
      BY <3>2, <3>3
  <2> QED
    BY <2>1, <2>2 DEF Placed, Known
<1>7. Withdrawn'
  BY <1>1, <1>2, <1>3 DEF CalmStore, Withdrawn, Gone
<1>8. Lasting'
  <2> SUFFICES ASSUME journal \in Frames, InProgress(journal.id)', NEW p \in Footprint[journal.id],
                      before'[journal.id][p] \in ChangeSets
               PROVE  Stays(state'[before'[journal.id][p]])
    BY <1>1 DEF Lasting
  <2>1. journal.id \in ChangeSets \ {c} /\ InProgress(journal.id) /\ before'[journal.id] = before[journal.id]
    BY <1>1, <1>2, <1>3
  <2>2. Stays(state[before[journal.id][p]])
    BY <2>1 DEF CalmStore, Lasting
  <2> QED
    BY <1>1, <2>1, <2>2 DEF Stays
<1>9. Evident'
  <2> SUFFICES ASSUME NEW d \in ChangeSets, state'[d] = "result_unproven"
               PROVE  (journal = Damaged \/ Covered(d) \/ Superseded(d))'
    BY DEF Evident, Covered, Superseded
  <2>1. d # c /\ state[d] = "result_unproven" /\ enqueueSeq'[d] = enqueueSeq[d]
    BY <1>1
  <2> QED
    BY <1>1, <1>2, <1>3, <2>1 DEF CalmStore, Evident, Superseded
<1>10. ViewStep
  <2>1. \A d \in ChangeSets \ {c} : Fate(d)' = Fate(d)
    BY <1>1, FateIs
  <2>2. \A p \in Paths : Content(p)' = Content(p)
    BY <1>1, <1>2, <2>1, FateIs, ContentIs
  <2>3. Fate(c) = "none"
    BY FateIs DEF FateOf
  <2>4. CASE s = "queued"
    <3>1. Fate(c)' = "pending"
      BY <1>1, <1>2, <2>4, FateIs DEF FateOf
    <3>2. Atomic!Accept(c)
      BY <2>1, <2>2, <2>3, <3>1, Decides, ContentStays DEF Atomic!Accept
    <3> QED
      BY <3>2 DEF Atomic!Next, ViewStep
  <2>5. CASE s = "intent_not_applied"
    <3>1. Fate(c)' = "intent_not_applied"
      BY <1>1, <2>5, FateIs DEF FateOf
    <3>2. Atomic!Refuse(c)
      BY <2>1, <2>2, <2>3, <3>1, Decides, ContentStays DEF Atomic!Refuse
    <3> QED
      BY <3>2 DEF Atomic!Next, ViewStep
  <2> QED
    BY <2>4, <2>5
<1> QED
  BY <1>4, <1>5, <1>6, <1>7, <1>8, <1>9, <1>10 DEF CalmStore

\* A frame of the Change Set at the head: the one that announces it, or one
\* that follows it.
Follows(frame, c) ==
  \/ /\ frame.phase = "PREPARED" /\ AsPreviewed(c)
     /\ journal # Damaged /\ (journal \in Frames => ~InProgress(journal.id))
  \/ /\ Covered(c) /\ journal.phase = "PREPARED"
     /\ \/ frame.phase \in {"PREPARED", "FAILED"}
        \/ frame.phase = "ROLLED_BACK" /\ Gone(c)
        \/ frame.phase = "COMMITTED" /\ \A p \in Footprint[c] : vault[p] \in {c} \cup ThirdParty
LEMMA CalmFrame ==
  ASSUME TypeOK, StoreInv, CalmStore, NEW c, HeadOf(c), NEW frame \in Frames, frame.id = c,
         Follows(frame, c), journal' = frame, UNCHANGED <<vault, state, before, enqueueSeq>>
  PROVE  CalmStore' /\ ViewStep
<1>1. /\ vault' = vault /\ state' = state /\ before' = before /\ enqueueSeq' = enqueueSeq
      /\ Damaged \notin Frames /\ journal \in Frames \cup {None, Damaged} /\ None # Damaged
      /\ enqueueSeq \in [ChangeSets -> Nat] /\ journal' \in Frames /\ journal'.id = c
      /\ \A d \in ChangeSets : state[d] \in States
  BY JournalAssumption DEF TypeOK
<1>2. /\ c \in ChangeSets /\ InProgress(c) /\ Known(c)
      /\ \A d \in ChangeSets : InProgress(d) => enqueueSeq[c] <= enqueueSeq[d]
  BY HeadFacts
<1>3. Covered(c)' /\ journal # Damaged
  BY <1>1 DEF Covered, Follows
<1>4. Fitting' /\ Eldest' /\ Placed'
  BY <1>1, <1>2 DEF CalmStore, Fitting, Eldest, Placed, InProgress, Known
<1>5. Withdrawn'
  BY <1>1, <1>3 DEF CalmStore, Withdrawn, Gone, Follows
<1>6. Lasting'
  <2> SUFFICES ASSUME NEW p \in Footprint[c], before[c][p] \in ChangeSets
               PROVE  Stays(state[before[c][p]])
    BY <1>1 DEF Lasting
  <2>1. CASE AsPreviewed(c)
    <3>1. PICK v \in ChangeSets : v = before[c][p]
      OBVIOUS
    <3>2. v = vault[p] /\ p \in Paths
      BY <1>2, <2>1, <3>1, FootprintAssumption DEF AsPreviewed
    <3>3. Known(v) /\ enqueueSeq[v] < enqueueSeq[c]
      BY <1>2, <3>1 DEF StoreInv, Previews
    <3>4. enqueueSeq[v] \in Nat /\ enqueueSeq[c] \in Nat
      BY <1>1, <1>2, <3>1
    <3>5. ~InProgress(v)
      BY <1>2, <3>3, <3>4
    <3>6. state[v] # "intent_not_applied"
      BY <3>2 DEF CalmStore, Withdrawn, Gone
    <3> QED
      BY <1>1, <3>1, <3>3, <3>5, <3>6 DEF Stays, Known, InProgress, States
  <2>2. CASE Covered(c)
    BY <1>2, <2>2 DEF CalmStore, Lasting, Covered
  <2> QED
    BY <2>1, <2>2 DEF Follows
<1>7. Evident'
  <2> SUFFICES ASSUME NEW d \in ChangeSets, state[d] = "result_unproven"
               PROVE  Superseded(d)'
    BY <1>1 DEF Evident, Superseded
  <2>1. PICK e \in ChangeSets : /\ journal \in Frames /\ e = journal.id /\ Known(e)
                                /\ d = e \/ enqueueSeq[d] < enqueueSeq[e]
    <3>1. Covered(d) \/ Superseded(d)
      BY <1>3 DEF CalmStore, Evident
    <3>2. journal \in Frames
      BY <3>1 DEF Covered, Superseded
    <3>3. journal.id \in ChangeSets /\ Known(journal.id)
      BY <3>2 DEF Frames, StoreInv, Journaled
    <3> QED
      BY <3>1, <3>2, <3>3 DEF Covered, Superseded
  <2>2. enqueueSeq[e] <= enqueueSeq[c]
    BY <1>2, <2>1 DEF CalmStore, Eldest
  <2>3. d # c
    BY <1>2 DEF InProgress
  <2>4. d = e => enqueueSeq[e] # enqueueSeq[c]
    BY <1>2, <2>1, <2>3 DEF StoreInv, Registered
  <2>5. enqueueSeq[d] \in Nat /\ enqueueSeq[e] \in Nat /\ enqueueSeq[c] \in Nat
    BY <1>1, <1>2
  <2>6. enqueueSeq[d] < enqueueSeq[c]
    BY <2>1, <2>2, <2>4, <2>5
  <2> QED
    BY <1>1, <2>6 DEF Superseded
<1>8. ViewStep
  <2>1. \A d \in ChangeSets \ {c} : Fate(d)' = Fate(d)
    <3> SUFFICES ASSUME NEW d \in ChangeSets \ {c}
                 PROVE  FateOf(journal', state[d], d) = FateOf(journal, state[d], d)
      BY <1>1, FateIs
    <3>1. ~(Covered(d) /\ InProgress(d))
      BY DEF Follows, Covered
    <3> QED
      BY <1>1, <3>1 DEF FateOf, Covered, InProgress
  <2>2. Fate(c) = "pending"
    BY <1>2, FateIs DEF FateOf, InProgress, Follows, Covered
  <2>3. CASE frame.phase = "PREPARED"
    <3>1. Fate(c)' = Fate(c)
      BY <1>1, <1>2, <2>2, <2>3, FateIs DEF FateOf, InProgress
    <3>2. \A p \in Paths : Content(p)' = Content(p)
      BY <1>1, <2>1, <3>1, FateIs, ContentIs
    <3> QED
      BY <2>1, <3>1, <3>2, ViewStays DEF ViewStep
  <2>4. CASE frame.phase = "ROLLED_BACK"
    <3>1. Fate(c)' = "intent_not_applied" /\ Gone(c)
      BY <1>1, <1>2, <2>4, FateIs DEF FateOf, InProgress, Follows
    <3>2. \A p \in Paths : Content(p)' = Content(p)
      BY <1>1, <2>1, <3>1, FateIs, ContentIs DEF Gone
    <3>3. Atomic!GiveUp(c)
      BY <1>2, <2>1, <2>2, <3>1, <3>2, Decides, ContentStays DEF Atomic!GiveUp
    <3> QED
      BY <1>2, <3>3 DEF Atomic!Next, ViewStep
  <2>5. CASE frame.phase \in {"COMMITTED", "FAILED"}
    <3> DEFINE S == {p \in Footprint[c] : vault[p] = c}
    <3>1. \A p \in Paths : p \in S <=> vault[p] = c
      BY <1>2 DEF CalmStore, Placed
    <3>2. S \in SUBSET Footprint[c] /\ \A p \in Footprint[c] \ S : vault[p] # c
      OBVIOUS
    <3> HIDE DEF S
    <3>3. Fate(c)' = IF frame.phase = "COMMITTED" THEN "intent_applied" ELSE "result_unproven"
      BY <1>1, <1>2, <2>5, FateIs DEF FateOf, InProgress
    <3>4. \A p \in Paths : Content(p)' = IF p \in S THEN c ELSE Content(p)
      <4>1. Fate(c)' # "pending"
        BY <3>3
      <4> QED
        BY <1>1, <1>2, <2>1, <3>1, <4>1, FateIs, ContentIs
    <3>5. Atomic!Install(c, S)
      BY <1>2, <3>4, Installs
    <3>6. CASE frame.phase = "FAILED"
      <4>1. Atomic!Decide(c, "pending", "result_unproven")
        BY <1>2, <2>1, <2>2, <3>3, <3>6, Decides
      <4>2. Atomic!Unprove(c)
        BY <3>2, <3>5, <4>1 DEF Atomic!Unprove
      <4> QED
        BY <1>2, <4>2 DEF Atomic!Next, ViewStep
    <3>7. CASE frame.phase = "COMMITTED"
      <4>1. Atomic!Decide(c, "pending", "intent_applied")
        BY <1>2, <2>1, <2>2, <3>3, <3>7, Decides
      <4>2. ASSUME NEW p \in Footprint[c] \ S
            PROVE  [q \in Paths |-> Content(q)][p] \in ThirdParty
        <5>1. p \in Paths /\ vault[p] \in ThirdParty
          BY <1>2, <3>2, <3>7, FootprintAssumption DEF Follows
        <5>2. vault[p] \notin ChangeSets
          BY <5>1, ValuesAssumption
        <5> QED
          BY <5>1, <5>2, ContentIs
      <4>3. Atomic!Apply(c)
        BY <3>2, <3>5, <4>1, <4>2 DEF Atomic!Apply
      <4> QED
        BY <1>2, <4>3 DEF Atomic!Next, ViewStep
    <3> QED
      BY <2>5, <3>6, <3>7
  <2> QED
    BY <2>3, <2>4, <2>5 DEF Frames, Phases
<1> QED
  BY <1>4, <1>5, <1>6, <1>7, <1>8 DEF CalmStore

\* A step that writes no path overwrites nobody.
LEMMA SparesAll ==
  ASSUME UNCHANGED vault
  PROVE  SparesThirdParties
BY ValuesAssumption DEF SparesThirdParties

\* One path takes v, which stands where it belongs and is not withdrawn.
LEMMA CalmWrite ==
  ASSUME TypeOK, CalmStore, NEW p \in Paths, NEW v, vault' = [vault EXCEPT ![p] = v],
         v \in ChangeSets =>
           /\ p \in Footprint[v] /\ state[v] # "intent_not_applied"
           /\ ~(journal \in Frames /\ journal.phase = "ROLLED_BACK" /\ journal.id = v),
         UNCHANGED <<journal, state, before, enqueueSeq>>
  PROVE  /\ CalmStore' /\ \A d \in ChangeSets : Fate(d)' = Fate(d)
         /\ \A q \in Paths \ {p} : Content(q)' = Content(q)
         /\ vault'[p] = v /\ \A q \in Paths \ {p} : vault'[q] = vault[q]
<1>1. /\ vault'[p] = v /\ \A q \in Paths \ {p} : vault'[q] = vault[q]
      /\ journal' = journal /\ state' = state /\ before' = before /\ enqueueSeq' = enqueueSeq
  BY DEF TypeOK
<1>2. \A d : (Covered(d)' <=> Covered(d)) /\ (Superseded(d)' <=> Superseded(d))
  BY <1>1 DEF Covered, Superseded
<1>3. Fitting' /\ Eldest' /\ Lasting' /\ Evident'
  BY <1>1, <1>2 DEF CalmStore, Fitting, Eldest, Lasting, Evident, InProgress
<1>4. Placed'
  BY <1>1 DEF CalmStore, Placed, Known
<1>5. \A d \in ChangeSets : Gone(d) /\ d # v => Gone(d)'
  BY <1>1 DEF Gone
<1>6. journal \in Frames => journal.id \in ChangeSets
  BY DEF Frames
<1>7. Withdrawn'
  BY <1>1, <1>5, <1>6 DEF CalmStore, Withdrawn
<1>8. \A d \in ChangeSets : Fate(d)' = Fate(d)
  BY <1>1, FateIs
<1>9. \A q \in Paths \ {p} : Content(q)' = Content(q)
  BY <1>1, ContentIs
<1> QED
  BY <1>1, <1>3, <1>4, <1>7, <1>8, <1>9 DEF CalmStore

\* Publishing over the bytes that the preview binds, and putting them back, show
\* nothing: until COMMITTED a client reads what a restore would leave.
LEMMA CalmPublish ==
  ASSUME TypeOK, StoreInv, CalmStore, NEW c, HeadOf(c), Covered(c), journal.phase = "PREPARED",
         NEW p \in Footprint[c], vault[p] = before[c][p], vault' = [vault EXCEPT ![p] = c],
         UNCHANGED <<journal, state, before, enqueueSeq>>
  PROVE  CalmStore' /\ ViewStep /\ SparesThirdParties
<1>1. c \in ChangeSets /\ InProgress(c) /\ Known(c) /\ p \in Paths
  BY HeadFacts, FootprintAssumption
<1>2. state[c] # "intent_not_applied" /\ journal.phase # "ROLLED_BACK"
  BY <1>1 DEF InProgress
<1>3. /\ CalmStore' /\ \A d \in ChangeSets : Fate(d)' = Fate(d)
      /\ \A q \in Paths \ {p} : Content(q)' = Content(q)
      /\ vault'[p] = c /\ \A q \in Paths \ {p} : vault'[q] = vault[q]
  BY <1>1, <1>2, CalmWrite
<1>4. Content(p)' = before[c][p]
  BY <1>1, <1>3, ContentIs DEF FateOf, InProgress, Covered
<1>5. before[c][p] \in ChangeSets => Stays(state[before[c][p]])
  BY <1>1 DEF CalmStore, Lasting, Covered
<1>6. Content(p) = vault[p]
  BY <1>1, <1>5, ContentIs DEF FateOf, Stays
<1>7. \A q \in Paths : Content(q)' = Content(q)
  BY <1>3, <1>4, <1>6
<1>8. ViewStep
  BY <1>3, <1>7, ViewStays DEF ViewStep
<1>9. SparesThirdParties
  BY <1>3, ValuesAssumption DEF SparesThirdParties
<1> QED
  BY <1>3, <1>8, <1>9

LEMMA CalmUndo ==
  ASSUME TypeOK, StoreInv, CalmStore, NEW c, HeadOf(c), Covered(c), journal.phase = "PREPARED",
         NEW p \in Footprint[c], vault[p] = c, vault' = [vault EXCEPT ![p] = before[c][p]],
         UNCHANGED <<journal, state, before, enqueueSeq>>
  PROVE  CalmStore' /\ ViewStep /\ SparesThirdParties
<1>1. c \in ChangeSets /\ InProgress(c) /\ Known(c) /\ p \in Paths
  BY HeadFacts, FootprintAssumption
<1>2. before[c][p] \in ChangeSets => Stays(state[before[c][p]]) /\ p \in Footprint[before[c][p]]
  BY <1>1 DEF CalmStore, Lasting, Placed, Covered
<1>3. /\ before[c][p] \in ChangeSets => state[before[c][p]] # "intent_not_applied"
      /\ journal.phase # "ROLLED_BACK"
  BY <1>2 DEF Stays
<1>4. /\ CalmStore' /\ \A d \in ChangeSets : Fate(d)' = Fate(d)
      /\ \A q \in Paths \ {p} : Content(q)' = Content(q)
      /\ vault'[p] = before[c][p] /\ \A q \in Paths \ {p} : vault'[q] = vault[q]
  BY <1>1, <1>2, <1>3, CalmWrite
<1>5. Content(p) = before[c][p]
  BY <1>1, ContentIs DEF FateOf, InProgress, Covered
<1>6. Content(p)' = before[c][p]
  BY <1>1, <1>2, <1>4, ContentIs DEF FateOf, Stays
<1>7. \A q \in Paths : Content(q)' = Content(q)
  BY <1>4, <1>5, <1>6
<1>8. ViewStep
  BY <1>4, <1>7, ViewStays DEF ViewStep
<1>9. SparesThirdParties
  BY <1>1, <1>4, ValuesAssumption DEF SparesThirdParties
<1> QED
  BY <1>4, <1>8, <1>9

\* Third parties write what they write.
LEMMA CalmThirdParty ==
  ASSUME TypeOK, CalmStore, NEW p \in Paths, NEW v \in ThirdParty, vault' = [vault EXCEPT ![p] = v],
         UNCHANGED <<journal, state, before, enqueueSeq>>
  PROVE  CalmStore' /\ ViewStep /\ SparesThirdParties
<1>1. v \notin ChangeSets
  BY ValuesAssumption
<1>2. /\ CalmStore' /\ \A d \in ChangeSets : Fate(d)' = Fate(d)
      /\ \A q \in Paths \ {p} : Content(q)' = Content(q)
      /\ vault'[p] = v /\ \A q \in Paths \ {p} : vault'[q] = vault[q]
  BY <1>1, CalmWrite
<1>3. Content(p)' = v
  BY <1>1, <1>2, ContentIs
<1>4. Atomic!WriteThirdParty(p)
  <2>1. [q \in Paths |-> Content(q)]' = [[q \in Paths |-> Content(q)] EXCEPT ![p] = v]
    BY <1>2, <1>3
  <2>2. [d \in ChangeSets |-> Fate(d)]' = [d \in ChangeSets |-> Fate(d)]
    BY <1>2
  <2> QED
    BY <2>1, <2>2 DEF Atomic!WriteThirdParty
<1>5. SparesThirdParties
  BY <1>1, <1>2, ValuesAssumption DEF SparesThirdParties
<1> QED
  BY <1>2, <1>4, <1>5 DEF Atomic!Next, ViewStep

\* The first frame that a crash tears decides nothing.
LEMMA CalmTear ==
  ASSUME CalmStore, journal = None, journal' = Damaged, UNCHANGED <<vault, state, before, enqueueSeq>>
  PROVE  CalmStore' /\ ViewStep
<1>1. /\ vault' = vault /\ state' = state /\ before' = before /\ enqueueSeq' = enqueueSeq
      /\ journal \notin Frames /\ journal' \notin Frames
  BY JournalAssumption
<1>2. CalmStore'
  BY <1>1 DEF CalmStore, Fitting, Eldest, Placed, Withdrawn, Lasting, Evident, Gone, Known
<1>3. \A c \in ChangeSets : Fate(c)' = Fate(c)
  BY <1>1, FateIs DEF FateOf
<1>4. \A p \in Paths : Content(p)' = Content(p)
  BY <1>1, <1>3, FateIs, ContentIs
<1> QED
  BY <1>2, <1>3, <1>4, ViewStays DEF ViewStep


-----------------------------------------------------------------------------
(* While they behave: what the running job's program counter tells.        *)

\* The phase of the newest frame, which is the job's from PREPARED on.
Framed ==
  /\ run.pc \in Mutating \cup {"plan", "undo", "roll back", "fail"} => journal.phase = "PREPARED"
  /\ run.pc = "committed" => Covered(run.id) /\ journal.phase = "COMMITTED"
  /\ run.pc = "rolled back" => journal.phase = "ROLLED_BACK"
  /\ run.pc = "unprove" => journal.phase = "FAILED"
  /\ run.pc # "unprove and throw"

\* Between two executions the newest frame's Change Set is decided.
Resting == {"dispatch", "next", "preflight", "prepare", "throw", "block", "done"}
Resolved ==
  run.pc \in Resting \/ (proc = "up" /\ run.pc \in {"idle", "recover"}) =>
    (journal \in Frames => ~InProgress(journal.id))

\* What the last comparison of a path found is there still.
Bytes ==
  /\ run.pc = "prepare" => AsPreviewed(run.id)
  /\ run.pc = "publish" => run.left \subseteq Footprint[run.id]
  /\ run.at # None =>
       /\ run.pc = "publish" /\ run.at \in Footprint[run.id]
       /\ vault[run.at] = before[run.id][run.at]
  /\ run.pc = "plan" => \A p \in run.actions : p \notin run.left /\ vault[p] = run.id
  /\ run.pc = "undo" => \A p \in run.actions : vault[p] = run.id
  /\ run.pc = "roll back" => Gone(run.id)
  /\ run.pc = "commit" => \A p \in Footprint[run.id] : vault[p] \in {run.id} \cup ThirdParty

\* Calls are served by an open bridge only.
Serving ==
  /\ run.kind = "open" <=> proc = "opening"
  /\ proc = "down" => run.kind = "idle"
  /\ proc # "up" => lease = <<>> /\ control = <<>> /\ \A c \in ChangeSets : calls[c] = "idle"

\* An unproven result blocks, or recovery is about to find its evidence, or the
\* evidence is under a later frame.
Blocks(c) ==
  \/ blocked /\ health = "blocked"
  \/ Superseded(c)
  \/ run.kind = "open" /\ run.pc \in {"recover", "throw", "block"}
  \/ run.pc = "unprove" /\ c = run.id
Blocking ==
  /\ proc # "down" => \A c \in ChangeSets : state[c] = "result_unproven" => Blocks(c)
  /\ run.pc = "block" => blocked /\ journal = Damaged /\ run.kind = "open"
  /\ run.kind = "open" /\ run.within = "recover" /\ run.pc = "throw" => journal = Damaged

\* An entry is taken up, and executed, by a job that no longer recovers.
Within == run.pc \in {"next", "preflight"} \cup Driving => run.within = "execute"

LEMMA WithinKept ==
  ASSUME TypeOK, Within, [Next]_vars
  PROVE  Within'
<1>0. run \in RunType
  BY DEF TypeOK
<1> DEFINE Executing == {"next", "preflight"} \cup Driving
<1>1. ASSUME NEW pc, Goto(pc), run.pc \in Executing \/ pc \notin Executing PROVE Within'
  <2>1. run'.pc = pc /\ run'.within = run.within
    BY <1>0, <1>1 DEF Goto, RunType
  <2> QED
    BY <1>1, <2>1 DEF Within
<1>2. ASSUME NEW within, NEW c, Restore(within, c) PROVE Within'
  <2>1. run'.pc = "plan"
    BY <1>0, <1>2, RestorePc
  <2> QED
    BY <2>1 DEF Within, Driving
<1>3. CASE Recover
  <2>1. CASE RecoverUnproven
    <3>1. run'.pc = "unprove"
      BY <1>0, <2>1 DEF RecoverUnproven, RunType
    <3> QED
      BY <3>1 DEF Within, Driving
  <2>2. CASE RecoverNothing \/ RecoverRefused \/ RecoverOutcome
    <3>1. Goto("dispatch") \/ Goto("throw")
      BY <2>2, Zenon DEF RecoverNothing, RecoverRefused, RecoverOutcome
    <3> QED
      BY <1>1, <3>1 DEF Driving
  <2>3. CASE RecoverPrepared
    BY <1>2, <2>3 DEF RecoverPrepared
  <2> QED
    BY <1>3, <2>1, <2>2, <2>3 DEF Recover
<1>4. CASE RestorePrepared
  <2>1. ASSUME NEW p \in Paths, ComparePlan(p) \/ Undo(p) PROVE Within'
    <3>1. CASE Goto("fail")
      BY <1>1, <3>1 DEF Driving
    <3>2. CASE run'.pc = run.pc
      BY <2>1, <3>2 DEF ComparePlan, Undo, At, Within, Driving
    <3> QED
      BY <1>0, <2>1, <3>1, <3>2 DEF ComparePlan, Undo, RunType
  <2>2. CASE Planned \/ VerifyRestored \/ RollBack \/ PersistFAILED
    <3>1. \/ Goto("undo") \/ Goto("roll back") \/ Goto("rolled back")
          \/ Goto("fail") \/ Goto("unprove") \/ Goto("unprove and throw")
      BY <2>2, Zenon DEF Planned, VerifyRestored, RollBack, PersistFAILED
    <3> QED
      BY <1>1, <3>1 DEF Driving
  <2>3. CASE RecordNotApplied \/ MarkUnproven
    <3>1. CASE Goto("throw")
      BY <1>1, <3>1 DEF Driving
    <3>2. CASE Goto(Returned)
      <4>1. run'.pc = Returned /\ run'.within = run.within
        BY <1>0, <3>2 DEF Goto, RunType
      <4> QED
        BY <1>0, <4>1 DEF Returned, Within, Driving, RunType
    <3> QED
      BY <2>3, <3>1, <3>2 DEF RecordNotApplied, MarkUnproven
  <2> QED
    BY <1>4, <2>1, <2>2, <2>3 DEF RestorePrepared
<1>5. CASE ExecuteMutation
  <2>1. run.pc \in Executing /\ run.within = "execute"
    BY <1>5 DEF ExecuteMutation, Preflight, Prepare, Begin, Stage, Compare, Publish,
       Verify, Commit, RecordApplied, At, Driving, Within
  <2>2. ASSUME run'.within = run.within PROVE Within'
    BY <2>1, <2>2 DEF Within
  <2>3. ASSUME NEW pc, Goto(pc) PROVE Within'
    BY <1>1, <2>1, <2>3
  <2>4. ASSUME Abort PROVE Within'
    BY <1>2, <2>4 DEF Abort
  <2>5. CASE Preflight \/ Prepare \/ Begin \/ Verify \/ Commit \/ RecordApplied
    BY <2>3, <2>4, <2>5, Zenon DEF Preflight, Prepare, Begin, Verify, Commit, RecordApplied
  <2>6. CASE Stage
    <3>1. CASE run' = [run EXCEPT !.pc = "publish", !.left = Footprint[run.id], !.within = "execute"]
      BY <1>0, <2>2, <3>1, <2>1 DEF RunType
    <3> QED
      BY <2>4, <2>6, <3>1 DEF Stage
  <2>7. ASSUME NEW p \in Paths, Compare(p) PROVE Within'
    BY <1>0, <2>2, <2>4, <2>7 DEF Compare, RunType
  <2>8. CASE Publish
    BY <1>0, <2>2, <2>4, <2>8 DEF Publish, RunType
  <2> QED
    BY <1>5, <2>5, <2>6, <2>7, <2>8 DEF ExecuteMutation
<1>6. CASE Dispatch
  BY <1>0, <1>6 DEF Dispatch, RunType, Within
<1>7. CASE NextEntry
  <2>1. run.pc = "next" /\ run'.within = run.within
    BY <1>0, <1>7 DEF NextEntry, At, Goto, RunType
  <2> QED
    BY <2>1 DEF Within
<1>8. CASE Open \/ StartSubmit \/ Finish \/ Crash
  <2>1. CASE Open
    BY <2>1 DEF Open, Idle, Within, Driving
  <2>2. CASE StartSubmit
    BY <2>2 DEF StartSubmit, Idle, Within, Driving
  <2>3. CASE run' = Idle
    BY <2>3 DEF Idle, Within, Driving
  <2> QED
    BY <1>8, <2>1, <2>2, <2>3 DEF Finish, Crash
<1>9. CASE Reject \/ BlockOpen
  <2>1. run' = Idle \/ UNCHANGED run \/ Goto("block") \/ Goto("done")
    BY <1>9 DEF Reject, BlockOpen
  <2> QED
    BY <1>1, <2>1 DEF Idle, Within, Driving
<1>10. CASE Control
  <2>1. CASE ResumeUnderLease
    BY <2>1 DEF ResumeUnderLease, Idle, Within
  <2>2. CASE UNCHANGED run
    BY <2>2 DEF Within
  <2> QED
    BY <1>10, <2>1, <2>2 DEF Control, Pause, RunMaintenance, Resume, PauseCompleted, MaintenanceCompleted
<1>11. CASE UNCHANGED run
  BY <1>11 DEF Within
<1> QED
  BY <1>3, <1>4, <1>5, <1>6, <1>7, <1>8, <1>9, <1>10, <1>11
  DEF Next, Execute, Call, Submit, Resubmit, RequestControl, ThirdPartyWrite, vars

CalmJob == Framed /\ Resolved /\ Bytes /\ Serving /\ Blocking
CalmInv == IInv /\ Within /\ CalmStore /\ CalmJob
CalmStep == CalmStore' /\ CalmJob' /\ ViewStep /\ SparesThirdParties

\* The job's fields after Goto and Restore.
LEMMA GotoFields ==
  ASSUME IInv, NEW pc \in Pcs, Goto(pc)
  PROVE  /\ run' \in RunType /\ run'.pc = pc /\ run'.kind = run.kind /\ run'.within = run.within
         /\ run'.id = run.id /\ run'.left = run.left /\ run'.at = run.at
         /\ run'.actions = run.actions
BY DEF Goto, IInv, TypeOK, RunType
LEMMA RestoreFields ==
  ASSUME IInv, NEW within \in {"recover", "execute"}, NEW c \in ChangeSets, Restore(within, c)
  PROVE  /\ run' \in RunType /\ run'.pc = "plan" /\ run'.kind = run.kind /\ run'.within = within
         /\ run'.id = c /\ run'.left = Footprint[c] /\ run'.at = None /\ run'.actions = {}
BY FootprintAssumption DEF Restore, IInv, TypeOK, RunType, Pcs

\* A step of the job leaves the calls alone.
LEMMA ServingKept ==
  ASSUME Serving, UNCHANGED elsewhere, run'.kind = run.kind
  PROVE  Serving'
BY DEF Serving, elsewhere, queues

\* A job at these steps relies neither on the recovery to come nor on the mark.
Onward == Pcs \ {"idle", "recover", "throw", "block", "unprove"}
LEMMA BlockingKept ==
  ASSUME IInv, CalmStore, Blocking, run.pc \in Onward, UNCHANGED <<gates, elsewhere>>,
         \A c \in ChangeSets : state'[c] = "result_unproven" => state[c] = "result_unproven",
         journal' = journal \/ (journal' \in Frames /\ journal'.id = run.id /\ HeadOf(run.id)),
         run'.pc # "block", run'.pc = "throw" => journal' = Damaged \/ run'.within = "execute"
  PROVE  Blocking'
<1>1. /\ proc' = proc /\ blocked' = blocked /\ health' = health /\ enqueueSeq' = enqueueSeq
      /\ enqueueSeq \in [ChangeSets -> Nat]
  BY DEF gates, elsewhere, registered, IInv, TypeOK
<1>2. ASSUME NEW c \in ChangeSets, Superseded(c) PROVE Superseded(c)'
  <2>1. CASE journal' = journal
    BY <1>1, <1>2, <2>1 DEF Superseded
  <2>2. CASE journal' \in Frames /\ journal'.id = run.id /\ HeadOf(run.id)
    <3>1. run.id \in ChangeSets /\ InProgress(run.id)
      BY <2>2, HeadFacts DEF IInv
    <3>2. journal \in Frames /\ journal.id \in ChangeSets /\ enqueueSeq[c] < enqueueSeq[journal.id]
      BY <1>2 DEF Superseded, Frames
    <3>3. enqueueSeq[journal.id] <= enqueueSeq[run.id]
      BY <3>1, <3>2 DEF CalmStore, Eldest
    <3>4. enqueueSeq[c] < enqueueSeq[run.id]
      BY <1>1, <3>1, <3>2, <3>3
    <3> QED
      BY <1>1, <2>2, <3>4 DEF Superseded
  <2> QED
    BY <2>1, <2>2
<1> QED
  BY <1>1, <1>2 DEF Blocking, Blocks, Onward

\* A step that changes nothing but the job.
LEMMA CalmQuiet ==
  ASSUME CalmInv, run.pc \in Onward, UNCHANGED <<host, journal, state, gates, elsewhere>>,
         run'.kind = run.kind, run'.pc # "block",
         run'.pc = "throw" => journal = Damaged \/ run'.within = "execute",
         Framed', Resolved', Bytes'
  PROVE  CalmStep
<1>1. UNCHANGED store /\ UNCHANGED vault /\ UNCHANGED <<gates, elsewhere>>
  BY DEF store, host, elsewhere
<1>2. CalmStore' /\ ViewStep
  BY <1>1, CalmSame DEF CalmInv
<1>3. Serving' /\ Blocking'
  BY <1>1, ServingKept, BlockingKept DEF CalmInv, CalmJob
<1> QED
  BY <1>1, <1>2, <1>3, SparesAll DEF CalmStep, CalmJob

\* A restore begins.
LEMMA CalmAbort ==
  ASSUME CalmInv, run.pc \in Mutating, UNCHANGED <<host, journal, state, gates, elsewhere>>, Abort
  PROVE  CalmStep
<1>1. run.id \in ChangeSets
  BY JobFacts DEF CalmInv
<1>2. /\ run'.pc = "plan" /\ run'.kind = run.kind /\ run'.id = run.id /\ run'.at = None
      /\ run'.actions = {} /\ journal' = journal
  BY <1>1, RestoreFields DEF Abort, CalmInv
<1>3. Framed' /\ Resolved' /\ Bytes'
  BY <1>2 DEF CalmInv, CalmJob, Framed, Resolved, Bytes, Resting, Mutating
<1> QED
  BY <1>2, <1>3, CalmQuiet DEF Onward, Pcs, Mutating

-----------------------------------------------------------------------------
(* #recover and #restorePrepared, while they behave.                       *)

\* The newest frame never reports a failure, and never refuses another.
LEMMA NoFaults ==
  ASSUME Behaving
  PROVE  /\ ~SaveFailed
         /\ \A frame : journal # Damaged => ~PersistFailed(frame)
BY DEF Behaving, SaveFailed, PersistFailed

\* The frame tells the job what the journal is.
LEMMA FrameFacts ==
  ASSUME IInv, NEW c, Covered(c)
  PROVE  journal \in Frames /\ journal.id = c /\ journal # Damaged /\ c \in ChangeSets
BY JournalAssumption DEF Covered, Frames

\* #recover finds nothing, or refuses to read, or finds an unproven result.
LEMMA CalmRecoverQuiet ==
  ASSUME CalmInv, Behaving, RecoverNothing \/ RecoverRefused \/ RecoverPrepared \/ RecoverUnproven
  PROVE  CalmStep
<1>1. /\ run.pc = "recover" /\ run \in RunType
      /\ UNCHANGED <<host, journal, state, gates, elsewhere>>
      /\ Damaged \notin Frames /\ None \notin Frames
  BY JournalAssumption DEF CalmInv, IInv, TypeOK, At, RecoverNothing, RecoverRefused,
     RecoverPrepared, RecoverUnproven
<1>2. /\ UNCHANGED <<store, vault, journal, state, before, enqueueSeq, proc, blocked, health>>
      /\ UNCHANGED elsewhere
  BY <1>1 DEF store, host, elsewhere, registered, gates
<1>3. CalmStore' /\ ViewStep /\ SparesThirdParties
  BY <1>2, CalmSame, SparesAll DEF CalmInv
<1>4. run.at = None
  BY <1>1 DEF CalmInv, CalmJob, Bytes
<1>5. ASSUME journal \in Frames
      PROVE  /\ journal.id \in ChangeSets /\ journal.phase \in Phases /\ journal # None /\ journal # Damaged
             /\ InProgress(journal.id) \/ Fits(journal.phase, state[journal.id])
  BY <1>1, <1>5 DEF Frames, CalmInv, CalmStore, Fitting
<1>6. ASSUME NEW c \in ChangeSets, state[c] = "result_unproven"
      PROVE  \/ journal = Damaged
             \/ Superseded(c)
             \/ journal \in Frames /\ c = journal.id /\ journal.phase = "FAILED"
  <2>1. journal = Damaged \/ Covered(c) \/ Superseded(c)
    BY <1>6 DEF CalmInv, CalmStore, Evident
  <2> QED
    BY <1>5, <1>6, <2>1 DEF Covered, Fits, InProgress
<1>7. \A c : Superseded(c)' <=> Superseded(c)
  BY <1>2 DEF Superseded
<1>8. CASE RecoverNothing
  <2>1. run'.pc = "dispatch" /\ run'.kind = run.kind /\ run'.at = None
    BY <1>4, <1>8, GotoFields DEF RecoverNothing, CalmInv, Pcs
  <2>2. journal \in Frames => ~InProgress(journal.id) /\ journal.phase # "FAILED"
    BY <1>1, <1>8 DEF RecoverNothing, AlreadySettled, Outcome, InProgress
  <2>3. journal # Damaged
    BY <1>1, <1>8, JournalAssumption DEF RecoverNothing
  <2>4. Framed' /\ Bytes' /\ Serving'
    BY <1>2, <2>1, ServingKept DEF CalmInv, CalmJob, Framed, Bytes, Mutating
  <2>5. Resolved'
    BY <1>2, <2>2 DEF Resolved, InProgress
  <2>6. Blocking'
    BY <1>2, <1>6, <1>7, <2>1, <2>2, <2>3 DEF Blocking, Blocks
  <2> QED
    BY <1>3, <2>4, <2>5, <2>6 DEF CalmStep, CalmJob
<1>9. CASE RecoverRefused
  <2>1. run'.pc = "throw" /\ run'.kind = run.kind /\ run'.at = None /\ journal = Damaged
    BY <1>4, <1>9, GotoFields DEF RecoverRefused, Behaving, CalmInv, Pcs
  <2>2. Framed' /\ Bytes' /\ Serving'
    BY <1>2, <2>1, ServingKept DEF CalmInv, CalmJob, Framed, Bytes, Mutating
  <2>3. Resolved'
    BY <1>1, <1>2, <2>1 DEF Resolved
  <2>4. Blocking'
    BY <1>1, <1>2, <1>7, <2>1 DEF CalmInv, CalmJob, Blocking, Blocks
  <2> QED
    BY <1>3, <2>2, <2>3, <2>4 DEF CalmStep, CalmJob
<1>10. CASE RecoverPrepared
  <2>1. /\ journal \in Frames /\ journal.phase = "PREPARED" /\ Restore("recover", journal.id)
        /\ journal.id \in ChangeSets
    BY <1>5, <1>10 DEF RecoverPrepared, MustRestore
  <2>2. /\ run'.pc = "plan" /\ run'.kind = run.kind /\ run'.at = None /\ run'.actions = {}
    BY <2>1, RestoreFields DEF CalmInv
  <2>3. Framed' /\ Bytes' /\ Serving' /\ Resolved'
    BY <1>2, <2>1, <2>2, ServingKept DEF CalmInv, CalmJob, Framed, Bytes, Mutating, Resolved, Resting
  <2>4. Blocking'
    BY <1>2, <1>5, <1>6, <1>7, <2>1, <2>2 DEF Blocking, Blocks
  <2> QED
    BY <1>3, <2>3, <2>4 DEF CalmStep, CalmJob
<1>11. CASE RecoverUnproven
  <2>1. /\ journal \in Frames /\ MustUnprove(journal, state[journal.id])
        /\ run' = [run EXCEPT !.pc = "unprove", !.id = journal.id]
    BY <1>11 DEF RecoverUnproven
  <2>2. run'.pc = "unprove" /\ run'.kind = run.kind /\ run'.at = None /\ run'.id = journal.id
    BY <1>1, <1>4, <2>1 DEF RunType
  <2>3. journal.phase = "FAILED"
    BY <1>5, <2>1 DEF MustUnprove, AlreadySettled, MustRestore, MustRecord, Outcome, Unfinished,
       InProgress, Fits, Phases
  <2>4. Framed' /\ Bytes' /\ Serving' /\ Resolved'
    BY <1>2, <2>1, <2>2, <2>3, ServingKept
    DEF CalmInv, CalmJob, Framed, Bytes, Mutating, Resolved, Resting
  <2>5. Blocking'
    BY <1>2, <1>5, <1>6, <1>7, <2>1, <2>2 DEF Blocking, Blocks
  <2> QED
    BY <1>3, <2>4, <2>5 DEF CalmStep, CalmJob
<1> QED
  BY <1>8, <1>9, <1>10, <1>11

\* A change of the registry alone, as CalmState takes it.
LEMMA CalmRecord ==
  ASSUME CalmInv, NEW c \in ChangeSets, NEW s,
         InProgress(c) \/ (state[c] = "result_unproven" /\ s = "result_unproven"),
         Saved(SetState(c, s)), StateChanges(c, s), UNCHANGED <<host, journal, elsewhere>>
  PROVE  /\ CalmStore' /\ ViewStep /\ SparesThirdParties
         /\ UNCHANGED <<vault, journal, before, enqueueSeq, proc>> /\ UNCHANGED elsewhere
         /\ state'[c] = s /\ \A d \in ChangeSets \ {c} : state'[d] = state[d]
         /\ \A d : Superseded(d)' <=> Superseded(d)
<1>1. UNCHANGED <<vault, journal, before, enqueueSeq, proc>> /\ state' = SetState(c, s)
  BY DEF Saved, host, elsewhere, registered
<1>2. CalmStore' /\ ViewStep
  BY <1>1, CalmState DEF CalmInv, IInv
<1> QED
  BY <1>1, <1>2, SparesAll DEF SetState, CalmInv, IInv, TypeOK, Superseded

\* ... after which the job is between two executions, with an outcome recorded
\* that is not unproven.
LEMMA CalmOutcome ==
  ASSUME CalmInv, NEW c \in ChangeSets,
         NEW s \in {"intent_applied", "intent_not_applied"}, InProgress(c),
         Saved(SetState(c, s)), StateChanges(c, s), UNCHANGED <<host, journal, elsewhere, gates>>,
         journal \in Frames => journal.id = c \/ ~InProgress(journal.id),
         \A d \in ChangeSets : state[d] = "result_unproven" =>
           (blocked /\ health = "blocked") \/ Superseded(d),
         run.at = None, NEW pc \in {"dispatch", "next"}, Goto(pc)
  PROVE  CalmStep
<1>1. /\ CalmStore' /\ ViewStep /\ SparesThirdParties
      /\ UNCHANGED <<vault, journal, before, enqueueSeq, proc>> /\ UNCHANGED elsewhere
      /\ state'[c] = s /\ \A d \in ChangeSets \ {c} : state'[d] = state[d]
      /\ \A d : Superseded(d)' <=> Superseded(d)
  BY CalmRecord
<1>2. run'.pc = pc /\ run'.kind = run.kind /\ run'.at = None /\ UNCHANGED <<blocked, health>>
  BY GotoFields DEF CalmInv, Pcs, gates
<1>3. Framed' /\ Bytes' /\ Serving'
  BY <1>1, <1>2, ServingKept DEF CalmInv, CalmJob, Framed, Bytes, Mutating
<1>4. Resolved'
  <2>1. journal \in Frames => journal.id \in ChangeSets
    BY DEF Frames
  <2> QED
    BY <1>1, <2>1 DEF Resolved, InProgress
<1>5. Blocking'
  BY <1>1, <1>2 DEF Blocking, Blocks
<1> QED
  BY <1>1, <1>3, <1>4, <1>5 DEF CalmStep, CalmJob

\* #recover records what a decisive frame tells.
LEMMA CalmRecoverOutcome ==
  ASSUME CalmInv, Behaving, RecoverOutcome
  PROVE  CalmStep
<1>1. PICK c \in ChangeSets : journal \in Frames /\ c = journal.id
  BY DEF RecoverOutcome, Frames
<1>2. PICK s : s = Outcome(journal.phase)
  OBVIOUS
<1>3. /\ run.pc = "recover" /\ InProgress(c) /\ journal.phase \in {"COMMITTED", "ROLLED_BACK"}
      /\ Saved(SetState(c, s)) /\ Goto("dispatch") /\ UNCHANGED <<host, journal, elsewhere, gates>>
  BY <1>1, <1>2, NoFaults DEF RecoverOutcome, At, MustRecord, Unfinished, InProgress
<1>4. s \in {"intent_applied", "intent_not_applied"} /\ StateChanges(c, s)
  BY <1>1, <1>2, <1>3 DEF Outcome, StateChanges, Covered, Fits
<1>5. ASSUME NEW d \in ChangeSets, state[d] = "result_unproven" PROVE Superseded(d)
  <2>1. journal = Damaged \/ Covered(d) \/ Superseded(d)
    BY <1>5 DEF CalmInv, CalmStore, Evident
  <2> QED
    BY <1>1, <1>3, <1>5, <2>1, JournalAssumption DEF Covered, InProgress
<1>6. run.at = None
  BY <1>3 DEF CalmInv, CalmJob, Bytes
<1> QED
  BY <1>1, <1>3, <1>4, <1>5, <1>6, CalmOutcome

\* The restore compares all, then writes.
LEMMA CalmPlan ==
  ASSUME CalmInv, NEW p \in Paths, ComparePlan(p)
  PROVE  CalmStep
<1>1. /\ run.pc = "plan" /\ run \in RunType /\ run.at = None /\ p \in run.left
      /\ UNCHANGED <<host, journal, state, gates, elsewhere>> /\ vault' = vault /\ journal' = journal
  BY DEF ComparePlan, At, CalmInv, IInv, TypeOK, CalmJob, Bytes, host
<1>2. journal.phase = "PREPARED" /\ \A q \in run.actions : q \notin run.left /\ vault[q] = run.id
  BY <1>1 DEF CalmInv, CalmJob, Framed, Bytes
<1>3. /\ run'.kind = run.kind /\ run'.at = None /\ run'.id = run.id /\ run'.pc \in {"plan", "fail"}
      /\ run'.pc = "plan" => \A q \in run'.actions : q \notin run'.left /\ vault[q] = run.id
  <2>1. CASE Goto("fail")
    BY <1>1, <2>1, GotoFields DEF CalmInv, Pcs
  <2>2. CASE run' = [run EXCEPT !.left = @ \ {p}]
    BY <1>1, <1>2, <2>2 DEF RunType
  <2>3. CASE vault[p] = run.id /\ run' = [run EXCEPT !.left = @ \ {p}, !.actions = @ \cup {p}]
    <3>1. /\ run'.kind = run.kind /\ run'.at = None /\ run'.id = run.id /\ run'.pc = "plan"
          /\ run'.left = run.left \ {p} /\ run'.actions = run.actions \cup {p}
      BY <1>1, <2>3 DEF RunType
    <3> QED
      BY <1>2, <2>3, <3>1
  <2> QED
    BY <2>1, <2>2, <2>3 DEF ComparePlan
<1>4. Framed' /\ Resolved' /\ Bytes'
  BY <1>1, <1>2, <1>3 DEF CalmInv, CalmJob, Framed, Resolved, Bytes, Resting, Mutating
<1> QED
  BY <1>1, <1>3, <1>4, CalmQuiet DEF Onward, Pcs

LEMMA CalmPlanned ==
  ASSUME CalmInv, Planned
  PROVE  CalmStep
<1>1. /\ run.pc = "plan" /\ run.at = None /\ run.left = {}
      /\ UNCHANGED <<host, journal, state, gates, elsewhere>> /\ vault' = vault /\ journal' = journal
  BY DEF Planned, At, CalmInv, CalmJob, Bytes, host
<1>2. /\ run'.kind = run.kind /\ run'.at = None /\ run'.id = run.id /\ run'.pc = "undo"
      /\ run'.actions = run.actions
  BY <1>1, GotoFields DEF Planned, CalmInv, Pcs
<1>3. Framed' /\ Resolved' /\ Bytes'
  BY <1>1, <1>2 DEF CalmInv, CalmJob, Framed, Resolved, Bytes, Resting, Mutating
<1> QED
  BY <1>1, <1>2, <1>3, CalmQuiet DEF Onward, Pcs

\* ... to where its frame fails.
LEMMA CalmFail ==
  ASSUME CalmInv, run.pc = "undo", UNCHANGED <<host, journal, state, gates, elsewhere>>, Goto("fail")
  PROVE  CalmStep
<1>1. /\ run.at = None /\ vault' = vault /\ journal' = journal
  BY DEF CalmInv, CalmJob, Bytes, host
<1>2. run'.kind = run.kind /\ run'.at = None /\ run'.id = run.id /\ run'.pc = "fail"
  BY <1>1, GotoFields DEF CalmInv, Pcs
<1>3. Framed' /\ Resolved' /\ Bytes'
  BY <1>1, <1>2 DEF CalmInv, CalmJob, Framed, Resolved, Bytes, Resting, Mutating
<1> QED
  BY <1>1, <1>2, <1>3, CalmQuiet DEF Onward, Pcs

LEMMA CalmUndoStep ==
  ASSUME CalmInv, NEW p \in Paths, Undo(p)
  PROVE  CalmStep
<1>1. /\ run.pc = "undo" /\ run \in RunType /\ run.at = None /\ p \in run.actions
      /\ UNCHANGED <<journal, state, gates, elsewhere>>
  BY DEF Undo, At, CalmInv, IInv, TypeOK, CalmJob, Bytes
<1>2. PICK c : c = run.id
  OBVIOUS
<1>3. /\ c \in ChangeSets /\ Covered(c) /\ HeadOf(c) /\ p \in Footprint[c]
      /\ journal.phase = "PREPARED" /\ \A q \in run.actions : vault[q] = c
  BY <1>1, <1>2, JobFacts DEF CalmInv, CalmJob, Framed, Bytes, IInv, Running, Restoring
<1>4. CASE /\ vault' = [vault EXCEPT ![p] = before[c][p]]
           /\ run' = [run EXCEPT !.actions = @ \ {p}]
  <2>1. /\ run'.kind = run.kind /\ run'.at = None /\ run'.id = run.id /\ run'.pc = "undo"
        /\ run'.actions = run.actions \ {p}
    BY <1>1, <1>4 DEF RunType
  <2>2. UNCHANGED <<journal, state, before, enqueueSeq>> /\ UNCHANGED <<gates, elsewhere>>
    BY <1>1 DEF elsewhere, registered
  <2>3. CalmStore' /\ ViewStep /\ SparesThirdParties
    BY <1>1, <1>3, <1>4, <2>2, CalmUndo DEF CalmInv, IInv
  <2>4. \A q \in Paths \ {p} : vault'[q] = vault[q]
    BY <1>4 DEF CalmInv, IInv, TypeOK
  <2>5. run.actions \subseteq Paths
    BY <1>1 DEF RunType
  <2>6. \A q \in run'.actions : vault'[q] = c
    BY <1>3, <2>1, <2>4, <2>5
  <2>7. Framed' /\ Resolved' /\ Bytes'
    BY <1>2, <1>3, <2>1, <2>2, <2>6 DEF CalmInv, CalmJob, Framed, Resolved, Bytes, Resting, Mutating
  <2>8. Serving' /\ Blocking'
    BY <1>1, <2>1, <2>2, ServingKept, BlockingKept DEF CalmInv, CalmJob, Onward, Pcs
  <2> QED
    BY <2>3, <2>7, <2>8 DEF CalmStep, CalmJob
<1>5. CASE Goto("fail") /\ UNCHANGED host
  BY <1>1, <1>5, CalmFail
<1> QED
  BY <1>2, <1>4, <1>5 DEF Undo, Wrote

\* Restored paths hold what the preview binds, and none of its own bytes.
LEMMA PreviewedIsGone ==
  ASSUME CalmInv, NEW c \in ChangeSets, Known(c), AsPreviewed(c)
  PROVE  Gone(c)
<1> SUFFICES ASSUME NEW p \in Paths, vault[p] = c
             PROVE  FALSE
  BY DEF Gone
<1>1. p \in Footprint[c]
  BY DEF CalmInv, CalmStore, Placed
<1>2. before[c][p] = c
  BY <1>1 DEF AsPreviewed
<1>3. enqueueSeq[c] < enqueueSeq[c] /\ enqueueSeq[c] \in Nat
  BY <1>1, <1>2 DEF CalmInv, IInv, StoreInv, Previews, TypeOK
<1> QED
  BY <1>3

LEMMA CalmVerifyRestored ==
  ASSUME CalmInv, VerifyRestored
  PROVE  CalmStep
<1>1. /\ run.pc = "undo" /\ UNCHANGED <<host, journal, state, gates, elsewhere>>
  BY DEF VerifyRestored, At
<1>2. CASE AsPreviewed(run.id) /\ Goto("roll back")
  <2>1. /\ run.at = None /\ vault' = vault /\ journal' = journal
    BY <1>1 DEF CalmInv, CalmJob, Bytes, host
  <2>2. run'.kind = run.kind /\ run'.at = None /\ run'.id = run.id /\ run'.pc = "roll back"
    BY <1>2, <2>1, GotoFields DEF CalmInv, Pcs
  <2>3. Gone(run.id)
    BY <1>1, <1>2, JobFacts, PreviewedIsGone DEF CalmInv, Restoring
  <2>4. Framed' /\ Resolved' /\ Bytes'
    BY <1>1, <2>1, <2>2, <2>3 DEF CalmInv, CalmJob, Framed, Resolved, Bytes, Resting, Mutating, Gone
  <2> QED
    BY <1>1, <2>1, <2>2, <2>4, CalmQuiet DEF Onward, Pcs
<1>3. CASE Goto("fail")
  BY <1>1, <1>3, CalmFail
<1> QED
  BY <1>2, <1>3 DEF VerifyRestored

\* A frame of the job's own Change Set, as CalmFrame takes it.
LEMMA CalmPersist ==
  ASSUME CalmInv, NEW c, c = run.id, run.pc \in Onward, HeadOf(c), NEW phase \in Phases,
         NEW staged \in BOOLEAN, Persisted(Frame(c, phase, staged)),
         Follows(Frame(c, phase, staged), c), UNCHANGED <<host, state, gates, elsewhere>>,
         run'.kind = run.kind, run'.pc \notin {"block", "throw"}
  PROVE  /\ CalmStore' /\ ViewStep /\ SparesThirdParties /\ Serving' /\ Blocking'
         /\ Covered(c)' /\ journal'.phase = phase
         /\ vault' = vault /\ state' = state /\ before' = before /\ journal' \in Frames
<1>1. c \in ChangeSets /\ InProgress(c)
  BY HeadFacts DEF CalmInv, IInv
<1>2. PICK frame \in Frames : frame = Frame(c, phase, staged)
  BY <1>1 DEF Frame, Frames
<1>3. frame.id = c /\ frame.phase = phase /\ journal' = frame
  BY <1>2 DEF Frame, Persisted
<1>4. UNCHANGED <<vault, state, before, enqueueSeq>> /\ UNCHANGED <<gates, elsewhere>>
  BY DEF host, elsewhere, registered
<1>5. CalmStore' /\ ViewStep
  BY <1>2, <1>3, <1>4, CalmFrame DEF CalmInv, IInv
<1>6. Serving' /\ Blocking'
  BY <1>3, <1>4, ServingKept, BlockingKept DEF CalmInv, CalmJob
<1> QED
  BY <1>3, <1>4, <1>5, <1>6, SparesAll DEF Covered

LEMMA CalmRestoreFrame ==
  ASSUME CalmInv, Behaving, RollBack \/ PersistFAILED
  PROVE  CalmStep
<1>1. PICK c : c = run.id
  OBVIOUS
<1>2. /\ run.pc \in {"roll back", "fail"} /\ run.at = None /\ UNCHANGED <<host, state, gates, elsewhere>>
      /\ journal.phase = "PREPARED"
  BY DEF RollBack, PersistFAILED, At, CalmInv, CalmJob, Bytes, Framed
<1>3. c \in ChangeSets /\ HeadOf(c) /\ Covered(c) /\ journal # Damaged
  BY <1>1, <1>2, JobFacts, FrameFacts DEF CalmInv, Restoring
<1>4. CASE run.pc = "roll back" /\ Persisted(Frame(c, "ROLLED_BACK", TRUE)) /\ Goto("rolled back")
  <2>1. run'.kind = run.kind /\ run'.at = None /\ run'.pc = "rolled back" /\ run'.id = c
    BY <1>1, <1>2, <1>4, GotoFields DEF CalmInv, Pcs
  <2>2. Follows(Frame(c, "ROLLED_BACK", TRUE), c)
    BY <1>1, <1>2, <1>3, <1>4 DEF Follows, Frame, CalmInv, CalmJob, Bytes
  <2>3. /\ CalmStore' /\ ViewStep /\ SparesThirdParties /\ Serving' /\ Blocking'
        /\ journal'.phase = "ROLLED_BACK"
    BY <1>1, <1>2, <1>3, <1>4, <2>1, <2>2, CalmPersist DEF Phases, Onward, Pcs
  <2>4. Framed' /\ Resolved' /\ Bytes'
    BY <2>1, <2>3 DEF Framed, Resolved, Bytes, Resting, Mutating
  <2> QED
    BY <2>3, <2>4 DEF CalmStep, CalmJob
<1>5. CASE run.pc = "fail" /\ Persisted(Frame(c, "FAILED", TRUE)) /\ Goto("unprove")
  <2>1. run'.kind = run.kind /\ run'.at = None /\ run'.pc = "unprove" /\ run'.id = c
    BY <1>1, <1>2, <1>5, GotoFields DEF CalmInv, Pcs
  <2>2. Follows(Frame(c, "FAILED", TRUE), c)
    BY <1>2, <1>3 DEF Follows, Frame
  <2>3. /\ CalmStore' /\ ViewStep /\ SparesThirdParties /\ Serving' /\ Blocking'
        /\ journal'.phase = "FAILED"
    BY <1>1, <1>2, <1>3, <1>5, <2>1, <2>2, CalmPersist DEF Phases, Onward, Pcs
  <2>4. Framed' /\ Resolved' /\ Bytes'
    BY <2>1, <2>3 DEF Framed, Resolved, Bytes, Resting, Mutating
  <2> QED
    BY <2>3, <2>4 DEF CalmStep, CalmJob
<1> QED
  BY <1>1, <1>3, <1>4, <1>5, NoFaults DEF RollBack, PersistFAILED, At

LEMMA CalmRecordNotApplied ==
  ASSUME CalmInv, Behaving, RecordNotApplied
  PROVE  CalmStep
<1>1. PICK c : c = run.id
  OBVIOUS
<1>2. /\ run.pc = "rolled back" /\ run.at = None /\ journal.phase = "ROLLED_BACK"
      /\ UNCHANGED <<host, journal, elsewhere, gates>>
      /\ Saved(SetState(c, "intent_not_applied")) /\ Goto(Returned)
  BY <1>1, NoFaults DEF RecordNotApplied, At, CalmInv, CalmJob, Bytes, Framed
<1>3. c \in ChangeSets /\ InProgress(c) /\ Covered(c)
  BY <1>1, <1>2, JobFacts DEF CalmInv, Restoring
<1>4. StateChanges(c, "intent_not_applied") /\ journal.id = c
  BY <1>2, <1>3 DEF StateChanges, Fits, Covered
<1>5. PICK pc \in {"dispatch", "next"} : pc = Returned
  BY DEF Returned
<1>6. \A d \in ChangeSets : state[d] = "result_unproven" => (blocked /\ health = "blocked") \/ Superseded(d)
  BY <1>2 DEF CalmInv, CalmJob, Blocking, Blocks, Serving, IInv, Running
<1> QED
  BY <1>2, <1>3, <1>4, <1>5, <1>6, CalmOutcome

LEMMA CalmMarkUnproven ==
  ASSUME CalmInv, Behaving, MarkUnproven
  PROVE  CalmStep
<1>1. PICK c : c = run.id
  OBVIOUS
<1>2. /\ run.pc = "unprove" /\ run.at = None /\ journal.phase = "FAILED"
      /\ UNCHANGED <<host, journal, elsewhere>> /\ blocked' = TRUE /\ health' = "blocked"
      /\ Saved(SetState(c, "result_unproven")) /\ Goto(Returned)
  BY <1>1, NoFaults DEF MarkUnproven, At, CalmInv, CalmJob, Bytes, Framed
<1>3. c \in ChangeSets /\ Covered(c)
  BY <1>1, <1>2, JobFacts DEF CalmInv
<1>4. InProgress(c) \/ state[c] = "result_unproven"
  BY <1>2, <1>3 DEF CalmInv, CalmStore, Fitting, Fits, Covered
<1>5. StateChanges(c, "result_unproven")
  BY <1>2, <1>3 DEF StateChanges, Fits
<1>6. /\ CalmStore' /\ ViewStep /\ SparesThirdParties /\ UNCHANGED elsewhere
      /\ UNCHANGED <<vault, journal, before, enqueueSeq, proc>>
      /\ state'[c] = "result_unproven"
  BY <1>2, <1>3, <1>4, <1>5, CalmRecord
<1>7. run'.pc \in {"dispatch", "next"} /\ run'.kind = run.kind /\ run'.at = None
  BY <1>2, GotoFields DEF CalmInv, Pcs, Returned
<1>8. Framed' /\ Bytes' /\ Serving'
  BY <1>6, <1>7, ServingKept DEF CalmInv, CalmJob, Framed, Bytes, Mutating
<1>9. Resolved'
  BY <1>3, <1>6 DEF Resolved, InProgress, Covered
<1>10. Blocking'
  BY <1>2, <1>7 DEF Blocking, Blocks
<1> QED
  BY <1>6, <1>8, <1>9, <1>10 DEF CalmStep, CalmJob

-----------------------------------------------------------------------------
(* #executeMutation, while they behave.                                    *)

\* Preflight under the lease: what it refuses left no byte.
LEMMA CalmPreflight ==
  ASSUME CalmInv, Behaving, Preflight
  PROVE  CalmStep
<1>1. PICK c : c = run.id
  OBVIOUS
<1>2. /\ run.pc = "preflight" /\ run.at = None /\ UNCHANGED <<host, journal, gates, elsewhere>>
      /\ vault' = vault /\ before' = before /\ journal' = journal
      /\ journal \in Frames => ~InProgress(journal.id)
  BY DEF Preflight, At, CalmInv, CalmJob, Bytes, Resolved, Resting, host, elsewhere
<1>3. CASE UNCHANGED state /\ \/ Goto("next")
                              \/ Goto("prepare") /\ AsPreviewed(c)
  <2>1. /\ run'.kind = run.kind /\ run'.at = None /\ run'.id = run.id /\ run'.pc \in {"next", "prepare"}
        /\ run'.pc = "prepare" => AsPreviewed(c)
    BY <1>2, <1>3, GotoFields DEF CalmInv, Pcs
  <2>2. Framed' /\ Resolved' /\ Bytes'
    BY <1>1, <1>2, <1>3, <2>1
    DEF Framed, Resolved, Bytes, Resting, Mutating, InProgress, AsPreviewed
  <2> QED
    BY <1>2, <1>3, <2>1, <2>2, CalmQuiet DEF Onward, Pcs
<1>4. CASE HeadOf(c) /\ Saved(SetState(c, "intent_not_applied")) /\ Goto("next")
  <2>1. c \in ChangeSets /\ InProgress(c) /\ ~Covered(c)
    BY <1>2, <1>4, HeadFacts DEF CalmInv, IInv, Covered
  <2>2. StateChanges(c, "intent_not_applied")
    BY <2>1 DEF StateChanges
  <2>3. \A d \in ChangeSets : state[d] = "result_unproven" => (blocked /\ health = "blocked") \/ Superseded(d)
    BY <1>2 DEF CalmInv, CalmJob, Blocking, Blocks, Serving, IInv, Running
  <2> QED
    BY <1>2, <1>4, <2>1, <2>2, <2>3, CalmOutcome
<1>5. CASE UNCHANGED state /\ Goto("throw") /\ HostFailed
  <2>1. /\ run'.kind = run.kind /\ run'.at = None /\ run'.pc = "throw" /\ run'.within = run.within
        /\ run.within = "execute"
    BY <1>2, <1>5, GotoFields DEF CalmInv, Within, Pcs
  <2>2. Framed' /\ Resolved' /\ Bytes'
    BY <1>2, <1>5, <2>1 DEF Framed, Resolved, Bytes, Resting, Mutating, InProgress
  <2> QED
    BY <1>2, <1>5, <2>1, <2>2, CalmQuiet DEF Onward, Pcs
<1> QED
  BY <1>1, <1>3, <1>4, <1>5, NoFaults DEF Preflight

\* PREPARED is the frame of the head, over the bytes its preview binds.
LEMMA CalmPrepare ==
  ASSUME CalmInv, Behaving, Prepare
  PROVE  CalmStep
<1>1. PICK c : c = run.id
  OBVIOUS
<1>2. /\ run.pc = "prepare" /\ run.at = None /\ UNCHANGED <<host, state, gates, elsewhere>>
      /\ AsPreviewed(c) /\ (journal \in Frames => ~InProgress(journal.id))
  BY <1>1 DEF Prepare, At, CalmInv, CalmJob, Bytes, Resolved, Resting
<1>3. c \in ChangeSets /\ HeadOf(c)
  BY <1>1, <1>2, JobFacts DEF CalmInv, Driving
<1>4. CASE Persisted(Frame(c, "PREPARED", FALSE)) /\ Goto("begin")
  <2>1. run'.kind = run.kind /\ run'.at = None /\ run'.pc = "begin" /\ run'.id = c
    BY <1>1, <1>2, <1>4, GotoFields DEF CalmInv, Pcs
  <2>2. Follows(Frame(c, "PREPARED", FALSE), c)
    BY <1>2, <1>4 DEF Follows, Frame, Persisted
  <2>3. /\ CalmStore' /\ ViewStep /\ SparesThirdParties /\ Serving' /\ Blocking'
        /\ journal'.phase = "PREPARED"
    BY <1>1, <1>2, <1>3, <1>4, <2>1, <2>2, CalmPersist DEF Phases, Onward, Pcs
  <2>4. Framed' /\ Resolved' /\ Bytes'
    BY <2>1, <2>3 DEF Framed, Resolved, Bytes, Resting, Mutating
  <2> QED
    BY <2>3, <2>4 DEF CalmStep, CalmJob
<1>5. CASE PersistFailed(Frame(c, "PREPARED", FALSE)) /\ Goto("throw")
  <2>1. journal = Damaged
    BY <1>5, NoFaults
  <2>2. journal' = journal
    BY <1>5, <2>1, JournalAssumption DEF PersistFailed, Behaving
  <2>3. run'.kind = run.kind /\ run'.at = None /\ run'.pc = "throw"
    BY <1>2, <1>5, GotoFields DEF CalmInv, Pcs
  <2>4. Framed' /\ Resolved' /\ Bytes'
    BY <2>1, <2>2, <2>3, JournalAssumption DEF Framed, Resolved, Bytes, Resting, Mutating
  <2> QED
    BY <1>2, <2>1, <2>2, <2>3, <2>4, CalmQuiet DEF Onward, Pcs
<1>6. CASE UNCHANGED journal /\ Goto("throw")
  <2>1. /\ run'.kind = run.kind /\ run'.at = None /\ run'.pc = "throw" /\ run'.within = run.within
        /\ run.within = "execute"
    BY <1>2, <1>6, GotoFields DEF CalmInv, Within, Driving, Pcs
  <2>2. Framed' /\ Resolved' /\ Bytes'
    BY <1>2, <1>6, <2>1 DEF Framed, Resolved, Bytes, Resting, Mutating, InProgress
  <2> QED
    BY <1>2, <1>6, <2>1, <2>2, CalmQuiet DEF Onward, Pcs
<1> QED
  BY <1>1, <1>2, <1>4, <1>5, <1>6 DEF Prepare

LEMMA CalmBegin ==
  ASSUME CalmInv, Behaving, Begin
  PROVE  CalmStep
<1>1. PICK c : c = run.id
  OBVIOUS
<1>2. /\ run.pc = "begin" /\ run.at = None /\ UNCHANGED <<host, journal, gates, elsewhere>>
      /\ Saved(SetState(c, "executing")) /\ Goto("stage") /\ journal.phase = "PREPARED"
  BY <1>1, NoFaults DEF Begin, At, CalmInv, CalmJob, Bytes, Framed, Mutating
<1>3. c \in ChangeSets /\ InProgress(c)
  BY <1>1, <1>2, JobFacts DEF CalmInv, Driving
<1>4. /\ CalmStore' /\ ViewStep /\ SparesThirdParties /\ UNCHANGED elsewhere
      /\ journal' = journal /\ state'[c] = "executing"
      /\ \A d \in ChangeSets \ {c} : state'[d] = state[d]
  BY <1>2, <1>3, CalmRecord DEF StateChanges
<1>5. run'.pc = "stage" /\ run'.kind = run.kind /\ run'.at = None
  BY <1>2, GotoFields DEF CalmInv, Pcs
<1>6. Framed' /\ Resolved' /\ Bytes'
  BY <1>2, <1>4, <1>5 DEF Framed, Resolved, Bytes, Mutating, Resting
<1>7. Serving' /\ Blocking'
  BY <1>2, <1>4, <1>5, ServingKept, BlockingKept DEF CalmInv, CalmJob, Onward, Pcs
<1> QED
  BY <1>4, <1>6, <1>7 DEF CalmStep, CalmJob

LEMMA CalmStage ==
  ASSUME CalmInv, Behaving, Stage
  PROVE  CalmStep
<1>1. PICK c : c = run.id
  OBVIOUS
<1>2. /\ run.pc = "stage" /\ run.at = None /\ UNCHANGED <<host, state, gates, elsewhere>>
      /\ journal.phase = "PREPARED" /\ run \in RunType
  BY DEF Stage, At, CalmInv, CalmJob, Bytes, Framed, Mutating, IInv, TypeOK
<1>3. c \in ChangeSets /\ HeadOf(c) /\ Covered(c) /\ journal # Damaged
  BY <1>1, <1>2, JobFacts, FrameFacts DEF CalmInv, Driving, Mutating
<1>4. CASE /\ Persisted(Frame(c, "PREPARED", TRUE))
           /\ run' = [run EXCEPT !.pc = "publish", !.left = Footprint[c], !.within = "execute"]
  <2>1. /\ run'.kind = run.kind /\ run'.at = None /\ run'.pc = "publish" /\ run'.id = c
        /\ run'.left = Footprint[c]
    BY <1>1, <1>2, <1>4 DEF RunType
  <2>2. Follows(Frame(c, "PREPARED", TRUE), c)
    BY <1>2, <1>3 DEF Follows, Frame
  <2>3. /\ CalmStore' /\ ViewStep /\ SparesThirdParties /\ Serving' /\ Blocking'
        /\ journal'.phase = "PREPARED"
    BY <1>1, <1>2, <1>3, <1>4, <2>1, <2>2, CalmPersist DEF Phases, Onward, Pcs
  <2>4. Framed' /\ Resolved' /\ Bytes'
    BY <2>1, <2>3 DEF Framed, Resolved, Bytes, Resting, Mutating
  <2> QED
    BY <2>3, <2>4 DEF CalmStep, CalmJob
<1>5. CASE Abort /\ UNCHANGED journal
  BY <1>2, <1>5, CalmAbort DEF Mutating
<1> QED
  BY <1>1, <1>3, <1>4, <1>5, NoFaults DEF Stage

\* Publishing compares a path, then renames over it; the compared bytes stay.
LEMMA CalmCompare ==
  ASSUME CalmInv, NEW p \in Paths, Compare(p)
  PROVE  CalmStep
<1>1. /\ run.pc = "publish" /\ run.at = None /\ p \in run.left /\ run \in RunType
      /\ UNCHANGED <<host, journal, state, gates, elsewhere>>
      /\ vault' = vault /\ before' = before /\ journal' = journal
      /\ journal.phase = "PREPARED" /\ run.left \subseteq Footprint[run.id]
  BY DEF Compare, At, CalmInv, CalmJob, Bytes, Framed, Mutating, IInv, TypeOK, host, elsewhere
<1>2. CASE vault[p] = before[run.id][p] /\ run' = [run EXCEPT !.at = p]
  <2>1. /\ run'.kind = run.kind /\ run'.at = p /\ run'.pc = "publish" /\ run'.id = run.id
        /\ run'.left = run.left
    BY <1>1, <1>2 DEF RunType
  <2>2. Framed' /\ Resolved' /\ Bytes'
    BY <1>1, <1>2, <2>1 DEF Framed, Resolved, Bytes, Resting, Mutating
  <2> QED
    BY <1>1, <2>1, <2>2, CalmQuiet DEF Onward, Pcs
<1>3. CASE Abort
  BY <1>1, <1>3, CalmAbort DEF Mutating
<1> QED
  BY <1>2, <1>3 DEF Compare

LEMMA CalmPublishStep ==
  ASSUME CalmInv, Publish
  PROVE  CalmStep
<1>1. PICK c : c = run.id
  OBVIOUS
<1>2. PICK p : p = run.at
  OBVIOUS
<1>3. /\ run.pc = "publish" /\ p # None /\ run \in RunType
      /\ UNCHANGED <<journal, state, gates, elsewhere>>
      /\ UNCHANGED <<journal, state, before, enqueueSeq>>
      /\ journal.phase = "PREPARED" /\ run.left \subseteq Footprint[c]
      /\ p \in Footprint[c] /\ vault[p] = before[c][p]
  BY <1>1, <1>2 DEF Publish, At, CalmInv, CalmJob, Bytes, Framed, Mutating, IInv, TypeOK, elsewhere,
     registered
<1>4. c \in ChangeSets /\ HeadOf(c) /\ Covered(c)
  BY <1>1, <1>3, JobFacts DEF CalmInv, Driving, Mutating
<1>5. CASE UNCHANGED host /\ Abort
  BY <1>3, <1>5, CalmAbort DEF Mutating
<1>6. CASE /\ vault' = [vault EXCEPT ![p] = c]
           /\ \/ run' = [run EXCEPT !.at = None, !.left = @ \ {p}]
              \/ Abort
  <2>1. CalmStore' /\ ViewStep /\ SparesThirdParties
    BY <1>3, <1>4, <1>6, CalmPublish DEF CalmInv, IInv
  <2>2. CASE run' = [run EXCEPT !.at = None, !.left = @ \ {p}]
    <3>1. /\ run'.kind = run.kind /\ run'.at = None /\ run'.pc = "publish" /\ run'.id = c
          /\ run'.left = run.left \ {p}
      BY <1>1, <1>3, <2>2 DEF RunType
    <3>2. Framed' /\ Resolved' /\ Bytes'
      BY <1>3, <3>1 DEF Framed, Resolved, Bytes, Resting, Mutating
    <3>3. Serving' /\ Blocking'
      BY <1>3, <3>1, ServingKept, BlockingKept DEF CalmInv, CalmJob, Onward, Pcs
    <3> QED
      BY <2>1, <3>2, <3>3 DEF CalmStep, CalmJob
  <2>3. CASE Abort
    <3>1. /\ run'.kind = run.kind /\ run'.at = None /\ run'.pc = "plan" /\ run'.id = c
          /\ run'.actions = {}
      BY <1>1, <1>4, <2>3, RestoreFields DEF Abort, CalmInv
    <3>2. Framed' /\ Resolved' /\ Bytes'
      BY <1>3, <3>1 DEF Framed, Resolved, Bytes, Resting, Mutating
    <3>3. Serving' /\ Blocking'
      BY <1>3, <3>1, ServingKept, BlockingKept DEF CalmInv, CalmJob, Onward, Pcs
    <3> QED
      BY <2>1, <3>2, <3>3 DEF CalmStep, CalmJob
  <2> QED
    BY <1>6, <2>2, <2>3
<1> QED
  BY <1>1, <1>2, <1>5, <1>6 DEF Publish, Wrote

LEMMA CalmVerify ==
  ASSUME CalmInv, Verify
  PROVE  CalmStep
<1>1. /\ run.pc \in {"publish", "confirm"} /\ run.at = None /\ journal.phase = "PREPARED"
      /\ UNCHANGED <<host, journal, state, gates, elsewhere>> /\ vault' = vault /\ journal' = journal
  BY DEF Verify, At, CalmInv, CalmJob, Bytes, Framed, Mutating, host
<1>2. CASE AsPublished(run.id) /\ \E pc \in {"confirm", "commit"} : Goto(pc)
  <2>1. /\ run'.kind = run.kind /\ run'.at = None /\ run'.id = run.id
        /\ run'.pc \in {"confirm", "commit"}
    BY <1>1, <1>2, GotoFields DEF CalmInv, Pcs
  <2>2. Framed' /\ Resolved' /\ Bytes'
    BY <1>1, <1>2, <2>1 DEF Framed, Resolved, Bytes, Resting, Mutating, AsPublished
  <2> QED
    BY <1>1, <2>1, <2>2, CalmQuiet DEF Onward, Pcs
<1>3. CASE Abort
  BY <1>1, <1>3, CalmAbort DEF Mutating
<1> QED
  BY <1>2, <1>3 DEF Verify

LEMMA CalmCommit ==
  ASSUME CalmInv, Behaving, Commit
  PROVE  CalmStep
<1>1. PICK c : c = run.id
  OBVIOUS
<1>2. /\ run.pc = "commit" /\ run.at = None /\ UNCHANGED <<host, state, gates, elsewhere>>
      /\ journal.phase = "PREPARED"
      /\ \A p \in Footprint[c] : vault[p] \in {c} \cup ThirdParty
  BY <1>1 DEF Commit, At, CalmInv, CalmJob, Bytes, Framed, Mutating
<1>3. c \in ChangeSets /\ HeadOf(c) /\ Covered(c) /\ journal # Damaged
  BY <1>1, <1>2, JobFacts, FrameFacts DEF CalmInv, Driving, Mutating
<1>4. Persisted(Frame(c, "COMMITTED", TRUE)) /\ Goto("committed")
  BY <1>1, <1>3, NoFaults DEF Commit
<1>5. run'.kind = run.kind /\ run'.at = None /\ run'.pc = "committed" /\ run'.id = c
  BY <1>1, <1>2, <1>4, GotoFields DEF CalmInv, Pcs
<1>6. Follows(Frame(c, "COMMITTED", TRUE), c)
  BY <1>2, <1>3 DEF Follows, Frame
<1>7. /\ CalmStore' /\ ViewStep /\ SparesThirdParties /\ Serving' /\ Blocking'
      /\ journal'.phase = "COMMITTED" /\ Covered(c)'
  BY <1>1, <1>2, <1>3, <1>4, <1>5, <1>6, CalmPersist DEF Phases, Onward, Pcs
<1>8. Framed' /\ Resolved' /\ Bytes'
  BY <1>5, <1>7 DEF Framed, Resolved, Bytes, Resting, Mutating, Covered
<1> QED
  BY <1>7, <1>8 DEF CalmStep, CalmJob

LEMMA CalmRecordApplied ==
  ASSUME CalmInv, Behaving, RecordApplied
  PROVE  CalmStep
<1>1. PICK c : c = run.id
  OBVIOUS
<1>2. /\ run.pc = "committed" /\ run.at = None /\ journal.phase = "COMMITTED" /\ Covered(c)
      /\ UNCHANGED <<host, journal, elsewhere, gates>>
      /\ Saved(SetState(c, "intent_applied")) /\ Goto("next")
  BY <1>1, NoFaults DEF RecordApplied, At, CalmInv, CalmJob, Bytes, Framed
<1>3. c \in ChangeSets /\ InProgress(c)
  BY <1>1, <1>2, JobFacts DEF CalmInv, Driving
<1>4. StateChanges(c, "intent_applied") /\ journal.id = c
  BY <1>2 DEF StateChanges, Fits, Covered
<1>5. \A d \in ChangeSets : state[d] = "result_unproven" => (blocked /\ health = "blocked") \/ Superseded(d)
  BY <1>2 DEF CalmInv, CalmJob, Blocking, Blocks, Serving, IInv, Running
<1> QED
  BY <1>2, <1>3, <1>4, <1>5, CalmOutcome

-----------------------------------------------------------------------------
(* The jobs of the write lease, the calls and the environment.             *)

\* Steps that leave the store alone, but not the calls, queues and gates.
LEMMA CalmOther ==
  ASSUME CalmInv, UNCHANGED store, CalmJob'
  PROVE  CalmStep
<1>1. UNCHANGED vault
  BY DEF store
<1> QED
  BY <1>1, CalmSame, SparesAll DEF CalmInv, CalmStep

\* A job of another kind, or none, at a step that handles no Change Set.
LEMMA FreshBytes ==
  ASSUME run'.pc \in Free \cup {"idle"}, run'.at = None
  PROVE  Framed' /\ Bytes'
BY DEF Framed, Bytes, Mutating, Free

LEMMA CalmOpen ==
  ASSUME CalmInv, Open
  PROVE  CalmStep
<1>1. UNCHANGED <<store, journal, state, lease, control, calls>> /\ proc' = "opening" /\ proc = "down"
  BY DEF Open, executor, host, store, queues
<1>2. run'.kind = "open" /\ run'.pc = "recover" /\ run'.at = None
  BY DEF Open, Idle
<1>3. Framed' /\ Bytes' /\ Resolved'
  BY <1>1, <1>2, FreshBytes DEF Free, Resolved, Resting
<1>4. Serving'
  BY <1>1, <1>2 DEF CalmInv, CalmJob, Serving
<1>5. Blocking'
  BY <1>2 DEF Blocking, Blocks
<1> QED
  BY <1>1, <1>3, <1>4, <1>5, CalmOther DEF CalmJob

\* Where nothing runs, only the gates block, or a later frame hides the evidence.
LEMMA IdleFacts ==
  ASSUME CalmInv, run.pc = "idle"
  PROVE  /\ run.kind = "idle" /\ proc # "opening" /\ run.at = None
         /\ lease # <<>> \/ control # <<>> => proc = "up"
         /\ proc = "up" => \A c \in ChangeSets : state[c] = "result_unproven" =>
                             (blocked /\ health = "blocked") \/ Superseded(c)
         /\ proc = "up" => (journal \in Frames => ~InProgress(journal.id))
BY DEF CalmInv, IInv, Running, CalmJob, Serving, Blocking, Blocks, Bytes, Resolved

\* A job starts that is not open()'s.
LEMMA CalmStart ==
  ASSUME CalmInv, run.pc = "idle", proc = "up", UNCHANGED <<store, proc, blocked, health>>,
         run'.kind \in {"submit", "resume"}, run'.pc \in {"recover", "next", "done"}, run'.at = None
  PROVE  CalmStep
<1>1. UNCHANGED <<journal, state, enqueueSeq>>
  BY DEF store, registered
<1>2. Framed' /\ Bytes'
  BY FreshBytes DEF Free
<1>3. Resolved'
  BY <1>1, IdleFacts DEF Resolved, InProgress
<1>4. Serving'
  BY DEF Serving
<1>5. Blocking'
  BY <1>1, IdleFacts DEF Blocking, Blocks, Superseded
<1> QED
  BY <1>2, <1>3, <1>4, <1>5, CalmOther DEF CalmJob

LEMMA CalmStartSubmit ==
  ASSUME CalmInv, StartSubmit
  PROVE  CalmStep
<1>1. run.pc = "idle" /\ lease # <<>> /\ UNCHANGED <<store, proc, blocked, health>>
  BY DEF StartSubmit, At, executor, elsewhere, host, gates, store
<1>2. run'.kind = "submit" /\ run'.pc = "recover" /\ run'.at = None
  BY DEF StartSubmit, Idle
<1> QED
  BY <1>1, <1>2, IdleFacts, CalmStart

LEMMA CalmDispatch ==
  ASSUME CalmInv, Dispatch \/ NextEntry
  PROVE  CalmStep
<1>1. /\ run.pc \in {"dispatch", "next"} /\ run.at = None /\ run \in RunType
      /\ UNCHANGED <<host, journal, state, gates, elsewhere>> /\ journal' = journal /\ state' = state
      /\ journal \in Frames => ~InProgress(journal.id)
  BY DEF Dispatch, NextEntry, At, executor, CalmInv, CalmJob, Bytes, Resolved, Resting, IInv, TypeOK
<1>2. /\ run'.pc \in {"done", "preflight", "next"} /\ run'.kind = run.kind /\ run'.at = None
  <2>1. CASE Goto("done")
    BY <1>1, <2>1, GotoFields DEF CalmInv, Pcs
  <2>2. ASSUME NEW c, run' = [run EXCEPT !.pc = "preflight", !.id = c, !.todo = @ \ {c}]
        PROVE  run'.pc = "preflight" /\ run'.kind = run.kind /\ run'.at = None
    BY <1>1, <2>2 DEF RunType
  <2>3. ASSUME NEW pc, NEW c, NEW todo,
               run' = [run EXCEPT !.within = "execute", !.id = c, !.pc = pc, !.todo = todo]
        PROVE  run'.pc = pc /\ run'.kind = run.kind /\ run'.at = None
    BY <1>1, <2>3 DEF RunType
  <2>4. CASE Dispatch
    <3> DEFINE go == ~blocked /\ writeMode = "none"
               id == IF run.kind = "submit" THEN Head(lease).id ELSE None
               pc == IF ~go THEN "done"
                     ELSE IF run.kind = "submit" THEN "preflight" ELSE "next"
               todo == IF run.kind = "open" /\ go THEN Pending ELSE {}
    <3>1. run' = [run EXCEPT !.within = "execute", !.id = id, !.pc = pc, !.todo = todo]
      BY <2>4 DEF Dispatch
    <3>2. pc \in {"done", "preflight", "next"}
      OBVIOUS
    <3> HIDE DEF id, pc, todo
    <3> QED
      BY <2>3, <3>1, <3>2
  <2> QED
    BY <2>1, <2>2, <2>4 DEF NextEntry
<1>3. Framed' /\ Bytes' /\ Resolved'
  BY <1>1, <1>2, FreshBytes DEF Free, Resolved, InProgress
<1> QED
  BY <1>1, <1>2, <1>3, CalmQuiet DEF Onward, Pcs

\* The job rejects: open() goes on to block what is unfinished where no journal
\* could be read.
LEMMA CalmReject ==
  ASSUME CalmInv, Reject
  PROVE  CalmStep
<1>1. /\ run.pc = "throw" /\ UNCHANGED <<store, journal, state, enqueueSeq, lease, control, calls>>
      /\ run.at = None /\ (journal \in Frames => ~InProgress(journal.id))
  BY DEF Reject, At, host, store, queues, registered, CalmInv, CalmJob, Bytes, Resolved, Resting
<1>2. CASE run.kind = "open" /\ run.within = "execute" /\ proc' = "down" /\ run' = Idle
  <2>1. run'.kind = "idle" /\ run'.pc = "idle" /\ run'.at = None
    BY <1>2 DEF Idle
  <2>2. Framed' /\ Bytes' /\ Resolved'
    BY <1>2, <2>1, FreshBytes DEF Resolved, Resting
  <2>3. Serving'
    BY <1>1, <1>2, <2>1 DEF CalmInv, CalmJob, Serving
  <2>4. Blocking'
    BY <1>2, <2>1 DEF Blocking
  <2> QED
    BY <1>1, <2>2, <2>3, <2>4, CalmOther DEF CalmJob
<1>3. CASE /\ ~(run.kind = "open" /\ run.within = "execute") /\ UNCHANGED <<proc, health>>
           /\ Goto(IF run.kind = "open" THEN "block" ELSE "done")
           /\ blocked' = (blocked \/ run.kind = "open")
  <2>1. /\ run'.kind = run.kind /\ run'.at = None
        /\ run'.pc = (IF run.kind = "open" THEN "block" ELSE "done")
    BY <1>1, <1>3, GotoFields DEF CalmInv, Pcs
  <2>2. Framed' /\ Bytes' /\ Resolved'
    BY <1>1, <2>1, FreshBytes DEF Resolved, Free, InProgress
  <2>3. Serving'
    BY <1>1, <1>3, <2>1 DEF CalmInv, CalmJob, Serving
  <2>4. run.kind = "open" => journal = Damaged
    BY <1>1, <1>3 DEF CalmInv, CalmJob, Blocking, IInv, TypeOK, RunType
  <2>5. Blocking'
    BY <1>1, <1>3, <2>1, <2>4 DEF CalmInv, CalmJob, Blocking, Blocks, Superseded
  <2> QED
    BY <1>1, <2>2, <2>3, <2>5, CalmOther DEF CalmJob
<1> QED
  BY <1>1, <1>2, <1>3 DEF Reject

LEMMA CalmBlockOpen ==
  ASSUME CalmInv, Behaving, BlockOpen
  PROVE  CalmStep
<1>1. /\ run.pc = "block" /\ blocked = TRUE /\ journal = Damaged /\ run.at = None /\ run.kind # "idle"
      /\ UNCHANGED <<host, journal, before, registered, writeMode, queues, unwritten, crashes>>
      /\ UNCHANGED <<lease, control, calls>>
  BY DEF BlockOpen, At, queues, CalmInv, IInv, Running, TypeOK, CalmJob, Bytes, Blocking
<1>2. ASSUME NEW c \in ChangeSets, HeadOf(c), Saved(SetState(c, "result_unproven")),
             UNCHANGED <<run, proc, blocked>>
      PROVE  CalmStep
  <2>1. InProgress(c)
    BY <1>2, HeadFacts DEF CalmInv, IInv
  <2>2. StateChanges(c, "result_unproven") /\ UNCHANGED elsewhere
    BY <1>1, <1>2 DEF StateChanges, elsewhere
  <2>3. /\ CalmStore' /\ ViewStep /\ SparesThirdParties
        /\ UNCHANGED <<vault, journal, before, enqueueSeq, proc>>
    BY <1>1, <1>2, <2>1, <2>2, CalmRecord
  <2>4. Framed' /\ Bytes' /\ Resolved'
    BY <1>1, <1>2, FreshBytes, JournalAssumption DEF Free, Resolved
  <2>5. Serving'
    BY <1>2, <2>2, ServingKept DEF CalmInv, CalmJob
  <2>6. Blocking'
    <3>1. run.kind = "open"
      BY <1>1 DEF CalmInv, CalmJob, Blocking
    <3> QED
      BY <1>1, <1>2, <3>1 DEF Blocking, Blocks
  <2> QED
    BY <2>3, <2>4, <2>5, <2>6 DEF CalmStep, CalmJob
<1>3. CASE Goto("done") /\ health' = "blocked" /\ UNCHANGED <<state, proc, blocked>>
  <2>1. run'.kind = run.kind /\ run'.at = None /\ run'.pc = "done"
    BY <1>1, <1>3, GotoFields DEF CalmInv, Pcs
  <2>2. UNCHANGED store
    BY <1>1, <1>3 DEF store, host
  <2>3. Framed' /\ Bytes' /\ Resolved'
    BY <1>1, <2>1, FreshBytes, JournalAssumption DEF Free, Resolved
  <2>4. Serving' /\ Blocking'
    BY <1>1, <1>3, <2>1 DEF CalmInv, CalmJob, Serving, Blocking, Blocks
  <2> QED
    BY <2>2, <2>3, <2>4, CalmOther DEF CalmJob
<1> QED
  BY <1>2, <1>3, NoFaults DEF BlockOpen

LEMMA CalmFinish ==
  ASSUME CalmInv, Finish
  PROVE  CalmStep
<1>1. /\ run.pc = "done" /\ UNCHANGED <<store, journal, state, enqueueSeq, blocked, health>>
      /\ proc' = "up" /\ run' = Idle /\ run.kind # "idle" /\ proc # "down"
      /\ journal \in Frames => ~InProgress(journal.id)
  BY DEF Finish, At, executor, host, store, gates, registered, CalmInv, IInv, Running, CalmJob,
     Resolved, Resting, Serving
<1>2. run'.kind = "idle" /\ run'.pc = "idle" /\ run'.at = None
  BY <1>1 DEF Idle
<1>3. Framed' /\ Bytes' /\ Resolved'
  BY <1>1, <1>2, FreshBytes DEF Resolved, InProgress
<1>4. Serving' /\ Blocking'
  BY <1>1, <1>2 DEF CalmInv, CalmJob, Serving, Blocking, Blocks, Superseded
<1> QED
  BY <1>1, <1>3, <1>4, CalmOther DEF CalmJob

\* A call or a control call while the job stands still.
LEMMA CalmBeside ==
  ASSUME CalmInv, UNCHANGED <<store, run, proc, blocked, health>>, proc = "up"
  PROVE  CalmStep
<1>1. /\ UNCHANGED <<vault, journal, state, before, enqueueSeq>>
      /\ \A c : Gone(c)' <=> Gone(c)
      /\ \A c : Covered(c)' <=> Covered(c)
  BY DEF store, registered, Gone, Covered
<1>2. Framed' /\ Resolved' /\ Bytes'
  BY <1>1 DEF CalmInv, CalmJob, Framed, Resolved, Bytes, InProgress, AsPreviewed, Covered, Gone
<1>3. Serving' /\ Blocking'
  BY <1>1 DEF CalmInv, CalmJob, Serving, Blocking, Blocks, Superseded
<1> QED
  BY <1>2, <1>3, CalmOther DEF CalmJob

LEMMA CalmCalls ==
  ASSUME CalmInv, NEW c \in ChangeSets, Call(c) \/ Resubmit(c)
  PROVE  CalmStep
<1>1. UNCHANGED <<store, run, proc, blocked, health>>
  BY DEF Call, Resubmit, executor, host, store, gates
<1>2. proc = "up"
  BY DEF Call, Resubmit, Called, CalmInv, CalmJob, Serving
<1> QED
  BY <1>1, <1>2, CalmBeside

LEMMA CalmControls ==
  ASSUME CalmInv, Control \/ \E kind \in ControlKinds : RequestControl(kind)
  PROVE  CalmStep
<1>1. UNCHANGED <<store, proc, blocked, health>>
  BY DEF Control, Pause, RunMaintenance, Resume, PauseCompleted, MaintenanceCompleted,
     ResumeUnderLease, RequestControl, executor, host, store, gates
<1>2. proc = "up"
  BY DEF Control, Pause, RunMaintenance, Resume, PauseCompleted, MaintenanceCompleted,
     ResumeUnderLease, RequestControl, HoldsControl, Holds, CalmInv, CalmJob, Serving
<1>3. CASE UNCHANGED run
  BY <1>1, <1>2, <1>3, CalmBeside
<1>4. CASE /\ run.pc = "idle"
           /\ run' = [Idle EXCEPT !.kind = "resume",
                        !.pc = IF blocked THEN "done" ELSE "next",
                        !.todo = IF blocked THEN {} ELSE Pending]
  <2>1. run'.kind = "resume" /\ run'.pc \in {"done", "next"} /\ run'.at = None
    BY <1>4 DEF Idle
  <2> QED
    BY <1>1, <1>2, <1>4, <2>1, CalmStart
<1> QED
  BY <1>3, <1>4 DEF Control, Pause, RunMaintenance, Resume, PauseCompleted, MaintenanceCompleted,
     ResumeUnderLease, RequestControl, Holds, At

LEMMA CalmSubmit ==
  ASSUME CalmInv, Behaving, NEW c \in ChangeSets, Submit(c)
  PROVE  CalmStep
<1>1. /\ UNCHANGED <<vault, whole, journal, run, proc, blocked, health, control>>
      /\ state[c] = "none" /\ proc = "up"
  BY DEF Submit, Called, host, gates, CalmInv, CalmJob, Serving
<1>2. CASE UNCHANGED <<state, before, registered>>
  <2>1. UNCHANGED store
    BY <1>1, <1>2 DEF store
  <2> QED
    BY <1>1, <2>1, CalmBeside
<1>3. ASSUME NEW s \in {"queued", "intent_not_applied"}, Admitted(c, s)
      PROVE  CalmStep
  <2>1. CalmStore' /\ ViewStep
    BY <1>1, <1>3, CalmAdmit DEF CalmInv, IInv
  <2>2. /\ \A d \in ChangeSets \ {c} : /\ state'[d] = state[d] /\ before'[d] = before[d]
                                       /\ enqueueSeq'[d] = enqueueSeq[d]
        /\ state'[c] = s
    BY <1>3 DEF Admitted, Saved, SetState, CalmInv, IInv, TypeOK
  <2>3. journal \in Frames => journal.id \in ChangeSets \ {c}
    BY <1>1 DEF CalmInv, IInv, StoreInv, Journaled, Known, Frames
  <2>4. PICK d : d = run.id
    OBVIOUS
  <2>5. run.pc \in Driving \cup Restoring => d \in ChangeSets \ {c}
    BY <1>1, <2>4, JobFacts DEF CalmInv, Known
  <2>6. Framed' /\ Resolved'
    BY <1>1, <2>2, <2>3 DEF CalmInv, CalmJob, Framed, Resolved, Covered, InProgress
  <2>7. Bytes'
    <3>1. run.pc \in Driving \cup Restoring => before'[d] = before[d]
      BY <2>2, <2>5
    <3>2. run.pc \in {"prepare", "publish"} => before'[d] = before[d]
      BY <3>1 DEF Driving
    <3> QED
      BY <1>1, <2>4, <3>2 DEF CalmInv, CalmJob, Bytes, AsPreviewed, Gone
  <2>8. Serving'
    BY <1>1 DEF CalmInv, CalmJob, Serving
  <2>9. Blocking'
    BY <1>1, <2>2, <2>3 DEF CalmInv, CalmJob, Blocking, Blocks, Superseded
  <2> QED
    BY <1>1, <2>1, <2>6, <2>7, <2>8, <2>9, SparesAll DEF CalmStep, CalmJob
<1> QED
  BY <1>2, <1>3, NoFaults DEF Submit

\* Third parties write, but not between a compare and its rename.
LEMMA CalmThirdPartyStep ==
  ASSUME CalmInv, Behaving, NEW v \in ThirdParty, NEW p \in Paths, ThirdPartyWrite(p, v)
  PROVE  CalmStep
<1>1. /\ UNCHANGED <<journal, state, before, enqueueSeq, run, proc, blocked, health, lease>>
      /\ UNCHANGED <<control, calls>> /\ vault' = [vault EXCEPT ![p] = v] /\ p \notin Compared
  BY DEF ThirdPartyWrite, Behaving, Wrote, registered, gates, queues
<1>2. CalmStore' /\ ViewStep /\ SparesThirdParties
  BY <1>1, CalmThirdParty DEF CalmInv, IInv
<1>3. vault'[p] = v /\ v \notin ChangeSets /\ \A q \in Paths \ {p} : vault'[q] = vault[q]
  BY <1>1, ValuesAssumption DEF CalmInv, IInv, TypeOK
<1>4. PICK c : c = run.id
  OBVIOUS
<1>5. /\ run.pc = "prepare" => p \notin Footprint[c]
      /\ run.pc = "publish" => p # run.at
      /\ run.pc = "plan" => p \notin Footprint[c] \ run.left
      /\ run.pc = "undo" => p \notin run.actions
  <2>1. CASE run.pc = "prepare"
    BY <1>1, <1>4, <2>1 DEF Compared, At
  <2>2. CASE run.pc = "publish"
    BY <1>1, <2>2, ValuesAssumption DEF Compared, At
  <2>3. CASE run.pc = "plan"
    BY <1>1, <1>4, <2>3 DEF Compared, At
  <2>4. CASE run.pc = "undo"
    BY <1>1, <2>4 DEF Compared, At
  <2> QED
    BY <2>1, <2>2, <2>3, <2>4
<1>6. /\ run.pc \in {"prepare", "publish", "plan", "undo", "roll back", "commit"} =>
           c \in ChangeSets /\ Footprint[c] \subseteq Paths
      /\ run.pc \in {"plan", "undo"} => run.actions \subseteq Footprint[c]
  BY <1>4, JobFacts, FootprintAssumption DEF CalmInv, Driving, Restoring, IInv, Running
<1>7. /\ \A d : Covered(d)' <=> Covered(d)
      /\ \A d \in ChangeSets : Gone(d) => Gone(d)'
  BY <1>1, <1>3 DEF Covered, Gone
<1>8. Framed' /\ Resolved'
  BY <1>1, <1>7 DEF CalmInv, CalmJob, Framed, Resolved, InProgress
<1>9. Bytes'
  <2>1. run.pc = "prepare" => AsPreviewed(c)'
    BY <1>1, <1>3, <1>4, <1>5, <1>6 DEF CalmInv, CalmJob, Bytes, AsPreviewed
  <2>2. run.at # None => /\ run.pc = "publish" /\ run.at \in Footprint[c]
                         /\ vault'[run.at] = before[c][run.at]
    BY <1>3, <1>4, <1>5, <1>6 DEF CalmInv, CalmJob, Bytes
  <2>3. run.pc = "plan" => \A q \in run.actions : q \notin run.left /\ vault'[q] = c
    BY <1>3, <1>4, <1>5, <1>6 DEF CalmInv, CalmJob, Bytes
  <2>4. run.pc = "undo" => \A q \in run.actions : vault'[q] = c
    BY <1>3, <1>4, <1>5, <1>6 DEF CalmInv, CalmJob, Bytes
  <2>5. run.pc = "roll back" => Gone(c)'
    BY <1>4, <1>6, <1>7 DEF CalmInv, CalmJob, Bytes
  <2>6. run.pc = "commit" => \A q \in Footprint[c] : vault'[q] \in {c} \cup ThirdParty
    BY <1>3, <1>4, <1>6 DEF CalmInv, CalmJob, Bytes
  <2>7. run.pc = "publish" => run.left \subseteq Footprint[c]
    BY <1>4 DEF CalmInv, CalmJob, Bytes
  <2> QED
    BY <1>1, <1>4, <2>1, <2>2, <2>3, <2>4, <2>5, <2>6, <2>7 DEF Bytes, Gone
<1>10. Serving' /\ Blocking'
  BY <1>1 DEF CalmInv, CalmJob, Serving, Blocking, Blocks, Superseded
<1> QED
  BY <1>2, <1>8, <1>9, <1>10 DEF CalmStep, CalmJob

LEMMA CalmCrash ==
  ASSUME CalmInv, Crash
  PROVE  CalmStep
<1>1. /\ UNCHANGED <<vault, whole, state, before, enqueueSeq, nextEnqueueSeq>>
      /\ proc' = "down" /\ run' = Idle /\ lease' = <<>> /\ control' = <<>>
      /\ \A c \in ChangeSets : calls'[c] = "idle"
  BY DEF Crash, host, registered
<1>2. run'.kind = "idle" /\ run'.pc = "idle" /\ run'.at = None
  BY <1>1 DEF Idle
<1>3. CalmStore' /\ ViewStep /\ SparesThirdParties
  <2>1. CASE UNCHANGED journal
    <3>1. UNCHANGED store
      BY <1>1, <2>1 DEF store, registered
    <3> QED
      BY <1>1, <3>1, CalmSame, SparesAll DEF CalmInv
  <2>2. CASE journal = None /\ journal' = Damaged
    BY <1>1, <2>2, CalmTear, SparesAll DEF CalmInv
  <2> QED
    BY <2>1, <2>2 DEF Crash
<1>4. Framed' /\ Bytes' /\ Resolved'
  BY <1>1, <1>2, FreshBytes DEF Resolved, Resting
<1>5. Serving' /\ Blocking'
  BY <1>1, <1>2 DEF Serving, Blocking
<1> QED
  BY <1>3, <1>4, <1>5 DEF CalmStep, CalmJob

-----------------------------------------------------------------------------
(* The theorems about the service whose stores behave.                     *)

LEMMA CalmInit ==
  ASSUME Init
  PROVE  CalmInv /\ Atomic!Init
<1>1. /\ journal \notin Frames /\ \A c \in ChangeSets : state[c] = "none"
      /\ \A p \in Paths : vault[p] = Original
  BY JournalAssumption DEF Init
<1>2. /\ run.pc = "idle" /\ run.kind = "idle" /\ run.at = None /\ proc = "down"
      /\ lease = <<>> /\ control = <<>> /\ \A c \in ChangeSets : calls[c] = "idle"
  BY DEF Init, Idle
<1>3. CalmStore
  BY <1>1, ValuesAssumption
  DEF CalmStore, Fitting, Eldest, Placed, Withdrawn, Lasting, Evident, Known
<1>4. Framed /\ Resolved /\ Bytes
  BY <1>1, <1>2 DEF Framed, Resolved, Bytes, Mutating, Resting
<1>5. Serving /\ Blocking
  BY <1>2 DEF Serving, Blocking
<1>6. \A c \in ChangeSets : Fate(c) = "none"
  BY <1>1, FateIs DEF FateOf
<1>7. \A p \in Paths : Content(p) = Original
  BY <1>1, ContentIs, ValuesAssumption
<1>8. Atomic!Init
  BY <1>6, <1>7 DEF Atomic!Init
<1>9. Within
  BY <1>2 DEF Within, Driving
<1> QED
  BY <1>3, <1>4, <1>5, <1>8, <1>9, InitInvariant DEF CalmInv, CalmJob

\* Every step keeps the invariant, is a step of AtomicChangeSets or shows
\* nothing, and spares what third parties wrote.
LEMMA CalmNext ==
  ASSUME Behaving, CalmInv, [Next]_vars
  PROVE  CalmInv' /\ ViewStep /\ SparesThirdParties
<1> SUFFICES CalmStep
  BY NextInvariant, WithinKept DEF CalmStep, CalmInv, IInv
<1>1. CASE Recover
  BY <1>1, CalmRecoverQuiet, CalmRecoverOutcome DEF Recover
<1>2. CASE RestorePrepared
  BY <1>2, CalmPlan, CalmPlanned, CalmUndoStep, CalmVerifyRestored, CalmRestoreFrame,
     CalmRecordNotApplied, CalmMarkUnproven DEF RestorePrepared
<1>3. CASE ExecuteMutation
  BY <1>3, CalmPreflight, CalmPrepare, CalmBegin, CalmStage, CalmCompare, CalmPublishStep,
     CalmVerify, CalmCommit, CalmRecordApplied DEF ExecuteMutation
<1>4. CASE Open \/ StartSubmit \/ Dispatch \/ NextEntry \/ Reject \/ BlockOpen \/ Finish
  BY <1>4, CalmOpen, CalmStartSubmit, CalmDispatch, CalmReject, CalmBlockOpen, CalmFinish
<1>5. CASE Control \/ \E kind \in ControlKinds : RequestControl(kind)
  BY <1>5, CalmControls
<1>6. CASE \E c \in ChangeSets : Call(c) \/ Submit(c) \/ Resubmit(c)
  BY <1>6, CalmCalls, CalmSubmit
<1>7. CASE Crash \/ \E v \in ThirdParty, p \in Paths : ThirdPartyWrite(p, v)
  BY <1>7, CalmCrash, CalmThirdPartyStep
<1>8. CASE UNCHANGED vars
  <2>1. /\ UNCHANGED <<store, journal, state, before, enqueueSeq, vault>>
        /\ UNCHANGED <<run, proc, blocked, health, calls, lease, control>>
        /\ \A c : (Gone(c)' <=> Gone(c)) /\ (Covered(c)' <=> Covered(c))
    BY <1>8 DEF vars, durable, gates, queues, budget, store, registered, Gone, Covered
  <2>2. Framed' /\ Resolved' /\ Bytes'
    BY <2>1 DEF CalmInv, CalmJob, Framed, Resolved, Bytes, InProgress, AsPreviewed, Covered, Gone
  <2>3. Serving' /\ Blocking'
    BY <2>1 DEF CalmInv, CalmJob, Serving, Blocking, Blocks, Superseded
  <2> QED
    BY <2>1, <2>2, <2>3, CalmOther DEF CalmJob
<1> QED
  BY <1>1, <1>2, <1>3, <1>4, <1>5, <1>6, <1>7, <1>8 DEF Next, Execute

\* ... of the run that goes without faults.
LEMMA CalmAnyNext ==
  ASSUME Behaving, ~faulty => CalmInv, [AnyNext]_<<vars, faulty>>
  PROVE  /\ (~faulty => CalmInv)'
         /\ faulty \/ ViewStep
         /\ ~faulty => SparesThirdParties
<1>1. faulty' = faulty
  BY DEF AnyNext
<1>2. ~faulty => [Next]_vars
  BY DEF AnyNext
<1> QED
  BY <1>1, <1>2, CalmNext

\* The invariant of the outcomes.
LEMMA OutcomesFollow ==
  ASSUME CalmInv
  PROVE  NotAppliedLeavesNothing /\ UnprovenBlocks
<1>1. NotAppliedLeavesNothing
  BY DEF CalmInv, CalmStore, Withdrawn, Gone, NotAppliedLeavesNothing
<1>2. UnprovenBlocks
  BY IdleFacts DEF UnprovenBlocks, At, Superseded
<1> QED
  BY <1>1, <1>2

\* While the journal, the registry store and third parties behave: what is
\* reported as not applied left no byte in the vault, and while a result is
\* unproven a bridge at rest blocks, also after a restart, unless a later frame
\* took the place of the evidence (#restorePrepared, #markUnproven, #recover).
THEOREM OutcomesStandHolds ==
  ASSUME Behaving
  PROVE  AnySpec => []OutcomesStand
<1>1. Init /\ faulty \in BOOLEAN => (~faulty => CalmInv)
  BY CalmInit
<1>2. (~faulty => CalmInv) /\ [AnyNext]_<<vars, faulty>> => (~faulty => CalmInv)'
  BY CalmAnyNext
<1>3. (~faulty => CalmInv) => OutcomesStand
  BY OutcomesFollow DEF OutcomesStand
<1> QED
  BY <1>1, <1>2, <1>3, PTL DEF AnySpec

\* ... no byte of a third party is overwritten but by the Change Set whose
\* preview bound it (#compare before every publish and restore).
THEOREM OthersBytesSurviveHolds ==
  ASSUME Behaving
  PROVE  AnySpec => OthersBytesSurvive
<1>1. Init /\ faulty \in BOOLEAN => (~faulty => CalmInv)
  BY CalmInit
<1>2. (~faulty => CalmInv) /\ [AnyNext]_<<vars, faulty>> => (~faulty => CalmInv)'
  BY CalmAnyNext
<1>3. (~faulty => CalmInv) /\ [AnyNext]_<<vars, faulty>> => [~faulty => SparesThirdParties]_<<vars, faulty>>
  BY CalmAnyNext
<1> QED
  BY <1>1, <1>2, <1>3, PTL DEF AnySpec, OthersBytesSurvive

\* ... and the service implements atomic Change Sets: the journal's COMMITTED
\* frame decides, before it nothing shows, and a crash or a restore at any step
\* shows nothing new (#executeMutation, #recover).
THEOREM IsAtomicHolds ==
  ASSUME Behaving
  PROVE  AnySpec => IsAtomic
<1>1. Init /\ faulty \in BOOLEAN => (~faulty => CalmInv) /\ (faulty \/ Atomic!Init)
  BY CalmInit
<1>2. (~faulty => CalmInv) /\ [AnyNext]_<<vars, faulty>> => (~faulty => CalmInv)'
  BY CalmAnyNext
<1>3. (~faulty => CalmInv) /\ [AnyNext]_<<vars, faulty>> =>
        [faulty \/ Atomic!Next]_<<[p \in Paths |-> Content(p)], [c \in ChangeSets |-> Fate(c)]>>
  BY CalmAnyNext DEF ViewStep, View
<1> QED
  BY <1>1, <1>2, <1>3, PTL DEF AnySpec, IsAtomic

-----------------------------------------------------------------------------

\* Tasks carry settings for their own path, and so does the memory of a
\* directory that serves; a load that saves met no newer state.
Shaped(d) ==
  /\ \A t \in 1..MaxTasks : LET task == tasks[d][t] IN
       /\ task.at # "idle" => loaded[d] \/ task.orphan
       /\ task.settings # None => task.at # "idle" /\ task.settings.diagnosticPath = d
       /\ task.at \notin {"idle", "load"} => task.settings # None
       /\ task.at = "mirror" => recovery[d] # None
       /\ task.at \in {"recovery", "mirror", "copyOnly"} /\ task.kind \in {"load", "migration"} =>
            ~Identity!Restricted(Identity!Authoritative(d))
  /\ ~loaded[d] => settings[d] = None /\ bridge[d] = None /\ ~pending[d]
  /\ bridge[d] # None => settings[d] # None /\ settings[d].diagnosticPath = d
  /\ pending[d] => settings[d] # None

\* What has started listens, and is not what the runtime has as its Bridge.
Listening(d) ==
  /\ bridge[d] # None => bridge[d] \in listeners /\ bridge[d].dir = d
  /\ \A t \in 1..MaxTasks : tasks[d][t].at = "started" =>
       /\ \E l \in listeners : l.dir = d /\ l.task = t /\ l.port = tasks[d][t].settings.port
       /\ bridge[d] # None => bridge[d].port # tasks[d][t].settings.port

\* The ids a directory holds: its persisted one at its own path, or moved to
\* it, and those its tasks and its memory will persist.
HoldsId(d, id) ==
  \/ /\ Identity!Authoritative(d) # None /\ Identity!Authoritative(d).vaultId = id
     /\ Identity!Authoritative(d).diagnosticPath = d \/ truth[d] = "move"
  \/ \E t \in 1..MaxTasks : tasks[d][t].settings # None /\ tasks[d][t].settings.vaultId = id
  \/ settings[d] # None /\ settings[d].diagnosticPath = d /\ settings[d].vaultId = id

\* A moved directory holds the one it came with.
Moved(d) ==
  truth[d] = "move" =>
    /\ Identity!Authoritative(d) # None
    /\ \A t \in 1..MaxTasks : tasks[d][t].settings # None =>
         tasks[d][t].settings.vaultId = Identity!Authoritative(d).vaultId
    /\ settings[d] # None => settings[d].vaultId = Identity!Authoritative(d).vaultId

\* A crash would leave the identity s.
Agrees(d, s) ==
  /\ Identity!Authoritative(d) # None /\ Identity!Authoritative(d).diagnosticPath = d
  /\ Identity!Authoritative(d).vaultId = s.vaultId /\ Identity!Authoritative(d).port = s.port

\* A directory runs one task, and has no Bridge then.
OneTask(d) ==
  /\ \A s, t \in 1..MaxTasks : tasks[d][s].at # "idle" /\ tasks[d][t].at # "idle" => s = t
  /\ \A t \in 1..MaxTasks : LET task == tasks[d][t] IN task.at # "idle" =>
       /\ loaded[d] /\ ~task.orphan /\ bridge[d] = None
       /\ pending[d] => task.at \in {"recovery", "mirror"} /\ task.kind \in {"move", "copy"}
       /\ task.at \in {"recovery", "copyOnly"} /\ task.kind \in {"load", "migration"} =>
            Identity!Authoritative(d) = None \/ Agrees(d, task.settings)
       /\ task.at \in {"mirror", "listen", "started"} => Agrees(d, task.settings)
\* What listens is its Bridge, or is about to be.
Serves(d) ==
  \A l \in listeners : l.dir = d =>
    \/ /\ l = bridge[d] /\ ~pending[d] /\ Agrees(d, settings[d])
       /\ l.vaultId = settings[d].vaultId /\ l.port = settings[d].port
    \/ \E t \in 1..MaxTasks :
         /\ tasks[d][t].at = "started" /\ l.task = t
         /\ l.vaultId = tasks[d][t].settings.vaultId /\ l.port = tasks[d][t].settings.port
Calm(d) == ~strained[d] => OneTask(d) /\ Serves(d)

Local(d) == Shaped(d) /\ Listening(d) /\ Moved(d) /\ Calm(d)

OwnPorts == \A l, m \in listeners : l.port = m.port => l = m
IdsOwned ==
  /\ \A d \in Vaults, id \in Int : HoldsId(d, id) => id < nextId
  /\ \A d, e \in Vaults, id \in Int : HoldsId(d, id) /\ HoldsId(e, id) => d = e

IdentityInv == Identity!TypeOK /\ (\A d \in Vaults : Local(d)) /\ OwnPorts /\ IdsOwned /\ Identity!NewerIsKept
-----------------------------------------------------------------------------
Slots == 1..MaxTasks

\* What is true of a directory stays so while nothing of it changes.
Same(e) ==
  /\ recovery'[e] = recovery[e] /\ mirror'[e] = mirror[e]
  /\ loaded'[e] = loaded[e] /\ settings'[e] = settings[e] /\ pending'[e] = pending[e]
  /\ bridge'[e] = bridge[e] /\ tasks'[e] = tasks[e]
  /\ truth'[e] = truth[e] /\ strained'[e] = strained[e]
  /\ \A l \in Identity!Listener : l.dir = e => (l \in listeners' <=> l \in listeners)

LEMMA Elsewhere ==
  ASSUME NEW e \in Vaults, Same(e), listeners \subseteq Identity!Listener, listeners' \subseteq Identity!Listener
  PROVE  /\ Local(e) => Local(e)'
         /\ \A id : HoldsId(e, id)' <=> HoldsId(e, id)
<1>1. Identity!Authoritative(e)' = Identity!Authoritative(e)
  BY DEF Same, Identity!Authoritative
<1>2. Shaped(e) => Shaped(e)'
  BY <1>1 DEF Same, Shaped
<1>3. Listening(e) => Listening(e)'
  BY DEF Same, Listening
<1>4. Moved(e) => Moved(e)'
  BY <1>1 DEF Same, Moved
<1>5. ASSUME NEW s PROVE Agrees(e, s)' <=> Agrees(e, s)
  BY <1>1 DEF Agrees
<1>6. OneTask(e) => OneTask(e)'
  BY <1>1 DEF Same, OneTask, Agrees
<1>7. Serves(e) => Serves(e)'
  BY <1>1 DEF Same, Serves, Agrees
<1>8. \A id : HoldsId(e, id)' <=> HoldsId(e, id)
  BY <1>1 DEF Same, HoldsId
<1> QED
  BY <1>2, <1>3, <1>4, <1>6, <1>7, <1>8 DEF Local, Calm, Same

\* A step of one directory keeps the invariant if it keeps that directory's part
\* and the ids it adds to it are new.
LEMMA StepOf ==
  ASSUME IdentityInv, Identity!TypeOK', NEW d \in Vaults, \A e \in Vaults \ {d} : Same(e),
         Local(d)', OwnPorts', lost' = FALSE, nextId' >= nextId,
         \A id \in Int : HoldsId(d, id)' => HoldsId(d, id) \/ (nextId <= id /\ id < nextId')
  PROVE  IdentityInv'
<1>1. listeners \subseteq Identity!Listener /\ listeners' \subseteq Identity!Listener /\ nextId \in Int /\ nextId' \in Int
  BY DEF IdentityInv, Identity!TypeOK
<1>2. \A e \in Vaults : Local(e)'
  BY <1>1, Elsewhere DEF IdentityInv
<1>3. \A e \in Vaults \ {d} : \A id : HoldsId(e, id)' <=> HoldsId(e, id)
  BY <1>1, Elsewhere
<1>4. \A e \in Vaults, id \in Int : HoldsId(e, id)' => id < nextId'
  BY <1>1, <1>3 DEF IdentityInv, IdsOwned
<1>5. \A e, f \in Vaults, id \in Int : HoldsId(e, id)' /\ HoldsId(f, id)' => e = f
  <2> SUFFICES ASSUME NEW e \in Vaults, NEW f \in Vaults, NEW id \in Int, HoldsId(e, id)', HoldsId(f, id)', e # f
               PROVE  FALSE
    OBVIOUS
  <2>1. CASE e # d /\ f # d
    BY <1>3, <2>1 DEF IdentityInv, IdsOwned
  <2>2. ASSUME NEW g \in Vaults \ {d}, HoldsId(g, id)', HoldsId(d, id)' PROVE FALSE
    BY <1>1, <1>3, <2>2 DEF IdentityInv, IdsOwned
  <2> QED
    BY <2>1, <2>2
<1> QED
  BY <1>2, <1>4, <1>5 DEF IdentityInv, IdsOwned, Identity!NewerIsKept
-----------------------------------------------------------------------------
LEMMA CopyFacts ==
  ASSUME NEW c \in Identity!Copy
  PROVE  /\ c # None /\ c.vaultId \in 1..MaxIds /\ c.port \in Ports /\ c.diagnosticPath \in Vaults
         /\ Identity!Parsed(c) \in Identity!Settings /\ Identity!Parsed(c).vaultId = c.vaultId /\ Identity!Parsed(c).port = c.port
         /\ Identity!Parsed(c).diagnosticPath = c.diagnosticPath
<1>1. c # None /\ c.vaultId \in 1..MaxIds /\ c.port \in Ports /\ c.diagnosticPath \in Vaults
  BY NoneAssumption DEF Identity!Copy
<1>2. c = [vaultId |-> c.vaultId, port |-> c.port, diagnosticPath |-> c.diagnosticPath,
           schema |-> c.schema, changeSets |-> c.changeSets] /\ c.changeSets \in {"empty", "kept"}
  BY DEF Identity!Copy
<1>3. \E kept \in {"empty", "kept"} :
        Identity!Parsed(c) = [vaultId |-> c.vaultId, port |-> c.port, diagnosticPath |-> c.diagnosticPath,
                     schema |-> "current", changeSets |-> kept]
  BY <1>1, <1>2 DEF Identity!Parsed, Identity!Restricted, Identity!ParsePersistedEnvelope,
     Identity!ParsePersistedSettings
<1> QED
  BY <1>1, <1>3 DEF Identity!Settings, Identity!Copy, Identity!Schemas

LEMMA SettingsFacts ==
  /\ \A s \in Identity!Settings : s \in Identity!Copy /\ ~Identity!Restricted(s) /\ s # None
  /\ \A s \in Identity!Settings, d \in Vaults :
       /\ [s EXCEPT !.diagnosticPath = d] \in Identity!Settings
       /\ [s EXCEPT !.diagnosticPath = d].vaultId = s.vaultId
       /\ [s EXCEPT !.diagnosticPath = d].diagnosticPath = d
  /\ \A s \in Identity!Settings :
       /\ [s EXCEPT !.changeSets = "kept"] \in Identity!Settings
       /\ [s EXCEPT !.changeSets = "kept"].vaultId = s.vaultId
       /\ [s EXCEPT !.changeSets = "kept"].port = s.port
       /\ [s EXCEPT !.changeSets = "kept"].diagnosticPath = s.diagnosticPath
  /\ \A id \in 1..MaxIds, port \in Ports, d \in Vaults :
       /\ Identity!Fresh(id, port, d) \in Identity!Settings
       /\ Identity!Fresh(id, port, d).vaultId = id /\ Identity!Fresh(id, port, d).diagnosticPath = d
<1>1. \A s \in Identity!Settings : s \in Identity!Copy /\ ~Identity!Restricted(s) /\ s # None
  BY NoneAssumption DEF Identity!Settings, Identity!Restricted
<1>2. \A s \in Identity!Settings : \E id \in 1..MaxIds, port \in Ports, path \in Vaults, kept \in {"empty", "kept"} :
        s = [vaultId |-> id, port |-> port, diagnosticPath |-> path, schema |-> "current",
             changeSets |-> kept]
  BY DEF Identity!Settings, Identity!Copy
<1>3. \A id \in 1..MaxIds, port \in Ports, path \in Vaults, kept \in {"empty", "kept"} :
        [vaultId |-> id, port |-> port, diagnosticPath |-> path, schema |-> "current",
         changeSets |-> kept] \in Identity!Settings
  BY DEF Identity!Settings, Identity!Copy, Identity!Schemas
<1>4. \A id \in 1..MaxIds, port \in Ports, d \in Vaults :
       /\ Identity!Fresh(id, port, d) \in Identity!Settings
       /\ Identity!Fresh(id, port, d).vaultId = id /\ Identity!Fresh(id, port, d).diagnosticPath = d
  BY <1>3 DEF Identity!Fresh
<1>5. ASSUME NEW s \in Identity!Settings, NEW d \in Vaults
      PROVE  /\ [s EXCEPT !.diagnosticPath = d] \in Identity!Settings
             /\ [s EXCEPT !.diagnosticPath = d].vaultId = s.vaultId
             /\ [s EXCEPT !.diagnosticPath = d].diagnosticPath = d
             /\ [s EXCEPT !.changeSets = "kept"] \in Identity!Settings
             /\ [s EXCEPT !.changeSets = "kept"].vaultId = s.vaultId
             /\ [s EXCEPT !.changeSets = "kept"].port = s.port
             /\ [s EXCEPT !.changeSets = "kept"].diagnosticPath = s.diagnosticPath
  <2>1. PICK id \in 1..MaxIds, port \in Ports, path \in Vaults, kept \in {"empty", "kept"} :
        s = [vaultId |-> id, port |-> port, diagnosticPath |-> path, schema |-> "current",
             changeSets |-> kept]
    BY <1>2
  <2> DEFINE moved == [s EXCEPT !.diagnosticPath = d]
             saved == [s EXCEPT !.changeSets = "kept"]
  <2>2. moved = [vaultId |-> id, port |-> port, diagnosticPath |-> d, schema |-> "current",
                 changeSets |-> kept]
    BY <2>1
  <2>3. saved = [vaultId |-> id, port |-> port, diagnosticPath |-> path, schema |-> "current",
                 changeSets |-> "kept"]
    BY <2>1
  <2> HIDE DEF moved, saved
  <2>4. moved \in Identity!Settings /\ moved.vaultId = s.vaultId /\ moved.diagnosticPath = d
    BY <1>3, <2>1, <2>2
  <2>5. saved \in Identity!Settings /\ saved.vaultId = s.vaultId /\ saved.port = s.port
        /\ saved.diagnosticPath = s.diagnosticPath
    BY <1>3, <2>1, <2>3
  <2> QED
    BY <2>4, <2>5 DEF moved, saved
<1> QED
  <2>1. \A s \in Identity!Settings, d \in Vaults :
       /\ [s EXCEPT !.diagnosticPath = d] \in Identity!Settings
       /\ [s EXCEPT !.diagnosticPath = d].vaultId = s.vaultId
       /\ [s EXCEPT !.diagnosticPath = d].diagnosticPath = d
    BY <1>5
  <2>2. \A s \in Identity!Settings :
       /\ [s EXCEPT !.changeSets = "kept"] \in Identity!Settings
       /\ [s EXCEPT !.changeSets = "kept"].vaultId = s.vaultId
       /\ [s EXCEPT !.changeSets = "kept"].port = s.port
       /\ [s EXCEPT !.changeSets = "kept"].diagnosticPath = s.diagnosticPath
    BY <1>5, VaultAssumption
  <2> QED
    BY <1>1, <1>4, <2>1, <2>2

Places == {"idle", "recovery", "mirror", "load", "copyOnly", "listen", "started"}

LEMMA TaskFacts ==
  /\ Identity!NoTask \in Identity!Task
  /\ \A place \in Places, kind \in {"load", "migration", "move", "copy"}, s \in Identity!Settings \cup {None},
        orphan \in BOOLEAN :
       [at |-> place, kind |-> kind, settings |-> s, orphan |-> orphan] \in Identity!Task
  /\ \A task \in Identity!Task :
       /\ \A place \in Places :
            /\ [task EXCEPT !.at = place] \in Identity!Task
            /\ [task EXCEPT !.at = place].at = place /\ [task EXCEPT !.at = place].kind = task.kind
            /\ [task EXCEPT !.at = place].settings = task.settings
            /\ [task EXCEPT !.at = place].orphan = task.orphan
       /\ LET orphaned == [task EXCEPT !.orphan = TRUE] IN
            /\ orphaned \in Identity!Task
            /\ orphaned.at = task.at /\ orphaned.kind = task.kind
            /\ orphaned.settings = task.settings
       /\ task.settings # None => task.settings \in Identity!Settings
<1>1. \A place \in Places, kind \in {"load", "migration", "move", "copy"}, s \in Identity!Settings \cup {None},
        orphan \in BOOLEAN :
       [at |-> place, kind |-> kind, settings |-> s, orphan |-> orphan] \in Identity!Task
  BY Zenon DEF Identity!Task, Places
<1>2. Identity!NoTask \in Identity!Task
  BY <1>1 DEF Identity!NoTask, Places
<1>3. ASSUME NEW task \in Identity!Task, NEW place \in Places
      PROVE  [task EXCEPT !.at = place] \in Identity!Task
  BY <1>3, Zenon DEF Identity!Task, Places
<1>4. ASSUME NEW task \in Identity!Task, NEW place \in Places
      PROVE  /\ [task EXCEPT !.at = place].at = place /\ [task EXCEPT !.at = place].kind = task.kind
             /\ [task EXCEPT !.at = place].settings = task.settings
             /\ [task EXCEPT !.at = place].orphan = task.orphan
  BY <1>4 DEF Identity!Task
<1>5. ASSUME NEW task \in Identity!Task
      PROVE  [task EXCEPT !.orphan = TRUE] \in Identity!Task
  BY <1>5, Zenon DEF Identity!Task
<1>6. ASSUME NEW task \in Identity!Task
      PROVE  LET orphaned == [task EXCEPT !.orphan = TRUE] IN
             /\ orphaned.at = task.at /\ orphaned.kind = task.kind
             /\ orphaned.settings = task.settings
  BY <1>6 DEF Identity!Task
<1>7. ASSUME NEW task \in Identity!Task, task.settings # None
      PROVE task.settings \in Identity!Settings
  BY <1>7 DEF Identity!Task
<1> QED
  BY <1>1, <1>2, <1>3, <1>4, <1>5, <1>6, <1>7

LEMMA SetTaskFacts ==
  ASSUME Identity!TypeOK, NEW d \in Vaults, NEW t \in Slots, NEW task \in Identity!Task, Identity!SetTask(d, t, task)
  PROVE  /\ tasks' \in [Vaults -> [1..MaxTasks -> Identity!Task]]
         /\ tasks'[d][t] = task
         /\ \A s \in Slots \ {t} : tasks'[d][s] = tasks[d][s]
         /\ \A e \in Vaults \ {d} : tasks'[e] = tasks[e]
  BY DEF Identity!TypeOK, Identity!SetTask, Slots
-----------------------------------------------------------------------------
LEMMA IdentityInit == Identity!Init => IdentityInv
<1> SUFFICES ASSUME Identity!Init PROVE IdentityInv
  OBVIOUS
<1> DEFINE home == CHOOSE d \in Vaults : TRUE
           AtTask(c) == [d \in Vaults |-> IF d = home THEN c ELSE None]
<1>1. home \in Vaults
  BY VaultAssumption
<1>2. PICK c : /\ c # None => c \in Identity!Copy /\ c.vaultId = 1
               /\ mirror = AtTask(c) /\ recovery \in {AtTask(None), AtTask(c)}
               /\ nextId = IF c = None THEN 1 ELSE 2
  BY DEF Identity!Init
<1> HIDE DEF home
<1>5. /\ \A d \in Vaults : Identity!Authoritative(d) \in {None, c}
      /\ nextId \in {1, 2} /\ (c # None => nextId = 2)
      /\ \A d \in Vaults \ {home} : Identity!Authoritative(d) = None
  <2>1. \A d \in Vaults : /\ mirror[d] = IF d = home THEN c ELSE None
                       /\ d # home => recovery[d] = None
                       /\ recovery[d] \in {None, c}
    <3>1. CASE recovery = AtTask(None)
      BY <1>2, <3>1
    <3>2. CASE recovery = AtTask(c)
      BY <1>2, <3>2
    <3> QED
      BY <1>2, <3>1, <3>2
  <2> QED
    BY <1>2, <2>1 DEF Identity!Authoritative
<1>8. Identity!TypeOK
  <2>1. recovery \in [Vaults -> Identity!Copy \cup {None}] /\ mirror \in [Vaults -> Identity!Copy \cup {None}]
    BY <1>2
  <2>2. tasks \in [Vaults -> [1..MaxTasks -> Identity!Task]]
    BY TaskFacts DEF Identity!Init
  <2>3. nextId \in 1..(MaxIds + 1)
    BY <1>5, VaultAssumption
  <2>4. 0 \in 0..MaxLoads /\ 0 \in 0..MaxWriteFaults /\ 0 \in 0..MaxCopies
    BY VaultAssumption
  <2> QED
    BY <2>1, <2>2, <2>3, <2>4 DEF Identity!Init, Identity!TypeOK
<1>6. ASSUME NEW d \in Vaults, NEW id \in Int, HoldsId(d, id) PROVE id = 1 /\ c # None /\ d = home
  BY <1>2, <1>5, <1>6 DEF Identity!Init, HoldsId, Identity!NoTask
<1>7. ASSUME NEW d \in Vaults PROVE Local(d)
  BY <1>7 DEF Identity!Init, Local, Shaped, Listening, Moved, Calm, OneTask, Serves,
     Identity!NoTask, Identity!Restricted
<1> QED
  BY <1>8, <1>5, <1>6, <1>7 DEF IdentityInv, OwnPorts, IdsOwned, Identity!NewerIsKept, Identity!Init

LEMMA OnloadInv ==
  ASSUME IdentityInv, NEW d \in Vaults, NEW t \in Slots, Identity!Onload(d, t)
  PROVE  IdentityInv'
<1> DEFINE task == [Identity!NoTask EXCEPT !.at = "load"]
<1>1. /\ task \in Identity!Task /\ task.at = "load" /\ task.settings = None /\ ~task.orphan
      /\ Identity!SetTask(d, t, task)
  BY TaskFacts DEF Identity!Onload, Identity!NoTask, Places
<1> HIDE DEF task
<1>2. /\ tasks' \in [Vaults -> [1..MaxTasks -> Identity!Task]] /\ tasks'[d][t] = task
      /\ \A s \in Slots \ {t} : tasks'[d][s] = tasks[d][s]
      /\ \A e \in Vaults \ {d} : tasks'[e] = tasks[e]
  BY <1>1, SetTaskFacts DEF IdentityInv
<1>3. Identity!TypeOK'
  <2>1. loads' \in 0..MaxLoads
    <3>1. MaxLoads \in Nat
      BY VaultAssumption
    <3> QED
      BY <3>1 DEF IdentityInv, Identity!TypeOK, Identity!Onload
  <2> QED
    BY <1>2, <2>1 DEF IdentityInv, Identity!TypeOK, Identity!Onload, Identity!disk, Identity!history
<1>4. ASSUME NEW e \in Vaults \ {d} PROVE Same(e)
  <2>1. /\ loaded'[e] = loaded[e] /\ settings'[e] = settings[e] /\ pending'[e] = pending[e]
        /\ bridge'[e] = bridge[e]
    BY DEF IdentityInv, Identity!TypeOK, Identity!Onload
  <2> QED
    BY <1>2, <2>1 DEF Same, Identity!Onload, Identity!disk, Identity!history
<1>5. /\ settings'[d] = None /\ bridge'[d] = None /\ ~pending'[d] /\ loaded'[d]
      /\ UNCHANGED <<recovery, mirror, listeners, truth, strained, lost, nextId>> /\ ~loaded[d]
      /\ Identity!Authoritative(d)' = Identity!Authoritative(d)
  BY DEF IdentityInv, Identity!TypeOK, Identity!Onload, Identity!disk, Identity!history,
     Identity!Authoritative
<1>6. Shaped(d) /\ Listening(d) /\ Moved(d) /\ Calm(d)
  BY DEF IdentityInv, Local
<1>7. Shaped(d)'
  BY <1>1, <1>2, <1>5, <1>6 DEF Shaped, Slots
<1>8. Listening(d)'
  BY <1>1, <1>2, <1>5, <1>6 DEF Listening, Slots
<1>9. Moved(d)'
  BY <1>1, <1>2, <1>5, <1>6 DEF Moved, Slots
<1>10. ASSUME ~strained[d] PROVE OneTask(d)' /\ Serves(d)'
  <2>1. \A s \in Slots : tasks[d][s].at = "idle"
    BY <1>5, <1>6, <1>10 DEF Calm, OneTask, Slots
  <2>2. OneTask(d)'
    BY <1>1, <1>2, <1>5, <2>1 DEF OneTask, Slots
  <2>3. \A l \in listeners : l.dir # d
    <3>1. listeners \subseteq Identity!Listener /\ bridge[d] = None
      BY <1>5, <1>6 DEF IdentityInv, Identity!TypeOK, Shaped
    <3>2. Serves(d)
      BY <1>6, <1>10 DEF Calm
    <3> QED
      BY <2>1, <3>1, <3>2, NoneAssumption DEF Serves, Slots
  <2> QED
    BY <1>5, <2>2, <2>3 DEF Serves
<1>11. \A id \in Int : HoldsId(d, id)' => HoldsId(d, id)
  BY <1>1, <1>2, <1>5 DEF HoldsId, Slots
<1>12. Local(d)'
  BY <1>5, <1>7, <1>8, <1>9, <1>10 DEF Local, Calm
<1>13. OwnPorts' /\ lost' = FALSE /\ nextId' >= nextId
  BY <1>5 DEF IdentityInv, OwnPorts, Identity!NewerIsKept, Identity!TypeOK
<1> QED
  BY <1>3, <1>4, <1>11, <1>12, <1>13, StepOf

\* A load ends, leaves a path change to the operator, or has an identity to save
\* or to serve: a new one, or the one a crash would leave.
LEMMA LoadFacts ==
  ASSUME IdentityInv, NEW d \in Vaults, NEW t \in Slots, Identity!Load(d, t)
  PROVE  /\ UNCHANGED <<Identity!disk, loaded, bridge, listeners, Identity!history, loads, writeFaults, copies>>
         /\ tasks[d][t].at = "load"
         /\ \E task \in Identity!Task :
              /\ Identity!SetTask(d, t, task)
              /\ \/ /\ task = Identity!NoTask /\ nextId' = nextId
                    /\ \/ UNCHANGED <<settings, pending>>
                       \/ /\ ~tasks[d][t].orphan /\ bridge[d] = None
                          /\ Identity!Authoritative(d) # None /\ Identity!Authoritative(d).diagnosticPath # d
                          /\ settings' = [settings EXCEPT ![d] = Identity!Parsed(Identity!Authoritative(d))]
                          /\ pending' = [pending EXCEPT ![d] = TRUE]
                 \/ /\ UNCHANGED <<settings, pending>>
                    /\ tasks[d][t].orphan \/ bridge[d] = None
                    /\ task.settings # None /\ task.settings.diagnosticPath = d
                    /\ task.orphan = tasks[d][t].orphan
                    /\ task.at \in {"recovery", "copyOnly", "listen"}
                    /\ task.at # "listen" => ~Identity!Restricted(Identity!Authoritative(d))
                    /\ \/ /\ Identity!Authoritative(d) = None /\ task.at = "recovery"
                          /\ nextId' = nextId + 1 /\ nextId <= MaxIds
                          /\ task.settings.vaultId = nextId
                       \/ Agrees(d, task.settings) /\ nextId' = nextId
<1> DEFINE c == Identity!Authoritative(d)
           orphan == tasks[d][t].orphan
<1>1. c \in Identity!Copy \cup {None} /\ orphan \in BOOLEAN /\ nextId \in 1..(MaxIds + 1) /\ MaxIds \in Nat
  BY VaultAssumption DEF IdentityInv, Identity!TypeOK, Identity!Authoritative, Slots, Identity!Task
<1>2. UNCHANGED <<Identity!disk, loaded, bridge, listeners, Identity!history, loads, writeFaults, copies>> /\ tasks[d][t].at = "load"
  BY DEF Identity!Load
<1>3. CASE ~orphan /\ bridge[d] # None
  <2>1. Identity!Ends(d, t) /\ UNCHANGED <<settings, pending, nextId>>
    BY <1>3 DEF Identity!Load
  <2> QED
    BY <1>2, <2>1, TaskFacts DEF Identity!Ends
<1>4. CASE (orphan \/ bridge[d] = None) /\ Identity!PathChanged(d)
  <2>1. /\ Identity!Ends(d, t) /\ UNCHANGED nextId
        /\ settings' = IF orphan THEN settings ELSE [settings EXCEPT ![d] = Identity!Parsed(c)]
        /\ pending' = IF orphan THEN pending ELSE [pending EXCEPT ![d] = TRUE]
    BY <1>4 DEF Identity!Load
  <2> QED
    BY <1>2, <1>4, <2>1, TaskFacts DEF Identity!Ends, Identity!PathChanged
<1>5. CASE (orphan \/ bridge[d] = None) /\ ~Identity!PathChanged(d) /\ c = None
  <2>1. PICK port \in Ports :
          Identity!SetTask(d, t, [at |-> "recovery", kind |-> "load", settings |-> Identity!Fresh(nextId, port, d),
                         orphan |-> orphan])
    BY <1>5 DEF Identity!Load
  <2>2. nextId <= MaxIds /\ nextId' = nextId + 1 /\ UNCHANGED <<settings, pending>>
    BY <1>5 DEF Identity!Load
  <2>3. Identity!Fresh(nextId, port, d) \in Identity!Settings /\ Identity!Fresh(nextId, port, d).vaultId = nextId
        /\ Identity!Fresh(nextId, port, d).diagnosticPath = d
    BY <1>1, <2>2, SettingsFacts
  <2> DEFINE fresh == Identity!Fresh(nextId, port, d)
             task == [at |-> "recovery", kind |-> "load", settings |-> fresh, orphan |-> orphan]
  <2>4. task \in Identity!Task
    BY <1>1, <2>3, TaskFacts DEF Places
  <2>5. fresh # None /\ ~Identity!Restricted(c)
    BY <1>5, <2>3, SettingsFacts DEF Identity!Restricted
  <2>6. task.at = "recovery" /\ task.settings = fresh /\ task.orphan = orphan
    OBVIOUS
  <2> HIDE DEF fresh
  <2>7. Identity!SetTask(d, t, task)
    BY <2>1 DEF fresh
  <2> HIDE DEF task
  <2> QED
    BY <1>2, <1>5, <2>2, <2>3, <2>4, <2>5, <2>6, <2>7 DEF fresh
<1>6. CASE (orphan \/ bridge[d] = None) /\ ~Identity!PathChanged(d) /\ c # None
  <2> DEFINE kind == IF c.schema = "legacy" THEN "migration" ELSE "load"
             place == IF Identity!Restricted(c) THEN "listen"
                   ELSE IF recovery[d] # None \/ c.schema = "legacy" THEN "recovery" ELSE "copyOnly"
             task == [at |-> place, kind |-> kind, settings |-> Identity!Parsed(c), orphan |-> orphan]
  <2>1. Identity!SetTask(d, t, task)
    BY <1>6 DEF Identity!Load
  <2>2. UNCHANGED <<settings, pending, nextId>>
    BY <1>6 DEF Identity!Load
  <2>3. /\ Identity!Parsed(c) \in Identity!Settings /\ Identity!Parsed(c).vaultId = c.vaultId /\ Identity!Parsed(c).port = c.port
        /\ Identity!Parsed(c).diagnosticPath = c.diagnosticPath /\ Identity!Parsed(c) # None
    BY <1>1, <1>6, CopyFacts, SettingsFacts
  <2>4. place \in {"recovery", "copyOnly", "listen"} /\ (place # "listen" => ~Identity!Restricted(c))
        /\ kind \in {"load", "migration"}
    OBVIOUS
  <2> HIDE DEF place, kind
  <2>5. task \in Identity!Task
    BY <1>1, <2>3, <2>4, TaskFacts DEF Places
  <2>6. task.at = place /\ task.settings = Identity!Parsed(c) /\ task.orphan = orphan
    OBVIOUS
  <2> HIDE DEF task
  <2>7. Agrees(d, task.settings) /\ task.settings.diagnosticPath = d
    BY <1>6, <2>3, <2>6 DEF Agrees, Identity!PathChanged
  <2> QED
    BY <1>2, <1>6, <2>1, <2>2, <2>3, <2>4, <2>5, <2>6, <2>7
<1> QED
  BY <1>3, <1>4, <1>5, <1>6

LEMMA LoadInv ==
  ASSUME IdentityInv, NEW d \in Vaults, NEW t \in Slots, Identity!Load(d, t)
  PROVE  IdentityInv'
<1> DEFINE c == Identity!Authoritative(d)
           orphan == tasks[d][t].orphan
<1>1. /\ UNCHANGED <<recovery, mirror, loaded, bridge, listeners, truth, strained, lost, loads, writeFaults, copies>>
      /\ tasks[d][t].at = "load" /\ Identity!Authoritative(d)' = c
  BY LoadFacts DEF Identity!disk, Identity!history, Identity!Authoritative
<1>2. PICK task \in Identity!Task :
        /\ Identity!SetTask(d, t, task)
        /\ \/ /\ task = Identity!NoTask /\ nextId' = nextId
              /\ \/ UNCHANGED <<settings, pending>>
                 \/ /\ ~orphan /\ bridge[d] = None /\ c # None /\ c.diagnosticPath # d
                    /\ settings' = [settings EXCEPT ![d] = Identity!Parsed(c)]
                    /\ pending' = [pending EXCEPT ![d] = TRUE]
           \/ /\ UNCHANGED <<settings, pending>>
              /\ orphan \/ bridge[d] = None
              /\ task.settings # None /\ task.settings.diagnosticPath = d /\ task.orphan = orphan
              /\ task.at \in {"recovery", "copyOnly", "listen"}
              /\ task.at # "listen" => ~Identity!Restricted(c)
              /\ \/ /\ c = None /\ task.at = "recovery" /\ nextId' = nextId + 1 /\ nextId <= MaxIds
                    /\ task.settings.vaultId = nextId
                 \/ Agrees(d, task.settings) /\ nextId' = nextId
  BY LoadFacts
<1>3. /\ tasks' \in [Vaults -> [1..MaxTasks -> Identity!Task]] /\ tasks'[d][t] = task
      /\ \A s \in Slots \ {t} : tasks'[d][s] = tasks[d][s]
      /\ \A e \in Vaults \ {d} : tasks'[e] = tasks[e]
  BY <1>2, SetTaskFacts DEF IdentityInv
<1>4. /\ c \in Identity!Copy \cup {None} /\ nextId \in 1..(MaxIds + 1) /\ MaxIds \in Nat
      /\ settings \in [Vaults -> Identity!Settings \cup {None}] /\ pending \in [Vaults -> BOOLEAN]
  BY VaultAssumption DEF IdentityInv, Identity!TypeOK, Identity!Authoritative
<1>5. Shaped(d) /\ Listening(d) /\ Moved(d) /\ Calm(d)
  BY DEF IdentityInv, Local
\* What the memory of the directory becomes.
<1>6. /\ settings' \in [Vaults -> Identity!Settings \cup {None}] /\ pending' \in [Vaults -> BOOLEAN]
      /\ \A e \in Vaults \ {d} : settings'[e] = settings[e] /\ pending'[e] = pending[e]
      /\ \/ settings'[d] = settings[d] /\ pending'[d] = pending[d]
         \/ /\ task = Identity!NoTask /\ ~orphan /\ bridge[d] = None /\ c # None /\ c.diagnosticPath # d
            /\ settings'[d] # None /\ settings'[d].vaultId = c.vaultId
            /\ settings'[d].diagnosticPath # d /\ pending'[d]
  <2>1. CASE UNCHANGED <<settings, pending>>
    BY <1>4, <2>1
  <2>2. CASE ~UNCHANGED <<settings, pending>>
    <3>1. /\ task = Identity!NoTask /\ ~orphan /\ bridge[d] = None /\ c # None /\ c.diagnosticPath # d
          /\ settings' = [settings EXCEPT ![d] = Identity!Parsed(c)] /\ pending' = [pending EXCEPT ![d] = TRUE]
      BY <1>2, <2>2
    <3>2. /\ Identity!Parsed(c) \in Identity!Settings /\ Identity!Parsed(c).vaultId = c.vaultId
          /\ Identity!Parsed(c).diagnosticPath = c.diagnosticPath /\ Identity!Parsed(c) # None
      BY <1>4, <3>1, CopyFacts, SettingsFacts
    <3> QED
      BY <1>4, <3>1, <3>2
  <2> QED
    BY <2>1, <2>2
<1> HIDE DEF orphan
<1>7. Identity!TypeOK'
  <2>1. nextId' \in 1..(MaxIds + 1)
    BY <1>2, <1>4
  <2> QED
    BY <1>1, <1>3, <1>6, <2>1 DEF IdentityInv, Identity!TypeOK
<1>8. \A e \in Vaults \ {d} : Same(e)
  BY <1>1, <1>3, <1>6 DEF Same
<1>9. Identity!NoTask.at = "idle" /\ Identity!NoTask.settings = None
  BY DEF Identity!NoTask
\* The directory's task afterwards.
<1>10. /\ task.settings = None => task.at = "idle"
       /\ task.settings # None =>
            /\ settings'[d] = settings[d] /\ pending'[d] = pending[d]
            /\ orphan \/ bridge[d] = None
            /\ task.settings.diagnosticPath = d /\ task.orphan = orphan
            /\ task.at \in {"recovery", "copyOnly", "listen"}
            /\ task.at # "listen" => ~Identity!Restricted(c)
            /\ (c = None /\ task.at = "recovery") \/ Agrees(d, task.settings)
  BY <1>2, <1>6, <1>9
<1>11. Shaped(d)'
  <2>1. orphan \/ loaded[d]
    BY <1>1, <1>5 DEF Shaped, Slots, orphan
  <2>2. task.settings = None => task = Identity!NoTask
    BY <1>2
  <2> QED
    BY <1>1, <1>3, <1>5, <1>6, <1>10, <2>1, <2>2 DEF Shaped, Slots
<1>12. Listening(d)'
  BY <1>1, <1>3, <1>5, <1>10 DEF Listening, Slots
<1>13. Moved(d)'
  <2>1. task.settings # None => task.settings.vaultId = c.vaultId \/ c = None
    BY <1>10 DEF Agrees
  <2> QED
    BY <1>1, <1>3, <1>5, <1>6, <2>1 DEF Moved, Slots
<1>14. ASSUME ~strained[d] PROVE OneTask(d)' /\ Serves(d)'
  <2>1. /\ OneTask(d) /\ Serves(d) /\ ~orphan /\ bridge[d] = None /\ loaded[d] /\ ~pending[d]
        /\ \A s \in Slots \ {t} : tasks[d][s].at = "idle"
    BY <1>1, <1>5, <1>14 DEF Calm, OneTask, Slots, orphan
  <2>2. \A l \in listeners : l.dir # d
    <3>1. listeners \subseteq Identity!Listener
      BY DEF IdentityInv, Identity!TypeOK
    <3> QED
      BY <1>1, <2>1, <3>1, NoneAssumption DEF Serves, Slots
  <2>3. OneTask(d)'
    BY <1>1, <1>3, <1>10, <2>1 DEF OneTask, Slots, Agrees
  <2> QED
    BY <1>1, <2>2, <2>3 DEF Serves
<1>15. ASSUME NEW id \in Int, HoldsId(d, id)'
       PROVE  HoldsId(d, id) \/ (nextId <= id /\ id < nextId')
  <2>1. task.settings # None =>
          \/ task.settings.vaultId = nextId /\ nextId' = nextId + 1
          \/ Agrees(d, task.settings)
    BY <1>2, <1>9
  <2>2. Agrees(d, task.settings) => HoldsId(d, task.settings.vaultId)
    BY DEF Agrees, HoldsId
  <2> QED
    BY <1>1, <1>3, <1>4, <1>6, <1>15, <2>1, <2>2 DEF HoldsId, Slots
<1>16. Local(d)'
  BY <1>1, <1>11, <1>12, <1>13, <1>14 DEF Local, Calm
<1>17. OwnPorts' /\ lost' = FALSE /\ nextId' >= nextId
  BY <1>1, <1>2, <1>4 DEF IdentityInv, OwnPorts, Identity!NewerIsKept
<1> QED
  BY <1>7, <1>8, <1>15, <1>16, <1>17, StepOf

LEMMA ClassifyInv ==
  ASSUME IdentityInv, NEW d \in Vaults, NEW t \in Slots, Identity!Classify(d, t)
  PROVE  IdentityInv'
<1>1. /\ UNCHANGED <<recovery, mirror, loaded, settings, pending, bridge, listeners, truth, lost,
                     loads, writeFaults, copies>>
      /\ loaded[d] /\ pending[d] /\ tasks[d][t].at = "idle"
      /\ strained' = [strained EXCEPT ![d] = @ \/ Identity!Busy(d)]
      /\ Identity!Authoritative(d)' = Identity!Authoritative(d)
  BY DEF Identity!Classify, Identity!disk, Identity!memory, Identity!Free, Identity!Authoritative
<1>2. Shaped(d) /\ Listening(d) /\ Moved(d) /\ Calm(d)
  BY DEF IdentityInv, Local
<1>3. settings[d] \in Identity!Settings /\ nextId \in 1..(MaxIds + 1) /\ MaxIds \in Nat
  BY <1>1, <1>2, VaultAssumption DEF Shaped, IdentityInv, Identity!TypeOK
<1>4. PICK kind \in {"move", "copy"}, s \in Identity!Settings :
        /\ Identity!SetTask(d, t, [at |-> "recovery", kind |-> kind, settings |-> s, orphan |-> FALSE])
        /\ s.diagnosticPath = d
        /\ \/ truth[d] = "move" /\ s.vaultId = settings[d].vaultId /\ nextId' = nextId
           \/ /\ truth[d] # "move" /\ s.vaultId = nextId /\ nextId <= MaxIds /\ nextId' = nextId + 1
  <2>1. CASE truth[d] = "move"
    <3>1. Identity!SetTask(d, t, [at |-> "recovery", kind |-> "move",
                         settings |-> [settings[d] EXCEPT !.diagnosticPath = d], orphan |-> FALSE])
          /\ UNCHANGED nextId
      BY <2>1 DEF Identity!Classify
    <3>2. /\ [settings[d] EXCEPT !.diagnosticPath = d] \in Identity!Settings
          /\ [settings[d] EXCEPT !.diagnosticPath = d].vaultId = settings[d].vaultId
          /\ [settings[d] EXCEPT !.diagnosticPath = d].diagnosticPath = d
      BY <1>3, SettingsFacts
    <3> QED
      BY <2>1, <3>1, <3>2
  <2>2. CASE truth[d] # "move"
    <3>1. truth[d] = "copy" /\ nextId <= MaxIds /\ nextId' = nextId + 1
      BY <2>2 DEF Identity!Classify
    <3>2. PICK port \in Ports : Identity!SetTask(d, t, [at |-> "recovery", kind |-> "copy",
                           settings |-> Identity!Copied(settings[d], nextId, port, d), orphan |-> FALSE])
      BY <2>2 DEF Identity!Classify
    <3>3. /\ Identity!Copied(settings[d], nextId, port, d) \in Identity!Settings
          /\ Identity!Copied(settings[d], nextId, port, d).vaultId = nextId
          /\ Identity!Copied(settings[d], nextId, port, d).diagnosticPath = d
      BY <1>3, <3>1, SettingsFacts DEF Identity!Copied
    <3> QED
      BY <2>2, <3>1, <3>2, <3>3
  <2> QED
    BY <2>1, <2>2
<1> DEFINE task == [at |-> "recovery", kind |-> kind, settings |-> s, orphan |-> FALSE]
<1>5. task \in Identity!Task
  BY <1>4, TaskFacts DEF Places
<1>6. task.at = "recovery" /\ task.kind \in {"move", "copy"} /\ task.settings = s /\ ~task.orphan
  BY <1>4
<1>7. s # None
  BY <1>4, SettingsFacts
<1> HIDE DEF task
<1>8. /\ tasks' \in [Vaults -> [1..MaxTasks -> Identity!Task]] /\ tasks'[d][t] = task
      /\ \A r \in Slots \ {t} : tasks'[d][r] = tasks[d][r]
      /\ \A e \in Vaults \ {d} : tasks'[e] = tasks[e]
  BY <1>4, <1>5, SetTaskFacts DEF IdentityInv, task
<1>9. /\ strained' \in [Vaults -> BOOLEAN] /\ strained'[d] = (strained[d] \/ Identity!Busy(d))
      /\ \A e \in Vaults \ {d} : strained'[e] = strained[e]
  BY <1>1 DEF IdentityInv, Identity!TypeOK, Identity!Busy
<1>10. Identity!TypeOK'
  <2>1. nextId' \in 1..(MaxIds + 1)
    BY <1>3, <1>4
  <2> QED
    BY <1>1, <1>8, <1>9, <2>1 DEF IdentityInv, Identity!TypeOK
<1>11. \A e \in Vaults \ {d} : Same(e)
  BY <1>1, <1>8, <1>9 DEF Same
<1>12. Shaped(d)'
  BY <1>1, <1>2, <1>4, <1>6, <1>7, <1>8 DEF Shaped, Slots
<1>13. Listening(d)'
  BY <1>1, <1>2, <1>6, <1>8 DEF Listening, Slots
<1>14. Moved(d)'
  BY <1>1, <1>2, <1>3, <1>4, <1>6, <1>7, <1>8, SettingsFacts DEF Moved, Slots
<1>15. ASSUME ~strained'[d] PROVE OneTask(d)' /\ Serves(d)'
  <2>1. /\ OneTask(d) /\ Serves(d) /\ \A r \in Slots : tasks[d][r].at = "idle"
    BY <1>2, <1>9, <1>15 DEF Calm, Identity!Busy, Slots
  <2>2. \A l \in listeners : l.dir # d
    BY <1>1, <2>1 DEF Serves, Slots
  <2>3. bridge[d] = None
    <3>1. bridge[d] # None => bridge[d] \in listeners /\ bridge[d].dir = d
      BY <1>2 DEF Listening
    <3> QED
      BY <2>2, <3>1
  <2>4. OneTask(d)'
    BY <1>1, <1>6, <1>8, <2>1, <2>3 DEF OneTask, Slots
  <2> QED
    BY <1>1, <2>2, <2>4 DEF Serves
<1>16. ASSUME NEW id \in Int, HoldsId(d, id)'
       PROVE  HoldsId(d, id) \/ (nextId <= id /\ id < nextId')
  <2>1. \/ s.vaultId = nextId /\ nextId' = nextId + 1
        \/ HoldsId(d, s.vaultId)
    BY <1>2, <1>3, <1>4, SettingsFacts DEF HoldsId, Moved
  <2> QED
    BY <1>1, <1>3, <1>6, <1>8, <1>16, <2>1 DEF HoldsId, Slots
<1>17. Local(d)'
  BY <1>12, <1>13, <1>14, <1>15 DEF Local, Calm
<1>18. OwnPorts' /\ lost' = FALSE /\ nextId' >= nextId
  BY <1>1, <1>3, <1>4 DEF IdentityInv, OwnPorts, Identity!NewerIsKept
<1> QED
  BY <1>10, <1>11, <1>16, <1>17, <1>18, StepOf

LEMMA TaskOfSlot ==
  ASSUME IdentityInv, NEW d \in Vaults, NEW t \in Slots
  PROVE  tasks[d][t] \in Identity!Task
<1>1. tasks \in [Vaults -> [Slots -> Identity!Task]]
  <2>1. Identity!TypeOK
    BY Zenon DEF IdentityInv
  <2> QED
    BY <2>1, Zenon DEF Identity!TypeOK, Slots
<1>2. tasks[d] \in [Slots -> Identity!Task]
  BY <1>1
<1> QED
  BY <1>2

LEMMA SaveRecoveryInv ==
  ASSUME IdentityInv, NEW d \in Vaults, NEW t \in Slots, Identity!SaveRecovery(d, t)
  PROVE  IdentityInv'
<1> DEFINE task == tasks[d][t]
           saved == task.settings
<1>1. /\ UNCHANGED <<mirror, loaded, settings, pending, bridge, listeners, truth, strained, nextId, loads, copies>>
      /\ task.at \in {"recovery", "copyOnly"}
  BY DEF Identity!SaveRecovery, Identity!memory
<1>2. Shaped(d) /\ Listening(d) /\ Moved(d) /\ Calm(d)
  BY DEF IdentityInv, Local
<1>3. task \in Identity!Task /\ saved \in Identity!Settings /\ saved # None /\ saved.diagnosticPath = d
  <2>1. task \in Identity!Task
    BY TaskOfSlot
  <2> QED
    BY <1>1, <1>2, <2>1, TaskFacts DEF Shaped, Slots
<1>4. CASE Identity!Fails /\ Identity!Ends(d, t) /\ UNCHANGED <<recovery, lost>>
  <2>1. /\ tasks' \in [Vaults -> [1..MaxTasks -> Identity!Task]] /\ tasks'[d][t] = Identity!NoTask
        /\ \A r \in Slots \ {t} : tasks'[d][r] = tasks[d][r]
        /\ \A e \in Vaults \ {d} : tasks'[e] = tasks[e]
    BY <1>4, TaskFacts, SetTaskFacts DEF IdentityInv, Identity!Ends
  <2>2. writeFaults' \in 0..MaxWriteFaults
    <3>1. MaxWriteFaults \in Nat
      BY VaultAssumption
    <3> QED
      BY <1>4, <3>1 DEF Identity!Fails, IdentityInv, Identity!TypeOK
  <2>3. Identity!TypeOK'
    BY <1>1, <1>4, <2>1, <2>2 DEF IdentityInv, Identity!TypeOK
  <2>4. \A e \in Vaults \ {d} : Same(e)
    BY <1>1, <1>4, <2>1 DEF Same
  <2>5. Identity!NoTask.at = "idle" /\ Identity!NoTask.settings = None
    BY DEF Identity!NoTask
  <2>6. Identity!Authoritative(d)' = Identity!Authoritative(d)
    BY <1>1, <1>4 DEF Identity!Authoritative
  <2>7. Shaped(d)' /\ Listening(d)' /\ Moved(d)'
    BY <1>1, <1>2, <1>4, <2>1, <2>5, <2>6 DEF Shaped, Listening, Moved, Slots
  <2>8. Calm(d)'
    BY <1>1, <1>2, <2>1, <2>5, <2>6 DEF Calm, OneTask, Serves, Agrees, Slots
  <2>9. \A id \in Int : HoldsId(d, id)' => HoldsId(d, id)
    BY <1>1, <2>1, <2>5, <2>6 DEF HoldsId, Slots
  <2>10. Local(d)' /\ OwnPorts' /\ lost' = FALSE /\ nextId' >= nextId
    BY <1>1, <1>4, <2>7, <2>8
       DEF Local, IdentityInv, OwnPorts, Identity!NewerIsKept, Identity!TypeOK
  <2> QED
    BY <2>3, <2>4, <2>9, <2>10, StepOf
<1>5. CASE /\ recovery' = [recovery EXCEPT ![d] = saved]
           /\ lost' = (lost \/ (task.kind \in {"load", "migration"} /\ Identity!Restricted(Identity!Authoritative(d))))
           /\ Identity!Goto(d, t, IF task.at = "copyOnly" THEN "listen" ELSE "mirror")
           /\ UNCHANGED writeFaults
  <2> DEFINE place == IF task.at = "copyOnly" THEN "listen" ELSE "mirror"
             next == [task EXCEPT !.at = place]
  <2>1. place \in {"listen", "mirror"} /\ place \in Places
    BY DEF Places
  <2>2. Identity!SetTask(d, t, next)
    BY <1>5 DEF Identity!Goto
  <2> HIDE DEF place
  <2>3. /\ next \in Identity!Task /\ next.at = place /\ next.kind = task.kind /\ next.settings = saved
        /\ next.orphan = task.orphan
    BY <1>3, <2>1, TaskFacts
  <2> HIDE DEF next
  <2>4. /\ tasks' \in [Vaults -> [1..MaxTasks -> Identity!Task]] /\ tasks'[d][t] = next
        /\ \A r \in Slots \ {t} : tasks'[d][r] = tasks[d][r]
        /\ \A e \in Vaults \ {d} : tasks'[e] = tasks[e]
    BY <2>2, <2>3, SetTaskFacts DEF IdentityInv
  <2>5. /\ recovery' \in [Vaults -> Identity!Copy \cup {None}] /\ recovery'[d] = saved
        /\ \A e \in Vaults \ {d} : recovery'[e] = recovery[e]
    BY <1>3, <1>5, SettingsFacts DEF IdentityInv, Identity!TypeOK
  <2>6. lost' = FALSE
    BY <1>1, <1>2, <1>5 DEF Shaped, Slots, IdentityInv, Identity!NewerIsKept
  <2>7. Identity!TypeOK'
    BY <1>1, <1>5, <2>4, <2>5, <2>6 DEF IdentityInv, Identity!TypeOK
  <2>8. \A e \in Vaults \ {d} : Same(e)
    BY <1>1, <2>4, <2>5 DEF Same
  <2>9. /\ Identity!Authoritative(d)' = saved /\ saved # None /\ ~Identity!Restricted(saved)
    BY <1>3, <2>5, SettingsFacts DEF Identity!Authoritative
  <2>10. Shaped(d)'
    BY <1>1, <1>2, <1>3, <2>1, <2>3, <2>4, <2>5, <2>9 DEF Shaped, Slots
  <2>11. Listening(d)'
    BY <1>1, <1>2, <2>1, <2>3, <2>4 DEF Listening, Slots
  <2>12. Moved(d)'
    BY <1>1, <1>2, <1>3, <2>3, <2>4, <2>9 DEF Moved, Slots
  <2>13. ASSUME ~strained[d] PROVE OneTask(d)' /\ Serves(d)'
    <3>1. /\ OneTask(d) /\ Serves(d) /\ \A r \in Slots \ {t} : tasks[d][r].at = "idle"
          /\ bridge[d] = None
      BY <1>1, <1>2, <2>13 DEF Calm, OneTask, Slots
    <3>2. \A l \in listeners : l.dir # d
      <4>1. listeners \subseteq Identity!Listener
        BY DEF IdentityInv, Identity!TypeOK
      <4> QED
        BY <1>1, <3>1, <4>1, NoneAssumption DEF Serves, Slots
    <3>3. task.at = "copyOnly" => ~pending[d]
      BY <1>1, <3>1 DEF OneTask, Slots
    <3>4. OneTask(d)'
      BY <1>1, <1>3, <2>1, <2>3, <2>4, <2>9, <3>1, <3>3 DEF OneTask, Slots, Agrees, place
    <3> QED
      BY <1>1, <3>2, <3>4 DEF Serves
  <2>14. \A id \in Int : HoldsId(d, id)' => HoldsId(d, id)
    BY <1>1, <1>3, <2>3, <2>4, <2>9 DEF HoldsId, Slots
  <2>15. Local(d)' /\ OwnPorts' /\ nextId' >= nextId
    BY <1>1, <2>10, <2>11, <2>12, <2>13 DEF Local, Calm, IdentityInv, OwnPorts, Identity!TypeOK
  <2> QED
    BY <2>6, <2>7, <2>8, <2>14, <2>15, StepOf
<1> QED
  BY <1>4, <1>5 DEF Identity!SaveRecovery

LEMMA SaveMirrorInv ==
  ASSUME IdentityInv, NEW d \in Vaults, NEW t \in Slots, Identity!SaveMirror(d, t)
  PROVE  IdentityInv'
<1> DEFINE task == tasks[d][t]
           saved == task.settings
           classified == task.kind \notin {"load", "migration"}
           place == CASE task.kind = "load" -> "listen" [] task.kind = "migration" -> "copyOnly" [] OTHER -> "load"
           next == [task EXCEPT !.at = place]
<1>1. /\ UNCHANGED <<recovery, loaded, bridge, listeners, strained, lost, nextId, loads, copies>>
      /\ task.at = "mirror"
  BY DEF Identity!SaveMirror
<1>2. Shaped(d) /\ Listening(d) /\ Moved(d) /\ Calm(d)
  BY DEF IdentityInv, Local
<1>3. task \in Identity!Task /\ saved \in Identity!Settings /\ saved # None /\ saved.diagnosticPath = d
  <2>1. task \in Identity!Task
    BY TaskOfSlot
  <2> QED
    BY <1>1, <1>2, <2>1, TaskFacts DEF Shaped, Slots
<1>4. /\ mirror' \in [Vaults -> Identity!Copy \cup {None}] /\ \A e \in Vaults \ {d} : mirror'[e] = mirror[e]
      /\ writeFaults' \in 0..MaxWriteFaults
  <2>1. MaxWriteFaults \in Nat /\ saved \in Identity!Copy
    BY <1>3, SettingsFacts, VaultAssumption
  <2> QED
    BY <2>1 DEF Identity!SaveMirror, Identity!Fails, IdentityInv, Identity!TypeOK
<1>5. place \in {"listen", "copyOnly", "load"} /\ place \in Places /\ (place = "load" <=> classified)
      /\ (place = "listen" <=> task.kind = "load") /\ Identity!SetTask(d, t, next)
  BY <1>3 DEF Identity!SaveMirror, Places, Identity!Goto, Identity!Task
<1>6. /\ ~classified => UNCHANGED <<settings, pending, truth>>
      /\ classified =>
           /\ IF task.orphan THEN UNCHANGED <<settings, pending>>
              ELSE settings' = [settings EXCEPT ![d] = saved] /\ pending' = [pending EXCEPT ![d] = FALSE]
           /\ truth' = [truth EXCEPT ![d] = "same"]
  BY DEF Identity!SaveMirror
<1> HIDE DEF place
<1>7. /\ next \in Identity!Task /\ next.at = place /\ next.kind = task.kind /\ next.settings = saved
      /\ next.orphan = task.orphan
  BY <1>3, <1>5, TaskFacts
<1> HIDE DEF next
<1>8. /\ tasks' \in [Vaults -> [1..MaxTasks -> Identity!Task]] /\ tasks'[d][t] = next
      /\ \A r \in Slots \ {t} : tasks'[d][r] = tasks[d][r]
      /\ \A e \in Vaults \ {d} : tasks'[e] = tasks[e]
  BY <1>5, <1>7, SetTaskFacts DEF IdentityInv
<1>9. /\ settings' \in [Vaults -> Identity!Settings \cup {None}] /\ pending' \in [Vaults -> BOOLEAN]
      /\ truth' \in [Vaults -> {"same", "move", "copy"}]
      /\ \A e \in Vaults \ {d} : settings'[e] = settings[e] /\ pending'[e] = pending[e] /\ truth'[e] = truth[e]
  BY <1>3, <1>6 DEF IdentityInv, Identity!TypeOK
<1>10. /\ settings'[d] = settings[d] \/ (settings'[d] = saved /\ ~task.orphan)
       /\ pending'[d] = pending[d] \/ ~pending'[d]
       /\ truth'[d] = truth[d] \/ truth'[d] = "same"
       /\ classified /\ ~task.orphan => ~pending'[d] /\ settings'[d] = saved
       /\ ~classified => settings'[d] = settings[d] /\ pending'[d] = pending[d]
  BY <1>6, <1>9 DEF IdentityInv, Identity!TypeOK
<1>11. Identity!TypeOK'
  BY <1>1, <1>4, <1>8, <1>9 DEF IdentityInv, Identity!TypeOK
<1>12. \A e \in Vaults \ {d} : Same(e)
  BY <1>1, <1>4, <1>8, <1>9 DEF Same
<1>13. recovery[d] # None /\ Identity!Authoritative(d)' = Identity!Authoritative(d) /\ Identity!Authoritative(d) = recovery[d]
  BY <1>1, <1>2 DEF Identity!Authoritative, Shaped, Slots
<1> HIDE DEF classified
<1>14. Shaped(d)'
  <2>1. task.orphan \/ loaded[d]
    BY <1>1, <1>2 DEF Shaped, Slots
  <2>2. ~classified => ~Identity!Restricted(Identity!Authoritative(d))
    BY <1>1, <1>2 DEF Shaped, Slots, classified
  <2>3. place = "copyOnly" => ~classified
    BY <1>5
  <2> QED
  BY <1>1, <1>2, <1>3, <1>5, <1>7, <1>8, <1>10, <1>13, <2>1, <2>2, <2>3 DEF Shaped, Slots
<1>15. Listening(d)'
  BY <1>1, <1>2, <1>5, <1>7, <1>8 DEF Listening, Slots
<1>16. Moved(d)'
  BY <1>1, <1>2, <1>3, <1>7, <1>8, <1>10, <1>13 DEF Moved, Slots
<1>17. ASSUME ~strained[d] PROVE OneTask(d)' /\ Serves(d)'
  <2>1. /\ OneTask(d) /\ Serves(d) /\ \A r \in Slots \ {t} : tasks[d][r].at = "idle"
        /\ bridge[d] = None /\ ~task.orphan /\ Agrees(d, saved)
    BY <1>1, <1>2, <1>17 DEF Calm, OneTask, Slots
  <2>2. \A l \in listeners : l.dir # d
    <3>1. listeners \subseteq Identity!Listener
      BY DEF IdentityInv, Identity!TypeOK
    <3> QED
      BY <1>1, <2>1, <3>1, NoneAssumption DEF Serves, Slots
  <2>3. ~pending'[d]
    <3>1. ~classified => ~pending[d]
      BY <1>1, <2>1 DEF OneTask, Slots, classified
    <3> QED
      BY <1>10, <2>1, <3>1
  <2>4. OneTask(d)'
    BY <1>1, <1>5, <1>7, <1>8, <1>10, <1>13, <2>1, <2>3 DEF OneTask, Slots, Agrees
  <2> QED
    BY <1>1, <2>2, <2>4 DEF Serves
<1>18. \A id \in Int : HoldsId(d, id)' => HoldsId(d, id)
  BY <1>1, <1>3, <1>7, <1>8, <1>10, <1>13 DEF HoldsId, Slots
<1>19. Local(d)' /\ OwnPorts' /\ lost' = FALSE /\ nextId' >= nextId
  BY <1>1, <1>14, <1>15, <1>16, <1>17
     DEF Local, Calm, IdentityInv, OwnPorts, Identity!NewerIsKept, Identity!TypeOK
<1> QED
  BY <1>11, <1>12, <1>18, <1>19, StepOf

LEMMA ListenInv ==
  ASSUME IdentityInv, NEW d \in Vaults, NEW t \in Slots, Identity!Listen(d, t)
  PROVE  IdentityInv'
<1> DEFINE task == tasks[d][t]
           s == task.settings
           new == [dir |-> d, task |-> t, vaultId |-> s.vaultId, port |-> s.port]
<1>1. /\ UNCHANGED <<recovery, mirror, loaded, settings, pending, bridge, truth, strained, lost, nextId,
                     loads, writeFaults, copies>>
      /\ task.at = "listen" /\ Identity!Authoritative(d)' = Identity!Authoritative(d)
  BY DEF Identity!Listen, Identity!disk, Identity!memory, Identity!history, Identity!bounds,
     Identity!Authoritative
<1>2. Shaped(d) /\ Listening(d) /\ Moved(d) /\ Calm(d) /\ listeners \subseteq Identity!Listener
  BY DEF IdentityInv, Local, Identity!TypeOK
<1>3. task \in Identity!Task /\ s \in Identity!Settings /\ s # None /\ s.diagnosticPath = d /\ s.vaultId \in 1..MaxIds
      /\ s.port \in Ports
  <2>1. task \in Identity!Task
    BY TaskOfSlot
  <2>2. s \in Identity!Settings /\ s # None /\ s.diagnosticPath = d
    BY <1>1, <1>2, <2>1, TaskFacts DEF Shaped, Slots
  <2> QED
    BY <2>1, <2>2, SettingsFacts, CopyFacts
<1>4. new \in Identity!Listener /\ new.dir = d /\ new.task = t /\ new.vaultId = s.vaultId /\ new.port = s.port
  BY <1>3 DEF Identity!Listener, Slots
<1>5. \/ Identity!Ends(d, t) /\ listeners' = listeners
      \/ /\ \A l \in listeners : l.port # s.port
         /\ listeners' = listeners \cup {new} /\ Identity!Goto(d, t, "started")
  BY DEF Identity!Listen
<1> HIDE DEF new
<1>6. CASE Identity!Ends(d, t) /\ listeners' = listeners
  <2>1. /\ tasks' \in [Vaults -> [1..MaxTasks -> Identity!Task]] /\ tasks'[d][t] = Identity!NoTask
        /\ \A r \in Slots \ {t} : tasks'[d][r] = tasks[d][r]
        /\ \A e \in Vaults \ {d} : tasks'[e] = tasks[e]
    BY <1>6, TaskFacts, SetTaskFacts DEF IdentityInv, Identity!Ends
  <2>2. Identity!TypeOK'
    BY <1>1, <1>6, <2>1 DEF IdentityInv, Identity!TypeOK
  <2>3. \A e \in Vaults \ {d} : Same(e)
    BY <1>1, <1>6, <2>1 DEF Same
  <2>4. Identity!NoTask.at = "idle" /\ Identity!NoTask.settings = None
    BY DEF Identity!NoTask
  <2>5. Shaped(d)' /\ Listening(d)' /\ Moved(d)'
    BY <1>1, <1>2, <1>6, <2>1, <2>4 DEF Shaped, Listening, Moved, Slots
  <2>6. Calm(d)'
    BY <1>1, <1>2, <1>6, <2>1, <2>4 DEF Calm, OneTask, Serves, Agrees, Slots
  <2>7. \A id \in Int : HoldsId(d, id)' => HoldsId(d, id)
    BY <1>1, <2>1, <2>4 DEF HoldsId, Slots
  <2>8. Local(d)' /\ OwnPorts' /\ lost' = FALSE /\ nextId' >= nextId
    BY <1>1, <1>6, <2>5, <2>6
       DEF Local, IdentityInv, OwnPorts, Identity!NewerIsKept, Identity!TypeOK
  <2> QED
    BY <2>2, <2>3, <2>7, <2>8, StepOf
<1>7. CASE /\ \A l \in listeners : l.port # s.port
           /\ listeners' = listeners \cup {new} /\ Identity!Goto(d, t, "started")
  <2> DEFINE next == [task EXCEPT !.at = "started"]
  <2>1. Identity!SetTask(d, t, next)
    BY <1>7 DEF Identity!Goto
  <2>2. /\ next \in Identity!Task /\ next.at = "started" /\ next.settings = s /\ next.orphan = task.orphan
    BY <1>3, TaskFacts DEF Places
  <2> HIDE DEF next
  <2>3. /\ tasks' \in [Vaults -> [1..MaxTasks -> Identity!Task]] /\ tasks'[d][t] = next
        /\ \A r \in Slots \ {t} : tasks'[d][r] = tasks[d][r]
        /\ \A e \in Vaults \ {d} : tasks'[e] = tasks[e]
    BY <2>1, <2>2, SetTaskFacts DEF IdentityInv
  <2>4. Identity!TypeOK'
    BY <1>1, <1>2, <1>4, <1>7, <2>3 DEF IdentityInv, Identity!TypeOK
  <2>5. \A e \in Vaults \ {d} : Same(e)
    BY <1>1, <1>4, <1>7, <2>3 DEF Same
  <2>6. Shaped(d)'
    BY <1>1, <1>2, <1>3, <2>2, <2>3 DEF Shaped, Slots
  <2>7. Listening(d)'
    <3>1. bridge[d] # None => bridge[d] \in listeners' /\ bridge[d].dir = d /\ bridge[d].port # s.port
      BY <1>2, <1>7 DEF Listening
    <3>2. \E l \in listeners' : l.dir = d /\ l.task = t /\ l.port = next.settings.port
      BY <1>4, <1>7, <2>2
    <3>3. ASSUME NEW r \in Slots, tasks'[d][r].at = "started"
          PROVE  /\ \E l \in listeners' : l.dir = d /\ l.task = r /\ l.port = tasks'[d][r].settings.port
                 /\ bridge[d] # None => bridge[d].port # tasks'[d][r].settings.port
      <4>1. CASE r = t
        BY <2>2, <2>3, <3>1, <3>2, <4>1
      <4>2. CASE r # t
        BY <1>2, <1>7, <2>3, <3>3, <4>2 DEF Listening, Slots
      <4> QED
        BY <4>1, <4>2
    <3> QED
      BY <1>1, <3>1, <3>3 DEF Listening, Slots
  <2>8. Moved(d)'
    BY <1>1, <1>2, <1>3, <2>2, <2>3 DEF Moved, Slots
  <2>9. ASSUME ~strained[d] PROVE OneTask(d)' /\ Serves(d)'
    <3>1. /\ OneTask(d) /\ Serves(d) /\ \A r \in Slots \ {t} : tasks[d][r].at = "idle"
          /\ bridge[d] = None /\ ~task.orphan /\ Agrees(d, s) /\ ~pending[d]
      BY <1>1, <1>2, <2>9 DEF Calm, OneTask, Slots
    <3>2. \A l \in listeners : l.dir # d
      BY <1>1, <1>2, <3>1, NoneAssumption DEF Serves, Slots
    <3>3. OneTask(d)'
      BY <1>1, <2>2, <2>3, <3>1 DEF OneTask, Slots, Agrees
    <3>4. Serves(d)'
      BY <1>1, <1>4, <1>7, <2>2, <2>3, <3>2 DEF Serves, Slots
    <3> QED
      BY <3>3, <3>4
  <2>10. \A id \in Int : HoldsId(d, id)' => HoldsId(d, id)
    BY <1>1, <1>3, <2>2, <2>3 DEF HoldsId, Slots
  <2>11. OwnPorts'
    BY <1>4, <1>7 DEF IdentityInv, OwnPorts
  <2>12. Local(d)' /\ lost' = FALSE /\ nextId' >= nextId
    BY <1>1, <2>6, <2>7, <2>8, <2>9
       DEF Local, Calm, IdentityInv, Identity!NewerIsKept, Identity!TypeOK
  <2> QED
    BY <2>4, <2>5, <2>10, <2>11, <2>12, StepOf
<1> QED
  BY <1>5, <1>6, <1>7

LEMMA StartedInv ==
  ASSUME IdentityInv, NEW d \in Vaults, NEW t \in Slots, Identity!Started(d, t)
  PROVE  IdentityInv'
<1> DEFINE task == tasks[d][t]
           s == task.settings
           own == CHOOSE l \in listeners : l.dir = d /\ l.task = t /\ l.port = s.port
<1>1. /\ UNCHANGED <<recovery, mirror, loaded, pending, listeners, truth, strained, lost, nextId,
                     loads, writeFaults, copies>>
      /\ task.at = "started" /\ Identity!Authoritative(d)' = Identity!Authoritative(d) /\ Identity!Ends(d, t)
      /\ IF task.orphan THEN UNCHANGED <<settings, bridge>>
         ELSE settings' = [settings EXCEPT ![d] = s] /\ bridge' = [bridge EXCEPT ![d] = own]
  BY DEF Identity!Started, Identity!disk, Identity!history, Identity!bounds, Identity!Authoritative
<1>2. Shaped(d) /\ Listening(d) /\ Moved(d) /\ Calm(d) /\ listeners \subseteq Identity!Listener
  BY DEF IdentityInv, Local, Identity!TypeOK
<1>3. task \in Identity!Task /\ s \in Identity!Settings /\ s # None /\ s.diagnosticPath = d
  <2>1. task \in Identity!Task
    BY TaskOfSlot
  <2> QED
    BY <1>1, <1>2, <2>1, TaskFacts DEF Shaped, Slots
<1>4. own \in listeners /\ own.dir = d /\ own.task = t /\ own.port = s.port
  BY <1>1, <1>2 DEF Listening, Slots
<1> HIDE DEF own
<1>5. own \in Identity!Listener /\ own # None
  BY <1>2, <1>4, NoneAssumption
<1>6. /\ tasks' \in [Vaults -> [1..MaxTasks -> Identity!Task]] /\ tasks'[d][t] = Identity!NoTask
      /\ \A r \in Slots \ {t} : tasks'[d][r] = tasks[d][r]
      /\ \A e \in Vaults \ {d} : tasks'[e] = tasks[e]
  BY <1>1, TaskFacts, SetTaskFacts DEF IdentityInv, Identity!Ends
<1>7. Identity!NoTask.at = "idle" /\ Identity!NoTask.settings = None
  BY DEF Identity!NoTask
<1>8. /\ settings' \in [Vaults -> Identity!Settings \cup {None}] /\ bridge' \in [Vaults -> Identity!Listener \cup {None}]
      /\ \A e \in Vaults \ {d} : settings'[e] = settings[e] /\ bridge'[e] = bridge[e]
      /\ task.orphan => settings'[d] = settings[d] /\ bridge'[d] = bridge[d]
      /\ ~task.orphan => settings'[d] = s /\ bridge'[d] = own
  BY <1>1, <1>3, <1>5 DEF IdentityInv, Identity!TypeOK
<1>9. Identity!TypeOK'
  BY <1>1, <1>6, <1>8 DEF IdentityInv, Identity!TypeOK
<1>10. \A e \in Vaults \ {d} : Same(e)
  BY <1>1, <1>6, <1>8 DEF Same
<1>11. Shaped(d)'
  <2>1. task.orphan \/ loaded[d]
    BY <1>1, <1>2 DEF Shaped, Slots
  <2> QED
    BY <1>1, <1>2, <1>3, <1>6, <1>7, <1>8, <2>1 DEF Shaped, Slots
<1>12. Listening(d)'
  <2>1. CASE task.orphan
    BY <1>1, <1>2, <1>6, <1>7, <1>8, <2>1 DEF Listening, Slots
  <2>2. CASE ~task.orphan
    <3>1. ASSUME NEW r \in Slots \ {t}, tasks[d][r].at = "started"
          PROVE  own.port # tasks[d][r].settings.port
      <4>1. PICK l \in listeners : l.dir = d /\ l.task = r /\ l.port = tasks[d][r].settings.port
        BY <1>2, <3>1 DEF Listening, Slots
      <4> QED
        BY <1>4, <4>1 DEF IdentityInv, OwnPorts
    <3> QED
      BY <1>1, <1>2, <1>4, <1>6, <1>7, <1>8, <2>2, <3>1 DEF Listening, Slots
  <2> QED
    BY <2>1, <2>2
<1>13. Moved(d)'
  BY <1>1, <1>2, <1>3, <1>6, <1>7, <1>8 DEF Moved, Slots
<1>14. ASSUME ~strained[d] PROVE OneTask(d)' /\ Serves(d)'
  <2>1. /\ OneTask(d) /\ Serves(d) /\ \A r \in Slots \ {t} : tasks[d][r].at = "idle"
        /\ bridge[d] = None /\ ~task.orphan /\ Agrees(d, s) /\ ~pending[d]
    BY <1>1, <1>2, <1>14 DEF Calm, OneTask, Slots
  <2>2. OneTask(d)'
    BY <1>1, <1>6, <1>7, <2>1 DEF OneTask, Slots
  <2>3. ASSUME NEW l \in listeners, l.dir = d
        PROVE  l = own /\ l.vaultId = s.vaultId /\ l.port = s.port
    <3>1. l.vaultId = s.vaultId /\ l.port = s.port
      BY <1>1, <1>2, <2>1, <2>3, NoneAssumption DEF Serves, Slots
    <3> QED
      BY <1>4, <3>1 DEF IdentityInv, OwnPorts
  <2>4. Serves(d)'
    BY <1>1, <1>8, <2>1, <2>3 DEF Serves, Agrees
  <2> QED
    BY <2>2, <2>4
<1>15. \A id \in Int : HoldsId(d, id)' => HoldsId(d, id)
  BY <1>1, <1>3, <1>6, <1>7, <1>8 DEF HoldsId, Slots
<1>16. Local(d)' /\ OwnPorts' /\ lost' = FALSE /\ nextId' >= nextId
  BY <1>1, <1>11, <1>12, <1>13, <1>14
     DEF Local, Calm, IdentityInv, OwnPorts, Identity!NewerIsKept, Identity!TypeOK
<1> QED
  BY <1>9, <1>10, <1>15, <1>16, StepOf

LEMMA SaveChangeSetsInv ==
  ASSUME IdentityInv, NEW d \in Vaults, Identity!SaveChangeSets(d)
  PROVE  IdentityInv'
<1> DEFINE s == [settings[d] EXCEPT !.changeSets = "kept"]
<1>1. /\ UNCHANGED <<loaded, pending, bridge, tasks, listeners, truth, strained, lost, nextId,
                     loads, writeFaults, copies>>
      /\ loaded[d] /\ bridge[d] # None /\ ~Identity!Busy(d)
      /\ settings' = [settings EXCEPT ![d] = s] /\ recovery' = [recovery EXCEPT ![d] = s]
      /\ mirror' = mirror \/ mirror' = [mirror EXCEPT ![d] = s]
  BY DEF Identity!SaveChangeSets, Identity!history, Identity!bounds
<1>2. Shaped(d) /\ Listening(d) /\ Moved(d) /\ Calm(d)
  BY DEF IdentityInv, Local
<1>3. settings[d] \in Identity!Settings /\ settings[d].diagnosticPath = d
  BY <1>1, <1>2 DEF Shaped, IdentityInv, Identity!TypeOK
<1>4. /\ s \in Identity!Settings /\ s \in Identity!Copy /\ s # None /\ s.vaultId = settings[d].vaultId
      /\ s.port = settings[d].port /\ s.diagnosticPath = d
  BY <1>3, SettingsFacts
<1> HIDE DEF s
<1>5. /\ settings' \in [Vaults -> Identity!Settings \cup {None}] /\ settings'[d] = s
      /\ recovery' \in [Vaults -> Identity!Copy \cup {None}] /\ recovery'[d] = s
      /\ mirror' \in [Vaults -> Identity!Copy \cup {None}]
      /\ \A e \in Vaults \ {d} : /\ settings'[e] = settings[e] /\ recovery'[e] = recovery[e]
                               /\ mirror'[e] = mirror[e]
  BY <1>1, <1>4 DEF IdentityInv, Identity!TypeOK
<1>6. Identity!TypeOK'
  BY <1>1, <1>5 DEF IdentityInv, Identity!TypeOK
<1>7. \A e \in Vaults \ {d} : Same(e)
  BY <1>1, <1>5 DEF Same
<1>8. Identity!Authoritative(d)' = s /\ \A t \in Slots : tasks[d][t].at = "idle"
  BY <1>1, <1>4, <1>5 DEF Identity!Authoritative, Identity!Busy, Slots
<1>9. Shaped(d)'
  BY <1>1, <1>2, <1>4, <1>5, <1>8 DEF Shaped, Slots
<1>10. Listening(d)'
  BY <1>1, <1>2 DEF Listening
<1>11. Moved(d)'
  BY <1>1, <1>2, <1>4, <1>5, <1>8 DEF Moved, Shaped, Slots
<1>12. ASSUME ~strained[d] PROVE OneTask(d)' /\ Serves(d)'
  <2>1. OneTask(d) /\ Serves(d)
    BY <1>2, <1>12 DEF Calm
  <2>2. OneTask(d)'
    BY <1>1, <1>8 DEF OneTask, Slots
  <2>3. Serves(d)'
    BY <1>1, <1>4, <1>5, <1>8, <2>1 DEF Serves, Agrees, Slots
  <2> QED
    BY <2>2, <2>3
<1>13. \A id \in Int : HoldsId(d, id)' => HoldsId(d, id)
  BY <1>1, <1>3, <1>4, <1>5, <1>8, SettingsFacts DEF HoldsId, Slots
<1>14. Local(d)' /\ OwnPorts' /\ lost' = FALSE /\ nextId' >= nextId
  BY <1>1, <1>9, <1>10, <1>11, <1>12
     DEF Local, Calm, IdentityInv, OwnPorts, Identity!NewerIsKept, Identity!TypeOK
<1> QED
  BY <1>6, <1>7, <1>13, <1>14, StepOf

LEMMA UnloadInv ==
  ASSUME IdentityInv, NEW d \in Vaults, Identity!Unload(d)
  PROVE  IdentityInv'
<1>1. /\ UNCHANGED <<recovery, mirror, truth, lost, nextId, loads, writeFaults, copies>>
      /\ loaded[d] /\ loaded' = [loaded EXCEPT ![d] = FALSE] /\ listeners' = listeners \ {bridge[d]}
      /\ bridge' = [bridge EXCEPT ![d] = None] /\ settings' = [settings EXCEPT ![d] = None]
      /\ pending' = [pending EXCEPT ![d] = FALSE]
      /\ strained' = [strained EXCEPT ![d] = @ \/ Identity!Busy(d)]
      /\ tasks' = [tasks EXCEPT ![d] = [t \in 1..MaxTasks |->
                 IF @[t].at = "idle" THEN @[t] ELSE [@[t] EXCEPT !.orphan = TRUE]]]
      /\ Identity!Authoritative(d)' = Identity!Authoritative(d)
  BY DEF Identity!Unload, Identity!disk, Identity!bounds, Identity!Authoritative
<1>2. Shaped(d) /\ Listening(d) /\ Moved(d) /\ Calm(d) /\ listeners \subseteq Identity!Listener
  BY DEF IdentityInv, Local, Identity!TypeOK
<1>3. /\ tasks' \in [Vaults -> [1..MaxTasks -> Identity!Task]]
      /\ \A e \in Vaults \ {d} : tasks'[e] = tasks[e]
      /\ \A t \in Slots : /\ tasks'[d][t].at = tasks[d][t].at /\ tasks'[d][t].kind = tasks[d][t].kind
                          /\ tasks'[d][t].settings = tasks[d][t].settings
                          /\ tasks[d][t].at # "idle" => tasks'[d][t].orphan
  <2> DEFINE new == [t \in 1..MaxTasks |-> IF tasks[d][t].at = "idle" THEN tasks[d][t]
                                           ELSE [tasks[d][t] EXCEPT !.orphan = TRUE]]
  <2>1. tasks' = [tasks EXCEPT ![d] = new]
    BY <1>1
  <2>2. tasks[d] \in [1..MaxTasks -> Identity!Task]
    BY DEF IdentityInv, Identity!TypeOK
  <2>3. ASSUME NEW t \in 1..MaxTasks
        PROVE  /\ new[t] \in Identity!Task /\ new[t].at = tasks[d][t].at /\ new[t].kind = tasks[d][t].kind
               /\ new[t].settings = tasks[d][t].settings
               /\ tasks[d][t].at # "idle" => new[t].orphan
    <3>1. tasks[d][t] \in Identity!Task
      BY <2>2
    <3>2. CASE tasks[d][t].at = "idle"
      BY <3>1, <3>2
    <3>3. CASE tasks[d][t].at # "idle"
      <4>1. new[t] = [tasks[d][t] EXCEPT !.orphan = TRUE]
        BY <3>3
      <4>2. [tasks[d][t] EXCEPT !.orphan = TRUE].orphan
        BY <3>1 DEF Identity!Task
      <4> QED
        BY <3>1, <4>1, <4>2, TaskFacts
    <3> QED
      BY <3>2, <3>3
  <2>4. DOMAIN new = 1..MaxTasks /\ new = [t \in 1..MaxTasks |-> new[t]]
    OBVIOUS
  <2> HIDE DEF new
  <2>5. new \in [1..MaxTasks -> Identity!Task]
    BY <2>3, <2>4
  <2> QED
    BY <2>1, <2>3, <2>5 DEF IdentityInv, Identity!TypeOK, Slots
<1>4. /\ loaded' \in [Vaults -> BOOLEAN] /\ pending' \in [Vaults -> BOOLEAN] /\ strained' \in [Vaults -> BOOLEAN]
      /\ settings' \in [Vaults -> Identity!Settings \cup {None}] /\ bridge' \in [Vaults -> Identity!Listener \cup {None}]
      /\ listeners' \subseteq Identity!Listener
      /\ \A e \in Vaults \ {d} : /\ loaded'[e] = loaded[e] /\ pending'[e] = pending[e] /\ strained'[e] = strained[e]
                               /\ settings'[e] = settings[e] /\ bridge'[e] = bridge[e]
      /\ ~loaded'[d] /\ ~pending'[d] /\ settings'[d] = None /\ bridge'[d] = None
      /\ strained'[d] = (strained[d] \/ Identity!Busy(d))
  <2>1. Identity!Busy(d) \in BOOLEAN
    BY DEF Identity!Busy
  <2> QED
    BY <1>1, <1>2, <2>1 DEF IdentityInv, Identity!TypeOK
<1>5. Identity!TypeOK'
  BY <1>1, <1>3, <1>4 DEF IdentityInv, Identity!TypeOK
<1>6. \A l \in Identity!Listener : l.dir # d => (l \in listeners' <=> l \in listeners)
  BY <1>1, <1>2, NoneAssumption DEF Listening
<1>7. \A e \in Vaults \ {d} : Same(e)
  BY <1>1, <1>3, <1>4, <1>6 DEF Same
<1>8. Shaped(d)'
  BY <1>1, <1>2, <1>3, <1>4 DEF Shaped, Slots
<1>9. Listening(d)'
  <2>1. ASSUME NEW t \in Slots, tasks[d][t].at = "started"
        PROVE  \E l \in listeners' : l.dir = d /\ l.task = t /\ l.port = tasks[d][t].settings.port
    BY <1>1, <1>2, <2>1, NoneAssumption DEF Listening, Slots
  <2> QED
    BY <1>3, <1>4, <2>1 DEF Listening, Slots
<1>10. Moved(d)'
  BY <1>1, <1>2, <1>3, <1>4 DEF Moved, Slots
<1>11. ASSUME ~strained'[d] PROVE OneTask(d)' /\ Serves(d)'
  <2>1. Serves(d) /\ \A t \in Slots : tasks[d][t].at = "idle"
    BY <1>2, <1>4, <1>11 DEF Calm, Identity!Busy, Slots
  <2>2. \A l \in listeners' : l.dir # d
    BY <1>1, <2>1 DEF Serves, Slots
  <2> QED
    BY <1>3, <2>1, <2>2 DEF OneTask, Serves, Slots
<1>12. \A id \in Int : HoldsId(d, id)' => HoldsId(d, id)
  BY <1>1, <1>3, <1>4 DEF HoldsId, Slots
<1>13. Local(d)' /\ OwnPorts' /\ lost' = FALSE /\ nextId' >= nextId
  BY <1>1, <1>8, <1>9, <1>10, <1>11
     DEF Local, Calm, IdentityInv, OwnPorts, Identity!NewerIsKept, Identity!TypeOK
<1> QED
  BY <1>5, <1>7, <1>12, <1>13, StepOf

LEMMA CrashInv ==
  ASSUME IdentityInv, NEW d \in Vaults, Identity!Crash(d)
  PROVE  IdentityInv'
<1>1. /\ UNCHANGED <<recovery, mirror, truth, lost, nextId, loads, writeFaults, copies>>
      /\ loaded' = [loaded EXCEPT ![d] = FALSE] /\ listeners' = {l \in listeners : l.dir # d}
      /\ bridge' = [bridge EXCEPT ![d] = None] /\ settings' = [settings EXCEPT ![d] = None]
      /\ pending' = [pending EXCEPT ![d] = FALSE] /\ strained' = [strained EXCEPT ![d] = FALSE]
      /\ tasks' = [tasks EXCEPT ![d] = [t \in 1..MaxTasks |-> Identity!NoTask]]
      /\ Identity!Authoritative(d)' = Identity!Authoritative(d)
  BY DEF Identity!Crash, Identity!disk, Identity!bounds, Identity!Authoritative
<1>2. Moved(d) /\ Identity!NoTask \in Identity!Task
  BY TaskFacts DEF IdentityInv, Local
<1>3. /\ tasks' \in [Vaults -> [1..MaxTasks -> Identity!Task]]
      /\ \A e \in Vaults \ {d} : tasks'[e] = tasks[e]
      /\ \A t \in Slots : tasks'[d][t] = Identity!NoTask
  BY <1>1, <1>2 DEF IdentityInv, Identity!TypeOK, Slots
<1>4. /\ loaded' \in [Vaults -> BOOLEAN] /\ pending' \in [Vaults -> BOOLEAN] /\ strained' \in [Vaults -> BOOLEAN]
      /\ settings' \in [Vaults -> Identity!Settings \cup {None}] /\ bridge' \in [Vaults -> Identity!Listener \cup {None}]
      /\ \A e \in Vaults \ {d} : /\ loaded'[e] = loaded[e] /\ pending'[e] = pending[e] /\ strained'[e] = strained[e]
                               /\ settings'[e] = settings[e] /\ bridge'[e] = bridge[e]
      /\ ~loaded'[d] /\ ~pending'[d] /\ settings'[d] = None /\ bridge'[d] = None
  BY <1>1 DEF IdentityInv, Identity!TypeOK
<1>5. Identity!TypeOK'
  BY <1>1, <1>3, <1>4 DEF IdentityInv, Identity!TypeOK
<1>6. \A e \in Vaults \ {d} : Same(e)
  BY <1>1, <1>3, <1>4 DEF Same
<1>7. Identity!NoTask.at = "idle" /\ Identity!NoTask.settings = None
  BY DEF Identity!NoTask
<1>8. Shaped(d)' /\ Listening(d)' /\ Moved(d)'
  BY <1>1, <1>2, <1>3, <1>4, <1>7 DEF Shaped, Listening, Moved, Slots
<1>9. OneTask(d)' /\ Serves(d)'
  BY <1>1, <1>3, <1>7 DEF OneTask, Serves, Slots
<1>10. \A id \in Int : HoldsId(d, id)' => HoldsId(d, id)
  BY <1>1, <1>3, <1>4, <1>7 DEF HoldsId, Slots
<1>11. Local(d)' /\ OwnPorts' /\ lost' = FALSE /\ nextId' >= nextId
  BY <1>1, <1>8, <1>9 DEF Local, Calm, IdentityInv, OwnPorts, Identity!NewerIsKept, Identity!TypeOK
<1> QED
  BY <1>5, <1>6, <1>10, <1>11, StepOf

\* A directory that nothing runs in and that holds no state.
LEMMA EmptyFacts ==
  ASSUME IdentityInv, NEW e \in Vaults, ~loaded[e], ~Identity!Busy(e)
  PROVE  /\ settings[e] = None /\ bridge[e] = None /\ ~pending[e]
         /\ \A t \in Slots : tasks[e][t].at = "idle" /\ tasks[e][t].settings = None
         /\ ~strained[e] => \A l \in listeners : l.dir # e
<1>1. Shaped(e) /\ Calm(e) /\ listeners \subseteq Identity!Listener
  BY DEF IdentityInv, Local, Identity!TypeOK
<1>2. /\ settings[e] = None /\ bridge[e] = None /\ ~pending[e]
      /\ \A t \in Slots : tasks[e][t].at = "idle" /\ tasks[e][t].settings = None
  BY <1>1 DEF Shaped, Identity!Busy, Slots
<1> QED
  BY <1>1, <1>2, NoneAssumption DEF Calm, Serves, Slots

\* A directory that is brought a state, or loses it, and has nothing running.
LEMMA CarriedInv ==
  ASSUME IdentityInv, NEW e \in Vaults, ~loaded[e], ~Identity!Busy(e),
         UNCHANGED <<loaded, settings, pending, bridge, tasks, listeners, strained>>,
         \/ Identity!Authoritative(e)' = None /\ truth'[e] # "move"
         \/ Identity!Authoritative(e)' # None /\ Identity!Authoritative(e)'.diagnosticPath # e
  PROVE  /\ Local(e)'
         /\ \A id : HoldsId(e, id)' => truth'[e] = "move" /\ id = Identity!Authoritative(e)'.vaultId
<1>1. /\ settings[e] = None /\ bridge[e] = None /\ ~pending[e]
      /\ \A t \in Slots : tasks[e][t].at = "idle" /\ tasks[e][t].settings = None
      /\ ~strained[e] => \A l \in listeners : l.dir # e
  BY EmptyFacts
<1>2. Shaped(e)' /\ Listening(e)' /\ Moved(e)'
  BY <1>1 DEF Shaped, Listening, Moved, Slots
<1>3. Calm(e)'
  BY <1>1 DEF Calm, OneTask, Serves, Slots
<1>4. \A id : HoldsId(e, id)' => truth'[e] = "move" /\ id = Identity!Authoritative(e)'.vaultId
  BY <1>1 DEF HoldsId, Slots
<1> QED
  BY <1>2, <1>3, <1>4 DEF Local

LEMMA CopyDirectoryInv ==
  ASSUME IdentityInv, NEW d \in Vaults, NEW e \in Vaults, Identity!CopyDirectory(d, e)
  PROVE  IdentityInv'
<1>1. /\ UNCHANGED <<loaded, settings, pending, bridge, tasks, listeners, strained, lost, nextId, loads, writeFaults>>
      /\ d # e /\ copies < MaxCopies /\ copies' = copies + 1
      /\ Identity!Authoritative(d) # None /\ Identity!Authoritative(d).diagnosticPath = d
      /\ ~loaded[e] /\ ~Identity!Busy(e)
      /\ recovery' = [recovery EXCEPT ![e] = recovery[d]]
      /\ mirror' = [mirror EXCEPT ![e] = mirror[d]] /\ truth' = [truth EXCEPT ![e] = "copy"]
  BY DEF Identity!CopyDirectory, Identity!memory, Identity!Settled, Identity!PathChanged
<1>2. /\ recovery' \in [Vaults -> Identity!Copy \cup {None}] /\ mirror' \in [Vaults -> Identity!Copy \cup {None}]
      /\ truth' \in [Vaults -> {"same", "move", "copy"}] /\ truth'[e] = "copy"
      /\ \A f \in Vaults \ {e} : /\ recovery'[f] = recovery[f] /\ mirror'[f] = mirror[f]
                               /\ truth'[f] = truth[f]
      /\ Identity!Authoritative(e)' = Identity!Authoritative(d)
  BY <1>1 DEF IdentityInv, Identity!TypeOK, Identity!Authoritative
<1>3. copies' \in 0..MaxCopies
  <2>1. MaxCopies \in Nat
    BY VaultAssumption
  <2> QED
    BY <1>1, <2>1 DEF IdentityInv, Identity!TypeOK
<1>4. Identity!TypeOK'
  BY <1>1, <1>2, <1>3 DEF IdentityInv, Identity!TypeOK
<1>5. \A f \in Vaults \ {e} : Same(f)
  BY <1>1, <1>2 DEF Same
<1>6. Local(e)' /\ \A id : ~HoldsId(e, id)'
  BY <1>1, <1>2, CarriedInv
<1>7. OwnPorts' /\ lost' = FALSE /\ nextId' >= nextId
  BY <1>1 DEF IdentityInv, OwnPorts, Identity!NewerIsKept, Identity!TypeOK
<1> QED
  BY <1>4, <1>5, <1>6, <1>7, StepOf

LEMMA MoveDirectoryInv ==
  ASSUME IdentityInv, NEW d \in Vaults, NEW e \in Vaults, Identity!MoveDirectory(d, e)
  PROVE  IdentityInv'
<1>1. /\ UNCHANGED <<loaded, settings, pending, bridge, tasks, listeners, strained, lost, nextId, loads, writeFaults>>
      /\ d # e /\ copies < MaxCopies /\ copies' = copies + 1
      /\ Identity!Authoritative(d) # None /\ Identity!Authoritative(d).diagnosticPath = d
      /\ ~loaded[d] /\ ~Identity!Busy(d) /\ ~loaded[e] /\ ~Identity!Busy(e)
      /\ recovery' = [recovery EXCEPT ![e] = recovery[d], ![d] = None]
      /\ mirror' = [mirror EXCEPT ![e] = mirror[d], ![d] = None]
      /\ truth' = [truth EXCEPT ![e] = "move", ![d] = "same"]
  BY DEF Identity!MoveDirectory, Identity!memory, Identity!Settled, Identity!PathChanged
<1>2. /\ recovery' \in [Vaults -> Identity!Copy \cup {None}] /\ mirror' \in [Vaults -> Identity!Copy \cup {None}]
      /\ truth' \in [Vaults -> {"same", "move", "copy"}] /\ truth'[e] = "move" /\ truth'[d] = "same"
      /\ \A f \in Vaults \ {d, e} : /\ recovery'[f] = recovery[f] /\ mirror'[f] = mirror[f]
                                  /\ truth'[f] = truth[f]
      /\ Identity!Authoritative(e)' = Identity!Authoritative(d) /\ Identity!Authoritative(d)' = None
  BY <1>1 DEF IdentityInv, Identity!TypeOK, Identity!Authoritative
<1>3. copies' \in 0..MaxCopies
  <2>1. MaxCopies \in Nat
    BY VaultAssumption
  <2> QED
    BY <1>1, <2>1 DEF IdentityInv, Identity!TypeOK
<1>4. Identity!TypeOK'
  BY <1>1, <1>2, <1>3 DEF IdentityInv, Identity!TypeOK
<1>5. \A f \in Vaults \ {d, e} : Same(f)
  BY <1>1, <1>2 DEF Same
<1>6. Local(d)' /\ \A id : ~HoldsId(d, id)'
  BY <1>1, <1>2, CarriedInv
<1>7. Local(e)' /\ \A id : HoldsId(e, id)' => HoldsId(d, id)
  <2>1. Local(e)' /\ \A id : HoldsId(e, id)' => id = Identity!Authoritative(d).vaultId
    BY <1>1, <1>2, CarriedInv
  <2> QED
    BY <1>1, <2>1 DEF HoldsId
<1>8. listeners \subseteq Identity!Listener /\ listeners' \subseteq Identity!Listener /\ nextId' = nextId
  BY <1>1, <1>4 DEF IdentityInv, Identity!TypeOK
<1>9. \A f \in Vaults \ {d, e} : Local(f)' /\ \A id : HoldsId(f, id)' <=> HoldsId(f, id)
  BY <1>5, <1>8, Elsewhere DEF IdentityInv
<1>10. \A f \in Vaults : Local(f)'
  BY <1>6, <1>7, <1>9
<1>11. \A f \in Vaults, id \in Int : HoldsId(f, id)' => id < nextId'
  BY <1>6, <1>7, <1>8, <1>9 DEF IdentityInv, IdsOwned
<1>12. ASSUME NEW f \in Vaults, NEW g \in Vaults, NEW id \in Int, HoldsId(f, id)', HoldsId(g, id)'
       PROVE  f = g
  <2>1. f # d /\ g # d
    BY <1>6, <1>12
  <2>2. HoldsId(IF f = e THEN d ELSE f, id) /\ HoldsId(IF g = e THEN d ELSE g, id)
    BY <1>7, <1>9, <1>12, <2>1
  <2> QED
    BY <2>1, <2>2 DEF IdentityInv, IdsOwned
<1>13. OwnPorts' /\ Identity!NewerIsKept'
  BY <1>1 DEF IdentityInv, OwnPorts, Identity!NewerIsKept
<1> QED
  BY <1>4, <1>10, <1>11, <1>12, <1>13 DEF IdentityInv, IdsOwned

LEMMA StutterInv == IdentityInv /\ UNCHANGED identityVars => IdentityInv'
<1> SUFFICES ASSUME IdentityInv, UNCHANGED identityVars PROVE IdentityInv'
  OBVIOUS
<1>1. UNCHANGED <<recovery, mirror, loaded, settings, pending, bridge, tasks, listeners, truth, strained, lost,
                  nextId, loads, writeFaults, copies>>
  BY DEF identityVars, Identity!disk, Identity!memory, Identity!history, Identity!bounds
<1>2. \A d \in Vaults : Same(d)
  BY <1>1 DEF Same
<1>3. Identity!TypeOK'
  BY <1>1 DEF IdentityInv, Identity!TypeOK
<1>4. \A d \in Vaults : Local(d)' /\ \A id : HoldsId(d, id)' <=> HoldsId(d, id)
  BY <1>2, <1>3, Elsewhere DEF IdentityInv, Identity!TypeOK
<1> QED
  BY <1>1, <1>3, <1>4 DEF IdentityInv, OwnPorts, IdsOwned, Identity!NewerIsKept

LEMMA IdentityNext == IdentityInv /\ [Identity!Next]_identityVars => IdentityInv'
<1> SUFFICES ASSUME IdentityInv, [Identity!Next]_identityVars PROVE IdentityInv'
  OBVIOUS
<1>1. ASSUME NEW d \in Vaults, NEW t \in Slots,
             Identity!Onload(d, t) \/ Identity!Load(d, t) \/ Identity!Classify(d, t) \/ Identity!SaveRecovery(d, t)
               \/ Identity!SaveMirror(d, t) \/ Identity!Listen(d, t) \/ Identity!Started(d, t)
      PROVE  IdentityInv'
  BY <1>1, OnloadInv, LoadInv, ClassifyInv, SaveRecoveryInv, SaveMirrorInv, ListenInv, StartedInv
<1>2. ASSUME NEW d \in Vaults, Identity!SaveChangeSets(d) \/ Identity!Unload(d) \/ Identity!Crash(d)
      PROVE IdentityInv'
  BY <1>2, SaveChangeSetsInv, UnloadInv, CrashInv
<1>3. ASSUME NEW d \in Vaults, NEW e \in Vaults, Identity!CopyDirectory(d, e) \/ Identity!MoveDirectory(d, e)
      PROVE IdentityInv'
  BY <1>3, CopyDirectoryInv, MoveDirectoryInv
<1> QED
  BY <1>1, <1>2, <1>3, StutterInv, Zenon DEF Identity!Next, Slots

LEMMA IdentityConsequence == IdentityInv => Identity!IdentityIsKept
<1> SUFFICES ASSUME IdentityInv PROVE Identity!ServedIsStored /\ Identity!IdentitiesAreUnique /\ Identity!ServedOnce
  BY DEF IdentityInv, Identity!IdentityIsKept
<1>1. listeners \subseteq Identity!Listener /\ \A l \in listeners : l.dir \in Vaults /\ l # None
  BY NoneAssumption DEF IdentityInv, Identity!TypeOK, Identity!Listener
<1>2. \A d \in Vaults : ~strained[d] => OneTask(d) /\ Serves(d)
  BY DEF IdentityInv, Local, Calm
<1>3. Identity!ServedIsStored
  <2> SUFFICES ASSUME NEW l \in listeners, ~strained[l.dir]
               PROVE  /\ Identity!Authoritative(l.dir) # None /\ Identity!Authoritative(l.dir).vaultId = l.vaultId
                      /\ Identity!Authoritative(l.dir).port = l.port /\ Identity!Authoritative(l.dir).diagnosticPath = l.dir
    BY DEF Identity!ServedIsStored
  <2>1. OneTask(l.dir) /\ Serves(l.dir)
    BY <1>1, <1>2
  <2> QED
    BY <2>1 DEF OneTask, Serves, Agrees
<1>4. Identity!IdentitiesAreUnique
  <2> SUFFICES ASSUME NEW d \in Vaults, NEW e \in Vaults, d # e, Identity!Settled(d), Identity!Settled(e),
                      Identity!Authoritative(d).vaultId = Identity!Authoritative(e).vaultId
               PROVE  FALSE
    BY DEF Identity!IdentitiesAreUnique
  <2>1. Identity!Authoritative(d) \in Identity!Copy
    BY DEF Identity!Settled, Identity!Authoritative, IdentityInv, Identity!TypeOK
  <2>2. Identity!Authoritative(d).vaultId \in Int
    BY <2>1, CopyFacts, VaultAssumption
  <2>3. HoldsId(d, Identity!Authoritative(d).vaultId) /\ HoldsId(e, Identity!Authoritative(d).vaultId)
    BY DEF Identity!Settled, Identity!PathChanged, HoldsId
  <2> QED
    BY <2>2, <2>3 DEF IdentityInv, IdsOwned
<1>5. Identity!ServedOnce
  <2> SUFFICES ASSUME NEW l \in listeners, NEW m \in listeners, l.dir = m.dir, ~strained[l.dir]
               PROVE  l = m
    BY DEF Identity!ServedOnce
  <2>1. OneTask(l.dir) /\ Serves(l.dir)
    BY <1>1, <1>2
  <2>2. CASE l = bridge[l.dir] \/ m = bridge[l.dir]
    BY <1>1, <2>1, <2>2 DEF OneTask, Serves
  <2>3. CASE l # bridge[l.dir] /\ m # bridge[l.dir]
    <3>1. l.port = m.port
      BY <2>1, <2>3 DEF OneTask, Serves
    <3> QED
      BY <3>1 DEF IdentityInv, OwnPorts
  <2> QED
    BY <2>2, <2>3
<1> QED
  BY <1>3, <1>4, <1>5

-----------------------------------------------------------------------------
\* What stop() has done: the listener is not set, and what was registered then
\* is either still being closed or closed.
Stopping ==
  /\ listening <=> shutdown = "none"
  /\ ~listening => sessions = {}
  /\ shutdown = "none" => active = {}

\* A session stands on an initialize that was answered, and a request that is
\* handled belongs to one.
SessionsStand ==
  /\ \A r \in sessions \cup active : at[r] = "answered"
  /\ \A r \in Requests : session[r] # None => at[session[r]] = "answered"
  /\ \A r \in Requests : at[r] = "handling" => session[r] # None

\* Every open server is still to be registered, or somebody will close it, but
\* for those whose initialize failed.
ServersOwned ==
  \A r \in Requests :
    /\ at[r] \in {"connecting", "creating"} => server[r] = "open"
    /\ server[r] = "open" =>
         at[r] \in {"connecting", "creating", "failed"} \/ r \in sessions \cup active

\* The connections have ended before the Bridge is stopped, and none begins.
ConnectionsEnded == shutdown = "stopped" => \A r \in Requests : at[r] \in Sessions!Finished \cup {"new"}

SessionsInv == Sessions!TypeOK /\ Stopping /\ SessionsStand /\ ServersOwned /\ Sessions!RegisteredIsOpen /\ ConnectionsEnded

-----------------------------------------------------------------------------
LEMMA SessionsInit == Sessions!Init => SessionsInv
BY DEF Sessions!Init, SessionsInv, Sessions!TypeOK, Sessions!Stages, Stopping, SessionsStand,
   ServersOwned, Sessions!RegisteredIsOpen, ConnectionsEnded

\* A request on its way to its session: nothing but its place changes.
LEMMA ApproachInv ==
  ASSUME SessionsInv, NEW r \in Requests, Sessions!Arrive(r) \/ Sessions!Admit(r) \/ Sessions!Authenticated(r)
  PROVE  SessionsInv'
<1> USE DEF SessionsInv
<1>1. PICK stage \in {"policy", "authenticating", "body", "rejected"} :
        at' = [at EXCEPT ![r] = stage] /\ at[r] \in {"new", "policy", "authenticating"}
  BY DEF Sessions!Arrive, Sessions!Admit, Sessions!Authenticated, Sessions!Goto
<1>2. UNCHANGED <<listening, shutdown, active, server, sessions, held>>
  BY DEF Sessions!Arrive, Sessions!Admit, Sessions!Authenticated
<1>3. header' \in [Requests -> Requests \cup {None}]
  BY DEF Sessions!Arrive, Sessions!Admit, Sessions!Authenticated, Sessions!TypeOK
<1>4. /\ session' \in [Requests -> Requests \cup {None}]
      /\ \A q \in Requests : session'[q] = session[q] \/ session'[q] \in sessions \cup {None}
  BY DEF Sessions!Arrive, Sessions!Admit, Sessions!Authenticated, Sessions!TypeOK
<1>5. at[r] = "new" => shutdown # "stopped"
  BY DEF Sessions!Arrive, Sessions!Admit, Sessions!Authenticated
<1>6. Sessions!TypeOK'
  BY <1>1, <1>2, <1>3, <1>4 DEF Sessions!TypeOK, Sessions!Stages
<1>7. Stopping'
  BY <1>2 DEF Stopping
<1>8. SessionsStand'
  <2>1. \A q \in Requests : at[q] = "answered" => at'[q] = "answered"
    BY <1>1 DEF Sessions!TypeOK
  <2>2. \A q \in sessions' \cup active' : at'[q] = "answered"
    BY <1>2, <2>1 DEF SessionsStand, Sessions!TypeOK
  <2>3. ASSUME NEW q \in Requests, session'[q] # None PROVE at'[session'[q]] = "answered"
    <3>1. CASE session'[q] = session[q]
      BY <2>1, <2>3, <3>1 DEF SessionsStand, Sessions!TypeOK
    <3>2. CASE session'[q] \in sessions
      BY <2>1, <3>2 DEF SessionsStand, Sessions!TypeOK
    <3> QED
      BY <1>4, <2>3, <3>1, <3>2
  <2>4. ASSUME NEW q \in Requests, at'[q] = "handling" PROVE session'[q] # None
    <3>1. at[q] = "handling" /\ q # r
      BY <1>1, <2>4 DEF Sessions!TypeOK
    <3>2. session'[q] = session[q]
      BY <3>1 DEF Sessions!Arrive, Sessions!Admit, Sessions!Authenticated, Sessions!TypeOK
    <3> QED
      BY <3>1, <3>2 DEF SessionsStand
  <2> QED
    BY <2>2, <2>3, <2>4 DEF SessionsStand
<1>9. ServersOwned'
  BY <1>1, <1>2 DEF ServersOwned, SessionsStand, Sessions!TypeOK
<1>10. Sessions!RegisteredIsOpen'
  BY <1>2 DEF Sessions!RegisteredIsOpen
<1>11. ConnectionsEnded'
  BY <1>1, <1>2, <1>5 DEF ConnectionsEnded, Sessions!Finished, Stopping
<1> QED
  BY <1>6, <1>7, <1>8, <1>9, <1>10, <1>11

\* An initialize on its way to its session, or a body that leads to none.
LEMMA CreateInv ==
  ASSUME SessionsInv, NEW r \in Requests, Sessions!BodyRead(r) \/ Sessions!Connected(r) \/ Sessions!SessionCreated(r)
  PROVE  SessionsInv'
<1> USE DEF SessionsInv
<1> DEFINE stage == at'[r]
<1>1. /\ at' = [at EXCEPT ![r] = stage] /\ at[r] \in {"body", "connecting", "creating"}
      /\ stage \in {"rejected", "handling", "connecting", "creating", "answered", "failed"}
  BY DEF Sessions!BodyRead, Sessions!Connected, Sessions!SessionCreated, Sessions!Goto,
     Sessions!TypeOK
<1>2. /\ stage = "handling" => session[r] # None
      /\ stage \in {"connecting", "creating"} => server'[r] = "open"
      /\ server'[r] = "open" => stage \in {"connecting", "creating", "failed"} \/ r \in sessions'
      /\ \/ sessions' = sessions
         \/ sessions' = sessions \cup {r} /\ listening /\ stage = "answered" /\ server[r] = "open"
  <2>1. CASE Sessions!BodyRead(r)
    BY <2>1 DEF Sessions!BodyRead, Sessions!Goto, ServersOwned, SessionsStand, Sessions!TypeOK
  <2>2. CASE Sessions!Connected(r)
    BY <2>2 DEF Sessions!Connected, Sessions!Goto, Sessions!Close, ServersOwned, Sessions!TypeOK
  <2>3. CASE Sessions!SessionCreated(r)
    BY <2>3 DEF Sessions!SessionCreated, Sessions!Goto, Sessions!Close, Sessions!Registers,
       ServersOwned, Sessions!TypeOK
  <2> QED
    BY <2>1, <2>2, <2>3
<1>3. UNCHANGED <<listening, shutdown, active, header, session, held>>
  BY DEF Sessions!BodyRead, Sessions!Connected, Sessions!SessionCreated
<1>4. /\ server' \in [Requests -> {"none", "open", "closed"}]
      /\ \A q \in Requests \ {r} : server'[q] = server[q]
      /\ r \in sessions' => server'[r] = server[r]
  BY DEF Sessions!BodyRead, Sessions!Connected, Sessions!SessionCreated, Sessions!Close,
     Sessions!TypeOK, SessionsStand, Sessions!Registers
<1>5. r \notin sessions \cup active
  BY <1>1 DEF SessionsStand
<1>6. Sessions!TypeOK'
  BY <1>1, <1>2, <1>3, <1>4 DEF Sessions!TypeOK, Sessions!Stages
<1>7. Stopping'
  BY <1>2, <1>3 DEF Stopping
<1>8. SessionsStand'
  BY <1>1, <1>2, <1>3 DEF SessionsStand, Sessions!TypeOK
<1>9. ServersOwned'
  BY <1>1, <1>2, <1>3, <1>4, <1>5 DEF ServersOwned, Sessions!TypeOK
<1>10. Sessions!RegisteredIsOpen'
  BY <1>2, <1>4, <1>5 DEF Sessions!RegisteredIsOpen, Sessions!TypeOK
<1>11. ConnectionsEnded'
  BY <1>1, <1>3 DEF ConnectionsEnded, Sessions!Finished
<1> QED
  BY <1>6, <1>7, <1>8, <1>9, <1>10, <1>11

\* A request of a session, which may close it.
LEMMA HandleInv ==
  ASSUME SessionsInv, NEW r \in Requests, Sessions!SessionHandles(r)
  PROVE  SessionsInv'
<1> USE DEF SessionsInv, Sessions!SessionHandles, Sessions!Goto
<1> DEFINE id == session[r]
<1>1. id \in Requests /\ at[id] = "answered" /\ at[r] = "handling"
  BY DEF SessionsStand, Sessions!TypeOK
<1>2. /\ sessions' \in {sessions, sessions \ {id}}
      /\ server' \in [Requests -> {"none", "open", "closed"}]
      /\ \A q \in Requests : \/ server'[q] = server[q] /\ (q \in sessions' <=> q \in sessions)
                             \/ q = id /\ server'[q] = "closed" /\ q \notin sessions'
      /\ held' \subseteq Requests
  BY <1>1 DEF Sessions!Close, Sessions!ReleaseSession, Sessions!TypeOK
<1>3. server[r] # "open"
  BY <1>1 DEF ServersOwned, SessionsStand
<1>4. Sessions!TypeOK'
  BY <1>2 DEF Sessions!TypeOK, Sessions!Stages
<1>5. Stopping'
  BY <1>2 DEF Stopping
<1>6. SessionsStand'
  BY <1>1, <1>2 DEF SessionsStand, Sessions!TypeOK
<1>7. ServersOwned'
  BY <1>1, <1>2, <1>3 DEF ServersOwned, Sessions!TypeOK
<1>8. Sessions!RegisteredIsOpen'
  BY <1>2 DEF Sessions!RegisteredIsOpen, Sessions!TypeOK
<1>9. ConnectionsEnded'
  BY <1>1 DEF ConnectionsEnded, Sessions!Finished
<1> QED
  BY <1>4, <1>5, <1>6, <1>7, <1>8, <1>9

\* What is awaited throws: the request ends where it is.
LEMMA ThrowsInv ==
  ASSUME SessionsInv, NEW r \in Requests, Sessions!Throws(r)
  PROVE  SessionsInv'
<1> USE DEF SessionsInv, Sessions!Throws, Sessions!Goto
<1>1. Sessions!TypeOK' /\ Stopping' /\ SessionsStand'
  BY DEF Sessions!TypeOK, Sessions!Stages, Stopping, SessionsStand
<1>2. ServersOwned'
  BY DEF Sessions!TypeOK, ServersOwned
<1>3. Sessions!RegisteredIsOpen' /\ ConnectionsEnded'
  BY DEF Sessions!TypeOK, Sessions!RegisteredIsOpen, ConnectionsEnded, Sessions!Finished
<1> QED
  BY <1>1, <1>2, <1>3

\* stop() itself.
LEMMA StopInv ==
  ASSUME SessionsInv, Sessions!Stop \/ Sessions!SessionsClosed \/ Sessions!ListenerClosed
  PROVE  SessionsInv'
<1> USE DEF SessionsInv
<1>1. CASE Sessions!Stop
  BY <1>1 DEF Sessions!Stop, Sessions!ReleaseSession, Sessions!TypeOK, Stopping, SessionsStand,
     ServersOwned, Sessions!RegisteredIsOpen, ConnectionsEnded
<1>2. CASE Sessions!SessionsClosed
  <2> USE <1>2 DEF Sessions!SessionsClosed
  <2>1. sessions = {} /\ sessions' = {}
    BY DEF Stopping
  <2>2. /\ active' \subseteq active
        /\ \A q \in Requests : IF q \in active \ active' THEN server'[q] = "closed"
                               ELSE server'[q] = server[q]
    BY DEF Sessions!Close
  <2>3. Sessions!TypeOK'
    BY <2>1, <2>2 DEF Sessions!TypeOK, Sessions!Close
  <2>4. Stopping' /\ SessionsStand' /\ Sessions!RegisteredIsOpen' /\ ConnectionsEnded'
    BY <2>1, <2>2 DEF Stopping, SessionsStand, Sessions!RegisteredIsOpen, ConnectionsEnded
  <2>5. ServersOwned'
    BY <2>1, <2>2 DEF ServersOwned, SessionsStand
  <2> QED
    BY <2>3, <2>4, <2>5
<1>3. CASE Sessions!ListenerClosed
  BY <1>3 DEF Sessions!ListenerClosed, Sessions!TypeOK, Stopping, SessionsStand, ServersOwned,
     Sessions!RegisteredIsOpen, ConnectionsEnded
<1> QED
  BY <1>1, <1>2, <1>3

LEMMA SessionsNext == SessionsInv /\ [Sessions!Next]_sessionVars => SessionsInv'
<1> SUFFICES ASSUME SessionsInv, [Sessions!Next]_sessionVars PROVE SessionsInv'
  OBVIOUS
<1>1. CASE UNCHANGED sessionVars
  BY <1>1 DEF sessionVars, SessionsInv, Sessions!TypeOK, Stopping, SessionsStand, ServersOwned,
     Sessions!RegisteredIsOpen, ConnectionsEnded
<1>2. ASSUME NEW r \in Requests, Sessions!Arrive(r) \/ Sessions!Admit(r) \/ Sessions!Authenticated(r)
      PROVE SessionsInv'
  BY <1>2, ApproachInv
<1>3. ASSUME NEW r \in Requests, Sessions!BodyRead(r) \/ Sessions!Connected(r) \/ Sessions!SessionCreated(r)
      PROVE SessionsInv'
  BY <1>3, CreateInv
<1>4. ASSUME NEW r \in Requests, Sessions!SessionHandles(r) PROVE SessionsInv'
  BY <1>4, HandleInv
<1>5. ASSUME NEW r \in Requests, Sessions!Throws(r) PROVE SessionsInv'
  BY <1>5, ThrowsInv
<1>6. CASE Sessions!Stop \/ Sessions!SessionsClosed \/ Sessions!ListenerClosed
  BY <1>6, StopInv
<1> QED
  BY <1>1, <1>2, <1>3, <1>4, <1>5, <1>6 DEF Sessions!Next

LEMMA SessionsConsequence == SessionsInv => Sessions!SessionsEndWithStop
<1> SUFFICES ASSUME SessionsInv PROVE Sessions!StoppedIsClosed
  BY DEF SessionsInv, Sessions!SessionsEndWithStop
<1> QED
  BY DEF SessionsInv, Sessions!StoppedIsClosed, Stopping, ServersOwned, ConnectionsEnded, Sessions!Finished

-----------------------------------------------------------------------------
\* A step of the Managed Vault is one of the runtime's, or leaves it alone.
LEMMA IdentityStep == VaultSpec => Identity!Init /\ [][Identity!Next]_identityVars
<1>1. VaultInit => Identity!Init
  BY DEF VaultInit
<1>2. [VaultNext]_allVars => [Identity!Next]_identityVars
  BY DEF VaultNext, allVars
<1> QED
  BY <1>1, <1>2, PTL DEF VaultSpec

LEMMA SessionsStep == VaultSpec => Sessions!Init /\ [][Sessions!Next]_sessionVars
<1>1. VaultInit => Sessions!Init
  BY DEF VaultInit
<1>2. [VaultNext]_allVars => [Sessions!Next]_sessionVars
  BY DEF VaultNext, allVars
<1> QED
  BY <1>1, <1>2, PTL DEF VaultSpec

\* Whatever loads, copies, moves, saves, failed writes and crashes there were
\* (bridge-instance.ts and settings-persistence.ts, the plugin's load and its
\* queued saves), a Bridge that no failed write left behind serves the identity
\* a restart would read, no two settled directories hold the same vault id, no
\* directory is served twice, and a load never lost a newer state.
THEOREM IdentityIsKeptHolds == VaultSpec => []IdentityIsKept
<1>1. VaultSpec => []IdentityInv
  BY IdentityStep, IdentityInit, IdentityNext, PTL
<1>2. IdentityInv => IdentityIsKept
  BY IdentityConsequence DEF IdentityIsKept
<1> QED
  BY <1>1, <1>2, PTL

\* Wherever stop() meets the requests - at the authenticator, the body, the
\* connection of a new server or the transport (bridge-instance.ts, handleRequest
\* and stop) - a stopped Bridge has no session and no server left open but one
\* whose initialize was refused and one that would not close, and no registered session ever lost its server.
THEOREM SessionsEndWithStopHolds == VaultSpec => []SessionsEndWithStop
<1>1. VaultSpec => []SessionsInv
  BY SessionsStep, SessionsInit, SessionsNext, PTL
<1>2. SessionsInv => SessionsEndWithStop
  BY SessionsConsequence DEF SessionsEndWithStop
<1> QED
  BY <1>1, <1>2, PTL
=============================================================================
