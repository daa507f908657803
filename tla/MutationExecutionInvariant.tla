-------------------- MODULE MutationExecutionInvariant --------------------
(***************************************************************************)
(* What is so at every point of an execution, between any two of its steps *)
(* and after any crash: of the plan that lies ahead (its steps, and their  *)
(* order), of the disk and of the journal; and, while nobody else writes   *)
(* where the request does, that whatever an execution left can be undone.  *)
(***************************************************************************)
EXTENDS MutationExecution

-----------------------------------------------------------------------------
(* Sequences of steps, and every step there is.                            *)

\* No step of B comes after one of A; a step of A is followed, sooner or later,
\* by one of B; at once; a step of A comes right after one of B.
Never(U, A, B) ==
  {s \in Seq(U) : \A i, j \in DOMAIN s : i < j /\ s[i] \in A => s[j] \notin B}
Leads(U, A, B) ==
  {s \in Seq(U) : \A i \in DOMAIN s : s[i] \in A => \E j \in DOMAIN s : i < j /\ s[j] \in B}
Adjacent(U, A, B) ==
  {s \in Seq(U) : \A i \in DOMAIN s : s[i] \in A => i + 1 \in DOMAIN s /\ s[i + 1] \in B}
Preceded(U, A, B) ==
  {s \in Seq(U) : \A i \in DOMAIN s : i - 1 \in DOMAIN s /\ s[i] \in A => s[i - 1] \in B}

\* Every host operation that a plan can have.
Step ==
  {<<"save">>, <<"refuse">>} \cup {"discard"} \X Stages \cup {"drop"} \X Operations
  \cup {"prepare", "prepare-back"} \X Stages \X Known
  \cup {"publish", "publish-back"} \X Stages \X Files
  \cup {"prepare-directory", "publish-directory", "remove-directory"} \X Directories
  \cup {"unlink"} \X Files \cup {"link"} \X Files \X Files
  \cup {"hide", "unhide"} \X Files \X Operations \cup {"undo-copy"} \X Files \X Known
  \cup {"journal"} \X (SUBSET Paths) \cup {"compare"} \X Paths \X Places

\* There is a frozen preview, and the request is not decided.
Accepted == pc \notin {"submit", "done"}
\* What can be staged for a restore, and what can be staged.
Restaged == {p \in Staged : pre[p] # Absent} \cup {i \in Operations : SelfReferring}
Stageable == Staged \cup {i \in Operations : request[i].kind = "copy" \/ SelfReferring}

\* The steps of an execution, and of a restore: what they publish, remove or take
\* away, the preview names.
RunSteps ==
  {s \in Step :
     /\ s[1] \in {"save", "journal", "compare", "prepare", "publish", "discard", "link", "unlink",
                  "hide", "prepare-directory", "publish-directory"}
     /\ s[1] = "prepare" => s[2] \in Stageable
     /\ s[1] = "publish" => s[3] \in DOMAIN final /\ s[2] \in {s[3]} \cup Operations
     /\ s[1] \in {"prepare-directory", "publish-directory"} => s[2] \in NewDirectories
     /\ s[1] = "link" => s[3] \in DOMAIN final
     /\ s[1] = "unlink" => s[2] \in DOMAIN final
     /\ s[1] = "hide" => request[s[3]].kind = "trash"}
UndoSteps ==
  {s \in Step :
     /\ s[1] \in {"discard", "undo-copy", "link", "unlink", "unhide", "drop", "prepare-back",
                  "publish-back", "remove-directory"}
     /\ s[1] \in {"unlink", "undo-copy", "unhide"} => s[2] \in DOMAIN final
     /\ s[1] = "remove-directory" => s[2] \in NewDirectories
     /\ s[1] \in {"link", "publish-back"} => s[3] \in DOMAIN final
     /\ s[1] = "prepare-back" => s[2] \in Restaged}
\* The steps of a restore that touch nothing of a third party as it is now.
Sparing ==
  {s \in UndoSteps :
     /\ s[1] \in {"unlink", "undo-copy", "remove-directory", "link"} => disk[s[2]].is # Theirs
     /\ s[1] = "publish-back" => disk[s[3]].is # Theirs
     /\ s[1] = "unhide" => trash[s[3]].is # Theirs}

\* The steps that make, and that use up, a stage; that double a name.
Prepares(k) == ({"prepare"} \X {k} \X Known) \cup {<<"prepare-directory", k>>}
Publishes(k) == ({"publish"} \X {k} \X Files) \cup {<<"publish-directory", k>>}
Staging(k) == {"prepare"} \X {k} \X Known
Publishing(k) == {"publish"} \X {k} \X Files
Doubles(p) == ({"link"} \X {p} \X Files) \cup ({"hide"} \X {p} \X Operations)
PreparesBack(k) == {"prepare-back"} \X {k} \X Known
PublishesBack(k) == {"publish-back"} \X {k} \X Files

-----------------------------------------------------------------------------
(* The invariant of an execution, its errors and crashes.                  *)

\* A node can be seen at a path; is kept in the trash.
Visible(node) == \E q \in Paths : disk[q].node = node
Hidden(node) == \E i \in Operations : trash[i].node = node

\* What is staged is seen once it is published and not before; a new node is
\* nobody's yet.
NodesOK ==
  /\ \A p \in Paths : (disk[p].is = Absent \/ disk[p].node = None) => disk[p] = Nowhere
  /\ \A i \in Operations : (trash[i].is = Absent \/ trash[i].node = None) => trash[i] = Nowhere
  /\ \A n \in 1..MaxWrites : Visible(<<"other", n>>) \/ Hidden(<<"other", n>>) => n <= writes
  /\ \A k \in Stages : Visible(<<"staged", k>>) \/ Hidden(<<"staged", k>>) =>
       stage[k] \notin Bytes /\ (k \in Directories => stage[k] = None)
  /\ \A d \in Directories : ~Hidden(<<"staged", d>>) /\
       \A p \in Paths : disk[p].node = <<"staged", d>> => p = d /\ disk[p].is = Dir

\* What is kept beside the vault is the request's own.
PrivateOK ==
  /\ \A k \in Stages : stage[k] \in Known \cup {Dir, None} /\ back[k] \in Known \cup {None}
  /\ \A d \in Directories : stage[d] \in {Dir, None}
  /\ Accepted =>
     /\ \A k \in Stages : (stage[k] \in Bytes => k \in Stageable) /\ (back[k] # None => k \in Restaged)
     /\ \A d \in Directories : stage[d] # None => d \in NewDirectories
     /\ \A i \in Operations : trash[i] # Nowhere => request[i].kind = "trash"

\* The preview is of the vault as it was found, and names what the request names.
PreviewOK ==
  Accepted =>
     /\ DOMAIN pre = DOMAIN final /\ DOMAIN final \subseteq Paths
     /\ \A i \in Operations : {request[i].source, request[i].target} \subseteq {None} \cup DOMAIN final
     /\ \A p \in DOMAIN final :
          /\ pre[p] = Start[p]
          /\ p \in Files => {pre[p], final[p]} \subseteq Known \cup {Absent}
          /\ p \in Directories => pre[p] = Absent /\ final[p] = Dir

Erred == Errors({"commit"})
\* Where the executor can be for each durable phase and proof state.
PhaseOK ==
  /\ journal.phase = "none" => pc \in {"submit", "queued", "capture", "prepare", "stalled", "down", "done"}
  /\ pc \in {"submit", "queued", "capture", "prepare"} => journal.phase = "none"
  /\ pc \in {"run", "evidence", "confirm", "commit"} => journal.phase = "PREPARED"
  /\ pc \in {"plan", "undo", "settle", "roll-back"} =>
       journal.phase = "PREPARED" \/ (journal.phase = "COMMITTED" /\ Erred)
  /\ pc = "record" => journal.phase = "COMMITTED"
  /\ pc = "rolled-back" => journal.phase = "ROLLED_BACK"
  /\ journal.phase = "COMMITTED" /\ ~Erred => pc \in {"record", "stalled", "down", "unprove", "done"}
  /\ journal.phase = "ROLLED_BACK" => pc \in {"rolled-back", "fail", "stalled", "down", "unprove", "done"}
  /\ journal.phase = "FAILED" => pc \in {"unprove", "stalled", "down", "done"}
  /\ entry.state = "none" <=> pc = "submit"
  /\ entry.state \in {"applied", "not_applied", "unproven"} => pc = "done"
  /\ entry.state = "applied" => journal.phase = "COMMITTED"
  /\ entry.state = "not_applied" => journal.phase \in {"none", "ROLLED_BACK"}
  /\ pc = "submit" => touched = {}

\* Nothing private is left; the vault is as it was found.
Clean ==
  /\ \A k \in Stages : {stage[k], back[k]} \cap Bytes = {}
  /\ \A d \in Directories : stage[d] = None
  /\ \A i \in Operations : trash[i] = Nowhere
Unchanged0 == \A p \in Paths \ touched : Is(p, Start[p])
\* Before PREPARED, after ROLLED_BACK, and once a restore is found complete.
QuietOK ==
  /\ journal.phase \in {"none", "ROLLED_BACK"} \/ pc \in {"settle", "roll-back"} => Clean /\ Unchanged0
  /\ journal.phase = "none" \/ pc \in {"prepare"} =>
       \A k \in Stages : stage[k] = None /\ back[k] = None /\ ~Visible(<<"staged", k>>)
  /\ Accepted => \A p \in Paths \ (touched \cup DOMAIN final) : Is(p, Start[p])

Executing == pc \in {"prepare", "run"}
Complete == pc \in {"evidence", "confirm", "commit"} \/ (journal.phase = "COMMITTED" /\ ~Erred)
\* Files have two names only right before one of them is removed.
HeadIs(step) == todo # <<>> /\ Head(todo) = step
Unshared ==
  /\ \A p, q \in Paths : p # q /\ disk[p].node = disk[q].node /\ disk[p].node # None =>
       HeadIs(<<"unlink", p>>) \/ HeadIs(<<"unlink", q>>)
  /\ \A i \in Operations, p \in Paths : trash[i].node = disk[p].node /\ disk[p].node # None =>
       HeadIs(<<"unlink", p>>)
\* The rest of an execution: what is staged is still to be published, nothing is
\* staged twice, a directory is looked at before it is made.
RunOK ==
  Executing =>
    /\ todo \in Seq(RunSteps) /\ (pc = "prepare" => HeadIs(<<"save">>))
    /\ \A k \in Stages :
         /\ todo \in Leads(Step, Prepares(k), Publishes(k)) /\ todo \in Never(Step, Publishing(k), Staging(k))
         /\ stage[k] # None => Range(todo) \cap Publishes(k) # {}
         /\ Visible(<<"staged", k>>) \/ Hidden(<<"staged", k>>) => Range(todo) \cap Staging(k) = {}
    /\ \A d \in Directories :
         /\ todo \in Preceded(Step, {<<"prepare-directory", d>>}, {<<"compare", d, Nowhere>>})
         /\ HeadIs(<<"prepare-directory", d>>) => disk[d].node # <<"staged", d>>
    /\ \A p \in Files : todo \in Adjacent(Step, Doubles(p), {<<"unlink", p>>})
SharedOK == Executing \/ Complete \/ journal.phase = "none" => Unshared
\* After the execution nothing is staged, and what was confirmed is right.
CompleteOK ==
  /\ Complete => \A k \in Stages : stage[k] = None
  /\ pc = "commit" \/ (journal.phase = "COMMITTED" /\ ~Erred) =>
       /\ \A p \in DOMAIN final \ touched : Is(p, final[p])
       /\ \A i \in Operations : request[i].kind = "trash" /\ request[i].source \notin touched
                                  => trash[i].is = request[i].from
\* The rest of a restore: it discards whatever is kept, and while nobody wrote
\* since it was planned, it spares.
UndoOK ==
  pc = "undo" =>
    /\ todo \in Seq(UndoSteps) /\ (~late => todo \in Seq(Sparing))
    /\ \A i \in Operations : trash[i] # Nowhere => <<"drop", i>> \in Range(todo)
    /\ \A k \in Stages :
         /\ stage[k] \in Bytes \/ (k \in Directories /\ stage[k] # None) => <<"discard", k>> \in Range(todo)
         /\ back[k] \in Bytes => <<"discard", k>> \in Range(todo) \/ Range(todo) \cap PublishesBack(k) # {}
         /\ todo \in Leads(Step, PreparesBack(k), PublishesBack(k))
\* The invariant. It is inductive (InitIs, NextIs).
IInv ==
  /\ TypeOK /\ entry = [state |-> entry.state, preview |-> entry.preview]
  /\ NodesOK /\ PrivateOK /\ PreviewOK /\ PhaseOK /\ QuietOK /\ RunOK /\ SharedOK
  /\ CompleteOK /\ UndoOK

-----------------------------------------------------------------------------
(* What its proof speaks of: the preview, the parts of the plans, and what *)
(* one step of the host may do.                                            *)

\* What the projection of some operations says of the paths it names.
MayStart(p) == IF p \in Directories THEN {Absent} ELSE Known \cup {Absent}
MayEnd(p) == IF p \in Directories THEN {Dir} ELSE Known \cup {Absent}
Fits(view) ==
  /\ view = [accepted |-> TRUE, pre |-> view.pre, final |-> view.final]
  /\ DOMAIN view.pre = DOMAIN view.final /\ DOMAIN view.final \subseteq Paths
  /\ \A p \in DOMAIN view.final :
       view.pre[p] = disk[p].is /\ view.pre[p] \in MayStart(p) /\ view.final[p] \in MayEnd(p)
Covers(view, n) ==
  \A i \in 1..n : {request[i].source, request[i].target} \subseteq {None} \cup DOMAIN view.final

\* The parts of an execution.
StageAll == Each(SetToSeq(Staged), StageFile)
JournalStaged == When(Staged # {}, << <<"journal", Staged>> >>)
StageMoved == When(SelfReferring, << <<"discard", 1>>, <<"prepare", 1, move.to>> >>)
MakeAll == Each(ByDepth(NewDirectories), MakeDirectory)
PublishAll == Each(SetToSeq(Staged), PublishStaged)
MutateAll == Each(InOrder, Mutate)
RenameIt == When(IsMove, RenameNote)

\* A part of a restore is refused, or takes nothing of a third party and
\* publishes what it stages.
PartOK(s) ==
  /\ s \in Seq(Step)
  /\ <<"refuse">> \notin Range(s) =>
       s \in Seq(Sparing) /\ \A k \in Stages : s \in Leads(Step, PreparesBack(k), PublishesBack(k))

\* The parts of a restore.
UndoAll == Each(Reverse(InOrder), Undo)
RenameBack == When(IsMove, UndoRename)
RestoreFiles == Each(Reverse(SetToSeq(Staged)), RestoreFile)
RestoreDirectories == Each(Reverse(ByDepth(NewDirectories)), RestoreDirectory)

\* The types of the vault after a step; what is kept while a plan runs; how it
\* goes on, and how it stops.
Typed ==
  /\ disk' \in [Paths -> Places] /\ trash' \in [Operations -> Places]
  /\ stage' \in [Stages -> Bytes \cup {Dir, None}] /\ back' \in [Stages -> Bytes \cup {None}]
HostFrame ==
  /\ pc \in {"run", "undo"} /\ todo # <<>>
  /\ UNCHANGED <<elsewhere, entry, opening>>
  /\ journal' = [phase |-> journal.phase, known |-> journal'.known]
  /\ known' \subseteq Paths /\ journal'.known \subseteq Paths
Continues == faults' = faults /\ todo' = Tail(todo) /\ pc' = pc
Stops == (faults' = faults \/ FaultHere) /\ Throws
\* What a step of a restore leaves of the others, if none wrote since the plan.
Spares ==
  pc = "undo" /\ ~late =>
    /\ \A p \in Paths : disk'[p].is = Theirs <=> disk[p].is = Theirs
    /\ \A i \in Operations : trash'[i].is = Theirs => trash[i].is = Theirs
Effect ==
  /\ Typed /\ NodesOK' /\ PrivateOK' /\ Spares
  /\ \A p \in Paths \ DOMAIN final : disk'[p] = disk[p]
\* A new node is not one of those that are still to be made.
Seen(node) == Visible(node) \/ Hidden(node)
RunCont ==
  pc = "run" =>
    /\ \A k \in Stages :
         /\ stage'[k] # None => (stage[k] # None /\ args \notin Publishes(k)) \/ args \in Prepares(k)
         /\ Seen(<<"staged", k>>)' => Seen(<<"staged", k>>) \/ args \in Publishing(k) \/ k \in Directories
    /\ \A d \in Directories : args = <<"compare", d, Nowhere>> => disk'[d].node # <<"staged", d>>
    /\ \A p, q \in Paths : p # q /\ disk'[p].node = disk'[q].node /\ disk'[p].node # None =>
         (p \in Files /\ args \in Doubles(p)) \/ (q \in Files /\ args \in Doubles(q))
    /\ \A i \in Operations, p \in Paths : trash'[i].node = disk'[p].node /\ disk'[p].node # None =>
         p \in Files /\ args \in Doubles(p)
UndoCont ==
  pc = "undo" =>
    /\ \A i \in Operations : trash'[i] # Nowhere => trash[i] # Nowhere /\ args # <<"drop", i>>
    /\ \A k \in Stages :
         /\ stage'[k] \in Bytes \/ (k \in Directories /\ stage'[k] # None) =>
              (stage[k] \in Bytes \/ (k \in Directories /\ stage[k] # None)) /\ args # <<"discard", k>>
         /\ back'[k] \in Bytes =>
              (back[k] \in Bytes /\ args # <<"discard", k>> /\ args \notin PublishesBack(k)) \/ args \in PreparesBack(k)
Good == HostFrame /\ Effect /\ (Stops \/ (Continues /\ RunCont /\ UndoCont))

FaultKinds == {"before", "doing", "undoing", "commit"}

\* The labels of the executor, the phases and the proof states.
Labels == {"submit", "queued", "capture", "prepare", "run", "evidence", "confirm", "commit",
           "record", "plan", "undo", "settle", "roll-back", "rolled-back", "fail", "unprove",
           "stalled", "down", "done"}
Phases == {"none", "PREPARED", "COMMITTED", "ROLLED_BACK", "FAILED"}
States == {"none", "in_progress", "applied", "not_applied", "unproven"}
\* The paths that nobody else wrote are as the preview says.
Right ==
  /\ \A p \in DOMAIN final \ touched : Is(p, final[p])
  /\ \A i \in Operations : request[i].kind = "trash" /\ request[i].source \notin touched
                             => trash[i].is = request[i].from
\* No file has two names.
NotShared ==
  /\ \A p, q \in Paths : p # q /\ disk[p].node = disk[q].node => disk[p].node = None
  /\ \A i \in Operations, p \in Paths : trash[i].node = disk[p].node => disk[p].node = None
\* The vault, what is asked for and what others did stay as they are.
Still ==
  /\ UNCHANGED <<request, vault, touched, writes>>
  /\ entry' = [state |-> entry'.state, preview |-> entry.preview]
  /\ entry'.state \in States /\ pc' \in Labels
  /\ journal' = [phase |-> journal'.phase, known |-> journal'.known]
  /\ journal'.phase \in Phases /\ journal'.known \subseteq Paths /\ known' \subseteq Paths
  /\ opening' \in BOOLEAN /\ late' \in BOOLEAN
  /\ faults' \in Seq(FaultKinds) /\ Len(faults') <= MaxFaults
  /\ crashes' \in 0..MaxCrashes
  /\ pc' \notin {"prepare", "run", "undo"} => todo' = <<>>
  /\ ~Accepted => pc' \in {"submit", "done"}

\* The node of a file or directory that somebody else makes.
New == <<"other", writes'>>
\* What somebody else's write, at a path, does to the vault.
Foreign(p) ==
  /\ \A q \in Paths : q \notin touched' => disk'[q] = disk[q]
  /\ \A q \in Paths : q # p => disk'[q].node = disk[q].node
  /\ disk'[p].node \in {disk[p].node, None, New}
  /\ \A q \in Paths : (disk'[q].is = Absent \/ disk'[q].node = None) => disk'[q] = Nowhere
  /\ \A q \in Paths : disk'[q].node \in {None, New} \/ disk'[q].is = disk[q].is \/ disk[q].is \in Bytes
                      \/ (disk[q].node = disk[p].node /\ disk[p].is \in Bytes)
  /\ \A i \in Operations : /\ trash'[i].node = trash[i].node
                           /\ trash[i].is = Absent \/ trash[i].node = None => trash'[i] = trash[i]
                           /\ trash'[i].is = Absent => trash[i].is = Absent
                           /\ trash'[i] = trash[i] \/ (trash[i].node = disk[p].node /\ disk[p].node # None)

\* Only the captures and the saves leave a request at the head of the queue.
Cause == faults # <<>> \/ touched \cap Footprint # {} \/ ~Buildable

\* No pair of R stands in this order.
Ordered(U, R) ==
  {s \in Seq(U) : \A i, j \in DOMAIN s : i < j => <<s[i], s[j]>> \notin R}

-----------------------------------------------------------------------------
(* Calm: an execution that only meets errors of its own, and crashes.      *)

\* Nobody wrote where the request does, and only the execution met errors.
Calm == ~Chained /\ touched \cap Footprint = {} /\ ~Errors({"undoing", "commit"})

\* What each operation works on.
Moving(i) == request[i].kind \in {"move-attachment", "move"}
Copying(i) == request[i].kind = "copy"
Trashing(i) == request[i].kind = "trash"
Working == {i \in Operations : Moving(i) \/ Copying(i) \/ Trashing(i)}
Source(i) == request[i].source
Target(i) == request[i].target
Owned == UNION {{Source(i), Target(i)} : i \in Working}

\* Each operation is the first to look at its paths, and the last.
PlainOK ==
  \A i \in Working :
    /\ pre[Source(i)] = request[i].from
    /\ Target(i) # None => pre[Target(i)] = Absent
    /\ Trashing(i) => final[Source(i)] = Absent

\* What an execution leaves at any of its points: the restore knows every case.
StagedLeft(p) == Is(p, pre[p]) \/ (p \in journal.known /\ disk[p] = At(final[p], <<"staged", p>>))
DirectoryLeft(d) == Is(d, Absent) \/ (d \in journal.known /\ disk[d] = At(Dir, <<"staged", d>>))
CopyLeft(i) == Is(Source(i), request[i].from) /\ disk[Target(i)].is \in {Absent, request[i].from}
MoveLeft(i) ==
  \/ disk[Source(i)].is \in {request[i].from, request[i].to} /\ disk[Target(i)].is \in {Absent, request[i].to}
  \/ Is(Source(i), Absent) /\ Is(Target(i), request[i].to)
TrashLeft(i) ==
  /\ trash[i] = Nowhere \/ trash[i].is = request[i].from
  /\ Is(Source(i), request[i].from) \/ (Is(Source(i), Absent) /\ trash[i].is = request[i].from)
LeftOK ==
  /\ \A p \in Staged : StagedLeft(p)
  /\ \A d \in NewDirectories : DirectoryLeft(d)
  /\ \A i \in Working : /\ Copying(i) => CopyLeft(i)
                        /\ Moving(i) => MoveLeft(i)
                        /\ Trashing(i) => TrashLeft(i)
  /\ \A p \in FilePaths \ (Staged \cup Owned) : Is(p, pre[p])

\* The bytes of a stage, and of a rollback stage.
Content(k) == IF k \in Staged THEN final[k] ELSE request[k].to
Kept(k) == IF k \in Staged THEN pre[k] ELSE request[k].from

\* What the steps of an execution are for, and the pairs that must not come in
\* this order.
Means(x) ==
  /\ x[1] = "prepare" => x[3] = Content(x[2])
  /\ x[1] = "publish" =>
       \/ x[2] = x[3] /\ x[3] \in Staged
       \/ x[2] \in Working /\ Copying(x[2]) /\ x[3] = Target(x[2])
       \/ x[2] \in Working /\ SelfReferring /\ x[3] = Source(x[2])
  /\ x[1] = "link" => \E i \in Working : Moving(i) /\ x[2] = Source(i) /\ x[3] = Target(i)
  /\ x[1] = "unlink" => \E i \in Working : (Moving(i) \/ Trashing(i)) /\ x[2] = Source(i)
  /\ x[1] = "hide" => Trashing(x[3]) /\ x[2] = Source(x[3])
Clash(x, y) ==
  \/ x[1] = "publish" /\ y[1] = "journal" /\ x[2] = x[3] /\ x[3] \in y[2]
  \/ x[1] = "publish-directory" /\ y[1] = "journal" /\ x[2] \in y[2]
  \/ x[1] = "link" /\ y[1] = "publish" /\ x[2] = y[3]
  \/ x[1] = "unlink" /\ y[1] \in {"link", "hide"} /\ x[2] = y[2]
Late == {z \in Step \X Step : Clash(z[1], z[2])}
Ahead(x) == x \in Range(todo)
RunFits ==
  /\ todo \in Ordered(Step, Late) /\ \A x \in Range(todo) : Means(x)
  /\ \A k \in Stages : stage[k] \in Bytes => stage[k] = Content(k)
  /\ \A p \in Staged \cup NewDirectories :
       (pc = "run" /\ p \in journal.known) \/ \E S \in SUBSET Paths : p \in S /\ Ahead(<<"journal", S>>)
  /\ \A i \in Working :
       /\ Moving(i) => Ahead(<<"link", Source(i), Target(i)>>) \/ Is(Target(i), request[i].to)
       /\ Trashing(i) => Ahead(<<"hide", Source(i), i>>) \/ trash[i].is = request[i].from
       /\ SelfReferring => Ahead(<<"publish", i, Source(i)>>) \/ Is(Source(i), request[i].to) \/ Is(Source(i), Absent)

\* The same of a restore; with the steps of S ahead, each of its steps can be taken.
Undoes(x) ==
  /\ x[1] = "undo-copy" => \E i \in Working : Copying(i) /\ x[2] = Target(i) /\ x[3] = request[i].from
  /\ x[1] = "link" => \E i \in Working : Moving(i) /\ x[2] = Target(i) /\ x[3] = Source(i)
  /\ x[1] = "unlink" => \/ \E i \in Working : Moving(i) /\ x[2] = Target(i)
                        \/ x[2] \in Staged /\ pre[x[2]] = Absent
  /\ x[1] = "unhide" => Trashing(x[3]) /\ x[2] = Source(x[3])
  /\ x[1] = "prepare-back" => x[3] = Kept(x[2])
  /\ x[1] = "publish-back" =>
       \/ x[2] = x[3] /\ x[3] \in Staged /\ pre[x[3]] # Absent
       \/ x[2] \in Working /\ SelfReferring /\ x[3] = Source(x[2])
Spoils(x, y) ==
  \/ x[1] \in {"unlink", "undo-copy"} /\ y[1] \in {"link", "unlink"} /\ x[2] = y[2]
  \/ x[1] = "link" /\ y[1] = "link" /\ x[2] = y[2]
  \/ x[1] = "drop" /\ y[1] = "unhide" /\ x[2] = y[3]
  \/ x[1] = "unhide" /\ y[1] = "unhide" /\ x[3] = y[3]
  \/ x[1] = "prepare-back" /\ y[1] = "discard" /\ x[2] = y[2]
  \/ x[1] = "publish-back" /\ y[1] \in {"prepare-back", "publish-back"} /\ x[2] = y[2]
  \/ x[1] = "publish-back" /\ y[1] = "link" /\ x[3] = y[3]
  \/ x[1] = "remove-directory" /\ y[1] \in {"link", "unlink", "undo-copy", "unhide", "publish-back"}
  \/ x[1] = "remove-directory" /\ y[1] = "remove-directory" /\ x[2] \in Above[y[2]] \cup {y[2]}
Early == {z \in Step \X Step : Spoils(z[1], z[2])}
Ready(x, S) ==
  /\ x[1] = "link" => IsFile(x[2]) /\ Is(x[3], Absent)
  /\ x[1] = "unlink" => IsFile(x[2])
  /\ x[1] = "unhide" => trash[x[3]].is = request[x[3]].from /\ Is(x[2], Absent)
  /\ x[1] = "prepare-back" => stage[x[2]] \notin Bytes \/ <<"discard", x[2]>> \in S
  /\ x[1] = "publish-back" => \/ back[x[2]] = Kept(x[2]) /\ <<"discard", x[2]>> \notin S
                              \/ <<"prepare-back", x[2], Kept(x[2])>> \in S
  /\ x[1] = "remove-directory" => Is(x[2], Dir)
\* The step puts the path back.
Repairs(x, p) ==
  \/ x[1] \in {"undo-copy", "unlink", "unhide"} /\ x[2] = p
  \/ x[1] = "publish-back" /\ x[3] = p
  \/ x[1] = "link" /\ x[3] = p /\ ~SelfReferring
UndoFits ==
  /\ todo \in Ordered(Step, Early)
  /\ \A x \in Range(todo) : x[1] # "refuse" /\ Undoes(x) /\ Ready(x, Range(todo))
  /\ \A p \in FilePaths : Is(p, pre[p]) \/ \E x \in Range(todo) : Repairs(x, p)
  /\ \A d \in NewDirectories : Is(d, Absent) \/ Ahead(<<"remove-directory", d>>)
  /\ \A i \in Working : Moving(i) /\ Is(Source(i), Absent) => Ahead(<<"link", Target(i), Source(i)>>)

\* What the trash holds is no file that the request does not name.
HiddenOK ==
  \A i \in Operations, p \in Paths :
    trash[i].node = disk[p].node /\ disk[p].node # None => p \in DOMAIN final

\* While all is calm no restore fails. With IInv, it is inductive (CalmNext).
JInv ==
  Accepted /\ Calm =>
    /\ PlainOK /\ HiddenOK
    /\ pc \notin {"fail", "unprove"} /\ journal.phase # "FAILED"
    /\ journal.phase = "PREPARED" => LeftOK
    /\ pc \in {"prepare", "run"} => RunFits
    /\ pc = "undo" => UndoFits
    /\ pc \in {"run", "evidence", "confirm", "commit", "plan", "undo"} => journal.known \subseteq known

-----------------------------------------------------------------------------
(* What its proof speaks of.                                               *)

\* The preview of the first n operations of a request that is not chained.
PlainView(view, n) ==
  /\ DOMAIN view.pre = DOMAIN view.final
  /\ \A p \in DOMAIN view.final \cap Files : \E j \in 1..n :
       p \in {Source(j), Target(j)} \/ request[j].kind = "move"
  /\ \A i \in 1..n : i \in Working =>
       /\ Source(i) \in DOMAIN view.final /\ view.pre[Source(i)] = request[i].from
       /\ Target(i) # None => Target(i) \in DOMAIN view.final /\ view.pre[Target(i)] = Absent
       /\ Trashing(i) => view.final[Source(i)] = Absent

\* Directories are listed from the top, and each once.
Upward == {z \in Directories \X Directories : z[2] \in Above[z[1]] \cup {z[1]}}

\* What a plan of a restore is made of.
Fitting(s) ==
  /\ s \in Ordered(Step, Early)
  /\ \A x \in Range(s) :
       /\ x[1] # "refuse" /\ Undoes(x)
       /\ Ready(x, Range(s))
       /\ x[1] = "publish-back" => <<"prepare-back", x[2], Kept(x[2])>> \in Range(s)

\* The parts of a restore, but the directories.
Outer(x) ==
  /\ x[1] \in {"undo-copy", "link", "unlink", "unhide", "drop", "discard", "prepare-back", "publish-back"}
  /\ x[1] \in {"undo-copy", "link", "unlink"} => x[2] \notin Staged
  /\ x[1] \in {"prepare-back", "publish-back"} => x[2] \in Operations

\* A change at one path, and of one thing in the trash, that leaves what the
\* restore knows.
Tidy(p, i) ==
  /\ \A q \in Paths : q # p => disk'[q] = disk[q]
  /\ \A j \in Operations : j # i => trash'[j] = trash[j]
  /\ journal.known \subseteq journal'.known
  /\ p \in Paths => p \in Staged \cup NewDirectories \cup Owned
  /\ p \in Staged => StagedLeft(p)'
  /\ p \in NewDirectories => DirectoryLeft(p)'
  /\ \A j \in Working :
       /\ Copying(j) /\ p \in {Source(j), Target(j)} => CopyLeft(j)'
       /\ Moving(j) /\ p \in {Source(j), Target(j)} => MoveLeft(j)'
       /\ Trashing(j) /\ (p = Source(j) \/ i = j) => TrashLeft(j)'
  /\ \A q \in Paths : i \in Operations /\ trash'[i].node = disk'[q].node /\ disk'[q].node # None => q \in DOMAIN final

\* A step of an execution, and what it must leave.
Going ==
  /\ IInv /\ HostFrame /\ pc = "run" /\ ~Chained /\ PlainOK /\ HiddenOK /\ LeftOK /\ RunFits
  /\ journal.known \subseteq known
Onward == LeftOK' /\ HiddenOK' /\ PlainOK' /\ journal'.known \subseteq known' /\ (pc' = "run" => RunFits')

\* A step of a restore, and what it must leave.
Undoing ==
  /\ IInv /\ HostFrame /\ pc = "undo" /\ ~Chained /\ PlainOK /\ HiddenOK /\ LeftOK /\ UndoFits
  /\ journal.known \subseteq known /\ touched \cap Footprint = {}
Nearer == LeftOK' /\ HiddenOK' /\ PlainOK' /\ journal'.known \subseteq known' /\ pc' = "undo" /\ UndoFits'

\* A step that mends a path, or private things, for good.
Mends(p, i) ==
  /\ p \in FilePaths => disk'[p].is = pre[p] \/ \E x \in Range(Tail(todo)) : Repairs(x, p)
  /\ \A q \in FilePaths : Repairs(args, q) => q = p
  /\ p \in Files => disk'[p].is \in Bytes \/ (args[1] \in {"unlink", "undo-copy"} /\ args[2] = p)
  /\ p \in Directories => disk'[p].is = Absent /\ args[1] = "remove-directory" /\ args[2] = p
  /\ args[1] = "remove-directory" => args[2] = p
  /\ \A k \in Working :
       /\ Moving(k) /\ p = Source(k) => /\ disk'[p].is # Absent
                                        /\ \/ args[1] = "link" /\ args[2] = Target(k)
                                           \/ args[1] = "publish-back" /\ args[3] = p
       /\ args[1] = "link" /\ args[3] = Source(k) => p = Source(k)
       /\ Trashing(k) /\ p = Source(k) => args[1] = "unhide" /\ args[3] = k
  /\ i \in Operations => args[1] = "drop" /\ args[2] = i
  /\ \A k \in Stages :
       /\ stage'[k] \in Bytes => stage[k] \in Bytes /\ args # <<"discard", k>>
       /\ args = <<"prepare-back", k, Kept(k)>> => back'[k] = Kept(k)
       /\ \/ back'[k] = back[k] \/ back'[k] = Kept(k) \/ args = <<"discard", k>>
          \/ args[1] = "publish-back" /\ args[2] = k

=============================================================================
