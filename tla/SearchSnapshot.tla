--------------------------- MODULE SearchSnapshot ---------------------------
(***************************************************************************)
(* The Search Snapshot (packages/obsidian-plugin/src/search-snapshot.ts)   *)
(* and the success barrier over it (managed-vault-runtime.ts).             *)
(*                                                                         *)
(* The manager rebuilds an immutable snapshot of the Vault, one rebuild at *)
(* a time, and publishes it unless a later event made it stale.  The       *)
(* refresh coordinator turns bursts of host events into one rebuild after  *)
(* a quiet window.  A success barrier asks for a refresh and waits, until  *)
(* a deadline, for a snapshot that shows its target.                       *)
(*                                                                         *)
(* JavaScript runs promise continuations to the end before it takes the    *)
(* next timer or host event: a step here is a callback with everything it  *)
(* resumes.  The content of a note is its number of changes, odd while the *)
(* note exists.                                                            *)
(***************************************************************************)
EXTENDS Naturals, Sequences

CONSTANTS
  Notes,
  Barriers,       \* calls of publishSuccessorSearchSnapshot
  None,           \* no target, a note no rebuild has read yet
  MaxContent,     \* bound: changes of a note
  MaxExtras,      \* bound: events that change nothing, rebuilds asked for by
                  \* operator maintenance, and rebuilds that fail, together
  MayUnload       \* the plugin may be unloaded

ASSUME BoundsAssumption ==
  /\ MaxContent \in Nat \ {0} /\ MaxExtras \in Nat
  /\ MayUnload \in BOOLEAN
ASSUME NoneAssumption == None \notin Nat /\ None \notin Notes

Exists(c) == c % 2 = 1
Contents == 0..MaxContent

VARIABLES
  content,     \* the Vault: the content of each note
  notice,      \* notes with a create, modify or delete event under way
  parsed,      \* ObsidianSemanticVersionTracker: last content parsed, 0 if none
  loaded,      \* the runtime holds its manager and its coordinator
  readiness,   \* SearchSnapshotManager
  current,
  rebuilds,    \* the rebuilds on #buildTail, the oldest first; a fresh one was
               \* asked for in the present generation
  extras,      \* how much of MaxExtras was used
  timer,       \* SearchSnapshotRefreshCoordinator: the quiet window runs
  chain,       \* the refreshes on #builds, the oldest first
  stage,       \* what each barrier waits for
  target,      \* the evidence it was given
  late,        \* its deadline has passed
  outdated     \* barriers that began after the last publication

host == <<content, notice, parsed>>
manager == <<readiness, current, rebuilds>>
vars == <<host, loaded, manager, extras, timer, chain, stage, target, late, outdated>>

\* the stages of a barrier: in whenIdle, for the quiet window, for the builds
\* seen inside its loop, or for those seen after it; or for a signal
Waiting == {"quiet", "loop", "final"}
Active == Waiting \cup {"signal"}
Ended == {"ok", "failed"}

Unread == [n \in Notes |-> None]
NewRebuild(owner) ==
  [owner |-> owner, fresh |-> TRUE, paths |-> None, bytes |-> Unread, semantic |-> Unread]
Reads == [Notes -> Contents \cup {None}]
Rebuilds == [owner: {"load", "direct", "refresh"}, fresh: BOOLEAN,
             paths: {None} \cup SUBSET Notes, bytes: Reads, semantic: Reads]

\* a refresh: the waiters it settles, and the barriers that wait for its end alone
Refreshes == [waiters: SUBSET Barriers, idle: SUBSET Barriers]
NoRefresh == [waiters |-> {}, idle |-> {}]

-----------------------------------------------------------------------------
(* What the success barrier looks for *)

Targets == [note: Notes, content: Contents, changed: BOOLEAN]

\* matches(), for the evidence t against a snapshot: a note that changed must
\* have been parsed at that content, another must not be known to differ
ShownBy(t, snapshot) ==
  LET note == snapshot[t.note] IN
  IF Exists(t.content)
  THEN /\ note.content = t.content
       /\ note.semantic \in {t.content} \cup (IF t.changed THEN {} ELSE {0})
  ELSE ~Exists(note.content)

MatchesAnyReadiness(b, ready, snapshot) ==
  target[b] = None \/ ShownBy(target[b], snapshot)

Matches(b, ready, snapshot) ==
  /\ ready = "ready"
  /\ target[b] = None \/ ShownBy(target[b], snapshot)

\* the barrier's loop after whenIdle returned or threw
Judged(b, ready, snapshot, expired) ==
  IF Matches(b, ready, snapshot) THEN "ok"
  ELSE IF expired THEN "failed" ELSE "signal"

\* whenIdle goes on when what the barrier waited for in stage s is there
Resumed(s, armed, queue) ==
  CASE s # "final" /\ armed -> "quiet"
    [] s # "final" /\ ~armed /\ queue # <<>> -> "final"
    [] OTHER -> "idle"

\* whenIdle from its start
Entered(armed, queue) ==
  IF armed THEN "quiet" ELSE IF queue # <<>> THEN "loop" ELSE "idle"

\* barriers that subscribe to the last refresh, after they left every earlier one
Subscribe(queue, left, joining) ==
  [i \in DOMAIN queue |->
     [waiters |-> queue[i].waiters \ left,
      idle |-> (queue[i].idle \ left) \cup (IF i = Len(queue) THEN joining ELSE {})]]

-----------------------------------------------------------------------------
Init ==
  /\ content = [n \in Notes |-> 1]
  /\ notice = {}
  /\ parsed = [n \in Notes |-> 0]
  /\ loaded = TRUE
  /\ readiness = "building"
  /\ current = [n \in Notes |-> [content |-> 0, semantic |-> 0]]
  /\ rebuilds = <<NewRebuild("load")>>
  /\ extras = 0
  /\ timer = FALSE
  /\ chain = <<>>
  /\ stage = [b \in Barriers |-> "none"]
  /\ target = [b \in Barriers |-> None]
  /\ late = [b \in Barriers |-> FALSE]
  /\ outdated = {}

-----------------------------------------------------------------------------
(* The host, and the events it delivers *)

\* an edit (by two, the note still exists), a creation or a deletion
Change(n) ==
  /\ \E step \in {1, 2} :
       /\ step = 2 => Exists(content[n])
       /\ content[n] + step <= MaxContent
       /\ content' = [content EXCEPT ![n] = @ + step]
  /\ notice' = notice \cup {n}
  /\ UNCHANGED <<parsed, loaded, manager, extras, timer, chain, stage,
                 late, target, outdated>>


\* schedule(): the rebuilds asked for so far are stale (a new generation), and
\* the quiet window starts again
Schedule ==
  /\ rebuilds' = [i \in DOMAIN rebuilds |-> [rebuilds[i] EXCEPT !.fresh = FALSE]]
  /\ readiness' = "building"
  /\ timer' = TRUE

\* scheduleSearchSnapshotRefresh(): barriers that wait for a signal go back to
\* whenIdle, where the quiet window that has just started makes them wait
Refresh ==
  /\ IF loaded THEN Schedule ELSE UNCHANGED <<rebuilds, readiness, timer>>
  /\ stage' = [b \in Barriers |-> IF stage[b] = "signal" THEN "quiet" ELSE stage[b]]
  /\ UNCHANGED <<loaded, current, chain, late, target, outdated>>

\* create, modify or delete of a Markdown file
Deliver(n) ==
  /\ n \in notice
  /\ notice' = notice \ {n}
  /\ parsed' = IF Exists(content[n]) THEN parsed ELSE [parsed EXCEPT ![n] = 0]
  /\ Refresh
  /\ UNCHANGED <<content, extras>>

\* metadataCache "changed", with the content that was parsed: perhaps a late one
Parse(n) ==
  /\ \E c \in Contents :
       /\ Exists(c) /\ parsed[n] < c /\ c <= content[n]
       /\ parsed' = [parsed EXCEPT ![n] = c]
  /\ Refresh
  /\ UNCHANGED <<content, notice, extras>>

\* metadataCache "resolve" and "resolved"
Resolved ==
  /\ extras < MaxExtras
  /\ extras' = extras + 1
  /\ Refresh
  /\ UNCHANGED <<content, notice, parsed>>

-----------------------------------------------------------------------------
(* SearchSnapshotManager: rebuilds run one after another on #buildTail *)

Running(i) == i = 1

\* refreshSearchSnapshot() by operator maintenance
RebuildDirectly ==
  /\ loaded /\ extras < MaxExtras
  /\ extras' = extras + 1
  /\ rebuilds' = Append(rebuilds, NewRebuild("direct"))
  /\ readiness' = "building"
  /\ UNCHANGED <<host, loaded, current, timer, chain,
                 stage, late, target, outdated>>

List(i) ==
  /\ Running(i) /\ rebuilds[i].paths = None
  /\ LET absent == {n \in Notes : ~Exists(content[n])} IN
     rebuilds' = [rebuilds EXCEPT
       ![i].paths = Notes \ absent,
       ![i].bytes = [n \in Notes |-> IF n \in absent THEN content[n] ELSE None],
       ![i].semantic = [n \in Notes |-> IF n \in absent THEN 0 ELSE None]]
  /\ UNCHANGED <<host, loaded, readiness, current, extras, timer, chain,
                 stage, late, target, outdated>>

\* readBinary for the snapshot
ReadBytes(i, n) ==
  /\ Running(i) /\ rebuilds[i].paths # None
  /\ rebuilds[i].bytes[n] = None /\ Exists(content[n])
  /\ rebuilds' = [rebuilds EXCEPT ![i].bytes[n] = content[n]]
  /\ UNCHANGED <<host, loaded, readiness, current, extras, timer, chain,
                 stage, late, target, outdated>>

\* semanticEvidence reads the file again, and its metadata counts only if the
\* tracker saw exactly these bytes parsed
ReadSemantic(i, n) ==
  /\ Running(i) /\ rebuilds[i].paths # None
  /\ rebuilds[i].bytes[n] # None /\ rebuilds[i].semantic[n] = None
  /\ Exists(content[n])
  /\ rebuilds' = [rebuilds EXCEPT
       ![i].semantic[n] = IF parsed[n] = content[n] THEN content[n] ELSE 0]
  /\ UNCHANGED <<host, loaded, readiness, current, extras, timer, chain,
                 stage, late, target, outdated>>

\* The end of rebuild i with this readiness, snapshot and result.  A refresh
\* resolves or rejects its waiters and starts the next one on #builds; what the
\* barriers do next is part of the same step.
Settle(i, ready, snapshot, succeeded) ==
  LET others == SubSeq(rebuilds, 1, i - 1) \o SubSeq(rebuilds, i + 1, Len(rebuilds))
      refresh == rebuilds[i].owner = "refresh"
      done == IF refresh THEN Head(chain) ELSE NoRefresh
      queue == IF refresh THEN Tail(chain) ELSE chain
      follow == refresh /\ queue # <<>>
      left == done.waiters \cup done.idle
      thrown == IF succeeded THEN {} ELSE done.waiters
      next(b) == IF b \in thrown THEN "idle" ELSE Resumed(stage[b], timer, queue)
  IN /\ rebuilds' = IF follow THEN Append(others, NewRebuild("refresh"))
                    ELSE others
     /\ readiness' = IF others # <<>> \/ follow THEN "building" ELSE ready
     /\ current' = snapshot
     /\ chain' = Subscribe(queue, left, {b \in left : next(b) = "final"})
     /\ stage' = [b \in Barriers |->
                    IF b \notin left THEN stage[b]
                    ELSE IF next(b) = "idle" THEN Judged(b, readiness', snapshot, late[b])
                    ELSE next(b)]

FreshAlways(i) == TRUE
Fresh(i) == rebuilds[i].fresh

\* every note was read: publish, unless an event made the rebuild stale
Publish(i) ==
  /\ Running(i) /\ rebuilds[i].paths # None
  /\ \A n \in Notes : rebuilds[i].semantic[n] # None
  /\ outdated' = IF Fresh(i) THEN {} ELSE outdated
  /\ Settle(i,
            IF Fresh(i) THEN "ready" ELSE readiness,
            IF Fresh(i) THEN [n \in Notes |-> [content |-> rebuilds[i].bytes[n],
                                               semantic |-> rebuilds[i].semantic[n]]]
            ELSE current,
            TRUE)
  /\ UNCHANGED <<host, loaded, extras, timer, late, target>>

\* a listed file is gone when it is read, or a read or its metadata fails
Gone(i) == \E n \in rebuilds[i].paths :
  (rebuilds[i].bytes[n] = None \/ rebuilds[i].semantic[n] = None) /\ ~Exists(content[n])

RebuildFails(i) ==
  /\ Running(i)
  /\ \/ rebuilds[i].paths # None /\ Gone(i) /\ UNCHANGED extras
     \/ extras < MaxExtras /\ extras' = extras + 1
  /\ Settle(i, IF Fresh(i) THEN "unavailable" ELSE readiness, current, FALSE)
  /\ UNCHANGED <<host, loaded, timer, late, target, outdated>>

-----------------------------------------------------------------------------
(* SearchSnapshotRefreshCoordinator: the quiet window ends *)

\* the promises on #builds have settled
BuildsSettled == chain = <<>>

CaughtIfSettled == {b \in Barriers : stage[b] \in Waiting /\ chain = <<>>}
\* the waiters the timer's callback copies
Caught == {b \in Barriers : stage[b] \in Waiting}

QuietWindowEnds ==
  /\ timer
  /\ timer' = FALSE
  /\ chain' = Append(chain, [waiters |-> Caught, idle |-> {}])
  /\ IF BuildsSettled
     THEN /\ rebuilds' = Append(rebuilds, NewRebuild("refresh"))
          /\ readiness' = "building"
     ELSE UNCHANGED <<rebuilds, readiness>>
  /\ UNCHANGED <<host, loaded, current, extras, stage, late, target, outdated>>

-----------------------------------------------------------------------------
(* The success barrier *)

\* publishSuccessorSearchSnapshot: the Bridge serves once the load's rebuild ended
Begin(b) ==
  /\ loaded /\ stage[b] = "none"
  /\ \A i \in DOMAIN rebuilds : rebuilds[i].owner # "load"
  /\ \/ target' = target
     \/ \E n \in Notes, changed \in BOOLEAN :
          target' = [target EXCEPT
            ![b] = [note |-> n, content |-> content[n], changed |-> changed]]
  /\ outdated' = outdated \cup {b}
  /\ Schedule
  /\ stage' = [stage EXCEPT ![b] = "quiet"]
  /\ UNCHANGED <<host, loaded, current, extras, chain, late>>

\* the deadline: a barrier that waits for a signal looks once more
DeadlinePasses(b) ==
  /\ stage[b] \in Active /\ ~late[b]
  /\ late' = [late EXCEPT ![b] = TRUE]
  /\ LET entered == IF stage[b] = "signal" THEN Entered(timer, chain) ELSE stage[b]
     IN /\ stage' = [stage EXCEPT ![b] = IF entered = "idle"
                       THEN Judged(b, readiness, current, TRUE) ELSE entered]
        /\ chain' = Subscribe(chain, {}, IF stage[b] = "signal" /\ entered = "loop"
                                         THEN {b} ELSE {})
  /\ UNCHANGED <<host, loaded, manager, extras, timer, target, outdated>>

\* unload(): signals and waiters are rejected, the coordinator is disposed, and
\* what the dropped manager still publishes reaches nobody
Unload ==
  /\ MayUnload /\ loaded
  /\ loaded' = FALSE
  /\ timer' = FALSE
  /\ chain' = <<>>
  /\ stage' = [b \in Barriers |-> IF stage[b] \in Active THEN "failed" ELSE stage[b]]
  /\ rebuilds' = <<>>
  /\ readiness' = "unavailable"
  /\ UNCHANGED <<host, current, extras, late, target, outdated>>

-----------------------------------------------------------------------------
Deliveries == \E n \in Notes : Deliver(n)
Rebuild == \E i \in DOMAIN rebuilds :
  \/ List(i)
  \/ \E n \in Notes : ReadBytes(i, n) \/ ReadSemantic(i, n)
  \/ Publish(i)
  \/ RebuildFails(i)
Deadlines == \E b \in Barriers : DeadlinePasses(b)

Next ==
  \/ \E n \in Notes : Change(n) \/ Parse(n)
  \/ Deliveries \/ Resolved
  \/ RebuildDirectly \/ Rebuild
  \/ QuietWindowEnds
  \/ \E b \in Barriers : Begin(b)
  \/ Deadlines
  \/ Unload

Spec == Init /\ [][Next]_vars

\* The host delivers its events, reads end, and timers fire.  Nothing makes the
\* Vault change, Obsidian parse, or a barrier begin.
FairSpec == Spec /\ WF_vars(Deliveries) /\ WF_vars(Rebuild)
                 /\ WF_vars(QuietWindowEnds)
                 /\ \A b \in Barriers : WF_vars(DeadlinePasses(b))

-----------------------------------------------------------------------------
(* Correctness *)

\* The type of every variable.  One refresh at a time is being rebuilt: the first
\* of #builds.
TypeOK ==
  /\ content \in [Notes -> Contents]
  /\ notice \subseteq Notes
  /\ parsed \in [Notes -> Contents]
  /\ extras \in 0..MaxExtras
  /\ {loaded, timer} \subseteq BOOLEAN
  /\ readiness \in {"building", "ready", "unavailable"}
  /\ current \in [Notes -> [content: Contents, semantic: Contents]]
  /\ rebuilds \in Seq(Rebuilds)
  /\ chain \in Seq(Refreshes)
  /\ stage \in [Barriers -> {"none"} \cup Active \cup Ended]
  /\ target \in [Barriers -> {None} \cup Targets]
  /\ late \in [Barriers -> BOOLEAN]
  /\ outdated \subseteq Barriers
  /\ \A i, j \in DOMAIN rebuilds :
       rebuilds[i].owner = "refresh" /\ rebuilds[j].owner = "refresh" => i = j
  /\ (chain # <<>>) <=> \E i \in DOMAIN rebuilds : rebuilds[i].owner = "refresh"

\* What discovery serves is the Vault: a snapshot that is ready shows, for every
\* note whose event has arrived, its content and the metadata parsed from exactly
\* that content, whatever changed while its rebuild was reading.
ReadyIsCurrent ==
  loaded /\ readiness = "ready" => \A n \in Notes \ notice :
    /\ current[n].content = content[n]
    /\ current[n].semantic = IF parsed[n] = content[n] THEN content[n] ELSE 0

\* A publication never shows an older content of a note than the one before it,
\* even when maintenance and a refresh asked for rebuilds at the same time.
Forward == \A n \in Notes : current'[n].content >= current[n].content

\* A barrier that succeeds has seen a publication of its own time, made after it
\* began, that shows its target: the successor of spec 8.3, never the snapshot from
\* before the Change Set.
Succeeds ==
  \A b \in Barriers : stage[b] # "ok" /\ stage'[b] = "ok" =>
    b \notin outdated' /\ (target[b] # None => ShownBy(target[b], current'))

\* What barriers and discovery see only moves on, whoever asks for rebuilds and
\* in whatever order they end.
SnapshotsAreSuccessors == [][Forward /\ Succeeds]_vars

\* Every barrier ends: no waiter is lost by a restarted quiet window, a refresh
\* queued behind another, one that fails, or the disposal of the coordinator.
BarrierEnds == \A b \in Barriers : stage[b] \in Active ~> stage[b] \in Ended

\* Once events stop, the snapshot settles: it shows the whole Vault, or discovery
\* says that it is unavailable.  No change is left out and no rebuild is forgotten.
SnapshotSettles ==
  <>[](loaded => \/ readiness = "unavailable"
                 \/ /\ readiness = "ready"
                    /\ \A n \in Notes : current[n].content = content[n])

\* The coordinator goes on: barriers end and the snapshot settles.
Progress == BarrierEnds /\ SnapshotSettles

\* Spec 8.3: a barrier succeeds only after a quiet window in which no event came.
\* In the code a queued refresh takes the generation of its start, and whenIdle does
\* not look at the timer after its last wait, so it can succeed inside the window.
SuccessAfterQuietWindow ==
  [][\A b \in Barriers : stage[b] # "ok" /\ stage'[b] = "ok" => ~timer']_vars
=============================================================================
