------------------------- MODULE ManagedVaultRuntime ------------------------
(***************************************************************************)
(* The identity of a Managed Vault: managed-vault-runtime.ts and the part  *)
(* of main.ts that gives it its stores and commands.  A vault is a         *)
(* directory that people copy and move; its identity (vaultId, port and    *)
(* the path it was last seen at) is persisted twice, in the recovery copy  *)
(* that is authoritative and in a mirror written after it, best effort.    *)
(*                                                                         *)
(* A task is one promise chain of the plugin in a directory: the load of   *)
(* onload(), or a classification command and the load that follows it.     *)
(* Tasks interleave at every await, with an unload and with a crash.       *)
(***************************************************************************)
EXTENDS Integers, FiniteSets

CONSTANTS
  Dirs,          \* the paths a vault can be at
  None,
  Ports,         \* the ports a new identity may draw
  MaxIds,        \* bound: identities created
  MaxTasks,      \* bound: tasks of a directory at once
  MaxLoads,      \* bound: times Obsidian loads the plugin
  MaxFaults,     \* bound: failing writes
  MaxCopies      \* bound: copies and moves of a vault directory

VARIABLES
  recovery,   \* .llm-wiki/bridge-state.json of each directory, or None
  mirror,     \* the plugin's data.json, or None
  up,         \* the plugin is loaded
  settings,   \* the runtime's #settings
  pending,    \* #pendingPathChange is set
  bridge,     \* #bridge: its listener, or None
  tasks,      \* the tasks of each directory
  listeners,  \* what listens on the host's loopback
  truth,      \* what happened to the directory that is not classified: "same", "move", "copy"
  strained,   \* history: commands overlapped, or an unload met a running task
  lost,       \* history: a load overwrote a state newer than the plugin
  nextId, loads, faults, copies

disk == <<recovery, mirror>>
memory == <<up, settings, pending, bridge>>
history == <<truth, strained, lost>>
bounds == <<nextId, loads, faults, copies>>
vars == <<disk, memory, tasks, listeners, history, bounds>>

Schemas == {"legacy", "current", "newer"}
Copy == [vaultId : 1..MaxIds, port : Ports, diagnosticPath : Dirs, schema : Schemas,
         changeSets : {"empty", "kept"}]
Settings == {c \in Copy : c.schema = "current"}
Listener == [dir : Dirs, task : 1..MaxTasks, vaultId : 1..MaxIds, port : Ports]
NoTask == [at |-> "idle", kind |-> "load", settings |-> None, orphan |-> FALSE]
Task == [at : {"idle", "recovery", "mirror", "load", "copyOnly", "listen", "started"},
         kind : {"load", "migration", "move", "copy"}, settings : Settings \cup {None}, orphan : BOOLEAN]

\* load() reads the recovery copy before the mirror.
Authoritative(d) == IF recovery[d] # None THEN recovery[d] ELSE mirror[d]
Busy(d) == \E t \in 1..MaxTasks : tasks[d][t].at # "idle"
\* A new chain takes the first free slot.
Free(d, t) ==
  tasks[d][t].at = "idle" /\ \A s \in 1..(t - 1) : tasks[d][s].at # "idle"

\* parsePersistedSettings: what an older or the current plugin wrote, in the
\* current schema.  parsePersistedEnvelope: of a newer state the identity only.
ParsePersistedSettings(c) == [c EXCEPT !.schema = "current"]
ParsePersistedEnvelope(c) == [c EXCEPT !.schema = "current", !.changeSets = "empty"]
Restricted(c) == c # None /\ c.schema = "newer"
Parsed(c) == IF Restricted(c) THEN ParsePersistedEnvelope(c) ELSE ParsePersistedSettings(c)
Fresh(id, port, path) ==
  [vaultId |-> id, port |-> port, diagnosticPath |-> path, schema |-> "current",
   changeSets |-> "empty"]

TypeOK ==
  /\ recovery \in [Dirs -> Copy \cup {None}] /\ mirror \in [Dirs -> Copy \cup {None}]
  /\ up \in [Dirs -> BOOLEAN] /\ pending \in [Dirs -> BOOLEAN]
  /\ settings \in [Dirs -> Settings \cup {None}]
  /\ bridge \in [Dirs -> Listener \cup {None}]
  /\ tasks \in [Dirs -> [1..MaxTasks -> Task]]
  /\ listeners \subseteq Listener
  /\ truth \in [Dirs -> {"same", "move", "copy"}]
  /\ strained \in [Dirs -> BOOLEAN] /\ lost \in BOOLEAN
  /\ nextId \in 1..(MaxIds + 1) /\ loads \in 0..MaxLoads
  /\ faults \in 0..MaxFaults /\ copies \in 0..MaxCopies

\* One vault, new or persisted by this, an older or a newer plugin; the other
\* paths are empty.  Which path and port it has is no matter.
Init ==
  LET home == CHOOSE d \in Dirs : TRUE
      drawn == CHOOSE port \in Ports : TRUE
      Stored == {c \in Copy : c.vaultId = 1 /\ c.port = drawn /\ c.diagnosticPath = home}
      At(c) == [d \in Dirs |-> IF d = home THEN c ELSE None]
  IN
  /\ \E c \in {None} \cup {s \in Stored : s.schema = "legacy" => s.changeSets = "empty"} :
       /\ mirror = At(c)
       /\ recovery \in IF c = None \/ c.schema # "legacy" THEN {At(None), At(c)} ELSE {At(None)}
       /\ nextId = IF c = None THEN 1 ELSE 2
  /\ up = [d \in Dirs |-> FALSE] /\ pending = [d \in Dirs |-> FALSE]
  /\ settings = [d \in Dirs |-> None] /\ bridge = [d \in Dirs |-> None]
  /\ tasks = [d \in Dirs |-> [t \in 1..MaxTasks |-> NoTask]]
  /\ listeners = {}
  /\ truth = [d \in Dirs |-> "same"] /\ strained = [d \in Dirs |-> FALSE] /\ lost = FALSE
  /\ loads = 0 /\ faults = 0 /\ copies = 0

-----------------------------------------------------------------------------
(* Tasks.                                                                  *)

SetTask(d, t, task) == tasks' = [tasks EXCEPT ![d][t] = task]
Goto(d, t, at) == SetTask(d, t, [tasks[d][t] EXCEPT !.at = at])
Ends(d, t) == SetTask(d, t, NoTask)
Fails == faults < MaxFaults /\ faults' = faults + 1

\* Obsidian loads the plugin: onload() calls load().
Onload(d, t) ==
  /\ ~up[d] /\ Free(d, t) /\ loads < MaxLoads
  /\ loads' = loads + 1
  /\ up' = [up EXCEPT ![d] = TRUE]
  /\ settings' = [settings EXCEPT ![d] = None] /\ pending' = [pending EXCEPT ![d] = FALSE]
  /\ bridge' = [bridge EXCEPT ![d] = None]
  /\ SetTask(d, t, [NoTask EXCEPT !.at = "load"])
  /\ UNCHANGED <<disk, listeners, history, nextId, faults, copies>>

\* load(): nothing while a Bridge is loaded.  A path that is not the persisted
\* one is left to the operator; otherwise the copies are brought up to date,
\* unless the state is newer than the plugin.
PathChanged(d) ==
  LET c == Authoritative(d) IN c # None /\ c.diagnosticPath # d

Load(d, t) ==
  LET c == Authoritative(d)
      orphan == tasks[d][t].orphan
      Continue(kind, at, s) ==
        SetTask(d, t, [at |-> at, kind |-> kind, settings |-> s, orphan |-> orphan])
  IN
  /\ tasks[d][t].at = "load"
  /\ \/ /\ ~orphan /\ bridge[d] # None
        /\ Ends(d, t) /\ UNCHANGED <<settings, pending, nextId>>
     \/ /\ orphan \/ bridge[d] = None
        /\ IF PathChanged(d)
           THEN /\ Ends(d, t) /\ UNCHANGED nextId
                /\ settings' = IF orphan THEN settings ELSE [settings EXCEPT ![d] = Parsed(c)]
                /\ pending' = IF orphan THEN pending ELSE [pending EXCEPT ![d] = TRUE]
           ELSE /\ UNCHANGED <<settings, pending>>
                /\ IF c = None
                   THEN /\ nextId <= MaxIds /\ nextId' = nextId + 1
                        /\ \E port \in Ports : Continue("load", "recovery", Fresh(nextId, port, d))
                   ELSE /\ UNCHANGED nextId
                        /\ Continue(IF c.schema = "legacy" THEN "migration" ELSE "load",
                                    IF Restricted(c) THEN "listen"
                                    ELSE IF recovery[d] # None \/ c.schema = "legacy"
                                    THEN "recovery" ELSE "copyOnly", Parsed(c))
  /\ UNCHANGED <<disk, up, bridge, listeners, history, loads, faults, copies>>

\* What a copy becomes: a vault of its own.
KeepsVaultId(previous, id, port, path) ==
  [previous EXCEPT !.port = port, !.diagnosticPath = path]
Copied(previous, id, port, path) == Fresh(id, port, path)

\* classifyPathChange: the command is offered while #pendingPathChange is set.
\* A copy whose random port is the old one throws.
Classify(d, t) ==
  LET previous == settings[d]
      Starts(kind, s) == SetTask(d, t, [at |-> "recovery", kind |-> kind, settings |-> s, orphan |-> FALSE])
  IN
  /\ up[d] /\ pending[d] /\ Free(d, t)
  /\ \/ /\ truth[d] = "move"
        /\ Starts("move", [previous EXCEPT !.diagnosticPath = d]) /\ UNCHANGED nextId
     \/ /\ truth[d] = "copy" /\ nextId <= MaxIds /\ nextId' = nextId + 1
        /\ \E port \in Ports \ {previous.port} : Starts("copy", Copied(previous, nextId, port, d))
  /\ strained' = [strained EXCEPT ![d] = @ \/ Busy(d)]
  /\ UNCHANGED <<disk, memory, listeners, truth, lost, loads, faults, copies>>

\* #saveSettings: the recovery copy replaces the last one whole, or the write
\* throws and the task with it.
SaveRecovery(d, t) ==
  LET task == tasks[d][t] IN
  /\ task.at \in {"recovery", "copyOnly"}
  /\ \/ /\ recovery' = [recovery EXCEPT ![d] = task.settings]
        /\ lost' = (lost \/ (task.kind \in {"load", "migration"} /\ Restricted(Authoritative(d))))
        /\ Goto(d, t, IF task.at = "copyOnly" THEN "listen" ELSE "mirror")
        /\ UNCHANGED faults
     \/ Fails /\ Ends(d, t) /\ UNCHANGED <<recovery, lost>>
  /\ UNCHANGED <<mirror, memory, listeners, truth, strained, nextId, loads, copies>>

\* The mirror is written or left as it is.  A migrated state has its recovery
\* copy written once more; a classification is done then, and the load that
\* follows it begins.
SaveMirror(d, t) ==
  LET task == tasks[d][t] IN
  /\ task.at = "mirror"
  /\ \/ mirror' = [mirror EXCEPT ![d] = task.settings] /\ UNCHANGED faults
     \/ Fails /\ UNCHANGED mirror
  /\ IF task.kind \in {"load", "migration"}
     THEN /\ Goto(d, t, IF task.kind = "load" THEN "listen" ELSE "copyOnly")
          /\ UNCHANGED <<settings, pending, truth>>
     ELSE /\ Goto(d, t, "load")
          /\ IF task.orphan THEN UNCHANGED <<settings, pending>>
             ELSE /\ settings' = [settings EXCEPT ![d] = task.settings]
                  /\ pending' = [pending EXCEPT ![d] = FALSE]
          /\ truth' = [truth EXCEPT ![d] = "same"]
  /\ UNCHANGED <<recovery, up, bridge, listeners, strained, lost, nextId, loads, copies>>

\* bridge.start(): the port is taken, or the load throws.
Listen(d, t) ==
  LET s == tasks[d][t].settings IN
  /\ tasks[d][t].at = "listen"
  /\ IF \E l \in listeners : l.port = s.port
     THEN Ends(d, t) /\ UNCHANGED listeners
     ELSE /\ listeners' = listeners \cup
               {[dir |-> d, task |-> t, vaultId |-> s.vaultId, port |-> s.port]}
          /\ Goto(d, t, "started")
  /\ UNCHANGED <<disk, memory, history, bounds>>

\* The end of load(): only now the runtime has a Bridge that unload() would stop.
Started(d, t) ==
  LET task == tasks[d][t] IN
  /\ task.at = "started"
  /\ IF task.orphan THEN UNCHANGED <<settings, bridge>>
     ELSE /\ settings' = [settings EXCEPT ![d] = task.settings]
          /\ bridge' = [bridge EXCEPT ![d] =
               CHOOSE l \in listeners : l.dir = d /\ l.task = t /\ l.port = task.settings.port]
  /\ Ends(d, t)
  /\ UNCHANGED <<disk, up, pending, listeners, history, bounds>>

\* The Change Set registry is saved through the same store, with the identity
\* that was loaded.
SaveChangeSets(d) ==
  /\ up[d] /\ bridge[d] # None /\ ~Busy(d) /\ ~Restricted(Authoritative(d))
  /\ settings[d].changeSets = "empty"
  /\ LET s == [settings[d] EXCEPT !.changeSets = "kept"] IN
     /\ settings' = [settings EXCEPT ![d] = s]
     /\ recovery' = [recovery EXCEPT ![d] = s]
     /\ mirror' \in {mirror, [mirror EXCEPT ![d] = s]}
  /\ UNCHANGED <<up, pending, bridge, tasks, listeners, history, bounds>>

\* onunload(): what has a Bridge is stopped, and what still runs goes on.
Unload(d) ==
  /\ up[d] /\ up' = [up EXCEPT ![d] = FALSE]
  /\ listeners' = listeners \ {bridge[d]}
  /\ bridge' = [bridge EXCEPT ![d] = None]
  /\ settings' = [settings EXCEPT ![d] = None] /\ pending' = [pending EXCEPT ![d] = FALSE]
  /\ tasks' = [tasks EXCEPT ![d] = [t \in 1..MaxTasks |->
                 IF @[t].at = "idle" THEN @[t] ELSE [@[t] EXCEPT !.orphan = TRUE]]]
  /\ strained' = [strained EXCEPT ![d] = @ \/ Busy(d)]
  /\ UNCHANGED <<disk, truth, lost, bounds>>

\* Obsidian dies: what it listened on is free again.
Crash(d) ==
  /\ up[d] \/ Busy(d)
  /\ up' = [up EXCEPT ![d] = FALSE]
  /\ listeners' = {l \in listeners : l.dir # d}
  /\ bridge' = [bridge EXCEPT ![d] = None]
  /\ settings' = [settings EXCEPT ![d] = None] /\ pending' = [pending EXCEPT ![d] = FALSE]
  /\ tasks' = [tasks EXCEPT ![d] = [t \in 1..MaxTasks |-> NoTask]]
  /\ strained' = [strained EXCEPT ![d] = FALSE]
  /\ UNCHANGED <<disk, truth, lost, bounds>>

-----------------------------------------------------------------------------
(* What people do to the directory, and a newer plugin to the state.  A    *)
(* directory that is not classified yet is not moved on.                   *)

Settled(d) == Authoritative(d) # None /\ ~PathChanged(d)

CopyDirectory(d, e) ==
  /\ d # e /\ copies < MaxCopies /\ copies' = copies + 1
  /\ Settled(d) /\ ~Busy(d) /\ Authoritative(e) = None /\ ~up[e] /\ ~Busy(e)
  /\ recovery' = [recovery EXCEPT ![e] = recovery[d]]
  /\ mirror' = [mirror EXCEPT ![e] = mirror[d]]
  /\ truth' = [truth EXCEPT ![e] = "copy"]
  /\ UNCHANGED <<memory, tasks, listeners, strained, lost, nextId, loads, faults>>

MoveDirectory(d, e) ==
  /\ d # e /\ copies < MaxCopies /\ copies' = copies + 1
  /\ Settled(d) /\ ~up[d] /\ ~Busy(d) /\ Authoritative(e) = None /\ ~up[e] /\ ~Busy(e)
  /\ recovery' = [recovery EXCEPT ![e] = recovery[d], ![d] = None]
  /\ mirror' = [mirror EXCEPT ![e] = mirror[d], ![d] = None]
  /\ truth' = [truth EXCEPT ![e] = "move", ![d] = "same"]
  /\ UNCHANGED <<memory, tasks, listeners, strained, lost, nextId, loads, faults>>

Next ==
  \/ \E d \in Dirs : SaveChangeSets(d) \/ Unload(d) \/ Crash(d)
  \/ \E d \in Dirs, t \in 1..MaxTasks :
       \/ Onload(d, t) \/ Load(d, t) \/ Classify(d, t)
       \/ SaveRecovery(d, t) \/ SaveMirror(d, t) \/ Listen(d, t) \/ Started(d, t)
  \/ \E d, e \in Dirs : CopyDirectory(d, e) \/ MoveDirectory(d, e)

Spec == Init /\ [][Next]_vars

-----------------------------------------------------------------------------
(* Properties.                                                             *)

\* What a directory serves is what it would serve again after a crash: the id
\* and the port of its authoritative copy, at its own path.  Overlapping
\* commands and an unload that meets a load are excepted (see TwoLoads).
ServedIsStored ==
  \A l \in listeners : ~strained[l.dir] =>
    LET c == Authoritative(l.dir) IN
    c # None /\ c.vaultId = l.vaultId /\ c.port = l.port /\ c.diagnosticPath = l.dir

\* Two directories that are settled at their paths never have one identity, be
\* they served or not, however copies, moves, crashes and failing writes met.
IdentitiesAreUnique ==
  \A d, e \in Dirs : d # e /\ Settled(d) /\ Settled(e) =>
    Authoritative(d).vaultId # Authoritative(e).vaultId

\* One directory is served by at most one listener.
ServedOnce ==
  \A l, m \in listeners : l.dir = m.dir /\ ~strained[l.dir] => l = m

\* A load never writes over a state that is newer than the plugin.
NewerIsKept == ~lost

IdentityIsKept == TypeOK /\ ServedIsStored /\ IdentitiesAreUnique /\ ServedOnce /\ NewerIsKept

\* What mvp.md expects and the code does not keep: no second load of a directory
\* gets as far as a listener (two classification commands before the first has
\* saved, or an unload while load() runs), and a newer state is not overwritten
\* by the classification of a restricted vault either.
TwoLoads == \A l, m \in listeners : l.dir = m.dir => l = m
NewerSurvives ==
  \A d \in Dirs, t \in 1..MaxTasks :
    Authoritative(d) # None /\ Restricted(Authoritative(d)) =>
      tasks[d][t].at \notin {"recovery", "mirror"}
=============================================================================
