----------------------------- MODULE StatePurge -----------------------------
(***************************************************************************)
(* The operational state of one Managed Vault: how the plugin keeps it     *)
(* (managed-vault-runtime.ts, main.ts) and how a purge takes it away       *)
(* (lifecycle/purge-release.ts).                                           *)
(*                                                                         *)
(* The plugin writes bridge-state.next, renames it over bridge-state.json, *)
(* then mirrors it to data.json, where a failure is swallowed. A purge     *)
(* enumerates the files, judges them, copies them, compares, asks and      *)
(* deletes; another process runs it, and it can stop anywhere.             *)
(*                                                                         *)
(* What a file holds is the number of the saved registry and whether that  *)
(* has pending work; for the Recovery Journal, whether its frame is open.  *)
(* The registry is at most one Change Set long.                            *)
(***************************************************************************)
EXTENDS Naturals

CONSTANTS
  MaxSaves,     \* bound: registries ever saved
  MaxFaults,    \* bound: failing mirrors, deletions and damaged copies
  MaxCrashes    \* bound: ends of either process; all three are numbers (MCStatePurge)

VARIABLES
  disk,      \* the files
  mem,       \* the registry the plugin works on
  saving,    \* the registry it saves or saved last
  at,        \* where the plugin is: down, idle, or in #saveSettings
  acked,     \* the last registry whose save returned, or that was loaded
  step,      \* where the purge is
  todo,      \* the files its loop has left
  seen,      \* its inventory: what it hashed
  copy,      \* the backup
  judged,    \* the registry the gate reads
  outcome,   \* of the last purge
  cleared,   \* a purge deleted since the last publication: clean, or raced when
             \* the plugin wrote while it ran
  written,   \* files the plugin wrote since the purge began
  faults, crashes

plugin == <<mem, saving, at, acked>>
purge == <<step, todo, seen, copy, judged, outcome>>
budget == <<faults, crashes>>
vars == <<disk, plugin, purge, cleared, written, budget>>

\* The files, and the order in which the purge lists, copies and deletes them.
Files == {"mirror", "auth", "next", "journal"}
Order == [mirror |-> 1, auth |-> 2, next |-> 3, journal |-> 4]
Content == [n : 0..(MaxSaves + 1), busy : BOOLEAN]
Absent == [n |-> 0, busy |-> FALSE]
Torn == [n |-> MaxSaves + 1, busy |-> FALSE]
AbsentFiles == [f \in Files |-> Absent]

\* The copy that load() takes: the recovery copy, else data.json.
MirrorFirst == IF disk["mirror"] # Absent THEN disk["mirror"] ELSE disk["auth"]
Loadable == IF disk["auth"] # Absent THEN disk["auth"] ELSE disk["mirror"]
\* The copy the gate judges (defaultReadPersistedState).
Evidence == IF disk["auth"] # Absent THEN disk["auth"] ELSE disk["mirror"]

TypeOK ==
  /\ disk \in [Files -> Content] /\ disk["auth"] # Torn
  /\ mem \in Content \ {Torn} /\ saving \in Content \ {Torn} /\ acked \in Content \ {Torn}
  /\ at \in {"down", "idle", "write", "written", "rename", "mirror"}
  /\ step \in {"off", "list", "registry", "hash", "journal", "health", "backup", "verify", "confirm",
               "delete", "check"}
  /\ todo \subseteq Files /\ written \subseteq Files
  /\ seen \in [Files -> Content] /\ copy \in [Files -> Content]
  /\ judged \in Content /\ cleared \in {"no", "clean", "raced"}
  /\ outcome \in {"none", "purged", "already_purged", "refused", "failed"}
  /\ faults \in 0..MaxFaults /\ crashes \in 0..MaxCrashes

Init ==
  /\ disk = AbsentFiles /\ mem = Absent /\ saving = Absent /\ at = "down" /\ acked = Absent
  /\ step = "off" /\ todo = {} /\ seen = AbsentFiles /\ copy = AbsentFiles /\ judged = Absent
  /\ outcome = "none" /\ cleared = "no" /\ written = {} /\ faults = 0 /\ crashes = 0

Fails == faults < MaxFaults /\ faults' = faults + 1 /\ UNCHANGED crashes
Works == UNCHANGED budget

-----------------------------------------------------------------------------
(* The plugin.                                                             *)

PluginWrites(f, c) ==
  /\ disk' = [disk EXCEPT ![f] = c] /\ written' = written \cup {f}

\* #saveSettings begins.
Saves(c) == saving' = c /\ at' = "write"

\* load: what it finds is saved again; a Vault without state gets an identity.
Load ==
  /\ at = "down" /\ Loadable # Torn
  /\ IF Loadable = Absent
     THEN /\ saving.n < MaxSaves /\ mem' = [n |-> saving.n + 1, busy |-> FALSE] /\ UNCHANGED acked
     ELSE mem' = Loadable /\ acked' = Loadable
  /\ Saves(mem') /\ UNCHANGED <<disk, purge, cleared, written, budget>>

\* saveRecovery: writeFile truncates, fills, and a rename publishes.
Draft == "next"
WriteNext ==
  /\ at \in {"write", "written"}
  /\ \/ at = "write" /\ at' = "written" /\ PluginWrites(Draft, Torn)
     \/ at = "written" /\ at' = "rename" /\ PluginWrites(Draft, saving)
  /\ UNCHANGED <<mem, saving, acked, purge, cleared, budget>>

\* The save returns.
Loading == mem = saving
Acknowledged == at' = "idle" /\ acked' = saving /\ mem' = saving

\* A registry that load() took from data.json is not mirrored again. The
\* rename fails when a purge took the draft away.
Rename ==
  /\ at = "rename"
  /\ IF disk["next"] = Absent
     THEN /\ at' = (IF Loading THEN "down" ELSE "idle")
          /\ UNCHANGED <<disk, written, mem, acked, cleared>>
     ELSE /\ cleared' = "no" /\ disk' = [disk EXCEPT !["auth"] = disk["next"], !["next"] = Absent]
          /\ written' = written \cup {"auth", "next"}
          /\ IF disk["auth"] = Absent /\ disk["mirror"] = saving THEN Acknowledged
             ELSE at' = "mirror" /\ UNCHANGED <<mem, acked>>
  /\ UNCHANGED <<saving, purge, budget>>

\* It can end up alone.
MirrorWrites(c) ==
  PluginWrites("mirror", c) /\ cleared' = IF disk["auth"] = Absent THEN "raced" ELSE cleared

\* The best-effort mirror; the save returns either way.
Mirror ==
  /\ at = "mirror" /\ Acknowledged
  /\ \/ Works /\ MirrorWrites(saving)
     \/ Fails /\ UNCHANGED <<disk, written, cleared>>
  /\ UNCHANGED <<saving, purge>>

\* A Change Set enters the queue, runs under the journal, and is terminal.
Submit ==
  /\ at = "idle" /\ ~mem.busy /\ mem.n < MaxSaves
  /\ Saves([n |-> mem.n + 1, busy |-> TRUE])
  /\ UNCHANGED <<disk, mem, acked, purge, cleared, written, budget>>

Execute ==
  /\ at = "idle" /\ mem.busy
  /\ \/ disk["journal"].n # mem.n /\ PluginWrites("journal", mem)
     \/ disk["journal"] = mem /\ PluginWrites("journal", [mem EXCEPT !.busy = FALSE])
  /\ UNCHANGED <<plugin, purge, cleared, budget>>

Finish ==
  /\ at = "idle" /\ mem.busy /\ mem.n < MaxSaves
  /\ disk["journal"] = [mem EXCEPT !.busy = FALSE]
  /\ Saves([n |-> mem.n + 1, busy |-> FALSE])
  /\ UNCHANGED <<disk, mem, acked, purge, cleared, written, budget>>

\* The process ends; a mirror write can be cut short.
PluginEnds ==
  /\ at # "down" /\ crashes < MaxCrashes /\ crashes' = crashes + 1 /\ at' = "down"
  /\ \/ UNCHANGED <<disk, written, cleared>>
     \/ at = "mirror" /\ MirrorWrites(Torn)
  /\ UNCHANGED <<mem, saving, acked, purge, faults>>

-----------------------------------------------------------------------------
(* The purge.                                                              *)

Stay == UNCHANGED <<plugin, disk>>
Kept == UNCHANGED <<cleared, written>>
Ends(o) == step' = "off" /\ outcome' = o
To(s) == step' = s /\ UNCHANGED outcome
Listed == {f \in Files : seen[f] # Absent}
First == CHOOSE f \in todo : \A g \in todo : Order[f] <= Order[g]
Rest == todo \ {First}

\* settingsBytes is read first, then the directory is listed.
StartPurge ==
  /\ step = "off" /\ To("list") /\ seen' = [AbsentFiles EXCEPT !["mirror"] = disk["mirror"]]
  /\ written' = {} /\ copy' = AbsentFiles /\ judged' = Absent /\ todo' = {}
  /\ UNCHANGED <<plugin, disk, cleared, budget>>

Listing ==
  /\ step = "list" /\ Stay /\ Kept /\ Works
  /\ todo' = {f \in Files \ {"mirror"} : disk[f] # Absent}
  /\ IF seen["mirror"] = Absent /\ todo' = {} THEN Ends("already_purged") ELSE To("registry")
  /\ UNCHANGED <<seen, copy, judged>>

\* Malformed evidence is refused.
ReadRegistry ==
  /\ step = "registry" /\ Stay /\ Kept /\ Works /\ judged' = Evidence
  /\ IF Evidence = Torn THEN Ends("refused") ELSE To("hash")
  /\ UNCHANGED <<seen, copy, todo>>

\* The digests of the files that were listed; the gate follows.
HashFile ==
  /\ step = "hash" /\ Stay /\ Kept /\ Works
  /\ IF todo # {}
     THEN /\ IF disk[First] = Absent THEN Ends("refused") ELSE To("hash")
          /\ seen' = [seen EXCEPT ![First] = disk[First]] /\ todo' = Rest
     ELSE /\ IF judged.busy THEN Ends("refused") ELSE To("journal")
          /\ UNCHANGED <<seen, todo>>
  /\ UNCHANGED <<copy, judged>>

ReadJournal ==
  /\ step = "journal" /\ Stay /\ Kept /\ Works
  /\ IF disk["journal"].busy THEN Ends("refused") ELSE To("health")
  /\ UNCHANGED <<seen, copy, judged, todo>>

\* A Bridge that is asked and answers must be drained, and have persisted
\* settings. It answers once load() is through.
Answers == at = "idle" \/ (at # "down" /\ ~Loading)
ObserveHealth ==
  /\ step = "health" /\ Stay /\ Kept /\ Works
  /\ \E asked \in BOOLEAN :
       IF asked /\ Answers /\ (mem.busy \/ saving.busy \/ judged = Absent)
       THEN Ends("refused") ELSE To("backup")
  /\ todo' = Listed /\ UNCHANGED <<seen, copy, judged>>

\* Each file is read again, compared with its digest and written.
Matches(f) == disk[f] = seen[f]
BackUp ==
  /\ step = "backup" /\ Stay /\ Kept
  /\ IF todo = {} THEN Works /\ To("verify") /\ todo' = Listed /\ UNCHANGED copy
     ELSE IF ~Matches(First) THEN Works /\ Ends("failed") /\ UNCHANGED <<copy, todo>>
     ELSE /\ todo' = Rest /\ To("backup")
          /\ \/ Works /\ copy' = [copy EXCEPT ![First] = disk[First]]
             \/ Fails /\ copy' = [copy EXCEPT ![First] = Torn]
  /\ UNCHANGED <<seen, judged>>

\* The copies and the sources are compared with the inventory.
UnverifiedCopy(f) == Matches(f)
Verified(f) == copy[f] = seen[f] /\ Matches(f)
Verify ==
  /\ step = "verify" /\ Stay /\ Kept /\ Works
  /\ IF todo = {} THEN To("confirm") /\ UNCHANGED todo
     ELSE IF Verified(First) THEN To("verify") /\ todo' = Rest
     ELSE Ends("failed") /\ UNCHANGED todo
  /\ UNCHANGED <<seen, copy, judged>>

\* The Primary Operator affirms, declines, or the seam is missing.
Confirm ==
  /\ step = "confirm" /\ Stay /\ Kept /\ Works
  /\ To("delete") \/ Ends("refused")
  /\ todo' = Listed /\ UNCHANGED <<seen, copy, judged>>

Victim == First
Remove ==
  /\ step = "delete" /\ UNCHANGED <<plugin, written, seen, copy, judged>>
  /\ IF todo = {}
     THEN Works /\ To("check") /\ todo' = Listed /\ UNCHANGED <<disk, cleared>>
     ELSE \/ /\ Works /\ To("delete") /\ todo' = todo \ {Victim}
             /\ disk' = [disk EXCEPT ![Victim] = Absent]
             /\ cleared' = IF written = {} THEN "clean" ELSE "raced"
          \/ Fails /\ Ends("failed") /\ UNCHANGED <<disk, cleared, todo>>

NoSurvivor == \A f \in Files : seen[f] # Absent => disk[f] = Absent
Check ==
  /\ step = "check" /\ Stay /\ Kept /\ Works
  /\ Ends(IF NoSurvivor THEN "purged" ELSE "failed")
  /\ UNCHANGED <<seen, copy, judged, todo>>

\* The purge is interrupted.
PurgeEnds ==
  /\ step # "off" /\ crashes < MaxCrashes /\ crashes' = crashes + 1 /\ Ends("none")
  /\ UNCHANGED <<disk, plugin, todo, seen, copy, judged, cleared, written, faults>>

PluginStep == Load \/ WriteNext \/ Rename \/ Mirror \/ Submit \/ Execute \/ Finish
PurgeStep ==
  \/ Listing \/ ReadRegistry \/ HashFile \/ ReadJournal \/ ObserveHealth \/ BackUp \/ Verify
  \/ Confirm \/ Remove \/ Check
Next == PluginStep \/ PluginEnds \/ StartPurge \/ PurgeStep \/ PurgeEnds
Spec == Init /\ [][Next]_vars

-----------------------------------------------------------------------------
\* Whatever stopped where, the next load finds the last registry that was
\* acknowledged (or the one being saved), never an older one; and nothing at
\* all only after a confirmed deletion. A plugin that writes while a purge runs
\* can lose this until it publishes again.
LoadIsCurrent ==
  at = "down" /\ cleared # "raced" => Loadable \in {acked, saving} \cup (IF cleared = "clean" THEN {Absent} ELSE {})

\* The files fit together, whatever is loaded, saved or deleted.
Consistent == TypeOK /\ LoadIsCurrent

Deletes(f) == step = "delete" /\ disk[f] # Absent /\ disk'[f] = Absent

\* Every byte the purge deletes is in its backup, as far as the plugin did not
\* write that file since the purge began.
DeletesTheCopied == \A f \in Files \ written : Deletes(f) => copy[f] = disk[f]

\* When the plugin wrote nothing since the purge began, no pending work and no
\* open journal frame is deleted.
DeletesNoWork ==
  \A f \in Files : Deletes(f) /\ written = {} => ~Loadable.busy /\ ~disk["journal"].busy
=============================================================================
