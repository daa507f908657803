---------------------------- MODULE MCStatePurge ----------------------------
(***************************************************************************)
(* The operational state of a Managed Vault between its plugin and a purge, *)
(* beside the Release: StatePurge under names of its own, so that what is   *)
(* proved of the purge stands with what is proved of the Release.           *)
(***************************************************************************)
EXTENDS Naturals

CONSTANTS
  MaxSaves,        \* bound: registries ever saved
  MaxPurgeFaults,  \* bound: failing mirrors, deletions and damaged copies
  MaxPurgeCrashes  \* bound: ends of either process

ASSUME PurgeAssumption == {MaxSaves, MaxPurgeFaults, MaxPurgeCrashes} \subseteq Nat

VARIABLES
  disk, mem, saving, place, acked, step, todo, seen, copy, judged, ending, cleared, written,
  slips, deaths

Purge == INSTANCE StatePurge WITH
  at <- place, outcome <- ending, faults <- slips, crashes <- deaths,
  MaxFaults <- MaxPurgeFaults, MaxCrashes <- MaxPurgeCrashes

PurgeSpec == Purge!Spec

\* The files fit together, whatever is loaded, saved or deleted, and what the
\* next load (managed-vault-runtime.ts) finds is current.
StateIsConsistent == Purge!Consistent

\* A purge (purge-release.ts) deletes only what it copied, and never what is
\* still to be done.
DeletionIsSafe == [][Purge!DeletesTheCopied /\ Purge!DeletesNoWork]_(Purge!vars)
=============================================================================
