-------------------------- MODULE MCServiceAtomicity --------------------------
\* The service twice: with a journal, a registry store and third parties that
\* behave, and with errors and writes at any moment (faulty).  What holds in
\* both is checked in both; what needs the first is stated for it.
EXTENDS MCChangeSetService

VARIABLE faulty

Faulty == INSTANCE ChangeSetService WITH
  MaxControl <- 0, MaxCrashes <- 1, MaxFaults <- 2,
  JournalFaults <- TRUE, SaveFaults <- TRUE, Races <- TRUE

AnyNext ==
  \/ ~faulty /\ Next /\ UNCHANGED faulty
  \/ faulty /\ Faulty!Next /\ UNCHANGED faulty
AnySpec == Init /\ faulty \in BOOLEAN /\ [][AnyNext]_<<vars, faulty>>

\* The two outcomes that are no success say what they seem to say: where the
\* result is not applied no byte of the Change Set is left, and while one is
\* unproven a bridge at rest blocks writes, after a restart as before it, unless
\* a later frame replaced the evidence (#restorePrepared, #markUnproven, #recover).
OutcomesStand == ~faulty => NotAppliedLeavesNothing /\ UnprovenBlocks

\* The Bridge never overwrites bytes a third party wrote, unless they are the
\* ones its preview bound, as far as a compare can tell (outside the windows
\* between a compare and its rename).
OthersBytesSurvive ==
  [][~faulty => SparesThirdParties]_<<vars, faulty>>

\* The service implements atomic Change Sets: no client sees half of one, from
\* the journal's COMMITTED on it is applied, and it is never undecided again.
IsAtomic ==
  /\ faulty \/ Atomic!Init
  /\ [][faulty \/ Atomic!Next]_<<[p \in Paths |-> Content(p)], [c \in ChangeSets |-> Fate(c)]>>
===============================================================================
