-------------------------- MODULE MCRecoveryJournal --------------------------
\* RecoveryJournal with model values: two frames that fit and one that does
\* not, few enough sequence numbers that the last one is reached.
EXTENDS RecoveryJournal, TLC

CONSTANTS prepared, committed, oversized

MCFrames == {prepared, committed, oversized}
MCFits == {prepared, committed}
=============================================================================
