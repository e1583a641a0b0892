-------------------------- MODULE MCJournalContract --------------------------
(* JournalContract with a second session that moves between its steps.     *)
EXTENDS JournalContract, TLC

CONSTANTS r1, r2

MCSymmetry == Permutations({r1, r2})

=============================================================================
