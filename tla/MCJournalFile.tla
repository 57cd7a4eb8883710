---------------------------- MODULE MCJournalFile ----------------------------
(* Processes are interchangeable, and so are batches of one kind.          *)
EXTENDS JournalFile, TLC

MCSymmetry == Permutations(Processes) \cup Permutations(Appends)
=============================================================================
