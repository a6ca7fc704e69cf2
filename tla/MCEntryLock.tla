----------------------------- MODULE MCEntryLock -----------------------------
EXTENDS EntryLock, TLC

Symmetry == Permutations(Users) \cup Permutations(Calls)
=============================================================================
