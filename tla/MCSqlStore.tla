----------------------------- MODULE MCSqlStore -----------------------------
EXTENDS SqlStore, TLC

Symmetry == Permutations(Tasks) \cup Permutations(Workers) \cup Permutations(People)
=============================================================================
