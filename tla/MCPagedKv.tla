----------------------------- MODULE MCPagedKv -----------------------------
EXTENDS PagedKv, TLC

\* Handles are told apart by equality only.
Symmetry == Permutations(Seqs) \cup Permutations(Prefixes)
=============================================================================
