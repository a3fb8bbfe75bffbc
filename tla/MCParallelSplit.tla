-------------------------- MODULE MCParallelSplit --------------------------
\* ParallelSplit with groups small enough to split in two.
EXTENDS ParallelSplit, TLC

\* Two parts, the first of which ends within a task, and one part.
SomeGroups == {<<3, 2>>, <<3>>}

Symmetry == Permutations(Threads)
=============================================================================
