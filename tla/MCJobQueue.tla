----------------------------- MODULE MCJobQueue -----------------------------
(* JobQueue for TLC: the symmetry of the processes and of a pool's threads,  *)
(* used by the runs that check no liveness.                                  *)
EXTENDS JobQueue, TLC

PoolSymmetry == Permutations(Threads)
Symmetry == Permutations(Workers) \cup Permutations(Threads)
=============================================================================
