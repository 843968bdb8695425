-------------------------------- MODULE MCLog -------------------------------
(* Log for TLC: processes and blocks are interchangeable. *)
EXTENDS Log, TLC
LogSymmetry == Permutations(Procs) \cup Permutations(Blocks)
=============================================================================
