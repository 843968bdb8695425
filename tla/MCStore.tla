------------------------------- MODULE MCStore ------------------------------
(***************************************************************************)
(* The log and the buffer cache under it, for TLC in one run.  Log has its own *)
(* picture of the cache, so the two take no step together: part says which of *)
(* them runs, and the other stays as it was initialised.                     *)
(***************************************************************************)
EXTENDS Log, Bcache, TLC

VARIABLE part

stVars == <<vars, bcVars, part>>

StInit ==
  /\ part \in {"log", "bcache"}
  /\ Init /\ BcInit
  /\ part = "bcache" => home = [b \in Blocks |-> 0] /\ dlog = [k \in 1 .. LOGSIZE |-> 0]

\* the log stops after MaxOps calls, or in a panic; the cache in a panic
StNext ==
  \/ part = "log" /\ Next /\ UNCHANGED <<bcVars, part>>
  \/ part = "bcache" /\ BcNext /\ UNCHANGED <<vars, part>>
  \/ part = "log" /\ (ops = MaxOps \/ stage = "panic") /\ UNCHANGED stVars
  \/ part = "bcache" /\ ~BcacheFree /\ UNCHANGED stVars

StSpec == StInit /\ [][StNext]_stVars

\* processes, the blocks in Blocks, and what a buffer holds are interchangeable
StSymmetry == Permutations(Procs) \cup Permutations(Blocks) \cup Permutations(BufContents)
=============================================================================
