----------------------------- MODULE MCProcFiles ----------------------------
(***************************************************************************)
(* The process table, traps and open files, for TLC in one run.  They share   *)
(* no state here: part says which of them runs, and the others stay as they   *)
(* were initialised.                                                        *)
(***************************************************************************)
EXTENDS Proc, Trap, FileTable, TLC

VARIABLE part

pfVars == <<vars, trapVars, ftVars, part>>

PfInit == part \in {"proc", "trap", "filetable"} /\ Init /\ TrapInit /\ FtInit

PfNext ==
  \/ part = "proc" /\ Next /\ UNCHANGED <<trapVars, ftVars, part>>
  \/ part = "trap" /\ TrapNext /\ UNCHANGED <<vars, ftVars, part>>
  \/ part = "filetable" /\ FtNext /\ UNCHANGED <<vars, trapVars, part>>

PfSpec == PfInit /\ [][PfNext]_pfVars

CPUSymmetry == Permutations(CPUs)
=============================================================================
