------------------------------ MODULE MCProcSys -----------------------------
(***************************************************************************)
(* Two process tables, sys_sleep() and the shell, for TLC in one run.  They   *)
(* share no state here: part says which of them runs, and the others stay as  *)
(* they were initialised.  The first table has room for a process that is     *)
(* killed while it waits for its child; the second has room for a pair, and   *)
(* its processes make every call.                                           *)
(***************************************************************************)
EXTENDS Proc, Ticks, Shell

CONSTANTS PairNPROC, PairCalls, PairTargets

VARIABLES part, state2, chan2, killed2, pid2, frozen2, parent2, nextpid2, lock2, wait_lock2,
          cproc2, stack2, scan2, ctx2, pc2, cur2, arg2

Pair == INSTANCE Proc WITH
  NPROC <- PairNPROC, Calls <- PairCalls, Targets <- PairTargets,
  state <- state2, chan <- chan2, killed <- killed2, pid <- pid2, frozen <- frozen2,
  parent <- parent2, nextpid <- nextpid2, lock <- lock2, wait_lock <- wait_lock2,
  cproc <- cproc2, stack <- stack2, scan <- scan2, ctx <- ctx2, pc <- pc2, cur <- cur2,
  arg <- arg2

pairVars == <<state2, chan2, killed2, pid2, frozen2, parent2, nextpid2, lock2, wait_lock2,
             cproc2, stack2, scan2, ctx2, pc2, cur2, arg2>>
psVars == <<vars, pairVars, tkVars, shVars, part>>

PsInit ==
  /\ part \in {"proc", "pair", "ticks", "shell"}
  /\ Init /\ Pair!Init /\ TkInit /\ ShInit
  /\ part # "ticks" => ticks = 0

\* the shell runs one line, and then waits for the next
PsNext ==
  \/ part = "proc" /\ Next /\ UNCHANGED <<pairVars, tkVars, shVars, part>>
  \/ part = "pair" /\ Pair!Next /\ UNCHANGED <<vars, tkVars, shVars, part>>
  \/ part = "ticks" /\ TkNext /\ UNCHANGED <<vars, pairVars, shVars, part>>
  \/ part = "shell" /\ ShNext /\ UNCHANGED <<vars, pairVars, tkVars, part>>
  \/ part = "shell" /\ prompt /\ UNCHANGED psVars

\* the fairness of the one that runs
PsFairness ==
  \/ []<>(part = "proc") /\ Fairness
  \/ []<>(part = "pair") /\ Pair!Fairness
  \/ []<>(part = "ticks") /\ TkFairness
  \/ []<>(part = "shell") /\ ShFairness

PsSpec == PsInit /\ [][PsNext]_psVars /\ PsFairness

\* The round robin of scheduler() reaches every process that may run, in the table
\* of two.
PairRuns == part = "pair" => Pair!EveryoneRuns

\* A call of wait() that has an exited child to collect returns, unless the caller
\* is frozen, in the table of two.
PairWaitReturns == Pair!WaitReturns

\* the command lines that are run
PsScripts == {
  <<"cd", "a">>, <<"a", "|", "b">>, <<"a", "<", "b", ">", "b", "|", "b">>, <<"a", "&">>,
  <<"(", "a", ";", "b", ")", "|", "a">>, <<"a", "|", "b", "|", "a">>, <<"a", "&", ";", "b">>,
  <<"a", "|", "(", "b", "&", ")">>, <<"|", "a">>, <<"(">>, <<"a", "|", "b", ">>", "a", "&">> }
=============================================================================
