------------------------------- MODULE Ticks --------------------------------
(***************************************************************************)
(* The tick counter: clockintr() (kernel/trap.c) and sys_sleep()           *)
(* (kernel/sysproc.c).  ticks is an unsigned counter of Width bits that    *)
(* wraps; the argument of sleep() is signed.                               *)
(*                                                                         *)
(* A section under tickslock is one step, but for the gap between the test *)
(* of killed() and sleep(): tickslock is held across it, so the clock      *)
(* stands still, but kill() does not need that lock.                       *)
(***************************************************************************)
EXTENDS Integers

CONSTANTS
  Dozers,       \* processes that call sleep()
  CPUids,       \* harts; 0 keeps the time
  Width,        \* bits of ticks (32)
  MaxN,         \* bound: the longest sleep asked for
  MaxDelay      \* bound: ticks a process that is due may have to wait for a CPU

Modulus == 2 ^ Width

\* n is a signed int and ticks an unsigned one of the same width: the longest
\* sleep, and the wait for a CPU after it, stay below the wrap of ticks
ASSUME TicksAssumption ==
  /\ Width \in Nat /\ Modulus \in Nat \ {0}
  /\ MaxN \in Nat /\ MaxDelay \in Nat
  /\ MaxN + MaxDelay < Modulus

VARIABLES
  ticks,        \* the counter
  dozer,        \* where each process is
  n, ticks0,    \* the locals of sys_sleep(); n as it was passed
  doomed,       \* p->killed
  since         \* ticks of hart 0 since the call began (history)

tkVars == <<ticks, dozer, n, ticks0, doomed, since>>

TkInit ==
  /\ ticks \in {0, Modulus - 1}
  /\ dozer = [p \in Dozers |-> "user"]
  /\ n = [p \in Dozers |-> 0]
  /\ ticks0 = [p \in Dozers |-> 0]
  /\ doomed = [p \in Dozers |-> FALSE]
  /\ since = [p \in Dozers |-> 0]

\* Mutant of Asked: a negative argument is not clamped.
AskedUnsigned(p) == n[p] % Modulus

\* n, made non-negative, as the comparison reads it
Asked(p) == IF n[p] < 0 THEN 0 ELSE n[p]

\* the loop condition of sys_sleep(), in unsigned arithmetic
NotDue(p) == (ticks - ticks0[p]) % Modulus < Asked(p)

TickslockFree == \A p \in Dozers : dozer[p] # "doze"

\* sys_sleep() up to the loop
Sleep(p, k) ==
  /\ dozer[p] = "user" /\ TickslockFree
  /\ n' = [n EXCEPT ![p] = k]
  /\ ticks0' = [ticks0 EXCEPT ![p] = ticks]
  /\ since' = [since EXCEPT ![p] = 0]
  /\ dozer' = [dozer EXCEPT ![p] = "loop"]
  /\ UNCHANGED <<ticks, doomed>>

\* the loop condition and the test of killed(); a return forgets the locals
Test(p) ==
  /\ dozer[p] = "loop" /\ TickslockFree
  /\ dozer' = [dozer EXCEPT ![p] = IF NotDue(p) /\ ~doomed[p] THEN "doze" ELSE "back"]
  /\ UNCHANGED <<ticks, n, ticks0, doomed, since>>

\* sleep(&ticks, &tickslock)
Doze(p) ==
  /\ dozer[p] = "doze"
  /\ dozer' = [dozer EXCEPT ![p] = "asleep"]
  /\ UNCHANGED <<ticks, n, ticks0, doomed, since>>

\* back in user space; a process that is killed exits there, and the
\* model gives its place to a new one
BackToUser(p) ==
  /\ dozer[p] = "back"
  /\ dozer' = [dozer EXCEPT ![p] = "user"]
  /\ n' = [n EXCEPT ![p] = 0]
  /\ ticks0' = [ticks0 EXCEPT ![p] = 0]
  /\ since' = [since EXCEPT ![p] = 0]
  /\ doomed' = [doomed EXCEPT ![p] = FALSE]
  /\ UNCHANGED ticks

KeepsTime(c) == c = 0

\* Mutant of Awake: wakeup(&ticks) is left out.
AwakeNobody == dozer

\* wakeup(&ticks)
Awake == [p \in Dozers |-> IF dozer[p] = "asleep" THEN "loop" ELSE dozer[p]]

\* clockintr() on hart c.  No process that is due waits for more than MaxDelay
\* ticks.
Clockintr(c) ==
  /\ \A p \in Dozers : dozer[p] # "user" => since[p] < Asked(p) + MaxDelay
  /\ IF KeepsTime(c)
     THEN TickslockFree /\ ticks' = (ticks + 1) % Modulus /\ dozer' = Awake
     ELSE UNCHANGED <<ticks, dozer>>
  /\ since' = [p \in Dozers |-> IF c = 0 /\ dozer[p] # "user" THEN since[p] + 1 ELSE since[p]]
  /\ UNCHANGED <<n, ticks0, doomed>>

\* kill() by another process, or unfreeze() of one that is not killed
KillDozer(p) ==
  /\ dozer[p] # "user"
  /\ doomed' = [doomed EXCEPT ![p] = TRUE]
  /\ dozer' = IF dozer[p] = "asleep" THEN [dozer EXCEPT ![p] = "loop"] ELSE dozer
  /\ UNCHANGED <<ticks, n, ticks0, since>>

UnfreezeDozer(p) ==
  /\ dozer[p] = "asleep"
  /\ dozer' = [dozer EXCEPT ![p] = "loop"]
  /\ UNCHANGED <<ticks, n, ticks0, doomed, since>>

TkNext ==
  \/ \E c \in CPUids : Clockintr(c)
  \/ \E p \in Dozers :
       \/ \E k \in -1 .. MaxN : Sleep(p, k)
       \/ Test(p) \/ Doze(p) \/ BackToUser(p) \/ KillDozer(p) \/ UnfreezeDozer(p)

\* The timer fires for ever and, like a process in the kernel, gets tickslock
\* in the end: the lock is free again and again.
TkFairness ==
  /\ SF_tkVars((\E p \in Dozers : dozer[p] # "user") /\ Clockintr(0))
  /\ \A p \in Dozers : SF_tkVars(Test(p) \/ Doze(p) \/ BackToUser(p))

TkSpec == TkInit /\ [][TkNext]_tkVars /\ TkFairness

(***************************************************************************)
(* Properties.                                                             *)
(***************************************************************************)
\* Every variable has its type.
TkTypeOK ==
  /\ ticks \in 0 .. Modulus - 1
  /\ dozer \in [Dozers -> {"user", "loop", "doze", "asleep", "back"}]
  /\ n \in [Dozers -> -1 .. MaxN]
  /\ ticks0 \in [Dozers -> 0 .. Modulus - 1]
  /\ doomed \in [Dozers -> BOOLEAN]
  /\ since \in [Dozers -> 0 .. MaxN + MaxDelay]

\* sleep(n) is exact: whoever leaves the loop without being killed has let n
\* ticks of hart 0 go by, and nobody is asleep once its n ticks have passed.
\* The wrap of ticks, a negative n and wakeups by kill() or unfreeze() change
\* nothing of that.
SleepExact == TkTypeOK /\ \A p \in Dozers :
  /\ dozer[p] = "back" /\ ~doomed[p] => since[p] >= n[p]
  /\ dozer[p] \in {"doze", "asleep"} => since[p] < n[p]

\* sleep() returns, also to a process that was killed in the gap before it
\* fell asleep.
SleepReturns == \A p \in Dozers : dozer[p] # "user" ~> dozer[p] = "user"
=============================================================================
