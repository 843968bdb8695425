----------------------------- MODULE SleepLock ------------------------------
(***************************************************************************)
(* The sleep locks of kernel/sleeplock.c, used by processes that may be    *)
(* killed, frozen and unfrozen while they wait for the lock or hold it.    *)
(*                                                                         *)
(* A section under lk->lk is one step.  A process that is frozen and off   *)
(* the CPU takes no step (FrozenPreserved in Proc); one that is frozen     *)
(* while it runs goes on until the timer takes the CPU away.               *)
(***************************************************************************)
EXTENDS Naturals

CONSTANTS
  Sleepers,     \* processes; a pid names a process (PidUnique in Proc)
  NoSleeper     \* lk->pid = 0

VARIABLES
  lk,           \* struct sleeplock: locked, pid
  at,           \* where each process is
  frozen,       \* p->frozen
  stopped       \* frozen and off the CPU

slVars == <<lk, at, frozen, stopped>>

SlInit ==
  /\ lk = [locked |-> FALSE, pid |-> NoSleeper]
  /\ at = [p \in Sleepers |-> "out"]
  /\ frozen = [p \in Sleepers |-> FALSE]
  /\ stopped = [p \in Sleepers |-> FALSE]

\* a process comes to acquiresleep()
Want(p) ==
  /\ at[p] = "out" /\ ~stopped[p]
  /\ at' = [at EXCEPT ![p] = "acquire"]
  /\ UNCHANGED <<lk, frozen, stopped>>

\* Mutant of MustSleep: the waiter does not look again after it has slept.
MustSleepOnce(p) == lk.locked /\ at[p] = "acquire"

\* the loop condition of acquiresleep()
MustSleep(p) == lk.locked

\* one round of the loop, up to sleep(), or the return with the lock
Acquiresleep(p) ==
  /\ at[p] \in {"acquire", "woken"} /\ ~stopped[p]
  /\ IF MustSleep(p)
     THEN at' = [at EXCEPT ![p] = "asleep"] /\ UNCHANGED lk
     ELSE /\ lk' = [locked |-> TRUE, pid |-> p]
          /\ at' = [at EXCEPT ![p] = "in"]
  /\ UNCHANGED <<frozen, stopped>>

\* Mutant of SlWoken: nobody is woken.
SlWokenNobody == at

\* wakeup(lk)
SlWoken == [q \in Sleepers |-> IF at[q] = "asleep" THEN "woken" ELSE at[q]]

Releasesleep(p) ==
  /\ at[p] = "in" /\ ~stopped[p]
  /\ lk' = [locked |-> FALSE, pid |-> NoSleeper]
  /\ at' = [SlWoken EXCEPT ![p] = "out"]
  /\ UNCHANGED <<frozen, stopped>>

Holdingsleep(p) == lk.locked /\ lk.pid = p

(***************************************************************************)
(* kill(), freeze() and unfreeze() by others, and the timer interrupt.     *)
(***************************************************************************)
Kill(p) ==
  /\ at[p] = "asleep"
  /\ at' = [at EXCEPT ![p] = "woken"]
  /\ UNCHANGED <<lk, frozen, stopped>>

\* a process that is asleep is off the CPU
Freeze(p) ==
  /\ ~frozen[p]
  /\ frozen' = [frozen EXCEPT ![p] = TRUE]
  /\ stopped' = [stopped EXCEPT ![p] = at[p] = "asleep"]
  /\ UNCHANGED <<lk, at>>

\* yield() on the timer interrupt, or the scheduler passing a process by
Stop(p) ==
  /\ frozen[p] /\ ~stopped[p]
  /\ stopped' = [stopped EXCEPT ![p] = TRUE]
  /\ UNCHANGED <<lk, at, frozen>>

Unfreeze(p) ==
  /\ frozen[p]
  /\ frozen' = [frozen EXCEPT ![p] = FALSE]
  /\ stopped' = [stopped EXCEPT ![p] = FALSE]
  /\ at' = IF at[p] = "asleep" THEN [at EXCEPT ![p] = "woken"] ELSE at
  /\ UNCHANGED lk

SlNext == \E p \in Sleepers :
  \/ Want(p) \/ Acquiresleep(p) \/ Releasesleep(p)
  \/ Kill(p) \/ Freeze(p) \/ Stop(p) \/ Unfreeze(p)

SlSpec == SlInit /\ [][SlNext]_slVars

\* A process that may run goes on in the kernel; nobody need unfreeze anybody.
SlFairness == \A p \in Sleepers :
  WF_slVars(Acquiresleep(p)) /\ WF_slVars(Releasesleep(p))

SlFairSpec == SlSpec /\ SlFairness

(***************************************************************************)
(* Properties.                                                             *)
(***************************************************************************)
\* Every variable has its type.
SlTypeOK ==
  /\ lk \in [locked : BOOLEAN, pid : Sleepers \cup {NoSleeper}]
  /\ at \in [Sleepers -> {"out", "acquire", "woken", "asleep", "in"}]
  /\ frozen \in [Sleepers -> BOOLEAN] /\ stopped \in [Sleepers -> BOOLEAN]

\* holdingsleep() is true of the one process past acquiresleep() and of nobody
\* else, however the others are woken: two holders would refute it, and so the
\* panics of bwrite(), brelse() and iunlock() fire only on a wrong caller.
HoldingIsExact ==
  /\ SlTypeOK
  /\ \A p \in Sleepers : Holdingsleep(p) <=> at[p] = "in"

\* A waiter goes on sleeping only behind a holder that is frozen, or because it
\* is frozen itself: a frozen holder, and nothing else, keeps everyone waiting.
WaitsOnlyForFrozen == \A p \in Sleepers :
  at[p] = "asleep" ~>
    \/ at[p] # "asleep" \/ stopped[p]
    \/ \E q \in Sleepers : at[q] = "in" /\ stopped[q]
=============================================================================
