----------------------------- MODULE ProcProofs -----------------------------
(***************************************************************************)
(* Proofs about Proc, for any number of slots and CPUs.                    *)
(***************************************************************************)
EXTENDS Proc, TLAPS

(***************************************************************************)
(* The inductive invariants, each relative to the ones before it.          *)
(***************************************************************************)
\* Who holds p->lock across swtch(), and whose stack a CPU is on.
CpuInv ==
  /\ \A c \in CPUs : stack[c] # 0 => cproc[c] = stack[c]
  /\ \A c, d \in CPUs : cproc[c] # 0 /\ cproc[c] = cproc[d] => c = d
  /\ \A p \in Procs : lock[p] # NoCPU => cproc[lock[p]] = p
  /\ \A p \in Procs : state[p] = "RUNNING" => \E c \in CPUs : stack[c] = p
  /\ \A c \in CPUs : cproc[c] # 0 =>
       /\ state[cproc[c]] \notin {"UNUSED", "USED"}
       /\ state[cproc[c]] # "RUNNING" => lock[cproc[c]] = c
       /\ stack[c] = 0 => state[cproc[c]] # "RUNNING"
       /\ ctx[cproc[c]] # "run" => lock[cproc[c]] = c
       /\ ctx[cproc[c]] = "run" =>
            state[cproc[c]] = "RUNNING" /\ lock[cproc[c]] = NoCPU

\* What a thread's saved context and position say about its slot, and that a
\* slot fork() is filling belongs to that fork() alone.
ThreadInv ==
  /\ \A p \in Procs : state[p] \in {"USED", "RUNNABLE", "SLEEPING", "ZOMBIE"}
                        => ctx[p] # "run"
  /\ \A p \in Procs : state[p] \in {"UNUSED", "USED", "ZOMBIE"}
                        => pc[p] = "user"
  /\ \A p \in Procs : pc[p] \in {"link", "mkrun"}
                        => arg[p] \in Procs /\ state[arg[p]] = "USED"
  /\ \A p, q \in Procs : /\ pc[p] \in {"link", "mkrun"}
                         /\ pc[q] \in {"link", "mkrun"}
                         /\ arg[p] = arg[q]
                         => p = q
  /\ \A p \in Procs : pc[p] \in {"fork", "kill", "freeze", "unfreeze"}
                        => cur[p] # 0
  /\ \A p \in Procs : pc[p] \in {"rwake", "pwake", "wscan"} => cur[p] \in Procs

\* The labels at which a thread holds wait_lock.
WaitHeld == {"reparent", "rwake", "pwake", "zombie", "wscan", "wend", "wsleep"}

\* wait_lock is held exactly by the CPU that runs a thread at such a label.
WaitLockInv ==
  /\ \A p \in Procs : pc[p] \in WaitHeld =>
       wait_lock \in CPUs /\ stack[wait_lock] = p /\ ctx[p] = "run"
  /\ wait_lock # NoCPU =>
       stack[wait_lock] # 0 /\ pc[stack[wait_lock]] \in WaitHeld

(***************************************************************************)
(* Type correctness.                                                       *)
(***************************************************************************)
\* The arithmetic of slots that the proofs need.
LEMMA SlotFacts ==
  /\ NPROC \in Nat /\ initproc \in Procs /\ 0 \notin Procs
  /\ \A p \in Procs :
       p \in Nat /\ p \in ProcOrNull /\ p \in Cursors /\ (p % NPROC) + 1 \in Procs
  /\ \A p \in ProcOrNull : p # 0 => p \in Procs
  /\ \A i \in Cursors : i \in Nat /\ (i <= NPROC => i + 1 \in Cursors)
                       /\ (i < NPROC => i + 1 \in Cursors)
  /\ 0 \in ProcOrNull /\ 0 \in Cursors /\ 1 \in Cursors
<1>1. \A p \in Procs : (p % NPROC) + 1 \in Procs
  <2> SUFFICES ASSUME NEW p \in Procs PROVE p % NPROC \in 0..(NPROC - 1)
    BY NPROCAssumption DEF Procs
  <2> QED
    BY NPROCAssumption DEF Procs
<1> QED
  BY <1>1, NPROCAssumption DEF Procs, ProcOrNull, Cursors, initproc

\* A cursor that has left the null slot and not the table is at a slot.
LEMMA CursorInRange == \A i \in Cursors : i # 0 /\ i <= NPROC => i \in Procs
BY NPROCAssumption DEF Procs, Cursors

\* procinit() and userinit() establish the types.
LEMMA TypeInit == Init => TypeOK
BY SlotFacts DEF Init, TypeOK, States, Contexts, Labels, initproc

\* Every action keeps every variable in its type.
LEMMA TypeNext == TypeOK /\ [Next]_vars => TypeOK'
<1> SUFFICES ASSUME TypeOK, [Next]_vars PROVE TypeOK'
  OBVIOUS
<1> USE SlotFacts, CallsAssumption, TargetsAssumption
    DEF TypeOK, States, Contexts, Labels, procvars, cpuvars, lockvars, thrvars
<1>0. CASE UNCHANGED vars
  BY <1>0 DEF vars
<1>1. ASSUME NEW c \in CPUs, SchedSkip(c) PROVE TypeOK'
  BY <1>1 DEF SchedSkip, Advance
<1>2. ASSUME NEW c \in CPUs, SchedDispatch(c) PROVE TypeOK'
  BY <1>2 DEF SchedDispatch
<1>3. ASSUME NEW c \in CPUs, SchedRelease(c) PROVE TypeOK'
  BY <1>3 DEF SchedRelease, Advance
<1>4. ASSUME NEW c \in CPUs, Swtch(c) PROVE TypeOK'
  BY <1>4 DEF Swtch
<1>5. ASSUME NEW c \in CPUs, Resume(c) PROVE TypeOK'
  BY <1>5 DEF Resume
<1>6. ASSUME NEW c \in CPUs, UserTimer(c) PROVE TypeOK'
  <2>1. PICK p \in Procs : UserTimer(c)!(p)
    BY <1>6 DEF UserTimer
  <2>2. state' \in [Procs -> States]
    BY <2>1 DEF GiveUp, Goto
  <2>3. lock' \in [Procs -> CPUs \cup {NoCPU}]
    BY <2>1 DEF GiveUp, Goto
  <2>4. ctx' \in [Procs -> Contexts]
    BY <2>1 DEF GiveUp, Goto
  <2>5. pc' \in [Procs -> Labels]
    BY <2>1 DEF GiveUp, Goto
  <2> QED
    BY <2>1, <2>2, <2>3, <2>4, <2>5
<1>7. ASSUME NEW c \in CPUs, KernelTimer(c) PROVE TypeOK'
  <2>1. PICK p \in Procs : KernelTimer(c)!(p)
    BY <1>7 DEF KernelTimer
  <2> QED
    BY <2>1 DEF GiveUp
<1>8. ASSUME NEW c \in CPUs, Syscall(c) PROVE TypeOK'
  <2>1. PICK p \in Procs, call \in Calls, n \in Targets \cup {0} :
          Syscall(c)!(p, call, n)
    BY <1>8 DEF Syscall
  <2>2. call \in Labels /\ n \in Nat
    BY <2>1
  <2>3. pc' \in [Procs -> Labels]
    BY <2>1, <2>2 DEF Goto, GotoAt
  <2>4. cur' \in [Procs -> Cursors]
    BY <2>1 DEF GotoAt
  <2>5. arg' \in [Procs -> Nat]
    BY <2>1, <2>2
  <2> QED
    BY <2>1, <2>3, <2>4, <2>5
<1>9. ASSUME NEW c \in CPUs, Fault(c) PROVE TypeOK'
  <2>1. PICK p \in Procs : Fault(c)!(p)
    BY <1>9 DEF Fault
  <2> QED
    BY <2>1 DEF Goto
<1>10. ASSUME NEW c \in CPUs, TrapReturn(c) PROVE TypeOK'
  <2>1. PICK p \in Procs : TrapReturn(c)!(p)
    BY <1>10 DEF TrapReturn
  <2> QED
    BY <2>1 DEF Goto
<1>11. ASSUME NEW c \in CPUs, AllocSkip(c) PROVE TypeOK'
  <2>1. PICK p \in Procs : AllocSkip(c)!(p)
    BY <1>11 DEF AllocSkip
  <2>2. pc' \in [Procs -> Labels]
    BY <2>1 DEF Goto, GotoAt, Return
  <2>3. cur' \in [Procs -> Cursors]
    BY <2>1 DEF Goto, GotoAt, Return
  <2>4. arg' \in [Procs -> Nat]
    BY <2>1 DEF Goto, GotoAt, Return
  <2> QED
    BY <2>1, <2>2, <2>3, <2>4
<1>12. ASSUME NEW c \in CPUs, AllocFail(c) PROVE TypeOK'
  <2>1. PICK p \in Procs : AllocFail(c)!(p)
    BY <1>12 DEF AllocFail
  <2>2. nextpid' \in Nat
    BY <2>1 DEF FreeProc, Goto, GotoAt, Return
  <2>3. state' \in [Procs -> States]
    BY <2>1 DEF FreeProc, Goto, GotoAt, Return
  <2>4. chan' \in [Procs -> ProcOrNull]
    BY <2>1 DEF FreeProc, Goto, GotoAt, Return
  <2>5. killed' \in [Procs -> BOOLEAN]
    BY <2>1 DEF FreeProc, Goto, GotoAt, Return
  <2>6. pid' \in [Procs -> Nat]
    BY <2>1 DEF FreeProc, Goto, GotoAt, Return
  <2>7. parent' \in [Procs -> ProcOrNull]
    BY <2>1 DEF FreeProc, Goto, GotoAt, Return
  <2>8. pc' \in [Procs -> Labels]
    BY <2>1 DEF FreeProc, Goto, GotoAt, Return
  <2>9. cur' \in [Procs -> Cursors]
    BY <2>1 DEF FreeProc, Goto, GotoAt, Return
  <2>10. arg' \in [Procs -> Nat]
    BY <2>1 DEF FreeProc, Goto, GotoAt, Return
  <2> QED
    BY <2>1, <2>2, <2>3, <2>4, <2>5, <2>6, <2>7, <2>8, <2>9, <2>10 DEF FreeProc
<1>13. ASSUME NEW c \in CPUs, AllocOk(c) PROVE TypeOK'
  <2>1. PICK p \in Procs : AllocOk(c)!(p)
    BY <1>13 DEF AllocOk
  <2>2. nextpid' \in Nat
    BY <2>1
  <2>3. pid' \in [Procs -> Nat]
    BY <2>1
  <2>4. state' \in [Procs -> States]
    BY <2>1
  <2>5. ctx' \in [Procs -> Contexts]
    BY <2>1
  <2>6. pc' \in [Procs -> Labels]
    BY <2>1
  <2>7. cur' \in [Procs -> Cursors]
    BY <2>1
  <2>8. arg' \in [Procs -> Nat]
    BY <2>1
  <2> QED
    BY <2>1, <2>2, <2>3, <2>4, <2>5, <2>6, <2>7, <2>8
<1>14. ASSUME NEW c \in CPUs, ForkLink(c) PROVE TypeOK'
  <2>1. PICK p \in Procs : ForkLink(c)!(p)
    BY <1>14 DEF ForkLink
  <2> QED
    BY <2>1 DEF Goto
<1>15. ASSUME NEW c \in CPUs, ForkRunnable(c) PROVE TypeOK'
  <2>1. PICK p \in Procs : ForkRunnable(c)!(p)
    BY <1>15 DEF ForkRunnable
  <2> QED
    BY <2>1 DEF Goto, GotoAt, Return
<1>16. ASSUME NEW c \in CPUs, ExitBegin(c) PROVE TypeOK'
  <2>1. PICK p \in Procs : ExitBegin(c)!(p)
    BY <1>16 DEF ExitBegin
  <2>2. pc' \in [Procs -> Labels]
    BY <2>1 DEF Goto
  <2>3. wait_lock' \in CPUs \cup {NoCPU}
    BY <2>1
  <2> QED
    BY <2>1, <2>2, <2>3
<1>17. ASSUME NEW c \in CPUs, Reparent(c) PROVE TypeOK'
  <2>1. PICK p \in Procs : Reparent(c)!(p)
    BY <1>17 DEF Reparent
  <2>2. parent' \in [Procs -> ProcOrNull]
    BY <2>1 DEF Goto, GotoAt
  <2>3. pc' \in [Procs -> Labels]
    BY <2>1 DEF Goto, GotoAt
  <2>4. cur' \in [Procs -> Cursors]
    BY <2>1 DEF Goto, GotoAt
  <2> QED
    BY <2>1, <2>2, <2>3, <2>4
<1>18. ASSUME NEW c \in CPUs, WakeInit(c) PROVE TypeOK'
  <2>1. PICK p \in Procs : WakeIter(c, "rwake", "reparent")!(p)
    BY <1>18 DEF WakeInit, WakeIter
  <2>2. state' \in [Procs -> States]
    BY <2>1 DEF WakeSlot, Goto, GotoAt
  <2>3. pc' \in [Procs -> Labels]
    BY <2>1 DEF Goto, GotoAt
  <2>4. PICK i \in Cursors : cur' = [cur EXCEPT ![p] = i]
    <3>1. \/ cur[p] < NPROC /\ cur' = [cur EXCEPT ![p] = cur[p] + 1]
          \/ cur' = [cur EXCEPT ![p] = 0]
      BY <2>1, Zenon DEF GotoAt
    <3> QED
      BY <3>1
  <2>5. cur' \in [Procs -> Cursors]
    BY <2>4
  <2> QED
    BY <2>1, <2>2, <2>3, <2>5
<1>19. ASSUME NEW c \in CPUs, WakeParent(c) PROVE TypeOK'
  <2>1. PICK p \in Procs : WakeIter(c, "pwake", "zombie")!(p)
    BY <1>19 DEF WakeParent, WakeIter
  <2>2. state' \in [Procs -> States]
    BY <2>1 DEF WakeSlot, Goto, GotoAt
  <2>3. pc' \in [Procs -> Labels]
    BY <2>1 DEF Goto, GotoAt
  <2>4. PICK i \in Cursors : cur' = [cur EXCEPT ![p] = i]
    <3>1. \/ cur[p] < NPROC /\ cur' = [cur EXCEPT ![p] = cur[p] + 1]
          \/ cur' = [cur EXCEPT ![p] = 0]
      BY <2>1, Zenon DEF GotoAt
    <3> QED
      BY <3>1
  <2>5. cur' \in [Procs -> Cursors]
    BY <2>4
  <2> QED
    BY <2>1, <2>2, <2>3, <2>5
<1>20. ASSUME NEW c \in CPUs, ExitZombie(c) PROVE TypeOK'
  <2>1. PICK p \in Procs : ExitZombie(c)!(p)
    BY <1>20 DEF ExitZombie
  <2> QED
    BY <2>1 DEF GiveUp, Goto
<1>21. ASSUME NEW c \in CPUs, WaitBegin(c) PROVE TypeOK'
  <2>1. PICK p \in Procs : WaitBegin(c)!(p)
    BY <1>21 DEF WaitBegin
  <2> QED
    BY <2>1 DEF Goto, GotoAt
<1>22. ASSUME NEW c \in CPUs, WaitSkip(c) PROVE TypeOK'
  <2>1. PICK p \in Procs : WaitSkip(c)!(p)
    BY <1>22 DEF WaitSkip
  <2>2. pc' \in [Procs -> Labels]
    BY <2>1 DEF Goto, GotoAt
  <2>3. PICK i \in Cursors : cur' = [cur EXCEPT ![p] = i]
    <3>1. \/ cur[p] < NPROC /\ cur' = [cur EXCEPT ![p] = cur[p] + 1]
          \/ cur' = [cur EXCEPT ![p] = 0]
      BY <2>1, Zenon DEF GotoAt
    <3> QED
      BY <3>1
  <2>4. cur' \in [Procs -> Cursors]
    BY <2>3
  <2>5. arg' \in [Procs -> Nat]
    BY <2>1 DEF Goto, GotoAt
  <2> QED
    BY <2>1, <2>2, <2>4, <2>5
<1>23. ASSUME NEW c \in CPUs, WaitReap(c) PROVE TypeOK'
  <2>1. PICK p \in Procs : WaitReap(c)!(p)
    BY <1>23 DEF WaitReap
  <2>2. state' \in [Procs -> States]
    BY <2>1 DEF FreeProc, Goto, GotoAt, Return
  <2>3. chan' \in [Procs -> ProcOrNull]
    BY <2>1 DEF FreeProc, Goto, GotoAt, Return
  <2>4. killed' \in [Procs -> BOOLEAN]
    BY <2>1 DEF FreeProc, Goto, GotoAt, Return
  <2>5. pid' \in [Procs -> Nat]
    BY <2>1 DEF FreeProc, Goto, GotoAt, Return
  <2>6. parent' \in [Procs -> ProcOrNull]
    BY <2>1 DEF FreeProc, Goto, GotoAt, Return
  <2>7. wait_lock' \in CPUs \cup {NoCPU}
    BY <2>1 DEF FreeProc, Goto, GotoAt, Return
  <2>8. pc' \in [Procs -> Labels]
    BY <2>1 DEF FreeProc, Goto, GotoAt, Return
  <2>9. cur' \in [Procs -> Cursors]
    BY <2>1 DEF FreeProc, Goto, GotoAt, Return
  <2>10. arg' \in [Procs -> Nat]
    BY <2>1 DEF FreeProc, Goto, GotoAt, Return
  <2> QED
    BY <2>1, <2>2, <2>3, <2>4, <2>5, <2>6, <2>7, <2>8, <2>9, <2>10 DEF FreeProc
<1>24. ASSUME NEW c \in CPUs, WaitCheck(c) PROVE TypeOK'
  <2>1. PICK p \in Procs : WaitCheck(c)!(p)
    BY <1>24 DEF WaitCheck
  <2>2. wait_lock' \in CPUs \cup {NoCPU}
    BY <2>1 DEF Goto, GotoAt, Return
  <2>3. pc' \in [Procs -> Labels]
    BY <2>1 DEF Goto, GotoAt, Return
  <2>4. cur' \in [Procs -> Cursors]
    BY <2>1 DEF Goto, GotoAt, Return
  <2>5. arg' \in [Procs -> Nat]
    BY <2>1 DEF Goto, GotoAt, Return
  <2> QED
    BY <2>1, <2>2, <2>3, <2>4, <2>5
<1>25. ASSUME NEW c \in CPUs, WaitSleep(c) PROVE TypeOK'
  <2>1. PICK p \in Procs : WaitSleep(c)!(p)
    BY <1>25 DEF WaitSleep
  <2> QED
    BY <2>1 DEF GiveUp, Goto
<1>26. ASSUME NEW c \in CPUs, PidScan(c) PROVE TypeOK'
  <2>1. PICK p \in Procs, l \in {"kill", "freeze", "unfreeze"} : PidScan(c)!(p, l)
    BY <1>26 DEF PidScan
  <2>2. pc' \in [Procs -> Labels]
    BY <2>1 DEF Goto, GotoAt, Return
  <2>3. cur' \in [Procs -> Cursors]
    BY <2>1 DEF Goto, GotoAt, Return
  <2>4. arg' \in [Procs -> Nat]
    BY <2>1 DEF Goto, GotoAt, Return
  <2> QED
    BY <2>1, <2>2, <2>3, <2>4
<1>27. ASSUME NEW c \in CPUs, Kill(c) PROVE TypeOK'
  <2>1. PICK p, q \in Procs : Kill(c)!(p, q)
    BY <1>27 DEF Kill
  <2> QED
    BY <2>1 DEF Rouse, Goto, GotoAt, Return
<1>28. ASSUME NEW c \in CPUs, Freeze(c) PROVE TypeOK'
  <2>1. PICK p, q \in Procs : Freeze(c)!(p, q)
    BY <1>28 DEF Freeze
  <2> QED
    BY <2>1 DEF Goto, GotoAt, Return
<1>29. ASSUME NEW c \in CPUs, Unfreeze(c) PROVE TypeOK'
  <2>1. PICK p, q \in Procs : Unfreeze(c)!(p, q)
    BY <1>29 DEF Unfreeze
  <2> QED
    BY <2>1 DEF Rouse, Goto, GotoAt, Return
<1>30. QED
  BY <1>0, <1>1, <1>2, <1>3, <1>4, <1>5, <1>6, <1>7, <1>8, <1>9, <1>10, <1>11, <1>12, <1>13, <1>14, <1>15, <1>16, <1>17, <1>18, <1>19, <1>20, <1>21, <1>22, <1>23, <1>24, <1>25, <1>26, <1>27, <1>28, <1>29 DEF Next, Sched, Thread,
     Timer, Fork, Exit, Wait, PidCall

\* Type correctness of the process table and of the CPUs' registers, in every
\* reachable state: no scan of the table leaves it.
THEOREM TypeCorrect == Spec => []TypeOK
<1>1. Init => TypeOK
  BY TypeInit
<1>2. TypeOK /\ [Next]_vars => TypeOK'
  BY TypeNext
<1> QED
  BY <1>1, <1>2, PTL DEF Spec

(***************************************************************************)
(* The hand-over of p->lock across swtch().                                *)
(***************************************************************************)
\* A thread that executes outside swtch() is RUNNING, on one CPU, unlocked.
LEMMA Executing ==
  ASSUME TypeOK, CpuInv, NEW c \in CPUs, NEW p \in Procs,
         stack[c] = p, ctx[p] = "run"
  PROVE  /\ cproc[c] = p /\ state[p] = "RUNNING" /\ lock[p] = NoCPU
         /\ \A d \in CPUs : cproc[d] = p \/ stack[d] = p => d = c
BY SlotFacts DEF CpuInv, TypeOK

\* A slot that is not RUNNING and whose lock is free is on no CPU.
LEMMA OffCpu ==
  ASSUME TypeOK, CpuInv, NEW q \in Procs, Free(q), state[q] # "RUNNING"
  PROVE  \A c \in CPUs : cproc[c] # q /\ stack[c] # q
BY SlotFacts, CPUAssumption DEF CpuInv, TypeOK, Free

\* Steps that change only slots that are on no CPU.
LEMMA CpuStateOnly ==
  ASSUME TypeOK, CpuInv, NEW q \in Procs, Free(q), state[q] # "RUNNING",
         NEW s \in States, s # "RUNNING",
         state' = [state EXCEPT ![q] = s],
         NEW k \in Contexts, ctx' = [ctx EXCEPT ![q] = k],
         UNCHANGED <<lock, cproc, stack>>
  PROVE  CpuInv'
<1>1. \A c \in CPUs : cproc[c] # q /\ stack[c] # q
  BY OffCpu
<1>2. \A p \in Procs : p # q => state'[p] = state[p] /\ ctx'[p] = ctx[p]
  BY DEF TypeOK
<1>3. state'[q] = s
  BY DEF TypeOK
<1>4. \A c \in CPUs : cproc[c] # 0 => cproc[c] \in Procs
  BY SlotFacts DEF TypeOK
<1> QED
  BY <1>1, <1>2, <1>3, <1>4 DEF CpuInv

\* Steps that give up the CPU.
LEMMA CpuGiveUp ==
  ASSUME TypeOK, CpuInv, NEW c \in CPUs, NEW p \in Procs,
         stack[c] = p, ctx[p] = "run",
         NEW s \in {"RUNNABLE", "SLEEPING", "ZOMBIE"},
         NEW why \in {"yield", "sleep", "exit"},
         GiveUp(c, p, s, why), UNCHANGED <<cproc, stack>>
  PROVE  CpuInv'
<1>1. /\ cproc[c] = p /\ p # 0
      /\ \A d \in CPUs : cproc[d] = p \/ stack[d] = p => d = c
  BY Executing, SlotFacts
<1>2. \A q \in Procs : q # p =>
        state'[q] = state[q] /\ ctx'[q] = ctx[q] /\ lock'[q] = lock[q]
  BY DEF TypeOK, GiveUp
<1>3. state'[p] = s /\ ctx'[p] = why /\ lock'[p] = c
  BY DEF TypeOK, GiveUp
<1>4. \A d \in CPUs : cproc[d] # 0 => cproc[d] \in Procs
  BY SlotFacts DEF TypeOK
<1> QED
  BY <1>1, <1>2, <1>3, <1>4, CPUAssumption DEF CpuInv

\* The hand-over is kept by every action.
LEMMA CpuNext == TypeOK /\ CpuInv /\ ThreadInv /\ [Next]_vars => CpuInv'
<1> SUFFICES ASSUME TypeOK, CpuInv, ThreadInv, [Next]_vars PROVE CpuInv'
  OBVIOUS
<1> USE DEF procvars, cpuvars, lockvars, thrvars
<1>0. ASSUME UNCHANGED <<state, lock, cproc, stack, ctx>> PROVE CpuInv'
  BY <1>0 DEF CpuInv
<1>1. ASSUME UNCHANGED vars PROVE CpuInv'
  BY <1>0, <1>1 DEF vars
<1>2. ASSUME NEW c \in CPUs, SchedDispatch(c) PROVE CpuInv'
  <2> DEFINE p == scan[c]
  <2>1. p \in Procs /\ p # 0
    BY SlotFacts DEF TypeOK
  <2>2. \A d \in CPUs : cproc[d] # p /\ stack[d] # p
    BY <1>2, <2>1, OffCpu DEF SchedDispatch, Schedulable
  <2>3. /\ state'[p] = "RUNNING" /\ lock'[p] = c
        /\ cproc'[c] = p /\ stack'[c] = p /\ ctx' = ctx
    BY <1>2, <2>1 DEF SchedDispatch, TypeOK
  <2>4. ctx[p] # "run"
    BY <1>2, <2>1 DEF SchedDispatch, Schedulable, ThreadInv
  <2>5. \A q \in Procs : q # p => state'[q] = state[q] /\ lock'[q] = lock[q]
    BY <1>2 DEF SchedDispatch, TypeOK
  <2>6. \A d \in CPUs : d # c => cproc'[d] = cproc[d] /\ stack'[d] = stack[d]
    BY <1>2 DEF SchedDispatch, TypeOK
  <2>7. \A d \in CPUs : cproc[d] # 0 => cproc[d] \in Procs
    BY SlotFacts DEF TypeOK
  <2>8. cproc[c] = 0 /\ stack[c] = 0
    BY <1>2 DEF SchedDispatch
  <2>9. \A q \in Procs : lock[q] \in CPUs \cup {NoCPU} /\ lock[q] # c
    BY <2>8, SlotFacts, CPUAssumption DEF CpuInv, TypeOK
  <2> HIDE DEF p
  <2>10. \A d \in CPUs : stack'[d] # 0 => cproc'[d] = stack'[d]
    BY <2>3, <2>6 DEF CpuInv
  <2>11. \A d, e \in CPUs : cproc'[d] # 0 /\ cproc'[d] = cproc'[e] => d = e
    BY <2>2, <2>3, <2>6 DEF CpuInv
  <2>12. \A q \in Procs : lock'[q] # NoCPU => cproc'[lock'[q]] = q
    BY <2>3, <2>5, <2>6, <2>9 DEF CpuInv
  <2>13. \A q \in Procs :
           state'[q] = "RUNNING" => \E d \in CPUs : stack'[d] = q
    <3>1. \A d \in CPUs : stack[d] # 0 => stack'[d] = stack[d]
      BY <2>6, <2>8
    <3> QED
      BY <2>3, <2>5, <3>1, SlotFacts DEF CpuInv
  <2> QED
    BY <2>2, <2>3, <2>4, <2>5, <2>6, <2>7, <2>10, <2>11, <2>12, <2>13,
       CPUAssumption DEF CpuInv
<1>3. ASSUME NEW c \in CPUs, SchedRelease(c) PROVE CpuInv'
  <2> DEFINE p == cproc[c]
  <2>1. p \in Procs /\ p # 0 /\ stack[c] = 0
    BY <1>3, SlotFacts DEF TypeOK, SchedRelease
  <2>2. /\ lock'[p] = NoCPU /\ cproc'[c] = 0
        /\ state' = state /\ ctx' = ctx /\ stack' = stack
    BY <1>3, <2>1 DEF SchedRelease, TypeOK
  <2>3. \A q \in Procs : q # p => lock'[q] = lock[q]
    BY <1>3 DEF SchedRelease, TypeOK
  <2>4. \A d \in CPUs : d # c => cproc'[d] = cproc[d]
    BY <1>3 DEF SchedRelease, TypeOK
  <2>5. \A d \in CPUs : cproc[d] # 0 => cproc[d] \in Procs
    BY SlotFacts DEF TypeOK
  <2>6. \A d \in CPUs : d # c => cproc[d] # p
    BY <2>1 DEF CpuInv
  <2>7. \A q \in Procs : q # p => lock[q] # c
    BY <2>1, CPUAssumption DEF CpuInv, TypeOK
  <2>8. \A q \in Procs : lock[q] \in CPUs \cup {NoCPU}
    BY DEF TypeOK
  <2> HIDE DEF p
  <2> QED
    BY <2>1, <2>2, <2>3, <2>4, <2>5, <2>6, <2>7, <2>8, CPUAssumption
       DEF CpuInv
<1>4. ASSUME NEW c \in CPUs, Swtch(c) PROVE CpuInv'
  <2> DEFINE p == stack[c]
  <2>1. p \in Procs /\ p # 0 /\ state[p] # "RUNNING" /\ cproc[c] = p
    BY <1>4, SlotFacts DEF TypeOK, CpuInv, Swtch
  <2>2. /\ stack'[c] = 0
        /\ state' = state /\ ctx' = ctx /\ lock' = lock /\ cproc' = cproc
    BY <1>4 DEF Swtch, TypeOK
  <2>3. \A d \in CPUs : d # c => stack'[d] = stack[d]
    BY <1>4 DEF Swtch, TypeOK
  <2> HIDE DEF p
  <2> QED
    BY <2>1, <2>2, <2>3 DEF CpuInv, p
<1>5. ASSUME NEW c \in CPUs, Resume(c) PROVE CpuInv'
  <2> DEFINE p == stack[c]
  <2>1. p \in Procs /\ p # 0 /\ state[p] = "RUNNING" /\ cproc[c] = p
    BY <1>5, SlotFacts DEF TypeOK, CpuInv, Resume
  <2>2. /\ lock'[p] = NoCPU /\ ctx'[p] = "run"
        /\ state' = state /\ stack' = stack /\ cproc' = cproc
    BY <1>5, <2>1 DEF Resume, TypeOK
  <2>3. \A q \in Procs : q # p => lock'[q] = lock[q] /\ ctx'[q] = ctx[q]
    BY <1>5 DEF Resume, TypeOK
  <2>4. \A d \in CPUs : cproc[d] # 0 => cproc[d] \in Procs
    BY SlotFacts DEF TypeOK
  <2>5. \A d \in CPUs : d # c => cproc[d] # p
    BY <2>1 DEF CpuInv
  <2> HIDE DEF p
  <2> QED
    BY <2>1, <2>2, <2>3, <2>4, <2>5 DEF CpuInv
<1>6. ASSUME NEW c \in CPUs, UserTimer(c) PROVE CpuInv'
  <2>1. PICK p \in Procs : UserTimer(c)!(p)
    BY <1>6 DEF UserTimer
  <2> QED
    BY <1>0, <2>1, CpuGiveUp DEF At
<1>7. ASSUME NEW c \in CPUs, KernelTimer(c) PROVE CpuInv'
  BY <1>7, CpuGiveUp DEF KernelTimer
<1>8. ASSUME NEW c \in CPUs, ExitZombie(c) PROVE CpuInv'
  BY <1>8, CpuGiveUp DEF ExitZombie, At
<1>9. ASSUME NEW c \in CPUs, WaitSleep(c) PROVE CpuInv'
  BY <1>9, CpuGiveUp DEF WaitSleep, At
<1>10. ASSUME NEW q \in Procs, Free(q), Rouse(q),
              UNCHANGED <<lock, cproc, stack, ctx>>
       PROVE  CpuInv'
  <2>1. CASE state[q] = "SLEEPING"
    <3>1. ctx' = [ctx EXCEPT ![q] = ctx[q]] /\ ctx[q] \in Contexts
      BY <1>10 DEF TypeOK
    <3> QED
      BY <1>10, <2>1, <3>1, CpuStateOnly DEF Rouse, States
  <2>2. CASE state[q] # "SLEEPING"
    BY <1>0, <1>10, <2>2 DEF Rouse
  <2> QED
    BY <2>1, <2>2
<1>11. ASSUME NEW c \in CPUs, NEW l \in {"rwake", "pwake"}, NEW done,
              WakeIter(c, l, done)
       PROVE  CpuInv'
  <2>1. PICK p \in Procs : WakeIter(c, l, done)!(p)
    BY <1>11 DEF WakeIter
  <2>2. cur[p] \in Procs
    BY <2>1 DEF At, ThreadInv
  <2>3. CASE state' = state
    BY <1>0, <2>1, <2>3
  <2>4. CASE state' # state
    BY <1>10, <2>1, <2>2, <2>4 DEF WakeSlot, Rouse
  <2> QED
    BY <2>3, <2>4
<1>12. ASSUME NEW c \in CPUs, WakeInit(c) \/ WakeParent(c) PROVE CpuInv'
  BY <1>11, <1>12 DEF WakeInit, WakeParent
<1>13. ASSUME NEW c \in CPUs, Kill(c) PROVE CpuInv'
  BY <1>10, <1>13 DEF Kill, Found
<1>14. ASSUME NEW c \in CPUs, Unfreeze(c) PROVE CpuInv'
  <2>1. PICK p, q \in Procs : Unfreeze(c)!(p, q)
    BY <1>14 DEF Unfreeze
  <2> QED
    BY <1>0, <1>10, <2>1 DEF Found
<1>15. ASSUME NEW c \in CPUs, AllocFail(c) PROVE CpuInv'
  <2>1. PICK p \in Procs : AllocFail(c)!(p)
    BY <1>15 DEF AllocFail
  <2>2. state' = state
    BY <2>1 DEF FreeProc, TypeOK
  <2> QED
    BY <1>0, <2>1, <2>2
<1>16. ASSUME NEW c \in CPUs, AllocOk(c) PROVE CpuInv'
  <2>1. PICK p \in Procs : AllocOk(c)!(p)
    BY <1>16 DEF AllocOk
  <2>2. cur[p] \in Procs
    BY <2>1, CursorInRange DEF At, ThreadInv, TypeOK
  <2> QED
    BY <2>1, <2>2, CpuStateOnly DEF States, Contexts
<1>17. ASSUME NEW c \in CPUs, ForkRunnable(c) PROVE CpuInv'
  <2>1. PICK p \in Procs : ForkRunnable(c)!(p)
    BY <1>17 DEF ForkRunnable
  <2>2. arg[p] \in Procs /\ state[arg[p]] = "USED"
    BY <2>1 DEF At, ThreadInv
  <2>3. ctx' = [ctx EXCEPT ![arg[p]] = ctx[arg[p]]] /\ ctx[arg[p]] \in Contexts
    BY <2>1, <2>2 DEF TypeOK
  <2> QED
    BY <2>1, <2>2, <2>3, CpuStateOnly DEF States
<1>18. ASSUME NEW c \in CPUs, WaitReap(c) PROVE CpuInv'
  <2>1. PICK p \in Procs : WaitReap(c)!(p)
    BY <1>18 DEF WaitReap
  <2>2. cur[p] \in Procs
    BY <2>1 DEF At, ThreadInv
  <2>3. ctx' = [ctx EXCEPT ![cur[p]] = ctx[cur[p]]] /\ ctx[cur[p]] \in Contexts
    BY <2>1, <2>2 DEF TypeOK
  <2>4. CASE FreeProc(cur[p])
    BY <2>1, <2>2, <2>3, <2>4, CpuStateOnly DEF FreeProc, Reapable, States
  <2>5. CASE UNCHANGED procvars
    BY <1>0, <2>1, <2>5
  <2> QED
    BY <2>1, <2>4, <2>5
<1>19. ASSUME NEW c \in CPUs,
              SchedSkip(c) \/ Syscall(c) \/ Fault(c) \/ TrapReturn(c)
                \/ AllocSkip(c) \/ ForkLink(c) \/ ExitBegin(c) \/ Reparent(c)
                \/ WaitBegin(c) \/ WaitSkip(c) \/ WaitCheck(c) \/ PidScan(c)
                \/ Freeze(c)
       PROVE  CpuInv'
  BY <1>0, <1>19 DEF SchedSkip, Syscall, Fault, TrapReturn, AllocSkip, ForkLink,
     ExitBegin, Reparent, WaitBegin, WaitSkip, WaitCheck, PidScan, Freeze
<1> QED
  BY <1>1, <1>2, <1>3, <1>4, <1>5, <1>6, <1>7, <1>8, <1>9, <1>12, <1>13, <1>14,
     <1>15, <1>16, <1>17, <1>18, <1>19
     DEF Next, Sched, Thread, Timer, Fork, Exit, Wait, PidCall

(***************************************************************************)
(* Contexts, positions and cursors of the threads.                         *)
(***************************************************************************)
\* How a step may change the state of slots other than the executing one's.
Harmless == \A q \in Procs :
  \/ state'[q] = state[q]
  \/ state[q] = "SLEEPING" /\ state'[q] = "RUNNABLE"
  \/ state[q] = "ZOMBIE" /\ state'[q] = "UNUSED"

\* Steps of an executing thread p that take it to a label outside fork()'s
\* last two.
LEMMA ThreadStep ==
  ASSUME TypeOK, CpuInv, ThreadInv, NEW c \in CPUs, NEW p \in Procs,
         stack[c] = p, ctx[p] = "run",
         \A q \in Procs : q # p =>
           pc'[q] = pc[q] /\ cur'[q] = cur[q] /\ arg'[q] = arg[q],
         pc'[p] \notin {"link", "mkrun"},
         pc'[p] \in {"fork", "kill", "freeze", "unfreeze"} => cur'[p] # 0,
         pc'[p] \in {"rwake", "pwake", "wscan"} => cur'[p] \in Procs,
         Harmless, UNCHANGED ctx
  PROVE  ThreadInv'
<1>1. state[p] = "RUNNING"
  BY Executing
<1>2. state'[p] = "RUNNING"
  BY <1>1 DEF Harmless
<1>3. \A q \in Procs : state[q] = "USED" => state'[q] = "USED"
  BY DEF Harmless
<1> QED
  BY <1>1, <1>2, <1>3 DEF ThreadInv, Harmless

\* Steps that give up the CPU and resume at a label l outside fork() and the
\* scans, or where they were.
LEMMA ThreadGiveUp ==
  ASSUME TypeOK, CpuInv, ThreadInv, NEW c \in CPUs, NEW p \in Procs,
         stack[c] = p, ctx[p] = "run",
         NEW s \in {"RUNNABLE", "SLEEPING", "ZOMBIE"},
         NEW why \in {"yield", "sleep", "exit"},
         GiveUp(c, p, s, why), UNCHANGED cur,
         \/ s # "ZOMBIE" /\ UNCHANGED <<pc, arg>>
         \/ Goto(p, "wait") /\ s # "ZOMBIE" /\ UNCHANGED arg
         \/ Goto(p, "user") /\ arg' = [arg EXCEPT ![p] = 0]
  PROVE  ThreadInv'
<1>1. state[p] = "RUNNING"
  BY Executing
<1>2. /\ state'[p] = s /\ ctx'[p] = why
      /\ \A q \in Procs : q # p => state'[q] = state[q] /\ ctx'[q] = ctx[q]
  BY DEF TypeOK, GiveUp
<1>3. /\ \A q \in Procs : q # p => pc'[q] = pc[q] /\ arg'[q] = arg[q]
      /\ (pc'[p] = pc[p] /\ arg'[p] = arg[p]) \/ pc'[p] \in {"wait", "user"}
      /\ s = "ZOMBIE" => pc'[p] = "user"
  BY DEF TypeOK, Goto
<1>4. \A q \in Procs : state[q] = "USED" => q # p
  BY <1>1
<1> QED
  BY <1>1, <1>2, <1>3, <1>4 DEF ThreadInv

\* Every action keeps contexts, positions and cursors consistent.
LEMMA ThreadNext == TypeOK /\ CpuInv /\ ThreadInv /\ [Next]_vars => ThreadInv'
<1> SUFFICES ASSUME TypeOK, CpuInv, ThreadInv, [Next]_vars PROVE ThreadInv'
  OBVIOUS
<1> USE DEF procvars, cpuvars, lockvars, thrvars
<1>0. ASSUME UNCHANGED <<state, ctx, pc, cur, arg>> PROVE ThreadInv'
  BY <1>0 DEF ThreadInv
<1>1. ASSUME UNCHANGED vars PROVE ThreadInv'
  BY <1>0, <1>1 DEF vars
<1>2. ASSUME NEW c \in CPUs, SchedSkip(c) \/ SchedRelease(c) \/ Swtch(c)
      PROVE  ThreadInv'
  BY <1>0, <1>2 DEF SchedSkip, SchedRelease, Swtch
<1>3. ASSUME NEW c \in CPUs, SchedDispatch(c) PROVE ThreadInv'
  <2>1. \A q \in Procs :
          \/ state'[q] = state[q]
          \/ state[q] = "RUNNABLE" /\ state'[q] = "RUNNING"
    <3>1. state' = [state EXCEPT ![scan[c]] = "RUNNING"]
      BY <1>3 DEF SchedDispatch
    <3>2. state[scan[c]] = "RUNNABLE" /\ state \in [Procs -> States]
      BY <1>3 DEF SchedDispatch, Schedulable, TypeOK
    <3> QED
      BY <3>1, <3>2
  <2>2. UNCHANGED <<ctx, pc, cur, arg>>
    BY <1>3 DEF SchedDispatch
  <2> QED
    BY <2>1, <2>2 DEF ThreadInv
<1>4. ASSUME NEW c \in CPUs, Resume(c) PROVE ThreadInv'
  <2>1. \A q \in Procs : ctx'[q] = ctx[q] \/ state[q] = "RUNNING"
    BY <1>4 DEF Resume, TypeOK
  <2>2. UNCHANGED <<state, pc, cur, arg>>
    BY <1>4 DEF Resume
  <2> QED
    BY <2>1, <2>2 DEF ThreadInv
<1>5. ASSUME NEW c \in CPUs, UserTimer(c) PROVE ThreadInv'
  <2>1. PICK p \in Procs : UserTimer(c)!(p)
    BY <1>5 DEF UserTimer
  <2>2. CASE killed[p]
    <3>1. /\ pc'[p] = "exit" /\ UNCHANGED <<cur, arg, ctx, state>>
          /\ \A q \in Procs : q # p => pc'[q] = pc[q]
      BY <2>1, <2>2 DEF TypeOK, Goto, GiveUp
    <3> QED
      BY <2>1, <3>1, ThreadStep DEF At, Harmless
  <2>3. CASE ~killed[p]
    BY <2>1, <2>3, ThreadGiveUp DEF At
  <2> QED
    BY <2>2, <2>3
<1>6. ASSUME NEW c \in CPUs, KernelTimer(c) PROVE ThreadInv'
  BY <1>6, ThreadGiveUp DEF KernelTimer
<1>7. ASSUME NEW c \in CPUs, ExitZombie(c) PROVE ThreadInv'
  BY <1>7, ThreadGiveUp DEF ExitZombie, At
<1>8. ASSUME NEW c \in CPUs, WaitSleep(c) PROVE ThreadInv'
  BY <1>8, ThreadGiveUp DEF WaitSleep, At
<1>9. ASSUME NEW c \in CPUs, Syscall(c) PROVE ThreadInv'
  <2>1. PICK p \in Procs, call \in Calls, n \in Targets \cup {0} : Syscall(c)!(p, call, n)
    BY <1>9 DEF Syscall
  <2>2. \A q \in Procs : q # p =>
          pc'[q] = pc[q] /\ cur'[q] = cur[q] /\ arg'[q] = arg[q]
    BY <2>1 DEF TypeOK, Goto, GotoAt
  <2>4. pc'[p] = "exit" \/ (pc'[p] = call /\ cur'[p] = 1)
    BY <2>1 DEF TypeOK, Goto, GotoAt
  <2>3. Harmless
    BY <2>1 DEF Harmless
  <2> QED
    BY <2>1, <2>2, <2>3, <2>4, ThreadStep, CallsAssumption DEF At
<1>10. ASSUME NEW c \in CPUs, Fault(c) PROVE ThreadInv'
  <2>1. PICK p \in Procs : Fault(c)!(p)
    BY <1>10 DEF Fault
  <2>2. /\ \A q \in Procs : q # p =>
             pc'[q] = pc[q] /\ cur'[q] = cur[q] /\ arg'[q] = arg[q]
        /\ pc'[p] = "exit"
    BY <2>1, SlotFacts DEF TypeOK, Goto
  <2>3. Harmless
    BY <2>1 DEF Harmless
  <2> QED
    BY <2>1, <2>2, <2>3, ThreadStep DEF At
<1>11. ASSUME NEW c \in CPUs, TrapReturn(c) PROVE ThreadInv'
  <2>1. PICK p \in Procs : TrapReturn(c)!(p)
    BY <1>11 DEF TrapReturn
  <2>2. /\ \A q \in Procs : q # p =>
             pc'[q] = pc[q] /\ cur'[q] = cur[q] /\ arg'[q] = arg[q]
        /\ pc'[p] \in {"exit", "user"}
    BY <2>1, SlotFacts DEF TypeOK, Goto
  <2>3. Harmless
    BY <2>1 DEF Harmless
  <2> QED
    BY <2>1, <2>2, <2>3, ThreadStep DEF At
<1>12. ASSUME NEW c \in CPUs, AllocSkip(c) PROVE ThreadInv'
  <2>1. PICK p \in Procs : AllocSkip(c)!(p)
    BY <1>12 DEF AllocSkip
  <2>2. \A q \in Procs : q # p =>
          pc'[q] = pc[q] /\ cur'[q] = cur[q] /\ arg'[q] = arg[q]
    BY <2>1 DEF TypeOK, Goto, GotoAt, Return
  <2>4. cur[p] \in Nat => cur[p] + 1 # 0
    OBVIOUS
  <2>5. pc'[p] = "ret" \/ (pc'[p] = "fork" /\ cur'[p] # 0)
    BY <2>1, <2>4, SlotFacts DEF TypeOK, Goto, GotoAt, Return
  <2>3. Harmless
    BY <2>1 DEF Harmless
  <2> QED
    BY <2>1, <2>2, <2>3, <2>5, ThreadStep DEF At
<1>13. ASSUME NEW c \in CPUs, AllocFail(c) PROVE ThreadInv'
  <2>1. PICK p \in Procs : AllocFail(c)!(p)
    BY <1>13 DEF AllocFail
  <2>2. /\ \A q \in Procs : q # p =>
             pc'[q] = pc[q] /\ cur'[q] = cur[q] /\ arg'[q] = arg[q]
        /\ pc'[p] = "ret"
    BY <2>1, SlotFacts DEF TypeOK, Goto, GotoAt, Return
  <2>3. Harmless
    BY <2>1 DEF Harmless, FreeProc, TypeOK
  <2> QED
    BY <2>1, <2>2, <2>3, ThreadStep DEF At
<1>14. ASSUME NEW c \in CPUs, ExitBegin(c) PROVE ThreadInv'
  <2>1. PICK p \in Procs : ExitBegin(c)!(p)
    BY <1>14 DEF ExitBegin
  <2>2. /\ \A q \in Procs : q # p =>
             pc'[q] = pc[q] /\ cur'[q] = cur[q] /\ arg'[q] = arg[q]
        /\ pc'[p] \in {"panic", "reparent"}
    BY <2>1, SlotFacts DEF TypeOK, Goto
  <2>3. Harmless
    BY <2>1 DEF Harmless
  <2> QED
    BY <2>1, <2>2, <2>3, ThreadStep DEF At
<1>15. ASSUME NEW c \in CPUs, Reparent(c) PROVE ThreadInv'
  <2>1. PICK p \in Procs : Reparent(c)!(p)
    BY <1>15 DEF Reparent
  <2>2. /\ \A q \in Procs : q # p =>
             pc'[q] = pc[q] /\ cur'[q] = cur[q] /\ arg'[q] = arg[q]
        /\ pc'[p] \in {"pwake", "rwake"} /\ cur'[p] \in Procs
    BY <2>1, SlotFacts DEF TypeOK, Goto, GotoAt, initproc
  <2>3. Harmless
    BY <2>1 DEF Harmless
  <2> QED
    BY <2>1, <2>2, <2>3, ThreadStep DEF At
<1>16. ASSUME NEW c \in CPUs, WaitBegin(c) PROVE ThreadInv'
  <2>1. PICK p \in Procs : WaitBegin(c)!(p)
    BY <1>16 DEF WaitBegin
  <2>2. /\ \A q \in Procs : q # p =>
             pc'[q] = pc[q] /\ cur'[q] = cur[q] /\ arg'[q] = arg[q]
        /\ pc'[p] = "wscan" /\ cur'[p] \in Procs
    BY <2>1, SlotFacts DEF TypeOK, Goto, GotoAt, initproc
  <2>3. Harmless
    BY <2>1 DEF Harmless
  <2> QED
    BY <2>1, <2>2, <2>3, ThreadStep DEF At
<1>17. ASSUME NEW c \in CPUs, WaitSkip(c) PROVE ThreadInv'
  <2>1. PICK p \in Procs : WaitSkip(c)!(p)
    BY <1>17 DEF WaitSkip
  <2>2. /\ \A q \in Procs : q # p =>
             pc'[q] = pc[q] /\ cur'[q] = cur[q] /\ arg'[q] = arg[q]
        /\ \/ pc'[p] = "wend"
           \/ pc'[p] = "wscan" /\ cur'[p] = cur[p] + 1 /\ cur[p] < NPROC
    BY <2>1, SlotFacts DEF TypeOK, Goto, GotoAt
  <2>3. Harmless
    BY <2>1 DEF Harmless
  <2>4. cur[p] \in Procs /\ cur[p] < NPROC => cur[p] + 1 \in Procs
    BY NPROCAssumption DEF Procs
  <2>5. cur[p] \in Procs
    BY <2>1 DEF At, ThreadInv
  <2> QED
    BY <2>1, <2>2, <2>3, <2>4, <2>5, ThreadStep DEF At
<1>18. ASSUME NEW c \in CPUs, WaitReap(c) PROVE ThreadInv'
  <2>1. PICK p \in Procs : WaitReap(c)!(p)
    BY <1>18 DEF WaitReap
  <2>2. /\ \A q \in Procs : q # p =>
             pc'[q] = pc[q] /\ cur'[q] = cur[q] /\ arg'[q] = arg[q]
        /\ pc'[p] = "ret"
    BY <2>1, SlotFacts DEF TypeOK, Goto, GotoAt, Return
  <2>3. Harmless
    BY <2>1 DEF Harmless, FreeProc, Reapable, TypeOK
  <2> QED
    BY <2>1, <2>2, <2>3, ThreadStep DEF At
<1>19. ASSUME NEW c \in CPUs, WaitCheck(c) PROVE ThreadInv'
  <2>1. PICK p \in Procs : WaitCheck(c)!(p)
    BY <1>19 DEF WaitCheck
  <2>2. /\ \A q \in Procs : q # p =>
             pc'[q] = pc[q] /\ cur'[q] = cur[q] /\ arg'[q] = arg[q]
        /\ pc'[p] \in {"ret", "wsleep"}
    BY <2>1, SlotFacts DEF TypeOK, Goto, GotoAt, Return
  <2>3. Harmless
    BY <2>1 DEF Harmless
  <2> QED
    BY <2>1, <2>2, <2>3, ThreadStep DEF At
<1>20. ASSUME NEW c \in CPUs, PidScan(c) PROVE ThreadInv'
  <2>1. PICK p \in Procs, l \in {"kill", "freeze", "unfreeze"} : PidScan(c)!(p, l)
    BY <1>20 DEF PidScan
  <2>2. \A q \in Procs : q # p =>
          pc'[q] = pc[q] /\ cur'[q] = cur[q] /\ arg'[q] = arg[q]
    BY <2>1 DEF TypeOK, Goto, GotoAt, Return
  <2>4. cur[p] \in Nat => cur[p] + 1 # 0
    OBVIOUS
  <2>5. pc'[p] = "ret" \/ (pc'[p] = l /\ cur'[p] # 0)
    BY <2>1, <2>4, SlotFacts DEF TypeOK, Goto, GotoAt, Return
  <2>3. Harmless
    BY <2>1 DEF Harmless
  <2> QED
    BY <2>1, <2>2, <2>3, <2>5, ThreadStep DEF At
<1>21. ASSUME NEW c \in CPUs, Kill(c) PROVE ThreadInv'
  <2>1. PICK p, q \in Procs : Kill(c)!(p, q)
    BY <1>21 DEF Kill
  <2>2. /\ \A r \in Procs : r # p =>
             pc'[r] = pc[r] /\ cur'[r] = cur[r] /\ arg'[r] = arg[r]
        /\ pc'[p] = "ret"
    BY <2>1, SlotFacts DEF TypeOK, Goto, GotoAt, Return
  <2>3. Harmless
    BY <2>1 DEF Harmless, Rouse, TypeOK
  <2> QED
    BY <2>1, <2>2, <2>3, ThreadStep DEF Found, At
<1>22. ASSUME NEW c \in CPUs, Freeze(c) PROVE ThreadInv'
  <2>1. PICK p, q \in Procs : Freeze(c)!(p, q)
    BY <1>22 DEF Freeze
  <2>2. /\ \A r \in Procs : r # p =>
             pc'[r] = pc[r] /\ cur'[r] = cur[r] /\ arg'[r] = arg[r]
        /\ pc'[p] = "ret"
    BY <2>1, SlotFacts DEF TypeOK, Goto, GotoAt, Return
  <2>3. Harmless
    BY <2>1 DEF Harmless
  <2> QED
    BY <2>1, <2>2, <2>3, ThreadStep DEF Found, At
<1>23. ASSUME NEW c \in CPUs, Unfreeze(c) PROVE ThreadInv'
  <2>1. PICK p, q \in Procs : Unfreeze(c)!(p, q)
    BY <1>23 DEF Unfreeze
  <2>2. /\ \A r \in Procs : r # p =>
             pc'[r] = pc[r] /\ cur'[r] = cur[r] /\ arg'[r] = arg[r]
        /\ pc'[p] = "ret"
    BY <2>1, SlotFacts DEF TypeOK, Goto, GotoAt, Return
  <2>3. Harmless
    BY <2>1 DEF Harmless, Rouse, TypeOK
  <2> QED
    BY <2>1, <2>2, <2>3, ThreadStep DEF Found, At
<1>24. ASSUME NEW c \in CPUs, NEW l \in {"rwake", "pwake"},
              NEW done \in {"reparent", "zombie"}, WakeIter(c, l, done)
       PROVE  ThreadInv'
  <2>1. PICK p \in Procs : WakeIter(c, l, done)!(p)
    BY <1>24 DEF WakeIter
  <2>2. \A q \in Procs : q # p =>
          pc'[q] = pc[q] /\ cur'[q] = cur[q] /\ arg'[q] = arg[q]
    BY <2>1 DEF TypeOK, Goto, GotoAt
  <2>3. Harmless
    BY <2>1 DEF Harmless, WakeSlot, TypeOK
  <2>4. cur[p] \in Procs /\ cur[p] < NPROC => cur[p] + 1 \in Procs
    BY NPROCAssumption DEF Procs
  <2>5. cur[p] \in Procs
    BY <2>1 DEF At, ThreadInv
  <2>6. \/ pc'[p] = done
        \/ pc'[p] = l /\ cur'[p] = cur[p] + 1 /\ cur[p] < NPROC
    BY <2>1 DEF TypeOK, Goto, GotoAt
  <2> QED
    BY <2>1, <2>2, <2>3, <2>4, <2>5, <2>6, ThreadStep DEF At
<1>25. ASSUME NEW c \in CPUs, WakeInit(c) \/ WakeParent(c) PROVE ThreadInv'
  BY <1>24, <1>25 DEF WakeInit, WakeParent
<1>26. ASSUME NEW c \in CPUs, ForkLink(c) PROVE ThreadInv'
  <2>1. PICK p \in Procs : ForkLink(c)!(p)
    BY <1>26 DEF ForkLink
  <2>2. /\ pc[p] = "link" /\ pc'[p] = "mkrun" /\ UNCHANGED <<state, ctx, cur, arg>>
        /\ \A q \in Procs : q # p => pc'[q] = pc[q]
    BY <2>1 DEF TypeOK, Goto, At
  <2> QED
    BY <2>2 DEF ThreadInv
<1>27. ASSUME NEW c \in CPUs, ForkRunnable(c) PROVE ThreadInv'
  <2>1. PICK p \in Procs : ForkRunnable(c)!(p)
    BY <1>27 DEF ForkRunnable
  <2>2. pc[p] = "mkrun" /\ arg[p] \in Procs /\ state[arg[p]] = "USED"
    BY <2>1 DEF At, ThreadInv
  <2>3. /\ pc'[p] = "ret" /\ UNCHANGED ctx
        /\ \A q \in Procs : q # p =>
             pc'[q] = pc[q] /\ cur'[q] = cur[q] /\ arg'[q] = arg[q]
    BY <2>1 DEF TypeOK, Goto, GotoAt, Return
  <2>4. /\ state'[arg[p]] = "RUNNABLE"
        /\ \A q \in Procs : q # arg[p] => state'[q] = state[q]
    BY <2>1, <2>2 DEF TypeOK
  <2>5. state[p] = "RUNNING"
    BY <2>1, Executing DEF At
  <2> QED
    BY <2>2, <2>3, <2>4, <2>5 DEF ThreadInv
<1>28. ASSUME NEW c \in CPUs, AllocOk(c) PROVE ThreadInv'
  <2>1. PICK p \in Procs : AllocOk(c)!(p)
    BY <1>28 DEF AllocOk
  <2>2. state[p] = "RUNNING"
    BY <2>1, Executing DEF At
  <2> DEFINE np == cur[p]
  <2>3. np \in Procs /\ state[np] = "UNUSED"
    BY <2>1, CursorInRange DEF At, ThreadInv, TypeOK
  <2> HIDE DEF np
  <2>4. /\ pc'[p] = "link" /\ arg'[p] = np /\ pc'[np] = "user"
        /\ \A q \in Procs : q # p /\ q # np =>
             pc'[q] = pc[q] /\ cur'[q] = cur[q] /\ arg'[q] = arg[q]
    BY <2>1, <2>2, <2>3 DEF TypeOK, np
  <2>5. /\ state'[np] = "USED" /\ ctx'[np] = "forkret"
        /\ \A q \in Procs : q # np => state'[q] = state[q] /\ ctx'[q] = ctx[q]
    BY <2>1, <2>3 DEF TypeOK, np
  <2> QED
    BY <2>2, <2>3, <2>4, <2>5 DEF ThreadInv
<1> QED
  BY <1>1, <1>2, <1>3, <1>4, <1>5, <1>6, <1>7, <1>8, <1>9, <1>10, <1>11, <1>12,
     <1>13, <1>14, <1>15, <1>16, <1>17, <1>18, <1>19, <1>20, <1>21, <1>22, <1>23,
     <1>25, <1>26, <1>27, <1>28
     DEF Next, Sched, Thread, Timer, Fork, Exit, Wait, PidCall

(***************************************************************************)
(* The scope of wait_lock.                                                 *)
(***************************************************************************)
\* Steps that neither take nor release wait_lock.
LEMMA WaitKeep ==
  ASSUME WaitLockInv, UNCHANGED wait_lock,
         wait_lock \in CPUs => stack'[wait_lock] = stack[wait_lock],
         wait_lock \in CPUs \cup {NoCPU}, TypeOK,
         \A q \in Procs : /\ pc'[q] \in WaitHeld <=> pc[q] \in WaitHeld
                          /\ pc[q] \in WaitHeld => ctx'[q] = ctx[q]
  PROVE  WaitLockInv'
<1>1. wait_lock \in CPUs /\ stack[wait_lock] # 0 => stack[wait_lock] \in Procs
  BY SlotFacts DEF TypeOK
<1> QED
  BY <1>1, CPUAssumption DEF WaitLockInv

\* acquire(&wait_lock) in an executing thread.
LEMMA WaitAcquire ==
  ASSUME WaitLockInv, NEW c \in CPUs, NEW p \in Procs, stack[c] = p,
         ctx[p] = "run", WaitFree, wait_lock' = c, UNCHANGED <<stack, ctx>>,
         pc'[p] \in WaitHeld, \A q \in Procs : q # p => pc'[q] = pc[q]
  PROVE  WaitLockInv'
BY CPUAssumption, SlotFacts DEF WaitLockInv, WaitFree

\* release(&wait_lock) in the thread that holds it.
LEMMA WaitRelease ==
  ASSUME WaitLockInv, NEW p \in Procs, pc[p] \in WaitHeld, wait_lock' = NoCPU,
         pc'[p] \notin WaitHeld, \A q \in Procs : q # p => pc'[q] = pc[q]
  PROVE  WaitLockInv'
BY CPUAssumption DEF WaitLockInv

\* Every action keeps wait_lock with the thread that is between its acquire()
\* and its release().
LEMMA WaitLockNext ==
  TypeOK /\ CpuInv /\ ThreadInv /\ WaitLockInv /\ [Next]_vars => WaitLockInv'
<1> SUFFICES ASSUME TypeOK, CpuInv, ThreadInv, WaitLockInv, [Next]_vars
             PROVE  WaitLockInv'
  OBVIOUS
<1> USE DEF procvars, cpuvars, lockvars, thrvars
<1>w. wait_lock \in CPUs \cup {NoCPU}
  BY DEF TypeOK
<1>0. ASSUME UNCHANGED <<wait_lock, stack, pc, ctx>> PROVE WaitLockInv'
  BY <1>0, <1>w, WaitKeep
<1>1. ASSUME UNCHANGED vars PROVE WaitLockInv'
  BY <1>0, <1>1 DEF vars
<1>2. ASSUME NEW c \in CPUs, SchedSkip(c) \/ SchedRelease(c) PROVE WaitLockInv'
  BY <1>0, <1>2 DEF SchedSkip, SchedRelease
<1>3. ASSUME NEW c \in CPUs, SchedDispatch(c) \/ Swtch(c) PROVE WaitLockInv'
  <2>1. wait_lock # c
    BY <1>3, CPUAssumption, SlotFacts
       DEF SchedDispatch, Swtch, WaitLockInv, TypeOK
  <2>2. \A d \in CPUs : d # c => stack'[d] = stack[d]
    BY <1>3 DEF SchedDispatch, Swtch, TypeOK
  <2>3. UNCHANGED <<wait_lock, pc, ctx>>
    BY <1>3 DEF SchedDispatch, Swtch
  <2> QED
    BY <1>w, <2>1, <2>2, <2>3, WaitKeep
<1>4. ASSUME NEW c \in CPUs, Resume(c) PROVE WaitLockInv'
  <2>1. \A q \in Procs : pc[q] \in WaitHeld => ctx'[q] = ctx[q]
    BY <1>4 DEF Resume, WaitLockInv, TypeOK
  <2>2. UNCHANGED <<wait_lock, pc, stack>>
    BY <1>4 DEF Resume
  <2> QED
    BY <1>w, <2>1, <2>2, WaitKeep
<1>5. ASSUME NEW c \in CPUs, UserTimer(c) PROVE WaitLockInv'
  <2>1. PICK p \in Procs : UserTimer(c)!(p)
    BY <1>5 DEF UserTimer
  <2>2. /\ pc[p] = "user" /\ pc'[p] \in {"user", "exit"}
        /\ \A q \in Procs : q # p => pc'[q] = pc[q] /\ ctx'[q] = ctx[q]
    BY <2>1 DEF At, Goto, GiveUp, TypeOK
  <2>3. UNCHANGED <<wait_lock, stack>>
    BY <2>1
  <2> QED
    BY <1>w, <2>2, <2>3, WaitKeep DEF WaitHeld
<1>6. ASSUME NEW c \in CPUs, KernelTimer(c) PROVE WaitLockInv'
  <2>1. PICK p \in Procs : KernelTimer(c)!(p)
    BY <1>6 DEF KernelTimer
  <2>2. pc[p] \notin WaitHeld
    <3>1. \A d \in CPUs : stack[d] = p => d = c
      BY <2>1, Executing
    <3> QED
      BY <2>1, <3>1 DEF WaitLockInv, IntrOn
  <2>3. \A q \in Procs : q # p => ctx'[q] = ctx[q]
    BY <2>1 DEF GiveUp, TypeOK
  <2>4. UNCHANGED <<wait_lock, stack, pc>>
    BY <2>1
  <2> QED
    BY <1>w, <2>2, <2>3, <2>4, WaitKeep
<1>7. ASSUME NEW c \in CPUs, Syscall(c) PROVE WaitLockInv'
  <2>1. PICK p \in Procs, call \in Calls, n \in Targets \cup {0} : Syscall(c)!(p, call, n)
    BY <1>7 DEF Syscall
  <2>2. /\ pc[p] = "user" /\ (pc'[p] = "exit" \/ pc'[p] = call)
        /\ \A q \in Procs : q # p => pc'[q] = pc[q]
    BY <2>1 DEF At, TypeOK, Goto, GotoAt
  <2>3. UNCHANGED <<wait_lock, stack, ctx>>
    BY <2>1
  <2> QED
    BY <1>w, <2>2, <2>3, WaitKeep, CallsAssumption DEF WaitHeld
<1>8. ASSUME NEW c \in CPUs, Fault(c) PROVE WaitLockInv'
  <2>1. PICK p \in Procs : Fault(c)!(p)
    BY <1>8 DEF Fault
  <2>2. /\ pc[p] = "user" /\ pc'[p] = "exit"
        /\ \A q \in Procs : q # p => pc'[q] = pc[q]
    BY <2>1 DEF At, TypeOK, Goto
  <2>3. UNCHANGED <<wait_lock, stack, ctx>>
    BY <2>1
  <2> QED
    BY <1>w, <2>2, <2>3, WaitKeep DEF WaitHeld
<1>9. ASSUME NEW c \in CPUs, TrapReturn(c) PROVE WaitLockInv'
  <2>1. PICK p \in Procs : TrapReturn(c)!(p)
    BY <1>9 DEF TrapReturn
  <2>2. /\ pc[p] = "ret" /\ pc'[p] \in {"user", "exit"}
        /\ \A q \in Procs : q # p => pc'[q] = pc[q]
    BY <2>1 DEF At, TypeOK, Goto
  <2>3. UNCHANGED <<wait_lock, stack, ctx>>
    BY <2>1
  <2> QED
    BY <1>w, <2>2, <2>3, WaitKeep DEF WaitHeld
<1>10. ASSUME NEW c \in CPUs, AllocSkip(c) PROVE WaitLockInv'
  <2>1. PICK p \in Procs : AllocSkip(c)!(p)
    BY <1>10 DEF AllocSkip
  <2>2. /\ pc[p] = "fork" /\ pc'[p] \in {"fork", "ret"}
        /\ \A q \in Procs : q # p => pc'[q] = pc[q]
    BY <2>1 DEF At, TypeOK, Goto, GotoAt, Return
  <2>3. UNCHANGED <<wait_lock, stack, ctx>>
    BY <2>1
  <2> QED
    BY <1>w, <2>2, <2>3, WaitKeep DEF WaitHeld
<1>11. ASSUME NEW c \in CPUs, AllocFail(c) PROVE WaitLockInv'
  <2>1. PICK p \in Procs : AllocFail(c)!(p)
    BY <1>11 DEF AllocFail
  <2>2. /\ pc[p] = "fork" /\ pc'[p] = "ret"
        /\ \A q \in Procs : q # p => pc'[q] = pc[q]
    BY <2>1 DEF At, TypeOK, Goto, GotoAt, Return
  <2>3. UNCHANGED <<wait_lock, stack, ctx>>
    BY <2>1
  <2> QED
    BY <1>w, <2>2, <2>3, WaitKeep DEF WaitHeld
<1>12. ASSUME NEW c \in CPUs, AllocOk(c) PROVE WaitLockInv'
  <2>1. PICK p \in Procs : AllocOk(c)!(p)
    BY <1>12 DEF AllocOk
  <2> DEFINE np == cur[p]
  <2>2. np \in Procs /\ state[np] = "UNUSED"
    BY <2>1, CursorInRange DEF At, ThreadInv, TypeOK
  <2>3. pc[np] = "user" /\ pc[p] = "fork"
    BY <2>1, <2>2 DEF ThreadInv, At
  <2> HIDE DEF np
  <2>4. /\ pc'[p] = "link" /\ pc'[np] = "user"
        /\ \A q \in Procs : q # p /\ q # np => pc'[q] = pc[q]
        /\ \A q \in Procs : q # np => ctx'[q] = ctx[q]
    BY <2>1, <2>2, <2>3 DEF TypeOK, np
  <2>5. UNCHANGED <<wait_lock, stack>>
    BY <2>1
  <2> QED
    BY <1>w, <2>3, <2>4, <2>5, WaitKeep DEF WaitHeld
<1>13. ASSUME NEW c \in CPUs, ForkLink(c) PROVE WaitLockInv'
  <2>1. PICK p \in Procs : ForkLink(c)!(p)
    BY <1>13 DEF ForkLink
  <2>2. /\ pc[p] = "link" /\ pc'[p] = "mkrun"
        /\ \A q \in Procs : q # p => pc'[q] = pc[q]
    BY <2>1 DEF At, TypeOK, Goto
  <2>3. UNCHANGED <<wait_lock, stack, ctx>>
    BY <2>1
  <2> QED
    BY <1>w, <2>2, <2>3, WaitKeep DEF WaitHeld
<1>14. ASSUME NEW c \in CPUs, ForkRunnable(c) PROVE WaitLockInv'
  <2>1. PICK p \in Procs : ForkRunnable(c)!(p)
    BY <1>14 DEF ForkRunnable
  <2>2. /\ pc[p] = "mkrun" /\ pc'[p] = "ret"
        /\ \A q \in Procs : q # p => pc'[q] = pc[q]
    BY <2>1 DEF At, TypeOK, Goto, GotoAt, Return
  <2>3. UNCHANGED <<wait_lock, stack, ctx>>
    BY <2>1
  <2> QED
    BY <1>w, <2>2, <2>3, WaitKeep DEF WaitHeld
<1>15. ASSUME NEW c \in CPUs, ExitBegin(c) PROVE WaitLockInv'
  <2>1. PICK p \in Procs : ExitBegin(c)!(p)
    BY <1>15 DEF ExitBegin
  <2>2. /\ pc[p] = "exit" /\ \A q \in Procs : q # p => pc'[q] = pc[q]
        /\ p = initproc => pc'[p] = "panic" /\ UNCHANGED wait_lock
        /\ p # initproc => pc'[p] = "reparent" /\ WaitFree /\ wait_lock' = c
    BY <2>1 DEF At, Goto, TypeOK
  <2>3. UNCHANGED <<stack, ctx>>
    BY <2>1
  <2>4. CASE p = initproc
    BY <1>w, <2>2, <2>3, <2>4, WaitKeep DEF WaitHeld
  <2>5. CASE p # initproc
    BY <2>1, <2>2, <2>3, <2>5, WaitAcquire DEF WaitHeld, At
  <2> QED
    BY <2>4, <2>5
<1>16. ASSUME NEW c \in CPUs, Reparent(c) PROVE WaitLockInv'
  <2>1. PICK p \in Procs : Reparent(c)!(p)
    BY <1>16 DEF Reparent
  <2>2. /\ pc[p] = "reparent" /\ pc'[p] \in {"pwake", "rwake"}
        /\ \A q \in Procs : q # p => pc'[q] = pc[q]
    BY <2>1 DEF At, TypeOK, Goto, GotoAt
  <2>3. UNCHANGED <<wait_lock, stack, ctx>>
    BY <2>1
  <2> QED
    BY <1>w, <2>2, <2>3, WaitKeep DEF WaitHeld
<1>17. ASSUME NEW c \in CPUs, NEW l \in {"rwake", "pwake"},
              NEW done \in {"reparent", "zombie"}, WakeIter(c, l, done)
       PROVE  WaitLockInv'
  <2>1. PICK p \in Procs : WakeIter(c, l, done)!(p)
    BY <1>17 DEF WakeIter
  <2>2. /\ pc[p] = l /\ (pc'[p] = l \/ pc'[p] = done)
        /\ \A q \in Procs : q # p => pc'[q] = pc[q]
    BY <2>1 DEF At, TypeOK, Goto, GotoAt
  <2>3. UNCHANGED <<wait_lock, stack, ctx>>
    BY <2>1
  <2> QED
    BY <1>w, <2>2, <2>3, WaitKeep DEF WaitHeld
<1>18. ASSUME NEW c \in CPUs, WakeInit(c) \/ WakeParent(c) PROVE WaitLockInv'
  BY <1>17, <1>18 DEF WakeInit, WakeParent
<1>19. ASSUME NEW c \in CPUs, ExitZombie(c) PROVE WaitLockInv'
  <2>1. PICK p \in Procs : ExitZombie(c)!(p)
    BY <1>19 DEF ExitZombie
  <2>2. /\ pc[p] = "zombie" /\ pc'[p] = "user"
        /\ \A q \in Procs : q # p => pc'[q] = pc[q]
    BY <2>1 DEF At, Goto, TypeOK
  <2> QED
    BY <2>1, <2>2, WaitRelease DEF WaitHeld
<1>20. ASSUME NEW c \in CPUs, WaitReap(c) PROVE WaitLockInv'
  <2>1. PICK p \in Procs : WaitReap(c)!(p)
    BY <1>20 DEF WaitReap
  <2>2. /\ pc[p] = "wscan" /\ pc'[p] = "ret"
        /\ \A q \in Procs : q # p => pc'[q] = pc[q]
    BY <2>1 DEF At, Goto, GotoAt, Return, TypeOK
  <2> QED
    BY <2>1, <2>2, WaitRelease DEF WaitHeld
<1>21. ASSUME NEW c \in CPUs, WaitSleep(c) PROVE WaitLockInv'
  <2>1. PICK p \in Procs : WaitSleep(c)!(p)
    BY <1>21 DEF WaitSleep
  <2>2. /\ pc[p] = "wsleep" /\ pc'[p] = "wait"
        /\ \A q \in Procs : q # p => pc'[q] = pc[q]
    BY <2>1 DEF At, Goto, TypeOK
  <2> QED
    BY <2>1, <2>2, WaitRelease DEF WaitHeld
<1>22. ASSUME NEW c \in CPUs, WaitCheck(c) PROVE WaitLockInv'
  <2>1. PICK p \in Procs : WaitCheck(c)!(p)
    BY <1>22 DEF WaitCheck
  <2>2. /\ pc[p] = "wend" /\ \A q \in Procs : q # p => pc'[q] = pc[q]
        /\ \/ pc'[p] = "ret" /\ wait_lock' = NoCPU
           \/ pc'[p] = "wsleep" /\ UNCHANGED wait_lock
    BY <2>1 DEF At, Goto, GotoAt, Return, TypeOK
  <2>3. UNCHANGED <<stack, ctx>>
    BY <2>1
  <2>4. CASE pc'[p] = "ret"
    BY <2>2, <2>4, WaitRelease DEF WaitHeld
  <2>5. CASE pc'[p] = "wsleep"
    BY <1>w, <2>2, <2>3, <2>5, WaitKeep DEF WaitHeld
  <2> QED
    BY <2>2, <2>4, <2>5
<1>23. ASSUME NEW c \in CPUs, WaitBegin(c) PROVE WaitLockInv'
  <2>1. PICK p \in Procs : WaitBegin(c)!(p)
    BY <1>23 DEF WaitBegin
  <2>2. pc'[p] = "wscan" /\ \A q \in Procs : q # p => pc'[q] = pc[q]
    BY <2>1 DEF Goto, GotoAt, TypeOK
  <2> QED
    BY <2>1, <2>2, WaitAcquire DEF WaitHeld, At
<1>24. ASSUME NEW c \in CPUs, WaitSkip(c) PROVE WaitLockInv'
  <2>1. PICK p \in Procs : WaitSkip(c)!(p)
    BY <1>24 DEF WaitSkip
  <2>2. /\ pc[p] = "wscan" /\ pc'[p] \in {"wscan", "wend"}
        /\ \A q \in Procs : q # p => pc'[q] = pc[q]
    BY <2>1 DEF At, TypeOK, Goto, GotoAt
  <2>3. UNCHANGED <<wait_lock, stack, ctx>>
    BY <2>1
  <2> QED
    BY <1>w, <2>2, <2>3, WaitKeep DEF WaitHeld
<1>25. ASSUME NEW c \in CPUs, PidScan(c) PROVE WaitLockInv'
  <2>1. PICK p \in Procs, l \in {"kill", "freeze", "unfreeze"} : PidScan(c)!(p, l)
    BY <1>25 DEF PidScan
  <2>2. /\ pc[p] = l /\ (pc'[p] = l \/ pc'[p] = "ret")
        /\ \A q \in Procs : q # p => pc'[q] = pc[q]
    BY <2>1 DEF At, TypeOK, Goto, GotoAt, Return
  <2>3. UNCHANGED <<wait_lock, stack, ctx>>
    BY <2>1
  <2> QED
    BY <1>w, <2>2, <2>3, WaitKeep DEF WaitHeld
<1>26. ASSUME NEW c \in CPUs, Kill(c) PROVE WaitLockInv'
  <2>1. PICK p, q \in Procs : Kill(c)!(p, q)
    BY <1>26 DEF Kill
  <2>2. /\ pc[p] = "kill" /\ pc'[p] = "ret"
        /\ \A r \in Procs : r # p => pc'[r] = pc[r]
    BY <2>1 DEF Found, At, TypeOK, Goto, GotoAt, Return
  <2>3. UNCHANGED <<wait_lock, stack, ctx>>
    BY <2>1
  <2> QED
    BY <1>w, <2>2, <2>3, WaitKeep DEF WaitHeld
<1>27. ASSUME NEW c \in CPUs, Freeze(c) PROVE WaitLockInv'
  <2>1. PICK p, q \in Procs : Freeze(c)!(p, q)
    BY <1>27 DEF Freeze
  <2>2. /\ pc[p] = "freeze" /\ pc'[p] = "ret"
        /\ \A r \in Procs : r # p => pc'[r] = pc[r]
    BY <2>1 DEF Found, At, TypeOK, Goto, GotoAt, Return
  <2>3. UNCHANGED <<wait_lock, stack, ctx>>
    BY <2>1
  <2> QED
    BY <1>w, <2>2, <2>3, WaitKeep DEF WaitHeld
<1>28. ASSUME NEW c \in CPUs, Unfreeze(c) PROVE WaitLockInv'
  <2>1. PICK p, q \in Procs : Unfreeze(c)!(p, q)
    BY <1>28 DEF Unfreeze
  <2>2. /\ pc[p] = "unfreeze" /\ pc'[p] = "ret"
        /\ \A r \in Procs : r # p => pc'[r] = pc[r]
    BY <2>1 DEF Found, At, TypeOK, Goto, GotoAt, Return
  <2>3. UNCHANGED <<wait_lock, stack, ctx>>
    BY <2>1
  <2> QED
    BY <1>w, <2>2, <2>3, WaitKeep DEF WaitHeld
<1> QED
  BY <1>1, <1>2, <1>3, <1>4, <1>5, <1>6, <1>7, <1>8, <1>9, <1>10, <1>11,
     <1>12, <1>13, <1>14, <1>15, <1>16, <1>17, <1>18, <1>19, <1>20, <1>21,
     <1>22, <1>23, <1>24, <1>25, <1>26, <1>27, <1>28
     DEF Next, Sched, Thread, Timer, Fork, Exit, Wait, PidCall

(***************************************************************************)
(* The theorems.                                                           *)
(***************************************************************************)
\* The inductive invariant of the context switch.
SwitchInv == TypeOK /\ CpuInv /\ ThreadInv /\ WaitLockInv

\* The boot state satisfies it.
LEMMA SwitchInit == Init => SwitchInv
<1> SUFFICES ASSUME Init PROVE SwitchInv
  OBVIOUS
<1>1. TypeOK
  BY TypeInit
<1>2. CpuInv
  BY CPUAssumption DEF Init, CpuInv
<1>3. ThreadInv
  BY DEF Init, ThreadInv
<1>4. WaitLockInv
  BY DEF Init, WaitLockInv, WaitHeld
<1> QED
  BY <1>1, <1>2, <1>3, <1>4 DEF SwitchInv

\* In every reachable state p->lock is with the CPU that switches p in or out,
\* and wait_lock with the CPU whose thread is inside its critical section.
THEOREM SwitchInvariant == Spec => []SwitchInv
<1>1. Init => SwitchInv
  BY SwitchInit
<1>2. SwitchInv /\ [Next]_vars => SwitchInv'
  BY TypeNext, CpuNext, ThreadNext, WaitLockNext DEF SwitchInv
<1> QED
  BY <1>1, <1>2, PTL DEF Spec

\* Handing p->lock over across swtch() is enough: no two CPUs are ever on one
\* kernel stack, a RUNNING process is on exactly one CPU, and no slot that
\* wait() has freed is still in use by a CPU.
THEOREM StacksAreExclusive == Spec => []StackExclusive
<1>1. SwitchInv => StackExclusive
  <2> SUFFICES ASSUME TypeOK, CpuInv PROVE StackExclusive
    BY DEF SwitchInv
  <2>1. ASSUME NEW p \in Procs, state[p] = "RUNNING"
        PROVE  \E c \in CPUs : stack[c] = p /\ cproc[c] = p
    <3>1. PICK c \in CPUs : stack[c] = p
      BY <2>1 DEF CpuInv
    <3>2. p # 0
      BY SlotFacts
    <3> QED
      BY <3>1, <3>2 DEF CpuInv
  <2> QED
    BY <2>1 DEF CpuInv, StackExclusive
<1> QED
  BY <1>1, SwitchInvariant, PTL

\* The panics of sched() are unreachable: whoever calls it holds its own
\* p->lock and nothing else.
THEOREM SchedHoldsOneLock == Spec => []SchedLocks
<1>1. SwitchInv => SchedLocks
  <2> SUFFICES ASSUME TypeOK, CpuInv, WaitLockInv,
                      NEW c \in CPUs, NEW p \in Procs,
                      stack[c] = p, ctx[p] # "run"
               PROVE  /\ lock[p] = c /\ wait_lock # c
                      /\ \A q \in Procs : lock[q] = c => q = p
    BY DEF SwitchInv, SchedLocks
  <2>1. cproc[c] = p /\ lock[p] = c
    BY SlotFacts DEF CpuInv
  <2>2. wait_lock # c
    BY CPUAssumption DEF WaitLockInv
  <2>3. ASSUME NEW q \in Procs, lock[q] = c PROVE q = p
    <3>1. lock[q] # NoCPU
      BY <2>3, CPUAssumption
    <3>2. cproc[lock[q]] = q
      BY <3>1 DEF CpuInv
    <3> QED
      BY <2>1, <2>3, <3>2
  <2> QED
    BY <2>1, <2>2, <2>3
<1> QED
  BY <1>1, SwitchInvariant, PTL
=============================================================================
