---------------------------- MODULE ProcLifeProofs --------------------------
(***************************************************************************)
(* Proc implements ProcLife, and so gives every process a pid of its own;  *)
(* no parent has exited, and no wakeup of wait() is lost, for any number   *)
(* of slots and CPUs.                                                      *)
(***************************************************************************)
EXTENDS ProcProofs

\* pids grow, and exactly the free slots have none.
PidInv ==
  /\ PidUnique
  /\ nextpid > 0
  /\ \A p \in Procs : pid[p] < nextpid

\* The first process has pid 1, every other slot is free.
LEMMA PidInit == Init => PidInv
BY SlotFacts DEF Init, PidInv, PidUnique, initproc

\* Every legal move of a slot keeps the pids apart.
LEMMA PidLife == TypeOK /\ PidInv /\ Life!Next => PidInv'
<1> SUFFICES ASSUME TypeOK, PidInv, Life!Next PROVE PidInv'
  OBVIOUS
<1> USE DEF PidInv, PidUnique
<1>0. /\ state \in [Procs -> States] /\ pid \in [Procs -> Nat]
      /\ nextpid \in Nat
  BY DEF TypeOK
<1>1. PICK p \in Procs : Life!Next!(p)
  BY DEF Life!Next
<1>2. ASSUME UNCHANGED <<pid, nextpid>>,
             \A q \in Procs : state'[q] = "UNUSED" <=> state[q] = "UNUSED"
      PROVE  PidInv'
  BY <1>2
<1>3. ASSUME NEW from \in SUBSET (States \ {"UNUSED"}), NEW to \in States \ {"UNUSED"},
             Life!Move(p, from, to)
      PROVE  PidInv'
  BY <1>0, <1>2, <1>3 DEF Life!Move
<1>4. CASE \/ Life!Dispatch(p) \/ Life!Yield(p) \/ Life!Sleep(p) \/ Life!Wake(p)
           \/ Life!Launch(p) \/ Life!Exit(p)
  BY <1>3, <1>4 DEF Life!Dispatch, Life!Yield, Life!Sleep, Life!Wake,
       Life!Launch, Life!Exit, States
<1>5. CASE Life!Create(p)
  <2>1. pid' = [pid EXCEPT ![p] = nextpid] /\ nextpid' = nextpid + 1
        /\ state' = [state EXCEPT ![p] = "USED"]
    BY <1>5 DEF Life!Create
  <2>2. \A q \in Procs : pid'[q] = 0 <=> state'[q] = "UNUSED"
    BY <1>0, <2>1
  <2>3. \A q, r \in Procs : pid'[q] = pid'[r] /\ pid'[q] # 0 => q = r
    BY <1>0, <2>1
  <2>4. \A q \in Procs : pid'[q] < nextpid'
    BY <1>0, <2>1
  <2> QED
    BY <1>0, <2>1, <2>2, <2>3, <2>4
<1>6. CASE Life!CreateFails(p)
  BY <1>0, <1>6 DEF Life!CreateFails
<1>7. CASE Life!Reap(p)
  BY <1>0, <1>7 DEF Life!Reap
<1>8. CASE Life!Kill(p) \/ Life!Freeze(p) \/ Life!Unfreeze(p)
  BY <1>0, <1>2, <1>8 DEF Life!Kill, Life!Freeze, Life!Unfreeze, Life!Rouse
<1> QED
  BY <1>1, <1>4, <1>5, <1>6, <1>7, <1>8

\* init never gets into exit(): it panics at its entry.
InitInv == pc[initproc] \notin {"reparent", "rwake", "pwake", "zombie"}

\* init starts outside exit().
LEMMA InitInit == Init => InitInv
BY SlotFacts DEF Init, InitInv

\* No action takes init past the entry of exit().
LEMMA InitNext == TypeOK /\ InitInv /\ [Next]_vars => InitInv'
<1> SUFFICES ASSUME TypeOK, InitInv, [Next]_vars PROVE InitInv'
  OBVIOUS
<1>0. pc \in [Procs -> Labels] /\ initproc \in Procs
  BY SlotFacts DEF TypeOK
<1>1. ASSUME UNCHANGED pc PROVE InitInv'
  BY <1>1 DEF InitInv
<1>2. ASSUME NEW p \in Procs, NEW l \in Labels, Goto(p, l),
             l \in {"reparent", "rwake", "pwake", "zombie"} => p # initproc
      PROVE  InitInv'
  BY <1>0, <1>2 DEF InitInv, Goto
<1>3. ASSUME NEW p \in Procs, Return(p) PROVE InitInv'
  BY <1>2, <1>3 DEF Return, GotoAt, Labels
<1>4. CASE UNCHANGED vars
  BY <1>1, <1>4 DEF vars, thrvars
<1>5. ASSUME NEW c \in CPUs, SchedSkip(c) PROVE InitInv'
  BY <1>1, <1>5 DEF SchedSkip, thrvars
<1>6. ASSUME NEW c \in CPUs, SchedDispatch(c) PROVE InitInv'
  BY <1>1, <1>6 DEF SchedDispatch, thrvars
<1>7. ASSUME NEW c \in CPUs, SchedRelease(c) PROVE InitInv'
  BY <1>1, <1>7 DEF SchedRelease, thrvars
<1>8. ASSUME NEW c \in CPUs, Swtch(c) PROVE InitInv'
  BY <1>1, <1>8 DEF Swtch, thrvars
<1>9. ASSUME NEW c \in CPUs, Resume(c) PROVE InitInv'
  BY <1>1, <1>9 DEF Resume, thrvars
<1>10. ASSUME NEW c \in CPUs, UserTimer(c) PROVE InitInv'
  <2>1. PICK p \in Procs : UserTimer(c)!(p)
    BY <1>10 DEF UserTimer
  <2> QED
    BY <1>1, <1>2, <2>1 DEF Labels
<1>11. ASSUME NEW c \in CPUs, KernelTimer(c) PROVE InitInv'
  <2>1. PICK p \in Procs : KernelTimer(c)!(p)
    BY <1>11 DEF KernelTimer
  <2> QED
    BY <1>1, <2>1
<1>12. ASSUME NEW c \in CPUs, Syscall(c) PROVE InitInv'
  <2>1. PICK p \in Procs, call \in Calls, n \in Targets \cup {0} : Syscall(c)!(p, call, n)
    BY <1>12 DEF Syscall
  <2> QED
    BY <1>2, <2>1, CallsAssumption DEF GotoAt, Labels
<1>13. ASSUME NEW c \in CPUs, Fault(c) PROVE InitInv'
  <2>1. PICK p \in Procs : Fault(c)!(p)
    BY <1>13 DEF Fault
  <2> QED
    BY <1>2, <2>1 DEF Labels
<1>14. ASSUME NEW c \in CPUs, TrapReturn(c) PROVE InitInv'
  <2>1. PICK p \in Procs : TrapReturn(c)!(p)
    BY <1>14 DEF TrapReturn
  <2> QED
    BY <1>2, <2>1 DEF Labels
<1>15. ASSUME NEW c \in CPUs, AllocSkip(c) PROVE InitInv'
  <2>1. PICK p \in Procs : AllocSkip(c)!(p)
    BY <1>15 DEF AllocSkip
  <2> QED
    BY <1>2, <1>3, <2>1 DEF GotoAt, Labels
<1>16. ASSUME NEW c \in CPUs, AllocFail(c) PROVE InitInv'
  <2>1. PICK p \in Procs : AllocFail(c)!(p)
    BY <1>16 DEF AllocFail
  <2> QED
    BY <1>3, <2>1
<1>17. ASSUME NEW c \in CPUs, AllocOk(c) PROVE InitInv'
  <2>1. PICK p \in Procs : AllocOk(c)!(p)
    BY <1>17 DEF AllocOk
  <2> QED
    BY <1>0, <2>1 DEF InitInv
<1>18. ASSUME NEW c \in CPUs, ForkLink(c) PROVE InitInv'
  <2>1. PICK p \in Procs : ForkLink(c)!(p)
    BY <1>18 DEF ForkLink
  <2> QED
    BY <1>2, <2>1 DEF Labels
<1>19. ASSUME NEW c \in CPUs, ForkRunnable(c) PROVE InitInv'
  <2>1. PICK p \in Procs : ForkRunnable(c)!(p)
    BY <1>19 DEF ForkRunnable
  <2> QED
    BY <1>3, <2>1
<1>20. ASSUME NEW c \in CPUs, ExitBegin(c) PROVE InitInv'
  <2>1. PICK p \in Procs : ExitBegin(c)!(p)
    BY <1>20 DEF ExitBegin
  <2> QED
    BY <1>2, <2>1 DEF Labels
<1>21. ASSUME NEW c \in CPUs, Reparent(c) PROVE InitInv'
  <2>1. PICK p \in Procs : Reparent(c)!(p)
    BY <1>21 DEF Reparent
  <2> QED
    BY <1>2, <2>1 DEF InitInv, At, GotoAt, Labels
<1>22. ASSUME NEW c \in CPUs, WakeInit(c) PROVE InitInv'
  <2>1. PICK p \in Procs : WakeIter(c, "rwake", "reparent")!(p)
    BY <1>22 DEF WakeInit, WakeIter
  <2> QED
    BY <1>2, <2>1 DEF InitInv, At, GotoAt, Labels
<1>23. ASSUME NEW c \in CPUs, WakeParent(c) PROVE InitInv'
  <2>1. PICK p \in Procs : WakeIter(c, "pwake", "zombie")!(p)
    BY <1>23 DEF WakeParent, WakeIter
  <2> QED
    BY <1>2, <2>1 DEF InitInv, At, GotoAt, Labels
<1>24. ASSUME NEW c \in CPUs, ExitZombie(c) PROVE InitInv'
  <2>1. PICK p \in Procs : ExitZombie(c)!(p)
    BY <1>24 DEF ExitZombie
  <2> QED
    BY <1>2, <2>1 DEF Labels
<1>25. ASSUME NEW c \in CPUs, WaitBegin(c) PROVE InitInv'
  <2>1. PICK p \in Procs : WaitBegin(c)!(p)
    BY <1>25 DEF WaitBegin
  <2> QED
    BY <1>2, <2>1 DEF GotoAt, Labels
<1>26. ASSUME NEW c \in CPUs, WaitSkip(c) PROVE InitInv'
  <2>1. PICK p \in Procs : WaitSkip(c)!(p)
    BY <1>26 DEF WaitSkip
  <2> QED
    BY <1>2, <2>1 DEF GotoAt, Labels
<1>27. ASSUME NEW c \in CPUs, WaitReap(c) PROVE InitInv'
  <2>1. PICK p \in Procs : WaitReap(c)!(p)
    BY <1>27 DEF WaitReap
  <2> QED
    BY <1>3, <2>1
<1>28. ASSUME NEW c \in CPUs, WaitCheck(c) PROVE InitInv'
  <2>1. PICK p \in Procs : WaitCheck(c)!(p)
    BY <1>28 DEF WaitCheck
  <2> QED
    BY <1>2, <1>3, <2>1 DEF Labels
<1>29. ASSUME NEW c \in CPUs, WaitSleep(c) PROVE InitInv'
  <2>1. PICK p \in Procs : WaitSleep(c)!(p)
    BY <1>29 DEF WaitSleep
  <2> QED
    BY <1>2, <2>1 DEF Labels
<1>30. ASSUME NEW c \in CPUs, PidScan(c) PROVE InitInv'
  <2>1. PICK p \in Procs, l \in {"kill", "freeze", "unfreeze"} : PidScan(c)!(p, l)
    BY <1>30 DEF PidScan
  <2> QED
    BY <1>2, <1>3, <2>1 DEF GotoAt, Labels
<1>31. ASSUME NEW c \in CPUs, Kill(c) PROVE InitInv'
  <2>1. PICK p, q \in Procs : Kill(c)!(p, q)
    BY <1>31 DEF Kill
  <2> QED
    BY <1>3, <2>1
<1>32. ASSUME NEW c \in CPUs, Freeze(c) PROVE InitInv'
  <2>1. PICK p, q \in Procs : Freeze(c)!(p, q)
    BY <1>32 DEF Freeze
  <2> QED
    BY <1>3, <2>1
<1>33. ASSUME NEW c \in CPUs, Unfreeze(c) PROVE InitInv'
  <2>1. PICK p, q \in Procs : Unfreeze(c)!(p, q)
    BY <1>33 DEF Unfreeze
  <2> QED
    BY <1>3, <2>1
<1> QED
  BY <1>4, <1>5, <1>6, <1>7, <1>8, <1>9, <1>10, <1>11, <1>12, <1>13, <1>14,
     <1>15, <1>16, <1>17, <1>18, <1>19, <1>20, <1>21, <1>22, <1>23, <1>24,
     <1>25, <1>26, <1>27, <1>28, <1>29, <1>30, <1>31, <1>32, <1>33
     DEF Next, Sched, Thread, Timer, Fork, Exit, Wait, PidCall

\* Every action of Proc is a move of one slot in ProcLife, or changes nothing
\* that ProcLife sees.
LEMMA LifeStep ==
  SwitchInv /\ PidInv /\ InitInv /\ [Next]_vars
    => [Life!Next]_(Life!lifevars)
<1> SUFFICES ASSUME SwitchInv, PidInv, InitInv, [Next]_vars
             PROVE  Life!Next \/ UNCHANGED Life!lifevars
  OBVIOUS
<1> DEFINE Legal == Life!Next \/ UNCHANGED Life!lifevars
<1> HIDE DEF Legal
<1>0. /\ TypeOK /\ CpuInv /\ ThreadInv
      /\ state \in [Procs -> States] /\ pid \in [Procs -> Nat]
      /\ killed \in [Procs -> BOOLEAN] /\ frozen \in [Procs -> BOOLEAN]
  BY DEF SwitchInv, TypeOK
<1>1. ASSUME UNCHANGED <<state, killed, frozen, pid, nextpid>> PROVE Legal
  BY <1>1 DEF Legal, Life!lifevars
<1>2. ASSUME NEW q \in Procs, NEW from \in States, NEW to \in States,
             state[q] = from, state' = [state EXCEPT ![q] = to],
             \/ from = "RUNNABLE" /\ to = "RUNNING" /\ ~frozen[q]
             \/ from = "RUNNING" /\ to \in {"RUNNABLE", "SLEEPING"}
             \/ from = "RUNNING" /\ to = "ZOMBIE" /\ q # initproc
             \/ from \in {"SLEEPING", "USED"} /\ to = "RUNNABLE",
             UNCHANGED <<killed, frozen, pid, nextpid>>
      PROVE  Legal
  BY <1>2 DEF Legal, Life!Next, Life!Move, Life!Dispatch, Life!Yield,
       Life!Sleep, Life!Wake, Life!Launch, Life!Exit
<1>3. ASSUME UNCHANGED vars PROVE Legal
  BY <1>1, <1>3 DEF vars, procvars
<1>4. ASSUME NEW c \in CPUs, SchedSkip(c) PROVE Legal
  BY <1>1, <1>4 DEF SchedSkip, procvars
<1>5. ASSUME NEW c \in CPUs, SchedDispatch(c) PROVE Legal
  BY <1>0, <1>2, <1>5 DEF SchedDispatch, Schedulable, TypeOK, States
<1>6. ASSUME NEW c \in CPUs, SchedRelease(c) PROVE Legal
  BY <1>1, <1>6 DEF SchedRelease, procvars
<1>7. ASSUME NEW c \in CPUs, Swtch(c) PROVE Legal
  BY <1>1, <1>7 DEF Swtch, procvars
<1>8. ASSUME NEW c \in CPUs, Resume(c) PROVE Legal
  BY <1>1, <1>8 DEF Resume
<1>9. ASSUME NEW c \in CPUs, UserTimer(c) PROVE Legal
  <2>1. PICK p \in Procs : UserTimer(c)!(p)
    BY <1>9 DEF UserTimer
  <2>2. state[p] = "RUNNING"
    BY <1>0, <2>1, Executing DEF At
  <2> QED
    BY <1>1, <1>2, <2>1, <2>2 DEF GiveUp, States
<1>10. ASSUME NEW c \in CPUs, KernelTimer(c) PROVE Legal
  <2>1. PICK p \in Procs : KernelTimer(c)!(p)
    BY <1>10 DEF KernelTimer
  <2>2. state[p] = "RUNNING"
    BY <1>0, <2>1, Executing DEF At
  <2> QED
    BY <1>2, <2>1, <2>2 DEF GiveUp, States
<1>11. ASSUME NEW c \in CPUs, Syscall(c) PROVE Legal
  <2>1. PICK p \in Procs, call \in Calls, n \in Targets \cup {0} : Syscall(c)!(p, call, n)
    BY <1>11 DEF Syscall
  <2> QED
    BY <1>1, <2>1 DEF procvars
<1>12. ASSUME NEW c \in CPUs, Fault(c) PROVE Legal
  <2>1. PICK p \in Procs : Fault(c)!(p)
    BY <1>12 DEF Fault
  <2>2. state[p] = "RUNNING"
    BY <1>0, <2>1, Executing DEF At
  <2>3. Life!Kill(p)
    BY <1>0, <2>1, <2>2 DEF Life!Kill, Life!Rouse
  <2> QED
    BY <2>3 DEF Legal, Life!Next
<1>13. ASSUME NEW c \in CPUs, TrapReturn(c) PROVE Legal
  <2>1. PICK p \in Procs : TrapReturn(c)!(p)
    BY <1>13 DEF TrapReturn
  <2> QED
    BY <1>1, <2>1 DEF procvars
<1>14. ASSUME NEW c \in CPUs, AllocSkip(c) PROVE Legal
  <2>1. PICK p \in Procs : AllocSkip(c)!(p)
    BY <1>14 DEF AllocSkip
  <2> QED
    BY <1>1, <2>1 DEF procvars
<1>15. ASSUME NEW c \in CPUs, AllocFail(c) PROVE Legal
  <2>1. PICK p \in Procs : AllocFail(c)!(p)
    BY <1>15 DEF AllocFail
  <2>2. cur[p] \in Procs
    BY <1>0, <2>1, CursorInRange DEF TypeOK, ThreadInv, At
  <2>3. Life!CreateFails(cur[p])
    BY <1>0, <2>1, <2>2 DEF PidInv, PidUnique, FreeProc, Life!CreateFails
  <2> QED
    BY <2>2, <2>3 DEF Legal, Life!Next
<1>16. ASSUME NEW c \in CPUs, AllocOk(c) PROVE Legal
  <2>1. PICK p \in Procs : AllocOk(c)!(p)
    BY <1>16 DEF AllocOk
  <2>2. cur[p] \in Procs
    BY <1>0, <2>1, CursorInRange DEF TypeOK, ThreadInv, At
  <2>3. Life!Create(cur[p])
    BY <2>1 DEF Life!Create
  <2> QED
    BY <2>2, <2>3 DEF Legal, Life!Next
<1>17. ASSUME NEW c \in CPUs, ForkLink(c) PROVE Legal
  <2>1. PICK p \in Procs : ForkLink(c)!(p)
    BY <1>17 DEF ForkLink
  <2> QED
    BY <1>1, <2>1
<1>18. ASSUME NEW c \in CPUs, ForkRunnable(c) PROVE Legal
  <2>1. PICK p \in Procs : ForkRunnable(c)!(p)
    BY <1>18 DEF ForkRunnable
  <2>2. arg[p] \in Procs /\ state[arg[p]] = "USED"
    BY <1>0, <2>1 DEF ThreadInv, At
  <2> QED
    BY <1>2, <2>1, <2>2 DEF States
<1>19. ASSUME NEW c \in CPUs, ExitBegin(c) PROVE Legal
  <2>1. PICK p \in Procs : ExitBegin(c)!(p)
    BY <1>19 DEF ExitBegin
  <2> QED
    BY <1>1, <2>1 DEF procvars
<1>20. ASSUME NEW c \in CPUs, Reparent(c) PROVE Legal
  <2>1. PICK p \in Procs : Reparent(c)!(p)
    BY <1>20 DEF Reparent
  <2> QED
    BY <1>1, <2>1
<1>21. ASSUME NEW c \in CPUs, WakeInit(c) PROVE Legal
  <2>1. PICK p \in Procs : WakeIter(c, "rwake", "reparent")!(p)
    BY <1>21 DEF WakeInit, WakeIter
  <2>2. cur[p] \in Procs
    BY <1>0, <2>1 DEF ThreadInv, At
  <2> QED
    BY <1>1, <1>2, <2>1, <2>2 DEF WakeSlot, States
<1>22. ASSUME NEW c \in CPUs, WakeParent(c) PROVE Legal
  <2>1. PICK p \in Procs : WakeIter(c, "pwake", "zombie")!(p)
    BY <1>22 DEF WakeParent, WakeIter
  <2>2. cur[p] \in Procs
    BY <1>0, <2>1 DEF ThreadInv, At
  <2> QED
    BY <1>1, <1>2, <2>1, <2>2 DEF WakeSlot, States
<1>23. ASSUME NEW c \in CPUs, ExitZombie(c) PROVE Legal
  <2>1. PICK p \in Procs : ExitZombie(c)!(p)
    BY <1>23 DEF ExitZombie
  <2>2. state[p] = "RUNNING"
    BY <1>0, <2>1, Executing DEF At
  <2>3. p # initproc
    BY <2>1 DEF InitInv, At
  <2> QED
    BY <1>2, <2>1, <2>2, <2>3 DEF GiveUp, States
<1>24. ASSUME NEW c \in CPUs, WaitBegin(c) PROVE Legal
  <2>1. PICK p \in Procs : WaitBegin(c)!(p)
    BY <1>24 DEF WaitBegin
  <2> QED
    BY <1>1, <2>1 DEF procvars
<1>25. ASSUME NEW c \in CPUs, WaitSkip(c) PROVE Legal
  <2>1. PICK p \in Procs : WaitSkip(c)!(p)
    BY <1>25 DEF WaitSkip
  <2> QED
    BY <1>1, <2>1 DEF procvars
<1>26. ASSUME NEW c \in CPUs, WaitReap(c) PROVE Legal
  <2>1. PICK p \in Procs : WaitReap(c)!(p)
    BY <1>26 DEF WaitReap
  <2>2. cur[p] \in Procs
    BY <1>0, <2>1 DEF ThreadInv, At
  <2>3. CASE FreeProc(cur[p])
    <3>1. Life!Reap(cur[p])
      BY <2>1, <2>3 DEF Reapable, FreeProc, Life!Reap
    <3> QED
      BY <2>2, <3>1 DEF Legal, Life!Next
  <2> QED
    BY <1>1, <2>1, <2>3 DEF procvars
<1>27. ASSUME NEW c \in CPUs, WaitCheck(c) PROVE Legal
  <2>1. PICK p \in Procs : WaitCheck(c)!(p)
    BY <1>27 DEF WaitCheck
  <2> QED
    BY <1>1, <2>1 DEF procvars
<1>28. ASSUME NEW c \in CPUs, WaitSleep(c) PROVE Legal
  <2>1. PICK p \in Procs : WaitSleep(c)!(p)
    BY <1>28 DEF WaitSleep
  <2>2. state[p] = "RUNNING"
    BY <1>0, <2>1, Executing DEF At
  <2> QED
    BY <1>2, <2>1, <2>2 DEF GiveUp, States
<1>29. ASSUME NEW c \in CPUs, PidScan(c) PROVE Legal
  <2>1. PICK p \in Procs, l \in {"kill", "freeze", "unfreeze"} : PidScan(c)!(p, l)
    BY <1>29 DEF PidScan
  <2> QED
    BY <1>1, <2>1 DEF procvars
<1>30. ASSUME NEW c \in CPUs, Kill(c) PROVE Legal
  <2>1. PICK p, q \in Procs : Kill(c)!(p, q)
    BY <1>30 DEF Kill
  <2>2. Rouse(q) => Life!Rouse(q)
    BY <1>0 DEF Rouse, Life!Rouse
  <2>3. Life!Kill(q)
    BY <2>1, <2>2 DEF Life!Kill
  <2> QED
    BY <2>3 DEF Legal, Life!Next
<1>31. ASSUME NEW c \in CPUs, Freeze(c) PROVE Legal
  <2>1. PICK p, q \in Procs : Freeze(c)!(p, q)
    BY <1>31 DEF Freeze
  <2>2. CASE Freezable(q)
    <3>1. Life!Freeze(q)
      BY <2>1, <2>2 DEF Freezable, Life!Freeze
    <3> QED
      BY <3>1 DEF Legal, Life!Next
  <2> QED
    BY <1>1, <2>1, <2>2
<1>32. ASSUME NEW c \in CPUs, Unfreeze(c) PROVE Legal
  <2>1. PICK p, q \in Procs : Unfreeze(c)!(p, q)
    BY <1>32 DEF Unfreeze
  <2>2. Rouse(q) => Life!Rouse(q)
    BY <1>0 DEF Rouse, Life!Rouse
  <2>3. CASE frozen[q]
    <3>1. Life!Unfreeze(q)
      BY <2>1, <2>2, <2>3 DEF Life!Unfreeze
    <3> QED
      BY <3>1 DEF Legal, Life!Next
  <2> QED
    BY <1>1, <2>1, <2>3
<1>33. Legal
  BY <1>3, <1>4, <1>5, <1>6, <1>7, <1>8, <1>9, <1>10, <1>11, <1>12, <1>13,
     <1>14, <1>15, <1>16, <1>17, <1>18, <1>19, <1>20, <1>21, <1>22, <1>23,
     <1>24, <1>25, <1>26, <1>27, <1>28, <1>29, <1>30, <1>31, <1>32
     DEF Next, Sched, Thread, Timer, Fork, Exit, Wait, PidCall
<1> QED
  BY <1>33 DEF Legal

\* What the refinement rests on.
LifeInv == SwitchInv /\ PidInv /\ InitInv

\* Every action keeps it.
LEMMA LifeNext == LifeInv /\ [Next]_vars => LifeInv'
<1> SUFFICES ASSUME LifeInv, [Next]_vars PROVE LifeInv'
  OBVIOUS
<1>1. SwitchInv'
  BY TypeNext, CpuNext, ThreadNext, WaitLockNext DEF LifeInv, SwitchInv
<1>2. InitInv'
  BY InitNext DEF LifeInv, SwitchInv
<1>3. [Life!Next]_(Life!lifevars)
  BY LifeStep DEF LifeInv
<1>4. PidInv'
  <2>1. CASE UNCHANGED Life!lifevars
    BY <2>1 DEF LifeInv, PidInv, PidUnique, Life!lifevars
  <2> QED
    BY <1>3, <2>1, PidLife DEF LifeInv, SwitchInv
<1> QED
  BY <1>1, <1>2, <1>4 DEF LifeInv

\* The inductive invariant behind the refinement, in every reachable state.
THEOREM LifeInvariant == Spec => []LifeInv
<1>1. Init => LifeInv
  BY SwitchInit, PidInit, InitInit DEF LifeInv
<1> QED
  BY <1>1, LifeNext, PTL DEF Spec

\* The pids that kill, sys_freeze and sys_unfreeze compare are those of the
\* slots in use, and no two are alike: allocpid() never repeats one and
\* freeproc() takes it back.
THEOREM PidsAreUnique == Spec => []PidUnique
<1>1. LifeInv => PidUnique
  BY DEF LifeInv, PidInv
<1> QED
  BY <1>1, LifeInvariant, PTL

\* The scheduler, fork(), exit(), wait(), kill(), sys_freeze() and
\* sys_unfreeze() on any number of CPUs implement the life of a process.
THEOREM ProcImplementsLife == Spec => ImplementsLife
<1>1. Init => Life!Init
  BY DEF Init, Life!Init
<1>2. LifeInv /\ [Next]_vars => [Life!Next]_(Life!lifevars)
  BY LifeStep DEF LifeInv
<1> QED
  BY <1>1, <1>2, LifeInvariant, PTL DEF Spec, ImplementsLife, Life!Spec

\* Nobody but q's thread moves.
OnlyMoves(q) == \A r \in Procs \ {q} :
  ctx'[r] = ctx[r] /\ pc'[r] = pc[r] /\ cur'[r] = cur[r] /\ arg'[r] = arg[r]

\* A process that is off the CPU and not free keeps its saved context and its
\* place in the kernel, and is given a CPU only if it is not frozen.
LEMMA OffCpuStays ==
  ASSUME SwitchInv, [Next]_vars, NEW x \in Procs, ~OnCpu(x), state[x] # "UNUSED"
  PROVE  /\ ctx'[x] = ctx[x] /\ pc'[x] = pc[x]
         /\ cur'[x] = cur[x] /\ arg'[x] = arg[x]
         /\ frozen[x] => ~OnCpu(x)'
<1> DEFINE Stays == /\ ctx'[x] = ctx[x] /\ pc'[x] = pc[x]
                    /\ cur'[x] = cur[x] /\ arg'[x] = arg[x]
                    /\ frozen[x] => ~OnCpu(x)'
<1> HIDE DEF Stays
<1>0. /\ TypeOK /\ CpuInv /\ ThreadInv
      /\ ctx \in [Procs -> Contexts] /\ pc \in [Procs -> Labels]
      /\ cur \in [Procs -> Cursors] /\ arg \in [Procs -> Nat]
      /\ cproc \in [CPUs -> ProcOrNull]
  BY DEF SwitchInv, TypeOK
<1>1. ASSUME UNCHANGED <<ctx, pc, cur, arg, cproc>> PROVE Stays
  BY <1>1 DEF Stays, OnCpu
<1>2. ASSUME NEW c \in CPUs, NEW q \in Procs, stack[c] = q, OnlyMoves(q),
             UNCHANGED cproc
      PROVE  Stays
  <2>1. q # x
    BY <1>0, <1>2, SlotFacts DEF CpuInv, OnCpu
  <2> QED
    BY <1>2, <2>1 DEF OnlyMoves, Stays, OnCpu
<1>3. ASSUME UNCHANGED vars PROVE Stays
  BY <1>1, <1>3 DEF vars, thrvars, cpuvars
<1>4. ASSUME NEW c \in CPUs, SchedSkip(c) PROVE Stays
  BY <1>1, <1>4 DEF SchedSkip, thrvars
<1>5. ASSUME NEW c \in CPUs, SchedDispatch(c) PROVE Stays
  <2>1. UNCHANGED <<ctx, pc, cur, arg>>
    BY <1>5 DEF SchedDispatch, thrvars
  <2>2. frozen[x] => ~OnCpu(x)'
    BY <1>0, <1>5 DEF SchedDispatch, Schedulable, OnCpu
  <2> QED
    BY <2>1, <2>2 DEF Stays
<1>6. ASSUME NEW c \in CPUs, SchedRelease(c) PROVE Stays
  <2>1. UNCHANGED <<ctx, pc, cur, arg>>
    BY <1>6 DEF SchedRelease, thrvars
  <2>2. ~OnCpu(x)'
    BY <1>0, SlotFacts, <1>6 DEF SchedRelease, OnCpu
  <2> QED
    BY <2>1, <2>2 DEF Stays
<1>7. ASSUME NEW c \in CPUs, Swtch(c) PROVE Stays
  BY <1>1, <1>7 DEF Swtch, thrvars
<1>8. ASSUME NEW c \in CPUs, Resume(c) PROVE Stays
  <2>1. stack[c] \in Procs
    BY <1>0, SlotFacts, <1>8 DEF Resume, TypeOK
  <2>2. OnlyMoves(stack[c])
    BY <1>0, <1>8 DEF Resume, OnlyMoves
  <2> QED
    BY <1>2, <2>1, <2>2, <1>8 DEF Resume, cpuvars
<1>9. ASSUME NEW c \in CPUs, UserTimer(c) PROVE Stays
  <2>1. PICK p \in Procs : UserTimer(c)!(p)
    BY <1>9 DEF UserTimer
  <2>2. OnlyMoves(p)
    BY <1>0, <2>1 DEF OnlyMoves, GiveUp, Goto
  <2> QED
    BY <1>2, <2>1, <2>2 DEF At, cpuvars
<1>10. ASSUME NEW c \in CPUs, KernelTimer(c) PROVE Stays
  <2>1. PICK p \in Procs : KernelTimer(c)!(p)
    BY <1>10 DEF KernelTimer
  <2>2. OnlyMoves(p)
    BY <1>0, <2>1 DEF OnlyMoves, GiveUp
  <2> QED
    BY <1>2, <2>1, <2>2 DEF At, cpuvars
<1>11. ASSUME NEW c \in CPUs, Syscall(c) PROVE Stays
  <2>1. PICK p \in Procs, call \in Calls, n \in Targets \cup {0} : Syscall(c)!(p, call, n)
    BY <1>11 DEF Syscall
  <2>2. OnlyMoves(p)
    BY <1>0, <2>1 DEF OnlyMoves, Goto, GotoAt
  <2> QED
    BY <1>2, <2>1, <2>2 DEF At, cpuvars
<1>12. ASSUME NEW c \in CPUs, Fault(c) PROVE Stays
  <2>1. PICK p \in Procs : Fault(c)!(p)
    BY <1>12 DEF Fault
  <2>2. OnlyMoves(p)
    BY <1>0, <2>1 DEF OnlyMoves, Goto
  <2> QED
    BY <1>2, <2>1, <2>2 DEF At, cpuvars
<1>13. ASSUME NEW c \in CPUs, TrapReturn(c) PROVE Stays
  <2>1. PICK p \in Procs : TrapReturn(c)!(p)
    BY <1>13 DEF TrapReturn
  <2>2. OnlyMoves(p)
    BY <1>0, <2>1 DEF OnlyMoves, Goto
  <2> QED
    BY <1>2, <2>1, <2>2 DEF At, cpuvars
<1>14. ASSUME NEW c \in CPUs, AllocSkip(c) PROVE Stays
  <2>1. PICK p \in Procs : AllocSkip(c)!(p)
    BY <1>14 DEF AllocSkip
  <2>2. OnlyMoves(p)
    BY <1>0, <2>1 DEF OnlyMoves, Goto, GotoAt, Return
  <2> QED
    BY <1>2, <2>1, <2>2 DEF At, cpuvars
<1>15. ASSUME NEW c \in CPUs, AllocFail(c) PROVE Stays
  <2>1. PICK p \in Procs : AllocFail(c)!(p)
    BY <1>15 DEF AllocFail
  <2>2. OnlyMoves(p)
    BY <1>0, <2>1 DEF OnlyMoves, Goto, GotoAt, Return
  <2> QED
    BY <1>2, <2>1, <2>2 DEF At, cpuvars
<1>16. ASSUME NEW c \in CPUs, AllocOk(c) PROVE Stays
  <2>1. PICK p \in Procs : AllocOk(c)!(p)
    BY <1>16 DEF AllocOk
  <2>2. x # cur[p]
    BY <2>1
  <2>3. x # p
    BY <1>0, <2>1, SlotFacts DEF At, CpuInv, OnCpu
  <2> QED
    BY <1>0, <2>1, <2>2, <2>3 DEF Stays, OnCpu, cpuvars
<1>17. ASSUME NEW c \in CPUs, ForkLink(c) PROVE Stays
  <2>1. PICK p \in Procs : ForkLink(c)!(p)
    BY <1>17 DEF ForkLink
  <2>2. OnlyMoves(p)
    BY <1>0, <2>1 DEF OnlyMoves, Goto
  <2> QED
    BY <1>2, <2>1, <2>2 DEF At, cpuvars
<1>18. ASSUME NEW c \in CPUs, ForkRunnable(c) PROVE Stays
  <2>1. PICK p \in Procs : ForkRunnable(c)!(p)
    BY <1>18 DEF ForkRunnable
  <2>2. OnlyMoves(p)
    BY <1>0, <2>1 DEF OnlyMoves, Goto, GotoAt, Return
  <2> QED
    BY <1>2, <2>1, <2>2 DEF At, cpuvars
<1>19. ASSUME NEW c \in CPUs, ExitBegin(c) PROVE Stays
  <2>1. PICK p \in Procs : ExitBegin(c)!(p)
    BY <1>19 DEF ExitBegin
  <2>2. OnlyMoves(p)
    BY <1>0, <2>1 DEF OnlyMoves, Goto
  <2> QED
    BY <1>2, <2>1, <2>2 DEF At, cpuvars
<1>20. ASSUME NEW c \in CPUs, Reparent(c) PROVE Stays
  <2>1. PICK p \in Procs : Reparent(c)!(p)
    BY <1>20 DEF Reparent
  <2>2. OnlyMoves(p)
    BY <1>0, <2>1 DEF OnlyMoves, Goto, GotoAt
  <2> QED
    BY <1>2, <2>1, <2>2 DEF At, cpuvars
<1>21. ASSUME NEW c \in CPUs, WakeInit(c) PROVE Stays
  <2>1. PICK p \in Procs : WakeIter(c, "rwake", "reparent")!(p)
    BY <1>21 DEF WakeInit, WakeIter
  <2>2. OnlyMoves(p)
    BY <1>0, <2>1 DEF OnlyMoves, Goto, GotoAt
  <2> QED
    BY <1>2, <2>1, <2>2 DEF At, cpuvars
<1>22. ASSUME NEW c \in CPUs, WakeParent(c) PROVE Stays
  <2>1. PICK p \in Procs : WakeIter(c, "pwake", "zombie")!(p)
    BY <1>22 DEF WakeParent, WakeIter
  <2>2. OnlyMoves(p)
    BY <1>0, <2>1 DEF OnlyMoves, Goto, GotoAt
  <2> QED
    BY <1>2, <2>1, <2>2 DEF At, cpuvars
<1>23. ASSUME NEW c \in CPUs, ExitZombie(c) PROVE Stays
  <2>1. PICK p \in Procs : ExitZombie(c)!(p)
    BY <1>23 DEF ExitZombie
  <2>2. OnlyMoves(p)
    BY <1>0, <2>1 DEF OnlyMoves, GiveUp, Goto
  <2> QED
    BY <1>2, <2>1, <2>2 DEF At, cpuvars
<1>24. ASSUME NEW c \in CPUs, WaitBegin(c) PROVE Stays
  <2>1. PICK p \in Procs : WaitBegin(c)!(p)
    BY <1>24 DEF WaitBegin
  <2>2. OnlyMoves(p)
    BY <1>0, <2>1 DEF OnlyMoves, Goto, GotoAt
  <2> QED
    BY <1>2, <2>1, <2>2 DEF At, cpuvars
<1>25. ASSUME NEW c \in CPUs, WaitSkip(c) PROVE Stays
  <2>1. PICK p \in Procs : WaitSkip(c)!(p)
    BY <1>25 DEF WaitSkip
  <2>2. OnlyMoves(p)
    BY <1>0, <2>1 DEF OnlyMoves, Goto, GotoAt
  <2> QED
    BY <1>2, <2>1, <2>2 DEF At, cpuvars
<1>26. ASSUME NEW c \in CPUs, WaitReap(c) PROVE Stays
  <2>1. PICK p \in Procs : WaitReap(c)!(p)
    BY <1>26 DEF WaitReap
  <2>2. OnlyMoves(p)
    BY <1>0, <2>1 DEF OnlyMoves, Goto, GotoAt, Return
  <2> QED
    BY <1>2, <2>1, <2>2 DEF At, cpuvars
<1>27. ASSUME NEW c \in CPUs, WaitCheck(c) PROVE Stays
  <2>1. PICK p \in Procs : WaitCheck(c)!(p)
    BY <1>27 DEF WaitCheck
  <2>2. OnlyMoves(p)
    BY <1>0, <2>1 DEF OnlyMoves, Goto, GotoAt, Return
  <2> QED
    BY <1>2, <2>1, <2>2 DEF At, cpuvars
<1>28. ASSUME NEW c \in CPUs, WaitSleep(c) PROVE Stays
  <2>1. PICK p \in Procs : WaitSleep(c)!(p)
    BY <1>28 DEF WaitSleep
  <2>2. OnlyMoves(p)
    BY <1>0, <2>1 DEF OnlyMoves, GiveUp, Goto
  <2> QED
    BY <1>2, <2>1, <2>2 DEF At, cpuvars
<1>29. ASSUME NEW c \in CPUs, PidScan(c) PROVE Stays
  <2>1. PICK p \in Procs, l \in {"kill", "freeze", "unfreeze"} : PidScan(c)!(p, l)
    BY <1>29 DEF PidScan
  <2>2. OnlyMoves(p)
    BY <1>0, <2>1 DEF OnlyMoves, Goto, GotoAt, Return
  <2> QED
    BY <1>2, <2>1, <2>2 DEF At, cpuvars
<1>30. ASSUME NEW c \in CPUs, Kill(c) PROVE Stays
  <2>1. PICK p, q \in Procs : Kill(c)!(p, q)
    BY <1>30 DEF Kill
  <2>2. OnlyMoves(p)
    BY <1>0, <2>1 DEF OnlyMoves, Goto, GotoAt, Return
  <2> QED
    BY <1>2, <2>1, <2>2 DEF Found, At, cpuvars
<1>31. ASSUME NEW c \in CPUs, Freeze(c) PROVE Stays
  <2>1. PICK p, q \in Procs : Freeze(c)!(p, q)
    BY <1>31 DEF Freeze
  <2>2. OnlyMoves(p)
    BY <1>0, <2>1 DEF OnlyMoves, Goto, GotoAt, Return
  <2> QED
    BY <1>2, <2>1, <2>2 DEF Found, At, cpuvars
<1>32. ASSUME NEW c \in CPUs, Unfreeze(c) PROVE Stays
  <2>1. PICK p, q \in Procs : Unfreeze(c)!(p, q)
    BY <1>32 DEF Unfreeze
  <2>2. OnlyMoves(p)
    BY <1>0, <2>1 DEF OnlyMoves, Goto, GotoAt, Return
  <2> QED
    BY <1>2, <2>1, <2>2 DEF Found, At, cpuvars
<1>33. Stays
  BY <1>3, <1>4, <1>5, <1>6, <1>7, <1>8, <1>9, <1>10, <1>11, <1>12, <1>13,
     <1>14, <1>15, <1>16, <1>17, <1>18, <1>19, <1>20, <1>21, <1>22, <1>23,
     <1>24, <1>25, <1>26, <1>27, <1>28, <1>29, <1>30, <1>31, <1>32
     DEF Next, Sched, Thread, Timer, Fork, Exit, Wait, PidCall
<1> QED
  BY <1>33 DEF Stays

\* sys_freeze() preserves what it stops: a frozen process that is off the CPU
\* stays off it and keeps its pid, its context and its place in the kernel,
\* whatever the other CPUs do, until sys_unfreeze().
THEOREM FrozenIsPreserved == Spec => FrozenPreserved
<1>1. LifeInv /\ [Next]_vars =>
        [\A p \in Procs :
           /\ frozen[p] /\ frozen'[p] /\ ~OnCpu(p)
           /\ state[p] \in {"USED", "SLEEPING", "RUNNABLE"}
           => FrozenKept(p)]_vars
  <2> SUFFICES ASSUME LifeInv, [Next]_vars, NEW p \in Procs,
                      frozen[p], frozen'[p], ~OnCpu(p),
                      state[p] \in {"USED", "SLEEPING", "RUNNABLE"}
               PROVE  FrozenKept(p)
    OBVIOUS
  <2>1. /\ ctx'[p] = ctx[p] /\ pc'[p] = pc[p]
        /\ cur'[p] = cur[p] /\ arg'[p] = arg[p]
        /\ \A c \in CPUs : cproc'[c] # p
    BY OffCpuStays DEF LifeInv, OnCpu
  <2>2. pid'[p] = pid[p] /\ state'[p] \in {state[p], "RUNNABLE"}
    <3>1. state \in [Procs -> States] /\ pid \in [Procs -> Nat]
      BY DEF LifeInv, SwitchInv, TypeOK
    <3>2. CASE UNCHANGED Life!lifevars
      BY <3>2 DEF Life!lifevars
    <3>3. ASSUME NEW q \in Procs, Life!Next!(q)
          PROVE  pid'[p] = pid[p] /\ state'[p] \in {state[p], "RUNNABLE"}
      BY <3>1, <3>3 DEF Life!Dispatch, Life!Yield, Life!Sleep, Life!Wake,
           Life!Launch, Life!Exit, Life!Move, Life!Create, Life!CreateFails,
           Life!Reap, Life!Kill, Life!Freeze, Life!Unfreeze, Life!Rouse
    <3> QED
      BY <3>2, <3>3, LifeStep DEF LifeInv, Life!Next
  <2> QED
    BY <2>1, <2>2 DEF FrozenKept
<1> QED
  BY <1>1, LifeInvariant, PTL DEF Spec, FrozenPreserved

(***************************************************************************)
(* The process tree and wait().                                            *)
(***************************************************************************)
\* The states of a slot that can be nobody's parent.
Childless == {"UNUSED", "USED", "ZOMBIE"}

\* The process tree: init never exits, and nobody's parent has, or is about to.
TreeInv ==
  /\ state[initproc] \notin Childless
  /\ parent[initproc] = 0
  /\ \A q \in Procs : parent[q] # q
  /\ \A q \in Procs : parent[q] # 0 =>
       /\ state[parent[q]] \notin Childless
       /\ pc[parent[q]] \notin {"pwake", "zombie"}

\* p sleeps in wait().
Asleep(p) == state[p] = "SLEEPING" /\ chan[p] = p

\* Each step of exit() and wait() under wait_lock knows what the scans it has
\* completed have established: a sleeping parent of an exited child is init,
\* and about to be woken; exit() has woken the parent before it is a zombie;
\* wait() has seen no zombie up to its cursor.
WakeInv ==
  /\ \A p, q \in Procs :
       Asleep(p) /\ parent[q] = p /\ state[q] = "ZOMBIE" =>
         p = initproc /\ \E r \in Procs : pc[r] = "rwake" /\ cur[r] <= p
  /\ \A p, q \in Procs :
       pc[q] = "pwake" /\ parent[q] = p /\ p < cur[q] => ~Asleep(p)
  /\ \A p, q \in Procs : pc[q] = "zombie" /\ parent[q] = p => ~Asleep(p)
  /\ \A p, q \in Procs :
       pc[p] = "wscan" /\ parent[q] = p /\ q < cur[p] => state[q] # "ZOMBIE"
  /\ \A p, q \in Procs :
       pc[p] \in {"wend", "wsleep"} /\ parent[q] = p => state[q] # "ZOMBIE"

\* The labels at which WakeInv says something of the thread.
Claims == {"pwake", "zombie", "wscan", "wend", "wsleep"}

\* No thread comes to a label of Claims or moves on there, nobody gains a
\* parent, exits or falls asleep.
QuietPc == \A q \in Procs :
  \/ pc'[q] = pc[q] /\ cur'[q] = cur[q]
  \/ pc[q] # "rwake" /\ pc'[q] \notin Claims
QuietParent == \A q \in Procs : parent'[q] \in {parent[q], 0}
QuietState == \A q \in Procs :
  /\ state'[q] \in Childless => state[q] \in Childless
  /\ state'[q] = "ZOMBIE" => state[q] = "ZOMBIE"
  /\ Asleep(q)' => Asleep(q)

\* The steps outside the scans of exit() and wait() keep the process tree.
LEMMA TreeQuiet ==
  ASSUME TypeOK, TreeInv, QuietPc, QuietParent, QuietState
  PROVE  TreeInv'
<1>1. \A q \in Procs : parent[q] # 0 => parent[q] \in Procs
  BY SlotFacts DEF TypeOK
<1> QED
  BY <1>1, SlotFacts DEF TreeInv, QuietPc, QuietParent, QuietState, Claims

\* They lose no wakeup.
LEMMA WakeQuiet ==
  ASSUME WakeInv, QuietPc, QuietParent, QuietState
  PROVE  WakeInv'
<1> USE SlotFacts DEF WakeInv, QuietPc, QuietParent, QuietState, Claims
<1>0. \A p \in Procs : p # 0
  OBVIOUS
<1>1. ASSUME NEW p \in Procs, NEW q \in Procs,
             Asleep(p)', parent'[q] = p, state'[q] = "ZOMBIE"
      PROVE  p = initproc /\ \E r \in Procs : pc'[r] = "rwake" /\ cur'[r] <= p
  BY <1>0, <1>1
<1>2. ASSUME NEW p \in Procs, NEW q \in Procs, parent'[q] = p
      PROVE  /\ pc'[q] = "pwake" /\ p < cur'[q] => ~Asleep(p)'
             /\ pc'[q] = "zombie" => ~Asleep(p)'
             /\ pc'[p] = "wscan" /\ q < cur'[p] => state'[q] # "ZOMBIE"
             /\ pc'[p] \in {"wend", "wsleep"} => state'[q] # "ZOMBIE"
  BY <1>0, <1>2
<1> QED
  BY <1>1, <1>2

\* At most one thread holds wait_lock.
LEMMA WaitExclusive ==
  ASSUME WaitLockInv, NEW p \in Procs, pc[p] \in WaitHeld
  PROVE  \A q \in Procs : pc[q] \in WaitHeld => q = p
BY DEF WaitLockInv

\* While wait_lock is free, or held by somebody who is not waking init, nobody
\* sleeps with an exited child.
LEMMA NoneWaiting ==
  ASSUME WakeInv, \A r \in Procs : pc[r] # "rwake"
  PROVE  \A p, q \in Procs : Asleep(p) /\ parent[q] = p => state[q] # "ZOMBIE"
BY DEF WakeInv

\* Every action keeps the process tree and loses no wakeup.
LEMMA TreeNext ==
  LifeInv /\ TreeInv /\ WakeInv /\ [Next]_vars => TreeInv' /\ WakeInv'
<1> SUFFICES ASSUME LifeInv, TreeInv, WakeInv, [Next]_vars
             PROVE  TreeInv' /\ WakeInv'
  OBVIOUS
<1> DEFINE Kept == TreeInv' /\ WakeInv'
<1> HIDE DEF Kept
<1>0. /\ TypeOK /\ CpuInv /\ ThreadInv /\ WaitLockInv /\ InitInv
      /\ state \in [Procs -> States] /\ parent \in [Procs -> ProcOrNull]
      /\ chan \in [Procs -> ProcOrNull] /\ pc \in [Procs -> Labels]
      /\ cur \in [Procs -> Cursors] /\ arg \in [Procs -> Nat]
  BY DEF LifeInv, SwitchInv, TypeOK
<1>1. ASSUME QuietPc, QuietParent, QuietState PROVE Kept
  BY <1>0, <1>1, TreeQuiet, WakeQuiet DEF Kept
<1>2. UNCHANGED <<pc, cur>> => QuietPc
  BY DEF QuietPc
<1>3. ASSUME NEW p \in Procs, NEW l \in Labels \ Claims, NEW m, At(m, p, pc[p]),
             pc[p] # "rwake", Goto(p, l),
             \A q \in Procs : q # p => cur'[q] = cur[q]
      PROVE  QuietPc
  BY <1>0, <1>3 DEF QuietPc, Goto
<1>4. UNCHANGED parent => QuietParent
  BY DEF QuietParent
<1>5. UNCHANGED <<state, chan>> => QuietState
  BY DEF QuietState, Asleep
<1>6. ASSUME NEW q \in Procs, NEW s \in {"RUNNABLE", "RUNNING"},
             state' = [state EXCEPT ![q] = s], UNCHANGED chan
      PROVE  QuietState
  BY <1>0, <1>6 DEF QuietState, Asleep, Childless
<1>7. ASSUME UNCHANGED vars PROVE Kept
  BY <1>1, <1>2, <1>4, <1>5, <1>7 DEF vars, procvars, thrvars
<1>8. ASSUME NEW p \in Procs, Return(p), pc[p] # "rwake" PROVE QuietPc
  BY <1>0, <1>8 DEF QuietPc, Return, GotoAt, Goto, Claims
<1>9. ASSUME NEW c \in CPUs, SchedSkip(c) PROVE Kept
  BY <1>1, <1>2, <1>4, <1>5, <1>9 DEF SchedSkip, procvars, thrvars
<1>10. ASSUME NEW c \in CPUs, SchedDispatch(c) PROVE Kept
  <2>1. scan[c] \in Procs
    BY <1>0 DEF TypeOK
  <2> QED
    BY <1>1, <1>2, <1>4, <1>6, <2>1, <1>10 DEF SchedDispatch, thrvars
<1>11. ASSUME NEW c \in CPUs, SchedRelease(c) PROVE Kept
  BY <1>1, <1>2, <1>4, <1>5, <1>11 DEF SchedRelease, procvars, thrvars
<1>12. ASSUME NEW c \in CPUs, Swtch(c) PROVE Kept
  BY <1>1, <1>2, <1>4, <1>5, <1>12 DEF Swtch, procvars, thrvars
<1>13. ASSUME NEW c \in CPUs, Resume(c) PROVE Kept
  <2>1. QuietState
    BY <1>0, SlotFacts, <1>13 DEF Resume, QuietState, Asleep
  <2> QED
    BY <1>1, <1>2, <1>4, <2>1, <1>13 DEF Resume
<1>14. ASSUME NEW c \in CPUs, UserTimer(c) PROVE Kept
  <2>1. PICK p \in Procs : UserTimer(c)!(p)
    BY <1>14 DEF UserTimer
  <2>2. QuietPc
    BY <1>0, <2>1 DEF QuietPc, Goto, At, Claims
  <2>3. QuietState
    BY <1>5, <1>6, <2>1 DEF GiveUp
  <2> QED
    BY <1>1, <1>4, <2>1, <2>2, <2>3
<1>15. ASSUME NEW c \in CPUs, KernelTimer(c) PROVE Kept
  <2>1. PICK p \in Procs : KernelTimer(c)!(p)
    BY <1>15 DEF KernelTimer
  <2>2. QuietState
    BY <1>6, <2>1 DEF GiveUp
  <2> QED
    BY <1>1, <1>2, <1>4, <2>1, <2>2
<1>16. ASSUME NEW c \in CPUs, Syscall(c) PROVE Kept
  <2>1. PICK p \in Procs, call \in Calls, n \in Targets \cup {0} : Syscall(c)!(p, call, n)
    BY <1>16 DEF Syscall
  <2>2. call \notin Claims
    BY CallsAssumption DEF Claims
  <2>3. QuietPc
    BY <1>0, <2>1, <2>2 DEF QuietPc, Goto, GotoAt, At, Claims
  <2> QED
    BY <1>1, <1>4, <1>5, <2>1, <2>3 DEF procvars
<1>17. ASSUME NEW c \in CPUs, Fault(c) PROVE Kept
  <2>1. PICK p \in Procs : Fault(c)!(p)
    BY <1>17 DEF Fault
  <2>2. QuietPc
    BY <1>0, <2>1 DEF QuietPc, Goto, GotoAt, Return, At, Claims
  <2> QED
    BY <1>1, <1>4, <1>5, <2>1, <2>2
<1>18. ASSUME NEW c \in CPUs, TrapReturn(c) PROVE Kept
  <2>1. PICK p \in Procs : TrapReturn(c)!(p)
    BY <1>18 DEF TrapReturn
  <2>2. QuietPc
    BY <1>0, <2>1 DEF QuietPc, Goto, GotoAt, Return, At, Claims
  <2> QED
    BY <1>1, <1>4, <1>5, <2>1, <2>2 DEF procvars
<1>19. ASSUME NEW c \in CPUs, AllocSkip(c) PROVE Kept
  <2>1. PICK p \in Procs : AllocSkip(c)!(p)
    BY <1>19 DEF AllocSkip
  <2>2. QuietPc
    BY <1>0, <2>1 DEF QuietPc, Goto, GotoAt, Return, At, Claims
  <2> QED
    BY <1>1, <1>4, <1>5, <2>1, <2>2 DEF procvars
<1>20. ASSUME NEW c \in CPUs, AllocFail(c) PROVE Kept
  <2>1. PICK p \in Procs : AllocFail(c)!(p)
    BY <1>20 DEF AllocFail
  <2>2. cur[p] \in Procs
    BY <1>0, <2>1, CursorInRange DEF ThreadInv, At
  <2>3. QuietPc
    BY <1>8, <2>1 DEF At
  <2>4. QuietParent
    BY <1>0, <2>1 DEF FreeProc, QuietParent
  <2>5. QuietState
    BY <1>0, <2>1, <2>2 DEF FreeProc, QuietState, Asleep
  <2> QED
    BY <1>1, <2>3, <2>4, <2>5
<1>21. ASSUME NEW c \in CPUs, AllocOk(c) PROVE Kept
  <2>1. PICK p \in Procs : AllocOk(c)!(p)
    BY <1>21 DEF AllocOk
  <2>2. cur[p] \in Procs
    BY <1>0, <2>1, CursorInRange DEF ThreadInv, At
  <2>3. pc[cur[p]] = "user"
    BY <1>0, <2>1, <2>2 DEF ThreadInv
  <2>4. QuietPc
    BY <1>0, <2>1, <2>2, <2>3 DEF QuietPc, At, Claims
  <2>5. QuietState
    BY <1>0, <2>1, <2>2 DEF QuietState, Asleep, Childless
  <2> QED
    BY <1>1, <1>4, <2>1, <2>4, <2>5
<1>22. ASSUME NEW c \in CPUs, ForkLink(c) PROVE Kept
  <2>1. PICK p \in Procs : ForkLink(c)!(p)
    BY <1>22 DEF ForkLink
  <2>2. state[p] = "RUNNING"
    BY <1>0, <2>1, Executing DEF At
  <2>3. arg[p] \in Procs /\ state[arg[p]] = "USED" /\ pc[arg[p]] = "user"
    BY <1>0, <2>1 DEF ThreadInv, At
  <2>4. \A q \in Procs : pc'[q] = IF q = p THEN "mkrun" ELSE pc[q]
    BY <1>0, <2>1 DEF Goto
  <2>5. \A q \in Procs : parent'[q] = IF q = arg[p] THEN p ELSE parent[q]
    BY <1>0, <2>1
  <2>6. arg[p] # initproc
    BY <2>3 DEF TreeInv, Childless
  <2>7. pc[p] = "link" /\ UNCHANGED <<state, chan, cur>>
    BY <2>1 DEF At
  <2>8. TreeInv'
    BY <1>0, <2>2, <2>3, <2>4, <2>5, <2>6, <2>7, SlotFacts DEF TreeInv, Childless
  <2>9. WakeInv'
    <3>1. \A q \in Procs : Asleep(q)' <=> Asleep(q)
      BY <2>7 DEF Asleep
    <3>2. \A q \in Procs : parent'[q] = parent[q] \/ q = arg[p]
      BY <2>5
    <3> QED
      BY <2>3, <2>4, <2>7, <3>1, <3>2 DEF WakeInv
  <2> QED
    BY <2>8, <2>9 DEF Kept
<1>23. ASSUME NEW c \in CPUs, ForkRunnable(c) PROVE Kept
  <2>1. PICK p \in Procs : ForkRunnable(c)!(p)
    BY <1>23 DEF ForkRunnable
  <2>2. arg[p] \in Procs
    BY <1>0, <2>1 DEF ThreadInv, At
  <2>3. QuietPc
    BY <1>8, <2>1 DEF At
  <2>4. QuietState
    BY <1>6, <2>1, <2>2
  <2> QED
    BY <1>1, <1>4, <2>1, <2>3, <2>4
<1>24. ASSUME NEW c \in CPUs, ExitBegin(c) PROVE Kept
  <2>1. PICK p \in Procs : ExitBegin(c)!(p)
    BY <1>24 DEF ExitBegin
  <2>2. QuietPc
    BY <1>0, <2>1 DEF QuietPc, Goto, At, Claims
  <2> QED
    BY <1>1, <1>4, <1>5, <2>1, <2>2 DEF procvars
<1>25. ASSUME NEW c \in CPUs, Reparent(c) PROVE Kept
  <2>1. PICK p \in Procs : Reparent(c)!(p)
    BY <1>25 DEF Reparent
  <2>2. pc[p] = "reparent" /\ \A q \in Procs : q # p => pc[q] \notin WaitHeld
    BY <1>0, <2>1, WaitExclusive DEF At, WaitHeld
  <2>3. \A a, b \in Procs : Asleep(a) /\ parent[b] = a => state[b] # "ZOMBIE"
    BY <2>2, NoneWaiting DEF WaitHeld
  <2>4. p # initproc
    BY <1>0, <2>2 DEF InitInv
  <2>5. UNCHANGED <<state, chan>> /\ \A q \in Procs : Asleep(q)' <=> Asleep(q)
    BY <2>1 DEF Asleep
  <2>6. CASE Children(p) = {} /\ GotoAt(p, "pwake", 1) /\ UNCHANGED parent
    <3>1. /\ \A q \in Procs : pc'[q] = IF q = p THEN "pwake" ELSE pc[q]
          /\ cur'[p] = 1
      BY <1>0, <2>6 DEF Goto, GotoAt
    <3>2. \A q \in Procs : parent[q] # p
      BY <2>6 DEF Children
    <3>3. TreeInv'
      <4>1. \A q \in Procs : parent[q] # 0 => parent[q] \in Procs
        BY <1>0, SlotFacts
      <4> QED
        BY <2>4, <2>5, <2>6, <3>1, <3>2, <4>1, SlotFacts DEF TreeInv
    <3>4. \A q \in Procs : ~(q < 1)
      BY DEF Procs
    <3>5. WakeInv'
      BY <2>2, <2>3, <2>5, <2>6, <3>1, <3>4 DEF WakeInv, WaitHeld
    <3> QED
      BY <3>3, <3>5 DEF Kept
  <2>7. ASSUME NEW q \in Children(p),
               parent' = [parent EXCEPT ![q] = initproc], GotoAt(p, "rwake", 1)
        PROVE  Kept
    <3>1. q \in Procs /\ parent[q] = p
      BY DEF Children
    <3>2. q # initproc
      BY <3>1, SlotFacts DEF TreeInv
    <3>3. /\ \A r \in Procs : pc'[r] = IF r = p THEN "rwake" ELSE pc[r]
          /\ cur'[p] = 1
      BY <1>0, <2>7 DEF Goto, GotoAt
    <3>4. \A r \in Procs : parent'[r] = IF r = q THEN initproc ELSE parent[r]
      BY <1>0, <2>7, <3>1
    <3>5. pc[initproc] \notin {"pwake", "zombie"} /\ initproc \in Procs
      BY <1>0, SlotFacts DEF InitInv
    <3>6. TreeInv'
      BY <1>0, <2>4, <2>5, <3>2, <3>3, <3>4, <3>5, SlotFacts DEF TreeInv
    <3>7. 1 <= initproc
      BY DEF initproc
    <3>8. \A a, b \in Procs :
            Asleep(a)' /\ parent'[b] = a /\ state'[b] = "ZOMBIE" =>
              a = initproc /\ \E r \in Procs : pc'[r] = "rwake" /\ cur'[r] <= a
      BY <2>3, <2>5, <3>3, <3>4, <3>7
    <3>9. \A r \in Procs : pc'[r] \notin Claims
      BY <2>2, <3>3 DEF WaitHeld, Claims
    <3>10. WakeInv'
      BY <3>8, <3>9 DEF WakeInv, Claims
    <3> QED
      BY <3>6, <3>10 DEF Kept
  <2> QED
    BY <2>1, <2>6, <2>7
<1>26. ASSUME NEW c \in CPUs, WakeInit(c) PROVE Kept
  <2>1. PICK p \in Procs : WakeIter(c, "rwake", "reparent")!(p)
    BY <1>26 DEF WakeInit, WakeIter
  <2>2. pc[p] = "rwake" /\ \A q \in Procs : q # p => pc[q] \notin WaitHeld
    BY <1>0, <2>1, WaitExclusive DEF At, WaitHeld
  <2>3. p # initproc /\ cur[p] \in Procs
    BY <1>0, <2>2 DEF InitInv, ThreadInv
  <2>4. QuietState
    BY <1>0, <2>1, <2>3 DEF WakeSlot, QuietState, Asleep, Childless
  <2>5. \A q \in Procs :
          \/ pc'[q] = pc[q]
          \/ q = p /\ pc'[q] \in {"rwake", "reparent"}
    BY <1>0, <2>1 DEF Goto, GotoAt
  <2>6. UNCHANGED parent
    BY <2>1
  <2>7. TreeInv'
    <3>1. \A q \in Procs : parent[q] # 0 => parent[q] \in Procs
      BY <1>0, SlotFacts
    <3> QED
      BY <2>4, <2>5, <2>6, <3>1, SlotFacts DEF TreeInv, QuietState
  <2>8. \A q \in Procs : pc'[q] \notin Claims
    BY <2>2, <2>5 DEF WaitHeld, Claims
  <2>9. ASSUME NEW a \in Procs, NEW b \in Procs,
               Asleep(a)', parent'[b] = a, state'[b] = "ZOMBIE"
        PROVE  FALSE
    <3>1. Asleep(a) /\ parent[b] = a /\ state[b] = "ZOMBIE"
      BY <2>4, <2>6, <2>9 DEF QuietState
    <3>2. a = initproc /\ cur[p] <= a
      BY <2>2, <3>1 DEF WakeInv, WaitHeld
    <3>3. cur[p] = initproc
      BY <2>3, <3>2 DEF initproc, Procs
    <3>4. state' = [state EXCEPT ![initproc] = "RUNNABLE"]
      BY <2>1, <2>3, <3>1, <3>2, <3>3 DEF WakeSlot, Asleep
    <3> QED
      BY <1>0, <2>9, <3>2, <3>4 DEF Asleep
  <2>10. WakeInv'
    BY <2>8, <2>9 DEF WakeInv, Claims
  <2> QED
    BY <2>7, <2>10 DEF Kept
<1>27. ASSUME NEW c \in CPUs, WakeParent(c) PROVE Kept
  <2>1. PICK p \in Procs : WakeIter(c, "pwake", "zombie")!(p)
    BY <1>27 DEF WakeParent, WakeIter
  <2>2. pc[p] = "pwake" /\ \A q \in Procs : q # p => pc[q] \notin WaitHeld
    BY <1>0, <2>1, WaitExclusive DEF At, WaitHeld
  <2>3. cur[p] \in Procs /\ \A q \in Procs : parent[q] # p
    BY <1>0, <2>2, SlotFacts DEF ThreadInv, TreeInv
  <2>4. QuietState
    BY <1>0, <2>1, <2>3 DEF WakeSlot, QuietState, Asleep, Childless
  <2>5. \A q \in Procs : q # p => pc'[q] = pc[q]
    BY <1>0, <2>1 DEF Goto, GotoAt
  <2>6. \/ pc'[p] = "pwake" /\ cur'[p] = cur[p] + 1
        \/ pc'[p] = "zombie" /\ ~(cur[p] < NPROC)
    BY <1>0, <2>1 DEF Goto, GotoAt
  <2>7. UNCHANGED parent
    BY <2>1
  <2>8. TreeInv'
    <3>1. \A q \in Procs : parent[q] # 0 => parent[q] \in Procs /\ parent[q] # p
      BY <1>0, <2>3, SlotFacts
    <3> QED
      BY <2>4, <2>5, <2>7, <3>1, SlotFacts DEF TreeInv, QuietState
  <2>9. ASSUME NEW a \in Procs, parent[p] = a, a < cur[p] \/ a = cur[p]
        PROVE  ~Asleep(a)'
    <3>1. CASE a < cur[p]
      BY <2>2, <2>4, <2>9, <3>1 DEF WakeInv, QuietState
    <3>2. CASE a = cur[p] /\ Asleep(a)
      <4>1. a # p
        BY <2>9 DEF TreeInv
      <4>2. state' = [state EXCEPT ![a] = "RUNNABLE"]
        BY <2>1, <2>9, <3>2, <4>1 DEF WakeSlot, Asleep
      <4> QED
        BY <1>0, <4>2 DEF Asleep
    <3> QED
      BY <2>4, <2>9, <3>1, <3>2 DEF QuietState
  <2>10. \A a \in Procs :
          /\ a < cur[p] + 1 => a < cur[p] \/ a = cur[p]
          /\ ~(cur[p] < NPROC) => a < cur[p] \/ a = cur[p]
    BY <2>3, NPROCAssumption DEF Procs
  <2>11. \A a, b \in Procs : Asleep(a)' /\ parent'[b] = a => state'[b] # "ZOMBIE"
    BY <2>2, <2>4, <2>7, NoneWaiting DEF QuietState, WaitHeld
  <2>12. \A q \in Procs : q # p => pc'[q] \notin Claims
    BY <2>2, <2>5 DEF WaitHeld, Claims
  <2>13. \A a \in Procs : parent'[p] = a =>
           /\ pc'[p] = "pwake" /\ a < cur'[p] => ~Asleep(a)'
           /\ pc'[p] = "zombie" => ~Asleep(a)'
    BY <2>6, <2>7, <2>9, <2>10
  <2>14. WakeInv'
    BY <2>6, <2>11, <2>12, <2>13 DEF WakeInv, Claims
  <2> QED
    BY <2>8, <2>14 DEF Kept
<1>28. ASSUME NEW c \in CPUs, ExitZombie(c) PROVE Kept
  <2>1. PICK p \in Procs : ExitZombie(c)!(p)
    BY <1>28 DEF ExitZombie
  <2>2. pc[p] = "zombie" /\ \A q \in Procs : q # p => pc[q] \notin WaitHeld
    BY <1>0, <2>1, WaitExclusive DEF At, WaitHeld
  <2>3. p # initproc /\ \A q \in Procs : parent[q] # p
    BY <1>0, <2>2, SlotFacts DEF InitInv, TreeInv
  <2>4. UNCHANGED <<parent, chan>>
        /\ \A q \in Procs :
          /\ state'[q] = IF q = p THEN "ZOMBIE" ELSE state[q]
          /\ pc'[q] = IF q = p THEN "user" ELSE pc[q]
    BY <1>0, <2>1 DEF GiveUp, Goto
  <2>5. TreeInv'
    <3>1. \A q \in Procs : parent[q] # 0 => parent[q] \in Procs /\ parent[q] # p
      BY <1>0, <2>3, SlotFacts
    <3> QED
      BY <2>3, <2>4, <3>1, SlotFacts DEF TreeInv
  <2>6. \A q \in Procs : Asleep(q)' => Asleep(q)
    BY <2>4 DEF Asleep
  <2>7. \A a \in Procs : parent[p] = a => ~Asleep(a)
    BY <2>2 DEF WakeInv
  <2>8. \A a, b \in Procs : Asleep(a)' /\ parent'[b] = a => state'[b] # "ZOMBIE"
    BY <2>2, <2>4, <2>6, <2>7, NoneWaiting DEF WaitHeld
  <2>9. \A q \in Procs : pc'[q] \notin Claims
    BY <2>2, <2>4 DEF WaitHeld, Claims
  <2>10. WakeInv'
    BY <2>8, <2>9 DEF WakeInv, Claims
  <2> QED
    BY <2>5, <2>10 DEF Kept
<1>29. ASSUME NEW c \in CPUs, WaitBegin(c) PROVE Kept
  <2>1. PICK p \in Procs : WaitBegin(c)!(p)
    BY <1>29 DEF WaitBegin
  <2>2. \A q \in Procs : pc[q] \notin WaitHeld
    BY <1>0, <2>1, CPUAssumption DEF WaitLockInv, WaitFree
  <2>3. UNCHANGED <<state, chan, parent>> /\ \A q \in Procs : Asleep(q)' <=> Asleep(q)
    BY <2>1 DEF procvars, Asleep
  <2>4. /\ \A q \in Procs : pc'[q] = IF q = p THEN "wscan" ELSE pc[q]
        /\ cur'[p] = 1
    BY <1>0, <2>1 DEF Goto, GotoAt
  <2>5. TreeInv'
    <3>1. \A q \in Procs : parent[q] # 0 => parent[q] \in Procs
      BY <1>0, SlotFacts
    <3> QED
      BY <2>3, <2>4, <3>1, SlotFacts DEF TreeInv
  <2>6. \A q \in Procs : ~(q < 1)
    BY DEF Procs
  <2>7. \A a, b \in Procs : Asleep(a) /\ parent[b] = a => state[b] # "ZOMBIE"
    BY <2>2, NoneWaiting DEF WaitHeld
  <2>8. WakeInv'
    BY <2>2, <2>3, <2>4, <2>6, <2>7 DEF WakeInv, WaitHeld
  <2> QED
    BY <2>5, <2>8 DEF Kept
<1>30. ASSUME NEW c \in CPUs, WaitSkip(c) PROVE Kept
  <2>1. PICK p \in Procs : WaitSkip(c)!(p)
    BY <1>30 DEF WaitSkip
  <2>2. pc[p] = "wscan" /\ \A q \in Procs : q # p => pc[q] \notin WaitHeld
    BY <1>0, <2>1, WaitExclusive DEF At, WaitHeld
  <2>3. UNCHANGED <<state, chan, parent>> /\ \A q \in Procs : Asleep(q)' <=> Asleep(q)
    BY <2>1 DEF procvars, Asleep
  <2>4. \A q \in Procs : q # p => pc'[q] = pc[q]
    BY <1>0, <2>1 DEF Goto, GotoAt
  <2>5. \/ pc'[p] = "wscan" /\ cur'[p] = cur[p] + 1
        \/ pc'[p] = "wend" /\ ~(cur[p] < NPROC)
    BY <1>0, <2>1 DEF Goto, GotoAt
  <2>6. TreeInv'
    <3>1. \A q \in Procs : parent[q] # 0 => parent[q] \in Procs
      BY <1>0, SlotFacts
    <3> QED
      BY <2>3, <2>4, <2>5, <3>1, SlotFacts DEF TreeInv
  <2>7. \A q \in Procs : parent[q] = p /\ (q < cur[p] \/ q = cur[p])
                           => state[q] # "ZOMBIE"
    BY <2>1, <2>2 DEF WakeInv
  <2>8. cur[p] \in Procs
    BY <1>0, <2>2 DEF ThreadInv
  <2>9. \A q \in Procs :
          /\ q < cur[p] + 1 => q < cur[p] \/ q = cur[p]
          /\ ~(cur[p] < NPROC) => q < cur[p] \/ q = cur[p]
    BY <2>8, NPROCAssumption DEF Procs
  <2>10. \A a, b \in Procs : Asleep(a) /\ parent[b] = a => state[b] # "ZOMBIE"
    BY <2>2, NoneWaiting DEF WaitHeld
  <2>11. \A q \in Procs : q # p => pc'[q] \notin Claims
    BY <2>2, <2>4 DEF WaitHeld, Claims
  <2>12. WakeInv'
    BY <2>3, <2>5, <2>7, <2>9, <2>10, <2>11 DEF WakeInv, Claims
  <2> QED
    BY <2>6, <2>12 DEF Kept
<1>31. ASSUME NEW c \in CPUs, WaitReap(c) PROVE Kept
  <2>1. PICK p \in Procs : WaitReap(c)!(p)
    BY <1>31 DEF WaitReap
  <2>2. cur[p] \in Procs
    BY <1>0, <2>1 DEF ThreadInv, At
  <2>3. QuietPc
    BY <1>8, <2>1 DEF At
  <2>4. QuietParent
    BY <1>0, <2>1 DEF FreeProc, QuietParent, procvars
  <2>5. QuietState
    BY <1>0, <2>1, <2>2 DEF FreeProc, QuietState, Asleep, procvars, Reapable, Childless
  <2> QED
    BY <1>1, <2>3, <2>4, <2>5
<1>32. ASSUME NEW c \in CPUs, WaitCheck(c) PROVE Kept
  <2>1. PICK p \in Procs : WaitCheck(c)!(p)
    BY <1>32 DEF WaitCheck
  <2>2. pc[p] = "wend" /\ \A q \in Procs : q # p => pc[q] \notin WaitHeld
    BY <1>0, <2>1, WaitExclusive DEF At, WaitHeld
  <2>3. UNCHANGED <<state, chan, parent>>
    BY <2>1 DEF procvars
  <2>4. CASE Return(p)
    BY <1>1, <1>4, <1>5, <1>8, <2>2, <2>3, <2>4
  <2>5. CASE Goto(p, "wsleep") /\ UNCHANGED <<cur, arg>>
    <3>1. \A q \in Procs : pc'[q] = IF q = p THEN "wsleep" ELSE pc[q]
      BY <1>0, <2>5 DEF Goto
    <3>2. TreeInv'
      <4>1. \A q \in Procs : parent[q] # 0 => parent[q] \in Procs
        BY <1>0, SlotFacts
      <4> QED
        BY <2>3, <3>1, <4>1, SlotFacts DEF TreeInv
    <3>3. \A q \in Procs : Asleep(q)' <=> Asleep(q)
      BY <2>3 DEF Asleep
    <3>4. WakeInv'
      BY <2>2, <2>3, <2>5, <3>1, <3>3 DEF WakeInv, WaitHeld
    <3> QED
      BY <3>2, <3>4 DEF Kept
  <2> QED
    BY <2>1, <2>4, <2>5
<1>33. ASSUME NEW c \in CPUs, WaitSleep(c) PROVE Kept
  <2>1. PICK p \in Procs : WaitSleep(c)!(p)
    BY <1>33 DEF WaitSleep
  <2>2. pc[p] = "wsleep" /\ \A q \in Procs : q # p => pc[q] \notin WaitHeld
    BY <1>0, <2>1, WaitExclusive DEF At, WaitHeld
  <2>3. UNCHANGED parent
        /\ \A q \in Procs :
          /\ state'[q] = IF q = p THEN "SLEEPING" ELSE state[q]
          /\ pc'[q] = IF q = p THEN "wait" ELSE pc[q]
          /\ q # p => chan'[q] = chan[q]
    BY <1>0, <2>1 DEF GiveUp, Goto
  <2>4. TreeInv'
    <3>1. \A q \in Procs : parent[q] # 0 => parent[q] \in Procs
      BY <1>0, SlotFacts
    <3> QED
      BY <2>3, <3>1, SlotFacts DEF TreeInv, Childless
  <2>5. \A q \in Procs : Asleep(q)' => Asleep(q) \/ q = p
    BY <2>3 DEF Asleep
  <2>6. \A q \in Procs : parent[q] = p => state[q] # "ZOMBIE"
    BY <2>2 DEF WakeInv
  <2>7. \A a, b \in Procs : Asleep(a)' /\ parent'[b] = a => state'[b] # "ZOMBIE"
    BY <2>2, <2>3, <2>5, <2>6, NoneWaiting DEF WaitHeld
  <2>8. \A q \in Procs : pc'[q] \notin Claims
    BY <2>2, <2>3 DEF WaitHeld, Claims
  <2>9. WakeInv'
    BY <2>7, <2>8 DEF WakeInv, Claims
  <2> QED
    BY <2>4, <2>9 DEF Kept
<1>34. ASSUME NEW c \in CPUs, PidScan(c) PROVE Kept
  <2>1. PICK p \in Procs, l \in {"kill", "freeze", "unfreeze"} : PidScan(c)!(p, l)
    BY <1>34 DEF PidScan
  <2>2. QuietPc
    BY <1>0, <2>1 DEF QuietPc, Goto, GotoAt, Return, At, Claims
  <2> QED
    BY <1>1, <1>4, <1>5, <2>1, <2>2 DEF procvars
<1>35. ASSUME NEW c \in CPUs, Kill(c) PROVE Kept
  <2>1. PICK p, q \in Procs : Kill(c)!(p, q)
    BY <1>35 DEF Kill
  <2>2. QuietPc
    BY <1>8, <2>1 DEF Found, At
  <2>3. QuietState
    BY <1>5, <1>6, <2>1 DEF Rouse
  <2> QED
    BY <1>1, <1>4, <2>1, <2>2, <2>3
<1>36. ASSUME NEW c \in CPUs, Freeze(c) PROVE Kept
  <2>1. PICK p, q \in Procs : Freeze(c)!(p, q)
    BY <1>36 DEF Freeze
  <2>2. QuietPc
    BY <1>8, <2>1 DEF Found, At
  <2> QED
    BY <1>1, <1>4, <1>5, <2>1, <2>2
<1>37. ASSUME NEW c \in CPUs, Unfreeze(c) PROVE Kept
  <2>1. PICK p, q \in Procs : Unfreeze(c)!(p, q)
    BY <1>37 DEF Unfreeze
  <2>2. QuietPc
    BY <1>8, <2>1 DEF Found, At
  <2>3. QuietState
    BY <1>5, <1>6, <2>1 DEF Rouse
  <2> QED
    BY <1>1, <1>4, <2>1, <2>2, <2>3
<1>38. Kept
  BY <1>7, <1>9, <1>10, <1>11, <1>12, <1>13, <1>14, <1>15, <1>16, <1>17,
     <1>18, <1>19, <1>20, <1>21, <1>22, <1>23, <1>24, <1>25, <1>26, <1>27,
     <1>28, <1>29, <1>30, <1>31, <1>32, <1>33, <1>34, <1>35, <1>36, <1>37
     DEF Next, Sched, Thread, Timer, Fork, Exit, Wait, PidCall
<1> QED
  BY <1>38 DEF Kept

\* The process tree and the wakeups of exit(), in every reachable state.
THEOREM TreeInvariant == Spec => [](LifeInv /\ TreeInv /\ WakeInv)
<1> DEFINE Inv == LifeInv /\ TreeInv /\ WakeInv
<1>1. Init => Inv
  <2> SUFFICES ASSUME Init PROVE TreeInv /\ WakeInv
    BY SwitchInit, PidInit, InitInit DEF LifeInv
  <2>1. TreeInv
    BY SlotFacts DEF Init, TreeInv, Childless
  <2>2. WakeInv
    BY SlotFacts DEF Init, WakeInv, Asleep
  <2> QED
    BY <2>1, <2>2
<1>2. Inv /\ [Next]_vars => Inv'
  BY LifeNext, TreeNext
<1> QED
  BY <1>1, <1>2, PTL DEF Spec

\* reparent() leaves no orphan: the parent pointer of a process never names a
\* slot that is free or exited.
THEOREM ParentsAreAlive == Spec => []NoDanglingParent
<1>1. TreeInv => NoDanglingParent
  BY DEF TreeInv, NoDanglingParent, Childless
<1> QED
  BY <1>1, TreeInvariant, PTL

\* No wakeup is lost between exit() and wait(): whenever wait_lock is free, no
\* process sleeps in wait() while it has an exited child.
THEOREM WakeupsAreNotLost == Spec => []NoLostWakeup
<1>1. LifeInv /\ WakeInv => NoLostWakeup
  <2> SUFFICES ASSUME LifeInv, WakeInv, WaitFree
               PROVE  \A p, q \in Procs :
                        state[p] = "SLEEPING" /\ chan[p] = p /\ parent[q] = p
                          => state[q] # "ZOMBIE"
    BY DEF NoLostWakeup
  <2>1. \A r \in Procs : pc[r] # "rwake"
    BY CPUAssumption DEF LifeInv, SwitchInv, WaitLockInv, WaitFree, WaitHeld
  <2> QED
    BY <2>1, NoneWaiting DEF Asleep
<1> QED
  BY <1>1, TreeInvariant, PTL
=============================================================================
