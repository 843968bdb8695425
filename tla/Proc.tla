-------------------------------- MODULE Proc --------------------------------
(***************************************************************************)
(* The process table of kernel/proc.c: scheduler, context switch, fork,    *)
(* exit, wait, sleep/wakeup, kill, and freeze/unfreeze (kernel/sysproc.c), *)
(* with the trap paths of kernel/trap.c that lead into them, on several    *)
(* CPUs.                                                                   *)
(*                                                                         *)
(* Granularity.  A critical section of one p->lock that does not switch    *)
(* stacks is one step, enabled when the lock is free.  A lock that stays   *)
(* held from one step to the next is a variable: wait_lock through a scan  *)
(* of the table in exit() and wait(), and p->lock across swtch().  A CPU   *)
(* that holds a lock takes no interrupt (push_off in spinlock.c).          *)
(***************************************************************************)
EXTENDS Integers, FiniteSets

CONSTANTS
  NPROC,      \* size of the process table
  CPUs,       \* the harts
  NoCPU,      \* owner of a free spinlock
  MaxPid,     \* bound of the model: no fork() starts once this pid is given out
  Calls,      \* the system calls user code makes in this instance
  Targets     \* the pids it passes to kill, freeze and unfreeze

ASSUME NPROCAssumption == NPROC \in Nat \ {0}
ASSUME CPUAssumption == NoCPU \notin CPUs
ASSUME MaxPidAssumption == MaxPid \in Nat \ {0}
ASSUME CallsAssumption ==
  Calls \subseteq {"fork", "exit", "wait", "kill", "freeze", "unfreeze", "fault"}
ASSUME TargetsAssumption == Targets \subseteq Nat

VARIABLES
  state, chan, killed, pid, frozen, parent,   \* struct proc, by slot
  nextpid,                                    \* allocpid's counter
  lock, wait_lock,                            \* owners of p->lock, wait_lock
  cproc,      \* c->proc
  stack,      \* the kernel stack CPU c executes on: a slot, 0 = scheduler's
  scan,       \* the slot the loop of scheduler() is at
  ctx,        \* where slot p's saved context resumes; "run" = not in swtch
  pc,         \* where slot p's thread is, in the call it executes
  cur, arg    \* that call's loop cursor, and its argument or new slot

procvars == <<state, chan, killed, pid, frozen, parent>>
cpuvars  == <<cproc, stack, scan>>
lockvars == <<lock, wait_lock>>
thrvars  == <<ctx, pc, cur, arg>>
vars == <<procvars, nextpid, lockvars, cpuvars, thrvars>>

Procs == 1..NPROC
ProcOrNull == 0..NPROC
Cursors == 0..(NPROC + 1)      \* a loop over the table ends past its last slot
initproc == 1                  \* the slot userinit() takes, the first one
States == {"UNUSED", "USED", "SLEEPING", "RUNNABLE", "RUNNING", "ZOMBIE"}
Contexts == {"run", "yield", "sleep", "exit", "forkret"}
Labels == {"user", "ret", "panic", "fork", "link", "mkrun",
           "exit", "reparent", "rwake", "pwake", "zombie",
           "wait", "wscan", "wend", "wsleep", "kill", "freeze", "unfreeze"}

(***************************************************************************)
(* Locks, and the thread a CPU executes.                                   *)
(***************************************************************************)
\* acquire(&p->lock) succeeds
Free(p) == lock[p] = NoCPU

\* acquire(&wait_lock) succeeds
WaitFree == wait_lock = NoCPU

\* CPU c executes slot p's kernel thread, at label l, outside swtch()
At(c, p, l) == stack[c] = p /\ ctx[p] = "run" /\ pc[p] = l

\* Mutant of IntrOn: an interrupt is taken although wait_lock is held.
IntrOnInWaitLock(c) == \A q \in Procs : lock[q] # c

\* interrupts are enabled on c while p's thread runs on it: noff = 0
IntrOn(c) == wait_lock # c /\ \A q \in Procs : lock[q] # c

Goto(p, l) == pc' = [pc EXCEPT ![p] = l]

\* control goes to l with the loop cursor at slot i
GotoAt(p, l, i) == Goto(p, l) /\ cur' = [cur EXCEPT ![p] = i]

\* the call returns: its locals are dead
Return(p) == GotoAt(p, "ret", 0) /\ arg' = [arg EXCEPT ![p] = 0]

(***************************************************************************)
(* procinit() and userinit(): slot 1 holds the first process.              *)
(***************************************************************************)
Init ==
  /\ state = [p \in Procs |-> IF p = initproc THEN "RUNNABLE" ELSE "UNUSED"]
  /\ chan = [p \in Procs |-> 0]
  /\ killed = [p \in Procs |-> FALSE]
  /\ pid = [p \in Procs |-> IF p = initproc THEN 1 ELSE 0]
  /\ frozen = [p \in Procs |-> FALSE]
  /\ parent = [p \in Procs |-> 0]
  /\ nextpid = 2
  /\ lock = [p \in Procs |-> NoCPU]
  /\ wait_lock = NoCPU
  /\ cproc = [c \in CPUs |-> 0]
  /\ stack = [c \in CPUs |-> 0]
  /\ scan = [c \in CPUs |-> 1]
  /\ ctx = [p \in Procs |-> IF p = initproc THEN "forkret" ELSE "run"]
  /\ pc = [p \in Procs |-> "user"]
  /\ cur = [p \in Procs |-> 0]
  /\ arg = [p \in Procs |-> 0]

(***************************************************************************)
(* scheduler(), sched() and swtch().                                       *)
(***************************************************************************)
\* Mutant of Advance: the loop does not stop at &proc[NPROC].
AdvancePastEnd(c) == scan' = [scan EXCEPT ![c] = scan[c] + 1]

\* the loop of scheduler() moves on; the wfi taken after a fruitless round
\* ends at the hart's next timer interrupt, so it only delays the next round
Advance(c) == scan' = [scan EXCEPT ![c] = (scan[c] % NPROC) + 1]

\* Mutant of Schedulable: scheduler() does not look at p->frozen.
SchedulableFrozen(p) == state[p] = "RUNNABLE"

Schedulable(p) == ~frozen[p] /\ state[p] = "RUNNABLE"

SchedSkip(c) ==
  /\ stack[c] = 0 /\ cproc[c] = 0
  /\ Free(scan[c])
  /\ ~Schedulable(scan[c])
  /\ Advance(c)
  /\ UNCHANGED <<procvars, nextpid, lockvars, cproc, stack, thrvars>>

\* p->lock stays held: the thread that swtch() resumes releases it
SchedDispatch(c) ==
  LET p == scan[c] IN
  /\ stack[c] = 0 /\ cproc[c] = 0
  /\ Free(p)
  /\ Schedulable(p)
  /\ lock' = [lock EXCEPT ![p] = c]
  /\ state' = [state EXCEPT ![p] = "RUNNING"]
  /\ cproc' = [cproc EXCEPT ![c] = p]
  /\ stack' = [stack EXCEPT ![c] = p]
  /\ UNCHANGED <<chan, killed, pid, frozen, parent, nextpid, wait_lock, scan,
                 thrvars>>

\* Mutant of SchedRelease: every round starts at the first slot again.
SchedReleaseRestart(c) ==
  /\ stack[c] = 0 /\ cproc[c] # 0
  /\ cproc' = [cproc EXCEPT ![c] = 0]
  /\ lock' = [lock EXCEPT ![cproc[c]] = NoCPU]
  /\ scan' = [scan EXCEPT ![c] = 1]
  /\ UNCHANGED <<procvars, nextpid, wait_lock, stack, thrvars>>

\* back in scheduler() after swtch(): release the lock the thread handed over
SchedRelease(c) ==
  /\ stack[c] = 0 /\ cproc[c] # 0
  /\ cproc' = [cproc EXCEPT ![c] = 0]
  /\ lock' = [lock EXCEPT ![cproc[c]] = NoCPU]
  /\ Advance(c)
  /\ UNCHANGED <<procvars, nextpid, wait_lock, stack, thrvars>>

\* sched() in a thread that has given up the CPU
Swtch(c) ==
  LET p == stack[c] IN
  /\ p # 0 /\ ctx[p] # "run" /\ state[p] # "RUNNING"
  /\ stack' = [stack EXCEPT ![c] = 0]
  /\ UNCHANGED <<procvars, nextpid, lockvars, cproc, scan, thrvars>>

\* the tails of yield(), sleep() and forkret(), after the scheduler's swtch()
Resume(c) ==
  LET p == stack[c] IN
  /\ p # 0 /\ ctx[p] # "run" /\ state[p] = "RUNNING"
  /\ chan' = IF ctx[p] = "sleep" THEN [chan EXCEPT ![p] = 0] ELSE chan
  /\ lock' = [lock EXCEPT ![p] = NoCPU]
  /\ ctx' = [ctx EXCEPT ![p] = "run"]
  /\ UNCHANGED <<state, killed, pid, frozen, parent, nextpid, wait_lock,
                 cpuvars, pc, cur, arg>>

\* acquire(&p->lock), a new state, and sched() up to its swtch()
GiveUp(c, p, s, why) ==
  /\ Free(p)
  /\ lock' = [lock EXCEPT ![p] = c]
  /\ state' = [state EXCEPT ![p] = s]
  /\ ctx' = [ctx EXCEPT ![p] = why]

(***************************************************************************)
(* usertrap() and kerneltrap().                                            *)
(***************************************************************************)
\* a timer interrupt in user mode
UserTimer(c) == \E p \in Procs :
  /\ At(c, p, "user")
  /\ \/ /\ Free(p) /\ killed[p]
        /\ Goto(p, "exit")
        /\ UNCHANGED <<state, lock, ctx>>
     \/ /\ ~killed[p]
        /\ GiveUp(c, p, "RUNNABLE", "yield")
        /\ UNCHANGED pc
  /\ UNCHANGED <<chan, killed, pid, frozen, parent, nextpid, wait_lock,
                 cpuvars, cur, arg>>

\* a timer interrupt while p's thread is in the kernel
KernelTimer(c) == \E p \in Procs :
  /\ stack[c] = p /\ ctx[p] = "run" /\ pc[p] # "user"
  /\ IntrOn(c)
  /\ GiveUp(c, p, "RUNNABLE", "yield")
  /\ UNCHANGED <<chan, killed, pid, frozen, parent, nextpid, wait_lock,
                 cpuvars, pc, cur, arg>>

\* ecall: the checks before syscall(), and the dispatch on the call number
Syscall(c) == \E p \in Procs, call \in Calls, n \in Targets \cup {0} :
  /\ At(c, p, "user")
  /\ Free(p) /\ call # "fault"
  /\ IF call \in {"kill", "freeze", "unfreeze"} THEN n \in Targets ELSE n = 0
  /\ call = "fork" => nextpid <= MaxPid
  /\ IF killed[p]
     THEN Goto(p, "exit") /\ UNCHANGED <<cur, arg>>
     ELSE GotoAt(p, call, 1) /\ arg' = [arg EXCEPT ![p] = n]
  /\ UNCHANGED <<procvars, nextpid, lockvars, cpuvars, ctx>>

\* an unexpected scause: setkilled(p), then exit(-1)
Fault(c) == \E p \in Procs :
  /\ At(c, p, "user") /\ "fault" \in Calls
  /\ Free(p)
  /\ killed' = [killed EXCEPT ![p] = TRUE]
  /\ Goto(p, "exit")
  /\ UNCHANGED <<state, chan, pid, frozen, parent, nextpid, lockvars, cpuvars,
                 ctx, cur, arg>>

\* after syscall() returns
TrapReturn(c) == \E p \in Procs :
  /\ At(c, p, "ret")
  /\ Free(p)
  /\ Goto(p, IF killed[p] THEN "exit" ELSE "user")
  /\ UNCHANGED <<procvars, nextpid, lockvars, cpuvars, ctx, cur, arg>>

(***************************************************************************)
(* fork().  allocproc() keeps np->lock until the child is set up, so       *)
(* finding the slot, filling it and the failures that free it again are    *)
(* one step; linking it to its parent and making it RUNNABLE are two more. *)
(***************************************************************************)
\* Mutant of FreeProc: the slot keeps its pid.
FreeProcKeepsPid(p) ==
  /\ state' = [state EXCEPT ![p] = "UNUSED"]
  /\ chan' = [chan EXCEPT ![p] = 0]
  /\ killed' = [killed EXCEPT ![p] = FALSE]
  /\ parent' = [parent EXCEPT ![p] = 0]
  /\ UNCHANGED <<pid, frozen>>

\* what freeproc() leaves in a slot
FreeProc(p) ==
  /\ state' = [state EXCEPT ![p] = "UNUSED"]
  /\ chan' = [chan EXCEPT ![p] = 0]
  /\ killed' = [killed EXCEPT ![p] = FALSE]
  /\ pid' = [pid EXCEPT ![p] = 0]
  /\ parent' = [parent EXCEPT ![p] = 0]
  /\ UNCHANGED frozen

AllocSkip(c) == \E p \in Procs :
  /\ At(c, p, "fork")
  /\ \/ /\ cur[p] <= NPROC /\ Free(cur[p]) /\ state[cur[p]] # "UNUSED"
        /\ GotoAt(p, "fork", cur[p] + 1) /\ UNCHANGED arg
     \/ cur[p] > NPROC /\ Return(p)
  /\ UNCHANGED <<procvars, nextpid, lockvars, cpuvars, ctx>>

AllocFail(c) == \E p \in Procs : LET np == cur[p] IN
  /\ At(c, p, "fork") /\ np <= NPROC /\ Free(np)
  /\ state[np] = "UNUSED"
  /\ nextpid' = nextpid + 1
  /\ FreeProc(np)
  /\ Return(p)
  /\ UNCHANGED <<lockvars, cpuvars, ctx>>

AllocOk(c) == \E p \in Procs : LET np == cur[p] IN
  /\ At(c, p, "fork") /\ np <= NPROC /\ Free(np)
  /\ state[np] = "UNUSED"
  /\ nextpid' = nextpid + 1
  /\ pid' = [pid EXCEPT ![np] = nextpid]
  /\ state' = [state EXCEPT ![np] = "USED"]
  /\ ctx' = [ctx EXCEPT ![np] = "forkret"]
  /\ pc' = [pc EXCEPT ![p] = "link", ![np] = "user"]
  /\ cur' = [cur EXCEPT ![p] = 0, ![np] = 0]
  /\ arg' = [arg EXCEPT ![p] = np, ![np] = 0]
  /\ UNCHANGED <<chan, killed, frozen, parent, lockvars, cpuvars>>

ForkLink(c) == \E p \in Procs :
  /\ At(c, p, "link") /\ WaitFree
  /\ parent' = [parent EXCEPT ![arg[p]] = p]
  /\ Goto(p, "mkrun")
  /\ UNCHANGED <<state, chan, killed, pid, frozen, nextpid, lockvars, cpuvars,
                 ctx, cur, arg>>

ForkRunnable(c) == \E p \in Procs :
  /\ At(c, p, "mkrun") /\ Free(arg[p])
  /\ state' = [state EXCEPT ![arg[p]] = "RUNNABLE"]
  /\ Return(p)
  /\ UNCHANGED <<chan, killed, pid, frozen, parent, nextpid, lockvars, cpuvars,
                 ctx>>

(***************************************************************************)
(* wakeup(), one iteration: p's thread looks at slot cur[p] for a sleeper  *)
(* on channel ch, and goes on at label done after the last slot.           *)
(***************************************************************************)
\* Mutant of WakeSlot: a sleeper on the channel is passed over.
WakeSlotNobody(p, ch) == (cur[p] # p => Free(cur[p])) /\ UNCHANGED state

WakeSlot(p, ch) ==
  LET q == cur[p] IN
  IF q = p THEN UNCHANGED state
  ELSE /\ Free(q)
       /\ state' = IF state[q] = "SLEEPING" /\ chan[q] = ch
                   THEN [state EXCEPT ![q] = "RUNNABLE"] ELSE state

WakeIter(c, l, done) == \E p \in Procs :
  /\ At(c, p, l)
  /\ WakeSlot(p, IF l = "rwake" THEN initproc ELSE parent[p])
  /\ IF cur[p] < NPROC THEN GotoAt(p, l, cur[p] + 1) ELSE GotoAt(p, done, 0)
  /\ UNCHANGED <<chan, killed, pid, frozen, parent, nextpid, lockvars, cpuvars,
                 ctx, arg>>

(***************************************************************************)
(* exit().  Closing files and dropping cwd belong to the file system; the  *)
(* process table is touched from acquire(&wait_lock) on.                   *)
(***************************************************************************)
ExitBegin(c) == \E p \in Procs :
  /\ At(c, p, "exit")
  /\ \/ p = initproc /\ Goto(p, "panic") /\ UNCHANGED wait_lock
     \/ p # initproc /\ WaitFree /\ wait_lock' = c /\ Goto(p, "reparent")
  /\ UNCHANGED <<procvars, nextpid, lock, cpuvars, ctx, cur, arg>>

Children(p) == {q \in Procs : parent[q] = p}

\* Mutant of Reparent: the children keep the exiting parent.
ReparentNobody(c) == \E p \in Procs :
  /\ At(c, p, "reparent")
  /\ GotoAt(p, "pwake", 1)
  /\ UNCHANGED <<procvars, nextpid, lockvars, cpuvars, ctx, arg>>

\* the loop of reparent(): under wait_lock the next child it meets is the
\* lowest one left
Reparent(c) == \E p \in Procs :
  /\ At(c, p, "reparent")
  /\ \/ /\ Children(p) = {}
        /\ GotoAt(p, "pwake", 1) /\ UNCHANGED parent
     \/ \E q \in Children(p) :
          /\ \A r \in Children(p) : q <= r
          /\ parent' = [parent EXCEPT ![q] = initproc]
          /\ GotoAt(p, "rwake", 1)
  /\ UNCHANGED <<state, chan, killed, pid, frozen, nextpid, lockvars, cpuvars,
                 ctx, arg>>

WakeInit(c) == WakeIter(c, "rwake", "reparent")

WakeParent(c) == WakeIter(c, "pwake", "zombie")

ExitZombie(c) == \E p \in Procs :
  /\ At(c, p, "zombie")
  /\ GiveUp(c, p, "ZOMBIE", "exit")
  /\ wait_lock' = NoCPU
  /\ Goto(p, "user") /\ arg' = [arg EXCEPT ![p] = 0]
  /\ UNCHANGED <<chan, killed, pid, frozen, parent, nextpid, cpuvars, cur>>

(***************************************************************************)
(* wait().  wait_lock is held through the scan, so parent[] is stable.     *)
(***************************************************************************)
WaitBegin(c) == \E p \in Procs :
  /\ At(c, p, "wait") /\ WaitFree
  /\ wait_lock' = c
  /\ GotoAt(p, "wscan", 1)
  /\ UNCHANGED <<procvars, nextpid, lock, cpuvars, ctx, arg>>

\* pp is not p's child, or a child that has not exited
WaitSkip(c) == \E p \in Procs : LET pp == cur[p] IN
  /\ At(c, p, "wscan")
  /\ parent[pp] = p => Free(pp) /\ state[pp] # "ZOMBIE"
  /\ IF pp < NPROC THEN GotoAt(p, "wscan", pp + 1) ELSE GotoAt(p, "wend", 0)
  /\ UNCHANGED <<procvars, nextpid, lockvars, cpuvars, ctx, arg>>

\* Mutant of Reapable: wait() frees the child without taking its lock.
ReapableUnlocked(pp, p) == parent[pp] = p /\ state[pp] = "ZOMBIE"

\* an exited child whose lock is free has left exit() and swtch()
Reapable(pp, p) == parent[pp] = p /\ Free(pp) /\ state[pp] = "ZOMBIE"

WaitReap(c) == \E p \in Procs :
  /\ At(c, p, "wscan") /\ Reapable(cur[p], p)
  /\ \/ FreeProc(cur[p])
     \/ UNCHANGED procvars           \* copyout() of the exit status fails
  /\ wait_lock' = NoCPU
  /\ Return(p)
  /\ UNCHANGED <<nextpid, lock, cpuvars, ctx>>

\* Mutant of WaitCheck: wait_lock is released before p->lock is taken to sleep.
WaitCheckUnlocks(c) == \E p \in Procs :
  /\ At(c, p, "wend") /\ Free(p)
  /\ wait_lock' = NoCPU
  /\ IF Children(p) = {} \/ killed[p]
     THEN Return(p)
     ELSE Goto(p, "wsleep") /\ UNCHANGED <<cur, arg>>
  /\ UNCHANGED <<procvars, nextpid, lock, cpuvars, ctx>>

WaitCheck(c) == \E p \in Procs :
  /\ At(c, p, "wend") /\ Free(p)
  /\ IF Children(p) = {} \/ killed[p]
     THEN wait_lock' = NoCPU /\ Return(p)
     ELSE Goto(p, "wsleep") /\ UNCHANGED <<wait_lock, cur, arg>>
  /\ UNCHANGED <<procvars, nextpid, lock, cpuvars, ctx>>

\* sleep(p, &wait_lock); the woken thread reacquires wait_lock and rescans
WaitSleep(c) == \E p \in Procs :
  /\ At(c, p, "wsleep")
  /\ GiveUp(c, p, "SLEEPING", "sleep")
  /\ chan' = [chan EXCEPT ![p] = p]
  /\ wait_lock' = NoCPU
  /\ Goto(p, "wait")
  /\ UNCHANGED <<killed, pid, frozen, parent, nextpid, cpuvars, cur, arg>>

(***************************************************************************)
(* kill(), sys_freeze(), sys_unfreeze(): the first slot whose pid matches. *)
(***************************************************************************)
\* the scan passes slot cur[p], or runs off the table
PidScan(c) == \E p \in Procs, l \in {"kill", "freeze", "unfreeze"} :
  /\ At(c, p, l)
  /\ \/ /\ cur[p] <= NPROC /\ Free(cur[p]) /\ pid[cur[p]] # arg[p]
        /\ GotoAt(p, l, cur[p] + 1) /\ UNCHANGED arg
     \/ cur[p] > NPROC /\ Return(p)
  /\ UNCHANGED <<procvars, nextpid, lockvars, cpuvars, ctx>>

\* the scan of call l has reached slot q, with q->lock held
Found(c, p, l, q) ==
  /\ At(c, p, l) /\ cur[p] = q
  /\ Free(q) /\ pid[q] = arg[p]

\* Mutant of Rouse: the sleeper is left asleep.
RouseNobody(q) == UNCHANGED state

\* SLEEPING -> RUNNABLE, whatever the channel
Rouse(q) == state' = IF state[q] = "SLEEPING"
                     THEN [state EXCEPT ![q] = "RUNNABLE"] ELSE state

Kill(c) == \E p, q \in Procs :
  /\ Found(c, p, "kill", q)
  /\ killed' = [killed EXCEPT ![q] = TRUE]
  /\ Rouse(q)
  /\ Return(p)
  /\ UNCHANGED <<chan, pid, frozen, parent, nextpid, lockvars, cpuvars, ctx>>

\* Mutant of Freezable: an exited process is frozen too.
FreezableZombie(q) == state[q] # "UNUSED" /\ ~frozen[q]

Freezable(q) == state[q] \notin {"ZOMBIE", "UNUSED"} /\ ~frozen[q]

Freeze(c) == \E p, q \in Procs :
  /\ Found(c, p, "freeze", q)
  /\ frozen' = IF Freezable(q) THEN [frozen EXCEPT ![q] = TRUE] ELSE frozen
  /\ Return(p)
  /\ UNCHANGED <<state, chan, killed, pid, parent, nextpid, lockvars, cpuvars,
                 ctx>>

Unfreeze(c) == \E p, q \in Procs :
  /\ Found(c, p, "unfreeze", q)
  /\ IF frozen[q] THEN frozen' = [frozen EXCEPT ![q] = FALSE] /\ Rouse(q)
                  ELSE UNCHANGED <<frozen, state>>
  /\ Return(p)
  /\ UNCHANGED <<chan, killed, pid, parent, nextpid, lockvars, cpuvars, ctx>>

(***************************************************************************)
(* The specification.                                                      *)
(***************************************************************************)
Sched(c) == SchedSkip(c) \/ SchedDispatch(c) \/ SchedRelease(c)
              \/ Swtch(c) \/ Resume(c)
Timer(c) == UserTimer(c) \/ KernelTimer(c)
Fork(c) == AllocSkip(c) \/ AllocFail(c) \/ AllocOk(c) \/ ForkLink(c)
             \/ ForkRunnable(c)
Exit(c) == ExitBegin(c) \/ Reparent(c) \/ WakeInit(c) \/ WakeParent(c)
             \/ ExitZombie(c)
Wait(c) == WaitBegin(c) \/ WaitSkip(c) \/ WaitReap(c) \/ WaitCheck(c)
             \/ WaitSleep(c)
PidCall(c) == PidScan(c) \/ Kill(c) \/ Freeze(c) \/ Unfreeze(c)

\* a thread's own steps in the kernel
Thread(c) == TrapReturn(c) \/ Fork(c) \/ Exit(c) \/ Wait(c) \/ PidCall(c)

Next == \E c \in CPUs :
  Sched(c) \/ Thread(c) \/ Timer(c) \/ Syscall(c) \/ Fault(c)

Spec == Init /\ [][Next]_vars

\* The scheduler runs on; a pending timer interrupt is taken once interrupts are
\* on again and again (the request is level triggered); and a thread that is
\* given time slices again and again gets further: a slice is about a tenth of
\* a second (clockintr), a step some instructions.
Fairness ==
  /\ \A c \in CPUs : WF_vars(Sched(c)) /\ SF_vars(Timer(c))
  /\ \A p \in Procs : SF_vars(\E c \in CPUs : stack[c] = p /\ Thread(c))

FairSpec == Spec /\ Fairness

(***************************************************************************)
(* Properties.                                                             *)
(***************************************************************************)
\* Every variable has its type.
TypeOK ==
  /\ state \in [Procs -> States]
  /\ chan \in [Procs -> ProcOrNull]
  /\ killed \in [Procs -> BOOLEAN]
  /\ pid \in [Procs -> Nat]
  /\ frozen \in [Procs -> BOOLEAN]
  /\ parent \in [Procs -> ProcOrNull]
  /\ nextpid \in Nat
  /\ lock \in [Procs -> CPUs \cup {NoCPU}]
  /\ wait_lock \in CPUs \cup {NoCPU}
  /\ cproc \in [CPUs -> ProcOrNull]
  /\ stack \in [CPUs -> ProcOrNull]
  /\ scan \in [CPUs -> Procs]
  /\ ctx \in [Procs -> Contexts]
  /\ pc \in [Procs -> Labels]
  /\ cur \in [Procs -> Cursors]
  /\ arg \in [Procs -> Nat]

\* No two CPUs execute on one kernel stack, a slot is RUNNING exactly while it
\* is some CPU's c->proc and has not given that CPU up, and a slot that wait()
\* has freed is on no CPU (the hand-over of p->lock across swtch()).
StackExclusive ==
  /\ \A c, d \in CPUs : cproc[c] # 0 /\ cproc[c] = cproc[d] => c = d
  /\ \A p \in Procs : state[p] = "RUNNING" =>
       \E c \in CPUs : stack[c] = p /\ cproc[c] = p
  /\ \A c \in CPUs : cproc[c] # 0 => state[cproc[c]] \notin {"UNUSED", "USED"}

\* The panics of sched() cannot fire: a thread reaches swtch() holding its own
\* p->lock and no other lock (noff = 1), with its state already changed.
SchedLocks ==
  \A c \in CPUs : \A p \in Procs :
    stack[c] = p /\ ctx[p] # "run" =>
      lock[p] = c /\ wait_lock # c /\ \A q \in Procs : lock[q] = c => q = p

\* No wakeup is lost between exit() and wait(): whenever wait_lock is free, a
\* process asleep in wait() has no exited child left to collect.
NoLostWakeup ==
  WaitFree => \A p, q \in Procs :
    state[p] = "SLEEPING" /\ chan[p] = p /\ parent[q] = p
      => state[q] # "ZOMBIE"

\* exit() leaves no orphan behind: a parent pointer never names a slot that is
\* free or exited, so every exited process has someone who can collect it.
NoDanglingParent ==
  \A q \in Procs : parent[q] # 0 => state[parent[q]] \notin {"UNUSED", "ZOMBIE"}

\* A pid names at most one process, and exactly the slots in use have one:
\* kill, freeze and unfreeze act on the process that was meant.
PidUnique ==
  /\ \A p \in Procs : pid[p] = 0 <=> state[p] = "UNUSED"
  /\ \A p, q \in Procs : pid[p] = pid[q] /\ pid[p] # 0 => p = q

OnCpu(p) == \E c \in CPUs : cproc[c] = p

FrozenKept(p) ==
  /\ \A c \in CPUs : cproc'[c] # p
  /\ pid'[p] = pid[p] /\ ctx'[p] = ctx[p]
  /\ pc'[p] = pc[p] /\ cur'[p] = cur[p] /\ arg'[p] = arg[p]
  /\ state'[p] \in {state[p], "RUNNABLE"}

\* While a process is frozen and off the CPU it stays off the CPU, and keeps
\* its pid, its saved context and its place in the call it was executing; all
\* that happens to it is that a sleeper becomes RUNNABLE, or that a fork() that
\* was under way finishes it.
FrozenPreserved ==
  [][\A p \in Procs :
       /\ frozen[p] /\ frozen'[p] /\ ~OnCpu(p)
       /\ state[p] \in {"USED", "SLEEPING", "RUNNABLE"}
       => FrozenKept(p)]_vars

\* The table implements the life of a process that ProcLife promises: every
\* step of scheduler(), fork(), exit(), wait(), kill(), sys_freeze() and
\* sys_unfreeze() is one legal move of one slot, or none.
Life == INSTANCE ProcLife
ImplementsLife == Life!Spec

\* Liveness, on one CPU (a spinlock contended by two CPUs promises nothing).
\* The round robin of scheduler() reaches every process that may run.
EveryoneRuns == \A p \in Procs :
  Schedulable(p) ~> (state[p] = "RUNNING" \/ frozen[p])

\* A killed process exits, wherever the kill found it, unless it is frozen.
\* (One that is still USED runs only if the fork() that makes it goes on.)
KilledExits == \A p \in Procs \ {initproc} :
  killed[p] /\ state[p] # "USED" ~> (state[p] \in {"ZOMBIE", "UNUSED"} \/ frozen[p])

\* A call of wait() that has an exited child to collect returns, unless the
\* caller is frozen.
WaitReturns == \A p \in Procs :
  (pc[p] \in {"wait", "wscan", "wend", "wsleep"}
     /\ \E q \in Procs : parent[q] = p /\ state[q] = "ZOMBIE")
    ~> (pc[p] = "ret" \/ frozen[p])

(***************************************************************************)
(* What the documentation says and the code does not do.                   *)
(***************************************************************************)
\* proc.c:107: allocproc() initialises the state a new process needs to run.
\* A slot freed while its flag was set keeps it: freeproc() does not clear it.
BornUnfrozen == [][\A p \in Procs :
  state[p] = "UNUSED" /\ state'[p] = "USED" => ~frozen'[p]]_vars

\* proc.h: a non-zero killed says that this process has been killed.  kill(0)
\* matches a free slot, whose pid is 0, and its next owner inherits the mark.
BornUnkilled == [][\A p \in Procs :
  state[p] = "UNUSED" /\ state'[p] = "USED" => ~killed'[p]]_vars

\* proc.c:613: kill() wakes the process from sleep().  A kill() that comes
\* after wait() has looked at killed and before it sleeps wakes nobody.
KilledNotAsleep == \A p \in Procs : killed[p] => state[p] # "SLEEPING"

\* README.md:78: a frozen process keeps its state and resources.  The flag
\* does not stop a process that is running, which may go on to exit.
FrozenDoesNotExit == [][\A p \in Procs :
  frozen[p] /\ state[p] # "ZOMBIE" => state'[p] # "ZOMBIE"]_vars
=============================================================================
