-------------------------------- MODULE Trap --------------------------------
(***************************************************************************)
(* Traps and interrupts on every CPU: uservec and userret of                *)
(* kernel/trampoline.S, kernelvec.S, usertrap, usertrapret and kerneltrap of *)
(* kernel/trap.c, push_off and pop_off of kernel/spinlock.c, and what sched, *)
(* yield, sleep and forkret of kernel/proc.c keep across a switch.           *)
(*                                                                         *)
(* The registers of a CPU that a trap overwrites (sepc, sstatus) are shared  *)
(* by everything that runs on it, and an interrupt may come wherever they    *)
(* are enabled.  A kernel thread may go on on another CPU.  Saved user       *)
(* registers are abstracted to the program counter; locks, to their number.  *)
(* Who runs when is Proc's subject: here any thread that is off may run.     *)
(***************************************************************************)
EXTENDS Integers, FiniteSets

CONSTANTS
  Harts, Threads, \* CPUs and processes
  Scheduler,      \* what runs on a CPU that runs no process
  MaxHeld,        \* bound: spinlocks a thread holds
  Pcs             \* user program counters are 0 .. Pcs - 1, round and round

ASSUME TrapAssumption ==
  Scheduler \notin Threads /\ MaxHeld \in Nat /\ Pcs \in Nat \ {0}

VARIABLES
  on,             \* the thread each CPU runs
  csr,            \* registers of each CPU: sie, spp, spie, sepc, stvec, tp
  cpu,            \* struct cpu: noff, intena
  th,             \* each thread: where it is, locks held, saved registers
  tf,             \* trapframe: epc, hartid
  upc,            \* the user program counter
  resume,         \* where the user program should go on
  wrong           \* a trap took the wrong vector, or a panic

trapVars == <<on, csr, cpu, th, tf, upc, resume, wrong>>

Kernelpc == -1               \* a program counter in the kernel
Interruptible == {"kernel", "relock", "kret", "ret"}
RunsThread(c) == on[c] # Scheduler
Flag(b) == wrong' = (wrong \/ b)

(***************************************************************************)
(* push_off() and pop_off(), as updates of [sie, noff, intena].             *)
(***************************************************************************)
St(c) == [sie |-> csr[c].sie, noff |-> cpu[c].noff, intena |-> cpu[c].intena]

PushOff(s) == [sie |-> FALSE, noff |-> s.noff + 1, intena |-> IF s.noff = 0 THEN s.sie ELSE s.intena]
PopOff(s) == [s EXCEPT !.noff = @ - 1, !.sie = s.noff = 1 /\ s.intena]
PopPanics(s) == s.sie \/ s.noff < 1

Set(c, s) ==
  /\ csr' = [csr EXCEPT ![c].sie = s.sie]
  /\ cpu' = [cpu EXCEPT ![c] = [noff |-> s.noff, intena |-> s.intena]]

\* a thread in the kernel takes and gives back a lock; sleep() takes its own back
SpinAcquire(c) ==
  /\ RunsThread(c) /\ th[on[c]].at \in {"kernel", "relock"} /\ th[on[c]].held < MaxHeld
  /\ th' = [th EXCEPT ![on[c]].held = @ + 1, ![on[c]].at = "kernel"]
  /\ Set(c, PushOff(St(c)))
  /\ UNCHANGED <<on, tf, upc, resume, wrong>>
SpinRelease(c) ==
  /\ RunsThread(c) /\ th[on[c]].at = "kernel" /\ th[on[c]].held > 0
  /\ th' = [th EXCEPT ![on[c]].held = @ - 1]
  /\ Set(c, PopOff(St(c)))
  /\ Flag(PopPanics(St(c)))
  /\ UNCHANGED <<on, tf, upc, resume>>

\* the scheduler's loop: intr_on()
SchedulerLoop(c) ==
  /\ ~RunsThread(c) /\ ~csr[c].sie
  /\ csr' = [csr EXCEPT ![c].sie = TRUE]
  /\ UNCHANGED <<on, cpu, th, tf, upc, resume, wrong>>

(***************************************************************************)
(* A trap: the hardware saves sstatus and the pc and disables interrupts.    *)
(***************************************************************************)
Trapped(r, pc, spp) == [r EXCEPT !.sepc = pc, !.spp = spp, !.spie = r.sie, !.sie = FALSE]

\* from user space, for a system call, the timer or a device; uservec must be installed
UserTrap(c, cause) ==
  /\ RunsThread(c) /\ th[on[c]].at = "user"
  /\ csr' = [csr EXCEPT ![c] = Trapped(@, upc[on[c]], "user")]
  /\ th' = [th EXCEPT ![on[c]].at = cause]
  /\ resume' = IF cause = "ecall" THEN [resume EXCEPT ![on[c]] = (@ + 1) % Pcs] ELSE resume
  /\ Flag(csr[c].stvec # "uservec")
  /\ UNCHANGED <<on, cpu, tf, upc>>

\* uservec and usertrap(): the hartid, the kernel's vector and the user's pc, and the
\* pc after an ecall before interrupts are enabled
Usertrap(c) ==
  /\ RunsThread(c) /\ th[on[c]].at \in {"ecall", "timer", "device"}
  /\ LET p == on[c]
         call == th[p].at = "ecall"
     IN /\ csr' = [csr EXCEPT ![c].tp = tf[p].hartid, ![c].stvec = "kernelvec", ![c].sie = call]
        /\ tf' = [tf EXCEPT ![p].epc = IF call THEN (csr[c].sepc + 1) % Pcs ELSE csr[c].sepc]
        /\ th' = [th EXCEPT ![p].at = CASE call -> "kernel" [] th[p].at = "timer" -> "uyield" [] OTHER -> "kret"]
  /\ Flag(csr[c].spp # "user")
  /\ UNCHANGED <<on, cpu, upc, resume>>

\* a device interrupt in the kernel, the scheduler included: kerneltrap() puts sepc and
\* sstatus back, which are then of no use to anyone
Interrupt(c) ==
  /\ csr[c].sie /\ (RunsThread(c) => th[on[c]].at \in Interruptible)
  /\ csr' = [csr EXCEPT ![c].sepc = Kernelpc, ![c].spp = "kernel", ![c].spie = TRUE]
  /\ Flag(csr[c].stvec # "kernelvec")
  /\ UNCHANGED <<on, cpu, th, tf, upc, resume>>

\* the timer interrupts a thread in the kernel: kerneltrap() keeps sepc and sstatus in
\* its frame, and kernelvec keeps tp
TimerIntr(c) ==
  /\ RunsThread(c) /\ csr[c].sie /\ th[on[c]].at \in Interruptible
  /\ csr' = [csr EXCEPT ![c] = Trapped(@, Kernelpc, "kernel")]
  /\ th' = [th EXCEPT ![on[c]] = [@ EXCEPT !.back = th[on[c]].at, !.at = "kyield", !.sepc = Kernelpc,
                                          !.spie = csr[c].sie, !.tp = csr[c].tp]]
  /\ Flag(csr[c].stvec # "kernelvec")
  /\ UNCHANGED <<on, cpu, tf, upc, resume>>

(***************************************************************************)
(* sched(): only p->lock is held, and intena goes with the thread.          *)
(***************************************************************************)
\* Mutant of Saved: intena stays with the CPU.
SavedNot(p, s) == s

\* intena = mycpu()->intena before swtch(), and back after it
Saved(p, s) == [s EXCEPT !.intena = th[p].intena]

\* yield() from a trap, or sleep() with one lock held: acquire(&p->lock), for sleep()
\* release(lk), and swtch() to the scheduler, which releases p->lock
SwitchOut(c) ==
  /\ RunsThread(c)
  /\ LET p == on[c]
         sleeps == th[p].at = "kernel" /\ th[p].held > 0
         a == PushOff(St(c))
         s == IF sleeps THEN PopOff(a) ELSE a
     IN /\ th[p].at \in {"uyield", "kyield"} \/ (sleeps /\ th[p].held = 1)
        /\ th' = [th EXCEPT ![p] = [@ EXCEPT !.intena = s.intena, !.off = TRUE, !.held = 0,
                                            !.at = IF sleeps THEN "relock" ELSE th[p].at]]
        /\ Set(c, PopOff(s))
        /\ Flag(s.noff # 1 \/ s.sie)
  /\ on' = [on EXCEPT ![c] = Scheduler]
  /\ UNCHANGED <<tf, upc, resume>>

\* where sched() and forkret() go on
After(at) == CASE at = "kyield" -> "kback" [] at = "relock" -> "relock" [] OTHER -> "kret"

\* the scheduler takes p->lock and switches to p, which releases it
SwitchIn(c, p) ==
  /\ ~RunsThread(c) /\ th[p].off
  /\ LET s == PushOff(St(c))
         t == IF th[p].at = "fork" THEN s ELSE Saved(p, s)
     IN Set(c, PopOff(t)) /\ Flag(PopPanics(t))
  /\ th' = [th EXCEPT ![p].off = FALSE, ![p].intena = FALSE, ![p].at = After(@)]
  /\ on' = [on EXCEPT ![c] = p]
  /\ UNCHANGED <<tf, upc, resume>>

(***************************************************************************)
(* The way back.                                                           *)
(***************************************************************************)
\* tp when kernelvec returns: not the one it saved
Tp(c, p) == csr[c].tp

\* kerneltrap() restores sepc and sstatus, and kernelvec returns
KernelReturn(c) ==
  /\ RunsThread(c) /\ th[on[c]].at = "kback"
  /\ LET p == on[c]
     IN /\ csr' = [csr EXCEPT ![c].sie = th[p].spie, ![c].sepc = th[p].sepc, ![c].tp = Tp(c, p)]
        /\ th' = [th EXCEPT ![p] = [@ EXCEPT !.at = th[p].back, !.back = "none", !.sepc = Kernelpc,
                                            !.spie = FALSE, !.tp = 0]]
        /\ Flag(csr[c].sie)
  /\ UNCHANGED <<on, cpu, tf, upc, resume>>

\* interrupts while stvec points to uservec
IntrOff(sie) == FALSE

\* usertrapret(): interrupts off, user vector, trapframe, sepc and sstatus
Usertrapret(c) ==
  /\ RunsThread(c)
  /\ th[on[c]].at = "kret" \/ (th[on[c]].at = "kernel" /\ th[on[c]].held = 0)
  /\ LET p == on[c]
     IN /\ csr' = [csr EXCEPT ![c] = [@ EXCEPT !.sie = IntrOff(@), !.stvec = "uservec",
                                              !.sepc = tf[p].epc, !.spp = "user", !.spie = TRUE]]
        /\ tf' = [tf EXCEPT ![p].hartid = csr[c].tp]
        /\ th' = [th EXCEPT ![p].at = "ret"]
  /\ UNCHANGED <<on, cpu, upc, resume, wrong>>

\* userret: sret
Userret(c) ==
  /\ RunsThread(c) /\ th[on[c]].at = "ret"
  /\ csr' = [csr EXCEPT ![c].sie = csr[c].spie, ![c].tp = -1]
  /\ upc' = [upc EXCEPT ![on[c]] = csr[c].sepc]
  /\ th' = [th EXCEPT ![on[c]].at = "user"]
  /\ Flag(csr[c].spp # "user")
  /\ UNCHANGED <<on, cpu, tf, resume>>

\* main() has reached scheduler() on every CPU; the processes are new
TrapInit ==
  /\ on = [c \in Harts |-> Scheduler]
  /\ csr = [c \in Harts |-> [sie |-> TRUE, spp |-> "kernel", spie |-> TRUE, sepc |-> Kernelpc,
                             stvec |-> "kernelvec", tp |-> c]]
  /\ cpu = [c \in Harts |-> [noff |-> 0, intena |-> FALSE]]
  /\ th = [p \in Threads |-> [at |-> "fork", off |-> TRUE, held |-> 0, intena |-> FALSE, back |-> "none",
                              sepc |-> Kernelpc, spie |-> FALSE, tp |-> 0]]
  /\ tf = [p \in Threads |-> [epc |-> 0, hartid |-> 0]]
  /\ upc = [p \in Threads |-> 0] /\ resume = [p \in Threads |-> 0] /\ wrong = FALSE

TrapNext == \E c \in Harts :
  \/ SchedulerLoop(c) \/ SpinAcquire(c) \/ SpinRelease(c)
  \/ \E cause \in {"ecall", "timer", "device"} : UserTrap(c, cause)
  \/ Usertrap(c) \/ Interrupt(c) \/ TimerIntr(c)
  \/ SwitchOut(c) \/ (\E p \in Threads : SwitchIn(c, p))
  \/ KernelReturn(c) \/ Usertrapret(c) \/ Userret(c)
TrapSpec == TrapInit /\ [][TrapNext]_trapVars

(***************************************************************************)
(* Properties.                                                             *)
(***************************************************************************)
Sane(c) == ~RunsThread(c) \/ th[on[c]].at \notin {"user", "ecall", "timer", "device"}

\* Every variable has its type.
TrapTypeOK ==
  /\ on \in [Harts -> Threads \cup {Scheduler}]
  /\ \A c \in Harts : cpu[c].noff \in Nat /\ cpu[c].intena \in BOOLEAN
  /\ \A p \in Threads : th[p].held \in 0 .. MaxHeld
                       /\ upc[p] \in 0 .. Pcs - 1 /\ resume[p] \in 0 .. Pcs - 1

\* no trap goes to the wrong vector and none of the panics of usertrap(), kerneltrap(),
\* sched() and pop_off() is reached: interrupts are never on between w_stvec(uservec)
\* and sret, nor in kerneltrap(), whichever CPU a thread comes back on.
TrapsRight == ~wrong

\* a process goes on in user space exactly where its last trap left it, after the ecall
\* for a system call, although interrupts and other processes used sepc meanwhile.
ResumesRight == \A c \in Harts :
  RunsThread(c) /\ th[on[c]].at = "user" => upc[on[c]] = resume[on[c]]

\* in the kernel, cpuid() (tp) is the CPU's own number, noff counts the spinlocks of the
\* thread that runs, and a thread that holds none in a system call is interruptible.
CpuStateRight == \A c \in Harts : Sane(c) =>
  /\ csr[c].tp = c
  /\ cpu[c].noff = IF RunsThread(c) THEN th[on[c]].held ELSE 0
  /\ RunsThread(c) /\ th[on[c]].at \in {"kernel", "relock"} => (csr[c].sie <=> th[on[c]].held = 0)

\* The processor's state belongs to whoever runs: every trap goes where usertrapret(),
\* usertrap() and kerneltrap() meant it to go, a process goes on where it was
\* interrupted, and push_off()/pop_off(), sched() and kernelvec keep intena, noff and tp
\* right for the CPU although threads move between CPUs.
TrapStateRight == TrapTypeOK /\ TrapsRight /\ ResumesRight /\ CpuStateRight
=============================================================================
