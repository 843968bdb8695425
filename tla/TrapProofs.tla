------------------------------ MODULE TrapProofs ----------------------------
(***************************************************************************)
(* Traps, interrupts and switches keep each CPU's registers and each       *)
(* thread's saved state right, for any number of CPUs and threads and any  *)
(* depth of locks; and sleep(n) waits for n ticks, for any width of ticks  *)
(* and any n it leaves room for.                                           *)
(***************************************************************************)
EXTENDS Trap, Ticks, TLAPS

Places == {"fork", "user", "ecall", "timer", "device", "kernel", "relock",
           "uyield", "kyield", "kback", "kret", "ret"}
InKernel == {"kernel", "relock", "uyield", "kyield", "kback", "kret"}
Trapping == {"ecall", "timer", "device"}

\* The registers of a CPU, struct cpu, what is kept of a thread, its trapframe.
CpuIds == Harts \cup {0, -1}
UserPcs == 0 .. Pcs - 1
CsrRec == [sie : BOOLEAN, spp : {"kernel", "user"}, spie : BOOLEAN, sepc : Int,
           stvec : {"kernelvec", "uservec"}, tp : CpuIds]
CpuRec == [noff : Nat, intena : BOOLEAN]
ThreadRec == [at : Places, off : BOOLEAN, held : 0 .. MaxHeld, intena : BOOLEAN,
              back : {"none"} \cup Places, sepc : Int, spie : BOOLEAN, tp : CpuIds]
FrameRec == [epc : UserPcs, hartid : CpuIds]

TrapTypes ==
  /\ on \in [Harts -> Threads \cup {Scheduler}]
  /\ csr \in [Harts -> CsrRec] /\ cpu \in [Harts -> CpuRec]
  /\ th \in [Threads -> ThreadRec] /\ tf \in [Threads -> FrameRec]
  /\ upc \in [Threads -> UserPcs] /\ resume \in [Threads -> UserPcs]
  /\ wrong \in BOOLEAN

\* CPU c, with the registers r and struct cpu k, between two threads.
Idle(c, r, k) == k.noff = 0 /\ r.stvec = "kernelvec" /\ r.tp = c

\* The CPU while it runs the thread t, whose trapframe is f, which was last at
\* u in user space and should go on at s: what holds of its registers depends
\* on how far t is between user space and the kernel.
Busy(c, r, k, t, f, u, s) ==
  /\ ~t.off /\ t.at # "fork" /\ k.noff = t.held
  /\ t.at # "kernel" => t.held = 0
  /\ t.at \in InKernel => r.stvec = "kernelvec" /\ r.tp = c /\ f.epc = s
  /\ t.at \in {"kernel", "relock"} =>
       (r.sie <=> t.held = 0) /\ (t.held > 0 => k.intena)
  /\ t.at \in {"uyield", "kyield", "kback"} => ~r.sie
  /\ t.at \in {"ret", "user"} \cup Trapping => r.stvec = "uservec" /\ f.hartid = c
  /\ t.at = "ret" => ~r.sie /\ r.spp = "user" /\ r.sepc = s /\ r.tp = c
  /\ t.at = "user" => u = s
  /\ t.at \in Trapping => /\ r.spp = "user" /\ r.sepc = u
                          /\ s = IF t.at = "ecall" THEN (u + 1) % Pcs ELSE u

\* What kerneltrap() and sched() keep for a thread while others use the CPU:
\* intena is on exactly for one that slept in a system call.
Kept(t, f, s) ==
  /\ t.at \in {"kyield", "kback"} => t.back \in {"kernel", "relock", "kret"} /\ t.spie
  /\ t.off => /\ t.at \in {"fork", "uyield", "kyield", "relock"}
              /\ t.held = 0 /\ f.epc = s
              /\ t.at = "relock" => t.intena
              /\ t.at \in {"uyield", "kyield"} => ~t.intena

BusyInv(c, p) == Busy(c, csr[c], cpu[c], th[p], tf[p], upc[p], resume[p])
IdleInv(c) == Idle(c, csr[c], cpu[c])
KeptInv(p) == Kept(th[p], tf[p], resume[p])
HartInv(c) == IF RunsThread(c) THEN BusyInv(c, on[c]) ELSE IdleInv(c)
OneHart == \A c, d \in Harts : RunsThread(c) /\ on[d] = on[c] => d = c

TrapInv ==
  /\ TrapTypes /\ OneHart /\ ~wrong
  /\ \A c \in Harts : HartInv(c)
  /\ \A p \in Threads : KeptInv(p)

LEMMA TrapInvInit == TrapInit => TrapInv
<1> SUFFICES ASSUME TrapInit PROVE TrapInv
  OBVIOUS
<1> USE TrapAssumption
<1>1. TrapTypes
  <2>1. 0 \in UserPcs /\ 0 \in 0 .. MaxHeld /\ Kernelpc \in Int /\ "fork" \in Places
    BY DEF Kernelpc, Places, UserPcs
  <2>2. csr \in [Harts -> CsrRec]
    BY <2>1 DEF TrapInit, CsrRec, CpuIds
  <2>3. cpu \in [Harts -> CpuRec]
    BY DEF TrapInit, CpuRec
  <2>4. th \in [Threads -> ThreadRec]
    BY <2>1 DEF TrapInit, ThreadRec, CpuIds
  <2>5. tf \in [Threads -> FrameRec]
    BY <2>1 DEF TrapInit, FrameRec, CpuIds
  <2> QED
    BY <2>1, <2>2, <2>3, <2>4, <2>5 DEF TrapInit, TrapTypes
<1>2. \A c \in Harts : ~RunsThread(c) /\ IdleInv(c)
  BY DEF TrapInit, RunsThread, IdleInv, Idle
<1>3. \A p \in Threads : KeptInv(p)
  BY DEF TrapInit, KeptInv, Kept
<1> QED
  BY <1>1, <1>2, <1>3 DEF TrapInit, TrapInv, OneHart, HartInv

\* A step of CPU c and of thread p, which no other CPU runs: it is enough to
\* look at the two of them.
LEMMA TrapFrame ==
  ASSUME TrapInv, NEW c \in Harts, NEW p \in Threads,
         \A d \in Harts \ {c} : on[d] # p,
         on' = [on EXCEPT ![c] = on'[c]],
         csr' = [csr EXCEPT ![c] = csr'[c]], cpu' = [cpu EXCEPT ![c] = cpu'[c]],
         th' = [th EXCEPT ![p] = th'[p]], tf' = [tf EXCEPT ![p] = tf'[p]],
         upc' = [upc EXCEPT ![p] = upc'[p]], resume' = [resume EXCEPT ![p] = resume'[p]],
         csr'[c] \in CsrRec, cpu'[c] \in CpuRec, th'[p] \in ThreadRec, tf'[p] \in FrameRec,
         upc'[p] \in UserPcs, resume'[p] \in UserPcs, wrong' = FALSE,
         (on'[c] = p /\ BusyInv(c, p)') \/ (on'[c] = Scheduler /\ IdleInv(c)'),
         KeptInv(p)'
  PROVE  TrapInv'
<1>0. /\ TrapTypes /\ OneHart /\ \A d \in Harts : HartInv(d)
      /\ \A q \in Threads : KeptInv(q)
  BY DEF TrapInv
<1>1. /\ \A d \in Harts \ {c} : csr'[d] = csr[d] /\ cpu'[d] = cpu[d] /\ on'[d] = on[d]
      /\ \A q \in Threads \ {p} : /\ th'[q] = th[q] /\ tf'[q] = tf[q]
                                  /\ upc'[q] = upc[q] /\ resume'[q] = resume[q]
  BY <1>0 DEF TrapTypes
<1>2. TrapTypes'
  <2>1. on'[c] \in Threads \cup {Scheduler}
    OBVIOUS
  <2> QED
    BY <1>0, <2>1 DEF TrapTypes
<1>3. OneHart'
  BY <1>0, <1>1, TrapAssumption DEF TrapTypes, OneHart, RunsThread
<1>4. HartInv(c)'
  <2>1. p # Scheduler
    BY TrapAssumption
  <2> QED
    BY <2>1 DEF HartInv, RunsThread
<1>5. ASSUME NEW d \in Harts \ {c} PROVE HartInv(d)'
  <2>1. on[d] \in Threads \cup {Scheduler} /\ on[d] # p /\ HartInv(d)
    BY <1>0 DEF TrapTypes
  <2>2. CASE RunsThread(d)
    BY <1>1, <2>1, <2>2 DEF HartInv, RunsThread, BusyInv
  <2>3. CASE ~RunsThread(d)
    BY <1>1, <2>1, <2>3 DEF HartInv, RunsThread, IdleInv
  <2> QED
    BY <2>2, <2>3
<1>6. \A q \in Threads : KeptInv(q)'
  BY <1>0, <1>1 DEF KeptInv
<1> QED
  BY <1>2, <1>3, <1>4, <1>5, <1>6 DEF TrapInv

\* The same for a thread that CPU c goes on running.
LEMMA RunFrame ==
  ASSUME TrapInv, NEW c \in Harts, NEW p \in Threads, on[c] = p, UNCHANGED on,
         NEW r \in CsrRec, NEW k \in CpuRec, NEW t \in ThreadRec, NEW f \in FrameRec,
         NEW u \in UserPcs, NEW s \in UserPcs,
         csr' = [csr EXCEPT ![c] = r], cpu' = [cpu EXCEPT ![c] = k],
         th' = [th EXCEPT ![p] = t], tf' = [tf EXCEPT ![p] = f],
         upc' = [upc EXCEPT ![p] = u], resume' = [resume EXCEPT ![p] = s],
         wrong' = FALSE, Busy(c, r, k, t, f, u, s), Kept(t, f, s)
  PROVE  TrapInv'
<1>1. \A d \in Harts \ {c} : on[d] # p
  BY TrapAssumption DEF TrapInv, OneHart, RunsThread
<1>2. on' = [on EXCEPT ![c] = on'[c]] /\ on'[c] = p
  BY DEF TrapInv, TrapTypes
<1>3. /\ csr'[c] = r /\ cpu'[c] = k /\ th'[p] = t /\ tf'[p] = f
      /\ upc'[p] = u /\ resume'[p] = s
  BY DEF TrapInv, TrapTypes
<1>4. BusyInv(c, p)' /\ KeptInv(p)'
  BY <1>3 DEF BusyInv, KeptInv
<1> QED
  BY <1>1, <1>2, <1>3, <1>4, TrapFrame

\* The same for the thread that CPU c leaves, and whose user state stays.
LEMMA OutFrame ==
  ASSUME TrapInv, NEW c \in Harts, NEW p \in Threads, on[c] = p,
         NEW r \in CsrRec, NEW k \in CpuRec, NEW t \in ThreadRec,
         on' = [on EXCEPT ![c] = Scheduler],
         csr' = [csr EXCEPT ![c] = r], cpu' = [cpu EXCEPT ![c] = k],
         th' = [th EXCEPT ![p] = t], UNCHANGED <<tf, upc, resume>>,
         wrong' = FALSE, Idle(c, r, k), Kept(t, tf[p], resume[p])
  PROVE  TrapInv'
<1>1. \A d \in Harts \ {c} : on[d] # p
  BY TrapAssumption DEF TrapInv, OneHart, RunsThread
<1>2. on' = [on EXCEPT ![c] = on'[c]] /\ on'[c] = Scheduler
  BY DEF TrapInv, TrapTypes
<1>3. csr'[c] = r /\ cpu'[c] = k /\ th'[p] = t
  BY DEF TrapInv, TrapTypes
<1>4. /\ tf'[p] \in FrameRec /\ upc'[p] \in UserPcs /\ resume'[p] \in UserPcs
      /\ tf' = [tf EXCEPT ![p] = tf'[p]] /\ upc' = [upc EXCEPT ![p] = upc'[p]]
      /\ resume' = [resume EXCEPT ![p] = resume'[p]]
  BY DEF TrapInv, TrapTypes
<1>5. IdleInv(c)' /\ KeptInv(p)'
  BY <1>3 DEF IdleInv, KeptInv
<1>6. (on'[c] = p /\ BusyInv(c, p)') \/ (on'[c] = Scheduler /\ IdleInv(c)')
  BY <1>2, <1>5
<1>7. csr'[c] \in CsrRec /\ cpu'[c] \in CpuRec /\ th'[p] \in ThreadRec
  BY <1>3
<1>8. csr' = [csr EXCEPT ![c] = csr'[c]] /\ cpu' = [cpu EXCEPT ![c] = cpu'[c]]
      /\ th' = [th EXCEPT ![p] = th'[p]]
  BY <1>3
<1> QED
  BY <1>1, <1>2, <1>4, <1>5, <1>6, <1>7, <1>8, TrapFrame

\* The same for a thread that waits and that CPU c goes on with.
LEMMA InFrame ==
  ASSUME TrapInv, NEW c \in Harts, NEW p \in Threads, \A d \in Harts : on[d] # p,
         NEW r \in CsrRec, NEW k \in CpuRec, NEW t \in ThreadRec,
         on' = [on EXCEPT ![c] = p],
         csr' = [csr EXCEPT ![c] = r], cpu' = [cpu EXCEPT ![c] = k],
         th' = [th EXCEPT ![p] = t], UNCHANGED <<tf, upc, resume>>,
         wrong' = FALSE, Busy(c, r, k, t, tf[p], upc[p], resume[p]), Kept(t, tf[p], resume[p])
  PROVE  TrapInv'
<1>2. on' = [on EXCEPT ![c] = on'[c]] /\ on'[c] = p
  BY DEF TrapInv, TrapTypes
<1>3. csr'[c] = r /\ cpu'[c] = k /\ th'[p] = t
  BY DEF TrapInv, TrapTypes
<1>4. /\ tf'[p] \in FrameRec /\ upc'[p] \in UserPcs /\ resume'[p] \in UserPcs
      /\ tf' = [tf EXCEPT ![p] = tf'[p]] /\ upc' = [upc EXCEPT ![p] = upc'[p]]
      /\ resume' = [resume EXCEPT ![p] = resume'[p]]
  BY DEF TrapInv, TrapTypes
<1>5. BusyInv(c, p)' /\ KeptInv(p)'
  BY <1>3 DEF BusyInv, KeptInv
<1>6. (on'[c] = p /\ BusyInv(c, p)') \/ (on'[c] = Scheduler /\ IdleInv(c)')
  BY <1>2, <1>5
<1>7. csr'[c] \in CsrRec /\ cpu'[c] \in CpuRec /\ th'[p] \in ThreadRec
  BY <1>3
<1>8. csr' = [csr EXCEPT ![c] = csr'[c]] /\ cpu' = [cpu EXCEPT ![c] = cpu'[c]]
      /\ th' = [th EXCEPT ![p] = th'[p]]
  BY <1>3
<1> QED
  BY <1>2, <1>4, <1>5, <1>6, <1>7, <1>8, TrapFrame

\* A step of CPU c alone, between two threads.
LEMMA IdleFrame ==
  ASSUME TrapInv, NEW c \in Harts, ~RunsThread(c), NEW r \in CsrRec,
         UNCHANGED <<on, cpu, th, tf, upc, resume>>,
         csr' = [csr EXCEPT ![c] = r], wrong' = FALSE, Idle(c, r, cpu[c])
  PROVE  TrapInv'
<1>0. /\ TrapTypes /\ OneHart /\ \A d \in Harts : HartInv(d)
      /\ \A q \in Threads : KeptInv(q)
  BY DEF TrapInv
<1>1. csr'[c] = r /\ \A d \in Harts \ {c} : csr'[d] = csr[d]
  BY <1>0 DEF TrapTypes
<1>2. TrapTypes' /\ OneHart'
  BY <1>0 DEF TrapTypes, OneHart, RunsThread
<1>3. HartInv(c)'
  BY <1>1 DEF HartInv, RunsThread, IdleInv
<1>4. ASSUME NEW d \in Harts \ {c} PROVE HartInv(d)'
  BY <1>0, <1>1 DEF HartInv, RunsThread, BusyInv, IdleInv
<1>5. \A q \in Threads : KeptInv(q)'
  BY <1>0 DEF KeptInv
<1> QED
  BY <1>2, <1>3, <1>4, <1>5 DEF TrapInv

\* What is known of a CPU that runs a thread.
LEMMA Running ==
  ASSUME TrapInv, NEW c \in Harts, RunsThread(c)
  PROVE  /\ on[c] \in Threads /\ wrong = FALSE
         /\ csr[c] \in CsrRec /\ cpu[c] \in CpuRec
         /\ th[on[c]] \in ThreadRec /\ tf[on[c]] \in FrameRec
         /\ upc[on[c]] \in UserPcs /\ resume[on[c]] \in UserPcs
         /\ Busy(c, csr[c], cpu[c], th[on[c]], tf[on[c]], upc[on[c]], resume[on[c]])
         /\ Kept(th[on[c]], tf[on[c]], resume[on[c]])
<1>1. TrapTypes /\ ~wrong /\ HartInv(c) /\ \A p \in Threads : KeptInv(p)
  BY DEF TrapInv
<1>2. on[c] \in Threads
  BY <1>1 DEF TrapTypes, RunsThread
<1>3. BusyInv(c, on[c]) /\ KeptInv(on[c])
  BY <1>1, <1>2 DEF HartInv
<1> QED
  BY <1>1, <1>2, <1>3 DEF TrapTypes, BusyInv, KeptInv

\* SpinAcquire: interrupts go off, and with the first lock intena keeps that they were on.
LEMMA AcquireStep ==
  ASSUME TrapInv, NEW c \in Harts, SpinAcquire(c)
  PROVE  TrapInv'
<1>0. RunsThread(c) /\ TrapTypes
  BY DEF SpinAcquire, TrapInv
<1> DEFINE p == on[c]
           r == [csr[c] EXCEPT !.sie = FALSE]
           k == [noff |-> cpu[c].noff + 1,
                 intena |-> IF cpu[c].noff = 0 THEN csr[c].sie ELSE cpu[c].intena]
           t == [th[p] EXCEPT !.held = th[p].held + 1, !.at = "kernel"]
<1>1. /\ p \in Threads /\ wrong = FALSE
      /\ csr[c] \in CsrRec /\ cpu[c] \in CpuRec /\ th[p] \in ThreadRec /\ tf[p] \in FrameRec
      /\ upc[p] \in UserPcs /\ resume[p] \in UserPcs
      /\ Busy(c, csr[c], cpu[c], th[p], tf[p], upc[p], resume[p])
      /\ Kept(th[p], tf[p], resume[p])
  BY <1>0, Running
<1>2. th[p].at \in {"kernel", "relock"} /\ th[p].held < MaxHeld
  BY DEF SpinAcquire
<1>3. r \in CsrRec /\ k \in CpuRec /\ t \in ThreadRec
  <2>1. r \in CsrRec
    BY <1>1 DEF CsrRec
  <2>2. cpu[c].noff + 1 \in Nat /\ (IF cpu[c].noff = 0 THEN csr[c].sie ELSE cpu[c].intena) \in BOOLEAN
    BY <1>1 DEF CpuRec, CsrRec
  <2>3. k \in CpuRec
    BY <2>2 DEF CpuRec
  <2>4. th[p].held + 1 \in 0 .. MaxHeld /\ "kernel" \in Places
    BY <1>1, <1>2, TrapAssumption DEF ThreadRec, Places
  <2>5. t \in ThreadRec
    BY <1>1, <2>4 DEF ThreadRec
  <2> QED
    BY <2>1, <2>3, <2>5
<1>4. csr' = [csr EXCEPT ![c] = r] /\ cpu' = [cpu EXCEPT ![c] = k] /\ th' = [th EXCEPT ![p] = t]
  BY <1>0, <1>1 DEF SpinAcquire, Set, St, PushOff, TrapTypes
<1>5. tf' = [tf EXCEPT ![p] = tf[p]] /\ upc' = [upc EXCEPT ![p] = upc[p]]
      /\ resume' = [resume EXCEPT ![p] = resume[p]] /\ wrong' = FALSE /\ UNCHANGED on
  BY <1>0, <1>1 DEF SpinAcquire, TrapTypes
<1>6. /\ t.at = "kernel" /\ t.held = th[p].held + 1 /\ t.off = th[p].off
      /\ r.sie = FALSE /\ r.stvec = csr[c].stvec /\ r.tp = csr[c].tp
      /\ k.noff = cpu[c].noff + 1
      /\ k.intena = IF cpu[c].noff = 0 THEN csr[c].sie ELSE cpu[c].intena
  BY <1>1 DEF ThreadRec, CsrRec, CpuRec
<1> HIDE DEF r, k, t
<1>7. Busy(c, r, k, t, tf[p], upc[p], resume[p])
  BY <1>1, <1>2, <1>6 DEF Busy, InKernel, Trapping, ThreadRec
<1>8. Kept(t, tf[p], resume[p])
  BY <1>1, <1>6 DEF Kept, Busy
<1> QED
  BY <1>1, <1>3, <1>4, <1>5, <1>7, <1>8, RunFrame

\* SpinRelease: pop_off() finds interrupts off, and the last lock turns them on again,
\* as they were before the first.
LEMMA ReleaseStep ==
  ASSUME TrapInv, NEW c \in Harts, SpinRelease(c)
  PROVE  TrapInv'
<1>0. RunsThread(c) /\ TrapTypes
  BY DEF SpinRelease, TrapInv
<1> DEFINE p == on[c]
           on1 == cpu[c].noff = 1 /\ cpu[c].intena
           r == [csr[c] EXCEPT !.sie = on1]
           k == [noff |-> cpu[c].noff - 1, intena |-> cpu[c].intena]
           t == [th[p] EXCEPT !.held = th[p].held - 1]
<1>1. /\ p \in Threads /\ wrong = FALSE
      /\ csr[c] \in CsrRec /\ cpu[c] \in CpuRec /\ th[p] \in ThreadRec /\ tf[p] \in FrameRec
      /\ upc[p] \in UserPcs /\ resume[p] \in UserPcs
      /\ Busy(c, csr[c], cpu[c], th[p], tf[p], upc[p], resume[p])
      /\ Kept(th[p], tf[p], resume[p])
  BY <1>0, Running
<1>2. /\ th[p].at = "kernel" /\ th[p].held > 0 /\ cpu[c].noff = th[p].held
      /\ ~csr[c].sie /\ cpu[c].intena = TRUE
  <2>1. th[p].at = "kernel" /\ th[p].held > 0
    BY DEF SpinRelease
  <2>2. cpu[c].noff = th[p].held /\ ~csr[c].sie /\ cpu[c].intena
    BY <1>1, <2>1 DEF Busy, ThreadRec
  <2>3. cpu[c].intena \in BOOLEAN
    BY <1>1 DEF CpuRec
  <2> QED
    BY <2>1, <2>2, <2>3
<1>3. r \in CsrRec /\ k \in CpuRec /\ t \in ThreadRec
  <2>1. r \in CsrRec
    BY <1>1 DEF CsrRec
  <2>2. cpu[c].noff - 1 \in Nat /\ cpu[c].intena \in BOOLEAN
    BY <1>1, <1>2 DEF CpuRec
  <2>3. k \in CpuRec
    BY <2>2 DEF CpuRec
  <2>4. th[p].held - 1 \in 0 .. MaxHeld
    BY <1>1, <1>2, TrapAssumption DEF ThreadRec
  <2>5. t \in ThreadRec
    BY <1>1, <2>4 DEF ThreadRec
  <2> QED
    BY <2>1, <2>3, <2>5
<1>4. csr' = [csr EXCEPT ![c] = r] /\ cpu' = [cpu EXCEPT ![c] = k] /\ th' = [th EXCEPT ![p] = t]
  BY <1>0, <1>1 DEF SpinRelease, Set, St, PopOff, TrapTypes
<1>5. tf' = [tf EXCEPT ![p] = tf[p]] /\ upc' = [upc EXCEPT ![p] = upc[p]]
      /\ resume' = [resume EXCEPT ![p] = resume[p]] /\ UNCHANGED on
  BY <1>0, <1>1 DEF SpinRelease, TrapTypes
<1>6. wrong' = FALSE
  <2>1. ~PopPanics(St(c))
    BY <1>1, <1>2 DEF PopPanics, St, ThreadRec
  <2> QED
    BY <1>1, <2>1 DEF SpinRelease, Flag
<1>7. /\ t.at = "kernel" /\ t.held = th[p].held - 1 /\ t.off = th[p].off
      /\ r.stvec = csr[c].stvec /\ r.tp = csr[c].tp
      /\ k.noff = cpu[c].noff - 1 /\ k.intena = TRUE
  BY <1>1, <1>2 DEF ThreadRec, CsrRec, CpuRec
<1>8. r.sie <=> cpu[c].noff = 1
  BY <1>1, <1>2 DEF CsrRec
<1> HIDE DEF r, k, t
<1>9. Busy(c, r, k, t, tf[p], upc[p], resume[p])
  BY <1>1, <1>2, <1>7, <1>8 DEF Busy, InKernel, Trapping, ThreadRec
<1>10. Kept(t, tf[p], resume[p])
  BY <1>1, <1>7 DEF Kept, Busy
<1> QED
  BY <1>1, <1>3, <1>4, <1>5, <1>6, <1>9, <1>10, RunFrame

\* SchedulerLoop: a CPU between two threads turns interrupts on.
LEMMA LoopStep ==
  ASSUME TrapInv, NEW c \in Harts, SchedulerLoop(c)
  PROVE  TrapInv'
<1> DEFINE r == [csr[c] EXCEPT !.sie = TRUE]
<1>1. ~RunsThread(c) /\ TrapTypes /\ wrong = FALSE /\ Idle(c, csr[c], cpu[c])
  BY DEF SchedulerLoop, TrapInv, HartInv, IdleInv, TrapTypes
<1>2. csr[c] \in CsrRec
  BY <1>1 DEF TrapTypes
<1>3. r \in CsrRec /\ r.stvec = csr[c].stvec /\ r.tp = csr[c].tp
  BY <1>2 DEF CsrRec
<1>4. csr' = [csr EXCEPT ![c] = r] /\ wrong' = FALSE
  BY <1>1 DEF SchedulerLoop, TrapTypes
<1>5. UNCHANGED <<on, cpu, th, tf, upc, resume>>
  BY DEF SchedulerLoop
<1> HIDE DEF r
<1>6. Idle(c, r, cpu[c])
  BY <1>1, <1>3 DEF Idle
<1> QED
  BY <1>1, <1>3, <1>4, <1>5, <1>6, IdleFrame

\* UserTrap: uservec is installed, so a trap from user space finds it, and sepc is
\* where the program was.
LEMMA UserTrapStep ==
  ASSUME TrapInv, NEW c \in Harts, NEW cause \in Trapping, UserTrap(c, cause)
  PROVE  TrapInv'
<1>0. RunsThread(c) /\ TrapTypes
  BY DEF UserTrap, TrapInv
<1> DEFINE p == on[c]
           r == [csr[c] EXCEPT !.sepc = upc[p], !.spp = "user", !.spie = csr[c].sie, !.sie = FALSE]
           t == [th[p] EXCEPT !.at = cause]
           s == IF cause = "ecall" THEN (resume[p] + 1) % Pcs ELSE resume[p]
<1>1. /\ p \in Threads /\ wrong = FALSE
      /\ csr[c] \in CsrRec /\ cpu[c] \in CpuRec /\ th[p] \in ThreadRec /\ tf[p] \in FrameRec
      /\ upc[p] \in UserPcs /\ resume[p] \in UserPcs
      /\ Busy(c, csr[c], cpu[c], th[p], tf[p], upc[p], resume[p])
      /\ Kept(th[p], tf[p], resume[p])
  BY <1>0, Running
<1>2. th[p].at = "user"
  BY DEF UserTrap
<1>3. r \in CsrRec /\ t \in ThreadRec /\ s \in UserPcs
  <2>1. upc[p] \in Int /\ csr[c].sie \in BOOLEAN
    <3>1. upc[p] \in Int
      BY <1>1, TrapAssumption DEF UserPcs
    <3>2. csr[c].sie \in BOOLEAN
      BY <1>1 DEF CsrRec
    <3> QED
      BY <3>1, <3>2
  <2>2. r \in CsrRec
    BY <1>1, <2>1 DEF CsrRec
  <2>3. cause \in Places
    BY DEF Trapping, Places
  <2>4. t \in ThreadRec
    BY <1>1, <2>3 DEF ThreadRec
  <2>5. s \in UserPcs
    BY <1>1, TrapAssumption DEF UserPcs
  <2> QED
    BY <2>2, <2>4, <2>5
<1>4. csr' = [csr EXCEPT ![c] = r] /\ th' = [th EXCEPT ![p] = t] /\ resume' = [resume EXCEPT ![p] = s]
  BY <1>0, <1>1 DEF UserTrap, Trapped, TrapTypes
<1>5. cpu' = [cpu EXCEPT ![c] = cpu[c]] /\ tf' = [tf EXCEPT ![p] = tf[p]]
      /\ upc' = [upc EXCEPT ![p] = upc[p]] /\ UNCHANGED on
  BY <1>0, <1>1 DEF UserTrap, TrapTypes
<1>6. wrong' = FALSE
  <2>1. csr[c].stvec = "uservec"
    BY <1>1, <1>2 DEF Busy
  <2> QED
    BY <1>1, <2>1 DEF UserTrap, Flag
<1>7. /\ t.at = cause /\ t.held = th[p].held /\ t.off = th[p].off
      /\ r.sie = FALSE /\ r.stvec = csr[c].stvec /\ r.tp = csr[c].tp
      /\ r.spp = "user" /\ r.sepc = upc[p]
  BY <1>1 DEF ThreadRec, CsrRec
<1> HIDE DEF r, t
<1>8. Busy(c, r, cpu[c], t, tf[p], upc[p], s)
  BY <1>1, <1>2, <1>7 DEF Busy, InKernel, Trapping
<1> HIDE DEF s
<1>9. Kept(t, tf[p], s)
  BY <1>1, <1>7 DEF Kept, Busy, Trapping
<1> QED
  BY <1>1, <1>3, <1>4, <1>5, <1>6, <1>8, <1>9, RunFrame

\* Usertrap: the trapframe has the CPU's number and gets the pc to go on at.
LEMMA UsertrapStep ==
  ASSUME TrapInv, NEW c \in Harts, Usertrap(c)
  PROVE  TrapInv'
<1>0. RunsThread(c) /\ TrapTypes
  BY DEF Usertrap, TrapInv
<1> DEFINE p == on[c]
           call == th[p].at = "ecall"
           to == CASE call -> "kernel" [] th[p].at = "timer" -> "uyield" [] OTHER -> "kret"
           pc == IF call THEN (csr[c].sepc + 1) % Pcs ELSE csr[c].sepc
           r == [csr[c] EXCEPT !.tp = tf[p].hartid, !.stvec = "kernelvec", !.sie = call]
           t == [th[p] EXCEPT !.at = to]
           f == [tf[p] EXCEPT !.epc = pc]
<1>1. /\ p \in Threads /\ wrong = FALSE
      /\ csr[c] \in CsrRec /\ cpu[c] \in CpuRec /\ th[p] \in ThreadRec /\ tf[p] \in FrameRec
      /\ upc[p] \in UserPcs /\ resume[p] \in UserPcs
      /\ Busy(c, csr[c], cpu[c], th[p], tf[p], upc[p], resume[p])
      /\ Kept(th[p], tf[p], resume[p])
  BY <1>0, Running
<1>2. th[p].at \in Trapping
  BY DEF Usertrap, Trapping
<1>3. /\ th[p].held = 0 /\ cpu[c].noff = 0 /\ tf[p].hartid = c /\ ~th[p].off
      /\ csr[c].spp = "user" /\ pc = resume[p]
  BY <1>1, <1>2 DEF Busy, Trapping
<1>4. to \in {"kernel", "uyield", "kret"} /\ (to = "kernel" <=> call)
  BY <1>2 DEF Trapping
<1>5. r \in CsrRec /\ t \in ThreadRec /\ f \in FrameRec
  <2>1. tf[p].hartid \in CpuIds
    BY <1>1 DEF FrameRec
  <2>2. r \in CsrRec
    BY <1>1, <2>1 DEF CsrRec
  <2>3. to \in Places
    BY <1>4 DEF Places
  <2>4. t \in ThreadRec
    BY <1>1, <2>3 DEF ThreadRec
  <2>5. f \in FrameRec
    BY <1>1, <1>3 DEF FrameRec
  <2> QED
    BY <2>2, <2>4, <2>5
<1>6. csr' = [csr EXCEPT ![c] = r] /\ th' = [th EXCEPT ![p] = t] /\ tf' = [tf EXCEPT ![p] = f]
  BY <1>0, <1>1 DEF Usertrap, TrapTypes
<1>7. cpu' = [cpu EXCEPT ![c] = cpu[c]] /\ upc' = [upc EXCEPT ![p] = upc[p]]
      /\ resume' = [resume EXCEPT ![p] = resume[p]] /\ UNCHANGED on
  BY <1>0, <1>1 DEF Usertrap, TrapTypes
<1>8. wrong' = FALSE
  BY <1>1, <1>3 DEF Usertrap, Flag
<1>9. /\ t.at = to /\ t.held = th[p].held /\ t.off = th[p].off
      /\ r.stvec = "kernelvec" /\ r.tp = tf[p].hartid /\ f.epc = pc
  BY <1>1 DEF ThreadRec, CsrRec, FrameRec
<1>10. r.sie <=> call
  BY <1>1 DEF CsrRec
<1> HIDE DEF r, t, f, to, pc, call
<1>11. Busy(c, r, cpu[c], t, f, upc[p], resume[p])
  BY <1>3, <1>4, <1>9, <1>10 DEF Busy, InKernel, Trapping
<1>12. Kept(t, f, resume[p])
  BY <1>3, <1>4, <1>9 DEF Kept
<1> QED
  BY <1>1, <1>5, <1>6, <1>7, <1>8, <1>11, <1>12, RunFrame

\* Where interrupts are on in the kernel no lock is held, and kernelvec is installed:
\* usertrapret() has turned them off before it installs uservec.
LEMMA Interrupted ==
  ASSUME NEW c, NEW r \in CsrRec, NEW k, NEW t \in ThreadRec, NEW f, NEW u, NEW s,
         Busy(c, r, k, t, f, u, s), t.at \in Interruptible, r.sie
  PROVE  /\ t.at \in {"kernel", "relock", "kret"} /\ t.held = 0 /\ k.noff = 0 /\ ~t.off
         /\ r.stvec = "kernelvec" /\ r.tp = c /\ f.epc = s
BY DEF Busy, Interruptible, InKernel

\* Interrupt: what it overwrites is of no use to a thread that it can interrupt.
LEMMA InterruptStep ==
  ASSUME TrapInv, NEW c \in Harts, Interrupt(c)
  PROVE  TrapInv'
<1> DEFINE r == [csr[c] EXCEPT !.sepc = Kernelpc, !.spp = "kernel", !.spie = TRUE]
<1>1. TrapTypes /\ wrong = FALSE /\ csr[c] \in CsrRec /\ csr[c].sie
  BY DEF TrapInv, TrapTypes, Interrupt
<1>2. r \in CsrRec
  <2>1. Kernelpc \in Int
    BY DEF Kernelpc
  <2> QED
    BY <1>1, <2>1 DEF CsrRec
<1>3. r.sie = csr[c].sie /\ r.stvec = csr[c].stvec /\ r.tp = csr[c].tp
  BY <1>1 DEF CsrRec
<1>4. csr' = [csr EXCEPT ![c] = r]
  BY <1>1 DEF Interrupt, TrapTypes
<1> HIDE DEF r
<1>5. CASE ~RunsThread(c)
  <2>1. Idle(c, csr[c], cpu[c])
    BY <1>5 DEF TrapInv, HartInv, IdleInv
  <2>2. Idle(c, r, cpu[c]) /\ wrong' = FALSE
    BY <1>1, <1>3, <2>1 DEF Idle, Interrupt, Flag
  <2> QED
    BY <1>2, <1>4, <1>5, <2>2, IdleFrame DEF Interrupt
<1>6. CASE RunsThread(c)
  <2> DEFINE p == on[c]
  <2>1. /\ p \in Threads
        /\ cpu[c] \in CpuRec /\ th[p] \in ThreadRec /\ tf[p] \in FrameRec
        /\ upc[p] \in UserPcs /\ resume[p] \in UserPcs
        /\ Busy(c, csr[c], cpu[c], th[p], tf[p], upc[p], resume[p])
        /\ Kept(th[p], tf[p], resume[p])
    BY <1>6, Running
  <2>2. /\ th[p].at \in {"kernel", "relock", "kret"} /\ csr[c].stvec = "kernelvec"
        /\ csr[c].tp = c
    BY <1>1, <1>6, <2>1, Interrupted DEF Interrupt
  <2>3. Busy(c, r, cpu[c], th[p], tf[p], upc[p], resume[p])
    BY <1>3, <2>1, <2>2 DEF Busy, InKernel, Trapping
  <2>4. wrong' = FALSE
    BY <1>1, <2>2 DEF Interrupt, Flag
  <2>5. cpu' = [cpu EXCEPT ![c] = cpu[c]] /\ th' = [th EXCEPT ![p] = th[p]]
        /\ tf' = [tf EXCEPT ![p] = tf[p]] /\ upc' = [upc EXCEPT ![p] = upc[p]]
        /\ resume' = [resume EXCEPT ![p] = resume[p]] /\ UNCHANGED on
    BY <1>1, <2>1 DEF Interrupt, TrapTypes
  <2> QED
    BY <1>2, <1>4, <2>1, <2>3, <2>4, <2>5, RunFrame
<1> QED
  BY <1>5, <1>6

\* TimerIntr: the thread that yields was interruptible, so it returns to interrupts on.
LEMMA TimerStep ==
  ASSUME TrapInv, NEW c \in Harts, TimerIntr(c)
  PROVE  TrapInv'
<1>0. RunsThread(c) /\ TrapTypes
  BY DEF TimerIntr, TrapInv
<1> DEFINE p == on[c]
           r == [csr[c] EXCEPT !.sepc = Kernelpc, !.spp = "kernel", !.spie = csr[c].sie, !.sie = FALSE]
           t == [th[p] EXCEPT !.back = th[p].at, !.at = "kyield", !.sepc = Kernelpc,
                              !.spie = csr[c].sie, !.tp = csr[c].tp]
<1>1. /\ p \in Threads /\ wrong = FALSE
      /\ csr[c] \in CsrRec /\ cpu[c] \in CpuRec /\ th[p] \in ThreadRec /\ tf[p] \in FrameRec
      /\ upc[p] \in UserPcs /\ resume[p] \in UserPcs
      /\ Busy(c, csr[c], cpu[c], th[p], tf[p], upc[p], resume[p])
      /\ Kept(th[p], tf[p], resume[p])
  BY <1>0, Running
<1>2. csr[c].sie /\ th[p].at \in Interruptible
  BY DEF TimerIntr
<1>3. /\ th[p].at \in {"kernel", "relock", "kret"} /\ th[p].held = 0 /\ cpu[c].noff = 0
      /\ ~th[p].off /\ csr[c].stvec = "kernelvec" /\ csr[c].tp = c /\ tf[p].epc = resume[p]
  BY <1>1, <1>2, Interrupted
<1>4. r \in CsrRec /\ t \in ThreadRec
  <2>1. Kernelpc \in Int /\ csr[c].sie \in BOOLEAN /\ csr[c].tp \in CpuIds
    BY <1>1 DEF Kernelpc, CsrRec
  <2>2. r \in CsrRec
    BY <1>1, <2>1 DEF CsrRec
  <2>3. th[p].at \in {"none"} \cup Places /\ "kyield" \in Places
    BY <1>1 DEF ThreadRec, Places
  <2>4. t \in ThreadRec
    BY <1>1, <2>1, <2>3 DEF ThreadRec
  <2> QED
    BY <2>2, <2>4
<1>5. csr' = [csr EXCEPT ![c] = r] /\ th' = [th EXCEPT ![p] = t]
  BY <1>0, <1>1 DEF TimerIntr, Trapped, TrapTypes
<1>6. cpu' = [cpu EXCEPT ![c] = cpu[c]] /\ tf' = [tf EXCEPT ![p] = tf[p]]
      /\ upc' = [upc EXCEPT ![p] = upc[p]] /\ resume' = [resume EXCEPT ![p] = resume[p]]
      /\ UNCHANGED on
  BY <1>0, <1>1 DEF TimerIntr, TrapTypes
<1>7. wrong' = FALSE
  BY <1>1, <1>3 DEF TimerIntr, Flag
<1>8. /\ t.at = "kyield" /\ t.held = th[p].held /\ t.off = th[p].off
      /\ t.back = th[p].at /\ t.spie = csr[c].sie
      /\ r.sie = FALSE /\ r.stvec = csr[c].stvec /\ r.tp = csr[c].tp
  BY <1>1 DEF ThreadRec, CsrRec
<1> HIDE DEF r, t
<1>9. Busy(c, r, cpu[c], t, tf[p], upc[p], resume[p])
  BY <1>3, <1>8 DEF Busy, InKernel, Trapping
<1>10. Kept(t, tf[p], resume[p])
  BY <1>2, <1>3, <1>8 DEF Kept
<1> QED
  BY <1>1, <1>4, <1>5, <1>6, <1>7, <1>9, <1>10, RunFrame

\* push_off() and pop_off(), field by field.
StRec == [sie : BOOLEAN, noff : Int, intena : BOOLEAN]

LEMMA Push ==
  ASSUME NEW c \in Harts, csr[c] \in CsrRec, cpu[c] \in CpuRec
  PROVE  LET s == PushOff(St(c))
         IN /\ s \in StRec /\ s.sie = FALSE /\ s.noff = cpu[c].noff + 1
            /\ s.intena = IF cpu[c].noff = 0 THEN csr[c].sie ELSE cpu[c].intena
<1>1. /\ csr[c].sie \in BOOLEAN /\ cpu[c].noff \in Nat /\ cpu[c].intena \in BOOLEAN
  BY DEF CsrRec, CpuRec
<1>2. cpu[c].noff + 1 \in Int /\ (IF cpu[c].noff = 0 THEN csr[c].sie ELSE cpu[c].intena) \in BOOLEAN
  BY <1>1
<1> QED
  BY <1>2 DEF PushOff, St, StRec

LEMMA Pop ==
  ASSUME NEW s \in StRec
  PROVE  LET z == PopOff(s)
         IN /\ z \in StRec /\ (z.sie <=> s.noff = 1 /\ s.intena)
            /\ z.noff = s.noff - 1 /\ z.intena = s.intena
<1>1. PICK b \in BOOLEAN : b = (s.noff = 1 /\ s.intena)
  OBVIOUS
<1>2. PICK m \in Int : m = s.noff - 1
  BY DEF StRec
<1>3. PICK z : z = [s EXCEPT !.noff = m, !.sie = b]
  OBVIOUS
<1>4. z \in StRec /\ z.noff = m /\ z.sie = b /\ z.intena = s.intena
  BY <1>3 DEF StRec
<1>5. PopOff(s) = z
  BY <1>1, <1>2, <1>3 DEF PopOff, StRec
<1> QED
  BY <1>1, <1>2, <1>4, <1>5

\* SwitchOut: sched() holds one lock with interrupts off, and intena tells whether
\* the thread slept in a system call or yielded in a trap.
LEMMA OutStep ==
  ASSUME TrapInv, NEW c \in Harts, SwitchOut(c)
  PROVE  TrapInv'
<1>0. RunsThread(c) /\ TrapTypes
  BY DEF SwitchOut, TrapInv
<1> DEFINE p == on[c]
           sleeps == th[p].at = "kernel" /\ th[p].held > 0
           a == PushOff(St(c))
           m == IF sleeps THEN PopOff(a) ELSE a
           z == PopOff(m)
           r == [csr[c] EXCEPT !.sie = z.sie]
           k == [noff |-> z.noff, intena |-> z.intena]
           to == IF sleeps THEN "relock" ELSE th[p].at
           t == [th[p] EXCEPT !.intena = m.intena, !.off = TRUE, !.held = 0, !.at = to]
<1>1. /\ p \in Threads /\ wrong = FALSE
      /\ csr[c] \in CsrRec /\ cpu[c] \in CpuRec /\ th[p] \in ThreadRec /\ tf[p] \in FrameRec
      /\ upc[p] \in UserPcs /\ resume[p] \in UserPcs
      /\ Busy(c, csr[c], cpu[c], th[p], tf[p], upc[p], resume[p])
      /\ Kept(th[p], tf[p], resume[p])
  BY <1>0, Running
<1>2. th[p].at \in {"uyield", "kyield"} \/ (sleeps /\ th[p].held = 1)
  BY DEF SwitchOut
<1>3. /\ csr[c].stvec = "kernelvec" /\ csr[c].tp = c /\ tf[p].epc = resume[p]
      /\ ~csr[c].sie /\ cpu[c].noff = IF sleeps THEN 1 ELSE 0
      /\ sleeps => cpu[c].intena
  <2>1. csr[c].stvec = "kernelvec" /\ csr[c].tp = c /\ tf[p].epc = resume[p]
    BY <1>1, <1>2 DEF Busy, InKernel
  <2>2. ~csr[c].sie /\ (sleeps => cpu[c].intena) /\ cpu[c].noff = IF sleeps THEN 1 ELSE 0
    BY <1>1, <1>2 DEF Busy, ThreadRec
  <2> QED
    BY <2>1, <2>2
<1>4. /\ m \in StRec /\ ~m.sie /\ m.noff = 1 /\ (m.intena <=> sleeps)
      /\ z \in StRec /\ z.noff = 0
  <2>1. /\ a \in StRec /\ a.sie = FALSE /\ a.noff = cpu[c].noff + 1
        /\ a.intena = IF cpu[c].noff = 0 THEN csr[c].sie ELSE cpu[c].intena
    BY <1>1, Push
  <2>2. PopOff(a) \in StRec /\ (PopOff(a).sie <=> a.noff = 1 /\ a.intena)
        /\ PopOff(a).noff = a.noff - 1 /\ PopOff(a).intena = a.intena
    BY <2>1, Pop
  <2> HIDE DEF a
  <2>3. m \in StRec /\ ~m.sie /\ m.noff = 1 /\ (m.intena <=> sleeps)
    <3>1. CASE sleeps
      BY <1>3, <2>1, <2>2, <3>1
    <3>2. CASE ~sleeps
      BY <1>3, <2>1, <3>2
    <3> QED
      BY <3>1, <3>2
  <2> HIDE DEF m, sleeps
  <2>4. z \in StRec /\ z.noff = 0
    BY <2>3, Pop
  <2> QED
    BY <2>3, <2>4
<1>5. on' = [on EXCEPT ![c] = Scheduler] /\ UNCHANGED <<tf, upc, resume>>
  BY DEF SwitchOut
<1>6. /\ th' = [th EXCEPT ![p] = [@ EXCEPT !.intena = m.intena, !.off = TRUE, !.held = 0,
                                          !.at = to]]
      /\ Set(c, z) /\ Flag(m.noff # 1 \/ m.sie)
  BY DEF SwitchOut
<1> HIDE DEF m, z
<1>7. /\ csr' = [csr EXCEPT ![c] = r] /\ cpu' = [cpu EXCEPT ![c] = k]
      /\ th' = [th EXCEPT ![p] = t] /\ wrong' = FALSE
  <2>1. csr' = [csr EXCEPT ![c] = r] /\ cpu' = [cpu EXCEPT ![c] = k]
    BY <1>0, <1>6 DEF Set, TrapTypes
  <2>2. wrong' = FALSE
    BY <1>1, <1>4, <1>6 DEF Flag
  <2>3. th' = [th EXCEPT ![p] = t]
    <3> HIDE DEF sleeps
    <3> QED
      BY <1>0, <1>1, <1>6 DEF TrapTypes
  <2> QED
    BY <2>1, <2>2, <2>3
<1>8. r \in CsrRec /\ k \in CpuRec /\ t \in ThreadRec
  <2>1. to \in Places /\ 0 \in 0 .. MaxHeld
    BY <1>1, TrapAssumption DEF ThreadRec, Places
  <2>2. m.intena \in BOOLEAN /\ z.sie \in BOOLEAN /\ z.intena \in BOOLEAN
    BY <1>4 DEF StRec
  <2> HIDE DEF to
  <2>3. r \in CsrRec
    BY <1>1, <2>2 DEF CsrRec
  <2>4. k \in CpuRec
    BY <1>4, <2>2 DEF CpuRec
  <2>5. t \in ThreadRec
    BY <1>1, <2>1, <2>2 DEF ThreadRec
  <2> QED
    BY <2>3, <2>4, <2>5
<1>9. /\ t.at = to /\ t.held = 0 /\ t.off = TRUE /\ t.intena = m.intena
      /\ t.back = th[p].back /\ t.spie = th[p].spie
      /\ r.stvec = csr[c].stvec /\ r.tp = csr[c].tp /\ k.noff = 0
  BY <1>1, <1>4 DEF ThreadRec, CsrRec
<1> HIDE DEF r, k, t
<1>10. Idle(c, r, k)
  BY <1>3, <1>9 DEF Idle
<1>11. Kept(t, tf[p], resume[p])
  BY <1>1, <1>2, <1>3, <1>4, <1>9 DEF Kept
<1> HIDE DEF p
<1>12. on[c] = p
  BY DEF p
<1> QED
  BY <1>1, <1>5, <1>7, <1>8, <1>10, <1>11, <1>12, OutFrame

\* SwitchIn: releasing p->lock turns interrupts on exactly for a thread that had slept;
\* one that forkret() starts returns to user space either way.
LEMMA InStep ==
  ASSUME TrapInv, NEW c \in Harts, NEW p \in Threads, SwitchIn(c, p)
  PROVE  TrapInv'
<1>1. TrapTypes /\ wrong = FALSE /\ Idle(c, csr[c], cpu[c]) /\ Kept(th[p], tf[p], resume[p])
  BY DEF TrapInv, TrapTypes, SwitchIn, HartInv, IdleInv, KeptInv
<1>2. csr[c] \in CsrRec /\ cpu[c] \in CpuRec /\ th[p] \in ThreadRec
  BY <1>1 DEF TrapTypes
<1>3. \A d \in Harts : on[d] # p
  <2> SUFFICES ASSUME NEW d \in Harts, on[d] = p PROVE FALSE
    OBVIOUS
  <2>1. Busy(d, csr[d], cpu[d], th[p], tf[p], upc[p], resume[p])
    BY TrapAssumption, Running DEF RunsThread
  <2> QED
    BY <2>1 DEF Busy, SwitchIn
<1> DEFINE s == PushOff(St(c))
           m == IF th[p].at = "fork" THEN s ELSE Saved(p, s)
           z == PopOff(m)
           r == [csr[c] EXCEPT !.sie = z.sie]
           k == [noff |-> z.noff, intena |-> z.intena]
           t == [th[p] EXCEPT !.off = FALSE, !.intena = FALSE, !.at = After(th[p].at)]
<1>4. /\ m \in StRec /\ ~m.sie /\ m.noff = 1 /\ (th[p].at # "fork" => m.intena = th[p].intena)
      /\ z \in StRec /\ z.noff = 0 /\ (z.sie <=> m.intena)
  <2>0. s \in StRec /\ s.sie = FALSE /\ s.noff = cpu[c].noff + 1
    BY <1>2, Push
  <2>1. s \in StRec /\ s.sie = FALSE /\ s.noff = 1
    BY <1>1, <2>0 DEF Idle
  <2> HIDE DEF s
  <2>2. th[p].intena \in BOOLEAN
    BY <1>2 DEF ThreadRec
  <2>3. Saved(p, s) \in StRec /\ Saved(p, s).intena = th[p].intena
        /\ Saved(p, s).sie = s.sie /\ Saved(p, s).noff = s.noff
    BY <2>1, <2>2 DEF Saved, StRec
  <2>4. m \in StRec /\ ~m.sie /\ m.noff = 1 /\ (th[p].at # "fork" => m.intena = th[p].intena)
    BY <2>1, <2>3
  <2> HIDE DEF m
  <2>5. z \in StRec /\ z.noff = 0 /\ (z.sie <=> m.intena)
    BY <2>4, Pop
  <2> QED
    BY <2>4, <2>5
<1>5. Set(c, z) /\ Flag(PopPanics(m))
  BY DEF SwitchIn
<1> HIDE DEF m, z
<1>6. csr' = [csr EXCEPT ![c] = r] /\ cpu' = [cpu EXCEPT ![c] = k]
  BY <1>1, <1>5 DEF Set, TrapTypes
<1>7. wrong' = FALSE
  <2>1. ~PopPanics(m)
    BY <1>4 DEF PopPanics
  <2> QED
    BY <1>1, <1>5, <2>1 DEF Flag
<1>8. /\ th' = [th EXCEPT ![p] = t] /\ on' = [on EXCEPT ![c] = p]
      /\ UNCHANGED <<tf, upc, resume>>
  BY <1>1 DEF SwitchIn, TrapTypes
<1>9. th[p].off /\ th[p].at \in {"fork", "uyield", "kyield", "relock"} /\ th[p].held = 0
      /\ tf[p].epc = resume[p]
  BY <1>1 DEF SwitchIn, Kept
<1>10. r \in CsrRec /\ k \in CpuRec /\ t \in ThreadRec
  <2>1. After(th[p].at) \in Places
    BY <1>9 DEF After, Places
  <2>2. z.sie \in BOOLEAN /\ z.intena \in BOOLEAN
    BY <1>4 DEF StRec
  <2>3. r \in CsrRec
    BY <1>2, <2>2 DEF CsrRec
  <2>4. k \in CpuRec
    BY <1>4, <2>2 DEF CpuRec
  <2>5. t \in ThreadRec
    BY <1>2, <2>1 DEF ThreadRec
  <2> QED
    BY <2>3, <2>4, <2>5
<1>11. /\ t.at = After(th[p].at) /\ t.held = th[p].held /\ t.off = FALSE
       /\ t.back = th[p].back /\ t.spie = th[p].spie
       /\ r.stvec = csr[c].stvec /\ r.tp = csr[c].tp /\ r.sie = z.sie /\ k.noff = 0
  BY <1>2, <1>4 DEF ThreadRec, CsrRec
<1> HIDE DEF r, k, t
<1>12. /\ t.at = "kback" <=> th[p].at = "kyield"
       /\ t.at = "relock" <=> th[p].at = "relock"
       /\ t.at \in {"kback", "relock", "kret"}
  BY <1>9, <1>11 DEF After
<1>13. Busy(c, r, k, t, tf[p], upc[p], resume[p])
  <2>1. t.at = "kback" => ~r.sie
    BY <1>1, <1>4, <1>9, <1>11, <1>12 DEF Kept
  <2>2. t.at = "relock" => r.sie
    BY <1>1, <1>4, <1>9, <1>11, <1>12 DEF Kept
  <2> QED
    BY <1>1, <1>9, <1>11, <1>12, <2>1, <2>2 DEF Busy, Idle, InKernel, Trapping
<1>14. Kept(t, tf[p], resume[p])
  BY <1>1, <1>11, <1>12 DEF Kept
<1> QED
  BY <1>3, <1>6, <1>7, <1>8, <1>10, <1>13, <1>14, InFrame

\* KernelReturn: interrupts are as they were for the thread that the timer stopped,
\* and tp is the number of the CPU it goes on on.
LEMMA ReturnStep ==
  ASSUME TrapInv, NEW c \in Harts, KernelReturn(c)
  PROVE  TrapInv'
<1>0. RunsThread(c) /\ TrapTypes
  BY DEF KernelReturn, TrapInv
<1> DEFINE p == on[c]
           r == [csr[c] EXCEPT !.sie = th[p].spie, !.sepc = th[p].sepc, !.tp = csr[c].tp]
           t == [th[p] EXCEPT !.at = th[p].back, !.back = "none", !.sepc = Kernelpc,
                              !.spie = FALSE, !.tp = 0]
<1>1. /\ p \in Threads /\ wrong = FALSE
      /\ csr[c] \in CsrRec /\ cpu[c] \in CpuRec /\ th[p] \in ThreadRec /\ tf[p] \in FrameRec
      /\ upc[p] \in UserPcs /\ resume[p] \in UserPcs
      /\ Busy(c, csr[c], cpu[c], th[p], tf[p], upc[p], resume[p])
      /\ Kept(th[p], tf[p], resume[p])
  BY <1>0, Running
<1>2. th[p].at = "kback"
  BY DEF KernelReturn
<1>3. /\ th[p].back \in {"kernel", "relock", "kret"} /\ th[p].spie /\ ~csr[c].sie
      /\ th[p].held = 0 /\ ~th[p].off /\ cpu[c].noff = 0 /\ tf[p].epc = resume[p]
      /\ csr[c].stvec = "kernelvec" /\ csr[c].tp = c
  BY <1>1, <1>2 DEF Busy, Kept, InKernel
<1>4. r \in CsrRec /\ t \in ThreadRec
  <2>1. th[p].spie \in BOOLEAN /\ th[p].sepc \in Int /\ csr[c].tp \in CpuIds
        /\ Kernelpc \in Int /\ 0 \in CpuIds
    BY <1>1 DEF ThreadRec, CsrRec, Kernelpc, CpuIds
  <2>2. r \in CsrRec
    BY <1>1, <2>1 DEF CsrRec
  <2>3. th[p].back \in Places
    BY <1>3 DEF Places
  <2>4. t \in ThreadRec
    BY <1>1, <2>1, <2>3 DEF ThreadRec
  <2> QED
    BY <2>2, <2>4
<1>5. csr' = [csr EXCEPT ![c] = r] /\ th' = [th EXCEPT ![p] = t]
  BY <1>0, <1>1 DEF KernelReturn, Tp, TrapTypes
<1>6. cpu' = [cpu EXCEPT ![c] = cpu[c]] /\ tf' = [tf EXCEPT ![p] = tf[p]]
      /\ upc' = [upc EXCEPT ![p] = upc[p]] /\ resume' = [resume EXCEPT ![p] = resume[p]]
      /\ UNCHANGED on
  BY <1>0, <1>1 DEF KernelReturn, TrapTypes
<1>7. wrong' = FALSE
  BY <1>1, <1>3 DEF KernelReturn, Flag
<1>8. /\ t.at = th[p].back /\ t.held = th[p].held /\ t.off = th[p].off
      /\ r.sie = th[p].spie /\ r.stvec = csr[c].stvec /\ r.tp = csr[c].tp
  BY <1>1 DEF ThreadRec, CsrRec
<1> HIDE DEF r, t
<1>9. Busy(c, r, cpu[c], t, tf[p], upc[p], resume[p])
  BY <1>3, <1>8 DEF Busy, InKernel, Trapping
<1>10. Kept(t, tf[p], resume[p])
  BY <1>3, <1>8 DEF Kept
<1> QED
  BY <1>1, <1>4, <1>5, <1>6, <1>7, <1>9, <1>10, RunFrame

\* Usertrapret: interrupts go off before uservec is installed, and the trapframe
\* gets this CPU's number.
LEMMA UsertrapretStep ==
  ASSUME TrapInv, NEW c \in Harts, Usertrapret(c)
  PROVE  TrapInv'
<1>0. RunsThread(c) /\ TrapTypes
  BY DEF Usertrapret, TrapInv
<1> DEFINE p == on[c]
           r == [csr[c] EXCEPT !.sie = FALSE, !.stvec = "uservec", !.sepc = tf[p].epc,
                               !.spp = "user", !.spie = TRUE]
           t == [th[p] EXCEPT !.at = "ret"]
           f == [tf[p] EXCEPT !.hartid = csr[c].tp]
<1>1. /\ p \in Threads /\ wrong = FALSE
      /\ csr[c] \in CsrRec /\ cpu[c] \in CpuRec /\ th[p] \in ThreadRec /\ tf[p] \in FrameRec
      /\ upc[p] \in UserPcs /\ resume[p] \in UserPcs
      /\ Busy(c, csr[c], cpu[c], th[p], tf[p], upc[p], resume[p])
      /\ Kept(th[p], tf[p], resume[p])
  BY <1>0, Running
<1>2. th[p].at \in {"kernel", "kret"} /\ (th[p].at = "kernel" => th[p].held = 0)
  BY DEF Usertrapret
<1>3. /\ th[p].held = 0 /\ ~th[p].off /\ cpu[c].noff = 0 /\ tf[p].epc = resume[p]
      /\ csr[c].tp = c
  BY <1>1, <1>2 DEF Busy, InKernel
<1>4. r \in CsrRec /\ t \in ThreadRec /\ f \in FrameRec
  <2>1. tf[p].epc \in Int /\ csr[c].tp \in CpuIds /\ "ret" \in Places
    BY <1>1, TrapAssumption DEF FrameRec, UserPcs, CsrRec, Places
  <2>2. r \in CsrRec
    BY <1>1, <2>1 DEF CsrRec
  <2>3. t \in ThreadRec
    BY <1>1, <2>1 DEF ThreadRec
  <2>4. f \in FrameRec
    BY <1>1, <2>1 DEF FrameRec
  <2> QED
    BY <2>2, <2>3, <2>4
<1>5. csr' = [csr EXCEPT ![c] = r] /\ th' = [th EXCEPT ![p] = t] /\ tf' = [tf EXCEPT ![p] = f]
  BY <1>0, <1>1 DEF Usertrapret, IntrOff, TrapTypes
<1>6. cpu' = [cpu EXCEPT ![c] = cpu[c]] /\ upc' = [upc EXCEPT ![p] = upc[p]]
      /\ resume' = [resume EXCEPT ![p] = resume[p]] /\ UNCHANGED on /\ wrong' = FALSE
  BY <1>0, <1>1 DEF Usertrapret, TrapTypes
<1>7. /\ t.at = "ret" /\ t.held = th[p].held /\ t.off = th[p].off
      /\ r.sie = FALSE /\ r.stvec = "uservec" /\ r.tp = csr[c].tp
      /\ r.spp = "user" /\ r.sepc = tf[p].epc /\ f.hartid = csr[c].tp
  BY <1>1 DEF ThreadRec, CsrRec, FrameRec
<1> HIDE DEF r, t, f
<1>8. Busy(c, r, cpu[c], t, f, upc[p], resume[p])
  BY <1>3, <1>7 DEF Busy, InKernel, Trapping
<1>9. Kept(t, f, resume[p])
  BY <1>3, <1>7 DEF Kept
<1> QED
  BY <1>1, <1>4, <1>5, <1>6, <1>8, <1>9, RunFrame

\* Userret: sepc is still what usertrapret() wrote.
LEMMA UserretStep ==
  ASSUME TrapInv, NEW c \in Harts, Userret(c)
  PROVE  TrapInv'
<1>0. RunsThread(c) /\ TrapTypes
  BY DEF Userret, TrapInv
<1> DEFINE p == on[c]
           r == [csr[c] EXCEPT !.sie = csr[c].spie, !.tp = -1]
           t == [th[p] EXCEPT !.at = "user"]
<1>1. /\ p \in Threads /\ wrong = FALSE
      /\ csr[c] \in CsrRec /\ cpu[c] \in CpuRec /\ th[p] \in ThreadRec /\ tf[p] \in FrameRec
      /\ upc[p] \in UserPcs /\ resume[p] \in UserPcs
      /\ Busy(c, csr[c], cpu[c], th[p], tf[p], upc[p], resume[p])
      /\ Kept(th[p], tf[p], resume[p])
  BY <1>0, Running
<1>2. th[p].at = "ret"
  BY DEF Userret
<1>3. /\ th[p].held = 0 /\ ~th[p].off /\ cpu[c].noff = 0 /\ csr[c].sepc = resume[p]
      /\ csr[c].spp = "user" /\ csr[c].stvec = "uservec" /\ tf[p].hartid = c
  BY <1>1, <1>2 DEF Busy
<1>4. r \in CsrRec /\ t \in ThreadRec
  <2>1. csr[c].spie \in BOOLEAN /\ -1 \in CpuIds /\ "user" \in Places
    BY <1>1 DEF CsrRec, CpuIds, Places
  <2>2. r \in CsrRec
    BY <1>1, <2>1 DEF CsrRec
  <2>3. t \in ThreadRec
    BY <1>1, <2>1 DEF ThreadRec
  <2> QED
    BY <2>2, <2>3
<1>5. csr' = [csr EXCEPT ![c] = r] /\ th' = [th EXCEPT ![p] = t]
      /\ upc' = [upc EXCEPT ![p] = resume[p]]
  BY <1>0, <1>1, <1>3 DEF Userret, TrapTypes
<1>6. cpu' = [cpu EXCEPT ![c] = cpu[c]] /\ tf' = [tf EXCEPT ![p] = tf[p]]
      /\ resume' = [resume EXCEPT ![p] = resume[p]] /\ UNCHANGED on
  BY <1>0, <1>1 DEF Userret, TrapTypes
<1>7. wrong' = FALSE
  BY <1>1, <1>3 DEF Userret, Flag
<1>8. t.at = "user" /\ t.held = th[p].held /\ t.off = th[p].off /\ r.stvec = csr[c].stvec
  BY <1>1 DEF ThreadRec, CsrRec
<1> HIDE DEF r, t
<1>9. Busy(c, r, cpu[c], t, tf[p], resume[p], resume[p])
  BY <1>3, <1>8 DEF Busy, InKernel, Trapping
<1>10. Kept(t, tf[p], resume[p])
  BY <1>3, <1>8 DEF Kept
<1> QED
  BY <1>1, <1>4, <1>5, <1>6, <1>7, <1>9, <1>10, RunFrame

LEMMA TrapInvStep == TrapInv /\ [TrapNext]_trapVars => TrapInv'
<1> SUFFICES ASSUME TrapInv, [TrapNext]_trapVars PROVE TrapInv'
  OBVIOUS
<1>1. CASE UNCHANGED trapVars
  BY <1>1 DEF trapVars, TrapInv, TrapTypes, OneHart, HartInv, RunsThread, BusyInv, IdleInv, KeptInv
<1>2. ASSUME NEW c \in Harts, NEW cause \in {"ecall", "timer", "device"}, UserTrap(c, cause)
      PROVE  TrapInv'
  BY <1>2, UserTrapStep DEF Trapping
<1> QED
  BY <1>1, <1>2, AcquireStep, ReleaseStep, LoopStep, UsertrapStep, InterruptStep, TimerStep,
     OutStep, InStep, ReturnStep, UsertrapretStep, UserretStep DEF TrapNext

LEMMA TrapInvRight == TrapInv => TrapStateRight
<1> SUFFICES ASSUME TrapInv PROVE TrapStateRight
  OBVIOUS
<1>1. TrapTypes
  BY DEF TrapInv
<1>2. TrapTypeOK
  <2>1. \A c \in Harts : cpu[c].noff \in Nat /\ cpu[c].intena \in BOOLEAN
    BY <1>1 DEF TrapTypes, CpuRec
  <2>2. \A p \in Threads : th[p].held \in 0 .. MaxHeld
    BY <1>1 DEF TrapTypes, ThreadRec
  <2> QED
    BY <1>1, <2>1, <2>2 DEF TrapTypeOK, TrapTypes, UserPcs
<1>3. TrapsRight
  BY DEF TrapInv, TrapsRight
<1>4. ResumesRight
  BY Running DEF ResumesRight, Busy
<1>5. ASSUME NEW c \in Harts, Sane(c)
      PROVE  /\ csr[c].tp = c
             /\ cpu[c].noff = IF RunsThread(c) THEN th[on[c]].held ELSE 0
             /\ RunsThread(c) /\ th[on[c]].at \in {"kernel", "relock"} =>
                  (csr[c].sie <=> th[on[c]].held = 0)
  <2>1. CASE ~RunsThread(c)
    BY <2>1 DEF TrapInv, HartInv, IdleInv, Idle
  <2>2. CASE RunsThread(c)
    <3>1. th[on[c]].at \in Places
      BY <2>2, Running DEF ThreadRec
    <3>2. Busy(c, csr[c], cpu[c], th[on[c]], tf[on[c]], upc[on[c]], resume[on[c]])
      BY <2>2, Running
    <3> QED
      BY <1>5, <2>2, <3>1, <3>2 DEF Sane, Busy, Places, InKernel
  <2> QED
    BY <2>1, <2>2
<1>6. CpuStateRight
  BY <1>5 DEF CpuStateRight
<1> QED
  BY <1>2, <1>3, <1>4, <1>6 DEF TrapStateRight

(***************************************************************************)
(* On every CPU every trap takes the vector usertrapret(), usertrap() and  *)
(* kerneltrap() meant for it, no panic of theirs, of sched() or of         *)
(* pop_off() is reached, a process goes on in user space where its last    *)
(* trap left it, and tp, noff and the interrupt flag are the running       *)
(* thread's, however many CPUs and threads there are and however threads   *)
(* move between CPUs.                                                      *)
(***************************************************************************)
THEOREM TrapsKeepState == TrapSpec => []TrapStateRight
<1>1. TrapInit => TrapInv
  BY TrapInvInit
<1>2. TrapInv /\ [TrapNext]_trapVars => TrapInv'
  BY TrapInvStep
<1>3. TrapInv => TrapStateRight
  BY TrapInvRight
<1> QED
  BY <1>1, <1>2, <1>3, PTL DEF TrapSpec

(***************************************************************************)
(* sleep(n).                                                               *)
(***************************************************************************)
\* ticks - ticks0, in the unsigned arithmetic of the loop condition, counts the
\* ticks since the call began, because these stay below the wrap.
SinceInv == \A p \in Dozers : dozer[p] # "user" =>
  /\ (ticks - ticks0[p]) % Modulus = since[p]
  /\ since[p] <= Asked(p) + MaxDelay

TkInv == SleepExact /\ SinceInv

\* the distance from y to x on the ring of counter values
LEMMA Distance ==
  ASSUME NEW x \in 0 .. Modulus - 1, NEW y \in 0 .. Modulus - 1
  PROVE  (x - y) % Modulus = IF x >= y THEN x - y ELSE x - y + Modulus
BY TicksAssumption

LEMMA NextTick ==
  ASSUME NEW x \in 0 .. Modulus - 1
  PROVE  (x + 1) % Modulus = IF x = Modulus - 1 THEN 0 ELSE x + 1
BY TicksAssumption

\* One tick moves the distance by one, short of a whole turn.
LEMMA DistanceTick ==
  ASSUME NEW x \in 0 .. Modulus - 1, NEW y \in 0 .. Modulus - 1,
         (x - y) % Modulus < Modulus - 1
  PROVE  (((x + 1) % Modulus) - y) % Modulus = ((x - y) % Modulus) + 1
<1> DEFINE z == (x + 1) % Modulus
<1>1. Modulus \in Nat \ {0}
  BY TicksAssumption
<1>2. z = IF x = Modulus - 1 THEN 0 ELSE x + 1
  BY NextTick
<1>3. z \in 0 .. Modulus - 1
  BY <1>1, <1>2
<1>4. (z - y) % Modulus = IF z >= y THEN z - y ELSE z - y + Modulus
  BY <1>3, Distance
<1>5. (x - y) % Modulus = IF x >= y THEN x - y ELSE x - y + Modulus
  BY Distance
<1> QED
  BY <1>1, <1>2, <1>4, <1>5

LEMMA TkInvInit == TkInit => TkInv
<1> SUFFICES ASSUME TkInit PROVE TkInv
  OBVIOUS
<1>1. Modulus \in Nat \ {0} /\ MaxN \in Nat /\ MaxDelay \in Nat
  BY TicksAssumption
<1>2. 0 \in -1 .. MaxN /\ 0 \in 0 .. Modulus - 1 /\ 0 \in 0 .. MaxN + MaxDelay
  BY <1>1
<1>3. ticks \in 0 .. Modulus - 1
  BY <1>1 DEF TkInit
<1> QED
  BY <1>2, <1>3 DEF TkInit, TkInv, SleepExact, TkTypeOK, SinceInv

LEMMA TkInvStep == TkInv /\ [TkNext]_tkVars => TkInv'
<1> SUFFICES ASSUME TkInv, [TkNext]_tkVars PROVE TkInv'
  OBVIOUS
<1>0. /\ Modulus \in Nat \ {0} /\ MaxN \in Nat /\ MaxDelay \in Nat
      /\ MaxN + MaxDelay < Modulus
  BY TicksAssumption
<1>t. /\ TkTypeOK /\ SinceInv /\ SleepExact
      /\ dozer \in [Dozers -> {"user", "loop", "doze", "asleep", "back"}]
      /\ n \in [Dozers -> -1 .. MaxN] /\ since \in [Dozers -> 0 .. MaxN + MaxDelay]
      /\ ticks0 \in [Dozers -> 0 .. Modulus - 1] /\ ticks \in 0 .. Modulus - 1
      /\ doomed \in [Dozers -> BOOLEAN]
  BY DEF TkInv, SleepExact, TkTypeOK
<1>u. \A p \in Dozers : Asked(p) \in 0 .. MaxN /\ n[p] <= Asked(p)
  BY <1>0, <1>t DEF Asked
<1>1. ASSUME NEW c \in CPUids, Clockintr(c) PROVE TkInv'
  <2>1. CASE c # 0
    <3>1. UNCHANGED <<ticks, dozer, n, ticks0, doomed>>
      BY <1>1, <2>1 DEF Clockintr, KeepsTime
    <3>2. since' = since
      BY <1>1, <1>t, <2>1 DEF Clockintr
    <3> QED
      BY <1>t, <3>1, <3>2 DEF TkInv, SleepExact, TkTypeOK, SinceInv, Asked
  <2>2. CASE c = 0
    <3>1. /\ ticks' = (ticks + 1) % Modulus /\ dozer' = Awake
          /\ UNCHANGED <<n, ticks0, doomed>> /\ TickslockFree
          /\ \A p \in Dozers : dozer[p] # "user" => since[p] < Asked(p) + MaxDelay
          /\ since' = [p \in Dozers |->
                         IF dozer[p] # "user" THEN since[p] + 1 ELSE since[p]]
      BY <1>1, <2>2 DEF Clockintr, KeepsTime
    <3>2. ticks' \in 0 .. Modulus - 1
      BY <1>0, <1>t, <3>1
    <3>3. dozer' \in [Dozers -> {"user", "loop", "doze", "asleep", "back"}]
          /\ \A p \in Dozers : dozer'[p] = "user" <=> dozer[p] = "user"
      BY <1>t, <3>1 DEF Awake
    <3>4. since' \in [Dozers -> 0 .. MaxN + MaxDelay]
      BY <1>0, <1>t, <1>u, <3>1
    <3>5. TkTypeOK'
      BY <1>t, <3>1, <3>2, <3>3, <3>4 DEF TkTypeOK
    <3>6. ASSUME NEW p \in Dozers, dozer[p] # "user"
          PROVE  /\ (ticks' - ticks0'[p]) % Modulus = since'[p]
                 /\ since'[p] = since[p] + 1 /\ since'[p] <= Asked(p) + MaxDelay
      <4>1. (ticks - ticks0[p]) % Modulus = since[p] /\ since[p] < Asked(p) + MaxDelay
        BY <1>t, <3>1, <3>6 DEF SinceInv
      <4>2. since[p] < Modulus - 1 /\ since[p] \in Nat
        BY <1>0, <1>t, <1>u, <4>1
      <4>3. (((ticks + 1) % Modulus) - ticks0[p]) % Modulus = since[p] + 1
        BY <1>t, <4>1, <4>2, DistanceTick
      <4>4. since'[p] = since[p] + 1
        BY <3>1, <3>6
      <4> QED
        BY <1>0, <1>u, <3>1, <4>1, <4>2, <4>3, <4>4
    <3>7. SinceInv'
      BY <3>1, <3>3, <3>6 DEF SinceInv, Asked
    <3>8. \A p \in Dozers :
            /\ dozer'[p] = "back" /\ ~doomed'[p] => since'[p] >= n'[p]
            /\ dozer'[p] \in {"doze", "asleep"} => since'[p] < n'[p]
      <4>1. \A p \in Dozers : dozer'[p] \notin {"doze", "asleep"}
        BY <1>t, <3>1 DEF Awake, TickslockFree
      <4>2. \A p \in Dozers : dozer'[p] = "back" => dozer[p] = "back"
        BY <1>t, <3>1 DEF Awake
      <4> QED
        BY <1>0, <1>t, <3>1, <3>6, <4>1, <4>2 DEF SleepExact
    <3> QED
      BY <3>5, <3>7, <3>8 DEF TkInv, SleepExact
  <2> QED
    BY <2>1, <2>2
<1>2. ASSUME NEW p \in Dozers, NEW k \in -1 .. MaxN, Sleep(p, k) PROVE TkInv'
  <2>1. (ticks - ticks) % Modulus = 0
    BY <1>t, Distance
  <2>2. TkTypeOK'
    BY <1>0, <1>t, <1>2 DEF Sleep, TkTypeOK
  <2>3. SinceInv'
    BY <1>0, <1>t, <1>2, <2>1 DEF Sleep, SinceInv, Asked
  <2> QED
    BY <1>t, <1>2, <2>2, <2>3 DEF Sleep, TkInv, SleepExact
<1>3. ASSUME NEW p \in Dozers, Test(p) PROVE TkInv'
  <2>1. NotDue(p) <=> since[p] < n[p]
    BY <1>0, <1>t, <1>3 DEF Test, NotDue, SinceInv, Asked
  <2>2. TkTypeOK' /\ SinceInv'
    BY <1>t, <1>3 DEF Test, TkTypeOK, SinceInv, Asked
  <2> QED
    BY <1>0, <1>t, <1>3, <2>1, <2>2 DEF Test, TkInv, SleepExact
<1>4. ASSUME NEW p \in Dozers, Doze(p) PROVE TkInv'
  BY <1>t, <1>4 DEF Doze, TkInv, SleepExact, TkTypeOK, SinceInv, Asked
<1>5. ASSUME NEW p \in Dozers, BackToUser(p) PROVE TkInv'
  <2>1. TkTypeOK'
    BY <1>0, <1>t, <1>5 DEF BackToUser, TkTypeOK
  <2> QED
    BY <1>t, <1>5, <2>1 DEF BackToUser, TkInv, SleepExact, SinceInv, Asked
<1>6. ASSUME NEW p \in Dozers, KillDozer(p) PROVE TkInv'
  <2>1. TkTypeOK' /\ SinceInv'
    BY <1>t, <1>6 DEF KillDozer, TkTypeOK, SinceInv, Asked
  <2> QED
    BY <1>t, <1>6, <2>1 DEF KillDozer, TkInv, SleepExact
<1>7. ASSUME NEW p \in Dozers, UnfreezeDozer(p) PROVE TkInv'
  BY <1>t, <1>7 DEF UnfreezeDozer, TkInv, SleepExact, TkTypeOK, SinceInv, Asked
<1>8. CASE UNCHANGED tkVars
  BY <1>t, <1>8 DEF tkVars, TkInv, SleepExact, TkTypeOK, SinceInv, Asked
<1> QED
  BY <1>1, <1>2, <1>3, <1>4, <1>5, <1>6, <1>7, <1>8 DEF TkNext

\* Whoever leaves sys_sleep() unkilled has let n ticks of hart 0 go by, and
\* nobody sleeps past its n ticks, across the wrap of the counter, for every
\* width of it and every n that fits a signed argument.
THEOREM SleepIsExact == TkSpec => []SleepExact
<1>1. TkInv => SleepExact
  BY DEF TkInv
<1> QED
  BY <1>1, TkInvInit, TkInvStep, PTL DEF TkSpec
=============================================================================
