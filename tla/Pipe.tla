-------------------------------- MODULE Pipe --------------------------------
(***************************************************************************)
(* kernel/pipe.c: one pipe, from pipealloc() to the kfree() in             *)
(* pipeclose(), shared by several readers and writers.                     *)
(*                                                                         *)
(* nread and nwrite count for ever in CtrWidth bits.  pi->lock is a        *)
(* variable, because kill() does not take it: a process may be killed      *)
(* between two bytes of a write and between the test of killed() and the   *)
(* sleep.  Each process has one descriptor and closes it once.             *)
(***************************************************************************)
EXTENDS Naturals, Sequences

CONSTANTS
  Readers, Writers,
  NoUser,           \* nobody holds pi->lock
  PIPESIZE,
  CtrWidth,         \* bits of nread and nwrite (32)
  MaxRW             \* bound: the longest read or write

CtrMod == 2 ^ CtrWidth
Bytes == 0 .. MaxRW
PipeUsers == Readers \cup Writers

\* The counters can tell a full pipe from an empty one, and wrap where the ring does
\* (512 divides 2^32).  A process has one end.
ASSUME PipeAssumption ==
  /\ CtrWidth \in Nat /\ CtrMod \in Nat /\ PIPESIZE \in Nat \ {0} /\ MaxRW \in Nat
  /\ PIPESIZE < CtrMod /\ CtrMod % PIPESIZE = 0
  /\ Readers \cap Writers = {} /\ NoUser \notin PipeUsers

VARIABLES
  nread, nwrite, data, readopen, writeopen,   \* struct pipe
  pilock,           \* who holds pi->lock
  freed,            \* kfree((char*)pi)
  step,             \* where each process is
  todo,             \* bytes it has still to read or write (n - i)
  killed,
  open,             \* it has its descriptor
  hushed            \* bytes were left without a wakeup(&pi->nread) (history)

pipeVars == <<nread, nwrite, data, readopen, writeopen, pilock, freed,
              step, todo, killed, open, hushed>>
ringVars == <<nread, nwrite, data>>
endVars == <<readopen, writeopen, freed, open>>

\* pipealloc()
PipeInit ==
  /\ nread = 0 /\ nwrite = 0 /\ data = [k \in 0 .. PIPESIZE - 1 |-> 0]
  /\ readopen = TRUE /\ writeopen = TRUE
  /\ pilock = NoUser /\ freed = FALSE /\ hushed = FALSE
  /\ step = [u \in PipeUsers |-> "user"]
  /\ todo = [u \in PipeUsers |-> 0]
  /\ killed = [u \in PipeUsers |-> FALSE]
  /\ open = [u \in PipeUsers |-> TRUE]

\* bytes in the pipe
Used == (nwrite - nread + CtrMod) % CtrMod

\* Mutant of Full: one slot too many.
FullLate == nwrite = (nread + PIPESIZE + 1) % CtrMod

\* pi->nwrite == pi->nread + PIPESIZE
Full == nwrite = (nread + PIPESIZE) % CtrMod

Empty == nread = nwrite

\* wakeup() of the sleepers among us; from = step with the caller's own move
PipeWake(us, from) == [u \in PipeUsers |-> IF u \in us /\ from[u] = "asleep" THEN "woken" ELSE from[u]]

\* read() or write() reaches piperead() or pipewrite()
PipeCall(u, n) ==
  /\ step[u] = "user" /\ open[u] /\ ~killed[u]
  /\ step' = [step EXCEPT ![u] = "lock"]
  /\ todo' = [todo EXCEPT ![u] = n]
  /\ UNCHANGED <<ringVars, endVars, pilock, killed, hushed>>

\* acquire(&pi->lock), at the start or at the end of sleep()
PipeLock(u) ==
  /\ step[u] \in {"lock", "woken"} /\ pilock = NoUser
  /\ pilock' = u
  /\ step' = [step EXCEPT ![u] = "loop"]
  /\ UNCHANGED <<ringVars, endVars, todo, killed, hushed>>

\* leave with the lock released
PipeLeave(u, from) == pilock' = NoUser /\ step' = [from EXCEPT ![u] = "user"]

\* pipewrite(): the reader is gone or the writer is killed: -1, and no wakeup
WriteQuit(w) ==
  /\ pilock = w /\ step[w] = "loop" /\ todo[w] > 0
  /\ ~readopen \/ killed[w]
  /\ PipeLeave(w, step)
  /\ todo' = [todo EXCEPT ![w] = 0]
  /\ hushed' = (hushed \/ ~Empty)
  /\ UNCHANGED <<ringVars, endVars, killed>>

\* it may go on: the pipe is full or not
WriteGo(w) ==
  /\ pilock = w /\ step[w] = "loop" /\ todo[w] > 0
  /\ readopen /\ ~killed[w]
  /\ step' = [step EXCEPT ![w] = "byte"]
  /\ UNCHANGED <<ringVars, endVars, pilock, todo, killed, hushed>>

\* wakeup(&pi->nread)
FullWakes(w) == PipeWake(Readers, [step EXCEPT ![w] = "asleep"])

\* the pipe is full: wakeup(&pi->nread), sleep(&pi->nwrite)
WriteFull(w) ==
  /\ pilock = w /\ step[w] = "byte" /\ Full
  /\ pilock' = NoUser /\ step' = FullWakes(w) /\ hushed' = FALSE
  /\ UNCHANGED <<ringVars, endVars, todo, killed>>

\* one byte; the bytes of a write are numbered, the last one 1
WriteByte(w) ==
  /\ pilock = w /\ step[w] = "byte" /\ ~Full
  /\ data' = [data EXCEPT ![nwrite % PIPESIZE] = todo[w]]
  /\ nwrite' = (nwrite + 1) % CtrMod
  /\ todo' = [todo EXCEPT ![w] = @ - 1]
  /\ step' = [step EXCEPT ![w] = "loop"]
  /\ UNCHANGED <<nread, endVars, pilock, killed, hushed>>

\* everything is written, or copyin() failed: wakeup(&pi->nread), return i
WriteDone(w) ==
  /\ pilock = w
  /\ \/ step[w] = "loop" /\ todo[w] = 0
     \/ step[w] = "byte" /\ ~Full
  /\ PipeLeave(w, PipeWake(Readers, step)) /\ hushed' = FALSE
  /\ todo' = [todo EXCEPT ![w] = 0]
  /\ UNCHANGED <<ringVars, endVars, killed>>

\* piperead(): nothing there, and more may come: -1 when killed, or sleep
ReadWait(r) ==
  /\ pilock = r /\ step[r] = "loop" /\ Empty /\ writeopen
  /\ IF killed[r]
     THEN PipeLeave(r, step) /\ todo' = [todo EXCEPT ![r] = 0]
     ELSE step' = [step EXCEPT ![r] = "sleep"] /\ UNCHANGED <<pilock, todo>>
  /\ UNCHANGED <<ringVars, endVars, killed, hushed>>

\* sleep(&pi->nread, &pi->lock)
ReadSleep(r) ==
  /\ pilock = r /\ step[r] = "sleep"
  /\ pilock' = NoUser /\ step' = [step EXCEPT ![r] = "asleep"]
  /\ UNCHANGED <<ringVars, endVars, todo, killed, hushed>>

\* Mutant of TakeWakes: the sleeping writers are not told.
TakeWakesNobody == step

\* wakeup(&pi->nwrite)
TakeWakes == PipeWake(Writers, step)

\* the copy loop: k bytes leave the pipe, of which the last is lost when its
\* copyout() failed.  The number returned is k, or k - 1; 0 at end of file.
\* What is left behind in data[] is never read again, and is 0 here.
ReadCopy(r, k) ==
  /\ pilock = r /\ step[r] = "loop" /\ ~(Empty /\ writeopen)
  /\ k <= Used /\ k <= todo[r]
  /\ k = 0 => Empty \/ todo[r] = 0
  /\ nread' = (nread + k) % CtrMod
  /\ data' = [i \in 0 .. PIPESIZE - 1 |-> IF i \in {(nread + j) % PIPESIZE : j \in 0 .. k - 1} THEN 0 ELSE data[i]]
  /\ PipeLeave(r, TakeWakes)
  /\ todo' = [todo EXCEPT ![r] = 0]
  /\ UNCHANGED <<nwrite, endVars, killed, hushed>>

\* fileclose() of u's descriptor; the last of its end calls pipeclose().  The model
\* follows u no further.
LastOf(u, us) == u \in us /\ \A v \in us \ {u} : ~open[v]

PipeClose(u) ==
  /\ step[u] = "user" /\ open[u] /\ pilock = NoUser
  /\ open' = [open EXCEPT ![u] = FALSE]
  /\ writeopen' = (writeopen /\ ~LastOf(u, Writers))
  /\ readopen' = (readopen /\ ~LastOf(u, Readers))
  /\ freed' = (~writeopen' /\ ~readopen')
  /\ step' = IF LastOf(u, Writers) THEN PipeWake(Readers, step)
             ELSE IF LastOf(u, Readers) THEN PipeWake(Writers, step) ELSE step
  /\ hushed' = (hushed /\ ~LastOf(u, Writers))
  /\ killed' = [killed EXCEPT ![u] = FALSE]
  /\ UNCHANGED <<ringVars, pilock, todo>>

\* kill() by someone else; a killed process closes its descriptor when it exits
KillUser(u) ==
  /\ ~killed[u] /\ open[u]
  /\ killed' = [killed EXCEPT ![u] = TRUE]
  /\ step' = IF step[u] = "asleep" THEN [step EXCEPT ![u] = "woken"] ELSE step
  /\ UNCHANGED <<ringVars, endVars, pilock, todo, hushed>>

\* unfreeze() wakes a sleeper for nothing
RouseUser(u) ==
  /\ step[u] = "asleep"
  /\ step' = [step EXCEPT ![u] = "woken"]
  /\ UNCHANGED <<ringVars, endVars, pilock, todo, killed, hushed>>

PipeNext ==
  \/ \E u \in PipeUsers : \/ \E n \in 0 .. MaxRW : PipeCall(u, n)
                      \/ PipeLock(u) \/ PipeClose(u) \/ KillUser(u) \/ RouseUser(u)
  \/ \E w \in Writers : \/ WriteQuit(w) \/ WriteGo(w) \/ WriteFull(w) \/ WriteByte(w)
                        \/ WriteDone(w)
  \/ \E r \in Readers : \/ ReadWait(r) \/ ReadSleep(r)
                        \/ \E k \in 0 .. PIPESIZE : ReadCopy(r, k)

PipeSpec == PipeInit /\ [][PipeNext]_pipeVars

(***************************************************************************)
(* Properties.                                                             *)
(***************************************************************************)
\* Every variable has its type.
PipeTypeOK ==
  /\ nread \in 0 .. CtrMod - 1 /\ nwrite \in 0 .. CtrMod - 1
  /\ data \in [0 .. PIPESIZE - 1 -> Bytes]
  /\ pilock \in PipeUsers \cup {NoUser}
  /\ step \in [PipeUsers -> {"user", "lock", "loop", "byte", "sleep", "asleep", "woken"}]
  /\ todo \in [PipeUsers -> 0 .. MaxRW]
  /\ {readopen, writeopen, freed, hushed} \subseteq BOOLEAN
  /\ killed \in [PipeUsers -> BOOLEAN] /\ open \in [PipeUsers -> BOOLEAN]

\* the bytes between nread and nwrite, oldest first
Contents == [k \in 1 .. Used |-> data[(nread + k - 1) % PIPESIZE]]

Fifo == INSTANCE PipeFifo WITH
  Capacity <- PIPESIZE, queue <- Contents, readable <- readopen, writable <- writeopen

\* The ring is a first-in first-out queue of PIPESIZE bytes, across the wrap of
\* its two counters; nothing is written after the last reader has closed, nor
\* by anyone after the last writer has.
ImplementsFifo == Fifo!FifoSpec

\* When nobody is inside, a writer sleeps only on a full pipe with a reader, and
\* a reader only on an empty pipe with a writer: no close, no read and no write
\* forgets to wake the other side.  One thing does: a writer that is killed
\* between two bytes returns without wakeup(&pi->nread) and may leave a reader
\* asleep beside its bytes.  The pipe is not freed under anyone.
PipeWakeups ==
  /\ PipeTypeOK
  /\ pilock = NoUser => \A u \in PipeUsers : step[u] = "asleep" =>
       IF u \in Writers THEN Full /\ readopen ELSE writeopen /\ (Empty \/ hushed)
  /\ freed => \A u \in PipeUsers : step[u] = "user"
=============================================================================
