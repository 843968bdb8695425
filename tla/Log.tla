-------------------------------- MODULE Log ---------------------------------
(***************************************************************************)
(* The write-ahead log of kernel/log.c over the blocks of kernel/bio.c:    *)
(* begin_op, log_write, end_op with its group commit, crashes at any       *)
(* point, and recovery at the next boot, which may crash as well.          *)
(*                                                                         *)
(* A section under log.lock is one step.  commit() runs without a lock,    *)
(* one step for every disk write; a disk write of one block is atomic.     *)
(***************************************************************************)
EXTENDS Integers, Sequences, FiniteSets

CONSTANTS
  Procs, Blocks, Vals,
  LOGSIZE,        \* entries of the in-memory header
  MAXOPBLOCKS,    \* blocks one call may write
  nlog,           \* log.size: blocks mkfs gave the log, its header included
  MaxOps,         \* bound of the model: calls made between two crashes
  MaxCrashes      \* bound of the model

ASSUME LogAssumption ==
  /\ LOGSIZE \in Nat /\ MAXOPBLOCKS \in Nat \ {0} /\ MaxOps \in Nat
  /\ MaxCrashes \in Nat
  /\ nlog \in 1..(LOGSIZE + 1)

VARIABLES
  home, dlog, dhead,        \* the disk: blocks, log blocks, log header
  cache, pinned,            \* buffer contents, and the blocks log.c has pinned
  lh, outstanding, committing,   \* struct log
  stage, tail,              \* where commit() or recovery is
  pc,                       \* where each process is
  wrote,                    \* the blocks its call has written
  ops, crashes              \* counters of the bounds

disk   == <<home, dlog, dhead>>
logmem == <<lh, outstanding, committing>>
vars == <<disk, cache, pinned, logmem, stage, tail, pc, wrote, ops, crashes>>

Logged(head) == {head[i] : i \in DOMAIN head}

Init ==
  /\ home \in [Blocks -> Vals] /\ cache = home
  /\ dlog \in [1..LOGSIZE -> Vals] /\ dhead = <<>>
  /\ pinned = {} /\ lh = <<>> /\ outstanding = 0 /\ committing = FALSE
  /\ stage = "up" /\ tail = 0
  /\ pc = [p \in Procs |-> "idle"] /\ wrote = [p \in Procs |-> {}]
  /\ ops = 0 /\ crashes = 0

\* processes run: fsinit() has recovered the log, and nobody has panicked with
\* log.lock held
Running == stage \notin {"boot", "rinstall", "rclear", "panic"}

\* wakeup(&log)
Woken == [p \in Procs |-> IF pc[p] = "asleep" THEN "begin" ELSE pc[p]]

(***************************************************************************)
(* begin_op(), log_write(), end_op().                                      *)
(***************************************************************************)
MustWait == committing \/ Len(lh) + (outstanding + 1) * MAXOPBLOCKS > LOGSIZE

\* Mutant of Reserve: the call is not counted.
ReserveNothing == UNCHANGED outstanding

Reserve == outstanding' = outstanding + 1

BeginOp(p) ==
  /\ Running
  /\ \/ pc[p] = "idle" /\ ops < MaxOps /\ ops' = ops + 1
     \/ pc[p] = "begin" /\ UNCHANGED ops
  /\ IF MustWait
     THEN /\ pc' = [pc EXCEPT ![p] = "asleep"]
          /\ UNCHANGED outstanding
     ELSE /\ pc' = [pc EXCEPT ![p] = "op"]
          /\ Reserve
  /\ UNCHANGED <<disk, cache, pinned, lh, committing, stage, tail, wrote, crashes>>

\* kill() or unfreeze() of a process that sleeps in begin_op(), which looks again
Rouse(p) ==
  /\ Running /\ pc[p] = "asleep"
  /\ pc' = [pc EXCEPT ![p] = "begin"]
  /\ UNCHANGED <<disk, cache, pinned, logmem, stage, tail, wrote, ops, crashes>>

TooBig == Len(lh) >= LOGSIZE \/ Len(lh) >= nlog - 1

\* Mutant of LogWrite: a block that is already in the log is entered again.
LogWriteTwice(p, b, v) ==
  /\ Running /\ pc[p] = "op"
  /\ Cardinality(wrote[p] \cup {b}) <= MAXOPBLOCKS
  /\ cache' = [cache EXCEPT ![b] = v]
  /\ wrote' = [wrote EXCEPT ![p] = @ \cup {b}]
  /\ IF TooBig
     THEN stage' = "panic" /\ UNCHANGED <<lh, pinned>>
     ELSE /\ lh' = Append(lh, b) /\ pinned' = pinned \cup {b}
          /\ UNCHANGED stage
  /\ UNCHANGED <<disk, outstanding, committing, tail, pc, ops, crashes>>

\* a call changes a buffer it has locked and hands it to log_write(), which
\* enters and pins it unless it is in the log already; the call keeps to its
\* reservation
LogWrite(p, b, v) ==
  /\ Running /\ pc[p] = "op"
  /\ Cardinality(wrote[p] \cup {b}) <= MAXOPBLOCKS
  /\ cache' = [cache EXCEPT ![b] = v]
  /\ wrote' = [wrote EXCEPT ![p] = @ \cup {b}]
  /\ IF TooBig \/ outstanding < 1
     THEN stage' = "panic" /\ UNCHANGED <<lh, pinned>>
     ELSE /\ IF b \in Logged(lh)
             THEN UNCHANGED <<lh, pinned>>
             ELSE lh' = Append(lh, b) /\ pinned' = pinned \cup {b}
          /\ UNCHANGED stage
  /\ UNCHANGED <<disk, outstanding, committing, tail, pc, ops, crashes>>

EndOp(p) ==
  /\ Running /\ pc[p] = "op"
  /\ outstanding' = outstanding - 1
  /\ wrote' = [wrote EXCEPT ![p] = {}]
  /\ \/ /\ outstanding = 1
        /\ committing' = TRUE
        /\ pc' = [pc EXCEPT ![p] = "commit"]
        /\ stage' = IF committing THEN "panic"
                    ELSE IF Len(lh) > 0 THEN "wlog" ELSE "done"
        /\ tail' = 0
     \/ /\ outstanding # 1
        /\ pc' = [Woken EXCEPT ![p] = "idle"]
        /\ stage' = IF committing THEN "panic" ELSE stage
        /\ UNCHANGED <<committing, tail>>
  /\ UNCHANGED <<disk, cache, pinned, lh, ops, crashes>>

(***************************************************************************)
(* commit(): write_log(), write_head(), install_trans(0), write_head().    *)
(***************************************************************************)
\* the loops over the header: one more block, then on to the next stage
Step(next) ==
  IF tail + 1 < Len(lh) THEN tail' = tail + 1 /\ UNCHANGED stage
                        ELSE tail' = 0 /\ stage' = next

WriteLog ==
  /\ stage = "wlog"
  /\ dlog' = [dlog EXCEPT ![tail + 1] = cache[lh[tail + 1]]]
  /\ Step("head")
  /\ UNCHANGED <<home, dhead, cache, pinned, logmem, pc, wrote, ops, crashes>>

\* the commit point
WriteHead ==
  /\ stage = "head"
  /\ dhead' = lh
  /\ stage' = "install"
  /\ UNCHANGED <<home, dlog, cache, pinned, logmem, tail, pc, wrote, ops, crashes>>

\* one block of install_trans(): from the log to its home, through the cache
InstallBlock(b) ==
  /\ home' = [home EXCEPT ![b] = dlog[tail + 1]]
  /\ cache' = [cache EXCEPT ![b] = dlog[tail + 1]]

InstallTrans ==
  /\ stage = "install"
  /\ InstallBlock(lh[tail + 1])
  /\ pinned' = pinned \ {lh[tail + 1]}
  /\ Step("clear")
  /\ UNCHANGED <<dlog, dhead, logmem, pc, wrote, ops, crashes>>

\* log.lh.n = 0; write_head()
ClearLog(from, to) ==
  /\ stage = from
  /\ lh' = <<>> /\ dhead' = <<>>
  /\ stage' = to
  /\ UNCHANGED <<home, dlog, cache, pinned, outstanding, committing, tail, pc,
                 wrote, ops, crashes>>

\* Mutant of CommitDone: those who wait in begin_op() are not woken.
CommitDoneQuiet(p) ==
  /\ stage = "done" /\ pc[p] = "commit"
  /\ committing' = FALSE
  /\ pc' = [pc EXCEPT ![p] = "idle"]
  /\ stage' = "up"
  /\ UNCHANGED <<disk, cache, pinned, lh, outstanding, tail, wrote, ops, crashes>>

CommitDone(p) ==
  /\ stage = "done" /\ pc[p] = "commit"
  /\ committing' = FALSE
  /\ pc' = [Woken EXCEPT ![p] = "idle"]
  /\ stage' = "up"
  /\ UNCHANGED <<disk, cache, pinned, lh, outstanding, tail, wrote, ops, crashes>>

(***************************************************************************)
(* bread() after the buffer of an unpinned block was recycled by bget().   *)
(***************************************************************************)
Refetch(b) ==
  /\ Running /\ b \notin pinned
  /\ cache' = [cache EXCEPT ![b] = home[b]]
  /\ UNCHANGED <<disk, pinned, logmem, stage, tail, pc, wrote, ops, crashes>>

(***************************************************************************)
(* A crash loses the memory; initlog() recovers.                           *)
(***************************************************************************)
Crash ==
  /\ crashes < MaxCrashes /\ crashes' = crashes + 1
  /\ stage' = "boot" /\ tail' = 0
  /\ cache' = home /\ pinned' = {}
  /\ lh' = <<>> /\ outstanding' = 0 /\ committing' = FALSE
  /\ pc' = [p \in Procs |-> "idle"] /\ wrote' = [p \in Procs |-> {}]
  /\ ops' = 0
  /\ UNCHANGED disk

ReadHead ==
  /\ stage = "boot"
  /\ lh' = dhead
  /\ stage' = IF Len(dhead) > 0 THEN "rinstall" ELSE "rclear"
  /\ UNCHANGED <<disk, cache, pinned, outstanding, committing, tail, pc, wrote,
                 ops, crashes>>

\* install_trans(1): nothing is pinned
RecoverTrans ==
  /\ stage = "rinstall"
  /\ InstallBlock(lh[tail + 1])
  /\ Step("rclear")
  /\ UNCHANGED <<dlog, dhead, pinned, logmem, pc, wrote, ops, crashes>>

\* Mutant of Clear: the log is left on the disk after a commit.
ClearInMemory ==
  /\ stage = "clear"
  /\ lh' = <<>> /\ stage' = "done"
  /\ UNCHANGED <<disk, cache, pinned, outstanding, committing, tail, pc, wrote,
                 ops, crashes>>

Clear == ClearLog("clear", "done")
RecoverClear == ClearLog("rclear", "up")

(***************************************************************************)
(* The specification.                                                      *)
(***************************************************************************)
Commit(p) == pc[p] = "commit"
               /\ (WriteLog \/ WriteHead \/ InstallTrans \/ Clear \/ CommitDone(p))

Recover == ReadHead \/ RecoverTrans \/ RecoverClear

Next ==
  \/ \E p \in Procs : BeginOp(p) \/ Rouse(p) \/ EndOp(p) \/ Commit(p)
  \/ \E p \in Procs, b \in Blocks, v \in Vals : LogWrite(p, b, v)
  \/ \E b \in Blocks : Refetch(b)
  \/ Recover \/ Crash

Spec == Init /\ [][Next]_vars

\* A process that is scheduled goes on: it retries begin_op() when woken, its
\* call comes to end_op(), and the commit it has started goes on.
Fairness ==
  /\ WF_vars(Recover)
  /\ \A p \in Procs : WF_vars(pc[p] = "begin" /\ BeginOp(p)) /\ WF_vars(EndOp(p))
                       /\ WF_vars(Commit(p))

FairSpec == Spec /\ Fairness

(***************************************************************************)
(* Properties.                                                             *)
(***************************************************************************)
\* Every variable has its type.
TypeOK ==
  /\ home \in [Blocks -> Vals] /\ cache \in [Blocks -> Vals]
  /\ dlog \in [1..LOGSIZE -> Vals]
  /\ dhead \in Seq(Blocks) /\ lh \in Seq(Blocks)
  /\ pinned \subseteq Blocks
  /\ outstanding \in Nat /\ committing \in BOOLEAN
  /\ stage \in {"up", "wlog", "head", "install", "clear", "done",
                "boot", "rinstall", "rclear", "panic"}
  /\ tail \in Nat
  /\ pc \in [Procs -> {"idle", "begin", "asleep", "op", "commit"}]
  /\ wrote \in [Procs -> SUBSET Blocks]
  /\ ops \in 0..MaxOps /\ crashes \in 0..MaxCrashes

\* The transaction fits the log on the disk, header included, by log_write()'s own
\* test, and enters each block once, so that write_log() overwrites nothing beyond
\* the log and install_trans() unpins each buffer once.
LogFits ==
  /\ Len(lh) <= nlog - 1 /\ Len(dhead) <= nlog - 1
  /\ \A i, j \in DOMAIN lh : lh[i] = lh[j] => i = j

\* what recovery makes of the disk as it is now
Recovered ==
  [b \in Blocks |->
     IF \E i \in DOMAIN dhead : dhead[i] = b
     THEN dlog[CHOOSE i \in DOMAIN dhead : dhead[i] = b]
     ELSE home[b]]

\* The log makes the calls between two commits atomic across crashes:
\* whenever the machine stops, and however often recovery does, the disk comes
\* back with the writes of the calls up to the last commit and no others.
Atomic == INSTANCE LogAtomic WITH
  view <- IF stage \in {"boot", "rinstall", "rclear"} THEN Recovered ELSE cache,
  durable <- Recovered,
  active <- {p \in Procs : pc[p] = "op"}
ImplementsAtomic == Atomic!Spec

\* No caller of begin_op() is left asleep: once the calls before it have ended,
\* the end_op() and the commit that make room have woken it.  (Nothing in the
\* code orders the callers, so the number of calls is finite here: an endless
\* stream of others may take the space each time.)
OpsStart == \A p \in Procs :
  pc[p] \in {"begin", "asleep"} ~> (pc[p] = "op" \/ ~Running)

\* log.c:134, param.h:14: begin_op() waits while the call might exhaust the log
\* and LOGSIZE is the number of data blocks, so a call that keeps to its
\* MAXOPBLOCKS never finds the transaction too big.
ReservationHolds == stage # "panic"
=============================================================================
