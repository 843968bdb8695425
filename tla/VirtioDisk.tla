----------------------------- MODULE VirtioDisk -----------------------------
(***************************************************************************)
(* The driver of kernel/virtio_disk.c against a device that serves the     *)
(* requests in any order: descriptors, the available ring, the used ring   *)
(* and the completion interrupt.                                           *)
(*                                                                         *)
(* A section under vdisk_lock is one step, but for virtio_disk_intr():     *)
(* the device goes on while it runs.  Each process has one request at a    *)
(* time, for the buffer whose sleep lock it holds; the buffer bears the    *)
(* name of the process.  The ring indices have IdxWidth bits and wrap.  A  *)
(* ring entry that has been read is forgotten, and would show if it were   *)
(* read again.                                                             *)
(***************************************************************************)
EXTENDS Naturals, FiniteSets, FiniteSetsExt

CONSTANTS
  Requesters, NoRequester,
  NUM,              \* descriptors
  IdxWidth          \* bits of the ring indices (16)

Descs == 0 .. NUM - 1
IdxMod == 2 ^ IdxWidth
Unused == NUM               \* a ring entry that has been read

\* NUM is a power of two, so the indices wrap at a multiple of it.
ASSUME VdAssumption ==
  /\ NUM \in Nat \ {0} /\ IdxWidth \in Nat /\ IdxMod \in Nat
  /\ NUM <= IdxMod /\ IdxMod % NUM = 0 /\ NoRequester \notin Requesters

VARIABLES
  free,                       \* disk.free
  next,                       \* desc[i].next
  info, status,               \* disk.info[id].b and .status
  avail, availIdx,            \* the available ring
  used, usedIdx,              \* the used ring, written by the device
  used_idx,                   \* disk.used_idx: how far the driver has looked
  seenIdx, taken,             \* the device: how far it has looked; heads in work
  irq,                        \* the interrupt line
  handling,                   \* virtio_disk_intr() runs and holds vdisk_lock
  waits,                      \* where each process is
  head,                       \* idx[0]
  busy,                       \* b->disk
  served                      \* the device has moved b's data (history)

vdVars == <<free, next, info, status, avail, availIdx, used, usedIdx, used_idx,
            seenIdx, taken, irq, handling, waits, head, busy, served>>
devVars == <<used, usedIdx, seenIdx, taken, irq>>

\* virtio_disk_init()
VdInit ==
  /\ free = Descs
  /\ next = [d \in Descs |-> 0]
  /\ info = [d \in Descs |-> NoRequester]
  /\ status = [d \in Descs |-> 0]
  /\ avail = [k \in Descs |-> Unused] /\ availIdx = 0
  /\ used = [k \in Descs |-> Unused] /\ usedIdx = 0 /\ used_idx = 0
  /\ seenIdx = 0 /\ taken = {}
  /\ irq = FALSE /\ handling = "no"
  /\ waits = [p \in Requesters |-> "out"]
  /\ head = [p \in Requesters |-> 0]
  /\ busy = [p \in Requesters |-> FALSE]
  /\ served = [p \in Requesters |-> FALSE]

\* alloc_desc() three times: the lowest that are free
First == Min(free)
Second == Min(free \ {First})
Third == Min(free \ {First, Second})

\* wakeup(&disk.free[0])
FreeWakes(w) == [p \in Requesters |-> IF w[p] = "noDesc" THEN "start" ELSE w[p]]

\* virtio_disk_rw() begins
Request(p) ==
  /\ waits[p] = "out"
  /\ waits' = [waits EXCEPT ![p] = "start"]
  /\ UNCHANGED <<free, next, info, status, avail, availIdx, used_idx, devVars, handling, head, busy, served>>

\* alloc3_desc() fails: what it took it gives back, which wakes whoever waits
NoDescriptors(p) ==
  /\ waits[p] = "start" /\ handling = "no" /\ Cardinality(free) < 3
  /\ waits' = [(IF free = {} THEN waits ELSE FreeWakes(waits)) EXCEPT ![p] = "noDesc"]
  /\ UNCHANGED <<free, next, info, status, avail, availIdx, used_idx, devVars, handling, head, busy, served>>

\* Mutant of Waiting: b->disk is set after the device has been told.
WaitingNot(p) == busy

\* b->disk = 1
Waiting(p) == [busy EXCEPT ![p] = TRUE]

\* it succeeds: fill the chain in, offer its head, tell the device, sleep(b)
Submit(p) ==
  /\ waits[p] = "start" /\ handling = "no" /\ Cardinality(free) >= 3
  /\ free' = free \ {First, Second, Third}
  /\ next' = [next EXCEPT ![First] = Second, ![Second] = Third, ![Third] = 0]
  /\ info' = [info EXCEPT ![First] = p]
  /\ status' = [status EXCEPT ![First] = 255]
  /\ busy' = Waiting(p)
  /\ avail' = [avail EXCEPT ![availIdx % NUM] = First]
  /\ availIdx' = (availIdx + 1) % IdxMod
  /\ head' = [head EXCEPT ![p] = First]
  /\ waits' = [waits EXCEPT ![p] = IF busy'[p] THEN "asleep" ELSE "woken"]
  /\ UNCHANGED <<used_idx, devVars, handling, served>>

\* Mutant of Chain: only the head is freed.
ChainHead(d) == {d}

\* the descriptors free_chain() follows
Chain(d) == {d, next[d], next[next[d]]}

\* b->disk is 0: free_chain(), return; or sleep again
Finish(p) ==
  /\ waits[p] = "woken" /\ handling = "no"
  /\ IF busy[p]
     THEN waits' = [waits EXCEPT ![p] = "asleep"] /\ UNCHANGED <<free, next, info, head, served>>
     ELSE /\ info' = [info EXCEPT ![head[p]] = NoRequester]
          /\ free' = free \cup Chain(head[p])
          /\ next' = [d \in Descs |-> IF d \in Chain(head[p]) THEN 0 ELSE next[d]]
          /\ head' = [head EXCEPT ![p] = 0] /\ served' = [served EXCEPT ![p] = FALSE]
          /\ waits' = [FreeWakes(waits) EXCEPT ![p] = "out"]
  /\ UNCHANGED <<status, avail, availIdx, used_idx, devVars, handling, busy>>

\* kill() or unfreeze() wakes a sleeper
RouseRequester(p) ==
  /\ waits[p] \in {"asleep", "noDesc"}
  /\ waits' = [waits EXCEPT ![p] = IF @ = "asleep" THEN "woken" ELSE "start"]
  /\ UNCHANGED <<free, next, info, status, avail, availIdx, used_idx, devVars, handling, head, busy, served>>

(***************************************************************************)
(* The device.                                                             *)
(***************************************************************************)
DevTake ==
  /\ seenIdx # availIdx
  /\ taken' = taken \cup {avail[seenIdx % NUM]}
  /\ avail' = [avail EXCEPT ![seenIdx % NUM] = Unused]
  /\ seenIdx' = (seenIdx + 1) % IdxMod
  /\ UNCHANGED <<free, next, info, status, availIdx, used, usedIdx, used_idx,
                 irq, handling, waits, head, busy, served>>

\* the data of the request is moved and its head put on the used ring
DevComplete(d) ==
  /\ d \in taken
  /\ taken' = taken \ {d}
  /\ status' = [status EXCEPT ![d] = 0]
  /\ served' = IF info[d] = NoRequester THEN served ELSE [served EXCEPT ![info[d]] = TRUE]
  /\ used' = [used EXCEPT ![usedIdx % NUM] = d]
  /\ usedIdx' = (usedIdx + 1) % IdxMod
  /\ irq' = TRUE
  /\ UNCHANGED <<free, next, info, avail, availIdx, used_idx, seenIdx, handling, waits, head, busy>>

(***************************************************************************)
(* virtio_disk_intr()                                                      *)
(***************************************************************************)
\* Mutant of AckEarly: the interrupt is acknowledged after the loop.
AckLate == FALSE

\* the acknowledgement comes before the loop, and so before the entries that
\* the device adds during it
AckEarly == TRUE

IntrStart ==
  /\ irq /\ handling = "no"
  /\ handling' = "loop" /\ irq' = (irq /\ ~AckEarly)
  /\ UNCHANGED <<free, next, info, status, avail, availIdx, used, usedIdx, used_idx,
                 seenIdx, taken, waits, head, busy, served>>

\* one round: b->disk = 0, wakeup(b)
IntrLoop ==
  /\ handling = "loop" /\ used_idx # usedIdx
  /\ LET b == info[used[used_idx % NUM]]
     IN /\ busy' = [busy EXCEPT ![b] = FALSE]
        /\ waits' = [waits EXCEPT ![b] = IF @ = "asleep" THEN "woken" ELSE @]
  /\ used' = [used EXCEPT ![used_idx % NUM] = Unused]
  /\ used_idx' = (used_idx + 1) % IdxMod
  /\ UNCHANGED <<free, next, info, status, avail, availIdx, usedIdx, seenIdx, taken, irq,
                 handling, head, served>>

\* the loop condition is false ...
IntrLast ==
  /\ handling = "loop" /\ used_idx = usedIdx
  /\ handling' = "last"
  /\ UNCHANGED <<free, next, info, status, avail, availIdx, used_idx, devVars, waits, head, busy, served>>

\* ... and the lock is released
IntrEnd ==
  /\ handling = "last"
  /\ handling' = "no" /\ irq' = (irq /\ AckEarly)
  /\ UNCHANGED <<free, next, info, status, avail, availIdx, used, usedIdx, used_idx,
                 seenIdx, taken, waits, head, busy, served>>

VdNext ==
  \/ \E p \in Requesters : Request(p) \/ NoDescriptors(p) \/ Submit(p) \/ Finish(p) \/ RouseRequester(p)
  \/ DevTake \/ \E d \in Descs : DevComplete(d)
  \/ IntrStart \/ IntrLoop \/ IntrLast \/ IntrEnd

\* The device answers, its interrupt is taken, and a process that is awake gets
\* vdisk_lock in the end.
VdFairness ==
  /\ WF_vdVars(DevTake) /\ \A d \in Descs : WF_vdVars(DevComplete(d))
  /\ WF_vdVars(IntrStart) /\ WF_vdVars(IntrLoop \/ IntrLast \/ IntrEnd)
  /\ \A p \in Requesters : SF_vdVars(Submit(p) \/ Finish(p))

VdSpec == VdInit /\ [][VdNext]_vdVars /\ VdFairness

(***************************************************************************)
(* Properties.                                                             *)
(***************************************************************************)
\* Every variable has its type.
VdTypeOK ==
  /\ free \subseteq Descs /\ next \in [Descs -> Descs]
  /\ info \in [Descs -> Requesters \cup {NoRequester}]
  /\ status \in [Descs -> {0, 255}]
  /\ avail \in [Descs -> 0 .. Unused] /\ used \in [Descs -> 0 .. Unused]
  /\ {availIdx, usedIdx, used_idx, seenIdx} \subseteq 0 .. IdxMod - 1
  /\ taken \subseteq Descs \cup {Unused} /\ irq \in BOOLEAN /\ handling \in {"no", "loop", "last"}
  /\ waits \in [Requesters -> {"out", "start", "noDesc", "asleep", "woken"}]
  /\ head \in [Requesters -> Descs]
  /\ busy \in [Requesters -> BOOLEAN] /\ served \in [Requesters -> BOOLEAN]

InFlight == {p \in Requesters : waits[p] \in {"asleep", "woken"}}

\* Requests keep apart: the chains of requests in flight are disjoint, and they
\* and the free descriptors make up all there are, so nothing leaks and
\* free_desc() finds nothing free already.  A request is over only when the
\* device has moved its data.  What virtio_disk_intr() finds on the used ring is
\* a finished request whose process still waits: it neither panics nor touches
\* a buffer that is gone.
RequestsApart ==
  /\ VdTypeOK
  /\ (UNION {Chain(head[p]) : p \in InFlight}) \cup free = Descs
  /\ \A p \in InFlight :
       /\ Cardinality(Chain(head[p])) = 3 /\ Chain(head[p]) \cap free = {}
       /\ \A q \in InFlight \ {p} : Chain(head[p]) \cap Chain(head[q]) = {}
       /\ info[head[p]] = p /\ (~busy[p] => served[p])
  /\ used_idx # usedIdx =>
       LET d == used[used_idx % NUM]
       IN status[d] = 0 /\ info[d] \in InFlight /\ busy[info[d]]

\* Every request that was handed to the device comes back: no completion is lost
\* between the end of the handler's loop and the next interrupt.  And whoever
\* finds no descriptors sees a request go out: the waiters that wake each other
\* in alloc3_desc() do not keep the disk idle.
RequestReturns ==
  /\ \A p \in Requesters : waits[p] = "asleep" ~> waits[p] = "out"
  /\ (\E p \in Requesters : waits[p] \in {"start", "noDesc"}) ~> InFlight # {}
=============================================================================
