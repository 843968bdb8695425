----------------------------- MODULE DiskProofs -----------------------------
(***************************************************************************)
(* The requests to the disk keep apart, for any number of processes and    *)
(* descriptors and any width of the rings' indices.                        *)
(***************************************************************************)
EXTENDS VirtioDisk, RingProofs, FiniteSetTheorems, WellFoundedInduction

(***************************************************************************)
(* The disk.  A chain of descriptors is safe because a request is in one   *)
(* place at a time (RingInv): no ring overflows, as each request on it has *)
(* two more descriptors that are on no ring.                               *)
(***************************************************************************)
\* The entries of a ring from index r up to index w: how many, which, the set of
\* them; and that each is there once, in a ring that has not overflowed.
Pending(w, r) == Dist(IdxMod, w, r)
Entry(ring, r, k) == ring[At(NUM, r, k)]
On(ring, r, w) == {Entry(ring, r, k) : k \in 0 .. Pending(w, r) - 1}
Once(ring, r, w) ==
  /\ Pending(w, r) < NUM
  /\ \A k, j \in 0 .. Pending(w, r) - 1 : Entry(ring, r, k) = Entry(ring, r, j) => k = j

\* The requests that are offered to the device and done by it, and the heads of
\* the chains of all that somebody waits for.
Offered == On(avail, seenIdx, availIdx)
Done == On(used, used_idx, usedIdx)
Heads == {d \in Descs : info[d] \in InFlight /\ busy[info[d]] /\ head[info[d]] = d}

\* A request is in one place, once: on the available ring, in the device or on the
\* used ring; somebody waits for it, and it is complete when it is done.
RingInv ==
  /\ Once(avail, seenIdx, availIdx) /\ Once(used, used_idx, usedIdx)
  /\ Offered \subseteq Heads /\ taken \subseteq Heads /\ Done \subseteq Heads
  /\ Offered \cap taken = {} /\ Offered \cap Done = {} /\ taken \cap Done = {}
  /\ \A d \in Done : status[d] = 0 /\ served[info[d]]

\* The descriptors next links from h on, which are three.
ChainOf(nx, h) == {h, nx[h], nx[nx[h]]}
Three(nx, h) == nx[h] # h /\ nx[nx[h]] # h /\ nx[nx[h]] # nx[h]

\* The chains of the requests F and the free descriptors share out all there are.
Linked(F, fr, nx, inf, hd) ==
  /\ \A d \in Descs \ fr : \E p \in F : d \in ChainOf(nx, hd[p])
  /\ \A p \in F : ChainOf(nx, hd[p]) \cap fr = {} /\ Three(nx, hd[p]) /\ inf[hd[p]] = p
  /\ \A p, q \in F : p # q => ChainOf(nx, hd[p]) \cap ChainOf(nx, hd[q]) = {}

ChainInv ==
  /\ Linked(InFlight, free, next, info, head)
  /\ \A p \in InFlight : ~busy[p] => served[p]

\* VdTypeOK: the descriptors, the device and the handler, the callers.
Places == {"out", "start", "noDesc", "asleep", "woken"}
DescTypes(fr, nx, inf, st) ==
  /\ fr \subseteq Descs /\ nx \in [Descs -> Descs]
  /\ inf \in [Descs -> Requesters \cup {NoRequester}] /\ st \in [Descs -> {0, 255}]
IsRing(ring) == ring \in [Descs -> 0 .. Unused]
IsIdx(r) == r \in 0 .. IdxMod - 1
DevTypes(tk, i, h) == tk \subseteq Descs \cup {Unused} /\ i \in BOOLEAN /\ h \in {"no", "loop", "last"}
CallTypes(w, hd, b, sv) ==
  /\ w \in [Requesters -> Places] /\ hd \in [Requesters -> Descs]
  /\ b \in [Requesters -> BOOLEAN] /\ sv \in [Requesters -> BOOLEAN]
VdTypes ==
  /\ DescTypes(free, next, info, status) /\ IsRing(avail) /\ IsRing(used)
  /\ IsIdx(availIdx) /\ IsIdx(seenIdx) /\ IsIdx(usedIdx) /\ IsIdx(used_idx)
  /\ DevTypes(taken, irq, handling) /\ CallTypes(waits, head, busy, served)

VdInv == VdTypes /\ ChainInv /\ RingInv

(***************************************************************************)
(* Rings.                                                                  *)
(***************************************************************************)
LEMMA VdConstants ==
  /\ NUM \in Nat \ {0} /\ IdxMod \in Nat \ {0} /\ NUM <= IdxMod /\ IdxMod % NUM = 0
BY VdAssumption

LEMMA PendingIs ==
  ASSUME NEW w \in 0 .. IdxMod - 1, NEW r \in 0 .. IdxMod - 1
  PROVE  /\ Pending(w, r) \in 0 .. IdxMod - 1 /\ (Pending(w, r) = 0 <=> w = r)
         /\ w = Moved(IdxMod, r, Pending(w, r))
<1>1. IdxMod \in Nat \ {0}
  BY VdConstants
<1> QED
  BY <1>1, Ahead, Zenon DEF Pending

\* the slot of an index that has advanced, and the slot a ring ends at
LEMMA SlotNext ==
  ASSUME NEW r \in 0 .. IdxMod - 1, NEW k \in Nat
  PROVE  At(NUM, (r + 1) % IdxMod, k) = At(NUM, r, k + 1)
<1>1. PICK x \in Int : x = r + 1
  BY VdConstants
<1>2. ((x % IdxMod) + k) % NUM = (x + k) % NUM
  <2>1. /\ NUM \in Nat \ {0} /\ IdxMod \in Nat \ {0} /\ IdxMod % NUM = 0
        /\ x \in Int /\ k \in Int
    BY VdConstants
  <2> QED
    BY <2>1, Wrap, Zenon
<1>3. x + k = r + (k + 1)
  BY <1>1, VdConstants
<1> QED
  BY <1>1, <1>2, <1>3 DEF At

LEMMA SlotIn ==
  ASSUME NEW r \in 0 .. IdxMod - 1, NEW k \in Nat
  PROVE  At(NUM, r, k) \in Descs
<1>1. NUM \in Nat \ {0} /\ r \in Int /\ k \in Int
  BY VdConstants
<1> QED
  BY <1>1, AtIn, Zenon DEF Descs

LEMMA SlotEnd ==
  ASSUME NEW w \in 0 .. IdxMod - 1, NEW r \in 0 .. IdxMod - 1
  PROVE  w % NUM = At(NUM, r, Pending(w, r))
<1>1. PICK n \in 0 .. IdxMod - 1 : n = Pending(w, r) /\ w = (r + n) % IdxMod
  BY PendingIs DEF Moved
<1>2. PICK x \in Int : x = r + n
  BY <1>1, VdConstants
<1>3. ((x % IdxMod) + 0) % NUM = (x + 0) % NUM
  <2>1. PICK j \in Int : j = 0
    OBVIOUS
  <2>2. ((x % IdxMod) + j) % NUM = (x + j) % NUM
    <3>1. NUM \in Nat \ {0} /\ IdxMod \in Nat \ {0} /\ IdxMod % NUM = 0
      BY VdConstants
    <3> QED
      BY <3>1, Wrap, Zenon
  <2> QED
    BY <2>1, <2>2
<1>4. (x % IdxMod) + 0 = w /\ x + 0 = r + n
  <2>1. w = x % IdxMod /\ w \in Int
    BY <1>1, <1>2, VdConstants
  <2>2. w + 0 = w /\ x + 0 = r + n
    BY <1>2, <2>1
  <2> QED
    BY <2>1, <2>2
<1> QED
  BY <1>1, <1>3, <1>4 DEF At

\* d is put on the ring at index w; the entry at index r is read and forgotten.
Puts(ring, new, w, v, d) == new = [ring EXCEPT ![w % NUM] = d] /\ v = (w + 1) % IdxMod
Gets(ring, new, r, v) == new = [ring EXCEPT ![r % NUM] = Unused] /\ v = (r + 1) % IdxMod

LEMMA RingPut ==
  ASSUME NEW ring, IsRing(ring), NEW d \in Descs, NEW w, IsIdx(w), NEW r, IsIdx(r),
         Once(ring, r, w), Pending(w, r) + 1 < NUM, d \notin On(ring, r, w),
         NEW new, NEW v, Puts(ring, new, w, v, d)
  PROVE  /\ IsRing(new) /\ IsIdx(v)
         /\ Once(new, r, v) /\ On(new, r, v) = On(ring, r, w) \cup {d}
<1>0. /\ ring \in [Descs -> 0 .. Unused] /\ w \in 0 .. IdxMod - 1 /\ r \in 0 .. IdxMod - 1
      /\ new = [ring EXCEPT ![w % NUM] = d] /\ v = (w + 1) % IdxMod
  BY DEF IsRing, IsIdx, Puts
<1>1. PICK n \in Nat : n = Pending(w, r) /\ n + 1 < NUM
  BY <1>0, PendingIs
<1>2. w % NUM = At(NUM, r, n)
  BY <1>0, <1>1, SlotEnd
<1>3. \A k \in 0 .. n : At(NUM, r, k) \in Descs
  BY <1>0, SlotIn
<1>4. \A k \in 0 .. n - 1 : At(NUM, r, k) # At(NUM, r, n)
  <2> SUFFICES ASSUME NEW k \in 0 .. n - 1 PROVE At(NUM, r, k) # At(NUM, r, n)
    OBVIOUS
  <2>1. k \in 0 .. NUM - 1 /\ n \in 0 .. NUM - 1 /\ k # n /\ r \in Int /\ NUM \in Nat \ {0}
    BY <1>0, <1>1, VdConstants
  <2> QED
    BY <2>1, AtApart
<1>5. new \in [Descs -> 0 .. Unused]
  BY <1>0, VdConstants DEF Descs, Unused
<1>6. \A k \in 0 .. n - 1 : Entry(new, r, k) = Entry(ring, r, k)
  BY <1>0, <1>2, <1>3, <1>4 DEF Entry
<1>7. Entry(new, r, n) = d
  BY <1>0, <1>1, <1>2, <1>3 DEF Entry
<1>8. v \in 0 .. IdxMod - 1 /\ Pending(v, r) = n + 1
  <2>1. Dist(IdxMod, w, r) + 1 < IdxMod
    BY <1>1, VdConstants DEF Pending
  <2>2. Moved(IdxMod, w, 1) \in 0 .. IdxMod - 1 /\ Pending(Moved(IdxMod, w, 1), r) = n + 1
    BY <1>0, <1>1, <2>1, VdConstants, MoveEnd DEF Pending
  <2> QED
    BY <1>0, <2>2 DEF Moved
<1>9. \A k \in 0 .. n - 1 : Entry(ring, r, k) # d
  BY <1>1 DEF On
<1>10. \A k, j \in 0 .. n - 1 : Entry(ring, r, k) = Entry(ring, r, j) => k = j
  BY <1>1 DEF Once
<1>11. /\ (n + 1) - 1 = n /\ n \in 0 .. n /\ \A k \in 0 .. n - 1 : k \in 0 .. n
       /\ \A k \in 0 .. n : k = n \/ k \in 0 .. n - 1
  BY <1>1
<1>12. Once(new, r, v)
  <2>1. \A k, j \in 0 .. n : Entry(new, r, k) = Entry(new, r, j) => k = j
    BY <1>6, <1>7, <1>9, <1>10, <1>11
  <2> QED
    BY <1>1, <1>8, <1>11, <2>1 DEF Once
<1>13. On(ring, r, w) = {Entry(ring, r, k) : k \in 0 .. n - 1}
  BY <1>1 DEF On
<1>14. On(new, r, v) = {Entry(new, r, k) : k \in 0 .. n}
  BY <1>8, <1>11 DEF On
<1>15. On(new, r, v) = On(ring, r, w) \cup {d}
  BY <1>6, <1>7, <1>11, <1>13, <1>14
<1> QED
  BY <1>5, <1>8, <1>12, <1>15 DEF IsRing, IsIdx

LEMMA RingGet ==
  ASSUME NEW ring, IsRing(ring), NEW w, IsIdx(w), NEW r, IsIdx(r), w # r,
         Once(ring, r, w), NEW new, NEW v, Gets(ring, new, r, v)
  PROVE  /\ IsRing(new) /\ IsIdx(v) /\ Once(new, v, w)
         /\ ring[r % NUM] \in On(ring, r, w)
         /\ On(new, v, w) = On(ring, r, w) \ {ring[r % NUM]}
<1>0. /\ ring \in [Descs -> 0 .. Unused] /\ w \in 0 .. IdxMod - 1 /\ r \in 0 .. IdxMod - 1
      /\ new = [ring EXCEPT ![r % NUM] = Unused] /\ v = (r + 1) % IdxMod
  BY DEF IsRing, IsIdx, Gets
<1>1. PICK n \in Nat \ {0} : n = Pending(w, r) /\ n < NUM
  BY <1>0, PendingIs DEF Once
<1>2. r % NUM = At(NUM, r, 0)
  BY <1>0, VdConstants DEF At
<1>3. \A k \in 0 .. n - 1 : At(NUM, r, k) \in Descs
  BY <1>0, SlotIn
<1>4. ASSUME NEW k \in 1 .. n - 1 PROVE At(NUM, r, k) # At(NUM, r, 0)
  <2>1. k \in 0 .. NUM - 1 /\ 0 \in 0 .. NUM - 1 /\ k # 0 /\ r \in Int /\ NUM \in Nat \ {0}
    BY <1>0, <1>1, VdConstants
  <2> QED
    BY <2>1, AtApart
<1>5. new \in [Descs -> 0 .. Unused]
  <2>1. Unused \in 0 .. Unused
    BY VdConstants DEF Unused
  <2> QED
    BY <1>0, <2>1
<1>6. \A k \in 0 .. n - 2 : Entry(new, v, k) = Entry(ring, r, k + 1)
  <2> SUFFICES ASSUME NEW k \in 0 .. n - 2 PROVE new[At(NUM, v, k)] = ring[At(NUM, r, k + 1)]
    BY DEF Entry
  <2>1. k \in Nat /\ k + 1 \in 1 .. n - 1 /\ k + 1 \in 0 .. n - 1
    BY <1>1
  <2>2. At(NUM, v, k) = At(NUM, r, k + 1)
    BY <1>0, <2>1, SlotNext
  <2>3. At(NUM, r, k + 1) # r % NUM /\ At(NUM, r, k + 1) \in Descs
    BY <1>2, <1>3, <1>4, <2>1
  <2> QED
    BY <1>0, <2>2, <2>3
<1>7. v \in 0 .. IdxMod - 1 /\ Pending(w, v) = n - 1
  <2>1. 1 \in 0 .. Dist(IdxMod, w, r)
    BY <1>1 DEF Pending
  <2>2. Moved(IdxMod, r, 1) \in 0 .. IdxMod - 1 /\ Pending(w, Moved(IdxMod, r, 1)) = n - 1
    BY <1>0, <1>1, <2>1, VdConstants, MoveStart DEF Pending
  <2> QED
    BY <1>0, <2>2 DEF Moved
<1>8. PICK d : d = ring[r % NUM] /\ d = Entry(ring, r, 0)
  BY <1>2 DEF Entry
<1>9. \A k, j \in 0 .. n - 1 : Entry(ring, r, k) = Entry(ring, r, j) => k = j
  BY <1>1 DEF Once
<1>10. /\ 0 \in 0 .. n - 1 /\ \A k \in 0 .. n - 2 : k + 1 \in 0 .. n - 1 /\ k + 1 # 0
       /\ \A k \in 0 .. n - 1 : k = 0 \/ (k - 1 \in 0 .. n - 2 /\ (k - 1) + 1 = k)
       /\ \A k, j \in 0 .. n - 2 : k + 1 = j + 1 => k = j
       /\ (n - 1) - 1 = n - 2 /\ n - 1 < NUM
  BY <1>1, VdConstants
<1>11. Once(new, v, w)
  <2>1. \A k, j \in 0 .. n - 2 : Entry(new, v, k) = Entry(new, v, j) => k = j
    BY <1>6, <1>9, <1>10
  <2> QED
    BY <1>7, <1>10, <2>1 DEF Once
<1>12. On(ring, r, w) = {Entry(ring, r, k) : k \in 0 .. n - 1}
  BY <1>1 DEF On
<1>13. On(new, v, w) = {Entry(new, v, k) : k \in 0 .. n - 2}
  BY <1>7, <1>10 DEF On
<1>14. d \in On(ring, r, w)
  BY <1>8, <1>10, <1>12
<1>15. ASSUME NEW x \in On(new, v, w) PROVE x \in On(ring, r, w) /\ x # d
  <2>1. PICK k \in 0 .. n - 2 : x = Entry(ring, r, k + 1)
    BY <1>6, <1>13
  <2>2. k + 1 \in 0 .. n - 1 /\ k + 1 # 0
    BY <1>10
  <2>3. x # d
    BY <1>8, <1>9, <1>10, <2>1, <2>2
  <2> QED
    BY <1>12, <2>1, <2>2, <2>3
<1>16. ASSUME NEW x \in On(ring, r, w), x # d PROVE x \in On(new, v, w)
  <2>1. PICK k \in 0 .. n - 1 : x = Entry(ring, r, k)
    BY <1>12
  <2>2. k # 0
    BY <1>8, <1>16, <2>1
  <2>3. PICK j \in 0 .. n - 2 : j + 1 = k
    BY <1>10, <2>2
  <2> QED
    BY <1>6, <1>13, <2>1, <2>3
<1>17. On(new, v, w) = On(ring, r, w) \ {d}
  BY <1>15, <1>16
<1> QED
  BY <1>5, <1>7, <1>8, <1>11, <1>14, <1>17 DEF IsRing, IsIdx

\* A ring that misses two descriptors has room for one more entry.
LEMMA RingRoom ==
  ASSUME NEW ring, NEW w \in 0 .. IdxMod - 1, NEW r \in 0 .. IdxMod - 1, Once(ring, r, w),
         NEW x \in Descs, NEW y \in Descs \ {x}, On(ring, r, w) \subseteq Descs \ {x, y}
  PROVE  Pending(w, r) + 1 < NUM
<1>1. PICK n \in Nat : n = Pending(w, r)
  BY PendingIs
<1> DEFINE T == (Descs \ {x}) \ {y}
           f == [k \in 0 .. n - 1 |-> Entry(ring, r, k)]
<1>2. IsFiniteSet(Descs) /\ Cardinality(Descs) = NUM
  BY VdConstants, FS_Interval DEF Descs
<1>3. IsFiniteSet(Descs \ {x}) /\ Cardinality(Descs \ {x}) = NUM - 1
  BY <1>2, FS_RemoveElement
<1>4. IsFiniteSet(T) /\ Cardinality(T) = (NUM - 1) - 1
  BY <1>3, FS_RemoveElement
<1>5. \A k \in 0 .. n - 1 : Entry(ring, r, k) \in T
  BY <1>1 DEF On
<1>6. f \in Injection(0 .. n - 1, T)
  BY <1>1, <1>5 DEF Once, Injection, IsInjective
<1>7. Cardinality(0 .. n - 1) <= Cardinality(T)
  BY <1>4, <1>6, FS_Injection
<1>8. Cardinality(0 .. n - 1) = n
  BY <1>1, FS_Interval
<1> HIDE DEF T
<1> QED
  BY <1>1, <1>4, <1>7, <1>8, VdConstants

(***************************************************************************)
(* Descriptors.                                                            *)
(***************************************************************************)
LEMMA MinIs ==
  ASSUME NEW S, S \subseteq Nat, S # {}
  PROVE  Min(S) \in S
<1>1. \E x \in S : \A y \in S : ~(<<y, x>> \in OpToRel(<, Nat))
  BY NatLessThanWellFounded, WFMin
<1>2. PICK x \in S : \A y \in S : ~(<<y, x>> \in OpToRel(<, Nat))
  BY <1>1
<1>3. ASSUME NEW y \in S PROVE x <= y
  <2>1. ~(<<y, x>> \in OpToRel(<, Nat))
    BY <1>2
  <2>2. x \in Nat /\ y \in Nat
    OBVIOUS
  <2>3. ~(y < x)
    BY <2>1, <2>2 DEF OpToRel
  <2> QED
    BY <2>2, <2>3
<1> QED
  BY <1>3 DEF Min

\* alloc3_desc() takes three different descriptors.
LEMMA ThreeFree ==
  ASSUME free \subseteq Descs, Cardinality(free) >= 3
  PROVE  /\ First \in free /\ Second \in free /\ Third \in free
         /\ First # Second /\ First # Third /\ Second # Third
<1>1. IsFiniteSet(Descs) /\ Descs \subseteq Nat
  BY VdConstants, FS_Interval DEF Descs
<1>2. IsFiniteSet(free) /\ Cardinality(free) \in Nat
  BY <1>1, FS_Subset, FS_CardinalityType
<1>3. free # {}
  BY <1>2, FS_EmptySet
<1>4. First \in free
  BY <1>1, <1>3, MinIs DEF First
<1>5. IsFiniteSet(free \ {First}) /\ Cardinality(free \ {First}) = Cardinality(free) - 1
  BY <1>2, <1>4, FS_RemoveElement
<1>6. free \ {First} # {}
  BY <1>2, <1>5, FS_EmptySet
<1>7. Second \in free \ {First}
  <2>1. free \ {First} \subseteq Nat
    BY <1>1
  <2> QED
    BY <1>6, <2>1, MinIs DEF Second
<1>8. Cardinality((free \ {First}) \ {Second}) = Cardinality(free) - 1 - 1
      /\ IsFiniteSet((free \ {First}) \ {Second})
  BY <1>5, <1>7, FS_RemoveElement
<1>9. (free \ {First}) \ {Second} = free \ {First, Second}
  OBVIOUS
<1>10. free \ {First, Second} # {}
  BY <1>2, <1>8, <1>9, FS_EmptySet
<1>11. Third \in free \ {First, Second}
  <2>1. free \ {First, Second} \subseteq Nat
    BY <1>1
  <2> QED
    BY <1>10, <2>1, MinIs DEF Third
<1> QED
  BY <1>4, <1>7, <1>11

\* The head of a chain that somebody waits for is not free, and the second of the
\* chain heads no other.
LEMMA HeadTaken ==
  ASSUME VdTypes, ChainInv, NEW d \in Heads
  PROVE  /\ d \in Descs \ free /\ next[d] \in Descs \ {d} /\ next[d] \notin Heads
<1>0. Linked(InFlight, free, next, info, head) /\ next \in [Descs -> Descs]
  BY DEF ChainInv, VdTypes, DescTypes
<1>1. PICK p \in InFlight : info[d] = p /\ head[p] = d /\ d \in Descs
  BY DEF Heads
<1>2. d \in ChainOf(next, head[p]) /\ next[d] \in ChainOf(next, head[p]) /\ next[d] \in Descs
  BY <1>0, <1>1 DEF ChainOf
<1>3. d \notin free /\ next[d] # d
  BY <1>0, <1>1, <1>2 DEF Linked, Three
<1>4. ASSUME next[d] \in Heads PROVE FALSE
  <2>1. PICK q \in InFlight : head[q] = next[d]
    BY <1>4 DEF Heads
  <2>2. q # p
    BY <1>1, <1>3, <2>1
  <2>3. next[d] \in ChainOf(next, head[q])
    BY <2>1 DEF ChainOf
  <2> QED
    BY <1>0, <1>2, <2>2, <2>3 DEF Linked
<1> QED
  BY <1>1, <1>2, <1>3, <1>4

(***************************************************************************)
(* The steps.                                                              *)
(***************************************************************************)
\* Whoever waits for descriptors, begins or is woken leaves the rest alone, and so
\* do the first and the last step of the handler.
LEMMA VdQuiet ==
  ASSUME VdInv, InFlight' = InFlight,
         UNCHANGED <<free, next, info, status, avail, availIdx, used, usedIdx, used_idx,
                     seenIdx, taken, head, busy, served>>
  PROVE  ChainInv' /\ RingInv'
<1>1. Heads' = Heads /\ Offered' = Offered /\ Done' = Done
  BY DEF Heads, Offered, Done
<1>2. RingInv'
  BY <1>1 DEF VdInv, RingInv
<1>3. ChainInv'
  BY DEF VdInv, ChainInv
<1> QED
  BY <1>2, <1>3

LEMMA RequestStep ==
  ASSUME VdInv, NEW p \in Requesters,
         Request(p) \/ NoDescriptors(p) \/ RouseRequester(p)
  PROVE  VdInv'
<1>0. VdTypes
  BY DEF VdInv
<1>1. /\ waits' \in [Requesters -> Places]
      /\ \A q \in Requesters : waits'[q] \in {"asleep", "woken"} <=> waits[q] \in {"asleep", "woken"}
  <2>1. waits \in [Requesters -> Places]
    BY <1>0 DEF VdTypes, CallTypes
  <2>2. CASE Request(p)
    BY <2>1, <2>2 DEF Request, Places
  <2>3. CASE NoDescriptors(p)
    <3>1. /\ FreeWakes(waits) \in [Requesters -> Places]
          /\ \A q \in Requesters :
               FreeWakes(waits)[q] \in {"asleep", "woken"} <=> waits[q] \in {"asleep", "woken"}
      BY <2>1 DEF FreeWakes, Places
    <3>2. /\ waits[p] = "start"
          /\ \/ waits' = [waits EXCEPT ![p] = "noDesc"]
             \/ waits' = [FreeWakes(waits) EXCEPT ![p] = "noDesc"]
      BY <2>3 DEF NoDescriptors
    <3> QED
      BY <2>1, <3>1, <3>2 DEF Places
  <2>4. CASE RouseRequester(p)
    BY <2>1, <2>4 DEF RouseRequester, Places
  <2> QED
    BY <2>2, <2>3, <2>4
<1>2. InFlight' = InFlight
  BY <1>1 DEF InFlight
<1>3. /\ UNCHANGED <<free, next, info, status, avail, availIdx, used, usedIdx, used_idx,
                     seenIdx, taken, head, busy, served>>
      /\ UNCHANGED <<irq, handling>>
  BY DEF Request, NoDescriptors, RouseRequester, devVars
<1>4. VdTypes'
  BY <1>0, <1>1, <1>3 DEF VdTypes, CallTypes
<1> QED
  BY <1>2, <1>3, <1>4, VdQuiet DEF VdInv

LEMMA IntrStep ==
  ASSUME VdInv, IntrStart \/ IntrLast \/ IntrEnd
  PROVE  VdInv'
<1>1. UNCHANGED <<free, next, info, status, avail, availIdx, used, usedIdx, used_idx,
                  seenIdx, taken, head, busy, served, waits>>
  BY DEF IntrStart, IntrLast, IntrEnd, devVars
<1>2. DevTypes(taken', irq', handling')
  BY DEF VdInv, VdTypes, DevTypes, IntrStart, IntrLast, IntrEnd, devVars, AckEarly
<1>3. InFlight' = InFlight
  BY <1>1 DEF InFlight
<1>4. VdTypes'
  BY <1>1, <1>2 DEF VdInv, VdTypes
<1> QED
  BY <1>1, <1>3, <1>4, VdQuiet DEF VdInv

LEMMA SubmitStep ==
  ASSUME VdInv, NEW p \in Requesters, Submit(p)
  PROVE  VdInv'
<1>0. VdTypes /\ ChainInv /\ RingInv
  BY DEF VdInv
<1>1. PICK f \in free, s \in free, t \in free :
        f = First /\ s = Second /\ t = Third /\ f # s /\ f # t /\ s # t
  BY <1>0, ThreeFree DEF Submit, VdTypes, DescTypes
<1>2. /\ waits[p] = "start" /\ free' = free \ {f, s, t}
      /\ next' = [next EXCEPT ![f] = s, ![s] = t, ![t] = 0]
      /\ info' = [info EXCEPT ![f] = p] /\ status' = [status EXCEPT ![f] = 255]
      /\ busy' = [busy EXCEPT ![p] = TRUE] /\ head' = [head EXCEPT ![p] = f]
      /\ Puts(avail, avail', availIdx, availIdx', f)
      /\ UNCHANGED <<used_idx, used, usedIdx, seenIdx, taken, irq, handling, served>>
  BY <1>1 DEF Submit, Waiting, devVars, Puts
<1>3. waits' = [waits EXCEPT ![p] = "asleep"]
  <2>1. busy'[p]
    BY <1>0, <1>2 DEF VdTypes, CallTypes
  <2>2. waits' = [waits EXCEPT ![p] = IF busy'[p] THEN "asleep" ELSE "woken"]
    BY DEF Submit
  <2> QED
    BY <2>1, <2>2
<1>t. /\ free \subseteq Descs /\ next \in [Descs -> Descs]
      /\ info \in [Descs -> Requesters \cup {NoRequester}]
      /\ head \in [Requesters -> Descs] /\ busy \in [Requesters -> BOOLEAN]
      /\ waits \in [Requesters -> Places] /\ served \in [Requesters -> BOOLEAN]
      /\ status \in [Descs -> {0, 255}] /\ IsRing(avail)
      /\ IsIdx(availIdx) /\ IsIdx(seenIdx)
  BY <1>0 DEF VdTypes, DescTypes, CallTypes
<1>4. InFlight' = InFlight \cup {p} /\ p \notin InFlight
  BY <1>2, <1>3, <1>t DEF InFlight, Places
<1>5. Heads \cap free = {} /\ Heads \subseteq Descs
  BY <1>0, HeadTaken
<1>6. Heads \subseteq Heads' /\ f \in Heads'
  <2>1. ASSUME NEW d \in Heads PROVE d \in Heads'
    <3>1. d # f /\ d \in Descs /\ info[d] \in InFlight /\ busy[info[d]] /\ head[info[d]] = d
      BY <1>5 DEF Heads
    <3>2. info'[d] = info[d] /\ info[d] # p /\ info[d] \in Requesters
      BY <1>2, <1>4, <1>t, <3>1 DEF InFlight
    <3> QED
      BY <1>2, <1>4, <1>t, <3>1, <3>2 DEF Heads
  <2>2. f \in Heads'
    BY <1>2, <1>4, <1>t DEF Heads
  <2> QED
    BY <2>1, <2>2
<1>7. Pending(availIdx, seenIdx) + 1 < NUM
  <2>1. Offered \subseteq Descs \ {f, s}
    BY <1>0, <1>5 DEF RingInv
  <2>2. availIdx \in 0 .. IdxMod - 1 /\ seenIdx \in 0 .. IdxMod - 1 /\ f \in Descs /\ s \in Descs \ {f}
    BY <1>1, <1>t DEF IsIdx
  <2> QED
    BY <1>0, <2>1, <2>2, RingRoom DEF RingInv, Offered
<1>8. /\ IsRing(avail') /\ IsIdx(availIdx')
      /\ Once(avail', seenIdx, availIdx') /\ Offered' = Offered \cup {f}
  <2>1. f \notin On(avail, seenIdx, availIdx) /\ Once(avail, seenIdx, availIdx) /\ f \in Descs
    BY <1>0, <1>5, <1>t DEF RingInv, Offered
  <2>2. /\ IsRing(avail') /\ IsIdx(availIdx') /\ Once(avail', seenIdx, availIdx')
        /\ On(avail', seenIdx, availIdx') = On(avail, seenIdx, availIdx) \cup {f}
    BY <1>2, <1>7, <1>t, <2>1, RingPut
  <2> QED
    BY <1>2, <2>2 DEF Offered
<1>9. VdTypes'
  <2>1. 0 \in Descs
    BY VdConstants DEF Descs
  <2>2. DescTypes(free', next', info', status')
    BY <1>1, <1>2, <1>t, <2>1 DEF DescTypes
  <2>3. CallTypes(waits', head', busy', served')
    BY <1>1, <1>2, <1>3, <1>t DEF CallTypes, Places
  <2> QED
    BY <1>0, <1>2, <1>8, <2>2, <2>3 DEF VdTypes
<1>10. RingInv'
  <2>1. Done' = Done
    BY <1>2 DEF Done
  <2>2. \A d \in Heads : d # f /\ status'[d] = status[d] /\ info'[d] = info[d]
    BY <1>2, <1>5, <1>t
  <2>3. \A d \in Done : status'[d] = 0 /\ served'[info'[d]]
    BY <1>0, <1>2, <2>2 DEF RingInv
  <2>4. f \notin taken /\ f \notin Done
    BY <1>0, <1>5 DEF RingInv
  <2> QED
    BY <1>0, <1>2, <1>6, <1>8, <2>1, <2>3, <2>4 DEF RingInv
<1>11. Linked(InFlight', free', next', info', head')
  <2>0. Linked(InFlight, free, next, info, head)
    BY <1>0 DEF ChainInv
  <2>1. ASSUME NEW q \in InFlight
        PROVE  /\ ChainOf(next', head'[q]) = ChainOf(next, head[q])
               /\ ChainOf(next, head[q]) \cap {f, s, t} = {} /\ ChainOf(next, head[q]) \cap free' = {}
               /\ Three(next', head'[q]) /\ info'[head'[q]] = q
    <3>1. PICK h \in Descs : h = head[q] /\ h = head'[q]
      BY <1>2, <1>4, <1>t DEF InFlight
    <3>2. ChainOf(next, h) \cap free = {} /\ Three(next, h) /\ info[h] = q
      BY <2>0, <3>1 DEF Linked
    <3>3. h \in Descs \ {f, s, t} /\ next[h] \in Descs \ {f, s, t}
      BY <1>t, <3>2 DEF ChainOf
    <3>4. next'[h] = next[h] /\ next'[next[h]] = next[next[h]] /\ info'[h] = info[h]
      BY <1>2, <1>t, <3>3
    <3>5. ChainOf(next', h) = ChainOf(next, h) /\ Three(next', h)
      BY <3>2, <3>4 DEF ChainOf, Three
    <3>6. ChainOf(next, h) \cap {f, s, t} = {} /\ ChainOf(next, h) \cap free' = {}
      BY <1>2, <3>2
    <3> QED
      BY <3>1, <3>2, <3>4, <3>5, <3>6
  <2>2. /\ head'[p] = f /\ ChainOf(next', f) = {f, s, t} /\ Three(next', f) /\ info'[f] = p
    <3>1. head'[p] = f /\ info'[f] = p /\ next'[f] = s /\ next'[s] = t
      BY <1>1, <1>2, <1>t
    <3> QED
      BY <1>1, <3>1 DEF ChainOf, Three
  <2>3. ASSUME NEW d \in Descs \ free' PROVE \E q \in InFlight' : d \in ChainOf(next', head'[q])
    <3>1. CASE d \in {f, s, t}
      BY <1>4, <2>2, <3>1
    <3>2. CASE d \notin free
      <4>1. PICK q \in InFlight : d \in ChainOf(next, head[q])
        BY <2>0, <3>2 DEF Linked
      <4> QED
        BY <1>4, <2>1, <4>1
    <3> QED
      BY <1>2, <3>1, <3>2
  <2>4. ASSUME NEW q \in InFlight'
        PROVE  ChainOf(next', head'[q]) \cap free' = {} /\ Three(next', head'[q]) /\ info'[head'[q]] = q
    <3>1. CASE q = p
      BY <1>2, <2>2, <3>1
    <3>2. CASE q \in InFlight
      BY <2>1, <3>2
    <3> QED
      BY <1>4, <3>1, <3>2
  <2>5. ASSUME NEW q \in InFlight', NEW r \in InFlight', q # r
        PROVE  ChainOf(next', head'[q]) \cap ChainOf(next', head'[r]) = {}
    <3>1. CASE q \in InFlight /\ r \in InFlight
      <4>1. ChainOf(next, head[q]) \cap ChainOf(next, head[r]) = {}
        BY <2>0, <2>5, <3>1 DEF Linked
      <4> QED
        BY <2>1, <3>1, <4>1
    <3>2. ASSUME NEW x \in InFlight PROVE ChainOf(next', head'[x]) \cap ChainOf(next', head'[p]) = {}
      BY <2>1, <2>2
    <3> QED
      BY <1>4, <2>5, <3>1, <3>2
  <2> QED
    BY <2>3, <2>4, <2>5 DEF Linked
<1>12. ChainInv'
  <2>1. \A q \in InFlight' : ~busy'[q] => served'[q]
    BY <1>0, <1>2, <1>4, <1>t DEF ChainInv, InFlight
  <2> QED
    BY <1>11, <2>1 DEF ChainInv
<1> QED
  BY <1>9, <1>10, <1>12 DEF VdInv

LEMMA FinishStep ==
  ASSUME VdInv, NEW p \in Requesters, Finish(p)
  PROVE  VdInv'
<1>0. VdTypes /\ ChainInv /\ RingInv
  BY DEF VdInv
<1>t. /\ free \subseteq Descs /\ next \in [Descs -> Descs]
      /\ info \in [Descs -> Requesters \cup {NoRequester}]
      /\ head \in [Requesters -> Descs] /\ served \in [Requesters -> BOOLEAN]
      /\ waits \in [Requesters -> Places] /\ status \in [Descs -> {0, 255}]
      /\ busy \in [Requesters -> BOOLEAN]
  BY <1>0 DEF VdTypes, DescTypes, CallTypes
<1>1. CASE busy[p]
  <2>1. /\ waits' = [waits EXCEPT ![p] = "asleep"] /\ waits[p] = "woken"
        /\ UNCHANGED <<free, next, info, status, avail, availIdx, used, usedIdx, used_idx,
                       seenIdx, taken, head, busy, served, irq, handling>>
    BY <1>1 DEF Finish, devVars
  <2>2. InFlight' = InFlight
    BY <1>t, <2>1 DEF InFlight
  <2>3. VdTypes'
    <3>1. waits' \in [Requesters -> Places]
      BY <1>t, <2>1 DEF Places
    <3> QED
      BY <1>0, <2>1, <3>1 DEF VdTypes, CallTypes
  <2> QED
    BY <2>1, <2>2, <2>3, VdQuiet DEF VdInv
<1>2. CASE ~busy[p]
  <2>1. PICK h \in Descs : h = head[p]
    BY <1>t
  <2>2. PICK C : C = ChainOf(next, h)
    OBVIOUS
  <2>3. /\ waits[p] = "woken" /\ info' = [info EXCEPT ![h] = NoRequester]
        /\ free' = free \cup C /\ next' = [d \in Descs |-> IF d \in C THEN 0 ELSE next[d]]
        /\ head' = [head EXCEPT ![p] = 0] /\ served' = [served EXCEPT ![p] = FALSE]
        /\ waits' = [FreeWakes(waits) EXCEPT ![p] = "out"]
        /\ UNCHANGED <<status, avail, availIdx, used, usedIdx, used_idx, seenIdx, taken, irq,
                       handling, busy>>
    BY <1>2, <2>1, <2>2 DEF Finish, devVars, Chain, ChainOf
  <2>4. C \subseteq Descs /\ h \in C
    BY <1>t, <2>1, <2>2 DEF ChainOf
  <2>5. /\ waits' \in [Requesters -> Places]
        /\ \A q \in Requesters :
             waits'[q] \in {"asleep", "woken"} <=> q # p /\ waits[q] \in {"asleep", "woken"}
    BY <1>t, <2>3 DEF FreeWakes, Places
  <2>6. InFlight' = InFlight \ {p} /\ p \in InFlight
    BY <2>3, <2>5 DEF InFlight
  <2>7. VdTypes'
    <3>1. 0 \in Descs
      BY VdConstants DEF Descs
    <3>2. DescTypes(free', next', info', status')
      BY <1>t, <2>3, <2>4, <3>1 DEF DescTypes
    <3>3. CallTypes(waits', head', busy', served')
      BY <1>t, <2>3, <2>5, <3>1 DEF CallTypes
    <3> QED
      BY <1>0, <2>3, <3>2, <3>3 DEF VdTypes
  <2>8. ASSUME NEW d \in Heads
        PROVE  d \in Heads' /\ info'[d] = info[d] /\ info[d] \in Requesters \ {p}
    <3>1. /\ d \in Descs /\ info[d] \in InFlight /\ busy[info[d]] /\ head[info[d]] = d
          /\ info[d] # p /\ info[d] \in Requesters
      BY <1>2 DEF Heads, InFlight
    <3>2. d # h
      BY <1>0, <2>1, <2>6, <3>1 DEF ChainInv, Linked
    <3>3. info'[d] = info[d] /\ head'[info[d]] = d /\ busy'[info[d]]
      BY <1>t, <2>3, <3>1, <3>2
    <3> QED
      BY <2>6, <3>1, <3>3 DEF Heads
  <2>9. RingInv'
    <3>1. Offered' = Offered /\ Done' = Done
      BY <2>3 DEF Offered, Done
    <3>2. \A d \in Done : status'[d] = 0 /\ served'[info'[d]]
      BY <1>0, <1>t, <2>3, <2>8 DEF RingInv
    <3> QED
      BY <1>0, <2>3, <2>8, <3>1, <3>2 DEF RingInv
  <2>l. Linked(InFlight, free, next, info, head)
    BY <1>0 DEF ChainInv
  <2>10. ASSUME NEW q \in InFlight, q # p
         PROVE  /\ ChainOf(next', head'[q]) = ChainOf(next, head[q])
                /\ ChainOf(next, head[q]) \cap free' = {} /\ ChainOf(next, head[q]) \cap C = {}
                /\ Three(next', head'[q]) /\ info'[head'[q]] = q
                /\ (~busy'[q] => served'[q])
    <3>1. PICK g \in Descs : g = head[q] /\ g = head'[q]
      BY <1>t, <2>3, <2>10 DEF InFlight
    <3>2. ChainOf(next, g) \cap free = {} /\ Three(next, g) /\ info[g] = q
      BY <2>l, <3>1 DEF Linked
    <3>3. ChainOf(next, g) \cap C = {}
      BY <2>l, <2>1, <2>2, <2>6, <2>10, <3>1 DEF Linked
    <3>4. g \in Descs \ C /\ next[g] \in Descs \ C
      BY <1>t, <3>3 DEF ChainOf
    <3>5. next'[g] = next[g] /\ next'[next[g]] = next[next[g]]
      BY <2>3, <3>4
    <3>6. ChainOf(next', g) = ChainOf(next, g) /\ Three(next', g)
      BY <3>2, <3>5 DEF ChainOf, Three
    <3>7. info'[g] = info[g]
      BY <1>t, <2>3, <2>4, <3>4
    <3>8. ~busy'[q] => served'[q]
      BY <1>0, <1>t, <2>3, <2>10 DEF ChainInv, InFlight
    <3>9. ChainOf(next, g) \cap free' = {}
      BY <2>3, <3>2, <3>3
    <3> QED
      BY <3>1, <3>2, <3>3, <3>6, <3>7, <3>8, <3>9
  <2>11. ChainInv'
    <3>1. ASSUME NEW d \in Descs \ free' PROVE \E q \in InFlight' : d \in ChainOf(next', head'[q])
      <4>1. d \notin free /\ d \notin C
        BY <2>3
      <4>2. PICK q \in InFlight : d \in ChainOf(next, head[q])
        BY <2>l, <4>1 DEF Linked
      <4>3. q # p
        BY <2>1, <2>2, <4>1, <4>2
      <4> QED
        BY <2>6, <2>10, <4>2, <4>3
    <3>2. ASSUME NEW q \in InFlight'
          PROVE  /\ ChainOf(next', head'[q]) \cap free' = {} /\ Three(next', head'[q])
                 /\ info'[head'[q]] = q /\ (~busy'[q] => served'[q])
      BY <2>6, <2>10
    <3>3. ASSUME NEW q \in InFlight', NEW r \in InFlight', q # r
          PROVE  ChainOf(next', head'[q]) \cap ChainOf(next', head'[r]) = {}
      <4>1. q \in InFlight /\ q # p /\ r \in InFlight /\ r # p
        BY <2>6
      <4>2. ChainOf(next, head[q]) \cap ChainOf(next, head[r]) = {}
        BY <2>l, <3>3, <4>1 DEF Linked
      <4> QED
        BY <2>10, <4>1, <4>2
    <3>4. Linked(InFlight', free', next', info', head')
      BY <3>1, <3>2, <3>3 DEF Linked
    <3> QED
      BY <3>2, <3>4 DEF ChainInv
  <2> QED
    BY <2>7, <2>9, <2>11 DEF VdInv
<1> QED
  BY <1>1, <1>2

\* The device moves a request from one place to the next.
LEMMA DeviceStep ==
  ASSUME VdInv, DevTake \/ \E d \in Descs : DevComplete(d)
  PROVE  VdInv'
<1>0. VdTypes /\ ChainInv /\ RingInv
  BY DEF VdInv
<1>t. /\ IsRing(avail) /\ IsRing(used) /\ IsIdx(availIdx) /\ IsIdx(seenIdx) /\ IsIdx(usedIdx)
      /\ IsIdx(used_idx) /\ served \in [Requesters -> BOOLEAN] /\ status \in [Descs -> {0, 255}]
  BY <1>0 DEF VdTypes, DescTypes, CallTypes
<1>u. /\ UNCHANGED <<free, next, info, availIdx, used_idx, handling, waits, head, busy>>
      /\ InFlight' = InFlight /\ Heads' = Heads
  <2>1. UNCHANGED <<free, next, info, availIdx, used_idx, handling, waits, head, busy>>
    <3>1. CASE DevTake
      BY <3>1 DEF DevTake
    <3>2. ASSUME NEW d \in Descs, DevComplete(d)
          PROVE  UNCHANGED <<free, next, info, availIdx, used_idx, handling, waits, head, busy>>
      BY <3>2 DEF DevComplete
    <3> QED
      BY <3>1, <3>2
  <2>2. InFlight' = InFlight
    BY <2>1 DEF InFlight
  <2> QED
    BY <2>1, <2>2 DEF Heads
<1>1. CASE DevTake
  <2>1. PICK d : d = avail[seenIdx % NUM]
    OBVIOUS
  <2>2. /\ seenIdx # availIdx /\ taken' = taken \cup {d}
        /\ Gets(avail, avail', seenIdx, seenIdx')
        /\ UNCHANGED <<used, usedIdx, status, irq, served>>
    BY <1>1, <2>1 DEF DevTake, Gets
  <2>3. /\ IsRing(avail') /\ IsIdx(seenIdx') /\ Once(avail', seenIdx', availIdx)
        /\ d \in Offered /\ Offered' = Offered \ {d}
    <3>1. Once(avail, seenIdx, availIdx)
      BY <1>0 DEF RingInv
    <3>2. /\ IsRing(avail') /\ IsIdx(seenIdx') /\ Once(avail', seenIdx', availIdx)
          /\ d \in On(avail, seenIdx, availIdx)
          /\ On(avail', seenIdx', availIdx) = On(avail, seenIdx, availIdx) \ {d}
      BY <1>t, <2>1, <2>2, <3>1, RingGet
    <3> QED
      BY <1>u, <3>2 DEF Offered
  <2>4. Done' = Done
    BY <1>u, <2>2 DEF Done
  <2>5. RingInv'
    BY <1>0, <1>u, <2>2, <2>3, <2>4 DEF RingInv
  <2>6. VdTypes'
    <3>1. d \in Descs
      BY <1>0, <2>3 DEF RingInv, Heads
    <3>2. DevTypes(taken', irq', handling')
      BY <1>0, <1>u, <2>2, <3>1 DEF VdTypes, DevTypes
    <3> QED
      BY <1>0, <1>u, <2>2, <2>3, <3>2 DEF VdTypes
  <2>7. ChainInv'
    <3>1. \A q \in InFlight : ~busy'[q] => served'[q]
      BY <1>0, <1>u, <2>2 DEF ChainInv
    <3> QED
      BY <1>0, <1>u, <3>1 DEF ChainInv
  <2> QED
    BY <2>5, <2>6, <2>7 DEF VdInv
<1>2. ASSUME NEW d \in Descs, DevComplete(d) PROVE VdInv'
  <2>1. /\ d \in taken /\ taken' = taken \ {d} /\ status' = [status EXCEPT ![d] = 0]
        /\ Puts(used, used', usedIdx, usedIdx', d) /\ irq' = TRUE
        /\ UNCHANGED <<avail, seenIdx>>
    BY <1>2 DEF DevComplete, Puts
  <2>2. /\ d \in Heads /\ d \notin Done /\ next[d] \in Descs \ {d} /\ next[d] \notin Heads
    BY <1>0, <2>1, HeadTaken DEF RingInv
  <2>3. info[d] \in Requesters /\ served' = [served EXCEPT ![info[d]] = TRUE]
    <3>1. info[d] \in Requesters
      BY <2>2 DEF Heads, InFlight
    <3> QED
      BY <1>2, <3>1, VdAssumption DEF DevComplete
  <2>4. Pending(usedIdx, used_idx) + 1 < NUM
    <3>1. Done \subseteq Descs \ {d, next[d]}
      BY <1>0, <2>2 DEF RingInv, Heads
    <3>2. usedIdx \in 0 .. IdxMod - 1 /\ used_idx \in 0 .. IdxMod - 1
      BY <1>t DEF IsIdx
    <3> QED
      BY <1>0, <2>2, <3>1, <3>2, RingRoom DEF RingInv, Done
  <2>5. /\ IsRing(used') /\ IsIdx(usedIdx') /\ Once(used', used_idx, usedIdx')
        /\ Done' = Done \cup {d}
    <3>1. Once(used, used_idx, usedIdx) /\ d \notin On(used, used_idx, usedIdx)
      BY <1>0, <2>2 DEF RingInv, Done
    <3>2. /\ IsRing(used') /\ IsIdx(usedIdx') /\ Once(used', used_idx, usedIdx')
          /\ On(used', used_idx, usedIdx') = On(used, used_idx, usedIdx) \cup {d}
      BY <1>t, <2>1, <2>4, <3>1, RingPut
    <3> QED
      BY <1>u, <3>2 DEF Done
  <2>6. Offered' = Offered
    BY <1>u, <2>1 DEF Offered
  <2>7. \A e \in Done' : status'[e] = 0 /\ served'[info'[e]]
    <3> SUFFICES ASSUME NEW e \in Done' PROVE status'[e] = 0 /\ served'[info[e]]
      BY <1>u
    <3>1. CASE e = d
      BY <1>t, <2>1, <2>3, <3>1
    <3>2. CASE e \in Done
      <4>1. e \in Descs /\ info[e] \in Requesters /\ status[e] = 0 /\ served[info[e]]
        BY <1>0, <3>2 DEF RingInv, Heads, InFlight
      <4> QED
        BY <1>t, <2>1, <2>3, <4>1
    <3> QED
      BY <2>5, <3>1, <3>2
  <2>8. RingInv'
    BY <1>0, <1>u, <2>1, <2>2, <2>5, <2>6, <2>7 DEF RingInv
  <2>9. served' \in [Requesters -> BOOLEAN] /\ \A q \in Requesters : served[q] => served'[q]
    BY <1>t, <2>3
  <2>10. VdTypes'
    <3>1. DescTypes(free', next', info', status')
      BY <1>0, <1>u, <2>1 DEF VdTypes, DescTypes
    <3>2. DevTypes(taken', irq', handling')
      BY <1>0, <1>u, <2>1 DEF VdTypes, DevTypes
    <3>3. CallTypes(waits', head', busy', served')
      BY <1>0, <1>u, <2>9 DEF VdTypes, CallTypes
    <3> QED
      BY <1>0, <1>u, <2>1, <2>5, <3>1, <3>2, <3>3 DEF VdTypes
  <2>11. ChainInv'
    <3>1. \A q \in InFlight : ~busy'[q] => served'[q]
      BY <1>0, <1>u, <2>9 DEF ChainInv, InFlight
    <3> QED
      BY <1>0, <1>u, <3>1 DEF ChainInv
  <2> QED
    BY <2>8, <2>10, <2>11 DEF VdInv
<1> QED
  BY <1>1, <1>2

\* The handler ends the first request on the used ring.
LEMMA IntrLoopStep ==
  ASSUME VdInv, IntrLoop
  PROVE  VdInv'
<1>0. VdTypes /\ ChainInv /\ RingInv
  BY DEF VdInv
<1>t. /\ IsRing(used) /\ IsIdx(usedIdx) /\ IsIdx(used_idx) /\ busy \in [Requesters -> BOOLEAN]
      /\ waits \in [Requesters -> Places]
  BY <1>0 DEF VdTypes, CallTypes
<1>1. PICK d : d = used[used_idx % NUM]
  OBVIOUS
<1>2. PICK b : b = info[d]
  OBVIOUS
<1>3. /\ used_idx # usedIdx /\ busy' = [busy EXCEPT ![b] = FALSE]
      /\ waits' = [waits EXCEPT ![b] = IF @ = "asleep" THEN "woken" ELSE @]
      /\ Gets(used, used', used_idx, used_idx')
      /\ UNCHANGED <<free, next, info, status, avail, availIdx, usedIdx, seenIdx, taken, irq,
                     handling, head, served>>
  BY <1>1, <1>2 DEF IntrLoop, Gets
<1>4. /\ IsRing(used') /\ IsIdx(used_idx') /\ Once(used', used_idx', usedIdx)
      /\ d \in Done /\ Done' = Done \ {d}
  <2>1. Once(used, used_idx, usedIdx)
    BY <1>0 DEF RingInv
  <2>2. /\ IsRing(used') /\ IsIdx(used_idx') /\ Once(used', used_idx', usedIdx)
        /\ d \in On(used, used_idx, usedIdx)
        /\ On(used', used_idx', usedIdx) = On(used, used_idx, usedIdx) \ {d}
    BY <1>t, <1>1, <1>3, <2>1, RingGet
  <2> QED
    BY <1>3, <2>2 DEF Done
<1>5. b \in Requesters /\ b \in InFlight /\ head[b] = d /\ served[b]
  BY <1>0, <1>2, <1>4 DEF RingInv, Heads, InFlight
<1>6. InFlight' = InFlight
  BY <1>t, <1>3, <1>5 DEF InFlight
<1>7. Heads \ {d} \subseteq Heads'
  <2> SUFFICES ASSUME NEW e \in Heads, e # d PROVE e \in Heads'
    OBVIOUS
  <2>1. e \in Descs /\ info[e] \in InFlight /\ busy[info[e]] /\ head[info[e]] = e
    BY DEF Heads
  <2>2. info[e] # b /\ info[e] \in Requesters
    BY <1>5, <2>1 DEF InFlight
  <2> QED
    BY <1>t, <1>3, <1>6, <2>1, <2>2 DEF Heads
<1>8. Offered' = Offered
  BY <1>3 DEF Offered
<1>9. RingInv'
  BY <1>0, <1>3, <1>4, <1>7, <1>8 DEF RingInv
<1>10. VdTypes'
  <2>1. CallTypes(waits', head', busy', served')
    <3>1. busy' \in [Requesters -> BOOLEAN] /\ waits' \in [Requesters -> Places]
      BY <1>t, <1>3, <1>5 DEF Places
    <3> QED
      BY <1>0, <1>3, <3>1 DEF VdTypes, CallTypes
  <2> QED
    BY <1>0, <1>3, <1>4, <2>1 DEF VdTypes
<1>11. ChainInv'
  <2>1. \A q \in InFlight : ~busy'[q] => served'[q]
    BY <1>0, <1>t, <1>3, <1>5 DEF ChainInv, InFlight
  <2> QED
    BY <1>0, <1>3, <1>6, <2>1 DEF ChainInv
<1> QED
  BY <1>9, <1>10, <1>11 DEF VdInv

LEMMA VdInvStep == VdInv /\ [VdNext]_vdVars => VdInv'
<1> SUFFICES ASSUME VdInv, [VdNext]_vdVars PROVE VdInv'
  OBVIOUS
<1>1. CASE UNCHANGED vdVars
  <2>1. InFlight' = InFlight /\ VdTypes'
    BY <1>1 DEF vdVars, InFlight, VdInv, VdTypes
  <2> QED
    BY <1>1, <2>1, VdQuiet DEF vdVars, VdInv
<1>2. CASE VdNext
  BY <1>2, RequestStep, SubmitStep, FinishStep, DeviceStep, IntrStep, IntrLoopStep DEF VdNext
<1> QED
  BY <1>1, <1>2

LEMMA VdInvInit == VdInit => VdInv
<1> SUFFICES ASSUME VdInit PROVE VdInv
  OBVIOUS
<1>1. 0 \in Descs /\ Unused \in 0 .. Unused /\ 0 \in 0 .. IdxMod - 1
  BY VdConstants DEF Descs, Unused
<1>2. VdTypes
  <2>1. DescTypes(free, next, info, status) /\ CallTypes(waits, head, busy, served)
    BY <1>1 DEF VdInit, DescTypes, CallTypes, Places
  <2>2. DevTypes(taken, irq, handling)
    BY DEF VdInit, DevTypes
  <2>3. /\ IsRing(avail) /\ IsRing(used) /\ IsIdx(availIdx) /\ IsIdx(seenIdx)
        /\ IsIdx(usedIdx) /\ IsIdx(used_idx)
    BY <1>1 DEF VdInit, IsRing, IsIdx
  <2> QED
    BY <2>1, <2>2, <2>3 DEF VdTypes
<1>3. InFlight = {}
  BY DEF VdInit, InFlight
<1>4. ChainInv
  BY <1>3 DEF VdInit, ChainInv, Linked
<1>5. Pending(0, 0) = 0 /\ 0 < NUM
  BY <1>1, PendingIs, VdConstants
<1>6. Offered = {} /\ Done = {}
  BY <1>5 DEF VdInit, Offered, Done, On
<1>7. Once(avail, seenIdx, availIdx) /\ Once(used, used_idx, usedIdx)
  BY <1>5 DEF VdInit, Once
<1>8. RingInv
  BY <1>6, <1>7 DEF VdInit, RingInv
<1> QED
  BY <1>2, <1>4, <1>8 DEF VdInv

\* The chains of requests in flight and the free descriptors never overlap and
\* never leak, a request ends only when the device has served it, and what the
\* handler finds on the used ring is complete and still waited for, for any
\* number of processes and descriptors and any width of the indices.
THEOREM RequestsKeepApart == VdSpec => []RequestsApart
<1>1. ASSUME VdInv PROVE RequestsApart
  <2>0. VdTypes /\ ChainInv /\ RingInv
    BY <1>1 DEF VdInv
  <2>l. /\ Linked(InFlight, free, next, info, head) /\ free \subseteq Descs
        /\ \A d : Chain(d) = ChainOf(next, d)
    BY <2>0 DEF ChainInv, VdTypes, DescTypes, Chain, ChainOf
  <2>1. ASSUME NEW p \in InFlight PROVE Chain(head[p]) \subseteq Descs
    <3>1. head[p] \in Descs /\ next \in [Descs -> Descs]
      BY <2>0 DEF VdTypes, DescTypes, CallTypes, InFlight
    <3> QED
      BY <3>1 DEF Chain
  <2>2. (UNION {Chain(head[p]) : p \in InFlight}) \cup free = Descs
    <3>1. \A d \in Descs \ free : \E p \in InFlight : d \in Chain(head[p])
      BY <2>l DEF Linked
    <3> QED
      BY <2>l, <2>1, <3>1
  <2>3. ASSUME NEW p \in InFlight PROVE Cardinality(Chain(head[p])) = 3
    <3>1. PICK x, y, z : x = head[p] /\ y = next[x] /\ z = next[y]
      OBVIOUS
    <3>2. x # y /\ x # z /\ y # z
      BY <2>l, <3>1 DEF Linked, Three
    <3>3. Chain(head[p]) = ({x} \cup {y}) \cup {z}
      <4>1. Chain(head[p]) = {x, y, z}
        BY <3>1 DEF Chain
      <4> QED
        BY <4>1
    <3>4. IsFiniteSet({x}) /\ Cardinality({x}) = 1
      BY FS_Singleton
    <3>5. IsFiniteSet({x} \cup {y}) /\ Cardinality({x} \cup {y}) = 1 + 1
      BY <3>2, <3>4, FS_AddElement
    <3>6. Cardinality(({x} \cup {y}) \cup {z}) = 1 + 1 + 1
      BY <3>2, <3>5, FS_AddElement
    <3> QED
      BY <3>3, <3>6
  <2>4. ASSUME used_idx # usedIdx
        PROVE  LET d == used[used_idx % NUM]
               IN  status[d] = 0 /\ info[d] \in InFlight /\ busy[info[d]]
    <3>1. PICK d : d = used[used_idx % NUM]
      OBVIOUS
    <3>2. /\ IsRing(used) /\ IsIdx(usedIdx) /\ IsIdx(used_idx) /\ Once(used, used_idx, usedIdx)
      BY <2>0 DEF VdTypes, RingInv
    <3>3. PICK new, v : Gets(used, new, used_idx, v)
      BY DEF Gets
    <3>4. d \in Done
      BY <2>4, <3>1, <3>2, <3>3, RingGet DEF Done
    <3> QED
      BY <2>0, <3>1, <3>4 DEF RingInv, Heads
  <2>5. VdTypeOK
    <3>1. /\ free \subseteq Descs /\ next \in [Descs -> Descs]
          /\ info \in [Descs -> Requesters \cup {NoRequester}] /\ status \in [Descs -> {0, 255}]
      BY <2>0 DEF VdTypes, DescTypes
    <3>2. /\ avail \in [Descs -> 0 .. Unused] /\ used \in [Descs -> 0 .. Unused]
          /\ {availIdx, usedIdx, used_idx, seenIdx} \subseteq 0 .. IdxMod - 1
      BY <2>0 DEF VdTypes, IsRing, IsIdx
    <3>3. /\ taken \subseteq Descs \cup {Unused} /\ irq \in BOOLEAN
          /\ handling \in {"no", "loop", "last"}
      BY <2>0 DEF VdTypes, DevTypes
    <3>4. /\ waits \in [Requesters -> {"out", "start", "noDesc", "asleep", "woken"}]
          /\ head \in [Requesters -> Descs] /\ busy \in [Requesters -> BOOLEAN]
          /\ served \in [Requesters -> BOOLEAN]
      BY <2>0 DEF VdTypes, CallTypes, Places
    <3> QED
      BY <3>1, <3>2, <3>3, <3>4 DEF VdTypeOK
  <2>6. ASSUME NEW p \in InFlight
        PROVE  /\ Chain(head[p]) \cap free = {} /\ info[head[p]] = p
               /\ \A q \in InFlight \ {p} : Chain(head[p]) \cap Chain(head[q]) = {}
    BY <2>l DEF Linked
  <2>7. \A p \in InFlight : ~busy[p] => served[p]
    BY <2>0 DEF ChainInv
  <2> QED
    BY <2>2, <2>3, <2>4, <2>5, <2>6, <2>7 DEF RequestsApart
<1> QED
  BY <1>1, VdInvInit, VdInvStep, PTL DEF VdSpec
=============================================================================
