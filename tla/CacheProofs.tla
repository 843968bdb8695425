---------------------------- MODULE CacheProofs -----------------------------
(***************************************************************************)
(* A sleep lock has one holder, and the buffer cache has one sound copy of *)
(* a block, for any number of processes, buffers and blocks.               *)
(***************************************************************************)
EXTENDS SleepLock, Bcache, FiniteSetTheorems, SequenceTheorems, WellFoundedInduction, TLAPS

(***************************************************************************)
(* Sleep locks.  HoldingIsExact is inductive as it stands: a process is    *)
(* past acquiresleep() exactly while its pid is in the lock, so nobody is  *)
(* when the lock is free.                                                  *)
(***************************************************************************)
LEMMA HoldingStep == HoldingIsExact /\ [SlNext]_slVars => HoldingIsExact'
<1> SUFFICES ASSUME HoldingIsExact, [SlNext]_slVars PROVE HoldingIsExact'
  OBVIOUS
<1> USE DEF HoldingIsExact, SlTypeOK, Holdingsleep
<1>1. ASSUME NEW p \in Sleepers, Want(p) PROVE HoldingIsExact'
  BY <1>1 DEF Want
<1>2. ASSUME NEW p \in Sleepers, Acquiresleep(p) PROVE HoldingIsExact'
  <2>1. CASE lk.locked
    BY <1>2, <2>1 DEF Acquiresleep, MustSleep
  <2>2. CASE ~lk.locked
    <3>1. \A q \in Sleepers : at[q] # "in"
      BY <2>2
    <3>2. /\ lk' = [locked |-> TRUE, pid |-> p] /\ at' = [at EXCEPT ![p] = "in"]
          /\ UNCHANGED <<frozen, stopped>>
      BY <1>2, <2>2 DEF Acquiresleep, MustSleep
    <3> QED
      BY <3>1, <3>2
  <2> QED
    BY <2>1, <2>2
<1>3. ASSUME NEW p \in Sleepers, Releasesleep(p) PROVE HoldingIsExact'
  <2>1. \A q \in Sleepers : at[q] = "in" => q = p
    BY <1>3 DEF Releasesleep
  <2>2. /\ lk' = [locked |-> FALSE, pid |-> NoSleeper]
        /\ at' = [SlWoken EXCEPT ![p] = "out"] /\ UNCHANGED <<frozen, stopped>>
    BY <1>3 DEF Releasesleep
  <2>3. at' \in [Sleepers -> {"out", "acquire", "woken", "asleep", "in"}]
    BY <2>2 DEF SlWoken
  <2>4. \A q \in Sleepers : at'[q] # "in"
    BY <2>1, <2>2 DEF SlWoken
  <2> QED
    BY <2>2, <2>3, <2>4
<1>4. ASSUME NEW p \in Sleepers, Kill(p) PROVE HoldingIsExact'
  BY <1>4 DEF Kill
<1>5. ASSUME NEW p \in Sleepers, Freeze(p) PROVE HoldingIsExact'
  BY <1>5 DEF Freeze
<1>6. ASSUME NEW p \in Sleepers, Stop(p) PROVE HoldingIsExact'
  BY <1>6 DEF Stop
<1>7. ASSUME NEW p \in Sleepers, Unfreeze(p) PROVE HoldingIsExact'
  BY <1>7 DEF Unfreeze
<1>8. CASE UNCHANGED slVars
  BY <1>8 DEF slVars
<1> QED
  BY <1>1, <1>2, <1>3, <1>4, <1>5, <1>6, <1>7, <1>8 DEF SlNext

\* holdingsleep() is true of the process past acquiresleep() and of nobody
\* else, whoever is killed, frozen or unfrozen while it waits or holds.
THEOREM SleepLockHolds == SlSpec => []HoldingIsExact
<1>1. SlInit => HoldingIsExact
  BY DEF SlInit, HoldingIsExact, SlTypeOK, Holdingsleep
<1> QED
  BY <1>1, HoldingStep, PTL DEF SlSpec

(***************************************************************************)
(* The buffer cache.  That a read finds what was stored last rests on the  *)
(* buffers' contents (DataInv), these on who may touch a buffer (UseInv)   *)
(* and on one buffer for a block (OneBuffer); that bget() recycles what    *)
(* nobody uses, and when it cannot, rests on the counts (CountInv).        *)
(***************************************************************************)
\* the buffer holds what the disk does not have yet
Owed(k) == k \in logpins \/ \E p \in Clients : where[p] = "dirty" /\ mine[p] = k

\* Who uses a buffer keeps it for its block, holds its lock where it touches it,
\* and has read it before.
UseInv ==
  /\ \A p \in Clients :
       /\ Using(p) => blockno[mine[p]] # NoBlock
       /\ where[p] \in {"bread", "has", "dirty"} => bufLock[mine[p]] = p
       /\ where[p] \in {"has", "dirty"} => valid[mine[p]]
  /\ \A k \in logpins : valid[k]

\* A valid buffer holds what was last stored in its block.  So does the disk, but
\* for the blocks in a buffer that the log has pinned or a process is writing.
DataInv ==
  /\ \A k \in Bufs : valid[k] => blockno[k] # NoBlock /\ content[k] = latest[blockno[k]]
  /\ \A b \in Blocknos : platter[b] # latest[b] =>
       \E k \in Bufs : blockno[k] = b /\ valid[k] /\ Owed(k)

Users(k) == {p \in Clients : Using(p) /\ mine[p] = k}
Pin(k) == IF k \in logpins THEN 1 ELSE 0

BcTypes ==
  /\ blockno \in [Bufs -> Blocknos \cup {NoBlock}] /\ valid \in [Bufs -> BOOLEAN]
  /\ content \in [Bufs -> BufContents] /\ bufLock \in [Bufs -> Clients \cup {NoClient}]
  /\ platter \in [Blocknos -> BufContents] /\ latest \in [Blocknos -> BufContents]
  /\ where \in [Clients -> {"out", "acquire", "bread", "has", "dirty", "brelse", "panic"}]
  /\ mine \in [Clients -> Bufs] /\ logpins \subseteq Bufs

ListInv == lru \in Seq(Bufs) /\ ToSet(lru) = Bufs /\ Len(lru) = Cardinality(Bufs)
CountInv ==
  /\ refcnt \in [Bufs -> Nat] /\ \A k \in Bufs : refcnt[k] = Cardinality(Users(k)) + Pin(k)

\* every buffer is in use or pinned
AllTaken == \A k \in Bufs : k \in logpins \/ Users(k) # {}
PanicInv == ~BcacheFree => AllTaken

OneBuffer == \A j, k \in Bufs : blockno[j] = blockno[k] /\ blockno[j] # NoBlock => j = k

BcInv == BcTypes /\ ListInv /\ CountInv /\ PanicInv /\ OneBuffer /\ UseInv /\ DataInv

(***************************************************************************)
(* The list.                                                               *)
(***************************************************************************)
LEMMA MostNat ==
  ASSUME NEW n \in Nat, NEW T, T \subseteq 1 .. n, T # {}
  PROVE  \E x \in T : \A y \in T : y <= x
<1> DEFINE D == {n - x : x \in T}
<1>1. D \subseteq Nat
  OBVIOUS
<1>t. PICK z \in T : TRUE
  OBVIOUS
<1>n. n - z \in D
  BY <1>t
<1>e. D # {}
  BY <1>n
<1>2. PICK d \in D : \A e \in D : d <= e
  <2>1. \E d \in D : \A e \in D : ~(<<e, d>> \in OpToRel(<, Nat))
    BY <1>1, <1>e, NatLessThanWellFounded, WFMin
  <2>2. PICK d \in D : \A e \in D : ~(<<e, d>> \in OpToRel(<, Nat))
    BY <2>1
  <2>3. ASSUME NEW e \in D PROVE d <= e
    <3>1. ~(<<e, d>> \in OpToRel(<, Nat))
      BY <2>2
    <3>2. d \in Nat /\ e \in Nat
      BY <1>1
    <3>3. ~(e < d)
      BY <3>1, <3>2 DEF OpToRel
    <3> QED
      BY <3>2, <3>3
  <2> QED
    BY <2>3
<1>3. PICK x \in T : d = n - x
  BY <1>2
<1>4. ASSUME NEW y \in T PROVE y <= x
  <2>1. n - x <= n - y
    BY <1>2, <1>3
  <2> QED
    BY <2>1
<1> QED
  BY <1>4

\* bget() takes a buffer that nobody refers to.
LEMMA LeastRecentIs ==
  ASSUME ListInv, Recyclable # {}
  PROVE  LeastRecent \in Recyclable
<1> DEFINE T == {i \in 1 .. Len(lru) : lru[i] \in Recyclable}
           IsLast(i) == /\ lru[i] \in Recyclable
                        /\ \A j \in i + 1 .. Len(lru) : lru[j] \notin Recyclable
<1>1. T # {}
  <2>1. PICK k \in Recyclable : k \in Bufs
    BY DEF Recyclable
  <2>2. PICK i \in DOMAIN lru : lru[i] = k
    BY <2>1 DEF ListInv, ToSet
  <2> QED
    BY <2>1, <2>2 DEF ListInv
<1>2. PICK x \in T : \A y \in T : y <= x
  <2>1. Len(lru) \in Nat
    BY DEF ListInv
  <2> QED
    BY <1>1, <2>1, MostNat
<1>3. x \in 1 .. Len(lru) /\ IsLast(x)
  <2>1. Len(lru) \in Nat
    BY DEF ListInv
  <2> QED
    BY <1>2, <2>1
<1>4. IsLast(CHOOSE i \in 1 .. Len(lru) : IsLast(i))
  BY <1>3
<1> QED
  BY <1>4 DEF LeastRecent

LEMMA ToHeadKeeps ==
  ASSUME ListInv, NEW k \in Bufs
  PROVE  /\ ToHead(k) \in Seq(Bufs) /\ ToSet(ToHead(k)) = Bufs
         /\ Len(ToHead(k)) = Cardinality(Bufs)
<1> DEFINE i == CHOOSE i \in 1 .. Len(lru) : lru[i] = k
           a == SubSeq(lru, 1, i - 1)
           b == SubSeq(lru, i + 1, Len(lru))
           s == a \o b
           t == <<k>> \o s
<1>0. lru \in Seq(Bufs) /\ Len(lru) \in Nat /\ DOMAIN lru = 1 .. Len(lru)
  BY DEF ListInv
<1>l. Len(lru) \in Nat
  BY <1>0
<1>1. i \in 1 .. Len(lru) /\ lru[i] = k
  <2>1. \E j \in 1 .. Len(lru) : lru[j] = k
    BY <1>0 DEF ListInv, ToSet
  <2> QED
    BY <2>1
<1> HIDE DEF i
<1>2. /\ a \in Seq(Bufs) /\ Len(a) = i - 1
      /\ \A j \in 1 .. i - 1 : a[j] = lru[j]
  BY <1>0, <1>1, SubSeqProperties
<1>3. /\ b \in Seq(Bufs) /\ Len(b) = Len(lru) - i
      /\ \A j \in 1 .. Len(lru) - i : b[j] = lru[i + j]
  <2>1. PICK m \in Int : m = i + 1
    BY <1>1
  <2>2. PICK n \in Int : n = Len(lru)
    BY <1>l
  <2>3. \A j \in m .. n : lru[j] \in Bufs
    BY <1>0, <1>1, <2>1, <2>2
  <2>4. /\ SubSeq(lru, m, n) \in Seq(Bufs)
        /\ Len(SubSeq(lru, m, n)) = IF m <= n THEN n - m + 1 ELSE 0
        /\ \A j \in 1 .. n - m + 1 : SubSeq(lru, m, n)[j] = lru[m + j - 1]
    BY <2>3, SubSeqProperties
  <2>5. b = SubSeq(lru, m, n)
    BY <2>1, <2>2
  <2>6. /\ IF m <= n THEN n - m + 1 = Len(lru) - i ELSE Len(lru) - i = 0
        /\ n - m + 1 = Len(lru) - i /\ \A j \in 1 .. Len(lru) - i : m + j - 1 = i + j
    BY <1>l, <1>1, <2>1, <2>2
  <2> HIDE DEF b
  <2> QED
    BY <2>4, <2>5, <2>6
<1> HIDE DEF a, b
<1>4. /\ s \in Seq(Bufs) /\ Len(s) = Len(lru) - 1
      /\ \A j \in 1 .. Len(s) : s[j] = IF j <= i - 1 THEN a[j] ELSE b[j - (i - 1)]
  <2>1. /\ a \o b \in Seq(Bufs) /\ Len(a \o b) = Len(a) + Len(b)
        /\ \A j \in 1 .. Len(a) + Len(b) :
             (a \o b)[j] = IF j <= Len(a) THEN a[j] ELSE b[j - Len(a)]
    BY <1>2, <1>3, ConcatProperties
  <2>2. Len(a) + Len(b) = Len(lru) - 1
    BY <1>0, <1>1, <1>2, <1>3
  <2> QED
    BY <1>2, <2>1, <2>2
<1> HIDE DEF s
<1>5. /\ t \in Seq(Bufs) /\ Len(t) = Len(lru)
      /\ t[1] = k /\ \A j \in 2 .. Len(t) : t[j] = s[j - 1]
  <2>1. <<k>> \in Seq(Bufs) /\ Len(<<k>>) = 1 /\ <<k>>[1] = k
    OBVIOUS
  <2>2. /\ t \in Seq(Bufs) /\ Len(t) = 1 + Len(s)
        /\ \A j \in 1 .. 1 + Len(s) : t[j] = IF j <= 1 THEN <<k>>[j] ELSE s[j - 1]
    BY <1>4, <2>1, ConcatProperties
  <2>3. 1 + Len(s) = Len(lru) /\ Len(lru) \in Nat \ {0}
    BY <1>0, <1>1, <1>4
  <2> HIDE DEF t
  <2> QED
    BY <2>1, <2>2, <2>3
<1>6. t = ToHead(k)
  BY DEF t, s, a, b, i, ToHead, RemoveAt
<1> HIDE DEF t
<1>7. ASSUME NEW x \in Bufs PROVE \E j \in DOMAIN t : t[j] = x
  <2>1. PICK j \in 1 .. Len(lru) : lru[j] = x
    BY <1>0 DEF ListInv, ToSet
  <2>2. CASE j = i
    BY <1>0, <1>1, <1>5, <2>1, <2>2
  <2>3. CASE j < i
    <3>1. j \in 1 .. i - 1 /\ j + 1 \in 2 .. Len(t) /\ j \in 1 .. Len(s) /\ (j + 1) - 1 = j
      BY <1>0, <1>1, <1>4, <1>5, <2>3
    <3>2. a[j] = x /\ s[j] = a[j]
      BY <1>2, <1>4, <2>1, <3>1
    <3>3. t[j + 1] = x
      BY <1>5, <3>1, <3>2
    <3> QED
      BY <1>5, <3>1, <3>3
  <2>4. CASE j > i
    <3>1. /\ j - i \in 1 .. Len(lru) - i /\ j \in 2 .. Len(t) /\ j - 1 \in 1 .. Len(s)
          /\ ~(j - 1 <= i - 1) /\ (j - 1) - (i - 1) = j - i /\ i + (j - i) = j
      BY <1>0, <1>1, <1>4, <1>5, <2>4
    <3>2. b[j - i] = x /\ s[j - 1] = b[j - i]
      BY <1>3, <1>4, <2>1, <3>1
    <3>3. t[j] = x
      BY <1>5, <3>1, <3>2
    <3> QED
      BY <1>5, <3>1, <3>3
  <2> QED
    BY <1>1, <2>2, <2>3, <2>4
<1>8. ToSet(t) = Bufs
  BY <1>5, <1>7 DEF ToSet
<1> QED
  BY <1>5, <1>6, <1>8 DEF ListInv

(***************************************************************************)
(* The counts.                                                             *)
(***************************************************************************)
LEMMA UsersFinite ==
  ASSUME NEW k
  PROVE  /\ IsFiniteSet(Users(k)) /\ Cardinality(Users(k)) \in Nat
         /\ Cardinality(Users(k)) <= Cardinality(Clients) /\ Cardinality(Clients) \in Nat
<1>1. Users(k) \in SUBSET Clients /\ IsFiniteSet(Clients)
  BY BcacheAssumption DEF Users
<1> QED
  BY <1>1, FS_Subset, FS_CardinalityType

\* bget() panics only when every buffer is taken.
LEMMA NoneLeft ==
  ASSUME CountInv, Recyclable = {}
  PROVE  AllTaken
<1> SUFFICES ASSUME NEW k \in Bufs, k \notin logpins PROVE Users(k) # {}
  BY DEF AllTaken
<1>1. refcnt[k] # 0 /\ refcnt[k] = Cardinality(Users(k)) + 0
  BY DEF Recyclable, CountInv, Pin
<1> QED
  BY <1>1, FS_EmptySet

\* bget() counts one more user of its buffer,
LEMMA CountBget ==
  ASSUME BcTypes, CountInv, NEW p \in Clients, NEW k \in Bufs,
         where[p] = "out", where' = [where EXCEPT ![p] = "acquire"],
         mine' = [mine EXCEPT ![p] = k], refcnt' = [refcnt EXCEPT ![k] = @ + 1],
         logpins' = logpins
  PROVE  CountInv'
<1>1. Users(k)' = Users(k) \cup {p} /\ p \notin Users(k)
  BY DEF Users, Using, BcTypes
<1>2. \A j \in Bufs \ {k} : Users(j)' = Users(j)
  BY DEF Users, Using, BcTypes
<1>3. Cardinality(Users(k)') = Cardinality(Users(k)) + 1
  BY <1>1, UsersFinite, FS_AddElement
<1>4. \A j \in Bufs : Pin(j)' = Pin(j) /\ Pin(j) \in Nat
  BY DEF Pin
<1>5. refcnt' \in [Bufs -> Nat]
  BY DEF CountInv
<1>6. refcnt'[k] = Cardinality(Users(k)') + Pin(k)'
  BY <1>3, <1>4, UsersFinite DEF CountInv
<1>7. \A j \in Bufs \ {k} : refcnt'[j] = Cardinality(Users(j)') + Pin(j)'
  BY <1>2, <1>4 DEF CountInv
<1> QED
  BY <1>5, <1>6, <1>7 DEF CountInv

\* brelse() one less,
LEMMA CountBrelse ==
  ASSUME BcTypes, CountInv, NEW p \in Clients, where[p] = "brelse",
         where' = [where EXCEPT ![p] = "out"], mine' = mine,
         refcnt' = [refcnt EXCEPT ![mine[p]] = @ - 1], logpins' = logpins
  PROVE  CountInv'
<1>k. PICK k \in Bufs : k = mine[p]
  BY DEF BcTypes
<1>1. Users(k)' = Users(k) \ {p} /\ p \in Users(k)
  BY <1>k DEF Users, Using, BcTypes
<1>2. \A j \in Bufs \ {k} : Users(j)' = Users(j)
  BY <1>k DEF Users, Using, BcTypes
<1>r. refcnt' = [refcnt EXCEPT ![k] = @ - 1]
  BY <1>k
<1>3. Cardinality(Users(k)') = Cardinality(Users(k)) - 1
  BY <1>1, UsersFinite, FS_RemoveElement
<1>4. \A j \in Bufs : Pin(j)' = Pin(j) /\ Pin(j) \in Nat
  BY DEF Pin
<1>5. Cardinality(Users(k)) # 0
  BY <1>1, UsersFinite, FS_EmptySet
<1>6. refcnt'[k] = Cardinality(Users(k)') + Pin(k)' /\ refcnt'[k] \in Nat
  <2>1. /\ refcnt'[k] = refcnt[k] - 1 /\ refcnt[k] = Cardinality(Users(k)) + Pin(k)
        /\ Pin(k)' = Pin(k) /\ Pin(k) \in Nat
    BY <1>r, <1>4 DEF CountInv
  <2>2. Cardinality(Users(k)) \in Nat
    BY UsersFinite
  <2> QED
    BY <1>3, <1>5, <2>1, <2>2
<1>7. \A j \in Bufs \ {k} :
        refcnt'[j] = Cardinality(Users(j)') + Pin(j)' /\ refcnt'[j] \in Nat
  BY <1>r, <1>2, <1>4 DEF CountInv
<1>8. refcnt' \in [Bufs -> Nat]
  BY <1>r, <1>6, <1>7 DEF CountInv
<1> QED
  BY <1>6, <1>7, <1>8 DEF CountInv

\* and nobody in between comes or goes.
LEMMA UsersSame ==
  ASSUME BcTypes, NEW p \in Clients, NEW w,
         where[p] \notin {"out", "panic"}, w \notin {"out", "panic"},
         where' = [where EXCEPT ![p] = w], mine' = mine
  PROVE  \A k : Users(k)' = Users(k)
BY DEF Users, Using, BcTypes

LEMMA CountSame ==
  ASSUME CountInv, \A k : Users(k)' = Users(k), UNCHANGED <<refcnt, logpins>>
  PROVE  CountInv'
<1>1. \A k : Pin(k)' = Pin(k)
  BY DEF Pin
<1> QED
  BY <1>1 DEF CountInv

LEMMA CountLogPin ==
  ASSUME BcTypes, CountInv, NEW p \in Clients, LogPin(p)
  PROVE  CountInv'
<1>k. PICK k \in Bufs : k = mine[p]
  BY DEF BcTypes
<1>1. \A j : Users(j)' = Users(j)
  BY UsersSame DEF LogPin
<1>2. logpins' = logpins \cup {k} /\ refcnt' = PinCount(k)
  BY <1>k DEF LogPin
<1>4. CASE k \in logpins
  <2>1. logpins' = logpins /\ refcnt' = refcnt
    BY <1>2, <1>4 DEF PinCount
  <2> QED
    BY <1>1, <2>1, CountSame
<1>5. CASE k \notin logpins
  <2>1. refcnt' = [refcnt EXCEPT ![k] = @ + 1]
    BY <1>2, <1>5 DEF PinCount
  <2>2. Pin(k) = 0 /\ Pin(k)' = 1 /\ \A j \in Bufs \ {k} : Pin(j)' = Pin(j)
    BY <1>2, <1>5 DEF Pin
  <2>3. refcnt' \in [Bufs -> Nat]
    BY <2>1 DEF CountInv
  <2>4. refcnt'[k] = Cardinality(Users(k)') + Pin(k)'
    BY <1>1, <1>2, <2>1, <2>2, UsersFinite DEF CountInv
  <2>5. \A j \in Bufs \ {k} : refcnt'[j] = Cardinality(Users(j)') + Pin(j)'
    BY <1>1, <1>2, <2>1, <2>2 DEF CountInv
  <2> QED
    BY <2>3, <2>4, <2>5 DEF CountInv
<1> QED
  BY <1>4, <1>5

LEMMA CountInstall ==
  ASSUME BcTypes, CountInv, NEW p \in Clients, Install(p)
  PROVE  CountInv'
<1>k. PICK k \in Bufs : k = mine[p]
  BY DEF BcTypes
<1>1. \A j : Users(j)' = Users(j)
  BY DEF Install, Users, Using
<1>2. /\ k \in logpins /\ logpins' = logpins \ {k}
      /\ refcnt' = [refcnt EXCEPT ![k] = @ - 1]
  BY <1>k DEF Install
<1>4. Pin(k) = 1 /\ Pin(k)' = 0 /\ \A j \in Bufs \ {k} : Pin(j)' = Pin(j)
  BY <1>2 DEF Pin
<1>5. refcnt'[k] = Cardinality(Users(k)') + Pin(k)' /\ refcnt'[k] \in Nat
  BY <1>1, <1>2, <1>4, UsersFinite DEF CountInv
<1>6. \A j \in Bufs \ {k} : refcnt'[j] = Cardinality(Users(j)') + Pin(j)'
  BY <1>1, <1>2, <1>4 DEF CountInv
<1>7. refcnt' \in [Bufs -> Nat]
  BY <1>2, <1>5 DEF CountInv
<1> QED
  BY <1>5, <1>6, <1>7 DEF CountInv

\* The buffer that bget() recycles has no user and no pin.
LEMMA RecycledFree ==
  ASSUME BcTypes, ListInv, CountInv, Recyclable # {}
  PROVE  /\ LeastRecent \in Bufs /\ refcnt[LeastRecent] = 0
         /\ LeastRecent \notin logpins
         /\ \A q \in Clients : Using(q) => mine[q] # LeastRecent
<1> DEFINE k == LeastRecent
<1>1. k \in Bufs /\ refcnt[k] = 0
  BY LeastRecentIs DEF Recyclable
<1> HIDE DEF k
<1>2. Cardinality(Users(k)) + Pin(k) = 0 /\ Pin(k) \in {0, 1}
  BY <1>1 DEF CountInv, Pin
<1>3. Cardinality(Users(k)) = 0 /\ Pin(k) = 0
  BY <1>2, UsersFinite
<1>4. Users(k) = {}
  BY <1>3, UsersFinite, FS_EmptySet
<1>5. k \notin logpins
  BY <1>3 DEF Pin
<1>6. \A q \in Clients : Using(q) => mine[q] # k
  BY <1>4 DEF Users
<1> QED
  BY <1>1, <1>5, <1>6 DEF k

(***************************************************************************)
(* The invariant.                                                          *)
(***************************************************************************)
LEMMA BcTypesStep == BcInv /\ BcNext => BcTypes'
<1> SUFFICES ASSUME BcInv, NEW p \in Clients,
                    \/ \E b \in Blocknos : BgetHit(p, b) \/ BgetMiss(p, b) \/ BgetPanic(p, b)
                    \/ BufAcquire(p) \/ Bread(p) \/ \E c \in BufContents : Store(p, c)
                    \/ Bwrite(p) \/ LogPin(p) \/ Install(p) \/ BrelseUnlock(p) \/ Brelse(p)
             PROVE  BcTypes'
  BY DEF BcNext
<1> USE DEF BcTypes
<1>0. BcTypes /\ UseInv /\ ListInv /\ CountInv
  BY DEF BcInv
<1>1. ASSUME NEW b \in Blocknos, BgetHit(p, b) PROVE BcTypes'
  BY <1>0, <1>1 DEF BgetHit, Cached
<1>2. ASSUME NEW b \in Blocknos, BgetMiss(p, b) PROVE BcTypes'
  <2>1. LeastRecent \in Bufs
    BY <1>0, <1>2, RecycledFree DEF BgetMiss
  <2> QED
    BY <1>0, <1>2, <2>1 DEF BgetMiss
<1>3. CASE BufAcquire(p)
  BY <1>0, <1>3 DEF BufAcquire
<1>4. CASE Bread(p)
  <2>1. blockno[mine[p]] \in Blocknos
    BY <1>0, <1>4 DEF Bread, UseInv, Using
  <2> QED
    BY <1>0, <1>4, <2>1 DEF Bread
<1>5. ASSUME NEW c \in BufContents, Store(p, c) PROVE BcTypes'
  BY <1>0, <1>5 DEF Store
<1>6. CASE Bwrite(p)
  BY <1>0, <1>6 DEF Bwrite, bufVars
<1>7. CASE LogPin(p)
  BY <1>0, <1>7 DEF LogPin
<1>8. CASE Install(p)
  BY <1>0, <1>8 DEF Install
<1>9. CASE BrelseUnlock(p)
  BY <1>0, <1>9 DEF BrelseUnlock
<1>10. CASE Brelse(p)
  BY <1>0, <1>10 DEF Brelse
<1>11. ASSUME NEW b \in Blocknos, BgetPanic(p, b) PROVE BcTypes'
  BY <1>0, <1>11 DEF BgetPanic, bufVars
<1> QED
  BY <1>1, <1>2, <1>3, <1>4, <1>5, <1>6, <1>7, <1>8, <1>9, <1>10, <1>11

LEMMA ListStep == BcInv /\ BcNext => ListInv'
<1> SUFFICES ASSUME BcInv, BcNext PROVE ListInv'
  OBVIOUS
<1>1. lru' = lru \/ \E p \in Clients : lru' = ToHead(mine[p])
  BY DEF BcNext, BgetHit, BgetMiss, BgetPanic, BufAcquire, Bread, Store, Bwrite, bufVars, LogPin,
         Install, BrelseUnlock, Brelse
<1>2. CASE lru' = lru
  BY <1>2 DEF BcInv, ListInv
<1>3. ASSUME NEW p \in Clients, lru' = ToHead(mine[p]) PROVE ListInv'
  <2>1. mine[p] \in Bufs /\ ListInv
    BY DEF BcInv, BcTypes
  <2> QED
    BY <1>3, <2>1, ToHeadKeeps DEF ListInv
<1> QED
  BY <1>1, <1>2, <1>3

LEMMA CountStep == BcInv /\ BcNext => CountInv' /\ PanicInv'
<1> SUFFICES ASSUME BcInv, NEW p \in Clients,
                    \/ \E b \in Blocknos : BgetHit(p, b) \/ BgetMiss(p, b) \/ BgetPanic(p, b)
                    \/ BufAcquire(p) \/ Bread(p) \/ \E c \in BufContents : Store(p, c)
                    \/ Bwrite(p) \/ LogPin(p) \/ Install(p) \/ BrelseUnlock(p) \/ Brelse(p)
             PROVE  CountInv' /\ PanicInv'
  BY DEF BcNext
<1>0. BcTypes /\ ListInv /\ CountInv /\ PanicInv
  BY DEF BcInv
<1>f. ASSUME BcacheFree, NEW w, w # "panic", where' = [where EXCEPT ![p] = w]
      PROVE  PanicInv'
  BY <1>0, <1>f DEF PanicInv, BcacheFree, BcTypes
<1>1. ASSUME NEW b \in Blocknos, BgetHit(p, b) PROVE CountInv' /\ PanicInv'
  <2>1. CountInv'
    BY <1>0, <1>1, CountBget DEF BgetHit, Cached
  <2> QED
    BY <1>1, <1>f, <2>1 DEF BgetHit
<1>2. ASSUME NEW b \in Blocknos, BgetMiss(p, b) PROVE CountInv' /\ PanicInv'
  <2>1. PICK k \in Bufs : k = LeastRecent /\ refcnt[k] = 0
    BY <1>0, <1>2, RecycledFree DEF BgetMiss
  <2>2. refcnt' = [refcnt EXCEPT ![k] = @ + 1]
    BY <1>2, <2>1 DEF BgetMiss
  <2>3. CountInv'
    BY <1>0, <1>2, <2>1, <2>2, CountBget DEF BgetMiss
  <2> QED
    BY <1>2, <1>f, <2>3 DEF BgetMiss
<1>3. ASSUME NEW b \in Blocknos, BgetPanic(p, b) PROVE CountInv' /\ PanicInv'
  <2>1. /\ where[p] = "out" /\ where' = [where EXCEPT ![p] = "panic"]
        /\ UNCHANGED <<refcnt, logpins, mine>> /\ Recyclable = {}
    BY <1>3 DEF BgetPanic, bufVars
  <2>2. \A k : Users(k)' = Users(k)
    BY <1>0, <2>1 DEF Users, Using, BcTypes
  <2>3. AllTaken'
    BY <1>0, <2>1, <2>2, NoneLeft DEF AllTaken
  <2> QED
    BY <1>0, <2>1, <2>2, <2>3, CountSame DEF PanicInv
<1>4. CASE \/ BufAcquire(p) \/ Bread(p) \/ \E c \in BufContents : Store(p, c)
           \/ Bwrite(p) \/ BrelseUnlock(p)
  <2>1. /\ where[p] \notin {"out", "panic"} /\ UNCHANGED <<refcnt, logpins, mine>>
        /\ \E w : w \notin {"out", "panic"} /\ where' = [where EXCEPT ![p] = w]
    BY <1>4 DEF BufAcquire, Bread, Store, Bwrite, bufVars, BrelseUnlock
  <2>2. \A k : Users(k)' = Users(k)
    BY <1>0, <2>1, UsersSame
  <2>3. CountInv'
    BY <1>0, <2>1, <2>2, CountSame
  <2>4. BcacheFree => BcacheFree'
    BY <1>0, <2>1 DEF BcacheFree, BcTypes
  <2> QED
    BY <1>0, <2>1, <2>2, <2>3, <2>4 DEF PanicInv, AllTaken
<1>5. CASE LogPin(p)
  <2>1. CountInv'
    BY <1>0, <1>5, CountLogPin
  <2>2. CASE BcacheFree
    BY <1>5, <1>f, <2>1, <2>2 DEF LogPin
  <2>3. CASE ~BcacheFree
    <3>1. \A k : Users(k)' = Users(k)
      BY <1>0, <1>5, UsersSame DEF LogPin
    <3>2. logpins \subseteq logpins'
      BY <1>5 DEF LogPin
    <3> QED
      BY <1>0, <2>1, <2>3, <3>1, <3>2 DEF PanicInv, AllTaken
  <2> QED
    BY <2>2, <2>3
<1>6. CASE Install(p)
  <2>1. CountInv'
    BY <1>0, <1>6, CountInstall
  <2> QED
    BY <1>6, <2>1 DEF Install, PanicInv, BcacheFree
<1>7. CASE Brelse(p)
  <2>1. CountInv'
    BY <1>0, <1>7, CountBrelse DEF Brelse
  <2> QED
    BY <1>7, <1>f, <2>1 DEF Brelse
<1> QED
  BY <1>1, <1>2, <1>3, <1>4, <1>5, <1>6, <1>7

LEMMA ContentStep == BcInv /\ BcNext => OneBuffer' /\ UseInv' /\ DataInv'
<1> SUFFICES ASSUME BcInv, NEW p \in Clients,
                    \/ \E b \in Blocknos : BgetHit(p, b) \/ BgetMiss(p, b) \/ BgetPanic(p, b)
                    \/ BufAcquire(p) \/ Bread(p) \/ \E c \in BufContents : Store(p, c)
                    \/ Bwrite(p) \/ LogPin(p) \/ Install(p) \/ BrelseUnlock(p) \/ Brelse(p)
             PROVE  OneBuffer' /\ UseInv' /\ DataInv'
  BY DEF BcNext
<1> USE DEF Using
<1>0. BcTypes /\ ListInv /\ CountInv /\ OneBuffer /\ UseInv /\ DataInv
  BY DEF BcInv
<1>n. NoClient \notin Clients /\ NoBlock \notin Blocknos
  BY BcacheAssumption
<1>1. ASSUME NEW b \in Blocknos, BgetHit(p, b) PROVE OneBuffer' /\ UseInv' /\ DataInv'
  <2>1. PICK k \in Cached(b) : mine' = [mine EXCEPT ![p] = k]
    BY <1>1 DEF BgetHit
  <2>2. k \in Bufs /\ blockno[k] = b
    BY <2>1 DEF Cached
  <2>3. OneBuffer'
    BY <1>0, <1>1 DEF OneBuffer, BgetHit
  <2>4. UseInv'
    BY <1>0, <1>n, <1>1, <2>1, <2>2 DEF UseInv, BcTypes, BgetHit
  <2>5. \A j \in Bufs : Owed(j) => Owed(j)'
    BY <1>0, <1>1, <2>1 DEF Owed, BcTypes, BgetHit
  <2>6. DataInv'
    BY <1>0, <1>1, <2>5 DEF DataInv, BgetHit
  <2> QED
    BY <2>3, <2>4, <2>6
<1>2. ASSUME NEW b \in Blocknos, BgetMiss(p, b) PROVE OneBuffer' /\ UseInv' /\ DataInv'
  <2>1. PICK k \in Bufs : /\ k = LeastRecent /\ k \notin logpins
                          /\ \A q \in Clients : Using(q) => mine[q] # k
    BY <1>0, <1>2, RecycledFree DEF BgetMiss
  <2>2. /\ where[p] = "out" /\ \A j \in Bufs : blockno[j] # b
        /\ blockno' = [blockno EXCEPT ![k] = b] /\ valid' = [valid EXCEPT ![k] = FALSE]
        /\ mine' = [mine EXCEPT ![p] = k] /\ where' = [where EXCEPT ![p] = "acquire"]
        /\ UNCHANGED <<content, bufLock, platter, logpins, latest>>
    BY <1>2, <2>1 DEF BgetMiss, Cached
  <2>3. OneBuffer'
    BY <1>0, <2>2 DEF OneBuffer, BcTypes
  <2>4. UseInv'
    BY <1>0, <1>n, <2>1, <2>2 DEF UseInv, BcTypes
  <2>5. \A j \in Bufs : Owed(j) => Owed(j)' /\ j # k
    BY <1>0, <2>1, <2>2 DEF Owed, BcTypes
  <2>6. DataInv'
    BY <1>0, <2>2, <2>5 DEF DataInv, BcTypes
  <2> QED
    BY <2>3, <2>4, <2>6
<1>3. CASE BufAcquire(p)
  <2>1. \A j \in Bufs : Owed(j) => Owed(j)'
    BY <1>0, <1>3 DEF Owed, BcTypes, BufAcquire
  <2>2. OneBuffer' /\ DataInv'
    BY <1>0, <1>3, <2>1 DEF OneBuffer, DataInv, BufAcquire
  <2>3. UseInv'
    BY <1>0, <1>n, <1>3 DEF UseInv, BcTypes, BufAcquire
  <2> QED
    BY <2>2, <2>3
<1>4. CASE Bread(p)
  <2>1. PICK k \in Bufs : k = mine[p]
    BY <1>0 DEF BcTypes
  <2>2. /\ where[p] = "bread" /\ valid' = [valid EXCEPT ![k] = TRUE]
        /\ content' = [content EXCEPT ![k] = IF ~valid[k] THEN platter[blockno[k]] ELSE @]
        /\ where' = [where EXCEPT ![p] = "has"]
        /\ UNCHANGED <<blockno, refcnt, bufLock, lru, platter, mine, logpins, latest>>
    BY <1>4, <2>1 DEF Bread, MustRead
  <2>3. blockno[k] \in Blocknos
    BY <1>0, <2>1, <2>2 DEF BcTypes, UseInv
  <2>4. ~valid[k] => platter[blockno[k]] = latest[blockno[k]]
    BY <1>0, <1>n, <2>3 DEF DataInv, OneBuffer
  <2>5. \A j \in Bufs : Owed(j) => Owed(j)'
    BY <1>0, <2>2 DEF Owed, BcTypes
  <2>6. OneBuffer' /\ UseInv'
    BY <1>0, <2>1, <2>2 DEF OneBuffer, UseInv, BcTypes
  <2>7. DataInv'
    BY <1>0, <1>n, <2>2, <2>3, <2>4, <2>5 DEF DataInv, BcTypes
  <2> QED
    BY <2>6, <2>7
<1>5. ASSUME NEW c \in BufContents, Store(p, c) PROVE OneBuffer' /\ UseInv' /\ DataInv'
  <2>1. PICK k \in Bufs : k = mine[p]
    BY <1>0 DEF BcTypes
  <2>2. /\ where[p] = "has" /\ content' = [content EXCEPT ![k] = c]
        /\ latest' = [latest EXCEPT ![blockno[k]] = c]
        /\ where' = [where EXCEPT ![p] = "dirty"]
        /\ UNCHANGED <<blockno, valid, bufLock, platter, mine, logpins>>
    BY <1>5, <2>1 DEF Store
  <2>3. blockno[k] \in Blocknos /\ valid[k]
    BY <1>0, <2>1, <2>2 DEF BcTypes, UseInv
  <2>4. \A j \in Bufs : Owed(j) => Owed(j)'
    BY <1>0, <2>2 DEF Owed, BcTypes
  <2>5. Owed(k)'
    BY <1>0, <2>1, <2>2 DEF Owed, BcTypes
  <2>6. OneBuffer' /\ UseInv'
    BY <1>0, <2>1, <2>2 DEF OneBuffer, UseInv, BcTypes
  <2>7. \A j \in Bufs : j # k => blockno[j] # blockno[k]
    BY <1>0, <1>n, <2>3 DEF OneBuffer
  <2>8. DataInv'
    BY <1>0, <2>2, <2>3, <2>4, <2>5, <2>7 DEF DataInv, BcTypes
  <2> QED
    BY <2>6, <2>8
<1>6. CASE Bwrite(p) \/ Install(p)
  <2>1. PICK k \in Bufs : k = mine[p]
    BY <1>0 DEF BcTypes
  <2>2. /\ where[p] \in {"has", "dirty"}
        /\ platter' = [platter EXCEPT ![blockno[k]] = content[k]]
        /\ where' = [where EXCEPT ![p] = "has"] /\ logpins' = logpins \ {k}
        /\ UNCHANGED <<blockno, valid, content, bufLock, mine, latest>>
    BY <1>0, <1>6, <2>1 DEF Bwrite, Install, bufVars, BcTypes
  <2>3. blockno[k] \in Blocknos /\ content[k] = latest[blockno[k]]
    BY <1>0, <2>1, <2>2 DEF BcTypes, UseInv, DataInv
  <2>4. \A j \in Bufs : Owed(j) /\ j # k => Owed(j)'
    BY <1>0, <2>1, <2>2 DEF Owed, BcTypes
  <2>5. OneBuffer' /\ UseInv'
    BY <1>0, <2>2 DEF OneBuffer, UseInv, BcTypes
  <2>6. DataInv'
    BY <1>0, <2>2, <2>3, <2>4 DEF DataInv, BcTypes
  <2> QED
    BY <2>5, <2>6
<1>7. CASE LogPin(p)
  <2>1. PICK k \in Bufs : k = mine[p]
    BY <1>0 DEF BcTypes
  <2>2. /\ where[p] = "dirty" /\ where' = [where EXCEPT ![p] = "has"]
        /\ logpins' = logpins \cup {k}
        /\ UNCHANGED <<blockno, valid, content, bufLock, platter, mine, latest>>
    BY <1>7, <2>1 DEF LogPin
  <2>3. \A j \in Bufs : Owed(j) => Owed(j)'
    BY <1>0, <2>1, <2>2 DEF Owed, BcTypes
  <2>4. OneBuffer' /\ UseInv'
    BY <1>0, <2>1, <2>2 DEF OneBuffer, UseInv, BcTypes
  <2>5. DataInv'
    BY <1>0, <2>2, <2>3 DEF DataInv
  <2> QED
    BY <2>4, <2>5
<1>8. CASE BrelseUnlock(p)
  <2>1. \A j \in Bufs : Owed(j) => Owed(j)'
    BY <1>0, <1>8 DEF Owed, BcTypes, BrelseUnlock
  <2>2. OneBuffer' /\ DataInv'
    BY <1>0, <1>8, <2>1 DEF OneBuffer, DataInv, BrelseUnlock
  <2>3. UseInv'
    BY <1>0, <1>8 DEF UseInv, BcTypes, BrelseUnlock
  <2> QED
    BY <2>2, <2>3
<1>9. CASE Brelse(p)
  <2>1. \A j \in Bufs : Owed(j) => Owed(j)'
    BY <1>0, <1>9 DEF Owed, BcTypes, Brelse
  <2>2. OneBuffer' /\ DataInv'
    BY <1>0, <1>9, <2>1 DEF OneBuffer, DataInv, Brelse
  <2>3. UseInv'
    BY <1>0, <1>9 DEF UseInv, BcTypes, Brelse
  <2> QED
    BY <2>2, <2>3
<1>10. ASSUME NEW b \in Blocknos, BgetPanic(p, b) PROVE OneBuffer' /\ UseInv' /\ DataInv'
  <2>1. /\ where[p] = "out" /\ where' = [where EXCEPT ![p] = "panic"]
        /\ UNCHANGED <<blockno, valid, content, bufLock, platter, mine, logpins, latest>>
    BY <1>10 DEF BgetPanic, bufVars
  <2>2. \A j \in Bufs : Owed(j) => Owed(j)'
    BY <1>0, <2>1 DEF Owed, BcTypes
  <2>3. OneBuffer' /\ DataInv'
    BY <1>0, <2>1, <2>2 DEF OneBuffer, DataInv
  <2>4. UseInv'
    BY <1>0, <2>1 DEF UseInv, BcTypes
  <2> QED
    BY <2>3, <2>4
<1> QED
  BY <1>1, <1>2, <1>3, <1>4, <1>5, <1>6, <1>7, <1>8, <1>9, <1>10

\* binit() puts every buffer on the list.
LEMMA SetToSeqIs ==
  LET s == SetToSeq(Bufs)
  IN  s \in Seq(Bufs) /\ ToSet(s) = Bufs /\ Len(s) = Cardinality(Bufs)
<1> DEFINE n == Cardinality(Bufs)
           s == SetToSeq(Bufs)
<1>1. n \in Nat /\ IsFiniteSet(Bufs) /\ ExistsBijection(1 .. n, Bufs)
  BY BcacheAssumption, FS_CardinalityType
<1>2. \E f \in [1 .. n -> Bufs] : IsInjective(f)
  BY <1>1 DEF ExistsBijection, Bijection, Injection
<1>3. s \in [1 .. n -> Bufs] /\ IsInjective(s)
  BY <1>2 DEF SetToSeq
<1> HIDE DEF s
<1>4. s \in Injection(1 .. n, Bufs)
  BY <1>3 DEF Injection
<1>5. Cardinality(1 .. n) = n
  BY <1>1, FS_Interval
<1>6. s \in Surjection(1 .. n, Bufs)
  BY <1>1, <1>4, <1>5, FS_Injection
<1>7. \A k \in Bufs : \E i \in 1 .. n : s[i] = k
  BY <1>6 DEF Surjection
<1>8. s \in Seq(Bufs) /\ Len(s) = n
  BY <1>1, <1>3
<1>9. ToSet(s) = Bufs
  BY <1>3, <1>7 DEF ToSet
<1> QED
  BY <1>8, <1>9 DEF s

LEMMA BcInvInit == BcInit => BcInv
<1> SUFFICES ASSUME BcInit PROVE BcInv
  OBVIOUS
<1>0. Bufs # {}
  BY BcacheAssumption
<1>1. BcTypes
  <2>1. (CHOOSE k \in Bufs : TRUE) \in Bufs
    BY <1>0
  <2> QED
    BY <2>1 DEF BcInit, BcTypes
<1>2. ListInv
  BY SetToSeqIs DEF BcInit, ListInv
<1>3. CountInv /\ PanicInv
  <2>1. \A k : Users(k) = {}
    BY DEF BcInit, Users, Using
  <2>2. \A k : Pin(k) = 0
    BY DEF BcInit, Pin
  <2>3. refcnt = [k \in Bufs |-> 0] /\ BcacheFree
    BY DEF BcInit, BcacheFree
  <2> QED
    BY <2>1, <2>2, <2>3, FS_EmptySet DEF CountInv, PanicInv
<1>4. OneBuffer /\ UseInv /\ DataInv
  BY DEF BcInit, OneBuffer, UseInv, DataInv, Using
<1> QED
  BY <1>1, <1>2, <1>3, <1>4 DEF BcInv

LEMMA BcInvStep == BcInv /\ [BcNext]_bcVars => BcInv'
<1>1. BcInv /\ BcNext => BcInv'
  BY BcTypesStep, ListStep, CountStep, ContentStep DEF BcInv
<1>2. ASSUME BcInv, UNCHANGED bcVars PROVE BcInv'
  <2> USE <1>2 DEF bcVars
  <2>1. BcTypes' /\ ListInv'
    BY DEF BcInv, BcTypes, ListInv
  <2>2. CountInv' /\ PanicInv'
    <3>1. \A k : Users(k)' = Users(k)
      BY DEF Users, Using
    <3> QED
      BY <3>1, CountSame DEF BcInv, PanicInv, AllTaken, BcacheFree
  <2>3. OneBuffer' /\ UseInv' /\ DataInv'
    BY DEF BcInv, OneBuffer, UseInv, DataInv, Owed, Using
  <2> QED
    BY <2>1, <2>2, <2>3 DEF BcInv
<1> QED
  BY <1>1, <1>2

\* Everyone who has read a block sees what was last stored in it, in whatever
\* order buffers were recycled, pinned and written, for any number of clients and
\* of pins; bget() takes only a buffer that nobody uses, and panics only while
\* every buffer is in use or pinned.
THEOREM CacheIsSound == BcSpec => []CacheSound
<1>1. ASSUME BcInv PROVE CacheSound
  <2>0. BcTypes /\ ListInv /\ CountInv /\ PanicInv /\ OneBuffer /\ UseInv /\ DataInv
    BY <1>1 DEF BcInv
  <2>1. \A k \in Bufs : refcnt[k] \in 0 .. Cardinality(Clients) + 1
    <3> SUFFICES ASSUME NEW k \in Bufs PROVE refcnt[k] \in 0 .. Cardinality(Clients) + 1
      OBVIOUS
    <3>1. refcnt[k] = Cardinality(Users(k)) + Pin(k) /\ Pin(k) \in 0 .. 1
      BY <2>0 DEF CountInv, Pin
    <3> QED
      BY <3>1, UsersFinite
  <2>2. BcTypeOK
    BY <2>0, <2>1 DEF BcTypes, ListInv, CountInv, BcTypeOK
  <2>3. CacheCoherent
    BY <2>0 DEF BcTypes, OneBuffer, UseInv, DataInv, CacheCoherent, Using
  <2>4. RefsExact
    BY <2>0 DEF CountInv, PanicInv, AllTaken, Users, Pin, RefsExact
  <2> QED
    BY <2>2, <2>3, <2>4 DEF CacheSound
<1> QED
  BY <1>1, BcInvInit, BcInvStep, PTL DEF BcSpec
=============================================================================
