------------------------------- MODULE Bcache -------------------------------
(***************************************************************************)
(* The buffer cache of kernel/bio.c and how the log uses it: processes     *)
(* that read a block, change it under the buffer's sleep lock, and either  *)
(* write it at once (bwrite) or pin it for the next commit (log_write).    *)
(*                                                                         *)
(* A section under bcache.lock is one step; panic() in bget() keeps that   *)
(* lock for ever.  A client is one use of a buffer, from bread() to        *)
(* brelse(): a process that holds two of them (bmap(), install_trans()) is *)
(* two clients.  How much the log takes is the subject of Log, the driver  *)
(* under the disk of VirtioDisk, and a write that fails half-way, and logs *)
(* nothing of what it stored, of FileData.                                 *)
(***************************************************************************)
EXTENDS Naturals, FiniteSets, SequencesExt

CONSTANTS
  Bufs, Blocknos, NoBlock,     \* the NBUF buffers, the blocks of the disk
  Clients, NoClient,           \* uses of a buffer that can be under way at once
  BufContents                   \* what a block can hold

\* Finite tables, one buffer at least, and names for nobody and no block.
ASSUME BcacheAssumption ==
  /\ IsFiniteSet(Bufs) /\ IsFiniteSet(Clients) /\ Bufs # {}
  /\ NoClient \notin Clients /\ NoBlock \notin Blocknos

VARIABLES
  blockno, valid, refcnt, content,    \* struct buf
  bufLock,                            \* holder of b->lock
  lru,                                \* the list, most recently used first
  platter,
  where, mine,                        \* each client: its place, its buffer
  logpins,                             \* buffers the log has pinned
  latest                              \* the last content stored (history)

bcVars == <<blockno, valid, refcnt, content, bufLock, lru, platter, where, mine, logpins, latest>>
bufVars == <<blockno, valid, refcnt, content, bufLock, lru>>

\* binit(): every buffer on the list, none of them for a block
BcInit ==
  /\ blockno = [k \in Bufs |-> NoBlock]
  /\ valid = [k \in Bufs |-> FALSE]
  /\ refcnt = [k \in Bufs |-> 0]
  /\ \E c \in BufContents :
       /\ content = [k \in Bufs |-> c]
       /\ platter = [b \in Blocknos |-> c] /\ latest = [b \in Blocknos |-> c]
  /\ bufLock = [k \in Bufs |-> NoClient]
  /\ lru = SetToSeq(Bufs)
  /\ where = [p \in Clients |-> "out"]
  /\ mine = [p \in Clients |-> CHOOSE k \in Bufs : TRUE]
  /\ logpins = {}

Cached(b) == {k \in Bufs : blockno[k] = b}

Recyclable == {k \in Bufs : refcnt[k] = 0}

\* the last of the list that nobody refers to
LeastRecent == lru[CHOOSE i \in 1 .. Len(lru) :
                     /\ lru[i] \in Recyclable
                     /\ \A j \in i + 1 .. Len(lru) : lru[j] \notin Recyclable]

\* acquire(&bcache.lock) returns: nobody is in panic() with it
BcacheFree == \A p \in Clients : where[p] # "panic"

\* bget() up to acquiresleep(): the block is cached
BgetHit(p, b) ==
  /\ where[p] = "out" /\ BcacheFree
  /\ \E k \in Cached(b) :
       /\ refcnt' = [refcnt EXCEPT ![k] = @ + 1]
       /\ mine' = [mine EXCEPT ![p] = k]
  /\ where' = [where EXCEPT ![p] = "acquire"]
  /\ UNCHANGED <<blockno, valid, content, bufLock, lru, platter, logpins, latest>>

\* it is not: recycle a buffer
BgetMiss(p, b) ==
  /\ where[p] = "out" /\ BcacheFree /\ Cached(b) = {} /\ Recyclable # {}
  /\ LET k == LeastRecent
     IN /\ blockno' = [blockno EXCEPT ![k] = b]
        /\ valid' = [valid EXCEPT ![k] = FALSE]
        /\ refcnt' = [refcnt EXCEPT ![k] = 1]
        /\ mine' = [mine EXCEPT ![p] = k]
  /\ where' = [where EXCEPT ![p] = "acquire"]
  /\ UNCHANGED <<content, bufLock, lru, platter, logpins, latest>>

\* or panic, when every buffer is in use: "bget: no buffers"
BgetPanic(p, b) ==
  /\ where[p] = "out" /\ BcacheFree /\ Cached(b) = {} /\ Recyclable = {}
  /\ where' = [where EXCEPT ![p] = "panic"]
  /\ UNCHANGED <<bufVars, platter, mine, logpins, latest>>

\* acquiresleep(&b->lock)
BufAcquire(p) ==
  /\ where[p] = "acquire" /\ bufLock[mine[p]] = NoClient
  /\ bufLock' = [bufLock EXCEPT ![mine[p]] = p]
  /\ where' = [where EXCEPT ![p] = "bread"]
  /\ UNCHANGED <<blockno, valid, refcnt, content, lru, platter, mine, logpins, latest>>

MustRead(k) == ~valid[k]

\* the rest of bread()
Bread(p) ==
  /\ where[p] = "bread"
  /\ LET k == mine[p]
     IN /\ content' = [content EXCEPT ![k] = IF MustRead(k) THEN platter[blockno[k]] ELSE @]
        /\ valid' = [valid EXCEPT ![k] = TRUE]
  /\ where' = [where EXCEPT ![p] = "has"]
  /\ UNCHANGED <<blockno, refcnt, bufLock, lru, platter, mine, logpins, latest>>

\* the holder stores into b->data ...
Store(p, c) ==
  /\ where[p] = "has"
  /\ content' = [content EXCEPT ![mine[p]] = c]
  /\ latest' = [latest EXCEPT ![blockno[mine[p]]] = c]
  /\ where' = [where EXCEPT ![p] = "dirty"]
  /\ UNCHANGED <<blockno, valid, refcnt, bufLock, lru, platter, mine, logpins>>

\* ... and writes it,
Bwrite(p) ==
  /\ where[p] = "dirty" /\ mine[p] \notin logpins
  /\ platter' = [platter EXCEPT ![blockno[mine[p]]] = content[mine[p]]]
  /\ where' = [where EXCEPT ![p] = "has"]
  /\ UNCHANGED <<bufVars, mine, logpins, latest>>

\* Mutant of PinCount: log_write() does not pin.
PinCountNone(k) == refcnt

\* bpin(), unless log_write() finds the block in the log already
PinCount(k) == IF k \in logpins THEN refcnt ELSE [refcnt EXCEPT ![k] = @ + 1]

\* or hands it to log_write()
LogPin(p) ==
  /\ where[p] = "dirty" /\ (mine[p] \in logpins \/ BcacheFree)
  /\ refcnt' = PinCount(mine[p])
  /\ logpins' = logpins \cup {mine[p]}
  /\ where' = [where EXCEPT ![p] = "has"]
  /\ UNCHANGED <<blockno, valid, content, bufLock, lru, platter, mine, latest>>

\* install_trans() holds a pinned buffer: bwrite(), bunpin()
Install(p) ==
  /\ where[p] = "has" /\ mine[p] \in logpins /\ BcacheFree
  /\ platter' = [platter EXCEPT ![blockno[mine[p]]] = content[mine[p]]]
  /\ refcnt' = [refcnt EXCEPT ![mine[p]] = @ - 1]
  /\ logpins' = logpins \ {mine[p]}
  /\ UNCHANGED <<blockno, valid, content, bufLock, lru, where, mine, latest>>

\* brelse() up to releasesleep()
BrelseUnlock(p) ==
  /\ where[p] = "has"
  /\ bufLock' = [bufLock EXCEPT ![mine[p]] = NoClient]
  /\ where' = [where EXCEPT ![p] = "brelse"]
  /\ UNCHANGED <<blockno, valid, refcnt, content, lru, platter, mine, logpins, latest>>

\* the list with buffer k taken out and linked in at the head
ToHead(k) == <<k>> \o RemoveAt(lru, CHOOSE i \in 1 .. Len(lru) : lru[i] = k)

\* the rest of brelse(): no one is waiting for it
Brelse(p) ==
  /\ where[p] = "brelse" /\ BcacheFree
  /\ LET k == mine[p]
     IN /\ refcnt' = [refcnt EXCEPT ![k] = @ - 1]
        /\ lru' = IF refcnt'[k] = 0 THEN ToHead(k) ELSE lru
  /\ where' = [where EXCEPT ![p] = "out"]
  /\ UNCHANGED <<blockno, valid, content, bufLock, platter, mine, logpins, latest>>

BcNext == \E p \in Clients :
  \/ \E b \in Blocknos : BgetHit(p, b) \/ BgetMiss(p, b) \/ BgetPanic(p, b)
  \/ BufAcquire(p) \/ Bread(p) \/ \E c \in BufContents : Store(p, c)
  \/ Bwrite(p) \/ LogPin(p) \/ Install(p) \/ BrelseUnlock(p) \/ Brelse(p)

BcSpec == BcInit /\ [][BcNext]_bcVars

(***************************************************************************)
(* Properties.                                                             *)
(***************************************************************************)
\* Every variable has its type; lru holds every buffer once.
BcTypeOK ==
  /\ blockno \in [Bufs -> Blocknos \cup {NoBlock}] /\ valid \in [Bufs -> BOOLEAN]
  /\ refcnt \in [Bufs -> 0 .. Cardinality(Clients) + 1]
  /\ content \in [Bufs -> BufContents] /\ bufLock \in [Bufs -> Clients \cup {NoClient}]
  /\ ToSet(lru) = Bufs /\ Len(lru) = Cardinality(Bufs)
  /\ platter \in [Blocknos -> BufContents] /\ latest \in [Blocknos -> BufContents]
  /\ where \in [Clients -> {"out", "acquire", "bread", "has", "dirty", "brelse", "panic"}]
  /\ mine \in [Clients -> Bufs] /\ logpins \subseteq Bufs

\* a block is in one buffer at most, and whoever has read it sees what was last
\* stored, by whomever, whether it reached the disk, waits for the next commit
\* or was dropped from the cache in between.
CacheCoherent ==
  /\ \A j, k \in Bufs : blockno[j] = blockno[k] /\ blockno[j] # NoBlock => j = k
  /\ \A p \in Clients : where[p] \in {"has", "dirty"} =>
       content[mine[p]] = latest[blockno[mine[p]]]

\* between bget() and brelse()
Using(p) == where[p] \notin {"out", "panic"}

\* refcnt counts the clients between bget() and brelse() and the log's pin, so
\* bget() never takes a buffer away from anyone; and it panics ("bget: no buffers")
\* only while the clients and the log together have every buffer, none of them
\* leaked by an earlier use.
RefsExact ==
  /\ \A k \in Bufs : refcnt[k] =
       Cardinality({p \in Clients : Using(p) /\ mine[p] = k})
         + (IF k \in logpins THEN 1 ELSE 0)
  /\ ~BcacheFree => \A k \in Bufs : k \in logpins \/ \E p \in Clients : Using(p) /\ mine[p] = k

\* The cache is sound: everyone who reads a block sees what was last stored in it
\* (bread(), brelse() and the log's bpin()), bget() gives a buffer away only when
\* nobody uses it, and panics only when each one is in use or pinned.
CacheSound == BcTypeOK /\ CacheCoherent /\ RefsExact
=============================================================================
