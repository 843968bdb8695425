-------------------------------- MODULE Mkfs --------------------------------
(***************************************************************************)
(* mkfs/mkfs.c: the file system image the kernel starts from.  A file is     *)
(* appended in pieces of BSIZE bytes to blocks that are handed out in order.  *)
(* A byte is a number that tells the file and the place it belongs to;       *)
(* sectors are arrays of BSIZE entries, bytes or block numbers.              *)
(***************************************************************************)
EXTENDS Integers, Sequences, FiniteSets, FiniteSetsExt

CONSTANTS
  FSSIZE, LogBlocks, NINODES, IPB, BitsPerBlock, BlockBytes, DirectBlocks, EntriesPerBlock,
  DirentBytes,
  MaxFiles, FileLens    \* bounds: files given, and their lengths

VARIABLES
  sector,         \* the sectors written, beside the inodes
  din,            \* the inodes written
  nextfree,       \* freeblock
  lens,           \* lengths of the files added
  marked,         \* blocks marked in the bitmap
  phase           \* "adding", "done", or "died": an assertion or die()

mkVars == <<sector, din, nextfree, lens, marked, phase>>

Nbitmap == (FSSIZE \div BitsPerBlock) + 1
Ninodeblocks == (NINODES \div IPB) + 1
Nmeta == 2 + LogBlocks + Ninodeblocks + Nbitmap
Bmapstart == 2 + LogBlocks + Ninodeblocks
Iblock(i) == (i \div IPB) + 2 + LogBlocks
Root == 1
Zeroes == [k \in 0 .. BlockBytes - 1 |-> 0]
Largest == (DirectBlocks + EntriesPerBlock) * BlockBytes

\* the byte at off of inode i
Byte(i, off) == i * 100 + off + 1

(***************************************************************************)
(* iappend(), on a record w of the inode, the sectors and freeblock.         *)
(***************************************************************************)
\* main() zeroes FSSIZE sectors first; read() gets nothing beyond the end
Readable(w, x) == x < FSSIZE \/ x \in DOMAIN w.sec
Rsect(w, x) == IF x \in DOMAIN w.sec THEN w.sec[x] ELSE Zeroes
Wsect(w, x, buf) == [w EXCEPT !.sec = [y \in DOMAIN w.sec \cup {x} |-> IF y = x THEN buf ELSE w.sec[y]]]

NewDirect(w, k) ==
  IF w.in.addrs[k] # 0 THEN w
  ELSE [w EXCEPT !.in.addrs[k] = w.free, !.free = @ + 1]

Ind(w) == w.in.addrs[DirectBlocks]

\* Mutant of NewEntry: the entry is taken to be new.
NewEntryLast(w, k) ==
  [Wsect(w, Ind(w), [Rsect(w, Ind(w)) EXCEPT ![k] = w.free]) EXCEPT !.free = @ + 1]

NewEntry(w, k) ==
  IF Rsect(w, Ind(w))[k] # 0 THEN w
  ELSE [Wsect(w, Ind(w), [Rsect(w, Ind(w)) EXCEPT ![k] = w.free]) EXCEPT !.free = @ + 1]

NewIndirect(w, k) == IF Readable(w, Ind(w)) THEN NewEntry(w, k) ELSE [w EXCEPT !.bad = TRUE]
Given(w, fbn) ==
  IF fbn < DirectBlocks THEN NewDirect(w, fbn) ELSE NewIndirect(NewDirect(w, DirectBlocks), fbn - DirectBlocks)
BlockAt(w, fbn) ==
  IF fbn < DirectBlocks THEN w.in.addrs[fbn] ELSE Rsect(w, Ind(w))[fbn - DirectBlocks]

\* what of n goes into the block of off
Rest(off, n) == Min({n, (off \div BlockBytes + 1) * BlockBytes - off})

Filled(w, i, x, off, n) ==
  Wsect(w, x, [k \in 0 .. BlockBytes - 1 |->
    IF k \in off % BlockBytes .. (off % BlockBytes) + n - 1
    THEN Byte(i, off - (off % BlockBytes) + k) ELSE Rsect(w, x)[k]])
Put1(w, i, off, n) ==
  IF w.bad THEN w
  ELSE LET x == BlockAt(w, off \div BlockBytes)
       IN IF Readable(w, x) THEN Filled(w, i, x, off, n) ELSE [w EXCEPT !.bad = TRUE]

RECURSIVE AppendLoop(_, _, _)
AppendLoop(w, i, n) ==
  IF n = 0 \/ w.bad THEN w
  ELSE IF w.in.size \div BlockBytes >= DirectBlocks + EntriesPerBlock THEN [w EXCEPT !.bad = TRUE]
  ELSE AppendLoop([Put1(Given(w, w.in.size \div BlockBytes), i, w.in.size, Rest(w.in.size, n))
                     EXCEPT !.in.size = @ + Rest(w.in.size, n)],
                  i, n - Rest(w.in.size, n))

\* the inode is written at the end
Iappend(w, i, n) ==
  LET e == AppendLoop(w, i, n) IN IF e.bad THEN [e EXCEPT !.in = w.in] ELSE e

\* read() of the file, BSIZE bytes at a time
RECURSIVE Copied(_, _, _)
Copied(w, i, n) ==
  IF n = 0 THEN w ELSE Copied(Iappend(w, i, Min({n, BlockBytes})), i, n - Min({n, BlockBytes}))

Ialloc(type) == [type |-> type, nlink |-> 1, size |-> 0, addrs |-> [k \in 0 .. DirectBlocks |-> 0]]
Appending(in, sec, free) == [in |-> in, sec |-> sec, free |-> free, bad |-> FALSE]

\* main() up to the loop: the root directory with its two entries
MkInit ==
  \E w \in {Iappend(Iappend(Appending(Ialloc("dir"), <<>>, Nmeta), Root, DirentBytes), Root, DirentBytes)} :
    /\ sector = w.sec /\ din = <<w.in>> /\ nextfree = w.free
    /\ lens = <<>> /\ marked = {} /\ phase = "adding"

\* one file: its inode, its directory entry and its bytes
AddFile(len) ==
  /\ phase = "adding" /\ Len(lens) < MaxFiles
  /\ LET i == Len(din) + 1
     IN \E d \in {Iappend(Appending(din[Root], sector, nextfree), Root, DirentBytes)} :
        \E w \in {Copied([d EXCEPT !.in = Ialloc("file")], i, len)} :
          /\ sector' = w.sec /\ nextfree' = w.free
          /\ din' = Append([din EXCEPT ![Root] = d.in], w.in)
          /\ phase' = IF w.bad THEN "died" ELSE phase
  /\ lens' = Append(lens, len)
  /\ UNCHANGED marked

\* the size of the root directory is rounded up; balloc() writes the bitmap
Finish ==
  /\ phase = "adding"
  /\ din' = [din EXCEPT ![Root].size = ((@ \div BlockBytes) + 1) * BlockBytes]
  /\ phase' = IF nextfree < BitsPerBlock THEN "done" ELSE "died"
  /\ marked' = IF nextfree < BitsPerBlock THEN 0 .. nextfree - 1 ELSE marked
  /\ UNCHANGED <<sector, nextfree, lens>>

MkNext == Finish \/ \E len \in FileLens : AddFile(len)
MkSpec == MkInit /\ [][MkNext]_mkVars

(***************************************************************************)
(* Properties.                                                             *)
(***************************************************************************)
\* Every variable has its type.
MkTypeOK ==
  /\ nextfree \in Nat /\ phase \in {"adding", "done", "died"}
  /\ Len(lens) <= MaxFiles /\ Len(din) = Len(lens) + 1

Length(i) == IF i = Root THEN (2 + Len(lens)) * DirentBytes ELSE lens[i - 1]
BlocksFor(n) == (n + BlockBytes - 1) \div BlockBytes
Inode(i) == [in |-> din[i], sec |-> sector]
BlocksOf(i) ==
  {BlockAt(Inode(i), b) : b \in 0 .. BlocksFor(Length(i)) - 1}
    \cup (IF BlocksFor(Length(i)) > DirectBlocks THEN {din[i].addrs[DirectBlocks]} ELSE {})
NBlocksOf(i) == BlocksFor(Length(i)) + IF BlocksFor(Length(i)) > DirectBlocks THEN 1 ELSE 0
NUsed(n) == MapThenSumSet(NBlocksOf, 1 .. n)

\* no block of i at b
Absent(i, b) ==
  IF b < DirectBlocks THEN din[i].addrs[b] = 0
  ELSE din[i].addrs[DirectBlocks] = 0 \/ BlockAt(Inode(i), b) = 0

\* A finished image is one the kernel can start from: every file and the directory read
\* back, through direct and indirect blocks, as they were given, with nothing but zeroes
\* after the end; a block that the rounded size of the root covers beyond its entries is
\* absent, at most one of them, so that it reads as zeroes too once bmap() adds it; no
\* block belongs to two of them or lies beyond the image, which only the read() in rsect()
\* sees to; the bitmap marks the meta blocks and the blocks in use and no other; and
\* inodes end before the bitmap, when there are no more than NINODES, which mkfs does not
\* test.
ImageSound == MkTypeOK /\ (phase = "done" =>
  /\ nextfree <= FSSIZE
  /\ \A i \in 1 .. Len(din) : \A off \in 0 .. BlocksFor(Length(i)) * BlockBytes - 1 :
       Rsect(Inode(i), BlockAt(Inode(i), off \div BlockBytes))[off % BlockBytes] =
         IF off < Length(i) THEN Byte(i, off) ELSE 0
  /\ \A i \in 2 .. Len(din) : din[i].size = Length(i)
  /\ din[Root].size % BlockBytes = 0
  /\ din[Root].size \in Length(Root) + 1 .. Length(Root) + BlockBytes
  /\ \A b \in BlocksFor(Length(Root)) .. (din[Root].size \div BlockBytes) - 1 : Absent(Root, b)
  /\ UNION {BlocksOf(i) : i \in 1 .. Len(din)} = Nmeta .. nextfree - 1
  /\ NUsed(Len(din)) = nextfree - Nmeta
  /\ marked = 0 .. nextfree - 1
  /\ \A i \in 1 .. Len(din) : i < NINODES => Iblock(i) < Bmapstart)
=============================================================================
