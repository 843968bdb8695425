------------------------------ MODULE FileData ------------------------------
(***************************************************************************)
(* File contents: the block bitmap (balloc, bfree), the block map of an     *)
(* inode (bmap, itrunc) and readi and writei of kernel/fs.c, and the chunks  *)
(* filewrite() of kernel/file.c cuts a write into so that it fits the log.   *)
(*                                                                         *)
(* The caller holds the inode's lock, and the bitmap is changed under its    *)
(* buffer's lock, so a call is one step, as on its own transaction.  A block *)
(* holds BSIZE words, each of which is a byte of a file or an entry of an    *)
(* indirect block; a write stores one value in all its bytes.                *)
(*                                                                         *)
(* A block has a buffer, which everyone reads, and what the log has of it,    *)
(* which reaches the disk: log_write() hands it the whole buffer, at the end  *)
(* of the transaction.  A copy from user space that fails leaves bytes in the *)
(* buffer that nobody logs: they are gone when the buffer is recycled, unless *)
(* the block is logged before.  bytes is what the file should contain: for    *)
(* each byte, the values it may have, one only unless such a copy reached it. *)
(*                                                                         *)
(* Functions of the code are operators on a record w: the bitmap, the        *)
(* blocks, the addresses of the inode, and the blocks logged.                *)
(***************************************************************************)
EXTENDS Integers, FiniteSets, FiniteSetsExt, Sequences

CONSTANTS
  Files,
  NBlocks,        \* data blocks 1 .. NBlocks
  BPB,            \* blocks per bitmap block
  BSIZE, NDIRECT,
  FILEOPBLOCKS,   \* MAXOPBLOCKS as filewrite() uses it
  MaxWrites       \* bound: writes and truncations

VARIABLES
  bitmap,         \* blocks in use
  block,          \* contents of the blocks' buffers
  onDisk,         \* contents of the blocks, as logged
  ino,            \* in-memory inodes: addrs, size
  dinode,         \* inodes on disk
  logged,         \* blocks the last transaction logged
  freedFree,      \* panic("freeing free block")
  bytes,          \* what each file should contain: a set of values for each byte
  nops

fdVars == <<bitmap, block, onDisk, ino, dinode, logged, freedFree, bytes, nops>>

NINDIRECT == BSIZE
MAXFILE == NDIRECT + NINDIRECT
BlockNos == 1 .. NBlocks
Zeroed == [i \in 0 .. BSIZE - 1 |-> 0]
Bit(b) == <<"bitmap", b \div BPB>>
Data(b) == <<"data", b>>

\* filewrite()'s max: an inode, an indirect block, 2 blocks of slop, and an
\* allocation block per data block
MaxChunk == ((FILEOPBLOCKS - 1 - 1 - 2) \div 2) * BSIZE

(***************************************************************************)
(* balloc(), bfree().                                                       *)
(***************************************************************************)
\* Mutant of LogData: the buffer is changed and not logged.
LogDataNot(w, b) == w

\* log_write() of the buffer of block b
LogData(w, b) == [w EXCEPT !.logged = @ \cup {Data(b)}]

Bzero(w, b) == LogData([w EXCEPT !.block[b] = Zeroed], b)

Marked(w, b) ==
  [addr |-> b, w |-> Bzero([w EXCEPT !.bitmap = @ \cup {b}, !.logged = @ \cup {Bit(b)}], b)]
Balloc(w) ==
  IF w.bitmap = BlockNos THEN [addr |-> 0, w |-> w] ELSE Marked(w, Min(BlockNos \ w.bitmap))

Bfree(w, bs) ==
  [w EXCEPT !.bitmap = @ \ bs, !.logged = @ \cup {Bit(b) : b \in bs},
            !.panic = @ \/ ~(bs \subseteq w.bitmap)]

(***************************************************************************)
(* bmap(): the address of block bn of the inode, allocated if it has none.   *)
(***************************************************************************)
SetAddr(r, k) == IF r.addr = 0 THEN r ELSE [r EXCEPT !.w.addrs[k] = r.addr]
Direct(w, k) ==
  IF w.addrs[k] # 0 THEN [addr |-> w.addrs[k], w |-> w] ELSE SetAddr(Balloc(w), k)

SetEntry(r, a, k) ==
  IF r.addr = 0 THEN r
  ELSE [r EXCEPT !.w = LogData([r.w EXCEPT !.block[a][k] = r.addr], a)]
Indirect(r, k) ==
  IF r.addr = 0 THEN r
  ELSE IF r.w.block[r.addr][k] # 0 THEN [addr |-> r.w.block[r.addr][k], w |-> r.w]
  ELSE SetEntry(Balloc(r.w), r.addr, k)

Bmap(w, bn) == IF bn < NDIRECT THEN Direct(w, bn) ELSE Indirect(Direct(w, NDIRECT), bn - NDIRECT)

(***************************************************************************)
(* writei(): copies good chunks until one fails or the disk is full; of the  *)
(* chunk that fails, part has reached the buffer, and is not logged.        *)
(***************************************************************************)
Chunk(off, n) == Min({n, BSIZE - (off % BSIZE)})
Fill(w, b, off, m, v) ==
  [w EXCEPT !.block[b] = [i \in 0 .. BSIZE - 1 |->
                            IF i \in (off % BSIZE) .. (off % BSIZE) + m - 1 THEN v ELSE @[i]]]

RECURSIVE WriteLoop(_, _, _, _, _, _)
Written(r, off, n, v, good, part) ==
  IF r.addr = 0 THEN [off |-> off, w |-> r.w]
  ELSE IF good = 0 THEN [off |-> off, w |-> Fill(r.w, r.addr, off, Min({part, Chunk(off, n)}), v)]
  ELSE WriteLoop(LogData(Fill(r.w, r.addr, off, Chunk(off, n), v), r.addr),
                 off + Chunk(off, n), n - Chunk(off, n), v, good - 1, part)
WriteLoop(w, off, n, v, good, part) ==
  IF n = 0 THEN [off |-> off, w |-> w]
  ELSE Written(Bmap(w, off \div BSIZE), off, n, v, good, part)

OpOn(f) == [bitmap |-> bitmap, block |-> block, addrs |-> ino[f].addrs, logged |-> {}, panic |-> FALSE]
Apply(w) ==
  /\ bitmap' = w.bitmap /\ block' = w.block /\ logged' = w.logged
  /\ onDisk' = [b \in BlockNos |-> IF Data(b) \in w.logged THEN w.block[b] ELSE onDisk[b]]
  /\ freedFree' = (freedFree \/ w.panic)

NewSize(off, size) == IF off > size THEN off ELSE size

\* the bytes of the file when tot bytes were written at off, and part more were
\* copied and not logged
Overwritten(b, off, tot, part, v) ==
  [i \in 1 .. Max({Len(b), off + tot}) |->
     IF i \in off + 1 .. off + tot THEN {v}
     ELSE IF i \in off + tot + 1 .. off + tot + part THEN b[i] \cup {v}
     ELSE b[i]]

\* the file is refused before the loop
WriteRefused(f, off, n) == off > ino[f].size \/ off + n > MAXFILE * BSIZE

\* writei() of filewrite(), or of dirlink() and unlink()
Writei(f, off, n, v, good, part) ==
  /\ nops < MaxWrites /\ ~WriteRefused(f, off, n)
  /\ \E r \in {WriteLoop(OpOn(f), off, n, v, good, part)} :
       LET new == [addrs |-> r.w.addrs, size |-> NewSize(r.off, ino[f].size)]
           lost == IF r.off = off + n THEN 0 ELSE Min({part, Chunk(r.off, n - (r.off - off))})
       IN /\ Apply([r.w EXCEPT !.logged = @ \cup {<<"inode", f>>}])
          /\ ino' = [ino EXCEPT ![f] = new] /\ dinode' = [dinode EXCEPT ![f] = new]
          /\ bytes' = [bytes EXCEPT ![f] = Overwritten(@, off, r.off - off, lost, v)]
  /\ nops' = nops + 1

(***************************************************************************)
(* readi() calls bmap() too, and does not write the inode back.             *)
(***************************************************************************)
RECURSIVE ReadLoop(_, _, _)
ReadLoop(w, bn, last) == IF bn > last THEN w ELSE ReadLoop(Bmap(w, bn).w, bn + 1, last)

Readi(f) ==
  /\ ino[f].size > 0
  /\ \E w \in {ReadLoop(OpOn(f), 0, (ino[f].size - 1) \div BSIZE)} :
       Apply(w) /\ ino' = [ino EXCEPT ![f].addrs = w.addrs]
  /\ UNCHANGED <<dinode, bytes, nops>>

(***************************************************************************)
(* itrunc(), for open with O_TRUNC and for iput() of the last link.          *)
(***************************************************************************)
EntriesOf(b) == IF b = 0 THEN {} ELSE {block[b][k] : k \in 0 .. NINDIRECT - 1} \ {0}

\* Mutant of Freed: the blocks named by the indirect block are forgotten.
FreedDirect(addrs) == {addrs[k] : k \in 0 .. NDIRECT} \ {0}

Freed(addrs) == ({addrs[k] : k \in 0 .. NDIRECT} \ {0}) \cup EntriesOf(addrs[NDIRECT])

NoFile == [addrs |-> [k \in 0 .. NDIRECT |-> 0], size |-> 0]
Itrunc(f) ==
  /\ nops < MaxWrites
  /\ Apply([Bfree(OpOn(f), Freed(ino[f].addrs)) EXCEPT !.logged = @ \cup {<<"inode", f>>}])
  /\ ino' = [ino EXCEPT ![f] = NoFile] /\ dinode' = [dinode EXCEPT ![f] = NoFile]
  /\ bytes' = [bytes EXCEPT ![f] = <<>>]
  /\ nops' = nops + 1

\* bget() takes the buffer of a block that the log does not pin for another block
Recycle(b) ==
  /\ block[b] # onDisk[b]
  /\ block' = [block EXCEPT ![b] = onDisk[b]]
  /\ UNCHANGED <<bitmap, onDisk, ino, dinode, logged, freedFree, bytes, nops>>

FdInit ==
  /\ bitmap = {} /\ block = [b \in BlockNos |-> Zeroed] /\ onDisk = block
  /\ ino = [f \in Files |-> NoFile] /\ dinode = ino
  /\ logged = {} /\ freedFree = FALSE
  /\ bytes = [f \in Files |-> <<>>] /\ nops = 0

\* every write has bytes of its own, which are no block numbers
Mark == NBlocks + 1 + nops

\* the rounds of the loop of a write
Chunks(off, n) == (off + n - 1) \div BSIZE - off \div BSIZE + 1

FdNext == (\E b \in BlockNos : Recycle(b)) \/ \E f \in Files :
  \/ Readi(f) \/ Itrunc(f)
  \/ \E off \in 0 .. ino[f].size, n \in 1 .. MaxChunk :
     \E good \in 0 .. Chunks(off, n), part \in 0 .. BSIZE - 1 :
       (good = Chunks(off, n) => part = 0) /\ Writei(f, off, n, Mark, good, part)
FdSpec == FdInit /\ [][FdNext]_fdVars

(***************************************************************************)
(* Properties.                                                             *)
(***************************************************************************)
\* Every variable has its type.
FdTypeOK ==
  /\ bitmap \subseteq BlockNos /\ freedFree \in BOOLEAN
  /\ \A f \in Files : ino[f].size \in 0 .. MAXFILE * BSIZE /\ ino[f].addrs \in [0 .. NDIRECT -> 0 .. NBlocks]

\* the block that holds block bn of f, by the inode on disk
BlockOf(f, bn) == IF bn < NDIRECT THEN dinode[f].addrs[bn] ELSE block[dinode[f].addrs[NDIRECT]][bn - NDIRECT]
ByteOf(f, i) == LET b == BlockOf(f, i \div BSIZE) IN IF b = 0 THEN "hole" ELSE block[b][i % BSIZE]

\* A file reads back what writei() said it wrote, byte for byte, across the direct
\* and indirect blocks, after writes cut short by a full disk or a bad user address,
\* after blocks were freed and reused, and after buffers were recycled.  A byte that a
\* failing copy reached and writei() did not count reads as before or as copied.  No
\* block of the file is missing, so readi() never allocates.
FileIsBytes == \A f \in Files :
  /\ dinode[f].size = Len(bytes[f])
  /\ \A i \in 1 .. Len(bytes[f]) : ByteOf(f, i - 1) \in bytes[f][i]

\* a transaction of filewrite() logs at most the MAXOPBLOCKS blocks that begin_op()
\* reserved for it, even when the write is not aligned, takes a new indirect block, and
\* every allocation is in another bitmap block.
WriteFitsLog == Cardinality(logged) <= FILEOPBLOCKS

\* The bitmap is exact: a block is in use exactly when one inode on disk, once, names
\* it as a direct block, as its indirect block, or in its indirect block.  itrunc() never
\* frees a free block, and no write logs more than it reserved.
BlocksExact == FdTypeOK /\ WriteFitsLog /\
  LET slots(f) == {<<f, k>> : k \in {k \in 0 .. NDIRECT : dinode[f].addrs[k] # 0}}
      ents(f) == IF dinode[f].addrs[NDIRECT] = 0 THEN {}
                 ELSE {<<f, NDIRECT + 1 + k>> : k \in {k \in 0 .. NINDIRECT - 1 : block[dinode[f].addrs[NDIRECT]][k] # 0}}
      named(f) == ({dinode[f].addrs[k] : k \in 0 .. NDIRECT} \ {0}) \cup EntriesOf(dinode[f].addrs[NDIRECT])
      all == UNION {slots(f) \cup ents(f) : f \in Files}
  IN /\ ~freedFree
     /\ UNION {named(f) : f \in Files} = bitmap
     /\ Cardinality(all) = Cardinality(bitmap)
=============================================================================
