------------------------------ MODULE Umalloc -------------------------------
(***************************************************************************)
(* user/umalloc.c: malloc() and free() over a circular list of free blocks, *)
(* kept in address order.  Addresses and sizes are in units of a Header;     *)
(* base is at address 0, below the heap.  The program may call sbrk()        *)
(* itself, which leaves holes between the regions malloc() obtains.          *)
(***************************************************************************)
EXTENDS Integers, FiniteSets

CONSTANTS
  HeapUnits,      \* bound: the heap is the addresses 1 .. HeapUnits
  MinCore,        \* the least morecore() asks for (4096)
  HeaderSize,     \* sizeof(Header)
  Requests        \* bound: the sizes asked for, in bytes, less than sbrk()'s int can hold

VARIABLES
  hdr,            \* s.ptr and s.size at every address
  freep,          \* the last block looked at, or NoBlockYet
  brk,            \* the first address beyond the heap
  live,           \* blocks malloc() has returned: address -> bytes asked for
  cored           \* addresses morecore() has obtained (history)

umVars == <<hdr, freep, brk, live, cored>>

base == 0
NoBlockYet == -1
Next1(h, p) == h[p].ptr

\* a header that is read no more, forgotten to keep the states few
Stale == [ptr |-> 0, size |-> 0]

(***************************************************************************)
(* free()                                                                  *)
(***************************************************************************)
RECURSIVE Place(_, _, _)
Place(h, bp, p) ==
  IF bp > p /\ bp < Next1(h, p) THEN p
  ELSE IF p >= Next1(h, p) /\ (bp > p \/ bp < Next1(h, p)) THEN p
  ELSE Place(h, bp, Next1(h, p))

\* Mutant of JoinUp: a block is not joined with the free one above it.
JoinUpNot(h, bp, p) == [h EXCEPT ![bp].ptr = Next1(h, p)]

\* join with the block above, or link to it
JoinUp(h, bp, p) ==
  IF bp + h[bp].size = Next1(h, p)
  THEN [h EXCEPT ![bp] = [size |-> @.size + h[Next1(h, p)].size, ptr |-> Next1(h, Next1(h, p))],
                 ![Next1(h, p)] = Stale]
  ELSE [h EXCEPT ![bp].ptr = Next1(h, p)]

\* join with the block below, or be linked to by it
JoinDown(h, bp, p) ==
  IF p + h[p].size = bp
  THEN [h EXCEPT ![p] = [size |-> @.size + h[bp].size, ptr |-> h[bp].ptr], ![bp] = Stale]
  ELSE [h EXCEPT ![p].ptr = bp]

FreeAt(h, bp, p) == [h |-> JoinDown(JoinUp(h, bp, p), bp, p), freep |-> p]
FreeOf(h, fp, bp) == FreeAt(h, bp, Place(h, bp, fp))

(***************************************************************************)
(* malloc()                                                                *)
(***************************************************************************)
\* the loop up to a block that fits, or once round; prevp, or -1
RECURSIVE Scan(_, _, _, _)
Scan(h, fp, prevp, n) ==
  LET p == Next1(h, prevp)
  IN IF h[p].size >= n THEN prevp ELSE IF p = fp THEN -1 ELSE Scan(h, fp, p, n)

\* take the block after prevp, or its tail
Carve(h, prevp, n) ==
  LET p == Next1(h, prevp)
      rest == h[p].size - n
  IN IF rest = 0 THEN [h |-> [h EXCEPT ![prevp].ptr = h[p].ptr, ![p].ptr = 0], at |-> p]
     ELSE [h |-> [h EXCEPT ![p].size = rest, ![p + rest].size = n], at |-> p + rest]

Started == IF freep = NoBlockYet
           THEN [h |-> [hdr EXCEPT ![base] = [ptr |-> base, size |-> 0]], freep |-> base]
           ELSE [h |-> hdr, freep |-> freep]

\* nunits; the sum has the width of sizeof, so it does not wrap
Nunits(nbytes) == (nbytes + HeaderSize - 1) \div HeaderSize + 1

Returns(h, prevp, nbytes) ==
  \E c \in {Carve(h, prevp, Nunits(nbytes))} :
    /\ hdr' = c.h /\ freep' = prevp
    /\ live' = [b \in DOMAIN live \cup {c.at} |-> IF b = c.at THEN nbytes ELSE live[b]]

\* morecore(): sbrk(), and free() of the new region
Core(n) == IF n < MinCore THEN MinCore ELSE n
Morecore(s, n) == FreeOf([s.h EXCEPT ![brk].size = Core(n)], s.freep, brk)

\* malloc(); sbrk() fails when the heap is full
Malloc(nbytes) == LET n == Nunits(nbytes) IN
  \E s \in {Started} : \E found \in {Scan(s.h, s.freep, s.freep, n)} :
    IF found # -1 THEN Returns(s.h, found, nbytes) /\ UNCHANGED <<brk, cored>>
    ELSE IF brk + Core(n) - 1 > HeapUnits
         THEN hdr' = s.h /\ freep' = s.freep /\ UNCHANGED <<brk, live, cored>>
    ELSE /\ brk' = brk + Core(n)
         /\ cored' = cored \cup (brk .. brk + Core(n) - 1)
         /\ \E m \in {Morecore(s, n)} : Returns(m.h, Scan(m.h, m.freep, m.freep, n), nbytes)

Free(b) ==
  /\ b \in DOMAIN live
  /\ \E f \in {FreeOf(hdr, freep, b)} : hdr' = f.h /\ freep' = f.freep
  /\ live' = [c \in DOMAIN live \ {b} |-> live[c]]
  /\ UNCHANGED <<brk, cored>>

\* the program takes memory for itself
ProgramSbrk ==
  /\ brk < HeapUnits
  /\ brk' = brk + 1
  /\ UNCHANGED <<hdr, freep, live, cored>>

UmInit ==
  /\ hdr = [a \in 0 .. HeapUnits |-> Stale]
  /\ freep = NoBlockYet /\ brk = 1 /\ live = <<>> /\ cored = {}

UmNext ==
  \/ \E nbytes \in Requests : Malloc(nbytes)
  \/ \E b \in 1 .. HeapUnits : Free(b)
  \/ ProgramSbrk
UmSpec == UmInit /\ [][UmNext]_umVars

(***************************************************************************)
(* Properties.                                                             *)
(***************************************************************************)
\* Every variable has its type.
UmTypeOK ==
  /\ freep \in -1 .. HeapUnits /\ brk \in 1 .. HeapUnits + 1
  /\ DOMAIN live \subseteq 1 .. HeapUnits /\ cored \subseteq 1 .. HeapUnits
  /\ \A a \in 0 .. HeapUnits : hdr[a].ptr \in 0 .. HeapUnits /\ hdr[a].size \in 0 .. HeapUnits

\* the blocks on the list, found from base
RECURSIVE ListFrom(_, _)
ListFrom(p, seen) == IF p \in seen THEN seen ELSE ListFrom(Next1(hdr, p), seen \cup {p})
FreeList == ListFrom(base, {})
Extent(b) == b .. b + hdr[b].size - 1

\* However malloc(), free() and the program's own sbrk() follow each other: the list is
\* a circle through base and freep in address order; its blocks and the live ones do not
\* overlap and make up exactly what morecore() obtained, so nothing is lost; a live block
\* has room for the bytes asked for beside its header, and less than a unit too much; and no two free blocks are neighbours, so memory that
\* was freed can be used again for larger blocks.
HeapSound == UmTypeOK /\ (freep # NoBlockYet =>
  LET blocks == (FreeList \ {base}) \cup DOMAIN live
  IN /\ freep \in FreeList
     /\ \A p \in FreeList : LET higher == {q \in FreeList : q > p}
                            IN IF higher = {} THEN hdr[p].ptr = base
                               ELSE hdr[p].ptr \in higher /\ \A q \in higher : hdr[p].ptr <= q
     /\ FreeList \cap DOMAIN live = {}
     /\ \A a, b \in blocks : a # b => Extent(a) \cap Extent(b) = {}
     /\ UNION {Extent(b) : b \in blocks} = cored
     /\ \A b \in DOMAIN live :
          (hdr[b].size - 1) * HeaderSize \in live[b] .. live[b] + HeaderSize - 1
     /\ \A a, b \in FreeList \ {base} : a + hdr[a].size # b)
=============================================================================
