------------------------------ MODULE UserCopy ------------------------------
(***************************************************************************)
(* Copies between the kernel and user memory: copyin, copyout and copyinstr *)
(* of kernel/vm.c, fetchaddr and fetchstr of kernel/syscall.c.              *)
(*                                                                         *)
(* The loops go page by page; the properties compare them, for every        *)
(* address and length, with what they should do byte by byte.  A byte of    *)
(* user memory is named by its address: a copy is the sequence of addresses *)
(* it took, or wrote, in order, and whether it failed.                      *)
(***************************************************************************)
EXTENDS Riscv

CONSTANTS
  UserPages,      \* bound: the virtual pages of the process are 0 .. UserPages - 1
  MaxCopy,        \* bound: the longest copy
  Uint64          \* sizeof(uint64)

VARIABLES
  perm,           \* of each page: "rw", "ro", or "guard" (valid without PTE_U)
  usz,            \* p->sz, which ends in the last page
  nul             \* the addresses whose byte is zero

ucVars == <<perm, usz, nul>>

Addresses == 0 .. Word - 1
PermOf(a) == IF a \div PGSIZE < UserPages THEN perm[a \div PGSIZE]
             ELSE IF a \div PGSIZE \in {TRAMPOLINE, TRAPFRAME} THEN "guard" ELSE "none"

Allowed(a, perms) == a < MaxVPN * PGSIZE /\ PermOf(a) \in perms
\* walkaddr(): MAXVA, then PTE_V and PTE_U
Walkaddr(a) == Allowed(a, {"rw", "ro"})
\* the tests of copyout()
Writeable(a) == Allowed(a, {"rw"})

Piece(va, n) == [i \in 1 .. n |-> va + i - 1]

\* Mutant of PageRest: the offset in the page is forgotten.
PageRestWhole(va, len) == Min({PGSIZE, len})

\* how much of len lies in the page of va
PageRest(va, len) == Min({PGSIZE - (va - Rounddown(va)), len})

NextPage(va) == (Rounddown(va) + PGSIZE) % Word

RECURSIVE Copy(_, _, _, _)
Copy(perms, va, len, got) ==
  IF len = 0 THEN [ok |-> TRUE, got |-> got]
  ELSE IF ~Allowed(Rounddown(va), perms) THEN [ok |-> FALSE, got |-> got]
  ELSE Copy(perms, NextPage(va), len - PageRest(va, len), got \o Piece(va, PageRest(va, len)))

Copyin(va, len) == Copy({"rw", "ro"}, va, len, <<>>)
Copyout(va, len) == Copy({"rw"}, va, len, <<>>)

\* the inner loop of copyinstr(): up to the first zero byte of n
Upto(va, n) == Min({n} \cup {k \in 0 .. n - 1 : va + k \in nul})

RECURSIVE Copystr(_, _, _)
Copystr(va, max, got) ==
  IF max = 0 \/ ~Walkaddr(Rounddown(va)) THEN [ok |-> FALSE, got |-> got]
  ELSE LET n == PageRest(va, max)
           k == Upto(va, n)
       IN IF k < n THEN [ok |-> TRUE, got |-> got \o Piece(va, k)]
          ELSE Copystr(NextPage(va), max - n, got \o Piece(va, n))

Copyinstr(va, max) == Copystr(va, max, <<>>)

InSize(addr) == addr < usz /\ (addr + Uint64) % Word <= usz
Fetchaddr(addr) == IF InSize(addr) THEN Copyin(addr, Uint64) ELSE [ok |-> FALSE, got |-> <<>>]

\* fetchstr() and argstr(): the length, without the nul
Fetchstr(addr, max) ==
  LET c == Copyinstr(addr, max) IN IF c.ok THEN Len(c.got) ELSE -1

\* the image exec() and sbrk() leave, and the bytes the process stores in it
UcInit ==
  /\ perm \in {f \in [0 .. UserPages - 1 -> {"rw", "ro", "guard"}] : f[0] # "guard"}
  /\ usz \in (UserPages - 1) * PGSIZE + 1 .. UserPages * PGSIZE
  /\ nul = {}
UserStore(a) ==
  /\ Walkaddr(a)
  /\ \E z \in {nul \cup {a}, nul \ {a}} : nul' = z
  /\ UNCHANGED <<perm, usz>>

UcNext == \E a \in 0 .. UserPages * PGSIZE - 1 : UserStore(a)
UcSpec == UcInit /\ [][UcNext]_ucVars

(***************************************************************************)
(* Properties.                                                             *)
(***************************************************************************)
\* Every variable has its type.
UcTypeOK ==
  /\ perm \in [0 .. UserPages - 1 -> {"rw", "ro", "guard"}]
  /\ usz \in Addresses /\ nul \subseteq Addresses

\* A copy of len bytes succeeds exactly when every byte may be accessed, takes the
\* bytes in order, and when it fails has taken only bytes before the first it may
\* not access.
Faithful(c, Ok(_), va, len) ==
  LET good == {n \in 0 .. len : \A i \in 0 .. n - 1 : Ok(va + i)}
  IN /\ c.ok <=> len \in good
     /\ Len(c.got) \in good /\ c.got = Piece(va, Len(c.got))
     /\ c.ok => Len(c.got) = len

\* copyin(), copyout(), copyinstr() and fetchaddr() do what a copy byte by byte
\* would: across page boundaries, at the end of the image, into a guard page, and for
\* addresses whose sum with the length wraps around.  A string ends at its first zero
\* byte and is shorter than max.
CopiesFaithful ==
  UcTypeOK /\ \A va \in Addresses : \A len \in 0 .. MaxCopy :
    /\ Faithful(Copyin(va, len), Walkaddr, va, len)
    /\ Faithful(Copyout(va, len), Writeable, va, len)
    /\ LET ends == {n \in 0 .. len - 1 : va + n \in nul /\ \A i \in 0 .. n : Walkaddr(va + i)}
       IN Fetchstr(va, len) = IF ends = {} THEN -1 ELSE Min(ends)
    /\ Fetchaddr(va).ok <=> /\ va + Uint64 <= usz
                            /\ \A i \in 0 .. Uint64 - 1 : Walkaddr(va + i)
=============================================================================
