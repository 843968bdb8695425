------------------------------- MODULE Riscv -------------------------------
(***************************************************************************)
(* Addresses and pages: kernel/riscv.h and kernel/memlayout.h, for pages of *)
(* PGSIZE bytes, three levels of Fanout entries, and words of AddrBits bits.*)
(***************************************************************************)
EXTENDS Integers, FiniteSets, FiniteSetsExt, Sequences

CONSTANTS PGSIZE, Fanout, AddrBits

Word == 2 ^ AddrBits
Rounddown(a) == (a \div PGSIZE) * PGSIZE
Roundup(sz) == Rounddown((sz + PGSIZE - 1) % Word)
MaxVPN == Fanout * Fanout * Fanout              \* MAXVA / PGSIZE
TRAMPOLINE == MaxVPN - 1
TRAPFRAME == MaxVPN - 2

ASSUME AddressesFit == MaxVPN * PGSIZE <= Word
=============================================================================
