------------------------------- MODULE Memory -------------------------------
(***************************************************************************)
(* Pages of memory: the free list of kernel/kalloc.c, user page tables     *)
(* (kernel/vm.c), and the calls that use them: fork, sbrk, exec, exit      *)
(* (kernel/proc.c, exec.c, sysfile.c) and sys_meminfo.                     *)
(*                                                                         *)
(* A page table is private to its process, so processes meet only in       *)
(* kalloc(): a call is one step, in which kalloc() fails after any number   *)
(* of successes, as it does when others take the pages.  Pages are counted: *)
(* which one kalloc() returns does not matter, and a page freed twice, kept *)
(* twice or forgotten shows in the sum.                                     *)
(*                                                                         *)
(* A function of the code that changes memory is an operator on a record w *)
(* (free pages, allocations left before kalloc() fails, the page table,    *)
(* and whether a panic was reached).  It returns [ok, w].                  *)
(***************************************************************************)
EXTENDS Riscv

CONSTANTS
  Slots,          \* process slots
  KernelEnd,      \* end, the first address after the kernel
  PHYSTOP,
  MaxGrow,        \* bound: the largest |n| of sbrk()
  Segments,       \* program headers of the files exec() is called on
  USERSTACK, MAXARG

VARIABLES
  freelist,       \* the length of kmem.freelist
  mem,            \* each slot: used, pt, sz; a used slot has a trapframe page
  pipes,          \* the number of struct pipe pages
  panicked        \* a panic() was reached

memVars == <<freelist, mem, pipes, panicked>>

\* freerange(end, PHYSTOP): the pages kinit() puts on the free list
NPAGES == (PHYSTOP - Roundup(KernelEnd)) \div PGSIZE

\* pagetable == 0; tab has the pages of the table, named by the indices that
\* lead to them; leaf says of each mapped virtual page whether it has PTE_U
NoTable == [tab |-> {}, leaf |-> <<>>]

\* Memory ends before a process can fill its address space up to TRAPFRAME.
ASSUME MemoryIsSmall == NPAGES <= TRAPFRAME + 2 + Fanout + Fanout * Fanout

Unmapped(f, dom) == [x \in DOMAIN f \ dom |-> f[x]]
Mapped(f, x, y) == [z \in DOMAIN f \cup {x} |-> IF z = x THEN y ELSE f[z]]

(***************************************************************************)
(* kalloc.c                                                                *)
(***************************************************************************)
Kalloc(w) == w.left > 0 /\ w.free > 0
AfterKalloc(w) == [w EXCEPT !.free = @ - 1, !.left = @ - 1]
Kfree(w, n) == [w EXCEPT !.free = @ + n]

(***************************************************************************)
(* vm.c                                                                    *)
(***************************************************************************)
Tables(v) == << <<v \div (Fanout * Fanout)>>, <<v \div (Fanout * Fanout), (v \div Fanout) % Fanout>> >>

\* walk(pagetable, va, 1), the part below level 2 - d: what it allocates stays
RECURSIVE WalkAlloc(_, _, _)
WalkAlloc(w, v, d) ==
  IF d > 2 THEN [ok |-> TRUE, w |-> w]
  ELSE IF Tables(v)[d] \in w.pt.tab THEN WalkAlloc(w, v, d + 1)
  ELSE IF ~Kalloc(w) THEN [ok |-> FALSE, w |-> w]
  ELSE WalkAlloc([AfterKalloc(w) EXCEPT !.pt.tab = @ \cup {Tables(v)[d]}], v, d + 1)

\* mappages() of one page, after walk() has returned r; user is PTE_U
Map(r, v, user) ==
  IF ~r.ok THEN r
  ELSE [ok |-> TRUE, w |-> [r.w EXCEPT !.pt.leaf = Mapped(@, v, user),
                                       !.panic = @ \/ v \in DOMAIN r.w.pt.leaf]]
Mappages(w, v, user) ==
  IF v >= MaxVPN THEN [ok |-> FALSE, w |-> [w EXCEPT !.panic = TRUE]]
  ELSE Map(WalkAlloc(w, v, 1), v, user)

\* uvmunmap() of the virtual pages in range
Uvmunmap(w, range, do_free) ==
  [w EXCEPT !.pt.leaf = Unmapped(@, range),
            !.panic = @ \/ ~(range \subseteq DOMAIN w.pt.leaf),
            !.free = @ + IF do_free THEN Cardinality(range \cap DOMAIN w.pt.leaf) ELSE 0]

Uvmdealloc(w, oldsz, newsz) ==
  IF newsz >= oldsz THEN w
  ELSE Uvmunmap(w, Roundup(newsz) \div PGSIZE .. Roundup(oldsz) \div PGSIZE - 1, TRUE)

\* Mutant of UndoAlloc: the failed growth is not undone.
UndoAllocNot(w, a, oldsz) == w

\* uvmdealloc(pagetable, a, oldsz), after a failure at a
UndoAlloc(w, a, oldsz) == Uvmdealloc(w, a, oldsz)

\* the loop of uvmalloc(), from address a; r is what the last round returned
RECURSIVE Grow(_, _, _, _)
Grow(r, a, oldsz, newsz) ==
  IF ~r.ok THEN [ok |-> FALSE, w |-> UndoAlloc(Kfree(r.w, 1), a - PGSIZE, oldsz)]
  ELSE IF a >= newsz THEN r
  ELSE IF ~Kalloc(r.w) THEN [ok |-> FALSE, w |-> UndoAlloc(r.w, a, oldsz)]
  ELSE Grow(Mappages(AfterKalloc(r.w), a \div PGSIZE, TRUE), a + PGSIZE, oldsz, newsz)

\* uvmalloc(); sz = 0 stands for an error
Grown(r, newsz) == [sz |-> IF r.ok THEN newsz ELSE 0, w |-> r.w]
Uvmalloc(w, oldsz, newsz) ==
  IF newsz < oldsz THEN [sz |-> oldsz, w |-> w]
  ELSE Grown(Grow([ok |-> TRUE, w |-> w], Roundup(oldsz), Roundup(oldsz), newsz), newsz)

\* all leaf mappings must have been removed
Freewalk(w) == Kfree([w EXCEPT !.pt = NoTable, !.panic = @ \/ w.pt.leaf # <<>>], Cardinality(w.pt.tab))

Uvmfree(w, sz) == Freewalk(Uvmunmap(w, 0 .. Roundup(sz) \div PGSIZE - 1, TRUE))

\* the loop of uvmcopy() of a table with the mappings old, from virtual page v
RECURSIVE Uvmcopy(_, _, _, _)
Uvmcopy(old, r, v, sz) ==
  IF ~r.ok THEN [ok |-> FALSE, w |-> Uvmunmap(Kfree(r.w, 1), 0 .. v - 2, TRUE)]
  ELSE IF v * PGSIZE >= sz THEN r
  ELSE IF v \notin DOMAIN old THEN [ok |-> FALSE, w |-> [r.w EXCEPT !.panic = TRUE]]
  ELSE IF ~Kalloc(r.w) THEN [ok |-> FALSE, w |-> Uvmunmap(r.w, 0 .. v - 1, TRUE)]
  ELSE Uvmcopy(old, Mappages(AfterKalloc(r.w), v, old[v]), v + 1, sz)

(***************************************************************************)
(* proc.c                                                                  *)
(***************************************************************************)
\* proc_pagetable(): the trampoline is kernel code, not a page of the list
MapTrapframe(r) ==
  IF r.ok THEN r ELSE [ok |-> FALSE, w |-> Uvmfree(Uvmunmap(r.w, {TRAMPOLINE}, FALSE), 0)]
MapTrampoline(r) ==
  IF r.ok THEN MapTrapframe(Mappages(r.w, TRAPFRAME, FALSE))
  ELSE [ok |-> FALSE, w |-> Uvmfree(r.w, 0)]
ProcPagetable(w) ==
  IF ~Kalloc(w) THEN [ok |-> FALSE, w |-> w]
  ELSE MapTrampoline(Mappages([AfterKalloc(w) EXCEPT !.pt.tab = { <<>> }], TRAMPOLINE, FALSE))

ProcFreepagetable(w, sz) ==
  Uvmfree(Uvmunmap(Uvmunmap(w, {TRAMPOLINE}, FALSE), {TRAPFRAME}, FALSE), sz)

NoProc == [used |-> FALSE, pt |-> NoTable, sz |-> 0]

\* the memory part of allocproc(): the trapframe, then the page table
WithTable(r) == [r EXCEPT !.w = IF r.ok THEN @ ELSE Kfree(@, 1)]
Allocproc(w) ==
  IF Kalloc(w) THEN WithTable(ProcPagetable(AfterKalloc(w))) ELSE [ok |-> FALSE, w |-> w]

\* the memory part of freeproc(); w.pt is the table of the process
Freeproc(w, sz) == ProcFreepagetable(Kfree(w, 1), sz)

(***************************************************************************)
(* exec(): the new image beside the old one.                               *)
(***************************************************************************)
\* what the loop demands of a program header
GoodSegment(s) ==
  /\ s.memsz >= s.filesz
  /\ (s.vaddr + s.memsz) % Word >= s.vaddr
  /\ s.vaddr % PGSIZE = 0

\* loadseg() finds every page it reads into, as a user page
Loadable(w, s) == \A v \in s.vaddr \div PGSIZE .. (s.vaddr + s.filesz - 1) \div PGSIZE :
  v \in DOMAIN w.pt.leaf /\ w.pt.leaf[v]

\* the loop over the program headers; r has the size so far, and reads counts the
\* reads of the file, and then the copies to the stack, that succeed
Loaded(r, s, sz, reads) ==
  IF r.sz = 0 THEN [ok |-> FALSE, sz |-> sz, w |-> r.w]
  ELSE [ok |-> reads > 1, sz |-> r.sz, w |-> [r.w EXCEPT !.panic = @ \/ ~Loadable(r.w, s)]]
RECURSIVE LoadAll(_, _, _)
LoadAll(r, segs, reads) ==
  IF segs = <<>> \/ ~r.ok THEN r
  ELSE IF ~GoodSegment(Head(segs)) THEN [r EXCEPT !.ok = FALSE]
  ELSE LoadAll(Loaded(Uvmalloc(r.w, r.sz, Head(segs).vaddr + Head(segs).memsz), Head(segs), r.sz, reads),
               Tail(segs), reads - 1)

\* the stack, with its first page out of the user's reach
Cleared(r, sz) ==
  IF r.sz = 0 THEN [ok |-> FALSE, sz |-> sz, w |-> r.w]
  ELSE [ok |-> TRUE, sz |-> r.sz, w |-> [r.w EXCEPT !.pt.leaf[sz \div PGSIZE] = FALSE]]
Stack(w, sz) == Cleared(Uvmalloc(w, sz, sz + (USERSTACK + 1) * PGSIZE), sz)

\* the size the failure path frees
BadSz(r, oldsz) == r.sz

\* exec() of a file with headers segs: the image that results, and w.  A failure
\* in pushing the arguments, the last of the reads, comes after the stack.
ExecBad(r, me) == [new |-> me, w |-> ProcFreepagetable(r.w, BadSz(r, me.sz))]
Replace(r, me, pushed) ==
  IF ~r.ok \/ ~pushed THEN ExecBad(r, me)
  ELSE [new |-> [me EXCEPT !.pt = r.w.pt, !.sz = r.sz],
        w |-> ProcFreepagetable([r.w EXCEPT !.pt = me.pt], me.sz)]
AddStack(r, me, pushed) ==
  IF r.ok THEN Replace(Stack(r.w, Roundup(r.sz)), me, pushed) ELSE ExecBad(r, me)
Load(r, me, segs, reads) ==
  IF ~r.ok THEN [new |-> me, w |-> r.w]
  ELSE AddStack(LoadAll([ok |-> reads > 0, sz |-> 0, w |-> r.w], segs, reads), me, reads > Len(segs) + 1)
Image(w, me, segs, reads) == Load(ProcPagetable(w), me, segs, reads)

(***************************************************************************)
(* The calls.                                                              *)
(***************************************************************************)
Work(pt, left) == [free |-> freelist, left |-> left, pt |-> pt, panic |-> FALSE]
Settle(w) == freelist' = w.free /\ panicked' = (panicked \/ w.panic)
Budgets == 0 .. freelist

\* userinit(): kalloc() does not fail at boot
Userinit(p) ==
  /\ \A q \in Slots : ~mem[q].used
  /\ \E a \in {Allocproc(Work(NoTable, freelist))} :
       \E u \in {Mappages(AfterKalloc(a.w), 0, TRUE)} :
         /\ mem' = [mem EXCEPT ![p] = [used |-> TRUE, pt |-> u.w.pt, sz |-> PGSIZE]]
         /\ Settle(u.w)
  /\ UNCHANGED pipes

\* fork(): the child np is a free slot
Fork(p, np, left) ==
  /\ mem[p].used /\ ~mem[np].used
  /\ \E a \in {Allocproc(Work(NoTable, left))} :
       IF ~a.ok THEN Settle(a.w) /\ UNCHANGED mem
       ELSE \E c \in {Uvmcopy(mem[p].pt.leaf, a, 0, mem[p].sz)} :
              IF ~c.ok THEN Settle(Freeproc(c.w, 0)) /\ UNCHANGED mem
              ELSE /\ Settle(c.w)
                   /\ mem' = [mem EXCEPT ![np] = [used |-> TRUE, pt |-> c.w.pt, sz |-> mem[p].sz]]
  /\ UNCHANGED pipes

\* sbrk(): growproc(); a negative n below -sz wraps and changes nothing
Sbrk(p, n, left) ==
  /\ mem[p].used /\ n # 0
  /\ LET w == Work(mem[p].pt, left)
         newsz == (mem[p].sz + n) % Word
     IN \E r \in {IF n > 0 THEN Uvmalloc(w, mem[p].sz, newsz)
                 ELSE [w |-> Uvmdealloc(w, mem[p].sz, newsz), sz |-> Min({newsz, mem[p].sz})]} :
          /\ Settle(r.w)
          /\ mem' = [mem EXCEPT ![p].pt = r.w.pt,
                                ![p].sz = IF n > 0 /\ r.sz = 0 THEN @ ELSE r.sz]
  /\ UNCHANGED pipes

\* the loop of sys_exec(), from argument i of args: a page for each; fetches of the
\* user's pointers and strings succeed
RECURSIVE FetchArgs(_, _, _, _)
FetchArgs(w, i, args, fetches) ==
  IF i >= MAXARG \/ fetches = 0 THEN [ok |-> FALSE, pages |-> i, w |-> w]
  ELSE IF i = args THEN [ok |-> TRUE, pages |-> i, w |-> w]
  ELSE IF ~Kalloc(w) THEN [ok |-> FALSE, pages |-> i, w |-> w]
  ELSE IF fetches = 1 THEN [ok |-> FALSE, pages |-> i + 1, w |-> AfterKalloc(w)]
  ELSE FetchArgs(AfterKalloc(w), i + 1, args, fetches - 2)

\* sys_exec(): the pages hold the arguments while exec() runs,
Exec(p, segs, args, reads, left) ==
  /\ mem[p].used
  /\ \E a \in {FetchArgs(Work(NoTable, left), 0, args, 2 * args + 1)} :
       /\ a.ok
       /\ \E e \in {Image(a.w, mem[p], segs, reads)} :
            /\ Settle(Kfree(e.w, a.pages))
            /\ mem' = [mem EXCEPT ![p] = e.new]
  /\ UNCHANGED pipes

\* or it does not come to that
ExecBadArgs(p, args, fetches, left) ==
  /\ mem[p].used
  /\ \E a \in {FetchArgs(Work(NoTable, left), 0, args, fetches)} :
       ~a.ok /\ Settle(Kfree(a.w, a.pages))
  /\ UNCHANGED <<mem, pipes>>

\* exit() and the wait() that finds the zombie
Reap(p) ==
  /\ mem[p].used /\ \E q \in Slots \ {p} : mem[q].used
  /\ Settle(Freeproc(Work(mem[p].pt, 0), mem[p].sz))
  /\ mem' = [mem EXCEPT ![p] = NoProc]
  /\ UNCHANGED pipes

\* the page of pipealloc(), and pipeclose()'s kfree() of it
PipePage ==
  \/ /\ freelist > 0 /\ pipes = 0
     /\ pipes' = 1 /\ freelist' = freelist - 1
     /\ UNCHANGED <<mem, panicked>>
  \/ /\ pipes = 1
     /\ pipes' = 0 /\ freelist' = freelist + 1
     /\ UNCHANGED <<mem, panicked>>

MemInit ==
  /\ freelist = NPAGES
  /\ mem = [p \in Slots |-> NoProc]
  /\ pipes = 0 /\ panicked = FALSE

MemNext ==
  \/ PipePage
  \/ \E p \in Slots :
       \/ Userinit(p) \/ Reap(p)
       \/ \E left \in Budgets :
            \/ \E np \in Slots : Fork(p, np, left)
            \/ \E n \in -MaxGrow .. MaxGrow : Sbrk(p, n, left)
            \/ \E segs \in Segments : \E args \in 0 .. MAXARG - 1, reads \in 0 .. Len(segs) + 2 :
                 Exec(p, segs, args, reads, left)
            \/ \E args \in 0 .. MAXARG : \E fetches \in 0 .. 2 * args + 1 :
                 ExecBadArgs(p, args, fetches, left)

MemSpec == MemInit /\ [][MemNext]_memVars

(***************************************************************************)
(* Properties.                                                             *)
(***************************************************************************)
\* Every variable has its type.
MemTypeOK ==
  /\ freelist \in 0 .. NPAGES /\ pipes \in 0 .. 1 /\ panicked \in BOOLEAN
  /\ \A p \in Slots :
       /\ mem[p].used \in BOOLEAN /\ mem[p].sz \in 0 .. Word - 1
       /\ DOMAIN mem[p].pt.leaf \subseteq 0 .. MaxVPN - 1

\* sys_meminfo(): the pages it reports as free and as used
Meminfo ==
  LET total == (PHYSTOP - KernelEnd) \div PGSIZE
  IN [free |-> freelist, used |-> total - freelist]

\* the pages of p: trapframe, page table, user memory
PagesOf(p) == IF mem[p].used
              THEN 1 + Cardinality(mem[p].pt.tab)
                     + Cardinality(DOMAIN mem[p].pt.leaf \ {TRAMPOLINE, TRAPFRAME})
              ELSE 0

\* no page is lost or freed twice, wherever in fork(), sbrk() or exec() kalloc() or
\* a read fails: the free pages and those of the live processes and pipes are all
\* there are.  So what sys_meminfo() reports as used is the pages in use, although it
\* never counts them.
PagesConserved == Meminfo.used = pipes + MapThenSumSet(PagesOf, Slots)

\* the page table of a live process maps exactly its size and the two pages at
\* the top, so fork(), exec() and exit() reach none of the panics in vm.c: remap,
\* not mapped, freewalk: leaf, uvmcopy: page not present, loadseg: address should
\* exist.
ImageMatchesSize ==
  /\ ~panicked
  /\ \A p \in Slots : mem[p].used =>
       DOMAIN mem[p].pt.leaf =
         (0 .. Roundup(mem[p].sz) \div PGSIZE - 1) \cup {TRAMPOLINE, TRAPFRAME}

\* Memory is accounted for: fork(), exec(), sbrk(), exit() and pipe() lose no page and
\* free none twice, on their error paths too, and every page table matches the size of
\* its process, so that none of the panics of kernel/vm.c is reached.
MemorySound == MemTypeOK /\ PagesConserved /\ ImageMatchesSize
=============================================================================
