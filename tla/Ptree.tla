------------------------------- MODULE Ptree --------------------------------
(***************************************************************************)
(* sys_ptree() of kernel/sysproc.c walks the process table while other       *)
(* processes fork, exit and are collected.  It looks at one slot at a time   *)
(* under p->lock, does not take wait_lock, which protects p->parent, and     *)
(* prints a process after it has released the lock of its slot.              *)
(***************************************************************************)
EXTENDS Integers, Sequences, FiniteSets, FiniteSetsExt

CONSTANTS
  NPROC,
  MaxChanges      \* bound: calls of fork(), exit() and wait()

VARIABLES
  state,          \* of each slot; "exiting" is in exit(), with wait_lock
  ppid,           \* the slot of p->parent, or -1
  frames,         \* the calls of print_ptree_recursive(): its process, the next child
  printed,        \* the lines: slot and depth
  fixed,          \* slots whose process and parent are those of the start (history)
  changes

ptVars == <<state, ppid, frames, printed, fixed, changes>>
tableVars == <<state, ppid, fixed, changes>>

ProcSlots == 0 .. NPROC - 1
Initproc == 0
Unused == {c \in ProcSlots : state[c] = "unused"}

(***************************************************************************)
(* The other processes.                                                     *)
(***************************************************************************)
Change(touched) ==
  /\ changes < MaxChanges /\ changes' = changes + 1
  /\ fixed' = fixed \ touched
  /\ UNCHANGED <<frames, printed>>

\* allocproc(), in fork()
Allocs ==
  /\ Unused # {}
  /\ state' = [state EXCEPT ![Min(Unused)] = "used"]
  /\ Change({Min(Unused)})
  /\ UNCHANGED ppid

\* exit() holds wait_lock from before reparent() until after it is a zombie
WaitLockFree == \A p \in ProcSlots : state[p] # "exiting"

\* fork() sets np->parent under wait_lock, and then the state
Adopts(c, p) ==
  /\ state[c] = "used" /\ state[p] = "alive" /\ WaitLockFree
  /\ state' = [state EXCEPT ![c] = "alive"]
  /\ ppid' = [ppid EXCEPT ![c] = p]
  /\ fixed' = fixed \ {c}
  /\ UNCHANGED <<changes, frames, printed>>

\* exit() up to reparent()
Exits(p) ==
  /\ state[p] = "alive" /\ p # Initproc /\ WaitLockFree
  /\ state' = [state EXCEPT ![p] = "exiting"]
  /\ Change({})
  /\ UNCHANGED ppid

\* reparent(), one child after the other, and the state of exit() after the last
Reparent(p) ==
  LET cs == {c \in ProcSlots : ppid[c] = p}
  IN /\ state[p] = "exiting"
     /\ IF cs # {}
        THEN /\ ppid' = [ppid EXCEPT ![Min(cs)] = Initproc]
             /\ fixed' = fixed \ {Min(cs)}
             /\ UNCHANGED state
        ELSE state' = [state EXCEPT ![p] = "zombie"] /\ UNCHANGED <<ppid, fixed>>
     /\ UNCHANGED <<changes, frames, printed>>

\* wait() of the parent: freeproc()
Reaped(p) ==
  /\ state[p] = "zombie" /\ WaitLockFree
  /\ state' = [state EXCEPT ![p] = "unused"]
  /\ ppid' = [ppid EXCEPT ![p] = -1]
  /\ Change({p})

(***************************************************************************)
(* sys_ptree()                                                             *)
(***************************************************************************)
Present == {c \in ProcSlots : state[c] # "unused"}

\* Mutant of FirstChild: children are looked for above their parent only.
FirstChildAbove(p) == p + 1

\* where the loop over the children begins
FirstChild(p) == 0

\* init is found
PtreeBegin ==
  /\ frames = <<>> /\ printed = <<>>
  /\ frames' = << [p |-> Initproc, next |-> -1] >>
  /\ fixed' = Present
  /\ UNCHANGED <<state, ppid, printed, changes>>

Top == frames[Len(frames)]
Popped == SubSeq(frames, 1, Len(frames) - 1)

\* the line of a process, indented by its depth
PrintLine ==
  /\ frames # <<>> /\ Top.next = -1
  /\ printed' = Append(printed, <<Top.p, Len(frames) - 1>>)
  /\ frames' = Append(Popped, [Top EXCEPT !.next = FirstChild(Top.p)])
  /\ UNCHANGED tableVars

\* one round of the loop: a slot is looked at, and a child printed with its own
IsChild(c, p) == state[c] # "unused" /\ ppid[c] = p
Child ==
  /\ frames # <<>> /\ Top.next \in ProcSlots
  /\ LET on == Append(Popped, [Top EXCEPT !.next = @ + 1])
     IN frames' = IF IsChild(Top.next, Top.p)
                  THEN Append(on, [p |-> Top.next, next |-> -1]) ELSE on
  /\ UNCHANGED <<printed, tableVars>>

\* the end of the loop
Return ==
  /\ frames # <<>> /\ Top.next >= NPROC
  /\ frames' = Popped
  /\ UNCHANGED <<printed, tableVars>>

PtInit ==
  /\ state = [c \in ProcSlots |-> IF c = Initproc THEN "alive" ELSE "unused"]
  /\ ppid = [c \in ProcSlots |-> -1]
  /\ frames = <<>> /\ printed = <<>> /\ fixed = {} /\ changes = 0

PtNext ==
  \/ PtreeBegin \/ PrintLine \/ Child \/ Return
  \/ Allocs
  \/ \E p \in ProcSlots :
       Exits(p) \/ Reparent(p) \/ Reaped(p) \/ \E c \in ProcSlots : Adopts(c, p)
PtSpec == PtInit /\ [][PtNext]_ptVars

(***************************************************************************)
(* Properties.                                                             *)
(***************************************************************************)
\* Every variable has its type.
PtTypeOK ==
  /\ state \in [ProcSlots -> {"unused", "used", "alive", "exiting", "zombie"}]
  /\ ppid \in [ProcSlots -> {-1} \cup ProcSlots] /\ fixed \subseteq ProcSlots
  /\ \A i \in 1 .. Len(frames) : frames[i].p \in ProcSlots /\ frames[i].next \in -1 .. NPROC

\* a process and all its ancestors have been the same since the walk began
RECURSIVE Steady(_)
Steady(c) == c \in fixed /\ (c = Initproc \/ Steady(ppid[c]))
RECURSIVE Generation(_)
Generation(c) == IF c = Initproc THEN 0 ELSE 1 + Generation(ppid[c])

\* However many processes come and go during the walk: a process that was there when it
\* began, and whose chain of parents up to init has not changed since, has exactly one
\* line when it ends, indented by its generation.  (Others may be missing, or be listed
\* twice after a change of parent.)
SteadyOnce == PtTypeOK /\ (frames = <<>> /\ printed # <<>> =>
  \A c \in ProcSlots : Steady(c) =>
    LET lines == {i \in 1 .. Len(printed) : printed[i][1] = c /\ printed[i][2] = Generation(c)}
        stray == {i \in 1 .. Len(printed) : printed[i][1] = c} \ lines
    IN Cardinality(lines) = 1 /\ stray = {})
=============================================================================
