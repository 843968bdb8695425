------------------------------ MODULE ProcLife ------------------------------
(***************************************************************************)
(* What the process table promises the rest of the kernel: the life of     *)
(* each slot, one step at a time, without CPUs, locks or scans.  Proc is   *)
(* shown to implement it (Life in Proc, theorem ProcImplementsLife).       *)
(***************************************************************************)
EXTENDS Naturals

CONSTANTS Procs, initproc

VARIABLES state, killed, frozen, pid, nextpid

lifevars == <<state, killed, frozen, pid, nextpid>>

Init ==
  /\ state = [p \in Procs |-> IF p = initproc THEN "RUNNABLE" ELSE "UNUSED"]
  /\ killed = [p \in Procs |-> FALSE]
  /\ frozen = [p \in Procs |-> FALSE]
  /\ pid = [p \in Procs |-> IF p = initproc THEN 1 ELSE 0]
  /\ nextpid = 2

\* p's state goes from one of the states in from to to, and nothing else
Move(p, from, to) ==
  /\ state[p] \in from
  /\ state' = [state EXCEPT ![p] = to]
  /\ UNCHANGED <<killed, frozen, pid, nextpid>>

\* a frozen process is never given a CPU
Dispatch(p) == ~frozen[p] /\ Move(p, {"RUNNABLE"}, "RUNNING")
Yield(p) == Move(p, {"RUNNING"}, "RUNNABLE")
Sleep(p) == Move(p, {"RUNNING"}, "SLEEPING")
Wake(p) == Move(p, {"SLEEPING"}, "RUNNABLE")
Launch(p) == Move(p, {"USED"}, "RUNNABLE")
Exit(p) == p # initproc /\ Move(p, {"RUNNING"}, "ZOMBIE")

\* a new process gets a pid nobody has had
Create(p) ==
  /\ state[p] = "UNUSED"
  /\ state' = [state EXCEPT ![p] = "USED"]
  /\ pid' = [pid EXCEPT ![p] = nextpid]
  /\ nextpid' = nextpid + 1
  /\ UNCHANGED <<killed, frozen>>

\* a creation that fails uses up a pid
CreateFails(p) ==
  /\ state[p] = "UNUSED"
  /\ killed' = [killed EXCEPT ![p] = FALSE]
  /\ nextpid' = nextpid + 1
  /\ UNCHANGED <<state, frozen, pid>>

\* only an exited process gives its slot back
Reap(p) ==
  /\ state[p] = "ZOMBIE"
  /\ state' = [state EXCEPT ![p] = "UNUSED"]
  /\ pid' = [pid EXCEPT ![p] = 0]
  /\ killed' = [killed EXCEPT ![p] = FALSE]
  /\ UNCHANGED <<frozen, nextpid>>

Rouse(p) == state' = [state EXCEPT ![p] = IF @ = "SLEEPING" THEN "RUNNABLE" ELSE @]

Kill(p) ==
  /\ killed' = [killed EXCEPT ![p] = TRUE]
  /\ Rouse(p)
  /\ UNCHANGED <<frozen, pid, nextpid>>

Freeze(p) ==
  /\ state[p] \notin {"UNUSED", "ZOMBIE"} /\ ~frozen[p]
  /\ frozen' = [frozen EXCEPT ![p] = TRUE]
  /\ UNCHANGED <<state, killed, pid, nextpid>>

Unfreeze(p) ==
  /\ frozen[p]
  /\ frozen' = [frozen EXCEPT ![p] = FALSE]
  /\ Rouse(p)
  /\ UNCHANGED <<killed, pid, nextpid>>

Next == \E p \in Procs :
  \/ Dispatch(p) \/ Yield(p) \/ Sleep(p) \/ Wake(p) \/ Launch(p) \/ Exit(p)
  \/ Create(p) \/ CreateFails(p) \/ Reap(p)
  \/ Kill(p) \/ Freeze(p) \/ Unfreeze(p)

Spec == Init /\ [][Next]_lifevars
=============================================================================
