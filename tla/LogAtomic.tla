----------------------------- MODULE LogAtomic ------------------------------
(***************************************************************************)
(* What kernel/log.c promises the file system: the writes of the calls     *)
(* between begin_op() and end_op() reach the disk together or not at all.  *)
(* Log is shown to implement it (Atomic in Log).                           *)
(***************************************************************************)
CONSTANTS Procs, Blocks, Vals

VARIABLES
  view,       \* the blocks as the running kernel sees them
  durable,    \* the blocks as they are after a crash and a recovery
  active      \* the processes between begin_op() and end_op()

atomvars == <<view, durable, active>>

Init == view = durable /\ durable \in [Blocks -> Vals] /\ active = {}

Begin(p) == p \notin active /\ active' = active \cup {p} /\ UNCHANGED <<view, durable>>

Write(p, b, v) ==
  /\ p \in active
  /\ view' = [view EXCEPT ![b] = v]
  /\ UNCHANGED <<durable, active>>

End(p) == p \in active /\ active' = active \ {p} /\ UNCHANGED <<view, durable>>

\* all calls that have begun have ended: their writes become durable at once
Commit == active = {} /\ durable' = view /\ UNCHANGED <<view, active>>

\* the machine stops and starts again
Crash == view' = durable /\ active' = {} /\ UNCHANGED durable

Next ==
  \/ \E p \in Procs : Begin(p) \/ End(p)
  \/ \E p \in Procs, b \in Blocks, v \in Vals : Write(p, b, v)
  \/ Commit \/ Crash

Spec == Init /\ [][Next]_atomvars
=============================================================================
