------------------------------ MODULE MCKernel ------------------------------
(***************************************************************************)
(* Components that are checked for safety, for TLC in one run.  They share no  *)
(* state here: part says which of them runs, and the others stay as they were *)
(* initialised.                                                             *)
(***************************************************************************)
EXTENDS Pipe, Console, Ptree, Umalloc, Mkfs,
        Memory, UserCopy, MCNamespace, FileData

VARIABLE part

PartNames == {"pipe", "console", "ptree", "umalloc", "mkfs",
              "memory", "usercopy", "namespace", "filedata"}
kVars == <<pipeVars, consVars, ptVars, umVars, mkVars, memVars, ucVars,
           nsVars, fdVars, part>>

KInit ==
  /\ part \in PartNames
  /\ PipeInit /\ ConsInit /\ PtInit /\ UmInit /\ MkInit
  /\ MemInit /\ UcInit /\ NsInit /\ FdInit
  /\ part # "usercopy" => perm = [k \in 0 .. UserPages - 1 |-> "rw"] /\ usz = UserPages * PGSIZE
  /\ part # "namespace" => dino[2].type = "file"

\* a component that does not run stays as it is
Rests(p, v) == IF part = p THEN TRUE ELSE UNCHANGED v

\* where the bounds on calls, changes and files end a run
MayStop == {"pipe", "ptree", "mkfs", "namespace", "filedata"}

KNext ==
  \/ /\ \/ part = "pipe" /\ PipeNext
        \/ part = "console" /\ ConsNext
        \/ part = "ptree" /\ PtNext
        \/ part = "umalloc" /\ UmNext
        \/ part = "mkfs" /\ MkNext
        \/ part = "memory" /\ MemNext
        \/ part = "usercopy" /\ UcNext
        \/ part = "namespace" /\ NsNext
        \/ part = "filedata" /\ FdNext
     /\ UNCHANGED part
     /\ Rests("pipe", pipeVars) /\ Rests("console", consVars)
     /\ Rests("ptree", ptVars)
     /\ Rests("umalloc", umVars) /\ Rests("mkfs", mkVars) /\ Rests("memory", memVars)
     /\ Rests("usercopy", ucVars) /\ Rests("namespace", nsVars) /\ Rests("filedata", fdVars)
  \/ part \in MayStop /\ UNCHANGED kVars

KSpec == KInit /\ [][KNext]_kVars

\* Nobody sleeps on what is there: a reader or writer of a pipe (piperead(),
\* pipewrite()) and a reader of the console (consoleread()) is awake or woken as soon
\* as what it sleeps for has come, or its wakeup is already under way.
NobodySleepsOn == PipeWakeups /\ ConsReadable

\* What copyin(), copyout(), copyinstr() and fetchaddr() copy, and when they refuse, is
\* what a copy byte by byte would do; only looked at where the user memory changes.
UserCopies == part = "usercopy" => CopiesFaithful

(***************************************************************************)
(* Values of the constants.                                                *)
(***************************************************************************)
\* program segments to exec()
Seg(v, m, f) == [vaddr |-> v, memsz |-> m, filesz |-> f]
KSegments == {
  <<>>, <<Seg(0, 2, 1)>>, <<Seg(0, 1, 1), Seg(2, 2, 2)>>, <<Seg(2, 2, 1), Seg(0, 1, 1)>>,
  <<Seg(0, 2, 3)>>, <<Seg(62, 4, 1)>>, <<Seg(1, 1, 1)>>, <<Seg(0, 40, 1)>> }
=============================================================================
