----------------------------- MODULE FileTable -----------------------------
(***************************************************************************)
(* Open files: the file table of kernel/file.c (filealloc, filedup,         *)
(* fileclose, fileread, filewrite) and the descriptors of                   *)
(* kernel/sysfile.c (open, dup, close, pipe), fork() and exit().            *)
(*                                                                         *)
(* A step ends where ftable.lock or the inode's lock is released, so the     *)
(* work that fileclose() does on its copy ff, after the lock, is a step of   *)
(* its own.  There is one file on disk, with its lock and the count of       *)
(* references the file table holds to it; a pipe is the pair of its ends.    *)
(***************************************************************************)
EXTENDS Integers, FiniteSets, FiniteSetsExt, Sequences

CONSTANTS
  Users,          \* processes; User0 is there from the start
  User0, NoOne,
  NFILE, NOFILE,
  MaxOff          \* bound: the file offset

VARIABLES
  ftable,         \* files 1 .. NFILE: ref, type, off
  ofile,          \* descriptors of each process: a file, or 0
  alive,          \* processes that exist
  at,             \* where each process is in its call
  ends,           \* open ends of the pipe
  irefs,          \* references to the inode
  ilk,            \* the process that holds its lock
  nested,         \* begin_op() inside a transaction, or a reference count panic
  written         \* reads and writes done through each file since it was opened

ftVars == <<ftable, ofile, alive, at, ends, irefs, ilk, nested, written>>

FileNos == 1 .. NFILE
Fds == 0 .. NOFILE - 1
Closed == [ref |-> 0, type |-> "none", off |-> 0]
Away == [pc |-> "user", f |-> 0, g |-> 0, closing |-> <<>>, ff |-> "none", tx |-> FALSE, pos |-> 0,
         exiting |-> FALSE, np |-> NoOne]

FtAt(p, pc) == p \in alive /\ at[p].pc = pc
FtTo(p, r) == at' = [at EXCEPT ![p] = r]
FreeFiles == {f \in FileNos : ftable[f].ref = 0}
FreeFds(p) == {d \in Fds : ofile[p][d] = 0}

\* fileclose() of these files, one after the other
Closing(r, fs) == [r EXCEPT !.pc = "close", !.closing = fs]
\* exit() about to look at descriptor d
Exiting(d) == [Away EXCEPT !.pc = "exit", !.exiting = TRUE, !.pos = d]

(***************************************************************************)
(* fileclose()                                                             *)
(***************************************************************************)
\* Mutant of ClearedFile: the type of the last user stays behind.
ClearedFileRefOnly(e) == [e EXCEPT !.ref = 0]

\* the entry after its last reference; its stale offset is set again by sys_open()
ClearedFile(e) == Closed

\* under ftable.lock: drop the reference, and copy and clear the last one
Fileclose(p) ==
  /\ FtAt(p, "close") /\ at[p].closing # <<>>
  /\ LET f == Head(at[p].closing)
     IN /\ nested' = (nested \/ ftable[f].ref < 1)
        /\ IF ftable[f].ref > 1
           THEN /\ ftable' = [ftable EXCEPT ![f].ref = @ - 1] /\ UNCHANGED written
                /\ FtTo(p, [at[p] EXCEPT !.closing = Tail(@)])
           ELSE /\ ftable' = [ftable EXCEPT ![f] = ClearedFile(@)]
                /\ written' = [written EXCEPT ![f] = 0]
                /\ FtTo(p, [at[p] EXCEPT !.closing = Tail(@), !.ff = ftable[f].type, !.pc = "release"])
  /\ UNCHANGED <<ofile, alive, ends, irefs, ilk>>

\* after the lock: pipeclose(), or iput() in a transaction
FilecloseRelease(p) ==
  /\ FtAt(p, "release")
  /\ LET ff == at[p].ff
     IN /\ ends' = ends \ {ff}
        /\ irefs' = IF ff = "inode" THEN irefs - 1 ELSE irefs
        /\ nested' = (nested \/ (ff = "inode" /\ at[p].tx))
  /\ FtTo(p, [at[p] EXCEPT !.ff = "none", !.pc = "close"])
  /\ UNCHANGED <<ftable, ofile, alive, ilk, written>>

\* every file is closed: the call ends, where sys_open() puts its inode; exit() clears
\* the descriptor and goes on with the next
FilecloseDone(p) ==
  /\ FtAt(p, "close") /\ at[p].closing = <<>>
  /\ irefs' = IF at[p].tx THEN irefs - 1 ELSE irefs
  /\ ilk' = IF at[p].tx THEN NoOne ELSE ilk
  /\ IF at[p].exiting
     THEN ofile' = [ofile EXCEPT ![p][at[p].pos] = 0] /\ FtTo(p, Exiting(at[p].pos + 1))
     ELSE FtTo(p, Away) /\ UNCHANGED ofile
  /\ UNCHANGED <<ftable, alive, ends, nested, written>>

\* acquiresleep() of the inode's lock does not wait
InodeFree == ilk = NoOne

(***************************************************************************)
(* sys_open(): the inode is locked and referenced, in a transaction.        *)
(***************************************************************************)
Open(p) ==
  /\ FtAt(p, "user") /\ InodeFree
  /\ ilk' = p /\ irefs' = irefs + 1
  /\ FtTo(p, [Away EXCEPT !.pc = "open", !.tx = TRUE])
  /\ UNCHANGED <<ftable, ofile, alive, ends, nested, written>>

\* filealloc()
OpenFile(p) ==
  /\ FtAt(p, "open") /\ at[p].f = 0
  /\ IF FreeFiles = {} THEN FtTo(p, Closing(at[p], <<>>)) /\ UNCHANGED ftable
     ELSE /\ ftable' = [ftable EXCEPT ![Min(FreeFiles)].ref = 1]
          /\ FtTo(p, [at[p] EXCEPT !.f = Min(FreeFiles)])
  /\ UNCHANGED <<ofile, alive, ends, irefs, ilk, nested, written>>

\* fdalloc() and the rest; or fileclose() of the file, which has no type yet
OpenFd(p) ==
  /\ FtAt(p, "open") /\ at[p].f # 0
  /\ IF FreeFds(p) = {}
     THEN FtTo(p, Closing(at[p], <<at[p].f>>)) /\ UNCHANGED <<ftable, ofile, ilk, written>>
     ELSE /\ ofile' = [ofile EXCEPT ![p][Min(FreeFds(p))] = at[p].f]
          /\ ftable' = [ftable EXCEPT ![at[p].f].type = "inode", ![at[p].f].off = 0]
          /\ ilk' = NoOne
          /\ written' = [written EXCEPT ![at[p].f] = 0]
          /\ FtTo(p, Away)
  /\ UNCHANGED <<alive, ends, irefs, nested>>

(***************************************************************************)
(* sys_dup() and sys_close()                                               *)
(***************************************************************************)
Dup(p, d) ==
  /\ FtAt(p, "user") /\ ofile[p][d] # 0 /\ FreeFds(p) # {}
  /\ ofile' = [ofile EXCEPT ![p][Min(FreeFds(p))] = ofile[p][d]]
  /\ FtTo(p, [Away EXCEPT !.pc = "dup", !.f = ofile[p][d], !.pos = Min(FreeFds(p))])
  /\ UNCHANGED <<ftable, alive, ends, irefs, ilk, nested, written>>
Filedup(p) ==
  /\ FtAt(p, "dup")
  /\ nested' = (nested \/ ftable[at[p].f].ref < 1)
  /\ ftable' = [ftable EXCEPT ![at[p].f].ref = @ + 1]
  /\ FtTo(p, Away)
  /\ UNCHANGED <<ofile, alive, ends, irefs, ilk, written>>

Close(p, d) ==
  /\ FtAt(p, "user") /\ ofile[p][d] # 0
  /\ ofile' = [ofile EXCEPT ![p][d] = 0]
  /\ FtTo(p, Closing(Away, <<ofile[p][d]>>))
  /\ UNCHANGED <<ftable, alive, ends, irefs, ilk, nested, written>>

(***************************************************************************)
(* fileread() and filewrite() of the inode: a chunk of one, whose offset is  *)
(* read and advanced under the inode's lock.                                *)
(***************************************************************************)
Transfer(p, d) ==
  /\ FtAt(p, "user") /\ ofile[p][d] # 0
  /\ LET f == ofile[p][d]
     IN /\ ftable[f].type = "inode" /\ ftable[f].off < MaxOff
        /\ InodeFree /\ ilk' = p
        /\ FtTo(p, [Away EXCEPT !.pc = "transfer", !.f = f, !.pos = ftable[f].off])
  /\ UNCHANGED <<ftable, ofile, alive, ends, irefs, nested, written>>
TransferDone(p) ==
  /\ FtAt(p, "transfer")
  /\ ftable' = [ftable EXCEPT ![at[p].f].off = at[p].pos + 1]
  /\ written' = [written EXCEPT ![at[p].f] = @ + 1]
  /\ ilk' = NoOne
  /\ FtTo(p, Away)
  /\ UNCHANGED <<ofile, alive, ends, irefs, nested>>

(***************************************************************************)
(* sys_pipe(): pipealloc(), two descriptors, and copyout() of them (ok).     *)
(***************************************************************************)
PipeBegin(p) ==
  /\ FtAt(p, "user") /\ ends = {} /\ \A q \in alive : at[q].pc # "pipe"
  /\ FtTo(p, [Away EXCEPT !.pc = "pipe"])
  /\ UNCHANGED <<ftable, ofile, alive, ends, irefs, ilk, nested, written>>

\* the two filealloc()s
PipeFile(p) ==
  /\ FtAt(p, "pipe") /\ at[p].g = 0
  /\ IF FreeFiles = {}
     THEN FtTo(p, Closing(at[p], IF at[p].f = 0 THEN <<>> ELSE <<at[p].f>>)) /\ UNCHANGED ftable
     ELSE /\ ftable' = [ftable EXCEPT ![Min(FreeFiles)].ref = 1]
          /\ FtTo(p, IF at[p].f = 0 THEN [at[p] EXCEPT !.f = Min(FreeFiles)]
                   ELSE [at[p] EXCEPT !.g = Min(FreeFiles)])
  /\ UNCHANGED <<ofile, alive, ends, irefs, ilk, nested, written>>

\* kalloc() fails, or the files get their type and their descriptors, or are closed
PipeFds(p, page, ok) ==
  /\ FtAt(p, "pipe") /\ at[p].g # 0
  /\ LET f == at[p].f
         g == at[p].g
         low == Min(FreeFds(p))
         high == Min(FreeFds(p) \ {low})
     IN IF ~page THEN FtTo(p, Closing(at[p], <<f, g>>)) /\ UNCHANGED <<ftable, ofile, ends>>
        ELSE /\ ftable' = [ftable EXCEPT ![f].type = "pr", ![g].type = "pw"]
             /\ ends' = {"pr", "pw"}
             /\ IF Cardinality(FreeFds(p)) >= 2 /\ ok
                THEN ofile' = [ofile EXCEPT ![p][low] = f, ![p][high] = g] /\ FtTo(p, Away)
                ELSE FtTo(p, Closing(at[p], <<f, g>>)) /\ UNCHANGED ofile
  /\ UNCHANGED <<alive, irefs, ilk, nested, written>>

(***************************************************************************)
(* fork(): filedup() of each descriptor in turn; exit(): fileclose() of each. *)
(***************************************************************************)
ForkBegin(p, c) ==
  /\ FtAt(p, "user") /\ c \notin alive /\ \A q \in alive : at[q].np # c
  /\ FtTo(p, [Away EXCEPT !.pc = "fork", !.np = c])
  /\ UNCHANGED <<ftable, ofile, alive, ends, irefs, ilk, nested, written>>
ForkDup(p) ==
  /\ FtAt(p, "fork")
  /\ LET np == at[p].np
         pos == at[p].pos
     IN IF pos = NOFILE
        THEN alive' = alive \cup {np} /\ FtTo(p, Away) /\ UNCHANGED <<ftable, ofile, nested>>
        ELSE /\ LET f == ofile[p][pos]
                IN IF f = 0 THEN UNCHANGED <<ftable, ofile, nested>>
                   ELSE /\ ofile' = [ofile EXCEPT ![np][pos] = f]
                        /\ ftable' = [ftable EXCEPT ![f].ref = @ + 1]
                        /\ nested' = (nested \/ ftable[f].ref < 1)
             /\ FtTo(p, [at[p] EXCEPT !.pos = pos + 1])
             /\ UNCHANGED alive
  /\ UNCHANGED <<ends, irefs, ilk, written>>

\* the loop of exit(): a file is closed before its descriptor is cleared
ExitFiles(p) ==
  /\ FtAt(p, "user") /\ p # User0
  /\ FtTo(p, Exiting(0))
  /\ UNCHANGED <<ftable, ofile, alive, ends, irefs, ilk, nested, written>>
ExitFile(p) ==
  /\ FtAt(p, "exit")
  /\ LET d == at[p].pos
     IN IF d = NOFILE
        THEN alive' = alive \ {p} /\ FtTo(p, Away)
        ELSE /\ FtTo(p, IF ofile[p][d] = 0 THEN Exiting(d + 1) ELSE Closing(at[p], <<ofile[p][d]>>))
             /\ UNCHANGED alive
  /\ UNCHANGED <<ftable, ofile, ends, irefs, ilk, nested, written>>

FtInit ==
  /\ ftable = [f \in FileNos |-> Closed] /\ ofile = [p \in Users |-> [d \in Fds |-> 0]]
  /\ alive = {User0} /\ at = [p \in Users |-> Away]
  /\ ends = {} /\ irefs = 0 /\ ilk = NoOne /\ nested = FALSE
  /\ written = [f \in FileNos |-> 0]

FtNext == \E p \in Users :
  \/ Fileclose(p) \/ FilecloseRelease(p) \/ FilecloseDone(p)
  \/ Open(p) \/ OpenFile(p) \/ OpenFd(p) \/ Filedup(p)
  \/ \E d \in Fds : Dup(p, d) \/ Close(p, d) \/ Transfer(p, d)
  \/ TransferDone(p)
  \/ PipeBegin(p) \/ PipeFile(p)
  \/ \E page \in BOOLEAN, ok \in BOOLEAN : PipeFds(p, page, ok)
  \/ \E c \in Users : ForkBegin(p, c)
  \/ ForkDup(p) \/ ExitFiles(p) \/ ExitFile(p)
FtSpec == FtInit /\ [][FtNext]_ftVars

(***************************************************************************)
(* Properties.                                                             *)
(***************************************************************************)
Pointers(f) == Cardinality({pd \in Users \X Fds : ofile[pd[1]][pd[2]] = f})
\* the descriptor that exit() clears once its fileclose() has returned
BeingClosed(p, d) == at[p].exiting /\ at[p].pc # "exit" /\ at[p].pos = d
Quiet == \A p \in alive : at[p].pc = "user"

\* Every variable has its type.
FtTypeOK ==
  /\ \A f \in FileNos : ftable[f].ref \in Nat /\ ftable[f].type \in {"none", "inode", "pr", "pw"}
  /\ ofile \in [Users -> [Fds -> 0 .. NFILE]] /\ alive \subseteq Users
  /\ ends \subseteq {"pr", "pw"} /\ irefs \in Nat /\ nested \in BOOLEAN

\* no descriptor names a free file, but for the one that exit() clears only after its
\* fileclose(); and between calls the counts are exact: a file has a reference for each
\* descriptor that names it and is typed exactly while it has one, a pipe end is open
\* exactly while a file is it, and the table holds one reference to the inode per file
\* opened on it.  No error path of open() or pipe() loses or keeps one.
FileRefsExact ==
  /\ \A p \in alive, d \in Fds :
       ofile[p][d] # 0 /\ ~BeingClosed(p, d) => ftable[ofile[p][d]].ref > 0
  /\ Quiet => \A f \in FileNos : /\ ftable[f].ref = Pointers(f)
                                 /\ ftable[f].type = "none" <=> ftable[f].ref = 0
  /\ Quiet => /\ ends = {ftable[f].type : f \in FileNos} \cap {"pr", "pw"}
              /\ irefs = Cardinality({f \in FileNos : ftable[f].type = "inode"})

\* fileclose() never starts a transaction inside the transaction of sys_open(): the file
\* that open() gives back has no type, because the last fileclose() of it cleared it; and
\* no filedup() or fileclose() finds a count below one.
NoNestedBegin == ~nested

\* the offset of an open file counts what was read and written through it: processes
\* that share it by fork() or dup() never use the same offset twice.
OffsetsShared == \A f \in FileNos :
  ftable[f].type = "inode" /\ (\A p \in alive : at[p].pc # "transfer") => ftable[f].off = written[f]

\* Open files are counted right: no call loses, keeps or doubles a reference to a file,
\* a pipe end or an inode (filedup(), fileclose(), sys_open(), sys_pipe(), fork()), the
\* error paths and last close included, and sharers of a file share its offset.
FilesCounted == FtTypeOK /\ FileRefsExact /\ NoNestedBegin /\ OffsetsShared
=============================================================================
