----------------------------- MODULE Namespace -----------------------------
(***************************************************************************)
(* The inode table and the directory tree: ialloc, iget, ilock, iput,       *)
(* dirlookup, dirlink and namex of kernel/fs.c, and the calls of            *)
(* kernel/sysfile.c that walk and change the tree.                          *)
(*                                                                         *)
(* A step is a stretch of code between two lock operations: a process may   *)
(* lose the processor before it takes an inode's lock, between iunlock()    *)
(* and iput(), and between ialloc()'s mark on disk and iget().  A directory *)
(* is a function from names to inode numbers (0 for no entry); its data     *)
(* blocks are FileData's concern.  Transactions admit several calls at a    *)
(* time (module Log); the buffer of a disk inode is locked only within a    *)
(* step.                                                                    *)
(***************************************************************************)
EXTENDS Integers, FiniteSets, FiniteSetsExt, Sequences

CONSTANTS
  Callers,        \* processes
  NoCaller,
  NInodes,        \* inode numbers 1 .. NInodes - 1, sb.ninodes = NInodes
  Names,          \* file names other than "." and ".."
  Paths,          \* the paths calls are made with: from "/" or the cwd
  Calls,          \* the calls made
  MaxCalls,       \* bound: calls of each process
  Trees           \* the disk, current directories and open files to start from

VARIABLES
  dino,           \* disk inodes: type, nlink
  dents,          \* directory contents
  inode,          \* in-memory inodes: ref, valid, lock holder, type, nlink
  caller,         \* where each process is in its call
  cwd, fd,        \* each process's directory, and the inode of its open file or 0
  ncalls,         \* calls made
  panic           \* the panic reached, or "no"

nsVars == <<dino, dents, inode, caller, cwd, fd, ncalls, panic>>

ROOTINO == 1
Inums == 1 .. NInodes - 1
Entries == Names \cup {".."}
NoEntries == [n \in Entries |-> 0]
Idle == [pc |-> "idle", call |-> "none", path |-> <<>>, new |-> <<>>, at |-> 0, ip |-> 0,
         dp |-> 0, name |-> "", puts |-> <<>>, then |-> "idle"]

\* dirlookup(); "." is an entry of every directory
Lookup(d, n) == IF n = "." THEN d ELSE dents[d][n]

(***************************************************************************)
(* The inode table, as updates f of inode.                                  *)
(***************************************************************************)
\* iget() and idup(): an inode that was not in the table is not valid
Ref(f, i) == [f EXCEPT ![i].ref = @ + 1, ![i].valid = @ /\ f[i].ref > 0]
Release(f, i) == [f EXCEPT ![i].holder = NoCaller]

\* Mutant of Iupdate: the new link count stays in memory.
IupdateNot(d, i, n) == d

\* iupdate() of inode i with link count n
Iupdate(d, i, n) == [d EXCEPT ![i] = [type |-> inode[i].type, nlink |-> n]]
Nlink(f, i, n) == [f EXCEPT ![i].nlink = n]

(***************************************************************************)
(* Control: pc, and then for what follows a lock or the last of the puts.   *)
(***************************************************************************)
At(p, pc) == caller[p].pc = pc /\ panic = "no"
To(p, r) == caller' = [caller EXCEPT ![p] = r]
\* ilock() of the inode in the field that LockOf gives, before step then
LockOf == [walk    |-> "at", open1   |-> "ip", chdir1  |-> "ip", link1   |-> "ip",
           linkbad |-> "ip", unlink2 |-> "ip", create3 |-> "ip", create5 |-> "ip",
           unlink1 |-> "dp", create1 |-> "dp", link3   |-> "dp"]
Locking(c, then) == [c EXCEPT !.pc = "lock", !.then = then]
\* iunlockput() of the Locked and iput() of the Unlocked inodes in order, before then
Putting(c, puts, then) == [c EXCEPT !.pc = "put", !.puts = puts, !.then = then]
Locked(i) == [ino |-> i, held |-> TRUE]
Unlocked(i) == [ino |-> i, held |-> FALSE]
Resume(c) == CASE c.then = "idle" -> Idle
               [] c.then \in DOMAIN LockOf -> Locking(c, c.then)
               [] OTHER -> [c EXCEPT !.pc = c.then]

(***************************************************************************)
(* ilock(): waits for the lock, reads the inode if it is not valid.         *)
(***************************************************************************)
Ilock(p) ==
  /\ At(p, "lock")
  /\ LET i == caller[p][LockOf[caller[p].then]]
         type == IF inode[i].valid THEN inode[i].type ELSE dino[i].type
         nlink == IF inode[i].valid THEN inode[i].nlink ELSE dino[i].nlink
     IN /\ inode[i].holder = NoCaller
        /\ inode' = [inode EXCEPT ![i].holder = p, ![i].valid = TRUE,
                                  ![i].type = type, ![i].nlink = nlink]
        /\ panic' = IF ~inode[i].valid /\ type = "free" THEN "ilock: no type" ELSE "no"
  /\ To(p, [caller[p] EXCEPT !.pc = caller[p].then])
  /\ UNCHANGED <<dino, dents, cwd, fd, ncalls>>

(***************************************************************************)
(* iput(), after the iunlock() of iunlockput().                             *)
(***************************************************************************)
Iunlock(p) ==
  /\ At(p, "put") /\ Head(caller[p].puts).held
  /\ inode' = Release(inode, Head(caller[p].puts).ino)
  /\ To(p, [caller[p] EXCEPT !.puts[1].held = FALSE])
  /\ UNCHANGED <<dino, dents, cwd, fd, ncalls, panic>>

\* Mutant of LastPut: other references are not looked at.
LastPutShared(e) == e.valid /\ e.nlink = 0

LastPut(e) == e.ref = 1 /\ e.valid /\ e.nlink = 0

\* the references that remain to be dropped
Dropped(c) == IF Len(c.puts) = 1 THEN Resume([c EXCEPT !.puts = <<>>])
              ELSE [c EXCEPT !.pc = "put", !.puts = Tail(@)]

Iput(p) ==
  /\ At(p, "put") /\ ~Head(caller[p].puts).held
  /\ LET i == Head(caller[p].puts).ino
     IN IF LastPut(inode[i])
        THEN /\ inode' = [inode EXCEPT ![i].holder = p]
             /\ To(p, [caller[p] EXCEPT !.pc = "free"])
             /\ panic' = IF inode[i].holder = NoCaller THEN "no" ELSE "iput blocks"
        ELSE /\ inode' = [inode EXCEPT ![i].ref = @ - 1]
             /\ To(p, Dropped(caller[p]))
             /\ UNCHANGED panic
  /\ UNCHANGED <<dino, dents, cwd, fd, ncalls>>

\* itrunc(), type = 0 and iupdate()
IputFree(p) ==
  /\ At(p, "free")
  /\ LET i == Head(caller[p].puts).ino
     IN /\ inode' = [inode EXCEPT ![i].type = "free"]
        /\ dino' = [dino EXCEPT ![i] = [type |-> "free", nlink |-> inode[i].nlink]]
        /\ dents' = [dents EXCEPT ![i] = NoEntries]
  /\ To(p, [caller[p] EXCEPT !.pc = "freed"])
  /\ UNCHANGED <<cwd, fd, ncalls, panic>>

\* valid = 0 and releasesleep()
Invalid(e) == [e EXCEPT !.valid = FALSE, !.holder = NoCaller]

IputFreed(p) ==
  /\ At(p, "freed")
  /\ inode' = [inode EXCEPT ![Head(caller[p].puts).ino] = Invalid(@)]
  /\ To(p, [caller[p] EXCEPT !.pc = "drop"])
  /\ UNCHANGED <<dino, dents, cwd, fd, ncalls, panic>>

IputDrop(p) ==
  /\ At(p, "drop")
  /\ inode' = [inode EXCEPT ![Head(caller[p].puts).ino].ref = @ - 1]
  /\ To(p, Dropped(caller[p]))
  /\ UNCHANGED <<dino, dents, cwd, fd, ncalls, panic>>

(***************************************************************************)
(* namex(), with nameiparent for the calls in Parents; namei()'s result is   *)
(* ip, nameiparent()'s is dp and name.                                      *)
(***************************************************************************)
Parents(c) == c.call \in {"mkdir", "mknod", "create", "unlink"} \/ (c.call = "link" /\ c.ip # 0)

\* a path is [abs, elems]; the walk starts with iget(ROOTINO) or idup(cwd)
StartOf(p, path) == IF path.abs THEN ROOTINO ELSE cwd[p]
Walking(p, c, path) == [c EXCEPT !.at = StartOf(p, path), !.path = path.elems, !.pc = "look"]

\* what a call does when the walk returns 0
Failed(c) == IF c.call = "link" /\ c.ip # 0 THEN "linkbad" ELSE "idle"

Enter(p, call, path, new) ==
  /\ At(p, "idle") /\ ncalls[p] < MaxCalls
  /\ call = "close" => fd[p] # 0
  /\ call \in {"open", "create"} => fd[p] = 0
  /\ ncalls' = [ncalls EXCEPT ![p] = @ + 1]
  /\ IF call = "close"
     THEN /\ fd' = [fd EXCEPT ![p] = 0]
          /\ To(p, Putting(Idle, <<Unlocked(fd[p])>>, "idle"))
          /\ UNCHANGED inode
     ELSE /\ inode' = Ref(inode, StartOf(p, path))
          /\ To(p, Walking(p, [Idle EXCEPT !.call = call, !.new = new], path))
          /\ UNCHANGED fd
  /\ UNCHANGED <<dino, dents, cwd, panic>>

\* the head of the loop: no element is left, or the directory is locked
First(call) == CASE call = "open" -> "open1" [] call = "chdir" -> "chdir1" [] OTHER -> "link1"
Look(p) ==
  /\ At(p, "look")
  /\ LET c == caller[p]
     IN To(p, IF c.path # <<>> THEN Locking(c, "walk")
              ELSE IF Parents(c) THEN Putting(c, <<Unlocked(c.at)>>, Failed(c))
              ELSE Locking([c EXCEPT !.ip = c.at], First(c.call)))
  /\ UNCHANGED <<dino, dents, inode, cwd, fd, ncalls, panic>>

\* the body of the loop
Second(call) == CASE call = "unlink" -> "unlink1" [] call = "link" -> "link3" [] OTHER -> "create1"
Walk(p) ==
  /\ At(p, "walk")
  /\ LET c == caller[p]
         name == Head(c.path)
         next == Lookup(c.at, name)
     IN IF inode[c.at].type # "dir"
        THEN To(p, Putting(c, <<Locked(c.at)>>, Failed(c))) /\ UNCHANGED inode
        ELSE IF Parents(c) /\ Len(c.path) = 1
        THEN /\ inode' = Release(inode, c.at)
             /\ To(p, Locking([c EXCEPT !.dp = c.at, !.name = name, !.path = <<>>], Second(c.call)))
        ELSE IF next = 0
        THEN To(p, Putting(c, <<Locked(c.at)>>, Failed(c))) /\ UNCHANGED inode
        ELSE /\ inode' = Ref(inode, next)
             /\ To(p, Putting([c EXCEPT !.at = next, !.path = Tail(@)], <<Locked(c.at)>>, "look"))
  /\ UNCHANGED <<dino, dents, cwd, fd, ncalls, panic>>

(***************************************************************************)
(* sys_open() without O_CREATE, and the end it shares with O_CREATE: a file  *)
(* structure and a descriptor may be missing (ok), and a directory may only *)
(* be read (rdonly).                                                        *)
(***************************************************************************)
SysOpen(p, ok, rdonly) ==
  /\ At(p, "open1") \/ (At(p, "made") /\ caller[p].call = "create")
  /\ LET i == caller[p].ip
     IN IF ok /\ (inode[i].type = "dir" => rdonly)
        THEN /\ fd' = [fd EXCEPT ![p] = i]
             /\ inode' = Release(inode, i)
             /\ To(p, Idle)
        ELSE To(p, Putting(caller[p], <<Locked(i)>>, "idle")) /\ UNCHANGED <<fd, inode>>
  /\ UNCHANGED <<dino, dents, cwd, ncalls, panic>>

\* sys_chdir(): the old directory is put before the new one is stored
SysChdir(p) ==
  /\ At(p, "chdir1")
  /\ LET i == caller[p].ip
     IN IF inode[i].type # "dir"
        THEN To(p, Putting(caller[p], <<Locked(i)>>, "idle")) /\ UNCHANGED inode
        ELSE /\ inode' = Release(inode, i)
             /\ To(p, Putting(caller[p], <<Unlocked(cwd[p])>>, "chdir2"))
  /\ UNCHANGED <<dino, dents, cwd, fd, ncalls, panic>>
SysChdirDone(p) ==
  /\ At(p, "chdir2")
  /\ cwd' = [cwd EXCEPT ![p] = caller[p].ip]
  /\ To(p, Idle)
  /\ UNCHANGED <<dino, dents, inode, fd, ncalls, panic>>

(***************************************************************************)
(* sys_link(): the count goes up before the entry is written.               *)
(***************************************************************************)
SysLink(p) ==
  /\ At(p, "link1")
  /\ LET i == caller[p].ip
         n == inode[i].nlink + 1
         start == StartOf(p, caller[p].new)
     IN IF inode[i].type = "dir"
        THEN To(p, Putting(caller[p], <<Locked(i)>>, "idle")) /\ UNCHANGED <<inode, dino>>
        ELSE /\ dino' = Iupdate(dino, i, n)
             /\ inode' = Ref(Release(Nlink(inode, i, n), i), start)
             /\ To(p, Walking(p, caller[p], caller[p].new))
  /\ UNCHANGED <<dents, cwd, fd, ncalls, panic>>

\* dirlink(): the name is new, or the inode it finds is put again, and writei()
\* succeeds (ok)
SysLinkEntry(p, ok) ==
  /\ At(p, "link3")
  /\ LET c == caller[p]
         old == Lookup(c.dp, c.name)
     IN IF old # 0
        THEN /\ inode' = Ref(inode, old)
             /\ To(p, Putting(c, <<Unlocked(old), Locked(c.dp)>>, "linkbad"))
             /\ UNCHANGED dents
        ELSE IF ~ok
        THEN To(p, Putting(c, <<Locked(c.dp)>>, "linkbad")) /\ UNCHANGED <<dents, inode>>
        ELSE /\ dents' = [dents EXCEPT ![c.dp][c.name] = c.ip]
             /\ To(p, Putting(c, <<Locked(c.dp), Unlocked(c.ip)>>, "idle"))
             /\ UNCHANGED inode
  /\ UNCHANGED <<dino, cwd, fd, ncalls, panic>>
SysLinkBad(p) ==
  /\ At(p, "linkbad")
  /\ LET i == caller[p].ip
     IN /\ dino' = Iupdate(dino, i, inode[i].nlink - 1)
        /\ inode' = Nlink(inode, i, inode[i].nlink - 1)
        /\ To(p, Putting(caller[p], <<Locked(i)>>, "idle"))
  /\ UNCHANGED <<dents, cwd, fd, ncalls, panic>>

(***************************************************************************)
(* sys_unlink(): the directory, then the inode, are locked.                 *)
(***************************************************************************)
SysUnlink(p) ==
  /\ At(p, "unlink1")
  /\ LET c == caller[p]
         i == Lookup(c.dp, c.name)
     IN IF c.name \in {".", ".."} \/ i = 0
        THEN To(p, Putting(c, <<Locked(c.dp)>>, "idle")) /\ UNCHANGED inode
        ELSE /\ inode' = Ref(inode, i)
             /\ To(p, Locking([c EXCEPT !.ip = i], "unlink2"))
  /\ UNCHANGED <<dino, dents, cwd, fd, ncalls, panic>>

\* isdirempty()
Dirempty(i) == \A n \in Names : dents[i][n] = 0

SysUnlinkEntry(p) ==
  /\ At(p, "unlink2")
  /\ LET c == caller[p]
         dir == inode[c.ip].type = "dir"
         n == inode[c.dp].nlink - IF dir THEN 1 ELSE 0
     IN /\ panic' = IF inode[c.ip].nlink < 1 THEN "unlink: nlink < 1" ELSE "no"
        /\ IF dir /\ ~Dirempty(c.ip)
           THEN /\ To(p, Putting(c, <<Locked(c.ip), Locked(c.dp)>>, "idle"))
                /\ UNCHANGED <<dents, dino, inode>>
           ELSE /\ dents' = [dents EXCEPT ![c.dp][c.name] = 0]
                /\ dino' = Iupdate(dino, c.dp, n)
                /\ inode' = Nlink(inode, c.dp, n)
                /\ To(p, Putting(c, <<Locked(c.dp)>>, "unlink3"))
  /\ UNCHANGED <<cwd, fd, ncalls>>
SysUnlinkCount(p) ==
  /\ At(p, "unlink3")
  /\ LET i == caller[p].ip
     IN /\ dino' = Iupdate(dino, i, inode[i].nlink - 1)
        /\ inode' = Nlink(inode, i, inode[i].nlink - 1)
        /\ To(p, Putting(caller[p], <<Locked(i)>>, "idle"))
  /\ UNCHANGED <<dents, cwd, fd, ncalls, panic>>

(***************************************************************************)
(* create(), for mkdir, mknod and open with O_CREATE.                       *)
(***************************************************************************)
TypeOf(call) == CASE call = "mkdir" -> "dir" [] call = "mknod" -> "dev" [] OTHER -> "file"

\* iunlockput(dp), before ilock(ip) of the inode that is there
BeforeOld(c) == Putting(c, <<Locked(c.dp)>>, "create3")

\* the name is there, or ialloc() marks the first free inode on disk, or finds none
Create(p) ==
  /\ At(p, "create1")
  /\ LET c == caller[p]
         i == Lookup(c.dp, c.name)
         none == {j \in Inums : dino[j].type = "free"}
     IN IF i # 0
        THEN /\ inode' = Ref(inode, i)
             /\ To(p, BeforeOld([c EXCEPT !.ip = i]))
             /\ UNCHANGED dino
        ELSE IF none = {}
        THEN To(p, Putting(c, <<Locked(c.dp)>>, "idle")) /\ UNCHANGED <<dino, inode>>
        ELSE /\ dino' = [dino EXCEPT ![Min(none)] = [type |-> TypeOf(c.call), nlink |-> 0]]
             /\ To(p, [c EXCEPT !.ip = Min(none), !.pc = "create4"])
             /\ UNCHANGED inode
  /\ UNCHANGED <<dents, cwd, fd, ncalls, panic>>

CreateOld(p) ==
  /\ At(p, "create3")
  /\ LET c == caller[p]
     IN IF c.call = "create" /\ inode[c.ip].type \in {"file", "dev"}
        THEN To(p, [c EXCEPT !.pc = "made"])
        ELSE To(p, Putting(c, <<Locked(c.ip)>>, "idle"))
  /\ UNCHANGED <<dino, dents, inode, cwd, fd, ncalls, panic>>

\* the iget() of ialloc()
CreateGet(p) ==
  /\ At(p, "create4")
  /\ inode' = Ref(inode, caller[p].ip)
  /\ To(p, Locking(caller[p], "create5"))
  /\ UNCHANGED <<dino, dents, cwd, fd, ncalls, panic>>

\* both locked: the entries, which may not fit (ok), and the counts
CreateNew(p, ok) ==
  /\ At(p, "create5")
  /\ LET c == caller[p]
         dir == c.call = "mkdir"
         n == inode[c.dp].nlink + IF dir THEN 1 ELSE 0
         made == Nlink(Nlink(inode, c.ip, 1), c.dp, n)
     IN IF ok
        THEN /\ dents' = [dents EXCEPT ![c.dp][c.name] = c.ip, ![c.ip][".."] = IF dir THEN c.dp ELSE 0]
             /\ dino' = Iupdate(Iupdate(dino, c.ip, 1), c.dp, n)
             /\ inode' = made
             /\ To(p, Putting(c, <<Locked(c.dp)>>, "made"))
        ELSE /\ dino' = Iupdate(dino, c.ip, 0)
             /\ inode' = Nlink(inode, c.ip, 0)
             /\ To(p, Putting(c, <<Locked(c.ip), Locked(c.dp)>>, "idle"))
             /\ UNCHANGED dents
  /\ UNCHANGED <<cwd, fd, ncalls, panic>>

\* sys_mkdir() and sys_mknod() put the inode
Made(p) ==
  /\ At(p, "made") /\ caller[p].call # "create"
  /\ To(p, Putting(caller[p], <<Locked(caller[p].ip)>>, "idle"))
  /\ UNCHANGED <<dino, dents, inode, cwd, fd, ncalls, panic>>

(***************************************************************************)
(* The specification.                                                      *)
(***************************************************************************)
NsInit ==
  \E t \in Trees :
    /\ dino = t.dino /\ dents = t.dents /\ cwd = t.cwd /\ fd = t.fd
    /\ ncalls = [p \in Callers |-> 0]
    /\ caller = [p \in Callers |-> Idle] /\ panic = "no"
    /\ inode = [i \in Inums |->
                  LET refs == Cardinality({p \in Callers : t.cwd[p] = i})
                              + Cardinality({p \in Callers : t.fd[p] = i})
                  IN [ref |-> refs, valid |-> refs > 0, holder |-> NoCaller,
                      type |-> t.dino[i].type, nlink |-> t.dino[i].nlink]]

NsStep(p) ==
  \/ \E call \in Calls, path \in Paths, new \in Paths :
       /\ call = "link" \/ new = path
       /\ Enter(p, call, path, new)
  \/ Ilock(p) \/ Iunlock(p) \/ Iput(p) \/ IputFree(p) \/ IputFreed(p) \/ IputDrop(p)
  \/ Look(p) \/ Walk(p)
  \/ SysChdir(p) \/ SysChdirDone(p)
  \/ SysLink(p) \/ SysLinkBad(p)
  \/ SysUnlink(p) \/ SysUnlinkEntry(p) \/ SysUnlinkCount(p)
  \/ Create(p) \/ CreateOld(p) \/ CreateGet(p) \/ Made(p)
  \/ \E ok \in BOOLEAN :
       \/ CreateNew(p, ok) \/ SysLinkEntry(p, ok)
       \/ \E rdonly \in BOOLEAN : SysOpen(p, ok, rdonly)
NsNext == \E p \in Callers : NsStep(p)
NsSpec == NsInit /\ [][NsNext]_nsVars

(***************************************************************************)
(* Properties.                                                             *)
(***************************************************************************)
Types == {"free", "dir", "file", "dev"}
AllIdle == \A p \in Callers : caller[p].pc = "idle"
\* the entries that name an inode, but for "." and ".."
NamesOf(i) == {<<d, n>> \in Inums \X Names : dents[d][n] = i}

\* Every variable has its type.
NsTypeOK ==
  /\ \A i \in Inums : /\ dino[i].type \in Types /\ dino[i].nlink \in Nat
                      /\ inode[i].ref \in Nat /\ inode[i].holder \in Callers \cup {NoCaller}
                      /\ dents[i] \in [Entries -> 0 .. NInodes - 1]
  /\ cwd \in [Callers -> Inums] /\ fd \in [Callers -> 0 .. NInodes - 1]

\* At every step, so also in any state a crash could leave on disk, an inode has at
\* least as many links as directory entries name it, "." and ".." apart: no file name
\* ever stands for a free inode, whatever links, unlinks and creations interleave.
\* (The ".." of a removed directory may: see LockedAllocated.)
LinksCover == \A i \in Inums :
  /\ Cardinality(NamesOf(i)) <= dino[i].nlink
  /\ NamesOf(i) # {} => dino[i].type # "free"

\* no set of processes waits for locks its own members hold: ilock() of a child is
\* only asked for while the parent is locked, and never the other way round.
NoLockCycle == \A S \in SUBSET Callers \ {{}} :
  \E p \in S : \/ caller[p].pc # "lock"
               \/ inode[caller[p][LockOf[caller[p].then]]].holder \notin S

\* The table is sound, up to the panics: an unlocked valid entry agrees with the disk inode; iput()'s
\* acquiresleep() under itable.lock never has to wait, as its comment claims; and when
\* no call is running every lock is free and ref counts exactly the open files and
\* current directories, so no error path has lost or kept a reference.  And the calls
\* never wait for each other in a circle.
ItableSound ==
  /\ NsTypeOK /\ NoLockCycle
  /\ panic # "iput blocks"
  /\ \A i \in Inums : inode[i].holder = NoCaller /\ inode[i].ref > 0 /\ inode[i].valid =>
       dino[i] = [type |-> inode[i].type, nlink |-> inode[i].nlink]
  /\ AllIdle => \A i \in Inums :
       /\ inode[i].holder = NoCaller
       /\ inode[i].ref = Cardinality({p \in Callers : cwd[p] = i}) + Cardinality({p \in Callers : fd[p] = i})

(***************************************************************************)
(* What the code asserts and does not keep.                                *)
(***************************************************************************)
\* fs.c:314: whatever inode ilock() reads is allocated.  sys_unlink() of a directory
\* takes back the link that its ".." stood for (sysfile.c:287) while the directory,
\* a current one, still has that entry: its parent can be removed and freed, and a
\* path through ".." then leads to the free inode.
LockedAllocated == panic # "ilock: no type"
=============================================================================
