# Verification of the process-freezer kernel

TLA+ models of the xv6-riscv kernel in `src/xv6-labs-2024/kernel`, extended with `freeze`,
`unfreeze`, `meminfo` and `ptree`. The models are checked with TLC on small instances. The
safety of the process table, traps, ticks, the log, the buffer cache, sleep locks, the disk
driver, pipes, the console and the UART is also proved with TLAPS, for every value of the
constants (section 4). Paths below are relative to `src/xv6-labs-2024/kernel`, or to
`src/xv6-labs-2024` where they begin with `user` or `mkfs`.

## 1. Inventory

| Part | State | Operations | Hard behaviour |
|---|---|---|---|
| Process table (`proc.c`, `proc.h`) | `struct proc`: state, chan, killed, pid, frozen, parent; `p->lock`, `wait_lock`, `nextpid`, `struct cpu` | `scheduler`, `sched`, `yield`, `forkret`, `allocproc`, `fork`, `exit`, `reparent`, `wait`, `sleep`, `wakeup`, `kill`, `setkilled` | `p->lock` is acquired on one stack and released on another; exit/wait/kill race on several CPUs |
| Freezer (`sysproc.c`) | `p->frozen` | `sys_freeze`, `sys_unfreeze` | a flag set on a process in any state; unfreeze wakes any sleeper |
| Traps (`trap.c`) | where a thread is, interrupts on or off | `usertrap`, `kerneltrap`, `clockintr`, `devintr` | preemption between any two steps outside a lock |
| Spinlocks (`spinlock.c`) | owner, `noff`, `intena` | `acquire`, `release`, `push_off`, `pop_off` | an interrupt while a lock is held |
| Log (`log.c`) | disk, log header, `outstanding`, `committing` | `begin_op`, `log_write`, `end_op`, `commit`, recovery | crash at any disk write; log space; group commit |
| Buffer cache (`bio.c`), sleep locks (`sleeplock.c`) | LRU list, `refcnt`, `valid`; `locked` | `bget`, `bread`, `bwrite`, `brelse`, `bpin`; `acquiresleep`, `releasesleep` | recycling against pinning; a frozen holder |
| Ticks (`trap.c`, `sysproc.c`) | `ticks` | `clockintr`, `sys_sleep`, `sys_uptime` | wrap-around; sleepers woken early |
| Pipes (`pipe.c`) | ring, `nread`, `nwrite`, open ends | `pipewrite`, `piperead`, `pipeclose` | wrap-around; close against sleep; failing copies |
| Page allocator (`kalloc.c`), `sys_meminfo` | free list | `kalloc`, `kfree` | a count taken while others allocate |
| Disk (`virtio_disk.c`) | descriptors, rings | `virtio_disk_rw`, `virtio_disk_intr` | completion against new requests; running out of descriptors |
| Console, UART | input and output rings | `consoleread`, `consoleintr`, `uartputc`, `uartintr` | interrupt handler against reader |
| Inodes, directories, files (`fs.c`, `file.c`, `sysfile.c`) | reference and link counts, blocks | `iget`, `ilock`, `iput`, `fileclose`, `sys_unlink`, ... | last reference against a new one |
| Memory (`vm.c`), `exec.c` | page tables | `uvmalloc`, `uvmcopy`, `exec` | failure half way |
| `sys_ptree` | reads the table | recursion over children | reads `parent` without `wait_lock` |
| Shell (`user/sh.c`) | processes, descriptors, pipes | `parsecmd`, `runcmd` | a pipe end left open; a failing `fork` |
| User allocator (`user/umalloc.c`) | circular free list | `malloc`, `free`, `morecore` | joining neighbours; holes in the heap |
| Image (`mkfs/mkfs.c`) | sectors, inodes, bitmap | `iappend`, `ialloc`, `balloc` | direct and indirect blocks; rounding |

How the parts interact: traps lead into system calls; every blocking call (`wait`,
`begin_op`, sleep locks, pipes, console, disk, `sys_sleep`) goes through `sleep`/`wakeup` of
the process table, so the freezer and `kill`, which turn any sleeper RUNNABLE, reach all of
them. File system calls run between `begin_op` and `end_op` and touch the disk only through
the buffer cache and the log.

`PROJECT.json` lists every component with its status, and the hazards of the code with the
line at which each one bites.

## 2. Modules

| Module | Models |
|---|---|
| `Proc` | the process table, the scheduler and the freezer on several CPUs |
| `ProcLife` | what the table promises: the life of a process, one legal move of one slot at a time |
| `Trap` | traps, interrupt nesting and what survives a context switch, on several CPUs |
| `Ticks` | `clockintr` and `sys_sleep` |
| `SleepLock` | sleep locks whose holders and waiters are killed, frozen and unfrozen |
| `Ptree` | `sys_ptree` against processes that come and go |
| `Log` | the write-ahead log with crashes and recovery |
| `LogAtomic` | what the log promises: atomic, durable group commit |
| `Bcache` | the buffer cache and the log's pins |
| `VirtioDisk` | the disk driver and the device |
| `Namespace` | inodes, directories and the calls that change names |
| `FileData` | block bitmap, block maps, `readi`, `writei`, `filewrite` |
| `FileTable` | open files and descriptors |
| `Pipe`, `PipeFifo` | pipes, and the bounded FIFO they implement |
| `Console`, `LineInput` | console input, and the line editor it implements |
| `Uart` | serial output |
| `Riscv` | pages and addresses, for the next two |
| `Memory` | the page allocator and user page tables in `fork`, `exec`, `sbrk`, `exit`, `sys_meminfo` |
| `UserCopy` | `copyin`, `copyout`, `copyinstr`, `fetchaddr`, `fetchstr` |
| `Shell` | the shell's parser and `runcmd` |
| `Umalloc` | the user memory allocator |
| `Mkfs` | the file system image |
| `ProcProofs`, `ProcLifeProofs` | theorems about `Proc` |
| `TrapProofs` | theorems about `Trap` and `Ticks` |
| `LogProofs` | theorems about `Log` |
| `CacheProofs` | theorems about `SleepLock` and `Bcache` |
| `RingProofs` | rings with wrapping counters, and theorems about `Pipe` |
| `TermProofs`, `DiskProofs` | theorems about `Console` and `Uart`, and about `VirtioDisk`, over `RingProofs` |
| `MCProc`, `MCLog` | symmetry sets for TLC |
| `MCNamespace` | paths and directory trees for `Namespace` |
| `MCProcFiles`, `MCProcSys`, `MCStore`, `MCIo`, `MCKernel` | several components checked in one run |

A module of the last row extends several components and adds a variable `part`. `part` is
chosen in the initial state and never changes: the component it names takes all the steps,
the others keep their initial values. Such a run is several checks side by side and not a
composition: no component sees another's steps. What a component needs to know of another is
part of its own module (a sleeper that `kill` or `unfreeze` wakes, the log's pins in
`Bcache`, recycled buffers in `Log`, `kalloc` failing at any call in `Memory`).

### Proc

*State.* The fields of `struct proc` by slot (`state`, `chan`, `killed`, `pid`, `frozen`,
`parent`); `lock[p]` and `wait_lock` hold the owning CPU or `NoCPU`; `cproc[c]` is `c->proc`
and `stack[c]` the kernel stack CPU `c` really executes on (0 is the scheduler's), which
differ exactly around `swtch`; `scan[c]` is the scheduler's loop variable; `ctx[p]` says
where a saved context resumes, and `pc`, `cur`, `arg` where the slot's thread is in its
call. The null pointer is 0, and a channel is the slot whose address it is.

*Steps.* A critical section under one `p->lock` that does not switch stacks is one action,
enabled when the lock is free; nothing outside the section can see its middle. A lock that
outlives an action is in the state: `wait_lock` through the scans of `exit` and `wait`,
`p->lock` across `swtch`. All scans of the table go slot by slot, because other CPUs act
between two slots. A timer interrupt may come wherever the CPU holds no lock.

| Code | Actions |
|---|---|
| `scheduler` | `SchedSkip`, `SchedDispatch`, `SchedRelease` |
| `sched`, and the tails of `yield`, `sleep`, `forkret` | `Swtch`, `Resume` (`GiveUp` for what precedes them) |
| `usertrap`, `kerneltrap` | `Syscall`, `Fault`, `TrapReturn`, `UserTimer`, `KernelTimer` |
| `fork`, `allocproc` | `AllocSkip`, `AllocFail`, `AllocOk`, `ForkLink`, `ForkRunnable` |
| `exit`, `reparent`, `wakeup` | `ExitBegin`, `Reparent`, `WakeInit`, `WakeParent`, `ExitZombie` |
| `wait`, `sleep` | `WaitBegin`, `WaitSkip`, `WaitReap`, `WaitCheck`, `WaitSleep` |
| `kill`, `sys_freeze`, `sys_unfreeze` | `PidScan`, `Kill`, `Freeze`, `Unfreeze` |

*Left out:* memory and files of a process (`Memory`, `FileTable`), exit status values and
names, and the sleeps of other subsystems, which their own modules have. `exit` of the first
process is the label `"panic"`: its thread stays there. The scheduler's `wfi` ends at the
next timer interrupt and is not a state.

### ProcLife

Slots go UNUSED, USED, RUNNABLE, RUNNING, SLEEPING, ZOMBIE and back to UNUSED. Only a
process that is not frozen is dispatched, only one in use and not exited is frozen, the
first process never exits, and a pid is given out once. The mapping from `Proc` is the
identity on the five variables the two share.

### Log and LogAtomic

*State.* The disk (`home` blocks, log blocks `dlog`, log header `dhead`), the cached
contents and the pinned blocks, `struct log`, the stage of `commit` or of recovery, and
where each process is. A section under `log.lock` is one action; `commit` holds no lock and
takes one action per disk write; a one-block write is atomic. `Refetch` is a read of a block
whose unpinned buffer was recycled. `Rouse` is a sleeper of `begin_op` woken by `kill` or
`unfreeze`. `Crash` loses the memory at any point, during recovery too. A file system call
is any sequence of at most `MAXOPBLOCKS` distinct blocks written, its reservation.

*Refinement.* `LogAtomic` has the contents the calls see (`view`), what a crash leaves
(`durable`) and the calls under way; a commit needs no call under way and makes the view
durable in one step. The mapping takes `durable` to what recovery would make of the disk as
it is now (`Recovered`), so the single write of the header is the abstract commit.

### Trap

Each CPU has `sepc`, the two interrupt bits of `sstatus`, `stvec`, `tp` and `struct cpu`
(`noff`, `intena`); each thread has its place, the number of spinlocks it holds, what
`kerneltrap` saved on its stack and what `sched` keeps. Interrupts come wherever they are
on; a thread that gave up its CPU may go on on any other. `wrong` records a trap that goes
to the wrong vector, or a panic of `usertrap`, `kerneltrap`, `sched` or `pop_off`. Which
thread runs next is left open, since that is `Proc`'s subject.

### SleepLock, Ticks, Ptree

`SleepLock` has one lock; `SlWoken` is `wakeup`, and a sleeper may also be made runnable by
`kill` or `unfreeze`. A process frozen off the CPU takes no step, as `FrozenPreserved` says
of `Proc`; one frozen on the CPU may go on until it is preempted. `Ticks` has the counter
with `Width` bits, the signed argument, and the gap between the test of `killed` and the
sleep, in which a `kill` may fall. `Ptree` walks the table one slot per step, printing a
child after it has released its lock; meanwhile `fork`, `exit` with reparenting, and `wait`
change the table.

### Bcache and VirtioDisk

`Bcache` has `struct buf`, the LRU list and the disk as an array; a section under
`bcache.lock` is a step. Clients read a block, store, and write it through or pin it, as
`log_write` does; `Install` is the log's write and unpin. A client stands for one use of a
buffer, so a process that holds two buffers is two clients. When no buffer is left `bget`
panics with `bcache.lock` held (`BgetPanic`), and nothing that takes the lock happens after.
`VirtioDisk` has the descriptors, both rings and their wrapping indices. A request is a step
up to its sleep; the interrupt handler takes one step per used entry, since the device goes
on meanwhile. The device takes and completes requests in any order.

### Namespace, FileData, FileTable

Three views of the file system, each with the detail its properties need.

`Namespace` interleaves the calls `mkdir`, `mknod`, `create`, `open`, `unlink`, `link`,
`chdir` and `close`. A step ends where a lock is taken or released, so that `namex` looks up
one element per lock, and `iput` shows the window between its test and the freeing. Disk
inodes, entries and the inode table are separate, so `iupdate` is visible. Contents of files
are left out. The entries `.` and `..` are entries like the others, and the panic of `ilock`
on a free inode is a state.

`FileData` has the contents: words of blocks, the bitmap, direct and indirect blocks, the
inode in memory and on disk, and the set of blocks a transaction has logged. The inode is
locked, so a call is a step. Writes are cut short by a full disk and by a bad user address
in the middle of a block; what was copied of that block stays in its buffer unlogged, until
the buffer is recycled and the block read back as it is on disk (`Recycle`). So `bytes`, the
history of what a file should contain, has a set of values for each byte: one for a byte
that was written and counted, the old and the new one for a byte of a copy that failed.

`FileTable` has `ftable`, the descriptors, one inode and one pipe. `fileclose` works on its
copy after it has released the lock, which is a step of its own; `open` holds its
transaction while it gives a file back. `fork` and `exit` go descriptor by descriptor; as in
the code `exit` closes a file first and clears the descriptor afterwards, and `FilesCounted`
leaves that one descriptor out in between.

### Pipe, Console, Uart

`Pipe` goes byte by byte with the lock in the state, because `kill` does not take it.
`CtrWidth` bits make the two counters wrap. `hushed` records the one case in which a
sleeping reader is not woken: a writer killed between two bytes. The mapping to `PipeFifo`
reads the queue off the ring between the counters. `Console` has the three indices;
`LineInput` has two sequences, the ended lines and the line being edited, and the mapping
reads them off the ring. `Uart` has the transmit ring and a device with a FIFO;
`uartputc_sync` tests and writes without the lock, in two steps.

### Memory and UserCopy

A page table in `Memory` is the set of its table pages and the mapped virtual pages. A call
is one step, in which `kalloc` fails after any number of successes. All the loops of `vm.c`
with their undo paths are operators on a record of free pages and page table; `exec` takes
any of the given lists of segments and may fail in every read. Before that `sys_exec` takes
a page for each argument, and fails on too many of them, a bad address or no page
(`ExecBadArgs`). Addresses have `AddrBits`
bits and wrap. `UserCopy` compares the copies page by page with a copy byte by byte, for
every address and length.

### Shell, Umalloc, Mkfs

`Shell` parses every line of at most `MaxTokens` tokens and compares the tree with one read
off the symbols directly (`Meaning`); it runs the given lines with real processes,
descriptors and pipe ends. A program reads its input to the end if that is a pipe, or ends
earlier. `Umalloc` has a header at every address of the heap; a request is in bytes and
rounded to units as `malloc` does. The sum in that rounding has the width of `sizeof`, so it
does not wrap; requests too large for `sbrk`'s `int` argument are left out. `Mkfs` adds
files of the given lengths, and reads the image back. It dies when it reads beyond the
`FSSIZE` blocks it has zeroed, which it does before it first writes such a block.

## 3. Runs

Passing runs:

| Run | Instance | Shows |
|---|---|---|
| `proc_lifecycle` | `Proc`: 3 slots, 2 CPUs, 3 forks; fork, exit, wait. `Trap`: 2 CPUs, 2 threads, 2 locks. `FileTable`: 2 processes, 3 files, 2 descriptors each | `TypeOK`, `StackExclusive`, `NoLostWakeup`, `NoDanglingParent`, `TrapStateRight`, `FilesCounted` |
| `proc_freeze` | `Proc`: 2 slots, 2 CPUs, all calls and faults, any pid and pid 0 | `SchedLocks`, `PidUnique`, `FrozenPreserved`, `ImplementsLife` |
| `proc_sys` | `Proc`, 1 CPU, twice: 2 slots with all calls (`Pair`), and 3 slots with fork, wait and kill. `Ticks`: 2 sleepers, 2 harts, 2-bit counter. `Shell`: 11 lines run, every line of 4 tokens parsed | `PairRuns`, `PairWaitReturns`, `KilledExits`, `SleepExact`, `SleepReturns`, `RunsAsWritten`, `LineEnds` |
| `store` | `Log`: 2 processes, 3 blocks, 2 values, 3 calls per boot, 2 crashes. `Bcache`: 2 clients, 3 buffers, 4 blocks | `TypeOK`, `LogFits`, `ImplementsAtomic`, `CacheSound` |
| `io` | `Log`: 3 processes, room for 2 calls, 5 calls. `SleepLock`: 3 processes. `VirtioDisk`: 3 requests for 8 descriptors. `Uart`: 2 writers, 2 places | `OpsStart`, `HoldingIsExact`, `WaitsOnlyForFrozen`, `RequestsApart`, `RequestReturns`, `TxOrder`, `WriterWakes` |
| `kernel` | `Pipe`, `Console`, `Ptree`, `Umalloc`, `Mkfs`, `Memory`, `UserCopy`, `Namespace`, `FileData`, see Bounds | `ImplementsFifo`, `ImplementsLine`, `NobodySleepsOn`, `SteadyOnce`, `HeapSound`, `ImageSound`, `MemorySound`, `UserCopies`, `LinksCover`, `ItableSound`, `FileIsBytes`, `BlocksExact` |

What the properties say, the process table first:

- `StackExclusive`: no two CPUs run on one kernel stack, RUNNING means "on a CPU", and a
  reaped slot is on none.
- `SchedLocks`: a thread enters `swtch` with its own `p->lock` and nothing else.
- `NoLostWakeup`: with `wait_lock` free, nobody sleeps in `wait` with an exited child.
- `NoDanglingParent`: a parent pointer never names a free or exited slot.
- `PidUnique`: the slots in use, and only they, have a pid, each its own.
- `FrozenPreserved`: a frozen process that is off the CPU stays off and keeps its pid, its
  context and its place in its call.
- `PairRuns`, `PairWaitReturns`, `KilledExits`: a RUNNABLE process that is not frozen runs,
  `wait` with an exited child returns, a killed process exits.
- `TrapStateRight`: every trap goes to the vector it should, a process resumes where it was
  interrupted, and `noff`, `intena` and `tp` are right for the CPU although threads move.
- `SleepExact`, `SleepReturns`: `sleep(n)` takes n ticks of hart 0, across the wrap of the
  counter, and nobody sleeps on after them.
- `SteadyOnce`: a process whose line of ancestors has not changed since `ptree` began is
  printed once, at its depth. A process whose parent changes may be missed or printed twice.

Storage and files:

- `LogFits`: the transaction fits the log on disk, by `log_write`'s own test, and lists each
  block once.
- `ImplementsAtomic`: the log refines `LogAtomic`.
- `CacheSound`: a block is in one buffer at most, readers see what was last stored,
  reference counts are exact, and `bget` panics only when every buffer is in use or pinned.
- `HoldingIsExact`, `WaitsOnlyForFrozen`: one holder of a sleep lock at a time, and a waiter
  waits for good only behind a frozen holder or because it is frozen.
- `RequestsApart`, `RequestReturns`: requests own disjoint chains of descriptors, none
  leaks, a request ends after the device has served it, and every request comes back.
- `OpsStart`: no caller of `begin_op` is left asleep.
- `LinksCover`: at every step an inode has at least as many links as entries other than `.`
  and `..` name it, and none of these entries names a free inode. Of `..` this is not true
  (`ns_dotdot`).
- `ItableSound`: up to a panic, the inode table agrees with the disk, `iput`'s lock under a spinlock never
  blocks, references are exact when no call runs, and calls do not wait in a circle.
- `FileIsBytes`, `BlocksExact`: a file reads back what was written, and of a copy that failed
  the old or the new bytes, before and after buffers are recycled; the bitmap has exactly the blocks in use, each used once; a chunk of `filewrite`
  fits its reservation.
- `FilesCounted`: the reference counts of open files, pipe ends and the inode are exact
  between calls, sharers share the offset, and no transaction is nested.
- `ImageSound`: `mkfs` writes an image that reads back as given, with an exact bitmap and
  within `FSSIZE`; the block that the root's rounded size may cover beyond its entries is
  not there.

Devices, memory and user programs:

- `ImplementsFifo`, `ImplementsLine`: the two refinements.
- `NobodySleepsOn`: with the locks free, no reader or writer of a pipe and no reader of the
  console sleeps beside what it waits for, but for a reader whose writer was killed between
  two bytes (`hushed`).
- `TxOrder`, `WriterWakes`: the bytes of `write` that are not yet sent are the one in the UART
  and then the ring, in order, with only bytes of `uartputc_sync` behind the first in the
  UART; and a writer on a full ring is woken.
- `MemorySound`: no page is lost or freed twice on any path, page tables match sizes, and
  the panics of `vm.c` are not reached; so what `sys_meminfo` reports as used is what is in
  use.
- `UserCopies`: the copies do what a copy byte by byte would.
- `RunsAsWritten`, `LineEnds`: programs start with the input and output their place in the
  line calls for and no other descriptor, and the shell comes back to its prompt.
- `HeapSound`: free and live blocks do not overlap, make up all memory obtained, live ones
  have room for what was asked for, and free neighbours are joined.

Runs that show the code disagreeing with what the repository says of it:

| Run | Property | The code |
|---|---|---|
| `proc_born_frozen` | `BornUnfrozen` | `freeproc` leaves `frozen` set; the next process in the slot never runs |
| `proc_born_killed` | `BornUnkilled` | `kill(0)` matches a free slot; the next process in it is born killed |
| `proc_kill_race` | `KilledNotAsleep` | `kill` between `wait`'s test of `killed` and its sleep wakes nobody |
| `proc_frozen_exit` | `FrozenDoesNotExit` | `freeze` returns while the target runs on, and may exit |
| `log_reserve` | `ReservationHolds` | `begin_op` hands out `LOGSIZE` blocks, the log on disk holds `LOGSIZE - 1`: `log_write` panics |
| `ns_dotdot` | `LockedAllocated` | `unlink` of the current directory takes back the link its `..` gives; once the parent is unlinked too, a path through `..` makes `ilock` panic |

### Bounds

`MaxPid` bounds the forks (no `fork` starts once that pid is given out), so that `nextpid`
is finite. Three slots allow a process, its child and its grandchild, hence reparenting and
the reuse of a slot; the runs with all calls have two slots, where each process can kill,
freeze and outlive the other. Two CPUs are what the hand-over of a lock needs to go wrong;
the theorems lift both bounds. `MaxOps` bounds the calls between two crashes and
`MaxCrashes` the crashes: two allow one in `commit` and one in the recovery that follows. In
`store` the log has three data blocks and the calls may reserve four, so the panic of
`log_write` is reached, and a transaction survives it or not like any crash. The CPUs of the
`Proc` safety runs, and the processes, blocks and contents in `store`, are symmetric; no
liveness run uses symmetry.

Counters that are 16, 32 or 64 bits wide in the code have 2 or 3 here, and rings 2 or 8
places, so that they wrap several times: `CtrWidth`, `ConsWidth`, `TxWidth`, `IdxWidth`,
`Width`. As in the code, the size of a ring divides the range of its counter.

- `Pipe`: one reader and two writers, `MaxRW` = 2 bytes a call, a ring of 2: a write that
  fills the ring and sleeps, and two writers in competition.
- `Console`: two readers, a ring of 2. `Uart`: 2 writers, a ring of 2.
- `VirtioDisk`: a request takes 3 of the 8 descriptors, so the third of three must wait.
- `Bcache`: 3 buffers for 4 blocks, 2 clients and the log's pins: `bget` must recycle, and
  panics when two or three are pinned and the others in use.
- `SleepLock`: 3 processes: a holder and two waiters.
- `Ticks`: `MaxDelay` bounds how late a process that is due gets a CPU; the counter wraps
  after 4 ticks.
- `Ptree`: 4 slots and `MaxChanges` = 6: a chain of three below init can lose a link and a
  slot can be reused during the walk.
- `Namespace`: 4 inodes, 2 names, 2 processes with one call each (`MaxCalls`), from four
  trees: a directory, a file in it, a directory removed while it is the current one, a file
  removed while it is open. Two calls are what a race takes. `ns_dotdot` has one process
  with three calls, in a directory two levels down.
- `FileData`: 2 files, 7 blocks of 2 words, 2 direct blocks, one block per bitmap block (the
  worst for the reservation), `MaxWrites` = 3 writes and truncations: direct and indirect
  blocks, a full disk and reuse.
- `FileTable`: 2 processes, 3 files and 2 descriptors each, so both tables fill up; `MaxOff`
  bounds the offset.
- `Trap`: `MaxHeld` = 2 spinlocks, `Pcs` = 2 program counters.
- `Memory`: 17 pages, 2 processes, three levels of 3 entries, pages of 2 bytes, 6-bit
  addresses; `MaxGrow` bounds `sbrk`, `MAXARG` = 2 the arguments. Segments overlap, are out of order, are larger in the
  file than in memory, wrap, are not aligned, or are too large.
- `UserCopy`: all 64 addresses, lengths to 4 (two pages and a part), all permissions of 3
  pages.
- `Shell`: six processes at most, one failure of `fork` or `open` (`MaxFails`).
- `Umalloc`: a heap of 9 units of 2 bytes; requests of no byte, of one, of a whole number of
  units, and of more than `morecore` asks for at least. `Mkfs`: up to 4 files of 5 lengths
  around the boundaries of a block, the direct blocks and the largest file, in an image of
  30 blocks and a bitmap block of 25 bits, both of which they can exceed; `mkfs` does not
  test `NINODES`, and inodes beyond it are outside the claim.

Deadlock is checked in every run but `ns_dotdot`, which ends when its calls are used up. Where a bound ends a run (calls, changes or files used up,
the log after a panic, the shell at its prompt) the module says so with a step that changes
nothing.

### Fairness

`Proc` assumes weak fairness of each CPU's scheduler and switch code, strong fairness of the
timer (the request stays pending until interrupts are on), and strong fairness of each
thread's own steps in the kernel (a time slice is about a tenth of a second, a step is a few
instructions). User code has none: it need never make a call. Liveness is checked on one
CPU, since a spinlock contended by two CPUs promises no turn to either; and up to the
process being frozen, since nothing obliges anyone to unfreeze it. For `KilledExits` one CPU
matters: `wait` holds `wait_lock`, with interrupts off, from its test of `killed` to its
sleep, so no `kill` fits in between; on two CPUs one does (`proc_kill_race`), and the killed
process sleeps until a child exits. `Log` assumes that a process that is not asleep goes on,
and that a call comes to `end_op`. It does not assume that a process is favoured in
`begin_op`, where nothing orders the callers: `OpsStart` says that no wakeup is lost when
finitely many calls are made, and not that a caller is safe from starvation by an endless
stream of others. The assumption that a call comes to `end_op` fails for a process frozen
inside a call.

`SleepLock` assumes that a process that is neither asleep nor frozen goes on and that a
holder releases; `VirtioDisk`, that the device completes what it has taken, that its
interrupt is served, and that woken processes run; `Uart`, that the UART sends, and that its
interrupt is served again and again while it is idle (the kernel's own output through
`uartputc_sync` does not keep it busy every time); `Ticks`, that the clock of hart 0 ticks
and sleepers that were woken run; `Shell`, that every process goes on and a program ends
once its input has: a reader of a pipe when every write end is closed. In a run of several
components the fairness is that of the one that runs.

## 4. Proofs

The theorems hold for every value of the constants that the `ASSUME`s of the modules admit,
and for behaviours of any length. Each one is listed with the inductive invariant it rests
on, which Init implies and every step keeps.

| Module | Theorem | States | Inductive invariant |
|---|---|---|---|
| `ProcProofs` | `TypeCorrect` | `TypeOK` | `TypeOK` itself |
| | `StacksAreExclusive` | `StackExclusive` | `SwitchInv` |
| | `SchedHoldsOneLock` | `SchedLocks` | `SwitchInv` |
| `ProcLifeProofs` | `PidsAreUnique` | `PidUnique` | `LifeInv` |
| | `ProcImplementsLife` | `ImplementsLife` | `LifeInv` |
| | `FrozenIsPreserved` | `FrozenPreserved` | `LifeInv` |
| | `ParentsAreAlive` | `NoDanglingParent` | `LifeInv`, `TreeInv`, `WakeInv` |
| | `WakeupsAreNotLost` | `NoLostWakeup` | `LifeInv`, `TreeInv`, `WakeInv` |
| `LogProofs` | `LogTypes` | `TypeOK` of `Log` | `LogInv` |
| | `TransactionFits` | `LogFits` | `LogInv` |
| | `LogImplementsAtomic` | `ImplementsAtomic` | `LogInv` |
| `TrapProofs` | `TrapsKeepState` | `TrapStateRight` | `TrapInv` |
| | `SleepIsExact` | `SleepExact` | `TkInv` |
| `CacheProofs` | `SleepLockHolds` | `HoldingIsExact` | `HoldingIsExact` itself |
| | `CacheIsSound` | `CacheSound` | `BcInv` |
| `DiskProofs` | `RequestsKeepApart` | `RequestsApart` | `VdInv` |
| `RingProofs` | `PipeImplementsFifo` | `ImplementsFifo` | `PipeInv` |
| | `PipeWakes` | `PipeWakeups`, half of `NobodySleepsOn` | `PipeInv` |
| `TermProofs` | `ConsoleImplementsLine` | `ImplementsLine` | `ConsInv` |
| | `ConsoleReadable` | `ConsReadable`, the other half | `ConsInv` |
| | `TransmitInOrder` | `TxOrder` | `TxInv` |

What is assumed of the constants:

- `Proc`: at least one slot, `NoCPU` not a CPU, `Calls` among the modelled calls, `Targets`
  natural numbers. `LogAssumption`: the on-disk log has at most one block more than the
  header has entries. `TrapAssumption`: the scheduler is not a thread.
- `TicksAssumption`: what is slept for and the delay of a process that is due are together
  less than a round of the counter; a sleeper could not tell otherwise.
- `PipeAssumption`, `ConsAssumption`, `UartAssumption`, `VdAssumption`: the size of a ring
  divides the range of its counters and is below it (for the disk, at most equal to it), as
  512, 128, 32 and 8 divide 2^32, 2^64 and 2^16; a pipe's readers are not its writers.
- `BcacheAssumption`: finitely many buffers, at least one, and finitely many clients; not
  that there are fewer clients than buffers.

The arguments:

- `SwitchInv` is `TypeOK` with `CpuInv`, `ThreadInv` and `WaitLockInv`. `StackExclusive` is
  not inductive: it says nothing of who holds the lock in the window in which a slot is
  RUNNABLE or ZOMBIE and its thread is still on its stack. `CpuInv` adds that: a locked slot
  is exactly one in a hand-over, on the CPU that owns its lock. `ThreadInv` ties contexts,
  positions and cursors to states, and `WaitLockInv` says that `wait_lock` is held exactly
  while one executing thread is inside its critical section.
- `LifeInv` adds `PidInv` (pids in use are distinct and below `nextpid`) and `InitInv` (the
  first process never gets past the entry of `exit`). Each action is shown to be a move of
  `ProcLife` or a stutter; the pids then follow from the abstract moves alone.
- `TreeInv` adds which processes may have children, and what `fork` and `exit` have
  established at each position. `WakeInv` says of a sleeper with an exited child that
  somebody inside `wait_lock` is still going to wake it. Most actions change neither tree
  nor sleepers; two lemmas (`TreeQuiet`, `WakeQuiet`) deal with all of those at once.
  Unfreeze is among the steps, which the run of `NoLostWakeup` leaves out.
- `LogInv` says how many calls are under way (`CallInv`), how the header on disk follows the
  one in memory (`HeadInv`), which buffers are pinned and that all others agree with the
  disk (`CacheInv`), and what has been copied at each stage of `commit` (`CopyInv`). It
  determines what recovery would make of the disk, so every step maps to one of
  `LogAtomic`. `TransactionFits` does not say that `begin_op`'s reservation suffices:
  `log_write` tests the size itself, and `log_reserve` shows that it can fail the test.
- `TrapInv` says of each CPU what its registers hold for the place its thread is at
  (`Busy`), or between two threads (`Idle`), and of each thread what is saved for it
  (`Kept`). A step touches one CPU and one thread, which `TrapFrame` uses.
- `TkInv` adds to `SleepExact` how far the counter has moved since a sleeper looked at it.
- `BcInv`: `ListInv` keeps the LRU list a permutation of the buffers, `CountInv` makes
  `refcnt` the number of users and pins, `UseInv` says who may touch a buffer, `DataInv`
  what buffers and disk hold, `OneBuffer` that a block has one buffer. `PanicInv` says that
  a panic of `bget` came with every buffer in use or pinned; it is kept because nobody can
  take `bcache.lock`, and so give a buffer back, afterwards.
- `VdInv`: `ChainInv` shares out the descriptors among the free list and chains of three;
  `RingInv` puts each request in one place, once: on one of the rings or in the device. No
  ring overflows because each request on it has two descriptors that are on no ring.
- `PipeInv`, `ConsInv` and `TxInv` add to the wakeups that each ring holds at most its size
  and that a process is where its call may be. `RingProofs` first proves what storing to
  and taking from a ring does to the sequence between two wrapping counters.

Only model-checked: the liveness properties, since fairness and `ENABLED` are out of reach
of the prover; what the recursive operators of `FileData`, `Memory`, `Mkfs`, `Ptree`,
`Shell`, `Umalloc` and `UserCopy` compute; `Namespace`, whose properties relate counts over
a graph of names; `FileTable`, whose `FilesCounted` sums references over all processes and
descriptors; and the runs of several components as such.

## 5. Not modelled

- Composition of components that share state. Freezing inside a transaction (`log.c:152`),
  or a whole file system call over `Namespace`, `Log` and `Bcache`, multiplies state spaces
  that each fill a run. What a process frozen in a call does to others is shown for one
  sleep lock (`WaitsOnlyForFrozen`).
- Memory barriers and atomic instructions: spinlocks are taken to exclude. Other data races
  are not modelled either, such as `procdump`, which reads the table without locks.
- Device set-up and the PLIC's dispatch; boot code, which runs before there is concurrency
  and whose result is each module's `Init`.
- Bits of page table entries and of ELF headers; the kernel's own page table; `printf`,
  `string.c`, and the cutting of paths and command lines into words.
- `fstat`; `malloc` of 2 GB and more.
- Where the bytes of `piperead` arrive: a byte taken out of the pipe before its `copyout`
  fails is lost (`pipe.c:123`), which `ImplementsFifo` does not see.
- Stack depth of the recursion in `sys_ptree`; the wrap of `nextpid`, which takes 2^31
  forks.
- `sh`'s end of input, and its in-place termination of words.
- The test programs and the other utilities: sequential clients, whose calls are the actions
  of the kernel modules.
