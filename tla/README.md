# A verification of better-xv6 in TLA+

The repository is xv6 for RISC-V multiprocessors with additions: copy-on-write
fork, `strace`, `waitx`, process times, and traces of other schedulers. This
directory holds TLA+ models of its kernel, its shell and its libraries, the TLC
configurations that check them, and proofs for TLAPS. Everything is translated
from the sources; where a comment or a test says something else, the code decides
and the difference is a finding (section 5).

## 1. The system and the modules

| part | source (kernel/ unless user/) | module | abstract specification |
|---|---|---|---|
| scheduling, fork, wait, exit, kill, sleep, wakeup | proc.c, trap.c, swtch.S | `Proc` | |
| process ids | proc.c | `Pid` | |
| clock, sys_sleep, process times | trap.c, sysproc.c, proc.c | `Clock` | |
| physical pages, address spaces, exec | kalloc.c, vm.c, trap.c, exec.c | `Cow` | `PrivateMemory` |
| log and recovery | log.c | `Log` | `AtomicDisk` |
| buffer cache, sleep locks, virtio driver | bio.c, sleeplock.c, virtio_disk.c | `Disk` | `LockedBlocks` |
| blocks, inodes, directories | fs.c, mkfs/mkfs.c | `Inode` (operators) | |
| inode table, path lookup, file-system calls | fs.c, sysfile.c, file.c | `Fs` | |
| pipes | pipe.c | `Pipe` | `ByteStream` |
| open files and descriptors | file.c, sysfile.c, proc.c | `File` (extends `Pipe`) | |
| shell | user/sh.c, cat.c, init.c | `ShParse`, `Shell` (extends `File`) | |
| console, UART, kernel printing, spin locks, interrupts | console.c, uart.c, printf.c, spinlock.c, plic.c, trap.c | `Console` | `Terminal` |
| user allocator | user/umalloc.c | `Umalloc` | |
| strings, numbers, path elements, grep | string.c, fs.c, user/ulib.c, printf.c, grep.c | `Lib` (operators) | |

How they interact. Everything that blocks calls `sleep()` and `wakeup()` of proc.c;
`fork()`, `exit()` and `wait()` work on the process table, the address space and the
descriptors; file calls run between `begin_op()` and `end_op()` of the log, which
writes through the buffer cache and the driver. What makes it hard: several CPUs in
the kernel at once, preemption, locks handed over across a context switch or given up
half way (`kfree()`, `commit()`, `iput()`, `sleep()`), interrupts, memory or disk
running out half way, and loss of power between disk writes.

`Shell` is the composition of shell, descriptors and pipes. `Fs` uses the log as
`AtomicDisk` describes it, which `Log` is shown to implement; `Log` and `Fs` use the
cache as `LockedBlocks` describes it, which `Disk` is shown to implement. The layers are
joined by these specifications, not by one large model.

## 2. How the modules correspond to the code

Conventions. A section of code under one lock is one step, if nothing in it can block
on another lock; a loop that takes a lock per turn is one step per turn. Acquiring a
lock is a guard on its owner. `pc` says where a thread is. Locals that are dead are
reset, so that states do not differ in them. Operators named `<operation>_<Slip>` are
the operation with one plausible mistake. They are in no specification; substituting
one shows that a property can fail. Where the code has a known flaw, a history variable
or a named exception keeps the property exact about everything else.

**`Proc`**: the table of `NPROC` slots, `NCPU` CPUs and the two kinds of locks.
`stack[c]` is the kernel stack a CPU runs on (`Null` is the scheduler's), `cproc[c]` is
`c->proc`, `scan[c]` the scheduler's loop variable, `cont[p]` where a thread goes on after
`sched()`. It has the compiled (round-robin) scheduler, context switches, timer
preemption in user and kernel mode, fork with its failure paths, wait with a failing
`copyout()`, exit with reparenting, and kill. init is never killed: that ends in the
deliberate panic "init exiting". Preemption inside the scan of `allocproc()` is left out:
the scan holds no lock between two slots and has changed nothing, and with it the model
has four times as many states. `SchedNoPanic` is about the locks and the state `sched()`
tests; its test of the interrupt flag belongs to `Console`, which has `intena`.

**`Pid`**: fewer fields in finer steps; the load and the store of `nextpid++` are
separate. `MaxPid` bounds the number of forks.

**`Clock`**: `clockintr()` holds `tickslock` and visits the slots one by one, in
`update_time()` and again in `wakeup()`, while processes are created, run and exit on
other CPUs. `ticks` and the argument of `sleep()` are compared modulo `WRAP`, so a negative
argument is a large one. `MCPid` runs `Pid` or `Clock`, as two programs that do not meet.

**`Cow`**: a "slot" is a place that holds a pointer to a page: trapframe, page-table
page, PTE, local variable of a kernel thread; `ref` maps slots to pages. `kfree()` has its
two locked sections; lists of pages to free are the queue `work[p]`. The two page-table
levels above the leaf are one page. `exec()` builds a second address space page by page
and then either commits, freeing the old one, or undoes everything. `leaked` counts the
references a failing `uvmcopy()` gave up; `MaxLeak` bounds them.

**`Log`**: the disk (home blocks, log blocks, header) and the memory apart; `Crash`
resets the latter at any step, recovery included. A write of one block is atomic.

**`Disk`**: `bget()` with reference counts and the LRU list, the sleep lock of a buffer,
`log_write()`'s pin, descriptor chains, both rings with their 16-bit indices
(`WRAP`), and a device that takes requests in order, completes them in any order, and
goes on while the handler runs. A process makes a given list of uses of the cache.

**`Inode`**: a disk is a record of inodes, bitmap and block contents; `balloc`, `bmap`
with the indirect block, `itrunc`, `readi`, `writei`, `dirlookup`, `dirlink`, and `mkfs` are
operators on it. A block holds `BSIZE` units, a unit being one directory entry, one
block address or one piece of file data.

**`Fs`**: a process runs a script of calls (link, unlink, create, mkdir, mknod, open, chdir,
write, close, exit). A call is split where it takes or gives up an inode's lock, and `iput()`
into its two halves. `filewrite()` has one transaction per `WriteMax` units, `exit()` one per
open file and one for the current directory. `begin_op()` does not wait here (`Log` has its
waiting), which only adds behaviours. Device numbers are left out. `durable` is what a crash leaves; it becomes the current disk when
`outstanding` falls to 0. `lost` records the two known races (findings 1 and 2).

**`Pipe`, `File`, `Shell`**: bytes one at a time with the counters modulo `WRAP`; the test of
`killed()` and the `sleep()` after it are two steps, because `kill()` does not take
`pi->lock`. The file
table, `p->ofile`, `fork()` and `exit()` copying and closing descriptors one by one. The one inode has a lock, and `content` counts, for each chunk of the file, the writes
of each open file to it. Above them are arbitrary programs, or the shell: it parses the line with `ShParse` and its processes
execute the calls of `runcmd()`, with cat and a writer as programs.

**`Console`**: a CPU executes a list of primitive operations; an interrupt, taken where
the CPU has interrupts enabled, puts the handler's operations in front. `push_off()` and
`pop_off()` are modelled with their nesting count. A process stays on its CPU. As in `Pipe`,
`consoleread()` tests `killed()` one step before it sleeps.

**`Umalloc`, `Lib`, `ShParse`**: sequential algorithms. Recursion in the code is
recursion here; they are compared with reference definitions in `MCLib`. For the parser the
reference is the grammar: `Meaning` splits the list of tokens at the operators outside
parentheses, the loosest first, and knows nothing of positions, buffers or NUL characters.
In `Umalloc` the program also calls `sbrk()` itself, and `own` are the units it got that way.

## 3. What is checked

| run | instance | shows |
|---|---|---|
| `log` | 2 blocks, 2 values, 3 callers, LOGSIZE 4, MAXOPBLOCKS 2 | write-ahead rule; refinement of `AtomicDisk` |
| `log_live` | 3 blocks, 2 callers, LOGSIZE 4, MAXOPBLOCKS 2 of which a call writes 1 | the reserved space is enough; whoever waits in `begin_op()` goes on |
| `proc` | 3 slots, 2 CPUs | exclusive stacks, RUNNING means running, no slot freed on a CPU, no panic of `sched()`, no lost wakeup, no orphan, no CPUs that spin for each other, lock discipline |
| `proc_live` | 3 slots, 1 CPU | init reaps orphans, killed processes exit |
| `cow` | 1 to 3 processes, 1 to 3 pages each, 5 to 16 physical pages | exact reference counts, no consistency panic, shared pages read-only, refinement of `PrivateMemory` |
| `pid` | 3 slots, 2 CPUs, pids to 7; 2 slots, 3 ticks, sleep(-1), sleep(0), sleep(2) | nobody inherits a kill or a time with a slot, nobody oversleeps |
| `io` | 2 arbitrary processes, or 5 command lines with up to 4 processes; pipe of 2 bytes, counters modulo 4 | exact file references, no two writes through an open file to one place, no missed wakeup, refinement of `ByteStream`, every command ends |
| `disk` | 4 machines: 2 or 3 processes, 2 or 3 buffers, 4 or 8 descriptors | no missed wakeup, exact descriptors and buffer references, refinement of `LockedBlocks`, requests come back |
| `fs` | 102 pairs of scripts on disks of 3 sizes, one crash at any point | the committed disk needs no repair, inode references exact, no panic, no deadlock |
| `fs_freed` | the same | violated: finding 1 |
| `console` | 5 machines of 2 CPUs, rings of 2, up to 7 keys | lock and interrupt discipline, bounded transmitter, nothing stalls, refinement of `Terminal` |
| `lib` | a heap of 9 units; every text of up to 6 characters over four alphabets | heap structure, the parser, string and number routines, grep |

Why the bounds are enough.

- `log`: two calls fit in the log together and a third must wait, blocks are absorbed,
  and crashes hit every write.
- `log_live`: three blocks fill the log up to the panic of `log_write()`, which two calls and
  a third admitted before the commit would reach. A call writes one block less than it
  reserves; calls that use all they reserve are finding 8. With two callers every sleeper is woken by a commit; the wakeup of an
  `end_op()` that is not the last needs a third, with which this run takes too long.
- `proc`: a parent, a child and init exist together with a CPU for two of them, so parent
  and child can exit at once while init waits.
- `proc_live`: the third slot holds the grandchild that becomes an orphan. One CPU is enough,
  because a thread can be preempted between any two locked sections; spinning of CPUs for
  each other is the safety property `NoSpinCycle` of `proc`.
- `cow`: with 7, 11 and 13 pages every allocation of `fork()` and `sbrk()` is the one that
  fails in some behaviour; the instances of 5 to 14 pages do the same for `exec()`. Three
  processes let a page have three owners, the least at which a count can be wrong and not
  be 0 or 1. One instance has `copyout()` write to shared pages, one calls `exec()` in a process that shares its pages.
- `pid`: the table gets full and slots are reused; three ticks suffice for a process to be
  created, charged and reaped within one tick and slept for two.
- `io`: a write of 2 or 3 bytes meets a pipe of 2, the counters wrap after 4, the file
  table or the pages run out in the instances for arbitrary programs; the lines have a pipe
  to a reader, a pipe to a program that does not read, redirections, a background job and
  a syntax error.
- `disk`: each machine is one kind of contention: a pinned buffer while others are
  recycled, one block wanted by two, two requests in the queue, and three processes for the
  descriptors of one request. Indices wrap after 8.
- `fs`: one or two inodes and no, one or three blocks are free; block size and inode shape
  are such that a file of four units needs the indirect block. Pairs are enough for the races of
  two calls; races of three are not covered. A script leaves out one legal sequence
  (finding 3).
- `console`: a ring of 2 is full after two characters and its indices, modulo 4, wrap.
- `lib`: 6 bits for int, so that the least int is among the numbers; grep's buffer of 4 and
  reads of 1 to 4 bytes split lines at every place.

Callers, blocks and values of `log` are symmetric and the run uses that; runs with liveness
properties use no symmetry. Deadlock is checked in `log`, `log_live`, `proc` and
`proc_live`. Elsewhere behaviours end on purpose: scripts, keys, ticks, pids, texts and heap
are finite, and in `cow` the panic "init exiting" halts the machine. `NoDeadlock`,
`NothingStalls` and `NoMissedWakeup` say what an unwanted stop would be.

Fairness.

- `Log`: the machine goes on with recovery and commits, woken callers run, and a call in
  progress comes to its `end_op()` (strong, because a crash or a buffer of another call may
  get in between).
- `Proc`: CPUs execute kernel code and the scheduler loop; a spinlock that is free again
  and again is acquired, which test-and-set under QEMU gives with probability one; the timer
  interrupts every CPU for ever (`timerinit()`); init calls `wait()` for ever
  (`user/init.c`) with a valid status pointer. No fairness is assumed of user programs.
- `Disk`: the device completes what it was given, the handler runs to its end, and a
  process that can go on in `virtio_disk_rw()` does. Weak fairness is enough.
- `Shell`: a process of the shell makes its next call or its next step in the kernel, and
  init reaps. Arbitrary programs never enter `PipelineEnds`.

Two liveness properties are as strong as the code allows. `KilledExits` lets a killed
process stay only if it sleeps for good: `kill()` between `wait()`'s test of `p->killed` and
`sleep()` does not wake it, and it sleeps until a child exits. The same gap lasts until the
next tick in `sys_sleep()`, and until the next line, byte or close in `consoleread()` and
the two pipe loops. `ZombieReaped` lets a child of init stay a zombie only if lower slots are
filled and reaped for ever: `wait()` returns with the first zombie in the order of the table.

## 4. What is proved

The theorems hold for every value of the constants that satisfies the named assumption of
the component's module and the hypotheses a theorem states. Each rests on an inductive
invariant that was model-checked before it was proved.

**`Proc`**, for every `NPROC` and `NCPU` of at least 1:

- `TypeCorrect`: `TypeOK` is an invariant (`ProcTypes`);
- `LockSafety`: `LockDiscipline` is an invariant (`ProcProofs`);
- `SpinSafety`: `NoSpinCycle` is an invariant (`ProcProofs`): a CPU that holds a `p->lock`
  spins for nothing (`HolderGoesOn`), and the one that holds `wait_lock` only for a `p->lock`;
- `StackSafety`, `RunningSafety`, `FreedSafety`, `SchedSafety`: `StackExclusive`,
  `RunningOnCPU`, `FreedOffCPU` and `SchedNoPanic` are invariants (`ProcProofs`);
- `ParentSafety`, `WakeupSafety`: `ParentAlive` and `NoLostWakeup` are invariants
  (`ProcFamily`).

That two CPUs do not share a stack depends on who holds `p->lock` while a thread is between
`sched()` and the scheduler. `LockDiscipline` is the strengthening that says it. Its core is
`LockOwners`: CPU `c` holds `p->lock` if and only if `c` runs one of the three pieces of
code under that lock (`Owns`): the thread of `p` itself, the scheduler `p` has just switched
back to, or the `fork()` that fills `p`. The rest ties `c->proc` and the loop variable to
the stack, a state to a place in the code (`OnCPU`, `OffCPU`, `Resumption`), and the child
of a `fork()` to that `fork()` (`Children`).

Parents and children need a second one, `Family` (theorem `FamilySafety`): what a thread
under `wait_lock` has found out about the slots it has already passed stays true until it
acts on it (`Knows`: `reparent()` has no children behind it, `wait()` no zombies), and a
process that is asleep or about to be has no zombie child unless the child has yet to call
`wakeup()` (`Vigil`).

**`Log`**, for any callers, blocks, values and sizes of the log (`LogProofs`):

- `WriteAheadRule`: the action property `WriteAhead`;
- `LogImplements`: `Log` implements `AtomicDisk`, initial states and step by step;
- `SpaceSafety` (`LogSpace`): `NoPanic` is an invariant if `OpBlocks <= MAXOPBLOCKS - 2`,
  that is, if a call writes at least two blocks less than `begin_op()` reserves.

The invariant relates the header in memory, the header on disk, the log blocks and the home
blocks at every point of `commit()` and of recovery, says that a header names no block twice,
and that the one who commits is alone. The abstract disk is what recovery would restore
(`Recovered`): the home blocks overlaid with the logged ones as long as the header on disk
names them. `SpaceSafety` counts the reserved blocks that calls in progress have not used
(`Free`); its hypothesis cannot be weakened by one, which is finding 8: with `OpBlocks` 2,
`MAXOPBLOCKS` 3 and `LOGSIZE` 3 TLC reaches the panic.

**`Pid`** (`PidProofs`): `KillSafety`, `KilledWasNamed` is an invariant if `kill()` is never
called with 0. The invariant says that a slot has pid 0 and is not killed until
`allocproc()`, which has it locked, gives it a pid. The hypothesis excludes finding 5.

**`Clock`** (`ClockProofs`): `SleepSafety` and `WaitTimeSafety`, `NoOversleep` and
`WaitTimeBound` are invariants for every number of slots while `ticks` has not wrapped
(`Sizes`: `MaxTicks < WRAP`). The invariants follow the two loops of `clockintr()`: which
slots `update_time()` and `wakeup()` have passed in this tick (`Ahead`), and what that means
for a sleeper (`Sleepers`) and for the times of a process (`Times`).

Only model-checked: liveness, which is outside the prover's reach; the other four
refinements; wrapping of `ticks`; and all properties of `Cow`, `Disk`, `Fs`, `File`, `Pipe`
and `Console`, whose invariants count over sets and sequences of all parts of the state and
have not been made inductive. `Shell`, `ShParse`, `Lib` and `Umalloc` are recursive, and what
a recursive definition computes for every input is outside the prover's reach too.

## 5. Findings

1. `fs.c:357`: `iput()` frees the inode on disk and drops its reference later. If
   `ialloc()` and `iget()` take the inode in between and that call fails, an allocated
   inode without link or reference is left (run `fs_freed`).
2. `sysfile.c:254`: `create()` and `link()` write into a parent that was removed after
   they looked it up. The entry goes with the directory, and the inode keeps a link that
   nothing names. `FsckClean` excepts exactly this; `LinksCounted` of `Fs` does not, and
   fails as an invariant of `MCFs`.
3. `fs.c:315`: `..` of a removed current directory whose parent was removed as well leads
   to a freed inode, and `ilock()` panics. `MCFs` with the script mkdir /a/d, chdir /a/d,
   unlink /a/d, unlink /a, chdir .. violates `InodesExact`.
4. `proc.c:135`: `p->pid = nextpid++` without `pid_lock`, after a pid was already taken
   with it. Two processes can get one pid: `UniquePids` fails as an invariant of `MCPid`.
5. `proc.c:656`: `kill(0)` finds a free slot and marks it; the next process there is
   killed. `MCPid` with `KillArgs = {0}` violates `KilledWasNamed`.
6. `vm.c:332`: when `mappages()` fails in `uvmcopy()`, the reference `increse()` just took
   is not given back, and the page is never freed. `RefcntExact` holds with the term
   `leaked` only.
7. `trap.c:48`: every store fault on a user page gets a writable private copy, text pages
   included; `usertests` expects the process to be killed.
8. `log.c:220`: with `log.size = LOGSIZE`, the panic test is one block stricter than the
   reservation of `begin_op()`. `MCLog` with MAXOPBLOCKS 1, LOGSIZE 3 (the ratio of
   `param.h`) and three blocks violates `NoPanic`; in the kernel it takes three calls that
   write ten distinct blocks each, which few calls do.
9. `proc.c:816`: `ticks` is incremented before `update_time()` comes to a process created
   in between, which is then charged a tick it has not lived; `waitx()` can return a waiting
   time of -1. `WaitTimeBound` excepts exactly this value.

Smaller remarks. A killed `pipewrite()` returns without waking the readers of what it
wrote (`pipe.c:84`); `NoMissedWakeup` names that case. grep drops what follows a line
longer than its buffer and never prints a last line without newline; `LibraryCorrect` is
stated for the others.

## 6. Not modelled, and why

- Boot, register save and restore, the kernel page table, PLIC and UART start-up, virtio
  negotiation, reading the superblock: straight-line code before, or below, anything that
  interleaves.
- System call dispatch and argument fetching, `strace` output, formatting of printf, and
  `copyin()`, `copyinstr()`, `fstat()`: they change no state the properties tell apart.
- FCFS needs a macro the Makefile does not define, there is no PBS code, `cps` and `chpr`
  walk a table nothing fills, and the alarm code follows `usertrapret()`, which does not
  return: none of it runs.
- User programs other than the shell, cat, init and grep: most are straight-line clients of
  the system calls, represented by arbitrary calls. `usertests`, `grind` and the other
  tests, over a quarter of the repository's lines, are tests.
- One model of all layers at once: its states are the product of the layers', out of
  TLC's reach; the abstract specifications join them instead.
- The buffer cache with fewer buffers than callers and pins: `bget()` panics there.
- Weak memory and the fences of `acquire()` and `release()`: a locked section is atomic.
