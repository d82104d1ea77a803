# A TLA+ model of CrowOS

CrowOS is a small x86_64 operating system: a kernel (`src/kernel`) that runs
user programs (`src/user`) from a CrowFS partition on an NVMe disk, with a serial
console. This directory holds TLA+ specifications of its parts, TLC models that
check them on small instances, and proofs that TLAPS checks.

## The system and how its parts interact

One core runs (no other is started, and no timer is programmed), and the kernel is
meant to be non-preemptive. A program enters it by a system call, by the
unconditional yield of the trap handler, or by the interrupt of the serial port.

- **Locks.** `spinlock.c` is a test-and-set lock that knows its holder and masks the
  interrupts of its core; `condvar.c` builds sleeping and waking on it.
- **Processes.** `proc.c` has the table of processes and the scheduler, a loop over
  the table that locks a slot, switches to its stack and gets the *same* lock back,
  locked by whoever switched. exit, wait, sleep, yield and the serial read meet here.
- **Files.** `fs/` has descriptors per process and one table of inodes, over CrowFS,
  which is a git submodule and not part of the sources.
- **Storage.** CrowFS reads and writes blocks through `pagecache.c`, which reads the
  disk through `nvme.c`, a polling driver with two pairs of queues.
- **Memory.** `mem.c` hands out frames to the cache, the driver and `vmm.c`, which
  builds the page tables of processes for exec, exit and sbrk.
- **Devices.** Characters of the console go from an interrupt through a ring
  (`serial_port.c`) to readers; `rtc.c` reads the clock once, at boot; `fb.c` copies
  pixels to the screen.
- **Programs.** The shell `init.c` reads a line with `gets`, cuts it into arguments and
  starts programs; exec copies the arguments to the new stack, where `echo.c` finds
  them. `bmp.c` shows a picture. `malloc.c` is the K&R allocator over sbrk.

Two facts about scheduling shape the models. The calls of the file system, memory,
cache and disk never sleep and run with the interrupts off, so one call is one step
there. The kernel code *after* a sleep does run with the interrupts on (see
*Where the code and its comments differ*), so module `Kernel` splits system calls at every lock operation.

## Modules

| module | models | state | actions |
|---|---|---|---|
| `Spinlock` | `spinlock.c`, the interrupt stack of `smp.h` | lock words, holders, interrupt flag and depth per core | one per access to shared memory; interrupts start and end |
| `Kernel` | `proc.c`, `condvar.c`, `trap.c`, `trampoline.S`, `ring3.S`, the sleeping side of `serial_port.c`, exec on the process table | slots, the place on every kernel stack, locks, interrupt flag, scheduler, characters waiting | the kernel between two lock operations; the serial interrupt; the panics of the lock code |
| `Files` | `fs.c`, `file.c`, `device.c`, `fs/syscall.c`, descriptors in exec and exit | directory, inode table, descriptors, working directories | one per system call |
| `LazyState` | `load_additional_data_if_needed` and the page tables of `proc.c`, `fpu.S`, the swapgs of `trampoline.S` and `ring3.S` | saved and loaded FPU state, both gs bases, cr3, who ran last | run and reap by the scheduler, entry of the kernel, its last swapgs and the return after it, an interrupt between those two, switch back, exec |
| `Nvme` | `nvme.c` | enable and ready bits, both queue pairs, doorbells, phases, the buffer; the controller's pointers and disk | disable, enable, submit, poll, finish; reset, start, fetch, execute, fail, complete |
| `PageCache` | `pagecache.c`, `mem.c`, `read_block`/`write_block` | sectors, free list, frames, cache entries, the call in progress | a call, read, write, kalloc and kfree by others, the panic without memory |
| `Memory` | `vmm.c`, `proc_sbrk`, the loading of segments | free list, the tree of tables of every process with the kernel's entries in its root, break | exec, failed exec, sbrk both ways, reap |
| `SerialRing` | the ring of `serial_port.c` | buffer and indices | receive, read |
| `Malloc` | `malloc.c` | headers, free list, break, blocks of the program | every turn of the loops of malloc and free, morecore, realloc, foreign sbrk |
| `UserStack` | the arguments in `proc_exec` (`exec.c`), `vmm_memcpy` | the bytes of a new stack | (operators) |
| `Shell` | `init.c`, `gets` of `stdio.c`, `echo.c`, over `SerialRing` and `UserStack` | the line buffer, the child and its stack, the ring | typing, gets, running the line, echo, another reader, wait |
| `Rtc` | `read_rtc_time` of `rtc.c` | the clock and its update bit, register format, registers read so far | the clock ticks; each read of a register |
| `Framebuffer` | `fb.c`, `bmp.c` | video memory, width and height set by programs | write, set width and height, clear, bmp |
| `BlockStore`, `InputQueue` | what storage and console input promise | | |
| `ProcessProofs` | the proofs about `Spinlock`, `LazyState` and `Malloc` | | |
| `KernelInvariant`, `KernelProofs` | those about `Kernel` | | |
| `InodeProofs`, `FilesProofs` | those about `Files` | | |
| `MemoryProofs` | those about `Memory` | | |
| `PageCacheProofs` | those about `PageCache` | | |
| `DeviceProofs` | those about `Nvme`, `SerialRing` and `Rtc` | | |
| `MCFiles`, `MCMemory`, `MCPageCache`, `MCDevices` | symmetry, images and scenarios for TLC; the two devices side by side | | |

Refinements: `Nvme` and `PageCache` each implement `BlockStore` (property
`StorageSpec`): a caller asks for one block, to read or to write one page, and only that
block is read or changed before the call returns. On a faulty device a read may return
junk and a write may be lost, but only those of the call that failed. The disk in
`PageCache` is the store that `Nvme` implements, so the two stack. `SerialRing` implements `InputQueue` (`QueueSpec`), whose capacity is the
counter of characters in `Kernel`. All three are proved for every instance. `Shell`
composes the ring with the shell, exec and the program it starts, and checks
`QueueSpec` in that composition, where other programs read the ring too.

### Correspondence

Variables and actions keep the names of the code. `PROJECT.json` maps every
definition to its lines. What needs a word:

- In `Kernel`, `pc[p]` is the place on the kernel stack of process `p`, `cpu` the
  stack the core is on, `spc` the place of the scheduler. `was_enabled` and `depth`
  belong to the core, as in the code, not to a process. `locked` is the set of taken
  locks. `LocksInOrder` collects the tests before the panics of `spinlock.c` and
  `scheduler_switch_back`; `Panic` stops the machine when one fails.
- In `Kernel` a program is any sequence of the calls in `UserCalls`, and exec may
  fail at any of its early returns.
- In `Memory` a page table is the set of its entries, with presence, user bit and frame.
  Every root also has the entries of the kernel's half, which point to the kernel's own
  tables; a table is freed, or not, by the same test on addresses as in the code
  (`Outside`), and it is that test which keeps the kernel's. The free
  list is kept sorted: which frame is handed out next makes no difference to what is
  shared, and the order in which they came back would only multiply the states.
- In `Files`, a file offset wraps modulo `Word`, which stands for 2^32.
- In `Malloc`, addresses count headers and requests count bytes, because the code
  confuses the two. `leaked` has the blocks that realloc has replaced and not freed.
- In `LazyState` a pass of the scheduler over a slot is one step (its locks are in
  `Kernel`), and `own` remembers what a program last had in the FPU. gs bases are never
  set by the code, so all programs have the same one; what could go wrong is that a
  program gets the kernel's, or the kernel a program's. That does happen to an interrupt
  between the last swapgs and the return; mode `faulted` is where it leads, and what its
  handler would do is left out.
- In `Nvme` the firmware may have left the controller running. Its reset is one step in
  which it forgets its queues; a read or write may fail, and the driver, which does not
  look at the status, goes on. `request` has the arguments of the call in progress.
- In `UserStack` an address on the stack is eight separate bytes, so that overlapping
  copies show. In `Shell`, letters are one value and `cd` is two of them.
- In `Rtc` time is counted in reads of a register: the update bit is raised
  `UpdateLead` reads before the tick. A real clock raises it 244 microseconds before,
  and the assumption on it is that a round of seven reads takes less.
- Operators that come right before a definition with the same parameters and are not
  otherwise used are mutations of it: they show which mistake a property excludes.

External parts, modelled from their use: the NVMe controller, CrowFS, the clock chip
and the programs.

## Runs

Passing runs:

| run | what it shows |
|---|---|
| `spinlock` | two cores, two nested locks, interrupts: exclusion, masking while locked, unlock never panics, and the deadlock panic is reached only by a real holder (for cores other than 0, see below) |
| `kernel` | three slots whose processes start, wait for and end each other and sleep and read against the serial interrupt: a waiter gets the status of the process it asked for, no slot is reused under it, nobody sleeps on an exited process or on input that is there; no lock where interrupts are on, the lock hand-over of the context switch, at most one running process, unique pids; only waiting for oneself panics |
| `kernel_liveness` | every runnable process runs, every waiter for an exited process returns |
| `lazy_state` | every program finds its own FPU state and gs base, and the kernel its own, although they are saved only when another process runs and slots are reused in between; the installed page table is never a freed one |
| `files` | two processes and a full inode table: sizes match the disk, offsets stay in the file, inodes outlive their users, one per file |
| `nvme` | from a controller in any state, over several turns of the queues and with failing commands: nothing in flight between calls, every command ends, and the driver is a block store |
| `page_cache` | frames have one owner, clean entries equal the disk or are the junk of a failed read, and the cache is a block store |
| `memory` | frames have one use over exec, exit and sbrk, the kernel's tables are not freed, and the heap is mapped exactly to the break (while programs only grow); what lies below the break stays mapped, and the stacks are found at exit, also when it shrinks, until a frame has two uses |
| `shell` | what `/echo` prints is what was typed, through a ring that overflows, deletions, a buffer that keeps older lines, and the stack built by exec; the arguments end with NULL, do not overlap and lie above an aligned stack pointer; the ring stays a bounded queue |
| `malloc` | at every turn of its loops, blocks and free list tile the heap, next to what programs took with sbrk and realloc left behind; free neighbours are joined, and free finds a place for every block |
| `devices` | the clock: the registers used are those of one second that has just begun, the loop ends, and the epoch time is right on 24-hour clocks, except before March of a leap year. The screen: a write fills exactly the rectangle that was set, and pictures of width 0 or 3 modulo 4 are shown as stored |

One run is refuted by TLC: `kernel_interrupts`. The scheduler enables the interrupts
before it takes the lock of a slot, so the unlock of that lock enables them again: a
process that was switched to goes on in the kernel with interrupts on, against "DO NOT
ENABLE INTERRUPTS! The kernel is not preemptible" in `init.c`. The finding quotes it.

### Where the code and its comments differ

These properties state what a comment, a name or a panic message says, and TLC refutes
them on the instance in the last column. They are kept in their modules, beside what
does hold, and no standing run checks them; the hazards in `PROJECT.json` quote the lines.

| property | what the code does | refuted with |
|---|---|---|
| `Spinlock!DeadlockPanicIsReal`, for core 0 too | CPU 0 takes a lock word without holder for its own and panics; needs a second core, which is not started today | `Spinlock.cfg` |
| `Kernel!HandlerHasKernelGs` | as a consequence of `KernelNotInterrupted`, an interrupt between swapgs and sysretq has the user's gs base | `KernelInterrupts.cfg` |
| `Kernel!WaitForNobodyReturns` | wait(0) waits on an unused slot | `Kernel.cfg` |
| `Files!ReferenceCountIsUsers` | exit keeps its reference to the working directory | `Files.cfg` |
| `Files!OpenFilesExist` | an open file can be deleted | `Files.cfg`, `Unlinks = "any"` |
| `Files!FreeSlotsHaveNoFiles` | exit leaves device descriptors open in the slot | `Files.cfg` |
| `Files!ReaddirReturns` | readdir panics on a bad descriptor | `Files.cfg` |
| `PageCache!OutOfMemoryIsSurvived` | without memory the cache panics, always | `PageCache.cfg` |
| `Memory!AllPagesFreed` | the pages of a program are never freed | `Memory.cfg`, `KernelTables = 0`, `KernelHalf = {}` |
| `Memory!CopiesInUse` | the frames for inner tables are never linked | `Memory.cfg` |
| `Memory!SbrkKeepsImage` | sbrk clamps in the wrong direction and unmaps the image | `Memory.cfg` |
| `Malloc!ReallocKeepsData` | realloc copies units as if they were bytes | `Malloc.cfg` |
| `Malloc!ReallocLosesNothing` | realloc does not free the block it replaces | `Malloc.cfg` |
| `Rtc!UnixTime`, `Rtc!TwelveHourClock` | a day ahead before March of a leap year; 12-hour formats | `Devices.cfg` |
| `Framebuffer!AnyPictureShown` | rows whose width is 1 or 2 modulo 4 are read with the wrong padding | `Devices.cfg` |
| `Framebuffer!ClearStaysOnScreen` | clearing writes twice the length of the screen | `Devices.cfg` |

Met on the way, and visible in the models without a property of their own:

- `cd` without an argument calls chdir(NULL), and the kernel reads its path there
  (`handle_cd` in `Shell` goes to `panic`).
- Arguments that do not fit the one page of stack are lost without an error, because
  exec ignores the result of `vmm_memcpy`. The shell's lines are too short for that.
- A failed read returns what the buffer held, and the page cache keeps it as clean.
- read, write, close, lseek and ioctl test `fd > MAX_OPEN_FILES` (`fs/syscall.c`), so for
  `fd = MAX_OPEN_FILES` they look at an entry behind the array. `Files` has only
  descriptors below it.
- `OwnRegisters` would survive the loss of either the reset of `last_running_process` at
  the reaping or the zeroing in `proc_allocate`, though not of both.

### Bounds, and why they are enough

- `Spinlock`: two cores are enough for every race on a lock word, two locks for nesting
  and for release in either order.
- `Kernel`: three slots give a waiter, its target and a third that is scheduled between
  them; four pids (`MaxPid` is the first one not given) let that third process start a
  fourth in a freed slot while the first waits; a ring of one character can be empty and
  full, and `SerialRing` looks at the rest. The pid counter is the only unbounded one.
- `Files`: two processes, more files (with the root directory) than inodes, sizes up to
  two with offsets modulo eight, so that seeks wrap at both ends. `MaxRefs` bounds the
  reference counts, which exit leaks. Programs unlink closed files only: with open ones
  deleted (`Unlinks = "any"`), sizes on disk have no meaning.
- `Nvme`: an admin queue of its real size, two, and an I/O queue of three. An odd length
  makes positions and phases meet in all combinations; sixteen would add only longer
  turns. Two blocks with two values tell apart wrong block and stale data.
  The controller starts switched off, or running with positions and phases that the
  firmware left; its reads and writes may fail or not.
- `LazyState`: three slots, so that one is reused while two others take turns; two
  values beside the zeroed state.
- `PageCache`: one entry per list, so that the second block needs a new list; five
  frames, four of which the cache and the buffer of a read can take, so that each of the
  users of frames meets an empty list.
- `Memory`: tables of four entries keep the code's four levels; one entry of every root
  is the kernel's; pages of two bytes give breaks inside and on the edge of a page.
  `Scenarios` are two processes that only grow, with 28 frames, and one that shrinks too,
  with 17: they stop when the leaks have used up the frames, after earlier lives of a slot.
- `Shell`: a ring of three holds two characters, so that input is typed ahead and lost;
  a buffer of six has lines of up to five characters with up to three arguments (the last
  of which keeps its spaces); a page of 64 bytes holds the longest.
- `Malloc`: chunks of four headers, three sizes, room for three chunks, gaps of one.
- `Rtc`: seconds that end an hour, on the first and last day of every month of a leap year
  and the three after it, before a leap day, and in each hour of a day, in four formats;
  three ticks, and the loop needs at most two.
- `Framebuffer`: a screen of four by two with a pitch of five, every width and height,
  buffers that end inside a row, at its end, and past the screen.

`CHECK_DEADLOCK FALSE` appears where the system may stop: memory or the bound is used
up, a panic halts the machine, the clock has been read, the last process has exited, the
shell waits for input, or (`Spinlock`) cores
deadlock by taking two locks in opposite orders, which their users must avoid.

### Fairness

`Kernel!FairSpec` has weak fairness of `CpuStep`: the core goes on executing kernel
code. It says nothing of interrupts, input or what programs call; `kernel_liveness`
uses only calls that give up the core, because without a timer a program that computes
for ever starves the others. `Nvme!FairSpec` has weak fairness of the driver's polling
and start, and of the controller, which executes what it was given; the driver polls
without a timeout, so nothing weaker would do. `Rtc!RtcFairness` has weak fairness of the
kernel's reads and of the clock's two steps: the loop ends only because the clock ticks.

## Proofs

The theorems hold for every value of the constants that satisfies the assumptions named
in the component's module: ids are naturals, the sets of locks and frames are finite,
lengths are positive (of queues and rings, greater than one), and constants that stand
for NULL, the scheduler, the serial lock and the like are distinct from the rest. The
memory of a program is laid out as exec and `vmm.c` do it: the image from the
first user page on, the heap after it, and the stacks above both.

**Spinlock.** Exclusion is not inductive: it needs to know that a core between its
test-and-set and its release has the word set, and that the holder's id is in place
until the unlock clears it (`LockWords`). Masking needs the depth to be the number of
locks held or in progress (`DepthCountsLocks`) and that interrupts are on only outside
the lock code (`Masked`). `IInv` is their conjunction. That a deadlock panic is real
needs a second invariant, since the lock word and the holder are read in two steps: a
lock that names a core other than the first is held by that core, or the core itself is
about to take its id away (`NamedHolds`), so nothing another core does between the two
reads matters. Theorems: `Exclusion`, `HandlersMeetNoLock`, `UnlockIsSafe`,
`DeadlockIsReal`.

**Kernel.** Which locks are taken is a function of the place in the code. `ProcessLocks`
and `SchedulerLocks` state that function; `Current` says whose place counts, and
`Suspended` where a process that does not run is parked, which is what makes the
hand-over of a lock through `context_switch` go through. `Conditions` keeps the
condition variable of a waiter apart from its own lock, except in a process that waits
for itself. `LockInv` is the conjunction. `KernelInvariant` defines it and has the facts
about lock and unlock, the initial states and the steps of the scheduler and of
interrupts, and one lemma per step of a system call. Most of those rest on
`ProcessGoesOn`: a step of the current process that leaves the other stacks, the
scheduler and the current process alone preserves the invariant if the locks fit the new
place. `KernelProofs` puts them together. Theorems: `HandlerMeetsNoLock`,
`LockHandOver`, `LockPanics`, `RunningIsCurrent`.

On top of it, `WaitInv` says what a process that waits may count on. Between the test and
the sleep of `condvar_wait` the reason to sleep still holds, and between the wakeup in
`proc_exit` and the switch that shows the exit nobody sleeps on the slot (`CpuOf`); both
rest on the masked interrupts of `LockInv`. The slot a waiter found has the pid it asked
for (`StackOf`). That it keeps it is a matter of the order of the round robin, which no
lock protects: every waiter of an exited process comes before its slot in the scan that
starts where the scheduler looks next (`WaiterFirst`, `Precedes`). An exit makes it true,
since the scan has just passed the slot; passing over a slot keeps it, since a waiter is
runnable by then (`WaiterRunnable`) and so is run, not passed; and at the reap it says that
there is no waiter left. Theorems: `ReadersWake`, `WaitersWake`, `TargetStays`,
`WaitIsRight`, `PidsDiffer`.

`MaxPid` bounds only the guard of exec, so the theorems hold for every bound.

**LazyState.** `OwnRegisters` speaks of the program in user mode; between two of its turns
its state is in the FPU if it ran last, and in its slot otherwise (`SavedOrLoaded`). That
needs the running process to be the last one (`RunningRanLast`). `GsParity` says which of
the two bases is where: the kernel's is in use in mode `kernel`, and from its last swapgs
on the program's. `TablesLive` says that live slots have tables of their own and cr3 is
one of them or the kernel's. Theorems: `RegistersAreOwn`, `InstalledTableLives`.

**Malloc.** `HeapInv` is that the headers tile the heap next to what is gone (`Tiles`),
that the list is in the order of addresses (`Ordered`), which headers there are: those of
the list, of the program and of the block that free is placing (`HeaderSets`), that blocks
hold what was asked for (`HeldBlocks`), and where the loops are (`LoopInv`): malloc's
`prevp` is always the one before its cursor, which the unlinking relies on. Each way to
change the headers has a lemma (`JoinTiles`, `SplitTiles`, `GrowTiles`, `LeaveTiles`,
`SbrkTiles`). That free finds a place needs the greatest free block below a header
(`Greatest`, from the finiteness of the heap). Theorems: `HeapIsTiled`,
`HeapListInOrder`.

**SerialRing.** The queue is the bytes from the read index on, as many as are available;
a received character appends, a read of any length removes from the front, modulo the
length of the ring. The invariant is the type of ring and indices. Theorem: `RingIsQueue`,
that every ring implements `InputQueue`.

**Nvme.** That nothing is in flight when a call returns needs driver and controller to be
in step: `IInv` has the stage of the one command (`Sent`, `Waiting`, `Executed`,
`Completed`), where both sides are in both queues at that stage (`InStep`), and which
phase the entries of the completion queue have on either side of its head (`Phases`), from
which the poll cannot mistake an old entry for a new one. `Booting` covers the time before,
where the controller may still have the queues of the firmware. Theorems:
`NothingInFlight`, and `DriverIsBlockStore`: `Asked` says that the command in the queue and
the buffer are those of the call in progress; a write takes effect in the step in which
the controller executes it, and the call returns in the one in which the driver does.

**PageCache.** `IInv` is `Types`, `FrameHasOneOwner`, `OneEntryPerBlock` and
`CleanIsOnDisk`, and `Asked` the type of the call in progress: they hold only together, since a frame with two owners could change a
clean page, and a block with two entries would have two contents. The lemmas follow the
code: what taking frames off the list leaves, what `AddEntry` does to the entries with and
without a new list, and what the contents of a block are after each kind of step. Theorems:
`FramesHaveOneOwner`, `CleanPagesAreOnDisk`, and `CacheIsBlockStore`, where a block's
contents are those of its dirty page, or else of the disk.

**Files.** `TableInv` is `InodesOutliveTheirUsers` and `OneInodePerDnode` with the types
and `NamesInodes`: what a descriptor or a working directory names is an inode, and a slot
that no process uses names none. The count of an inode is compared with the *number* of
its users, so the lemmas count: an open, chdir or exec adds one user and one reference, a
close takes one of each, and an exit takes as many references as the process had
descriptors on the inode (`ExitClosed`). References may exceed users, because exit keeps
the one of the working directory, which is why the invariant is an inequality. An inode
with a user is therefore not empty, so `fs_open` finds it again, and never makes a second
one for the same file. Theorems: `InodesOutlive`, `OneInode`, whatever programs unlink.

`DiskInv` adds the disk. `SizeIsOnDisk` and `OffsetsWithinFile` need each other, and the
fact that names are bound to dnodes of their own whose kind an inode knows (`Directory`).
Steps that write no file go through `DiskFollows`; `file_write` grows the file on the disk
and in the one inode of it, so the offsets of the other descriptors stay inside. The two
theorems, `SizeOnDisk` and `OffsetsWithin`, assume `Unlinks = "closed"`, as the run does:
an unlinked open file has no size on disk.

**Memory.** `MapInv` has the entries of every process: those of the stacks, always; and,
while no process shrinks its heap, those of the image, of the stacks and of the pages from
the end of the image up to the break, with the tables on the way, and no others. A step of
sbrk adds the pages between the rounded old break and the new one, and `Rounding` shows
that this is what the heap lacks. With negative amounts, what is sure is that the pages
between the end of the image and the break are there, with the user bit, and the stacks:
a break that moves down takes away only pages above it, or moves below the image where
nothing is claimed, and one that moves up adds what is missing from the rounded break on
(`EntryKept`, `EntryBit`). Theorems: `BreakStaysMapped`, `HeapIsBreak`.

`FrameInv` is about frames: the free list has no frame twice, a process has no frame twice
(`Separate`), and what a process has (`Mine`) is neither free nor another's. `Takes` and
`Dropped` say that what an allocation takes from the front of the list is distinct and no
longer on it, `Freed` that what `vmm_user_pagetable_free` gives back, some of the frames
of the process and each of them once, makes a list without repetitions again; `FramesMove`
that a step which moves frames only between the list and one process disturbs no other.
Theorem: `FramesUsedOnce`.

**Rtc.** `RtcInv` follows a round of reading: an update that has begun in the round is
still as many reads away as the round has left (`Round`), so the clock does not tick in
it; in the first round, which also reads status register B, it may tick just after the
last register. Hence what was read is one second, and a round that differs from the one
before begins right after a tick. Theorem: `ReadsAreWhole`, for every lead of at least
seven reads and any number of ticks.

Only model-checked:

- liveness and everything under fairness, which the prover does not handle;
- `Shell` and `UserStack`, and `PictureShown` of `Framebuffer`: they rest on
  recursive definitions and folds over bytes and pixels, and what those compute
  needs induction over data, which the provers cannot do. So does the sum of days in
  `UnixTimeAfterFebruary` of `Rtc`.

## Not modelled

- The calibration of the TSC with the PIT and `rtc_now`: they measure elapsed time, and
  what they return depends on nothing the model has.
- A failure of the NVMe commands that make the queues (the driver would then poll for
  ever), the contents of the identify pages, and PCIe enumeration.
- The eviction code of the cache, unreachable behind a panic; the contents of files, which
  are CrowFS's, a submodule that is not part of the sources.
- Write and execute permissions of pages and I/O mappings; the bytes of ELF files.
- What the FPU control words are: a process starts from a save area of zeros, and
  `fpu_enable` has no caller.
- rename, which panics.
- Boot-time tables (GDT, IDT, PIC): constants written once.
- printf and the other functions on strings: pure, and without a property that a test
  would not reach. `cat`, `ls`, `mkdir`, `date`: sequences of calls without state; `Kernel`
  and `Files` let programs make any sequence.
