# Verification of Kaviz OS

Kaviz OS is a small x86-64 kernel with its own boot loader: about 6,100 lines
of C and assembly under `src/`.  This directory holds TLA+ models of its
parts, the TLC runs that check them, and TLAPS proofs about them.

## The system

| part | source | module |
|---|---|---|
| kernel heap | `kernel/memory.c` 468-611 | `Heap`, `MemoryProofs` |
| page tables and TLB | `kernel/memory.c` 23-42, 191-392, `boot/stage2/paging_setup.asm` | `Paging`, refines `AddressSpace`; `PagingProofs` |
| who maps which kernel page | `memory.c`, `scheduler.c`, `process.c` | `KernelSpace` |
| memory detection, boot handover, `_start`, physical memory manager | `boot/stage2/memory_detection.asm`, `kernel_handover.asm`, `bootloader_init.asm`, `kernel_entry.asm`, `kernel_loader.c`, `memory.c` 97-149 | `Boot`, `MachineProofs` |
| scheduler | `kernel/scheduler.c` | `Scheduler`, `SchedulerProofs` |
| preemption by the timer | `scheduler.c`, `timer.c`, `context_switch.asm`, `kernel_loader.c` | `Preemption`, refines `Scheduler`; `PreemptionProofs` |
| layout of the task control block | `context_switch.asm`, `scheduler.h` | `ContextLayout` |
| process table, `sys_exit` | `kernel/process.c`, `syscall.c` | `Process`, `ProgramProofs` |
| user mode, beside the processes | `user_mode.c`, `user_mode.asm` | `UserMode`, `ProgramProofs` |
| system calls | `syscall_entry.asm`, `syscall.c` | `Syscall` |
| interrupt set-up and delivery | `interrupt.c`, `apic.c`, `timer.c` | `Interrupts`, `MachineProofs` |
| interrupt stubs and frames | `interrupts.asm`, `apic_isr_stubs.asm`, `interrupt.h` | `IsrFrame`, `MachineProofs` |
| `sleep` and `tick_count` | `kernel/timer.c` | `Timer`, `DriverProofs` |
| keyboard | `drivers/keyboard.c`, main loop of `kernel_loader.c` | `Keyboard`, refines `InputQueue`; `DriverProofs` |
| console, one caller | `drivers/console.c`, `vga.h` | `Console` on the screen of `Vga`, refines `Terminal`; `DriverProofs` |
| console, with tasks that print | `drivers/console.c`, `kernel_loader.c` | `ConsoleShared`, `DriverProofs` |
| ATA disk | `drivers/ata.c` | `Ata`, composed with `Fat` in `Storage`; `StorageProofs` |
| FAT: files | `fs/fat.c` | `Fat`, composed with `Ata` in `Storage`; `StorageProofs` |
| FAT: mounting | `fs/fat.c` 24-30, 123-219 | `FatMount`, `MachineProofs` |
| ELF loader | `kernel/elf.c` | `Elf`, `ProgramProofs` |
| VFS | `fs/vfs.h` | declarations only, no code |

`kernel_main` initialises the memory manager, the interrupt controllers, the
scheduler, the timer and the keyboard, adds two tasks, calls `run_tests`
(`kernel_loader.c` 87) and then echoes keys.  There is one processor.  What runs concurrently is `kernel_main`, the tasks it
adds, and the handlers of the timer (vector 32) and the keyboard (vector 33).
The timer handler calls the scheduler and sends its EOI afterwards; nearly
everything about preemption follows from that order.  The heap, the task
stacks and the process stacks share one kernel address space through
`map_page`.  The disk stack (ELF over VFS over FAT over ATA) runs in its
caller's thread; at start-up that is `kernel_main` in `run_tests` (`test.c`
174-181), which calls `ata_init`, `ata_read_sector`, `fat_mount` and
`elf_load`.  On a machine without a slave `run_tests` gets no further than
`ata_init` (run `missing_drive`).

## The modules

Each `MC*` module instantiates for TLC the modules its run is about.  Where
these share no state, a variable `part` says which of them a behaviour is
about.

**Heap.**  `heap` is the linked list (`hdrs`, with `size`, `next`, `free` per
header address), `ptes` the pages mapped for it, `live` the pointers callers
hold.  `KmallocFit`, the extending and the failing variants and `kfree` are
whole calls: kernel allocations happen with no other allocator call in
between (no interrupt handler allocates, and the tasks do not).  Addresses and
sizes are numbers, so splits and merges are the code's arithmetic.  The sum
`size + sizeof(struct heap_block) + 16` is not given a width: requests stay
far below 2^64.  The heap module assumes that nobody else maps pages in the
heap's range; `KernelSpace` shows that assumption to be false and why.

**Paging.**  `mem` is the memory the tables are in, entry by entry, `used` the
bootstrap pool, `tlb` any subset of the translations the processor may have
cached.  `map_page`, `unmap_page`, `set_page_flags` are actions, with the
return at each level where the pool is exhausted.  A table is found at the
address in its entry with the low bits cleared, and a page may be used for what
the flags of all its levels allow.  `OFFSET` says where the linker put the
pool; the run `memory` has it on a page boundary, `table_alignment` not.  The
tables the calls start from are those `paging_setup.asm` builds: the page
directory has an entry for every index (94-109), of which only the first leads
to a table that was filled; the others lead to memory nobody has written
(`Leftovers`).  `setup_pt` (112-127) writes entries of four bytes, so that two
of them make one entry of eight, half of the table stays clear, and the frames
are not those of the comment ("identity mapping for first 2MB").  Two things
keep these tables from being used as they are: they lie at 0x100000, where
`boot.ld` puts the kernel (the model has them apart), and the disk image is
built from `2_main_bootloader.asm`, which does not contain them.
`AddressSpace` is what callers rely on: one page changes, or none and -1 is
returned.

**Boot** follows the memory map from the answers of the firmware to the
regions of `pmm`: the E820 loop, which has no limit, with an error or the end
of the list after any answer, the fallback,
`prepare_boot_info` wherever it is called, both jumps to the kernel, `_start`
and `zero_bss`, and the loop of `init_pmm` with its 32-bit sums.  The record at
0x9000 is four dwords, which the loader and the kernel read differently.
Changes of the processor's mode are left out: every step is taken to run in
the mode it is written for, with `int 0x15` available where it is used.  The
files of `boot/stage2` this is about are those the handover was written in;
the makefile builds `2_main_bootloader.asm`.

**Scheduler** takes each call as atomic and asks who runs and who wakes.  The
do-while loop of `scheduler_schedule` is a closed form (the slots visited).
**Preemption** takes the same calls statement by statement with a timer
interrupt possible wherever the interrupt flag allows, runs the loop iteration
by iteration, and keeps for each TCB whose context is in it.
`ImplementsScheduler` shows that its table changes as that of `Scheduler` does,
which also compares the loop with the closed form.  The history `unseen` counts
for each task the passes of the loop that have not come to it.  It takes `context_switch`
at its word; **ContextLayout** executes `context_switch` at the offsets in the
assembly against the layout of `struct task` and shows where they differ.  So
`Preemption` says what the scheduler's C code does with threads, given a
switch that works.  The first switch saves `kernel_main`, which is no task,
into `tasks[0]`, over the context of the first task added (`task1`,
`kernel_loader.c` 83), which never runs; `TasksRun` is about the others.

**Process** has the table, the stacks and the frames taken for them;
**UserMode** adds the descriptors, the stack of `enter_user_mode` and the
frame `switch_to_user_mode` pushes.  `gdt_entries` is `extern` and defined
nowhere; it is taken to hold a kernel code and a kernel data segment.
`enter_user_mode` may be called before `user_mode_init`; the switch then
faults on the missing descriptors.  The comments at the descriptors say
"DPL = 3" (`user_mode.c` 10, 14), but their level is 0 and the selectors
pushed have RPL 0, so that `iretq` accepts them and the function starts in
ring 0 (run `ring3`).  One function is started, as there is no way back from
it.  `process_yield` and `process_sleep` are empty.

**Interrupts** steps through `idt_init` and `timer_init` while the lines of
the timer and the keyboard rise at any time.  The 8259, the I/O APIC and the
local APIC are external and modelled as far as the code relies on them.
**IsrFrame** carries out the pushes and pops of every stub.

**Syscall** carries out the register moves of `syscall_entry` and the handler
called.  `syscall_register` is declared in `syscall.h` and called, but defined
nowhere; it is taken to store the handler in the table.  The only caller of
`syscall_dispatch` at run time is `test_syscalls`, and nobody calls
`init_syscall_msr`; the model is of a kernel that does.  A SYSCALL then goes
where LSTAR says, and that is not `syscall_entry` (run `syscall`).

**Storage** composes `Fat` with `Ata`: a step of `Fat` over a cluster waits
for `read_cluster`, a loop over `ata_read_sector`, and that for the drive,
which may lag, fail at any command or not exist.  Between calls of the file
system others use the driver, and `ata_init` identifies the master and then
the slave.  `fat_open` does not write the position of the handle, and its
callers (`elf.c` 17, `test.c` 66) leave it uninitialised: it is any of
`Starts`.  File names are sequences of characters, and
`fat_name` converts them as the code does.  **FatMount** takes a volume as a
formatter laid it out, reads the boot sector the formatter wrote, and keeps
who owns the heap block of the FAT.  Both calls may come at any time:
`fat_mount` overwrites the pointer of an earlier mount, and `fat_unmount` frees
what the pointer names, also after a mount that failed or without one.
`fat.c` is not compiled by the makefile, though `test.c` calls it, and its line 140 names a field of another part of the union than `fat.h`
declares (`boot.fat16.root_entries`); it is read as `boot.root_entries`.

**ConsoleShared** has the loads and stores of `console_putchar` in the order
of the compiled code, with whole calls of tasks between any two of them, as
many as may be; the real number is limited by the ticks that fall into one
call.

**Timer** has `sleep` called by `kernel_main` or by a task.  While a task runs
no tick comes (`TicksOnlyInMain`), so that a sleep of a tick or more in a task
never ends; `SleepReturns` is about the others.

**Keyboard**, **Console**, **Ata**, **Fat**, **Elf** model the
functions of their file as actions, loops one iteration per step where
something can happen in between.  The drive, the keyboard controller and the
disk contents are external.

## Runs

| run | module | result | states | what it shows |
|---|---|---|---|---|
| `memory` | `MCMemory` | pass | 51,703 | Heap: headers tile it, free neighbours are merged, live blocks are disjoint, backed and never moved.  Tables: a tree, no stale translation in the TLB, and the calls implement `AddressSpace`. |
| `tasks` | `MCTasks` | pass | 22,835 | Ticks between any two steps of the scheduler do no harm; every task is visited in turn, and all but the first run again and again.  `sleep` across the wrap of its counter.  The console, for one caller and for several. |
| `programs` | `MCPrograms` | pass | 36,795 | The process count, the stacks of processes and user mode, `elf_load` on all ways out. |
| `storage` | `MCStorage` | pass | 407,732 | Two drives: `ata_init`, mounting, look-up and reading on a drive that may fail; what is read is the file. |
| `machine` | `MCMachine` | pass | 79,817 | The kernel takes the usable regions of the record it was left.  No device interrupt arrives as an exception, EOIs match, interrupts go on; the stubs' frames.  The keyboard buffer is a queue that is emptied. |
| `kernel_space` | `MCKernelSpace` | violation | | Stacks are mapped over heap pages (`HeapReserved`). |
| `context_layout` | `ContextLayout` | violation | | A new task does not start at its entry point (`FreshStartsAtEntry`). |
| `handover` | `MCMachine` | violation | | The detected map never reaches the kernel (`KernelGetsTheMap`). |
| `table_alignment` | `MCMemory` | violation | | With the pool off a page boundary `map_page` does not map the page (`MapsThePage`). |
| `ring3` | `MCPrograms` | violation | | The function `enter_user_mode` starts runs in ring 0 (`RunsInRing3`). |
| `syscall` | `Syscall` | violation | | A SYSCALL does not get to `syscall_entry` (`NumberDispatched`). |
| `missing_drive` | `MCStorage` | violation | | Without a slave `ata_init` never returns (`InitReturns`). |

There are no invariants that only give types: the types are conjuncts of
`HeapTiled`, `TableTree`, `RoundRobin`, `TicksOnlyInMain`, `CountMatches`,
`GivesBack`, `NeverAnException`, `FrameRight`, `Handshake`, `SleepExact`,
`ImplementsInputQueue` and `ImplementsTerminal`.

The seven violations are disagreements between the code and what it says of
itself; `PROJECT.json` quotes the lines.  `table_alignment` is about what the
source guarantees: whether a given build is affected depends on where its
linker puts the array.  `missing_drive` is a temporal one, under the fairness
of the driver and of the drives there are.  In `syscall` the first half of
`NumberDispatched` fails; the second would fail behind it, as `syscall_entry`
passes the caller's RDI for the number (`syscall_entry.asm` 37-39), where the
comment in line 5 has RAX.

## Where properties are conditional

A property that needs a condition says so, and the condition is a place where
the code gives no guarantee.

- `ReadsFile` says less where position and cluster have come apart: the bytes
  are the file's, but not those at the position.  `fat_seek` sets the position
  and leaves `current_cluster` where it was (`fat.c` 352); its test for a
  negative position is on an unsigned number (348), so that a seek before the
  beginning goes to the end.  `fat_open` (247-256) sets `current_cluster` and
  leaves the position, so that a file is read from its beginning only if the
  caller had put 0 there.
- `LookupRight`: names are 8.3 and without spaces, and the look-up does not ask for the attribute
  of an entry.  On FAT16 and FAT12 nothing in the root directory is found, as
  `root_cluster` is the placeholder 0.
- `CallsReturn` is about a drive that exists and shows BSY at once: the loops
  of `ata.c` (26, 38, 80-89) have no limit, and `ata_init` returns where both
  drives are there (`missing_drive` is the other case).  On FAT12 `read_fat_entry` returns
  0 (`fat.c` 51-53), and the look-up may go round for ever (114).
- `Handshake` says nothing of failed writes: `ata_write_sector` does not look
  at ERR after the data (`ata.c` 137).  With a drive that shows BSY late, a
  command may be written while the drive is still busy with the one before,
  and old data be left; two of its clauses are not about such drives.
- `FatOwned` allows `fat_unmount` to free a block of somebody else in two
  cases, and shows that there are no others: after a mount that failed, which
  may leave a pointer to the block it freed (`fat.c` 199), and before the first
  mount, when the pointer is what the caller's stack held.  A mount over
  another one loses the block of the first (`lost`).  Behaviours are followed
  up to the first such free, after which anything may happen to the heap.
- `cluster_buffer` has 4096 bytes (`fat.c` 62, 273); clusters are taken to fit.
- `KeysArrive` is about keys the local APIC accepts.  The mask of the
  redirection entry is kept as the firmware left it (`apic.c` 107).
- `MCTicksGoOn`: every task calls the scheduler some day.  The EOI is sent
  when the interrupted thread is resumed (`timer.c` 44).
- `TasksRun` excepts the first task, and says that it never runs; it, too,
  needs every task to call the scheduler.
- `SleepReturns` is about sleeps in `kernel_main`, and sleeps of less than a
  tick.  No caller of `sleep` keeps it to `kernel_main`; in a task a longer one
  never returns (`SleepExact` has that as a conjunct).
- `MCBootGoesOn` is about a firmware that some day ends its list or reports an
  error.  The loop of `detect_memory_e820` (`memory_detection.asm` 31-66) has
  no limit; entries beyond the first few are not kept, and what a long list
  would overwrite behind the buffer is left out.
- `FrameRight` leaves out vector 17, for which the processor pushes an error
  code and the stub has no place (`interrupts.asm` 72).
- `Boot` takes the stack `_start` runs on to be outside what it clears.
- `TicksOnlyInMain` counts `kernel_main` as the owner of `tasks[0]`.
- `Loaded` has the bytes of the segments in memory if no two of them share a
  page (`Separate`): of two on one page, the second takes a new frame
  (`elf.c` 125).  A segment takes at least the memory of its part of the file,
  which `elf_load` does not ask for.
- `CountMatches`, `StacksReady` and `StacksKept` do not claim that the stack of
  a process is mapped, that `child_count` is right, or that a process is not
  its own parent.
- `ImplementsAddressSpace` grants writing only.  A page is never usable in
  user mode, as the upper levels do not have the flag (`memory.c` 229).
- `OneLineOut` allows the cells of one line behind the screen, and the cell
  before it; that is what the interleavings reach.
- `PmmMatchesRecord` is about what the record says, which is not the map the
  loader detected (run `handover`).

## Bounds

- **memory**: pages of 64 bytes, two at first, four frames; requests 0, 40, 70:
  splits, whole-block placements, extensions by one and more pages, failure.
  Two entries per table, four pages, a pool of four tables: enough to share
  tables and to run out at every level; two values of unwritten memory, one of
  which looks like an entry.
- **tasks**: four tasks, a time slice of 2 (5 in the code), sleeps of 0, 1, 3.
  A 4-bit tick counter from any value, with up to 3 ticks before a look.  A
  screen of 3 x 2, with two lines scrolled off for one caller.
- **programs**: a table of 4 (three usable slots), stacks 4 pages apart, 12
  frames; ELF pages of 4 bytes with small segments, of which some share a page
  and some do not.
- **storage**: clusters of two bytes in two sectors of two words, names of
  2 + 1 characters, 16 positions (2^32 in the code), files opened with 0, 3 or
  9 for their position, four disks (two FAT32, FAT16, FAT12), five names, two
  drives; six volumes on both sides of the limits 4085 and 65525, three heap
  blocks.
- **machine**: room for 3 regions, 3-bit sums, five kinds of entries in any
  order, entry sizes 0 and 24, drive numbers 0, 2, 7; any number of answers of
  the firmware, of which one is kept (two in `handover`, the run about them).
  Two lines, a slice of 2; vectors 0 to 47, error codes 0, 4.  A ring of 4.
- **syscall**: numbers 0, 1, 2, 9 and 13, inside and just outside the table
  of 13; an entry point above 2^20 and below 2^32, as `boot.ld` has it.

The parts of a run share no state.  No run checks for deadlock: in each some
part may stop.  Frames are used up, a stub or routine has returned, the kernel
halts on an exception, the paper of the console is full, or a missing drive is
waited for.  That what should go on does go on is stated as liveness.

## Fairness

Only weak fairness is assumed: the processor goes on with the instructions of
the running thread, the periodic timer raises its line again, and its tick is
taken where it can be (not while an EOI is owed, so never while a task runs),
a drive that exists ends its commands, the firmware answers every call, and a
task calls the scheduler some day, as `task1` and `task2` do.  Keys, disk
errors, late answers, and the end of the firmware's list are never forced.

## Proofs

TLAPS checks 37 theorems in eight modules.  The constants are arbitrary, up to
one named assumption per module: `HeapConstants`, `PagingConstants`,
`PreemptionConstants`, `InterruptsConstants`, `ProcessConstants`,
`FatConstants` and `StorageConstants` are assumed where the constants are
declared, the others (`SchedulerConstants`, `KeyboardConstants`,
`ConsoleConstants`, `ConsoleSharedConstants`, `TimerConstants`,
`ElfConstants`, `FatMountConstants`, `FrameConstants`,
`BootConstants`) are hypotheses of the theorems.  They say that sizes are
positive, stacks at least four pages apart, disks, volumes and programs well
formed; the runs evaluate them all.  A leaf is tried with Zenon and then with
SMT (the `USE` at the head of a module); one that needs arithmetic, or records
and sequences Zenon does not know, names SMT itself.

- **MemoryProofs.**  `HeapInvariant`: `IInv` is the conjunction of the types,
  `HeapTiled`, `NoAdjacentFree`, `LiveSafe` (live pointers are just the
  payloads of the used blocks) and `HeapBacked`.  None is inductive alone: a
  merge keeps the tiling only because the list is in order of addresses, and
  `kfree` merges once on each side, which is enough only if no two free
  blocks were neighbours before.  The lemmas say what placing, extending and
  merging do to a well-formed list (`PlaceWF`, `ExtendWF`, `MergeWF`, and their
  `Coalesced` and `Owned` counterparts); `StepOK` has one step per action.
  `HeapTypeCorrect`, `HeapAlwaysTiled`, `FreeBlocksCoalesced`,
  `LivePointersOwned`, `HeapPagesBacked`, `LiveAllocationsDisjoint`,
  `LiveBlocksStable` and `AllFreedIsOneBlock` follow.
- **PagingProofs.**  `TablesStayATree`, `TranslationsNeverStale`,
  `TablesImplementTheSpace`, all for a pool on a page boundary (`OFFSET = 0`;
  without it they are false, see `table_alignment`).  `IInv` gives every table
  in use a level, and every one but the root a single parent, on the level
  above (`Levels`).  That a change to the entry of one page leaves all other
  walks alone rests on it: two walks that meet in a table have come the same
  way.  A call goes through the levels in stages (`Stage`), each of which
  either adds a zeroed table or ends the call; so the pool may run out between
  any two, with the tree and all walks as they were.  The tables of
  `paging_setup` are the base (`Levels` holds for any unwritten memory, as the
  page tables below the directory have their level whatever is in them).
- **SchedulerProofs.**  `NoTaskPassedOver`: the distance of a slot from
  `current_task`, in the order of the scan, bounds with `unseen` how long it
  has waited (`PassKeepsWaitDistance`).  `LoopEnds` shows the do-while loop
  stops after at most one round.
- **PreemptionProofs.**  `SchedulerNeedsNoLock`, `NoHalfAddedTaskRuns`: while a
  task runs, `kernel_main` is stopped inside `timer_callback`, so that the EOI
  is owed and no tick comes; hence only one thread is inside the scheduler
  (`Frames`, `Locals`).  `CallsAreAtomic`: the invariant `RInv` says how far
  the loop has come from the table it started with (`Scanned`, `Progress`), so
  that its last iteration is the atomic call of `Scheduler` and the ones
  before are stutters.  `NoTaskPassedOverByTicks` carries `NoTaskPassedOver`
  over along that refinement.
- **MachineProofs.**  `OnlyDeviceVectors`, `EveryEoiMatches`: `SetUp` says
  what has been programmed at each place of the initialisation, and
  `InService` that the vector in service is that of the one handler that has
  not sent its EOI, the active or the parked one.  `StubsAreTransparent`:
  above the frame of the processor the stack is, at every place of a stub, the
  pile of the words pushed so far and not yet popped (`Pile`, `StubInv`), of
  the values the registers had, whatever the handler does to those it may
  change.
  `FatCopyOwned`, `LayoutRecovered`: `DerivedRight` does the arithmetic of
  `fat_mount` on the boot sector of any well-formed volume; the rest is who
  owns the block `fs.fat` names.  That calling `fat_unmount` twice is harmless
  rests on the pointer being NULL after the first.
  `PmmFollowsTheRecord`: a signed record has address 0 for its map, where the
  loader left the table, and the magic number comes with a signed record only
  (`RecordInv`); the regions taken so far are the usable ones among the entries
  passed, each at its rank (`TakenSoFar`), and the sums are those of their
  lengths (`SumsSoFar`).  `Sums` is a recursive function on an interval; that
  it is one (`SumExists`, `SumUnique`) goes by a least counterexample
  (`NatMin`), as an induction rule cannot be instantiated.
- **ProgramProofs.**  `ProcessCountExact`, `StacksHaveOwnFrames`,
  `StacksStay`: stacks of different slots and of user mode are disjoint by
  their addresses (`TopsApart`, `StacksApart`), and every frame handed out is
  below the bump pointer, which only grows.  `LoaderGivesBack`,
  `SegmentsInMemory`: `ElfInv` has what is held at each place (`ElfPlace`),
  that a frame belongs to one page (`Mapping`), and that the segments behind
  the loop are in place (`Behind`); a later segment does not disturb them, as
  it writes to pages of its own only.
- **DriverProofs.**  `RingBufferIsAQueue`: the character `keyboard_getchar`
  has loaded is still the oldest one when it moves the tail; the handler moves
  the head only.  `CursorComesBack`: for every place in `console_putchar`, how
  far row and column may be out (`RowAt`, `ColumnAt`) and what the loaded
  values may be (`Loaded`), whatever tasks print.  `ConsoleIsATerminal`: the
  lines below the cursor are blank (`BlankBelow`), so that a new line on the
  screen is a new, empty line of the paper; a scroll moves the first line of
  the screen to the lines that are gone and leaves the roll (`Roll`) as it is.
  `SleepIsExact`: the subtraction modulo the size of the counter is the number
  of ticks slept, wherever the counter wraps (`SleepInv`), and none is counted
  for a task.
- **StorageProofs.**  `DriverKeepsProtocol`: what the drive may be doing at
  each place of a routine (`DriverInv`), and which drive `ata_init` is at.
  `ReadDeliversTheFile`: the cluster of the open file is the one of its
  position unless it has strayed (`OpenFile`), and the position is what was
  delivered from where the call began (`Reading`); `Waiting` ties the step of the file system to
  the sectors its driver has read.  `GivesUpOnErrorsOnly` follows from the
  same invariant.  `OpenFindsTheFile`: an entry shows a name of the form 8.3
  just when it is what `fat_name` makes of it (`NamesMatch`), and the clusters
  of the directory before the current one have neither the name nor the end
  (`LookupInv`).  `NoTurnInVain`, from the two: a turn of `fat_read` takes at
  least a byte (`Taken`), and one of `lookup_file_in_dir` moves on along the
  chain of the directory (`NextOnChain`), so that the turns are bounded.  It is
  the part of `CallsReturn` that needs no fairness, for every size.
  That a set of numbers has a least element, where a scan
  stops, is a hypothesis of the lemmas (`Minima`) and is discharged from the
  library, before the theorems (`NatMinima`).

Every safety property of the passing runs is proved.  Only model-checked are:

- liveness under fairness, which is out of the prover's reach: `MCTicksGoOn`,
  `TasksRun`, `MCTimerGoesOn`, `KeysArrive`, `CallsReturn`, `EveryKeyTaken`,
  `SleepReturns`, `MCBootGoesOn`;
- the seven violations.

## Not modelled

- **Boot stages 1 to 3 and the switch to long mode**, but for the memory map
  and the page tables: straight-line code with nothing running beside it.  What could be wrong in it are encodings, modes
  and constants, which a model would have to take for granted.
- **VFS**: `vfs.h` declares it and no file implements it.  Its calls are the
  nondeterministic outcomes of `Elf`.
- **Placeholders**: `fat_write`, `fat_readdir`, `fat_stat`, `process_yield`,
  `process_sleep` and `free_physical_page` have no effect.  `fat_opendir` fills
  in a handle that nothing can read from, and `fat_tell` returns a field.
- **`process_switch`**: only what it does to the table; its registers go
  through `context_switch` on another structure than `ContextLayout` is about.
- **`test.c`** and `test_program.asm`: straight-line calls of what is modelled.
- **`port_io.h`, `vga.h`**: single instructions and constants.

What is left of the source has no state that outlives a step and no order of
events to choose from, so that a model of it would repeat the code.
