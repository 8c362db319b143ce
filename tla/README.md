# A TLA+ development of lbos

lbos is a small x86 kernel ("Little OS"): it boots from multiboot with a user
program and an initial ram disk as modules, runs that program in user mode with
`fork`, `exit`, `wait` and `printf`, preempts with the PIT, and offers a virtual
file system with a read-only initrd behind it.  This directory holds TLA+ models of
the parts of it that have behaviour, the TLC configurations that check them and
proofs that TLAPS checks.  File and line references below are relative to `src/`.

Contents

1. The system: components, state, operations, interactions
2. What is hard in it
3. The modules and how they correspond to the code
4. The runs: what each checks and shows, bounds, fairness, deadlock
5. The proofs
6. Disagreements between the code and what it says of itself
7. What is not modelled

## 1. The system

| Component | State it keeps | Operations | Correct means |
|---|---|---|---|
| Process manager, `mem/process.c`, `switch_asm.s` | `process_table` (state, pid, parent, link, context), `next_pid`, `current_process`, `ready_queue_head` | `create_process`, `allocate_pcb_and_pid`, `schedule`, `switch_to_process`, `get_zombie_process_for_parent` | the queue holds ready processes and no cycle; what executes has its own address space and kernel stack; nobody is dispatched twice; little is lost to an interrupt |
| System calls, `arch/x86/syscall.c` | none of its own | `fork`, `exit`, `wait`, `printf` | a child has a fresh pid and a parent that exists; zombies are reaped by their parent; results reach the caller |
| Interrupt dispatch, `interrupt.c`, `interrupt_asm.s`, `idt.c` | `interrupt_handlers`, the IDT, a frame on the kernel stack for each interrupt under way | the stubs, `interrupt_handler`, `register_interrupt_handler`, `idt_init` | the handler of the vector is called with its arguments; whoever was interrupted goes on as it was |
| 8259 driver, `pic.c` | in the chips: vector base, mask, requests and lines in service | `pic_init`, `pic_mask`, `pic_acknowledge` | a line comes through its own vector; every line served is acknowledged, and only it |
| Timer, `pit.c` | the divider | `pit_init`, `pit_set_interval`, `pit_handler` | it ticks at the interval asked for; the current process is preempted, again and again |
| TSS, `tss.c` | `esp0` | `tss_init`, `tss_set_kernel_stack` | `esp0` is the kernel stack of the process that executes |
| Page frame allocator, `page_frame_allocator.c` | `frame_bitmap` | `alloc_frame`, `free_frame`, `page_fault_handler` | no frame has two owners, none is lost |
| Paging, `paging.c` | page directories and tables | `create_page_directory`, `map_page` | address spaces share nothing but the kernel |
| VFS, `fs/vfs.c` | `mount_points`, `num_mount_points`, `path_buffers`, `device_buffers` | `mount_fs`, `unmount_fs`, calls by path, calls by descriptor | it is a table from paths to file systems; a call goes to the nearest mount above its path |
| Initrd, `fs/initrd.c` | `initrd_header`, `initrd_data`, the static `current_file`, the callers' descriptors | `init_initrd`, open, read, seek, readdir, refusing ones | the bytes read are those of the file, in order; a listing has every name |
| Image tool, `tools/create_initrd.c` | the header it fills | `add_file`, `main` | every file is where its header entry says |
| User program, `app/` | where in `main` each process is | `main`, the call stubs | the branch taken is the one for the value `fork` returned |
| Kernel main, `kmain.c`, `loader.s` | - | boot, the loop over the modules | the first module becomes the process, another the root file system |
| Log and serial port, `lib/log.c`, `drivers/serial.c` | in the UART: divisor, FIFO, bytes not sent yet | `log_init`, `log_write`, `serial_write`, `serial_write_byte` | no byte written is lost; no wait for the UART is for ever (ticks that are slower to log than to come may still starve the line they cut) |
| GDT, frame buffer, strings | constants | - | encodings |

How they interact.  `kmain` initialises everything with interrupts disabled, makes
a process of boot module 0 and mounts later modules, then executes `sti` and calls
`schedule()`, which enters the process and never returns to `kmain`.  From there on
the kernel is entered only through gates of the IDT: `int 0x80` from the process,
faults, and the timer.  `pit_handler` calls `schedule()` as well.  Everything below
the gates shares one table, one queue and one `current_process`, without locks.  The
gates are *trap* gates (`idt.c:225`), so entering the kernel does not disable
interrupts: the timer can cut the kernel at any instruction after `sti`.  The VFS
reaches the initrd through `fs_ops_t`, and only `kmain` calls the VFS.  Everything logs, handlers
included, by polling the UART, so a log line is where an interrupt most often finds the kernel.

## 2. What is hard

* **Interrupts inside the kernel.**  `schedule()` and `sys_fork` change the queue
  and the table in several stores.  A tick between any two of them enters
  `schedule()` again, and when it switches it does not come back: neither the
  registers of the interrupted process nor those of the interrupted kernel code are
  saved anywhere.
* **The missing acknowledgement.**  `pit_handler` schedules first and acknowledges
  after; a switch skips the acknowledgement, so the timer stays in service and the
  first preemption is the last.  This decides nearly everything else: it bounds what can be
  lost.
* **Calls that do not block or do not arrive.**  `sys_wait` returns at once,
  `sys_exit` may return into the process it terminated, and no result reaches the user.
* **Allocation with no way back.**  Failures half-way through `fork` or
  `create_process` give up the slot and leave the rest.
* **Frames that are half built.**  The entry code builds the arguments of its handler on
  the kernel stack with interrupts enabled, differently for each kind of vector and ring; the
  next interrupt may find any prefix of it.
* **A device that answers late or never.**  The log polls the UART a bounded number of times
  and then goes on; what it read is old when it writes, if an interrupt logged in between.  With a
  UART that never sends, a tick's line takes longer than a tick.
* **Handlers that fault.**  A system call faults on the caller's memory, in the middle of a log
  line too, and `page_fault_handler` itself on a frame or table the kernel has not mapped.
* **Pointers into moved buffers** in the mount table, and **state shared by
  descriptors** in the initrd.

`PROJECT.json` lists every hazard at its line, with the properties that would
notice it.

## 3. The modules

    Pic  <--  Interrupts  <--  Interrupts_proofs
     ^ ^--  Console  <--  Console_proofs
     |
     +------  Process  <--  ProcessDispatches  ==refines==>  Dispatcher
                 ^             ^
                App  <--  Process_proofs

    AddressSpace  ==refines==>  UserMemory
     |  ^-- AddressSpace_proofs
     +-- steps of Dispatcher (INSTANCE): who has the CPU

    Vfs  ==refines==>  MountTable            Initrd  ==refines==>  FileReader
     ^  ^                                     ^   ^   (InitrdImage: the tool, beneath)
     |  Vfs_proofs                            |   MCInitrd, Initrd_proofs --> InitrdImage_proofs
     +------------------  Boot  --------------+                                   |
                         ^   ^                                                    |
                    MCBoot   Boot_proofs  ----------------------------------------+

**Pic** is the master 8259 as the code depends on it: the lines requested (`irr`)
and in service (`isr`).  `Acknowledged` is `pic_acknowledge`: a non-specific end of
interrupt, which clears the highest line in service, whichever that is.  The chip is
external; the masks `pic_init` writes leave the timer and the keyboard.

**Interrupts** is the way into the kernel and out of it.  `interrupt_init` is the sequence of
bytes it writes (`Writes`), executed one by one (`Write`) on models of the two 8259s, the IDT and the
timer, from the state the BIOS leaves.  From `sti` on the entry code is executed instruction by
instruction: `Stub(v)` and `switch_to_process` are the texts of `interrupt_asm.s` and
`switch_asm.s`, `eip` a place in them, `kstack` the words of the kernel stack, `reg` the registers
(of the seven in `cpu_state_t`, its last `N`); `Push`, `Pop`,
`Iret` and so on are the instructions.  `interrupt_handler` and what it calls is compiled code, which
leaves the registers as it likes (`Begin`) and then does what its handler does to the CPU: `Switch`,
`Acknowledge`, `Return`, `Halt`.  User code raises the exceptions `Faults` and executes `int n` with any
`n`; the kernel raises page faults: a system call on the caller's memory, and `page_fault_handler` on the
frame or table it has just taken.  The latter is a fault at a kernel address, which its handler
(`OfHandler`) logs before it halts, interrupts enabled.  `saved` remembers, for the properties only, the CPU as it was when each
interrupt came.  What the handlers do to the process table is left to Process; here `Switch` enters a
new process, up to `LastProcess` of them.

**Console** is `log_write` over `serial_write`.  A line is the sequence of the pieces it is
written in, a piece its number of bytes; `calls` is the stack of log calls under way, the last one
executing: `Poll`, `Out`, `Drain`, `Return`.  `Process` (a system call, a page fault, another
exception), `PitHandler` and `InterruptHandler` are those who begin a line, the latter two inside another one.
`Strlen` is where `sys_printf` reads the user's string: each page that is missing puts the lines of
`page_fault_handler` inside its own.  `FaultDecides` is what that handler does between its lines: it maps a
frame (of `frames`) and says so, halts, or faults itself.  `schedule()` and the system calls that
log several lines in a row are one line, as nothing but who comes next depends on their number.  The UART (`Data`, `Send`) holds bytes in a
FIFO once that is enabled and sends them at its own pace; `Takes` says that a byte written now would find room.

**Process** is the core: process table, ready queue, `schedule()`, the system calls
and the timer on one CPU.  A variable per field of `process_t`
(`state`, `pid`, `parent_pid`, `next_in_ready_queue`), the globals under their names,
`esp0` and `cr3` for what the TSS and the CPU hold, named by the process they belong
to, `pc` for what the CPU executes, and `child` for the slot `sys_fork` is filling.

| Code | Actions |
|---|---|
| `kmain` up to `schedule()` | `KmainCreate`, `KmainCreateFails`, `KmainNoModule`, `KmainStops` |
| `schedule()`, called by `kmain` and `sys_exit` | `SchedNone`, `SchedTake`, `SchedPop`, `SchedRun`, `SchedTss`, `SchedSwitch`, one per store |
| `sys_fork` | `SysFork`, then `ForkCopied` or `ForkNoMemory`, `ForkReady`, `ForkLink`, `ForkPush` |
| `sys_exit`, `sys_wait` | `SysExit`, `SysWait` |
| fault handlers | `Fault` |
| `pit_handler` | `TickReturn`, `TickSwitch` |
| `interrupt_handler`, vector without handler | `KeyIgnored` |

The stores another context can observe are steps of their own; the timer can fall
between any two.  Stores of one step that no tick can tell apart are one step: pid and
parent of a slot that is still FREE (`SysFork`), and the whole of a timer handler, which
no line can interrupt while the timer is in service.  `SysWait` is one step because a
tick inside it abandons the call and what it still had to store belongs to a slot
nobody reads; it never finds a zombie (`WaitFindsNoZombie`).  The memory a fork
needs is its outcome: enough, a frame short (`ForkNoMemory`), or a fault in the kernel
(`Fault` at `fork_mem`: frames beyond what the kernel has mapped).

**Dispatcher** is what the process manager promises, with neither table, list nor
control points: numbered processes, the newest waiting one dispatched when the CPU is
given up, one forced dispatch that forgets every process newer than its choice.
**ProcessDispatches** holds the mapping: a process popped by `schedule()` and
not yet entered still waits; the process on the CPU is the one whose address space is
loaded; a child being filled does not exist yet.

**App** runs the one user program of the repository on Process.  The control
state of `main()` per process (`upc`) and the value each call returned in the kernel
(`result`).  `UserEax` is what the program finds in `eax`, and so is where the result is lost.
The one program calls `fork` once per process, so a fork finds a slot whenever the table has
three or more.

**AddressSpace** is the memory of processes: the page frame allocator, page directories and
tables, and everything that fills them.  `frame_bitmap` is the set of frames whose bit is set;
`mem` says what each frame holds, as data and as a table, because the same frame is
one or the other only by how it is used; `cr3` is the directory of each process; `task` is
the allocation under way for the process on the CPU, `halted` the loop of a fault handler.

| Code | Actions |
|---|---|
| `create_process`, `sys_fork` and `page_fault_handler` begin | `CreateProcess`, `SysFork`, `PageFault`, `Violation` |
| `create_page_directory` | `CreatePageDirectory` |
| `alloc_frame` for a page, with the copy of `sys_fork` | `TakeFrame` |
| `map_page` | `MapTable` (a new page table), `MapEntry` |
| the copy or `memset` afterwards | `FillPage` |
| the end of each | `Finish`, or `OutOfMemory` and `KernelFault` inside the steps above |
| stores of the process | `Store` |
| `sys_exit`, `schedule`, ticks | `SysExit`, `ExitReturns`, `Schedule`, `Preempt` |

A step ends where a tick makes a difference, after a bit is set or an entry written; inside
`alloc_frame` it makes none, because whoever is interrupted there never comes back and the bit
of the frame found is set by whoever comes first.  Who has the CPU is not modelled again: the
steps that change it are those of **Dispatcher**, which the process manager is proved to
implement.  **UserMemory** is the promise: each process has a memory of its own, a
program or a copy of its parent's at the fork, zero elsewhere, changed by its own stores only.

**Boot** is `kmain` from the multiboot information to `schedule()`.  It composes Vfs and
Initrd: each call `kmain` makes is a step of Boot which contains the step of Vfs (the lookup, the mount)
and the step of Initrd (the operation) that the call makes, on one set of variables.  Its own state is
where `kmain` is (`pc`, the loop index `i`, `test`) and what it has logged (`shown`).  Interrupts
are disabled, so nothing interleaves; what is hard is the modules: missing, damaged, several,
without a command line.  **MCBoot** lists the images.

**Vfs** is the mount array with its string buffers; `mount_points[i].path` is the
*index* of the buffer pointed to, so that the code's mixture of moved pointers and moved strings
is kept.  A path is the sequence of its components.  `reached` records
which file system a call by path went to.  **MountTable** is the promise: a function
from paths to file systems and calls to the nearest mount.

**InitrdImage** is the image tool: `create_initrd` is its `main`, `Offset`, `Files` and `Data`
the layout `add_file` makes.  **Initrd** has the driver as actions.  A byte is a pair of the input it comes from and its place,
so a wrong byte is visible.  **FileReader** is the promise: immutable files,
descriptors that deliver their bytes in order.  **MCInitrd** lists the modules TLC
is given: images with an empty file, with two files of one name, without files, one
found only by its magic number, one damaged, and a module that is no image.

## 4. The runs

| Run | Specification and bounds | Checks | Shows |
|---|---|---|---|
| `process` | `ProcessDispatches` with `FairSpec`, 4 slots, pids to 5 | `IInv` and six invariants, four action properties, `ImplementsDispatcher`, `KernelFinishes`, `TimerDrains` | consistency under arbitrary processes and ticks; no call is caught in the kernel; a ready process gets the CPU |
| `interrupts` | 2 processes, 2 of the 7 registers, 1 late tick, 12 exceptions, `int n` for every `n` | `HandlerArguments`, `OwnVector`, `NestingBounded`, `IntervalAsAsked`, `ContextRestored` | the way into the kernel and out of it |
| `console` | `FairSpec`, 2 attempts, a FIFO of 3, pieces of 1 and 2 bytes, 1 page to map; ticks and lines without bound | `EveryByteTaken`, `TickInOnePiece`, `CallsEnd` | log lines cut by log lines, with a UART slow or dead |
| `app` | `App` with `AppFairSpec`, 4 slots | `TwoEverRun`, `ProgramEnds` | two processes at most ever execute, and the program ends |
| `app_report`, `app_child` | `App` | one property each, violated | section 6 |
| `vfs` | 3 mounts, 7 paths of depth up to 2, 2 file systems | `VfsTypeOK`, `EntriesNamed`, `ImplementsMountTable` | the mount table, for callers that unmount last-in first-out |
| `vfs_duplicate` | 3 mounts, 3 paths | one property, violated | section 6 |
| `initrd` | 6 modules, 2 descriptors, reads and seeks of 0 to 2 | `TypeOK`, `RoundInOrder`, `StaysInside`, `ImplementsFileReader` | reading and listing |
| `initrd_listing` | the same, reads of up to 1 | one property, violated | section 6 |
| `memory` | 19 frames of which the kernel maps 13, tables of 2 entries, a program of 2 pages, 3 processes | `TypeOK`, `OneUse`, `FramesAccounted`, `HaltsBeforeExhausted`, `ImplementsUserMemory` | frames, and isolation of address spaces |
| `boot` | up to 3 disks of 6 kinds, a buffer of 3 bytes | `TypeOK`, `ShowsFirstDisk`, `BufferFits`, `KmainFinishes` | what `kmain` makes of its modules |

**The process properties.**  `QueueOK`: the list from `ready_queue_head` holds READY
processes, newest first, hence no cycle, wherever a tick cuts `schedule()` or
`sys_fork`.  `CpuAgrees`: what executes has its own address space and kernel
stack.  `LostOnlyToTimer` and `LostOnce`: a process that waits for ever was lost to
the one preemption, at most one that ran and one that was about to.
`WaitFindsNoZombie`: a child runs only after its parent left the CPU for good, so
`sys_wait` never reaps, and hence (`SlotsNeverRecycled`) the table is used up.
`ParentsIdentified`: `get_zombie_process_for_parent` cannot mistake a parent.  `NeverResumed`,
`NeverAcknowledgedLate`, `LastPreemption`: what a step may never do.  `ImplementsDispatcher` sums
these up as a service.  They describe the kernel as it is, including what
one would rather have otherwise: a scheduler that saved contexts
would falsify `NeverResumed`, and one that acknowledged first, `LastPreemption`.

**The entry properties.**  `ContextRestored`: whatever comes between whichever two
instructions, an `iret` of a stub gives back the registers, the place and the stack of whoever
was interrupted, and the one of `switch_to_process` enters the process with its own.
`HandlerArguments`: `cpu_state_t`, the vector, the error code and `eip` are where
`interrupt_handler` looks for them, for vectors with and without error code, from user mode
and from inside the kernel (a page fault of a system call or of `page_fault_handler`).  `NestingBounded`: a
system call, its page fault, the one `page_fault_handler` meets in turn, a key and a tick are the most that is
stacked up on one kernel stack, because the handler of the second fault does nothing that can fault, the timer is not
acknowledged before its handler ends and a key is never acknowledged; each tick raised while one is
handled (`late`) may add one, as it arrives between the acknowledgement and the `iret`.  `OwnVector`: after `sti`
no line comes through the vector of an exception; in particular the second controller,
whose initialisation fails, has all its lines masked.  `IntervalAsAsked`: what the
timer counts, put together from two bytes, is 10 ms to within one count.

**The console properties.**  `EveryByteTaken`: no byte written is lost for want of room, even
where an interrupt wrote a line between the poll and the byte.  Bytes are lost only by not being
written, when a wait is given up, and a line whose waits all ended has no hole.  It holds because
each line waits for the UART to be empty before each of its bytes, so that a line given up
leaves at most one behind.  Five lines can be one inside the other, but the two that `page_fault_handler` cuts
have no byte pending then, so three places are enough.  `TickInOnePiece`: nothing is written inside the
line of `pit_handler`.  `CallsEnd`: whatever the UART does, the line of `pit_handler` ends, and its acknowledgement
comes.  Every other line ends as well, or its handler halts, *if* ticks leave the CPU time for it
(`TicksLeaveTime`).  The code does not see to that: with a UART that never sends, the 26 or so waits of a
tick's line take longer than 10 ms, the next tick is pending when `pit_handler` acknowledges, and what it cut
does not execute again until `schedule()` finds somebody to switch to.

**The memory properties.**  `OneUse`: wherever a tick cuts a fork, a creation or a page
fault, no frame has two uses, those of dead and abandoned processes included.
`FramesAccounted`: what is allocated is in use until a preemption or a kernel fault.
`HaltsBeforeExhausted` explains why two defects stay without effect.  The kernel
maps 4 MB only, so it faults on the first frame beyond that it touches.  At most four
such frames are ever taken: two by the task that faults and two by one that is
preempted.  So `alloc_frame` never returns 0, the silent return of `map_page` never happens,
and the words of `frame_bitmap` past the quarter that was cleared (`frame_bitmap` indexes words
where it means bytes) are never looked at.  `ImplementsUserMemory` includes that a page is
never seen with what its frame held before, although `page_fault_handler` clears it after mapping it.
It depends on `ModuleAssumption`: the frames of boot modules are not reserved, and a module
less than three frames past the bitmap is overwritten before it is copied.

**The boot properties.**  `ShowsFirstDisk` follows bytes from the files given to the image
tool through `init_initrd`, mount table, descriptors and `initrd_read` to the log.  With a second disk
`init_initrd` replaces the image under the mount, which `mount_fs` then refuses; the property
says that this comes too late to be seen.  An image with a bad magic is mounted all the same
and reading from it halts the machine before any process runs.

**Bounds.**  `MaxProcesses = 4` gives the longest chain that matters: a process that
exited, one preempted, one lost in the hands of the kernel, and one still queued or
FREE; 3 under fairness leaves a table that can be full.  `MaxPid` exceeds the number of
slots, so that failed forks use pids up and slots are tried twice; it bounds the number of
creations in a run and nothing else, and the proofs do without either bound.  Three
mounts are the fewest for which an unmount moves two entries and a stale pointer can
survive a further move; depth 2 nests mounts under mounts; two file systems are enough
to see a call reach the wrong one.  Two descriptors interleave two listings; three
files with sizes 2, 0, 2 put an empty file between offsets, and reads of
0, 1 and 2 end before, at and past the end.  Thirteen
mapped frames end in the middle of the third process on every path, so the limit is met in a
creation, in forks and in page faults; the six beyond leave two more than the four that are
taken (32768 and 1024 in the code, and 8192 bits cleared).  Tables of two entries put the
program's two pages in one table and the rest in another.  Three disks are one more than
the second that replaces the first; a buffer of 3 is met by files of 0, 2 and 3.  The pids 2^32 are far out of reach of a
table that is never recycled, so integers are unbounded there.

Of the general registers two are followed (`N = 2`: `eax` and `ebx`, which are pushed first); the
other five are pushed and popped inside them, and the proofs are for any `N` up to all seven.  `Faults` of the
run are the exceptions a user program can raise on such a CPU (`int n` raises 13 or is the system call) and one of the reserved stubs
declared with an error code (30); the proofs are for all exceptions except 21 and 29 (section 5).  One late tick gives the deepest nesting
that is different in kind; with more of them nothing bounds the kernel stack.  That takes a handler that
needs more than 10 ms, which a dead UART makes of `pit_handler`.

A 16550 has 16 places in its FIFO where the run has 3; with 2 `EveryByteTaken` fails.  A key comes
once, for it is never acknowledged; ticks, system calls and faults come without end.  Two
attempts stand for 1000: one that is not the last, and the last.  Pieces of one and of two bytes (`Long = 2`) have a
first and a last byte that are the same and that differ; the text of a line, written byte by byte, is more
pieces of one (`Text = 0` leaves the line feed).  `Frames = 1` lets `page_fault_handler` map a page
and then be without; it bounds the page faults inside one `strlen`, which the frames of the machine bound.

**Fairness.**  `Fairness` of Process is weak fairness of `KernelStep` (the CPU executes
kernel code; nothing in it waits), of `Tick` (the 8259 interrupts a CPU whose interrupts
are enabled) and of `RaiseLine(Timer)` (the PIT is periodic).  Processes are promised
nothing: they may compute for ever, and keys may never be pressed.  `AppFairSpec` adds
that a program that is not interrupted executes its next step, which is the CPU again.
Boot assumes that the CPU executes `kmain`, and Console that it executes the kernel (`Kernel`); of
the UART it assumes nothing.  `TicksLeaveTime`, strong fairness of what is not `pit_handler`, is no
assumption of Console but the hypothesis of one half of `CallsEnd`.
`TimerDrains` is stated with its escape (`Timer \in isr`) because after one preemption
there is no more: the code justifies nothing stronger.

**Deadlock.**  `CHECK_DEADLOCK FALSE` stands in the process and App configurations
because there the machine may really stop: halted before `sti` (`KmainStops`) once both lines are
pending, or halted with the timer in service; in AddressSpace, where everyone may be halted or
lost; in Boot, which ends in `schedule()`; in Interrupts, where a fault handler halts; and in Console, where one halts with both
lines raised and in service.  The Vfs and Initrd runs check for deadlock.

**Refinement under a condition.**  `ImplementsMountTable` is asked of steps as long as
callers unmounted in the reverse order of mounting (`lifo`); without the condition it is
false, which is the finding of `vfs_duplicate`.  `ImplementsFileReader` and `RoundInOrder` are
asked of runs with one module given to `init_initrd` (`given`), which is what `menu.lst`
loads; `StaysInside` and `TypeOK` are asked of all.

## 5. The proofs

Proved by TLAPS for all values of the constants, from the assumptions their modules state:

* Process, App: `MaxProcessesAssumption` (at least one slot), `MaxPidAssumption`, `NullAssumption` (NULL is no
  slot);
* AddressSpace: `FramesAssumption` (the kernel maps the frames it reserves, and not all there are),
  `EntriesAssumption`, `ModuleAssumption` (the program's pages are user pages in one page table, and its
  module lies three frames or more past the bitmap), `PidsAssumption`, `NoFrameAssumption` and
  `NoTaskAssumption` (NULL is no frame and no task);
* Interrupts: `InterruptsAssumption` (up to seven registers are followed; user code raises any exceptions
  but 21 and 29, which belong to CET and to SEV-ES: `cr4` and a hypervisor would have to enable
  them, and the kernel sets `PSE` only, `paging.c:26`);
* Console: `ConsoleAssumption`, above all a FIFO of at least 3 bytes;
* Vfs: `MaxMountsAssumption`, `MaxDepthAssumption`, `VfsNullAssumption` (NULL is neither a file system nor a path);
* Initrd: `ModulesAssumption` (inputs are finite sequences of files that have a size), `MaxReadAssumption`,
  `InitrdNullAssumption` (NULL is no inode), `ReaderNullAssumption` (nor a list of files, a descriptor or data);
* Boot: `BufferAssumption`, `ImagesAssumption` and `BootNullAssumption`, the same of its own images and NULL;
  `TempAssumption` (the image `init_initrd` builds itself is no module).

| Module | Theorems |
|---|---|
| `Process_proofs` | `Invariance` (`Spec => []IInv`) and from it `TypeCorrect`, `QueueCorrect`, `CpuCorrect`, `WaitNeverReaps`, `OnlyPreemptionLoses`, `PreemptionLosesLittle`, `FamilyCorrect`; the action properties `DispatchedOnce`, `TableIsUsedUp`, `LinesStayInService`, `PreemptedOnce`; `ProcessImplementsDispatcher`, the whole refinement of Dispatcher; for App `ProgramOnKernel` (the program's behaviours are the kernel's), `ProgramInvariance`, `NeverMoreThanTwo` |
| `AddressSpace_proofs` | `SpaceInvariance` and from it `SpaceTypeCorrect`, `FramesHaveOneUse`, `NoFrameIsLost`, `HaltsInTime`; `MemoryIsPrivate`, the whole refinement of UserMemory |
| `Interrupts_proofs` | `SetupInvariance`, `LinesKeepTheirVectors`, `TimerIsSet`; `EntryInvariance`, `ArgumentsInPlace` and, as an action property, `InterruptedGoesOn`; `InterruptsInvariance`, `StackNeverDeeper` |
| `Console_proofs` | `LogInvariance`, `NoByteIsLost`, `TickLinesWhole` |
| `Vfs_proofs` | `VfsTypeCorrect`, `EntriesAreNamed`; `MountsAsPromised`, the refinement of MountTable under `lifo` |
| `InitrdImage_proofs` | lemmas on what `create_initrd` lays out, above all `DataLaidOut` |
| `Initrd_proofs` | `InitrdInvariance`, `InitrdTypeCorrect`, `ListedInOrder` and, as an action property, `NeverPastTheEnd`; `ReadsTheFile`, the refinement of FileReader |
| `Boot_proofs` | `BootInvariance`, `BootTypeCorrect`, `BufferSuffices`; `ShowInvariance`, `FirstDiskShown` |

**The argument for Process.**  None of the properties is inductive alone.  That the
queue has no cycle rests on every link leading to a smaller pid (`LinksOK`), also the link of a
slot that is no longer queued, which rests on pids being handed out in
order (`PidsOK`).  That a tick in the middle of `schedule()` leaves things consistent
needs what each control point knows (`SchedOK`, `ForkOK`): at `"run"` the current process is READY
and off the queue, at `"fork_push"` the child's link is the head, and so on.
`WaitFindsNoZombie` needs that no process that was ever dispatched is a child of the current one
(`FamilyOK`): a dispatch never goes back, and a child is dispatched after its parent has left.
`LostOnce` needs that a tick can switch once only, which is `LostOnlyToTimer` with the fact
that a line in service cannot be delivered.  `IInv` is the conjunction; TLC checks it in
run `process`, and `Process_proofs` shows that each action keeps it, one lemma per group of
actions.  The ready queue is defined as the least linked set of slots, not by recursion
along the list; the lemmas `Queue...` state what popping, pushing and relinking do to it.

**The refinement.**  `HandInv` adds that the CPU is free whenever `schedule()` has chosen a
process and that the process popped is newer than all that are queued.  Then `SchedSwitch`
maps to `Yield`, `ForkPush` to `Create`, `ForkNoMemory` and a `Fault` in `fork_mem` to
`Fail`, `TickSwitch` to `Preempt`, every other step to a stutter.

**The argument for App.**  A step of the program is a step of Process or one it does not see
(`StepIsProcessStep`), so `IInv` is there for the taking.  The program finds the number of the call in `eax`,
never 0, so nobody takes the child's branch and nobody exits (`ProgramOK`).  Then whoever was
dispatched is on the CPU or was lost to the preemption, and by `LostOnce` that is two at most.  Each calls
`fork` once, so three pids are given out (`PidsUsed`), which keeps `next_pid` within its bound.

**The argument for AddressSpace.**  Directories, tables and pages are reached by links of one form,
`Link(p, i, j)`: without an index the directory of `p`, with one a table, with two a page.  No two links end in
one frame (`Distinct`), and links end in frames whose bits are set (`Allocated`).  A tick may abandon a
task between the bit and the link, so `HandOK` says what the frame in hand is: linked by nobody
before its entry is written, by that entry only afterwards.  Bits are set from the lowest up
(`InOrder`).  Hence the frame in hand is the highest one as long as its page table is missing, and the
table comes from above it: a page whose frame the kernel can touch is always mapped when `FillPage` is reached.
Beyond what the kernel has mapped a task takes its frame in hand and, on the second, faults: two until it
halts, two more around the one preemption (`BeyondBounded`, by counting).

**The refinement of UserMemory.**  A page of a process is a page of its memory once it is filled
(`Datum`).  `DataOK` says what tasks have done so far: pages no longer to do hold the program (`CreateData`) or
what the parent has (`ForkData`).  For the program this takes that the module is intact where it has yet to be
copied: `create_process` has taken fewer frames than it has read pages, plus three (`FramesTaken`,
`ModuleIntact`), which is where `ModuleAssumption` is needed.  Then the end of each task is the one step
UserMemory sees, a store is a store, and since no two links meet, it changes one page of one process.

**The argument for Interrupts.**  `SetupOK` follows the two controllers, the IDT and the timer through
the bytes of `interrupt_init`: which word each expects, and what it holds from there on.  After `sti`, `Nested` describes the kernel
stack as the contexts interrupted, one inside the other.  Each is related to the one that
interrupted it (`Handles`): the stack is its own, then the words the CPU pushed (`EntryOK`), then as much of
`cpu_state_t`, vector and error code as the stub has pushed and not yet popped (`FrameOK`, `StubOK`), or all of it under
the handler's return address (`HandlerOK`); the registers not yet pushed, or popped again, are the interrupted ones.  That is
inductive: an instruction changes the innermost context, an interrupt adds one, an `iret` removes one.
`switch_to_process` drops all of them; `SwitchesOK` says that it still enters the newest process.
`LinesOK` and `FaultsOK` are about depth.  A tick that is not acknowledged keeps the timer in service, hence there is
one at most; a key is one because its line is never acknowledged; a tick after its acknowledgement is
still on the stack when the next one comes, but `late` has counted that one.  What is neither tick nor key is raised
by user code, by a system call or by the handler of a page fault that is not its own: the lowest
on the stack, the next and the third, so there are three at most (`SynchronousFirst`).

**The argument for Console.**  `Nested` says that calls of the log come in one order on the stack: what a process
raised, the page fault of a system call, the one of `page_fault_handler`, a key's and a tick's; five at most, as the latter two
have their line in service.  A call that a page fault cut is between two bytes.  `BytesFit`: the bytes in the
UART, plus one for every call that has seen it empty and has not written yet, are three at most.  A
call sees the UART empty before each byte, so it never counts twice.

**The argument for Vfs.**  After an unmount pointers and strings disagree, but every
pointer is at or above the place of its entry and every buffer up to it was once written
(`EntryOK`).  Moving entries down keeps the first, moving strings down fills buffers
from written ones only.  Under `lifo` the entry removed is the last, so nothing moves and every pointer names the
buffer of its place (`LifoOK`); the mapping to MountTable then reads one path per entry.

**The argument for Initrd.**  `InitrdIInv` adds to the types that a listing is empty before the first
module is given, so that discovering an image puts nothing out of order, and that a descriptor, once
opened, is a record of inode, position and type.  `NeverPastTheEnd` needs the size of the file to be a number, which the header
gives only for an inode it lists (`ValidFile`). 

**The refinement of FileReader.**  What `add_file` writes is where it says (`DataLaidOut`): byte `k` of a file is byte
`Offset + k` of the image, which takes that the loop over the sizes and the appending of the data go over the files
together.  The library's induction takes a predicate, which no prover here instantiates; `UpTo` is the induction over the
files as a fact about *sets*, from the least element that is not in one.  From it the loops are well defined
(`OffsetDefined`, `FlattenDefined`), and their steps (`OffsetSteps`, `FlattenSteps`) are what the layout is proved
from.  `ReaderIInv` adds that nothing is open before the first module and that with one module no descriptor is past
the end of its file; then what `initrd_read` copies is the `SubSeq` the abstract read delivers (`ReadDelivers`),
and every other call is a step of FileReader or a stutter.

**The argument for Boot.**  `ListOK` keeps the length of the list of modules, so the index is one of it
wherever a module is looked at.  A file about to be read (`Opened`) is listed in the image in use, which is not replaced
between the open and the read, stands at its beginning and was found to leave room; a read delivers no
more than its size.

`ShowsFirstDisk` compares what is logged with a promise made from the modules alone.  `ShowIInv` says how
far the two are at each call of `kmain`, in four phases.  `Before` a disk is found nothing is mounted,
discovered or logged, and the index has not passed the first one.  Once `init_initrd` is called for it
(`Provided`) the image in use is its image.  While it is shown (`Showing`) that image stays in use, the mount table
holds "/" and nothing else, and the log is the listing up to `current_file`, or the whole listing and
the files of the tests done so far (`Logged`); before a read, the descriptor stands for the first file of that
name.  `After` that all that was promised is logged, and `mount_fs` refuses "/" to
every later module, so nothing more is read, although `init_initrd` does replace the image in use.
A bad magic leaves `initrd_data` NULL, and the first test that has a byte to read halts with the
log as it is.  The phases are needed because the property alone does not tell where `kmain` is or which image it reads;
that the data read are the file's is `DataLaidOut` again.  TLC agreed that `ShowIInv` holds before it was
proved.

**Only model-checked.**  Liveness (`KernelFinishes`, `TimerDrains`, `ProgramEnds`, `KmainFinishes`,
`CallsEnd`), which needs fairness and ENABLED and is beyond the prover.  Every invariant, action property and
refinement of a passing run is a theorem.

## 6. Disagreements

* `app_report`: `syscall_interrupt_handler` stores the result in a copy of the registers
  (`syscall.c:61`), the caller's `eax` keeps the number of the call, and the program
  reports an exit of a child (`app/main.c:21`) that did not happen.
* `app_child`: a forked child starts `main` again and takes the branch of the parent;
  `app/main.c:11` and `syscall.c:153` mean it to find 0.
* `vfs_duplicate`: after unmounting the first of three mounts two entries have one path;
  `mount_fs` means paths to be distinct (`vfs.c:28`).
* `initrd_listing`: two overlapping listings each get part of the names (`initrd.c:175`,
  against `kmain.c:49`).

Others have no run of their own.  `interrupt_asm.s:77` and `:85` declare the stubs of vectors 21 and 29 without an
error code ("reserved"), but CPUs have since given them one: their handlers would find the vector in its place.  No
program can raise them here, and `InterruptsAssumption` leaves them out.  `pic.c:15` says that lines 8 to 15 "will be remapped to IDT index
40 - 47", and they are not.  `PIC2_ICW1` is 0x20 (`pic.c:12`), which the second controller takes for
an end of interrupt, so it takes the words that follow for masks and keeps the vectors of the
BIOS.  In Interrupts `pic2.base` stays 112.  Nothing comes of it while its lines are masked (`OwnVector`).
Likewise `serial_configure_baud_rate` writes both halves of the divisor to one port
(`drivers/serial.c:73`), so the high half is what the BIOS left; in Console the latch is a
single value.

## 7. Not modelled

Left out for good: the encodings of GDT, IDT, TSS and page table entries; the characters of the
log; the entry in `loader.s`; loops over strings and memory in `lib/string.c`, used
through what they do; and what nothing calls: `create_kernel_process`, `free_frame`,
`is_frame_allocated`, `unmap_page`, `write_file`, `seek_file`, `interrupt_cli`, `log_set_level`, `log_debug` to
`log_fatal`, `snprintf`, `vsnprintf` and the whole of `drivers/fb.c`.  The device strings of the VFS move like the
path strings and are only logged.  Process and AddressSpace meet in Dispatcher only: a fork's
memory is an outcome in the one, the scheduler a promise in the other.  Process and Interrupts meet
in Pic: the one has the handlers and no instructions, the other the instructions and of the handlers
what they do to the CPU.
