---------------------------- MODULE AddressSpace ----------------------------
(***************************************************************************)
(* The memory of processes: the page frame allocator and the page fault    *)
(* handler (mem/page_frame_allocator.c), page directories and tables       *)
(* (mem/paging.c), and how create_process and sys_fork fill them, step by  *)
(* step.                                                                   *)
(*                                                                         *)
(* When processes take the CPU from one another is what Dispatcher says    *)
(* (ProcessDispatches shows that the process manager implements it): a     *)
(* tick may cut any of the steps below, and what it cuts is not resumed.   *)
(* A step ends where a tick makes a difference: bits that are set, frames  *)
(* that are linked.  The entries of the kernel, the same in all            *)
(* directories, are left out; every user page is writable.                 *)
(***************************************************************************)
EXTENDS Integers, FiniteSets

CONSTANTS
  TotalFrames,     (* total_frames                                         *)
  MappedFrames,    (* the frames the kernel's one page table maps          *)
  ReservedFrames,  (* kernel_end_frame, past the first frame of the bitmap *)
  ModuleFrame,     (* where the boot loader put module 0                   *)
  ModulePages,     (* pages_needed                                         *)
  Entries,         (* entries of a page directory and of a page table      *)
  CodePage,        (* the page of USER_CODE_START                          *)
  Values,          (* what processes store                                 *)
  MaxPid,          (* bound: the processes created                         *)
  NULL

ASSUME FramesAssumption ==
  /\ TotalFrames \in Nat /\ MappedFrames \in Nat /\ ReservedFrames \in Nat
  /\ 0 < ReservedFrames
  /\ ReservedFrames <= MappedFrames
  /\ MappedFrames < TotalFrames
ASSUME EntriesAssumption == Entries \in Nat \ {0} /\ CodePage \in Nat /\ ModulePages \in Nat
(* The program lies at addresses of the user, in one page table, and the   *)
(* boot loader left the three frames past the bitmap free that its first   *)
(* page takes.                                                             *)
ASSUME ModuleAssumption ==
  /\ CodePage + ModulePages <= Entries * Entries
  /\ (CodePage % Entries) + ModulePages <= Entries
  /\ ModuleFrame \in Nat
  /\ ReservedFrames + 3 <= ModuleFrame
  /\ ModuleFrame + ModulePages <= MappedFrames
ASSUME NoFrameAssumption == NULL \notin Nat
ASSUME PidsAssumption == MaxPid \in Nat \ {0}

Frames    == 0 .. TotalFrames - 1
Index     == 0 .. Entries - 1
Pages     == 0 .. Entries * Entries - 1       (* of the user's addresses   *)
CodePages == CodePage .. CodePage + ModulePages - 1
Pids      == 1 .. MaxPid
Data      == Values \union {"code", "zero", "junk"}

VARIABLES
  last, waiting, cpu, done, preempted,   (* see Dispatcher                 *)
  frame_bitmap,  (* the frames whose bit is set                            *)
  mem,           (* what each frame holds, as a page and as a table        *)
  cr3,           (* context.cr3 of each process, a frame or NULL           *)
  task,          (* what the kernel is doing for the process on the CPU    *)
  halted         (* it is in the halting loop of a fault handler           *)

schedVars  == <<last, waiting, cpu, done, preempted>>
memoryVars == <<frame_bitmap, mem, cr3>>
spaceVars  == <<schedVars, memoryVars, task, halted>>

Sched == INSTANCE Dispatcher

NoEntries == [i \in Index |-> NULL]
Page(v)    == [data |-> v, table |-> NoEntries]
EmptyTable == Page("junk")

(* create_process, sys_fork and page_fault_handler do for the pages of     *)
(* todo, from the lowest up: take a frame, map it, fill it.                *)
Tasks ==
  [op : {"create", "fork", "fault", "exit"}, step : {"directory", "page", "map", "fill"},
   todo : SUBSET Pages, frame : Frames \union {NULL}]

ASSUME NoTaskAssumption == NULL \notin Tasks

Task(op, step, todo) == [op |-> op, step |-> step, todo |-> todo, frame |-> NULL]

At(step) == task # NULL /\ task.op # "exit" /\ task.step = step
Creating == task # NULL /\ task.op \in {"create", "fork"}
Exiting  == task # NULL /\ task.op = "exit"

(* The process whose address space the task changes.                       *)
Target == IF Creating THEN last + 1 ELSE cpu

TypeOK ==
  /\ last \in 0 .. MaxPid
  /\ waiting \subseteq 1 .. last
  /\ cpu \in 0 .. last
  /\ done \in BOOLEAN
  /\ preempted \in BOOLEAN
  /\ frame_bitmap \subseteq Frames
  /\ mem \in [Frames -> [data : Data, table : [Index -> Frames \union {NULL}]]]
  /\ cr3 \in [Pids -> Frames \union {NULL}]
  /\ task \in Tasks \union {NULL}
  /\ task # NULL => (task.frame # NULL <=> task.step \in {"map", "fill"})
  /\ halted \in BOOLEAN

(* init_page_frame_allocator sets the bits up to kernel_end_frame.  The    *)
(* module is in memory; every other frame holds anything.                  *)
Init ==
  /\ Sched!Init
  /\ frame_bitmap = 0 .. ReservedFrames - 1
  /\ mem = [f \in Frames |->
              Page(IF f \in ModuleFrame .. ModuleFrame + ModulePages - 1 THEN "code" ELSE "junk")]
  /\ cr3 = [p \in Pids |-> NULL]
  /\ task = NULL
  /\ halted = FALSE

-----------------------------------------------------------------------------
(***************************************************************************)
(* Frames.                                                                 *)
(***************************************************************************)
Clear == Frames \ frame_bitmap

(* The frame alloc_frame returns: the first one clear, 0 if there is none. *)
alloc_frame == IF Clear = {} THEN 0 ELSE CHOOSE f \in Clear : \A g \in Clear : f <= g

(* Mutant: the bit next to the frame's is set.                             *)
SetBit_Next(f) == frame_bitmap' = frame_bitmap \union {(f + 1) % TotalFrames}

SetBit(f) == frame_bitmap' = frame_bitmap \union {f}

(* Mutant: all of memory is mapped.                                        *)
Touchable_All(f) == f \in Frames

(* init_paging maps PAGE_TABLE_SIZE frames into the kernel's part of every *)
(* address space.  phys_to_virt of any other is a page fault to use.       *)
Touchable(f) == f < MappedFrames

-----------------------------------------------------------------------------
(***************************************************************************)
(* Page directories and tables.                                            *)
(***************************************************************************)
PdIndex(va) == va \div Entries

(* Mutant: the mask of the index lacks a bit.                             *)
PtIndex_Mask(va) == va % (Entries - 1)

PtIndex(va) == va % Entries

TableFrame(p, va) == mem[cr3[p]].table[PdIndex(va)]

(* get_physical_address, and the walk of the processor.                    *)
PageFrame(p, va) ==
  IF TableFrame(p, va) = NULL THEN NULL ELSE mem[TableFrame(p, va)].table[PtIndex(va)]

Present(p) == {va \in Pages : PageFrame(p, va) # NULL}

(* The task ends, a creation without a process.                            *)
Abandon ==
  /\ task' = NULL
  /\ IF Creating THEN Sched!Fail ELSE UNCHANGED schedVars
  /\ UNCHANGED <<mem, cr3>>

(* A page fault in kernel space halts.                                     *)
KernelFault == Abandon /\ halted' = TRUE

(* alloc_frame returned 0: create_process and sys_fork return, the page    *)
(* fault handler halts.                                                    *)
OutOfMemory == Abandon /\ halted' = ~Creating /\ UNCHANGED frame_bitmap

Continue(t) == task' = t /\ UNCHANGED <<schedVars, halted>>

(* create_page_directory, for create_process and sys_fork.                 *)
CreatePageDirectory ==
  /\ At("directory")
  /\ LET f == alloc_frame
     IN  IF f = 0 THEN OutOfMemory
         ELSE /\ SetBit(f)
              /\ IF ~Touchable(f) THEN KernelFault
                 ELSE /\ mem' = [mem EXCEPT ![f] = EmptyTable]
                      /\ cr3' = [cr3 EXCEPT ![Target] = f]
                      /\ Continue([task EXCEPT !.step = "page"])

(* The page the task is at.                                                *)
Va == CHOOSE va \in task.todo : \A w \in task.todo : va <= w

(* A frame for the page.  sys_fork copies the parent's page to it at once. *)
TakeFrame ==
  /\ At("page")
  /\ task.todo # {}
  /\ LET f == alloc_frame
     IN  IF f = 0 THEN OutOfMemory
         ELSE /\ SetBit(f)
              /\ IF task.op = "fork" /\ ~Touchable(f) THEN KernelFault
                 ELSE /\ mem' = IF task.op = "fork"
                                THEN [mem EXCEPT ![f] = mem[PageFrame(cpu, Va)]] ELSE mem
                      /\ Continue([task EXCEPT !.step = "map", !.frame = f])
                      /\ UNCHANGED cr3

(* map_page without a page table.  If there is no frame for one it returns *)
(* and its caller goes on as if the page were mapped.                      *)
MapTable ==
  /\ At("map")
  /\ TableFrame(Target, Va) = NULL
  /\ LET f == alloc_frame
     IN  IF f = 0 THEN Continue([task EXCEPT !.step = "fill"]) /\ UNCHANGED memoryVars
         ELSE /\ SetBit(f)
              /\ IF ~Touchable(f) THEN KernelFault
                 ELSE /\ mem' = [mem EXCEPT ![f] = EmptyTable,
                                            ![cr3[Target]].table[PdIndex(Va)] = f]
                      /\ Continue(task)
                      /\ UNCHANGED cr3

(* map_page's last step.                                                   *)
MapEntry ==
  /\ At("map")
  /\ TableFrame(Target, Va) # NULL
  /\ mem' = [mem EXCEPT ![TableFrame(Target, Va)].table[PtIndex(Va)] = task.frame]
  /\ Continue([task EXCEPT !.step = "fill"])
  /\ UNCHANGED <<frame_bitmap, cr3>>

(* Mutant: the page fault handler does not clear the frame.                *)
Filled_Uncleared ==
  IF task.op = "create" THEN mem[ModuleFrame + Va - CodePage] ELSE mem[task.frame]

(* What the frame of the page holds in the end: create_process copies the  *)
(* module's page, page_fault_handler clears it, sys_fork has copied it.    *)
Filled ==
  CASE task.op = "create" -> mem[ModuleFrame + Va - CodePage]
    [] task.op = "fault"  -> Page("zero")
    [] task.op = "fork"   -> mem[task.frame]

(* Mutant: the frame is still in hand when the next page is begun.         *)
FillPage_Keeps ==
  /\ At("fill")
  /\ IF ~Touchable(task.frame) THEN KernelFault
     ELSE /\ mem' = [mem EXCEPT ![task.frame] = Filled]
          /\ Continue([task EXCEPT !.step = "page", !.todo = @ \ {Va}])
          /\ UNCHANGED cr3
  /\ UNCHANGED frame_bitmap

FillPage ==
  /\ At("fill")
  /\ IF ~Touchable(task.frame) THEN KernelFault
     ELSE /\ mem' = [mem EXCEPT ![task.frame] = Filled]
          /\ Continue([task EXCEPT !.step = "page", !.todo = @ \ {Va}, !.frame = NULL])
          /\ UNCHANGED cr3
  /\ UNCHANGED frame_bitmap

(* The new process is ready, or the page fault handler returns.            *)
Finish ==
  /\ At("page")
  /\ task.todo = {}
  /\ task' = NULL
  /\ IF Creating THEN Sched!Create ELSE UNCHANGED schedVars
  /\ UNCHANGED <<memoryVars, halted>>

-----------------------------------------------------------------------------
(***************************************************************************)
(* What starts tasks.                                                      *)
(***************************************************************************)

(* kmain calls create_process for module 0.                                *)
CreateProcess ==
  /\ task = NULL
  /\ last = 0
  /\ task' = Task("create", "directory", CodePages)
  /\ UNCHANGED <<schedVars, memoryVars, halted>>

(* A process executes in user mode.                                        *)
Executing == cpu # 0 /\ task = NULL /\ ~halted

SysFork ==
  /\ Executing
  /\ last < MaxPid
  /\ task' = Task("fork", "directory", Present(cpu))
  /\ UNCHANGED <<schedVars, memoryVars, halted>>

Store(va, v) ==
  /\ Executing
  /\ va \in Present(cpu)
  /\ mem' = [mem EXCEPT ![PageFrame(cpu, va)] = Page(v)]
  /\ UNCHANGED <<schedVars, frame_bitmap, cr3, task, halted>>

(* The process, or a system call for it, uses a page that is not mapped.   *)
PageFault(va) ==
  /\ Executing
  /\ va \notin Present(cpu)
  /\ task' = Task("fault", "page", {va})
  /\ UNCHANGED <<schedVars, memoryVars, halted>>

(* A protection violation or an address of the kernel.                     *)
Violation ==
  /\ Executing
  /\ halted' = TRUE
  /\ UNCHANGED <<schedVars, memoryVars, task>>

SysExit ==
  /\ Executing
  /\ Sched!Exit
  /\ task' = Task("exit", "page", {})
  /\ UNCHANGED <<memoryVars, halted>>

(* schedule(), called by sys_exit and at the end of kmain.                 *)
Schedule(p) ==
  /\ Exiting \/ (cpu = 0 /\ task = NULL)
  /\ Sched!Yield(p)
  /\ task' = NULL
  /\ UNCHANGED <<memoryVars, halted>>

ExitReturns ==
  /\ Exiting
  /\ waiting = {}
  /\ task' = NULL
  /\ UNCHANGED <<schedVars, memoryVars, halted>>

(* A tick switches to the newest process, or to the one below it if it     *)
(* cuts a schedule() that has popped the newest.                           *)
Preempt(p) ==
  /\ Sched!Preempt(p)
  /\ Cardinality({q \in waiting : q > p}) <= IF Exiting \/ cpu = 0 THEN 1 ELSE 0
  /\ last' = IF Creating THEN last + 1 ELSE last
  /\ task' = NULL
  /\ halted' = FALSE
  /\ UNCHANGED memoryVars

-----------------------------------------------------------------------------
Next ==
  \/ CreateProcess \/ SysFork \/ SysExit \/ ExitReturns \/ Violation
  \/ CreatePageDirectory \/ TakeFrame \/ MapTable \/ MapEntry \/ FillPage \/ Finish
  \/ \E va \in Pages : PageFault(va) \/ \E v \in Values : Store(va, v)
  \/ \E p \in waiting : Schedule(p) \/ Preempt(p)

Spec == Init /\ [][Next]_spaceVars

-----------------------------------------------------------------------------
(* Every use of a frame: a directory, a table or a page of some process.   *)
Uses ==
  LET Rooted == {p \in Pids : cr3[p] # NULL}
  IN  {<<"directory", p, 0, cr3[p]>> : p \in Rooted}
        \union (UNION {{<<"table", p, PdIndex(va), TableFrame(p, va)>> :
                          va \in {w \in Pages : TableFrame(p, w) # NULL}} : p \in Rooted})
        \union (UNION {{<<"page", p, va, PageFrame(p, va)>> : va \in Present(p)} : p \in Rooted})

InUse == {u[4] : u \in Uses}

(* Wherever ticks cut fork and page faults, no frame has two uses: address *)
(* spaces of processes, dead and abandoned ones included, are disjoint,    *)
(* and none reaches the kernel's own frames or one alloc_frame may return. *)
OneUse ==
  /\ \A u, w \in Uses : u[4] = w[4] => u = w
  /\ InUse \subseteq frame_bitmap \ (0 .. ReservedFrames - 1)
  /\ task # NULL /\ task.step = "map" => task.frame \in frame_bitmap \ InUse

(* Frames are lost to a preemption or a fault of the kernel only: until    *)
(* then each allocated frame is reserved, used, or in the hands of a task. *)
FramesAccounted ==
  ~preempted /\ ~halted =>
    frame_bitmap = 0 .. ReservedFrames - 1 \union InUse
                     \union (IF task = NULL THEN {} ELSE {task.frame} \ {NULL})

(* A task that takes frames the kernel does not map faults on the second   *)
(* at the latest, and there is one before and one after the preemption:    *)
(* alloc_frame never comes to return 0, and never looks at a bit further   *)
(* on, although init clears a quarter of the bitmap only.                  *)
HaltsBeforeExhausted == Cardinality(frame_bitmap \ (0 .. MappedFrames - 1)) <= 4

(* The memory of the processes that may yet execute.  A page that is being *)
(* faulted in has not been seen yet.                                       *)
Alive == waiting \union (IF cpu = 0 \/ halted THEN {} ELSE {cpu})

Unseen(p) == IF p = cpu /\ task # NULL /\ task.op = "fault" THEN task.todo ELSE {}

Memory(p) ==
  [va \in Pages |->
     IF va \in Present(p) \ Unseen(p) THEN mem[PageFrame(p, va)].data ELSE "zero"]

Space == [p \in Alive |-> Memory(p)]

Abstract == INSTANCE UserMemory WITH space <- Space, ProgramPages <- CodePages

(* create_process, fork and demand paging give each process a memory of    *)
(* its own: a program, or a copy of the parent at the fork, and zeros.     *)
ImplementsUserMemory == Abstract!Spec

=============================================================================
