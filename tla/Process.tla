------------------------------ MODULE Process ------------------------------
(***************************************************************************)
(* The process manager of the kernel: the process table, the ready queue,  *)
(* schedule() and switch_to_process (mem/process.c, mem/switch_asm.s), the *)
(* fork, exit and wait system calls (arch/x86/syscall.c) and the timer     *)
(* interrupt that preempts them (arch/x86/pit.c, pic.c, interrupt.c).      *)
(*                                                                         *)
(* One CPU.  The IDT holds trap gates, which leave interrupts enabled, so  *)
(* from interrupt_sti on a timer interrupt can arrive between any two      *)
(* steps of the kernel.  If the ready queue is not empty the handler       *)
(* switches to another process, and the interrupted code, whose registers  *)
(* nobody saves, is never resumed.                                         *)
(*                                                                         *)
(* The memory a process is built from is abstracted to its outcome: the    *)
(* frames are there, alloc_frame returns 0, or the kernel faults.          *)
(***************************************************************************)
EXTENDS Pic

CONSTANTS
  MaxProcesses,  (* MAX_PROCESSES, the slots of process_table              *)
  MaxPid,        (* bound: no process is created once next_pid is MaxPid   *)
  NULL

ASSUME MaxProcessesAssumption == MaxProcesses \in Nat \ {0}
ASSUME MaxPidAssumption == MaxPid \in Nat \ {0}
ASSUME NullAssumption == NULL \notin Nat

Slots == 0 .. MaxProcesses - 1

VARIABLES
  state,                 (* process_table[s].state                         *)
  pid,                   (* process_table[s].pid                           *)
  parent_pid,            (* process_table[s].parent_pid                    *)
  next_in_ready_queue,   (* process_table[s].next_in_ready_queue           *)
  next_pid,
  current_process,
  ready_queue_head,
  esp0,       (* whose kernel stack the TSS names for traps from user mode *)
  cr3,        (* whose address space and registers the CPU has loaded      *)
  pc,         (* what the CPU is executing                                 *)
  child       (* the slot sys_fork is filling                              *)

tableVars == <<state, pid, parent_pid, next_in_ready_queue, next_pid>>
cpuVars   == <<current_process, ready_queue_head, esp0, cr3>>
vars      == <<tableVars, cpuVars, pc, child, picVars>>

(* Control points.  "sched" to "switch" are the steps of schedule(), the   *)
(* fork_ ones those of sys_fork.  "hlt" is any of the halting loops,       *)
(* "stopped" one that is entered before interrupt_sti.                     *)
SchedPoints == {"sched", "pop", "run", "tss", "switch"}
ForkPoints  == {"fork_mem", "fork_ready", "fork_link", "fork_push"}
Points      == {"boot", "stopped", "user", "hlt"} \union SchedPoints \union ForkPoints

States == {"FREE", "READY", "RUNNING", "TERMINATED"}

TypeOK ==
  /\ state \in [Slots -> States]
  /\ pid \in [Slots -> Nat]
  /\ parent_pid \in [Slots -> Nat]
  /\ next_in_ready_queue \in [Slots -> Slots \union {NULL}]
  /\ next_pid \in Nat
  /\ current_process \in Slots \union {NULL}
  /\ ready_queue_head \in Slots \union {NULL}
  /\ esp0 \in Slots \union {NULL}
  /\ cr3 \in Slots \union {NULL}
  /\ pc \in Points
  /\ child \in Slots \union {NULL}
  /\ PicTypeOK

(***************************************************************************)
(* After gdt_init ... init_process_manager: the kernel runs on its boot    *)
(* stack with interrupts disabled.                                         *)
(***************************************************************************)
Init ==
  /\ state = [s \in Slots |-> "FREE"]
  /\ pid = [s \in Slots |-> 0]
  /\ parent_pid = [s \in Slots |-> 0]
  /\ next_in_ready_queue = [s \in Slots |-> NULL]
  /\ next_pid = 1
  /\ current_process = NULL
  /\ ready_queue_head = NULL
  /\ esp0 = NULL
  /\ cr3 = NULL
  /\ pc = "boot"
  /\ child = NULL
  /\ PicInit

(* Mutant: the fault handlers disable interrupts before they halt.         *)
InterruptsEnabled_HaltMasks == pc \notin {"boot", "stopped", "hlt"}

InterruptsEnabled == pc \notin {"boot", "stopped"}

-----------------------------------------------------------------------------
(***************************************************************************)
(* The process table.                                                      *)
(***************************************************************************)
InState(st) == {s \in Slots : state[s] = st}

IsFirst(s, S) == s \in S /\ \A t \in S : s <= t

(* Mutant: next_pid is not advanced.                                       *)
AllocatePcb_SamePid(s) ==
  /\ IsFirst(s, InState("FREE"))
  /\ next_pid < MaxPid
  /\ pid' = [pid EXCEPT ![s] = next_pid]
  /\ UNCHANGED next_pid

(* allocate_pcb_and_pid takes the first FREE slot and the next pid.  The   *)
(* slot stays FREE until its creator has finished.                         *)
AllocatePcb(s) ==
  /\ IsFirst(s, InState("FREE"))
  /\ next_pid < MaxPid
  /\ pid' = [pid EXCEPT ![s] = next_pid]
  /\ next_pid' = next_pid + 1

(***************************************************************************)
(* kmain, interrupts still disabled: create_process for the first boot     *)
(* module, if there is one, then interrupt_sti and schedule().             *)
(***************************************************************************)
KmainCreate(s) ==
  /\ pc = "boot"
  /\ AllocatePcb(s)
  /\ state' = [state EXCEPT ![s] = "READY"]
  /\ next_in_ready_queue' = [next_in_ready_queue EXCEPT ![s] = ready_queue_head]
  /\ ready_queue_head' = s
  /\ pc' = "sched"
  /\ UNCHANGED <<parent_pid, current_process, esp0, cr3, child, picVars>>

(* create_process fails for want of a frame: the slot is FREE again.       *)
KmainCreateFails(s) ==
  /\ pc = "boot"
  /\ AllocatePcb(s)
  /\ pc' = "sched"
  /\ UNCHANGED <<state, parent_pid, next_in_ready_queue, cpuVars, child, picVars>>

(* A wrong boot magic, or a page fault in create_process.                  *)
KmainStops ==
  /\ pc = "boot"
  /\ pc' = "stopped"
  /\ UNCHANGED <<tableVars, cpuVars, child, picVars>>

KmainNoModule ==
  /\ pc = "boot"
  /\ pc' = "sched"
  /\ UNCHANGED <<tableVars, cpuVars, child, picVars>>

-----------------------------------------------------------------------------
(***************************************************************************)
(* schedule(), called by kmain and by sys_exit.  A timer interrupt can     *)
(* fall between any two of these steps.                                    *)
(***************************************************************************)

(* Mutant: sys_exit waits in schedule() for something to run.              *)
SchedNone_ExitWaits ==
  /\ pc = "sched"
  /\ ready_queue_head = NULL
  /\ current_process = NULL
  /\ pc' = "hlt"
  /\ UNCHANGED <<tableVars, cpuVars, child, picVars>>

(* Nothing is ready: kmain goes on to its halting loop; sys_exit returns   *)
(* into the process that called it.                                        *)
SchedNone ==
  /\ pc = "sched"
  /\ ready_queue_head = NULL
  /\ pc' = IF current_process = NULL THEN "hlt" ELSE "user"
  /\ UNCHANGED <<tableVars, cpuVars, child, picVars>>

SchedTake ==
  /\ pc = "sched"
  /\ ready_queue_head # NULL
  /\ current_process' = ready_queue_head
  /\ pc' = "pop"
  /\ UNCHANGED <<tableVars, ready_queue_head, esp0, cr3, child, picVars>>

(* Mutant: the queue is not advanced.                                      *)
SchedPop_KeepsHead ==
  /\ pc = "pop"
  /\ pc' = "run"
  /\ UNCHANGED <<tableVars, cpuVars, child, picVars>>

SchedPop ==
  /\ pc = "pop"
  /\ ready_queue_head' = next_in_ready_queue[ready_queue_head]
  /\ pc' = "run"
  /\ UNCHANGED <<tableVars, current_process, esp0, cr3, child, picVars>>

SchedRun ==
  /\ pc = "run"
  /\ state' = [state EXCEPT ![current_process] = "RUNNING"]
  /\ pc' = "tss"
  /\ UNCHANGED <<pid, parent_pid, next_in_ready_queue, next_pid, cpuVars, child, picVars>>

(* Mutant: tss_set_kernel_stack is not called.                             *)
SchedTss_Skipped ==
  /\ pc = "tss"
  /\ pc' = "switch"
  /\ UNCHANGED <<tableVars, cpuVars, child, picVars>>

SchedTss ==
  /\ pc = "tss"
  /\ esp0' = current_process
  /\ pc' = "switch"
  /\ UNCHANGED <<tableVars, current_process, ready_queue_head, cr3, child, picVars>>

(* switch_to_process: cr3, the stack and the registers of the next process *)
(* are loaded and iret enters it.  Nothing of the previous one is saved.   *)
SchedSwitch ==
  /\ pc = "switch"
  /\ cr3' = current_process
  /\ pc' = "user"
  /\ UNCHANGED <<tableVars, current_process, ready_queue_head, esp0, child, picVars>>

-----------------------------------------------------------------------------
(***************************************************************************)
(* System calls of the process that is on the CPU.                         *)
(***************************************************************************)

(* Mutant: the child is recorded as its own parent.                        *)
SysFork_OwnParent(s) ==
  /\ pc = "user"
  /\ current_process # NULL
  /\ AllocatePcb(s)
  /\ parent_pid' = [parent_pid EXCEPT ![s] = next_pid]
  /\ child' = s
  /\ pc' = "fork_mem"
  /\ UNCHANGED <<state, next_in_ready_queue, cpuVars, picVars>>

(* sys_fork up to its first use of memory.  With no FREE slot it returns   *)
(* -1 and changes nothing.                                                 *)
SysFork(s) ==
  /\ pc = "user"
  /\ current_process # NULL
  /\ AllocatePcb(s)
  /\ parent_pid' = [parent_pid EXCEPT ![s] = pid[current_process]]
  /\ child' = s
  /\ pc' = "fork_mem"
  /\ UNCHANGED <<state, next_in_ready_queue, cpuVars, picVars>>

(* The page directory, every page of the parent, the kernel stack and the  *)
(* registers of the child have been set up.                                *)
ForkCopied ==
  /\ pc = "fork_mem"
  /\ pc' = "fork_ready"
  /\ UNCHANGED <<tableVars, cpuVars, child, picVars>>

(* alloc_frame returned 0: the child's slot is given up, fork returns -1.  *)
ForkNoMemory ==
  /\ pc = "fork_mem"
  /\ state' = [state EXCEPT ![child] = "FREE"]
  /\ child' = NULL
  /\ pc' = "user"
  /\ UNCHANGED <<pid, parent_pid, next_in_ready_queue, next_pid, cpuVars, picVars>>

ForkReady ==
  /\ pc = "fork_ready"
  /\ state' = [state EXCEPT ![child] = "READY"]
  /\ pc' = "fork_link"
  /\ UNCHANGED <<pid, parent_pid, next_in_ready_queue, next_pid, cpuVars, child, picVars>>

(* Mutant: the child is not linked to the rest of the queue.               *)
ForkLink_Skipped ==
  /\ pc = "fork_link"
  /\ pc' = "fork_push"
  /\ UNCHANGED <<tableVars, cpuVars, child, picVars>>

ForkLink ==
  /\ pc = "fork_link"
  /\ next_in_ready_queue' = [next_in_ready_queue EXCEPT ![child] = ready_queue_head]
  /\ pc' = "fork_push"
  /\ UNCHANGED <<state, pid, parent_pid, next_pid, cpuVars, child, picVars>>

ForkPush ==
  /\ pc = "fork_push"
  /\ ready_queue_head' = child
  /\ child' = NULL
  /\ pc' = "user"
  /\ UNCHANGED <<tableVars, current_process, esp0, cr3, picVars>>

SysExit ==
  /\ pc = "user"
  /\ current_process # NULL
  /\ state' = [state EXCEPT ![current_process] = "TERMINATED"]
  /\ pc' = "sched"
  /\ UNCHANGED <<pid, parent_pid, next_in_ready_queue, next_pid, cpuVars, child, picVars>>

(* get_zombie_process_for_parent *)
ZombiesOf(p) == {s \in InState("TERMINATED") : parent_pid[s] = p}

(* Mutant: sys_wait waits until there is a child to reap.                  *)
SysWait_Blocks ==
  /\ pc = "user"
  /\ current_process # NULL
  /\ \E s \in Slots :
       /\ IsFirst(s, ZombiesOf(pid[current_process]))
       /\ state' = [state EXCEPT ![s] = "FREE"]
       /\ pid' = [pid EXCEPT ![s] = 0]
       /\ parent_pid' = [parent_pid EXCEPT ![s] = 0]
  /\ UNCHANGED <<next_in_ready_queue, next_pid, cpuVars, pc, child, picVars>>

(* Mutant: sys_wait gives up the CPU when it has nothing to reap.          *)
SysWait_Yields ==
  /\ pc = "user"
  /\ current_process # NULL
  /\ pc' = IF ZombiesOf(pid[current_process]) = {} THEN "sched" ELSE "user"
  /\ UNCHANGED <<tableVars, cpuVars, child, picVars>>

(* sys_wait never blocks: it reaps the first terminated child or returns   *)
(* -1 at once.                                                             *)
SysWait ==
  /\ pc = "user"
  /\ current_process # NULL
  /\ IF ZombiesOf(pid[current_process]) = {}
     THEN UNCHANGED <<state, pid, parent_pid>>
     ELSE \E s \in Slots :
            /\ IsFirst(s, ZombiesOf(pid[current_process]))
            /\ state' = [state EXCEPT ![s] = "FREE"]
            /\ pid' = [pid EXCEPT ![s] = 0]
            /\ parent_pid' = [parent_pid EXCEPT ![s] = 0]
  /\ UNCHANGED <<next_in_ready_queue, next_pid, cpuVars, pc, child, picVars>>

(* general_protection_fault_handler, or page_fault_handler on a protection *)
(* violation or with no frame left; and, in the middle of sys_fork, a page *)
(* fault of the kernel itself.  The handlers loop on hlt with interrupts   *)
(* enabled.                                                                *)
Fault ==
  /\ pc \in {"user", "fork_mem"}
  /\ pc' = "hlt"
  /\ child' = NULL
  /\ UNCHANGED <<tableVars, cpuVars, picVars>>

-----------------------------------------------------------------------------
(***************************************************************************)
(* Interrupts.  While the timer's line is in service no line can interrupt *)
(* its handler, so what pit_handler does is one step.                      *)
(***************************************************************************)

(* Mutant: the end of interrupt is sent twice.                             *)
TickReturn_Twice ==
  /\ InterruptsEnabled
  /\ Deliverable(Timer)
  /\ ready_queue_head = NULL
  /\ irr' = irr \ {Timer}
  /\ isr' = Acknowledged(Acknowledged(isr \union {Timer}))
  /\ UNCHANGED <<tableVars, cpuVars, pc, child>>

(* pit_handler with an empty ready queue: schedule() returns, the handler  *)
(* acknowledges, and the interrupted code goes on.                         *)
TickReturn ==
  /\ InterruptsEnabled
  /\ Deliverable(Timer)
  /\ ready_queue_head = NULL
  /\ irr' = irr \ {Timer}
  /\ isr' = Acknowledged(isr \union {Timer})
  /\ UNCHANGED <<tableVars, cpuVars, pc, child>>

(* What schedule() does inside pit_handler.                                *)
SwitchToHead ==
  /\ current_process' = ready_queue_head
  /\ esp0' = ready_queue_head
  /\ cr3' = ready_queue_head
  /\ pc' = "user"
  /\ child' = NULL

(* Mutant: pit_handler acknowledges before it schedules.                   *)
TickSwitch_AckFirst ==
  /\ InterruptsEnabled
  /\ Deliverable(Timer)
  /\ ready_queue_head # NULL
  /\ irr' = irr \ {Timer}
  /\ isr' = Acknowledged(isr \union {Timer})
  /\ ready_queue_head' = next_in_ready_queue[ready_queue_head]
  /\ state' = [state EXCEPT ![ready_queue_head] = "RUNNING"]
  /\ SwitchToHead
  /\ UNCHANGED <<pid, parent_pid, next_in_ready_queue, next_pid>>

(* Mutant: the preempted process goes back to the queue.                   *)
TickSwitch_Requeues ==
  /\ InterruptsEnabled
  /\ Deliverable(Timer)
  /\ ready_queue_head # NULL
  /\ irr' = irr \ {Timer}
  /\ isr' = isr \union {Timer}
  /\ current_process \in InState("RUNNING")
  /\ ready_queue_head' = current_process
  /\ next_in_ready_queue' =
       [next_in_ready_queue EXCEPT ![current_process] = next_in_ready_queue[ready_queue_head]]
  /\ state' = [state EXCEPT ![current_process] = "READY", ![ready_queue_head] = "RUNNING"]
  /\ SwitchToHead
  /\ UNCHANGED <<pid, parent_pid, next_pid>>

(* pit_handler with a ready process: schedule() does not return, so        *)
(* pic_acknowledge is not reached and the interrupted code is abandoned.   *)
TickSwitch ==
  /\ InterruptsEnabled
  /\ Deliverable(Timer)
  /\ ready_queue_head # NULL
  /\ irr' = irr \ {Timer}
  /\ isr' = isr \union {Timer}
  /\ ready_queue_head' = next_in_ready_queue[ready_queue_head]
  /\ state' = [state EXCEPT ![ready_queue_head] = "RUNNING"]
  /\ SwitchToHead
  /\ UNCHANGED <<pid, parent_pid, next_in_ready_queue, next_pid>>

(* No handler is registered for the keyboard: interrupt_handler logs the   *)
(* interrupt and returns without acknowledging it.                         *)
KeyIgnored ==
  /\ InterruptsEnabled
  /\ Deliverable(Keyboard)
  /\ irr' = irr \ {Keyboard}
  /\ isr' = isr \union {Keyboard}
  /\ UNCHANGED <<tableVars, cpuVars, pc, child>>

(* The PIT and the keyboard raise their lines.                             *)
RaiseLine(q) ==
  /\ Raise(q)
  /\ UNCHANGED <<tableVars, cpuVars, pc, child>>

-----------------------------------------------------------------------------
Kmain    == (\E s \in Slots : KmainCreate(s) \/ KmainCreateFails(s)) \/ KmainStops \/ KmainNoModule
Schedule == SchedNone \/ SchedTake \/ SchedPop \/ SchedRun \/ SchedTss \/ SchedSwitch
ForkStep == ForkCopied \/ ForkNoMemory \/ ForkReady \/ ForkLink \/ ForkPush
Syscall  == (\E s \in Slots : SysFork(s)) \/ SysExit \/ SysWait
Tick     == TickReturn \/ TickSwitch

(* What the CPU does by itself inside the kernel.                          *)
KernelStep == Kmain \/ Schedule \/ ForkStep

Next ==
  \/ KernelStep
  \/ Syscall
  \/ Fault
  \/ Tick
  \/ KeyIgnored
  \/ \E q \in Lines : RaiseLine(q)

Spec == Init /\ [][Next]_vars

(* The CPU executes, the PIT is periodic, and the controller interrupts a  *)
(* CPU that has interrupts enabled.  Processes and keys promise nothing.   *)
Fairness ==
  /\ WF_vars(KernelStep)
  /\ WF_vars(Tick)
  /\ WF_vars(RaiseLine(Timer))

FairSpec == Spec /\ Fairness

-----------------------------------------------------------------------------
(***************************************************************************)
(* The ready queue: what can be reached from ready_queue_head by           *)
(* next_in_ready_queue, the smallest set that holds the head and, with a   *)
(* process, the one it links to.                                           *)
(***************************************************************************)
Linked(head, next, S) ==
  /\ head # NULL => head \in S
  /\ \A s \in S : next[s] # NULL => next[s] \in S

Queue(head, next) ==
  {s \in Slots : \A S \in SUBSET Slots : Linked(head, next, S) => s \in S}

ReadyQueue == Queue(ready_queue_head, next_in_ready_queue)

Started == InState("RUNNING") \union InState("TERMINATED")

(* Processes that wait for a CPU they will never get: they were running    *)
(* and are no longer current, or are READY and neither in the queue nor in *)
(* the hands of schedule() or sys_fork.                                    *)
Lost == (InState("RUNNING") \ {current_process})
          \union (InState("READY") \ (ReadyQueue \union {current_process, child}))

-----------------------------------------------------------------------------
(***************************************************************************)
(* Safety.                                                                 *)
(***************************************************************************)

(* The list schedule() follows holds READY processes only, newest first,   *)
(* and so has no cycle, wherever a tick cuts schedule() or sys_fork.       *)
QueueOK ==
  /\ ReadyQueue \subseteq InState("READY")
  /\ \A s \in ReadyQueue :
       next_in_ready_queue[s] # NULL => pid[next_in_ready_queue[s]] < pid[s]

(* While a process executes, or a system call it made, the address space,  *)
(* the kernel stack its traps use and current_process are its own.         *)
CpuAgrees ==
  pc \in {"user"} \union ForkPoints =>
    /\ current_process \in Started
    /\ cr3 = current_process
    /\ esp0 = current_process

(* Only a preemption loses processes: as long as no tick has switched, every *)
(* READY process is queued and every RUNNING one is on the CPU.              *)
LostOnlyToTimer == Lost # {} => Timer \in isr

(* The one preemption there can be loses at most one process that ran and  *)
(* one that was about to (the child sys_fork had not queued yet, or the    *)
(* process schedule() had already popped).                                 *)
LostOnce == \A s, t \in Lost : state[s] = state[t] => s = t

(* When a process calls wait none of its children has terminated: a child  *)
(* runs only after its parent has left the CPU for good, so sys_wait never *)
(* reaps.                                                                  *)
WaitFindsNoZombie ==
  current_process # NULL => ZombiesOf(pid[current_process]) = {}

(* Live processes have distinct pids, and a child names a process that was *)
(* dispatched: get_zombie_process_for_parent cannot mistake a parent.      *)
ParentsIdentified ==
  /\ \A s, t \in Slots \ InState("FREE") : pid[s] = pid[t] => s = t
  /\ \A s \in Slots \ InState("FREE") :
       parent_pid[s] # 0 => \E t \in Started : pid[t] = parent_pid[s]

-----------------------------------------------------------------------------
(***************************************************************************)
(* What a step may never do.                                               *)
(***************************************************************************)

(* schedule() never goes back to a process that has left the CPU: its      *)
(* context is not saved and it is not queued again.                        *)
NeverResumed ==
  [][\A s \in Started : s # current_process => s # current_process']_vars

(* A slot of the process table goes from FREE to READY to RUNNING to       *)
(* TERMINATED and stays there: the table is never recycled.                *)
Rank(st) == CASE st = "FREE" -> 0 [] st = "READY" -> 1
              [] st = "RUNNING" -> 2 [] st = "TERMINATED" -> 3

SlotsNeverRecycled ==
  [][\A s \in Slots : Rank(state[s]) <= Rank(state'[s])]_vars

(* A line that stayed in service when its handler was left (the timer's    *)
(* after a switch, the keyboard's always) is never acknowledged later.     *)
NeverAcknowledgedLate == [][isr \subseteq isr']_vars

(* After the first preemptive switch a process keeps the CPU until it      *)
(* exits.                                                                  *)
LastPreemption ==
  [][(Timer \in isr /\ current_process' # current_process /\ current_process # NULL)
       => state[current_process] = "TERMINATED"]_vars

-----------------------------------------------------------------------------
(***************************************************************************)
(* Liveness, under FairSpec.                                               *)
(***************************************************************************)

(* A system call, kmain or the scheduler gives the CPU to a process or     *)
(* halts; none is caught for ever in the kernel.                           *)
KernelFinishes ==
  LET Settled == pc \in {"user", "hlt", "stopped"} IN ~Settled ~> Settled

(* A ready process makes the timer preempt whatever runs, even a fault     *)
(* handler's halting loop, unless the one preemption was already spent.    *)
TimerDrains == ready_queue_head # NULL ~> ready_queue_head = NULL \/ Timer \in isr

-----------------------------------------------------------------------------
(***************************************************************************)
(* The inductive invariant.                                                *)
(***************************************************************************)

(* Pids are handed out in order and never shared, by live or FREE slots.   *)
PidsOK ==
  /\ next_pid # 0
  /\ \A s \in Slots : pid[s] < next_pid
  /\ \A s \in Slots : state[s] # "FREE" => pid[s] # 0
  /\ \A s, t \in Slots : pid[s] = pid[t] /\ pid[s] # 0 => s = t

(* Every link, also one of a process no longer queued, leads to an older   *)
(* process.                                                                *)
LinksOK ==
  /\ ready_queue_head # NULL => state[ready_queue_head] # "FREE"
  /\ \A s \in Slots : next_in_ready_queue[s] # NULL =>
       /\ state[next_in_ready_queue[s]] # "FREE"
       /\ pid[next_in_ready_queue[s]] < pid[s]

(* A parent has been dispatched; while it is on the CPU none of its        *)
(* children has been.                                                      *)
FamilyOK ==
  /\ \A s \in Slots : parent_pid[s] # 0 => \E t \in Started : pid[t] = parent_pid[s]
  /\ current_process # NULL =>
       \A s \in Started : parent_pid[s] # pid[current_process]

(* What each control point of schedule() knows.                            *)
SchedOK ==
  /\ current_process = NULL => pc \in {"boot", "stopped", "sched", "hlt"}
  /\ pc \in {"boot", "stopped"} => current_process = NULL
  /\ pc = "sched" /\ current_process # NULL =>
       /\ state[current_process] = "TERMINATED"
       /\ cr3 = current_process
       /\ esp0 = current_process
  /\ pc = "pop" => current_process = ready_queue_head
  /\ pc = "run" => state[current_process] = "READY" /\ current_process \notin ReadyQueue
  /\ pc \in {"tss", "switch"} => state[current_process] = "RUNNING"
  /\ pc = "switch" => esp0 = current_process

(* What each control point of sys_fork knows.                              *)
ForkOK ==
  /\ child # NULL <=> pc \in ForkPoints
  /\ pc \in ForkPoints => pid[child] = next_pid - 1
  /\ pc \in {"fork_mem", "fork_ready"} => state[child] = "FREE"
  /\ pc \in {"fork_link", "fork_push"} => state[child] = "READY" /\ child \notin ReadyQueue
  /\ pc = "fork_push" => next_in_ready_queue[child] = ready_queue_head

IInv ==
  /\ TypeOK
  /\ PidsOK
  /\ LinksOK
  /\ FamilyOK
  /\ SchedOK
  /\ ForkOK
  /\ CpuAgrees
  /\ ReadyQueue \subseteq InState("READY")
  /\ LostOnlyToTimer
  /\ LostOnce

=============================================================================
