------------------------- MODULE ProcessDispatches -------------------------
(***************************************************************************)
(* Process implements Dispatcher.  A process schedule() has popped and not *)
(* yet switched to is still waiting; a child sys_fork is setting up has    *)
(* not been created yet; the process on the CPU is the one whose address   *)
(* space is loaded.                                                        *)
(***************************************************************************)
EXTENDS Process

Popped == {"run", "tss", "switch"}
InHand == IF pc \in Popped THEN {current_process} ELSE {}

Newest    == IF child = NULL THEN next_pid - 1 ELSE next_pid - 2
Waiting   == {pid[s] : s \in ReadyQueue \union InHand}
OnCpu     == IF cr3 = NULL THEN 0 ELSE pid[cr3]
CpuDone   == cr3 # NULL /\ state[cr3] = "TERMINATED"
Preempted == Timer \in isr

Abstract ==
  INSTANCE Dispatcher WITH
    last <- Newest, waiting <- Waiting, cpu <- OnCpu, done <- CpuDone, preempted <- Preempted

(* Whatever ticks and system calls interleave, schedule() serves the       *)
(* newest ready process, each one once, and is forced to at most once.     *)
ImplementsDispatcher == Abstract!Spec

(* What Process keeps besides IInv and the mapping needs: the CPU is free  *)
(* whenever schedule() has chosen a process, and the one it popped is      *)
(* newer than all that are queued.                                         *)
HandInv ==
  /\ pc = "boot" => next_pid = 1
  /\ current_process = NULL => cr3 = NULL
  /\ pc \in Popped \union {"pop"} => cr3 = NULL \/ state[cr3] = "TERMINATED"
  /\ pc \in Popped => \A s \in ReadyQueue : pid[s] < pid[current_process]

=============================================================================
