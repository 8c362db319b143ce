----------------------------- MODULE Dispatcher -----------------------------
(***************************************************************************)
(* What the process manager promises, without its table, its list and its  *)
(* control points.  Processes are numbered in the order they are created.  *)
(* The newest waiting process is dispatched when the one on the CPU has    *)
(* exited; once, and only once, a dispatch may also happen at any other    *)
(* time, and then every process newer than the one it picks is forgotten.  *)
(* Nobody is dispatched twice.                                             *)
(***************************************************************************)
EXTENDS Integers

VARIABLES
  last,       (* the newest process there has been                         *)
  waiting,    (* processes that may still be dispatched                    *)
  cpu,        (* the process on the CPU, 0 before the first                *)
  done,       (* it has exited                                             *)
  preempted   (* the one preemption has happened                           *)

dispatcherVars == <<last, waiting, cpu, done, preempted>>

Init ==
  /\ last = 0
  /\ waiting = {}
  /\ cpu = 0
  /\ done = FALSE
  /\ preempted = FALSE

(* A process joins.  Only the boot code, before anything else exists, and  *)
(* the process on the CPU create processes.                                *)
Create ==
  /\ cpu # 0 \/ last = 0
  /\ last' = last + 1
  /\ waiting' = waiting \union {last + 1}
  /\ UNCHANGED <<cpu, done, preempted>>

(* A number is used up by a creation that failed.                          *)
Fail ==
  /\ cpu # 0 \/ last = 0
  /\ last' = last + 1
  /\ UNCHANGED <<waiting, cpu, done, preempted>>

Exit ==
  /\ cpu # 0
  /\ done' = TRUE
  /\ UNCHANGED <<last, waiting, cpu, preempted>>

(* The newest waiting process gets a CPU that is free.                     *)
Yield(p) ==
  /\ cpu = 0 \/ done
  /\ p \in waiting
  /\ \A q \in waiting : q <= p
  /\ waiting' = waiting \ {p}
  /\ cpu' = p
  /\ done' = FALSE
  /\ UNCHANGED <<last, preempted>>

(* The CPU is taken away, possibly while a creation is under way.          *)
Preempt(p) ==
  /\ ~preempted
  /\ p \in waiting
  /\ waiting' = {q \in waiting : q < p}
  /\ cpu' = p
  /\ done' = FALSE
  /\ preempted' = TRUE
  /\ last' \in {last, last + 1}

Next ==
  \/ Create
  \/ Fail
  \/ Exit
  \/ \E p \in waiting : Yield(p) \/ Preempt(p)

Spec == Init /\ [][Next]_dispatcherVars

=============================================================================
