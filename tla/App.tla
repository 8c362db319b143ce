-------------------------------- MODULE App --------------------------------
(***************************************************************************)
(* The user program (app/main.c, app/syscall.c) on the kernel.  It is the  *)
(* only program: the boot module create_process loads, and what every fork *)
(* duplicates.  App composes it with Process: each user step is a piece of *)
(* main() or a system call, each kernel step is one of Process.            *)
(*                                                                         *)
(* A forked child does not continue after its parent's fork: sys_fork      *)
(* copies the saved stack frame of the parent as create_process wrote it,  *)
(* so the child enters main() at the beginning.                            *)
(***************************************************************************)
EXTENDS Process

VARIABLES
  upc,       (* where in main() each process is: "start" of main, "fork"   *)
             (* called, the "child" or the "parent" branch, "wait" called, *)
             (* the loop at the "end"                                      *)
  result,    (* what its last fork or wait returned in the kernel          *)
  reported   (* slots that printed "Child process exited"                  *)

appVars == <<upc, result, reported>>

SYS_FORK == 2
SYS_WAIT == 4
ERROR    == -1

AppInit ==
  /\ Init
  /\ upc = [s \in Slots |-> "start"]
  /\ result = [s \in Slots |-> ERROR]
  /\ reported = {}

(* The CPU executes main() at this point.                                  *)
At(p) ==
  /\ pc = "user"
  /\ current_process # NULL
  /\ upc[current_process] = p

Goto(p) == upc' = [upc EXCEPT ![current_process] = p]

(* Mutant: the result reaches the user.                                    *)
UserEax_Result(num, res) == res

(* The value main() finds in eax after int 0x80.  interrupt_handler hands  *)
(* the handler a copy of the saved registers; state.eax = result changes   *)
(* the copy, and popad restores the eax of the call: its number.           *)
UserEax(num, res) == num

-----------------------------------------------------------------------------
(* pid = fork();  a PCB is FREE: see TwoEverRun.                           *)
CallFork(s) ==
  /\ At("start")
  /\ SysFork(s)
  /\ Goto("fork")
  /\ UNCHANGED <<result, reported>>

ForkReturns ==
  /\ \/ ForkPush /\ result' = [result EXCEPT ![current_process] = pid[child]]
     \/ ForkNoMemory /\ result' = [result EXCEPT ![current_process] = ERROR]
  /\ UNCHANGED <<upc, reported>>

(* if (pid < 0) ... else if (pid == 0) ... else ...                        *)
TestPid ==
  /\ At("fork")
  /\ LET p == UserEax(SYS_FORK, result[current_process])
     IN  Goto(IF p < 0 THEN "end" ELSE IF p = 0 THEN "child" ELSE "parent")
  /\ UNCHANGED <<vars, result, reported>>

(* exit(42);  should it return, main() goes on to its final loop.          *)
CallExit ==
  /\ SysExit
  /\ Goto("end")
  /\ UNCHANGED <<result, reported>>

(* child_pid = wait(&status);  sys_wait returns the pid it has just        *)
(* cleared, or -1.                                                         *)
CallWait ==
  /\ SysWait
  /\ Goto("wait")
  /\ result' = [result EXCEPT ![current_process] =
                  IF ZombiesOf(pid[current_process]) = {} THEN ERROR ELSE 0]
  /\ UNCHANGED reported

(* The call the branch taken makes.                                        *)
AfterFork ==
  IF At("child") THEN CallExit ELSE At("parent") /\ CallWait

(* if (child_pid > 0) printf("Child process exited"); ...  while (1) {}    *)
TestChildPid ==
  /\ At("wait")
  /\ Goto("end")
  /\ reported' = IF UserEax(SYS_WAIT, result[current_process]) > 0
                 THEN reported \union {current_process} ELSE reported
  /\ UNCHANGED <<vars, result>>

KernelOnly ==
  /\ \/ Kmain
     \/ Schedule
     \/ ForkCopied \/ ForkReady \/ ForkLink
     \/ Fault
     \/ Tick
     \/ KeyIgnored
     \/ \E q \in Lines : RaiseLine(q)
  /\ UNCHANGED appVars

UserStep == (\E s \in Slots : CallFork(s)) \/ TestPid
              \/ AfterFork \/ TestChildPid

AppNext == UserStep \/ ForkReturns \/ KernelOnly

AppSpec == AppInit /\ [][AppNext]_<<vars, appVars>>

(* A program that is not interrupted executes; the kernel as in Process.   *)
AppFairness ==
  /\ WF_<<vars, appVars>>(UserStep)
  /\ WF_<<vars, appVars>>((Kmain \/ Schedule \/ ForkCopied \/ ForkReady \/ ForkLink) /\ UNCHANGED appVars)
  /\ WF_<<vars, appVars>>(ForkReturns)
  /\ WF_<<vars, appVars>>(Tick /\ UNCHANGED appVars)
  /\ WF_<<vars, appVars>>(RaiseLine(Timer) /\ UNCHANGED appVars)

AppFairSpec == AppSpec /\ AppFairness

-----------------------------------------------------------------------------
(* However many ticks come, no more than two processes ever execute the    *)
(* program and no more than three pids are used: process_table cannot fill *)
(* although sys_wait never empties it, and a fork that finds no PCB does   *)
(* not happen as long as the table has three slots.                        *)
TwoEverRun ==
  /\ \A s, t, u \in Started : s = t \/ t = u \/ s = u
  /\ next_pid <= 4

(* Under AppFairSpec the program ends in its loop or the machine halts;    *)
(* nothing waits for anything.                                             *)
ProgramEnds ==
  pc = "user" ~> pc = "hlt" \/ (current_process # NULL /\ upc[current_process] = "end")

-----------------------------------------------------------------------------
(* app/main.c:20-21: a process that reports "Child process exited" has a   *)
(* child that did exit.                                                    *)
ReportedChildExited ==
  \A s \in reported :
    \E t \in Slots : state[t] = "TERMINATED" /\ parent_pid[t] = pid[s]

(* app/main.c:11-14: a process that was created by fork finds 0 in pid and *)
(* never takes the branch that says "Hello from parent process".           *)
ChildTakesChildBranch ==
  \A s \in Slots : parent_pid[s] # 0 => upc[s] \notin {"parent", "wait"}

=============================================================================
