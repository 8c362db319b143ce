--------------------------- MODULE Process_proofs ---------------------------
(***************************************************************************)
(* What holds of Process for every size of the table and every number of   *)
(* pids, that Process implements Dispatcher, and what the user program     *)
(* does on it: App never executes more than two processes.                 *)
(***************************************************************************)
EXTENDS ProcessDispatches, App, TLAPS

-----------------------------------------------------------------------------
(***************************************************************************)
(* The ready queue as the least linked set.                                *)
(***************************************************************************)

(* The queue holds its head and is closed under the links.                 *)
LEMMA QueueLinked ==
  ASSUME NEW head \in Slots \union {NULL},
         NEW next \in [Slots -> Slots \union {NULL}]
  PROVE  /\ Queue(head, next) \subseteq Slots
         /\ Linked(head, next, Queue(head, next))
PROOF BY DEF Queue, Linked

(* Anything linked contains the queue.                                     *)
LEMMA QueueLeast ==
  ASSUME NEW head \in Slots \union {NULL},
         NEW next \in [Slots -> Slots \union {NULL}],
         NEW S \in SUBSET Slots, Linked(head, next, S)
  PROVE  Queue(head, next) \subseteq S
PROOF BY DEF Queue

(* schedule(): the queue without its head is the queue of the next one.    *)
LEMMA QueuePop ==
  ASSUME NEW head \in Slots,
         NEW next \in [Slots -> Slots \union {NULL}],
         NEW rank \in [Slots -> Nat],
         \A s \in Slots : next[s] # NULL => rank[next[s]] < rank[s]
  PROVE  /\ Queue(next[head], next) \subseteq Queue(head, next)
         /\ Queue(head, next) \subseteq Queue(next[head], next) \union {head}
         /\ head \notin Queue(next[head], next)
PROOF
<1> DEFINE old == Queue(head, next)
           new == Queue(next[head], next)
<1>0. head # NULL
  BY NullAssumption DEF Slots
<1>1. Linked(head, next, old) /\ old \subseteq Slots
  BY QueueLinked
<1>2. Linked(next[head], next, new) /\ new \subseteq Slots
  BY QueueLinked
<1>3. new \subseteq old
  <2>1. Linked(next[head], next, old)
    BY <1>0, <1>1 DEF Linked
  <2> QED BY <2>1, <1>1, QueueLeast
<1>4. old \subseteq new \union {head}
  <2>1. Linked(head, next, new \union {head})
    BY <1>2 DEF Linked
  <2> QED BY <2>1, <1>2, QueueLeast
<1>5. head \notin new
  <2> DEFINE older == {s \in Slots : rank[s] < rank[head]}
  <2>1. Linked(next[head], next, older)
    BY DEF Linked
  <2>2. new \subseteq older
    BY <2>1, QueueLeast
  <2> QED BY <2>2
<1> QED BY <1>3, <1>4, <1>5

(* A link of a process that is not queued does not matter.                 *)
LEMMA QueueElsewhere ==
  ASSUME NEW head \in Slots \union {NULL},
         NEW next \in [Slots -> Slots \union {NULL}],
         NEW next2 \in [Slots -> Slots \union {NULL}],
         NEW c \in Slots, c \notin Queue(head, next),
         \A s \in Slots \ {c} : next2[s] = next[s]
  PROVE  Queue(head, next2) = Queue(head, next)
PROOF
<1> DEFINE old == Queue(head, next)
           new == Queue(head, next2)
<1>1. Linked(head, next, old) /\ old \subseteq Slots
  BY QueueLinked
<1>2. Linked(head, next2, new) /\ new \subseteq Slots
  BY QueueLinked
<1>3. new \subseteq old
  <2>1. Linked(head, next2, old)
    BY <1>1 DEF Linked
  <2> QED BY <2>1, <1>1, QueueLeast
<1>4. old \subseteq new
  <2>1. Linked(head, next, new)
    BY <1>2, <1>3 DEF Linked
  <2> QED BY <2>1, <1>2, QueueLeast
<1> QED BY <1>3, <1>4

(* sys_fork, create_process: pushing a process that links to the head.     *)
LEMMA QueuePush ==
  ASSUME NEW head \in Slots \union {NULL},
         NEW next \in [Slots -> Slots \union {NULL}],
         NEW next2 \in [Slots -> Slots \union {NULL}],
         NEW c \in Slots, c \notin Queue(head, next), next2[c] = head,
         \A s \in Slots \ {c} : next2[s] = next[s]
  PROVE  Queue(c, next2) = Queue(head, next) \union {c}
PROOF
<1> DEFINE old == Queue(head, next)
           new == Queue(c, next2)
<1>0. c # NULL
  BY NullAssumption DEF Slots
<1>1. Linked(head, next, old) /\ old \subseteq Slots
  BY QueueLinked
<1>2. Linked(c, next2, new) /\ new \subseteq Slots /\ c \in new
  BY <1>0, QueueLinked DEF Linked
<1>3. new \subseteq old \union {c}
  <2>1. Linked(c, next2, old \union {c})
    BY <1>1 DEF Linked
  <2> QED BY <2>1, <1>1, QueueLeast
<1>4. old \subseteq new
  <2>1. Linked(head, next, old \intersect new)
    BY <1>1, <1>2 DEF Linked
  <2> QED BY <2>1, <1>2, QueueLeast
<1> QED BY <1>2, <1>3, <1>4

(* An empty list has an empty queue.                                       *)
LEMMA QueueEmpty ==
  ASSUME NEW next \in [Slots -> Slots \union {NULL}]
  PROVE  Queue(NULL, next) = {}
PROOF
<1>1. Linked(NULL, next, {})
  BY DEF Linked
<1> QED BY <1>1, QueueLeast

-----------------------------------------------------------------------------
(***************************************************************************)
(* The inductive invariant.                                                *)
(***************************************************************************)

(* A process without a parent has no slot for one.                          *)
LEMMA NullIsNoSlot == NULL \notin Slots
PROOF BY NullAssumption DEF Slots

(* No process exists when kmain starts.                                    *)
LEMMA InitIInv == Init => IInv
PROOF
<1> SUFFICES ASSUME Init PROVE IInv
  OBVIOUS
<1> USE DEF Init, States, Points, SchedPoints, ForkPoints, PicInit
<1>1. ReadyQueue = {}
  BY QueueEmpty DEF ReadyQueue
<1>2. TypeOK
  BY DEF TypeOK, PicTypeOK
<1>3. PidsOK /\ LinksOK /\ FamilyOK
  BY DEF PidsOK, LinksOK, FamilyOK, Started, InState
<1>4. SchedOK /\ ForkOK /\ CpuAgrees
  BY DEF SchedOK, ForkOK, CpuAgrees
<1>5. Lost = {}
  BY DEF Lost, InState
<1> QED BY <1>1, <1>2, <1>3, <1>4, <1>5 DEF IInv, LostOnlyToTimer, LostOnce

(* A READY process is queued or in somebody's hands, or was lost.          *)
LEMMA ReadyOrLost ==
  ASSUME IInv, NEW s \in Slots, state[s] = "READY", s \notin Lost
  PROVE  s \in ReadyQueue \/ s = current_process \/ s = child
PROOF BY DEF Lost, InState

(* The head of the queue is a READY process.                               *)
LEMMA HeadReady ==
  ASSUME IInv, ready_queue_head # NULL
  PROVE  /\ ready_queue_head \in Slots
         /\ ready_queue_head \in ReadyQueue
         /\ state[ready_queue_head] = "READY"
PROOF
<1>1. ready_queue_head \in Slots /\ next_in_ready_queue \in [Slots -> Slots \union {NULL}]
  BY DEF IInv, TypeOK
<1>2. ready_queue_head \in ReadyQueue
  BY <1>1, QueueLinked DEF ReadyQueue, Linked
<1> QED BY <1>1, <1>2 DEF IInv, InState

(* Popping it leaves the rest.                                             *)
LEMMA PopHead ==
  ASSUME IInv, ready_queue_head # NULL,
         NEW rest, rest = Queue(next_in_ready_queue[ready_queue_head], next_in_ready_queue)
  PROVE  /\ rest = ReadyQueue \ {ready_queue_head}
         /\ next_in_ready_queue[ready_queue_head] \in Slots \union {NULL}
         /\ next_in_ready_queue[ready_queue_head] # NULL =>
              state[next_in_ready_queue[ready_queue_head]] # "FREE"
PROOF
<1>1. /\ ready_queue_head \in Slots
      /\ next_in_ready_queue \in [Slots -> Slots \union {NULL}]
      /\ pid \in [Slots -> Nat]
  BY HeadReady DEF IInv, TypeOK
<1>2. \A s \in Slots : next_in_ready_queue[s] # NULL =>
        pid[next_in_ready_queue[s]] < pid[s]
  BY DEF IInv, LinksOK
<1>3. /\ rest \subseteq ReadyQueue
      /\ ReadyQueue \subseteq rest \union {ready_queue_head}
      /\ ready_queue_head \notin rest
  BY <1>1, <1>2, QueuePop DEF ReadyQueue
<1> QED BY <1>1, <1>3 DEF IInv, LinksOK

(* A step that only moves the CPU between points that promise no more      *)
(* keeps every part about the table.                                       *)
LEMMA TableKept ==
  ASSUME IInv, UNCHANGED <<tableVars, ready_queue_head>>
  PROVE  /\ ReadyQueue' = ReadyQueue
         /\ PidsOK'
         /\ LinksOK'
         /\ Started' = Started
         /\ (ReadyQueue \subseteq InState("READY"))'
PROOF
<1> USE DEF tableVars, IInv
<1>1. ReadyQueue' = ReadyQueue
  BY DEF ReadyQueue
<1>2. PidsOK'
  BY DEF PidsOK
<1>3. LinksOK'
  BY DEF LinksOK
<1>4. Started' = Started /\ InState("READY")' = InState("READY")
  BY DEF Started, InState
<1> QED BY <1>1, <1>2, <1>3, <1>4

(* A step that loses nothing new keeps what is known of lost processes.    *)
LEMMA NothingLost ==
  ASSUME IInv, Lost' \subseteq Lost, Timer \in isr => Timer \in isr',
         \A s \in Lost' : state'[s] = state[s]
  PROVE  LostOnlyToTimer' /\ LostOnce'
PROOF BY DEF IInv, LostOnlyToTimer, LostOnce

(* The steps of schedule() that change neither a process nor the list.     *)
LEMMA SchedQuiet ==
  IInv /\ (SchedNone \/ SchedTake \/ SchedTss \/ SchedSwitch) => IInv'
PROOF
<1> SUFFICES ASSUME IInv, SchedNone \/ SchedTake \/ SchedTss \/ SchedSwitch
             PROVE  IInv'
  OBVIOUS
<1> USE DEF SchedNone, SchedTake, SchedTss, SchedSwitch
<1>1. /\ UNCHANGED <<tableVars, ready_queue_head>>
      /\ UNCHANGED <<child, picVars>>
  BY DEF tableVars, cpuVars
<1>2. /\ ReadyQueue' = ReadyQueue
      /\ PidsOK' /\ LinksOK'
      /\ Started' = Started
      /\ (ReadyQueue \subseteq InState("READY"))'
  BY <1>1, TableKept
<1>3. ready_queue_head # NULL =>
        /\ ready_queue_head \in Slots
        /\ ready_queue_head \in ReadyQueue
        /\ state[ready_queue_head] = "READY"
  BY HeadReady
<1>4. TypeOK'
  BY <1>1, <1>3 DEF IInv, TypeOK, PicTypeOK, tableVars, cpuVars, picVars, Points, SchedPoints
<1>5. FamilyOK'
  <2>1. CASE SchedTake
    <3>1. ASSUME NEW s \in Started, parent_pid[s] = pid[ready_queue_head]
          PROVE  FALSE
      <4>1. s \in Slots /\ pid[ready_queue_head] # 0
        BY <1>3, <2>1 DEF IInv, PidsOK, Started, InState
      <4>2. PICK t \in Started : pid[t] = parent_pid[s]
        BY <3>1, <4>1 DEF IInv, FamilyOK
      <4>3. t = ready_queue_head
        BY <1>3, <2>1, <3>1, <4>1, <4>2 DEF IInv, PidsOK, Started, InState
      <4> QED BY <1>3, <2>1, <4>2, <4>3 DEF Started, InState
    <3> QED BY <1>1, <1>2, <2>1, <3>1 DEF IInv, FamilyOK, tableVars
  <2>2. CASE SchedNone \/ SchedTss \/ SchedSwitch
    BY <1>1, <1>2, <2>2 DEF IInv, FamilyOK, tableVars, cpuVars
  <2> QED BY <2>1, <2>2
<1>6. SchedOK'
  BY <1>1, <1>2, <1>3 DEF IInv, SchedOK, tableVars, cpuVars, ForkPoints
<1>7. ForkOK'
  BY <1>1, <1>2 DEF IInv, ForkOK, tableVars, cpuVars, ForkPoints
<1>8. CpuAgrees'
  BY <1>1, <1>2 DEF IInv, CpuAgrees, SchedOK, TypeOK, Started, InState, tableVars, cpuVars, ForkPoints
<1>9. LostOnlyToTimer' /\ LostOnce'
  <2>1. Lost' \subseteq Lost
    BY <1>1, <1>2, <1>3, NullIsNoSlot DEF IInv, SchedOK, Lost, InState, tableVars, cpuVars
  <2> QED BY <1>1, <2>1, NothingLost DEF tableVars, picVars
<1> QED BY <1>2, <1>4, <1>5, <1>6, <1>7, <1>8, <1>9 DEF IInv

(* schedule() takes the head out of the queue.                             *)
LEMMA SchedPopIInv == IInv /\ SchedPop => IInv'
PROOF
<1> SUFFICES ASSUME IInv, SchedPop PROVE IInv'
  OBVIOUS
<1> USE DEF SchedPop
<1>1. /\ UNCHANGED <<tableVars, current_process, child, picVars>>
      /\ current_process = ready_queue_head
      /\ ready_queue_head # NULL
  BY NullIsNoSlot DEF IInv, SchedOK, tableVars, cpuVars
<1>2. /\ ReadyQueue' = ReadyQueue \ {ready_queue_head}
      /\ ready_queue_head' \in Slots \union {NULL}
      /\ ready_queue_head' # NULL => state[ready_queue_head'] # "FREE"
  BY <1>1, PopHead DEF ReadyQueue, tableVars
<1>3. ready_queue_head \in Slots /\ state[ready_queue_head] = "READY"
  BY <1>1, HeadReady
<1>4. Started' = Started /\ InState("READY")' = InState("READY")
  BY <1>1 DEF Started, InState, tableVars
<1>5. TypeOK'
  BY <1>1, <1>2 DEF IInv, TypeOK, PicTypeOK, tableVars, cpuVars, picVars, Points, SchedPoints
<1>6. PidsOK' /\ FamilyOK'
  BY <1>1, <1>4 DEF IInv, PidsOK, FamilyOK, tableVars
<1>7. LinksOK'
  BY <1>1, <1>2 DEF IInv, LinksOK, tableVars
<1>8. SchedOK' /\ ForkOK' /\ CpuAgrees'
  BY <1>1, <1>2, <1>3 DEF IInv, SchedOK, ForkOK, CpuAgrees, tableVars, cpuVars, ForkPoints
<1>9. LostOnlyToTimer' /\ LostOnce'
  <2>1. Lost' \subseteq Lost
    BY <1>1, <1>2 DEF Lost, InState, tableVars
  <2> QED BY <1>1, <2>1, NothingLost DEF tableVars, picVars
<1> QED BY <1>2, <1>4, <1>5, <1>6, <1>7, <1>8, <1>9 DEF IInv

(* schedule() marks the popped process RUNNING.                            *)
LEMMA SchedRunIInv == IInv /\ SchedRun => IInv'
PROOF
<1> SUFFICES ASSUME IInv, SchedRun PROVE IInv'
  OBVIOUS
<1> USE DEF SchedRun
<1>1. /\ UNCHANGED <<pid, parent_pid, next_in_ready_queue, next_pid, cpuVars, child, picVars>>
      /\ current_process \in Slots
      /\ state[current_process] = "READY"
      /\ current_process \notin ReadyQueue
      /\ state' = [state EXCEPT ![current_process] = "RUNNING"]
      /\ state \in [Slots -> States]
  BY DEF IInv, SchedOK, TypeOK
<1>2. ReadyQueue' = ReadyQueue
  BY <1>1 DEF ReadyQueue, cpuVars
<1>3. Started' = Started \union {current_process}
  BY <1>1 DEF Started, InState
<1>4. (ReadyQueue \subseteq InState("READY"))'
  BY <1>1, <1>2 DEF IInv, InState
<1>5. TypeOK'
  BY <1>1 DEF IInv, TypeOK, PicTypeOK, cpuVars, picVars, Points, SchedPoints, States
<1>6. PidsOK' /\ LinksOK'
  BY <1>1 DEF IInv, PidsOK, LinksOK, TypeOK, cpuVars
<1>7. FamilyOK'
  <2>1. parent_pid[current_process] # pid[current_process]
    BY <1>1 DEF IInv, FamilyOK, PidsOK, Started, InState
  <2> QED BY <1>1, <1>3, <2>1 DEF IInv, FamilyOK, cpuVars
<1>8. SchedOK' /\ ForkOK' /\ CpuAgrees'
  BY <1>1, <1>2, NullIsNoSlot DEF IInv, SchedOK, ForkOK, CpuAgrees, cpuVars, ForkPoints
<1>9. LostOnlyToTimer' /\ LostOnce'
  <2>1. Lost' \subseteq Lost
    BY <1>1, <1>2 DEF Lost, InState, cpuVars
  <2>2. \A s \in Lost' : state'[s] = state[s]
    BY <1>1 DEF Lost, InState, cpuVars
  <2> QED BY <1>1, <2>1, <2>2, NothingLost DEF picVars
<1> QED BY <1>4, <1>5, <1>6, <1>7, <1>8, <1>9 DEF IInv

(* Pids: a new one is different from all others.                           *)
LEMMA AllocateKept ==
  ASSUME IInv, NEW c \in Slots, AllocatePcb(c)
  PROVE  /\ state[c] = "FREE"
         /\ pid' \in [Slots -> Nat]
         /\ next_pid' \in Nat
         /\ next_pid' = next_pid + 1
         /\ pid'[c] = next_pid
         /\ \A s \in Slots \ {c} : pid'[s] = pid[s]
         /\ \A s \in Slots : pid[s] < next_pid
         /\ next_pid # 0
PROOF BY DEF IInv, TypeOK, PidsOK, AllocatePcb, IsFirst, InState

(* kmain: create_process puts the first process in the queue.              *)
LEMMA KmainCreateIInv == \A c \in Slots : IInv /\ KmainCreate(c) => IInv'
PROOF
<1> SUFFICES ASSUME NEW c \in Slots, IInv, KmainCreate(c) PROVE IInv'
  OBVIOUS
<1> USE DEF KmainCreate
<1>1. /\ state[c] = "FREE"
      /\ pid' \in [Slots -> Nat]
      /\ next_pid' \in Nat
      /\ next_pid' = next_pid + 1
      /\ pid'[c] = next_pid
      /\ \A s \in Slots \ {c} : pid'[s] = pid[s]
      /\ \A s \in Slots : pid[s] < next_pid
      /\ next_pid # 0
  BY AllocateKept
<1>2. /\ TypeOK
      /\ current_process = NULL
      /\ child = NULL
      /\ c \notin ReadyQueue
  BY <1>1 DEF IInv, SchedOK, ForkOK, ForkPoints, InState
<1>3. ReadyQueue' = ReadyQueue \union {c}
  <2>1. /\ ready_queue_head \in Slots \union {NULL}
        /\ next_in_ready_queue \in [Slots -> Slots \union {NULL}]
        /\ next_in_ready_queue' \in [Slots -> Slots \union {NULL}]
        /\ c \notin Queue(ready_queue_head, next_in_ready_queue)
        /\ next_in_ready_queue'[c] = ready_queue_head
        /\ \A s \in Slots \ {c} : next_in_ready_queue'[s] = next_in_ready_queue[s]
        /\ ready_queue_head' = c
    BY <1>2 DEF TypeOK, ReadyQueue
  <2> HIDE DEF KmainCreate
  <2> QED BY <2>1, QueuePush DEF ReadyQueue
<1>4. Started' = Started
  BY <1>1, <1>2 DEF Started, InState, TypeOK
<1>5. TypeOK'
  BY <1>1, <1>2 DEF TypeOK, PicTypeOK, picVars, Points, SchedPoints, States
<1>6. PidsOK'
  BY <1>1, <1>2 DEF IInv, PidsOK, TypeOK
<1>7. LinksOK'
  BY <1>1, <1>2, NullIsNoSlot DEF IInv, LinksOK, TypeOK
<1>8. FamilyOK'
  BY <1>1, <1>2, <1>4 DEF IInv, FamilyOK, Started, InState
<1>9. SchedOK' /\ ForkOK' /\ CpuAgrees'
  BY <1>2 DEF SchedOK, ForkOK, CpuAgrees, ForkPoints
<1>10. (ReadyQueue \subseteq InState("READY"))'
  BY <1>2, <1>3 DEF IInv, InState, TypeOK
<1>11. LostOnlyToTimer' /\ LostOnce'
  <2>1. Lost' \subseteq Lost /\ \A s \in Lost' : state'[s] = state[s]
    BY <1>1, <1>2, <1>3 DEF Lost, InState, TypeOK
  <2> QED BY <2>1, NothingLost DEF picVars
<1> QED BY <1>5, <1>6, <1>7, <1>8, <1>9, <1>10, <1>11 DEF IInv

(* wait reaps nothing, and the steps that leave processes and scheduler    *)
(* alone.                                                                  *)
LEMMA NoZombieToReap ==
  ASSUME IInv, current_process # NULL
  PROVE  ZombiesOf(pid[current_process]) = {}
PROOF BY DEF IInv, FamilyOK, ZombiesOf, Started, InState

(* Steps that leave the table and the queue as they are keep the invariant: *)
(* a boot without a process, a wait (which reaps nothing), a fork that has  *)
(* copied its memory, a fault, and every interrupt that does not switch.    *)
LEMMA QuietIInv ==
  IInv /\ (\/ KmainNoModule \/ KmainStops \/ SysWait \/ ForkCopied \/ Fault
           \/ TickReturn \/ KeyIgnored \/ \E q \in Lines : RaiseLine(q)) => IInv'
PROOF
<1> SUFFICES ASSUME IInv,
                    \/ KmainNoModule \/ KmainStops \/ SysWait \/ ForkCopied \/ Fault
                    \/ TickReturn \/ KeyIgnored \/ \E q \in Lines : RaiseLine(q)
             PROVE  IInv'
  OBVIOUS
<1>1. /\ UNCHANGED <<tableVars, cpuVars>>
      /\ UNCHANGED child \/ child' = NULL
  BY NoZombieToReap DEF KmainNoModule, KmainStops, SysWait, ForkCopied, Fault,
       TickReturn, KeyIgnored, RaiseLine, tableVars
<1>2. /\ irr' \subseteq Lines
      /\ isr' \subseteq Lines
      /\ Timer \in isr <=> Timer \in isr'
  <2>1. irr \subseteq Lines /\ isr \subseteq Lines
    BY DEF IInv, TypeOK, PicTypeOK
  <2>2. CASE UNCHANGED picVars
    BY <2>1, <2>2 DEF picVars
  <2>3. CASE TickReturn
    <3>1. Timer \notin isr
      BY <2>3 DEF TickReturn, Deliverable, Timer
    <3>2. irr' = irr \ {Timer} /\ isr' = isr
      BY <2>3, <3>1 DEF TickReturn, Acknowledged, Highest
    <3> QED BY <2>1, <3>1, <3>2
  <2>4. CASE KeyIgnored
    BY <2>1, <2>4 DEF KeyIgnored, Lines, Timer, Keyboard
  <2>5. CASE \E q \in Lines : RaiseLine(q)
    BY <2>1, <2>5 DEF RaiseLine, Raise
  <2> QED BY <2>2, <2>3, <2>4, <2>5
       DEF KmainNoModule, KmainStops, SysWait, ForkCopied, Fault
<1>3. /\ ReadyQueue' = ReadyQueue
      /\ PidsOK' /\ LinksOK'
      /\ Started' = Started
      /\ (ReadyQueue \subseteq InState("READY"))'
  BY <1>1, TableKept DEF cpuVars
<1>4. \/ UNCHANGED <<pc, child>>
      \/ pc = "boot" /\ pc' \in {"sched", "stopped"} /\ UNCHANGED child
      \/ pc = "fork_mem" /\ pc' = "fork_ready" /\ UNCHANGED child
      \/ pc \in {"user", "fork_mem"} /\ pc' = "hlt" /\ child' = NULL
  BY DEF KmainNoModule, KmainStops, SysWait, ForkCopied, Fault, TickReturn, KeyIgnored, RaiseLine
<1>5. TypeOK'
  BY <1>1, <1>2, <1>4 DEF IInv, TypeOK, PicTypeOK, tableVars, cpuVars, Points, SchedPoints, ForkPoints
<1>6. FamilyOK'
  BY <1>1, <1>3 DEF IInv, FamilyOK, tableVars, cpuVars
<1>7. SchedOK'
  BY <1>1, <1>3, <1>4 DEF IInv, SchedOK, tableVars, cpuVars
<1>8. ForkOK'
  BY <1>1, <1>3, <1>4 DEF IInv, ForkOK, tableVars, cpuVars, ForkPoints
<1>9. CpuAgrees'
  BY <1>1, <1>3, <1>4 DEF IInv, CpuAgrees, tableVars, cpuVars, ForkPoints
<1>10. LostOnlyToTimer' /\ LostOnce'
  <2>1. child' # child => child \notin InState("READY")
    BY <1>1, <1>4 DEF IInv, ForkOK, InState, ForkPoints
  <2>2. Lost' \subseteq Lost
    BY <1>1, <1>3, <2>1 DEF Lost, InState, tableVars, cpuVars
  <2> QED BY <1>1, <1>2, <2>2, NothingLost DEF tableVars
<1> QED BY <1>3, <1>5, <1>6, <1>7, <1>8, <1>9, <1>10 DEF IInv

(* Creation begins, in kmain (where it then fails) or in sys_fork: only a  *)
(* FREE slot changes.                                                      *)
LEMMA AllocateIInv ==
  \A c \in Slots : IInv /\ (KmainCreateFails(c) \/ SysFork(c)) => IInv'
PROOF
<1> SUFFICES ASSUME NEW c \in Slots, IInv, KmainCreateFails(c) \/ SysFork(c) PROVE IInv'
  OBVIOUS
<1> USE DEF KmainCreateFails, SysFork
<1>1. /\ state[c] = "FREE"
      /\ pid' \in [Slots -> Nat]
      /\ next_pid' \in Nat
      /\ next_pid' = next_pid + 1
      /\ pid'[c] = next_pid
      /\ \A s \in Slots \ {c} : pid'[s] = pid[s]
      /\ \A s \in Slots : pid[s] < next_pid
      /\ next_pid # 0
  BY AllocateKept
<1>2. UNCHANGED <<state, next_in_ready_queue, cpuVars, picVars>>
  OBVIOUS
<1>3. ReadyQueue' = ReadyQueue /\ Started' = Started /\ InState("READY")' = InState("READY")
  BY <1>2 DEF ReadyQueue, Started, InState, cpuVars
<1>4. TypeOK /\ Started \subseteq Slots \ {c} /\ child = NULL /\ c # NULL
  BY <1>1, NullIsNoSlot DEF IInv, Started, InState, ForkOK, ForkPoints
<1>5. TypeOK'
  BY <1>1, <1>2, <1>4 DEF TypeOK, PicTypeOK, cpuVars, picVars, Points, SchedPoints, ForkPoints
<1>6. PidsOK'
  BY <1>1, <1>2 DEF IInv, PidsOK, TypeOK
<1>7. LinksOK'
  BY <1>1, <1>2 DEF IInv, LinksOK, TypeOK, cpuVars
<1>8. FamilyOK'
  <2>1. CASE KmainCreateFails(c)
    BY <1>1, <1>2, <1>3, <1>4, <2>1 DEF IInv, FamilyOK, cpuVars, SchedOK
  <2>2. CASE SysFork(c)
    <3>1. current_process \in Started /\ UNCHANGED current_process
      BY <2>2 DEF IInv, CpuAgrees, cpuVars
    <3>2. parent_pid' = [parent_pid EXCEPT ![c] = pid[current_process]]
      BY <2>2
    <3> HIDE DEF SysFork, KmainCreateFails
    <3> QED BY <1>1, <1>2, <1>3, <1>4, <3>1, <3>2 DEF IInv, FamilyOK, TypeOK
  <2> QED BY <2>1, <2>2
<1>9. SchedOK' /\ CpuAgrees'
  BY <1>2, <1>3 DEF IInv, SchedOK, CpuAgrees, cpuVars, ForkPoints
<1>10. ForkOK'
  BY <1>1, <1>2, <1>3, <1>4 DEF ForkOK, ForkPoints
<1>11. LostOnlyToTimer' /\ LostOnce'
  <2>1. Lost' \subseteq Lost
    BY <1>1, <1>2, <1>3, <1>4, NullIsNoSlot DEF Lost, InState, cpuVars
  <2> QED BY <1>2, <2>1, NothingLost DEF picVars
<1> QED BY <1>3, <1>5, <1>6, <1>7, <1>8, <1>9, <1>10, <1>11 DEF IInv

(* sys_fork gives up, or marks its child READY.                            *)
LEMMA ForkStateIInv == IInv /\ (ForkNoMemory \/ ForkReady) => IInv'
PROOF
<1> SUFFICES ASSUME IInv, ForkNoMemory \/ ForkReady PROVE IInv'
  OBVIOUS
<1> USE DEF ForkNoMemory, ForkReady
<1>1. /\ UNCHANGED <<pid, parent_pid, next_in_ready_queue, next_pid, cpuVars, picVars>>
      /\ TypeOK
      /\ child \in Slots
      /\ state[child] = "FREE"
      /\ pid[child] = next_pid - 1
      /\ child \notin ReadyQueue
      /\ current_process \in Started
  BY NullIsNoSlot DEF IInv, ForkOK, ForkPoints, TypeOK, CpuAgrees, InState
<1>2. /\ \A s \in Slots \ {child} : state'[s] = state[s]
      /\ state'[child] \in {"FREE", "READY"}
      /\ state' \in [Slots -> States]
  BY <1>1 DEF TypeOK, States
<1>3. ReadyQueue' = ReadyQueue
  BY <1>1 DEF ReadyQueue, cpuVars
<1>4. Started' = Started
  BY <1>1, <1>2 DEF Started, InState
<1>5. TypeOK'
  BY <1>1, <1>2 DEF TypeOK, PicTypeOK, cpuVars, picVars, Points, ForkPoints
<1>6. PidsOK' /\ LinksOK'
  <2>1. (next_pid # 0 /\ next_pid - 1 # 0) \/ state'[child] = "FREE"
    BY <1>1, <1>2 DEF IInv, PidsOK, CpuAgrees, Started, InState, TypeOK, ForkPoints
  <2> QED BY <1>1, <1>2, <2>1 DEF IInv, PidsOK, LinksOK, cpuVars, TypeOK
<1>7. FamilyOK'
  BY <1>1, <1>4 DEF IInv, FamilyOK, cpuVars
<1>8. SchedOK' /\ CpuAgrees'
  BY <1>1, <1>2, <1>4 DEF IInv, SchedOK, CpuAgrees, cpuVars, ForkPoints
<1>9. ForkOK'
  BY <1>1, <1>2, <1>3 DEF IInv, ForkOK, ForkPoints, TypeOK
<1>10. (ReadyQueue \subseteq InState("READY"))'
  BY <1>1, <1>2, <1>3 DEF IInv, InState
<1>11. LostOnlyToTimer' /\ LostOnce'
  <2>1. Lost' \subseteq Lost /\ \A s \in Lost' : state'[s] = state[s]
    BY <1>1, <1>2, <1>3 DEF Lost, InState, cpuVars
  <2> QED BY <1>1, <2>1, NothingLost DEF picVars
<1> QED BY <1>5, <1>6, <1>7, <1>8, <1>9, <1>10, <1>11 DEF IInv

(* sys_fork links its child to the queue.                                  *)
LEMMA ForkLinkIInv == IInv /\ ForkLink => IInv'
PROOF
<1> SUFFICES ASSUME IInv, ForkLink PROVE IInv'
  OBVIOUS
<1> USE DEF ForkLink
<1>1. /\ UNCHANGED <<state, pid, parent_pid, next_pid, cpuVars, child, picVars>>
      /\ TypeOK
      /\ child \in Slots
      /\ state[child] = "READY"
      /\ pid[child] = next_pid - 1
      /\ child \notin ReadyQueue
      /\ next_in_ready_queue'[child] = ready_queue_head
      /\ next_in_ready_queue' \in [Slots -> Slots \union {NULL}]
      /\ \A s \in Slots \ {child} : next_in_ready_queue'[s] = next_in_ready_queue[s]
  BY NullIsNoSlot DEF IInv, ForkOK, ForkPoints, TypeOK
<1>2. ReadyQueue' = ReadyQueue
  <2>1. /\ ready_queue_head \in Slots \union {NULL}
        /\ next_in_ready_queue \in [Slots -> Slots \union {NULL}]
        /\ child \notin Queue(ready_queue_head, next_in_ready_queue)
        /\ ready_queue_head' = ready_queue_head
    BY <1>1 DEF TypeOK, ReadyQueue, cpuVars
  <2> HIDE DEF ForkLink
  <2> QED BY <1>1, <2>1, QueueElsewhere DEF ReadyQueue
<1>3. Started' = Started /\ InState("READY")' = InState("READY")
  BY <1>1 DEF Started, InState
<1>4. TypeOK'
  BY <1>1 DEF TypeOK, PicTypeOK, cpuVars, picVars, Points, ForkPoints
<1>5. PidsOK' /\ FamilyOK'
  BY <1>1, <1>3 DEF IInv, PidsOK, FamilyOK, cpuVars
<1>6. LinksOK'
  <2>1. ready_queue_head # NULL => pid[ready_queue_head] < pid[child]
    <3> SUFFICES ASSUME ready_queue_head # NULL
                 PROVE  pid[ready_queue_head] < pid[child]
      OBVIOUS
    <3>1. ready_queue_head \in Slots \ {child} /\ state[ready_queue_head] = "READY"
      BY <1>1, HeadReady
    <3>2. pid[ready_queue_head] < next_pid /\ pid[ready_queue_head] # pid[child]
      BY <1>1, <3>1 DEF IInv, PidsOK
    <3> QED BY <1>1, <3>1, <3>2 DEF TypeOK
  <2> QED BY <1>1, <2>1 DEF IInv, LinksOK, cpuVars
<1>7. SchedOK' /\ CpuAgrees' /\ ForkOK'
  BY <1>1, <1>2, <1>3 DEF IInv, SchedOK, CpuAgrees, ForkOK, cpuVars, ForkPoints
<1>8. LostOnlyToTimer' /\ LostOnce'
  <2>1. Lost' \subseteq Lost
    BY <1>1, <1>2 DEF Lost, InState, cpuVars
  <2> QED BY <1>1, <2>1, NothingLost DEF picVars
<1> QED BY <1>2, <1>3, <1>4, <1>5, <1>6, <1>7, <1>8 DEF IInv

(* sys_fork makes its child the head of the queue.                         *)
LEMMA ForkPushIInv == IInv /\ ForkPush => IInv'
PROOF
<1> SUFFICES ASSUME IInv, ForkPush PROVE IInv'
  OBVIOUS
<1> USE DEF ForkPush
<1>1. /\ UNCHANGED <<tableVars, current_process, esp0, cr3, picVars>>
      /\ TypeOK
      /\ child \in Slots
      /\ state[child] = "READY"
      /\ child \notin ReadyQueue
      /\ next_in_ready_queue[child] = ready_queue_head
      /\ current_process # NULL
  BY NullIsNoSlot DEF IInv, ForkOK, ForkPoints, TypeOK, SchedOK
<1>2. ReadyQueue' = ReadyQueue \union {child}
  <2>1. /\ ready_queue_head \in Slots \union {NULL}
        /\ next_in_ready_queue \in [Slots -> Slots \union {NULL}]
        /\ child \notin Queue(ready_queue_head, next_in_ready_queue)
        /\ ready_queue_head' = child
        /\ next_in_ready_queue' = next_in_ready_queue
    BY <1>1 DEF TypeOK, ReadyQueue, tableVars
  <2> HIDE DEF ForkPush
  <2> QED BY <1>1, <2>1, QueuePush DEF ReadyQueue
<1>3. Started' = Started /\ InState("READY")' = InState("READY")
  BY <1>1 DEF Started, InState, tableVars
<1>4. TypeOK'
  BY <1>1 DEF TypeOK, PicTypeOK, tableVars, picVars, Points
<1>5. PidsOK' /\ FamilyOK' /\ LinksOK'
  BY <1>1, <1>3 DEF IInv, PidsOK, FamilyOK, LinksOK, tableVars
<1>6. SchedOK' /\ CpuAgrees' /\ ForkOK'
  BY <1>1, <1>3 DEF IInv, SchedOK, CpuAgrees, ForkOK, ForkPoints
<1>7. (ReadyQueue \subseteq InState("READY"))'
  BY <1>1, <1>2, <1>3 DEF IInv, InState
<1>8. LostOnlyToTimer' /\ LostOnce'
  <2>1. Lost' \subseteq Lost
    BY <1>1, <1>2 DEF Lost, InState, tableVars
  <2> QED BY <1>1, <2>1, NothingLost DEF picVars, tableVars
<1> QED BY <1>4, <1>5, <1>6, <1>7, <1>8 DEF IInv

(* exit                                                                    *)
LEMMA SysExitIInv == IInv /\ SysExit => IInv'
PROOF
<1> SUFFICES ASSUME IInv, SysExit PROVE IInv'
  OBVIOUS
<1> USE DEF SysExit
<1>1. /\ UNCHANGED <<pid, parent_pid, next_in_ready_queue, next_pid, cpuVars, child, picVars>>
      /\ TypeOK
      /\ current_process \in Slots
      /\ current_process \in Started
      /\ cr3 = current_process
      /\ esp0 = current_process
      /\ child = NULL
      /\ state'[current_process] = "TERMINATED"
      /\ state' \in [Slots -> States]
      /\ \A s \in Slots \ {current_process} : state'[s] = state[s]
  BY DEF IInv, CpuAgrees, TypeOK, States, ForkOK, ForkPoints
<1>2. ReadyQueue' = ReadyQueue
  BY <1>1 DEF ReadyQueue, cpuVars
<1>3. Started' = Started /\ InState("READY")' = InState("READY")
  BY <1>1 DEF Started, InState
<1>4. TypeOK'
  BY <1>1 DEF TypeOK, PicTypeOK, cpuVars, picVars, Points, SchedPoints
<1>5. PidsOK' /\ LinksOK'
  BY <1>1 DEF IInv, PidsOK, LinksOK, cpuVars, Started, InState, TypeOK
<1>6. FamilyOK'
  BY <1>1, <1>3 DEF IInv, FamilyOK, cpuVars
<1>7. SchedOK' /\ CpuAgrees' /\ ForkOK'
  BY <1>1 DEF SchedOK, CpuAgrees, ForkOK, cpuVars, ForkPoints
<1>8. LostOnlyToTimer' /\ LostOnce'
  <2>1. Lost' \subseteq Lost /\ \A s \in Lost' : state'[s] = state[s]
    BY <1>1, <1>2, <1>3 DEF Lost, InState, cpuVars
  <2> QED BY <1>1, <2>1, NothingLost DEF picVars
<1> QED BY <1>2, <1>3, <1>4, <1>5, <1>6, <1>7, <1>8 DEF IInv

(* The preemption.  Nothing was lost before it; what it can lose is the    *)
(* process on the CPU and what was in the hands of sys_fork or schedule(). *)
LEMMA TickSwitchIInv == IInv /\ TickSwitch => IInv'
PROOF
<1> SUFFICES ASSUME IInv, TickSwitch PROVE IInv'
  OBVIOUS
<1> USE DEF TickSwitch, SwitchToHead
<1> DEFINE head == ready_queue_head
<1>1. /\ TypeOK
      /\ head \in Slots
      /\ state[head] = "READY"
      /\ head \in ReadyQueue
      /\ state'[head] = "RUNNING"
      /\ state' \in [Slots -> States]
      /\ \A s \in Slots \ {head} : state'[s] = state[s]
  BY HeadReady DEF IInv, TypeOK, States
<1>2. /\ ReadyQueue' = ReadyQueue \ {head}
      /\ ready_queue_head' \in Slots \union {NULL}
      /\ ready_queue_head' # NULL => state[ready_queue_head'] # "FREE"
  BY PopHead DEF ReadyQueue
<1>3. Started' = Started \union {head}
  BY <1>1 DEF Started, InState
<1>4. TypeOK'
  BY <1>1, <1>2 DEF TypeOK, PicTypeOK, Points, Lines
<1>5. PidsOK' /\ LinksOK'
  BY <1>1, <1>2 DEF IInv, PidsOK, LinksOK, TypeOK
<1>6. FamilyOK'
  <2>1. ASSUME NEW s \in Slots, parent_pid[s] = pid[head] PROVE FALSE
    <3>1. pid[head] # 0
      BY <1>1 DEF IInv, PidsOK
    <3>2. PICK t \in Started : pid[t] = pid[head]
      BY <2>1, <3>1 DEF IInv, FamilyOK
    <3>3. t = head
      BY <1>1, <3>1, <3>2 DEF IInv, PidsOK, Started, InState
    <3> QED BY <1>1, <3>2, <3>3 DEF Started, InState
  <2>2. \A s \in Started' : parent_pid'[s] # pid'[current_process']
    BY <1>1, <1>3, <2>1 DEF Started, InState
  <2> QED BY <1>3, <2>2 DEF IInv, FamilyOK
<1>7. SchedOK' /\ ForkOK' /\ CpuAgrees'
  BY <1>1, <1>3, NullIsNoSlot DEF SchedOK, ForkOK, CpuAgrees, ForkPoints
<1>8. (ReadyQueue \subseteq InState("READY"))'
  BY <1>1, <1>2 DEF IInv, InState
<1>9. Timer \in isr' /\ Lost = {}
  BY DEF Deliverable, Timer, IInv, LostOnlyToTimer
<1>10. LostOnce'
  <2>1. ASSUME NEW s \in Lost', state'[s] = "RUNNING" PROVE s = current_process
    BY <1>1, <1>9, <2>1 DEF Lost, InState
  <2>2. ASSUME NEW s \in Lost', state'[s] = "READY" PROVE s \in {current_process, child}
    BY <1>1, <1>2, <1>9, <2>2 DEF Lost, InState
  <2>3. current_process \notin InState("READY") \ ReadyQueue \/ child \notin Slots
    BY NullIsNoSlot DEF IInv, SchedOK, ForkOK, CpuAgrees, ForkPoints, Started, InState
  <2>4. ASSUME NEW s \in Lost' PROVE state'[s] \in {"RUNNING", "READY"} /\ s \in Slots
    BY <2>4 DEF Lost, InState
  <2>5. ASSUME NEW s \in Lost', state'[s] = "READY" PROVE s \in InState("READY") \ ReadyQueue
    BY <1>1, <1>2, <2>5 DEF Lost, InState
  <2> QED BY <2>1, <2>2, <2>3, <2>4, <2>5 DEF LostOnce
<1> QED BY <1>4, <1>5, <1>6, <1>7, <1>8, <1>9, <1>10 DEF IInv, LostOnlyToTimer

(* Every step preserves the invariant.                                     *)
LEMMA NextIInv == IInv /\ [Next]_vars => IInv'
PROOF
<1> SUFFICES ASSUME IInv, [Next]_vars PROVE IInv'
  OBVIOUS
<1>1. CASE Kmain
  BY <1>1, KmainCreateIInv, AllocateIInv, QuietIInv DEF Kmain
<1>2. CASE Schedule
  BY <1>2, SchedQuiet, SchedPopIInv, SchedRunIInv DEF Schedule
<1>3. CASE ForkStep
  BY <1>3, QuietIInv, ForkStateIInv, ForkLinkIInv, ForkPushIInv DEF ForkStep
<1>4. CASE Syscall
  BY <1>4, AllocateIInv, SysExitIInv, QuietIInv DEF Syscall
<1>5. CASE Fault \/ KeyIgnored \/ \E q \in Lines : RaiseLine(q)
  BY <1>5, QuietIInv
<1>6. CASE Tick
  BY <1>6, QuietIInv, TickSwitchIInv DEF Tick
<1>7. CASE UNCHANGED vars
  <2> USE <1>7 DEF vars, tableVars, cpuVars, picVars
  <2>1. ReadyQueue' = ReadyQueue /\ Started' = Started /\ InState("READY")' = InState("READY")
    BY DEF ReadyQueue, Started, InState
  <2>2. Lost' = Lost
    BY <2>1 DEF Lost, InState
  <2>3. TypeOK' /\ PidsOK' /\ LinksOK'
    BY DEF IInv, TypeOK, PicTypeOK, PidsOK, LinksOK
  <2>4. FamilyOK' /\ SchedOK' /\ ForkOK' /\ CpuAgrees'
    BY <2>1 DEF IInv, FamilyOK, SchedOK, ForkOK, CpuAgrees
  <2> QED BY <2>1, <2>2, <2>3, <2>4 DEF IInv, LostOnlyToTimer, LostOnce
<1> QED BY <1>1, <1>2, <1>3, <1>4, <1>5, <1>6, <1>7 DEF Next, KernelStep

(* The table, the queue, the CPU and the controller stay in their types,   *)
(* and what schedule() and sys_fork rely on between two of their steps     *)
(* holds, wherever a tick falls.                                           *)
THEOREM Invariance == Spec => []IInv
PROOF
<1> QED BY InitIInv, NextIInv, PTL DEF Spec

-----------------------------------------------------------------------------
(***************************************************************************)
(* What follows from it.                                                   *)
(***************************************************************************)

(* Every variable of the process manager (process.c) keeps its type.        *)
THEOREM TypeCorrect == Spec => []TypeOK
PROOF
<1>1. IInv => TypeOK
  BY DEF IInv
<1> QED BY <1>1, Invariance, PTL

(* schedule() follows a list of READY processes, newest first.             *)
THEOREM QueueCorrect == Spec => []QueueOK
PROOF
<1>1. IInv => QueueOK
  <2> SUFFICES ASSUME IInv PROVE QueueOK
    OBVIOUS
  <2>1. ReadyQueue \subseteq InState("READY")
    BY DEF IInv
  <2> QED BY <2>1 DEF IInv, QueueOK, LinksOK, InState
<1> QED BY <1>1, Invariance, PTL

(* A process executes in its own address space, on its own kernel stack.   *)
THEOREM CpuCorrect == Spec => []CpuAgrees
PROOF
<1>1. IInv => CpuAgrees
  BY DEF IInv
<1> QED BY <1>1, Invariance, PTL

(* sys_wait never finds a child to reap.                                   *)
THEOREM WaitNeverReaps == Spec => []WaitFindsNoZombie
PROOF
<1>1. IInv => WaitFindsNoZombie
  BY NoZombieToReap DEF WaitFindsNoZombie
<1> QED BY <1>1, Invariance, PTL

(* Processes are lost to the one preemption only.                          *)
THEOREM OnlyPreemptionLoses == Spec => []LostOnlyToTimer
PROOF
<1>1. IInv => LostOnlyToTimer
  BY DEF IInv
<1> QED BY <1>1, Invariance, PTL

(* It loses at most one that ran and one that was about to.                *)
THEOREM PreemptionLosesLittle == Spec => []LostOnce
PROOF
<1>1. IInv => LostOnce
  BY DEF IInv
<1> QED BY <1>1, Invariance, PTL

(* A pid names one live process, and parents have been dispatched.         *)
THEOREM FamilyCorrect == Spec => []ParentsIdentified
PROOF
<1>1. IInv => ParentsIdentified
  BY DEF IInv, ParentsIdentified, PidsOK, FamilyOK, InState
<1> QED BY <1>1, Invariance, PTL

-----------------------------------------------------------------------------
(***************************************************************************)
(* What no step does.                                                      *)
(***************************************************************************)

(* A step dispatches nobody, or takes the head of the queue.               *)
LEMMA WhoIsDispatched ==
  ASSUME IInv, [Next]_vars
  PROVE  \/ UNCHANGED current_process
         \/ current_process' = ready_queue_head /\ ready_queue_head # NULL
PROOF
BY DEF Next, KernelStep, Kmain, Schedule, ForkStep, Syscall, Tick, vars, cpuVars,
       KmainCreate, KmainCreateFails, KmainStops, KmainNoModule, SchedNone, SchedTake,
       SchedPop, SchedRun, SchedTss, SchedSwitch, SysFork, ForkCopied, ForkNoMemory,
       ForkReady, ForkLink, ForkPush, SysExit, SysWait, Fault, TickReturn, TickSwitch,
       SwitchToHead, KeyIgnored, RaiseLine

(* schedule() dispatches nobody a second time.                             *)
THEOREM DispatchedOnce == Spec => NeverResumed
PROOF
<1>1. IInv /\ [Next]_vars =>
        [\A s \in Started : s # current_process => s # current_process']_vars
  <2> SUFFICES ASSUME IInv, [Next]_vars, NEW s \in Started, s # current_process
               PROVE  s # current_process'
    OBVIOUS
  <2>1. ready_queue_head # NULL => state[ready_queue_head] = "READY"
    BY HeadReady
  <2> QED BY <2>1, WhoIsDispatched DEF Started, InState
<1> QED BY <1>1, Invariance, PTL DEF Spec, NeverResumed

(* Only sys_fork's child, the popped process and the one that exits change *)
(* their state, each to the next one.                                      *)
LEMMA StateSteps ==
  ASSUME IInv, [Next]_vars, NEW s \in Slots
  PROVE  \/ state'[s] = state[s]
         \/ state[s] = "FREE" /\ state'[s] = "READY"
         \/ state[s] = "READY" /\ state'[s] = "RUNNING"
         \/ state[s] = "RUNNING" /\ state'[s] = "TERMINATED"
PROOF
<1>0. TypeOK
  BY DEF IInv
<1>1. CASE UNCHANGED state
  BY <1>1
<1>2. ASSUME NEW c \in Slots, KmainCreate(c)
      PROVE  (state[s] = "FREE" /\ state'[s] = "READY") \/ state'[s] = state[s]
  <2>1. state[c] = "FREE"
    BY <1>2 DEF KmainCreate, AllocatePcb, IsFirst, InState
  <2> QED BY <1>0, <1>2, <2>1 DEF KmainCreate, TypeOK
<1>3. CASE ForkNoMemory \/ ForkReady
  <2>1. child \in Slots /\ state[child] = "FREE"
    BY <1>3, NullIsNoSlot DEF ForkNoMemory, ForkReady, IInv, ForkOK, ForkPoints, TypeOK
  <2> QED BY <1>0, <1>3, <2>1 DEF ForkNoMemory, ForkReady, TypeOK
<1>4. CASE SchedRun
  BY <1>0, <1>4 DEF SchedRun, IInv, SchedOK, TypeOK
<1>5. CASE SysExit
  <2>1. current_process \in Slots /\ state[current_process] \in {"RUNNING", "TERMINATED"}
    BY <1>5 DEF SysExit, IInv, CpuAgrees, Started, InState
  <2> QED BY <1>0, <1>5, <2>1 DEF SysExit, TypeOK
<1>6. CASE TickSwitch
  BY <1>0, <1>6, HeadReady DEF TickSwitch, TypeOK
<1>7. CASE SysWait
  BY <1>7, NoZombieToReap DEF SysWait
<1>8. \/ UNCHANGED state \/ \E c \in Slots : KmainCreate(c)
      \/ ForkNoMemory \/ ForkReady \/ SchedRun \/ SysExit \/ SysWait \/ TickSwitch
  BY DEF Next, KernelStep, Kmain, Schedule, ForkStep, Syscall, Tick, vars, tableVars,
       KmainCreateFails, KmainStops, KmainNoModule, SchedNone, SchedTake,
       SchedPop, SchedTss, SchedSwitch, SysFork, ForkCopied,
       ForkLink, ForkPush, Fault, TickReturn, KeyIgnored, RaiseLine
<1> QED BY <1>1, <1>2, <1>3, <1>4, <1>5, <1>6, <1>7, <1>8

(* A slot that was used is never used again.                               *)
THEOREM TableIsUsedUp == Spec => SlotsNeverRecycled
PROOF
<1>1. IInv /\ [Next]_vars => [\A s \in Slots : Rank(state[s]) <= Rank(state'[s])]_vars
  <2> SUFFICES ASSUME IInv, [Next]_vars, NEW s \in Slots
               PROVE  Rank(state[s]) <= Rank(state'[s])
    OBVIOUS
  <2>1. state[s] \in States
    BY DEF IInv, TypeOK
  <2> QED BY <2>1, StateSteps DEF Rank, States
<1> QED BY <1>1, Invariance, PTL DEF Spec, SlotsNeverRecycled

(* What the controller sees of a step.                                     *)
LEMMA LinesSteps ==
  ASSUME IInv, [Next]_vars
  PROVE  \/ UNCHANGED isr
         \/ isr' = isr \union {Keyboard}
         \/ TickSwitch /\ Timer \notin isr /\ isr' = isr \union {Timer}
PROOF
<1>1. CASE TickReturn
  <2>1. Timer \notin isr
    BY <1>1 DEF TickReturn, Deliverable, Timer
  <2> QED BY <1>1, <2>1 DEF TickReturn, Acknowledged, Highest
<1>2. CASE TickSwitch
  BY <1>2 DEF TickSwitch, Deliverable, Timer
<1>3. CASE KeyIgnored
  BY <1>3 DEF KeyIgnored
<1>4. UNCHANGED isr \/ TickReturn \/ TickSwitch \/ KeyIgnored
  BY DEF Next, KernelStep, Kmain, Schedule, ForkStep, Syscall, Tick, vars, picVars,
       KmainCreate, KmainCreateFails, KmainStops, KmainNoModule, SchedNone, SchedTake,
       SchedPop, SchedRun, SchedTss, SchedSwitch, SysFork, ForkCopied, ForkNoMemory,
       ForkReady, ForkLink, ForkPush, SysExit, SysWait, Fault, RaiseLine, Raise
<1> QED BY <1>1, <1>2, <1>3, <1>4

(* A line left in service stays in service.                                *)
THEOREM LinesStayInService == Spec => NeverAcknowledgedLate
PROOF
<1>1. IInv /\ [Next]_vars => [isr \subseteq isr']_vars
  BY LinesSteps
<1> QED BY <1>1, Invariance, PTL DEF Spec, NeverAcknowledgedLate

(* There is no second preemption.                                          *)
THEOREM PreemptedOnce == Spec => LastPreemption
PROOF
<1>1. IInv /\ [Next]_vars =>
        [(Timer \in isr /\ current_process' # current_process /\ current_process # NULL)
           => state[current_process] = "TERMINATED"]_vars
  <2> SUFFICES ASSUME IInv, [Next]_vars, Timer \in isr, current_process' # current_process,
                      current_process # NULL
               PROVE  state[current_process] = "TERMINATED"
    OBVIOUS
  <2>1. ~TickSwitch
    BY DEF TickSwitch, Deliverable, Timer
  <2>2. pc = "sched"
    BY <2>1 DEF Next, KernelStep, Kmain, Schedule, ForkStep, Syscall, Tick, vars, cpuVars,
       KmainCreate, KmainCreateFails, KmainStops, KmainNoModule, SchedNone, SchedTake,
       SchedPop, SchedRun, SchedTss, SchedSwitch, SysFork, ForkCopied, ForkNoMemory,
       ForkReady, ForkLink, ForkPush, SysExit, SysWait, Fault, TickReturn,
       KeyIgnored, RaiseLine
  <2> QED BY <2>2 DEF IInv, SchedOK
<1> QED BY <1>1, Invariance, PTL DEF Spec, LastPreemption

-----------------------------------------------------------------------------
(***************************************************************************)
(* Process implements Dispatcher.                                          *)
(***************************************************************************)

(* The head is the newest process of the queue.                            *)
LEMMA HeadNewest ==
  ASSUME IInv, ready_queue_head # NULL, NEW s \in ReadyQueue, s # ready_queue_head
  PROVE  pid[s] < pid[ready_queue_head]
PROOF
<1> DEFINE older == {t \in Slots : pid[t] <= pid[ready_queue_head]}
<1>1. /\ next_in_ready_queue \in [Slots -> Slots \union {NULL}]
      /\ pid \in [Slots -> Nat]
      /\ ready_queue_head \in Slots
      /\ state[ready_queue_head] = "READY"
  BY HeadReady DEF IInv, TypeOK
<1>2. Linked(ready_queue_head, next_in_ready_queue, older)
  BY <1>1 DEF Linked, IInv, LinksOK
<1>3. ReadyQueue \subseteq older
  BY <1>1, <1>2, QueueLeast DEF ReadyQueue
<1>4. pid[s] # pid[ready_queue_head]
  BY <1>1, <1>3 DEF IInv, PidsOK
<1> QED BY <1>1, <1>3, <1>4

(* init_process_manager leaves no process in the hands of schedule().      *)
LEMMA InitHand == Init => HandInv
PROOF BY DEF Init, HandInv, Popped

(* Queued processes keep their pid.                                        *)
LEMMA QueuedPids ==
  ASSUME IInv, [Next]_vars, NEW s \in Slots, state[s] # "FREE"
  PROVE  pid'[s] = pid[s]
PROOF
<1>1. CASE UNCHANGED pid
  BY <1>1
<1>2. ASSUME NEW c \in Slots, AllocatePcb(c) PROVE pid'[s] = pid[s]
  BY <1>2, AllocateKept
<1>3. CASE SysWait
  BY <1>3, NoZombieToReap DEF SysWait
<1>4. UNCHANGED pid \/ SysWait \/ \E c \in Slots : AllocatePcb(c)
  BY DEF Next, KernelStep, Kmain, Schedule, ForkStep, Syscall, Tick, vars, tableVars,
       KmainCreate, KmainCreateFails, KmainStops, KmainNoModule, SchedNone, SchedTake,
       SchedPop, SchedRun, SchedTss, SchedSwitch, SysFork, ForkCopied, ForkNoMemory,
       ForkReady, ForkLink, ForkPush, SysExit, Fault, TickReturn, TickSwitch,
       KeyIgnored, RaiseLine
<1> QED BY <1>1, <1>2, <1>3, <1>4

(* No step of the kernel or of an interrupt breaks what the refinement     *)
(* needs to know of the process schedule() has chosen.                     *)
LEMMA NextHand == IInv /\ HandInv /\ [Next]_vars => HandInv'
PROOF
<1> SUFFICES ASSUME IInv, HandInv, [Next]_vars PROVE HandInv'
  OBVIOUS
<1>1. CASE SchedTake
  BY <1>1 DEF SchedTake, HandInv, Popped, IInv, SchedOK, tableVars
<1>2. CASE SchedPop
  <2>1. /\ current_process = ready_queue_head
        /\ ready_queue_head # NULL
        /\ UNCHANGED <<tableVars, current_process, cr3>>
    BY <1>2, NullIsNoSlot DEF SchedPop, IInv, SchedOK
  <2>2. ReadyQueue' = ReadyQueue \ {ready_queue_head}
    BY <1>2, <2>1, PopHead DEF SchedPop, ReadyQueue, tableVars
  <2> QED BY <1>2, <2>1, <2>2, HeadNewest DEF SchedPop, HandInv, Popped, tableVars
<1>3. CASE SchedRun \/ SchedTss
  <2>1. ReadyQueue' = ReadyQueue /\ UNCHANGED <<pid, current_process, cr3>> /\ pc \in Popped
    BY <1>3 DEF SchedRun, SchedTss, ReadyQueue, cpuVars, tableVars, Popped
  <2>2. cr3 # NULL => state'[cr3] = state[cr3]
    BY <1>3 DEF SchedRun, SchedTss, HandInv, Popped, IInv, SchedOK, TypeOK, tableVars
  <2> QED BY <1>3, <2>1, <2>2 DEF SchedRun, SchedTss, HandInv, Popped, cpuVars
<1>4. CASE SchedSwitch
  BY <1>4 DEF SchedSwitch, HandInv, Popped
<1>5. CASE TickSwitch
  BY <1>5, HeadReady DEF TickSwitch, SwitchToHead, HandInv, Popped
<1>6. CASE UNCHANGED vars \/ SysWait \/ TickReturn \/ KeyIgnored \/ \E q \in Lines : RaiseLine(q)
  <2>1. UNCHANGED <<tableVars, cpuVars, pc>>
    BY <1>6, NoZombieToReap DEF vars, SysWait, TickReturn, KeyIgnored, RaiseLine, tableVars
  <2> QED BY <2>1 DEF HandInv, ReadyQueue, tableVars, cpuVars
<1>7. ASSUME \/ Kmain \/ SchedNone \/ ForkStep \/ (\E s \in Slots : SysFork(s))
             \/ SysExit \/ Fault
      PROVE  HandInv'
  <2>1. /\ UNCHANGED <<current_process, cr3>>
        /\ pc' \notin Popped \union {"boot", "pop"}
    BY <1>7 DEF Kmain, KmainCreate, KmainCreateFails, KmainStops, KmainNoModule, SchedNone,
         ForkStep, ForkCopied, ForkNoMemory, ForkReady, ForkLink, ForkPush, SysFork, SysExit,
         Fault, cpuVars, Popped
  <2> QED BY <2>1 DEF HandInv
<1> QED BY <1>1, <1>2, <1>3, <1>4, <1>5, <1>6, <1>7
     DEF Next, KernelStep, Schedule, Syscall, Tick

(* Both invariants together.                                               *)
LEMMA HandInvariance == Spec => [](IInv /\ HandInv)
PROOF
<1>1. Init => IInv /\ HandInv
  BY InitIInv, InitHand
<1>2. IInv /\ HandInv /\ [Next]_vars => (IInv /\ HandInv)'
  BY NextIInv, NextHand
<1> QED BY <1>1, <1>2, PTL DEF Spec

-----------------------------------------------------------------------------
(***************************************************************************)
(* Each step is a step of Dispatcher or leaves its variables alone.        *)
(***************************************************************************)

(* The step does not show in the mapped variables.                         *)
Stutters == UNCHANGED <<Newest, Waiting, OnCpu, CpuDone, Preempted>>

(* The waiting processes, one pid each, all of them live.                  *)
LEMMA WaitingLive ==
  ASSUME IInv, NEW s \in ReadyQueue \union InHand
  PROVE  s \in Slots /\ state[s] # "FREE"
PROOF BY DEF IInv, InHand, Popped, SchedOK, InState, TypeOK

(* If the same processes wait, Waiting is the same.                        *)
LEMMA WaitingKept ==
  ASSUME IInv, [Next]_vars, (ReadyQueue \union InHand)' = ReadyQueue \union InHand
  PROVE  Waiting' = Waiting
PROOF
<1>1. \A s \in ReadyQueue \union InHand : pid'[s] = pid[s]
  BY WaitingLive, QueuedPids
<1> QED BY <1>1 DEF Waiting

(* The steps that move only the CPU and the controller.                    *)
Quiet ==
  \/ KmainNoModule \/ KmainStops \/ SysWait \/ ForkCopied \/ (pc = "user" /\ Fault)
  \/ SchedNone \/ SchedTake \/ SchedTss
  \/ TickReturn \/ KeyIgnored \/ (\E q \in Lines : RaiseLine(q)) \/ UNCHANGED vars

(* They are invisible to the dispatcher: who waits, who has the CPU and    *)
(* whether a preemption happened do not change.                            *)
LEMMA QuietStutters ==
  ASSUME IInv, HandInv, [Next]_vars, Quiet
  PROVE  Stutters
PROOF
<1> USE DEF Quiet
<1>1. /\ UNCHANGED <<tableVars, ready_queue_head, cr3, child>>
      /\ pc \in Popped => pc' \in Popped /\ UNCHANGED current_process
      /\ pc' \in Popped => pc \in Popped
  BY NoZombieToReap DEF KmainNoModule, KmainStops, SysWait, ForkCopied, Fault, SchedNone,
       SchedTake, SchedTss, TickReturn, KeyIgnored, RaiseLine, vars, tableVars, cpuVars, Popped,
       IInv, ForkOK, ForkPoints
<1>2. (ReadyQueue \union InHand)' = ReadyQueue \union InHand
  BY <1>1 DEF ReadyQueue, InHand, tableVars
<1>3. Waiting' = Waiting
  BY <1>2, WaitingKept
<1>4. ~TickSwitch
  BY <1>1 DEF TickSwitch, tableVars, Deliverable, IInv, LinksOK, TypeOK
<1>5. Timer \in isr' <=> Timer \in isr
  BY <1>4, LinesSteps DEF Timer, Keyboard
<1> QED BY <1>1, <1>3, <1>5 DEF Stutters, Newest, OnCpu, CpuDone, Preempted, tableVars

(* schedule() pops and marks a process: it goes from the queue to the hand *)
(* and is RUNNING before it is on the CPU.                                 *)
LEMMA HandStutters == IInv /\ HandInv /\ (SchedPop \/ SchedRun) => Stutters
PROOF
<1> SUFFICES ASSUME IInv, HandInv, SchedPop \/ SchedRun PROVE Stutters
  OBVIOUS
<1>1. CASE SchedPop
  <2>1. /\ current_process = ready_queue_head
        /\ ready_queue_head # NULL
        /\ UNCHANGED <<tableVars, current_process, cr3, child, picVars>>
    BY <1>1, NullIsNoSlot DEF SchedPop, IInv, SchedOK
  <2>2. ReadyQueue' = ReadyQueue \ {ready_queue_head} /\ ready_queue_head \in ReadyQueue
    BY <1>1, <2>1, PopHead, HeadReady DEF SchedPop, ReadyQueue, tableVars
  <2>3. (ReadyQueue \union InHand)' = ReadyQueue \union InHand
    BY <1>1, <2>1, <2>2 DEF SchedPop, InHand, Popped
  <2>4. Waiting' = Waiting
    BY <2>1, <2>3 DEF Waiting, tableVars
  <2> QED BY <2>1, <2>4 DEF Stutters, Newest, OnCpu, CpuDone, Preempted, tableVars, picVars
<1>2. CASE SchedRun
  <2>1. /\ UNCHANGED <<pid, next_pid, next_in_ready_queue, cpuVars, child, picVars>>
        /\ cr3 # NULL => state[cr3] = "TERMINATED"
        /\ cr3 # NULL => state'[cr3] = state[cr3]
    BY <1>2 DEF SchedRun, HandInv, Popped, IInv, SchedOK, TypeOK
  <2>2. (ReadyQueue \union InHand)' = ReadyQueue \union InHand
    BY <1>2, <2>1 DEF SchedRun, ReadyQueue, InHand, Popped, cpuVars
  <2>3. Waiting' = Waiting
    BY <2>1, <2>2 DEF Waiting
  <2> QED BY <2>1, <2>3 DEF Stutters, Newest, OnCpu, CpuDone, Preempted, cpuVars, picVars
<1> QED BY <1>1, <1>2

(* The switch is the dispatch of the newest process to a free CPU.         *)
LEMMA SwitchYields ==
  IInv /\ HandInv /\ SchedSwitch => \E p \in Waiting : Abstract!Yield(p)
PROOF
<1> SUFFICES ASSUME IInv, HandInv, SchedSwitch
             PROVE  \E p \in Waiting : Abstract!Yield(p)
  OBVIOUS
<1> USE DEF SchedSwitch
<1> DEFINE p == pid[current_process]
<1>1. /\ UNCHANGED <<tableVars, current_process, ready_queue_head, child, picVars>>
      /\ current_process # NULL
      /\ state[current_process] = "RUNNING"
      /\ current_process \in Slots
      /\ pid \in [Slots -> Nat]
  BY DEF IInv, SchedOK, TypeOK
<1>2. ReadyQueue' = ReadyQueue /\ ReadyQueue \subseteq Slots
  BY <1>1 DEF ReadyQueue, tableVars, IInv, InState
<1>3. InHand = {current_process} /\ InHand' = {}
  BY DEF InHand, Popped
<1>4. \A s \in ReadyQueue : pid[s] < p
  BY DEF HandInv, Popped
<1>5. Waiting = {pid[s] : s \in ReadyQueue} \union {p} /\ Waiting' = {pid[s] : s \in ReadyQueue}
  BY <1>1, <1>2, <1>3 DEF Waiting, tableVars
<1>6. p \in Waiting /\ (\A q \in Waiting : q <= p) /\ Waiting' = Waiting \ {p}
  BY <1>1, <1>2, <1>4, <1>5
<1>7. OnCpu = 0 \/ CpuDone
  BY DEF HandInv, Popped, OnCpu, CpuDone
<1>8. OnCpu' = p /\ CpuDone' = FALSE
  BY <1>1 DEF OnCpu, CpuDone, tableVars
<1>9. Newest' = Newest /\ Preempted' = Preempted
  BY <1>1 DEF Newest, Preempted, tableVars, picVars
<1> QED BY <1>6, <1>7, <1>8, <1>9 DEF Abstract!Yield

(* The tick that finds a ready process is the one preemption.              *)
LEMMA TickPreempts ==
  IInv /\ HandInv /\ TickSwitch => \E p \in Waiting : Abstract!Preempt(p)
PROOF
<1> SUFFICES ASSUME IInv, HandInv, TickSwitch
             PROVE  \E p \in Waiting : Abstract!Preempt(p)
  OBVIOUS
<1> USE DEF TickSwitch, SwitchToHead
<1> DEFINE head == ready_queue_head
           p == pid[head]
<1>1. /\ UNCHANGED <<pid, next_pid, next_in_ready_queue>>
      /\ head \in Slots /\ head # NULL
      /\ head \in ReadyQueue
      /\ state'[head] = "RUNNING"
      /\ pid \in [Slots -> Nat]
      /\ ReadyQueue \subseteq Slots
      /\ next_pid \in Nat
  BY HeadReady DEF IInv, TypeOK, InState
<1>2. ReadyQueue' = ReadyQueue \ {head}
  BY <1>1, PopHead DEF ReadyQueue
<1>3. \A s \in ReadyQueue \ {head} : pid[s] < p
  BY <1>1, HeadNewest
<1>4. InHand' = {}
  BY DEF InHand, Popped
<1>5. \A s \in InHand : s \in Slots /\ p < pid[s]
  BY <1>1, WaitingLive DEF InHand, HandInv
<1>6. Waiting' = {q \in Waiting : q < p}
  <2>1. Waiting' = {pid[s] : s \in ReadyQueue \ {head}}
    BY <1>1, <1>2, <1>4 DEF Waiting
  <2>2. ASSUME NEW s \in ReadyQueue \union InHand PROVE pid[s] < p <=> s \in ReadyQueue \ {head}
    BY <1>1, <1>3, <1>5
  <2>3. {q \in Waiting : q < p} = {pid[s] : s \in ReadyQueue \ {head}}
    BY <1>1, <2>2 DEF Waiting
  <2> QED BY <2>1, <2>3
<1>7. p \in Waiting
  BY <1>1 DEF Waiting
<1>8. ~Preempted /\ Preempted' = TRUE
  BY DEF Preempted, Deliverable, Timer
<1>9. OnCpu' = p /\ CpuDone' = FALSE
  BY <1>1 DEF OnCpu, CpuDone
<1>10. Newest' \in {Newest, Newest + 1}
  BY <1>1 DEF Newest
<1> QED BY <1>6, <1>7, <1>8, <1>9, <1>10 DEF Abstract!Preempt

(* The process on the CPU is a dispatched one.                             *)
LEMMA OnCpuDispatched ==
  ASSUME IInv, pc \in {"user"} \union ForkPoints
  PROVE  OnCpu # 0
PROOF BY NullIsNoSlot DEF IInv, CpuAgrees, OnCpu, PidsOK, Started, InState

(* kmain creates the first process, or fails to.                           *)
LEMMA KmainCreates ==
  \A c \in Slots :
    /\ IInv /\ HandInv /\ [Next]_vars /\ KmainCreate(c) => Abstract!Create
    /\ IInv /\ HandInv /\ [Next]_vars /\ KmainCreateFails(c) => Abstract!Fail
PROOF
<1> SUFFICES ASSUME NEW c \in Slots, IInv, HandInv, [Next]_vars
             PROVE  /\ KmainCreate(c) => Abstract!Create
                    /\ KmainCreateFails(c) => Abstract!Fail
  OBVIOUS
<1>1. ASSUME KmainCreate(c) \/ KmainCreateFails(c)
      PROVE  /\ Newest = 0 /\ Newest' = 1 /\ next_pid = 1
             /\ OnCpu' = OnCpu /\ CpuDone' = CpuDone /\ Preempted' = Preempted
             /\ pid'[c] = 1
             /\ InHand = {} /\ InHand' = {}
  <2>1. /\ next_pid = 1 /\ next_pid' = 2 /\ pid'[c] = 1
        /\ cr3 = NULL /\ cr3' = NULL
        /\ child = NULL /\ child' = NULL
        /\ UNCHANGED isr
    BY <1>1, AllocateKept DEF KmainCreate, KmainCreateFails, HandInv, cpuVars, picVars,
         IInv, SchedOK, ForkOK, ForkPoints
  <2> QED BY <1>1, <2>1 DEF KmainCreate, KmainCreateFails, Newest, OnCpu, CpuDone, Preempted,
               InHand, Popped
<1>2. \A s \in ReadyQueue : pid'[s] = pid[s]
  BY WaitingLive, QueuedPids
<1>3. ASSUME KmainCreate(c) PROVE Abstract!Create
  <2>1. ReadyQueue' = ReadyQueue \union {c}
    <3>1. state[c] = "FREE"
      BY <1>3, AllocateKept DEF KmainCreate
    <3>2. /\ ready_queue_head \in Slots \union {NULL}
          /\ next_in_ready_queue \in [Slots -> Slots \union {NULL}]
          /\ next_in_ready_queue' \in [Slots -> Slots \union {NULL}]
          /\ c \notin Queue(ready_queue_head, next_in_ready_queue)
          /\ next_in_ready_queue'[c] = ready_queue_head
          /\ \A s \in Slots \ {c} : next_in_ready_queue'[s] = next_in_ready_queue[s]
          /\ ready_queue_head' = c
      BY <1>3, <3>1 DEF KmainCreate, IInv, TypeOK, ReadyQueue, InState
    <3> QED BY <3>2, QueuePush DEF ReadyQueue
  <2>2. Waiting' = Waiting \union {1}
    BY <1>1, <1>2, <1>3, <2>1 DEF Waiting
  <2> QED BY <1>1, <1>3, <2>2 DEF Abstract!Create
<1>4. ASSUME KmainCreateFails(c) PROVE Abstract!Fail
  <2>1. ReadyQueue' = ReadyQueue
    BY <1>4 DEF KmainCreateFails, ReadyQueue, cpuVars
  <2>2. Waiting' = Waiting
    BY <1>1, <1>4, <2>1, WaitingKept
  <2> QED BY <1>1, <1>4, <2>2 DEF Abstract!Fail
<1> QED BY <1>3, <1>4

(* sys_fork creates its child when it queues it, and fails when it gives   *)
(* up or faults.                                                           *)
LEMMA ForkSteps ==
  /\ IInv /\ HandInv /\ [Next]_vars /\ (ForkReady \/ ForkLink) => Stutters
  /\ IInv /\ HandInv /\ [Next]_vars /\ ForkPush => Abstract!Create
  /\ IInv /\ HandInv /\ [Next]_vars /\ (ForkNoMemory \/ (pc = "fork_mem" /\ Fault)) => Abstract!Fail
  /\ \A c \in Slots : IInv /\ HandInv /\ [Next]_vars /\ SysFork(c) => Stutters
PROOF
<1> SUFFICES ASSUME IInv, HandInv, [Next]_vars
             PROVE  /\ ForkReady \/ ForkLink => Stutters
                    /\ ForkPush => Abstract!Create
                    /\ ForkNoMemory \/ (pc = "fork_mem" /\ Fault) => Abstract!Fail
                    /\ \A c \in Slots : SysFork(c) => Stutters
  OBVIOUS
<1>1. ASSUME pc \in {"user"} \union ForkPoints, UNCHANGED <<pid, cr3, isr>>,
             state'[cr3] = state[cr3]
      PROVE  OnCpu' = OnCpu /\ CpuDone' = CpuDone /\ Preempted' = Preempted
  BY <1>1 DEF OnCpu, CpuDone, Preempted
<1>2. ASSUME pc \in ForkPoints
      PROVE  /\ child \in Slots /\ child # NULL /\ Newest = next_pid - 2
             /\ cr3 \in Slots /\ cr3 # child
             /\ child \notin ReadyQueue
             /\ pid[child] = next_pid - 1
             /\ next_pid \in Nat
             /\ state \in [Slots -> States]
             /\ InHand = {}
  BY <1>2, NullIsNoSlot DEF IInv, ForkOK, ForkPoints, CpuAgrees, TypeOK, Started, InState,
       Newest, InHand, Popped
<1>3. ASSUME ForkReady \/ ForkLink PROVE Stutters
  <2>1. /\ pc \in ForkPoints
        /\ UNCHANGED <<pid, next_pid, cpuVars, child, picVars>>
        /\ pc' \notin Popped
    BY <1>3 DEF ForkReady, ForkLink, ForkPoints, Popped
  <2>2. state'[cr3] = state[cr3]
    BY <1>2, <1>3, <2>1 DEF ForkReady, ForkLink
  <2>3. ReadyQueue' = ReadyQueue
    <3>1. CASE ForkReady
      BY <3>1 DEF ForkReady, ReadyQueue, cpuVars
    <3>2. CASE ForkLink
      <4>1. /\ ready_queue_head \in Slots \union {NULL}
            /\ next_in_ready_queue \in [Slots -> Slots \union {NULL}]
            /\ next_in_ready_queue' \in [Slots -> Slots \union {NULL}]
            /\ child \notin Queue(ready_queue_head, next_in_ready_queue)
            /\ \A s \in Slots \ {child} : next_in_ready_queue'[s] = next_in_ready_queue[s]
            /\ ready_queue_head' = ready_queue_head
        BY <1>2, <2>1, <3>2 DEF ForkLink, IInv, TypeOK, ReadyQueue, cpuVars
      <4> QED BY <1>2, <2>1, <4>1, QueueElsewhere DEF ReadyQueue
    <3> QED BY <1>3, <3>1, <3>2
  <2>4. Waiting' = Waiting
    BY <1>2, <2>1, <2>3 DEF Waiting, InHand
  <2> QED BY <1>1, <2>1, <2>2, <2>4 DEF Stutters, Newest, cpuVars, picVars
<1>4. ASSUME ForkPush PROVE Abstract!Create
  <2>1. /\ pc \in ForkPoints
        /\ UNCHANGED <<tableVars, cr3, picVars>>
        /\ child' = NULL
        /\ pc' \notin Popped
    BY <1>4 DEF ForkPush, ForkPoints, Popped
  <2>2. ReadyQueue' = ReadyQueue \union {child}
    <3>1. /\ ready_queue_head \in Slots \union {NULL}
          /\ next_in_ready_queue \in [Slots -> Slots \union {NULL}]
          /\ child \notin Queue(ready_queue_head, next_in_ready_queue)
          /\ next_in_ready_queue[child] = ready_queue_head
          /\ ready_queue_head' = child
          /\ next_in_ready_queue' = next_in_ready_queue
      BY <1>2, <1>4, <2>1 DEF ForkPush, IInv, TypeOK, ForkOK, ReadyQueue, tableVars
    <3> QED BY <1>2, <2>1, <3>1, QueuePush DEF ReadyQueue
  <2>3. Newest' = Newest + 1 /\ pid[child] = Newest + 1
    BY <1>2, <2>1 DEF Newest, tableVars
  <2>4. Waiting' = Waiting \union {Newest + 1}
    BY <1>2, <2>1, <2>2, <2>3 DEF Waiting, InHand, tableVars
  <2>5. OnCpu' = OnCpu /\ CpuDone' = CpuDone /\ Preempted' = Preempted
    BY <1>1, <2>1 DEF tableVars, picVars
  <2> QED BY <2>1, <2>3, <2>4, <2>5, OnCpuDispatched DEF Abstract!Create
<1>5. ASSUME ForkNoMemory \/ (pc = "fork_mem" /\ Fault) PROVE Abstract!Fail
  <2>1. /\ pc \in ForkPoints
        /\ UNCHANGED <<pid, next_pid, next_in_ready_queue, cpuVars, picVars>>
        /\ child' = NULL
        /\ pc' \notin Popped
    BY <1>5 DEF ForkNoMemory, Fault, ForkPoints, Popped, tableVars
  <2>2. state'[cr3] = state[cr3]
    BY <1>2, <1>5, <2>1 DEF ForkNoMemory, Fault, tableVars
  <2>3. Waiting' = Waiting
    BY <1>2, <2>1 DEF Waiting, InHand, ReadyQueue, cpuVars
  <2>4. Newest' = Newest + 1
    BY <1>2, <2>1 DEF Newest
  <2>5. OnCpu' = OnCpu /\ CpuDone' = CpuDone /\ Preempted' = Preempted
    BY <1>1, <2>1, <2>2 DEF cpuVars, picVars
  <2> QED BY <2>1, <2>3, <2>4, <2>5, OnCpuDispatched DEF Abstract!Fail
<1>6. ASSUME NEW c \in Slots, SysFork(c) PROVE Stutters
  <2>1. /\ UNCHANGED <<state, next_in_ready_queue, cpuVars, picVars>>
        /\ child' = c /\ c # NULL /\ child = NULL
        /\ next_pid' = next_pid + 1 /\ next_pid \in Nat
        /\ InHand = {} /\ InHand' = {}
    BY <1>6, AllocateKept, NullIsNoSlot
       DEF SysFork, IInv, TypeOK, ForkOK, ForkPoints, InHand, Popped
  <2>2. cr3 \in Slots /\ state[cr3] # "FREE"
    BY <1>6 DEF SysFork, IInv, CpuAgrees, Started, InState
  <2>3. pid'[cr3] = pid[cr3]
    BY <2>2, QueuedPids
  <2>4. Waiting' = Waiting
    BY <2>1, WaitingKept DEF ReadyQueue, cpuVars
  <2> QED BY <2>1, <2>3, <2>4 DEF Stutters, Newest, OnCpu, CpuDone, Preempted, cpuVars, picVars
<1> QED BY <1>3, <1>4, <1>5, <1>6

(* exit frees the CPU.                                                     *)
LEMMA ExitExits == IInv /\ HandInv /\ SysExit => Abstract!Exit
PROOF
<1> SUFFICES ASSUME IInv, HandInv, SysExit PROVE Abstract!Exit
  OBVIOUS
<1> USE DEF SysExit
<1>1. /\ UNCHANGED <<pid, next_pid, next_in_ready_queue, cpuVars, child, picVars>>
      /\ cr3 \in Slots /\ cr3 # NULL
      /\ state'[cr3] = "TERMINATED"
      /\ InHand = {} /\ InHand' = {}
  BY NullIsNoSlot DEF IInv, CpuAgrees, TypeOK, Started, InState, InHand, Popped
<1>2. Waiting' = Waiting
  BY <1>1 DEF Waiting, ReadyQueue, cpuVars
<1>3. OnCpu' = OnCpu /\ CpuDone' = TRUE /\ Newest' = Newest /\ Preempted' = Preempted
  BY <1>1 DEF OnCpu, CpuDone, Newest, Preempted, cpuVars, picVars
<1> QED BY <1>2, <1>3, OnCpuDispatched DEF Abstract!Exit

(* The kernel after init_process_manager is a dispatcher before its first  *)
(* process.                                                                *)
LEMMA InitMaps == Init => Abstract!Init
PROOF
<1> SUFFICES ASSUME Init PROVE Abstract!Init
  OBVIOUS
<1>1. ReadyQueue = {}
  BY QueueEmpty DEF Init, ReadyQueue
<1> QED BY <1>1 DEF Init, PicInit, Abstract!Init, Newest, Waiting, OnCpu, CpuDone, Preempted,
             InHand, Popped

(* Every step of schedule(), of a system call, of kmain or of an interrupt *)
(* is one step of the dispatcher or none.                                  *)
LEMMA NextMaps ==
  IInv /\ HandInv /\ [Next]_vars => [Abstract!Next]_(Abstract!dispatcherVars)
PROOF
<1> SUFFICES ASSUME IInv, HandInv, [Next]_vars
             PROVE  Abstract!Next \/ Stutters
  BY DEF Stutters, Abstract!dispatcherVars
<1>0. Quiet => Stutters
  BY QuietStutters
<1>1. CASE Kmain
  <2>1. KmainStops \/ KmainNoModule => Stutters
    BY <1>0 DEF Quiet
  <2>2. ASSUME NEW c \in Slots, KmainCreate(c) \/ KmainCreateFails(c)
        PROVE  Abstract!Create \/ Abstract!Fail
    BY <2>2, KmainCreates
  <2> QED BY <1>1, <2>1, <2>2 DEF Kmain, Abstract!Next
<1>2. CASE Schedule
  <2>1. SchedNone \/ SchedTake \/ SchedTss => Stutters
    BY <1>0 DEF Quiet
  <2>2. SchedPop \/ SchedRun => Stutters
    BY HandStutters
  <2>3. SchedSwitch => Abstract!Next
    BY SwitchYields DEF Abstract!Next
  <2> QED BY <1>2, <2>1, <2>2, <2>3 DEF Schedule
<1>3. CASE ForkStep
  <2>1. ForkCopied => Stutters
    BY <1>0 DEF Quiet
  <2>2. ForkReady \/ ForkLink => Stutters
    BY ForkSteps
  <2>3. ForkNoMemory => Abstract!Fail
    BY ForkSteps
  <2>4. ForkPush => Abstract!Create
    BY ForkSteps
  <2> QED BY <1>3, <2>1, <2>2, <2>3, <2>4 DEF ForkStep, Abstract!Next
<1>4. CASE Syscall
  <2>1. SysWait => Stutters
    BY <1>0 DEF Quiet
  <2>2. \A c \in Slots : SysFork(c) => Stutters
    BY ForkSteps
  <2>3. SysExit => Abstract!Next
    BY ExitExits DEF Abstract!Next
  <2> QED BY <1>4, <2>1, <2>2, <2>3 DEF Syscall
<1>5. CASE Fault
  <2>1. pc \in {"user", "fork_mem"}
    BY <1>5 DEF Fault
  <2>2. CASE pc = "user"
    BY <1>5, <2>2, <1>0 DEF Quiet
  <2>3. CASE pc = "fork_mem"
    BY <1>5, <2>3, ForkSteps DEF Abstract!Next
  <2> QED BY <2>1, <2>2, <2>3
<1>6. CASE Tick
  <2>1. TickReturn => Stutters
    BY <1>0 DEF Quiet
  <2>2. TickSwitch => Abstract!Next
    BY TickPreempts DEF Abstract!Next
  <2> QED BY <1>6, <2>1, <2>2 DEF Tick
<1>7. CASE KeyIgnored \/ (\E q \in Lines : RaiseLine(q)) \/ UNCHANGED vars
  BY <1>7, <1>0 DEF Quiet
<1> QED BY <1>1, <1>2, <1>3, <1>4, <1>5, <1>6, <1>7 DEF Next, KernelStep

(* Under every interleaving of ticks with schedule(), fork, exit and wait, *)
(* the process manager is the newest-first, once-only, once-preempted      *)
(* dispatcher.                                                             *)
THEOREM ProcessImplementsDispatcher == Spec => ImplementsDispatcher
PROOF
<1> QED BY InitMaps, NextMaps, HandInvariance, PTL
        DEF Spec, ImplementsDispatcher, Abstract!Spec

-----------------------------------------------------------------------------
(***************************************************************************)
(* The user program on the kernel.                                         *)
(***************************************************************************)

(* Those that have called fork: main() calls it once and does not come     *)
(* back to its beginning.                                                  *)
Forked == {s \in Slots : upc[s] # "start"}

(* Nobody takes the child's branch, because nobody finds 0 in eax, so      *)
(* nobody exits.                                                           *)
ProgramOK ==
  /\ upc \in [Slots -> {"start", "fork", "parent", "wait", "end"}]
  /\ \A s \in Slots : state[s] # "TERMINATED"

(* kmain creates one process, and each that was dispatched one more.       *)
PidsUsed ==
  /\ pc = "boot" => next_pid = 1
  /\ Forked \subseteq Started
  /\ Forked = {} => next_pid <= 2
  /\ (\A s, t \in Forked : s = t) => next_pid <= 3
  /\ next_pid <= 4

AppIInv == ProgramOK /\ PidsUsed

-----------------------------------------------------------------------------
(* What the program does, the kernel lets every process do: each step of   *)
(* it is a step of Process, or one that the kernel does not see.           *)
LEMMA StepIsProcessStep == [AppNext]_<<vars, appVars>> => [Next]_vars
PROOF
<1> SUFFICES ASSUME [AppNext]_<<vars, appVars>> PROVE [Next]_vars
  OBVIOUS
<1>1. CASE UNCHANGED <<vars, appVars>>
  BY <1>1
<1>2. CASE UserStep
  <2>1. ASSUME NEW s \in Slots, CallFork(s) PROVE Next
    BY <2>1 DEF CallFork, Next, Syscall
  <2>2. CASE TestPid \/ TestChildPid
    BY <2>2 DEF TestPid, TestChildPid
  <2>3. CASE AfterFork
    BY <2>3 DEF AfterFork, CallExit, CallWait, Next, Syscall
  <2> QED BY <1>2, <2>1, <2>2, <2>3 DEF UserStep
<1>3. CASE ForkReturns
  BY <1>3 DEF ForkReturns, Next, KernelStep, ForkStep
<1>4. CASE KernelOnly
  BY <1>4 DEF KernelOnly, Next, KernelStep, ForkStep, Tick
<1> QED BY <1>1, <1>2, <1>3, <1>4 DEF AppNext

(* App is the process manager under one program: what holds of Process     *)
(* holds of it.                                                            *)
THEOREM ProgramOnKernel == AppSpec => Spec
PROOF
<1>1. AppInit => Init
  BY DEF AppInit
<1> QED BY <1>1, StepIsProcessStep, PTL DEF AppSpec, Spec

-----------------------------------------------------------------------------
(* As long as nobody exits, at most two processes were dispatched: the one *)
(* on the CPU and the one that the preemption lost.                        *)
LEMMA TwoStarted ==
  ASSUME IInv, ProgramOK
  PROVE  \A s, t, u \in Started : s = t \/ t = u \/ s = u
PROOF
<1> SUFFICES ASSUME NEW s \in Started, NEW t \in Started, NEW u \in Started,
                    s # t, t # u, s # u
             PROVE  FALSE
  OBVIOUS
<1>1. \A x \in Started : state[x] = "RUNNING" /\ (x # current_process => x \in Lost)
  BY DEF ProgramOK, Started, InState, Lost
<1>2. \A x, y \in Started : x # current_process /\ y # current_process => x = y
  BY <1>1 DEF IInv, LostOnce
<1> QED BY <1>2

(* Nothing has run when kmain starts.                                      *)
LEMMA AppInitIInv == AppInit => AppIInv
PROOF
<1> SUFFICES ASSUME AppInit PROVE AppIInv
  OBVIOUS
<1>1. Forked = {}
  BY DEF AppInit, Forked
<1> QED BY <1>1 DEF AppInit, Init, AppIInv, ProgramOK, PidsUsed

(* fork: by a process that has not called it yet.                          *)
LEMMA CallForkKeeps == \A s \in Slots : IInv /\ AppIInv /\ CallFork(s) => AppIInv'
PROOF
<1> SUFFICES ASSUME NEW s \in Slots, IInv, AppIInv, CallFork(s) PROVE AppIInv'
  OBVIOUS
<1> DEFINE c == current_process
<1>1. /\ pc = "user" /\ c \in Started /\ c \in Slots /\ upc[c] = "start"
      /\ upc' = [upc EXCEPT ![c] = "fork"]
      /\ next_pid' = next_pid + 1 /\ next_pid \in Nat /\ UNCHANGED state /\ pc' # "boot"
  BY DEF CallFork, At, Goto, SysFork, AllocatePcb, IInv, CpuAgrees, TypeOK, Started, InState
<1>2. ProgramOK'
  BY <1>1 DEF AppIInv, ProgramOK
<1>3. c \notin Forked /\ Forked' = Forked \union {c} /\ Started' = Started
  BY <1>1 DEF AppIInv, ProgramOK, Forked, Started, InState
<1> HIDE DEF c
<1>4. \A x, y \in Forked : x = y
  BY <1>1, <1>3, TwoStarted DEF AppIInv, PidsUsed
<1>5. next_pid <= 3 /\ (Forked = {} => next_pid <= 2)
  BY <1>4 DEF AppIInv, PidsUsed
<1>6. (\A x, y \in Forked' : x = y) => Forked = {}
  BY <1>3
<1>7. PidsUsed'
  BY <1>1, <1>3, <1>5, <1>6 DEF AppIInv, PidsUsed
<1> QED BY <1>2, <1>7 DEF AppIInv

(* Somebody who was dispatched stays so: nobody exits, and a slot that was *)
(* used is not used again.                                                 *)
LEMMA StartedStay ==
  ASSUME IInv, [Next]_vars
  PROVE  Started \subseteq Started'
PROOF
<1> SUFFICES ASSUME NEW s \in Started PROVE s \in Started'
  OBVIOUS
<1>1. s \in Slots /\ state[s] \in {"RUNNING", "TERMINATED"}
  BY DEF Started, InState
<1>2. state'[s] \in {"RUNNING", "TERMINATED"}
  BY <1>1, StateSteps
<1> QED BY <1>1, <1>2 DEF Started, InState

(* A piece of main() without fork in it: the test of eax leads to the      *)
(* parent's branch, wait reaps nothing, exit is not called.                *)
LEMMA MainKeeps == IInv /\ AppIInv /\ (TestPid \/ AfterFork \/ TestChildPid) => AppIInv'
PROOF
<1> SUFFICES ASSUME IInv, AppIInv, TestPid \/ AfterFork \/ TestChildPid PROVE AppIInv'
  OBVIOUS
<1> DEFINE c == current_process
<1>1. /\ UNCHANGED <<state, next_pid, pc, current_process>> /\ pc = "user" /\ c # NULL
      /\ upc[c] \in {"fork", "parent", "wait"}
      /\ \E p \in {"parent", "wait", "end"} : upc' = [upc EXCEPT ![c] = p]
  <2>1. CASE TestPid
    <3>1. ~(UserEax(SYS_FORK, result[c]) < 0) /\ UserEax(SYS_FORK, result[c]) # 0
      BY DEF UserEax, SYS_FORK
    <3>2. upc' = [upc EXCEPT ![c] = "parent"]
      BY <2>1, <3>1 DEF TestPid, Goto
    <3> QED BY <2>1, <3>2 DEF TestPid, At, vars, tableVars, cpuVars
  <2>2. CASE AfterFork
    <3>1. ~At("child")
      BY DEF At, AppIInv, ProgramOK, IInv, TypeOK
    <3>2. At("parent") /\ SysWait /\ upc' = [upc EXCEPT ![c] = "wait"]
      BY <2>2, <3>1 DEF AfterFork, CallWait, Goto
    <3>3. ZombiesOf(pid[c]) = {}
      BY <3>2, NoZombieToReap DEF At
    <3> QED BY <3>2, <3>3 DEF At, SysWait, cpuVars
  <2>3. CASE TestChildPid
    BY <2>3 DEF TestChildPid, At, Goto, vars, tableVars, cpuVars
  <2> QED BY <2>1, <2>2, <2>3
<1>2. c \in Slots
  BY <1>1 DEF IInv, TypeOK
<1>3. PICK p \in {"parent", "wait", "end"} : upc' = [upc EXCEPT ![c] = p]
  BY <1>1
<1>4. ProgramOK'
  BY <1>1, <1>3 DEF AppIInv, ProgramOK
<1>5. Forked' = Forked /\ Started' = Started
  BY <1>1, <1>2, <1>3 DEF Forked, AppIInv, ProgramOK, Started, InState
<1> QED BY <1>1, <1>4, <1>5 DEF AppIInv, PidsUsed

(* What the kernel does by itself.  Only kmain, once, creates a process    *)
(* without a fork.                                                         *)
LEMMA KernelKeeps ==
  IInv /\ AppIInv /\ [Next]_vars /\ (ForkReturns \/ KernelOnly) => AppIInv'
PROOF
<1> SUFFICES ASSUME IInv, AppIInv, [Next]_vars, ForkReturns \/ KernelOnly PROVE AppIInv'
  OBVIOUS
<1>1. UNCHANGED upc /\ Forked' = Forked
  BY DEF ForkReturns, KernelOnly, appVars, Forked
<1>2. Started \subseteq Started'
  BY StartedStay
<1>3. (\E s \in Slots : KmainCreate(s) \/ KmainCreateFails(s)) \/ UNCHANGED next_pid
  BY DEF ForkReturns, KernelOnly, Kmain, Schedule, Tick, tableVars,
         KmainStops, KmainNoModule, SchedNone, SchedTake,
         SchedPop, SchedRun, SchedTss, SchedSwitch, ForkCopied, ForkNoMemory,
         ForkReady, ForkLink, ForkPush, Fault, TickReturn, TickSwitch, KeyIgnored, RaiseLine
<1>4. pc' = "boot" => pc = "boot" /\ UNCHANGED next_pid
  BY DEF ForkReturns, KernelOnly, Kmain, Schedule, Tick, tableVars, cpuVars,
         KmainCreate, KmainCreateFails, KmainStops, KmainNoModule, SchedNone, SchedTake,
         SchedPop, SchedRun, SchedTss, SchedSwitch, ForkCopied, ForkNoMemory, SwitchToHead,
         ForkReady, ForkLink, ForkPush, Fault, TickReturn, TickSwitch, KeyIgnored, RaiseLine
<1>5. ProgramOK'
  <2>1. ASSUME NEW s \in Slots, state[s] = "RUNNING" PROVE state'[s] # "TERMINATED"
    BY <2>1 DEF ForkReturns, KernelOnly, Kmain, Schedule, Tick, tableVars,
         KmainCreate, KmainCreateFails, KmainStops, KmainNoModule, SchedNone, SchedTake,
         SchedPop, SchedRun, SchedTss, SchedSwitch, ForkCopied, ForkNoMemory,
         ForkReady, ForkLink, ForkPush, Fault, TickReturn, TickSwitch, KeyIgnored, RaiseLine,
         IInv, TypeOK
  <2>2. ASSUME NEW s \in Slots PROVE state'[s] # "TERMINATED"
    BY <2>1, StateSteps DEF AppIInv, ProgramOK
  <2> QED BY <1>1, <2>2 DEF AppIInv, ProgramOK
<1>6. CASE UNCHANGED next_pid
  BY <1>1, <1>2, <1>4, <1>5, <1>6 DEF AppIInv, PidsUsed
<1>7. ASSUME NEW s \in Slots, KmainCreate(s) \/ KmainCreateFails(s) PROVE AppIInv'
  <2>1. pc = "boot" /\ next_pid' = next_pid + 1 /\ pc' = "sched"
    BY <1>7 DEF KmainCreate, KmainCreateFails, AllocatePcb
  <2>2. next_pid' = 2
    BY <2>1 DEF AppIInv, PidsUsed
  <2>3. Forked' \subseteq Started'
    BY <1>1, <1>2 DEF AppIInv, PidsUsed
  <2> QED BY <1>5, <2>1, <2>2, <2>3 DEF AppIInv, PidsUsed
<1> QED BY <1>3, <1>6, <1>7

(* However the ticks fall: nobody exits, and no more pids are used than    *)
(* there are processes to use them.                                        *)
THEOREM ProgramInvariance == AppSpec => [](IInv /\ AppIInv)
PROOF
<1>1. AppInit => AppIInv
  BY AppInitIInv
<1>2. IInv /\ AppIInv /\ [AppNext]_<<vars, appVars>> => AppIInv'
  <2> SUFFICES ASSUME IInv, AppIInv, [AppNext]_<<vars, appVars>> PROVE AppIInv'
    OBVIOUS
  <2>1. CASE UNCHANGED <<vars, appVars>>
    <3>1. UNCHANGED <<state, next_pid, pc, upc>>
      BY <2>1 DEF vars, appVars, tableVars
    <3>2. Forked' = Forked /\ Started' = Started
      BY <3>1 DEF Forked, Started, InState
    <3> QED BY <3>1, <3>2 DEF AppIInv, ProgramOK, PidsUsed
  <2>2. CASE UserStep
    BY <2>2, CallForkKeeps, MainKeeps DEF UserStep
  <2>3. CASE ForkReturns \/ KernelOnly
    BY <2>3, StepIsProcessStep, KernelKeeps
  <2> QED BY <2>1, <2>2, <2>3 DEF AppNext
<1> QED BY <1>1, <1>2, ProgramOnKernel, Invariance, PTL DEF AppSpec

(* The table cannot fill although wait never empties it: two processes are *)
(* all that ever execute, and three pids all that are used.                *)
THEOREM NeverMoreThanTwo == AppSpec => []TwoEverRun
PROOF
<1>1. IInv /\ AppIInv => TwoEverRun
  BY TwoStarted DEF AppIInv, PidsUsed, TwoEverRun
<1> QED BY <1>1, ProgramInvariance, PTL

=============================================================================
