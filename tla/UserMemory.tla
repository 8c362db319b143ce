----------------------------- MODULE UserMemory -----------------------------
(***************************************************************************)
(* What the memory of the processes promises, without frames, tables and   *)
(* page faults: every process has a memory of its own, which starts as the *)
(* program or as a copy of its parent's and changes by its own stores only.*)
(***************************************************************************)
CONSTANTS
  Pids,
  Pages,         (* the pages of an address space                          *)
  ProgramPages,  (* those the program fills; the rest read as zero         *)
  Values

VARIABLE space   (* from the processes that may yet execute to memories    *)

Init == space = [p \in {} |-> {}]

Processes == DOMAIN space

Add(p, memory) ==
  /\ p \notin Processes
  /\ space' = [q \in Processes \union {p} |-> IF q = p THEN memory ELSE space[q]]

Load(p) == Add(p, [va \in Pages |-> IF va \in ProgramPages THEN "code" ELSE "zero"])

Fork(parent, p) == Add(p, space[parent])

Store(p, va, v) == space' = [space EXCEPT ![p][va] = v]

(* Processes are lost, or halted for good.                                 *)
Lose(gone) == space' = [p \in Processes \ gone |-> space[p]]

Next ==
  \/ \E p \in Pids : Load(p) \/ \E parent \in Processes : Fork(parent, p)
  \/ \E p \in Processes, va \in Pages, v \in Values : Store(p, va, v)
  \/ \E gone \in SUBSET Processes : Lose(gone)

Spec == Init /\ [][Next]_space

=============================================================================
