----------------------------- MODULE MountTable -----------------------------
(***************************************************************************)
(* What the virtual file system promises: a table from mount paths to file *)
(* systems, bounded in size, and calls that go to the file system mounted  *)
(* nearest above the path they name.  Paths are sequences of names.        *)
(***************************************************************************)
EXTENDS Integers, FiniteSets, SequencesExt

CONSTANTS Paths, Filesystems, MaxMounts, NULL

VARIABLES
  table,     (* a function from the mounted paths to file systems          *)
  reached    (* the path of the last call by path, and the file system it *)
             (* went to, NULL for none                                    *)

tableVars == <<table, reached>>

Mounted == DOMAIN table

Init ==
  /\ table = [p \in {} |-> NULL]
  /\ reached = [path |-> <<>>, ops |-> NULL]

Mount(p, f) ==
  /\ p \notin Mounted
  /\ Cardinality(Mounted) < MaxMounts
  /\ table' = [q \in Mounted \union {p} |-> IF q = p THEN f ELSE table[q]]
  /\ UNCHANGED reached

Unmount(p) ==
  /\ p \in Mounted
  /\ table' = [q \in Mounted \ {p} |-> table[q]]
  /\ UNCHANGED reached

(* The longest mounted path that p is, or lies below.                      *)
Nearest(p, m) ==
  /\ m \in Mounted
  /\ IsPrefix(m, p)
  /\ \A q \in Mounted : IsPrefix(q, p) => Len(q) <= Len(m)

Call(p) ==
  /\ IF \E m \in Paths : Nearest(p, m)
     THEN \E m \in Paths : Nearest(p, m) /\ reached' = [path |-> p, ops |-> table[m]]
     ELSE reached' = [path |-> p, ops |-> NULL]
  /\ UNCHANGED table

Next ==
  \E p \in Paths :
    \/ \E f \in Filesystems : Mount(p, f)
    \/ Unmount(p)
    \/ Call(p)

Spec == Init /\ [][Next]_tableVars

=============================================================================
