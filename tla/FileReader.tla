----------------------------- MODULE FileReader -----------------------------
(***************************************************************************)
(* What an initial ram disk promises: files that never change, found by    *)
(* name, and descriptors that deliver their bytes in order from where the  *)
(* last read or seek left off.                                             *)
(***************************************************************************)
EXTENDS Integers, Sequences

CONSTANTS Descriptors, NULL, Disks

VARIABLES
  disk,      (* the files, a sequence of [name, bytes]; NULL before there  *)
             (* is one                                                     *)
  handle,    (* per descriptor [bytes, pos], or NULL                       *)
  out        (* what the last read delivered                               *)

readerVars == <<disk, handle, out>>

Init ==
  /\ disk = NULL
  /\ handle = [d \in Descriptors |-> NULL]
  /\ out = <<>>

Provide(files) ==
  /\ disk = NULL
  /\ disk' = files
  /\ UNCHANGED <<handle, out>>

(* Of several files with the name, the first.                              *)
Open(d, i) ==
  /\ \A j \in 1 .. i - 1 : disk[j].name # disk[i].name
  /\ handle' = [handle EXCEPT ![d] = [bytes |-> disk[i].bytes, pos |-> 0]]
  /\ UNCHANGED <<disk, out>>

(* A descriptor for the directory is no longer one for a file.             *)
OpenRoot(d) ==
  /\ handle' = [handle EXCEPT ![d] = NULL]
  /\ UNCHANGED <<disk, out>>

(* The next n bytes, or as many as are left.                               *)
Read(d, n) ==
  /\ handle[d] # NULL
  /\ LET size == Len(handle[d].bytes)
         end  == IF handle[d].pos + n <= size THEN handle[d].pos + n ELSE size
     IN  /\ out' = SubSeq(handle[d].bytes, handle[d].pos + 1, end)
         /\ handle' = [handle EXCEPT ![d].pos = end]
  /\ UNCHANGED disk

Seek(d, offset) ==
  /\ handle[d] # NULL
  /\ offset <= Len(handle[d].bytes)
  /\ handle' = [handle EXCEPT ![d].pos = offset]
  /\ UNCHANGED <<disk, out>>

Next ==
  \/ \E files \in Disks : Provide(files)
  \/ \E d \in Descriptors :
       \/ OpenRoot(d)
       \/ disk # NULL /\ \E i \in DOMAIN disk : Open(d, i)
       \/ handle[d] # NULL /\ \E n \in 0 .. Len(handle[d].bytes) : Read(d, n) \/ Seek(d, n)

Spec == Init /\ [][Next]_readerVars

=============================================================================
