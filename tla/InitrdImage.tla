---------------------------- MODULE InitrdImage ----------------------------
(***************************************************************************)
(* The image tools/create_initrd.c writes.  An input is [name, size]: a    *)
(* file it has added to the image.  A byte is a pair of the input it comes *)
(* from and its place there, so that what is read shows whose bytes it is. *)
(***************************************************************************)
EXTENDS Integers, Sequences, SequencesExt

Bytes(input) == [k \in 1 .. input.size |-> <<input, k>>]

(* Mutant: a file's own size is counted in its offset.                     *)
Offset_OwnSize(inputs, i) ==
  LET offset[k \in DOMAIN inputs] == (IF k = 1 THEN 0 ELSE offset[k - 1]) + inputs[k].size
  IN  offset[i]

(* The sizes of the files before it.                                       *)
Offset(inputs, i) ==
  LET offset[k \in DOMAIN inputs] == IF k = 1 THEN 0 ELSE offset[k - 1] + inputs[k - 1].size
  IN  offset[i]

(* header->files as add_file leaves it.                                    *)
Files(inputs) ==
  [i \in DOMAIN inputs |->
     [name |-> inputs[i].name, size |-> inputs[i].size, offset |-> Offset(inputs, i)]]

(* What add_file appends after the header.                                 *)
Data(inputs) == FlattenSeq([i \in DOMAIN inputs |-> Bytes(inputs[i])])

(* main: signature and header go before the files, each under the name its *)
(* path ends in.  A file that does not open is skipped.                    *)
create_initrd(args) ==
  LET opened == SelectSeq(args, LAMBDA arg : arg.opens)
  IN  [signature |-> TRUE, magic |-> TRUE,
       inputs |-> [i \in DOMAIN opened |-> [name |-> Last(opened[i].path), size |-> opened[i].size]]]

=============================================================================
