------------------------------ MODULE MCInitrd ------------------------------
(***************************************************************************)
(* Boot modules for TLC: images of the tool with files of different sizes, *)
(* an empty file, two files of one name, and none that opened; a module    *)
(* that holds no image; an image whose magic number is damaged.            *)
(***************************************************************************)
EXTENDS Initrd, TLC

In(n, s) == [name |-> n, size |-> s]

File(path, s) == [path |-> path, size |-> s, opens |-> TRUE]

Missing(path) == [path |-> path, size |-> 0, opens |-> FALSE]

Good ==
  {create_initrd(<<File(<<"a">>, 2), Missing(<<"d">>), File(<<"b">>, 0), File(<<"c">>, 2)>>),
   create_initrd(<<File(<<"x", "a">>, 1), File(<<"y", "a">>, 2)>>),
   create_initrd(<<Missing(<<"d">>)>>)}

NoImage == [signature |-> FALSE, magic |-> FALSE, inputs |-> <<>>]

Unsigned == [signature |-> FALSE, magic |-> TRUE, inputs |-> <<In("b", 1)>>]

Damaged == [signature |-> TRUE, magic |-> FALSE, inputs |-> <<In("c", 2)>>]

MCModules == Good \union {Unsigned, NoImage, Damaged}

AnyDescriptor == Permutations(Descriptors)

=============================================================================
