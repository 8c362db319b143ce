------------------------------- MODULE MCBoot -------------------------------
(***************************************************************************)
(* Boot modules for TLC: the image create_test_initrd.sh makes, with files *)
(* that fill the buffer just and that do not fit; two files of one name;   *)
(* an image without signature and without files; a module that holds no    *)
(* image; images whose magic is damaged, with and without a file to read.  *)
(***************************************************************************)
EXTENDS Boot, InitrdImage

In(n, s) == [name |-> n, size |-> s]

File(path, s) == [path |-> path, size |-> s, opens |-> TRUE]

TestImage ==
  create_initrd(
    <<File(<<"temp_initrd", "hello.txt">>, 2), File(<<"temp_initrd", "test.txt">>, 3),
      File(<<"temp_initrd", "README.txt">>, 0), File(<<"temp_initrd", "test.c">>, 1)>>)

Twice ==
  create_initrd(
    <<File(<<"a">>, 1), File(<<"x", "test.txt">>, 1),
      File(<<"y", "test.txt">>, 2), File(<<"README.txt">>, 2)>>)

Unsigned == [signature |-> FALSE, magic |-> TRUE, inputs |-> <<>>]

NoImage == [signature |-> FALSE, magic |-> FALSE, inputs |-> <<>>]

Damaged(ins) == [signature |-> TRUE, magic |-> FALSE, inputs |-> ins]

MCModules ==
  {TestImage, Twice, Unsigned, NoImage,
   Damaged(<<In("hello.txt", 0), In("test.txt", 1)>>), Damaged(<<In("a", 1)>>)}

=============================================================================
