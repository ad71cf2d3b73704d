----------------------------- MODULE MCPrograms -----------------------------
(***************************************************************************)
(* A small image of the kind the repository ships as filesys_img: ".", a   *)
(* program, the RTC, a text and a program whose name fills its field       *)
(* without a NUL.  Blocks are out of order, and no length is a multiple of *)
(* BlockSize, as there.                                                    *)
(***************************************************************************)
EXTENDS Programs

Dentry(name, type, inode) == [name |-> name, type |-> type, inode |-> inode]
\* Blocks are numbered from 0 in an inode.
Inode(length, blocks, exe) ==
  [length |-> length, exe |-> exe, blocks |-> [b \in 0 .. Len(blocks) - 1 |-> blocks[b + 1]]]

X     == <<"x">>
Y     == <<"y">>
XY    == <<"x", "y">>
XXXX  == <<"x", "x", "x", "x">>

MCImage ==
  [dentries |-> <<Dentry(<<".">>, DIR_TYPE, 0), Dentry(X, FILE_TYPE, 1), Dentry(Y, RTC_TYPE, 0),
                  Dentry(XY, FILE_TYPE, 2), Dentry(XXXX, FILE_TYPE, 3)>>,
   inodes   |-> [n \in 0 .. 3 |-> CASE n = 0 -> Inode(0, <<0>>, FALSE)
                                    [] n = 1 -> Inode(7, <<2, 0, 5, 1>>, TRUE)
                                    [] n = 2 -> Inode(3, <<4, 8>>, FALSE)
                                    [] n = 3 -> Inode(5, <<7, 3, 6>>, TRUE)],
   num_data_blocks |-> 9]

\* Every line of x and blank up to seven long, and some that need other letters.
MCCommands ==
  BoundedSeq({"x", Blank}, 7)
    \union {<<>>, Y, XY, <<".">>, <<"z">>,
            <<".", "/", "x">>, <<".", "/", "x", Blank, "y">>, <<".", "/", "x", "y">>,
            <<".", "/", "x", "x">>, <<".", "/", "x", "x", "x", "x">>,
            <<"x", Blank, "y", Blank, "z", Blank, "y">>}

\* A program with up to nine arguments.
MCLongCommands ==
  {[i \in 1 .. 2 * words - 1 |-> IF i % 2 = 0 THEN Blank ELSE IF i = 1 THEN "x" ELSE "y"] : words \in 1 .. 10}

ASSUME MCImageIsProper == ProperImage

MCOpenNames == {<<".">>, X, Y, XY, <<"z">>}
=============================================================================
