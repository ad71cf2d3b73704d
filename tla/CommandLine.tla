----------------------------- MODULE CommandLine ----------------------------
(***************************************************************************)
(* From the text of a command to the name of a program and its argument    *)
(* string: tiny_parse, the file name of execute, fillPCBargs and getargs.  *)
(* Text is a sequence of characters without the NUL that ends it.          *)
(***************************************************************************)
EXTENDS Integers, Sequences, SequencesExt

CONSTANTS
  FnameLen,     \* FNAME_LEN, 32
  MaxCommand,   \* MaxCommand, 128: what tiny_parse looks at
  MaxArgs,      \* MaxArgs, 6
  ArgLen        \* PCB_ARGLEN, 128

ASSUME CommandLineAssumption ==
  /\ FnameLen \in Nat /\ FnameLen > 2
  /\ MaxCommand \in Nat /\ MaxCommand >= FnameLen /\ MaxArgs \in Nat \ {0}
  /\ ArgLen \in Nat \ {0}

Blank == " "                  \* the tab, newline and carriage return are like it

Least(a, b)    == IF a <= b THEN a ELSE b
Clip(text, n)  == SubSeq(text, 1, Least(n, Len(text)))

\* tiny_parse's args_pointer: where the words begin and end (the character
\* after the last one), alternately, counted from 0.  The names ending in _Bug
\* are faulty variants, as in module Process.
tiny_parse(command) ==
  LET last == Least(Len(command), MaxCommand)
      InWord(args) == Len(args) % 2 = 1
      Look(args, i) ==
        IF Len(args) = 2 * MaxArgs \/ (command[i] = Blank) # InWord(args) THEN args
        ELSE Append(args, i - 1)
      scan[i \in 0 .. last] == IF i = 0 THEN <<>> ELSE Look(scan[i - 1], i)
  IN IF InWord(scan[last]) THEN Append(scan[last], last) ELSE scan[last]

ArgNum(args)        == Len(args) \div 2
Word(command, args, i) == SubSeq(command, args[2 * i - 1] + 1, args[2 * i])

DotSlash(text) == Len(text) >= 2 /\ text[1] = "." /\ text[2] = "/"

fname_ShortBug(command, args) == SubSeq(command, 1, Least(args[2] - args[1] - 1, FnameLen))
\* execute's fname: as many characters as the first word has, but from the
\* start of the command, blanks before that word included.
fname(command, args) == SubSeq(command, 1, Least(args[2] - args[1], FnameLen))

\* Whether open may take name for the file execute looks for.  A leading "./"
\* is skipped; a word of FnameLen characters or more leaves fname without its
\* NUL, and then open reads on in what is behind it on the stack.
MayName(command, args, name) ==
  LET text == fname(command, args)
      rest == SubSeq(text, 3, Len(text))
  IN IF ~DotSlash(text) THEN name = text
     ELSE IF Len(text) < FnameLen THEN name = rest
     ELSE IsPrefix(rest, name)

fillPCBargs_FirstBug(command, args) ==
  LET words == [i \in 1 .. ArgNum(args) |-> Append(Word(command, args, i), Blank)]
      all == FlattenSeq(words)
  IN IF all = <<>> THEN <<>> ELSE Clip(all, Least(Len(all) - 1, ArgLen - 1))
\* fillPCBargs: the words after the first, a blank behind each; the last one,
\* or what does not fit, gives way to the NUL.
fillPCBargs(command, args) ==
  LET words == [i \in 1 .. ArgNum(args) - 1 |-> Append(Word(command, args, i + 1), Blank)]
      all == FlattenSeq(words)
  IN IF all = <<>> THEN <<>> ELSE Clip(all, Least(Len(all) - 1, ArgLen - 1))

\* getargs(buf, nbytes): it succeeds when the NUL is copied too, and fails when
\* there is nothing before it.
getargs(argstr, nbytes) ==
  [ret  |-> IF argstr # <<>> /\ Len(argstr) < nbytes THEN 0 ELSE -1,
   data |-> Clip(argstr, nbytes)]
=============================================================================
