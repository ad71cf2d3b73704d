----------------------------- MODULE MCRoutines -----------------------------
(***************************************************************************)
(* The parts that share no state with anything else, side by side: in a    *)
(* behaviour only one of them runs, and the others stay as they began.     *)
(***************************************************************************)
EXTENDS Strings, Heap, Grep, SyscallTests

CONSTANT MaxFile   \* bound: characters of a file that grep searches

VARIABLE part

vars == <<part, strVars, heapVars, grepVars, testVars>>

\* Two strings, one right behind the other.
MCMemories == {[a \in 0 .. MemSize - 1 |-> IF a \in {2, 6} THEN 0 ELSE (a % 4) + 1]}

\* The pattern begins with what may also stand before it, so a line can hold a
\* part of it in front of a whole one, and a read can end within it.
MCPattern == <<"a", "b">>
MCFiles   == BoundedSeq({"a", "b", Newline}, MaxFile) \cup BoundedSeq({"a", "b", Nul}, 4)
MCJunk    == {"b", Newline}

\* A directory like that of the file system image.
MCDirectory == [name \in {<<".">>, <<"r", "t", "c">>, <<"s", "h", "e", "l", "l">>, <<"h", "e", "l", "l", "o">>} |->
                  CASE name = <<".">> -> "dir" [] Len(name) = 3 -> "rtc" [] OTHER -> "file"]

Init ==
  /\ part \in {"strings", "heap", "grep", "tests"}
  /\ StrInit
  /\ HeapInit /\ (part # "heap" => behind = Max(Behind))
  /\ GrepInit /\ (part # "grep" => file = <<>> /\ junk = Newline)
  /\ TestInit /\ (part # "tests" => Len(todo) = 8)

Next ==
  \/ part = "strings" /\ StrNext /\ UNCHANGED <<part, heapVars, grepVars, testVars>>
  \/ part = "heap" /\ HeapNext /\ UNCHANGED <<part, strVars, grepVars, testVars>>
  \/ part = "grep" /\ GrepNext /\ UNCHANGED <<part, strVars, heapVars, testVars>>
  \/ part = "tests" /\ TestNext /\ UNCHANGED <<part, strVars, heapVars, grepVars>>

Spec == Init /\ [][Next]_vars
=============================================================================
