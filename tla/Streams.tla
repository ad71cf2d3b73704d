------------------------------- MODULE Streams ------------------------------
(***************************************************************************)
(* What open, read and close promise a program: a descriptor is a stream   *)
(* of what its file held when it was opened.  Reads take from the front of *)
(* one stream and leave the others alone; the end is an empty answer.      *)
(***************************************************************************)
EXTENDS Integers, Sequences, SequencesExt

CONSTANTS Fds, Openable, Asked   \* Openable: streams; Asked: sizes of a read

Bytes(s) == [unit |-> "bytes", left |-> s]
Names(s) == [unit |-> "names", left |-> s]
Closed   == [unit |-> "closed", left |-> <<>>]

VARIABLES stream, got    \* got: what the last read gave

vars == <<stream, got>>

Init == stream = [fd \in Fds |-> Closed] /\ got = <<>>

Open ==
  /\ \E fd \in Fds, s \in Openable : /\ stream[fd] = Closed
                                     /\ stream' = [stream EXCEPT ![fd] = s]
  /\ got' = <<>>

Close ==
  /\ \E fd \in Fds : stream' = [stream EXCEPT ![fd] = Closed]
  /\ got' = <<>>

\* A call that fails gives nothing and touches nothing.
Refused == got' = <<>> /\ UNCHANGED stream

\* Another program: it has no streams yet.
Restart == stream' = [fd \in Fds |-> Closed] /\ got' = <<>>

\* A read takes as much as was asked for and is there, of a directory one name.
Taken(s, n) == LET k == IF s.unit = "names" THEN 1 ELSE n
               IN IF k <= Len(s.left) THEN k ELSE Len(s.left)

Read ==
  \E fd \in Fds, n \in Asked :
    LET left == stream[fd].left
        k    == Taken(stream[fd], n)
    IN /\ got' = SubSeq(left, 1, k)
       /\ stream' = [stream EXCEPT ![fd].left = SubSeq(left, k + 1, Len(left))]

Next == Open \/ Close \/ Refused \/ Restart \/ Read

Spec == Init /\ [][Next]_vars
=============================================================================
