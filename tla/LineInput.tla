----------------------------- MODULE LineInput -----------------------------
(***************************************************************************)
(* What the keyboard and terminal_read promise: every terminal has a queue *)
(* of typed characters of its own, the last of which backspace takes back; *)
(* a read waits for a complete line and is given it, in order, up to the   *)
(* size it asked for.  The queue is only ever thrown away when nobody      *)
(* waits for it.                                                           *)
(***************************************************************************)
EXTENDS Integers, Sequences, SequencesExt

CONSTANTS NumTerminal, Capacity, Sizes, Typed, Newline

Terminals == 1 .. NumTerminal
NoRead    == -1

VARIABLES
  pending,  \* per terminal, what was typed and not yet read
  asked,    \* per terminal, the size of the read that waits, or NoRead
  answer,   \* what the last read was given
  shown,    \* the terminal the user types at
  turn      \* the terminal whose process runs

vars == <<pending, asked, answer, shown, turn>>

Init ==
  /\ pending = [t \in Terminals |-> <<>>]
  /\ asked = [t \in Terminals |-> NoRead]
  /\ answer = <<>>
  /\ shown = 1
  /\ turn = 1

Type ==
  /\ Len(pending[shown]) < Capacity
  /\ \E c \in Typed : pending' = [pending EXCEPT ![shown] = Append(@, c)]
  /\ UNCHANGED <<asked, answer, shown, turn>>

Erase ==
  /\ pending[shown] # <<>>
  /\ pending' = [pending EXCEPT ![shown] = Front(@)]
  /\ UNCHANGED <<asked, answer, shown, turn>>

Forget(t) ==
  /\ asked[t] = NoRead
  /\ pending' = [pending EXCEPT ![t] = <<>>]
  /\ UNCHANGED <<asked, answer, shown, turn>>

Ask ==
  /\ asked[turn] = NoRead
  /\ \E n \in Sizes : asked' = [asked EXCEPT ![turn] = n]
  /\ UNCHANGED <<pending, answer, shown, turn>>

\* The waiting read of the running process gets its line, or the part of it
\* that fits.
Answer ==
  LET queue == pending[turn] IN
  /\ asked[turn] # NoRead
  /\ asked[turn] > 0 => Contains(queue, Newline)
  /\ \E k \in 0 .. Len(queue) :
       /\ k <= asked[turn]
       /\ ~ Contains(SubSeq(queue, 1, k - 1), Newline)
       /\ k = asked[turn] \/ (k > 0 /\ queue[k] = Newline)
       /\ answer' = SubSeq(queue, 1, k)
       /\ pending' = [pending EXCEPT ![turn] = SubSeq(queue, k + 1, Len(queue))]
  /\ asked' = [asked EXCEPT ![turn] = NoRead]
  /\ UNCHANGED <<shown, turn>>

Show   == shown' \in Terminals /\ UNCHANGED <<pending, asked, answer, turn>>
Rotate == turn' = (turn % NumTerminal) + 1 /\ UNCHANGED <<pending, asked, answer, shown>>

Next ==
  \/ Type \/ Erase \/ Ask \/ Answer \/ Show \/ Rotate
  \/ \E t \in {shown, turn} : Forget(t)

Fairness == WF_vars(Rotate) /\ \A t \in Terminals : SF_vars(turn = t /\ Answer)

Spec == Init /\ [][Next]_vars /\ Fairness
=============================================================================
