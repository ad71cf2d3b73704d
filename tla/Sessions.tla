------------------------------ MODULE Sessions ------------------------------
(***************************************************************************)
(* What the process layer promises: every terminal is a stack of processes *)
(* with its sche_main at the bottom.  execute pushes the caller's child,   *)
(* halt pops the caller, only the process on top runs, and only on its     *)
(* terminal's turn.  A terminal whose shell ended has a new one before the *)
(* turn moves on.                                                          *)
(***************************************************************************)
EXTENDS Integers, Sequences, SequencesExt

CONSTANTS Pids, NumTerminal

Terminals == 1 .. NumTerminal

VARIABLES
  stack,   \* per terminal, the pids from sche_main (first) to the foreground
  turn,    \* the terminal whose foreground process has the CPU
  shown    \* the terminal on the screen

vars == <<stack, turn, shown>>

Depth(t) == Len(stack[t])
InUse    == UNION {ToSet(stack[t]) : t \in Terminals}

Init ==
  /\ stack = [t \in Terminals |-> <<t, NumTerminal + t>>]
  /\ turn = NumTerminal
  /\ shown = 1

Push ==
  /\ \E child \in Pids \ InUse : stack' = [stack EXCEPT ![turn] = Append(@, child)]
  /\ UNCHANGED <<turn, shown>>

Pop ==
  /\ Depth(turn) > 1
  /\ stack' = [stack EXCEPT ![turn] = Front(@)]
  /\ UNCHANGED <<turn, shown>>

Rotate ==
  /\ Depth(turn) > 1
  /\ turn' = (turn % NumTerminal) + 1
  /\ UNCHANGED <<stack, shown>>

Show ==
  /\ Depth(turn) > 1
  /\ \E t \in Terminals : shown' = t
  /\ UNCHANGED <<stack, turn>>

Next == Push \/ Pop \/ Rotate \/ Show

\* The turn comes to every terminal, and a terminal whose shell ended gets a
\* new one.
Fairness == SF_vars(Rotate) /\ WF_vars(Depth(turn) = 1 /\ Push)

Spec == Init /\ [][Next]_vars /\ Fairness
=============================================================================
