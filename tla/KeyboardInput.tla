--------------------------- MODULE KeyboardInput ---------------------------
(***************************************************************************)
(* Keyboard implements LineInput: the queue of a terminal is what is       *)
(* unread in its ring.                                                     *)
(***************************************************************************)
EXTENDS Keyboard

LineView == INSTANCE LineInput WITH
  pending <- [t \in Terminals |-> Unread(ring[t])], asked <- reading, shown <- nowterminalno,
  Capacity <- BufSize, Sizes <- ReadSizes, Typed <- Typeable

\* Whatever the order of keys, reads, executes, Ctrl-L and turns: characters are
\* read in the order they were typed, none twice and none of another terminal,
\* backspace takes back the last one, and no read is answered before its line is
\* complete or with more than that line.
LineInputSpec == LineView!Spec
=============================================================================
