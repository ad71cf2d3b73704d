------------------------------ MODULE Keyboard ------------------------------
(***************************************************************************)
(* The keyboard handler, one status and one ring per terminal, and         *)
(* terminal_read on the other end of the ring.  The handler works on the   *)
(* terminal that is shown (it points kbstatusp and kbbufp there and back); *)
(* the running process on the one the scheduler left in kbbufp.  Both run  *)
(* with IF = 0, except that terminal_read waits for a line with IF = 1.    *)
(***************************************************************************)
EXTENDS KeyRing, FiniteSets

CONSTANTS
  NumTerminal,    \* NUMTERMINAL
  Keys,           \* the keys the user has
  ReadSizes,      \* the nbytes programs ask terminal_read for
  MaxPressed,     \* bound on the uint8_t counters of pressed modifiers
  EraseOverWrap   \* does the user ever press backspace with a write index at 0
                  \* and something to erase?  FALSE is a user who does not.

ASSUME KeyboardAssumption ==
  /\ NumTerminal \in Nat \ {0}
  /\ ReadSizes \subseteq Nat
  /\ MaxPressed \in Nat
  /\ EraseOverWrap \in BOOLEAN

Terminals == 1 .. NumTerminal
Modifiers == {"LShift", "RShift", "LCtrl", "LAlt"}
FKeys     == {"F1", "F2", "F3"}
Letters   == {"A", "L", "C"}
NoRead    == -1
Counts    == 0 .. MaxPressed

VARIABLES
  ring,           \* kbbuf_for_multiterminal
  kbstatus,       \* kbstatus_for_multiterminal
  nowterminalno,  \* the terminal shown (from 1 here)
  turn,           \* the terminal kbstatusp and kbbufp point at
  reading,        \* per terminal, the nbytes of the terminal_read in progress
  answer,         \* history: the bytes the last terminal_read put in buf
  held,           \* the modifiers that are physically down
  midcode         \* whether the keyboard has still to send the rest of an
                  \* extended scan code

input == <<ring, kbstatus, nowterminalno>>
vars  == <<input, turn, reading, answer, held, midcode>>

\* kb_Sinit.
kb_Sinit == [shift |-> 0, alt |-> 0, ctrl |-> 0, caps |-> 0, multiscan |-> 0, terminalreading |-> 0]

\* keyboard_init, and the first shells' openStdInOut.
Init ==
  /\ ring = [t \in Terminals |-> EmptyRing]
  /\ kbstatus = [t \in Terminals |-> kb_Sinit]
  /\ nowterminalno = 1
  /\ turn = 1
  /\ reading = [t \in Terminals |-> NoRead]
  /\ answer = <<>>
  /\ held = {}
  /\ midcode = FALSE

\* kb_init on terminal t.
kb_init(t) ==
  /\ kbstatus' = [kbstatus EXCEPT ![t] = kb_Sinit]
  /\ ring' = [ring EXCEPT ![t] = kb_Binit(@)]
-----------------------------------------------------------------------------
(* The handler *)

Shown == kbstatus[nowterminalno]

\* A scan code that is not the rest of an extended one.
PlainCode == ~midcode /\ Shown.multiscan = 0
\* The rest of an extended code is dropped without a look at it.
RestOfCode == Shown.multiscan > 0

\* asciitranslate: no character for most keys with alt.
Translate(k) ==
  IF k = "Enter" THEN {Newline}
  ELSE IF Shown.alt # 0 THEN {}
  ELSE IF Shown.shift # 0 \/ (Shown.caps # 0 /\ k \in Letters) THEN {"shifted"}
  ELSE {"plain"}

\* kbbufpush on the terminal shown; what spills over lands in the next one's
\* ring (after the last one's, in memory that is not modelled).
Push_TurnBug(c) == ring' = [ring EXCEPT ![turn] = kbbufpush(@, c)]
Push(c) ==
  LET spilled == {t \in Terminals : t = nowterminalno + 1 /\ Spills(ring[nowterminalno], c)} IN
  ring' = [t \in Terminals |->
             IF t = nowterminalno THEN kbbufpush(ring[t], c)
             ELSE IF t \in spilled THEN [ring[t] EXCEPT !.bitebuf[SpillPlace] = "stray"]
             ELSE ring[t]]

\* A key that types.
Type(k) ==
  /\ PlainCode
  /\ k \notin Modifiers \cup {"CapsLock", "Backspace", "KeypadSlash"}
  /\ ~ (k \in FKeys /\ Shown.alt > 0)
  /\ ~ (k \in {"L", "C"} /\ Shown.ctrl > 0)
  /\ \E c \in Translate(k) : Push(c)
  /\ UNCHANGED <<kbstatus, nowterminalno, turn, reading, answer, held, midcode>>

Backspace ==
  LET r == ring[nowterminalno]
      erased == r.bitebuf[Pos(Before(r.biteEP))]
      wraps == r.biteEP = 0 \/ (r.lineEP = 0 /\ erased = Newline)
  IN
  /\ "Backspace" \in Keys /\ PlainCode
  /\ r.bitenum > 0 /\ wraps => EraseOverWrap
  /\ ring' = [ring EXCEPT ![nowterminalno] = kbbufpop(@)]
  /\ UNCHANGED <<kbstatus, nowterminalno, turn, reading, answer, held, midcode>>

CapsLock ==
  /\ "CapsLock" \in Keys /\ PlainCode
  /\ kbstatus' = [kbstatus EXCEPT ![nowterminalno].caps = 1 - @]
  /\ UNCHANGED <<ring, nowterminalno, turn, reading, answer, held, midcode>>

\* The counter of pressed keys a modifier belongs to.
Counter(m) == IF m = "LAlt" THEN "alt" ELSE IF m = "LCtrl" THEN "ctrl" ELSE "shift"

\* A modifier that is held down repeats its code, and is counted again.
Press(m) ==
  /\ PlainCode
  /\ Shown[Counter(m)] < MaxPressed
  /\ kbstatus' = [kbstatus EXCEPT ![nowterminalno][Counter(m)] = @ + 1]
  /\ held' = held \cup {m}
  /\ UNCHANGED <<ring, nowterminalno, turn, reading, answer, midcode>>

Release(m) ==
  /\ PlainCode
  /\ m \in held
  /\ kbstatus' = [kbstatus EXCEPT ![nowterminalno][Counter(m)] = IF @ > 0 THEN @ - 1 ELSE 0]
  /\ held' = held \ {m}
  /\ UNCHANGED <<ring, nowterminalno, turn, reading, answer, midcode>>

\* Alt-F1..F3: the handler shows another terminal, without a status or a ring
\* of either changing.
AltFn(no) ==
  /\ PlainCode
  /\ Shown.alt > 0
  /\ nowterminalno' = no
  /\ UNCHANGED <<ring, kbstatus, turn, reading, answer, held, midcode>>

CtrlL_AlwaysBug ==
  /\ PlainCode
  /\ Shown.ctrl > 0
  /\ kb_init(nowterminalno)
  /\ UNCHANGED <<nowterminalno, turn, reading, answer, held, midcode>>

\* Ctrl-L: a terminal nobody reads from forgets its input and its status.
CtrlL ==
  /\ PlainCode
  /\ Shown.ctrl > 0
  /\ IF Shown.terminalreading = 0 THEN kb_init(nowterminalno) ELSE UNCHANGED <<ring, kbstatus>>
  /\ UNCHANGED <<nowterminalno, turn, reading, answer, held, midcode>>

\* An extended key, such as the slash of the keypad, sends E0 and one more byte,
\* when it is pressed and when it is released.  (Of E1, which only Pause sends,
\* nothing is modelled.)
FirstByte ==
  /\ "KeypadSlash" \in Keys /\ PlainCode
  /\ kbstatus' = [kbstatus EXCEPT ![nowterminalno].multiscan = 1]
  /\ midcode' = TRUE
  /\ UNCHANGED <<ring, nowterminalno, turn, reading, answer, held>>

DropSecondByte ==
  /\ midcode /\ RestOfCode
  /\ kbstatus' = [kbstatus EXCEPT ![nowterminalno].multiscan = @ - 1]
  /\ midcode' = FALSE
  /\ UNCHANGED <<ring, nowterminalno, turn, reading, answer, held>>

\* The status was reset in between: the byte is taken for a key of its own, and
\* types if it is the one of a press.
TypeSecondByte ==
  /\ midcode /\ ~RestOfCode
  /\ (\E c \in Translate("KeypadSlash") : Push(c)) \/ UNCHANGED ring
  /\ midcode' = FALSE
  /\ UNCHANGED <<kbstatus, nowterminalno, turn, reading, answer, held>>
-----------------------------------------------------------------------------
(* The running process *)

\* terminal_read up to its wait.
Read ==
  /\ reading[turn] = NoRead
  /\ \E nbytes \in ReadSizes : reading' = [reading EXCEPT ![turn] = nbytes]
  /\ kbstatus' = [kbstatus EXCEPT ![turn].terminalreading = 1]
  /\ UNCHANGED <<ring, nowterminalno, turn, answer, held, midcode>>

\* terminal_read leaves its wait once linenum is not 0, or never enters it.
ReadReturns ==
  LET nbytes == reading[turn] IN
  /\ nbytes # NoRead
  /\ nbytes > 0 => ring[turn].linenum # 0
  /\ answer' = Delivered(ring[turn], nbytes)
  /\ ring' = [ring EXCEPT ![turn] = Consumed(@, nbytes)]
  /\ kbstatus' = [kbstatus EXCEPT ![turn].terminalreading = 0]
  /\ reading' = [reading EXCEPT ![turn] = NoRead]
  /\ UNCHANGED <<nowterminalno, turn, held, midcode>>

\* execute opens stdin and stdout for the child: kb_init on its terminal.
Execute ==
  /\ reading[turn] = NoRead
  /\ kb_init(turn)
  /\ UNCHANGED <<nowterminalno, turn, reading, answer, held, midcode>>

\* The scheduler's kb_status_ptr_set.
Tick_StuckBug ==
  /\ turn' = IF turn = NumTerminal THEN turn ELSE turn + 1
  /\ UNCHANGED <<input, reading, answer, held, midcode>>
Tick ==
  /\ turn' = (turn % NumTerminal) + 1
  /\ UNCHANGED <<input, reading, answer, held, midcode>>

Next ==
  \/ \E k \in Keys : Type(k)
  \/ Backspace
  \/ CapsLock
  \/ \E m \in Modifiers \cap Keys : Press(m) \/ Release(m)
  \/ \E no \in Terminals : <<"F1", "F2", "F3">>[no] \in Keys /\ AltFn(no)
  \/ "L" \in Keys /\ CtrlL
  \/ FirstByte \/ DropSecondByte \/ TypeSecondByte
  \/ Read \/ ReadReturns \/ Execute \/ Tick

\* The PIT fires on; a process in terminal_read's wait looks at linenum at least
\* once in every turn, right after the interrupt that brought it back.
Fairness == WF_vars(Tick) /\ \A t \in Terminals : SF_vars(turn = t /\ ReadReturns)

Spec == Init /\ [][Next]_vars /\ Fairness
-----------------------------------------------------------------------------
(* Properties *)

KbTypeOK ==
  /\ ring \in [Terminals -> Rings]
  /\ kbstatus \in [Terminals -> [shift : Counts, alt : Counts, ctrl : Counts, caps : 0 .. 1,
                                 multiscan : 0 .. 2, terminalreading : 0 .. 1]]
  /\ nowterminalno \in Terminals
  /\ turn \in Terminals
  /\ reading \in [Terminals -> ReadSizes \cup {NoRead}]
  /\ answer \in Seq(Chars \cup {NoChar})
  /\ held \subseteq Modifiers
  /\ midcode \in BOOLEAN

\* linenum is the number of newlines in the ring, and terminal_read, which asks
\* nothing else before it empties the ring up to a newline, can rely on it.  The
\* ring is a "rolling buffer" (e391keyboard.h:56); with EraseOverWrap it is not.
LinesAreCounted ==
  \A t \in Terminals :
    ring[t].linenum = Cardinality({i \in 1 .. ring[t].bitenum : Unread(ring[t])[i] = Newline})

\* "every one has a independent kb buffer" (Bug_log_jjl.txt, CP5): the handler
\* and the running process each keep to the terminal they work for, though both
\* go through the same two pointers; bytes arrive only at the terminal shown,
\* and nobody but its own process empties the ring of a waiting terminal_read.
TerminalsApart ==
  [][\A t \in Terminals :
       /\ t \notin {nowterminalno, turn} => ring'[t] = ring[t] /\ kbstatus'[t] = kbstatus[t]
       /\ t # nowterminalno => ring'[t].bitebuf = ring[t].bitebuf
       /\ t # turn /\ reading[t] # NoRead => ring'[t].biteBP = ring[t].biteBP]_vars

\* A process that waits in terminal_read while there is a line gets it, unless
\* the user takes the line back.
ReaderServed ==
  \A t \in Terminals :
    (reading[t] # NoRead /\ ring[t].linenum > 0) ~> (reading[t] = NoRead \/ ring[t].linenum = 0)
=============================================================================
