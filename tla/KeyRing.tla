------------------------------ MODULE KeyRing ------------------------------
(***************************************************************************)
(* The keyboard's ring buffer, kb_buf_t and kbbufpush / kbbufpop, with its *)
(* indices as the uint8_t they are.  linelocbuf is only ever written, and  *)
(* lineBP only read by its own increment: neither is kept, but where a     *)
(* write lands that leaves linelocbuf is (Spills).                         *)
(***************************************************************************)
EXTENDS Integers, Sequences

CONSTANT BufSize   \* 128, the bytes of bitebuf and the entries of linelocbuf

ASSUME BufSizeAssumption == BufSize \in Nat /\ BufSize >= 2

\* What typing puts in the ring, what zeroed memory and a stray write leave
\* there, and what kbbufconsume returns for an empty ring (1).
Newline   == "newline"
Typeable  == {"plain", "shifted", Newline}
Chars     == Typeable \cup {"blank", "stray"}
NoChar    == "soh"

U8 == 2 * BufSize                       \* 256
Places == 0 .. BufSize - 1

Rings == [bitebuf : [Places -> Chars],
          bitenum : 0 .. BufSize, linenum : 0 .. U8 - 1,
          biteBP  : Places, biteEP : Places \cup {U8 - 1}, lineEP : Places \cup {U8 - 1}]

Pos(x) == x % BufSize

\* POS(x-1) kept in a uint8_t: in C the remainder of -1 is -1, stored as 255.
Before(x) == IF x = 0 THEN U8 - 1 ELSE Pos(x - 1)

EmptyRing == [bitebuf |-> [i \in Places |-> "blank"], bitenum |-> 0, linenum |-> 0,
              biteBP |-> 0, biteEP |-> 0, lineEP |-> 0]

\* kb_Binit: the bytes stay.
kb_Binit(r) == [EmptyRing EXCEPT !.bitebuf = r.bitebuf]

\* A byte at index U8 - 1 of bitebuf falls into linelocbuf.
kbbufpush(r, c) ==
  IF r.bitenum = BufSize THEN r
  ELSE [r EXCEPT !.bitebuf = IF r.biteEP \in Places THEN [@ EXCEPT ![r.biteEP] = c] ELSE @,
                 !.biteEP  = Pos(@ + 1),
                 !.bitenum = @ + 1,
                 !.lineEP  = IF c = Newline THEN Pos(@ + 1) ELSE @,
                 !.linenum = IF c = Newline THEN (@ + 1) % U8 ELSE @]

\* kbbufpush(r, c) writes linelocbuf[U8 - 1], which is bitebuf[BufSize - 4] of
\* the next terminal's kb_buf_t.
Spills(r, c) == r.bitenum < BufSize /\ c = Newline /\ r.lineEP \notin Places
SpillPlace   == Pos(BufSize - 4)

kbbufpop_LineBug(r) ==
  IF r.bitenum = 0 THEN r
  ELSE [r EXCEPT !.biteEP = Before(r.biteEP), !.bitenum = @ - 1]

kbbufpop(r) ==
  LET end == Before(r.biteEP)
      erased == r.bitebuf[Pos(end)]
  IN IF r.bitenum = 0 THEN r
     ELSE [r EXCEPT !.biteEP  = end,
                    !.bitenum = @ - 1,
                    !.lineEP  = IF erased = Newline THEN Before(@) ELSE @,
                    !.linenum = IF erased = Newline THEN (@ - 1) % U8 ELSE @]

\* What is in the ring, oldest first.
Unread(r) == [i \in 1 .. r.bitenum |-> r.bitebuf[Pos(r.biteBP + i - 1)]]

\* How many bytes kbbufconsume takes out when terminal_read asks for nbytes: it
\* stops after a newline, and takes nothing more once the ring is empty.
Taken_NoStopBug(r, nbytes) == IF nbytes <= r.bitenum THEN nbytes ELSE r.bitenum
Taken(r, nbytes) ==
  CHOOSE k \in 0 .. r.bitenum :
    /\ k <= nbytes
    /\ \A i \in 1 .. k - 1 : Unread(r)[i] # Newline
    /\ k = nbytes \/ k = r.bitenum \/ (k > 0 /\ Unread(r)[k] = Newline)

\* terminal_read's loop over kbbufconsume: the bytes it puts in buf ...
Delivered(r, nbytes) ==
  LET k == Taken(r, nbytes)
      asked == IF k > 0 /\ Unread(r)[k] = Newline THEN k ELSE nbytes
  IN [i \in 1 .. asked |-> IF i <= k THEN Unread(r)[i] ELSE NoChar]

\* ... and the ring it leaves.
Consumed(r, nbytes) ==
  LET k == Taken(r, nbytes) IN
  [r EXCEPT !.bitenum = @ - k,
            !.biteBP  = Pos(@ + k),
            !.linenum = IF k > 0 /\ Unread(r)[k] = Newline THEN (@ - 1) % U8 ELSE @]
=============================================================================
