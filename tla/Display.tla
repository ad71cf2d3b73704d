------------------------------ MODULE Display ------------------------------
(***************************************************************************)
(* The drawing routines of lib.c, on what they change: a text page, the    *)
(* cells it shows, and the position screen_x, screen_y.  A cell is known   *)
(* by its number NUM_COLS * y + x, as its address is computed.             *)
(***************************************************************************)
EXTENDS Integers

CONSTANTS Cols, Rows   \* NUM_COLS (80) and NUM_ROWS (25)

ASSUME DisplayAssumption == Cols \in Nat \ {0} /\ Rows \in Nat \ {0}

Cells    == 0 .. Cols * Rows - 1
Contents == {"blank", "text", "cursor"}
Pages    == [Cells -> Contents]
Displays == [page : Pages, x : 0 .. Cols - 1, y : 0 .. Rows - 1]

\* The names ending in _Bug are faulty variants, as in module Process.
Cell(d) == Cols * d.y + d.x

Draw(d, c) == [d EXCEPT !.page[Cell(d)] = c]

BlankPage == [i \in Cells |-> "blank"]

\* clear.
Cleared == Draw([page |-> BlankPage, x |-> 0, y |-> 0], "cursor")

\* shiftupone.
Shifted(page) == [i \in Cells |-> IF i + Cols \in Cells THEN page[i + Cols] ELSE "blank"]

\* To the start of the next line; below the last one the page shifts up.
NextLine(d) ==
  IF d.y + 1 = Rows THEN [d EXCEPT !.x = 0, !.page = Shifted(@)]
  ELSE [d EXCEPT !.x = 0, !.y = @ + 1]

\* The cell of a character, and the step to the right or to the next line.
Advance(d) ==
  LET drawn == Draw(d, "text")
  IN IF d.x + 1 = Cols THEN NextLine(drawn) ELSE [drawn EXCEPT !.x = @ + 1]

\* putc: a tab is four spaces.
putc(d, c) ==
  Draw(CASE c = "newline" -> NextLine(Draw(d, "blank"))
         [] c = "tab"     -> Advance(Advance(Advance(Advance(d))))
         [] OTHER         -> Advance(d),
       "cursor")

clearwithcursorone_NoBlankBug(d) ==
  Draw(CASE d.x > 0             -> [d EXCEPT !.x = @ - 1]
         [] d.x = 0 /\ d.y > 0  -> [d EXCEPT !.x = Cols - 1, !.y = @ - 1]
         [] OTHER               -> d,
       "cursor")
\* clearwithcursorone: one cell back, at most to the first.
clearwithcursorone(d) ==
  Draw(LET blanked == Draw(d, "blank")
       IN CASE d.x > 0             -> [blanked EXCEPT !.x = @ - 1]
            [] d.x = 0 /\ d.y > 0  -> [blanked EXCEPT !.x = Cols - 1, !.y = @ - 1]
            [] OTHER               -> blanked,
       "cursor")

\* clearwithcursor(0, c): back to column c of the line above.  On the first
\* line the cursor is taken away and nothing else happens.
BackToLine(d, c) ==
  LET blanked == Draw(d, "blank")
  IN IF d.y = 0 THEN blanked
     ELSE Draw([blanked EXCEPT !.x = c, !.y = @ - 1], "cursor")
=============================================================================
