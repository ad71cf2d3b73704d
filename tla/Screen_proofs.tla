--------------------------- MODULE Screen_proofs ---------------------------
(***************************************************************************)
(* For any number of terminals, any size of the screen and whatever is     *)
(* drawn: changing terminals changes no display, one step draws on one     *)
(* display, and no cursor is left behind.  All rest on PagesApart, that no *)
(* two terminals draw on the same page.                                    *)
(***************************************************************************)
EXTENDS Screen, TLAPS

\* The terminal shown is on the screen's page, every other one on its own.
PagesApart ==
  /\ nowterminalno \in Terminals /\ turn \in Terminals
  /\ cur_videoaddr = [t \in Terminals |-> IF t = nowterminalno THEN 0 ELSE t]
  /\ page = [p \in Places |-> page[p]]
  /\ saved = [t \in Terminals |-> saved[t]]
-----------------------------------------------------------------------------
LEMMA TerminalFacts ==
  /\ 1 \in Terminals /\ 0 \notin Terminals /\ 0 \in Places
  /\ Terminals \subseteq Places
  /\ \A t \in Terminals : (IF t = NumTerminal THEN 1 ELSE t + 1) \in Terminals
BY ScreenAssumption DEF Terminals, Places

\* Distinct terminals draw on distinct pages, the shown one on page 0.
LEMMA PageFacts ==
  ASSUME PagesApart
  PROVE  /\ cur_videoaddr[nowterminalno] = 0
         /\ \A t \in Terminals : cur_videoaddr[t] \in Places
         /\ \A t \in Terminals \ {nowterminalno} : cur_videoaddr[t] = t /\ t # 0
         /\ \A t, u \in Terminals : t # u => cur_videoaddr[t] # cur_videoaddr[u]
BY TerminalFacts DEF PagesApart

LEMMA InitApart == Init => PagesApart
BY TerminalFacts DEF Init, PagesApart

\* The handler's echo turns lib.c to the terminal shown and back: it draws on
\* that one's page only and keeps everybody's position.
LEMMA EchoFacts ==
  ASSUME PagesApart, NEW d, Echo(d)
  PROVE  /\ PagesApart'
         /\ \A t \in Terminals \ {nowterminalno} : View(t)' = View(t)
<1>1. /\ page' = [page EXCEPT ![cur_videoaddr[nowterminalno]] = d.page]
      /\ saved' = [Entered EXCEPT ![nowterminalno] = Position(d)]
      /\ screen' = saved'[turn]
      /\ UNCHANGED <<cur_videoaddr, nowterminalno, turn>>
  BY DEF Echo
<1>2. PagesApart'
  BY <1>1, PageFacts DEF PagesApart, Entered
<1>3. ASSUME NEW t \in Terminals \ {nowterminalno}
      PROVE  View(t)' = View(t)
  <2>1. page'[cur_videoaddr'[t]] = page[cur_videoaddr[t]]
    BY <1>1, <1>3, PageFacts DEF PagesApart
  <2>2. (IF t = turn' THEN screen' ELSE saved'[t]) = (IF t = turn THEN screen ELSE saved[t])
    BY <1>1, <1>3 DEF PagesApart, Entered
  <2> QED
    BY <2>1, <2>2 DEF View, On
<1> QED
  BY <1>2, <1>3

\* Alt-Fn moves the two pages and the two addresses together.
LEMMA AltFnFacts ==
  ASSUME PagesApart, NEW now \in Terminals, AltFn(now)
  PROVE  PagesApart' /\ \A t \in Terminals : View(t)' = View(t)
<1> DEFINE old == nowterminalno
<1>1. /\ page' = [[page EXCEPT ![old] = page[0]] EXCEPT ![0] = [page EXCEPT ![old] = page[0]][now]]
      /\ cur_videoaddr' = [[cur_videoaddr EXCEPT ![old] = old] EXCEPT ![now] = 0]
      /\ nowterminalno' = now /\ turn' = turn
      /\ saved' = [saved EXCEPT ![turn] = screen]
      /\ screen' = saved'[turn]
  BY DEF AltFn, Swapped, Entered
<1>2. cur_videoaddr' = [t \in Terminals |-> IF t = now THEN 0 ELSE t]
  BY <1>1 DEF PagesApart
<1>3. PagesApart'
  <2>1. page' = [p \in Places |-> page'[p]] /\ saved' = [t \in Terminals |-> saved'[t]]
    <3> DEFINE kept == [page EXCEPT ![old] = page[0]]
    <3>1. kept = [p \in Places |-> kept[p]]
      BY DEF PagesApart
    <3>2. page' = [kept EXCEPT ![0] = kept[now]]
      BY <1>1
    <3>3. page' = [p \in Places |-> page'[p]]
      <4> HIDE DEF kept
      <4> QED
        BY <3>1, <3>2
    <3> QED
      BY <1>1, <3>3 DEF PagesApart
  <2> QED
    BY <1>1, <1>2, <2>1 DEF PagesApart
<1>4. ASSUME NEW t \in Terminals PROVE View(t)' = View(t)
  <2>1. page'[cur_videoaddr'[t]] = page[cur_videoaddr[t]]
    <3>1. CASE t = now
      BY <1>1, <1>2, <3>1, TerminalFacts, PageFacts DEF PagesApart
    <3>2. CASE t # now
      BY <1>1, <1>2, <3>2, TerminalFacts, PageFacts DEF PagesApart
    <3> QED
      BY <3>1, <3>2
  <2>2. (IF t = turn' THEN screen' ELSE saved'[t]) = (IF t = turn THEN screen ELSE saved[t])
    BY <1>1 DEF PagesApart
  <2> QED
    BY <2>1, <2>2 DEF View, On
<1> QED
  BY <1>3, <1>4

\* The tick saves one position and takes up another.
LEMMA TickFacts ==
  ASSUME PagesApart, Tick
  PROVE  PagesApart' /\ \A t \in Terminals : View(t)' = View(t)
<1>1. /\ UNCHANGED <<page, cur_videoaddr, nowterminalno>>
      /\ turn' \in Terminals
      /\ saved' = [saved EXCEPT ![turn] = screen]
      /\ screen' = saved'[turn']
  BY TerminalFacts DEF Tick, PagesApart
<1>2. PagesApart'
  BY <1>1 DEF PagesApart
<1>3. ASSUME NEW t \in Terminals PROVE View(t)' = View(t)
  <2>1. (IF t = turn' THEN screen' ELSE saved'[t]) = (IF t = turn THEN screen ELSE saved[t])
    BY <1>1 DEF PagesApart
  <2> QED
    BY <1>1, <2>1 DEF View, On
<1> QED
  BY <1>2, <1>3

\* A program draws where lib.c points, and on no other page.
LEMMA WriteFacts ==
  ASSUME PagesApart, NEW c, Write(c)
  PROVE  /\ PagesApart'
         /\ video_mem = Home => \A t \in Terminals \ {turn} : View(t)' = View(t)
<1> DEFINE d == putc(On(page, video_mem, screen), c)
<1>1. /\ page' = [page EXCEPT ![video_mem] = d.page]
      /\ saved' = [saved EXCEPT ![turn] = Position(d)]
      /\ UNCHANGED <<video_mem, cur_videoaddr, nowterminalno, turn>>
  BY DEF Write
<1> HIDE DEF d
<1>2. PagesApart'
  BY <1>1 DEF PagesApart
<1>3. ASSUME video_mem = Home, NEW t \in Terminals \ {turn} PROVE View(t)' = View(t)
  <2>1. page'[cur_videoaddr'[t]] = page[cur_videoaddr[t]]
    BY <1>1, <1>3, PageFacts DEF PagesApart, Home
  <2>2. saved'[t] = saved[t] /\ turn' = turn
    BY <1>1, <1>3 DEF PagesApart
  <2> QED
    BY <2>1, <2>2 DEF View, On
<1> QED
  BY <1>2, <1>3

\* execute clears the running terminal's saved position, which is out of date.
LEMMA ExecuteFacts ==
  ASSUME PagesApart, Execute
  PROVE  PagesApart' /\ \A t \in Terminals : View(t)' = View(t)
<1>1. /\ saved' = [saved EXCEPT ![turn] = Origin]
      /\ UNCHANGED <<page, screen, cur_videoaddr, nowterminalno, turn>>
  BY DEF Execute
<1>2. PagesApart'
  BY <1>1 DEF PagesApart
<1>3. \A t \in Terminals : t # turn => saved'[t] = saved[t]
  BY <1>1 DEF PagesApart
<1> QED
  BY <1>1, <1>2, <1>3 DEF View, On

\* A program's page of vidmap leads to the screen or to no terminal's page.
LEMMA PokeFacts ==
  ASSUME PagesApart, Poke
  PROVE  PagesApart' /\ \A t \in Terminals \ {nowterminalno} : View(t)' = View(t)
<1>1. UNCHANGED <<screen, saved, cur_videoaddr, nowterminalno, turn>>
  BY DEF Poke
<1>2. PICK new : page' = page \/ page' = [page EXCEPT ![0] = new]
  BY DEF Poke
<1>3. PagesApart'
  BY <1>1, <1>2 DEF PagesApart
<1>4. \A t \in Terminals \ {nowterminalno} : page'[cur_videoaddr'[t]] = page[cur_videoaddr[t]]
  BY <1>1, <1>2, PageFacts DEF PagesApart
<1> QED
  BY <1>1, <1>3, <1>4 DEF View, On

\* Neither what vidmap maps nor a stutter is seen.
LEMMA UnseenFacts ==
  ASSUME PagesApart, UNCHANGED <<page, screen, saved, cur_videoaddr, nowterminalno, turn>>
  PROVE  PagesApart' /\ \A t \in Terminals : View(t)' = View(t)
BY DEF PagesApart, View, On

LEMMA StepApart ==
  ASSUME PagesApart, [Next]_vars
  PROVE  /\ PagesApart'
         /\ nowterminalno' # nowterminalno \/ turn' # turn
              => \A t \in Terminals : View(t)' = View(t)
         /\ ~Astray => \/ \A t \in Terminals \ {turn} : View(t)' = View(t)
                       \/ \A t \in Terminals \ {nowterminalno} : View(t)' = View(t)
<1>1. ASSUME NEW c \in Written, Write(c)
      PROVE  /\ PagesApart' /\ UNCHANGED <<nowterminalno, turn>>
             /\ ~Astray => \A t \in Terminals \ {turn} : View(t)' = View(t)
  BY <1>1, WriteFacts DEF Write, Astray
<1>2. ASSUME Key
      PROVE  /\ PagesApart' /\ UNCHANGED <<nowterminalno, turn>>
             /\ \A t \in Terminals \ {nowterminalno} : View(t)' = View(t)
  <2>1. PICK d : Echo(d)
    BY <1>2 DEF Key
  <2> QED
    BY <2>1, EchoFacts DEF Echo
<1>3. ASSUME NEW now \in Terminals, AltFn(now)
      PROVE  PagesApart' /\ \A t \in Terminals : View(t)' = View(t)
  BY <1>3, AltFnFacts
<1>4. ASSUME Tick
      PROVE  PagesApart' /\ \A t \in Terminals : View(t)' = View(t)
  BY <1>4, TickFacts
<1>5. ASSUME Execute
      PROVE  PagesApart' /\ \A t \in Terminals : View(t)' = View(t)
  BY <1>5, ExecuteFacts
<1>6. ASSUME Poke
      PROVE  /\ PagesApart' /\ UNCHANGED <<nowterminalno, turn>>
             /\ \A t \in Terminals \ {nowterminalno} : View(t)' = View(t)
  BY <1>6, PokeFacts DEF Poke
<1>7. ASSUME Vidmap \/ UNCHANGED vars
      PROVE  PagesApart' /\ \A t \in Terminals : View(t)' = View(t)
  BY <1>7, UnseenFacts DEF Vidmap, vars
<1> QED
  BY <1>1, <1>2, <1>3, <1>4, <1>5, <1>6, <1>7 DEF Next

\* No two terminals ever draw on the same page.
THEOREM PagesStayApart == Spec => []PagesApart
<1>1. PagesApart /\ [Next]_vars => PagesApart'
  BY StepApart
<1> QED
  BY <1>1, InitApart, PTL DEF Spec

\* Alt-Fn and the scheduler change no terminal's display, for any number of
\* terminals and whatever is on the pages.
THEOREM SwitchingShowsTheSameHolds == Spec => SwitchingShowsTheSame
<1>1. PagesApart /\ [Next]_vars
        => [nowterminalno' # nowterminalno \/ turn' # turn
              => \A t \in Terminals : View(t)' = View(t)]_vars
  BY StepApart
<1> QED
  BY <1>1, PagesStayApart, PTL DEF Spec, SwitchingShowsTheSame

\* As long as lib.c and vidmap's page point home, a step draws on one display.
THEOREM DrawsOnOneHolds == Spec => DrawsOnOne
<1>1. PagesApart /\ [Next]_vars
        => [~Astray => \/ \A t \in Terminals \ {turn} : View(t)' = View(t)
                       \/ \A t \in Terminals \ {nowterminalno} : View(t)' = View(t)]_vars
  BY StepApart
<1> QED
  BY <1>1, PagesStayApart, PTL DEF Spec, DrawsOnOne
-----------------------------------------------------------------------------
(* Cursors *)

Bare(d)  == \A i \in Cells : d.page[i] # "cursor"
Clean(d) == \A i \in Cells : d.page[i] = "cursor" => i = Cell(d)

\* Whatever is drawn where the cursor may be takes it away, and a cursor is clean
\* on a bare page.
LEMMA DrawFacts ==
  ASSUME NEW d \in Displays, NEW c \in Contents
  PROVE  /\ Draw(d, c) \in Displays
         /\ Draw(d, c).x = d.x /\ Draw(d, c).y = d.y
         /\ c # "cursor" /\ Clean(d) => Bare(Draw(d, c))
         /\ c # "cursor" /\ Bare(d) => Bare(Draw(d, c))
         /\ Bare(d) => Clean(Draw(d, c))
<1> DEFINE e == Draw(d, c)
<1>1. d.page \in Pages /\ d.x \in 0 .. Cols - 1 /\ d.y \in 0 .. Rows - 1
  BY DEF Displays
<1>2. e.page = [d.page EXCEPT ![Cell(d)] = c] /\ e.x = d.x /\ e.y = d.y
  BY DEF Draw, Displays
<1>3. e = [page |-> e.page, x |-> e.x, y |-> e.y]
  BY DEF Draw, Displays
<1> HIDE DEF e
<1>4. e.page \in Pages /\ \A i \in Cells : e.page[i] = IF i = Cell(d) THEN c ELSE d.page[i]
  BY <1>1, <1>2 DEF Pages
<1>5. e \in Displays
  BY <1>1, <1>2, <1>3, <1>4 DEF Displays
<1>6. Cell(e) = Cell(d)
  BY <1>2 DEF Cell
<1>7. c # "cursor" /\ (Clean(d) \/ Bare(d)) => Bare(e)
  BY <1>4 DEF Clean, Bare
<1>8. Bare(d) => Clean(e)
  BY <1>4, <1>6 DEF Clean, Bare
<1> QED
  BY <1>2, <1>5, <1>7, <1>8 DEF e

LEMMA Colours == {"blank", "text", "cursor"} \subseteq Contents /\ "blank" # "cursor" /\ "text" # "cursor"
BY DEF Contents

\* The position moves within the screen; what is drawn stays.
LEMMA MoveFacts ==
  ASSUME NEW d \in Displays, NEW x \in 0 .. Cols - 1, NEW y \in 0 .. Rows - 1
  PROVE  /\ [d EXCEPT !.x = x, !.y = y] \in Displays
         /\ Bare(d) => Bare([d EXCEPT !.x = x, !.y = y])
BY DEF Displays, Bare

LEMMA NextLineFacts ==
  ASSUME NEW d \in Displays
  PROVE  NextLine(d) \in Displays /\ (Bare(d) => Bare(NextLine(d)))
<1>1. d.page \in Pages /\ d.x \in 0 .. Cols - 1 /\ d.y \in 0 .. Rows - 1 /\ 0 \in 0 .. Cols - 1
  BY DisplayAssumption DEF Displays
<1>2. CASE d.y + 1 = Rows
  <2>1. /\ Shifted(d.page) \in Pages
        /\ Bare(d) => \A i \in Cells : Shifted(d.page)[i] # "cursor"
    BY <1>1, Colours DEF Shifted, Pages, Bare
  <2> DEFINE new == Shifted(d.page)
  <2>2. NextLine(d) = [d EXCEPT !.x = 0, !.page = new]
    BY <1>2 DEF NextLine
  <2> HIDE DEF new
  <2> QED
    BY <1>1, <2>1, <2>2 DEF Displays, Bare, new
<1>3. CASE d.y + 1 # Rows
  <2>1. d.y + 1 \in 0 .. Rows - 1
    BY <1>1, <1>3, DisplayAssumption
  <2> DEFINE down == d.y + 1
  <2>2. NextLine(d) = [d EXCEPT !.x = 0, !.y = down]
    BY <1>3 DEF NextLine
  <2> HIDE DEF down
  <2> QED
    BY <1>1, <2>1, <2>2, MoveFacts DEF down
<1> QED
  BY <1>2, <1>3

LEMMA AdvanceFacts ==
  ASSUME NEW d \in Displays
  PROVE  Advance(d) \in Displays /\ (Clean(d) \/ Bare(d) => Bare(Advance(d)))
<1> DEFINE e == Draw(d, "text")
           right == d.x + 1
<1>1. e \in Displays /\ (Clean(d) \/ Bare(d) => Bare(e)) /\ e.x = d.x /\ e.y = d.y
  BY DrawFacts, Colours
<1>2. d.x \in 0 .. Cols - 1 /\ d.y \in 0 .. Rows - 1
  BY DEF Displays
<1> HIDE DEF e
<1>3. CASE d.x + 1 = Cols
  <2>1. Advance(d) = NextLine(e)
    BY <1>3 DEF Advance, e
  <2> QED
    BY <1>1, <2>1, NextLineFacts
<1>4. CASE d.x + 1 # Cols
  <2>1. right \in 0 .. Cols - 1
    BY <1>2, <1>4, DisplayAssumption
  <2>2. Advance(d) = [e EXCEPT !.x = right]
    BY <1>1, <1>4 DEF Advance, e
  <2> HIDE DEF right
  <2>3. [e EXCEPT !.x = right] \in Displays /\ (Bare(e) => Bare([e EXCEPT !.x = right]))
    BY <1>1, <2>1 DEF Displays, Bare
  <2> QED
    BY <1>1, <2>2, <2>3
<1> QED
  BY <1>3, <1>4

\* A character, a backspace and a backspace over a newline leave one cursor, where
\* the next character goes, if there was none elsewhere.
LEMMA putcFacts ==
  ASSUME NEW d \in Displays, NEW c
  PROVE  putc(d, c) \in Displays /\ (Clean(d) => Clean(putc(d, c)))
<1>1. /\ Draw(d, "blank") \in Displays
      /\ Clean(d) => Bare(Draw(d, "blank"))
  BY DrawFacts, Colours
<1>2. ASSUME NEW e, e \in Displays, Clean(d) => Bare(e), putc(d, c) = Draw(e, "cursor")
      PROVE  putc(d, c) \in Displays /\ (Clean(d) => Clean(putc(d, c)))
  BY <1>2, DrawFacts, Colours
<1>3. CASE c = "newline"
  <2> DEFINE e == NextLine(Draw(d, "blank"))
  <2>1. e \in Displays /\ (Clean(d) => Bare(e))
    BY <1>1, NextLineFacts
  <2>2. putc(d, c) = Draw(e, "cursor")
    BY <1>3 DEF putc
  <2> HIDE DEF e
  <2> QED
    BY <1>2, <2>1, <2>2
<1>4. CASE c = "tab"
  <2> DEFINE a1 == Advance(d)
             a2 == Advance(a1)
             a3 == Advance(a2)
             a4 == Advance(a3)
  <2>1. putc(d, c) = Draw(a4, "cursor")
    BY <1>4 DEF putc
  <2>2. a1 \in Displays /\ (Clean(d) => Bare(a1))
    BY AdvanceFacts
  <2> HIDE DEF a1
  <2>3. a2 \in Displays /\ (Clean(d) => Bare(a2))
    BY <2>2, AdvanceFacts
  <2> HIDE DEF a2
  <2>4. a3 \in Displays /\ (Clean(d) => Bare(a3))
    BY <2>3, AdvanceFacts
  <2> HIDE DEF a3
  <2>5. a4 \in Displays /\ (Clean(d) => Bare(a4))
    BY <2>4, AdvanceFacts
  <2> HIDE DEF a4
  <2> QED
    BY <1>2, <2>1, <2>5
<1>5. CASE c \notin {"newline", "tab"}
  <2> DEFINE e == Advance(d)
  <2>1. e \in Displays /\ (Clean(d) => Bare(e))
    BY AdvanceFacts
  <2>2. putc(d, c) = Draw(e, "cursor")
    BY <1>5 DEF putc
  <2> HIDE DEF e
  <2> QED
    BY <1>2, <2>1, <2>2
<1> QED
  BY <1>3, <1>4, <1>5

LEMMA BackspaceFacts ==
  ASSUME NEW d \in Displays
  PROVE  clearwithcursorone(d) \in Displays /\ (Clean(d) => Clean(clearwithcursorone(d)))
<1> DEFINE b == Draw(d, "blank")
           new == clearwithcursorone(d)
<1>1. b \in Displays /\ (Clean(d) => Bare(b)) /\ b.x = d.x /\ b.y = d.y
  BY DrawFacts, Colours
<1>2. d.x \in 0 .. Cols - 1 /\ d.y \in 0 .. Rows - 1 /\ Cols - 1 \in 0 .. Cols - 1
  BY DisplayAssumption DEF Displays
<1>3. ASSUME NEW x \in 0 .. Cols - 1, NEW y \in 0 .. Rows - 1,
             new = Draw([b EXCEPT !.x = x, !.y = y], "cursor")
      PROVE  new \in Displays /\ (Clean(d) => Clean(new))
  <2> DEFINE e == [b EXCEPT !.x = x, !.y = y]
  <2>1. e \in Displays /\ (Bare(b) => Bare(e))
    BY <1>1, MoveFacts
  <2> HIDE DEF e, b
  <2>2. Draw(e, "cursor") \in Displays /\ (Bare(e) => Clean(Draw(e, "cursor")))
    BY <2>1, DrawFacts, Colours
  <2> QED
    BY <1>1, <1>3, <2>1, <2>2 DEF e
<1>4. CASE d.x > 0
  <2>1. d.x - 1 \in 0 .. Cols - 1
    BY <1>2, <1>4, DisplayAssumption
  <2>2. [b EXCEPT !.x = b.x - 1] = [b EXCEPT !.x = d.x - 1, !.y = d.y]
    BY <1>1 DEF Displays
  <2>3. new = Draw([b EXCEPT !.x = d.x - 1, !.y = d.y], "cursor")
    BY <1>4, <2>2 DEF clearwithcursorone
  <2> QED
    BY <1>2, <1>3, <2>1, <2>3
<1>5. CASE d.x = 0 /\ d.y > 0
  <2>1. d.y - 1 \in 0 .. Rows - 1
    BY <1>2, <1>5, DisplayAssumption
  <2>2. [b EXCEPT !.x = Cols - 1, !.y = b.y - 1] = [b EXCEPT !.x = Cols - 1, !.y = d.y - 1]
    BY <1>1
  <2>3. new = Draw([b EXCEPT !.x = Cols - 1, !.y = d.y - 1], "cursor")
    BY <1>5, <2>2 DEF clearwithcursorone
  <2> QED
    BY <1>2, <1>3, <2>1, <2>3
<1>6. CASE d.x = 0 /\ d.y = 0
  <2>1. b = [b EXCEPT !.x = d.x, !.y = d.y]
    BY <1>1 DEF Displays
  <2>2. new = Draw(b, "cursor")
    BY <1>6 DEF clearwithcursorone
  <2>3. new = Draw([b EXCEPT !.x = d.x, !.y = d.y], "cursor")
    BY <2>1, <2>2
  <2> QED
    BY <1>2, <1>3, <2>3
<1> QED
  BY <1>2, <1>4, <1>5, <1>6

LEMMA BackToLineFacts ==
  ASSUME NEW d \in Displays, NEW c \in 0 .. Cols - 1
  PROVE  BackToLine(d, c) \in Displays /\ (Clean(d) => Clean(BackToLine(d, c)))
<1> DEFINE b == Draw(d, "blank")
<1>1. b \in Displays /\ (Clean(d) => Bare(b)) /\ b.x = d.x /\ b.y = d.y
  BY DrawFacts, Colours
<1>2. d.y \in 0 .. Rows - 1
  BY DEF Displays
<1>3. CASE d.y = 0
  <2>1. BackToLine(d, c) = b
    BY <1>3 DEF BackToLine
  <2> QED
    BY <1>1, <2>1 DEF Bare, Clean
<1>4. CASE d.y # 0
  <2> DEFINE e == [b EXCEPT !.x = c, !.y = d.y - 1]
  <2>1. d.y - 1 \in 0 .. Rows - 1
    BY <1>2, <1>4, DisplayAssumption
  <2>2. e \in Displays /\ (Bare(b) => Bare(e))
    BY <1>1, <2>1, MoveFacts
  <2>3. BackToLine(d, c) = Draw(e, "cursor")
    BY <1>1, <1>4 DEF BackToLine
  <2> HIDE DEF e
  <2>4. Draw(e, "cursor") \in Displays /\ (Bare(e) => Clean(Draw(e, "cursor")))
    BY <2>2, DrawFacts, Colours
  <2> QED
    BY <1>1, <2>2, <2>3, <2>4
<1> QED
  BY <1>3, <1>4

LEMMA ClearedFacts == Cleared \in Displays /\ Clean(Cleared)
<1> DEFINE d == [page |-> BlankPage, x |-> 0, y |-> 0]
<1>1. d \in Displays /\ Bare(d)
  BY DisplayAssumption, Colours DEF Displays, Pages, BlankPage, Bare
<1> HIDE DEF d
<1> QED
  BY <1>1, DrawFacts, Colours DEF Cleared, d
-----------------------------------------------------------------------------
\* Every page and position is one, and the cursors of a display are where its
\* next character goes, unless something was drawn away from home.
CursorInv ==
  /\ PagesApart
  /\ ScreenTypeOK
  /\ ~strayed => \A t \in Terminals : Clean(View(t))

LEMMA ViewFacts ==
  ASSUME PagesApart, ScreenTypeOK
  PROVE  /\ \A t \in Terminals : View(t) \in Displays
         /\ View(turn) = On(page, Home, screen)
         /\ View(nowterminalno) = Shown
<1>1. \A t \in Terminals : View(t) \in Displays
  BY PageFacts DEF ScreenTypeOK, View, On, Displays, Positions
<1>2. View(turn) = On(page, Home, screen)
  BY DEF View, Home
<1>3. Entered[nowterminalno] = IF nowterminalno = turn THEN screen ELSE saved[nowterminalno]
  BY DEF Entered, PagesApart
<1>4. View(nowterminalno) = Shown
  BY <1>3 DEF View, Shown
<1> QED
  BY <1>1, <1>2, <1>4

LEMMA InitCursor == Init => CursorInv
<1> SUFFICES ASSUME Init PROVE CursorInv
  OBVIOUS
<1> USE TerminalFacts
<1>1. PagesApart
  BY InitApart
<1>2. Origin \in Positions /\ BlankPage \in Pages /\ Cleared.page \in Pages
  BY ClearedFacts, DisplayAssumption, Colours DEF Origin, Positions, BlankPage, Pages, Displays
<1>3. ScreenTypeOK
  BY <1>2 DEF Init, ScreenTypeOK
<1>4. ASSUME NEW t \in Terminals PROVE Clean(View(t))
  <2>1. CASE t = 1
    <3>1. Cleared.x = 0 /\ Cleared.y = 0
      BY DEF Cleared, Draw
    <3>2. View(t).page = Cleared.page /\ View(t).x = 0 /\ View(t).y = 0
      BY <2>1 DEF Init, View, On, Origin
    <3> QED
      BY <3>1, <3>2, ClearedFacts DEF Clean, Cell
  <2>2. CASE t # 1
    <3>1. View(t).page = BlankPage
      BY <2>2 DEF Init, View, On
    <3> QED
      BY <3>1 DEF Clean, BlankPage
  <2> QED
    BY <2>1, <2>2
<1> QED
  BY <1>1, <1>3, <1>4 DEF CursorInv

\* A position and a page, taken apart again.
LEMMA DisplayParts ==
  ASSUME NEW d \in Displays
  PROVE  /\ Position(d) \in Positions /\ d.page \in Pages
         /\ Position(d).x = d.x /\ Position(d).y = d.y
BY DEF Displays, Position, Positions

LEMMA WriteCursor == ASSUME CursorInv, NEW c, Write(c) PROVE CursorInv'
<1> DEFINE old == On(page, video_mem, screen)
           d   == putc(old, c)
<1>1. PagesApart' /\ (video_mem = Home => \A t \in Terminals \ {turn} : View(t)' = View(t))
  BY WriteFacts DEF CursorInv
<1>2. old \in Displays
  BY DEF CursorInv, ScreenTypeOK, On, Displays, Positions
<1>3. d \in Displays /\ (Clean(old) => Clean(d))
  BY <1>2, putcFacts
<1>4. /\ page' = [page EXCEPT ![video_mem] = d.page]
      /\ screen' = Position(d)
      /\ saved' = [saved EXCEPT ![turn] = Position(d)]
      /\ strayed' = (strayed \/ video_mem # Home)
      /\ UNCHANGED <<video_mem, cur_videoaddr, nowterminalno, turn, uvideo>>
  BY DEF Write
<1> HIDE DEF d
<1>5. ScreenTypeOK'
  BY <1>3, <1>4, DisplayParts DEF CursorInv, ScreenTypeOK
<1>6. ASSUME ~strayed', NEW t \in Terminals PROVE Clean(View(t)')
  <2>1. video_mem = Home /\ ~strayed
    BY <1>4, <1>6 DEF CursorInv, ScreenTypeOK
  <2>2. CASE t # turn
    BY <1>1, <1>6, <2>1, <2>2 DEF CursorInv
  <2>3. CASE t = turn
    <3>1. View(t) = old
      BY <2>1, <2>3, ViewFacts DEF CursorInv
    <3>2. Clean(d)
      BY <1>3, <2>1, <3>1, <1>6 DEF CursorInv
    <3>3. View(t)'.page = d.page /\ View(t)'.x = d.x /\ View(t)'.y = d.y
      BY <1>3, <1>4, <2>1, <2>3, DisplayParts DEF View, On, Home, CursorInv, ScreenTypeOK
    <3> QED
      BY <3>2, <3>3 DEF Clean, Cell
  <2> QED
    BY <2>2, <2>3
<1> QED
  BY <1>1, <1>5, <1>6 DEF CursorInv, Clean, Cell, View, On

LEMMA EchoCursor ==
  ASSUME CursorInv, NEW d \in Displays, Echo(d), Clean(Shown) => Clean(d)
  PROVE  CursorInv'
<1> DEFINE now == nowterminalno
<1>1. PagesApart' /\ \A t \in Terminals \ {now} : View(t)' = View(t)
  BY EchoFacts DEF CursorInv
<1>2. /\ page' = [page EXCEPT ![cur_videoaddr[now]] = d.page]
      /\ saved' = [Entered EXCEPT ![now] = Position(d)]
      /\ screen' = saved'[turn]
      /\ video_mem' = cur_videoaddr[turn]
      /\ UNCHANGED <<cur_videoaddr, nowterminalno, turn, uvideo, strayed>>
  BY DEF Echo
<1>3. saved' \in [Terminals -> Positions] /\ saved'[now] = Position(d)
  BY <1>2, DisplayParts DEF CursorInv, ScreenTypeOK, Entered
<1>4. ScreenTypeOK'
  BY <1>2, <1>3, DisplayParts DEF CursorInv, ScreenTypeOK
<1>5. ASSUME ~strayed', NEW t \in Terminals PROVE Clean(View(t)')
  <2>1. ~strayed
    BY <1>2, <1>5
  <2>2. CASE t # now
    BY <1>1, <1>5, <2>1, <2>2 DEF CursorInv
  <2>3. CASE t = now
    <3>1. Clean(d)
      BY <1>5, <2>1, <2>3, ViewFacts DEF CursorInv
    <3>2. View(t)'.page = d.page
      BY <1>2, <2>3 DEF View, On, CursorInv, ScreenTypeOK
    <3>3. View(t)'.x = d.x /\ View(t)'.y = d.y
      BY <1>2, <1>3, <2>3, DisplayParts DEF View, On
    <3> QED
      BY <3>1, <3>2, <3>3 DEF Clean, Cell
  <2> QED
    BY <2>2, <2>3
<1> QED
  BY <1>1, <1>4, <1>5 DEF CursorInv, Clean, Cell, View, On

LEMMA KeyCursor == ASSUME CursorInv, Key PROVE CursorInv'
<1>1. Shown \in Displays
  BY ViewFacts DEF CursorInv, ScreenTypeOK
<1>2. ASSUME NEW c, Echo(putc(Shown, c)) PROVE CursorInv'
  BY <1>1, <1>2, putcFacts, EchoCursor
<1>3. ASSUME Echo(clearwithcursorone(Shown)) PROVE CursorInv'
  BY <1>1, <1>3, BackspaceFacts, EchoCursor
<1>4. ASSUME NEW col \in EraseTo, Echo(BackToLine(Shown, col)) PROVE CursorInv'
  <2>1. col \in 0 .. Cols - 1
    BY ScreenAssumption
  <2> QED
    BY <1>1, <1>4, <2>1, BackToLineFacts, EchoCursor
<1>5. ASSUME Echo(Cleared) PROVE CursorInv'
  BY <1>5, ClearedFacts, EchoCursor
<1>6. ASSUME Echo(Shown) PROVE CursorInv'
  BY <1>1, <1>6, EchoCursor
<1> QED
  BY <1>2, <1>3, <1>4, <1>5, <1>6 DEF Key

\* Steps that change no display.
LEMMA SameViews ==
  ASSUME CursorInv, PagesApart', ScreenTypeOK', strayed' = strayed,
         \A t \in Terminals : View(t)' = View(t)
  PROVE  CursorInv'
<1>1. ~strayed' => \A t \in Terminals : Clean(View(t)')
  BY DEF CursorInv
<1> QED
  BY <1>1 DEF CursorInv, Clean, Cell, View, On

LEMMA AltFnCursor == ASSUME CursorInv, NEW now \in Terminals, AltFn(now) PROVE CursorInv'
<1>1. PagesApart' /\ \A t \in Terminals : View(t)' = View(t)
  BY AltFnFacts DEF CursorInv
<1> DEFINE kept == [page EXCEPT ![nowterminalno] = page[0]]
<1>2. kept \in [Places -> Pages]
  BY TerminalFacts DEF CursorInv, ScreenTypeOK
<1>3. page' = [kept EXCEPT ![0] = kept[now]]
  BY DEF AltFn, Swapped
<1> HIDE DEF kept
<1>4. page' \in [Places -> Pages]
  BY <1>2, <1>3, TerminalFacts
<1>5. /\ cur_videoaddr' = [[cur_videoaddr EXCEPT ![nowterminalno] = nowterminalno] EXCEPT ![now] = 0]
      /\ nowterminalno' = now
      /\ saved' = [saved EXCEPT ![turn] = screen]
      /\ screen' = saved'[turn]
      /\ video_mem' = cur_videoaddr[turn]
      /\ UNCHANGED <<turn, uvideo, strayed>>
  BY DEF AltFn, Entered
<1>6. ScreenTypeOK'
  BY <1>4, <1>5, TerminalFacts DEF CursorInv, ScreenTypeOK
<1> QED
  BY <1>1, <1>5, <1>6, SameViews

LEMMA TickCursor == ASSUME CursorInv, Tick PROVE CursorInv'
<1>1. PagesApart' /\ \A t \in Terminals : View(t)' = View(t)
  BY TickFacts DEF CursorInv
<1>2. PICK next \in Terminals :
        /\ saved' = [saved EXCEPT ![turn] = screen]
        /\ screen' = saved'[next]
        /\ video_mem' = cur_videoaddr[next]
        /\ turn' = next
        /\ uvideo' \in {uvideo, "screen", "beyond"}
        /\ UNCHANGED <<page, cur_videoaddr, nowterminalno, strayed>>
  BY TerminalFacts DEF Tick, CursorInv, ScreenTypeOK
<1>3. ScreenTypeOK'
  BY <1>2 DEF CursorInv, ScreenTypeOK
<1> QED
  BY <1>1, <1>2, <1>3, SameViews

LEMMA ExecuteCursor == ASSUME CursorInv, Execute PROVE CursorInv'
<1>1. PagesApart' /\ \A t \in Terminals : View(t)' = View(t)
  BY ExecuteFacts DEF CursorInv
<1>2. Origin \in Positions
  BY DisplayAssumption DEF Origin, Positions
<1>3. ScreenTypeOK' /\ strayed' = strayed
  BY <1>2 DEF Execute, CursorInv, ScreenTypeOK
<1> QED
  BY <1>1, <1>3, SameViews

\* A program's text is no cursor.
LEMMA PokeCursor == ASSUME CursorInv, Poke PROVE CursorInv'
<1>1. PagesApart' /\ \A t \in Terminals \ {nowterminalno} : View(t)' = View(t)
  BY PokeFacts DEF CursorInv
<1>2. /\ page' = page \/ \E i \in Poked : page' = [page EXCEPT ![0][i] = "text"]
      /\ strayed' = (strayed \/ uvideo # uvideoHome)
      /\ UNCHANGED <<screen, video_mem, saved, cur_videoaddr, nowterminalno, turn, uvideo>>
  BY DEF Poke
<1>3. page' \in [Places -> Pages] /\ \A i \in Cells : page'[0][i] = page[0][i] \/ page'[0][i] = "text"
  <2>1. CASE page' = page
    BY <2>1 DEF CursorInv, ScreenTypeOK
  <2>2. ASSUME NEW i \in Poked, page' = [page EXCEPT ![0][i] = "text"]
        PROVE  /\ page' \in [Places -> Pages]
               /\ \A j \in Cells : page'[0][j] = page[0][j] \/ page'[0][j] = "text"
    <3> DEFINE new == [page[0] EXCEPT ![i] = "text"]
    <3>1. page[0] \in Pages
      BY TerminalFacts DEF CursorInv, ScreenTypeOK
    <3>2. new \in Pages /\ \A j \in Cells : new[j] = page[0][j] \/ new[j] = "text"
      BY <3>1, Colours DEF Pages
    <3>3. page' = [page EXCEPT ![0] = new]
      BY <2>2
    <3> HIDE DEF new
    <3> QED
      BY <3>2, <3>3, TerminalFacts DEF CursorInv, ScreenTypeOK
  <2> QED
    BY <1>2, <2>1, <2>2
<1>4. ScreenTypeOK'
  BY <1>2, <1>3 DEF CursorInv, ScreenTypeOK
<1>5. ASSUME ~strayed', NEW t \in Terminals PROVE Clean(View(t)')
  <2>1. ~strayed
    BY <1>2, <1>5 DEF CursorInv, ScreenTypeOK
  <2>2. CASE t # nowterminalno
    BY <1>1, <1>5, <2>1, <2>2 DEF CursorInv
  <2>3. CASE t = nowterminalno
    <3>1. Clean(View(t))
      BY <1>5, <2>1 DEF CursorInv
    <3>2. View(t).page = page[0] /\ View(t)'.page = page'[0]
      BY <1>2, <2>3, PageFacts DEF View, On, CursorInv
    <3>3. View(t)'.x = View(t).x /\ View(t)'.y = View(t).y
      BY <1>2 DEF View, On
    <3> QED
      BY <1>3, <3>1, <3>2, <3>3 DEF Clean, Cell
  <2> QED
    BY <2>2, <2>3
<1> QED
  BY <1>1, <1>4, <1>5 DEF CursorInv, Clean, Cell, View, On

LEMMA UnseenCursor == ASSUME CursorInv, Vidmap \/ UNCHANGED vars PROVE CursorInv'
<1>1. /\ UNCHANGED <<page, screen, video_mem, saved, cur_videoaddr, nowterminalno, turn, strayed>>
      /\ uvideo' \in {uvideo, "screen", "beyond"}
  BY DEF Vidmap, vars, uvideoHome
<1>2. PagesApart' /\ \A t \in Terminals : View(t)' = View(t)
  BY <1>1, UnseenFacts DEF CursorInv
<1>3. ScreenTypeOK'
  BY <1>1 DEF CursorInv, ScreenTypeOK
<1> QED
  BY <1>1, <1>2, <1>3, SameViews

LEMMA CursorInvariant == Spec => []CursorInv
<1>1. ASSUME CursorInv, [Next]_vars PROVE CursorInv'
  BY <1>1, WriteCursor, KeyCursor, AltFnCursor, TickCursor, ExecuteCursor, PokeCursor, UnseenCursor
     DEF Next
<1> QED
  BY <1>1, InitCursor, PTL DEF Spec

\* NoCursorLeftBehind, for a screen of any size: scrolling, wrapping, erasing and
\* changing terminals leave a cursor only where the next character goes.
THEOREM NoCursorLeftBehindHolds == Spec => []NoCursorLeftBehind
<1>1. CursorInv => NoCursorLeftBehind
  BY DEF CursorInv, NoCursorLeftBehind, Clean
<1> QED
  BY <1>1, CursorInvariant, PTL

\* Every position is one on the screen and every page one of lib.c's, whatever is
\* drawn: nothing is drawn outside a page.
THEOREM ScreenTypeCorrect == Spec => []ScreenTypeOK
<1>1. CursorInv => ScreenTypeOK
  BY DEF CursorInv
<1> QED
  BY <1>1, CursorInvariant, PTL
=============================================================================
