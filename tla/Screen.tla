------------------------------- MODULE Screen ------------------------------
(***************************************************************************)
(* Who draws where: the video page the screen shows (0) and the page kept  *)
(* for every terminal while it is hidden (1 .. NumTerminal), the pointer   *)
(* and position lib.c draws with, and their copies per terminal, as        *)
(* programs write, the keyboard handler echoes, Alt-Fn changes the         *)
(* terminal shown and the PIT handler the one that runs.                   *)
(*                                                                         *)
(* Each of these is one step: the system calls and the handlers that draw  *)
(* run with IF = 0.  A write of several characters is as many steps.       *)
(***************************************************************************)
EXTENDS Display

CONSTANTS
  NumTerminal,   \* NUMTERMINAL
  Written,       \* what programs write and the keyboard echoes
  EraseTo,       \* the columns a backspace over a newline goes back to
  Poked          \* the cells programs write through vidmap's page

\* Column 79 is the last: the column of a line that the display wrapped is
\* larger (e391keyboard.c:194) and is left out.
ASSUME ScreenAssumption ==
  /\ NumTerminal \in Nat /\ NumTerminal >= 2
  /\ EraseTo \subseteq 0 .. Cols - 1
  /\ Poked \subseteq Cells

Terminals == 1 .. NumTerminal
Places    == 0 .. NumTerminal          \* a page by its number in BVIDEO

VARIABLES
  page,            \* the pages' cells
  screen,          \* screen_x and screen_y
  video_mem,       \* the page lib.c draws on
  saved,           \* per terminal, cx and cy of its kbstatus
  cur_videoaddr,   \* per terminal, the page of its kbstatus
  nowterminalno,   \* the terminal shown
  turn,            \* the terminal that runs: kbstatusp outside the handler
  uvideo,          \* what vidmap's page maps to: "unmapped", the screen, or a
                   \* page past the terminals'
  strayed          \* history: something was drawn away from home

vars == <<page, screen, video_mem, saved, cur_videoaddr, nowterminalno, turn, uvideo, strayed>>

Positions == [x : 0 .. Cols - 1, y : 0 .. Rows - 1]
Origin    == [x |-> 0, y |-> 0]

\* What the routines of lib.c see of page p at position pos.
On(pages, p, pos) == [page |-> pages[p], x |-> pos.x, y |-> pos.y]
Position(d)       == [x |-> d.x, y |-> d.y]

\* keyboard_init, after the boot messages have been cleared.
Init ==
  /\ page = [p \in Places |-> IF p = 0 THEN Cleared.page ELSE BlankPage]
  /\ screen = Origin
  /\ video_mem = 0
  /\ saved = [t \in Terminals |-> Origin]
  /\ cur_videoaddr = [t \in Terminals |-> IF t = 1 THEN 0 ELSE t]
  /\ nowterminalno = 1
  /\ turn = 1
  /\ uvideo = "unmapped"
  /\ strayed = FALSE
-----------------------------------------------------------------------------
\* The page the running terminal ought to draw on, and where its program's
\* vidmap page ought to go: to the screen, or nowhere a terminal is seen.
Home       == cur_videoaddr[turn]
uvideoHome == IF turn = nowterminalno THEN "screen" ELSE "beyond"

Astray == video_mem # Home \/ (uvideo # "unmapped" /\ uvideo # uvideoHome)

\* terminal_write, and printf in the kernel.
Write(c) ==
  LET d == putc(On(page, video_mem, screen), c) IN
  /\ page' = [page EXCEPT ![video_mem] = d.page]
  /\ screen' = Position(d)
  /\ saved' = [saved EXCEPT ![turn] = Position(d)]
  /\ strayed' = (strayed \/ video_mem # Home)
  /\ UNCHANGED <<video_mem, cur_videoaddr, nowterminalno, turn, uvideo>>

Entered_NoSaveBug == saved
\* The positions as the keyboard handler finds them: it first saves the running
\* terminal's, which is in lib.c.
Entered == [saved EXCEPT ![turn] = screen]

\* What lib.c is then turned to, the terminal shown.
Shown == On(page, cur_videoaddr[nowterminalno], Entered[nowterminalno])

\* The handler when its operation on the screen leaves display d: its position
\* is saved, and lib.c is turned back.
Echo(d) ==
  /\ page' = [page EXCEPT ![cur_videoaddr[nowterminalno]] = d.page]
  /\ saved' = [Entered EXCEPT ![nowterminalno] = Position(d)]
  /\ screen' = saved'[turn]
  /\ video_mem' = cur_videoaddr[turn]
  /\ UNCHANGED <<cur_videoaddr, nowterminalno, turn, uvideo, strayed>>

\* A character, a backspace over one, over a newline, Ctrl-L, and a key that
\* draws nothing.
Key ==
  \/ \E c \in Written : Echo(putc(Shown, c))
  \/ Echo(clearwithcursorone(Shown))
  \/ \E col \in EraseTo : Echo(BackToLine(Shown, col))
  \/ Echo(Cleared)
  \/ Echo(Shown)

Swapped_OrderBug(now) ==
  [page EXCEPT ![0] = page[now], ![nowterminalno] = page[now]]
\* The two memmoves: the screen to the page of the terminal shown so far, then
\* the page of the one to be shown to the screen.
Swapped(now) ==
  LET kept == [page EXCEPT ![nowterminalno] = page[0]]
  IN [kept EXCEPT ![0] = kept[now]]

\* Alt-F1 .. F3.  restorelib_screen puts back the page that was the running
\* terminal's before altfnfunc moved it.  (altfnfunc's own answer to that, when
\* the terminal shown is asked for again, is undone by it too.)
AltFn(now) ==
  /\ page' = Swapped(now)
  /\ cur_videoaddr' = [[cur_videoaddr EXCEPT ![nowterminalno] = nowterminalno] EXCEPT ![now] = 0]
  /\ nowterminalno' = now
  /\ saved' = Entered
  /\ screen' = saved'[turn]
  /\ video_mem' = cur_videoaddr[turn]
  /\ UNCHANGED <<turn, uvideo, strayed>>

Tick_NoPageBug ==
  LET next == IF turn = NumTerminal THEN 1 ELSE turn + 1 IN
  /\ saved' = [saved EXCEPT ![turn] = screen]
  /\ screen' = saved'[next]
  /\ turn' = next
  /\ uvideo' = IF uvideo = "unmapped" THEN uvideo
                ELSE IF next = nowterminalno THEN "screen" ELSE "beyond"
  /\ UNCHANGED <<page, video_mem, cur_videoaddr, nowterminalno, strayed>>
\* scheduler: the position and the page of the next terminal, and the page its
\* program sees at UVIDEOADDR if any program ever called vidmap.
Tick ==
  LET next == IF turn = NumTerminal THEN 1 ELSE turn + 1 IN
  /\ saved' = [saved EXCEPT ![turn] = screen]
  /\ screen' = saved'[next]
  /\ video_mem' = cur_videoaddr[next]
  /\ turn' = next
  /\ uvideo' = IF uvideo = "unmapped" THEN uvideo
                ELSE IF next = nowterminalno THEN "screen" ELSE "beyond"
  /\ UNCHANGED <<page, cur_videoaddr, nowterminalno, strayed>>

\* execute opens the child's stdin and stdout: kb_init clears the position saved
\* for the running terminal, whose own is in lib.c.
Execute ==
  /\ saved' = [saved EXCEPT ![turn] = Origin]
  /\ UNCHANGED <<page, screen, video_mem, cur_videoaddr, nowterminalno, turn, uvideo, strayed>>

\* vidmap: the page of a hidden process is chosen by its pid, which is past the
\* pages of the terminals.  Nothing unmaps it again.
Vidmap ==
  /\ uvideo' = uvideoHome
  /\ UNCHANGED <<page, screen, video_mem, saved, cur_videoaddr, nowterminalno, turn, strayed>>

\* A program writes through vidmap's page.
Poke ==
  /\ uvideo # "unmapped"
  /\ IF uvideo = "screen"
     THEN \E i \in Poked : page' = [page EXCEPT ![0][i] = "text"]
     ELSE UNCHANGED page
  /\ strayed' = (strayed \/ uvideo # uvideoHome)
  /\ UNCHANGED <<screen, video_mem, saved, cur_videoaddr, nowterminalno, turn, uvideo>>

Next ==
  \/ \E c \in Written : Write(c)
  \/ Key
  \/ \E now \in Terminals : AltFn(now)
  \/ Tick
  \/ Execute
  \/ Vidmap
  \/ Poke

\* The PIT interrupts every process again and again (see Process).
Fairness == SF_vars(Tick)

Spec == Init /\ [][Next]_vars /\ Fairness
-----------------------------------------------------------------------------
(* Properties *)

ScreenTypeOK ==
  /\ page \in [Places -> Pages]
  /\ screen \in Positions
  /\ video_mem \in Places
  /\ saved \in [Terminals -> Positions]
  /\ cur_videoaddr \in [Terminals -> Places]
  /\ nowterminalno \in Terminals
  /\ turn \in Terminals
  /\ uvideo \in {"unmapped", "screen", "beyond"}
  /\ strayed \in BOOLEAN

\* What a terminal's user has, or would have, on the screen: the page of the
\* terminal, and where its next character goes.
View(t) == On(page, cur_videoaddr[t], IF t = turn THEN screen ELSE saved[t])

\* Looking at another terminal, or running one, changes no terminal's display,
\* whatever was drawn before and wherever lib.c happens to point.
SwitchingShowsTheSame ==
  [][nowterminalno' # nowterminalno \/ turn' # turn
       => \A t \in Terminals : View(t)' = View(t)]_vars

\* As long as lib.c and the vidmap page point home, a step draws on at most one
\* display, the running terminal's or the shown one's, although all terminals
\* draw with the same three variables.
DrawsOnOne ==
  [][~Astray => \/ \A t \in Terminals \ {turn} : View(t)' = View(t)
                \/ \A t \in Terminals \ {nowterminalno} : View(t)' = View(t)]_vars

\* A cursor is only where the next character goes, so that the next character
\* takes it away: none is left behind on any display by scrolling, wrapping,
\* erasing or changing terminals.
NoCursorLeftBehind ==
  ~strayed => \A t \in Terminals, i \in Cells :
                View(t).page[i] = "cursor" => i = Cell(View(t))

\* A pointer that Alt-Fn left on the wrong page is set right in time.
ComesHome == Astray ~> ~Astray

\* What a program writes shows on its own terminal only: of a change of the
\* running terminal's page altfnfunc says "we need to change right now"
\* (e391keyboard.c:389).  lib.c keeps the old page until the next key or tick:
\* AltFn.
WritesStayHome ==
  [][(\E c \in Written : Write(c)) =>
       \A t \in Terminals \ {turn} : View(t)' = View(t)]_vars
=============================================================================
