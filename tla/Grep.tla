-------------------------------- MODULE Grep --------------------------------
(***************************************************************************)
(* do_one_file of the grep program: a file is read into a buffer again and *)
(* again, lines that are complete are searched, and what is left of a line *)
(* moves to the front before the next read.                                *)
(***************************************************************************)
EXTENDS Integers, Sequences, SequencesExt, FiniteSetsExt

CONSTANTS
  BUFSIZE,   \* the buffer has one byte more
  Pattern,   \* the characters searched for
  Files,     \* what the file may hold, as sequences of characters
  Junk       \* what the buffer, which nothing initialises, may hold at first

Nul     == "NUL"
Newline == "newline"

ASSUME GrepAssumption ==
  /\ BUFSIZE \in Nat \ {0}
  /\ \A text \in Files : text \in Seq(Range(text))
  /\ Len(Pattern) > 0 /\ \A i \in DOMAIN Pattern : Pattern[i] \notin {Nul, Newline}

VARIABLES
  file, at,   \* the file, and the position of its descriptor
  data,       \* the buffer, from 0
  junk,       \* history: what it held at first
  cnt, last, line_start,
  doing,      \* "read", "line" or "done": where the program is
  printed     \* the lines it has written

grepVars == <<file, at, data, junk, cnt, last, line_start, doing, printed>>

GrepInit ==
  /\ file \in Files /\ at = 0
  /\ junk \in Junk /\ data = [i \in 0 .. BUFSIZE |-> junk]
  /\ cnt = 0 /\ last = 0 /\ line_start = 0
  /\ doing = "read"
  /\ printed = <<>>

\* ece391_read gives what is asked for or what the file still has.
ReadMore ==
  /\ doing = "read"
  /\ cnt' = Min({BUFSIZE - last, Len(file) - at})
  /\ data' = [i \in 0 .. BUFSIZE |->
                IF i \in last .. last + cnt' - 1 THEN file[at + 1 + i - last] ELSE data[i]]
  /\ at' = at + cnt'
  /\ last' = last + cnt'
  /\ line_start' = 0
  /\ doing' = "line"
  /\ UNCHANGED <<file, junk, printed>>

line_end == Min({last} \cup {i \in line_start .. last : data[i] = Newline})
Ended    == [data EXCEPT ![line_end] = Nul]

\* The string at i, and whether it begins with the pattern (strncmp).
String(from, i) == [k \in 1 .. Min({j \in i .. BUFSIZE : from[j] = Nul}) - i |-> from[i + k - 1]]
Matches(from)   == \E check \in line_start .. line_end - 1 : IsPrefix(Pattern, String(from, check))

\* More of this line is still in the file, and there is room for it.
Partial_FromStart == data[line_end] # Newline /\ cnt # 0
Partial == data[line_end] # Newline /\ cnt # 0 /\ line_start # 0

\* strcpy to the front, as far as there is no NUL.
MoveRest ==
  /\ doing = "line" /\ Partial
  /\ LET rest == String(Ended, line_start) IN
     data' = [i \in 0 .. BUFSIZE |->
                IF i < Len(rest) THEN rest[i + 1] ELSE IF i = Len(rest) THEN Nul ELSE Ended[i]]
  /\ last' = last - line_start
  /\ doing' = "read"
  /\ UNCHANGED <<file, at, junk, cnt, line_start, printed>>

SearchLine ==
  /\ doing = "line" /\ ~Partial
  /\ data' = Ended
  /\ printed' = IF Matches(Ended) THEN Append(printed, String(Ended, line_start)) ELSE printed
  /\ line_start' = line_end + 1
  /\ IF line_end + 1 < last THEN UNCHANGED <<last, doing>>
     ELSE last' = 0 /\ doing' = IF cnt = 0 THEN "done" ELSE "read"
  /\ UNCHANGED <<file, at, junk, cnt>>

GrepNext == ReadMore \/ MoveRest \/ SearchLine
GrepSpec == GrepInit /\ [][GrepNext]_grepVars

----------------------------------------------------------------------------
HasPattern(line) == \E i \in DOMAIN line : IsPrefix(Pattern, SubSeq(line, i, Len(line)))

\* The lines of text[first .. to] that have the pattern in them.
LineEnd(text, i, to) == Min({to + 1} \cup {j \in i .. to : text[j] = Newline})
Hits(text, first, to) ==
  LET from[i \in 1 .. to + 1] ==
        LET end  == LineEnd(text, i, to)
            line == SubSeq(text, i, end - 1)
        IN (IF HasPattern(line) THEN <<line>> ELSE <<>>) \o (IF end > to THEN <<>> ELSE from[end + 1])
  IN from[first]

\* A text has no NUL in it and no line longer than the buffer.
IsText(text) ==
  /\ Nul \notin Range(text)
  /\ \A i \in 1 .. Len(text) - BUFSIZE : \E j \in i .. i + BUFSIZE : text[j] = Newline

\* The one thing that is left to chance: the byte behind a full buffer is looked
\* at before it is written, and a newline there ends the line that is cut off.
Cuts == {k \in 1 .. Len(file) : k % BUFSIZE = 0 /\ k < Len(file) /\ file[k] # Newline}
AllHits ==
  IF junk # Newline \/ Cuts = {} THEN Hits(file, 1, Len(file))
  ELSE Hits(file, 1, Min(Cuts)) \o Hits(file, Min(Cuts) + 1, Len(file))

\* grep prints the lines of a text that have the pattern in them, all of them,
\* whole, once and in order, wherever the reads happen to cut the file; but for
\* one line that what the stack held before can break in two.
LinesFound == doing = "done" /\ IsText(file) => printed = AllHits
=============================================================================
