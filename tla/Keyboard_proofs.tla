-------------------------- MODULE Keyboard_proofs --------------------------
(***************************************************************************)
(* For any number of terminals, any size of the ring and any keys: the     *)
(* keyboard handler and the running process each keep to the terminal they *)
(* work for, linenum counts the lines of the ring, and the rings are the   *)
(* queues of LineInput, as long as the user does not erase over the end of *)
(* the ring (KeyboardWrap shows what happens then).                        *)
(***************************************************************************)
EXTENDS KeyboardInput, FiniteSetTheorems, SequenceTheorems, WellFoundedInduction, TLAPS

\* The write indices are places of the ring, so that nothing is written past it.
GoodRing(r) ==
  /\ r = [bitebuf |-> r.bitebuf, bitenum |-> r.bitenum, linenum |-> r.linenum,
          biteBP |-> r.biteBP, biteEP |-> r.biteEP, lineEP |-> r.lineEP]
  /\ r.bitenum \in Nat /\ r.linenum \in Int /\ r.biteBP \in Int
  /\ r.biteEP \in Places /\ r.lineEP \in Places

GoodStatus(s) == s = [f \in {"shift", "alt", "ctrl", "caps", "multiscan", "terminalreading"} |-> s[f]]

RingsOK == ring = [t \in Terminals |-> ring[t]] /\ \A t \in Terminals : GoodRing(ring[t])

\* A terminal whose process waits in terminal_read says so in its status, which
\* is what Ctrl-L looks at.
StatusOK ==
  /\ kbstatus = [t \in Terminals |-> kbstatus[t]]
  /\ reading \in [Terminals -> Nat \cup {NoRead}]
  /\ \A t \in Terminals : /\ GoodStatus(kbstatus[t])
                          /\ reading[t] # NoRead => kbstatus[t].terminalreading = 1

ApartInv == nowterminalno \in Terminals /\ turn \in Terminals /\ RingsOK /\ StatusOK

\* What TerminalsApart says of a step.
Apart ==
  \A t \in Terminals :
    /\ t \notin {nowterminalno, turn} => ring'[t] = ring[t] /\ kbstatus'[t] = kbstatus[t]
    /\ t # nowterminalno => ring'[t].bitebuf = ring[t].bitebuf
    /\ t # turn /\ reading[t] # NoRead => ring'[t].biteBP = ring[t].biteBP
-----------------------------------------------------------------------------
LEMMA PosFacts == \A x \in Int : Pos(x) \in Places
BY BufSizeAssumption DEF Pos, Places

\* A set of natural numbers has a least member.
LEMMA Least ==
  ASSUME NEW S \in SUBSET Nat, S # {}
  PROVE  \E k \in S : \A i \in S : k <= i
<1> DEFINE R == {ss \in Nat \X Nat : ss[1] < ss[2]}
<1>1. IsWellFoundedOn(R, Nat)
  BY NatLessThanWellFounded, Zenon DEF OpToRel
<1>2. PICK k \in S : \A i \in S : ~(<<i, k>> \in R)
  <2> HIDE DEF R
  <2> QED
    BY <1>1, WFMin
<1>3. \A i \in S : ~(i < k)
  BY <1>2
<1> QED
  BY <1>3

LEMMA EmptyFacts ==
  /\ GoodRing(EmptyRing)
  /\ \A r : /\ GoodRing(kb_Binit(r))
            /\ kb_Binit(r).bitebuf = r.bitebuf
BY BufSizeAssumption DEF GoodRing, EmptyRing, kb_Binit, Places

\* A character goes to the ring and to no other: nothing spills.
LEMMA PushFacts ==
  ASSUME NEW r, GoodRing(r), NEW c
  PROVE  /\ GoodRing(kbbufpush(r, c)) /\ kbbufpush(r, c).biteBP = r.biteBP
         /\ ~Spills(r, c)
<1>1. r.biteEP + 1 \in Int /\ r.lineEP + 1 \in Int
  BY BufSizeAssumption DEF GoodRing, Places
<1>2. Pos(r.biteEP + 1) \in Places /\ Pos(r.lineEP + 1) \in Places
  BY <1>1, PosFacts
<1> DEFINE bytes == IF r.biteEP \in Places THEN [r.bitebuf EXCEPT ![r.biteEP] = c] ELSE r.bitebuf
           lines == IF c = Newline THEN (r.linenum + 1) % U8 ELSE r.linenum
           last  == IF c = Newline THEN Pos(r.lineEP + 1) ELSE r.lineEP
<1>3. CASE r.bitenum = BufSize
  BY <1>3 DEF GoodRing, kbbufpush, Spills
<1>4. CASE r.bitenum # BufSize
  <2>1. kbbufpush(r, c) = [bitebuf |-> bytes, bitenum |-> r.bitenum + 1, linenum |-> lines,
                           biteBP |-> r.biteBP, biteEP |-> Pos(r.biteEP + 1), lineEP |-> last]
    BY <1>4 DEF GoodRing, kbbufpush
  <2>2. r.bitenum + 1 \in Nat /\ last \in Places /\ lines \in Int
    BY <1>2, BufSizeAssumption DEF GoodRing, U8
  <2> HIDE DEF bytes, lines, last
  <2> QED
    BY <1>2, <2>1, <2>2 DEF GoodRing, Spills
<1> QED
  BY <1>3, <1>4

\* A backspace that does not go over the end of the ring keeps its indices in it.
LEMMA PopFacts ==
  ASSUME NEW r, GoodRing(r),
         r.bitenum > 0 =>
           r.biteEP # 0 /\ (r.bitebuf[Pos(Before(r.biteEP))] = Newline => r.lineEP # 0)
  PROVE  /\ GoodRing(kbbufpop(r))
         /\ kbbufpop(r).bitebuf = r.bitebuf /\ kbbufpop(r).biteBP = r.biteBP
<1>1. \A x \in Places : x # 0 => Before(x) \in Places
  BY BufSizeAssumption, PosFacts DEF Before, Places
<1>2. CASE r.bitenum = 0
  BY <1>2 DEF kbbufpop
<1>3. CASE r.bitenum > 0
  <2> DEFINE erased == r.bitebuf[Pos(Before(r.biteEP))]
             end   == Before(r.biteEP)
             left  == r.bitenum - 1
             lines == IF erased = Newline THEN (r.linenum - 1) % U8 ELSE r.linenum
             last  == IF erased = Newline THEN Before(r.lineEP) ELSE r.lineEP
  <2>1. kbbufpop(r) = [r EXCEPT !.biteEP = end, !.bitenum = left, !.lineEP = last, !.linenum = lines]
    BY <1>3 DEF kbbufpop
  <2>2. end \in Places /\ last \in Places /\ left \in Nat /\ lines \in Int
    BY <1>1, <1>3, BufSizeAssumption DEF GoodRing, U8
  <2> HIDE DEF end, left, lines, last
  <2> QED
    BY <2>1, <2>2 DEF GoodRing
<1> QED
  BY <1>2, <1>3 DEF GoodRing

\* terminal_read takes no more than there is: up to nbytes, and up to the first
\* newline if there is one before that.
LEMMA TakenFacts ==
  ASSUME NEW r, GoodRing(r), NEW nbytes \in Nat
  PROVE  LET k == Taken(r, nbytes)
         IN /\ k \in 0 .. r.bitenum /\ k <= nbytes
            /\ \A i \in 1 .. k - 1 : Unread(r)[i] # Newline
            /\ k = nbytes \/ k = r.bitenum \/ (k > 0 /\ Unread(r)[k] = Newline)
<1> DEFINE N == {i \in 1 .. r.bitenum : i <= nbytes /\ Unread(r)[i] = Newline}
           Fits(k) == /\ k <= nbytes
                      /\ \A i \in 1 .. k - 1 : Unread(r)[i] # Newline
                      /\ k = nbytes \/ k = r.bitenum \/ (k > 0 /\ Unread(r)[k] = Newline)
<1>0. r.bitenum \in Nat
  BY DEF GoodRing
<1>1. CASE N = {}
  <2>1. nbytes <= r.bitenum => nbytes \in 0 .. r.bitenum /\ Fits(nbytes)
    BY <1>0, <1>1
  <2>2. nbytes > r.bitenum => r.bitenum \in 0 .. r.bitenum /\ Fits(r.bitenum)
    BY <1>0, <1>1
  <2>3. \E k \in 0 .. r.bitenum : Fits(k)
    BY <1>0, <2>1, <2>2
  <2> QED
    BY <2>3 DEF Taken
<1>2. CASE N # {}
  <2>1. PICK k \in N : \A i \in N : k <= i
    <3>1. N \in SUBSET Nat
      OBVIOUS
    <3> HIDE DEF N
    <3> QED
      BY <1>2, <3>1, Least
  <2>2. \A i \in 1 .. k - 1 : Unread(r)[i] # Newline
    BY <1>0, <2>1
  <2>3. k \in 0 .. r.bitenum /\ Fits(k)
    BY <1>0, <2>1, <2>2
  <2> QED
    BY <2>3 DEF Taken
<1> QED
  BY <1>1, <1>2

LEMMA ConsumedFacts ==
  ASSUME NEW r, GoodRing(r), NEW nbytes \in Nat
  PROVE  GoodRing(Consumed(r, nbytes)) /\ Consumed(r, nbytes).bitebuf = r.bitebuf
<1> DEFINE k == Taken(r, nbytes)
           left  == r.bitenum - k
           first == Pos(r.biteBP + k)
           lines == IF k > 0 /\ Unread(r)[k] = Newline THEN (r.linenum - 1) % U8 ELSE r.linenum
<1>1. Consumed(r, nbytes) = [r EXCEPT !.bitenum = left, !.biteBP = first, !.linenum = lines]
  BY DEF Consumed
<1>2. left \in Nat /\ first \in Int /\ lines \in Int
  BY TakenFacts, BufSizeAssumption DEF GoodRing, U8, Pos
<1> HIDE DEF left, first, lines
<1> QED
  BY <1>1, <1>2 DEF GoodRing

LEMMA SinitFacts == GoodStatus(kb_Sinit)
BY DEF GoodStatus, kb_Sinit

\* Only what is set of a status changes.
LEMMA StatusFacts ==
  ASSUME NEW s, GoodStatus(s), NEW v
  PROVE  /\ \A c \in {"shift", "alt", "ctrl"} :
              /\ GoodStatus([s EXCEPT ![c] = v])
              /\ [s EXCEPT ![c] = v].terminalreading = s.terminalreading
         /\ GoodStatus([s EXCEPT !.caps = v])
         /\ [s EXCEPT !.caps = v].terminalreading = s.terminalreading
         /\ GoodStatus([s EXCEPT !.multiscan = v])
         /\ [s EXCEPT !.multiscan = v].terminalreading = s.terminalreading
         /\ GoodStatus([s EXCEPT !.terminalreading = v])
         /\ [s EXCEPT !.terminalreading = v].terminalreading = v
BY DEF GoodStatus
-----------------------------------------------------------------------------
LEMMA InitInv == Init => ApartInv
<1> SUFFICES ASSUME Init PROVE ApartInv
  OBVIOUS
<1>1. 1 \in Terminals
  BY KeyboardAssumption DEF Terminals
<1>2. RingsOK
  BY EmptyFacts DEF Init, RingsOK
<1>3. StatusOK
  BY SinitFacts DEF Init, StatusOK
<1> QED
  BY <1>1, <1>2, <1>3 DEF Init, ApartInv

\* A step that changes one ring, without touching what is in it or where it is
\* read from.
LEMMA RingStep ==
  ASSUME RingsOK, NEW t \in Terminals, NEW r, GoodRing(r), ring' = [ring EXCEPT ![t] = r]
  PROVE  /\ RingsOK' /\ ring'[t] = r
         /\ \A u \in Terminals \ {t} : ring'[u] = ring[u]
<1>1. /\ ring' = [u \in Terminals |-> ring'[u]] /\ ring'[t] = r
      /\ \A u \in Terminals \ {t} : ring'[u] = ring[u]
  BY DEF RingsOK
<1>2. \A u \in Terminals : GoodRing(ring'[u])
  BY <1>1 DEF RingsOK
<1> QED
  BY <1>1, <1>2 DEF RingsOK, GoodRing, Places

\* A step that changes one status, but not whether a read waits.
LEMMA StatusStep ==
  ASSUME StatusOK, NEW t \in Terminals, NEW s, GoodStatus(s),
         s.terminalreading = kbstatus[t].terminalreading \/ reading'[t] = NoRead,
         kbstatus' = [kbstatus EXCEPT ![t] = s], reading' = reading
  PROVE  StatusOK' /\ \A u \in Terminals \ {t} : kbstatus'[u] = kbstatus[u]
<1>1. /\ kbstatus' = [u \in Terminals |-> kbstatus'[u]] /\ kbstatus'[t] = s
      /\ \A u \in Terminals \ {t} : kbstatus'[u] = kbstatus[u]
  BY DEF StatusOK
<1>2. \A u \in Terminals : /\ GoodStatus(kbstatus'[u])
                           /\ reading'[u] # NoRead => kbstatus'[u].terminalreading = 1
  BY <1>1 DEF StatusOK
<1> QED
  BY <1>1, <1>2 DEF StatusOK, GoodStatus, NoRead

\* kb_init on a terminal whose process does not wait in terminal_read.
LEMMA kb_initFacts ==
  ASSUME ApartInv, NEW t \in Terminals, reading[t] = NoRead, kb_init(t), reading' = reading
  PROVE  /\ RingsOK' /\ StatusOK'
         /\ ring'[t].bitebuf = ring[t].bitebuf
         /\ \A u \in Terminals \ {t} : ring'[u] = ring[u] /\ kbstatus'[u] = kbstatus[u]
<1>1. ring' = [ring EXCEPT ![t] = kb_Binit(ring[t])] /\ kbstatus' = [kbstatus EXCEPT ![t] = kb_Sinit]
  BY DEF kb_init
<1>2. RingsOK /\ StatusOK
  BY DEF ApartInv
<1>3. /\ GoodRing(kb_Binit(ring[t])) /\ kb_Binit(ring[t]).bitebuf = ring[t].bitebuf
      /\ GoodStatus(kb_Sinit)
  BY EmptyFacts, SinitFacts
<1>4. /\ RingsOK' /\ ring'[t].bitebuf = ring[t].bitebuf
      /\ \A u \in Terminals \ {t} : ring'[u] = ring[u]
  BY <1>1, <1>2, <1>3, RingStep
<1>5. StatusOK' /\ \A u \in Terminals \ {t} : kbstatus'[u] = kbstatus[u]
  BY <1>1, <1>2, <1>3, StatusStep
<1> QED
  BY <1>4, <1>5

\* A step that only changes the status of the terminal shown.
LEMMA ShownStatusStep ==
  ASSUME ApartInv, NEW s, GoodStatus(s),
         s.terminalreading = kbstatus[nowterminalno].terminalreading,
         kbstatus' = [kbstatus EXCEPT ![nowterminalno] = s],
         UNCHANGED <<ring, nowterminalno, turn, reading>>
  PROVE  ApartInv' /\ Apart
<1>1. StatusOK' /\ \A u \in Terminals \ {nowterminalno} : kbstatus'[u] = kbstatus[u]
  BY StatusStep DEF ApartInv
<1>2. RingsOK'
  BY DEF ApartInv, RingsOK, GoodRing, Places
<1> QED
  BY <1>1, <1>2 DEF ApartInv, Apart

\* A step that moves a pointer and changes neither rings, statuses nor reads.
LEMMA PointerStep ==
  ASSUME ApartInv, nowterminalno' \in Terminals, turn' \in Terminals,
         UNCHANGED <<ring, kbstatus, reading>>
  PROVE  ApartInv' /\ Apart
<1>1. RingsOK' /\ StatusOK'
  BY DEF ApartInv, RingsOK, StatusOK, GoodRing, GoodStatus, Places, NoRead
<1> QED
  BY <1>1 DEF ApartInv, Apart

LEMMA PushInv ==
  ASSUME ApartInv, NEW c, Push(c), UNCHANGED <<kbstatus, nowterminalno, turn, reading>>
  PROVE  ApartInv' /\ Apart
<1> DEFINE now == nowterminalno
           r   == kbbufpush(ring[now], c)
<1>1. now \in Terminals /\ RingsOK /\ StatusOK
  BY DEF ApartInv
<1>2. GoodRing(ring[now])
  BY <1>1 DEF RingsOK
<1>3. GoodRing(r) /\ r.biteBP = ring[now].biteBP /\ ~Spills(ring[now], c)
  BY <1>2, PushFacts
<1>4. ring' = [t \in Terminals |-> IF t = now THEN r ELSE ring[t]]
  BY <1>3 DEF Push
<1>5. ring' = [ring EXCEPT ![now] = r]
  BY <1>4 DEF ApartInv, RingsOK
<1> HIDE DEF r
<1>6. RingsOK' /\ ring'[now] = r /\ \A u \in Terminals \ {now} : ring'[u] = ring[u]
  BY <1>1, <1>3, <1>5, RingStep
<1>7. StatusOK'
  BY <1>1 DEF StatusOK, GoodStatus, NoRead
<1> QED
  BY <1>1, <1>3, <1>6, <1>7 DEF ApartInv, Apart

LEMMA BackspaceInv == ASSUME ApartInv, ~EraseOverWrap, Backspace PROVE ApartInv' /\ Apart
<1> DEFINE now == nowterminalno
           r   == kbbufpop(ring[now])
<1>1. now \in Terminals /\ RingsOK /\ StatusOK
  BY DEF ApartInv
<1>2. GoodRing(ring[now])
  BY <1>1 DEF RingsOK
<1>3. ring[now].bitenum > 0 =>
        /\ ring[now].biteEP # 0
        /\ ring[now].bitebuf[Pos(Before(ring[now].biteEP))] = Newline => ring[now].lineEP # 0
  BY DEF Backspace
<1>4. GoodRing(r) /\ r.bitebuf = ring[now].bitebuf /\ r.biteBP = ring[now].biteBP
  BY <1>2, <1>3, PopFacts
<1>5. /\ ring' = [ring EXCEPT ![now] = r]
      /\ UNCHANGED <<kbstatus, nowterminalno, turn, reading>>
  BY DEF Backspace
<1> HIDE DEF r
<1>6. RingsOK' /\ ring'[now] = r /\ \A u \in Terminals \ {now} : ring'[u] = ring[u]
  BY <1>1, <1>4, <1>5, RingStep
<1>7. StatusOK'
  BY <1>1, <1>5 DEF StatusOK, GoodStatus, NoRead
<1> QED
  BY <1>1, <1>4, <1>5, <1>6, <1>7 DEF ApartInv, Apart

\* Keys that only change the status of the terminal shown.
LEMMA StatusKeysInv ==
  ASSUME ApartInv,
         CapsLock \/ (\E m \in Modifiers : Press(m) \/ Release(m)) \/ FirstByte \/ DropSecondByte
  PROVE  ApartInv' /\ Apart
<1> DEFINE now == nowterminalno
<1>1. GoodStatus(kbstatus[now])
  BY DEF ApartInv, StatusOK
<1>2. UNCHANGED <<ring, nowterminalno, turn, reading>>
  BY DEF CapsLock, Press, Release, FirstByte, DropSecondByte
<1>3. \/ \E v : kbstatus' = [kbstatus EXCEPT ![now] = [kbstatus[now] EXCEPT !.caps = v]]
      \/ \E v : kbstatus' = [kbstatus EXCEPT ![now] = [kbstatus[now] EXCEPT !.multiscan = v]]
      \/ \E c \in {"shift", "alt", "ctrl"} : \E v :
           kbstatus' = [kbstatus EXCEPT ![now] = [kbstatus[now] EXCEPT ![c] = v]]
  BY DEF CapsLock, Press, Release, FirstByte, DropSecondByte, Counter
<1>4. \E s : /\ GoodStatus(s) /\ s.terminalreading = kbstatus[now].terminalreading
             /\ kbstatus' = [kbstatus EXCEPT ![now] = s]
  <2> DEFINE Good(s) == GoodStatus(s) /\ s.terminalreading = kbstatus[now].terminalreading
  <2>1. \A v : /\ Good([kbstatus[now] EXCEPT !.caps = v])
               /\ Good([kbstatus[now] EXCEPT !.multiscan = v])
               /\ \A c \in {"shift", "alt", "ctrl"} : Good([kbstatus[now] EXCEPT ![c] = v])
    BY <1>1, StatusFacts
  <2> HIDE DEF Good
  <2>2. \E s : Good(s) /\ kbstatus' = [kbstatus EXCEPT ![now] = s]
    BY <1>3, <2>1
  <2> QED
    BY <2>2 DEF Good
<1> QED
  BY <1>2, <1>4, ShownStatusStep

\* Ctrl-L forgets nothing that a process waits for.
LEMMA CtrlLInv == ASSUME ApartInv, CtrlL PROVE ApartInv' /\ Apart
<1>1. nowterminalno \in Terminals /\ UNCHANGED <<nowterminalno, turn, reading>>
  BY DEF CtrlL, ApartInv
<1>2. CASE UNCHANGED <<ring, kbstatus>>
  BY <1>1, <1>2, PointerStep DEF ApartInv
<1>3. CASE kbstatus[nowterminalno].terminalreading = 0 /\ kb_init(nowterminalno)
  <2>1. reading[nowterminalno] = NoRead
    BY <1>1, <1>3 DEF ApartInv, StatusOK
  <2> QED
    BY <1>1, <1>3, <2>1, kb_initFacts DEF ApartInv, Apart
<1> QED
  BY <1>2, <1>3 DEF CtrlL, Shown

LEMMA ExecuteInv == ASSUME ApartInv, Execute PROVE ApartInv' /\ Apart
<1>1. /\ turn \in Terminals /\ UNCHANGED <<nowterminalno, turn, reading>>
      /\ reading[turn] = NoRead /\ kb_init(turn)
  BY DEF Execute, ApartInv
<1> QED
  BY <1>1, kb_initFacts DEF ApartInv, Apart

LEMMA ReadInv == ASSUME ApartInv, Read PROVE ApartInv' /\ Apart
<1>1. PICK nbytes \in Nat : reading' = [reading EXCEPT ![turn] = nbytes]
  BY KeyboardAssumption DEF Read
<1>2. /\ kbstatus' = [kbstatus EXCEPT ![turn] = [kbstatus[turn] EXCEPT !.terminalreading = 1]]
      /\ UNCHANGED <<ring, nowterminalno, turn>>
  BY DEF Read
<1>3. turn \in Terminals /\ StatusOK
  BY DEF ApartInv
<1>4. PICK s : /\ GoodStatus(s) /\ s.terminalreading = 1
               /\ kbstatus' = [kbstatus EXCEPT ![turn] = s]
  <2>1. GoodStatus(kbstatus[turn])
    BY <1>3 DEF StatusOK
  <2> DEFINE new == [kbstatus[turn] EXCEPT !.terminalreading = 1]
  <2>2. GoodStatus(new) /\ new.terminalreading = 1
    BY <2>1, StatusFacts
  <2> HIDE DEF new
  <2> QED
    BY <1>2, <2>2 DEF new
<1>5. /\ kbstatus' = [u \in Terminals |-> kbstatus'[u]] /\ kbstatus'[turn] = s
      /\ \A u \in Terminals \ {turn} : kbstatus'[u] = kbstatus[u] /\ reading'[u] = reading[u]
      /\ reading' \in [Terminals -> Nat \cup {NoRead}]
  BY <1>1, <1>3, <1>4 DEF StatusOK
<1>6. \A u \in Terminals : /\ GoodStatus(kbstatus'[u])
                           /\ reading'[u] # NoRead => kbstatus'[u].terminalreading = 1
  BY <1>3, <1>4, <1>5 DEF StatusOK
<1>7. StatusOK'
  BY <1>5, <1>6 DEF StatusOK, GoodStatus, NoRead
<1>8. RingsOK'
  BY <1>2 DEF ApartInv, RingsOK, GoodRing, Places
<1> QED
  BY <1>2, <1>5, <1>7, <1>8 DEF ApartInv, Apart

\* A read empties the ring of its own terminal only.
LEMMA ReadReturnsInv == ASSUME ApartInv, ReadReturns PROVE ApartInv' /\ Apart
<1> DEFINE nbytes == reading[turn]
           r      == Consumed(ring[turn], nbytes)
<1>1. turn \in Terminals /\ nbytes \in Nat /\ RingsOK /\ StatusOK /\ GoodRing(ring[turn])
  BY DEF ApartInv, RingsOK, StatusOK, ReadReturns
<1>2. /\ ring' = [ring EXCEPT ![turn] = r]
      /\ kbstatus' = [kbstatus EXCEPT ![turn] = [kbstatus[turn] EXCEPT !.terminalreading = 0]]
      /\ reading' = [reading EXCEPT ![turn] = NoRead]
      /\ UNCHANGED <<nowterminalno, turn>>
  BY DEF ReadReturns
<1>3. GoodRing(r) /\ r.bitebuf = ring[turn].bitebuf
  BY <1>1, ConsumedFacts
<1> HIDE DEF r
<1>4. RingsOK' /\ ring'[turn] = r /\ \A u \in Terminals \ {turn} : ring'[u] = ring[u]
  BY <1>1, <1>2, <1>3, RingStep
<1>5. PICK s : GoodStatus(s) /\ kbstatus' = [kbstatus EXCEPT ![turn] = s]
  BY <1>1, <1>2, StatusFacts DEF StatusOK
<1>6. /\ kbstatus' = [u \in Terminals |-> kbstatus'[u]] /\ kbstatus'[turn] = s
      /\ \A u \in Terminals \ {turn} : kbstatus'[u] = kbstatus[u] /\ reading'[u] = reading[u]
      /\ reading' \in [Terminals -> Nat \cup {NoRead}] /\ reading'[turn] = NoRead
  BY <1>1, <1>2, <1>5 DEF StatusOK
<1>7. \A u \in Terminals : /\ GoodStatus(kbstatus'[u])
                           /\ reading'[u] # NoRead => kbstatus'[u].terminalreading = 1
  BY <1>1, <1>5, <1>6 DEF StatusOK
<1>8. StatusOK'
  BY <1>6, <1>7 DEF StatusOK, GoodStatus, NoRead
<1> QED
  BY <1>1, <1>2, <1>3, <1>4, <1>6, <1>8 DEF ApartInv, Apart

LEMMA StepApart ==
  ASSUME ~EraseOverWrap, ApartInv, [Next]_vars
  PROVE  ApartInv' /\ [Apart]_vars
<1>0. nowterminalno \in Terminals /\ turn \in Terminals
  BY DEF ApartInv
<1>1. ASSUME NEW k \in Keys, Type(k) PROVE ApartInv' /\ Apart
  BY <1>1, PushInv DEF Type
<1>2. ASSUME Backspace PROVE ApartInv' /\ Apart
  BY <1>2, BackspaceInv
<1>3. ASSUME CapsLock \/ (\E m \in Modifiers \cap Keys : Press(m) \/ Release(m))
             \/ FirstByte \/ DropSecondByte
      PROVE  ApartInv' /\ Apart
  BY <1>3, StatusKeysInv
<1>4. ASSUME NEW no \in Terminals, AltFn(no) PROVE ApartInv' /\ Apart
  BY <1>0, <1>4, PointerStep DEF AltFn
<1>5. ASSUME CtrlL PROVE ApartInv' /\ Apart
  BY <1>5, CtrlLInv
<1>6. ASSUME TypeSecondByte PROVE ApartInv' /\ Apart
  <2>1. UNCHANGED <<kbstatus, nowterminalno, turn, reading>>
    BY <1>6 DEF TypeSecondByte
  <2>2. UNCHANGED ring \/ \E c : Push(c)
    BY <1>6 DEF TypeSecondByte
  <2> QED
    BY <1>0, <2>1, <2>2, PushInv, PointerStep
<1>7. ASSUME Read PROVE ApartInv' /\ Apart
  BY <1>7, ReadInv
<1>8. ASSUME ReadReturns PROVE ApartInv' /\ Apart
  BY <1>8, ReadReturnsInv
<1>9. ASSUME Execute PROVE ApartInv' /\ Apart
  BY <1>9, ExecuteInv
<1>10. ASSUME Tick PROVE ApartInv' /\ Apart
  <2>1. turn' \in Terminals
    BY <1>10, <1>0, KeyboardAssumption DEF Tick, Terminals
  <2> QED
    BY <1>0, <1>10, <2>1, PointerStep DEF Tick, input
<1>11. ASSUME UNCHANGED vars PROVE ApartInv'
  BY <1>0, <1>11, PointerStep DEF vars, input
<1> QED
  BY <1>1, <1>2, <1>3, <1>4, <1>5, <1>6, <1>7, <1>8, <1>9, <1>10, <1>11 DEF Next

\* The handler and the running process keep to their terminals, with any number
\* of them, however their steps are mixed.
THEOREM TerminalsApartHolds ==
  ASSUME ~EraseOverWrap
  PROVE  Spec => TerminalsApart
<1>1. ApartInv /\ [Next]_vars => ApartInv' /\ [Apart]_vars
  BY StepApart
<1>2. Spec => [][Apart]_vars
  BY <1>1, InitInv, PTL DEF Spec
<1>3. [][Apart]_vars <=> TerminalsApart
  BY PTL DEF Apart, TerminalsApart
<1> QED
  BY <1>2, <1>3, PTL
-----------------------------------------------------------------------------
\* Remainders in the range where they are needed.
LEMMA Remainder ==
  ASSUME NEW n \in Nat, n > 0, NEW x \in 0 .. 2 * n - 1
  PROVE  x % n = IF x < n THEN x ELSE x - n
<1>1. x = n * (x \div n) + (x % n) /\ x \div n \in Int /\ x % n \in 0 .. n - 1
  OBVIOUS
<1> DEFINE q == x \div n
           r == x % n
<1>2. q \in Int /\ r \in 0 .. n - 1 /\ x = n * q + r
  BY <1>1
<1> HIDE DEF q, r
<1>3. q >= 2 => n * q >= 2 * n
  BY <1>2
<1>4. q <= -1 => n * q <= -n
  BY <1>2
<1>5. q = 0 \/ q = 1
  BY <1>2, <1>3, <1>4
<1>6. r = IF x < n THEN x ELSE x - n
  BY <1>2, <1>5
<1> QED
  BY <1>6 DEF r

\* Places of the ring, counted from a place.
LEMMA PosIs ==
  ASSUME NEW x \in 0 .. 2 * BufSize - 1
  PROVE  Pos(x) = IF x < BufSize THEN x ELSE x - BufSize
BY Remainder, BufSizeAssumption DEF Pos

LEMMA PlaceIs ==
  ASSUME NEW b \in Places, NEW i \in 0 .. BufSize
  PROVE  Pos(b + i) = IF b + i < BufSize THEN b + i ELSE (b + i) - BufSize
<1> DEFINE x == b + i
<1>1. x \in 0 .. 2 * BufSize - 1
  BY BufSizeAssumption DEF Places
<1> HIDE DEF x
<1>2. Pos(x) = IF x < BufSize THEN x ELSE x - BufSize
  BY <1>1, PosIs
<1> QED
  BY <1>2 DEF x

\* linenum is a uint8_t that never gets to its end.
LEMMA U8Is == ASSUME NEW x \in 0 .. BufSize PROVE x % U8 = x
<1> DEFINE n == U8
<1>1. n \in Nat /\ n > 0 /\ x \in 0 .. 2 * n - 1 /\ x < n
  BY BufSizeAssumption DEF U8
<1> HIDE DEF n
<1>2. x % n = x
  BY <1>1, Remainder
<1> QED
  BY <1>2 DEF n

Newlines(r) == {i \in 1 .. r.bitenum : r.bitebuf[Pos(r.biteBP + i - 1)] = Newline}

\* The bytes that are in the ring lie between its two indices, and linenum is the
\* number of newlines among them.
Counted(r) ==
  /\ DOMAIN r.bitebuf = Places
  /\ r.bitenum \in 0 .. BufSize /\ r.biteBP \in Places
  /\ r.biteEP = Pos(r.biteBP + r.bitenum)
  /\ r.linenum = Cardinality(Newlines(r))

LEMMA NewlinesFinite ==
  ASSUME NEW r, r.bitenum \in 0 .. BufSize
  PROVE  /\ IsFiniteSet(Newlines(r)) /\ Cardinality(Newlines(r)) \in 0 .. r.bitenum
<1>1. r.bitenum \in Nat
  BY BufSizeAssumption
<1>2. IsFiniteSet(1 .. r.bitenum) /\ Cardinality(1 .. r.bitenum) = r.bitenum
  <2> DEFINE n == r.bitenum
  <2>1. n \in Int /\ 1 \in Int /\ n >= 0
    BY <1>1
  <2> HIDE DEF n
  <2>2. /\ IsFiniteSet(1 .. n)
        /\ Cardinality(1 .. n) = IF 1 > n THEN 0 ELSE n - 1 + 1
    BY <2>1, FS_Interval
  <2>3. IsFiniteSet(1 .. n) /\ Cardinality(1 .. n) = n
    BY <2>1, <2>2
  <2> QED
    BY <2>3 DEF n
<1>3. Newlines(r) \in SUBSET (1 .. r.bitenum)
  BY DEF Newlines
<1>4. IsFiniteSet(Newlines(r)) /\ Cardinality(Newlines(r)) <= r.bitenum
  BY <1>2, <1>3, FS_Subset
<1> QED
  BY <1>1, <1>4, FS_CardinalityType

LEMMA BinitCounted ==
  ASSUME NEW r, DOMAIN r.bitebuf = Places
  PROVE  Counted(kb_Binit(r))
<1> DEFINE s == kb_Binit(r)
<1>1. s.bitebuf = r.bitebuf /\ s.bitenum = 0 /\ s.biteBP = 0 /\ s.biteEP = 0 /\ s.linenum = 0
  BY DEF kb_Binit, EmptyRing
<1> HIDE DEF s
<1>2. Newlines(s) = {}
  BY <1>1 DEF Newlines
<1>3. Pos(0) = 0 /\ 0 \in Places /\ 0 \in 0 .. BufSize
  BY PosIs, BufSizeAssumption DEF Places
<1>4. s.biteEP = Pos(s.biteBP + s.bitenum)
  BY <1>1, <1>3
<1> QED
  BY <1>1, <1>2, <1>3, <1>4, FS_EmptySet DEF Counted, s

\* A character goes behind all that is in the ring.
LEMMA PushBytes ==
  ASSUME NEW r, GoodRing(r), Counted(r), NEW c, r.bitenum # BufSize
  PROVE  LET s == kbbufpush(r, c)
             n == r.bitenum
         IN /\ n + 1 \in 0 .. BufSize /\ s.bitenum = n + 1 /\ s.biteBP = r.biteBP
            /\ DOMAIN s.bitebuf = Places
            /\ s.biteEP = Pos(r.biteBP + (n + 1))
            /\ s.linenum = IF c = Newline THEN (r.linenum + 1) % U8 ELSE r.linenum
            /\ \A i \in 1 .. n : s.bitebuf[Pos(r.biteBP + i - 1)] = r.bitebuf[Pos(r.biteBP + i - 1)]
            /\ s.bitebuf[Pos(r.biteBP + (n + 1) - 1)] = c
<1> DEFINE s == kbbufpush(r, c)
           n == r.bitenum
<1>0. n \in 0 .. BufSize /\ n \in Nat /\ r.biteBP \in Places /\ BufSize \in Nat
  BY BufSizeAssumption DEF Counted
<1>1. n + 1 \in 0 .. BufSize /\ n < BufSize
  BY <1>0
<1>2. r.biteEP \in Places
  BY DEF GoodRing
<1>3. /\ s.bitebuf = [r.bitebuf EXCEPT ![r.biteEP] = c]
      /\ s.biteEP = Pos(r.biteEP + 1) /\ s.bitenum = n + 1 /\ s.biteBP = r.biteBP
      /\ s.linenum = IF c = Newline THEN (r.linenum + 1) % U8 ELSE r.linenum
  BY <1>2 DEF kbbufpush, GoodRing
<1> HIDE DEF s
<1>4. DOMAIN s.bitebuf = Places /\ s.bitebuf[r.biteEP] = c
      /\ \A p \in Places \ {r.biteEP} : s.bitebuf[p] = r.bitebuf[p]
  BY <1>2, <1>3 DEF Counted
<1>5. r.biteEP = Pos(r.biteBP + n)
  BY DEF Counted
<1> HIDE DEF n
<1>6. \A i \in 1 .. n : Pos(r.biteBP + i - 1) \in Places \ {r.biteEP}
  <2> SUFFICES ASSUME NEW i \in 1 .. n PROVE Pos(r.biteBP + i - 1) \in Places \ {r.biteEP}
    OBVIOUS
  <2> DEFINE j == i - 1
  <2>1. j \in 0 .. BufSize /\ j < n /\ r.biteBP + i - 1 = r.biteBP + j
    BY <1>0, <1>1 DEF Places
  <2> HIDE DEF j
  <2>2. Pos(r.biteBP + j) = IF r.biteBP + j < BufSize THEN r.biteBP + j ELSE (r.biteBP + j) - BufSize
    BY <1>0, <2>1, PlaceIs
  <2>3. Pos(r.biteBP + n) = IF r.biteBP + n < BufSize THEN r.biteBP + n ELSE (r.biteBP + n) - BufSize
    BY <1>0, PlaceIs
  <2>4. Pos(r.biteBP + j) \in Places /\ Pos(r.biteBP + j) # Pos(r.biteBP + n)
    BY <1>0, <1>1, <2>1, <2>2, <2>3 DEF Places
  <2> QED
    BY <1>5, <2>1, <2>4
<1>7. Pos(r.biteEP + 1) = Pos(r.biteBP + (n + 1))
  <2> DEFINE j == n + 1
  <2>1. j \in 0 .. BufSize /\ 1 \in 0 .. BufSize
    BY <1>0, <1>1
  <2>2. Pos(r.biteBP + j) = IF r.biteBP + j < BufSize THEN r.biteBP + j ELSE (r.biteBP + j) - BufSize
    <3> HIDE DEF j
    <3> QED
      BY <1>0, <2>1, PlaceIs
  <2>3. Pos(r.biteBP + n) = IF r.biteBP + n < BufSize THEN r.biteBP + n ELSE (r.biteBP + n) - BufSize
    BY <1>0, PlaceIs
  <2>4. Pos(r.biteEP + 1) = IF r.biteEP + 1 < BufSize THEN r.biteEP + 1 ELSE (r.biteEP + 1) - BufSize
    BY <1>2, <2>1, PlaceIs
  <2> QED
    BY <1>0, <1>1, <1>5, <2>2, <2>3, <2>4 DEF Places
<1>8. r.biteBP + (n + 1) - 1 = r.biteBP + n
  BY <1>0 DEF Places
<1>9. /\ \A i \in 1 .. n : s.bitebuf[Pos(r.biteBP + i - 1)] = r.bitebuf[Pos(r.biteBP + i - 1)]
      /\ s.bitebuf[Pos(r.biteBP + (n + 1) - 1)] = c
  BY <1>4, <1>5, <1>6, <1>8
<1> QED
  BY <1>1, <1>3, <1>4, <1>7, <1>9 DEF s, n

LEMMA PushCounted ==
  ASSUME NEW r, GoodRing(r), Counted(r), NEW c
  PROVE  Counted(kbbufpush(r, c))
<1> DEFINE s == kbbufpush(r, c)
           n == r.bitenum
<1>0. n \in 0 .. BufSize /\ n \in Nat /\ r.biteBP \in Places /\ BufSize \in Nat
  BY BufSizeAssumption DEF Counted
<1>1. CASE n = BufSize
  BY <1>1 DEF kbbufpush
<1>2. CASE n # BufSize
  <2>1. /\ n + 1 \in 0 .. BufSize /\ s.bitenum = n + 1 /\ s.biteBP = r.biteBP
        /\ DOMAIN s.bitebuf = Places
        /\ s.biteEP = Pos(r.biteBP + (n + 1))
        /\ s.linenum = IF c = Newline THEN (r.linenum + 1) % U8 ELSE r.linenum
        /\ \A i \in 1 .. n : s.bitebuf[Pos(r.biteBP + i - 1)] = r.bitebuf[Pos(r.biteBP + i - 1)]
        /\ s.bitebuf[Pos(r.biteBP + (n + 1) - 1)] = c
    BY <1>2, PushBytes
  <2> HIDE DEF s
  <2>2. /\ Newlines(s) = {i \in 1 .. n + 1 : s.bitebuf[Pos(r.biteBP + i - 1)] = Newline}
        /\ Newlines(r) = {i \in 1 .. n : r.bitebuf[Pos(r.biteBP + i - 1)] = Newline}
    BY <2>1 DEF Newlines
  <2> HIDE DEF n
  <2>3. \A i : i \in 1 .. n + 1 <=> i \in 1 .. n \/ i = n + 1
    BY <1>0
  <2>4. ASSUME c = Newline PROVE Counted(s)
    <3>1. Newlines(s) = Newlines(r) \cup {n + 1}
      BY <2>1, <2>2, <2>3, <2>4
    <3>2. n + 1 \notin Newlines(r)
      BY <1>0, <2>2
    <3>3. IsFiniteSet(Newlines(r)) /\ Cardinality(Newlines(r)) \in 0 .. n
      BY <1>0, NewlinesFinite DEF n
    <3>4. Cardinality(Newlines(s)) = Cardinality(Newlines(r)) + 1
      BY <3>1, <3>2, <3>3, FS_AddElement
    <3>5. r.linenum = Cardinality(Newlines(r))
      BY DEF Counted
    <3> DEFINE m == r.linenum + 1
    <3>6. m \in 0 .. BufSize /\ Cardinality(Newlines(s)) = m
      BY <1>0, <2>1, <3>3, <3>4, <3>5
    <3>7. s.linenum = m % U8
      BY <2>1, <2>4
    <3> HIDE DEF m
    <3>8. s.linenum = Cardinality(Newlines(s))
      BY <3>6, <3>7, U8Is
    <3> QED
      BY <1>0, <2>1, <3>8 DEF Counted
  <2>5. ASSUME c # Newline PROVE Counted(s)
    <3>1. Newlines(s) = Newlines(r)
      BY <2>1, <2>2, <2>3, <2>5
    <3> QED
      BY <1>0, <2>1, <2>5, <3>1 DEF Counted
  <2> QED
    BY <2>4, <2>5 DEF s
<1> QED
  BY <1>1, <1>2

\* Backspace takes back the last of the ring, unless an index would wrap.
LEMMA PopCounted ==
  ASSUME NEW r, GoodRing(r), Counted(r), r.bitenum > 0 => r.biteEP # 0
  PROVE  Counted(kbbufpop(r))
<1> DEFINE s == kbbufpop(r)
           n == r.bitenum
<1>0. n \in 0 .. BufSize /\ n \in Nat /\ r.biteBP \in Places /\ BufSize \in Nat
  BY BufSizeAssumption DEF Counted
<1>1. CASE n = 0
  BY <1>1 DEF kbbufpop
<1>2. CASE n > 0
  <2>1. r.biteEP \in Places \ {0} /\ r.biteEP - 1 \in Places
    BY <1>0, <1>2 DEF GoodRing, Places
  <2>2. Before(r.biteEP) = r.biteEP - 1 /\ Pos(r.biteEP - 1) = r.biteEP - 1
    <3>1. Pos(r.biteEP - 1) = r.biteEP - 1
      BY <1>0, <2>1, PosIs DEF Places
    <3> QED
      BY <2>1, <3>1 DEF Before
  <2>3. /\ s.bitebuf = r.bitebuf /\ s.biteEP = r.biteEP - 1 /\ s.bitenum = n - 1
        /\ s.biteBP = r.biteBP
        /\ s.linenum = IF r.bitebuf[r.biteEP - 1] = Newline THEN (r.linenum - 1) % U8 ELSE r.linenum
    BY <1>0, <1>2, <2>2 DEF kbbufpop, GoodRing
  <2> HIDE DEF s
  <2>4. r.biteEP = Pos(r.biteBP + n)
    BY DEF Counted
  <2> HIDE DEF n
  <2>5. Pos(r.biteBP + (n - 1)) = r.biteEP - 1
    <3> DEFINE j == n - 1
    <3>1. j \in 0 .. BufSize
      BY <1>0, <1>2 DEF n
    <3>2. Pos(r.biteBP + j) = IF r.biteBP + j < BufSize THEN r.biteBP + j ELSE (r.biteBP + j) - BufSize
      <4> HIDE DEF j
      <4> QED
        BY <1>0, <3>1, PlaceIs
    <3>3. Pos(r.biteBP + n) = IF r.biteBP + n < BufSize THEN r.biteBP + n ELSE (r.biteBP + n) - BufSize
      BY <1>0, PlaceIs DEF n
    <3> QED
      BY <1>0, <1>2, <2>1, <2>4, <3>2, <3>3 DEF Places, n
  <2>6. r.biteBP + n - 1 = r.biteBP + (n - 1) /\ n - 1 \in 0 .. BufSize
    BY <1>0, <1>2 DEF Places
  <2>7. \A i : i \in 1 .. n <=> i \in 1 .. n - 1 \/ i = n
    BY <1>0, <1>2
  <2>8. Newlines(s) = Newlines(r) \ {n}
    <3>1. n \notin 1 .. n - 1
      BY <1>0
    <3> QED
      BY <2>3, <2>7, <3>1 DEF Newlines, n
  <2>9. n \in Newlines(r) <=> r.bitebuf[r.biteEP - 1] = Newline
    BY <2>5, <2>6, <2>7 DEF Newlines, n
  <2>10. /\ IsFiniteSet(Newlines(r)) /\ Cardinality(Newlines(r)) = r.linenum /\ r.linenum \in 0 .. n
    BY <1>0, NewlinesFinite DEF Counted, n
  <2>11. Cardinality(Newlines(s)) = IF n \in Newlines(r) THEN r.linenum - 1 ELSE r.linenum
    BY <2>8, <2>10, FS_RemoveElement
  <2>12. Cardinality(Newlines(s)) \in 0 .. n - 1
    <3>1. s.bitenum \in 0 .. BufSize
      BY <2>3, <2>6 DEF n
    <3> QED
      BY <2>3, <3>1, NewlinesFinite DEF n
  <2>13. s.linenum = Cardinality(Newlines(s))
    <3>1. n \in Newlines(r) => r.linenum - 1 \in 0 .. BufSize
      BY <1>0, <2>11, <2>12
    <3> QED
      BY <2>3, <2>9, <2>11, <3>1, U8Is
  <2>14. s.biteEP = Pos(s.biteBP + s.bitenum)
    BY <2>3, <2>5 DEF n
  <2> QED
    BY <1>0, <2>3, <2>6, <2>13, <2>14 DEF Counted, s, n
<1> QED
  BY <1>0, <1>1, <1>2

\* Places counted from the k-th of those behind b.
LEMMA Onward ==
  ASSUME NEW b \in Places, NEW n \in 0 .. BufSize, NEW k \in 0 .. n
  PROVE  Pos(b + k) \in Places /\ \A i \in 0 .. n - k : Pos(Pos(b + k) + i) = Pos(b + (k + i))
<1>0. BufSize \in Nat
  BY BufSizeAssumption
<1>1. k \in 0 .. BufSize
  BY <1>0
<1>2. Pos(b + k) = IF b + k < BufSize THEN b + k ELSE (b + k) - BufSize
  BY <1>0, <1>1, PlaceIs
<1>3. Pos(b + k) \in Places
  BY <1>0, <1>1, <1>2 DEF Places
<1>4. ASSUME NEW i \in 0 .. n - k PROVE Pos(Pos(b + k) + i) = Pos(b + (k + i))
  <2> DEFINE j == k + i
             a == Pos(b + k)
  <2>1. j \in 0 .. BufSize /\ i \in 0 .. BufSize
    BY <1>0, <1>1
  <2>2. Pos(a + i) = IF a + i < BufSize THEN a + i ELSE (a + i) - BufSize
    BY <1>3, <2>1, PlaceIs
  <2> HIDE DEF j
  <2>3. Pos(b + j) = IF b + j < BufSize THEN b + j ELSE (b + j) - BufSize
    BY <1>0, <2>1, PlaceIs
  <2>4. b + j = (b + k) + i
    BY <1>0, <1>1 DEF j, Places
  <2>5. b \in Int /\ k \in Int /\ i \in Int /\ a \in Int /\ b + k \in Int
    BY <1>0, <1>1, <1>3 DEF Places
  <2> HIDE DEF a
  <2>6. a = IF b + k < BufSize THEN b + k ELSE (b + k) - BufSize
    BY <1>2 DEF a
  <2>7. b < BufSize /\ k + i <= BufSize /\ a >= 0 /\ a < BufSize
    BY <1>0, <1>1, <1>3, <2>1 DEF Places, a, j
  <2>8. Pos(a + i) = Pos(b + j)
    BY <1>0, <2>2, <2>3, <2>4, <2>5, <2>6, <2>7
  <2> QED
    BY <2>8 DEF a, j
<1> QED
  BY <1>3, <1>4

\* What is in the ring when the first k of it are gone.
LEMMA ConsumedCounted ==
  ASSUME NEW r, GoodRing(r), Counted(r), NEW nbytes \in Nat
  PROVE  Counted(Consumed(r, nbytes))
<1> DEFINE s == Consumed(r, nbytes)
           n == r.bitenum
           k == Taken(r, nbytes)
           b == r.biteBP
           A == Newlines(r)
           B == Newlines(s)
           byte(i) == r.bitebuf[Pos(b + i - 1)]
<1>1. n \in 0 .. BufSize /\ n \in Nat /\ b \in Places /\ BufSize \in Nat
  BY BufSizeAssumption DEF Counted
<1>2. k \in 0 .. n /\ \A i \in 1 .. k - 1 : byte(i) # Newline
  <2>1. k \in 0 .. n /\ \A i \in 1 .. k - 1 : Unread(r)[i] # Newline
    BY TakenFacts
  <2>2. \A i \in 1 .. n : Unread(r)[i] = byte(i)
    BY DEF Unread
  <2> QED
    BY <1>1, <2>1, <2>2
<1>3. /\ s.bitebuf = r.bitebuf /\ s.bitenum = n - k /\ s.biteBP = Pos(b + k) /\ s.biteEP = r.biteEP
      /\ s.linenum = IF k > 0 /\ Unread(r)[k] = Newline THEN (r.linenum - 1) % U8 ELSE r.linenum
  BY DEF Consumed, GoodRing
<1>4. k > 0 => Unread(r)[k] = byte(k)
  BY <1>1, <1>2 DEF Unread
<1>5. r.linenum = Cardinality(A) /\ IsFiniteSet(A) /\ Cardinality(A) \in 0 .. n
  BY <1>1, NewlinesFinite DEF Counted
<1>6. r.biteEP = Pos(b + n) /\ DOMAIN r.bitebuf = Places
  BY DEF Counted
<1> HIDE DEF s, n, k, b, byte, A, B
<1>7. Pos(b + k) \in Places /\ \A i \in 0 .. n - k : Pos(Pos(b + k) + i) = Pos(b + (k + i))
  BY <1>1, <1>2, Onward
<1>8. s.biteEP = Pos(s.biteBP + s.bitenum)
  <2>1. n - k \in 0 .. n - k /\ k + (n - k) = n
    BY <1>1, <1>2
  <2> QED
    BY <1>3, <1>6, <1>7, <2>1
<1>9. s.bitenum \in 0 .. BufSize /\ DOMAIN s.bitebuf = Places /\ s.biteBP \in Places
  BY <1>1, <1>2, <1>3, <1>6, <1>7
\* What is left is what came after the first k.
<1>10. \A i \in 1 .. n - k : i \in B <=> k + i \in A
  <2> SUFFICES ASSUME NEW i \in 1 .. n - k PROVE i \in B <=> k + i \in A
    OBVIOUS
  <2>1. i - 1 \in 0 .. n - k /\ k + i \in 1 .. n
    BY <1>1, <1>2
  <2>2. /\ Pos(b + k) + (i - 1) = Pos(b + k) + i - 1
        /\ b + (k + (i - 1)) = b + (k + i) - 1
    BY <1>1, <1>2, <1>7 DEF Places
  <2>3. Pos(Pos(b + k) + i - 1) = Pos(b + (k + i) - 1)
    BY <1>7, <2>1, <2>2
  <2>4. i \in B <=> r.bitebuf[Pos(Pos(b + k) + i - 1)] = Newline
    BY <1>3 DEF B, Newlines
  <2>5. k + i \in A <=> r.bitebuf[Pos(b + (k + i) - 1)] = Newline
    BY <2>1 DEF A, Newlines, n, b
  <2> QED
    BY <2>3, <2>4, <2>5
<1> DEFINE C == {j \in A : j > k}
<1>11. Cardinality(B) = Cardinality(C)
  <2> DEFINE f == [i \in B |-> k + i]
  <2>1. B \subseteq 1 .. n - k /\ A \subseteq 1 .. n
    BY <1>3 DEF A, B, Newlines, n
  <2>2. IsFiniteSet(B) /\ IsFiniteSet(C)
    <3>1. C \in SUBSET A
      OBVIOUS
    <3> QED
      BY <1>5, <1>9, <3>1, NewlinesFinite, FS_Subset DEF B
  <2>3. \A i \in B : k + i \in C
    BY <1>1, <1>2, <1>10, <2>1
  <2>4. \A j \in C : j - k \in B /\ k + (j - k) = j
    BY <1>1, <1>2, <1>10, <2>1
  <2> HIDE DEF C
  <2>5. f \in Bijection(B, C)
    <3>1. f \in [B -> C]
      BY <2>3
    <3>2. \A i, j \in B : f[i] = f[j] => i = j
      BY <1>2, <2>1
    <3>3. \A j \in C : \E i \in B : f[i] = j
      BY <2>4
    <3> HIDE DEF f
    <3> QED
      BY <3>1, <3>2, <3>3 DEF Bijection, Injection, IsInjective, Surjection
  <2> QED
    BY <2>2, <2>5, FS_Bijection DEF ExistsBijection
<1>12. CASE k > 0 /\ byte(k) = Newline
  <2>1. k \in A
    BY <1>1, <1>2, <1>12 DEF A, Newlines, byte, n, b
  <2>2. C = A \ {k}
    BY <1>1, <1>2 DEF A, Newlines, byte, n, b
  <2> HIDE DEF C
  <2>3. Cardinality(B) = r.linenum - 1
    BY <1>5, <1>11, <2>1, <2>2, FS_RemoveElement
  <2>4. r.linenum - 1 \in 0 .. BufSize
    <3>1. A # {}
      BY <2>1
    <3>2. Cardinality(A) # 0
      BY <1>5, <3>1, FS_EmptySet
    <3> QED
      BY <1>1, <1>5, <3>2
  <2>5. s.linenum = Cardinality(B)
    BY <1>3, <1>4, <1>12, <2>3, <2>4, U8Is
  <2> QED
    BY <1>8, <1>9, <2>5 DEF Counted, B, s
<1>13. CASE ~(k > 0 /\ byte(k) = Newline)
  <2>1. C = A
    BY <1>1, <1>2, <1>13 DEF A, Newlines, byte, n, b
  <2>2. s.linenum = Cardinality(B)
    BY <1>3, <1>4, <1>5, <1>11, <1>13, <2>1
  <2> QED
    BY <1>8, <1>9, <2>2 DEF Counted, B, s
<1> QED
  BY <1>12, <1>13
-----------------------------------------------------------------------------
CountedInv == ApartInv /\ \A t \in Terminals : Counted(ring[t])

LEMMA InitCounted == Init => CountedInv
<1> SUFFICES ASSUME Init PROVE CountedInv
  OBVIOUS
<1>1. DOMAIN EmptyRing.bitebuf = Places /\ kb_Binit(EmptyRing) = EmptyRing
  BY DEF EmptyRing, kb_Binit
<1>2. Counted(EmptyRing)
  BY <1>1, BinitCounted
<1> QED
  BY <1>2, InitInv DEF Init, CountedInv

\* What a step does to a ring: the handler, or the running process.
RingMove(r, s) ==
  \/ s = r
  \/ \E c : s = kbbufpush(r, c)
  \/ (r.bitenum > 0 => r.biteEP # 0) /\ s = kbbufpop(r)
  \/ s = kb_Binit(r)
  \/ \E nbytes \in Nat : s = Consumed(r, nbytes)

LEMMA RingMoveCounted ==
  ASSUME NEW r, GoodRing(r), Counted(r), NEW s, RingMove(r, s)
  PROVE  Counted(s)
<1>1. ASSUME NEW c, s = kbbufpush(r, c) PROVE Counted(s)
  BY <1>1, PushCounted
<1>2. ASSUME r.bitenum > 0 => r.biteEP # 0, s = kbbufpop(r) PROVE Counted(s)
  BY <1>2, PopCounted
<1>3. ASSUME s = kb_Binit(r) PROVE Counted(s)
  BY <1>3, BinitCounted DEF Counted
<1>4. ASSUME NEW nbytes \in Nat, s = Consumed(r, nbytes) PROVE Counted(s)
  BY <1>4, ConsumedCounted
<1> QED
  BY <1>1, <1>2, <1>3, <1>4 DEF RingMove

LEMMA PushMoves ==
  ASSUME ApartInv, NEW c, Push(c), NEW t \in Terminals
  PROVE  RingMove(ring[t], ring'[t])
<1> DEFINE now == nowterminalno
<1>1. now \in Terminals /\ GoodRing(ring[now])
  BY DEF ApartInv, RingsOK
<1>2. ~Spills(ring[now], c)
  BY <1>1, PushFacts
<1>3. ring'[t] = IF t = now THEN kbbufpush(ring[t], c) ELSE ring[t]
  BY <1>2 DEF Push
<1> QED
  BY <1>3 DEF RingMove

LEMMA kb_initMoves ==
  ASSUME ApartInv, NEW u \in Terminals, kb_init(u), NEW t \in Terminals
  PROVE  RingMove(ring[t], ring'[t])
<1>1. ring'[t] = IF t = u THEN kb_Binit(ring[t]) ELSE ring[t]
  BY DEF kb_init, ApartInv, RingsOK
<1> QED
  BY <1>1 DEF RingMove

LEMMA RingMoves ==
  ASSUME ApartInv, ~EraseOverWrap, [Next]_vars, NEW t \in Terminals
  PROVE  RingMove(ring[t], ring'[t])
<1>1. ASSUME UNCHANGED ring PROVE RingMove(ring[t], ring'[t])
  BY <1>1 DEF RingMove
<1>2. ASSUME NEW k \in Keys, Type(k) PROVE RingMove(ring[t], ring'[t])
  BY <1>2, PushMoves DEF Type
<1>3. ASSUME Backspace PROVE RingMove(ring[t], ring'[t])
  <2>1. ring'[t] = IF t = nowterminalno THEN kbbufpop(ring[t]) ELSE ring[t]
    <3>1. ring' = [ring EXCEPT ![nowterminalno] = kbbufpop(ring[nowterminalno])]
      BY <1>3 DEF Backspace
    <3> QED
      BY <3>1, Zenon DEF ApartInv, RingsOK
  <2>2. ring[nowterminalno].bitenum > 0 => ring[nowterminalno].biteEP # 0
    BY <1>3 DEF Backspace
  <2> QED
    BY <2>1, <2>2 DEF RingMove
<1>4. ASSUME CtrlL PROVE RingMove(ring[t], ring'[t])
  BY <1>1, <1>4, kb_initMoves DEF CtrlL, ApartInv
<1>5. ASSUME TypeSecondByte PROVE RingMove(ring[t], ring'[t])
  BY <1>1, <1>5, PushMoves DEF TypeSecondByte
<1>6. ASSUME ReadReturns PROVE RingMove(ring[t], ring'[t])
  <2>1. ring'[t] = IF t = turn THEN Consumed(ring[t], reading[turn]) ELSE ring[t]
    BY <1>6 DEF ReadReturns, ApartInv, RingsOK
  <2>2. reading[turn] \in Nat
    BY <1>6 DEF ReadReturns, ApartInv, StatusOK
  <2> QED
    BY <2>1, <2>2 DEF RingMove
<1>7. ASSUME Execute PROVE RingMove(ring[t], ring'[t])
  BY <1>7, kb_initMoves DEF Execute, ApartInv
<1>8. ASSUME CapsLock \/ FirstByte \/ DropSecondByte \/ Read \/ Tick \/ UNCHANGED vars
      PROVE  UNCHANGED ring
  BY <1>8 DEF CapsLock, FirstByte, DropSecondByte, Read, Tick, vars, input
<1>9. ASSUME \/ \E m \in Modifiers : Press(m) \/ Release(m)
             \/ \E no \in Terminals : AltFn(no)
      PROVE  UNCHANGED ring
  BY <1>9 DEF Press, Release, AltFn
<1> QED
  BY <1>1, <1>2, <1>3, <1>4, <1>5, <1>6, <1>7, <1>8, <1>9 DEF Next

LEMMA NextCounted == ASSUME ~EraseOverWrap PROVE CountedInv /\ [Next]_vars => CountedInv'
<1> SUFFICES ASSUME CountedInv, [Next]_vars PROVE CountedInv'
  OBVIOUS
<1>1. ApartInv'
  BY StepApart DEF CountedInv
<1>2. ASSUME NEW t \in Terminals PROVE Counted(ring'[t])
  <2>1. GoodRing(ring[t]) /\ Counted(ring[t])
    BY DEF CountedInv, ApartInv, RingsOK
  <2>2. RingMove(ring[t], ring'[t])
    BY RingMoves DEF CountedInv
  <2> QED
    BY <2>1, <2>2, RingMoveCounted
<1> QED
  BY <1>1, <1>2 DEF CountedInv, Counted, Newlines, Places, Pos

LEMMA CountedIsLines == CountedInv => LinesAreCounted
<1> SUFFICES ASSUME CountedInv, NEW t \in Terminals
             PROVE  ring[t].linenum =
                      Cardinality({i \in 1 .. ring[t].bitenum : Unread(ring[t])[i] = Newline})
  BY DEF LinesAreCounted
<1>1. Newlines(ring[t]) = {i \in 1 .. ring[t].bitenum : Unread(ring[t])[i] = Newline}
  BY DEF Newlines, Unread
<1> QED
  BY <1>1 DEF CountedInv, Counted

\* LinesAreCounted, for any number of terminals, any size of the ring and any keys:
\* terminal_read's linenum is the number of newlines in the ring, if the user does
\* not erase over the end of the ring.
THEOREM LinesAreCountedHolds == ASSUME ~EraseOverWrap PROVE Spec => []LinesAreCounted
<1>1. Init => CountedInv
  BY InitCounted
<1>2. CountedInv /\ [Next]_vars => CountedInv'
  BY NextCounted
<1>3. CountedInv => LinesAreCounted
  BY CountedIsLines
<1> QED
  BY <1>1, <1>2, <1>3, PTL DEF Spec
-----------------------------------------------------------------------------
\* Sequences known by their elements.
IsSeq(s, n) == n \in Nat /\ s = [i \in 1 .. n |-> s[i]]

LEMMA IsSeqFacts ==
  ASSUME NEW s, NEW n, IsSeq(s, n), NEW S, \A i \in 1 .. n : s[i] \in S
  PROVE  s \in Seq(S) /\ Len(s) = n
BY DEF IsSeq

LEMMA AppendIs ==
  ASSUME NEW s, NEW n, IsSeq(s, n), NEW t, IsSeq(t, n + 1), \A i \in 1 .. n : t[i] = s[i]
  PROVE  t = Append(s, t[n + 1])
<1> DEFINE S == {t[i] : i \in 1 .. n + 1}
           e == t[n + 1]
<1>1. n \in Nat /\ n + 1 \in 1 .. n + 1 /\ 1 .. n \subseteq 1 .. n + 1
  BY DEF IsSeq
<1>2. e \in S /\ (\A i \in 1 .. n : s[i] \in S) /\ (\A i \in 1 .. n + 1 : t[i] \in S)
  BY <1>1
<1> HIDE DEF S, e
<1>3. s \in Seq(S) /\ Len(s) = n
  BY <1>2, IsSeqFacts
<1>4. t \in Seq(S) /\ Len(t) = n + 1
  BY <1>2, IsSeqFacts
<1>5. /\ Append(s, e) \in Seq(S) /\ Len(Append(s, e)) = n + 1
      /\ \A i \in 1 .. n : Append(s, e)[i] = s[i]
      /\ Append(s, e)[n + 1] = e
  BY <1>2, <1>3, AppendProperties
<1>6. \A i \in 1 .. n + 1 : t[i] = Append(s, e)[i]
  <2> SUFFICES ASSUME NEW i \in 1 .. n + 1 PROVE t[i] = Append(s, e)[i]
    OBVIOUS
  <2>1. i \in 1 .. n \/ i = n + 1
    BY <1>1
  <2> QED
    BY <1>5, <2>1 DEF e
<1> QED
  BY <1>4, <1>5, <1>6, SeqEqual DEF e

LEMMA SubSeqIs ==
  ASSUME NEW s, NEW n, IsSeq(s, n), NEW k \in 0 .. n, NEW m \in k .. n, NEW l, l = m - k,
         NEW j, j = k + 1,
         NEW t, IsSeq(t, l), \A i \in 1 .. l : t[i] = s[k + i]
  PROVE  t = SubSeq(s, j, m)
<1> DEFINE S == {s[i] : i \in 1 .. n}
<1>1. n \in Nat /\ k \in Nat /\ m \in Nat /\ k <= m /\ m <= n
  BY DEF IsSeq
<1>2. \A i \in j .. m : s[i] \in S
  BY <1>1
<1>3. \A i \in 1 .. l : k + i \in 1 .. n /\ t[i] \in S
  BY <1>1
<1>4. j \in Int /\ m \in Int /\ m - j + 1 = l /\ (\A i \in 1 .. l : j + i - 1 = k + i)
  BY <1>1
<1>5. (IF j <= m THEN m - j + 1 ELSE 0) = l
  BY <1>1
<1> HIDE DEF S
<1>6. /\ SubSeq(s, j, m) \in Seq(S) /\ Len(SubSeq(s, j, m)) = IF j <= m THEN m - j + 1 ELSE 0
      /\ \A i \in 1 .. m - j + 1 : SubSeq(s, j, m)[i] = s[j + i - 1]
  BY <1>2, <1>4, SubSeqProperties
<1>7. /\ SubSeq(s, j, m) \in Seq(S) /\ Len(SubSeq(s, j, m)) = l
      /\ \A i \in 1 .. l : SubSeq(s, j, m)[i] = s[k + i]
  BY <1>4, <1>5, <1>6
<1>8. t \in Seq(S) /\ Len(t) = l
  BY <1>3, IsSeqFacts
<1> QED
  BY <1>7, <1>8, SeqEqual

LEMMA UnreadFacts ==
  ASSUME NEW r, Counted(r)
  PROVE  /\ IsSeq(Unread(r), r.bitenum) /\ Len(Unread(r)) = r.bitenum
         /\ \A i \in 1 .. r.bitenum : Unread(r)[i] = r.bitebuf[Pos(r.biteBP + i - 1)]
<1>1. r.bitenum \in Nat
  BY BufSizeAssumption DEF Counted
<1>2. IsSeq(Unread(r), r.bitenum)
  BY <1>1 DEF IsSeq, Unread
<1> DEFINE s == Unread(r)
           S == {s[i] : i \in 1 .. r.bitenum}
<1>3. \A i \in 1 .. r.bitenum : s[i] \in S
  OBVIOUS
<1> HIDE DEF s, S
<1>4. Len(s) = r.bitenum
  BY <1>2, <1>3, IsSeqFacts DEF s
<1> QED
  BY <1>2, <1>4 DEF s, Unread

-----------------------------------------------------------------------------
\* The operations of the ring are those of a queue.
LEMMA PushQueue ==
  ASSUME NEW r, GoodRing(r), Counted(r), NEW c
  PROVE  Unread(kbbufpush(r, c)) = IF r.bitenum = BufSize THEN Unread(r) ELSE Append(Unread(r), c)
<1>1. CASE r.bitenum = BufSize
  BY <1>1 DEF kbbufpush
<1>2. CASE r.bitenum # BufSize
  <2> DEFINE s == kbbufpush(r, c)
             n == r.bitenum
             old == Unread(r)
             new == Unread(s)
  <2>1. /\ s.bitenum = n + 1 /\ s.biteBP = r.biteBP
        /\ \A i \in 1 .. n : s.bitebuf[Pos(r.biteBP + i - 1)] = r.bitebuf[Pos(r.biteBP + i - 1)]
        /\ s.bitebuf[Pos(r.biteBP + (n + 1) - 1)] = c
    BY <1>2, PushBytes
  <2>2. Counted(s)
    BY PushCounted
  <2>3. IsSeq(old, n) /\ \A i \in 1 .. n : old[i] = r.bitebuf[Pos(r.biteBP + i - 1)]
    BY UnreadFacts
  <2> HIDE DEF s, n
  <2>4. IsSeq(new, n + 1) /\ \A i \in 1 .. n + 1 : new[i] = s.bitebuf[Pos(r.biteBP + i - 1)]
    BY <2>1, <2>2, UnreadFacts
  <2>5. n \in Nat /\ n + 1 \in 1 .. n + 1 /\ 1 .. n \subseteq 1 .. n + 1
    BY <2>3 DEF IsSeq
  <2>6. new[n + 1] = c /\ \A i \in 1 .. n : new[i] = old[i]
    BY <2>1, <2>3, <2>4, <2>5
  <2> HIDE DEF old, new
  <2>7. new = Append(old, c)
    BY <2>3, <2>4, <2>6, AppendIs
  <2> QED
    BY <1>2, <2>7 DEF old, new, s, n
<1> QED
  BY <1>1, <1>2

LEMMA PopQueue ==
  ASSUME NEW r, GoodRing(r), Counted(r), r.bitenum > 0 => r.biteEP # 0
  PROVE  Unread(kbbufpop(r)) =
           IF r.bitenum = 0 THEN Unread(r) ELSE SubSeq(Unread(r), 1, Len(Unread(r)) - 1)
<1>1. CASE r.bitenum = 0
  BY <1>1 DEF kbbufpop
<1>2. CASE r.bitenum # 0
  <2> DEFINE s == kbbufpop(r)
             n == r.bitenum
             old == Unread(r)
             new == Unread(s)
             m == n - 1
  <2>1. s.bitebuf = r.bitebuf /\ s.bitenum = m /\ s.biteBP = r.biteBP
    BY <1>2 DEF kbbufpop, GoodRing
  <2>2. Counted(s)
    BY PopCounted, <1>2 DEF GoodRing
  <2>3. /\ IsSeq(old, n) /\ Len(old) = n
        /\ \A i \in 1 .. n : old[i] = r.bitebuf[Pos(r.biteBP + i - 1)]
    BY UnreadFacts
  <2>4. n \in Nat /\ m \in 0 .. n /\ 0 \in 0 .. n /\ m \in 0 .. n
        /\ m = m - 0 /\ 1 = 0 + 1 /\ \A i \in 1 .. m : 0 + i = i /\ i \in 1 .. n
    BY <1>2, <2>3 DEF IsSeq
  <2> HIDE DEF s, n, m
  <2>5. IsSeq(new, m) /\ \A i \in 1 .. m : new[i] = r.bitebuf[Pos(r.biteBP + i - 1)]
    BY <2>1, <2>2, UnreadFacts
  <2>6. \A i \in 1 .. m : new[i] = old[0 + i]
    BY <2>3, <2>4, <2>5
  <2> HIDE DEF old, new
  <2>7. new = SubSeq(old, 1, m)
    <3>1. IsSeq(old, n) /\ IsSeq(new, m)
      BY <2>3, <2>5
    <3>2. 0 \in 0 .. n /\ m \in 0 .. n /\ m = m - 0 /\ 1 = 0 + 1
      BY <2>4
    <3> QED
      BY <2>6, <3>1, <3>2, SubSeqIs
  <2> QED
    BY <1>2, <2>3, <2>4, <2>7 DEF old, new, s, n, m
<1> QED
  BY <1>1, <1>2

LEMMA BinitQueue ==
  ASSUME NEW r
  PROVE  Unread(kb_Binit(r)) = << >>
<1>1. kb_Binit(r).bitenum = 0
  BY DEF kb_Binit, EmptyRing
<1>2. 1 .. kb_Binit(r).bitenum = {}
  BY <1>1
<1> QED
  BY <1>2 DEF Unread

\* terminal_read takes its bytes from the front and leaves the others.
LEMMA ConsumedQueue ==
  ASSUME NEW r, GoodRing(r), Counted(r), NEW nbytes \in Nat
  PROVE  Unread(Consumed(r, nbytes)) = SubSeq(Unread(r), Taken(r, nbytes) + 1, Len(Unread(r)))
<1> DEFINE s == Consumed(r, nbytes)
           n == r.bitenum
           k == Taken(r, nbytes)
           b == r.biteBP
           old == Unread(r)
           new == Unread(s)
<1>1. k \in 0 .. n
  BY TakenFacts
<1>2. s.bitebuf = r.bitebuf /\ s.bitenum = n - k /\ s.biteBP = Pos(b + k)
  BY DEF Consumed, GoodRing
<1>3. Counted(s)
  BY ConsumedCounted
<1>4. /\ IsSeq(old, n) /\ Len(old) = n
      /\ \A i \in 1 .. n : old[i] = r.bitebuf[Pos(b + i - 1)]
  BY UnreadFacts
<1>5. n \in 0 .. BufSize /\ b \in Places
  BY DEF Counted
<1> HIDE DEF s, n, k, b
<1>6. IsSeq(new, n - k) /\ \A i \in 1 .. n - k : new[i] = r.bitebuf[Pos(Pos(b + k) + i - 1)]
  BY <1>2, <1>3, UnreadFacts
<1>7. n \in Nat /\ n \in k .. n
  BY <1>1, <1>4 DEF IsSeq
<1>8. Pos(b + k) \in Places /\ \A i \in 0 .. n - k : Pos(Pos(b + k) + i) = Pos(b + (k + i))
  BY <1>1, <1>5, Onward
<1>9. ASSUME NEW i \in 1 .. n - k PROVE new[i] = old[k + i]
  <2>1. i - 1 \in 0 .. n - k /\ k + i \in 1 .. n
    BY <1>1, <1>7
  <2>2. /\ Pos(b + k) + (i - 1) = Pos(b + k) + i - 1
        /\ b + (k + (i - 1)) = b + (k + i) - 1
    BY <1>1, <1>5, <1>7, <1>8 DEF Places
  <2>3. Pos(Pos(b + k) + i - 1) = Pos(b + (k + i) - 1)
    BY <1>8, <2>1, <2>2
  <2> QED
    BY <1>4, <1>6, <2>1, <2>3
<1> HIDE DEF old, new
<1>10. new = SubSeq(old, k + 1, n)
  <2> DEFINE l == n - k
             j == k + 1
  <2>1. IsSeq(new, l) /\ l = n - k /\ j = k + 1 /\ \A i \in 1 .. l : new[i] = old[k + i]
    BY <1>6, <1>9
  <2> HIDE DEF l, j
  <2>2. IsSeq(old, n)
    BY <1>4
  <2>3. new = SubSeq(old, j, n)
    BY <1>1, <1>7, <2>1, <2>2, SubSeqIs
  <2> QED
    BY <2>1, <2>3
<1> QED
  BY <1>4, <1>10 DEF old, new, s, n, k

\* What terminal_read delivers when it has waited for a line, or was asked for
\* nothing: the front of the queue, up to a newline or to what was asked for.
LEMMA DeliveredLine ==
  ASSUME NEW r, GoodRing(r), Counted(r), NEW nbytes \in Nat, nbytes > 0 => r.linenum # 0
  PROVE  LET k == Taken(r, nbytes)
             queue == Unread(r)
         IN /\ k \in 0 .. Len(queue) /\ k <= nbytes
            /\ \A i \in 1 .. k - 1 : queue[i] # Newline
            /\ k = nbytes \/ (k > 0 /\ queue[k] = Newline)
            /\ Delivered(r, nbytes) = SubSeq(queue, 1, k)
            /\ nbytes > 0 => \E i \in 1 .. Len(queue) : queue[i] = Newline
<1> DEFINE k == Taken(r, nbytes)
           queue == Unread(r)
           n == r.bitenum
           asked == IF k > 0 /\ queue[k] = Newline THEN k ELSE nbytes
<1>1. /\ k \in 0 .. n /\ k <= nbytes
      /\ \A i \in 1 .. k - 1 : queue[i] # Newline
      /\ k = nbytes \/ k = n \/ (k > 0 /\ queue[k] = Newline)
  BY TakenFacts
<1>2. IsSeq(queue, n) /\ Len(queue) = n /\ n \in Nat
  BY UnreadFacts DEF IsSeq
<1>3. nbytes > 0 => \E i \in 1 .. n : queue[i] = Newline
  <2> SUFFICES ASSUME nbytes > 0 PROVE \E i \in 1 .. n : queue[i] = Newline
    OBVIOUS
  <2>1. Newlines(r) # {}
    BY FS_EmptySet DEF Counted
  <2> QED
    BY <2>1, UnreadFacts DEF Newlines
<1>4. k = nbytes \/ (k > 0 /\ queue[k] = Newline)
  <2> SUFFICES ASSUME k = n, k # nbytes PROVE k > 0 /\ queue[k] = Newline
    BY <1>1
  <2>1. nbytes > 0
    BY <1>1, <1>2
  <2>2. PICK i \in 1 .. n : queue[i] = Newline
    BY <1>3, <2>1
  <2>3. i \notin 1 .. k - 1
    BY <1>1, <2>2
  <2> QED
    BY <1>2, <2>2, <2>3
<1>5. Delivered(r, nbytes) = [i \in 1 .. asked |-> IF i <= k THEN Unread(r)[i] ELSE NoChar]
  BY DEF Delivered
<1>6. asked = k
  BY <1>4
<1> DEFINE new == Delivered(r, nbytes)
<1> HIDE DEF k, queue, n, asked, new
<1>7. new = [i \in 1 .. k |-> queue[i]]
  BY <1>5, <1>6, <1>1, <1>2 DEF queue, new
<1>8. IsSeq(new, k) /\ \A i \in 1 .. k : new[i] = queue[i]
  BY <1>1, <1>2, <1>7 DEF IsSeq
<1>9. k = k - 0 /\ k \in 0 .. n /\ 1 = 0 + 1 /\ 0 \in 0 .. n /\ \A i \in 1 .. k : 0 + i = i
  BY <1>1, <1>2
<1>10. new = SubSeq(queue, 1, k)
  BY <1>1, <1>2, <1>8, <1>9, SubSeqIs
<1> QED
  BY <1>1, <1>2, <1>3, <1>4, <1>9, <1>10 DEF k, queue, n, new
-----------------------------------------------------------------------------
\* Keyboard implements LineInput.
Queues == [t \in Terminals |-> Unread(ring[t])]

LEMMA QueuesAre ==
  ASSUME NEW t \in Terminals, NEW q,
         \A u \in Terminals : Unread(ring'[u]) = IF u = t THEN q ELSE Unread(ring[u])
  PROVE  Queues' = [Queues EXCEPT ![t] = q]
<1>1. [u \in Terminals |-> Unread(ring'[u])] = [Queues EXCEPT ![t] = q]
  BY DEF Queues
<1> QED
  BY <1>1 DEF Queues, Unread, Pos, Terminals

LEMMA SameQueues ==
  ASSUME \A u \in Terminals : Unread(ring'[u]) = Unread(ring[u])
  PROVE  Queues' = Queues
<1>1. [u \in Terminals |-> Unread(ring'[u])] = Queues
  BY DEF Queues
<1> QED
  BY <1>1 DEF Queues, Unread, Pos, Terminals

LEMMA LineTerminals ==
  /\ LineView!Terminals = Terminals /\ LineView!NoRead = NoRead
  /\ \A t \in Terminals : Queues[t] = Unread(ring[t])
BY DEF LineView!Terminals, LineView!NoRead, Terminals, NoRead, Queues

LEMMA StutterLine ==
  ASSUME Queues' = Queues, UNCHANGED <<reading, answer, nowterminalno, turn>>
  PROVE  UNCHANGED LineView!vars
BY DEF LineView!vars, Queues

\* A character that finds room is typed; one that does not is dropped.
LEMMA PushLine ==
  ASSUME CountedInv, NEW c \in Typeable, Push(c),
         UNCHANGED <<nowterminalno, turn, reading, answer>>
  PROVE  LineView!Type \/ UNCHANGED LineView!vars
<1> DEFINE now == nowterminalno
<1>1. now \in Terminals /\ GoodRing(ring[now]) /\ Counted(ring[now])
  BY DEF CountedInv, ApartInv, RingsOK
<1>2. ~Spills(ring[now], c)
  BY <1>1, PushFacts
<1>3. \A t \in Terminals : ring'[t] = IF t = now THEN kbbufpush(ring[t], c) ELSE ring[t]
  BY <1>2 DEF Push
<1> DEFINE n == ring[now].bitenum
<1>4. CASE n = BufSize
  <2>1. \A t \in Terminals : Unread(ring'[t]) = Unread(ring[t])
    BY <1>1, <1>3, <1>4, PushQueue
  <2>2. Queues' = Queues
    BY <2>1, SameQueues
  <2> QED
    BY <2>2, StutterLine
<1>5. CASE n # BufSize
  <2> DEFINE q == Append(Unread(ring[now]), c)
  <2>1. \A t \in Terminals : Unread(ring'[t]) = IF t = now THEN q ELSE Unread(ring[t])
    BY <1>1, <1>3, <1>5, PushQueue
  <2>2. q = Append(Queues[now], c)
    BY <1>1, LineTerminals
  <2> HIDE DEF q
  <2>3. Queues' = [Queues EXCEPT ![now] = q]
    BY <1>1, <2>1, QueuesAre
  <2>4. Len(Queues[now]) < BufSize
    <3>1. n \in 0 .. BufSize /\ Len(Unread(ring[now])) = n
      BY <1>1, UnreadFacts DEF Counted
    <3> QED
      BY <1>1, <1>5, <3>1, LineTerminals, BufSizeAssumption
  <2>5. Queues' = [Queues EXCEPT ![now] = Append(Queues[now], c)]
    BY <2>2, <2>3
  <2> QED
    BY <2>4, <2>5 DEF LineView!Type, Queues
<1> QED
  BY <1>4, <1>5

LEMMA BackspaceLine ==
  ASSUME CountedInv, ~EraseOverWrap, Backspace
  PROVE  LineView!Erase \/ UNCHANGED LineView!vars
<1> DEFINE now == nowterminalno
           n == ring[now].bitenum
<1>1. now \in Terminals /\ GoodRing(ring[now]) /\ Counted(ring[now])
  BY DEF CountedInv, ApartInv, RingsOK
<1>2. n > 0 => ring[now].biteEP # 0
  BY DEF Backspace
<1>3. /\ ring' = [ring EXCEPT ![now] = kbbufpop(ring[now])]
      /\ UNCHANGED <<reading, answer, nowterminalno, turn>>
  BY DEF Backspace
<1>4. \A t \in Terminals : ring'[t] = IF t = now THEN kbbufpop(ring[t]) ELSE ring[t]
  BY <1>3, Zenon DEF CountedInv, ApartInv, RingsOK
<1>5. CASE n = 0
  <2>1. \A t \in Terminals : Unread(ring'[t]) = Unread(ring[t])
    BY <1>1, <1>2, <1>4, <1>5, PopQueue
  <2>2. Queues' = Queues
    BY <2>1, SameQueues
  <2> QED
    BY <1>3, <2>2, StutterLine
<1>6. CASE n # 0
  <2> DEFINE q == SubSeq(Unread(ring[now]), 1, Len(Unread(ring[now])) - 1)
  <2>1. \A t \in Terminals : Unread(ring'[t]) = IF t = now THEN q ELSE Unread(ring[t])
    BY <1>1, <1>2, <1>4, <1>6, PopQueue
  <2>2. q = LineView!Front(Queues[now])
    BY <1>1, LineTerminals DEF LineView!Front
  <2>3. Len(Queues[now]) # 0
    BY <1>1, <1>6, LineTerminals, UnreadFacts
  <2> HIDE DEF q
  <2>4. Queues' = [Queues EXCEPT ![now] = q]
    BY <1>1, <2>1, QueuesAre
  <2>5. Queues' = [Queues EXCEPT ![now] = LineView!Front(Queues[now])] /\ Queues[now] # << >>
    BY <2>2, <2>3, <2>4
  <2> QED
    BY <1>3, <2>5 DEF LineView!Erase, Queues
<1> QED
  BY <1>5, <1>6

\* kb_init throws away the queue of a terminal nobody reads from.
LEMMA kb_initLine ==
  ASSUME CountedInv, NEW t \in Terminals, kb_init(t), reading[t] = NoRead,
         UNCHANGED <<nowterminalno, turn, reading, answer>>
  PROVE  LineView!Forget(t)
<1>1. \A u \in Terminals : ring'[u] = IF u = t THEN kb_Binit(ring[u]) ELSE ring[u]
  BY DEF kb_init, CountedInv, ApartInv, RingsOK
<1>2. \A u \in Terminals : Unread(ring'[u]) = IF u = t THEN << >> ELSE Unread(ring[u])
  BY <1>1, BinitQueue
<1>3. Queues' = [Queues EXCEPT ![t] = << >>]
  BY <1>2, QueuesAre
<1> QED
  BY <1>3, LineTerminals DEF LineView!Forget, Queues

LEMMA ReadLine == ASSUME CountedInv, Read PROVE LineView!Ask
<1>1. \A t \in Terminals : Unread(ring'[t]) = Unread(ring[t])
  BY DEF Read
<1>2. Queues' = Queues
  BY <1>1, SameQueues
<1> QED
  BY <1>2, LineTerminals DEF Read, LineView!Ask, Queues

LEMMA ReadReturnsLine == ASSUME CountedInv, ReadReturns PROVE LineView!Answer
<1> DEFINE nbytes == reading[turn]
           k == Taken(ring[turn], nbytes)
           queue == Unread(ring[turn])
           q == SubSeq(queue, k + 1, Len(queue))
<1>1. /\ turn \in Terminals /\ nbytes \in Nat /\ GoodRing(ring[turn]) /\ Counted(ring[turn])
      /\ nbytes # NoRead
  BY DEF CountedInv, ApartInv, RingsOK, StatusOK, ReadReturns
<1>2. nbytes > 0 => ring[turn].linenum # 0
  BY DEF ReadReturns
<1>3. /\ k \in 0 .. Len(queue) /\ k <= nbytes
      /\ \A i \in 1 .. k - 1 : queue[i] # Newline
      /\ k = nbytes \/ (k > 0 /\ queue[k] = Newline)
      /\ Delivered(ring[turn], nbytes) = SubSeq(queue, 1, k)
      /\ nbytes > 0 => \E i \in 1 .. Len(queue) : queue[i] = Newline
  BY <1>1, <1>2, DeliveredLine
<1>4. /\ answer' = SubSeq(queue, 1, k) /\ reading' = [reading EXCEPT ![turn] = NoRead]
      /\ UNCHANGED <<nowterminalno, turn>>
  BY <1>3 DEF ReadReturns
<1>5. Queues' = [Queues EXCEPT ![turn] = q]
  <2>1. \A t \in Terminals : ring'[t] = IF t = turn THEN Consumed(ring[t], nbytes) ELSE ring[t]
    BY <1>1 DEF ReadReturns, CountedInv, ApartInv, RingsOK
  <2>2. \A t \in Terminals : Unread(ring'[t]) = IF t = turn THEN q ELSE Unread(ring[t])
    BY <1>1, <2>1, ConsumedQueue
  <2> HIDE DEF q
  <2> QED
    BY <1>1, <2>2, QueuesAre
<1>6. Queues[turn] = queue /\ LineView!NoRead = NoRead
  BY <1>1, LineTerminals
\* There is no newline among the bytes before the last one.
<1>7. ~LineView!Contains(SubSeq(queue, 1, k - 1), Newline)
  <2> DEFINE S == {queue[i] : i \in 1 .. k - 1}
             m == k - 1
             s == SubSeq(queue, 1, m)
  <2>1. /\ m \in Int /\ 1 \in Int /\ (\A i \in 1 .. m : queue[i] \in S)
        /\ (IF 1 <= m THEN m - 1 + 1 ELSE 0) = (IF m > 0 THEN m ELSE 0) /\ m - 1 + 1 = m
        /\ \A i \in 1 .. m : 1 + i - 1 = i
    BY <1>3, UnreadFacts, <1>1 DEF IsSeq
  <2> HIDE DEF S, m
  <2>2. Len(s) = (IF m > 0 THEN m ELSE 0) /\ \A i \in 1 .. m : s[i] = queue[i]
    BY <2>1, SubSeqProperties
  <2>3. \A i \in 1 .. Len(s) : i \in 1 .. m
    BY <2>1, <2>2
  <2>4. \A i \in 1 .. m : queue[i] # Newline
    BY <1>3 DEF m
  <2> QED
    BY <2>2, <2>3, <2>4 DEF LineView!Contains, s, m
<1> HIDE DEF nbytes, k, queue, q
<1>8. LineView!Contains(queue, Newline) \/ ~(nbytes > 0)
  BY <1>3 DEF LineView!Contains
<1>9. \E j \in 0 .. Len(Queues[turn]) :
        /\ j <= reading[turn]
        /\ ~LineView!Contains(SubSeq(Queues[turn], 1, j - 1), Newline)
        /\ j = reading[turn] \/ (j > 0 /\ Queues[turn][j] = Newline)
        /\ answer' = SubSeq(Queues[turn], 1, j)
        /\ Queues' = [Queues EXCEPT ![turn] = SubSeq(Queues[turn], j + 1, Len(Queues[turn]))]
  BY <1>3, <1>4, <1>5, <1>6, <1>7 DEF nbytes, q
<1>10. /\ reading[turn] # LineView!NoRead
       /\ reading[turn] > 0 => LineView!Contains(Queues[turn], Newline)
  BY <1>1, <1>6, <1>8 DEF nbytes
<1> QED
  BY <1>4, <1>6, <1>9, <1>10 DEF LineView!Answer, Queues

\* Every step of Keyboard is one of LineInput or changes nothing that it shows.
LEMMA LineStep ==
  ASSUME CountedInv, ~EraseOverWrap, [Next]_vars
  PROVE  [LineView!Next]_(LineView!vars)
<1>0. nowterminalno \in Terminals /\ turn \in Terminals
  BY DEF CountedInv, ApartInv
<1>1. ASSUME NEW k \in Keys, Type(k) PROVE LineView!Type \/ UNCHANGED LineView!vars
  <2>1. PICK c \in Translate(k) : Push(c)
    BY <1>1 DEF Type
  <2>2. c \in Typeable
    BY DEF Translate, Typeable
  <2> QED
    BY <1>1, <2>1, <2>2, PushLine DEF Type
<1>2. ASSUME Backspace PROVE LineView!Erase \/ UNCHANGED LineView!vars
  BY <1>2, BackspaceLine
<1>3. ASSUME UNCHANGED <<ring, reading, answer, nowterminalno, turn>> PROVE UNCHANGED LineView!vars
  <2>1. Queues' = Queues
    BY <1>3, SameQueues
  <2> QED
    BY <1>3, <2>1, StutterLine
<1>4. ASSUME CapsLock \/ (\E m \in Modifiers : Press(m) \/ Release(m)) \/ FirstByte \/ DropSecondByte
             \/ UNCHANGED vars
      PROVE  UNCHANGED LineView!vars
  BY <1>3, <1>4 DEF CapsLock, Press, Release, FirstByte, DropSecondByte, vars, input
<1>5. ASSUME NEW no \in Terminals, AltFn(no) PROVE LineView!Show
  <2>1. Queues' = Queues
    BY <1>5, SameQueues DEF AltFn
  <2> QED
    BY <1>5, <2>1, LineTerminals DEF AltFn, LineView!Show, Queues
<1>6. ASSUME CtrlL PROVE LineView!Forget(nowterminalno) \/ UNCHANGED LineView!vars
  <2>1. UNCHANGED <<nowterminalno, turn, reading, answer>>
    BY <1>6 DEF CtrlL
  <2>2. CASE kbstatus[nowterminalno].terminalreading = 0 /\ kb_init(nowterminalno)
    <3>1. reading[nowterminalno] = NoRead
      BY <1>0, <2>2 DEF CountedInv, ApartInv, StatusOK
    <3> QED
      BY <1>0, <2>1, <2>2, <3>1, kb_initLine
  <2>3. CASE UNCHANGED <<ring, kbstatus>>
    BY <1>3, <2>1, <2>3
  <2> QED
    BY <1>6, <2>2, <2>3 DEF CtrlL, Shown
<1>7. ASSUME TypeSecondByte PROVE LineView!Type \/ UNCHANGED LineView!vars
  <2>1. UNCHANGED <<nowterminalno, turn, reading, answer>>
    BY <1>7 DEF TypeSecondByte
  <2>2. \A c \in Translate("KeypadSlash") : c \in Typeable
    BY DEF Translate, Typeable
  <2>3. UNCHANGED ring \/ \E c \in Translate("KeypadSlash") : Push(c)
    BY <1>7 DEF TypeSecondByte
  <2> QED
    BY <1>3, <2>1, <2>2, <2>3, PushLine
<1>8. ASSUME Read PROVE LineView!Ask
  BY <1>8, ReadLine
<1>9. ASSUME ReadReturns PROVE LineView!Answer
  BY <1>9, ReadReturnsLine
<1>10. ASSUME Execute PROVE LineView!Forget(turn)
  BY <1>0, <1>10, kb_initLine DEF Execute
<1>11. ASSUME Tick PROVE LineView!Rotate
  <2>1. Queues' = Queues
    BY <1>11, SameQueues DEF Tick, input
  <2> QED
    BY <1>11, <2>1 DEF Tick, input, LineView!Rotate, Queues
<1> QED
  BY <1>1, <1>2, <1>4, <1>5, <1>6, <1>7, <1>8, <1>9, <1>10, <1>11 DEF Next, LineView!Next

LEMMA LineInit == Init => LineView!Init
<1> SUFFICES ASSUME Init PROVE LineView!Init
  OBVIOUS
<1>1. EmptyRing = kb_Binit(EmptyRing)
  BY DEF EmptyRing, kb_Binit
<1>2. Unread(EmptyRing) = << >>
  BY <1>1, BinitQueue
<1> QED
  BY <1>2, LineTerminals DEF Init, LineView!Init

\* Keyboard implements LineInput, but for LineInput's fairness, for any number of
\* terminals, any size of the ring and any keys: no interleaving of keys, turns,
\* executes and reads loses, repeats or reorders a character of a line that is
\* read, if the user does not erase over the end of the ring.
THEOREM LinesImplemented ==
  ASSUME ~EraseOverWrap
  PROVE  Spec => LineView!Init /\ [][LineView!Next]_(LineView!vars)
<1>1. CountedInv /\ [Next]_vars => [LineView!Next]_(LineView!vars)
  BY LineStep
<1>2. CountedInv /\ [Next]_vars => CountedInv'
  BY NextCounted
<1> QED
  BY <1>1, <1>2, InitCounted, LineInit, PTL DEF Spec
=============================================================================
