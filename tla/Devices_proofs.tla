--------------------------- MODULE Devices_proofs ---------------------------
(***************************************************************************)
(* For any number of terminals, any frequencies that programs ask for and  *)
(* any lines that devices raise on either chip: the masks of the master    *)
(* that the initialisations leave, the flag of the clock and its rate      *)
(* register stay what the rest of the kernel relies on.                    *)
(***************************************************************************)
EXTENDS Devices, FiniteSetTheorems, WellFoundedInduction, TLAPS

\* What the 16 calls of disable_irq come to: the lines of the master are masked
\* one after the other, the slave's never.
MaskedBelow(k) == [c \in Chips |-> IF c = "master" THEN {i \in 0 .. 7 : i < k} ELSE {}]

\* After entry the clock, the keyboard, the interval timer's and the slave's line
\* of the master are open, and the whole slave.
OpenMask == [c \in Chips |-> IF c = "master" THEN 3 .. 7 ELSE {}]

\* The masks are left alone, and only lines that a device raises are requested.
PicInv ==
  /\ mask = OpenMask
  /\ irr \in [Chips -> SUBSET (0 .. 7)]
  /\ irr["master"] \subseteq Raised

\* The flag of the clock is only set when no waiting process missed the tick that
\* set it.
FlagInv ==
  /\ mode \in [Terminals -> {"user", "waiting", "seen", "lost"}]
  /\ ticked \in [Terminals -> BOOLEAN]
  /\ turn \in Terminals
  /\ rtc_interrupt_occur => \A t \in Terminals : mode[t] = "waiting" => ticked[t]
  /\ ReadSawTick

\* The rate register belongs to the power of two that was accepted last.
RateInv == \E judge \in 1 .. 10 : asked = 2 ^ judge /\ regA \in Nat /\ regA % 16 = 16 - judge
-----------------------------------------------------------------------------
\* A set of natural numbers has a least member.
LEMMA Least ==
  ASSUME NEW S \in SUBSET Nat, S # {}
  PROVE  \E k \in S : \A i \in S : k <= i
<1> DEFINE R == {ss \in Nat \X Nat : ss[1] < ss[2]}
<1>1. IsWellFoundedOn(R, Nat)
  BY NatLessThanWellFounded, Zenon DEF OpToRel
<1>2. PICK k \in S : \A i \in S : ~(<<i, k>> \in R)
  <2> HIDE DEF R
  <2> QED
    BY <1>1, WFMin
<1>3. \A i \in S : ~(i < k)
  BY <1>2
<1> QED
  BY <1>3

\* One turn of the loop of i8259_init.
LEMMA DisableOne ==
  ASSUME NEW k \in 0 .. 15
  PROVE  disable_irq(MaskedBelow(k), k) = MaskedBelow(k + 1)
<1>1. CASE k < 8
  <2>1. Byte({i \in 0 .. 7 : i < k} \cup {k}) = {i \in 0 .. 7 : i < k + 1}
    BY <1>1 DEF Byte
  <2> QED
    BY <1>1, <2>1 DEF disable_irq, MaskedBelow, Chip, Chips
<1>2. CASE k >= 8
  <2>1. Byte({} \cup {k}) = {}
    BY <1>2 DEF Byte
  <2>2. {i \in 0 .. 7 : i < k} = {i \in 0 .. 7 : i < k + 1}
    BY <1>2
  <2> QED
    BY <1>2, <2>1, <2>2 DEF disable_irq, MaskedBelow, Chip, Chips
<1> QED
  BY <1>1, <1>2

\* Masks as the initialisations leave them: some lines of the master, and none of
\* the slave.
Masks(set) == [c \in Chips |-> IF c = "master" THEN set ELSE {}]

\* enable_irq opens a line of the master; of the slave there is nothing to open.
LEMMA EnableOne ==
  ASSUME NEW set \in SUBSET (0 .. 7), NEW irq \in Lines
  PROVE  enable_irq(Masks(set), irq) = Masks(set \ {irq})
<1>1. CASE irq < 8
  <2>1. Chip(irq) = "master" /\ Byte(set \ {irq}) = set \ {irq}
    BY <1>1 DEF Chip, Byte
  <2>2. Masks(set)["master"] = set
    BY DEF Masks, Chips
  <2>3. [Masks(set) EXCEPT !["master"] = set \ {irq}] = Masks(set \ {irq})
    BY DEF Masks, Chips
  <2> QED
    BY <2>1, <2>2, <2>3 DEF enable_irq
<1>2. CASE irq >= 8
  <2>1. Chip(irq) = "slave" /\ Byte({} \ {irq}) = {}
    BY <1>2 DEF Chip, Byte, Lines
  <2>2. Masks(set)["slave"] = {} /\ set \ {irq} = set
    <3>1. irq \notin 0 .. 7
      BY <1>2 DEF Lines
    <3> QED
      BY <3>1 DEF Masks, Chips
  <2>3. [Masks(set) EXCEPT !["slave"] = {}] = Masks(set)
    BY DEF Masks, Chips
  <2> QED
    BY <2>1, <2>2, <2>3 DEF enable_irq
<1> QED
  BY <1>1, <1>2 DEF Lines

\* i8259_init masks the master but for the slave's line, and none of the slave.
LEMMA i8259_initIs == i8259_init = Masks(0 .. 7 \ {2})
<1> DEFINE Next_(f, k) == IF k = 0 THEN [c \in Chips |-> {}] ELSE disable_irq(f[k - 1], k - 1)
           Is(f) == f = [k \in 0 .. 16 |-> Next_(f, k)]
           disabled == CHOOSE f : Is(f)
           closed == [k \in 0 .. 16 |-> MaskedBelow(k)]
<1>1. Is(closed)
  <2>1. \A k \in 0 .. 16 : MaskedBelow(k) = Next_(closed, k)
    <3> SUFFICES ASSUME NEW k \in 0 .. 16 PROVE MaskedBelow(k) = Next_(closed, k)
      OBVIOUS
    <3>1. CASE k = 0
      <4>1. {i \in 0 .. 7 : i < 0} = {}
        OBVIOUS
      <4> QED
        BY <3>1, <4>1 DEF MaskedBelow, Chips
    <3>2. CASE k # 0
      <4>1. k - 1 \in 0 .. 15 /\ (k - 1) + 1 = k
        BY <3>2
      <4>2. closed[k - 1] = MaskedBelow(k - 1)
        BY <4>1
      <4>3. disable_irq(MaskedBelow(k - 1), k - 1) = MaskedBelow(k)
        BY <4>1, DisableOne
      <4> QED
        BY <3>2, <4>2, <4>3
    <3> QED
      BY <3>1, <3>2
  <2> HIDE DEF Next_
  <2> QED
    BY <2>1
<1>2. Is(disabled)
  <2> HIDE DEF Is, closed
  <2>1. \E f : Is(f)
    BY <1>1
  <2> QED
    BY <2>1
<1>3. \A k \in 0 .. 16 : disabled[k] = Next_(disabled, k)
  <2> HIDE DEF disabled, Next_
  <2> QED
    BY <1>2
<1>4. \A k \in 0 .. 16 : disabled[k] = MaskedBelow(k)
  <2> HIDE DEF disabled, Is, Next_
  <2> DEFINE Bad == {k \in 0 .. 16 : disabled[k] # MaskedBelow(k)}
  <2> SUFFICES ASSUME Bad # {} PROVE FALSE
    OBVIOUS
  <2>1. PICK k \in Bad : \A i \in Bad : k <= i
    <3>1. Bad \in SUBSET Nat
      OBVIOUS
    <3> HIDE DEF Bad
    <3> QED
      BY <3>1, Least
  <2>2. CASE k = 0
    <3>1. disabled[0] = [c \in Chips |-> {}]
      BY <1>3 DEF Next_
    <3>2. {i \in 0 .. 7 : i < 0} = {}
      OBVIOUS
    <3>3. MaskedBelow(0) = [c \in Chips |-> {}]
      BY <3>2 DEF MaskedBelow, Chips
    <3> QED
      BY <2>2, <3>1, <3>3
  <2>3. CASE k # 0
    <3>1. k \in 1 .. 16 /\ k - 1 \in 0 .. 15 /\ (k - 1) + 1 = k
      BY <2>3
    <3>2. disabled[k - 1] = MaskedBelow(k - 1)
      BY <2>1, <3>1
    <3>3. disabled[k] = disable_irq(disabled[k - 1], k - 1)
      BY <1>3, <3>1 DEF Next_
    <3>4. disable_irq(MaskedBelow(k - 1), k - 1) = MaskedBelow(k)
      BY <3>1, DisableOne
    <3> QED
      BY <3>2, <3>3, <3>4
  <2> QED
    BY <2>2, <2>3
<1>5. i8259_init = enable_irq(disabled[16], 2)
  BY DEF i8259_init
<1>6. disabled[16] = MaskedBelow(16)
  BY <1>4
<1>7. MaskedBelow(16) = Masks(0 .. 7)
  <2>1. {i \in 0 .. 7 : i < 16} = 0 .. 7
    OBVIOUS
  <2> QED
    BY <2>1 DEF MaskedBelow, Masks
<1>8. enable_irq(Masks(0 .. 7), 2) = Masks(0 .. 7 \ {2})
  <2>1. 0 .. 7 \in SUBSET (0 .. 7) /\ 2 \in Lines
    BY DEF Lines
  <2> QED
    BY <2>1, EnableOne
<1> HIDE DEF disabled
<1> QED
  BY <1>5, <1>6, <1>7, <1>8

LEMMA InitialMaskIs == InitialMask = OpenMask
<1> DEFINE closed == 0 .. 7 \ {2}
<1>1. closed \in SUBSET (0 .. 7) /\ closed \ {RTC_IRQ} = closed
  BY DEF RTC_IRQ
<1>2. closed \ {PIT_IRQ} \in SUBSET (0 .. 7) /\ (closed \ {PIT_IRQ}) \ {KEYBOARD_IRQ} = 3 .. 7
  BY DEF PIT_IRQ, KEYBOARD_IRQ
<1>3. i8259_init = Masks(closed)
  BY i8259_initIs
<1>4. {RTC_IRQ, PIT_IRQ, KEYBOARD_IRQ} \subseteq Lines
  BY DEF RTC_IRQ, PIT_IRQ, KEYBOARD_IRQ, Lines
<1> HIDE DEF closed
<1>5. /\ enable_irq(Masks(closed), RTC_IRQ) = Masks(closed)
      /\ enable_irq(Masks(closed), PIT_IRQ) = Masks(closed \ {PIT_IRQ})
      /\ enable_irq(Masks(closed \ {PIT_IRQ}), KEYBOARD_IRQ) = Masks(3 .. 7)
  BY <1>1, <1>2, <1>4, EnableOne
<1> QED
  BY <1>3, <1>5 DEF InitialMask, OpenMask, Masks
-----------------------------------------------------------------------------
\* A step that leaves the controllers' lines as they are.
LEMMA PicStepInv == ASSUME PicInv, mask' = mask, irr' = irr PROVE PicInv'
BY DEF PicInv, OpenMask, Chips

\* An interrupt that is taken withdraws its own request only.
LEMMA EnterInv == ASSUME PicInv, NEW irq, Enter(irq) PROVE PicInv'
<1>1. mask' = mask /\ irr' = [irr EXCEPT ![Chip(irq)] = irr[Chip(irq)] \ {Pin(irq)}]
  BY DEF Enter
<1>2. irr' \in [Chips -> SUBSET (0 .. 7)] /\ \A c \in Chips : irr'[c] \subseteq irr[c]
  BY <1>1 DEF PicInv, Chips
<1> QED
  BY <1>1, <1>2 DEF PicInv, OpenMask, Chips

LEMMA InitPic == Init => PicInv
BY InitialMaskIs DEF Init, PicInv, Chips

LEMMA StepPic ==
  ASSUME PicInv, [Next]_vars
  PROVE  PicInv'
<1>1. ASSUME NEW irq \in Raised, Raise(irq) PROVE PicInv'
  <2>1. /\ irq \in Lines /\ irq \in Raised /\ Pin(irq) \in 0 .. 7
        /\ Chip(irq) = "slave" \/ (Chip(irq) = "master" /\ Pin(irq) = irq)
    BY <1>1, DevicesAssumption DEF Raise, Lines, Chip, Pin
  <2>2. mask' = mask /\ irr' = [irr EXCEPT ![Chip(irq)] = irr[Chip(irq)] \cup {Pin(irq)}]
    BY <1>1 DEF Raise
  <2> QED
    BY <2>1, <2>2 DEF PicInv, OpenMask, Chips
<1>2. ASSUME RtcTick PROVE PicInv'
  <2>1. mask' = mask /\ irr' = [irr EXCEPT !["slave"] = irr["slave"] \cup {0}]
    BY <1>2 DEF RtcTick, Pin, RTC_IRQ
  <2> QED
    BY <2>1 DEF PicInv, OpenMask, Chips
<1>3. ASSUME scheduler \/ keyboard_handler \/ rtc_handler PROVE PicInv'
  BY <1>3, EnterInv DEF scheduler, keyboard_handler, rtc_handler
<1>7. ASSUME Stray PROVE PicInv'
  <2>1. PICK irq \in Lines : /\ irr' = [irr EXCEPT ![Chip(irq)] = irr[Chip(irq)] \ {Pin(irq)}]
                              /\ mask' = mask
    BY <1>7 DEF Stray
  <2>2. irr' \in [Chips -> SUBSET (0 .. 7)] /\ \A c \in Chips : irr'[c] \subseteq irr[c]
    BY <2>1 DEF PicInv, Chips
  <2> QED
    BY <2>1, <2>2 DEF PicInv, OpenMask, Chips
<1>4. ASSUME RtcReturn \/ StartRead \/ SeeTick \/ EndRead PROVE PicInv'
  BY <1>4, PicStepInv DEF RtcReturn, StartRead, SeeTick, EndRead, pic
<1>5. ASSUME NEW freq, rtc_reset_freq(freq) PROVE PicInv'
  BY <1>5, PicStepInv DEF rtc_reset_freq, pic
<1>6. ASSUME UNCHANGED vars PROVE PicInv'
  BY <1>6, PicStepInv DEF vars, pic
<1> QED
  BY <1>1, <1>2, <1>3, <1>4, <1>5, <1>6, <1>7 DEF Next, rtc_open, rtc_write

\* Of the master the masks leave only the timer's line, the keyboard's and the
\* slave's open.
LEMMA PicGated == ASSUME PicInv PROVE MasterLinesGated
<1> SUFFICES ASSUME NEW irq \in Lines, Interrupts(irq), Chip(irq) = "master"
             PROVE  Vector(irq) \in Gates
  BY DEF MasterLinesGated
<1>1. MasterAsks \subseteq {0, 1, 2} /\ MasterAsks # {}
  BY DevicesAssumption DEF PicInv, MasterAsks, Above, OpenMask, Chips, Interrupts
<1>2. irq < 8
  BY DEF Chip
<1>3. 2 \in MasterAsks => SlaveAsks # {}
  BY DevicesAssumption DEF PicInv, MasterAsks, Above
<1>4. SlaveAsks \in SUBSET Nat
  BY DEF PicInv, SlaveAsks, Above, Chips
<1>5. ASSUME NEW set \in SUBSET Nat, set # {} PROVE Min(set) \in set
  <2>1. \E x \in set : \A y \in set : x <= y
    BY <1>5, Least
  <2> QED
    BY <2>1 DEF Min
<1>6. Min(MasterAsks) \in MasterAsks
  <2>1. MasterAsks \in SUBSET Nat
    BY <1>1
  <2> QED
    BY <1>1, <1>5, <2>1
<1>7. Min(MasterAsks) # 2
  <2> SUFFICES ASSUME Min(MasterAsks) = 2 PROVE FALSE
    OBVIOUS
  <2>1. Min(SlaveAsks) \in Nat
    BY <1>3, <1>4, <1>5, <1>6
  <2>2. irq = 8 + Min(SlaveAsks)
    BY DEF Interrupts
  <2> QED
    BY <1>2, <2>1, <2>2
<1>8. irq \in {0, 1}
  BY <1>1, <1>6, <1>7 DEF Interrupts
<1> QED
  BY <1>8 DEF Vector, Gates
-----------------------------------------------------------------------------
LEMMA TerminalFacts == 1 \in Terminals /\ Terminals \subseteq Nat
<1>1. IsFiniteSet(Terminals) /\ Terminals = 1 .. Cardinality(Terminals) /\ Terminals # {}
  BY DevicesAssumption
<1> DEFINE number == Cardinality(Terminals)
<1>2. number \in Nat
  BY <1>1, FS_CardinalityType
<1>3. Terminals = 1 .. number /\ Terminals # {}
  BY <1>1
<1> HIDE DEF number
<1> QED
  BY <1>2, <1>3

\* The flag and what the readers have seen of it.
LEMMA InitFlag == Init => FlagInv
BY TerminalFacts DEF Init, FlagInv, ReadSawTick

LEMMA StepFlag == ASSUME FlagInv, [Next]_vars PROVE FlagInv'
<1>0. turn \in Terminals
  BY DEF FlagInv
<1>1. ASSUME UNCHANGED <<rtc_interrupt_occur, turn, mode, ticked>> PROVE FlagInv'
  BY <1>1 DEF FlagInv, ReadSawTick
<1>2. ASSUME scheduler PROVE FlagInv'
  <2>1. turn' \in Terminals
    BY <1>0, <1>2, TerminalFacts DEF scheduler
  <2> QED
    BY <1>2, <2>1 DEF scheduler, FlagInv, ReadSawTick, clock
<1>3. ASSUME rtc_handler PROVE FlagInv'
  BY <1>3 DEF rtc_handler, FlagInv, ReadSawTick
<1>8. ASSUME Stray PROVE FlagInv'
  <2>1. mode' = [mode EXCEPT ![turn] = "lost"] /\ UNCHANGED <<clock, turn, ticked>>
    BY <1>8 DEF Stray
  <2> QED
    BY <1>0, <2>1 DEF FlagInv, ReadSawTick, clock
<1>4. ASSUME StartRead PROVE FlagInv'
  BY <1>0, <1>4 DEF StartRead, Goto, FlagInv, ReadSawTick
<1>5. ASSUME SeeTick PROVE FlagInv'
  BY <1>0, <1>5 DEF SeeTick, At, Goto, FlagInv, ReadSawTick, clock
<1>6. ASSUME EndRead PROVE FlagInv'
  BY <1>0, <1>6 DEF EndRead, Goto, FlagInv, ReadSawTick
<1>7. ASSUME \/ \E irq \in Raised : Raise(irq)
             \/ RtcTick \/ keyboard_handler \/ RtcReturn
             \/ \E freq : rtc_reset_freq(freq)
             \/ UNCHANGED vars
      PROVE  FlagInv'
  BY <1>1, <1>7 DEF Raise, RtcTick, keyboard_handler, RtcReturn, rtc_reset_freq, vars, clock, tasks
<1> QED
  BY <1>2, <1>3, <1>4, <1>5, <1>6, <1>7, <1>8 DEF Next, rtc_open, rtc_write
-----------------------------------------------------------------------------
\* The rate and the frequency it stands for.
LEMMA InitRate == Init => RateInv
<1> SUFFICES ASSUME Init PROVE RateInv
  OBVIOUS
<1>1. asked = 2 ^ 9 /\ regA = 39 /\ 39 % 16 = 16 - 9
  BY DEF Init
<1> QED
  BY <1>1 DEF RateInv

LEMMA StepRate == ASSUME RateInv, [Next]_vars PROVE RateInv'
<1>1. ASSUME UNCHANGED <<regA, asked>> PROVE RateInv'
  BY <1>1 DEF RateInv
<1>2. ASSUME NEW freq, rtc_reset_freq(freq) PROVE RateInv'
  <2>1. CASE ~Accepted(freq)
    BY <1>1, <1>2, <2>1 DEF rtc_reset_freq
  <2>2. CASE Accepted(freq)
    <3> DEFINE judge == CHOOSE j \in 1 .. 10 : freq = 2 ^ j
    <3>1. judge \in 1 .. 10 /\ freq = 2 ^ judge
      BY <2>2 DEF Accepted
    <3>2. regA' = 16 - judge /\ asked' = freq
      BY <1>2, <2>2 DEF rtc_reset_freq, inputa
    <3> HIDE DEF judge
    <3>3. (16 - judge) % 16 = 16 - judge /\ 16 - judge \in Nat
      BY <3>1
    <3> QED
      BY <3>1, <3>2, <3>3 DEF RateInv
  <2> QED
    BY <2>1, <2>2
<1> QED
  BY <1>1, <1>2
  DEF Next, rtc_open, rtc_write, Raise, RtcTick, scheduler, keyboard_handler, rtc_handler,
      Stray, RtcReturn, StartRead, SeeTick, EndRead, vars, clock

\* The powers that rtc_write accepts are what the rates stand for.
LEMMA RateMeans == ASSUME RateInv PROVE RateAsAsked
<1>1. PICK judge \in 1 .. 10 : asked = 2 ^ judge /\ regA \in Nat /\ regA % 16 = 16 - judge
  BY DEF RateInv
<1>2. (regA % 16) - 1 = 15 - judge
  BY <1>1
<1>3. \A j \in 1 .. 10 : 2 ^ j = 2 ^ 15 \div 2 ^ (15 - j)
  <2> SUFFICES ASSUME NEW j \in 1 .. 10 PROVE 2 ^ j = 2 ^ 15 \div 2 ^ (15 - j)
    OBVIOUS
  <2>1. CASE j = 1 BY <2>1
  <2>2. CASE j = 2 BY <2>2
  <2>3. CASE j = 3 BY <2>3
  <2>4. CASE j = 4 BY <2>4
  <2>5. CASE j = 5 BY <2>5
  <2>6. CASE j = 6 BY <2>6
  <2>7. CASE j = 7 BY <2>7
  <2>8. CASE j = 8 BY <2>8
  <2>9. CASE j = 9 BY <2>9
  <2>10. CASE j = 10 BY <2>10
  <2> QED
    BY <2>1, <2>2, <2>3, <2>4, <2>5, <2>6, <2>7, <2>8, <2>9, <2>10
<1> QED
  BY <1>1, <1>2, <1>3 DEF RateAsAsked
-----------------------------------------------------------------------------
\* Whatever lines devices raise, on both chips, the master only interrupts
\* through a gate with a handler.
THEOREM MasterLinesGatedHolds == Spec => []MasterLinesGated
BY StepPic, InitPic, PicGated, PTL DEF Spec

\* rtc_read returns on a tick of its own time, with any number of readers that
\* share the flag, whoever is interrupted where.
THEOREM ReadSawTickHolds == Spec => []ReadSawTick
<1>1. FlagInv => ReadSawTick
  BY DEF FlagInv
<1> QED
  BY <1>1, InitFlag, StepFlag, PTL DEF Spec

\* The clock runs at the frequency of the last call that was accepted, whatever
\* programs ask for.
THEOREM RateAsAskedHolds == Spec => []RateAsAsked
BY InitRate, StepRate, RateMeans, PTL DEF Spec
=============================================================================
