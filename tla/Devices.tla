------------------------------ MODULE Devices ------------------------------
(***************************************************************************)
(* The interrupt controllers, the real-time clock and the interval timer:  *)
(* from a line that a device raises, through the masks and the gates, to   *)
(* the handler and to the process that waits for it in rtc_read.  Each     *)
(* terminal runs one process.  What runs with IF = 0 is one action, so in  *)
(* every state of this module interrupts are on.                           *)
(***************************************************************************)
EXTENDS Naturals, FiniteSets, FiniteSetsExt

CONSTANTS
  Terminals,   \* sche_list, as 1 .. its length
  Raised,      \* the lines that some device of the machine raises
  Frequencies, \* what programs pass to rtc_write
  MaxTail      \* bound: rtc_handlers interrupted after their sti, per stack

PIT_IRQ == 0
KEYBOARD_IRQ == 1
RTC_IRQ == 8
Lines == 0 .. 15
Chips == {"master", "slave"}

ASSUME DevicesAssumption ==
  /\ IsFiniteSet(Terminals) /\ Terminals = 1 .. Cardinality(Terminals) /\ Terminals # {}
  /\ {PIT_IRQ, KEYBOARD_IRQ, RTC_IRQ} \subseteq Raised /\ Raised \subseteq Lines \ {2}
  /\ Frequencies \subseteq Nat
  /\ MaxTail \in Nat

VARIABLES
  mask,     \* master_mask and slave_mask, each the set of its one bits
  irr, isr, \* the chips' requests and what is in service, as sets of pins
  latched,  \* has the clock raised its line since register C was read?
  regA,     \* register A of the clock
  rtc_interrupt_occur,
  turn,     \* cur_sche_node
  mode,     \* per terminal: in user code, in the loop of rtc_read, past it, or lost
  tail,     \* per terminal: rtc_handlers on its stack between sti and popfl
  ticked,   \* history: has rtc_handler run since this rtc_read began?
  asked     \* history: the frequency of the last call that returned 0

pic   == <<mask, irr, isr>>
clock == <<latched, regA, rtc_interrupt_occur, asked>>
tasks == <<turn, mode, tail, ticked>>
vars == <<pic, clock, tasks>>

Chip(irq) == IF irq < 8 THEN "master" ELSE "slave"
Pin(irq)  == irq % 8

\* A mask is a uint8_t: what 1 << irq_num sets beyond bit 7 is lost.
Byte(bits) == bits \cap 0 .. 7

enable_irq(masks, irq)  == [masks EXCEPT ![Chip(irq)] = Byte(@ \ {irq})]
disable_irq(masks, irq) == [masks EXCEPT ![Chip(irq)] = Byte(@ \cup {irq})]

\* i8259_init, then rtc_init, pit_init and keyboard_init in the order of entry.
i8259_init_OneLine == enable_irq(disable_irq([c \in Chips |-> {}], 15), 2)
i8259_init ==
  LET disabled[k \in 0 .. 16] ==
        IF k = 0 THEN [c \in Chips |-> {}] ELSE disable_irq(disabled[k - 1], k - 1)
  IN enable_irq(disabled[16], 2)
InitialMask == enable_irq(enable_irq(enable_irq(i8259_init, RTC_IRQ), PIT_IRQ), KEYBOARD_IRQ)

send_eoi_SlaveOnly(service, irq) == [service EXCEPT ![Chip(irq)] = @ \ {Pin(irq)}]
send_eoi(service, irq) ==
  IF Chip(irq) = "master" THEN [service EXCEPT !["master"] = @ \ {irq}]
  ELSE [service EXCEPT !["slave"] = @ \ {Pin(irq)}, !["master"] = @ \ {2}]

\* The vectors with a handler in their gate; ICW2 puts line n at vector 32 + n.
Gates     == (0 .. 19 \ {15}) \cup {32, 33, 40, 128}
Vector(n) == 32 + n

\* A chip asks for its requested, unmasked pins above all it has in service; the
\* slave asks through pin 2 of the master.
Above(chip, requests) == {p \in requests \ mask[chip] : \A s \in isr[chip] : p < s}
SlaveAsks  == Above("slave", irr["slave"])
MasterAsks == Above("master", irr["master"] \cup (IF SlaveAsks = {} THEN {} ELSE {2}))

Interrupts(irq) ==
  /\ MasterAsks # {}
  /\ irq = IF Min(MasterAsks) = 2 THEN 8 + Min(SlaveAsks) ELSE Min(MasterAsks)

Service(irq) ==
  IF Chip(irq) = "master" THEN [isr EXCEPT !["master"] = @ \cup {irq}]
  ELSE [isr EXCEPT !["slave"] = @ \cup {Pin(irq)}, !["master"] = @ \cup {2}]

\* The processor takes an interrupt and its handler begins with send_eoi, as
\* scheduler, rtc_handler and keyboard_handler do.
Enter(irq) ==
  /\ Interrupts(irq)
  /\ irr' = [irr EXCEPT ![Chip(irq)] = @ \ {Pin(irq)}]
  /\ isr' = send_eoi(Service(irq), irq)
  /\ UNCHANGED mask

\* A line of the slave that has no gate.  The processor has acknowledged it and
\* finds no gate present: exception 11, whose stub puts a dummy over the error
\* code, so that its iret faults in the kernel again and again (as in Signals),
\* under whatever was running.  Nobody ends the interrupt.
Stray ==
  \E irq \in Lines :
    /\ Interrupts(irq) /\ Vector(irq) \notin Gates
    /\ irr' = [irr EXCEPT ![Chip(irq)] = @ \ {Pin(irq)}]
    /\ isr' = Service(irq)
    /\ mode' = [mode EXCEPT ![turn] = "lost"]
    /\ UNCHANGED <<mask, clock, turn, tail, ticked>>

----------------------------------------------------------------------------
\* A device raises its line; the clock has its own rule.
Raise(irq) ==
  /\ irq \in Raised \ {RTC_IRQ}
  /\ irr' = [irr EXCEPT ![Chip(irq)] = @ \cup {Pin(irq)}]
  /\ UNCHANGED <<mask, isr, clock, tasks>>

\* The clock does not raise its line again before register C is read.
RtcTick ==
  /\ ~latched
  /\ latched' = TRUE
  /\ irr' = [irr EXCEPT !["slave"] = @ \cup {Pin(RTC_IRQ)}]
  /\ UNCHANGED <<mask, isr, regA, rtc_interrupt_occur, asked, tasks>>

\* scheduler: the next terminal continues where its own tick found it.
scheduler ==
  /\ Enter(PIT_IRQ)
  /\ turn' = IF turn + 1 \in Terminals THEN turn + 1 ELSE 1
  /\ UNCHANGED <<clock, mode, tail, ticked>>

keyboard_handler == Enter(KEYBOARD_IRQ) /\ UNCHANGED <<clock, tasks>>

rtc_handler_RegisterCUnread ==
  /\ Enter(RTC_IRQ)
  /\ tail[turn] < MaxTail
  /\ rtc_interrupt_occur' = TRUE
  /\ ticked' = [t \in Terminals |-> TRUE]
  /\ tail' = [tail EXCEPT ![turn] = @ + 1]
  /\ UNCHANGED <<latched, regA, asked, turn, mode>>

\* rtc_handler up to its sti, after which it can be interrupted ...
rtc_handler ==
  /\ Enter(RTC_IRQ)
  /\ tail[turn] < MaxTail
  /\ rtc_interrupt_occur' = TRUE
  /\ latched' = FALSE
  /\ ticked' = [t \in Terminals |-> TRUE]
  /\ tail' = [tail EXCEPT ![turn] = @ + 1]
  /\ UNCHANGED <<regA, asked, turn, mode>>

\* ... until popfl and iret.
RtcReturn ==
  /\ tail[turn] > 0 /\ mode[turn] # "lost"
  /\ tail' = [tail EXCEPT ![turn] = @ - 1]
  /\ UNCHANGED <<pic, clock, turn, mode, ticked>>

----------------------------------------------------------------------------
\* The process of the current terminal, when no handler is on top of it.
At(m)   == mode[turn] = m /\ tail[turn] = 0
Goto(m) == mode' = [mode EXCEPT ![turn] = m]

StartRead_FlagKept ==
  /\ At("user") /\ Goto("waiting")
  /\ ticked' = [ticked EXCEPT ![turn] = FALSE]
  /\ UNCHANGED <<pic, clock, turn, tail>>

\* rtc_read to its sti.
StartRead ==
  /\ At("user") /\ Goto("waiting")
  /\ rtc_interrupt_occur' = FALSE
  /\ ticked' = [ticked EXCEPT ![turn] = FALSE]
  /\ UNCHANGED <<pic, latched, regA, asked, turn, tail>>

\* j = rtc_interrupt_occur ends the loop; a turn of the loop that reads 0
\* changes nothing.
SeeTick ==
  /\ At("waiting") /\ rtc_interrupt_occur /\ Goto("seen")
  /\ UNCHANGED <<pic, clock, turn, tail, ticked>>

\* From cli to the return.
EndRead ==
  /\ At("seen") /\ Goto("user")
  /\ rtc_interrupt_occur' = FALSE
  /\ UNCHANGED <<pic, latched, regA, asked, turn, tail, ticked>>

\* The register for a power of two from 2 to 1024: the rate is 16 - log2(freq)
\* and the divider bits are written as 0.
Accepted(freq) == \E judge \in 1 .. 10 : freq = 2 ^ judge
inputa_Log(freq) == 15 - (CHOOSE judge \in 1 .. 10 : freq = 2 ^ judge)
inputa(freq) == 16 - (CHOOSE judge \in 1 .. 10 : freq = 2 ^ judge)

rtc_reset_freq(freq) ==
  /\ At("user")
  /\ IF Accepted(freq) THEN regA' = inputa(freq) /\ asked' = freq ELSE UNCHANGED <<regA, asked>>
  /\ UNCHANGED <<pic, latched, rtc_interrupt_occur, tasks>>

rtc_open        == rtc_reset_freq(2)
rtc_write(freq) == rtc_reset_freq(freq)

----------------------------------------------------------------------------
\* entry has run its initialisations and three programs run.
Init ==
  /\ mask = InitialMask
  /\ irr = [c \in Chips |-> {}] /\ isr = [c \in Chips |-> {}]
  /\ latched = FALSE
  /\ regA = 39 \* 0x27: the divider bits 010 and rate 7
  /\ rtc_interrupt_occur = FALSE
  /\ turn = 1
  /\ mode = [t \in Terminals |-> "user"]
  /\ tail = [t \in Terminals |-> 0]
  /\ ticked = [t \in Terminals |-> FALSE]
  /\ asked = 512

Next ==
  \/ \E irq \in Raised : Raise(irq)
  \/ RtcTick
  \/ scheduler
  \/ keyboard_handler
  \/ rtc_handler
  \/ RtcReturn
  \/ Stray
  \/ StartRead
  \/ SeeTick
  \/ EndRead
  \/ rtc_open
  \/ \E freq \in Frequencies : rtc_write(freq)

\* The clocks go on ticking.  A handler takes microseconds and ticks come
\* milliseconds apart, so a pending line is not passed over for ever, and a
\* process that is scheduled again and again gets through the few instructions
\* of its loop in some of its turns.
Fairness ==
  /\ WF_vars(Raise(PIT_IRQ)) /\ WF_vars(RtcTick)
  /\ SF_vars(scheduler) /\ SF_vars(keyboard_handler) /\ SF_vars(rtc_handler)
  /\ \A t \in Terminals :
       /\ SF_vars(turn = t /\ RtcReturn)
       /\ SF_vars(turn = t /\ SeeTick)
       /\ SF_vars(turn = t /\ EndRead)

Spec == Init /\ [][Next]_vars /\ Fairness

----------------------------------------------------------------------------
TypeOK ==
  /\ mask \in [Chips -> SUBSET (0 .. 7)]
  /\ irr \in [Chips -> SUBSET (0 .. 7)] /\ isr \in [Chips -> SUBSET (0 .. 7)]
  /\ latched \in BOOLEAN /\ rtc_interrupt_occur \in BOOLEAN
  /\ regA \in 0 .. 255 /\ asked \in Nat
  /\ turn \in Terminals
  /\ mode \in [Terminals -> {"user", "waiting", "seen", "lost"}]
  /\ tail \in [Terminals -> 0 .. MaxTail]
  /\ ticked \in [Terminals -> BOOLEAN]

\* The 16 calls of disable_irq in i8259_init close every line that no enable_irq
\* opens again, as the comments of both say.
DisabledLinesAreMasked == \A irq \in Lines : Interrupts(irq) => irq \in {PIT_IRQ, KEYBOARD_IRQ, RTC_IRQ}

\* On the master it is so: whatever devices raise, and whatever the open lines of
\* the slave have done, its lines only interrupt through gates with a handler.
MasterLinesGated ==
  \A irq \in Lines : Interrupts(irq) /\ Chip(irq) = "master" => Vector(irq) \in Gates

\* No rtc_read returns on a tick that came before it was called, though the flag
\* is one for all processes and is set in anybody's turn.
ReadSawTick == \A t \in Terminals : mode[t] = "seen" => ticked[t]

\* The clock runs at the frequency of the last rtc_open or rtc_write that
\* returned 0: 32768 >> (rate - 1), as rtc_init computes it.
RateAsAsked == asked = 2 ^ 15 \div 2 ^ ((regA % 16) - 1)

\* A process that is the only one to read the clock always returns: end of
\* interrupt, register C and the flag are all seen to, whoever is interrupted.
\* A line without a gate, which nobody ends, blocks the slave's for good.
LoneReaderReturns ==
  \A t \in Terminals :
    <>[](\A u \in Terminals \ {t} : mode[u] = "user") => (mode[t] = "waiting" ~> mode[t] \in {"user", "lost"})

\* Processes that read the clock together share one flag and clear it under each
\* other, but never so that all of them wait for ever, unless a line without a
\* gate has blocked the clock's.
SomeReaderReturns ==
  (\E t \in Terminals : mode[t] = "waiting") ~> (\E t \in Terminals : mode[t] \in {"seen", "lost"})
=============================================================================
