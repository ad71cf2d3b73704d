------------------------------ MODULE Signals ------------------------------
(***************************************************************************)
(* Signals: who sends them (exceptions, Ctrl-C, the alarm in the PIT       *)
(* handler), what check_signal does with them on every way back to user    *)
(* mode, set_handler and sigreturn.  Processes, their terminals and the    *)
(* turn are those of Sessions, which Process implements.                   *)
(*                                                                         *)
(* Nothing calls signal_mask or signal_unmask, so a mask is empty or full. *)
(***************************************************************************)
EXTENDS Integers, FiniteSets, Sequences, SequencesExt

CONSTANTS
  Pids, NumTerminal,
  Raised,      \* the signals that occur, of DIV_ZERO 0, SEGFAULT 1, INTERRUPT 2, ALARM 3
  Exceptions,  \* the vectors of the exceptions programs run into
  Catchable,   \* the signals programs set a handler for
  AlarmTicks   \* how many ticks bring alarm_time past ALARM_TIME: 770 of 13 ms

ASSUME SignalsAssumption ==
  /\ NumTerminal \in Nat \ {0} /\ 1 .. 2 * NumTerminal \subseteq Pids
  /\ Raised \subseteq 0 .. 3 /\ Catchable \subseteq Raised
  /\ Exceptions \subseteq 0 .. 19
  /\ 0 \in Exceptions => 0 \in Raised
  /\ Exceptions \ {0} # {} => 1 \in Raised
  /\ AlarmTicks \in Nat \ {0}

DIV_ZERO  == 0
SEGFAULT  == 1
INTERRUPT == 2
ALARM     == 3
Faults    == {DIV_ZERO, SEGFAULT}

VARIABLES
  stack, turn, shown,   \* as in Sessions
  pending_signal, mask, prev_mask, alarm_time,
  caught,    \* per process, the signals with a handler of the program's
  mode,      \* per process, what it is doing, or was when it lost the CPU
  handling   \* per process, the handlers that have not returned

Sessions  == INSTANCE Sessions
Terminals == Sessions!Terminals
BootPids  == Terminals
Live      == Sessions!InUse
Top(t)    == Last(stack[t])
cpu       == Top(turn)

sessions == <<stack, turn, shown>>
signals  == <<pending_signal, mask, prev_mask, alarm_time, caught, handling>>
vars     == <<sessions, signals, mode>>

\* user: in user mode; exit: in the kernel with IF = 0 and on its way to user
\* mode, check_signal still to come; open: the same with IF = 1; checked: past
\* the check_signal that restored IF = 1, before the iret; wait: in the wait
\* loop of a system call; parent: waiting in execute; boot: sche_main; lost: in
\* an iret that faults over and over; none: no process has this pid.
Modes == {"user", "exit", "open", "checked", "wait", "parent", "boot", "lost", "none"}

Init ==
  /\ Sessions!Init
  /\ pending_signal = [p \in Pids |-> {}]
  /\ mask = [p \in Pids |-> {}]
  /\ prev_mask = [p \in Pids |-> {}]
  /\ alarm_time = [p \in Pids |-> 0]
  /\ caught = [p \in Pids |-> {}]
  /\ mode = [p \in Pids |-> IF p \in BootPids THEN "boot"
                            ELSE IF p = 2 * NumTerminal THEN "user"
                            ELSE IF p \in Live THEN "exit" ELSE "none"]
  /\ handling = [p \in Pids |-> 0]
-----------------------------------------------------------------------------
(* Sending *)

InterruptsOn == mode[cpu] \in {"user", "open", "checked", "wait", "lost"}

\* An interrupt taken in user mode has check_signal on its way back, whenever
\* its process gets the CPU again; one taken in the kernel has not.
Interrupted == mode' = [mode EXCEPT ![cpu] = IF @ = "user" THEN "exit" ELSE @]

\* signal_send.
Send(p, s) == pending_signal' = [pending_signal EXCEPT ![p] = @ \cup {s}]

\* The vectors whose stub (INTR_LINKR) pushes a dummy over the error code the CPU
\* has pushed; Page_Fault has a stub of its own, which does not.
Shifted == {8, 10, 11, 12, 13, 17}

\* An exception goes through a trap gate: check_signal comes, but with IF = 1
\* until then.  In a shifted frame check_signal finds half of EIP for cs, takes
\* it for the kernel's and returns, and the iret pops the error code as EIP and
\* EIP as CS, which is a general protection fault in the kernel, with the same
\* end; so on, until the stack is full, which is not followed.
Exception ==
  /\ mode[cpu] = "user"
  /\ \E v \in Exceptions :
       /\ Send(cpu, IF v = 0 THEN DIV_ZERO ELSE SEGFAULT)
       /\ mode' = [mode EXCEPT ![cpu] = IF v \in Shifted THEN "lost" ELSE "open"]
  /\ UNCHANGED <<sessions, mask, prev_mask, alarm_time, caught, handling>>

CtrlC ==
  /\ InterruptsOn /\ INTERRUPT \in Raised
  /\ Send(Top(shown), INTERRUPT)
  /\ Interrupted
  /\ UNCHANGED <<sessions, mask, prev_mask, alarm_time, caught, handling>>

\* The PIT handler: the alarm clock of the process on the screen, and the turn.
Tick ==
  /\ InterruptsOn
  /\ Sessions!Rotate
  /\ LET p == Top(shown) IN
       IF ALARM \notin Raised THEN UNCHANGED <<alarm_time, pending_signal>>
       ELSE IF alarm_time[p] + 1 < AlarmTicks
       THEN /\ alarm_time' = [alarm_time EXCEPT ![p] = @ + 1]
            /\ UNCHANGED <<pending_signal>>
       ELSE alarm_time' = [alarm_time EXCEPT ![p] = 0] /\ Send(p, ALARM)
  /\ Interrupted
  /\ UNCHANGED <<mask, prev_mask, caught, handling>>

AltFn ==
  /\ InterruptsOn
  /\ Sessions!Show
  /\ Interrupted
  /\ UNCHANGED signals
-----------------------------------------------------------------------------
(* System calls *)

\* A system call, or an interrupt, that only passes through the kernel;
\* terminal_write ends with an sti.
Syscall ==
  /\ mode[cpu] = "user"
  /\ \E m \in {"exit", "open"} : mode' = [mode EXCEPT ![cpu] = m]
  /\ UNCHANGED <<sessions, signals>>

\* terminal_read or rtc_read waits with IF = 1, and returns.
Wait ==
  /\ mode[cpu] \in {"user", "wait"}
  /\ mode' = [mode EXCEPT ![cpu] = IF @ = "user" THEN "wait" ELSE "exit"]
  /\ UNCHANGED <<sessions, signals>>

\* set_handler with a handler, or with NULL.
SetHandler ==
  /\ mode[cpu] = "user"
  /\ \E s \in Catchable : \/ caught' = [caught EXCEPT ![cpu] = @ \cup {s}]
                          \/ caught' = [caught EXCEPT ![cpu] = @ \ {s}]
  /\ mode' = [mode EXCEPT ![cpu] = "exit"]
  /\ UNCHANGED <<sessions, pending_signal, mask, prev_mask, alarm_time, handling>>

signal_init_PendingBug(p) ==
  /\ mask' = [mask EXCEPT ![p] = {}]
  /\ alarm_time' = [alarm_time EXCEPT ![p] = 0]
  /\ caught' = [caught EXCEPT ![p] = {}]
  /\ UNCHANGED <<pending_signal, prev_mask>>
\* signal_init: prev_mask keeps what the last process with this pid left.
signal_init(p) ==
  /\ pending_signal' = [pending_signal EXCEPT ![p] = {}]
  /\ mask' = [mask EXCEPT ![p] = {}]
  /\ alarm_time' = [alarm_time EXCEPT ![p] = 0]
  /\ caught' = [caught EXCEPT ![p] = {}]
  /\ UNCHANGED prev_mask

\* execute; the child is entered without a check_signal.
Execute ==
  /\ mode[cpu] \in {"user", "boot"}
  /\ Sessions!Push
  /\ \E child \in Pids :
       /\ stack'[turn] = Append(stack[turn], child)
       /\ signal_init(child)
       /\ mode' = [mode EXCEPT ![child] = "user", ![cpu] = IF @ = "boot" THEN @ ELSE "parent"]
  /\ UNCHANGED handling

\* halt: the parent returns from its execute.
End ==
  /\ Sessions!Pop
  /\ mode' = [mode EXCEPT ![cpu] = "none", ![Last(Front(stack[turn]))] = IF @ = "boot" THEN @ ELSE "exit"]
  /\ handling' = [handling EXCEPT ![cpu] = 0]

Halt ==
  /\ mode[cpu] = "user"
  /\ End
  /\ UNCHANGED <<pending_signal, mask, prev_mask, alarm_time, caught>>

sigreturn_NoRestoreBug ==
  /\ mode[cpu] = "user" /\ handling[cpu] > 0
  /\ handling' = [handling EXCEPT ![cpu] = @ - 1]
  /\ mode' = [mode EXCEPT ![cpu] = "exit"]
  /\ UNCHANGED <<sessions, pending_signal, mask, prev_mask, alarm_time, caught>>
\* The handler returns into sigreturn_linkage; the context it interrupted comes
\* back, and check_signal is still on the way.
sigreturn ==
  /\ mode[cpu] = "user" /\ handling[cpu] > 0
  /\ handling' = [handling EXCEPT ![cpu] = @ - 1]
  /\ mask' = [mask EXCEPT ![cpu] = prev_mask[cpu]]
  /\ mode' = [mode EXCEPT ![cpu] = "exit"]
  /\ UNCHANGED <<sessions, pending_signal, prev_mask, alarm_time, caught>>
-----------------------------------------------------------------------------
(* check_signal *)

Deliverable_LoopBug(p) == {s \in pending_signal[p] \ mask[p] : s < INTERRUPT}
Deliverable(p) == pending_signal[p] \ mask[p]

Leaving == mode[cpu] \in {"exit", "open"}

\* check_signal returns: restore_flags brings back the IF it was called with.
Checked == mode' = [mode EXCEPT ![cpu] = IF @ = "open" THEN "checked" ELSE "user"]

\* The iret after a check_signal that was called with IF = 1.
Iret ==
  /\ mode[cpu] = "checked"
  /\ mode' = [mode EXCEPT ![cpu] = "user"]
  /\ UNCHANGED <<sessions, signals>>

NothingPending ==
  /\ Leaving /\ Deliverable(cpu) = {}
  /\ Checked
  /\ UNCHANGED <<sessions, signals>>

\* check_signal takes the smallest signal that is not masked, and forgets all
\* that are pending.
Take(s) ==
  /\ Leaving
  /\ s \in Deliverable(cpu) /\ \A other \in Deliverable(cpu) : s <= other
  /\ pending_signal' = [pending_signal EXCEPT ![cpu] = {}]
  /\ prev_mask' = [prev_mask EXCEPT ![cpu] = mask[cpu]]

\* The program's handler is entered, with every signal masked.
RunHandler ==
  /\ \E s \in caught[cpu] : Take(s)
  /\ mask' = [mask EXCEPT ![cpu] = Raised]
  /\ handling' = [handling EXCEPT ![cpu] = @ + 1]
  /\ Checked
  /\ UNCHANGED <<sessions, alarm_time, caught>>

\* The default handler of ALARM returns at once; the mask is restored.
Ignore ==
  /\ ALARM \notin caught[cpu] /\ Take(ALARM)
  /\ Checked
  /\ UNCHANGED <<sessions, mask, alarm_time, caught, handling>>

\* The others halt the process, with every signal masked.
Kill ==
  /\ \E s \in (Faults \cup {INTERRUPT}) \ caught[cpu] : Take(s)
  /\ mask' = [mask EXCEPT ![cpu] = Raised]
  /\ End
  /\ UNCHANGED <<alarm_time, caught>>

check_signal == NothingPending \/ RunHandler \/ Ignore \/ Kill

Next ==
  \/ Exception \/ CtrlC \/ Tick \/ AltFn
  \/ Syscall \/ Wait \/ SetHandler \/ Execute \/ Halt \/ sigreturn
  \/ check_signal \/ Iret

\* As in Process; and the kernel code on the way to user mode is not stopped.
Fairness == SF_vars(Tick) /\ WF_vars(check_signal) /\ WF_vars(mode[cpu] = "boot" /\ Execute)

Spec == Init /\ [][Next]_vars /\ Fairness
-----------------------------------------------------------------------------
(* Properties *)

SigTypeOK ==
  /\ pending_signal \in [Pids -> SUBSET Raised]
  /\ mask \in [Pids -> SUBSET Raised]
  /\ prev_mask \in [Pids -> SUBSET Raised]
  /\ alarm_time \in [Pids -> 0 .. AlarmTicks - 1]
  /\ caught \in [Pids -> SUBSET Catchable]
  /\ mode \in [Pids -> Modes]
  /\ handling \in [Pids -> Nat]

\* No user code runs past a fault: a process with one that can be delivered is on
\* its way to a check_signal that will take it, or is lost in the kernel, and
\* neither runs nor waits with it; a new program has no fault of an earlier one
\* with its pid.  (A Ctrl-C that comes between check_signal and the iret does wait
\* over user code.)
UserCodeStops ==
  \A p \in Pids : Deliverable(p) \cap Faults # {} => mode[p] \in {"exit", "open", "lost"}

\* "current exception is handled", says the comment over Print_exceptions: no
\* process is lost by one.  It is true as long as no exception has a shifted frame.
FaultsAreTaken ==
  \A p \in Pids : Deliverable(p) \cap Faults # {} => mode[p] \in {"exit", "open"}

\* A process' handlers do not interrupt one another, and all its signals are
\* masked exactly while one of them runs, however it is interrupted, whatever it
\* executes, and whatever signals come.
HandlersDoNotNest ==
  \A p \in Live \ BootPids :
    /\ handling[p] <= 1
    /\ mask[p] = (IF handling[p] = 1 THEN Raised ELSE {})

\* A Ctrl-C reaches its process once that is on its way to user mode, even if
\* it has to wait for its turn.
CtrlCIsTaken ==
  \A p \in Pids \ BootPids :
    (INTERRUPT \in pending_signal[p] /\ mask[p] = {} /\ mode[p] = "exit")
      ~> INTERRUPT \notin pending_signal[p]
=============================================================================
