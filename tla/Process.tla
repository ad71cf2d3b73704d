------------------------------ MODULE Process ------------------------------
(***************************************************************************)
(* Processes, descriptors and the scheduler: execute, halt, open, close,   *)
(* the PIT handler and Alt-Fn, over the PCBs, sche_list, the 128 MB page,  *)
(* tss.esp0 and the saved kernel stacks.                                   *)
(*                                                                         *)
(* The module starts once every terminal runs its first shell; how the     *)
(* kernel gets there is module Boot.  From then on a system call runs with *)
(* IF = 0 (idt.c:31-42) from its entry to its iret, so each is one step;   *)
(* the one exception reached from execute, rtc_read's wait (rtc.c:91-96),  *)
(* splits execute in two.                                                  *)
(***************************************************************************)
EXTENDS Integers

CONSTANTS
  MaxPnum,      \* MAX_PNUM (PCB.h:13), the size of pid_table
  NumTerminal,  \* NUMTERMINAL, the length of sche_list
  MaxFd         \* MAX_FD (PCB.h:14), the size of fd_array

\* scheduler_asm is handed the next process' kesp before the current one is
\* saved, so the ring needs two nodes; pid 0 booted the machine, every
\* terminal has its sche_main and its shell; descriptors 0 and 1 are taken.
ASSUME ConstantsAssumption ==
  /\ NumTerminal \in Nat /\ NumTerminal >= 2
  /\ MaxPnum \in Nat /\ MaxPnum > 2 * NumTerminal
  /\ MaxFd \in Nat /\ MaxFd >= 3

Pids      == 0 .. MaxPnum - 1
Terminals == 1 .. NumTerminal          \* noterminal; sche_list[t-1] in C
BootPids  == 1 .. NumTerminal          \* boot pid t runs sche_main of terminal t
Fds       == 0 .. MaxFd - 1
StdFds    == {0, 1}
NoPid     == MaxPnum                   \* no child pid is held

\* What a saved kesp points at: the frame boot builds for sche_main, a frame of
\* asm_exec_end, one of scheduler_asm, the NULL of init_PCB, or a frame already
\* popped.
Frames == {"init", "execute", "scheduler", "null", "popped"}

\* What the first word of a command line names.
Commands == {"empty", "missing", "text", "rtc", "exe"}

VARIABLES
  pid_table,      \* the occupied pids
  parent_pid, noterminal, visible,
  fd_flags,       \* per process, the descriptors whose flags are 1
  kesp,
  sche_list,      \* per terminal, the process the scheduler runs
  cur_sche_node,
  nowterminalno,  \* the terminal on the screen (from 1 here)
  cpu,            \* the process whose kernel stack is in use: get_PCB()
  page128,        \* the process whose frame is mapped at 128 MB
  esp0,           \* the process whose kernel stack tss.esp0 names
  checking,       \* the child pid an execute holds while file_check waits
  handed          \* history: the descriptors open returned to the program

pcbs == <<parent_pid, noterminal, visible, fd_flags, kesp, handed>>
run  == <<cur_sche_node, cpu, page128, esp0>>
vars == <<pid_table, pcbs, sche_list, nowterminalno, run, checking>>
----------------------------------------------------------------------------
\* The names ending in _Bug are faulty variants: each is a definition of this
\* section as a plausible mistake would have it, and the properties below are
\* checked to notice.
FreePids_SizeBug == (0 .. MaxPnum) \ pid_table
FreePids_ForegroundBug == Pids \ ({0} \cup BootPids \cup {sche_list[t] : t \in Terminals})
FreePids == Pids \ pid_table

\* get_new_pid returns (and its caller occupies) the smallest free pid.
GetNewPid(pid) == pid \in FreePids /\ \A i \in FreePids : pid <= i

GiveupPid_Bug(pid) == pid_table
\* giveup_pid.
GiveupPid(pid) == pid_table \ {pid}

FreeFd_UsedBug(p, fd) == fd \in Fds /\ fd = 2
\* open takes the smallest free descriptor from 2.
FreeFd(p, fd) ==
  /\ fd \in Fds \ fd_flags[p] /\ fd >= 2
  /\ \A i \in Fds : i >= 2 /\ i < fd => i \in fd_flags[p]

SwitchTo_NoTssBug(p) == page128' = p /\ esp0' = esp0 /\ cpu' = p
\* The 128 MB page, tss.esp0 and the kernel stack all go to process p.
SwitchTo(p) == page128' = p /\ esp0' = p /\ cpu' = p

Shells == NumTerminal + 1 .. 2 * NumTerminal

\* The state left by boot: pid t runs sche_main of terminal t, which waits in
\* execute for the shell NumTerminal + t; the last shell has just been entered.
Init ==
  /\ pid_table = {0} \cup BootPids \cup Shells
  /\ parent_pid = [p \in Pids |-> IF p \in Shells THEN p - NumTerminal ELSE 0]
  /\ noterminal = [p \in Pids |-> IF p \in BootPids THEN p
                                  ELSE IF p \in Shells THEN p - NumTerminal ELSE 0]
  /\ visible = [p \in Pids |-> p = NumTerminal + 1]
  /\ fd_flags = [p \in Pids |-> IF p \in BootPids \cup Shells THEN StdFds ELSE {}]
  /\ kesp = [p \in Pids |-> IF p \in BootPids THEN "execute"
                            ELSE IF p \in ({0} \cup Shells) \ {2 * NumTerminal}
                            THEN "scheduler" ELSE "null"]
  /\ sche_list = [t \in Terminals |-> NumTerminal + t]
  /\ cur_sche_node = NumTerminal
  /\ nowterminalno = 1
  /\ cpu = 2 * NumTerminal
  /\ page128 = 2 * NumTerminal
  /\ esp0 = 2 * NumTerminal
  /\ checking = [p \in Pids |-> NoPid]
  /\ handed = [p \in Pids |-> {}]
----------------------------------------------------------------------------
\* A process that can issue the next system call, or be ended by a signal on
\* its way back to user mode.  A boot process only ever executes the shell.
InUserMode(p) == p \notin BootPids /\ checking[p] = NoPid

MayExecute(p, cmd) ==
  /\ checking[p] = NoPid
  /\ p \in BootPids => cmd = "exe"

\* execute returns without a trace: no pid, an empty command, an unknown file
\* or no descriptor to open it with (the pid taken for the child is returned).
ExecuteFails(cmd) ==
  /\ MayExecute(cpu, cmd)
  /\ \/ FreePids = {}
     \/ cmd \in {"empty", "missing"}
     \/ ~ \E fd \in Fds : FreeFd(cpu, fd)
  /\ UNCHANGED vars

\* A file that is no program: the pid is returned, the descriptor is not.
ExecuteNoProgram ==
  /\ MayExecute(cpu, "text")
  /\ FreePids # {}
  /\ \E fd \in Fds : FreeFd(cpu, fd) /\ fd_flags' = [fd_flags EXCEPT ![cpu] = @ \cup {fd}]
  /\ UNCHANGED <<pid_table, parent_pid, noterminal, visible, kesp, handed,
                 sche_list, nowterminalno, run, checking>>

\* The RTC device is no program either, but file_check waits in rtc_read, with
\* interrupts on, while execute holds the child's pid ...
ExecuteRtc ==
  /\ MayExecute(cpu, "rtc")
  /\ \E pid \in FreePids : /\ GetNewPid(pid)
                           /\ pid_table' = pid_table \cup {pid}
                           /\ checking' = [checking EXCEPT ![cpu] = pid]
  /\ \E fd \in Fds : FreeFd(cpu, fd) /\ fd_flags' = [fd_flags EXCEPT ![cpu] = @ \cup {fd}]
  /\ UNCHANGED <<parent_pid, noterminal, visible, kesp, handed,
                 sche_list, nowterminalno, run>>

\* ... until the waiting process sees an RTC interrupt, and gives it up.
RtcReadReturns ==
  /\ checking[cpu] # NoPid
  /\ pid_table' = GiveupPid(checking[cpu])
  /\ checking' = [checking EXCEPT ![cpu] = NoPid]
  /\ UNCHANGED <<pcbs, sche_list, nowterminalno, run>>

FdsAfterLoad_NoCloseBug(p, fd) == fd_flags[p] \cup {fd}
\* The caller's descriptors after execute: the one that loaded the image is
\* closed again.
FdsAfterLoad(p, fd) == (fd_flags[p] \cup {fd}) \ {fd}

VisibleAfterExecute_Bug(child) == [visible EXCEPT ![child] = visible[cpu]]
\* visible moves from the caller to the child.
VisibleAfterExecute(child) == [visible EXCEPT ![child] = visible[cpu], ![cpu] = FALSE]

\* The PCBs of caller and child when execute hands the terminal over.
ExecutePcbs(child, fd) ==
  /\ parent_pid' = [parent_pid EXCEPT ![child] = cpu]
  /\ noterminal' = [noterminal EXCEPT ![child] = noterminal[cpu]]
  /\ visible' = VisibleAfterExecute(child)
  /\ fd_flags' = [fd_flags EXCEPT ![child] = StdFds, ![cpu] = FdsAfterLoad(cpu, fd)]
  /\ kesp' = [kesp EXCEPT ![child] = "null", ![cpu] = "execute"]
  /\ handed' = [handed EXCEPT ![child] = {}]

\* The child takes the caller's place in sche_list and is entered in user mode.
ExecuteProgram ==
  /\ MayExecute(cpu, "exe")
  /\ \E child \in FreePids, fd \in Fds :
       /\ GetNewPid(child)
       /\ FreeFd(cpu, fd)
       /\ pid_table' = pid_table \cup {child}
       /\ ExecutePcbs(child, fd)
       /\ sche_list' = [sche_list EXCEPT ![noterminal[cpu]] = child]
       /\ SwitchTo(child)
  /\ UNCHANGED <<cur_sche_node, nowterminalno, checking>>

\* What close(0..MAX_FD-1) leaves: it refuses descriptors 0 and 1.
FdsAfterHalt(p) == fd_flags[p] \cap StdFds

ForegroundAfterHalt_Bug(pp) == sche_list
\* sche_list after the caller has given the terminal back to its parent.
ForegroundAfterHalt(pp) == [sche_list EXCEPT ![noterminal[pp]] = pp]

\* halt by system call, or by the default handler of a signal: the parent gets
\* the terminal back and continues inside the execute that started the child.
Halt ==
  /\ InUserMode(cpu)
  /\ LET pp == parent_pid[cpu] IN
       /\ fd_flags' = [fd_flags EXCEPT ![cpu] = FdsAfterHalt(cpu)]
       /\ visible' = [visible EXCEPT ![pp] = visible[cpu]]
       /\ sche_list' = ForegroundAfterHalt(pp)
       /\ pid_table' = GiveupPid(cpu)
       /\ kesp' = [kesp EXCEPT ![pp] = "popped"]
       /\ SwitchTo(pp)
  /\ UNCHANGED <<parent_pid, noterminal, handed, cur_sche_node, nowterminalno, checking>>

Open ==
  /\ InUserMode(cpu)
  /\ \E fd \in Fds : /\ FreeFd(cpu, fd)
                     /\ fd_flags' = [fd_flags EXCEPT ![cpu] = @ \cup {fd}]
                     /\ handed' = [handed EXCEPT ![cpu] = @ \cup {fd}]
  /\ UNCHANGED <<pid_table, parent_pid, noterminal, visible, kesp,
                 sche_list, nowterminalno, run, checking>>

Close ==
  /\ InUserMode(cpu)
  /\ \E fd \in fd_flags[cpu] \ StdFds :
       /\ fd_flags' = [fd_flags EXCEPT ![cpu] = @ \ {fd}]
       /\ handed' = [handed EXCEPT ![cpu] = @ \ {fd}]
  /\ UNCHANGED <<pid_table, parent_pid, noterminal, visible, kesp,
                 sche_list, nowterminalno, run, checking>>
----------------------------------------------------------------------------
\* Interrupts.  A boot process comes back from halt with IF = 0 and keeps it
\* until its next shell is entered, so no handler runs over it.
InterruptsOn == cpu \notin BootPids

NextNode_Bug(t) == IF t >= NumTerminal - 1 THEN 1 ELSE t + 1
NextNode(t) == IF t = NumTerminal THEN 1 ELSE t + 1

KespAfterSwitch_Bug(next) == [kesp EXCEPT ![next] = "scheduler"]
\* scheduler_asm saves the running stack and pops the frame of the next one.
KespAfterSwitch(next) == [kesp EXCEPT ![cpu] = "scheduler", ![next] = "popped"]

\* The PIT handler: round robin over the terminals.
Schedule ==
  /\ LET next == sche_list[NextNode(cur_sche_node)] IN
       /\ cur_sche_node' = NextNode(cur_sche_node)
       /\ kesp' = KespAfterSwitch(next)
       /\ SwitchTo(next)
  /\ UNCHANGED <<pid_table, parent_pid, noterminal, visible, fd_flags, handed,
                 sche_list, nowterminalno, checking>>

Tick == InterruptsOn /\ Schedule

\* Alt-F1..F3 in the keyboard handler: the terminal on the screen.
ShowTerminal(no) ==
  /\ nowterminalno' = no
  /\ visible' = [visible EXCEPT ![sche_list[nowterminalno]] = FALSE, ![sche_list[no]] = TRUE]
  /\ UNCHANGED <<pid_table, parent_pid, noterminal, fd_flags, kesp, handed,
                 sche_list, run, checking>>

AltFn(no) == InterruptsOn /\ ShowTerminal(no)

Next ==
  \/ \E cmd \in Commands : ExecuteFails(cmd)
  \/ ExecuteNoProgram
  \/ ExecuteRtc
  \/ RtcReadReturns
  \/ ExecuteProgram
  \/ Halt
  \/ Open
  \/ Close
  \/ Tick
  \/ \E no \in Terminals : AltFn(no)

\* The PIC keeps a PIT interrupt pending until IF is set again, so a handler
\* enabled again and again does run; the code of sche_main is never stopped.
Fairness == SF_vars(Tick) /\ WF_vars(cpu \in BootPids /\ ExecuteProgram)

Spec == Init /\ [][Next]_vars /\ Fairness
----------------------------------------------------------------------------

(* Properties *)

TypeOK ==
  /\ pid_table \subseteq Pids
  /\ parent_pid \in [Pids -> Pids]
  /\ noterminal \in [Pids -> Terminals \cup {0}]
  /\ visible \in [Pids -> BOOLEAN]
  /\ fd_flags \in [Pids -> SUBSET Fds]
  /\ kesp \in [Pids -> Frames]
  /\ sche_list \in [Terminals -> Pids]
  /\ cur_sche_node \in Terminals
  /\ nowterminalno \in Terminals
  /\ cpu \in Pids
  /\ page128 \in Pids
  /\ esp0 \in Pids
  /\ checking \in [Pids -> Pids \cup {NoPid}]
  /\ handed \in [Pids -> SUBSET Fds]

Held == {checking[p] : p \in Pids} \ {NoPid}

\* The processes: occupied pids other than pid 0 and the ones execute holds.
Live == pid_table \ (Held \cup {0})

\* The CPU belongs to the process sche_list names for the current node, and the
\* stack the next interrupt is taken on and the user page are that process'
\* (scheduler, execute and halt each set them by hand).
RunningContext ==
  /\ cpu = sche_list[cur_sche_node]
  /\ esp0 = cpu
  /\ page128 = cpu

\* Exactly the foreground process of the terminal on the screen is visible,
\* whatever execute, halt and Alt-Fn do in between.
VisibleIsForeground ==
  \A p \in Live : visible[p] <=> p = sche_list[nowterminalno]

\* scheduler_asm and asm_halt_return each pop the frame they expect: a process
\* that waits for its turn has a scheduler_asm frame saved, one that waits for
\* its child an asm_exec_end frame.
SavedContexts ==
  /\ \A t \in Terminals \ {cur_sche_node} : kesp[sche_list[t]] = "scheduler"
  /\ \A p \in Live : p # sche_list[noterminal[p]] => kesp[p] = "execute"

\* When sche_main restarts a shell it runs with IF = 0: if execute failed the
\* machine would loop there for good, so there is a pid and a descriptor for it.
RestartHasRoom ==
  cpu \in BootPids => FreePids # {} /\ \E fd \in Fds : FreeFd(cpu, fd)

\* A descriptor open gave to a program stays open until the program closes it,
\* although execute borrows and closes one in the same fd_array.
HandedStayOpen == \A p \in Live : StdFds \cup handed[p] \subseteq fd_flags[p]

\* A program that holds no descriptor can always load another one: execute
\* closes the descriptor it loads with "or we can just execute at most 9 times"
\* (Bug_log_jjl.txt:22).  It does not on every path: ExecuteNoProgram.
CanAlwaysLoad ==
  InUserMode(cpu) /\ handed[cpu] = {} => \E fd \in Fds : FreeFd(cpu, fd)

\* No step changes what a process of another terminal than the running one is:
\* its existence, its family, its descriptors or its place in sche_list.
Isolation ==
  [][/\ \A t \in Terminals \ {cur_sche_node} : sche_list'[t] = sche_list[t]
     /\ \A p \in Live : noterminal[p] # cur_sche_node =>
          /\ p \in Live'
          /\ parent_pid'[p] = parent_pid[p]
          /\ noterminal'[p] = noterminal[p]
          /\ fd_flags'[p] = fd_flags[p]]_vars

\* Every terminal gets the CPU again and again, whatever the programs do.
EveryTerminalRuns == \A t \in Terminals : []<>(cur_sche_node = t)
-----------------------------------------------------------------------------
\* Who is alive and how the live processes are related: a terminal runs one of
\* its own; a parent lives, belongs to the same terminal, is not the process
\* that runs there, and has one child.
Family ==
  /\ BootPids \subseteq Live
  /\ 0 \in pid_table
  /\ \A t \in BootPids : noterminal[t] = t
  /\ \A p \in Live : noterminal[p] \in Terminals
  /\ \A t \in Terminals : sche_list[t] \in Live /\ noterminal[sche_list[t]] = t
  /\ \A p \in Live \ BootPids :
       /\ parent_pid[p] \in Live
       /\ noterminal[parent_pid[p]] = noterminal[p]
       /\ parent_pid[p] # sche_list[noterminal[p]]
  /\ \A p, q \in Live \ BootPids : parent_pid[p] = parent_pid[q] => p = q

\* A pid is held by at most one process, a program, and that program is the one
\* its terminal runs.
Holding ==
  /\ \A p \in Pids : checking[p] # NoPid =>
       /\ p \in Live \ BootPids
       /\ p = sche_list[noterminal[p]]
       /\ checking[p] \in pid_table \ ({0} \cup BootPids)
  /\ \A p, q \in Pids : checking[p] = checking[q] => p = q \/ checking[p] = NoPid

\* sche_main never keeps a descriptor; it runs only to restart a shell, before
\* the turn leaves its terminal, and then there is a pid.
Room ==
  /\ \A t \in BootPids : fd_flags[t] = StdFds
  /\ \A t \in Terminals \ {cur_sche_node} : sche_list[t] \notin BootPids
  /\ cpu \in BootPids => FreePids # {}

\* The inductive invariant: from any state that satisfies it, and not only from
\* Init, every step of this module leads to one that does.
IInv ==
  /\ TypeOK
  /\ Family
  /\ Holding
  /\ RunningContext
  /\ VisibleIsForeground
  /\ SavedContexts
  /\ Room
  /\ HandedStayOpen
=============================================================================
