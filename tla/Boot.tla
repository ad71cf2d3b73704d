-------------------------------- MODULE Boot --------------------------------
(***************************************************************************)
(* From _init_multiple_terminal to a shell on every terminal.  Each boot   *)
(* process enters sche_main by an iret with EFLAGS 0x202                   *)
(* (scheduler_asm_helper.S:54-74), so its first execute, unlike every      *)
(* later one, can be interrupted between any two statements; it is split   *)
(* here wherever another process or handler can see the difference.  What  *)
(* runs once a shell is entered is Process.                                *)
(***************************************************************************)
EXTENDS Process

CONSTANT
  Preempted   \* may an interrupt arrive inside a first execute?  TRUE is the
              \* code; FALSE is a boot in which none happens to.

ASSUME PreemptedAssumption == Preempted \in BOOLEAN

VARIABLES
  at,      \* per boot process, the statement of execute it is about to run
  child    \* per boot process, its local childpid

bootVars == <<at, child>>

\* In the order of execute: get_new_pid looks for a pid and takes it, open and
\* file_check, the PCB of the child, sche_list, loader and close, tss.esp0,
\* asm_exec_end; "done" once the shell has been entered.
Statements == {"find", "occupy", "open", "pcb", "list", "load", "tss", "enter", "done"}

Booting(p) == p \in BootPids /\ at[p] # "done"
Booted     == \A b \in BootPids : at[b] = "done"

\* What _init_multiple_terminal leaves behind after switching to process 1.
BootInit ==
  /\ pid_table = {0} \cup BootPids
  /\ parent_pid = [p \in Pids |-> 0]
  /\ noterminal = [p \in Pids |-> IF p \in BootPids THEN p ELSE 0]
  /\ visible = [p \in Pids |-> p = 1]
  /\ fd_flags = [p \in Pids |-> IF p \in BootPids THEN StdFds ELSE {}]
  /\ kesp = [p \in Pids |-> IF p = 0 THEN "scheduler" ELSE IF p = 1 THEN "popped"
                            ELSE IF p \in BootPids THEN "init" ELSE "null"]
  /\ sche_list = [t \in Terminals |-> t]
  /\ cur_sche_node = 1
  /\ nowterminalno = 1
  /\ cpu = 1
  /\ page128 = 0
  /\ esp0 = 1
  /\ checking = [p \in Pids |-> NoPid]
  /\ handed = [p \in Pids |-> {}]
  /\ at = [b \in BootPids |-> "find"]
  /\ child = [b \in BootPids |-> NoPid]

Step(from, to) == at[cpu] = from /\ at' = [at EXCEPT ![cpu] = to]

\* get_new_pid tests an entry and fills it in the next statement; with no entry
\* free execute returns 1 and sche_main calls it again.
Find ==
  /\ Step("find", "occupy")
  /\ \E pid \in FreePids : GetNewPid(pid) /\ child' = [child EXCEPT ![cpu] = pid]
  /\ UNCHANGED vars

FindNone ==
  /\ at[cpu] = "find"
  /\ FreePids = {}
  /\ UNCHANGED <<vars, bootVars>>

Occupy ==
  /\ Step("occupy", "open")
  /\ pid_table' = pid_table \cup {child[cpu]}
  /\ UNCHANGED <<pcbs, sche_list, nowterminalno, run, checking, child>>

OpenShell ==
  /\ Step("open", "pcb")
  /\ fd_flags' = [fd_flags EXCEPT ![cpu] = @ \cup {2}]
  /\ UNCHANGED <<pid_table, parent_pid, noterminal, visible, kesp, handed,
                 sche_list, nowterminalno, run, checking, child>>

FillPcb ==
  /\ Step("pcb", "list")
  /\ LET c == child[cpu] IN
       /\ parent_pid' = [parent_pid EXCEPT ![c] = cpu]
       /\ noterminal' = [noterminal EXCEPT ![c] = noterminal[cpu]]
       /\ visible' = VisibleAfterExecute(c)
       /\ fd_flags' = [fd_flags EXCEPT ![c] = {}]
       /\ kesp' = [kesp EXCEPT ![c] = "null"]
       /\ handed' = [handed EXCEPT ![c] = {}]
  /\ UNCHANGED <<pid_table, sche_list, nowterminalno, run, checking, child>>

List ==
  /\ Step("list", "load")
  /\ sche_list' = [sche_list EXCEPT ![noterminal[cpu]] = child[cpu]]
  /\ UNCHANGED <<pid_table, pcbs, nowterminalno, run, checking, child>>

Load_NoCloseBug ==
  /\ Step("load", "tss")
  /\ page128' = child[cpu]
  /\ fd_flags' = [fd_flags EXCEPT ![child[cpu]] = StdFds]
  /\ UNCHANGED <<pid_table, parent_pid, noterminal, visible, kesp, handed,
                 sche_list, nowterminalno, cur_sche_node, cpu, esp0, checking, child>>
Load ==
  /\ Step("load", "tss")
  /\ page128' = child[cpu]
  /\ fd_flags' = [fd_flags EXCEPT ![child[cpu]] = StdFds, ![cpu] = @ \ {2}]
  /\ UNCHANGED <<pid_table, parent_pid, noterminal, visible, kesp, handed,
                 sche_list, nowterminalno, cur_sche_node, cpu, esp0, checking, child>>

SetTss_Bug == Step("tss", "enter") /\ UNCHANGED <<vars, child>>
SetTss ==
  /\ Step("tss", "enter")
  /\ esp0' = child[cpu]
  /\ UNCHANGED <<pid_table, pcbs, sche_list, nowterminalno, cur_sche_node, cpu, page128,
                 checking, child>>

Enter ==
  /\ Step("enter", "done")
  /\ kesp' = [kesp EXCEPT ![cpu] = "execute"]
  /\ cpu' = child[cpu]
  /\ UNCHANGED <<pid_table, parent_pid, noterminal, visible, fd_flags, handed,
                 sche_list, nowterminalno, cur_sche_node, page128, esp0, checking, child>>

\* A handler that runs over a first execute.
MayInterrupt == Preempted \/ at[cpu] = "find"

BootTick == MayInterrupt /\ Schedule /\ UNCHANGED bootVars

BootShow == MayInterrupt /\ (\E no \in Terminals : ShowTerminal(no)) /\ UNCHANGED bootVars

ExecuteShell == Find \/ FindNone \/ Occupy \/ OpenShell \/ FillPcb \/ List \/ Load \/ SetTss \/ Enter

BootNext ==
  \/ Booting(cpu) /\ (ExecuteShell \/ BootTick \/ BootShow)
  \/ ~Booting(cpu) /\ Next /\ UNCHANGED bootVars

BootSpec == BootInit /\ [][BootNext]_<<vars, bootVars>>
-----------------------------------------------------------------------------
(* Properties *)

BootTypeOK == TypeOK /\ at \in [BootPids -> Statements] /\ child \in [BootPids -> Pids \cup {NoPid}]

\* Once every terminal has its shell the state is one Process' theorems are
\* about, whatever the first shells did while the others were still starting.
BootsIntoProcess == Booted => IInv

\* Before that, a shell that runs has its own stack in tss.esp0 and its own page
\* mapped although sche_main processes without either share the ring with it,
\* and Alt-Fn between two first executes finds the right process to show.
StartedShellsAreSafe ==
  /\ cpu \notin BootPids => RunningContext
  /\ ~Booting(cpu) \/ at[cpu] = "find" => VisibleIsForeground

\* "do saving old esp and stack switch back" (scheduler.c:76): a terminal that
\* waits for its turn has a stack the scheduler can switch back to.
WaitingHaveStacks ==
  \A t \in Terminals \ {cur_sche_node} : kesp[sche_list[t]] \in {"init", "scheduler"}

\* "get the smallest available pid (not in use in pid_table)" (PCB.c:35): two
\* processes never take the same pid.
PidsAreUnique ==
  \A b, c \in BootPids :
    b # c /\ {at[b], at[c]} \subseteq {"open", "pcb", "list", "load", "tss", "enter"}
      => child[b] # child[c]
=============================================================================
