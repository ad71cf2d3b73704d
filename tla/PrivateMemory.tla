--------------------------- MODULE PrivateMemory ---------------------------
(***************************************************************************)
(* What paging promises to a program: four megabytes that only it reads    *)
(* and writes, whoever runs in between, filled with the image it was       *)
(* executed from, and the arguments its parent had in its own memory.      *)
(***************************************************************************)
EXTENDS Naturals, Sequences, SequencesExt

CONSTANTS Terminals, Pids, Images, Values

VARIABLES
  mem,    \* per process, what its memory holds
  args,   \* per process, the arguments it was executed with
  seen,   \* what the last read of a program returned
  chain,  \* per terminal, its processes from the boot process to the top
  turn    \* the terminal whose process runs

vars == <<mem, args, seen, chain, turn>>

Live    == UNION {Range(chain[t]) : t \in Terminals}
Running == Last(chain[turn])
InUser  == Len(chain[turn]) > 1

Init ==
  /\ mem = [p \in Pids |-> "none"] /\ args = [p \in Pids |-> "none"]
  /\ seen = "none"
  /\ chain = [t \in Terminals |-> <<t>>]
  /\ turn = 1

Write(v) == InUser /\ mem' = [mem EXCEPT ![Running] = v] /\ UNCHANGED <<args, seen, chain, turn>>
Read     == InUser /\ seen' = mem[Running] /\ UNCHANGED <<mem, args, chain, turn>>

\* A boot process executes the shell that the kernel names.
Execute(child, image) ==
  /\ child \in Pids \ Live
  /\ args' = [args EXCEPT ![child] = IF InUser THEN mem[Running] ELSE "shell"]
  /\ mem' = [mem EXCEPT ![child] = image]
  /\ chain' = [chain EXCEPT ![turn] = Append(@, child)]
  /\ UNCHANGED <<seen, turn>>

Halt ==
  /\ InUser
  /\ chain' = [chain EXCEPT ![turn] = Front(@)]
  /\ UNCHANGED <<mem, args, seen, turn>>

Tick == turn' \in Terminals /\ UNCHANGED <<mem, args, seen, chain>>

Next ==
  \/ \E v \in Values : Write(v)
  \/ Read
  \/ \E child \in Pids, image \in Images : Execute(child, image)
  \/ Halt
  \/ Tick

Spec == Init /\ [][Next]_vars
=============================================================================
