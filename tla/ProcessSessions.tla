-------------------------- MODULE ProcessSessions --------------------------
(***************************************************************************)
(* Process implements Sessions: the stack of a terminal is read off        *)
(* sche_list and parent_pid.                                               *)
(***************************************************************************)
EXTENDS Process, Sequences, SequencesExt

\* The processes from the first boot process among the ancestors of a process
\* down to it; no family is longer than the table of pids.
Ancestry(process, parent) ==
  LET up[n \in 0 .. MaxPnum] ==
        [p \in Pids |-> IF n = 0 \/ p \in BootPids \cup {0} THEN <<p>>
                        ELSE Append(up[n - 1][parent[p]], p)]
  IN up[MaxPnum][process]

\* The processes of terminal t from its sche_main to its foreground process.
Stack(t) == Ancestry(sche_list[t], parent_pid)

\* The live processes are one stack per terminal that ends in its own
\* sche_main, and every occupied pid is pid 0, live, or held by one execute:
\* execute and halt leak no pid, share none and orphan no process.
ProcessTree ==
  /\ \A t \in Terminals : /\ Head(Stack(t)) = t
                          /\ IsInjective(Stack(t))
                          /\ \A p \in ToSet(Stack(t)) : noterminal[p] = t
  /\ Live = UNION {ToSet(Stack(t)) : t \in Terminals}
  /\ Held \subseteq pid_table
  /\ \A p, q \in Pids : checking[p] = checking[q] => p = q \/ checking[p] = NoPid

\* Process keeps the promise of Sessions: execute pushes, halt pops, only the
\* process on top runs, and a terminal has a new shell before the turn leaves.
SessionsView == INSTANCE Sessions WITH
  stack <- [t \in Terminals |-> Stack(t)], turn <- cur_sche_node, shown <- nowterminalno
SessionsSpec == SessionsView!Spec
=============================================================================
