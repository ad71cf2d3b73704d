--------------------------- MODULE Process_proofs ---------------------------
(***************************************************************************)
(* The safety properties of Process hold for every number of pids,         *)
(* terminals and descriptors that ConstantsAssumption allows: IInv is      *)
(* inductive and implies them.  With it, that the processes of a terminal  *)
(* are one line of descent is inductive too, and from that follow          *)
(* ProcessTree and that each step of Process is one of Sessions.           *)
(* The last section is about Boot: a boot in which no interrupt comes      *)
(* inside a first execute ends in a state the other theorems are about,    *)
(* whatever the shells that run already do in between.  (BootPreempted     *)
(* shows what such an interrupt does.)                                     *)
(***************************************************************************)
EXTENDS ProcessSessions, Boot, FiniteSetTheorems, WellFoundedInduction, TLAPS
-----------------------------------------------------------------------------
\* Membership in the sets of constants, in the arithmetic the provers need.
LEMMA ConstantFacts ==
  /\ Terminals = BootPids
  /\ BootPids \subseteq Pids
  /\ 0 \in Pids /\ 0 \notin BootPids
  /\ NoPid \notin Pids
  /\ StdFds \subseteq Fds /\ 2 \in Fds \ StdFds
  /\ \A p \in Pids : p \in Int
BY ConstantsAssumption DEF Terminals, BootPids, Pids, NoPid, StdFds, Fds

\* The next node of the ring is another terminal.
LEMMA NextNodeFacts ==
  ASSUME NEW t \in Terminals
  PROVE  NextNode(t) \in Terminals /\ NextNode(t) # t
BY ConstantsAssumption DEF Terminals, NextNode

\* While the machine boots, the terminals of some set U have yet to run their
\* first shell (module Boot): sche_main is what such a terminal runs, on the stack
\* boot built for it or on one the scheduler saved, before it has a page.
ContextBut(U) ==
  /\ cpu = sche_list[cur_sche_node]
  /\ esp0 = cpu
  /\ cpu \notin U => page128 = cpu

SavedBut(U) ==
  /\ \A t \in Terminals \ {cur_sche_node} :
       kesp[sche_list[t]] = "scheduler" \/ (t \in U /\ kesp[sche_list[t]] = "init")
  /\ \A p \in Live : p # sche_list[noterminal[p]] => kesp[p] = "execute"

RoomBut(U) ==
  /\ \A t \in BootPids : fd_flags[t] = StdFds
  /\ \A t \in U : sche_list[t] = t
  /\ \A t \in Terminals \ {cur_sche_node} : sche_list[t] \in BootPids => t \in U
  /\ cpu \in BootPids => cpu \in U \/ FreePids # {}

IInvBut(U) ==
  /\ TypeOK
  /\ Family
  /\ Holding
  /\ ContextBut(U)
  /\ VisibleIsForeground
  /\ SavedBut(U)
  /\ RoomBut(U)
  /\ HandedStayOpen

LEMMA IInvButNone == IInv <=> IInvBut({})
<1>1. RunningContext <=> ContextBut({})
  BY DEF RunningContext, ContextBut
<1>2. SavedContexts <=> SavedBut({})
  BY DEF SavedContexts, SavedBut
<1>3. Room <=> RoomBut({})
  BY DEF Room, RoomBut
<1> QED
  BY <1>1, <1>2, <1>3 DEF IInv, IInvBut

\* The CPU runs a live process, the one its terminal runs.
LEMMA RunningIsLiveBut ==
  ASSUME NEW U \in SUBSET Terminals, IInvBut(U)
  PROVE  /\ cpu \in Live /\ cpu \in Pids /\ cpu \in pid_table /\ cpu # 0 /\ cpu \notin Held
         /\ noterminal[cpu] = cur_sche_node /\ cur_sche_node \in Terminals
         /\ sche_list[cur_sche_node] = cpu
         /\ cur_sche_node \in U <=> cpu \in U
<1>1. /\ cpu \in Live /\ cpu \in Pids /\ cpu \in pid_table /\ cpu # 0 /\ cpu \notin Held
      /\ noterminal[cpu] = cur_sche_node /\ cur_sche_node \in Terminals
      /\ sche_list[cur_sche_node] = cpu
  BY DEF IInvBut, TypeOK, ContextBut, Family, Live
<1>2. cpu \in U => noterminal[cpu] = cpu
  BY ConstantFacts DEF IInvBut, Family
<1> QED
  BY <1>1, <1>2 DEF IInvBut, RoomBut

LEMMA RunningIsLive ==
  ASSUME IInv
  PROVE  /\ cpu \in Live /\ cpu \in Pids /\ cpu \in pid_table /\ cpu # 0 /\ cpu \notin Held
         /\ noterminal[cpu] = cur_sche_node /\ cur_sche_node \in Terminals
         /\ sche_list[cur_sche_node] = cpu
BY DEF IInv, TypeOK, RunningContext, Family, Live

\* The initial state satisfies the invariant.
LEMMA InitInv == Init => IInv
<1> SUFFICES ASSUME Init PROVE IInv
  OBVIOUS
<1> USE ConstantsAssumption
<1>1. Held = {}
  BY DEF Init, Held
<1>2. Live = BootPids \cup Shells /\ BootPids \cap Shells = {} /\ Live \subseteq Pids
  BY <1>1 DEF Init, Live, BootPids, Shells, Pids
<1>3. \A t \in BootPids : /\ noterminal[t] = t /\ kesp[t] = "execute"
                          /\ fd_flags[t] = StdFds /\ t # 0
  BY <1>2, ConstantFacts DEF Init
<1>4. \A p \in Shells : /\ noterminal[p] = p - NumTerminal /\ parent_pid[p] = p - NumTerminal
                        /\ fd_flags[p] = StdFds
                        /\ p # 2 * NumTerminal => kesp[p] = "scheduler"
  BY <1>2 DEF Init
<1>5. \A t \in Terminals : sche_list[t] = NumTerminal + t /\ sche_list[t] \in Shells
  BY DEF Init, Terminals, Shells
<1>6. \A p \in Shells : p - NumTerminal \in BootPids /\ p - NumTerminal \in Terminals
  BY DEF BootPids, Terminals, Shells
<1>7. TypeOK
  <2>1. parent_pid \in [Pids -> Pids] /\ pid_table \subseteq Pids
    BY DEF Init, Pids, Shells, BootPids
  <2>2. noterminal \in [Pids -> Terminals \cup {0}]
    BY ConstantFacts, <1>6 DEF Init
  <2>3. kesp \in [Pids -> Frames]
    BY DEF Init, Frames
  <2>4. /\ visible \in [Pids -> BOOLEAN]
        /\ fd_flags \in [Pids -> SUBSET Fds]
        /\ handed \in [Pids -> SUBSET Fds]
    BY ConstantFacts DEF Init
  <2>5. /\ sche_list \in [Terminals -> Pids]
        /\ cur_sche_node \in Terminals
        /\ nowterminalno \in Terminals
        /\ cpu \in Pids /\ page128 \in Pids /\ esp0 \in Pids
        /\ checking \in [Pids -> Pids \cup {NoPid}]
    BY DEF Init, Pids, Terminals
  <2> QED
    BY <2>1, <2>2, <2>3, <2>4, <2>5 DEF TypeOK
<1>8. Family
  <2>1. 0 \in pid_table
    BY DEF Init
  <2>2. \A p \in Live \ BootPids :
           /\ parent_pid[p] \in Live
           /\ noterminal[parent_pid[p]] = noterminal[p]
           /\ parent_pid[p] # sche_list[noterminal[p]]
    BY <1>2, <1>3, <1>4, <1>5, <1>6
  <2>3. \A p, q \in Live \ BootPids : parent_pid[p] = parent_pid[q] => p = q
    BY <1>2, <1>4 DEF Shells
  <2>4. \A p \in Live : noterminal[p] \in Terminals
    BY <1>2, <1>3, <1>4, <1>6 DEF BootPids, Terminals
  <2>5. \A t \in Terminals : sche_list[t] \in Live /\ noterminal[sche_list[t]] = t
    BY <1>2, <1>4, <1>5 DEF Terminals
  <2> QED
    BY <1>2, <1>3, <2>1, <2>2, <2>3, <2>4, <2>5 DEF Family
<1>9. Holding
  BY DEF Init, Holding
<1>10. RunningContext
  BY DEF Init, RunningContext, Terminals
<1>11. VisibleIsForeground
  <2>1. sche_list[nowterminalno] = NumTerminal + 1
    BY DEF Init, Terminals
  <2>2. \A p \in Live : visible[p] <=> p = NumTerminal + 1
    BY <1>2, Zenon DEF Init
  <2> QED
    BY <2>1, <2>2 DEF VisibleIsForeground
<1>12. SavedContexts
  <2>1. \A t \in Terminals \ {cur_sche_node} : NumTerminal + t # 2 * NumTerminal
    BY DEF Init, Terminals
  <2>3. \A t \in Terminals \ {cur_sche_node} : kesp[sche_list[t]] = "scheduler"
    BY <1>4, <1>5, <2>1
  <2>2. \A p \in Shells : p = sche_list[noterminal[p]]
    BY <1>4, <1>5, <1>6 DEF Shells
  <2> QED
    BY <1>2, <1>3, <2>2, <2>3 DEF SavedContexts
<1>13. Room
  <2>1. cpu \notin BootPids
    BY DEF Init, BootPids
  <2> QED
    BY <1>2, <1>3, <1>5, <2>1 DEF Room
<1>14. HandedStayOpen
  BY <1>2, <1>3, <1>4 DEF Init, HandedStayOpen
<1> QED
  BY <1>7, <1>8, <1>9, <1>10, <1>11, <1>12, <1>13, <1>14 DEF IInv
-----------------------------------------------------------------------------
\* halt: the caller leaves, its parent is the process of the terminal again.
LEMMA HaltInv ==
  ASSUME NEW U \in SUBSET Terminals, IInvBut(U), cur_sche_node \notin U, Halt
  PROVE  IInvBut(U)'
<1> DEFINE t == cur_sche_node
           pp == parent_pid[cpu]
<1> USE ConstantFacts, RunningIsLiveBut
<1>1. cpu \in Live \ BootPids /\ checking[cpu] = NoPid
  BY DEF Halt, InUserMode
<1>2. /\ pp \in Live /\ pp \in Pids /\ pp # cpu /\ pp # 0
      /\ noterminal[pp] = t /\ pp # sche_list[t] /\ kesp[pp] = "execute"
  BY <1>1 DEF IInvBut, Family, Live, SavedBut, TypeOK
<1>3. Held' = Held
  BY DEF Halt, Held
<1>4. Live' = Live \ {cpu}
  BY <1>3 DEF Halt, Live, GiveupPid
<1>5. /\ sche_list' = [sche_list EXCEPT ![t] = pp]
      /\ sche_list'[t] = pp
      /\ \A u \in Terminals \ {t} : sche_list'[u] = sche_list[u]
  BY <1>2 DEF Halt, ForegroundAfterHalt, IInvBut, TypeOK
<1>6. /\ cpu' = pp /\ esp0' = pp /\ page128' = pp
      /\ parent_pid' = parent_pid /\ noterminal' = noterminal /\ handed' = handed
      /\ cur_sche_node' = t /\ nowterminalno' = nowterminalno /\ checking' = checking
      /\ pid_table' = pid_table \ {cpu}
  BY DEF Halt, SwitchTo, GiveupPid
<1>7. /\ visible' = [visible EXCEPT ![pp] = visible[cpu]]
      /\ kesp' = [kesp EXCEPT ![pp] = "popped"]
      /\ fd_flags' = [fd_flags EXCEPT ![cpu] = FdsAfterHalt(cpu)]
  BY DEF Halt
<1>8. TypeOK'
  BY <1>2, <1>5, <1>6, <1>7 DEF IInvBut, TypeOK, FdsAfterHalt, Frames
<1>9. Family'
  <2>1. BootPids \subseteq Live' /\ 0 \in pid_table'
    BY <1>1, <1>4, <1>6 DEF IInvBut, Family
  <2>2. \A u \in Terminals : sche_list'[u] \in Live' /\ noterminal[sche_list'[u]] = u
    BY <1>2, <1>4, <1>5 DEF IInvBut, Family
  <2>3. \A p \in Live' \ BootPids : parent_pid[p] # pp
    BY <1>1, <1>4 DEF IInvBut, Family
  <2>4. \A p \in Live' \ BootPids : parent_pid[p] # cpu
    BY <1>4 DEF IInvBut, Family
  <2>5. \A p \in Live' \ BootPids :
           /\ parent_pid[p] \in Live'
           /\ noterminal[parent_pid[p]] = noterminal[p]
           /\ parent_pid[p] # sche_list'[noterminal[p]]
    BY <1>4, <1>5, <2>3, <2>4 DEF IInvBut, Family
  <2> QED
    BY <1>4, <1>6, <2>1, <2>2, <2>5 DEF IInvBut, Family
<1>10. Holding'
  <2>1. \A p \in Pids : checking[p] # NoPid => p # cpu /\ checking[p] # cpu
    BY <1>1 DEF IInvBut, TypeOK, Held, Live
  <2>2. \A p \in Pids : checking[p] # NoPid => p # pp
    BY <1>2 DEF IInvBut, Holding
  <2>3. \A p \in Pids : checking[p] # NoPid => p = sche_list'[noterminal[p]]
    BY <1>5, <2>1 DEF IInvBut, Holding, Family
  <2> QED
    BY <1>4, <1>6, <2>1, <2>3 DEF IInvBut, Holding
<1>11. ContextBut(U)'
  BY <1>5, <1>6 DEF ContextBut
<1>12. VisibleIsForeground'
  <2>1. CASE nowterminalno = t
    BY <1>2, <1>4, <1>5, <1>6, <1>7, <2>1 DEF IInvBut, TypeOK, VisibleIsForeground, Live
  <2>2. CASE nowterminalno # t
    <3>1. visible[cpu] = FALSE /\ pp # sche_list[nowterminalno]
      BY <1>2, <2>2 DEF IInvBut, TypeOK, VisibleIsForeground, Family
    <3> QED
      BY <1>2, <1>4, <1>5, <1>6, <1>7, <2>2, <3>1
         DEF IInvBut, TypeOK, VisibleIsForeground, Live
  <2> QED
    BY <2>1, <2>2
<1>13. SavedBut(U)'
  BY <1>2, <1>4, <1>5, <1>6, <1>7 DEF IInvBut, TypeOK, SavedBut, Family, Live
<1>14. RoomBut(U)'
  BY <1>1, <1>5, <1>6, <1>7 DEF IInvBut, TypeOK, RoomBut, FreePids
<1>15. HandedStayOpen'
  BY <1>4, <1>6, <1>7 DEF IInvBut, TypeOK, HandedStayOpen, Live
<1> QED
  BY <1>8, <1>9, <1>10, <1>11, <1>12, <1>13, <1>14, <1>15 DEF IInvBut

\* execute starts a program: the child is the caller's only child and takes its
\* place on the terminal.
LEMMA ExecuteProgramInv ==
  ASSUME NEW U \in SUBSET Terminals, IInvBut(U), cur_sche_node \notin U, ExecuteProgram
  PROVE  IInvBut(U)'
<1> DEFINE t == cur_sche_node
<1> USE ConstantFacts, RunningIsLiveBut
<1>1. PICK fresh \in FreePids, fd \in Fds :
        /\ GetNewPid(fresh)
        /\ FreeFd(cpu, fd)
        /\ pid_table' = pid_table \cup {fresh}
        /\ ExecutePcbs(fresh, fd)
        /\ sche_list' = [sche_list EXCEPT ![noterminal[cpu]] = fresh]
        /\ SwitchTo(fresh)
  BY DEF ExecuteProgram
<1>2. /\ fresh \in Pids /\ fresh \notin pid_table /\ fresh \notin Live
      /\ fresh # 0 /\ fresh # cpu /\ fresh \notin BootPids
  BY DEF FreePids, Live, IInvBut, Family
<1>3. checking[cpu] = NoPid /\ checking' = checking /\ Held' = Held
  BY DEF ExecuteProgram, MayExecute, Held
<1>4. \A p \in Pids : checking[p] # fresh
  BY <1>2 DEF IInvBut, Holding
<1>5. Live' = Live \cup {fresh}
  BY <1>1, <1>2, <1>3, <1>4 DEF Live, Held
<1>6. /\ sche_list' = [sche_list EXCEPT ![t] = fresh]
      /\ sche_list'[t] = fresh
      /\ \A u \in Terminals \ {t} : sche_list'[u] = sche_list[u]
  BY <1>1 DEF IInvBut, TypeOK
<1>7. /\ cpu' = fresh /\ esp0' = fresh /\ page128' = fresh
      /\ cur_sche_node' = t /\ nowterminalno' = nowterminalno
  BY <1>1 DEF ExecuteProgram, SwitchTo
<1>8. FdsAfterLoad(cpu, fd) = fd_flags[cpu]
  BY <1>1 DEF FreeFd, FdsAfterLoad
<1>9. /\ parent_pid' = [parent_pid EXCEPT ![fresh] = cpu]
      /\ noterminal' = [noterminal EXCEPT ![fresh] = t]
      /\ visible' = [visible EXCEPT ![fresh] = visible[cpu], ![cpu] = FALSE]
      /\ fd_flags' = [fd_flags EXCEPT ![fresh] = StdFds]
      /\ kesp' = [kesp EXCEPT ![fresh] = "null", ![cpu] = "execute"]
      /\ handed' = [handed EXCEPT ![fresh] = {}]
  <2>1. fd_flags' = [fd_flags EXCEPT ![fresh] = StdFds, ![cpu] = fd_flags[cpu]]
    BY <1>1, <1>8 DEF ExecutePcbs
  <2>2. fd_flags' = [fd_flags EXCEPT ![fresh] = StdFds]
    BY <1>2, <2>1 DEF IInvBut, TypeOK
  <2> QED
    BY <1>1, <2>2 DEF ExecutePcbs, VisibleAfterExecute
<1>10. TypeOK'
  BY <1>1, <1>2, <1>3, <1>6, <1>7, <1>9 DEF IInvBut, TypeOK, Frames
<1>11. Family'
  <2>1. BootPids \subseteq Live' /\ 0 \in pid_table'
    BY <1>1, <1>5 DEF IInvBut, Family
  <2>2. \A p \in Live : /\ p # fresh /\ noterminal'[p] = noterminal[p]
                        /\ p \in Pids /\ parent_pid'[p] = parent_pid[p]
    BY <1>2, <1>9 DEF IInvBut, TypeOK, Live
  <2>3. noterminal'[fresh] = t /\ parent_pid'[fresh] = cpu
    BY <1>2, <1>9 DEF IInvBut, TypeOK
  <2>4. \A u \in Terminals : sche_list'[u] \in Live' /\ noterminal'[sche_list'[u]] = u
    BY <1>5, <1>6, <2>2, <2>3 DEF IInvBut, Family
  <2>5. \A p \in Live' \ BootPids :
           /\ parent_pid'[p] \in Live'
           /\ noterminal'[parent_pid'[p]] = noterminal'[p]
           /\ parent_pid'[p] # sche_list'[noterminal'[p]]
    BY <1>2, <1>5, <1>6, <2>2, <2>3 DEF IInvBut, Family
  <2>6. \A p \in Live \ BootPids : parent_pid[p] # cpu
    BY DEF IInvBut, Family
  <2>7. \A p, q \in Live' \ BootPids : parent_pid'[p] = parent_pid'[q] => p = q
    BY <1>5, <2>2, <2>3, <2>6 DEF IInvBut, Family
  <2>8. \A p \in Live' : noterminal'[p] \in Terminals
    BY <1>5, <2>2, <2>3 DEF IInvBut, Family
  <2>9. \A u \in BootPids : noterminal'[u] = u
    BY <2>2 DEF IInvBut, Family
  <2> QED
    BY <2>1, <2>4, <2>5, <2>7, <2>8, <2>9 DEF Family
<1>12. Holding'
  <2>1. \A p \in Pids : checking[p] # NoPid =>
           p # cpu /\ p # fresh /\ noterminal'[p] = noterminal[p] /\ noterminal[p] # t
    <3> SUFFICES ASSUME NEW p \in Pids, checking[p] # NoPid
                 PROVE  p # cpu /\ p # fresh /\ noterminal'[p] = noterminal[p] /\ noterminal[p] # t
      OBVIOUS
    <3>1. p \in Live /\ p = sche_list[noterminal[p]]
      BY DEF IInvBut, Holding
    <3>2. p # cpu /\ p # fresh /\ noterminal[p] # t
      BY <1>2, <1>3, <3>1
    <3> QED
      BY <1>9, <3>2 DEF IInvBut, TypeOK
  <2>2. \A p \in Pids : checking[p] # NoPid => p = sche_list'[noterminal'[p]]
    BY <1>6, <2>1 DEF IInvBut, Holding, Family
  <2> QED
    BY <1>1, <1>3, <1>5, <2>2 DEF IInvBut, Holding
<1>13. ContextBut(U)'
  BY <1>6, <1>7 DEF ContextBut
<1>14. VisibleIsForeground'
  <2>1. \A p \in Live : p # fresh /\ p \in Pids
    BY <1>2 DEF Live, IInvBut, TypeOK
  <2>2. CASE nowterminalno = t
    BY <1>2, <1>5, <1>6, <1>7, <1>9, <2>1, <2>2 DEF IInvBut, TypeOK, VisibleIsForeground
  <2>3. CASE nowterminalno # t
    <3>1. sche_list'[nowterminalno] = sche_list[nowterminalno]
          /\ sche_list[nowterminalno] # cpu /\ sche_list[nowterminalno] # fresh
      BY <1>2, <1>6, <2>3 DEF IInvBut, TypeOK, Family
    <3> QED
      BY <1>2, <1>5, <1>7, <1>9, <2>1, <3>1 DEF IInvBut, TypeOK, VisibleIsForeground
  <2> QED
    BY <2>2, <2>3
<1>15. SavedBut(U)'
  <2>1. \A p \in Live : p # fresh /\ p \in Pids /\ noterminal'[p] = noterminal[p]
                        /\ noterminal[p] \in Terminals
    BY <1>2, <1>9 DEF IInvBut, TypeOK, Live, Family
  <2>2. \A u \in Terminals \ {t} :
          kesp'[sche_list'[u]] = "scheduler" \/ (u \in U /\ kesp'[sche_list'[u]] = "init")
    BY <1>6, <1>9, <2>1 DEF IInvBut, TypeOK, SavedBut, Family
  <2>3. \A p \in Live' : p # sche_list'[noterminal'[p]] => kesp'[p] = "execute"
    <3> SUFFICES ASSUME NEW p \in Live', p # sche_list'[noterminal'[p]]
                 PROVE  kesp'[p] = "execute"
      OBVIOUS
    <3>1. p # fresh /\ p \in Live
      BY <1>2, <1>5, <1>6, <1>9 DEF IInvBut, TypeOK
    <3>2. CASE p = cpu
      BY <1>9, <3>1, <3>2 DEF IInvBut, TypeOK
    <3>3. CASE p # cpu
      BY <1>6, <1>9, <2>1, <3>1, <3>3 DEF IInvBut, TypeOK, SavedBut
    <3> QED
      BY <3>2, <3>3
  <2> QED
    BY <1>7, <2>2, <2>3 DEF SavedBut
<1>16. RoomBut(U)'
  BY <1>2, <1>6, <1>7, <1>9 DEF IInvBut, TypeOK, RoomBut
<1>17. HandedStayOpen'
  BY <1>2, <1>5, <1>9 DEF IInvBut, TypeOK, HandedStayOpen, Live
<1> QED
  BY <1>10, <1>11, <1>12, <1>13, <1>14, <1>15, <1>16, <1>17 DEF IInvBut

\* execute of the RTC device: the running process takes a pid to hold.
LEMMA ExecuteRtcInv ==
  ASSUME NEW U \in SUBSET Terminals, IInvBut(U), cur_sche_node \notin U, ExecuteRtc
  PROVE  IInvBut(U)'
<1> USE ConstantFacts, RunningIsLiveBut
<1>1. PICK pid \in FreePids : /\ GetNewPid(pid)
                              /\ pid_table' = pid_table \cup {pid}
                              /\ checking' = [checking EXCEPT ![cpu] = pid]
  BY DEF ExecuteRtc
<1>2. PICK fd \in Fds : fd_flags' = [fd_flags EXCEPT ![cpu] = @ \cup {fd}]
  BY DEF ExecuteRtc
<1>3. /\ pid \in Pids /\ pid \notin pid_table /\ pid \notin Live /\ pid # NoPid
      /\ pid # 0 /\ pid \notin BootPids
  BY DEF FreePids, Live, IInvBut, Family
<1>4. cpu \notin BootPids /\ checking[cpu] = NoPid
  BY DEF ExecuteRtc, MayExecute
<1>5. Held' = Held \cup {pid}
  BY <1>1, <1>3, <1>4 DEF Held, IInvBut, TypeOK
<1>6. Live' = Live
  BY <1>1, <1>3, <1>5 DEF Live
<1>7. UNCHANGED <<parent_pid, noterminal, visible, kesp, handed, sche_list, nowterminalno,
                  cur_sche_node, cpu, page128, esp0>>
  BY DEF ExecuteRtc, run
<1>8. TypeOK'
  BY <1>1, <1>2, <1>3, <1>7 DEF IInvBut, TypeOK
<1>9. Family'
  BY <1>1, <1>6, <1>7 DEF IInvBut, Family
<1>10. Holding'
  <2>1. \A p \in Pids : checking[p] # pid
    BY <1>3 DEF IInvBut, Holding
  <2> QED
    BY <1>1, <1>3, <1>4, <1>6, <1>7, <2>1 DEF IInvBut, TypeOK, Holding
<1>11. ContextBut(U)' /\ VisibleIsForeground' /\ SavedBut(U)'
  BY <1>6, <1>7 DEF IInvBut, ContextBut, VisibleIsForeground, SavedBut
<1>12. RoomBut(U)' /\ HandedStayOpen'
  BY <1>2, <1>4, <1>6, <1>7 DEF IInvBut, TypeOK, RoomBut, HandedStayOpen, Live
<1> QED
  BY <1>8, <1>9, <1>10, <1>11, <1>12 DEF IInvBut

\* ... and gives it back.
LEMMA RtcReadReturnsInv ==
  ASSUME NEW U \in SUBSET Terminals, IInvBut(U), cur_sche_node \notin U, RtcReadReturns
  PROVE  IInvBut(U)'
<1> USE ConstantFacts, RunningIsLiveBut
<1>1. /\ checking[cpu] # NoPid /\ checking[cpu] \in Held /\ checking[cpu] \in pid_table
      /\ checking[cpu] \notin {0} \cup BootPids /\ cpu \notin BootPids
  BY DEF RtcReadReturns, IInvBut, Holding, Held
<1>2. pid_table' = pid_table \ {checking[cpu]} /\ checking' = [checking EXCEPT ![cpu] = NoPid]
  BY DEF RtcReadReturns, GiveupPid
<1>3. Held' = Held \ {checking[cpu]}
  <2>1. \A p \in Pids : checking[p] = checking[cpu] => p = cpu
    BY <1>1 DEF IInvBut, Holding
  <2> QED
    BY <1>2, <2>1 DEF IInvBut, TypeOK, Held
<1>4. Live' = Live
  BY <1>1, <1>2, <1>3 DEF Live
<1>5. UNCHANGED <<parent_pid, noterminal, visible, fd_flags, kesp, handed, sche_list,
                  nowterminalno, cur_sche_node, cpu, page128, esp0>>
  BY DEF RtcReadReturns, run, pcbs
<1>6. TypeOK'
  BY <1>2, <1>5 DEF IInvBut, TypeOK
<1>7. Family'
  BY <1>1, <1>2, <1>4, <1>5 DEF IInvBut, Family
<1>8. Holding'
  BY <1>1, <1>2, <1>4, <1>5 DEF IInvBut, TypeOK, Holding
<1>9. ContextBut(U)' /\ VisibleIsForeground' /\ SavedBut(U)'
  BY <1>4, <1>5 DEF IInvBut, ContextBut, VisibleIsForeground, SavedBut
<1>10. RoomBut(U)' /\ HandedStayOpen'
  BY <1>1, <1>4, <1>5 DEF IInvBut, RoomBut, HandedStayOpen
<1> QED
  BY <1>6, <1>7, <1>8, <1>9, <1>10 DEF IInvBut

\* The scheduler moves the CPU and saved stacks, and nothing else.
LEMMA ScheduleInv ==
  ASSUME NEW U \in SUBSET Terminals, IInvBut(U), cpu \in U \/ cpu \notin BootPids, Schedule
  PROVE  IInvBut(U)'
<1> DEFINE t == cur_sche_node
           u == NextNode(cur_sche_node)
           next == sche_list[u]
<1> USE ConstantFacts, RunningIsLiveBut
<1>1. u \in Terminals /\ u # t
  BY NextNodeFacts
<1>2. next \in Live /\ next \in Pids /\ next # cpu /\ noterminal[next] = u
  BY <1>1 DEF IInvBut, Family, Live, TypeOK
<1>3. /\ cur_sche_node' = u /\ cpu' = next /\ page128' = next /\ esp0' = next
      /\ kesp' = [kesp EXCEPT ![cpu] = "scheduler", ![next] = "popped"]
  BY DEF Schedule, SwitchTo, KespAfterSwitch
<1>4. UNCHANGED <<pid_table, parent_pid, noterminal, visible, fd_flags, handed,
                  sche_list, nowterminalno, checking>>
  BY DEF Schedule
<1>5. Live' = Live
  BY <1>4 DEF Live, Held
<1>6. TypeOK'
  BY <1>1, <1>2, <1>3, <1>4 DEF IInvBut, TypeOK, Frames
<1>7. Family' /\ Holding' /\ VisibleIsForeground' /\ HandedStayOpen'
  BY <1>4, <1>5 DEF IInvBut, Family, Holding, VisibleIsForeground, HandedStayOpen
<1>8. ContextBut(U)'
  BY <1>3, <1>4 DEF ContextBut
<1>9. SavedBut(U)'
  <2>1. \A v \in Terminals \ {u} :
          kesp'[sche_list[v]] = "scheduler" \/ (v \in U /\ kesp'[sche_list[v]] = "init")
    BY <1>1, <1>2, <1>3 DEF IInvBut, TypeOK, SavedBut, Family
  <2>2. \A p \in Live : p # sche_list[noterminal[p]] => p # cpu /\ p # next /\ p \in Pids
    BY <1>2 DEF Live, IInvBut, TypeOK
  <2> QED
    BY <1>2, <1>3, <1>4, <1>5, <2>1, <2>2 DEF IInvBut, TypeOK, SavedBut
<1>10. RoomBut(U)'
  BY <1>1, <1>3, <1>4 DEF IInvBut, RoomBut
<1> QED
  BY <1>6, <1>7, <1>8, <1>9, <1>10 DEF IInvBut

\* Alt-Fn moves visible from the process of the old terminal to the new one's.
LEMMA ShowTerminalInv ==
  ASSUME NEW U \in SUBSET Terminals, IInvBut(U), NEW no \in Terminals, ShowTerminal(no)
  PROVE  IInvBut(U)'
<1> USE ConstantFacts
<1>1. /\ nowterminalno' = no
      /\ visible' = [visible EXCEPT ![sche_list[nowterminalno]] = FALSE, ![sche_list[no]] = TRUE]
  BY DEF ShowTerminal
<1>2. UNCHANGED <<pid_table, parent_pid, noterminal, fd_flags, kesp, handed, sche_list,
                  cur_sche_node, cpu, page128, esp0, checking>>
  BY DEF ShowTerminal, run
<1>3. Live' = Live
  BY <1>2 DEF Live, Held
<1>4. TypeOK'
  BY <1>1, <1>2 DEF IInvBut, TypeOK
<1>5. VisibleIsForeground'
  BY <1>1, <1>2, <1>3 DEF IInvBut, TypeOK, VisibleIsForeground, Live
<1>6. Family' /\ Holding' /\ ContextBut(U)' /\ SavedBut(U)' /\ HandedStayOpen'
  BY <1>2, <1>3 DEF IInvBut, Family, Holding, ContextBut, SavedBut, HandedStayOpen
<1>7. RoomBut(U)'
  BY <1>2 DEF IInvBut, RoomBut, FreePids
<1> QED
  BY <1>4, <1>5, <1>6, <1>7 DEF IInvBut

\* The descriptors of the running program change, and what it was handed with
\* them: open, close, and execute of a file that is no program.
LEMMA DescriptorsInv ==
  ASSUME NEW U \in SUBSET Terminals, IInvBut(U), cur_sche_node \notin U,
         NEW fds \in SUBSET Fds, NEW hand \in SUBSET Fds,
         StdFds \cup hand \subseteq fds,
         cpu \notin BootPids,
         fd_flags' = [fd_flags EXCEPT ![cpu] = fds],
         handed' = [handed EXCEPT ![cpu] = hand],
         UNCHANGED <<pid_table, parent_pid, noterminal, visible, kesp,
                     sche_list, nowterminalno, run, checking>>
  PROVE  IInvBut(U)'
<1> USE ConstantFacts, RunningIsLiveBut
<1>1. Live' = Live
  BY DEF Live, Held
<1>2. TypeOK'
  BY DEF IInvBut, TypeOK, run
<1>3. Family' /\ Holding' /\ ContextBut(U)' /\ VisibleIsForeground' /\ SavedBut(U)'
  BY <1>1 DEF IInvBut, Family, Holding, ContextBut, VisibleIsForeground, SavedBut, run
<1>4. RoomBut(U)'
  BY DEF IInvBut, TypeOK, RoomBut, FreePids, run
<1>5. HandedStayOpen'
  BY <1>1 DEF IInvBut, TypeOK, HandedStayOpen, Live
<1> QED
  BY <1>2, <1>3, <1>4, <1>5 DEF IInvBut

LEMMA FdActionsInv ==
  ASSUME NEW U \in SUBSET Terminals, IInvBut(U), cur_sche_node \notin U, ExecuteNoProgram \/ Open \/ Close
  PROVE  IInvBut(U)'
<1> USE ConstantFacts, RunningIsLiveBut
<1>1. /\ fd_flags[cpu] \in SUBSET Fds /\ handed[cpu] \in SUBSET Fds
      /\ StdFds \cup handed[cpu] \subseteq fd_flags[cpu]
      /\ handed = [handed EXCEPT ![cpu] = handed[cpu]]
  BY DEF IInvBut, TypeOK, HandedStayOpen
<1>2. CASE ExecuteNoProgram
  <2>1. PICK fd \in Fds : fd_flags' = [fd_flags EXCEPT ![cpu] = fd_flags[cpu] \cup {fd}]
    BY <1>2 DEF ExecuteNoProgram
  <2>2. cpu \notin BootPids
    BY <1>2 DEF ExecuteNoProgram, MayExecute
  <2>3. handed' = [handed EXCEPT ![cpu] = handed[cpu]]
    BY <1>1, <1>2 DEF ExecuteNoProgram
  <2>4. /\ fd_flags[cpu] \cup {fd} \in SUBSET Fds
        /\ StdFds \cup handed[cpu] \subseteq fd_flags[cpu] \cup {fd}
    BY <1>1
  <2>5. UNCHANGED <<pid_table, parent_pid, noterminal, visible, kesp,
                    sche_list, nowterminalno, run, checking>>
    BY <1>2 DEF ExecuteNoProgram
  <2> QED
    BY <1>1, <2>1, <2>2, <2>3, <2>4, <2>5, DescriptorsInv
<1>3. CASE Open
  <2>1. PICK fd \in Fds :
           /\ fd_flags' = [fd_flags EXCEPT ![cpu] = fd_flags[cpu] \cup {fd}]
           /\ handed' = [handed EXCEPT ![cpu] = handed[cpu] \cup {fd}]
    BY <1>3 DEF Open
  <2>2. /\ fd_flags[cpu] \cup {fd} \in SUBSET Fds /\ handed[cpu] \cup {fd} \in SUBSET Fds
        /\ StdFds \cup (handed[cpu] \cup {fd}) \subseteq fd_flags[cpu] \cup {fd}
    BY <1>1
  <2>3. cpu \notin BootPids
    BY <1>3 DEF Open, InUserMode
  <2>4. UNCHANGED <<pid_table, parent_pid, noterminal, visible, kesp,
                    sche_list, nowterminalno, run, checking>>
    BY <1>3 DEF Open
  <2> QED
    BY <2>1, <2>2, <2>3, <2>4, DescriptorsInv
<1>4. CASE Close
  <2>1. PICK fd \in fd_flags[cpu] \ StdFds :
           /\ fd_flags' = [fd_flags EXCEPT ![cpu] = fd_flags[cpu] \ {fd}]
           /\ handed' = [handed EXCEPT ![cpu] = handed[cpu] \ {fd}]
    BY <1>4 DEF Close
  <2>2. StdFds \cup (handed[cpu] \ {fd}) \subseteq fd_flags[cpu] \ {fd}
    BY <1>1
  <2>3. cpu \notin BootPids
    BY <1>4 DEF Close, InUserMode
  <2> QED
    BY <1>1, <1>4, <2>1, <2>2, <2>3, DescriptorsInv DEF Close
<1> QED
  BY <1>2, <1>3, <1>4

\* Stuttering, which a failing execute is too.
LEMMA StutterInv == ASSUME NEW U, IInvBut(U), UNCHANGED vars PROVE IInvBut(U)'
BY DEF IInvBut, TypeOK, Family, Holding, ContextBut, VisibleIsForeground, SavedBut, RoomBut,
       HandedStayOpen, Live, Held, FreePids, vars, pcbs, run
-----------------------------------------------------------------------------
\* Every step keeps the invariant.
LEMMA NextInvBut ==
  ASSUME NEW U \in SUBSET Terminals, IInvBut(U), cur_sche_node \notin U, [Next]_vars
  PROVE  IInvBut(U)'
<1>1. CASE \E cmd \in Commands : ExecuteFails(cmd)
  BY <1>1, StutterInv DEF ExecuteFails
<1>2. CASE ExecuteNoProgram \/ Open \/ Close
  BY <1>2, FdActionsInv
<1>3. CASE ExecuteRtc
  BY <1>3, ExecuteRtcInv
<1>4. CASE RtcReadReturns
  BY <1>4, RtcReadReturnsInv
<1>5. CASE ExecuteProgram
  BY <1>5, ExecuteProgramInv
<1>6. CASE Halt
  BY <1>6, HaltInv
<1>7. CASE Tick
  BY <1>7, ScheduleInv DEF Tick, InterruptsOn
<1>8. CASE \E no \in Terminals : AltFn(no)
  BY <1>8, ShowTerminalInv DEF AltFn
<1>9. CASE UNCHANGED vars
  BY <1>9, StutterInv
<1> QED
  BY <1>1, <1>2, <1>3, <1>4, <1>5, <1>6, <1>7, <1>8, <1>9 DEF Next

LEMMA NextInv == IInv /\ [Next]_vars => IInv'
<1> SUFFICES ASSUME IInv, [Next]_vars PROVE IInv'
  OBVIOUS
<1>1. IInvBut({}) /\ cur_sche_node \notin {} /\ {} \in SUBSET Terminals
  BY IInvButNone
<1>2. IInvBut({})'
  BY <1>1, NextInvBut
<1> QED
  BY <1>2, IInvButNone, PTL

\* From any state of the kernel that satisfies IInv, not only from Init, every
\* step leads to another.
THEOREM Inductive == Spec => []IInv
BY InitInv, NextInv, PTL DEF Spec

\* Every variable keeps its type, so no pid, terminal or descriptor index ever
\* leaves its array.
THEOREM TypeCorrect == Spec => []TypeOK
<1>1. IInv => TypeOK
  BY DEF IInv
<1> QED
  BY <1>1, Inductive, PTL

\* The running process, its kernel stack, its page and its place in sche_list
\* always agree.
THEOREM RunningContextHolds == Spec => []RunningContext
<1>1. IInv => RunningContext
  BY DEF IInv
<1> QED
  BY <1>1, Inductive, PTL

\* Only the foreground process of the terminal on the screen is visible.
THEOREM VisibleIsForegroundHolds == Spec => []VisibleIsForeground
<1>1. IInv => VisibleIsForeground
  BY DEF IInv
<1> QED
  BY <1>1, Inductive, PTL

\* A stack is only ever resumed by the code that knows its frame.
THEOREM SavedContextsHold == Spec => []SavedContexts
<1>1. IInv => SavedContexts
  BY DEF IInv
<1> QED
  BY <1>1, Inductive, PTL

\* sche_main can always restart its shell.
THEOREM RestartHasRoomHolds == Spec => []RestartHasRoom
<1>1. IInv => RestartHasRoom
  <2> SUFFICES ASSUME IInv, cpu \in BootPids
               PROVE  FreePids # {} /\ \E fd \in Fds : FreeFd(cpu, fd)
    BY DEF RestartHasRoom
  <2>1. FreePids # {}
    BY DEF IInv, Room
  <2>2. FreeFd(cpu, 2)
    BY ConstantFacts DEF IInv, Room, FreeFd, Fds
  <2> QED
    BY <2>1, <2>2, ConstantFacts
<1> QED
  BY <1>1, Inductive, PTL

\* A descriptor handed to a program stays open until it closes it.
THEOREM HandedStayOpenHolds == Spec => []HandedStayOpen
<1>1. IInv => HandedStayOpen
  BY DEF IInv
<1> QED
  BY <1>1, Inductive, PTL

\* A step leaves alone whatever belongs to the terminals that are not running.
THEOREM IsolationHolds == Spec => Isolation
<1> DEFINE Apart ==
      /\ \A t \in Terminals \ {cur_sche_node} : sche_list'[t] = sche_list[t]
      /\ \A p \in Live : noterminal[p] # cur_sche_node =>
           /\ p \in Live'
           /\ parent_pid'[p] = parent_pid[p]
           /\ noterminal'[p] = noterminal[p]
           /\ fd_flags'[p] = fd_flags[p]
<1>1. IInv /\ [Next]_vars => [Apart]_vars
  <2> SUFFICES ASSUME IInv, Next PROVE Apart
    OBVIOUS
  <2> USE ConstantFacts, RunningIsLive
  <2>1. \A p \in Live : p \in Pids /\ (noterminal[p] # cur_sche_node => p # cpu)
    BY DEF Live, IInv, TypeOK
  <2>2. CASE \/ \E cmd \in Commands : ExecuteFails(cmd)
             \/ Tick
             \/ \E no \in Terminals : AltFn(no)
    BY <2>2 DEF ExecuteFails, Tick, Schedule, AltFn, ShowTerminal, Live, Held, vars, pcbs, run
  <2>3. CASE ExecuteNoProgram \/ Open \/ Close
    <3>1. UNCHANGED <<pid_table, checking, parent_pid, noterminal, sche_list>>
      BY <2>3 DEF ExecuteNoProgram, Open, Close
    <3>2. Live' = Live
      BY <3>1 DEF Live, Held
    <3>3. \A p \in Pids \ {cpu} : fd_flags'[p] = fd_flags[p]
      BY <2>3 DEF ExecuteNoProgram, Open, Close, IInv, TypeOK
    <3> QED
      BY <2>1, <3>1, <3>2, <3>3
  <2>4. CASE ExecuteRtc
    <3>1. Live \subseteq Live'
      BY <2>4 DEF ExecuteRtc, FreePids, Live, Held, IInv, TypeOK
    <3> QED
      BY <2>1, <2>4, <3>1 DEF ExecuteRtc, IInv, TypeOK
  <2>5. CASE RtcReadReturns
    <3>1. \A p \in Live : p # checking[cpu]
      BY <2>5 DEF RtcReadReturns, Live, Held
    <3>2. Live \subseteq Live'
      BY <2>5, <3>1 DEF RtcReadReturns, GiveupPid, Live, Held, IInv, TypeOK
    <3> QED
      BY <2>5, <3>2 DEF RtcReadReturns, pcbs
  <2>6. CASE ExecuteProgram
    <3>1. PICK fresh \in FreePids, fd \in Fds :
            /\ pid_table' = pid_table \cup {fresh}
            /\ ExecutePcbs(fresh, fd)
            /\ sche_list' = [sche_list EXCEPT ![noterminal[cpu]] = fresh]
      BY <2>6 DEF ExecuteProgram
    <3>2. \A p \in Live : p # fresh /\ p \in Live'
      BY <2>6, <3>1 DEF ExecuteProgram, FreePids, Live, Held
    <3> QED
      BY <2>1, <3>1, <3>2 DEF ExecutePcbs, IInv, TypeOK
  <2>7. CASE Halt
    <3>1. parent_pid[cpu] \in Live /\ noterminal[parent_pid[cpu]] = cur_sche_node
      BY <2>7 DEF Halt, InUserMode, IInv, Family
    <3>2. \A p \in Live \ {cpu} : p \in Live'
      BY <2>7 DEF Halt, GiveupPid, Live, Held
    <3> QED
      BY <2>1, <2>7, <3>1, <3>2 DEF Halt, ForegroundAfterHalt, IInv, TypeOK
  <2> QED
    BY <2>2, <2>3, <2>4, <2>5, <2>6, <2>7 DEF Next
<1> QED
  BY <1>1, Inductive, PTL DEF Spec, Isolation
-----------------------------------------------------------------------------
\* A set of natural numbers has a least member.
LEMMA Least ==
  ASSUME NEW S \in SUBSET Nat, S # {}
  PROVE  \E k \in S : \A i \in S : k <= i
<1> DEFINE R == {ss \in Nat \X Nat : ss[1] < ss[2]}
<1>1. IsWellFoundedOn(R, Nat)
  BY NatLessThanWellFounded, Zenon DEF OpToRel
<1>2. PICK k \in S : \A i \in S : ~(<<i, k>> \in R)
  <2> HIDE DEF R
  <2> QED
    BY <1>1, WFMin
<1>3. \A i \in S : ~(i < k)
  BY <1>2
<1> QED
  BY <1>3

\* One line of the table that Ancestry fills: from the sequences that climb less
\* high.
Row(lower, n, parent) ==
  [p \in Pids |-> IF n = 0 \/ p \in BootPids \cup {0} THEN <<p>>
                  ELSE Append(lower[parent[p]], p)]

IsTable(up, m, parent) == up = [n \in 0 .. m |-> Row(up[n - 1], n, parent)]

\* The table exists, though parent_pid of dead processes may name anyone.
LEMMA TableExists ==
  ASSUME NEW parent, NEW m \in Nat
  PROVE  \E up : IsTable(up, m, parent)
<1> DEFINE Bad == {i \in Nat : ~\E up : IsTable(up, i, parent)}
<1> SUFFICES ASSUME Bad # {} PROVE FALSE
  OBVIOUS
<1>1. PICK k \in Bad : \A i \in Bad : k <= i
  <2>1. Bad \in SUBSET Nat
    OBVIOUS
  <2> HIDE DEF Bad
  <2> QED
    BY <2>1, Least
<1>2. \A a, b : Row(a, 0, parent) = Row(b, 0, parent)
  BY DEF Row
<1>3. CASE k = 0
  <2> DEFINE up == [n \in 0 .. 0 |-> Row({}, 0, parent)]
  <2>1. IsTable(up, 0, parent)
    <3>1. \A n \in 0 .. 0 : Row({}, 0, parent) = Row(up[n - 1], n, parent)
      BY <1>2
    <3> QED
      BY <3>1 DEF IsTable
  <2> QED
    BY <1>3, <2>1
<1>4. CASE k # 0
  <2>1. k - 1 \in Nat /\ k \in Nat \ {0}
    BY <1>4
  <2>2. PICK f : IsTable(f, k - 1, parent)
    BY <1>1, <2>1
  <2>3. \A n \in 0 .. k - 1 : f[n] = Row(f[n - 1], n, parent)
    BY <2>1, <2>2, Zenon DEF IsTable
  <2> DEFINE g == [n \in 0 .. k |-> IF n = k THEN Row(f[k - 1], k, parent) ELSE f[n]]
  <2>4. \A n \in 0 .. k : g[n] = Row(g[n - 1], n, parent)
    <3> SUFFICES ASSUME NEW n \in 0 .. k PROVE g[n] = Row(g[n - 1], n, parent)
      OBVIOUS
    <3>1. CASE n = 0
      BY <1>2, <2>1, <2>3, <3>1
    <3>2. CASE n # 0
      <4>1. n - 1 \in 0 .. k - 1 /\ g[n - 1] = f[n - 1]
        BY <2>1, <3>2
      <4>2. n # k => n \in 0 .. k - 1
        BY <2>1
      <4> QED
        BY <2>3, <4>1, <4>2
    <3> QED
      BY <3>1, <3>2
  <2>5. g = [n \in 0 .. k |-> g[n]]
    OBVIOUS
  <2>6. IsTable(g, k, parent)
    <3> HIDE DEF g
    <3> QED
      BY <2>4, <2>5 DEF IsTable
  <2> QED
    BY <2>6
<1> QED
  BY <1>3, <1>4

\* A line of descent from a boot process to top, as parent says.
Path(s, top, parent) ==
  /\ s \in Seq(Pids) /\ Len(s) \in 1 .. MaxPnum
  /\ s[1] \in BootPids /\ s[Len(s)] = top
  /\ \A i \in 2 .. Len(s) : s[i] \notin BootPids \cup {0} /\ parent[s[i]] = s[i - 1]

\* Ancestry reads such a line off parent.
LEMMA AncestryIs ==
  ASSUME NEW s, NEW top, NEW parent, Path(s, top, parent)
  PROVE  Ancestry(top, parent) = s
<1> DEFINE up == CHOOSE up : IsTable(up, MaxPnum, parent)
           Upto(i) == [j \in 1 .. i |-> s[j]]
<1>1. Ancestry(top, parent) = up[MaxPnum][top]
  BY DEF Ancestry, IsTable, Row
<1>2. MaxPnum \in Nat
  BY ConstantsAssumption
<1>3. IsTable(up, MaxPnum, parent)
  BY <1>2, TableExists
<1>4. \A n \in 0 .. MaxPnum : up[n] = Row(up[n - 1], n, parent)
  <2> HIDE DEF up
  <2> QED
    BY <1>3, Zenon DEF IsTable
<1> HIDE DEF up
<1>5. /\ Len(s) \in 1 .. MaxPnum /\ s = Upto(Len(s)) /\ top = s[Len(s)]
      /\ \A i \in 1 .. Len(s) : s[i] \in Pids
      /\ s[1] \in BootPids
      /\ \A i \in 2 .. Len(s) : s[i] \notin BootPids \cup {0} /\ parent[s[i]] = s[i - 1]
  BY DEF Path
<1>6. \A i \in 1 .. Len(s) : \A n \in 0 .. MaxPnum : n >= i - 1 => up[n][s[i]] = Upto(i)
  <2> DEFINE Good(i) == \A n \in 0 .. MaxPnum : n >= i - 1 => up[n][s[i]] = Upto(i)
             Bad == {i \in 1 .. Len(s) : ~Good(i)}
  <2> SUFFICES ASSUME Bad # {} PROVE FALSE
    BY Zenon
  <2>1. PICK k \in Bad : \A i \in Bad : k <= i
    <3>1. Bad \in SUBSET Nat
      BY <1>5
    <3> HIDE DEF Bad
    <3> QED
      BY <3>1, Least
  <2>2. k \in 1 .. Len(s) /\ s[k] \in Pids
    BY <1>5
  <2>3. ASSUME NEW n \in 0 .. MaxPnum, n >= k - 1 PROVE up[n][s[k]] = Upto(k)
    <3>1. CASE k = 1
      <4>1. up[n][s[1]] = <<s[1]>>
        BY <1>4, <1>5, <2>2, <3>1 DEF Row
      <4>2. <<s[1]>> = Upto(1)
        OBVIOUS
      <4> QED
        BY <3>1, <4>1, <4>2
    <3>2. CASE k # 1
      <4>1. k - 1 \in 1 .. Len(s) /\ n # 0 /\ n - 1 \in 0 .. MaxPnum /\ n - 1 >= (k - 1) - 1 /\ k \in 2 .. Len(s)
        BY <1>2, <2>2, <2>3, <3>2
      <4>2. up[n - 1][s[k - 1]] = Upto(k - 1)
        <5>1. Good(k - 1)
          <6>1. k - 1 \notin Bad
            <7>1. ~(k <= k - 1)
              BY <2>2
            <7> HIDE DEF Bad
            <7> QED
              BY <2>1, <7>1
          <6> HIDE DEF Good
          <6> QED
            BY <4>1, <6>1
        <5> QED
          BY <4>1, <5>1
      <4>3. up[n][s[k]] = Append(up[n - 1][parent[s[k]]], s[k])
        <5>1. n # 0 /\ s[k] \notin BootPids \cup {0} /\ s[k] \in Pids
          BY <1>5, <2>2, <4>1
        <5>2. up[n] = Row(up[n - 1], n, parent)
          BY <1>4
        <5> HIDE DEF Upto
        <5> QED
          BY <5>1, <5>2 DEF Row
      <4>4. Append(Upto(k - 1), s[k]) = Upto(k)
        <5>1. Len(Upto(k - 1)) = k - 1
          BY <4>1
        <5> QED
          BY <4>1, <5>1
      <4> QED
        BY <1>5, <4>1, <4>2, <4>3, <4>4
    <3> QED
      BY <3>1, <3>2
  <2> QED
    BY <2>1, <2>3
<1>7. Len(s) \in 1 .. Len(s) /\ MaxPnum >= Len(s) - 1 /\ MaxPnum \in 0 .. MaxPnum
  BY <1>2, <1>5
<1>8. up[MaxPnum][s[Len(s)]] = Upto(Len(s))
  <2> HIDE DEF Upto
  <2> QED
    BY <1>6, <1>7
<1> QED
  BY <1>1, <1>5, <1>8
-----------------------------------------------------------------------------
\* A terminal's line: from its sche_main to the process it runs, and all that
\* belong to it.
Line(t) ==
  /\ Path(Stack(t), sche_list[t], parent_pid)
  /\ Stack(t)[1] = t
  /\ IsInjective(Stack(t))
  /\ ToSet(Stack(t)) = {p \in Live : noterminal[p] = t}

TreeInv == \A t \in Terminals : Line(t)

\* Processes that are all different are no more than there are pids.
LEMMA NoLongerThanPids ==
  ASSUME NEW s \in Seq(Pids), IsInjective(s)
  PROVE  Len(s) <= MaxPnum
<1> SUFFICES ASSUME Len(s) > MaxPnum PROVE FALSE
  BY ConstantsAssumption
<1>1. MaxPnum \in Nat /\ Len(s) \in Nat /\ s \in [1 .. Len(s) -> Pids]
  BY ConstantsAssumption
<1>2. IsFiniteSet(Pids) /\ Cardinality(Pids) = MaxPnum
  BY <1>1, FS_Interval, ConstantsAssumption DEF Pids
<1>3. IsFiniteSet(1 .. Len(s)) /\ Cardinality(1 .. Len(s)) = Len(s)
  BY <1>1, FS_Interval
<1>4. \E x, y \in 1 .. Len(s) : x # y /\ s[x] = s[y]
  BY <1>1, <1>2, <1>3, FS_PigeonHole
<1> QED
  BY <1>1, <1>4 DEF IsInjective

\* The elements of a sequence, by their places.
LEMMA PathFacts ==
  ASSUME NEW s, NEW top, NEW parent, Path(s, top, parent)
  PROVE  /\ s \in Seq(Pids) /\ Len(s) \in Nat /\ Len(s) >= 1 /\ Len(s) <= MaxPnum
         /\ DOMAIN s = 1 .. Len(s)
         /\ \A i \in 1 .. Len(s) : s[i] \in Pids /\ s[i] \in ToSet(s)
         /\ \A p \in ToSet(s) : \E i \in 1 .. Len(s) : p = s[i]
         /\ s[1] \in BootPids /\ s[Len(s)] = top
         /\ \A i \in 2 .. Len(s) : s[i] \notin BootPids /\ s[i] # 0 /\ parent[s[i]] = s[i - 1]
<1>1. s \in Seq(Pids) /\ Len(s) \in 1 .. MaxPnum /\ MaxPnum \in Nat
  BY ConstantsAssumption DEF Path
<1>2. DOMAIN s = 1 .. Len(s) /\ \A i \in 1 .. Len(s) : s[i] \in Pids
  BY <1>1
<1> QED
  BY <1>1, <1>2 DEF Path, ToSet

\* What parent says of others does not matter to a line.
LEMMA SamePath ==
  ASSUME NEW s, NEW top, NEW parent, Path(s, top, parent),
         NEW new, \A p \in ToSet(s) : new[p] = parent[p]
  PROVE  Path(s, top, new)
<1>1. \A i \in 2 .. Len(s) : s[i] \in ToSet(s)
  <2>1. \A i \in 2 .. Len(s) : i \in 1 .. Len(s)
    BY PathFacts
  <2> QED
    BY <2>1, PathFacts
<1>2. \A i \in 2 .. Len(s) : new[s[i]] = parent[s[i]]
  BY <1>1
<1> QED
  BY <1>2 DEF Path

\* A child of the last process makes the line longer.
LEMMA AppendPath ==
  ASSUME NEW s, NEW top, NEW parent, Path(s, top, parent), IsInjective(s),
         NEW fresh \in Pids, fresh \notin BootPids, fresh # 0, fresh \notin ToSet(s),
         NEW new, new[fresh] = top, \A p \in ToSet(s) : new[p] = parent[p]
  PROVE  /\ Path(Append(s, fresh), fresh, new) /\ IsInjective(Append(s, fresh))
         /\ ToSet(Append(s, fresh)) = ToSet(s) \cup {fresh}
         /\ Append(s, fresh)[1] = s[1]
<1> DEFINE L == Len(s)
           longer == Append(s, fresh)
<1>1. /\ s \in Seq(Pids) /\ L \in Nat /\ L >= 1 /\ L <= MaxPnum /\ DOMAIN s = 1 .. L
      /\ \A i \in 1 .. L : s[i] \in Pids /\ s[i] \in ToSet(s)
      /\ \A p \in ToSet(s) : \E i \in 1 .. L : p = s[i]
      /\ s[1] \in BootPids /\ s[L] = top
      /\ \A i \in 2 .. L : s[i] \notin BootPids /\ s[i] # 0 /\ parent[s[i]] = s[i - 1]
  BY PathFacts
<1>2. /\ longer \in Seq(Pids) /\ Len(longer) = L + 1 /\ longer[L + 1] = fresh
      /\ \A i \in 1 .. L : longer[i] = s[i]
      /\ DOMAIN longer = 1 .. L + 1
  BY <1>1
<1> HIDE DEF L, longer
<1>3. ToSet(longer) = ToSet(s) \cup {fresh}
  <2>1. \A p \in ToSet(longer) : p \in ToSet(s) \cup {fresh}
    <3> SUFFICES ASSUME NEW i \in 1 .. L + 1 PROVE longer[i] \in ToSet(s) \cup {fresh}
      BY <1>2 DEF ToSet
    <3>1. i = L + 1 \/ i \in 1 .. L
      BY <1>1
    <3> QED
      BY <1>1, <1>2, <3>1
  <2>2. fresh \in ToSet(longer)
    <3>1. L + 1 \in 1 .. L + 1
      BY <1>1
    <3> QED
      BY <1>2, <3>1 DEF ToSet
  <2>3. \A i \in 1 .. L : s[i] \in ToSet(longer)
    <3> SUFFICES ASSUME NEW i \in 1 .. L PROVE s[i] \in ToSet(longer)
      OBVIOUS
    <3>1. i \in 1 .. L + 1 /\ longer[i] = s[i]
      BY <1>1, <1>2
    <3> QED
      BY <1>2, <3>1 DEF ToSet
  <2> QED
    BY <1>1, <2>1, <2>2, <2>3
<1>4. IsInjective(longer)
  <2> SUFFICES ASSUME NEW i \in 1 .. L + 1, NEW j \in 1 .. L + 1, longer[i] = longer[j], i < j
               PROVE  FALSE
    BY <1>1, <1>2 DEF IsInjective
  <2>1. i \in 1 .. L /\ longer[i] = s[i] /\ s[i] # fresh
    BY <1>1, <1>2
  <2>2. CASE j = L + 1
    BY <1>2, <2>1, <2>2
  <2>3. CASE j # L + 1
    <3>0. j \in 1 .. L
      BY <1>1, <2>3
    <3>1. j \in 1 .. L /\ s[i] = s[j]
      BY <1>2, <2>1, <3>0
    <3>2. \A a, b \in 1 .. L : s[a] = s[b] => a = b
      BY <1>1 DEF IsInjective
    <3>3. i = j
      BY <2>1, <3>1, <3>2
    <3> QED
      BY <1>1, <3>3
  <2> QED
    BY <2>2, <2>3
<1>5. L + 1 <= MaxPnum
  BY <1>2, <1>4, NoLongerThanPids
<1>6. ASSUME NEW i \in 2 .. L + 1
      PROVE  longer[i] \notin BootPids \cup {0} /\ new[longer[i]] = longer[i - 1]
  <2>1. CASE i = L + 1
    <3>1. L \in 1 .. L /\ i - 1 = L
      BY <1>1, <2>1
    <3> QED
      BY <1>1, <1>2, <2>1, <3>1
  <2>2. CASE i # L + 1
    <3>1. i \in 2 .. L /\ i - 1 \in 1 .. L /\ i \in 1 .. L
      BY <1>1, <2>2
    <3>2. longer[i] = s[i] /\ longer[i - 1] = s[i - 1] /\ new[s[i]] = parent[s[i]]
      BY <1>1, <1>2, <3>1
    <3> QED
      BY <1>1, <3>1, <3>2
  <2> QED
    BY <2>1, <2>2
<1>7. longer[1] = s[1] /\ 1 \in 1 .. L /\ L + 1 \in 1 .. MaxPnum
  BY <1>1, <1>2, <1>5, ConstantsAssumption
<1>8. Path(longer, fresh, new)
  BY <1>1, <1>2, <1>6, <1>7 DEF Path
<1> QED
  BY <1>3, <1>4, <1>7, <1>8 DEF longer

\* Without its last process, a line ends with the parent of that one.
LEMMA FrontPath ==
  ASSUME NEW s, NEW top, NEW parent, Path(s, top, parent), IsInjective(s), top \notin BootPids
  PROVE  /\ Path(Front(s), parent[top], parent) /\ IsInjective(Front(s))
         /\ ToSet(Front(s)) = ToSet(s) \ {top}
         /\ Front(s)[1] = s[1] /\ Len(s) > 1
<1> DEFINE L == Len(s)
           shorter == Front(s)
<1>1. /\ s \in Seq(Pids) /\ L \in Nat /\ L >= 1 /\ L <= MaxPnum /\ DOMAIN s = 1 .. L
      /\ \A i \in 1 .. L : s[i] \in Pids /\ s[i] \in ToSet(s)
      /\ \A p \in ToSet(s) : \E i \in 1 .. L : p = s[i]
      /\ s[1] \in BootPids /\ s[L] = top
      /\ \A i \in 2 .. L : s[i] \notin BootPids /\ s[i] # 0 /\ parent[s[i]] = s[i - 1]
  BY PathFacts
<1>2. /\ L > 1 /\ MaxPnum \in Nat
  BY <1>1, ConstantsAssumption
<1>3. /\ shorter \in Seq(Pids) /\ Len(shorter) = L - 1
      /\ \A i \in 1 .. L - 1 : shorter[i] = s[i]
      /\ DOMAIN shorter = 1 .. L - 1
  BY <1>1, <1>2 DEF Front
<1> HIDE DEF L, shorter
<1>4. \A i, j \in 1 .. L : s[i] = s[j] => i = j
  BY <1>1 DEF IsInjective
<1>5. IsInjective(shorter)
  BY <1>1, <1>3, <1>4 DEF IsInjective
<1>6. ToSet(shorter) = ToSet(s) \ {top}
  <2>1. \A i \in 1 .. L - 1 : shorter[i] \in ToSet(s) \ {top}
    <3> SUFFICES ASSUME NEW i \in 1 .. L - 1 PROVE shorter[i] \in ToSet(s) \ {top}
      OBVIOUS
    <3>1. i \in 1 .. L /\ L \in 1 .. L /\ i # L
      BY <1>1
    <3> QED
      BY <1>1, <1>3, <1>4, <3>1
  <2>2. \A i \in 1 .. L : s[i] # top => s[i] \in ToSet(shorter)
    <3> SUFFICES ASSUME NEW i \in 1 .. L, s[i] # top PROVE s[i] \in ToSet(shorter)
      OBVIOUS
    <3>1. i \in 1 .. L - 1
      BY <1>1
    <3> QED
      BY <1>3, <3>1 DEF ToSet
  <2>3. ToSet(shorter) \subseteq ToSet(s) \ {top}
    BY <1>3, <2>1 DEF ToSet
  <2> QED
    BY <1>1, <2>2, <2>3
<1>7. /\ 1 \in 1 .. L - 1 /\ L - 1 \in 1 .. L - 1 /\ L - 1 \in 1 .. MaxPnum
      /\ L \in 2 .. L
  BY <1>1, <1>2
<1>8. shorter[1] = s[1] /\ shorter[L - 1] = parent[top]
  BY <1>1, <1>3, <1>7
<1>9. ASSUME NEW i \in 2 .. L - 1
      PROVE  shorter[i] \notin BootPids \cup {0} /\ parent[shorter[i]] = shorter[i - 1]
  <2>1. i \in 2 .. L /\ i - 1 \in 1 .. L - 1 /\ i \in 1 .. L - 1
    BY <1>1
  <2> QED
    BY <1>1, <1>3, <2>1
<1>10. Path(shorter, parent[top], parent)
  BY <1>1, <1>3, <1>7, <1>8, <1>9 DEF Path
<1> QED
  BY <1>2, <1>5, <1>6, <1>8, <1>10 DEF shorter, L

\* What the next state's line must look like.
LEMMA LineNext ==
  ASSUME NEW t, NEW s,
         Path(s, sche_list'[t], parent_pid'), s[1] = t, IsInjective(s),
         ToSet(s) = {p \in Live' : noterminal'[p] = t}
  PROVE  Line(t)' /\ Stack(t)' = s
<1>1. Ancestry(sche_list'[t], parent_pid') = s
  BY AncestryIs
<1>2. Stack(t)' = s
  BY <1>1 DEF Stack
<1> QED
  BY <1>2 DEF Line

LEMMA InitTree ==
  ASSUME Init
  PROVE  TreeInv /\ \A t \in Terminals : Stack(t) = <<t, NumTerminal + t>>
<1>1. IInv
  BY InitInv
<1>2. Live = BootPids \cup Shells /\ BootPids \cap Shells = {}
  <2>1. Held = {}
    BY DEF Init, Held
  <2> QED
    BY <2>1, ConstantsAssumption DEF Init, Live, BootPids, Shells, Pids
<1> SUFFICES ASSUME NEW t \in Terminals
             PROVE  Line(t) /\ Stack(t) = <<t, NumTerminal + t>>
  BY DEF TreeInv
<1> DEFINE s == <<t, NumTerminal + t>>
<1>3. t \in BootPids /\ t \in Pids /\ NumTerminal + t \in Pids /\ NumTerminal + t \in Shells
  BY ConstantsAssumption DEF Terminals, BootPids, Pids, Shells
<1>4. parent_pid[NumTerminal + t] = t /\ sche_list[t] = NumTerminal + t
  BY <1>3, ConstantsAssumption DEF Init, Shells, Terminals
<1>5. Path(s, sche_list[t], parent_pid)
  <2>1. NumTerminal + t \notin BootPids \cup {0}
    BY ConstantsAssumption DEF BootPids, Terminals
  <2> QED
    BY <1>3, <1>4, <2>1, ConstantsAssumption DEF Path
<1>6. IsInjective(s) /\ s[1] = t
  BY <1>2, <1>3 DEF IsInjective
<1>7. ToSet(s) = {p \in Live : noterminal[p] = t}
  <2>1. ToSet(s) = {t, NumTerminal + t}
    BY DEF ToSet
  <2>2. \A p \in BootPids \cup Shells : noterminal[p] = t <=> p = t \/ p = NumTerminal + t
    BY <1>3, ConstantsAssumption DEF Init, Shells, BootPids, Pids, Terminals
  <2> QED
    BY <1>2, <1>3, <2>1, <2>2
<1>8. Stack(t) = s
  BY <1>5, AncestryIs DEF Stack
<1> QED
  BY <1>5, <1>6, <1>7, <1>8 DEF Line

\* Steps that change no family.
LEMMA QuietTree ==
  ASSUME TreeInv, Live' = Live, UNCHANGED <<sche_list, parent_pid, noterminal>>
  PROVE  TreeInv' /\ \A t \in Terminals : Stack(t)' = Stack(t)
<1>1. \A t : Stack(t)' = Stack(t)
  BY DEF Stack
<1> QED
  BY <1>1 DEF TreeInv, Line, Terminals

\* execute adds the child below its caller.
LEMMA ExecuteEffect ==
  ASSUME IInv, ExecuteProgram
  PROVE  \E fresh \in Pids \ pid_table :
           /\ fresh \notin BootPids \cup {0} /\ fresh \notin Live
           /\ Live' = Live \cup {fresh}
           /\ sche_list' = [sche_list EXCEPT ![cur_sche_node] = fresh]
           /\ parent_pid' = [parent_pid EXCEPT ![fresh] = cpu]
           /\ noterminal' = [noterminal EXCEPT ![fresh] = cur_sche_node]
           /\ UNCHANGED <<cur_sche_node, nowterminalno>>
<1> USE ConstantFacts, RunningIsLive
<1>1. PICK fresh \in FreePids, fd \in Fds :
        /\ pid_table' = pid_table \cup {fresh}
        /\ ExecutePcbs(fresh, fd)
        /\ sche_list' = [sche_list EXCEPT ![noterminal[cpu]] = fresh]
  BY DEF ExecuteProgram
<1>2. fresh \in Pids \ pid_table /\ fresh \notin Live /\ fresh \notin BootPids \cup {0}
  BY DEF FreePids, Live, IInv, Family
<1>3. checking' = checking /\ Held' = Held
  BY DEF ExecuteProgram, Held
<1>4. \A p \in Pids : checking[p] # fresh
  BY <1>2 DEF IInv, Holding
<1>5. Live' = Live \cup {fresh}
  BY <1>1, <1>2, <1>3, <1>4 DEF Live, Held
<1> QED
  BY <1>1, <1>2, <1>5 DEF ExecutePcbs, ExecuteProgram

LEMMA ExecuteTree ==
  ASSUME IInv, TreeInv, ExecuteProgram
  PROVE  /\ TreeInv'
         /\ \E fresh \in Pids \ Live :
              \A t \in Terminals :
                Stack(t)' = IF t = cur_sche_node THEN Append(Stack(t), fresh) ELSE Stack(t)
<1> USE ConstantFacts, RunningIsLive
<1>1. PICK fresh \in Pids \ pid_table :
           /\ fresh \notin BootPids \cup {0} /\ fresh \notin Live
           /\ Live' = Live \cup {fresh}
           /\ sche_list' = [sche_list EXCEPT ![cur_sche_node] = fresh]
           /\ parent_pid' = [parent_pid EXCEPT ![fresh] = cpu]
           /\ noterminal' = [noterminal EXCEPT ![fresh] = cur_sche_node]
  BY ExecuteEffect
<1>2. /\ Live \subseteq Pids
      /\ \A p \in Live : parent_pid'[p] = parent_pid[p] /\ noterminal'[p] = noterminal[p]
      /\ parent_pid'[fresh] = cpu /\ noterminal'[fresh] = cur_sche_node
      /\ sche_list'[cur_sche_node] = fresh
      /\ \A t \in Terminals \ {cur_sche_node} : sche_list'[t] = sche_list[t]
  BY <1>1 DEF IInv, TypeOK, Live
<1>3. ASSUME NEW t \in Terminals
      PROVE  /\ Line(t)'
             /\ Stack(t)' = IF t = cur_sche_node THEN Append(Stack(t), fresh) ELSE Stack(t)
  <2> DEFINE s == Stack(t)
  <2>1. /\ Path(s, sche_list[t], parent_pid) /\ s[1] = t /\ IsInjective(s)
        /\ ToSet(s) = {p \in Live : noterminal[p] = t}
    BY DEF TreeInv, Line
  <2> HIDE DEF s
  <2>2. \A p \in ToSet(s) : parent_pid'[p] = parent_pid[p]
    BY <1>2, <2>1
  <2>3. CASE t # cur_sche_node
    <3>1. Path(s, sche_list'[t], parent_pid')
      <4>1. sche_list'[t] = sche_list[t]
        BY <1>2, <2>3
      <4> QED
        BY <2>1, <2>2, <4>1, SamePath
    <3>2. {p \in Live' : noterminal'[p] = t} = {p \in Live : noterminal[p] = t}
      BY <1>1, <1>2, <2>3
    <3>3. Line(t)' /\ Stack(t)' = s
      BY <2>1, <3>1, <3>2, LineNext
    <3> QED
      BY <2>3, <3>3 DEF s
  <2>4. CASE t = cur_sche_node
    <3> DEFINE new == Append(s, fresh)
    <3>1. /\ fresh \notin ToSet(s) /\ sche_list'[t] = fresh
          /\ sche_list[t] = cpu /\ parent_pid'[fresh] = sche_list[t]
      BY <1>1, <1>2, <2>1, <2>4
    <3>2. /\ Path(new, fresh, parent_pid') /\ IsInjective(new)
          /\ ToSet(new) = ToSet(s) \cup {fresh} /\ new[1] = t
      <4>1. fresh \in Pids /\ fresh \notin BootPids /\ fresh # 0
        BY <1>1
      <4> QED
        BY <2>1, <2>2, <3>1, <4>1, AppendPath
    <3> HIDE DEF new
    <3>3. ToSet(new) = {p \in Live' : noterminal'[p] = t}
      BY <1>1, <1>2, <2>1, <2>4, <3>2
    <3>4. Line(t)' /\ Stack(t)' = new
      BY <3>1, <3>2, <3>3, LineNext
    <3> QED
      BY <2>4, <3>4 DEF new, s
  <2> QED
    BY <2>3, <2>4
<1> QED
  BY <1>1, <1>3 DEF TreeInv, Terminals

\* halt takes the caller off its terminal's line.
LEMMA HaltTree ==
  ASSUME IInv, TreeInv, Halt
  PROVE  /\ TreeInv' /\ Len(Stack(cur_sche_node)) > 1
         /\ UNCHANGED <<cur_sche_node, nowterminalno>>
         /\ \A t \in Terminals :
              Stack(t)' = IF t = cur_sche_node THEN Front(Stack(t)) ELSE Stack(t)
<1> USE ConstantFacts, RunningIsLive
<1>1. /\ cpu \in Live \ BootPids /\ Held' = Held
      /\ UNCHANGED <<parent_pid, noterminal, cur_sche_node, nowterminalno>>
  BY DEF Halt, InUserMode, Held
<1>2. Live' = Live \ {cpu}
  BY <1>1 DEF Halt, Live, GiveupPid
<1>3. noterminal[parent_pid[cpu]] = cur_sche_node
  BY <1>1 DEF IInv, Family
<1>4. /\ sche_list'[cur_sche_node] = parent_pid[cpu]
      /\ \A t \in Terminals \ {cur_sche_node} : sche_list'[t] = sche_list[t]
  BY <1>3 DEF Halt, ForegroundAfterHalt, IInv, TypeOK
<1>5. ASSUME NEW t \in Terminals
      PROVE  /\ Line(t)' /\ (t = cur_sche_node => Len(Stack(t)) > 1)
             /\ Stack(t)' = IF t = cur_sche_node THEN Front(Stack(t)) ELSE Stack(t)
  <2> DEFINE s == Stack(t)
  <2>1. /\ Path(s, sche_list[t], parent_pid) /\ s[1] = t /\ IsInjective(s)
        /\ ToSet(s) = {p \in Live : noterminal[p] = t}
    BY DEF TreeInv, Line
  <2> HIDE DEF s
  <2>2. CASE t # cur_sche_node
    <3>1. sche_list'[t] = sche_list[t] /\ parent_pid' = parent_pid
      BY <1>1, <1>4, <2>2
    <3>2. ToSet(s) = {p \in Live' : noterminal'[p] = t}
      BY <1>1, <1>2, <2>1, <2>2
    <3>3. Line(t)' /\ Stack(t)' = s
      BY <2>1, <3>1, <3>2, LineNext
    <3> QED
      BY <2>2, <3>3 DEF s
  <2>3. CASE t = cur_sche_node
    <3> DEFINE new == Front(s)
    <3>1. sche_list[t] = cpu /\ cpu \notin BootPids /\ sche_list'[t] = parent_pid[cpu]
      BY <1>1, <1>4, <2>3
    <3>2. /\ Path(new, parent_pid[cpu], parent_pid) /\ IsInjective(new)
          /\ ToSet(new) = ToSet(s) \ {cpu} /\ new[1] = t /\ Len(s) > 1
      BY <2>1, <3>1, FrontPath
    <3> HIDE DEF new
    <3>3. ToSet(new) = {p \in Live' : noterminal'[p] = t}
      BY <1>1, <1>2, <2>1, <3>2
    <3>4. Path(new, sche_list'[t], parent_pid')
      BY <1>1, <3>1, <3>2
    <3>5. Line(t)' /\ Stack(t)' = new
      BY <3>2, <3>3, <3>4, LineNext
    <3> QED
      BY <2>3, <3>2, <3>5 DEF new, s
  <2> QED
    BY <2>2, <2>3
<1> QED
  BY <1>1, <1>5 DEF TreeInv, Terminals

\* The other steps leave every family as it is; the turn only moves from a
\* terminal whose process is no sche_main.
LEMMA OtherTree ==
  ASSUME IInv, TreeInv, [Next]_vars, ~ExecuteProgram, ~Halt
  PROVE  /\ TreeInv' /\ \A t \in Terminals : Stack(t)' = Stack(t)
         /\ \/ UNCHANGED <<cur_sche_node, nowterminalno>>
            \/ Tick /\ UNCHANGED nowterminalno
            \/ UNCHANGED cur_sche_node /\ \E no \in Terminals : AltFn(no)
<1> USE ConstantFacts, RunningIsLive
<1>1. ASSUME UNCHANGED <<pid_table, checking, sche_list, parent_pid, noterminal>>
      PROVE  TreeInv' /\ \A t \in Terminals : Stack(t)' = Stack(t)
  <2>1. Live' = Live
    BY <1>1 DEF Live, Held
  <2> QED
    BY <1>1, <2>1, QuietTree
<1>2. CASE (\E cmd \in Commands : ExecuteFails(cmd)) \/ UNCHANGED vars
  BY <1>1, <1>2 DEF ExecuteFails, vars, pcbs, run
<1>3. CASE ExecuteNoProgram \/ Open \/ Close
  BY <1>1, <1>3 DEF ExecuteNoProgram, Open, Close, run
<1>4. CASE ExecuteRtc
  <2>1. PICK pid \in FreePids : /\ pid_table' = pid_table \cup {pid}
                                /\ checking' = [checking EXCEPT ![cpu] = pid]
    BY <1>4 DEF ExecuteRtc
  <2>2. /\ pid \in Pids /\ pid \notin pid_table /\ pid \notin Live /\ pid # NoPid
        /\ checking[cpu] = NoPid
    BY <1>4 DEF ExecuteRtc, MayExecute, FreePids, Live
  <2>3. Held' = Held \cup {pid}
    BY <2>1, <2>2 DEF Held, IInv, TypeOK
  <2>4. Live' = Live
    BY <2>1, <2>2, <2>3 DEF Live
  <2> QED
    BY <1>4, <2>4, QuietTree DEF ExecuteRtc, run
<1>5. CASE RtcReadReturns
  <2>1. checking[cpu] # NoPid /\ checking[cpu] \in Held
    BY <1>5 DEF RtcReadReturns, Held
  <2>2. pid_table' = pid_table \ {checking[cpu]} /\ checking' = [checking EXCEPT ![cpu] = NoPid]
    BY <1>5 DEF RtcReadReturns, GiveupPid
  <2>3. Held' = Held \ {checking[cpu]}
    <3>1. \A p \in Pids : checking[p] = checking[cpu] => p = cpu
      BY <2>1 DEF IInv, Holding
    <3> QED
      BY <2>2, <3>1 DEF IInv, TypeOK, Held
  <2>4. Live' = Live
    BY <2>1, <2>2, <2>3 DEF Live
  <2> QED
    BY <1>5, <2>4, QuietTree DEF RtcReadReturns, pcbs, run
<1>6. CASE Tick
  BY <1>1, <1>6 DEF Tick, Schedule
<1>7. CASE \E no \in Terminals : AltFn(no)
  BY <1>1, <1>7 DEF AltFn, ShowTerminal, run
<1> QED
  BY <1>2, <1>3, <1>4, <1>5, <1>6, <1>7 DEF Next

LEMMA StepTree == ASSUME IInv, TreeInv, [Next]_vars PROVE TreeInv'
<1>1. CASE ExecuteProgram
  BY <1>1, ExecuteTree
<1>2. CASE Halt
  BY <1>2, HaltTree
<1> QED
  BY <1>1, <1>2, OtherTree

LEMMA TreeInvariant == Spec => [](IInv /\ TreeInv)
<1>1. Init => IInv /\ TreeInv
  BY InitInv, InitTree
<1>2. IInv /\ TreeInv /\ [Next]_vars => (IInv /\ TreeInv)'
  BY NextInv, StepTree
<1> QED
  BY <1>1, <1>2, PTL DEF Spec

\* However many pids and terminals there are and whatever programs execute, the
\* live processes are one line per terminal, and no pid is leaked or shared.
THEOREM ProcessTreeHolds == Spec => []ProcessTree
<1>1. ASSUME IInv, TreeInv PROVE ProcessTree
  <2>1. ASSUME NEW t \in Terminals
        PROVE  /\ Head(Stack(t)) = t /\ IsInjective(Stack(t))
               /\ ToSet(Stack(t)) = {p \in Live : noterminal[p] = t}
    <3>1. Line(t)
      BY <1>1 DEF TreeInv
    <3> QED
      BY <3>1, PathFacts DEF Line
  <2>2. Live = UNION {ToSet(Stack(t)) : t \in Terminals}
    <3>1. \A p \in Live : noterminal[p] \in Terminals
      BY <1>1 DEF IInv, Family
    <3> QED
      BY <2>1, <3>1
  <2>3. Held \subseteq pid_table
    BY <1>1 DEF IInv, Holding, Held
  <2> QED
    BY <1>1, <2>1, <2>2, <2>3 DEF ProcessTree, IInv, Holding
<1> QED
  BY <1>1, TreeInvariant, PTL
-----------------------------------------------------------------------------
LEMMA SessionsInit == Init => SessionsView!Init
BY InitTree DEF SessionsView!Init, SessionsView!Terminals, Terminals, Init

\* Every step of Process is one of Sessions or changes nothing that it shows.
LEMMA SessionsStep ==
  ASSUME IInv, TreeInv, [Next]_vars
  PROVE  [SessionsView!Next]_(SessionsView!vars)
<1> DEFINE stack == [t \in Terminals |-> Stack(t)]
           turn  == cur_sche_node
<1>1. turn \in Terminals /\ SessionsView!Terminals = Terminals
  BY RunningIsLive DEF SessionsView!Terminals, Terminals
<1>2. \A t \in Terminals : stack[t] = Stack(t) /\ Line(t)
  BY DEF TreeInv
<1>3. CASE ExecuteProgram
  <2>1. PICK fresh \in Pids \ Live :
          \A t \in Terminals : Stack(t)' = IF t = turn THEN Append(Stack(t), fresh) ELSE Stack(t)
    BY <1>3, ExecuteTree
  <2>2. stack' = [stack EXCEPT ![turn] = Append(stack[turn], fresh)]
    <3>1. [t \in Terminals |-> Stack(t)'] = [stack EXCEPT ![turn] = Append(stack[turn], fresh)]
      BY <1>1, <2>1
    <3> QED
      BY <3>1 DEF Terminals
  <2>3. fresh \in Pids \ SessionsView!InUse
    <3>1. \A t \in Terminals : ToSet(Stack(t)) \subseteq Live
      BY <1>2 DEF Line
    <3>2. SessionsView!InUse = UNION {ToSet(stack[t]) : t \in Terminals}
      BY <1>1 DEF SessionsView!InUse, SessionsView!ToSet, ToSet
    <3>3. \A t \in Terminals : ToSet(stack[t]) \subseteq Live
      BY <1>2, <3>1
    <3> HIDE DEF stack
    <3> QED
      BY <3>2, <3>3
  <2>4. turn' = turn /\ nowterminalno' = nowterminalno
    BY <1>3 DEF ExecuteProgram
  <2> QED
    BY <2>2, <2>3, <2>4 DEF SessionsView!Next, SessionsView!Push
<1>4. CASE Halt
  <2>1. /\ Len(Stack(turn)) > 1 /\ turn' = turn /\ nowterminalno' = nowterminalno
        /\ \A t \in Terminals : Stack(t)' = IF t = turn THEN Front(Stack(t)) ELSE Stack(t)
    BY <1>4, HaltTree
  <2>2. stack' = [stack EXCEPT ![turn] = Front(stack[turn])]
    <3>1. [t \in Terminals |-> Stack(t)'] = [stack EXCEPT ![turn] = Front(stack[turn])]
      BY <1>1, <2>1
    <3> QED
      BY <3>1 DEF Terminals
  <2>3. SessionsView!Depth(turn) > 1
    BY <1>1, <2>1 DEF SessionsView!Depth
  <2> QED
    BY <2>1, <2>2, <2>3 DEF SessionsView!Next, SessionsView!Pop, SessionsView!Front, Front
<1>5. CASE ~ExecuteProgram /\ ~Halt
  <2>1. /\ \A t \in Terminals : Stack(t)' = Stack(t)
        /\ \/ UNCHANGED <<cur_sche_node, nowterminalno>>
           \/ Tick /\ UNCHANGED nowterminalno
           \/ UNCHANGED cur_sche_node /\ \E no \in Terminals : AltFn(no)
    BY <1>5, OtherTree
  <2>2. stack' = stack
    <3>1. [t \in Terminals |-> Stack(t)'] = stack
      BY <2>1
    <3> QED
      BY <3>1 DEF Terminals
  <2>3. ASSUME cpu \notin BootPids PROVE SessionsView!Depth(turn) > 1
    <3>1. Path(Stack(turn), cpu, parent_pid) /\ IsInjective(Stack(turn))
      BY <1>1, <1>2, RunningIsLive DEF Line
    <3> QED
      BY <1>1, <2>3, <3>1, FrontPath DEF SessionsView!Depth
  <2>4. CASE UNCHANGED <<cur_sche_node, nowterminalno>>
    <3>1. UNCHANGED <<stack, cur_sche_node, nowterminalno>>
      BY <2>2, <2>4
    <3> QED
      BY <3>1 DEF SessionsView!vars
  <2>5. CASE Tick /\ UNCHANGED nowterminalno
    <3>1. cpu \notin BootPids /\ turn' = NextNode(turn)
      BY <2>5 DEF Tick, InterruptsOn, Schedule
    <3>2. NextNode(turn) = (turn % NumTerminal) + 1
      BY <1>1, ConstantsAssumption DEF NextNode, Terminals
    <3> QED
      BY <2>2, <2>3, <2>5, <3>1, <3>2 DEF SessionsView!Next, SessionsView!Rotate
  <2>6. CASE UNCHANGED cur_sche_node /\ \E no \in Terminals : AltFn(no)
    <3>1. cpu \notin BootPids /\ \E t \in Terminals : nowterminalno' = t
      BY <2>6 DEF AltFn, InterruptsOn, ShowTerminal
    <3> QED
      BY <1>1, <2>2, <2>3, <2>6, <3>1 DEF SessionsView!Next, SessionsView!Show
  <2> QED
    BY <2>1, <2>4, <2>5, <2>6
<1> QED
  BY <1>3, <1>4, <1>5

\* Process implements Sessions, but for Sessions' fairness: whatever the programs
\* do, each step of the kernel is a push, a pop, a turn or a switch of the screen
\* of terminals that are stacks of processes, or it cannot be told from no step.
THEOREM SessionsImplemented ==
  Spec => SessionsView!Init /\ [][SessionsView!Next]_(SessionsView!vars)
<1>1. IInv /\ TreeInv /\ [Next]_vars => [SessionsView!Next]_(SessionsView!vars)
  BY SessionsStep
<1> QED
  BY <1>1, SessionsInit, TreeInvariant, PTL DEF Spec
-----------------------------------------------------------------------------
(* The boot of the terminals *)

\* The terminals whose first shell has not been entered.
Unstarted == {b \in BootPids : at[b] # "done"}

BootVarsOK == at \in [BootPids -> Statements] /\ child \in [BootPids -> Pids \cup {NoPid}]

\* Between two statements of the first execute of boot process b, which holds the
\* new pid c: what is true of everything but b and c, and what of b and c does not
\* depend on the statement.
Starting(U, b, c) ==
  /\ TypeOK
  /\ b \in U /\ cur_sche_node = b /\ cpu = b /\ c \in Live \ BootPids
  /\ 0 \in pid_table /\ BootPids \subseteq Live
  /\ \A t \in BootPids : noterminal[t] = t
  /\ \A p \in Live \ {c} : noterminal[p] \in Terminals
  /\ \A t \in Terminals \ {b} : sche_list[t] \in Live \ {c} /\ noterminal[sche_list[t]] = t
  /\ \A p \in Live \ (BootPids \cup {c}) :
       /\ parent_pid[p] \in Live \ {b, c}
       /\ noterminal[parent_pid[p]] = noterminal[p]
       /\ parent_pid[p] # sche_list[noterminal[p]]
  /\ \A p, q \in Live \ (BootPids \cup {c}) : parent_pid[p] = parent_pid[q] => p = q
  /\ \A p \in Pids : checking[p] # NoPid =>
       /\ p \in Live \ (BootPids \cup {c}) /\ noterminal[p] # b
       /\ p = sche_list[noterminal[p]]
       /\ checking[p] \in pid_table \ ({0} \cup BootPids)
  /\ \A p, q \in Pids : checking[p] = checking[q] => p = q \/ checking[p] = NoPid
  /\ \A t \in Terminals \ {b} :
       kesp[sche_list[t]] = "scheduler" \/ (t \in U /\ kesp[sche_list[t]] = "init")
  /\ \A p \in Live \ {b, c} : p # sche_list[noterminal[p]] => kesp[p] = "execute"
  /\ \A t \in BootPids \ {b} : fd_flags[t] = StdFds
  /\ \A t \in U \ {b} : sche_list[t] = t
  /\ \A t \in Terminals \ {b} : sche_list[t] \in BootPids => t \in U
  /\ sche_list[b] \in {b, c}
  /\ \A p \in Live \ {b, c} : visible[p] <=> nowterminalno # b /\ p = sche_list[nowterminalno]
  /\ \A p \in Live \ {b, c} : StdFds \cup handed[p] \subseteq fd_flags[p]
  /\ handed[b] \subseteq StdFds

\* What the statements up to s have made of b and c.
Made(s, b, c) ==
  /\ fd_flags[b] = IF s \in {"pcb", "list", "load"} THEN StdFds \cup {2} ELSE StdFds
  /\ sche_list[b] = IF s \in {"open", "pcb", "list"} THEN b ELSE c
  /\ s \in {"open", "pcb"} => (visible[b] <=> nowterminalno = b)
  /\ s \in {"list", "load", "tss", "enter"} =>
       /\ parent_pid[c] = b /\ noterminal[c] = b /\ kesp[c] = "null" /\ handed[c] = {}
       /\ visible[c] <=> nowterminalno = b
       /\ ~visible[b]
  /\ s \in {"tss", "enter"} => page128 = c /\ fd_flags[c] = StdFds
  /\ s = "enter" => esp0 = c

\* No first execute is between two statements, or the running one is.
Resting(U) == IInvBut(U) /\ \A b \in U : at[b] = "find"
Executing(U) ==
  \E b \in U, c \in Pids, s \in Statements \ {"find", "done"} :
    /\ b = cpu /\ c = child[b] /\ s = at[b]
    /\ \A d \in U \ {b} : at[d] = "find"
    /\ IF s = "occupy" THEN IInvBut(U) /\ c \in FreePids
       ELSE Starting(U, b, c) /\ Made(s, b, c)

BootInv == BootVarsOK /\ \E U \in SUBSET Terminals : U = Unstarted /\ (Resting(U) \/ Executing(U))
-----------------------------------------------------------------------------
LEMMA BootInitInv == BootInit => BootInv
<1> SUFFICES ASSUME BootInit PROVE BootInv
  OBVIOUS
<1> DEFINE U == BootPids
<1> USE ConstantFacts
<1>1. U \in SUBSET Terminals /\ U = Unstarted /\ \A b \in U : at[b] = "find"
  BY DEF BootInit, Unstarted
<1>2. Held = {} /\ Live = BootPids /\ BootPids \subseteq Pids
  BY DEF BootInit, Held, Live
<1>3. 1 \in BootPids /\ 1 \in Terminals /\ 1 # 0
  BY ConstantsAssumption DEF BootPids, Terminals
<1>4. \A p \in BootPids : /\ noterminal[p] = p /\ fd_flags[p] = StdFds /\ sche_list[p] = p
                          /\ visible[p] <=> p = 1
                          /\ p # 1 => kesp[p] = "init"
  BY DEF BootInit
<1>5. TypeOK
  <2>1. /\ pid_table \subseteq Pids
        /\ parent_pid \in [Pids -> Pids]
        /\ noterminal \in [Pids -> Terminals \cup {0}]
        /\ visible \in [Pids -> BOOLEAN]
    BY DEF BootInit
  <2>2. fd_flags \in [Pids -> SUBSET Fds] /\ handed \in [Pids -> SUBSET Fds]
    BY DEF BootInit
  <2>3. kesp \in [Pids -> Frames]
    BY DEF BootInit, Frames
  <2>4. /\ sche_list \in [Terminals -> Pids]
        /\ cur_sche_node \in Terminals
        /\ nowterminalno \in Terminals
        /\ cpu \in Pids /\ page128 \in Pids /\ esp0 \in Pids
        /\ checking \in [Pids -> Pids \cup {NoPid}]
    BY <1>3 DEF BootInit
  <2> QED
    BY <2>1, <2>2, <2>3, <2>4 DEF TypeOK
<1>6. Family
  BY <1>2, <1>4 DEF Family, BootInit
<1>7. Holding
  BY DEF Holding, BootInit
<1>8. ContextBut(U) /\ RoomBut(U)
  BY <1>3, <1>4 DEF ContextBut, RoomBut, BootInit
<1>9. VisibleIsForeground
  BY <1>2, <1>3, <1>4 DEF VisibleIsForeground, BootInit
<1>10. SavedBut(U)
  <2>1. cur_sche_node = 1
    BY DEF BootInit
  <2> QED
    BY <1>2, <1>4, <2>1 DEF SavedBut
<1>11. HandedStayOpen
  BY <1>2, <1>4 DEF HandedStayOpen, BootInit
<1>12. Resting(U)
  BY <1>1, <1>5, <1>6, <1>7, <1>8, <1>9, <1>10, <1>11 DEF Resting, IInvBut
<1>13. BootVarsOK
  BY DEF BootInit, BootVarsOK, Statements
<1> QED
  BY <1>1, <1>12, <1>13 DEF BootInv
-----------------------------------------------------------------------------
\* A step of the first execute of cpu to the statement `to'.
LEMMA StepFacts ==
  ASSUME BootVarsOK, NEW from \in Statements, NEW to \in Statements, cpu \in BootPids,
         Step(from, to), child' = child
  PROVE  /\ BootVarsOK' /\ at[cpu] = from /\ at'[cpu] = to
         /\ \A b \in BootPids \ {cpu} : at'[b] = at[b]
BY DEF BootVarsOK, Step

\* get_new_pid has found a pid, and takes it.
LEMMA OccupyStarting ==
  ASSUME NEW U \in SUBSET Terminals, IInvBut(U), NEW b \in U, b = cpu, NEW c \in FreePids,
         pid_table' = pid_table \cup {c},
         UNCHANGED <<pcbs, sche_list, nowterminalno, run, checking>>
  PROVE  Starting(U, b, c)' /\ Made("open", b, c)'
<1> USE ConstantFacts, RunningIsLiveBut
<1>1. UNCHANGED <<parent_pid, noterminal, visible, fd_flags, kesp, handed, sche_list,
                  nowterminalno, cur_sche_node, cpu, page128, esp0, checking>>
  BY DEF pcbs, run
<1>2. /\ c \in Pids /\ c \notin pid_table /\ c \notin Live
      /\ c # 0 /\ c # b /\ c \notin BootPids
  BY DEF FreePids, Live, IInvBut, Family
<1>3. \A p \in Pids : checking[p] # c
  BY <1>2 DEF IInvBut, Holding
<1>4. Held' = Held
  BY <1>1 DEF Held
<1>5. Live' = Live \cup {c} /\ Live' \ {c} = Live
  BY <1>2, <1>3, <1>4 DEF Live, Held
<1>6. b \in BootPids /\ cur_sche_node = b /\ sche_list[b] = b /\ noterminal[b] = b
  BY DEF IInvBut, RoomBut, Family
<1>7. TypeOK'
  BY <1>1, <1>2 DEF IInvBut, TypeOK
<1>8. \A p \in Live \ BootPids : parent_pid[p] \in Live \ {b, c}
  BY <1>2, <1>6 DEF IInvBut, Family
<1>9. \A p \in Pids : checking[p] # NoPid => noterminal[p] # b /\ p \in Live \ BootPids
  BY <1>6 DEF IInvBut, Holding
<1>10. handed[b] \subseteq StdFds /\ fd_flags[b] = StdFds
  BY <1>6 DEF IInvBut, RoomBut, HandedStayOpen
<1>11. visible[b] <=> nowterminalno = b
  BY <1>6 DEF IInvBut, VisibleIsForeground, Family, TypeOK
<1>12. \A p \in Live \ {b} : visible[p] <=> nowterminalno # b /\ p = sche_list[nowterminalno]
  BY <1>6 DEF IInvBut, VisibleIsForeground
<1>13. Made("open", b, c)'
  BY <1>1, <1>6, <1>10, <1>11 DEF Made
<1>14. c \in Live' \ BootPids /\ 0 \in pid_table' /\ BootPids \subseteq Live'
  BY <1>2, <1>5 DEF IInvBut, Family
<1>15. \A p \in Live : noterminal[p] \in Terminals
  BY DEF IInvBut, Family
<1>16. \A t \in Terminals \ {b} : sche_list[t] \in Live /\ noterminal[sche_list[t]] = t
  BY DEF IInvBut, Family
<1>17. /\ \A t \in BootPids : noterminal[t] = t
       /\ \A p \in Live \ BootPids :
            /\ noterminal[parent_pid[p]] = noterminal[p]
            /\ parent_pid[p] # sche_list[noterminal[p]]
       /\ \A p, q \in Live \ BootPids : parent_pid[p] = parent_pid[q] => p = q
  BY DEF IInvBut, Family
<1>18. /\ \A p \in Pids : checking[p] # NoPid =>
            /\ p = sche_list[noterminal[p]]
            /\ checking[p] \in pid_table' \ ({0} \cup BootPids)
       /\ \A p, q \in Pids : checking[p] = checking[q] => p = q \/ checking[p] = NoPid
  BY DEF IInvBut, Holding
<1>19. /\ \A t \in Terminals \ {b} :
            kesp[sche_list[t]] = "scheduler" \/ (t \in U /\ kesp[sche_list[t]] = "init")
       /\ \A p \in Live : p # sche_list[noterminal[p]] => kesp[p] = "execute"
  BY <1>6 DEF IInvBut, SavedBut
<1>20. /\ \A t \in BootPids \ {b} : fd_flags[t] = StdFds
       /\ \A t \in U \ {b} : sche_list[t] = t
       /\ \A t \in Terminals \ {b} : sche_list[t] \in BootPids => t \in U
       /\ \A p \in Live : StdFds \cup handed[p] \subseteq fd_flags[p]
  BY <1>6 DEF IInvBut, RoomBut, HandedStayOpen
<1>21. Live' \ {b, c} = Live \ {b} /\ Live' \ (BootPids \cup {c}) = Live \ BootPids
  BY <1>2, <1>5
<1>22. Starting(U, b, c)'
  BY <1>1, <1>5, <1>6, <1>7, <1>8, <1>9, <1>10, <1>12, <1>14, <1>15, <1>16, <1>17, <1>18, <1>19,
     <1>20, <1>21 DEF Starting
<1> QED
  BY <1>1, <1>13, <1>22

\* What the statements of execute change belongs to the two processes.
LEMMA StartingStep ==
  ASSUME NEW U \in SUBSET Terminals, NEW b, NEW c, Starting(U, b, c), TypeOK',
         UNCHANGED <<pid_table, nowterminalno, cur_sche_node, cpu, checking>>,
         \A p \in Pids \ {b, c} :
           /\ parent_pid'[p] = parent_pid[p] /\ noterminal'[p] = noterminal[p]
           /\ visible'[p] = visible[p] /\ fd_flags'[p] = fd_flags[p]
           /\ kesp'[p] = kesp[p] /\ handed'[p] = handed[p],
         noterminal'[b] = noterminal[b], handed'[b] = handed[b],
         \A t \in Terminals \ {b} : sche_list'[t] = sche_list[t],
         sche_list'[b] \in {b, c}
  PROVE  Starting(U, b, c)'
<1> USE ConstantFacts
<1>1. Live' = Live /\ Live \subseteq Pids
  BY DEF Live, Held, Starting, TypeOK
<1>2. b \in BootPids /\ b \in Live /\ c \notin BootPids
  BY DEF Starting
<1>3. \A t \in BootPids : t # c /\ noterminal'[t] = t
  BY <1>1, <1>2 DEF Starting
<1>4. \A p \in Live \ {c} : p \in Pids /\ noterminal'[p] = noterminal[p] /\ noterminal[p] \in Terminals
  BY <1>1 DEF Starting
<1>5. \A t \in Terminals \ {b} :
        /\ sche_list[t] \in Live \ {b, c} /\ noterminal[sche_list[t]] = t
        /\ kesp'[sche_list[t]] = kesp[sche_list[t]]
  BY <1>1, <1>2 DEF Starting
<1>6. \A p \in Live \ (BootPids \cup {c}) :
        /\ p \in Live \ {b, c} /\ parent_pid'[p] = parent_pid[p] /\ noterminal'[p] = noterminal[p]
        /\ parent_pid[p] \in Live \ {b, c}
        /\ noterminal'[parent_pid[p]] = noterminal[p]
        /\ parent_pid[p] # sche_list'[noterminal[p]]
  BY <1>1, <1>2, <1>4 DEF Starting
<1>7. \A p \in Pids : checking[p] # NoPid =>
        /\ p \in Live \ (BootPids \cup {c}) /\ noterminal'[p] = noterminal[p] /\ noterminal[p] # b
        /\ p = sche_list'[noterminal[p]]
        /\ checking[p] \in pid_table \ ({0} \cup BootPids)
  BY <1>4 DEF Starting
<1>8. \A p \in Live \ {b, c} : p # sche_list'[noterminal'[p]] => kesp'[p] = "execute"
  <2> SUFFICES ASSUME NEW p \in Live \ {b, c}, p # sche_list'[noterminal'[p]]
               PROVE  kesp'[p] = "execute"
    OBVIOUS
  <2>1. kesp'[p] = kesp[p] /\ noterminal'[p] = noterminal[p] /\ noterminal[p] \in Terminals
    BY <1>1, <1>4
  <2>2. p # sche_list[noterminal[p]]
    BY <2>1 DEF Starting
  <2> QED
    BY <2>1, <2>2 DEF Starting
<1>9. \A t \in BootPids \ {b} : fd_flags'[t] = StdFds
  BY <1>3 DEF Starting
<1>10. \A p \in Live \ {b, c} : visible'[p] <=> nowterminalno # b /\ p = sche_list'[nowterminalno]
  BY <1>1 DEF Starting, TypeOK
<1>11. \A p \in Live \ {b, c} : StdFds \cup handed'[p] \subseteq fd_flags'[p]
  BY <1>1 DEF Starting
<1>12. \A p, q \in Live \ (BootPids \cup {c}) : parent_pid'[p] = parent_pid'[q] => p = q
  BY <1>6 DEF Starting
<1>13. /\ b \in U /\ cur_sche_node' = b /\ cpu' = b /\ c \in Live' \ BootPids
       /\ 0 \in pid_table' /\ BootPids \subseteq Live' /\ handed'[b] \subseteq StdFds
  BY <1>1 DEF Starting
<1>14. /\ \A p, q \in Pids : checking[p] = checking[q] => p = q \/ checking[p] = NoPid
       /\ \A t \in Terminals \ {b} :
            kesp'[sche_list'[t]] = "scheduler" \/ (t \in U /\ kesp'[sche_list'[t]] = "init")
       /\ \A t \in U \ {b} : sche_list'[t] = t
       /\ \A t \in Terminals \ {b} : sche_list'[t] \in BootPids => t \in U
  BY <1>5 DEF Starting
<1> QED
  BY <1>1, <1>3, <1>4, <1>5, <1>6, <1>7, <1>8, <1>9, <1>10, <1>11, <1>12, <1>13, <1>14 DEF Starting

LEMMA StartingFacts ==
  ASSUME NEW U \in SUBSET Terminals, NEW b, NEW c, Starting(U, b, c)
  PROVE  /\ b \in BootPids /\ b \in Terminals /\ b \in Pids /\ c \in Pids \ BootPids /\ b # c
         /\ noterminal[b] = b /\ noterminal[b] \in Terminals /\ cpu = b /\ TypeOK
BY ConstantFacts DEF Starting, Live, TypeOK

\* The statements of execute between get_new_pid and asm_exec_end.
LEMMA OpenShellStarting ==
  ASSUME NEW U \in SUBSET Terminals, NEW b, NEW c, Starting(U, b, c), Made("open", b, c), child[b] = c,
         OpenShell
  PROVE  Starting(U, b, c)' /\ Made("pcb", b, c)'
<1>0. /\ b \in BootPids /\ b \in Terminals /\ b \in Pids /\ c \in Pids \ BootPids /\ b # c
      /\ noterminal[b] = b /\ noterminal[b] \in Terminals /\ cpu = b /\ TypeOK
  BY StartingFacts
<1> USE ConstantFacts, <1>0
<1>1. /\ fd_flags' = [fd_flags EXCEPT ![b] = fd_flags[b] \cup {2}]
      /\ UNCHANGED <<pid_table, parent_pid, noterminal, visible, kesp, handed, sche_list,
                     nowterminalno, cur_sche_node, cpu, page128, esp0, checking>>
  BY DEF OpenShell, run
<1>2. TypeOK'
  BY <1>1 DEF TypeOK
<1>3. Made("pcb", b, c)'
  <2>1. fd_flags'[b] = StdFds \cup {2}
    BY <1>1 DEF Made, TypeOK
  <2> QED
    BY <1>1, <2>1 DEF Made
<1>4. sche_list'[b] \in {b, c}
  BY <1>3 DEF Made
<1> QED
  BY <1>1, <1>2, <1>3, <1>4, StartingStep DEF TypeOK

LEMMA FillPcbStarting ==
  ASSUME NEW U \in SUBSET Terminals, NEW b, NEW c, Starting(U, b, c), Made("pcb", b, c), child[b] = c,
         FillPcb
  PROVE  Starting(U, b, c)' /\ Made("list", b, c)'
<1>0. /\ b \in BootPids /\ b \in Terminals /\ b \in Pids /\ c \in Pids \ BootPids /\ b # c
      /\ noterminal[b] = b /\ noterminal[b] \in Terminals /\ cpu = b /\ TypeOK
  BY StartingFacts
<1> USE ConstantFacts, <1>0
<1>1. /\ parent_pid' = [parent_pid EXCEPT ![c] = b]
      /\ noterminal' = [noterminal EXCEPT ![c] = noterminal[b]]
      /\ visible' = [visible EXCEPT ![c] = visible[b], ![b] = FALSE]
      /\ fd_flags' = [fd_flags EXCEPT ![c] = {}]
      /\ kesp' = [kesp EXCEPT ![c] = "null"]
      /\ handed' = [handed EXCEPT ![c] = {}]
      /\ UNCHANGED <<pid_table, sche_list, nowterminalno, cur_sche_node, cpu, page128, esp0, checking>>
  BY DEF FillPcb, VisibleAfterExecute, run
<1>2. TypeOK'
  BY <1>1 DEF TypeOK, Frames
<1>3. Made("list", b, c)'
  BY <1>1 DEF Made, TypeOK
<1>4. sche_list'[b] \in {b, c}
  BY <1>3 DEF Made
<1> QED
  BY <1>1, <1>2, <1>3, <1>4, StartingStep DEF TypeOK

LEMMA ListStarting ==
  ASSUME NEW U \in SUBSET Terminals, NEW b, NEW c, Starting(U, b, c), Made("list", b, c), child[b] = c,
         List
  PROVE  Starting(U, b, c)' /\ Made("load", b, c)'
<1>0. /\ b \in BootPids /\ b \in Terminals /\ b \in Pids /\ c \in Pids \ BootPids /\ b # c
      /\ noterminal[b] = b /\ noterminal[b] \in Terminals /\ cpu = b /\ TypeOK
  BY StartingFacts
<1> USE ConstantFacts, <1>0
<1>1. /\ sche_list' = [sche_list EXCEPT ![b] = c]
      /\ UNCHANGED <<pid_table, parent_pid, noterminal, visible, fd_flags, kesp, handed,
                     nowterminalno, cur_sche_node, cpu, page128, esp0, checking>>
  BY DEF List, run, pcbs
<1>2. TypeOK'
  BY <1>1 DEF TypeOK
<1>3. Made("load", b, c)'
  BY <1>1 DEF Made, TypeOK
<1>4. sche_list'[b] \in {b, c}
  BY <1>3 DEF Made
<1> QED
  BY <1>1, <1>2, <1>3, <1>4, StartingStep DEF TypeOK

LEMMA LoadStarting ==
  ASSUME NEW U \in SUBSET Terminals, NEW b, NEW c, Starting(U, b, c), Made("load", b, c), child[b] = c,
         Load
  PROVE  Starting(U, b, c)' /\ Made("tss", b, c)'
<1>0. /\ b \in BootPids /\ b \in Terminals /\ b \in Pids /\ c \in Pids \ BootPids /\ b # c
      /\ noterminal[b] = b /\ noterminal[b] \in Terminals /\ cpu = b /\ TypeOK
  BY StartingFacts
<1> USE ConstantFacts, <1>0
<1>1. /\ fd_flags' = [fd_flags EXCEPT ![c] = StdFds, ![b] = fd_flags[b] \ {2}]
      /\ page128' = c
      /\ UNCHANGED <<pid_table, parent_pid, noterminal, visible, kesp, handed, sche_list,
                     nowterminalno, cur_sche_node, cpu, esp0, checking>>
  BY DEF Load, TypeOK
<1>2. TypeOK'
  BY <1>1 DEF TypeOK
<1>3. Made("tss", b, c)'
  <2>1. fd_flags[b] = StdFds \cup {2} /\ fd_flags[b] \ {2} = StdFds
    BY DEF Made
  <2>2. fd_flags'[b] = StdFds /\ fd_flags'[c] = StdFds
    BY <1>1, <2>1 DEF TypeOK
  <2> QED
    BY <1>1, <2>2 DEF Made
<1>4. sche_list'[b] \in {b, c}
  BY <1>3 DEF Made
<1> QED
  BY <1>1, <1>2, <1>3, <1>4, StartingStep DEF TypeOK

LEMMA SetTssStarting ==
  ASSUME NEW U \in SUBSET Terminals, NEW b, NEW c, Starting(U, b, c), Made("tss", b, c), child[b] = c,
         SetTss
  PROVE  Starting(U, b, c)' /\ Made("enter", b, c)'
<1>0. /\ b \in BootPids /\ b \in Terminals /\ b \in Pids /\ c \in Pids \ BootPids /\ b # c
      /\ noterminal[b] = b /\ noterminal[b] \in Terminals /\ cpu = b /\ TypeOK
  BY StartingFacts
<1> USE ConstantFacts, <1>0
<1>1. /\ esp0' = c
      /\ UNCHANGED <<pid_table, parent_pid, noterminal, visible, fd_flags, kesp, handed, sche_list,
                     nowterminalno, cur_sche_node, cpu, page128, checking>>
  BY DEF SetTss, pcbs
<1>2. TypeOK'
  BY <1>1 DEF TypeOK
<1>3. Made("enter", b, c)'
  BY <1>1 DEF Made, TypeOK
<1>4. sche_list'[b] \in {b, c}
  BY <1>3 DEF Made
<1> QED
  BY <1>1, <1>2, <1>3, <1>4, StartingStep DEF TypeOK

\* asm_exec_end enters the shell, and its terminal is one of Process'.
LEMMA EnterResting ==
  ASSUME NEW U \in SUBSET Terminals, NEW b, NEW c, Starting(U, b, c), Made("enter", b, c), child[b] = c,
         Enter
  PROVE  IInvBut(U \ {b})'
<1> DEFINE V == U \ {b}
<1>0. /\ b \in BootPids /\ b \in Terminals /\ b \in Pids /\ c \in Pids \ BootPids /\ b # c
      /\ noterminal[b] = b /\ noterminal[b] \in Terminals /\ cpu = b /\ TypeOK
  BY StartingFacts
<1> USE ConstantFacts, <1>0
<1>1. /\ kesp' = [kesp EXCEPT ![b] = "execute"]
      /\ cpu' = c
      /\ UNCHANGED <<pid_table, parent_pid, noterminal, visible, fd_flags, handed, sche_list,
                     nowterminalno, cur_sche_node, page128, esp0, checking>>
  BY DEF Enter
<1>2. Live' = Live /\ Live \subseteq Pids /\ b \in Live /\ c \in Live
  BY <1>1 DEF Live, Held, Starting, TypeOK
<1>3. TypeOK'
  BY <1>1 DEF TypeOK, Frames
<1>4. /\ sche_list[b] = c /\ parent_pid[c] = b /\ noterminal[c] = b /\ fd_flags[b] = StdFds
      /\ fd_flags[c] = StdFds /\ handed[c] = {} /\ page128 = c /\ esp0 = c
      /\ visible[c] <=> nowterminalno = b
      /\ ~visible[b]
  BY DEF Made
<1>5. cur_sche_node = b
  BY DEF Starting
<1>6. Family'
  <2>1. \A t \in Terminals : sche_list[t] \in Live /\ noterminal[sche_list[t]] = t
    BY <1>2, <1>4 DEF Starting
  <2>2. \A p \in Live : noterminal[p] \in Terminals
    BY <1>4 DEF Starting
  <2>3. ASSUME NEW p \in Live \ BootPids
        PROVE  /\ parent_pid[p] \in Live
               /\ noterminal[parent_pid[p]] = noterminal[p]
               /\ parent_pid[p] # sche_list[noterminal[p]]
    <3>1. CASE p = c
      BY <1>2, <1>4, <3>1
    <3>2. CASE p # c
      BY <3>2 DEF Starting
    <3> QED
      BY <3>1, <3>2
  <2>4. ASSUME NEW p \in Live \ BootPids, NEW q \in Live \ BootPids, parent_pid[p] = parent_pid[q]
        PROVE  p = q
    <3>1. \A r \in Live \ (BootPids \cup {c}) : parent_pid[r] # b
      BY DEF Starting
    <3> QED
      BY <1>4, <2>4, <3>1 DEF Starting
  <2>5. BootPids \subseteq Live /\ 0 \in pid_table /\ \A t \in BootPids : noterminal[t] = t
    BY DEF Starting
  <2> QED
    BY <1>1, <1>2, <2>1, <2>2, <2>3, <2>4, <2>5 DEF Family
<1>7. Holding'
  <2>1. \A p \in Pids : checking[p] # NoPid =>
          /\ p \in Live \ BootPids
          /\ p = sche_list[noterminal[p]]
          /\ checking[p] \in pid_table \ ({0} \cup BootPids)
    BY DEF Starting
  <2>2. \A p, q \in Pids : checking[p] = checking[q] => p = q \/ checking[p] = NoPid
    BY DEF Starting
  <2> QED
    BY <1>1, <1>2, <2>1, <2>2 DEF Holding
<1>8. ContextBut(V)'
  BY <1>1, <1>4, <1>5 DEF ContextBut
<1>9. VisibleIsForeground'
  <2>1. ASSUME NEW p \in Live PROVE visible[p] <=> p = sche_list[nowterminalno]
    <3>1. CASE p = c
      <4>1. nowterminalno # b => sche_list[nowterminalno] # c
        BY DEF Starting, TypeOK
      <4> QED
        BY <1>4, <3>1, <4>1
    <3>2. CASE p = b
      <4>1. sche_list[nowterminalno] # b
        <5>1. nowterminalno # b => noterminal[sche_list[nowterminalno]] = nowterminalno
          BY DEF Starting, TypeOK
        <5> QED
          BY <1>4, <5>1
      <4> QED
        BY <1>4, <3>2, <4>1
    <3>3. CASE p \notin {b, c}
      <4>1. visible[p] <=> nowterminalno # b /\ p = sche_list[nowterminalno]
        BY <3>3 DEF Starting
      <4> QED
        BY <1>4, <3>3, <4>1
    <3> QED
      BY <3>1, <3>2, <3>3
  <2> QED
    BY <1>1, <1>2, <2>1 DEF VisibleIsForeground
<1>10. SavedBut(V)'
  <2>1. ASSUME NEW t \in Terminals \ {b}
        PROVE  kesp'[sche_list[t]] = "scheduler" \/ (t \in V /\ kesp'[sche_list[t]] = "init")
    <3>1. sche_list[t] # b
      BY DEF Starting
    <3>2. kesp'[sche_list[t]] = kesp[sche_list[t]]
      BY <1>1, <3>1 DEF TypeOK
    <3> QED
      BY <3>2 DEF Starting
  <2>2. ASSUME NEW p \in Live, p # sche_list[noterminal[p]] PROVE kesp'[p] = "execute"
    <3>1. CASE p = b
      BY <1>1, <3>1 DEF TypeOK
    <3>2. CASE p # b
      <4>1. p # c
        BY <1>4, <2>2
      <4>2. kesp'[p] = kesp[p]
        BY <1>1, <1>2, <3>2 DEF TypeOK
      <4> QED
        BY <2>2, <3>2, <4>1, <4>2 DEF Starting
    <3> QED
      BY <3>1, <3>2
  <2> QED
    BY <1>1, <1>2, <1>5, <2>1, <2>2 DEF SavedBut
<1>11. RoomBut(V)'
  BY <1>1, <1>4, <1>5 DEF RoomBut, Starting
<1>12. HandedStayOpen'
  <2>1. \A p \in Live : StdFds \cup handed[p] \subseteq fd_flags[p]
    BY <1>4 DEF Starting
  <2> QED
    BY <1>1, <1>2, <2>1 DEF HandedStayOpen
<1> QED
  BY <1>3, <1>6, <1>7, <1>8, <1>9, <1>10, <1>11, <1>12 DEF IInvBut

\* Each statement of the first execute leads to the next, and the last one to a
\* kernel with one terminal more.
LEMMA ExecuteShellInv ==
  ASSUME BootVarsOK, NEW U \in SUBSET Terminals, U = Unstarted, Executing(U), ExecuteShell
  PROVE  BootInv'
<1> USE ConstantFacts
<1>1. PICK b \in U, c \in Pids, s \in Statements \ {"find", "done"} :
        /\ b = cpu /\ c = child[b] /\ s = at[b]
        /\ \A d \in U \ {b} : at[d] = "find"
        /\ IF s = "occupy" THEN IInvBut(U) /\ c \in FreePids
           ELSE Starting(U, b, c) /\ Made(s, b, c)
  BY DEF Executing
<1>2. ASSUME cpu' = cpu, child' = child, NEW to \in Statements \ {"find", "occupy", "done"},
             Step(s, to), Starting(U, b, c)', Made(to, b, c)'
      PROVE  BootInv'
  <2>1. BootVarsOK' /\ at'[b] = to /\ \A d \in BootPids \ {b} : at'[d] = at[d]
    BY <1>1, <1>2, StepFacts
  <2>2. U = Unstarted'
    BY <1>1, <2>1 DEF Unstarted
  <2>3. Executing(U)'
    BY <1>1, <1>2, <2>1 DEF Executing
  <2> QED
    BY <2>1, <2>2, <2>3 DEF BootInv
<1>3. CASE Find \/ FindNone
  BY <1>1, <1>3 DEF Find, FindNone, Step
<1>4. CASE Occupy
  <2>1. /\ s = "occupy" /\ Step(s, "open") /\ pid_table' = pid_table \cup {c}
        /\ UNCHANGED <<pcbs, sche_list, nowterminalno, run, checking, child>> /\ cpu' = cpu
    BY <1>1, <1>4 DEF Occupy, Step, run
  <2>2. Starting(U, b, c)' /\ Made("open", b, c)'
    BY <1>1, <2>1, OccupyStarting
  <2> QED
    BY <1>2, <2>1, <2>2 DEF Statements
<1>5. CASE OpenShell
  <2>1. s = "open" /\ Step(s, "pcb") /\ child' = child /\ cpu' = cpu
    BY <1>1, <1>5 DEF OpenShell, Step, run
  <2>2. Starting(U, b, c)' /\ Made("pcb", b, c)'
    BY <1>1, <1>5, <2>1, OpenShellStarting
  <2> QED
    BY <1>2, <2>1, <2>2 DEF Statements
<1>6. CASE FillPcb
  <2>1. s = "pcb" /\ Step(s, "list") /\ child' = child /\ cpu' = cpu
    BY <1>1, <1>6 DEF FillPcb, Step, run
  <2>2. Starting(U, b, c)' /\ Made("list", b, c)'
    BY <1>1, <1>6, <2>1, FillPcbStarting
  <2> QED
    BY <1>2, <2>1, <2>2 DEF Statements
<1>7. CASE List
  <2>1. s = "list" /\ Step(s, "load") /\ child' = child /\ cpu' = cpu
    BY <1>1, <1>7 DEF List, Step, run
  <2>2. Starting(U, b, c)' /\ Made("load", b, c)'
    BY <1>1, <1>7, <2>1, ListStarting
  <2> QED
    BY <1>2, <2>1, <2>2 DEF Statements
<1>8. CASE Load
  <2>1. s = "load" /\ Step(s, "tss") /\ child' = child /\ cpu' = cpu
    BY <1>1, <1>8 DEF Load, Step
  <2>2. Starting(U, b, c)' /\ Made("tss", b, c)'
    BY <1>1, <1>8, <2>1, LoadStarting
  <2> QED
    BY <1>2, <2>1, <2>2 DEF Statements
<1>9. CASE SetTss
  <2>1. s = "tss" /\ Step(s, "enter") /\ child' = child /\ cpu' = cpu
    BY <1>1, <1>9 DEF SetTss, Step
  <2>2. Starting(U, b, c)' /\ Made("enter", b, c)'
    BY <1>1, <1>9, <2>1, SetTssStarting
  <2> QED
    BY <1>2, <2>1, <2>2 DEF Statements
<1>10. CASE Enter
  <2>1. s = "enter" /\ Step(s, "done") /\ child' = child
    BY <1>1, <1>10 DEF Enter, Step
  <2>2. IInvBut(U \ {b})'
    BY <1>1, <1>10, <2>1, EnterResting
  <2>3. BootVarsOK' /\ at'[b] = "done" /\ \A d \in BootPids \ {b} : at'[d] = at[d]
    BY <1>1, <2>1, StepFacts DEF Statements
  <2>4. U \ {b} = Unstarted' /\ U \ {b} \in SUBSET Terminals
    BY <1>1, <2>3 DEF Unstarted
  <2>5. Resting(U \ {b})'
    BY <1>1, <2>2, <2>3 DEF Resting
  <2> QED
    BY <2>3, <2>4, <2>5 DEF BootInv
<1> QED
  BY <1>3, <1>4, <1>5, <1>6, <1>7, <1>8, <1>9, <1>10 DEF ExecuteShell

\* From a first execute that has yet to look for a pid.
LEMMA FindInv ==
  ASSUME BootVarsOK, NEW U \in SUBSET Terminals, U = Unstarted, Resting(U), Booting(cpu), ExecuteShell
  PROVE  BootInv'
<1> USE ConstantFacts
<1>1. PICK b : b = cpu
  OBVIOUS
<1>2. b \in U /\ b \in BootPids /\ at[b] = "find" /\ IInvBut(U) /\ \A d \in U : at[d] = "find"
  BY <1>1 DEF Booting, Unstarted, Resting
<1>3. CASE FindNone
  <2>1. UNCHANGED vars /\ UNCHANGED <<at, child, cpu>>
    BY <1>3 DEF FindNone, bootVars, vars, run
  <2>2. IInvBut(U)'
    BY <1>2, <2>1, StutterInv
  <2>3. BootVarsOK' /\ U = Unstarted'
    BY <2>1 DEF BootVarsOK, Unstarted
  <2>4. Resting(U)'
    BY <1>2, <2>1, <2>2 DEF Resting
  <2> QED
    BY <2>3, <2>4 DEF BootInv
<1>4. CASE Find
  <2>1. PICK c \in FreePids : child' = [child EXCEPT ![b] = c]
    BY <1>1, <1>4 DEF Find
  <2>2. /\ UNCHANGED vars /\ cpu' = cpu /\ pid_table' = pid_table
        /\ at' = [at EXCEPT ![b] = "occupy"] /\ c \in Pids
    BY <1>1, <1>4 DEF Find, Step, vars, run, FreePids
  <2>3. IInvBut(U)'
    BY <1>2, <2>2, StutterInv
  <2>4. /\ BootVarsOK' /\ at'[b] = "occupy" /\ child'[b] = c
        /\ \A d \in BootPids \ {b} : at'[d] = at[d]
    BY <1>2, <2>1, <2>2 DEF BootVarsOK, Statements
  <2>5. U = Unstarted'
    BY <1>2, <2>4 DEF Unstarted
  <2>6. Executing(U)'
    BY <1>1, <1>2, <2>1, <2>2, <2>3, <2>4 DEF Executing, Statements, FreePids
  <2> QED
    BY <2>4, <2>5, <2>6 DEF BootInv
<1> QED
  BY <1>1, <1>2, <1>3, <1>4
     DEF ExecuteShell, Occupy, OpenShell, FillPcb, List, Load, SetTss, Enter, Step

\* An interrupt before it does.
LEMMA BootInterruptInv ==
  ASSUME ~Preempted, BootVarsOK, NEW U \in SUBSET Terminals, U = Unstarted,
         Resting(U) \/ Executing(U), Booting(cpu), BootTick \/ BootShow
  PROVE  BootInv'
<1> USE ConstantFacts
<1>1. cpu \in U /\ at[cpu] = "find" /\ UNCHANGED <<at, child>>
  BY DEF Booting, Unstarted, BootTick, BootShow, MayInterrupt, bootVars
<1>2. Resting(U)
  BY <1>1 DEF Executing
<1>3. IInvBut(U)'
  BY <1>1, <1>2, ScheduleInv, ShowTerminalInv DEF BootTick, BootShow, Resting
<1>4. Resting(U)' /\ U = Unstarted' /\ BootVarsOK'
  BY <1>1, <1>2, <1>3 DEF Resting, Unstarted, BootVarsOK
<1> QED
  BY <1>4 DEF BootInv

\* A shell that runs, and whatever it starts, while others have yet to start.
LEMMA StartedInv ==
  ASSUME BootVarsOK, NEW U \in SUBSET Terminals, U = Unstarted,
         Resting(U) \/ Executing(U), ~Booting(cpu), Next, UNCHANGED bootVars
  PROVE  BootInv'
<1> USE ConstantFacts
<1>1. cpu \notin U /\ UNCHANGED <<at, child>>
  BY DEF Booting, Unstarted, bootVars
<1>2. Resting(U)
  BY <1>1 DEF Executing
<1>3. IInvBut(U) /\ cur_sche_node \notin U
  BY <1>1, <1>2, RunningIsLiveBut DEF Resting
<1>4. IInvBut(U)'
  BY <1>3, NextInvBut
<1>5. Resting(U)' /\ U = Unstarted' /\ BootVarsOK'
  BY <1>1, <1>2, <1>4 DEF Resting, Unstarted, BootVarsOK
<1> QED
  BY <1>5 DEF BootInv

LEMMA BootStutterInv == BootInv /\ UNCHANGED <<vars, bootVars>> => BootInv'
<1> SUFFICES ASSUME BootInv, UNCHANGED <<vars, bootVars>> PROVE BootInv'
  OBVIOUS
<1>1. UNCHANGED vars /\ UNCHANGED <<at, child>>
  BY DEF bootVars
<1>2. PICK U \in SUBSET Terminals : U = Unstarted /\ (Resting(U) \/ Executing(U))
  BY DEF BootInv
<1>3. BootVarsOK' /\ U = Unstarted'
  BY <1>1, <1>2 DEF BootInv, BootVarsOK, Unstarted
<1>4. CASE Resting(U)
  <2>1. Resting(U)'
    BY <1>1, <1>4, StutterInv DEF Resting
  <2> QED
    BY <1>3, <2>1 DEF BootInv
<1>5. CASE Executing(U)
  <2>1. PICK b \in U, c \in Pids, s \in Statements \ {"find", "done"} :
          /\ b = cpu /\ c = child[b] /\ s = at[b]
          /\ \A d \in U \ {b} : at[d] = "find"
          /\ IF s = "occupy" THEN IInvBut(U) /\ c \in FreePids
             ELSE Starting(U, b, c) /\ Made(s, b, c)
    BY <1>5 DEF Executing
  <2>2. s = "occupy" => IInvBut(U)' /\ FreePids' = FreePids
    BY <1>1, <2>1, StutterInv DEF FreePids, vars
  <2>3. s # "occupy" => Starting(U, b, c)' /\ Made(s, b, c)'
    BY <1>1, <2>1 DEF Starting, Made, vars, pcbs, run, Live, Held, TypeOK
  <2>4. Executing(U)'
    BY <1>1, <2>1, <2>2, <2>3 DEF Executing, vars, run
  <2> QED
    BY <1>3, <2>4 DEF BootInv
<1> QED
  BY <1>2, <1>4, <1>5

LEMMA BootNextInv ==
  ASSUME ~Preempted, BootInv, [BootNext]_<<vars, bootVars>>
  PROVE  BootInv'
<1>1. PICK U \in SUBSET Terminals : U = Unstarted /\ (Resting(U) \/ Executing(U))
  BY DEF BootInv
<1>2. BootVarsOK
  BY DEF BootInv
<1>3. CASE Booting(cpu) /\ ExecuteShell
  BY <1>1, <1>2, <1>3, FindInv, ExecuteShellInv
<1>4. CASE Booting(cpu) /\ (BootTick \/ BootShow)
  BY <1>1, <1>2, <1>4, BootInterruptInv
<1>5. CASE ~Booting(cpu) /\ Next /\ UNCHANGED bootVars
  BY <1>1, <1>2, <1>5, StartedInv
<1>6. CASE UNCHANGED <<vars, bootVars>>
  BY <1>6, BootStutterInv
<1> QED
  BY <1>3, <1>4, <1>5, <1>6 DEF BootNext

LEMMA BootInvariant == ASSUME ~Preempted PROVE BootSpec => []BootInv
<1>1. BootInv /\ [BootNext]_<<vars, bootVars>> => BootInv'
  BY BootNextInv
<1> QED
  BY <1>1, BootInitInv, PTL DEF BootSpec

\* BootsIntoProcess: once every terminal has its shell the kernel is in a state
\* from which every step keeps IInv (NextInv), and with it all that Process'
\* theorems say.
THEOREM BootsIntoProcessHolds == ASSUME ~Preempted PROVE BootSpec => []BootsIntoProcess
<1>1. BootInv => BootsIntoProcess
  <2> SUFFICES ASSUME BootInv, Booted PROVE IInv
    BY DEF BootsIntoProcess
  <2>1. Unstarted = {}
    BY DEF Booted, Unstarted
  <2>2. IInvBut({})
    BY <2>1 DEF BootInv, Resting, Executing
  <2> QED
    BY <2>2, IInvButNone
<1> QED
  BY <1>1, BootInvariant, PTL

\* StartedShellsAreSafe: until then a shell that runs has its own stack and its own
\* page, and only the process of the terminal shown is visible.
THEOREM StartedShellsAreSafeHolds == ASSUME ~Preempted PROVE BootSpec => []StartedShellsAreSafe
<1>1. BootInv => StartedShellsAreSafe
  <2> SUFFICES ASSUME BootInv PROVE StartedShellsAreSafe
    OBVIOUS
  <2>1. PICK U \in SUBSET Terminals : U = Unstarted /\ (Resting(U) \/ Executing(U))
    BY DEF BootInv
  <2>2. ASSUME cpu \notin BootPids PROVE RunningContext
    <3>1. cpu \notin U
      BY <2>2, ConstantFacts
    <3> QED
      BY <2>1, <3>1 DEF Executing, Resting, IInvBut, ContextBut, RunningContext
  <2>3. ASSUME ~Booting(cpu) \/ at[cpu] = "find" PROVE VisibleIsForeground
    <3>1. ~Executing(U)
      BY <2>1, <2>3, ConstantFacts DEF Executing, Booting
    <3> QED
      BY <2>1, <3>1 DEF Resting, IInvBut
  <2> QED
    BY <2>2, <2>3 DEF StartedShellsAreSafe
<1> QED
  BY <1>1, BootInvariant, PTL
=============================================================================
