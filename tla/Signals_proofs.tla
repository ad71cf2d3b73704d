--------------------------- MODULE Signals_proofs ---------------------------
(***************************************************************************)
(* For any number of processes, terminals and signals: handlers do not     *)
(* nest, no user code runs past a fault, and every fault is taken as long  *)
(* as none has a shifted frame.                                            *)
(***************************************************************************)
EXTENDS Signals, TLAPS

Procs == Pids \ BootPids

\* A process is on one stack, once, and sche_main is at the bottom of its own.
StacksOK ==
  /\ turn \in Terminals /\ shown \in Terminals
  /\ stack \in [Terminals -> Seq(Pids)]
  /\ \A t \in Terminals : /\ stack[t] # <<>> /\ stack[t][1] = t
                          /\ \A i, j \in 1 .. Len(stack[t]) : stack[t][i] = stack[t][j] => i = j
  /\ \A t, u \in Terminals : t # u => ToSet(stack[t]) \cap ToSet(stack[u]) = {}

ModesOK == mode = [p \in Pids |-> mode[p]] /\ \A b \in BootPids : mode[b] = "boot"

\* A handler that runs has everything masked and nothing to restore; a process
\* without one has nothing masked; a pid that is free has no handler running.
MasksOK ==
  /\ pending_signal \in [Pids -> SUBSET Raised]
  /\ mask = [p \in Pids |-> mask[p]] /\ prev_mask = [p \in Pids |-> prev_mask[p]]
  /\ handling = [p \in Pids |-> handling[p]]
  /\ \A p \in Procs : \/ handling[p] = 0 /\ (p \in Live => mask[p] = {})
                      \/ handling[p] = 1 /\ p \in Live /\ mask[p] = Raised /\ prev_mask[p] = {}

\* A fault that can be delivered is on its way to a check_signal, or its process
\* is lost.
FaultsOK ==
  \A p \in Pids : mode[p] \notin {"exit", "open", "lost"} => Deliverable(p) \cap Faults = {}

SigInv == StacksOK /\ ModesOK /\ MasksOK /\ FaultsOK
-----------------------------------------------------------------------------
(* The stacks *)

LEMMA SessionNames ==
  /\ Terminals = 1 .. NumTerminal
  /\ Live = UNION {ToSet(stack[t]) : t \in Terminals}
  /\ \A s : Sessions!Front(s) = Front(s) /\ Sessions!ToSet(s) = ToSet(s)
<1>1. \A s : Sessions!Front(s) = Front(s) /\ Sessions!ToSet(s) = ToSet(s)
  BY DEF Front, Sessions!Front, ToSet, Sessions!ToSet
<1> QED
  BY <1>1 DEF Terminals, Live, Sessions!Terminals, Sessions!InUse

\* Pushing an element and dropping the last one.
LEMMA TopOfStack ==
  ASSUME NEW s \in Seq(Pids), s # <<>>
  PROVE  /\ Last(s) \in ToSet(s) /\ s[1] \in ToSet(s) /\ ToSet(s) \subseteq Pids
         /\ \A e \in Pids :
              /\ Append(s, e) \in Seq(Pids) /\ Len(Append(s, e)) = Len(s) + 1
              /\ \A i \in 1 .. Len(s) : Append(s, e)[i] = s[i]
              /\ Append(s, e)[Len(s) + 1] = e
              /\ ToSet(Append(s, e)) = ToSet(s) \cup {e}
         /\ Len(s) > 1 =>
              /\ Front(s) \in Seq(Pids) /\ Len(Front(s)) = Len(s) - 1
              /\ \A i \in 1 .. Len(s) - 1 : Front(s)[i] = s[i]
              /\ ToSet(Front(s)) = {s[i] : i \in 1 .. Len(s) - 1}
<1>1. Len(s) \in Nat \ {0} /\ DOMAIN s = 1 .. Len(s)
  OBVIOUS
<1>2. Last(s) \in ToSet(s) /\ s[1] \in ToSet(s) /\ ToSet(s) \subseteq Pids
  BY <1>1 DEF Last, ToSet
<1>3. ASSUME NEW e \in Pids
      PROVE  /\ Append(s, e) \in Seq(Pids) /\ Len(Append(s, e)) = Len(s) + 1
             /\ \A i \in 1 .. Len(s) : Append(s, e)[i] = s[i]
             /\ Append(s, e)[Len(s) + 1] = e
             /\ ToSet(Append(s, e)) = ToSet(s) \cup {e}
  <2> DEFINE a == Append(s, e)
  <2>1. /\ a \in Seq(Pids) /\ Len(a) = Len(s) + 1 /\ DOMAIN a = 1 .. Len(s) + 1
        /\ \A i \in 1 .. Len(s) : a[i] = s[i]
        /\ a[Len(s) + 1] = e
    BY <1>1
  <2>2. ToSet(a) = ToSet(s) \cup {e}
    <3> HIDE DEF a
    <3> QED
      BY <1>1, <2>1 DEF ToSet
  <2> QED
    BY <2>1, <2>2
<1>4. ASSUME Len(s) > 1
      PROVE  /\ Front(s) \in Seq(Pids) /\ Len(Front(s)) = Len(s) - 1
             /\ \A i \in 1 .. Len(s) - 1 : Front(s)[i] = s[i]
             /\ ToSet(Front(s)) = {s[i] : i \in 1 .. Len(s) - 1}
  <2> DEFINE f == Front(s)
  <2>1. f = [i \in 1 .. Len(s) - 1 |-> s[i]]
    BY <1>1, <1>4 DEF Front
  <2>2. f \in Seq(Pids) /\ Len(f) = Len(s) - 1
    BY <1>1, <1>4, <2>1
  <2>3. DOMAIN f = 1 .. Len(s) - 1 /\ \A i \in 1 .. Len(s) - 1 : f[i] = s[i]
    BY <2>1
  <2>4. ToSet(f) = {s[i] : i \in 1 .. Len(s) - 1}
    <3> HIDE DEF f
    <3> QED
      BY <2>3 DEF ToSet
  <2> QED
    BY <2>2, <2>3, <2>4
<1> QED
  BY <1>2, <1>3, <1>4

\* The boot processes and the running process are live.
LEMMA StackFacts ==
  ASSUME StacksOK
  PROVE  /\ Live \subseteq Pids /\ BootPids \subseteq Live
         /\ cpu \in Live /\ Top(shown) \in Live
         /\ Len(stack[turn]) > 1 => cpu \notin BootPids
<1>1. \A t \in Terminals : /\ ToSet(stack[t]) \subseteq Pids /\ t \in ToSet(stack[t])
                           /\ Top(t) \in ToSet(stack[t])
  BY TopOfStack DEF StacksOK, Top
<1>2. Live = UNION {ToSet(stack[t]) : t \in Terminals}
  BY SessionNames
<1>3. ASSUME Len(stack[turn]) > 1 PROVE cpu \notin BootPids
  <2>1. /\ Len(stack[turn]) \in Nat /\ cpu = stack[turn][Len(stack[turn])]
        /\ stack[turn][1] = turn
    BY DEF StacksOK, cpu, Top, Last
  <2>2. cpu # turn
    BY <1>3, <2>1 DEF StacksOK
  <2>3. \A t \in Terminals \ {turn} : cpu # t
    BY <1>1 DEF StacksOK, cpu
  <2> QED
    BY <2>2, <2>3 DEF BootPids
<1> QED
  BY <1>1, <1>2, <1>3 DEF StacksOK, BootPids, cpu

LEMMA SameStacks ==
  ASSUME StacksOK, stack' = stack, turn' \in Terminals, shown' \in Terminals
  PROVE  StacksOK' /\ Live' = Live
<1>1. StacksOK'
  BY DEF StacksOK, Terminals, Sessions!Terminals
<1>2. Live' = Live
  BY DEF Live, Sessions!InUse
<1> QED
  BY <1>1, <1>2

\* A step that replaces one stack by one with other members.
LEMMA ChangedStack ==
  ASSUME StacksOK, NEW s \in Seq(Pids), stack' = [stack EXCEPT ![turn] = s],
         UNCHANGED <<turn, shown>>,
         s # <<>>, s[1] = turn, \A i, j \in 1 .. Len(s) : s[i] = s[j] => i = j,
         \A t \in Terminals \ {turn} : ToSet(s) \cap ToSet(stack[t]) = {}
  PROVE  /\ StacksOK'
         /\ Live' = ToSet(s) \cup UNION {ToSet(stack[t]) : t \in Terminals \ {turn}}
<1>1. /\ turn \in Terminals /\ stack'[turn] = s /\ stack' \in [Terminals -> Seq(Pids)]
      /\ \A t \in Terminals \ {turn} : stack'[t] = stack[t]
  BY DEF StacksOK
<1>2. \A t \in Terminals : /\ stack'[t] # <<>> /\ stack'[t][1] = t
                           /\ \A i, j \in 1 .. Len(stack'[t]) : stack'[t][i] = stack'[t][j] => i = j
  <2>1. \A t \in Terminals \ {turn} :
          /\ stack'[t] # <<>> /\ stack'[t][1] = t
          /\ \A i, j \in 1 .. Len(stack'[t]) : stack'[t][i] = stack'[t][j] => i = j
    BY <1>1 DEF StacksOK
  <2> QED
    BY <1>1, <2>1
<1>3. \A t \in Terminals : ToSet(stack'[t]) = IF t = turn THEN ToSet(s) ELSE ToSet(stack[t])
  BY <1>1
<1>4. \A t, u \in Terminals : t # u => ToSet(stack'[t]) \cap ToSet(stack'[u]) = {}
  <2>1. \A t, u \in Terminals : t # u => ToSet(stack[t]) \cap ToSet(stack[u]) = {}
    BY DEF StacksOK
  <2> QED
    BY <1>3, <2>1
<1>5. StacksOK'
  <2>1. turn' \in Terminals /\ shown' \in Terminals
    BY DEF StacksOK
  <2> QED
    BY <1>1, <1>2, <1>4, <2>1 DEF StacksOK, Terminals, Sessions!Terminals, ToSet
<1>6. Live' = UNION {ToSet(stack'[t]) : t \in Terminals}
  <2>1. (Live = UNION {ToSet(stack[t]) : t \in Terminals})'
    BY SessionNames, PTL
  <2>2. Terminals' = Terminals
    BY DEF Terminals, Sessions!Terminals
  <2> QED
    BY <2>1, <2>2 DEF ToSet
<1> QED
  BY <1>1, <1>3, <1>5, <1>6

LEMMA PushStacks ==
  ASSUME StacksOK, NEW child \in Pids, Sessions!Push, stack'[turn] = Append(stack[turn], child)
  PROVE  /\ StacksOK' /\ Live' = Live \cup {child}
         /\ child \in Pids \ Live
<1> DEFINE s == Append(stack[turn], child)
<1>1. PICK e \in Pids \ Live : stack' = [stack EXCEPT ![turn] = Append(stack[turn], e)]
  BY DEF Sessions!Push, Live
<1>2. turn \in Terminals /\ stack[turn] \in Seq(Pids) /\ stack[turn] # <<>>
  BY DEF StacksOK
<1>3. child = e
  <2>1. Append(stack[turn], child) = Append(stack[turn], e)
    BY <1>1, <1>2 DEF StacksOK
  <2> QED
    BY <1>2, <2>1, TopOfStack
<1>4. /\ s \in Seq(Pids) /\ Len(s) = Len(stack[turn]) + 1
      /\ \A i \in 1 .. Len(stack[turn]) : s[i] = stack[turn][i]
      /\ s[Len(stack[turn]) + 1] = child
      /\ ToSet(s) = ToSet(stack[turn]) \cup {child}
      /\ Len(stack[turn]) \in Nat \ {0}
  BY <1>2, TopOfStack
<1>5. stack' = [stack EXCEPT ![turn] = s] /\ child \notin Live /\ UNCHANGED <<turn, shown>>
  BY <1>1, <1>3 DEF Sessions!Push
<1> HIDE DEF s
<1>6. Live = UNION {ToSet(stack[t]) : t \in Terminals}
  BY SessionNames
<1>7. \A i, j \in 1 .. Len(s) : s[i] = s[j] => i = j
  <2>1. \A k \in 1 .. Len(stack[turn]) : stack[turn][k] # child
    BY <1>2, <1>5, <1>6 DEF ToSet
  <2>2. \A i, j \in 1 .. Len(stack[turn]) : stack[turn][i] = stack[turn][j] => i = j
    BY DEF StacksOK
  <2> QED
    BY <1>4, <2>1, <2>2
<1>8. s # <<>> /\ s[1] = turn
  BY <1>4 DEF StacksOK
<1>9. \A t \in Terminals \ {turn} : ToSet(s) \cap ToSet(stack[t]) = {}
  <2>1. \A t \in Terminals : child \notin ToSet(stack[t])
    BY <1>5, <1>6
  <2>2. \A t \in Terminals \ {turn} : ToSet(stack[turn]) \cap ToSet(stack[t]) = {}
    BY DEF StacksOK
  <2> QED
    BY <1>4, <2>1, <2>2
<1>10. /\ StacksOK'
       /\ Live' = ToSet(s) \cup UNION {ToSet(stack[t]) : t \in Terminals \ {turn}}
  BY <1>4, <1>5, <1>7, <1>8, <1>9, ChangedStack
<1>11. Live' = Live \cup {child}
  BY <1>2, <1>4, <1>6, <1>10
<1> QED
  BY <1>5, <1>10, <1>11

LEMMA PopStacks ==
  ASSUME StacksOK, Sessions!Pop
  PROVE  /\ StacksOK' /\ Live' = Live \ {cpu}
         /\ cpu \in Procs
<1> DEFINE s == stack[turn]
           f == Front(stack[turn])
<1>1. turn \in Terminals /\ s \in Seq(Pids) /\ s # <<>> /\ Len(s) > 1 /\ Len(s) \in Nat
  BY DEF StacksOK, Sessions!Pop, Sessions!Depth
<1>2. stack' = [stack EXCEPT ![turn] = f] /\ UNCHANGED <<turn, shown>>
  BY SessionNames DEF Sessions!Pop
<1>3. /\ f \in Seq(Pids) /\ Len(f) = Len(s) - 1
      /\ \A i \in 1 .. Len(s) - 1 : f[i] = s[i]
      /\ ToSet(f) = {s[i] : i \in 1 .. Len(s) - 1}
  BY <1>1, TopOfStack
<1>4. cpu \in Procs /\ cpu = s[Len(s)]
  BY <1>1, StackFacts DEF Procs, cpu, Top, Last
<1>5. ToSet(s) = {s[i] : i \in 1 .. Len(s)}
  BY <1>1 DEF ToSet
<1>6. s[1] = turn /\ \A i, j \in 1 .. Len(s) : s[i] = s[j] => i = j
  BY DEF StacksOK
<1>7. \A t \in Terminals \ {turn} : ToSet(s) \cap ToSet(stack[t]) = {}
  BY DEF StacksOK
<1> HIDE DEF f, s
<1>8. ToSet(f) = ToSet(s) \ {cpu} /\ cpu \in ToSet(s)
  BY <1>1, <1>3, <1>4, <1>5, <1>6
<1>9. f # <<>> /\ f[1] = turn /\ \A i, j \in 1 .. Len(f) : f[i] = f[j] => i = j
  BY <1>1, <1>3, <1>6
<1>10. \A t \in Terminals \ {turn} : ToSet(f) \cap ToSet(stack[t]) = {} /\ cpu \notin ToSet(stack[t])
  BY <1>7, <1>8
<1>11. /\ StacksOK'
       /\ Live' = ToSet(f) \cup UNION {ToSet(stack[t]) : t \in Terminals \ {turn}}
  BY <1>2, <1>3, <1>9, <1>10, ChangedStack
<1>12. Live = ToSet(s) \cup UNION {ToSet(stack[t]) : t \in Terminals \ {turn}}
  BY <1>1, SessionNames DEF s
<1> QED
  BY <1>4, <1>8, <1>10, <1>11, <1>12
-----------------------------------------------------------------------------
(* The steps *)

LEMMA SignalNumbers == Faults = {0, 1} /\ INTERRUPT \notin Faults /\ ALARM \notin Faults
BY DEF Faults, DIV_ZERO, SEGFAULT, INTERRUPT, ALARM

\* The running process; it is no boot process unless its mode says so.
LEMMA CpuFacts ==
  ASSUME SigInv
  PROVE  /\ cpu \in Pids /\ cpu \in Live /\ Top(shown) \in Pids
         /\ mode[cpu] # "boot" => cpu \in Procs
BY StackFacts DEF SigInv, ModesOK, Procs

LEMMA InitInv == Init => SigInv
<1> SUFFICES ASSUME Init PROVE SigInv
  OBVIOUS
<1>1. \A t \in Terminals :
        /\ t \in Pids /\ NumTerminal + t \in Pids /\ NumTerminal + t \notin Terminals
        /\ NumTerminal \in Terminals /\ 1 \in Terminals /\ t # NumTerminal + t
  BY SignalsAssumption, SessionNames
<1>2. \A t \in Terminals : stack[t] = <<t, NumTerminal + t>>
  BY SessionNames DEF Init, Sessions!Init, Sessions!Terminals
<1>3. \A t \in Terminals : ToSet(stack[t]) = {t, NumTerminal + t}
  BY <1>2 DEF ToSet
<1>8. \A a, b \in Pids : /\ <<a, b>> \in Seq(Pids) /\ <<a, b>> # <<>> /\ <<a, b>>[1] = a
                          /\ a # b => \A i, j \in 1 .. Len(<<a, b>>) : <<a, b>>[i] = <<a, b>>[j] => i = j
  OBVIOUS
<1>4. StacksOK
  <2>1. turn \in Terminals /\ shown \in Terminals
    BY <1>1, SignalsAssumption, SessionNames DEF Init, Sessions!Init
  <2>2. stack \in [Terminals -> Seq(Pids)]
    <3>1. ASSUME NEW t \in Terminals PROVE stack[t] \in Seq(Pids)
      <4>1. t \in Pids /\ NumTerminal + t \in Pids
        BY <1>1
      <4>2. <<t, NumTerminal + t>> \in Seq(Pids)
        BY <1>8, <4>1
      <4> QED
        BY <1>2, <4>2
    <3>2. stack = [t \in Terminals |-> stack[t]]
      BY SessionNames DEF Init, Sessions!Init, Sessions!Terminals
    <3> QED
      BY <3>1, <3>2
  <2>3. \A t \in Terminals : /\ stack[t] # <<>> /\ stack[t][1] = t
                             /\ \A i, j \in 1 .. Len(stack[t]) : stack[t][i] = stack[t][j] => i = j
    BY <1>1, <1>2, <1>8
  <2>4. \A t, u \in Terminals : t # u => ToSet(stack[t]) \cap ToSet(stack[u]) = {}
    <3>1. NumTerminal \in Nat /\ Terminals = 1 .. NumTerminal
      BY SignalsAssumption, SessionNames
    <3> SUFFICES ASSUME NEW t \in Terminals, NEW u \in Terminals, t # u
                 PROVE  ToSet(stack[t]) \cap ToSet(stack[u]) = {}
      OBVIOUS
    <3>2. t # u /\ t # NumTerminal + u /\ NumTerminal + t # u /\ NumTerminal + t # NumTerminal + u
      BY <3>1
    <3> QED
      BY <1>3, <3>2
  <2> QED
    BY <2>1, <2>2, <2>3, <2>4 DEF StacksOK
<1>5. ModesOK
  BY <1>1, SignalsAssumption DEF Init, ModesOK, BootPids, Terminals, Sessions!Terminals
<1>6. MasksOK
  BY DEF Init, MasksOK, Procs
<1>7. FaultsOK
  BY DEF Init, FaultsOK, Deliverable
<1> QED
  BY <1>4, <1>5, <1>6, <1>7 DEF SigInv

\* A step in which the stacks stay and the running process, or an interrupt over
\* it, goes to another mode.
LEMMA ModeStep ==
  ASSUME SigInv, NEW m, mode' = [mode EXCEPT ![cpu] = m],
         mode[cpu] # "boot" \/ m = mode[cpu],
         stack' = stack, turn' \in Terminals, shown' \in Terminals,
         UNCHANGED <<mask, prev_mask, handling>>,
         NEW p \in Pids, NEW new \in SUBSET Raised, pending_signal' = [pending_signal EXCEPT ![p] = new],
         (m \in {"exit", "open", "lost"} \/ m = mode[cpu]) \/ Deliverable(cpu) \cap Faults = {},
         new \cap Faults \subseteq pending_signal[p] \/ (p = cpu /\ m \in {"exit", "open", "lost"})
  PROVE  SigInv'
<1>1. StacksOK' /\ Live' = Live
  BY SameStacks DEF SigInv
<1>2. /\ mode' = [q \in Pids |-> mode'[q]] /\ mode'[cpu] = m
      /\ \A q \in Pids \ {cpu} : mode'[q] = mode[q]
  BY CpuFacts DEF SigInv, ModesOK
<1>3. ModesOK'
  <2>1. \A b \in BootPids : b \in Pids /\ mode[b] = "boot"
    BY StackFacts DEF SigInv, ModesOK
  <2> QED
    BY <1>2, <2>1 DEF ModesOK, BootPids, Terminals, Sessions!Terminals
<1>4. /\ pending_signal' \in [Pids -> SUBSET Raised] /\ pending_signal'[p] = new
      /\ \A q \in Pids \ {p} : pending_signal'[q] = pending_signal[q]
  BY DEF SigInv, MasksOK
<1>5. MasksOK'
  BY <1>1, <1>4 DEF SigInv, MasksOK, Procs, BootPids, Terminals, Sessions!Terminals
<1>6. FaultsOK'
  <2>1. ASSUME NEW q \in Pids, mode'[q] \notin {"exit", "open", "lost"} PROVE Deliverable(q)' \cap Faults = {}
    <3>1. pending_signal'[q] \cap Faults \subseteq pending_signal[q]
      BY <1>2, <1>4, <2>1
    <3>2. Deliverable(q) \cap Faults = {}
      BY <1>2, <2>1 DEF SigInv, FaultsOK
    <3> QED
      BY <3>1, <3>2 DEF Deliverable
  <2> QED
    BY <2>1 DEF FaultsOK, Faults, DIV_ZERO, SEGFAULT
<1> QED
  BY <1>1, <1>3, <1>5, <1>6 DEF SigInv

\* Who sends a signal, or only goes through the kernel.
LEMMA SendersInv ==
  ASSUME SigInv, Exception \/ CtrlC \/ Tick
  PROVE  SigInv'
<1>1. stack' = stack /\ turn' \in Terminals /\ shown' \in Terminals
  BY SignalsAssumption, SessionNames
     DEF SigInv, StacksOK, Exception, CtrlC, Tick, Sessions!Rotate, sessions
<1>2. UNCHANGED <<mask, prev_mask, handling>>
  BY DEF Exception, CtrlC, Tick
<1>3. \A q \in Pids : pending_signal[q] \in SUBSET Raised
  BY DEF SigInv, MasksOK
<1>4. CASE Exception
  <2>1. PICK n \in Raised : pending_signal' = [pending_signal EXCEPT ![cpu] = pending_signal[cpu] \cup {n}]
    BY <1>4, SignalsAssumption DEF Exception, Send, DIV_ZERO, SEGFAULT
  <2>2. PICK m \in {"open", "lost"} : mode' = [mode EXCEPT ![cpu] = m] /\ mode[cpu] # "boot"
    BY <1>4 DEF Exception
  <2>3. pending_signal[cpu] \cup {n} \in SUBSET Raised
    BY <1>3, CpuFacts
  <2> QED
    BY <1>1, <1>2, <2>1, <2>2, <2>3, CpuFacts, ModeStep
<1>5. CASE CtrlC \/ Tick
  <2> DEFINE m == IF mode[cpu] = "user" THEN "exit" ELSE mode[cpu]
             top == Top(shown)
  <2>1. mode' = [mode EXCEPT ![cpu] = m] /\ mode[cpu] # "boot"
    BY <1>5 DEF CtrlC, Tick, Interrupted, InterruptsOn
  <2>2. \/ pending_signal' = [pending_signal EXCEPT ![top] = pending_signal[top]]
        \/ \E n \in Raised \ Faults :
             pending_signal' = [pending_signal EXCEPT ![top] = pending_signal[top] \cup {n}]
    BY <1>5, SignalNumbers DEF CtrlC, Tick, Send, SigInv, MasksOK
  <2>3. PICK new \in SUBSET Raised : /\ pending_signal' = [pending_signal EXCEPT ![top] = new]
                                     /\ new \cap Faults \subseteq pending_signal[top]
    BY <1>3, <2>2, CpuFacts
  <2>4. m \in {"exit", "open", "lost"} \/ m = mode[cpu]
    OBVIOUS
  <2> HIDE DEF m, top
  <2> QED
    BY <1>1, <1>2, <2>1, <2>3, <2>4, CpuFacts, ModeStep DEF top
<1> QED
  BY <1>4, <1>5

LEMMA PassersInv ==
  ASSUME SigInv, AltFn \/ Syscall \/ Wait \/ SetHandler \/ NothingPending \/ Iret
  PROVE  SigInv'
<1>1. stack' = stack /\ turn' \in Terminals /\ shown' \in Terminals
  <2>1. turn \in Terminals /\ shown \in Terminals
    BY DEF SigInv, StacksOK
  <2>2. CASE AltFn
    BY <2>1, <2>2 DEF AltFn, Sessions!Show, Terminals
  <2>3. ASSUME Syscall \/ Wait \/ SetHandler \/ NothingPending \/ Iret PROVE UNCHANGED sessions
    BY <2>3 DEF Syscall, Wait, SetHandler, NothingPending, Iret
  <2> QED
    BY <2>1, <2>2, <2>3 DEF sessions
<1>2. UNCHANGED <<mask, prev_mask, handling, pending_signal>>
  BY DEF AltFn, Syscall, Wait, SetHandler, NothingPending, Iret, signals
<1>3. /\ pending_signal' = [pending_signal EXCEPT ![cpu] = pending_signal[cpu]]
      /\ pending_signal[cpu] \in SUBSET Raised
  BY <1>2, CpuFacts DEF SigInv, MasksOK
<1>4. mode[cpu] \notin {"exit", "open", "lost"} => Deliverable(cpu) \cap Faults = {}
  BY CpuFacts DEF SigInv, FaultsOK
<1>5. mode[cpu] # "boot"
  BY DEF AltFn, InterruptsOn, Syscall, Wait, SetHandler, NothingPending, Iret, Leaving
<1>6. PICK m : /\ mode' = [mode EXCEPT ![cpu] = m]
               /\ m \in {"exit", "open", "lost"} \/ m = mode[cpu] \/ Deliverable(cpu) \cap Faults = {}
  <2>1. ASSUME AltFn \/ Syscall \/ SetHandler
        PROVE  \E m : /\ mode' = [mode EXCEPT ![cpu] = m]
                      /\ m \in {"exit", "open", "lost"} \/ m = mode[cpu] \/ Deliverable(cpu) \cap Faults = {}
    BY <2>1 DEF AltFn, Interrupted, Syscall, SetHandler
  <2>2. ASSUME Wait \/ NothingPending \/ Iret
        PROVE  \E m : /\ mode' = [mode EXCEPT ![cpu] = m]
                      /\ m \in {"exit", "open", "lost"} \/ m = mode[cpu] \/ Deliverable(cpu) \cap Faults = {}
    BY <1>4, <2>2 DEF Wait, NothingPending, Checked, Iret
  <2> QED
    BY <2>1, <2>2
<1> QED
  BY <1>1, <1>2, <1>3, <1>5, <1>6, CpuFacts, ModeStep

\* The signal state of the processes other than the running one.
OthersKept ==
  /\ pending_signal' \in [Pids -> SUBSET Raised]
  /\ mask' = [p \in Pids |-> mask'[p]] /\ prev_mask' = [p \in Pids |-> prev_mask'[p]]
  /\ handling' = [p \in Pids |-> handling'[p]]
  /\ \A p \in Pids \ {cpu} : /\ pending_signal'[p] = pending_signal[p]
                             /\ mask'[p] = mask[p] /\ prev_mask'[p] = prev_mask[p]
                             /\ handling'[p] = handling[p]

\* sigreturn, and check_signal when it takes a signal: the running process stays
\* and its own signal state is in order.
LEMMA OwnStep ==
  ASSUME SigInv, OthersKept, mode[cpu] # "boot", UNCHANGED sessions,
         NEW m, mode' = [mode EXCEPT ![cpu] = m],
         \/ handling'[cpu] = 0 /\ mask'[cpu] = {}
         \/ handling'[cpu] = 1 /\ mask'[cpu] = Raised /\ prev_mask'[cpu] = {},
         m \in {"exit", "open", "lost"} \/ pending_signal'[cpu] = {}
  PROVE  SigInv'
<1>1. StacksOK' /\ Live' = Live
  BY SameStacks DEF SigInv, StacksOK, sessions
<1>2. /\ mode' = [q \in Pids |-> mode'[q]] /\ mode'[cpu] = m
      /\ \A q \in Pids \ {cpu} : mode'[q] = mode[q]
  BY CpuFacts DEF SigInv, ModesOK
<1>3. ModesOK'
  <2>1. \A b \in BootPids : b \in Pids /\ b # cpu /\ mode[b] = "boot"
    BY StackFacts DEF SigInv, ModesOK
  <2> QED
    BY <1>2, <2>1 DEF ModesOK, BootPids, Terminals, Sessions!Terminals
<1>4. MasksOK'
  <2>1. \A p \in Procs : \/ handling'[p] = 0 /\ (p \in Live => mask'[p] = {})
                         \/ handling'[p] = 1 /\ p \in Live /\ mask'[p] = Raised /\ prev_mask'[p] = {}
    BY CpuFacts DEF OthersKept, SigInv, MasksOK, Procs
  <2> QED
    BY <1>1, <2>1 DEF OthersKept, MasksOK, Procs, BootPids, Terminals, Sessions!Terminals
<1>5. FaultsOK'
  BY <1>2 DEF OthersKept, SigInv, FaultsOK, Deliverable, Faults, DIV_ZERO, SEGFAULT
<1> QED
  BY <1>1, <1>3, <1>4, <1>5 DEF SigInv

LEMMA sigreturnInv == ASSUME SigInv, sigreturn PROVE SigInv'
<1>1. cpu \in Procs /\ cpu \in Pids /\ handling[cpu] > 0 /\ mode[cpu] # "boot"
  BY CpuFacts DEF sigreturn
<1>2. handling[cpu] = 1 /\ prev_mask[cpu] = {}
  <2>1. handling[cpu] = 0 \/ (handling[cpu] = 1 /\ prev_mask[cpu] = {})
    BY <1>1, Zenon DEF SigInv, MasksOK
  <2>2. handling[cpu] # 0
    BY <1>1
  <2> QED
    BY <2>1, <2>2
<1>3. /\ handling' = [handling EXCEPT ![cpu] = handling[cpu] - 1]
      /\ mask' = [mask EXCEPT ![cpu] = prev_mask[cpu]]
      /\ UNCHANGED <<pending_signal, prev_mask>>
      /\ UNCHANGED sessions /\ mode' = [mode EXCEPT ![cpu] = "exit"]
  BY DEF sigreturn, sessions
<1>4. OthersKept
  BY <1>3 DEF OthersKept, SigInv, MasksOK
<1>5. handling'[cpu] = 0 /\ mask'[cpu] = {}
  BY <1>1, <1>2, <1>3 DEF SigInv, MasksOK
<1> QED
  BY <1>1, <1>3, <1>4, <1>5, OwnStep

\* A signal is only taken by a process without a handler running.
LEMMA TakeFacts ==
  ASSUME SigInv, NEW n, Take(n)
  PROVE  /\ cpu \in Procs /\ cpu \in Pids /\ mode[cpu] # "boot"
         /\ handling[cpu] = 0 /\ mask[cpu] = {}
         /\ pending_signal'[cpu] = {} /\ prev_mask'[cpu] = {}
<1>1. cpu \in Procs /\ cpu \in Pids /\ mode[cpu] # "boot" /\ cpu \in Live
  BY CpuFacts DEF Take, Leaving
<1>2. mask[cpu] # Raised
  BY <1>1 DEF Take, Deliverable, SigInv, MasksOK
<1>3. handling[cpu] = 0 /\ mask[cpu] = {}
  BY <1>1, <1>2 DEF SigInv, MasksOK
<1> QED
  BY <1>1, <1>3 DEF Take, SigInv, MasksOK

LEMMA TakenInv == ASSUME SigInv, RunHandler \/ Ignore PROVE SigInv'
<1>1. PICK n : Take(n)
  BY DEF RunHandler, Ignore
<1>2. /\ UNCHANGED sessions
      /\ \/ handling' = handling /\ mask' = mask
         \/ handling' = [handling EXCEPT ![cpu] = handling[cpu] + 1]
            /\ mask' = [mask EXCEPT ![cpu] = Raised]
      /\ mode' = [mode EXCEPT ![cpu] = IF mode[cpu] = "open" THEN "checked" ELSE "user"]
  BY DEF RunHandler, Ignore, Checked
<1>3. /\ pending_signal' = [pending_signal EXCEPT ![cpu] = {}]
      /\ prev_mask' = [prev_mask EXCEPT ![cpu] = mask[cpu]]
  BY <1>1 DEF Take
<1>4. /\ cpu \in Procs /\ cpu \in Pids /\ mode[cpu] # "boot"
      /\ handling[cpu] = 0 /\ mask[cpu] = {}
      /\ pending_signal'[cpu] = {} /\ prev_mask'[cpu] = {}
  BY <1>1, TakeFacts
<1>5. OthersKept
  BY <1>2, <1>3, <1>4 DEF OthersKept, SigInv, MasksOK
<1>6. \/ handling'[cpu] = 0 /\ mask'[cpu] = {}
      \/ handling'[cpu] = 1 /\ mask'[cpu] = Raised /\ prev_mask'[cpu] = {}
  BY <1>2, <1>4 DEF SigInv, MasksOK
<1> QED
  BY <1>2, <1>4, <1>5, <1>6, OwnStep

\* halt, whoever calls it: the process leaves with no handler running.
LEMMA EndStep ==
  ASSUME SigInv, OthersKept, End,
         \/ pending_signal'[cpu] = {}
         \/ Deliverable(cpu) \cap Faults = {} /\ UNCHANGED <<pending_signal, mask>>
  PROVE  SigInv'
<1> DEFINE parent == Last(Front(stack[turn]))
<1>1. StacksOK' /\ Live' = Live \ {cpu} /\ cpu \in Procs /\ cpu \in Pids
  BY PopStacks DEF SigInv, End, Procs
<1>2. mode' = [mode EXCEPT ![cpu] = "none", ![parent] = IF @ = "boot" THEN @ ELSE "exit"]
  BY DEF End
<1>3. ModesOK'
  <2>1. \A b \in BootPids : b \in Pids /\ b # cpu /\ mode[b] = "boot"
    BY <1>1, StackFacts DEF SigInv, ModesOK, Procs
  <2> HIDE DEF parent
  <2>2. mode' = [q \in Pids |-> mode'[q]] /\ \A b \in BootPids : mode'[b] = "boot"
    BY <1>1, <1>2, <2>1 DEF SigInv, ModesOK
  <2> QED
    BY <2>2 DEF ModesOK, BootPids, Terminals, Sessions!Terminals
<1>4. MasksOK'
  <2>1. handling'[cpu] = 0
    BY <1>1 DEF End, SigInv, MasksOK
  <2>2. \A p \in Procs :
          \/ handling'[p] = 0 /\ (p \in Live \ {cpu} => mask'[p] = {})
          \/ handling'[p] = 1 /\ p \in Live \ {cpu} /\ mask'[p] = Raised /\ prev_mask'[p] = {}
    BY <1>1, <2>1 DEF OthersKept, SigInv, MasksOK, Procs
  <2> QED
    BY <1>1, <2>2 DEF OthersKept, MasksOK, Procs, BootPids, Terminals, Sessions!Terminals
<1>5. FaultsOK'
  <2>1. ASSUME NEW q \in Pids, mode'[q] \notin {"exit", "open", "lost"}
        PROVE  pending_signal'[q] \cap Faults \subseteq mask'[q]
    <3>1. CASE q = cpu
      BY <3>1 DEF Deliverable
    <3>2. CASE q # cpu
      <4> HIDE DEF parent
      <4>1. mode[q] \notin {"exit", "open", "lost"}
        BY <1>1, <1>2, <2>1, <3>2 DEF SigInv, ModesOK
      <4> QED
        BY <3>2, <4>1 DEF OthersKept, SigInv, FaultsOK, Deliverable
    <3> QED
      BY <3>1, <3>2
  <2> QED
    BY <2>1 DEF FaultsOK, Deliverable, Faults, DIV_ZERO, SEGFAULT
<1> QED
  BY <1>1, <1>3, <1>4, <1>5 DEF SigInv

LEMMA HaltInv == ASSUME SigInv, Halt PROVE SigInv'
<1>1. /\ End /\ UNCHANGED <<pending_signal, mask, prev_mask>>
      /\ handling' = [handling EXCEPT ![cpu] = 0]
  BY DEF Halt, End
<1>2. OthersKept
  BY <1>1, CpuFacts DEF OthersKept, SigInv, MasksOK
<1>3. Deliverable(cpu) \cap Faults = {}
  BY CpuFacts DEF Halt, SigInv, FaultsOK
<1> QED
  BY <1>1, <1>2, <1>3, EndStep

LEMMA KillInv == ASSUME SigInv, Kill PROVE SigInv'
<1>1. PICK n : Take(n)
  BY DEF Kill
<1>2. /\ End /\ handling' = [handling EXCEPT ![cpu] = 0]
      /\ mask' = [mask EXCEPT ![cpu] = Raised]
      /\ pending_signal' = [pending_signal EXCEPT ![cpu] = {}]
      /\ prev_mask' = [prev_mask EXCEPT ![cpu] = mask[cpu]]
  BY <1>1 DEF Kill, End, Take
<1>3. OthersKept /\ pending_signal'[cpu] = {}
  BY <1>2, CpuFacts DEF OthersKept, SigInv, MasksOK
<1> QED
  BY <1>2, <1>3, EndStep

\* execute: the child gets a pid that no process has, and with it no signal, no
\* mask and no handler.
LEMMA ExecuteInv == ASSUME SigInv, Execute PROVE SigInv'
<1>1. PICK child \in Pids :
        /\ stack'[turn] = Append(stack[turn], child)
        /\ signal_init(child)
        /\ mode' = [mode EXCEPT ![child] = "user", ![cpu] = IF @ = "boot" THEN @ ELSE "parent"]
  BY DEF Execute
<1>2. StacksOK' /\ Live' = Live \cup {child} /\ child \in Pids \ Live
  BY <1>1, PushStacks DEF SigInv, Execute
<1>3. /\ child # cpu /\ child \in Procs /\ cpu \in Pids
      /\ mode[cpu] \in {"user", "boot"} /\ handling' = handling
  BY <1>2, CpuFacts, StackFacts DEF SigInv, Procs, Execute
<1>4. ModesOK'
  <2>1. \A b \in BootPids : b \in Pids /\ b # child /\ mode[b] = "boot"
    BY <1>3, StackFacts DEF SigInv, ModesOK, Procs
  <2>2. mode' = [q \in Pids |-> mode'[q]] /\ \A b \in BootPids : mode'[b] = "boot"
    BY <1>1, <1>3, <2>1 DEF SigInv, ModesOK
  <2> QED
    BY <2>2 DEF ModesOK, BootPids, Terminals, Sessions!Terminals
<1>5. /\ pending_signal' = [pending_signal EXCEPT ![child] = {}]
      /\ mask' = [mask EXCEPT ![child] = {}] /\ prev_mask' = prev_mask
  BY <1>1 DEF signal_init
<1>6. MasksOK'
  <2>1. handling[child] = 0
    BY <1>2, <1>3 DEF SigInv, MasksOK
  <2>2. \A p \in Procs :
          \/ handling'[p] = 0 /\ (p \in Live \cup {child} => mask'[p] = {})
          \/ handling'[p] = 1 /\ p \in Live \cup {child} /\ mask'[p] = Raised /\ prev_mask'[p] = {}
    BY <1>3, <1>5, <2>1 DEF SigInv, MasksOK, Procs
  <2>3. /\ pending_signal' \in [Pids -> SUBSET Raised]
        /\ mask' = [p \in Pids |-> mask'[p]] /\ prev_mask' = [p \in Pids |-> prev_mask'[p]]
        /\ handling' = [p \in Pids |-> handling'[p]]
    BY <1>3, <1>5 DEF SigInv, MasksOK
  <2> QED
    BY <1>2, <2>2, <2>3 DEF MasksOK, Procs, BootPids, Terminals, Sessions!Terminals
<1>7. FaultsOK'
  <2>1. ASSUME NEW q \in Pids, mode'[q] \notin {"exit", "open", "lost"}
        PROVE  pending_signal'[q] \cap Faults \subseteq mask'[q]
    <3>1. CASE q = child
      BY <1>5, <3>1 DEF SigInv, MasksOK
    <3>2. CASE q # child
      <4>1. mode[q] \notin {"exit", "open", "lost"}
        BY <1>1, <1>3, <2>1, <3>2 DEF SigInv, ModesOK
      <4> QED
        BY <1>5, <3>2, <4>1 DEF SigInv, MasksOK, FaultsOK, Deliverable
    <3> QED
      BY <3>1, <3>2
  <2> QED
    BY <2>1 DEF FaultsOK, Deliverable, Faults, DIV_ZERO, SEGFAULT
<1> QED
  BY <1>2, <1>4, <1>6, <1>7 DEF SigInv

LEMMA StutterInv == ASSUME SigInv, UNCHANGED vars PROVE SigInv'
<1>1. StacksOK' /\ Live' = Live
  BY SameStacks DEF SigInv, StacksOK, vars, sessions
<1>2. UNCHANGED <<mode, mask, prev_mask, handling, pending_signal>>
  BY DEF vars, signals
<1> QED
  BY <1>1, <1>2
     DEF SigInv, ModesOK, MasksOK, FaultsOK, Procs, BootPids, Terminals, Sessions!Terminals,
         Deliverable, Faults, DIV_ZERO, SEGFAULT

\* The invariant holds in every reachable state.
THEOREM SignalInvariant == Spec => []SigInv
<1>1. SigInv /\ [Next]_vars => SigInv'
  BY SendersInv, PassersInv, sigreturnInv, TakenInv, HaltInv, KillInv, ExecuteInv, StutterInv
     DEF Next, check_signal
<1> QED
  BY <1>1, InitInv, PTL DEF Spec

\* A process' handlers do not interrupt one another, whatever interrupts them,
\* for any number of processes and signals.
THEOREM HandlersDoNotNestHolds == Spec => []HandlersDoNotNest
<1>1. SigInv => HandlersDoNotNest
  <2> SUFFICES ASSUME SigInv, NEW p \in Live \ BootPids
               PROVE  handling[p] <= 1 /\ mask[p] = (IF handling[p] = 1 THEN Raised ELSE {})
    BY DEF HandlersDoNotNest
  <2>1. p \in Procs /\ p \in Live
    BY StackFacts DEF SigInv, Procs
  <2>2. \/ handling[p] = 0 /\ mask[p] = {}
        \/ handling[p] = 1 /\ mask[p] = Raised
    BY <2>1 DEF SigInv, MasksOK
  <2> QED
    BY <2>2
<1> QED
  BY <1>1, SignalInvariant, PTL

\* No user code runs past a fault, whatever exceptions there are, for any number
\* of processes.
THEOREM UserCodeStopsHolds == Spec => []UserCodeStops
<1>1. SigInv => UserCodeStops
  BY DEF SigInv, FaultsOK, UserCodeStops
<1> QED
  BY <1>1, SignalInvariant, PTL

\* Without an exception whose frame is shifted no process is lost.
NoneLost == \A p \in Pids : mode[p] # "lost"

LEMMA NextKeepsModes ==
  ASSUME SigInv, NoneLost, Exceptions \cap Shifted = {}, [Next]_vars
  PROVE  NoneLost'
<1>1. /\ mode = [p \in Pids |-> mode[p]] /\ cpu \in Pids /\ mode[cpu] # "lost"
      /\ \A p \in Pids : mode[p] # "lost"
  BY CpuFacts DEF SigInv, ModesOK, NoneLost
<1>2. ASSUME Exception PROVE NoneLost'
  <2>1. mode' = [mode EXCEPT ![cpu] = "open"]
    BY <1>2 DEF Exception
  <2> QED
    BY <1>1, <2>1 DEF NoneLost
<1>3. ASSUME CtrlC \/ Tick \/ AltFn \/ Syscall \/ Wait \/ SetHandler \/ sigreturn PROVE NoneLost'
  <2>1. \E m \in Modes \ {"lost"} : mode' = [mode EXCEPT ![cpu] = m] \/ mode' = mode
    BY <1>1, <1>3 DEF CtrlC, Tick, AltFn, Interrupted, Syscall, Wait, SetHandler, sigreturn, Modes
  <2> QED
    BY <1>1, <2>1 DEF NoneLost
<1>4. ASSUME Execute PROVE NoneLost'
  BY <1>1, <1>4 DEF Execute, NoneLost
<1>5. ASSUME End PROVE NoneLost'
  <2> DEFINE parent == Last(Front(stack[turn]))
  <2>1. mode' = [mode EXCEPT ![cpu] = "none", ![parent] = IF @ = "boot" THEN @ ELSE "exit"]
    BY <1>5 DEF End
  <2> HIDE DEF parent
  <2> QED
    BY <1>1, <2>1 DEF NoneLost
<1>6. ASSUME NothingPending \/ RunHandler \/ Ignore \/ Iret PROVE NoneLost'
  <2>1. \E m \in {"checked", "user"} : mode' = [mode EXCEPT ![cpu] = m]
    BY <1>6 DEF NothingPending, RunHandler, Ignore, Checked, Iret
  <2> QED
    BY <1>1, <2>1 DEF NoneLost
<1>7. CASE UNCHANGED vars
  BY <1>1, <1>7 DEF vars, NoneLost
<1> QED
  BY <1>2, <1>3, <1>4, <1>5, <1>6, <1>7 DEF Next, check_signal, Halt, Kill

\* Every fault is taken by the next check_signal, if the programs run into no
\* exception whose stub shifts the frame; the first of those refutes it.
THEOREM FaultsAreTakenHolds ==
  ASSUME Exceptions \cap Shifted = {}
  PROVE  Spec => []FaultsAreTaken
<1>1. Init => NoneLost
  BY DEF Init, NoneLost
<1>2. SigInv /\ NoneLost /\ [Next]_vars => NoneLost'
  BY NextKeepsModes
<1>3. SigInv /\ NoneLost => FaultsAreTaken
  BY DEF SigInv, FaultsOK, NoneLost, FaultsAreTaken
<1> QED
  BY <1>1, <1>2, <1>3, SignalInvariant, PTL DEF Spec
=============================================================================
