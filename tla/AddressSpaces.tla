--------------------------- MODULE AddressSpaces ---------------------------
(***************************************************************************)
(* Paging.  There is one page directory and every process is linked at the *)
(* same address: execute, halt and the scheduler rewrite one entry of the  *)
(* directory, which the processor may still hold in its TLB.  A slot is an *)
(* index of the directory.                                                 *)
(***************************************************************************)
EXTENDS Naturals, Sequences, SequencesExt

CONSTANTS
  Terminals, \* 1 .. n; terminal t's boot process is pid t
  Pids,      \* 1 .. the highest pid
  Images,    \* what a program file holds
  Values     \* what a program writes, its next command line among it

ASSUME AddressSpacesAssumption == Terminals \subseteq Pids /\ Pids \subseteq Nat /\ 1 \in Terminals

VARIABLES
  PD, PT_user, \* the directory and the one entry of vidmap's table
  tlb,         \* per slot, the translation the processor keeps
  frames,      \* what the 4 MB frames of the processes hold
  args,        \* PCB: argstr
  chain,       \* per terminal, the processes from its boot process to sche_list
  turn,        \* cur_sche_node
  shown,       \* nowterminalno: the processes at its top are visible
  seen         \* what the last read of a program returned

paging == <<PD, PT_user, tlb>>
vars   == <<paging, frames, args, chain, turn, shown, seen>>

Slots == {0, 1, 32, 64, 1022} \* video, kernel, 128 MB, UVIDEOADDR, heap

Live    == UNION {Range(chain[t]) : t \in Terminals}
Running == Last(chain[turn])
InUser  == Len(chain[turn]) > 1

\* A 4 MB entry (PS) names a frame, one of 4 KB a page by way of a table.
Absent              == [P |-> FALSE]
SET_PD_4M(base, us) == [P |-> TRUE, PS |-> TRUE, US |-> us, base |-> base]
SET_PD_4K(base, us) == [P |-> TRUE, PS |-> FALSE, US |-> us, base |-> base]
SET_PT(base, us)    == [P |-> TRUE, PS |-> FALSE, US |-> us, base |-> base]

Frame(pid)    == 2 + (pid - 1) \* 8*MB+4*MB*(pid-1), in units of 4 MB
BackupVP(x)   == 184 + x       \* 0xB8000 + 0x1000 * x, in units of 4 KB
ScreenPage    == 184

\* The processor: what it finds in the tables, and what it uses.  Of the table
\* PT only pages that the kernel alone may use are present.
Walk(slot) ==
  IF ~PD[slot].P THEN Absent
  ELSE IF PD[slot].PS THEN PD[slot]
  ELSE IF PD[slot].base = "PT_user" THEN PT_user
  ELSE SET_PT(ScreenPage, FALSE)

Translate(slot) == IF tlb[slot].P THEN tlb[slot] ELSE Walk(slot)

Flush_TLB_Skipped == tlb
Flush_TLB == [s \in Slots |-> Absent]

map_4M_U(slot, frame) ==
  /\ PD' = [PD EXCEPT ![slot] = SET_PD_4M(frame, TRUE)]
  /\ tlb' = Flush_TLB

\* unmap_4M, which leaves an absent entry alone, and map_4M_U of the other
\* process at the same place.
paging_switch(old_pid, new_pid) == map_4M_U(32, Frame(new_pid))

\* Where the page of vidmap goes for pid, which runs on terminal t.
VidmapEntry(pid, t) == SET_PT(IF t = shown THEN ScreenPage ELSE BackupVP(pid), TRUE)

----------------------------------------------------------------------------
\* init_paging, and then _init_multiple_terminal: the boot processes have PCBs
\* and stacks, but nothing is loaded, and nothing mapped at 128 MB.
Init ==
  /\ PD = [s \in Slots |-> CASE s = 0 -> SET_PD_4K("PT", FALSE)
                             [] s \in {1, 1022} -> SET_PD_4M(s, FALSE)
                             [] s \in {32, 64} -> Absent]
  /\ PT_user = Absent
  /\ tlb = [s \in Slots |-> Absent]
  /\ frames = [f \in {Frame(p) : p \in Pids} |-> "none"]
  /\ args = [p \in Pids |-> "none"]
  /\ chain = [t \in Terminals |-> <<t>>]
  /\ turn = 1
  /\ shown = 1
  /\ seen = "none"

\* The processor may keep any translation it could use; those of the kernel's
\* slots never change.
Cache(slot) ==
  /\ Walk(slot).P /\ ~tlb[slot].P
  /\ tlb' = [tlb EXCEPT ![slot] = Walk(slot)]
  /\ UNCHANGED <<PD, PT_user, frames, args, chain, turn, shown, seen>>

\* A program at work in its own page.
Write(v) ==
  /\ InUser
  /\ frames' = [frames EXCEPT ![Translate(32).base] = v]
  /\ UNCHANGED <<paging, args, chain, turn, shown, seen>>

Read ==
  /\ InUser
  /\ seen' = frames[Translate(32).base]
  /\ UNCHANGED <<paging, frames, args, chain, turn, shown>>

Execute_LoadFirst(child, image) ==
  /\ child \in Pids \ Live
  /\ map_4M_U(32, Frame(child))
  /\ PT_user' = PT_user
  /\ frames' = [frames EXCEPT ![Translate(32)'.base] = image]
  /\ args' = [args EXCEPT ![child] = IF InUser THEN frames'[Translate(32)'.base] ELSE "shell"]
  /\ chain' = [chain EXCEPT ![turn] = Append(@, child)]
  /\ UNCHANGED <<turn, shown, seen>>

\* The command of a program lies in its own memory and is copied to the PCB of
\* the child (fillPCBargs) before loader maps the child in its place; the image
\* is then read to 128 MB.
Execute(child, image) ==
  /\ child \in Pids \ Live
  /\ args' = [args EXCEPT ![child] = IF InUser THEN frames[Translate(32).base] ELSE "shell"]
  /\ map_4M_U(32, Frame(child))
  /\ PT_user' = PT_user
  /\ frames' = [frames EXCEPT ![Translate(32)'.base] = image]
  /\ chain' = [chain EXCEPT ![turn] = Append(@, child)]
  /\ UNCHANGED <<turn, shown, seen>>

Halt ==
  /\ InUser
  /\ chain' = [chain EXCEPT ![turn] = Front(@)]
  /\ UNCHANGED <<PT_user, frames, args, turn, shown, seen>>
  /\ paging_switch(Running, Running')

\* vidmap does not flush the TLB, and nothing ever unmaps the page.
vidmap ==
  /\ InUser
  /\ PD' = [PD EXCEPT ![64] = SET_PD_4K("PT_user", TRUE)]
  /\ PT_user' = VidmapEntry(Running, turn)
  /\ UNCHANGED <<tlb, frames, args, chain, turn, shown, seen>>

NextVidmap_Kept(pid, t) == PT_user

\* scheduler points a page that is mapped at the video memory of the next process.
NextVidmap(pid, t) == IF PD[64].P /\ PT_user.P THEN VidmapEntry(pid, t) ELSE PT_user

scheduler ==
  /\ turn' = IF turn + 1 \in Terminals THEN turn + 1 ELSE 1
  /\ chain' = chain
  /\ paging_switch(Running, Running')
  /\ PT_user' = NextVidmap(Running', turn')
  /\ UNCHANGED <<frames, args, shown, seen>>

\* Alt-Fn moves visible to the process of another terminal and leaves the page
\* of vidmap as it is.
SwitchTerminal(t) ==
  /\ shown' = t
  /\ UNCHANGED <<paging, frames, args, chain, turn, seen>>

Next ==
  \/ \E slot \in {32, 64} : Cache(slot)
  \/ \E v \in Values : Write(v)
  \/ Read
  \/ \E child \in Pids, image \in Images : Execute(child, image)
  \/ Halt
  \/ vidmap
  \/ scheduler
  \/ \E t \in Terminals : SwitchTerminal(t)

Spec == Init /\ [][Next]_vars

----------------------------------------------------------------------------
\* Every process has its memory for itself: what it reads is what it wrote or
\* was loaded with, nobody else's write or load reaches it, and a child gets the
\* arguments its parent had, not what the loader put over them.
Memory == INSTANCE PrivateMemory WITH mem <- [p \in Pids |-> frames[Frame(p)]]
MemoryIsPrivate == Memory!Spec

\* A program can reach its own frame and a video page, by no entry and no stale
\* translation anything of the kernel, another frame, or the page on which a
\* process of another terminal draws.
Reachable == {e \in {Walk(s) : s \in Slots} \cup {tlb[s] : s \in Slots} : e.P /\ e.US}

OnlyOwnPages ==
  InUser => \A e \in Reachable :
    IF e.PS THEN e.base = Frame(Running)
    ELSE e.base = ScreenPage \/ \A p \in Live \ Range(chain[turn]) : e.base # BackupVP(p)
=============================================================================
