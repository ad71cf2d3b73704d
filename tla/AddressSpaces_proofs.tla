------------------------ MODULE AddressSpaces_proofs ------------------------
(***************************************************************************)
(* For any number of terminals and processes: the pages a program can      *)
(* reach are its own, and paging implements private memories.              *)
(***************************************************************************)
EXTENDS AddressSpaces, TLAPS

\* The processes of the terminals that do not run, and the video pages the
\* running terminal may be mapped to.
Others == UNION {Range(chain[t]) : t \in Terminals \ {turn}}
VideoEntries == {SET_PT(ScreenPage, TRUE)} \cup {SET_PT(BackupVP(p), TRUE) : p \in Pids \ Others}

\* A process belongs to one terminal.
ChainsOK ==
  /\ turn \in Terminals
  /\ chain \in [Terminals -> Seq(Pids)]
  /\ \A t \in Terminals : chain[t] # <<>>
  /\ \A t, u \in Terminals : t # u => Range(chain[t]) \cap Range(chain[u]) = {}

\* The directory maps the running process' frame, or before the first tick or
\* execute none to a boot process; the kernel's own entries stay as they were, and the page of vidmap is one the terminal may have.
DirectoryOK ==
  /\ PD = [s \in Slots |-> PD[s]]
  /\ PD[0] = SET_PD_4K("PT", FALSE)
  /\ PD[1] = SET_PD_4M(1, FALSE) /\ PD[1022] = SET_PD_4M(1022, FALSE)
  /\ PD[32] = SET_PD_4M(Frame(Running), TRUE) \/ (PD[32] = Absent /\ ~InUser)
  /\ \/ PD[64] = Absent /\ PT_user = Absent
     \/ PD[64] = SET_PD_4K("PT_user", TRUE) /\ PT_user \in VideoEntries

\* What the processor keeps is what it would find, or a page of the terminal.
TlbOK ==
  /\ tlb = [s \in Slots |-> tlb[s]]
  /\ \A s \in {0, 1, 1022} : tlb[s] = Absent
  /\ tlb[32] = Absent \/ tlb[32] = SET_PD_4M(Frame(Running), TRUE)
  /\ tlb[64] = Absent \/ tlb[64] \in VideoEntries

FramesOK == frames = [f \in {Frame(p) : p \in Pids} |-> frames[f]]

AInv == ChainsOK /\ DirectoryOK /\ TlbOK /\ FramesOK
-----------------------------------------------------------------------------
\* What a chain loses and gains at its top.
LEMMA ChainTop ==
  ASSUME NEW s \in Seq(Pids), s # <<>>
  PROVE  /\ Last(s) \in Range(s) /\ Range(s) \subseteq Pids
         /\ \A e \in Pids : /\ Append(s, e) \in Seq(Pids) /\ Append(s, e) # <<>>
                            /\ Last(Append(s, e)) = e
                            /\ Range(Append(s, e)) = Range(s) \cup {e}
         /\ Len(s) > 1 => /\ Front(s) \in Seq(Pids) /\ Front(s) # <<>>
                          /\ Range(Front(s)) \subseteq Range(s)
<1>1. Len(s) \in Nat \ {0} /\ DOMAIN s = 1 .. Len(s)
  OBVIOUS
<1>2. Last(s) \in Range(s) /\ Range(s) \subseteq Pids
  BY <1>1 DEF Last, Range
<1>3. ASSUME NEW e \in Pids
      PROVE  /\ Append(s, e) \in Seq(Pids) /\ Append(s, e) # <<>>
             /\ Last(Append(s, e)) = e
             /\ Range(Append(s, e)) = Range(s) \cup {e}
  <2> DEFINE a == Append(s, e)
  <2>1. /\ a \in Seq(Pids) /\ Len(a) = Len(s) + 1 /\ DOMAIN a = 1 .. Len(s) + 1
        /\ \A i \in 1 .. Len(s) : a[i] = s[i]
        /\ a[Len(s) + 1] = e
    BY <1>1
  <2>2. Range(a) = Range(s) \cup {e}
    <3> HIDE DEF a
    <3> QED
      BY <1>1, <2>1 DEF Range
  <2> QED
    BY <1>1, <2>1, <2>2 DEF Last
<1>4. ASSUME Len(s) > 1
      PROVE  /\ Front(s) \in Seq(Pids) /\ Front(s) # <<>>
             /\ Range(Front(s)) \subseteq Range(s)
  <2>1. Front(s) = [i \in 1 .. Len(s) - 1 |-> s[i]]
    BY <1>1, <1>4 DEF Front
  <2>2. Front(s) \in Seq(Pids) /\ Len(Front(s)) = Len(s) - 1
    BY <1>1, <1>4, <2>1
  <2> DEFINE f == Front(s)
  <2>3. DOMAIN f = 1 .. Len(s) - 1 /\ \A i \in 1 .. Len(s) - 1 : f[i] = s[i]
    BY <2>1
  <2>4. f # <<>>
    BY <1>1, <1>4, <2>2
  <2>5. Range(f) \subseteq Range(s)
    <3> HIDE DEF f
    <3> QED
      BY <1>1, <2>3 DEF Range
  <2> QED
    BY <2>2, <2>4, <2>5
<1> QED
  BY <1>2, <1>3, <1>4

\* The running process is a process, alive, and of no other terminal.
LEMMA RunningFacts ==
  ASSUME ChainsOK
  PROVE  /\ Running \in Pids \ Others /\ Running \in Live
         /\ Live = Others \cup Range(chain[turn])
         /\ Others \subseteq Pids
         /\ \A t \in Terminals : Last(chain[t]) \in Pids
<1>1. \A t \in Terminals : Last(chain[t]) \in Range(chain[t]) /\ Range(chain[t]) \subseteq Pids
  BY ChainTop DEF ChainsOK
<1> QED
  BY <1>1 DEF ChainsOK, Running, Live, Others

\* No two processes have a frame or a video page in common.
LEMMA PagesDiffer ==
  ASSUME NEW p \in Pids, NEW q \in Pids, p # q
  PROVE  Frame(p) # Frame(q) /\ BackupVP(p) # BackupVP(q)
BY AddressSpacesAssumption DEF Frame, BackupVP

\* What the processor finds in the tables: the kernel's slots are not the user's,
\* the others hold the running process' pages.
LEMMA KernelSlots ==
  ASSUME AInv
  PROVE  /\ Walk(0).P /\ ~Walk(0).US
         /\ Walk(1).P /\ ~Walk(1).US /\ Walk(1022).P /\ ~Walk(1022).US
<1> USE DEF AInv, DirectoryOK, Walk, SET_PD_4K, SET_PD_4M, SET_PT
<1>1. Walk(0).P /\ ~Walk(0).US
  OBVIOUS
<1>2. Walk(1).P /\ ~Walk(1).US /\ Walk(1022).P /\ ~Walk(1022).US
  OBVIOUS
<1> QED
  BY <1>1, <1>2

LEMMA UserSlots ==
  AInv => /\ Walk(32) = SET_PD_4M(Frame(Running), TRUE) \/ (Walk(32) = Absent /\ ~InUser)
          /\ Walk(64) = Absent \/ Walk(64) \in VideoEntries
<1> USE DEF AInv, DirectoryOK, Walk, Absent, SET_PD_4K, SET_PD_4M, SET_PT
<1>1. AInv => Walk(32) = SET_PD_4M(Frame(Running), TRUE) \/ (Walk(32) = Absent /\ ~InUser)
  OBVIOUS
<1>2. AInv => Walk(64) = Absent \/ Walk(64) \in VideoEntries
  OBVIOUS
<1> QED
  BY <1>1, <1>2

LEMMA OwnFrame == AInv /\ InUser => Translate(32) = SET_PD_4M(Frame(Running), TRUE)
<1> SUFFICES ASSUME AInv, InUser PROVE Translate(32) = SET_PD_4M(Frame(Running), TRUE)
  OBVIOUS
<1>1. CASE tlb[32] = Absent
  <2>1. ~tlb[32].P
    BY <1>1 DEF Absent
  <2>2. Walk(32) = SET_PD_4M(Frame(Running), TRUE)
    BY UserSlots, Zenon
  <2> QED
    BY <2>1, <2>2 DEF Translate
<1>2. CASE tlb[32] = SET_PD_4M(Frame(Running), TRUE)
  BY <1>2 DEF Translate, SET_PD_4M
<1>3. tlb[32] = Absent \/ tlb[32] = SET_PD_4M(Frame(Running), TRUE)
  BY Zenon DEF AInv, TlbOK
<1> QED
  BY <1>1, <1>2, <1>3

\* An update of one entry of a table leaves the others alone.
LEMMA UpdatedEntry ==
  ASSUME NEW S, NEW f, f = [s \in S |-> f[s]], NEW i \in S, NEW e,
         NEW g, g = [f EXCEPT ![i] = e]
  PROVE  /\ g = [s \in S |-> g[s]]
         /\ g[i] = e /\ \A s \in S \ {i} : g[s] = f[s]
OBVIOUS

\* The directory after map_4M_U, which puts a process in the place of another.
LEMMA MappedProcess ==
  ASSUME DirectoryOK, NEW frame, map_4M_U(32, frame)
  PROVE  /\ PD' = [s \in Slots |-> PD'[s]]
         /\ PD'[32] = SET_PD_4M(frame, TRUE)
         /\ PD'[0] = PD[0] /\ PD'[1] = PD[1] /\ PD'[1022] = PD[1022] /\ PD'[64] = PD[64]
         /\ \A s \in Slots : tlb'[s] = Absent
         /\ tlb' = [s \in Slots |-> tlb'[s]]
<1>1. PD' = [PD EXCEPT ![32] = SET_PD_4M(frame, TRUE)] /\ PD = [s \in Slots |-> PD[s]]
  BY DEF DirectoryOK, map_4M_U
<1>2. /\ PD' = [s \in Slots |-> PD'[s]]
      /\ PD'[32] = SET_PD_4M(frame, TRUE)
      /\ \A s \in Slots \ {32} : PD'[s] = PD[s]
  <2>1. 32 \in Slots
    BY DEF Slots
  <2> QED
    BY <1>1, <2>1, UpdatedEntry
<1>3. {0, 1, 1022, 64} = Slots \ {32}
  BY DEF Slots
<1>4. tlb' = [s \in Slots |-> Absent]
  BY DEF map_4M_U, Flush_TLB
<1> QED
  BY <1>2, <1>3, <1>4
-----------------------------------------------------------------------------
\* The initial state satisfies the invariant.
LEMMA InitInv == Init => AInv
<1> SUFFICES ASSUME Init PROVE AInv
  OBVIOUS
<1>1. \A t \in Terminals : chain[t] = <<t>> /\ t \in Pids /\ Range(chain[t]) = {t}
  BY AddressSpacesAssumption DEF Init, Range
<1>2. ChainsOK
  BY <1>1, AddressSpacesAssumption DEF Init, ChainsOK
<1>3. Running = 1 /\ ~InUser
  BY <1>1, AddressSpacesAssumption DEF Init, Running, InUser, Last
<1>4. DirectoryOK
  <2>1. PD[32] = Absent /\ PD[64] = Absent /\ PT_user = Absent
    BY DEF Init, Slots
  <2>2. /\ PD = [s \in Slots |-> PD[s]]
        /\ PD[0] = SET_PD_4K("PT", FALSE)
        /\ PD[1] = SET_PD_4M(1, FALSE) /\ PD[1022] = SET_PD_4M(1022, FALSE)
    BY DEF Init, Slots
  <2> QED
    BY <1>3, <2>1, <2>2 DEF DirectoryOK
<1>5. TlbOK /\ FramesOK
  BY DEF Init, TlbOK, FramesOK, Slots
<1> QED
  BY <1>2, <1>4, <1>5 DEF AInv

\* What no step of the running terminal touches.
LEMMA OthersUnchanged ==
  ASSUME turn' = turn, \A t \in Terminals \ {turn} : chain'[t] = chain[t]
  PROVE  Others' = Others /\ VideoEntries' = VideoEntries
<1>1. Others' = Others
  BY DEF Others
<1> QED
  BY <1>1 DEF VideoEntries

\* A step that leaves the chains and the tables alone.
LEMMA TablesUnchanged ==
  ASSUME AInv, UNCHANGED <<PD, PT_user, chain, turn>>
  PROVE  /\ ChainsOK' /\ DirectoryOK'
         /\ Running' = Running /\ VideoEntries' = VideoEntries
<1>1. Others' = Others /\ VideoEntries' = VideoEntries
  BY OthersUnchanged
<1>2. Running' = Running /\ InUser' = InUser
  BY DEF Running, InUser
<1>3. ChainsOK'
  BY DEF AInv, ChainsOK
<1>4. DirectoryOK'
  BY <1>1, <1>2 DEF AInv, DirectoryOK, Slots, Absent, SET_PD_4K, SET_PD_4M, Frame
<1> QED
  BY <1>1, <1>2, <1>3, <1>4

LEMMA CacheInv == ASSUME AInv, NEW slot \in {32, 64}, Cache(slot) PROVE AInv'
<1>1. ChainsOK' /\ DirectoryOK' /\ Running' = Running /\ VideoEntries' = VideoEntries
  BY TablesUnchanged DEF Cache
<1>2. FramesOK'
  BY DEF Cache, AInv, FramesOK
<1>3. TlbOK'
  <2>1. tlb' = [tlb EXCEPT ![slot] = Walk(slot)] /\ tlb = [s \in Slots |-> tlb[s]]
    BY DEF Cache, AInv, TlbOK
  <2>2. /\ tlb' = [s \in Slots |-> tlb'[s]] /\ tlb'[slot] = Walk(slot)
        /\ \A s \in Slots \ {slot} : tlb'[s] = tlb[s]
    <3>1. slot \in Slots
      BY DEF Slots
    <3> QED
      BY <2>1, <3>1, UpdatedEntry
  <2>3. \A s \in {0, 1, 1022} : tlb'[s] = Absent
    BY <2>2 DEF AInv, TlbOK, Slots
  <2>4. CASE slot = 32
    BY <1>1, <2>2, <2>3, <2>4, KernelSlots, UserSlots DEF AInv, TlbOK, Slots, Absent, SET_PD_4M, Frame
  <2>5. CASE slot = 64
    BY <1>1, <2>2, <2>3, <2>5, KernelSlots, UserSlots DEF AInv, TlbOK, Slots, Absent, SET_PD_4M, Frame
  <2> QED
    BY <2>4, <2>5
<1> QED
  BY <1>1, <1>2, <1>3 DEF AInv

\* A write goes to the frame of the process that runs.
LEMMA WriteInv == ASSUME AInv, NEW v, Write(v) PROVE AInv'
<1>1. ChainsOK' /\ DirectoryOK' /\ Running' = Running /\ VideoEntries' = VideoEntries
  BY TablesUnchanged DEF Write, paging
<1>2. FramesOK'
  BY DEF Write, AInv, FramesOK
<1>3. TlbOK'
  BY <1>1 DEF Write, AInv, TlbOK, paging, Slots, Absent, SET_PD_4K, SET_PD_4M, Frame
<1> QED
  BY <1>1, <1>2, <1>3 DEF AInv

\* read and Alt-Fn change neither tables, chains nor frames.
LEMMA IdleInv ==
  ASSUME AInv, UNCHANGED <<paging, frames, chain, turn>>
  PROVE  AInv'
<1>1. ChainsOK' /\ DirectoryOK' /\ Running' = Running /\ VideoEntries' = VideoEntries
  BY TablesUnchanged DEF paging
<1>2. FramesOK' /\ TlbOK'
  BY <1>1 DEF AInv, FramesOK, TlbOK, paging, Slots, Absent, SET_PD_4K, SET_PD_4M, Frame
<1> QED
  BY <1>1, <1>2 DEF AInv

\* execute and halt: the chain of the running terminal changes at its top, and
\* the directory follows with a flush.
LEMMA ChainStepInv ==
  ASSUME AInv, NEW c,
         c \in Seq(Pids), c # <<>>, Range(c) \cap Others = {},
         chain' = [chain EXCEPT ![turn] = c],
         map_4M_U(32, Frame(Last(c))),
         UNCHANGED <<PT_user, turn>>
  PROVE  ChainsOK' /\ DirectoryOK' /\ TlbOK'
<1>1. turn \in Terminals /\ chain'[turn] = c
  BY DEF AInv, ChainsOK
<1>2. \A t \in Terminals \ {turn} : chain'[t] = chain[t]
  BY DEF AInv, ChainsOK
<1>3. Others' = Others /\ VideoEntries' = VideoEntries
  BY <1>2, OthersUnchanged
<1>4. \A t \in Terminals \ {turn} : Range(chain[t]) \cap Range(c) = {}
  BY DEF Others
<1>5. ChainsOK'
  <2>1. chain' \in [Terminals -> Seq(Pids)] /\ \A t \in Terminals : chain'[t] # <<>>
    BY <1>1, <1>2 DEF AInv, ChainsOK
  <2>2. \A t, u \in Terminals : t # u => Range(chain'[t]) \cap Range(chain'[u]) = {}
    BY <1>1, <1>2, <1>4 DEF AInv, ChainsOK
  <2> QED
    BY <1>1, <2>1, <2>2 DEF ChainsOK
<1>6. Running' = Last(c)
  BY <1>1 DEF Running
<1>7. DirectoryOK'
  BY <1>3, <1>6, MappedProcess DEF AInv, DirectoryOK, Absent, SET_PD_4K, SET_PD_4M, Frame
<1>8. TlbOK'
  BY DEF TlbOK, map_4M_U, Flush_TLB, Slots
<1> QED
  BY <1>5, <1>7, <1>8

\* The image is read to the frame of the child.
LEMMA ExecuteInv ==
  ASSUME AInv, NEW child \in Pids, NEW image \in Images, Execute(child, image)
  PROVE  AInv' /\ frames' = [frames EXCEPT ![Frame(child)] = image]
<1> DEFINE c == Append(chain[turn], child)
<1>1. /\ c \in Seq(Pids) /\ c # <<>> /\ Last(c) = child
      /\ Range(c) = Range(chain[turn]) \cup {child}
  BY ChainTop DEF AInv, ChainsOK
<1>2. Range(c) \cap Others = {}
  <2>1. child \notin Others /\ Range(chain[turn]) \cap Others = {}
    BY RunningFacts DEF AInv, ChainsOK, Others, Execute
  <2> QED
    BY <1>1, <2>1
<1>3. chain' = [chain EXCEPT ![turn] = c] /\ map_4M_U(32, Frame(child)) /\ UNCHANGED <<PT_user, turn>>
  BY DEF Execute, AInv, ChainsOK
<1>4. ChainsOK' /\ DirectoryOK' /\ TlbOK'
  <2> HIDE DEF c
  <2> QED
    BY <1>1, <1>2, <1>3, ChainStepInv
<1>5. Translate(32)' = SET_PD_4M(Frame(child), TRUE)
  BY <1>3 DEF AInv, DirectoryOK, Translate, Walk, map_4M_U, Flush_TLB, Slots, Absent, SET_PD_4M
<1>6. frames' = [frames EXCEPT ![Frame(child)] = image]
  <2>1. (Translate(32)').base = Frame(child)
    BY <1>5 DEF SET_PD_4M
  <2>2. frames' = [frames EXCEPT ![(Translate(32)').base] = image]
    BY DEF Execute
  <2> QED
    BY <2>1, <2>2
<1>7. FramesOK'
  BY <1>6 DEF AInv, FramesOK
<1> QED
  BY <1>4, <1>6, <1>7 DEF AInv

LEMMA HaltInv == ASSUME AInv, Halt PROVE AInv'
<1> DEFINE c == Front(chain[turn])
<1>1. c \in Seq(Pids) /\ c # <<>> /\ Range(c) \subseteq Range(chain[turn])
  BY ChainTop DEF AInv, ChainsOK, Halt, InUser
<1>2. Range(c) \cap Others = {}
  BY <1>1 DEF AInv, ChainsOK, Others
<1>3. chain' = [chain EXCEPT ![turn] = c] /\ UNCHANGED <<PT_user, turn, frames>>
  BY DEF Halt, AInv, ChainsOK
<1>4. Running' = Last(c)
  BY <1>3 DEF Running, AInv, ChainsOK
<1>5. map_4M_U(32, Frame(Last(c)))
  BY <1>4 DEF Halt, paging_switch
<1>6. ChainsOK' /\ DirectoryOK' /\ TlbOK'
  <2> HIDE DEF c
  <2> QED
    BY <1>1, <1>2, <1>3, <1>5, ChainStepInv
<1> QED
  BY <1>3, <1>6 DEF AInv, FramesOK

\* The page of vidmap is the screen or the running process' own.
LEMMA VidmapEntryFacts ==
  ASSUME NEW p \in Pids \ Others, NEW t
  PROVE  VidmapEntry(p, t) \in VideoEntries
BY DEF VidmapEntry, VideoEntries

LEMMA VidmapInv == ASSUME AInv, vidmap PROVE AInv'
<1>1. Others' = Others /\ VideoEntries' = VideoEntries
  BY OthersUnchanged DEF vidmap
<1>2. Running' = Running /\ InUser' = InUser
  BY DEF vidmap, Running, InUser
<1>3. ChainsOK' /\ FramesOK'
  BY DEF AInv, vidmap, ChainsOK, FramesOK
<1>4. DirectoryOK'
  <2>1. PT_user' \in VideoEntries'
    BY <1>1, RunningFacts, VidmapEntryFacts DEF AInv, vidmap
  <2> QED
    <3>1. PD' = [PD EXCEPT ![64] = SET_PD_4K("PT_user", TRUE)] /\ PD = [s \in Slots |-> PD[s]]
      BY DEF AInv, DirectoryOK, vidmap
    <3>2. /\ PD' = [s \in Slots |-> PD'[s]] /\ PD'[64] = SET_PD_4K("PT_user", TRUE)
          /\ \A s \in Slots \ {64} : PD'[s] = PD[s]
      <4>1. 64 \in Slots
        BY DEF Slots
      <4> QED
        BY <3>1, <4>1, UpdatedEntry
    <3>3. {0, 1, 32, 1022} = Slots \ {64}
      BY DEF Slots
    <3>4. PD'[0] = PD[0] /\ PD'[1] = PD[1] /\ PD'[32] = PD[32] /\ PD'[1022] = PD[1022]
      BY <3>2, <3>3
    <3> QED
      BY <1>2, <2>1, <3>2, <3>4 DEF AInv, DirectoryOK, Absent, SET_PD_4K, SET_PD_4M, Frame
<1>5. TlbOK'
  BY <1>1, <1>2 DEF AInv, vidmap, TlbOK, Slots, Absent, SET_PD_4K, SET_PD_4M, Frame
<1> QED
  BY <1>3, <1>4, <1>5 DEF AInv

\* The tick: another terminal runs, whose process gets its frame, a page of
\* vidmap of its own if there is one, and an empty TLB.
LEMMA SchedulerInv == ASSUME AInv, scheduler PROVE AInv'
<1>1. turn' \in Terminals
  BY AddressSpacesAssumption DEF scheduler
<1>2. ChainsOK'
  BY <1>1 DEF AInv, ChainsOK, scheduler
<1>3. Running' \in Pids \ Others'
  <2>1. (ChainsOK => Running \in Pids \ Others)'
    BY RunningFacts, PTL
  <2> QED
    BY <1>2, <2>1
<1>4. DirectoryOK'
  <2>1. VidmapEntry(Running', turn') \in VideoEntries'
    BY <1>3 DEF VidmapEntry, VideoEntries, scheduler
  <2>2. \/ PD'[64] = Absent /\ PT_user' = Absent
        \/ PD'[64] = SET_PD_4K("PT_user", TRUE) /\ PT_user' \in VideoEntries'
    <3>1. PD'[64] = PD[64]
      BY DEF AInv, DirectoryOK, scheduler, paging_switch, map_4M_U, Slots
    <3>2. CASE PD[64] = Absent /\ PT_user = Absent
      BY <3>1, <3>2 DEF scheduler, NextVidmap, Absent
    <3>3. CASE PD[64] = SET_PD_4K("PT_user", TRUE) /\ PT_user \in VideoEntries
      <4>1. PD[64].P /\ PT_user.P
        BY <3>3 DEF SET_PD_4K, VideoEntries, SET_PT
      <4> QED
        BY <2>1, <3>1, <3>3, <4>1 DEF scheduler, NextVidmap
    <3>4. \/ PD[64] = Absent /\ PT_user = Absent
          \/ PD[64] = SET_PD_4K("PT_user", TRUE) /\ PT_user \in VideoEntries
      BY ZenonT(60) DEF AInv, DirectoryOK
    <3> QED
      BY <3>2, <3>3, <3>4, Zenon
  <2> QED
    BY <2>2, MappedProcess
       DEF AInv, DirectoryOK, scheduler, paging_switch, Absent, SET_PD_4K, SET_PD_4M, Frame
<1>5. TlbOK'
  BY DEF TlbOK, scheduler, paging_switch, map_4M_U, Flush_TLB, Slots
<1>6. FramesOK'
  BY DEF AInv, FramesOK, scheduler
<1> QED
  BY <1>2, <1>4, <1>5, <1>6 DEF AInv

LEMMA StepInv == AInv /\ [Next]_vars => AInv'
<1> SUFFICES ASSUME AInv, [Next]_vars PROVE AInv'
  OBVIOUS
<1>1. ASSUME NEW slot \in {32, 64}, Cache(slot) PROVE AInv'
  BY <1>1, CacheInv
<1>2. ASSUME NEW v \in Values, Write(v) PROVE AInv'
  BY <1>2, WriteInv
<1>3. CASE Read
  BY <1>3, IdleInv DEF Read
<1>4. ASSUME NEW child \in Pids, NEW image \in Images, Execute(child, image) PROVE AInv'
  BY <1>4, ExecuteInv
<1>5. CASE Halt
  BY <1>5, HaltInv
<1>6. CASE vidmap
  BY <1>6, VidmapInv
<1>7. CASE scheduler
  BY <1>7, SchedulerInv
<1>8. ASSUME NEW t \in Terminals, SwitchTerminal(t) PROVE AInv'
  BY <1>8, IdleInv DEF SwitchTerminal
<1>9. CASE UNCHANGED vars
  BY <1>9, IdleInv DEF vars
<1> QED
  BY <1>1, <1>2, <1>3, <1>4, <1>5, <1>6, <1>7, <1>8, <1>9 DEF Next

\* The invariant holds in every reachable state.
THEOREM PagingInvariant == Spec => []AInv
BY InitInv, StepInv, PTL DEF Spec
-----------------------------------------------------------------------------
\* The invariant leaves a program nothing of the kernel and nothing of another
\* process to reach, whether by the tables or by the TLB.
LEMMA ReachableIsOwn == AInv => OnlyOwnPages
<1> SUFFICES ASSUME AInv, NEW e \in Reachable
             PROVE  IF e.PS THEN e.base = Frame(Running)
                    ELSE e.base = ScreenPage
                         \/ \A p \in Live \ Range(chain[turn]) : e.base # BackupVP(p)
  BY DEF OnlyOwnPages
<1>1. e = SET_PD_4M(Frame(Running), TRUE) \/ e \in VideoEntries
  <2>1. e.P /\ e.US
    BY DEF Reachable
  <2>2. PICK s \in Slots : e = Walk(s) \/ e = tlb[s]
    BY DEF Reachable
  <2>3. e # Absent
    BY <2>1 DEF Absent
  <2>4. ~Walk(0).US /\ ~Walk(1).US /\ ~Walk(1022).US
    BY KernelSlots
  <2>5. \A k \in {0, 1, 1022} : tlb[k] = Absent
    BY DEF AInv, TlbOK
  <2>6. s = 32 \/ s = 64
    BY <2>1, <2>2, <2>3, <2>4, <2>5 DEF Slots
  <2>7. CASE s = 32
    <3>1. e = Walk(32) \/ e = tlb[32]
      BY <2>2, <2>7
    <3>2. CASE e = Walk(32)
      BY <2>3, <3>2, UserSlots
    <3>3. CASE e = tlb[32]
      BY <2>3, <3>3 DEF AInv, TlbOK
    <3> QED
      BY <3>1, <3>2, <3>3
  <2>8. CASE s = 64
    <3>1. e = Walk(64) \/ e = tlb[64]
      BY <2>2, <2>8
    <3>2. CASE e = Walk(64)
      BY <2>3, <3>2, UserSlots
    <3>3. CASE e = tlb[64]
      BY <2>3, <3>3 DEF AInv, TlbOK
    <3> QED
      BY <3>1, <3>2, <3>3
  <2> QED
    BY <2>6, <2>7, <2>8
<1>2. CASE e = SET_PD_4M(Frame(Running), TRUE)
  BY <1>2 DEF SET_PD_4M
<1>3. CASE e = SET_PT(ScreenPage, TRUE)
  BY <1>3 DEF SET_PT
<1>4. ASSUME NEW p \in Pids \ Others, e = SET_PT(BackupVP(p), TRUE)
      PROVE  ~e.PS /\ \A q \in Live \ Range(chain[turn]) : e.base # BackupVP(q)
  <2>1. \A q \in Live \ Range(chain[turn]) : q \in Pids /\ q # p
    BY RunningFacts DEF AInv
  <2> QED
    BY <1>4, <2>1, PagesDiffer DEF SET_PT
<1> QED
  BY <1>1, <1>2, <1>3, <1>4 DEF VideoEntries

\* A program reaches its own frame and a video page of its terminal, whatever
\* terminals, processes and translations there are.
THEOREM OnlyOwnPagesHolds == Spec => []OnlyOwnPages
BY PagingInvariant, ReachableIsOwn, PTL
-----------------------------------------------------------------------------
\* Every step of paging is one of the private memories, or a stutter.
LEMMA MemoryStep == AInv /\ [Next]_vars => [Memory!Next]_(Memory!vars)
<1> SUFFICES ASSUME AInv, [Next]_vars PROVE [Memory!Next]_(Memory!vars)
  OBVIOUS
<1> DEFINE mem == [p \in Pids |-> frames[Frame(p)]]
<1>1. Running \in Pids /\ (InUser => Translate(32).base = Frame(Running))
  BY RunningFacts, OwnFrame DEF AInv, SET_PD_4M
<1>0. Memory!Running = Running /\ Memory!InUser = InUser /\ Memory!Live = Live
  BY DEF Running, InUser, Live, Range, Last,
         Memory!Running, Memory!InUser, Memory!Live, Memory!Range, Memory!Last
<1>2. ASSUME NEW p \in Pids, NEW v, frames' = [frames EXCEPT ![Frame(p)] = v]
      PROVE  mem' = [mem EXCEPT ![p] = v]
  BY <1>2, PagesDiffer DEF AInv, FramesOK
<1>3. ASSUME NEW v \in Values, Write(v) PROVE Memory!Write(v)
  <2>1. mem' = [mem EXCEPT ![Running] = v]
    BY <1>1, <1>2, <1>3 DEF Write
  <2> QED
    BY <1>0, <1>1, <1>3, <2>1 DEF Write, Memory!Write
<1>4. ASSUME Read PROVE Memory!Read
  <2>1. seen' = mem[Running] /\ mem' = mem
    BY <1>1, <1>4 DEF Read
  <2> QED
    BY <1>0, <1>1, <1>4, <2>1 DEF Read, Memory!Read
<1>5. ASSUME NEW child \in Pids, NEW image \in Images, Execute(child, image)
      PROVE  Memory!Execute(child, image)
  <2>1. mem' = [mem EXCEPT ![child] = image]
    BY <1>2, <1>5, ExecuteInv
  <2>2. InUser => frames[Translate(32).base] = mem[Running]
    BY <1>1
  <2> QED
    BY <1>0, <1>1, <1>5, <2>1, <2>2 DEF Execute, Memory!Execute
<1>6. ASSUME Halt PROVE Memory!Halt
  BY <1>0, <1>6 DEF Halt, Memory!Halt, Front, Memory!Front
<1>7. ASSUME scheduler PROVE Memory!Tick
  BY <1>7, AddressSpacesAssumption DEF scheduler, Memory!Tick
<1>8. ASSUME UNCHANGED <<frames, args, chain, turn, seen>> PROVE UNCHANGED Memory!vars
  BY <1>8 DEF Memory!vars
<1>9. ASSUME NEW slot \in {32, 64}, Cache(slot) PROVE UNCHANGED Memory!vars
  BY <1>8, <1>9 DEF Cache
<1>10. ASSUME vidmap PROVE UNCHANGED Memory!vars
  BY <1>8, <1>10 DEF vidmap
<1>11. ASSUME NEW t \in Terminals, SwitchTerminal(t) PROVE UNCHANGED Memory!vars
  BY <1>8, <1>11 DEF SwitchTerminal
<1>12. ASSUME UNCHANGED vars PROVE UNCHANGED Memory!vars
  BY <1>8, <1>12 DEF vars
<1> QED
  BY <1>3, <1>4, <1>5, <1>6, <1>7, <1>9, <1>10, <1>11, <1>12 DEF Next, Memory!Next

LEMMA MemoryInit == Init => Memory!Init
<1> SUFFICES ASSUME Init PROVE Memory!Init
  OBVIOUS
<1>1. [p \in Pids |-> frames[Frame(p)]] = [p \in Pids |-> "none"]
  BY DEF Init
<1> QED
  BY <1>1 DEF Init, Memory!Init

\* Paging and the TLB implement, for any number of processes, memories that
\* nobody shares: no write, load or stale translation reaches another process.
THEOREM PrivateMemoryImplemented == Spec => MemoryIsPrivate
<1>1. Init => Memory!Init
  BY MemoryInit
<1>2. AInv /\ [Next]_vars => [Memory!Next]_(Memory!vars)
  BY MemoryStep
<1> QED
  BY <1>1, <1>2, PagingInvariant, PTL DEF Spec, MemoryIsPrivate, Memory!Spec
=============================================================================
