-------------------------------- MODULE Heap --------------------------------
(***************************************************************************)
(* malloc.c: the tracker holds the length of an allocation at its first    *)
(* block and 0 elsewhere.  The search for room does not stop at the end of *)
(* the tracker, so what lies behind it in memory takes part.               *)
(***************************************************************************)
EXTENDS Integers, FiniteSetsExt, Folds

CONSTANTS
  BLOCK_NUM,        \* blocks of the heap
  ALLOCBLOCK_SIZE,  \* bytes of a block
  Sizes,            \* what clients ask for
  Behind,           \* what a word behind the tracker may hold
  MaxLive           \* bound: allocations held at a time

ASSUME HeapAssumption ==
  /\ BLOCK_NUM \in 1 .. 2 ^ 16 - 1 /\ ALLOCBLOCK_SIZE \in Nat \ {0}
  /\ Sizes \subseteq Nat
  /\ Behind \subseteq Nat
  /\ MaxLive \in Nat

Blocks == 0 .. BLOCK_NUM - 1
Null   == -1

VARIABLES
  memory_block_tracker,
  behind,   \* what the words behind the tracker hold
  held,     \* history: what clients hold, as [at, num]
  returned  \* what the last malloc returned, Null when it failed

heapVars == <<memory_block_tracker, behind, held, returned>>

Extent(at, num) == at .. at + num - 1
Run(at, num)    == {at} \cup Extent(at, num) \* looked at for an allocation there

\* Room for size bytes, in blocks.
Num(size) == size \div ALLOCBLOCK_SIZE + (IF size % ALLOCBLOCK_SIZE = 0 THEN 0 ELSE 1)

Tracker(i) == IF i \in Blocks THEN memory_block_tracker[i] ELSE behind

\* Where the search stops on its way: it steps over an allocation, or one block
\* on from where there is too little room.
IsFree_First(i, num) == Tracker(i) = 0
IsFree(i, num) == \A j \in Run(i, num) : Tracker(j) = 0
Step_TooFar(j) == IF Tracker(j) # 0 THEN Tracker(j) + 1 ELSE 1
Step(j) == IF Tracker(j) # 0 THEN Tracker(j) ELSE 1
Searched(num) ==
  LET visited[i \in Blocks] ==
        i = 0 \/ \E j \in 0 .. i - 1 : visited[j] /\ ~IsFree(j, num) /\ i = j + Step(j)
  IN {i \in Blocks : visited[i]}
Found(num) == {i \in Searched(num) : IsFree(i, num)}

malloc(size) ==
  /\ Cardinality(held) < MaxLive
  /\ LET num == Num(size) IN
     IF Found(num) = {} THEN returned' = Null /\ UNCHANGED <<memory_block_tracker, held>>
     ELSE LET at == Min(Found(num)) IN
          /\ memory_block_tracker' = [memory_block_tracker EXCEPT ![at] = num % 2 ^ 16]
          /\ held' = IF num = 0 THEN held ELSE held \cup {[at |-> at, num |-> num]}
          /\ returned' = at
  /\ UNCHANGED behind

\* A client frees what it holds, once.  What malloc(0) gave it it does not free:
\* that clears the mark of whoever has been given the same block since.
free(block) ==
  /\ memory_block_tracker' = [memory_block_tracker EXCEPT ![block.at] = 0]
  /\ held' = held \ {block}
  /\ UNCHANGED <<behind, returned>>

HeapInit ==
  /\ memory_block_tracker = [i \in Blocks |-> 0]
  /\ behind \in Behind
  /\ held = {}
  /\ returned = Null

HeapNext ==
  \/ \E size \in Sizes : malloc(size)
  \/ \E block \in held : free(block)

HeapSpec == HeapInit /\ [][HeapNext]_heapVars

----------------------------------------------------------------------------
\* No block is handed out to two clients at a time, whatever has been freed in
\* between and however the heap is fragmented; and none beyond the heap's end,
\* provided the word behind the tracker is not 0.
OwnBlocks ==
  /\ \A a, b \in held : a # b => Extent(a.at, a.num) \cap Extent(b.at, b.num) = {}
  /\ behind # 0 => \A a \in held : Extent(a.at, a.num) \subseteq Blocks

\* What clients hold lies in the heap, whatever follows the tracker in memory:
\* malloc.h gives it an end at 4092 MB.  The search of malloc does not know it.
InsideHeap == \A a \in held : Extent(a.at, a.num) \subseteq Blocks

\* malloc fails only when no run of blocks is long enough, so what is freed is
\* never lost, not even when it lies between others.
InUse == UNION {Extent(a.at, a.num) : a \in held}
FailsOnlyWhenFull ==
  [][\A size \in Sizes : malloc(size) /\ returned' = Null =>
       \A start \in Blocks : Run(start, Num(size)) \subseteq Blocks => Run(start, Num(size)) \cap InUse # {}]_heapVars
=============================================================================
