-------------------------- MODULE Routines_proofs --------------------------
(***************************************************************************)
(* The four sequential pieces, for every size of the memory, the heap, the *)
(* buffer, the files and the directory:                                    *)
(*   - the routines of lib.c and ece391support.c do what their comments    *)
(*     say, whatever was called before and whatever flag it left           *)
(*     (CallsKeepPromiseHolds);                                            *)
(*   - the search of malloc never steps into the middle of an allocation,  *)
(*     so nobody is given another's blocks, and it passes over no gap that *)
(*     is long enough (OwnBlocksHolds, FailsOnlyWhenFullHolds);            *)
(*   - grep prints the lines with the pattern, wherever its reads cut the  *)
(*     file (LinesFoundHolds);                                             *)
(*   - the tests of syserr find nothing to complain of (TestsPassHolds).   *)
(***************************************************************************)
EXTENDS Strings, Heap, Grep, SyscallTests, SequenceTheorems, WellFoundedInduction, TLAPS

\* A set of natural numbers has a least member.
LEMMA Least ==
  ASSUME NEW S \in SUBSET Nat, S # {}
  PROVE  \E k \in S : \A i \in S : k <= i
<1> DEFINE R == {ss \in Nat \X Nat : ss[1] < ss[2]}
<1>1. IsWellFoundedOn(R, Nat)
  BY NatLessThanWellFounded, Zenon DEF OpToRel
<1>2. PICK k \in S : \A i \in S : ~(<<i, k>> \in R)
  <2> HIDE DEF R
  <2> QED
    BY <1>1, WFMin
<1>3. \A i \in S : ~(i < k)
  BY <1>2
<1> QED
  BY <1>3

\* The least member is what Min picks.
LEMMA Minimum ==
  ASSUME NEW S \in SUBSET Nat, NEW k \in S, \A i \in S : k <= i
  PROVE  Min(S) = k
<1>1. \A x \in S : (\A y \in S : x <= y) => x = k
  OBVIOUS
<1> QED
  BY <1>1 DEF Min

\* Induction up to n, over a set.
LEMMA UpTo ==
  ASSUME NEW n \in Nat, NEW S, 0 \in S, \A k \in 1 .. n : k - 1 \in S => k \in S
  PROVE  \A k \in 0 .. n : k \in S
<1> DEFINE Bad == {k \in 0 .. n : k \notin S}
<1> SUFFICES ASSUME Bad # {} PROVE FALSE
  OBVIOUS
<1>1. PICK k \in Bad : \A i \in Bad : k <= i
  <2>1. Bad \in SUBSET Nat
    OBVIOUS
  <2> HIDE DEF Bad
  <2> QED
    BY <2>1, Least
<1>2. k \in 0 .. n /\ k \notin S
  OBVIOUS
<1>3. k \in 1 .. n /\ k - 1 \in 0 .. n /\ ~(k <= k - 1)
  BY <1>2
<1>4. k - 1 \in S
  BY <1>1, <1>3
<1> QED
  BY <1>2, <1>3, <1>4

-----------------------------------------------------------------------------
(* The routines of lib.c: memories and what a loop makes of them. *)

\* What memory can hold.
Memory == [Addresses -> Byte]

LEMMA MemFacts ==
  /\ MemSize \in Nat \ {0} /\ Addresses \subseteq Nat /\ Byte \subseteq Nat
  /\ \A a : a \in Addresses <=> a \in Nat /\ a < MemSize
  /\ \A a : a \in Byte <=> a \in Nat /\ a < 256
<1>1. MemSize \in Nat \ {0}
  BY StringsAssumption
<1>2. Addresses \subseteq Nat /\ \A a : a \in Addresses <=> a \in Nat /\ a < MemSize
  BY <1>1 DEF Addresses
<1>3. Byte \subseteq Nat /\ \A a : a \in Byte <=> a \in Nat /\ a < 256
  BY DEF Byte
<1> QED
  BY <1>1, <1>2, <1>3

\* What a loop makes of the memory, round by round.
Rounds(f, m, n, G) ==
  f \in [0 .. n -> Memory] /\ f = [k \in 0 .. n |-> IF k = 0 THEN m ELSE G[<<k, f[k - 1]>>]]

\* There is a function for the memory after each round of a loop.
LEMMA RoundByRound ==
  ASSUME NEW m \in Memory, NEW n \in Nat, NEW G \in [(1 .. n) \X Memory -> Memory]
  PROVE  \E f : Rounds(f, m, n, G)
<1> DEFINE Fine(f, k) == f[k] = IF k = 0 THEN m ELSE G[<<k, f[k - 1]>>]
           S == {i \in 0 .. n : \E f \in [0 .. i -> Memory] : \A k \in 0 .. i : Fine(f, k)}
<1>1. 0 \in S
  <2> DEFINE f == [k \in 0 .. 0 |-> m]
  <2>1. f \in [0 .. 0 -> Memory] /\ 0 \in 0 .. n /\ \A k \in 0 .. 0 : Fine(f, k)
    OBVIOUS
  <2> QED
    BY <2>1
<1>2. ASSUME NEW i \in 1 .. n, i - 1 \in S PROVE i \in S
  <2>1. PICK f \in [0 .. i - 1 -> Memory] : \A k \in 0 .. i - 1 : Fine(f, k)
    BY <1>2
  <2> DEFINE g == [k \in 0 .. i |-> IF k = i THEN G[<<i, f[i - 1]>>] ELSE f[k]]
  <2>2. i - 1 \in 0 .. i - 1 /\ i - 1 \in 0 .. i /\ i - 1 # i /\ \A k \in 0 .. i : k # i => k \in 0 .. i - 1
    OBVIOUS
  <2>3. G[<<i, f[i - 1]>>] \in Memory
    BY <2>1, <2>2
  <2>4. g \in [0 .. i -> Memory]
    BY <2>1, <2>2, <2>3
  <2>5. ASSUME NEW k \in 0 .. i PROVE Fine(g, k)
    <3>1. CASE k = i
      <4>1. g[i] = G[<<i, f[i - 1]>>] /\ g[i - 1] = f[i - 1] /\ i # 0
        BY <2>2
      <4> HIDE DEF g
      <4> QED
        BY <3>1, <4>1
    <3>2. CASE k # i
      <4>1. k \in 0 .. i - 1 /\ Fine(f, k) /\ g[k] = f[k]
        BY <2>1, <2>2, <3>2
      <4>2. k # 0 => k - 1 \in 0 .. i /\ k - 1 # i
        OBVIOUS
      <4>3. k # 0 => g[k - 1] = f[k - 1]
        BY <4>2
      <4> HIDE DEF g
      <4> QED
        BY <4>1, <4>3
    <3> QED
      BY <3>1, <3>2
  <2> HIDE DEF g
  <2> QED
    BY <2>4, <2>5
<1>3. n \in S
  <2> HIDE DEF S
  <2>1. \A k \in 0 .. n : k \in S
    BY <1>1, <1>2, UpTo
  <2> QED
    BY <2>1
<1>4. PICK f \in [0 .. n -> Memory] : \A k \in 0 .. n : Fine(f, k)
  BY <1>3
<1>5. f = [k \in 0 .. n |-> f[k]]
  BY Zenon
<1>6. f = [k \in 0 .. n |-> IF k = 0 THEN m ELSE G[<<k, f[k - 1]>>]]
  BY <1>4, <1>5, Zenon
<1> QED
  BY <1>6 DEF Rounds

-----------------------------------------------------------------------------
(* The string instructions: rep movs, round by round, upwards and downwards. *)

\* One round: a unit of so many bytes goes from f to t.
MovUnit(before, width, f, t) == [a \in Addresses |->
        IF a \in t .. t + width - 1 /\ f + a - t \in Addresses THEN before[f + a - t] ELSE before[a]]

\* The memory after each round of rep movs.
IsMoving(f, m, from, to, width, n, down) ==
  f = [k \in 0 .. n |->
         IF k = 0 THEN m
         ELSE MovUnit(f[k - 1], width, Past(from, width, k - 1, down), Past(to, width, k - 1, down))]

\* A unit whose bytes lie within the memory is written as a whole.
LEMMA MovUnitIs ==
  ASSUME NEW m \in Memory, NEW width \in Nat, NEW f \in Int, NEW t \in Int
  PROVE  /\ MovUnit(m, width, f, t) \in Memory
         /\ \A a \in Addresses : MovUnit(m, width, f, t)[a] =
              IF a \in t .. t + width - 1 /\ (f + a) - t \in Addresses THEN m[(f + a) - t] ELSE m[a]
<1>1. \A a \in Addresses : (IF a \in t .. t + width - 1 /\ f + a - t \in Addresses THEN m[f + a - t] ELSE m[a]) \in Byte
  BY DEF Memory
<1>2. MovUnit(m, width, f, t) \in Memory
  BY <1>1, Zenon DEF MovUnit, Memory
<1>3. \A a \in Addresses : MovUnit(m, width, f, t)[a] =
              IF a \in t .. t + width - 1 /\ f + a - t \in Addresses THEN m[f + a - t] ELSE m[a]
  BY Zenon DEF MovUnit
<1>4. \A a \in Addresses : f + a - t = (f + a) - t
  BY MemFacts
<1> QED
  BY <1>2, <1>3, <1>4

\* The memory after each of the n units that are moved.
Moving(f, m, from, to, width, n, down) ==
  /\ f \in [0 .. n -> Memory]
  /\ Movs(m, from, to, width, n, down) = f[n]
  /\ f[0] = m
  /\ \A k \in 1 .. n : f[k] =
       MovUnit(f[k - 1], width, Past(from, width, k - 1, down), Past(to, width, k - 1, down))

\* rep movs is the last of its rounds.
LEMMA MovsIs ==
  ASSUME NEW m \in Memory, NEW from \in Int, NEW to \in Int, NEW width \in Nat, NEW n \in Nat,
         NEW down
  PROVE  \E f : Moving(f, m, from, to, width, n, down)
<1> DEFINE F(k) == Past(from, width, k - 1, down)
           T(k) == Past(to, width, k - 1, down)
           G == [x \in (1 .. n) \X Memory |-> MovUnit(x[2], width, F(x[1]), T(x[1]))]
<1>1. ASSUME NEW k \in 1 .. n PROVE F(k) \in Int /\ T(k) \in Int
  BY DEF Past
<1>2. ASSUME NEW x \in (1 .. n) \X Memory PROVE MovUnit(x[2], width, F(x[1]), T(x[1])) \in Memory
  <2>1. x[1] \in 1 .. n /\ x[2] \in Memory
    OBVIOUS
  <2>2. F(x[1]) \in Int /\ T(x[1]) \in Int
    BY <1>1, <2>1
  <2> HIDE DEF F, T
  <2> QED
    BY <2>1, <2>2, MovUnitIs
<1>3. G \in [(1 .. n) \X Memory -> Memory]
  BY <1>2
<1> HIDE DEF G
<1>4. PICK f : Rounds(f, m, n, G)
  BY <1>3, RoundByRound
<1>5. \A k \in 0 .. n : k # 0 => G[<<k, f[k - 1]>>] = MovUnit(f[k - 1], width, F(k), T(k))
  <2> SUFFICES ASSUME NEW k \in 0 .. n, k # 0
               PROVE  G[<<k, f[k - 1]>>] = MovUnit(f[k - 1], width, F(k), T(k))
    OBVIOUS
  <2>1. k \in 1 .. n /\ k - 1 \in 0 .. n
    OBVIOUS
  <2>2. <<k, f[k - 1]>> \in (1 .. n) \X Memory
    BY <1>4, <2>1 DEF Rounds
  <2> HIDE DEF F, T
  <2> QED
    BY <2>2 DEF G
<1>6. IsMoving(f, m, from, to, width, n, down)
  <2>1. \A k \in 0 .. n : f[k] = IF k = 0 THEN m ELSE G[<<k, f[k - 1]>>]
    BY <1>4, Zenon DEF Rounds
  <2>2. \A k \in 0 .. n : f[k] = IF k = 0 THEN m ELSE MovUnit(f[k - 1], width, F(k), T(k))
    BY <1>5, <2>1, Zenon
  <2>3. f = [k \in 0 .. n |-> f[k]]
    BY <1>4, Zenon DEF Rounds
  <2> QED
    BY <2>2, <2>3, Zenon DEF IsMoving
<1> DEFINE g == CHOOSE g : IsMoving(g, m, from, to, width, n, down)
<1>7. Movs(m, from, to, width, n, down) = g[n]
  BY Zenon DEF Movs, IsMoving, MovUnit
<1>8. IsMoving(g, m, from, to, width, n, down)
  BY <1>6, Zenon
<1> HIDE DEF g
<1>9. g \in [0 .. n -> Memory]
  <2> DEFINE S == {k \in 0 .. n : g[k] \in Memory}
  <2>0. \A k \in 0 .. n : g[k] = IF k = 0 THEN m ELSE MovUnit(g[k - 1], width, F(k), T(k))
    BY <1>8, Zenon DEF IsMoving
  <2>1. 0 \in S
    BY <2>0
  <2>2. ASSUME NEW k \in 1 .. n, k - 1 \in S PROVE k \in S
    <3>1. F(k) \in Int /\ T(k) \in Int
      BY <1>1
    <3>2. k \in 0 .. n /\ k # 0 /\ g[k - 1] \in Memory
      BY <2>2
    <3> HIDE DEF F, T
    <3> QED
      BY <2>0, <3>1, <3>2, MovUnitIs
  <2>3. \A k \in 0 .. n : k \in S
    <3> HIDE DEF S
    <3> QED
      BY <2>1, <2>2, UpTo
  <2>4. g = [k \in 0 .. n |-> g[k]]
    BY <1>8, Zenon DEF IsMoving
  <2> QED
    BY <2>3, <2>4
<1>10. \A k \in 0 .. n : g[k] = IF k = 0 THEN m ELSE MovUnit(g[k - 1], width, F(k), T(k))
  BY <1>8, Zenon DEF IsMoving
<1>11. 0 \in 0 .. n /\ \A k \in 1 .. n : k \in 0 .. n /\ k # 0
  OBVIOUS
<1>12. g[0] = m /\ \A k \in 1 .. n : g[k] = MovUnit(g[k - 1], width, F(k), T(k))
  BY <1>10, <1>11, Zenon
<1> QED
  BY <1>7, <1>9, <1>12, Zenon DEF Moving

\* new is m with len bytes from at on replaced: by those of b, by c, or by those that
\* m has from from on.
Replaced(new, m, place, len, b) ==
  new \in Memory /\ \A a \in Addresses : new[a] = IF a \in place .. place + len - 1 THEN b[(a - place) + 1] ELSE m[a]
Filled(new, m, place, len, c) ==
  new \in Memory /\ \A a \in Addresses : new[a] = IF a \in place .. place + len - 1 THEN c ELSE m[a]
Shifted(new, m, from, place, len) ==
  new \in Memory /\ \A a \in Addresses : new[a] = IF a \in place .. place + len - 1 THEN m[from + (a - place)] ELSE m[a]

\* Upwards: what comes to lie there is what was there before, since no round
\* reads what an earlier one has written.
LEMMA MovsUp ==
  ASSUME NEW m \in Memory, NEW from \in Nat, NEW to \in Nat, NEW width \in {1, 4}, NEW n \in Nat,
         NEW len, len = n * width, from + len <= MemSize, to + len <= MemSize,
         to <= from \/ from + len <= to
  PROVE  Shifted(Movs(m, from, to, width, n, FALSE), m, from, to, len)
<1> DEFINE Fine(g, k) == \A a \in Addresses : g[a] =
             IF a \in to .. to + k * width - 1 THEN m[from + (a - to)] ELSE m[a]
<1>0. width \in Nat /\ from \in Int /\ to \in Int
  OBVIOUS
<1>1. PICK f : Moving(f, m, from, to, width, n, FALSE)
  BY <1>0, MovsIs
<1> DEFINE S == {k \in 0 .. n : Fine(f[k], k)}
<1>2. 0 \in S
  <2>1. f[0] = m
    BY <1>1 DEF Moving
  <2>2. \A a \in Addresses : a \notin to .. to + 0 * width - 1
    BY MemFacts
  <2> QED
    BY <2>1, <2>2
<1>3. ASSUME NEW k \in 1 .. n, k - 1 \in S PROVE k \in S
  <2> DEFINE done == (k - 1) * width
             g == f[k - 1]
  <2>1. k \in 0 .. n /\ k # 0 /\ k - 1 \in 0 .. n
    OBVIOUS
  <2>2. g \in Memory /\ Fine(g, k - 1)
    BY <1>1, <1>3, <2>1 DEF Moving
  <2>3. f[k] = MovUnit(g, width, from + done, to + done)
    <3>1. f[k] = MovUnit(g, width, Past(from, width, k - 1, FALSE), Past(to, width, k - 1, FALSE))
      BY <1>1, Zenon DEF Moving
    <3> QED
      BY <3>1 DEF Past
  <2>4. done \in Nat /\ k * width = done + width /\ done + width <= len
    BY <2>1
  <2> HIDE DEF done, g
  <2>5. \A a \in Addresses : f[k][a] =
          IF a \in to + done .. (to + done) + width - 1 /\ ((from + done) + a) - (to + done) \in Addresses
          THEN g[((from + done) + a) - (to + done)] ELSE g[a]
    BY <2>2, <2>3, <2>4, MovUnitIs
  <2>6. \A a \in Addresses : g[a] = IF a \in to .. to + done - 1 THEN m[from + (a - to)] ELSE m[a]
    BY <2>2 DEF done
  <2>7. ASSUME NEW a \in Addresses
        PROVE  f[k][a] = IF a \in to .. to + (done + width) - 1 THEN m[from + (a - to)] ELSE m[a]
    <3>0. a \in Nat /\ a < MemSize
      BY MemFacts
    <3>1. CASE a \in to + done .. (to + done) + width - 1
      <4>1. ((from + done) + a) - (to + done) = from + (a - to) /\ from + (a - to) \in Addresses
        BY <2>4, <3>0, <3>1, MemFacts
      <4>2. from + (a - to) \notin to .. to + done - 1
        BY <2>4, <3>0, <3>1
      <4>3. g[from + (a - to)] = m[from + (a - to)]
        BY <2>6, <4>1, <4>2
      <4>4. a \in to .. to + (done + width) - 1
        BY <2>4, <3>0, <3>1
      <4> QED
        BY <2>5, <3>1, <4>1, <4>3, <4>4
    <3>2. CASE a \notin to + done .. (to + done) + width - 1
      <4>1. a \in to .. to + (done + width) - 1 <=> a \in to .. to + done - 1
        BY <2>4, <3>0, <3>2
      <4> QED
        BY <2>5, <2>6, <3>2, <4>1
    <3> QED
      BY <3>1, <3>2
  <2> QED
    BY <2>1, <2>4, <2>7
<1>4. n \in S
  <2> HIDE DEF S
  <2>1. \A k \in 0 .. n : k \in S
    BY <1>2, <1>3, UpTo
  <2> QED
    BY <2>1
<1> QED
  BY <1>1, <1>4 DEF Moving, Shifted

\* Downwards, byte by byte, from where the last one is.
LEMMA MovsDown ==
  ASSUME NEW m \in Memory, NEW src \in Nat, NEW dest \in Nat, NEW n \in Nat,
         src + n <= MemSize, dest + n <= MemSize, src < dest
  PROVE  Shifted(Movs(m, src + n - 1, dest + n - 1, 1, n, TRUE), m, src, dest, n)
<1> DEFINE from == src + n - 1
           to   == dest + n - 1
           Fine(g, k) == \A a \in Addresses : g[a] =
             IF a \in (dest + n) - k .. dest + n - 1 THEN m[src + (a - dest)] ELSE m[a]
<1>1. PICK f : Moving(f, m, from, to, 1, n, TRUE)
  <2>1. from \in Int /\ to \in Int /\ 1 \in Nat
    OBVIOUS
  <2> HIDE DEF from, to
  <2> QED
    BY <2>1, MovsIs
<1> DEFINE S == {k \in 0 .. n : Fine(f[k], k)}
<1>2. 0 \in S
  <2>1. f[0] = m
    BY <1>1 DEF Moving
  <2>2. \A a \in Addresses : a \notin (dest + n) - 0 .. dest + n - 1
    BY MemFacts
  <2> QED
    BY <2>1, <2>2
<1>3. ASSUME NEW k \in 1 .. n, k - 1 \in S PROVE k \in S
  <2> DEFINE g == f[k - 1]
             t == (dest + n) - k
             s == (src + n) - k
  <2>1. k \in 0 .. n /\ k # 0 /\ k - 1 \in 0 .. n
    OBVIOUS
  <2>2. g \in Memory /\ Fine(g, k - 1)
    BY <1>1, <1>3, <2>1 DEF Moving
  <2>3. f[k] = MovUnit(g, 1, s, t)
    <3>1. f[k] = MovUnit(g, 1, Past(from, 1, k - 1, TRUE), Past(to, 1, k - 1, TRUE))
      BY <1>1, Zenon DEF Moving
    <3>2. Past(from, 1, k - 1, TRUE) = s /\ Past(to, 1, k - 1, TRUE) = t
      BY DEF Past
    <3> QED
      BY <3>1, <3>2
  <2>4. s \in Nat /\ t \in Nat /\ s < t /\ t + k = dest + n /\ s + k = src + n /\ t - s = dest - src
    OBVIOUS
  <2>5. \A a \in Addresses : g[a] = IF a \in t + 1 .. dest + n - 1 THEN m[src + (a - dest)] ELSE m[a]
    <3>1. (dest + n) - (k - 1) = t + 1
      OBVIOUS
    <3> QED
      BY <2>2, <3>1
  <2> HIDE DEF g, s, t
  <2>6. \A a \in Addresses : f[k][a] =
          IF a \in t .. t + 1 - 1 /\ (s + a) - t \in Addresses THEN g[(s + a) - t] ELSE g[a]
    BY <2>2, <2>3, <2>4, MovUnitIs
  <2>7. ASSUME NEW a \in Addresses
        PROVE  f[k][a] = IF a \in t .. dest + n - 1 THEN m[src + (a - dest)] ELSE m[a]
    <3>0. a \in Nat /\ a < MemSize
      BY MemFacts
    <3>1. CASE a = t
      <4>1. a \in t .. t + 1 - 1 /\ (s + a) - t = s /\ s \in Addresses /\ src + (a - dest) = s
        BY <2>4, <3>0, <3>1, MemFacts
      <4>2. s \notin t + 1 .. dest + n - 1
        BY <2>4
      <4>3. g[s] = m[s]
        BY <2>5, <4>1, <4>2
      <4>4. a \in t .. dest + n - 1
        BY <2>4, <3>1
      <4> QED
        BY <2>6, <4>1, <4>3, <4>4
    <3>2. CASE a # t
      <4>1. a \notin t .. t + 1 - 1 /\ (a \in t .. dest + n - 1 <=> a \in t + 1 .. dest + n - 1)
        BY <2>4, <3>0, <3>2
      <4> QED
        BY <2>5, <2>6, <4>1
    <3> QED
      BY <3>1, <3>2
  <2> QED
    BY <2>1, <2>7 DEF t
<1>4. n \in S
  <2> HIDE DEF S
  <2>1. \A k \in 0 .. n : k \in S
    BY <1>2, <1>3, UpTo
  <2> QED
    BY <2>1
<1>5. (dest + n) - n = dest
  OBVIOUS
<1> QED
  BY <1>1, <1>4, <1>5 DEF Moving, Shifted

-----------------------------------------------------------------------------
(* memset, memcpy, memmove: a head to the next boundary, double words, a tail. *)

\* Two memories that agree in every place are the same.
LEMMA SameMemory ==
  ASSUME NEW m \in Memory, NEW f, f = [a \in Addresses |-> f[a]], \A a \in Addresses : m[a] = f[a]
  PROVE  m = f
BY Zenon DEF Memory

\* Put writes its bytes from s on and leaves the rest.
LEMMA PutIs ==
  ASSUME NEW s, NEW bytes
  PROVE  /\ Put(s, bytes) = [a \in Addresses |-> Put(s, bytes)[a]]
         /\ \A a \in Addresses :
              Put(s, bytes)[a] = IF a \in s .. s + Len(bytes) - 1 THEN bytes[a - s + 1] ELSE mem[a]
BY Zenon DEF Put

\* A memory is what Put makes when it has the bytes there, and all others as before.
LEMMA IsPut ==
  ASSUME NEW m \in Memory, NEW s, NEW bytes,
         \A a \in Addresses : m[a] = IF a \in s .. s + Len(bytes) - 1 THEN bytes[a - s + 1] ELSE mem[a]
  PROVE  m = Put(s, bytes)
<1>1. \A a \in Addresses : m[a] = Put(s, bytes)[a]
  BY PutIs, Zenon
<1> DEFINE p == Put(s, bytes)
<1>2. p = [a \in Addresses |-> p[a]]
  BY PutIs
<1> HIDE DEF p
<1>3. \A a \in Addresses : m[a] = p[a]
  BY <1>1 DEF p
<1>4. m = p
  BY <1>2, <1>3, SameMemory
<1> QED
  BY <1>4 DEF p

\* The same when the bytes are given place by place.
IsTuple(b, len) == b = [i \in 1 .. len |-> b[i]]
\* ... and the bytes counted from the first one.
LEMMA IsPutOf ==
  ASSUME NEW m, NEW s \in Nat, NEW len \in Nat, NEW b, IsTuple(b, len), Replaced(m, mem, s, len, b)
  PROVE  m = Put(s, b)
<1>1. Len(b) = len
  BY LenProperties DEF IsTuple
<1>2. \A a \in Addresses : a - s + 1 = (a - s) + 1
  BY MemFacts
<1>3. \A a \in Addresses : m[a] = IF a \in s .. s + Len(b) - 1 THEN b[a - s + 1] ELSE mem[a]
  BY <1>1, <1>2 DEF Replaced
<1> QED
  BY <1>3, IsPut DEF Replaced

\* The pattern of unit, over and over.
LEMMA StosIs ==
  ASSUME NEW m \in Memory, NEW place \in Nat, NEW w \in {1, 2, 4}, NEW unit \in [1 .. w -> Byte], Len(unit) = w,
         NEW n \in Nat, NEW len, len = n * w, NEW b, \A i \in 1 .. len : b[i] = unit[((i - 1) % w) + 1]
  PROVE  Replaced(Stos(m, place, unit, n, FALSE), m, place, len, b)
<1> DEFINE new == [a \in Addresses |-> IF a \in place .. place + n * w - 1 THEN unit[((a - place) % w) + 1] ELSE m[a]]
<1>0. len \in Nat
  OBVIOUS
<1>1. \A a \in Addresses : (IF a \in place .. place + n * w - 1 THEN unit[((a - place) % w) + 1] ELSE m[a]) \in Byte
  <2> SUFFICES ASSUME NEW a \in Addresses
               PROVE  (IF a \in place .. place + n * w - 1 THEN unit[((a - place) % w) + 1] ELSE m[a]) \in Byte
    OBVIOUS
  <2>1. ((a - place) % w) + 1 \in 1 .. w
    BY MemFacts
  <2> QED
    BY <2>1 DEF Memory
<1>2. Stos(m, place, unit, n, FALSE) = new
  BY Zenon DEF Stos
<1>3. new \in Memory
  BY <1>1, Zenon DEF Memory
<1>4. ASSUME NEW a \in Addresses PROVE new[a] = IF a \in place .. place + len - 1 THEN b[(a - place) + 1] ELSE m[a]
  <2>1. CASE a \in place .. place + len - 1
    <3>1. (a - place) + 1 \in 1 .. len /\ ((a - place) + 1) - 1 = a - place
      BY <1>0, <2>1, MemFacts
    <3>2. b[(a - place) + 1] = unit[((a - place) % w) + 1]
      BY <3>1
    <3> QED
      BY <2>1, <3>2
  <2>2. CASE a \notin place .. place + len - 1
    BY <2>2
  <2> QED
    BY <2>1, <2>2
<1> HIDE DEF new
<1> QED
  BY <1>2, <1>3, <1>4 DEF Replaced

\* The same byte in every place.
LEMMA StosByte ==
  ASSUME NEW m \in Memory, NEW place \in Nat, NEW c \in Byte, NEW n \in Nat
  PROVE  Filled(Stos(m, place, <<c>>, n, FALSE), m, place, n, c)
<1> DEFINE unit == <<c>>
           b == [i \in 1 .. n |-> c]
<1>1. unit \in [1 .. 1 -> Byte] /\ Len(unit) = 1 /\ unit[1] = c /\ 1 \in {1, 2, 4} /\ n * 1 = n
  OBVIOUS
<1>2. \A i \in 1 .. n : ((i - 1) % 1) + 1 = 1 /\ b[i] = c
  OBVIOUS
<1> HIDE DEF unit, b
<1>3. \A i \in 1 .. n : b[i] = unit[((i - 1) % 1) + 1]
  BY <1>1, <1>2
<1>4. Replaced(Stos(m, place, unit, n, FALSE), m, place, n, b)
  BY <1>1, <1>3, StosIs
<1>5. \A a \in Addresses : a \in place .. place + n - 1 => (a - place) + 1 \in 1 .. n
  BY MemFacts
<1> QED
  BY <1>2, <1>4, <1>5 DEF unit, Replaced, Filled

\* Double words write each of the bytes of a unit in turn.
LEMMA StosWord ==
  ASSUME NEW m \in Memory, NEW place \in Nat, NEW c \in Byte, NEW n \in Nat
  PROVE  Filled(Stos(m, place, <<c, c, c, c>>, n, FALSE), m, place, n * 4, c)
<1> DEFINE unit == <<c, c, c, c>>
           len == n * 4
           b == [i \in 1 .. len |-> c]
<1>1. /\ unit \in [1 .. 4 -> Byte] /\ Len(unit) = 4 /\ 4 \in {1, 2, 4} /\ len \in Nat
      /\ unit[1] = c /\ unit[2] = c /\ unit[3] = c /\ unit[4] = c
  OBVIOUS
<1>2. \A i \in 1 .. len : ((i - 1) % 4) + 1 \in {1, 2, 3, 4} /\ b[i] = c
  OBVIOUS
<1> HIDE DEF unit, b
<1>3. \A i \in 1 .. len : b[i] = unit[((i - 1) % 4) + 1]
  BY <1>1, <1>2
<1>4. Replaced(Stos(m, place, unit, n, FALSE), m, place, len, b)
  BY <1>1, <1>3, StosIs
<1>5. \A a \in Addresses : a \in place .. place + len - 1 => (a - place) + 1 \in 1 .. len
  BY <1>1, MemFacts
<1> QED
  BY <1>2, <1>4, <1>5 DEF unit, Replaced, Filled

\* The bytes before the aligned part, its double words, and what is left.
LEMMA Parts ==
  ASSUME NEW place \in Nat, NEW n \in Nat, NEW head, head = Unaligned(place, n),
         NEW words, words = (n - head) \div 4, NEW left, left = (n - head) % 4
  PROVE  head \in Nat /\ words \in Nat /\ left \in Nat /\ n = (head + words * 4) + left
<1> DEFINE k == (4 - (place % 4)) % 4
<1>1. k \in Nat
  OBVIOUS
<1> HIDE DEF k
<1>2. head \in {n, k} /\ head <= n
  <2>1. head = Min({n, k})
    BY DEF Unaligned, k
  <2>2. CASE n <= k
    <3>1. Min({n, k}) = n
      BY <1>1, <2>2, Minimum
    <3> QED
      BY <2>1, <3>1
  <2>3. CASE k < n
    <3>1. Min({n, k}) = k
      BY <1>1, <2>3, Minimum
    <3> QED
      BY <1>1, <2>1, <2>3, <3>1
  <2> QED
    BY <1>1, <2>2, <2>3
<1>3. head \in Nat /\ n - head \in Nat
  BY <1>1, <1>2
<1>4. \A r \in Nat : r \div 4 \in Nat /\ r % 4 \in Nat /\ r = (r \div 4) * 4 + (r % 4)
  OBVIOUS
<1>5. words \in Nat /\ left \in Nat /\ n - head = words * 4 + left
  BY <1>3, <1>4
<1> QED
  BY <1>3, <1>5

\* What a call has made of the memory is what it promises.
StrInv == mem \in Memory /\ promised = mem

\* memset fills n bytes, however they lie to a boundary.
LEMMA memsetIs ==
  ASSUME mem \in Memory, NEW s \in Addresses, NEW n \in Nat, NEW c \in Byte
  PROVE  memset(s, c, n).mem \in Memory /\ memset(s, c, n).mem = Fill(s, <<c>>, n)
<1> DEFINE head  == Unaligned(s, n)
           words == (n - head) \div 4
           left  == (n - head) % 4
<1>0. s \in Nat
  BY MemFacts
<1>1. head \in Nat /\ words \in Nat /\ left \in Nat /\ n = (head + words * 4) + left
  <2>1. head = Unaligned(s, n) /\ words = (n - head) \div 4 /\ left = (n - head) % 4
    OBVIOUS
  <2> HIDE DEF head, words, left
  <2> QED
    BY <1>0, <2>1, Parts
<1> DEFINE m1 == Stos(mem, s, <<c>>, head, FALSE)
           m2 == Stos(m1, s + head, <<c, c, c, c>>, words, FALSE)
           past == Past(s + head, 4, words, FALSE)
           m3 == Stos(m2, past, <<c>>, left, FALSE)
<1>2. memset(s, c, n).mem = m3
  BY Zenon DEF memset
<1>3. past = (s + head) + words * 4
  BY <1>0, <1>1 DEF Past
<1> HIDE DEF head, words, left, past
<1>4. Filled(m1, mem, s, head, c)
  BY <1>0, <1>1, StosByte
<1> HIDE DEF m1
<1>5. Filled(m2, m1, s + head, words * 4, c)
  <2>1. s + head \in Nat /\ m1 \in Memory
    BY <1>0, <1>1, <1>4 DEF Filled
  <2> QED
    BY <1>1, <1>4, <2>1, StosWord
<1> HIDE DEF m2
<1>6. Filled(m3, m2, past, left, c)
  <2>1. past \in Nat /\ m2 \in Memory
    BY <1>0, <1>1, <1>3, <1>5 DEF Filled
  <2> QED
    BY <1>1, <1>5, <2>1, StosByte
<1> HIDE DEF m3
<1>7. ASSUME NEW a \in Addresses PROVE m3[a] = IF a \in s .. s + n - 1 THEN c ELSE mem[a]
  <2>1. a \in Nat
    BY MemFacts
  <2>2. a \in s .. s + n - 1 <=> \/ a \in s .. s + head - 1
                                 \/ a \in s + head .. (s + head) + words * 4 - 1
                                 \/ a \in past .. past + left - 1
    BY <1>0, <1>1, <1>3, <2>1
  <2> QED
    BY <1>4, <1>5, <1>6, <2>2 DEF Filled
<1> DEFINE unit == <<c>>
           b == [i \in 1 .. n * Len(unit) |-> unit[((i - 1) % Len(unit)) + 1]]
<1>8. \A i \in 1 .. n : b[i] = c
  OBVIOUS
<1>9. IsTuple(b, n)
  <2>1. n * Len(unit) = n
    OBVIOUS
  <2> QED
    BY <2>1, Zenon DEF IsTuple
<1> HIDE DEF b
<1>10. Replaced(m3, mem, s, n, b)
  <2>1. \A a \in Addresses : a \in s .. s + n - 1 => (a - s) + 1 \in 1 .. n
    BY <1>0
  <2> QED
    BY <1>6, <1>7, <1>8, <2>1 DEF Filled, Replaced
<1>11. m3 = Put(s, b)
  BY <1>0, <1>9, <1>10, IsPutOf
<1> QED
  BY <1>2, <1>10, <1>11 DEF Fill, b, Replaced

\* Fill is what one run of stos upwards writes.
LEMMA StosFills ==
  ASSUME mem \in Memory, NEW s \in Addresses, NEW w \in {1, 2, 4}, NEW unit \in [1 .. w -> Byte], Len(unit) = w,
         NEW n \in Nat
  PROVE  Stos(mem, s, unit, n, FALSE) \in Memory /\ Stos(mem, s, unit, n, FALSE) = Fill(s, unit, n)
<1> DEFINE b == [i \in 1 .. n * Len(unit) |-> unit[((i - 1) % Len(unit)) + 1]]
           len == n * w
<1>1. s \in Nat /\ len \in Nat
  BY MemFacts
<1>2. b = [i \in 1 .. len |-> b[i]] /\ \A i \in 1 .. len : b[i] = unit[((i - 1) % w) + 1]
  BY Zenon
<1>3. Fill(s, unit, n) = Put(s, b)
  BY Zenon DEF Fill
<1>4. len = n * w
  OBVIOUS
<1> HIDE DEF b, len
<1>5. Replaced(Stos(mem, s, unit, n, FALSE), mem, s, len, b)
  BY <1>1, <1>2, <1>4, StosIs
<1>6. IsTuple(b, len)
  BY <1>2, Zenon DEF IsTuple
<1> DEFINE new == Stos(mem, s, unit, n, FALSE)
<1> HIDE DEF new
<1>7. new \in Memory /\ new = Put(s, b)
  <2>1. Replaced(new, mem, s, len, b)
    BY <1>5 DEF new
  <2>2. new \in Memory
    BY <2>1 DEF Replaced
  <2>3. new = Put(s, b)
    BY <1>1, <1>6, <2>1, IsPutOf
  <2> QED
    BY <2>2, <2>3
<1> QED
  BY <1>3, <1>7 DEF new

\* memset_word and memset_dword fill n units.
LEMMA memset_wordIs ==
  ASSUME mem \in Memory, NEW s \in Addresses, NEW n \in Nat, NEW c \in Byte
  PROVE  /\ memset_word(s, c, n).mem \in Memory /\ memset_word(s, c, n).mem = Fill(s, <<c, 0>>, n)
         /\ memset_dword(s, c, n).mem \in Memory /\ memset_dword(s, c, n).mem = Fill(s, <<c, 0, 0, 0>>, n)
<1> DEFINE u == <<c, 0>>
           v == <<c, 0, 0, 0>>
<1>1. 0 \in Byte
  BY DEF Byte
<1>2. u \in [1 .. 2 -> Byte] /\ Len(u) = 2 /\ v \in [1 .. 4 -> Byte] /\ Len(v) = 4 /\ 2 \in {1, 2, 4} /\ 4 \in {1, 2, 4}
  BY <1>1
<1>3. memset_word(s, c, n).mem = Stos(mem, s, u, n, FALSE) /\ memset_dword(s, c, n).mem = Stos(mem, s, v, n, FALSE)
  BY Zenon DEF memset_word, memset_dword
<1> HIDE DEF u, v
<1>4. Stos(mem, s, u, n, FALSE) \in Memory /\ Stos(mem, s, u, n, FALSE) = Fill(s, u, n)
  BY <1>2, StosFills
<1>5. Stos(mem, s, v, n, FALSE) \in Memory /\ Stos(mem, s, v, n, FALSE) = Fill(s, v, n)
  BY <1>2, StosFills
<1> QED
  BY <1>3, <1>4, <1>5 DEF u, v

\* Bytes that are all shifted by the same are Moved.
LEMMA ShiftedIsMoved ==
  ASSUME NEW src \in Nat, NEW dest \in Nat, NEW n \in Nat, NEW new, Shifted(new, mem, src, dest, n)
  PROVE  new \in Memory /\ new = Moved(dest, src, n)
<1> DEFINE b == [i \in 1 .. n |-> mem[src + i - 1]]
<1>1. IsTuple(b, n)
  BY Zenon DEF IsTuple
<1>2. \A i \in 1 .. n : b[i] = mem[src + (i - 1)]
  OBVIOUS
<1>3. Moved(dest, src, n) = Put(dest, b)
  BY Zenon DEF Moved
<1> HIDE DEF b
<1>4. \A a \in Addresses : a \in dest .. dest + n - 1 => (a - dest) + 1 \in 1 .. n /\ ((a - dest) + 1) - 1 = a - dest
  BY MemFacts
<1>5. Replaced(new, mem, dest, n, b)
  BY <1>2, <1>4 DEF Shifted, Replaced
<1> QED
  BY <1>1, <1>3, <1>5, IsPutOf DEF Replaced

\* memcpy where nothing overlaps, whatever the alignment.
LEMMA memcpyIs ==
  ASSUME mem \in Memory, NEW dest \in Addresses, NEW src \in Addresses, NEW n \in Nat,
         Fits(dest, n), Fits(src, n), Apart(dest, src, n)
  PROVE  memcpy(dest, src, n).mem \in Memory /\ memcpy(dest, src, n).mem = Moved(dest, src, n)
<1> DEFINE head  == Unaligned(dest, n)
           words == (n - head) \div 4
           left  == (n - head) % 4
           m1 == Movs(mem, src, dest, 1, head, FALSE)
           m2 == Movs(m1, src + head, dest + head, 4, words, FALSE)
           m3 == Movs(m2, src + n - left, dest + n - left, 1, left, FALSE)
<1>0. dest \in Nat /\ src \in Nat /\ dest + n <= MemSize /\ src + n <= MemSize /\ MemSize \in Nat
  BY MemFacts DEF Fits
<1>1. head \in Nat /\ words \in Nat /\ left \in Nat /\ n = (head + words * 4) + left
  <2>1. head = Unaligned(dest, n) /\ words = (n - head) \div 4 /\ left = (n - head) % 4
    OBVIOUS
  <2> HIDE DEF head, words, left
  <2> QED
    BY <1>0, <2>1, Parts
<1>2. memcpy(dest, src, n).mem = m3
  BY Zenon DEF memcpy
<1>3. dest + n <= src \/ src + n <= dest
  BY DEF Apart
<1> HIDE DEF head, words, left
<1> DEFINE len == words * 4
           f3 == src + n - left
           t3 == dest + n - left
<1>4. len \in Nat /\ n = (head + len) + left /\ f3 = (src + head) + len /\ t3 = (dest + head) + len
  BY <1>0, <1>1
<1>5. /\ src + head \in Nat /\ dest + head \in Nat /\ f3 \in Nat /\ t3 \in Nat
      /\ src + head <= MemSize /\ dest + head <= MemSize
      /\ (src + head) + len <= MemSize /\ (dest + head) + len <= MemSize
      /\ f3 + left <= MemSize /\ t3 + left <= MemSize
      /\ dest <= src \/ src + head <= dest
      /\ dest + head <= src + head \/ (src + head) + len <= dest + head
      /\ t3 <= f3 \/ f3 + left <= t3
      /\ head * 1 = head /\ left * 1 = left /\ words * 4 = len /\ 1 \in {1, 4} /\ 4 \in {1, 4}
  BY <1>0, <1>1, <1>3, <1>4
<1>6. Shifted(m1, mem, src, dest, head)
  <2> HIDE DEF f3, t3, len
  <2> QED
    BY <1>0, <1>1, <1>5, MovsUp
<1> HIDE DEF m1
<1>7. Shifted(m2, m1, src + head, dest + head, len)
  <2>1. m1 \in Memory
    BY <1>6 DEF Shifted
  <2> HIDE DEF f3, t3, len
  <2> QED
    BY <1>0, <1>1, <1>5, <2>1, MovsUp
<1> HIDE DEF m2
<1>8. Shifted(m3, m2, f3, t3, left)
  <2>1. m2 \in Memory
    BY <1>7 DEF Shifted
  <2>2. m3 = Movs(m2, f3, t3, 1, left, FALSE)
    OBVIOUS
  <2> HIDE DEF f3, t3, len, m3
  <2> QED
    BY <1>0, <1>1, <1>5, <2>1, <2>2, MovsUp
<1> HIDE DEF m3, f3, t3, len
<1>9. ASSUME NEW a \in Addresses PROVE m3[a] = IF a \in dest .. dest + n - 1 THEN mem[src + (a - dest)] ELSE mem[a]
  <2>0. a \in Nat /\ a < MemSize
    BY MemFacts
  <2>1. CASE a \in t3 .. t3 + left - 1
    <3>1. f3 + (a - t3) = src + (a - dest) /\ a \in dest .. dest + n - 1
      BY <1>0, <1>1, <1>4, <2>0, <2>1
    <3>2. src + (a - dest) \in Addresses
      BY <1>0, <1>1, <2>0, <3>1, MemFacts
    <3>3. src + (a - dest) \notin dest .. dest + head - 1 /\ src + (a - dest) \notin dest + head .. (dest + head) + len - 1
      BY <1>0, <1>1, <1>3, <1>4, <2>0, <3>1
    <3>4. m3[a] = m2[src + (a - dest)]
      BY <1>8, <2>1, <3>1 DEF Shifted
    <3>5. m2[src + (a - dest)] = mem[src + (a - dest)]
      BY <1>6, <1>7, <3>2, <3>3 DEF Shifted
    <3> QED
      BY <3>1, <3>4, <3>5
  <2>2. CASE a \in dest + head .. (dest + head) + len - 1
    <3>1. /\ (src + head) + (a - (dest + head)) = src + (a - dest) /\ a \in dest .. dest + n - 1
          /\ a \notin t3 .. t3 + left - 1
      BY <1>0, <1>1, <1>4, <2>0, <2>2
    <3>2. src + (a - dest) \in Addresses
      BY <1>0, <1>1, <2>0, <3>1, MemFacts
    <3>3. src + (a - dest) \notin dest .. dest + head - 1
      BY <1>0, <1>1, <1>3, <1>4, <2>0, <3>1
    <3>4. m3[a] = m1[src + (a - dest)]
      BY <1>7, <1>8, <2>2, <3>1 DEF Shifted
    <3>5. m1[src + (a - dest)] = mem[src + (a - dest)]
      BY <1>6, <3>2, <3>3 DEF Shifted
    <3> QED
      BY <3>1, <3>4, <3>5
  <2>3. CASE a \notin t3 .. t3 + left - 1 /\ a \notin dest + head .. (dest + head) + len - 1
    <3>1. m3[a] = m1[a]
      BY <1>7, <1>8, <2>3 DEF Shifted
    <3>2. a \in dest .. dest + head - 1 <=> a \in dest .. dest + n - 1
      BY <1>0, <1>1, <1>4, <2>0, <2>3
    <3>3. m1[a] = IF a \in dest .. dest + head - 1 THEN mem[src + (a - dest)] ELSE mem[a]
      BY <1>6 DEF Shifted
    <3> QED
      BY <3>1, <3>2, <3>3
  <2> QED
    BY <2>1, <2>2, <2>3
<1>10. Shifted(m3, mem, src, dest, n)
  BY <1>8, <1>9 DEF Shifted
<1> QED
  BY <1>0, <1>2, <1>10, ShiftedIsMoved

\* memmove, also where source and destination overlap.
LEMMA memmoveIs ==
  ASSUME mem \in Memory, NEW dest \in Addresses, NEW src \in Addresses, NEW n \in Nat,
         Fits(dest, n), Fits(src, n)
  PROVE  memmove(dest, src, n).mem \in Memory /\ memmove(dest, src, n).mem = Moved(dest, src, n)
<1> DEFINE new == memmove(dest, src, n).mem
<1>0. dest \in Nat /\ src \in Nat /\ dest + n <= MemSize /\ src + n <= MemSize /\ MemSize \in Nat
  BY MemFacts DEF Fits
<1>1. CASE src < dest
  <2>1. new = Movs(mem, src + n - 1, dest + n - 1, 1, n, TRUE)
    BY <1>1, Zenon DEF memmove
  <2> HIDE DEF new
  <2>2. Shifted(new, mem, src, dest, n)
    BY <1>0, <1>1, <2>1, MovsDown
  <2> QED
    BY <1>0, <2>2, ShiftedIsMoved DEF new
<1>2. CASE ~(src < dest)
  <2>1. new = Movs(mem, src, dest, 1, n, FALSE)
    BY <1>2, Zenon DEF memmove
  <2>2. dest <= src /\ n = n * 1 /\ 1 \in {1, 4}
    BY <1>0, <1>2
  <2> HIDE DEF new
  <2>3. Shifted(new, mem, src, dest, n)
    BY <1>0, <2>1, <2>2, MovsUp
  <2> QED
    BY <1>0, <2>3, ShiftedIsMoved DEF new
<1> QED
  BY <1>1, <1>2

-----------------------------------------------------------------------------
(* Strings: lengths, copies, reversal, the digits of a number, comparison. *)

\* The string at s has l characters.
\* l is the number of characters of the string at s in front of its NUL.
IsLen(m, s, l) ==
  /\ l \in Nat /\ s + l \in Addresses /\ m[s + l] = 0
  /\ \A j \in 0 .. l - 1 : m[s + j] # 0

\* strlen counts to the first NUL.
LEMMA strlenIs ==
  ASSUME NEW m, NEW s \in Addresses, HasEnd(m, s)
  PROVE  IsLen(m, s, strlen(m, s))
<1> DEFINE S == {a - s : a \in {b \in Addresses : b >= s /\ m[b] = 0}}
<1>0. s \in Nat
  BY MemFacts
<1>1. S \in SUBSET Nat /\ S # {}
  BY MemFacts DEF HasEnd
<1>2. \A j \in S : s + j \in Addresses /\ m[s + j] = 0
  BY MemFacts
<1>3. \A a \in Addresses : a >= s /\ m[a] = 0 => a - s \in S
  OBVIOUS
<1>4. strlen(m, s) = Min(S)
  BY Zenon DEF strlen
<1> HIDE DEF S
<1>5. PICK l \in S : \A i \in S : l <= i
  BY <1>1, Least
<1>6. strlen(m, s) = l /\ l \in Nat
  BY <1>1, <1>4, <1>5, Minimum
<1>7. ASSUME NEW j \in 0 .. l - 1 PROVE m[s + j] # 0
  <2>1. s + j \in Addresses /\ s + j >= s /\ (s + j) - s = j /\ ~(l <= j)
    BY <1>0, <1>2, <1>5, <1>6, MemFacts
  <2> QED
    BY <1>3, <1>5, <2>1
<1> QED
  BY <1>2, <1>5, <1>6, <1>7 DEF IsLen

\* A string has one length.
LEMMA LenIs ==
  ASSUME NEW m, NEW s \in Addresses, NEW l, IsLen(m, s, l)
  PROVE  strlen(m, s) = l
<1> DEFINE k == strlen(m, s)
<1>1. HasEnd(m, s)
  BY MemFacts DEF HasEnd, IsLen
<1>2. IsLen(m, s, k)
  BY <1>1, strlenIs
<1> HIDE DEF k
<1>3. k \in Nat /\ l \in Nat /\ ~(k < l) /\ ~(l < k)
  BY <1>2 DEF IsLen
<1>4. k = l
  BY <1>3
<1> QED
  BY <1>4 DEF k

\* new is m but for one byte.
OneByte(new, m, place, c) ==
  new \in Memory /\ \A a \in Addresses : new[a] = IF a = place THEN c ELSE m[a]

\* What one round of strcpy does.
CopyStep(before, dest, src, i) == [before EXCEPT ![dest + i - 1] = before[src + i - 1]]
IsCopying(f, m, dest, src, room) ==
  f = [i \in 0 .. room |-> IF i = 0 THEN m ELSE CopyStep(f[i - 1], dest, src, i)]

\* One byte is copied.
LEMMA CopyStepIs ==
  ASSUME NEW m \in Memory, NEW dest \in Nat, NEW src \in Nat, NEW i \in Nat \ {0},
         NEW to, to = dest + (i - 1), NEW from, from = src + (i - 1), to \in Addresses, from \in Addresses
  PROVE  OneByte(CopyStep(m, dest, src, i), m, to, m[from])
<1>1. CopyStep(m, dest, src, i) = [m EXCEPT ![to] = m[from]]
  BY DEF CopyStep
<1> QED
  BY <1>1 DEF Memory, OneByte

\* The memory after each byte that strcpy copies.
Copying(f, m, dest, src, room) ==
  /\ f \in [0 .. room -> Memory]
  /\ f[0] = m
  /\ \A i \in 1 .. room : f[i] = CopyStep(f[i - 1], dest, src, i)

\* strcpy ends at the first NUL of the source, which it writes as well.
CopyEnd(f, dest, src, room) ==
  LET ends == {i \in 0 .. room : f[i][src + i] = 0} IN [f[Min(ends)] EXCEPT ![dest + Min(ends)] = 0]

\* strcpy is the memory at the first NUL of its rounds.
LEMMA strcpyLoop ==
  ASSUME NEW m \in Memory, NEW dest \in Addresses, NEW src \in Addresses,
         NEW room, room = MemSize - 1 - Max({src, dest}), room \in Nat,
         src + room < MemSize, dest + room < MemSize
  PROVE  \E f : Copying(f, m, dest, src, room) /\ strcpy(m, dest, src) = CopyEnd(f, dest, src, room)
<1> DEFINE G == [x \in (1 .. room) \X Memory |-> CopyStep(x[2], dest, src, x[1])]
           Fine(f) == f = [i \in 0 .. room |-> IF i = 0 THEN m ELSE CopyStep(f[i - 1], dest, src, i)]
<1>0. dest \in Nat /\ src \in Nat /\ MemSize \in Nat
  BY MemFacts
<1>1. ASSUME NEW i \in 1 .. room, NEW before \in Memory PROVE CopyStep(before, dest, src, i) \in Memory
  <2>1. i \in Nat \ {0} /\ dest + (i - 1) \in Addresses /\ src + (i - 1) \in Addresses
    BY <1>0, MemFacts
  <2> QED
    BY <1>0, <2>1, CopyStepIs DEF OneByte
<1>2. G \in [(1 .. room) \X Memory -> Memory]
  <2>1. \A x \in (1 .. room) \X Memory : x[1] \in 1 .. room /\ x[2] \in Memory
    OBVIOUS
  <2> QED
    BY <1>1, <2>1
<1> HIDE DEF G
<1>3. PICK f : Rounds(f, m, room, G)
  BY <1>2, RoundByRound
<1>4. \A k \in 0 .. room : f[k] = IF k = 0 THEN m ELSE CopyStep(f[k - 1], dest, src, k)
  <2> SUFFICES ASSUME NEW k \in 0 .. room PROVE f[k] = IF k = 0 THEN m ELSE CopyStep(f[k - 1], dest, src, k)
    OBVIOUS
  <2>1. f[k] = IF k = 0 THEN m ELSE G[<<k, f[k - 1]>>]
    BY <1>3, Zenon DEF Rounds
  <2>2. k # 0 => k \in 1 .. room /\ k - 1 \in 0 .. room
    OBVIOUS
  <2>3. k # 0 => <<k, f[k - 1]>> \in (1 .. room) \X Memory
    BY <1>3, <2>2 DEF Rounds
  <2>4. k # 0 => G[<<k, f[k - 1]>>] = CopyStep(f[k - 1], dest, src, k)
    BY <2>3 DEF G
  <2> QED
    BY <2>1, <2>4
<1>5. \E g : Fine(g)
  <2>1. f = [k \in 0 .. room |-> f[k]]
    BY <1>3, Zenon DEF Rounds
  <2>2. Fine(f)
    BY <1>4, <2>1, Zenon
  <2> QED
    BY <2>2
<1> DEFINE g == CHOOSE g : Fine(g)
<1>6. Fine(g)
  BY <1>5, Zenon
<1>7. strcpy(m, dest, src) = CopyEnd(g, dest, src, room)
  BY Zenon DEF strcpy, CopyStep, CopyEnd
<1> HIDE DEF g
<1>8. \A k \in 0 .. room : g[k] = IF k = 0 THEN m ELSE CopyStep(g[k - 1], dest, src, k)
  BY <1>6, Zenon
<1>9. 0 \in 0 .. room /\ \A k \in 1 .. room : k \in 0 .. room /\ k # 0
  OBVIOUS
<1>10. g[0] = m /\ \A k \in 1 .. room : g[k] = CopyStep(g[k - 1], dest, src, k)
  BY <1>8, <1>9, Zenon
<1> DEFINE S == {k \in 0 .. room : g[k] \in Memory}
<1>11. \A k \in 0 .. room : k \in S
  <2>1. 0 \in S
    BY <1>9, <1>10
  <2>2. ASSUME NEW k \in 1 .. room, k - 1 \in S PROVE k \in S
    BY <1>1, <1>9, <1>10, <2>2
  <2> HIDE DEF S
  <2> QED
    BY <2>1, <2>2, UpTo
<1>12. g = [k \in 0 .. room |-> g[k]]
  BY <1>6, Zenon
<1>13. g \in [0 .. room -> Memory]
  BY <1>11, <1>12
<1> QED
  BY <1>7, <1>10, <1>13 DEF Copying

\* strcpy, where the strings lie apart or the copy begins below the source.
LEMMA strcpyIs ==
  ASSUME mem \in Memory, NEW dest \in Addresses, NEW src \in Addresses, HasEnd(mem, src),
         NEW size, size = strlen(mem, src) + 1,
         Fits(dest, size), dest <= src \/ Apart(dest, src, size)
  PROVE  strcpy(mem, dest, src) \in Memory /\ strcpy(mem, dest, src) = Moved(dest, src, size)
<1> DEFINE l == strlen(mem, src)
           room == MemSize - 1 - Max({src, dest})
<1>1. IsLen(mem, src, l)
  BY strlenIs
<1> HIDE DEF l
<1>2. /\ l \in Nat /\ size = l + 1 /\ dest \in Nat /\ src \in Nat /\ MemSize \in Nat
      /\ src + l < MemSize /\ dest + l < MemSize /\ dest < MemSize /\ src < MemSize
      /\ dest <= src \/ src + l < dest
  <2>1. size = l + 1
    BY DEF l
  <2> QED
    BY <1>1, <2>1, MemFacts DEF IsLen, Fits, Apart
<1>3. Max({src, dest}) = IF src <= dest THEN dest ELSE src
  <2>1. \E x \in {src, dest} : \A y \in {src, dest} : x >= y
    BY <1>2
  <2>2. Max({src, dest}) \in {src, dest} /\ \A y \in {src, dest} : Max({src, dest}) >= y
    BY <2>1, Zenon DEF Max
  <2> QED
    BY <1>2, <2>2
<1>4. room \in Nat /\ src + room < MemSize /\ dest + room < MemSize /\ l <= room
  BY <1>2, <1>3
<1>5. room = MemSize - 1 - Max({src, dest})
  OBVIOUS
<1> HIDE DEF room
<1>6. PICK f : Copying(f, mem, dest, src, room) /\ strcpy(mem, dest, src) = CopyEnd(f, dest, src, room)
  BY <1>4, <1>5, strcpyLoop
<1> DEFINE Fine(g, k) == \A a \in Addresses : g[a] =
             IF a \in dest .. dest + k - 1 THEN mem[src + (a - dest)] ELSE mem[a]
           S == {k \in 0 .. l : Fine(f[k], k)}
<1>7. \A k \in 0 .. l : k \in S
  <2>1. 0 \in S
    <3>1. f[0] = mem
      BY <1>6 DEF Copying
    <3>2. 0 \in 0 .. l /\ \A a \in Addresses : a \notin dest .. dest + 0 - 1
      BY <1>2, MemFacts
    <3> QED
      BY <3>1, <3>2
  <2>2. ASSUME NEW k \in 1 .. l, k - 1 \in S PROVE k \in S
    <3> DEFINE g == f[k - 1]
               to == dest + (k - 1)
               from == src + (k - 1)
    <3>1. k \in 1 .. room /\ k - 1 \in 0 .. room /\ k \in Nat \ {0} /\ k \in 0 .. l
      BY <1>2, <1>4
    <3>2. g \in Memory /\ f[k] = CopyStep(g, dest, src, k)
      BY <1>6, <3>1 DEF Copying
    <3>3. Fine(g, k - 1)
      BY <2>2
    <3>4. to \in Addresses /\ from \in Addresses /\ from \notin dest .. dest + (k - 1) - 1
      BY <1>2, <3>1, MemFacts
    <3>5. g[from] = mem[from]
      BY <3>3, <3>4
    <3>6. \A a \in Addresses : f[k][a] = IF a = to THEN g[from] ELSE g[a]
      <4>1. to = dest + (k - 1) /\ from = src + (k - 1)
        OBVIOUS
      <4> HIDE DEF g, to, from, Fine
      <4>2. OneByte(CopyStep(g, dest, src, k), g, to, g[from])
        BY <1>2, <3>1, <3>2, <3>4, <4>1, CopyStepIs
      <4> QED
        BY <3>2, <4>2 DEF OneByte
    <3>7. ASSUME NEW a \in Addresses
          PROVE  f[k][a] = IF a \in dest .. dest + k - 1 THEN mem[src + (a - dest)] ELSE mem[a]
      <4>1. a \in Nat
        BY MemFacts
      <4>2. CASE a = to
        <5>1. a \in dest .. dest + k - 1 /\ src + (a - dest) = from
          BY <1>2, <3>1, <4>1, <4>2
        <5> QED
          BY <3>5, <3>6, <4>2, <5>1
      <4>3. CASE a # to
        <5>1. a \in dest .. dest + k - 1 <=> a \in dest .. dest + (k - 1) - 1
          BY <1>2, <3>1, <4>1, <4>3
        <5> QED
          BY <3>3, <3>6, <4>3, <5>1
      <4> QED
        BY <4>2, <4>3
    <3> QED
      BY <3>1, <3>7
  <2> HIDE DEF S
  <2> QED
    BY <1>2, <2>1, <2>2, UpTo
<1> DEFINE ends == {i \in 0 .. room : f[i][src + i] = 0}
           new == strcpy(mem, dest, src)
<1>8. \A k \in 0 .. l : f[k][src + k] = mem[src + k]
  <2> SUFFICES ASSUME NEW k \in 0 .. l PROVE f[k][src + k] = mem[src + k]
    OBVIOUS
  <2>1. Fine(f[k], k)
    BY <1>7
  <2>2. src + k \in Addresses /\ src + k \notin dest .. dest + k - 1
    BY <1>2, MemFacts
  <2> QED
    BY <2>1, <2>2
<1>9. l \in ends /\ ends \in SUBSET Nat /\ \A i \in ends : l <= i
  <2>1. l \in 0 .. l /\ l \in 0 .. room
    BY <1>2, <1>4
  <2>2. l \in ends
    BY <1>1, <1>8, <2>1 DEF IsLen
  <2>3. ASSUME NEW i \in ends, i < l PROVE FALSE
    <3>1. i \in 0 .. l /\ i \in 0 .. l - 1 /\ f[i][src + i] = 0
      BY <1>2, <1>4, <2>3
    <3> QED
      BY <1>1, <1>8, <3>1 DEF IsLen
  <2> QED
    BY <1>2, <1>4, <2>2, <2>3
<1>10. new = [f[l] EXCEPT ![dest + l] = 0]
  <2>1. new = [f[Min(ends)] EXCEPT ![dest + Min(ends)] = 0]
    BY <1>6, Zenon DEF CopyEnd
  <2> HIDE DEF ends
  <2>2. Min(ends) = l
    BY <1>9, Minimum
  <2> QED
    BY <2>1, <2>2
<1> HIDE DEF new, ends
<1>11. f[l] \in Memory /\ Fine(f[l], l)
  <2>1. l \in 0 .. l /\ l \in 0 .. room
    BY <1>2, <1>4
  <2> QED
    BY <1>6, <1>7, <2>1 DEF Copying
<1>12. new \in Memory /\ \A a \in Addresses : new[a] = IF a = dest + l THEN 0 ELSE f[l][a]
  <2>1. 0 \in Byte
    BY DEF Byte
  <2> QED
    BY <1>10, <1>11, <2>1 DEF Memory
<1>13. ASSUME NEW a \in Addresses
       PROVE  new[a] = IF a \in dest .. dest + size - 1 THEN mem[src + (a - dest)] ELSE mem[a]
  <2>1. a \in Nat
    BY MemFacts
  <2>2. CASE a = dest + l
    <3>1. a \in dest .. dest + size - 1 /\ src + (a - dest) = src + l
      BY <1>2, <2>1, <2>2
    <3> QED
      BY <1>1, <1>12, <2>2, <3>1 DEF IsLen
  <2>3. CASE a # dest + l
    <3>1. a \in dest .. dest + size - 1 <=> a \in dest .. dest + l - 1
      BY <1>2, <2>1, <2>3
    <3> QED
      BY <1>11, <1>12, <2>3, <3>1
  <2> QED
    BY <2>2, <2>3
<1>14. Shifted(new, mem, src, dest, size)
  BY <1>12, <1>13 DEF Shifted
<1>15. size \in Nat
  BY <1>2
<1> QED
  BY <1>2, <1>14, <1>15, ShiftedIsMoved DEF new

\* strncpy copies n bytes or the string and NULs behind it.
LEMMA strncpyIs ==
  ASSUME mem \in Memory, NEW dest \in Addresses, NEW src \in Addresses, HasEnd(mem, src),
         NEW n \in Nat
  PROVE  strncpy(mem, dest, src, n) \in Memory /\ strncpy(mem, dest, src, n) = Copied(dest, src, n)
<1> DEFINE l   == strlen(mem, src)
           len == Min({n, l})
           new == strncpy(mem, dest, src, n)
           b   == [i \in 1 .. n |-> IF i <= l THEN mem[src + i - 1] ELSE 0]
<1>1. IsLen(mem, src, l)
  BY strlenIs
<1>2. new = [a \in Addresses |-> IF a \in dest .. dest + len - 1 THEN mem[src + a - dest]
                                 ELSE IF a \in dest .. dest + n - 1 THEN 0 ELSE mem[a]]
  BY Zenon DEF strncpy
<1>3. \A i \in 1 .. n : b[i] = IF i <= l THEN mem[src + i - 1] ELSE 0
  OBVIOUS
<1>4. IsTuple(b, n) /\ Copied(dest, src, n) = Put(dest, b)
  BY Zenon DEF IsTuple, Copied
<1>5. len = IF n <= l THEN n ELSE l
  <2> HIDE DEF l
  <2>1. l \in Nat
    BY <1>1 DEF IsLen
  <2>2. CASE n <= l
    BY <2>1, <2>2, Minimum
  <2>3. CASE l < n
    BY <2>1, <2>3, Minimum
  <2> QED
    BY <2>1, <2>2, <2>3
<1> HIDE DEF l, len, new, b
<1>6. l \in Nat /\ dest \in Nat /\ src \in Nat /\ src + l < MemSize /\ MemSize \in Nat
  BY <1>1, MemFacts DEF IsLen
<1>7. ASSUME NEW a \in Addresses
      PROVE  new[a] \in Byte /\ new[a] = IF a \in dest .. dest + n - 1 THEN b[(a - dest) + 1] ELSE mem[a]
  <2>0. a \in Nat
    BY MemFacts
  <2>1. new[a] = IF a \in dest .. dest + len - 1 THEN mem[src + a - dest]
                 ELSE IF a \in dest .. dest + n - 1 THEN 0 ELSE mem[a]
    BY <1>2
  <2>2. CASE a \in dest .. dest + len - 1
    <3>1. /\ (a - dest) + 1 \in 1 .. n /\ (a - dest) + 1 <= l /\ a \in dest .. dest + n - 1
          /\ src + a - dest = src + ((a - dest) + 1) - 1
      BY <1>5, <1>6, <2>0, <2>2
    <3>2. src + a - dest \in Addresses
      BY <1>5, <1>6, <2>0, <2>2, MemFacts
    <3>3. b[(a - dest) + 1] = mem[src + a - dest]
      BY <1>3, <3>1
    <3> QED
      BY <2>1, <2>2, <3>1, <3>2, <3>3 DEF Memory
  <2>3. CASE a \notin dest .. dest + len - 1 /\ a \in dest .. dest + n - 1
    <3>1. (a - dest) + 1 \in 1 .. n /\ ~((a - dest) + 1 <= l)
      BY <1>5, <1>6, <2>0, <2>3
    <3>2. b[(a - dest) + 1] = 0
      BY <1>3, <3>1
    <3> QED
      BY <2>1, <2>3, <3>2, MemFacts
  <2>4. CASE a \notin dest .. dest + len - 1 /\ a \notin dest .. dest + n - 1
    BY <2>1, <2>4 DEF Memory
  <2> QED
    BY <2>2, <2>3, <2>4
<1>8. new \in Memory
  BY <1>2, <1>7 DEF Memory
<1>9. Replaced(new, mem, dest, n, b)
  BY <1>7, <1>8 DEF Replaced
<1>10. new = Put(dest, b)
  BY <1>4, <1>6, <1>9, IsPutOf
<1> QED
  BY <1>4, <1>8, <1>10 DEF new

\* What one round of strrev does.
SwapStep(before, b, e) == [before EXCEPT ![b] = before[e], ![e] = before[b]]
Swapped(new, m, b, e) ==
  new \in Memory /\ \A a \in Addresses : new[a] = IF a = b THEN m[e] ELSE IF a = e THEN m[b] ELSE m[a]

\* Two bytes are swapped.
LEMMA SwapStepIs ==
  ASSUME NEW m \in Memory, NEW b \in Addresses, NEW e \in Addresses
  PROVE  Swapped(SwapStep(m, b, e), m, b, e)
BY DEF SwapStep, Swapped, Memory

\* The memory after each pair that strrev swaps.
Swapping(f, m, s, end, half) ==
  /\ f \in [0 .. half -> Memory]
  /\ f[0] = m
  /\ \A k \in 1 .. half : f[k] = SwapStep(f[k - 1], s + k - 1, s + end - (k - 1))

\* As many pairs are swapped.
Half(end) == (end + 1) \div 2

\* strrev is the last of its rounds.
LEMMA strrevLoop ==
  ASSUME NEW m \in Memory, NEW s \in Addresses, NEW l \in Nat, NEW end, end = l - 1,
         s + l < MemSize, strlen(m, s) = l, NEW half \in Nat, half = Half(end), half <= l
  PROVE  \E f : Swapping(f, m, s, end, half) /\ strrev(m, s) = f[half]
<1> DEFINE G == [x \in (1 .. half) \X Memory |-> SwapStep(x[2], s + x[1] - 1, s + end - (x[1] - 1))]
           Fine(f) == f = [k \in 0 .. half |->
                         IF k = 0 THEN m ELSE SwapStep(f[k - 1], s + k - 1, s + end - (k - 1))]
<1>0. s \in Nat /\ MemSize \in Nat /\ half \in Nat /\ half <= l /\ end \in Int
  BY MemFacts
<1>1. ASSUME NEW k \in 1 .. half, NEW before \in Memory
      PROVE  SwapStep(before, s + k - 1, s + end - (k - 1)) \in Memory
  <2>1. s + k - 1 \in Addresses /\ s + end - (k - 1) \in Addresses
    BY <1>0, MemFacts
  <2> QED
    BY <2>1, SwapStepIs DEF Swapped
<1>2. G \in [(1 .. half) \X Memory -> Memory]
  <2>1. \A x \in (1 .. half) \X Memory : x[1] \in 1 .. half /\ x[2] \in Memory
    OBVIOUS
  <2> QED
    BY <1>1, <2>1
<1> HIDE DEF G
<1>3. PICK f : Rounds(f, m, half, G)
  BY <1>2, RoundByRound
<1>4. \A k \in 0 .. half : f[k] = IF k = 0 THEN m ELSE SwapStep(f[k - 1], s + k - 1, s + end - (k - 1))
  <2> SUFFICES ASSUME NEW k \in 0 .. half
               PROVE f[k] = IF k = 0 THEN m ELSE SwapStep(f[k - 1], s + k - 1, s + end - (k - 1))
    OBVIOUS
  <2>1. f[k] = IF k = 0 THEN m ELSE G[<<k, f[k - 1]>>]
    BY <1>3, Zenon DEF Rounds
  <2>2. k # 0 => k \in 1 .. half /\ k - 1 \in 0 .. half
    BY <1>0
  <2>3. k # 0 => <<k, f[k - 1]>> \in (1 .. half) \X Memory
    BY <1>3, <2>2 DEF Rounds
  <2>4. k # 0 => G[<<k, f[k - 1]>>] = SwapStep(f[k - 1], s + k - 1, s + end - (k - 1))
    BY <2>3 DEF G
  <2> QED
    BY <2>1, <2>4
<1>5. \E g : Fine(g)
  <2>1. f = [k \in 0 .. half |-> f[k]]
    BY <1>3, Zenon DEF Rounds
  <2>2. Fine(f)
    BY <1>4, <2>1, Zenon
  <2> QED
    BY <2>2
<1> DEFINE g == CHOOSE g : Fine(g)
<1>6. Fine(g)
  BY <1>5, Zenon
<1>7. strrev(m, s) = g[half]
  BY Zenon DEF strrev, SwapStep, Half
<1> HIDE DEF g
<1>8. \A k \in 0 .. half : g[k] = IF k = 0 THEN m ELSE SwapStep(g[k - 1], s + k - 1, s + end - (k - 1))
  BY <1>6, Zenon
<1>9. 0 \in 0 .. half /\ \A k \in 1 .. half : k \in 0 .. half /\ k # 0
  BY <1>0
<1>10. g[0] = m /\ \A k \in 1 .. half : g[k] = SwapStep(g[k - 1], s + k - 1, s + end - (k - 1))
  BY <1>8, <1>9, Zenon
<1> DEFINE S == {k \in 0 .. half : g[k] \in Memory}
<1>11. \A k \in 0 .. half : k \in S
  <2>1. 0 \in S
    BY <1>9, <1>10
  <2>2. ASSUME NEW k \in 1 .. half, k - 1 \in S PROVE k \in S
    BY <1>1, <1>9, <1>10, <2>2
  <2> HIDE DEF S
  <2> QED
    BY <1>0, <2>1, <2>2, UpTo
<1>12. g = [k \in 0 .. half |-> g[k]]
  BY <1>6, Zenon
<1>13. g \in [0 .. half -> Memory]
  BY <1>11, <1>12
<1> QED
  BY <1>7, <1>10, <1>13 DEF Swapping

\* The l bytes from s on, the other way round.
Mirrored(new, m, s, l) ==
  new \in Memory /\ \A a \in Addresses : new[a] = IF a \in s .. s + l - 1 THEN m[((s + s) + (l - 1)) - a] ELSE m[a]

\* After half of the pairs every byte is where its mirror image was.
LEMMA strrevMirrors ==
  ASSUME NEW m \in Memory, NEW s \in Addresses, NEW l \in Nat, IsLen(m, s, l)
  PROVE  Mirrored(strrev(m, s), m, s, l)
<1> DEFINE end  == l - 1
           half == Half(end)
           final == (s + s) + (l - 1)
           Fine(g, k) == \A a \in Addresses : g[a] =
             IF a \in s .. s + (k - 1) \/ a \in (s + l) - k .. s + (l - 1) THEN m[final - a] ELSE m[a]
<1>1. half \in Nat /\ 2 * half <= l /\ l <= 2 * half + 1
  BY DEF Half
<1>2. s \in Nat /\ s + l < MemSize /\ MemSize \in Nat /\ strlen(m, s) = l
  BY LenIs, MemFacts DEF IsLen
<1>3. end = l - 1 /\ half = Half(end) /\ half <= l
  BY <1>1
<1> HIDE DEF half
<1>4. PICK f : Swapping(f, m, s, end, half) /\ strrev(m, s) = f[half]
  <2> HIDE DEF end
  <2> QED
    BY <1>1, <1>2, <1>3, strrevLoop
<1> DEFINE S == {k \in 0 .. half : Fine(f[k], k)}
<1>5. 0 \in S
  <2>1. f[0] = m
    BY <1>4 DEF Swapping
  <2>2. ASSUME NEW a \in Addresses PROVE a \notin s .. s + (0 - 1) /\ a \notin (s + l) - 0 .. s + (l - 1)
    BY <1>2, MemFacts
  <2>3. 0 \in 0 .. half
    BY <1>1
  <2> QED
    BY <2>1, <2>2, <2>3
<1>6. ASSUME NEW k \in 1 .. half, k - 1 \in S PROVE k \in S
  <2> DEFINE g == f[k - 1]
             b == s + (k - 1)
             e == (s + l) - k
  <2>1. k - 1 \in 0 .. half /\ k \in 0 .. half /\ k \in Nat /\ 2 * k <= l
    BY <1>1
  <2>2. g \in Memory /\ f[k] = SwapStep(g, b, e)
    <3>1. s + k - 1 = b /\ s + end - (k - 1) = e
      BY <1>2, <2>1
    <3>2. f[k - 1] \in Memory /\ f[k] = SwapStep(f[k - 1], s + k - 1, s + end - (k - 1))
      BY <1>4, <2>1, Zenon DEF Swapping
    <3> QED
      BY <3>1, <3>2
  <2>3. \A a \in Addresses : g[a] = IF a \in s .. b - 1 \/ a \in e + 1 .. s + (l - 1) THEN m[final - a] ELSE m[a]
    <3>1. s + ((k - 1) - 1) = b - 1 /\ (s + l) - (k - 1) = e + 1
      BY <1>2, <2>1
    <3>2. Fine(g, k - 1)
      BY <1>6
    <3> QED
      BY <3>1, <3>2
  <2>4. /\ b \in Nat /\ e \in Nat /\ s <= b /\ b < e /\ e <= s + (l - 1) /\ e = final - b /\ b = final - e
        /\ b \in Addresses /\ e \in Addresses
    BY <1>2, <2>1, MemFacts
  <2> HIDE DEF g, final
  <2>5. Swapped(f[k], g, b, e)
    <3> HIDE DEF b, e
    <3> QED
      BY <2>2, <2>4, SwapStepIs
  <2>6. ASSUME NEW a \in Addresses
        PROVE  f[k][a] = IF a \in s .. b \/ a \in e .. s + (l - 1) THEN m[final - a] ELSE m[a]
    <3> HIDE DEF b, e
    <3>0. a \in Nat /\ f[k][a] = IF a = b THEN g[e] ELSE IF a = e THEN g[b] ELSE g[a]
      BY <2>5, MemFacts DEF Swapped
    <3>1. g[e] = m[e] /\ g[b] = m[b]
      BY <1>2, <2>3, <2>4
    <3>2. CASE a = b
      <4>1. a \in s .. b /\ final - a = e
        BY <1>2, <2>4, <3>2
      <4> QED
        BY <3>0, <3>1, <3>2, <4>1
    <3>3. CASE a = e
      <4>1. e \in e .. s + (l - 1) /\ e # b
        BY <1>2, <2>4
      <4>2. a \in e .. s + (l - 1) /\ a # b /\ final - a = b
        BY <2>4, <3>3, <4>1, Zenon
      <4> QED
        BY <3>0, <3>1, <3>3, <4>2
    <3>4. CASE a # b /\ a # e
      <4>1. (a \in s .. b <=> a \in s .. b - 1) /\ (a \in e .. s + (l - 1) <=> a \in e + 1 .. s + (l - 1))
        BY <1>2, <2>4, <3>0, <3>4
      <4> QED
        BY <2>3, <3>0, <3>4, <4>1
    <3> QED
      BY <3>2, <3>3, <3>4
  <2>7. Fine(f[k], k)
    BY <2>6 DEF b, e
  <2> QED
    BY <2>1, <2>7
<1>7. Fine(f[half], half)
  <2> HIDE DEF S
  <2>1. \A k \in 0 .. half : k \in S
    BY <1>1, <1>5, <1>6, UpTo
  <2>2. half \in S
    BY <1>1, <2>1
  <2> QED
    BY <2>2 DEF S
<1> DEFINE new == strrev(m, s)
<1>8. new \in Memory /\ new = f[half]
  BY <1>1, <1>4 DEF Swapping
<1> HIDE DEF new
<1>9. ASSUME NEW a \in Addresses PROVE new[a] = IF a \in s .. s + l - 1 THEN m[final - a] ELSE m[a]
  <2>0. a \in Nat
    BY MemFacts
  <2>1. new[a] = IF a \in s .. s + (half - 1) \/ a \in (s + l) - half .. s + (l - 1) THEN m[final - a] ELSE m[a]
    BY <1>7, <1>8
  <2>2. CASE a \in s .. s + (half - 1) \/ a \in (s + l) - half .. s + (l - 1)
    <3>1. a \in s .. s + l - 1
      BY <1>1, <1>2, <2>0, <2>2
    <3> QED
      BY <2>1, <2>2, <3>1
  <2>3. CASE ~(a \in s .. s + (half - 1) \/ a \in (s + l) - half .. s + (l - 1))
    <3>1. a \in s .. s + l - 1 => final - a = a
      BY <1>1, <1>2, <2>0, <2>3
    <3> QED
      BY <2>1, <2>3, <3>1
  <2> QED
    BY <2>2, <2>3
<1> QED
  BY <1>8, <1>9 DEF new, Mirrored

\* strrev turns a string round.
LEMMA strrevIs ==
  ASSUME mem \in Memory, NEW s \in Addresses, HasEnd(mem, s)
  PROVE  strrev(mem, s) \in Memory /\ strrev(mem, s) = Reversed(s)
<1> DEFINE l == strlen(mem, s)
           b == [i \in 1 .. l |-> mem[s + l - i]]
           new == strrev(mem, s)
<1>1. IsLen(mem, s, l)
  BY strlenIs
<1>2. IsTuple(b, l) /\ Reversed(s) = Put(s, b)
  BY Zenon DEF IsTuple, Reversed
<1> HIDE DEF l
<1>3. l \in Nat /\ s \in Nat
  BY <1>1, MemFacts DEF IsLen
<1>4. Mirrored(new, mem, s, l)
  BY <1>1, <1>3, strrevMirrors
<1>5. ASSUME NEW a \in Addresses PROVE new[a] = IF a \in s .. s + l - 1 THEN b[(a - s) + 1] ELSE mem[a]
  <2>1. a \in Nat /\ new[a] = IF a \in s .. s + l - 1 THEN mem[((s + s) + (l - 1)) - a] ELSE mem[a]
    BY <1>4, MemFacts DEF Mirrored
  <2>2. CASE a \in s .. s + l - 1
    <3>1. (a - s) + 1 \in 1 .. l /\ s + l - ((a - s) + 1) = ((s + s) + (l - 1)) - a
      BY <1>3, <2>1, <2>2
    <3>2. b[(a - s) + 1] = mem[((s + s) + (l - 1)) - a]
      BY <3>1
    <3> QED
      BY <2>1, <2>2, <3>2
  <2> QED
    BY <2>1, <2>2
<1> HIDE DEF b, new
<1>6. Replaced(new, mem, s, l, b)
  BY <1>4, <1>5 DEF Mirrored, Replaced
<1>7. new = Put(s, b)
  BY <1>2, <1>3, <1>6, IsPutOf
<1> QED
  BY <1>2, <1>6, <1>7 DEF new, Replaced

\* Induction up to n, over a set, from all that is below.
LEMMA StrongUpTo ==
  ASSUME NEW n \in Nat, NEW S, \A k \in 0 .. n : (\A j \in 0 .. k - 1 : j \in S) => k \in S
  PROVE  \A k \in 0 .. n : k \in S
<1> DEFINE Bad == {k \in 0 .. n : k \notin S}
<1> SUFFICES ASSUME Bad # {} PROVE FALSE
  OBVIOUS
<1>1. PICK k \in Bad : \A i \in Bad : k <= i
  <2>1. Bad \in SUBSET Nat
    OBVIOUS
  <2> HIDE DEF Bad
  <2> QED
    BY <2>1, Least
<1>2. k \in 0 .. n /\ k \notin S
  OBVIOUS
<1>3. \A j \in 0 .. k - 1 : j \in 0 .. n /\ ~(k <= j)
  BY <1>2
<1>4. \A j \in 0 .. k - 1 : j \in S
  BY <1>1, <1>3
<1> QED
  BY <1>2, <1>4

\* A quotient is smaller than a number that has more than one digit.
LEMMA Quotient ==
  ASSUME NEW v \in Nat, NEW r \in 2 .. 36
  PROVE  v \div r \in Nat /\ v % r \in 0 .. r - 1 /\ (v >= r => v \div r < v) /\ (v < r => v % r = v)
<1>1. r \in Nat /\ r >= 2
  OBVIOUS
<1>2. v \div r \in Nat /\ v % r \in 0 .. r - 1 /\ v = r * (v \div r) + (v % r)
  BY <1>1
<1>3. \A q \in Nat, m \in 0 .. r - 1 : v = r * q + m /\ v >= r => q < v
  BY <1>1
<1>4. \A q \in Nat, m \in 0 .. r - 1 : v = r * q + m /\ v < r => m = v
  BY <1>1
<1> QED
  BY <1>2, <1>3, <1>4

\* ... and so among the numbers the recursion has come to.
LEMMA QuotientBelow ==
  ASSUME NEW i \in Nat, NEW v \in 0 .. i, NEW r \in 2 .. 36, ~(v < r)
  PROVE  v \div r \in 0 .. i - 1
<1> DEFINE q == v \div r
<1>1. q \in Nat /\ q < v
  BY Quotient
<1> HIDE DEF q
<1>2. q \in 0 .. i - 1
  BY <1>1
<1> QED
  BY <1>2 DEF q

\* What a recursion over quotients makes, number by number.
Quotients(f, n, r, B, G) ==
  f \in [0 .. n -> Seq(Byte)] /\ \A v \in 0 .. n : f[v] = IF v < r THEN B[v] ELSE G[<<v, f[v \div r]>>]

\* There is a function for every recursion over quotients.
LEMMA ByQuotient ==
  ASSUME NEW n \in Nat, NEW r \in 2 .. 36, NEW B \in [0 .. n -> Seq(Byte)],
         NEW G \in [(0 .. n) \X Seq(Byte) -> Seq(Byte)]
  PROVE  \E f : Quotients(f, n, r, B, G)
<1> DEFINE Fine(f, v) == f[v] = IF v < r THEN B[v] ELSE G[<<v, f[v \div r]>>]
           S == {i \in 0 .. n : \E f \in [0 .. i -> Seq(Byte)] : \A v \in 0 .. i : Fine(f, v)}
<1>1. 0 \in S
  <2> DEFINE f == [v \in 0 .. 0 |-> B[0]]
  <2>1. f \in [0 .. 0 -> Seq(Byte)] /\ 0 \in 0 .. n /\ \A v \in 0 .. 0 : Fine(f, v)
    OBVIOUS
  <2> QED
    BY <2>1
<1>2. ASSUME NEW i \in 1 .. n, i - 1 \in S PROVE i \in S
  <2>1. PICK f \in [0 .. i - 1 -> Seq(Byte)] : \A v \in 0 .. i - 1 : Fine(f, v)
    BY <1>2
  <2> DEFINE new == IF i < r THEN B[i] ELSE G[<<i, f[i \div r]>>]
             g == [v \in 0 .. i |-> IF v = i THEN new ELSE f[v]]
  <2>2. i \in 0 .. n /\ i \in Nat /\ \A v \in 0 .. i : v # i => v \in 0 .. i - 1
    OBVIOUS
  <2>3. \A v \in 0 .. i : ~(v < r) => v \div r \in 0 .. i - 1
    BY <2>2, QuotientBelow
  <2>4. \A v \in 0 .. i : ~(v < r) => v \div r \in 0 .. i - 1 /\ v \div r # i
    <3>1. \A q \in 0 .. i - 1 : q # i
      OBVIOUS
    <3> QED
      BY <2>3, <3>1, Zenon
  <2>5. new \in Seq(Byte)
    <3>1. CASE i < r
      BY <2>2, <3>1
    <3>2. CASE ~(i < r)
      <4>1. f[i \div r] \in Seq(Byte)
        <5>1. i \in 0 .. i
          OBVIOUS
        <5>2. i \div r \in 0 .. i - 1
          BY <2>4, <3>2, <5>1, Zenon
        <5> QED
          BY <5>2
      <4>2. <<i, f[i \div r]>> \in (0 .. n) \X Seq(Byte)
        BY <2>2, <4>1
      <4> QED
        BY <3>2, <4>2
    <3> QED
      BY <3>1, <3>2
  <2>6. g[i] = new /\ \A v \in 0 .. i : v # i => g[v] = f[v]
    OBVIOUS
  <2>7. g \in [0 .. i -> Seq(Byte)]
    <3> HIDE DEF new
    <3> QED
      BY <2>1, <2>2, <2>5
  <2> HIDE DEF g
  <2>8. ASSUME NEW v \in 0 .. i PROVE Fine(g, v)
    <3>1. ~(v < r) => g[v \div r] = f[v \div r]
      <4>1. v \div r \in 0 .. i - 1 => v \div r \in 0 .. i
        OBVIOUS
      <4> QED
        BY <2>4, <2>6, <4>1
    <3>2. CASE v = i
      BY <2>6, <3>1, <3>2, Zenon
    <3>3. CASE v # i
      <4>1. Fine(f, v) /\ g[v] = f[v]
        BY <2>1, <2>2, <2>6, <3>3
      <4> QED
        BY <3>1, <4>1, Zenon
    <3> QED
      BY <3>2, <3>3
  <2> QED
    BY <2>2, <2>7, <2>8
<1>3. n \in S
  <2> HIDE DEF S
  <2>1. \A k \in 0 .. n : k \in S
    BY <1>1, <1>2, UpTo
  <2> QED
    BY <2>1
<1>4. PICK f \in [0 .. n -> Seq(Byte)] : \A v \in 0 .. n : Fine(f, v)
  BY <1>3
<1>5. Quotients(f, n, r, B, G)
  BY <1>4 DEF Quotients
<1> QED
  BY <1>5

\* A byte is a sequence of one.
LEMMA OneByteSeq ==
  ASSUME NEW c \in Byte
  PROVE  <<c>> \in Seq(Byte)
OBVIOUS

\* A digit is a byte and not a NUL.
LEMMA lookupIs ==
  ASSUME NEW i \in 0 .. 35
  PROVE  lookup(i) \in 48 .. 90 /\ lookup(i) \in Byte
BY DEF lookup, Byte

\* The digits of every number up to n, the lowest in front.
IsPlaces(f, n, r) ==
  f = [v \in 0 .. n |-> <<lookup(v % r)>> \o (IF v < r THEN <<>> ELSE f[v \div r])]
\* ... and the highest in front.
IsDigits(f, n, r) ==
  f = [v \in 0 .. n |-> IF v < r THEN <<lookup(v)>> ELSE Append(f[v \div r], lookup(v % r))]

\* The digits of every number up to n exist, the lowest in front
LEMMA PlacesExist ==
  ASSUME NEW n \in Nat, NEW r \in 2 .. 36
  PROVE  \E f : IsPlaces(f, n, r)
<1> DEFINE B == [v \in 0 .. n |-> <<lookup(v % r)>>]
           G == [x \in (0 .. n) \X Seq(Byte) |-> <<lookup(x[1] % r)>> \o x[2]]
<1>1. \A v \in 0 .. n : lookup(v % r) \in Byte
  <2> SUFFICES ASSUME NEW v \in 0 .. n PROVE lookup(v % r) \in Byte
    OBVIOUS
  <2>1. v % r \in 0 .. 35
    BY Quotient
  <2> QED
    BY <2>1, lookupIs
<1>2. B \in [0 .. n -> Seq(Byte)]
  <2>1. \A v \in 0 .. n : <<lookup(v % r)>> \in Seq(Byte)
    BY <1>1, OneByteSeq, Zenon
  <2> QED
    BY <2>1, Zenon
<1>3. G \in [(0 .. n) \X Seq(Byte) -> Seq(Byte)]
  <2>1. \A x \in (0 .. n) \X Seq(Byte) : x[1] \in 0 .. n /\ x[2] \in Seq(Byte)
    OBVIOUS
  <2>2. \A x \in (0 .. n) \X Seq(Byte) : <<lookup(x[1] % r)>> \o x[2] \in Seq(Byte)
    <3> SUFFICES ASSUME NEW x \in (0 .. n) \X Seq(Byte) PROVE <<lookup(x[1] % r)>> \o x[2] \in Seq(Byte)
      OBVIOUS
    <3>1. <<lookup(x[1] % r)>> \in Seq(Byte)
      BY <1>1, <2>1
    <3> QED
      BY <2>1, <3>1, ConcatProperties
  <2> QED
    BY <2>2
<1> HIDE DEF B, G
<1>4. PICK f : Quotients(f, n, r, B, G)
  BY <1>2, <1>3, ByQuotient
<1>5. ASSUME NEW v \in 0 .. n PROVE f[v] = <<lookup(v % r)>> \o (IF v < r THEN <<>> ELSE f[v \div r])
  <2>1. f[v] = IF v < r THEN B[v] ELSE G[<<v, f[v \div r]>>]
    BY <1>4 DEF Quotients
  <2>2. CASE v < r
    <3>1. f[v] = <<lookup(v % r)>>
      BY <2>1, <2>2 DEF B
    <3>2. <<lookup(v % r)>> \in Seq(Byte)
      BY <1>1, OneByteSeq
    <3>3. <<lookup(v % r)>> \o <<>> = <<lookup(v % r)>>
      BY <3>2, ConcatEmptySeq
    <3> QED
      BY <2>2, <3>1, <3>3
  <2>3. CASE ~(v < r)
    <3>1. v \div r \in 0 .. n
      BY <2>3, Quotient
    <3>2. <<v, f[v \div r]>> \in (0 .. n) \X Seq(Byte)
      BY <1>4, <3>1 DEF Quotients
    <3>3. G[<<v, f[v \div r]>>] = <<lookup(v % r)>> \o f[v \div r]
      BY <3>2, Zenon DEF G
    <3> QED
      BY <2>1, <2>3, <3>3, Zenon
  <2> QED
    BY <2>2, <2>3
<1>6. IsPlaces([v \in 0 .. n |-> f[v]], n, r)
  <2>1. f = [v \in 0 .. n |-> f[v]]
    BY <1>4 DEF Quotients
  <2> QED
    BY <1>5, <2>1, Zenon DEF IsPlaces
<1> QED
  BY <1>6, Zenon

\* ... and the highest in front.
LEMMA DigitsExist ==
  ASSUME NEW n \in Nat, NEW r \in 2 .. 36
  PROVE  \E f : IsDigits(f, n, r)
<1> DEFINE B == [v \in 0 .. n |-> <<lookup(v % r)>>]
           G == [x \in (0 .. n) \X Seq(Byte) |-> Append(x[2], lookup(x[1] % r))]
<1>1. \A v \in 0 .. n : lookup(v % r) \in Byte /\ (v < r => v % r = v)
  <2> SUFFICES ASSUME NEW v \in 0 .. n PROVE lookup(v % r) \in Byte /\ (v < r => v % r = v)
    OBVIOUS
  <2>1. v % r \in 0 .. 35 /\ (v < r => v % r = v)
    BY Quotient
  <2> QED
    BY <2>1, lookupIs
<1>2. B \in [0 .. n -> Seq(Byte)]
  <2>1. \A v \in 0 .. n : <<lookup(v % r)>> \in Seq(Byte)
    BY <1>1, OneByteSeq, Zenon
  <2> QED
    BY <2>1, Zenon
<1>3. G \in [(0 .. n) \X Seq(Byte) -> Seq(Byte)]
  <2>1. \A x \in (0 .. n) \X Seq(Byte) : x[1] \in 0 .. n /\ x[2] \in Seq(Byte)
    OBVIOUS
  <2> QED
    BY <1>1, <2>1
<1> HIDE DEF B, G
<1>4. PICK f : Quotients(f, n, r, B, G)
  BY <1>2, <1>3, ByQuotient
<1>5. ASSUME NEW v \in 0 .. n
      PROVE  f[v] = IF v < r THEN <<lookup(v)>> ELSE Append(f[v \div r], lookup(v % r))
  <2>1. f[v] = IF v < r THEN B[v] ELSE G[<<v, f[v \div r]>>]
    BY <1>4 DEF Quotients
  <2>2. CASE v < r
    BY <1>1, <2>1, <2>2 DEF B
  <2>3. CASE ~(v < r)
    <3>1. v \div r \in 0 .. n
      BY <2>3, Quotient
    <3>2. <<v, f[v \div r]>> \in (0 .. n) \X Seq(Byte)
      BY <1>4, <3>1 DEF Quotients
    <3>3. G[<<v, f[v \div r]>>] = Append(f[v \div r], lookup(v % r))
      BY <3>2, Zenon DEF G
    <3> QED
      BY <2>1, <2>3, <3>3, Zenon
  <2> QED
    BY <2>2, <2>3
<1>6. IsDigits([v \in 0 .. n |-> f[v]], n, r)
  <2>1. f = [v \in 0 .. n |-> f[v]]
    BY <1>4 DEF Quotients
  <2> QED
    BY <1>5, <2>1, Zenon DEF IsDigits
<1> QED
  BY <1>6, Zenon

\* p read backwards is d, and none of it ends a string.
Backwards(p, d) ==
  /\ p \in Seq(Byte) /\ d \in Seq(Byte) /\ Len(d) = Len(p)
  /\ \A i \in 1 .. Len(p) : d[i] = p[(Len(p) + 1) - i] /\ p[i] # 0

\* One digit is the same backwards.
LEMMA BackwardsOne ==
  ASSUME NEW c \in Byte, c # 0
  PROVE  Backwards(<<c>>, <<c>>)
<1>1. <<c>> \in Seq(Byte) /\ Len(<<c>>) = 1 /\ <<c>>[1] = c
  OBVIOUS
<1>2. \A i \in 1 .. 1 : i = 1 /\ (1 + 1) - i = 1
  OBVIOUS
<1> QED
  BY <1>1, <1>2 DEF Backwards

\* What is put in front of a sequence moves the rest by one.
LEMMA InFront ==
  ASSUME NEW one \in Seq(Byte), Len(one) = 1, NEW p \in Seq(Byte)
  PROVE  /\ one \o p \in Seq(Byte) /\ Len(one \o p) = Len(p) + 1
         /\ (one \o p)[1] = one[1] /\ \A i \in 2 .. Len(p) + 1 : (one \o p)[i] = p[i - 1]
<1>1. Len(p) \in Nat
  OBVIOUS
<1>2. one \o p \in Seq(Byte) 
  BY ConcatProperties
<1>6. Len(one \o p) = Len(one) + Len(p)
  BY ConcatProperties
<1>3. \A i \in 1 .. Len(one) + Len(p) : (one \o p)[i] = IF i <= Len(one) THEN one[i] ELSE p[i - Len(one)]
  BY ConcatProperties
<1>4. Len(one \o p) = Len(p) + 1
  BY <1>1, <1>6
<1>5. \A i \in 1 .. Len(p) + 1 : (one \o p)[i] = IF i <= 1 THEN one[i] ELSE p[i - 1]
  <2>1. Len(one) + Len(p) = Len(p) + 1
    BY <1>1
  <2> QED
    BY <1>3, <2>1, Zenon
<1>7. (one \o p)[1] = one[1]
  <2>1. 1 \in 1 .. Len(p) + 1 /\ 1 <= 1
    BY <1>1
  <2> QED
    BY <1>5, <2>1, Zenon
<1>8. \A i \in 2 .. Len(p) + 1 : (one \o p)[i] = p[i - 1]
  <2>1. \A i \in 2 .. Len(p) + 1 : i \in 1 .. Len(p) + 1 /\ ~(i <= 1)
    BY <1>1
  <2> QED
    BY <1>5, <2>1, Zenon
<1> QED
  BY <1>2, <1>4, <1>7, <1>8

\* A digit in front of one is behind in the other.
LEMMA BackwardsMore ==
  ASSUME NEW c \in Byte, c # 0, NEW p, NEW d, Backwards(p, d)
  PROVE  Backwards(<<c>> \o p, Append(d, c))
<1> DEFINE one == <<c>>
           pp == one \o p
           dd == Append(d, c)
           n == Len(p)
<1>1. one \in Seq(Byte) /\ Len(one) = 1 /\ one[1] = c
  OBVIOUS
<1>2. p \in Seq(Byte) /\ d \in Seq(Byte) /\ n \in Nat /\ Len(d) = n
  BY DEF Backwards
<1> HIDE DEF one, n
<1>3. pp \in Seq(Byte) /\ Len(pp) = n + 1
  BY <1>1, <1>2, InFront DEF n
<1>4. pp[1] = c /\ \A i \in 2 .. n + 1 : pp[i] = p[i - 1]
  BY <1>1, <1>2, InFront DEF n
<1>5. dd \in Seq(Byte) /\ Len(dd) = n + 1 /\ dd[n + 1] = c /\ \A i \in 1 .. n : dd[i] = d[i]
  BY <1>2, AppendProperties
<1>6. \A i \in 1 .. n : d[i] = p[(n + 1) - i] /\ p[i] # 0
  BY DEF Backwards, n
<1> HIDE DEF pp, dd
<1>7. ASSUME NEW i \in 1 .. n + 1 PROVE dd[i] = pp[((n + 1) + 1) - i] /\ pp[i] # 0
  <2>1. pp[i] # 0
    <3>1. CASE i = 1
      BY <1>4, <3>1
    <3>2. CASE i # 1
      <4>1. i \in 2 .. n + 1 /\ i - 1 \in 1 .. n
        BY <1>2, <3>2
      <4> QED
        BY <1>4, <1>6, <4>1
    <3> QED
      BY <3>1, <3>2
  <2>2. CASE i = n + 1
    <3>1. ((n + 1) + 1) - i = 1
      BY <1>2, <2>2
    <3> QED
      BY <1>4, <1>5, <2>1, <2>2, <3>1
  <2>3. CASE i # n + 1
    <3>1. i \in 1 .. n /\ ((n + 1) + 1) - i \in 2 .. n + 1 /\ (((n + 1) + 1) - i) - 1 = (n + 1) - i
      BY <1>2, <2>3
    <3> QED
      BY <1>4, <1>5, <1>6, <2>1, <3>1
  <2> QED
    BY <2>2, <2>3
<1>8. Backwards(pp, dd)
  BY <1>3, <1>5, <1>7 DEF Backwards
<1> QED
  BY <1>8 DEF pp, dd, one

\* The digits from the lowest on are the number's, read backwards.
LEMMA PlacesReversed ==
  ASSUME NEW n \in Nat, NEW r \in 2 .. 36
  PROVE  Backwards(Places(n, r), Digits(n, r))
<1> DEFINE f == CHOOSE f : IsPlaces(f, n, r)
           g == CHOOSE g : IsDigits(g, n, r)
<1>1. IsPlaces(f, n, r) /\ IsDigits(g, n, r)
  BY PlacesExist, DigitsExist, Zenon
<1>2. Places(n, r) = f[n]
  BY Zenon DEF Places, IsPlaces
<1>3. Digits(n, r) = g[n]
  BY Zenon DEF Digits, IsDigits
<1> HIDE DEF f, g
<1> DEFINE S == {v \in 0 .. n : Backwards(f[v], g[v])}
<1>4. ASSUME NEW v \in 0 .. n, \A j \in 0 .. v - 1 : j \in S PROVE v \in S
  <2> DEFINE c == lookup(v % r)
             q == v \div r
  <2>1. f[v] = <<c>> \o (IF v < r THEN <<>> ELSE f[q])
    BY <1>1, Zenon DEF IsPlaces
  <2>2. g[v] = IF v < r THEN <<lookup(v)>> ELSE Append(g[q], c)
    BY <1>1, Zenon DEF IsDigits
  <2>3. c \in Byte /\ c # 0
    <3>1. v % r \in 0 .. 35
      BY Quotient
    <3>2. c \in 48 .. 90 /\ c \in Byte
      BY <3>1, lookupIs
    <3> HIDE DEF c
    <3> QED
      BY <3>2
  <2>4. v < r => c = lookup(v)
    BY Quotient
  <2>5. ~(v < r) => q \in 0 .. v - 1
    BY QuotientBelow
  <2> HIDE DEF c, q
  <2>6. CASE v < r
    <3>1. <<c>> \o <<>> = <<c>>
      BY <2>3, OneByteSeq, ConcatEmptySeq
    <3>2. f[v] = <<c>> /\ g[v] = <<c>>
      BY <2>1, <2>2, <2>4, <2>6, <3>1
    <3> QED
      BY <2>3, <3>2, BackwardsOne
  <2>7. CASE ~(v < r)
    <3>1. Backwards(f[q], g[q])
      BY <1>4, <2>5, <2>7
    <3>2. f[v] = <<c>> \o f[q] /\ g[v] = Append(g[q], c)
      BY <2>1, <2>2, <2>7
    <3> QED
      BY <2>3, <3>1, <3>2, BackwardsMore
  <2> QED
    BY <2>6, <2>7
<1>5. \A v \in 0 .. n : v \in S
  <2> HIDE DEF S
  <2> QED
    BY <1>4, StrongUpTo
<1>6. Backwards(f[n], g[n])
  BY <1>5
<1> QED
  BY <1>2, <1>3, <1>6

\* itoa writes the number in its radix.
LEMMA itoaIs ==
  ASSUME mem \in Memory, NEW value \in Nat, NEW buf \in Addresses, NEW radix \in 2 .. 36,
         Fits(buf, Len(Places(value, radix)) + 1)
  PROVE  itoa(mem, value, buf, radix) \in Memory /\ itoa(mem, value, buf, radix) = Written(value, buf, radix)
<1> DEFINE p   == Places(value, radix)
           d   == Digits(value, radix)
           n   == Len(p)
           raw == Append(p, 0)
           b   == Append(d, 0)
           m1  == [a \in Addresses |-> IF a \in buf .. buf + Len(raw) - 1 THEN raw[a - buf + 1] ELSE mem[a]]
           new == strrev(m1, buf)
<1>1. itoa(mem, value, buf, radix) = new
  BY Zenon DEF itoa
<1>2. Written(value, buf, radix) = Put(buf, b)
  BY Zenon DEF Written
<1>3. Backwards(p, d)
  BY PlacesReversed
<1> HIDE DEF p, d
<1>4. n \in Nat /\ p \in Seq(Byte) /\ d \in Seq(Byte) /\ Len(d) = n /\ 0 \in Byte
  BY <1>3 DEF Backwards, Byte
<1>5. raw \in Seq(Byte) /\ Len(raw) = n + 1 /\ raw[n + 1] = 0 /\ \A i \in 1 .. n : raw[i] = p[i]
  BY <1>4, AppendProperties
<1>6. b \in Seq(Byte) /\ Len(b) = n + 1 /\ b[n + 1] = 0 /\ \A i \in 1 .. n : b[i] = d[i]
  BY <1>4, AppendProperties
<1>7. \A i \in 1 .. n : d[i] = p[(n + 1) - i] /\ p[i] # 0
  BY <1>3 DEF Backwards
<1>8. buf \in Nat /\ MemSize \in Nat /\ buf + (n + 1) <= MemSize
  BY MemFacts DEF Fits, p
<1>9. \A a \in Addresses : m1[a] = IF a \in buf .. buf + n THEN raw[(a - buf) + 1] ELSE mem[a]
  <2> SUFFICES ASSUME NEW a \in Addresses PROVE m1[a] = IF a \in buf .. buf + n THEN raw[(a - buf) + 1] ELSE mem[a]
    OBVIOUS
  <2>1. a \in Nat /\ a - buf + 1 = (a - buf) + 1 /\ buf + Len(raw) - 1 = buf + n
    BY <1>4, <1>5, <1>8, MemFacts
  <2>2. m1[a] = IF a \in buf .. buf + Len(raw) - 1 THEN raw[a - buf + 1] ELSE mem[a]
    BY Zenon
  <2> QED
    BY <2>1, <2>2
<1>10. m1 = [a \in Addresses |-> m1[a]]
  BY Zenon
<1> HIDE DEF n, raw, b, m1, new
<1>0. n \in Nat /\ buf \in Nat /\ MemSize \in Nat /\ buf + (n + 1) <= MemSize
  BY <1>4, <1>8
<1>11. m1 \in Memory
  <2>1. \A a \in Addresses : a \in buf .. buf + n => (a - buf) + 1 \in 1 .. n + 1
    BY <1>0, MemFacts
  <2>2. \A i \in 1 .. n + 1 : raw[i] \in Byte
    BY <1>5
  <2>3. \A a \in Addresses : m1[a] \in Byte
    BY <1>9, <2>1, <2>2 DEF Memory
  <2> QED
    BY <1>10, <2>3 DEF Memory
<1>12. IsLen(m1, buf, n)
  <2>1. buf + n \in Addresses /\ m1[buf + n] = 0
    <3>1. buf + n \in Nat /\ buf + n < MemSize /\ buf + n \in buf .. buf + n /\ ((buf + n) - buf) + 1 = n + 1
      BY <1>0
    <3>2. buf + n \in Addresses
      BY <3>1, MemFacts
    <3> QED
      BY <1>5, <1>9, <3>1, <3>2
  <2>2. ASSUME NEW j \in 0 .. n - 1 PROVE m1[buf + j] # 0
    <3>1. /\ buf + j \in Addresses /\ buf + j \in buf .. buf + n /\ ((buf + j) - buf) + 1 = j + 1
          /\ j + 1 \in 1 .. n
      BY <1>0, MemFacts
    <3> QED
      BY <1>5, <1>7, <1>9, <3>1
  <2> QED
    BY <1>4, <2>1, <2>2 DEF IsLen
<1>13. Mirrored(new, m1, buf, n)
  BY <1>4, <1>11, <1>12, strrevMirrors DEF new
<1>14. ASSUME NEW a \in Addresses PROVE new[a] = IF a \in buf .. buf + (n + 1) - 1 THEN b[(a - buf) + 1] ELSE mem[a]
  <2> DEFINE e == ((buf + buf) + (n - 1)) - a
  <2>0. a \in Nat
    BY MemFacts
  <2>1. a \in Nat /\ new[a] = IF a \in buf .. buf + n - 1 THEN m1[e] ELSE m1[a]
    BY <1>13, MemFacts DEF Mirrored
  <2>2. CASE a \in buf .. buf + n - 1
    <3>1. /\ e \in Nat /\ e < MemSize /\ e \in buf .. buf + n /\ (e - buf) + 1 = (n + 1) - ((a - buf) + 1)
          /\ (e - buf) + 1 \in 1 .. n /\ (a - buf) + 1 \in 1 .. n /\ a \in buf .. buf + (n + 1) - 1
      BY <1>0, <2>0, <2>2
    <3>2. e \in Addresses
      BY <3>1, MemFacts
    <3>3. m1[e] = raw[(e - buf) + 1]
      BY <1>9, <3>1, <3>2
    <3>4. raw[(e - buf) + 1] = p[(n + 1) - ((a - buf) + 1)]
      BY <1>5, <3>1
    <3>5. b[(a - buf) + 1] = p[(n + 1) - ((a - buf) + 1)]
      BY <1>6, <1>7, <3>1
    <3> QED
      BY <2>1, <2>2, <3>1, <3>3, <3>4, <3>5
  <2>3. CASE a = buf + n
    <3>1. /\ a \notin buf .. buf + n - 1 /\ a \in buf .. buf + n /\ (a - buf) + 1 = n + 1
          /\ a \in buf .. buf + (n + 1) - 1
      BY <1>0, <2>3
    <3> QED
      BY <1>5, <1>6, <1>9, <2>1, <3>1
  <2>4. CASE a \notin buf .. buf + n - 1 /\ a # buf + n
    <3>1. a \notin buf .. buf + n /\ a \notin buf .. buf + (n + 1) - 1
      BY <1>0, <2>1, <2>4
    <3> QED
      BY <1>9, <2>1, <2>4, <3>1
  <2> QED
    BY <2>2, <2>3, <2>4
<1>15. Replaced(new, mem, buf, n + 1, b)
  BY <1>13, <1>14 DEF Mirrored, Replaced
<1>16. IsTuple(b, n + 1)
  BY <1>6 DEF IsTuple
<1>17. new = Put(buf, b)
  <2>1. n + 1 \in Nat
    BY <1>4
  <2> QED
    BY <1>8, <1>15, <1>16, <2>1, IsPutOf
<1> QED
  BY <1>1, <1>2, <1>15, <1>17 DEF Replaced

\* The less of two numbers
LEMMA LesserIs ==
  ASSUME NEW x \in Nat, NEW y \in Nat
  PROVE  Min({x, y}) = IF x <= y THEN x ELSE y
<1>1. CASE x <= y
  BY <1>1, Minimum
<1>2. CASE y < x
  BY <1>2, Minimum
<1> QED
  BY <1>1, <1>2

\* ... and the greater.
LEMMA GreaterIs ==
  ASSUME NEW x \in Nat, NEW y \in Nat
  PROVE  Max({x, y}) = IF x <= y THEN y ELSE x
<1>1. \E z \in {x, y} : \A w \in {x, y} : z >= w
  OBVIOUS
<1>2. Max({x, y}) \in {x, y} /\ \A w \in {x, y} : Max({x, y}) >= w
  BY <1>1, Zenon DEF Max
<1> QED
  BY <1>2

\* What a string is, as a sequence, up to n.
IsTextOf(t, s, n, l) ==
  LET len == IF n <= l THEN n ELSE l
  IN IsTuple(t, len) /\ Len(t) = len /\ \A i \in 1 .. len : t[i] = mem[s + (i - 1)]

\* The text of a string is its bytes up to n or its NUL.
LEMMA TextIs ==
  ASSUME NEW s \in Addresses, HasEnd(mem, s), NEW n \in Nat, NEW l, l = strlen(mem, s)
  PROVE  IsTextOf(Text(s, n), s, n, l)
<1> DEFINE len == Min({n, l})
           t == [i \in 1 .. len |-> mem[s + i - 1]]
<1>1. l \in Nat /\ s \in Nat
  BY strlenIs, MemFacts DEF IsLen
<1>2. len = IF n <= l THEN n ELSE l
  BY <1>1, LesserIs
<1>3. Text(s, n) = t
  BY Zenon DEF Text
<1> HIDE DEF len
<1>4. len \in Nat
  BY <1>1, <1>2
<1>5. IsTuple(t, len) /\ Len(t) = len
  <2>1. t = [i \in 1 .. len |-> t[i]]
    BY Zenon
  <2> HIDE DEF t
  <2> QED
    BY <1>4, <2>1, LenProperties DEF IsTuple
<1>6. \A i \in 1 .. len : t[i] = mem[s + (i - 1)]
  BY <1>1, <1>4
<1> HIDE DEF t
<1> QED
  BY <1>2, <1>3, <1>5, <1>6 DEF IsTextOf

\* The strings at s1 and s2 differ at i, or end there.
Stop(s1, s2, i) == mem[s1 + i] # mem[s2 + i] \/ mem[s1 + i] = 0

\* Up to k there is no difference and no end.
Going(s1, s2, k) == \A i \in 0 .. k - 1 : ~Stop(s1, s2, i)

\* Where a comparison still goes on neither string is over.
LEMMA GoingLens ==
  ASSUME NEW s1 \in Addresses, NEW s2 \in Addresses, NEW l1, NEW l2, IsLen(mem, s1, l1), IsLen(mem, s2, l2),
         NEW k \in Nat, Going(s1, s2, k)
  PROVE  k <= l1 /\ k <= l2
<1>1. \A i \in 0 .. k - 1 : mem[s1 + i] # 0 /\ mem[s2 + i] # 0
  BY DEF Going, Stop
<1>2. l1 \in Nat /\ mem[s1 + l1] = 0 /\ l2 \in Nat /\ mem[s2 + l2] = 0
  BY DEF IsLen
<1>3. l1 < k => l1 \in 0 .. k - 1
  BY <1>2
<1>4. l2 < k => l2 \in 0 .. k - 1
  BY <1>2
<1> QED
  BY <1>1, <1>2, <1>3, <1>4

\* Two texts are the same when they are equally long and the same in every place.
LEMMA SameTexts ==
  ASSUME NEW t1, NEW t2, NEW len \in Nat, IsTuple(t1, len), IsTuple(t2, len), \A i \in 1 .. len : t1[i] = t2[i]
  PROVE  t1 = t2
BY Zenon DEF IsTuple

\* A comparison that never stops has seen the same texts.
LEMMA NoStop ==
  ASSUME NEW s1 \in Addresses, NEW s2 \in Addresses, HasEnd(mem, s1), HasEnd(mem, s2),
         NEW n \in Nat, Going(s1, s2, n)
  PROVE  Text(s1, n) = Text(s2, n)
<1> DEFINE l1 == strlen(mem, s1)
           l2 == strlen(mem, s2)
           t1 == Text(s1, n)
           t2 == Text(s2, n)
<1>1. IsLen(mem, s1, l1) /\ IsLen(mem, s2, l2) /\ IsTextOf(t1, s1, n, l1) /\ IsTextOf(t2, s2, n, l2)
  BY strlenIs, TextIs
<1> HIDE DEF l1, l2, t1, t2
<1>2. n <= l1 /\ n <= l2
  BY <1>1, GoingLens
<1>3. IsTuple(t1, n) /\ IsTuple(t2, n)
  BY <1>1, <1>2 DEF IsTextOf
<1>4. \A i \in 1 .. n : t1[i] = mem[s1 + (i - 1)] /\ t2[i] = mem[s2 + (i - 1)]
  BY <1>1, <1>2 DEF IsTextOf
<1>5. \A i \in 1 .. n : i - 1 \in 0 .. n - 1
  OBVIOUS
<1>6. \A i \in 1 .. n : t1[i] = t2[i]
  BY <1>4, <1>5 DEF Going, Stop
<1>7. t1 = t2
  BY <1>3, <1>6, SameTexts
<1> QED
  BY <1>7 DEF t1, t2

\* Where it stops, the difference of the bytes decides.
LEMMA StopDecides ==
  ASSUME mem \in Memory, NEW s1 \in Addresses, NEW s2 \in Addresses, HasEnd(mem, s1), HasEnd(mem, s2),
         NEW n \in Nat, NEW k \in 0 .. n - 1, Going(s1, s2, k), Stop(s1, s2, k)
  PROVE  mem[s1 + k] = mem[s2 + k] <=> Text(s1, n) = Text(s2, n)
<1> DEFINE l1 == strlen(mem, s1)
           l2 == strlen(mem, s2)
           t1 == Text(s1, n)
           t2 == Text(s2, n)
<1>1. IsLen(mem, s1, l1) /\ IsLen(mem, s2, l2) /\ IsTextOf(t1, s1, n, l1) /\ IsTextOf(t2, s2, n, l2)
  BY strlenIs, TextIs
<1> HIDE DEF l1, l2, t1, t2
<1>2. k \in Nat /\ k < n /\ l1 \in Nat /\ l2 \in Nat
  BY <1>1 DEF IsLen
<1>3. k <= l1 /\ k <= l2
  BY <1>1, <1>2, GoingLens
<1>4. (k < l1 <=> mem[s1 + k] # 0) /\ (k < l2 <=> mem[s2 + k] # 0)
  <2>1. (k < l1 => k \in 0 .. l1 - 1) /\ (k < l2 => k \in 0 .. l2 - 1) /\ (k < l1 \/ k = l1) /\ (k < l2 \/ k = l2)
    BY <1>2, <1>3
  <2> QED
    BY <1>1, <1>2, <2>1 DEF IsLen
<1>5. ASSUME mem[s1 + k] = mem[s2 + k] PROVE t1 = t2
  <2>1. mem[s1 + k] = 0 /\ mem[s2 + k] = 0
    BY <1>5 DEF Stop
  <2>2. l1 = k /\ l2 = k
    BY <1>2, <1>3, <1>4, <2>1
  <2>3. IsTuple(t1, k) /\ IsTuple(t2, k) /\ \A i \in 1 .. k : t1[i] = mem[s1 + (i - 1)] /\ t2[i] = mem[s2 + (i - 1)]
    BY <1>1, <1>2, <2>2 DEF IsTextOf
  <2>4. \A i \in 1 .. k : i - 1 \in 0 .. k - 1
    BY <1>2
  <2>5. \A i \in 1 .. k : t1[i] = t2[i]
    BY <2>3, <2>4 DEF Going, Stop
  <2> QED
    BY <1>2, <2>3, <2>5, SameTexts
<1>6. ASSUME mem[s1 + k] # mem[s2 + k], t1 = t2 PROVE FALSE
  <2>1. Len(t1) = (IF n <= l1 THEN n ELSE l1) /\ Len(t2) = (IF n <= l2 THEN n ELSE l2)
    BY <1>1 DEF IsTextOf
  <2>2. Len(t1) = Len(t2)
    BY <1>6
  <2>3. k < l1 /\ k < l2
    BY <1>2, <1>3, <1>4, <1>6, <2>1, <2>2
  <2>4. k + 1 \in 1 .. (IF n <= l1 THEN n ELSE l1) /\ k + 1 \in 1 .. (IF n <= l2 THEN n ELSE l2) /\ (k + 1) - 1 = k
    BY <1>2, <2>3
  <2>5. t1[k + 1] = mem[s1 + k] /\ t2[k + 1] = mem[s2 + k]
    BY <1>1, <2>4 DEF IsTextOf
  <2> QED
    BY <1>6, <2>5
<1>7. mem[s1 + k] = mem[s2 + k] <=> t1 = t2
  BY <1>5, <1>6
<1> QED
  BY <1>7 DEF t1, t2

\* The difference that a comparison returns for a place.
Diff(s1, s2, i) == mem[s1 + i] - mem[s2 + i]

\* Bytes have a difference of 0 when they are the same.
LEMMA DiffIs ==
  ASSUME mem \in Memory, NEW s1 \in Addresses, NEW s2 \in Addresses, NEW i \in Nat,
         s1 + i < MemSize, s2 + i < MemSize
  PROVE  Diff(s1, s2, i) = 0 <=> mem[s1 + i] = mem[s2 + i]
<1>1. s1 + i \in Addresses /\ s2 + i \in Addresses
  BY MemFacts
<1>2. mem[s1 + i] \in Nat /\ mem[s2 + i] \in Nat
  BY <1>1, MemFacts DEF Memory
<1> QED
  BY <1>2 DEF Diff

\* Where the loop of a comparison stops first.
LEMMA FirstStop ==
  ASSUME NEW s1, NEW s2, NEW n \in Nat, NEW S, S = {i \in 0 .. n - 1 : Stop(s1, s2, i)}, S # {}
  PROVE  Min(S) \in 0 .. n - 1 /\ Going(s1, s2, Min(S)) /\ Stop(s1, s2, Min(S))
<1>1. S \in SUBSET Nat
  OBVIOUS
<1>2. PICK k \in S : \A i \in S : k <= i
  BY <1>1, Least
<1>3. Min(S) = k
  BY <1>1, <1>2, Minimum
<1>4. k \in 0 .. n - 1 /\ Stop(s1, s2, k)
  OBVIOUS
<1>5. Going(s1, s2, k)
  <2> SUFFICES ASSUME NEW i \in 0 .. k - 1, Stop(s1, s2, i) PROVE FALSE
    BY DEF Going
  <2>1. i \in 0 .. n - 1 /\ ~(k <= i)
    BY <1>4
  <2>2. i \in S
    BY <2>1
  <2> QED
    BY <1>2, <2>1, <2>2
<1> QED
  BY <1>3, <1>4, <1>5

\* strncmp finds equal what is equal up to n, and so does the programs' own.
LEMMA strncmpIs ==
  ASSUME mem \in Memory, NEW s1 \in Addresses, NEW s2 \in Addresses, HasEnd(mem, s1), HasEnd(mem, s2),
         NEW n \in Nat, s1 + n <= MemSize, s2 + n <= MemSize
  PROVE  /\ strncmp(mem, s1, s2, n) = 0 <=> Text(s1, n) = Text(s2, n)
         /\ ece391_strncmp(mem, s1, s2, n) = strncmp(mem, s1, s2, n)
<1> DEFINE S == {i \in 0 .. n - 1 : Stop(s1, s2, i)}
           S2 == {i \in 0 .. n - 1 : Stop(s1, s2, i) \/ i = n - 1}
           r1 == strncmp(mem, s1, s2, n)
           r2 == ece391_strncmp(mem, s1, s2, n)
           same == Text(s1, n) = Text(s2, n)
<1>1. r1 = IF S = {} THEN 0 ELSE Diff(s1, s2, Min(S))
  BY Zenon DEF strncmp, Stop, Diff
<1>2. r2 = IF n = 0 THEN 0 ELSE Diff(s1, s2, Min(S2))
  <2>1. S2 = {i \in 0 .. n - 1 : mem[s1 + i] # mem[s2 + i] \/ mem[s1 + i] = 0 \/ i = n - 1}
    BY Zenon DEF Stop
  <2> HIDE DEF S2
  <2> QED
    BY <2>1, Zenon DEF ece391_strncmp, Diff
<1>3. s1 \in Nat /\ s2 \in Nat /\ MemSize \in Nat
  BY MemFacts
<1>4. CASE S = {}
  <2>1. Going(s1, s2, n)
    BY <1>4, Zenon DEF Going
  <2>2. same
    BY <2>1, NoStop
  <2>3. n # 0 => Min(S2) = n - 1 /\ n - 1 \in Nat
    <3> SUFFICES ASSUME n # 0 PROVE Min(S2) = n - 1 /\ n - 1 \in Nat
      OBVIOUS
    <3>1. n - 1 \in S2 /\ n - 1 \in 0 .. n - 1 /\ S2 \in SUBSET Nat
      OBVIOUS
    <3>2. \A i \in S2 : n - 1 <= i
      BY <1>4
    <3> HIDE DEF S2
    <3> QED
      BY <3>1, <3>2, Minimum
  <2>4. n # 0 => Diff(s1, s2, n - 1) = 0
    <3> SUFFICES ASSUME n # 0 PROVE Diff(s1, s2, n - 1) = 0
      OBVIOUS
    <3>1. n - 1 \in 0 .. n - 1 /\ n - 1 \in Nat /\ s1 + (n - 1) < MemSize /\ s2 + (n - 1) < MemSize
      BY <1>3
    <3>2. mem[s1 + (n - 1)] = mem[s2 + (n - 1)]
      BY <2>1, <3>1 DEF Going, Stop
    <3> QED
      BY <3>1, <3>2, DiffIs
  <2> HIDE DEF r1, r2, S, S2, same
  <2>5. r1 = 0 /\ r2 = 0
    BY <1>1, <1>2, <1>4, <2>3, <2>4
  <2>6. (r1 = 0 <=> same) /\ r2 = r1
    BY <2>2, <2>5
  <2> QED
    BY <2>6 DEF r1, r2, same
<1>5. CASE S # {}
  <2> DEFINE k == Min(S)
  <2>1. k \in 0 .. n - 1 /\ Going(s1, s2, k) /\ Stop(s1, s2, k)
    <3>1. S = {i \in 0 .. n - 1 : Stop(s1, s2, i)}
      OBVIOUS
    <3> HIDE DEF S
    <3> QED
      BY <1>5, <3>1, FirstStop
  <2>2. r1 = Diff(s1, s2, k)
    BY <1>1, <1>5, Zenon
  <2> HIDE DEF r1, r2, S, k, same
  <2>3. k \in Nat /\ s1 + k < MemSize /\ s2 + k < MemSize /\ n # 0
    BY <1>3, <2>1
  <2>4. Min(S2) = k
    <3>1. k \in S2 /\ S2 \in SUBSET Nat
      BY <2>1
    <3>2. ASSUME NEW i \in S2 PROVE k <= i
      <4>1. i \in 0 .. n - 1 /\ (Stop(s1, s2, i) \/ i = n - 1)
        OBVIOUS
      <4>2. i < k => i \in 0 .. k - 1
        BY <2>1, <4>1
      <4>3. ~(i < k)
        BY <2>1, <4>1, <4>2 DEF Going
      <4> QED
        BY <2>1, <4>1, <4>3
    <3> HIDE DEF S2
    <3> QED
      BY <3>1, <3>2, Minimum
  <2>5. r2 = r1
    BY <1>2, <2>2, <2>3, <2>4, Zenon
  <2>6. Diff(s1, s2, k) = 0 <=> mem[s1 + k] = mem[s2 + k]
    BY <2>3, DiffIs
  <2>7. mem[s1 + k] = mem[s2 + k] <=> same
    BY <2>1, StopDecides DEF same
  <2>8. (r1 = 0 <=> same) /\ r2 = r1
    BY <2>2, <2>5, <2>6, <2>7
  <2> QED
    BY <2>8 DEF r1, r2, same
<1> QED
  BY <1>4, <1>5

\* strcmp finds equal what is equal.
LEMMA strcmpIs ==
  ASSUME mem \in Memory, NEW s1 \in Addresses, NEW s2 \in Addresses, HasEnd(mem, s1), HasEnd(mem, s2)
  PROVE  ece391_strcmp(mem, s1, s2) = 0 <=> Text(s1, MemSize) = Text(s2, MemSize)
<1> DEFINE room == MemSize - Max({s1, s2})
           S == {i \in 0 .. room - 1 : Stop(s1, s2, i)}
           k == Min(S)
           same == Text(s1, MemSize) = Text(s2, MemSize)
           l1 == strlen(mem, s1)
           l2 == strlen(mem, s2)
<1>1. s1 \in Nat /\ s2 \in Nat /\ MemSize \in Nat /\ s1 < MemSize /\ s2 < MemSize
  BY MemFacts
<1>2. Max({s1, s2}) = IF s1 <= s2 THEN s2 ELSE s1
  BY <1>1, GreaterIs
<1>3. ece391_strcmp(mem, s1, s2) = Diff(s1, s2, k)
  <2>1. MemSize - 1 - Max({s1, s2}) = room - 1
    BY <1>1, <1>2
  <2>2. S = {i \in 0 .. MemSize - 1 - Max({s1, s2}) : mem[s1 + i] # mem[s2 + i] \/ mem[s1 + i] = 0}
    BY <2>1, Zenon DEF Stop
  <2> HIDE DEF S
  <2> QED
    BY <2>2, Zenon DEF ece391_strcmp, Diff
<1>4. room \in Nat /\ room <= MemSize /\ \A i \in 0 .. room - 1 : s1 + i < MemSize /\ s2 + i < MemSize
  BY <1>1, <1>2
<1>5. IsLen(mem, s1, l1) /\ IsLen(mem, s2, l2)
  BY strlenIs
<1> HIDE DEF l1, l2
<1>6. S # {}
  <2>1. CASE s1 <= s2
    <3>1. l2 \in 0 .. room - 1
      BY <1>1, <1>2, <1>5, <2>1, MemFacts DEF IsLen
    <3>2. Stop(s1, s2, l2)
      BY <1>5 DEF Stop, IsLen
    <3> QED
      BY <3>1, <3>2
  <2>2. CASE s2 < s1
    <3>1. l1 \in 0 .. room - 1
      BY <1>1, <1>2, <1>5, <2>2, MemFacts DEF IsLen
    <3>2. Stop(s1, s2, l1)
      BY <1>5 DEF Stop, IsLen
    <3> QED
      BY <3>1, <3>2
  <2> QED
    BY <1>1, <2>1, <2>2
<1>7. k \in 0 .. room - 1 /\ Going(s1, s2, k) /\ Stop(s1, s2, k)
  <2>1. S = {i \in 0 .. room - 1 : Stop(s1, s2, i)}
    OBVIOUS
  <2> HIDE DEF S, room
  <2> QED
    BY <1>4, <1>6, <2>1, FirstStop
<1> HIDE DEF S, k, room, same
<1>8. k \in Nat /\ k \in 0 .. MemSize - 1 /\ s1 + k < MemSize /\ s2 + k < MemSize
  BY <1>1, <1>4, <1>7
<1>9. Diff(s1, s2, k) = 0 <=> mem[s1 + k] = mem[s2 + k]
  BY <1>8, DiffIs
<1>10. mem[s1 + k] = mem[s2 + k] <=> same
  BY <1>1, <1>7, <1>8, StopDecides DEF same
<1>11. ece391_strcmp(mem, s1, s2) = 0 <=> same
  BY <1>3, <1>9, <1>10
<1> QED
  BY <1>11 DEF same

\* The comparisons of the two libraries tell strings apart.
LEMMA EqualHolds ==
  ASSUME mem \in Memory
  PROVE  EqualWhenSame
<1> SUFFICES ASSUME NEW s1 \in Addresses, NEW s2 \in Addresses, HasEnd(mem, s1), HasEnd(mem, s2)
             PROVE  /\ ece391_strcmp(mem, s1, s2) = 0 <=> Text(s1, MemSize) = Text(s2, MemSize)
                    /\ \A n \in 0 .. Min({MemSize - s1, MemSize - s2}) :
                         /\ strncmp(mem, s1, s2, n) = 0 <=> Text(s1, n) = Text(s2, n)
                         /\ ece391_strncmp(mem, s1, s2, n) = strncmp(mem, s1, s2, n)
  BY Zenon DEF EqualWhenSame
<1> DEFINE most == Min({MemSize - s1, MemSize - s2})
<1>1. most \in Nat /\ s1 + most <= MemSize /\ s2 + most <= MemSize
  <2>1. MemSize - s1 \in Nat /\ MemSize - s2 \in Nat
    BY MemFacts
  <2>2. most = IF MemSize - s1 <= MemSize - s2 THEN MemSize - s1 ELSE MemSize - s2
    BY <2>1, LesserIs
  <2> HIDE DEF most
  <2> QED
    BY <2>1, <2>2, MemFacts
<1> HIDE DEF most
<1>2. ASSUME NEW n \in 0 .. most
      PROVE  /\ strncmp(mem, s1, s2, n) = 0 <=> Text(s1, n) = Text(s2, n)
             /\ ece391_strncmp(mem, s1, s2, n) = strncmp(mem, s1, s2, n)
  <2>1. n \in Nat /\ s1 + n <= MemSize /\ s2 + n <= MemSize
    BY <1>1, MemFacts
  <2> QED
    BY <2>1, strncmpIs
<1>3. ece391_strcmp(mem, s1, s2) = 0 <=> Text(s1, MemSize) = Text(s2, MemSize)
  BY strcmpIs
<1> QED
  BY <1>2, <1>3 DEF most

-----------------------------------------------------------------------------
\* No call has been made yet.
LEMMA StrInvInit == StrInit => StrInv
BY StringsAssumption DEF StrInit, StrInv, Memory

\* A call of memset or its kin keeps its promise
LEMMA SetMemoryKeeps ==
  ASSUME StrInv, SetMemory
  PROVE  StrInv'
<1>1. PICK s \in Addresses, n \in 0 .. MemSize, c \in Fills :
        \/ Fits(s, n) /\ Call(memset(s, c, n), Fill(s, <<c>>, n))
        \/ Fits(s, 2 * n) /\ Call(memset_word(s, c, n), Fill(s, <<c, 0>>, n))
        \/ Fits(s, 4 * n) /\ Call(memset_dword(s, c, n), Fill(s, <<c, 0, 0, 0>>, n))
  BY Zenon DEF SetMemory
<1>2. n \in Nat /\ c \in Byte /\ mem \in Memory
  BY StringsAssumption DEF StrInv
<1>3. CASE Call(memset(s, c, n), Fill(s, <<c>>, n))
  BY <1>2, <1>3, memsetIs DEF Call, StrInv
<1>4. CASE Call(memset_word(s, c, n), Fill(s, <<c, 0>>, n))
  BY <1>2, <1>4, memset_wordIs DEF Call, StrInv
<1>5. CASE Call(memset_dword(s, c, n), Fill(s, <<c, 0, 0, 0>>, n))
  BY <1>2, <1>5, memset_wordIs DEF Call, StrInv
<1> QED
  BY <1>1, <1>3, <1>4, <1>5

\* ... of memcpy and memmove
LEMMA MoveMemoryKeeps ==
  ASSUME StrInv, MoveMemory
  PROVE  StrInv'
<1>1. PICK dest \in Addresses, src \in Addresses, n \in 0 .. MemSize :
        /\ Fits(dest, n) /\ Fits(src, n)
        /\ \/ Apart(dest, src, n) /\ Call(memcpy(dest, src, n), Moved(dest, src, n))
           \/ Call(memmove(dest, src, n), Moved(dest, src, n))
  BY Zenon DEF MoveMemory
<1>2. n \in Nat /\ mem \in Memory
  BY DEF StrInv
<1>3. CASE Apart(dest, src, n) /\ Call(memcpy(dest, src, n), Moved(dest, src, n))
  BY <1>1, <1>2, <1>3, memcpyIs DEF Call, StrInv
<1>4. CASE Call(memmove(dest, src, n), Moved(dest, src, n))
  BY <1>1, <1>2, <1>4, memmoveIs DEF Call, StrInv
<1> QED
  BY <1>1, <1>3, <1>4

\* ... of the string functions
LEMMA CopyStringKeeps ==
  ASSUME StrInv, CopyString
  PROVE  StrInv'
<1>1. PICK dest \in Addresses, src \in Addresses :
        /\ HasEnd(mem, src)
        /\ LET size == strlen(mem, src) + 1 IN
           \/ /\ Fits(dest, size) /\ (dest <= src \/ Apart(dest, src, size))
              /\ Call(Returns(strcpy(mem, dest, src)), Moved(dest, src, size))
           \/ \E n \in 0 .. MemSize :
                /\ Fits(dest, n) /\ Apart(dest, src, Max({n, size}))
                /\ Call(Returns(strncpy(mem, dest, src, n)), Copied(dest, src, n))
  BY Zenon DEF CopyString
<1> DEFINE size == strlen(mem, src) + 1
<1>2. mem \in Memory
  BY DEF StrInv
<1>3. CASE /\ Fits(dest, size) /\ (dest <= src \/ Apart(dest, src, size))
           /\ Call(Returns(strcpy(mem, dest, src)), Moved(dest, src, size))
  <2>1. strcpy(mem, dest, src) \in Memory /\ strcpy(mem, dest, src) = Moved(dest, src, size)
    <3>1. size = strlen(mem, src) + 1
      OBVIOUS
    <3> HIDE DEF size
    <3> QED
      BY <1>1, <1>2, <1>3, <3>1, strcpyIs
  <2> QED
    BY <1>3, <2>1 DEF Call, Returns, StrInv
<1>4. ASSUME NEW n \in 0 .. MemSize, Call(Returns(strncpy(mem, dest, src, n)), Copied(dest, src, n))
      PROVE  StrInv'
  <2>1. strncpy(mem, dest, src, n) \in Memory /\ strncpy(mem, dest, src, n) = Copied(dest, src, n)
    BY <1>1, <1>2, strncpyIs
  <2> QED
    BY <1>4, <2>1 DEF Call, Returns, StrInv
<1> QED
  BY <1>1, <1>3, <1>4

\* ... and of itoa.
LEMMA WriteNumberKeeps ==
  ASSUME StrInv, WriteNumber
  PROVE  StrInv'
<1>1. PICK buf \in Addresses :
        \/ \E value \in Values, radix \in Radixes :
             /\ Fits(buf, Len(Places(value, radix)) + 1)
             /\ Call(Returns(itoa(mem, value, buf, radix)), Written(value, buf, radix))
        \/ HasEnd(mem, buf) /\ Call(Returns(strrev(mem, buf)), Reversed(buf))
  BY Zenon DEF WriteNumber
<1>2. mem \in Memory
  BY DEF StrInv
<1>3. ASSUME NEW value \in Values, NEW radix \in Radixes, Fits(buf, Len(Places(value, radix)) + 1),
             Call(Returns(itoa(mem, value, buf, radix)), Written(value, buf, radix))
      PROVE  StrInv'
  <2>1. value \in Nat /\ radix \in 2 .. 36
    BY StringsAssumption
  <2>2. itoa(mem, value, buf, radix) \in Memory /\ itoa(mem, value, buf, radix) = Written(value, buf, radix)
    BY <1>2, <1>3, <2>1, itoaIs
  <2> QED
    BY <1>3, <2>2 DEF Call, Returns, StrInv
<1>4. CASE HasEnd(mem, buf) /\ Call(Returns(strrev(mem, buf)), Reversed(buf))
  BY <1>2, <1>4, strrevIs DEF Call, Returns, StrInv
<1> QED
  BY <1>1, <1>3, <1>4

\* So every call does.
LEMMA StrInvKeeps == StrInv /\ [StrNext]_strVars => StrInv'
<1>1. StrInv /\ UNCHANGED strVars => StrInv'
  BY DEF StrInv, strVars
<1>2. StrInv /\ StrNext => StrInv'
  BY SetMemoryKeeps, MoveMemoryKeeps, CopyStringKeeps, WriteNumberKeeps, Zenon DEF StrNext
<1> QED
  BY <1>1, <1>2

\* Whatever calls come one after the other, with whatever arguments the comments of
\* lib.c allow, each leaves in memory what its comment promises and nothing else - at
\* every alignment, length and overlap, and although memmove leaves the direction flag
\* set - and the comparisons find two strings equal exactly when they are.
THEOREM CallsKeepPromiseHolds == StrSpec => []CallsKeepPromise
<1>1. StrInv => CallsKeepPromise
  BY EqualHolds DEF StrInv, CallsKeepPromise
<1> QED
  BY <1>1, StrInvInit, StrInvKeeps, PTL DEF StrSpec

-----------------------------------------------------------------------------
(* malloc and free *)

\* The tracker marks exactly the allocations that are held, which lie one behind
\* the other; if the word behind the tracker is not 0 they end within the heap.
HeapInv ==
  /\ memory_block_tracker \in [Blocks -> Nat]
  /\ behind \in Behind
  /\ \A a \in held : /\ a = [at |-> a.at, num |-> a.num]
                     /\ a.at \in Blocks /\ a.num \in Nat \ {0}
                     /\ memory_block_tracker[a.at] = a.num
                     /\ behind # 0 => a.at + a.num <= BLOCK_NUM
  /\ \A i \in Blocks : memory_block_tracker[i] # 0 => \E a \in held : a.at = i
  /\ \A a, b \in held : a.at < b.at => a.at + a.num <= b.at
-----------------------------------------------------------------------------
\* The blocks are numbered from 0.
LEMMA BlockFacts ==
  /\ BLOCK_NUM \in Nat /\ 0 \in Blocks /\ Blocks \subseteq Nat
  /\ \A i : i \in Blocks <=> i \in Nat /\ i < BLOCK_NUM
BY HeapAssumption DEF Blocks

\* A size needs so many blocks.
LEMMA NumFacts == ASSUME NEW size \in Nat PROVE Num(size) \in Nat
BY HeapAssumption DEF Num

\* Is i looked at, when so are the blocks v of those before it?
Reached(v, i, num) == i = 0 \/ \E j \in 0 .. i - 1 : v[j] /\ ~IsFree(j, num) /\ i = j + Step(j)

\* v tells of each block whether the search looks at it.
IsVisited(v, m, num) == v = [i \in 0 .. m |-> Reached(v, i, num)]

\* The search is defined block by block, from those before.
LEMMA VisitedExists ==
  ASSUME NEW num, NEW m \in Nat
  PROVE  \E v : IsVisited(v, m, num)
<1> DEFINE Bad == {i \in Nat : ~\E v : IsVisited(v, i, num)}
<1> SUFFICES ASSUME Bad # {} PROVE FALSE
  OBVIOUS
<1>1. PICK k \in Bad : \A i \in Bad : k <= i
  <2>1. Bad \in SUBSET Nat
    OBVIOUS
  <2> HIDE DEF Bad
  <2> QED
    BY <2>1, Least
<1>2. CASE k = 0
  <2> DEFINE v == [i \in 0 .. 0 |-> TRUE]
  <2>1. \A i \in 0 .. 0 : Reached(v, i, num) = TRUE
    <3>1. Reached(v, 0, num) = TRUE
      BY Zenon DEF Reached
    <3> QED
      BY <3>1
  <2>2. IsVisited(v, 0, num)
    BY <2>1 DEF IsVisited
  <2> QED
    BY <1>2, <2>2
<1>3. CASE k # 0
  <2>1. k - 1 \in Nat /\ k \in Nat \ {0}
    BY <1>3
  <2>2. PICK f : IsVisited(f, k - 1, num)
    BY <1>1, <2>1
  <2>3. \A n \in 0 .. k - 1 : f[n] = Reached(f, n, num)
    BY <2>1, <2>2, Zenon DEF IsVisited
  <2> DEFINE g == [n \in 0 .. k |-> IF n = k THEN Reached(f, k, num) ELSE f[n]]
  <2>4. \A n \in 0 .. k : g[n] = Reached(g, n, num)
    <3> SUFFICES ASSUME NEW n \in 0 .. k PROVE g[n] = Reached(g, n, num)
      OBVIOUS
    <3>1. \A j \in 0 .. n - 1 : g[j] = f[j]
      BY <2>1
    <3> HIDE DEF g
    <3>2. Reached(g, n, num) = Reached(f, n, num)
      BY <3>1 DEF Reached
    <3>3. n = k \/ n \in 0 .. k - 1
      BY <2>1
    <3> QED
      BY <2>3, <3>2, <3>3 DEF g
  <2>5. g = [n \in 0 .. k |-> g[n]]
    OBVIOUS
  <2>6. IsVisited(g, k, num)
    <3> HIDE DEF g
    <3> QED
      BY <2>4, <2>5 DEF IsVisited
  <2> QED
    BY <2>6
<1> QED
  BY <1>2, <1>3

\* The search begins at block 0 and goes on from each block that is not free.
LEMMA SearchedIs ==
  ASSUME NEW num
  PROVE  /\ Searched(num) \subseteq Blocks
         /\ \A i \in Blocks :
              i \in Searched(num) <=>
                i = 0 \/ \E j \in Searched(num) : j < i /\ ~IsFree(j, num) /\ i = j + Step(j)
<1> DEFINE v == CHOOSE v : IsVisited(v, BLOCK_NUM - 1, num)
<1>0. BLOCK_NUM - 1 \in Nat
  BY HeapAssumption
<1>1. Searched(num) = {i \in Blocks : v[i]}
  BY DEF Searched, IsVisited, Reached, Blocks
<1>2. IsVisited(v, BLOCK_NUM - 1, num)
  BY <1>0, VisitedExists
<1> HIDE DEF v
<1>3. \A i \in Blocks : v[i] = Reached(v, i, num)
  BY <1>2, Zenon DEF IsVisited, Blocks
<1>4. \A i \in Blocks : \A j : j \in Blocks /\ j < i <=> j \in 0 .. i - 1
  BY <1>0 DEF Blocks
<1>5. ASSUME NEW i \in Blocks
      PROVE  v[i] <=> i = 0 \/ \E j \in Searched(num) : j < i /\ ~IsFree(j, num) /\ i = j + Step(j)
  BY <1>1, <1>3, <1>4 DEF Reached
<1> QED
  BY <1>1, <1>5

\* What the tracker says of a block that is looked at.
LEMMA StepFacts ==
  ASSUME HeapInv, NEW j \in Blocks
  PROVE  \/ memory_block_tracker[j] = 0 /\ Tracker(j) = 0 /\ Step(j) = 1
         \/ \E a \in held : a.at = j /\ Tracker(j) = a.num /\ Step(j) = a.num /\ a.num > 0
BY DEF HeapInv, Tracker, Step

\* The search never stops inside an allocation.
LEMMA NeverInside ==
  ASSUME HeapInv, NEW num, NEW i \in Searched(num), NEW a \in held
  PROVE  ~(a.at < i /\ i < a.at + a.num)
<1> DEFINE Inside(k) == \E b \in held : b.at < k /\ k < b.at + b.num
           Bad == {k \in Searched(num) : Inside(k)}
<1> SUFFICES ASSUME Bad # {} PROVE FALSE
  OBVIOUS
<1>0. /\ Searched(num) \subseteq Blocks /\ Blocks \subseteq Nat
      /\ \A b \in held : b.at \in Nat /\ b.num \in Nat \ {0} /\ b.at \in Blocks
                         /\ memory_block_tracker[b.at] = b.num
  BY SearchedIs, BlockFacts DEF HeapInv
<1>1. PICK k \in Bad : \A l \in Bad : k <= l
  <2>1. Bad \in SUBSET Nat
    BY <1>0
  <2> HIDE DEF Bad
  <2> QED
    BY <2>1, Least
<1>2. PICK b \in held : b.at < k /\ k < b.at + b.num
  BY <1>1
<1>3. k # 0 /\ k \in Searched(num) /\ k \in Blocks
  BY <1>0, <1>2
<1>4. PICK j \in Searched(num) : j < k /\ k = j + Step(j)
  BY <1>3, SearchedIs
<1>5. j \in Blocks /\ j \in Nat /\ k \in Nat
  BY <1>0, <1>3
<1>6. ~Inside(j)
  BY <1>1, <1>4, <1>5
<1>7. CASE memory_block_tracker[j] = 0 /\ Step(j) = 1
  <2>1. b.at # j /\ k = j + 1
    BY <1>0, <1>4, <1>7
  <2>2. b.at < j /\ j < b.at + b.num
    BY <1>0, <1>2, <1>5, <2>1
  <2> QED
    BY <1>6, <2>2
<1>8. ASSUME NEW c \in held, c.at = j, Step(j) = c.num PROVE FALSE
  <2>1. k = c.at + c.num
    BY <1>4, <1>8
  <2>2. c.at < b.at => c.at + c.num <= b.at
    BY DEF HeapInv
  <2>3. b.at < c.at => b.at + b.num <= c.at
    BY DEF HeapInv
  <2>4. b.at = c.at => b.num = c.num
    BY <1>0
  <2> QED
    BY <1>0, <1>2, <1>5, <2>1, <2>2, <2>3, <2>4
<1> QED
  BY <1>5, <1>7, <1>8, StepFacts

\* Where malloc allocates: a block the search came to, with room behind it.
LEMMA FoundFacts ==
  ASSUME HeapInv, NEW num \in Nat, Found(num) # {}
  PROVE  /\ Min(Found(num)) \in Blocks /\ Min(Found(num)) \in Searched(num)
         /\ \A j \in Run(Min(Found(num)), num) : Tracker(j) = 0
<1>1. Found(num) \in SUBSET Nat
  BY SearchedIs, BlockFacts DEF Found
<1>2. \E k \in Found(num) : \A i \in Found(num) : k <= i
  BY <1>1, Least
<1>3. Min(Found(num)) \in Found(num)
  BY <1>2 DEF Min
<1> QED
  BY <1>3, SearchedIs DEF Found, IsFree
-----------------------------------------------------------------------------
\* At first nothing is held.
LEMMA InitHeap == HeapInit => HeapInv
BY DEF HeapInit, HeapInv

\* An allocation is marked where it begins and overlaps no other.
LEMMA MallocHeap ==
  ASSUME 0 \notin Behind \/ \A size \in Sizes : Num(size) < 2 ^ 16,
         HeapInv, NEW size \in Sizes, malloc(size)
  PROVE  HeapInv'
<1> DEFINE num == Num(size)
           start  == Min(Found(num))
<1>1. num \in Nat /\ behind' = behind
  BY NumFacts, HeapAssumption DEF malloc
<1>2. CASE UNCHANGED <<memory_block_tracker, held>>
  BY <1>1, <1>2 DEF HeapInv, Blocks
<1>3. CASE /\ Found(num) # {}
           /\ memory_block_tracker' = [memory_block_tracker EXCEPT ![start] = num % 2 ^ 16]
           /\ held' = IF num = 0 THEN held ELSE held \cup {[at |-> start, num |-> num]}
  <2>1. /\ start \in Blocks /\ start \in Nat
        /\ \A j \in Run(start, num) : Tracker(j) = 0
        /\ \A a \in held : ~(a.at < start /\ start < a.at + a.num)
    BY <1>1, <1>3, FoundFacts, NeverInside, BlockFacts
  <2> HIDE DEF start
  <2>2. memory_block_tracker[start] = 0
    <3>1. Tracker(start) = 0
      BY <2>1 DEF Run
    <3> QED
      BY <2>1, <3>1 DEF Tracker
  <2>3. CASE num = 0
    <3>1. memory_block_tracker' = memory_block_tracker /\ held' = held
      <4>1. num % 2 ^ 16 = 0
        BY <2>3
      <4> QED
        BY <1>3, <2>1, <2>2, <2>3, <4>1 DEF HeapInv
    <3> QED
      BY <1>1, <3>1 DEF HeapInv, Blocks
  <2>4. CASE num # 0
    <3> DEFINE new == [at |-> start, num |-> num]
    <3>1. \A j \in start .. start + num - 1 : Tracker(j) = 0
      BY <2>1 DEF Run, Extent
    <3> HIDE DEF num
    <3>2. behind # 0 => start + num <= BLOCK_NUM
      <4> SUFFICES ASSUME behind # 0, start + num > BLOCK_NUM PROVE FALSE
        BY <1>1, <2>1, BlockFacts
      <4>1. BLOCK_NUM \in start .. start + num - 1 /\ BLOCK_NUM \notin Blocks
        BY <1>1, <2>1, BlockFacts
      <4> QED
        BY <3>1, <4>1 DEF Tracker
    <3>3. num < 2 ^ 16
      <4>1. CASE behind # 0
        BY <1>1, <2>1, <3>2, <4>1, HeapAssumption
      <4>2. CASE behind = 0
        <5>1. 0 \in Behind
          BY <4>2 DEF HeapInv
        <5> QED
          BY <5>1 DEF num
      <4> QED
        BY <4>1, <4>2
    <3>4. num % 2 ^ 16 = num
      BY <1>1, <3>3
    <3>5. /\ memory_block_tracker' \in [Blocks -> Nat]
          /\ memory_block_tracker'[start] = num
          /\ \A i \in Blocks \ {start} : memory_block_tracker'[i] = memory_block_tracker[i]
      BY <1>1, <1>3, <2>1, <3>4 DEF HeapInv
    <3>6. held' = held \cup {new} /\ new.at = start /\ new.num = num
      BY <1>3, <2>4
    <3>7. \A a \in held : /\ a.at \in Blocks /\ a.at \in Nat /\ a.num \in Nat \ {0}
                          /\ a.at # start /\ memory_block_tracker[a.at] = a.num
      BY <2>2, BlockFacts DEF HeapInv
    <3>8. \A a \in held : a.at < start => a.at + a.num <= start
      BY <2>1, <3>7
    <3>9. \A a \in held : start < a.at => start + num <= a.at
      <4> SUFFICES ASSUME NEW a \in held, start < a.at, start + num > a.at PROVE FALSE
        BY <1>1, <2>1, <3>7
      <4>1. a.at \in start .. start + num - 1
        BY <1>1, <2>1, <3>7
      <4>2. Tracker(a.at) = a.num
        BY <3>7 DEF Tracker
      <4> QED
        BY <3>1, <3>7, <4>1, <4>2
    <3> HIDE DEF new
    <3>10. \A a \in held' : /\ a = [at |-> a.at, num |-> a.num]
                            /\ a.at \in Blocks /\ a.num \in Nat \ {0}
                            /\ memory_block_tracker'[a.at] = a.num
                            /\ behind' # 0 => a.at + a.num <= BLOCK_NUM
      <4>1. new = [at |-> new.at, num |-> new.num]
        BY DEF new
      <4> QED
        BY <1>1, <2>1, <2>4, <3>2, <3>5, <3>6, <3>7, <4>1 DEF HeapInv
    <3>11. \A i \in Blocks : memory_block_tracker'[i] # 0 => \E a \in held' : a.at = i
      BY <3>5, <3>6 DEF HeapInv
    <3>12. \A a, b \in held' : a.at < b.at => a.at + a.num <= b.at
      BY <1>1, <2>1, <3>6, <3>7, <3>8, <3>9 DEF HeapInv
    <3> QED
      BY <1>1, <3>5, <3>10, <3>11, <3>12 DEF HeapInv, Blocks
  <2> QED
    BY <2>3, <2>4
<1> QED
  BY <1>2, <1>3 DEF malloc

\* free unmarks what is given back and nothing else.
LEMMA FreeHeap == ASSUME HeapInv, NEW block \in held, free(block) PROVE HeapInv'
<1>1. /\ memory_block_tracker' = [memory_block_tracker EXCEPT ![block.at] = 0]
      /\ held' = held \ {block} /\ behind' = behind
  BY DEF free
<1>2. \A a \in held : a # block => a.at # block.at
  BY DEF HeapInv
<1>3. /\ memory_block_tracker' \in [Blocks -> Nat]
      /\ memory_block_tracker'[block.at] = 0
      /\ \A i \in Blocks \ {block.at} : memory_block_tracker'[i] = memory_block_tracker[i]
  BY <1>1 DEF HeapInv
<1>4. \A a \in held' : memory_block_tracker'[a.at] = memory_block_tracker[a.at]
  BY <1>1, <1>2, <1>3 DEF HeapInv
<1> QED
  BY <1>1, <1>3, <1>4 DEF HeapInv, Blocks

\* Every call keeps the tracker.
LEMMA StepHeap ==
  ASSUME 0 \notin Behind \/ \A size \in Sizes : Num(size) < 2 ^ 16,
         HeapInv, [HeapNext]_heapVars
  PROVE  HeapInv'
<1>1. CASE UNCHANGED heapVars
  BY <1>1 DEF HeapInv, heapVars, Blocks
<1> QED
  BY <1>1, MallocHeap, FreeHeap DEF HeapNext

\* A search that fails has passed over no gap: of what it looked at last before
\* one, an allocation would have to reach into the gap.
LEMMA NoGapPassed ==
  ASSUME HeapInv, NEW num \in Nat, Found(num) = {},
         NEW start \in Blocks, Run(start, num) \subseteq Blocks
  PROVE  Run(start, num) \cap InUse # {}
<1>1. /\ Searched(num) \subseteq Nat /\ Searched(num) \subseteq Blocks /\ 0 \in Searched(num)
      /\ start \in Nat /\ start \in Run(start, num)
  BY SearchedIs, BlockFacts DEF Run
<1>2. \A a \in held : \A i \in Nat : a.at <= i /\ i < a.at + a.num => i \in InUse
  BY BlockFacts DEF HeapInv, InUse, Extent
<1>3. PICK j \in Searched(num) : j <= start /\ \A i \in Searched(num) : i <= start => i <= j
  <2> DEFINE D == {d \in Nat : \E i \in Searched(num) : i <= start /\ d = start - i}
  <2>1. D \in SUBSET Nat /\ D # {}
    <3>1. start - 0 \in D
      BY <1>1
    <3> QED
      BY <3>1
  <2>2. PICK d \in D : \A e \in D : d <= e
    <3> HIDE DEF D
    <3> QED
      BY <2>1, Least
  <2>3. PICK j \in Searched(num) : j <= start /\ d = start - j
    OBVIOUS
  <2>4. ASSUME NEW i \in Searched(num), i <= start PROVE i <= j
    <3>1. start - i \in D
      BY <1>1, <2>4
    <3>2. d <= start - i
      BY <2>2, <3>1
    <3> QED
      BY <1>1, <2>3, <3>2
  <2> QED
    BY <2>3, <2>4
<1>4. j \in Blocks /\ j \in Nat /\ ~IsFree(j, num)
  BY <1>1 DEF Found
<1>5. Step(j) \in Nat /\ Step(j) > 0
  BY <1>4, StepFacts DEF HeapInv
<1>6. j + Step(j) > start
  <2> SUFFICES ASSUME j + Step(j) <= start PROVE FALSE
    BY <1>1, <1>4, <1>5
  <2>1. j + Step(j) \in Blocks /\ j < j + Step(j)
    BY <1>1, <1>4, <1>5, BlockFacts
  <2>2. j + Step(j) \in Searched(num)
    BY <1>4, <2>1, SearchedIs
  <2> QED
    BY <1>3, <1>4, <1>5, <2>2
<1>7. CASE Step(j) = 1 /\ memory_block_tracker[j] = 0
  <2>1. j = start
    BY <1>1, <1>3, <1>4, <1>6, <1>7
  <2>2. PICK k \in Run(start, num) : Tracker(k) # 0
    BY <1>4, <2>1 DEF IsFree
  <2>3. k \in Blocks /\ memory_block_tracker[k] # 0
    BY <2>2 DEF Tracker
  <2>4. PICK a \in held : a.at = k
    BY <2>3 DEF HeapInv
  <2>5. k \in InUse
    BY <1>2, <2>3, <2>4, BlockFacts DEF HeapInv
  <2> QED
    BY <2>2, <2>5
<1>8. ASSUME NEW a \in held, a.at = j, Step(j) = a.num PROVE start \in InUse
  BY <1>1, <1>2, <1>3, <1>6, <1>8
<1> QED
  BY <1>1, <1>4, <1>7, <1>8, StepFacts
-----------------------------------------------------------------------------
\* The tracker is always right.
LEMMA HeapInvariant ==
  ASSUME 0 \notin Behind \/ \A size \in Sizes : Num(size) < 2 ^ 16
  PROVE  HeapSpec => []HeapInv
<1>1. HeapInv /\ [HeapNext]_heapVars => HeapInv'
  BY StepHeap
<1> QED
  BY <1>1, InitHeap, PTL DEF HeapSpec

\* No block is given to two clients, for any size of the heap and any requests,
\* unless the memory behind the tracker is 0 and somebody asks for as many
\* blocks as its 16 bits cannot hold.
THEOREM OwnBlocksHolds ==
  ASSUME 0 \notin Behind \/ \A size \in Sizes : Num(size) < 2 ^ 16
  PROVE  HeapSpec => []OwnBlocks
<1>1. ASSUME HeapInv PROVE OwnBlocks
  <2>1. \A a \in held : /\ a.at \in Nat /\ a.num \in Nat \ {0}
                        /\ behind # 0 => a.at + a.num <= BLOCK_NUM
    BY <1>1, BlockFacts DEF HeapInv
  <2>2. ASSUME NEW a \in held, NEW b \in held, a # b
        PROVE  Extent(a.at, a.num) \cap Extent(b.at, b.num) = {}
    <3>1. a.at # b.at
      BY <1>1, <2>2 DEF HeapInv
    <3>2. a.at + a.num <= b.at \/ b.at + b.num <= a.at
      BY <1>1, <2>1, <3>1 DEF HeapInv
    <3> QED
      BY <2>1, <3>2 DEF Extent
  <2>3. ASSUME behind # 0, NEW a \in held PROVE Extent(a.at, a.num) \subseteq Blocks
    BY <2>1, <2>3, BlockFacts DEF Extent
  <2> QED
    BY <2>2, <2>3 DEF OwnBlocks
<1> QED
  BY <1>1, HeapInvariant, PTL

\* malloc fails only when there is no room, however the heap is fragmented.
THEOREM FailsOnlyWhenFullHolds ==
  ASSUME 0 \notin Behind \/ \A size \in Sizes : Num(size) < 2 ^ 16
  PROVE  HeapSpec => FailsOnlyWhenFull
<1> DEFINE Full ==
      \A size \in Sizes : malloc(size) /\ returned' = Null =>
        \A start \in Blocks : Run(start, Num(size)) \subseteq Blocks => Run(start, Num(size)) \cap InUse # {}
<1>1. ASSUME HeapInv PROVE Full
  <2> SUFFICES ASSUME NEW size \in Sizes, malloc(size), returned' = Null,
                      NEW start \in Blocks, Run(start, Num(size)) \subseteq Blocks
               PROVE  Run(start, Num(size)) \cap InUse # {}
    OBVIOUS
  <2>1. Num(size) \in Nat
    BY NumFacts, HeapAssumption
  <2>2. Found(Num(size)) = {}
    <3> SUFFICES ASSUME Found(Num(size)) # {} PROVE FALSE
      OBVIOUS
    <3>1. returned' = Min(Found(Num(size)))
      BY DEF malloc
    <3>2. Min(Found(Num(size))) \in Nat
      BY <1>1, <2>1, FoundFacts, BlockFacts
    <3> QED
      BY <3>1, <3>2 DEF Null
  <2> QED
    BY <1>1, <2>1, <2>2, NoGapPassed
<1>2. HeapSpec => [][Full]_heapVars
  BY <1>1, HeapInvariant, PTL DEF HeapSpec
<1> QED
  BY <1>2, PTL DEF FailsOnlyWhenFull

-----------------------------------------------------------------------------
(* grep: places in whole buffers, the lines of a text, the invariant of the search. *)

\* k characters are so many full buffers.
Whole(k) == k % BUFSIZE = 0

\* What div and mod are.
LEMMA Divides ==
  ASSUME NEW b \in Nat \ {0}, NEW k \in Nat
  PROVE  /\ k \div b \in Nat /\ k % b \in 0 .. b - 1 /\ k = b * (k \div b) + (k % b)
  OBVIOUS

\* Between two multiples of b lies b.
LEMMA Multiples ==
  ASSUME NEW b \in Nat \ {0}, NEW q \in Nat, NEW p \in Nat, b * q < b * p
  PROVE  b * q + b <= b * p
<1>1. q < p
  <2> SUFFICES ASSUME p <= q PROVE FALSE
    OBVIOUS
  <2>1. q - p \in Nat /\ b * (q - p) \in Nat /\ b * q = b * p + b * (q - p)
    OBVIOUS
  <2> QED
    BY <2>1
<1>2. p - q - 1 \in Nat /\ b * (p - q - 1) \in Nat /\ b * p = b * q + b + b * (p - q - 1)
  BY <1>1
<1> QED
  BY <1>2

\* After a place at a whole number of buffers the next is a buffer further.
LEMMA WholeStep ==
  ASSUME NEW k \in Nat, Whole(k)
  PROVE  Whole(k + BUFSIZE) /\ Whole(0) /\ \A j \in Nat : Whole(j) /\ k < j => k + BUFSIZE <= j
<1> DEFINE b == BUFSIZE
<1>1. b \in Nat \ {0}
  BY GrepAssumption
<1> HIDE DEF b
<1>2. k = b * (k \div b) /\ k \div b \in Nat
  BY <1>1, Divides DEF Whole, b
<1>3. ASSUME NEW j \in Nat, j % b = 0, k < j PROVE k + b <= j
  <2> DEFINE p == j \div b
             m == j % b
  <2>0. p \in Nat /\ m \in 0 .. b - 1 /\ j = b * p + m
    BY <1>1, Divides
  <2>9. m = 0
    BY <1>3
  <2> HIDE DEF p, m
  <2>8. b * p \in Nat
    BY <1>1, <2>0
  <2>1. j = b * p /\ p \in Nat
    BY <2>0, <2>9, <2>8
  <2> QED
    BY <1>1, <1>2, <1>3, <2>1, Multiples
<1>4. 0 % b = 0
  BY <1>1
<1>5. (k + b) % b = 0
  <2> DEFINE q == k \div b
             t == k + b
  <2>1. t \in Nat /\ t = b * q + b /\ q \in Nat
    BY <1>1, <1>2
  <2> HIDE DEF q, t
  <2>2. t \div b \in Nat /\ t % b \in 0 .. b - 1 /\ t = b * (t \div b) + (t % b)
    BY <2>1, <1>1, Divides
  <2> DEFINE p == t \div b
             m == t % b
  <2>3. p \in Nat /\ m \in 0 .. b - 1 /\ b * q + b = b * p + m
    BY <2>1, <2>2
  <2> HIDE DEF p, m
  <2>4. b * (q + 1) = b * q + b /\ q + 1 \in Nat /\ b * p \in Nat /\ b * q \in Nat
    BY <1>1, <2>1, <2>3
  <2>5. b * p < b * (q + 1) => b * p + b <= b * (q + 1)
    BY <2>3, <2>4, <1>1, Multiples
  <2>7. m = 0
    BY <2>3, <2>4, <2>5, <1>1
  <2> QED
    BY <2>7 DEF m, t
<1> QED
  BY <1>3, <1>4, <1>5 DEF Whole, b

\* e is where the line that i is in ends: at its newline, or behind all.
EndsAt(text, i, to, e) ==
  /\ e \in i .. to + 1
  /\ e <= to => text[e] = Newline
  /\ \A j \in i .. e - 1 : text[j] # Newline

\* LineEnd finds the end of a line
LEMMA LineEndIs ==
  ASSUME NEW text, NEW to \in Nat, NEW i \in 1 .. to + 1
  PROVE  EndsAt(text, i, to, LineEnd(text, i, to))
<1> DEFINE S == {to + 1} \cup {j \in i .. to : text[j] = Newline}
<1>1. S \in SUBSET Nat /\ S # {} /\ S \subseteq i .. to + 1
  OBVIOUS
<1>2. \A j \in S : j <= to => text[j] = Newline
  OBVIOUS
<1>3. \A j \in i .. to : text[j] = Newline => j \in S
  OBVIOUS
<1>4. LineEnd(text, i, to) = Min(S)
  BY DEF LineEnd
<1> HIDE DEF S
<1>5. PICK e \in S : \A j \in S : e <= j
  BY <1>1, Least
<1>6. LineEnd(text, i, to) = e
  BY <1>1, <1>4, <1>5, Minimum
<1>7. \A j \in i .. e - 1 : j \in i .. to /\ ~(e <= j)
  BY <1>1
<1>8. EndsAt(text, i, to, e)
  BY <1>1, <1>2, <1>3, <1>5, <1>7 DEF EndsAt
<1> QED
  BY <1>6, <1>8

\* ... and there is one only.
LEMMA EndsOnce ==
  ASSUME NEW text, NEW to \in Nat, NEW i \in 1 .. to + 1, NEW e, NEW d,
         EndsAt(text, i, to, e), EndsAt(text, i, to, d)
  PROVE  e = d
<1>1. e \in i .. to + 1 /\ d \in i .. to + 1 /\ (e <= to => text[e] = Newline) /\ (d <= to => text[d] = Newline)
  BY DEF EndsAt
<1>2. ASSUME e < d PROVE FALSE
  <2>1. e \in i .. d - 1 /\ e <= to
    BY <1>1, <1>2
  <2> QED
    BY <1>1, <2>1 DEF EndsAt
<1>3. ASSUME d < e PROVE FALSE
  <2>1. d \in i .. e - 1 /\ d <= to
    BY <1>1, <1>3
  <2> QED
    BY <1>1, <2>1 DEF EndsAt
<1> QED
  BY <1>1, <1>2, <1>3

\* What a recursion over the lines makes, from the last to the first.
Later(f, n, a, T, H, E) ==
  /\ f \in [a .. n + 1 -> T]
  /\ \A i \in a .. n + 1 : f[i] = H[i] \o (IF E[i] > n THEN <<>> ELSE f[E[i] + 1])

\* There is a function for every recursion over the lines.
LEMMA ByLater ==
  ASSUME NEW n \in Nat, NEW C, NEW H \in [1 .. n + 1 -> Seq(C)], NEW E \in [1 .. n + 1 -> 1 .. n + 1],
         \A i \in 1 .. n + 1 : i <= E[i]
  PROVE  \E f : Later(f, n, 1, Seq(C), H, E)
<1> DEFINE T == Seq(C)
           S == {m \in 0 .. n : \E f : Later(f, n, (n + 1) - m, T, H, E)}
<1>0. <<>> \in T /\ \A x, y \in T : x \o y \in T
  OBVIOUS
<1>1. 0 \in S
  <2> DEFINE f == [i \in n + 1 .. n + 1 |-> H[n + 1] \o <<>>]
  <2>1. H[n + 1] \o <<>> \in T /\ n + 1 \in 1 .. n + 1
    OBVIOUS
  <2>2. f \in [n + 1 .. n + 1 -> T]
    BY <2>1
  <2>3. \A i \in n + 1 .. n + 1 : i = n + 1 /\ E[i] > n /\ f[i] = H[i] \o <<>>
    BY <2>1
  <2> HIDE DEF f, T
  <2>4. Later(f, n, n + 1, T, H, E)
    BY <2>2, <2>3 DEF Later
  <2>5. (n + 1) - 0 = n + 1 /\ 0 \in 0 .. n
    OBVIOUS
  <2> QED
    BY <2>4, <2>5
<1>2. ASSUME NEW m \in 1 .. n, m - 1 \in S PROVE m \in S
  <2> DEFINE a == (n + 1) - m
  <2>1. PICK f : Later(f, n, (n + 1) - (m - 1), T, H, E)
    BY <1>2
  <2>2. a \in 1 .. n /\ (n + 1) - (m - 1) = a + 1 /\ m \in 0 .. n
    OBVIOUS
  <2> DEFINE new == H[a] \o (IF E[a] > n THEN <<>> ELSE f[E[a] + 1])
             g == [i \in a .. n + 1 |-> IF i = a THEN new ELSE f[i]]
  <2> HIDE DEF a, T
  <2>3. Later(f, n, a + 1, T, H, E)
    BY <2>1, <2>2
  <2>4. \A i \in a .. n + 1 : ~(E[i] > n) => E[i] + 1 \in a + 1 .. n + 1
    <3>1. \A i \in a .. n + 1 : i \in 1 .. n + 1
      BY <2>2
    <3>2. \A i \in a .. n + 1 : E[i] \in 1 .. n + 1 /\ i <= E[i]
      BY <3>1
    <3>3. \A i \in a .. n + 1 : \A e \in 1 .. n + 1 : i <= e /\ ~(e > n) => e + 1 \in a + 1 .. n + 1
      BY <2>2
    <3> QED
      BY <3>2, <3>3
  <2>5. \A i \in a .. n + 1 : i # a => i \in a + 1 .. n + 1
    BY <2>2
  <2>6. f \in [a + 1 .. n + 1 -> T] /\ \A i \in a + 1 .. n + 1 : f[i] = H[i] \o (IF E[i] > n THEN <<>> ELSE f[E[i] + 1])
    BY <2>3, Zenon DEF Later
  <2>7. a \in a .. n + 1 /\ E[a] \in Nat /\ H[a] \in T
    BY <2>2 DEF T
  <2>8. new \in T
    <3>1. ~(E[a] > n) => f[E[a] + 1] \in T
      BY <2>4, <2>6, <2>7
    <3>2. CASE E[a] > n
      BY <3>2, <2>7, <1>0
    <3>3. CASE ~(E[a] > n)
      <4>1. f[E[a] + 1] \in T
        BY <3>1, <3>3, <2>7
      <4> QED
        BY <4>1, <3>3, <2>7, <1>0
    <3> QED
      BY <3>2, <3>3
  <2>9. g[a] = new /\ \A i \in a + 1 .. n + 1 : g[i] = f[i]
    <3>1. \A i \in a + 1 .. n + 1 : i \in a .. n + 1 /\ i # a
      BY <2>2
    <3> QED
      BY <2>7, <3>1
  <2>10. g \in [a .. n + 1 -> T]
    <3> HIDE DEF new
    <3> QED
      BY <2>5, <2>6, <2>8
  <2> HIDE DEF g
  <2>11. ASSUME NEW i \in a .. n + 1 PROVE g[i] = H[i] \o (IF E[i] > n THEN <<>> ELSE g[E[i] + 1])
    <3>1. ~(E[i] > n) => g[E[i] + 1] = f[E[i] + 1]
      BY <2>4, <2>9
    <3>2. CASE i = a
      BY <3>1, <3>2, <2>9, Zenon
    <3>3. CASE i # a
      <4>1. g[i] = f[i] /\ f[i] = H[i] \o (IF E[i] > n THEN <<>> ELSE f[E[i] + 1])
        BY <3>3, <2>5, <2>6, <2>9, Zenon
      <4> QED
        BY <3>1, <4>1, Zenon
    <3> QED
      BY <3>2, <3>3
  <2>12. Later(g, n, a, T, H, E)
    BY <2>10, <2>11, Zenon DEF Later
  <2> QED
    BY <2>2, <2>12 DEF a
<1>3. n \in S
  <2> HIDE DEF S
  <2>1. \A k \in 0 .. n : k \in S
    BY <1>1, <1>2, UpTo
  <2> QED
    BY <2>1
<1>4. (n + 1) - n = 1
  OBVIOUS
<1> QED
  BY <1>3, <1>4

\* The line that i is in, if it is one to print.
\* The line from i to e, if it has the pattern.
HitIn(text, i, e) == IF HasPattern(SubSeq(text, i, e - 1)) THEN <<SubSeq(text, i, e - 1)>> ELSE <<>>

\* f is the recursion of Hits.
IsHits(f, text, to) ==
  f = [i \in 1 .. to + 1 |->
        LET end  == LineEnd(text, i, to)
            line == SubSeq(text, i, end - 1)
        IN (IF HasPattern(line) THEN <<line>> ELSE <<>>) \o (IF end > to THEN <<>> ELSE f[end + 1])]

\* A part of a text, character by character.
LEMMA SliceIs ==
  ASSUME NEW C, NEW text \in Seq(C), NEW i \in 1 .. Len(text) + 1, NEW e \in i .. Len(text) + 1
  PROVE  /\ SubSeq(text, i, e - 1) \in Seq(C) /\ Len(SubSeq(text, i, e - 1)) = e - i
         /\ \A k \in 1 .. e - i : SubSeq(text, i, e - 1)[k] = text[i + k - 1]
<1>1. Len(text) \in Nat
  OBVIOUS
<1>2. CASE e = i
  BY <1>1, <1>2
<1>3. CASE e # i
  <2>1. i \in 1 .. Len(text) /\ e - 1 \in i .. Len(text) /\ ((e - 1) - i) + 1 = e - i
    BY <1>1, <1>3
  <2> QED
    BY <1>1, <2>1
<1> QED
  BY <1>2, <1>3

\* A line is found or is not.
LEMMA FoundIs ==
  ASSUME NEW C, NEW text \in Seq(C), NEW i \in 1 .. Len(text) + 1, NEW e \in i .. Len(text) + 1
  PROVE  HitIn(text, i, e) \in Seq(Seq(C))
<1> DEFINE line == SubSeq(text, i, e - 1)
<1>1. line \in Seq(C)
  BY SliceIs
<1> HIDE DEF line
<1>2. <<line>> \in Seq(Seq(C)) /\ <<>> \in Seq(Seq(C))
  BY <1>1
<1>3. CASE HasPattern(line)
  BY <1>2, <1>3 DEF HitIn, line
<1>4. CASE ~HasPattern(line)
  BY <1>2, <1>4 DEF HitIn, line
<1> QED
  BY <1>3, <1>4

\* The lines from each place on exist.
LEMMA HitsExist ==
  ASSUME NEW C, NEW text \in Seq(C), NEW to \in 0 .. Len(text)
  PROVE  \E f : IsHits(f, text, to) /\ f \in [1 .. to + 1 -> Seq(Seq(C))]
<1> DEFINE T == Seq(Seq(C))
           E == [i \in 1 .. to + 1 |-> LineEnd(text, i, to)]
           H == [i \in 1 .. to + 1 |-> HitIn(text, i, LineEnd(text, i, to))]
<1>0. to \in Nat /\ Len(text) \in Nat
  OBVIOUS
<1>1. \A i \in 1 .. to + 1 : LineEnd(text, i, to) \in i .. to + 1
  BY <1>0, LineEndIs DEF EndsAt
<1>2. \A i \in 1 .. to + 1 : i \in 1 .. Len(text) + 1
  BY <1>0
<1>3. \A i \in 1 .. to + 1 : \A e \in i .. to + 1 : e \in i .. Len(text) + 1 /\ e \in 1 .. to + 1 /\ i <= e
  BY <1>0
<1>4. \A i \in 1 .. to + 1 : HitIn(text, i, LineEnd(text, i, to)) \in T
  BY <1>1, <1>2, <1>3, FoundIs
<1>5. H \in [1 .. to + 1 -> T] /\ E \in [1 .. to + 1 -> 1 .. to + 1] /\ \A i \in 1 .. to + 1 : i <= E[i]
  BY <1>1, <1>3, <1>4
<1>6. \A i \in 1 .. to + 1 : E[i] = LineEnd(text, i, to) /\ H[i] = HitIn(text, i, E[i])
  OBVIOUS
<1> HIDE DEF E, H
<1>7. PICK f : Later(f, to, 1, T, H, E)
  BY <1>0, <1>5, ByLater
<1>8. f \in [1 .. to + 1 -> T] /\ f = [i \in 1 .. to + 1 |-> f[i]]
  BY <1>7, Zenon DEF Later
<1>9. \A i \in 1 .. to + 1 : f[i] = HitIn(text, i, LineEnd(text, i, to))
                                    \o (IF LineEnd(text, i, to) > to THEN <<>> ELSE f[LineEnd(text, i, to) + 1])
  BY <1>6, <1>7, Zenon DEF Later
<1>10. f = [i \in 1 .. to + 1 |-> HitIn(text, i, LineEnd(text, i, to))
                                    \o (IF LineEnd(text, i, to) > to THEN <<>> ELSE f[LineEnd(text, i, to) + 1])]
  BY <1>8, <1>9, Zenon
<1>11. IsHits(f, text, to)
  BY <1>10, Zenon DEF IsHits, HitIn
<1> QED
  BY <1>8, <1>11

\* They are a sequence of texts.
LEMMA HitsTyped ==
  ASSUME NEW C, NEW text \in Seq(C), NEW to \in 0 .. Len(text), NEW f, IsHits(f, text, to)
  PROVE  \A i \in 1 .. to + 1 : f[i] \in Seq(Seq(C))
<1> DEFINE T == Seq(Seq(C))
           S == {m \in 0 .. to : \A i \in (to + 1) - m .. to + 1 : f[i] \in T}
<1>0. to \in Nat /\ Len(text) \in Nat
  OBVIOUS
<1>1. ASSUME NEW i \in 1 .. to + 1, \A j \in i + 1 .. to + 1 : f[j] \in T PROVE f[i] \in T
  <2> DEFINE e == LineEnd(text, i, to)
  <2>1. e \in i .. to + 1
    BY <1>0, LineEndIs DEF EndsAt
  <2>2. f[i] = HitIn(text, i, e) \o (IF e > to THEN <<>> ELSE f[e + 1])
    BY Zenon DEF IsHits, HitIn
  <2> HIDE DEF e
  <2>3. i \in 1 .. Len(text) + 1 /\ e \in i .. Len(text) + 1 /\ (~(e > to) => e + 1 \in i + 1 .. to + 1)
    BY <1>0, <2>1
  <2>4. HitIn(text, i, e) \in T
    BY <2>3, FoundIs
  <2>5. ~(e > to) => f[e + 1] \in T
    BY <1>1, <2>3
  <2> DEFINE x == HitIn(text, i, e)
             y == IF e > to THEN <<>> ELSE f[e + 1]
  <2>6. x \in T /\ y \in T
    BY <2>4, <2>5
  <2> HIDE DEF x, y
  <2>7. x \o y \in T
    BY <2>6
  <2> QED
    BY <2>2, <2>7 DEF x, y
<1>2. 0 \in S
  <2>1. (to + 1) - 0 = to + 1 /\ 0 \in 0 .. to /\ to + 1 \in 1 .. to + 1
    BY <1>0
  <2>2. \A j \in (to + 1) + 1 .. to + 1 : FALSE
    BY <1>0
  <2>3. f[to + 1] \in T
    BY <1>1, <2>1, <2>2
  <2>4. \A i \in to + 1 .. to + 1 : i = to + 1
    BY <1>0
  <2> HIDE DEF T
  <2> QED
    BY <2>1, <2>3, <2>4
<1>3. ASSUME NEW m \in 1 .. to, m - 1 \in S PROVE m \in S
  <2> HIDE DEF T
  <2>1. \A i \in (to + 1) - (m - 1) .. to + 1 : f[i] \in T
    BY <1>3
  <2> DEFINE a == (to + 1) - m
  <2>2. a \in 1 .. to + 1 /\ (to + 1) - (m - 1) = a + 1 /\ m \in 0 .. to
    BY <1>0
  <2>3. f[a] \in T
    BY <1>1, <2>1, <2>2
  <2>4. \A i \in a .. to + 1 : i = a \/ i \in a + 1 .. to + 1
    BY <2>2
  <2>5. \A i \in a .. to + 1 : f[i] \in T
    BY <2>1, <2>2, <2>3, <2>4
  <2> QED
    BY <2>2, <2>5
<1>4. to \in S
  <2> HIDE DEF S
  <2>1. \A k \in 0 .. to : k \in S
    BY <1>0, <1>2, <1>3, UpTo
  <2> QED
    BY <1>0, <2>1
<1>5. (to + 1) - to = 1
  BY <1>0
<1> QED
  BY <1>4, <1>5

\* The lines from i on: the one that i is in, if it has the pattern, and those behind it.
LEMMA HitsIs ==
  ASSUME NEW C, NEW text \in Seq(C), NEW to \in 0 .. Len(text), NEW i \in 1 .. to + 1, NEW e,
         EndsAt(text, i, to, e)
  PROVE  /\ Hits(text, i, to) \in Seq(Seq(C))
         /\ Hits(text, i, to) = HitIn(text, i, e) \o (IF e > to THEN <<>> ELSE Hits(text, e + 1, to))
         /\ e <= to => e + 1 \in 1 .. to + 1
<1> DEFINE f == CHOOSE f : IsHits(f, text, to)
<1>1. IsHits(f, text, to)
  BY HitsExist, Zenon
<1>2. \A k : Hits(text, k, to) = f[k]
  BY Zenon DEF Hits, IsHits
<1>0. to \in Nat
  OBVIOUS
<1>4. LineEnd(text, i, to) = e
  BY <1>0, LineEndIs, EndsOnce
<1>5. e \in i .. to + 1 /\ (e <= to => e + 1 \in 1 .. to + 1) /\ (~(e > to) => e + 1 \in 1 .. to + 1)
  BY <1>0 DEF EndsAt
<1> HIDE DEF f
<1>6. f[i] = HitIn(text, i, e) \o (IF e > to THEN <<>> ELSE f[e + 1])
  BY <1>1, <1>4, Zenon DEF IsHits, HitIn
<1>7. f[i] \in Seq(Seq(C))
  BY <1>1, HitsTyped
<1>8. Hits(text, i, to) \in Seq(Seq(C))
  BY <1>2, <1>7, Zenon
<1>9. Hits(text, i, to) = HitIn(text, i, e) \o (IF e > to THEN <<>> ELSE Hits(text, e + 1, to))
  BY <1>2, <1>6, Zenon
<1> QED
  BY <1>5, <1>8, <1>9

\* What is printed after a line is searched.
\* What has been printed when a line has been searched.
Printed(p, line) == IF HasPattern(line) THEN Append(p, line) ELSE p

\* Behind the last character there is no line with the pattern.
LEMMA NoneBehind ==
  ASSUME NEW C, NEW text \in Seq(C), NEW to \in 0 .. Len(text)
  PROVE  Hits(text, to + 1, to) = <<>>
<1> DEFINE line == SubSeq(text, to + 1, (to + 1) - 1)
           i == to + 1
<1>0. to \in Nat /\ Len(text) \in Nat
  OBVIOUS
<1>1. EndsAt(text, i, to, i)
  BY <1>0 DEF EndsAt
<1>2. i \in 1 .. to + 1 /\ i > to
  BY <1>0
<1>3. line \in Seq(C) /\ Len(line) = 0
  BY <1>0, SliceIs
<1> HIDE DEF line, i
<1>4. ~HasPattern(line)
  BY <1>3 DEF HasPattern
<1>5. HitIn(text, i, i) = <<>>
  BY <1>4, Zenon DEF HitIn, line, i
<1>6. Hits(text, i, to) = <<>> \o <<>>
  BY <1>1, <1>2, <1>5, HitsIs
<1>7. <<>> \o <<>> = <<>>
  OBVIOUS
<1> QED
  BY <1>6, <1>7 DEF i

\* Concatenation may be done in any order.
LEMMA Associates ==
  ASSUME NEW T
  PROVE  \A s, t, u \in Seq(T) : (s \o t) \o u = s \o (t \o u)
BY ConcatAssociative

\* Appending a line and going on.
LEMMA AppendThenMore ==
  ASSUME NEW T, NEW p \in Seq(T), NEW l \in T, NEW q \in Seq(T)
  PROVE  p \o (<<l>> \o q) = Append(p, l) \o q /\ Append(p, l) \in Seq(T)
<1> DEFINE o == <<l>>
<1>1. o \in Seq(T)
  OBVIOUS
<1>2. Append(p, l) = p \o o /\ Append(p, l) \in Seq(T)
  BY AppendIsConcat
<1> HIDE DEF o
<1>3. (p \o o) \o q = p \o (o \o q)
  BY <1>1, ConcatAssociative
<1> QED
  BY <1>2, <1>3 DEF o

\* Printing a line and going on.
LEMMA PrintsLine ==
  ASSUME NEW C, NEW p \in Seq(Seq(C)), NEW q \in Seq(Seq(C)), NEW text \in Seq(C), NEW i \in 1 .. Len(text) + 1,
         NEW e \in i .. Len(text) + 1
  PROVE  /\ p \o (HitIn(text, i, e) \o q) = Printed(p, SubSeq(text, i, e - 1)) \o q
         /\ Printed(p, SubSeq(text, i, e - 1)) \in Seq(Seq(C))
<1> DEFINE line == SubSeq(text, i, e - 1)
           T == Seq(C)
<1>1. line \in T
  BY SliceIs
<1> HIDE DEF line
<1>2. <<line>> \in Seq(T) /\ <<>> \in Seq(T)
  BY <1>1
<1>3. CASE HasPattern(line)
  <2>1. HitIn(text, i, e) = <<line>> /\ Printed(p, line) = Append(p, line)
    BY <1>3 DEF HitIn, Printed, line
  <2>2. p \o (<<line>> \o q) = Append(p, line) \o q /\ Append(p, line) \in Seq(T)
    BY <1>1, AppendThenMore
  <2> QED
    BY <2>1, <2>2 DEF line, T
<1>4. CASE ~HasPattern(line)
  <2>1. HitIn(text, i, e) = <<>> /\ Printed(p, line) = p
    BY <1>4 DEF HitIn, Printed, line
  <2>2. <<>> \o q = q
    BY ConcatEmptySeq
  <2> QED
    BY <2>1, <2>2 DEF line
<1> QED
  BY <1>3, <1>4

\* A line that ends before the end, the last line, and an empty one.
LEMMA LineThenMore ==
  ASSUME NEW C, NEW p \in Seq(Seq(C)), NEW text \in Seq(C), NEW to \in 0 .. Len(text), NEW i \in 1 .. to + 1,
         NEW e, EndsAt(text, i, to, e), e <= to
  PROVE  /\ p \o Hits(text, i, to) = Printed(p, SubSeq(text, i, e - 1)) \o Hits(text, e + 1, to)
         /\ Printed(p, SubSeq(text, i, e - 1)) \in Seq(Seq(C))
<1>0. to \in Nat /\ Len(text) \in Nat
  OBVIOUS
<1>1. e \in i .. to + 1 /\ e \in i .. Len(text) + 1 /\ i \in 1 .. Len(text) + 1 /\ ~(e > to) /\ e + 1 \in 1 .. to + 1
  BY <1>0 DEF EndsAt
<1> DEFINE q == Hits(text, e + 1, to)
<1>2. q \in Seq(Seq(C))
  <2>1. EndsAt(text, e + 1, to, LineEnd(text, e + 1, to))
    BY <1>0, <1>1, LineEndIs
  <2> QED
    BY <1>1, <2>1, HitsIs
<1>3. Hits(text, i, to) = HitIn(text, i, e) \o (IF e > to THEN <<>> ELSE q)
  BY HitsIs
<1> HIDE DEF q
<1>4. Hits(text, i, to) = HitIn(text, i, e) \o q
  BY <1>1, <1>3, Zenon
<1>5. /\ p \o (HitIn(text, i, e) \o q) = Printed(p, SubSeq(text, i, e - 1)) \o q
      /\ Printed(p, SubSeq(text, i, e - 1)) \in Seq(Seq(C))
  BY <1>1, <1>2, PrintsLine
<1> QED
  BY <1>4, <1>5 DEF q

\* The last line has nothing behind it.
LEMMA LastLine ==
  ASSUME NEW C, NEW p \in Seq(Seq(C)), NEW text \in Seq(C), NEW to \in 0 .. Len(text), NEW i \in 1 .. to + 1,
         EndsAt(text, i, to, to + 1)
  PROVE  /\ p \o Hits(text, i, to) = Printed(p, SubSeq(text, i, to))
         /\ Printed(p, SubSeq(text, i, to)) \in Seq(Seq(C))
<1>0. to \in Nat /\ Len(text) \in Nat
  OBVIOUS
<1> DEFINE e == to + 1
<1>1. e \in i .. Len(text) + 1 /\ i \in 1 .. Len(text) + 1 /\ e > to /\ e - 1 = to
  BY <1>0
<1>2. Hits(text, i, to) = HitIn(text, i, e) \o (IF e > to THEN <<>> ELSE Hits(text, e + 1, to))
  <2>1. \A d : EndsAt(text, i, to, d) =>
          Hits(text, i, to) = HitIn(text, i, d) \o (IF d > to THEN <<>> ELSE Hits(text, d + 1, to))
    BY HitsIs
  <2> QED
    BY <2>1, Zenon
<1> HIDE DEF e
<1>3. Hits(text, i, to) = HitIn(text, i, e) \o <<>>
  BY <1>1, <1>2, Zenon
<1> DEFINE s == Printed(p, SubSeq(text, i, e - 1))
<1>4. p \o (HitIn(text, i, e) \o <<>>) = s \o <<>> /\ s \in Seq(Seq(C))
  <2>1. <<>> \in Seq(Seq(C))
    OBVIOUS
  <2> QED
    BY <1>1, <2>1, PrintsLine
<1> HIDE DEF s
<1>5. s \o <<>> = s
  BY <1>4, ConcatEmptySeq
<1>6. s = Printed(p, SubSeq(text, i, to))
  BY <1>1 DEF s
<1> QED
  BY <1>3, <1>4, <1>5, <1>6

\* A line with nothing in it is not printed.
LEMMA EmptyLine ==
  ASSUME NEW C, NEW text \in Seq(C), NEW to \in 0 .. Len(text), NEW i \in 1 .. to, text[i] = Newline
  PROVE  Hits(text, i, to) = Hits(text, i + 1, to)
<1>0. to \in Nat /\ Len(text) \in Nat /\ i \in 1 .. to + 1 /\ i <= to /\ i \in 1 .. Len(text) + 1 /\ i \in i .. Len(text) + 1
  OBVIOUS
<1>1. EndsAt(text, i, to, i)
  BY <1>0 DEF EndsAt
<1> DEFINE line == SubSeq(text, i, i - 1)
           q == Hits(text, i + 1, to)
<1>2. line \in Seq(C) /\ Len(line) = i - i
  BY <1>0, SliceIs
<1> HIDE DEF line
<1>3. ~HasPattern(line)
  <2>1. Len(line) = 0
    BY <1>0, <1>2
  <2> QED
    BY <1>2, <2>1 DEF HasPattern
<1>4. HitIn(text, i, i) = <<>>
  BY <1>3, Zenon DEF HitIn, line
<1>5. ~(i > to)
  BY <1>0
<1>6. Hits(text, i, to) = HitIn(text, i, i) \o (IF i > to THEN <<>> ELSE q)
  <2>1. \A e : EndsAt(text, i, to, e) =>
          Hits(text, i, to) = HitIn(text, i, e) \o (IF e > to THEN <<>> ELSE Hits(text, e + 1, to))
    BY <1>0, HitsIs
  <2> QED
    BY <1>1, <2>1, Zenon
<1>7. q \in Seq(Seq(C))
  <2>1. i + 1 \in 1 .. to + 1
    BY <1>0
  <2>2. EndsAt(text, i + 1, to, LineEnd(text, i + 1, to))
    BY <1>0, <2>1, LineEndIs
  <2> QED
    BY <2>1, <2>2, HitsIs
<1> HIDE DEF q
<1>8. Hits(text, i, to) = <<>> \o q
  BY <1>4, <1>5, <1>6, Zenon
<1>9. <<>> \o q = q
  BY <1>7, ConcatEmptySeq
<1> QED
  BY <1>8, <1>9 DEF q

\* Texts that agree in every character are the same.
LEMMA SameSlices ==
  ASSUME NEW C, NEW s \in Seq(C), NEW t \in Seq(C), Len(s) = Len(t), \A k \in 1 .. Len(s) : s[k] = t[k]
  PROVE  s = t
OBVIOUS

\* A function on the places of a text is a text.
LEMMA SpelledIs ==
  ASSUME NEW C, NEW n \in Nat, NEW s \in [1 .. n -> C]
  PROVE  s \in Seq(C) /\ Len(s) = n
OBVIOUS

\* A part of a part is a part.
LEMMA PartOfSlice ==
  ASSUME NEW C, NEW text \in Seq(C), NEW a \in 1 .. Len(text), NEW b \in 1 .. Len(text),
         NEW k \in 1 .. (b - a) + 1, NEW n \in 1 .. (b - a) + 1
  PROVE  SubSeq(SubSeq(text, a, b), k, n) = SubSeq(text, (a + k) - 1, (a + n) - 1)
BY SubSeqOfSubSeq

\* The string in the buffer from i to its NUL is a part of the file.
LEMMA StringIs ==
  ASSUME NEW C, NEW text \in Seq(C), Nul \notin Range(text), NEW skipped \in Nat, NEW i \in 0 .. BUFSIZE,
         NEW e \in i .. BUFSIZE, skipped + e <= Len(text),
         NEW buf, buf[e] = Nul, \A j \in i .. e - 1 : buf[j] = text[(skipped + j) + 1]
  PROVE  String(buf, i) = SubSeq(text, (skipped + i) + 1, skipped + e)
<1>0. BUFSIZE \in Nat /\ Len(text) \in Nat /\ i \in Nat /\ e \in Nat
  BY GrepAssumption
<1> DEFINE S == {j \in i .. BUFSIZE : buf[j] = Nul}
           a == (skipped + i) + 1
           n == e - i
           s == [k \in 1 .. n |-> buf[(i + k) - 1]]
           t == SubSeq(text, a, (skipped + e + 1) - 1)
<1>1. \A j \in i .. e - 1 : buf[j] # Nul /\ buf[j] \in C
  <2>1. \A j \in i .. e - 1 : (skipped + j) + 1 \in 1 .. Len(text)
    BY <1>0
  <2>2. \A k \in 1 .. Len(text) : text[k] # Nul /\ text[k] \in C
    BY DEF Range
  <2> QED
    BY <2>1, <2>2
<1>2. Min(S) = e
  <2>1. S \in SUBSET Nat /\ e \in S
    BY <1>0
  <2>2. \A j \in i .. BUFSIZE : j \in i .. e - 1 \/ e <= j
    BY <1>0
  <2>3. \A j \in S : e <= j
    BY <1>1, <2>2
  <2> HIDE DEF S
  <2> QED
    BY <2>1, <2>3, Minimum
<1>3. String(buf, i) = s
  BY <1>2 DEF String
<1>4. a \in 1 .. Len(text) + 1 /\ (skipped + e) + 1 \in a .. Len(text) + 1 /\ ((skipped + e) + 1) - a = n
      /\ ((skipped + e) + 1) - 1 = skipped + e
  BY <1>0
<1>5. t \in Seq(C) /\ Len(t) = n /\ \A k \in 1 .. n : t[k] = text[(a + k) - 1]
  BY <1>4, SliceIs
<1>6. \A k \in 1 .. n : (i + k) - 1 \in i .. e - 1 /\ (skipped + ((i + k) - 1)) + 1 = (a + k) - 1
  BY <1>0
<1>7. \A k \in 1 .. n : buf[(i + k) - 1] = text[(a + k) - 1] /\ buf[(i + k) - 1] \in C
  BY <1>1, <1>6
<1>8. n \in Nat
  BY <1>0
<1> HIDE DEF n, t, a
<1>9. s \in Seq(C) /\ Len(s) = n /\ \A k \in 1 .. n : s[k] = buf[(i + k) - 1]
  <2>1. s \in [1 .. n -> C]
    BY <1>7
  <2>2. \A k \in 1 .. n : s[k] = buf[(i + k) - 1]
    OBVIOUS
  <2> HIDE DEF s
  <2>3. s \in Seq(C) /\ Len(s) = n
    BY <1>8, <2>1, SpelledIs
  <2> QED
    BY <2>2, <2>3
<1> HIDE DEF s
<1>10. s = t
  <2>1. \A k \in 1 .. n : s[k] = t[k]
    BY <1>5, <1>7, <1>9
  <2> QED
    BY <1>5, <1>9, <2>1, SameSlices
<1> QED
  BY <1>3, <1>4, <1>10 DEF t, a

\* What the search of a line finds is the pattern in the line.
LEMMA PatternIs ==
  ASSUME NEW C, NEW text \in Seq(C), Nul \notin Range(text), NEW skipped \in Nat, NEW i \in 0 .. BUFSIZE,
         NEW e \in i .. BUFSIZE, skipped + e <= Len(text),
         NEW buf, buf[e] = Nul, \A j \in i .. e - 1 : buf[j] = text[(skipped + j) + 1]
  PROVE  (\E check \in i .. e - 1 : IsPrefix(Pattern, String(buf, check)))
           <=> HasPattern(SubSeq(text, (skipped + i) + 1, skipped + e))
<1>0. BUFSIZE \in Nat /\ Len(text) \in Nat /\ i \in Nat /\ e \in Nat
  BY GrepAssumption
<1> DEFINE a == (skipped + i) + 1
           line == SubSeq(text, a, skipped + e)
<1>1. \A check \in i .. e - 1 : String(buf, check) = SubSeq(text, (skipped + check) + 1, skipped + e)
  <2>1. \A check \in i .. e - 1 : check \in 0 .. BUFSIZE /\ e \in check .. BUFSIZE /\ \A j \in check .. e - 1 : j \in i .. e - 1
    BY <1>0
  <2> SUFFICES ASSUME NEW check \in i .. e - 1
               PROVE  String(buf, check) = SubSeq(text, (skipped + check) + 1, skipped + e)
    OBVIOUS
  <2>2. check \in 0 .. BUFSIZE /\ e \in check .. BUFSIZE
    BY <2>1
  <2>3. \A j \in check .. e - 1 : buf[j] = text[(skipped + j) + 1]
    BY <2>1
  <2> QED
    BY <2>2, <2>3, StringIs
<1>2. line \in Seq(C) /\ Len(line) = e - i
  <2>1. a \in 1 .. Len(text) + 1 /\ (skipped + e) + 1 \in a .. Len(text) + 1 /\ ((skipped + e) + 1) - a = e - i
        /\ ((skipped + e) + 1) - 1 = skipped + e
    BY <1>0
  <2> HIDE DEF a
  <2>2. SubSeq(text, a, ((skipped + e) + 1) - 1) \in Seq(C) /\ Len(SubSeq(text, a, ((skipped + e) + 1) - 1)) = e - i
    BY <2>1, SliceIs
  <2> QED
    BY <2>1, <2>2
<1>3. \A k \in 1 .. e - i : SubSeq(line, k, e - i) = SubSeq(text, (skipped + ((i + k) - 1)) + 1, skipped + e)
  <2> SUFFICES ASSUME NEW k \in 1 .. e - i
               PROVE  SubSeq(line, k, e - i) = SubSeq(text, (skipped + ((i + k) - 1)) + 1, skipped + e)
    OBVIOUS
  <2> DEFINE b == skipped + e
             n == e - i
  <2>1. a \in 1 .. Len(text) /\ b \in 1 .. Len(text) /\ n = (b - a) + 1 /\ k \in 1 .. (b - a) + 1 /\ n \in 1 .. (b - a) + 1
    BY <1>0
  <2>2. (a + k) - 1 = (skipped + ((i + k) - 1)) + 1 /\ (a + n) - 1 = b
    BY <1>0
  <2> HIDE DEF a, b, n
  <2>3. SubSeq(SubSeq(text, a, b), k, n) = SubSeq(text, (a + k) - 1, (a + n) - 1)
    BY <2>1, PartOfSlice
  <2> QED
    BY <2>2, <2>3 DEF b, n
<1> HIDE DEF line, a
<1>4. HasPattern(line) <=> \E k \in 1 .. e - i : IsPrefix(Pattern, SubSeq(line, k, e - i))
  <2>1. DOMAIN line = 1 .. e - i /\ Len(line) = e - i
    BY <1>2
  <2> QED
    BY <2>1, Zenon DEF HasPattern
<1>5. ASSUME NEW check \in i .. e - 1, IsPrefix(Pattern, String(buf, check)) PROVE HasPattern(line)
  <2>1. (check - i) + 1 \in 1 .. e - i /\ (i + ((check - i) + 1)) - 1 = check
    BY <1>0
  <2>2. SubSeq(line, (check - i) + 1, e - i) = String(buf, check)
    BY <1>1, <1>3, <2>1
  <2> QED
    BY <1>4, <1>5, <2>1, <2>2
<1>6. ASSUME NEW k \in 1 .. e - i, IsPrefix(Pattern, SubSeq(line, k, e - i))
      PROVE  \E check \in i .. e - 1 : IsPrefix(Pattern, String(buf, check))
  <2>1. (i + k) - 1 \in i .. e - 1
    BY <1>0
  <2>2. String(buf, (i + k) - 1) = SubSeq(line, k, e - i)
    BY <1>1, <1>3, <2>1
  <2> QED
    BY <1>6, <2>1, <2>2
<1> QED
  BY <1>4, <1>5, <1>6 DEF line, a

\* The characters of the file in front of the buffer, and the first one that is still to be searched.
Skipped == at - last
Kept    == IF doing = "line" THEN line_start ELSE 0
Here    == (Skipped + Kept) + 1

\* What is still to be printed from i on; a line is broken only as long as what was in the buffer at first
\* is still behind it.
Cut     == Min(Cuts)
Breaks  == data[BUFSIZE] = Newline /\ Cuts # {}
Rest(i) == IF Breaks THEN Hits(file, i, Cut) \o Hits(file, Cut + 1, Len(file)) ELSE Hits(file, i, Len(file))

\* Where the search is: in the file, in the buffer and in the line.
Placed ==
  /\ at \in 0 .. Len(file) /\ last \in 0 .. BUFSIZE /\ last <= at
  /\ line_start \in Nat /\ cnt \in Nat
  /\ doing \in {"read", "line", "done"}
  /\ doing = "read" => last < BUFSIZE
  /\ doing = "line" => line_start = 0 \/ line_start < last
  /\ doing = "line" /\ at < Len(file) => last = BUFSIZE /\ cnt # 0
\* The buffer holds the file from there on.
Buffered ==
  /\ data = [j \in 0 .. BUFSIZE |-> data[j]]
  /\ \A j \in Kept .. last - 1 : data[j] = file[(Skipped + j) + 1]
\* What was behind the buffer before can be met only if it is a newline: then all reads so
\* far were whole buffers and no line has been broken, or none is left to break.
Unwritten ==
  data[BUFSIZE] = Newline =>
    /\ junk = Newline
    /\ \/ at = Len(file) /\ Cuts = {}
       \/ /\ Whole(Skipped)
          /\ \A k \in Cuts : Skipped < k
          /\ doing = "read" => last = 0
\* What has been printed and what is still to come are all the lines to print.
Output ==
  /\ printed \in Seq(Seq(Range(file)))
  /\ IF doing = "done" THEN printed = AllHits ELSE printed \o Rest(Here) = AllHits
Reading == Placed /\ Buffered /\ Unwritten /\ Output
GrepInv == file \in Files /\ (IsText(file) => Reading)

\* The file is a text and the buffer holds something.
LEMMA FileIs ==
  ASSUME file \in Files
  PROVE  file \in Seq(Range(file)) /\ Len(file) \in Nat /\ BUFSIZE \in Nat /\ BUFSIZE > 0
BY GrepAssumption

\* Cut is the first place where a line can break.
LEMMA CutIs ==
  ASSUME file \in Files
  PROVE  /\ \A k \in Cuts : k \in Nat /\ k >= 1 /\ k < Len(file) /\ Whole(k)
         /\ Cuts # {} => Cut \in Cuts /\ \A k \in Cuts : Cut <= k
<1>1. Len(file) \in Nat
  BY FileIs
<1>2. \A k \in Cuts : k \in Nat /\ k >= 1 /\ k < Len(file) /\ Whole(k)
  BY <1>1 DEF Cuts, Whole
<1>3. ASSUME Cuts # {} PROVE Cut \in Cuts /\ \A k \in Cuts : Cut <= k
  <2> DEFINE S == Cuts
  <2>1. S \in SUBSET Nat /\ S # {}
    BY <1>2, <1>3
  <2> HIDE DEF S
  <2>2. PICK k \in S : \A i \in S : k <= i
    BY <2>1, Least
  <2>3. Min(S) = k
    BY <2>1, <2>2, Minimum
  <2> QED
    BY <2>2, <2>3 DEF S, Cut
<1> QED
  BY <1>2, <1>3

\* As long as what was in the buffer at first is behind it, the reads are whole buffers.
LEMMA WholeReads ==
  ASSUME file \in Files, Placed, Unwritten, doing = "line", data[BUFSIZE] = Newline
  PROVE  /\ junk = Newline
         /\ Cuts # {} => last = BUFSIZE /\ at <= Cut /\ at < Len(file) /\ Cut < Len(file) /\ Cut \in Nat
         /\ at < Len(file) => last = BUFSIZE /\ Whole(at) /\ \A k \in Cuts : at <= k
<1>0. /\ Len(file) \in Nat /\ BUFSIZE \in Nat /\ BUFSIZE > 0 /\ at \in Nat /\ last \in Nat /\ at <= Len(file)
      /\ last <= at /\ last <= BUFSIZE
  BY FileIs DEF Placed
<1>1. Skipped \in Nat /\ at = Skipped + last
  BY <1>0 DEF Skipped
<1>2. CASE at = Len(file) /\ Cuts = {}
  BY <1>0, <1>2 DEF Unwritten
<1>3. CASE ~(at = Len(file) /\ Cuts = {})
  <2>1. junk = Newline /\ Whole(Skipped) /\ \A k \in Cuts : Skipped < k
    BY <1>3 DEF Unwritten
  <2>2. \A k \in Cuts : Skipped + BUFSIZE <= k
    BY <1>1, <2>1, CutIs, WholeStep
  <2>3. at < Len(file) => last = BUFSIZE
    BY DEF Placed
  <2>4. ASSUME Cuts # {} PROVE at < Len(file) /\ Cut < Len(file) /\ Cut \in Nat /\ Skipped + BUFSIZE <= Cut
    <3>1. Cut \in Cuts /\ Cut \in Nat /\ Cut < Len(file)
      BY <2>4, CutIs
    <3> QED
      BY <1>0, <1>1, <2>2, <3>1
  <2>5. at < Len(file) => at = Skipped + BUFSIZE
    BY <1>1, <2>3
  <2>6. Whole(Skipped + BUFSIZE)
    BY <1>1, <2>1, WholeStep
  <2>7. at < Len(file) => Whole(at) /\ \A k \in Cuts : at <= k
    BY <2>2, <2>5, <2>6
  <2> QED
    BY <2>1, <2>3, <2>4, <2>5, <2>7
<1> QED
  BY <1>2, <1>3

\* line_end is the first newline of the buffer from line_start on, or behind all.
LEMMA line_endIs ==
  ASSUME file \in Files, Placed, doing = "line"
  PROVE  /\ line_end \in line_start .. last
         /\ line_end < last => data[line_end] = Newline
         /\ \A j \in line_start .. line_end - 1 : data[j] # Newline
<1> DEFINE S == {last} \cup {i \in line_start .. last : data[i] = Newline}
<1>0. BUFSIZE \in Nat /\ last \in Nat /\ line_start \in Nat /\ line_start <= last
  BY FileIs DEF Placed
<1>1. S \in SUBSET Nat /\ S # {} /\ S \subseteq line_start .. last
  BY <1>0
<1>2. \A j \in S : j < last => data[j] = Newline
  BY <1>0
<1>3. \A j \in line_start .. last : data[j] = Newline => j \in S
  OBVIOUS
<1>4. line_end = Min(S)
  BY DEF line_end
<1> HIDE DEF S
<1>5. PICK e \in S : \A j \in S : e <= j
  BY <1>1, Least
<1>6. line_end = e
  BY <1>1, <1>4, <1>5, Minimum
<1>7. \A j \in line_start .. e - 1 : j \in line_start .. last /\ ~(e <= j)
  BY <1>0, <1>1
<1> QED
  BY <1>1, <1>2, <1>3, <1>5, <1>6, <1>7

\* The line that is in the buffer, up to where the program ends it.
Line == SubSeq(file, Here, Skipped + line_end)

\* How the buffer lies on the file.
LEMMA LineIs ==
  ASSUME file \in Files, Placed, doing = "line"
  PROVE  /\ Len(file) \in Nat /\ BUFSIZE \in Nat /\ at \in Nat /\ last \in Nat /\ line_start \in Nat /\ line_end \in Nat
         /\ Skipped \in Nat /\ at = Skipped + last /\ Here = (Skipped + line_start) + 1
         /\ line_start <= line_end /\ line_end <= last /\ last <= BUFSIZE /\ at <= Len(file)
         /\ last > 0 => line_start < last
         /\ Here \in 1 .. Len(file) + 1
<1>1. /\ Len(file) \in Nat /\ BUFSIZE \in Nat /\ at \in Nat /\ last \in Nat /\ line_start \in Nat /\ last <= at /\ last <= BUFSIZE
      /\ at <= Len(file) /\ line_start <= last /\ (last > 0 => line_start < last)
  BY FileIs DEF Placed
<1>2. line_end \in line_start .. last
  BY line_endIs
<1>3. Skipped \in Nat /\ at = Skipped + last
  BY <1>1 DEF Skipped
<1>4. Here = (Skipped + line_start) + 1
  BY DEF Here, Kept
<1> QED
  BY <1>1, <1>2, <1>3, <1>4

\* The NUL is put in the place of the newline.
LEMMA EndedIs ==
  ASSUME file \in Files, Placed, Buffered, doing = "line"
  PROVE  /\ Ended = [j \in 0 .. BUFSIZE |-> Ended[j]] /\ Ended[line_end] = Nul
         /\ \A j \in 0 .. BUFSIZE : j # line_end => Ended[j] = data[j]
         /\ \A j \in line_start .. last - 1 : j # line_end => Ended[j] = file[(Skipped + j) + 1]
<1>1. line_end \in 0 .. BUFSIZE /\ \A j \in line_start .. last - 1 : j \in 0 .. BUFSIZE
  BY LineIs
<1>2. data = [j \in 0 .. BUFSIZE |-> data[j]]
  BY DEF Buffered
<1> DEFINE e == line_end
<1> HIDE DEF e
<1>3. Ended = [data EXCEPT ![e] = Nul] /\ e \in 0 .. BUFSIZE
  BY <1>1 DEF Ended, e
<1>4. Ended = [j \in 0 .. BUFSIZE |-> IF j = e THEN Nul ELSE data[j]]
  BY <1>2, <1>3
<1>5. \A j \in line_start .. last - 1 : data[j] = file[(Skipped + j) + 1]
  BY DEF Buffered, Kept
<1> QED
  BY <1>1, <1>3, <1>4, <1>5 DEF e

\* What grep searches is the line.
LEMMA StringsAre ==
  ASSUME file \in Files, IsText(file), Placed, Buffered, doing = "line"
  PROVE  String(Ended, line_start) = Line /\ (Matches(Ended) <=> HasPattern(Line))
<1> DEFINE C == Range(file)
<1>1. file \in Seq(C) /\ Nul \notin Range(file)
  BY FileIs DEF IsText
<1> HIDE DEF C
<1>2. /\ Skipped \in Nat /\ line_start \in 0 .. BUFSIZE /\ line_end \in line_start .. BUFSIZE
      /\ Skipped + line_end <= Len(file) /\ Here = (Skipped + line_start) + 1
  BY LineIs
<1>3. \A j \in line_start .. line_end - 1 : j \in line_start .. last - 1 /\ j # line_end
  BY LineIs
<1>4. Ended[line_end] = Nul /\ \A j \in line_start .. line_end - 1 : Ended[j] = file[(Skipped + j) + 1]
  BY <1>3, EndedIs
<1> DEFINE buf == Ended
           e == line_end
           i == line_start
           skipped == Skipped
<1> HIDE DEF buf, e, i, skipped
<1>5. /\ skipped \in Nat /\ i \in 0 .. BUFSIZE /\ e \in i .. BUFSIZE /\ skipped + e <= Len(file) /\ buf[e] = Nul
      /\ \A j \in i .. e - 1 : buf[j] = file[(skipped + j) + 1]
  BY <1>2, <1>4 DEF buf, e, i, skipped
<1>6. String(buf, i) = SubSeq(file, (skipped + i) + 1, skipped + e)
  BY <1>1, <1>5, StringIs
<1>7. (\E check \in i .. e - 1 : IsPrefix(Pattern, String(buf, check)))
        <=> HasPattern(SubSeq(file, (skipped + i) + 1, skipped + e))
  BY <1>1, <1>5, PatternIs
<1>8. Line = SubSeq(file, (skipped + i) + 1, skipped + e)
  BY <1>2 DEF Line, skipped, i, e
<1> QED
  BY <1>6, <1>7, <1>8 DEF Matches, buf, i, e

\* How a line ends in the file.
LEMMA LineEnds ==
  ASSUME file \in Files, Placed, Buffered, doing = "line"
  PROVE  /\ \A j \in Here .. Skipped + line_end : file[j] # Newline
         /\ line_end < last => file[(Skipped + line_end) + 1] = Newline
<1>1. \A j \in line_start .. last - 1 : data[j] = file[(Skipped + j) + 1]
  BY DEF Buffered, Kept
<1>2. \A j \in Here .. Skipped + line_end :
        (j - Skipped) - 1 \in line_start .. line_end - 1 /\ (j - Skipped) - 1 \in line_start .. last - 1
        /\ (Skipped + ((j - Skipped) - 1)) + 1 = j
  BY LineIs
<1>3. line_end < last => line_end \in line_start .. last - 1
  BY LineIs
<1>4. ASSUME NEW j \in Here .. Skipped + line_end PROVE file[j] # Newline
  <2>1. data[(j - Skipped) - 1] # Newline
    BY <1>2, line_endIs
  <2>2. data[(j - Skipped) - 1] = file[(Skipped + ((j - Skipped) - 1)) + 1]
    BY <1>1, <1>2
  <2> QED
    BY <1>2, <2>1, <2>2
<1> QED
  BY <1>1, <1>3, <1>4, line_endIs

\* The lines that are found are a sequence of texts.
LEMMA HitsSeq ==
  ASSUME NEW C, NEW text \in Seq(C), NEW to \in 0 .. Len(text), NEW i \in 1 .. to + 1
  PROVE  Hits(text, i, to) \in Seq(Seq(C))
<1>1. to \in Nat
  OBVIOUS
<1>2. EndsAt(text, i, to, LineEnd(text, i, to))
  BY <1>1, LineEndIs
<1> QED
  BY <1>2, HitsIs

\* A line that ends in the buffer: its text is printed or not, and the rest is still to come.
LEMMA SearchMore ==
  ASSUME file \in Files, IsText(file), Reading, doing = "line", line_end < last
  PROVE  /\ printed \o Rest(Here) = Printed(printed, Line) \o Rest((Skipped + line_end) + 2)
         /\ Printed(printed, Line) \in Seq(Seq(Range(file)))
<1> DEFINE C == Range(file)
           e == (Skipped + line_end) + 1
           s == Printed(printed, Line)
<1>0. Placed /\ Buffered /\ Unwritten /\ printed \in Seq(Seq(C))
  BY DEF Reading, Output
<1>1. file \in Seq(C)
  BY FileIs
<1>2. Len(file) \in Nat /\ Here \in 1 .. e /\ e <= at /\ at <= Len(file) /\ e \in Nat /\ e - 1 = Skipped + line_end
      /\ e + 1 = (Skipped + line_end) + 2 /\ at \in Nat
  <2>1. /\ Len(file) \in Nat /\ at \in Nat /\ last \in Nat /\ line_start \in Nat /\ line_end \in Nat /\ Skipped \in Nat
        /\ at = Skipped + last /\ Here = (Skipped + line_start) + 1 /\ line_start <= line_end /\ at <= Len(file)
    BY <1>0, LineIs
  <2> QED
    BY <2>1
<1>3. file[e] = Newline /\ \A j \in Here .. Skipped + line_end : file[j] # Newline
  BY <1>0, LineEnds
<1>4. Line = SubSeq(file, Here, e - 1)
  BY <1>2 DEF Line
<1>5. (Skipped + line_end) + 2 = e + 1
  BY <1>2
<1> HIDE DEF C, e
<1>6. ASSUME NEW to \in 0 .. Len(file), e <= to
      PROVE  /\ printed \o Hits(file, Here, to) = s \o Hits(file, e + 1, to) /\ s \in Seq(Seq(C))
             /\ Hits(file, Here, to) \in Seq(Seq(C)) /\ Hits(file, e + 1, to) \in Seq(Seq(C))
  <2>1. to \in Nat /\ Here \in 1 .. to + 1 /\ e + 1 \in 1 .. to + 1 /\ e \in Here .. to + 1
    BY <1>2, <1>6
  <2>2. EndsAt(file, Here, to, e)
    BY <1>2, <1>3, <2>1 DEF EndsAt
  <2>3. printed \o Hits(file, Here, to) = Printed(printed, SubSeq(file, Here, e - 1)) \o Hits(file, e + 1, to)
        /\ Printed(printed, SubSeq(file, Here, e - 1)) \in Seq(Seq(C))
    BY <1>0, <1>1, <1>6, <2>1, <2>2, LineThenMore
  <2>4. Hits(file, Here, to) \in Seq(Seq(C)) /\ Hits(file, e + 1, to) \in Seq(Seq(C))
    BY <1>1, <2>1, HitsSeq
  <2> QED
    BY <1>4, <2>3, <2>4
<1> HIDE DEF s
<1>7. CASE ~Breaks
  <2>1. \A i : Rest(i) = Hits(file, i, Len(file))
    BY <1>7 DEF Rest
  <2>2. Len(file) \in 0 .. Len(file) /\ e <= Len(file)
    BY <1>2
  <2>3. printed \o Hits(file, Here, Len(file)) = s \o Hits(file, e + 1, Len(file)) /\ s \in Seq(Seq(C))
    BY <1>6, <2>2
  <2> QED
    BY <1>5, <2>1, <2>3 DEF s, C
<1>8. CASE Breaks
  <2> DEFINE z == Hits(file, Cut + 1, Len(file))
  <2>1. \A i : Rest(i) = Hits(file, i, Cut) \o z
    BY <1>8, Zenon DEF Rest
  <2>2. at <= Cut /\ Cut < Len(file) /\ Cut \in Nat
    BY <1>0, <1>8, WholeReads DEF Breaks
  <2>3. Cut \in 0 .. Len(file) /\ e <= Cut
    BY <1>2, <2>2
  <2>4. z \in Seq(Seq(C))
    <3>1. Len(file) \in 0 .. Len(file) /\ Cut + 1 \in 1 .. Len(file) + 1
      BY <1>2, <2>2
    <3> QED
      BY <1>1, <3>1, HitsSeq
  <2> HIDE DEF z
  <2> DEFINE x == Hits(file, Here, Cut)
             y == Hits(file, e + 1, Cut)
             p == printed
  <2>5. p \o x = s \o y /\ s \in Seq(Seq(C)) /\ x \in Seq(Seq(C)) /\ y \in Seq(Seq(C)) /\ p \in Seq(Seq(C))
    BY <1>0, <1>6, <2>3
  <2>6. Rest(Here) = x \o z /\ Rest((Skipped + line_end) + 2) = y \o z
    BY <1>5, <2>1
  <2> HIDE DEF x, y, p
  <2>7. p \o (x \o z) = s \o (y \o z)
    <3> DEFINE T == Seq(C)
    <3>1. p \in Seq(T) /\ x \in Seq(T) /\ y \in Seq(T) /\ z \in Seq(T) /\ s \in Seq(T) /\ p \o x = s \o y
      BY <2>4, <2>5
    <3> HIDE DEF T
    <3>2. \A a, b, c \in Seq(T) : (a \o b) \o c = a \o (b \o c)
      BY Associates
    <3>3. (p \o x) \o z = p \o (x \o z) /\ (s \o y) \o z = s \o (y \o z)
      BY <3>1, <3>2, Zenon
    <3> QED
      BY <3>1, <3>3, Zenon
  <2> QED
    BY <2>5, <2>6, <2>7 DEF s, C, p
<1> QED
  BY <1>7, <1>8

\* The last line of a file that has no newline at its end.
LEMMA SearchLast ==
  ASSUME file \in Files, IsText(file), Reading, doing = "line", line_end = last, at = Len(file)
  PROVE  /\ ~Breaks
         /\ printed \o Rest(Here) = Printed(printed, Line)
         /\ Printed(printed, Line) \in Seq(Seq(Range(file)))
<1> DEFINE C == Range(file)
           n == Len(file)
<1>0. Placed /\ Buffered /\ Unwritten /\ printed \in Seq(Seq(C))
  BY DEF Reading, Output
<1>1. file \in Seq(C)
  BY FileIs
<1>2. n \in Nat /\ Here \in 1 .. n + 1 /\ Skipped + line_end = n
  BY <1>0, LineIs
<1>3. ~Breaks
  BY <1>0, <1>2, WholeReads DEF Breaks
<1>4. Rest(Here) = Hits(file, Here, n) /\ Line = SubSeq(file, Here, n)
  BY <1>2, <1>3 DEF Rest, Line
<1>5. \A j \in Here .. n : file[j] # Newline
  BY <1>0, <1>2, LineEnds
<1>6. EndsAt(file, Here, n, n + 1)
  BY <1>2, <1>5 DEF EndsAt
<1>7. n \in 0 .. Len(file)
  BY <1>2
<1> HIDE DEF C, n
<1>8. printed \o Hits(file, Here, n) = Printed(printed, SubSeq(file, Here, n))
      /\ Printed(printed, SubSeq(file, Here, n)) \in Seq(Seq(C))
  BY <1>0, <1>1, <1>2, <1>6, <1>7, LastLine
<1> QED
  BY <1>3, <1>4, <1>8 DEF C

\* A line as long as the buffer, and one that is broken.
LEMMA SearchFull ==
  ASSUME file \in Files, IsText(file), Reading, doing = "line", line_end = last, at < Len(file), ~Partial
  PROVE  /\ last = BUFSIZE /\ cnt # 0
         /\ printed \o Rest(Here) = Printed(printed, Line) \o Hits(file, at + 1, Len(file))
         /\ Printed(printed, Line) \in Seq(Seq(Range(file)))
<1> DEFINE C == Range(file)
           n == Len(file)
           s == Printed(printed, Line)
<1>0. Placed /\ Buffered /\ Unwritten /\ printed \in Seq(Seq(C))
  BY DEF Reading, Output
<1>1. file \in Seq(C)
  BY FileIs
<1>2. n \in Nat /\ Here \in 1 .. n + 1 /\ Skipped + line_end = at /\ at \in Nat /\ at < n /\ Here <= at + 1
      /\ (last > 0 => Here <= at)
  BY <1>0, LineIs
<1>3. last = BUFSIZE /\ cnt # 0 /\ BUFSIZE > 0
  BY <1>0, FileIs DEF Placed
<1>4. \A j \in Here .. at : file[j] # Newline
  BY <1>0, <1>2, LineEnds
<1>5. Line = SubSeq(file, Here, at)
  BY <1>2 DEF Line
<1>6. CASE data[BUFSIZE] = Newline
  <2>1. Whole(at) /\ (\A k \in Cuts : at <= k) /\ (Cuts # {} => at <= Cut /\ Cut \in Nat)
    BY <1>0, <1>2, <1>6, WholeReads
  <2>2. at \in Cuts
    <3>1. at \in 1 .. Len(file) /\ file[at] # Newline
      BY <1>2, <1>3, <1>4
    <3> QED
      BY <1>2, <2>1, <3>1 DEF Cuts, Whole
  <2>3. Cut = at
    BY <1>2, <2>1, <2>2, CutIs
  <2>4. Breaks
    BY <1>6, <2>2 DEF Breaks
  <2>5. Rest(Here) = Hits(file, Here, at) \o Hits(file, at + 1, n)
    BY <2>3, <2>4, Zenon DEF Rest
  <2>6. EndsAt(file, Here, at, at + 1) /\ at \in 0 .. Len(file) /\ Here \in 1 .. at + 1
    BY <1>2, <1>4 DEF EndsAt
  <2> HIDE DEF C, n
  <2>7. printed \o Hits(file, Here, at) = s /\ s \in Seq(Seq(C))
    BY <1>0, <1>1, <1>5, <2>6, LastLine
  <2>8. Hits(file, Here, at) \in Seq(Seq(C))
    BY <1>1, <2>6, HitsSeq
  <2>9. Hits(file, at + 1, n) \in Seq(Seq(C))
    <3>1. n \in 0 .. Len(file) /\ at + 1 \in 1 .. n + 1
      BY <1>2 DEF n
    <3> QED
      BY <1>1, <3>1, HitsSeq
  <2> DEFINE x == Hits(file, Here, at)
             z == Hits(file, at + 1, n)
             p == printed
  <2> HIDE DEF s
  <2>10. p \o (x \o z) = s \o z
    <3> DEFINE T == Seq(C)
    <3>1. p \in Seq(T) /\ x \in Seq(T) /\ z \in Seq(T) /\ p \o x = s
      BY <1>0, <2>7, <2>8, <2>9
    <3> HIDE DEF T, p, x, z
    <3>2. \A a, b, c \in Seq(T) : (a \o b) \o c = a \o (b \o c)
      BY Associates
    <3> QED
      BY <3>1, <3>2, Zenon
  <2> QED
    BY <1>3, <2>5, <2>7, <2>10 DEF s, C, n
<1>7. CASE data[BUFSIZE] # Newline
  <2>1. line_start = 0
    BY <1>3, <1>7 DEF Partial
  <2>2. Here = (at - BUFSIZE) + 1 /\ Here \in 1 .. n - BUFSIZE /\ Here + BUFSIZE = at + 1
    <3>1. Skipped \in Nat /\ at = Skipped + BUFSIZE /\ Here = (Skipped + 0) + 1 /\ BUFSIZE \in Nat
      BY <1>0, <1>3, <2>1, LineIs
    <3> QED
      BY <1>2, <3>1
  <2>3. file[at + 1] = Newline
    <3>1. PICK j \in Here .. Here + BUFSIZE : file[j] = Newline
      BY <2>2 DEF IsText
    <3>2. ~(j \in Here .. at)
      BY <1>4, <3>1
    <3>3. j = at + 1
      BY <1>2, <2>2, <3>1, <3>2
    <3> QED
      BY <3>1, <3>3
  <2>4. Rest(Here) = Hits(file, Here, n)
    BY <1>7 DEF Rest, Breaks
  <2>5. EndsAt(file, Here, n, at + 1)
    BY <1>2, <1>4, <2>3 DEF EndsAt
  <2>6. n \in 0 .. Len(file) /\ at + 1 <= n /\ at + 1 \in 1 .. n /\ (at + 1) - 1 = at
    BY <1>2
  <2> HIDE DEF C, n
  <2>7. printed \o Hits(file, Here, n) = Printed(printed, SubSeq(file, Here, (at + 1) - 1)) \o Hits(file, (at + 1) + 1, n)
        /\ Printed(printed, SubSeq(file, Here, (at + 1) - 1)) \in Seq(Seq(C))
    BY <1>0, <1>1, <1>2, <2>5, <2>6, LineThenMore
  <2>8. Hits(file, at + 1, n) = Hits(file, (at + 1) + 1, n)
    BY <1>1, <2>3, <2>6, EmptyLine
  <2> QED
    BY <1>3, <1>5, <2>4, <2>6, <2>7, <2>8 DEF C, n
<1> QED
  BY <1>6, <1>7

\* What the file promises does not change.
LEMMA TextStays ==
  ASSUME file' = file, junk' = junk
  PROVE  Cuts' = Cuts /\ Cut' = Cut /\ AllHits' = AllHits /\ (IsText(file))' = IsText(file)
<1>1. Cuts' = Cuts
  BY DEF Cuts
<1>2. Cut' = Cut
  BY <1>1 DEF Cut
<1>3. AllHits' = AllHits
  BY <1>1 DEF AllHits
<1>4. (IsText(file))' = IsText(file)
  BY DEF IsText
<1> QED
  BY <1>1, <1>2, <1>3, <1>4

\* What is still to be printed depends on these.
LEMMA RestStays ==
  ASSUME file' = file, junk' = junk, Breaks' <=> Breaks, Here' = Here
  PROVE  (Rest(Here))' = Rest(Here)
<1>1. Cut' = Cut
  BY TextStays
<1>2. (Rest(Here))' = IF Breaks' THEN Hits(file', Here', Cut') \o Hits(file', Cut' + 1, Len(file')) ELSE Hits(file', Here', Len(file'))
  BY Zenon DEF Rest
<1>3. Rest(Here) = IF Breaks THEN Hits(file, Here, Cut) \o Hits(file, Cut + 1, Len(file)) ELSE Hits(file, Here, Len(file))
  BY Zenon DEF Rest
<1>4. CASE Breaks
  BY <1>1, <1>2, <1>3, <1>4, Zenon
<1>5. CASE ~Breaks
  BY <1>1, <1>2, <1>3, <1>5, Zenon
<1> QED
  BY <1>4, <1>5

\* The less of two numbers, by its place.
LEMMA LesserOf ==
  ASSUME NEW a \in Nat, NEW b \in Nat
  PROVE  Min({a, b}) \in {a, b} /\ Min({a, b}) <= a /\ Min({a, b}) <= b
<1> DEFINE S == {a, b}
           k == IF a <= b THEN a ELSE b
<1>1. S \in SUBSET Nat /\ k \in S /\ \A i \in S : k <= i
  OBVIOUS
<1>2. k \in {a, b} /\ k <= a /\ k <= b
  OBVIOUS
<1> HIDE DEF S, k
<1>3. Min(S) = k
  BY <1>1, Minimum
<1> QED
  BY <1>2, <1>3 DEF S

\* A read fills the buffer with what comes next in the file.
LEMMA ReadMoreKeeps ==
  ASSUME file \in Files, IsText(file), Reading, ReadMore
  PROVE  Reading'
<1> DEFINE n == cnt'
           B == BUFSIZE
           L == Len(file)
<1>0. Placed /\ Buffered /\ Unwritten /\ Output
  BY DEF Reading
<1>1. /\ L \in Nat /\ B \in Nat /\ B > 0 /\ at \in Nat /\ last \in Nat /\ at <= L /\ last < B /\ last <= at
  BY <1>0, FileIs DEF Placed, ReadMore
<1>2. n \in Nat /\ n <= B - last /\ n <= L - at /\ (n = B - last \/ n = L - at)
  <2>1. B - last \in Nat /\ L - at \in Nat
    BY <1>1
  <2>2. n = Min({B - last, L - at})
    BY DEF ReadMore
  <2> HIDE DEF n, B, L
  <2> QED
    BY <2>1, <2>2, LesserOf
<1>3. /\ doing = "read" /\ doing' = "line" /\ at' = at + n /\ last' = last + n /\ line_start' = 0
      /\ file' = file /\ junk' = junk /\ printed' = printed
  BY DEF ReadMore
<1>4. data' = [i \in 0 .. B |-> IF i \in last .. (last + n) - 1 THEN file[((at + 1) + i) - last] ELSE data[i]]
  <2>1. data' = [i \in 0 .. B |-> IF i \in last .. last + n - 1 THEN file[at + 1 + i - last] ELSE data[i]]
    BY DEF ReadMore
  <2> QED
    BY <1>1, <1>2, <2>1
<1> HIDE DEF n
<1>5. Skipped \in Nat /\ at = Skipped + last /\ Skipped' = Skipped /\ Kept = 0 /\ Kept' = 0 /\ Here' = Here
  <2>1. Skipped = at - last /\ Skipped' = at' - last'
    BY DEF Skipped
  <2>2. Kept = 0 /\ Kept' = 0
    BY <1>3 DEF Kept
  <2>3. Skipped \in Nat /\ at = Skipped + last /\ Skipped' = Skipped
    BY <1>1, <1>2, <1>3, <2>1
  <2> QED
    BY <2>2, <2>3 DEF Here
<1>6. data'[B] = data[B]
  <2>1. B \in 0 .. B /\ ~(B \in last .. (last + n) - 1)
    BY <1>1, <1>2
  <2> HIDE DEF B
  <2> QED
    BY <1>4, <2>1
<1>7. Placed'
  <2>1. at' \in 0 .. L /\ last' \in 0 .. B /\ last' <= at' /\ (at' < L => last' = B /\ n # 0)
    BY <1>1, <1>2, <1>3
  <2> QED
    BY <1>2, <1>3, <2>1 DEF Placed, n
<1>8. Buffered'
  <2>1. data' = [j \in 0 .. B |-> data'[j]]
    <3> HIDE DEF B
    <3> QED
      BY <1>4
  <2>2. ASSUME NEW j \in 0 .. (last + n) - 1 PROVE data'[j] = file[(Skipped + j) + 1]
    <3>0. j \in 0 .. B
      BY <1>1, <1>2
    <3>1. CASE j < last
      <4>1. ~(j \in last .. (last + n) - 1) /\ j \in 0 .. last - 1
        BY <1>1, <1>2, <3>1
      <4>2. data[j] = file[(Skipped + j) + 1]
        BY <1>0, <1>5, <4>1 DEF Buffered
      <4> HIDE DEF B
      <4> QED
        BY <1>4, <3>0, <4>1, <4>2
    <3>2. CASE j >= last
      <4>1. j \in last .. (last + n) - 1 /\ ((at + 1) + j) - last = (Skipped + j) + 1
        BY <1>1, <1>2, <1>5, <3>2
      <4> HIDE DEF B
      <4> QED
        BY <1>4, <3>0, <4>1
    <3> QED
      BY <1>1, <3>1, <3>2
  <2>3. \A j \in 0 .. last' - 1 : data'[j] = file'[(Skipped' + j) + 1]
    <3>1. last' - 1 = (last + n) - 1
      BY <1>1, <1>2, <1>3
    <3> QED
      BY <1>3, <1>5, <2>2, <3>1
  <2> QED
    BY <1>5, <2>1, <2>3 DEF Buffered
<1>9. Unwritten'
  <2> SUFFICES ASSUME data'[B] = Newline PROVE Unwritten'
    BY DEF Unwritten
  <2>1. junk' = Newline
    BY <1>0, <1>3, <1>6 DEF Unwritten
  <2>2. CASE at = L /\ Cuts = {}
    <3>1. at' = Len(file')
      BY <1>1, <1>2, <1>3, <2>2
    <3> QED
      BY <1>3, <2>1, <2>2, <3>1, TextStays DEF Unwritten
  <2>3. CASE ~(at = L /\ Cuts = {})
    <3>1. Whole(Skipped) /\ \A k \in Cuts : Skipped < k
      BY <1>0, <1>6, <2>3 DEF Unwritten
    <3>2. (Whole(Skipped))'
      BY <1>5, <3>1 DEF Whole
    <3> QED
      BY <1>3, <1>5, <2>1, <3>1, <3>2, TextStays DEF Unwritten
  <2> QED
    BY <2>2, <2>3
<1>10. Output'
  <2>1. Breaks' <=> Breaks
    BY <1>3, <1>6, TextStays DEF Breaks
  <2>2. (Rest(Here))' = Rest(Here)
    BY <1>3, <1>5, <2>1, RestStays
  <2>3. printed \in Seq(Seq(Range(file))) /\ printed \o Rest(Here) = AllHits
    BY <1>0, <1>3 DEF Output
  <2>4. AllHits' = AllHits
    BY <1>3, TextStays
  <2>5. doing' # "done"
    BY <1>3
  <2>6. (Seq(Seq(Range(file))))' = Seq(Seq(Range(file)))
    BY <1>3
  <2>7. printed' \o (Rest(Here))' = AllHits'
    BY <1>3, <2>2, <2>3, <2>4, Zenon
  <2> QED
    BY <1>3, <2>3, <2>5, <2>6, <2>7, Zenon DEF Output
<1> QED
  BY <1>7, <1>8, <1>9, <1>10 DEF Reading

\* The part of a line that is in the buffer is moved to its front.
LEMMA MoveRestKeeps ==
  ASSUME file \in Files, IsText(file), Reading, MoveRest
  PROVE  Reading'
<1> DEFINE B == BUFSIZE
           L == Len(file)
           m == last - line_start
           rest == String(Ended, line_start)
<1>0. Placed /\ Buffered /\ Unwritten /\ Output /\ doing = "line"
  BY DEF Reading, MoveRest
<1>1. data[line_end] # Newline /\ cnt # 0 /\ line_start # 0
  BY DEF MoveRest, Partial
<1>2. line_end = last
  BY <1>0, <1>1, LineIs, line_endIs
<1>3. /\ L \in Nat /\ B \in Nat /\ at \in Nat /\ last \in Nat /\ line_start \in Nat /\ Skipped \in Nat /\ at = Skipped + last
      /\ Here = (Skipped + line_start) + 1 /\ line_start < last /\ last <= B /\ at <= L /\ line_start > 0
  BY <1>0, <1>1, LineIs DEF Placed
<1>4. m \in Nat /\ m > 0 /\ m < B /\ m <= last /\ last = line_start + m
  BY <1>3
<1>5. /\ last' = m /\ doing' = "read" /\ file' = file /\ at' = at /\ junk' = junk /\ cnt' = cnt
      /\ line_start' = line_start /\ printed' = printed
  BY DEF MoveRest
<1>6. data' = [i \in 0 .. B |-> IF i < Len(rest) THEN rest[i + 1] ELSE IF i = Len(rest) THEN Nul ELSE Ended[i]]
  BY DEF MoveRest
<1>7. Len(rest) = m /\ \A k \in 1 .. m : rest[k] = file[(Here + k) - 1]
  <2> DEFINE C == Range(file)
             e == (Skipped + last) + 1
  <2>1. rest = SubSeq(file, Here, e - 1)
    BY <1>0, <1>2, <1>3, StringsAre DEF Line
  <2>2. file \in Seq(C) /\ Here \in 1 .. Len(file) + 1 /\ e \in Here .. Len(file) + 1 /\ e - Here = m
    BY <1>3, FileIs
  <2> HIDE DEF rest, C, e, m
  <2>3. Len(SubSeq(file, Here, e - 1)) = e - Here /\ \A k \in 1 .. e - Here : SubSeq(file, Here, e - 1)[k] = file[Here + k - 1]
    BY <2>2, SliceIs
  <2>4. \A k \in 1 .. m : Here + k - 1 = (Here + k) - 1
    BY <1>3, <1>4
  <2> QED
    BY <2>1, <2>2, <2>3, <2>4
<1> HIDE DEF m, rest
<1>8. Skipped' = Skipped + line_start /\ Kept' = 0 /\ Here' = Here
  <2>1. Skipped' = at - m /\ Kept' = 0
    BY <1>5 DEF Skipped, Kept
  <2>2. Skipped' = Skipped + line_start
    BY <1>3, <1>4, <2>1
  <2> QED
    BY <1>3, <2>1, <2>2 DEF Here
<1>9. data'[B] = Newline <=> data[B] = Newline
  <2>1. B \in 0 .. B /\ ~(B < m) /\ B # m
    BY <1>3, <1>4
  <2>2. data'[B] = Ended[B]
    <3> HIDE DEF B
    <3> QED
      BY <1>6, <1>7, <2>1
  <2>3. Nul # Newline
    BY DEF Nul, Newline
  <2>4. Ended[line_end] = Nul /\ (B # line_end => Ended[B] = data[B])
    BY <1>0, <2>1, EndedIs
  <2> QED
    BY <1>1, <2>2, <2>3, <2>4
<1>10. Placed'
  <2>1. last' \in 0 .. B /\ last' <= at' /\ at' \in 0 .. L /\ last' < B
    BY <1>3, <1>4, <1>5
  <2> QED
    BY <1>0, <1>5, <2>1 DEF Placed
<1>11. Buffered'
  <2>1. data' = [j \in 0 .. B |-> data'[j]]
    <3> HIDE DEF B
    <3> QED
      BY <1>6
  <2>2. ASSUME NEW j \in 0 .. m - 1 PROVE data'[j] = file[((Skipped + line_start) + j) + 1]
    <3>1. j \in 0 .. B /\ j < m /\ j + 1 \in 1 .. m /\ (Here + (j + 1)) - 1 = ((Skipped + line_start) + j) + 1
      BY <1>3, <1>4
    <3> HIDE DEF B
    <3> QED
      BY <1>6, <1>7, <3>1
  <2> QED
    BY <1>5, <1>8, <2>1, <2>2 DEF Buffered
<1>12. Unwritten'
  <2> SUFFICES ASSUME data[B] = Newline PROVE Unwritten'
    BY <1>9 DEF Unwritten
  <2>1. last # B
    BY <1>1, <1>2
  <2>2. junk = Newline /\ Cuts = {}
    BY <1>0, <2>1, WholeReads
  <2>3. at = L
    <3>1. ~(at < L)
      BY <1>0, <2>1 DEF Placed
    <3> QED
      BY <1>3, <3>1
  <2> QED
    BY <1>5, <2>2, <2>3, TextStays DEF Unwritten
<1>13. Output'
  <2>1. Breaks' <=> Breaks
    BY <1>5, <1>9, TextStays DEF Breaks
  <2>2. (Rest(Here))' = Rest(Here)
    BY <1>5, <1>8, <2>1, RestStays
  <2>3. printed \in Seq(Seq(Range(file))) /\ printed \o Rest(Here) = AllHits
    BY <1>0 DEF Output
  <2>4. AllHits' = AllHits
    BY <1>5, TextStays
  <2>5. doing' # "done"
    BY <1>5
  <2>6. (Seq(Seq(Range(file))))' = Seq(Seq(Range(file)))
    BY <1>5
  <2>7. printed' \o (Rest(Here))' = AllHits'
    BY <1>5, <2>2, <2>3, <2>4, Zenon
  <2> QED
    BY <1>5, <2>3, <2>5, <2>6, <2>7, Zenon DEF Output
<1> QED
  BY <1>10, <1>11, <1>12, <1>13 DEF Reading

\* What is still to be printed, from a new place on.
LEMMA RestMoves ==
  ASSUME file' = file, junk' = junk, NEW i, Here' = i
  PROVE  /\ (Breaks' <=> Breaks) => (Rest(Here))' = Rest(i)
         /\ ~Breaks' => (Rest(Here))' = Hits(file, i, Len(file))
<1>1. Cut' = Cut
  BY TextStays
<1>2. (Rest(Here))' = IF Breaks' THEN Hits(file', Here', Cut') \o Hits(file', Cut' + 1, Len(file')) ELSE Hits(file', Here', Len(file'))
  BY Zenon DEF Rest
<1>3. Rest(i) = IF Breaks THEN Hits(file, i, Cut) \o Hits(file, Cut + 1, Len(file)) ELSE Hits(file, i, Len(file))
  BY Zenon DEF Rest
<1>4. CASE Breaks
  BY <1>1, <1>2, <1>3, <1>4, Zenon
<1>5. CASE ~Breaks
  BY <1>1, <1>2, <1>3, <1>5, Zenon
<1> QED
  BY <1>4, <1>5

\* What a search leaves behind it, whatever ended the line.
LEMMA SearchIs ==
  ASSUME file \in Files, IsText(file), Reading, SearchLine
  PROVE  /\ doing = "line" /\ ~Partial /\ file' = file /\ junk' = junk /\ at' = at /\ cnt' = cnt
         /\ data' = [j \in 0 .. BUFSIZE |-> data'[j]]
         /\ \A j \in 0 .. BUFSIZE : j # line_end => data'[j] = data[j]
         /\ data'[BUFSIZE] = Newline => line_end # BUFSIZE /\ data[BUFSIZE] = Newline
         /\ printed' = Printed(printed, Line) /\ line_start' = line_end + 1
         /\ AllHits' = AllHits /\ Cuts' = Cuts
         /\ (Seq(Seq(Range(file))))' = Seq(Seq(Range(file)))
         /\ printed \o Rest(Here) = AllHits
<1>1. Placed /\ Buffered /\ doing = "line" /\ ~Partial /\ file' = file /\ junk' = junk /\ data' = Ended /\ Output
      /\ at' = at /\ cnt' = cnt
  BY DEF Reading, SearchLine
<1>2. Ended = [j \in 0 .. BUFSIZE |-> Ended[j]] /\ Ended[line_end] = Nul
      /\ \A j \in 0 .. BUFSIZE : j # line_end => Ended[j] = data[j]
  BY <1>1, EndedIs
<1>3. Nul # Newline
  BY DEF Nul, Newline
<1>4. BUFSIZE \in 0 .. BUFSIZE
  BY <1>1, LineIs
<1>5. data'[BUFSIZE] = Newline => line_end # BUFSIZE /\ data[BUFSIZE] = Newline
  BY <1>1, <1>2, <1>3, <1>4
<1>6. printed' = Printed(printed, Line)
  <2>1. printed' = IF Matches(Ended) THEN Append(printed, String(Ended, line_start)) ELSE printed
    BY DEF SearchLine
  <2>2. String(Ended, line_start) = Line /\ (Matches(Ended) <=> HasPattern(Line))
    BY <1>1, StringsAre
  <2> QED
    BY <2>1, <2>2, Zenon DEF Printed
<1>7. line_start' = line_end + 1
  BY DEF SearchLine
<1>8. AllHits' = AllHits /\ Cuts' = Cuts
  BY <1>1, TextStays
<1>9. printed \o Rest(Here) = AllHits
  BY <1>1 DEF Output
<1>10. (Seq(Seq(Range(file))))' = Seq(Seq(Range(file)))
  BY <1>1
<1> QED
  BY <1>1, <1>2, <1>5, <1>6, <1>7, <1>8, <1>9, <1>10

\* More of what is in the buffer is to be searched.
LEMMA SearchOnKeeps ==
  ASSUME file \in Files, IsText(file), Reading, SearchLine, line_end + 1 < last
  PROVE  Reading'
<1>0. Placed /\ Buffered /\ Unwritten /\ doing = "line" /\ last' = last /\ doing' = doing
  BY DEF Reading, SearchLine
<1>1. /\ BUFSIZE \in Nat /\ at \in Nat /\ last \in Nat /\ line_start \in Nat /\ line_end \in Nat /\ Skipped \in Nat
      /\ line_start <= line_end /\ last <= BUFSIZE /\ line_end < last
  BY <1>0, LineIs
<1>2. data'[BUFSIZE] = data[BUFSIZE]
  <2>1. BUFSIZE \in 0 .. BUFSIZE /\ BUFSIZE # line_end
    BY <1>1
  <2> QED
    BY <2>1, SearchIs
<1>3. Skipped' = Skipped /\ Kept' = line_end + 1 /\ Here' = (Skipped + line_end) + 2
  <2>1. Skipped' = Skipped /\ Kept' = line_end + 1
    BY <1>0, SearchIs DEF Skipped, Kept
  <2>2. Here' = (Skipped' + Kept') + 1
    BY DEF Here
  <2> QED
    BY <1>1, <2>1, <2>2
<1>4. Placed'
  BY <1>0, <1>1, SearchIs DEF Placed
<1>5. Buffered'
  <2>1. \A j \in line_end + 1 .. last - 1 : j \in 0 .. BUFSIZE /\ j # line_end /\ j \in line_start .. last - 1
    BY <1>1
  <2>2. \A j \in line_start .. last - 1 : data[j] = file[(Skipped + j) + 1]
    BY <1>0 DEF Buffered, Kept
  <2>3. \A j \in line_end + 1 .. last - 1 : data'[j] = file[(Skipped + j) + 1]
    BY <2>1, <2>2, SearchIs
  <2> QED
    BY <1>0, <1>3, <2>3, SearchIs DEF Buffered
<1>6. Unwritten'
  <2> SUFFICES ASSUME data[BUFSIZE] = Newline PROVE Unwritten'
    BY <1>2 DEF Unwritten
  <2>1. (Whole(Skipped))' <=> Whole(Skipped)
    BY <1>3 DEF Whole
  <2> QED
    BY <1>0, <1>3, <2>1, SearchIs DEF Unwritten
<1>7. Output'
  <2>1. Breaks' <=> Breaks
    BY <1>2, SearchIs DEF Breaks
  <2>2. (Rest(Here))' = Rest((Skipped + line_end) + 2)
    BY <1>3, <2>1, SearchIs, RestMoves
  <2>3. /\ printed \o Rest(Here) = Printed(printed, Line) \o Rest((Skipped + line_end) + 2)
        /\ Printed(printed, Line) \in Seq(Seq(Range(file)))
    BY <1>0, <1>1, SearchMore
  <2>4. doing' # "done"
    BY <1>0
  <2>5. printed' \o (Rest(Here))' = AllHits'
    BY <2>2, <2>3, SearchIs, Zenon
  <2>6. printed' \in (Seq(Seq(Range(file))))'
    BY <2>3, SearchIs, Zenon
  <2> QED
    BY <2>4, <2>5, <2>6, Zenon DEF Output
<1> QED
  BY <1>4, <1>5, <1>6, <1>7 DEF Reading

\* All that is in the buffer is searched: the parts that do not depend on how the last line in it ends.
LEMMA EmptiedIs ==
  ASSUME file \in Files, IsText(file), Reading, SearchLine, ~(line_end + 1 < last)
  PROVE  /\ Placed' /\ Buffered' /\ Skipped' = at /\ last' = 0 /\ Here' = at + 1
         /\ doing' = IF cnt = 0 THEN "done" ELSE "read"
         /\ cnt = 0 => at = Len(file)
<1>0. Placed /\ Buffered /\ Unwritten /\ doing = "line" /\ last' = 0 /\ doing' = IF cnt = 0 THEN "done" ELSE "read"
  BY DEF Reading, SearchLine
<1>1. /\ Len(file) \in Nat /\ BUFSIZE \in Nat /\ at \in Nat /\ last \in Nat /\ line_end \in Nat /\ at <= Len(file) /\ BUFSIZE > 0
  BY <1>0, LineIs, FileIs
<1>2. doing' \in {"read", "done"}
  BY <1>0
<1>3. Skipped' = at /\ Kept' = 0 /\ Here' = at + 1
  <2>1. Skipped' = at - 0 /\ Kept' = 0
    BY <1>0, <1>2, SearchIs DEF Skipped, Kept
  <2>2. Here' = (Skipped' + Kept') + 1
    BY DEF Here
  <2> QED
    BY <1>1, <2>1, <2>2
<1>4. Placed'
  BY <1>0, <1>1, <1>2, SearchIs DEF Placed
<1>5. Buffered'
  BY <1>0, <1>3, SearchIs DEF Buffered
<1>6. cnt = 0 => at = Len(file)
  BY <1>0, <1>1 DEF Placed
<1> QED
  BY <1>0, <1>3, <1>4, <1>5, <1>6

\* Nothing is left of the file.
LEMMA NothingLeft ==
  ASSUME file \in Files
  PROVE  Hits(file, Len(file) + 1, Len(file)) = <<>>
<1>1. Len(file) \in 0 .. Len(file) /\ file \in Seq(Range(file))
  BY FileIs
<1> QED
  BY <1>1, NoneBehind

\* The line that ends at the last byte of the buffer is over.
LEMMA SearchedOutKeeps ==
  ASSUME file \in Files, IsText(file), Reading, SearchLine, ~(line_end + 1 < last), line_end < last
  PROVE  Reading'
<1>0. Placed /\ Buffered /\ Unwritten /\ doing = "line"
  BY DEF Reading, SearchLine
<1>1. /\ Len(file) \in Nat /\ BUFSIZE \in Nat /\ at \in Nat /\ last \in Nat /\ line_end \in Nat /\ Skipped \in Nat
      /\ at = Skipped + last /\ last <= BUFSIZE /\ last = line_end + 1 /\ at <= Len(file)
      /\ (Skipped + line_end) + 1 = at /\ (Skipped + line_end) + 2 = at + 1 /\ line_end # BUFSIZE
  <2>1. /\ Len(file) \in Nat /\ BUFSIZE \in Nat /\ at \in Nat /\ last \in Nat /\ line_end \in Nat /\ Skipped \in Nat
        /\ at = Skipped + last /\ last <= BUFSIZE /\ at <= Len(file)
    BY <1>0, LineIs
  <2> QED
    BY <2>1
<1>2. data'[BUFSIZE] = data[BUFSIZE]
  BY <1>1, SearchIs
<1>3. Unwritten'
  <2> SUFFICES ASSUME data[BUFSIZE] = Newline PROVE Unwritten'
    BY <1>2 DEF Unwritten
  <2>1. junk = Newline
    BY <1>0 DEF Unwritten
  <2>2. CASE at = Len(file)
    <3>1. Cuts = {}
      BY <1>0, <1>1, <2>2, WholeReads
    <3> QED
      BY <2>1, <2>2, <3>1, SearchIs DEF Unwritten
  <2>3. CASE at # Len(file)
    <3>1. at < Len(file)
      BY <1>1, <2>3
    <3>2. Whole(at) /\ \A k \in Cuts : at <= k
      BY <1>0, <3>1, WholeReads
    <3>3. file[at] = Newline
      BY <1>0, <1>1, LineEnds
    <3>4. \A k \in Cuts : k \in Nat /\ k # at
      BY <3>3, CutIs DEF Cuts
    <3>5. \A k \in Cuts : at < k
      BY <1>1, <3>2, <3>4
    <3>6. (Whole(Skipped))'
      BY <3>2, EmptiedIs DEF Whole
    <3> QED
      BY <2>1, <3>5, <3>6, EmptiedIs, SearchIs DEF Unwritten
  <2> QED
    BY <2>2, <2>3
<1>4. Output'
  <2>1. Breaks' <=> Breaks
    BY <1>2, SearchIs DEF Breaks
  <2>2. (Rest(Here))' = Rest(at + 1)
    BY <2>1, SearchIs, EmptiedIs, RestMoves
  <2>3. /\ printed \o Rest(Here) = Printed(printed, Line) \o Rest(at + 1)
        /\ Printed(printed, Line) \in Seq(Seq(Range(file)))
    <3>1. /\ printed \o Rest(Here) = Printed(printed, Line) \o Rest((Skipped + line_end) + 2)
          /\ Printed(printed, Line) \in Seq(Seq(Range(file)))
      BY <1>0, <1>1, SearchMore
    <3> QED
      BY <1>1, <3>1
  <2>4. printed' \o (Rest(Here))' = AllHits'
    BY <2>2, <2>3, SearchIs, Zenon
  <2>5. printed' \in (Seq(Seq(Range(file))))'
    BY <2>3, SearchIs, Zenon
  <2>6. doing' = "done" => printed' = AllHits'
    <3> SUFFICES ASSUME doing' = "done" PROVE printed' = AllHits'
      OBVIOUS
    <3>1. at = Len(file)
      BY EmptiedIs
    <3>2. ~Breaks
      BY <1>0, <1>1, <3>1, WholeReads DEF Breaks
    <3>3. Rest(at + 1) = Hits(file, at + 1, Len(file))
      BY <3>2, Zenon DEF Rest
    <3>4. (Rest(Here))' = <<>>
      BY <2>2, <3>1, <3>3, NothingLeft
    <3> DEFINE s == Printed(printed, Line)
               T == Seq(Range(file))
    <3>5. s \in Seq(T) /\ printed' = s
      BY <2>3, SearchIs
    <3> HIDE DEF s, T
    <3>6. s \o <<>> = s
      BY <3>5, ConcatEmptySeq
    <3> QED
      BY <2>4, <3>4, <3>5, <3>6
  <2> QED
    BY <2>4, <2>5, <2>6, Zenon DEF Output
<1> QED
  BY <1>3, <1>4, EmptiedIs DEF Reading

\* The last line in the buffer has no newline: it ends the file, or it fills the buffer.
\* The buffer is over, and with it a line as long as the buffer or the file's last one.
LEMMA SearchedRestKeeps ==
  ASSUME file \in Files, IsText(file), Reading, SearchLine, line_end = last
  PROVE  Reading'
<1>0. Placed /\ Buffered /\ Unwritten /\ doing = "line" /\ ~Partial
  BY DEF Reading, SearchLine
<1>1. /\ Len(file) \in Nat /\ BUFSIZE \in Nat /\ at \in Nat /\ last \in Nat /\ at <= Len(file) /\ last <= BUFSIZE
      /\ ~(line_end + 1 < last)
  BY <1>0, LineIs
<1>2. data'[BUFSIZE] = Newline => last # BUFSIZE /\ junk = Newline /\ at = Len(file) /\ Cuts = {}
  <2> SUFFICES ASSUME data'[BUFSIZE] = Newline
               PROVE  last # BUFSIZE /\ junk = Newline /\ at = Len(file) /\ Cuts = {}
    OBVIOUS
  <2>1. last # BUFSIZE /\ data[BUFSIZE] = Newline
    BY SearchIs
  <2>2. ~(at < Len(file))
    BY <1>0, <2>1 DEF Placed
  <2> QED
    BY <1>0, <1>1, <2>1, <2>2, WholeReads
<1>3. Unwritten'
  BY <1>2, SearchIs DEF Unwritten
<1>4. ~Breaks'
  BY <1>2, SearchIs DEF Breaks
<1>5. (Rest(Here))' = Hits(file, at + 1, Len(file))
  BY <1>1, <1>4, EmptiedIs, SearchIs, RestMoves
<1> DEFINE s == Printed(printed, Line)
           T == Seq(Range(file))
<1>6. ASSUME at = Len(file) PROVE s \in Seq(T) /\ s = AllHits /\ s \o Hits(file, at + 1, Len(file)) = AllHits
  <2>1. printed \o Rest(Here) = s /\ s \in Seq(T)
    BY <1>0, <1>6, SearchLast
  <2>2. Hits(file, at + 1, Len(file)) = <<>>
    BY <1>6, NothingLeft
  <2>3. s = AllHits
    BY <2>1, SearchIs, Zenon
  <2> HIDE DEF s, T
  <2>4. s \o <<>> = s
    BY <2>1, ConcatEmptySeq
  <2> QED
    BY <2>1, <2>2, <2>3, <2>4
<1>7. ASSUME at # Len(file) PROVE s \in Seq(T) /\ doing' # "done" /\ s \o Hits(file, at + 1, Len(file)) = AllHits
  <2>1. at < Len(file)
    BY <1>1, <1>7
  <2>2. cnt # 0 /\ printed \o Rest(Here) = s \o Hits(file, at + 1, Len(file)) /\ s \in Seq(T)
    BY <1>0, <2>1, SearchFull
  <2>3. doing' # "done"
    BY <1>1, <2>2, EmptiedIs
  <2> QED
    BY <2>2, <2>3, SearchIs, Zenon
<1>8. Output'
  <2>1. printed' = s /\ AllHits' = AllHits /\ (Seq(Seq(Range(file))))' = Seq(T)
    BY SearchIs
  <2> HIDE DEF s, T
  <2>2. s \in Seq(T) /\ (doing' = "done" => s = AllHits) /\ s \o Hits(file, at + 1, Len(file)) = AllHits
    BY <1>6, <1>7
  <2>3. printed' \o (Rest(Here))' = AllHits' /\ printed' \in (Seq(Seq(Range(file))))' /\ (doing' = "done" => printed' = AllHits')
    BY <1>5, <2>1, <2>2, Zenon
  <2> QED
    BY <2>3, Zenon DEF Output
<1> QED
  BY <1>1, <1>3, <1>8, EmptiedIs DEF Reading

\* Nothing has been read yet.
LEMMA GrepInvInit == GrepInit => GrepInv
<1> SUFFICES ASSUME GrepInit, IsText(file) PROVE file \in Files /\ Reading
  BY DEF GrepInv, GrepInit
<1>0. /\ file \in Files /\ at = 0 /\ last = 0 /\ cnt = 0 /\ line_start = 0 /\ doing = "read" /\ printed = <<>>
      /\ data = [i \in 0 .. BUFSIZE |-> junk]
  BY DEF GrepInit
<1>1. Len(file) \in Nat /\ BUFSIZE \in Nat /\ BUFSIZE > 0 /\ file \in Seq(Range(file))
  BY <1>0, FileIs
<1>2. Skipped = 0 /\ Kept = 0 /\ Here = 1
  BY <1>0 DEF Skipped, Kept, Here
<1>3. data[BUFSIZE] = junk /\ data = [i \in 0 .. BUFSIZE |-> data[i]]
  BY <1>0, <1>1
<1>4. Placed
  BY <1>0, <1>1 DEF Placed
<1>5. Buffered
  BY <1>0, <1>2, <1>3 DEF Buffered
<1>6. Unwritten
  <2>1. Whole(Skipped)
    <3>1. 0 \in Nat /\ 0 % BUFSIZE = 0
      BY <1>1
    <3> QED
      BY <1>2, <3>1 DEF Whole
  <2>2. \A k \in Cuts : Skipped < k
    BY <1>0, <1>2, CutIs
  <2> QED
    BY <1>0, <1>3, <2>1, <2>2 DEF Unwritten
<1>7. Rest(Here) = AllHits
  <2>1. CASE Breaks
    BY <1>2, <1>3, <2>1, Zenon DEF Rest, AllHits, Breaks, Cut
  <2>2. CASE ~Breaks
    BY <1>2, <1>3, <2>2, Zenon DEF Rest, AllHits, Breaks, Cut
  <2> QED
    BY <2>1, <2>2
<1>8. Output
  <2> DEFINE T == Seq(Range(file))
  <2>1. \A to \in 0 .. Len(file) : \A i \in 1 .. to + 1 : Hits(file, i, to) \in Seq(T)
    BY <1>1, HitsSeq
  <2>2. Len(file) \in 0 .. Len(file) /\ 1 \in 1 .. Len(file) + 1
    BY <1>1
  <2>3. Cuts # {} => Cut \in 0 .. Len(file) /\ 1 \in 1 .. Cut + 1 /\ Cut + 1 \in 1 .. Len(file) + 1
    BY <1>0, <1>1, CutIs
  <2> HIDE DEF T
  <2>4. AllHits \in Seq(T)
    <3>1. CASE Breaks
      <4>1. Hits(file, 1, Cut) \in Seq(T) /\ Hits(file, Cut + 1, Len(file)) \in Seq(T)
        BY <2>1, <2>2, <2>3, <3>1 DEF Breaks
      <4>2. AllHits = Hits(file, 1, Cut) \o Hits(file, Cut + 1, Len(file))
        BY <1>2, <1>7, <3>1, Zenon DEF Rest
      <4> QED
        BY <4>1, <4>2
    <3>2. CASE ~Breaks
      <4>1. AllHits = Hits(file, 1, Len(file))
        BY <1>2, <1>7, <3>2, Zenon DEF Rest
      <4> QED
        BY <2>1, <2>2, <4>1
    <3> QED
      BY <3>1, <3>2
  <2>5. <<>> \o AllHits = AllHits
    BY <2>4, ConcatEmptySeq
  <2>6. printed \in Seq(T)
    BY <1>0
  <2> QED
    BY <1>0, <1>7, <2>5, <2>6 DEF Output, T
<1> QED
  BY <1>0, <1>4, <1>5, <1>6, <1>8 DEF Reading

\* Every step of grep keeps the invariant.
LEMMA GrepInvStep == GrepInv /\ [GrepNext]_grepVars => GrepInv'
<1> SUFFICES ASSUME GrepInv, [GrepNext]_grepVars PROVE GrepInv'
  OBVIOUS
<1>1. file \in Files
  BY DEF GrepInv
<1>2. CASE UNCHANGED grepVars
  <2>1. /\ file' = file /\ at' = at /\ data' = data /\ junk' = junk /\ cnt' = cnt /\ last' = last
        /\ line_start' = line_start /\ doing' = doing /\ printed' = printed
    BY <1>2 DEF grepVars
  <2>2. (IsText(file))' <=> IsText(file)
    BY <2>1, TextStays
  <2>3. Cuts' = Cuts /\ AllHits' = AllHits /\ Skipped' = Skipped /\ Kept' = Kept /\ Here' = Here
    BY <2>1, TextStays DEF Skipped, Kept, Here
  <2>4. Breaks' <=> Breaks
    BY <2>1, <2>3 DEF Breaks
  <2>5. (Rest(Here))' = Rest(Here)
    BY <2>1, <2>3, <2>4, RestStays
  <2>6. Placed' <=> Placed
    BY <2>1 DEF Placed
  <2>7. Buffered' <=> Buffered
    BY <2>1, <2>3 DEF Buffered
  <2>8. Unwritten' <=> Unwritten
    BY <2>1, <2>3 DEF Unwritten, Whole
  <2>9. Output' <=> Output
    <3>1. (Seq(Seq(Range(file))))' = Seq(Seq(Range(file)))
      BY <2>1
    <3> QED
      BY <2>1, <2>3, <2>5, <3>1, Zenon DEF Output
  <2> QED
    BY <2>1, <2>2, <2>6, <2>7, <2>8, <2>9 DEF GrepInv, Reading
<1>3. CASE GrepNext
  <2>1. file' = file /\ junk' = junk
    BY <1>3 DEF GrepNext, ReadMore, MoveRest, SearchLine
  <2>2. file' \in Files
    BY <1>1, <2>1
  <2>3. (IsText(file))' <=> IsText(file)
    BY <2>1, TextStays
  <2> SUFFICES ASSUME IsText(file) PROVE Reading'
    BY <2>2, <2>3 DEF GrepInv
  <2>4. Reading
    BY DEF GrepInv
  <2>5. CASE ReadMore
    BY <1>1, <2>4, <2>5, ReadMoreKeeps
  <2>6. CASE MoveRest
    BY <1>1, <2>4, <2>6, MoveRestKeeps
  <2>7. CASE SearchLine
    <3>1. doing = "line" /\ Placed
      BY <2>4, <2>7 DEF SearchLine, Reading
    <3>2. line_end < last \/ line_end = last
      BY <1>1, <3>1, LineIs
    <3> QED
      BY <1>1, <2>4, <2>7, <3>2, SearchOnKeeps, SearchedOutKeeps, SearchedRestKeeps
  <2> QED
    BY <1>3, <2>5, <2>6, <2>7 DEF GrepNext
<1> QED
  BY <1>2, <1>3

\* When do_one_file of grep is done with a text, it has printed its lines that have the
\* pattern, in order and each once, for any size of the buffer and wherever the reads
\* cut the file - but for the one line that what was in the buffer before can break.
THEOREM LinesFoundHolds == GrepSpec => []LinesFound
<1>1. GrepInit => GrepInv
  BY GrepInvInit
<1>2. GrepInv /\ [GrepNext]_grepVars => GrepInv'
  BY GrepInvStep
<1>3. GrepInv => LinesFound
  BY DEF GrepInv, Reading, Output, LinesFound
<1> QED
  BY <1>1, <1>2, <1>3, PTL DEF GrepSpec

-----------------------------------------------------------------------------
(* syserr, the test of the system calls *)

\* What the tests try that the kernel is to refuse when only the terminal is open.
CallsOf(op, S) == {[op |-> op, arg |-> a] : a \in S}
ToRefuse ==
  UNION {CallsOf("read", {NEG, BIG, 1} \cup 2 .. 7), CallsOf("write", {NEG, BIG, 0} \cup 2 .. 7),
         CallsOf("close", {NEG, BIG} \cup 0 .. 7), CallsOf("open", {Helloo, Shel, <<>>}),
         CallsOf("vidmap", {0, 4 * 2 ^ 20}), CallsOf("call", {BIG, NEG, 0})}

\* A fresh program has the terminal open.
LEMMA FreshIs ==
  /\ Fds = 0 .. 7 /\ FreshFds = [fd \in Fds |-> FreshFds[fd]]
  /\ FreshFds[0] = "stdin" /\ FreshFds[1] = "stdout" /\ \A fd \in 2 .. 7 : FreshFds[fd] = Unused
<1>1. Fds = 0 .. 7
  BY SyscallTestsAssumption DEF Fds
<1> QED
  BY <1>1 DEF FreshFds

\* The kernel refuses each of these calls.
LEMMA RefusedWhenFresh ==
  ASSUME fd_array = FreshFds, NEW c \in ToRefuse
  PROVE  Refused(c)
<1>0. Fds = 0 .. 7 /\ NEG \notin Fds /\ BIG \notin Fds
  BY FreshIs DEF NEG, BIG
<1>1. fd_array[0] = "stdin" /\ fd_array[1] = "stdout" /\ \A fd \in 2 .. 7 : fd_array[fd] = Unused
  BY FreshIs
<1>2. CASE c \in CallsOf("read", {NEG, BIG, 1} \cup 2 .. 7)
  <2>1. c.op = "read" /\ c.arg \in {NEG, BIG, 1} \cup 2 .. 7
    BY <1>2 DEF CallsOf
  <2>2. read_refuses(c.arg)
    BY <1>0, <1>1, <2>1 DEF read_refuses, IsOpen
  <2> QED
    BY <2>1, <2>2 DEF Refused
<1>3. CASE c \in CallsOf("write", {NEG, BIG, 0} \cup 2 .. 7)
  <2>1. c.op = "write" /\ c.arg \in {NEG, BIG, 0} \cup 2 .. 7
    BY <1>3 DEF CallsOf
  <2>2. write_refuses(c.arg, 31)
    BY <1>0, <1>1, <2>1 DEF write_refuses, IsOpen
  <2> QED
    BY <2>1, <2>2 DEF Refused
<1>4. CASE c \in CallsOf("close", {NEG, BIG} \cup 0 .. 7)
  <2>1. c.op = "close" /\ c.arg \in {NEG, BIG} \cup 0 .. 7
    BY <1>4 DEF CallsOf
  <2>2. close_refuses(c.arg)
    BY <1>0, <1>1, <2>1 DEF close_refuses, IsOpen
  <2> QED
    BY <2>1, <2>2 DEF Refused
<1>5. CASE c \in CallsOf("open", {Helloo, Shel, <<>>})
  <2>1. c.op = "open" /\ c.arg \in {Helloo, Shel, <<>>}
    BY <1>5 DEF CallsOf
  <2>2. c.arg \notin DOMAIN Directory
    BY <2>1, SyscallTestsAssumption
  <2>3. open_refuses(c.arg)
    BY <2>2 DEF open_refuses
  <2> QED
    BY <2>1, <2>3 DEF Refused
<1>6. CASE c \in CallsOf("vidmap", {0, 4 * 2 ^ 20})
  <2>1. c.op = "vidmap" /\ c.arg \in {0, 4 * 2 ^ 20}
    BY <1>6 DEF CallsOf
  <2>2. vidmap_refuses(c.arg)
    BY <2>1 DEF vidmap_refuses
  <2> QED
    BY <2>1, <2>2 DEF Refused
<1>7. CASE c \in CallsOf("call", {BIG, NEG, 0})
  <2>1. c.op = "call" /\ c.arg \in {BIG, NEG, 0}
    BY <1>7 DEF CallsOf
  <2>2. call_refuses(c.arg)
    BY <2>1 DEF call_refuses, BIG, NEG
  <2> QED
    BY <2>1, <2>2 DEF Refused
<1> QED
  BY <1>2, <1>3, <1>4, <1>5, <1>6, <1>7 DEF ToRefuse

\* s is one call of op for each argument.
CallsAre(s, op, n, args, A) ==
  s \in Seq(CallsOf(op, A)) /\ Len(s) = n /\ \A i \in 1 .. n : s[i] = [op |-> op, arg |-> args[i]]

\* The calls of one operation with each argument
LEMMA CallsIs ==
  ASSUME NEW op, NEW n \in Nat, NEW A, NEW args \in [1 .. n -> A]
  PROVE  CallsAre(Calls(op, args), op, n, args, A)
<1> DEFINE s == Calls(op, args)
           T == CallsOf(op, A)
<1>1. s = [i \in 1 .. n |-> [op |-> op, arg |-> args[i]]]
  BY DEF Calls
<1>2. \A i \in 1 .. n : s[i] = [op |-> op, arg |-> args[i]]
  BY <1>1
<1>3. \A i \in 1 .. n : s[i] \in T
  BY <1>2 DEF CallsOf
<1>4. s = [i \in 1 .. n |-> s[i]]
  BY <1>1, Zenon
<1> HIDE DEF s, T
<1>5. s \in [1 .. n -> T]
  BY <1>3, <1>4
<1>6. s \in Seq(T) /\ Len(s) = n
  BY <1>5, SeqDef, LenProperties
<1> QED
  BY <1>2, <1>6 DEF s, T, CallsAre

\* ... are refused if each of them is
LEMMA CallsRefused ==
  ASSUME NEW op, NEW A, CallsOf(op, A) \subseteq ToRefuse,
         NEW n \in Nat, NEW args \in [1 .. n -> A]
  PROVE  Calls(op, args) \in Seq(ToRefuse)
BY CallsIs, SeqMonotonic DEF CallsAre

\* ... and these are.
LEMMA OpsRefused ==
  /\ \A S \in SUBSET ({NEG, BIG, 1} \cup 2 .. 7) : CallsOf("read", S) \subseteq ToRefuse
  /\ \A S \in SUBSET ({NEG, BIG, 0} \cup 2 .. 7) : CallsOf("write", S) \subseteq ToRefuse
  /\ \A S \in SUBSET ({NEG, BIG} \cup 0 .. 7) : CallsOf("close", S) \subseteq ToRefuse
  /\ CallsOf("open", {Helloo, Shel, <<>>}) \subseteq ToRefuse
  /\ CallsOf("vidmap", {0, 4 * 2 ^ 20}) \subseteq ToRefuse
  /\ CallsOf("call", {BIG, NEG, 0}) \subseteq ToRefuse
BY Zenon DEF ToRefuse, CallsOf

\* Three lists of calls make one.
LEMMA Three ==
  ASSUME NEW S, NEW a \in Seq(S), NEW b \in Seq(S), NEW c \in Seq(S)
  PROVE  (a \o b) \o c \in Seq(S)
<1>1. a \o b \in Seq(S)
  BY ConcatProperties
<1> QED
  BY <1>1, ConcatProperties

\* All tests but err_open_lots consist of calls to refuse.
LEMMA TestsRefused ==
  /\ err_neg_fd \in Seq(ToRefuse) /\ err_big_fd \in Seq(ToRefuse) /\ err_open \in Seq(ToRefuse)
  /\ err_unopened \in Seq(ToRefuse) /\ err_vidmap \in Seq(ToRefuse) /\ err_stdin_out \in Seq(ToRefuse)
  /\ err_syscall_num \in Seq(ToRefuse)
<1>1. ASSUME NEW fd \in {NEG, BIG}
      PROVE  /\ Calls("read", <<fd>>) \in Seq(ToRefuse) /\ Calls("write", <<fd>>) \in Seq(ToRefuse)
             /\ Calls("close", <<fd>>) \in Seq(ToRefuse)
  <2> DEFINE s == <<fd>>
  <2>1. s \in [1 .. 1 -> {fd}] /\ 1 \in Nat
    OBVIOUS
  <2>2. /\ CallsOf("read", {fd}) \subseteq ToRefuse /\ CallsOf("write", {fd}) \subseteq ToRefuse
        /\ CallsOf("close", {fd}) \subseteq ToRefuse
    BY OpsRefused
  <2> HIDE DEF s
  <2>3. /\ Calls("read", s) \in Seq(ToRefuse) /\ Calls("write", s) \in Seq(ToRefuse)
        /\ Calls("close", s) \in Seq(ToRefuse)
    BY <2>1, <2>2, CallsRefused
  <2> QED
    BY <2>3 DEF s
<1>2. ASSUME NEW first \in {0, 2} PROVE Upto7(first) \in [1 .. 8 - first -> first .. 7] /\ 8 - first \in Nat
  BY DEF Upto7
<1>3. Calls("close", Upto7(0)) \in Seq(ToRefuse)
  <2>1. CallsOf("close", 0 .. 7) \subseteq ToRefuse
    BY OpsRefused
  <2>2. Upto7(0) \in [1 .. 8 -> 0 .. 7]
    BY DEF Upto7
  <2> QED
    BY <2>1, <2>2, CallsRefused
<1>4. Calls("read", Upto7(2)) \in Seq(ToRefuse) /\ Calls("write", Upto7(2)) \in Seq(ToRefuse)
  <2>1. CallsOf("read", 2 .. 7) \subseteq ToRefuse /\ CallsOf("write", 2 .. 7) \subseteq ToRefuse
    BY OpsRefused
  <2>2. Upto7(2) \in [1 .. 6 -> 2 .. 7]
    BY DEF Upto7
  <2> QED
    BY <2>1, <2>2, CallsRefused
<1>5. Calls("open", <<Helloo, Shel, <<>>>>) \in Seq(ToRefuse)
  <2> DEFINE s == <<Helloo, Shel, <<>>>>
             A == {Helloo, Shel, <<>>}
  <2>1. s \in [1 .. 3 -> A]
    OBVIOUS
  <2>2. CallsOf("open", A) \subseteq ToRefuse
    BY OpsRefused
  <2> HIDE DEF s, A
  <2>3. Calls("open", s) \in Seq(ToRefuse)
    BY <2>1, <2>2, CallsRefused
  <2> QED
    BY <2>3 DEF s
<1>6. Calls("vidmap", <<0, 4 * 2 ^ 20>>) \in Seq(ToRefuse)
  <2> DEFINE s == <<0, 4 * 2 ^ 20>>
             A == {0, 4 * 2 ^ 20}
  <2>1. s \in [1 .. 2 -> A]
    OBVIOUS
  <2>2. CallsOf("vidmap", A) \subseteq ToRefuse
    BY OpsRefused
  <2> HIDE DEF s, A
  <2>3. Calls("vidmap", s) \in Seq(ToRefuse)
    BY <2>1, <2>2, CallsRefused
  <2> QED
    BY <2>3 DEF s
<1>7. Calls("call", <<BIG, NEG, 0>>) \in Seq(ToRefuse)
  <2> DEFINE s == <<BIG, NEG, 0>>
             A == {BIG, NEG, 0}
  <2>1. s \in [1 .. 3 -> A]
    OBVIOUS
  <2>2. CallsOf("call", A) \subseteq ToRefuse
    BY OpsRefused
  <2> HIDE DEF s, A
  <2>3. Calls("call", s) \in Seq(ToRefuse)
    BY <2>1, <2>2, CallsRefused
  <2> QED
    BY <2>3 DEF s
<1>8. Calls("write", <<0>>) \in Seq(ToRefuse) /\ Calls("read", <<1>>) \in Seq(ToRefuse)
  <2> DEFINE s == <<0>>
             t == <<1>>
  <2>1. s \in [1 .. 1 -> {0}] /\ t \in [1 .. 1 -> {1}]
    OBVIOUS
  <2>2. CallsOf("write", {0}) \subseteq ToRefuse /\ CallsOf("read", {1}) \subseteq ToRefuse
    BY OpsRefused
  <2> HIDE DEF s, t
  <2>3. Calls("write", s) \in Seq(ToRefuse) /\ Calls("read", t) \in Seq(ToRefuse)
    BY <2>1, <2>2, CallsRefused
  <2> QED
    BY <2>3 DEF s, t
<1>9. err_neg_fd \in Seq(ToRefuse) /\ err_big_fd \in Seq(ToRefuse)
  BY <1>1, Three DEF err_neg_fd, err_big_fd
<1>10. err_unopened \in Seq(ToRefuse)
  BY <1>3, <1>4, Three DEF err_unopened
<1>11. err_stdin_out \in Seq(ToRefuse)
  BY <1>8, ConcatProperties DEF err_stdin_out
<1> QED
  BY <1>5, <1>6, <1>7, <1>9, <1>10, <1>11 DEF err_open, err_vidmap, err_syscall_num

-----------------------------------------------------------------------------
\* err_open_lots: it opens the directory seven times and closes what it may have got.
LEMMA LotsIs ==
  /\ Len(err_open_lots) = 13
  /\ \A i \in 1 .. 7 : err_open_lots[i] = [op |-> "open", arg |-> <<".">>]
  /\ \A i \in 8 .. 13 : err_open_lots[i] = [op |-> "close", arg |-> i - 6]
<1> DEFINE names == [i \in 1 .. 7 |-> <<".">>]
           fds   == Upto7(2)
           S     == CallsOf("open", {<<".">>}) \cup CallsOf("close", 2 .. 7)
           a     == Calls("open", names)
           b     == Calls("close", fds)
<1>1. names \in [1 .. 7 -> {<<".">>}] /\ \A i \in 1 .. 7 : names[i] = <<".">>
  OBVIOUS
<1>2. fds \in [1 .. 6 -> 2 .. 7] /\ \A i \in 1 .. 6 : fds[i] = i + 1
  BY DEF Upto7
<1>3. err_open_lots = a \o b
  BY DEF err_open_lots
<1> HIDE DEF names, fds
<1>4. CallsAre(a, "open", 7, names, {<<".">>}) /\ CallsAre(b, "close", 6, fds, 2 .. 7)
  BY <1>1, <1>2, CallsIs
<1> HIDE DEF a, b
<1>5. /\ Len(a) = 7 /\ \A i \in 1 .. 7 : a[i] = [op |-> "open", arg |-> names[i]]
      /\ Len(b) = 6 /\ \A i \in 1 .. 6 : b[i] = [op |-> "close", arg |-> fds[i]]
  BY <1>4 DEF CallsAre
<1>6. a \in Seq(S) /\ b \in Seq(S)
  BY <1>4, SeqMonotonic DEF CallsAre
<1> HIDE DEF S
<1>7. /\ Len(a \o b) = 13
      /\ \A i \in 1 .. 13 : (a \o b)[i] = IF i <= 7 THEN a[i] ELSE b[i - 7]
  <2>1. /\ Len(a \o b) = Len(a) + Len(b)
        /\ \A i \in 1 .. Len(a) + Len(b) : (a \o b)[i] = IF i <= Len(a) THEN a[i] ELSE b[i - Len(a)]
    BY <1>6, ConcatProperties
  <2>2. Len(a) + Len(b) = 13
    BY <1>5
  <2> QED
    BY <1>5, <2>1, <2>2
<1>8. \A i \in 8 .. 13 : i - 7 \in 1 .. 6 /\ (i - 7) + 1 = i - 6 /\ i \in 1 .. 13 /\ ~(i <= 7)
  OBVIOUS
<1>9. \A i \in 1 .. 7 : i \in 1 .. 13 /\ i <= 7
  OBVIOUS
<1>10. \A i \in 1 .. 7 : err_open_lots[i] = [op |-> "open", arg |-> <<".">>]
  BY <1>1, <1>3, <1>5, <1>7, <1>9
<1>11. \A i \in 8 .. 13 : err_open_lots[i] = [op |-> "close", arg |-> i - 6]
  <2> SUFFICES ASSUME NEW i \in 8 .. 13 PROVE err_open_lots[i] = [op |-> "close", arg |-> i - 6]
    OBVIOUS
  <2>1. err_open_lots[i] = b[i - 7]
    BY <1>3, <1>7, <1>8
  <2>2. b[i - 7] = [op |-> "close", arg |-> fds[i - 7]] /\ fds[i - 7] = i - 6
    BY <1>2, <1>5, <1>8
  <2> QED
    BY <2>1, <2>2
<1> QED
  BY <1>3, <1>7, <1>10, <1>11

\* The descriptors after k calls of err_open_lots.
LotsOpen(k) == IF k <= 7 THEN 2 .. k + 1 ELSE k - 5 .. 7
Lots(k) == [fd \in Fds |-> CASE fd = 0 -> "stdin" [] fd = 1 -> "stdout"
                             [] OTHER -> IF fd \in LotsOpen(k) THEN Directory[<<".">>] ELSE Unused]

\* What is open after k calls of err_open_lots.
LEMMA LotsHolds ==
  ASSUME NEW k \in 0 .. 13
  PROVE  /\ Lots(k) = [fd \in Fds |-> Lots(k)[fd]] /\ Lots(k)[0] = "stdin" /\ Lots(k)[1] = "stdout"
         /\ \A fd \in 2 .. 7 : Lots(k)[fd] = IF fd \in LotsOpen(k) THEN Directory[<<".">>] ELSE Unused
         /\ Directory[<<".">>] # Unused
<1>1. Directory[<<".">>] \in {"dir", "rtc", "file"}
  BY SyscallTestsAssumption
<1>2. \A fd \in 2 .. 7 : fd \in Fds /\ fd # 0 /\ fd # 1
  BY FreshIs
<1>3. 0 \in Fds /\ 1 \in Fds
  BY FreshIs
<1> QED
  BY <1>1, <1>2, <1>3 DEF Lots, Unused

\* Descriptors that agree in every place are the same.
LEMMA SameFds ==
  ASSUME NEW f, NEW g, f = [fd \in Fds |-> f[fd]], g = [fd \in Fds |-> g[fd]],
         f[0] = g[0], f[1] = g[1], \A fd \in 2 .. 7 : f[fd] = g[fd]
  PROVE  f = g
<1>1. \A fd \in Fds : fd = 0 \/ fd = 1 \/ fd \in 2 .. 7
  BY FreshIs
<1>2. \A fd \in Fds : f[fd] = g[fd]
  BY <1>1
<1> QED
  BY <1>2, Zenon

\* It begins and ends with the terminal alone.
LEMMA LotsEnds == Lots(0) = FreshFds /\ Lots(13) = FreshFds
<1>1. LotsOpen(0) = {} /\ LotsOpen(13) = {}
  BY DEF LotsOpen
<1>2. \A fd \in 2 .. 7 : Lots(0)[fd] = Unused /\ Lots(13)[fd] = Unused
  BY <1>1, LotsHolds
<1>3. /\ Lots(0) = [fd \in Fds |-> Lots(0)[fd]] /\ Lots(0)[0] = "stdin" /\ Lots(0)[1] = "stdout"
      /\ Lots(13) = [fd \in Fds |-> Lots(13)[fd]] /\ Lots(13)[0] = "stdin" /\ Lots(13)[1] = "stdout"
  BY LotsHolds
<1> QED
  BY <1>2, <1>3, FreshIs, SameFds

\* A call that opens: the first free descriptor becomes the directory.
LEMMA OpenStep ==
  ASSUME NEW k \in 1 .. 6, fd_array = Lots(k - 1), NEW c, c = [op |-> "open", arg |-> <<".">>]
  PROVE  ~Refused(c) /\ After(c) = Lots(k)
<1>0. k - 1 \in 0 .. 13 /\ k \in 0 .. 13 /\ Fds = 0 .. 7
  BY FreshIs
<1>1. /\ fd_array = [fd \in Fds |-> fd_array[fd]] /\ fd_array[0] = "stdin" /\ fd_array[1] = "stdout"
      /\ \A fd \in 2 .. 7 : fd_array[fd] = IF fd \in 2 .. k THEN Directory[<<".">>] ELSE Unused
      /\ Directory[<<".">>] # Unused
  <2>1. LotsOpen(k - 1) = 2 .. k
    BY DEF LotsOpen
  <2> QED
    BY <1>0, <2>1, LotsHolds
<1>2. k + 1 \in FreeFds /\ Min(FreeFds) = k + 1
  <2>1. k + 1 \in FreeFds
    BY <1>0, <1>1 DEF FreeFds
  <2>2. FreeFds \in SUBSET Nat
    BY <1>0 DEF FreeFds
  <2>3. \A fd \in FreeFds : k + 1 <= fd
    BY <1>0, <1>1 DEF FreeFds
  <2> QED
    BY <2>1, <2>2, <2>3, Minimum
<1>3. c.op = "open" /\ c.arg = <<".">>
  OBVIOUS
<1>4. ~open_refuses(c.arg)
  BY <1>2, <1>3, SyscallTestsAssumption DEF open_refuses
<1>5. ~Refused(c)
  BY <1>3, <1>4 DEF Refused
<1>6. After(c) = [fd_array EXCEPT ![k + 1] = Directory[<<".">>]]
  BY <1>2, <1>3, <1>5 DEF After
<1> DEFINE new == After(c)
<1>7. /\ new = [fd \in Fds |-> new[fd]] /\ new[0] = "stdin" /\ new[1] = "stdout"
      /\ \A fd \in 2 .. 7 : new[fd] = IF fd \in 2 .. k + 1 THEN Directory[<<".">>] ELSE Unused
  <2>1. new = [fd \in Fds |-> IF fd = k + 1 THEN Directory[<<".">>] ELSE fd_array[fd]]
    BY <1>1, <1>6
  <2> HIDE DEF new
  <2> QED
    BY <1>0, <1>1, <2>1
<1>8. LotsOpen(k) = 2 .. k + 1
  BY DEF LotsOpen
<1> HIDE DEF new
<1>9. new = Lots(k)
  <2>1. k \in 0 .. 13 /\ \A fd \in 2 .. 7 : new[fd] = IF fd \in LotsOpen(k) THEN Directory[<<".">>] ELSE Unused
    BY <1>0, <1>7, <1>8
  <2>2. /\ Lots(k) = [fd \in Fds |-> Lots(k)[fd]] /\ Lots(k)[0] = "stdin" /\ Lots(k)[1] = "stdout"
        /\ \A fd \in 2 .. 7 : new[fd] = Lots(k)[fd]
    BY <2>1, LotsHolds
  <2> QED
    BY <1>7, <2>2, SameFds
<1> QED
  BY <1>5, <1>9 DEF new

\* The seventh finds none free.
LEMMA OpenFails ==
  ASSUME fd_array = Lots(6), NEW c, c = [op |-> "open", arg |-> <<".">>]
  PROVE  Refused(c) /\ After(c) = Lots(7)
<1>1. \A fd \in 2 .. 7 : fd_array[fd] # Unused
  <2>1. LotsOpen(6) = 2 .. 7
    BY DEF LotsOpen
  <2> QED
    BY <2>1, LotsHolds
<1>2. FreeFds = {}
  BY <1>1, FreshIs DEF FreeFds
<1>3. Refused(c)
  BY <1>2 DEF Refused, open_refuses
<1>4. Lots(7) = Lots(6)
  <2>1. \A fd \in Fds : fd # 0 /\ fd # 1 => (fd \in LotsOpen(6) <=> fd \in LotsOpen(7))
    BY FreshIs DEF LotsOpen
  <2> QED
    BY <2>1 DEF Lots
<1> QED
  BY <1>3, <1>4 DEF After

\* Then each close takes the descriptor that it is given.
LEMMA CloseStep ==
  ASSUME NEW k \in 8 .. 13, fd_array = Lots(k - 1), NEW c, c = [op |-> "close", arg |-> k - 6]
  PROVE  After(c) = Lots(k)
<1>0. k - 1 \in 0 .. 13 /\ k \in 0 .. 13 /\ Fds = 0 .. 7
  BY FreshIs
<1>1. /\ fd_array = [fd \in Fds |-> fd_array[fd]] /\ fd_array[0] = "stdin" /\ fd_array[1] = "stdout"
      /\ \A fd \in 2 .. 7 : fd_array[fd] = IF fd \in k - 6 .. 7 THEN Directory[<<".">>] ELSE Unused
      /\ Directory[<<".">>] # Unused
  <2>1. \A fd \in 2 .. 7 : fd \in LotsOpen(k - 1) <=> fd \in k - 6 .. 7
    BY DEF LotsOpen
  <2> QED
    BY <1>0, <2>1, LotsHolds
<1>2. k - 6 \in 2 .. 7 /\ k - 6 \in k - 6 .. 7
  OBVIOUS
<1>3. c.op = "close" /\ c.arg = k - 6
  OBVIOUS
<1>4. ~close_refuses(c.arg)
  <2>1. fd_array[k - 6] # Unused
    BY <1>1, <1>2
  <2>2. k - 6 \in Fds /\ ~(k - 6 < 2)
    BY <1>0, <1>2
  <2> QED
    BY <1>3, <2>1, <2>2 DEF close_refuses, IsOpen
<1>5. ~Refused(c)
  BY <1>3, <1>4 DEF Refused
<1>6. After(c) = [fd_array EXCEPT ![k - 6] = Unused]
  BY <1>3, <1>5 DEF After
<1> DEFINE new == After(c)
<1>7. /\ new = [fd \in Fds |-> new[fd]] /\ new[0] = "stdin" /\ new[1] = "stdout"
      /\ \A fd \in 2 .. 7 : new[fd] = IF fd \in k - 5 .. 7 THEN Directory[<<".">>] ELSE Unused
  <2>1. new = [fd \in Fds |-> IF fd = k - 6 THEN Unused ELSE fd_array[fd]]
    BY <1>1, <1>6
  <2> HIDE DEF new
  <2>2. \A fd \in 2 .. 7 : fd # k - 6 => (fd \in k - 5 .. 7 <=> fd \in k - 6 .. 7)
    OBVIOUS
  <2>3. k - 6 \notin k - 5 .. 7 /\ 0 # k - 6 /\ 1 # k - 6
    OBVIOUS
  <2> QED
    BY <1>0, <1>1, <2>1, <2>2, <2>3
<1>8. LotsOpen(k) = k - 5 .. 7
  BY DEF LotsOpen
<1> HIDE DEF new
<1>9. new = Lots(k)
  <2>1. k \in 0 .. 13 /\ \A fd \in 2 .. 7 : new[fd] = IF fd \in LotsOpen(k) THEN Directory[<<".">>] ELSE Unused
    BY <1>0, <1>7, <1>8
  <2>2. /\ Lots(k) = [fd \in Fds |-> Lots(k)[fd]] /\ Lots(k)[0] = "stdin" /\ Lots(k)[1] = "stdout"
        /\ \A fd \in 2 .. 7 : new[fd] = Lots(k)[fd]
    BY <2>1, LotsHolds
  <2> QED
    BY <1>7, <2>2, SameFds
<1> QED
  BY <1>9 DEF new

-----------------------------------------------------------------------------
\* Between tests the descriptors are those of a fresh program, and within one
\* each call so far has been refused; err_open_lots alone opens something.
TestInv ==
  /\ todo \in Seq(1 .. 8)
  /\ \A v \in verdicts : ~v.fail
  /\ todo = <<>> => step = 0 /\ refused = 0 /\ fd_array = FreshFds
  /\ todo # <<>> =>
       /\ step \in 0 .. Len(Tests[Head(todo)])
       /\ fd_array = IF Head(todo) = 3 THEN Lots(step) ELSE FreshFds
       /\ refused = IF Head(todo) = 3 THEN (IF step >= 7 THEN 1 ELSE 0) ELSE step

\* What the eight tests are.
LEMMA TestsAre ==
  /\ Tests[3] = err_open_lots /\ Len(Tests[3]) = 13
  /\ \A t \in 1 .. 8 : t # 3 => Tests[t] \in Seq(ToRefuse)
BY TestsRefused, LotsIs DEF Tests

\* Nothing has been called yet.
LEMMA TestInvInit == TestInit => TestInv
<1> SUFFICES ASSUME TestInit PROVE TestInv
  OBVIOUS
<1>1. PICK select \in 0 .. 8 : todo = Selected(select)
  BY DEF TestInit
<1>2. todo \in Seq(1 .. 8) /\ todo # <<>>
  <2>1. CASE select = 0
    BY <1>1, <2>1 DEF Selected
  <2>2. CASE select # 0
    BY <1>1, <2>2 DEF Selected
  <2> QED
    BY <2>1, <2>2
<1>3. Head(todo) \in 1 .. 8
  BY <1>2
<1>4. Len(Tests[Head(todo)]) \in Nat
  BY <1>3, TestsAre, LenProperties
<1> QED
  BY <1>2, <1>4, LotsEnds DEF TestInit, TestInv

\* Each call is refused, or opens or closes as it should.
LEMMA TestCallKeeps ==
  ASSUME TestInv, TestCall
  PROVE  TestInv'
<1> DEFINE t == Head(todo)
           c == Tests[t][step + 1]
<1>1. /\ todo # <<>> /\ step < Len(Tests[t]) /\ todo' = todo /\ verdicts' = verdicts /\ step' = step + 1
      /\ fd_array' = After(c)
      /\ refused' = refused + (IF Refused(c) /\ ~(t = 3 /\ c.op = "close") THEN 1 ELSE 0)
  BY DEF TestCall
<1>2. /\ todo \in Seq(1 .. 8) /\ (\A v \in verdicts : ~v.fail) /\ step \in 0 .. Len(Tests[t])
      /\ fd_array = (IF t = 3 THEN Lots(step) ELSE FreshFds)
      /\ refused = IF t = 3 THEN (IF step >= 7 THEN 1 ELSE 0) ELSE step
  BY <1>1 DEF TestInv
<1>3. t \in 1 .. 8
  BY <1>1, <1>2
<1> HIDE DEF t, c
<1>4. Len(Tests[t]) \in Nat
  BY <1>3, TestsAre, LenProperties
<1>5. step \in Nat /\ step' \in 0 .. Len(Tests[t]) /\ step' \in 1 .. Len(Tests[t])
  BY <1>1, <1>2, <1>4
<1>6. CASE t # 3
  <2>1. c \in ToRefuse
    <3>1. Tests[t] \in Seq(ToRefuse)
      BY <1>3, <1>6, TestsAre
    <3> QED
      BY <1>1, <1>5, <3>1, ElementOfSeq DEF c
  <2>2. Refused(c)
    BY <1>2, <1>6, <2>1, RefusedWhenFresh
  <2>3. fd_array' = FreshFds
    BY <1>1, <1>2, <1>6, <2>2 DEF After
  <2>4. refused' = step'
    BY <1>1, <1>2, <1>5, <1>6, <2>2
  <2> QED
    BY <1>1, <1>2, <1>5, <1>6, <2>3, <2>4 DEF TestInv, t
<1>7. CASE t = 3
  <2>1. step' \in 1 .. 13 /\ step = step' - 1 /\ c = err_open_lots[step'] /\ fd_array = Lots(step' - 1)
    BY <1>1, <1>2, <1>5, <1>7, TestsAre DEF c
  <2>2. fd_array' = Lots(step') /\ refused' = IF step' >= 7 THEN 1 ELSE 0
    <3>1. CASE step' \in 1 .. 6
      <4>1. c = [op |-> "open", arg |-> <<".">>]
        BY <2>1, <3>1, LotsIs
      <4>2. ~Refused(c) /\ After(c) = Lots(step')
        BY <2>1, <3>1, <4>1, OpenStep
      <4> QED
        <5>1. ~(step >= 7) /\ ~(step' >= 7)
          <6>1. \A k \in 1 .. 6 : ~(k - 1 >= 7) /\ ~(k >= 7)
            OBVIOUS
          <6> QED
            BY <2>1, <3>1, <6>1
        <5>2. refused = 0 /\ refused' = 0
          BY <1>1, <1>2, <1>7, <4>2, <5>1
        <5> QED
          BY <1>1, <4>2, <5>1, <5>2
    <3>2. CASE step' = 7
      <4>1. c = [op |-> "open", arg |-> <<".">>] /\ fd_array = Lots(6)
        BY <2>1, <3>2, LotsIs
      <4>2. Refused(c) /\ After(c) = Lots(step')
        BY <3>2, <4>1, OpenFails
      <4>3. c.op # "close"
        BY <4>1
      <4> QED
        BY <1>1, <1>2, <1>7, <2>1, <3>2, <4>2, <4>3
    <3>3. CASE step' \in 8 .. 13
      <4>1. c = [op |-> "close", arg |-> step' - 6]
        BY <2>1, <3>3, LotsIs
      <4>2. After(c) = Lots(step') /\ c.op = "close"
        BY <2>1, <3>3, <4>1, CloseStep
      <4> QED
        BY <1>1, <1>2, <1>7, <2>1, <3>3, <4>2
    <3> QED
      BY <2>1, <3>1, <3>2, <3>3
  <2> QED
    BY <1>1, <1>2, <1>5, <1>7, <2>2 DEF TestInv, t
<1> QED
  BY <1>6, <1>7

\* A test that is over has passed.
LEMMA EndTestKeeps ==
  ASSUME TestInv, EndTest
  PROVE  TestInv'
<1> DEFINE t == Head(todo)
<1>1. /\ todo # <<>> /\ step = Len(Tests[t]) /\ todo' = Tail(todo) /\ step' = 0 /\ refused' = 0
      /\ verdicts' = verdicts \cup {[test |-> t, fail |-> ~Passes(t, refused)]} /\ fd_array' = fd_array
  BY DEF EndTest
<1>2. /\ todo \in Seq(1 .. 8) /\ (\A v \in verdicts : ~v.fail)
      /\ fd_array = (IF t = 3 THEN Lots(step) ELSE FreshFds)
      /\ refused = IF t = 3 THEN (IF step >= 7 THEN 1 ELSE 0) ELSE step
  BY <1>1 DEF TestInv
<1>3. t \in 1 .. 8 /\ Tail(todo) \in Seq(1 .. 8)
  BY <1>1, <1>2
<1> HIDE DEF t
<1>4. fd_array = FreshFds /\ Passes(t, refused)
  <2>1. CASE t = 3
    <3>1. step = 13
      BY <1>1, <2>1, TestsAre
    <3> QED
      BY <1>2, <2>1, <3>1, LotsEnds DEF Passes
  <2>2. CASE t # 3
    BY <1>1, <1>2, <2>2 DEF Passes
  <2> QED
    BY <2>1, <2>2
<1>5. \A v \in verdicts' : ~v.fail
  <2>1. (~Passes(t, refused)) = FALSE
    BY <1>4
  <2>2. verdicts' = verdicts \cup {[test |-> t, fail |-> FALSE]}
    BY <1>1, <2>1, Zenon
  <2> QED
    BY <1>2, <2>2
<1>6. todo' # <<>> => Len(Tests[Head(todo')]) \in Nat
  <2> SUFFICES ASSUME todo' # <<>> PROVE Len(Tests[Head(todo')]) \in Nat
    OBVIOUS
  <2>1. Head(todo') \in 1 .. 8
    BY <1>1, <1>3
  <2> QED
    BY <2>1, TestsAre, LenProperties
<1>7. todo' # <<>> => step' \in 0 .. Len(Tests[Head(todo')])
  BY <1>1, <1>6
<1> QED
  BY <1>1, <1>3, <1>4, <1>5, <1>7, LotsEnds DEF TestInv

\* Whichever tests syserr is asked for, in whatever order they leave the descriptors,
\* each passes: the kernel refuses every call that it should, opens no more than it has
\* room for and is left with the terminal alone open.
THEOREM TestsPassHolds == TestSpec => []TestsPass
<1>1. TestInv /\ [TestNext]_testVars => TestInv'
  <2>1. TestInv /\ UNCHANGED testVars => TestInv'
    BY DEF TestInv, testVars
  <2> QED
    BY <2>1, TestCallKeeps, EndTestKeeps DEF TestNext
<1>2. TestInv => TestsPass
  <2> SUFFICES ASSUME TestInv PROVE TestsPass
    OBVIOUS
  <2>1. step = 0 => fd_array = FreshFds
    BY LotsEnds DEF TestInv
  <2> QED
    BY <2>1, Zenon DEF TestInv, TestsPass
<1> QED
  BY <1>1, <1>2, TestInvInit, PTL DEF TestSpec
=============================================================================
