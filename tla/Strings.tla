------------------------------ MODULE Strings ------------------------------
(***************************************************************************)
(* The memory and string routines of lib.c, and those of                   *)
(* ece391support.c, which are the same loops for the programs.  A routine  *)
(* maps the memory before a call to the memory after it.  The flag DF,     *)
(* which the string instructions obey, survives from one call to the next. *)
(***************************************************************************)
EXTENDS Integers, Sequences, FiniteSetsExt

CONSTANTS
  MemSize,   \* bytes of the memory that is modelled; address 0 is aligned
  Memories,  \* what it may hold at first
  Fills,     \* the bytes passed to memset
  Values, Radixes, \* passed to itoa
  MaxCalls   \* bound: calls one after the other

Addresses == 0 .. MemSize - 1
Byte      == 0 .. 255

ASSUME StringsAssumption ==
  /\ MemSize \in Nat \ {0} /\ MaxCalls \in Nat
  /\ Memories \subseteq [Addresses -> Byte]
  /\ Fills \subseteq Byte /\ Values \subseteq Nat /\ Radixes \subseteq 2 .. 36

VARIABLES
  mem,      \* the memory
  df,       \* the direction flag: do string instructions go downwards?
  promised, \* history: what the last call should have made of the memory
  calls     \* the number of calls so far

strVars == <<mem, df, promised, calls>>

----------------------------------------------------------------------------
(* The string instructions, repeated n times. *)

\* Where the pointer of a string instruction is afterwards.
Past(at, width, n, down) == IF down THEN at - n * width ELSE at + n * width

\* rep stos of the bytes in unit.
Stos(m, at, unit, n, down) ==
  LET w       == Len(unit)
      written == IF down THEN at - (n - 1) * w .. at + w - 1 ELSE at .. at + n * w - 1
  IN [a \in Addresses |-> IF a \in written THEN unit[((a - at) % w) + 1] ELSE m[a]]

\* rep movs of units of the given width, one after the other.
Movs(m, from, to, width, n, down) ==
  LET Unit(before, f, t) == [a \in Addresses |->
        IF a \in t .. t + width - 1 /\ f + a - t \in Addresses THEN before[f + a - t] ELSE before[a]]
      after[k \in 0 .. n] ==
        IF k = 0 THEN m
        ELSE Unit(after[k - 1], Past(from, width, k - 1, down), Past(to, width, k - 1, down))
  IN after[n]

\* The bytes before the first aligned address, of n from at on.
Unaligned(at, n) == Min({n, (4 - (at % 4)) % 4})

----------------------------------------------------------------------------
(* lib.c.  A routine that has string instructions gives [mem, df]. *)

\* Bytes up to an aligned address, double words, and the bytes that are left.
\* Before the double words comes cld.
memset_NoCld(s, c, n) ==
  LET head  == Unaligned(s, n)
      words == (n - head) \div 4
      past  == Past(s + head, 4, words, df)
  IN [mem |-> Stos(Stos(Stos(mem, s, <<c>>, head, FALSE), s + head, <<c, c, c, c>>, words, df),
                   past, <<c>>, (n - head) % 4, FALSE),
      df  |-> df]
memset(s, c, n) ==
  LET head  == Unaligned(s, n)
      words == (n - head) \div 4
      past  == Past(s + head, 4, words, FALSE)
  IN [mem |-> Stos(Stos(Stos(mem, s, <<c>>, head, FALSE), s + head, <<c, c, c, c>>, words, FALSE),
                   past, <<c>>, (n - head) % 4, FALSE),
      df  |-> df /\ n = head]

\* n words or double words; what c has beyond them is cut off.
memset_word(s, c, n)  == [mem |-> Stos(mem, s, <<c, 0>>, n, FALSE), df |-> FALSE]
memset_dword(s, c, n) == [mem |-> Stos(mem, s, <<c, 0, 0, 0>>, n, FALSE), df |-> FALSE]

memcpy(dest, src, n) ==
  LET head  == Unaligned(dest, n)
      words == (n - head) \div 4
      left  == (n - head) % 4
      m1    == Movs(mem, src, dest, 1, head, FALSE)
      m2    == Movs(m1, src + head, dest + head, 4, words, FALSE)
  IN [mem |-> Movs(m2, src + n - left, dest + n - left, 1, left, FALSE), df |-> df /\ n = head]

\* Upwards when the source is not below the destination, else downwards: with
\* std, which nothing takes back before the next cld.
memmove(dest, src, n) ==
  LET down == src < dest
  IN [mem |-> IF down THEN Movs(mem, src + n - 1, dest + n - 1, 1, n, TRUE)
              ELSE Movs(mem, src, dest, 1, n, FALSE),
      df  |-> down]

\* A string is known by its address; the caller sees to it that it has an end.
HasEnd(m, s) == \E a \in Addresses : a >= s /\ m[a] = 0
strlen(m, s) == Min({a - s : a \in {b \in Addresses : b >= s /\ m[b] = 0}})

\* The loop copies before it looks at the next byte, so of two strings that
\* overlap the one below is copied whole.
strcpy(m, dest, src) ==
  LET room == MemSize - 1 - Max({src, dest})
      copied[i \in 0 .. room] ==
        IF i = 0 THEN m ELSE [copied[i - 1] EXCEPT ![dest + i - 1] = copied[i - 1][src + i - 1]]
      ends == {i \in 0 .. room : copied[i][src + i] = 0}
  IN [copied[Min(ends)] EXCEPT ![dest + Min(ends)] = 0]

\* At most n bytes, and NULs up to n; no NUL when the source is longer.
strncpy(m, dest, src, n) ==
  LET len == Min({n, strlen(m, src)})
  IN [a \in Addresses |-> IF a \in dest .. dest + len - 1 THEN m[src + a - dest]
                          ELSE IF a \in dest .. dest + n - 1 THEN 0 ELSE m[a]]

\* The first i at which the strings differ or end decides; without one before n
\* they are equal.
strncmp(m, s1, s2, n) ==
  LET stops == {i \in 0 .. n - 1 : m[s1 + i] # m[s2 + i] \/ m[s1 + i] = 0}
  IN IF stops = {} THEN 0 ELSE m[s1 + Min(stops)] - m[s2 + Min(stops)]

\* The programs' own: one goes on until a difference or an end, the other counts
\* n down, and looks at nothing when it is 0.
ece391_strcmp(m, s1, s2) ==
  LET stop == Min({i \in 0 .. MemSize - 1 - Max({s1, s2}) : m[s1 + i] # m[s2 + i] \/ m[s1 + i] = 0})
  IN m[s1 + stop] - m[s2 + stop]
ece391_strncmp(m, s1, s2, n) ==
  LET stops == {i \in 0 .. n - 1 : m[s1 + i] # m[s2 + i] \/ m[s1 + i] = 0 \/ i = n - 1}
  IN IF n = 0 THEN 0 ELSE m[s1 + Min(stops)] - m[s2 + Min(stops)]

\* Swap the ends and go inwards.
strrev(m, s) ==
  LET end == strlen(m, s) - 1
      swapped[beg \in 0 .. (end + 1) \div 2] ==
        IF beg = 0 THEN m
        ELSE LET b == s + beg - 1
                 e == s + end - (beg - 1)
             IN [swapped[beg - 1] EXCEPT ![b] = swapped[beg - 1][e], ![e] = swapped[beg - 1][b]]
  IN swapped[(end + 1) \div 2]

\* The lookup table has '0' to '9' and 'A' to 'Z'.
lookup(i) == IF i < 10 THEN 48 + i ELSE 55 + i

\* The digits from the lowest on, and then reversed.
Places(value, radix) ==
  LET from[newval \in 0 .. value] ==
        <<lookup(newval % radix)>> \o (IF newval < radix THEN <<>> ELSE from[newval \div radix])
  IN from[value]
itoa(m, value, buf, radix) ==
  LET raw == Append(Places(value, radix), 0)
  IN strrev([a \in Addresses |-> IF a \in buf .. buf + Len(raw) - 1 THEN raw[a - buf + 1] ELSE m[a]],
            buf)

----------------------------------------------------------------------------
(* What the comments in front of the routines promise. *)

Put(s, bytes) == [a \in Addresses |-> IF a \in s .. s + Len(bytes) - 1 THEN bytes[a - s + 1] ELSE mem[a]]

Fill(s, unit, n)     == Put(s, [i \in 1 .. n * Len(unit) |-> unit[((i - 1) % Len(unit)) + 1]])
Moved(dest, src, n)  == Put(dest, [i \in 1 .. n |-> mem[src + i - 1]])
Copied(dest, src, n) == Put(dest, [i \in 1 .. n |-> IF i <= strlen(mem, src) THEN mem[src + i - 1] ELSE 0])
Reversed(s)          == Put(s, [i \in 1 .. strlen(mem, s) |-> mem[s + strlen(mem, s) - i]])

\* The digits of value from the highest on, with no 0 in front.
Digits(value, radix) ==
  LET upto[v \in 0 .. value] ==
        IF v < radix THEN <<lookup(v)>> ELSE Append(upto[v \div radix], lookup(v % radix))
  IN upto[value]
Written(value, buf, radix) == Put(buf, Append(Digits(value, radix), 0))

----------------------------------------------------------------------------
StrInit ==
  /\ mem \in Memories
  /\ promised = mem
  /\ df = FALSE
  /\ calls = 0

Call(after, promise) ==
  /\ calls < MaxCalls /\ calls' = calls + 1
  /\ mem' = after.mem /\ df' = after.df
  /\ promised' = promise

Returns(m) == [mem |-> m, df |-> df]
Fits(at, len) == at + len <= MemSize
Apart(a, b, len) == a + len <= b \/ b + len <= a

SetMemory ==
  \E s \in Addresses, n \in 0 .. MemSize, c \in Fills :
    \/ Fits(s, n) /\ Call(memset(s, c, n), Fill(s, <<c>>, n))
    \/ Fits(s, 2 * n) /\ Call(memset_word(s, c, n), Fill(s, <<c, 0>>, n))
    \/ Fits(s, 4 * n) /\ Call(memset_dword(s, c, n), Fill(s, <<c, 0, 0, 0>>, n))

MoveMemory ==
  \E dest, src \in Addresses, n \in 0 .. MemSize :
    /\ Fits(dest, n) /\ Fits(src, n)
    /\ \/ Apart(dest, src, n) /\ Call(memcpy(dest, src, n), Moved(dest, src, n))
       \/ Call(memmove(dest, src, n), Moved(dest, src, n))

CopyString ==
  \E dest, src \in Addresses :
    /\ HasEnd(mem, src)
    /\ LET size == strlen(mem, src) + 1 IN
       \/ /\ Fits(dest, size) /\ (dest <= src \/ Apart(dest, src, size))
          /\ Call(Returns(strcpy(mem, dest, src)), Moved(dest, src, size))
       \/ \E n \in 0 .. MemSize :
            /\ Fits(dest, n) /\ Apart(dest, src, Max({n, size}))
            /\ Call(Returns(strncpy(mem, dest, src, n)), Copied(dest, src, n))

WriteNumber ==
  \E buf \in Addresses :
    \/ \E value \in Values, radix \in Radixes :
         /\ Fits(buf, Len(Places(value, radix)) + 1)
         /\ Call(Returns(itoa(mem, value, buf, radix)), Written(value, buf, radix))
    \/ HasEnd(mem, buf) /\ Call(Returns(strrev(mem, buf)), Reversed(buf))

StrNext == SetMemory \/ MoveMemory \/ CopyString \/ WriteNumber
StrSpec == StrInit /\ [][StrNext]_strVars

----------------------------------------------------------------------------
\* Two strings compare equal just when they are, up to n or to their ends.
Text(s, n) == [i \in 1 .. Min({n, strlen(mem, s)}) |-> mem[s + i - 1]]
EqualWhenSame ==
  \A s1, s2 \in Addresses : HasEnd(mem, s1) /\ HasEnd(mem, s2) =>
    /\ ece391_strcmp(mem, s1, s2) = 0 <=> Text(s1, MemSize) = Text(s2, MemSize)
    /\ \A n \in 0 .. Min({MemSize - s1, MemSize - s2}) :
         /\ strncmp(mem, s1, s2, n) = 0 <=> Text(s1, n) = Text(s2, n)
         /\ ece391_strncmp(mem, s1, s2, n) = strncmp(mem, s1, s2, n)

\* Every call makes of the memory what its comment says and touches nothing else,
\* whatever its alignment and overlap and whatever call came before it, also one
\* that has left the direction flag set; and comparisons tell strings apart.
CallsKeepPromise == mem = promised /\ EqualWhenSame
=============================================================================
