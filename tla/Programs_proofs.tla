-------------------------- MODULE Programs_proofs --------------------------
(***************************************************************************)
(* For any block size and any commands: the program that runs is the one   *)
(* its line names, with the whole of its file in place; it gets the other  *)
(* words of the line; and descriptors are streams.  All but the words are  *)
(* proved for a proper image.                                              *)
(***************************************************************************)
EXTENDS Programs, FiniteSetTheorems, SequenceTheorems, WellFoundedInduction, TLAPS

-----------------------------------------------------------------------------
(* Numbers and sequences *)

LEMMA LeastOf ==
  ASSUME NEW N \in SUBSET Nat, N # {}
  PROVE  Min(N) \in N /\ \A i \in N : Min(N) <= i
<1> DEFINE R == {ss \in Nat \X Nat : ss[1] < ss[2]}
<1>1. IsWellFoundedOn(R, Nat)
  BY NatLessThanWellFounded, Zenon DEF OpToRel
<1>2. PICK k \in N : \A i \in N : ~(<<i, k>> \in R)
  <2> HIDE DEF R
  <2> QED
    BY <1>1, WFMin
<1>3. \A i \in N : ~(i < k)
  BY <1>2
<1>4. \A i \in N : k <= i
  BY <1>3
<1> QED
  BY <1>4 DEF Min

LEMMA GreatestOf ==
  ASSUME NEW N \in SUBSET Nat, N # {}, NEW n \in Nat, \A i \in N : i <= n
  PROVE  Max(N) \in N /\ \A i \in N : i <= Max(N)
<1> DEFINE D == {n - i : i \in N}
<1>1. D \in SUBSET Nat
  OBVIOUS
<1>2. \A i \in N : n - i \in D
  OBVIOUS
<1>3. \A d \in D : \E k \in N : d = n - k
  OBVIOUS
<1> HIDE DEF D
<1>4. Min(D) \in D /\ \A d \in D : Min(D) <= d
  <2>1. D # {}
    BY <1>2
  <2> QED
    BY <1>1, <2>1, LeastOf
<1>5. PICK k \in N : Min(D) = n - k
  BY <1>3, <1>4
<1>6. \A i \in N : k >= i
  BY <1>2, <1>4, <1>5
<1>7. Max(N) \in N /\ \A i \in N : Max(N) >= i
  BY <1>6, Zenon DEF Max
<1> QED
  BY <1>7

LEMMA MinOfTwo ==
  ASSUME NEW a \in Nat, NEW b \in Nat
  PROVE  Min({a, b}) = IF a <= b THEN a ELSE b
<1>1. Min({a, b}) \in {a, b} /\ \A i \in {a, b} : Min({a, b}) <= i
  BY LeastOf
<1> QED
  BY <1>1

\* Sequences known by their elements.
IsSeq(s, n) == n \in Nat /\ s = [i \in 1 .. n |-> s[i]]

LEMMA IsSeqFacts ==
  ASSUME NEW s, NEW n, IsSeq(s, n), NEW E, \A i \in 1 .. n : s[i] \in E
  PROVE  s \in Seq(E) /\ Len(s) = n
BY DEF IsSeq
LEMMA SubSeqIs ==
  ASSUME NEW s, NEW n, IsSeq(s, n), NEW k \in 0 .. n, NEW m \in k .. n, NEW l, l = m - k,
         NEW j, j = k + 1,
         NEW t, IsSeq(t, l), \A i \in 1 .. l : t[i] = s[k + i]
  PROVE  t = SubSeq(s, j, m)
<1> DEFINE E == {s[i] : i \in 1 .. n}
<1>1. n \in Nat /\ k \in Nat /\ m \in Nat /\ k <= m /\ m <= n
  BY DEF IsSeq
<1>2. \A i \in j .. m : s[i] \in E
  BY <1>1
<1>3. \A i \in 1 .. l : k + i \in 1 .. n /\ t[i] \in E
  BY <1>1
<1>4. j \in Int /\ m \in Int /\ m - j + 1 = l /\ (\A i \in 1 .. l : j + i - 1 = k + i)
  BY <1>1
<1>5. (IF j <= m THEN m - j + 1 ELSE 0) = l
  BY <1>1
<1> HIDE DEF E
<1>6. /\ SubSeq(s, j, m) \in Seq(E) /\ Len(SubSeq(s, j, m)) = IF j <= m THEN m - j + 1 ELSE 0
      /\ \A i \in 1 .. m - j + 1 : SubSeq(s, j, m)[i] = s[j + i - 1]
  BY <1>2, <1>4, SubSeqProperties
<1>7. /\ SubSeq(s, j, m) \in Seq(E) /\ Len(SubSeq(s, j, m)) = l
      /\ \A i \in 1 .. l : SubSeq(s, j, m)[i] = s[k + i]
  BY <1>4, <1>5, <1>6
<1>8. t \in Seq(E) /\ Len(t) = l
  BY <1>3, IsSeqFacts
<1> QED
  BY <1>7, <1>8, SeqEqual

\* Blocks are in the order of the offsets that are in them.
LEMMA BlockOrder ==
  ASSUME NEW x \in Nat, NEW y \in Nat, x <= y
  PROVE  x \div BlockSize \in 0 .. y \div BlockSize /\ y \div BlockSize \in Nat
<1>1. BlockSize \in Nat /\ BlockSize > 0
  BY FileSystemAssumption
<1> DEFINE B == BlockSize
           p == x \div B
           q == y \div B
           r == x % B
           s == y % B
<1>2. /\ p \in Int /\ q \in Int /\ r \in 0 .. B - 1 /\ s \in 0 .. B - 1
      /\ x = B * p + r /\ y = B * q + s
  BY <1>1
<1> HIDE DEF B, p, q, r, s
<1>3. B \in Nat /\ B > 0
  BY <1>1 DEF B
<1>4. p <= -1 => B * p <= -B
  BY <1>2, <1>3
<1>5. q + 1 <= p => B * (q + 1) <= B * p
  BY <1>2, <1>3
<1>6. B * (q + 1) = B * q + B
  BY <1>2, <1>3
<1>7. p >= 0 /\ p <= q
  BY <1>2, <1>3, <1>4, <1>5, <1>6
<1> QED
  BY <1>2, <1>7 DEF B, p, q
-----------------------------------------------------------------------------
(* Reads *)

FileOf(f) == Image.inodes[f.inode]

\* read_data on a proper image: the bytes from offset on, as far as asked and as
\* far as there are.
LEMMA read_dataFacts ==
  ASSUME ProperImage, NEW inode \in DOMAIN Image.inodes, NEW offset \in Nat, NEW n \in Nat
  PROVE  LET file == Image.inodes[inode]
             end  == IF offset + n <= file.length THEN offset + n ELSE file.length
         IN read_data(inode, offset, n) =
              IF offset >= file.length THEN Answer(0, <<>>)
              ELSE Answer(end - offset, [k \in 1 .. end - offset |-> Byte(file, offset + k - 1)])
<1> DEFINE file == Image.inodes[inode]
           end  == Min({offset + n, file.length})
           bad  == {b \in offset \div BlockSize .. end \div BlockSize :
                      file.blocks[b] >= Image.num_data_blocks}
           UpTo(last) == [k \in 1 .. last - offset |-> Byte(file, offset + k - 1)]
<1>1. file.length \in Nat /\ offset + n \in Nat
  BY ProgramsAssumption DEF ProperImage
<1>2. end = (IF offset + n <= file.length THEN offset + n ELSE file.length) /\ end \in Nat
  BY <1>1, MinOfTwo
<1>3. read_data(inode, offset, n) =
        IF offset >= file.length THEN Answer(0, <<>>)
        ELSE IF bad = {} THEN Answer(end - offset, UpTo(end))
        ELSE Answer(-1, UpTo(Max({offset, Min(bad) * BlockSize})))
  BY Zenon DEF read_data
<1> HIDE DEF end
<1>4. ASSUME offset < file.length PROVE bad = {}
  <2>1. end \div BlockSize \in 0 .. file.length \div BlockSize /\ file.length \div BlockSize \in Nat
    BY <1>1, <1>2, BlockOrder
  <2>2. offset \div BlockSize \in 0 .. file.length \div BlockSize
    BY <1>1, <1>4, BlockOrder
  <2>3. \A b \in offset \div BlockSize .. end \div BlockSize : b \in 0 .. file.length \div BlockSize
    BY <2>1, <2>2
  <2>4. \A b \in 0 .. file.length \div BlockSize : file.blocks[b] \in 0 .. Image.num_data_blocks - 1
    BY <1>1, <1>4 DEF ProperImage
  <2>5. Image.num_data_blocks \in Int
    <3>1. Image.num_data_blocks \in 0 .. 255
      BY FileSystemAssumption, Zenon
    <3> QED
      BY <3>1
  <2>6. ASSUME NEW b \in offset \div BlockSize .. end \div BlockSize
        PROVE  ~(file.blocks[b] >= Image.num_data_blocks)
    <3>1. file.blocks[b] \in 0 .. Image.num_data_blocks - 1
      BY <2>3, <2>4
    <3> HIDE DEF file
    <3> QED
      BY <2>5, <3>1
  <2> QED
    BY <2>6, Zenon
<1>5. ~(offset >= file.length) => offset < file.length
  BY <1>1
<1> HIDE DEF bad, file
<1>6. read_data(inode, offset, n) =
        IF offset >= file.length THEN Answer(0, <<>>) ELSE Answer(end - offset, UpTo(end))
  BY <1>3, <1>4, <1>5
<1> QED
  BY <1>2, <1>6 DEF file

\* A descriptor that is open is a stream: a file not read past its end, or the
\* directory.
GoodFd(f) ==
  /\ f = [kind |-> f.kind, inode |-> f.inode, position |-> f.position]
  /\ f.kind \in {"unused", "rtc", "dir", "file"}
  /\ f.kind = "dir" => f.position \in 0 .. num_dentries
  /\ f.kind = "file" => f.inode \in DOMAIN Image.inodes /\ f.position \in 0 .. FileOf(f).length

LEMMA OpenedFacts ==
  ASSUME ProperImage, NEW i \in 1 .. num_dentries
  PROVE  /\ GoodFd(Opened(i)) /\ Opened(i).position = 0
         /\ Opened(i).kind = "file" => Opened(i).inode = Image.dentries[i].inode
<1> DEFINE d == Image.dentries[i]
           f == Opened(i)
<1>1. /\ d.type \in {RTC_TYPE, DIR_TYPE, FILE_TYPE}
      /\ d.type = FILE_TYPE => d.inode \in DOMAIN Image.inodes
  BY DEF ProperImage
<1>2. f = CASE d.type = RTC_TYPE  -> [kind |-> "rtc", inode |-> 0, position |-> 0]
            [] d.type = DIR_TYPE  -> [kind |-> "dir", inode |-> 0, position |-> 0]
            [] d.type = FILE_TYPE -> [kind |-> "file", inode |-> d.inode, position |-> 0]
  BY Zenon DEF Opened
<1> HIDE DEF d, f
<1>3. num_dentries \in Nat
  BY FileSystemAssumption DEF num_dentries
<1>4. \/ f = [kind |-> "rtc", inode |-> 0, position |-> 0]
      \/ f = [kind |-> "dir", inode |-> 0, position |-> 0]
      \/ f = [kind |-> "file", inode |-> d.inode, position |-> 0] /\ d.type = FILE_TYPE
  BY <1>1, <1>2 DEF RTC_TYPE, DIR_TYPE, FILE_TYPE
<1>5. ASSUME f = [kind |-> "file", inode |-> d.inode, position |-> 0], d.type = FILE_TYPE
      PROVE  GoodFd(f)
  <2>1. FileOf(f).length \in Nat
    BY <1>1, <1>5, ProgramsAssumption DEF ProperImage, FileOf
  <2> QED
    BY <1>1, <1>5, <2>1 DEF GoodFd
<1>6. GoodFd(f)
  BY <1>3, <1>4, <1>5 DEF GoodFd
<1> QED
  BY <1>4, <1>6 DEF f, d

\* How many bytes a read of n takes from a file, which, and where it gets to.
Amount(f, n) ==
  IF f.position + n <= FileOf(f).length THEN n ELSE FileOf(f).length - f.position
BytesAt(f, m) == [k \in 1 .. m |-> Byte(FileOf(f), f.position + k - 1)]
NameAt(f)     == Image.dentries[f.position + 1].name
Ahead(f, m)   == [f EXCEPT !.position = f.position + m]

\* There is nothing to read.
AtEnd(f) ==
  \/ f.kind \in {"unused", "rtc"}
  \/ f.kind = "dir" /\ f.position >= num_dentries
  \/ f.kind = "file" /\ f.position >= FileOf(f).length

\* How far there is to go.
LEMMA Places ==
  ASSUME ProperImage, NEW f, GoodFd(f)
  PROVE  /\ f.kind \in {"unused", "rtc", "dir", "file"}
         /\ f = [kind |-> f.kind, inode |-> f.inode, position |-> f.position]
         /\ num_dentries \in Nat
         /\ f.kind = "dir" => f.position \in 0 .. num_dentries
         /\ f.kind = "file" => /\ f.inode \in DOMAIN Image.inodes
                               /\ FileOf(f).length \in 0 .. ProgramSpace
                               /\ FileOf(f).length \in Nat
                               /\ f.position \in 0 .. FileOf(f).length
<1>1. num_dentries \in Nat
  BY FileSystemAssumption DEF num_dentries
<1>2. f.kind = "file" => FileOf(f).length \in 0 .. ProgramSpace /\ FileOf(f).length \in Nat
  BY ProgramsAssumption DEF GoodFd, ProperImage, FileOf
<1> QED
  BY <1>1, <1>2 DEF GoodFd

LEMMA AheadIs ==
  ASSUME NEW f, GoodFd(f), NEW m
  PROVE  /\ Ahead(f, m) = [kind |-> f.kind, inode |-> f.inode, position |-> f.position + m]
         /\ f.position = 0 => clear_file_position(Ahead(f, m)) = f
<1>1. f = [kind |-> f.kind, inode |-> f.inode, position |-> f.position]
  BY DEF GoodFd
<1>2. Ahead(f, m) = [kind |-> f.kind, inode |-> f.inode, position |-> f.position + m]
  BY <1>1 DEF Ahead
<1>3. clear_file_position(Ahead(f, m)) = [kind |-> f.kind, inode |-> f.inode, position |-> 0]
  BY <1>2 DEF clear_file_position
<1> QED
  BY <1>1, <1>2, <1>3

\* One read, as each kind of answer has it.
LEMMA NothingRead ==
  ASSUME ProperImage, NEW f, GoodFd(f), NEW n \in Nat, AtEnd(f)
  PROVE  AfterRead(f, n).fd = f /\ AfterRead(f, n).answer \in {Failed, Answer(0, <<>>)}
<1> DEFINE ret == Fetched(f, n).ret
<1>1. f = [kind |-> f.kind, inode |-> f.inode, position |-> f.position]
  BY Places
<1>2. [f EXCEPT !.position = f.position] = f
  BY <1>1
<1>3. AfterRead(f, n) = [answer |-> Fetched(f, n), fd |-> [f EXCEPT !.position = Moved(f, n, ret)]]
  BY Zenon DEF AfterRead
<1>4. ASSUME Moved(f, n, ret) = f.position, Fetched(f, n) \in {Failed, Answer(0, <<>>)}
      PROVE  AfterRead(f, n).fd = f /\ AfterRead(f, n).answer \in {Failed, Answer(0, <<>>)}
  <2>1. AfterRead(f, n) = [answer |-> Fetched(f, n), fd |-> f]
    BY <1>2, <1>3, <1>4, Zenon
  <2> QED
    BY <1>4, <2>1
<1>5. ASSUME f.kind = "unused"
      PROVE  Moved(f, n, ret) = f.position /\ Fetched(f, n) = Failed
  BY <1>5 DEF Fetched, Moved
<1>6. ASSUME f.kind = "rtc"
      PROVE  Moved(f, n, ret) = f.position /\ Fetched(f, n) = Answer(0, <<>>)
  BY <1>6 DEF Fetched, Moved
<1>7. ASSUME f.kind = "dir", f.position >= num_dentries
      PROVE  Moved(f, n, ret) = f.position /\ Fetched(f, n) = Answer(0, <<>>)
  <2>1. Fetched(f, n) = dir_read(f.position)
    BY <1>7 DEF Fetched
  <2>2. Fetched(f, n) = Answer(0, <<>>)
    BY <1>7, <2>1, Zenon DEF dir_read
  <2>3. ret = 0
    BY <2>2 DEF Answer
  <2> QED
    BY <1>7, <2>2, <2>3 DEF Moved
<1>8. ASSUME f.kind = "file", f.position >= FileOf(f).length
      PROVE  Moved(f, n, ret) = f.position /\ Fetched(f, n) = Answer(0, <<>>)
  <2>1. /\ FileOf(f).length \in 0 .. ProgramSpace /\ f.position \in 0 .. FileOf(f).length
        /\ f.inode \in DOMAIN Image.inodes
    BY <1>8, Places
  <2>2. f.position \in Nat /\ U32 \in Nat /\ ProgramSpace \in Nat /\ ProgramSpace < U32
    BY <2>1, ProgramsAssumption
  <2>3. Fetched(f, n) = read_data(f.inode, f.position, n)
    BY <1>8 DEF Fetched
  <2>4. Fetched(f, n) = Answer(0, <<>>)
    BY <1>8, <2>1, <2>2, <2>3, read_dataFacts DEF FileOf
  <2>5. ret = 0
    BY <2>4 DEF Answer
  <2>6. (f.position + 0) % U32 = f.position
    BY <2>1, <2>2
  <2>7. Moved(f, n, ret) = f.position
    BY <1>8, <2>5, <2>6 DEF Moved
  <2> QED
    BY <2>4, <2>7
<1>9. CASE f.kind = "unused"
  BY <1>4, <1>5, <1>9
<1>10. CASE f.kind = "rtc"
  BY <1>4, <1>6, <1>10
<1>11. CASE f.kind = "dir" /\ f.position >= num_dentries
  BY <1>4, <1>7, <1>11
<1>12. CASE f.kind = "file" /\ f.position >= FileOf(f).length
  BY <1>4, <1>8, <1>12
<1> QED
  BY <1>9, <1>10, <1>11, <1>12 DEF AtEnd

LEMMA NameRead ==
  ASSUME ProperImage, NEW f, GoodFd(f), NEW n \in Nat, f.kind = "dir", ~AtEnd(f)
  PROVE  /\ Len(NameAt(f)) \in 1 .. FnameLen
         /\ AfterRead(f, n).answer = Answer(Len(NameAt(f)), <<[name |-> NameAt(f)]>>)
         /\ AfterRead(f, n).fd = Ahead(f, 1)
<1> DEFINE ret  == Fetched(f, n).ret
           name == NameAt(f)
<1>1. num_dentries \in Nat /\ f.position \in 0 .. num_dentries
  BY Places
<1>2. f.position + 1 \in 1 .. num_dentries /\ ~(f.position >= num_dentries)
  BY <1>1 DEF AtEnd
<1>3. Len(name) \in 1 .. FnameLen
  BY <1>2 DEF ProperImage, NameAt
<1>4. Fetched(f, n) = dir_read(f.position)
  BY DEF Fetched
<1>5. Fetched(f, n) = Answer(Len(name), <<[name |-> name]>>)
  BY <1>2, <1>4, Zenon DEF dir_read, NameAt
<1>6. ret = Len(name)
  BY <1>5 DEF Answer
<1>7. ret \notin {-1, 0}
  BY <1>3, <1>6
<1>8. Moved(f, n, ret) = f.position + 1
  BY <1>7 DEF Moved
<1>9. AfterRead(f, n) = [answer |-> Fetched(f, n), fd |-> Ahead(f, 1)]
  BY <1>8, Zenon DEF AfterRead, Ahead
<1> HIDE DEF name
<1> QED
  BY <1>3, <1>5, <1>9 DEF name

LEMMA BytesRead ==
  ASSUME ProperImage, NEW f, GoodFd(f), NEW n \in Nat, f.kind = "file", ~AtEnd(f)
  PROVE  /\ AfterRead(f, n).answer = Answer(Amount(f, n), BytesAt(f, Amount(f, n)))
         /\ AfterRead(f, n).fd = Ahead(f, Amount(f, n))
<1> DEFINE ret == Fetched(f, n).ret
           m   == Amount(f, n)
<1>1. /\ FileOf(f).length \in 0 .. ProgramSpace /\ f.position \in 0 .. FileOf(f).length
      /\ f.inode \in DOMAIN Image.inodes
  BY Places
<1>2. f.position \in Nat /\ U32 \in Nat /\ ProgramSpace \in Nat /\ ProgramSpace < U32
  BY <1>1, ProgramsAssumption
<1>3. ~(f.position >= FileOf(f).length)
  BY DEF AtEnd
<1>4. /\ m = (IF f.position + n <= FileOf(f).length THEN f.position + n ELSE FileOf(f).length)
             - f.position
      /\ m \in Nat /\ f.position + m \in 0 .. FileOf(f).length
  BY <1>1, <1>2, <1>3 DEF Amount
<1>5. Fetched(f, n) = read_data(f.inode, f.position, n)
  BY DEF Fetched
<1> HIDE DEF m
<1>6. Fetched(f, n) = Answer(m, BytesAt(f, m))
  BY <1>1, <1>2, <1>3, <1>4, <1>5, read_dataFacts DEF FileOf, BytesAt
<1>7. ret = m
  BY <1>6 DEF Answer
<1>8. (f.position + m) % U32 = f.position + m
  <2>1. \A p \in 0 .. FileOf(f).length : p % U32 = p
    BY <1>1, <1>2
  <2> QED
    BY <1>4, <2>1
<1>9. Moved(f, n, ret) = f.position + m
  BY <1>7, <1>8 DEF Moved
<1>10. AfterRead(f, n) = [answer |-> Fetched(f, n), fd |-> Ahead(f, m)]
  BY <1>9, Zenon DEF AfterRead, Ahead
<1> QED
  BY <1>6, <1>10 DEF m
-----------------------------------------------------------------------------
(* The image of a program *)

LEMMA LoadedWhole ==
  ASSUME ProperImage, NEW i \in 1 .. num_dentries, Runs(i)
  PROVE  loaded(i) = Whole(i)
<1> DEFINE f    == Opened(i)
           file == FileOf(f)
           ret  == AfterRead(f, HeaderBytes).answer.ret
           all  == Amount(f, ProgramSpace)
<1>1. GoodFd(f) /\ f.position = 0 /\ (f.kind = "file" => f.inode = Image.dentries[i].inode)
  BY OpenedFacts
<1>2. f = [kind |-> f.kind, inode |-> f.inode, position |-> 0]
  BY <1>1 DEF GoodFd
<1>3. f.kind \in {"unused", "rtc", "dir", "file"}
  BY <1>1 DEF GoodFd
<1> HIDE DEF f
<1>4. clear_file_position(f) = f
  BY <1>2 DEF clear_file_position
<1>5. file_check(f) = AfterRead(f, HeaderBytes)
  BY <1>4 DEF file_check
<1>6. ret = HeaderBytes
  BY <1>5 DEF Runs, f
<1>7. HeaderBytes \in Nat /\ HeaderBytes > FnameLen /\ FnameLen \in Nat /\ ProgramSpace \in Nat
  BY ProgramsAssumption, CommandLineAssumption
<1>8. FnameLen > 0 /\ HeaderBytes \notin {-1, 0} /\ HeaderBytes \notin 1 .. FnameLen
  BY <1>7, CommandLineAssumption
<1>9. /\ num_dentries \in Nat
      /\ f.kind = "file" => FileOf(f).length \in 0 .. ProgramSpace /\ FileOf(f).length \in Nat
  BY <1>1, Places
<1>10. ASSUME AfterRead(f, HeaderBytes).answer \in {Failed, Answer(0, <<>>)} PROVE FALSE
  BY <1>6, <1>8, <1>10 DEF Failed, Answer
<1>11. ~AtEnd(f)
  BY <1>1, <1>7, <1>10, NothingRead
<1>12. f.kind # "dir"
  <2> SUFFICES ASSUME f.kind = "dir" PROVE FALSE
    OBVIOUS
  <2>1. /\ Len(NameAt(f)) \in 1 .. FnameLen
        /\ AfterRead(f, HeaderBytes).answer = Answer(Len(NameAt(f)), <<[name |-> NameAt(f)]>>)
    BY <1>1, <1>7, <1>11, NameRead
  <2> QED
    BY <1>6, <1>8, <2>1 DEF Answer
<1>13. f.kind = "file"
  BY <1>3, <1>11, <1>12 DEF AtEnd
<1>14. AfterRead(f, HeaderBytes).fd = Ahead(f, Amount(f, HeaderBytes))
  BY <1>1, <1>7, <1>11, <1>13, BytesRead
<1>15. clear_file_position(AfterRead(f, HeaderBytes).fd) = f
  BY <1>1, <1>14, AheadIs
<1>16. AfterRead(f, ProgramSpace).answer = Answer(all, BytesAt(f, all))
  BY <1>1, <1>7, <1>11, <1>13, BytesRead
<1>17. loaded(i) = BytesAt(f, all)
  BY <1>5, <1>15, <1>16 DEF loaded, f, Answer
<1>18. all = FileOf(f).length
  BY <1>1, <1>7, <1>9, <1>11, <1>13 DEF Amount, AtEnd
<1>19. file = Image.inodes[Image.dentries[i].inode] /\ file.length \in Nat /\ file = FileOf(f)
  BY <1>1, <1>9, <1>13 DEF FileOf
<1> HIDE DEF file, all
<1>20. loaded(i) = [k \in 1 .. file.length |-> Byte(file, 0 + k - 1)]
  BY <1>1, <1>17, <1>18, <1>19 DEF BytesAt
<1>21. \A k \in 1 .. file.length : 0 + k - 1 = k - 1
  BY <1>19
<1>22. loaded(i) = [k \in 1 .. file.length |-> Byte(file, k - 1)]
  BY <1>20, <1>21, Zenon
<1> QED
  BY <1>19, <1>22 DEF Whole

\* What every step keeps.
GoodFds(fds) ==
  /\ fds = [fd \in Fds |-> fds[fd]]
  /\ \A fd \in Fds : GoodFd(fds[fd])

ProgInv == GoodFds(fd_array) /\ ImageLoadedWhole

LEMMA UnusedIsGood == GoodFd(Unused) /\ Unused.kind = "unused"
BY DEF GoodFd, Unused

LEMMA NoneOpen ==
  ASSUME NEW fds, fds = [fd \in Fds |-> Unused]
  PROVE  GoodFds(fds)
<1>1. \A fd \in Fds : fds[fd] = Unused
  OBVIOUS
<1>2. fds = [fd \in Fds |-> fds[fd]]
  BY Zenon
<1> QED
  BY <1>1, <1>2, UnusedIsGood DEF GoodFds

LEMMA OneSet ==
  ASSUME NEW fds, GoodFds(fds), NEW fd \in Fds, NEW f, GoodFd(f)
  PROVE  GoodFds([fds EXCEPT ![fd] = f])
<1> DEFINE new == [fds EXCEPT ![fd] = f]
<1>1. fds = [g \in Fds |-> fds[g]] /\ \A g \in Fds : GoodFd(fds[g])
  BY DEF GoodFds
<1>2. new = [g \in Fds |-> IF g = fd THEN f ELSE fds[g]]
  BY <1>1
<1>3. new = [g \in Fds |-> new[g]]
  BY <1>2, Zenon
<1>4. \A g \in Fds : GoodFd(new[g])
  BY <1>1, <1>2
<1> QED
  BY <1>3, <1>4 DEF GoodFds

\* The name open finds, and the place it takes.
LEMMA NamedIs ==
  ASSUME NEW name, read_dentry_by_name(name) # NoFile
  PROVE  read_dentry_by_name(name) \in 1 .. num_dentries
<1>1. num_dentries \in Nat
  BY FileSystemAssumption DEF num_dentries
<1>2. Named(name) \in SUBSET Nat /\ Named(name) \subseteq 1 .. num_dentries
  BY <1>1 DEF Named
<1>3. Named(name) # {}
  BY DEF read_dentry_by_name
<1>4. Min(Named(name)) \in Named(name)
  BY <1>2, <1>3, LeastOf
<1> QED
  BY <1>2, <1>3, <1>4 DEF read_dentry_by_name

LEMMA FreeIs ==
  ASSUME FreeFds # {}
  PROVE  Min(FreeFds) \in Fds /\ fd_array[Min(FreeFds)] = Unused
<1>1. FreeFds \in SUBSET Nat
  BY ProgramsAssumption DEF FreeFds, Fds
<1>2. Min(FreeFds) \in FreeFds
  BY <1>1, LeastOf
<1> QED
  BY <1>2 DEF FreeFds

\* A read leaves a descriptor as good as it was.
LEMMA ReadKeepsGood ==
  ASSUME ProperImage, NEW f, GoodFd(f), NEW n \in Nat
  PROVE  GoodFd(AfterRead(f, n).fd)
<1>1. /\ f.kind \in {"unused", "rtc", "dir", "file"}
      /\ f = [kind |-> f.kind, inode |-> f.inode, position |-> f.position]
      /\ num_dentries \in Nat
      /\ f.kind = "dir" => f.position \in 0 .. num_dentries
      /\ f.kind = "file" => /\ f.inode \in DOMAIN Image.inodes
                            /\ FileOf(f).length \in Nat
                            /\ f.position \in 0 .. FileOf(f).length
  BY Places
<1>2. CASE AtEnd(f)
  BY <1>2, NothingRead
<1>3. CASE f.kind = "dir" /\ ~AtEnd(f)
  <2>1. AfterRead(f, n).fd = Ahead(f, 1)
    BY <1>3, NameRead
  <2>2. f.position + 1 \in 0 .. num_dentries
    BY <1>1, <1>3 DEF AtEnd
  <2> QED
    BY <1>1, <1>3, <2>1, <2>2 DEF GoodFd, Ahead
<1>4. CASE f.kind = "file" /\ ~AtEnd(f)
  <2>1. AfterRead(f, n).fd = Ahead(f, Amount(f, n))
    BY <1>4, BytesRead
  <2>2. f.position + Amount(f, n) \in 0 .. FileOf(f).length
    BY <1>1, <1>4 DEF Amount, AtEnd
  <2>3. AfterRead(f, n).fd = [kind |-> f.kind, inode |-> f.inode, position |-> f.position + Amount(f, n)]
    BY <1>1, <2>1 DEF Ahead
  <2>4. FileOf(AfterRead(f, n).fd) = FileOf(f)
    BY <2>3 DEF FileOf
  <2> QED
    BY <1>1, <1>4, <2>2, <2>3, <2>4 DEF GoodFd
<1> QED
  BY <1>1, <1>2, <1>3, <1>4, Zenon DEF AtEnd

-----------------------------------------------------------------------------
(* The steps *)

\* Open finds an entry and a place for it, or gives nothing.
LEMMA OpenDoes ==
  ASSUME ProperImage, Open
  PROVE  /\ program # Shell /\ UNCHANGED <<program, image>>
         /\ \/ answer' = Failed /\ UNCHANGED fd_array
            \/ \E i \in 1 .. num_dentries, fd \in Fds :
                 /\ fd_array[fd] = Unused
                 /\ fd_array' = [fd_array EXCEPT ![fd] = Opened(i)]
                 /\ answer'.data = <<>>
<1>1. PICK name \in OpenNames :
        LET i == read_dentry_by_name(name) IN
        IF i = NoFile \/ FreeFds = {}
        THEN answer' = Failed /\ UNCHANGED fd_array
        ELSE /\ fd_array' = [fd_array EXCEPT ![Min(FreeFds)] = Opened(i)]
             /\ answer' = Answer(Min(FreeFds), <<>>)
  BY Zenon DEF Open
<1> DEFINE i  == read_dentry_by_name(name)
           fd == Min(FreeFds)
<1>2. ASSUME i # NoFile, FreeFds # {}
      PROVE  /\ i \in 1 .. num_dentries /\ fd \in Fds /\ fd_array[fd] = Unused
             /\ fd_array' = [fd_array EXCEPT ![fd] = Opened(i)]
             /\ answer'.data = <<>>
  <2>1. i \in 1 .. num_dentries
    BY <1>2, NamedIs
  <2>2. fd \in Fds /\ fd_array[fd] = Unused
    BY <1>2, FreeIs
  <2>3. fd_array' = [fd_array EXCEPT ![fd] = Opened(i)] /\ answer' = Answer(fd, <<>>)
    BY <1>1, <1>2, Zenon
  <2> QED
    BY <2>1, <2>2, <2>3 DEF Answer
<1>3. program # Shell /\ UNCHANGED <<program, image>>
  BY DEF Open
<1> HIDE DEF i, fd
<1>4. ASSUME i = NoFile \/ FreeFds = {} PROVE answer' = Failed /\ UNCHANGED fd_array
  BY <1>1, <1>4, Zenon DEF i
<1> QED
  BY <1>2, <1>3, <1>4, Zenon

\* A program that starts is an entry of the directory, whole.
LEMMA StartsDoes ==
  ASSUME ProperImage, NEW command, ExecuteStarts(command)
  PROVE  /\ image' = Whole(program')
         /\ fd_array' = [fd \in Fds |-> Unused] /\ answer' = Answer(0, <<>>)
<1> DEFINE args == tiny_parse(command)
<1>1. PICK i \in Finds(command, args) \ {NoFile} : Runs(i) /\ program' = i /\ image' = loaded(i)
  BY Zenon DEF ExecuteStarts
<1>2. Finds(command, args) \ {NoFile} \subseteq 1 .. num_dentries
  BY Zenon DEF Finds
<1>3. i \in 1 .. num_dentries
  BY <1>1, <1>2
<1>4. loaded(i) = Whole(i)
  BY <1>1, <1>3, LoadedWhole
<1>5. fd_array' = [fd \in Fds |-> Unused] /\ answer' = Answer(0, <<>>)
  BY Zenon DEF ExecuteStarts
<1> QED
  BY <1>1, <1>4, <1>5

LEMMA ProgInit == Init => ProgInv
<1> SUFFICES ASSUME Init PROVE ProgInv
  OBVIOUS
<1>1. fd_array = [fd \in Fds |-> Unused] /\ program = Shell
  BY DEF Init
<1> QED
  BY <1>1, NoneOpen DEF ProgInv, ImageLoadedWhole

LEMMA ProgNext ==
  ASSUME ProperImage, ProgInv, [Next]_vars
  PROVE  ProgInv'
<1>1. GoodFds(fd_array)
  BY DEF ProgInv
<1>2. program # Shell => image = Whole(program)
  BY DEF ProgInv, ImageLoadedWhole
<1>3. ASSUME GoodFds(fd_array'), program' # Shell => image' = Whole(program')
      PROVE  ProgInv'
  BY <1>3 DEF ProgInv, ImageLoadedWhole
<1>4. ASSUME UNCHANGED <<program, image>> PROVE program' # Shell => image' = Whole(program')
  BY <1>2, <1>4
<1>5. ASSUME UNCHANGED <<program, image, fd_array>> PROVE ProgInv'
  BY <1>1, <1>3, <1>4, <1>5
<1>6. CASE UNCHANGED vars
  BY <1>5, <1>6 DEF vars
<1>7. CASE ExecuteFails
  BY <1>5, <1>7 DEF ExecuteFails
<1>8. CASE \E command \in Commands : ExecuteStarts(command)
  <2>1. image' = Whole(program') /\ fd_array' = [fd \in Fds |-> Unused]
    BY <1>8, StartsDoes
  <2> QED
    BY <1>3, <2>1, NoneOpen
<1>9. CASE Halt
  <2>1. program' = Shell /\ fd_array' = [fd \in Fds |-> Unused]
    BY <1>9 DEF Halt
  <2> QED
    BY <1>3, <2>1, NoneOpen
<1>10. CASE Open
  <2>1. CASE answer' = Failed /\ UNCHANGED fd_array
    BY <1>5, <1>10, <2>1, OpenDoes
  <2>2. CASE \E i \in 1 .. num_dentries, fd \in Fds :
               fd_array' = [fd_array EXCEPT ![fd] = Opened(i)]
    <3>1. PICK i \in 1 .. num_dentries, fd \in Fds :
            fd_array' = [fd_array EXCEPT ![fd] = Opened(i)]
      BY <2>2
    <3>2. GoodFd(Opened(i))
      BY OpenedFacts
    <3>3. GoodFds(fd_array')
      BY <1>1, <3>1, <3>2, OneSet
    <3> QED
      BY <1>3, <1>4, <1>10, <3>3, OpenDoes
  <2> QED
    BY <1>10, <2>1, <2>2, OpenDoes, Zenon
<1>11. CASE Close
  <2>1. PICK fd \in Fds : fd_array' = [fd_array EXCEPT ![fd] = Unused]
    BY <1>11 DEF Close
  <2>2. GoodFds(fd_array')
    BY <1>1, <2>1, UnusedIsGood, OneSet
  <2>3. UNCHANGED <<program, image>>
    BY <1>11 DEF Close
  <2> QED
    BY <1>3, <1>4, <2>2, <2>3
<1>12. CASE Read
  <2>1. PICK fd \in Fds, n \in ReadSizes :
          fd_array' = [fd_array EXCEPT ![fd] = AfterRead(fd_array[fd], n).fd]
    BY <1>12, Zenon DEF Read
  <2>2. n \in Nat
    BY ProgramsAssumption
  <2>3. GoodFd(AfterRead(fd_array[fd], n).fd)
    BY <1>1, <2>2, ReadKeepsGood DEF GoodFds
  <2>4. GoodFds(fd_array')
    BY <1>1, <2>1, <2>3, OneSet
  <2>5. UNCHANGED <<program, image>>
    BY <1>12 DEF Read
  <2> QED
    BY <1>3, <1>4, <2>4, <2>5
<1> QED
  BY <1>6, <1>7, <1>8, <1>9, <1>10, <1>11, <1>12, Zenon DEF Next

\* A program runs with all of its file in place, although the header is read
\* through the same descriptor first (Execute_Halt.c, fileSystem.c): for every
\* proper image, every size of block and every line typed.
THEOREM ImageLoadedWholeHolds ==
  ASSUME ProperImage PROVE Spec => []ImageLoadedWhole
<1>1. ProgInv /\ [Next]_vars => ProgInv'
  BY ProgNext
<1>2. ProgInv => ImageLoadedWhole
  BY DEF ProgInv
<1> QED
  BY <1>1, <1>2, ProgInit, PTL DEF Spec

-----------------------------------------------------------------------------
(* Descriptors are streams *)

Closed == [unit |-> "closed", left |-> <<>>]

\* What is left of a stream, unit by unit.
LEMMA LeftIs ==
  ASSUME ProperImage, NEW f, GoodFd(f)
  PROVE  /\ f.kind = "unused" => Left(f) = Closed
         /\ f.kind = "rtc" => Left(f) = [unit |-> "bytes", left |-> <<>>]
         /\ f.kind = "dir" =>
              /\ Left(f).unit = "names" /\ Left(f) = [unit |-> "names", left |-> Left(f).left]
              /\ IsSeq(Left(f).left, num_dentries - f.position)
              /\ \A k \in 1 .. num_dentries - f.position :
                   Left(f).left[k] = [name |-> Image.dentries[f.position + k].name]
         /\ f.kind = "file" =>
              /\ Left(f).unit = "bytes" /\ Left(f) = [unit |-> "bytes", left |-> Left(f).left]
              /\ IsSeq(Left(f).left, FileOf(f).length - f.position)
              /\ \A k \in 1 .. FileOf(f).length - f.position :
                   Left(f).left[k] = Byte(FileOf(f), f.position + k - 1)
<1>1. f.kind = "unused" => Left(f) = Closed
  BY DEF Left, Closed
<1>2. f.kind = "rtc" => Left(f) = [unit |-> "bytes", left |-> <<>>]
  BY DEF Left
<1>3. ASSUME f.kind = "dir"
      PROVE  /\ Left(f).unit = "names" /\ Left(f) = [unit |-> "names", left |-> Left(f).left]
             /\ IsSeq(Left(f).left, num_dentries - f.position)
             /\ \A k \in 1 .. num_dentries - f.position :
                  Left(f).left[k] = [name |-> Image.dentries[f.position + k].name]
  <2> DEFINE n == num_dentries - f.position
             l == [k \in 1 .. n |-> [name |-> Image.dentries[f.position + k].name]]
  <2>1. n \in Nat
    BY <1>3, Places
  <2>2. Left(f) = [unit |-> "names", left |-> l]
    BY <1>3 DEF Left
  <2>3. l = [k \in 1 .. n |-> l[k]]
    BY Zenon
  <2>4. \A k \in 1 .. n : l[k] = [name |-> Image.dentries[f.position + k].name]
    BY Zenon
  <2> HIDE DEF n, l
  <2>5. Left(f).unit = "names" /\ Left(f).left = l
    BY <2>2
  <2>6. IsSeq(l, n)
    BY <2>1, <2>3 DEF IsSeq
  <2> QED
    BY <2>2, <2>4, <2>5, <2>6 DEF n
<1>4. ASSUME f.kind = "file"
      PROVE  /\ Left(f).unit = "bytes" /\ Left(f) = [unit |-> "bytes", left |-> Left(f).left]
             /\ IsSeq(Left(f).left, FileOf(f).length - f.position)
             /\ \A k \in 1 .. FileOf(f).length - f.position :
                  Left(f).left[k] = Byte(FileOf(f), f.position + k - 1)
  <2> DEFINE n == FileOf(f).length - f.position
             l == [k \in 1 .. n |-> Byte(FileOf(f), f.position + k - 1)]
  <2>1. n \in Nat
    BY <1>4, Places
  <2>2. Left(f) = [unit |-> "bytes", left |-> l]
    BY <1>4 DEF Left, FileOf
  <2>3. l = [k \in 1 .. n |-> l[k]]
    BY Zenon
  <2>4. \A k \in 1 .. n : l[k] = Byte(FileOf(f), f.position + k - 1)
    BY Zenon
  <2> HIDE DEF n, l
  <2>5. Left(f).unit = "bytes" /\ Left(f).left = l
    BY <2>2
  <2>6. IsSeq(l, n)
    BY <2>1, <2>3 DEF IsSeq
  <2> QED
    BY <2>2, <2>4, <2>5, <2>6 DEF n
<1> QED
  BY <1>1, <1>2, <1>3, <1>4

\* A stream from which k has been read.
LEMMA Cut ==
  ASSUME NEW s, NEW n, IsSeq(s, n), NEW k \in 0 .. n, NEW r, r = n - k,
         NEW t, IsSeq(t, k), \A i \in 1 .. k : t[i] = s[i],
         NEW u, IsSeq(u, r), \A i \in 1 .. r : u[i] = s[k + i]
  PROVE  Len(s) = n /\ t = SubSeq(s, 1, k) /\ u = SubSeq(s, k + 1, Len(s))
<1> DEFINE E == {s[i] : i \in 1 .. n}
<1>1. n \in Nat
  BY DEF IsSeq
<1>2. \A i \in 1 .. n : s[i] \in E
  OBVIOUS
<1> HIDE DEF E
<1>3. Len(s) = n
  BY <1>2, IsSeqFacts
<1>4. t = SubSeq(s, 1, k)
  <2>1. 0 \in 0 .. n /\ k \in 0 .. n /\ k = k - 0 /\ 1 = 0 + 1 /\ \A i \in 1 .. k : 0 + i = i
    BY <1>1
  <2>2. \A i \in 1 .. k : t[i] = s[0 + i]
    BY <2>1
  <2> QED
    BY <2>1, <2>2, SubSeqIs
<1>5. u = SubSeq(s, k + 1, n)
  <2>1. n \in k .. n
    BY <1>1
  <2> QED
    BY <2>1, SubSeqIs
<1> QED
  BY <1>3, <1>4, <1>5

\* A read before the end takes what the stream says, and leaves the rest.
LEMMA TakenFromFront ==
  ASSUME ProperImage, NEW f, GoodFd(f), NEW n \in Nat, ~AtEnd(f),
         NEW k, k = S!Taken(Left(f), n)
  PROVE  /\ AfterRead(f, n).answer.data = SubSeq(Left(f).left, 1, k)
         /\ Left(AfterRead(f, n).fd)
              = [unit |-> Left(f).unit, left |-> SubSeq(Left(f).left, k + 1, Len(Left(f).left))]
<1> DEFINE g == AfterRead(f, n).fd
           s == Left(f).left
           t == AfterRead(f, n).answer.data
           u == Left(g).left
<1>1. /\ f.kind \in {"unused", "rtc", "dir", "file"}
      /\ num_dentries \in Nat
      /\ f.kind = "dir" => f.position \in 0 .. num_dentries
      /\ f.kind = "file" => FileOf(f).length \in Nat /\ f.position \in 0 .. FileOf(f).length
  BY Places
<1>2. GoodFd(g)
  BY ReadKeepsGood
<1>3. ASSUME NEW m, IsSeq(s, m), k \in 0 .. m, NEW r, r = m - k, IsSeq(t, k), IsSeq(u, r),
             \A i \in 1 .. k : t[i] = s[i], \A i \in 1 .. r : u[i] = s[k + i],
             Left(g) = [unit |-> Left(f).unit, left |-> u]
      PROVE  /\ AfterRead(f, n).answer.data = SubSeq(Left(f).left, 1, k)
             /\ Left(AfterRead(f, n).fd)
                  = [unit |-> Left(f).unit, left |-> SubSeq(Left(f).left, k + 1, Len(Left(f).left))]
  <2> HIDE DEF g, s, t, u
  <2>1. t = SubSeq(s, 1, k) /\ u = SubSeq(s, k + 1, Len(s))
    BY <1>3, Cut
  <2>2. Left(g) = [unit |-> Left(f).unit, left |-> SubSeq(s, k + 1, Len(s))]
    BY <1>3, <2>1
  <2> QED
    BY <2>1, <2>2 DEF g, s, t, u
<1>4. CASE f.kind = "dir"
  <2> DEFINE m == num_dentries - f.position
  <2>1. m \in Nat /\ m >= 1 /\ f.position \in Nat
    BY <1>1, <1>4 DEF AtEnd
  <2>2. /\ Left(f).unit = "names" /\ IsSeq(s, m)
        /\ \A i \in 1 .. m : s[i] = [name |-> Image.dentries[f.position + i].name]
    BY <1>4, LeftIs
  <2>3. Len(s) = m
    <3> DEFINE E == {s[i] : i \in 1 .. m}
    <3>1. \A i \in 1 .. m : s[i] \in E
      OBVIOUS
    <3> HIDE DEF E, m, s
    <3> QED
      BY <2>2, <3>1, IsSeqFacts
  <2>4. k = 1
    BY <2>1, <2>2, <2>3 DEF S!Taken
  <2>5. AfterRead(f, n).answer = Answer(Len(NameAt(f)), <<[name |-> NameAt(f)]>>) /\ g = Ahead(f, 1)
    BY <1>4, NameRead
  <2>6. g.kind = "dir" /\ g.position = f.position + 1
    BY <1>4, <2>5, AheadIs
  <2>7. /\ Left(g) = [unit |-> "names", left |-> u] /\ IsSeq(u, num_dentries - g.position)
        /\ \A i \in 1 .. num_dentries - g.position :
             u[i] = [name |-> Image.dentries[g.position + i].name]
    BY <1>2, <2>6, LeftIs
  <2>8. t = <<[name |-> NameAt(f)]>>
    BY <2>5 DEF Answer
  <2>9. IsSeq(t, 1) /\ t[1] = s[1]
    <3>1. s[1] = [name |-> NameAt(f)]
      BY <2>1, <2>2 DEF NameAt
    <3> HIDE DEF s, t
    <3> QED
      BY <2>8, <3>1 DEF IsSeq
  <2> DEFINE r == num_dentries - g.position
  <2>10. r = m - 1 /\ \A i \in 1 .. r : 1 + i \in 1 .. m /\ g.position + i = f.position + (1 + i)
    BY <1>1, <2>1, <2>6
  <2>11. \A i \in 1 .. r : u[i] = s[1 + i]
    BY <2>2, <2>7, <2>10
  <2>12. Left(g) = [unit |-> Left(f).unit, left |-> u]
    BY <2>2, <2>7
  <2>13. /\ IsSeq(s, m) /\ k \in 0 .. m /\ r = m - k /\ IsSeq(t, k) /\ IsSeq(u, r)
         /\ (\A i \in 1 .. k : t[i] = s[i]) /\ (\A i \in 1 .. r : u[i] = s[k + i])
    <3> HIDE DEF s, t, u, m, g
    <3> QED
      BY <2>1, <2>2, <2>4, <2>7, <2>9, <2>10, <2>11
  <2> HIDE DEF s, t, u, m, r, g
  <2> QED
    BY <1>3, <2>12, <2>13
<1>5. CASE f.kind = "file"
  <2> DEFINE m == FileOf(f).length - f.position
  <2>1. m \in Nat /\ m >= 1 /\ f.position \in Nat
    BY <1>1, <1>5 DEF AtEnd
  <2>2. /\ Left(f).unit = "bytes" /\ IsSeq(s, m)
        /\ \A i \in 1 .. m : s[i] = Byte(FileOf(f), f.position + i - 1)
    BY <1>5, LeftIs
  <2>3. Len(s) = m
    <3> DEFINE E == {s[i] : i \in 1 .. m}
    <3>1. \A i \in 1 .. m : s[i] \in E
      OBVIOUS
    <3> HIDE DEF E, m, s
    <3> QED
      BY <2>2, <3>1, IsSeqFacts
  <2>4. k = Amount(f, n) /\ k \in 0 .. m
    BY <1>1, <1>5, <2>1, <2>2, <2>3 DEF S!Taken, Amount
  <2>5. AfterRead(f, n).answer = Answer(k, BytesAt(f, k)) /\ g = Ahead(f, k)
    BY <1>5, <2>4, BytesRead
  <2>6. g.kind = "file" /\ g.position = f.position + k /\ FileOf(g) = FileOf(f)
    BY <1>5, <2>5, AheadIs DEF FileOf
  <2>7. /\ Left(g) = [unit |-> "bytes", left |-> u] /\ IsSeq(u, FileOf(f).length - g.position)
        /\ \A i \in 1 .. FileOf(f).length - g.position :
             u[i] = Byte(FileOf(f), g.position + i - 1)
    BY <1>2, <2>6, LeftIs
  <2>8. t = BytesAt(f, k)
    BY <2>5 DEF Answer
  <2>9. IsSeq(t, k) /\ \A i \in 1 .. k : t[i] = Byte(FileOf(f), f.position + i - 1)
    <3>1. BytesAt(f, k) = [i \in 1 .. k |-> BytesAt(f, k)[i]]
      BY Zenon DEF BytesAt
    <3>2. \A i \in 1 .. k : BytesAt(f, k)[i] = Byte(FileOf(f), f.position + i - 1)
      BY Zenon DEF BytesAt
    <3>3. k \in Nat
      BY <2>1, <2>4
    <3> HIDE DEF t
    <3> QED
      BY <2>8, <3>1, <3>2, <3>3 DEF IsSeq
  <2> DEFINE r == FileOf(f).length - g.position
  <2>10. r = m - k /\ \A i \in 1 .. r : k + i \in 1 .. m /\ g.position + i - 1 = f.position + (k + i) - 1
    BY <1>1, <1>5, <2>1, <2>4, <2>6
  <2>11. \A i \in 1 .. r : u[i] = s[k + i]
    BY <2>2, <2>7, <2>10
  <2>12. Left(g) = [unit |-> Left(f).unit, left |-> u]
    BY <2>2, <2>7
  <2>13. \A i \in 1 .. k : t[i] = s[i]
    <3>1. \A i \in 1 .. k : i \in 1 .. m
      BY <2>1, <2>4
    <3> HIDE DEF s, t, m
    <3> QED
      BY <2>2, <2>9, <3>1
  <2> HIDE DEF s, t, u, m, r, g
  <2>14. IsSeq(u, r)
    BY <2>7 DEF r
  <2> QED
    BY <1>3, <2>2, <2>4, <2>9, <2>10, <2>11, <2>12, <2>13, <2>14
<1> QED
  BY <1>1, <1>4, <1>5 DEF AtEnd

\* The steps of a descriptor's stream.
LEMMA StreamSet ==
  ASSUME GoodFds(fd_array), NEW fd \in Fds, NEW f, fd_array' = [fd_array EXCEPT ![fd] = f]
  PROVE  [g \in Fds |-> Left(fd_array'[g])]
           = [[g \in Fds |-> Left(fd_array[g])] EXCEPT ![fd] = Left(f)]
<1>1. fd_array = [g \in Fds |-> fd_array[g]]
  BY DEF GoodFds
<1>2. \A g \in Fds : fd_array'[g] = IF g = fd THEN f ELSE fd_array[g]
  BY <1>1
<1>3. [g \in Fds |-> Left(fd_array'[g])]
        = [g \in Fds |-> IF g = fd THEN Left(f) ELSE Left(fd_array[g])]
  <2>1. \A g \in Fds : Left(fd_array'[g]) = IF g = fd THEN Left(f) ELSE Left(fd_array[g])
    BY <1>2
  <2> QED
    BY <2>1, Zenon
<1>4. \A g \in Fds : [x \in Fds |-> Left(fd_array[x])][g] = Left(fd_array[g])
  BY Zenon
<1>5. [[g \in Fds |-> Left(fd_array[g])] EXCEPT ![fd] = Left(f)]
        = [g \in Fds |-> IF g = fd THEN Left(f) ELSE Left(fd_array[g])]
  BY <1>4
<1> QED
  BY <1>3, <1>5, Zenon

LEMMA ReadStep ==
  ASSUME ProperImage, GoodFds(fd_array), Read
  PROVE  S!Read \/ S!Refused
<1>1. PICK fd \in Fds, n \in ReadSizes :
        /\ answer' = AfterRead(fd_array[fd], n).answer
        /\ fd_array' = [fd_array EXCEPT ![fd] = AfterRead(fd_array[fd], n).fd]
  BY Zenon DEF Read
<1> DEFINE f     == fd_array[fd]
           after == AfterRead(f, n)
           Strm  == [g \in Fds |-> Left(fd_array[g])]
<1>2. n \in Nat /\ GoodFd(f) /\ fd_array = [g \in Fds |-> fd_array[g]]
  BY ProgramsAssumption DEF GoodFds
<1>3. CASE AtEnd(f)
  <2>1. after.fd = f /\ after.answer \in {Failed, Answer(0, <<>>)}
    BY <1>2, <1>3, NothingRead
  <2>2. answer'.data = <<>>
    BY <1>1, <2>1 DEF Failed, Answer
  <2>3. fd_array' = fd_array
    BY <1>1, <1>2, <2>1
  <2> QED
    BY <2>2, <2>3 DEF S!Refused
<1>4. CASE ~AtEnd(f)
  <2> DEFINE k    == S!Taken(Left(f), n)
             rest == SubSeq(Left(f).left, k + 1, Len(Left(f).left))
  <2>1. after.answer.data = SubSeq(Left(f).left, 1, k) /\ Left(after.fd) = [unit |-> Left(f).unit, left |-> rest]
    BY <1>2, <1>4, TakenFromFront
  <2>2. Strm' = [Strm EXCEPT ![fd] = Left(after.fd)]
    BY <1>1, StreamSet
  <2>3. Strm[fd] = Left(f)
    OBVIOUS
  <2>4. Left(f) = [unit |-> Left(f).unit, left |-> Left(f).left]
    <3>1. f.kind \in {"dir", "file"}
      BY <1>2, <1>4, Places DEF AtEnd
    <3> HIDE DEF f
    <3> QED
      BY <1>2, <3>1, LeftIs
  <2>5. [Left(f) EXCEPT !.left = rest] = [unit |-> Left(f).unit, left |-> rest]
    <3> HIDE DEF f, rest
    <3> QED
      BY <2>4
  <2>6. Strm' = [Strm EXCEPT ![fd].left = rest]
    <3>1. Strm' = [Strm EXCEPT ![fd] = [Left(f) EXCEPT !.left = rest]]
      BY <2>1, <2>2, <2>5, Zenon
    <3> HIDE DEF Strm, f, rest
    <3> QED
      BY <2>3, <3>1
  <2>7. answer'.data = SubSeq(Strm[fd].left, 1, S!Taken(Strm[fd], n))
    BY <1>1, <2>1, <2>3
  <2>8. Strm' = [Strm EXCEPT ![fd].left =
                   SubSeq(Strm[fd].left, S!Taken(Strm[fd], n) + 1, Len(Strm[fd].left))]
    BY <2>3, <2>6
  <2>9. S!Read
    BY <2>7, <2>8, Zenon DEF S!Read
  <2> QED
    BY <2>9
<1> QED
  BY <1>3, <1>4

LEMMA StreamsInit == Init => S!Init
<1> SUFFICES ASSUME Init PROVE S!Init
  OBVIOUS
<1>1. fd_array = [fd \in Fds |-> Unused] /\ answer = Answer(0, <<>>)
  BY DEF Init
<1>2. Left(Unused) = S!Closed
  BY DEF Left, Unused, S!Closed
<1>3. [fd \in Fds |-> Left(fd_array[fd])] = [fd \in Fds |-> S!Closed]
  BY <1>1, <1>2
<1> QED
  BY <1>1, <1>3 DEF S!Init, Answer

LEMMA StreamsNext ==
  ASSUME ProperImage, ProgInv, [Next]_vars
  PROVE  [S!Next]_(S!vars)
<1> DEFINE Strm == [fd \in Fds |-> Left(fd_array[fd])]
<1>1. GoodFds(fd_array)
  BY DEF ProgInv
<1>2. Left(Unused) = S!Closed
  BY DEF Left, Unused, S!Closed
<1>3. ASSUME fd_array' = [fd \in Fds |-> Unused], answer' = Answer(0, <<>>)
      PROVE  S!Restart
  <2>1. Strm' = [fd \in Fds |-> S!Closed]
    BY <1>2, <1>3
  <2> QED
    BY <1>3, <2>1 DEF S!Restart, Answer
<1>4. ASSUME UNCHANGED fd_array, answer'.data = <<>> PROVE S!Refused
  BY <1>4 DEF S!Refused
<1>5. CASE UNCHANGED vars
  BY <1>5 DEF vars, S!vars
<1>6. CASE ExecuteFails
  <2>1. UNCHANGED fd_array /\ answer' \in {Failed, Answer(0, <<>>)}
    BY <1>6, Zenon DEF ExecuteFails
  <2>2. answer'.data = <<>>
    BY <2>1 DEF Failed, Answer
  <2> QED
    BY <1>4, <2>1, <2>2 DEF S!Next
<1>7. CASE \E command \in Commands : ExecuteStarts(command)
  <2>1. fd_array' = [fd \in Fds |-> Unused] /\ answer' = Answer(0, <<>>)
    BY <1>7, StartsDoes
  <2> QED
    BY <1>3, <2>1 DEF S!Next
<1>8. CASE Halt
  <2>1. fd_array' = [fd \in Fds |-> Unused] /\ answer' = Answer(0, <<>>)
    BY <1>8 DEF Halt
  <2> QED
    BY <1>3, <2>1 DEF S!Next
<1>9. CASE Open
  <2>1. CASE answer' = Failed /\ UNCHANGED fd_array
    <3>1. answer'.data = <<>>
      BY <2>1 DEF Failed, Answer
    <3> QED
      BY <1>4, <2>1, <3>1 DEF S!Next
  <2>2. CASE \E i \in 1 .. num_dentries, fd \in Fds :
               /\ fd_array[fd] = Unused
               /\ fd_array' = [fd_array EXCEPT ![fd] = Opened(i)]
               /\ answer'.data = <<>>
    <3>1. PICK i \in 1 .. num_dentries, fd \in Fds :
            /\ fd_array[fd] = Unused
            /\ fd_array' = [fd_array EXCEPT ![fd] = Opened(i)]
            /\ answer'.data = <<>>
      BY <2>2
    <3>2. Strm' = [Strm EXCEPT ![fd] = Left(Opened(i))]
      BY <1>1, <3>1, StreamSet
    <3>3. Strm[fd] = S!Closed
      BY <1>2, <3>1
    <3>4. Left(Opened(i)) \in {Left(Opened(j)) : j \in 1 .. num_dentries}
      BY Zenon
    <3>5. S!Open
      BY <3>1, <3>2, <3>3, <3>4, Zenon DEF S!Open
    <3> QED
      BY <3>5 DEF S!Next
  <2> QED
    BY <1>9, <2>1, <2>2, OpenDoes, Zenon
<1>10. CASE Close
  <2>1. PICK fd \in Fds :
          /\ answer' = IF fd_array[fd] = Unused THEN Failed ELSE Answer(0, <<>>)
          /\ fd_array' = [fd_array EXCEPT ![fd] = Unused]
    BY <1>10 DEF Close
  <2>2. answer'.data = <<>>
    BY <2>1 DEF Failed, Answer
  <2>3. Strm' = [Strm EXCEPT ![fd] = S!Closed]
    BY <1>1, <1>2, <2>1, StreamSet
  <2>4. S!Close
    BY <2>2, <2>3, Zenon DEF S!Close
  <2> QED
    BY <2>4 DEF S!Next
<1>11. CASE Read
  BY <1>1, <1>11, ReadStep DEF S!Next
<1> QED
  BY <1>5, <1>6, <1>7, <1>8, <1>9, <1>10, <1>11, Zenon DEF Next

\* The descriptors are streams (Syscalls.c, fileSystem.c): open, read and close
\* of the kernel implement module Streams, for every proper image and every
\* size of block and of read.
THEOREM StreamsImplemented ==
  ASSUME ProperImage PROVE Spec => StreamsSpec
<1>1. ProgInv /\ [Next]_vars => ProgInv' /\ [S!Next]_(S!vars)
  BY ProgNext, StreamsNext
<1> QED
  BY <1>1, ProgInit, StreamsInit, PTL DEF Spec, StreamsSpec, S!Spec

-----------------------------------------------------------------------------
(* The first word of a command *)

InAWord(args) == Len(args) % 2 = 1
Looked(command, args, i) ==
  IF Len(args) = 2 * MaxArgs \/ (command[i] = Blank) # InAWord(args) THEN args
  ELSE Append(args, i - 1)

\* s is tiny_parse's args_pointer after each of the first n characters.
IsScan(s, command, n) ==
  s = [i \in 0 .. n |-> IF i = 0 THEN <<>> ELSE Looked(command, s[i - 1], i)]

\* The scan is defined character by character, from those before.
LEMMA ScanExists ==
  ASSUME NEW command, NEW m \in Nat
  PROVE  \E s : IsScan(s, command, m)
<1> DEFINE Bad == {n \in Nat : ~\E s : IsScan(s, command, n)}
<1> SUFFICES ASSUME Bad # {} PROVE FALSE
  OBVIOUS
<1>1. PICK n \in Bad : \A i \in Bad : n <= i
  <2>1. Bad \in SUBSET Nat
    OBVIOUS
  <2> HIDE DEF Bad
  <2>2. Min(Bad) \in Bad /\ \A i \in Bad : Min(Bad) <= i
    BY <2>1, LeastOf
  <2> QED
    BY <2>2
<1>2. n \in Nat /\ ~\E s : IsScan(s, command, n)
  OBVIOUS
<1>3. CASE n = 0
  <2> DEFINE s == [i \in 0 .. 0 |-> <<>>]
  <2>1. \A i \in 0 .. 0 : i = 0
    OBVIOUS
  <2>2. IsScan(s, command, 0)
    BY <2>1, Zenon DEF IsScan
  <2> QED
    BY <1>2, <1>3, <2>2
<1>4. CASE n # 0
  <2>1. n - 1 \in Nat /\ ~(n <= n - 1)
    BY <1>2, <1>4
  <2>2. n - 1 \notin Bad
    BY <1>1, <2>1
  <2>3. PICK s : IsScan(s, command, n - 1)
    BY <2>1, <2>2
  <2> DEFINE t == [i \in 0 .. n |-> IF i = n THEN Looked(command, s[n - 1], n) ELSE s[i]]
  <2>4. \A i \in 0 .. n - 1 : s[i] = IF i = 0 THEN <<>> ELSE Looked(command, s[i - 1], i)
    BY <2>3, Zenon DEF IsScan
  <2>5. \A i \in 0 .. n : t[i] = IF i = 0 THEN <<>> ELSE Looked(command, t[i - 1], i)
    <3> SUFFICES ASSUME NEW i \in 0 .. n
                 PROVE  t[i] = IF i = 0 THEN <<>> ELSE Looked(command, t[i - 1], i)
      OBVIOUS
    <3>1. CASE i = n
      <4>1. t[i - 1] = s[n - 1]
        BY <1>2, <1>4, <3>1
      <4> QED
        BY <1>4, <3>1, <4>1
    <3>2. CASE i # n /\ i # 0
      <4>1. i \in 0 .. n - 1 /\ i - 1 \in 0 .. n /\ i - 1 # n
        BY <1>2, <3>2
      <4>2. t[i - 1] = s[i - 1] /\ t[i] = s[i]
        BY <3>2, <4>1
      <4> HIDE DEF t
      <4> QED
        BY <2>4, <3>2, <4>1, <4>2
    <3>3. CASE i = 0
      <4>1. 0 \in 0 .. n - 1
        BY <2>1
      <4>2. t[i] = s[0]
        BY <1>4, <3>3
      <4> QED
        BY <2>4, <3>3, <4>1, <4>2
    <3> QED
      BY <3>1, <3>2, <3>3
  <2>6. t = [i \in 0 .. n |-> t[i]]
    BY Zenon
  <2> HIDE DEF t
  <2>7. IsScan(t, command, n)
    BY <2>5, <2>6, Zenon DEF IsScan
  <2> QED
    BY <1>2, <2>7
<1> QED
  BY <1>3, <1>4

LEMMA ParseIs ==
  ASSUME NEW command \in Seq(STRING)
  PROVE  LET last == Least(Len(command), MaxCommand) IN
         \E s : /\ IsScan(s, command, last)
                /\ tiny_parse(command) = IF InAWord(s[last]) THEN Append(s[last], last) ELSE s[last]
<1> DEFINE last == Least(Len(command), MaxCommand)
           s == CHOOSE s : IsScan(s, command, last)
<1>1. last \in Nat
  BY CommandLineAssumption DEF Least
<1>2. tiny_parse(command) = IF InAWord(s[last]) THEN Append(s[last], last) ELSE s[last]
  BY Zenon DEF tiny_parse, IsScan, InAWord, Looked
<1> HIDE DEF last
<1>3. IsScan(s, command, last)
  BY <1>1, ScanExists
<1> HIDE DEF s
<1> QED
  BY <1>2, <1>3 DEF last

\* What is known of the first word after i characters, whose args are given.
FirstKnown(command, args, i) ==
  /\ args \in Seq(Nat)
  /\ IF args = <<>> THEN \A j \in 1 .. i : command[j] = Blank
     ELSE /\ args[1] \in 0 .. i - 1
          /\ \A j \in 1 .. args[1] : command[j] = Blank
          /\ command[args[1] + 1] # Blank
          /\ IF Len(args) = 1 THEN \A j \in args[1] + 1 .. i : command[j] # Blank
             ELSE /\ args[2] \in args[1] + 1 .. i - 1
                  /\ \A j \in args[1] + 1 .. args[2] : command[j] # Blank
                  /\ command[args[2] + 1] = Blank

LEMMA LookKeepsFirst ==
  ASSUME NEW command, NEW i \in Nat \ {0}, NEW args, FirstKnown(command, args, i - 1)
  PROVE  FirstKnown(command, Looked(command, args, i), i)
<1> DEFINE b == Append(args, i - 1)
<1>1. args \in Seq(Nat) /\ i - 1 \in Nat /\ Len(args) \in Nat
  BY DEF FirstKnown
<1>2. /\ b \in Seq(Nat) /\ Len(b) = Len(args) + 1 /\ b[Len(args) + 1] = i - 1
      /\ \A j \in 1 .. Len(args) : b[j] = args[j]
  BY <1>1, AppendProperties
<1>3. args = <<>> <=> Len(args) = 0
  BY <1>1, EmptySeq
<1>4. MaxArgs \in Nat \ {0}
  BY CommandLineAssumption
<1>5. CASE Len(args) = 0
  <2>1. ~InAWord(args) /\ Len(args) # 2 * MaxArgs
    BY <1>4, <1>5 DEF InAWord
  <2>2. \A j \in 1 .. i - 1 : command[j] = Blank
    BY <1>3, <1>5 DEF FirstKnown
  <2>3. CASE command[i] = Blank
    <3>1. Looked(command, args, i) = args
      BY <2>1, <2>3 DEF Looked
    <3>2. \A j \in 1 .. i : command[j] = Blank
      BY <2>2, <2>3
    <3> QED
      BY <1>1, <1>3, <1>5, <3>1, <3>2 DEF FirstKnown
  <2>4. CASE command[i] # Blank
    <3>1. Looked(command, args, i) = b
      <4>1. (command[i] = Blank) = InAWord(args)
        BY <2>1, <2>4 DEF InAWord
      <4> QED
        BY <2>1, <4>1, Zenon DEF Looked
    <3>2. Len(b) = 1 /\ b[1] = i - 1 /\ b # <<>>
      BY <1>2, <1>5
    <3>3. /\ i - 1 \in 0 .. i - 1 /\ (i - 1) + 1 = i
          /\ \A j \in (i - 1) + 1 .. i : j = i
      BY <1>1
    <3> HIDE DEF b
    <3> QED
      BY <1>2, <2>2, <2>4, <3>1, <3>2, <3>3 DEF FirstKnown
  <2> QED
    BY <2>3, <2>4
<1>6. CASE Len(args) = 1
  <2>1. InAWord(args) /\ Len(args) # 2 * MaxArgs /\ args # <<>>
    BY <1>3, <1>4, <1>6 DEF InAWord
  <2>2. /\ args[1] \in 0 .. i - 2 /\ \A j \in 1 .. args[1] : command[j] = Blank
        /\ command[args[1] + 1] # Blank /\ \A j \in args[1] + 1 .. i - 1 : command[j] # Blank
    BY <1>1, <1>6, <2>1 DEF FirstKnown
  <2>3. CASE command[i] # Blank
    <3>1. Looked(command, args, i) = args
      BY <2>1, <2>3 DEF Looked
    <3>2. \A j \in args[1] + 1 .. i : command[j] # Blank
      BY <2>2, <2>3
    <3> QED
      BY <1>1, <1>6, <2>1, <2>2, <3>1, <3>2 DEF FirstKnown
  <2>4. CASE command[i] = Blank
    <3>1. Looked(command, args, i) = b
      <4>1. ~((command[i] = Blank) # InAWord(args))
        BY <2>1, <2>4, Zenon
      <4> QED
        BY <2>1, <4>1, Zenon DEF Looked
    <3>2. Len(b) = 2 /\ b[1] = args[1] /\ b[2] = i - 1 /\ b # <<>>
      BY <1>2, <1>6
    <3>3. i - 1 \in args[1] + 1 .. i - 1 /\ (i - 1) + 1 = i /\ args[1] \in 0 .. i - 1
      BY <1>1, <2>2
    <3> HIDE DEF b
    <3> QED
      BY <1>2, <2>2, <2>4, <3>1, <3>2, <3>3 DEF FirstKnown
  <2> QED
    BY <2>3, <2>4
<1>7. CASE Len(args) > 1
  <2>1. args # <<>> /\ Len(args) # 1
    <3> DEFINE n == Len(args)
    <3>1. n \in Nat /\ n > 1
      BY <1>1, <1>7
    <3> HIDE DEF n
    <3>2. n # 0 /\ n # 1
      BY <3>1
    <3> QED
      BY <1>3, <3>2 DEF n
  <2>2. /\ args[1] \in 0 .. i - 2 /\ \A j \in 1 .. args[1] : command[j] = Blank
        /\ command[args[1] + 1] # Blank
        /\ args[2] \in args[1] + 1 .. i - 2
        /\ \A j \in args[1] + 1 .. args[2] : command[j] # Blank
        /\ command[args[2] + 1] = Blank
    BY <1>1, <2>1 DEF FirstKnown
  <2>3. args[1] \in 0 .. i - 1 /\ args[2] \in args[1] + 1 .. i - 1
    BY <1>1, <2>2
  <2>4. CASE Looked(command, args, i) = args
    BY <1>1, <2>1, <2>2, <2>3, <2>4 DEF FirstKnown
  <2>5. CASE Looked(command, args, i) = b
    <3>1. b[1] = args[1] /\ b[2] = args[2] /\ b # <<>> /\ Len(b) # 1
      BY <1>1, <1>2, <1>7
    <3> HIDE DEF b
    <3> QED
      BY <1>2, <2>2, <2>3, <2>5, <3>1 DEF FirstKnown
  <2> QED
    BY <2>4, <2>5 DEF Looked
<1>8. Len(args) = 0 \/ Len(args) = 1 \/ Len(args) > 1
  <2> DEFINE n == Len(args)
  <2>1. n \in Nat
    BY <1>1
  <2> HIDE DEF n
  <2>2. n = 0 \/ n = 1 \/ n > 1
    BY <2>1
  <2> QED
    BY <2>2 DEF n
<1> HIDE DEF b
<1> QED
  BY <1>5, <1>6, <1>7, <1>8

LEMMA ScanKnows ==
  ASSUME NEW command, NEW n \in Nat, NEW s, IsScan(s, command, n)
  PROVE  FirstKnown(command, s[n], n)
<1> DEFINE Bad == {i \in 0 .. n : ~FirstKnown(command, s[i], i)}
<1>1. \A i \in 0 .. n : s[i] = IF i = 0 THEN <<>> ELSE Looked(command, s[i - 1], i)
  BY Zenon DEF IsScan
<1>2. Bad = {}
  <2> SUFFICES ASSUME Bad # {} PROVE FALSE
    OBVIOUS
  <2>1. Bad \in SUBSET Nat
    OBVIOUS
  <2>2. PICK k \in Bad : \A i \in Bad : k <= i
    <3> HIDE DEF Bad
    <3>1. Min(Bad) \in Bad /\ \A i \in Bad : Min(Bad) <= i
      BY <2>1, LeastOf
    <3> QED
      BY <3>1
  <2>3. k \in 0 .. n /\ ~FirstKnown(command, s[k], k)
    OBVIOUS
  <2>4. CASE k = 0
    <3>1. s[k] = <<>> /\ <<>> \in Seq(Nat) /\ 1 .. k = {}
      BY <1>1, <2>3, <2>4
    <3> QED
      BY <2>3, <3>1, Zenon DEF FirstKnown
  <2>5. CASE k # 0
    <3>1. k \in Nat \ {0} /\ k - 1 \in 0 .. n /\ ~(k <= k - 1)
      BY <2>3, <2>5
    <3>2. FirstKnown(command, s[k - 1], k - 1)
      BY <2>2, <3>1
    <3>3. s[k] = Looked(command, s[k - 1], k)
      BY <1>1, <2>3, <2>5
    <3> QED
      BY <2>3, <3>1, <3>2, <3>3, LookKeepsFirst
  <2> QED
    BY <2>4, <2>5
<1>3. n \in 0 .. n
  OBVIOUS
<1> QED
  BY <1>2, <1>3

\* What execute has of the first word: where it begins, and where it ends or is no
\* longer looked at.
LEMMA FirstWord ==
  ASSUME NEW command \in Seq(STRING), NEW args, args = tiny_parse(command), ArgNum(args) > 0,
         NEW last, last = Least(Len(command), MaxCommand)
  PROVE  /\ args[1] \in Nat /\ args[2] \in args[1] + 1 .. last
         /\ \A j \in 1 .. args[1] : command[j] = Blank
         /\ \A j \in args[1] + 1 .. args[2] : command[j] # Blank
         /\ args[2] = last \/ command[args[2] + 1] = Blank
<1>1. last \in Nat
  BY CommandLineAssumption DEF Least
<1>2. PICK s : /\ IsScan(s, command, last)
               /\ args = IF InAWord(s[last]) THEN Append(s[last], last) ELSE s[last]
  BY ParseIs
<1> DEFINE p == s[last]
<1>3. FirstKnown(command, p, last)
  BY <1>1, <1>2, ScanKnows
<1> HIDE DEF p
<1>4. p \in Seq(Nat) /\ Len(p) \in Nat /\ (p = <<>> <=> Len(p) = 0)
  BY <1>3, EmptySeq DEF FirstKnown
<1>5. args = IF InAWord(p) THEN Append(p, last) ELSE p
  BY <1>2 DEF p
<1>6. Len(p) # 0
  <2> SUFFICES ASSUME Len(p) = 0 PROVE FALSE
    OBVIOUS
  <2>1. args = p
    BY <1>5 DEF InAWord
  <2> QED
    BY <2>1 DEF ArgNum
<1>7. CASE Len(p) = 1
  <2>1. args = Append(p, last)
    BY <1>5, <1>7 DEF InAWord
  <2>2. args[1] = p[1] /\ args[2] = last
    <3>1. /\ \A j \in 1 .. Len(p) : Append(p, last)[j] = p[j]
          /\ Append(p, last)[Len(p) + 1] = last
      BY <1>1, <1>4, AppendProperties
    <3>2. 1 \in 1 .. Len(p) /\ Len(p) + 1 = 2
      BY <1>7
    <3> QED
      BY <2>1, <3>1, <3>2
  <2> QED
    BY <1>1, <1>3, <1>4, <1>7, <2>2 DEF FirstKnown
<1>8. CASE Len(p) > 1
  <2>1. args[1] = p[1] /\ args[2] = p[2]
    <3>1. \A j \in 1 .. Len(p) : Append(p, last)[j] = p[j]
      BY <1>1, <1>4, AppendProperties
    <3>2. 1 \in 1 .. Len(p) /\ 2 \in 1 .. Len(p)
      BY <1>4, <1>8
    <3> QED
      BY <1>5, <3>1, <3>2
  <2>2. /\ p[1] \in 0 .. last - 1 /\ p[2] \in p[1] + 1 .. last - 1
        /\ \A j \in 1 .. p[1] : command[j] = Blank
        /\ \A j \in p[1] + 1 .. p[2] : command[j] # Blank
        /\ command[p[2] + 1] = Blank
    BY <1>3, <1>4, <1>8 DEF FirstKnown
  <2> QED
    BY <1>1, <2>1, <2>2
<1>9. Len(p) = 1 \/ Len(p) > 1
  <2> DEFINE n == Len(p)
  <2>1. n \in Nat /\ n # 0
    BY <1>4, <1>6
  <2> HIDE DEF n
  <2>2. n = 1 \/ n > 1
    BY <2>1
  <2> QED
    BY <2>2 DEF n
<1> QED
  BY <1>7, <1>8, <1>9

\* What a reader takes for the first word of a line that begins with one.
LEMMA FirstIs ==
  ASSUME NEW line \in Seq(STRING), NEW a \in 1 .. Len(line), \A j \in 1 .. a : line[j] # Blank
  PROVE  \E e \in a .. Len(line) :
           /\ NthWord(line, 1) = SubSeq(line, 1, e)
           /\ \A j \in 1 .. e : line[j] # Blank
<1> DEFINE n == Len(line)
           Upto(i) == {j \in Starts(line) : j <= i}
           J == {j \in 1 .. n : 1 .. j \subseteq InWords(line)}
<1>1. n \in Nat /\ a \in 1 .. n
  OBVIOUS
<1>2. 1 \in Starts(line) /\ Starts(line) \subseteq 1 .. n
  BY <1>1 DEF Starts, InWords
<1>3. Cardinality(Upto(1)) = 1
  <2>1. Upto(1) = {1}
    BY <1>1, <1>2
  <2> QED
    BY <2>1, FS_Singleton
<1>4. ASSUME NEW i \in Starts(line), Cardinality(Upto(i)) = 1 PROVE i = 1
  <2>1. Upto(i) \subseteq 1 .. n /\ i \in Upto(i) /\ 1 \in Upto(i)
    BY <1>1, <1>2
  <2> HIDE DEF Upto
  <2>2. IsFiniteSet(Upto(i))
    <3>1. IsFiniteSet(1 .. n)
      <4> HIDE DEF n
      <4> QED
        BY <1>1, FS_Interval
    <3> QED
      BY <2>1, <3>1, FS_Subset
  <2>3. PICK x : Upto(i) = {x}
    BY <1>4, <2>2, FS_Singleton
  <2> QED
    BY <2>1, <2>3
<1> DEFINE c == CHOOSE i \in Starts(line) : Cardinality(Upto(i)) = 1
<1>5. c = 1
  <2>1. c \in Starts(line) /\ Cardinality(Upto(c)) = 1
    <3> HIDE DEF Upto
    <3> QED
      BY <1>2, <1>3
  <2> HIDE DEF c
  <2> QED
    BY <1>4, <2>1
<1>6. NthWord(line, 1) = WordFrom(line, c)
  BY Zenon DEF NthWord
<1>7. NthWord(line, 1) = SubSeq(line, 1, Max(J))
  <2> HIDE DEF c
  <2> QED
    BY <1>5, <1>6, Zenon DEF WordFrom
<1>8. a \in J
  BY <1>1 DEF InWords
<1>9. Max(J) \in J /\ \A j \in J : j <= Max(J)
  <2>1. J \in SUBSET Nat /\ J # {} /\ n \in Nat /\ \A j \in J : j <= n
    BY <1>1, <1>8
  <2> HIDE DEF J, n
  <2> QED
    BY <2>1, GreatestOf
<1>10. PICK e : e = Max(J)
  OBVIOUS
<1>11. e \in a .. n /\ e \in 1 .. n /\ 1 .. e \subseteq InWords(line)
  BY <1>1, <1>8, <1>9, <1>10
<1>12. \A j \in 1 .. e : line[j] # Blank
  BY <1>11 DEF InWords
<1> QED
  BY <1>7, <1>10, <1>11, <1>12

\* The beginning of a text of characters, and what is behind its "./".
LEMMA Beginning ==
  ASSUME NEW s \in Seq(STRING), NEW m \in 0 .. Len(s)
  PROVE  LET t == SubSeq(s, 1, m) IN
         t \in Seq(STRING) /\ Len(t) = m /\ \A j \in 1 .. m : t[j] = s[j]
<1>1. m \in Int /\ (IF 1 <= m THEN m - 1 + 1 ELSE 0) = m /\ m - 1 + 1 = m
  OBVIOUS
<1>2. \A i \in 1 .. m : s[i] \in STRING /\ 1 + i - 1 = i
  OBVIOUS
<1> QED
  BY <1>1, <1>2, SubSeqProperties

LEMMA Behind ==
  ASSUME NEW s \in Seq(STRING), Len(s) >= 2, NEW m \in 2 .. Len(s)
  PROVE  LET t == SubSeq(s, 3, m) IN
         t \in Seq(STRING) /\ Len(t) = m - 2 /\ \A j \in 1 .. m - 2 : t[j] = s[j + 2]
<1>1. m \in Int /\ (IF 3 <= m THEN m - 3 + 1 ELSE 0) = m - 2 /\ m - 3 + 1 = m - 2
  OBVIOUS
<1>2. \A i \in 3 .. m : s[i] \in STRING
  OBVIOUS
<1>3. \A i \in 1 .. m - 2 : 3 + i - 1 = i + 2
  OBVIOUS
<1> QED
  BY <1>1, <1>2, <1>3, SubSeqProperties

\* A name that open may take for the text of a first word is one the word names.
LEMMA TakesNamed ==
  ASSUME NEW first \in Seq(STRING), Len(first) > 0,
         NEW text, text = SubSeq(first, 1, Least(Len(first), FnameLen)),
         NEW name,
         IF ~DotSlash(text) THEN name = text
         ELSE IF Len(text) < FnameLen THEN name = SubSeq(text, 3, Len(text))
         ELSE IsPrefix(SubSeq(text, 3, Len(text)), name)
  PROVE  LET word == Unslashed(first) IN
         IF Len(first) < FnameLen THEN name = word ELSE IsPrefix(Clip(word, FnameLen - 2), name)
<1> DEFINE L == FnameLen
           e == Len(first)
           word == Unslashed(first)
<1>1. L \in Nat /\ L > 2 /\ e \in Nat
  BY CommandLineAssumption
<1>2. CASE e < L
  <2>1. Least(e, L) = e /\ e \in 0 .. Len(first)
    BY <1>1, <1>2 DEF Least
  <2>2. text \in Seq(STRING) /\ Len(text) = e /\ \A j \in 1 .. e : text[j] = first[j]
    BY <2>1, Beginning
  <2>3. text = first
    BY <2>2, SeqEqual
  <2> QED
    BY <1>2, <2>3 DEF Unslashed
<1>3. CASE e >= L
  <2>1. Least(e, L) = L /\ L \in 0 .. Len(first) /\ ~(e < L)
    BY <1>1, <1>3 DEF Least
  <2>2. text \in Seq(STRING) /\ Len(text) = L /\ \A j \in 1 .. L : text[j] = first[j]
    BY <2>1, Beginning
  <2>3. DotSlash(text) <=> DotSlash(first)
    BY <1>1, <1>3, <2>2 DEF DotSlash
  <2>4. CASE DotSlash(first)
    <3> DEFINE rest == SubSeq(text, 3, L)
    <3>1. word = SubSeq(first, 3, e)
      BY <2>4 DEF Unslashed
    <3>2. L - 2 \in Nat /\ e - 2 \in Nat /\ L - 2 <= e - 2
      BY <1>1, <1>3
    <3>3. word \in Seq(STRING) /\ Len(word) = e - 2 /\ \A j \in 1 .. e - 2 : word[j] = first[j + 2]
      <4>1. Len(first) >= 2 /\ e \in 2 .. Len(first)
        BY <1>1, <1>3
      <4> QED
        BY <3>1, <4>1, Behind
    <3>4. rest \in Seq(STRING) /\ Len(rest) = L - 2 /\ \A j \in 1 .. L - 2 : rest[j] = text[j + 2]
      <4>1. Len(text) >= 2 /\ L \in 2 .. Len(text)
        BY <1>1, <2>2
      <4> QED
        BY <2>2, <4>1, Behind
    <3>5. \A j \in 1 .. L - 2 : j + 2 \in 1 .. L /\ j \in 1 .. e - 2
      BY <1>1, <1>3
    <3>6. \A j \in 1 .. L - 2 : rest[j] = word[j]
      BY <2>2, <3>3, <3>4, <3>5
    <3> DEFINE c == SubSeq(word, 1, L - 2)
    <3> HIDE DEF rest, word
    <3>7. Clip(word, L - 2) = c
      BY <3>2, <3>3 DEF Clip, Least
    <3>8. c \in Seq(STRING) /\ Len(c) = L - 2 /\ \A j \in 1 .. L - 2 : c[j] = word[j]
      <4>1. L - 2 \in 0 .. Len(word)
        BY <3>2, <3>3
      <4> QED
        BY <3>3, <4>1, Beginning
    <3>9. c = rest
      <4> HIDE DEF c
      <4> QED
        BY <3>4, <3>6, <3>8, SeqEqual
    <3>10. IsPrefix(rest, name)
      BY <1>1, <2>2, <2>3, <2>4 DEF rest
    <3> QED
      BY <2>1, <3>7, <3>9, <3>10 DEF word
  <2>5. CASE ~DotSlash(first)
    <3>1. word = first /\ name = text
      BY <2>3, <2>5 DEF Unslashed
    <3>2. L - 2 \in Nat /\ L - 2 <= e /\ L - 2 <= L
      BY <1>1, <1>3
    <3> DEFINE c == SubSeq(first, 1, L - 2)
               p == SubSeq(text, 1, L - 2)
    <3>3. Clip(first, L - 2) = c
      BY <1>1, <3>2 DEF Clip, Least
    <3>4. c \in Seq(STRING) /\ Len(c) = L - 2 /\ \A j \in 1 .. L - 2 : c[j] = first[j]
      <4>1. L - 2 \in 0 .. Len(first)
        BY <3>2
      <4> QED
        BY <4>1, Beginning
    <3>5. p \in Seq(STRING) /\ Len(p) = L - 2 /\ \A j \in 1 .. L - 2 : p[j] = text[j]
      <4>1. L - 2 \in 0 .. Len(text)
        BY <2>2, <3>2
      <4> QED
        BY <2>2, <4>1, Beginning
    <3>6. \A j \in 1 .. L - 2 : j \in 1 .. L
      BY <1>1
    <3>7. c = p
      <4> HIDE DEF c, p
      <4>1. \A j \in 1 .. L - 2 : c[j] = p[j]
        BY <2>2, <3>4, <3>5, <3>6
      <4> QED
        BY <3>4, <3>5, <4>1, SeqEqual
    <3>8. SubSeq(c, 1, Len(c)) = c
      <4> DEFINE d == SubSeq(c, 1, L - 2)
      <4> HIDE DEF c
      <4>1. L - 2 \in 0 .. Len(c)
        BY <3>2, <3>4
      <4>2. d \in Seq(STRING) /\ Len(d) = L - 2 /\ \A j \in 1 .. L - 2 : d[j] = c[j]
        BY <3>4, <4>1, Beginning
      <4>3. d = c
        <5> HIDE DEF d
        <5> QED
          BY <3>4, <4>2, SeqEqual
      <4> QED
        BY <3>4, <4>3
    <3>9. Len(c) <= Len(text) /\ SubSeq(text, 1, Len(c)) = p
      <4> HIDE DEF c
      <4> QED
        BY <2>2, <3>2, <3>4
    <3>10. IsPrefix(c, text)
      <4> HIDE DEF c, p
      <4> QED
        BY <3>7, <3>8, <3>9 DEF IsPrefix
    <3> HIDE DEF c
    <3> QED
      BY <2>1, <3>1, <3>3, <3>10
  <2> QED
    BY <2>4, <2>5
<1>4. e < L \/ e >= L
  BY <1>1
<1> QED
  BY <1>2, <1>3, <1>4

\* What open may find is named by the first word, where a reader sees it.
LEMMA TakenIsNamed ==
  ASSUME NEW command \in Seq(STRING), NEW args, args = tiny_parse(command), ArgNum(args) > 0,
         NEW name, \A k \in 1 .. Len(name) : name[k] # Blank, MayName(command, args, name)
  PROVE  NamedBy(command, name)
<1> DEFINE last == Least(Len(command), MaxCommand)
           l == args[2] - args[1]
           text == fname(command, args)
<1>1. /\ last \in 0 .. Len(command) /\ Len(command) \in Nat
      /\ FnameLen \in Nat /\ FnameLen > 2
      /\ last = Len(command) \/ last >= FnameLen
  BY CommandLineAssumption DEF Least
<1>2. /\ args[1] \in Nat /\ args[2] \in args[1] + 1 .. last
      /\ \A j \in 1 .. args[1] : command[j] = Blank
      /\ \A j \in args[1] + 1 .. args[2] : command[j] # Blank
      /\ args[2] = last \/ command[args[2] + 1] = Blank
  <2> HIDE DEF last
  <2>1. last = Least(Len(command), MaxCommand)
    BY DEF last
  <2> QED
    BY <2>1, FirstWord
<1> HIDE DEF last
<1>3. l \in 1 .. Len(command) /\ Least(l, FnameLen) \in 1 .. Len(command)
  BY <1>1, <1>2 DEF Least
<1>4. text = SubSeq(command, 1, Least(l, FnameLen))
  BY Zenon DEF fname
<1>5. /\ text \in Seq(STRING) /\ Len(text) = Least(l, FnameLen) /\ Len(text) >= 1
      /\ \A j \in 1 .. Len(text) : text[j] = command[j]
  <2> HIDE DEF text, l
  <2> DEFINE m == Least(l, FnameLen)
  <2>1. m \in 0 .. Len(command) /\ m >= 1 /\ text = SubSeq(command, 1, m)
    BY <1>1, <1>3, <1>4
  <2> HIDE DEF m
  <2>2. text \in Seq(STRING) /\ Len(text) = m /\ \A j \in 1 .. m : text[j] = command[j]
    BY <2>1, Beginning
  <2> QED
    BY <2>1, <2>2 DEF m
<1>6. IF ~DotSlash(text) THEN name = text
      ELSE IF Len(text) < FnameLen THEN name = SubSeq(text, 3, Len(text))
      ELSE IsPrefix(SubSeq(text, 3, Len(text)), name)
  BY Zenon DEF MayName
<1> HIDE DEF text
<1>7. args[1] = 0
  <2> SUFFICES ASSUME args[1] # 0 PROVE FALSE
    OBVIOUS
  <2>1. 1 \in 1 .. args[1] /\ 1 \in 1 .. Len(text)
    BY <1>2, <1>5
  <2>2. text[1] = Blank
    BY <1>2, <1>5, <2>1
  <2>3. name = text
    BY <1>6, <2>2 DEF DotSlash, Blank
  <2> QED
    BY <2>1, <2>2, <2>3
<1>8. l = args[2] /\ l \in 1 .. Len(command) /\ \A j \in 1 .. l : command[j] # Blank
  BY <1>1, <1>2, <1>7
<1>9. l = last \/ command[l + 1] = Blank
  BY <1>2, <1>8
<1> HIDE DEF l
<1>10. PICK e \in l .. Len(command) :
         /\ NthWord(command, 1) = SubSeq(command, 1, e)
         /\ \A j \in 1 .. e : command[j] # Blank
  BY <1>8, FirstIs
<1> DEFINE first == SubSeq(command, 1, e)
<1>11. e \in 0 .. Len(command) /\ e >= 1
  BY <1>1, <1>8, <1>10
<1>12. first \in Seq(STRING) /\ Len(first) = e /\ \A j \in 1 .. e : first[j] = command[j]
  BY <1>11, Beginning
<1>13. Least(e, FnameLen) = Least(l, FnameLen)
  <2>1. CASE e = l
    BY <2>1
  <2>2. CASE e # l
    <3>1. l + 1 \in 1 .. e /\ l < Len(command) /\ l < e
      BY <1>1, <1>8, <1>10, <2>2
    <3>2. l = last /\ last # Len(command)
      BY <1>9, <1>10, <3>1
    <3>3. l >= FnameLen /\ l \in Nat /\ e \in Nat
      BY <1>1, <1>8, <1>10, <3>2
    <3> QED
      BY <1>1, <3>1, <3>3 DEF Least
  <2> QED
    BY <2>1, <2>2
<1> DEFINE m == Least(e, FnameLen)
           t == SubSeq(first, 1, m)
<1>14. m \in 0 .. e /\ m = Len(text)
  BY <1>1, <1>5, <1>11, <1>13 DEF Least
<1> HIDE DEF first, m
<1>15. t \in Seq(STRING) /\ Len(t) = m /\ \A j \in 1 .. m : t[j] = first[j]
  BY <1>12, <1>14, Beginning
<1>16. text = t
  <2> HIDE DEF t
  <2>1. \A j \in 1 .. m : text[j] = t[j]
    BY <1>5, <1>11, <1>12, <1>14, <1>15
  <2> QED
    BY <1>5, <1>14, <1>15, <2>1, SeqEqual
<1>17. text = SubSeq(first, 1, Least(Len(first), FnameLen)) /\ Len(first) > 0
  BY <1>11, <1>12, <1>16 DEF m
<1>18. LET word == Unslashed(first) IN
       IF Len(first) < FnameLen THEN name = word ELSE IsPrefix(Clip(word, FnameLen - 2), name)
  BY <1>6, <1>12, <1>17, TakesNamed
<1>19. NthWord(command, 1) = first
  BY <1>10 DEF first
<1> QED
  BY <1>18, <1>19, Zenon DEF NamedBy

\* The program that starts is the one the line names: no blank in front of the
\* word, no "./" and no word of the length of a name makes execute take another file.
THEOREM NamedProgramRunsHolds ==
  ASSUME ProperImage PROVE Spec => NamedProgramRuns
<1>1. ASSUME NEW command \in Commands, ExecuteStarts(command)
      PROVE  NamedBy(command, Image.dentries[program'].name)
  <2> DEFINE args == tiny_parse(command)
  <2>1. ArgNum(args) > 0
    BY <1>1, Zenon DEF ExecuteStarts
  <2>2. PICK i \in Finds(command, args) \ {NoFile} : program' = i
    BY <1>1, Zenon DEF ExecuteStarts
  <2>3. i \in 1 .. num_dentries /\ MayName(command, args, Image.dentries[i].name)
    BY <2>2, Zenon DEF Finds
  <2>4. \A k \in 1 .. Len(Image.dentries[i].name) : Image.dentries[i].name[k] # Blank
    BY <2>3, Zenon DEF ProperImage
  <2>5. command \in Seq(STRING)
    BY ProgramsAssumption
  <2> HIDE DEF args
  <2>6. args = tiny_parse(command)
    BY DEF args
  <2> QED
    BY <2>1, <2>2, <2>3, <2>4, <2>5, <2>6, TakenIsNamed
<1>2. [Next]_vars => [\A command \in Commands : ExecuteStarts(command) =>
        NamedBy(command, Image.dentries[program'].name)]_vars
  BY <1>1
<1> QED
  BY <1>2, PTL DEF Spec, NamedProgramRuns

-----------------------------------------------------------------------------
(* All the words of a command *)

\* How many words of the line begin among its first i characters.
Count(line, i) == Cardinality({j \in Starts(line) : j <= i})

\* A word begins where a blank, or nothing, is before it.
LEMMA StartsAre ==
  ASSUME NEW line \in Seq(STRING), NEW i \in 1 .. Len(line)
  PROVE  i \in Starts(line) <=> line[i] # Blank /\ (i = 1 \/ line[i - 1] = Blank)
<1>1. Len(line) \in Nat
  OBVIOUS
<1>2. i \in InWords(line) <=> line[i] # Blank
  BY DEF InWords
<1>3. i - 1 \in InWords(line) <=> i # 1 /\ line[i - 1] # Blank
  BY <1>1 DEF InWords
<1> QED
  BY <1>2, <1>3 DEF Starts

\* Some number of words begins in any part of a line.
LEMMA SomeStarts ==
  ASSUME NEW line \in Seq(STRING), NEW i
  PROVE  IsFiniteSet({j \in Starts(line) : j <= i}) /\ Count(line, i) \in Nat
<1> DEFINE B == {j \in Starts(line) : j <= i}
           n == Len(line)
<1>1. n \in Nat /\ B \subseteq 1 .. n
  BY DEF Starts, InWords
<1> HIDE DEF n, B
<1>2. IsFiniteSet(1 .. n)
  BY <1>1, FS_Interval
<1>3. IsFiniteSet(B)
  BY <1>1, <1>2, FS_Subset
<1> QED
  BY <1>3, FS_CardinalityType DEF B, Count

\* One more character is one more word, if a word begins with it.
LEMMA CountGrows ==
  ASSUME NEW line \in Seq(STRING), NEW i \in 1 .. Len(line)
  PROVE  /\ Count(line, i - 1) \in Nat
         /\ Count(line, i) = Count(line, i - 1) + IF i \in Starts(line) THEN 1 ELSE 0
<1> DEFINE B == {j \in Starts(line) : j <= i - 1}
           T == {j \in Starts(line) : j <= i}
<1>1. i \in Nat /\ \A j \in Starts(line) : j \in Nat
  BY DEF Starts, InWords
<1>2. CASE i \in Starts(line)
  <2>1. T = B \cup {i} /\ i \notin B
    <3>1. ~(i <= i - 1) /\ \A j \in Starts(line) : j <= i <=> j <= i - 1 \/ j = i
      BY <1>1
    <3> QED
      BY <1>2, <3>1
  <2>2. IsFiniteSet(B)
    BY SomeStarts
  <2> HIDE DEF B, T
  <2>3. Cardinality(T) = Cardinality(B) + 1
    BY <2>1, <2>2, FS_AddElement
  <2>4. Cardinality(B) = Count(line, i - 1) /\ Cardinality(T) = Count(line, i) /\ Count(line, i - 1) \in Nat
    BY SomeStarts DEF Count, B, T
  <2> QED
    BY <1>2, <2>3, <2>4
<1>3. CASE i \notin Starts(line)
  <2>1. T = B
    <3>1. \A j \in Starts(line) : j <= i <=> j <= i - 1
      BY <1>1, <1>3
    <3> QED
      BY <3>1
  <2> HIDE DEF B, T
  <2>4. Cardinality(B) = Count(line, i - 1) /\ Cardinality(T) = Count(line, i) /\ Count(line, i - 1) \in Nat
    BY SomeStarts DEF Count, B, T
  <2> QED
    BY <1>3, <2>1, <2>4
<1> QED
  BY <1>2, <1>3

\* None before the first character, all of them at the last.
LEMMA NoneYet ==
  ASSUME NEW line \in Seq(STRING)
  PROVE  Count(line, 0) = 0 /\ Count(line, Len(line)) = Cardinality(Starts(line))
<1>1. \A j \in Starts(line) : j \in Nat /\ 1 <= j /\ j <= Len(line)
  BY DEF Starts, InWords
<1>2. {j \in Starts(line) : j <= 0} = {} /\ {j \in Starts(line) : j <= Len(line)} = Starts(line)
  BY <1>1
<1> QED
  BY <1>2, FS_EmptySet DEF Count

\* No two words have the same number.
LEMMA OneCount ==
  ASSUME NEW line \in Seq(STRING), NEW a \in Starts(line), NEW b \in Starts(line), Count(line, a) = Count(line, b)
  PROVE  a = b
<1>0. a \in Nat /\ b \in Nat
  BY DEF Starts, InWords
<1> DEFINE B(i) == {j \in Starts(line) : j <= i}
<1>1. ASSUME NEW c \in Starts(line), NEW d \in Starts(line), c < d, Count(line, c) = Count(line, d) PROVE FALSE
  <2>1. B(c) \subseteq B(d) /\ d \in B(d) /\ d \notin B(c)
    BY <1>1 DEF Starts, InWords
  <2>2. IsFiniteSet(B(d))
    BY SomeStarts
  <2>3. Cardinality(B(c)) = Cardinality(B(d))
    BY <1>1 DEF Count
  <2> HIDE DEF B
  <2> QED
    BY <2>1, <2>2, <2>3, FS_Subset
<1> QED
  BY <1>0, <1>1

\* A run without blanks that begins a word, and ends where it does, is the word of that number.
LEMMA NthIs ==
  ASSUME NEW line \in Seq(STRING), NEW w, NEW a \in Starts(line), Count(line, a) = w,
         NEW e \in a .. Len(line), \A j \in a .. e : line[j] # Blank, e = Len(line) \/ line[e + 1] = Blank
  PROVE  NthWord(line, w) = SubSeq(line, a, e)
<1> DEFINE n == Len(line)
           c == CHOOSE i \in Starts(line) : Count(line, i) = w
           J == {j \in a .. n : a .. j \subseteq InWords(line)}
<1>1. n \in Nat /\ a \in 1 .. n /\ e \in 1 .. n
  BY DEF Starts, InWords
<1>2. c = a
  <2>1. c \in Starts(line) /\ Count(line, c) = w
    OBVIOUS
  <2> HIDE DEF c
  <2> QED
    BY <2>1, OneCount
<1>3. NthWord(line, w) = WordFrom(line, c)
  BY Zenon DEF NthWord, Count
<1>4. NthWord(line, w) = SubSeq(line, a, Max(J))
  <2> HIDE DEF c
  <2> QED
    BY <1>2, <1>3, Zenon DEF WordFrom
<1>5. e \in J
  BY <1>1 DEF InWords
<1>6. ASSUME NEW j \in J PROVE j <= e
  <2> SUFFICES ASSUME e < j PROVE FALSE
    BY <1>1
  <2>1. e + 1 \in a .. j /\ e + 1 \in InWords(line) /\ e # n
    BY <1>1
  <2> QED
    BY <2>1 DEF InWords
<1>7. Max(J) \in J /\ \A j \in J : j <= Max(J)
  <2>1. J \in SUBSET Nat /\ J # {} /\ \A j \in J : j <= n
    BY <1>1, <1>5
  <2> HIDE DEF J, n
  <2> QED
    BY <1>1, <2>1, GreatestOf
<1>8. Max(J) = e
  <2>1. J \subseteq Nat
    BY <1>1
  <2> HIDE DEF J
  <2>2. Max(J) \in Nat /\ e \in Nat /\ Max(J) <= e /\ e <= Max(J)
    BY <1>1, <1>5, <1>6, <1>7, <2>1
  <2> QED
    BY <2>2
<1> QED
  BY <1>4, <1>8

\* What is known of all words after i characters.
WordsSeen(args) == (Len(args) + 1) \div 2
BeginKnown(line, args, i, w) ==
  /\ args[2 * w - 1] \in 0 .. i - 1
  /\ args[2 * w - 1] + 1 \in Starts(line)
  /\ Count(line, args[2 * w - 1] + 1) = w
EndKnown(line, args, i, w) ==
  /\ args[2 * w] \in args[2 * w - 1] + 1 .. i - 1
  /\ \A j \in args[2 * w - 1] + 1 .. args[2 * w] : line[j] # Blank
  /\ line[args[2 * w] + 1] = Blank
LastKnown(line, args, i) ==
  /\ Count(line, i) >= WordsSeen(args)
  /\ Len(args) # 2 * MaxArgs =>
       /\ Count(line, i) = WordsSeen(args)
       /\ IF InAWord(args) THEN \A j \in args[Len(args)] + 1 .. i : line[j] # Blank
          ELSE i = 0 \/ line[i] = Blank
AllKnown(line, args, i) ==
  /\ args \in Seq(Nat) /\ Len(args) <= 2 * MaxArgs
  /\ \A w \in Nat \ {0} : 2 * w - 1 <= Len(args) => BeginKnown(line, args, i, w)
  /\ \A w \in Nat \ {0} : 2 * w <= Len(args) => EndKnown(line, args, i, w)
  /\ LastKnown(line, args, i)

\* What is known stays known, whatever is appended.
LEMMA KnownStays ==
  ASSUME NEW line, NEW args, NEW i \in Nat \ {0}, NEW b, NEW w \in Nat \ {0}, NEW l \in Nat,
         \A j \in 1 .. l : b[j] = args[j]
  PROVE  /\ 2 * w - 1 <= l /\ BeginKnown(line, args, i - 1, w) => BeginKnown(line, b, i, w)
         /\ 2 * w <= l /\ EndKnown(line, args, i - 1, w) => EndKnown(line, b, i, w)
<1>1. ASSUME 2 * w - 1 <= l, BeginKnown(line, args, i - 1, w) PROVE BeginKnown(line, b, i, w)
  <2>1. b[2 * w - 1] = args[2 * w - 1]
    BY <1>1
  <2> QED
    BY <1>1, <2>1 DEF BeginKnown
<1>2. ASSUME 2 * w <= l, EndKnown(line, args, i - 1, w) PROVE EndKnown(line, b, i, w)
  <2>1. b[2 * w - 1] = args[2 * w - 1] /\ b[2 * w] = args[2 * w]
    BY <1>2
  <2>2. args[2 * w] \in args[2 * w - 1] + 1 .. i - 1
    BY <1>2 DEF EndKnown
  <2> QED
    BY <1>2, <2>1, <2>2 DEF EndKnown
<1> QED
  BY <1>1, <1>2

\* How many words args has a beginning for, with the end of each, but for one still open.
LEMMA WordsSeenIs ==
  ASSUME NEW args, Len(args) \in Nat
  PROVE  LET l == Len(args)
             m == WordsSeen(args)
         IN /\ m \in Nat /\ IF InAWord(args) THEN l = 2 * m - 1 ELSE l = 2 * m
            /\ (l + 2) \div 2 = IF InAWord(args) THEN m ELSE m + 1
<1> DEFINE l == Len(args)
<1>1. \A k \in Nat : /\ (k + 1) \div 2 \in Nat
                     /\ k % 2 = 1 => k = 2 * ((k + 1) \div 2) - 1 /\ (k + 2) \div 2 = (k + 1) \div 2
                     /\ k % 2 # 1 => k = 2 * ((k + 1) \div 2) /\ (k + 2) \div 2 = ((k + 1) \div 2) + 1
  OBVIOUS
<1>2. InAWord(args) <=> l % 2 = 1
  BY DEF InAWord
<1>3. WordsSeen(args) = (l + 1) \div 2
  BY DEF WordsSeen
<1> HIDE DEF l
<1> QED
  BY <1>1, <1>2, <1>3 DEF l

\* tiny_parse passes over one more character.
LEMMA LookKeepsWords ==
  ASSUME NEW line \in Seq(STRING), NEW i \in 1 .. Len(line), NEW args, AllKnown(line, args, i - 1),
         Looked(line, args, i) = args
  PROVE  AllKnown(line, args, i)
<1>0. i \in Nat \ {0} /\ i - 1 \in Nat /\ args \in Seq(Nat) /\ Len(args) \in Nat
  BY DEF AllKnown
<1>1. \A j \in 1 .. Len(args) : args[j] = args[j]
  OBVIOUS
<1>2. \A w \in Nat \ {0} : 2 * w - 1 <= Len(args) => BeginKnown(line, args, i, w)
  <2> SUFFICES ASSUME NEW w \in Nat \ {0}, 2 * w - 1 <= Len(args) PROVE BeginKnown(line, args, i, w)
    OBVIOUS
  <2>1. BeginKnown(line, args, i - 1, w)
    BY DEF AllKnown
  <2> QED
    BY <1>0, <1>1, <2>1, KnownStays
<1>3. \A w \in Nat \ {0} : 2 * w <= Len(args) => EndKnown(line, args, i, w)
  <2> SUFFICES ASSUME NEW w \in Nat \ {0}, 2 * w <= Len(args) PROVE EndKnown(line, args, i, w)
    OBVIOUS
  <2>1. EndKnown(line, args, i - 1, w)
    BY DEF AllKnown
  <2> QED
    BY <1>0, <1>1, <2>1, KnownStays
<1> DEFINE l == Len(args)
           m == WordsSeen(args)
<1>4. l \in Nat /\ m \in Nat /\ IF InAWord(args) THEN l = 2 * m - 1 ELSE l = 2 * m
  BY <1>0, WordsSeenIs
<1>5. /\ Count(line, i - 1) \in Nat
      /\ Count(line, i) = Count(line, i - 1) + IF i \in Starts(line) THEN 1 ELSE 0
  BY CountGrows
<1>6. /\ Count(line, i - 1) >= m
      /\ l # 2 * MaxArgs =>
           /\ Count(line, i - 1) = m
           /\ IF InAWord(args) THEN \A j \in args[l] + 1 .. i - 1 : line[j] # Blank
              ELSE i - 1 = 0 \/ line[i - 1] = Blank
  BY DEF AllKnown, LastKnown
<1>7. Count(line, i) >= m
  BY <1>4, <1>5, <1>6
<1>8. ASSUME l # 2 * MaxArgs
      PROVE  /\ Count(line, i) = m
             /\ IF InAWord(args) THEN \A j \in args[l] + 1 .. i : line[j] # Blank
                ELSE i = 0 \/ line[i] = Blank
  <2>1. line[i] = Blank <=> ~InAWord(args)
    <3>1. Looked(line, args, i) = IF l = 2 * MaxArgs \/ (line[i] = Blank) # InAWord(args) THEN args
                                  ELSE Append(args, i - 1)
      BY Zenon DEF Looked
    <3>2. Append(args, i - 1) # args
      BY <1>0, AppendProperties
    <3>3. (line[i] = Blank) # InAWord(args)
      BY <1>8, <3>1, <3>2, Zenon
    <3> HIDE DEF l
    <3> QED
      BY <3>3 DEF InAWord
  <2>2. CASE InAWord(args)
    <3>1. m \in Nat \ {0} /\ l = 2 * m - 1 /\ 2 * m - 1 <= l
      BY <1>4, <2>2
    <3>2. args[l] \in 0 .. (i - 1) - 1
      <4>1. BeginKnown(line, args, i - 1, m)
        BY <3>1 DEF AllKnown
      <4> QED
        BY <3>1, <4>1 DEF BeginKnown
    <3>3. line[i] # Blank
      BY <2>1, <2>2
    <3>4. \A j \in args[l] + 1 .. i - 1 : line[j] # Blank
      BY <1>6, <1>8, <2>2
    <3>5. i - 1 \in args[l] + 1 .. i - 1 /\ i # 1
      BY <1>0, <3>2
    <3>6. i \notin Starts(line)
      BY <3>4, <3>5, StartsAre
    <3>7. \A j \in args[l] + 1 .. i : line[j] # Blank
      <4> SUFFICES ASSUME NEW j \in args[l] + 1 .. i PROVE line[j] # Blank
        OBVIOUS
      <4>1. j = i \/ j \in args[l] + 1 .. i - 1
        BY <1>0, <3>2
      <4> QED
        BY <3>3, <3>4, <4>1
    <3> HIDE DEF l, m
    <3> QED
      BY <1>5, <1>6, <1>8, <2>2, <3>6, <3>7
  <2>3. CASE ~InAWord(args)
    <3>1. line[i] = Blank
      BY <2>1, <2>3
    <3>2. i \notin Starts(line)
      BY <3>1, StartsAre
    <3> HIDE DEF l, m
    <3>3. Count(line, i) = m
      BY <1>5, <1>6, <1>8, <3>2
    <3> QED
      BY <2>3, <3>1, <3>3, Zenon
  <2> QED
    BY <2>2, <2>3
<1>9. LastKnown(line, args, i)
  BY <1>7, <1>8 DEF LastKnown
<1>10. Len(args) <= 2 * MaxArgs
  BY DEF AllKnown
<1> QED
  BY <1>0, <1>2, <1>3, <1>9, <1>10 DEF AllKnown

\* tiny_parse comes to the beginning or the end of a word.
LEMMA AppendKeepsWords ==
  ASSUME NEW line \in Seq(STRING), NEW i \in 1 .. Len(line), NEW args, AllKnown(line, args, i - 1),
         Looked(line, args, i) # args
  PROVE  AllKnown(line, Looked(line, args, i), i)
<1> DEFINE l == Len(args)
           m == WordsSeen(args)
           b == Append(args, i - 1)
           c == Looked(line, args, i)
<1>0. i \in Nat \ {0} /\ i - 1 \in Nat /\ args \in Seq(Nat) /\ l \in Nat
  BY DEF AllKnown
<1>1. c = b /\ l # 2 * MaxArgs /\ (line[i] = Blank <=> InAWord(args))
  <2>1. c = b /\ l # 2 * MaxArgs /\ (line[i] = Blank) = InAWord(args)
    BY Zenon DEF Looked
  <2> HIDE DEF b, c, l
  <2> QED
    BY <2>1 DEF InAWord
<1>2. b \in Seq(Nat) /\ Len(b) = l + 1 /\ b[l + 1] = i - 1 /\ \A j \in 1 .. l : b[j] = args[j]
  BY <1>0, AppendProperties
<1>3. MaxArgs \in Nat /\ l <= 2 * MaxArgs
  BY CommandLineAssumption DEF AllKnown
<1>4. m \in Nat /\ IF InAWord(args) THEN l = 2 * m - 1 ELSE l = 2 * m
  BY <1>0, WordsSeenIs
<1>5. WordsSeen(b) = IF InAWord(args) THEN m ELSE m + 1
  <2>1. WordsSeen(b) = (l + 2) \div 2
    <3>1. (l + 1) + 1 = l + 2
      BY <1>0
    <3> HIDE DEF b, l
    <3> QED
      BY <1>2, <3>1 DEF WordsSeen
  <2> QED
    BY <1>0, <2>1, WordsSeenIs
<1>6. InAWord(b) <=> ~InAWord(args)
  <2>1. \A k \in Nat : (k + 1) % 2 = 1 <=> ~(k % 2 = 1)
    OBVIOUS
  <2> HIDE DEF b, l
  <2>2. InAWord(b) <=> (l + 1) % 2 = 1
    BY <1>2 DEF InAWord
  <2> QED
    BY <1>0, <2>1, <2>2 DEF InAWord, l
<1>7. /\ Count(line, i - 1) = m
      /\ IF InAWord(args) THEN \A j \in args[l] + 1 .. i - 1 : line[j] # Blank
         ELSE i - 1 = 0 \/ line[i - 1] = Blank
  BY <1>1 DEF AllKnown, LastKnown
<1>8. /\ Count(line, i - 1) \in Nat
      /\ Count(line, i) = Count(line, i - 1) + IF i \in Starts(line) THEN 1 ELSE 0
  BY CountGrows
<1>9. i \in Starts(line) <=> ~InAWord(args)
  BY <1>0, <1>1, <1>7, StartsAre
<1>10. Count(line, i) = WordsSeen(b)
  <2> HIDE DEF m, b
  <2> QED
    BY <1>4, <1>5, <1>7, <1>8, <1>9
<1>11. \A w \in Nat \ {0} : 2 * w - 1 <= l => BeginKnown(line, b, i, w)
  <2> SUFFICES ASSUME NEW w \in Nat \ {0}, 2 * w - 1 <= l PROVE BeginKnown(line, b, i, w)
    OBVIOUS
  <2>1. BeginKnown(line, args, i - 1, w)
    BY DEF AllKnown
  <2> HIDE DEF b, l
  <2> QED
    BY <1>0, <1>2, <2>1, KnownStays
<1>12. \A w \in Nat \ {0} : 2 * w <= l => EndKnown(line, b, i, w)
  <2> SUFFICES ASSUME NEW w \in Nat \ {0}, 2 * w <= l PROVE EndKnown(line, b, i, w)
    OBVIOUS
  <2>1. EndKnown(line, args, i - 1, w)
    BY DEF AllKnown
  <2> HIDE DEF b, l
  <2> QED
    BY <1>0, <1>2, <2>1, KnownStays
<1>13. CASE ~InAWord(args)
  <2>1. l = 2 * m /\ l + 1 = 2 * (m + 1) - 1 /\ InAWord(b) /\ i \in Starts(line) /\ line[i] # Blank
    <3> HIDE DEF b, c, l, m
    <3> QED
      BY <1>1, <1>4, <1>6, <1>9, <1>13
  <2>2. BeginKnown(line, b, i, m + 1)
    <3>1. b[2 * (m + 1) - 1] = i - 1 /\ (i - 1) + 1 = i /\ i - 1 \in 0 .. i - 1
      BY <1>0, <1>2, <2>1
    <3>2. Count(line, i) = m + 1
      BY <1>5, <1>10, <1>13
    <3> HIDE DEF b, m, l
    <3> QED
      BY <2>1, <3>1, <3>2 DEF BeginKnown
  <2>3. \A w \in Nat \ {0} : 2 * w - 1 <= l + 1 => BeginKnown(line, b, i, w)
    <3> HIDE DEF b, m, l
    <3> SUFFICES ASSUME NEW w \in Nat \ {0}, 2 * w - 1 <= l + 1 PROVE BeginKnown(line, b, i, w)
      OBVIOUS
    <3>1. w = m + 1 \/ 2 * w - 1 <= l
      BY <1>4, <2>1
    <3> QED
      BY <1>11, <2>2, <3>1
  <2>4. \A w \in Nat \ {0} : 2 * w <= l + 1 => EndKnown(line, b, i, w)
    <3> HIDE DEF b, m, l
    <3>1. \A w \in Nat \ {0} : 2 * w <= l + 1 => 2 * w <= l
      BY <1>4, <2>1
    <3> QED
      BY <1>12, <3>1
  <2>5. LastKnown(line, b, i)
    <3>1. \A j \in b[Len(b)] + 1 .. i : line[j] # Blank
      <4>1. b[Len(b)] = i - 1
        BY <1>2
      <4>2. \A j \in (i - 1) + 1 .. i : j = i
        BY <1>0
      <4> HIDE DEF b
      <4> QED
        BY <2>1, <4>1, <4>2
    <3> HIDE DEF b, m, l
    <3> QED
      BY <1>10, <1>8, <2>1, <3>1 DEF LastKnown
  <2>6. l + 1 <= 2 * MaxArgs
    <3> HIDE DEF l, m
    <3> QED
      BY <1>1, <1>3, <1>0
  <2> HIDE DEF b, l, m
  <2>7. AllKnown(line, b, i)
    BY <1>2, <2>3, <2>4, <2>5, <2>6 DEF AllKnown
  <2> QED
    BY <1>1, <2>7
<1>14. CASE InAWord(args)
  <2>1. l = 2 * m - 1 /\ l + 1 = 2 * m /\ m \in Nat \ {0} /\ ~InAWord(b) /\ line[i] = Blank
    <3> HIDE DEF b, c, l, m
    <3> QED
      BY <1>1, <1>4, <1>6, <1>0, <1>14
  <2>2. EndKnown(line, b, i, m)
    <3>1. b[2 * m] = i - 1 /\ b[2 * m - 1] = args[l] /\ (i - 1) + 1 = i
      BY <1>0, <1>2, <2>1
    <3>2. BeginKnown(line, args, i - 1, m)
      BY <2>1 DEF AllKnown
    <3>3. args[l] \in 0 .. (i - 1) - 1
      BY <2>1, <3>2 DEF BeginKnown
    <3>4. i - 1 \in args[l] + 1 .. i - 1
      BY <1>0, <3>3
    <3>5. \A j \in args[l] + 1 .. i - 1 : line[j] # Blank
      BY <1>7, <1>14
    <3> HIDE DEF b, m, l
    <3> QED
      BY <2>1, <3>1, <3>4, <3>5 DEF EndKnown
  <2>3. \A w \in Nat \ {0} : 2 * w - 1 <= l + 1 => BeginKnown(line, b, i, w)
    <3> HIDE DEF b, m, l
    <3>1. \A w \in Nat \ {0} : 2 * w - 1 <= l + 1 => 2 * w - 1 <= l
      BY <2>1
    <3> QED
      BY <1>11, <3>1
  <2>4. \A w \in Nat \ {0} : 2 * w <= l + 1 => EndKnown(line, b, i, w)
    <3> HIDE DEF b, m, l
    <3> SUFFICES ASSUME NEW w \in Nat \ {0}, 2 * w <= l + 1 PROVE EndKnown(line, b, i, w)
      OBVIOUS
    <3>1. w = m \/ 2 * w <= l
      BY <2>1
    <3> QED
      BY <1>12, <2>2, <3>1
  <2>5. LastKnown(line, b, i)
    <3> HIDE DEF b, m, l
    <3> QED
      BY <1>10, <1>8, <2>1 DEF LastKnown
  <2>6. l + 1 <= 2 * MaxArgs
    <3> HIDE DEF l, m
    <3> QED
      BY <1>1, <1>3, <1>0
  <2> HIDE DEF b, l, m
  <2>7. AllKnown(line, b, i)
    BY <1>2, <2>3, <2>4, <2>5, <2>6 DEF AllKnown
  <2> QED
    BY <1>1, <2>7
<1> QED
  BY <1>13, <1>14

\* At the end of its loop tiny_parse knows of every word.
LEMMA ScanKnowsAll ==
  ASSUME NEW line \in Seq(STRING), NEW s, IsScan(s, line, Len(line))
  PROVE  AllKnown(line, s[Len(line)], Len(line))
<1> DEFINE n == Len(line)
           Bad == {i \in 0 .. n : ~AllKnown(line, s[i], i)}
<1>0. n \in Nat /\ n \in 0 .. n
  OBVIOUS
<1>1. \A i \in 0 .. n : s[i] = IF i = 0 THEN <<>> ELSE Looked(line, s[i - 1], i)
  BY Zenon DEF IsScan
<1>2. AllKnown(line, <<>>, 0)
  <2>1. <<>> \in Seq(Nat) /\ Len(<<>>) = 0
    OBVIOUS
  <2>2. MaxArgs \in Nat \ {0} /\ 0 # 2 * MaxArgs /\ 0 <= 2 * MaxArgs
    BY CommandLineAssumption
  <2>3. WordsSeen(<<>>) = 0 /\ ~InAWord(<<>>)
    BY <2>1 DEF WordsSeen, InAWord
  <2>4. LastKnown(line, <<>>, 0)
    BY <2>1, <2>3, NoneYet DEF LastKnown
  <2>5. \A w \in Nat \ {0} : ~(2 * w - 1 <= 0) /\ ~(2 * w <= 0)
    OBVIOUS
  <2> QED
    BY <2>1, <2>2, <2>4, <2>5 DEF AllKnown
<1>3. Bad = {}
  <2> SUFFICES ASSUME Bad # {} PROVE FALSE
    OBVIOUS
  <2>1. Bad \in SUBSET Nat
    OBVIOUS
  <2>2. PICK k \in Bad : \A i \in Bad : k <= i
    <3> HIDE DEF Bad
    <3>1. Min(Bad) \in Bad /\ \A i \in Bad : Min(Bad) <= i
      BY <2>1, LeastOf
    <3> QED
      BY <3>1
  <2>3. k \in 0 .. n /\ ~AllKnown(line, s[k], k)
    OBVIOUS
  <2>4. k # 0
    BY <1>0, <1>1, <1>2, <2>3
  <2>5. k \in 1 .. n /\ k - 1 \in 0 .. n /\ ~(k <= k - 1)
    BY <1>0, <2>3, <2>4
  <2>6. AllKnown(line, s[k - 1], k - 1)
    BY <2>2, <2>5
  <2>7. s[k] = Looked(line, s[k - 1], k)
    BY <1>1, <2>3, <2>4
  <2> HIDE DEF n, Bad
  <2>8. AllKnown(line, Looked(line, s[k - 1], k), k)
    <3> DEFINE p == s[k - 1]
    <3>1. AllKnown(line, p, k - 1) /\ k \in 1 .. Len(line)
      BY <2>5, <2>6 DEF n
    <3> HIDE DEF p
    <3>2. AllKnown(line, Looked(line, p, k), k)
      BY <3>1, LookKeepsWords, AppendKeepsWords
    <3> QED
      BY <3>2 DEF p
  <2> QED
    BY <2>3, <2>7, <2>8
<1> QED
  BY <1>0, <1>3

\* The words tiny_parse finds, up to as many as it has room for, are the line's.
LEMMA WordsAre ==
  ASSUME NEW line \in Seq(STRING), Len(line) <= MaxCommand
  PROVE  LET args == tiny_parse(line) IN
         /\ ArgNum(args) = Least(Cardinality(Starts(line)), MaxArgs)
         /\ ArgNum(args) \in Nat
         /\ \A w \in 1 .. ArgNum(args) : Word(line, args, w) = NthWord(line, w) /\ Word(line, args, w) \in Seq(STRING)
<1> DEFINE n == Len(line)
           args == tiny_parse(line)
<1>0. n \in Nat /\ MaxArgs \in Nat \ {0} /\ Least(n, MaxCommand) = n
  BY CommandLineAssumption DEF Least
<1>1. PICK s : IsScan(s, line, n) /\ args = IF InAWord(s[n]) THEN Append(s[n], n) ELSE s[n]
  BY <1>0, ParseIs
<1> DEFINE p == s[n]
           l == Len(p)
           m == WordsSeen(p)
<1>2. AllKnown(line, p, n)
  BY <1>1, ScanKnowsAll
<1>3. args = IF InAWord(p) THEN Append(p, n) ELSE p
  BY <1>1
<1> HIDE DEF p
<1>4. p \in Seq(Nat) /\ l \in Nat /\ l <= 2 * MaxArgs
  BY <1>2 DEF AllKnown
<1>5. m \in Nat /\ IF InAWord(p) THEN l = 2 * m - 1 ELSE l = 2 * m
  BY <1>4, WordsSeenIs
<1>6. /\ Append(p, n) \in Seq(Nat) /\ Len(Append(p, n)) = l + 1 /\ Append(p, n)[l + 1] = n
      /\ \A j \in 1 .. l : Append(p, n)[j] = p[j]
  BY <1>0, <1>4, AppendProperties
<1>7. /\ Len(args) = 2 * m /\ (InAWord(p) => args[2 * m] = n) /\ \A j \in 1 .. l : args[j] = p[j]
  <2>1. CASE InAWord(p)
    <3>1. args = Append(p, n) /\ l + 1 = 2 * m
      BY <1>3, <1>5, <2>1
    <3> HIDE DEF args, l, m
    <3> QED
      BY <1>6, <2>1, <3>1
  <2>2. CASE ~InAWord(p)
    <3>1. args = p /\ l = 2 * m
      BY <1>3, <1>5, <2>2
    <3> HIDE DEF args, m
    <3> QED
      BY <2>2, <3>1
  <2> QED
    BY <2>1, <2>2
<1>8. ArgNum(args) = m
  <2>1. \A k \in Nat : (2 * k) \div 2 = k
    OBVIOUS
  <2> HIDE DEF args, m
  <2> QED
    BY <1>5, <1>7, <2>1 DEF ArgNum, m
<1>9. m = Least(Cardinality(Starts(line)), MaxArgs)
  <2> DEFINE c == Cardinality(Starts(line))
  <2>1. c = Count(line, n)
    BY NoneYet
  <2>2. c \in Nat
    BY <2>1, SomeStarts
  <2>3. c >= m /\ (l # 2 * MaxArgs => c = m)
    BY <1>2, <2>1 DEF AllKnown, LastKnown
  <2> HIDE DEF c, l, m
  <2>4. m <= MaxArgs
    BY <1>0, <1>4, <1>5
  <2>5. l = 2 * MaxArgs => m = MaxArgs
    BY <1>0, <1>5
  <2> QED
    BY <1>0, <1>5, <2>2, <2>3, <2>4, <2>5 DEF Least, c
<1>10. ASSUME NEW w \in 1 .. m PROVE Word(line, args, w) = NthWord(line, w) /\ Word(line, args, w) \in Seq(STRING)
  <2> DEFINE a == p[2 * w - 1]
             e == args[2 * w]
  <2>0. w \in Nat \ {0} /\ 2 * w - 1 \in 1 .. l
    <3> HIDE DEF l, m
    <3> QED
      BY <1>5
  <2>1. BeginKnown(line, p, n, w)
    BY <1>2, <2>0 DEF AllKnown
  <2>2. a \in 0 .. n - 1 /\ a + 1 \in Starts(line) /\ Count(line, a + 1) = w
    BY <2>1 DEF BeginKnown
  <2>3. args[2 * w - 1] = a
    BY <1>7, <2>0
  <2>4. e \in a + 1 .. n /\ (\A j \in a + 1 .. e : line[j] # Blank) /\ (e = n \/ line[e + 1] = Blank)
    <3>1. CASE 2 * w <= l
      <4>1. EndKnown(line, p, n, w)
        BY <1>2, <2>0, <3>1 DEF AllKnown
      <4>2. e = p[2 * w]
        <5>1. 2 * w \in 1 .. l
          BY <2>0, <3>1
        <5> QED
          BY <1>7, <5>1
      <4> HIDE DEF e
      <4>3. e \in a + 1 .. n - 1 /\ (\A j \in a + 1 .. e : line[j] # Blank) /\ line[e + 1] = Blank
        BY <4>1, <4>2 DEF EndKnown
      <4> QED
        BY <1>0, <2>2, <4>3
    <3>2. CASE ~(2 * w <= l)
      <4>1. InAWord(p) /\ w = m /\ l = 2 * m - 1
        <5> HIDE DEF l, m
        <5> QED
          BY <1>5, <2>0, <3>2
      <4>2. e = n
        BY <1>7, <4>1
      <4>3. \A j \in a + 1 .. n : line[j] # Blank
        <5>1. l # 2 * MaxArgs
          <6> HIDE DEF l, m
          <6> QED
            BY <1>0, <1>5, <4>1
        <5>2. LastKnown(line, p, n)
          BY <1>2 DEF AllKnown
        <5>3. \A j \in p[Len(p)] + 1 .. n : line[j] # Blank
          BY <4>1, <5>1, <5>2 DEF LastKnown
        <5>4. p[Len(p)] = a
          BY <4>1
        <5> HIDE DEF a
        <5> QED
          BY <5>3, <5>4
      <4> HIDE DEF a, e
      <4> QED
        BY <1>0, <2>2, <4>2, <4>3
    <3> QED
      BY <3>1, <3>2
  <2>5. Word(line, args, w) = SubSeq(line, a + 1, e)
    BY <2>3 DEF Word
  <2> HIDE DEF a, e
  <2>6. NthWord(line, w) = SubSeq(line, a + 1, e)
    <3> DEFINE b == a + 1
    <3>1. b \in Starts(line) /\ Count(line, b) = w /\ e \in b .. Len(line)
      BY <2>2, <2>4
    <3>2. (\A j \in b .. e : line[j] # Blank) /\ (e = Len(line) \/ line[e + 1] = Blank)
      BY <2>4
    <3> HIDE DEF b
    <3>3. NthWord(line, w) = SubSeq(line, b, e)
      BY <3>1, <3>2, NthIs
    <3> QED
      BY <3>3 DEF b
  <2>7. SubSeq(line, a + 1, e) \in Seq(STRING)
    <3>1. a + 1 \in 1 .. Len(line) /\ e \in 1 .. Len(line)
      BY <1>0, <2>2, <2>4
    <3>2. \A i \in a + 1 .. e : line[i] \in STRING
      BY <3>1
    <3>3. a + 1 \in Int /\ e \in Int
      BY <3>1
    <3> QED
      BY <3>2, <3>3, SubSeqProperties
  <2> QED
    BY <2>5, <2>6, <2>7
<1> HIDE DEF args, m
<1>11. ArgNum(args) = Least(Cardinality(Starts(line)), MaxArgs) /\ ArgNum(args) \in Nat
  BY <1>5, <1>8, <1>9
<1>12. \A w \in 1 .. ArgNum(args) : Word(line, args, w) = NthWord(line, w) /\ Word(line, args, w) \in Seq(STRING)
  BY <1>8, <1>10
<1> QED
  BY <1>11, <1>12 DEF args

\* What a recursion over numbers makes, number by number.
Chained(f, n, m, G) ==
  f = [k \in 1 .. n |-> IF k = 1 THEN m ELSE G[<<k, f[k - 1]>>]]

\* Such a function exists: were there a first number at which it could not go on, there
\* would be one up to the number before it.
LEMMA ChainExists ==
  ASSUME NEW T, NEW m \in T, NEW n \in Nat, NEW G \in [(1 .. n) \X T -> T]
  PROVE  \E f \in [1 .. n -> T] : Chained(f, n, m, G)
<1> DEFINE Fine(f, k) == f[k] = IF k = 1 THEN m ELSE G[<<k, f[k - 1]>>]
           Bad == {i \in 0 .. n : ~\E f \in [1 .. i -> T] : \A k \in 1 .. i : Fine(f, k)}
<1>1. Bad = {}
  <2> SUFFICES ASSUME Bad # {} PROVE FALSE
    OBVIOUS
  <2>1. PICK i \in Bad : \A j \in Bad : i <= j
    <3>1. Bad \in SUBSET Nat
      OBVIOUS
    <3> HIDE DEF Bad
    <3>2. Min(Bad) \in Bad /\ \A j \in Bad : Min(Bad) <= j
      BY <3>1, LeastOf
    <3> QED
      BY <3>2
  <2>2. i \in 0 .. n /\ ~\E f \in [1 .. i -> T] : \A k \in 1 .. i : Fine(f, k)
    OBVIOUS
  <2>3. CASE i = 0
    <3> DEFINE f == [k \in 1 .. i |-> m]
    <3>1. f \in [1 .. i -> T] /\ \A k \in 1 .. i : Fine(f, k)
      BY <2>3
    <3> QED
      BY <2>2, <3>1
  <2>4. CASE i # 0
    <3>1. i \in 1 .. n /\ i - 1 \in 0 .. n /\ ~(i <= i - 1)
      BY <2>2, <2>4
    <3>2. i - 1 \notin Bad
      BY <2>1, <3>1
    <3>3. PICK f \in [1 .. i - 1 -> T] : \A k \in 1 .. i - 1 : Fine(f, k)
      BY <3>1, <3>2
    <3> DEFINE g == [k \in 1 .. i |-> IF k = i THEN (IF i = 1 THEN m ELSE G[<<i, f[i - 1]>>]) ELSE f[k]]
    <3>4. i # 1 => i - 1 \in 1 .. i - 1 /\ f[i - 1] \in T /\ G[<<i, f[i - 1]>>] \in T
      BY <3>1
    <3>5. \A k \in 1 .. i : k # i => k \in 1 .. i - 1 /\ f[k] \in T
      BY <3>1
    <3>6. g \in [1 .. i -> T]
      BY <3>4, <3>5
    <3>7. ASSUME NEW k \in 1 .. i PROVE Fine(g, k)
      <4>1. CASE k = i
        <5>1. i # 1 => i - 1 \in 1 .. i /\ i - 1 # i
          BY <3>1
        <5>2. g[i] = (IF i = 1 THEN m ELSE G[<<i, f[i - 1]>>]) /\ (i # 1 => g[i - 1] = f[i - 1])
          BY <5>1, <4>1
        <5> HIDE DEF g
        <5> QED
          BY <4>1, <5>2
      <4>2. CASE k # i
        <5>1. k \in 1 .. i - 1 /\ (k # 1 => k - 1 \in 1 .. i /\ k - 1 # i)
          BY <3>1, <4>2
        <5>2. g[k] = f[k] /\ (k # 1 => g[k - 1] = f[k - 1]) /\ Fine(f, k)
          BY <3>3, <4>2, <5>1
        <5> HIDE DEF g
        <5> QED
          BY <5>2
      <4> QED
        BY <4>1, <4>2
    <3> HIDE DEF g
    <3> QED
      BY <2>2, <3>6, <3>7
  <2> QED
    BY <2>3, <2>4
<1>2. n \in 0 .. n
  OBVIOUS
<1>3. PICK f \in [1 .. n -> T] : \A k \in 1 .. n : Fine(f, k)
  BY <1>1, <1>2
<1>4. f = [k \in 1 .. n |-> f[k]]
  BY Zenon
<1>5. f = [k \in 1 .. n |-> IF k = 1 THEN m ELSE G[<<k, f[k - 1]>>]]
  BY <1>3, <1>4, Zenon
<1> QED
  BY <1>5 DEF Chained

\* What a character of a line can be.  (The provers do not know that " " is a string.)
Chars == STRING \union {Blank}

LEMMA OneOf ==
  ASSUME NEW C, NEW c \in C
  PROVE  <<>> \in Seq(C) /\ <<c>> \in Seq(C)
OBVIOUS

LEMMA BlankText == <<>> \in Seq(Chars) /\ <<Blank>> \in Seq(Chars)
<1>1. Blank \in Chars
  BY DEF Chars
<1> QED
  BY <1>1, OneOf

\* The text of a line is made of such characters.
LEMMA TextIsChars ==
  ASSUME NEW text \in Seq(STRING)
  PROVE  text \in Seq(Chars)
<1>1. \A i \in 1 .. Len(text) : text[i] \in Chars
  BY DEF Chars
<1>2. Len(text) \in Nat /\ text = [i \in 1 .. Len(text) |-> text[i]]
  OBVIOUS
<1>3. text \in [1 .. Len(text) -> Chars]
  BY <1>1, <1>2, Zenon
<1> QED
  BY <1>2, <1>3

\* The words, a blank behind each, one behind the other.
IsFlat(f, words) ==
  f = [i \in 1 .. Len(words) |-> IF i = 1 THEN words[i] ELSE f[i - 1] \o words[i]]
IsJoined(f, line, last) ==
  f = [n \in 1 .. last |->
        IF n = 1 THEN <<>>
        ELSE f[n - 1] \o (IF n = 2 THEN <<>> ELSE <<Blank>>) \o NthWord(line, n)]

\* The recursion of FlattenSeq makes a function.
LEMMA FlatExists ==
  ASSUME NEW words \in Seq(Seq(Chars)), Len(words) # 0
  PROVE  \E f \in [1 .. Len(words) -> Seq(Chars)] : IsFlat(f, words)
<1> DEFINE n == Len(words)
           T == Seq(Chars)
           G == [x \in (1 .. n) \X T |-> x[2] \o words[x[1]]]
<1>1. n \in Nat /\ n # 0 /\ \A k \in 1 .. n : words[k] \in T
  OBVIOUS
<1>2. words[1] \in T /\ G \in [(1 .. n) \X T -> T]
  <2>1. \A x \in (1 .. n) \X T : x[2] \in T /\ words[x[1]] \in T
    BY <1>1
  <2>2. \A a, b \in T : a \o b \in T
    BY ConcatProperties
  <2>3. 1 \in 1 .. n
    BY <1>1
  <2> HIDE DEF T, n
  <2> QED
    BY <1>1, <2>1, <2>2, <2>3
<1>3. PICK f \in [1 .. n -> T] : Chained(f, n, words[1], G)
  <2> DEFINE w == words[1]
  <2> HIDE DEF G, T, n, w
  <2>1. w \in T
    BY <1>2 DEF w
  <2>2. \E f \in [1 .. n -> T] : Chained(f, n, w, G)
    BY <1>1, <1>2, <2>1, ChainExists
  <2> QED
    BY <2>2 DEF w
<1>4. \A k \in 1 .. n : (IF k = 1 THEN words[1] ELSE G[<<k, f[k - 1]>>])
                         = IF k = 1 THEN words[k] ELSE f[k - 1] \o words[k]
  <2> SUFFICES ASSUME NEW k \in 1 .. n, k # 1 PROVE G[<<k, f[k - 1]>>] = f[k - 1] \o words[k]
    OBVIOUS
  <2>1. k - 1 \in 1 .. n /\ f[k - 1] \in T
    <3> HIDE DEF n, T, G
    <3>1. k - 1 \in 1 .. n
      BY <1>1
    <3> QED
      BY <3>1
  <2> DEFINE x == <<k, f[k - 1]>>
  <2>2. x \in (1 .. n) \X T /\ x[1] = k /\ x[2] = f[k - 1]
    BY <2>1
  <2> HIDE DEF x
  <2>3. G[x] = x[2] \o words[x[1]]
    BY <2>2, Zenon
  <2>4. G[x] = f[k - 1] \o words[k]
    BY <2>2, <2>3, Zenon
  <2> QED
    BY <2>4 DEF x
<1> HIDE DEF G
<1>5. f = [k \in 1 .. n |-> IF k = 1 THEN words[k] ELSE f[k - 1] \o words[k]]
  BY <1>3, <1>4, Zenon DEF Chained
<1> QED
  BY <1>5, Zenon DEF IsFlat

\* So does that of Joined.
LEMMA JoinExists ==
  ASSUME NEW line, NEW last \in Nat, \A k \in 1 .. last : NthWord(line, k) \in Seq(Chars)
  PROVE  \E f \in [1 .. last -> Seq(Chars)] : IsJoined(f, line, last)
<1> DEFINE T == Seq(Chars)
           gap(k) == IF k = 2 THEN <<>> ELSE <<Blank>>
           G == [x \in (1 .. last) \X T |-> x[2] \o gap(x[1]) \o NthWord(line, x[1])]
<1>1. <<>> \in T /\ \A k : gap(k) \in T
  <2>1. <<>> \in T /\ <<Blank>> \in T
    BY BlankText
  <2> HIDE DEF T
  <2>2. \A k : gap(k) = <<>> \/ gap(k) = <<Blank>>
    BY Zenon
  <2> QED
    BY <2>1, <2>2, Zenon
<1>2. G \in [(1 .. last) \X T -> T]
  <2>1. \A a, b, c \in T : a \o b \o c \in T
    BY ConcatProperties
  <2>2. \A x \in (1 .. last) \X T : x[2] \in T /\ NthWord(line, x[1]) \in T
    OBVIOUS
  <2> HIDE DEF T, gap
  <2>3. \A x \in (1 .. last) \X T : x[2] \o gap(x[1]) \o NthWord(line, x[1]) \in T
    BY <1>1, <2>1, <2>2
  <2> QED
    BY <2>3
<1>3. PICK f \in [1 .. last -> T] : Chained(f, last, <<>>, G)
  <2> DEFINE none == <<>>
  <2>0. none \in T
    BY <1>1
  <2> HIDE DEF G, T, none
  <2>1. \E f \in [1 .. last -> T] : Chained(f, last, none, G)
    BY <1>2, <2>0, ChainExists
  <2> QED
    BY <2>1 DEF none
<1>4. \A k \in 1 .. last : (IF k = 1 THEN <<>> ELSE G[<<k, f[k - 1]>>])
                         = IF k = 1 THEN <<>> ELSE f[k - 1] \o gap(k) \o NthWord(line, k)
  <2> HIDE DEF gap
  <2> SUFFICES ASSUME NEW k \in 1 .. last, k # 1 PROVE G[<<k, f[k - 1]>>] = f[k - 1] \o gap(k) \o NthWord(line, k)
    OBVIOUS
  <2>1. k - 1 \in 1 .. last /\ f[k - 1] \in T
    OBVIOUS
  <2> DEFINE x == <<k, f[k - 1]>>
  <2>2. x \in (1 .. last) \X T /\ x[1] = k /\ x[2] = f[k - 1]
    BY <2>1
  <2> HIDE DEF x
  <2>3. G[x] = x[2] \o gap(x[1]) \o NthWord(line, x[1])
    BY <2>2, Zenon
  <2>4. G[x] = f[k - 1] \o gap(k) \o NthWord(line, k)
    BY <2>2, <2>3, Zenon
  <2> QED
    BY <2>4 DEF x
<1> HIDE DEF G
<1>5. f = [k \in 1 .. last |-> IF k = 1 THEN <<>> ELSE f[k - 1] \o gap(k) \o NthWord(line, k)]
  <2> HIDE DEF gap
  <2> QED
    BY <1>3, <1>4, Zenon DEF Chained
<1> QED
  BY <1>5, Zenon DEF IsJoined

\* FlattenSeq goes on from word to word.
WordAfterWord(f, words, n) == f[1] = words[1] /\ \A k \in 2 .. n : f[k] = f[k - 1] \o words[k]

LEMMA FlatIs ==
  ASSUME NEW words \in Seq(Seq(Chars)), NEW n, n = Len(words), n # 0
  PROVE  \E f \in [1 .. n -> Seq(Chars)] : FlattenSeq(words) = f[n] /\ WordAfterWord(f, words, n)
<1> DEFINE f == CHOOSE f : IsFlat(f, words)
<1>1. \E g \in [1 .. n -> Seq(Chars)] : IsFlat(g, words)
  BY FlatExists
<1>2. IsFlat(f, words)
  BY <1>1, Zenon
<1>3. FlattenSeq(words) = f[n]
  BY Zenon DEF FlattenSeq, IsFlat
<1> HIDE DEF f
<1>4. PICK g \in [1 .. n -> Seq(Chars)] : IsFlat(g, words)
  BY <1>1
<1>5. n \in Nat /\ n # 0
  OBVIOUS
<1>6. f \in [1 .. n -> Seq(Chars)]
  <2> DEFINE Bad == {k \in 1 .. n : f[k] # g[k]}
  <2>1. \A k \in 1 .. n : f[k] = IF k = 1 THEN words[k] ELSE f[k - 1] \o words[k]
    BY <1>2, Zenon DEF IsFlat
  <2>2. \A k \in 1 .. n : g[k] = IF k = 1 THEN words[k] ELSE g[k - 1] \o words[k]
    BY <1>4, Zenon DEF IsFlat
  <2>3. Bad = {}
    <3> SUFFICES ASSUME Bad # {} PROVE FALSE
      OBVIOUS
    <3>1. PICK k \in Bad : \A j \in Bad : k <= j
      <4>1. Bad \in SUBSET Nat
        OBVIOUS
      <4> HIDE DEF Bad
      <4>2. Min(Bad) \in Bad /\ \A j \in Bad : Min(Bad) <= j
        BY <4>1, LeastOf
      <4> QED
        BY <4>2
    <3>2. k \in 1 .. n /\ f[k] # g[k]
      OBVIOUS
    <3>3. CASE k = 1
      BY <2>1, <2>2, <3>2, <3>3
    <3>4. CASE k # 1
      <4>1. k - 1 \in 1 .. n /\ ~(k <= k - 1)
        BY <1>5, <3>2, <3>4
      <4>2. f[k - 1] = g[k - 1]
        BY <3>1, <4>1
      <4> QED
        BY <2>1, <2>2, <3>2, <3>4, <4>2, Zenon
    <3> QED
      BY <3>3, <3>4
  <2>4. \A k \in 1 .. n : f[k] = g[k]
    BY <2>3
  <2>5. f = [k \in 1 .. n |-> f[k]]
    BY <1>2, Zenon DEF IsFlat
  <2> QED
    BY <1>4, <2>4, <2>5
<1>7. \A k \in 1 .. n : f[k] = IF k = 1 THEN words[k] ELSE f[k - 1] \o words[k]
  BY <1>2, Zenon DEF IsFlat
<1>8. f[1] = words[1] /\ \A k \in 2 .. n : f[k] = f[k - 1] \o words[k]
  <2>1. 1 \in 1 .. n /\ \A k \in 2 .. n : k \in 1 .. n /\ k # 1
    BY <1>5
  <2> QED
    BY <1>7, <2>1, Zenon
<1>9. WordAfterWord(f, words, n)
  BY <1>8, Zenon DEF WordAfterWord
<1> QED
  BY <1>3, <1>6, <1>9

\* The steps of Joined.
WordByWord(f, line, last) ==
  /\ f[1] = <<>>
  /\ \A k \in 2 .. last :
       f[k] = f[k - 1] \o (IF k = 2 THEN <<>> ELSE <<Blank>>) \o NthWord(line, k)
\* Two ways to put n words together: f has a blank behind each, g between them.
TwoWays(f, g, w, n, b, C) ==
  /\ b \in C /\ n \in Nat
  /\ w \in [1 .. n -> Seq(C)] /\ f \in [1 .. n -> Seq(C)] /\ g \in [1 .. n + 1 -> Seq(C)]
  /\ f[1] = Append(w[1], b) /\ \A k \in 2 .. n : f[k] = f[k - 1] \o Append(w[k], b)
  /\ g[1] = <<>>
  /\ \A k \in 2 .. n + 1 : g[k] = g[k - 1] \o (IF k = 2 THEN <<>> ELSE <<b>>) \o w[k - 1]

OneBlankMore(f, g, n, b) == \A k \in 1 .. n : f[k] = Append(g[k + 1], b)

\* Joined goes on from word to word.
LEMMA JoinIs ==
  ASSUME NEW line, NEW last, last = Cardinality(Starts(line)), last \in Nat, last # 0,
         \A k \in 1 .. last : NthWord(line, k) \in Seq(Chars)
  PROVE  \E f \in [1 .. last -> Seq(Chars)] : Joined(line) = f[last] /\ WordByWord(f, line, last)
<1> DEFINE f == CHOOSE f : IsJoined(f, line, last)
           gap(k) == IF k = 2 THEN <<>> ELSE <<Blank>>
<1>1. \E g \in [1 .. last -> Seq(Chars)] : IsJoined(g, line, last)
  BY JoinExists
<1>2. IsJoined(f, line, last)
  BY <1>1, Zenon
<1>3. Joined(line) = f[last]
  BY Zenon DEF Joined, IsJoined
<1> HIDE DEF f
<1>4. PICK g \in [1 .. last -> Seq(Chars)] : IsJoined(g, line, last)
  BY <1>1
<1>5. \A k \in 1 .. last : f[k] = IF k = 1 THEN <<>> ELSE f[k - 1] \o gap(k) \o NthWord(line, k)
  BY <1>2, Zenon DEF IsJoined
<1>6. \A k \in 1 .. last : g[k] = IF k = 1 THEN <<>> ELSE g[k - 1] \o gap(k) \o NthWord(line, k)
  BY <1>4, Zenon DEF IsJoined
<1> HIDE DEF gap
<1>7. f \in [1 .. last -> Seq(Chars)]
  <2> DEFINE Bad == {k \in 1 .. last : f[k] # g[k]}
  <2>1. Bad = {}
    <3> SUFFICES ASSUME Bad # {} PROVE FALSE
      OBVIOUS
    <3>1. PICK k \in Bad : \A j \in Bad : k <= j
      <4>1. Bad \in SUBSET Nat
        OBVIOUS
      <4> HIDE DEF Bad
      <4>2. Min(Bad) \in Bad /\ \A j \in Bad : Min(Bad) <= j
        BY <4>1, LeastOf
      <4> QED
        BY <4>2
    <3>2. k \in 1 .. last /\ f[k] # g[k]
      OBVIOUS
    <3>3. CASE k = 1
      BY <1>5, <1>6, <3>2, <3>3
    <3>4. CASE k # 1
      <4>1. k - 1 \in 1 .. last /\ ~(k <= k - 1)
        BY <3>2, <3>4
      <4>2. f[k - 1] = g[k - 1]
        BY <3>1, <4>1
      <4> QED
        BY <1>5, <1>6, <3>2, <3>4, <4>2, Zenon
    <3> QED
      BY <3>3, <3>4
  <2>2. \A k \in 1 .. last : f[k] = g[k]
    BY <2>1
  <2>3. f = [k \in 1 .. last |-> f[k]]
    BY <1>2, Zenon DEF IsJoined
  <2> QED
    BY <1>4, <2>2, <2>3
<1>8. 1 \in 1 .. last /\ \A k \in 2 .. last : k \in 1 .. last /\ k # 1
  OBVIOUS
<1>9. f[1] = <<>> /\ \A k \in 2 .. last : f[k] = f[k - 1] \o gap(k) \o NthWord(line, k)
  BY <1>5, <1>8, Zenon
<1> QED
  <2>1. WordByWord(f, line, last)
    BY <1>9, Zenon DEF gap, WordByWord
  <2> QED
    BY <1>3, <1>7, <2>1

\* A word and a blank, put behind what ends in a blank.
LEMMA OneMore ==
  ASSUME NEW C, NEW b \in C, NEW s \in Seq(C), NEW t \in Seq(C)
  PROVE  Append(s, b) \o Append(t, b) = Append(s \o <<b>> \o t, b)
<1>1. <<b>> \in Seq(C)
  BY OneOf
<1>2. \A u \in Seq(C) : Append(u, b) = u \o <<b>>
  OBVIOUS
<1>3. s \o <<b>> \in Seq(C) /\ s \o <<b>> \o t \in Seq(C) /\ t \o <<b>> \in Seq(C)
  BY <1>1, ConcatProperties
<1> DEFINE r == s \o <<b>>
           e == <<b>>
<1>4. (r \o t) \o e = r \o (t \o e)
  <2>1. r \in Seq(C) /\ e \in Seq(C)
    BY <1>1, <1>3
  <2> HIDE DEF r, e
  <2> QED
    BY <2>1, ConcatAssociative
<1> QED
  BY <1>2, <1>3, <1>4, Zenon

\* With a blank behind each word or between them: the same text and one blank more.
LEMMA FlatOfJoin ==
  ASSUME NEW f, NEW g, NEW w, NEW n, NEW b, NEW C, TwoWays(f, g, w, n, b, C)
  PROVE  OneBlankMore(f, g, n, b)
<1>0. /\ b \in C /\ n \in Nat
      /\ w \in [1 .. n -> Seq(C)] /\ f \in [1 .. n -> Seq(C)] /\ g \in [1 .. n + 1 -> Seq(C)]
      /\ f[1] = Append(w[1], b) /\ \A k \in 2 .. n : f[k] = f[k - 1] \o Append(w[k], b)
      /\ g[1] = <<>>
      /\ \A k \in 2 .. n + 1 : g[k] = g[k - 1] \o (IF k = 2 THEN <<>> ELSE <<b>>) \o w[k - 1]
  BY Zenon DEF TwoWays
<1> DEFINE Bad == {k \in 1 .. n : f[k] # Append(g[k + 1], b)}
<1> SUFFICES ASSUME Bad # {} PROVE FALSE
  BY DEF OneBlankMore
<1>1. PICK k \in Bad : \A j \in Bad : k <= j
  <2>1. Bad \in SUBSET Nat
    BY <1>0
  <2> HIDE DEF Bad
  <2>2. Min(Bad) \in Bad /\ \A j \in Bad : Min(Bad) <= j
    BY <2>1, LeastOf
  <2> QED
    BY <2>2
<1>2. k \in 1 .. n /\ f[k] # Append(g[k + 1], b)
  OBVIOUS
<1>3. k + 1 \in 2 .. n + 1 /\ k + 1 - 1 = k /\ w[k] \in Seq(C) /\ (k + 1 = 2 <=> k = 1)
  BY <1>0, <1>2
<1>4. g[k + 1] = g[k] \o (IF k = 1 THEN <<>> ELSE <<b>>) \o w[k]
  <2> DEFINE j == k + 1
             gap(i) == IF i = 1 THEN <<>> ELSE <<b>>
  <2>1. j \in 2 .. n + 1 /\ j - 1 = k /\ (j = 2 <=> k = 1)
    BY <1>3
  <2> HIDE DEF j
  <2>2. g[j] = g[j - 1] \o (IF j = 2 THEN <<>> ELSE <<b>>) \o w[j - 1]
    BY <1>0, <2>1, Zenon
  <2>3. (IF j = 2 THEN <<>> ELSE <<b>>) = gap(k)
    BY <2>1
  <2> HIDE DEF gap
  <2>4. g[j] = g[k] \o gap(k) \o w[k]
    BY <2>1, <2>2, <2>3, Zenon
  <2> QED
    BY <2>4, Zenon DEF j, gap
<1>5. CASE k = 1
  <2>1. <<>> \o <<>> = <<>> /\ <<>> \o w[1] = w[1]
    <3>1. <<>> \in Seq(C)
      OBVIOUS
    <3> QED
      BY <1>3, <1>5, <3>1, ConcatEmptySeq
  <2>2. g[k + 1] = <<>> \o <<>> \o w[1]
    BY <1>0, <1>4, <1>5
  <2>3. g[k + 1] = w[1]
    BY <2>1, <2>2, Zenon
  <2> QED
    BY <1>0, <1>2, <1>5, <2>3, Zenon
<1>6. CASE k # 1
  <2>1. k \in 2 .. n /\ k - 1 \in 1 .. n /\ ~(k <= k - 1) /\ k - 1 + 1 = k /\ k \in 1 .. n + 1
    BY <1>0, <1>2, <1>6
  <2>2. f[k - 1] = Append(g[k], b)
    <3>1. k - 1 \notin Bad
      BY <1>1, <2>1
    <3>2. f[k - 1] = Append(g[k - 1 + 1], b)
      BY <2>1, <3>1
    <3> QED
      BY <2>1, <3>2, Zenon
  <2>3. f[k] = Append(g[k], b) \o Append(w[k], b)
    BY <1>0, <2>1, <2>2, Zenon
  <2>4. g[k] \in Seq(C)
    BY <1>0, <2>1
  <2>5. f[k] = Append(g[k] \o <<b>> \o w[k], b)
    <3> DEFINE s == g[k]
               t == w[k]
    <3>1. s \in Seq(C) /\ t \in Seq(C)
      BY <1>3, <2>4
    <3> HIDE DEF s, t
    <3>2. Append(s, b) \o Append(t, b) = Append(s \o <<b>> \o t, b)
      BY <1>0, <3>1, OneMore
    <3> QED
      BY <2>3, <3>2, Zenon DEF s, t
  <2>6. g[k + 1] = g[k] \o <<b>> \o w[k]
    BY <1>4, <1>6, Zenon
  <2> QED
    BY <1>2, <2>5, <2>6, Zenon
<1> QED
  BY <1>5, <1>6

\* What does not fit is cut off; cutting twice is cutting once.
LEMMA ClipIs ==
  ASSUME NEW C, NEW s \in Seq(C), NEW n \in Nat
  PROVE  /\ Clip(s, n) \in Seq(C) /\ Len(Clip(s, n)) = Least(n, Len(s))
         /\ \A i \in 1 .. Least(n, Len(s)) : Clip(s, n)[i] = s[i]
<1> DEFINE m == Least(n, Len(s))
<1>1. m \in Nat /\ m <= Len(s) /\ Len(s) \in Nat
  BY DEF Least
<1>2. m \in Int /\ 1 \in Int /\ m - 1 + 1 = m /\ (IF 1 <= m THEN m - 1 + 1 ELSE 0) = m
  BY <1>1
<1>3. \A i \in 1 .. m : s[i] \in C /\ 1 + i - 1 = i
  BY <1>1
<1> HIDE DEF m
<1>4. /\ SubSeq(s, 1, m) \in Seq(C) /\ Len(SubSeq(s, 1, m)) = m
      /\ \A i \in 1 .. m : SubSeq(s, 1, m)[i] = s[i]
  BY <1>2, <1>3, SubSeqProperties
<1> QED
  BY <1>4 DEF Clip, m

LEMMA ClipTwice ==
  ASSUME NEW C, NEW s \in Seq(C), NEW n \in Nat \ {0}
  PROVE  Clip(Clip(s, n - 1), n) = Clip(s, n - 1)
<1> DEFINE t == Clip(s, n - 1)
           l == Least(n, Len(t))
<1>1. n - 1 \in Nat
  OBVIOUS
<1>2. t \in Seq(C) /\ Len(t) = Least(n - 1, Len(s))
  BY <1>1, ClipIs
<1> HIDE DEF t
<1>3. Len(t) \in Nat /\ Len(t) <= n - 1
  BY <1>1, <1>2 DEF Least
<1>4. l = Len(t)
  BY <1>3 DEF Least
<1>5. SubSeq(t, 1, Len(t)) = t
  BY <1>2, SubSeqFull
<1>6. Clip(t, n) = t
  BY <1>4, <1>5, Zenon DEF Clip, l
<1> QED
  BY <1>6 DEF t

\* The NUL takes the place of the last blank.
LEMMA ClipLast ==
  ASSUME NEW C, NEW b \in C, NEW s \in Seq(C), NEW n \in Nat
  PROVE  LET all == Append(s, b) IN
         /\ all # <<>>
         /\ Clip(all, Least(Len(all) - 1, n)) = Clip(s, n)
<1> DEFINE all == Append(s, b)
           k == Least(Len(all) - 1, n)
           t == Clip(all, k)
           u == Clip(s, n)
<1>1. all \in Seq(C) /\ Len(all) = Len(s) + 1 /\ Len(s) \in Nat /\ \A i \in 1 .. Len(s) : all[i] = s[i]
  OBVIOUS
<1>2. all # <<>>
  BY <1>1
<1> HIDE DEF all
<1>3. k \in Nat /\ k = Least(n, Len(s)) /\ k <= Len(s) /\ Least(k, Len(all)) = k
  BY <1>1 DEF Least
<1> HIDE DEF k
<1>4. t \in Seq(C) /\ Len(t) = k /\ \A i \in 1 .. k : t[i] = all[i]
  <2>1. /\ t \in Seq(C) /\ Len(t) = Least(k, Len(all))
        /\ \A i \in 1 .. Least(k, Len(all)) : t[i] = all[i]
    BY <1>1, <1>3, ClipIs
  <2> HIDE DEF t
  <2> QED
    BY <1>3, <2>1, Zenon
<1>5. u \in Seq(C) /\ Len(u) = k /\ \A i \in 1 .. k : u[i] = s[i]
  BY <1>3, ClipIs
<1> HIDE DEF t, u
<1>6. \A i \in 1 .. Len(t) : t[i] = u[i]
  <2> SUFFICES ASSUME NEW i \in 1 .. Len(t) PROVE t[i] = u[i]
    OBVIOUS
  <2>1. i \in 1 .. k /\ i \in 1 .. Len(s)
    BY <1>1, <1>3, <1>4
  <2> QED
    BY <1>1, <1>4, <1>5, <2>1, Zenon
<1>7. t = u
  BY <1>4, <1>5, <1>6, SeqEqual
<1> QED
  BY <1>2, <1>7 DEF all, k, t, u

\* fillPCBargs puts the words after the first together with a blank between them.
LEMMA FillIs ==
  ASSUME NEW line \in Seq(STRING), Len(line) <= MaxCommand, Cardinality(Starts(line)) <= MaxArgs,
         ArgNum(tiny_parse(line)) > 0
  PROVE  /\ Joined(line) \in Seq(Chars)
         /\ fillPCBargs(line, tiny_parse(line)) = Clip(Joined(line), ArgLen - 1)
<1> DEFINE args == tiny_parse(line)
           last == ArgNum(args)
           n == last - 1
           words == [i \in 1 .. n |-> Append(Word(line, args, i + 1), Blank)]
           w == [i \in 1 .. n |-> NthWord(line, i + 1)]
           all == FlattenSeq(words)
<1>1. /\ last = Cardinality(Starts(line)) /\ last \in Nat
      /\ \A k \in 1 .. last : Word(line, args, k) = NthWord(line, k) /\ Word(line, args, k) \in Seq(STRING)
  <2>1. Least(Cardinality(Starts(line)), MaxArgs) = Cardinality(Starts(line))
    BY Zenon DEF Least
  <2> QED
    BY <2>1, WordsAre
<1>2. last > 0 /\ fillPCBargs(line, args) = IF all = <<>> THEN <<>> ELSE Clip(all, Least(Len(all) - 1, ArgLen - 1))
  BY Zenon DEF fillPCBargs
<1> HIDE DEF args, all
<1>3. \A k \in 1 .. last : NthWord(line, k) \in Seq(Chars)
  BY <1>1, TextIsChars
<1>4. ArgLen - 1 \in Nat /\ last # 0 /\ n \in Nat /\ n + 1 = last
  BY <1>1, <1>2, CommandLineAssumption
<1> HIDE DEF last
<1>5. PICK g \in [1 .. last -> Seq(Chars)] : Joined(line) = g[last] /\ WordByWord(g, line, last)
  BY <1>1, <1>3, <1>4, JoinIs
<1>6. /\ Joined(line) = g[last] /\ g[1] = <<>>
       /\ \A k \in 2 .. last : g[k] = g[k - 1] \o (IF k = 2 THEN <<>> ELSE <<Blank>>) \o NthWord(line, k)
  BY <1>5, Zenon DEF WordByWord
<1>7. Joined(line) \in Seq(Chars)
  <2>1. last \in 1 .. last
    BY <1>1, <1>4
  <2> QED
    BY <1>5, <2>1
<1>8. CASE n = 0
  <2>1. words = <<>> /\ Len(words) = 0
    BY <1>8
  <2> HIDE DEF words
  <2>2. all = <<>>
    BY <2>1 DEF all, FlattenSeq
  <2>3. Joined(line) = <<>>
    BY <1>4, <1>6, <1>8
  <2>4. Clip(<<>>, ArgLen - 1) = <<>>
    <3>1. Len(<<>>) = 0 /\ Least(ArgLen - 1, 0) = 0
      <4>1. \A m \in Nat : (IF m <= 0 THEN m ELSE 0) = 0
        OBVIOUS
      <4>2. Least(ArgLen - 1, 0) = 0
        BY <1>4, <4>1, Zenon DEF Least
      <4>3. Len(<<>>) = 0
        OBVIOUS
      <4> QED
        BY <4>2, <4>3
    <3>2. SubSeq(<<>>, 1, 0) = <<>>
      BY SubSeqEmpty
    <3> QED
      BY <3>1, <3>2, Zenon DEF Clip
  <2> QED
    BY <1>2, <1>7, <2>2, <2>3, <2>4 DEF args
<1>9. CASE n # 0
  <2>1. \A i \in 1 .. n : i + 1 \in 1 .. last /\ i + 1 \in 2 .. last /\ w[i] = NthWord(line, i + 1)
    BY <1>1, <1>4
  <2>2. w \in [1 .. n -> Seq(Chars)]
    <3>1. \A i \in 1 .. n : NthWord(line, i + 1) \in Seq(Chars)
      BY <1>3, <2>1
    <3> QED
      BY <3>1
  <2>3. \A i \in 1 .. n : words[i] = Append(w[i], Blank)
    <3>1. \A i \in 1 .. n : Word(line, args, i + 1) = NthWord(line, i + 1)
      BY <1>1, <2>1
    <3>2. \A i \in 1 .. n : words[i] = Append(Word(line, args, i + 1), Blank)
      BY Zenon
    <3> QED
      BY <2>1, <3>1, <3>2, Zenon
  <2>4. words = [i \in 1 .. n |-> words[i]]
    OBVIOUS
  <2> HIDE DEF words, w, n
  <2>5. Blank \in Chars
    BY DEF Chars
  <2>6. \A i \in 1 .. n : words[i] \in Seq(Chars)
    <3>1. \A i \in 1 .. n : w[i] \in Seq(Chars)
      BY <2>2
    <3>2. \A s \in Seq(Chars) : Append(s, Blank) \in Seq(Chars)
      BY <2>5
    <3> QED
      BY <2>3, <3>1, <3>2, Zenon
  <2>7. words \in Seq(Seq(Chars)) /\ n = Len(words)
    <3>1. words \in [1 .. n -> Seq(Chars)]
      BY <2>4, <2>6, Zenon
    <3> QED
      BY <1>4, <3>1
  <2>8. PICK f \in [1 .. n -> Seq(Chars)] : FlattenSeq(words) = f[n] /\ WordAfterWord(f, words, n)
    BY <1>9, <2>7, FlatIs
  <2>9. /\ all = f[n] /\ f[1] = words[1]
        /\ \A k \in 2 .. n : f[k] = f[k - 1] \o words[k]
    BY <2>8, Zenon DEF all, WordAfterWord
  <2>10. f[1] = Append(w[1], Blank) /\ \A k \in 2 .. n : f[k] = f[k - 1] \o Append(w[k], Blank)
    <3>1. 1 \in 1 .. n /\ \A k \in 2 .. n : k \in 1 .. n
      BY <1>4, <1>9
    <3> QED
      BY <2>3, <2>9, <3>1, Zenon
  <2>11. \A k \in 2 .. n + 1 : g[k] = g[k - 1] \o (IF k = 2 THEN <<>> ELSE <<Blank>>) \o w[k - 1]
    <3>1. \A k \in 2 .. n + 1 : k \in 2 .. last /\ k - 1 \in 1 .. n /\ k - 1 + 1 = k
      BY <1>4
    <3>2. \A k \in 2 .. n + 1 : w[k - 1] = NthWord(line, k)
      <4> SUFFICES ASSUME NEW k \in 2 .. n + 1 PROVE w[k - 1] = NthWord(line, k)
        OBVIOUS
      <4>1. w[k - 1] = NthWord(line, k - 1 + 1)
        BY <2>1, <3>1, Zenon
      <4> QED
        BY <3>1, <4>1, Zenon
    <3> QED
      BY <1>6, <3>1, <3>2, Zenon
  <2>12. g \in [1 .. n + 1 -> Seq(Chars)]
    BY <1>4, <1>5, Zenon
  <2>13. \A k \in 1 .. n : f[k] = Append(g[k + 1], Blank)
    <3>1. TwoWays(f, g, w, n, Blank, Chars)
      BY <1>4, <1>6, <2>2, <2>5, <2>8, <2>10, <2>11, <2>12, Zenon DEF TwoWays
    <3>2. OneBlankMore(f, g, n, Blank)
      BY <3>1, FlatOfJoin, Zenon
    <3> QED
      BY <3>2, Zenon DEF OneBlankMore
  <2>14. all = Append(Joined(line), Blank)
    <3>1. n \in 1 .. n
      BY <1>4, <1>9
    <3> QED
      BY <1>4, <1>5, <2>9, <2>13, <3>1, Zenon
  <2> DEFINE j == Joined(line)
             m == ArgLen - 1
  <2>15. j \in Seq(Chars) /\ m \in Nat /\ all = Append(j, Blank)
    BY <1>4, <1>7, <2>14
  <2>16. fillPCBargs(line, args) = IF all = <<>> THEN <<>> ELSE Clip(all, Least(Len(all) - 1, m))
    BY <1>2
  <2> HIDE DEF j, m
  <2>17. all # <<>> /\ Clip(all, Least(Len(all) - 1, m)) = Clip(j, m)
    BY <2>5, <2>15, ClipLast
  <2> QED
    BY <1>7, <2>16, <2>17, Zenon DEF args, j, m
<1> QED
  BY <1>8, <1>9

\* Whatever the line of up to MaxCommand characters and MaxArgs words, and however many
\* blanks are between them, what getargs gives the program that execute starts is the
\* words after the first, one blank between them: none is lost, joined to its neighbour
\* or cut before the end of the PCB's string.  The image plays no part.
THEOREM ArgsReachProgramHolds == Spec => ArgsReachProgram
<1>1. ASSUME NEW command \in Commands, ExecuteStarts(command), Len(command) <= MaxCommand,
             Cardinality(Starts(command)) <= MaxArgs
      PROVE  getargs(argstr', ArgLen).data = Clip(Joined(command), ArgLen - 1)
  <2>1. ArgNum(tiny_parse(command)) > 0 /\ argstr' = fillPCBargs(command, tiny_parse(command))
    BY <1>1, Zenon DEF ExecuteStarts
  <2>2. command \in Seq(STRING)
    BY ProgramsAssumption
  <2>3. Joined(command) \in Seq(Chars) /\ argstr' = Clip(Joined(command), ArgLen - 1)
    BY <1>1, <2>1, <2>2, FillIs
  <2>4. ArgLen \in Nat \ {0}
    BY CommandLineAssumption
  <2>5. Clip(argstr', ArgLen) = Clip(Joined(command), ArgLen - 1)
    BY <2>3, <2>4, ClipTwice
  <2>6. getargs(argstr', ArgLen).data = Clip(argstr', ArgLen)
    BY DEF getargs
  <2> QED
    BY <2>5, <2>6
<1>2. [Next]_vars => [ArgsArrive(MaxArgs)]_vars
  BY <1>1 DEF ArgsArrive
<1> QED
  BY <1>2, PTL DEF Spec, ArgsReachProgram
=============================================================================
