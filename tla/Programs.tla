------------------------------ MODULE Programs ------------------------------
(***************************************************************************)
(* What a shell does with a command and what the program it starts gets:   *)
(* the image, the argument string and the descriptors (Execute_Halt.c,     *)
(* Syscalls.c, fileSystem.c).  The tree of processes and what they share   *)
(* is module Process; here a shell runs one program at a time, and of the  *)
(* shell's own descriptors only the number in use matters.                 *)
(***************************************************************************)
EXTENDS CommandLine, FileSystem

CONSTANTS
  Commands,      \* the lines the shell hands to execute
  OpenNames,     \* the names programs open
  ReadSizes,     \* the sizes they read with (a negative one is refused)
  MaxFd,         \* MAX_FD, 8
  HeaderBytes,   \* EXE_HEADER_BYTES, 40
  ProgramSpace,  \* the 4 MB the loader asks for
  ProgramRoom,   \* what the 4 MB page at 128 MB has left from PROG_LOAD_VM on
  U32            \* 2^32, where the position of a descriptor wraps

ASSUME ProgramsAssumption ==
  /\ MaxFd \in Nat /\ MaxFd > 2
  /\ HeaderBytes \in Nat /\ HeaderBytes > FnameLen
  /\ Commands \subseteq Seq(STRING) /\ ReadSizes \subseteq Nat
  /\ U32 \in Nat /\ ProgramSpace \in Nat /\ ProgramSpace < U32
  /\ ProgramRoom \in Nat /\ ProgramRoom <= ProgramSpace

Fds   == 2 .. MaxFd - 1
Shell == 0             \* program: the shell is at its prompt

VARIABLES
  program,    \* the dentry of the program that runs, or Shell
  image,      \* what the loader has put at PROG_LOAD_VM
  argstr,
  fd_array,   \* the program's, from 2 on
  in_use,     \* how many of Fds the shell has in use
  answer      \* what the last call gave

vars == <<program, image, argstr, fd_array, in_use, answer>>

\* flags = 0; what the entry held stays in it but is never read.
Unused == [kind |-> "unused", inode |-> 0, position |-> 0]

Init ==
  /\ program = Shell /\ image = <<>> /\ argstr = <<>>
  /\ fd_array = [fd \in Fds |-> Unused]
  /\ in_use = 0
  /\ answer = Answer(0, <<>>)

-----------------------------------------------------------------------------
\* A new descriptor for dentry i; the inode is kept for a regular file only.
Opened(i) ==
  LET d == Image.dentries[i] IN
  CASE d.type = RTC_TYPE  -> [kind |-> "rtc", inode |-> 0, position |-> 0]
    [] d.type = DIR_TYPE  -> [kind |-> "dir", inode |-> 0, position |-> 0]
    [] d.type = FILE_TYPE -> [kind |-> "file", inode |-> d.inode, position |-> 0]

\* What the read of the file's type gives.  rtc_read waits for a tick.
Fetched(f, n) ==
  CASE f.kind = "unused" -> Failed
    [] f.kind = "rtc"    -> Answer(0, <<>>)
    [] f.kind = "dir"    -> dir_read(f.position)
    [] f.kind = "file"   -> read_data(f.inode, f.position, n)

Moved_OneBug(f, n, ret) ==
  IF f.kind \in {"dir", "file"} /\ ret \notin {-1, 0} THEN f.position + 1 ELSE f.position
\* Where read leaves the position.  A file's is moved by ret whatever it is:
\* the test for -1 and 0 covers the directory only (Syscalls.c:49-51).
Moved(f, n, ret) ==
  CASE f.kind = "dir" /\ ret \notin {-1, 0} -> f.position + 1
    [] f.kind = "file"                      -> (f.position + ret) % U32
    [] OTHER                                -> f.position

\* read(fd, buf, n): its answer and the descriptor afterwards.
AfterRead(f, n) ==
  LET a == Fetched(f, n) IN
  [answer |-> a, fd |-> [f EXCEPT !.position = Moved(f, n, a.ret)]]

clear_file_position_KeepBug(f) == f
clear_file_position(f) == [f EXCEPT !.position = 0]

\* file_check, for a dentry just opened: a whole header with the magic number.
file_check(f) == AfterRead(clear_file_position(f), HeaderBytes)
Runs(i) ==
  /\ file_check(Opened(i)).answer.ret = HeaderBytes
  /\ Image.inodes[Image.dentries[i].inode].exe

\* The loader reads through the descriptor the check has read from.
loaded(i) ==
  AfterRead(clear_file_position(file_check(Opened(i)).fd), ProgramSpace).answer.data

\* The entries open may find for the first word of the command.
Finds(command, args) ==
  LET found == {i \in 1 .. num_dentries :
                  /\ i = read_dentry_by_name(Image.dentries[i].name)
                  /\ MayName(command, args, Image.dentries[i].name)}
  IN IF Len(fname(command, args)) < FnameLen /\ found # {} THEN found
     ELSE found \union {NoFile}

-----------------------------------------------------------------------------
\* execute that starts nothing: no word (0), or no such file, no descriptor or
\* no program (-1).  A descriptor that open has taken stays taken.
ExecuteFails ==
  /\ program = Shell
  /\ \E command \in Commands :
       LET args == tiny_parse(command) IN
       \/ /\ ArgNum(args) = 0
          /\ answer' = Answer(0, <<>>)
          /\ UNCHANGED in_use
       \/ /\ ArgNum(args) > 0
          /\ \E i \in Finds(command, args) :
               \/ /\ i = NoFile \/ in_use = Cardinality(Fds)
                  /\ UNCHANGED in_use
               \/ /\ i # NoFile /\ in_use < Cardinality(Fds) /\ ~Runs(i)
                  /\ in_use' = in_use + 1
          /\ answer' = Failed
  /\ UNCHANGED <<program, image, argstr, fd_array>>

\* execute up to the first instruction of the program; the shell's descriptor
\* is closed again.
ExecuteStarts(command) ==
  LET args == tiny_parse(command) IN
  /\ program = Shell
  /\ ArgNum(args) > 0
  /\ in_use < Cardinality(Fds)
  /\ \E i \in Finds(command, args) \ {NoFile} :
       /\ Runs(i)
       /\ program' = i
       /\ image' = loaded(i)
  /\ argstr' = fillPCBargs(command, args)
  /\ fd_array' = [fd \in Fds |-> Unused]
  /\ answer' = Answer(0, <<>>)
  /\ UNCHANGED in_use

\* halt: every descriptor is closed, and the shell has its prompt back.  Its
\* own image is another page.
Halt ==
  /\ program # Shell
  /\ program' = Shell
  /\ image' = <<>> /\ argstr' = <<>>
  /\ fd_array' = [fd \in Fds |-> Unused]
  /\ answer' = Answer(0, <<>>)
  /\ UNCHANGED in_use

-----------------------------------------------------------------------------
FreeFds == {fd \in Fds : fd_array[fd] = Unused}

Open ==
  /\ program # Shell
  /\ \E name \in OpenNames :
       LET i == read_dentry_by_name(name) IN
       IF i = NoFile \/ FreeFds = {}
       THEN answer' = Failed /\ UNCHANGED fd_array
       ELSE /\ fd_array' = [fd_array EXCEPT ![Min(FreeFds)] = Opened(i)]
            /\ answer' = Answer(Min(FreeFds), <<>>)
  /\ UNCHANGED <<program, image, argstr, in_use>>

Close ==
  /\ program # Shell
  /\ \E fd \in Fds :
       /\ answer' = IF fd_array[fd] = Unused THEN Failed ELSE Answer(0, <<>>)
       /\ fd_array' = [fd_array EXCEPT ![fd] = Unused]
  /\ UNCHANGED <<program, image, argstr, in_use>>

Read ==
  /\ program # Shell
  /\ \E fd \in Fds, n \in ReadSizes :
       LET after == AfterRead(fd_array[fd], n) IN
       /\ answer' = after.answer
       /\ fd_array' = [fd_array EXCEPT ![fd] = after.fd]
  /\ UNCHANGED <<program, image, argstr, in_use>>

Next ==
  \/ ExecuteFails
  \/ \E command \in Commands : ExecuteStarts(command)
  \/ Halt \/ Open \/ Close \/ Read

Spec == Init /\ [][Next]_vars

-----------------------------------------------------------------------------
(* Properties. *)

\* What the kernel takes for granted of the image: names without blanks that fill no
\* more than their field, files that fit where the loader puts them (a longer one runs
\* over the end of the only page that is mapped), and block numbers that read_data
\* accepts, up to the one it meets at the end of the file.
ProperImage ==
  /\ \A i \in 1 .. num_dentries : LET d == Image.dentries[i] IN
       /\ d.type \in {RTC_TYPE, DIR_TYPE, FILE_TYPE}
       /\ Len(d.name) \in 1 .. FnameLen /\ \A k \in 1 .. Len(d.name) : d.name[k] # Blank
       /\ d.type = FILE_TYPE => d.inode \in DOMAIN Image.inodes
  /\ \A inode \in DOMAIN Image.inodes : LET file == Image.inodes[inode] IN
       /\ file.length \in 0 .. ProgramRoom
       /\ \A b \in 0 .. file.length \div BlockSize :
            file.length > 0 => file.blocks[b] \in 0 .. Image.num_data_blocks - 1

\* Every byte of dentry i's file, in order.
Whole(i) ==
  LET file == Image.inodes[Image.dentries[i].inode]
  IN [k \in 1 .. file.length |-> Byte(file, k - 1)]

\* The shape of the state: what a descriptor is, a position no read can take
\* past the end of its file or directory, and a string that fits in the PCB.
ProgTypeOK ==
  /\ program \in 0 .. num_dentries
  /\ Len(argstr) < ArgLen
  /\ in_use \in 0 .. Cardinality(Fds)
  /\ \A fd \in Fds : LET f == fd_array[fd] IN
       /\ f.kind \in {"unused", "rtc", "dir", "file"}
       /\ f.kind = "dir" => f.position \in 0 .. num_dentries
       /\ f.kind = "file" => f.position \in 0 .. Image.inodes[f.inode].length

\* The words of a line, as a reader sees them: the longest runs without blanks.
InWords(line)  == {i \in 1 .. Len(line) : line[i] # Blank}
Starts(line)   == {i \in InWords(line) : i - 1 \notin InWords(line)}
WordFrom(line, i) ==
  SubSeq(line, i, Max({j \in i .. Len(line) : i .. j \subseteq InWords(line)}))
NthWord(line, n)  ==
  WordFrom(line, CHOOSE i \in Starts(line) :
                   Cardinality({j \in Starts(line) : j <= i}) = n)
Unslashed(word) == IF DotSlash(word) THEN SubSeq(word, 3, Len(word)) ELSE word

\* The program that starts is the one the first word names, "./" aside.  Of a
\* word as long as a name can be the part that fits in the name buffer of
\* execute decides (Execute_Halt.c:60-71).  Blanks before the first word make
\* execute look for a name of blanks (line 63), which no file has.
NamedBy(line, name) ==
  LET first == NthWord(line, 1)
      word  == Unslashed(first)
  IN IF Len(first) < FnameLen THEN name = word ELSE IsPrefix(Clip(word, FnameLen - 2), name)
NamedProgramRuns ==
  [][\A command \in Commands : ExecuteStarts(command) =>
       NamedBy(command, Image.dentries[program'].name)]_vars

\* The other words of the line, one blank between them.
Joined(line) ==
  LET last == Cardinality(Starts(line))
      join[n \in 1 .. last] ==
        IF n = 1 THEN <<>>
        ELSE join[n - 1] \o (IF n = 2 THEN <<>> ELSE <<Blank>>) \o NthWord(line, n)
  IN join[last]

\* What getargs gives the program of a line of up to so many words.
ArgsArrive(words) ==
  \A command \in Commands :
    /\ ExecuteStarts(command)
    /\ Len(command) <= MaxCommand /\ Cardinality(Starts(command)) <= words
    => getargs(argstr', ArgLen).data = Clip(Joined(command), ArgLen - 1)

\* No word is lost, joined to its neighbour or cut, up to the MaxArgs words that
\* tiny_parse has room for and the length of the PCB's string.
ArgsReachProgram == [][ArgsArrive(MaxArgs)]_vars

\* "we os now accept 10 args for the command at most": so says the line that
\* defines MaxArgs.
AcceptedArgs == 10
AcceptedArgsReachProgram == [][ArgsArrive(AcceptedArgs)]_vars

\* A program runs with all of its file in place, although the header was read
\* through the same descriptor first.
ImageLoadedWhole == program # Shell => image = Whole(program)

\* The descriptors are streams: what two of them give does not depend on the
\* other, on the sizes of the reads or on where blocks end, and nothing is
\* skipped or read twice.
Left(f) ==
  CASE f.kind = "unused" -> [unit |-> "closed", left |-> <<>>]
    [] f.kind = "rtc"    -> [unit |-> "bytes", left |-> <<>>]
    [] f.kind = "dir"    ->
         [unit |-> "names",
          left |-> [k \in 1 .. num_dentries - f.position |->
                      [name |-> Image.dentries[f.position + k].name]]]
    [] f.kind = "file"   ->
         LET file == Image.inodes[f.inode]
         IN [unit |-> "bytes",
             left |-> [k \in 1 .. file.length - f.position |-> Byte(file, f.position + k - 1)]]

S == INSTANCE Streams WITH
       Openable <- {Left(Opened(i)) : i \in 1 .. num_dentries},
       Asked    <- ReadSizes,
       stream   <- [fd \in Fds |-> Left(fd_array[fd])],
       got      <- answer.data
StreamsSpec == S!Spec
=============================================================================
