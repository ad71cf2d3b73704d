---------------------------- MODULE SyscallTests ----------------------------
(***************************************************************************)
(* The program syserr, the repository's own test of the system calls, run  *)
(* against the checks that the kernel makes of their arguments.            *)
(***************************************************************************)
EXTENDS Integers, Sequences, SequencesExt, FiniteSetsExt

CONSTANTS
  MaxFd,      \* MAX_FD, 8
  Directory   \* the names in the directory

VARIABLES
  fd_array,  \* what each descriptor of the program is
  todo,      \* the tests that are left, the current one first
  step,      \* the calls of the current test that are done
  refused,   \* how many of them have returned -1
  verdicts   \* the tests that are over, as [test, fail]

testVars == <<fd_array, todo, step, refused, verdicts>>

Fds    == 0 .. MaxFd - 1
Unused == "unused"

\* A program starts with the terminal as stdin and stdout (openStdInOut).
FreshFds == [fd \in Fds |-> CASE fd = 0 -> "stdin" [] fd = 1 -> "stdout" [] OTHER -> Unused]

----------------------------------------------------------------------------
(* The kernel: whether a call returns -1, and the descriptors after it. *)

IsOpen(fd) == fd \in Fds /\ fd_array[fd] # Unused

\* Nobody may read stdout (terminal_fail).
read_refuses(fd) == ~IsOpen(fd) \/ fd_array[fd] = "stdout"

\* Only stdout takes what is written; the clock takes four bytes (rtc_write),
\* files, directories and stdin (terminal_failc) nothing.
write_refuses(fd, nbytes) ==
  ~IsOpen(fd) \/ fd_array[fd] \in {"stdin", "file", "dir"} \/ (fd_array[fd] = "rtc" /\ nbytes # 4)

close_refuses_Std(fd) == ~IsOpen(fd)
close_refuses(fd) == fd < 2 \/ ~IsOpen(fd)

FreeFds == {fd \in Fds : fd >= 2 /\ fd_array[fd] = Unused}
open_refuses(name) == name \notin DOMAIN Directory \/ FreeFds = {}

\* The pointer has to lie above 128 MB.
vidmap_refuses(screen_start) == screen_start <= 128 * 2 ^ 20

\* Unsigned, a negative number is above 10.
call_refuses(num) == num < 1 \/ num > 10

Refused(c) ==
  CASE c.op = "read"   -> read_refuses(c.arg)
    [] c.op = "write"  -> write_refuses(c.arg, 31)
    [] c.op = "close"  -> close_refuses(c.arg)
    [] c.op = "open"   -> open_refuses(c.arg)
    [] c.op = "vidmap" -> vidmap_refuses(c.arg)
    [] c.op = "call"   -> call_refuses(c.arg)

After(c) ==
  IF Refused(c) THEN fd_array
  ELSE CASE c.op = "open"  -> [fd_array EXCEPT ![Min(FreeFds)] = Directory[c.arg]]
         [] c.op = "close" -> [fd_array EXCEPT ![c.arg] = Unused]
         [] OTHER          -> fd_array

----------------------------------------------------------------------------
(* The program: its eight tests and what they expect. *)

BIG == 1073741823
NEG == -1073741823

Calls(op, args) == [i \in DOMAIN args |-> [op |-> op, arg |-> args[i]]]
Upto7(first)    == [i \in 1 .. 8 - first |-> first + i - 1]
Helloo == <<"h", "e", "l", "l", "o", "o">>
Shel   == <<"s", "h", "e", "l">>

\* The directory is there by its own name, and what err_open asks for is not.
ASSUME SyscallTestsAssumption ==
  /\ MaxFd = 8
  /\ Directory \in [DOMAIN Directory -> {"dir", "rtc", "file"}]
  /\ <<".">> \in DOMAIN Directory /\ {Helloo, Shel, <<>>} \cap DOMAIN Directory = {}

err_neg_fd      == Calls("read", <<NEG>>) \o Calls("write", <<NEG>>) \o Calls("close", <<NEG>>)
err_big_fd      == Calls("read", <<BIG>>) \o Calls("write", <<BIG>>) \o Calls("close", <<BIG>>)
err_open_lots   == Calls("open", [i \in 1 .. 7 |-> <<".">>]) \o Calls("close", Upto7(2))
err_open        == Calls("open", <<Helloo, Shel, <<>>>>)
err_unopened    == Calls("close", Upto7(0)) \o Calls("read", Upto7(2)) \o Calls("write", Upto7(2))
err_vidmap      == Calls("vidmap", <<0, 4 * 2 ^ 20>>)
err_stdin_out   == Calls("write", <<0>>) \o Calls("read", <<1>>)
err_syscall_num == Calls("call", <<BIG, NEG, 0>>)

Tests == <<err_neg_fd, err_big_fd, err_open_lots, err_open, err_unopened, err_vidmap,
           err_stdin_out, err_syscall_num>>

\* Every call should be refused; of seven opens just one, the closes do not count.
Passes(test, count) == count = IF test = 3 THEN 1 ELSE Len(Tests[test])

\* main: the tests of one line of input, 0 for all of them.
Selected(select) == IF select = 0 THEN [t \in 1 .. 8 |-> t] ELSE <<select>>

TestInit ==
  /\ fd_array = FreshFds
  /\ todo \in {Selected(select) : select \in 0 .. 8}
  /\ step = 0 /\ refused = 0
  /\ verdicts = {}

TestCall ==
  /\ todo # <<>> /\ step < Len(Tests[Head(todo)])
  /\ LET c == Tests[Head(todo)][step + 1] IN
       /\ fd_array' = After(c)
       /\ refused' = refused + (IF Refused(c) /\ ~(Head(todo) = 3 /\ c.op = "close") THEN 1 ELSE 0)
  /\ step' = step + 1
  /\ UNCHANGED <<todo, verdicts>>

EndTest ==
  /\ todo # <<>> /\ step = Len(Tests[Head(todo)])
  /\ verdicts' = verdicts \cup {[test |-> Head(todo), fail |-> ~Passes(Head(todo), refused)]}
  /\ todo' = Tail(todo)
  /\ step' = 0 /\ refused' = 0
  /\ UNCHANGED fd_array

TestNext == TestCall \/ EndTest
TestSpec == TestInit /\ [][TestNext]_testVars

----------------------------------------------------------------------------
\* Every test that the repository has for its system calls passes, alone and
\* after the others, and leaves the descriptors as they were.
TestsPass ==
  /\ \A v \in verdicts : ~v.fail
  /\ step = 0 => fd_array = FreshFds
=============================================================================
