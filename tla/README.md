# TLA+ verification of the uiuc-ece391 kernel

The program is a small x86 kernel (`src/student-distrib`): three virtual terminals, each with a
stack of processes started by `execute` and ended by `halt`, a round-robin scheduler driven by the
PIT, a line-buffered keyboard, signals, a read-only file system, an RTC driver, a page-table layer
and a block allocator. One CPU; all concurrency is between the running process and the interrupt
handlers (PIT, keyboard, RTC), plus the preemption the PIT handler performs.

## 1. Inventory

How the pieces interact. `int 0x80` enters through an *interrupt gate* (`idt.c:31-42`), so a system
call runs with IF = 0 unless it calls `sti` itself; only `terminal_read` (its wait loop), `rtc_read`
(its wait loop) and the tail of `terminal_write` do. Exceptions enter through *trap gates*
(`idt.c:18-29`) and keep IF. The three boot processes (`sche_main`) run in ring 0 and are entered by
an `iret` with EFLAGS 0x202, so their *first* `execute` is preemptible; when a shell halts, `sche_main`
is re-entered from the halting system call with IF = 0 and its next `execute` is not.

| Component | Source | State | Operations | Talks to |
|---|---|---|---|---|
| Process table and PCBs | `PCB.c`, `PCB.h` | `pid_table`, per-PCB `parent_pid`, `noterminal`, `visible`, `kesp`/`kebp`, `fd_array` | `get_new_pid`, `giveup_pid`, `init_PCB`, `init_Syscall`, `get_PCB` | execute/halt, scheduler |
| execute / halt | `Execute_Halt.c`, `Execute_Haltasm.S` | PCBs, `tss.esp0`, the 128 MB page, `sche_list` | `execute`, `halt`, `loader`, `file_check`, `paging_switch`, the command parser | files, paging, keyboard (`kb_init` through `openStdInOut`), signals (`signal_init`) |
| Scheduler | `scheduler.c`, `scheduler_asm_helper.S` | `sche_list`, `cur_sche_node`, `kesp`, `tss.esp0` | `scheduler` (PIT interrupt), `_init_multiple_terminal`, `sche_main` | PCBs, paging, screen, signals (alarm) |
| File descriptors | `Syscalls.c` | `fd_array` | `open`, `close`, `read`, `write`, `getargs`, `vidmap`, `openStdInOut` | file system, RTC, terminal, paging |
| Keyboard | `e391keyboard.c` | per terminal: ring `kb_buf`, modifiers; `kbstatusp`/`kbbufp`, `nowterminalno` | `keyboard_handler`, `kbbufpush/pop/consume`, `altfnfunc`, `ctrllfunc` | screen, signals (Ctrl-C), PCBs (`visible`) |
| Terminal driver | `e391terminal.c` | the keyboard's ring and status | `terminal_read`, `terminal_write`, `terminal_open` | keyboard, screen |
| Screen | `lib.c` | `screen_x/y`, `video_mem`, four video pages | `putc`, `clear`, cursor, scroll | keyboard, scheduler |
| Signals | `signal.c`, `signal_asm_helper.S` | per PCB `pending_signal`, `mask`, `prev_mask`, `alarm_time`, handlers | `signal_send`, `check_signal`, `set_handler`, `sigreturn` | exceptions, keyboard, scheduler, halt |
| File system | `fileSystem.c` | read-only image | `read_dentry_by_*`, `read_data`, `dir_read` | descriptors |
| RTC | `rtc.c` | `rtc_interrupt_occur`, registers A and C | `rtc_handler`, `rtc_read`, `rtc_write`, `rtc_open` | descriptors, PIC |
| Allocator | `malloc.c` | `memory_block_tracker` | `malloc`, `free` | none (tests only) |
| Paging | `x86_page.c`, `x86_page.h` | `PD`, `PT`, `PT_user`, the TLB | `map_*`, `unmap_*`, `vidmap`, `Flush_TLB` | execute, halt, scheduler |
| PIC | `i8259.c` | `master_mask`, `slave_mask` | `enable_irq`, `disable_irq`, `send_eoi` | drivers |
| Interrupt entry | `idt.c`, `intrexce.S`, `Syscall_handler.S` | the gates | entries and exits, call dispatch | everything |
| Memory and string routines | `lib.c`, `ece391support.c` | the flag DF | `memset`, `memcpy`, `memmove`, strings, `itoa` | everything |
| User programs | `src/syscalls` | their buffers and descriptors | `grep`, `syserr` and others | the system calls |

### What is hard here

* **Three actors, one CPU.** The running process, the PIT handler and the keyboard handler share
  PCBs, `sche_list`, the ring and two pointers into per-terminal arrays. Interrupts are off in almost
  every system call, so the interesting places are the exceptions to that rule: the first `execute` of
  each terminal, the wait loops of `terminal_read` and `rtc_read`, exception handlers, the tail of
  `terminal_write`, and the instructions between `check_signal` and `iret`.
* **Who is the current process** is recorded in four ways (the stack pointer, `sche_list` with
  `cur_sche_node`, `tss.esp0`, the page at 128 MB) by three pieces of code (`execute`, `halt`,
  `scheduler`).
* **One field, two meanings.** `kesp` is a frame `halt` pops or a frame `scheduler_asm` pops.
* **Small tables.** Eight descriptors, a handful of pids, a 128-byte ring; a shell that cannot be
  restarted stops the machine because `sche_main` tries again with IF = 0.
* **8-bit indices** computed with a signed remainder (`POS(x-1)`).
* **One-word signal state**: `pending_signal` cleared as a whole, one `prev_mask`.
* **One of each for everybody**: one page directory and one `vidmap` table rewritten on every switch, with
  a TLB between them and the processor that not every writer flushes; one tick flag for all readers of the
  clock; one direction flag that `memmove` leaves set.
* **Devices that fall silent**: the clock waits for register C to be read, the slave PIC for two ends of
  interrupt, and `rtc_handler` can itself be interrupted once it has called `sti`.

### What makes each component correct

| Component | Correct when |
|---|---|
| Process table, execute, halt | the live processes are one stack per terminal, no pid leaks or is shared; the parent finds its frame, page and stack again; a descriptor a program holds is not closed by `execute` |
| Scheduler | it runs the foreground process of each terminal in turn, for ever, on that process' own stack and page; a shell that ends is restarted |
| Boot | it ends in a state the above starts from, and shells that start early are safe meanwhile |
| Keyboard, terminal driver | characters are read in the order typed, by their own terminal, a line at a time; backspace takes back the last; a reader with a line is served |
| Signals | a fault stops its process before user code goes on; Ctrl-C reaches the process shown; handlers do not nest; signals are not lost |
| Screen | a process draws on its own terminal's page, hidden or shown; the cursor follows; switching changes no display |
| Command line | the program the first word names starts, whole, and gets the other words |
| Allocator | live blocks are disjoint and inside the heap; malloc fails only when there is no room |
| RTC, PIC | a line that is disabled does not interrupt; no line is blocked for good; a read waits for a tick of its own and gets one; the rate is the one asked for |
| Paging | a process reaches its own frame and a video page, through no entry and no stale translation anything else; a child gets its arguments before its image replaces them |
| Memory and string routines | they do what their comments promise at every alignment, length and overlap, and in any order |
| grep, syserr | grep prints the lines that match wherever its reads cut the file; the test of the system calls passes |
| File system, descriptors | successive reads give the bytes of the file in order, over block boundaries and whatever other descriptors do |

## 2. Plan

Order of work, most important first. "Done" modules are described in section 3.

| # | Module | Models | Builds on | Status |
|---|---|---|---|---|
| 1 | `Process` (abstract: `Sessions`, via `ProcessSessions`) | process table, execute, halt, scheduler, descriptors | | done, invariants and step-by-step refinement proved |
| 2 | `Boot` | the first `execute` of every terminal, statement by statement | `Process` | done, quiet boots proved |
| 3 | `KeyRing`, `Keyboard` (abstract: `LineInput`, via `KeyboardInput`) | ring, handler, `terminal_read` | | done, invariants and step-by-step refinement proved |
| 4 | `Signals` | senders, `check_signal`, `sigreturn`, the alarm | `Sessions` | done, invariants proved |
| 5 | `Display`, `Screen` | drawing; the video pages, `video_mem`, positions, Alt-Fn, `vidmap` | | done, cursor and action properties proved |
| 6 | `CommandLine`, `FileSystem`, `Programs` (abstract: `Streams`) | parser, file name, loader, argument string; lookup, `read_data`, `dir_read`, positions | | done, program name, arguments, loader and `Streams` proved |
| 7 | `Devices` | PIC, gates, clock, timer; `rtc_read`, `rtc_write` | | done, invariants proved |
| 8 | `AddressSpaces` (abstract: `PrivateMemory`) | the page directory, `vidmap`'s table, the TLB, and their writers | | done, proved |
| 9 | `Strings`, `Heap`, `Grep`, `SyscallTests` (side by side in `MCRoutines`) | `lib.c`, `malloc.c`, two programs | | done, proved |

Every safety property of a passing run has its theorem; what is left is beyond the prover (section 5, *Only model-checked*).

## 3. Modules

Names follow the C code. Definitions ending in `Bug` are faulty variants of the definition that
follows them; each property is known to notice one of them.

### Process

State: `pid_table` (the set of occupied entries), the PCB fields `parent_pid`, `noterminal`, `visible`,
`fd_flags` (descriptors with `flags == 1`) and `kesp` (only *what kind of frame* it points at);
`sche_list`, `cur_sche_node`, `nowterminalno`; `cpu`, the process on whose kernel stack the CPU is
(`get_PCB()` computes it from `esp`), `page128` and `esp0`; `checking`, the child pid that an `execute`
waiting in `rtc_read` holds. `handed` is a history variable: the descriptors `open` gave the program.

| Action | Code |
|---|---|
| `ExecuteFails`, `ExecuteNoProgram` | the early returns of `execute` |
| `ExecuteRtc`, `RtcReadReturns` | `execute` of the RTC device: `file_check` → `read` → `rtc_read`, which waits with IF = 1 |
| `ExecuteProgram` | `execute` to the `iret` into the child |
| `Halt` | `halt`, from the system call or from a default signal handler |
| `Open`, `Close` | `open`, `close` |
| `Tick` | `scheduler`, the PIT handler, with `scheduler_asm` |
| `AltFn` | the `sche_list` and `visible` part of `altfnfunc` |

A system call is one step because it runs with IF = 0; a process in user mode or in a wait loop can be
interrupted. `Init` is the state boot leaves (`Boot` shows this).

### Sessions and ProcessSessions

`Sessions` is what a user sees: a stack of processes per terminal, of which the top one runs when it is
the terminal's turn; push, pop, rotate, show. `ProcessSessions` reads these stacks off `sche_list` and
`parent_pid` and states that `Process` implements `Sessions` (`SessionsSpec`), fairness included, and
that nothing but these stacks is in `pid_table` (`ProcessTree`). `Ancestry` follows `parent_pid` from a process up to
its boot process; it is a function defined by recursion on the number of steps, so that it can be reasoned about.

### Boot

Extends `Process`. The boot processes run their first `execute` with IF = 1 (the `iret` of
`aasm_init_terminal_stack` pushes EFLAGS 0x202), so it is split at every statement another process or a
handler can notice: `Find`, `Occupy`, `OpenShell`, `FillPcb`, `List`, `Load`, `SetTss`, `Enter`. With
`Preempted = TRUE` the PIT and the keyboard can interrupt anywhere in it, which is the code; with FALSE
no interrupt happens to land there. A shell that was entered behaves as in `Process`, also while other
terminals are still starting.

### KeyRing, Keyboard, LineInput, KeyboardInput

`KeyRing` is `kb_buf_t` and its operations as operators on a record, with indices as `uint8_t`
(`U8 = 2 * BufSize` stands for 256): `Before` is the C value of `POS(x-1)`, and a push at index 255
lands in `linelocbuf`, a line position at 255 in the next terminal's ring (`Spills`). `Keyboard` has one
ring and one status per terminal, `nowterminalno` (where the handler works) and `turn` (where
`terminal_read` and `execute` work: the terminal the scheduler left in `kbbufp`). The handler's actions
are the arms of its `switch`; `Read`/`ReadReturns` are `terminal_read` before and after its wait,
`Execute` is the `kb_init` that `openStdInOut` causes, `Tick` the scheduler's `kb_status_ptr_set`.
Characters are abstracted to *plain*, *shifted* and *newline*. F1 to F3 are, as in the code, the digit
keys 1 to 3. `held` and `midcode` are the keyboard's own state: which modifiers are down and whether
half of an extended code is still to come.

`LineInput` is the promise: a queue per terminal; `KeyboardInput` states that `Keyboard` implements it.
A terminal's queue may be forgotten when nobody reads from it: that is what Ctrl-L and every `execute`
do to type-ahead.

### Signals

Uses `Sessions` for the processes and their turns. `mode` says where a process is: in user mode, on the
way there with `check_signal` still to come (with IF = 0 or 1), past a `check_signal` that gave IF back,
in a wait loop, in its `execute`, or *lost*. Senders: `Exception` (to the running process, through a trap gate, so
IF stays 1; `Exceptions` are the vectors programs run into), `CtrlC` and the alarm in `Tick` (to the process shown). `check_signal` is
`NothingPending`, `RunHandler`, `Ignore` or `Kill`. Masks are sets: nothing in the kernel calls
`signal_mask` or `signal_unmask`. The frame on the user stack is a count of running handlers.

Vectors 8, 10 to 13 and 17 (`Shifted`) have stubs that push a dummy over the error code the CPU has pushed. For
them `check_signal` looks at the wrong word, returns, and the `iret` faults in the kernel: the process is *lost*. Each such fault
faults again and takes a little more of the kernel stack; where it ends when that is full is not followed (nor an
EIP whose lower half happens to be `USER_CS`), only that its user code does not go on and others get turns.

### Display and Screen

`Display` is what the routines of `lib.c` do to a text page and a position: `putc`, `clear`, scrolling,
erasing. A cell shows a blank, text or the cursor. `Screen` is who draws where: the page the screen shows
and one kept per terminal, `video_mem`, `screen_x/y` and their copies in every `kbstatus`. `Echo` is the
keyboard handler's bracket around an operation: save the running terminal's position, turn `lib.c` to the
terminal shown, draw, save, turn back. `AltFn` copies the pages and moves the terminals' page addresses,
and then, like the code, puts back the address read before. `uvideo` is what `vidmap`'s page maps to, one
page table for all processes; a hidden process' page is chosen by its pid, so it is past the terminals'
pages (*beyond*). `strayed` is a history variable: something was drawn away from home, after which
`NoCursorLeftBehind` promises nothing.

### CommandLine, FileSystem, Programs and Streams

`CommandLine` follows a line of text through `tiny_parse`, the file name of `execute` and `fillPCBargs` to
`getargs`; a word too long for the name buffer leaves it without a NUL, and what `open` then reads behind
it on the stack is a choice (`MayName`). `FileSystem` is the image, the lookup by name, `read_data` and
`dir_read`; a byte is known by its block and offset. `Programs` joins them: a shell that executes lines, the
header check, the loader reading through the same descriptor, and the program's `open`, `close` and `read`
with `file_position` as `read` leaves it. `Streams` is the promise of descriptors, which `Programs`
implements (`StreamsSpec`): each is a stream of what its file holds, reads take from the front as much as
they ask for, and no call touches another stream. `ProperImage` is what the kernel takes for granted of an image, and what
the shipped `filesys_img` satisfies: names that are not empty, have no blanks and fit their field, files no bigger than
the room behind `PROG_LOAD_VM` in the program's page (`ProgramRoom`, 4 MB less 0x48000; the loader itself would go on to the 4 MB of `ProgramSpace`), and block numbers below the count of blocks, also the one `read_data` looks at when a file ends where a
block does. `MCPrograms` has TLC confirm it of the instance.

A command with blanks in front never starts anything, because the name is copied from the start of the
line (`Execute_Halt.c:63`).

### Devices

From a line that a device raises to the process that waits for it. `mask`, `irr` and `isr` are the two
8259A chips, `latched` says that the clock has raised its line and waits for register C, `regA` is its rate.
How the chips choose among requests (`Above`, `Interrupts`, `Service`) is external. Each handler, from its
entry to its `iret`, is one step with IF = 0 - but `rtc_handler` calls `sti` before it returns, so its end
(`RtcReturn`) is a step of its own and handlers pile up on the stack of the process they interrupted
(`tail`). `rtc_read` is `StartRead`, its loop with IF = 1, `SeeTick` and `EndRead`. A mask is a set of bits of
a byte: what `1 << irq_num` sets beyond bit 7 is lost (`Byte`), so for the slave neither `disable_irq` nor
`enable_irq` changes anything. `Raised` are the lines the machine's devices raise: the modelled ones, a
masked one of the master, and one of the slave that has no gate. `Stray` is what comes of that one:
exception 11, whose stub shifts the frame, so the process is *lost*, and nobody tells the chips that the interrupt has ended. `ticked` and `asked` are history variables.

### AddressSpaces and PrivateMemory

`PD` and `PT_user` as `init_paging`, `_init_multiple_terminal` (boot processes with PCBs, nothing loaded yet), `map_4M_U`, `paging_switch`, `vidmap` and the scheduler write them, in
entries of the fields that matter; `tlb` is what the processor may have kept, filled at any time (`Cache`)
from what it finds in the tables and emptied where the code reloads cr3. A program's load or store goes
through `Translate`: the TLB first. The processes are a stack per terminal, as `Process` proves them to be.
`Execute` keeps the order of the code: the arguments are copied out of the caller's memory, then the child
is mapped in its place, then the image is read. `PrivateMemory` is the promise: a memory per process that
nobody else reads or writes.

### Strings, Heap, Grep, SyscallTests

`Strings` has each routine of `lib.c` as a map from the memory before to the memory after, built from the
string instructions (`Stos`, `Movs`), with the direction flag that lives on between calls; what the comment
over a routine promises is stated next to it (`Fill`, `Moved`, `Copied`, `Written`). The digits of `itoa` are functions
defined by recursion on the quotients: `Places` as its loop finds them, the lowest first, `Digits` as they are written. The calls are those the
comments allow: `memcpy`, `strncpy` and copies upwards only without overlap. `Heap` is `malloc.c`; what lies
behind the tracker takes part in the search (`behind`), and clients free once what they hold. `Grep` is
`do_one_file` with its buffer, reads, moves and NULs; `Hits` are the lines of a text that have the pattern, `AllHits`
those `grep` is to print, where the first cut line counts as two if an old newline is behind the buffer. `SyscallTests` is `syserr`: its eight tests against the
checks the kernel makes of descriptors, names, pointers and call numbers. They share nothing, so
`MCRoutines` runs one of them in each behaviour.

## 4. Runs

| Run | Instance | Checks |
|---|---|---|
| `ProcessTree` | 2 terminals, 7 pids, 3 descriptors | `IInv`, the inductive invariant of the proofs; running context; process tree; visibility; saved frames; room to restart; handed descriptors; `Isolation` of terminals; `Sessions` is implemented; every terminal gets the CPU again and again |
| `BootQuiet` | 2 terminals, 6 pids | boot ends in `IInv`; early shells are safe |
| `BootPreempted` | the same, `Preempted` | violated: see findings |
| `KeyboardLines` | 1 terminal, ring of 3 | linenum counts the lines; `LineInput` is implemented |
| `KeyboardSwitch` | 2 terminals, ring of 2 | terminals apart; a reader with a line is served; `LineInput` is implemented |
| `KeyboardWrap` | 1 terminal, ring of 3, `EraseOverWrap` | violated: see findings |
| `Signals` | 2 terminals, 4 pids, all signals, vectors 0, 13 and 14 | no user code past a fault; a Ctrl-C is taken; handlers never nest; mask and handler agree |
| `Screen` | 3 terminals, pages of 2 lines | no cursor left behind; switching changes no display; one step draws on one display; a stray pointer comes home |
| `Programs` | 5 directory entries, blocks of 2 bytes, about 260 lines | the named program starts, whole, with its arguments; `Streams` is implemented |
| `Devices` | 2 terminals, lines 0, 1, 4, 8 and 14 | the master's lines interrupt only through gates with a handler; a read returns on a tick of its own, and does return; the rate is as asked |
| `AddressSpaces` | 2 terminals, 5 pids | only its own pages are in a process' reach; `PrivateMemory` is implemented |
| `Routines` | 7 bytes of memory, 6 blocks, files of 6 characters, 8 descriptors | the routines keep their promises; allocations are disjoint and not refused without need; grep finds the lines; `syserr` passes |

Every module has a type invariant; only `Process`' (within `IInv`) is among the properties of a run, the others say
what the variables hold and can be added to a cfg.

`LinesAreCounted` stands in a passing and in a violated run on purpose: it holds as long as no
Backspace meets a write index of 0, and only so long; `EraseOverWrap` is that condition.

**Bounds.** Two terminals show every interference between the one that runs and one that waits or is
shown; `Screen` takes three. With 2 terminals and 7 pids a
shell can start a program that starts another, or each shell one, or one while an `execute` on the
other terminal holds a pid, and the table fills up. Of 3 descriptors one is free, to be held by the program or borrowed by `execute`. A ring of 2 or 3 bytes fills, wraps and holds two lines. `MaxPressed` bounds the modifier counters
(2 where modifiers only type), `AlarmTicks` shortens ten seconds to one tick: what matters is only that the
alarm can come at any turn. In `Screen` a line is one column wide: what is checked is who draws where, and every
character scrolls; the same properties hold with two terminals and one line of three columns. In `Programs` a name
has 4 characters and a program 5 or 7 bytes, so names fill their field, words and arguments are cut, and reads of 0, 1
and 3 bytes start, end and cross at block boundaries; the image has what the shipped `filesys_img` has: blocks out
of order, a name without a NUL, no length that is a multiple of the block. In `Devices` the lines are
those with a handler, one of the master without, and one of the slave without. Readers are only promised to return
until that last one interrupts, which is never ended and blocks the clock's. A handler may be interrupted after its `sti` once per stack (`MaxTail`), which
gives three levels with the PIT's. In `AddressSpaces` one value a program may write, beside its image, tells every
mix-up of two frames. In `Routines` 7 bytes have a head, a double word and a tail at every alignment, two calls let
the flag of one meet the other; a buffer of 3 is refilled twice by 6 characters; 6 blocks let four allocations leave
holes. What the bounds exclude, on purpose: wrap-around of a modifier counter at
256, and of `linenum`, which the ring's size keeps below.

**Deadlock** is checked in every run but `Routines`, whose routines and programs end.

**Fairness.** *PIT* (`SF(Tick)` where interrupts can be off, `WF(Tick)` in `Keyboard`): the timer fires for
ever and the PIC keeps one interrupt pending while IF = 0, so a handler that is enabled again and again
does run. *Kernel code runs on*: `sche_main`'s `execute` and `check_signal` are straight-line code
nobody stops. `Screen` assumes `SF(Tick)`. *A waiting reader looks* (`SF` of `ReadReturns` in its turn): each turn gives the process
at least one pass through its wait loop, which reads `linenum`. In `Devices` the two
clocks tick for ever (`WF`), and a handler whose line asks again and again, and a process in `rtc_read` that is
scheduled again and again, get through in some of the milliseconds between ticks (`SF`); keyboard and serial line
owe nothing. No fairness is assumed of users and
programs: they may stop typing, loop, or never call the kernel.

## 5. Proofs

Eight modules hold theorems; each extends the component's module. All are about every value of the constants that the
`ASSUME`s allow (TLC evaluates those on each run's instance). Where a theorem needs more, it says so after `ASSUME`:

| Theorem | Hypothesis | Why it is there |
|---|---|---|
| `LinesAreCountedHolds`, `LinesImplemented`, `TerminalsApartHolds` | `~EraseOverWrap` | without it they are false: `KeyboardWrap` |
| `BootsIntoProcessHolds`, `StartedShellsAreSafeHolds` | `~Preempted` | without it they are false: `BootPreempted` |
| `FaultsAreTakenHolds` | `Exceptions \cap Shifted = {}` | with an error code it is false (section 6) |
| `OwnBlocksHolds`, `FailsOnlyWhenFullHolds` | the word behind the tracker is not 0, or no size needs 2^16 blocks | a count is kept in 16 bits; past them the search runs behind the heap |
| `TestsPassHolds` | `SyscallTestsAssumption`: eight descriptors, a directory that lists itself and not the names `err_open` asks for | so it is in the code and in `filesys_img`; the tests count to eight |
| `ImageLoadedWholeHolds`, `StreamsImplemented`, `NamedProgramRunsHolds` | `ProperImage` | the image is built elsewhere; the kernel checks little of it, and nothing of a file's length |

### Process and Boot

`Process_proofs.tla`, for every number of terminals from 2, pids and descriptors that `ConstantsAssumption` allows:

* `TypeCorrect`, `RunningContextHolds`, `VisibleIsForegroundHolds`, `SavedContextsHold`,
  `RestartHasRoomHolds`, `HandedStayOpenHolds`: `Spec => []P`;
* `IsolationHolds`: `Spec => Isolation`, an action property;
* `Inductive`: `Spec => []IInv`.

None of these is inductive alone. `IInv` adds what they lean on: `Family` (a live process' parent is
alive, of the same terminal, not in the foreground, and has no other child), `Holding` (a pid held by an
`execute` that waits belongs to no process) and `Room` (`sche_main` runs only right after a `halt`,
before the turn moves on, so the pid its child gave up is still free). For example `SavedContexts`
survives `Halt` only because the parent is not in the foreground and so has an *execute* frame; that the
parent is alive needs `Holding`, or a second process could take its pid; and `RestartHasRoom` needs
`Room`, because another terminal could otherwise take the last pid first. `InitInv`, one lemma per
action, `NextInv` and `Inductive` follow that order.

`ProcessTreeHolds` and `SessionsImplemented` are about all of a terminal's processes at once. `Family` is local: it
does not exclude a cycle of parents beside the line that ends at the boot process. `TreeInv` says that for each
terminal there is a `Line`, a `Path` of different processes each the parent of the next, from the boot process to the
foreground one, and that the lines are disjoint and hold every live process. `execute` appends to a line, `halt` takes
its last one, all other steps leave it. `Stack`, the refinement mapping, is then shown to be that line, and each step of
`Process` to push, pop, rotate or show. `SessionsImplemented` is `SessionsSpec` without its fairness.

Boot: while a terminal of `U` has not started, its boot process has no child and its frame is not `halt`'s, so
`IInv` does not hold. `IInvBut(U)` is `IInv` with just that excepted - `IInvBut({})` implies `IInv` - and every action
of `Process` keeps it (`NextInvBut`), which is what makes shells safe that run while others boot. `BootInv` adds the
middle of a first `execute`: what holds of everybody else (`Starting`), and which of the eight statements have been
done for the new pid (`Made`).

### Keyboard

`Keyboard_proofs.tla`, for every number of terminals and size of the ring. `ApartInv` has the write index inside the
ring at all times (`RingsOK`) and `terminalreading` set while a read waits (`StatusOK`), without which Ctrl-L could
empty the ring of a waiting reader; from it follows `TerminalsApartHolds`.

`LinesAreCountedHolds` needs `Counted`: the bytes in the ring are `bitenum` many from `biteBP` on, `biteEP` is behind the
last, and `linenum` is the number of newlines among them. A pop moves the beginning, so the same newlines are counted at
places one lower; that this is as many is a bijection. A `kbbufconsume` takes up to the first newline, whose
place is a least element.

`LinesImplemented` reads a ring as a queue (`Unread`). One lemma per operation shows that it is the queue's: `PushQueue`,
`PopQueue`, `BinitQueue`, `ConsumedQueue`, and `DeliveredLine` for what a reader gets; one lemma per action then maps it
to a step of `LineInput`. It is `LineInputSpec` without its fairness.

### AddressSpaces, Screen, Signals

`AddressSpaces_proofs.tla` proves `OnlyOwnPagesHolds` and that paging implements `PrivateMemory`
(`PrivateMemoryImplemented`), for every number of terminals and pids. The invariant `AInv` says that a process
is on one terminal only (`ChainsOK`), what each directory entry is (`DirectoryOK`), and that the TLB keeps
nothing but what the directory says now or, for `vidmap`'s page, a video page the running terminal may have
(`TlbOK`): translations of that page do outlive a change of the table, and the proof has to show that they
are harmless. The refinement then takes each action to one of `PrivateMemory` or to a stutter.

`Screen_proofs.tla` proves `SwitchingShowsTheSameHolds`, `DrawsOnOneHolds` and `NoCursorLeftBehindHolds`, for every
number of terminals and every size of the screen. What they need is `PagesApart`: the terminal shown draws on page 0,
each other one on its own page, although `altfnfunc` moves contents and addresses in several steps. `CursorInv` adds that
every terminal's display is *clean* - no cursor but at its position - as long as nothing has been drawn away from home;
that the operations of `lib.c` keep a display clean is a lemma each (`putcFacts`, `BackspaceFacts`, `BackToLineFacts`).

`Signals_proofs.tla` proves `HandlersDoNotNestHolds`, `UserCodeStopsHolds` and, without shifted frames, `FaultsAreTakenHolds`, for every number of terminals and
pids with room for a shell each (`SignalsAssumption`). `SigInv` adds that the stacks share no process (`StacksOK`, or a
`halt` could leave another terminal's process behind), that a mode *boot* is `sche_main`'s (`ModesOK`), that a
running handler has everything masked and **nothing to restore** (`MasksOK`: `prev_mask` survives into the next process
with its pid, harmless only because no handler runs there yet), and that outside the way to `check_signal` no
fault can be delivered (`FaultsOK`).

### Programs

`Programs_proofs.tla`, for every image that is `ProperImage` (the arguments: for every image), every block size and every set of commands, names and read
sizes. `read_dataFacts` says what `read_data` gives of a proper image: no block it meets is bad (`BlockOrder`), so the
bytes from the offset on, as far as asked and as far as there are. `NothingRead`, `NameRead` and `BytesRead` are one
`read` by the kind of its descriptor; a position never passes the end of its file, so it does not wrap at 2^32.
`LoadedWhole` shows that only a regular file passes the header check (a name is shorter than a header) and that the
loader then gets it from its first byte to its last. `ProgInv` keeps this and `GoodFd` of every descriptor; each step is
one of `Streams` (`ReadStep`, `StreamsNext`). `Streams` states no fairness, so `StreamsImplemented` is all of `StreamsSpec`.

`NamedProgramRunsHolds` is about lines of any length. `ParseIs` turns the recursion of `tiny_parse` into a function on
the characters looked at, and `FirstKnown` is its invariant: which characters are known to be blanks and which are not, until
the first word is over. So (`FirstWord`) the word `execute` copies ends at a blank or at the 128th character, and is the
reader's first word (`FirstIs`) or both are longer than a name can be, which is where `MaxCommand >= FnameLen` is used.
Blanks in front give a name that begins with a blank, which no dentry has; `TakesNamed` is the rest, "./" and the
name without its NUL included.

`ArgsReachProgramHolds` is about lines of up to 128 characters, what `tiny_parse` looks at, and `MaxArgs` words, what it has room for (section 6); it needs no proper image. Its invariant,
`AllKnown`, is that of every word: each pair of entries is the beginning and the end of the word of that number
(`Count` is how many words begin up to a character), and after the last one there are only blanks or the word that is
still open, unless the array is full. With it `WordsAre` says that `Word` is `NthWord` up to
`MaxArgs`. What the program gets is then a matter of two recursions, blanks *behind* the words in
`fillPCBargs` and *between* them in `Joined`: `FlatIs` and `JoinIs` say what each is step by step, `FlatOfJoin` that
they differ by one blank at the end, and `ClipLast` and `ClipTwice` that the NUL takes its place and that `getargs`
cuts nothing more.

### Devices

`Devices_proofs.tla`: `i8259_initIs` works out what sixteen `disable_irq` leave, through the 8-bit shifts: the master masked
but for the slave's line, the slave open. `PicInv` keeps the masks, which makes `MasterLinesGatedHolds` true whatever devices raise, `FlagInv` says that the clock's flag is set only
when no waiting reader missed the tick that set it, `RateInv` which power of two the rate belongs to.

### Strings, Heap, Grep, SyscallTests

`Routines_proofs.tla`, in four parts.

*The routines of `lib.c`*, for every memory, alignment, length, overlap and radix. `MovsUp`, `MovsDown` and `StosIs` are
what `rep movs` and `rep stos` do, from an invariant of their rounds; upwards a copy is right if no byte is written before
it is read, downwards likewise. `memset` and `memcpy` are a head, double words and a tail (`Parts`), and `memcpyIs` and
`memmoveIs` join them; `strcpyIs` and `strrevMirrors` follow their loops byte by byte. In `itoaIs` the digits from the
lowest on (`Places`) read backwards are the number's (`Digits`): `PlacesReversed`, by least number that fails. The
invariant `StrInv` of `CallsKeepPromiseHolds` is that the memory is what the last call promised, so it holds whatever
the direction flag of the call before was: that is where each routine's `cld` or `std` is needed.

*`malloc` and `free`*: `HeapInv` says that the tracker marks exactly the allocations held, one behind the other. The search
steps over allocations by the counts it finds; `NeverInside` shows that it lands only on the beginnings of allocations
or on free blocks, `NoGapPassed` that it passes over no gap that is long enough.

*`grep`*, for every file, buffer size and pattern. `GrepInv` says where the buffer lies on the file (`Placed`), that it
holds the file from there on (`Buffered`), that what is printed and the hits from here on are all hits (`Output`), and
`Unwritten`: the byte behind the buffer is looked at before it is written, and if there is a newline, all
reads so far were whole buffers and no line has been cut. `PatternIs` is the search of one line; `SearchMore`, `SearchLast` and
`SearchFull` are a line that ends in the buffer, the last of the file, and one as long as the buffer. `IsText` excludes
NULs and lines that are longer than the buffer, for which the program promises nothing. TLC finds `GrepInv` true of `Routines`.

*`syserr`*: every test but `err_open_lots` consists of calls the kernel is to refuse with only the terminal open (`ToRefuse`,
`RefusedWhenFresh`); `Lots` is what that one has open after each of its calls. `TestInv` says that between
tests the descriptors are those of a fresh program, whichever tests came before.

### How the proofs get around induction

The provers cannot instantiate the induction theorems of the library, whose parameter is an operator. Where a statement is about all
natural numbers (the parents above a process, the blocks `malloc` visits, the lines `disable_irq` masks, the
newlines of a ring, the characters of a line), the proof takes the least number for which it fails (`WFMin` of the natural numbers) and shows that
it holds there. What a recursive function *is* follows in the same way from the existence of the functions on shorter intervals.

### Only model-checked

* Liveness: `EveryTerminalRuns`, `ReaderServed`, `CtrlCIsTaken`, `ComesHome`, the two on readers of the clock, and the fairness
  in `SessionsSpec` and `LineInputSpec`. The prover handles neither fairness nor ENABLED.

Every other property of a passing run has its theorem; no module uses a RECURSIVE operator.

## 6. Findings

* **A first `execute` can be preempted** (`BootPreempted`; `Execute_Halt.c:99`). Between the update of
  `sche_list` and the `iret` the terminal's entry names a child with a NULL `kesp`; a PIT interrupt there
  makes the terminal's next turn load it into `esp`. The same window lets two terminals take one pid
  (`PidsAreUnique` in `Boot`, put in the place of `WaitingHaveStacks`, is violated too).
* **Backspace over the wrap** (`KeyboardWrap`; `e391keyboard.c:180`). `POS(0-1)` is −1, hence 255: the next
  character is written outside the ring, and the ring keeps the character that was erased.

Six more statements of the repository are false of the code. They are in the modules, beside the properties that say what does hold; a
cfg of the run with one of them as its property (and nothing else changed, where nothing is said) shows the counterexample:

* **Exceptions with an error code are not handled** (`FaultsAreTaken` of `Signals`; `intrexce.S:61`). `INTR_LINKR` pushes a dummy
  although the CPU has pushed an error code, so that `check_signal` takes the low half of EIP for `cs` and returns, and `iret` takes the
  error code for EIP. A general protection fault of a program, for one, ends in the kernel faulting over and over, against `e391exception.c:12`
  ("current exception is handled"): the SEGFAULT is never taken, though user code does not go on either (`UserCodeStops`).
* **The slave's lines cannot be disabled** (`DisabledLinesAreMasked` of `Devices`; `i8259.c:92`). `1 << irq_num` is past the eight bits of
  `slave_mask`, and that is 0, so all lines stay open, against `i8259.c:40` ("disable all the mask...") and `i8259.c:74` ("mask the specified irq").
  A device on the slave other than the clock interrupts through a gate that is not present, and blocks the clock. The master's masks hold (`MasterLinesGated`).
* **Words past the sixth are dropped** (`AcceptedArgsReachProgram` of `Programs`, with the code's `MaxArgs` 6, `MaxCommand` and `ArgLen` 128 and
  `MCLongCommands`; `Execute_Halt.c:19`). `MaxArgs` counts the command, while the comment
  on its line says 10 arguments are accepted; the program starts without the rest. Lines that fit: `ArgsReachProgram`.
* **`malloc` gives out what is behind the heap** (`InsideHeap` of `Heap`; `malloc.c:50`). The search runs past the tracker; if the words there
  are 0 it takes them for free blocks, past the end that `malloc.h:10` gives. `OwnBlocks` says what holds otherwise.
* **A descriptor leaks** (`CanAlwaysLoad` of `Process`; `Execute_Halt.c:81`). `execute` of a file that is no
  program returns without closing it, against `Bug_log_jjl.txt:22`. After six the program can load nothing any more,
  unless it closes descriptors it was never given or halts. `RestartHasRoom` says that `sche_main` is not hit.
* **Output on the wrong terminal** (`WritesStayHome` of `Screen`; `e391keyboard.c:320`). After Alt-Fn away from the
  running terminal `lib.c` keeps the screen's address until the next key or tick, against `e391keyboard.c:389`; what
  the program writes meanwhile shows on the other terminal. `ComesHome` shows that it is put right.

Also modelled as the code has it; no text of the repository was found that says otherwise: `check_signal` takes one signal and
clears all (`signal.c:95`); nothing unmaps `vidmap`'s page, and Alt-Fn leaves its mapping alone until the next
tick; `read` would move a file's position by -1 if a read failed (`Syscalls.c:51`); `rtc_reset_freq` writes 0 over the divider bits that `rtc_init` set; a
read of the clock consumes the tick of whoever else waits; `free` of what `malloc(0)` returned would free another's block; `grep` looks at a byte of
its buffer that was never written, and a newline there breaks one line in two.

## 7. Not modelled, and why

* In `Process` what a file is to `execute` is a choice among *empty, missing, text, rtc, exe*; `Programs` has the
  files themselves.
* `write` to a file or directory fails and changes nothing. The column a backspace over a newline goes back
  to (`lengthbetween`) is a choice in `Screen`.
* Register saving and stack layouts: below what the properties tell apart; a saved stack is its kind.
* Ill-behaved programs: a program's own memory and a `sigreturn` outside a handler, which loads
  whatever the user stack holds.
* E1 scan codes (only Pause sends them), `linelocbuf` and `lineBP` (written and never read).
* `map_4M`, `map_4K_U`, `unmap_4K`, `bad_kernel_addr`, `signal_mask`, `signal_unmask`, `get_arg_len`:
  nothing calls them. `map_4K` is called by `_init_multiple_terminal` only (`scheduler.c:195-197`), for three pages of the kernel in slot 0.
* A program file of more than 4 MB less 0x48000: the loader would leave the page, in the kernel. `printf` and the port macros: formatting and I/O.
* The other programs of `src/syscalls` (shell, cat, ls, hello, counter, pingpong, sigtest) make one system call after
  the other; `grep`'s `main` only walks the directory. `src/fish` is an animation that was handed out, with an
  emulation of the kernel for Linux.
* The frequency of the timer and the ten seconds of the alarm (`scheduler.c:36` adds 13 for 13.73 ms): time is not
  modelled, only that ticks come.
* `kernel.c`, `tests.c` and the descriptor tables of `x86_desc.S`: straight-line initialisation and manual tests.
