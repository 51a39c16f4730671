# Verification of the Kerrisk exercises

The repository holds the author's solutions to the exercises of Michael Kerrisk's *The Linux
Programming Interface*: one directory per chapter, each a small C program (about 2,200 lines in all)
or shell script. There is no shared library: the *system* is the set of programs, and each program's
environment is the Linux kernel, the C library, the other processes, and the user at the terminal.
What is hard in such programs is never the sequential text; it is what the kernel may do between two
lines of it. These modules model the programs in which that matters, with the kernel calls they make
as the operators of the model.

The TLA+ modules, their TLC configurations and their TLAPS proofs are in this directory.
`PROJECT.json` lists the components, the runs, the theorems, the hazards, the findings, and for each
definition the source lines it translates.

## 1. Inventory

### Programs with behaviour worth a model

| Part | Source | State | Operations | What is hard | What makes it correct |
|---|---|---|---|---|---|
| Reaping by signal | `26-chap/main.c` `children_signalling`, `sigchld_handler` | process table, disposition of SIGCHLD, `volatile uint8_t i`, pending signal | sigaction, fork ×3, `i++`, test of `i`, `pause`; handler: `waitpid(WNOHANG)` until none, `i--` | the handler interrupts between any two accesses of `i`; signals are merged; children may outrun the loop; fork and sigaction fail and are only reported | never returns with a child left; never counts too few; collects every zombie; where it can hang |
| Reaping by polling and by blocking | same file, `children_polling`, `children_blocking` | process table, local `uint8_t i` | fork ×3, sleep, `waitpid` with and without `WNOHANG` | a failed fork is counted; children discarded when SIGCHLD is ignored; `-1` is counted and printed as a child | always returns, and only when no child is left; errors have only these causes, and each counted child that cannot be waited for is shown |
| Two writers | `24-chap/main.c` | `tmp1.txt` with one shared offset, `tmp2.txt` with two | open, fork, open, 100 × two writes | concurrent writes, short writes, one process leaving early, an old file | tmp1 is an append-only log of whole records; tmp2 is overlaid byte by byte |
| Exit handlers and stdio | `25-chap/main.c` | stdio buffer and handler list per process, the output | atexit ×2, printf, fork, exit | fork copies buffer and handlers; failing calls; kills | text is written once per exiting process, in one piece, handlers reversed |
| SIGINT gate | `20-chap/main.c` | disposition, pending bit, `static uint8_t cnt` | ignore, sleep, catch, spin; handler: refuse three times, then `SIG_DFL` | Control-Cs are merged; early ones must not count; sigaction fails in the handler | announces the number of signals it takes; never dies earlier; a persistent user gets out |
| Set-user-ID credentials | `9-chap/main.c`, `9-chap/update-priv.sh` | owner and mode of the executable, real/effective/saved ids, supplementary groups | chown, chgrp, chmod ×2; setuid, setgid, setegid, seteuid; getgroups, getgrgid | order of the calls; order of the script's lines; start in the middle of the script; a group without an entry | ends with the same credentials for everybody, or fails at the first call; lists all groups |
| Process listing | `12-chap/main.c` | the pids that live, position in `/proc`, open status file | readdir, fopen, fgets loop, print | processes end, start and reuse pids at every point of the walk | a listing that ends is complete; only the user's processes are in it |
| Tree update and chroot | `18-chap/main/main.c` | directories, files, the walk, cwd, root | mkdir, fopen, nftw and its callback, chdir, chroot | kill and restart over leftovers; callback fails; results of fprintf and fclose that nobody looks at; files vanish during the walk | each file is marked at most once, nothing is overwritten, all files are updated |
| Synchronous and buffered writing | `13-chap/main.c` | page cache, disk, stdio buffer, file offset | open, write, fsync, close; fopen, setvbuf, fprintf ×4, fclose | a crash between write and fsync; a failed fsync that the kernel does not repeat; results of fprintf that nobody looks at; two functions that open the same file differently | what fsync confirmed survives; a returned `write_file()` has left everything on the disk; `print_file()` loses only its buffer |
| Timer callbacks | `23-chap/main.c` | timer, queued expiry, callback threads, clocks | timer_create, timer_settime, sleep, timer_delete; callback: read the clocks, print | an expiry or a callback under way when the timer is deleted; a late main(); failing calls that are only reported; a system time set by others | three callbacks, on time, and none after the deletion |
| Directory events | `19-chap/main.c` | inotify queue, read buffer, place in the batch | init, add_watch, read, walk through the batch | a buffer for one event; overflow; the watched directory removed; unchecked calls | nothing skipped, in order; read() never fails for want of room; the end of the watch is told |
| exec and system | `27-chap/exec`, `system`, `exercise-3` | stdio buffer of both processes, status of the child | fork, execl, `_exit`, waitpid, system | the text of a failed exec is lost in a file; the parent's lines come after the child's; SIGCHLD ignored | nothing is written twice; the parent says of the child what is true |
| Clock and calendar | `10-chap/main.c` | system clock, adjustment in progress | time, conversions, adjtime, usleep, gettimeofday, settimeofday | another program sets the clock between reading and setting, or replaces the adjustment | every jump counts; the adjustment is seen at work |

### Programs with little to model

`7-chap`, `6-chap` (heap, program break, environment: one thread printing addresses), `8-chap`,
`11-chap`, `14-chap` (straight-line calls whose results are printed), `15-chap` (file attributes),
`16-chap` and the remaining shell scripts (commands typed by hand). The compiled files named `main`,
`main.o` and the `*.geany` project files are not sources.

### How the parts interact

The programs do not call each other. Inside one program the interactions are: parent and child
through the process table (26), an open file description (24) or a copied buffer (25); main program
and signal handler through a global or static variable (26, 20); program and script through the
mode bits of a file (9); program and library callback (18); program and the rest of the system
through `/proc` (12), the file system (18, 19), the page cache (13) or the system clock (10, 23).

## 2. Modules and how they follow the code

    Children --+--> ReapSignalling --+--> Reaping_proofs             (both implement Reaper)
               +--> ReapWaiting -----+
    SharedOffset --+--> SharedOffset_proofs                          (implements AppendLog)
                   +--> MCForkedOutput
    ForkStdio -----+--> ForkStdio_proofs
    PageCache --> DurableWrite --> DurableWrite_proofs               (implements Durable)
    Clocks --+--> SetClock ------+
             +--> TimerThreads --+--> MCClocks --> Clocks_proofs     (their composition)
    DirEvents ---+--> MCEvents, Events_proofs
    SigintGate --+
    ProcScan ----+--> MCWalks, Walks_proofs
    TreeUpdate --+
    Credentials --> Credentials_proofs

Where one module of proofs or of runs is about two programs, the names of the two do not overlap (`Waiting...`,
`Offset...`, `Gate...`, `Tree...` in one of each pair), and every theorem speaks of one of them. In **MCForkedOutput**,
**MCEvents** and **MCWalks** `chapter` says which of the two is started; the other one stays in one initial state,
where what is said of it is trivially true, so that a run has the states of the two added and not multiplied. The two modules
on 26-chap share what is the same code, the table and `pc` and `i` of Children.

Each `pc` value names a place in a function; an action is what the function does from one place to
the next, as far as nobody else can see or disturb what lies between. Operators called `Mutant...`
stand directly before the definition they distort. They are plausible mistakes in the code
(a dropped test, a swapped call, an `if` for a `while`) used to see that a property can fail;
no specification uses them. Every module states the type invariant of its variables (`TypeOK`), for a
reader and for the proofs; the runs are kept for what could really go wrong.

**Children** is the kernel's process table for one parent: `ForkGives`, `ForkFails`, `ChildExits`
(a zombie, or nothing at all where SIGCHLD is ignored), `WaitReturns`, `NoChild` (ECHILD), and the
arithmetic of a `uint8_t`. Entries are reused, so `Pid` is the capacity of the table and not the
number of children ever started.

**Reaper** is the abstract specification of all three functions of 26-chap: start children, let them
end, collect them, and be done only when none is left. `Returns` is its liveness half.

**ReapSignalling** is `children_signalling()`. `i++` is the two steps `IncLoad` and `IncStore`, with
the handler allowed in between; a turn of the handler's loop is one step since the parent stands
still; `Exit` sets the single pending bit. `pausing` is the gap between the test of `i` and the
sleeping `pause()`. The history variable `calm` says that no call has failed and that no child has
exited before the loop of forks was over, which in the program only `sleep(3)` holds it from; it lets
one run speak about both the normal and every other execution.

**ReapWaiting** is `children_polling()` and `children_blocking()`, which share their loop of forks;
`method` is the one that `main()` calls. Polling: `TestTurn` (with its sleep), `PollReaps`,
`PollFindsNone`, `PollFails`. Blocking: `TestTurn`, `WaitReaps`, `WaitFails`. `failedForks` and `minusOnes` are
histories of the forks that failed and of the times that -1 was printed as a child; `Missing` is what
`waitpid()` can never return of the children that were counted.

**SharedOffset** keeps the files byte by byte, each byte known by its writer and its place in the
writer's record. `WriteTmp1` uses the one offset, `WriteTmp2` the writer's own. A `write()` may be
short or fail (both are ignored by the code); the history variable `torn` says on which file that
has happened. **AppendLog** is the abstract log that tmp1.txt is shown to be.

**ForkStdio** gives each process a buffer and a list of handlers that `Fork` copies. Four programs share
it, told apart by `program`: the one of 25-chap and the three of 27-chap. Nothing that 25-chap prints
contains a newline (its error texts end in `/n`), so nothing leaves the buffer before `exit()`, on a
terminal as in a file; what 27-chap prints is lines, which a terminal gets at once and a file at the end
(`PrintsLines`). `execl()` and `_exit()` throw the buffer away. `Command` is `ls`, or the shell of
`system()`; `status` is how the child has ended and `answer` what the parent is told of it: `WaitStatus` gives
the shell that could not be executed and the command that was not found the one value 127.

**SigintGate** has the disposition of SIGINT, the pending bit, the counter of the handler and where
the handler stands. `presses` and `delivered` are history counters that stop at `Cap`; `stuck` says
that `sigaction()` has failed in the handler. `KilledByLast` says what the gate does, `ThreeAttempts` what it
announces.

**Credentials** joins `update-priv.sh`, line by line, to `execve()` and the four set*id calls in
main.c. `faulted` says that a line of the script has failed; the script does not stop at one. A
change of owner or group takes the s-bits away, as chown(2) says of executables. `PrintGroup` is one
turn of the loop over `group_list`, while `DeleteEntry` takes entries out of `/etc/group`; a group
without one makes `getgrgid()` return the NULL that the program reads through.

**ProcScan** is `problem_12_1()` with `Spawn` and `Exit` of other processes between any two steps. An
open status file belongs to the process and not to its number. `stayed` and `seen` are histories of
which processes the user has run during the walk.

**TreeUpdate** is the whole main() of 18-chap with a walk that meets the files in any order,
failures at each call, `Kill` anywhere, `Unlink` by somebody else, `StartAgain` over what is
left and the `rm -rf dir/` that the head of the file asks for (`Clean`). What `fprintf()` has put into the
buffer gets into the file with `fclose()` (`Closes`) or, on a full disk, does not (`CloseFails`), and the code
looks at neither. `stopped` says that the callback has failed in the present run, `lost` which files have missed
their mark.

**PageCache** is one file as the kernel keeps it: in memory, on the disk, and which cells are still to be
written. Cells reach the disk one by one in any order; a failed `fsync()` leaves cells clean that never
got there; `Evict` drops a clean cell so that the next reader sees the disk. **DurableWrite** lets
`main()` call `write_file()` (as it does) or `print_file()` (for which the code says how to change it),
any number of runs up to `MaxRuns`, over the same file, with `Kill` and `PowerFails` anywhere. `confirmed`
is the history of records whose `fsync()` has returned 0; `dropped` says that a write or the power has
failed under the open `print_file()`. **Durable** is the abstract promise of `fsync()`.

**DirEvents** has the kernel's queue (an event equal to the last one is merged with it; a full queue takes
one overflow event and drops the rest), the buffer of one `read()`, and the walk through it, `idx` being the
code's `buf_idx`. Sizes are kept in a small scale, header 1 and longest name 1 with its final 0, so that
the buffer has exactly the room that the code gives it. An `idx` that is not the beginning of an event makes
the program see `garbage`. `before` is the history of how many events had been read when the directory was
removed. `Bytes` names each byte of a batch, so that its size is a number of elements;
`Runs` numbers the stretches of equal events, so that two sequences have the same runs exactly if they
differ in repetitions only.

**Clocks** is CLOCK_MONOTONIC, CLOCK_REALTIME and the adjustment of `adjtime()`; one unit of time is a
second. **SetClock** is 10-chap for several processes: `disturbed` says that another process has changed
the clock since a process last looked at it; `jumped` are the processes that have set it, `overlapped` those that were between
their reading and their setting at the same time as another one (`Overlaps`), and `late` the time that all of them
took from reading to setting. **TimerThreads** is 23-chap: `Expire` queues the signal of an expiry (or merges it with
the queued one), `StartCallback` is the library's helper thread, and each callback reads two clocks and
prints. Nothing makes a thread run at once: `lag` counts the seconds that passed while one could have run.
**MCClocks** puts the timer and the programs that set the clock on one system.

## 3. Runs

Passing runs:

| Run | Module | Distinct states | Bounds | What it shows |
|---|---|---|---|---|
| `sig_race` | ReapSignalling | 4,495 | 3 children, table of 4 | `NeverUndercounts`, `ExactCount` while calm, `Implements` (Reaper), `ZombiesAreCollected`, `OnlyHang` |
| `waiting` | ReapWaiting | 929 | 3 children, table of 4 | `ErrorOnlyIfMiscounted`, `MissingShown`, `WaitingImplements`, `WaitingCompletes` |
| `forked_output` | MCForkedOutput | 1,081,954 | SharedOffset: 2 records per process of 3 and 2 bytes, old files of 0 or 7 bytes; ForkStdio: none | `IntelligentOutput`, `Tmp2IsOverlaid`, `ImplementsLog` (24-chap); `MainPerExit`, `WholeTranscripts` (25-chap), `LinesInOrder` (27-chap) |
| `events` | MCEvents | 58,136 | DirEvents: a queue of 3, 5 events and the removal; SigintGate: history counters up to 8 | `NothingSkipped`, `CatchesUp`, `RemovalIsTold` (19-chap); `KilledByLast`, `NoEarlierPressCounts`, `UserEndsIt` (20-chap) |
| `creds` | Credentials | 22,172 | users root, owner, target, and one more; 2 groups | `EndsDropped`, `OnlySetuidFails`, `ArmedWorks`, `GroupsListed` |
| `walks` | MCWalks | 40,512 | ProcScan: 3 pids, 2 users; TreeUpdate: 2 runs of the program | `CompleteToItsEnd`, `OnlyUsers`, `Ends` (12-chap); `MarkedOnce`, `UpdatedUnlessLost`, `NothingDestroyed` (18-chap) |
| `durable` | DurableWrite | 141,075 | 2 records of 2 pieces, a buffer of 2, a file of 5, 3 runs | `ReturnedIsStored`, `LosesOnlyTheBuffer`, `ImplementsDurable`, `PrintedIsStoredAtLast` |
| `clocks` | MCClocks | 4,482,465 | 2 setters, 17 seconds with the timer and 5 without, lag of 2 | `SlewingIsSeen`, `LostOnlyToOverlap`, `ThreeThenNone`, `OnTime` |

Four runs refute what the repository says; each has only the faults that it needs:

| Run | Property | What happens |
|---|---|---|
| `sig_hang` | `Completes` | The parent sees `i > 0`; the last SIGCHLD is handled before it is in `pause()`; it sleeps for ever with `i = 0` and no child. `sigsuspend()` with SIGCHLD blocked around the test would close the gap. |
| `system_shell` | `ShellVerdict` | The shell runs and does not find `ls`: its 127 is reported as "Shell unable to be executed!" (27-chap/system, main.c:17). |
| `sigint_attempts` | `ThreeAttempts` | "3 attempts required" (20-chap, main.c:44), but the fourth signal only puts the default back and the fifth one kills. |
| `tree_full` | `AllUpdated` | On a full disk `fprintf()` and `fclose()` fail unseen (main.c:37), and an unmarked file is taken for an updated one. |

`UpdatedUnlessLost` is what remains true of the last one: which files may be unmarked.

Further disagreements that were met and have no run of their own, since reading the line is enough or a passing
property says how far the claim holds:

- 26-chap, "wait for all chilren to complete" (main.c:166): `children_signalling()` hangs in two more ways. A fork that
  failed is counted like a child (main.c:148), and an `i--` of the handler between the load and the store of `i++`
  (main.c:143) is overwritten; both leave `i > 0` for ever. `NeverUndercounts` says that the counter goes wrong in
  this direction only, and `calm` keeps both out of `ExactCount` and `OnlyHang`.
- 27-chap/system: every status but -1 and 127 is reported as "Success" (main.c:21), that of an `ls` that failed included.
- 18-chap: the callback's `EXIT_FAILURE` is 1 and ends the walk; main() compares with -1 (main.c:87) and goes on with
  files unmarked, against the comment "update all file contents" (main.c:85). `UpdatedUnlessLost` speaks of the
  walks whose callback has always returned 0.
- 10-chap, "a jump of system time 1 minute into the future" (main.c:163): when two copies have read the time, the second
  one to set it undoes the minute of the first. `LostOnlyToOverlap` says which minutes may be lost.
- 9-chap: "Saved user-ID" (main.c:109) prints `geteuid()`, and the next line `getegid()`, although
  `getresuid()` and `getresgid()` have just filled `suid` and `sgid`; the comment at main.c:85 says "Print
  the saved user-ID and group-ID".
- 12-chap: a process that ends between `readdir()` and `fopen()` makes the program return (main.c:62) and
  leave out all later ones; the comment at main.c:9 says "all processes". `CompleteToItsEnd` says what a
  listing has up to there.
- 26-chap: polling and blocking report errors for a failed fork (`ErrorOnlyIfMiscounted` says exactly when).
- 12-chap shows a user whose number is 10 the nameless processes of others, because `proc_uid` starts as 10
  (`OnlyUsers` fails for `User = 10`, and the theorem `Sound` excludes that number).
- 24-chap opens tmp1.txt without `O_TRUNC` and 13-chap its file in `write_file()`: both keep the tail of a
  longer old file, which the models have and the properties are worded for.

### Why the bounds are enough

- *26-chap.* Three children is the code's own number. A table of four has room for a child started
  because an earlier one has been reaped before it was counted, and for a full table, which is one of
  the reasons why a fork fails. The safety properties are proved for every number up to 254 and
  every finite table. When not calm, the loop of forks can run for ever: each child is reaped between
  its fork and the `i++`, which undoes the count. Thus `OnlyHang` speaks of the calm executions.
- *24-chap.* Records of 3 and 2 bytes have the ratio of the code's 6 and 4; two records per process
  make every order of two writers on one record, and an old file of 7 bytes ends within the log. What is
  said of the two files is proved for every number and length.
- *25-chap and 27-chap* need no bound: the programs are finite, and their run has all calls that may fail, so
  that TLC sees every execution. *20-chap* has the code's three refusals; the history counters stop
  at 8, three beyond the signal that kills, and the properties do not read them beyond that. They are
  proved for every number of refusals up to 254.
- *9-chap* needs root, the owner, the target and one user who is none of them; a list of up to two groups
  has one that is whole before one that has lost its entry. All four properties are proved for all of them.
- *12-chap.* Three pids: one behind, one at and one before the position of the walk. Completeness
  and soundness are proved for every finite set of pids.
- *18-chap.* The tree is the code's. Two runs show a run over what one killed run has left; a third
  starts from no state that a second one cannot start from. The properties are proved for every number of runs.
- *13-chap.* Two records make one that is confirmed and one that is not; a buffer of two of the four pieces is flushed in
  the middle and by `fclose()`; the fifth cell keeps the tail of an older text. Three runs have a `write_file()`
  over what an earlier one and a `print_file()` have left. The safety properties are proved for every size.
- *19-chap.* The largest event is exactly as large as the buffer, and three events without a name fit into it
  together. A queue of three holds one full batch of these or several batches; five events and the removal
  fill it while a batch is being printed and overflow it. `NothingSkipped` is proved for every queue and every
  number of events.
- *10-chap and 23-chap.* An interval of 3 and a sleep of 3 * 3 + 1 keep the code's relation of 4 and
  3 * 4 + 1: the sleep ends one second behind the third expiry; the first sleep (1 for 2.5) and the last one
  (4 for 5, longer than an interval) change no order. 17 seconds are those sleeps and the lag. Half a second is
  3 units of adjustment and is watched for 2, as the code watches 1000 for 4. Two setters are the least that
  get in each other's way; they run alone, and one of them beside the timer, started while it runs. A lag of 2 lets main() be late
  by the two seconds that are missing to the fourth expiry, where `ThreeThenNone` no longer promises three.
  All four properties are proved for every number of setters, interval, sleep, lag and time.

### Fairness

Weak fairness of the program's own steps (`Main`, `Program`): the scheduler runs a runnable process.
Weak fairness of `Deliver` and `Handler`: the kernel delivers a pending, unblocked signal and runs
its handler. Weak fairness of each child's `Exit`: a `sleep()` ends. In ReapSignalling these are
separate since the parent cannot run while its handler does. `Press` is fair only in `UserEndsIt`,
as the hypothesis "a user who goes on typing". Weak fairness of `Writeback` in DurableWrite: the kernel
writes every dirty page some time; the program itself is not fair there. DirEvents is fair for `Program`
only: nobody has to use the directory. Nothing else is assumed: no failure is bound to happen or to stop
happening, so `UserEndsIt` and `OnlyHang` name the failures that they exclude. Deadlock is checked except
where the system really may stop: in ReapSignalling (the parent sleeps for ever), MCEvents (the program of 19-chap
waits for events that nobody causes) and MCClocks (all programs have ended).

## 4. Proofs

All theorems are checked by TLAPS for every value of the constants that the named assumptions allow, and
every invariant, every action property and every refinement of the passing runs is one of them. The assumptions
are: `Pid` finite (and not empty in Children), `NumKids` in 1..254 and `Nopes` at most 254 (at 255 a `uint8_t`
counter would meet its wrap), pids that are positive numbers, users that are numbers, records, buffers and
queues that are not empty, a file with room for the text, an adjustment that takes longer than it is watched
(in the code 1000 seconds and 4), and any subset of each module's `Faults`. `TimerAssumption` asks for
`LetRun % Interval # 0`: the sleep of 23-chap does not end together with an expiry (13 seconds are not a
multiple of 4). If it did, the last callback and `timer_delete()` would be due in the same second, and
which comes first would be the scheduler's choice, so that no number of callbacks could be promised.

**Reaping_proofs** (26-chap). First the lemmas on the process table: what fork, exit and waitpid do to the
number of unreaped children, and when the byte counter does not wrap.

For `children_signalling()`, `Inductive` proves `IInv = TypeOK /\ NeverUndercounts /\ Room /\ Steady`.
`NeverUndercounts` bounds the unreaped children by `Counted`, what the counter will be once the `i++`
in progress has been stored; without that the state between fork and store breaks it. It is not
inductive alone: the fork needs `Room` (the counter was below `NumKids` at the test, and handlers only
lower it), and the reaping step needs that there was a child, so that `i--` does not wrap, except
while an `i++` is pending, where `Inc8(Dec8(i))` is computed modulo 256. `Steady` says that while
all is calm the handler is installed and finds no zombie before the loop of forks is over, so the
count is exact. From it follow `TypeCorrect`, `NoUndercount`, `FewChildren` (at most `NumKids` at
a time), `Exact` and `Refinement`: every step is a step of Reaper, the only interesting one being
`Check`, which leaves with `i = 0` and so with no child.

For polling and blocking, `WaitingIInv = WaitingTypeOK /\ Bounded /\ Turns /\ Ends /\ Accounts`: the counter lies
between the unreaped children and `NumKids`; a turn of a loop begins with `i > 0`; a return finds no child; and what
the counter has beyond the unreaped children is exactly the failed forks whose -1 has not been printed yet, or, where
SIGCHLD is ignored, all that was counted and not printed (`Accounts`). From it: `WaitingTypeCorrect`,
`ErrorsExplained`, `MissingAccounted`, `WaitingRefinement`.

**SharedOffset_proofs** (24-chap). The lemma `OverwriteGives` says byte by byte what a write at an offset inside
the file leaves; `LogGrows` uses it for a write through the shared description, `WriteOverlays` for one through
the writer's own. `IInv = TypeOK /\ InTurn /\ Childless /\ IntelligentOutput /\ Tmp2Offsets /\ Tmp2IsOverlaid`:
the offset stays inside the file, so the new bytes join the log; `RecordsIntact` is inductive for a whole record
behind whole records (`RecordAdded`); `NoneLost` needs `Childless`, without which the fork could count the
child's turn twice; and a byte of tmp2.txt can be named by its place only because each offset stands at a whole
number of records (`Tmp2Offsets`). From it: `TypeCorrect`, `Intelligent`, `Overlaid`, and `Refinement`: tmp1.txt
up to the shared offset is an AppendLog, also where writes are short.

**ForkStdio_proofs** (25-chap and 27-chap). The invariant follows each text from the place where it is printed,
through the buffer, to the file. `Base` has types and the places that each program has. For 27-chap, `ReachInv`
says that the parent has an answer only about a child that has ended (`Answered`), that nothing
is said before its place in the program (`Spoken`), that nothing is in the file and in the buffer at once
(`Once`), and where the child's line stands (`Ordered`); for 25-chap, `ExitInv` counts the word written before
the fork and says of each process what of its word and handlers waits in its buffer (`Words`) and what it has
written in one piece (`Wrote`). From them: `TypeCorrect`, `OncePerExit`, `InOnePiece`, `InOrder`. These
programs are finite, and `forked_output` allows every fault: here the run is exhaustive too, and what the proof adds
is why the properties hold. It holds for each subset of the faults separately.

**DurableWrite_proofs** (13-chap). `IInv` adds to types and places: a confirmed cell is on the disk and what the
kernel may still write over it is the same text (`Kept`, which is why a second `write_file()` without `O_TRUNC` can do
no harm); a record that waits for `fsync()` is in memory and dirty, or already on the disk (`Written`, which makes
`fsync()` confirm the truth); what has been counted has been confirmed (`Counted`); under an open `print_file()`
nothing is promised (`Emptied`). A second invariant, `Printed`, says that while no write and no power has failed
the file is the text up to the offset and the buffer the text behind it. From them: `TypeCorrect`,
`Returned`, `OnlyBufferLost`, and `Refinement`: every step of program, kernel and power failure is a step of Durable.

**Events_proofs** (19-chap and 20-chap). For the directory, `DirInv` says that the index is the number of bytes of
the events printed so far (`At`), and that what is printed, buffered and queued tells what has happened (`Told`).
`NothingSkipped` is not inductive: an event is merged with the last one in the *queue*, so `Told` has to know the
last event of both sequences and the number of their runs. A step that moves events from the queue to the buffer or
from the buffer to the print leaves their concatenation as it is (`BatchFits`, `FillGrows`). From it:
`TypeCorrect`, `AllIsTold`, and `RoomForOne`: the program ends only for want of a descriptor, never because
an event does not fit into the buffer. For the gate, `GateInv` ties the handler's counter to the number of signals
delivered since the handler was installed, and says that a pending signal of before cannot outlive the ignoring.
From it: `GateTypeCorrect`, `GateHolds`, `NotCharged`.

**Walks_proofs** (12-chap and 18-chap). For the listing, the invariant says that every process that has stayed and
whose pid the walk has passed is listed, the one at the position being listed at the latest when the walk moves on;
and that what is listed had been seen. From it: `TypeCorrect`, `Complete`, `Sound` (for `User # 10`). For the tree,
`Building` says that files need both directories, so that a run that gets them to make finds no file of an earlier
run; `Creating` that the files from the present one on are not there, which is why `fopen("w")` empties none;
`Marking` that what the walk has still to meet has no mark, and `Marked` that what it has met has one unless a
callback has failed or its mark was lost. From it: `TreeTypeCorrect`, `TreeMarkedOnce`, `TreeUpdatedUnlessLost`,
`TreeNothingDestroyed`.

**Clocks_proofs** (10-chap and 23-chap on one system). `SetterInv` says of an undisturbed adjustment that what is left
of it is what the seconds since then have not yet done (`Slewing`); that a process about to set the clock has read
the present offset if nobody overlaps with it, and else one that has the minutes of all who have jumped without an
overlap (`About`); and that nobody jumps twice (`Once`). `TimerInv` says how the timer fits the place of
main() (`Stage`), that the next expiry is the multiple of the interval that follows the callbacks started or queued,
and how late main() and they can be (`Timing`, `Shown`), and what there is at the end if nothing is late (`Silent`).
No setter moves CLOCK_MONOTONIC and no step of the timer's program moves the clock, so each half keeps the
other's invariant. From them: `TypeCorrect`, `AdjustmentIsSeen`, `NoMinuteLostAlone`, `CallbacksCounted`, `CallbacksOnTime`.

**Credentials_proofs** (9-chap). `Calls` says what is known before each of the four calls: after `execve()` the
effective identifier is the saved one, and between `setuid(0)` and `seteuid()` the effective user is root,
so that no call in between can fail; that is `OneCallFails`, and `PrivilegeDropped` is what the last call
leaves. `Listing` says that the groups printed are the beginning of `group_list`; deleting entries can only
make the crash it explains more likely (`ListingComplete`). `WorksForEverybody` proves the nested formula
`ArmedWorks` in two parts: `Armed`, an invariant, says what each line of a script without a fault finds, and `Works`,
which holds at its end, is kept by every step from there on.

Only model-checked is what speaks of the future: `WaitingCompletes`, `ZombiesAreCollected`, `OnlyHang`, `UserEndsIt`,
`Ends`, `PrintedIsStoredAtLast`, `CatchesUp` and `RemovalIsTold`, whose proofs need the rules of fairness and ENABLED,
which TLAPS does not have here. The properties of the refuting runs are false, and nothing is proved of them.

## 5. What is left out

- Text, layout and return codes of the programs, except where a property is about what is printed.
- stdio inside a signal handler (26, 20) or shared by callback threads (23): in a handler `printf()` is not
  async-signal-safe and what happens when it interrupts another `printf()` is undefined; the models follow
  the variables, not the text.
- An inherited signal mask: the models assume that SIGCHLD and SIGINT are not blocked at the start.
- Fields of `struct sigaction` that the code does not set: see the heads of the two modules, where the
  reason is given why no value of them changes anything modelled.
- 18-chap: the text that `readlink()` leaves without a terminator in its buffer; it can be seen by reading the
  line, and nothing in the repository says what should be printed. `dirname()` and the prints behind the walk.
- 10-chap: the conversions of a time that has been read, which only print; microseconds of the clocks.
- 13-chap: the directory entry that `O_CREAT` makes, which the program never synchronizes: by POSIX a power failure
  may lose it with the file, the usual Linux file systems write it with the file's first `fsync()`, and the model
  keeps it.
- 12-chap: the batches in which the C library fetches directory entries. The model's `readdir()` names a process that
  is alive; a real one may name one that has ended since the batch was fetched, which is to the program the same as
  one that ends before `fopen()`.
- 9-chap: error returns of the calls that only read identifiers, which do not fail there.
- 18-chap: a text of which `fclose()` writes a part. The texts are shorter than a block, and are written or not.
- 13-chap: `O_SYNC`, `_IOLBF`, `_IONBF` and `fflush()`, which are comments in the code and not calls.
- 19-chap: the sixteen masks by name; cookies and the descriptor `wd`, which the program does not use.
- Not modelled at all, for want of anything but calls in a straight line whose results are printed:
  7-chap and 6-chap (addresses that the allocator and the loader choose), 8-chap, 11-chap and 14-chap (passwd
  entries, limits, a remount), 15-chap (a file's attributes before and after one call) and the shell
  exercises. They keep no state of their own, have no second actor and no order that matters.

## 6. What could be added

- The buffer of `readlink()` in TreeUpdate, as a map from places to the writer of each byte.
