----------------------------- MODULE ForkStdio ------------------------------
(***************************************************************************)
(* Four programs that print to stdout around a fork() or an exec():        *)
(*                                                                         *)
(*   "exit"        25-chap/main.c registers two exit handlers, prints,     *)
(*                 forks, and both processes print and call exit(0)        *)
(*   "exec"        27-chap/exec/main.c prints, forks, executes "ls -l" in  *)
(*                 the child and waits for it                              *)
(*   "system"      27-chap/system/main.c lets system() do the same         *)
(*   "exercise-3"  27-chap/exercise-3/main.c executes a script in place    *)
(*                 of itself                                               *)
(*                                                                         *)
(* What is printed stays in the stdio buffer of its process until exit()   *)
(* writes it out, with one write(); on a terminal it stays there only as   *)
(* long as no newline is printed.  Nothing that 25-chap prints holds a     *)
(* newline (its error messages end in "/n"); all that 27-chap prints does. *)
(* fork() copies the buffer and the list of exit handlers, exec() and      *)
(* _exit() throw them away.                                                *)
(***************************************************************************)
EXTENDS Integers, Sequences, FiniteSets, SequencesExt

CONSTANT
  Faults      \* what may fail or happen: "atexit", "fork", "exec", "ls", "kill"

Proc == {"parent", "child"}

ASSUME FaultsAssumption == Faults \subseteq {"atexit", "fork", "exec", "ls", "kill"}

VARIABLES
  program,    \* which of the programs runs
  tty,        \* whether stdout is a terminal
  ignored,    \* whether SIGCHLD was ignored when the program was started
  pc,         \* where each process stands
  buf,        \* the stdio buffer of each process
  handlers,   \* the exit handlers of each process, in order of registration
  left,       \* how many of them exit() has still to call
  out,        \* what has been written to the terminal or file
  status,     \* how the child has ended
  answer      \* what waitpid() or system() has told the parent

setting == <<program, tty, ignored>>
family  == <<status, answer>>
vars    == <<setting, pc, buf, handlers, left, out, family>>

Handler == {"exit handler_1", "exit handler_2"}
Message == {"main", "ERROR: atexit 1", "ERROR: atexit 2", "ERROR: fork"}
AnswerLine == {"Child complete", "Child complete: -1", "Error: Child process failure",
               "Error: Shell unable to be executed", "Success"}
ChildLine  == {"listing", "Error: execl()"}
Line       == AnswerLine \cup ChildLine \cup
              {"Application Start", "Error: fork()", "Child created",
               "Wait for child", "Application Finished"}
Text       == Message \cup Proc \cup Handler \cup Line

TypeOK ==
  /\ program \in {"exit", "exec", "system", "exercise-3"}
  /\ tty \in BOOLEAN
  /\ ignored \in BOOLEAN
  /\ pc \in [Proc -> {"unborn", "atexit1", "atexit2", "main", "fork", "print",
                      "start", "created", "wait", "waitpid", "complete",
                      "exec", "command", "exit", "exited", "killed"}]
  /\ buf \in [Proc -> Seq(Text)]
  /\ handlers \in [Proc -> Seq(Handler)]
  /\ left \in [Proc -> Nat]
  /\ \A p \in Proc : left[p] <= Len(handlers[p])
  /\ out \in Seq(Text)
  /\ status \in {"none", "0", "failed", "no_shell", "no_command", "killed"}
  /\ answer \in {"none", "-1", "0", "failed", "127", "killed"}

\* The first line of each main().
Entry ==
  [x \in {"exit", "exec", "system", "exercise-3"} |->
     CASE x = "exit"       -> "atexit1"
       [] x = "exercise-3" -> "exec"
       [] OTHER            -> "start"]

Init ==
  /\ program \in DOMAIN Entry
  /\ tty \in BOOLEAN
  /\ ignored \in BOOLEAN
  /\ pc = [p \in Proc |-> IF p = "parent" THEN Entry[program] ELSE "unborn"]
  /\ buf = [p \in Proc |-> <<>>]
  /\ handlers = [p \in Proc |-> <<>>]
  /\ left = [p \in Proc |-> 0]
  /\ out = <<>>
  /\ status = "none"
  /\ answer = "none"

Goto(p, a, b) ==
  /\ pc[p] = a
  /\ pc' = [pc EXCEPT ![p] = b]

\* printf() without a newline.
Prints(p, text) == buf' = [buf EXCEPT ![p] = Append(@, text)]

\* printf() of lines: on a terminal they are written at once.
PrintsLines(p, lines) ==
  IF tty THEN /\ out' = out \o lines
              /\ UNCHANGED buf
         ELSE /\ buf' = [buf EXCEPT ![p] = @ \o lines]
              /\ UNCHANGED out

\* atexit(h): registers h, or prints the error and goes on.
AtExit(h, error) ==
  \/ /\ handlers' = [handlers EXCEPT !["parent"] = Append(@, h)]
     /\ left' = [left EXCEPT !["parent"] = @ + 1]
     /\ UNCHANGED buf
  \/ /\ "atexit" \in Faults
     /\ Prints("parent", error)
     /\ UNCHANGED <<handlers, left>>

Register1 ==
  /\ Goto("parent", "atexit1", "atexit2")
  /\ AtExit("exit handler_1", "ERROR: atexit 1")
  /\ UNCHANGED <<setting, out, family>>

Register2 ==
  /\ Goto("parent", "atexit2", "main")
  /\ AtExit("exit handler_2", "ERROR: atexit 2")
  /\ UNCHANGED <<setting, out, family>>

PrintMain ==
  /\ Goto("parent", "main", "fork")
  /\ Prints("parent", "main")
  /\ UNCHANGED <<setting, handlers, left, out, family>>

PrintStart ==
  /\ Goto("parent", "start", "fork")
  /\ PrintsLines("parent", <<"Application Start">>)
  /\ UNCHANGED <<setting, handlers, left, family>>

\* Where the two processes go on after the fork.
AfterFork ==
  [exit   |-> [parent |-> "print", child |-> "print"],
   exec   |-> [parent |-> "created", child |-> "exec"],
   system |-> [parent |-> "waitpid", child |-> "exec"]]

\* Mutant: the child starts with an empty buffer.
MutantFork ==
  /\ pc["parent"] = "fork"
  /\ pc' = [p \in Proc |-> AfterFork[program][p]]
  /\ handlers' = [p \in Proc |-> handlers["parent"]]
  /\ left' = [p \in Proc |-> left["parent"]]
  /\ UNCHANGED <<setting, buf, out, family>>

Fork ==
  /\ pc["parent"] = "fork"
  /\ pc' = [p \in Proc |-> AfterFork[program][p]]
  /\ buf' = [p \in Proc |-> buf["parent"]]
  /\ handlers' = [p \in Proc |-> handlers["parent"]]
  /\ left' = [p \in Proc |-> left["parent"]]
  /\ UNCHANGED <<setting, out, family>>

\* 25-chap prints an error and exits, 27-chap/exec prints one and goes on;
\* system() returns -1.
ForkFails ==
  /\ "fork" \in Faults
  /\ \/ /\ program = "exit"
        /\ Goto("parent", "fork", "exit")
        /\ Prints("parent", "ERROR: fork")
        /\ UNCHANGED <<out, answer>>
     \/ /\ program = "exec"
        /\ Goto("parent", "fork", "wait")
        /\ PrintsLines("parent", <<"Error: fork()">>)
        /\ UNCHANGED answer
     \/ /\ program = "system"
        /\ Goto("parent", "fork", "complete")
        /\ answer' = "-1"
        /\ UNCHANGED <<buf, out>>
  /\ UNCHANGED <<setting, handlers, left, status>>

\* Mutant: stdout is not buffered.
MutantPrintSelf(p) ==
  /\ Goto(p, "print", "exit")
  /\ out' = Append(out, p)
  /\ UNCHANGED <<setting, buf, handlers, left, family>>

\* Each side of the switch of 25-chap.
PrintSelf(p) ==
  /\ Goto(p, "print", "exit")
  /\ Prints(p, p)
  /\ UNCHANGED <<setting, handlers, left, out, family>>

-----------------------------------------------------------------------------
\* 27-chap: the process p becomes another program.
ExecSucceeds(p) ==
  /\ Goto(p, "exec", "command")
  /\ buf' = [buf EXCEPT ![p] = <<>>]
  /\ UNCHANGED <<setting, handlers, left, out, family>>

\* Mutant: the child of 27-chap/exec calls exit(0) in place of _exit(0).
MutantExecFails ==
  /\ "exec" \in Faults
  /\ program = "exec"
  /\ Goto("child", "exec", "exit")
  /\ PrintsLines("child", <<"Error: execl()">>)
  /\ UNCHANGED <<setting, handlers, left, family>>

\* The child of 27-chap/exec prints an error and calls _exit(0), which does
\* not write its buffer; the child of system() calls _exit(127).
ExecFails ==
  /\ "exec" \in Faults
  /\ Goto("child", "exec", "exited")
  /\ \/ /\ program = "exec"
        /\ status' = "0"
        /\ out' = IF tty THEN Append(out, "Error: execl()") ELSE out
     \/ /\ program = "system"
        /\ status' = "no_shell"
        /\ UNCHANGED out
  /\ buf' = [buf EXCEPT !["child"] = <<>>]
  /\ UNCHANGED <<setting, handlers, left, answer>>

\* 27-chap/exercise-3 prints an error and returns.
ExecScriptFails ==
  /\ "exec" \in Faults
  /\ program = "exercise-3"
  /\ Goto("parent", "exec", "exit")
  /\ PrintsLines("parent", <<"Error: execl()">>)
  /\ UNCHANGED <<setting, handlers, left, family>>

\* The command writes what it has to say and ends, with another exit value if
\* it fails; a shell that does not find the command ends without a word to
\* stdout.
Command(p) ==
  /\ Goto(p, "command", "exited")
  /\ \/ /\ out' = Append(out, "listing")
        /\ status' \in {"0"} \cup {x \in {"failed"} : "ls" \in Faults}
     \/ /\ {"ls", "exec"} \subseteq Faults
        /\ program = "system"
        /\ status' = "no_command"
        /\ UNCHANGED out
  /\ UNCHANGED <<setting, buf, handlers, left, answer>>

PrintCreated ==
  /\ Goto("parent", "created", "wait")
  /\ PrintsLines("parent", <<"Child created">>)
  /\ UNCHANGED <<setting, handlers, left, family>>

PrintWait ==
  /\ Goto("parent", "wait", "waitpid")
  /\ PrintsLines("parent", <<"Wait for child">>)
  /\ UNCHANGED <<setting, handlers, left, family>>

Ended(p) == pc[p] \in {"unborn", "exited", "killed"}

\* What waitpid() tells of a child that has ended: the value 127 is that of
\* the child of system() that could not execute the shell, and of a shell that
\* has not found its command.
WaitStatus == IF status \in {"no_shell", "no_command"} THEN "127" ELSE status

\* waitpid() returns once no child is left that runs: with the child, or with
\* -1 where there has been none or the kernel has discarded it.
WaitPid ==
  /\ Ended("child")
  /\ Goto("parent", "waitpid", "complete")
  /\ answer' = IF pc["child"] = "unborn" \/ ignored THEN "-1" ELSE WaitStatus
  /\ UNCHANGED <<setting, buf, handlers, left, out, status>>

\* What the parent prints of the answer.
Verdict ==
  CASE program = "exec" /\ answer = "-1"    -> "Child complete: -1"
    [] program = "exec" /\ answer # "-1"    -> "Child complete"
    [] program = "system" /\ answer = "-1"  -> "Error: Child process failure"
    [] program = "system" /\ answer = "127" -> "Error: Shell unable to be executed"
    [] OTHER                                -> "Success"

Complete ==
  /\ Goto("parent", "complete", "exit")
  /\ PrintsLines("parent", <<Verdict, "Application Finished">>)
  /\ UNCHANGED <<setting, handlers, left, family>>

-----------------------------------------------------------------------------
\* exit() calls the handlers, the last registered first.
RunHandler(p) ==
  /\ pc[p] = "exit"
  /\ left[p] > 0
  /\ Prints(p, handlers[p][left[p]])
  /\ left' = [left EXCEPT ![p] = @ - 1]
  /\ UNCHANGED <<setting, pc, handlers, out, family>>

\* exit() writes the buffer out, and the process ends.
Flush(p) ==
  /\ Goto(p, "exit", "exited")
  /\ left[p] = 0
  /\ out' = out \o buf[p]
  /\ buf' = [buf EXCEPT ![p] = <<>>]
  /\ UNCHANGED <<setting, handlers, left, family>>

\* A signal kills the process before it has ended.
Kill(p) ==
  /\ "kill" \in Faults
  /\ ~Ended(p)
  /\ pc' = [pc EXCEPT ![p] = "killed"]
  /\ status' = IF p = "child" THEN "killed" ELSE status
  /\ UNCHANGED <<setting, buf, handlers, left, out, answer>>

\* No process of the program is left.
Terminated ==
  /\ \A p \in Proc : Ended(p)
  /\ UNCHANGED vars

Next ==
  \/ Register1 \/ Register2 \/ PrintMain
  \/ PrintStart
  \/ Fork
  \/ ForkFails
  \/ ExecFails \/ ExecScriptFails
  \/ PrintCreated \/ PrintWait \/ WaitPid \/ Complete
  \/ \E p \in Proc :
       \/ PrintSelf(p)
       \/ ExecSucceeds(p) \/ Command(p)
       \/ RunHandler(p) \/ Flush(p)
       \/ Kill(p)
  \/ Terminated

Spec == Init /\ [][Next]_vars

-----------------------------------------------------------------------------
\* How often x occurs in s.
Times(x, s) == Cardinality({k \in DOMAIN s : s[k] = x})

Flushed == {p \in Proc : pc[p] = "exited"}

\* 25-chap, "stdio buffers are copied when forking a child": what was printed
\* before the fork is written once by every process that leaves through exit().
MainPerExit == program = "exit" => Times("main", out) = Cardinality(Flushed)

\* 25-chap, "Exit handlers are executed in the reverse order": each process
\* writes its text in one piece, from its own word to the last of its handlers,
\* the last registered first; no word of the other process comes in between,
\* and a process that was killed has left no word at all.
Transcript(p) == <<p>> \o Reverse(handlers[p])
WholeTranscripts ==
  program = "exit" => \A p \in Proc :
    /\ Contains(out, p) => p \in Flushed
    /\ \A x \in 1 .. Len(out) : out[x] = p =>
         SubSeq(out, x, x + Len(handlers[p])) = Transcript(p)

\* 27-chap: nothing is written twice, neither by the copy of the buffer that
\* the child has.  On a terminal the child speaks after the start and before
\* the verdict on it; in a file its listing is above everything the parent has
\* printed, and the error of a failed execl() is missing.
LinesInOrder ==
  program \in {"exec", "system"} =>
    /\ IsInjective(out)
    /\ \A x \in 1 .. Len(out) : out[x] \in ChildLine =>
         IF tty THEN x > 1 /\ \A y \in 1 .. x : out[y] \notin AnswerLine
                ELSE x = 1 /\ out[x] = "listing"

\* 27-chap/system, "Error: Shell unable to be executed!": printed only of a
\* child that could not execute the shell.
ShellVerdict ==
  Contains(out, "Error: Shell unable to be executed") => status = "no_shell"
=============================================================================
