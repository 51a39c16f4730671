------------------------------ MODULE Children ------------------------------
(***************************************************************************)
(* The kernel's side of 26-chap/main.c: the process-table entries of one   *)
(* parent's children, as fork, _exit and waitpid(-1, ...) change them.     *)
(* The three ways in which that file waits for its children (polling,      *)
(* blocking, signalling) are state machines over these operators.          *)
(*                                                                         *)
(* An entry is reused once its child has been reaped, so Pid is the        *)
(* capacity of the table (RLIMIT_NPROC) and not a bound on how many        *)
(* children are started in the life of the parent.                         *)
(***************************************************************************)
EXTENDS Integers, FiniteSets

CONSTANTS
  Pid,       \* the process identifiers the kernel can give to children
  NumKids,   \* the children the program starts (3 in the code)
  Faults     \* the system calls that may fail without a visible reason

ASSUME PidAssumption == IsFiniteSet(Pid) /\ Pid # {}
\* The counters are uint8_t; 255 itself is what 0 wraps to.
ASSUME NumKidsAssumption == NumKids \in 1 .. 254
ASSUME FaultsAssumption == Faults \subseteq {"fork", "sigaction"}

VARIABLES
  kid,       \* the state of each entry of the table
  sigchld,   \* the parent's disposition of SIGCHLD
  pc,        \* where the parent's function stands
  i          \* its counter of children, a uint8_t

KidState == {"free", "running", "zombie"}

Unreaped == {p \in Pid : kid[p] # "free"}
Zombies  == {p \in Pid : kid[p] = "zombie"}

\* A disposition other than "ignore" keeps zombies for waitpid; "ignore" is
\* inherited through exec and makes the kernel discard children as they exit.
InheritedSigchld == {"default", "ignore"}

\* fork() returns the pid p in the parent.
ForkGives(p) ==
  /\ kid[p] = "free"
  /\ kid' = [kid EXCEPT ![p] = "running"]

\* fork() returns -1.
ForkFails ==
  /\ "fork" \in Faults \/ Unreaped = Pid
  /\ UNCHANGED kid

\* The child's whole program: sleep(), which only bounds the delay from
\* below, and then _exit(0).
ChildExits(p) ==
  /\ kid[p] = "running"
  /\ kid' = [kid EXCEPT ![p] = IF sigchld = "ignore" THEN "free" ELSE "zombie"]

\* waitpid(-1, ...) returns p > 0.
WaitReturns(p) ==
  /\ kid[p] = "zombie"
  /\ kid' = [kid EXCEPT ![p] = "free"]

\* waitpid(-1, ...) returns -1 with ECHILD.
NoChild == Unreaped = {}

\* One decrement of a uint8_t.
Dec8(n) == (n + 255) % 256
Inc8(n) == (n + 1) % 256
=============================================================================
