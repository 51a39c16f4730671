------------------------------ MODULE ProcScan ------------------------------
(***************************************************************************)
(* problem_12_1() of 12-chap/main.c: list the processes of one user by     *)
(* walking through /proc, while processes come and go.                     *)
(*                                                                         *)
(* readdir() on /proc gives the next larger pid that is alive at the time  *)
(* of the call.  The open status file belongs to the process, not to its   *)
(* number: once the process has ended a read of it fails, even if the pid  *)
(* has been given to another process.  The first read makes the kernel     *)
(* compose the whole text, so parsing the file is one step.                *)
(***************************************************************************)
EXTENDS Integers, FiniteSets

CONSTANTS
  Pid,     \* process identifiers
  Uids,    \* the users who run processes
  User,    \* the user whose processes are listed
  Faults   \* "start": bad arguments, an unknown user or no /proc

DefaultUid == 10    \* what proc_uid is when the file holds no "Uid:" line

ASSUME PidAssumption == IsFiniteSet(Pid) /\ Pid \subseteq Nat \ {0}
ASSUME UidsAssumption == Uids \subseteq Nat
ASSUME UserAssumption == User \in Nat
ASSUME FaultsAssumption == Faults \subseteq {"start"}

NoProc == -1

VARIABLES
  procs,    \* the user that runs each process, or NoProc
  pc,       \* where problem_12_1() stands
  pos,      \* the pid of the current directory entry
  open,     \* is the process whose status file is open still alive?
  listed,   \* the pids that have been printed, with a name
  unnamed,  \* the pids that have been printed with an empty name
  stayed,   \* history: processes of User that have lived since the start
  seen      \* history: pids that User has had a process under since the start

vars == <<procs, pc, pos, open, listed, unnamed, stayed, seen>>

UsersPids == {p \in Pid : procs[p] = User}

TypeOK ==
  /\ procs \in [Pid -> Uids \cup {NoProc}]
  /\ pc \in {"start", "readdir", "open", "parse", "done", "aborted", "failed"}
  /\ pos \in Pid \cup {0}
  /\ open \in BOOLEAN
  /\ listed \subseteq Pid /\ unnamed \subseteq Pid
  /\ stayed \subseteq Pid /\ seen \subseteq Pid

Init ==
  /\ procs \in [Pid -> Uids \cup {NoProc}]
  /\ pc = "start"
  /\ pos = 0
  /\ open = FALSE
  /\ listed = {} /\ unnamed = {}
  /\ stayed = {} /\ seen = {}

\* The arguments, getpwnam() and opendir().
Start ==
  /\ pc = "start"
  /\ \/ pc' = "readdir"
     \/ "start" \in Faults /\ pc' = "failed"
  /\ stayed' = UsersPids
  /\ seen' = UsersPids
  /\ UNCHANGED <<procs, pos, open, listed, unnamed>>

Later == {p \in Pid : p > pos /\ procs[p] # NoProc}

\* Mutant: the entries come in no order.
MutantAnyEntry ==
  /\ pc = "readdir"
  /\ \E p \in Later : pos' = p
  /\ pc' = "open"
  /\ UNCHANGED <<procs, open, listed, unnamed, stayed, seen>>

ReadDir ==
  /\ pc = "readdir"
  /\ \E p \in Later :
       /\ \A q \in Later : p <= q
       /\ pos' = p
  /\ pc' = "open"
  /\ UNCHANGED <<procs, open, listed, unnamed, stayed, seen>>

EndOfDir ==
  /\ pc = "readdir"
  /\ Later = {}
  /\ pc' = "done"
  /\ UNCHANGED <<procs, pos, open, listed, unnamed, stayed, seen>>

Open ==
  /\ pc = "open"
  /\ procs[pos] # NoProc
  /\ open' = TRUE
  /\ pc' = "parse"
  /\ UNCHANGED <<procs, pos, listed, unnamed, stayed, seen>>

\* Mutant: fopen() is tried again until it succeeds.
MutantOpenRetries ==
  /\ pc = "open"
  /\ procs[pos] = NoProc
  /\ UNCHANGED vars

\* fopen() fails because the process has ended: the function returns.
OpenFails ==
  /\ pc = "open"
  /\ procs[pos] = NoProc
  /\ pc' = "aborted"
  /\ UNCHANGED <<procs, pos, open, listed, unnamed, stayed, seen>>

\* The loop of fgets() over the status file, fclose() and the printf().
Parse ==
  /\ pc = "parse"
  /\ open
  /\ listed' = IF procs[pos] = User THEN listed \cup {pos} ELSE listed
  /\ open' = FALSE
  /\ pc' = "readdir"
  /\ UNCHANGED <<procs, pos, unnamed, stayed, seen>>

\* Mutant: proc_uid starts with the user's own number.
MutantParseNothing ==
  /\ pc = "parse"
  /\ ~open
  /\ unnamed' = unnamed \cup {pos}
  /\ pc' = "readdir"
  /\ UNCHANGED <<procs, pos, open, listed, stayed, seen>>

\* The process has ended since the fopen(): fgets() gives no line at all, and
\* proc_name and proc_uid keep their first values.
ParseNothing ==
  /\ pc = "parse"
  /\ ~open
  /\ unnamed' = IF User = DefaultUid THEN unnamed \cup {pos} ELSE unnamed
  /\ pc' = "readdir"
  /\ UNCHANGED <<procs, pos, open, listed, stayed, seen>>

Main == Start \/ ReadDir \/ EndOfDir \/ Open \/ OpenFails \/ Parse \/ ParseNothing

Ended == pc \in {"done", "aborted", "failed"}

\* The other processes of the system.
Spawn(p, u) ==
  /\ ~Ended
  /\ procs[p] = NoProc
  /\ procs' = [procs EXCEPT ![p] = u]
  /\ seen' = IF u = User THEN seen \cup {p} ELSE seen
  /\ UNCHANGED <<pc, pos, open, listed, unnamed, stayed>>

Exit(p) ==
  /\ ~Ended
  /\ procs[p] # NoProc
  /\ procs' = [procs EXCEPT ![p] = NoProc]
  /\ stayed' = stayed \ {p}
  /\ open' = (open /\ p # pos)
  /\ UNCHANGED <<pc, pos, listed, unnamed, seen>>

Terminated == Ended /\ UNCHANGED vars

Next ==
  \/ Main
  \/ \E p \in Pid : Exit(p) \/ \E u \in Uids : Spawn(p, u)
  \/ Terminated

Spec == Init /\ [][Next]_vars

\* The program is scheduled; the walk ends because pids only get larger.
FairSpec == Spec /\ WF_vars(Main)

-----------------------------------------------------------------------------
\* "List the process ID and command name for all processes": a listing that
\* comes to its end has every process of the user that has lived all the time,
\* whatever the others did meanwhile; one that is given up because a process has
\* ended between readdir() and fopen() has those before that process, and the
\* ones behind it are missing.
CompleteToItsEnd ==
  /\ pc = "done" => stayed \subseteq listed
  /\ pc = "aborted" => {p \in stayed : p <= pos} \subseteq listed

\* Only processes "being run by the user" are listed: each had that user at
\* some time of the walk, and nothing is printed for a process that ended
\* while its status file was open.
OnlyUsers == listed \cup unnamed \subseteq seen

\* A walk that has begun ends, however many processes are started meanwhile.
Ends == pc = "readdir" ~> Ended
=============================================================================
