---------------------------- MODULE ReapWaiting -----------------------------
(***************************************************************************)
(* children_polling() and children_blocking() of 26-chap/main.c.  Both     *)
(* start NumKids children in the same loop and then wait in a              *)
(* while(i > 0): the one wakes once a second and collects with WNOHANG     *)
(* every child that has ended, the other calls waitpid() once a turn and   *)
(* prints whatever it returns as the pid of a child that is complete.      *)
(* Nothing interrupts the parent and i is its own, so a turn of the loop   *)
(* of forks is one step; children end between any two steps.               *)
(***************************************************************************)
EXTENDS Children

VARIABLES
  method,      \* which of the two functions main() calls
  failedForks, \* history: the turns of the loop whose fork() has failed
  minusOnes    \* history: the lines "Child complete - pid: -1"

waitingVars == <<kid, sigchld, method, pc, i, failedForks, minusOnes>>

WaitingTypeOK ==
  /\ kid \in [Pid -> KidState]
  /\ sigchld \in InheritedSigchld
  /\ method \in {"polling", "blocking"}
  /\ pc \in {"loop", "test", "poll", "wait", "finished", "error"}
  /\ i \in 0 .. 255
  /\ failedForks \in Nat
  /\ minusOnes \in Nat

WaitingInit ==
  /\ kid = [p \in Pid |-> "free"]
  /\ sigchld \in InheritedSigchld
  /\ method \in {"polling", "blocking"}
  /\ pc = "loop"
  /\ i = 0
  /\ failedForks = 0
  /\ minusOnes = 0

\* A turn of the for loop; a failed fork() is printed and counted too.
ForkCounted ==
  /\ pc = "loop"
  /\ i < NumKids
  /\ \/ (\E p \in Pid : ForkGives(p)) /\ UNCHANGED failedForks
     \/ ForkFails /\ failedForks' = failedForks + 1
  /\ i' = Inc8(i)
  /\ UNCHANGED <<sigchld, method, pc, minusOnes>>

ForksDone ==
  /\ pc = "loop"
  /\ i >= NumKids
  /\ pc' = "test"
  /\ UNCHANGED <<kid, sigchld, method, i, failedForks, minusOnes>>

\* Mutant: the last child is not waited for.
MutantTestTurn ==
  /\ pc = "test"
  /\ pc' = CASE i <= 1 -> "finished"
             [] i > 1 /\ method = "polling"  -> "poll"
             [] i > 1 /\ method = "blocking" -> "wait"
  /\ UNCHANGED <<kid, sigchld, method, i, failedForks, minusOnes>>

\* The test of while(i > 0), and the sleep(1) that a turn of polling begins
\* with.
TestTurn ==
  /\ pc = "test"
  /\ pc' = CASE i = 0 -> "finished"
             [] i > 0 /\ method = "polling"  -> "poll"
             [] i > 0 /\ method = "blocking" -> "wait"
  /\ UNCHANGED <<kid, sigchld, method, i, failedForks, minusOnes>>

\* Mutant: an error of waitpid() is only printed.
MutantPollFails ==
  /\ pc = "poll"
  /\ NoChild
  /\ pc' = "test"
  /\ UNCHANGED <<kid, sigchld, method, i, failedForks, minusOnes>>

\* waitpid(..., WNOHANG) returns -1: polling gives up.
PollFails ==
  /\ pc = "poll"
  /\ NoChild
  /\ pc' = "error"
  /\ UNCHANGED <<kid, sigchld, method, i, failedForks, minusOnes>>

\* waitpid(..., WNOHANG) returns 0: the children that are left still run.
PollFindsNone ==
  /\ pc = "poll"
  /\ ~NoChild
  /\ Zombies = {}
  /\ pc' = "test"
  /\ UNCHANGED <<kid, sigchld, method, i, failedForks, minusOnes>>

\* Mutant: the inner loop is not left when i is 0.
MutantPollReaps ==
  /\ pc = "poll"
  /\ \E p \in Pid : WaitReturns(p)
  /\ i' = Dec8(i)
  /\ UNCHANGED <<sigchld, method, pc, failedForks, minusOnes>>

\* waitpid(..., WNOHANG) returns a child; the inner loop goes on until i is 0.
PollReaps ==
  /\ pc = "poll"
  /\ \E p \in Pid : WaitReturns(p)
  /\ i' = Dec8(i)
  /\ pc' = IF i' = 0 THEN "test" ELSE "poll"
  /\ UNCHANGED <<sigchld, method, failedForks, minusOnes>>

\* The blocking waitpid() returns, once a child has ended.
WaitReaps ==
  /\ pc = "wait"
  /\ \E p \in Pid : WaitReturns(p)
  /\ i' = Dec8(i)
  /\ pc' = "test"
  /\ UNCHANGED <<sigchld, method, failedForks, minusOnes>>

\* Mutant: the -1 of an interrupted waitpid() is counted too.
MutantWaitFailsEarly ==
  /\ pc = "wait"
  /\ Zombies = {}
  /\ minusOnes' = minusOnes + 1
  /\ i' = Dec8(i)
  /\ pc' = "test"
  /\ UNCHANGED <<kid, sigchld, method, failedForks>>

\* The blocking waitpid() returns -1; the value is printed and counted as a
\* child.
WaitFails ==
  /\ pc = "wait"
  /\ NoChild
  /\ minusOnes' = minusOnes + 1
  /\ i' = Dec8(i)
  /\ pc' = "test"
  /\ UNCHANGED <<kid, sigchld, method, failedForks>>

WaitingMain ==
  \/ ForkCounted \/ ForksDone \/ TestTurn
  \/ PollFails \/ PollFindsNone \/ PollReaps
  \/ WaitReaps \/ WaitFails

KidExits(p) ==
  /\ ChildExits(p)
  /\ UNCHANGED <<sigchld, method, pc, i, failedForks, minusOnes>>

Returned == pc \in {"finished", "error"}

\* The function has returned and no child of it is left.
Terminated ==
  /\ Returned
  /\ Unreaped = {}
  /\ UNCHANGED waitingVars

WaitingNext == WaitingMain \/ (\E p \in Pid : KidExits(p)) \/ Terminated

WaitingSpec == WaitingInit /\ [][WaitingNext]_waitingVars

\* The parent is scheduled and every sleep() ends.
WaitingFairness == WF_waitingVars(WaitingMain) /\ \A p \in Pid : WF_waitingVars(KidExits(p))

WaitingFairSpec == WaitingSpec /\ WaitingFairness

-----------------------------------------------------------------------------
\* Polling gives up, and blocking prints a child -1, only if the counter was
\* too high from the start: SIGCHLD was inherited as ignored, so that children
\* go without being waited for, or a fork failed and was counted.
ErrorOnlyIfMiscounted ==
  pc = "error" \/ minusOnes > 0 => sigchld = "ignore" \/ failedForks > 0

\* The children that the loop of forks has counted and no waitpid() can return.
Missing == IF sigchld = "ignore" THEN NumKids ELSE failedForks

\* However children end and whichever forks fail, each counted child that
\* waitpid() cannot return, and no other, is accounted for: blocking prints -1
\* once for each of them, polling gives up when just they are left, and comes
\* to its end only when there are none.
MissingShown ==
  /\ pc = "finished" => minusOnes = Missing
  /\ pc = "error" => i = Missing

\* Every step is a step of the promise or changes nothing it speaks of; both
\* functions return, on any path, only when no child is left.
WaitingPromise == INSTANCE Reaper WITH done <- Returned
WaitingImplements == WaitingPromise!Spec

\* Both functions return, even after failed forks and with SIGCHLD ignored.
WaitingCompletes == WaitingPromise!Returns
=============================================================================
