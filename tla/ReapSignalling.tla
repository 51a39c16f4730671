--------------------------- MODULE ReapSignalling ---------------------------
(***************************************************************************)
(* children_signalling() and sigchld_handler() of 26-chap/main.c, the      *)
(* function that main() runs.  The parent starts NumKids children, counts  *)
(* them in the global counter i, and pauses until a SIGCHLD handler has    *)
(* counted i down to 0.                                                    *)
(*                                                                         *)
(* The handler interrupts the parent between any two instructions, so      *)
(* every read and every write of i by the parent is a step of its own:     *)
(* i++ loads the volatile byte and stores it back.  The parent stands      *)
(* still while the handler runs, so one turn of the handler's loop, the    *)
(* waitpid and the i--, is one step; only children act in between.         *)
(* SIGCHLD is blocked while its handler runs, and any number of children   *)
(* that exit meanwhile leave one pending signal.  The program never sets   *)
(* sa_mask; it can only add signals other than SIGCHLD, which are none of  *)
(* this model.                                                             *)
(***************************************************************************)
EXTENDS Children

VARIABLES
  reg,       \* the register of i++, between its load and its store
  pending,   \* is a SIGCHLD waiting to be delivered?
  inHandler, \* is sigchld_handler() running?
  calm       \* history: no call has failed, and no child has outrun the
             \* loop of forks, which only its sleep(3) keeps it from

vars == <<kid, sigchld, pc, i, reg, pending, inHandler, calm>>

Starting == {"install", "loop", "fork", "incr", "store"}
Waiting  == {"check", "pausing", "paused", "finished"}

TypeOK ==
  /\ kid \in [Pid -> KidState]
  /\ sigchld \in InheritedSigchld \cup {"handler"}
  /\ pc \in Starting \cup Waiting
  /\ i \in 0 .. 255
  /\ reg \in 0 .. 255
  /\ pending \in BOOLEAN
  /\ inHandler \in BOOLEAN
  /\ calm \in BOOLEAN

Init ==
  /\ kid = [p \in Pid |-> "free"]
  /\ sigchld \in InheritedSigchld
  /\ pc = "install"
  /\ i = 0
  /\ reg = 0
  /\ pending = FALSE
  /\ inHandler = FALSE
  /\ calm = TRUE

\* The parent is at a and moves to b; it runs only outside the handler.
Parent(a, b) ==
  /\ ~inHandler
  /\ pc = a
  /\ pc' = b

\* sigaction(SIGCHLD, ...), whose failure is printed and ignored; i = 0.
Install ==
  /\ Parent("install", "loop")
  /\ \/ sigchld' = "handler" /\ UNCHANGED calm
     \/ "sigaction" \in Faults /\ calm' = FALSE /\ UNCHANGED sigchld
  /\ i' = 0
  /\ UNCHANGED <<kid, reg, pending, inHandler>>

\* The test i < 3 of the for loop.
Test ==
  /\ Parent("loop", IF i < NumKids THEN "fork" ELSE "check")
  /\ UNCHANGED <<kid, sigchld, i, reg, pending, inHandler, calm>>

\* fork(); a failure is printed and the loop goes on as after a success.
Fork ==
  /\ Parent("fork", "incr")
  /\ \/ (\E p \in Pid : ForkGives(p)) /\ UNCHANGED calm
     \/ ForkFails /\ calm' = FALSE
  /\ UNCHANGED <<sigchld, i, reg, pending, inHandler>>

IncLoad ==
  /\ Parent("incr", "store")
  /\ reg' = i
  /\ UNCHANGED <<kid, sigchld, i, pending, inHandler, calm>>

IncStore ==
  /\ Parent("store", "loop")
  /\ i' = Inc8(reg)
  /\ UNCHANGED <<kid, sigchld, reg, pending, inHandler, calm>>

\* Mutant: the parent stops waiting one child too early.
MutantCheck ==
  /\ Parent("check", IF i > 1 THEN "pausing" ELSE "finished")
  /\ UNCHANGED <<kid, sigchld, i, reg, pending, inHandler, calm>>

\* The test of while(i > 0).
Check ==
  /\ Parent("check", IF i > 0 THEN "pausing" ELSE "finished")
  /\ UNCHANGED <<kid, sigchld, i, reg, pending, inHandler, calm>>

\* The parent enters pause().
Pause ==
  /\ Parent("pausing", "paused")
  /\ UNCHANGED <<kid, sigchld, i, reg, pending, inHandler, calm>>

\* The kernel interrupts the parent with the pending signal.
Deliver ==
  /\ pending
  /\ ~inHandler
  /\ pending' = FALSE
  /\ inHandler' = TRUE
  /\ UNCHANGED <<kid, sigchld, pc, i, reg, calm>>

\* Mutant: the handler has an if in the place of its while.
MutantReapOnce ==
  /\ inHandler
  /\ \E p \in Pid : WaitReturns(p)
  /\ i' = Dec8(i)
  /\ inHandler' = FALSE
  /\ pc' = IF pc = "paused" THEN "check" ELSE pc
  /\ UNCHANGED <<sigchld, reg, pending, calm>>

\* Mutant: the i-- stands behind the loop, once for all the children reaped.
MutantCountOnce ==
  /\ inHandler
  /\ Zombies # {}
  /\ kid' = [p \in Pid |-> IF p \in Zombies THEN "free" ELSE kid[p]]
  /\ i' = Dec8(i)
  /\ UNCHANGED <<sigchld, pc, reg, pending, inHandler, calm>>

\* A turn of the handler's loop: waitpid() returns a child.
HandlerReaps ==
  /\ inHandler
  /\ \E p \in Pid : WaitReturns(p)
  /\ i' = Dec8(i)
  /\ UNCHANGED <<sigchld, pc, reg, pending, inHandler, calm>>

\* Mutant: the result of waitpid() is counted before it is looked at.
MutantCountAll ==
  /\ inHandler
  /\ Zombies = {}
  /\ inHandler' = FALSE
  /\ i' = Dec8(i)
  /\ pc' = IF pc = "paused" THEN "check" ELSE pc
  /\ UNCHANGED <<kid, sigchld, reg, pending, calm>>

\* waitpid() returns 0 or -1 and the handler returns.  A pause() that it
\* interrupted returns too; code it interrupted goes on where it was.
HandlerReturns ==
  /\ inHandler
  /\ Zombies = {}
  /\ inHandler' = FALSE
  /\ pc' = IF pc = "paused" THEN "check" ELSE pc
  /\ UNCHANGED <<kid, sigchld, i, reg, pending, calm>>

\* A child ends, and SIGCHLD becomes pending where it is caught.
Exit(p) ==
  /\ ChildExits(p)
  /\ calm' = (calm /\ pc \in Waiting)
  /\ pending' = (pending \/ sigchld = "handler")
  /\ UNCHANGED <<sigchld, pc, i, reg, inHandler>>

Main    == Install \/ Test \/ Fork \/ IncLoad \/ IncStore \/ Check \/ Pause
Handler == HandlerReaps \/ HandlerReturns

Next ==
  \/ Main
  \/ Deliver
  \/ Handler
  \/ \E p \in Pid : Exit(p)

Spec == Init /\ [][Next]_vars

\* The scheduler runs the parent and its handler, the kernel delivers
\* pending signals, and sleep() ends.
Fairness ==
  /\ WF_vars(Main)
  /\ WF_vars(Deliver)
  /\ WF_vars(Handler)
  /\ \A p \in Pid : WF_vars(Exit(p))

FairSpec == Spec /\ Fairness

-----------------------------------------------------------------------------
(***************************************************************************)
(* Safety.                                                                 *)
(***************************************************************************)

\* What the counter will be once the i++ in progress has been done.
Counted ==
  CASE pc = "incr"  -> Inc8(i)
    [] pc = "store" -> Inc8(reg)
    [] OTHER        -> i

\* The counter never falls below the number of children that are still to be
\* reaped, whatever the handler interrupts: a lost i-- and a failed fork can
\* only leave it too high.
NeverUndercounts ==
  pc # "install" => Cardinality(Unreaped) <= Counted /\ Counted <= NumKids

\* While all is calm the counter is the number of children still to be reaped:
\* no i++ and i-- overwrite each other, and none is counted twice.
ExactCount ==
  calm /\ pc # "install" => Counted = Cardinality(Unreaped)

\* However early the children exit, and however many are started in their
\* place, there are never more than NumKids of them at a time.
AtMostNumKids == Cardinality(Unreaped) <= NumKids

\* Every step is a step of the promise, or changes nothing that it speaks of;
\* in particular the function returns only when no child is left.
Promise == INSTANCE Reaper WITH done <- pc = "finished"
Implements == Promise!Spec

(***************************************************************************)
(* Liveness.                                                               *)
(***************************************************************************)

\* No zombie stays where the handler is installed: its loop collects also the
\* children whose signals were merged into one.
ZombiesAreCollected ==
  \A p \in Pid : kid[p] = "zombie" /\ sigchld = "handler" ~> kid[p] # "zombie"

\* The only way not to return while all is calm: the parent sleeps in pause()
\* although i is already 0, the last SIGCHLD having been handled between the
\* test of i and the pause().  Every child has been reaped even then.
OnlyHang ==
  []calm => <>[](\/ pc = "finished"
                 \/ pc = "paused" /\ i = 0 /\ Unreaped = {})

\* "Parent process, wait for all chilren to complete": the function returns,
\* at least where all is calm.
Completes == []calm => Promise!Returns
=============================================================================
