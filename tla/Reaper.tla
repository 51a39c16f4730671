------------------------------- MODULE Reaper -------------------------------
(***************************************************************************)
(* What each of the three functions of 26-chap/main.c promises its caller: *)
(* it starts children, collects them, and reports "Finished" only when     *)
(* none of them is left, neither running nor as a zombie.  How the parent  *)
(* learns that a child has ended is left to the implementations.           *)
(***************************************************************************)
CONSTANT Pid

VARIABLES
  kid,    \* the state of each entry of the process table
  done    \* has the function returned?

vars == <<kid, done>>

Init ==
  /\ kid = [p \in Pid |-> "free"]
  /\ done = FALSE

Start(p) ==
  /\ ~done
  /\ kid[p] = "free"
  /\ kid' = [kid EXCEPT ![p] = "running"]
  /\ UNCHANGED done

\* The entry of a child that ends stays until it is collected, or goes at
\* once when the parent was started with SIGCHLD ignored.
End(p) ==
  /\ kid[p] = "running"
  /\ \E s \in {"zombie", "free"} : kid' = [kid EXCEPT ![p] = s]
  /\ UNCHANGED done

Collect(p) ==
  /\ kid[p] = "zombie"
  /\ kid' = [kid EXCEPT ![p] = "free"]
  /\ UNCHANGED done

Finish ==
  /\ ~done
  /\ \A p \in Pid : kid[p] = "free"
  /\ done' = TRUE
  /\ UNCHANGED kid

Next ==
  \/ \E p \in Pid : Start(p) \/ End(p) \/ Collect(p)
  \/ Finish

\* The safety half of the promise.
Spec == Init /\ [][Next]_vars

\* The liveness half: the function returns.
Returns == <>done
=============================================================================
