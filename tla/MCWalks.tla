------------------------------ MODULE MCWalks -------------------------------
(***************************************************************************)
(* The programs that walk over a directory while others change it: the     *)
(* chapter is chosen once, and the program of the other one is not         *)
(* started.                                                                *)
(***************************************************************************)
EXTENDS ProcScan, TreeUpdate

VARIABLE chapter    \* 12 or 18

\* One state stands for all those in which a program that is not started could be.
MCInit ==
  /\ chapter \in {12, 18}
  /\ Init /\ (chapter = 18 => procs = [p \in Pid |-> NoProc])
  /\ TreeInit

MCNext ==
  /\ \/ chapter = 12 /\ Next /\ UNCHANGED treeVars
     \/ chapter = 18 /\ TreeNext /\ UNCHANGED vars
  /\ UNCHANGED chapter

\* The fairness of ProcScan's FairSpec, where that program runs.
MCSpec ==
  /\ MCInit /\ [][MCNext]_<<chapter, vars, treeVars>>
  /\ WF_vars(chapter = 12 /\ Main)
=============================================================================
