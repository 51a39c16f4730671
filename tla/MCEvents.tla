------------------------------ MODULE MCEvents ------------------------------
(***************************************************************************)
(* The programs that wait for what comes from outside: the chapter is      *)
(* chosen once, and the program of the other one is not started.           *)
(***************************************************************************)
EXTENDS DirEvents, SigintGate

VARIABLE chapter    \* 19 or 20

\* One state stands for all those in which a program that is not started could be.
MCInit ==
  /\ chapter \in {19, 20}
  /\ Init
  /\ GateInit /\ (chapter = 19 => disp = "default")

MCNext ==
  /\ \/ chapter = 19 /\ Next /\ UNCHANGED gateVars
     \/ chapter = 20 /\ GateNext /\ UNCHANGED vars
  /\ UNCHANGED chapter

\* The fairness of the two modules, for the program that runs.
MCSpec ==
  /\ MCInit /\ [][MCNext]_<<chapter, vars, gateVars>>
  /\ WF_vars(chapter = 19 /\ Program)
  /\ WF_gateVars(chapter = 20 /\ GateProgram)
=============================================================================
