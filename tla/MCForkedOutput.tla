--------------------------- MODULE MCForkedOutput ---------------------------
(***************************************************************************)
(* The programs whose two processes write to one place: the chapter is     *)
(* chosen once, and the program of the other one is not started.           *)
(***************************************************************************)
EXTENDS ForkStdio, SharedOffset

VARIABLE chapter    \* 24, or 25 for the programs of 25-chap and 27-chap

\* The ratio of the lengths of "*****\n" and "---\n".
MCRecordLen == [p \in Writer |-> IF p = "parent" THEN 3 ELSE 2]

\* One state stands for all those in which a program that is not started could be.
MCInit ==
  /\ chapter \in {24, 25}
  /\ OffsetInit /\ (chapter = 25 => tmp1 = <<>> /\ tmp2 = <<>>)
  /\ Init /\ (chapter = 24 => program = "exit" /\ tty /\ ~ignored)

MCNext ==
  /\ \/ chapter = 24 /\ OffsetNext /\ UNCHANGED vars
     \/ chapter = 25 /\ Next /\ UNCHANGED offsetVars
  /\ UNCHANGED chapter

MCSpec == MCInit /\ [][MCNext]_<<chapter, vars, offsetVars>>
=============================================================================
