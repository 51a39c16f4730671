------------------------------ MODULE Durable -------------------------------
(***************************************************************************)
(* What a program that calls fsync() is promised: a record whose fsync()   *)
(* has returned 0 stays on the disk, through crashes and restarts, until   *)
(* the user of the file gives the file up (opens it for a new text).       *)
(***************************************************************************)
CONSTANT
  Record        \* the records of the text

VARIABLES
  saved,        \* the records that would be found whole after a crash
  confirmed     \* the records that have been promised to be among them

Init ==
  /\ saved \subseteq Record
  /\ confirmed = {}

\* The disk changes as it likes, but for what has been confirmed.
Save ==
  /\ saved' \in SUBSET Record
  /\ confirmed \subseteq saved'
  /\ UNCHANGED confirmed

Confirm(r) ==
  /\ saved' \in SUBSET Record
  /\ confirmed' = confirmed \cup {r}
  /\ confirmed' \subseteq saved'

\* The file is emptied for a new text.
GiveUp ==
  /\ confirmed' = {}
  /\ UNCHANGED saved

Next ==
  \/ Save
  \/ \E r \in Record : Confirm(r)
  \/ GiveUp

Spec == Init /\ [][Next]_<<saved, confirmed>>
=============================================================================
