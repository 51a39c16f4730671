----------------------------- MODULE AppendLog ------------------------------
(***************************************************************************)
(* The promise of 24-chap/main.c for a file written through one open file  *)
(* description: what the writers send is laid down one write after the     *)
(* other, and no write destroys a byte of an earlier one.                  *)
(***************************************************************************)
EXTENDS Sequences

CONSTANT Chunks    \* what one write may lay down

VARIABLE log

Init == log = <<>>

Write == \E c \in Chunks : log' = log \o c

Spec == Init /\ [][Write]_log
=============================================================================
