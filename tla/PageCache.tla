----------------------------- MODULE PageCache ------------------------------
(***************************************************************************)
(* One file as Linux keeps it: in the page cache, where every reader and   *)
(* writer sees it, and on the disk, which is what a crash leaves.  A cell  *)
(* of the file is what gets to the disk in one piece; cells get there one  *)
(* by one, in any order, some time after they were written, or when        *)
(* fsync() asks for it.                                                    *)
(***************************************************************************)
EXTENDS Integers, FiniteSets

CONSTANT
  Size          \* the longest file

ASSUME SizeAssumption == Size \in Nat

VARIABLES
  cache,        \* the file in memory
  disk,         \* the file on the disk
  dirty         \* the cells that the kernel still means to write to the disk

file == <<cache, disk, dirty>>

Position == 1 .. Size

\* write(): the cells S get new contents, in memory.
CacheWrite(S, content) ==
  /\ cache' = [p \in Position |-> IF p \in S THEN content[p] ELSE cache[p]]
  /\ dirty' = dirty \cup S
  /\ UNCHANGED disk

\* open() with O_TRUNC.
Truncate ==
  /\ cache' = [p \in Position |-> 0]
  /\ dirty' = Position
  /\ UNCHANGED disk

\* The cells S are copied to the disk.
Reaches(S) ==
  disk' = [p \in Position |-> IF p \in S THEN cache[p] ELSE disk[p]]

\* fsync() returns 0.
Sync ==
  /\ Reaches(dirty)
  /\ dirty' = {}
  /\ UNCHANGED cache

\* fsync() returns -1: some cells did not get to the disk, and the kernel
\* does not try them again.
SyncFails ==
  /\ \E S \in SUBSET dirty : Reaches(S)
  /\ dirty' = {}
  /\ UNCHANGED cache

\* The kernel writes a cell in its own time.
Writeback ==
  /\ \E p \in dirty :
       /\ Reaches({p})
       /\ dirty' = dirty \ {p}
  /\ UNCHANGED cache

\* The kernel takes back the memory of a clean cell; the next reader gets
\* what is on the disk.
Evict ==
  /\ \E p \in Position \ dirty :
       /\ cache[p] # disk[p]
       /\ cache' = [cache EXCEPT ![p] = disk[p]]
  /\ UNCHANGED <<disk, dirty>>

\* Power fails.
Crash ==
  /\ cache' = disk
  /\ dirty' = {}
  /\ UNCHANGED disk
=============================================================================
