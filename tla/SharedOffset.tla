---------------------------- MODULE SharedOffset ----------------------------
(***************************************************************************)
(* 24-chap/main.c: a process opens tmp1.txt, forks, and then parent and    *)
(* child each open tmp2.txt and write N records to both files.  The        *)
(* descriptor of tmp1.txt is inherited, so both processes write through    *)
(* one open file description with one offset; each open of tmp2.txt has a  *)
(* description and an offset of its own.                                   *)
(*                                                                         *)
(* write() on a regular file reads the offset, stores the bytes and        *)
(* advances the offset under the kernel's lock of the offset, so it is one *)
(* step.  A file is the sequence of its bytes; a byte is known by the      *)
(* process that wrote it and its place in that process's record.           *)
(***************************************************************************)
EXTENDS Integers, Sequences

CONSTANTS
  N,          \* records each process writes to each file (100 in the code)
  RecordLen,  \* bytes of a record (6 for the parent, 4 for the child)
  OldLens,    \* lengths the two files may have before the program starts
  OffsetFaults \* what may fail: "open", "fork", "short" (a short write)

Writer == {"parent", "child"}

ASSUME NAssumption == N \in Nat \ {0}
ASSUME RecordLenAssumption == RecordLen \in [Writer -> Nat \ {0}]
ASSUME OldLensAssumption == OldLens \subseteq Nat
ASSUME OffsetFaultsAssumption == OffsetFaults \subseteq {"open", "fork", "short"}

VARIABLES
  stage,     \* where each process stands
  count,     \* the loop counter i of each process
  tmp1,      \* the bytes of tmp1.txt
  tmp2,      \* the bytes of tmp2.txt
  offset1,   \* the offset of the shared description of tmp1.txt
  offset2,   \* the offset of each process's description of tmp2.txt
  torn       \* history: the files that a write() did not reach in full

offsetVars == <<stage, count, tmp1, tmp2, offset1, offset2, torn>>

Byte == [by : Writer \cup {"old"}, at : Nat]

Record(p) == [k \in 1 .. RecordLen[p] |-> [by |-> p, at |-> k]]
OldFile(n) == [k \in 1 .. n |-> [by |-> "old", at |-> k]]

\* The bytes of file after data has been stored at offset.
Overwrite(file, offset, data) ==
  SubSeq(file, 1, offset)
    \o data
    \o SubSeq(file, offset + Len(data) + 1, Len(file))

\* A write of k of p's bytes to file f.
Notes(f, p, k) == torn' = IF k < RecordLen[p] THEN torn \cup {f} ELSE torn

\* How many bytes a write of p may store; 0 stands also for -1.
Stored(p) == IF "short" \in OffsetFaults THEN 0 .. RecordLen[p] ELSE {RecordLen[p]}

OffsetInit ==
  /\ stage = [p \in Writer |-> IF p = "parent" THEN "open1" ELSE "unborn"]
  /\ count = [p \in Writer |-> 0]
  /\ \E n \in OldLens : tmp1 = OldFile(n)
  /\ \E n \in OldLens : tmp2 = OldFile(n)
  /\ offset1 = 0
  /\ offset2 = [p \in Writer |-> 0]
  /\ torn = {}

\* open("tmp1.txt", O_WRONLY | O_CREAT): an old file keeps its bytes.
OpenTmp1 ==
  /\ stage["parent"] = "open1"
  /\ \/ stage' = [stage EXCEPT !["parent"] = "fork"]
     \/ "open" \in OffsetFaults /\ stage' = [stage EXCEPT !["parent"] = "failed"]
  /\ UNCHANGED <<count, tmp1, tmp2, offset1, offset2, torn>>

ForkWriter ==
  /\ stage["parent"] = "fork"
  /\ \/ stage' = [p \in Writer |-> "open2"]
     \/ "fork" \in OffsetFaults /\ stage' = [stage EXCEPT !["parent"] = "failed"]
  /\ UNCHANGED <<count, tmp1, tmp2, offset1, offset2, torn>>

OpenTmp2(p) ==
  /\ stage[p] = "open2"
  /\ \/ stage' = [stage EXCEPT ![p] = "write1"]
     \/ "open" \in OffsetFaults /\ stage' = [stage EXCEPT ![p] = "failed"]
  /\ UNCHANGED <<count, tmp1, tmp2, offset1, offset2, torn>>

\* Mutant: each process opens tmp1.txt itself and has its own offset there.
MutantOwnOffset(p) ==
  /\ stage[p] = "write1"
  /\ count[p] < N
  /\ LET own == IF offset2[p] <= Len(tmp1) THEN offset2[p] ELSE Len(tmp1) IN
     \E k \in Stored(p) :
       /\ tmp1' = Overwrite(tmp1, own, SubSeq(Record(p), 1, k))
       /\ offset1' = IF offset1 < own + k THEN own + k ELSE offset1
       /\ Notes("tmp1", p, k)
  /\ stage' = [stage EXCEPT ![p] = "write2"]
  /\ UNCHANGED <<count, tmp2, offset2>>

\* The first write of a turn of the loop; its result is not looked at.
WriteTmp1(p) ==
  /\ stage[p] = "write1"
  /\ count[p] < N
  /\ \E k \in Stored(p) :
       /\ tmp1' = Overwrite(tmp1, offset1, SubSeq(Record(p), 1, k))
       /\ offset1' = offset1 + k
       /\ Notes("tmp1", p, k)
  /\ stage' = [stage EXCEPT ![p] = "write2"]
  /\ UNCHANGED <<count, tmp2, offset2>>

\* Mutant: tmp2.txt is opened with O_APPEND.
MutantAppend(p) ==
  /\ stage[p] = "write2"
  /\ \E k \in Stored(p) :
       /\ tmp2' = tmp2 \o SubSeq(Record(p), 1, k)
       /\ offset2' = [offset2 EXCEPT ![p] = @ + k]
       /\ Notes("tmp2", p, k)
  /\ count' = [count EXCEPT ![p] = @ + 1]
  /\ stage' = [stage EXCEPT ![p] = "write1"]
  /\ UNCHANGED <<tmp1, offset1>>

\* The second write of the turn, and the i++.
WriteTmp2(p) ==
  /\ stage[p] = "write2"
  /\ \E k \in Stored(p) :
       /\ tmp2' = Overwrite(tmp2, offset2[p], SubSeq(Record(p), 1, k))
       /\ offset2' = [offset2 EXCEPT ![p] = @ + k]
       /\ Notes("tmp2", p, k)
  /\ count' = [count EXCEPT ![p] = @ + 1]
  /\ stage' = [stage EXCEPT ![p] = "write1"]
  /\ UNCHANGED <<tmp1, offset1>>

Return(p) ==
  /\ stage[p] = "write1"
  /\ count[p] >= N
  /\ stage' = [stage EXCEPT ![p] = "done"]
  /\ UNCHANGED <<count, tmp1, tmp2, offset1, offset2, torn>>

Stopped(p) == stage[p] \in {"unborn", "done", "failed"}

\* No process of the program is left.
BothStopped ==
  /\ \A p \in Writer : Stopped(p)
  /\ UNCHANGED offsetVars

OffsetNext ==
  \/ OpenTmp1
  \/ ForkWriter
  \/ \E p \in Writer : OpenTmp2(p) \/ WriteTmp1(p) \/ WriteTmp2(p) \/ Return(p)
  \/ BothStopped

OffsetSpec == OffsetInit /\ [][OffsetNext]_offsetVars

-----------------------------------------------------------------------------
OffsetTypeOK ==
  /\ stage \in [Writer -> {"unborn", "open1", "fork", "open2", "write1", "write2",
                      "done", "failed"}]
  /\ count \in [Writer -> 0 .. N]
  /\ tmp1 \in Seq(Byte)
  /\ tmp2 \in Seq(Byte)
  /\ offset1 \in 0 .. Len(tmp1)
  /\ offset2 \in [Writer -> 0 .. Len(tmp2)]
  /\ torn \subseteq {"tmp1", "tmp2"}

Log1 == SubSeq(tmp1, 1, offset1)

\* The writes through the shared description form a log: none destroys a byte
\* of another, even when writes are short or one process dies early.
Chunk == UNION {{SubSeq(Record(p), 1, k) : k \in 0 .. RecordLen[p]} : p \in Writer}
SharedLog == INSTANCE AppendLog WITH log <- Log1, Chunks <- Chunk
ImplementsLog == SharedLog!Spec

\* The bytes before and after a byte of a record are the neighbours it has in
\* that record.
RecordsIntact ==
  \A x \in 1 .. offset1 :
    LET b == tmp1[x] IN
    /\ b.by \in Writer
    /\ b.at > 1 => x > 1 /\ tmp1[x - 1] = [b EXCEPT !.at = @ - 1]
    /\ b.at < RecordLen[b.by] => x < offset1 /\ tmp1[x + 1] = [b EXCEPT !.at = @ + 1]

Sent(p) == count[p] + (IF stage[p] = "write2" THEN 1 ELSE 0)

\* The log is as long as what was sent.
NoneLost ==
  offset1 = Sent("parent") * RecordLen["parent"] + Sent("child") * RecordLen["child"]

\* "tmp1.txt is an intelligent output": while every write is complete, records
\* alternate in some order and are never mixed, no record that was sent is
\* missing from the log and none is there twice.
IntelligentOutput == "tmp1" \notin torn => RecordsIntact /\ NoneLost

\* The byte that p sends to position x of tmp2.txt.
Streamed(p, x) == [by |-> p, at |-> ((x - 1) % RecordLen[p]) + 1]

\* "tmp2.txt is corrupted": every position that a process has reached holds
\* the byte that one of those processes sent there, so the two streams destroy
\* each other byte by byte, and only the part that the longer stream alone has
\* reached is whole.
Tmp2IsOverlaid ==
  "tmp2" \notin torn => \A x \in 1 .. Len(tmp2) :
    LET writers == {p \in Writer : offset2[p] >= x} IN
    writers # {} => \E p \in writers : tmp2[x] = Streamed(p, x)
=============================================================================
