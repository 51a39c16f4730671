------------------------ MODULE DurableWrite_proofs -------------------------
(***************************************************************************)
(* What 13-chap/main.c promises of its two ways to write a file, for every *)
(* text, buffer and number of runs: a record whose fsync() has returned 0  *)
(* stays on the disk through kills, power failures and failing calls, and  *)
(* print_file() loses no more than a buffer.                               *)
(***************************************************************************)
EXTENDS DurableWrite, SequenceTheorems, TLAPS

\* What each place of the program says about the function it belongs to.
Places ==
  /\ pc \in {"write", "fsync"} => method = "write_file"
  /\ pc \in {"setvbuf", "print"} => method = "print_file"
  /\ pc = "fsync" => cnt < N
  /\ pc # "idle" => result = "none"
  /\ pc \in {"open", "setvbuf"} => cnt = 0 /\ pos = 0 /\ printed = 0 /\ buf = <<>>
  /\ pos + Len(buf) <= printed

\* A confirmed cell is on the disk, and what the kernel may still write over it
\* is the same text.
Kept ==
  \A r \in confirmed : \A p \in Cells(r) :
    /\ disk[p] = Text[p]
    /\ p \in dirty => cache[p] = Text[p]

\* A record that waits for fsync() is in memory, and will get to the disk or
\* has already got there.
Written ==
  pc = "fsync" => \A p \in Cells(cnt + 1) :
    /\ cache[p] = Text[p]
    /\ p \notin dirty => disk[p] = Text[p]

\* The records that write_file() has counted have been confirmed.
Counted ==
  method = "write_file" =>
    /\ pc \in {"write", "fsync"} => 1 .. cnt \subseteq confirmed
    /\ result = "ok" => Record \subseteq confirmed

\* print_file() has emptied the file, so that nothing is promised any more.
Emptied == pc \in {"setvbuf", "print"} => confirmed = {}

IInv == TypeOK /\ Places /\ Kept /\ Written /\ Counted /\ Emptied

-----------------------------------------------------------------------------
LEMMA Numbers ==
  /\ N \in Nat \ {0} /\ Pieces \in Nat \ {0} /\ BufSize \in Nat \ {0}
  /\ Size \in Nat /\ MaxRuns \in Nat /\ Last \in Nat /\ Last <= Size
BY ConstantsAssumption, SizeAssumption DEF Last

LEMMA TextType ==
  /\ Text \in [Position -> 0 .. Pieces]
  /\ \A p \in 1 .. Last : p \in Position /\ Text[p] \in 1 .. Pieces
BY Numbers DEF Text, Position

LEMMA CellsType == \A r : Cells(r) \subseteq Position
BY DEF Cells

LEMMA InitIInv == Init => IInv
<1> SUFFICES ASSUME Init
             PROVE  IInv
  OBVIOUS
<1> USE Numbers
<1>1. cache \in [Position -> -1 .. Pieces] /\ disk \in [Position -> -1 .. Pieces]
  <2>1. PICK x \in {0, -1} : cache = [p \in Position |-> x]
    BY DEF Init
  <2> QED
    BY <2>1 DEF Init
<1>2. TypeOK
  <2>1. /\ dirty \subseteq Position /\ confirmed \subseteq Record
        /\ pc \in {"idle", "open", "write", "fsync", "setvbuf", "print"}
        /\ method \in {"write_file", "print_file"}
        /\ result \in {"none", "ok", "failed"} /\ dropped \in BOOLEAN
    BY DEF Init
  <2>2. cnt \in 0 .. N /\ pos \in 0 .. Last /\ printed \in 0 .. Last /\ runs \in 0 .. MaxRuns
    BY DEF Init
  <2>3. buf \in Seq(1 .. Pieces)
    BY DEF Init
  <2> QED
    BY <1>1, <2>1, <2>2, <2>3 DEF TypeOK
<1>3. Places /\ Kept /\ Written /\ Counted /\ Emptied
  BY DEF Init, Places, Kept, Written, Counted, Emptied
<1> QED
  BY <1>2, <1>3 DEF IInv

-----------------------------------------------------------------------------
\* The page cache keeps its type.
FileOK ==
  /\ cache \in [Position -> -1 .. Pieces]
  /\ disk \in [Position -> -1 .. Pieces]
  /\ dirty \subseteq Position

LEMMA KernelType ==
  ASSUME FileOK, Sync \/ SyncFails \/ Writeback \/ Evict \/ Crash \/ Truncate \/ UNCHANGED file
  PROVE  FileOK'
BY Numbers DEF FileOK, Sync, SyncFails, Writeback, Evict, Crash, Truncate, Reaches, file

LEMMA CacheWriteType ==
  ASSUME FileOK, NEW S \in SUBSET Position, NEW content,
         \A p \in S : content[p] \in -1 .. Pieces, CacheWrite(S, content)
  PROVE  FileOK'
BY DEF FileOK, CacheWrite

\* What Flush() writes are pieces of the text.
LEMMA FlushType ==
  ASSUME TypeOK, Places, NEW k \in 0 .. Len(buf), Flush(k)
  PROVE  /\ FileOK'
         /\ pos' \in 0 .. Last
         /\ pos' = pos + k
         /\ dropped' \in BOOLEAN
<1> DEFINE S == (pos + 1) .. (pos + k)
           content == [p \in Position |-> buf[p - pos]]
<1>1. /\ pos \in 0 .. Last /\ buf \in Seq(1 .. Pieces) /\ printed \in 0 .. Last
      /\ pos + Len(buf) <= printed /\ Len(buf) \in Nat
  BY DEF TypeOK, Places
<1>2. S \subseteq Position
  BY <1>1, Numbers DEF Position
<1>3. ASSUME NEW p \in S
      PROVE  content[p] \in -1 .. Pieces
  <2>1. p - pos \in 1 .. Len(buf)
    BY <1>1
  <2>2. buf[p - pos] \in 1 .. Pieces
    BY <1>1, <2>1, ElementOfSeq
  <2> QED
    BY <1>2, <2>2, Numbers
<1>4. CacheWrite(S, content)
  BY DEF Flush
<1>5. FileOK
  BY DEF TypeOK, FileOK
<1>6. FileOK'
  BY <1>2, <1>3, <1>4, <1>5, CacheWriteType
<1>7. pos' = pos + k /\ dropped' \in BOOLEAN
  BY DEF Flush, TypeOK
<1> QED
  BY <1>1, <1>6, <1>7, Numbers

\* The variables of TypeOK that are not the file's.
ProgramOK ==
  /\ pc \in {"idle", "open", "write", "fsync", "setvbuf", "print"}
  /\ method \in {"write_file", "print_file"}
  /\ cnt \in 0 .. N
  /\ pos \in 0 .. Last
  /\ buf \in Seq(1 .. Pieces)
  /\ printed \in 0 .. Last
  /\ result \in {"none", "ok", "failed"}
  /\ runs \in 0 .. MaxRuns
  /\ confirmed \subseteq Record
  /\ dropped \in BOOLEAN

LEMMA TypeSplits == TypeOK <=> FileOK /\ ProgramOK
BY DEF TypeOK, FileOK, ProgramOK

LEMMA NextTypeOK == IInv /\ [Next]_vars => TypeOK' /\ Places'
<1> SUFFICES ASSUME IInv, [Next]_vars
             PROVE  FileOK' /\ ProgramOK' /\ Places'
  BY DEF TypeOK, FileOK, ProgramOK
<1>a. TypeOK /\ Places /\ FileOK /\ ProgramOK
  BY TypeSplits DEF IInv
<1> USE <1>a, Numbers
<1>1. CASE Start
  BY <1>1, KernelType DEF Start, Goto, ProgramOK, Places, file
<1>2. CASE OpenFails \/ Open
  BY <1>2, KernelType DEF OpenFails, Open, Goto, Ends, ProgramOK, Places, file
<1>3. CASE Write
  <2>1. FileOK'
    BY <1>3, CacheWriteType, CellsType, TextType DEF Write
  <2> QED
    BY <1>3, <2>1 DEF Write, Goto, ProgramOK, Places
<1>4. CASE ShortWrite
  <2>1. PICK k \in 0 .. Pieces - 1 :
          CacheWrite({p \in Cells(cnt + 1) : p <= cnt * Pieces + k}, Text)
    BY <1>4 DEF ShortWrite
  <2> DEFINE S == {p \in Cells(cnt + 1) : p <= cnt * Pieces + k}
  <2>2. S \subseteq Position
    BY CellsType
  <2>3. FileOK'
    BY <2>1, <2>2, CacheWriteType, TextType
  <2> QED
    BY <1>4, <2>3 DEF ShortWrite, Goto, Ends, ProgramOK, Places
<1>5. CASE Fsync
  BY <1>5, KernelType DEF Fsync, Goto, ProgramOK, Places, Record
<1>6. CASE FsyncFails
  BY <1>6, KernelType DEF FsyncFails, Goto, Ends, ProgramOK, Places
<1>7. CASE Close
  BY <1>7, KernelType DEF Close, Goto, Ends, ProgramOK, Places, file
<1>8. CASE Fopen
  BY <1>8, KernelType DEF Fopen, Goto, ProgramOK, Places
<1>9. CASE SetVBuf
  BY <1>9, KernelType DEF SetVBuf, Goto, Ends, ProgramOK, Places, file
<1>10. CASE Fprintf
  <2>1. Text[printed + 1] \in 1 .. Pieces
    BY <1>10, TextType DEF Fprintf, ProgramOK
  <2>2. buf' \in Seq(1 .. Pieces) /\ Len(buf') = Len(buf) + 1
    BY <1>10, <2>1 DEF Fprintf, ProgramOK
  <2> QED
    BY <1>10, <2>2, KernelType DEF Fprintf, Goto, ProgramOK, Places, file
<1>11. CASE FprintfFlushes
  <2>1. PICK k \in 0 .. BufSize :
          /\ Flush(k)
          /\ buf' = IF k = BufSize THEN <<Text[printed + 1]>> ELSE <<>>
    BY <1>11 DEF FprintfFlushes
  <2>2. Len(buf) = BufSize /\ printed < Last
    BY <1>11 DEF FprintfFlushes
  <2>3. FileOK' /\ pos' \in 0 .. Last /\ pos' = pos + k /\ dropped' \in BOOLEAN
    BY <2>1, <2>2, FlushType
  <2>4. Text[printed + 1] \in 1 .. Pieces
    BY <2>2, TextType DEF ProgramOK
  <2>5. /\ buf' \in Seq(1 .. Pieces)
        /\ Len(buf') \in 0 .. 1
        /\ k # BufSize => Len(buf') = 0
    <3>1. CASE k = BufSize
      <4>1. buf' = <<Text[printed + 1]>>
        BY <2>1, <3>1
      <4> QED
        BY <2>4, <3>1, <4>1
    <3>2. CASE k # BufSize
      BY <2>1, <3>2
    <3> QED
      BY <3>1, <3>2
  <2>6. pos' + Len(buf') <= printed + 1
    <3>1. pos + BufSize <= printed /\ pos \in Nat /\ printed \in Nat
      BY <2>2 DEF Places, ProgramOK
    <3>2. CASE k = BufSize
      <4>1. pos' = pos + BufSize
        BY <2>3, <3>2
      <4>2. Len(buf') \in Int /\ Len(buf') <= 1
        BY <2>5
      <4> QED
        BY <3>1, <4>1, <4>2
    <3>3. CASE k # BufSize
      <4>1. Len(buf') = 0
        BY <2>5, <3>3
      <4>2. pos' = pos + k /\ k <= BufSize
        BY <2>3
      <4> QED
        BY <3>1, <4>1, <4>2
    <3> QED
      BY <3>2, <3>3
  <2> QED
    BY <1>11, <2>2, <2>3, <2>5, <2>6 DEF FprintfFlushes, Goto, ProgramOK, Places
<1>12. CASE Fclose
  <2>1. PICK k \in 0 .. Len(buf) : Flush(k)
    BY <1>12 DEF Fclose
  <2>2. FileOK' /\ pos' \in 0 .. Last /\ pos' = pos + k /\ dropped' \in BOOLEAN
    BY <2>1, FlushType
  <2>3. /\ pc' = "idle" /\ result' \in {"ok", "failed"} /\ buf' = <<>>
        /\ UNCHANGED <<method, cnt, printed, runs, confirmed>>
    BY <1>12 DEF Fclose, Ends, Goto
  <2>4. pos' + Len(buf') <= printed'
    BY <2>2, <2>3 DEF Places, ProgramOK
  <2> QED
    BY <2>2, <2>3, <2>4 DEF ProgramOK, Places
<1>13. CASE Kill
  BY <1>13, KernelType DEF Kill, Goto, Ends, ProgramOK, Places, file
<1>14. CASE PowerFails
  BY <1>14, KernelType DEF PowerFails, ProgramOK, Places
<1>15. CASE Kernel \/ UNCHANGED vars
  BY <1>15, KernelType DEF Kernel, program, vars, file, ProgramOK, Places
<1> QED
  BY <1>1, <1>2, <1>3, <1>4, <1>5, <1>6, <1>7, <1>8, <1>9, <1>10, <1>11, <1>12,
     <1>13, <1>14, <1>15 DEF Next, WriteFile, PrintFile

-----------------------------------------------------------------------------
\* Whatever the cells of S are written with, the kernel's steps move only what
\* is in the memory to the disk, or back.
LEMMA KeptByReaches ==
  ASSUME FileOK, Kept, NEW S \in SUBSET dirty, Reaches(S), dirty' \subseteq dirty,
         UNCHANGED <<cache, confirmed>>
  PROVE  Kept'
BY CellsType DEF FileOK, Kept, Reaches, Cells, Position, Text, Last

LEMMA NextKept == IInv /\ [Next]_vars => Kept'
<1> SUFFICES ASSUME IInv, [Next]_vars
             PROVE  Kept'
  OBVIOUS
<1>a. TypeOK /\ FileOK /\ ProgramOK /\ Places /\ Kept /\ Written /\ Emptied
  BY TypeSplits DEF IInv
<1> USE <1>a
<1>1. CASE UNCHANGED <<file, confirmed>>
  BY <1>1 DEF Kept, file, Cells, Position, Text, Last
<1>2. ASSUME NEW S \in SUBSET Position, CacheWrite(S, Text), UNCHANGED confirmed
      PROVE  Kept'
  BY <1>2, CellsType DEF CacheWrite, Kept, Cells, Position, Text, Last
<1>3. CASE confirmed' = {}
  BY <1>3 DEF Kept
<1>4. CASE Write \/ ShortWrite
  <2>1. PICK S \in SUBSET Position : CacheWrite(S, Text) /\ UNCHANGED confirmed
    BY <1>4, CellsType DEF Write, ShortWrite
  <2> QED
    BY <2>1, <1>2
<1>5. CASE Fsync
  <2>1. /\ pc = "fsync" /\ Reaches(dirty) /\ dirty' = {} /\ cache' = cache
        /\ confirmed' = confirmed \cup {cnt + 1}
    BY <1>5 DEF Fsync, Goto, Sync
  <2>2. ASSUME NEW p \in Position
        PROVE  disk'[p] = IF p \in dirty THEN cache[p] ELSE disk[p]
    BY <2>1 DEF Reaches
  <2>3. ASSUME NEW r \in confirmed', NEW p \in Cells(r)
        PROVE  disk'[p] = Text[p]
    <3>1. CASE r \in confirmed
      BY <2>2, <2>3, <3>1, CellsType DEF Kept
    <3>2. CASE r = cnt + 1
      BY <2>1, <2>2, <2>3, <3>2, CellsType DEF Written
    <3> QED
      BY <2>1, <3>1, <3>2
  <2>4. \A r : Cells(r)' = Cells(r)
    BY DEF Cells, Position
  <2>5. Text' = Text
    BY DEF Text, Position, Last
  <2> QED
    BY <2>1, <2>3, <2>4, <2>5 DEF Kept
<1>6. CASE FsyncFails
  <2>1. PICK S \in SUBSET dirty : Reaches(S)
    BY <1>6 DEF FsyncFails, SyncFails
  <2>2. dirty' \subseteq dirty /\ UNCHANGED <<cache, confirmed>>
    BY <1>6 DEF FsyncFails, SyncFails
  <2> QED
    BY <2>1, <2>2, KeptByReaches
<1>7. CASE FprintfFlushes \/ Fclose
  <2>1. pc = "print" /\ UNCHANGED confirmed
    BY <1>7 DEF FprintfFlushes, Fclose, Goto, Ends
  <2> QED
    BY <2>1, <1>3 DEF Emptied
<1>8. CASE PowerFails
  BY <1>8, CellsType DEF PowerFails, Crash, Kept, Cells, Position, Text, Last
<1>9. CASE Kernel
  <2>1. CASE Writeback
    <3>1. PICK p \in dirty : Reaches({p}) /\ dirty' = dirty \ {p}
      BY <2>1 DEF Writeback
    <3>2. UNCHANGED <<cache, confirmed>>
      BY <1>9, <2>1 DEF Kernel, Writeback
    <3> QED
      BY <3>1, <3>2, KeptByReaches
  <2>2. CASE Evict
    <3>1. UNCHANGED <<disk, dirty, confirmed>>
      BY <1>9, <2>2 DEF Kernel, Evict
    <3>2. \A p \in dirty : cache'[p] = cache[p]
      BY <2>2 DEF Evict, FileOK
    <3> QED
      BY <3>1, <3>2 DEF Kept, Cells, Position, Text, Last
  <2> QED
    BY <1>9, <2>1, <2>2 DEF Kernel
<1>10. CASE Fopen
  BY <1>10, <1>3 DEF Fopen
<1>11. CASE Start \/ OpenFails \/ Open \/ Close \/ SetVBuf \/ Fprintf \/ Kill \/ UNCHANGED vars
  <2>1. UNCHANGED <<file, confirmed>>
    BY <1>11 DEF Start, OpenFails, Open, Close, SetVBuf, Fprintf, Kill, vars, file
  <2> QED
    BY <2>1, <1>1
<1> QED
  BY <1>4, <1>5, <1>6, <1>7, <1>8, <1>9, <1>10, <1>11 DEF Next, WriteFile, PrintFile

LEMMA NextWritten == IInv /\ [Next]_vars => Written'
<1> SUFFICES ASSUME IInv, [Next]_vars, pc' = "fsync"
             PROVE  Written'
  BY DEF Written
<1>a. TypeOK /\ FileOK /\ Written
  BY TypeSplits DEF IInv
<1>b. \A r : Cells(r)' = Cells(r) /\ Cells(r) \subseteq Position
  BY DEF Cells, Position
<1>c. Text' = Text
  BY DEF Text, Position, Last
<1>1. CASE Write
  BY <1>1, <1>a, <1>b, <1>c DEF Write, CacheWrite, Written
<1>2. CASE Kernel
  <2>1. UNCHANGED program /\ pc = "fsync" /\ cnt' = cnt
    BY <1>2 DEF Kernel, program
  <2>2. CASE Writeback
    <3>1. PICK p \in dirty : Reaches({p}) /\ dirty' = dirty \ {p} /\ UNCHANGED cache
      BY <2>2 DEF Writeback
    <3>2. \A q \in Position : disk'[q] = IF q = p THEN cache[q] ELSE disk[q]
      BY <3>1 DEF Reaches
    <3> QED
      BY <1>a, <1>b, <1>c, <2>1, <3>1, <3>2 DEF Written
  <2>3. CASE Evict
    <3>1. PICK p \in Position \ dirty : cache' = [cache EXCEPT ![p] = disk[p]]
      BY <2>3 DEF Evict
    <3>2. UNCHANGED <<disk, dirty>>
      BY <2>3 DEF Evict
    <3> QED
      BY <1>a, <1>b, <1>c, <2>1, <3>1, <3>2 DEF Written, FileOK
  <2> QED
    BY <1>2, <2>2, <2>3 DEF Kernel
<1>3. CASE UNCHANGED vars
  BY <1>3, <1>a, <1>b, <1>c DEF vars, file, program, Written
<1>4. CASE Start \/ OpenFails \/ Open \/ ShortWrite \/ Fsync \/ FsyncFails \/ Close \/ Kill
  BY <1>4 DEF Start, OpenFails, Open, ShortWrite, Fsync, FsyncFails, Close, Kill, Goto, Ends
<1>5. CASE PrintFile \/ PowerFails
  BY <1>5 DEF PrintFile, Fopen, SetVBuf, Fprintf, FprintfFlushes, Fclose, PowerFails, Goto, Ends
<1> QED
  BY <1>1, <1>2, <1>3, <1>4, <1>5 DEF Next, WriteFile

LEMMA NextCounted == IInv /\ [Next]_vars => Counted' /\ Emptied'
<1> SUFFICES ASSUME IInv, [Next]_vars
             PROVE  Counted' /\ Emptied'
  OBVIOUS
<1> USE DEF IInv, ProgramOK, Places, Counted, Emptied, Record, Goto, Ends
<1>a. ProgramOK /\ N \in Nat
  BY TypeSplits, Numbers
<1>1. CASE Start \/ OpenFails \/ Open \/ Write \/ ShortWrite
  BY <1>1, <1>a DEF Start, OpenFails, Open, Write, ShortWrite
<1>2. CASE Fsync
  <2>1. /\ pc = "fsync" /\ pc' = "write" /\ method = "write_file" /\ method' = method
        /\ result' = "none" /\ cnt' = cnt + 1 /\ confirmed' = confirmed \cup {cnt + 1}
    BY <1>2 DEF Fsync
  <2>2. 1 .. cnt \subseteq confirmed /\ cnt \in Nat
    BY <2>1, <1>a
  <2>3. 1 .. cnt + 1 \subseteq confirmed'
    BY <2>1, <2>2
  <2> QED
    BY <2>1, <2>3
<1>7. CASE FsyncFails
  BY <1>7, <1>a DEF FsyncFails
<1>3. CASE Close
  BY <1>3, <1>a DEF Close
<1>4. CASE Fopen \/ SetVBuf \/ Fprintf \/ FprintfFlushes \/ Fclose
  BY <1>4, <1>a DEF Fopen, SetVBuf, Fprintf, FprintfFlushes, Fclose
<1>5. CASE Kill \/ PowerFails
  BY <1>5, <1>a DEF Kill, PowerFails
<1>6. CASE Kernel \/ UNCHANGED vars
  BY <1>6, <1>a DEF Kernel, program, vars
<1> QED
  BY <1>1, <1>2, <1>3, <1>4, <1>5, <1>6, <1>7 DEF Next, WriteFile, PrintFile

THEOREM Inductive == Spec => []IInv
<1>1. IInv /\ [Next]_vars => IInv'
  BY NextTypeOK, NextKept, NextWritten, NextCounted DEF IInv
<1> QED
  BY <1>1, InitIInv, PTL DEF Spec

\* Type correctness of the file and of the program.
THEOREM TypeCorrect == Spec => []TypeOK
<1>1. IInv => TypeOK
  BY DEF IInv
<1> QED
  BY <1>1, Inductive, PTL

LEMMA ConfirmedSaved == IInv => confirmed \subseteq {r \in Record : OnDisk(r)}
BY DEF IInv, TypeOK, Kept, OnDisk

\* A write_file() that has returned has left the whole text on the disk.
THEOREM Returned == Spec => []ReturnedIsStored
<1>1. IInv => ReturnedIsStored
  BY ConfirmedSaved DEF IInv, Counted, ReturnedIsStored
<1> QED
  BY <1>1, Inductive, PTL

-----------------------------------------------------------------------------
LEMMA InitPromise == Init => Promise!Init
BY DEF Init, Promise!Init

LEMMA NextPromise ==
  IInv /\ IInv' /\ [Next]_vars => [Promise!Next]_<<{r \in Record : OnDisk(r)}, confirmed>>
<1> SUFFICES ASSUME IInv, IInv', [Next]_vars
             PROVE  [Promise!Next]_<<{r \in Record : OnDisk(r)}, confirmed>>
  OBVIOUS
<1> DEFINE saved == {r \in Record : OnDisk(r)}
<1>a. confirmed \subseteq saved /\ confirmed' \subseteq saved'
  <2>1. confirmed \subseteq saved
    BY ConfirmedSaved
  <2>2. confirmed' \subseteq saved'
    BY DEF IInv, TypeOK, Kept, OnDisk
  <2> QED
    BY <2>1, <2>2
<1>b. saved' \in SUBSET Record
  BY DEF Record
<1>1. CASE UNCHANGED confirmed
  BY <1>1, <1>a, <1>b DEF Promise!Next, Promise!Save
<1>2. CASE Fsync
  <2>1. cnt + 1 \in Record /\ confirmed' = confirmed \cup {cnt + 1}
    BY <1>2, Numbers DEF Fsync, Goto, IInv, TypeOK, Places, Record
  <2>2. Promise!Confirm(cnt + 1)
    BY <2>1, <1>a, <1>b DEF Promise!Confirm
  <2> QED
    BY <2>1, <2>2 DEF Promise!Next
<1>3. CASE Fopen
  <2>1. confirmed' = {} /\ UNCHANGED disk
    BY <1>3 DEF Fopen, Truncate
  <2>2. saved' = saved
    BY <2>1 DEF OnDisk, Record, Cells, Position, Text, Last
  <2> QED
    BY <2>1, <2>2 DEF Promise!Next, Promise!GiveUp
<1>4. UNCHANGED confirmed \/ Fsync \/ Fopen
  BY DEF Next, WriteFile, PrintFile, Start, OpenFails, Open, Write, ShortWrite, FsyncFails,
         Close, SetVBuf, Fprintf, FprintfFlushes, Fclose, Kill, PowerFails, Kernel, vars
<1> QED
  BY <1>1, <1>2, <1>3, <1>4

\* What fsync() has confirmed stays: the program refines Durable.
THEOREM Refinement == Spec => ImplementsDurable
<1>1. Init /\ [][Next]_vars /\ []IInv
        => Promise!Init /\ [][Promise!Next]_<<{r \in Record : OnDisk(r)}, confirmed>>
  BY InitPromise, NextPromise, PTL
<1> QED
  BY <1>1, Inductive, PTL DEF Spec, ImplementsDurable, Promise!Spec

-----------------------------------------------------------------------------
\* print_file() has opened the file, in this run or in the one that has ended.
Opened == method = "print_file" /\ pc # "open" /\ (pc = "idle" => printed > 0)

\* Without a failed write or a power failure, memory holds what was flushed, a
\* clean cell is the same on the disk, and the buffer holds the rest.
Printed ==
  Opened /\ ~dropped =>
    /\ \A p \in Position : cache[p] = IF p <= pos THEN Text[p] ELSE 0
    /\ \A p \in Position \ dirty : cache[p] = disk[p]
    /\ pc # "idle" =>
         /\ pos + Len(buf) = printed
         /\ \A k \in 1 .. Len(buf) : buf[k] = Text[pos + k]
    /\ printed - pos <= BufSize
    /\ result = "ok" => pos = Last

\* Flush() of the whole buffer.
LEMMA FlushPrinted ==
  ASSUME IInv, Printed, pc = "print", NEW k \in 0 .. Len(buf), Flush(k), ~dropped'
  PROVE  /\ ~dropped /\ k = Len(buf) /\ pos' = printed
         /\ \A p \in Position : cache'[p] = IF p <= pos' THEN Text[p] ELSE 0
         /\ \A p \in Position \ dirty' : cache'[p] = disk'[p]
<1>1. /\ pos \in Nat /\ Len(buf) \in Nat /\ printed \in Nat /\ dropped \in BOOLEAN
  BY DEF IInv, TypeOK, Last, Record
<1>2. ~dropped /\ k = Len(buf)
  <2>1. ~(dropped \/ k < Len(buf))
    BY Zenon DEF Flush
  <2>2. ~dropped /\ ~(k < Len(buf))
    BY <2>1, Zenon
  <2>3. k = Len(buf)
    BY <1>1, <2>2
  <2> QED
    BY <2>2, <2>3
<1>3. Opened
  BY DEF IInv, Places, Opened
<1>4. /\ \A p \in Position : cache[p] = IF p <= pos THEN Text[p] ELSE 0
      /\ \A p \in Position \ dirty : cache[p] = disk[p]
      /\ pos + Len(buf) = printed
      /\ \A i \in 1 .. Len(buf) : buf[i] = Text[pos + i]
  BY <1>2, <1>3 DEF Printed
<1>5. pos' = printed
  BY <1>1, <1>2, <1>4 DEF Flush
<1> DEFINE S == (pos + 1) .. (pos + k)
<1>6. /\ \A p \in Position : cache'[p] = IF p \in S THEN buf[p - pos] ELSE cache[p]
      /\ dirty' = dirty \cup S /\ disk' = disk
  BY DEF Flush, CacheWrite
<1>7. ASSUME NEW p \in Position
      PROVE  cache'[p] = IF p <= printed THEN Text[p] ELSE 0
  <2>1. p \in Nat
    BY DEF Position
  <2>2. CASE p \in S
    <3>1. p - pos \in 1 .. Len(buf) /\ pos + (p - pos) = p /\ p <= printed
      BY <1>1, <1>2, <1>4, <2>1, <2>2
    <3>2. buf[p - pos] = Text[p]
      BY <1>4, <3>1
    <3> QED
      BY <1>6, <2>2, <3>1, <3>2
  <2>3. CASE p \notin S
    <3>1. p <= pos <=> p <= printed
      BY <1>1, <1>2, <1>4, <2>1, <2>3
    <3> QED
      BY <1>4, <1>6, <2>3, <3>1
  <2> QED
    BY <2>2, <2>3
<1> QED
  BY <1>2, <1>4, <1>5, <1>6, <1>7

LEMMA NextPrinted == IInv /\ Printed /\ [Next]_vars => Printed'
<1> SUFFICES ASSUME IInv, Printed, [Next]_vars, Opened', ~dropped'
             PROVE  Printed'
  BY DEF Printed
<1>a. ProgramOK /\ Places /\ FileOK /\ IInv'
  BY TypeSplits, NextTypeOK, NextKept, NextWritten, NextCounted DEF IInv
<1>b. Text' = Text /\ Last' = Last
  BY DEF Text, Position, Last
<1> USE Numbers
<1>1. CASE UNCHANGED <<file, pos, printed, dropped>> /\ pc' = "idle" /\ pc # "open" /\ method' = method
           /\ result' # "ok"
  <2>1. Opened
    BY <1>1 DEF Opened
  <2> QED
    BY <1>1, <1>b, <2>1 DEF Printed, file, Position
<1>2. CASE Start \/ OpenFails \/ Open
  BY <1>2, <1>a DEF Start, OpenFails, Open, Opened, Goto, Ends, Places
<1>3. CASE Write \/ ShortWrite \/ Fsync \/ FsyncFails \/ Close
  BY <1>3, <1>a DEF Write, ShortWrite, Fsync, FsyncFails, Close, Opened, Goto, Ends, Places
<1>4. CASE Fopen
  <2>1. /\ cache' = [p \in Position |-> 0] /\ dirty' = Position
        /\ pos' = 0 /\ printed' = 0 /\ buf' = <<>> /\ result' = "none"
    BY <1>4, <1>a DEF Fopen, Truncate, Goto, Places
  <2>2. \A p \in Position : ~(p <= 0)
    BY DEF Position
  <2> QED
    BY <2>1, <2>2 DEF Printed, Position
<1>5. CASE SetVBuf
  <2>1. /\ UNCHANGED <<file, pos, printed, dropped, buf>> /\ pc = "setvbuf" /\ method' = method
        /\ pc' \in {"print", "idle"} /\ printed = 0 /\ result' \in {"none", "failed"}
    BY <1>5, <1>a DEF SetVBuf, Goto, Ends, Places
  <2>2. Opened /\ method = "print_file"
    BY <2>1, <1>a DEF Opened, Places
  <2> QED
    BY <1>b, <2>1, <2>2 DEF Printed, file, Position
<1>6. CASE Fprintf
  <2>1. /\ UNCHANGED <<file, pos, dropped, method, result>> /\ pc = "print" /\ pc' = "print"
        /\ printed' = printed + 1 /\ printed < Last /\ Len(buf) < BufSize
        /\ buf' = Append(buf, Text[printed + 1]) /\ result = "none"
    BY <1>6, <1>a DEF Fprintf, Goto, Places
  <2>2. Opened
    BY <2>1, <1>a DEF Opened, Places
  <2>3. /\ pos + Len(buf) = printed /\ \A k \in 1 .. Len(buf) : buf[k] = Text[pos + k]
        /\ pos \in Nat /\ printed \in Nat /\ Len(buf) \in Nat /\ buf \in Seq(1 .. Pieces)
    BY <2>1, <2>2, <1>a DEF Printed, ProgramOK
  <2>4. Text[printed + 1] \in 1 .. Pieces
    BY <2>1, <2>3, TextType
  <2>5. Len(buf') = Len(buf) + 1
    BY <2>1, <2>3, <2>4
  <2>6. ASSUME NEW k \in 1 .. Len(buf')
        PROVE  buf'[k] = Text[pos + k]
    <3>1. CASE k \in 1 .. Len(buf)
      BY <2>1, <2>3, <2>4, <3>1
    <3>2. CASE k = Len(buf) + 1
      <4>1. buf'[k] = Text[printed + 1]
        BY <2>1, <2>3, <2>4, <3>2
      <4>2. pos + k = printed + 1
        BY <2>3, <3>2
      <4> QED
        BY <4>1, <4>2
    <3> QED
      BY <2>3, <2>5, <3>1, <3>2
  <2>7. pos' + Len(buf') = printed' /\ printed' - pos' <= BufSize
    BY <2>1, <2>3, <2>5
  <2> QED
    BY <1>b, <2>1, <2>2, <2>6, <2>7 DEF Printed, file, Position
<1>7. CASE FprintfFlushes
  <2>1. PICK k \in 0 .. BufSize :
          /\ Flush(k)
          /\ buf' = IF k = BufSize THEN <<Text[printed + 1]>> ELSE <<>>
    BY <1>7 DEF FprintfFlushes
  <2>2. /\ pc = "print" /\ pc' = "print" /\ Len(buf) = BufSize /\ printed < Last
        /\ printed' = printed + 1 /\ result' = "none"
    BY <1>7, <1>a DEF FprintfFlushes, Goto, Places
  <2>3. /\ k = BufSize /\ pos' = printed
        /\ \A p \in Position : cache'[p] = IF p <= pos' THEN Text[p] ELSE 0
        /\ \A p \in Position \ dirty' : cache'[p] = disk'[p]
    BY <2>1, <2>2, FlushPrinted
  <2>4. printed \in Nat /\ Text[printed + 1] \in 1 .. Pieces
    BY <2>2, <1>a, TextType DEF ProgramOK
  <2>5. buf' = <<Text[printed + 1]>>
    BY <2>1, <2>3
  <2>6. Len(buf') = 1 /\ buf'[1] = Text[printed + 1]
    BY <2>4, <2>5
  <2>7. pos' + Len(buf') = printed'
    BY <2>2, <2>3, <2>6
  <2>8. \A i \in 1 .. Len(buf') : buf'[i] = Text[pos' + i]
    BY <2>3, <2>6
  <2>9. printed' - pos' <= BufSize
    BY <2>2, <2>3, <2>4
  <2> QED
    BY <1>b, <2>2, <2>3, <2>7, <2>8, <2>9 DEF Printed, Position
<1>8. CASE Fclose
  <2>1. PICK k \in 0 .. Len(buf) : Flush(k)
    BY <1>8 DEF Fclose
  <2>2. pc = "print" /\ pc' = "idle" /\ printed = Last /\ printed' = printed
    BY <1>8 DEF Fclose, Goto, Ends
  <2>3. /\ pos' = printed
        /\ \A p \in Position : cache'[p] = IF p <= pos' THEN Text[p] ELSE 0
        /\ \A p \in Position \ dirty' : cache'[p] = disk'[p]
    BY <2>1, <2>2, FlushPrinted
  <2>4. printed' - pos' <= BufSize
    BY <2>2, <2>3
  <2> QED
    BY <1>b, <2>2, <2>3, <2>4 DEF Printed, Position
<1>9. CASE Kill
  <2>1. pc # "open"
    BY <1>9, <1>a DEF Kill, Ends, Goto, Opened, Places
  <2> QED
    BY <1>9, <1>1, <2>1 DEF Kill, Ends, Goto
<1>10. CASE PowerFails
  BY <1>10 DEF PowerFails
<1>11. CASE UNCHANGED vars
  BY <1>11, <1>b DEF vars, program, file, Opened, Printed, Position
<1>12. CASE Kernel
  <2>1. UNCHANGED <<program, dropped>>
    BY <1>12 DEF Kernel
  <2>2. Opened /\ ~dropped
    BY <2>1 DEF program, Opened
  <2>3. CASE Writeback
    <3>1. PICK q \in dirty : Reaches({q}) /\ dirty' = dirty \ {q} /\ UNCHANGED cache
      BY <2>3 DEF Writeback
    <3>2. \A p \in Position \ dirty' : cache'[p] = disk'[p]
      BY <2>2, <3>1 DEF Printed, Reaches
    <3> QED
      BY <1>b, <2>1, <2>2, <3>1, <3>2 DEF Printed, program, Position
  <2>4. CASE Evict
    <3>1. PICK q \in Position \ dirty : cache[q] # disk[q]
      BY <2>4 DEF Evict
    <3> QED
      BY <2>2, <3>1 DEF Printed
  <2> QED
    BY <1>12, <2>3, <2>4 DEF Kernel
<1> QED
  BY <1>2, <1>3, <1>4, <1>5, <1>6, <1>7, <1>8, <1>9, <1>10, <1>11, <1>12
  DEF Next, WriteFile, PrintFile

\* print_file() loses no more than a buffer.
THEOREM OnlyBufferLost == Spec => []LosesOnlyTheBuffer
<1>1. Init => Printed
  BY DEF Init, Printed, Opened
<1>2. IInv /\ Printed => LosesOnlyTheBuffer
  <2> SUFFICES ASSUME IInv, Printed, method = "print_file", pc # "open", printed > 0, ~dropped
               PROVE  LosesOnlyTheBuffer
    BY DEF LosesOnlyTheBuffer
  <2>1. Opened
    BY DEF Opened
  <2>2. pos \in Nat /\ printed \in Nat /\ Len(buf) \in Nat /\ pos + Len(buf) <= printed
    BY Numbers DEF IInv, TypeOK, Places
  <2> QED
    BY <2>1, <2>2 DEF Printed, LosesOnlyTheBuffer
<1> QED
  BY <1>1, <1>2, NextPrinted, Inductive, PTL DEF Spec
=============================================================================
