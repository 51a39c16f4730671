--------------------------- MODULE DurableWrite -----------------------------
(***************************************************************************)
(* 13-chap/main.c: write_file(), which calls fsync() after every record,   *)
(* and print_file(), which prints the same text piece by piece through a   *)
(* stdio buffer of its own, into the same file.  main() calls one of them, *)
(* may be killed at any point and may be started again over what is left;  *)
(* power may fail.                                                         *)
(*                                                                         *)
(* write_file() opens the file without O_TRUNC, print_file() with it.  The *)
(* open() with O_CREAT has no mode, so the file may get permissions with   *)
(* which no later run can open it; OpenFails covers that.                  *)
(***************************************************************************)
EXTENDS PageCache, Sequences

CONSTANTS
  N,            \* records of the text (10000)
  Pieces,       \* fprintf() calls for one record (4)
  BufSize,      \* pieces that fit into the stdio buffer (BUFSIZ)
  MaxRuns,      \* how often the program may be started
  Faults        \* calls that may fail: "open", "setvbuf", "write", "fsync", "close"

ASSUME ConstantsAssumption ==
  /\ {N, Pieces, BufSize} \subseteq Nat \ {0}
  /\ MaxRuns \in Nat
  /\ N * Pieces <= Size
  /\ Faults \subseteq {"open", "setvbuf", "write", "fsync", "close"}

VARIABLES
  pc,           \* where the program stands
  method,       \* the function that main() calls
  cnt,          \* records that write_file() has written and synchronised
  pos,          \* the file offset of print_file(), in pieces
  buf,          \* the stdio buffer of print_file()
  printed,      \* pieces that print_file() has given to fprintf()
  result,       \* how the last run has ended: "none", "ok" or "failed"
  runs,         \* how often the program has been started
  confirmed,    \* history: records whose fsync() has returned 0
  dropped       \* history: a failed write has emptied the buffer, or power has
                \* failed, since print_file() opened the file

program == <<pc, method, cnt, pos, buf, printed, result, runs>>
vars    == <<file, program, confirmed, dropped>>

\* The text: its pieces are known by their place in the record.  0 stands for
\* what is beyond the end of a file or has never been written, -1 for the
\* bytes of an older text.
Last == N * Pieces
Text == [p \in Position |-> IF p <= Last THEN ((p - 1) % Pieces) + 1 ELSE 0]

Record   == 1 .. N
Cells(r) == {p \in Position : (r - 1) * Pieces < p /\ p <= r * Pieces}

OnDisk(r) == \A p \in Cells(r) : disk[p] = Text[p]

Init ==
  /\ cache \in {[p \in Position |-> x] : x \in {0, -1}}
  /\ disk = cache
  /\ dirty = {}
  /\ pc = "idle"
  /\ method = "write_file"
  /\ cnt = 0
  /\ pos = 0
  /\ buf = <<>>
  /\ printed = 0
  /\ result = "none"
  /\ runs = 0
  /\ confirmed = {}
  /\ dropped = FALSE

Goto(a, b) ==
  /\ pc = a
  /\ pc' = b

\* The process ends: the function returns or calls exit().
Ends(a, how) ==
  /\ Goto(a, "idle")
  /\ result' = how

Start ==
  /\ Goto("idle", "open")
  /\ runs < MaxRuns
  /\ runs' = runs + 1
  /\ method' \in {"write_file", "print_file"}
  /\ result' = "none"
  /\ cnt' = 0
  /\ pos' = 0
  /\ buf' = <<>>
  /\ printed' = 0
  /\ UNCHANGED <<file, confirmed, dropped>>

OpenFails ==
  /\ "open" \in Faults
  /\ Ends("open", "failed")
  /\ UNCHANGED <<file, method, cnt, pos, buf, printed, runs, confirmed, dropped>>

-----------------------------------------------------------------------------
\* write_file()

\* Mutant: the file is opened with O_TRUNC.
MutantOpenTruncates ==
  /\ method = "write_file"
  /\ Goto("open", "write")
  /\ Truncate
  /\ UNCHANGED <<method, cnt, pos, buf, printed, result, runs, confirmed, dropped>>

Open ==
  /\ method = "write_file"
  /\ Goto("open", "write")
  /\ UNCHANGED <<file, method, cnt, pos, buf, printed, result, runs, confirmed, dropped>>

\* write() stores the whole record.
Write ==
  /\ Goto("write", "fsync")
  /\ cnt < N
  /\ CacheWrite(Cells(cnt + 1), Text)
  /\ UNCHANGED <<method, cnt, pos, buf, printed, result, runs, confirmed, dropped>>

\* write() stores less than the record, or nothing.
ShortWrite ==
  /\ "write" \in Faults
  /\ Ends("write", "failed")
  /\ cnt < N
  /\ \E k \in 0 .. Pieces - 1 :
       CacheWrite({p \in Cells(cnt + 1) : p <= cnt * Pieces + k}, Text)
  /\ UNCHANGED <<method, cnt, pos, buf, printed, runs, confirmed, dropped>>

\* fsync() returns 0: the record is safe.
Fsync ==
  /\ Goto("fsync", "write")
  /\ Sync
  /\ cnt' = cnt + 1
  /\ confirmed' = confirmed \cup {cnt + 1}
  /\ UNCHANGED <<method, pos, buf, printed, result, runs, dropped>>

\* Mutant: the result of fsync() is not looked at.
MutantFsyncFails ==
  /\ "fsync" \in Faults
  /\ Goto("fsync", "write")
  /\ SyncFails
  /\ cnt' = cnt + 1
  /\ UNCHANGED <<method, pos, buf, printed, result, runs, confirmed, dropped>>

FsyncFails ==
  /\ "fsync" \in Faults
  /\ Ends("fsync", "failed")
  /\ SyncFails
  /\ UNCHANGED <<method, cnt, pos, buf, printed, runs, confirmed, dropped>>

\* close() and return; close() may fail.
Close ==
  /\ cnt = N
  /\ \/ Ends("write", "ok")
     \/ "close" \in Faults /\ Ends("write", "failed")
  /\ UNCHANGED <<file, method, cnt, pos, buf, printed, runs, confirmed, dropped>>

-----------------------------------------------------------------------------
\* print_file()

\* fopen(..., "w") empties the file.
Fopen ==
  /\ method = "print_file"
  /\ Goto("open", "setvbuf")
  /\ Truncate
  /\ confirmed' = {}
  /\ dropped' = FALSE
  /\ UNCHANGED <<method, cnt, pos, buf, printed, result, runs>>

SetVBuf ==
  /\ \/ Goto("setvbuf", "print") /\ UNCHANGED result
     \/ "setvbuf" \in Faults /\ Ends("setvbuf", "failed")
  /\ UNCHANGED <<file, method, cnt, pos, buf, printed, runs, confirmed, dropped>>

\* The library writes the buffer out; of a buffer that cannot be written as a
\* whole (k pieces were) the rest is thrown away.
Flush(k) ==
  /\ k < Len(buf) => "write" \in Faults
  /\ CacheWrite((pos + 1) .. (pos + k), [p \in Position |-> buf[p - pos]])
  /\ pos' = pos + k
  /\ dropped' = (dropped \/ k < Len(buf))

\* Mutant: a full buffer is emptied without having been written.
MutantFprintfFlushes ==
  /\ Goto("print", "print")
  /\ printed < Last
  /\ Len(buf) = BufSize
  /\ buf' = <<Text[printed + 1]>>
  /\ printed' = printed + 1
  /\ UNCHANGED <<file, method, cnt, pos, result, runs, confirmed, dropped>>

\* One fprintf(), whose result is not looked at: the piece fits into the
\* buffer...
Fprintf ==
  /\ Goto("print", "print")
  /\ printed < Last
  /\ Len(buf) < BufSize
  /\ buf' = Append(buf, Text[printed + 1])
  /\ printed' = printed + 1
  /\ UNCHANGED <<file, method, cnt, pos, result, runs, confirmed, dropped>>

\* ... or the buffer is full and is written first.  If that fails the piece
\* is thrown away with it.
FprintfFlushes ==
  /\ Goto("print", "print")
  /\ printed < Last
  /\ Len(buf) = BufSize
  /\ \E k \in 0 .. BufSize :
       /\ Flush(k)
       /\ buf' = IF k = BufSize THEN <<Text[printed + 1]>> ELSE <<>>
  /\ printed' = printed + 1
  /\ UNCHANGED <<method, cnt, result, runs, confirmed>>

\* Mutant: the file is closed without a flush (the process calls _exit()).
MutantFclose ==
  /\ printed = Last
  /\ Ends("print", "ok")
  /\ UNCHANGED <<file, method, cnt, pos, buf, printed, runs, confirmed, dropped>>

\* fclose() writes what is left and reports a failure of that write or of
\* close(); of earlier ones it says nothing.
Fclose ==
  /\ printed = Last
  /\ \E k \in 0 .. Len(buf) :
       /\ Flush(k)
       /\ \/ k = Len(buf) /\ Ends("print", "ok")
          \/ k < Len(buf) /\ Ends("print", "failed")
          \/ k = Len(buf) /\ "close" \in Faults /\ Ends("print", "failed")
  /\ buf' = <<>>
  /\ UNCHANGED <<method, cnt, printed, runs, confirmed>>

-----------------------------------------------------------------------------
\* The program is killed.
Kill ==
  /\ pc # "idle"
  /\ Ends(pc, "failed")
  /\ buf' = <<>>
  /\ UNCHANGED <<file, method, cnt, pos, printed, runs, confirmed, dropped>>

\* Power fails; the machine comes up again.
PowerFails ==
  /\ Crash
  /\ pc' = "idle"
  /\ buf' = <<>>
  /\ result' = IF pc = "idle" THEN result ELSE "failed"
  /\ dropped' = TRUE
  /\ UNCHANGED <<method, cnt, pos, printed, runs, confirmed>>

Kernel ==
  /\ Writeback \/ Evict
  /\ UNCHANGED <<program, confirmed, dropped>>

WriteFile == Open \/ Write \/ ShortWrite \/ Fsync \/ FsyncFails \/ Close
PrintFile == Fopen \/ SetVBuf \/ Fprintf \/ FprintfFlushes \/ Fclose

Next ==
  \/ Start
  \/ OpenFails
  \/ WriteFile
  \/ PrintFile
  \/ Kill
  \/ PowerFails
  \/ Kernel

\* The kernel writes every dirty cell some time.
Fairness == WF_vars(Writeback /\ UNCHANGED <<program, confirmed, dropped>>)

Spec == Init /\ [][Next]_vars /\ Fairness

-----------------------------------------------------------------------------
TypeOK ==
  /\ cache \in [Position -> -1 .. Pieces]
  /\ disk \in [Position -> -1 .. Pieces]
  /\ dirty \subseteq Position
  /\ pc \in {"idle", "open", "write", "fsync", "setvbuf", "print"}
  /\ method \in {"write_file", "print_file"}
  /\ cnt \in 0 .. N
  /\ pos \in 0 .. Last
  /\ buf \in Seq(1 .. Pieces)
  /\ printed \in 0 .. Last
  /\ result \in {"none", "ok", "failed"}
  /\ runs \in 0 .. MaxRuns
  /\ confirmed \subseteq Record
  /\ dropped \in BOOLEAN

\* "a synchonous write (O_SYNC) is equivalent to an asynchronous write with a
\* following fsync": a record whose fsync() has returned 0 is on the disk, and
\* stays there through kills, power failures, failing calls and further runs of
\* write_file(), until print_file() empties the file.
Promise == INSTANCE Durable WITH saved <- {r \in Record : OnDisk(r)}

ImplementsDurable == Promise!Spec

\* A write_file() that has returned has left the whole text on the disk,
\* whatever has happened since.
ReturnedIsStored ==
  result = "ok" /\ method = "write_file" => \A r \in Record : OnDisk(r)

\* print_file() loses only its latest pieces: unless a write or the power has
\* failed, the file holds the beginning of the text and nothing else, up to
\* at most one buffer before the last piece printed, whether the program
\* runs, has been killed or has ended; and all of it once it has returned.
LosesOnlyTheBuffer ==
  method = "print_file" /\ pc \notin {"open"} /\ printed > 0 /\ ~dropped =>
    /\ \A p \in Position : cache[p] = IF p <= pos THEN Text[p] ELSE 0
    /\ pos <= printed
    /\ printed - pos <= BufSize
    /\ result = "ok" => pos = Last

\* What a print_file() that has returned has printed without a failed write
\* is on the disk at last, unless the power fails first or the program is
\* started again.
PrintedIsStoredAtLast ==
  (result = "ok" /\ method = "print_file" /\ ~dropped)
    ~> (dropped \/ pc # "idle" \/ \A r \in Record : OnDisk(r))
=============================================================================
