----------------------------- MODULE DirEvents ------------------------------
(***************************************************************************)
(* 19-chap/main.c: a program that watches a directory with inotify and     *)
(* prints the events, against the processes that use the directory.        *)
(*                                                                         *)
(* The kernel keeps a queue of bounded length for the program: an event    *)
(* that equals the last one in the queue is merged with it, and events     *)
(* that find the queue full are lost, for which one overflow event is      *)
(* queued.  read() hands over as many whole events as fit into the buffer, *)
(* which has room for exactly one event with the longest name.             *)
(*                                                                         *)
(* Neither inotify_init() nor inotify_add_watch() is checked: read() on    *)
(* the descriptor -1 fails, and without a watch it waits.                  *)
(***************************************************************************)
EXTENDS Integers, Sequences, FiniteSets, SequencesExt

CONSTANTS
  MaxQueue,     \* events that the queue holds (/proc/.../max_queued_events)
  MaxEvents,    \* bound on the events that happen
  Faults        \* calls that may fail: "inotify_init", "inotify_add_watch"

ASSUME ConstantsAssumption ==
  /\ {MaxQueue, MaxEvents} \subseteq Nat \ {0}
  /\ Faults \subseteq {"inotify_init", "inotify_add_watch"}

VARIABLES
  pc,           \* where the program stands
  fd,           \* whether there is an inotify descriptor
  watched,      \* whether the kernel watches the directory
  queue,        \* the events that the kernel holds for the program
  buf,          \* the events in the buffer, as the last read() has left them
  idx,          \* buf_idx, the offset of the next event in the buffer
  printed,      \* history: the events that have been printed
  happened,     \* history: the events that have happened since the watch
  before        \* history: how many had been read when the directory was removed

vars == <<pc, fd, watched, queue, buf, idx, printed, happened, before>>

\* Events by the length of the name behind them: none for an event of the
\* directory itself, a short one, the longest one with its final 0.
NameLen == [open |-> 0, create |-> 1, modify |-> 2,
            delete_self |-> 0, ignored |-> 0, overflow |-> 0, garbage |-> 0]
Activity == {"open", "create", "modify"}
NameMax  == 1

\* sizeof(struct inotify_event), in the same scale.
Header == 1

SizeOf(e) == Header + NameLen[e]

\* The bytes of s, each as the event it belongs to and its place there.
Bytes(s)     == UNION {{k} \X (1 .. SizeOf(s[k])) : k \in DOMAIN s}
SizeOfAll(s) == Cardinality(Bytes(s))

\* Mutant: no room for the 0 at the end of the longest name.
MutantBufSize == Header + NameMax

BufSize == Header + NameMax + 1

Init ==
  /\ pc = "inotify_init"
  /\ fd = FALSE
  /\ watched = FALSE
  /\ queue = <<>>
  /\ buf = <<>>
  /\ idx = 0
  /\ printed = <<>>
  /\ happened = <<>>
  /\ before = 0

InotifyInit ==
  /\ pc = "inotify_init"
  /\ pc' = "inotify_add_watch"
  /\ fd' \in {TRUE} \cup {x \in {FALSE} : "inotify_init" \in Faults}
  /\ UNCHANGED <<watched, queue, buf, idx, printed, happened, before>>

\* Fails where there is no such directory, or no descriptor.
AddWatch ==
  /\ pc = "inotify_add_watch"
  /\ pc' = "read"
  /\ watched' \in {fd} \cup {x \in {FALSE} : "inotify_add_watch" \in Faults}
  /\ UNCHANGED <<fd, queue, buf, idx, printed, happened, before>>

\* How many events of q one read() returns: the buffer holds q up to each of them.
Batch(q) == Cardinality({n \in 1 .. Len(q) : SizeOfAll(SubSeq(q, 1, n)) <= BufSize})

\* read() returns at least one event.
Read ==
  /\ pc = "read"
  /\ fd
  /\ queue # <<>>
  /\ Batch(queue) > 0
  /\ pc' = "walk"
  /\ buf' = SubSeq(queue, 1, Batch(queue))
  /\ queue' = SubSeq(queue, Batch(queue) + 1, Len(queue))
  /\ idx' = 0
  /\ UNCHANGED <<fd, watched, printed, happened, before>>

\* read() returns -1: no descriptor, or no room for the next event.
ReadFails ==
  /\ pc = "read"
  /\ fd => queue # <<>> /\ Batch(queue) = 0
  /\ pc' = "exited"
  /\ UNCHANGED <<fd, watched, queue, buf, idx, printed, happened, before>>

\* What the program takes for an event at offset i of the buffer.
EventAt(i) ==
  IF \E k \in 1 .. Len(buf) : SizeOfAll(SubSeq(buf, 1, k - 1)) = i
  THEN buf[CHOOSE k \in 1 .. Len(buf) : SizeOfAll(SubSeq(buf, 1, k - 1)) = i]
  ELSE "garbage"

\* Mutant: the name behind the event is not skipped.
MutantPrintEvent ==
  /\ pc = "walk"
  /\ idx < SizeOfAll(buf)
  /\ printed' = Append(printed, EventAt(idx))
  /\ idx' = idx + Header
  /\ UNCHANGED <<pc, fd, watched, queue, buf, happened, before>>

\* Mutant: only the first event of a batch is printed.
MutantPrintFirst ==
  /\ pc = "walk"
  /\ idx < SizeOfAll(buf)
  /\ printed' = Append(printed, EventAt(idx))
  /\ idx' = SizeOfAll(buf)
  /\ UNCHANGED <<pc, fd, watched, queue, buf, happened, before>>

\* One turn of the inner loop.
PrintEvent ==
  /\ pc = "walk"
  /\ idx < SizeOfAll(buf)
  /\ printed' = Append(printed, EventAt(idx))
  /\ idx' = idx + SizeOf(EventAt(idx))
  /\ UNCHANGED <<pc, fd, watched, queue, buf, happened, before>>

Walked ==
  /\ pc = "walk"
  /\ idx >= SizeOfAll(buf)
  /\ pc' = "read"
  /\ UNCHANGED <<fd, watched, queue, buf, idx, printed, happened, before>>

\* The events in the buffer that have not been printed yet.
Unprinted ==
  IF \E k \in 0 .. Len(buf) : SizeOfAll(SubSeq(buf, 1, k)) = idx
  THEN SubSeq(buf, 1 + CHOOSE k \in 0 .. Len(buf) : SizeOfAll(SubSeq(buf, 1, k)) = idx,
              Len(buf))
  ELSE <<"garbage">>

-----------------------------------------------------------------------------
\* The queue q after the kernel has queued the event e.
Queued(q, e) ==
  CASE Len(q) >= MaxQueue /\ Contains(q, "overflow")  -> q
    [] Len(q) >= MaxQueue /\ ~Contains(q, "overflow") -> Append(q, "overflow")
    [] Len(q) < MaxQueue ->
         IF q # <<>> /\ Last(q) = e THEN q ELSE Append(q, e)

\* Somebody uses the directory.
Use ==
  /\ watched
  /\ Len(happened) < MaxEvents
  /\ \E e \in Activity :
       /\ queue' = Queued(queue, e)
       /\ happened' = Append(happened, e)
  /\ UNCHANGED <<pc, fd, watched, buf, idx, printed, before>>

\* Somebody removes the directory, and the watch with it.
RemoveDirectory ==
  /\ watched
  /\ watched' = FALSE
  /\ queue' = Queued(Queued(queue, "delete_self"), "ignored")
  /\ happened' = happened \o <<"delete_self", "ignored">>
  /\ before' = Len(printed \o Unprinted)
  /\ UNCHANGED <<pc, fd, buf, idx, printed>>

Program == InotifyInit \/ AddWatch \/ Read \/ ReadFails \/ PrintEvent \/ Walked

Next == Program \/ Use \/ RemoveDirectory

Spec == Init /\ [][Next]_vars /\ WF_vars(Program)

-----------------------------------------------------------------------------
TypeOK ==
  /\ pc \in {"inotify_init", "inotify_add_watch", "read", "walk", "exited"}
  /\ fd \in BOOLEAN
  /\ watched \in BOOLEAN
  /\ {queue, buf, printed, happened} \subseteq Seq(DOMAIN NameLen)
  /\ Len(queue) <= MaxQueue + 1
  /\ idx \in 0 .. BufSize
  /\ before \in Nat

\* The places of s, up to k, with an event that does not repeat the one before it.
Heads(s, k) == {j \in 1 .. k : j = 1 \/ s[j] # s[j - 1]}

\* The runs of equal events in s, each with its number and its event.
Runs(s) == {<<Cardinality(Heads(s, k)), s[k]>> : k \in DOMAIN s}

\* What is printed, in the buffer and in the queue together is what has
\* happened, in its order and without a gap, but for repetitions that were
\* merged; only behind an overflow event something may be missing.
NothingSkipped ==
  LET seen == printed \o Unprinted \o queue
      lost == {k \in DOMAIN seen : seen[k] = "overflow"}
  IN  IF lost = {} THEN Runs(seen) = Runs(happened)
                   ELSE Runs(SubSeq(seen, 1, Min(lost) - 1)) \subseteq Runs(happened)

\* The buffer has room for the largest event, so read() never fails for want of
\* room: whatever is queued is printed, at the latest when the directory is
\* left alone.
CatchesUp == queue # <<>> ~> (queue = <<>> /\ Unprinted = <<>> /\ pc = "read")

\* A program whose directory is removed waits for ever in its read(), but not
\* without having told so: after all that had been read at the time of the
\* removal it prints that the watch is gone ("IN_IGNORED"), or that the queue was
\* full and events are missing ("IN_Q_OVERFLOW").
RemovalIsTold ==
  Contains(happened, "ignored")
    ~> \E k \in DOMAIN printed : k > before /\ printed[k] \in {"ignored", "overflow"}
=============================================================================
