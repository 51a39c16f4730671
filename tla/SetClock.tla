----------------------------- MODULE SetClock -------------------------------
(***************************************************************************)
(* 10-chap/main.c: a program that reads and converts the time, asks for an *)
(* adjustment of half a second, watches it for four seconds and then lets  *)
(* the system time jump one minute into the future, by reading the time,   *)
(* adding 60 to it and setting it.  Several copies may run.                *)
(*                                                                         *)
(* Every call is checked and a failure ends the program; the calls before  *)
(* adjtime(&adj, NULL) change nothing, and a program without privilege     *)
(* fails there.                                                            *)
(***************************************************************************)
EXTENDS Clocks, FiniteSets

CONSTANTS
  Setter,       \* the processes that run the program
  Jump,         \* one minute
  HalfSecond,   \* half a second, in units of adjustment (1000)
  Watching,     \* how long the adjustment is watched (4)
  SetterFaults  \* calls that may fail: "read", "adjtime", "settimeofday"

ASSUME SetClockAssumption ==
  /\ IsFiniteSet(Setter)
  /\ {Jump, HalfSecond, Watching} \subseteq Nat \ {0}
  /\ HalfSecond > Watching
  /\ SetterFaults \subseteq {"read", "adjtime", "settimeofday"}

VARIABLES
  at,           \* where each process stands
  tv,           \* the struct timeval of each process: what it has read
  adj,          \* what each process has read of the adjustment
  since,        \* when each process has last set or read the clock
  disturbed,    \* history: whether another process has changed the clock since then
  jumped,       \* history: the processes that have let the system time jump
  overlapped,   \* history: those between whose reading and setting another one read
                \* or was about to set
  late          \* history: the time from reading to setting, of all jumps together

setterState == <<at, tv, adj, since>>
jumps       == <<jumped, overlapped, late>>
setterVars  == <<setterState, disturbed, jumps>>

Place == {"start", "convert", "adjtime", "usleep", "gettimeofday", "settimeofday",
          "look", "done", "failed"}

SetterTypeOK ==
  /\ at \in [Setter -> Place]
  /\ tv \in [Setter -> Int]
  /\ adj \in [Setter -> 0 .. HalfSecond]
  /\ since \in [Setter -> Nat]
  /\ disturbed \in [Setter -> BOOLEAN]
  /\ {jumped, overlapped} \subseteq SUBSET Setter
  /\ late \in Nat

SetterInit ==
  /\ at = [p \in Setter |-> "start"]
  /\ tv = [p \in Setter |-> 0]
  /\ adj = [p \in Setter |-> 0]
  /\ since = [p \in Setter |-> 0]
  /\ disturbed = [p \in Setter |-> FALSE]
  /\ jumped = {}
  /\ overlapped = {}
  /\ late = 0

GoesTo(p, a, b) ==
  /\ at[p] = a
  /\ at' = [at EXCEPT ![p] = b]

\* A call fails, an error is printed and main() returns EXIT_FAILURE.
Fails(p, a, call) ==
  /\ call \in SetterFaults
  /\ GoesTo(p, a, "failed")
  /\ UNCHANGED <<clock, tv, adj, since, disturbed, jumps>>

\* What p does to the clock disturbs all the others.
DisturbedBy(p) == [q \in Setter |-> q # p]

\* The histories of a process p that has read the time to set it: it overlaps with
\* those that have read it already and not yet set it, and they with p.
Overlaps(p) ==
  LET others == {q \in Setter \ {p} : at[q] = "settimeofday"}
  IN  overlapped' = overlapped \cup others \cup {x \in {p} : others # {}}

\* ... and of its jump.
Jumps(p) ==
  /\ jumped' = jumped \cup {p}
  /\ late' = late + (now - since[p])
  /\ disturbed' = DisturbedBy(p)

\* time() and gettimeofday().
ReadEpoch(p) ==
  \/ /\ GoesTo(p, "start", "convert")
     /\ tv' = [tv EXCEPT ![p] = Realtime]
     /\ UNCHANGED <<clock, adj, since, disturbed, jumps>>
  \/ Fails(p, "start", "read")

\* The conversions, the time zone and the locale; adjtime(NULL, &adj).
Convert(p) ==
  \/ /\ GoesTo(p, "convert", "adjtime")
     /\ adj' = [adj EXCEPT ![p] = slewing]
     /\ UNCHANGED <<clock, tv, since, disturbed, jumps>>
  \/ Fails(p, "convert", "read")

\* adjtime() of half a second.
SetAdjustment(p) ==
  \/ /\ GoesTo(p, "adjtime", "usleep")
     /\ AdjTime(HalfSecond)
     /\ since' = [since EXCEPT ![p] = now]
     /\ disturbed' = DisturbedBy(p)
     /\ UNCHANGED <<tv, adj, jumps>>
  \/ Fails(p, "adjtime", "adjtime")

\* Mutant: the program does not wait before it reads the adjustment again.
MutantReadAdjustment(p) ==
  /\ GoesTo(p, "usleep", "gettimeofday")
  /\ adj' = [adj EXCEPT ![p] = slewing]
  /\ UNCHANGED <<clock, tv, since, disturbed, jumps>>

\* usleep() and adjtime(NULL, &adj).
ReadAdjustment(p) ==
  \/ /\ now >= since[p] + Watching
     /\ GoesTo(p, "usleep", "gettimeofday")
     /\ adj' = [adj EXCEPT ![p] = slewing]
     /\ UNCHANGED <<clock, tv, since, disturbed, jumps>>
  \/ Fails(p, "usleep", "read")

\* Mutant: the time is not read again before the minute is added to it.
MutantReadTime(p) ==
  /\ GoesTo(p, "gettimeofday", "settimeofday")
  /\ since' = [since EXCEPT ![p] = now]
  /\ Overlaps(p)
  /\ UNCHANGED <<clock, tv, adj, disturbed, jumped, late>>

ReadTime(p) ==
  \/ /\ GoesTo(p, "gettimeofday", "settimeofday")
     /\ tv' = [tv EXCEPT ![p] = Realtime]
     /\ since' = [since EXCEPT ![p] = now]
     /\ Overlaps(p)
     /\ UNCHANGED <<clock, adj, disturbed, jumped, late>>
  \/ Fails(p, "gettimeofday", "read")

\* tv.tv_sec += 60 and settimeofday().
SetTime(p) ==
  \/ /\ GoesTo(p, "settimeofday", "look")
     /\ SetTimeOfDay(tv[p] + Jump)
     /\ tv' = [tv EXCEPT ![p] = @ + Jump]
     /\ Jumps(p)
     /\ UNCHANGED <<adj, since, overlapped>>
  \/ Fails(p, "settimeofday", "settimeofday")

\* gettimeofday() once more, and clock().
LookAgain(p) ==
  \/ /\ GoesTo(p, "look", "done")
     /\ tv' = [tv EXCEPT ![p] = Realtime]
     /\ UNCHANGED <<clock, adj, since, disturbed, jumps>>
  \/ Fails(p, "look", "read")

Sets(p) ==
  \/ ReadEpoch(p) \/ Convert(p) \/ SetAdjustment(p) \/ ReadAdjustment(p)
  \/ ReadTime(p) \/ SetTime(p) \/ LookAgain(p)

-----------------------------------------------------------------------------
\* "to see that the system is actively making small adjustments": the second
\* reading shows that the clock has been adjusted in every second of the wait,
\* unless another process has changed the clock in the meantime.
SlewingIsSeen ==
  \A p \in Setter :
    at[p] = "gettimeofday" /\ ~disturbed[p] => adj[p] <= HalfSecond - Watching

Minutes(S) == Jump * Cardinality(S)

\* Copies that jump at the same time may undo each other's jumps, but nobody
\* else's: every process that read and set the clock without another one in
\* between has moved the system time by its minute, less the time it took to set
\* it; those that overlapped have moved it by one minute at least, all together;
\* and it never moves by more than a minute for each.
LostOnlyToOverlap ==
  /\ offset <= Minutes(jumped)
  /\ offset + late >= Minutes(jumped \ overlapped)
                       + (IF jumped \cap overlapped # {} THEN Jump ELSE 0)
=============================================================================
