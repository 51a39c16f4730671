------------------------------ MODULE Clocks --------------------------------
(***************************************************************************)
(* The clocks of the kernel, as far as 10-chap and 23-chap use them.  The  *)
(* unit of time is a second.                                               *)
(*                                                                         *)
(* CLOCK_MONOTONIC cannot be set.  CLOCK_REALTIME, which time() and        *)
(* gettimeofday() read, is offset seconds ahead of it; settimeofday()      *)
(* changes the offset.  adjtime() asks for an adjustment that is made      *)
(* little by little, one unit of half a millisecond in every second; that  *)
(* is too little to be seen in the seconds of a clock and is counted in    *)
(* units of its own.                                                       *)
(***************************************************************************)
EXTENDS Integers

CONSTANT
  MaxTime       \* bound on the time that passes

ASSUME MaxTimeAssumption == MaxTime \in Nat

VARIABLES
  now,          \* CLOCK_MONOTONIC
  offset,       \* CLOCK_REALTIME - CLOCK_MONOTONIC
  slewing       \* what is left to do of the adjustment

clock == <<now, offset, slewing>>

Realtime == now + offset

ClockInit ==
  /\ now = 0
  /\ offset = 0
  /\ slewing = 0

Tick ==
  /\ now < MaxTime
  /\ now' = now + 1
  /\ slewing' = IF slewing > 0 THEN slewing - 1 ELSE 0
  /\ UNCHANGED offset

\* adjtime(&adj, NULL) replaces what was left of an earlier adjustment.
AdjTime(adj) ==
  /\ slewing' = adj
  /\ UNCHANGED <<now, offset>>

\* settimeofday(&tv, NULL) also stops the adjustment.
SetTimeOfDay(tv) ==
  /\ offset' = tv - now
  /\ slewing' = 0
  /\ UNCHANGED now
=============================================================================
