--------------------------- MODULE Clocks_proofs ----------------------------
(***************************************************************************)
(* The programs that use the clocks, for every number of setters, every    *)
(* interval, every sleep and every bound on the lateness: what a setter    *)
(* sees of its own adjustment, what the jumps of all of them add up to,    *)
(* and when and how often the callbacks of the timer run.                  *)
(*                                                                         *)
(* The setters and the timer share the clock only.  Each half has its own  *)
(* invariant: the setters' one is kept by every step of the timer's        *)
(* program, and by the passing of time, because neither touches what the   *)
(* setters remember; the timer's one is kept by every setter, because      *)
(* nothing a setter can do moves CLOCK_MONOTONIC.                          *)
(***************************************************************************)
EXTENDS MCClocks, FiniteSetTheorems, TLAPS

vars == <<clock, setterVars, timerVars>>

(* what has to be known of the setters *)

ClockTypeOK == now \in Nat /\ offset \in Int /\ slewing \in 0 .. HalfSecond

\* No process reads the clock before it has come to be; and what is left of an
\* undisturbed adjustment is what the seconds since then have not yet done.
Slewing ==
  \A p \in Setter :
    /\ since[p] <= now
    /\ at[p] = "usleep" /\ ~disturbed[p] =>
         slewing = IF now - since[p] < HalfSecond THEN HalfSecond - (now - since[p]) ELSE 0

\* A process that is about to set the clock will set it from the offset it has
\* read: the present one, if nobody overlaps with it, and else one that accounts
\* for all the processes that have jumped and did not overlap.
About ==
  \A p \in Setter : at[p] = "settimeofday" =>
    /\ p \notin jumped
    /\ tv[p] - since[p] <= Minutes(jumped)
    /\ p \notin overlapped => tv[p] - since[p] = offset
    /\ p \in overlapped => tv[p] - since[p] + late >= Minutes(jumped \ overlapped)
    /\ \A q \in Setter : q # p /\ at[q] = "settimeofday" => p \in overlapped

\* Who has made the system time jump does not set it again.
Once == \A p \in jumped : at[p] \in {"look", "done", "failed"}

SlewInv == ClockTypeOK /\ SetterTypeOK /\ Slewing /\ SlewingIsSeen

JumpInv == About /\ Once /\ LostOnlyToOverlap

SetterInv == SlewInv /\ JumpInv

-----------------------------------------------------------------------------
(* what has to be known of the timer *)

\* The n-th multiple of the interval.
Multiple(n) == n * Interval

\* The expiries that a callback was or will be started for.
Fired == Len(callbacks) + (IF pending THEN 1 ELSE 0)

\* No expiry was counted as an overrun, and no call has failed.
OnClock == lag < Interval /\ ~failed

\* What main() has made of the timer, wherever main() stands.
Stage ==
  /\ main \in {"notStarted", "print", "sleep", "create"} => timer = "none"
  /\ main = "set" => timer \in {"created", "none"}
  /\ main \in {"run", "delete"} => timer \in {"armed", "none"}
  /\ main \in {"verify", "exited"} => timer \in {"deleted", "none"}
  /\ main = "crashed" => timer = "none"
  /\ main \in {"set", "run", "delete", "verify", "exited"} /\ timer = "none" => failed
  /\ timer # "armed" => ~pending
  /\ timer \in {"none", "created"} => callbacks = <<>>

\* The next expiry is never far ahead and never missed; main() is late by lag
\* at most; an expiry that is queued is late by lag at most; and on the clock
\* no expiry is left out.
Timing ==
  /\ timer = "armed" =>
       /\ due - Interval <= now /\ now <= due
       /\ now <= set + LetRun + lag
       /\ OnClock => due = set + Multiple(Fired + 1)
       /\ main = "run" => wake = set + LetRun
       /\ main = "delete" => set + LetRun <= now
  /\ timer \in {"armed", "deleted"} =>
       /\ set + Multiple(Fired + 1) <= due
       /\ due - Interval <= set + LetRun + lag
  /\ pending => now - (due - Interval) <= lag

\* A callback that has still to read or to print the time is late by lag at most.
Shown ==
  OnClock =>
    \A n \in DOMAIN callbacks :
      /\ set + Multiple(n) <= now
      /\ callbacks[n].at # "returned" => now - (set + Multiple(n)) <= lag
      /\ callbacks[n].at \in {"print", "returned"} =>
           callbacks[n].monotonic - (set + Multiple(n)) \in 0 .. lag

\* On time to the second, the timer is deleted after all that was to be printed.
Silent ==
  lag = 0 /\ ~failed /\ main \in {"verify", "exited"} =>
    /\ Len(callbacks) = LetRun \div Interval
    /\ \A n \in DOMAIN callbacks : callbacks[n].at = "returned"

TimerInv == now \in Nat /\ TimerTypeOK /\ Stage /\ Timing /\ Shown /\ Silent

-----------------------------------------------------------------------------
LEMMA Numbers ==
  /\ HalfSecond \in Nat /\ Watching \in Nat /\ Jump \in Nat /\ HalfSecond > Watching
  /\ FirstSleep \in Nat /\ Interval \in Nat /\ LetRun \in Nat /\ Verify \in Nat
  /\ Interval > 0 /\ LetRun > 0 /\ MaxLag \in Nat
BY SetClockAssumption, TimerAssumption

LEMMA MultipleType ==
  ASSUME NEW n \in Nat
  PROVE  Multiple(n) \in Nat
BY Numbers DEF Multiple

LEMMA MultipleNext ==
  ASSUME NEW n \in Nat
  PROVE  Multiple(n + 1) = Multiple(n) + Interval
BY Numbers DEF Multiple

LEMMA MultipleGrows ==
  ASSUME NEW m \in Nat, NEW n \in Nat, m < n
  PROVE  Multiple(m) + Interval <= Multiple(n)
BY Numbers DEF Multiple

LEMMA MultipleMonotone ==
  ASSUME NEW m \in Nat, NEW n \in Nat, m <= n
  PROVE  Multiple(m) <= Multiple(n)
<1>1. CASE m = n
  BY <1>1, MultipleType
<1>2. CASE m < n
  BY <1>2, MultipleType, MultipleGrows, Numbers
<1> QED
  BY <1>1, <1>2

LEMMA Remainder ==
  /\ LetRun \div Interval \in Nat
  /\ LetRun % Interval \in 1 .. Interval - 1
  /\ LetRun = Multiple(LetRun \div Interval) + (LetRun % Interval)
BY TimerAssumption DEF Multiple

-----------------------------------------------------------------------------
(* the setters *)

LEMMA MinutesType ==
  ASSUME NEW S \in SUBSET Setter
  PROVE  /\ IsFiniteSet(S) /\ Minutes(S) \in Nat /\ Minutes({}) = 0
         /\ \A p \in Setter \ S : Minutes(S \cup {p}) = Minutes(S) + Jump
<1>1. IsFiniteSet(S)
  BY SetClockAssumption, FS_Subset
<1>2. Cardinality(S) \in Nat /\ Cardinality({}) = 0
  BY <1>1, FS_CardinalityType, FS_EmptySet
<1>3. ASSUME NEW p \in Setter \ S
      PROVE  Minutes(S \cup {p}) = Minutes(S) + Jump
  <2>1. Cardinality(S \cup {p}) = Cardinality(S) + 1
    BY <1>1, FS_AddElement
  <2> QED
    BY <1>2, <2>1, Numbers DEF Minutes
<1>4. Minutes(S) \in Nat /\ Minutes({}) = 0
  BY <1>2, Numbers DEF Minutes
<1> QED
  BY <1>1, <1>3, <1>4

LEMMA SetterInitInv == Init => SetterInv
<1> SUFFICES ASSUME Init
             PROVE  SetterInv
  OBVIOUS
<1> USE Numbers DEF Init, ClockInit, SetterInit
<1>1. ClockTypeOK
  BY DEF ClockTypeOK
<1>2. at \in [Setter -> Place] /\ tv \in [Setter -> Int] /\ since \in [Setter -> Nat]
  BY DEF Place
<1>3. adj \in [Setter -> 0 .. HalfSecond]
  OBVIOUS
<1>4. disturbed \in [Setter -> BOOLEAN] /\ late \in Nat
  OBVIOUS
<1>5. SetterTypeOK
  BY <1>2, <1>3, <1>4 DEF SetterTypeOK
<1>6. Slewing
  BY DEF Slewing
<1>7. SlewingIsSeen
  BY DEF SlewingIsSeen
<1>8. About /\ Once
  BY DEF About, Once
<1>9. LostOnlyToOverlap
  <2>1. jumped = {} /\ jumped \ overlapped = {} /\ jumped \cap overlapped = {}
    OBVIOUS
  <2>2. Minutes(jumped) = 0 /\ Minutes(jumped \ overlapped) = 0
    BY <2>1, MinutesType
  <2> QED
    BY <2>1, <2>2 DEF LostOnlyToOverlap
<1> QED
  BY <1>1, <1>5, <1>6, <1>7, <1>8, <1>9 DEF SetterInv, SlewInv, JumpInv

LEMMA DisturbedByType ==
  ASSUME NEW p \in Setter
  PROVE  /\ DisturbedBy(p) \in [Setter -> BOOLEAN]
         /\ \A q \in Setter : q # p => DisturbedBy(p)[q]
         /\ ~DisturbedBy(p)[p]
BY DEF DisturbedBy

\* A failing call leaves the clock and the histories as they are.
LEMMA FailsSlewInv ==
  ASSUME SlewInv, NEW p \in Setter, NEW a, NEW call, Fails(p, a, call)
  PROVE  SlewInv'
BY Numbers DEF SlewInv, Fails, GoesTo, clock, jumps, ClockTypeOK, SetterTypeOK, Place, Slewing,
   SlewingIsSeen

LEMMA SetsSlewInv ==
  ASSUME SlewInv, NEW p \in Setter, Sets(p)
  PROVE  SlewInv'
<1> USE Numbers DEF SlewInv, GoesTo, clock, jumps, ClockTypeOK, SetterTypeOK, Place, Slewing,
        SlewingIsSeen, Realtime
<1>1. CASE ReadEpoch(p)
  BY <1>1, FailsSlewInv DEF ReadEpoch
<1>2. CASE Convert(p)
  BY <1>2, FailsSlewInv DEF Convert
<1>3. CASE SetAdjustment(p)
  BY <1>3, FailsSlewInv, DisturbedByType DEF SetAdjustment, AdjTime
<1>4. CASE ReadAdjustment(p)
  BY <1>4, FailsSlewInv DEF ReadAdjustment
<1>5. CASE ReadTime(p)
  <2>1. overlapped' \in SUBSET Setter \/ Fails(p, "gettimeofday", "read")
    BY <1>5 DEF ReadTime, Overlaps
  <2> QED
    BY <1>5, <2>1, FailsSlewInv DEF ReadTime
<1>6. CASE SetTime(p)
  <2> SUFFICES ASSUME GoesTo(p, "settimeofday", "look"),
                      SetTimeOfDay(tv[p] + Jump),
                      tv' = [tv EXCEPT ![p] = @ + Jump],
                      Jumps(p),
                      UNCHANGED <<adj, since, overlapped>>
               PROVE  SlewInv'
    BY <1>6, FailsSlewInv DEF SetTime
  <2> USE DEF SetTimeOfDay
  <2>1. /\ jumped' = jumped \cup {p} /\ late' = late + (now - since[p])
        /\ disturbed' = DisturbedBy(p)
    BY DEF Jumps
  <2>2. late' \in Nat /\ jumped' \in SUBSET Setter
    BY <2>1
  <2>3. ClockTypeOK'
    OBVIOUS
  <2>4. SetterTypeOK'
    BY <2>1, <2>2, DisturbedByType
  <2>5. Slewing' /\ SlewingIsSeen'
    BY <2>1, DisturbedByType
  <2> QED
    BY <2>3, <2>4, <2>5
<1>7. CASE LookAgain(p)
  BY <1>7, FailsSlewInv DEF LookAgain
<1> QED
  BY <1>1, <1>2, <1>3, <1>4, <1>5, <1>6, <1>7 DEF Sets

\* A step that changes neither the offset nor the histories of the jumps, and by
\* which nobody comes to be about to set the clock.
LEMMA QuietJumpInv ==
  ASSUME SlewInv, JumpInv, UNCHANGED <<offset, jumps>>,
         \A p \in Setter : at'[p] = "settimeofday" =>
           at[p] = "settimeofday" /\ tv'[p] = tv[p] /\ since'[p] = since[p],
         \A p \in Setter : at[p] \in {"look", "done", "failed"} =>
           at'[p] \in {"look", "done", "failed"}
  PROVE  JumpInv'
<1>1. UNCHANGED <<offset, jumped, overlapped, late>>
  BY DEF jumps
<1>2. About'
  BY <1>1 DEF JumpInv, About, Minutes
<1>3. Once'
  BY <1>1 DEF SlewInv, SetterTypeOK, JumpInv, Once
<1>4. LostOnlyToOverlap'
  BY <1>1 DEF JumpInv, LostOnlyToOverlap, Minutes
<1> QED
  BY <1>2, <1>3, <1>4 DEF JumpInv

LEMMA FailsJumpInv ==
  ASSUME SlewInv, JumpInv, NEW p \in Setter, NEW a, NEW call, Fails(p, a, call)
  PROVE  JumpInv'
<1>1. UNCHANGED <<offset, jumps, tv, since>> /\ at' = [at EXCEPT ![p] = "failed"]
      /\ at \in [Setter -> Place]
  BY DEF Fails, GoesTo, clock, SlewInv, SetterTypeOK
<1> QED
  BY <1>1, QuietJumpInv

\* p reads the time that it is going to set, and overlaps with all who have read it.
LEMMA ReadTimeJumpInv ==
  ASSUME SlewInv, JumpInv, NEW p \in Setter, ReadTime(p)
  PROVE  JumpInv'
<1> SUFFICES ASSUME GoesTo(p, "gettimeofday", "settimeofday"),
                    tv' = [tv EXCEPT ![p] = Realtime],
                    since' = [since EXCEPT ![p] = now],
                    Overlaps(p),
                    UNCHANGED <<clock, adj, disturbed, jumped, late>>
             PROVE  JumpInv'
  BY FailsJumpInv DEF ReadTime
<1> DEFINE others == {q \in Setter \ {p} : at[q] = "settimeofday"}
<1>1. /\ now \in Nat /\ offset \in Int /\ late \in Nat
      /\ at \in [Setter -> Place] /\ tv \in [Setter -> Int] /\ since \in [Setter -> Nat]
      /\ jumped \in SUBSET Setter /\ overlapped \in SUBSET Setter
  BY DEF SlewInv, ClockTypeOK, SetterTypeOK
<1>2. /\ at[p] = "gettimeofday" /\ at' = [at EXCEPT ![p] = "settimeofday"]
      /\ UNCHANGED <<now, offset, late, jumped>>
      /\ overlapped' = overlapped \cup others \cup {x \in {p} : others # {}}
  BY DEF GoesTo, clock, Overlaps
<1>3. p \notin jumped /\ \A q \in others : q \notin jumped
  BY <1>2 DEF JumpInv, Once, About
<1>4. jumped \ overlapped' = jumped \ overlapped /\ jumped \cap overlapped' = jumped \cap overlapped
  BY <1>2, <1>3
<1>5. tv'[p] - since'[p] = offset
  BY <1>1, <1>2 DEF Realtime
<1>6. Minutes(jumped) \in Nat /\ Minutes(jumped \ overlapped) \in Nat
      /\ Jump \in Nat
  <2>1. jumped \ overlapped \in SUBSET Setter
    BY <1>1
  <2> QED
    BY <1>1, <2>1, MinutesType, Numbers
<1>7. offset <= Minutes(jumped) /\ offset + late >= Minutes(jumped \ overlapped)
  BY <1>1, <1>6 DEF JumpInv, LostOnlyToOverlap
<1>8. ASSUME NEW q \in Setter, at'[q] = "settimeofday"
      PROVE  /\ q \notin jumped'
             /\ tv'[q] - since'[q] <= Minutes(jumped')
             /\ q \notin overlapped' => tv'[q] - since'[q] = offset'
             /\ q \in overlapped' => tv'[q] - since'[q] + late' >= Minutes(jumped' \ overlapped')
             /\ \A r \in Setter : r # q /\ at'[r] = "settimeofday" => q \in overlapped'
  <2>1. CASE q = p
    <3>1. \A r \in Setter : r # p /\ at'[r] = "settimeofday" => r \in others
      BY <1>1, <1>2
    <3>2. \A r \in Setter : r # p /\ at'[r] = "settimeofday" => p \in overlapped'
      BY <1>2, <3>1
    <3> QED
      BY <1>1, <1>2, <1>3, <1>4, <1>5, <1>6, <1>7, <2>1, <3>2
  <2>2. CASE q # p
    <3>1. at[q] = "settimeofday" /\ q \in others /\ q \in overlapped'
          /\ tv'[q] = tv[q] /\ since'[q] = since[q]
      BY <1>1, <1>2, <1>8, <2>2
    <3>2. /\ q \notin jumped /\ tv[q] - since[q] <= Minutes(jumped)
          /\ q \notin overlapped => tv[q] - since[q] = offset
          /\ q \in overlapped => tv[q] - since[q] + late >= Minutes(jumped \ overlapped)
      BY <3>1 DEF JumpInv, About
    <3>3. tv[q] - since[q] + late >= Minutes(jumped \ overlapped)
      BY <1>1, <1>7, <3>2
    <3> QED
      BY <1>2, <1>4, <3>1, <3>2, <3>3
  <2> QED
    BY <2>1, <2>2
<1>9. About'
  BY <1>8 DEF About
<1>10. Once'
  BY <1>1, <1>2, <1>3 DEF JumpInv, Once
<1>11. LostOnlyToOverlap'
  BY <1>2, <1>4 DEF JumpInv, LostOnlyToOverlap, Minutes
<1> QED
  BY <1>9, <1>10, <1>11 DEF JumpInv

\* p sets the clock.
LEMMA SetTimeJumpInv ==
  ASSUME SlewInv, JumpInv, NEW p \in Setter, SetTime(p)
  PROVE  JumpInv'
<1> SUFFICES ASSUME GoesTo(p, "settimeofday", "look"),
                    SetTimeOfDay(tv[p] + Jump),
                    tv' = [tv EXCEPT ![p] = @ + Jump],
                    Jumps(p),
                    UNCHANGED <<adj, since, overlapped>>
             PROVE  JumpInv'
  BY FailsJumpInv DEF SetTime
<1> DEFINE alone == jumped \ overlapped
           delay == now - since[p]
           read  == tv[p] - since[p]
<1>1. /\ now \in Nat /\ offset \in Int /\ late \in Nat
      /\ at \in [Setter -> Place] /\ tv \in [Setter -> Int] /\ since \in [Setter -> Nat]
      /\ jumped \in SUBSET Setter /\ overlapped \in SUBSET Setter
      /\ since[p] <= now
  BY DEF SlewInv, ClockTypeOK, SetterTypeOK, Slewing
<1>2. /\ at[p] = "settimeofday" /\ at' = [at EXCEPT ![p] = "look"]
      /\ jumped' = jumped \cup {p} /\ late' = late + delay
      /\ offset' = (tv[p] + Jump) - now /\ now' = now
      /\ UNCHANGED <<since, overlapped>>
  BY DEF GoesTo, SetTimeOfDay, Jumps
<1>3. /\ p \notin jumped
      /\ read <= Minutes(jumped)
      /\ p \notin overlapped => read = offset
      /\ p \in overlapped => read + late >= Minutes(alone)
      /\ \A q \in Setter : q # p /\ at[q] = "settimeofday" => p \in overlapped
  BY <1>2 DEF JumpInv, About
<1>4. alone \in SUBSET Setter /\ p \notin alone
  BY <1>1, <1>3
<1>5. /\ Minutes(jumped) \in Nat /\ Minutes(alone) \in Nat /\ Jump \in Nat
      /\ Minutes(jumped') = Minutes(jumped) + Jump
      /\ Minutes(alone \cup {p}) = Minutes(alone) + Jump
  BY <1>1, <1>2, <1>3, <1>4, MinutesType, Numbers
<1>6. /\ offset <= Minutes(jumped)
      /\ offset + late >= Minutes(alone) + (IF jumped \cap overlapped # {} THEN Jump ELSE 0)
  BY DEF JumpInv, LostOnlyToOverlap
<1>7. read \in Int /\ delay \in Nat /\ offset' = read + Jump - delay
  BY <1>1, <1>2, <1>5
<1> HIDE DEF read, delay, alone
<1>8. Minutes(alone) \in Nat /\ offset' <= Minutes(jumped')
  BY <1>3, <1>5, <1>7
<1>9. CASE p \in overlapped
  <2>1. jumped' \ overlapped' = alone /\ jumped' \cap overlapped' # {}
    BY <1>2, <1>9 DEF alone
  <2>2. offset' + late' >= Minutes(alone) + Jump
    BY <1>1, <1>2, <1>3, <1>5, <1>7, <1>9
  <2>3. LostOnlyToOverlap'
    BY <1>8, <2>1, <2>2 DEF LostOnlyToOverlap, Minutes
  <2>4. ASSUME NEW q \in Setter, at'[q] = "settimeofday"
        PROVE  /\ q \notin jumped'
               /\ tv'[q] - since'[q] <= Minutes(jumped')
               /\ q \notin overlapped' => tv'[q] - since'[q] = offset'
               /\ q \in overlapped' => tv'[q] - since'[q] + late' >= Minutes(jumped' \ overlapped')
               /\ \A r \in Setter : r # q /\ at'[r] = "settimeofday" => q \in overlapped'
    <3>1. q # p /\ at[q] = "settimeofday" /\ tv'[q] = tv[q] /\ since'[q] = since[q]
      BY <1>1, <1>2, <2>4
    <3>2. /\ q \notin jumped /\ tv[q] - since[q] <= Minutes(jumped)
          /\ q \in overlapped
          /\ tv[q] - since[q] + late >= Minutes(alone)
      BY <1>2, <3>1 DEF JumpInv, About, alone
    <3>3. tv[q] - since[q] \in Int
      BY <1>1
    <3>4. tv[q] - since[q] <= Minutes(jumped') /\ tv[q] - since[q] + late' >= Minutes(alone)
      BY <1>1, <1>2, <1>5, <1>7, <3>2, <3>3
    <3> QED
      BY <1>2, <2>1, <3>1, <3>2, <3>4
  <2>5. About'
    BY <2>4 DEF About
  <2>6. Once'
    BY <1>1, <1>2 DEF JumpInv, Once
  <2> QED
    BY <2>3, <2>5, <2>6 DEF JumpInv
<1>10. CASE p \notin overlapped
  <2>1. jumped' \ overlapped' = alone \cup {p}
        /\ jumped' \cap overlapped' = jumped \cap overlapped
    BY <1>2, <1>10 DEF alone
  <2>2. offset' + late' = offset + late + Jump
    BY <1>1, <1>2, <1>3, <1>5, <1>7, <1>10
  <2>3. LostOnlyToOverlap'
    <3>1. offset' + late' >= Minutes(alone \cup {p})
                             + (IF jumped \cap overlapped # {} THEN Jump ELSE 0)
      BY <1>1, <1>5, <1>6, <2>2
    <3> QED
      BY <1>8, <2>1, <3>1 DEF LostOnlyToOverlap, Minutes
  <2>4. \A q \in Setter : at'[q] # "settimeofday"
    BY <1>1, <1>2, <1>3, <1>10
  <2>5. About'
    BY <2>4 DEF About
  <2>6. Once'
    BY <1>1, <1>2 DEF JumpInv, Once
  <2> QED
    BY <2>3, <2>5, <2>6 DEF JumpInv
<1> QED
  BY <1>9, <1>10

LEMMA SetsJumpInv ==
  ASSUME SlewInv, JumpInv, NEW p \in Setter, Sets(p)
  PROVE  JumpInv'
<1>0. at \in [Setter -> Place]
  BY DEF SlewInv, SetterTypeOK
\* A step outside the jump.
<1>1. ASSUME NEW a, NEW b, GoesTo(p, a, b), b # "settimeofday",
             a \in {"look", "done", "failed"} => b \in {"look", "done", "failed"},
             \A q \in Setter \ {p} : tv'[q] = tv[q] /\ since'[q] = since[q],
             UNCHANGED <<offset, jumps>>
      PROVE  JumpInv'
  BY <1>0, <1>1, QuietJumpInv DEF GoesTo
<1>2. tv \in [Setter -> Int] /\ since \in [Setter -> Nat]
  BY DEF SlewInv, SetterTypeOK
<1>3. CASE ReadEpoch(p)
  BY <1>1, <1>2, <1>3, FailsJumpInv DEF ReadEpoch, clock
<1>4. CASE Convert(p)
  BY <1>1, <1>4, FailsJumpInv DEF Convert, clock
<1>5. CASE SetAdjustment(p)
  BY <1>1, <1>2, <1>5, FailsJumpInv DEF SetAdjustment, AdjTime
<1>6. CASE ReadAdjustment(p)
  BY <1>1, <1>6, FailsJumpInv DEF ReadAdjustment, clock
<1>7. CASE LookAgain(p)
  BY <1>1, <1>2, <1>7, FailsJumpInv DEF LookAgain, clock
<1> QED
  BY <1>3, <1>4, <1>5, <1>6, <1>7, ReadTimeJumpInv, SetTimeJumpInv DEF Sets

LEMMA SetsSetterInv ==
  ASSUME SetterInv, NEW p \in Setter, Sets(p)
  PROVE  SetterInv'
BY SetsSlewInv, SetsJumpInv DEF SetterInv

\* Time passes, and the adjustment is made.
LEMMA TickSetterInv ==
  ASSUME SetterInv, Tick, UNCHANGED setterVars
  PROVE  SetterInv'
<1>1. SlewInv'
  BY Numbers DEF SetterInv, SlewInv, Tick, setterVars, setterState, jumps, ClockTypeOK,
     SetterTypeOK, Slewing, SlewingIsSeen
<1>2. UNCHANGED <<offset, jumps, at, tv, since>>
  BY DEF Tick, setterVars, setterState
<1>3. JumpInv'
  BY <1>2, QuietJumpInv DEF SetterInv
<1> QED
  BY <1>1, <1>3 DEF SetterInv

LEMMA SameSetterInv ==
  ASSUME SetterInv, UNCHANGED <<clock, setterVars>>
  PROVE  SetterInv'
<1>1. SlewInv'
  BY DEF SetterInv, SlewInv, clock, setterVars, setterState, jumps, ClockTypeOK, SetterTypeOK,
     Slewing, SlewingIsSeen
<1>2. UNCHANGED <<offset, jumps, at, tv, since>>
  BY DEF clock, setterVars, setterState
<1>3. JumpInv'
  BY <1>2, QuietJumpInv DEF SetterInv
<1> QED
  BY <1>1, <1>3 DEF SetterInv

\* No step of the timer's program changes the clock.
LEMMA ProgramLeavesClock == Program => UNCHANGED clock
BY DEF Program, PrintAndSleep, Wake, TimerCreate, TimerSettime, WakeAgain, TimerDelete,
   AllDone, NoSuchTimer, Main, Expire, StartCallback, TimerCallback, GetRealtime, GetMonotonic,
   PrintAndReturn, Continues

LEMMA SetterNextInv == SetterInv /\ [Next]_vars => SetterInv'
<1> SUFFICES ASSUME SetterInv, [Next]_vars
             PROVE  SetterInv'
  OBVIOUS
<1>1. CASE \E p \in Setter : Sets(p)
  BY <1>1, SetsSetterInv
<1>2. CASE Program /\ UNCHANGED setterVars
  BY <1>2, ProgramLeavesClock, SameSetterInv
<1>3. CASE (TimePasses \/ TimeAlonePasses) /\ UNCHANGED setterVars
  BY <1>3, TickSetterInv DEF TimePasses, TimeAlonePasses
<1>4. CASE UNCHANGED vars
  BY <1>4, SameSetterInv DEF vars
<1> QED
  BY <1>1, <1>2, <1>3, <1>4 DEF Next

-----------------------------------------------------------------------------
(* the timer *)

LEMMA TimerInitInv == Init => TimerInv
<1> SUFFICES ASSUME Init
             PROVE  TimerInv
  OBVIOUS
<1> USE Numbers DEF Init, ClockInit, TimerInit
<1>1. TimerTypeOK
  <2>1. {pending, failed} \subseteq BOOLEAN
    OBVIOUS
  <2>2. callbacks \in Seq(Callback)
    OBVIOUS
  <2> QED
    BY <2>1, <2>2 DEF TimerTypeOK, MainPlace
<1>2. Stage
  BY DEF Stage
<1>3. Timing /\ Shown /\ Silent
  BY DEF Timing, Shown, Silent
<1> QED
  BY <1>1, <1>2, <1>3 DEF TimerInv

\* What a setter does leaves CLOCK_MONOTONIC alone.
LEMMA SetsLeaveNow ==
  ASSUME NEW p \in Setter, Sets(p)
  PROVE  UNCHANGED now
BY DEF Sets, ReadEpoch, Convert, SetAdjustment, ReadAdjustment, ReadTime, SetTime, LookAgain,
   Fails, clock, AdjTime, SetTimeOfDay

LEMMA SameTimerInv ==
  ASSUME TimerInv, UNCHANGED <<now, timerVars>>
  PROVE  TimerInv'
BY DEF TimerInv, timerVars, mainState, TimerTypeOK, Stage, Timing, Shown, Silent, Fired, OnClock

LEMMA NoDeleteTimerInv ==
  ASSUME TimerInv, NoSuchTimer("delete", "verify"), Sleep(Verify),
         UNCHANGED <<timer, due, pending, callbacks, set, failed>>
  PROVE  TimerInv'
BY Numbers DEF TimerInv, NoSuchTimer, Main, Sleep, clock, TimerTypeOK, MainPlace, Stage, Timing,
   Shown, Silent, Fired, OnClock

\* What timer_delete() leaves behind, if everything has been on time: the sleep
\* ends between two expiries, so that the last of them is past and done with.
LEMMA DeletedOnTime ==
  ASSUME TimerInv, timer = "armed", main = "delete", lag = 0, ~failed
  PROVE  /\ Len(callbacks) = LetRun \div Interval
         /\ \A m \in DOMAIN callbacks : callbacks[m].at = "returned"
<1> DEFINE n == Len(callbacks)
           q == LetRun \div Interval
           r == LetRun % Interval
<1>1. /\ now \in Nat /\ set \in Nat /\ due \in Nat
      /\ pending \in BOOLEAN /\ n \in Nat /\ DOMAIN callbacks = 1 .. n
  BY DEF TimerInv, TimerTypeOK
<1>2. Fired \in Nat /\ Fired = IF pending THEN n + 1 ELSE n
  BY <1>1 DEF Fired
<1>3. q \in Nat /\ r \in 1 .. Interval - 1 /\ LetRun = Multiple(q) + r /\ Multiple(q) \in Nat
  BY Remainder, MultipleType
<1>4. /\ now = set + LetRun /\ due = set + Multiple(Fired + 1)
      /\ due - Interval <= now /\ now <= due
      /\ pending => now = due - Interval
  BY <1>1, Numbers DEF TimerInv, Timing, OnClock
<1>5. Multiple(Fired + 1) = Multiple(Fired) + Interval /\ Multiple(Fired) \in Nat
  BY <1>2, MultipleType, MultipleNext
<1> HIDE DEF n, q, r
<1>6. /\ Multiple(Fired) <= Multiple(q) + r
      /\ Multiple(q) + r <= Multiple(Fired) + Interval
      /\ pending => r = Multiple(Fired) - Multiple(q)
  BY <1>1, <1>3, <1>4, <1>5, Numbers, SMTT(30)
<1>7. ~(q < Fired)
  BY <1>2, <1>3, <1>5, <1>6, MultipleGrows, Numbers
<1>8. ~(Fired < q)
  BY <1>2, <1>3, <1>5, <1>6, MultipleGrows, Numbers
<1>9. Fired = q
  BY <1>2, <1>3, <1>7, <1>8
<1>10. ~pending
  BY <1>3, <1>6, <1>9
<1>11. n = q
  BY <1>2, <1>9, <1>10
<1>12. ASSUME NEW m \in DOMAIN callbacks, callbacks[m].at # "returned"
       PROVE  FALSE
  <2>1. m \in Nat /\ m <= q
    BY <1>1, <1>11
  <2>2. Multiple(m) \in Nat /\ Multiple(m) <= Multiple(q)
    BY <1>3, <2>1, MultipleType, MultipleMonotone
  <2>3. now - (set + Multiple(m)) <= 0
    BY <1>12, Numbers DEF TimerInv, Shown, OnClock
  <2>4. LetRun <= Multiple(m)
    BY <1>1, <1>4, <2>2, <2>3, Numbers
  <2> QED
    BY <1>3, <2>2, <2>4, Numbers
<1> QED
  BY <1>11, <1>12 DEF n, q

LEMMA DeleteTimerInv ==
  ASSUME TimerInv, timer = "armed", Main("delete", "verify"), timer' = "deleted",
         pending' = FALSE, Sleep(Verify), UNCHANGED <<due, callbacks, set, failed>>
  PROVE  TimerInv'
<1>1. /\ main = "delete" /\ main' = "verify" /\ timer' = "deleted" /\ pending' = FALSE
      /\ wake' = now + Verify
      /\ UNCHANGED <<now, lag, due, callbacks, set, failed>>
  BY DEF Main, Sleep, clock
<1>2. /\ now \in Nat /\ set \in Nat /\ due \in Nat /\ lag \in Nat
      /\ pending \in BOOLEAN /\ Len(callbacks) \in Nat
  BY DEF TimerInv, TimerTypeOK
<1>3. TimerTypeOK'
  <2>1. {pending', failed'} \subseteq BOOLEAN
    BY <1>1 DEF TimerInv, TimerTypeOK
  <2>2. {wake', due', set', lag'} \subseteq Nat
    BY <1>1, <1>2, Numbers
  <2> QED
    BY <1>1, <2>1, <2>2 DEF TimerInv, TimerTypeOK, MainPlace
<1>4. Stage'
  BY <1>1 DEF TimerInv, Stage
<1>5. Timing'
  <2>1. Fired \in Nat /\ Len(callbacks) <= Fired /\ Fired' = Len(callbacks)
    BY <1>1, <1>2 DEF Fired
  <2>2. set + Multiple(Fired + 1) <= due /\ due - Interval <= set + LetRun + lag
    BY DEF TimerInv, Timing
  <2> DEFINE n == Len(callbacks) + 1
             f == Fired + 1
  <2>3. n \in Nat /\ f \in Nat /\ n <= f
    BY <1>2, <2>1
  <2> HIDE DEF n, f
  <2>4. Multiple(n) <= Multiple(f) /\ Multiple(f) \in Nat /\ Multiple(n) \in Nat
    BY <2>3, MultipleMonotone, MultipleType
  <2>5. set + Multiple(Len(callbacks) + 1) <= due
    BY <1>2, <2>2, <2>4 DEF n, f
  <2> QED
    BY <1>1, <2>1, <2>2, <2>5 DEF Timing
<1>6. Shown'
  BY <1>1 DEF TimerInv, Shown, OnClock
<1>7. Silent'
  BY <1>1, DeletedOnTime DEF Silent
<1> QED
  BY <1>1, <1>3, <1>4, <1>5, <1>6, <1>7 DEF TimerInv

\* main() by itself, up to the timer and without it.
LEMMA MainTimerInv ==
  ASSUME TimerInv,
         \/ PrintAndSleep \/ Wake \/ TimerCreate \/ TimerSettime \/ WakeAgain
         \/ TimerDelete \/ AllDone
  PROVE  TimerInv'
<1> USE Numbers DEF TimerInv, Main, Sleep, clock, TimerTypeOK, MainPlace, Stage, Timing, Shown,
        Silent, Fired, OnClock
<1>1. CASE PrintAndSleep
  BY <1>1 DEF PrintAndSleep
<1>2. CASE Wake
  BY <1>2 DEF Wake
<1>3. CASE TimerCreate
  BY <1>3 DEF TimerCreate
<1>4. CASE TimerSettime
  <2> Multiple(1) = Interval
    BY DEF Multiple
  <2> QED
    BY <1>4, SMTT(30) DEF TimerSettime, NoSuchTimer
<1>5. CASE WakeAgain
  BY <1>5 DEF WakeAgain
<1>6. CASE TimerDelete
  BY <1>6, NoDeleteTimerInv, DeleteTimerInv DEF TimerDelete
<1>7. CASE AllDone
  BY <1>7 DEF AllDone
<1> QED
  BY <1>1, <1>2, <1>3, <1>4, <1>5, <1>6, <1>7

LEMMA Types ==
  ASSUME TimerInv
  PROVE  /\ now \in Nat /\ set \in Nat /\ due \in Nat /\ lag \in Nat /\ wake \in Nat
         /\ pending \in BOOLEAN /\ failed \in BOOLEAN
         /\ callbacks \in Seq(Callback) /\ Len(callbacks) \in Nat
         /\ DOMAIN callbacks = 1 .. Len(callbacks)
         /\ Fired = IF pending THEN Len(callbacks) + 1 ELSE Len(callbacks)
         /\ Fired \in Nat
         /\ pending => timer = "armed"
         /\ timer = "armed" => main \in {"run", "delete"}
<1>1. /\ now \in Nat /\ set \in Nat /\ due \in Nat /\ lag \in Nat /\ wake \in Nat
      /\ callbacks \in Seq(Callback) /\ Len(callbacks) \in Nat
      /\ DOMAIN callbacks = 1 .. Len(callbacks)
  BY DEF TimerInv, TimerTypeOK
<1>2. pending \in BOOLEAN /\ failed \in BOOLEAN
  BY DEF TimerInv, TimerTypeOK
<1>3. Fired = (IF pending THEN Len(callbacks) + 1 ELSE Len(callbacks)) /\ Fired \in Nat
  BY <1>1, <1>2 DEF Fired
<1>4. /\ pending => timer = "armed"
      /\ timer = "armed" => main \in {"run", "delete"}
  BY DEF TimerInv, TimerTypeOK, MainPlace, Stage
<1> QED
  BY <1>1, <1>2, <1>3, <1>4

\* An expiry that finds the one before it still queued is an overrun: it is not
\* counted in Fired, and the threads are late by an interval at least.
LEMMA ExpireTimerInv ==
  ASSUME TimerInv, Expire
  PROVE  TimerInv'
<1>1. /\ timer = "armed" /\ now = due /\ due' = due + Interval /\ pending' = TRUE
      /\ UNCHANGED <<now, main, wake, timer, callbacks, set, lag, failed>>
  BY DEF Expire, clock
<1>2. /\ due - Interval <= now /\ now <= set + LetRun + lag
      /\ OnClock => due = set + Multiple(Fired + 1)
      /\ main = "run" => wake = set + LetRun
      /\ main = "delete" => set + LetRun <= now
      /\ set + Multiple(Fired + 1) <= due
      /\ pending => now - (due - Interval) <= lag
  BY <1>1 DEF TimerInv, Timing
<1>3. TimerTypeOK'
  <2>1. {pending', failed'} \subseteq BOOLEAN
    BY <1>1, Types
  <2>2. {wake', due', set', lag'} \subseteq Nat
    BY <1>1, Types, Numbers
  <2> QED
    BY <1>1, <2>1, <2>2 DEF TimerInv, TimerTypeOK, MainPlace
<1>4. Stage'
  BY <1>1, Types DEF TimerInv, Stage
<1>5. Timing'
  <2>1. /\ Fired' = Len(callbacks) + 1
        /\ Fired' \in Nat /\ Fired + 1 \in Nat /\ Fired' + 1 \in Nat
        /\ Fired' <= Fired + 1
    BY <1>1, Types DEF Fired
  <2>2. /\ Multiple(Fired') \in Nat /\ Multiple(Fired + 1) \in Nat
        /\ Multiple(Fired' + 1) = Multiple(Fired') + Interval
        /\ Multiple(Fired') <= Multiple(Fired + 1)
    BY <2>1, MultipleType, MultipleNext, MultipleMonotone
  <2>3. OnClock => Fired' = Fired + 1
    BY <1>1, <1>2, <2>1, Types, Numbers DEF OnClock
  <2>4. OnClock' => OnClock
    BY <1>1 DEF OnClock
  <2>5. /\ set + Multiple(Fired' + 1) <= due + Interval
        /\ OnClock => due + Interval = set + Multiple(Fired' + 1)
    BY <1>2, <2>2, <2>3, Types, Numbers, SMTT(30)
  <2>6. due' - Interval = now /\ now <= due' /\ now - (due' - Interval) <= lag
    BY <1>1, Types, Numbers
  <2>7. due' - Interval <= now' /\ now' <= due' /\ now' <= set' + LetRun + lag'
    BY <1>1, <1>2, <2>6, Types
  <2>8. due' - Interval <= set' + LetRun + lag'
    BY <1>1, <1>2, <2>6
  <2> QED
    BY <1>1, <1>2, <2>4, <2>5, <2>6, <2>7, <2>8 DEF Timing
<1>6. Shown' /\ Silent'
  BY <1>1 DEF TimerInv, Shown, OnClock, Silent
<1> QED
  BY <1>1, <1>3, <1>4, <1>5, <1>6 DEF TimerInv

LEMMA StartCallbackTimerInv ==
  ASSUME TimerInv, StartCallback
  PROVE  TimerInv'
<1> DEFINE new == [at |-> "realtime", realtime |-> 0, monotonic |-> 0]
<1>1. /\ pending /\ pending' = FALSE /\ timer = "armed"
      /\ UNCHANGED <<now, main, wake, timer, due, set, lag>>
      /\ \/ callbacks' = Append(callbacks, new) /\ failed' = failed
         \/ failed' = TRUE /\ callbacks' = callbacks
  BY Types DEF StartCallback, clock
<1>2. /\ due - Interval <= now /\ now <= due /\ now <= set + LetRun + lag
      /\ OnClock => due = set + Multiple(Fired + 1)
      /\ main = "run" => wake = set + LetRun
      /\ main = "delete" => set + LetRun <= now
      /\ set + Multiple(Fired + 1) <= due
      /\ due - Interval <= set + LetRun + lag
      /\ now - (due - Interval) <= lag
  BY <1>1 DEF TimerInv, Timing
<1>3. new \in Callback
  BY DEF Callback
<1>4. TimerTypeOK'
  <2>1. {pending', failed'} \subseteq BOOLEAN
    BY <1>1, Types
  <2>2. callbacks' \in Seq(Callback)
    BY <1>1, <1>3, Types
  <2> QED
    BY <1>1, <2>1, <2>2 DEF TimerInv, TimerTypeOK
<1>5. Stage'
  BY <1>1, Types DEF TimerInv, Stage
<1>6. /\ Fired = Len(callbacks) + 1
      /\ Multiple(Fired + 1) = Multiple(Fired) + Interval /\ Multiple(Fired) \in Nat
      /\ Multiple(Fired + 1) \in Nat
  BY <1>1, Types, MultipleType, MultipleNext, Numbers
<1>7. Timing'
  <2>1. CASE callbacks' = Append(callbacks, new) /\ failed' = failed
    <3>1. Fired' = Fired
      BY <1>1, <1>3, <1>6, <2>1, Types DEF Fired
    <3>2. OnClock' = OnClock
      BY <1>1, <2>1 DEF OnClock
    <3> QED
      BY <1>1, <1>2, <3>1, <3>2, Types DEF Timing
  <2>2. CASE failed' = TRUE /\ callbacks' = callbacks
    <3>1. Fired' + 1 = Fired
      BY <1>1, <1>6, <2>2, Types DEF Fired
    <3>2. set + Multiple(Fired) <= due
      BY <1>2, <1>6, Types, Numbers, SMTT(30)
    <3> QED
      BY <1>1, <1>2, <2>2, <3>1, <3>2, Types DEF Timing, OnClock
  <2> QED
    BY <1>1, <2>1, <2>2
<1>8. Shown'
  <2>1. SUFFICES ASSUME OnClock, callbacks' = Append(callbacks, new)
                 PROVE  Shown'
    BY <1>1, Types DEF Shown, OnClock
  <2>2. /\ DOMAIN callbacks' = 1 .. Fired
        /\ \A n \in DOMAIN callbacks : callbacks'[n] = callbacks[n]
        /\ callbacks'[Fired].at = "realtime"
    BY <1>3, <1>6, <2>1, Types
  <2>3. now - (set + Multiple(Fired)) <= lag /\ set + Multiple(Fired) <= now
    <3>1. due - Interval = set + Multiple(Fired)
      BY <1>2, <1>6, <2>1, Types, Numbers
    <3> QED
      BY <1>2, <3>1
  <2>4. \A n \in 1 .. Fired : n = Fired \/ n \in DOMAIN callbacks
    BY <1>6, Types
  <2> QED
    BY <1>1, <2>1, <2>2, <2>3, <2>4 DEF TimerInv, Shown
<1>9. Silent'
  BY <1>1, Types DEF Silent
<1> QED
  BY <1>1, <1>4, <1>5, <1>7, <1>8, <1>9 DEF TimerInv

\* A callback's step changes nothing but what that callback knows.
LEMMA ContinuesTimerInv ==
  ASSUME TimerInv, NEW i \in DOMAIN callbacks, NEW a, NEW c \in Callback,
         Continues(i, a, c), a # "returned",
         \/ c.at = "monotonic"
         \/ c.at = "print" /\ c.monotonic = now
         \/ c.at = "returned" /\ a = "print" /\ c.monotonic = callbacks[i].monotonic
  PROVE  TimerInv'
<1>1. /\ callbacks' = [callbacks EXCEPT ![i] = c] /\ callbacks[i].at = a
      /\ UNCHANGED <<now, main, wake, timer, due, pending, set, lag, failed>>
  BY DEF Continues, clock, mainState
<1>2. /\ callbacks' \in Seq(Callback) /\ Len(callbacks') = Len(callbacks)
      /\ DOMAIN callbacks' = DOMAIN callbacks
      /\ \A n \in DOMAIN callbacks : callbacks'[n] = IF n = i THEN c ELSE callbacks[n]
  BY <1>1, Types
<1>3. TimerTypeOK'
  <2>1. {pending', failed'} \subseteq BOOLEAN
    BY <1>1, Types
  <2> QED
    BY <1>1, <1>2, <2>1 DEF TimerInv, TimerTypeOK
<1>4. Stage'
  BY <1>1, <1>2, Types DEF TimerInv, Stage
<1>5. Timing'
  <2>1. Fired' = Fired /\ OnClock' = OnClock
    BY <1>1, <1>2 DEF Fired, OnClock
  <2> QED
    BY <1>1, <2>1 DEF TimerInv, Timing
<1>6. Shown'
  <2> SUFFICES ASSUME OnClock, NEW n \in DOMAIN callbacks
               PROVE  /\ set + Multiple(n) <= now
                      /\ callbacks'[n].at # "returned" => now - (set + Multiple(n)) <= lag
                      /\ callbacks'[n].at \in {"print", "returned"} =>
                           callbacks'[n].monotonic - (set + Multiple(n)) \in 0 .. lag
    BY <1>1, <1>2 DEF Shown, OnClock
  <2>1. /\ set + Multiple(n) <= now
        /\ callbacks[n].at # "returned" => now - (set + Multiple(n)) <= lag
        /\ callbacks[n].at \in {"print", "returned"} =>
             callbacks[n].monotonic - (set + Multiple(n)) \in 0 .. lag
    BY DEF TimerInv, Shown
  <2>2. Multiple(n) \in Nat
    BY MultipleType, Types
  <2>3. CASE n = i
    <3>1. now - (set + Multiple(n)) <= lag
      BY <1>1, <2>1, <2>3
    <3>2. now - (set + Multiple(n)) \in 0 .. lag
      BY <2>1, <2>2, <3>1, Types
    <3> QED
      BY <1>1, <1>2, <2>1, <2>3, <3>2
  <2>4. CASE n # i
    BY <1>2, <2>1, <2>4
  <2> QED
    BY <2>3, <2>4
<1>7. Silent'
  BY <1>1, <1>2 DEF TimerInv, Silent
<1> QED
  BY <1>1, <1>3, <1>4, <1>5, <1>6, <1>7 DEF TimerInv

LEMMA TimerCallbackTimerInv ==
  ASSUME TimerInv, NEW i \in DOMAIN callbacks, TimerCallback(i), Realtime \in Int
  PROVE  TimerInv'
<1>1. callbacks[i] \in Callback /\ now \in Nat
  BY Types
<1>2. CASE GetRealtime(i)
  <2> DEFINE c == [callbacks[i] EXCEPT !.at = "monotonic", !.realtime = Realtime]
  <2>1. c \in Callback /\ c.at = "monotonic"
    BY <1>1 DEF Callback
  <2>2. Continues(i, "realtime", c)
    BY <1>2 DEF GetRealtime
  <2> HIDE DEF c
  <2> QED
    BY <2>1, <2>2, ContinuesTimerInv
<1>3. CASE GetMonotonic(i)
  <2> DEFINE c == [callbacks[i] EXCEPT !.at = "print", !.monotonic = now]
  <2>1. c \in Callback /\ c.at = "print" /\ c.monotonic = now
    BY <1>1 DEF Callback
  <2>2. Continues(i, "monotonic", c)
    BY <1>3 DEF GetMonotonic
  <2> HIDE DEF c
  <2> QED
    BY <2>1, <2>2, ContinuesTimerInv
<1>4. CASE PrintAndReturn(i)
  <2> DEFINE c == [callbacks[i] EXCEPT !.at = "returned"]
  <2>1. c \in Callback /\ c.at = "returned" /\ c.monotonic = callbacks[i].monotonic
    BY <1>1 DEF Callback
  <2>2. Continues(i, "print", c)
    BY <1>4 DEF PrintAndReturn
  <2> HIDE DEF c
  <2> QED
    BY <2>1, <2>2, ContinuesTimerInv
<1> QED
  BY <1>2, <1>3, <1>4 DEF TimerCallback

\* A second passes: some thread is late by one more, or main() is asleep, no
\* signal is queued and all callbacks have returned.
LEMMA TimePassesTimerInv ==
  ASSUME TimerInv, TimePasses
  PROVE  TimerInv'
<1>1. /\ now' = now + 1
      /\ timer = "armed" => now < due
      /\ UNCHANGED <<main, wake, timer, due, pending, callbacks, set, failed>>
      /\ lag' = IF Runnable THEN lag + 1 ELSE lag
      /\ main # "notStarted" /\ ~Ended
  BY DEF TimePasses, Tick, mainState
<1>2. lag' \in Nat /\ lag <= lag' /\ now' \in Nat
  BY <1>1, Types
<1>3. OnClock' => OnClock
  BY <1>1, <1>2, Types, Numbers DEF OnClock
<1>4. TimerTypeOK'
  <2>1. {pending', failed'} \subseteq BOOLEAN
    BY <1>1, Types
  <2> QED
    BY <1>1, <1>2, <2>1 DEF TimerInv, TimerTypeOK
<1>5. Stage'
  BY <1>1 DEF TimerInv, Stage
<1>6. Timing'
  <2>1. Fired' = Fired
    BY <1>1 DEF Fired
  <2>2. timer = "armed" => now + 1 <= set + LetRun + lag'
    <3> SUFFICES ASSUME timer = "armed"
                 PROVE  now + 1 <= set + LetRun + lag'
      OBVIOUS
    <3>1. /\ now <= set + LetRun + lag
          /\ main = "run" => wake = set + LetRun
          /\ main \in {"run", "delete"}
      BY Types DEF TimerInv, Timing
    <3>2. CASE Asleep
      BY <1>2, <3>1, <3>2, Types, Numbers DEF Asleep
    <3>3. CASE ~Asleep
      BY <1>1, <3>1, <3>3, Types, Numbers DEF Runnable
    <3> QED
      BY <3>2, <3>3
  <2>3. timer = "armed" =>
          /\ due - Interval <= now + 1 /\ now + 1 <= due
          /\ main = "delete" => set + LetRun <= now + 1
    BY <1>1, Types, Numbers, SMTT(30) DEF TimerInv, Timing
  <2>4. pending => lag' = lag + 1
    BY <1>1 DEF Runnable
  <2>5. pending => now + 1 - (due - Interval) <= lag'
    BY <2>4, Types, Numbers DEF TimerInv, Timing
  <2>6. timer \in {"armed", "deleted"} => due - Interval <= set + LetRun + lag'
    BY <1>2, Types, Numbers DEF TimerInv, Timing
  <2>7. /\ timer = "armed" =>
             /\ OnClock => due = set + Multiple(Fired + 1)
             /\ main = "run" => wake = set + LetRun
        /\ timer \in {"armed", "deleted"} => set + Multiple(Fired + 1) <= due
    BY DEF TimerInv, Timing
  <2>8. UNCHANGED <<main, wake, timer, due, pending, set>> /\ now' = now + 1
    BY <1>1
  <2> QED
    BY <1>2, <1>3, <2>1, <2>2, <2>3, <2>5, <2>6, <2>7, <2>8, Types, Numbers, SMTT(30) DEF Timing
<1>7. Shown'
  <2> SUFFICES ASSUME OnClock, NEW n \in DOMAIN callbacks
               PROVE  /\ set + Multiple(n) <= now'
                      /\ callbacks[n].at # "returned" => now' - (set + Multiple(n)) <= lag'
                      /\ callbacks[n].at \in {"print", "returned"} =>
                           callbacks[n].monotonic - (set + Multiple(n)) \in 0 .. lag'
    <3>1. UNCHANGED <<callbacks, set>>
      BY <1>1
    <3> QED
      BY <1>3, <3>1 DEF Shown
  <2>1. /\ set + Multiple(n) <= now
        /\ callbacks[n].at # "returned" => now - (set + Multiple(n)) <= lag
        /\ callbacks[n].at \in {"print", "returned"} =>
             callbacks[n].monotonic - (set + Multiple(n)) \in 0 .. lag
    BY DEF TimerInv, Shown
  <2>2. Multiple(n) \in Nat
    BY MultipleType, Types
  <2>3. callbacks[n].at # "returned" => lag' = lag + 1
    BY <1>1 DEF Runnable
  <2> QED
    BY <1>1, <1>2, <2>1, <2>2, <2>3, Types
<1>8. Silent'
  BY <1>1, <1>2, Types DEF TimerInv, Silent
<1> QED
  BY <1>1, <1>2, <1>4, <1>5, <1>6, <1>7, <1>8 DEF TimerInv

\* Before the program is started there is nothing to be late.
LEMMA TimeAlonePassesTimerInv ==
  ASSUME TimerInv, TimeAlonePasses
  PROVE  TimerInv'
<1>1. main = "notStarted" /\ timer = "none" /\ callbacks = <<>> /\ ~pending /\ now \in Nat
  BY DEF TimeAlonePasses, TimerInv, Stage
<1>2. now' = now + 1 /\ UNCHANGED timerVars
  BY DEF TimeAlonePasses, Tick
<1> QED
  BY <1>1, <1>2 DEF TimerInv, timerVars, mainState, TimerTypeOK, Stage, Timing, Shown, Silent,
     Fired, OnClock

LEMMA TimerNextInv == SetterInv /\ TimerInv /\ [Next]_vars => TimerInv'
<1> SUFFICES ASSUME SetterInv, TimerInv, [Next]_vars
             PROVE  TimerInv'
  OBVIOUS
<1>1. CASE (\E p \in Setter : Sets(p)) /\ UNCHANGED timerVars
  BY <1>1, SetsLeaveNow, SameTimerInv
<1>2. CASE Program
  <2>1. Realtime \in Int
    BY Types DEF SetterInv, SlewInv, ClockTypeOK, Realtime
  <2> QED
    BY <1>2, <2>1, MainTimerInv, ExpireTimerInv, StartCallbackTimerInv, TimerCallbackTimerInv
       DEF Program
<1>3. CASE TimePasses
  BY <1>3, TimePassesTimerInv
<1>4. CASE TimeAlonePasses
  BY <1>4, TimeAlonePassesTimerInv
<1>5. CASE UNCHANGED vars
  BY <1>5, SameTimerInv DEF vars, clock
<1> QED
  BY <1>1, <1>2, <1>3, <1>4, <1>5 DEF Next

-----------------------------------------------------------------------------
LEMMA Inductive == Spec => [](SetterInv /\ TimerInv)
<1>1. Init => SetterInv /\ TimerInv
  BY SetterInitInv, TimerInitInv
<1>2. SetterInv /\ TimerInv /\ [Next]_vars => (SetterInv /\ TimerInv)'
  BY SetterNextInv, TimerNextInv
<1>3. Spec => Init /\ [][Next]_vars
  BY DEF Spec, vars
<1> QED
  BY <1>1, <1>2, <1>3, PTL

\* The clock, the setters' memories and the timer stay what they are declared to be.
THEOREM TypeCorrect == Spec => [](ClockTypeOK /\ SetterTypeOK /\ TimerTypeOK)
<1>1. SetterInv /\ TimerInv => ClockTypeOK /\ SetterTypeOK /\ TimerTypeOK
  BY DEF SetterInv, SlewInv, TimerInv
<1> QED
  BY <1>1, Inductive, PTL

\* However many programs set the clock, and whatever the timer does beside them:
\* a program whose adjustment no other has replaced or cancelled reads, after the
\* wait, that at least one unit was made of it in every second.
THEOREM AdjustmentIsSeen == Spec => []SlewingIsSeen
<1>1. SetterInv => SlewingIsSeen
  BY DEF SetterInv, SlewInv
<1> QED
  BY <1>1, Inductive, PTL

\* However many programs let the system time jump at the same time: a process that
\* nobody overlaps with loses nothing of its minute, those that overlap make it at
\* least one minute together, and none makes it more than one.
THEOREM NoMinuteLostAlone == Spec => []LostOnlyToOverlap
<1>1. SetterInv => LostOnlyToOverlap
  BY DEF SetterInv, JumpInv
<1> QED
  BY <1>1, Inductive, PTL

\* If main() is late by less than what its sleep leaves over to the next expiry,
\* there are no more callbacks than intervals in the sleep; if nothing is late at
\* all there are just as many, and they have printed before the timer is deleted.
THEOREM CallbacksCounted == Spec => []ThreeThenNone
<1>1. ASSUME TimerInv, lag < Interval - (LetRun % Interval)
      PROVE  Len(callbacks) <= LetRun \div Interval
  <2> DEFINE n == Len(callbacks)
             q == LetRun \div Interval
             r == LetRun % Interval
  <2>1. q \in Nat /\ r \in 1 .. Interval - 1 /\ LetRun = Multiple(q) + r /\ Multiple(q) \in Nat
    BY Remainder, MultipleType
  <2>2. /\ n \in Nat /\ Fired \in Nat /\ n <= Fired
        /\ due \in Nat /\ set \in Nat /\ lag \in Nat
    BY <1>1, Types
  <2>3. CASE timer \in {"none", "created"}
    BY <1>1, <2>1, <2>3 DEF TimerInv, Stage
  <2>4. CASE timer \in {"armed", "deleted"}
    <3>1. set + Multiple(Fired + 1) <= due /\ due - Interval <= set + LetRun + lag
      BY <1>1, <2>4 DEF TimerInv, Timing
    <3> HIDE DEF n, q, r
    <3>2. Multiple(Fired + 1) = Multiple(Fired) + Interval /\ Multiple(Fired) \in Nat
      BY <2>2, MultipleType, MultipleNext
    <3>3. Multiple(n) \in Nat /\ Multiple(n) <= Multiple(Fired)
      BY <2>2, MultipleType, MultipleMonotone
    <3>4. Multiple(n) <= LetRun + lag
      BY <2>2, <3>1, <3>2, <3>3, Numbers
    <3>5. lag < Interval - r
      BY <1>1 DEF r
    <3>6. Multiple(n) < Multiple(q) + Interval
      BY <2>1, <2>2, <3>3, <3>4, <3>5, Numbers
    <3>7. ~(q < n)
      BY <2>1, <2>2, <3>3, <3>6, MultipleGrows, Numbers
    <3> QED
      BY <2>1, <2>2, <3>7 DEF n, q
  <2> QED
    BY <1>1, <2>3, <2>4 DEF TimerInv, TimerTypeOK
<1>2. TimerInv => ThreeThenNone
  BY <1>1 DEF TimerInv, Silent, ThreeThenNone
<1> QED
  BY <1>2, Inductive, PTL

\* What the n-th callback prints of CLOCK_MONOTONIC is the n-th multiple of the
\* interval after the timer was set, late by no more than the threads were, and
\* that whatever the setters do to the system time.
THEOREM CallbacksOnTime == Spec => []OnTime
<1>1. TimerInv => OnTime
  BY DEF TimerInv, Shown, OnClock, OnTime, Multiple
<1> QED
  BY <1>1, Inductive, PTL
=============================================================================
