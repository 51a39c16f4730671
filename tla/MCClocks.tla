------------------------------ MODULE MCClocks ------------------------------
(***************************************************************************)
(* The programs that use the clocks, together on one system: either the    *)
(* timer of 23-chap and one program that sets the clock, or several        *)
(* programs that set the clock.                                            *)
(***************************************************************************)
EXTENDS SetClock, TimerThreads

CONSTANTS
  Companion,    \* the setter that runs beside the timer
  ShortTime     \* bound on the time that passes if the timer is not started

TimeAlonePasses ==
  /\ main = "notStarted"
  /\ now < ShortTime
  /\ Tick
  /\ UNCHANGED timerVars

\* To keep the states few, the program beside the timer is started while the
\* timer is running.
Companions(p) == p = Companion /\ (at[p] = "start" => main = "run")

Init == ClockInit /\ SetterInit /\ TimerInit

Next ==
  \/ /\ \E p \in Setter : (main = "notStarted" \/ Companions(p)) /\ Sets(p)
     /\ UNCHANGED timerVars
  \/ /\ Program \/ TimePasses \/ TimeAlonePasses
     /\ UNCHANGED setterVars

Spec == Init /\ [][Next]_<<clock, setterVars, timerVars>>
=============================================================================
