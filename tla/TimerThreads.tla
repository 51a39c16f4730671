---------------------------- MODULE TimerThreads ----------------------------
(***************************************************************************)
(* 23-chap/main.c: main() creates a timer on CLOCK_MONOTONIC, lets it run  *)
(* while it sleeps, deletes it and sleeps once more to "verify timer       *)
(* doesn't occur again".  The C library turns every expiry into a new      *)
(* thread, which runs TimerCallback(): a helper thread takes the kernel's  *)
(* signal for the timer and starts the callback.  An expiry whose signal   *)
(* finds the one before it still queued only counts as an overrun, which   *)
(* nothing reads, and timer_delete() takes back a signal that is queued.   *)
(*                                                                         *)
(* Nothing makes the threads run at once, and time passes while a thread   *)
(* that could run does not: lag counts it.                                 *)
(***************************************************************************)
EXTENDS Clocks, Sequences

CONSTANTS
  FirstSleep,   \* the sleep before the timer is created (2.5, rounded up)
  Interval,     \* it_value and it_interval (4)
  LetRun,       \* the sleep while the timer runs (3 * 4 + 1)
  Verify,       \* the sleep after the timer is deleted (5)
  MaxLag,       \* bound on lag
  TimerFaults   \* calls that may fail: "timer_create", "pthread_create"

ASSUME TimerAssumption ==
  /\ {FirstSleep, Interval, LetRun, Verify} \subseteq Nat \ {0}
  /\ LetRun % Interval # 0     \* it ends between two expiries
  /\ MaxLag \in Nat
  /\ TimerFaults \subseteq {"timer_create", "pthread_create"}

VARIABLES
  main,         \* where main() stands
  wake,         \* when its sleep is over
  timer,        \* what has become of the timer
  due,          \* the next expiry of the timer, if it is armed
  pending,      \* whether the signal of an expiry is queued
  callbacks,    \* the callbacks that were started, in order
  set,          \* history: when the timer was set
  lag,          \* history: the time that passed while some thread could run
  failed        \* history: whether a call has failed

mainState == <<main, wake, timer, due, pending>>
timerVars == <<mainState, callbacks, set, lag, failed>>

MainPlace == {"notStarted", "print", "sleep", "create", "set", "run",
              "delete", "verify", "exited", "crashed"}

\* What a thread knows of the clocks, and whether it has printed it.
Callback == [at : {"realtime", "monotonic", "print", "returned"},
             realtime : Int, monotonic : Nat]

TimerTypeOK ==
  /\ main \in MainPlace
  /\ {wake, due, set, lag} \subseteq Nat
  /\ timer \in {"none", "created", "armed", "deleted"}
  /\ {pending, failed} \subseteq BOOLEAN
  /\ callbacks \in Seq(Callback)

TimerInit ==
  /\ main \in {"notStarted", "print"}
  /\ wake = 0
  /\ timer = "none"
  /\ due = 0
  /\ pending = FALSE
  /\ callbacks = <<>>
  /\ set = 0
  /\ lag = 0
  /\ failed = FALSE

-----------------------------------------------------------------------------
(* main() *)

Main(a, b) ==
  /\ main = a
  /\ main' = b
  /\ UNCHANGED <<clock, lag>>

Sleep(seconds) == wake' = now + seconds

\* PrintClocks() by main() itself changes nothing, however often it is called.
PrintAndSleep ==
  /\ Main("print", "sleep")
  /\ Sleep(FirstSleep)
  /\ UNCHANGED <<timer, due, pending, callbacks, set, failed>>

Wake ==
  /\ now >= wake
  /\ Main("sleep", "create")
  /\ UNCHANGED <<wake, timer, due, pending, callbacks, set, failed>>

\* If timer_create() fails an error is printed and timerid stays uninitialized.
TimerCreate ==
  /\ Main("create", "set")
  /\ \/ timer' = "created" /\ UNCHANGED failed
     \/ "timer_create" \in TimerFaults /\ failed' = TRUE /\ UNCHANGED timer
  /\ UNCHANGED <<wake, due, pending, callbacks, set>>

\* A call with an uninitialized timerid, which is undefined behaviour: the C
\* library rejects the value or follows it out of the process's memory.
NoSuchTimer(a, b) ==
  /\ timer = "none"
  /\ \/ Main(a, b)
     \/ Main(a, "crashed")

\* timer_settime(), and the beginning of the long sleep.
TimerSettime ==
  \/ /\ timer = "created"
     /\ Main("set", "run")
     /\ timer' = "armed"
     /\ due' = now + Interval
     /\ set' = now
     /\ Sleep(LetRun)
     /\ UNCHANGED <<pending, callbacks, failed>>
  \/ /\ NoSuchTimer("set", "run")
     /\ Sleep(LetRun)
     /\ UNCHANGED <<timer, due, pending, callbacks, set, failed>>

WakeAgain ==
  /\ now >= wake
  /\ Main("run", "delete")
  /\ UNCHANGED <<wake, timer, due, pending, callbacks, set, failed>>

\* Mutant: the timer is disarmed too late, after the last sleep.
MutantTimerDelete ==
  /\ Main("delete", "verify")
  /\ Sleep(Verify)
  /\ UNCHANGED <<timer, due, pending, callbacks, set, failed>>

\* timer_delete(), and the beginning of the last sleep.
TimerDelete ==
  \/ /\ timer = "armed"
     /\ Main("delete", "verify")
     /\ timer' = "deleted"
     /\ pending' = FALSE
     /\ Sleep(Verify)
     /\ UNCHANGED <<due, callbacks, set, failed>>
  \/ /\ NoSuchTimer("delete", "verify")
     /\ Sleep(Verify)
     /\ UNCHANGED <<timer, due, pending, callbacks, set, failed>>

\* main() returns: the process ends, whatever its other threads are doing.
AllDone ==
  /\ now >= wake
  /\ Main("verify", "exited")
  /\ UNCHANGED <<wake, timer, due, pending, callbacks, set, failed>>

Ended == main \in {"exited", "crashed"}

-----------------------------------------------------------------------------
(* the kernel's timer, the library's helper thread and the callbacks *)

Expire ==
  /\ ~Ended
  /\ timer = "armed"
  /\ now = due
  /\ due' = due + Interval
  /\ pending' = TRUE
  /\ UNCHANGED <<clock, main, wake, timer, callbacks, set, lag, failed>>

\* The helper takes the signal and starts a thread, if one can be had.
StartCallback ==
  /\ ~Ended
  /\ pending
  /\ pending' = FALSE
  /\ \/ /\ callbacks' = Append(callbacks,
                               [at |-> "realtime", realtime |-> 0, monotonic |-> 0])
        /\ UNCHANGED failed
     \/ /\ "pthread_create" \in TimerFaults
        /\ failed' = TRUE
        /\ UNCHANGED callbacks
  /\ UNCHANGED <<clock, main, wake, timer, due, set, lag>>

Continues(i, a, b) ==
  /\ ~Ended
  /\ callbacks[i].at = a
  /\ callbacks' = [callbacks EXCEPT ![i] = b]
  /\ UNCHANGED <<clock, mainState, set, lag, failed>>

GetRealtime(i) ==
  Continues(i, "realtime", [callbacks[i] EXCEPT !.at = "monotonic", !.realtime = Realtime])

\* Mutant: CLOCK_REALTIME is read twice.
MutantGetMonotonic(i) ==
  Continues(i, "monotonic", [callbacks[i] EXCEPT !.at = "print", !.monotonic = Realtime])

GetMonotonic(i) ==
  Continues(i, "monotonic", [callbacks[i] EXCEPT !.at = "print", !.monotonic = now])

\* The times of both clocks are printed and the thread returns.
PrintAndReturn(i) ==
  Continues(i, "print", [callbacks[i] EXCEPT !.at = "returned"])

TimerCallback(i) == GetRealtime(i) \/ GetMonotonic(i) \/ PrintAndReturn(i)

Program ==
  \/ PrintAndSleep \/ Wake \/ TimerCreate \/ TimerSettime \/ WakeAgain
  \/ TimerDelete \/ AllDone \/ Expire \/ StartCallback
  \/ \E i \in DOMAIN callbacks : TimerCallback(i)

-----------------------------------------------------------------------------
(* the passing of time *)

Asleep == main \in {"sleep", "run", "verify"} /\ now < wake

\* Some thread of the process could take a step.
Runnable ==
  /\ main # "notStarted" /\ ~Ended
  /\ ~Asleep \/ pending \/ \E i \in DOMAIN callbacks : callbacks[i].at # "returned"

\* The kernel is never late: only threads are.
TimePasses ==
  /\ main # "notStarted" /\ ~Ended
  /\ timer = "armed" => now < due
  /\ Runnable => lag < MaxLag
  /\ Tick
  /\ lag' = IF Runnable THEN lag + 1 ELSE lag
  /\ UNCHANGED <<mainState, callbacks, set, failed>>

-----------------------------------------------------------------------------
\* "Let 4 second interval occur 3 times" and "verify timer doesn't occur again
\* after being deleted": there are never more callbacks than expiries in the
\* sleep, even if main() is late by less than what is missing to one more, and
\* if no thread is late and no call fails, just as many have been printed when
\* the timer is deleted, and none is printed afterwards.
ThreeThenNone ==
  /\ lag < Interval - (LetRun % Interval) => Len(callbacks) <= LetRun \div Interval
  /\ lag = 0 /\ ~failed /\ main \in {"verify", "exited"} =>
       /\ Len(callbacks) = LetRun \div Interval
       /\ \A i \in DOMAIN callbacks : callbacks[i].at = "returned"

\* "Print clocks every 4.0 seconds": the n-th callback shows the n-th multiple of
\* the interval on CLOCK_MONOTONIC, late by no more than the threads were late,
\* whatever other programs do to the system time, as long as no expiry was
\* counted as an overrun and no thread was missing.
OnTime ==
  lag < Interval /\ ~failed =>
    \A n \in DOMAIN callbacks :
      callbacks[n].at \in {"print", "returned"} =>
        callbacks[n].monotonic - (set + n * Interval) \in 0 .. lag
=============================================================================
