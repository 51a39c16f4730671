----------------------------- MODULE SigintGate -----------------------------
(***************************************************************************)
(* 20-chap/main.c: the process ignores SIGINT for five seconds, then       *)
(* catches it with SigintHandler(), and then spins until it is killed.     *)
(* The handler says "Nope" to the first three signals and puts SIG_DFL     *)
(* back at the fourth.                                                     *)
(*                                                                         *)
(* SIGINT is blocked while its handler runs.  A standard signal is not     *)
(* queued: the Control-Cs that arrive while one is pending are lost.       *)
(*                                                                         *)
(* The program never sets sa_mask, and sa_flags only for the handler.      *)
(* Whatever they hold changes nothing here: flags say nothing of SIG_IGN   *)
(* and SIG_DFL, and the mask can only add signals other than SIGINT.       *)
(***************************************************************************)
EXTENDS Integers

CONSTANTS
  Nopes,     \* the signals that the handler refuses (3 in the code)
  Cap,       \* where the two history counters stop counting
  GateFaults \* which sigaction() may fail: "main", "handler"

ASSUME NopesAssumption == Nopes \in 0 .. 254
ASSUME CapAssumption == Cap \in Nat /\ Cap > Nopes + 2
ASSUME GateFaultsAssumption == GateFaults \subseteq {"main", "handler"}

VARIABLES
  stage,      \* where main() stands, or how the process ended
  disp,       \* the disposition of SIGINT
  pending,    \* is a SIGINT waiting to be delivered?
  handler,    \* where SigintHandler() stands
  cnt,        \* its static counter, a uint8_t
  presses,    \* history: the Control-Cs since the handler was installed
  delivered,  \* history: the signals delivered since then
  stuck       \* history: has the handler failed to restore the default?

gateVars == <<stage, disp, pending, handler, cnt, presses, delivered, stuck>>

GateTypeOK ==
  /\ stage \in {"ignore", "sleep", "catch", "spin", "failed", "killed"}
  /\ disp \in {"default", "ignore", "handler"}
  /\ pending \in BOOLEAN
  /\ handler \in {"idle", "entered", "leaving"}
  /\ cnt \in 1 .. Nopes + 1
  /\ presses \in 0 .. Cap
  /\ delivered \in 0 .. Cap
  /\ stuck \in BOOLEAN

\* The disposition is inherited from the shell that started the program.
GateInit ==
  /\ stage = "ignore"
  /\ disp \in {"default", "ignore"}
  /\ pending = FALSE
  /\ handler = "idle"
  /\ cnt = 1
  /\ presses = 0
  /\ delivered = 0
  /\ stuck = FALSE

Alive == stage \notin {"failed", "killed"}
Count(n) == IF n < Cap THEN n + 1 ELSE n

Main(a, b) ==
  /\ handler = "idle"
  /\ stage = a
  /\ stage' = b
  /\ UNCHANGED <<handler, cnt, presses, delivered, stuck>>

SigactionFails(a) ==
  /\ "main" \in GateFaults
  /\ Main(a, "failed")
  /\ UNCHANGED <<disp, pending>>

\* Mutant: a Control-C that is pending survives SIG_IGN.
MutantIgnoreKeeps ==
  \/ /\ Main("ignore", "sleep")
     /\ disp' = "ignore"
     /\ UNCHANGED pending
  \/ SigactionFails("ignore")

\* sigaction(SIGINT, SIG_IGN) also throws away a signal that is pending.
Ignore ==
  \/ /\ Main("ignore", "sleep")
     /\ disp' = "ignore"
     /\ pending' = FALSE
  \/ SigactionFails("ignore")

\* sleep(5); an ignored signal does not cut it short.
Sleep ==
  /\ Main("sleep", "catch")
  /\ UNCHANGED <<disp, pending>>

Catch ==
  \/ /\ Main("catch", "spin")
     /\ disp' = "handler"
     /\ UNCHANGED pending
  \/ SigactionFails("catch")

\* The user types Control-C.
Press ==
  /\ Alive
  /\ pending' = (pending \/ disp # "ignore")
  /\ presses' = IF stage = "spin" THEN Count(presses) ELSE presses
  /\ UNCHANGED <<stage, disp, handler, cnt, delivered, stuck>>

Delivers ==
  /\ Alive
  /\ pending
  /\ handler = "idle"
  /\ pending' = FALSE
  /\ delivered' = IF stage = "spin" THEN Count(delivered) ELSE delivered
  /\ UNCHANGED <<disp, cnt, presses, stuck>>

\* The default action of SIGINT.
Die ==
  /\ Delivers
  /\ disp = "default"
  /\ stage' = "killed"
  /\ UNCHANGED handler

Enter ==
  /\ Delivers
  /\ disp = "handler"
  /\ handler' = "entered"
  /\ UNCHANGED stage

Nope ==
  /\ handler = "entered"
  /\ cnt <= Nopes
  /\ cnt' = (cnt + 1) % 256
  /\ handler' = "leaving"
  /\ UNCHANGED <<stage, disp, pending, presses, delivered, stuck>>

\* Mutant: the handler stops one signal too early.
MutantStopEarly ==
  /\ handler = "entered"
  /\ cnt >= Nopes
  /\ \/ disp' = "default" /\ UNCHANGED stuck
     \/ "handler" \in GateFaults /\ stuck' = TRUE /\ UNCHANGED disp
  /\ handler' = "leaving"
  /\ UNCHANGED <<stage, pending, cnt, presses, delivered>>

\* Mutant: "OK I'll stop." is only said.
MutantStopSays ==
  /\ handler = "entered"
  /\ cnt > Nopes
  /\ handler' = "leaving"
  /\ UNCHANGED <<stage, disp, pending, cnt, presses, delivered, stuck>>

\* "OK I'll stop."; if sigaction() fails here the handler stays installed.
Stop ==
  /\ handler = "entered"
  /\ cnt > Nopes
  /\ \/ disp' = "default" /\ UNCHANGED stuck
     \/ "handler" \in GateFaults /\ stuck' = TRUE /\ UNCHANGED disp
  /\ handler' = "leaving"
  /\ UNCHANGED <<stage, pending, cnt, presses, delivered>>

Return ==
  /\ handler = "leaving"
  /\ handler' = "idle"
  /\ UNCHANGED <<stage, disp, pending, cnt, presses, delivered, stuck>>

GateProgram == Ignore \/ Sleep \/ Catch \/ Die \/ Enter \/ Nope \/ Stop \/ Return

Ended == ~Alive /\ UNCHANGED gateVars

GateNext == GateProgram \/ Press \/ Ended

GateSpec == GateInit /\ [][GateNext]_gateVars

\* The process is scheduled, signals are delivered, sleep() ends.
GateFairSpec == GateSpec /\ WF_gateVars(GateProgram)

-----------------------------------------------------------------------------
Armed == presses > 0 \/ stage = "spin"

\* Once the handler is there the process is killed at the earliest by signal
\* Nopes + 2, and exactly by that one unless sigaction() fails in the handler;
\* each refusal has been spoken before.  This is what the code does, and not
\* what it announces: see ThreeAttempts.
KilledByLast ==
  stage = "killed" /\ Armed =>
    /\ cnt = Nopes + 1
    /\ delivered >= Nopes + 2
    /\ ~stuck => delivered = Nopes + 2

\* "Control-C available (3 attempts required)...": the process is killed by
\* the attempt of that number, or, if these are only to be refused, by the next.
ThreeAttempts ==
  stage = "killed" /\ Armed => delivered \in {Nopes, Nopes + 1}

\* A Control-C typed before the handler was installed is never charged to the
\* user later: each signal delivered, and the one pending, stands for a later
\* Control-C of its own.
NoEarlierPressCounts ==
  presses < Cap /\ stage = "spin" => delivered + (IF pending THEN 1 ELSE 0) <= presses

\* Once the handler is installed, a user who goes on typing Control-C always ends
\* the program, although any number of them may be merged into one signal.
UserEndsIt ==
  WF_gateVars(Press) /\ []~stuck => (stage = "spin" ~> ~Alive)
=============================================================================
