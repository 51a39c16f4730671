--------------------------- MODULE Reaping_proofs ---------------------------
(***************************************************************************)
(* 26-chap: the three ways to wait for children.                           *)
(*                                                                         *)
(* children_signalling() never counts too few children, although its i++   *)
(* and the i-- of the handler race for one byte, and it returns only when  *)
(* no child is left.  The races are harmless in one direction: a handler   *)
(* that runs between the load and the store of i++ has its i-- overwritten *)
(* by a larger value.                                                      *)
(*                                                                         *)
(* children_polling() and children_blocking() return only when no child is *)
(* left, and go wrong only when a fork failed or SIGCHLD was ignored.      *)
(* The counter is an upper bound of the unreaped children because every    *)
(* turn of the loop of forks counts, also one whose fork fails, and only a *)
(* waitpid() that finds a child, or finds that none is left, counts down;  *)
(* what it is too high by are the children that waitpid() cannot return.   *)
(***************************************************************************)
EXTENDS ReapSignalling, ReapWaiting, FiniteSetTheorems, TLAPS

-----------------------------------------------------------------------------
(* The table of children: what the system calls do to their number *)

\* The children to be reaped are finitely many, at most one per entry.
LEMMA UnreapedFinite ==
  /\ IsFiniteSet(Unreaped)
  /\ Cardinality(Unreaped) \in Nat
  /\ Cardinality(Unreaped) = 0 <=> Unreaped = {}
<1>1. Unreaped \subseteq Pid
  BY DEF Unreaped
<1>2. IsFiniteSet(Unreaped)
  BY <1>1, PidAssumption, FS_Subset
<1> QED
  BY <1>2, FS_CardinalityType, FS_EmptySet

\* The same of the table after a step.
LEMMA UnreapedFinitePrime ==
  /\ IsFiniteSet(Unreaped')
  /\ Cardinality(Unreaped') \in Nat
<1>1. Unreaped' \subseteq Pid
  BY DEF Unreaped
<1>2. IsFiniteSet(Unreaped')
  BY <1>1, PidAssumption, FS_Subset
<1> QED
  BY <1>2, FS_CardinalityType

\* A fork() that succeeds adds one child.
LEMMA ForkGivesOne ==
  ASSUME kid \in [Pid -> KidState], NEW p \in Pid, ForkGives(p)
  PROVE  /\ kid' \in [Pid -> KidState]
         /\ Cardinality(Unreaped') = Cardinality(Unreaped) + 1
<1>1. kid' \in [Pid -> KidState]
  BY DEF ForkGives, KidState
<1>2. p \notin Unreaped /\ Unreaped' = Unreaped \cup {p}
  BY DEF ForkGives, Unreaped, KidState
<1> QED
  BY <1>1, <1>2, UnreapedFinite, FS_AddElement

\* A waitpid() that returns a child takes one away, and there was one.
LEMMA WaitReturnsOne ==
  ASSUME kid \in [Pid -> KidState], NEW p \in Pid, WaitReturns(p)
  PROVE  /\ kid' \in [Pid -> KidState]
         /\ Cardinality(Unreaped) \in Nat \ {0}
         /\ Cardinality(Unreaped') = Cardinality(Unreaped) - 1
<1>1. kid' \in [Pid -> KidState]
  BY DEF WaitReturns, KidState
<1>2. p \in Unreaped /\ Unreaped' = Unreaped \ {p}
  BY DEF WaitReturns, Unreaped, KidState
<1>3. Cardinality(Unreaped') = Cardinality(Unreaped) - 1
  BY <1>2, UnreapedFinite, FS_RemoveElement
<1> QED
  BY <1>1, <1>2, <1>3, UnreapedFinite

\* A child that exits stays to be reaped, or goes at once where SIGCHLD is
\* ignored; it never makes the number larger.
LEMMA ChildExitsOne ==
  ASSUME kid \in [Pid -> KidState], NEW p \in Pid, ChildExits(p)
  PROVE  /\ kid' \in [Pid -> KidState]
         /\ Unreaped' \subseteq Unreaped
         /\ Cardinality(Unreaped') <= Cardinality(Unreaped)
         /\ sigchld # "ignore" => Unreaped' = Unreaped
<1>1. kid' \in [Pid -> KidState]
  BY DEF ChildExits, KidState
<1>2. Unreaped' \subseteq Unreaped /\ (sigchld # "ignore" => Unreaped' = Unreaped)
  BY DEF ChildExits, Unreaped, KidState
<1> QED
  BY <1>1, <1>2, UnreapedFinite, FS_Subset

\* The counters neither wrap below 255 nor above 0.
LEMMA Counting ==
  ASSUME NEW n \in 0 .. 255
  PROVE  /\ Dec8(n) \in 0 .. 255 /\ Inc8(n) \in 0 .. 255
         /\ n > 0 => Dec8(n) = n - 1
         /\ n < 255 => Inc8(n) = n + 1
BY DEF Dec8, Inc8

-----------------------------------------------------------------------------
(* children_signalling() *)

\* The inductive invariant.  Before sigaction() there is no child; between the
\* test i < 3 and the fork the counter has room for one more child, because
\* the handler can only make it smaller.
Room ==
  /\ pc = "install" => Unreaped = {}
  /\ pc = "fork" => i < NumKids

\* While all is calm the handler is installed, it finds no zombie before the
\* loop of forks is over, and so i++ is never interrupted by i--.
Steady ==
  calm => /\ pc # "install" => sigchld = "handler" /\ Counted = Cardinality(Unreaped)
          /\ pc \in Starting => Zombies = {}

IInv == TypeOK /\ NeverUndercounts /\ Room /\ Steady

LEMMA InitIInv == Init => IInv
<1> SUFFICES ASSUME Init
             PROVE  IInv
  OBVIOUS
<1>1. Unreaped = {}
  BY DEF Init, Unreaped
<1>2. TypeOK
  <2>1. kid \in [Pid -> KidState]
    BY DEF Init, KidState
  <2>2. pc \in Starting \cup Waiting /\ i \in 0 .. 255 /\ reg \in 0 .. 255
    BY DEF Init, Starting
  <2>3. sigchld \in InheritedSigchld \cup {"handler"}
    BY DEF Init
  <2> QED
    BY <2>1, <2>2, <2>3 DEF Init, TypeOK
<1>3. NeverUndercounts /\ Room
  BY <1>1 DEF Init, NeverUndercounts, Room
<1>4. Steady
  <2>1. Zombies = {}
    BY DEF Init, Zombies
  <2> QED
    BY <2>1 DEF Init, Steady
<1> QED
  BY <1>2, <1>3, <1>4 DEF IInv

\* Counted is a byte.
LEMMA CountedType ==
  ASSUME TypeOK
  PROVE  /\ Counted \in 0 .. 255
         /\ pc = "incr" => Counted = Inc8(i)
         /\ pc = "store" => Counted = Inc8(reg)
         /\ pc \notin {"incr", "store"} => Counted = i
BY Counting DEF TypeOK, Counted

\* The same of the state after a step.
LEMMA CountedTypePrime ==
  ASSUME TypeOK'
  PROVE  /\ pc' = "incr" => Counted' = Inc8(i')
         /\ pc' = "store" => Counted' = Inc8(reg')
         /\ pc' \notin {"incr", "store"} => Counted' = i'
BY Counting DEF TypeOK, Counted

LEMMA NextTypeOK == TypeOK /\ [Next]_vars => TypeOK'
<1> SUFFICES ASSUME TypeOK, [Next]_vars
             PROVE  TypeOK'
  OBVIOUS
<1> USE DEF TypeOK, Starting, Waiting
<1>1. CASE Install
  <2>1. sigchld' \in InheritedSigchld \cup {"handler"} /\ calm' \in BOOLEAN
    BY <1>1 DEF Install
  <2>2. pc' = "loop" /\ i' = 0 /\ UNCHANGED <<kid, reg, pending, inHandler>>
    BY <1>1 DEF Install, Parent
  <2> QED
    BY <2>1, <2>2
<1>2. CASE Test
  <2>1. pc' \in {"fork", "check"}
    BY <1>2 DEF Test, Parent
  <2> QED
    BY <1>2, <2>1 DEF Test
<1>3. CASE Fork
  <2>1. kid' \in [Pid -> KidState]
    BY <1>3, ForkGivesOne DEF Fork, ForkFails
  <2> QED
    BY <1>3, <2>1 DEF Fork, Parent
<1>4. CASE IncLoad
  BY <1>4 DEF IncLoad, Parent
<1>5. CASE IncStore
  BY <1>5, Counting DEF IncStore, Parent
<1>6. CASE Check
  <2>1. pc' \in {"pausing", "finished"}
    BY <1>6 DEF Check, Parent
  <2> QED
    BY <1>6, <2>1 DEF Check
<1>7. CASE Pause
  BY <1>7 DEF Pause, Parent
<1>8. CASE Deliver
  BY <1>8 DEF Deliver
<1>9. CASE HandlerReaps
  BY <1>9, WaitReturnsOne, Counting DEF HandlerReaps
<1>10. CASE HandlerReturns
  <2>1. pc' \in {"check", pc}
    BY <1>10 DEF HandlerReturns
  <2> QED
    BY <1>10, <2>1 DEF HandlerReturns
<1>11. ASSUME NEW p \in Pid, Exit(p)
       PROVE  TypeOK'
  BY <1>11, ChildExitsOne DEF Exit
<1>12. CASE UNCHANGED vars
  BY <1>12 DEF vars
<1> QED
  BY <1>1, <1>2, <1>3, <1>4, <1>5, <1>6, <1>7, <1>8, <1>9, <1>10, <1>11, <1>12
     DEF Next, Main, Handler

LEMMA NextCounts == IInv /\ [Next]_vars => NeverUndercounts' /\ Room'
<1> SUFFICES ASSUME IInv, [Next]_vars
             PROVE  NeverUndercounts' /\ Room'
  OBVIOUS
<1>0. TypeOK'
  BY NextTypeOK DEF IInv
<1>a. /\ i \in 0 .. 255 /\ i' \in 0 .. 255
      /\ reg \in 0 .. 255
      /\ kid \in [Pid -> KidState]
      /\ Counted \in 0 .. 255
  BY <1>0, CountedType DEF IInv, TypeOK
<1> USE NumKidsAssumption, UnreapedFinite, UnreapedFinitePrime, <1>0, <1>a,
        CountedType, CountedTypePrime
    DEF IInv, NeverUndercounts, Room
<1>1. CASE Install
  <2>1. UNCHANGED kid /\ pc = "install" /\ pc' = "loop" /\ i' = 0
    BY <1>1 DEF Install, Parent
  <2> QED
    BY <2>1 DEF Unreaped
<1>2. CASE Test
  <2>1. UNCHANGED <<kid, i>> /\ pc = "loop" /\ pc' \in {"fork", "check"}
        /\ (pc' = "fork" => i < NumKids)
    BY <1>2 DEF Test, Parent
  <2> QED
    BY <2>1 DEF Unreaped
<1>3. CASE Fork
  <2>1. UNCHANGED i /\ pc = "fork" /\ pc' = "incr"
    BY <1>3 DEF Fork, Parent
  <2>2. Counted = i /\ i < NumKids /\ Counted' = Inc8(i)
    BY <2>1
  <2>3. Counted' = Counted + 1 /\ Counted' <= NumKids
    <3>1. i < 255 /\ i \in 0 .. 255
      BY ONLY <2>2, <1>a, NumKidsAssumption
    <3>2. Inc8(i) = i + 1
      BY ONLY <3>1, Counting
    <3> QED
      BY ONLY <2>2, <3>1, <3>2, NumKidsAssumption
  <2>4. Cardinality(Unreaped') <= Cardinality(Unreaped) + 1
    BY <1>3, ForkGivesOne DEF Fork, ForkFails, Unreaped
  <2> QED
    BY <2>1, <2>3, <2>4
<1>4. CASE IncLoad
  <2>1. UNCHANGED <<kid, i>> /\ pc = "incr" /\ pc' = "store" /\ reg' = i
    BY <1>4 DEF IncLoad, Parent
  <2> QED
    BY <2>1 DEF Unreaped
<1>5. CASE IncStore
  <2>1. UNCHANGED kid /\ pc = "store" /\ pc' = "loop" /\ i' = Inc8(reg)
    BY <1>5 DEF IncStore, Parent
  <2> QED
    BY <2>1 DEF Unreaped
<1>6. CASE Check \/ Pause \/ Deliver \/ HandlerReturns \/ UNCHANGED vars
  <2>1. UNCHANGED <<kid, i, reg>>
        /\ (pc' = pc \/ (/\ pc \in {"check", "pausing", "paused"}
                         /\ pc' \in {"check", "pausing", "paused", "finished"}))
    BY <1>6 DEF Check, Pause, Deliver, HandlerReturns, Parent, vars
  <2>2. Counted' = Counted /\ Unreaped' = Unreaped
    BY <2>1 DEF Unreaped
  <2> QED
    BY <2>1, <2>2
<1>7. CASE HandlerReaps
  <2>1. UNCHANGED <<pc, reg>> /\ i' = Dec8(i)
    BY <1>7 DEF HandlerReaps
  <2>2. PICK p \in Pid : WaitReturns(p)
    BY <1>7 DEF HandlerReaps
  <2>3. /\ Cardinality(Unreaped) >= 1
        /\ Cardinality(Unreaped') = Cardinality(Unreaped) - 1
    BY <2>2, WaitReturnsOne
  <2>4. pc # "install" /\ Counted >= 1 /\ Cardinality(Unreaped) <= Counted
    BY <2>3
  <2>5. CASE pc = "incr"
    <3>1. Counted = Inc8(i) /\ Counted' = Inc8(Dec8(i))
      BY <2>1, <2>5
    <3>2. Inc8(i) >= 1 => Inc8(Dec8(i)) = Inc8(i) - 1
      BY <1>a DEF Inc8, Dec8
    <3>3. Counted' = Counted - 1
      BY <2>4, <3>1, <3>2
    <3> QED
      BY <2>1, <2>3, <2>4, <2>5, <3>3
  <2>6. CASE pc = "store"
    BY <2>1, <2>3, <2>4, <2>6
  <2>7. CASE pc \notin {"incr", "store"}
    <3>0. Counted = i /\ i > 0
      BY <2>4, <2>7
    <3>1. i' = i - 1
      BY <2>1, <3>0, Counting
    <3> QED
      BY <2>1, <2>3, <2>4, <2>7, <3>1
  <2> QED
    BY <2>5, <2>6, <2>7
<1>8. ASSUME NEW p \in Pid, Exit(p)
      PROVE  NeverUndercounts' /\ Room'
  <2>1. UNCHANGED <<pc, i, reg>> /\ ChildExits(p)
    BY <1>8 DEF Exit
  <2>2. Counted' = Counted
    BY <2>1
  <2> QED
    BY <2>1, <2>2, ChildExitsOne
<1> QED
  BY <1>1, <1>2, <1>3, <1>4, <1>5, <1>6, <1>7, <1>8 DEF Next, Main, Handler

LEMMA NextSteady == IInv /\ [Next]_vars => Steady'
<1> SUFFICES ASSUME IInv, [Next]_vars, calm'
             PROVE  /\ pc' # "install" => /\ sigchld' = "handler"
                                          /\ Counted' = Cardinality(Unreaped')
                    /\ pc' \in Starting => Zombies' = {}
  BY DEF Steady
<1>0. TypeOK'
  BY NextTypeOK DEF IInv
<1>a. /\ i \in 0 .. 255 /\ i' \in 0 .. 255
      /\ reg \in 0 .. 255
      /\ kid \in [Pid -> KidState]
      /\ Counted \in 0 .. 255
  BY <1>0, CountedType DEF IInv, TypeOK
<1>1. CASE Install
  <2>1. /\ UNCHANGED kid /\ pc = "install" /\ pc' = "loop" /\ i' = 0
        /\ sigchld' = "handler" /\ calm
    BY <1>1 DEF Install, Parent, IInv, TypeOK
  <2>2. Unreaped' = {} /\ Zombies' = {}
    BY <2>1 DEF IInv, Room, Unreaped, Zombies
  <2>3. Counted' = 0
    BY <2>1, <1>0, CountedTypePrime
  <2> QED
    BY <2>1, <2>2, <2>3, FS_EmptySet
<1>2. CASE Fork
  <2>1. /\ pc = "fork" /\ pc' = "incr" /\ UNCHANGED <<i, sigchld>>
        /\ i < NumKids
    BY <1>2 DEF Fork, Parent, IInv, Room
  <2>2. PICK p \in Pid : ForkGives(p) /\ calm
    BY <1>2 DEF Fork
  <2>3. Zombies = {} /\ sigchld = "handler" /\ Counted = Cardinality(Unreaped)
    BY <2>1, <2>2 DEF IInv, Steady, Starting
  <2>4. Zombies' = {}
    BY <2>2, <2>3, <1>a DEF ForkGives, Zombies
  <2>5. Counted = i /\ Counted' = Inc8(i)
    BY <2>1, <1>0, CountedType, CountedTypePrime DEF IInv
  <2>6. Inc8(i) = i + 1
    <3>1. i < 255
      BY <2>1, <1>a, NumKidsAssumption
    <3> QED
      BY <3>1, <1>a, Counting
  <2>7. Cardinality(Unreaped') = Cardinality(Unreaped) + 1
    BY <2>2, <1>a, ForkGivesOne
  <2> QED
    BY <2>1, <2>3, <2>4, <2>5, <2>6, <2>7
<1>3. CASE HandlerReaps
  <2>1. UNCHANGED <<pc, reg, sigchld, calm>> /\ i' = Dec8(i)
    BY <1>3 DEF HandlerReaps
  <2>2. PICK p \in Pid : WaitReturns(p)
    BY <1>3 DEF HandlerReaps
  <2>3. Zombies # {} /\ pc \notin Starting
    <3>1. p \in Zombies
      BY <2>2 DEF WaitReturns, Zombies
    <3> QED
      BY <3>1, <2>1 DEF IInv, Steady
  <2>4. sigchld = "handler" /\ Counted = Cardinality(Unreaped)
    BY <2>1, <2>3 DEF IInv, Steady, Starting
  <2>5. Counted = i /\ Counted' = i'
    BY <2>1, <2>3, <1>0, CountedType, CountedTypePrime DEF IInv, Starting
  <2>6. /\ Cardinality(Unreaped) \in Nat \ {0}
        /\ Cardinality(Unreaped') = Cardinality(Unreaped) - 1
    BY <2>2, <1>a, WaitReturnsOne
  <2>7. i' = i - 1
    <3>1. i \in 0 .. 255 /\ i = Cardinality(Unreaped)
      BY <2>4, <2>5, <1>a
    <3>2. i > 0
      BY <3>1, <2>6
    <3> QED
      BY <2>1, <3>1, <3>2, Counting
  <2> QED
    BY <2>1, <2>3, <2>4, <2>5, <2>6, <2>7
<1>4. ASSUME NEW p \in Pid, Exit(p)
      PROVE  /\ pc' \notin Starting
             /\ sigchld' = "handler" /\ Counted' = Cardinality(Unreaped')
  <2>1. /\ UNCHANGED <<pc, i, reg, sigchld>> /\ ChildExits(p)
        /\ calm /\ pc \in Waiting
    BY <1>4 DEF Exit, IInv, TypeOK
  <2>2. pc \notin Starting
    BY <2>1 DEF Waiting, Starting
  <2>3. sigchld = "handler" /\ Counted = Cardinality(Unreaped)
    BY <2>1, <2>2 DEF IInv, Steady, Starting
  <2>4. Unreaped' = Unreaped
    BY <2>1, <2>3, <1>a, ChildExitsOne
  <2>5. Counted' = Counted
    BY <2>1, <1>0, CountedType, CountedTypePrime DEF IInv
  <2> QED
    BY <2>1, <2>2, <2>3, <2>4, <2>5
<1>5. CASE IncLoad \/ IncStore
  <2>1. /\ UNCHANGED <<kid, sigchld, calm>> /\ pc \in {"incr", "store"}
        /\ pc' \in {"store", "loop"}
    BY <1>5 DEF IncLoad, IncStore, Parent
  <2>2. Unreaped' = Unreaped /\ Zombies' = Zombies
    BY <2>1 DEF Unreaped, Zombies
  <2>3. CASE IncLoad
    <3>1. /\ pc = "incr" /\ pc' = "store" /\ reg' = i
      BY <2>3 DEF IncLoad, Parent
    <3>2. Counted' = Counted
      BY <3>1, <1>0, CountedType, CountedTypePrime DEF IInv
    <3> QED
      BY <3>1, <3>2, <2>1, <2>2 DEF IInv, Steady, Starting
  <2>4. CASE IncStore
    <3>1. /\ pc = "store" /\ pc' = "loop" /\ i' = Inc8(reg)
      BY <2>4 DEF IncStore, Parent
    <3>2. Counted' = Counted
      BY <3>1, <1>0, CountedType, CountedTypePrime DEF IInv
    <3> QED
      BY <3>1, <3>2, <2>1, <2>2 DEF IInv, Steady, Starting
  <2> QED
    BY <1>5, <2>3, <2>4
<1>6. CASE Test \/ Check \/ Pause \/ Deliver \/ HandlerReturns \/ UNCHANGED vars
  <2>1. /\ UNCHANGED <<kid, i, reg, sigchld, calm>>
        /\ \/ pc' = pc
           \/ pc = "loop" /\ pc' \in {"fork", "check"}
           \/ /\ pc \in {"check", "pausing", "paused"}
              /\ pc' \in {"check", "pausing", "paused", "finished"}
    BY <1>6 DEF Test, Check, Pause, Deliver, HandlerReturns, Parent, vars
  <2>2. Counted' = Counted /\ Unreaped' = Unreaped /\ Zombies' = Zombies
    BY <2>1, <1>0, CountedType, CountedTypePrime DEF IInv, Unreaped, Zombies
  <2> QED
    BY <2>1, <2>2 DEF IInv, Steady, Starting
<1> QED
  BY <1>1, <1>2, <1>3, <1>4, <1>5, <1>6 DEF Next, Main, Handler

LEMMA NextIInv == IInv /\ [Next]_vars => IInv'
BY NextTypeOK, NextCounts, NextSteady DEF IInv

THEOREM Inductive == Spec => []IInv
BY InitIInv, NextIInv, PTL DEF Spec

\* Type correctness; in particular the byte i stays a byte although it wraps
\* when the handler reaps the first child before i++ has counted it.
THEOREM TypeCorrect == Spec => []TypeOK
<1>1. IInv => TypeOK
  BY DEF IInv
<1> QED
  BY <1>1, Inductive, PTL

\* The counter never falls below the number of unreaped children, whatever
\* the handler interrupts.
THEOREM NoUndercount == Spec => []NeverUndercounts
<1>1. IInv => NeverUndercounts
  BY DEF IInv
<1> QED
  BY <1>1, Inductive, PTL

\* As long as no call fails and no child outruns the loop of forks, the counter
\* is exact.
THEOREM Exact == Spec => []ExactCount
<1>1. IInv => ExactCount
  BY DEF IInv, Steady, ExactCount
<1> QED
  BY <1>1, Inductive, PTL

\* There are never more than NumKids children at a time, although the loop of
\* forks can start more than NumKids of them in all.
THEOREM FewChildren == Spec => []AtMostNumKids
<1>1. IInv => AtMostNumKids
  BY CountedType, UnreapedFinite, NumKidsAssumption
     DEF IInv, TypeOK, NeverUndercounts, Room, AtMostNumKids
<1> QED
  BY <1>1, Inductive, PTL

-----------------------------------------------------------------------------
LEMMA InitPromise == Init => Promise!Init
BY DEF Init, Promise!Init

\* The parent leaves its loop only with i = 0, and then no child is left.
LEMMA NextPromise == IInv /\ [Next]_vars => [Promise!Next]_Promise!vars
<1> SUFFICES ASSUME IInv, [Next]_vars
             PROVE  [Promise!Next]_Promise!vars
  OBVIOUS
<1> USE DEF Promise!vars
<1>1. CASE Install \/ Test \/ IncLoad \/ IncStore \/ Pause \/ Deliver \/ UNCHANGED vars
  <2>1. UNCHANGED kid /\ (pc' = pc \/ (pc # "finished" /\ pc' # "finished"))
    BY <1>1 DEF Install, Test, IncLoad, IncStore, Pause, Deliver, Parent, vars
  <2> QED
    BY <2>1
<1>2. CASE Fork
  <2>1. pc = "fork" /\ pc' = "incr"
    BY <1>2 DEF Fork, Parent
  <2>2. CASE ForkFails
    BY <2>1, <2>2 DEF ForkFails
  <2>3. ASSUME NEW p \in Pid, ForkGives(p)
        PROVE  Promise!Next
    <3>1. Promise!Start(p)
      BY <2>1, <2>3 DEF ForkGives, Promise!Start
    <3> QED
      BY <3>1 DEF Promise!Next
  <2> QED
    BY <1>2, <2>2, <2>3 DEF Fork
<1>3. CASE Check
  <2>1. UNCHANGED kid /\ pc = "check"
    BY <1>3 DEF Check, Parent
  <2>2. CASE i > 0
    <3>1. pc' = "pausing"
      BY <1>3, <2>2 DEF Check, Parent
    <3> QED
      BY <2>1, <3>1
  <2>3. CASE ~(i > 0)
    <3>1. pc' = "finished"
      BY <1>3, <2>3 DEF Check, Parent
    <3>2. Counted = i /\ i = 0
      BY <2>1, <2>3, CountedType DEF IInv, TypeOK
    <3>3. Unreaped = {}
      BY <2>1, <3>2, UnreapedFinite DEF IInv, NeverUndercounts
    <3>4. Promise!Finish
      BY <2>1, <3>1, <3>3 DEF Promise!Finish, Unreaped
    <3> QED
      BY <3>4 DEF Promise!Next
  <2> QED
    BY <2>2, <2>3
<1>4. CASE HandlerReaps
  <2>1. PICK p \in Pid : WaitReturns(p)
    BY <1>4 DEF HandlerReaps
  <2>2. Promise!Collect(p)
    BY <1>4, <2>1 DEF HandlerReaps, WaitReturns, Promise!Collect
  <2> QED
    BY <2>2 DEF Promise!Next
<1>5. CASE HandlerReturns
  <2>1. UNCHANGED kid /\ pc' \in {"check", pc} /\ (pc = "finished" => pc' = pc)
    BY <1>5 DEF HandlerReturns
  <2> QED
    BY <2>1
<1>6. ASSUME NEW p \in Pid, Exit(p)
      PROVE  Promise!Next
  <2>1. Promise!End(p)
    BY <1>6 DEF Exit, ChildExits, Promise!End
  <2> QED
    BY <2>1 DEF Promise!Next
<1> QED
  BY <1>1, <1>2, <1>3, <1>4, <1>5, <1>6 DEF Next, Main, Handler

\* The function refines the promise of module Reaper: it starts and collects
\* children, and returns only when none is left.
THEOREM Refinement == Spec => Implements
<1>1. Init /\ [][Next]_vars /\ []IInv => Promise!Init /\ [][Promise!Next]_Promise!vars
  BY InitPromise, NextPromise, PTL
<1> QED
  BY <1>1, Inductive, PTL DEF Spec, Implements, Promise!Spec

-----------------------------------------------------------------------------
(* children_polling() and children_blocking() *)

\* The inductive invariant.  The counter lies between the number of unreaped
\* children and NumKids, so that neither i++ nor i-- wraps; a turn of either
\* while loop begins with i > 0; only blocking prints a -1, behind the loop of
\* forks; and each counted child is unreaped, reaped, shown as a -1, or missing.
Bounded == Cardinality(Unreaped) <= i /\ i <= NumKids

Turns ==
  /\ pc \in {"poll", "wait", "error"} => i > 0
  /\ pc \in {"poll", "error"} => method = "polling"
  /\ pc = "wait" => method = "blocking"
  /\ method = "polling" \/ pc = "loop" => minusOnes = 0

Ends == /\ pc = "finished" => i = 0
        /\ pc = "error" => Unreaped = {}

Accounts ==
  /\ sigchld # "ignore" => i + minusOnes = Cardinality(Unreaped) + failedForks
  /\ sigchld = "ignore" => /\ Zombies = {}
                           /\ pc # "loop" => i + minusOnes = NumKids

WaitingIInv == WaitingTypeOK /\ Bounded /\ Turns /\ Ends /\ Accounts

LEMMA WaitingInitIInv == WaitingInit => WaitingIInv
<1> SUFFICES ASSUME WaitingInit
             PROVE  WaitingIInv
  OBVIOUS
<1>1. Unreaped = {} /\ Zombies = {}
  BY DEF WaitingInit, Unreaped, Zombies
<1>2. WaitingTypeOK
  <2>1. kid \in [Pid -> KidState]
    BY DEF WaitingInit, KidState
  <2>2. i \in 0 .. 255
    BY DEF WaitingInit
  <2> QED
    BY <2>1, <2>2 DEF WaitingInit, WaitingTypeOK
<1>3. Cardinality(Unreaped) = 0
  BY <1>1, UnreapedFinite
<1>4. Bounded /\ Turns /\ Ends /\ Accounts
  BY <1>1, <1>3, NumKidsAssumption DEF WaitingInit, Bounded, Turns, Ends, Accounts
<1> QED
  BY <1>2, <1>4 DEF WaitingIInv

\* What TestTurn does to pc: it leaves the loop at 0 and only there.
LEMMA TestGoes ==
  ASSUME WaitingTypeOK, TestTurn
  PROVE  /\ i = 0 => pc' = "finished"
         /\ i > 0 => \/ pc' = "poll" /\ method = "polling"
                     \/ pc' = "wait" /\ method = "blocking"
<1>1. i \in 0 .. 255 /\ method \in {"polling", "blocking"}
  BY DEF WaitingTypeOK
<1>2. CASE i = 0
  BY <1>2 DEF TestTurn
<1>3. CASE i > 0 /\ method = "polling"
  BY <1>3 DEF TestTurn
<1>4. CASE i > 0 /\ method = "blocking"
  BY <1>4 DEF TestTurn
<1> QED
  BY <1>1, <1>2, <1>3, <1>4

LEMMA WaitingNextTypeOK == WaitingTypeOK /\ [WaitingNext]_waitingVars => WaitingTypeOK'
<1> SUFFICES ASSUME WaitingTypeOK, [WaitingNext]_waitingVars
             PROVE  WaitingTypeOK'
  OBVIOUS
<1> USE DEF WaitingTypeOK
<1>1. CASE ForkCounted
  <2>1. kid' \in [Pid -> KidState] /\ failedForks' \in Nat
    BY <1>1, ForkGivesOne DEF ForkCounted, ForkFails
  <2> QED
    BY <1>1, <2>1, Counting DEF ForkCounted
<1>2. CASE ForksDone \/ PollFails \/ PollFindsNone \/ UNCHANGED waitingVars
  BY <1>2 DEF ForksDone, PollFails, PollFindsNone, waitingVars
<1>3. CASE TestTurn
  <2>1. pc' \in {"finished", "poll", "wait"}
    BY <1>3, TestGoes
  <2> QED
    BY <1>3, <2>1 DEF TestTurn
<1>4. CASE PollReaps \/ WaitReaps
  <2>1. PICK p \in Pid : WaitReturns(p)
    BY <1>4 DEF PollReaps, WaitReaps
  <2>2. pc' \in {"test", "poll"} /\ UNCHANGED <<sigchld, method, failedForks, minusOnes>>
        /\ i' = Dec8(i)
    BY <1>4 DEF PollReaps, WaitReaps
  <2> QED
    BY <2>1, <2>2, WaitReturnsOne, Counting
<1>5. CASE WaitFails
  <2>1. /\ UNCHANGED <<kid, sigchld, method, failedForks>> /\ pc' = "test"
        /\ i' = Dec8(i) /\ minusOnes' = minusOnes + 1
    BY <1>5 DEF WaitFails
  <2>2. i' \in 0 .. 255
    BY <2>1, Counting
  <2> QED
    BY <2>1, <2>2
<1>6. ASSUME NEW p \in Pid, KidExits(p)
      PROVE  WaitingTypeOK'
  BY <1>6, ChildExitsOne DEF KidExits
<1> QED
  BY <1>1, <1>2, <1>3, <1>4, <1>5, <1>6 DEF WaitingNext, WaitingMain, Terminated

LEMMA WaitingNextIInv == WaitingIInv /\ [WaitingNext]_waitingVars => WaitingIInv'
<1> SUFFICES ASSUME WaitingIInv, [WaitingNext]_waitingVars
             PROVE  Bounded' /\ Turns' /\ Ends' /\ Accounts'
  BY WaitingNextTypeOK DEF WaitingIInv
<1>a. /\ WaitingTypeOK /\ kid \in [Pid -> KidState] /\ i \in 0 .. 255
      /\ failedForks \in Nat /\ minusOnes \in Nat
      /\ Cardinality(Unreaped) <= i /\ i <= NumKids
      /\ Turns /\ Ends /\ Accounts
  BY DEF WaitingIInv, WaitingTypeOK, Bounded
<1> USE NumKidsAssumption, UnreapedFinite, UnreapedFinitePrime, <1>a
    DEF Bounded, Turns, Ends, Accounts
<1>1. CASE ForkCounted
  <2>1. /\ i' = i + 1 /\ i < NumKids /\ pc = "loop"
        /\ UNCHANGED <<sigchld, method, pc, minusOnes>>
    <3>1. /\ i' = Inc8(i) /\ i < NumKids /\ pc = "loop"
          /\ UNCHANGED <<sigchld, method, pc, minusOnes>>
      BY <1>1 DEF ForkCounted
    <3>2. i < 255
      BY <3>1
    <3> QED
      BY <3>1, <3>2, Counting
  <2>2. CASE ForkFails /\ failedForks' = failedForks + 1
    <3>1. Unreaped' = Unreaped /\ Zombies' = Zombies
      BY <2>2 DEF ForkFails, Unreaped, Zombies
    <3> QED
      BY <2>1, <2>2, <3>1
  <2>3. ASSUME NEW p \in Pid, ForkGives(p), UNCHANGED failedForks
        PROVE  Bounded' /\ Turns' /\ Ends' /\ Accounts'
    <3>1. Cardinality(Unreaped') = Cardinality(Unreaped) + 1
      BY <2>3, ForkGivesOne
    <3>2. Zombies = {} => Zombies' = {}
      BY <2>3 DEF ForkGives, Zombies
    <3> QED
      BY <2>1, <2>3, <3>1, <3>2
  <2> QED
    BY <1>1, <2>2, <2>3 DEF ForkCounted
<1>2. CASE ForksDone
  <2>1. /\ UNCHANGED <<kid, sigchld, method, i, failedForks, minusOnes>>
        /\ pc = "loop" /\ i >= NumKids /\ pc' = "test"
    BY <1>2 DEF ForksDone
  <2>2. i = NumKids /\ minusOnes = 0
    BY <2>1
  <2> QED
    BY <2>1, <2>2 DEF Unreaped, Zombies
<1>3. CASE PollFindsNone \/ UNCHANGED waitingVars
  <2>1. /\ UNCHANGED <<kid, sigchld, method, i, failedForks, minusOnes>>
        /\ pc' = pc \/ (pc = "poll" /\ pc' = "test")
    BY <1>3 DEF PollFindsNone, waitingVars
  <2> QED
    BY <2>1 DEF Unreaped, Zombies
<1>4. CASE TestTurn
  <2>1. /\ UNCHANGED <<kid, sigchld, method, i, failedForks, minusOnes>>
        /\ pc = "test"
    BY <1>4 DEF TestTurn
  <2>2. \/ i = 0 /\ pc' = "finished"
        \/ i > 0 /\ pc' = "poll" /\ method = "polling"
        \/ i > 0 /\ pc' = "wait" /\ method = "blocking"
    BY <1>4, TestGoes
  <2>3. Unreaped' = Unreaped /\ Zombies' = Zombies
    BY <2>1 DEF Unreaped, Zombies
  <2> QED
    BY <2>1, <2>2, <2>3
<1>5. CASE PollFails
  <2>1. /\ UNCHANGED <<kid, sigchld, method, i, failedForks, minusOnes>>
        /\ pc = "poll" /\ pc' = "error" /\ Unreaped = {}
    BY <1>5 DEF PollFails, NoChild
  <2>2. Unreaped' = Unreaped /\ Zombies' = Zombies
    BY <2>1 DEF Unreaped, Zombies
  <2> QED
    BY <2>1, <2>2
<1>6. CASE PollReaps \/ WaitReaps
  <2>1. PICK p \in Pid : WaitReturns(p)
    BY <1>6 DEF PollReaps, WaitReaps
  <2>2. /\ Cardinality(Unreaped) >= 1
        /\ Cardinality(Unreaped') = Cardinality(Unreaped) - 1
    BY <2>1, WaitReturnsOne
  <2>3. /\ UNCHANGED <<sigchld, method, failedForks, minusOnes>> /\ i' = Dec8(i)
        /\ pc' \in {"test", "poll"}
        /\ pc' = "poll" => i' # 0 /\ pc = "poll"
        /\ pc \in {"poll", "wait"}
    BY <1>6 DEF PollReaps, WaitReaps
  <2>4. i > 0
    BY <2>2
  <2>5. i' = i - 1
    BY <2>3, <2>4, Counting
  <2>6. sigchld # "ignore"
    <3>1. p \in Zombies
      BY <2>1 DEF WaitReturns, Zombies
    <3> QED
      BY <3>1
  <2> QED
    BY <2>2, <2>3, <2>4, <2>5, <2>6
<1>7. CASE WaitFails
  <2>1. /\ UNCHANGED <<kid, sigchld, method, failedForks>>
        /\ pc = "wait" /\ pc' = "test"
        /\ i' = Dec8(i) /\ minusOnes' = minusOnes + 1 /\ Unreaped = {}
    BY <1>7 DEF WaitFails, NoChild
  <2>2. i > 0 /\ i' = i - 1 /\ method = "blocking"
    BY <2>1, Counting
  <2>3. Unreaped' = Unreaped /\ Zombies' = Zombies /\ Cardinality(Unreaped) = 0
    BY <2>1, FS_EmptySet DEF Unreaped, Zombies
  <2> QED
    BY <2>1, <2>2, <2>3
<1>8. ASSUME NEW p \in Pid, KidExits(p)
      PROVE  Bounded' /\ Turns' /\ Ends' /\ Accounts'
  <2>1. /\ UNCHANGED <<sigchld, method, pc, i, failedForks, minusOnes>>
        /\ ChildExits(p)
    BY <1>8 DEF KidExits
  <2>2. /\ Unreaped' \subseteq Unreaped
        /\ Cardinality(Unreaped') <= Cardinality(Unreaped)
        /\ sigchld # "ignore" => Unreaped' = Unreaped
    BY <2>1, ChildExitsOne
  <2>3. sigchld = "ignore" /\ Zombies = {} => Zombies' = {}
    BY <2>1 DEF ChildExits, Zombies
  <2> QED
    BY <2>1, <2>2, <2>3
<1> QED
  BY <1>1, <1>2, <1>3, <1>4, <1>5, <1>6, <1>7, <1>8
     DEF WaitingNext, WaitingMain, Terminated

THEOREM WaitingInductive == WaitingSpec => []WaitingIInv
BY WaitingInitIInv, WaitingNextIInv, PTL DEF WaitingSpec

\* Type correctness of the table, the counter and what has been printed.
THEOREM WaitingTypeCorrect == WaitingSpec => []WaitingTypeOK
<1>1. WaitingIInv => WaitingTypeOK
  BY DEF WaitingIInv
<1> QED
  BY <1>1, WaitingInductive, PTL

\* Polling gives up and blocking prints -1 only after a failed fork or with
\* SIGCHLD ignored.
THEOREM ErrorsExplained == WaitingSpec => []ErrorOnlyIfMiscounted
<1>1. WaitingIInv => ErrorOnlyIfMiscounted
  <2> SUFFICES ASSUME WaitingIInv, sigchld # "ignore", ~(failedForks > 0)
               PROVE  pc # "error" /\ ~(minusOnes > 0)
    BY DEF ErrorOnlyIfMiscounted
  <2>1. /\ i \in Nat /\ minusOnes \in Nat /\ failedForks = 0
        /\ Cardinality(Unreaped) \in Nat
    BY UnreapedFinite DEF WaitingIInv, WaitingTypeOK
  <2>2. i + minusOnes = Cardinality(Unreaped) /\ Cardinality(Unreaped) <= i
    BY <2>1 DEF WaitingIInv, Accounts, Bounded
  <2>3. minusOnes = 0 /\ i = Cardinality(Unreaped)
    BY <2>1, <2>2
  <2> QED
    BY <2>1, <2>3, UnreapedFinite DEF WaitingIInv, Turns, Ends
<1> QED
  BY <1>1, WaitingInductive, PTL

\* Every missing child is accounted for: as a -1 of blocking, or as what is
\* left when polling gives up.
THEOREM MissingAccounted == WaitingSpec => []MissingShown
<1>1. WaitingIInv => MissingShown
  <2> SUFFICES ASSUME WaitingIInv
               PROVE  MissingShown
    OBVIOUS
  <2>1. /\ i \in 0 .. 255 /\ minusOnes \in Nat /\ failedForks \in Nat
        /\ Cardinality(Unreaped) \in Nat /\ Cardinality(Unreaped) <= i
        /\ Turns /\ Ends /\ Accounts
    BY UnreapedFinite DEF WaitingIInv, WaitingTypeOK, Bounded
  <2>2. CASE pc = "finished"
    <3>1. i = 0 /\ Cardinality(Unreaped) = 0
      BY <2>1, <2>2 DEF Ends
    <3> QED
      BY <2>1, <2>2, <3>1, NumKidsAssumption DEF MissingShown, Missing, Accounts
  <2>3. CASE pc = "error"
    <3>1. Cardinality(Unreaped) = 0 /\ minusOnes = 0
      BY <2>1, <2>3, UnreapedFinite DEF Ends, Turns
    <3> QED
      BY <2>1, <2>3, <3>1, NumKidsAssumption DEF MissingShown, Missing, Accounts
  <2> QED
    BY <2>2, <2>3 DEF MissingShown
<1> QED
  BY <1>1, WaitingInductive, PTL

-----------------------------------------------------------------------------
LEMMA WaitingInitPromise == WaitingInit => WaitingPromise!Init
BY DEF WaitingInit, WaitingPromise!Init, Returned

LEMMA WaitingNextPromise ==
  WaitingIInv /\ [WaitingNext]_waitingVars => [WaitingPromise!Next]_WaitingPromise!vars
<1> SUFFICES ASSUME WaitingIInv, [WaitingNext]_waitingVars
             PROVE  [WaitingPromise!Next]_WaitingPromise!vars
  OBVIOUS
<1> USE DEF WaitingPromise!vars, Returned
<1>1. CASE ForkCounted
  <2>1. pc = "loop" /\ pc' = "loop"
    BY <1>1 DEF ForkCounted
  <2>2. CASE ForkFails
    BY <2>1, <2>2 DEF ForkFails
  <2>3. ASSUME NEW p \in Pid, ForkGives(p)
        PROVE  WaitingPromise!Next
    <3>1. WaitingPromise!Start(p)
      BY <2>1, <2>3 DEF ForkGives, WaitingPromise!Start
    <3> QED
      BY <3>1 DEF WaitingPromise!Next
  <2> QED
    BY <1>1, <2>2, <2>3 DEF ForkCounted
<1>2. CASE ForksDone \/ PollFindsNone \/ WaitFails \/ UNCHANGED waitingVars
  BY <1>2 DEF ForksDone, PollFindsNone, WaitFails, waitingVars
<1>3. CASE TestTurn
  <2>1. UNCHANGED kid /\ pc = "test"
    BY <1>3 DEF TestTurn
  <2>2. CASE i > 0
    BY <1>3, <2>1, <2>2, TestGoes DEF WaitingIInv
  <2>3. CASE i = 0
    <3>1. pc' = "finished"
      BY <1>3, <2>3, TestGoes DEF WaitingIInv
    <3>2. Unreaped = {}
      BY <2>3, UnreapedFinite DEF WaitingIInv, Bounded
    <3>3. WaitingPromise!Finish
      BY <2>1, <3>1, <3>2 DEF WaitingPromise!Finish, Unreaped
    <3> QED
      BY <3>3 DEF WaitingPromise!Next
  <2> QED
    BY <2>2, <2>3 DEF WaitingIInv, WaitingTypeOK
<1>4. CASE PollFails
  <2>1. WaitingPromise!Finish
    BY <1>4 DEF PollFails, NoChild, WaitingPromise!Finish, Unreaped
  <2> QED
    BY <2>1 DEF WaitingPromise!Next
<1>5. CASE PollReaps \/ WaitReaps
  <2>1. PICK p \in Pid : WaitReturns(p)
    BY <1>5 DEF PollReaps, WaitReaps
  <2>2. pc \in {"poll", "wait"} /\ pc' \in {"test", "poll"}
    BY <1>5 DEF PollReaps, WaitReaps
  <2>3. WaitingPromise!Collect(p)
    BY <2>1, <2>2 DEF WaitReturns, WaitingPromise!Collect
  <2> QED
    BY <2>3 DEF WaitingPromise!Next
<1>6. ASSUME NEW p \in Pid, KidExits(p)
      PROVE  WaitingPromise!Next
  <2>1. WaitingPromise!End(p)
    BY <1>6 DEF KidExits, ChildExits, WaitingPromise!End
  <2> QED
    BY <2>1 DEF WaitingPromise!Next
<1> QED
  BY <1>1, <1>2, <1>3, <1>4, <1>5, <1>6 DEF WaitingNext, WaitingMain, Terminated

\* Both functions refine the promise: they return only when no child is left.
THEOREM WaitingRefinement == WaitingSpec => WaitingImplements
<1>1. WaitingInit /\ [][WaitingNext]_waitingVars /\ []WaitingIInv =>
        WaitingPromise!Init /\ [][WaitingPromise!Next]_WaitingPromise!vars
  BY WaitingInitPromise, WaitingNextPromise, PTL
<1> QED
  BY <1>1, WaitingInductive, PTL DEF WaitingSpec, WaitingImplements, WaitingPromise!Spec
=============================================================================
