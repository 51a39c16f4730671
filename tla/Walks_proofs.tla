---------------------------- MODULE Walks_proofs ----------------------------
(***************************************************************************)
(* Two programs that walk over a directory while others change it.         *)
(*                                                                         *)
(* 12-chap, module ProcScan: a listing of /proc that comes to its end is   *)
(* complete with respect to the processes that live throughout, and it     *)
(* lists nothing else than processes of the user, for every set of pids,   *)
(* users and interleavings.                                                *)
(*                                                                         *)
(* 18-chap, module TreeUpdate: however often the program is started,       *)
(* killed and started again, it marks no file twice, destroys nothing, and *)
(* has marked all files when no callback has failed.                       *)
(*                                                                         *)
(* The two modules have no name in common and neither program knows of the *)
(* other; each theorem speaks of one of them.                              *)
(***************************************************************************)
EXTENDS ProcScan, TreeUpdate, SequenceTheorems, TLAPS

-----------------------------------------------------------------------------
(* 12-chap *)

Walking == pc \in {"readdir", "open", "parse"}

\* The inductive invariant: what the histories have to do with the processes
\* of the moment, and which file can be open.
Histories ==
  /\ pc = "start" => listed = {} /\ pos = 0
  /\ Walking => stayed \subseteq UsersPids /\ UsersPids \subseteq seen
  /\ listed \subseteq seen
  /\ pc \in {"open", "parse"} => pos \in Pid
  /\ pc = "parse" /\ pos \in stayed => open

\* While the walk is on, the steady processes up to the current entry have
\* been listed already; the one of the current entry is in work.
ListedSoFar ==
  pc \in {"readdir", "open", "parse"} =>
    \A p \in stayed :
      p < pos \/ (p = pos /\ pc = "readdir") => p \in listed

IInv == TypeOK /\ Histories /\ ListedSoFar /\ CompleteToItsEnd

LEMMA InitIInv == Init => IInv
<1> SUFFICES ASSUME Init
             PROVE  IInv
  OBVIOUS
<1>1. TypeOK
  BY DEF Init, TypeOK
<1>2. Histories /\ ListedSoFar /\ CompleteToItsEnd
  BY DEF Init, Histories, Walking, ListedSoFar, CompleteToItsEnd
<1> QED
  BY <1>1, <1>2 DEF IInv

LEMMA NextTypeOK == IInv /\ [Next]_vars => TypeOK'
<1> SUFFICES ASSUME IInv, [Next]_vars
             PROVE  TypeOK'
  OBVIOUS
<1> USE DEF IInv, TypeOK
<1>1. CASE Start
  BY <1>1 DEF Start, UsersPids
<1>2. CASE ReadDir
  BY <1>2 DEF ReadDir, Later
<1>3. CASE EndOfDir \/ Open \/ OpenFails \/ Terminated \/ UNCHANGED vars
  BY <1>3 DEF EndOfDir, Open, OpenFails, Terminated, vars
<1>4. CASE Parse
  <2>1. pos \in Pid
    BY <1>4 DEF Parse, Histories
  <2> QED
    BY <1>4, <2>1 DEF Parse
<1>5. CASE ParseNothing
  <2>1. pos \in Pid
    BY <1>5 DEF ParseNothing, Histories
  <2> QED
    BY <1>5, <2>1 DEF ParseNothing
<1>6. ASSUME NEW p \in Pid, Exit(p)
      PROVE  TypeOK'
  <2>1. open' \in BOOLEAN
    BY <1>6 DEF Exit
  <2> QED
    BY <1>6, <2>1 DEF Exit
<1>7. ASSUME NEW p \in Pid, NEW u \in Uids, Spawn(p, u)
      PROVE  TypeOK'
  BY <1>7 DEF Spawn
<1> QED
  BY <1>1, <1>2, <1>3, <1>4, <1>5, <1>6, <1>7 DEF Next, Main

LEMMA NextIInv == IInv /\ [Next]_vars => IInv'
<1> SUFFICES ASSUME IInv, [Next]_vars
             PROVE  (Histories /\ ListedSoFar /\ CompleteToItsEnd)'
  BY NextTypeOK DEF IInv
<1>0. TypeOK'
  BY NextTypeOK
<1> USE PidAssumption, UserAssumption, <1>0
    DEF IInv, TypeOK, Histories, Walking, ListedSoFar, CompleteToItsEnd, UsersPids
<1>1. CASE Start
  BY <1>1 DEF Start
<1>2. CASE ReadDir
  <2>1. PICK p \in Later : /\ \A q \in Later : p <= q
                           /\ pos' = p
    BY <1>2 DEF ReadDir
  <2>2. \A q \in stayed : q < p => q \in listed
    <3>1. SUFFICES ASSUME NEW q \in stayed, q < p
                   PROVE  q \in listed
      OBVIOUS
    <3>2. pc = "readdir" /\ q \in Pid /\ procs[q] # NoProc
      BY <1>2 DEF ReadDir, NoProc
    <3>3. q \notin Later
      BY <2>1, <3>1, <3>2 DEF Later
    <3>4. q <= pos
      BY <3>2, <3>3 DEF Later
    <3> QED
      BY <3>2, <3>4
  <2>3. p \in Pid
    BY DEF Later
  <2> QED
    BY <1>2, <2>1, <2>2, <2>3 DEF ReadDir
<1>3. CASE EndOfDir
  <2>1. SUFFICES ASSUME NEW q \in stayed
                 PROVE  q \in listed
    BY <1>3 DEF EndOfDir
  <2>2. pc = "readdir" /\ q \in Pid /\ procs[q] # NoProc /\ q \notin Later
    BY <1>3 DEF EndOfDir, NoProc
  <2>3. q <= pos
    BY <2>2 DEF Later
  <2> QED
    BY <2>2, <2>3
<1>4. CASE Open
  BY <1>4 DEF Open
<1>5. CASE OpenFails
  <2>1. pos \notin stayed
    BY <1>5 DEF OpenFails, NoProc
  <2>2. \A q \in stayed : q <= pos => q \in listed
    BY <1>5, <2>1 DEF OpenFails
  <2> QED
    BY <1>5, <2>2 DEF OpenFails
<1>10. CASE Terminated \/ UNCHANGED vars
  BY <1>10 DEF Terminated, Ended, vars
<1>6. CASE Parse
  BY <1>6 DEF Parse
<1>7. CASE ParseNothing
  BY <1>7 DEF ParseNothing
<1>8. ASSUME NEW p \in Pid, Exit(p)
      PROVE  (Histories /\ ListedSoFar /\ CompleteToItsEnd)'
  BY <1>8 DEF Exit, Ended, NoProc
<1>9. ASSUME NEW p \in Pid, NEW u \in Uids, Spawn(p, u)
      PROVE  (Histories /\ ListedSoFar /\ CompleteToItsEnd)'
  BY <1>9 DEF Spawn, Ended, NoProc
<1> QED
  BY <1>1, <1>2, <1>3, <1>4, <1>5, <1>6, <1>7, <1>8, <1>9, <1>10
  DEF Next, Main

THEOREM Inductive == Spec => []IInv
BY InitIInv, NextIInv, PTL DEF Spec

\* Type correctness.
THEOREM TypeCorrect == Spec => []TypeOK
<1>1. IInv => TypeOK
  BY DEF IInv
<1> QED
  BY <1>1, Inductive, PTL

\* A listing has every process of the user that has lived all the time, as far
\* as it got.
THEOREM Complete == Spec => []CompleteToItsEnd
<1>1. IInv => CompleteToItsEnd
  BY DEF IInv
<1> QED
  BY <1>1, Inductive, PTL

-----------------------------------------------------------------------------
\* Unless the user's number is the one that proc_uid starts with, nothing is
\* printed for a process that has ended under the parser.
LEMMA NextNamed ==
  ASSUME User # DefaultUid
  PROVE  unnamed = {} /\ [Next]_vars => unnamed' = {}
<1> SUFFICES ASSUME unnamed = {}, [Next]_vars
             PROVE  unnamed' = {}
  OBVIOUS
<1> QED
  BY DEF Next, Main, Start, ReadDir, EndOfDir, Open, OpenFails, Parse,
         ParseNothing, Exit, Spawn, Terminated, vars

\* Only processes that the user has run during the walk are listed.
THEOREM Sound ==
  ASSUME User # DefaultUid
  PROVE  Spec => []OnlyUsers
<1>1. Init => unnamed = {}
  BY DEF Init
<1>2. unnamed = {} /\ [Next]_vars => (unnamed = {})'
  BY NextNamed
<1>3. IInv /\ unnamed = {} => OnlyUsers
  BY DEF IInv, Histories, OnlyUsers
<1> QED
  BY <1>1, <1>2, <1>3, Inductive, PTL DEF Spec

-----------------------------------------------------------------------------
(* 18-chap *)

\* What a file may hold: before the walk, behind its mark, and at any time.
Plain == {Absent, <<>>, <<"text">>}
Final == {Absent, <<"text", "updated">>, <<"updated">>}
Texts == Plain \cup Final

\* What fprintf() makes of the texts.
LEMMA TextsGrow ==
  /\ Append(<<>>, "text") = <<"text">>
  /\ Append(<<>>, "updated") = <<"updated">>
  /\ Append(<<"text">>, "updated") = <<"text", "updated">>
<1> DEFINE S == {"text", "updated"}
           s == Append(<<"text">>, "updated")
           t == <<"text", "updated">>
<1>1. Append(<<>>, "text") = <<"text">>
  OBVIOUS
<1>2. Append(<<>>, "updated") = <<"updated">>
  OBVIOUS
<1>3. s = t
  <2>1. s \in Seq(S) /\ t \in Seq(S)
    OBVIOUS
  <2>2. Len(s) = 2 /\ Len(t) = 2
    OBVIOUS
  <2>3. \A k \in 1 .. Len(s) : s[k] = t[k]
    BY <2>2
  <2> HIDE DEF s, t
  <2> QED
    BY <2>1, <2>2, <2>3, SeqEqual
<1> QED
  BY <1>1, <1>2, <1>3

\* All of them are sequences of words.
LEMMA TextsAreSeqs == \A s \in Texts : s \in Seq({"text", "updated", "absent"})
<1> DEFINE S == {"text", "updated", "absent"}
<1>1. <<>> \in Seq(S) /\ <<"absent">> \in Seq(S)
  OBVIOUS
<1>2. <<"text">> \in Seq(S) /\ <<"updated">> \in Seq(S) /\ <<"text", "updated">> \in Seq(S)
  OBVIOUS
<1> QED
  BY <1>1, <1>2 DEF Texts, Plain, Final, Absent

\* A text that stays or grows is kept.
LEMMA TextsKept ==
  \A s \in Texts, x \in {"text", "updated"} : Keeps(s, s) /\ Keeps(s, Append(s, x))
<1> SUFFICES ASSUME NEW s \in Texts, NEW x \in {"text", "updated"}
             PROVE  Keeps(s, s) /\ Keeps(s, Append(s, x))
  OBVIOUS
<1> DEFINE S == {"text", "updated", "absent"}
<1>1. s \in Seq(S) /\ x \in S
  BY TextsAreSeqs
<1>2. SubSeq(s, 1, Len(s)) = s
  BY <1>1
<1>3. Append(s, x) \in Seq(S) /\ Len(Append(s, x)) = Len(s) + 1
      /\ \A k \in 1 .. Len(s) : Append(s, x)[k] = s[k]
  BY <1>1
<1>4. SubSeq(Append(s, x), 1, Len(s)) = s
  BY <1>1, <1>3
<1> QED
  BY <1>1, <1>2, <1>3, <1>4 DEF Keeps

\* A file that is not there has no text.
LEMMA TextsDiffer == Absent \notin {<<>>, <<"text">>, <<"text", "updated">>, <<"updated">>}
BY DEF Absent

\* What has its mark, or has gone, counts as updated.
LEMMA FinalIsUpdated ==
  \A f \in File : data[f] \in Final => Updated(f)
<1> SUFFICES ASSUME NEW f \in File, data[f] \in Final, data[f] # Absent
             PROVE  "updated" \in {data[f][k] : k \in 1 .. Len(data[f])}
  BY DEF Updated
<1>1. CASE data[f] = <<"text", "updated">>
  BY <1>1
<1>2. CASE data[f] = <<"updated">>
  BY <1>2
<1> QED
  BY <1>1, <1>2 DEF Final
-----------------------------------------------------------------------------
\* The files hold nothing but such texts.
TreeType ==
  /\ data \in [File -> Texts]
  /\ file \in File
  /\ todo \subseteq File
  /\ stopped \in BOOLEAN
  /\ lost \subseteq File
  /\ dirs \subseteq {"dir", "sub_dir"}

\* Directories are made from above: while there is no dir/sub_dir there is no
\* file, so a run that gets both of them to make meets no file of an earlier run.
Building ==
  /\ "dir" \notin dirs => "sub_dir" \notin dirs
  /\ "sub_dir" \notin dirs => \A f \in File : data[f] = Absent
  /\ place = "mkdir2" => "dir" \in dirs
  /\ place \in {"create", "write", "walk", "callback", "append"} => {"dir", "sub_dir"} \subseteq dirs

\* The files that are made before f.
Before(f) == {g \in File : g # f /\ (g = "file1" \/ f = "file3")}

\* While the files are made, those from the present one on are not there.
Creating ==
  place \in {"create", "write"} =>
    \A f \in File :
      IF f \in Before(file) THEN data[f] \in Plain
      ELSE IF f = file /\ place = "write" THEN data[f] \in {Absent, <<>>}
      ELSE data[f] = Absent

\* What the walk has still to meet has no mark, and the file in the callback
\* has been met and has none yet.
Marking ==
  /\ place = "walk" => \A f \in todo : data[f] \in Plain
  /\ place \in {"callback", "append"} =>
       /\ file \notin todo
       /\ \A f \in todo : data[f] \in Plain
  /\ place = "callback" => data[file] \in Plain
  /\ place = "append" => data[file] \in Plain

\* Unless a callback has returned an error, what the walk has met is marked, or
\* has gone, or has lost its mark.
Marked ==
  ~stopped =>
    /\ place = "walk" => \A f \in File \ (lost \cup todo) : data[f] \in Final
    /\ place \in {"callback", "append"} =>
         \A f \in File \ (lost \cup todo \cup {file}) : data[f] \in Final
    /\ Behind => \A f \in File \ lost : data[f] \in Final

TInv == TreeType /\ Building /\ Creating /\ Marking /\ Marked

LEMMA InitTInv == TreeInit => TInv
<1> SUFFICES ASSUME TreeInit
             PROVE  TInv
  OBVIOUS
<1>1. TreeType
  BY DEF TreeInit, TreeType, Texts, Plain, Final, File
<1>2. Building /\ Creating /\ Marking /\ Marked
  BY DEF TreeInit, Building, Creating, Marking, Marked, Behind
<1> QED
  BY <1>1, <1>2 DEF TInv

LEMMA NextTInv == TInv /\ [TreeNext]_treeVars => TInv'
<1> SUFFICES ASSUME TInv, [TreeNext]_treeVars
             PROVE  TInv'
  OBVIOUS
<1> USE TextsDiffer
    DEF TInv, TreeType, Building, Creating, Marking, Marked, Before, Plain, Final, Texts,
        NextFile, File, Behind
<1>1. CASE StartAgain
  BY <1>1 DEF StartAgain
<1>2. CASE Clean
  BY <1>2 DEF Clean, NotRunning
<1>3. CASE MakeDir
  BY <1>3 DEF MakeDir, Mkdir
<1>4. CASE MakeSubDir
  BY <1>4 DEF MakeSubDir, Mkdir
<1>5. CASE Create
  BY <1>5 DEF Create
<1>6. CASE Write
  <2>1. /\ place = "write" /\ file \in File
        /\ data[file] \in {Absent, <<>>}
        /\ UNCHANGED <<runs, dirs, cwd, root, stopped, lost>>
    BY <1>6 DEF Write
  <2>2. /\ data' \in [File -> Plain]
        /\ \A f \in File : f # file => data'[f] = data[f]
    <3>1. data' = data \/ data' = [data EXCEPT ![file] = IF @ = Absent THEN Absent ELSE <<"text">>]
      BY <1>6, <2>1, TextsGrow DEF Write, Closes, CloseFails
    <3>2. \A f \in File : data[f] \in Plain
      BY <2>1
    <3> QED
      BY <2>1, <3>1, <3>2
  <2>3. CASE file = "file3"
    <3>1. place' = "walk" /\ todo' = File /\ file' = file
      BY <1>6, <2>3 DEF Write
    <3> QED
      BY <2>1, <2>2, <3>1
  <2>4. CASE file # "file3"
    <3>1. place' = "create" /\ file' = NextFile[file] /\ todo' = todo
      BY <1>6, <2>4 DEF Write
    <3> QED
      BY <2>1, <2>2, <2>4, <3>1
  <2> QED
    BY <2>3, <2>4
<1>7. ASSUME NEW f \in File, Visit(f)
      PROVE  TInv'
  BY <1>7 DEF Visit
<1>8. CASE OpenAppend
  <2>1. /\ place = "callback" /\ file \in File /\ file \notin todo /\ data[file] \in Plain
        /\ \A f \in todo : data[f] \in Plain
        /\ UNCHANGED <<runs, dirs, file, cwd, root, lost>>
    BY <1>8 DEF OpenAppend
  <2>2. CASE /\ data' = [data EXCEPT ![file] = IF @ = Absent THEN <<>> ELSE @]
             /\ place' = "append" /\ UNCHANGED <<todo, stopped>>
    <3>1. /\ data' \in [File -> Texts] /\ data'[file] \in Plain
          /\ \A f \in File : f # file => data'[f] = data[f]
      BY <2>1, <2>2
    <3> QED
      BY <2>1, <2>2, <3>1
  <2>3. CASE /\ place' = "links" /\ todo' = {} /\ stopped' = TRUE /\ UNCHANGED data
    BY <2>1, <2>3
  <2> QED
    BY <1>8, <2>2, <2>3 DEF OpenAppend
<1>9. CASE Update
  <2>1. /\ place = "append" /\ place' = "walk" /\ file \in File /\ file \notin todo
        /\ data[file] \in Plain
        /\ UNCHANGED <<runs, dirs, todo, file, cwd, root, stopped>>
    BY <1>9 DEF Update
  <2>2. \/ /\ data' = [data EXCEPT ![file] = IF @ = Absent THEN Absent ELSE Append(@, "updated")]
           /\ lost' = lost
        \/ data' = data /\ lost' = lost \cup {file}
    BY <1>9 DEF Update, Closes, CloseFails
  <2>3. /\ data' \in [File -> Texts]
        /\ \A f \in File : f # file => data'[f] = data[f]
        /\ data'[file] \in Final \/ file \in lost'
        /\ lost \subseteq lost' /\ lost' \subseteq File
    <3>1. CASE data' = data /\ lost' = lost \cup {file}
      BY <2>1, <3>1
    <3>2. CASE /\ data' = [data EXCEPT ![file] = IF @ = Absent THEN Absent ELSE Append(@, "updated")]
               /\ lost' = lost
      <4>1. (IF data[file] = Absent THEN Absent ELSE Append(data[file], "updated")) \in Final
        BY <2>1, TextsGrow
      <4> QED
        BY <2>1, <3>2, <4>1
    <3> QED
      BY <2>2, <3>1, <3>2
  <2> QED
    BY <2>1, <2>3
<1>10. CASE \/ WalkEnds \/ WalkFails \/ PrintNames
            \/ ChangeDir \/ ChangeRoot \/ Kill
  BY <1>10 DEF WalkEnds, WalkFails, PrintNames, ChangeDir,
               ChangeRoot, Kill, LaterFails
<1>11. ASSUME NEW f \in File, Unlink(f)
       PROVE  TInv'
  BY <1>11 DEF Unlink
<1>12. CASE AllRunsOver \/ UNCHANGED treeVars
  BY <1>12 DEF AllRunsOver, treeVars
<1> QED
  BY <1>1, <1>2, <1>3, <1>4, <1>5, <1>6, <1>7, <1>8, <1>9, <1>10, <1>11, <1>12
  DEF TreeNext, TreeMain

\* The parts together are inductive.
THEOREM TreeInductive == TreeSpec => []TInv
BY InitTInv, NextTInv, PTL DEF TreeSpec

\* The rest of the type invariant: the places, the count of the runs and the
\* directories of the process.
LEMMA NextTreeTypeOK ==
  ASSUME TInv, TInv', TreeTypeOK, [TreeNext]_treeVars
  PROVE  TreeTypeOK'
<1>1. data' \in [File -> Seq({"text", "updated", "absent"})]
  <2>1. \A f \in File : data'[f] \in Seq({"text", "updated", "absent"})
    BY TextsAreSeqs DEF TInv, TreeType
  <2> QED
    BY <2>1 DEF TInv, TreeType
<1>2. /\ runs' \in 0 .. MaxRuns
      /\ place' \in {"idle", "mkdir1", "mkdir2", "create", "write", "walk", "callback",
                 "append", "links", "chdir", "chroot", "done", "failed", "killed"}
      /\ cwd' \in {"main", "dir"} /\ root' \in {"/", "/etc"}
  BY MaxRunsAssumption DEF TreeTypeOK, TreeNext, TreeMain, StartAgain, Clean,
         MakeDir, MakeSubDir, Mkdir, Create, Write, Visit,
         OpenAppend, Update, WalkEnds, WalkFails, PrintNames,
         ChangeDir, ChangeRoot, LaterFails, Kill, Unlink,
         AllRunsOver, treeVars
<1> QED
  BY <1>1, <1>2 DEF TInv, TreeType, TreeTypeOK

\* Type correctness of the second program.
THEOREM TreeTypeCorrect == TreeSpec => []TreeTypeOK
<1>1. TreeInit => TreeTypeOK
  <2> SUFFICES ASSUME TreeInit
               PROVE  TreeTypeOK
    OBVIOUS
  <2>1. 0 \in 0 .. MaxRuns /\ Absent \in Seq({"text", "updated", "absent"})
    BY MaxRunsAssumption, TextsAreSeqs DEF Texts, Plain
  <2>2. data \in [File -> Seq({"text", "updated", "absent"})]
    BY <2>1 DEF TreeInit
  <2> QED
    BY <2>1, <2>2 DEF TreeInit, TreeTypeOK, File
<1>2. TInv /\ TInv' /\ TreeTypeOK /\ [TreeNext]_treeVars => TreeTypeOK'
  BY NextTreeTypeOK
<1> QED
  BY <1>1, <1>2, TreeInductive, PTL DEF TreeSpec

\* A file has its mark at most once, and last.
THEOREM TreeMarkedOnce == TreeSpec => []MarkedOnce
<1>1. TInv => MarkedOnce
  BY DEF TInv, TreeType, Texts, Plain, Final, MarkedOnce
<1> QED
  BY <1>1, TreeInductive, PTL

\* Behind a walk in which no callback has returned an error all files are marked,
\* but those whose mark was lost unseen.
THEOREM TreeUpdatedUnlessLost == TreeSpec => []UpdatedUnlessLost
<1>1. TInv => UpdatedUnlessLost
  BY FinalIsUpdated DEF TInv, Marked, Behind, UpdatedUnlessLost
<1> QED
  BY <1>1, TreeInductive, PTL

\* A step keeps what a file holds, or removes the file.
LEMMA StepKeeps ==
  TInv /\ [TreeNext]_treeVars =>
    [\A f \in File : data[f] = Absent \/ Keeps(data[f], data'[f])]_treeVars
<1> SUFFICES ASSUME TInv, TreeNext, NEW f \in File, data[f] # Absent
             PROVE  Keeps(data[f], data'[f])
  OBVIOUS
<1>1. data[f] \in Texts /\ data \in [File -> Texts]
  BY DEF TInv, TreeType
<1>2. CASE Write \/ Update
  <2>1. file \in File
    BY DEF TInv, TreeType
  <2>2. data'[f] \in {data[f], Append(data[f], "text"), Append(data[f], "updated")}
    BY <1>1, <1>2, <2>1 DEF Write, Update, Closes, CloseFails
  <2> QED
    BY <1>1, <2>2, TextsKept
<1>3. CASE Create
  <2>1. f # file
    BY <1>3 DEF TInv, Creating, Before, Create, NextFile, File
  <2>2. data'[f] = data[f]
    BY <1>1, <1>3, <2>1 DEF Create
  <2> QED
    BY <1>1, <2>2, TextsKept
<1>4. CASE OpenAppend
  <2>1. data'[f] = data[f]
    BY <1>1, <1>4 DEF OpenAppend
  <2> QED
    BY <1>1, <2>1, TextsKept
<1>5. CASE Clean \/ (\E g \in File : Unlink(g))
  <2>1. data'[f] = Absent \/ data'[f] = data[f]
    BY <1>1, <1>5 DEF Clean, Unlink
  <2> QED
    BY <1>1, <2>1, TextsKept DEF Keeps
<1>6. CASE \/ StartAgain \/ Kill \/ AllRunsOver
           \/ MakeDir \/ MakeSubDir \/ (\E g \in File : Visit(g))
           \/ WalkEnds \/ WalkFails
           \/ PrintNames \/ ChangeDir \/ ChangeRoot
  <2>1. UNCHANGED data
    BY <1>6 DEF StartAgain, Kill, AllRunsOver, treeVars, MakeDir, MakeSubDir,
                Mkdir, Visit, WalkEnds, WalkFails, PrintNames,
                ChangeDir, ChangeRoot, LaterFails
  <2> QED
    BY <1>1, <2>1, TextsKept
<1> QED
  BY <1>2, <1>3, <1>4, <1>5, <1>6 DEF TreeNext, TreeMain

\* No run destroys what an earlier one has left.
THEOREM TreeNothingDestroyed == TreeSpec => NothingDestroyed
BY TreeInductive, StepKeeps, PTL DEF TreeSpec, NothingDestroyed
=============================================================================
