------------------------- MODULE ForkStdio_proofs ---------------------------
(***************************************************************************)
(* What the programs of 25-chap and 27-chap write, whichever calls fail:   *)
(* the texts of 25-chap in one piece from each process that leaves through *)
(* exit(), and the lines of 27-chap once each and in their order.          *)
(*                                                                         *)
(* The invariant follows each text from the place in the program where it  *)
(* is printed, through the buffer, to the file.                            *)
(***************************************************************************)
EXTENDS ForkStdio, FiniteSetTheorems, TLAPS

(* sequences *)

LEMMA NothingInEmpty == Range(<<>>) = {} /\ IsInjective(<<>>)
<1>1. DOMAIN <<>> = {}
  OBVIOUS
<1>2. Range(<<>>) = {}
  BY <1>1 DEF Range
<1>3. IsInjective(<<>>)
  BY <1>1 DEF IsInjective
<1> QED
  BY <1>2, <1>3

LEMMA AppendSeq ==
  ASSUME NEW S, NEW s \in Seq(S), NEW e \in S
  PROVE  /\ Append(s, e) \in Seq(S)
         /\ Range(Append(s, e)) = Range(s) \cup {e}
         /\ IsInjective(s) /\ e \notin Range(s) => IsInjective(Append(s, e))
<1>1. /\ DOMAIN Append(s, e) = 1 .. Len(s) + 1 /\ DOMAIN s = 1 .. Len(s) /\ Len(s) \in Nat
      /\ \A i \in 1 .. Len(s) : Append(s, e)[i] = s[i]
      /\ Append(s, e)[Len(s) + 1] = e
  OBVIOUS
<1>2. Range(Append(s, e)) \subseteq Range(s) \cup {e}
  BY <1>1 DEF Range
<1>3. Range(s) \subseteq Range(Append(s, e)) /\ e \in Range(Append(s, e))
  BY <1>1 DEF Range
<1>4. ASSUME IsInjective(s), e \notin Range(s)
      PROVE  IsInjective(Append(s, e))
  BY <1>1, <1>4 DEF IsInjective, Range
<1> QED
  BY <1>2, <1>3, <1>4

LEMMA OneSeq ==
  ASSUME NEW S, NEW e \in S
  PROVE  <<e>> \in Seq(S) /\ Range(<<e>>) = {e} /\ IsInjective(<<e>>)
<1>1. <<e>> \in Seq(S)
  OBVIOUS
<1>2. DOMAIN <<e>> = {1} /\ <<e>>[1] = e
  OBVIOUS
<1> QED
  BY <1>1, <1>2 DEF Range, IsInjective

LEMMA TwoSeq ==
  ASSUME NEW S, NEW d \in S, NEW e \in S, d # e
  PROVE  <<d, e>> \in Seq(S) /\ Range(<<d, e>>) = {d, e} /\ IsInjective(<<d, e>>)
<1>1. <<d, e>> \in Seq(S)
  OBVIOUS
<1>2. DOMAIN <<d, e>> = {1, 2} /\ <<d, e>>[1] = d /\ <<d, e>>[2] = e
  OBVIOUS
<1> QED
  BY <1>1, <1>2 DEF Range, IsInjective

LEMMA ConcatSeq ==
  ASSUME NEW S, NEW s \in Seq(S), NEW t \in Seq(S)
  PROVE  /\ s \o t \in Seq(S)
         /\ Range(s \o t) = Range(s) \cup Range(t)
         /\ IsInjective(s) /\ IsInjective(t) /\ Range(s) \cap Range(t) = {} =>
              IsInjective(s \o t)
<1>1. /\ s \o t \in Seq(S) /\ Len(s \o t) = Len(s) + Len(t)
      /\ Len(s) \in Nat /\ Len(t) \in Nat
      /\ DOMAIN (s \o t) = 1 .. Len(s) + Len(t) /\ DOMAIN s = 1 .. Len(s) /\ DOMAIN t = 1 .. Len(t)
      /\ \A i \in 1 .. Len(s) : (s \o t)[i] = s[i]
      /\ \A i \in 1 .. Len(t) : (s \o t)[Len(s) + i] = t[i]
      /\ \A i \in 1 .. Len(s) + Len(t) :
           i \in 1 .. Len(s) \/ (i - Len(s) \in 1 .. Len(t) /\ (s \o t)[i] = t[i - Len(s)])
  OBVIOUS
<1> DEFINE st == s \o t
<1> HIDE DEF st
<1>2. /\ DOMAIN st = 1 .. Len(s) + Len(t)
      /\ \A i \in 1 .. Len(s) : st[i] = s[i]
      /\ \A i \in 1 .. Len(t) : st[Len(s) + i] = t[i]
      /\ \A i \in 1 .. Len(s) + Len(t) :
           i \in 1 .. Len(s) \/ (i - Len(s) \in 1 .. Len(t) /\ st[i] = t[i - Len(s)])
  BY <1>1 DEF st
<1>3. Range(st) \subseteq Range(s) \cup Range(t)
  <2> SUFFICES ASSUME NEW i \in 1 .. Len(s) + Len(t)
               PROVE  st[i] \in Range(s) \cup Range(t)
    BY <1>2 DEF Range
  <2> QED
    BY <1>1, <1>2 DEF Range
<1>4. Range(s) \subseteq Range(st)
  BY <1>1, <1>2 DEF Range
<1>5. Range(t) \subseteq Range(st)
  <2>1. \A i \in 1 .. Len(t) : Len(s) + i \in 1 .. Len(s) + Len(t)
    BY <1>1
  <2> QED
    BY <1>1, <1>2, <2>1 DEF Range
<1>6. ASSUME IsInjective(s), IsInjective(t), Range(s) \cap Range(t) = {},
             NEW a \in DOMAIN st, NEW b \in DOMAIN st, st[a] = st[b]
      PROVE  a = b
  <2>1. \A i \in 1 .. Len(s) : \A j \in 1 .. Len(t) : s[i] # t[j]
    BY <1>1, <1>6 DEF Range
  <2>2. \A i, j \in 1 .. Len(s) : s[i] = s[j] => i = j
    BY <1>1, <1>6 DEF IsInjective
  <2>3. \A i, j \in 1 .. Len(t) : t[i] = t[j] => i = j
    BY <1>1, <1>6 DEF IsInjective
  <2>4. a \in Nat /\ b \in Nat
    BY <1>1, <1>2
  <2> QED
    BY <1>1, <1>2, <1>6, <2>1, <2>2, <2>3, <2>4
<1> QED
  BY <1>1, <1>3, <1>4, <1>5, <1>6 DEF st, IsInjective

-----------------------------------------------------------------------------
(* where the processes stand *)

\* 27-chap/exec and 27-chap/system.
Reaches == program \in {"exec", "system"}

Places ==
  /\ program = "exit" =>
       /\ pc["parent"] \in {"atexit1", "atexit2", "main", "fork", "print", "exit", "exited",
                            "killed"}
       /\ pc["child"] \in {"unborn", "print", "exit", "exited", "killed"}
  /\ Reaches =>
       /\ pc["parent"] \in {"start", "fork", "created", "wait", "waitpid", "complete",
                            "exit", "exited", "killed"}
       /\ pc["child"] \in {"unborn", "exec", "command", "exited", "killed"}
  /\ program = "exercise-3" =>
       /\ pc["parent"] \in {"exec", "command", "exit", "exited", "killed"}
       /\ pc["child"] = "unborn"
  /\ pc["parent"] \in {"atexit1", "atexit2", "main", "start", "fork"} => pc["child"] = "unborn"

Base == TypeOK /\ Places

LEMMA InitBase == Init => Base
<1> SUFFICES ASSUME Init
             PROVE  Base
  OBVIOUS
<1>1. program \in {"exit", "exec", "system", "exercise-3"}
  BY DEF Init, Entry
<1>2. /\ Entry["exit"] = "atexit1" /\ Entry["exercise-3"] = "exec"
      /\ Entry["exec"] = "start" /\ Entry["system"] = "start"
  BY DEF Entry
<1>3. pc["parent"] = Entry[program] /\ pc["child"] = "unborn"
  BY DEF Init, Proc
<1>4. Places
  BY <1>1, <1>2, <1>3 DEF Places, Reaches
<1>5. TypeOK
  BY <1>1, <1>2 DEF Init, TypeOK, Proc
<1> QED
  BY <1>4, <1>5 DEF Base

LEMMA Texts ==
  /\ Proc \subseteq Text /\ Handler \subseteq Text /\ Message \subseteq Text /\ Line \subseteq Text
  /\ AnswerLine \subseteq Line /\ ChildLine \subseteq Line
  /\ {"Application Start", "Error: fork()", "Child created", "Wait for child",
      "Application Finished"} \subseteq Line
  /\ Verdict \in AnswerLine
BY DEF Text, Line, Verdict, AnswerLine

LEMMA NextPlaces == Base /\ [Next]_vars => Places'
<1> SUFFICES ASSUME Base, [Next]_vars
             PROVE  Places'
  OBVIOUS
<1>a. /\ pc \in [Proc -> {"unborn", "atexit1", "atexit2", "main", "fork", "print",
                          "start", "created", "wait", "waitpid", "complete",
                          "exec", "command", "exit", "exited", "killed"}]
      /\ program \in {"exit", "exec", "system", "exercise-3"}
      /\ Places
  BY DEF Base, TypeOK
<1> USE <1>a DEF Places, Reaches, Goto, Proc, setting
<1>1. CASE Register1 \/ Register2 \/ PrintMain \/ PrintStart
  BY <1>1 DEF Register1, Register2, PrintMain, PrintStart
<1>2. CASE Fork
  BY <1>2 DEF Fork, AfterFork
<1>3. CASE ForkFails
  BY <1>3 DEF ForkFails
<1>4. CASE ExecFails \/ ExecScriptFails
  BY <1>4 DEF ExecFails, ExecScriptFails
<1>5. CASE PrintCreated \/ PrintWait \/ WaitPid \/ Complete
  BY <1>5 DEF PrintCreated, PrintWait, WaitPid, Complete
<1>6. ASSUME NEW p \in Proc, PrintSelf(p) \/ ExecSucceeds(p) \/ Command(p)
      PROVE  Places'
  BY <1>6 DEF PrintSelf, ExecSucceeds, Command
<1>7. ASSUME NEW p \in Proc, RunHandler(p) \/ Flush(p)
      PROVE  Places'
  BY <1>7 DEF RunHandler, Flush
<1>8. ASSUME NEW p \in Proc, Kill(p)
      PROVE  Places'
  BY <1>8 DEF Kill, Ended
<1>9. CASE Terminated \/ UNCHANGED vars
  BY <1>9 DEF Terminated, vars
<1> QED
  BY <1>1, <1>2, <1>3, <1>4, <1>5, <1>6, <1>7, <1>8, <1>9 DEF Next

LEMMA PrintsType ==
  ASSUME TypeOK, NEW p \in Proc, NEW text \in Text, Prints(p, text)
  PROVE  /\ buf' \in [Proc -> Seq(Text)] /\ buf'[p] = Append(buf[p], text)
         /\ \A q \in Proc : q # p => buf'[q] = buf[q]
BY DEF TypeOK, Prints

LEMMA PrintsLinesType ==
  ASSUME TypeOK, NEW p \in Proc, NEW lines \in Seq(Text), PrintsLines(p, lines)
  PROVE  /\ buf' \in [Proc -> Seq(Text)] /\ out' \in Seq(Text)
         /\ tty => out' = out \o lines /\ buf' = buf
         /\ ~tty => out' = out /\ buf'[p] = buf[p] \o lines
         /\ \A q \in Proc : q # p => buf'[q] = buf[q]
<1>1. buf \in [Proc -> Seq(Text)] /\ out \in Seq(Text) /\ buf[p] \in Seq(Text)
  BY DEF TypeOK
<1>2. out \o lines \in Seq(Text) /\ buf[p] \o lines \in Seq(Text)
  BY <1>1, ConcatSeq
<1> QED
  BY <1>1, <1>2 DEF PrintsLines

\* Everything that is printed at once is a sequence of lines.
LEMMA LinesType ==
  /\ \A x \in Line : <<x>> \in Seq(Text)
  /\ <<Verdict, "Application Finished">> \in Seq(Text)
<1>1. \A x \in Line : x \in Text
  BY Texts
<1>2. Verdict \in Text /\ "Application Finished" \in Text /\ Verdict # "Application Finished"
  BY Texts DEF AnswerLine
<1> QED
  BY <1>1, <1>2, OneSeq, TwoSeq

LEMMA NextTypeOK == Base /\ [Next]_vars => TypeOK'
<1> SUFFICES ASSUME TypeOK, Places, [Next]_vars
             PROVE  TypeOK'
  BY DEF Base
<1>a. /\ program \in {"exit", "exec", "system", "exercise-3"} /\ tty \in BOOLEAN
      /\ ignored \in BOOLEAN
      /\ pc \in [Proc -> {"unborn", "atexit1", "atexit2", "main", "fork", "print",
                          "start", "created", "wait", "waitpid", "complete",
                          "exec", "command", "exit", "exited", "killed"}]
      /\ buf \in [Proc -> Seq(Text)] /\ handlers \in [Proc -> Seq(Handler)]
      /\ left \in [Proc -> Nat] /\ \A p \in Proc : left[p] <= Len(handlers[p])
      /\ out \in Seq(Text)
      /\ status \in {"none", "0", "failed", "no_shell", "no_command", "killed"}
      /\ answer \in {"none", "-1", "0", "failed", "127", "killed"}
  BY DEF TypeOK
<1>b. "parent" \in Proc /\ "child" \in Proc /\ Proc = {"parent", "child"}
  BY DEF Proc
<1>c. out \in Seq(Text)
  BY <1>a
<1> USE DEF Goto, setting, family
<1>1. ASSUME NEW h \in Handler, NEW error \in Message, AtExit(h, error), UNCHANGED out
      PROVE  /\ buf' \in [Proc -> Seq(Text)] /\ handlers' \in [Proc -> Seq(Handler)]
             /\ left' \in [Proc -> Nat] /\ \A p \in Proc : left'[p] <= Len(handlers'[p])
  <2>1. CASE /\ handlers' = [handlers EXCEPT !["parent"] = Append(@, h)]
             /\ left' = [left EXCEPT !["parent"] = @ + 1]
             /\ UNCHANGED buf
    <3>1. Append(handlers["parent"], h) \in Seq(Handler) /\ left["parent"] + 1 \in Nat
          /\ Len(Append(handlers["parent"], h)) = Len(handlers["parent"]) + 1
      BY <1>1, <1>a, <1>b
    <3> QED
      BY <1>a, <1>b, <2>1, <3>1
  <2>2. CASE Prints("parent", error) /\ UNCHANGED <<handlers, left>>
    BY <1>1, <1>a, <1>b, <2>2, PrintsType, Texts
  <2> QED
    BY <1>1, <2>1, <2>2 DEF AtExit
<1>2. CASE Register1 \/ Register2
  <2>1. \E h \in Handler, error \in Message : AtExit(h, error)
    BY <1>2 DEF Register1, Register2, Handler, Message
  <2> QED
    BY <1>1, <1>2, <1>a, <1>b, <2>1, ZenonT(60) DEF Register1, Register2, TypeOK
<1>3. CASE PrintMain
  <2>1. "main" \in Text
    BY DEF Text, Message
  <2> QED
    BY <1>3, <1>a, <1>b, <2>1, PrintsType DEF PrintMain, TypeOK
<1>4. CASE PrintStart
  BY <1>4, <1>a, <1>b, LinesType, Texts, PrintsLinesType DEF PrintStart, TypeOK
<1>5. CASE Fork
  <2>1. program # "exercise-3"
    BY <1>5, <1>a DEF Fork, Places
  <2>2. \A p \in Proc : AfterFork[program][p] \in {"print", "created", "waitpid", "exec"}
    BY <1>a, <1>b, <2>1 DEF AfterFork
  <2>3. pc' \in [Proc -> {"print", "created", "waitpid", "exec"}]
    BY <1>5, <2>2 DEF Fork
  <2> QED
    BY <1>5, <1>a, <1>b, <2>3 DEF Fork, TypeOK
<1>6. CASE ForkFails
  <2>1. CASE program = "exit"
    <3>1. "ERROR: fork" \in Text
      BY DEF Text, Message
    <3> QED
      BY <1>6, <1>a, <1>b, <2>1, <3>1, PrintsType DEF ForkFails, TypeOK
  <2>2. CASE program = "exec"
    BY <1>6, <1>a, <1>b, <2>2, LinesType, Texts, PrintsLinesType DEF ForkFails, TypeOK
  <2>3. CASE program = "system"
    BY <1>6, <1>a, <1>b, <2>3 DEF ForkFails, TypeOK
  <2> QED
    BY <1>6, <2>1, <2>2, <2>3 DEF ForkFails
<1>7. CASE ExecFails
  <2>1. "Error: execl()" \in Text
    BY DEF Text, Line, ChildLine
  <2>2. /\ out' = out \/ out' = Append(out, "Error: execl()")
        /\ status' \in {"0", "no_shell"}
        /\ pc' = [pc EXCEPT !["child"] = "exited"] /\ buf' = [buf EXCEPT !["child"] = <<>>]
        /\ UNCHANGED <<program, tty, ignored, handlers, left, answer>>
    BY <1>7 DEF ExecFails
  <2>3. Append(out, "Error: execl()") \in Seq(Text)
    BY <1>c, <2>1, AppendSeq
  <2>4. out' \in Seq(Text)
    BY <1>c, <2>2, <2>3
  <2>5. buf' \in [Proc -> Seq(Text)]
    <3>1. <<>> \in Seq(Text) /\ buf \in [Proc -> Seq(Text)]
      BY <1>a
    <3> QED
      BY <2>2, <3>1
  <2> QED
    BY <1>a, <1>b, <2>2, <2>4, <2>5 DEF TypeOK
<1>8. CASE ExecScriptFails
  <2>1. "Error: execl()" \in Line
    BY DEF Line, ChildLine
  <2> QED
    BY <1>8, <1>a, <1>b, <2>1, LinesType, PrintsLinesType DEF ExecScriptFails, TypeOK
<1>9. CASE PrintCreated \/ PrintWait
  BY <1>9, <1>a, <1>b, LinesType, Texts, PrintsLinesType, ZenonT(60) DEF PrintCreated, PrintWait, TypeOK
<1>10. CASE WaitPid
  BY <1>10, <1>a, <1>b DEF WaitPid, WaitStatus, TypeOK
<1>11. CASE Complete
  BY <1>11, <1>a, <1>b, LinesType, PrintsLinesType DEF Complete, TypeOK
<1>12. ASSUME NEW p \in Proc, PrintSelf(p)
       PROVE  TypeOK'
  BY <1>12, <1>a, <1>b, Texts, PrintsType DEF PrintSelf, TypeOK
<1>13. ASSUME NEW p \in Proc, ExecSucceeds(p)
       PROVE  TypeOK'
  BY <1>13, <1>a, <1>b DEF ExecSucceeds, TypeOK
<1>14. ASSUME NEW p \in Proc, Command(p)
       PROVE  TypeOK'
  <2>1. "listing" \in Text
    BY DEF Text, Line, ChildLine
  <2>2. /\ out' = out \/ out' = Append(out, "listing")
        /\ status' \in {"0", "failed", "no_command"}
        /\ pc' = [pc EXCEPT ![p] = "exited"]
        /\ UNCHANGED <<program, tty, ignored, buf, handlers, left, answer>>
    BY <1>14 DEF Command
  <2>3. Append(out, "listing") \in Seq(Text)
    BY <1>c, <2>1, AppendSeq
  <2>4. out' \in Seq(Text)
    BY <1>c, <2>2, <2>3
  <2> QED
    BY <1>a, <1>b, <2>2, <2>4 DEF TypeOK
<1>15. ASSUME NEW p \in Proc, RunHandler(p)
       PROVE  TypeOK'
  <2> DEFINE l == left[p]
             h == handlers[p]
  <2>1. h \in Seq(Handler) /\ l \in Nat /\ l > 0 /\ l <= Len(h)
    BY <1>15, <1>a DEF RunHandler
  <2> HIDE DEF l, h
  <2>2. h[l] \in Handler /\ l - 1 \in Nat /\ l - 1 <= Len(h)
    BY <2>1
  <2>3. handlers[p][left[p]] \in Text /\ left[p] - 1 \in Nat /\ left[p] - 1 <= Len(handlers[p])
    BY <2>2, Texts DEF l, h
  <2> QED
    BY <1>15, <1>a, <1>b, <2>3, PrintsType DEF RunHandler, TypeOK
<1>16. ASSUME NEW p \in Proc, Flush(p)
       PROVE  TypeOK'
  <2>1. out \o buf[p] \in Seq(Text)
    BY <1>a, ConcatSeq
  <2> QED
    BY <1>16, <1>a, <1>b, <2>1 DEF Flush, TypeOK
<1>17. ASSUME NEW p \in Proc, Kill(p)
       PROVE  TypeOK'
  BY <1>17, <1>a, <1>b DEF Kill, TypeOK
<1>18. CASE Terminated \/ UNCHANGED vars
  BY <1>18, <1>a, <1>b DEF Terminated, vars, TypeOK
<1> QED
  BY <1>2, <1>3, <1>4, <1>5, <1>6, <1>7, <1>8, <1>9, <1>10, <1>11, <1>12, <1>13, <1>14,
     <1>15, <1>16, <1>17, <1>18 DEF Next

-----------------------------------------------------------------------------
(* 27-chap/exec and 27-chap/system *)

\* The parent has an answer only about a child that has ended.
Answered ==
  /\ pc["parent"] \in {"complete", "exit", "exited"} => answer # "none"
  /\ answer # "none" =>
       /\ pc["parent"] \in {"complete", "exit", "exited", "killed"}
       /\ Ended("child")
  /\ pc["child"] \in {"exited", "killed"} => status # "none"

\* What has been written, or will be when the parent leaves through exit().
Said == Range(out) \cup Range(buf["parent"])

\* No line is said before its place in the program, and the verdict is the right one.
Spoken ==
  /\ pc["parent"] = "start" => Said = {}
  /\ pc["parent"] = "fork" => Said \subseteq {"Application Start"}
  /\ pc["parent"] = "created" => Said \subseteq {"Application Start"} \cup ChildLine
  /\ pc["parent"] = "wait" => "Wait for child" \notin Said
  /\ (AnswerLine \cup {"Application Finished"}) \cap Said # {} =>
       pc["parent"] \in {"exit", "exited", "killed"}
  /\ \A v \in AnswerLine \cap Said : answer # "none" /\ v = Verdict
  /\ ChildLine \cap Said # {} => pc["child"] = "exited"

\* No line is twice in what is written or waits to be.
Once ==
  /\ IsInjective(out) /\ IsInjective(buf["parent"])
  /\ Range(out) \cap Range(buf["parent"]) = {}
  /\ ChildLine \cap Range(buf["parent"]) = {}
  /\ tty => buf["parent"] = <<>>

\* The place of the child's line in s.
Placed(s) ==
  \A x \in 1 .. Len(s) : s[x] \in ChildLine =>
    IF tty THEN x > 1 /\ \A y \in 1 .. x : s[y] \notin AnswerLine
           ELSE x = 1 /\ s[x] = "listing"

\* On a terminal the parent has spoken before there is a child; in a file nothing
\* is above what the child has to say.  No exit handler is registered.
Ordered ==
  /\ Placed(out)
  /\ tty /\ (pc["parent"] = "fork" \/ pc["child"] # "unborn") => out # <<>>
  /\ ~tty => out = <<>> \/ pc["child"] = "exited" \/ pc["parent"] = "exited"
  /\ left["parent"] = 0

ReachInv == Reaches => Answered /\ Spoken /\ Once /\ Ordered

LEMMA ProgramStays == [Next]_vars => UNCHANGED <<program, tty, ignored>>
BY DEF Next, vars, setting, Register1, Register2, PrintMain, PrintStart, Fork, ForkFails,
   ExecFails, ExecScriptFails, PrintCreated, PrintWait, WaitPid, Complete, PrintSelf,
   ExecSucceeds, Command, RunHandler, Flush, Kill, Terminated

LEMMA NextAnswered == Base /\ Reaches /\ Answered /\ [Next]_vars => Answered'
<1> SUFFICES ASSUME Base, Reaches, Answered, [Next]_vars
             PROVE  Answered'
  OBVIOUS
<1>a. /\ pc \in [Proc -> {"unborn", "atexit1", "atexit2", "main", "fork", "print",
                          "start", "created", "wait", "waitpid", "complete",
                          "exec", "command", "exit", "exited", "killed"}]
      /\ status \in {"none", "0", "failed", "no_shell", "no_command", "killed"}
      /\ answer \in {"none", "-1", "0", "failed", "127", "killed"}
      /\ program \in {"exec", "system"}
      /\ Places
  BY DEF Base, TypeOK, Reaches
<1> USE <1>a DEF Answered, Places, Reaches, Goto, Proc, setting, family, Ended
<1>1. CASE Register1 \/ Register2 \/ PrintMain \/ PrintStart
  BY <1>1 DEF Register1, Register2, PrintMain, PrintStart
<1>2. CASE Fork
  BY <1>2 DEF Fork, AfterFork
<1>3. CASE ForkFails
  BY <1>3 DEF ForkFails
<1>4. CASE ExecFails
  BY <1>4 DEF ExecFails
<1>10. CASE ExecScriptFails
  BY <1>10 DEF ExecScriptFails
<1>5. CASE PrintCreated
  BY <1>5 DEF PrintCreated
<1>12. CASE PrintWait
  BY <1>12 DEF PrintWait
<1>13. CASE Complete
  BY <1>13 DEF Complete
<1>11. CASE WaitPid
  BY <1>11 DEF WaitPid, WaitStatus
<1>6. ASSUME NEW p \in Proc, PrintSelf(p) \/ ExecSucceeds(p) \/ Command(p)
      PROVE  Answered'
  BY <1>6 DEF PrintSelf, ExecSucceeds, Command
<1>7. ASSUME NEW p \in Proc, RunHandler(p) \/ Flush(p)
      PROVE  Answered'
  BY <1>7 DEF RunHandler, Flush
<1>8. ASSUME NEW p \in Proc, Kill(p)
      PROVE  Answered'
  BY <1>8 DEF Kill
<1>9. CASE Terminated \/ UNCHANGED vars
  BY <1>9 DEF Terminated, vars
<1> QED
  BY <1>1, <1>2, <1>3, <1>4, <1>5, <1>6, <1>7, <1>8, <1>9, <1>10, <1>11, <1>12,
     <1>13 DEF Next

\* What the parent prints of itself keeps the child's line in its place.
LEMMA PlacedConcat ==
  ASSUME NEW s \in Seq(Text), NEW t \in Seq(Text), Placed(s), Range(t) \cap ChildLine = {}
  PROVE  Placed(s \o t)
<1>1. /\ Len(s) \in Nat /\ Len(t) \in Nat /\ Len(s \o t) = Len(s) + Len(t)
      /\ \A i \in 1 .. Len(s) : (s \o t)[i] = s[i]
      /\ \A i \in 1 .. Len(s) + Len(t) :
           i \in 1 .. Len(s) \/ (i - Len(s) \in 1 .. Len(t) /\ (s \o t)[i] = t[i - Len(s)])
  OBVIOUS
<1>2. \A i \in 1 .. Len(t) : t[i] \notin ChildLine
  BY DEF Range
<1> DEFINE st == s \o t
<1> HIDE DEF st
<1>3. ASSUME NEW x \in 1 .. Len(st), st[x] \in ChildLine
      PROVE  x \in 1 .. Len(s) /\ \A y \in 1 .. x : st[y] = s[y]
  BY <1>1, <1>2, <1>3 DEF st
<1>4. Placed(st)
  BY <1>1, <1>3 DEF Placed
<1> QED
  BY <1>4 DEF st

LEMMA PlacedAppend ==
  ASSUME NEW s \in Seq(Text), NEW e \in ChildLine, Placed(s),
         tty => s # <<>> /\ Range(s) \cap AnswerLine = {},
         ~tty => s = <<>> /\ e = "listing"
  PROVE  Placed(Append(s, e))
<1>1. /\ Len(s) \in Nat /\ Len(Append(s, e)) = Len(s) + 1
      /\ \A i \in 1 .. Len(s) : Append(s, e)[i] = s[i]
      /\ Append(s, e)[Len(s) + 1] = e
      /\ s # <<>> <=> Len(s) > 0
  OBVIOUS
<1>2. ChildLine \cap AnswerLine = {}
  BY DEF ChildLine, AnswerLine
<1>3. tty => \A i \in 1 .. Len(s) : s[i] \notin AnswerLine
  BY DEF Range
<1> DEFINE st == Append(s, e)
<1> HIDE DEF st
<1>4. Placed(st)
  BY <1>1, <1>2, <1>3 DEF Placed, st
<1> QED
  BY <1>4 DEF st

\* The parent says lines that are new.
LEMMA ParentSays ==
  ASSUME TypeOK, Once, Placed(out), UNCHANGED tty,
         NEW lines \in Seq(Text), IsInjective(lines), PrintsLines("parent", lines),
         Range(lines) \cap Said = {}, Range(lines) \cap ChildLine = {}
  PROVE  /\ Said' = Said \cup Range(lines) /\ Once' /\ Placed(out)'
         /\ out # <<>> => out' # <<>>
         /\ tty /\ lines # <<>> => out' # <<>>
         /\ ~tty => out' = out
<1>1. "parent" \in Proc /\ out \in Seq(Text) /\ buf["parent"] \in Seq(Text)
  BY DEF TypeOK, Proc
<1>2. Range(lines) \cap Range(out) = {} /\ Range(lines) \cap Range(buf["parent"]) = {}
  BY DEF Said
<1>3. CASE tty
  <2>1. out' = out \o lines /\ buf' = buf /\ tty'
    BY <1>1, <1>3, PrintsLinesType
  <2>2. Range(out') = Range(out) \cup Range(lines) /\ IsInjective(out')
    BY <1>1, <1>2, <2>1, ConcatSeq DEF Once
  <2>3. Placed(out \o lines)
    BY <1>1, PlacedConcat
  <2>4. Placed(out)'
    BY <2>1, <2>3, <1>3 DEF Placed
  <2>5. (out # <<>> => out \o lines # <<>>) /\ (lines # <<>> => out \o lines # <<>>)
    BY <1>1
  <2>6. buf["parent"] = <<>> /\ Range(buf["parent"]) = {}
    BY <1>3, NothingInEmpty DEF Once
  <2> QED
    BY <1>3, <2>1, <2>2, <2>4, <2>5, <2>6 DEF Once, Said
<1>4. CASE ~tty
  <2>1. out' = out /\ buf'["parent"] = buf["parent"] \o lines /\ ~tty'
    BY <1>1, <1>4, PrintsLinesType
  <2>2. Range(buf'["parent"]) = Range(buf["parent"]) \cup Range(lines)
        /\ IsInjective(buf'["parent"])
    BY <1>1, <1>2, <2>1, ConcatSeq DEF Once
  <2>3. Placed(out)'
    BY <2>1, <1>4 DEF Placed
  <2> QED
    BY <1>2, <1>4, <2>1, <2>2, <2>3 DEF Once, Said
<1> QED
  BY <1>3, <1>4

LEMMA NextSaid ==
  Base /\ Reaches /\ Answered /\ Spoken /\ Once /\ Ordered /\ [Next]_vars =>
    Spoken' /\ Once' /\ Ordered'
<1> SUFFICES ASSUME Base, Reaches, Answered, Spoken, Once, Ordered, [Next]_vars
             PROVE  Spoken' /\ Once' /\ Ordered'
  OBVIOUS
<1>a. /\ pc \in [Proc -> {"unborn", "atexit1", "atexit2", "main", "fork", "print",
                          "start", "created", "wait", "waitpid", "complete",
                          "exec", "command", "exit", "exited", "killed"}]
      /\ program \in {"exec", "system"} /\ tty \in BOOLEAN
      /\ out \in Seq(Text) /\ buf \in [Proc -> Seq(Text)] /\ left \in [Proc -> Nat]
  BY DEF Base, TypeOK, Reaches
<1>b. TypeOK /\ Places /\ "parent" \in Proc /\ "child" \in Proc /\ Proc = {"parent", "child"}
  BY DEF Base, Proc
<1>c. UNCHANGED tty
  BY ProgramStays
<1>d. /\ pc["parent"] \in {"start", "fork", "created", "wait", "waitpid", "complete",
                           "exit", "exited", "killed"}
      /\ pc["child"] \in {"unborn", "exec", "command", "exited", "killed"}
      /\ pc["parent"] \in {"start", "fork"} => pc["child"] = "unborn"
  BY <1>b DEF Places
<1>e. ChildLine = {"listing", "Error: execl()"}
      /\ AnswerLine = {"Child complete", "Child complete: -1", "Error: Child process failure",
                       "Error: Shell unable to be executed", "Success"}
  BY DEF ChildLine, AnswerLine
<1>1. ~ (Register1 \/ Register2 \/ PrintMain \/ ExecScriptFails)
  BY <1>a, <1>d DEF Register1, Register2, PrintMain, ExecScriptFails, Goto
\* What the parent says of itself.
<1>2. ASSUME NEW lines \in Seq(Text), IsInjective(lines), PrintsLines("parent", lines),
             Range(lines) \cap Said = {}, Range(lines) \cap ChildLine = {}
      PROVE  /\ Said' = Said \cup Range(lines) /\ Once' /\ Placed(out)'
             /\ out # <<>> => out' # <<>>
             /\ tty /\ lines # <<>> => out' # <<>>
             /\ ~tty => out' = out
  BY <1>2, <1>b, <1>c, ParentSays DEF Ordered
<1>3. ASSUME NEW line \in Line \ ChildLine, line \notin Said, PrintsLines("parent", <<line>>)
      PROVE  /\ Said' = Said \cup {line} /\ Once' /\ Placed(out)'
             /\ out # <<>> => out' # <<>>
             /\ tty => out' # <<>>
             /\ ~tty => out' = out
  <2>1. line \in Text
    BY <1>3, Texts
  <2>2. <<line>> \in Seq(Text) /\ Range(<<line>>) = {line} /\ IsInjective(<<line>>)
    BY <2>1, OneSeq
  <2>3. <<line>> # <<>>
    OBVIOUS
  <2> QED
    BY <1>2, <1>3, <2>2, <2>3
<1>4. CASE PrintStart
  <2>1. "Application Start" \in Line \ ChildLine /\ "Application Start" \notin AnswerLine
    BY <1>e DEF Line
  <2>2. /\ pc["parent"] = "start" /\ pc'["parent"] = "fork" /\ pc'["child"] = pc["child"]
        /\ PrintsLines("parent", <<"Application Start">>) /\ UNCHANGED <<left, answer>>
    BY <1>4, <1>a, <1>b DEF PrintStart, Goto, family
  <2>3. Said = {}
    BY <2>2 DEF Spoken
  <2>4. Said' = {"Application Start"} /\ Once' /\ Placed(out)'
        /\ (tty => out' # <<>>) /\ (~tty => out' = out)
    BY <1>3, <2>1, <2>2, <2>3
  <2>5. Spoken'
    BY <2>1, <2>2, <2>4, <1>e DEF Spoken
  <2>6. Ordered'
    BY <1>c, <1>d, <2>2, <2>4 DEF Ordered
  <2> QED
    BY <2>4, <2>5, <2>6
<1>5. CASE Fork
  <2>1. /\ pc["parent"] = "fork" /\ pc'["parent"] \in {"created", "waitpid"}
        /\ pc'["child"] = "exec" /\ buf'["parent"] = buf["parent"] /\ left'["parent"] = left["parent"]
        /\ UNCHANGED <<out, answer>>
    BY <1>5, <1>a, <1>b DEF Fork, AfterFork, family
  <2>2. Said' = Said /\ Said \subseteq {"Application Start"}
    BY <2>1 DEF Said, Spoken
  <2>3. Spoken'
    BY <1>e, <2>1, <2>2 DEF Spoken
  <2>4. Once' /\ Ordered'
    BY <1>c, <1>d, <2>1 DEF Once, Ordered, Placed
  <2> QED
    BY <2>3, <2>4
<1>6. CASE ForkFails
  <2>1. CASE program = "exec"
    <3>1. "Error: fork()" \in Line \ ChildLine /\ "Error: fork()" \notin AnswerLine
      BY <1>e DEF Line
    <3>2. /\ pc["parent"] = "fork" /\ pc'["parent"] = "wait" /\ pc'["child"] = pc["child"]
          /\ PrintsLines("parent", <<"Error: fork()">>) /\ UNCHANGED <<left, answer>>
      BY <1>6, <1>a, <1>b, <2>1 DEF ForkFails, Goto
    <3>3. Said \subseteq {"Application Start"}
      BY <3>2 DEF Spoken
    <3>4. Said' = Said \cup {"Error: fork()"} /\ Once' /\ Placed(out)'
          /\ (tty => out' # <<>>) /\ (~tty => out' = out)
      BY <1>3, <3>1, <3>2, <3>3
    <3>5. Spoken'
      BY <3>1, <3>2, <3>3, <3>4, <1>e DEF Spoken
    <3>6. Ordered'
      BY <1>c, <1>d, <3>2, <3>4 DEF Ordered
    <3> QED
      BY <3>4, <3>5, <3>6
  <2>2. CASE program = "system"
    <3>1. /\ pc["parent"] = "fork" /\ pc'["parent"] = "complete" /\ pc'["child"] = pc["child"]
          /\ UNCHANGED <<buf, out, left>>
      BY <1>6, <1>a, <1>b, <2>2 DEF ForkFails, Goto
    <3>2. Said' = Said /\ Said \subseteq {"Application Start"}
      BY <3>1 DEF Said, Spoken
    <3>3. Spoken'
      BY <1>e, <3>1, <3>2 DEF Spoken
    <3>4. Once' /\ Ordered'
      BY <1>c, <1>d, <3>1 DEF Once, Ordered, Placed
    <3> QED
      BY <3>3, <3>4
  <2> QED
    BY <1>a, <2>1, <2>2
\* What the child says.
<1>7. ASSUME ~Ended("child"), pc["child"] # "unborn", pc'["child"] = "exited",
             pc'["parent"] = pc["parent"], buf'["parent"] = buf["parent"], UNCHANGED <<left, answer>>,
             NEW e \in ChildLine, out' = out \/ out' = Append(out, e),
             ~tty => out' = out \/ e = "listing"
      PROVE  Spoken' /\ Once' /\ Ordered'
  <2>1. answer = "none" /\ AnswerLine \cap Said = {} /\ ChildLine \cap Said = {}
        /\ pc["parent"] \notin {"start", "fork"}
    BY <1>7, <1>d DEF Answered, Spoken, Ended
  <2>2. CASE out' = out
    <3>1. Said' = Said
      BY <1>7, <2>2 DEF Said
    <3>2. Spoken'
      BY <1>7, <2>1, <3>1 DEF Spoken
    <3>3. Once' /\ Ordered'
      BY <1>7, <1>c, <2>2 DEF Once, Ordered, Placed
    <3> QED
      BY <3>2, <3>3
  <2>3. CASE out' = Append(out, e) /\ (~tty => e = "listing")
    <3>1. e \in Text
      BY Texts
    <3>2. /\ Range(out') = Range(out) \cup {e} /\ IsInjective(out')
          /\ Said' = Said \cup {e}
      BY <1>7, <1>a, <2>1, <2>3, <3>1, AppendSeq DEF Said, Once
    <3>3. Spoken'
      BY <1>7, <1>e, <2>1, <3>2 DEF Spoken
    <3>4. Once'
      BY <1>7, <1>c, <2>1, <3>2 DEF Once, Said
    <3>5. tty => out # <<>> /\ Range(out) \cap AnswerLine = {}
      BY <1>7, <2>1 DEF Ordered, Said
    <3>6. ~tty => out = <<>>
      BY <1>7, <2>1 DEF Ordered, Answered, Ended
    <3>7. Placed(Append(out, e)) /\ Append(out, e) # <<>>
      BY <1>a, <2>3, <3>5, <3>6, PlacedAppend DEF Ordered
    <3>8. Ordered'
      BY <1>7, <1>c, <2>3, <3>7 DEF Ordered, Placed
    <3> QED
      BY <3>3, <3>4, <3>8
  <2> QED
    BY <1>7, <2>2, <2>3
<1>8. CASE ExecFails
  <2>1. /\ pc["child"] = "exec" /\ pc'["child"] = "exited" /\ pc'["parent"] = pc["parent"]
        /\ buf'["parent"] = buf["parent"] /\ UNCHANGED <<left, answer>>
        /\ out' = out \/ out' = Append(out, "Error: execl()")
        /\ ~tty => out' = out
    BY <1>8, <1>a, <1>b DEF ExecFails, Goto
  <2> QED
    BY <1>7, <1>e, <2>1 DEF Ended
<1>9. CASE PrintCreated
  <2>1. "Child created" \in Line \ ChildLine /\ "Child created" \notin AnswerLine
    BY <1>e DEF Line
  <2>2. /\ pc["parent"] = "created" /\ pc'["parent"] = "wait" /\ pc'["child"] = pc["child"]
        /\ PrintsLines("parent", <<"Child created">>) /\ UNCHANGED <<left, answer>>
    BY <1>9, <1>a, <1>b DEF PrintCreated, Goto, family
  <2>3. Said \subseteq {"Application Start"} \cup ChildLine
    BY <2>2 DEF Spoken
  <2>4. Said' = Said \cup {"Child created"} /\ Once' /\ Placed(out)'
        /\ (tty => out' # <<>>) /\ (~tty => out' = out)
    BY <1>3, <1>e, <2>1, <2>2, <2>3
  <2>5. Spoken'
    BY <2>1, <2>2, <2>3, <2>4, <1>e DEF Spoken
  <2>6. Ordered'
    BY <1>c, <1>d, <2>2, <2>4 DEF Ordered
  <2> QED
    BY <2>4, <2>5, <2>6
<1>10. CASE PrintWait
  <2>1. "Wait for child" \in Line \ ChildLine /\ "Wait for child" \notin AnswerLine
        /\ "Wait for child" # "Application Finished"
    BY <1>e DEF Line
  <2>2. /\ pc["parent"] = "wait" /\ pc'["parent"] = "waitpid" /\ pc'["child"] = pc["child"]
        /\ PrintsLines("parent", <<"Wait for child">>) /\ UNCHANGED <<left, answer>>
    BY <1>10, <1>a, <1>b DEF PrintWait, Goto, family
  <2>3. "Wait for child" \notin Said
    BY <2>2 DEF Spoken
  <2>4. Said' = Said \cup {"Wait for child"} /\ Once' /\ Placed(out)'
        /\ (tty => out' # <<>>) /\ (~tty => out' = out)
    BY <1>3, <2>1, <2>2, <2>3
  <2>5. Spoken'
    <3>1. (AnswerLine \cup {"Application Finished"}) \cap Said' = {}
      BY <2>1, <2>2, <2>4 DEF Spoken
    <3>2. ChildLine \cap Said' # {} => pc'["child"] = "exited"
      BY <2>1, <2>2, <2>4 DEF Spoken
    <3> QED
      BY <2>2, <3>1, <3>2 DEF Spoken
  <2>6. Ordered'
    BY <1>c, <1>d, <2>2, <2>4 DEF Ordered
  <2> QED
    BY <2>4, <2>5, <2>6
<1>11. CASE WaitPid
  <2>1. /\ pc["parent"] = "waitpid" /\ pc'["parent"] = "complete" /\ pc'["child"] = pc["child"]
        /\ UNCHANGED <<buf, out, left>>
    BY <1>11, <1>a, <1>b DEF WaitPid, Goto
  <2>2. Said' = Said
    BY <2>1 DEF Said
  <2>3. Spoken'
    BY <2>1, <2>2 DEF Spoken
  <2>4. Once' /\ Ordered'
    BY <1>c, <2>1 DEF Once, Ordered, Placed
  <2> QED
    BY <2>3, <2>4
<1>12. CASE Complete
  <2> DEFINE lines == <<Verdict, "Application Finished">>
  <2>1. Verdict \in AnswerLine /\ Verdict \in Text /\ "Application Finished" \in Text
        /\ Verdict # "Application Finished" /\ "Application Finished" \notin ChildLine
        /\ Verdict \notin ChildLine /\ "Application Finished" \notin AnswerLine
    BY <1>e, Texts
  <2>2. lines \in Seq(Text) /\ Range(lines) = {Verdict, "Application Finished"} /\ IsInjective(lines)
    BY <2>1, TwoSeq
  <2>3. /\ pc["parent"] = "complete" /\ pc'["parent"] = "exit" /\ pc'["child"] = pc["child"]
        /\ PrintsLines("parent", lines) /\ UNCHANGED <<left, answer, program>>
    BY <1>12, <1>a, <1>b DEF Complete, Goto, family, setting
  <2>4. (AnswerLine \cup {"Application Finished"}) \cap Said = {} /\ answer # "none"
    BY <2>3 DEF Spoken, Answered
  <2>5. Range(lines) \cap Said = {} /\ Range(lines) \cap ChildLine = {}
    BY <2>1, <2>2, <2>4
  <2>6. Said' = Said \cup {Verdict, "Application Finished"} /\ Once' /\ Placed(out)'
        /\ (out # <<>> => out' # <<>>) /\ (~tty => out' = out)
    BY <1>2, <2>2, <2>3, <2>5
  <2>7. Verdict' = Verdict
    BY <2>3 DEF Verdict
  <2>8. Spoken'
    <3>1. \A v \in AnswerLine \cap Said' : v = Verdict
      BY <2>1, <2>4, <2>6
    <3>2. ChildLine \cap Said' # {} => pc'["child"] = "exited"
      BY <2>1, <2>3, <2>6 DEF Spoken
    <3> QED
      BY <2>3, <2>4, <2>7, <3>1, <3>2 DEF Spoken
  <2>9. Ordered'
    BY <1>c, <2>3, <2>6 DEF Ordered
  <2> QED
    BY <2>6, <2>8, <2>9
<1>13. ASSUME NEW p \in Proc, PrintSelf(p) \/ RunHandler(p)
       PROVE  FALSE
  BY <1>13, <1>a, <1>b, <1>d DEF PrintSelf, RunHandler, Goto, Ordered
<1>14. ASSUME NEW p \in Proc, ExecSucceeds(p)
       PROVE  Spoken' /\ Once' /\ Ordered'
  <2>1. /\ pc["child"] = "exec" /\ pc'["child"] = "command" /\ pc'["parent"] = pc["parent"]
        /\ buf'["parent"] = buf["parent"] /\ UNCHANGED <<out, left, answer, program>>
    BY <1>14, <1>a, <1>b, <1>d DEF ExecSucceeds, Goto, family, setting
  <2>2. Said' = Said /\ Verdict' = Verdict
    BY <2>1 DEF Said, Verdict
  <2>3. Spoken'
    BY <2>1, <2>2 DEF Spoken
  <2>4. Once' /\ Ordered'
    BY <1>c, <2>1 DEF Once, Ordered, Placed
  <2> QED
    BY <2>3, <2>4
<1>15. ASSUME NEW p \in Proc, Command(p)
       PROVE  Spoken' /\ Once' /\ Ordered'
  <2>1. /\ pc["child"] = "command" /\ pc'["child"] = "exited" /\ pc'["parent"] = pc["parent"]
        /\ buf'["parent"] = buf["parent"] /\ UNCHANGED <<left, answer>>
        /\ out' = out \/ out' = Append(out, "listing")
    BY <1>15, <1>a, <1>b, <1>d DEF Command, Goto
  <2> QED
    BY <1>7, <1>e, <2>1 DEF Ended
<1>16. ASSUME NEW p \in Proc, Flush(p)
       PROVE  Spoken' /\ Once' /\ Ordered'
  <2>1. /\ pc["parent"] = "exit" /\ pc'["parent"] = "exited" /\ pc'["child"] = pc["child"]
        /\ out' = out \o buf["parent"] /\ buf'["parent"] = <<>>
        /\ UNCHANGED <<left, answer, program>>
    BY <1>16, <1>a, <1>b, <1>d DEF Flush, Goto, family, setting
  <2>2. Range(out') = Said /\ IsInjective(out')
    BY <1>a, <1>b, <2>1, ConcatSeq DEF Said, Once
  <2>3. Said' = Said /\ Verdict' = Verdict
    BY <2>1, <2>2, NothingInEmpty DEF Said, Verdict
  <2>4. Spoken'
    BY <2>1, <2>3 DEF Spoken
  <2>5. Once'
    BY <2>1, <2>2, NothingInEmpty DEF Once
  <2>6. Placed(out \o buf["parent"])
    BY <1>a, <1>b, PlacedConcat DEF Ordered, Once
  <2>7. out # <<>> => out \o buf["parent"] # <<>>
    BY <1>a, <1>b
  <2>8. Ordered'
    BY <1>c, <2>1, <2>6, <2>7 DEF Ordered, Placed
  <2> QED
    BY <2>4, <2>5, <2>8
<1>17. ASSUME NEW p \in Proc, Kill(p)
       PROVE  Spoken' /\ Once' /\ Ordered'
  <2>1. /\ ~Ended(p) /\ pc' = [pc EXCEPT ![p] = "killed"]
        /\ UNCHANGED <<buf, out, left, answer, program>>
    BY <1>17 DEF Kill, setting
  <2>2. Said' = Said /\ Verdict' = Verdict
    BY <2>1 DEF Said, Verdict
  <2>3. Spoken'
    BY <1>a, <1>b, <2>1, <2>2 DEF Spoken, Ended
  <2>4. Once' /\ Ordered'
    BY <1>a, <1>b, <1>c, <2>1 DEF Once, Ordered, Placed, Ended
  <2> QED
    BY <2>3, <2>4
<1>18. CASE Terminated \/ UNCHANGED vars
  <2>1. UNCHANGED vars
    BY <1>18 DEF Terminated
  <2> QED
    BY <2>1 DEF vars, setting, family, Spoken, Once, Ordered, Placed, Said, Verdict
<1> QED
  BY <1>1, <1>4, <1>5, <1>6, <1>8, <1>9, <1>10, <1>11, <1>12, <1>13, <1>14, <1>15, <1>16,
     <1>17, <1>18 DEF Next

-----------------------------------------------------------------------------
(* 25-chap *)

\* "main" is in b once.
OneMain(b) == \E k \in 1 .. Len(b) : \A j \in 1 .. Len(b) : b[j] = "main" <=> j = k

\* The word of p, if it is in b, is followed by what exit() has called of the handlers
\* h while l of them are left, and by nothing else.
Speech(p, b, h, l) ==
  \A x \in 1 .. Len(b) : b[x] \in Proc =>
    /\ b[x] = p
    /\ Len(b) = x + (Len(h) - l)
    /\ \A i \in 1 .. Len(h) - l : b[x + i] = h[(Len(h) - i) + 1]

\* All of the handlers h follow the place x of s.
Spelt(s, x, h) ==
  /\ x + Len(h) <= Len(s)
  /\ \A i \in 1 .. Len(h) : s[x + i] = h[(Len(h) - i) + 1]

\* What the buffer of p holds at each place of the program.
Words(p) ==
  /\ pc[p] \in {"atexit1", "atexit2", "main"} => "main" \notin Range(buf[p])
  /\ pc[p] \in {"atexit1", "atexit2", "main", "fork", "print"} =>
       left[p] = Len(handlers[p]) /\ Range(buf[p]) \cap Proc = {}
  /\ pc[p] \in {"fork", "print", "exit"} => OneMain(buf[p])
  /\ pc[p] = "exit" => Speech(p, buf[p], handlers[p], left[p])

\* What p has written.
Wrote(p) ==
  \A x \in 1 .. Len(out) : out[x] = p => pc[p] = "exited" /\ Spelt(out, x, handlers[p])

ExitInv ==
  program = "exit" =>
    /\ Times("main", out) = Cardinality(Flushed)
    /\ \A p \in Proc : Words(p) /\ Wrote(p)

LEMMA MainAppend ==
  ASSUME NEW s \in Seq(Text), NEW e \in Text
  PROVE  /\ "main" \notin Range(s) /\ e = "main" => OneMain(Append(s, e))
         /\ OneMain(s) /\ e # "main" => OneMain(Append(s, e))
<1>1. /\ Len(s) \in Nat /\ Len(Append(s, e)) = Len(s) + 1 /\ DOMAIN s = 1 .. Len(s)
      /\ \A i \in 1 .. Len(s) : Append(s, e)[i] = s[i]
      /\ Append(s, e)[Len(s) + 1] = e
  OBVIOUS
<1> DEFINE st == Append(s, e)
<1> HIDE DEF st
<1>2. ASSUME "main" \notin Range(s), e = "main"
      PROVE  OneMain(st)
  <2>1. \A i \in 1 .. Len(s) : s[i] # "main"
    BY <1>1, <1>2 DEF Range
  <2>2. Len(s) + 1 \in 1 .. Len(st)
        /\ \A j \in 1 .. Len(st) : st[j] = "main" <=> j = Len(s) + 1
    BY <1>1, <1>2, <2>1 DEF st
  <2> QED
    BY <2>2 DEF OneMain
<1>3. ASSUME OneMain(s), e # "main"
      PROVE  OneMain(st)
  <2>1. PICK k \in 1 .. Len(s) : \A j \in 1 .. Len(s) : s[j] = "main" <=> j = k
    BY <1>3 DEF OneMain
  <2>2. k \in 1 .. Len(st) /\ \A j \in 1 .. Len(st) : st[j] = "main" <=> j = k
    BY <1>1, <1>3, <2>1 DEF st
  <2> QED
    BY <2>2 DEF OneMain
<1> QED
  BY <1>2, <1>3 DEF st

\* Before it has said its word a process has said nothing, and then only the word.
LEMMA SpeechStarts ==
  ASSUME NEW p \in Proc, NEW s \in Seq(Text), NEW h \in Seq(Handler), Range(s) \cap Proc = {}
  PROVE  /\ Speech(p, s, h, Len(h))
         /\ Speech(p, Append(s, p), h, Len(h))
<1>1. /\ Len(s) \in Nat /\ Len(Append(s, p)) = Len(s) + 1 /\ DOMAIN s = 1 .. Len(s)
      /\ \A i \in 1 .. Len(s) : Append(s, p)[i] = s[i]
      /\ Append(s, p)[Len(s) + 1] = p /\ Len(h) \in Nat
  OBVIOUS
<1>2. \A i \in 1 .. Len(s) : s[i] \notin Proc
  BY <1>1 DEF Range
<1> DEFINE st == Append(s, p)
<1> HIDE DEF st
<1>3. Speech(p, s, h, Len(h))
  BY <1>2 DEF Speech
<1>4. \A x \in 1 .. Len(st) : st[x] \in Proc => st[x] = p /\ Len(st) = x
  BY <1>1, <1>2 DEF st
<1>5. Speech(p, st, h, Len(h))
  BY <1>1, <1>4 DEF Speech
<1> QED
  BY <1>3, <1>5 DEF st

LEMMA SpeechGoesOn ==
  ASSUME NEW p \in Proc, NEW s \in Seq(Text), NEW h \in Seq(Handler), NEW l \in 1 .. Len(h),
         Speech(p, s, h, l)
  PROVE  Speech(p, Append(s, h[l]), h, l - 1)
<1>1. h[l] \in Handler /\ l \in Nat /\ Len(h) \in Nat
  OBVIOUS
<1>2. h[l] \notin Proc
  BY <1>1 DEF Handler, Proc
<1> DEFINE e == h[l]
           st == Append(s, e)
<1>3. /\ Len(s) \in Nat /\ Len(st) = Len(s) + 1
      /\ \A i \in 1 .. Len(s) : st[i] = s[i]
      /\ st[Len(s) + 1] = e
  OBVIOUS
<1> HIDE DEF st
<1>4. SUFFICES ASSUME NEW x \in 1 .. Len(st), st[x] \in Proc
               PROVE  /\ st[x] = p
                      /\ Len(st) = x + (Len(h) - (l - 1))
                      /\ \A i \in 1 .. Len(h) - (l - 1) : st[x + i] = h[(Len(h) - i) + 1]
  BY DEF Speech, st
<1>5. x \in 1 .. Len(s) /\ s[x] = st[x]
  BY <1>2, <1>3, <1>4
<1>6. /\ s[x] = p /\ Len(s) = x + (Len(h) - l)
      /\ \A i \in 1 .. Len(h) - l : s[x + i] = h[(Len(h) - i) + 1]
  BY <1>4, <1>5 DEF Speech
<1>7. ASSUME NEW i \in 1 .. Len(h) - (l - 1)
      PROVE  st[x + i] = h[(Len(h) - i) + 1]
  <2>1. CASE i \in 1 .. Len(h) - l
    <3>1. x + i \in 1 .. Len(s)
      BY <1>1, <1>3, <1>5, <1>6, <2>1
    <3> QED
      BY <1>3, <1>6, <2>1, <3>1
  <2>2. CASE i = (Len(h) - l) + 1
    <3>1. x + i = Len(s) + 1 /\ (Len(h) - i) + 1 = l
      BY <1>1, <1>3, <1>5, <1>6, <2>2
    <3> QED
      BY <1>3, <3>1
  <2> QED
    BY <1>1, <1>7, <2>1, <2>2
<1>8. Len(st) = x + (Len(h) - (l - 1))
  BY <1>1, <1>3, <1>5, <1>6
<1> QED
  BY <1>5, <1>6, <1>7, <1>8

\* Writing the buffer t of p leaves what is spelt in s, and spells all p has said.
LEMMA SpeltConcat ==
  ASSUME NEW p \in Proc, NEW s \in Seq(Text), NEW t \in Seq(Text), NEW h \in Seq(Handler)
  PROVE  /\ \A x \in 1 .. Len(s) : Spelt(s, x, h) => Spelt(s \o t, x, h)
         /\ Speech(p, t, h, 0) =>
              \A x \in 1 .. Len(s \o t) : x \notin 1 .. Len(s) /\ (s \o t)[x] \in Proc =>
                (s \o t)[x] = p /\ Spelt(s \o t, x, h)
<1> DEFINE st == s \o t
<1>1. /\ Len(s) \in Nat /\ Len(t) \in Nat /\ Len(st) = Len(s) + Len(t) /\ Len(h) \in Nat
      /\ \A i \in 1 .. Len(s) : st[i] = s[i]
      /\ \A i \in 1 .. Len(t) : st[Len(s) + i] = t[i]
  OBVIOUS
<1> HIDE DEF st
<1>2. ASSUME NEW x \in 1 .. Len(s), Spelt(s, x, h)
      PROVE  Spelt(st, x, h)
  <2>1. x + Len(h) <= Len(s) /\ \A i \in 1 .. Len(h) : s[x + i] = h[(Len(h) - i) + 1]
    BY <1>2 DEF Spelt
  <2>2. ASSUME NEW i \in 1 .. Len(h)
        PROVE  st[x + i] = h[(Len(h) - i) + 1]
    <3>1. x + i \in 1 .. Len(s)
      BY <1>1, <2>1
    <3> QED
      BY <1>1, <2>1, <3>1
  <2>3. x + Len(h) <= Len(st)
    BY <1>1, <2>1
  <2> QED
    BY <2>2, <2>3 DEF Spelt
<1>3. ASSUME Speech(p, t, h, 0), NEW x \in 1 .. Len(st), x \notin 1 .. Len(s), st[x] \in Proc
      PROVE  st[x] = p /\ Spelt(st, x, h)
  <2> DEFINE y == x - Len(s)
  <2>0. y \in 1 .. Len(t) /\ x = Len(s) + y /\ x \in Nat
    BY <1>1, <1>3
  <2> HIDE DEF y
  <2>1. y \in 1 .. Len(t) /\ x = Len(s) + y /\ x \in Nat /\ st[x] = t[y]
    BY <1>1, <2>0
  <2>2. /\ t[y] = p /\ Len(t) = y + (Len(h) - 0)
        /\ \A i \in 1 .. Len(h) - 0 : t[y + i] = h[(Len(h) - i) + 1]
    BY <1>3, <2>1 DEF Speech
  <2>3. x + Len(h) <= Len(st)
    BY <1>1, <2>1, <2>2
  <2>4. ASSUME NEW i \in 1 .. Len(h)
        PROVE  st[x + i] = h[(Len(h) - i) + 1]
    <3>1. y + i \in 1 .. Len(t) /\ x + i = Len(s) + (y + i)
      BY <1>1, <2>1, <2>2
    <3>2. st[x + i] = t[y + i]
      BY <1>1, <3>1
    <3> QED
      BY <1>1, <2>2, <3>2
  <2> QED
    BY <2>1, <2>2, <2>3, <2>4 DEF Spelt
<1> QED
  BY <1>2, <1>3 DEF st

\* Writing a buffer that holds "main" once writes it once more.
LEMMA TimesConcat ==
  ASSUME NEW s \in Seq(Text), NEW t \in Seq(Text), OneMain(t)
  PROVE  Times("main", s) \in Nat /\ Times("main", s \o t) = Times("main", s) + 1
<1> DEFINE st == s \o t
<1>1. /\ Len(s) \in Nat /\ Len(t) \in Nat /\ DOMAIN st = 1 .. Len(s) + Len(t)
      /\ DOMAIN s = 1 .. Len(s)
      /\ \A i \in 1 .. Len(s) : st[i] = s[i]
      /\ \A i \in 1 .. Len(t) : st[Len(s) + i] = t[i]
      /\ \A i \in 1 .. Len(s) + Len(t) :
           i \in 1 .. Len(s) \/ (i - Len(s) \in 1 .. Len(t) /\ st[i] = t[i - Len(s)])
  OBVIOUS
<1> HIDE DEF st
<1>2. PICK k \in 1 .. Len(t) : \A j \in 1 .. Len(t) : t[j] = "main" <=> j = k
  BY DEF OneMain
<1> DEFINE K == {i \in DOMAIN s : s[i] = "main"}
           L == {i \in DOMAIN st : st[i] = "main"}
<1>3. IsFiniteSet(K)
  <2>1. IsFiniteSet(1 .. Len(s)) /\ K \subseteq 1 .. Len(s)
    BY <1>1, FS_Interval
  <2> QED
    BY <2>1, FS_Subset
<1>4. Len(s) + k \notin K
  BY <1>1
<1>5. L = K \cup {Len(s) + k}
  <2>1. ASSUME NEW i \in L
        PROVE  i \in K \cup {Len(s) + k}
    <3>1. i \in 1 .. Len(s) + Len(t) /\ st[i] = "main"
      BY <1>1, <2>1
    <3>2. CASE i \in 1 .. Len(s)
      BY <1>1, <3>1, <3>2
    <3>3. CASE i - Len(s) \in 1 .. Len(t) /\ st[i] = t[i - Len(s)]
      <4>1. i - Len(s) = k
        BY <1>2, <3>1, <3>3
      <4>2. i \in Int /\ Len(s) \in Int /\ k \in Int
        BY <1>1, <3>1
      <4>3. i = Len(s) + k
        BY <4>1, <4>2
      <4> QED
        BY <4>3
    <3> QED
      BY <1>1, <3>1, <3>2, <3>3
  <2>2. K \subseteq L
    BY <1>1
  <2>3. Len(s) + k \in L
    BY <1>1, <1>2
  <2> QED
    BY <2>1, <2>2, <2>3
<1>6. Cardinality(L) = Cardinality(K) + 1 /\ Cardinality(K) \in Nat
  BY <1>3, <1>4, <1>5, FS_AddElement, FS_CardinalityType
<1> QED
  BY <1>6 DEF Times, st

LEMMA NextExitInv == Base /\ ExitInv /\ [Next]_vars => ExitInv'
<1> SUFFICES ASSUME Base, ExitInv, [Next]_vars, program = "exit"
             PROVE  /\ (Times("main", out) = Cardinality(Flushed))'
                    /\ \A p \in Proc : Words(p)' /\ Wrote(p)'
  BY ProgramStays DEF ExitInv
<1>a. /\ pc \in [Proc -> {"unborn", "atexit1", "atexit2", "main", "fork", "print",
                          "start", "created", "wait", "waitpid", "complete",
                          "exec", "command", "exit", "exited", "killed"}]
      /\ out \in Seq(Text) /\ buf \in [Proc -> Seq(Text)]
      /\ handlers \in [Proc -> Seq(Handler)]
      /\ left \in [Proc -> Nat] /\ \A p \in Proc : left[p] <= Len(handlers[p])
  BY DEF Base, TypeOK
<1>b. "parent" \in Proc /\ "child" \in Proc /\ Proc = {"parent", "child"}
  BY DEF Proc
<1>c. /\ pc["parent"] \in {"atexit1", "atexit2", "main", "fork", "print", "exit", "exited",
                           "killed"}
      /\ pc["child"] \in {"unborn", "print", "exit", "exited", "killed"}
      /\ pc["parent"] \in {"atexit1", "atexit2", "main", "start", "fork"} =>
           pc["child"] = "unborn"
  BY DEF Base, Places
<1>d. \A p \in Proc : Words(p) /\ Wrote(p)
  BY DEF ExitInv
<1>e. Times("main", out) = Cardinality(Flushed)
  BY DEF ExitInv
<1>f. /\ \A x \in Handler \cup Message : x \notin Proc
      /\ \A x \in Proc \cup Handler : x # "main"
      /\ Handler \subseteq Text /\ Message \subseteq Text /\ Proc \subseteq Text /\ "main" \in Message
  BY Texts DEF Handler, Message, Proc
\* A step that writes nothing.
<1>1. ASSUME UNCHANGED out,
             \A p \in Proc : pc'[p] = "exited" <=> pc[p] = "exited",
             \A p \in Proc : pc[p] = "exited" => handlers'[p] = handlers[p],
             \A p \in Proc : Words(p)'
      PROVE  /\ (Times("main", out) = Cardinality(Flushed))'
             /\ \A p \in Proc : Words(p)' /\ Wrote(p)'
  <2>1. Flushed' = Flushed
    BY <1>1 DEF Flushed
  <2>2. (Times("main", out) = Cardinality(Flushed))'
    BY <1>1, <1>e, <2>1 DEF Times
  <2>3. ASSUME NEW p \in Proc
        PROVE  Wrote(p)'
    BY <1>1, <1>d, <2>3 DEF Wrote
  <2> QED
    BY <1>1, <2>2, <2>3
\* A process that takes no part in the step.
<1>2. ASSUME NEW p \in Proc, pc'[p] = pc[p], buf'[p] = buf[p], handlers'[p] = handlers[p],
             left'[p] = left[p]
      PROVE  Words(p)'
  BY <1>2, <1>d DEF Words
\* An error that is printed before the processes part.
<1>3. ASSUME NEW error \in Message, error # "main", Prints("parent", error),
             Range(buf["parent"]) \cap Proc = {}
      PROVE  /\ Range(buf'["parent"]) \cap Proc = {}
             /\ "main" \notin Range(buf["parent"]) => "main" \notin Range(buf'["parent"])
             /\ OneMain(buf["parent"]) => OneMain(buf'["parent"])
             /\ buf'["child"] = buf["child"]
  <2>1. error \in Text /\ error \notin Proc
    BY <1>3, <1>f
  <2>2. buf'["parent"] = Append(buf["parent"], error) /\ buf'["child"] = buf["child"]
    BY <1>3, <1>a, <1>b DEF Prints
  <2>3. Range(buf'["parent"]) = Range(buf["parent"]) \cup {error}
    BY <1>a, <1>b, <2>1, <2>2, AppendSeq
  <2>4. OneMain(buf["parent"]) => OneMain(buf'["parent"])
    BY <1>3, <1>a, <1>b, <2>1, <2>2, MainAppend
  <2> QED
    BY <1>3, <2>1, <2>2, <2>3, <2>4
<1>4. CASE Register1 \/ Register2
  <2>1. /\ pc["parent"] \in {"atexit1", "atexit2"} /\ pc'["parent"] \in {"atexit2", "main"}
        /\ pc'["child"] = pc["child"] /\ UNCHANGED out
    BY <1>4, <1>a, <1>b DEF Register1, Register2, Goto
  <2>2. PICK h \in Handler, error \in Message : error # "main" /\ AtExit(h, error)
    BY <1>4 DEF Register1, Register2, Handler, Message
  <2>3. /\ "main" \notin Range(buf["parent"]) /\ Range(buf["parent"]) \cap Proc = {}
        /\ left["parent"] = Len(handlers["parent"])
    BY <1>b, <1>d, <2>1 DEF Words
  <2>4. /\ "main" \notin Range(buf'["parent"]) /\ Range(buf'["parent"]) \cap Proc = {}
        /\ left'["parent"] = Len(handlers'["parent"])
        /\ buf'["child"] = buf["child"] /\ handlers'["child"] = handlers["child"]
        /\ left'["child"] = left["child"]
    <3>1. CASE /\ handlers' = [handlers EXCEPT !["parent"] = Append(@, h)]
               /\ left' = [left EXCEPT !["parent"] = @ + 1]
               /\ UNCHANGED buf
      <4>1. Len(Append(handlers["parent"], h)) = Len(handlers["parent"]) + 1
        BY <1>a, <1>b
      <4> QED
        BY <1>a, <1>b, <2>3, <3>1, <4>1
    <3>2. CASE Prints("parent", error) /\ UNCHANGED <<handlers, left>>
      BY <1>3, <2>2, <2>3, <3>2
    <3> QED
      BY <2>2, <3>1, <3>2 DEF AtExit
  <2>5. Words("parent")' /\ Words("child")'
    BY <1>2, <1>b, <2>1, <2>4 DEF Words
  <2> QED
    BY <1>1, <1>b, <1>c, <2>1, <2>4, <2>5
<1>5. CASE PrintMain
  <2>1. /\ pc["parent"] = "main" /\ pc'["parent"] = "fork" /\ pc'["child"] = pc["child"]
        /\ buf'["parent"] = Append(buf["parent"], "main") /\ buf'["child"] = buf["child"]
        /\ UNCHANGED <<handlers, left, out>>
    BY <1>5, <1>a, <1>b DEF PrintMain, Goto, Prints
  <2>2. /\ "main" \notin Range(buf["parent"]) /\ Range(buf["parent"]) \cap Proc = {}
        /\ left["parent"] = Len(handlers["parent"])
    BY <1>b, <1>d, <2>1 DEF Words
  <2>3. "main" \in Text /\ "main" \notin Proc
    BY <1>f
  <2>4. Range(buf'["parent"]) = Range(buf["parent"]) \cup {"main"} /\ OneMain(buf'["parent"])
    BY <1>a, <1>b, <2>1, <2>2, <2>3, AppendSeq, MainAppend
  <2>5. Words("parent")' /\ Words("child")'
    BY <1>2, <1>b, <2>1, <2>2, <2>3, <2>4 DEF Words
  <2> QED
    BY <1>1, <1>b, <2>1, <2>5
<1>6. CASE Fork
  <2>1. /\ pc["parent"] = "fork" /\ pc'["parent"] = "print" /\ pc'["child"] = "print"
        /\ \A p \in Proc : /\ buf'[p] = buf["parent"] /\ handlers'[p] = handlers["parent"]
                           /\ left'[p] = left["parent"]
        /\ UNCHANGED out
    BY <1>6, <1>a, <1>b DEF Fork, AfterFork
  <2>2. \A p \in Proc : Words(p)'
    BY <1>b, <1>d, <2>1 DEF Words
  <2> QED
    BY <1>1, <1>b, <1>c, <2>1, <2>2
<1>7. CASE ForkFails
  <2>1. /\ pc["parent"] = "fork" /\ pc'["parent"] = "exit" /\ pc'["child"] = pc["child"]
        /\ Prints("parent", "ERROR: fork") /\ UNCHANGED <<handlers, left, out>>
    BY <1>7, <1>a, <1>b DEF ForkFails, Goto
  <2>2. /\ OneMain(buf["parent"]) /\ Range(buf["parent"]) \cap Proc = {}
        /\ left["parent"] = Len(handlers["parent"])
    BY <1>b, <1>d, <2>1 DEF Words
  <2>3. "ERROR: fork" \in Message /\ "ERROR: fork" # "main"
    BY DEF Message
  <2>4. /\ Range(buf'["parent"]) \cap Proc = {} /\ OneMain(buf'["parent"])
        /\ buf'["child"] = buf["child"]
    BY <1>3, <2>1, <2>2, <2>3
  <2>5. buf'["parent"] \in Seq(Text)
    BY <1>b, <1>f, <2>1, <2>3, PrintsType DEF Base
  <2>6. Speech("parent", buf'["parent"], handlers["parent"], left["parent"])
    BY <1>a, <1>b, <2>2, <2>4, <2>5, SpeechStarts
  <2>7. Words("parent")' /\ Words("child")'
    BY <1>2, <1>b, <2>1, <2>4, <2>6 DEF Words
  <2> QED
    BY <1>1, <1>b, <2>1, <2>7
<1>8. ASSUME NEW p \in Proc, PrintSelf(p)
      PROVE  /\ (Times("main", out) = Cardinality(Flushed))'
             /\ \A q \in Proc : Words(q)' /\ Wrote(q)'
  <2>1. /\ pc[p] = "print" /\ pc'[p] = "exit" /\ buf'[p] = Append(buf[p], p)
        /\ \A q \in Proc : q # p => pc'[q] = pc[q] /\ buf'[q] = buf[q]
        /\ UNCHANGED <<handlers, left, out>>
    BY <1>8, <1>a DEF PrintSelf, Goto, Prints
  <2>2. OneMain(buf[p]) /\ Range(buf[p]) \cap Proc = {} /\ left[p] = Len(handlers[p])
    BY <1>8, <1>d, <2>1 DEF Words
  <2>3. p \in Text /\ p # "main"
    BY <1>8, <1>f
  <2>4. OneMain(buf'[p])
    BY <1>8, <1>a, <2>1, <2>2, <2>3, MainAppend
  <2>5. Speech(p, buf'[p], handlers[p], left[p])
    BY <1>8, <1>a, <2>1, <2>2, SpeechStarts
  <2>6. Words(p)'
    BY <2>1, <2>4, <2>5 DEF Words
  <2>7. \A q \in Proc : Words(q)'
    BY <1>2, <2>1, <2>6
  <2> QED
    BY <1>1, <1>8, <2>1, <2>7
<1>9. ASSUME NEW p \in Proc, RunHandler(p)
      PROVE  /\ (Times("main", out) = Cardinality(Flushed))'
             /\ \A q \in Proc : Words(q)' /\ Wrote(q)'
  <2> DEFINE l == left[p]
             h == handlers[p]
  <2>1. /\ pc[p] = "exit" /\ l > 0 /\ buf'[p] = Append(buf[p], h[l]) /\ left'[p] = l - 1
        /\ \A q \in Proc : q # p => buf'[q] = buf[q] /\ left'[q] = left[q]
        /\ UNCHANGED <<pc, handlers, out>>
    BY <1>9, <1>a DEF RunHandler, Prints
  <2>2. h \in Seq(Handler) /\ l \in 1 .. Len(h)
    BY <1>9, <1>a, <2>1
  <2>3. OneMain(buf[p]) /\ Speech(p, buf[p], h, l)
    BY <1>9, <1>d, <2>1 DEF Words
  <2> HIDE DEF l, h
  <2>4. h[l] \in Handler
    BY <2>2
  <2>5. h[l] \in Text /\ h[l] # "main"
    BY <1>f, <2>4
  <2>6. OneMain(Append(buf[p], h[l]))
    BY <1>9, <1>a, <2>3, <2>5, MainAppend
  <2>7. Speech(p, Append(buf[p], h[l]), h, l - 1)
    BY <1>9, <1>a, <2>2, <2>3, SpeechGoesOn
  <2>8. Words(p)'
    BY <2>1, <2>6, <2>7 DEF Words, h
  <2>9. \A q \in Proc : Words(q)'
    BY <1>2, <2>1, <2>8
  <2> QED
    BY <1>1, <2>1, <2>9
<1>10. ASSUME NEW p \in Proc, Flush(p)
       PROVE  /\ (Times("main", out) = Cardinality(Flushed))'
              /\ \A q \in Proc : Words(q)' /\ Wrote(q)'
  <2>1. /\ pc[p] = "exit" /\ pc'[p] = "exited" /\ left[p] = 0 /\ out' = out \o buf[p]
        /\ buf'[p] = <<>>
        /\ \A q \in Proc : q # p => pc'[q] = pc[q] /\ buf'[q] = buf[q]
        /\ UNCHANGED <<handlers, left>>
    BY <1>10, <1>a DEF Flush, Goto
  <2>2. OneMain(buf[p]) /\ Speech(p, buf[p], handlers[p], 0)
    BY <1>10, <1>d, <2>1 DEF Words
  <2>3. buf[p] \in Seq(Text) /\ out \in Seq(Text) /\ handlers[p] \in Seq(Handler)
    BY <1>10, <1>a
  <2>4. Words(p)'
    BY <2>1 DEF Words
  <2>5. \A q \in Proc : Words(q)'
    BY <1>2, <2>1, <2>4
  <2>6. (Times("main", out) = Cardinality(Flushed))'
    <3>1. Times("main", out') = Times("main", out) + 1
      BY <2>1, <2>2, <2>3, TimesConcat
    <3>2. Flushed' = Flushed \cup {p} /\ p \notin Flushed
      BY <1>10, <2>1 DEF Flushed
    <3>3. IsFiniteSet(Proc)
      <4>1. IsFiniteSet({"parent"}) /\ Proc = {"parent"} \cup {"child"}
        BY <1>b, FS_Singleton
      <4> QED
        BY <4>1, FS_AddElement
    <3>4. IsFiniteSet(Flushed)
      BY <3>3, FS_Subset DEF Flushed
    <3>5. Cardinality(Flushed \cup {p}) = Cardinality(Flushed) + 1
      BY <3>2, <3>4, FS_AddElement
    <3>6. Cardinality(Flushed') = Cardinality(Flushed) + 1
      BY <3>2, <3>5
    <3>7. Times("main", out') = Cardinality(Flushed')
      BY <1>e, <3>1, <3>6
    <3> QED
      BY <3>7 DEF Times
  <2>7. ASSUME NEW q \in Proc
        PROVE  Wrote(q)'
    <3> SUFFICES ASSUME NEW x \in 1 .. Len(out'), out'[x] = q
                 PROVE  pc'[q] = "exited" /\ Spelt(out', x, handlers'[q])
      BY DEF Wrote
    <3>1. handlers'[q] = handlers[q] /\ handlers[q] \in Seq(Handler)
      BY <1>a, <2>1, <2>7
    <3>2. CASE x \in 1 .. Len(out)
      <4>1. out'[x] = out[x]
        BY <2>1, <2>3, <3>2
      <4>2. pc[q] = "exited" /\ Spelt(out, x, handlers[q])
        BY <1>d, <2>7, <3>2, <4>1 DEF Wrote
      <4>3. Spelt(out \o buf[p], x, handlers[q])
        BY <1>10, <2>3, <3>1, <3>2, <4>2, SpeltConcat
      <4> QED
        BY <2>1, <3>1, <4>2, <4>3
    <3>3. CASE x \notin 1 .. Len(out)
      <4>1. (out \o buf[p])[x] = p /\ Spelt(out \o buf[p], x, handlers[p])
        BY <1>10, <2>1, <2>2, <2>3, <2>7, <3>3, SpeltConcat
      <4> QED
        BY <2>1, <4>1
    <3> QED
      BY <3>2, <3>3
  <2> QED
    BY <2>5, <2>6, <2>7
<1>11. ASSUME NEW p \in Proc, Kill(p)
       PROVE  /\ (Times("main", out) = Cardinality(Flushed))'
              /\ \A q \in Proc : Words(q)' /\ Wrote(q)'
  <2>1. /\ pc[p] # "exited" /\ pc'[p] = "killed"
        /\ \A q \in Proc : q # p => pc'[q] = pc[q]
        /\ UNCHANGED <<buf, handlers, left, out>>
    BY <1>11, <1>a DEF Kill, Ended
  <2>2. Words(p)'
    BY <2>1 DEF Words
  <2>3. \A q \in Proc : Words(q)'
    BY <1>2, <2>1, <2>2
  <2> QED
    BY <1>1, <1>11, <2>1, <2>3
<1>12. CASE Terminated \/ UNCHANGED vars
  <2>1. UNCHANGED <<pc, buf, handlers, left, out>>
    BY <1>12 DEF Terminated, vars
  <2>2. \A p \in Proc : Words(p)'
    BY <1>2, <2>1
  <2> QED
    BY <1>1, <2>1, <2>2
<1>13. ~ (PrintStart \/ ExecFails \/ ExecScriptFails \/ PrintCreated \/ PrintWait \/ WaitPid
          \/ Complete)
  BY <1>a, <1>b, <1>c DEF PrintStart, ExecFails, ExecScriptFails, PrintCreated, PrintWait, WaitPid,
     Complete, Goto
<1>14. ASSUME NEW p \in Proc, ExecSucceeds(p) \/ Command(p)
       PROVE  FALSE
  BY <1>14, <1>b, <1>c DEF ExecSucceeds, Command, Goto
<1> QED
  BY <1>4, <1>5, <1>6, <1>7, <1>8, <1>9, <1>10, <1>11, <1>12, <1>13, <1>14 DEF Next

-----------------------------------------------------------------------------
(* the theorems *)

StdioInv == Base /\ ReachInv /\ ExitInv

LEMMA InitStdioInv == Init => StdioInv
<1> SUFFICES ASSUME Init
             PROVE  StdioInv
  OBVIOUS
<1>1. Base
  BY InitBase
<1>2. /\ pc["parent"] = Entry[program] /\ pc["child"] = "unborn" /\ out = <<>>
      /\ \A p \in Proc : buf[p] = <<>> /\ handlers[p] = <<>> /\ left[p] = 0
      /\ answer = "none" /\ "parent" \in Proc
      /\ program \in {"exit", "exec", "system", "exercise-3"}
  BY DEF Init, Proc, Entry
<1>3. Range(out) = {} /\ Range(buf["parent"]) = {} /\ IsInjective(out) /\ IsInjective(buf["parent"])
      /\ Said = {} /\ Len(out) = 0 /\ 1 .. 0 = {} /\ DOMAIN out = {}
      /\ \A p \in Proc : Range(buf[p]) = {} /\ Len(handlers[p]) = 0
  BY <1>2, NothingInEmpty DEF Said
<1>4. /\ Entry["exit"] = "atexit1" /\ Entry["exec"] = "start" /\ Entry["system"] = "start"
  BY DEF Entry
<1>5. Placed(out)
  BY <1>3 DEF Placed
<1>6. ReachInv
  BY <1>2, <1>3, <1>4, <1>5 DEF ReachInv, Reaches, Answered, Spoken, Once, Ordered
<1>7. ASSUME program = "exit"
      PROVE  /\ Times("main", out) = Cardinality(Flushed)
             /\ \A p \in Proc : Words(p) /\ Wrote(p)
  <2>1. pc["parent"] = "atexit1"
    BY <1>2, <1>4, <1>7
  <2>2. \A p \in Proc : pc[p] \in {"atexit1", "unborn"}
    BY <1>2, <2>1 DEF Proc
  <2>3. Flushed = {} /\ {k \in DOMAIN out : out[k] = "main"} = {}
    BY <1>3, <2>2 DEF Flushed
  <2>4. Times("main", out) = Cardinality(Flushed)
    BY <2>3 DEF Times
  <2>5. \A p \in Proc : Wrote(p)
    BY <1>3 DEF Wrote
  <2>6. \A p \in Proc : Words(p)
    BY <1>2, <1>3, <2>2 DEF Words
  <2> QED
    BY <2>4, <2>5, <2>6
<1> QED
  BY <1>1, <1>6, <1>7 DEF StdioInv, ExitInv

LEMMA NextStdioInv == StdioInv /\ [Next]_vars => StdioInv'
<1> SUFFICES ASSUME StdioInv, [Next]_vars
             PROVE  StdioInv'
  OBVIOUS
<1>1. Base' /\ ExitInv'
  BY NextPlaces, NextTypeOK, NextExitInv DEF StdioInv, Base
<1>2. ASSUME Reaches'
      PROVE  Answered' /\ Spoken' /\ Once' /\ Ordered'
  <2>1. Reaches
    BY <1>2, ProgramStays DEF Reaches
  <2> QED
    BY <2>1, NextAnswered, NextSaid DEF StdioInv, ReachInv
<1> QED
  BY <1>1, <1>2 DEF StdioInv, ReachInv

LEMMA Invariance == Spec => []StdioInv
BY InitStdioInv, NextStdioInv, PTL DEF Spec

\* Type correctness of 25-chap/main.c and of the three programs of 27-chap.
THEOREM TypeCorrect == Spec => []TypeOK
<1>1. StdioInv => TypeOK
  BY DEF StdioInv, Base
<1> QED
  BY <1>1, Invariance, PTL

\* 25-chap: "main", printed before the fork, is written once by every process that
\* leaves through exit(): twice when both do.
THEOREM OncePerExit == Spec => []MainPerExit
<1>1. StdioInv => MainPerExit
  BY DEF StdioInv, ExitInv, MainPerExit
<1> QED
  BY <1>1, Invariance, PTL

\* 25-chap: each process writes its word and the texts of its handlers in one piece, the
\* last registered first, and a process that was killed writes nothing.
THEOREM InOnePiece == Spec => []WholeTranscripts
<1>1. StdioInv => WholeTranscripts
  <2> SUFFICES ASSUME StdioInv, program = "exit", NEW p \in Proc
               PROVE  /\ Contains(out, p) => p \in Flushed
                      /\ \A x \in 1 .. Len(out) : out[x] = p =>
                           SubSeq(out, x, x + Len(handlers[p])) = Transcript(p)
    BY DEF WholeTranscripts
  <2>1. Wrote(p) /\ out \in Seq(Text) /\ handlers[p] \in Seq(Handler)
    BY DEF StdioInv, ExitInv, Base, TypeOK
  <2>2. Contains(out, p) => p \in Flushed
    BY <2>1 DEF Contains, Flushed, Wrote
  <2>3. ASSUME NEW x \in 1 .. Len(out), out[x] = p
        PROVE  SubSeq(out, x, x + Len(handlers[p])) = Transcript(p)
    <3> DEFINE h == handlers[p]
               piece == SubSeq(out, x, x + Len(h))
               rev == Reverse(h)
               all == <<p>> \o rev
    <3>1. Len(h) \in Nat /\ x \in Nat /\ x >= 1 /\ Len(out) \in Nat /\ x + Len(h) <= Len(out)
          /\ \A i \in 1 .. Len(h) : out[x + i] = h[(Len(h) - i) + 1]
      BY <2>1, <2>3 DEF Wrote, Spelt
    <3>2. /\ rev \in Seq(Handler) /\ Len(rev) = Len(h)
          /\ \A i \in 1 .. Len(h) : rev[i] = h[(Len(h) - i) + 1]
      BY <2>1 DEF Reverse
    <3>3. /\ all \in Seq(Text) /\ Len(all) = Len(h) + 1 /\ all[1] = p
          /\ \A i \in 1 .. Len(h) : all[i + 1] = rev[i]
      <4>1. p \in Text /\ Handler \subseteq Text
        BY Texts
      <4>2. <<p>> \in Seq(Text) /\ Len(<<p>>) = 1 /\ <<p>>[1] = p
        BY <4>1, OneSeq
      <4>3. rev \in Seq(Text)
        BY <3>2, <4>1
      <4> HIDE DEF rev
      <4>4. all \in Seq(Text)
        BY <4>2, <4>3, ConcatSeq
      <4> QED
        BY <3>1, <3>2, <4>2, <4>3, <4>4
    <3>4. /\ piece \in Seq(Text) /\ Len(piece) = Len(h) + 1
          /\ \A i \in 1 .. Len(h) + 1 : piece[i] = out[(x + i) - 1]
      BY <2>1, <3>1
    <3> HIDE DEF h, piece, rev, all
    <3>5. \A i \in 1 .. Len(h) + 1 : piece[i] = all[i]
      <4> SUFFICES ASSUME NEW i \in 1 .. Len(h) + 1
                   PROVE  piece[i] = all[i]
        OBVIOUS
      <4>1. CASE i = 1
        BY <2>3, <3>1, <3>3, <3>4, <4>1
      <4>2. CASE i # 1
        <5> DEFINE k == i - 1
        <5>1. k \in 1 .. Len(h) /\ i = k + 1 /\ (x + i) - 1 = x + k
          BY <3>1, <4>2
        <5> HIDE DEF k
        <5> QED
          BY <3>1, <3>2, <3>3, <3>4, <5>1
      <4> QED
        BY <4>1, <4>2
    <3>6. piece = all
      BY <3>3, <3>4, <3>5
    <3> QED
      BY <3>6 DEF piece, all, rev, h, Transcript
  <2> QED
    BY <2>2, <2>3
<1> QED
  BY <1>1, Invariance, PTL

\* 27-chap/exec and 27-chap/system: no line is written twice, and the child's comes after
\* the start and before the verdict on a terminal, first of all in a file.
THEOREM InOrder == Spec => []LinesInOrder
<1>1. StdioInv => LinesInOrder
  BY DEF StdioInv, ReachInv, Reaches, Once, Ordered, Placed, LinesInOrder
<1> QED
  BY <1>1, Invariance, PTL
=============================================================================
