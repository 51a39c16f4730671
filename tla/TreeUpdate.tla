----------------------------- MODULE TreeUpdate -----------------------------
(***************************************************************************)
(* 18-chap/main/main.c: the program makes a small tree of directories and  *)
(* files, walks it with nftw() to append a mark to every file, and then    *)
(* changes its working and its root directory.  It may be killed, fail at  *)
(* any call, and be started again over what an earlier run has left.       *)
(*                                                                         *)
(* nftw() is the C library's: it takes the status of an entry, hands it to *)
(* nftw_fxn(), and stops as soon as the callback returns something else    *)
(* than 0, which it then returns itself.  The order of entries within a    *)
(* directory is not defined; here the walk may meet the files in any       *)
(* order.                                                                  *)
(***************************************************************************)
EXTENDS Integers, Sequences

CONSTANTS
  MaxRuns,    \* bound: how often the program is started
  TreeFaults  \* "mkdir", "fopen", "later" (calls that may fail), "kill",
              \* "unlink" (somebody else removes a file), "full" (what stdio
              \* has buffered does not get into the file)

ASSUME MaxRunsAssumption == MaxRuns \in Nat \ {0}
ASSUME TreeFaultsAssumption ==
  TreeFaults \subseteq {"mkdir", "fopen", "later", "kill", "unlink", "full"}

File == {"file1", "file2", "file3"}

\* The contents of a file are the texts written to it; this stands for no file.
Absent == <<"absent">>

VARIABLES
  place,   \* where main() stands
  runs,    \* how often the program has been started
  dirs,    \* the directories that exist
  data,    \* the contents of each file, as the texts written to it, or Absent
  todo,    \* the files that nftw() has still to meet
  file,    \* the file that is open or has been handed to nftw_fxn()
  cwd,     \* the working directory of the process
  root,    \* its root directory
  stopped, \* history: has the callback returned an error in this run?
  lost     \* history: the files whose mark fclose() could not write in this run

treeVars == <<place, runs, dirs, data, todo, file, cwd, root, stopped, lost>>

TreeTypeOK ==
  /\ place \in {"idle", "mkdir1", "mkdir2", "create", "write", "walk", "callback",
             "append", "links", "chdir", "chroot", "done", "failed", "killed"}
  /\ runs \in 0 .. MaxRuns
  /\ dirs \subseteq {"dir", "sub_dir"}
  /\ data \in [File -> Seq({"text", "updated", "absent"})]
  /\ todo \subseteq File
  /\ file \in File
  /\ cwd \in {"main", "dir"}
  /\ root \in {"/", "/etc"}
  /\ stopped \in BOOLEAN
  /\ lost \subseteq File

TreeInit ==
  /\ place = "idle"
  /\ runs = 0
  /\ dirs = {}
  /\ data = [f \in File |-> Absent]
  /\ todo = {}
  /\ file = "file1"
  /\ cwd = "main"
  /\ root = "/"
  /\ stopped = FALSE
  /\ lost = {}

NotRunning == place \in {"idle", "done", "failed", "killed"}

\* ./main is started, the first time or again.
StartAgain ==
  /\ NotRunning
  /\ runs < MaxRuns
  /\ runs' = runs + 1
  /\ place' = "mkdir1"
  /\ file' = "file1"
  /\ cwd' = "main" /\ root' = "/"
  /\ stopped' = FALSE
  /\ lost' = {}
  /\ UNCHANGED <<dirs, data, todo>>

\* rm -rf dir/, which the head of the file asks for before each start.
Clean ==
  /\ NotRunning
  /\ dirs # {}
  /\ dirs' = {}
  /\ data' = [f \in File |-> Absent]
  /\ UNCHANGED <<place, runs, todo, file, cwd, root, stopped, lost>>

\* Mutant: an existing directory is used as it is.
MutantMkdir(at, dir, next) ==
  /\ place = at
  /\ dirs' = dirs \cup {dir}
  /\ place' = next
  /\ UNCHANGED <<runs, data, todo, file, cwd, root, stopped, lost>>

\* mkdir() fails where the directory exists.
Mkdir(at, dir, next) ==
  /\ place = at
  /\ \/ /\ dir \notin dirs
        /\ dirs' = dirs \cup {dir}
        /\ place' = next
     \/ /\ dir \in dirs \/ "mkdir" \in TreeFaults
        /\ place' = "failed"
        /\ UNCHANGED dirs
  /\ UNCHANGED <<runs, data, todo, file, cwd, root, stopped, lost>>

MakeDir    == Mkdir("mkdir1", "dir", "mkdir2")
MakeSubDir == Mkdir("mkdir2", "sub_dir", "create")

\* fopen(..., "w") makes the file, or empties it.
Create ==
  /\ place = "create"
  /\ \/ /\ data' = [data EXCEPT ![file] = <<>>]
        /\ place' = "write"
     \/ /\ "fopen" \in TreeFaults
        /\ place' = "failed"
        /\ UNCHANGED data
  /\ UNCHANGED <<runs, dirs, todo, file, cwd, root, stopped, lost>>

NextFile == [f \in File |-> CASE f = "file1" -> "file2" [] OTHER -> "file3"]

\* fprintf() fills the stdio buffer and fclose() writes it out, and the results
\* of both are thrown away: the text gets into the file f, or, as on a full
\* disk, it does not.  It is shorter than a block, so it does so as a whole.  A
\* file that has been unlinked meanwhile takes the text with it.
Closes(f, text) ==
  data' = [data EXCEPT ![f] = IF @ = Absent THEN Absent ELSE Append(@, text)]
CloseFails == "full" \in TreeFaults /\ UNCHANGED data

Write ==
  /\ place = "write"
  /\ Closes(file, "text") \/ CloseFails
  /\ IF file = "file3"
       THEN place' = "walk" /\ todo' = File /\ UNCHANGED file
       ELSE place' = "create" /\ file' = NextFile[file] /\ UNCHANGED todo
  /\ UNCHANGED <<runs, dirs, cwd, root, stopped, lost>>

\* Mutants: the walk loses an entry; it meets an entry again and again.
MutantVisitLoses(f) ==
  /\ place = "walk"
  /\ f \in todo
  /\ todo' = todo \ {f, "file2"}
  /\ file' = f
  /\ place' = IF data[f] = Absent THEN "walk" ELSE "callback"
  /\ UNCHANGED <<runs, dirs, data, cwd, root, stopped, lost>>

MutantVisitAgain(f) ==
  /\ place = "walk"
  /\ f \in todo
  /\ \E rest \in {todo, todo \ {f}} : todo' = rest
  /\ file' = f
  /\ place' = IF data[f] = Absent THEN "walk" ELSE "callback"
  /\ UNCHANGED <<runs, dirs, data, cwd, root, stopped, lost>>

\* nftw() takes the status of its next entry; what is gone is passed over,
\* the callback looking at regular files only.
Visit(f) ==
  /\ place = "walk"
  /\ f \in todo
  /\ todo' = todo \ {f}
  /\ file' = f
  /\ place' = IF data[f] = Absent THEN "walk" ELSE "callback"
  /\ UNCHANGED <<runs, dirs, data, cwd, root, stopped, lost>>

\* fopen(..., "a") in the callback makes a file that is no longer there.  When
\* it fails the callback returns EXIT_FAILURE and nftw() returns that 1: main()
\* compares with -1 and goes on as after a whole walk.
OpenAppend ==
  /\ place = "callback"
  /\ \/ /\ data' = [data EXCEPT ![file] = IF @ = Absent THEN <<>> ELSE @]
        /\ place' = "append"
        /\ UNCHANGED <<todo, stopped, lost>>
     \/ /\ "fopen" \in TreeFaults
        /\ place' = "links"
        /\ todo' = {}
        /\ stopped' = TRUE
        /\ UNCHANGED data
  /\ UNCHANGED <<runs, dirs, file, cwd, root, lost>>

\* fprintf(), fclose() and, whatever has become of the text, return 0.
Update ==
  /\ place = "append"
  /\ \/ Closes(file, "updated") /\ UNCHANGED lost
     \/ CloseFails /\ lost' = lost \cup {file}
  /\ place' = "walk"
  /\ UNCHANGED <<runs, dirs, todo, file, cwd, root, stopped>>

WalkEnds ==
  /\ place = "walk"
  /\ todo = {}
  /\ place' = "links"
  /\ UNCHANGED <<runs, dirs, data, todo, file, cwd, root, stopped, lost>>

\* nftw() itself fails, at any of its entries.
WalkFails ==
  /\ place = "walk"
  /\ "later" \in TreeFaults
  /\ place' = "failed"
  /\ UNCHANGED <<runs, dirs, data, todo, file, cwd, root, stopped, lost>>

LaterFails(at) ==
  /\ place = at
  /\ "later" \in TreeFaults
  /\ place' = "failed"
  /\ UNCHANGED <<runs, dirs, data, todo, file, cwd, root, stopped, lost>>

\* strdup(), readlink() and getcwd() only print.
PrintNames ==
  \/ LaterFails("links")
  \/ /\ place = "links"
     /\ place' = "chdir"
     /\ UNCHANGED <<runs, dirs, data, todo, file, cwd, root, stopped, lost>>

\* chdir(); the getcwd() and the fopen() behind it may still fail.
ChangeDir ==
  \/ LaterFails("chdir")
  \/ /\ place = "chdir"
     /\ cwd' = "dir"
     /\ place' = "chroot" \/ ("later" \in TreeFaults /\ place' = "failed")
     /\ UNCHANGED <<runs, dirs, data, todo, file, root, stopped, lost>>

\* chroot(); the fopen() behind it may still fail.
ChangeRoot ==
  \/ LaterFails("chroot")
  \/ /\ place = "chroot"
     /\ root' = "/etc"
     /\ place' = "done" \/ ("later" \in TreeFaults /\ place' = "failed")
     /\ UNCHANGED <<runs, dirs, data, todo, file, cwd, stopped, lost>>

Kill ==
  /\ "kill" \in TreeFaults
  /\ ~NotRunning
  /\ place' = "killed"
  /\ UNCHANGED <<runs, dirs, data, todo, file, cwd, root, stopped, lost>>

\* Somebody else removes a file.
Unlink(f) ==
  /\ "unlink" \in TreeFaults
  /\ data[f] # Absent
  /\ data' = [data EXCEPT ![f] = Absent]
  /\ UNCHANGED <<place, runs, dirs, todo, file, cwd, root, stopped, lost>>

TreeMain ==
  \/ MakeDir \/ MakeSubDir \/ Create \/ Write
  \/ (\E f \in File : Visit(f)) \/ OpenAppend \/ Update \/ WalkEnds \/ WalkFails
  \/ PrintNames \/ ChangeDir \/ ChangeRoot

\* The program has been started for the last time and has ended.
AllRunsOver == NotRunning /\ runs = MaxRuns /\ UNCHANGED treeVars

TreeNext ==
  \/ TreeMain
  \/ StartAgain \/ Clean \/ Kill
  \/ \E f \in File : Unlink(f)
  \/ AllRunsOver

TreeSpec == TreeInit /\ [][TreeNext]_treeVars

-----------------------------------------------------------------------------
Updated(f) == data[f] # Absent => "updated" \in {data[f][k] : k \in 1 .. Len(data[f])}
Behind     == place \in {"links", "chdir", "chroot", "done"}

\* "Perform File Tree Walk (nftw) to update all file contents.": when main() has
\* gone on behind the walk, every file of the tree has its mark.
AllUpdated == Behind => \A f \in File : Updated(f)

\* What is true of it: where no callback has returned an error the walk has met
\* every file, and each has its mark but those whose fclose() has failed unseen;
\* also one that was removed in the middle of the walk and made again by the
\* callback.
UpdatedUnlessLost == Behind /\ ~stopped => \A f \in File \ lost : Updated(f)

\* However often the program is started, killed and started again, a file has
\* its text at most once, its mark at most once, and the mark last.
MarkedOnce ==
  \A f \in File :
    data[f] \in {Absent, <<>>, <<"text">>, <<"text", "updated">>, <<"updated">>}

\* The program destroys nothing that an earlier run has left, which only
\* "rm -rf dir/" may do: what a file holds is only ever added to.
Keeps(old, new) == new = Absent \/ (Len(old) <= Len(new) /\ SubSeq(new, 1, Len(old)) = old)
NothingDestroyed ==
  [][\A f \in File : data[f] = Absent \/ Keeps(data[f], data'[f])]_treeVars
=============================================================================
