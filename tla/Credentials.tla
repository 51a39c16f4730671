---------------------------- MODULE Credentials -----------------------------
(***************************************************************************)
(* 9-chap: update-priv.sh gives the executable to root and sets its        *)
(* set-user-ID and set-group-ID bits; main.c, started by any user and at   *)
(* any time, makes itself root, gives up its effective identifiers and     *)
(* lists the supplementary groups it was started with.                     *)
(*                                                                         *)
(* The kernel's part (execve, chown and the set*id calls) is modelled by   *)
(* what credentials(7) and chown(2) say of Linux, as far as the program    *)
(* uses it.  A user and his group have the same number; root is 0.         *)
(***************************************************************************)
EXTENDS Integers, Sequences

CONSTANTS
  Users,    \* the users who may start the program
  Owner,    \* the user who has compiled it
  Target,   \* the identifier it is to run as (1000 in the code)
  Groups,   \* the supplementary groups that a user may have
  Faults    \* "sudo": a line of the script may fail; "groupdel": somebody
            \* deletes the entry of a group in /etc/group

ASSUME UsersAssumption == Users \subseteq Nat
ASSUME OwnerAssumption == Owner \in Nat
ASSUME TargetAssumption == Target \in Nat \ {0}
ASSUME FaultsAssumption == Faults \subseteq {"sudo", "groupdel"}

VARIABLES
  script,   \* the next line of update-priv.sh
  file,     \* owner, group and mode bits of the executable
  pc,       \* where main() stands
  uid,      \* real, effective and saved user-ID of the process
  gid,      \* real, effective and saved group-ID
  exec,     \* the user-IDs that execve() gave to the process
  groups,   \* group_list
  listed,   \* the groups it has printed
  entries,  \* the groups that have an entry in /etc/group
  faulted   \* history: has a line of the script failed?

vars == <<script, file, pc, uid, gid, exec, groups, listed, entries, faulted>>
Process == <<pc, uid, gid, exec, groups, listed>>

Ids(n) == [real |-> n, effective |-> n, saved |-> n]
Id     == Users \cup {0, Owner, Target}

TypeOK ==
  /\ script \in {"chown", "chgrp", "chmod u+s", "chmod g+s", "end"}
  /\ file \in [owner : {0, Owner}, group : {0, Owner}, setuid : BOOLEAN, setgid : BOOLEAN]
  /\ pc \in {"none", "setuid", "setgid", "setegid", "seteuid", "print", "list",
            "done", "failed", "crashed"}
  /\ {uid, gid, exec} \subseteq [real : Id, effective : Id, saved : Id]
  /\ {groups, listed} \subseteq Seq(Groups)
  /\ entries \subseteq Groups
  /\ faulted \in BOOLEAN

Init ==
  /\ script = "chown"
  /\ file = [owner |-> Owner, group |-> Owner, setuid |-> FALSE, setgid |-> FALSE]
  /\ pc = "none"
  /\ uid = Ids(0)
  /\ gid = Ids(0)
  /\ exec = Ids(0)
  /\ \E n \in 0 .. 2 : groups \in [1 .. n -> Groups]
  /\ listed = <<>>
  /\ entries \in SUBSET Groups
  /\ faulted = FALSE

-----------------------------------------------------------------------------
(* update-priv.sh: a line that fails does not stop the script.             *)

Line(this, next, changed) ==
  /\ script = this
  /\ script' = next
  /\ \/ file' = changed /\ UNCHANGED faulted
     \/ "sudo" \in Faults /\ faulted' = TRUE /\ UNCHANGED file
  /\ UNCHANGED <<Process, entries>>

\* A change of owner or group of an executable takes its s-bits away.
Chown == Line("chown", "chgrp",
              [file EXCEPT !.owner = 0, !.setuid = FALSE, !.setgid = FALSE])
Chgrp == Line("chgrp", "chmod u+s",
              [file EXCEPT !.group = 0, !.setuid = FALSE, !.setgid = FALSE])
\* Mutant: chmod g+s twice.
MutantChmodU == Line("chmod u+s", "chmod g+s", [file EXCEPT !.setgid = TRUE])

ChmodU == Line("chmod u+s", "chmod g+s", [file EXCEPT !.setuid = TRUE])
ChmodG == Line("chmod g+s", "end", [file EXCEPT !.setgid = TRUE])

-----------------------------------------------------------------------------
(* main.c.                                                                 *)

\* execve(): the effective identifier comes from the file where its bit is
\* set, and is saved.
Executed(user, bit, id) ==
  LET effective == IF bit THEN id ELSE user
  IN  [real |-> user, effective |-> effective, saved |-> effective]

Start(user) ==
  /\ pc = "none"
  /\ pc' = "setuid"
  /\ uid' = Executed(user, file.setuid, file.owner)
  /\ gid' = Executed(user, file.setgid, file.group)
  /\ exec' = uid'
  /\ UNCHANGED <<script, file, groups, listed, entries, faulted>>

Privileged == uid.effective = 0

\* setuid(n) and setgid(n): root changes all three identifiers, others only
\* the effective one, and only to the real or the saved one.
SetAll(ids, n) ==
  IF Privileged THEN Ids(n) ELSE [ids EXCEPT !.effective = n]

MaySetAll(ids, n) == Privileged \/ n \in {ids.real, ids.saved}

\* seteuid(n) and setegid(n).
MaySetEffective(ids, n) == Privileged \/ n \in {ids.real, ids.effective, ids.saved}

Step(a, b, allowed) ==
  /\ pc = a
  /\ pc' = IF allowed THEN b ELSE "failed"
  /\ UNCHANGED <<script, file, exec, groups, listed, entries, faulted>>

\* Mutant: setuid() is called with the unprivileged user.
MutantSetUid ==
  /\ Step("setuid", "setgid", MaySetAll(uid, Target))
  /\ uid' = IF MaySetAll(uid, Target) THEN SetAll(uid, Target) ELSE uid
  /\ UNCHANGED gid

SetUid ==
  /\ Step("setuid", "setgid", MaySetAll(uid, 0))
  /\ uid' = IF MaySetAll(uid, 0) THEN SetAll(uid, 0) ELSE uid
  /\ UNCHANGED gid

\* Mutant: setegid(0) in the place of setgid(0).
MutantSetGid ==
  /\ Step("setgid", "setegid", MaySetEffective(gid, 0))
  /\ gid' = IF MaySetEffective(gid, 0) THEN [gid EXCEPT !.effective = 0] ELSE gid
  /\ UNCHANGED uid

SetGid ==
  /\ Step("setgid", "setegid", MaySetAll(gid, 0))
  /\ gid' = IF MaySetAll(gid, 0) THEN SetAll(gid, 0) ELSE gid
  /\ UNCHANGED uid

SetEgid ==
  /\ Step("setegid", "seteuid", MaySetEffective(gid, Target))
  /\ gid' = IF MaySetEffective(gid, Target) THEN [gid EXCEPT !.effective = Target] ELSE gid
  /\ UNCHANGED uid

SetEuid ==
  /\ Step("seteuid", "print", MaySetEffective(uid, Target))
  /\ uid' = IF MaySetEffective(uid, Target) THEN [uid EXCEPT !.effective = Target] ELSE uid
  /\ UNCHANGED gid

\* The identifiers are printed; the lines "Saved user-ID" and "Saved group-ID"
\* print geteuid() and getegid().  getgroups() fills group_list.
PrintSaved ==
  /\ Step("print", "list", TRUE)
  /\ UNCHANGED <<uid, gid>>

\* Mutant: the last group is left out.
MutantPrintGroup ==
  /\ pc = "list"
  /\ \/ Len(listed) >= Len(groups) - 1 /\ pc' = "done" /\ UNCHANGED listed
     \/ /\ Len(listed) < Len(groups) - 1
        /\ listed' = Append(listed, groups[Len(listed) + 1])
        /\ UNCHANGED pc
  /\ UNCHANGED <<script, file, uid, gid, exec, groups, entries, faulted>>

\* One turn of the loop over group_list, or its end.  getgrgid() returns NULL
\* for a group without an entry, and the program reads through that pointer.
PrintGroup ==
  /\ pc = "list"
  /\ \/ /\ Len(listed) = Len(groups)
        /\ pc' = "done"
        /\ UNCHANGED listed
     \/ /\ Len(listed) < Len(groups)
        /\ LET group == groups[Len(listed) + 1] IN
           \/ /\ group \in entries
              /\ listed' = Append(listed, group)
              /\ UNCHANGED pc
           \/ /\ group \notin entries
              /\ pc' = "crashed"
              /\ UNCHANGED listed
  /\ UNCHANGED <<script, file, uid, gid, exec, groups, entries, faulted>>

\* Somebody deletes a group.
DeleteEntry(group) ==
  /\ "groupdel" \in Faults
  /\ group \in entries
  /\ entries' = entries \ {group}
  /\ UNCHANGED <<script, file, Process, faulted>>

Script == Chown \/ Chgrp \/ ChmodU \/ ChmodG
Main   == SetUid \/ SetGid \/ SetEgid \/ SetEuid \/ PrintSaved \/ PrintGroup

\* The script is at its end and the process too.
Terminated ==
  /\ script = "end"
  /\ pc \in {"done", "failed", "crashed"}
  /\ UNCHANGED vars

Next ==
  \/ Script \/ Main
  \/ \E user \in Users : Start(user)
  \/ \E group \in Groups : DeleteEntry(group)
  \/ Terminated

Spec == Init /\ [][Next]_vars

-----------------------------------------------------------------------------
Dropped == [real |-> 0, effective |-> Target, saved |-> 0]

\* Whoever has started it and whatever the script has done so far, a process
\* that gets through the four calls is left with root as its real and Target
\* as its effective user and group.  The saved user-ID is root's too, so that
\* it can become root again, except where root himself has started a file
\* that is set-user-ID to somebody else.
EndsDropped ==
  pc \in {"print", "list", "done", "crashed"} =>
    /\ gid = Dropped
    /\ uid.real = 0 /\ uid.effective = Target
    /\ exec.effective = 0 => uid = Dropped

\* Nothing but the first call can fail: once setuid(0) has succeeded the
\* process is privileged for the other three, in this order.
OnlySetuidFails ==
  [][(pc' = "failed" => pc \in {"setuid", "failed"})]_vars

\* Once the script has run without a fault the executable works for everybody
\* who starts it: the bits have survived the changes of owner and group.
ArmedWorks ==
  [](script = "end" /\ pc = "none" /\ ~faulted => [](pc # "failed"))

Deleted == {groups[k] : k \in DOMAIN groups} \ entries

\* "Print the suppliementary group IDs": a program that ends has listed all its
\* groups, in order, and only one that has a group without an entry does not
\* get to its end, whenever that entry was deleted.
GroupsListed ==
  /\ pc = "done" => listed = groups
  /\ pc = "crashed" => Deleted # {} /\ groups[Len(listed) + 1] \in Deleted
=============================================================================
