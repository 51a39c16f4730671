------------------------- MODULE Credentials_proofs -------------------------
(***************************************************************************)
(* 9-chap, for all users, owners and groups: the program that gets through *)
(* its four calls has given up what it should, nothing but the first call  *)
(* can fail, and the listing of the groups is complete.                    *)
(***************************************************************************)
EXTENDS Credentials, TLAPS

Triple == [real : Id, effective : Id, saved : Id]

\* Before setuid(0) the identifiers are those of execve(), which saves the
\* effective one; after it the process is privileged until the last call.
Calls ==
  /\ pc = "setuid" => uid = exec /\ exec.saved = exec.effective
  /\ pc \in {"setgid", "setegid", "seteuid"} =>
       /\ uid.real = 0 /\ uid.effective = 0
       /\ exec.effective = 0 => uid = Ids(0)
  /\ pc = "setegid" => gid = Ids(0)
  /\ pc = "seteuid" => gid = Dropped

\* What has been listed is the beginning of group_list.
Listing ==
  /\ Len(listed) <= Len(groups)
  /\ \A k \in 1 .. Len(listed) : listed[k] = groups[k]
  /\ pc = "done" => Len(listed) = Len(groups)
  /\ pc = "crashed" => Len(listed) < Len(groups) /\ groups[Len(listed) + 1] \notin entries

IInv == TypeOK /\ Calls /\ EndsDropped /\ Listing

LEMMA TripleOfIds == \A n \in Id : Ids(n) \in Triple
BY DEF Ids, Triple

LEMMA InitIInv == Init => IInv
<1> SUFFICES ASSUME Init
             PROVE  IInv
  OBVIOUS
<1>1. 0 \in Id
  BY DEF Id
<1>2. groups \in Seq(Groups) /\ Len(groups) \in Nat
  BY DEF Init
<1>3. TypeOK
  <2>1. file \in [owner : {0, Owner}, group : {0, Owner}, setuid : BOOLEAN, setgid : BOOLEAN]
    BY DEF Init
  <2>2. Ids(0) \in Triple
    BY <1>1, TripleOfIds
  <2>3. {uid, gid, exec} \subseteq Triple
    BY <2>2 DEF Init
  <2>4. {groups, listed} \subseteq Seq(Groups)
    BY <1>2 DEF Init
  <2> QED
    BY <2>1, <2>3, <2>4 DEF Init, TypeOK, Triple
<1>4. Calls /\ EndsDropped
  BY DEF Init, Calls, EndsDropped
<1>5. Listing
  BY <1>2 DEF Init, Listing
<1> QED
  BY <1>3, <1>4, <1>5 DEF IInv

-----------------------------------------------------------------------------
LEMMA NextTypeOK == IInv /\ [Next]_vars => TypeOK'
<1> SUFFICES ASSUME IInv, [Next]_vars
             PROVE  TypeOK'
  OBVIOUS
<1>a. TypeOK /\ 0 \in Id /\ Owner \in Id /\ Target \in Id /\ Users \subseteq Id
  BY DEF IInv, Id
<1>b. uid \in Triple /\ gid \in Triple /\ exec \in Triple
  BY <1>a DEF TypeOK, Triple
<1>1. CASE Script
  BY <1>1, <1>a DEF Script, Chown, Chgrp, ChmodU, ChmodG, Line, Process, TypeOK
<1>2. ASSUME NEW user \in Users, Start(user)
      PROVE  TypeOK'
  <2>1. file.owner \in Id /\ file.group \in Id /\ user \in Id
    BY <1>a DEF TypeOK
  <2>2. \A bit \in BOOLEAN : \A id \in Id : Executed(user, bit, id) \in Triple
    BY <2>1 DEF Executed, Triple
  <2>3. file.setuid \in BOOLEAN /\ file.setgid \in BOOLEAN
    BY <1>a DEF TypeOK
  <2>4. uid' \in Triple /\ gid' \in Triple /\ exec' \in Triple
    BY <1>2, <2>1, <2>2, <2>3 DEF Start
  <2> QED
    BY <1>2, <1>a, <2>4 DEF Start, TypeOK, Triple
<1>3. ASSUME NEW a, NEW b, NEW allowed \in BOOLEAN, Step(a, b, allowed),
             b \in {"setgid", "setegid", "seteuid", "print", "list"},
             uid' \in Triple, gid' \in Triple
      PROVE  TypeOK'
  <2>1. pc' = b \/ pc' = "failed"
    BY <1>3 DEF Step
  <2>2. exec' \in Triple
    BY <1>3, <1>b DEF Step
  <2> QED
    BY <1>3, <1>a, <2>1, <2>2 DEF Step, TypeOK, Triple
<1>4. \A ids \in Triple : \A n \in Id :
        SetAll(ids, n) \in Triple /\ [ids EXCEPT !.effective = n] \in Triple
  BY TripleOfIds DEF SetAll, Triple
<1>5. CASE SetUid \/ SetGid \/ SetEgid \/ SetEuid \/ PrintSaved
  <2>1. CASE SetUid
    <3>1. uid' \in Triple /\ gid' \in Triple
      BY <1>4, <1>a, <1>b, <2>1 DEF SetUid
    <3> QED
      BY <1>3, <2>1, <3>1 DEF SetUid, MaySetAll, Privileged
  <2>2. CASE SetGid
    <3>1. uid' \in Triple /\ gid' \in Triple
      BY <1>4, <1>a, <1>b, <2>2 DEF SetGid
    <3> QED
      BY <1>3, <2>2, <3>1 DEF SetGid, MaySetAll, Privileged
  <2>3. CASE SetEgid
    <3>1. uid' \in Triple /\ gid' \in Triple
      BY <1>4, <1>a, <1>b, <2>3 DEF SetEgid
    <3> QED
      BY <1>3, <2>3, <3>1 DEF SetEgid, MaySetEffective, Privileged
  <2>4. CASE SetEuid
    <3>1. uid' \in Triple /\ gid' \in Triple
      BY <1>4, <1>a, <1>b, <2>4 DEF SetEuid
    <3> QED
      BY <1>3, <2>4, <3>1 DEF SetEuid, MaySetEffective, Privileged
  <2>5. CASE PrintSaved
    BY <1>3, <1>b, <2>5 DEF PrintSaved
  <2> QED
    BY <1>5, <2>1, <2>2, <2>3, <2>4, <2>5
<1>6. CASE PrintGroup
  <2>1. pc' \in {"done", "crashed"} \/ pc' = pc
    BY <1>6 DEF PrintGroup
  <2>2. listed' \in Seq(Groups)
    <3>1. CASE listed' = listed
      BY <3>1, <1>a DEF TypeOK
    <3>2. CASE Len(listed) < Len(groups) /\ listed' = Append(listed, groups[Len(listed) + 1])
      <4>1. groups \in Seq(Groups) /\ listed \in Seq(Groups)
        BY <1>a DEF TypeOK
      <4>2. groups[Len(listed) + 1] \in Groups
        BY <4>1, <3>2
      <4> QED
        BY <4>1, <4>2, <3>2
    <3> QED
      BY <1>6, <3>1, <3>2 DEF PrintGroup
  <2> QED
    BY <1>6, <1>a, <2>1, <2>2 DEF PrintGroup, TypeOK
<1>7. ASSUME NEW group \in Groups, DeleteEntry(group)
      PROVE  TypeOK'
  BY <1>7, <1>a DEF DeleteEntry, Process, TypeOK
<1>8. CASE Terminated \/ UNCHANGED vars
  BY <1>8, <1>a DEF Terminated, vars, TypeOK
<1> QED
  BY <1>1, <1>2, <1>5, <1>6, <1>7, <1>8 DEF Next, Main

\* The steps of the script and of the group file leave the calls alone.
LEMMA NextCalls == IInv /\ [Next]_vars => Calls' /\ EndsDropped'
<1> SUFFICES ASSUME IInv, [Next]_vars
             PROVE  Calls' /\ EndsDropped'
  OBVIOUS
<1>a. TypeOK /\ Calls /\ EndsDropped
  BY DEF IInv
<1>b. uid \in Triple /\ gid \in Triple /\ exec \in Triple
  BY <1>a DEF TypeOK, Triple
<1>1. ASSUME UNCHANGED <<pc, uid, gid, exec>>
      PROVE  Calls' /\ EndsDropped'
  BY <1>1, <1>a DEF Calls, EndsDropped
<1>2. CASE Script \/ Terminated \/ UNCHANGED vars \/ \E group \in Groups : DeleteEntry(group)
  BY <1>1, <1>2 DEF Script, Chown, Chgrp, ChmodU, ChmodG, Line, Process, Terminated,
                    DeleteEntry, vars
<1>3. ASSUME NEW user \in Users, Start(user)
      PROVE  Calls' /\ EndsDropped'
  BY <1>3 DEF Start, Executed, Calls, EndsDropped
<1>4. CASE SetUid
  <2>1. uid = exec /\ exec.saved = exec.effective /\ pc = "setuid" /\ exec' = exec
    BY <1>4, <1>a DEF SetUid, Step, Calls
  <2>2. CASE ~MaySetAll(uid, 0)
    BY <1>4, <2>2 DEF SetUid, Step, Calls, EndsDropped
  <2>3. CASE MaySetAll(uid, 0) /\ Privileged
    <3>1. uid' = Ids(0) /\ pc' = "setgid"
      BY <1>4, <2>3 DEF SetUid, Step, SetAll
    <3> QED
      BY <3>1 DEF Ids, Calls, EndsDropped
  <2>4. CASE MaySetAll(uid, 0) /\ ~Privileged
    <3>1. uid.real = 0 /\ exec.effective # 0
      BY <2>1, <2>4 DEF MaySetAll, Privileged
    <3>2. uid' = [uid EXCEPT !.effective = 0] /\ pc' = "setgid"
      BY <1>4, <2>4 DEF SetUid, Step, SetAll
    <3>3. uid'.real = 0 /\ uid'.effective = 0
      BY <1>b, <3>1, <3>2 DEF Triple
    <3> QED
      BY <2>1, <3>1, <3>2, <3>3 DEF Calls, EndsDropped
  <2> QED
    BY <2>2, <2>3, <2>4
<1>5. CASE SetGid
  <2>1. Privileged /\ pc = "setgid" /\ MaySetAll(gid, 0) /\ UNCHANGED <<uid, exec>>
    BY <1>5, <1>a DEF SetGid, Step, Calls, MaySetAll, Privileged
  <2>2. gid' = Ids(0) /\ pc' = "setegid"
    BY <1>5, <2>1 DEF SetGid, Step, SetAll
  <2> QED
    BY <1>a, <2>1, <2>2 DEF Calls, EndsDropped
<1>6. CASE SetEgid
  <2>1. /\ Privileged /\ pc = "setegid" /\ gid = Ids(0) /\ MaySetEffective(gid, Target)
        /\ UNCHANGED <<uid, exec>>
    BY <1>6, <1>a DEF SetEgid, Step, Calls, MaySetEffective, Privileged
  <2>2. gid' = [gid EXCEPT !.effective = Target] /\ pc' = "seteuid"
    BY <1>6, <2>1 DEF SetEgid, Step
  <2>3. gid' = Dropped
    BY <2>1, <2>2 DEF Ids, Dropped
  <2> QED
    BY <1>a, <2>1, <2>2, <2>3 DEF Calls, EndsDropped
<1>7. CASE SetEuid
  <2>1. /\ Privileged /\ pc = "seteuid" /\ gid = Dropped /\ MaySetEffective(uid, Target)
        /\ uid.real = 0 /\ UNCHANGED <<gid, exec>>
        /\ exec.effective = 0 => uid = Ids(0)
    BY <1>7, <1>a DEF SetEuid, Step, Calls, MaySetEffective, Privileged
  <2>2. uid' = [uid EXCEPT !.effective = Target] /\ pc' = "print"
    BY <1>7, <2>1 DEF SetEuid, Step
  <2>3. uid'.real = 0 /\ uid'.effective = Target
    BY <1>b, <2>1, <2>2 DEF Triple
  <2>4. exec'.effective = 0 => uid' = Dropped
    BY <2>1, <2>2 DEF Ids, Dropped
  <2> QED
    BY <2>1, <2>2, <2>3, <2>4 DEF Calls, EndsDropped
<1>8. CASE PrintSaved \/ PrintGroup
  <2>1. /\ pc \in {"print", "list"} /\ pc' \in {"list", "done", "crashed"}
        /\ UNCHANGED <<uid, gid, exec>>
    BY <1>8 DEF PrintSaved, Step, PrintGroup
  <2> QED
    BY <1>a, <2>1 DEF Calls, EndsDropped
<1> QED
  BY <1>2, <1>3, <1>4, <1>5, <1>6, <1>7, <1>8 DEF Next, Main

LEMMA NextListing == IInv /\ [Next]_vars => Listing'
<1> SUFFICES ASSUME IInv, [Next]_vars
             PROVE  Listing'
  OBVIOUS
<1>a. Listing /\ groups \in Seq(Groups) /\ listed \in Seq(Groups)
  BY DEF IInv, TypeOK
<1>1. ASSUME UNCHANGED <<groups, listed>>, entries' \subseteq entries,
             pc' = pc \/ pc' \notin {"done", "crashed"}
      PROVE  Listing'
  BY <1>1, <1>a DEF Listing
<1>2. CASE Script \/ Terminated \/ UNCHANGED vars \/ \E group \in Groups : DeleteEntry(group)
  BY <1>1, <1>2 DEF Script, Chown, Chgrp, ChmodU, ChmodG, Line, Process, Terminated,
                    DeleteEntry, vars
<1>3. CASE \E user \in Users : Start(user)
  BY <1>1, <1>3 DEF Start
<1>4. CASE SetUid \/ SetGid \/ SetEgid \/ SetEuid \/ PrintSaved
  BY <1>1, <1>4 DEF SetUid, SetGid, SetEgid, SetEuid, PrintSaved, Step
<1>5. CASE PrintGroup
  <2> DEFINE n == Len(listed)
  <2>1. n \in Nat /\ Len(groups) \in Nat /\ n <= Len(groups)
    BY <1>a DEF Listing
  <2>2. CASE n = Len(groups) /\ pc' = "done" /\ UNCHANGED listed
    BY <1>5, <1>a, <2>2 DEF PrintGroup, Listing
  <2>3. CASE n < Len(groups) /\ pc = "list" /\ pc' = pc
             /\ listed' = Append(listed, groups[n + 1])
    <3>1. groups[n + 1] \in Groups
      BY <1>a, <2>1, <2>3
    <3>2. Len(listed') = n + 1 /\ listed'[n + 1] = groups[n + 1]
      BY <1>a, <2>3, <3>1
    <3>3. \A k \in 1 .. n : listed'[k] = listed[k]
      BY <1>a, <2>3, <3>1
    <3>4. \A k \in 1 .. n + 1 : listed'[k] = groups[k]
      BY <1>a, <2>1, <3>2, <3>3 DEF Listing
    <3>5. groups' = groups
      BY <1>5 DEF PrintGroup
    <3> QED
      BY <2>1, <2>3, <3>2, <3>4, <3>5 DEF Listing
  <2>4. CASE n < Len(groups) /\ groups[n + 1] \notin entries /\ pc' = "crashed"
             /\ UNCHANGED listed
    BY <1>5, <1>a, <2>4 DEF PrintGroup, Listing
  <2> QED
    BY <1>5, <2>2, <2>3, <2>4 DEF PrintGroup
<1> QED
  BY <1>2, <1>3, <1>4, <1>5 DEF Next, Main

-----------------------------------------------------------------------------
THEOREM Inductive == Spec => []IInv
<1>1. IInv /\ [Next]_vars => IInv'
  BY NextTypeOK, NextCalls, NextListing DEF IInv
<1> QED
  BY InitIInv, <1>1, PTL DEF Spec

\* The identifiers of the process are those of a user, of the owner, of root or
\* of Target at every moment.
THEOREM TypeCorrect == Spec => []TypeOK
<1>1. IInv => TypeOK
  BY DEF IInv
<1> QED
  BY Inductive, <1>1, PTL

\* Whoever starts the program, at whatever point of the script: after the four
\* calls root is left as the real and Target as the effective identifier.
THEOREM PrivilegeDropped == Spec => []EndsDropped
<1>1. IInv => EndsDropped
  BY DEF IInv
<1> QED
  BY Inductive, <1>1, PTL

\* The order of the four calls is one in which only the first can fail.
THEOREM OneCallFails == Spec => OnlySetuidFails
<1>1. IInv /\ [Next]_vars => [(pc' = "failed" => pc \in {"setuid", "failed"})]_vars
  <2> SUFFICES ASSUME IInv, [Next]_vars, pc' = "failed", pc # "failed"
               PROVE  pc = "setuid"
    OBVIOUS
  <2>1. pc \in {"setgid", "setegid", "seteuid"} => Privileged
    BY DEF IInv, Calls, Privileged
  <2>2. CASE Script \/ Terminated \/ UNCHANGED vars \/ \E group \in Groups : DeleteEntry(group)
    BY <2>2 DEF Script, Chown, Chgrp, ChmodU, ChmodG, Line, Process, Terminated,
                DeleteEntry, vars
  <2>3. CASE SetGid \/ SetEgid \/ SetEuid \/ PrintSaved
    BY <2>1, <2>3 DEF SetGid, SetEgid, SetEuid, PrintSaved, Step, MaySetAll, MaySetEffective
  <2>4. CASE PrintGroup \/ \E user \in Users : Start(user)
    BY <2>4 DEF PrintGroup, Start
  <2>5. CASE SetUid
    BY <2>5 DEF SetUid, Step
  <2> QED
    BY <2>2, <2>3, <2>4, <2>5 DEF Next, Main
<1> QED
  BY Inductive, <1>1, PTL DEF Spec, OnlySetuidFails

\* A program that ends has listed every group of the process, and one that does
\* not has met a group whose entry was not there.
THEOREM ListingComplete == Spec => []GroupsListed
<1>1. IInv => GroupsListed
  <2> SUFFICES ASSUME IInv
               PROVE  GroupsListed
    OBVIOUS
  <2>1. Listing /\ groups \in Seq(Groups) /\ listed \in Seq(Groups)
    BY DEF IInv, TypeOK
  <2>2. pc = "done" => listed = groups
    BY <2>1 DEF Listing
  <2>3. pc = "crashed" => groups[Len(listed) + 1] \in Deleted
    BY <2>1 DEF Listing, Deleted
  <2> QED
    BY <2>2, <2>3 DEF GroupsListed
<1> QED
  BY Inductive, <1>1, PTL

-----------------------------------------------------------------------------
\* Where no line has failed, each line of the script finds what those before it
\* have done: the owner is changed before the s-bit is set.
Armed ==
  ~faulted =>
    /\ script # "chown" => file.owner = 0
    /\ script \in {"chmod g+s", "end"} => file.setuid

LEMMA NextArmed == TypeOK /\ Armed /\ [Next]_vars => Armed'
<1> SUFFICES ASSUME TypeOK, Armed, [Next]_vars
             PROVE  Armed'
  OBVIOUS
<1>a. /\ file \in [owner : {0, Owner}, group : {0, Owner}, setuid : BOOLEAN, setgid : BOOLEAN]
      /\ script \in {"chown", "chgrp", "chmod u+s", "chmod g+s", "end"}
  BY DEF TypeOK
<1>1. CASE Chown
  BY <1>1, <1>a DEF Chown, Line, Armed
<1>2. CASE Chgrp
  BY <1>2, <1>a DEF Chgrp, Line, Armed
<1>3. CASE ChmodU
  BY <1>3, <1>a DEF ChmodU, Line, Armed
<1>4. CASE ChmodG
  BY <1>4, <1>a DEF ChmodG, Line, Armed
<1>5. CASE UNCHANGED <<script, file, faulted>>
  BY <1>5 DEF Armed
<1>6. CASE Main
  BY <1>5, <1>6 DEF Main, SetUid, SetGid, SetEgid, SetEuid, PrintSaved, PrintGroup, Step
<1>7. CASE \E user \in Users : Start(user)
  BY <1>5, <1>7 DEF Start
<1>8. CASE Terminated \/ UNCHANGED vars \/ \E group \in Groups : DeleteEntry(group)
  BY <1>5, <1>8 DEF Terminated, vars, DeleteEntry
<1> QED
  BY <1>1, <1>2, <1>3, <1>4, <1>6, <1>7, <1>8 DEF Next, Script

LEMMA ArmedInvariance == Spec => [](IInv /\ Armed)
<1>1. Init => Armed
  BY DEF Init, Armed
<1>2. IInv => TypeOK
  BY DEF IInv
<1> QED
  BY Inductive, NextArmed, <1>1, <1>2, PTL DEF Spec

\* The executable is root's and set-user-ID, nothing will change it any more, and
\* the process has not failed: before its first call it is privileged.
Works ==
  /\ script = "end" /\ file.owner = 0 /\ file.setuid
  /\ pc # "failed"
  /\ pc = "setuid" => Privileged

LEMMA WorksOn == IInv /\ Works /\ [Next]_vars => Works'
<1> SUFFICES ASSUME IInv, Works, [Next]_vars
             PROVE  Works'
  OBVIOUS
<1>a. pc \in {"setuid", "setgid", "setegid", "seteuid"} => Privileged
  BY DEF IInv, Calls, Works, Privileged
<1>1. CASE Script
  BY <1>1 DEF Script, Chown, Chgrp, ChmodU, ChmodG, Line, Works
<1>2. CASE SetUid \/ SetGid \/ SetEgid \/ SetEuid \/ PrintSaved
  <2>1. pc' \in {"setgid", "setegid", "seteuid", "print", "list"} /\ UNCHANGED <<script, file>>
    BY <1>a, <1>2 DEF SetUid, SetGid, SetEgid, SetEuid, PrintSaved, Step, MaySetAll,
                      MaySetEffective
  <2> QED
    BY <2>1 DEF Works
<1>3. CASE PrintGroup
  BY <1>3 DEF PrintGroup, Works
<1>4. ASSUME NEW user \in Users, Start(user)
      PROVE  Works'
  <2>1. uid'.effective = 0 /\ pc' = "setuid" /\ UNCHANGED <<script, file>>
    BY <1>4 DEF Start, Executed, Works
  <2> QED
    BY <2>1 DEF Works, Privileged
<1>5. CASE Terminated \/ UNCHANGED vars \/ \E group \in Groups : DeleteEntry(group)
  BY <1>5 DEF Terminated, vars, DeleteEntry, Process, Works, Privileged
<1> QED
  BY <1>1, <1>2, <1>3, <1>4, <1>5 DEF Next, Main

\* Once update-priv.sh has run without a fault, whoever starts the program: it
\* never fails again, for every user, owner and target.
THEOREM WorksForEverybody == Spec => ArmedWorks
<1>1. Armed /\ script = "end" /\ pc = "none" /\ ~faulted => Works
  BY DEF Armed, Works
<1>2. Works => pc # "failed"
  BY DEF Works
<1> QED
  BY ArmedInvariance, WorksOn, <1>1, <1>2, PTL DEF Spec, ArmedWorks
=============================================================================
