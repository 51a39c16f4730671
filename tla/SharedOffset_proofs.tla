------------------------ MODULE SharedOffset_proofs -------------------------
(***************************************************************************)
(* tmp1.txt of 24-chap/main.c is a log to which both processes append, for *)
(* every number and length of records, whatever the file held before and   *)
(* whatever write() returns; tmp2.txt is one stream of records laid over   *)
(* another.                                                                *)
(***************************************************************************)
EXTENDS SharedOffset, SequenceTheorems, TLAPS

LEMMA Numbers ==
  /\ N \in Nat \ {0}
  /\ \A p \in Writer : RecordLen[p] \in Nat \ {0}
  /\ \A n \in OldLens : n \in Nat
BY NAssumption, RecordLenAssumption, OldLensAssumption

LEMMA RecordType ==
  ASSUME NEW p \in Writer
  PROVE  /\ Record(p) \in Seq(Byte) /\ Len(Record(p)) = RecordLen[p]
         /\ \A k \in 1 .. RecordLen[p] : Record(p)[k] = [by |-> p, at |-> k]
<1>1. RecordLen[p] \in Nat
  BY Numbers
<1>2. \A k \in 1 .. RecordLen[p] : [by |-> p, at |-> k] \in Byte
  BY <1>1 DEF Byte
<1>3. Record(p) \in [1 .. RecordLen[p] -> Byte]
  BY <1>2 DEF Record
<1> QED
  BY <1>1, <1>3 DEF Record

\* The first k bytes of a record, which is what a write() stores.
LEMMA PieceType ==
  ASSUME NEW p \in Writer, NEW k \in 0 .. RecordLen[p]
  PROVE  /\ SubSeq(Record(p), 1, k) \in Seq(Byte)
         /\ Len(SubSeq(Record(p), 1, k)) = k
         /\ \A i \in 1 .. k : SubSeq(Record(p), 1, k)[i] = [by |-> p, at |-> i]
<1>1. /\ Record(p) \in Seq(Byte) /\ Len(Record(p)) = RecordLen[p] /\ RecordLen[p] \in Nat
      /\ \A i \in 1 .. RecordLen[p] : Record(p)[i] = [by |-> p, at |-> i]
  BY RecordType, Numbers
<1>2. k \in Nat /\ k <= RecordLen[p]
  BY <1>1
<1> HIDE DEF Record
<1>3. SubSeq(Record(p), 1, k) \in Seq(Byte) /\ Len(SubSeq(Record(p), 1, k)) = k
  BY <1>1, <1>2
<1>4. \A i \in 1 .. k : SubSeq(Record(p), 1, k)[i] = Record(p)[i]
  BY <1>1, <1>2
<1> QED
  BY <1>1, <1>2, <1>3, <1>4

\* What Overwrite() leaves, byte by byte.
LEMMA OverwriteGives ==
  ASSUME NEW file \in Seq(Byte), NEW offset \in 0 .. Len(file), NEW data \in Seq(Byte)
  PROVE  LET new == Overwrite(file, offset, data) IN
         /\ new \in Seq(Byte)
         /\ offset + Len(data) \in 0 .. Len(new)
         /\ \A x \in 1 .. offset : new[x] = file[x]
         /\ \A x \in 1 .. Len(data) : new[offset + x] = data[x]
         /\ \A x \in offset + Len(data) + 1 .. Len(new) : x \in 1 .. Len(file) /\ new[x] = file[x]
         /\ Len(file) <= Len(new)
<1> DEFINE front == SubSeq(file, 1, offset)
           back  == SubSeq(file, offset + Len(data) + 1, Len(file))
           new   == Overwrite(file, offset, data)
<1>1. Len(file) \in Nat /\ Len(data) \in Nat /\ offset \in Nat /\ offset <= Len(file)
  BY LenProperties
<1>2. front \in Seq(Byte) /\ Len(front) = offset /\ \A x \in 1 .. offset : front[x] = file[x]
  BY <1>1
<1>3. /\ back \in Seq(Byte) /\ Len(back) \in Nat
      /\ Len(back) = IF offset + Len(data) < Len(file) THEN Len(file) - offset - Len(data) ELSE 0
      /\ \A x \in 1 .. Len(back) : back[x] = file[offset + Len(data) + x]
  BY <1>1
<1>4. new = front \o data \o back
  BY DEF Overwrite
<1> HIDE DEF front, back, new
<1>5. /\ front \o data \in Seq(Byte) /\ Len(front \o data) = offset + Len(data)
      /\ \A x \in 1 .. offset : (front \o data)[x] = front[x]
      /\ \A x \in 1 .. Len(data) : (front \o data)[offset + x] = data[x]
  BY <1>1, <1>2
<1>6. /\ new \in Seq(Byte) /\ Len(new) = offset + Len(data) + Len(back)
      /\ \A x \in 1 .. offset + Len(data) : new[x] = (front \o data)[x]
      /\ \A x \in offset + Len(data) + 1 .. Len(new) : new[x] = back[x - offset - Len(data)]
  <2> DEFINE written == front \o data
  <2>1. written \in Seq(Byte) /\ Len(written) = offset + Len(data) /\ new = written \o back
    BY <1>4, <1>5
  <2> HIDE DEF written
  <2>2. /\ new \in Seq(Byte) /\ Len(new) = offset + Len(data) + Len(back)
        /\ \A x \in 1 .. offset + Len(data) : new[x] = written[x]
        /\ \A x \in offset + Len(data) + 1 .. Len(new) : new[x] = back[x - offset - Len(data)]
    <3>1. written \in Seq(Byte) /\ back \in Seq(Byte) /\ new = written \o back
      BY <1>3, <2>1
    <3>2. /\ new \in Seq(Byte) /\ Len(new) = Len(written) + Len(back)
          /\ \A x \in 1 .. Len(written) + Len(back) :
               new[x] = IF x <= Len(written) THEN written[x] ELSE back[x - Len(written)]
      BY <3>1, ConcatProperties, Zenon
    <3>3. Len(written) \in Nat /\ Len(back) \in Nat
      BY <3>1, LenProperties
    <3>4. \A x \in 1 .. Len(written) : new[x] = written[x]
      BY <3>2, <3>3
    <3>5. \A x \in offset + Len(data) + 1 .. Len(new) : new[x] = back[x - offset - Len(data)]
      <4>1. \A x \in offset + Len(data) + 1 .. Len(new) :
              /\ x \in 1 .. Len(written) + Len(back) /\ ~(x <= Len(written))
              /\ x - Len(written) = x - offset - Len(data)
        BY <1>1, <2>1, <3>2, <3>3
      <4> QED
        BY <3>2, <4>1
    <3> QED
      BY <2>1, <3>2, <3>4, <3>5
  <2> QED
    BY <2>2 DEF written
<1>7. /\ Len(new) = offset + Len(data) + Len(back) /\ Len(new) \in Nat
      /\ offset + Len(data) \in 0 .. Len(new) /\ Len(file) <= Len(new)
  <2>1. Len(back) >= Len(file) - offset - Len(data)
    BY <1>1, <1>3
  <2>2. Len(back) \in Nat /\ Len(new) = offset + Len(data) + Len(back)
    BY <1>3, <1>6
  <2> QED
    BY <1>1, <2>1, <2>2
<1>8. \A x \in 1 .. offset : new[x] = file[x]
  <2>1. \A x \in 1 .. offset : x \in 1 .. offset + Len(data)
    BY <1>1
  <2> QED
    BY <1>2, <1>5, <1>6, <2>1
<1>9. \A x \in 1 .. Len(data) : new[offset + x] = data[x]
  <2>1. \A x \in 1 .. Len(data) : offset + x \in 1 .. offset + Len(data)
    BY <1>1
  <2> QED
    BY <1>5, <1>6, <2>1
<1>10. \A x \in offset + Len(data) + 1 .. Len(new) : x \in 1 .. Len(file) /\ new[x] = file[x]
  <2> SUFFICES ASSUME NEW x \in offset + Len(data) + 1 .. Len(new)
               PROVE  x \in 1 .. Len(file) /\ new[x] = file[x]
    OBVIOUS
  <2> DEFINE y == x - offset - Len(data)
  <2>1. /\ x \in Nat /\ y \in 1 .. Len(back) /\ offset + Len(data) + y = x
        /\ offset + Len(data) + Len(back) = Len(file)
    <3>1. x \in Nat /\ x > offset + Len(data) /\ x <= offset + Len(data) + Len(back)
      BY <1>1, <1>7
    <3>2. /\ Len(back) \in Nat
          /\ offset + Len(data) < Len(file) => Len(back) = Len(file) - offset - Len(data)
          /\ ~(offset + Len(data) < Len(file)) => Len(back) = 0
      BY <1>3
    <3>3. offset + Len(data) < Len(file)
      BY <1>1, <3>1, <3>2
    <3>4. Len(back) = Len(file) - offset - Len(data)
      BY <3>2, <3>3
    <3> QED
      BY <1>1, <3>1, <3>4
  <2>2. new[x] = back[y]
    BY <1>6
  <2> HIDE DEF y
  <2>3. back[y] = file[offset + Len(data) + y]
    BY <1>3, <2>1
  <2>4. x \in 1 .. Len(file)
    BY <1>1, <1>3, <2>1
  <2> QED
    BY <2>1, <2>2, <2>3, <2>4
<1> QED
  BY <1>6, <1>7, <1>8, <1>9, <1>10 DEF new

-----------------------------------------------------------------------------
\* A process in the middle of a turn of the loop has not done its last one.
InTurn == \A p \in Writer : stage[p] = "write2" => count[p] < N

\* There is no child before the fork.
Childless == stage["parent"] \in {"open1", "fork"} => stage["child"] = "unborn"

\* A process whose writes to tmp2.txt are complete stands behind its records there.
Tmp2Offsets ==
  "tmp2" \notin torn => \A p \in Writer : offset2[p] = count[p] * RecordLen[p]

IInv == OffsetTypeOK /\ InTurn /\ Childless /\ IntelligentOutput /\ Tmp2Offsets /\ Tmp2IsOverlaid

LEMMA StoredType == \A p \in Writer : \A k \in Stored(p) : k \in 0 .. RecordLen[p]
BY Numbers DEF Stored

\* A write of p through the shared description lays its bytes down behind the
\* log and leaves the log as it is.
LEMMA LogGrows ==
  ASSUME OffsetTypeOK, NEW p \in Writer, NEW k \in 0 .. RecordLen[p],
         tmp1' = Overwrite(tmp1, offset1, SubSeq(Record(p), 1, k)),
         offset1' = offset1 + k
  PROVE  /\ tmp1' \in Seq(Byte) /\ offset1' \in 0 .. Len(tmp1')
         /\ \A x \in 1 .. offset1 : tmp1'[x] = tmp1[x]
         /\ \A i \in 1 .. k : tmp1'[offset1 + i] = [by |-> p, at |-> i]
<1> DEFINE data == SubSeq(Record(p), 1, k)
<1>1. data \in Seq(Byte) /\ Len(data) = k /\ \A i \in 1 .. k : data[i] = [by |-> p, at |-> i]
  BY PieceType
<1>2. tmp1 \in Seq(Byte) /\ offset1 \in 0 .. Len(tmp1)
  BY DEF OffsetTypeOK
<1> HIDE DEF data
<1>3. tmp1' = Overwrite(tmp1, offset1, data)
  BY DEF data
<1> QED
  BY <1>1, <1>2, <1>3, OverwriteGives

LEMMA InitIInv == OffsetInit => IInv
<1> SUFFICES ASSUME OffsetInit
             PROVE  IInv
  OBVIOUS
<1>1. ASSUME NEW n \in OldLens
      PROVE  OldFile(n) \in Seq(Byte) /\ Len(OldFile(n)) = n
  <2>1. n \in Nat
    BY Numbers
  <2>2. OldFile(n) \in [1 .. n -> Byte]
    BY <2>1 DEF OldFile, Byte
  <2> QED
    BY <2>1, <2>2 DEF OldFile
<1>2. tmp1 \in Seq(Byte) /\ tmp2 \in Seq(Byte)
  BY <1>1 DEF OffsetInit
<1>3. 0 \in 0 .. Len(tmp1) /\ 0 \in 0 .. Len(tmp2) /\ 0 \in 0 .. N
  BY <1>2, Numbers
<1>4. OffsetTypeOK
  BY <1>2, <1>3 DEF OffsetInit, OffsetTypeOK, Writer
<1>5. InTurn /\ Childless
  BY DEF OffsetInit, InTurn, Childless, Writer
<1>6. RecordsIntact
  BY DEF OffsetInit, RecordsIntact
<1>7. Sent("parent") = 0 /\ Sent("child") = 0
  BY DEF OffsetInit, Sent, Writer
<1>8. NoneLost
  BY <1>7, Numbers DEF OffsetInit, NoneLost, Writer
<1>9. Tmp2Offsets
  BY Numbers DEF OffsetInit, Tmp2Offsets, Writer
<1>10. Tmp2IsOverlaid
  BY <1>2 DEF OffsetInit, Tmp2IsOverlaid
<1> QED
  BY <1>4, <1>5, <1>6, <1>8, <1>9, <1>10 DEF IInv, IntelligentOutput

LEMMA NextTypeOK == IInv /\ [OffsetNext]_offsetVars => OffsetTypeOK' /\ InTurn' /\ Childless'
<1> SUFFICES ASSUME IInv, [OffsetNext]_offsetVars
             PROVE  OffsetTypeOK' /\ InTurn' /\ Childless'
  OBVIOUS
<1> USE Numbers DEF IInv, OffsetTypeOK, InTurn, Childless, Writer
<1>1. CASE OpenTmp1
  <2>1. /\ UNCHANGED <<count, tmp1, tmp2, offset1, offset2, torn>>
        /\ stage["parent"] = "open1"
        /\ \E s \in {"fork", "failed"} : stage' = [stage EXCEPT !["parent"] = s]
    BY <1>1 DEF OpenTmp1
  <2>2. OffsetTypeOK'
    BY <2>1
  <2>3. InTurn'
    BY <2>1
  <2>4. Childless'
    BY <2>1
  <2> QED
    BY <2>2, <2>3, <2>4
<1>2. CASE ForkWriter
  <2>1. UNCHANGED <<count, tmp1, tmp2, offset1, offset2, torn>> /\ stage["parent"] = "fork"
    BY <1>2 DEF ForkWriter
  <2>2. \/ stage' = [p \in Writer |-> "open2"]
        \/ stage' = [stage EXCEPT !["parent"] = "failed"]
    BY <1>2 DEF ForkWriter
  <2>3. OffsetTypeOK'
    BY <2>1, <2>2
  <2>4. InTurn'
    BY <2>1, <2>2
  <2>5. Childless'
    BY <2>1, <2>2
  <2> QED
    BY <2>3, <2>4, <2>5
<1>3. ASSUME NEW p \in Writer, OpenTmp2(p)
      PROVE  OffsetTypeOK' /\ InTurn' /\ Childless'
  <2>1. /\ UNCHANGED <<count, tmp1, tmp2, offset1, offset2, torn>>
        /\ stage[p] = "open2"
        /\ \E s \in {"write1", "failed"} : stage' = [stage EXCEPT ![p] = s]
    BY <1>3 DEF OpenTmp2
  <2>2. OffsetTypeOK'
    BY <2>1
  <2>3. InTurn'
    BY <2>1
  <2>4. Childless'
    BY <2>1
  <2> QED
    BY <2>2, <2>3, <2>4
<1>4. ASSUME NEW p \in Writer, WriteTmp1(p)
      PROVE  OffsetTypeOK' /\ InTurn' /\ Childless'
  <2>1. PICK k \in Stored(p) :
          /\ tmp1' = Overwrite(tmp1, offset1, SubSeq(Record(p), 1, k))
          /\ offset1' = offset1 + k
          /\ Notes("tmp1", p, k)
    BY <1>4 DEF WriteTmp1
  <2>2. tmp1' \in Seq(Byte) /\ offset1' \in 0 .. Len(tmp1')
    BY <2>1, StoredType, LogGrows
  <2>3. torn' \subseteq {"tmp1", "tmp2"}
    BY <2>1 DEF Notes
  <2>4. /\ stage' = [stage EXCEPT ![p] = "write2"] /\ UNCHANGED <<count, tmp2, offset2>>
        /\ count[p] < N
    BY <1>4 DEF WriteTmp1
  <2>5. stage[p] = "write1"
    BY <1>4 DEF WriteTmp1
  <2>6. OffsetTypeOK'
    BY <2>2, <2>3, <2>4
  <2>7. InTurn'
    BY <2>4
  <2>8. Childless'
    BY <2>4, <2>5
  <2> QED
    BY <2>6, <2>7, <2>8
<1>5. ASSUME NEW p \in Writer, WriteTmp2(p)
      PROVE  OffsetTypeOK' /\ InTurn' /\ Childless'
  <2>1. PICK k \in Stored(p) :
          /\ tmp2' = Overwrite(tmp2, offset2[p], SubSeq(Record(p), 1, k))
          /\ offset2' = [offset2 EXCEPT ![p] = @ + k]
          /\ Notes("tmp2", p, k)
    BY <1>5 DEF WriteTmp2
  <2> DEFINE data == SubSeq(Record(p), 1, k)
  <2>2. data \in Seq(Byte) /\ Len(data) = k /\ k \in Nat
    BY StoredType, PieceType
  <2>3. offset2[p] \in 0 .. Len(tmp2) /\ tmp2 \in Seq(Byte)
    OBVIOUS
  <2> HIDE DEF data
  <2>4. tmp2' = Overwrite(tmp2, offset2[p], data)
    BY <2>1 DEF data
  <2>5. /\ tmp2' \in Seq(Byte) /\ offset2[p] + k \in 0 .. Len(tmp2')
        /\ Len(tmp2) <= Len(tmp2')
    BY <2>2, <2>3, <2>4, OverwriteGives
  <2>6. offset2' \in [Writer -> 0 .. Len(tmp2')]
    <3>1. ASSUME NEW q \in Writer
          PROVE  offset2'[q] \in 0 .. Len(tmp2')
      <4>1. CASE q = p
        BY <2>1, <2>5, <4>1
      <4>2. CASE q # p
        <5>1. offset2'[q] = offset2[q] /\ offset2[q] \in 0 .. Len(tmp2)
          BY <2>1, <4>2
        <5>2. Len(tmp2) \in Nat /\ Len(tmp2') \in Nat
          BY <2>3, <2>5
        <5> QED
          BY <2>5, <5>1, <5>2
      <4> QED
        BY <4>1, <4>2
    <3> QED
      BY <2>1, <3>1
  <2>7. torn' \subseteq {"tmp1", "tmp2"}
    BY <2>1 DEF Notes
  <2>8. /\ stage' = [stage EXCEPT ![p] = "write1"] /\ count' = [count EXCEPT ![p] = @ + 1]
        /\ UNCHANGED <<tmp1, offset1>> /\ stage[p] = "write2"
    BY <1>5 DEF WriteTmp2
  <2>9. count' \in [Writer -> 0 .. N]
    BY <2>8
  <2>10. tmp1 \in Seq(Byte) /\ tmp1' \in Seq(Byte) /\ offset1' \in 0 .. Len(tmp1')
    BY <2>8
  <2>11. OffsetTypeOK'
    BY <2>5, <2>6, <2>7, <2>8, <2>9, <2>10
  <2>12. InTurn'
    BY <2>8
  <2>13. Childless'
    BY <2>8
  <2> QED
    BY <2>11, <2>12, <2>13
<1>6. ASSUME NEW p \in Writer, Return(p)
      PROVE  OffsetTypeOK' /\ InTurn' /\ Childless'
  BY <1>6 DEF Return
<1>7. CASE BothStopped \/ UNCHANGED offsetVars
  BY <1>7 DEF BothStopped, offsetVars
<1> QED
  BY <1>1, <1>2, <1>3, <1>4, <1>5, <1>6, <1>7 DEF OffsetNext

\* A whole record behind a log of whole records.
LEMMA RecordAdded ==
  ASSUME OffsetTypeOK, RecordsIntact, NEW p \in Writer,
         tmp1' = Overwrite(tmp1, offset1, SubSeq(Record(p), 1, RecordLen[p])),
         offset1' = offset1 + RecordLen[p]
  PROVE  RecordsIntact'
<1> DEFINE L == RecordLen[p]
<1>1. L \in Nat \ {0} /\ L \in 0 .. L
  BY Numbers
<1>2. /\ \A x \in 1 .. offset1 : tmp1'[x] = tmp1[x]
      /\ \A i \in 1 .. L : tmp1'[offset1 + i] = [by |-> p, at |-> i]
  BY <1>1, LogGrows
<1>3. offset1 \in Nat
  BY DEF OffsetTypeOK
<1> SUFFICES ASSUME NEW x \in 1 .. offset1'
             PROVE  LET b == tmp1'[x] IN
                    /\ b.by \in Writer
                    /\ b.at > 1 => x > 1 /\ tmp1'[x - 1] = [b EXCEPT !.at = @ - 1]
                    /\ b.at < RecordLen[b.by] =>
                         x < offset1' /\ tmp1'[x + 1] = [b EXCEPT !.at = @ + 1]
  BY DEF RecordsIntact, Writer
<1>4. CASE x <= offset1
  <2>1. x \in 1 .. offset1 /\ tmp1'[x] = tmp1[x]
    BY <1>2, <1>3, <1>4
  <2> DEFINE b == tmp1[x]
  <2>2. /\ b.by \in Writer
        /\ b.at > 1 => x > 1 /\ tmp1[x - 1] = [b EXCEPT !.at = @ - 1]
        /\ b.at < RecordLen[b.by] => x < offset1 /\ tmp1[x + 1] = [b EXCEPT !.at = @ + 1]
    BY <2>1 DEF RecordsIntact
  <2> HIDE DEF b
  <2>3. x > 1 => tmp1'[x - 1] = tmp1[x - 1]
    BY <1>2, <1>3, <2>1
  <2>4. x < offset1 => x < offset1' /\ tmp1'[x + 1] = tmp1[x + 1]
    BY <1>1, <1>2, <1>3, <2>1
  <2>5. tmp1'[x] = b
    BY <2>1 DEF b
  <2> QED
    BY <2>2, <2>3, <2>4, <2>5
<1>5. CASE x > offset1
  <2> DEFINE i == x - offset1
  <2>1. i \in 1 .. L /\ x = offset1 + i /\ i \in Nat /\ x \in Nat
    BY <1>1, <1>3, <1>5
  <2> HIDE DEF i
  <2>2. tmp1'[x] = [by |-> p, at |-> i]
    BY <1>2, <2>1
  <2>3. i > 1 => x > 1 /\ tmp1'[x - 1] = [by |-> p, at |-> i - 1]
    <3>1. i > 1 => i - 1 \in 1 .. L /\ x - 1 = offset1 + (i - 1) /\ x > 1
      BY <1>1, <1>3, <2>1
    <3> QED
      BY <1>2, <3>1
  <2>4. i < L => x < offset1' /\ tmp1'[x + 1] = [by |-> p, at |-> i + 1]
    <3>1. i < L => i + 1 \in 1 .. L /\ x + 1 = offset1 + (i + 1) /\ x < offset1'
      BY <1>1, <1>3, <2>1
    <3> QED
      BY <1>2, <3>1
  <2> QED
    BY <2>2, <2>3, <2>4
<1> QED
  BY <1>3, <1>4, <1>5

\* One record more is one length more.
LEMMA OneMore ==
  \A s, len, rest \in Nat :
    /\ (s * len + rest) + len = (s + 1) * len + rest
    /\ (rest + s * len) + len = rest + (s + 1) * len
<1> SUFFICES ASSUME NEW s \in Nat, NEW len \in Nat, NEW rest \in Nat
             PROVE  /\ (s * len + rest) + len = (s + 1) * len + rest
                    /\ (rest + s * len) + len = rest + (s + 1) * len
  OBVIOUS
<1>1. (s + 1) * len = s * len + len
  OBVIOUS
<1>2. s * len \in Nat
  OBVIOUS
<1> QED
  BY <1>1, <1>2

LEMMA NextIntelligent == IInv /\ [OffsetNext]_offsetVars => IntelligentOutput'
<1> SUFFICES ASSUME IInv, [OffsetNext]_offsetVars, "tmp1" \notin torn'
             PROVE  RecordsIntact' /\ NoneLost'
  BY DEF IntelligentOutput
<1>a. OffsetTypeOK /\ InTurn
  BY DEF IInv
<1>b. RecordLen["parent"] \in Nat /\ RecordLen["child"] \in Nat /\ Writer = {"parent", "child"}
  BY Numbers DEF Writer
<1>c. \A p \in Writer : Sent(p) \in Nat
  BY <1>a DEF OffsetTypeOK, Sent
<1>1. ASSUME NEW p \in Writer, WriteTmp1(p)
      PROVE  RecordsIntact' /\ NoneLost'
  <2>1. PICK k \in Stored(p) :
          /\ tmp1' = Overwrite(tmp1, offset1, SubSeq(Record(p), 1, k))
          /\ offset1' = offset1 + k
          /\ Notes("tmp1", p, k)
    BY <1>1 DEF WriteTmp1
  <2>2. k \in 0 .. RecordLen[p] /\ RecordLen[p] \in Nat
    BY StoredType, Numbers
  <2>3. ~(k < RecordLen[p]) /\ "tmp1" \notin torn
    BY <2>1 DEF Notes
  <2>4. k = RecordLen[p]
    BY <2>2, <2>3
  <2>5. RecordsIntact /\ NoneLost
    BY <2>3 DEF IInv, IntelligentOutput
  <2>6. RecordsIntact'
    BY <1>a, <2>1, <2>4, <2>5, RecordAdded
  <2>7. Sent(p)' = Sent(p) + 1
    BY <1>1, <1>a DEF WriteTmp1, Sent, OffsetTypeOK
  <2>8. \A q \in Writer \ {p} : Sent(q)' = Sent(q)
    BY <1>1, <1>a DEF WriteTmp1, Sent, OffsetTypeOK
  <2>9. NoneLost'
    <3> DEFINE sp == Sent("parent")
               sc == Sent("child")
               lp == RecordLen["parent"]
               lc == RecordLen["child"]
    <3>1. sp \in Nat /\ sc \in Nat /\ lp \in Nat /\ lc \in Nat
      BY <1>b, <1>c
    <3>2. offset1 = sp * lp + sc * lc
      BY <2>5 DEF NoneLost
    <3>3. offset1' = offset1 + RecordLen[p]
      BY <2>1, <2>4
    <3>4. CASE p = "parent"
      <4>1. Sent("parent")' = sp + 1 /\ Sent("child")' = sc
        BY <1>b, <2>7, <2>8, <3>4
      <4>2. offset1' = offset1 + lp
        BY <3>3, <3>4
      <4> HIDE DEF sp, sc, lp, lc
      <4>3. sc * lc \in Nat
        BY <3>1
      <4>4. offset1' = (sp + 1) * lp + sc * lc
        BY <3>1, <3>2, <4>2, <4>3, OneMore
      <4> QED
        BY <4>1, <4>4 DEF NoneLost, lp, lc
    <3>5. CASE p = "child"
      <4>1. Sent("child")' = sc + 1 /\ Sent("parent")' = sp
        BY <1>b, <2>7, <2>8, <3>5
      <4>2. offset1' = offset1 + lc
        BY <3>3, <3>5
      <4> HIDE DEF sp, sc, lp, lc
      <4>3. sp * lp \in Nat
        BY <3>1
      <4>4. offset1' = sp * lp + (sc + 1) * lc
        BY <3>1, <3>2, <4>2, <4>3, OneMore
      <4> QED
        BY <4>1, <4>4 DEF NoneLost, lp, lc
    <3> QED
      BY <1>b, <3>4, <3>5
  <2> QED
    BY <2>6, <2>9
<1>2. ASSUME UNCHANGED <<tmp1, offset1>>, torn \subseteq torn', \A p \in Writer : Sent(p)' = Sent(p)
      PROVE  RecordsIntact' /\ NoneLost'
  <2>1. RecordsIntact /\ NoneLost
    BY <1>2 DEF IInv, IntelligentOutput
  <2>2. RecordsIntact'
    BY <1>2, <2>1 DEF RecordsIntact, Writer
  <2> QED
    BY <1>2, <1>b, <2>1, <2>2 DEF NoneLost
<1>3. ASSUME NEW p \in Writer, WriteTmp2(p)
      PROVE  RecordsIntact' /\ NoneLost'
  <2>1. UNCHANGED <<tmp1, offset1>> /\ torn \subseteq torn'
    BY <1>3 DEF WriteTmp2, Notes
  <2>2. \A q \in Writer : Sent(q)' = Sent(q)
    BY <1>3, <1>a DEF WriteTmp2, Sent, OffsetTypeOK
  <2> QED
    BY <1>2, <2>1, <2>2
<1>4. CASE OpenTmp1 \/ ForkWriter \/ BothStopped \/ UNCHANGED offsetVars
  <2>1. UNCHANGED <<tmp1, offset1, count, torn>>
    BY <1>4 DEF OpenTmp1, ForkWriter, BothStopped, offsetVars
  <2>2. \A q \in Writer : stage'[q] = "write2" <=> stage[q] = "write2"
    <3>1. CASE OpenTmp1
      BY <3>1, <1>a DEF OpenTmp1, OffsetTypeOK
    <3>2. CASE ForkWriter
      <4>1. stage["parent"] = "fork"
        BY <3>2 DEF ForkWriter
      <4>2. stage["child"] # "write2"
        BY <4>1, <1>a, <3>2 DEF IInv, Childless
      <4> QED
        BY <3>2, <4>1, <4>2, <1>a, <1>b DEF ForkWriter, OffsetTypeOK
    <3>3. CASE BothStopped \/ UNCHANGED offsetVars
      BY <3>3 DEF BothStopped, offsetVars
    <3> QED
      BY <1>4, <3>1, <3>2, <3>3
  <2>3. \A q \in Writer : Sent(q)' = Sent(q)
    BY <2>1, <2>2 DEF Sent
  <2> QED
    BY <1>2, <2>1, <2>3
<1>5. ASSUME NEW p \in Writer, OpenTmp2(p) \/ Return(p)
      PROVE  RecordsIntact' /\ NoneLost'
  <2>1. UNCHANGED <<tmp1, offset1, count, torn>>
    BY <1>5 DEF OpenTmp2, Return
  <2>2. \A q \in Writer : Sent(q)' = Sent(q)
    BY <1>5, <1>a DEF OpenTmp2, Return, Sent, OffsetTypeOK
  <2> QED
    BY <1>2, <2>1, <2>2
<1> QED
  BY <1>1, <1>3, <1>4, <1>5 DEF OffsetNext
\* The byte that follows x whole records and i - 1 bytes of the next is number i.
LEMMA StreamedByte ==
  ASSUME NEW p \in Writer, NEW c \in Nat, NEW i \in 1 .. RecordLen[p]
  PROVE  Streamed(p, c * RecordLen[p] + i) = [by |-> p, at |-> i]
<1> DEFINE len == RecordLen[p]
           x   == c * len + i
<1>1. len \in Nat \ {0} /\ i \in Nat /\ i - 1 \in 0 .. len - 1
  BY Numbers
<1>2. x - 1 \in Nat /\ x - 1 = c * len + (i - 1)
  BY <1>1
<1>3. (x - 1) % len = i - 1
  <2> DEFINE y == x - 1
             r == i - 1
  <2>1. y \in Nat /\ r \in 0 .. len - 1 /\ y = c * len + r
    BY <1>1, <1>2
  <2> HIDE DEF y, r, len
  <2>2. y % len = r
    BY <1>1, <2>1
  <2> QED
    BY <2>2 DEF y, r
<1> QED
  BY <1>1, <1>3 DEF Streamed

\* A whole record of p in tmp2.txt covers a part of what is there, and nothing
\* but that part.
LEMMA WriteOverlays ==
  ASSUME OffsetTypeOK, InTurn, Tmp2Offsets, Tmp2IsOverlaid, "tmp2" \notin torn, NEW p \in Writer,
         tmp2' = Overwrite(tmp2, offset2[p], SubSeq(Record(p), 1, RecordLen[p])),
         offset2' = [offset2 EXCEPT ![p] = @ + RecordLen[p]]
  PROVE  \A x \in 1 .. Len(tmp2') :
           (\E q \in Writer : offset2'[q] >= x) =>
             \E q \in Writer : offset2'[q] >= x /\ tmp2'[x] = Streamed(q, x)
<1> DEFINE len  == RecordLen[p]
           data == SubSeq(Record(p), 1, len)
           at   == offset2[p]
<1>1. /\ len \in Nat \ {0} /\ data \in Seq(Byte) /\ Len(data) = len
      /\ \A i \in 1 .. len : data[i] = [by |-> p, at |-> i]
  <2>1. RecordLen[p] \in Nat \ {0} /\ RecordLen[p] \in 0 .. RecordLen[p]
    BY Numbers
  <2> QED
    BY <2>1, PieceType
<1>2. tmp2 \in Seq(Byte) /\ at \in 0 .. Len(tmp2) /\ at \in Nat /\ count[p] \in Nat
  BY Numbers DEF OffsetTypeOK
<1>3. /\ \A q \in Writer : offset2[q] \in Nat
      /\ offset2'[p] = at + len
      /\ \A q \in Writer : q # p => offset2'[q] = offset2[q]
  BY <1>1 DEF OffsetTypeOK
<1>4. at = count[p] * len
  BY DEF Tmp2Offsets
<1> HIDE DEF data
<1>5. tmp2' = Overwrite(tmp2, at, data)
  BY DEF data
<1> HIDE DEF at
<1>6. /\ tmp2' \in Seq(Byte) /\ Len(tmp2') \in Nat
      /\ \A x \in 1 .. at : tmp2'[x] = tmp2[x]
      /\ \A i \in 1 .. len : tmp2'[at + i] = data[i]
      /\ \A x \in at + len + 1 .. Len(tmp2') : x \in 1 .. Len(tmp2) /\ tmp2'[x] = tmp2[x]
  BY <1>1, <1>2, <1>5, OverwriteGives
<1> SUFFICES ASSUME NEW x \in 1 .. Len(tmp2'), \E q \in Writer : offset2'[q] >= x
             PROVE  \E q \in Writer : offset2'[q] >= x /\ tmp2'[x] = Streamed(q, x)
  OBVIOUS
<1>7. x \in Nat /\ len \in Nat
  BY <1>1, <1>6
<1> HIDE DEF len
<1>8. ASSUME x \in 1 .. Len(tmp2), tmp2'[x] = tmp2[x], ~(at < x /\ x <= at + len)
      PROVE  \E q \in Writer : offset2'[q] >= x /\ tmp2'[x] = Streamed(q, x)
  <2>1. \E q \in Writer : offset2[q] >= x
    BY <1>2, <1>3, <1>7, <1>8 DEF at
  <2>2. PICK q \in Writer : offset2[q] >= x /\ tmp2[x] = Streamed(q, x)
    BY <1>8, <2>1 DEF Tmp2IsOverlaid
  <2>3. offset2'[q] >= x
    BY <1>2, <1>3, <1>7, <2>2 DEF at
  <2> QED
    BY <1>8, <2>2, <2>3
<1>9. CASE x <= at
  <2>1. x \in 1 .. at /\ x \in 1 .. Len(tmp2)
    BY <1>2, <1>7, <1>9
  <2> QED
    BY <1>2, <1>6, <1>7, <1>8, <1>9, <2>1
<1>10. CASE x > at /\ x <= at + len
  <2> DEFINE i == x - at
  <2>1. i \in 1 .. len /\ at + i = x
    BY <1>2, <1>7, <1>10
  <2> HIDE DEF i
  <2>2. tmp2'[x] = [by |-> p, at |-> i]
    BY <1>1, <1>6, <2>1 DEF len
  <2>3. Streamed(p, x) = [by |-> p, at |-> i]
    BY <1>2, <1>4, <2>1, StreamedByte DEF len
  <2>4. offset2'[p] >= x
    BY <1>3, <1>10 DEF len
  <2> QED
    BY <2>2, <2>3, <2>4
<1>11. CASE x > at + len
  <2>1. x \in at + len + 1 .. Len(tmp2')
    BY <1>2, <1>6, <1>7, <1>11
  <2> QED
    BY <1>2, <1>6, <1>7, <1>8, <1>11, <2>1
<1> QED
  BY <1>2, <1>7, <1>9, <1>10, <1>11

LEMMA NextOverlaid == IInv /\ [OffsetNext]_offsetVars => Tmp2Offsets' /\ Tmp2IsOverlaid'
<1> SUFFICES ASSUME IInv, [OffsetNext]_offsetVars, "tmp2" \notin torn'
             PROVE  /\ \A p \in Writer : (offset2[p] = count[p] * RecordLen[p])'
                    /\ \A x \in 1 .. Len(tmp2') :
                         (\E q \in Writer : offset2'[q] >= x) =>
                           \E q \in Writer : offset2'[q] >= x /\ tmp2'[x] = Streamed(q, x)
  BY DEF Tmp2Offsets, Tmp2IsOverlaid
<1>a. OffsetTypeOK /\ InTurn /\ Tmp2Offsets /\ Tmp2IsOverlaid
  BY DEF IInv
<1>1. ASSUME NEW p \in Writer, WriteTmp2(p)
      PROVE  /\ \A q \in Writer : (offset2[q] = count[q] * RecordLen[q])'
             /\ \A x \in 1 .. Len(tmp2') :
                  (\E q \in Writer : offset2'[q] >= x) =>
                    \E q \in Writer : offset2'[q] >= x /\ tmp2'[x] = Streamed(q, x)
  <2>1. PICK k \in Stored(p) :
          /\ tmp2' = Overwrite(tmp2, offset2[p], SubSeq(Record(p), 1, k))
          /\ offset2' = [offset2 EXCEPT ![p] = @ + k]
          /\ Notes("tmp2", p, k)
    BY <1>1 DEF WriteTmp2
  <2>2. k \in 0 .. RecordLen[p] /\ RecordLen[p] \in Nat
    BY StoredType, Numbers
  <2>3. k = RecordLen[p] /\ "tmp2" \notin torn
    BY <2>1, <2>2 DEF Notes
  <2>4. /\ tmp2' = Overwrite(tmp2, offset2[p], SubSeq(Record(p), 1, RecordLen[p]))
        /\ offset2' = [offset2 EXCEPT ![p] = @ + RecordLen[p]]
    BY <2>1, <2>3
  <2>5. \A q \in Writer : (offset2[q] = count[q] * RecordLen[q])'
    <3>1. count' = [count EXCEPT ![p] = @ + 1]
      BY <1>1 DEF WriteTmp2
    <3>2. \A q \in Writer : count[q] \in Nat /\ offset2[q] = count[q] * RecordLen[q]
      BY <1>a, <2>3, Numbers DEF OffsetTypeOK, Tmp2Offsets
    <3>3. (count[p] + 1) * RecordLen[p] = count[p] * RecordLen[p] + RecordLen[p]
      BY <2>2, <3>2
    <3>4. (offset2[p] = count[p] * RecordLen[p])'
      BY <1>a, <2>4, <3>1, <3>2, <3>3 DEF OffsetTypeOK
    <3>5. \A q \in Writer \ {p} : (offset2[q] = count[q] * RecordLen[q])'
      BY <1>a, <2>4, <3>1, <3>2 DEF OffsetTypeOK
    <3> QED
      BY <3>4, <3>5
  <2> QED
    BY <1>a, <2>3, <2>4, <2>5, WriteOverlays
<1>2. ASSUME UNCHANGED <<tmp2, offset2, count>>, torn \subseteq torn' \cup {"tmp1"}
      PROVE  /\ \A q \in Writer : (offset2[q] = count[q] * RecordLen[q])'
             /\ \A x \in 1 .. Len(tmp2') :
                  (\E q \in Writer : offset2'[q] >= x) =>
                    \E q \in Writer : offset2'[q] >= x /\ tmp2'[x] = Streamed(q, x)
  <2>1. "tmp2" \notin torn
    BY <1>2
  <2>2. \A q \in Writer : offset2[q] = count[q] * RecordLen[q]
    BY <1>a, <2>1 DEF Tmp2Offsets
  <2>3. \A x \in 1 .. Len(tmp2) :
          (\E q \in Writer : offset2[q] >= x) =>
            \E q \in Writer : offset2[q] >= x /\ tmp2[x] = Streamed(q, x)
    BY <1>a, <2>1 DEF Tmp2IsOverlaid
  <2> QED
    BY <1>2, <2>2, <2>3
<1>3. CASE OpenTmp1 \/ ForkWriter \/ BothStopped \/ UNCHANGED offsetVars
  BY <1>2, <1>3 DEF OpenTmp1, ForkWriter, BothStopped, offsetVars
<1>4. ASSUME NEW p \in Writer, OpenTmp2(p) \/ WriteTmp1(p) \/ Return(p)
      PROVE  UNCHANGED <<tmp2, offset2, count>> /\ torn \subseteq torn' \cup {"tmp1"}
  BY <1>4 DEF OpenTmp2, WriteTmp1, Return, Notes
<1> QED
  BY <1>1, <1>2, <1>3, <1>4 DEF OffsetNext

-----------------------------------------------------------------------------
THEOREM Inductive == OffsetSpec => []IInv
<1>1. IInv /\ [OffsetNext]_offsetVars => IInv'
  BY NextTypeOK, NextIntelligent, NextOverlaid DEF IInv
<1> QED
  BY InitIInv, <1>1, PTL DEF OffsetSpec

\* The offset of a description stays inside its file, so no write leaves a
\* gap behind the bytes that are there.
THEOREM TypeCorrect == OffsetSpec => []OffsetTypeOK
<1>1. IInv => OffsetTypeOK
  BY DEF IInv
<1> QED
  BY Inductive, <1>1, PTL

\* Two processes that write whole records through one open file description
\* mix no records, lose none and repeat none, for every number of records and
\* every length.
THEOREM Intelligent == OffsetSpec => []IntelligentOutput
<1>1. IInv => IntelligentOutput
  BY DEF IInv
<1> QED
  BY Inductive, <1>1, PTL

\* Two descriptions of one file: what a position holds is what one of the
\* processes that have reached it sent there, for every number of records, all
\* lengths and whatever the file held before.
THEOREM Overlaid == OffsetSpec => []Tmp2IsOverlaid
<1>1. IInv => Tmp2IsOverlaid
  BY DEF IInv
<1> QED
  BY Inductive, <1>1, PTL

-----------------------------------------------------------------------------
LEMMA InitPromise == OffsetInit => SharedLog!Init
<1> SUFFICES ASSUME OffsetInit
             PROVE  Log1 = <<>>
  BY DEF SharedLog!Init
<1>1. tmp1 \in Seq(Byte) /\ offset1 = 0
  BY InitIInv DEF IInv, OffsetTypeOK, OffsetInit
<1> QED
  BY <1>1 DEF Log1

LEMMA NextPromise == IInv /\ [OffsetNext]_offsetVars => [SharedLog!Write]_Log1
<1> SUFFICES ASSUME IInv, [OffsetNext]_offsetVars
             PROVE  SharedLog!Write \/ Log1' = Log1
  OBVIOUS
<1>a. OffsetTypeOK
  BY DEF IInv
<1>1. ASSUME NEW p \in Writer, WriteTmp1(p)
      PROVE  SharedLog!Write
  <2>1. PICK k \in Stored(p) :
          /\ tmp1' = Overwrite(tmp1, offset1, SubSeq(Record(p), 1, k))
          /\ offset1' = offset1 + k
    BY <1>1 DEF WriteTmp1
  <2>2. k \in 0 .. RecordLen[p]
    BY StoredType
  <2> DEFINE data == SubSeq(Record(p), 1, k)
  <2>3. data \in Chunk
    BY <2>2 DEF Chunk
  <2>4. data \in Seq(Byte) /\ Len(data) = k /\ \A i \in 1 .. k : data[i] = [by |-> p, at |-> i]
    BY <2>2, PieceType
  <2>5. /\ tmp1' \in Seq(Byte) /\ offset1' \in 0 .. Len(tmp1')
        /\ \A x \in 1 .. offset1 : tmp1'[x] = tmp1[x]
        /\ \A i \in 1 .. k : tmp1'[offset1 + i] = [by |-> p, at |-> i]
    BY <1>a, <2>1, <2>2, LogGrows
  <2>6. tmp1 \in Seq(Byte) /\ offset1 \in 0 .. Len(tmp1) /\ k \in Nat
    BY <1>a, <2>2, Numbers DEF OffsetTypeOK
  <2> HIDE DEF data
  <2>7. Log1' = Log1 \o data
    <3> DEFINE old == Log1
               new == Log1'
    <3>1. /\ old \in Seq(Byte) /\ Len(old) = offset1
          /\ \A x \in 1 .. offset1 : old[x] = tmp1[x]
      BY <2>6 DEF Log1
    <3>2. /\ new \in Seq(Byte) /\ Len(new) = offset1 + k
          /\ \A x \in 1 .. offset1 + k : new[x] = tmp1'[x]
      BY <2>1, <2>5, <2>6 DEF Log1
    <3> HIDE DEF old, new
    <3>3. /\ old \o data \in Seq(Byte) /\ Len(old \o data) = Len(old) + Len(data)
          /\ \A x \in 1 .. Len(old) + Len(data) :
               (old \o data)[x] = IF x <= Len(old) THEN old[x] ELSE data[x - Len(old)]
      BY <2>4, <3>1, ConcatProperties, Zenon
    <3>4. \A x \in 1 .. offset1 + k : new[x] = (old \o data)[x]
      <4> SUFFICES ASSUME NEW x \in 1 .. offset1 + k
                   PROVE  new[x] = (old \o data)[x]
        OBVIOUS
      <4>1. CASE x <= offset1
        <5>1. x \in 1 .. offset1
          BY <2>6, <4>1
        <5>2. (old \o data)[x] = old[x]
          BY <2>4, <2>6, <3>1, <3>3, <4>1
        <5>3. old[x] = tmp1'[x]
          BY <2>5, <3>1, <5>1
        <5> QED
          BY <3>2, <5>2, <5>3
      <4>2. CASE x > offset1
        <5>1. x - offset1 \in 1 .. k /\ offset1 + (x - offset1) = x
          BY <2>6, <4>2
        <5>2. (old \o data)[x] = data[x - offset1]
          BY <2>4, <2>6, <3>1, <3>3, <4>2
        <5>3. tmp1'[x] = data[x - offset1]
          BY <2>4, <2>5, <5>1
        <5> QED
          BY <3>2, <5>2, <5>3
      <4>3. x <= offset1 \/ x > offset1
        BY <2>6
      <4> QED
        BY <4>1, <4>2, <4>3
    <3>5. Len(old \o data) = offset1 + k
      BY <2>4, <3>1, <3>3
    <3> DEFINE two == old \o data
    <3>6. /\ two \in Seq(Byte) /\ Len(two) = Len(new)
          /\ \A x \in 1 .. Len(new) : new[x] = two[x]
      BY <3>2, <3>3, <3>4, <3>5
    <3> HIDE DEF two
    <3>7. new = two
      BY <3>2, <3>6, SeqEqual
    <3> QED
      BY <3>7 DEF new, old, two
  <2> QED
    BY <2>3, <2>7 DEF SharedLog!Write
<1>2. ASSUME UNCHANGED <<tmp1, offset1>>
      PROVE  Log1' = Log1
  BY <1>2 DEF Log1
<1>3. CASE OpenTmp1 \/ ForkWriter \/ BothStopped \/ UNCHANGED offsetVars
  BY <1>2, <1>3 DEF OpenTmp1, ForkWriter, BothStopped, offsetVars
<1>4. ASSUME NEW p \in Writer, OpenTmp2(p) \/ WriteTmp2(p) \/ Return(p)
      PROVE  Log1' = Log1
  BY <1>2, <1>4 DEF OpenTmp2, WriteTmp2, Return
<1> QED
  BY <1>1, <1>3, <1>4 DEF OffsetNext

\* A file written through one description is a log: whatever write() returns
\* and whichever process dies, no byte that was written is written over.
THEOREM Refinement == OffsetSpec => ImplementsLog
<1>1. IInv /\ [OffsetNext]_offsetVars => [SharedLog!Write]_Log1
  BY NextPromise
<1> QED
  BY InitPromise, Inductive, <1>1, PTL DEF OffsetSpec, ImplementsLog, SharedLog!Spec
=============================================================================
