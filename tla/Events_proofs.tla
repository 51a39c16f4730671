--------------------------- MODULE Events_proofs ----------------------------
(***************************************************************************)
(* Two programs that wait for what comes from outside.                     *)
(*                                                                         *)
(* 19-chap/main.c tells all that happens in its directory, for every       *)
(* length of the queue: a relation between what is told and what has       *)
(* happened is kept by each event, whether it is merged, queued or lost,   *)
(* and the events on their way from the queue through the buffer to the    *)
(* print do not change what is told.  The offset in the buffer is always   *)
(* that of an event, because more events take more bytes.                  *)
(*                                                                         *)
(* The gate of 20-chap/main.c opens at signal Nopes + 2 and not earlier,   *)
(* for every number of refusals: the handler's counter says how many       *)
(* signals were delivered, as long as sigaction() does not fail there.     *)
(***************************************************************************)
EXTENDS DirEvents, SigintGate, FiniteSetTheorems, TLAPS

-----------------------------------------------------------------------------
(* 19-chap: the bytes of a batch of events *)

Event == {"open", "create", "modify", "delete_self", "ignored", "overflow", "garbage"}

\* What happens in the directory.
Real == Event \ {"overflow", "garbage"}

LEMMA Sizes ==
  /\ DOMAIN NameLen = Event /\ BufSize = 3
  /\ \A e \in Event : SizeOf(e) \in 1 .. BufSize
BY DEF NameLen, Event, SizeOf, Header, BufSize, NameMax

LEMMA Constants == MaxQueue \in Nat \ {0} /\ MaxEvents \in Nat \ {0}
BY ConstantsAssumption

LEMMA NothingInEmpty == /\ Bytes(<<>>) = {} /\ SizeOfAll(<<>>) = 0 /\ Runs(<<>>) = {}
<1>1. DOMAIN <<>> = {}
  OBVIOUS
<1>2. Bytes(<<>>) = {} /\ Runs(<<>>) = {}
  BY <1>1 DEF Bytes, Runs
<1> QED
  BY <1>2, FS_EmptySet DEF SizeOfAll

\* The bytes of the first k events of s.
First(s, k) == SubSeq(s, 1, k)
Fill(s, k)  == SizeOfAll(First(s, k))

LEMMA FrontSeq ==
  ASSUME NEW s \in Seq(Event), NEW k \in 0 .. Len(s)
  PROVE  /\ First(s, k) \in Seq(Event) /\ Len(First(s, k)) = k
         /\ DOMAIN First(s, k) = 1 .. k
         /\ \A i \in 1 .. k : First(s, k)[i] = s[i]
BY DEF First

LEMMA FrontBytes ==
  ASSUME NEW s \in Seq(Event), NEW k \in 0 .. Len(s)
  PROVE  Bytes(First(s, k)) = {x \in (1 .. k) \X (1 .. BufSize) : x[2] <= SizeOf(s[x[1]])}
<1>1. DOMAIN First(s, k) = 1 .. k /\ \A i \in 1 .. k : First(s, k)[i] = s[i]
  BY FrontSeq
<1>2. \A i \in 1 .. k : SizeOf(s[i]) \in 1 .. BufSize
  BY Sizes
<1>3. BufSize \in Nat
  BY Sizes
<1>4. Bytes(First(s, k)) = UNION {{i} \X (1 .. SizeOf(s[i])) : i \in 1 .. k}
  BY <1>1 DEF Bytes
<1> QED
  BY <1>2, <1>3, <1>4

LEMMA FillType ==
  ASSUME NEW s \in Seq(Event), NEW k \in 0 .. Len(s)
  PROVE  IsFiniteSet(Bytes(First(s, k))) /\ Fill(s, k) \in Nat
<1>0. k \in Int /\ BufSize \in Int /\ 1 \in Int
  BY Sizes
<1>1. IsFiniteSet(1 .. k) /\ IsFiniteSet(1 .. BufSize)
  BY <1>0, FS_Interval
<1>2. IsFiniteSet((1 .. k) \X (1 .. BufSize))
  BY <1>1, FS_Product
<1>3. IsFiniteSet(Bytes(First(s, k)))
  BY <1>2, FrontBytes, FS_Subset
<1> QED
  BY <1>3, FS_CardinalityType DEF Fill, SizeOfAll

\* The next event adds its size.
LEMMA FillNext ==
  ASSUME NEW s \in Seq(Event), NEW k \in 0 .. Len(s) - 1
  PROVE  Fill(s, k + 1) = Fill(s, k) + SizeOf(s[k + 1])
<1> DEFINE B == Bytes(First(s, k))
           n == SizeOf(s[k + 1])
<1>0. k \in Nat /\ k + 1 \in 1 .. Len(s) /\ k \in 0 .. Len(s) /\ k + 1 \in 0 .. Len(s)
  OBVIOUS
<1>1. n \in {1, 2, 3} /\ BufSize = 3
  BY <1>0, Sizes
<1>2. IsFiniteSet(B) /\ Cardinality(B) \in Nat
  BY <1>0, FillType, FS_CardinalityType
<1>3. B = {x \in (1 .. k) \X (1 .. BufSize) : x[2] <= SizeOf(s[x[1]])}
  BY <1>0, FrontBytes
<1>4. Bytes(First(s, k + 1)) =
        {x \in (1 .. k + 1) \X (1 .. BufSize) : x[2] <= SizeOf(s[x[1]])}
  BY <1>0, FrontBytes
<1> DEFINE C == Bytes(First(s, k + 1))
<1>5. <<k + 1, 1>> \notin B /\ <<k + 1, 2>> \notin B /\ <<k + 1, 3>> \notin B
  BY <1>0, <1>3
<1> HIDE DEF B, C, n
<1>6. CASE n = 1
  <2>1. C = B \cup {<<k + 1, 1>>}
    BY <1>0, <1>1, <1>3, <1>4, <1>6 DEF C, n
  <2> QED
    BY <1>2, <1>5, <1>6, <2>1, FS_AddElement DEF Fill, SizeOfAll, B, C, n
<1>7. CASE n = 2
  <2>1. C = (B \cup {<<k + 1, 1>>}) \cup {<<k + 1, 2>>}
    BY <1>0, <1>1, <1>3, <1>4, <1>7 DEF C, n
  <2>2. IsFiniteSet(B \cup {<<k + 1, 1>>})
        /\ Cardinality(B \cup {<<k + 1, 1>>}) = Cardinality(B) + 1
    BY <1>2, <1>5, FS_AddElement
  <2>3. <<k + 1, 2>> \notin B \cup {<<k + 1, 1>>}
    BY <1>5
  <2>4. Cardinality(C) = Cardinality(B) + 1 + 1
    BY <2>1, <2>2, <2>3, FS_AddElement
  <2> QED
    BY <1>2, <1>7, <2>4 DEF Fill, SizeOfAll, B, C, n
<1>8. CASE n = 3
  <2> DEFINE B1 == B \cup {<<k + 1, 1>>}
             B2 == B1 \cup {<<k + 1, 2>>}
  <2>1. C = B2 \cup {<<k + 1, 3>>}
    BY <1>0, <1>1, <1>3, <1>4, <1>8 DEF C, n
  <2>2. IsFiniteSet(B1) /\ Cardinality(B1) = Cardinality(B) + 1
    BY <1>2, <1>5, FS_AddElement
  <2>3. <<k + 1, 2>> \notin B1 /\ <<k + 1, 3>> \notin B2
    BY <1>5
  <2>4. IsFiniteSet(B2) /\ Cardinality(B2) = Cardinality(B) + 1 + 1
    BY <2>2, <2>3, FS_AddElement
  <2> HIDE DEF B2
  <2>5. Cardinality(C) = Cardinality(B) + 1 + 1 + 1
    BY <2>1, <2>3, <2>4, FS_AddElement
  <2> QED
    BY <1>2, <1>8, <2>5 DEF Fill, SizeOfAll, B, C, n
<1> QED
  BY <1>1, <1>6, <1>7, <1>8 DEF n

\* More events, more bytes.
LEMMA FillGrows ==
  ASSUME NEW s \in Seq(Event), NEW j \in 0 .. Len(s), NEW k \in 0 .. Len(s), j < k
  PROVE  Fill(s, j) < Fill(s, k)
<1> DEFINE B == Bytes(First(s, j))
           C == Bytes(First(s, k))
<1>1. IsFiniteSet(B) /\ IsFiniteSet(C) /\ Cardinality(B) \in Nat /\ Cardinality(C) \in Nat
  BY FillType, FS_CardinalityType
<1>2. /\ B = {x \in (1 .. j) \X (1 .. BufSize) : x[2] <= SizeOf(s[x[1]])}
      /\ C = {x \in (1 .. k) \X (1 .. BufSize) : x[2] <= SizeOf(s[x[1]])}
  BY FrontBytes
<1>3. k \in 1 .. Len(s) /\ SizeOf(s[k]) >= 1 /\ BufSize = 3
  BY Sizes
<1>4. <<k, 1>> \notin B /\ B \cup {<<k, 1>>} \subseteq C
  BY <1>2, <1>3
<1> HIDE DEF B, C
<1>5. Cardinality(B \cup {<<k, 1>>}) = Cardinality(B) + 1
  BY <1>1, <1>4, FS_AddElement
<1>6. Cardinality(B \cup {<<k, 1>>}) <= Cardinality(C)
  BY <1>1, <1>4, FS_Subset
<1>7. Cardinality(B) < Cardinality(C)
  BY <1>1, <1>5, <1>6
<1> QED
  BY <1>7 DEF Fill, SizeOfAll, B, C

LEMMA FillEnds ==
  ASSUME NEW s \in Seq(Event)
  PROVE  Fill(s, 0) = 0 /\ Fill(s, Len(s)) = SizeOfAll(s)
<1>1. First(s, 0) = <<>> /\ First(s, Len(s)) = s
  BY DEF First
<1> QED
  BY <1>1, NothingInEmpty DEF Fill

\* read() hands over as many events as fit, and always one: none is larger than
\* the buffer.
LEMMA BatchFits ==
  ASSUME NEW q \in Seq(Event)
  PROVE  /\ Batch(q) \in 0 .. Len(q)
         /\ Fill(q, Batch(q)) <= BufSize
         /\ q # <<>> => Batch(q) > 0
<1> DEFINE F == {n \in 1 .. Len(q) : Fill(q, n) <= BufSize}
           c == Cardinality(F)
<1>1. Batch(q) = c
  BY DEF Batch, Fill, First
<1>2. IsFiniteSet(1 .. Len(q)) /\ Cardinality(1 .. Len(q)) = Len(q) /\ Len(q) \in Nat
  <2>1. Len(q) \in Nat /\ Len(q) \in Int /\ 1 \in Int
    OBVIOUS
  <2>2. /\ IsFiniteSet(1 .. Len(q))
        /\ Cardinality(1 .. Len(q)) = IF 1 > Len(q) THEN 0 ELSE (Len(q) - 1) + 1
    BY <2>1, FS_Interval
  <2> QED
    BY <2>1, <2>2
<1>3. IsFiniteSet(F) /\ c <= Len(q) /\ c \in Nat
  BY <1>2, FS_Subset, FS_CardinalityType
<1>4. c \in 0 .. Len(q)
  BY <1>2, <1>3
<1>5. BufSize = 3
  BY Sizes
<1> HIDE DEF c
<1>6. Fill(q, c) <= BufSize
  <2>1. CASE c = 0
    BY <1>5, <2>1, FillEnds
  <2>2. CASE c # 0
    <3> SUFFICES ASSUME ~ (Fill(q, c) <= BufSize)
                 PROVE  FALSE
      OBVIOUS
    <3>1. \A n \in 1 .. Len(q) : n \in 0 .. Len(q) /\ Fill(q, n) \in Nat /\ Fill(q, c) \in Nat
      BY <1>4, FillType
    <3>2. \A n \in F : n < c
      <4> SUFFICES ASSUME NEW n \in F, n >= c
                   PROVE  FALSE
        BY <1>3, <1>4
      <4>1. n \in 1 .. Len(q) /\ n \in 0 .. Len(q) /\ Fill(q, n) <= BufSize
            /\ Fill(q, n) \in Nat /\ Fill(q, c) \in Nat
        BY <3>1
      <4>2. n > c => Fill(q, c) < Fill(q, n)
        BY <1>4, <4>1, FillGrows
      <4> QED
        BY <1>4, <1>5, <4>1, <4>2
    <3>3. F \subseteq 1 .. c - 1
      BY <1>3, <3>2
    <3>4. IsFiniteSet(1 .. c - 1) /\ Cardinality(1 .. c - 1) = c - 1
      <4>1. 1 \in Int /\ c - 1 \in Int /\ c >= 1
        BY <1>3, <2>2
      <4>2. /\ IsFiniteSet(1 .. c - 1)
            /\ Cardinality(1 .. c - 1) = IF 1 > c - 1 THEN 0 ELSE ((c - 1) - 1) + 1
        BY <4>1, FS_Interval
      <4> QED
        BY <1>3, <4>1, <4>2
    <3>5. c <= c - 1
      BY <3>3, <3>4, FS_Subset DEF c
    <3> QED
      BY <1>3, <3>5
  <2> QED
    BY <2>1, <2>2
<1>7. q # <<>> => c > 0
  <2> SUFFICES ASSUME q # <<>>
               PROVE  c > 0
    OBVIOUS
  <2>1. Len(q) >= 1 /\ 0 \in 0 .. Len(q) - 1 /\ q[1] \in Event /\ 1 \in 1 .. Len(q)
    OBVIOUS
  <2>2. Fill(q, 0 + 1) = Fill(q, 0) + SizeOf(q[0 + 1])
    BY <2>1, FillNext
  <2>3. Fill(q, 1) <= BufSize
    BY <1>5, <2>1, <2>2, FillEnds, Sizes
  <2>4. F # {}
    BY <2>1, <2>3
  <2> QED
    BY <1>3, <2>4, FS_EmptySet DEF c
<1> QED
  BY <1>1, <1>4, <1>6, <1>7

\* What sequences are made of.
LEMMA SameSeq ==
  ASSUME NEW s \in Seq(Event), NEW t \in Seq(Event), Len(s) = Len(t),
         \A i \in 1 .. Len(s) : s[i] = t[i]
  PROVE  s = t
OBVIOUS

LEMMA ConcatSeq ==
  ASSUME NEW s \in Seq(Event), NEW t \in Seq(Event)
  PROVE  /\ s \o t \in Seq(Event) /\ Len(s \o t) = Len(s) + Len(t)
         /\ Len(s) \in Nat /\ Len(t) \in Nat
         /\ \A i \in 1 .. Len(s) : (s \o t)[i] = s[i]
         /\ \A i \in 1 .. Len(t) : (s \o t)[Len(s) + i] = t[i]
OBVIOUS

-----------------------------------------------------------------------------
(* 19-chap: the runs of equal events *)

NumRuns(s) == Cardinality(Heads(s, Len(s)))

LEMMA HeadsType ==
  ASSUME NEW s, NEW k \in Nat
  PROVE  IsFiniteSet(Heads(s, k)) /\ Cardinality(Heads(s, k)) \in Nat
<1>1. 1 \in Int /\ k \in Int
  OBVIOUS
<1>2. IsFiniteSet(1 .. k)
  BY <1>1, FS_Interval
<1>3. Heads(s, k) \subseteq 1 .. k
  BY DEF Heads
<1> QED
  BY <1>2, <1>3, FS_Subset, FS_CardinalityType

\* An event that repeats the last one starts no run, any other one does.
LEMMA RunsAppend ==
  ASSUME NEW s \in Seq(Event), NEW e \in Event
  PROVE  /\ NumRuns(Append(s, e)) =
              IF s # <<>> /\ Last(s) = e THEN NumRuns(s) ELSE NumRuns(s) + 1
         /\ Runs(Append(s, e)) = Runs(s) \cup {<<NumRuns(Append(s, e)), e>>}
         /\ s # <<>> /\ Last(s) = e => Runs(Append(s, e)) = Runs(s)
<1> DEFINE t == Append(s, e)
           n == Len(s)
<1>1. /\ n \in Nat /\ Len(t) = n + 1 /\ DOMAIN t = 1 .. n + 1 /\ DOMAIN s = 1 .. n
      /\ \A i \in 1 .. n : t[i] = s[i]
      /\ t[n + 1] = e /\ (s # <<>> <=> n > 0)
  OBVIOUS
<1> HIDE DEF t
<1>2. \A k \in 1 .. n : Heads(t, k) = Heads(s, k)
  <2> SUFFICES ASSUME NEW k \in 1 .. n
               PROVE  Heads(t, k) = Heads(s, k)
    OBVIOUS
  <2>1. \A j \in 1 .. k : (j = 1 \/ t[j] # t[j - 1]) <=> (j = 1 \/ s[j] # s[j - 1])
    BY <1>1
  <2> QED
    BY <2>1 DEF Heads
<1>3. Heads(t, n) = Heads(s, n)
  BY <1>1, <1>2 DEF Heads
<1>4. CASE s # <<>> /\ Last(s) = e
  <2>1. n > 0 /\ s[n] = e
    BY <1>1, <1>4 DEF Last
  <2>2. Heads(t, n + 1) = Heads(s, n)
    <3>1. n + 1 \notin Heads(t, n + 1)
      BY <1>1, <2>1 DEF Heads
    <3>2. Heads(t, n + 1) = Heads(t, n)
      BY <1>1, <3>1 DEF Heads
    <3> QED
      BY <1>3, <3>2
  <2>3. NumRuns(t) = NumRuns(s)
    BY <1>1, <2>2 DEF NumRuns
  <2>4. <<NumRuns(t), e>> = <<Cardinality(Heads(s, n)), s[n]>>
    BY <2>1, <2>3 DEF NumRuns
  <2>5. Runs(t) = Runs(s)
    <3>1. n \in 1 .. n
      BY <1>1, <2>1
    <3>2. \A k \in 1 .. n :
            <<Cardinality(Heads(t, k)), t[k]>> = <<Cardinality(Heads(s, k)), s[k]>>
      BY <1>1, <1>2
    <3>3. <<Cardinality(Heads(t, n + 1)), t[n + 1]>> = <<Cardinality(Heads(s, n)), s[n]>>
      BY <1>1, <2>1, <2>2
    <3>4. 1 .. n + 1 = (1 .. n) \cup {n + 1}
      BY <1>1
    <3> QED
      BY <1>1, <3>1, <3>2, <3>3, <3>4 DEF Runs
  <2>6. <<NumRuns(t), e>> \in Runs(s)
    BY <1>1, <2>1, <2>4 DEF Runs
  <2> QED
    BY <1>4, <2>3, <2>5, <2>6 DEF t
<1>5. CASE ~ (s # <<>> /\ Last(s) = e)
  <2>1. Heads(t, n + 1) = Heads(s, n) \cup {n + 1} /\ n + 1 \notin Heads(s, n)
    <3>1. n + 1 = 1 \/ t[n + 1] # t[(n + 1) - 1]
      BY <1>1, <1>5 DEF Last
    <3>2. n + 1 \in Heads(t, n + 1)
      BY <1>1, <3>1 DEF Heads
    <3>3. Heads(t, n + 1) = Heads(t, n) \cup {n + 1}
      BY <1>1, <3>2 DEF Heads
    <3>4. n + 1 \notin Heads(s, n)
      BY <1>1 DEF Heads
    <3> QED
      BY <1>3, <3>3, <3>4
  <2>2. IsFiniteSet(Heads(s, n))
    BY <1>1, HeadsType
  <2>3. Cardinality(Heads(t, n + 1)) = Cardinality(Heads(s, n)) + 1
    BY <2>1, <2>2, FS_AddElement
  <2>4. NumRuns(t) = NumRuns(s) + 1 /\ NumRuns(t) = Cardinality(Heads(t, n + 1))
    BY <1>1, <2>3 DEF NumRuns
  <2>5. Runs(t) = Runs(s) \cup {<<NumRuns(t), e>>}
    <3>1. \A k \in 1 .. n :
            <<Cardinality(Heads(t, k)), t[k]>> = <<Cardinality(Heads(s, k)), s[k]>>
      BY <1>1, <1>2
    <3>2. <<Cardinality(Heads(t, n + 1)), t[n + 1]>> = <<NumRuns(t), e>>
      BY <1>1, <2>4
    <3>3. 1 .. n + 1 = (1 .. n) \cup {n + 1}
      BY <1>1
    <3> QED
      BY <1>1, <3>1, <3>2, <3>3 DEF Runs
  <2> QED
    BY <1>5, <2>4, <2>5 DEF t
<1> QED
  BY <1>4, <1>5

\* Told so far, without an overflow, is what has happened but for repetitions.
Same(t, h) ==
  /\ Runs(t) = Runs(h)
  /\ NumRuns(t) = NumRuns(h)
  /\ t = <<>> <=> h = <<>>
  /\ t # <<>> => Last(t) = Last(h)

\* The first overflow event of t stands at k.
FirstLost(t, k) ==
  /\ k \in DOMAIN t /\ t[k] = "overflow"
  /\ \A j \in 1 .. k - 1 : t[j] # "overflow"

Complete(t) == \A k \in DOMAIN t : t[k] # "overflow"

Told(t, h) ==
  \/ Complete(t) /\ Same(t, h)
  \/ \E k \in DOMAIN t : FirstLost(t, k) /\ Runs(First(t, k - 1)) \subseteq Runs(h)

\* The event e happens, and is merged, queued, or lost behind an overflow event.
LEMMA ToldStep ==
  ASSUME NEW t \in Seq(Event), NEW h \in Seq(Real), NEW e \in Real, Told(t, h)
  PROVE  /\ t # <<>> /\ Last(t) = e => Told(t, Append(h, e))
         /\ Told(Append(t, e), Append(h, e))
         /\ ~Complete(t) => Told(t, Append(h, e))
         /\ Told(Append(t, "overflow"), Append(h, e))
<1>1. e \in Event /\ "overflow" \in Event /\ e # "overflow" /\ h \in Seq(Event)
  BY DEF Real, Event
<1>2. Runs(h) \subseteq Runs(Append(h, e))
  BY <1>1, RunsAppend
<1>3. ASSUME NEW x \in Event
      PROVE  /\ Append(t, x) \in Seq(Event) /\ Len(t) \in Nat /\ DOMAIN t = 1 .. Len(t)
             /\ DOMAIN Append(t, x) = 1 .. Len(t) + 1
             /\ Append(t, x)[Len(t) + 1] = x
             /\ \A i \in 1 .. Len(t) : Append(t, x)[i] = t[i]
  OBVIOUS
<1>4. ASSUME NEW k \in DOMAIN t, FirstLost(t, k), NEW x \in Event
      PROVE  /\ k \in DOMAIN Append(t, x) /\ FirstLost(Append(t, x), k)
             /\ First(Append(t, x), k - 1) = First(t, k - 1)
  <2>1. k \in 1 .. Len(t) /\ k \in 1 .. Len(t) + 1 /\ \A j \in 1 .. k - 1 : j \in 1 .. Len(t)
    BY <1>3
  <2>2. FirstLost(Append(t, x), k)
    BY <1>3, <1>4, <2>1 DEF FirstLost
  <2>3. First(Append(t, x), k - 1) = First(t, k - 1)
    BY <2>1 DEF First
  <2> QED
    BY <1>3, <2>1, <2>2, <2>3
<1>5. CASE ~Complete(t)
  <2>1. PICK k \in DOMAIN t : FirstLost(t, k) /\ Runs(First(t, k - 1)) \subseteq Runs(h)
    BY <1>5 DEF Told
  <2>2. Runs(First(t, k - 1)) \subseteq Runs(Append(h, e))
    BY <1>2, <2>1
  <2>3. \A x \in Event : Told(Append(t, x), Append(h, e))
    BY <1>4, <2>1, <2>2 DEF Told
  <2>4. Told(t, Append(h, e))
    BY <2>1, <2>2 DEF Told
  <2> QED
    BY <1>1, <2>3, <2>4
<1>6. CASE Complete(t)
  <2>1. Same(t, h)
    BY <1>6 DEF Told, Complete, FirstLost
  <2>2. /\ NumRuns(Append(h, e)) =
             IF h # <<>> /\ Last(h) = e THEN NumRuns(h) ELSE NumRuns(h) + 1
        /\ Runs(Append(h, e)) = Runs(h) \cup {<<NumRuns(Append(h, e)), e>>}
        /\ h # <<>> /\ Last(h) = e => Runs(Append(h, e)) = Runs(h)
    BY <1>1, RunsAppend
  <2>3. /\ NumRuns(Append(t, e)) =
             IF t # <<>> /\ Last(t) = e THEN NumRuns(t) ELSE NumRuns(t) + 1
        /\ Runs(Append(t, e)) = Runs(t) \cup {<<NumRuns(Append(t, e)), e>>}
    BY <1>1, RunsAppend
  <2>4. /\ Append(h, e) # <<>> /\ Last(Append(h, e)) = e
        /\ Append(t, e) # <<>> /\ Last(Append(t, e)) = e
    BY <1>1 DEF Last
  <2>5. ASSUME t # <<>>, Last(t) = e
        PROVE  Told(t, Append(h, e))
    <3>1. h # <<>> /\ Last(h) = e
      BY <2>1, <2>5 DEF Same
    <3>2. Same(t, Append(h, e))
      BY <2>1, <2>2, <2>4, <2>5, <3>1 DEF Same
    <3> QED
      BY <1>6, <3>2 DEF Told
  <2>6. Told(Append(t, e), Append(h, e))
    <3>1. NumRuns(Append(t, e)) = NumRuns(Append(h, e))
      BY <2>1, <2>2, <2>3 DEF Same
    <3>2. Same(Append(t, e), Append(h, e))
      BY <2>1, <2>2, <2>3, <2>4, <3>1 DEF Same
    <3>3. Complete(Append(t, e))
      BY <1>1, <1>3, <1>6 DEF Complete
    <3> QED
      BY <3>2, <3>3 DEF Told
  <2>7. Told(Append(t, "overflow"), Append(h, e))
    <3> DEFINE a == Append(t, "overflow")
               k == Len(t) + 1
    <3>1. /\ Len(t) \in Nat /\ DOMAIN t = 1 .. Len(t) /\ DOMAIN a = 1 .. k /\ a[k] = "overflow"
          /\ \A i \in 1 .. Len(t) : a[i] = t[i]
      BY <1>1, <1>3
    <3>2. First(a, k - 1) = t
      BY DEF First
    <3> HIDE DEF a
    <3>3. k \in DOMAIN a /\ FirstLost(a, k)
      BY <1>6, <3>1 DEF FirstLost, Complete
    <3>4. Runs(First(a, k - 1)) \subseteq Runs(Append(h, e))
      BY <1>2, <2>1, <3>2 DEF Same
    <3> QED
      BY <3>3, <3>4 DEF Told, a
  <2> QED
    BY <1>6, <2>5, <2>6, <2>7
<1> QED
  BY <1>5, <1>6

-----------------------------------------------------------------------------
(* 19-chap: queue, buffer and print *)

\* The queue is over its length only by an overflow event.
Bounded(q) == Len(q) <= MaxQueue + 1 /\ (Len(q) > MaxQueue => Contains(q, "overflow"))

\* The kernel queues an event behind what is told already.
LEMMA QueuedTold ==
  ASSUME NEW r \in Seq(Event), NEW q \in Seq(Event), NEW h \in Seq(Real), NEW e \in Real,
         Told(r \o q, h), Bounded(q)
  PROVE  /\ Queued(q, e) \in Seq(Event) /\ Bounded(Queued(q, e))
         /\ Told(r \o Queued(q, e), Append(h, e))
<1>1. e \in Event /\ "overflow" \in Event /\ MaxQueue \in Nat
  BY Constants DEF Real, Event
<1>2. r \o q \in Seq(Event)
  OBVIOUS
<1>3. \A x \in Event : r \o Append(q, x) = Append(r \o q, x)
  OBVIOUS
<1>4. ASSUME NEW x \in Event
      PROVE  Append(q, x) \in Seq(Event) /\ Len(Append(q, x)) = Len(q) + 1
             /\ Append(q, x)[Len(q) + 1] = x /\ Len(q) \in Nat
  OBVIOUS
<1>a. Len(q) \in Nat /\ (Len(q) >= MaxQueue => ~ (Len(q) < MaxQueue))
  BY <1>1
<1>5. CASE Len(q) >= MaxQueue /\ Contains(q, "overflow")
  <2>1. Queued(q, e) = q
    BY <1>5, <1>a DEF Queued
  <2>2. ~Complete(r \o q)
    <3>1. PICK i \in 1 .. Len(q) : q[i] = "overflow"
      BY <1>5 DEF Contains
    <3>2. Len(r) + i \in DOMAIN (r \o q) /\ (r \o q)[Len(r) + i] = q[i]
      OBVIOUS
    <3> QED
      BY <3>1, <3>2 DEF Complete
  <2>3. Told(r \o q, Append(h, e))
    BY <1>2, <2>2, ToldStep
  <2> QED
    BY <2>1, <2>3
<1>6. CASE Len(q) >= MaxQueue /\ ~Contains(q, "overflow")
  <2>1. Queued(q, e) = Append(q, "overflow")
    BY <1>6, <1>a DEF Queued
  <2>2. Told(Append(r \o q, "overflow"), Append(h, e))
    BY <1>2, ToldStep
  <2>3. Contains(Append(q, "overflow"), "overflow")
    BY <1>1, <1>4 DEF Contains
  <2>4. Len(q) <= MaxQueue
    BY <1>6, <1>1, <1>4 DEF Bounded
  <2>5. Bounded(Append(q, "overflow"))
    BY <1>1, <1>4, <2>3, <2>4 DEF Bounded
  <2> QED
    BY <1>1, <1>3, <1>4, <2>1, <2>2, <2>5
<1>7. CASE Len(q) < MaxQueue /\ q # <<>> /\ Last(q) = e
  <2>1. Queued(q, e) = q
    BY <1>1, <1>4, <1>7 DEF Queued
  <2>2. r \o q # <<>> /\ Last(r \o q) = e
    BY <1>7 DEF Last
  <2>3. Told(r \o q, Append(h, e))
    BY <1>2, <2>2, ToldStep
  <2> QED
    BY <2>1, <2>3
<1>8. CASE Len(q) < MaxQueue /\ ~ (q # <<>> /\ Last(q) = e)
  <2>1. Queued(q, e) = Append(q, e)
    BY <1>1, <1>4, <1>8 DEF Queued
  <2>2. Told(Append(r \o q, e), Append(h, e))
    BY <1>2, ToldStep
  <2>3. Bounded(Append(q, e))
    BY <1>1, <1>4, <1>8 DEF Bounded
  <2> QED
    BY <1>1, <1>3, <1>4, <2>1, <2>2, <2>3
<1> QED
  BY <1>1, <1>4, <1>5, <1>6, <1>7, <1>8

\* The events of s behind the first k.
Rest(s, k) == SubSeq(s, k + 1, Len(s))

LEMMA RestSeq ==
  ASSUME NEW s \in Seq(Event), NEW k \in 0 .. Len(s)
  PROVE  /\ Rest(s, k) \in Seq(Event) /\ Len(Rest(s, k)) = Len(s) - k
         /\ \A i \in 1 .. Len(s) - k : Rest(s, k)[i] = s[k + i]
BY DEF Rest

\* One event goes from the buffer to what is printed.
LEMMA RestNext ==
  ASSUME NEW p \in Seq(Event), NEW s \in Seq(Event), NEW k \in 0 .. Len(s) - 1
  PROVE  Append(p, s[k + 1]) \o Rest(s, k + 1) = p \o Rest(s, k)
<1> DEFINE a == Append(p, s[k + 1])
           u == Rest(s, k + 1)
           v == Rest(s, k)
<1>1. /\ k \in Nat /\ Len(p) \in Nat /\ Len(s) \in Nat /\ k + 1 <= Len(s) /\ s[k + 1] \in Event
      /\ k \in 0 .. Len(s) /\ k + 1 \in 0 .. Len(s)
  OBVIOUS
<1>2. /\ a \in Seq(Event) /\ Len(a) = Len(p) + 1 /\ a[Len(p) + 1] = s[k + 1]
      /\ \A i \in 1 .. Len(p) : a[i] = p[i]
  BY <1>1
<1>3. /\ u \in Seq(Event) /\ Len(u) = Len(s) - (k + 1)
      /\ \A i \in 1 .. Len(s) - (k + 1) : u[i] = s[(k + 1) + i]
  BY <1>1, RestSeq
<1>4. /\ v \in Seq(Event) /\ Len(v) = Len(s) - k
      /\ \A i \in 1 .. Len(s) - k : v[i] = s[k + i]
  BY <1>1, RestSeq
<1> HIDE DEF a, u, v
<1>5. /\ a \o u \in Seq(Event) /\ p \o v \in Seq(Event) /\ Len(a \o u) = Len(p \o v)
      /\ Len(a \o u) = Len(p) + (Len(s) - k)
  <2>1. a \o u \in Seq(Event) /\ Len(a \o u) = Len(a) + Len(u)
    BY <1>2, <1>3, ConcatSeq
  <2>2. p \o v \in Seq(Event) /\ Len(p \o v) = Len(p) + Len(v)
    BY <1>4, ConcatSeq
  <2> QED
    BY <1>1, <1>2, <1>3, <1>4, <2>1, <2>2
<1>b. /\ \A x \in 1 .. Len(u) : (a \o u)[Len(a) + x] = u[x]
      /\ \A x \in 1 .. Len(v) : (p \o v)[Len(p) + x] = v[x]
  BY <1>2, <1>3, <1>4, ConcatSeq
<1>6. \A i \in 1 .. Len(p) + (Len(s) - k) : (a \o u)[i] = (p \o v)[i]
  <2> SUFFICES ASSUME NEW i \in 1 .. Len(p) + (Len(s) - k)
               PROVE  (a \o u)[i] = (p \o v)[i]
    OBVIOUS
  <2>1. CASE i <= Len(p)
    BY <1>1, <1>2, <1>3, <1>4, <2>1
  <2>2. CASE i = Len(p) + 1
    <3>1. (a \o u)[i] = s[k + 1]
      BY <1>1, <1>2, <1>3, <2>2
    <3>2. v[1] = s[k + 1] /\ 1 \in 1 .. Len(v)
      BY <1>1, <1>4
    <3>3. (p \o v)[Len(p) + 1] = v[1]
      BY <1>1, <1>4, <3>2
    <3> QED
      BY <2>2, <3>1, <3>2, <3>3
  <2>3. CASE i > Len(p) + 1
    <3> DEFINE j == i - (Len(p) + 1)
    <3>1. j \in 1 .. Len(s) - (k + 1) /\ i = (Len(p) + 1) + j /\ j + 1 \in 1 .. Len(s) - k
          /\ i = Len(p) + (j + 1) /\ k + (j + 1) = (k + 1) + j
      BY <1>1, <2>3
    <3> HIDE DEF j
    <3>2. (a \o u)[i] = u[j]
      <4>1. j \in 1 .. Len(u) /\ i = Len(a) + j
        BY <1>2, <1>3, <3>1
      <4> QED
        BY <1>b, <4>1
    <3>3. (p \o v)[i] = v[j + 1]
      <4>1. j + 1 \in 1 .. Len(v) /\ i = Len(p) + (j + 1)
        BY <1>4, <3>1
      <4> QED
        BY <1>b, <4>1
    <3>4. u[j] = s[(k + 1) + j]
      BY <1>3, <3>1
    <3>5. v[j + 1] = s[k + (j + 1)]
      BY <1>4, <3>1
    <3> QED
      BY <3>1, <3>2, <3>3, <3>4, <3>5
  <2>4. i <= Len(p) \/ i = Len(p) + 1 \/ i > Len(p) + 1
    BY <1>1
  <2> QED
    BY <2>1, <2>2, <2>3, <2>4
<1>7. a \o u = p \o v
  BY <1>5, <1>6, SameSeq
<1> QED
  BY <1>7 DEF a, u, v

\* n events go from the queue to the buffer.
LEMMA ReadNext ==
  ASSUME NEW p \in Seq(Event), NEW q \in Seq(Event), NEW n \in 0 .. Len(q)
  PROVE  (p \o First(q, n)) \o Rest(q, n) = p \o q
<1>1. First(q, n) \in Seq(Event) /\ Rest(q, n) \in Seq(Event)
  BY FrontSeq, RestSeq
<1>2. First(q, n) \o Rest(q, n) = q
  <2> DEFINE f == First(q, n)
             r == Rest(q, n)
  <2>1. /\ Len(f) = n /\ Len(r) = Len(q) - n /\ n \in Nat /\ Len(q) \in Nat /\ n <= Len(q)
        /\ \A i \in 1 .. n : f[i] = q[i]
        /\ \A i \in 1 .. Len(q) - n : r[i] = q[n + i]
    <3>1. Len(f) = n /\ \A i \in 1 .. n : f[i] = q[i]
      BY FrontSeq
    <3>2. Len(r) = Len(q) - n /\ \A i \in 1 .. Len(q) - n : r[i] = q[n + i]
      BY RestSeq
    <3>3. n \in Nat /\ Len(q) \in Nat /\ n <= Len(q)
      OBVIOUS
    <3> QED
      BY <3>1, <3>2, <3>3
  <2>2. f \in Seq(Event) /\ r \in Seq(Event)
    BY <1>1
  <2> HIDE DEF f, r
  <2>3. f \o r \in Seq(Event) /\ Len(f \o r) = Len(q)
    BY <2>1, <2>2, ConcatSeq
  <2>4. ASSUME NEW i \in 1 .. Len(q)
        PROVE  (f \o r)[i] = q[i]
    <3>1. CASE i <= n
      BY <2>1, <2>2, <3>1
    <3>2. CASE i > n
      <4> DEFINE j == i - n
      <4>1. j \in 1 .. Len(q) - n /\ i = n + j
        BY <2>1, <3>2
      <4> HIDE DEF j
      <4>2. (f \o r)[i] = r[j]
        BY <2>1, <2>2, <4>1
      <4> QED
        BY <2>1, <4>1, <4>2
    <3> QED
      BY <2>1, <3>1, <3>2
  <2>5. f \o r = q
    BY <2>3, <2>4, SameSeq
  <2> QED
    BY <2>5 DEF f, r
<1>3. (p \o First(q, n)) \o Rest(q, n) = p \o (First(q, n) \o Rest(q, n))
  BY <1>1
<1> QED
  BY <1>2, <1>3

\* Where the print stands in the buffer: its offset is that of the event number k + 1.
LEMMA AtEvent ==
  ASSUME buf \in Seq(Event), NEW k \in 0 .. Len(buf), idx = Fill(buf, k)
  PROVE  /\ Unprinted = Rest(buf, k)
         /\ k < Len(buf) => EventAt(idx) = buf[k + 1]
<1>1. \A m \in 0 .. Len(buf) : Fill(buf, m) = idx => m = k
  <2> SUFFICES ASSUME NEW m \in 0 .. Len(buf), Fill(buf, m) = idx, m # k
               PROVE  FALSE
    OBVIOUS
  <2>1. Fill(buf, m) \in Nat /\ Fill(buf, k) \in Nat
    BY FillType
  <2>2. m < k \/ k < m
    OBVIOUS
  <2> QED
    BY <2>1, <2>2, FillGrows
<1>2. \A m \in 0 .. Len(buf) : SizeOfAll(SubSeq(buf, 1, m)) = idx <=> m = k
  BY <1>1 DEF Fill, First
<1>3. (CHOOSE m \in 0 .. Len(buf) : SizeOfAll(SubSeq(buf, 1, m)) = idx) = k
  BY <1>2
<1>4. Unprinted = SubSeq(buf, 1 + k, Len(buf))
  BY <1>2, <1>3 DEF Unprinted
<1>5. Unprinted = Rest(buf, k)
  BY <1>4 DEF Rest
<1>6. ASSUME k < Len(buf)
      PROVE  EventAt(idx) = buf[k + 1]
  <2>1. \A m \in 1 .. Len(buf) : SizeOfAll(SubSeq(buf, 1, m - 1)) = idx <=> m = k + 1
    <3>1. \A m \in 1 .. Len(buf) : m - 1 \in 0 .. Len(buf) /\ (m - 1 = k <=> m = k + 1)
      OBVIOUS
    <3> QED
      BY <1>2, <3>1
  <2>2. k + 1 \in 1 .. Len(buf)
    BY <1>6
  <2>3. (CHOOSE m \in 1 .. Len(buf) : SizeOfAll(SubSeq(buf, 1, m - 1)) = idx) = k + 1
    BY <2>1, <2>2
  <2> QED
    BY <2>1, <2>2, <2>3 DEF EventAt
<1> QED
  BY <1>5, <1>6

\* The first k events of the buffer are printed, all of them outside the loop.
At(k) ==
  /\ idx = Fill(buf, k)
  /\ pc # "walk" => k = Len(buf)
  /\ Told((printed \o Rest(buf, k)) \o queue, happened)

DirTypes ==
  /\ pc \in {"inotify_init", "inotify_add_watch", "read", "walk", "exited"}
  /\ fd \in BOOLEAN
  /\ watched \in BOOLEAN
  /\ queue \in Seq(Event) /\ buf \in Seq(Event) /\ printed \in Seq(Event)
  /\ happened \in Seq(Real)
  /\ Bounded(queue)
  /\ SizeOfAll(buf) <= BufSize
  /\ before \in Nat

DirInv ==
  /\ DirTypes
  /\ \E k \in 0 .. Len(buf) : At(k)
  /\ pc = "exited" => ~fd

LEMMA InitDirInv == Init => DirInv
<1> SUFFICES ASSUME Init
             PROVE  DirInv
  OBVIOUS
<1>1. /\ pc = "inotify_init" /\ fd = FALSE /\ watched = FALSE /\ idx = 0
      /\ queue = <<>> /\ buf = <<>> /\ printed = <<>> /\ happened = <<>>
      /\ before = 0
  BY DEF Init
<1>2. <<>> \in Seq(Event) /\ <<>> \in Seq(Real) /\ Len(<<>>) = 0 /\ DOMAIN <<>> = {}
  OBVIOUS
<1>3. Rest(<<>>, 0) = <<>> /\ (<<>> \o <<>>) \o <<>> = <<>>
  BY DEF Rest
<1>4. Told(<<>>, <<>>)
  BY <1>2 DEF Told, Complete, Same
<1>5. Fill(<<>>, 0) = 0
  BY <1>2, FillEnds
<1>6. At(0)
  BY <1>1, <1>2, <1>3, <1>4, <1>5 DEF At
<1>7. DirTypes
  <2>1. Bounded(<<>>)
    BY <1>2, Constants DEF Bounded
  <2>2. SizeOfAll(<<>>) <= BufSize
    BY Sizes, NothingInEmpty
  <2> QED
    BY <1>1, <1>2, <2>1, <2>2 DEF DirTypes
<1> QED
  BY <1>1, <1>2, <1>6, <1>7 DEF DirInv

LEMMA NextDirInv == DirInv /\ [Next]_vars => DirInv'
<1> SUFFICES ASSUME DirInv, [Next]_vars
             PROVE  DirInv'
  OBVIOUS
<1>a. DirTypes /\ (pc = "exited" => ~fd)
  BY DEF DirInv
<1>b. /\ queue \in Seq(Event) /\ buf \in Seq(Event) /\ printed \in Seq(Event)
      /\ happened \in Seq(Real) /\ Bounded(queue) /\ SizeOfAll(buf) <= BufSize
  BY <1>a DEF DirTypes
<1>c. PICK k \in 0 .. Len(buf) : At(k)
  BY DEF DirInv
<1>d. idx = Fill(buf, k) /\ Told((printed \o Rest(buf, k)) \o queue, happened)
      /\ (pc # "walk" => k = Len(buf))
  BY <1>c DEF At
<1>e. Rest(buf, k) \in Seq(Event) /\ printed \o Rest(buf, k) \in Seq(Event)
  <2>1. Rest(buf, k) \in Seq(Event)
    BY <1>b, RestSeq
  <2> QED
    BY <1>b, <2>1, ConcatSeq
\* Steps that move no event.
<1>1. ASSUME UNCHANGED <<queue, buf, idx, printed, happened, before>>, pc' # "walk" => k = Len(buf)
      PROVE  \E m \in 0 .. Len(buf') : At(m)'
  <2>1. At(k)'
    BY <1>1, <1>d DEF At
  <2> QED
    BY <1>1, <2>1
<1>2. CASE InotifyInit \/ AddWatch
  BY <1>2, <1>1, <1>a, <1>d DEF InotifyInit, AddWatch, DirInv, DirTypes
<1>3. CASE ReadFails
  <2>1. ~fd /\ pc = "read" /\ pc' = "exited"
    BY <1>3, <1>b, BatchFits DEF ReadFails
  <2> QED
    BY <1>3, <2>1, <1>1, <1>a, <1>d DEF ReadFails, DirInv, DirTypes
<1>4. CASE Walked
  <2>1. pc = "walk" /\ pc' = "read" /\ idx >= SizeOfAll(buf)
        /\ UNCHANGED <<fd, watched, queue, buf, idx, printed, happened, before>>
    BY <1>4 DEF Walked
  <2>2. k = Len(buf)
    <3> SUFFICES ASSUME k # Len(buf)
                 PROVE  FALSE
      OBVIOUS
    <3>1. Len(buf) \in 0 .. Len(buf) /\ k < Len(buf)
      BY <1>b
    <3>2. Fill(buf, k) < Fill(buf, Len(buf)) /\ Fill(buf, k) \in Nat /\ Fill(buf, Len(buf)) \in Nat
      BY <1>b, <3>1, FillGrows, FillType
    <3>3. Fill(buf, Len(buf)) = SizeOfAll(buf)
      BY <1>b, FillEnds
    <3> QED
      BY <1>d, <2>1, <3>2, <3>3
  <2> QED
    BY <1>1, <1>a, <2>1, <2>2 DEF DirInv, DirTypes
<1>5. CASE PrintEvent
  <2>1. pc = "walk" /\ idx < SizeOfAll(buf) /\ printed' = Append(printed, EventAt(idx))
        /\ idx' = idx + SizeOf(EventAt(idx))
        /\ UNCHANGED <<pc, fd, watched, queue, buf, happened, before>>
    BY <1>5 DEF PrintEvent
  <2>2. k < Len(buf) /\ k \in 0 .. Len(buf) - 1 /\ k + 1 \in 0 .. Len(buf) /\ buf[k + 1] \in Event
    <3>1. Fill(buf, Len(buf)) = SizeOfAll(buf) /\ Fill(buf, k) \in Nat
      BY <1>b, FillEnds, FillType
    <3>2. k # Len(buf)
      BY <1>d, <2>1, <3>1
    <3>3. k < Len(buf) /\ k + 1 \in 1 .. Len(buf)
      BY <1>b, <3>2
    <3> QED
      BY <1>b, <3>3
  <2>3. EventAt(idx) = buf[k + 1]
    BY <1>b, <1>d, <2>2, AtEvent
  <2>4. idx' = Fill(buf, k + 1)
    BY <1>b, <1>d, <2>1, <2>2, <2>3, FillNext
  <2>5. printed' \o Rest(buf, k + 1) = printed \o Rest(buf, k)
    BY <1>b, <2>1, <2>2, <2>3, RestNext
  <2>6. At(k + 1)'
    BY <1>d, <2>1, <2>4, <2>5 DEF At
  <2>7. printed' \in Seq(Event)
    <3>1. Append(printed, buf[k + 1]) \in Seq(Event)
      BY <1>b, <2>2
    <3> QED
      BY <2>1, <2>3, <3>1
  <2>8. DirTypes'
    BY <1>a, <2>1, <2>7 DEF DirTypes
  <2> QED
    BY <1>a, <2>1, <2>2, <2>6, <2>8 DEF DirInv
<1>6. CASE Read
  <2> DEFINE n == Batch(queue)
  <2>1. pc = "read" /\ fd /\ pc' = "walk" /\ n > 0
        /\ buf' = First(queue, n) /\ queue' = Rest(queue, n) /\ idx' = 0
        /\ UNCHANGED <<fd, watched, printed, happened, before>>
    BY <1>6 DEF Read, First, Rest
  <2>2. n \in 0 .. Len(queue) /\ Fill(queue, n) <= BufSize
    BY <1>b, BatchFits
  <2> HIDE DEF n
  <2>3. buf' \in Seq(Event) /\ queue' \in Seq(Event) /\ Len(queue') = Len(queue) - n
    BY <1>b, <2>1, <2>2, FrontSeq, RestSeq
  <2>4. SizeOfAll(buf') <= BufSize
    BY <2>1, <2>2 DEF Fill
  <2>5. Bounded(queue')
    <3>1. Len(queue) \in Nat /\ MaxQueue \in Nat /\ n \in Nat
      BY <1>b, <2>2, Constants
    <3> QED
      BY <1>b, <2>1, <2>2, <2>3, <3>1 DEF Bounded
  <2>6. DirTypes'
    BY <1>a, <2>1, <2>3, <2>4, <2>5 DEF DirTypes
  <2>7. Rest(buf, k) = <<>> /\ printed \o <<>> = printed
    <3>1. k = Len(buf)
      BY <1>d, <2>1
    <3> QED
      BY <1>b, <3>1 DEF Rest
  <2>8. Rest(buf', 0) = buf'
    BY <2>3 DEF Rest
  <2>9. (printed \o Rest(buf', 0)) \o queue' = (printed \o Rest(buf, k)) \o queue
    <3>1. (printed \o First(queue, n)) \o Rest(queue, n) = printed \o queue
      BY <1>b, <2>2, ReadNext
    <3> QED
      BY <2>1, <2>7, <2>8, <3>1
  <2>10. Fill(buf', 0) = 0 /\ 0 \in 0 .. Len(buf')
    BY <2>3, FillEnds
  <2>11. At(0)'
    BY <1>d, <2>1, <2>9, <2>10 DEF At
  <2> QED
    BY <2>1, <2>6, <2>10, <2>11 DEF DirInv
<1>7. ASSUME NEW q \in Seq(Event), Bounded(q), NEW h \in Seq(Real), queue' = q, happened' = h,
             watched' \in BOOLEAN, Told((printed \o Rest(buf, k)) \o q, h),
             UNCHANGED <<pc, fd, buf, idx, printed>>, before' \in Nat
      PROVE  DirInv'
  <2>1. At(k)'
    BY <1>7, <1>d DEF At
  <2>2. DirTypes'
    BY <1>7, <1>a DEF DirTypes
  <2> QED
    BY <1>7, <1>a, <2>1, <2>2 DEF DirInv
<1>8. CASE Use
  <2>1. PICK e \in Activity : queue' = Queued(queue, e) /\ happened' = Append(happened, e)
    BY <1>8 DEF Use
  <2>2. e \in Real
    BY <2>1 DEF Activity, Real, Event
  <2>3. /\ Queued(queue, e) \in Seq(Event) /\ Bounded(Queued(queue, e))
        /\ Told((printed \o Rest(buf, k)) \o Queued(queue, e), Append(happened, e))
    BY <1>b, <1>d, <1>e, <2>2, QueuedTold
  <2>4. Append(happened, e) \in Seq(Real)
    BY <1>b, <2>2
  <2>5. UNCHANGED <<pc, fd, watched, buf, idx, printed, before>> /\ watched \in BOOLEAN
        /\ before \in Nat
    BY <1>8, <1>a DEF Use, DirTypes
  <2> QED
    BY <1>7, <2>1, <2>3, <2>4, <2>5
<1>9. CASE RemoveDirectory
  <2> DEFINE d == "delete_self"
             i == "ignored"
             q == Queued(queue, d)
             h == Append(happened, d)
  <2>1. d \in Real /\ i \in Real
    BY DEF Real, Event
  <2>2. /\ q \in Seq(Event) /\ Bounded(q) /\ Told((printed \o Rest(buf, k)) \o q, h)
    BY <1>b, <1>d, <1>e, <2>1, QueuedTold
  <2>3. h \in Seq(Real)
    BY <1>b, <2>1
  <2> HIDE DEF q, h
  <2>4. /\ Queued(q, i) \in Seq(Event) /\ Bounded(Queued(q, i))
        /\ Told((printed \o Rest(buf, k)) \o Queued(q, i), Append(h, i))
    BY <1>e, <2>1, <2>2, <2>3, QueuedTold
  <2>5. Append(h, i) \in Seq(Real)
    BY <2>1, <2>3
  <2>6. happened \o <<"delete_self", "ignored">> = Append(h, i)
    BY <1>b DEF h
  <2>7. queue' = Queued(q, i) /\ happened' = Append(h, i) /\ watched' \in BOOLEAN
        /\ UNCHANGED <<pc, fd, buf, idx, printed>> /\ before' = Len(printed \o Unprinted)
    BY <1>9, <2>6 DEF RemoveDirectory, q
  <2>8. before' \in Nat
    <3>1. Unprinted = Rest(buf, k)
      BY <1>b, <1>d, AtEvent
    <3> QED
      BY <1>e, <2>7, <3>1
  <2> QED
    BY <1>7, <2>4, <2>5, <2>7, <2>8
<1>10. CASE UNCHANGED vars
  BY <1>10, <1>1, <1>a, <1>d DEF vars, DirInv, DirTypes
<1> QED
  BY <1>2, <1>3, <1>4, <1>5, <1>6, <1>8, <1>9, <1>10 DEF Next, Program

LEMMA DirInvariance == Spec => []DirInv
BY InitDirInv, NextDirInv, PTL DEF Spec

-----------------------------------------------------------------------------
(* 19-chap: the theorems *)

\* Type correctness of 19-chap/main.c: the queue never holds more than its limit and
\* one overflow event, the index never leaves the buffer.
THEOREM TypeCorrect == Spec => []TypeOK
<1>1. DirInv => TypeOK
  <2> SUFFICES ASSUME DirInv
               PROVE  TypeOK
    OBVIOUS
  <2>1. DirTypes
    BY DEF DirInv
  <2>2. PICK k \in 0 .. Len(buf) : idx = Fill(buf, k)
    BY DEF DirInv, At
  <2>3. buf \in Seq(Event) /\ SizeOfAll(buf) <= BufSize
    BY <2>1 DEF DirTypes
  <2>4. Len(buf) \in 0 .. Len(buf) /\ (k < Len(buf) \/ k = Len(buf))
    BY <2>3
  <2>5. Fill(buf, k) \in Nat /\ Fill(buf, Len(buf)) \in Nat
        /\ (k < Len(buf) => Fill(buf, k) < Fill(buf, Len(buf)))
        /\ Fill(buf, Len(buf)) = SizeOfAll(buf)
    BY <2>3, <2>4, FillType, FillGrows, FillEnds
  <2>6. idx \in 0 .. BufSize
    BY <2>2, <2>3, <2>4, <2>5, Sizes
  <2>7. happened \in Seq(Event)
    BY <2>1 DEF DirTypes, Real
  <2>8. {queue, buf, printed, happened} \subseteq Seq(DOMAIN NameLen)
    BY <2>1, <2>7, Sizes DEF DirTypes
  <2> QED
    BY <2>1, <2>6, <2>8 DEF TypeOK, DirTypes, Bounded
<1> QED
  BY <1>1, DirInvariance, PTL

\* What is printed, buffered and queued is what has happened in the directory, in its
\* order and but for merged repetitions, up to the first overflow event.
THEOREM AllIsTold == Spec => []NothingSkipped
<1>1. DirInv => NothingSkipped
  <2> SUFFICES ASSUME DirInv
               PROVE  NothingSkipped
    OBVIOUS
  <2>1. PICK k \in 0 .. Len(buf) : At(k)
    BY DEF DirInv
  <2>2. buf \in Seq(Event) /\ printed \in Seq(Event) /\ queue \in Seq(Event)
    BY DEF DirInv, DirTypes
  <2>3. Unprinted = Rest(buf, k)
    BY <2>1, <2>2, AtEvent DEF At
  <2> DEFINE seen == (printed \o Unprinted) \o queue
             lost == {m \in DOMAIN seen : seen[m] = "overflow"}
  <2>4. Told(seen, happened)
    BY <2>1, <2>3 DEF At
  <2>5. seen \in Seq(Event)
    <3>1. Rest(buf, k) \in Seq(Event)
      BY <2>1, <2>2, RestSeq
    <3>2. printed \o Rest(buf, k) \in Seq(Event)
      BY <2>2, <3>1, ConcatSeq
    <3> QED
      BY <2>2, <2>3, <3>2, ConcatSeq
  <2>6. NothingSkipped <=>
          (IF lost = {} THEN Runs(seen) = Runs(happened)
                        ELSE Runs(SubSeq(seen, 1, Min(lost) - 1)) \subseteq Runs(happened))
    BY DEF NothingSkipped
  <2> HIDE DEF seen
  <2>7. CASE Complete(seen) /\ Same(seen, happened)
    <3>1. lost = {} /\ Runs(seen) = Runs(happened)
      BY <2>7 DEF Complete, Same
    <3> QED
      BY <2>6, <3>1
  <2>8. CASE \E m \in DOMAIN seen :
               FirstLost(seen, m) /\ Runs(First(seen, m - 1)) \subseteq Runs(happened)
    <3>1. PICK m \in DOMAIN seen :
            FirstLost(seen, m) /\ Runs(First(seen, m - 1)) \subseteq Runs(happened)
      BY <2>8
    <3>2. DOMAIN seen = 1 .. Len(seen) /\ Len(seen) \in Nat
      BY <2>5
    <3>3. m \in lost /\ \A x \in lost : m <= x
      BY <3>1, <3>2 DEF FirstLost
    <3>4. lost \subseteq Nat
      BY <3>2
    <3>5. Min(lost) = m
      BY <3>3, <3>4 DEF Min
    <3> QED
      BY <2>6, <3>1, <3>3, <3>5 DEF First
  <2> QED
    BY <2>4, <2>7, <2>8 DEF Told
<1> QED
  BY <1>1, DirInvariance, PTL

\* read() never fails for want of room: the program ends only if it has no descriptor.
THEOREM RoomForOne == Spec => [](pc = "exited" => ~fd)
<1>1. DirInv => (pc = "exited" => ~fd)
  BY DEF DirInv
<1> QED
  BY <1>1, DirInvariance, PTL

-----------------------------------------------------------------------------
(* 20-chap: the gate *)

\* Before the handler is installed nothing counts.
Unarmed ==
  stage # "spin" /\ stage # "killed" =>
    /\ handler = "idle" /\ cnt = 1 /\ presses = 0 /\ delivered = 0 /\ ~stuck
    /\ disp # "handler"
    /\ stage \in {"sleep", "catch"} => disp = "ignore" /\ ~pending

\* The signals that the handler must have seen to stand where it stands.
Seen == cnt - 1 + (IF handler = "entered" THEN 1 ELSE 0)

\* While the program spins its counter tells the signals delivered; the
\* disposition is the default again only after the last refusal.
CountsDelivered ==
  stage = "spin" =>
    /\ disp = "handler" /\ ~stuck => delivered = Seen
    /\ disp = "default" => cnt = Nopes + 1 /\ handler # "entered"
    /\ disp = "default" /\ ~stuck => delivered = Nopes + 1
    /\ stuck => delivered >= Nopes + 1 /\ cnt = Nopes + 1
    /\ disp # "ignore"

GateInv == GateTypeOK /\ Unarmed /\ CountsDelivered /\ KilledByLast /\ NoEarlierPressCounts

LEMMA Numbers == Nopes \in Nat /\ Nopes <= 254 /\ Cap \in Nat /\ Cap > Nopes + 2
BY NopesAssumption, CapAssumption

LEMMA CountType ==
  \A n \in 0 .. Cap : Count(n) \in 0 .. Cap /\ (n < Cap => Count(n) = n + 1) /\ Count(n) >= n
BY Numbers DEF Count

LEMMA InitGateInv == GateInit => GateInv
<1> SUFFICES ASSUME GateInit
             PROVE  GateInv
  OBVIOUS
<1>1. /\ stage = "ignore" /\ handler = "idle" /\ cnt = 1 /\ presses = 0 /\ delivered = 0
      /\ disp \in {"default", "ignore"} /\ pending = FALSE /\ stuck = FALSE
  BY DEF GateInit
<1>2. cnt \in 1 .. Nopes + 1 /\ 0 \in 0 .. Cap
  BY <1>1, Numbers
<1>3. GateTypeOK
  BY <1>1, <1>2 DEF GateTypeOK
<1>4. Unarmed /\ CountsDelivered /\ KilledByLast /\ NoEarlierPressCounts
  BY <1>1 DEF Unarmed, CountsDelivered, KilledByLast, Armed, NoEarlierPressCounts
<1> QED
  BY <1>3, <1>4 DEF GateInv

LEMMA GateNextTypeOK == GateInv /\ [GateNext]_gateVars => GateTypeOK'
<1> SUFFICES ASSUME GateInv, [GateNext]_gateVars
             PROVE  GateTypeOK'
  OBVIOUS
<1> USE Numbers DEF GateInv, GateTypeOK, Main
<1>1. CASE Ignore \/ Sleep \/ Catch
  BY <1>1 DEF Ignore, Sleep, Catch, SigactionFails
<1>2. CASE Die \/ Enter
  BY <1>2, CountType DEF Die, Enter, Delivers
<1>3. CASE Nope
  BY <1>3 DEF Nope
<1>4. CASE Stop \/ Return
  BY <1>4 DEF Stop, Return
<1>5. CASE Press
  <2>1. pending' \in BOOLEAN
    BY <1>5 DEF Press
  <2> QED
    BY <1>5, <2>1, CountType DEF Press
<1>6. CASE Ended \/ UNCHANGED gateVars
  BY <1>6 DEF Ended, gateVars
<1> QED
  BY <1>1, <1>2, <1>3, <1>4, <1>5, <1>6 DEF GateNext, GateProgram

LEMMA NextCountsDelivered ==
  GateInv /\ [GateNext]_gateVars =>
    Unarmed' /\ CountsDelivered' /\ KilledByLast' /\ NoEarlierPressCounts'
<1> SUFFICES ASSUME GateInv, [GateNext]_gateVars
             PROVE  Unarmed' /\ CountsDelivered' /\ KilledByLast' /\ NoEarlierPressCounts'
  OBVIOUS
<1> USE Numbers DEF GateInv, GateTypeOK, Unarmed, CountsDelivered, Seen, KilledByLast, Armed,
    NoEarlierPressCounts
<1>1. CASE Ignore \/ Sleep
  BY <1>1 DEF Ignore, Sleep, SigactionFails, Main
<1>2. CASE Catch
  BY <1>2 DEF Catch, SigactionFails, Main
<1>3. CASE Die
  BY <1>3, CountType DEF Die, Delivers, Alive
<1>4. CASE Enter
  BY <1>4, CountType DEF Enter, Delivers, Alive
<1>5. CASE Nope
  BY <1>5 DEF Nope
<1>6. CASE Stop
  BY <1>6 DEF Stop
<1>7. CASE Return
  BY <1>7 DEF Return
<1>8. CASE Press
  BY <1>8, CountType DEF Press, Alive
<1>9. CASE Ended \/ UNCHANGED gateVars
  BY <1>9 DEF Ended, gateVars
<1> QED
  BY <1>1, <1>2, <1>3, <1>4, <1>5, <1>6, <1>7, <1>8, <1>9 DEF GateNext, GateProgram

\* 20-chap: the inductive invariant.
THEOREM GateInvariance == GateSpec => []GateInv
<1>1. GateInv /\ [GateNext]_gateVars => GateInv'
  BY GateNextTypeOK, NextCountsDelivered DEF GateInv
<1> QED
  BY <1>1, InitGateInv, PTL DEF GateSpec

\* Type correctness of 20-chap/main.c; in particular the uint8_t counter does not wrap.
THEOREM GateTypeCorrect == GateSpec => []GateTypeOK
<1>1. GateInv => GateTypeOK
  BY DEF GateInv
<1> QED
  BY <1>1, GateInvariance, PTL

\* 20-chap: the gate opens at signal Nopes + 2.
THEOREM GateHolds == GateSpec => []KilledByLast
<1>1. GateInv => KilledByLast
  BY DEF GateInv
<1> QED
  BY <1>1, GateInvariance, PTL

\* 20-chap: no Control-C from before the handler was there is charged to the user.
THEOREM NotCharged == GateSpec => []NoEarlierPressCounts
<1>1. GateInv => NoEarlierPressCounts
  BY DEF GateInv
<1> QED
  BY <1>1, GateInvariance, PTL
=============================================================================
