----------------------------- MODULE HostProofs -----------------------------
(***************************************************************************)
(* Theorems about HostIf, for every size of the queues.                    *)
(***************************************************************************)
EXTENDS HostIf, SequenceTheorems, WellFoundedInduction, TLAPS

(* Indices and identifiers go round at most once.                          *)
LEMMA ModOnce ==
    ASSUME NEW m \in Nat \ {0}, NEW x \in 0..(2 * m - 1)
    PROVE  x % m = IF x < m THEN x ELSE x - m
OBVIOUS

LEMMA ModSum ==
    ASSUME NEW m \in Nat \ {0}, NEW a \in 0..m, NEW b \in 0..m, a + b < 2 * m
    PROVE  (a + b) % m = IF a + b < m THEN a + b ELSE a + b - m
<1> DEFINE x == a + b
<1>1. x \in 0..(2 * m - 1)
  OBVIOUS
<1> HIDE DEF x
<1>2. x % m = IF x < m THEN x ELSE x - m
  BY <1>1, ModOnce
<1>3. QED
  BY <1>2 DEF x

LEMMA SplitSequence ==
    ASSUME NEW S, NEW w \in Seq(S), NEW a \in Seq(S), NEW b \in Seq(S),
           Len(w) = Len(a) + Len(b),
           \A i \in 1..Len(a) : w[i] = a[i],
           \A i \in 1..Len(b) : w[Len(a) + i] = b[i]
    PROVE  w = a \o b
<1>1. /\ a \o b \in Seq(S) /\ Len(a \o b) = Len(w)
      /\ \A i \in 1..Len(a) + Len(b) : (a \o b)[i] = IF i <= Len(a) THEN a[i] ELSE b[i - Len(a)]
  BY ConcatProperties
<1>2. Len(a) \in Nat /\ Len(b) \in Nat
  BY LenProperties
<1>3. ASSUME NEW i \in 1..Len(w) PROVE w[i] = (a \o b)[i]
  <2>1. CASE i <= Len(a)
    BY <1>1, <1>2, <2>1
  <2>2. CASE ~ (i <= Len(a))
    <3>1. i - Len(a) \in 1..Len(b) /\ Len(a) + (i - Len(a)) = i
      BY <1>2, <2>2
    <3>2. QED
      BY <1>1, <2>2, <3>1
  <2>3. QED
    BY <2>1, <2>2
<1> DEFINE v == a \o b
<1>4. v \in Seq(S) /\ Len(v) = Len(w) /\ \A i \in 1..Len(w) : w[i] = v[i]
  BY <1>1, <1>3
<1> HIDE DEF v
<1>5. w = v
  BY <1>4, SeqEqual
<1>6. QED
  BY <1>5 DEF v

LEMMA RemoveFirstEntry ==
    ASSUME NEW S, NEW s \in Seq(S), s # <<>>
    PROVE  /\ RemoveAt(s, 1) \in Seq(S) /\ Len(RemoveAt(s, 1)) = Len(s) - 1
           /\ \A i \in 1..Len(s) - 1 : RemoveAt(s, 1)[i] = s[i + 1]
<1>1. Len(s) \in Nat /\ Len(s) > 0 /\ \A i \in 1..Len(s) : s[i] \in S
  BY EmptySeq, LenProperties, ElementOfSeq
<1> DEFINE a == SubSeq(s, 1, 1 - 1)
           b == SubSeq(s, 1 + 1, Len(s))
<1>2. a = <<>>
  BY SubSeqEmpty
<1>3. /\ b \in Seq(S) /\ Len(b) = Len(s) - 1
      /\ \A i \in 1..Len(s) - 1 : b[i] = s[i + 1]
  <2>1. \A i \in 2..Len(s) : s[i] \in S
    BY <1>1
  <2>2. /\ SubSeq(s, 2, Len(s)) \in Seq(S)
        /\ Len(SubSeq(s, 2, Len(s))) = IF 2 <= Len(s) THEN Len(s) - 2 + 1 ELSE 0
        /\ \A i \in 1..Len(s) - 2 + 1 : SubSeq(s, 2, Len(s))[i] = s[2 + i - 1]
    BY <1>1, <2>1, SubSeqProperties
  <2>3. 1 + 1 = 2 /\ \A i \in 1..Len(s) - 1 : i \in 1..Len(s) - 2 + 1 /\ 2 + i - 1 = i + 1
    BY <1>1
  <2>4. b = SubSeq(s, 2, Len(s))
    BY <2>3
  <2>5. (IF 2 <= Len(s) THEN Len(s) - 2 + 1 ELSE 0) = Len(s) - 1
    BY SMTT(30), <1>1
  <2> HIDE DEF b
  <2>6. QED
    BY <2>2, <2>3, <2>4, <2>5
<1> HIDE DEF a, b
<1>4. RemoveAt(s, 1) = a \o b
  BY DEF RemoveAt, a, b
<1>5. a \o b = b
  BY <1>2, <1>3, ConcatEmptySeq
<1>6. QED
  BY <1>3, <1>4, <1>5

-----------------------------------------------------------------------------
CidRange == 0..CidMod - 1
Entry    == [cmd : Cmd, cid : CidRange]
RingType == [buf : [Ring -> Cqe], head : Ring, tail : Ring, count : 0..QueueSize, phase : {0, 1}]

(* The phase of the entry k places after the start of the host's lap.      *)
Lap(k)   == IF k < QueueSize THEN host.phase ELSE 1 - host.phase
(* The place in the ring of the entry k places after the head.             *)
Place(k) == (cq.head + k) % QueueSize

HostTypes == /\ sq \in Seq(Entry) /\ cid \in CidRange /\ cq \in RingType
             /\ host \in [waiting : Seq(CidRange), phase : {0, 1}]

RingInv == /\ cq.tail = Place(cq.count)
           /\ cq.phase = Lap(cq.head + cq.count)
           /\ \A k \in 0..cq.count - 1 : cq.buf[Place(k)].phase = Lap(cq.head + k)

OrderInv ==
    LET w == host.waiting
    IN  /\ Len(w) = cq.count + Len(sq) /\ Len(w) <= QueueSize
        /\ \A i \in 1..cq.count : w[i] = cq.buf[Place(i - 1)].cid
        /\ \A i \in 1..Len(sq) : w[cq.count + i] = sq[i].cid
        /\ \A i \in 1..Len(w) : w[i] = (cid + CidMod - Len(w) + i - 1) % CidMod

LEMMA Positive ==
    QueueSize \in Nat /\ QueueSize > 0 /\ CidMod \in Nat /\ CidMod > 0 /\ 0 \in Ring /\ 0 \in CidRange
BY HostAssumption DEF Ring, CidRange

(* Places in the ring.                                                     *)
LEMMA PlaceCases ==
    ASSUME NEW h \in Ring, NEW k \in 0..QueueSize
    PROVE  /\ (h + k) % QueueSize = IF h + k < QueueSize THEN h + k ELSE h + k - QueueSize
           /\ (h + k) % QueueSize \in Ring
<1>1. h + k \in 0..(2 * QueueSize - 1) /\ QueueSize \in Nat \ {0}
  BY Positive DEF Ring
<1>2. (h + k) % QueueSize = IF h + k < QueueSize THEN h + k ELSE h + k - QueueSize
  <2>1. h \in 0..QueueSize /\ k \in 0..QueueSize /\ h + k < 2 * QueueSize
    BY Positive DEF Ring
  <2>2. QED
    BY <1>1, <2>1, ModSum
<1>3. QED
  BY <1>1, <1>2 DEF Ring

LEMMA PlacesDiffer ==
    ASSUME NEW h \in Ring, NEW k \in 0..QueueSize - 1, NEW l \in 0..QueueSize - 1,
           (h + k) % QueueSize = (h + l) % QueueSize
    PROVE  k = l
<1>1. k \in 0..QueueSize /\ l \in 0..QueueSize /\ QueueSize \in Nat
  BY Positive
<1>2. QED
  BY <1>1, PlaceCases, Positive DEF Ring

(* What add_cqe does when there is room.                                   *)
LEMMA AddEffect ==
    ASSUME NEW c \in RingType, c.count < QueueSize, NEW e \in Cqe,
           NEW d, d = add_cqe(c, e)
    PROVE  /\ d \in RingType /\ d.head = c.head /\ d.count = c.count + 1
           /\ d.tail = (c.tail + 1) % QueueSize
           /\ d.phase = IF d.tail = 0 THEN 1 - c.phase ELSE c.phase
           /\ d.buf[c.tail].cid = e.cid /\ d.buf[c.tail].phase = c.phase
           /\ \A i \in Ring : i # c.tail => d.buf[i] = c.buf[i]
<1> DEFINE f    == [e EXCEPT !.phase = c.phase]
           tail == (c.tail + 1) % QueueSize
           p    == IF tail = 0 THEN 1 - c.phase ELSE c.phase
<1>1. f \in Cqe /\ f.cid = e.cid /\ f.phase = c.phase
  BY DEF Cqe, RingType
<1>2. c.tail \in Ring /\ c.count \in 0..QueueSize /\ c.phase \in {0, 1} /\ c.head \in Ring
  BY DEF RingType
<1>3. tail \in Ring
  BY <1>2, PlaceCases, Positive
<1>4. p \in {0, 1} /\ c.count + 1 \in 0..QueueSize
  BY <1>2, Positive
<1> DEFINE B == [c.buf EXCEPT ![c.tail] = f]
<1>5. d = [c EXCEPT !.buf = B, !.tail = tail, !.count = @ + 1, !.phase = p]
  <2>1. ~ (c.count >= QueueSize)
    BY <1>2, Positive
  <2>2. QED
    BY <2>1 DEF add_cqe
<1> HIDE DEF f, tail, p
<1>6. c.buf \in [Ring -> Cqe] /\ B \in [Ring -> Cqe]
  BY <1>1, <1>2 DEF RingType
<1> HIDE DEF B
<1>7. /\ d \in RingType /\ d.head = c.head /\ d.count = c.count + 1
      /\ d.tail = tail /\ d.phase = p
      /\ d.buf = B
  BY <1>2, <1>3, <1>4, <1>5, <1>6 DEF RingType
<1>8. d.buf[c.tail] = f /\ \A i \in Ring : i # c.tail => d.buf[i] = c.buf[i]
  BY <1>2, <1>7, <1>6 DEF B
<1>9. QED
  BY <1>1, <1>7, <1>8 DEF tail, p

-----------------------------------------------------------------------------
LEMMA TypesInit == Init => HostTypes /\ RingInv /\ OrderInv
<1> SUFFICES ASSUME Init PROVE HostTypes /\ RingInv /\ OrderInv
  OBVIOUS
<1>1. /\ sq = <<>> /\ cid = 0 /\ host = [waiting |-> <<>>, phase |-> 1]
      /\ cq = [buf |-> [i \in Ring |-> NoCqe], head |-> 0, tail |-> 0, count |-> 0, phase |-> 1]
  BY DEF Init
<1>2. NoCqe \in Cqe
  BY Positive DEF NoCqe, Cqe, Status, CidRange
<1>3. cq \in RingType
  BY <1>1, <1>2, Positive DEF RingType
<1>4. HostTypes
  BY <1>1, <1>3, Positive DEF HostTypes
<1>5. Place(0) = 0
  BY <1>1, Positive, PlaceCases DEF Place
<1>6. RingInv
  BY <1>1, <1>5, Positive DEF RingInv, Lap
<1>7. OrderInv
  BY <1>1, Positive DEF OrderInv
<1>8. QED
  BY <1>4, <1>6, <1>7

LEMMA SubmitTypes ==
    ASSUME HostTypes, NEW cmd \in Cmd, Submit(cmd)
    PROVE  HostTypes'
<1>1. cid' \in CidRange
  BY Positive DEF Submit, NextCid, CidRange, HostTypes
<1>2. [cmd |-> cmd, cid |-> cid] \in Entry
  BY DEF Entry, HostTypes
<1>3. sq' \in Seq(Entry)
  BY <1>2, AppendProperties DEF Submit, HostTypes
<1>4. host.waiting \in Seq(CidRange) /\ host.phase \in {0, 1}
  BY DEF HostTypes
<1>5. Append(host.waiting, cid) \in Seq(CidRange)
  BY <1>4, AppendProperties DEF HostTypes
<1>6. host' \in [waiting : Seq(CidRange), phase : {0, 1}]
  BY <1>4, <1>5 DEF Submit, HostTypes
<1>7. QED
  BY <1>1, <1>3, <1>6 DEF Submit, HostTypes

LEMMA ProcessTypes ==
    ASSUME HostTypes, NEW status \in Status, ProcessCmd(status)
    PROVE  /\ HostTypes' /\ sq # <<>>
           /\ \E e \in Cqe : e.cid = sq[1].cid /\ cq' = add_cqe(cq, e)
           /\ sq' = RemoveAt(sq, 1) /\ UNCHANGED <<cid, host>>
<1>1. /\ sq # <<>> /\ sq' = RemoveAt(sq, 1) /\ UNCHANGED <<cid, host>>
      /\ cq' = add_cqe(cq, [cid |-> sq[1].cid, status |-> status, phase |-> 0])
  BY DEF ProcessCmd, Picked
<1>2. sq' \in Seq(Entry)
  BY <1>1, RemoveFirstEntry DEF HostTypes
<1>3. sq[1] \in Entry
  BY <1>1, EmptySeq, ElementOfSeq DEF HostTypes
<1> DEFINE e == [cid |-> sq[1].cid, status |-> status, phase |-> 0]
<1>4. e \in Cqe /\ e.cid = sq[1].cid
  BY <1>3 DEF Entry, Cqe, CidRange
<1> HIDE DEF e
<1>5. cq' \in RingType
  <2>1. CASE cq.count < QueueSize
    BY <1>1, <1>4, <2>1, AddEffect DEF HostTypes, e
  <2>2. CASE ~ (cq.count < QueueSize)
    <3>1. cq.count >= QueueSize
      BY <2>2, Positive DEF HostTypes, RingType
    <3>2. QED
      BY <1>1, <3>1 DEF add_cqe, HostTypes
  <2>3. QED
    BY <2>1, <2>2
<1>6. QED
  BY <1>1, <1>2, <1>4, <1>5 DEF HostTypes, e

LEMMA RemoveType ==
    ASSUME NEW S, NEW s \in Seq(S), NEW i \in 1..Len(s)
    PROVE  RemoveAt(s, i) \in Seq(S)
<1>1. Len(s) \in Nat /\ \A j \in 1..Len(s) : s[j] \in S
  BY LenProperties, ElementOfSeq
<1>2. (\A j \in 1..i - 1 : s[j] \in S) /\ (\A j \in i + 1..Len(s) : s[j] \in S)
  BY <1>1
<1>3. SubSeq(s, 1, i - 1) \in Seq(S)
  BY <1>1, <1>2, SubSeqProperties
<1>4. SubSeq(s, i + 1, Len(s)) \in Seq(S)
  BY <1>1, <1>2, SubSeqProperties
<1>5. QED
  BY <1>3, <1>4, ConcatProperties DEF RemoveAt

LEMMA PollTypes ==
    ASSUME HostTypes, Poll
    PROVE  /\ HostTypes' /\ cq.count > 0 /\ UNCHANGED <<sq, cid>>
           /\ cq'.head = Place(1) /\ cq'.count = cq.count - 1
           /\ cq'.buf = cq.buf /\ cq'.tail = cq.tail /\ cq'.phase = cq.phase
           /\ host'.waiting \in Told(host.waiting, cq.buf[cq.head].cid)
           /\ host'.phase = IF cq.head = QueueSize - 1 THEN 1 - host.phase ELSE host.phase
<1> DEFINE head  == (cq.head + 1) % QueueSize
           phase == IF cq.head = QueueSize - 1 THEN 1 - host.phase ELSE host.phase
<1>1. /\ cq \in RingType /\ cq.head \in Ring /\ cq.count \in 0..QueueSize /\ cq.count > 0
      /\ host.phase \in {0, 1} /\ host.waiting \in Seq(CidRange)
  BY DEF HostTypes, RingType, Poll
<1>2. head \in Ring /\ head = Place(1)
  <2>1. 1 \in 0..QueueSize
    BY Positive
  <2>2. head \in Ring
    BY <1>1, <2>1, PlaceCases
  <2>3. QED
    BY <2>2 DEF Place
<1>3. phase \in {0, 1} /\ cq.count - 1 \in 0..QueueSize
  BY <1>1, Positive
<1>4. cq' = [cq EXCEPT !.head = head, !.count = @ - 1]
  BY DEF Poll
<1>5. PICK rest \in Told(host.waiting, cq.buf[cq.head].cid) :
        host' = [waiting |-> rest, phase |-> phase]
  BY DEF Poll
<1>6. rest \in Seq(CidRange)
  BY <1>1, RemoveType DEF Told
<1> HIDE DEF head, phase
<1>7. /\ cq' \in RingType /\ cq'.head = head /\ cq'.count = cq.count - 1
      /\ cq'.buf = cq.buf /\ cq'.tail = cq.tail /\ cq'.phase = cq.phase
  BY <1>1, <1>2, <1>3, <1>4 DEF RingType
<1>8. HostTypes'
  BY <1>3, <1>5, <1>6, <1>7 DEF HostTypes, Poll
<1>9. QED
  BY <1>1, <1>2, <1>5, <1>7, <1>8 DEF Poll, phase

-----------------------------------------------------------------------------
(* The ring.                                                               *)
LEMMA AddRing ==
    ASSUME HostTypes, RingInv, cq.count < QueueSize, NEW e \in Cqe,
           cq' = add_cqe(cq, e), UNCHANGED host
    PROVE  RingInv'
<1>1. /\ cq' \in RingType /\ cq'.head = cq.head /\ cq'.count = cq.count + 1
      /\ cq'.tail = (cq.tail + 1) % QueueSize
      /\ cq'.phase = IF cq'.tail = 0 THEN 1 - cq.phase ELSE cq.phase
      /\ cq'.buf[cq.tail].phase = cq.phase
      /\ \A i \in Ring : i # cq.tail => cq'.buf[i] = cq.buf[i]
  BY AddEffect DEF HostTypes
<1>2. /\ cq.head \in Ring /\ cq.tail \in Ring /\ cq.count \in 0..QueueSize
      /\ cq.phase \in {0, 1} /\ host.phase \in {0, 1}
  BY DEF HostTypes, RingType
<1>3. cq.head \in Nat /\ cq.head < QueueSize /\ cq.count \in Nat /\ QueueSize \in Nat /\ QueueSize > 0
  BY <1>2, Positive DEF Ring
<1>4. cq.tail = (cq.head + cq.count) % QueueSize /\ cq.phase = Lap(cq.head + cq.count)
  BY DEF RingInv, Place
<1>5. cq.tail = IF cq.head + cq.count < QueueSize THEN cq.head + cq.count
                ELSE cq.head + cq.count - QueueSize
  BY <1>2, <1>4, PlaceCases
<1>6. (cq.tail + 1) % QueueSize = IF cq.tail + 1 < QueueSize THEN cq.tail + 1
                                  ELSE cq.tail + 1 - QueueSize
  BY SMTT(30), <1>2, PlaceCases, Positive
<1>7. (cq.head + (cq.count + 1)) % QueueSize =
        IF cq.head + (cq.count + 1) < QueueSize THEN cq.head + (cq.count + 1)
        ELSE cq.head + (cq.count + 1) - QueueSize
  <2>1. cq.count + 1 \in 0..QueueSize
    BY <1>2, <1>3
  <2>2. QED
    BY <1>2, <2>1, PlaceCases
<1>8. cq'.tail = (cq.head + (cq.count + 1)) % QueueSize
  BY <1>1, <1>3, <1>5, <1>6, <1>7
<1>9. cq'.phase = IF cq.head + (cq.count + 1) < QueueSize THEN host.phase ELSE 1 - host.phase
  BY <1>1, <1>2, <1>3, <1>4, <1>5, <1>6 DEF Lap
<1>10. ASSUME NEW k \in 0..cq.count
       PROVE  cq'.buf[(cq.head + k) % QueueSize].phase =
                IF cq.head + k < QueueSize THEN host.phase ELSE 1 - host.phase
  <2>1. CASE k = cq.count
    BY <1>1, <1>4, <2>1 DEF Lap
  <2>2. CASE k # cq.count
    <3>1. k \in 0..cq.count - 1 /\ k \in 0..QueueSize - 1 /\ cq.count \in 0..QueueSize - 1
          /\ k \in 0..QueueSize
      BY <1>3, <2>2
    <3>2. (cq.head + k) % QueueSize # cq.tail /\ (cq.head + k) % QueueSize \in Ring
      BY <1>2, <1>4, <2>2, <3>1, PlacesDiffer, PlaceCases
    <3>3. QED
      BY <1>1, <3>1, <3>2 DEF RingInv, Place, Lap
  <2>3. QED
    BY <2>1, <2>2
<1>11. \A k \in 0..cq'.count - 1 : k \in 0..cq.count
  BY <1>1, <1>3
<1>12. host' = host
  OBVIOUS
<1>13. QED
  BY <1>1, <1>8, <1>9, <1>10, <1>11, <1>12 DEF RingInv, Place, Lap

LEMMA PollRing ==
    ASSUME HostTypes, RingInv, Poll
    PROVE  RingInv'
<1>1. /\ cq.count > 0 /\ cq'.head = Place(1) /\ cq'.count = cq.count - 1
      /\ cq'.buf = cq.buf /\ cq'.tail = cq.tail /\ cq'.phase = cq.phase
      /\ host'.phase = IF cq.head = QueueSize - 1 THEN 1 - host.phase ELSE host.phase
  BY PollTypes
<1>2. cq.head \in Ring /\ cq.count \in 0..QueueSize /\ host.phase \in {0, 1}
  BY DEF HostTypes, RingType
<1>3. cq.head \in Nat /\ cq.head < QueueSize /\ cq.count \in Nat /\ QueueSize \in Nat /\ QueueSize > 0
  BY <1>2, Positive DEF Ring
<1>4. cq'.head = IF cq.head + 1 < QueueSize THEN cq.head + 1 ELSE 0
  <2>1. 1 \in 0..QueueSize
    BY Positive
  <2>2. Place(1) = IF cq.head + 1 < QueueSize THEN cq.head + 1 ELSE cq.head + 1 - QueueSize
    BY <1>2, <2>1, PlaceCases DEF Place
  <2>3. QED
    BY <1>1, <1>3, <2>2
<1>5. ASSUME NEW k \in 0..cq.count - 1
      PROVE  /\ (cq'.head + k) % QueueSize = (cq.head + (k + 1)) % QueueSize
             /\ (IF cq'.head + k < QueueSize THEN host'.phase ELSE 1 - host'.phase)
                  = IF cq.head + (k + 1) < QueueSize THEN host.phase ELSE 1 - host.phase
  <2>1. k \in 0..QueueSize /\ k + 1 \in 0..QueueSize /\ cq'.head \in Ring /\ k \in Nat
    BY <1>2, <1>3, <1>4 DEF Ring
  <2>2. /\ (cq'.head + k) % QueueSize = IF cq'.head + k < QueueSize THEN cq'.head + k
                                        ELSE cq'.head + k - QueueSize
        /\ (cq.head + (k + 1)) % QueueSize = IF cq.head + (k + 1) < QueueSize THEN cq.head + (k + 1)
                                             ELSE cq.head + (k + 1) - QueueSize
    BY <1>2, <2>1, PlaceCases
  <2>3. CASE cq.head + 1 < QueueSize
    BY <1>1, <1>2, <1>3, <1>4, <2>1, <2>2, <2>3
  <2>4. CASE ~ (cq.head + 1 < QueueSize)
    <3>1. cq.head = QueueSize - 1 /\ cq'.head = 0
      BY <1>3, <1>4, <2>4
    <3>2. host'.phase = 1 - host.phase
      BY <1>1, <3>1
    <3>3. k < QueueSize
      BY <1>2, <1>3, <2>1
    <3>4. QED
      BY <1>2, <1>3, <2>1, <2>2, <3>1, <3>2, <3>3
  <2>5. QED
    BY <2>3, <2>4
<1>6. cq.count - 1 \in 0..cq.count - 1 /\ (cq.count - 1) + 1 = cq.count
  BY <1>1, <1>3
<1>7. cq'.tail = (cq'.head + cq'.count) % QueueSize
  BY <1>1, <1>5, <1>6 DEF RingInv, Place
<1>8. cq'.phase = IF cq'.head + cq'.count < QueueSize THEN host'.phase ELSE 1 - host'.phase
  BY <1>1, <1>5, <1>6 DEF RingInv, Lap
<1>9. \A k \in 0..cq'.count - 1 : k \in 0..cq.count - 1 /\ k + 1 \in 0..cq.count - 1
  BY <1>1, <1>3
<1>10. QED
  BY <1>1, <1>5, <1>7, <1>8, <1>9 DEF RingInv, Place, Lap

(* The host's list.  Its identifiers are consecutive, so that they differ  *)
(* as long as there are no more commands than identifiers.                 *)
LEMMA WaitingDiffer ==
    ASSUME HostTypes, OrderInv, QueueSize <= CidMod,
           NEW i \in 1..Len(host.waiting), NEW j \in 1..Len(host.waiting),
           host.waiting[i] = host.waiting[j]
    PROVE  i = j
<1> DEFINE L    == Len(host.waiting)
           a == cid + CidMod - L + i - 1
           b == cid + CidMod - L + j - 1
<1>1. L \in Nat /\ L <= CidMod /\ cid \in 0..CidMod - 1 /\ CidMod \in Nat \ {0}
  <2>1. host.waiting \in Seq(CidRange) /\ cid \in 0..CidMod - 1
    BY DEF HostTypes, CidRange
  <2>2. L \in Nat
    BY <2>1, LenProperties
  <2>3. L <= QueueSize
    BY DEF OrderInv
  <2> HIDE DEF L
  <2>4. QED
    BY <2>1, <2>2, <2>3, Positive
<1>2. a % CidMod = b % CidMod
  BY DEF OrderInv
<1>3. i \in 1..L /\ j \in 1..L
  OBVIOUS
<1> HIDE DEF L
<1>4. i \in Int /\ j \in Int /\ i >= 1 /\ j >= 1 /\ i <= L /\ j <= L
  BY <1>1, <1>3
<1>5. a \in 0..(2 * CidMod - 1) /\ b \in 0..(2 * CidMod - 1) /\ a - b = i - j
  BY <1>1, <1>4
<1> HIDE DEF a, b
<1>6. /\ a % CidMod = IF a < CidMod THEN a ELSE a - CidMod
      /\ b % CidMod = IF b < CidMod THEN b ELSE b - CidMod
  BY <1>1, <1>5, ModOnce
<1>7. QED
  BY SMTT(30), <1>1, <1>2, <1>4, <1>5, <1>6

LEMMA SubmitOrder ==
    ASSUME HostTypes, OrderInv, QueueSize <= CidMod, NEW cmd \in Cmd, Submit(cmd)
    PROVE  OrderInv'
<1> DEFINE w  == host.waiting
           L  == Len(w)
           e  == [cmd |-> cmd, cid |-> cid]
<1>1. /\ sq' = Append(sq, e) /\ cid' = (cid + 1) % CidMod /\ UNCHANGED cq
      /\ host'.waiting = Append(w, cid) /\ L < QueueSize
  BY DEF Submit, NextCid, HostTypes
<1>2. /\ cid \in CidRange /\ sq \in Seq(Entry) /\ w \in Seq(CidRange) /\ e \in Entry /\ e.cid = cid
      /\ cq.count \in Nat
  BY Positive DEF HostTypes, Entry, RingType
<1> HIDE DEF e
<1>3. /\ Len(sq) \in Nat /\ Len(sq') = Len(sq) + 1
      /\ \A i \in 1..Len(sq) : sq'[i] = sq[i]
      /\ sq'[Len(sq) + 1] = e
  BY <1>1, <1>2, AppendProperties, LenProperties
<1>4. /\ L \in Nat /\ Len(host'.waiting) = L + 1
      /\ \A i \in 1..L : host'.waiting[i] = w[i]
      /\ host'.waiting[L + 1] = cid
  BY <1>1, <1>2, AppendProperties, LenProperties
<1>5. L = cq.count + Len(sq)
  BY DEF OrderInv
<1>6. \A i \in 1..cq.count : w[i] = cq.buf[Place(i - 1)].cid
  BY DEF OrderInv
<1>7. \A i \in 1..Len(sq) : w[cq.count + i] = sq[i].cid
  BY DEF OrderInv
<1>8. \A i \in 1..L : w[i] = (cid + CidMod - L + i - 1) % CidMod
  BY DEF OrderInv
<1> HIDE DEF w, L
<1>9. \A i \in 1..cq.count : host'.waiting[i] = cq'.buf[Place(i - 1)'].cid
  <2>1. \A i \in 1..cq.count : i \in 1..L
    <3>1. cq.count \in Nat /\ Len(sq) \in Nat /\ L \in Nat
      BY <1>2, <1>3, <1>4
    <3>2. QED
      BY <1>5, <3>1
  <2>2. cq' = cq
    BY <1>1
  <2>3. QED
    BY <1>4, <1>6, <2>1, <2>2 DEF Place
<1>10. \A i \in 1..Len(sq') : host'.waiting[cq.count + i] = sq'[i].cid
  <2> TAKE i \in 1..Len(sq')
  <2>1. CASE i \in 1..Len(sq)
    <3>1. cq.count + i \in 1..L
      BY <1>2, <1>3, <1>5, <2>1
    <3>2. QED
      BY <1>3, <1>4, <1>7, <2>1, <3>1
  <2>2. CASE i = Len(sq) + 1
    <3>1. cq.count \in Nat /\ Len(sq) \in Nat /\ L \in Nat
      BY <1>2, <1>3, <1>4
    <3>2. cq.count + i = L + 1
      BY <1>5, <2>2, <3>1
    <3>3. QED
      BY <1>2, <1>3, <1>4, <2>2, <3>2
  <2>3. QED
    BY <1>3, <2>1, <2>2
<1>11. \A i \in 1..L + 1 : host'.waiting[i] = (cid' + CidMod - (L + 1) + i - 1) % CidMod
  <2> TAKE i \in 1..L + 1
  <2> DEFINE x == cid + CidMod - L + i - 1
             y == cid' + CidMod - (L + 1) + i - 1
  <2>1. /\ cid \in Nat /\ cid < CidMod /\ CidMod \in Nat \ {0} /\ L < CidMod
        /\ cid + 1 \in 0..(2 * CidMod - 1)
    BY <1>1, <1>2, <1>4, Positive DEF CidRange
  <2>2. cid' = IF cid + 1 < CidMod THEN cid + 1 ELSE 0
    <3>1. (cid + 1) % CidMod = IF cid + 1 < CidMod THEN cid + 1 ELSE cid + 1 - CidMod
      BY <2>1, ModSum
    <3>2. QED
      BY <1>1, <2>1, <3>1
  <2>3. /\ y \in 0..(2 * CidMod - 1) /\ x \in Int
        /\ IF cid + 1 < CidMod THEN y = x ELSE y = x - CidMod
    BY <1>4, <2>1, <2>2
  <2>4. (i \in 1..L => x \in 0..(2 * CidMod - 1)) /\ (i = L + 1 => x = cid + CidMod)
    BY <1>4, <2>1
  <2>5. i \in 1..L => host'.waiting[i] = x % CidMod
    BY <1>4, <1>8
  <2> HIDE DEF x, y
  <2>6. y % CidMod = IF y < CidMod THEN y ELSE y - CidMod
    BY <2>1, <2>3, ModOnce
  <2>7. CASE i \in 1..L
    <3>1. x % CidMod = IF x < CidMod THEN x ELSE x - CidMod
      BY <2>1, <2>4, <2>7, ModOnce
    <3>2. cid + 1 < CidMod \/ x >= CidMod
      BY <2>1, <2>3, <2>7 DEF x
    <3>3. host'.waiting[i] = y % CidMod
      BY <2>1, <2>3, <2>5, <2>6, <2>7, <3>1, <3>2
    <3>4. QED
      BY <3>3 DEF y
  <2>8. CASE i = L + 1
    <3>1. host'.waiting[i] = y % CidMod
      BY <1>4, <2>1, <2>3, <2>4, <2>6, <2>8
    <3>2. QED
      BY <3>1 DEF y
  <2>9. QED
    BY <1>4, <2>7, <2>8
<1>12. L + 1 = cq'.count + Len(sq') /\ L + 1 <= QueueSize
  BY SMTT(30), <1>1, <1>2, <1>3, <1>4, <1>5, Positive
<1>13. QED
  BY <1>1, <1>4, <1>9, <1>10, <1>11, <1>12 DEF OrderInv

(* A completion finds room: there are no more completions and commands     *)
(* than the host waits for.                                                *)
LEMMA RoomForCompletion ==
    ASSUME HostTypes, OrderInv, sq # <<>>
    PROVE  cq.count < QueueSize
<1>1. Len(sq) \in Nat \ {0} /\ cq.count \in Nat
  BY EmptySeq, Positive DEF HostTypes, RingType
<1>2. cq.count + Len(sq) <= QueueSize
  BY DEF OrderInv
<1>3. QED
  BY <1>1, <1>2, Positive

LEMMA ProcessOrder ==
    ASSUME HostTypes, RingInv, OrderInv, NEW status \in Status, ProcessCmd(status)
    PROVE  OrderInv'
<1> DEFINE w == host.waiting
<1>1. /\ HostTypes' /\ sq # <<>> /\ sq' = RemoveAt(sq, 1) /\ UNCHANGED <<cid, host>>
      /\ \E e \in Cqe : e.cid = sq[1].cid /\ cq' = add_cqe(cq, e)
  BY ProcessTypes
<1>2. PICK e \in Cqe : e.cid = sq[1].cid /\ cq' = add_cqe(cq, e)
  BY <1>1
<1>3. cq.count < QueueSize
  BY <1>1, RoomForCompletion
<1>4. /\ cq'.head = cq.head /\ cq'.count = cq.count + 1
      /\ cq'.buf[cq.tail].cid = sq[1].cid
      /\ \A i \in Ring : i # cq.tail => cq'.buf[i] = cq.buf[i]
  BY <1>2, <1>3, AddEffect DEF HostTypes
<1>5. sq \in Seq(Entry) /\ Len(sq) \in Nat \ {0}
  BY <1>1, EmptySeq DEF HostTypes
<1>6. Len(sq') = Len(sq) - 1 /\ \A i \in 1..Len(sq) - 1 : sq'[i] = sq[i + 1]
  BY <1>1, <1>5, RemoveFirstEntry
<1>7. cq.head \in Ring /\ cq.count \in Nat /\ QueueSize \in Nat /\ cq.tail = (cq.head + cq.count) % QueueSize
  BY Positive DEF HostTypes, RingType, RingInv, Place
<1>8. ASSUME NEW i \in 1..cq.count + 1
      PROVE  w[i] = cq'.buf[(cq'.head + (i - 1)) % QueueSize].cid
  <2>1. CASE i = cq.count + 1
    <3>1. i - 1 = cq.count /\ 1 \in 1..Len(sq)
      BY <1>5, <1>7, <2>1
    <3>2. w[cq.count + 1] = sq[1].cid
      BY <3>1 DEF OrderInv
    <3>3. (cq'.head + (i - 1)) % QueueSize = cq.tail
      BY <1>4, <1>7, <3>1
    <3>4. QED
      BY <1>4, <2>1, <3>2, <3>3
  <2>2. CASE i # cq.count + 1
    <3>1. /\ i \in 1..cq.count /\ i - 1 \in 0..QueueSize - 1 /\ cq.count \in 0..QueueSize - 1
          /\ i - 1 # cq.count /\ i - 1 \in 0..QueueSize
      BY <1>3, <1>7, <2>2
    <3>2. (cq.head + (i - 1)) % QueueSize # cq.tail /\ (cq.head + (i - 1)) % QueueSize \in Ring
      BY <1>7, <3>1, PlacesDiffer, PlaceCases
    <3>3. w[i] = cq.buf[(cq.head + (i - 1)) % QueueSize].cid
      BY <3>1 DEF OrderInv, Place
    <3>4. QED
      BY <1>4, <3>2, <3>3
  <2>3. QED
    BY <2>1, <2>2
<1>9. ASSUME NEW i \in 1..Len(sq')
      PROVE  w[cq'.count + i] = sq'[i].cid
  <2>1. i \in 1..Len(sq) - 1 /\ i + 1 \in 1..Len(sq) /\ cq.count + (i + 1) = cq'.count + i
    <3>1. i \in 1..Len(sq) - 1 /\ Len(sq) \in Nat
      BY <1>5, <1>6
    <3>2. cq'.count = cq.count + 1 /\ cq.count \in Nat
      BY <1>4, <1>7
    <3>3. QED
      BY <3>1, <3>2
  <2>2. w[cq.count + (i + 1)] = sq[i + 1].cid
    BY <2>1 DEF OrderInv
  <2>3. QED
    BY <1>6, <2>1, <2>2
<1>10. Len(w) = cq'.count + Len(sq')
  <2>1. Len(w) = cq.count + Len(sq)
    BY DEF OrderInv
  <2>2. QED
    BY <1>4, <1>5, <1>6, <1>7, <2>1
<1>11. host'.waiting = w /\ cid' = cid
  BY <1>1
<1>12. Len(w) <= QueueSize /\ \A i \in 1..Len(w) : w[i] = (cid + CidMod - Len(w) + i - 1) % CidMod
  BY DEF OrderInv
<1> HIDE DEF w
<1>13. QED
  BY <1>4, <1>8, <1>9, <1>10, <1>11, <1>12 DEF OrderInv, Place

LEMMA PollOrder ==
    ASSUME HostTypes, RingInv, OrderInv, QueueSize <= CidMod, Poll
    PROVE  OrderInv'
<1> DEFINE w == host.waiting
           L == Len(w)
<1>1. /\ cq.count > 0 /\ UNCHANGED <<sq, cid>>
      /\ cq'.head = Place(1) /\ cq'.count = cq.count - 1 /\ cq'.buf = cq.buf
      /\ host'.waiting \in Told(w, cq.buf[cq.head].cid)
  BY PollTypes
<1>2. /\ w \in Seq(CidRange) /\ cq.head \in Ring /\ cq.count \in Nat /\ cq.count <= QueueSize
      /\ cid \in Nat /\ sq \in Seq(Entry)
  BY Positive DEF HostTypes, RingType, CidRange
<1>3. L \in Nat /\ L = cq.count + Len(sq) /\ L <= QueueSize /\ Len(sq) \in Nat
  BY <1>2, LenProperties DEF OrderInv
<1>4. 1 \in 1..L /\ w # <<>>
  BY <1>1, <1>2, <1>3, EmptySeq
<1>5. w[1] = cq.buf[cq.head].cid
  <2>1. Place(0) = cq.head
    <3>1. cq.head + 0 = cq.head /\ cq.head \in Nat /\ cq.head < QueueSize /\ 0 \in 0..QueueSize
      BY <1>2, Positive DEF Ring
    <3>2. QED
      BY <1>2, <3>1, PlaceCases DEF Place
  <2>2. 1 \in 1..cq.count /\ 1 - 1 = 0
    BY <1>1, <1>2
  <2>3. QED
    BY <2>1, <2>2 DEF OrderInv
<1>6. host'.waiting = RemoveAt(w, 1)
  <2> DEFINE named == {i \in 1..L : w[i] = cq.buf[cq.head].cid}
  <2>1. named = {1}
    BY <1>4, <1>5, WaitingDiffer
  <2>2. Told(w, cq.buf[cq.head].cid) = IF named = {} THEN {w} ELSE {RemoveAt(w, i) : i \in named}
    BY DEF Told
  <2> HIDE DEF named
  <2>3. QED
    BY <1>1, <2>1, <2>2
<1>7. Len(host'.waiting) = L - 1 /\ \A i \in 1..L - 1 : host'.waiting[i] = w[i + 1]
  BY <1>2, <1>4, <1>6, RemoveFirstEntry
<1>8. \A i \in 1..L : w[i] = (cid + CidMod - L + i - 1) % CidMod
  BY DEF OrderInv
<1>9. \A i \in 1..L - 1 : host'.waiting[i] = (cid + CidMod - (L - 1) + i - 1) % CidMod
  <2> HIDE DEF L, w
  <2> TAKE i \in 1..L - 1
  <2>1. i + 1 \in 1..L /\ cid + CidMod - L + (i + 1) - 1 = cid + CidMod - (L - 1) + i - 1
    <3>1. L \in Nat /\ cid \in Nat /\ CidMod \in Nat
      BY <1>2, <1>3, Positive
    <3>2. QED
      BY <3>1
  <2>2. w[i + 1] = (cid + CidMod - L + (i + 1) - 1) % CidMod
    BY <1>8, <2>1
  <2>3. QED
    BY <1>7, <2>1, <2>2
<1>10. ASSUME NEW i \in 1..cq.count - 1
       PROVE  host'.waiting[i] = cq'.buf[(cq'.head + (i - 1)) % QueueSize].cid
  <2>1. i + 1 \in 1..cq.count /\ (i + 1) - 1 = i /\ i \in 1..L - 1 /\ i \in 0..QueueSize /\ i - 1 \in 0..QueueSize
    BY <1>2, <1>3, Positive
  <2>2. host'.waiting[i] = cq.buf[(cq.head + i) % QueueSize].cid
    <3>1. w[i + 1] = cq.buf[Place((i + 1) - 1)].cid
      BY <2>1 DEF OrderInv
    <3>2. QED
      BY <1>7, <2>1, <3>1 DEF Place
  <2>3. (cq'.head + (i - 1)) % QueueSize = (cq.head + i) % QueueSize
    <3>1. cq.head \in Nat /\ cq.head < QueueSize /\ QueueSize \in Nat /\ 1 \in 0..QueueSize /\ i \in Nat
      BY <1>2, <2>1, Positive DEF Ring
    <3>2. cq'.head = IF cq.head + 1 < QueueSize THEN cq.head + 1 ELSE cq.head + 1 - QueueSize
      BY <1>1, <1>2, <3>1, PlaceCases DEF Place
    <3>3. cq'.head \in Ring
      BY <3>1, <3>2 DEF Ring
    <3>4. (cq'.head + (i - 1)) % QueueSize = IF cq'.head + (i - 1) < QueueSize THEN cq'.head + (i - 1)
                                             ELSE cq'.head + (i - 1) - QueueSize
      BY <2>1, <3>3, PlaceCases
    <3>5. (cq.head + i) % QueueSize = IF cq.head + i < QueueSize THEN cq.head + i
                                      ELSE cq.head + i - QueueSize
      BY <1>2, <2>1, PlaceCases
    <3>6. i < QueueSize
      BY <1>2, <3>1
    <3>7. CASE cq.head + 1 < QueueSize
      BY <3>1, <3>2, <3>4, <3>5, <3>7
    <3>8. CASE ~ (cq.head + 1 < QueueSize)
      <4>1. cq.head = QueueSize - 1 /\ cq'.head = 0
        BY <3>1, <3>2, <3>8
      <4>2. cq'.head + (i - 1) = i - 1 /\ cq.head + i = QueueSize + (i - 1)
        BY <3>1, <4>1
      <4>3. QED
        BY <3>1, <3>4, <3>5, <3>6, <4>2
    <3>9. QED
      BY <3>7, <3>8
  <2>4. QED
    BY <1>1, <2>2, <2>3
<1>11. ASSUME NEW i \in 1..Len(sq) PROVE host'.waiting[cq'.count + i] = sq[i].cid
  <2>1. cq'.count + i \in 1..L - 1 /\ (cq'.count + i) + 1 = cq.count + i
    BY <1>1, <1>2, <1>3
  <2>2. w[cq.count + i] = sq[i].cid
    BY DEF OrderInv
  <2>3. QED
    BY <1>7, <2>1, <2>2
<1>12. L - 1 = cq'.count + Len(sq) /\ L - 1 <= QueueSize
  BY <1>1, <1>2, <1>3, Positive
<1>13. sq' = sq /\ cid' = cid
  BY <1>1
<1> HIDE DEF L, w
<1>14. QED
  BY <1>1, <1>7, <1>9, <1>10, <1>11, <1>12, <1>13 DEF OrderInv, Place

-----------------------------------------------------------------------------
LEMMA SameInv ==
    ASSUME HostTypes, RingInv, UNCHANGED <<sq, cq, cid, host>>
    PROVE  HostTypes' /\ RingInv' /\ (OrderInv => OrderInv')
BY DEF HostTypes, RingInv, OrderInv, Place, Lap

(* A full ring drops the completion, and stays as it is.                   *)
LEMMA ProcessRing ==
    ASSUME HostTypes, RingInv, NEW status \in Status, ProcessCmd(status)
    PROVE  RingInv'
<1>1. UNCHANGED host /\ \E e \in Cqe : e.cid = sq[1].cid /\ cq' = add_cqe(cq, e)
  BY ProcessTypes
<1>2. PICK e \in Cqe : cq' = add_cqe(cq, e)
  BY <1>1
<1>3. CASE cq.count < QueueSize
  BY <1>1, <1>2, <1>3, AddRing
<1>4. CASE ~ (cq.count < QueueSize)
  <2>1. cq.count >= QueueSize
    BY <1>4, Positive DEF HostTypes, RingType
  <2>2. cq' = cq
    BY <1>2, <2>1 DEF add_cqe
  <2>3. QED
    BY <1>1, <2>2 DEF RingInv, Place, Lap
<1>5. QED
  BY <1>3, <1>4

LEMMA NextTypes == HostTypes /\ RingInv /\ [Next]_vars => (HostTypes /\ RingInv)'
<1> SUFFICES ASSUME HostTypes, RingInv, [Next]_vars PROVE HostTypes' /\ RingInv'
  OBVIOUS
<1>1. ASSUME NEW cmd \in Cmd, Submit(cmd) PROVE HostTypes' /\ RingInv'
  <2>1. cq' = cq /\ host'.phase = host.phase
    BY <1>1 DEF Submit, HostTypes
  <2>2. RingInv'
    BY <2>1 DEF RingInv, Place, Lap
  <2>3. QED
    BY <1>1, <2>2, SubmitTypes
<1>2. CASE ProcessBegin
  BY <1>2, SameInv DEF ProcessBegin
<1>3. ASSUME NEW s \in Status, ProcessCmd(s) PROVE HostTypes' /\ RingInv'
  BY <1>3, ProcessTypes, ProcessRing
<1>4. CASE Poll
  BY <1>4, PollTypes, PollRing
<1>5. CASE PowerLoss \/ PlpRecovery
  BY <1>5, SameInv DEF PowerLoss, PlpRecovery
<1>6. CASE UNCHANGED vars
  BY <1>6, SameInv DEF vars
<1>7. QED
  BY <1>1, <1>2, <1>3, <1>4, <1>5, <1>6 DEF Next, Process

LEMMA NextOrder ==
    ASSUME QueueSize <= CidMod
    PROVE  HostTypes /\ RingInv /\ OrderInv /\ [Next]_vars => OrderInv'
<1> SUFFICES ASSUME HostTypes, RingInv, OrderInv, [Next]_vars PROVE OrderInv'
  OBVIOUS
<1>1. ASSUME NEW cmd \in Cmd, Submit(cmd) PROVE OrderInv'
  BY <1>1, SubmitOrder
<1>2. CASE ProcessBegin \/ PowerLoss \/ PlpRecovery
  BY <1>2, SameInv DEF ProcessBegin, PowerLoss, PlpRecovery
<1>3. ASSUME NEW s \in Status, ProcessCmd(s) PROVE OrderInv'
  BY <1>3, ProcessOrder
<1>4. CASE Poll
  BY <1>4, PollOrder
<1>5. CASE UNCHANGED vars
  BY <1>5, SameInv DEF vars
<1>6. QED
  BY <1>1, <1>2, <1>3, <1>4, <1>5 DEF Next, Process

LEMMA RingMeaning == HostTypes /\ RingInv => PhaseFollowsLap
<1> SUFFICES ASSUME HostTypes, RingInv, NEW i \in 1..cq.count
             PROVE  Pending[i].phase = IF cq.head + i - 1 < QueueSize THEN host.phase
                                       ELSE 1 - host.phase
  BY DEF PhaseFollowsLap
<1>1. cq.head \in Nat /\ cq.count \in Nat /\ i \in Nat
  BY Positive DEF HostTypes, RingType, Ring
<1>2. i - 1 \in 0..cq.count - 1 /\ cq.head + (i - 1) = cq.head + i - 1
  BY <1>1
<1>3. Pending[i] = cq.buf[Place(i - 1)]
  BY <1>2 DEF Pending, Place
<1>4. QED
  BY <1>2, <1>3 DEF RingInv, Lap

LEMMA OrderMeaning == HostTypes /\ OrderInv => CompletionsInOrder
<1> SUFFICES ASSUME HostTypes, OrderInv PROVE CompletionsInOrder
  OBVIOUS
<1> DEFINE w == host.waiting
           a == [i \in 1..cq.count |-> Pending[i].cid]
           b == [i \in 1..Len(sq) |-> sq[i].cid]
<1>1. /\ w \in Seq(CidRange) /\ sq \in Seq(Entry) /\ cq.count \in Nat /\ cq.count <= QueueSize
      /\ cq.buf \in [Ring -> Cqe] /\ cq.head \in Ring /\ cq.head \in Nat
  BY Positive DEF HostTypes, RingType, Ring
<1>2. Len(sq) \in Nat /\ \A i \in 1..Len(sq) : sq[i] \in Entry
  BY <1>1, LenProperties, ElementOfSeq
<1>3. \A i \in 1..cq.count : a[i] = cq.buf[Place(i - 1)].cid /\ a[i] \in CidRange
  <2> TAKE i \in 1..cq.count
  <2>1. i - 1 \in 0..QueueSize /\ cq.head + (i - 1) = cq.head + i - 1
    BY <1>1, Positive
  <2>2. Place(i - 1) \in Ring
    BY <1>1, <2>1, PlaceCases DEF Place
  <2>3. cq.buf[Place(i - 1)] \in Cqe
    BY <1>1, <2>2
  <2>4. a[i] = cq.buf[Place(i - 1)].cid
    BY <2>1 DEF Pending, Place
  <2>5. QED
    BY <2>3, <2>4 DEF Cqe, CidRange
<1>4. \A i \in 1..Len(sq) : b[i] = sq[i].cid /\ b[i] \in CidRange
  BY <1>2 DEF Entry
<1>5. a \in Seq(CidRange) /\ Len(a) = cq.count
  <2>1. a \in [1..cq.count -> CidRange]
    BY <1>3
  <2>2. QED
    BY SMTT(30), <1>1, <2>1
<1>6. b \in Seq(CidRange) /\ Len(b) = Len(sq)
  <2>1. b \in [1..Len(sq) -> CidRange]
    BY <1>4
  <2>2. QED
    BY <1>2, <2>1
<1> HIDE DEF a, b
<1>7. Len(w) = Len(a) + Len(b)
  BY <1>5, <1>6 DEF OrderInv
<1>8. \A i \in 1..Len(a) : w[i] = a[i]
  BY <1>3, <1>5 DEF OrderInv
<1>9. \A i \in 1..Len(b) : w[Len(a) + i] = b[i]
  BY <1>4, <1>5, <1>6 DEF OrderInv
<1> HIDE DEF w
<1>10. w = a \o b
  BY <1>1, <1>5, <1>6, <1>7, <1>8, <1>9, SplitSequence
<1>11. QED
  BY <1>10 DEF CompletionsInOrder, w, a, b

-----------------------------------------------------------------------------
(* A host that reads the ring by the phase tag of add_cqe sees exactly the *)
(* completions it has not polled, on every lap of a ring of any size, also *)
(* when the ring is full.                                                  *)
THEOREM PhaseTagsFollowLaps == Spec => []PhaseFollowsLap
BY TypesInit, NextTypes, RingMeaning, PTL DEF Spec

(* host_if_process completes every accepted command once, in the order of  *)
(* host_if_submit_cmd, and add_cqe never drops a completion of a host that *)
(* keeps to the queue size, as long as the queue is no longer than the     *)
(* 16-bit counter of identifiers.                                          *)
THEOREM CompletedOnceInOrder ==
    ASSUME QueueSize <= CidMod
    PROVE  Spec => []CompletionsInOrder
BY TypesInit, NextTypes, NextOrder, OrderMeaning, PTL DEF Spec

-----------------------------------------------------------------------------
(* The effects of the commands.                                            *)

(* A set of numbers that has 0 and the successor of each of its members.   *)
LEMMA AllNumbers ==
    ASSUME NEW T \in SUBSET Nat, 0 \in T, \A k \in T : k + 1 \in T
    PROVE  \A k \in Nat : k \in T
<1> DEFINE less == {ss \in Nat \X Nat : ss[1] < ss[2]}
           Rest == Nat \ T
<1>1. less = OpToRel(<, Nat)
  BY DEF OpToRel
<1>2. IsWellFoundedOn(less, Nat)
  BY <1>1, NatLessThanWellFounded
<1>3. \A a, b \in Nat : <<a, b>> \in less <=> a < b
  OBVIOUS
<1> HIDE DEF less
<1>4. SUFFICES ASSUME Rest # {} PROVE FALSE
  OBVIOUS
<1>5. PICK m \in Rest : \A k \in Rest : ~ (<<k, m>> \in less)
  BY <1>2, <1>4, WFMin
<1>6. m \in Nat /\ m # 0 /\ m \notin T
  OBVIOUS
<1>7. m - 1 \in Nat /\ (m - 1) + 1 = m /\ m - 1 < m
  BY <1>6
<1>8. m - 1 \notin Rest
  BY <1>3, <1>5, <1>6, <1>7
<1>9. QED
  BY <1>6, <1>7, <1>8

(* The states a list of commands leads through from dev.                   *)
LeadsThrough(f, dev, list, n) ==
    /\ f[0] = dev
    /\ \A k \in 1..n : f[k] = Expected(f[k - 1], list[k])

LEMMA PathExists ==
    ASSUME NEW dev, NEW list, NEW n \in Nat
    PROVE  \E f : f = [k \in 0..n |-> IF k = 0 THEN dev ELSE Expected(f[k - 1], list[k])]
<1> DEFINE step(f, k) == IF k = 0 THEN dev ELSE Expected(f[k - 1], list[k])
           T == {m \in Nat : \E f : f = [k \in 0..m |-> step(f, k)]}
<1>1. 0 \in T
  <2> DEFINE f == [k \in 0..0 |-> dev]
  <2>1. f = [k \in 0..0 |-> step(f, k)]
    OBVIOUS
  <2>2. QED
    BY <2>1
<1>2. ASSUME NEW m \in T PROVE m + 1 \in T
  <2>1. PICK f : f = [k \in 0..m |-> step(f, k)]
    OBVIOUS
  <2>2. m \in Nat /\ m + 1 \in Nat
    OBVIOUS
  <2> DEFINE g == [k \in 0..(m + 1) |-> IF k <= m THEN f[k] ELSE Expected(f[m], list[m + 1])]
  <2>3. \A k \in 0..(m + 1) : g[k] = step(g, k)
    <3> TAKE k \in 0..(m + 1)
    <3>1. CASE k = 0
      <4>1. f[0] = dev
        BY <2>1, <2>2
      <4>2. g[0] = f[0]
        BY <2>2
      <4>3. QED
        BY <3>1, <4>1, <4>2
    <3>2. CASE k # 0 /\ k <= m
      <4>1. k \in 0..m /\ k - 1 \in 0..m /\ k - 1 \in 0..(m + 1)
        BY <2>2, <3>2
      <4>2. f[k] = Expected(f[k - 1], list[k])
        <5>1. f[k] = step(f, k)
          BY <2>1, <4>1
        <5>2. QED
          BY <3>2, <5>1
      <4>3. g[k] = f[k] /\ g[k - 1] = f[k - 1]
        BY <2>2, <3>2, <4>1
      <4>4. QED
        BY <3>2, <4>2, <4>3
    <3>3. CASE k = m + 1
      <4>1. g[k] = Expected(f[m], list[m + 1])
        BY <2>2, <3>3
      <4>2. g[m] = f[m]
        BY <2>2
      <4>3. k # 0 /\ k - 1 = m
        BY <2>2, <3>3
      <4>4. QED
        BY <3>3, <4>1, <4>2, <4>3
    <3>4. QED
      BY <2>2, <3>1, <3>2, <3>3
  <2>4. g = [k \in 0..(m + 1) |-> step(g, k)]
    <3> DEFINE h == [k \in 0..(m + 1) |-> step(g, k)]
    <3>1. DOMAIN g = DOMAIN h /\ g = [k \in DOMAIN g |-> g[k]] /\ h = [k \in DOMAIN h |-> h[k]]
      OBVIOUS
    <3>2. \A k \in DOMAIN g : g[k] = h[k]
      BY <2>3
    <3> HIDE DEF g, h
    <3>3. g = h
      BY <3>1, <3>2
    <3>4. QED
      BY <3>3 DEF h
  <2> HIDE DEF g, step
  <2>5. QED
    BY <2>2, <2>4
<1> HIDE DEF T
<1>3. n \in T
  <2>1. T \in SUBSET Nat
    BY DEF T
  <2>2. QED
    BY <1>1, <1>2, <2>1, AllNumbers
<1>4. QED
  BY <1>3 DEF T

LEMMA AfterAllPath ==
    ASSUME NEW dev, NEW list, Len(list) \in Nat
    PROVE  \E f : LeadsThrough(f, dev, list, Len(list)) /\ AfterAll(dev, list) = f[Len(list)]
<1> DEFINE n == Len(list)
           f == CHOOSE f : f = [k \in 0..n |-> IF k = 0 THEN dev ELSE Expected(f[k - 1], list[k])]
<1>1. f = [k \in 0..n |-> IF k = 0 THEN dev ELSE Expected(f[k - 1], list[k])]
  BY PathExists
<1>2. AfterAll(dev, list) = f[n]
  BY DEF AfterAll
<1> HIDE DEF f
<1>3. LeadsThrough(f, dev, list, n)
  BY <1>1 DEF LeadsThrough
<1>4. QED
  BY <1>2, <1>3

LEMMA PathsAgree ==
    ASSUME NEW dev, NEW list, NEW other, NEW n \in Nat, NEW f, NEW g,
           \A k \in 1..n : list[k] = other[k],
           LeadsThrough(f, dev, list, n), LeadsThrough(g, dev, other, n)
    PROVE  f[n] = g[n]
<1> DEFINE T == {k \in Nat : k <= n => f[k] = g[k]}
<1>1. 0 \in T
  BY DEF LeadsThrough
<1>2. ASSUME NEW k \in T PROVE k + 1 \in T
  <2>1. k \in Nat /\ (k <= n => f[k] = g[k])
    OBVIOUS
  <2>2. ASSUME k + 1 <= n PROVE f[k + 1] = g[k + 1]
    <3>1. k + 1 \in 1..n /\ (k + 1) - 1 = k /\ k <= n
      BY <2>1, <2>2
    <3>2. f[k + 1] = Expected(f[k], list[k + 1]) /\ g[k + 1] = Expected(g[k], other[k + 1])
      BY <3>1 DEF LeadsThrough
    <3>3. QED
      BY <2>1, <3>1, <3>2
  <2>3. QED
    BY <2>1, <2>2
<1>3. n \in T
  <2>1. T \in SUBSET Nat
    OBVIOUS
  <2> HIDE DEF T
  <2>2. QED
    BY <1>1, <1>2, <2>1, AllNumbers
<1>4. QED
  BY <1>3

(* The laws of AfterAll: nothing to do, one command more, one command less. *)
LEMMA AfterNone ==
    ASSUME NEW dev PROVE AfterAll(dev, <<>>) = dev
<1>1. Len(<<>>) = 0 /\ Len(<<>>) \in Nat
  OBVIOUS
<1>2. PICK f : LeadsThrough(f, dev, <<>>, Len(<<>>)) /\ AfterAll(dev, <<>>) = f[Len(<<>>)]
  BY <1>1, AfterAllPath
<1>3. QED
  BY <1>1, <1>2 DEF LeadsThrough

LEMMA AfterAppend ==
    ASSUME NEW S, NEW list \in Seq(S), NEW e \in S, NEW dev
    PROVE  AfterAll(dev, Append(list, e)) = Expected(AfterAll(dev, list), e)
<1> DEFINE n == Len(list)
           more == Append(list, e)
<1>1. n \in Nat /\ more \in Seq(S) /\ Len(more) = n + 1 /\ more[n + 1] = e /\ \A k \in 1..n : more[k] = list[k]
  BY LenProperties, AppendProperties
<1> HIDE DEF n, more
<1>2. PICK f : LeadsThrough(f, dev, list, n) /\ AfterAll(dev, list) = f[n]
  BY <1>1, AfterAllPath DEF n
<1>3. PICK g : LeadsThrough(g, dev, more, n + 1) /\ AfterAll(dev, more) = g[n + 1]
  <2>1. Len(more) \in Nat
    BY <1>1
  <2>2. PICK g : LeadsThrough(g, dev, more, Len(more)) /\ AfterAll(dev, more) = g[Len(more)]
    BY <2>1, AfterAllPath
  <2>3. QED
    BY <1>1, <2>2
<1>4. LeadsThrough(g, dev, more, n) /\ g[n + 1] = Expected(g[n], e)
  <2>1. n + 1 \in 1..(n + 1) /\ (n + 1) - 1 = n /\ \A k \in 1..n : k \in 1..(n + 1)
    BY <1>1
  <2>2. QED
    BY <1>1, <1>3, <2>1 DEF LeadsThrough
<1>5. f[n] = g[n]
  BY <1>1, <1>2, <1>4, PathsAgree
<1>6. QED
  BY <1>2, <1>3, <1>4, <1>5 DEF more

LEMMA AfterFirst ==
    ASSUME NEW list, NEW rest, NEW n \in Nat, Len(list) = n + 1, Len(rest) = n,
           \A k \in 1..n : rest[k] = list[k + 1], NEW dev
    PROVE  AfterAll(dev, list) = AfterAll(Expected(dev, list[1]), rest)
<1> DEFINE d == Expected(dev, list[1])
<1>1. PICK f : LeadsThrough(f, dev, list, n + 1) /\ AfterAll(dev, list) = f[n + 1]
  <2>1. Len(list) \in Nat
    OBVIOUS
  <2>2. PICK f : LeadsThrough(f, dev, list, Len(list)) /\ AfterAll(dev, list) = f[Len(list)]
    BY <2>1, AfterAllPath
  <2>3. QED
    BY <2>2
<1>2. PICK h : LeadsThrough(h, d, rest, n) /\ AfterAll(d, rest) = h[n]
  <2> HIDE DEF d
  <2>1. QED
    BY AfterAllPath
<1> DEFINE g == [k \in 0..n |-> f[k + 1]]
<1>3. f[1] = d
  <2>1. 1 \in 1..(n + 1) /\ 1 - 1 = 0
    OBVIOUS
  <2>2. QED
    BY <1>1, <2>1 DEF LeadsThrough
<1>4. LeadsThrough(g, d, rest, n)
  <2>1. g[0] = d
    BY <1>3
  <2>2. ASSUME NEW k \in 1..n PROVE g[k] = Expected(g[k - 1], rest[k])
    <3>1. k + 1 \in 1..(n + 1) /\ (k + 1) - 1 = k /\ k \in 0..n /\ k - 1 \in 0..n /\ (k - 1) + 1 = k
      OBVIOUS
    <3>2. g[k] = f[k + 1] /\ g[k - 1] = f[k]
      BY <3>1
    <3>3. f[k + 1] = Expected(f[k], list[k + 1])
      BY <1>1, <3>1 DEF LeadsThrough
    <3>4. QED
      BY <3>2, <3>3
  <2> HIDE DEF g
  <2>3. QED
    BY <2>1, <2>2 DEF LeadsThrough
<1>5. g[n] = f[n + 1]
  OBVIOUS
<1> HIDE DEF g, d
<1>6. g[n] = h[n]
  BY <1>2, <1>4, PathsAgree
<1>7. QED
  BY <1>1, <1>2, <1>5, <1>6 DEF d

(* A command that succeeds does to the device what the host expects of it. *)
LEMMA SuccessIsExpected ==
    ASSUME NEW e \in Entry, Executes(e.cmd, "SUCCESS")
    PROVE  Expected([disk |-> disk, feature |-> feature], e) = [disk |-> disk', feature |-> feature']
<1> DEFINE cmd == e.cmd
           dev == [disk |-> disk, feature |-> feature]
           over(v) == [l \in LPN |-> IF l >= cmd.lpn /\ l < cmd.lpn + cmd.n THEN v ELSE disk[l]]
<1>1. cmd \in Cmd /\ e.cmd = cmd
  BY DEF Entry
<1>2. Executes(cmd, "SUCCESS")
  OBVIOUS
<1> HIDE DEF cmd
<1>3. cmd.op \in {"WRITE", "WRITE_ZEROES", "TRIM"} => cmd.lpn \in Nat /\ cmd.n \in Nat
  <2> DEFINE K == 1..MaxPages
  <2>1. LPN \subseteq Nat /\ K \subseteq Nat
    BY HostAssumption DEF LPN
  <2> HIDE DEF K
  <2>2. \/ cmd \in [op : {"READ", "TRIM", "WRITE_ZEROES"}, lpn : LPN, n : K]
        \/ cmd \in [op : {"WRITE"}, lpn : LPN, n : K, val : Data]
        \/ cmd \in [op : {"IDENTIFY", "GET_LOG_PAGE", "GET_FEATURE"}, known : BOOLEAN]
        \/ cmd.op \in {"SET_FEATURE", "ACKNOWLEDGED", "INVALID"}
    BY <1>1 DEF Cmd, K
  <2>3. QED
    BY <2>1, <2>2
<1>4. dev.disk = disk /\ dev.feature = feature
  OBVIOUS
<1>5. ASSUME cmd.lpn \in Nat, cmd.n \in Nat, NEW v
      PROVE  Written(Pages(cmd.lpn, cmd.n, v)) = over(v)
  <2>1. \A l \in LPN : l \in cmd.lpn..cmd.lpn + cmd.n - 1 <=> l >= cmd.lpn /\ l < cmd.lpn + cmd.n
    BY <1>5, HostAssumption DEF LPN
  <2>2. QED
    BY <2>1 DEF Written, Pages
<1>6. ASSUME NEW v, cmd.op = "WRITE" => v = cmd.val, cmd.op = "TRIM" => v = Lost,
             cmd.op = "WRITE_ZEROES" => v = Zero, cmd.op \in {"WRITE", "WRITE_ZEROES", "TRIM"},
             disk' = Written(Pages(cmd.lpn, cmd.n, v)), feature' = feature
      PROVE  Expected(dev, e) = [disk |-> disk', feature |-> feature']
  <2>1. disk' = over(v)
    BY <1>3, <1>5, <1>6
  <2>2. Expected(dev, e) = [dev EXCEPT !.disk = over(v)]
    BY <1>1, <1>4, <1>6 DEF Expected
  <2> HIDE DEF over
  <2>3. QED
    BY <1>6, <2>1, <2>2
<1>7. CASE cmd.op = "WRITE"
  <2>1. disk' = Written(Pages(cmd.lpn, cmd.n, cmd.val)) /\ feature' = feature
    BY <1>2, <1>7 DEF Executes, host_if_process_admin_cmd, process_write_cmd
  <2>2. QED
    BY <1>6, <1>7, <2>1
<1>8. CASE cmd.op = "WRITE_ZEROES"
  <2>1. disk' = Written(Pages(cmd.lpn, cmd.n, Zero)) /\ feature' = feature
    BY <1>2, <1>8 DEF Executes, host_if_process_admin_cmd, process_write_cmd
  <2>2. QED
    BY <1>6, <1>8, <2>1
<1>9. CASE cmd.op = "TRIM"
  <2>1. disk' = Written(Pages(cmd.lpn, cmd.n, Lost)) /\ feature' = feature
    BY <1>2, <1>9 DEF Executes, host_if_process_admin_cmd, process_trim_cmd
  <2>2. QED
    BY <1>6, <1>9, <2>1
<1>10. CASE cmd.op = "SET_FEATURE"
  <2>1. cmd.known \in BOOLEAN
    BY <1>1, <1>10 DEF Cmd
  <2>2. disk' = disk /\ feature' = cmd.val /\ cmd.known
    BY <1>2, <1>10, <2>1 DEF Executes, host_if_process_admin_cmd, host_if_process_set_feature, Answer
  <2>3. Expected(dev, e) = [dev EXCEPT !.feature = cmd.val]
    BY <1>1, <1>10, <2>2 DEF Expected
  <2>4. QED
    BY <2>2, <2>3
<1>11. CASE cmd.op \notin {"WRITE", "WRITE_ZEROES", "TRIM", "SET_FEATURE"}
  <2>1. disk' = disk /\ feature' = feature
    BY <1>2, <1>11 DEF Executes, host_if_process_admin_cmd, process_read_cmd,
         host_if_process_identify, host_if_process_get_log_page, host_if_process_get_feature
  <2>2. Expected(dev, e) = dev
    BY <1>1, <1>11 DEF Expected
  <2>3. QED
    BY <2>1, <2>2
<1>12. QED
  BY <1>7, <1>8, <1>9, <1>10, <1>11

LEMMA EffectsStep ==
    HostTypes /\ EffectsInOrder /\ [Next]_vars => EffectsInOrder'
<1> SUFFICES ASSUME HostTypes, EffectsInOrder, [Next]_vars PROVE EffectsInOrder'
  OBVIOUS
<1> DEFINE dev == [disk |-> disk, feature |-> feature]
<1>1. sq \in Seq(Entry) /\ cid \in CidRange
  BY DEF HostTypes
<1>2. promised = AfterAll(dev, sq)
  BY DEF EffectsInOrder
<1>3. CASE \E cmd \in Cmd : Submit(cmd)
  <2>1. PICK cmd \in Cmd : Submit(cmd)
    BY <1>3
  <2> DEFINE e == [cmd |-> cmd, cid |-> cid]
  <2>2. e \in Entry
    BY <1>1 DEF Entry
  <2>3. sq' = Append(sq, e) /\ promised' = Expected(promised, e) /\ disk' = disk /\ feature' = feature
    BY <2>1 DEF Submit
  <2> HIDE DEF e, dev
  <2>4. AfterAll(dev, Append(sq, e)) = Expected(AfterAll(dev, sq), e)
    BY <1>1, <2>2, AfterAppend
  <2>5. QED
    BY <1>2, <2>3, <2>4 DEF EffectsInOrder, dev
<1>4. CASE ProcessCmd("SUCCESS")
  <2>1. sq # <<>> /\ Executes(sq[1].cmd, "SUCCESS") /\ sq' = RemoveAt(sq, 1) /\ promised' = promised
    BY <1>4 DEF ProcessCmd, Picked
  <2> DEFINE n == Len(sq) - 1
             d == [disk |-> disk', feature |-> feature']
  <2>2. n \in Nat /\ Len(sq) = n + 1 /\ sq[1] \in Entry
    BY <1>1, <2>1, EmptySeq, LenProperties, ElementOfSeq
  <2>3. Len(sq') = n /\ \A i \in 1..n : sq'[i] = sq[i + 1]
    BY <1>1, <2>1, RemoveFirstEntry
  <2>4. Expected(dev, sq[1]) = d
    BY <2>1, <2>2, SuccessIsExpected
  <2>5. promised' = AfterAll(d, sq')
    <3> HIDE DEF n, dev, d
    <3>1. AfterAll(dev, sq) = AfterAll(Expected(dev, sq[1]), sq')
      BY <2>2, <2>3, AfterFirst
    <3>2. QED
      BY <1>2, <2>1, <2>4, <3>1
  <2>6. QED
    BY <2>5 DEF EffectsInOrder
<1>5. CASE ProcessCmd("ERROR")
  BY <1>5 DEF ProcessCmd, EffectsInOrder
<1>6. CASE ProcessBegin \/ Poll \/ PowerLoss \/ PlpRecovery \/ UNCHANGED vars
  <2>1. UNCHANGED <<sq, disk, feature, promised>>
    BY <1>6 DEF ProcessBegin, Poll, PowerLoss, PlpRecovery, vars
  <2>2. QED
    BY <2>1 DEF EffectsInOrder
<1>7. QED
  BY <1>3, <1>4, <1>5, <1>6 DEF Next, Process, Status

(* The commands take effect in the order of submission, each exactly once  *)
(* and on the pages it names, for every length of the list and every mix   *)
(* of commands: the FTL contents and the feature, with the commands still  *)
(* in the list added, are what the host was promised.                      *)
THEOREM EffectsAreInOrder == Spec => []EffectsInOrder
<1>1. Init => EffectsInOrder
  BY AfterNone DEF Init, EffectsInOrder
<1>2. Init => HostTypes /\ RingInv
  BY TypesInit
<1>3. QED
  BY <1>1, <1>2, NextTypes, EffectsStep, PTL DEF Spec

=============================================================================
