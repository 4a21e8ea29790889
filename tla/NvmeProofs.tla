----------------------------- MODULE NvmeProofs -----------------------------
(***************************************************************************)
(* Theorems about NvmeController, for every number of AER slots, firmware  *)
(* slots and command identifiers, and every temperature sensor.            *)
(***************************************************************************)
EXTENDS NvmeController, FiniteSetTheorems, SequenceTheorems, WellFoundedInduction, TLAPS

LEMMA LowestExists ==
    ASSUME NEW T \in SUBSET Nat, T # {}
    PROVE  Lowest(T) \in T
<1> DEFINE less == {ss \in Nat \X Nat : ss[1] < ss[2]}
<1>1. less = OpToRel(<, Nat)
  BY DEF OpToRel
<1>2. IsWellFoundedOn(less, Nat)
  BY <1>1, NatLessThanWellFounded
<1>3. \A a, b \in Nat : <<a, b>> \in less <=> a < b
  OBVIOUS
<1> HIDE DEF less
<1>4. PICK m \in T : \A k \in T : ~ (<<k, m>> \in less)
  BY <1>2, WFMin
<1>5. \A k \in T : m <= k
  <2> TAKE k \in T
  <2>1. k \in Nat /\ m \in Nat /\ ~ (k < m)
    BY <1>3, <1>4
  <2>2. QED
    BY <2>1
<1>6. QED
  BY <1>5 DEF Lowest

-----------------------------------------------------------------------------
(* The pending requests, ranked by their slots.                            *)
Rank(s) == Cardinality({t \in Pending : t < s})

LEMMA PendingFinite ==
    /\ IsFiniteSet(Pending)
    /\ Cardinality(Pending) \in Nat
    /\ \A s \in AerSlot : IsFiniteSet({t \in Pending : t < s}) /\ Rank(s) \in Nat
<1>1. IsFiniteSet(AerSlot)
  BY NvmeAssumption, FS_Interval DEF AerSlot
<1>2. IsFiniteSet(Pending) /\ Cardinality(Pending) \in Nat
  BY <1>1, FS_Subset, FS_CardinalityType DEF Pending
<1>3. ASSUME NEW s \in AerSlot
      PROVE  IsFiniteSet({t \in Pending : t < s}) /\ Rank(s) \in Nat
  <2>1. {t \in Pending : t < s} \in SUBSET Pending
    OBVIOUS
  <2>2. QED
    BY <2>1, <1>2, FS_Subset, FS_CardinalityType DEF Rank
<1>4. QED
  BY <1>2, <1>3

LEMMA RankGrows ==
    ASSUME NEW s \in Pending, NEW t \in Pending, s < t
    PROVE  Rank(s) < Rank(t)
<1> DEFINE below(u) == {v \in Pending : v < u}
<1>1. s \in AerSlot /\ t \in AerSlot /\ Pending \subseteq Nat
  BY NvmeAssumption DEF Pending, AerSlot
<1>2. below(s) \subseteq below(t) /\ s \in below(t) /\ s \notin below(s)
  <2>1. s \in Nat /\ t \in Nat /\ \A v \in Pending : v \in Nat
    BY <1>1
  <2>2. \A v \in Pending : v < s => v < t
    BY <2>1
  <2>3. ~ (s < s)
    BY <2>1
  <2>4. QED
    BY <2>2, <2>3
<1>3. IsFiniteSet(below(s)) /\ IsFiniteSet(below(t))
  BY <1>1, PendingFinite
<1>4. Rank(s) = Cardinality(below(s)) /\ Rank(t) = Cardinality(below(t))
  BY DEF Rank
<1> HIDE DEF below
<1>5. Cardinality(below(s)) <= Cardinality(below(t)) /\ Cardinality(below(s)) # Cardinality(below(t))
  BY <1>2, <1>3, FS_Subset
<1>6. Cardinality(below(s)) \in Nat /\ Cardinality(below(t)) \in Nat
  BY <1>3, FS_CardinalityType
<1>7. QED
  BY <1>4, <1>5, <1>6

LEMMA RankBelow ==
    ASSUME NEW s \in Pending
    PROVE  Rank(s) < Cardinality(Pending)
<1> DEFINE below == {v \in Pending : v < s}
<1>1. s \in AerSlot /\ Pending \subseteq Nat
  BY NvmeAssumption DEF Pending, AerSlot
<1>2. below \subseteq Pending /\ s \notin below
  BY <1>1
<1>3. Rank(s) = Cardinality(below) /\ IsFiniteSet(below)
  BY <1>1, PendingFinite DEF Rank
<1> HIDE DEF below
<1>4. Cardinality(below) <= Cardinality(Pending) /\ Cardinality(below) # Cardinality(Pending)
  BY <1>2, PendingFinite, FS_Subset
<1>5. Cardinality(below) \in Nat /\ Cardinality(Pending) \in Nat
  BY <1>3, PendingFinite, FS_CardinalityType
<1>6. QED
  BY <1>3, <1>4, <1>5

(* The ranks are 0, 1, ... without a gap: an injection of the pending      *)
(* requests into as many numbers.                                          *)
LEMMA RankOnto ==
    ASSUME NEW k \in Nat, k < Cardinality(Pending)
    PROVE  \E s \in Pending : Rank(s) = k
<1> DEFINE N == Cardinality(Pending)
           R == 0..(N - 1)
           f == [s \in Pending |-> Rank(s)]
<1>1. N \in Nat /\ N > 0 /\ Pending \subseteq Nat /\ Pending \subseteq AerSlot
  BY PendingFinite, NvmeAssumption DEF Pending, AerSlot
<1> HIDE DEF N
<1>2. IsFiniteSet(R) /\ Cardinality(R) = N
  <2>1. 0 \in Int /\ N - 1 \in Int /\ ~ (0 > N - 1)
    BY <1>1
  <2>2. IsFiniteSet(0..(N - 1)) /\ Cardinality(0..(N - 1)) = (N - 1) - 0 + 1
    BY <2>1, FS_Interval
  <2>3. QED
    BY <1>1, <2>2
<1>3. \A s \in Pending : Rank(s) \in R
  <2> TAKE s \in Pending
  <2>1. Rank(s) \in Nat /\ Rank(s) < N
    BY <1>1, RankBelow, PendingFinite DEF N
  <2>2. QED
    BY <1>1, <2>1
<1>4. \A s, t \in Pending : Rank(s) = Rank(t) => s = t
  <2> TAKE s, t \in Pending
  <2>1. s < t => Rank(s) < Rank(t)
    BY RankGrows
  <2>2. t < s => Rank(t) < Rank(s)
    BY RankGrows
  <2>3. Rank(s) \in Nat /\ Rank(t) \in Nat /\ s \in Nat /\ t \in Nat
    BY <1>1, PendingFinite
  <2>4. QED
    BY <2>1, <2>2, <2>3
<1>5. f \in Injection(Pending, R)
  BY <1>3, <1>4 DEF Injection, IsInjective
<1> HIDE DEF f, R
<1>6. f \in Surjection(Pending, R)
  BY <1>2, <1>5, PendingFinite, FS_Injection DEF N
<1>7. k \in R
  BY <1>1 DEF R, N
<1>8. PICK s \in Pending : f[s] = k
  BY <1>6, <1>7 DEF Surjection
<1>9. QED
  BY <1>8 DEF f


-----------------------------------------------------------------------------
(* Sequences without repetition.                                           *)
NoRepeat(s) == \A i, j \in 1..Len(s) : s[i] = s[j] => i = j

LEMMA AppendOnce ==
    ASSUME NEW s \in Seq(Cid), NEW c \in Cid, NoRepeat(s), c \notin Members(s)
    PROVE  /\ Append(s, c) \in Seq(Cid) /\ NoRepeat(Append(s, c))
           /\ Members(Append(s, c)) = Members(s) \cup {c}
<1> DEFINE a == Append(s, c)
<1>1. /\ a \in Seq(Cid) /\ Len(a) = Len(s) + 1 /\ Len(s) \in Nat
      /\ \A i \in 1..Len(s) : a[i] = s[i]
      /\ a[Len(s) + 1] = c
  BY AppendProperties, LenProperties
<1> HIDE DEF a
<1>2. \A i \in 1..Len(a) : i \in 1..Len(s) \/ i = Len(s) + 1
  BY <1>1
<1>3. NoRepeat(a)
  BY <1>1, <1>2 DEF NoRepeat, Members
<1>4. Members(a) = Members(s) \cup {c}
  BY <1>1, <1>2 DEF Members
<1>5. QED
  BY <1>1, <1>3, <1>4 DEF a

LEMMA TailOnce ==
    ASSUME NEW s \in Seq(Cid), s # <<>>, NoRepeat(s)
    PROVE  /\ Tail(s) \in Seq(Cid) /\ NoRepeat(Tail(s))
           /\ Members(Tail(s)) = Members(s) \ {Head(s)}
<1> DEFINE a == Tail(s)
<1>1. /\ a \in Seq(Cid) /\ Len(a) = Len(s) - 1 /\ Len(s) \in Nat
      /\ \A i \in 1..Len(a) : a[i] = s[i + 1]
      /\ Head(s) = s[1] /\ Len(s) > 0
  BY HeadTailProperties, LenProperties, EmptySeq
<1> HIDE DEF a
<1>2. \A i \in 1..Len(a) : i \in Nat /\ i + 1 \in 1..Len(s) /\ i + 1 # 1
  BY <1>1
<1>3. NoRepeat(a)
  BY <1>1, <1>2 DEF NoRepeat
<1>4. Members(a) = Members(s) \ {Head(s)}
  <2>1. ASSUME NEW i \in 1..Len(a) PROVE a[i] \in Members(s) \ {Head(s)}
    <3>1. a[i] = s[i + 1] /\ i + 1 \in 1..Len(s) /\ i + 1 # 1 /\ 1 \in 1..Len(s)
      BY <1>1, <1>2
    <3>2. QED
      BY <1>1, <3>1 DEF NoRepeat, Members
  <2>2. ASSUME NEW i \in 1..Len(s), s[i] # Head(s) PROVE s[i] \in Members(a)
    <3>1. i # 1
      BY <1>1, <2>2
    <3>2. i - 1 \in 1..Len(a) /\ (i - 1) + 1 = i
      BY <1>1, <3>1
    <3>3. s[i] = a[i - 1]
      BY <1>1, <3>2
    <3>4. QED
      BY <3>2, <3>3 DEF Members
  <2>3. QED
    BY <2>1, <2>2 DEF Members
<1>5. QED
  BY <1>1, <1>3, <1>4 DEF a

LEMMA HeadMember ==
    ASSUME NEW s \in Seq(Cid), s # <<>>
    PROVE  Head(s) \in Members(s)
<1>1. Head(s) = s[1] /\ 1 \in 1..Len(s)
  BY HeadTailProperties, LenProperties, EmptySeq
<1>2. QED
  BY <1>1 DEF Members

LEMMA ConcatOnce ==
    ASSUME NEW s \in Seq(Cid), NEW t \in Seq(Cid)
    PROVE  /\ s \o t \in Seq(Cid)
           /\ Members(s \o t) = Members(s) \cup Members(t)
           /\ NoRepeat(s \o t) <=> /\ NoRepeat(s) /\ NoRepeat(t)
                                   /\ Members(s) \cap Members(t) = {}
<1> DEFINE a == s \o t
<1>1. /\ a \in Seq(Cid) /\ Len(a) = Len(s) + Len(t) /\ Len(s) \in Nat /\ Len(t) \in Nat
      /\ \A i \in 1..Len(s) + Len(t) : a[i] = IF i <= Len(s) THEN s[i] ELSE t[i - Len(s)]
  BY ConcatProperties, LenProperties
<1> HIDE DEF a
<1>2. \A i \in 1..Len(s) : i \in 1..Len(a) /\ a[i] = s[i]
  BY <1>1
<1>3. \A i \in 1..Len(t) : i + Len(s) \in 1..Len(a) /\ a[i + Len(s)] = t[i]
  <2> TAKE i \in 1..Len(t)
  <2>1. /\ i + Len(s) \in 1..Len(s) + Len(t) /\ ~ (i + Len(s) <= Len(s))
        /\ (i + Len(s)) - Len(s) = i
    BY <1>1
  <2>2. QED
    BY <1>1, <2>1
<1>4. \A i \in 1..Len(a) :
        \/ i \in 1..Len(s)
        \/ i - Len(s) \in 1..Len(t) /\ a[i] = t[i - Len(s)]
  BY <1>1
<1>5. Members(a) = Members(s) \cup Members(t)
  <2>1. ASSUME NEW i \in 1..Len(a) PROVE a[i] \in Members(s) \cup Members(t)
    BY <1>2, <1>4 DEF Members
  <2>2. ASSUME NEW i \in 1..Len(s) PROVE s[i] \in Members(a)
    BY <1>2 DEF Members
  <2>3. ASSUME NEW i \in 1..Len(t) PROVE t[i] \in Members(a)
    BY <1>3 DEF Members
  <2>4. QED
    BY <2>1, <2>2, <2>3 DEF Members
<1>6. ASSUME NoRepeat(a) PROVE NoRepeat(s) /\ NoRepeat(t) /\ Members(s) \cap Members(t) = {}
  <2>1. NoRepeat(s)
    BY <1>2, <1>6 DEF NoRepeat
  <2>2. NoRepeat(t)
    BY SMTT(30), <1>1, <1>3, <1>6 DEF NoRepeat
  <2>3. \A i \in 1..Len(s), j \in 1..Len(t) : s[i] # t[j]
    BY <1>1, <1>2, <1>3, <1>6 DEF NoRepeat
  <2>4. QED
    BY <2>1, <2>2, <2>3 DEF Members
<1>7. ASSUME NoRepeat(s), NoRepeat(t), Members(s) \cap Members(t) = {} PROVE NoRepeat(a)
  <2>1. \A i \in 1..Len(s), j \in 1..Len(t) : s[i] # t[j]
    BY <1>7 DEF Members
  <2>2. SUFFICES ASSUME NEW i \in 1..Len(a), NEW j \in 1..Len(a), a[i] = a[j] PROVE i = j
    BY DEF NoRepeat
  <2>3. CASE i \in 1..Len(s) /\ j \in 1..Len(s)
    BY <1>2, <1>7, <2>2, <2>3 DEF NoRepeat
  <2>4. CASE i \notin 1..Len(s) /\ j \notin 1..Len(s)
    <3>1. i - Len(s) = j - Len(s)
      BY <1>4, <1>7, <2>2, <2>4 DEF NoRepeat
    <3>2. QED
      BY <1>1, <3>1
  <2>5. CASE i \in 1..Len(s) /\ j \notin 1..Len(s)
    BY <1>2, <1>4, <2>1, <2>2, <2>5
  <2>6. CASE i \notin 1..Len(s) /\ j \in 1..Len(s)
    BY <1>2, <1>4, <2>1, <2>2, <2>6
  <2>7. QED
    BY <2>3, <2>4, <2>5, <2>6
<1>8. QED
  BY <1>1, <1>5, <1>6, <1>7 DEF a

-----------------------------------------------------------------------------
(* No two requests wait under one identifier.                              *)
PendingOnce == \A s, t \in Pending : aer_pending[s] = aer_pending[t] => s = t

(* aer_try_complete answers n different requests.                          *)
LEMMA AnswersOnce ==
    ASSUME aer_pending \in [AerSlot -> Cid \cup {NoCid}], PendingOnce,
           NEW n \in Nat, n <= Cardinality(Pending)
    PROVE  /\ AnswerOrder(n) \in Seq(Cid) /\ NoRepeat(AnswerOrder(n))
           /\ Members(AnswerOrder(n)) = {aer_pending[s] : s \in Answered(n)}
<1> DEFINE slot(i) == CHOOSE s \in Answered(n) : Rank(s) = i - 1
           a       == AnswerOrder(n)
<1>1. a = [i \in 1..n |-> aer_pending[slot(i)]]
  BY DEF AnswerOrder, Rank
<1>2. ASSUME NEW i \in 1..n PROVE slot(i) \in Answered(n) /\ Rank(slot(i)) = i - 1
  <2>1. i - 1 \in Nat /\ i - 1 < Cardinality(Pending) /\ i - 1 < n
    BY PendingFinite
  <2>2. PICK s \in Pending : Rank(s) = i - 1
    BY <2>1, RankOnto
  <2>3. s \in Answered(n)
    BY <2>1, <2>2 DEF Answered, Rank
  <2>4. QED
    BY <2>2, <2>3
<1>3. Answered(n) \subseteq Pending /\ \A s \in Pending : aer_pending[s] \in Cid
  BY DEF Answered, Pending
<1> HIDE DEF slot
<1>4. \A i \in 1..n : a[i] = aer_pending[slot(i)] /\ a[i] \in Cid
  BY <1>1, <1>2, <1>3
<1>5. a \in Seq(Cid) /\ Len(a) = n
  <2>1. a \in [1..n -> Cid]
    BY <1>1, <1>2, <1>3
  <2>2. QED
    BY <2>1
<1>6. NoRepeat(a)
  <2>1. SUFFICES ASSUME NEW i \in 1..n, NEW j \in 1..n, a[i] = a[j] PROVE i = j
    BY <1>5 DEF NoRepeat
  <2>2. slot(i) = slot(j)
    BY <1>2, <1>3, <1>4, <2>1 DEF PendingOnce
  <2>3. i - 1 = j - 1
    BY <1>2, <2>2
  <2>4. QED
    BY <2>3
<1>7. Members(a) \subseteq {aer_pending[s] : s \in Answered(n)}
  BY <1>2, <1>4, <1>5 DEF Members
<1>8. ASSUME NEW s \in Answered(n) PROVE aer_pending[s] \in Members(a)
  <2>1. s \in Pending /\ s \in AerSlot /\ Rank(s) < n
    BY DEF Answered, Pending, Rank
  <2>2. Rank(s) \in Nat
    BY <2>1, PendingFinite
  <2>3. Rank(s) + 1 \in 1..n /\ (Rank(s) + 1) - 1 = Rank(s)
    BY <2>1, <2>2
  <2> DEFINE t == slot(Rank(s) + 1)
  <2>4. t \in Pending /\ Rank(t) = Rank(s)
    BY <1>2, <1>3, <2>3
  <2>5. t \in Nat /\ s \in Nat
    BY <2>1, <2>4, NvmeAssumption DEF Pending, AerSlot
  <2>6. ~ (s < t) /\ ~ (t < s)
    BY <2>1, <2>2, <2>4, RankGrows
  <2> HIDE DEF t
  <2>7. s = t
    BY <2>5, <2>6
  <2>8. a[Rank(s) + 1] = aer_pending[s]
    BY <1>4, <2>3, <2>7 DEF t
  <2>9. QED
    BY <1>5, <2>3, <2>8 DEF Members
<1>9. QED
  BY <1>5, <1>6, <1>7, <1>8

-----------------------------------------------------------------------------
LEMMA AerPosted ==
    ASSUME NEW a \in [head : 0..(EventSlots - 1), tail : 0..(EventSlots - 1),
                      count : 0..EventSlots, mask : BOOLEAN],
           NEW type
    PROVE  post_aer_event(a, type) \in [head : 0..(EventSlots - 1), tail : 0..(EventSlots - 1),
                                        count : 0..EventSlots, mask : BOOLEAN]
<1>1. EventSlots \in Nat /\ EventSlots > 0
  BY NvmeAssumption
<1>2. (a.tail + 1) % EventSlots \in 0..(EventSlots - 1)
  BY <1>1
<1>3. CASE a.count >= EventSlots \/ (type = "SMART_HEALTH" /\ ~a.mask)
  BY <1>3 DEF post_aer_event
<1>4. CASE ~ (a.count >= EventSlots) /\ ~ (type = "SMART_HEALTH" /\ ~a.mask)
  <2>1. a.count + 1 \in 0..EventSlots
    BY <1>1, <1>4
  <2>2. QED
    BY <1>2, <1>4, <2>1 DEF post_aer_event
<1>5. QED
  BY <1>3, <1>4

LEMMA AerTaken ==
    ASSUME NEW a \in [head : 0..(EventSlots - 1), tail : 0..(EventSlots - 1),
                      count : 0..EventSlots, mask : BOOLEAN],
           NEW n \in Nat, n <= a.count
    PROVE  Taken(a, n) \in [head : 0..(EventSlots - 1), tail : 0..(EventSlots - 1),
                            count : 0..EventSlots, mask : BOOLEAN]
<1>1. EventSlots \in Nat /\ EventSlots > 0
  BY NvmeAssumption
<1>2. (a.head + n) % EventSlots \in 0..(EventSlots - 1) /\ a.count - n \in 0..EventSlots
  BY <1>1
<1>3. QED
  BY <1>2 DEF Taken

LEMMA TempMoves ==
    ASSUME temp.current \in MinTemp..MaxTemp, NEW io, NEW t \in NewTemps(io)
    PROVE  t \in MinTemp..MaxTemp
<1>1. MinTemp \in Nat /\ MaxTemp \in Nat /\ MinTemp <= MaxTemp
  BY NvmeAssumption
<1>2. PICK r \in 0..2 : t = Clamped(temp.current + r + (IF io THEN 2 ELSE 0))
  BY DEF NewTemps
<1>3. \A u \in Nat : Clamped(u) \in MinTemp..MaxTemp
  BY <1>1 DEF Clamped
<1>4. temp.current + r + (IF io THEN 2 ELSE 0) \in Nat
  BY <1>1
<1>5. QED
  BY <1>2, <1>3, <1>4

-----------------------------------------------------------------------------
(* The firmware slots.                                                     *)
FwType == [state : [FwSlot -> SlotState], running : FwSlot, next_boot : FwSlot,
           active : BOOLEAN, downloaded : 0..MaxImage]

Bootable(f) ==
    /\ \A s \in FwSlot : f.state[s] = "RUNNING" => s = f.running
    /\ f.state[f.running] # "EMPTY"
    /\ f.state[f.next_boot] # "EMPTY"

LEMMA DownloadKeeps ==
    ASSUME fw \in FwType, Bootable(fw), NEW offset \in 0..MaxImage
    PROVE  admin_fw_download(offset) \in FwType /\ Bootable(admin_fw_download(offset))
<1>1. MaxImage \in Nat /\ MaxImage > 0
  BY NvmeAssumption
<1> DEFINE started == IF offset = 0 THEN [fw EXCEPT !.active = TRUE, !.downloaded = 0] ELSE fw
<1>2. /\ started \in FwType /\ started.state = fw.state /\ started.running = fw.running
      /\ started.next_boot = fw.next_boot
      /\ started.downloaded = IF offset = 0 THEN 0 ELSE fw.downloaded
  BY <1>1 DEF FwType
<1>3. admin_fw_download(offset) = IF Downloads(offset)
                                  THEN [started EXCEPT !.downloaded = @ + 1] ELSE started
  BY DEF admin_fw_download
<1> HIDE DEF started
<1>4. CASE ~Downloads(offset)
  BY <1>2, <1>3, <1>4 DEF Bootable
<1>5. CASE Downloads(offset)
  <2> DEFINE d == [started EXCEPT !.downloaded = @ + 1]
  <2>1. started.downloaded + 1 \in 0..MaxImage
    BY <1>1, <1>2, <1>5 DEF Downloads
  <2>2. /\ d \in FwType /\ d.state = started.state /\ d.running = started.running
        /\ d.next_boot = started.next_boot
    BY <1>2, <2>1 DEF FwType
  <2> HIDE DEF d
  <2>3. admin_fw_download(offset) = d
    BY <1>3, <1>5 DEF d
  <2>4. QED
    BY <1>2, <2>2, <2>3 DEF Bootable
<1>6. QED
  BY <1>4, <1>5

(* A commit leaves the running slot RUNNING or VALID: a replaced image in  *)
(* the running slot is VALID, whatever the action.                         *)
LEMMA ActivateKeeps ==
    ASSUME fw \in FwType, Bootable(fw), NEW slot \in 0..FwSlots, NEW action
    PROVE  admin_fw_activate(slot, action) \in FwType /\ Bootable(admin_fw_activate(slot, action))
<1> DEFINE new == admin_fw_activate(slot, action)
<1>1. CASE SetsBoot(slot, action)
  <2> DEFINE d == [fw EXCEPT !.next_boot = slot]
  <2>1. /\ d \in FwType /\ d.state = fw.state /\ d.running = fw.running /\ d.next_boot = slot
        /\ fw.state[slot] # "EMPTY"
    BY <1>1 DEF FwType, SetsBoot
  <2> HIDE DEF d
  <2>2. new = d
    BY <1>1 DEF admin_fw_activate, d
  <2>3. QED
    BY <2>1, <2>2 DEF Bootable
<1>2. CASE ~SetsBoot(slot, action) /\ ~Commits(slot, action)
  BY <1>2 DEF admin_fw_activate
<1>3. CASE ~SetsBoot(slot, action) /\ Commits(slot, action)
  <2>1. slot \in FwSlot /\ 0 \in 0..MaxImage
    BY <1>3, NvmeAssumption DEF Commits
  <2> DEFINE d == Stored(slot)
             r == [d EXCEPT !.next_boot = slot]
             n == Activated(slot)
  <2>2. /\ d \in FwType /\ d.state = [fw.state EXCEPT ![slot] = "VALID"]
        /\ d.running = fw.running /\ d.next_boot = fw.next_boot
    BY <2>1 DEF FwType, Stored, SlotState
  <2>3. Bootable(d)
    BY <2>1, <2>2 DEF Bootable, FwType
  <2>4. /\ n \in FwType /\ n.running = slot /\ n.next_boot = slot
        /\ n.state = [d.state EXCEPT ![fw.running] = "VALID", ![slot] = "RUNNING"]
    BY <2>1, <2>2 DEF FwType, Activated, SlotState
  <2> HIDE DEF d
  <2>5. r \in FwType /\ r.state = d.state /\ r.running = d.running /\ r.next_boot = slot
    BY <2>1, <2>2 DEF FwType
  <2> HIDE DEF n
  <2>6. \/ new = d
        \/ new = [d EXCEPT !.next_boot = slot]
        \/ new = n
    BY <1>3 DEF admin_fw_activate, d, n
  <2>7. Bootable(r)
    <3> HIDE DEF r
    <3>1. d.state[slot] = "VALID"
      BY <2>1, <2>2 DEF FwType
    <3>2. QED
      BY <2>3, <2>5, <3>1 DEF Bootable
  <2>8. Bootable(n)
    <3>1. fw.running \in FwSlot /\ d.state \in [FwSlot -> SlotState]
      BY <2>2 DEF FwType
    <3>2. \A s \in FwSlot : n.state[s] = IF s = slot THEN "RUNNING"
                                         ELSE IF s = fw.running THEN "VALID" ELSE d.state[s]
      BY <2>1, <2>4, <3>1
    <3>3. \A s \in FwSlot : d.state[s] = "RUNNING" => s = fw.running
      BY <2>2, <2>3 DEF Bootable
    <3>4. QED
      BY <2>1, <2>4, <3>2, <3>3 DEF Bootable
  <2>9. QED
    BY <2>2, <2>3, <2>4, <2>5, <2>6, <2>7, <2>8
<1>4. QED
  BY <1>1, <1>2, <1>3

-----------------------------------------------------------------------------
(* The inductive invariant: types, firmware, and where identifiers are.    *)
AerType  == [head : 0..(EventSlots - 1), tail : 0..(EventSlots - 1),
             count : 0..EventSlots, mask : BOOLEAN]
TempType == [current : MinTemp..MaxTemp, warning : Nat \ {0}, warning_active : BOOLEAN,
             critical_active : BOOLEAN, update_counter : 0..(UpdateEvery - 1)]
CtrlType == [ready : BOOLEAN, sq : BOOLEAN, io_cmd : BOOLEAN]

OnceInv ==
    /\ admin_cq \in Seq(Cid) /\ io_cq \in Seq(Cid)
    /\ aer_pending \in [AerSlot -> Cid \cup {NoCid}]
    /\ NoRepeat(admin_cq) /\ NoRepeat(io_cq)
    /\ Members(admin_cq) \cap Members(io_cq) = {}
    /\ PendingOnce
    /\ \A s \in Pending : aer_pending[s] \notin Members(admin_cq) \cup Members(io_cq)
    /\ out \subseteq Cid /\ out = Outstanding

RestInv == aer \in AerType /\ temp \in TempType /\ fw \in FwType /\ ctrl \in CtrlType /\ Bootable(fw)

NvmeInv == OnceInv /\ RestInv

LEMMA InvMeaning == NvmeInv => TypeOK /\ AnsweredOnce /\ FirmwareBootable /\ NoCommandDropped
<1> SUFFICES ASSUME NvmeInv
             PROVE  TypeOK /\ AnsweredOnce /\ FirmwareBootable /\ NoCommandDropped
  OBVIOUS
<1>1. TypeOK
  BY DEF NvmeInv, OnceInv, RestInv, TypeOK, AerType, TempType, FwType, CtrlType
<1>2. FirmwareBootable
  BY DEF NvmeInv, RestInv, Bootable, FirmwareBootable
<1>3. /\ NoRepeat(admin_cq \o io_cq)
      /\ Members(admin_cq \o io_cq) = Members(admin_cq) \cup Members(io_cq)
  BY ConcatOnce DEF NvmeInv, OnceInv
<1>4. AnsweredOnce
  BY <1>3 DEF NvmeInv, OnceInv, PendingOnce, NoRepeat, AnsweredOnce
<1>5. NoCommandDropped
  BY DEF NvmeInv, OnceInv, NoCommandDropped
<1>6. QED
  BY <1>1, <1>2, <1>4, <1>5

LEMMA InitInv == Init => NvmeInv
<1> SUFFICES ASSUME Init PROVE NvmeInv
  OBVIOUS
<1>1. admin_cq = <<>> /\ io_cq = <<>> /\ out = {} /\ aer_pending = [s \in AerSlot |-> NoCid]
  BY DEF Init, nvme_ctrl_aer_init
<1>2. Pending = {}
  BY <1>1 DEF Pending
<1>3. OnceInv
  BY <1>1, <1>2 DEF OnceInv, NoRepeat, Members, PendingOnce, Outstanding
<1>4. aer \in AerType
  BY NvmeAssumption DEF Init, nvme_ctrl_aer_init, AerType
<1>5. temp \in TempType
  BY NvmeAssumption DEF Init, nvme_ctrl_temp_init, TempType
<1>6. fw \in FwType /\ Bootable(fw)
  BY NvmeAssumption DEF Init, nvme_ctrl_fw_init, FwType, FwSlot, SlotState, Bootable
<1>7. ctrl \in CtrlType
  BY DEF Init, CtrlType
<1>8. QED
  BY <1>3, <1>4, <1>5, <1>6, <1>7 DEF NvmeInv, RestInv

(* A completion under a fresh identifier.                                  *)
LEMMA PostOnce ==
    ASSUME OnceInv, NEW cid \in Fresh, Post(cid), UNCHANGED <<aer_pending, io_cq>>,
           out' = out \cup {cid}
    PROVE  OnceInv'
<1>1. cid \in Cid /\ cid \notin Members(admin_cq) /\ cid \notin Members(io_cq)
  BY DEF Fresh, OnceInv, Outstanding
<1>2. \A s \in Pending : aer_pending[s] # cid
  BY DEF Fresh, OnceInv, Outstanding
<1>3. /\ admin_cq' \in Seq(Cid) /\ NoRepeat(admin_cq')
      /\ Members(admin_cq') = Members(admin_cq) \cup {cid}
  BY <1>1, AppendOnce DEF OnceInv, Post
<1>4. Pending' = Pending /\ PendingOnce' /\ NoRepeat(io_cq') /\ Members(io_cq') = Members(io_cq)
  BY DEF OnceInv, Pending, PendingOnce, NoRepeat, Members
<1>5. NoRepeat(admin_cq)' /\ Members(admin_cq)' = Members(admin_cq) \cup {cid}
  BY <1>3 DEF NoRepeat, Members
<1>6. NoRepeat(io_cq)' /\ Members(io_cq)' = Members(io_cq)
  BY <1>4 DEF NoRepeat, Members
<1>7. out' \subseteq Cid /\ out' = Outstanding'
  BY <1>1, <1>4, <1>5, <1>6 DEF OnceInv, Outstanding
<1>8. QED
  BY <1>1, <1>2, <1>3, <1>4, <1>5, <1>6, <1>7 DEF OnceInv

LEMMA IoOnce ==
    ASSUME OnceInv, NEW cid \in Fresh, io_cq' = Append(io_cq, cid),
           out' = out \cup {cid}, UNCHANGED <<aer_pending, admin_cq>>
    PROVE  OnceInv'
<1>1. cid \in Cid /\ cid \notin Members(admin_cq) /\ cid \notin Members(io_cq)
  BY DEF Fresh, OnceInv, Outstanding
<1>2. \A s \in Pending : aer_pending[s] # cid
  BY DEF Fresh, OnceInv, Outstanding
<1>3. /\ io_cq' \in Seq(Cid) /\ NoRepeat(io_cq)'
      /\ Members(io_cq)' = Members(io_cq) \cup {cid}
  BY <1>1, AppendOnce DEF OnceInv, NoRepeat, Members
<1>4. /\ Pending' = Pending /\ PendingOnce'
      /\ NoRepeat(admin_cq)' /\ Members(admin_cq)' = Members(admin_cq)
  BY DEF OnceInv, Pending, PendingOnce, NoRepeat, Members
<1>5. out' \subseteq Cid /\ out' = Outstanding'
  BY <1>1, <1>3, <1>4 DEF OnceInv, Outstanding
<1>6. QED
  BY <1>1, <1>2, <1>3, <1>4, <1>5 DEF OnceInv

LEMMA RequestOnce ==
    ASSUME OnceInv, NEW cid \in Fresh, NEW slot \in AerSlot \ Pending,
           aer_pending' = [aer_pending EXCEPT ![slot] = cid], UNCHANGED <<admin_cq, io_cq>>,
           out' = out \cup {cid}
    PROVE  OnceInv'
<1>1. cid \in Cid /\ cid \notin Members(admin_cq) /\ cid \notin Members(io_cq) /\ cid # NoCid
  BY NvmeAssumption DEF Fresh, OnceInv, Outstanding
<1>2. \A s \in Pending : aer_pending[s] # cid
  BY DEF Fresh, OnceInv, Outstanding
<1>3. /\ aer_pending' \in [AerSlot -> Cid \cup {NoCid}]
      /\ aer_pending'[slot] = cid
      /\ \A s \in AerSlot : s # slot => aer_pending'[s] = aer_pending[s]
  BY <1>1 DEF OnceInv
<1>4. Pending' = Pending \cup {slot}
  BY <1>1, <1>3 DEF Pending
<1>5. \A s \in Pending : s \in AerSlot /\ s # slot
  BY DEF Pending
<1>6. PendingOnce'
  BY <1>2, <1>3, <1>4, <1>5 DEF PendingOnce, OnceInv
<1>7. /\ NoRepeat(io_cq)' /\ Members(io_cq)' = Members(io_cq)
      /\ NoRepeat(admin_cq)' /\ Members(admin_cq)' = Members(admin_cq)
  BY DEF OnceInv, NoRepeat, Members
<1>8. {aer_pending[s] : s \in Pending}' = {aer_pending[s] : s \in Pending} \cup {cid}
  BY <1>3, <1>4, <1>5
<1>9. out' \subseteq Cid /\ out' = Outstanding'
  BY <1>1, <1>7, <1>8 DEF OnceInv, Outstanding
<1>10. QED
  BY <1>1, <1>3, <1>4, <1>5, <1>6, <1>7, <1>9 DEF OnceInv

(* aer_try_complete: the requests it answers are no longer pending.        *)
LEMMA AnswerOnce ==
    ASSUME OnceInv, NEW n \in Nat, n <= Cardinality(Pending),
           admin_cq' = admin_cq \o AnswerOrder(n), aer_pending' = Released(Answered(n)),
           UNCHANGED <<io_cq, out>>
    PROVE  OnceInv'
<1> DEFINE a == AnswerOrder(n)
<1>1. a \in Seq(Cid) /\ NoRepeat(a) /\ Members(a) = {aer_pending[s] : s \in Answered(n)}
  BY AnswersOnce DEF OnceInv
<1>2. Answered(n) \subseteq Pending
  BY DEF Answered
<1> HIDE DEF a
<1> DEFINE A == Members(a)
           B == Members(admin_cq) \cup Members(io_cq)
<1>3. ASSUME NEW c \in A PROVE \E s \in Pending : s \in Answered(n) /\ c = aer_pending[s]
  BY <1>1, <1>2
<1>4. \A s \in Pending : aer_pending[s] \notin B
  BY DEF OnceInv
<1>5. Members(a) \cap Members(admin_cq) = {} /\ Members(a) \cap Members(io_cq) = {}
  <2> HIDE DEF A, B
  <2>1. A \cap B = {}
    BY <1>3, <1>4
  <2>2. QED
    BY <2>1 DEF A, B
<1>6. /\ admin_cq' \in Seq(Cid) /\ NoRepeat(admin_cq)'
      /\ Members(admin_cq)' = Members(admin_cq) \cup Members(a)
  <2>1. /\ admin_cq \o a \in Seq(Cid) /\ NoRepeat(admin_cq \o a)
        /\ Members(admin_cq \o a) = Members(admin_cq) \cup Members(a)
    BY <1>1, <1>5, ConcatOnce DEF OnceInv
  <2>2. admin_cq' = admin_cq \o a
    BY DEF a
  <2>3. QED
    BY <2>1, <2>2 DEF NoRepeat, Members
<1>7. aer_pending' \in [AerSlot -> Cid \cup {NoCid}]
  BY DEF OnceInv, Released
<1>8. /\ Pending' = Pending \ Answered(n)
      /\ \A s \in Pending' : aer_pending'[s] = aer_pending[s]
  BY <1>2 DEF Pending, Released
<1>9. PendingOnce'
  BY <1>8 DEF PendingOnce, OnceInv
<1>10. NoRepeat(io_cq)' /\ Members(io_cq)' = Members(io_cq)
  BY DEF OnceInv, NoRepeat, Members
<1>11. \A s \in Pending' : aer_pending'[s] \notin Members(a)
  <2> SUFFICES ASSUME NEW s \in Pending, s \notin Answered(n), aer_pending[s] \in A PROVE FALSE
    BY <1>8
  <2>1. PICK t \in Pending : t \in Answered(n) /\ aer_pending[s] = aer_pending[t]
    BY <1>3
  <2>2. QED
    BY <2>1 DEF OnceInv, PendingOnce
<1>12. {aer_pending[s] : s \in Pending}
           = Members(a) \cup {aer_pending[s] : s \in Pending}'
  BY <1>1, <1>2, <1>8
<1>13. out' \subseteq Cid /\ out' = Outstanding'
  BY <1>6, <1>10, <1>12 DEF OnceInv, Outstanding
<1>14. QED
  BY <1>5, <1>6, <1>7, <1>8, <1>9, <1>10, <1>11, <1>13 DEF OnceInv

LEMMA TailsOnce ==
    ASSUME OnceInv, HostConsumes
    PROVE  OnceInv'
<1>1. Pending' = Pending /\ PendingOnce' /\ aer_pending' = aer_pending
  BY DEF OnceInv, HostConsumes, Pending, PendingOnce
<1>2. {aer_pending[s] : s \in Pending}' = {aer_pending[s] : s \in Pending}
  BY <1>1
<1>3. CASE /\ admin_cq # <<>> /\ admin_cq' = Tail(admin_cq) /\ UNCHANGED io_cq
           /\ out' = out \ {Head(admin_cq)}
  <2>1. /\ admin_cq' \in Seq(Cid) /\ NoRepeat(admin_cq)'
        /\ Members(admin_cq)' = Members(admin_cq) \ {Head(admin_cq)}
    <3>1. /\ Tail(admin_cq) \in Seq(Cid) /\ NoRepeat(Tail(admin_cq))
          /\ Members(Tail(admin_cq)) = Members(admin_cq) \ {Head(admin_cq)}
      BY <1>3, TailOnce DEF OnceInv
    <3>2. NoRepeat(admin_cq)' = NoRepeat(admin_cq') /\ Members(admin_cq)' = Members(admin_cq')
      BY DEF NoRepeat, Members
    <3>3. QED
      BY <1>3, <3>1, <3>2
  <2>2. NoRepeat(io_cq)' /\ Members(io_cq)' = Members(io_cq)
    BY <1>3 DEF OnceInv, NoRepeat, Members
  <2>3. Head(admin_cq) \in Members(admin_cq)
    BY <1>3, HeadMember DEF OnceInv
  <2>4. out' \subseteq Cid /\ out' = Outstanding'
    <3>1. Head(admin_cq) \notin Members(io_cq) /\ \A s \in Pending : aer_pending[s] # Head(admin_cq)
      BY <2>3 DEF OnceInv
    <3>2. Head(admin_cq) \notin {aer_pending[s] : s \in Pending}
      BY <3>1
    <3> DEFINE waiting == {aer_pending[s] : s \in Pending}
    <3>3. out = Members(admin_cq) \cup Members(io_cq) \cup waiting /\ out \subseteq Cid
      BY DEF OnceInv, Outstanding
    <3>4. Outstanding' = Members(admin_cq)' \cup Members(io_cq)' \cup waiting
      BY <1>2 DEF Outstanding
    <3> HIDE DEF waiting
    <3>5. Head(admin_cq) \notin waiting
      BY <3>2 DEF waiting
    <3>6. QED
      BY <1>3, <2>1, <2>2, <2>3, <3>1, <3>3, <3>4, <3>5
  <2>5. QED
    BY <1>1, <1>3, <2>1, <2>2, <2>4 DEF OnceInv
<1>4. CASE /\ io_cq # <<>> /\ io_cq' = Tail(io_cq) /\ UNCHANGED admin_cq
           /\ out' = out \ {Head(io_cq)}
  <2>1. /\ io_cq' \in Seq(Cid) /\ NoRepeat(io_cq)'
        /\ Members(io_cq)' = Members(io_cq) \ {Head(io_cq)}
    <3>1. /\ Tail(io_cq) \in Seq(Cid) /\ NoRepeat(Tail(io_cq))
          /\ Members(Tail(io_cq)) = Members(io_cq) \ {Head(io_cq)}
      BY <1>4, TailOnce DEF OnceInv
    <3>2. NoRepeat(io_cq)' = NoRepeat(io_cq') /\ Members(io_cq)' = Members(io_cq')
      BY DEF NoRepeat, Members
    <3>3. QED
      BY <1>4, <3>1, <3>2
  <2>2. NoRepeat(admin_cq)' /\ Members(admin_cq)' = Members(admin_cq)
    BY <1>4 DEF OnceInv, NoRepeat, Members
  <2>3. Head(io_cq) \in Members(io_cq)
    BY <1>4, HeadMember DEF OnceInv
  <2>4. out' \subseteq Cid /\ out' = Outstanding'
    <3>1. Head(io_cq) \notin Members(admin_cq) /\ \A s \in Pending : aer_pending[s] # Head(io_cq)
      BY <2>3 DEF OnceInv
    <3>2. Head(io_cq) \notin {aer_pending[s] : s \in Pending}
      BY <3>1
    <3> DEFINE waiting == {aer_pending[s] : s \in Pending}
    <3>3. out = Members(admin_cq) \cup Members(io_cq) \cup waiting /\ out \subseteq Cid
      BY DEF OnceInv, Outstanding
    <3>4. Outstanding' = Members(admin_cq)' \cup Members(io_cq)' \cup waiting
      BY <1>2 DEF Outstanding
    <3> HIDE DEF waiting
    <3>5. Head(io_cq) \notin waiting
      BY <3>2 DEF waiting
    <3>6. QED
      BY <1>4, <2>1, <2>2, <2>3, <3>1, <3>3, <3>4, <3>5
  <2>5. QED
    BY <1>1, <1>4, <2>1, <2>2, <2>4 DEF OnceInv
<1>5. QED
  BY <1>3, <1>4 DEF HostConsumes

LEMMA SameOnce ==
    ASSUME OnceInv, UNCHANGED <<admin_cq, io_cq, aer_pending, out>>
    PROVE  OnceInv'
<1>1. Pending' = Pending /\ PendingOnce'
  BY DEF OnceInv, Pending, PendingOnce
<1>2. Members(admin_cq)' = Members(admin_cq) /\ Members(io_cq)' = Members(io_cq)
  BY DEF Members
<1>3. NoRepeat(admin_cq)' /\ NoRepeat(io_cq)'
  BY DEF OnceInv, NoRepeat
<1>4. out' = Outstanding'
  BY <1>1, <1>2 DEF OnceInv, Outstanding
<1>5. QED
  BY <1>1, <1>2, <1>3, <1>4 DEF OnceInv

LEMMA AdminStep ==
    ASSUME NvmeInv, Admin
    PROVE  NvmeInv'
<1> USE DEF NvmeInv
<1>1. PICK cid \in Fresh :
          /\ \/ Other(cid) \/ CreateQueues(cid) \/ AsyncEvent(cid)
             \/ SetFeatures(cid) \/ FwDownload(cid) \/ FwActivate(cid)
          /\ out' = out \cup {cid}
  BY DEF Admin
<1>2. CASE Other(cid)
  BY <1>2, <1>1, PostOnce DEF Other, RestInv
<1>3. CASE CreateQueues(cid)
  <2>1. ctrl' \in CtrlType
    BY <1>3 DEF CreateQueues, RestInv, CtrlType
  <2>2. QED
    BY <1>3, <2>1, <1>1, PostOnce DEF CreateQueues, RestInv
<1>4. CASE AsyncEvent(cid)
  <2>1. RestInv'
    BY <1>4 DEF AsyncEvent, RestInv
  <2>2. CASE AerSlot \ Pending = {}
    BY <1>4, <2>1, <2>2, <1>1, PostOnce DEF AsyncEvent
  <2>3. CASE AerSlot \ Pending # {}
    <3>1. AerSlot \ Pending \in SUBSET Nat
      BY NvmeAssumption DEF AerSlot
    <3>2. Lowest(AerSlot \ Pending) \in AerSlot \ Pending
      BY <2>3, <3>1, LowestExists
    <3>3. QED
      BY <1>4, <2>1, <2>3, <3>2, <1>1, RequestOnce DEF AsyncEvent
  <2>4. QED
    BY <2>2, <2>3
<1>5. CASE SetFeatures(cid)
  <2>1. OnceInv'
    BY <1>5, <1>1, PostOnce DEF SetFeatures
  <2>2. aer' \in AerType
    BY <1>5 DEF SetFeatures, RestInv, AerType
  <2>3. temp' \in TempType
    <3>1. CASE UNCHANGED temp
      BY <3>1 DEF RestInv
    <3>2. CASE ~ UNCHANGED temp
      <4>1. PICK t \in Thresholds : temp' = [temp EXCEPT !.warning = IF t > 0 THEN t ELSE @]
        BY <1>5, <3>2 DEF SetFeatures
      <4>2. t \in Nat
        BY NvmeAssumption
      <4>3. QED
        BY <4>1, <4>2 DEF RestInv, TempType
    <3>3. QED
      BY <3>1, <3>2
  <2>4. QED
    BY <1>5, <2>1, <2>2, <2>3 DEF SetFeatures, RestInv
<1>6. CASE FwDownload(cid)
  <2>1. OnceInv'
    BY <1>6, <1>1, PostOnce DEF FwDownload
  <2>2. fw' \in FwType /\ Bootable(fw')
    BY <1>6, DownloadKeeps DEF FwDownload, RestInv
  <2>3. QED
    BY <1>6, <2>1, <2>2 DEF FwDownload, RestInv, Bootable
<1>7. CASE FwActivate(cid)
  <2>1. OnceInv'
    BY <1>7, <1>1, PostOnce DEF FwActivate
  <2>2. fw' \in FwType /\ Bootable(fw')
    BY <1>7, ActivateKeeps DEF FwActivate, RestInv
  <2>3. aer' = aer \/ aer' = post_aer_event(aer, "NOTICE")
    BY <1>7 DEF FwActivate
  <2>4. aer' \in AerType
    BY <2>3, AerPosted DEF RestInv, AerType
  <2>5. QED
    BY <1>7, <2>1, <2>2, <2>4 DEF FwActivate, RestInv, Bootable
<1>8. QED
  BY <1>1, <1>2, <1>3, <1>4, <1>5, <1>6, <1>7

LEMMA RaisesType ==
    ASSUME NEW a \in AerType, NEW was, NEW is
    PROVE  Raises(a, was, is) \in AerType
<1>1. post_aer_event(a, "SMART_HEALTH") \in AerType
  BY AerPosted DEF AerType
<1>2. QED
  BY <1>1 DEF Raises

LEMMA FinishStep ==
    ASSUME NvmeInv, Finish
    PROVE  NvmeInv'
<1> DEFINE n == Answerable
<1>1. /\ admin_cq' = admin_cq \o AnswerOrder(n)
      /\ aer_pending' = Released(Answered(n))
      /\ ctrl' = [ctrl EXCEPT !.io_cmd = FALSE] /\ UNCHANGED <<fw, io_cq, out>>
      /\ IF temp.update_counter + 1 < UpdateEvery
         THEN /\ aer' = Taken(aer, n)
              /\ temp' = [temp EXCEPT !.update_counter = @ + 1]
         ELSE \E t \in NewTemps(ctrl.io_cmd) :
              /\ aer' = temp_check_thresholds(Taken(aer, n), t)
              /\ temp' = [temp EXCEPT !.update_counter = 0, !.current = t,
                            !.critical_active = (t >= Critical),
                            !.warning_active = (t >= temp.warning)]
  BY DEF Finish
<1>2. aer \in AerType /\ aer.count \in Nat /\ temp \in TempType
  BY NvmeAssumption DEF NvmeInv, RestInv, AerType
<1>3. n \in Nat /\ n <= Cardinality(Pending) /\ n <= aer.count
  BY <1>2, PendingFinite DEF Answerable
<1> HIDE DEF n
<1>4. OnceInv'
  BY <1>1, <1>3, AnswerOnce DEF NvmeInv
<1>5. Taken(aer, n) \in AerType
  BY <1>2, <1>3, AerTaken DEF AerType
<1>6. ctrl' \in CtrlType /\ fw' \in FwType /\ Bootable(fw)'
  BY <1>1 DEF NvmeInv, RestInv, CtrlType, Bootable
<1>7. CASE temp.update_counter + 1 < UpdateEvery
  <2>1. aer' = Taken(aer, n) /\ temp' = [temp EXCEPT !.update_counter = @ + 1]
    BY <1>1, <1>7
  <2>2. temp' \in TempType
    BY <1>2, <1>7, <2>1, NvmeAssumption DEF TempType
  <2>3. QED
    BY <1>4, <1>5, <1>6, <2>1, <2>2 DEF NvmeInv, RestInv
<1>8. CASE ~ (temp.update_counter + 1 < UpdateEvery)
  <2>1. PICK t \in NewTemps(ctrl.io_cmd) :
              /\ aer' = temp_check_thresholds(Taken(aer, n), t)
              /\ temp' = [temp EXCEPT !.update_counter = 0, !.current = t,
                            !.critical_active = (t >= Critical),
                            !.warning_active = (t >= temp.warning)]
    BY <1>1, <1>8
  <2>2. t \in MinTemp..MaxTemp
    BY <1>2, TempMoves DEF TempType
  <2>3. temp' \in TempType
    <3>1. 0 \in 0..(UpdateEvery - 1) /\ (t >= Critical) \in BOOLEAN /\ (t >= temp.warning) \in BOOLEAN
      BY NvmeAssumption
    <3>2. QED
      BY <1>2, <2>1, <2>2, <3>1 DEF TempType
  <2>4. aer' \in AerType
    <3> DEFINE a == Raises(Taken(aer, n), temp.critical_active, t >= Critical)
    <3>1. a \in AerType
      BY <1>5, RaisesType
    <3>2. aer' = Raises(a, temp.warning_active, t >= temp.warning)
      BY <2>1 DEF temp_check_thresholds
    <3> HIDE DEF a
    <3>3. QED
      BY <3>1, <3>2, RaisesType
  <2>5. QED
    BY <1>4, <1>6, <2>3, <2>4 DEF NvmeInv, RestInv
<1>9. QED
  BY <1>7, <1>8

LEMMA NextInv == NvmeInv /\ [Next]_vars => NvmeInv'
<1> SUFFICES ASSUME NvmeInv, [Next]_vars PROVE NvmeInv'
  OBVIOUS
<1>1. CASE Admin
  BY <1>1, AdminStep
<1>2. CASE Io
  <2>1. OnceInv'
    BY <1>2, IoOnce DEF Io, NvmeInv
  <2>2. ctrl' \in CtrlType
    BY <1>2 DEF Io, NvmeInv, RestInv, CtrlType
  <2>3. QED
    BY <1>2, <2>1, <2>2 DEF Io, NvmeInv, RestInv, Bootable
<1>3. CASE Finish
  BY <1>3, FinishStep
<1>4. CASE HostConsumes
  BY <1>4, TailsOnce DEF HostConsumes, NvmeInv, RestInv, Bootable
<1>5. ASSUME NEW en \in BOOLEAN, nvme_ctrl_write_cc(en) PROVE NvmeInv'
  <2>1. ctrl' \in CtrlType
    BY <1>5 DEF nvme_ctrl_write_cc, NvmeInv, RestInv, CtrlType
  <2>2. QED
    BY <1>5, <2>1, SameOnce DEF nvme_ctrl_write_cc, NvmeInv, RestInv, Bootable
<1>6. CASE UNCHANGED vars
  BY <1>6, SameOnce DEF vars, NvmeInv, RestInv, Bootable
<1>7. QED
  BY <1>1, <1>2, <1>3, <1>4, <1>5, <1>6 DEF Next

LEMMA InvAlways == Spec => []NvmeInv
BY InitInv, NextInv, PTL DEF Spec

(* The controller answers each command once, through resets: whatever the  *)
(* number of AER slots, aer_try_complete answers the requests it releases  *)
(* and no other, and admin_async_event takes a slot that was free.         *)
THEOREM CommandsAnsweredOnce == Spec => []AnsweredOnce
BY InvAlways, InvMeaning, PTL

(* Whatever the number of AER slots, events and identifiers, a command the *)
(* host waits for is answered or waits in a slot: a request beyond the     *)
(* slots is rejected at once, a reset drops no pending request, and        *)
(* aer_try_complete releases no slot without an answer.                    *)
THEOREM NoCommandIsDropped == Spec => []NoCommandDropped
BY InvAlways, InvMeaning, PTL

(* No sequence of downloads, commits and activations of any slot leaves    *)
(* the device without a firmware image to run from and to boot from.       *)
THEOREM FirmwareStaysBootable == Spec => []FirmwareBootable
BY InvAlways, InvMeaning, PTL

(* The controller's state stays within its types, the event ring and the   *)
(* temperature within their bounds.                                        *)
THEOREM ControllerTypeCorrect == Spec => []TypeOK
BY InvAlways, InvMeaning, PTL

=============================================================================
