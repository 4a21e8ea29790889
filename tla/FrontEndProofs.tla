--------------------------- MODULE FrontEndProofs ----------------------------
(***************************************************************************)
(* Theorems about FrontEnds, for every number of queues and descriptors    *)
(* and every size of the rings.                                            *)
(***************************************************************************)
EXTENDS FrontEnds, FiniteSetTheorems, SequenceTheorems, TLAPS

-----------------------------------------------------------------------------
(* Remainders, for moduli that are not known.                              *)
LEMMA DivMod ==
    ASSUME NEW n \in Nat \ {0}, NEW x \in Nat
    PROVE  \E k \in Nat : x = n * k + (x % n) /\ x % n \in 0..n - 1
<1>1. x = n * (x \div n) + (x % n) /\ x % n \in 0..n - 1 /\ x \div n \in Nat
  OBVIOUS
<1>2. QED
  BY <1>1

LEMMA ModUnique ==
    ASSUME NEW n \in Nat \ {0}, NEW k \in Int, NEW l \in Int,
           NEW a \in 0..n - 1, NEW b \in 0..n - 1, n * k + a = n * l + b
    PROVE  a = b
<1>1. CASE k = l
  BY <1>1
<1>2. CASE k >= l + 1
  <2>1. n * k >= n * (l + 1)
    BY <1>2
  <2>2. n * (l + 1) = n * l + n
    OBVIOUS
  <2>3. QED
    BY <2>1, <2>2
<1>3. CASE l >= k + 1
  <2>1. n * l >= n * (k + 1)
    BY <1>3
  <2>2. n * (k + 1) = n * k + n
    OBVIOUS
  <2>3. QED
    BY <2>1, <2>2
<1>4. QED
  BY <1>1, <1>2, <1>3

LEMMA ModShift ==
    ASSUME NEW n \in Nat \ {0}, NEW m \in Nat, m % n = 0, NEW x \in Nat
    PROVE  (x + m) % n = x % n
<1>1. PICK k \in Nat : m = n * k
  <2>1. PICK k \in Nat : m = n * k + (m % n)
    BY DivMod
  <2>2. m = n * k + 0 /\ n * k \in Nat
    BY <2>1
  <2>3. QED
    BY <2>2
<1>2. PICK l \in Nat : x = n * l + (x % n) /\ x % n \in 0..n - 1
  BY DivMod
<1> DEFINE y == x + m
<1>3. y \in Nat
  OBVIOUS
<1> HIDE DEF y
<1>4. PICK j \in Nat : y = n * j + (y % n) /\ y % n \in 0..n - 1
  BY <1>3, DivMod
<1>5. n * (l + k) = n * l + n * k
  OBVIOUS
<1>6. y = n * (l + k) + (x % n)
  BY <1>1, <1>2, <1>5 DEF y
<1>7. y % n = x % n
  <2> DEFINE a == y % n
             b == x % n
             i == l + k
  <2>1. a \in 0..n - 1 /\ b \in 0..n - 1 /\ i \in Int /\ n * j + a = n * i + b
    BY <1>2, <1>4, <1>6
  <2> HIDE DEF a, b, i
  <2>2. a = b
    BY <2>1, ModUnique
  <2>3. QED
    BY <2>2 DEF a, b
<1>8. QED
  BY <1>7 DEF y

LEMMA ModApart ==
    ASSUME NEW n \in Nat \ {0}, NEW x \in Nat, NEW d \in 1..n - 1
    PROVE  (x + d) % n # x % n
<1> SUFFICES ASSUME (x + d) % n = x % n PROVE FALSE
  OBVIOUS
<1>1. PICK l \in Nat : x = n * l + (x % n) /\ x % n \in 0..n - 1
  BY DivMod
<1> DEFINE y == x + d
<1>2. y \in Nat /\ y % n = x % n
  OBVIOUS
<1> HIDE DEF y
<1>3. PICK j \in Nat : y = n * j + (y % n) /\ y % n \in 0..n - 1
  BY <1>2, DivMod
<1>4. n * j + 0 = n * l + d
  BY <1>1, <1>2, <1>3 DEF y
<1>5. 0 \in 0..n - 1 /\ d \in 0..n - 1
  OBVIOUS
<1>6. QED
  BY <1>4, <1>5, ModUnique

-----------------------------------------------------------------------------
(* vhost-user: indices run modulo IdxMod, slots are indices modulo Num.    *)
Idx            == 0..IdxMod - 1
Span(from, to) == (to + IdxMod - from) % IdxMod

LEMMA Sizes ==
    /\ IdxMod \in Nat \ {0} /\ Num \in Nat \ {0} /\ IdxMod % Num = 0 /\ IdxMod > Num
    /\ 0 \in Idx /\ 0 \in Slot /\ Slot = Desc
BY VhostAssumption DEF Idx, Slot, Desc

LEMMA SpanCases ==
    ASSUME NEW from \in Idx, NEW to \in Idx
    PROVE  /\ Span(from, to) = IF to >= from THEN to - from ELSE to - from + IdxMod
           /\ Span(from, to) \in Idx
<1>1. IdxMod \in Nat \ {0} /\ from \in 0..IdxMod - 1 /\ to \in 0..IdxMod - 1
  BY Sizes DEF Idx
<1> DEFINE x == to + IdxMod - from
<1>2. x \in 0..(2 * IdxMod - 1)
  BY <1>1
<1>3. Span(from, to) = x % IdxMod
  BY DEF Span
<1>4. x < IdxMod <=> to < from
  BY <1>1
<1> HIDE DEF x
<1>5. x % IdxMod = IF x < IdxMod THEN x ELSE x - IdxMod
  BY <1>1, <1>2
<1>6. QED
  BY <1>1, <1>3, <1>4, <1>5 DEF x, Idx

LEMMA PlusCases ==
    ASSUME NEW i \in Idx
    PROVE  Plus(i, 1) = (IF i + 1 < IdxMod THEN i + 1 ELSE 0) /\ Plus(i, 1) \in Idx
<1>1. IdxMod \in Nat \ {0} /\ i \in 0..IdxMod - 1
  BY Sizes DEF Idx
<1> DEFINE x == i + 1
<1>2. x \in 1..IdxMod
  BY <1>1
<1> HIDE DEF x
<1>3. x % IdxMod = IF x < IdxMod THEN x ELSE 0
  BY <1>1, <1>2
<1>4. Plus(i, 1) = x % IdxMod
  BY DEF Plus, x
<1>5. QED
  BY <1>1, <1>3, <1>4 DEF x, Idx

LEMMA SpanGrows ==
    ASSUME NEW from \in Idx, NEW to \in Idx, Span(from, to) + 1 < IdxMod
    PROVE  Span(from, Plus(to, 1)) = Span(from, to) + 1
<1>1. IdxMod \in Nat \ {0} /\ from \in Nat /\ from < IdxMod /\ to \in Nat /\ to < IdxMod
  BY Sizes DEF Idx
<1>2. Plus(to, 1) = (IF to + 1 < IdxMod THEN to + 1 ELSE 0) /\ Plus(to, 1) \in Idx
  BY PlusCases
<1> DEFINE t == Plus(to, 1)
<1> HIDE DEF t
<1>3. t = (IF to + 1 < IdxMod THEN to + 1 ELSE 0) /\ t \in Idx
  BY <1>2 DEF t
<1>4. Span(from, t) = IF t >= from THEN t - from ELSE t - from + IdxMod
  BY <1>3, SpanCases
<1>5. Span(from, to) = IF to >= from THEN to - from ELSE to - from + IdxMod
  BY SpanCases
<1>6. Span(from, t) = Span(from, to) + 1
  BY <1>1, <1>3, <1>4, <1>5
<1>7. QED
  BY <1>6 DEF t

LEMMA SpanShrinks ==
    ASSUME NEW from \in Idx, NEW to \in Idx, from # to
    PROVE  Span(Plus(from, 1), to) = Span(from, to) - 1
<1>1. IdxMod \in Nat \ {0} /\ from \in Nat /\ from < IdxMod /\ to \in Nat /\ to < IdxMod
  BY Sizes DEF Idx
<1>2. Plus(from, 1) = (IF from + 1 < IdxMod THEN from + 1 ELSE 0) /\ Plus(from, 1) \in Idx
  BY PlusCases
<1> DEFINE t == Plus(from, 1)
<1> HIDE DEF t
<1>3. t = (IF from + 1 < IdxMod THEN from + 1 ELSE 0) /\ t \in Idx
  BY <1>2 DEF t
<1>4. Span(t, to) = IF to >= t THEN to - t ELSE to - t + IdxMod
  BY <1>3, SpanCases
<1>5. Span(from, to) = IF to >= from THEN to - from ELSE to - from + IdxMod
  BY SpanCases
<1>6. Span(t, to) = Span(from, to) - 1
  BY <1>1, <1>3, <1>4, <1>5
<1>7. QED
  BY <1>6 DEF t

LEMMA SpanPositive ==
    ASSUME NEW from \in Idx, NEW to \in Idx
    PROVE  Span(from, to) \in Nat /\ (Span(from, to) = 0 <=> from = to)
<1>1. IdxMod \in Nat \ {0} /\ from \in Nat /\ from < IdxMod /\ to \in Nat /\ to < IdxMod
  BY Sizes DEF Idx
<1>2. Span(from, to) = IF to >= from THEN to - from ELSE to - from + IdxMod
  BY SpanCases
<1>3. QED
  BY <1>1, <1>2

LEMMA SlotWraps ==
    ASSUME NEW x \in Nat
    PROVE  (x + IdxMod) % Num = x % Num
BY Sizes, ModShift

LEMMA SpanEnd ==
    ASSUME NEW from \in Idx, NEW to \in Idx
    PROVE  to % Num = (from + Span(from, to)) % Num
<1>1. from \in Nat /\ to \in Nat /\ IdxMod \in Nat
  BY Sizes DEF Idx
<1>2. Span(from, to) = IF to >= from THEN to - from ELSE to - from + IdxMod
  BY SpanCases
<1>3. CASE to >= from
  <2>1. from + Span(from, to) = to
    BY <1>1, <1>2, <1>3
  <2>2. QED
    BY <2>1
<1>4. CASE ~ (to >= from)
  <2>1. from + Span(from, to) = to + IdxMod
    BY <1>1, <1>2, <1>4
  <2>2. QED
    BY <1>1, <2>1, SlotWraps
<1>5. QED
  BY <1>3, <1>4

LEMMA SlotNext ==
    ASSUME NEW from \in Idx, NEW k \in Nat
    PROVE  (Plus(from, 1) + k) % Num = (from + (k + 1)) % Num
<1>1. from \in Nat /\ from < IdxMod /\ IdxMod \in Nat
  BY Sizes DEF Idx
<1>2. Plus(from, 1) = IF from + 1 < IdxMod THEN from + 1 ELSE 0
  BY PlusCases
<1>3. CASE from + 1 < IdxMod
  <2>1. Plus(from, 1) + k = from + (k + 1)
    BY <1>1, <1>2, <1>3
  <2>2. QED
    BY <2>1
<1>4. CASE ~ (from + 1 < IdxMod)
  <2>1. Plus(from, 1) + k = k /\ from + (k + 1) = k + IdxMod
    BY <1>1, <1>2, <1>4
  <2>2. QED
    BY <2>1, SlotWraps
<1>5. QED
  BY <1>3, <1>4

LEMMA SlotsApart ==
    ASSUME NEW from \in Idx, NEW i \in Nat, NEW j \in Nat, i < j, j - i < Num
    PROVE  (from + i) % Num # (from + j) % Num
<1>1. from \in Nat /\ Num \in Nat \ {0}
  BY Sizes DEF Idx
<1> DEFINE x == from + i
           d == j - i
<1>2. x \in Nat /\ d \in 1..Num - 1 /\ from + j = x + d
  BY <1>1
<1> HIDE DEF x, d
<1>3. (x + d) % Num # x % Num
  BY <1>1, <1>2, ModApart
<1>4. QED
  BY <1>2, <1>3 DEF x

(* Where the descriptors in flight are: the first A of list w, the first U *)
(* of list r, or in S; each in one place.                                  *)
Placed(w, A, r, U, F, S) ==
    /\ \A i, j \in 0..A - 1 : w[i] = w[j] => i = j
    /\ \A i, j \in 0..U - 1 : r[i] = r[j] => i = j
    /\ \A i \in 0..A - 1, j \in 0..U - 1 : w[i] # r[j]
    /\ \A i \in 0..A - 1 : w[i] \notin S
    /\ \A i \in 0..U - 1 : r[i] \notin S
    /\ F = {w[i] : i \in 0..A - 1} \cup {r[i] : i \in 0..U - 1} \cup S

LEMMA ImageSize ==
    ASSUME NEW n \in Nat, NEW f \in [Nat -> Desc], \A i, j \in 0..n - 1 : f[i] = f[j] => i = j
    PROVE  IsFiniteSet({f[i] : i \in 0..n - 1}) /\ Cardinality({f[i] : i \in 0..n - 1}) = n
<1> DEFINE D == 0..n - 1
           T == {f[i] : i \in D}
           g == [i \in D |-> f[i]]
<1>1. IsFiniteSet(D) /\ Cardinality(D) = n
  <2>1. 0 \in Int /\ n - 1 \in Int
    OBVIOUS
  <2>2. IsFiniteSet(0..(n - 1)) /\ Cardinality(0..(n - 1)) = IF 0 > n - 1 THEN 0 ELSE (n - 1) - 0 + 1
    BY <2>1, FS_Interval
  <2>3. QED
    BY <2>2
<1>2. g \in Bijection(D, T)
  BY DEF Bijection, Injection, Surjection, IsInjective
<1>3. ExistsBijection(D, T)
  BY <1>2 DEF ExistsBijection
<1> HIDE DEF D, T
<1>4. IsFiniteSet(T) /\ Cardinality(T) = n
  BY <1>1, <1>3, FS_Bijection
<1>5. QED
  BY <1>4 DEF T, D

LEMMA DescFinite == IsFiniteSet(Desc) /\ Cardinality(Desc) = Num
<1>1. 0 \in Int /\ Num - 1 \in Int /\ ~ (0 > Num - 1) /\ (Num - 1) - 0 + 1 = Num
  BY Sizes
<1>2. QED
  BY <1>1, FS_Interval DEF Desc

LEMMA PlacedCount ==
    ASSUME NEW w \in [Nat -> Desc], NEW A \in Nat, NEW r \in [Nat -> Desc], NEW U \in Nat,
           NEW F, F \subseteq Desc, NEW S, S \subseteq Desc, Placed(w, A, r, U, F, S)
    PROVE  Cardinality(F) = A + U + Cardinality(S) /\ Cardinality(S) \in Nat
<1> DEFINE X == {w[i] : i \in 0..A - 1}
           Y == {r[i] : i \in 0..U - 1}
<1>1. IsFiniteSet(X) /\ Cardinality(X) = A /\ IsFiniteSet(Y) /\ Cardinality(Y) = U
  BY ImageSize DEF Placed
<1>2. IsFiniteSet(Desc)
  BY DescFinite
<1>3. IsFiniteSet(S) /\ Cardinality(S) \in Nat /\ IsFiniteSet(F)
  <2>1. S \in SUBSET Desc /\ F \in SUBSET Desc
    OBVIOUS
  <2>2. QED
    BY <1>2, <2>1, FS_Subset, FS_CardinalityType
<1>4. F = (X \cup Y) \cup S /\ X \cap Y = {} /\ (X \cup Y) \cap S = {}
  BY DEF Placed
<1> HIDE DEF X, Y
<1>5. Cardinality({}) = 0
  BY FS_EmptySet
<1> DEFINE Z == X \cup Y
<1>6. IsFiniteSet(Z) /\ Cardinality(Z) = A + U
  <2>1. IsFiniteSet(X \cup Y) /\ Cardinality(X \cup Y) = Cardinality(X) + Cardinality(Y) - Cardinality(X \cap Y)
    BY <1>1, FS_Union
  <2>2. Cardinality(X \cap Y) = 0
    BY <1>4, <1>5
  <2>3. QED
    BY <1>1, <2>1, <2>2
<1>7. F = Z \cup S /\ Z \cap S = {}
  BY <1>4
<1> HIDE DEF Z
<1>8. Cardinality(F) = A + U + Cardinality(S)
  <2>1. Cardinality(Z \cup S) = Cardinality(Z) + Cardinality(S) - Cardinality(Z \cap S)
    BY <1>3, <1>6, FS_Union
  <2>2. Cardinality(Z \cap S) = 0
    BY <1>5, <1>7
  <2>3. QED
    BY <1>3, <1>6, <1>7, <2>1, <2>2
<1>9. QED
  BY <1>3, <1>8

LEMMA PlacedRoom ==
    ASSUME NEW w \in [Nat -> Desc], NEW A \in Nat, NEW r \in [Nat -> Desc], NEW U \in Nat,
           NEW F, F \subseteq Desc, F # Desc, NEW S, S \subseteq Desc, Placed(w, A, r, U, F, S)
    PROVE  A + U < Num
<1>1. Cardinality(F) = A + U + Cardinality(S) /\ Cardinality(S) \in Nat
  BY PlacedCount
<1>2. IsFiniteSet(Desc) /\ Cardinality(Desc) = Num /\ F \in SUBSET Desc
  BY DescFinite
<1>3. Cardinality(F) <= Num /\ Cardinality(F) # Num
  BY <1>2, FS_Subset
<1>4. QED
  BY <1>1, <1>3, Sizes

LEMMA PlacedOffer ==
    ASSUME NEW w, NEW A \in Nat, NEW r, NEW U \in Nat, NEW F, NEW S, Placed(w, A, r, U, F, S),
           NEW v, NEW d, d \notin F, \A k \in 0..A - 1 : v[k] = w[k], v[A] = d
    PROVE  Placed(v, A + 1, r, U, F \cup {d}, S)
<1>1. \A k \in 0..(A + 1) - 1 : k \in 0..A - 1 \/ k = A
  OBVIOUS
<1>2. (\A k \in 0..A - 1 : k \in 0..(A + 1) - 1) /\ A \in 0..(A + 1) - 1
  OBVIOUS
<1>3. \A k \in 0..A - 1 : w[k] # d
  BY DEF Placed
<1>4. (\A k \in 0..U - 1 : r[k] # d) /\ d \notin S
  BY DEF Placed
<1>5. \A i, j \in 0..(A + 1) - 1 : v[i] = v[j] => i = j
  BY <1>1, <1>3 DEF Placed
<1>6. \A i \in 0..(A + 1) - 1, j \in 0..U - 1 : v[i] # r[j]
  BY <1>1, <1>4 DEF Placed
<1>7. \A i \in 0..(A + 1) - 1 : v[i] \notin S
  BY <1>1, <1>4 DEF Placed
<1>8. {v[i] : i \in 0..(A + 1) - 1} = {w[i] : i \in 0..A - 1} \cup {d}
  BY <1>1, <1>2
<1>9. QED
  BY <1>5, <1>6, <1>7, <1>8 DEF Placed

LEMMA PlacedSkip ==
    ASSUME NEW w, NEW A \in Nat \ {0}, NEW r, NEW U \in Nat, NEW F, NEW S,
           Placed(w, A, r, U, F, S),
           NEW v, \A k \in 0..(A - 1) - 1 : v[k] = w[k + 1]
    PROVE  Placed(v, A - 1, r, U, F, S \cup {w[0]})
<1>1. \A k \in 0..(A - 1) - 1 : k \in Nat /\ k + 1 \in 0..A - 1 /\ k + 1 # 0
  OBVIOUS
<1>2. \A k \in 0..A - 1 : k = 0 \/ (k - 1 \in 0..(A - 1) - 1 /\ (k - 1) + 1 = k)
  OBVIOUS
<1>3. 0 \in 0..A - 1
  OBVIOUS
<1>4. \A i, j \in 0..(A - 1) - 1 : v[i] = v[j] => i = j
  BY <1>1 DEF Placed
<1>5. \A i \in 0..(A - 1) - 1, j \in 0..U - 1 : v[i] # r[j]
  BY <1>1 DEF Placed
<1>6. \A i \in 0..(A - 1) - 1 : v[i] \notin S \cup {w[0]}
  BY <1>1, <1>3 DEF Placed
<1>7. \A i \in 0..U - 1 : r[i] \notin S \cup {w[0]}
  BY <1>3 DEF Placed
<1>8. {w[i] : i \in 0..A - 1} = {v[i] : i \in 0..(A - 1) - 1} \cup {w[0]}
  <2>1. \A i \in 0..A - 1 : w[i] \in {v[k] : k \in 0..(A - 1) - 1} \cup {w[0]}
    BY <1>2
  <2>2. \A i \in 0..(A - 1) - 1 : v[i] \in {w[k] : k \in 0..A - 1}
    BY <1>1
  <2>3. QED
    BY <1>3, <2>1, <2>2
<1>9. QED
  BY <1>4, <1>5, <1>6, <1>7, <1>8 DEF Placed

LEMMA PlacedReturn ==
    ASSUME NEW w, NEW A \in Nat, NEW r, NEW U \in Nat, NEW F, NEW S, NEW d, d \notin S,
           Placed(w, A, r, U, F, S \cup {d}),
           NEW q1, \A k \in 0..U - 1 : q1[k] = r[k], q1[U] = d
    PROVE  Placed(w, A, q1, U + 1, F, S)
<1>1. \A k \in 0..(U + 1) - 1 : k \in 0..U - 1 \/ k = U
  OBVIOUS
<1>2. (\A k \in 0..U - 1 : k \in 0..(U + 1) - 1) /\ U \in 0..(U + 1) - 1
  OBVIOUS
<1>3. (\A k \in 0..A - 1 : w[k] # d) /\ (\A k \in 0..U - 1 : r[k] # d)
  BY DEF Placed
<1>4. \A i, j \in 0..(U + 1) - 1 : q1[i] = q1[j] => i = j
  BY <1>1, <1>3 DEF Placed
<1>5. \A i \in 0..A - 1, j \in 0..(U + 1) - 1 : w[i] # q1[j]
  BY <1>1, <1>3 DEF Placed
<1>6. \A i \in 0..(U + 1) - 1 : q1[i] \notin S
  BY <1>1 DEF Placed
<1>7. {q1[i] : i \in 0..(U + 1) - 1} = {r[i] : i \in 0..U - 1} \cup {d}
  BY <1>1, <1>2
<1>8. QED
  BY <1>4, <1>5, <1>6, <1>7 DEF Placed

LEMMA PlacedCollect ==
    ASSUME NEW w, NEW A \in Nat, NEW r, NEW U \in Nat \ {0}, NEW F, NEW S,
           Placed(w, A, r, U, F, S),
           NEW q1, \A k \in 0..(U - 1) - 1 : q1[k] = r[k + 1]
    PROVE  Placed(w, A, q1, U - 1, F \ {r[0]}, S)
<1>1. \A k \in 0..(U - 1) - 1 : k \in Nat /\ k + 1 \in 0..U - 1 /\ k + 1 # 0
  OBVIOUS
<1>2. \A k \in 0..U - 1 : k = 0 \/ (k - 1 \in 0..(U - 1) - 1 /\ (k - 1) + 1 = k)
  OBVIOUS
<1>3. 0 \in 0..U - 1
  OBVIOUS
<1>4. \A i, j \in 0..(U - 1) - 1 : q1[i] = q1[j] => i = j
  BY <1>1 DEF Placed
<1>5. \A i \in 0..A - 1, j \in 0..(U - 1) - 1 : w[i] # q1[j]
  BY <1>1 DEF Placed
<1>6. \A i \in 0..(U - 1) - 1 : q1[i] \notin S /\ q1[i] # r[0]
  BY <1>1, <1>3 DEF Placed
<1>7. {r[i] : i \in 0..U - 1} = {q1[i] : i \in 0..(U - 1) - 1} \cup {r[0]}
  <2>1. \A i \in 0..U - 1 : r[i] \in {q1[k] : k \in 0..(U - 1) - 1} \cup {r[0]}
    BY <1>2
  <2>2. \A i \in 0..(U - 1) - 1 : q1[i] \in {r[k] : k \in 0..U - 1}
    BY <1>1
  <2>3. QED
    BY <1>3, <2>1, <2>2
<1>8. (\A i \in 0..A - 1 : w[i] # r[0]) /\ r[0] \notin S
  BY <1>3 DEF Placed
<1> DEFINE X == {w[i] : i \in 0..A - 1}
           Y == {q1[i] : i \in 0..(U - 1) - 1}
<1>9. F \ {r[0]} = X \cup Y \cup S
  <2>1. F = X \cup (Y \cup {r[0]}) \cup S
    BY <1>7 DEF Placed
  <2>2. r[0] \notin X /\ r[0] \notin Y /\ r[0] \notin S
    BY <1>6, <1>8
  <2> HIDE DEF X, Y
  <2>3. QED
    BY <2>1, <2>2
<1>10. QED
  BY <1>4, <1>5, <1>6, <1>9 DEF Placed

-----------------------------------------------------------------------------
VringType == [addr : BOOLEAN, kick : BOOLEAN, call : BOOLEAN, enabled : BOOLEAN,
              base : {0}, last : Idx, used : Idx]
VqType    == [idx : Idx, ring : [Slot -> Desc]]

(* What waits for the back end and for the driver, oldest first.           *)
AvailList == [k \in Nat |-> avail.ring[(vr.last + k) % Num]]
UsedList  == [k \in Nat |-> used.ring[(drv.seen + k) % Num]]

VhostTypes == /\ avail \in VqType /\ used \in VqType
              /\ drv \in [fly : SUBSET Desc, seen : Idx] /\ skipped \in SUBSET Desc
              /\ vr \in VringType /\ vr.used = used.idx
              /\ scan \in [on : BOOLEAN, to : Idx]

(* A scan does not go past what was available when it began.               *)
VhostInv ==
    /\ VhostTypes
    /\ Placed(AvailList, Span(vr.last, avail.idx), UsedList, Span(drv.seen, used.idx),
              drv.fly, skipped)
    /\ scan.on => Span(vr.last, scan.to) <= Span(vr.last, avail.idx)

LEMMA SlotOf ==
    ASSUME NEW x \in Nat
    PROVE  x % Num \in Slot
BY Sizes DEF Slot

LEMMA ListsType ==
    ASSUME VhostTypes
    PROVE  /\ AvailList \in [Nat -> Desc] /\ UsedList \in [Nat -> Desc]
           /\ Span(vr.last, avail.idx) \in Nat /\ Span(drv.seen, used.idx) \in Nat
<1>1. /\ vr.last \in Idx /\ avail.idx \in Idx /\ drv.seen \in Idx /\ used.idx \in Idx
      /\ avail.ring \in [Slot -> Desc] /\ used.ring \in [Slot -> Desc]
  BY DEF VhostTypes, VringType, VqType
<1>2. vr.last \in Nat /\ drv.seen \in Nat
  BY <1>1, Sizes DEF Idx
<1>3. \A k \in Nat : vr.last + k \in Nat /\ drv.seen + k \in Nat
  BY <1>2
<1>4. \A k \in Nat : (vr.last + k) % Num \in Slot /\ (drv.seen + k) % Num \in Slot
  BY <1>3, SlotOf
<1>5. QED
  BY <1>1, <1>4, SpanPositive DEF AvailList, UsedList

LEMMA VhostInitInv == VhostInit => VhostInv
<1> SUFFICES ASSUME VhostInit PROVE VhostInv
  OBVIOUS
<1>1. NoVq \in VqType /\ NoVq.idx = 0
  BY Sizes DEF NoVq, VqType
<1>2. NoVring \in VringType /\ NoVring.last = 0 /\ NoVring.used = 0
  BY Sizes DEF NoVring, VringType
<1>3. NoDrv \in [fly : SUBSET Desc, seen : Idx] /\ NoDrv.fly = {} /\ NoDrv.seen = 0
  BY Sizes DEF NoDrv
<1>4. NoScan \in [on : BOOLEAN, to : Idx] /\ ~NoScan.on
  BY Sizes DEF NoScan
<1>5. VhostTypes
  BY <1>1, <1>2, <1>3, <1>4 DEF VhostInit, VhostTypes
<1>6. Span(0, 0) = 0
  BY Sizes, SpanPositive
<1>7. Placed(AvailList, 0, UsedList, 0, {}, {})
  BY DEF Placed
<1>8. QED
  BY <1>1, <1>2, <1>3, <1>4, <1>5, <1>6, <1>7 DEF VhostInit, VhostInv

(* A step of the client that leaves the rings alone.                       *)
LEMMA ClientStep ==
    ASSUME VhostInv, UNCHANGED <<avail, used, drv, skipped>>,
           vr' \in VringType, vr'.last = vr.last, vr'.used = vr.used,
           scan' \in [on : BOOLEAN, to : Idx],
           scan'.on => Span(vr.last, scan'.to) <= Span(vr.last, avail.idx)
    PROVE  VhostInv'
<1>1. VhostTypes'
  BY DEF VhostInv, VhostTypes
<1>2. AvailList' = AvailList /\ UsedList' = UsedList
  BY DEF AvailList, UsedList
<1>3. QED
  BY <1>1, <1>2 DEF VhostInv

LEMMA CloseStep ==
    ASSUME VhostInv, VhostClose
    PROVE  VhostInv'
<1>1. /\ avail' = NoVq /\ used' = NoVq /\ drv' = NoDrv /\ skipped' = {} /\ scan' = scan /\ ~scan.on
      /\ vr' = [vr EXCEPT !.kick = FALSE, !.call = FALSE, !.enabled = FALSE, !.last = 0, !.used = 0]
  BY DEF VhostClose, Message
<1>2. vr \in VringType /\ scan \in [on : BOOLEAN, to : Idx]
  BY DEF VhostInv, VhostTypes
<1>3. NoVq \in VqType /\ NoVq.idx = 0
  BY Sizes DEF NoVq, VqType
<1>4. vr' \in VringType /\ vr'.last = 0 /\ vr'.used = 0
  BY <1>1, <1>2, Sizes DEF VringType
<1>5. NoDrv \in [fly : SUBSET Desc, seen : Idx] /\ NoDrv.fly = {} /\ NoDrv.seen = 0
  BY Sizes DEF NoDrv
<1>6. VhostTypes'
  BY <1>1, <1>2, <1>3, <1>4, <1>5 DEF VhostTypes
<1>7. Span(0, 0) = 0
  BY Sizes, SpanPositive
<1>8. Placed(AvailList', 0, UsedList', 0, {}, {})
  BY DEF Placed
<1>9. Span(vr'.last, avail'.idx) = 0 /\ Span(drv'.seen, used'.idx) = 0 /\ drv'.fly = {} /\ skipped' = {}
  BY <1>1, <1>3, <1>4, <1>5, <1>7
<1>10. QED
  BY <1>1, <1>6, <1>8, <1>9 DEF VhostInv

LEMMA OfferStep ==
    ASSUME VhostInv, Offers
    PROVE  VhostInv'
<1> DEFINE A == Span(vr.last, avail.idx)
           U == Span(drv.seen, used.idx)
           s == avail.idx % Num
<1>1. PICK d \in Desc \ drv.fly :
          /\ avail' = [idx |-> Plus(avail.idx, 1), ring |-> [avail.ring EXCEPT ![s] = d]]
          /\ drv' = [drv EXCEPT !.fly = @ \cup {d}]
  BY DEF Offers
<1>2. UNCHANGED <<vr, scan, used, skipped>>
  BY DEF Offers
<1>3. /\ VhostTypes /\ vr.last \in Idx /\ avail.idx \in Idx /\ avail.ring \in [Slot -> Desc]
      /\ drv.fly \in SUBSET Desc /\ drv.seen \in Idx /\ scan \in [on : BOOLEAN, to : Idx]
  BY DEF VhostInv, VhostTypes, VqType, VringType
<1>4. A \in Nat /\ U \in Nat /\ AvailList \in [Nat -> Desc] /\ UsedList \in [Nat -> Desc]
  BY <1>3, ListsType
<1>5. Placed(AvailList, A, UsedList, U, drv.fly, skipped)
  BY DEF VhostInv
<1>6. A + U < Num
  <2>1. drv.fly # Desc /\ drv.fly \subseteq Desc /\ skipped \subseteq Desc
    BY <1>1, <1>3 DEF VhostTypes
  <2> HIDE DEF A, U, s
  <2>2. QED
    BY <1>4, <1>5, <2>1, PlacedRoom
<1>7. s \in Slot
  BY <1>3, SlotOf, Sizes DEF Idx
<1>8. /\ avail' \in VqType /\ avail'.idx = Plus(avail.idx, 1)
      /\ avail'.ring[s] = d /\ \A i \in Slot : i # s => avail'.ring[i] = avail.ring[i]
  <2>1. Plus(avail.idx, 1) \in Idx
    BY <1>3, PlusCases
  <2>2. QED
    BY <1>1, <1>3, <1>7, <2>1 DEF VqType
<1>9. /\ drv' \in [fly : SUBSET Desc, seen : Idx]
      /\ drv'.fly = drv.fly \cup {d} /\ drv'.seen = drv.seen
  BY <1>1, <1>3 DEF VhostTypes
<1>10. VhostTypes'
  BY <1>2, <1>3, <1>8, <1>9 DEF VhostTypes
<1>11. Span(vr.last, Plus(avail.idx, 1)) = A + 1
  <2>1. A + 1 < IdxMod
    BY <1>4, <1>6, Sizes
  <2>2. QED
    BY <1>3, <2>1, SpanGrows
<1> HIDE DEF s
<1>12. s = (vr.last + A) % Num
  BY <1>3, SpanEnd DEF s
<1> HIDE DEF A, U
<1>13. AvailList'[A] = d
  BY <1>2, <1>4, <1>8, <1>12 DEF AvailList
<1>14. ASSUME NEW k \in 0..A - 1 PROVE AvailList'[k] = AvailList[k]
  <2>1. k \in Nat /\ k < A /\ A - k < Num
    BY <1>4, <1>6, Sizes
  <2>2. (vr.last + k) % Num # s /\ (vr.last + k) % Num \in Slot
    <3>1. vr.last + k \in Nat
      BY <1>3, <2>1, Sizes DEF Idx
    <3>2. QED
      BY <1>3, <1>4, <1>12, <2>1, <3>1, SlotsApart, SlotOf
  <2>3. QED
    BY <1>2, <1>8, <2>1, <2>2 DEF AvailList
<1>15. UsedList' = UsedList
  BY <1>2, <1>9 DEF UsedList
<1>16. Placed(AvailList', A + 1, UsedList, U, drv.fly \cup {d}, skipped)
  BY <1>1, <1>4, <1>5, <1>13, <1>14, PlacedOffer
<1>17. /\ vr' = vr /\ used' = used /\ skipped' = skipped /\ scan' = scan
       /\ Span(vr'.last, avail'.idx) = A + 1 /\ Span(drv'.seen, used'.idx) = U
  BY <1>2, <1>8, <1>9, <1>11 DEF A, U
<1>18. scan.on => Span(vr.last, scan.to) <= A + 1
  <2>1. scan.on => Span(vr.last, scan.to) <= A
    BY DEF VhostInv, A
  <2>2. Span(vr.last, scan.to) \in Nat
    BY <1>3, SpanPositive
  <2>3. QED
    BY <1>4, <2>1, <2>2
<1>19. QED
  BY <1>9, <1>10, <1>15, <1>16, <1>17, <1>18 DEF VhostInv

(* The back end passes one entry of the available ring: what is left is    *)
(* the list without its first element.                                     *)
LEMMA Passed ==
    ASSUME VhostInv, scan.on, vr.last # scan.to, UNCHANGED avail,
           vr' \in VringType, vr'.last = Plus(vr.last, 1)
    PROVE  /\ Span(vr.last, avail.idx) \in Nat \ {0}
           /\ Span(vr'.last, avail.idx) = Span(vr.last, avail.idx) - 1
           /\ Span(vr'.last, scan.to) <= Span(vr'.last, avail.idx)
           /\ Entry = AvailList[0] /\ Entry \in Desc
           /\ \A k \in Nat : AvailList'[k] = AvailList[k + 1]
<1>1. vr.last \in Idx /\ avail.idx \in Idx /\ scan.to \in Idx /\ VhostTypes
  BY DEF VhostInv, VhostTypes, VringType, VqType
<1>2. /\ Span(vr.last, scan.to) \in Nat /\ Span(vr.last, scan.to) # 0
      /\ Span(vr.last, avail.idx) \in Nat /\ Span(vr.last, scan.to) <= Span(vr.last, avail.idx)
  BY <1>1, SpanPositive DEF VhostInv
<1>3. Span(vr.last, avail.idx) # 0 /\ vr.last # avail.idx
  <2>1. Span(vr.last, avail.idx) # 0
    BY <1>2
  <2>2. QED
    BY <1>1, <2>1, SpanPositive
<1>4. /\ Span(vr'.last, avail.idx) = Span(vr.last, avail.idx) - 1
      /\ Span(vr'.last, scan.to) = Span(vr.last, scan.to) - 1
  BY <1>1, <1>3, SpanShrinks
<1>5. Entry = AvailList[0] /\ Entry \in Desc
  <2>1. vr.last + 0 = vr.last /\ vr.last \in Nat
    BY <1>1, Sizes DEF Idx
  <2>2. vr.last % Num \in Slot
    BY <2>1, SlotOf
  <2>3. Entry \in Desc
    BY <1>1, <2>2 DEF Entry, VhostTypes, VqType
  <2>4. AvailList[0] = avail.ring[(vr.last + 0) % Num]
    BY DEF AvailList
  <2>5. QED
    BY <2>1, <2>3, <2>4 DEF Entry
<1>6. ASSUME NEW k \in Nat PROVE AvailList'[k] = AvailList[k + 1]
  <2>1. (vr'.last + k) % Num = (vr.last + (k + 1)) % Num
    BY <1>1, SlotNext
  <2>2. k + 1 \in Nat
    OBVIOUS
  <2>3. QED
    BY <2>1, <2>2 DEF AvailList
<1>7. QED
  BY <1>2, <1>3, <1>4, <1>5, <1>6

LEMMA SkipStep ==
    ASSUME VhostInv, Skip
    PROVE  VhostInv'
<1> DEFINE A == Span(vr.last, avail.idx)
           U == Span(drv.seen, used.idx)
<1>1. /\ scan.on /\ vr.last # scan.to /\ UNCHANGED <<scan, avail, used, drv>>
      /\ vr' = [vr EXCEPT !.last = Plus(@, 1)] /\ skipped' = skipped \cup {Entry}
  BY DEF Skip, Bump
<1>2. VhostTypes /\ vr \in VringType /\ vr.last \in Idx
  BY DEF VhostInv, VhostTypes, VringType
<1>3. vr' \in VringType /\ vr'.last = Plus(vr.last, 1) /\ vr'.used = vr.used
  <2>1. Plus(vr.last, 1) \in Idx
    BY <1>2, PlusCases
  <2>2. QED
    BY <1>1, <1>2, <2>1 DEF VringType
<1>4. /\ A \in Nat \ {0} /\ Span(vr'.last, avail.idx) = A - 1
      /\ Span(vr'.last, scan.to) <= Span(vr'.last, avail.idx)
      /\ Entry = AvailList[0] /\ Entry \in Desc
      /\ \A k \in Nat : AvailList'[k] = AvailList[k + 1]
  BY <1>1, <1>3, Passed
<1>5. VhostTypes'
  BY <1>1, <1>2, <1>3, <1>4 DEF VhostTypes
<1>6. Placed(AvailList, A, UsedList, U, drv.fly, skipped) /\ U \in Nat
  BY <1>2, ListsType DEF VhostInv
<1>7. \A k \in 0..(A - 1) - 1 : AvailList'[k] = AvailList[k + 1]
  BY <1>4
<1> HIDE DEF A, U
<1>8. Placed(AvailList', A - 1, UsedList, U, drv.fly, skipped \cup {AvailList[0]})
  BY <1>4, <1>6, <1>7, PlacedSkip
<1>9. UsedList' = UsedList
  BY <1>1 DEF UsedList
<1>10. /\ Span(vr'.last, avail'.idx) = A - 1 /\ Span(drv'.seen, used'.idx) = U /\ drv' = drv
       /\ skipped' = skipped \cup {AvailList[0]} /\ scan' = scan /\ avail' = avail
  BY <1>1, <1>4 DEF A, U
<1>11. Placed(AvailList', Span(vr'.last, avail'.idx), UsedList', Span(drv'.seen, used'.idx), drv'.fly, skipped')
  BY <1>8, <1>9, <1>10
<1>12. QED
  BY <1>4, <1>5, <1>10, <1>11 DEF VhostInv

LEMMA TakeStep ==
    ASSUME VhostInv, Take
    PROVE  VhostInv'
<1> DEFINE A == Span(vr.last, avail.idx)
           U == Span(drv.seen, used.idx)
           s == used.idx % Num
           d == Entry
<1>1. /\ scan.on /\ vr.last # scan.to /\ UNCHANGED <<scan, avail, drv, skipped>>
      /\ vr' = [vr EXCEPT !.used = Plus(@, 1), !.last = Plus(@, 1)]
      /\ used' = [idx |-> Plus(used.idx, 1), ring |-> [used.ring EXCEPT ![s] = d]]
  BY DEF Take, Bump, UsedSlot, VhostInv, VhostTypes
<1>2. /\ VhostTypes /\ vr \in VringType /\ vr.last \in Idx /\ vr.used = used.idx /\ used.idx \in Idx
      /\ drv.seen \in Idx /\ used.ring \in [Slot -> Desc] /\ skipped \subseteq Desc /\ drv.fly \subseteq Desc
  BY DEF VhostInv, VhostTypes, VringType, VqType
<1>3. vr' \in VringType /\ vr'.last = Plus(vr.last, 1) /\ vr'.used = Plus(used.idx, 1)
  <2>1. Plus(vr.last, 1) \in Idx /\ Plus(vr.used, 1) \in Idx
    BY <1>2, PlusCases
  <2>2. QED
    BY <1>1, <1>2, <2>1 DEF VringType
<1>4. /\ A \in Nat \ {0} /\ Span(vr'.last, avail.idx) = A - 1
      /\ Span(vr'.last, scan.to) <= Span(vr'.last, avail.idx)
      /\ d = AvailList[0] /\ d \in Desc
      /\ \A k \in Nat : AvailList'[k] = AvailList[k + 1]
  BY <1>1, <1>3, Passed
<1>5. s \in Slot
  BY <1>2, SlotOf, Sizes DEF Idx
<1> HIDE DEF d
<1>6. /\ used' \in VqType /\ used'.idx = Plus(used.idx, 1)
      /\ used'.ring[s] = d /\ \A i \in Slot : i # s => used'.ring[i] = used.ring[i]
  <2>1. Plus(used.idx, 1) \in Idx
    BY <1>2, PlusCases
  <2>2. QED
    BY <1>1, <1>2, <1>4, <1>5, <2>1 DEF VqType
<1>7. VhostTypes'
  BY <1>1, <1>2, <1>3, <1>6 DEF VhostTypes
<1>8. /\ Placed(AvailList, A, UsedList, U, drv.fly, skipped) /\ U \in Nat
      /\ AvailList \in [Nat -> Desc] /\ UsedList \in [Nat -> Desc]
  BY <1>2, ListsType DEF VhostInv
<1>9. \A k \in 0..(A - 1) - 1 : AvailList'[k] = AvailList[k + 1]
  BY <1>4
<1> HIDE DEF A, U, s
<1>10. Placed(AvailList', A - 1, UsedList, U, drv.fly, skipped \cup {d})
  BY <1>4, <1>8, <1>9, PlacedSkip
<1>11. d \notin skipped
  <2>1. 0 \in 0..A - 1
    BY <1>4
  <2>2. QED
    BY <1>4, <1>8, <2>1 DEF Placed
<1>12. U < Num
  <2>1. Cardinality(drv.fly) = A + U + Cardinality(skipped) /\ Cardinality(skipped) \in Nat
    BY <1>2, <1>4, <1>8, PlacedCount
  <2>2. Cardinality(drv.fly) <= Num
    <3>1. drv.fly \in SUBSET Desc
      BY <1>2
    <3>2. QED
      BY <3>1, DescFinite, FS_Subset
  <2>3. QED
    BY <1>4, <1>8, <2>1, <2>2, Sizes
<1>13. Span(drv.seen, Plus(used.idx, 1)) = U + 1
  <2>1. U + 1 < IdxMod
    BY <1>8, <1>12, Sizes
  <2>2. QED
    BY <1>2, <2>1, SpanGrows DEF U
<1>14. s = (drv.seen + U) % Num
  BY <1>2, SpanEnd DEF s, U
<1>15. UsedList'[U] = d
  BY <1>1, <1>6, <1>8, <1>14 DEF UsedList
<1>16. ASSUME NEW k \in 0..U - 1 PROVE UsedList'[k] = UsedList[k]
  <2>1. k \in Nat /\ k < U /\ U - k < Num
    BY <1>8, <1>12, Sizes
  <2>2. (drv.seen + k) % Num # s /\ (drv.seen + k) % Num \in Slot
    <3>1. drv.seen + k \in Nat
      BY <1>2, <2>1, Sizes DEF Idx
    <3>2. QED
      BY <1>2, <1>8, <1>14, <2>1, <3>1, SlotsApart, SlotOf
  <2>3. QED
    BY <1>1, <1>6, <2>1, <2>2 DEF UsedList
<1>17. A - 1 \in Nat
  BY <1>4
<1>18. Placed(AvailList', A - 1, UsedList', U + 1, drv.fly, skipped)
  BY <1>8, <1>10, <1>11, <1>15, <1>16, <1>17, PlacedReturn
<1>19. /\ Span(vr'.last, avail'.idx) = A - 1 /\ Span(drv'.seen, used'.idx) = U + 1 /\ drv' = drv
       /\ skipped' = skipped /\ scan' = scan /\ avail' = avail
  BY <1>1, <1>4, <1>6, <1>13
<1>20. Placed(AvailList', Span(vr'.last, avail'.idx), UsedList', Span(drv'.seen, used'.idx), drv'.fly, skipped')
  BY <1>18, <1>19
<1>21. QED
  BY <1>4, <1>7, <1>19, <1>20 DEF VhostInv

LEMMA CollectStep ==
    ASSUME VhostInv, Collects
    PROVE  VhostInv'
<1> DEFINE A == Span(vr.last, avail.idx)
           U == Span(drv.seen, used.idx)
           d == used.ring[drv.seen % Num]
<1>1. /\ drv.seen # used.idx /\ UNCHANGED <<vr, scan, avail, used, skipped>>
      /\ drv' = [fly |-> drv.fly \ {d}, seen |-> Plus(drv.seen, 1)]
  BY DEF Collects
<1>2. /\ VhostTypes /\ used.idx \in Idx /\ drv.seen \in Idx /\ drv.fly \subseteq Desc
  BY DEF VhostInv, VhostTypes, VqType
<1>3. drv' \in [fly : SUBSET Desc, seen : Idx] /\ drv'.fly = drv.fly \ {d} /\ drv'.seen = Plus(drv.seen, 1)
  <2>1. Plus(drv.seen, 1) \in Idx
    BY <1>2, PlusCases
  <2>2. QED
    BY <1>1, <1>2, <2>1
<1>4. VhostTypes'
  BY <1>1, <1>2, <1>3 DEF VhostTypes
<1>5. Placed(AvailList, A, UsedList, U, drv.fly, skipped) /\ U \in Nat /\ A \in Nat
  BY <1>2, ListsType DEF VhostInv
<1>6. U # 0
  BY <1>1, <1>2, SpanPositive
<1>7. Span(Plus(drv.seen, 1), used.idx) = U - 1
  BY <1>1, <1>2, SpanShrinks
<1>8. d = UsedList[0]
  <2>1. drv.seen + 0 = drv.seen
    BY <1>2, Sizes DEF Idx
  <2>2. UsedList[0] = used.ring[(drv.seen + 0) % Num]
    BY DEF UsedList
  <2>3. QED
    BY <2>1, <2>2
<1>9. ASSUME NEW k \in 0..(U - 1) - 1 PROVE UsedList'[k] = UsedList[k + 1]
  <2>1. k \in Nat /\ k + 1 \in Nat
    BY <1>5
  <2>2. (drv'.seen + k) % Num = (drv.seen + (k + 1)) % Num
    BY <1>2, <1>3, <2>1, SlotNext
  <2>3. QED
    BY <1>1, <2>1, <2>2 DEF UsedList
<1> HIDE DEF A, U, d
<1>10. Placed(AvailList, A, UsedList', U - 1, drv.fly \ {UsedList[0]}, skipped)
  <2>1. U \in Nat \ {0}
    BY <1>5, <1>6
  <2>2. QED
    BY <1>5, <1>9, <2>1, PlacedCollect
<1>11. AvailList' = AvailList
  BY <1>1 DEF AvailList
<1>12. /\ Span(vr'.last, avail'.idx) = A /\ Span(drv'.seen, used'.idx) = U - 1
       /\ drv'.fly = drv.fly \ {UsedList[0]} /\ skipped' = skipped /\ scan' = scan /\ vr' = vr /\ avail' = avail
  BY <1>1, <1>3, <1>7, <1>8 DEF A
<1>13. Placed(AvailList', Span(vr'.last, avail'.idx), UsedList', Span(drv'.seen, used'.idx), drv'.fly, skipped')
  BY <1>10, <1>11, <1>12
<1>14. QED
  BY <1>4, <1>12, <1>13 DEF VhostInv

(* A ring that has run is restarted from entry 0, so the inductive step    *)
(* is for clients that do not do so.                                       *)
LEMMA VhostNextInv ==
    ASSUME ~Restarts, VhostInv, [VhostNext]_vhostVars
    PROVE  VhostInv'
<1>1. /\ vr \in VringType /\ scan \in [on : BOOLEAN, to : Idx] /\ avail.idx \in Idx
      /\ scan.on => Span(vr.last, scan.to) <= Span(vr.last, avail.idx)
  BY DEF VhostInv, VhostTypes, VqType
<1>2. ASSUME UNCHANGED <<vr, scan, avail, used, drv, skipped>> PROVE VhostInv'
  BY <1>1, <1>2, ClientStep
<1>3. CASE VhostAccept \/ SetMemTable \/ Crash \/ TakesCall \/ CallDone \/ UNCHANGED vhostVars
  BY <1>2, <1>3 DEF VhostAccept, SetMemTable, Crash, TakesCall, CallDone, vhostVars
<1>4. CASE VhostClose
  BY <1>4, CloseStep
<1>5. CASE VringEnable
  <2>1. vr' = [vr EXCEPT !.enabled = ~@] /\ UNCHANGED <<scan, avail, used, drv, skipped>>
    BY <1>5 DEF VringEnable
  <2>2. vr' \in VringType /\ vr'.last = vr.last /\ vr'.used = vr.used
    BY <1>1, <2>1 DEF VringType
  <2>3. QED
    BY <1>1, <2>1, <2>2, ClientStep
<1>6. CASE Restart
  <2>1. vr' = [vr EXCEPT !.last = vr.last] /\ UNCHANGED <<scan, avail, used, drv, skipped>>
    BY <1>6 DEF Restart
  <2>2. vr' \in VringType /\ vr'.last = vr.last /\ vr'.used = vr.used
    BY <1>1, <2>1 DEF VringType
  <2>3. QED
    BY <1>1, <2>1, <2>2, ClientStep
<1>7. ASSUME NEW f \in {"addr", "kick", "call"}, SetVring(f) PROVE VhostInv'
  <2>1. vr' = [vr EXCEPT ![f] = TRUE] /\ UNCHANGED <<scan, avail, used, drv, skipped>>
    BY <1>7 DEF SetVring
  <2>2. vr' \in VringType /\ vr'.last = vr.last /\ vr'.used = vr.used
    <3>1. CASE f = "addr"
      BY <1>1, <2>1, <3>1 DEF VringType
    <3>2. CASE f = "kick"
      BY <1>1, <2>1, <3>2 DEF VringType
    <3>3. CASE f = "call"
      BY <1>1, <2>1, <3>3 DEF VringType
    <3>4. QED
      BY <3>1, <3>2, <3>3
  <2>3. QED
    BY <1>1, <2>1, <2>2, ClientStep
<1>8. CASE Poll
  <2>1. scan' = [on |-> TRUE, to |-> avail.idx] /\ UNCHANGED <<vr, avail, used, drv, skipped>>
    BY <1>8 DEF Poll
  <2>2. Span(vr.last, avail.idx) \in Nat /\ scan'.to = avail.idx /\ scan' \in [on : BOOLEAN, to : Idx]
    BY <1>1, <2>1, SpanPositive DEF VringType
  <2>3. QED
    BY <1>1, <2>1, <2>2, ClientStep
<1>9. CASE ScanEnd
  <2>1. scan' = NoScan /\ UNCHANGED <<vr, avail, used, drv, skipped>>
    BY <1>9 DEF ScanEnd
  <2>2. NoScan \in [on : BOOLEAN, to : Idx] /\ ~NoScan.on
    BY Sizes DEF NoScan
  <2>3. QED
    BY <1>1, <2>1, <2>2, ClientStep
<1>10. CASE Take
  BY <1>10, TakeStep
<1>11. CASE Skip
  BY <1>11, SkipStep
<1>12. CASE Offers
  BY <1>12, OfferStep
<1>13. CASE Collects
  BY <1>13, CollectStep
<1>14. QED
  BY <1>3, <1>4, <1>5, <1>6, <1>7, <1>8, <1>9, <1>10, <1>11, <1>12, <1>13
     DEF VhostNext, VhostServing, Driver

(* What Between lists is what the slots hold from `from` on.               *)
LEMMA BetweenSlots ==
    ASSUME NEW from \in Idx, NEW to \in Idx
    PROVE  /\ Len(Between(from, to)) = Span(from, to)
           /\ DOMAIN Between(from, to) = 1..Span(from, to)
           /\ \A k \in 0..Span(from, to) - 1 : Between(from, to)[k + 1] % Num = (from + k) % Num
<1> DEFINE n == Span(from, to)
           b == Between(from, to)
<1>1. n \in Nat /\ n < IdxMod /\ from \in Nat /\ from < IdxMod /\ IdxMod \in Nat \ {0}
  <2>1. n \in Idx
    BY SpanCases
  <2> HIDE DEF n
  <2>2. QED
    BY <2>1, Sizes DEF Idx
<1>2. b = [i \in 1..n |-> Plus(from, i - 1)]
  BY DEF Between, Span
<1> HIDE DEF n, b
<1>3. Len(b) = n /\ DOMAIN b = 1..n
  <2>1. \A i \in 1..n : Plus(from, i - 1) \in Nat
    <3> TAKE i \in 1..n
    <3>1. from + (i - 1) \in Nat
      BY <1>1
    <3>2. QED
      BY <1>1, <3>1 DEF Plus
  <2>2. b \in [1..n -> Nat] /\ DOMAIN b = 1..n
    BY <1>2, <2>1
  <2>3. b \in Seq(Nat)
    BY <1>1, <2>2, SeqDef
  <2>4. Len(b) \in Nat /\ 1..Len(b) = 1..n
    BY <2>2, <2>3, LenProperties
  <2>5. Len(b) = n
    <3> DEFINE l == Len(b)
    <3> HIDE DEF l
    <3>1. l \in Nat /\ n \in Nat /\ \A i \in Nat \ {0} : i <= l <=> i <= n
      BY <1>1, <2>4 DEF l
    <3>2. l <= n
      <4>1. CASE l = 0
        BY <1>1, <4>1
      <4>2. CASE l # 0
        BY <3>1, <4>2
      <4>3. QED
        BY <4>1, <4>2
    <3>3. n <= l
      <4>1. CASE n = 0
        BY <3>1, <4>1
      <4>2. CASE n # 0
        BY <3>1, <4>2
      <4>3. QED
        BY <4>1, <4>2
    <3>4. QED
      BY <3>1, <3>2, <3>3 DEF l
  <2>6. QED
    BY <2>2, <2>5
<1>4. ASSUME NEW k \in 0..n - 1
      PROVE  /\ k + 1 \in 1..n /\ (k + 1) - 1 = k
             /\ b[k + 1] % Num = (from + k) % Num
  <2>1. k + 1 \in 1..n /\ (k + 1) - 1 = k /\ k \in Nat /\ k < IdxMod
    BY <1>1
  <2>2. b[k + 1] = (from + k) % IdxMod
    BY <1>2, <2>1 DEF Plus
  <2> DEFINE x == from + k
  <2>3. x \in 0..(2 * IdxMod - 1)
    BY <1>1, <2>1
  <2> HIDE DEF x
  <2>4. x % IdxMod = IF x < IdxMod THEN x ELSE x - IdxMod
    BY <1>1, <2>3
  <2>5. (x % IdxMod) % Num = x % Num
    <3>1. CASE x < IdxMod
      BY <2>4, <3>1
    <3>2. CASE ~ (x < IdxMod)
      <4> DEFINE y == x - IdxMod
      <4>1. y \in Nat /\ y + IdxMod = x /\ x % IdxMod = y
        BY <1>1, <2>3, <2>4, <3>2
      <4> HIDE DEF y
      <4>2. QED
        BY <4>1, SlotWraps
    <3>3. QED
      BY <3>1, <3>2
  <2>6. QED
    BY <2>1, <2>2, <2>5 DEF x
<1>5. QED
  BY <1>3, <1>4 DEF n, b

LEMMA VhostMeaning == VhostInv => DescriptorsAccounted
<1> SUFFICES ASSUME VhostInv PROVE DescriptorsAccounted
  OBVIOUS
<1> DEFINE A == Span(vr.last, avail.idx)
           U == Span(drv.seen, used.idx)
<1>1. /\ VhostTypes /\ vr.last \in Idx /\ avail.idx \in Idx /\ drv.seen \in Idx /\ used.idx \in Idx
      /\ drv.fly \subseteq Desc /\ skipped \subseteq Desc
  BY DEF VhostInv, VhostTypes, VringType, VqType
<1>2. /\ AvailList \in [Nat -> Desc] /\ UsedList \in [Nat -> Desc] /\ A \in Nat /\ U \in Nat
      /\ Placed(AvailList, A, UsedList, U, drv.fly, skipped)
  BY <1>1, ListsType DEF VhostInv
<1> HIDE DEF A, U
<1>3. WaitingDescs = {AvailList[k] : k \in 0..A - 1} /\ Len(Between(vr.last, avail.idx)) = A
  <2> DEFINE b == Between(vr.last, avail.idx)
  <2>1. Len(b) = A /\ DOMAIN b = 1..A /\ \A k \in 0..A - 1 : b[k + 1] % Num = (vr.last + k) % Num
    BY <1>1, BetweenSlots DEF A
  <2>2. WaitingDescs = {avail.ring[b[i] % Num] : i \in 1..A}
    BY <2>1 DEF WaitingDescs
  <2> HIDE DEF b
  <2>3. \A k \in 0..A - 1 : k + 1 \in 1..A /\ AvailList[k] = avail.ring[b[k + 1] % Num]
    BY <1>2, <2>1 DEF AvailList
  <2>4. \A i \in 1..A : i - 1 \in 0..A - 1 /\ (i - 1) + 1 = i
    BY <1>2
  <2>5. WaitingDescs = {AvailList[k] : k \in 0..A - 1}
    BY <2>2, <2>3, <2>4
  <2>6. QED
    BY <2>1, <2>5 DEF b
<1>4. ReturnedDescs = {UsedList[k] : k \in 0..U - 1} /\ Len(Between(drv.seen, used.idx)) = U
  <2> DEFINE b == Between(drv.seen, used.idx)
  <2>1. Len(b) = U /\ DOMAIN b = 1..U /\ \A k \in 0..U - 1 : b[k + 1] % Num = (drv.seen + k) % Num
    BY <1>1, BetweenSlots DEF U
  <2>2. ReturnedDescs = {used.ring[b[i] % Num] : i \in 1..U}
    BY <2>1 DEF ReturnedDescs
  <2> HIDE DEF b
  <2>3. \A k \in 0..U - 1 : k + 1 \in 1..U /\ UsedList[k] = used.ring[b[k + 1] % Num]
    BY <1>2, <2>1 DEF UsedList
  <2>4. \A i \in 1..U : i - 1 \in 0..U - 1 /\ (i - 1) + 1 = i
    BY <1>2
  <2>5. ReturnedDescs = {UsedList[k] : k \in 0..U - 1}
    BY <2>2, <2>3, <2>4
  <2>6. QED
    BY <2>1, <2>5 DEF b
<1>5. Cardinality(drv.fly) = A + U + Cardinality(skipped)
  BY <1>1, <1>2, PlacedCount
<1>6. QED
  BY <1>2, <1>3, <1>4, <1>5 DEF DescriptorsAccounted, Placed

(* vhost-user: while the client does not restart a ring that has run, each *)
(* descriptor in flight is in the available ring, in the used ring, or     *)
(* among those process_vring has passed over, in exactly one of them, for  *)
(* rings of every size and indices that wrap.                              *)
THEOREM DescriptorsNeverLost ==
    ASSUME ~Restarts
    PROVE  Spec => []DescriptorsAccounted
<1>1. Init => VhostInv
  BY VhostInitInv DEF Init
<1>2. VhostInv /\ [Next]_vars => VhostInv'
  <2> SUFFICES ASSUME VhostInv, [Next]_vars PROVE VhostInv'
    OBVIOUS
  <2>1. [VhostNext]_vhostVars
    BY DEF Next, VfioStep, VhostStep, vars
  <2>2. QED
    BY <2>1, VhostNextInv
<1>3. QED
  BY <1>1, <1>2, VhostMeaning, PTL DEF Spec

-----------------------------------------------------------------------------
(* vfio-user: while the controller is disabled the guest has nothing of    *)
(* its queues and nothing is under way; while it is enabled interrupts can *)
(* be raised.                                                              *)
GuestFields == {"stage", "tail", "rung", "head", "phase", "out"}

Fields == /\ DOMAIN guest = Queue /\ DOMAIN cq = Queue
          /\ \A x \in Queue : DOMAIN guest[x] = GuestFields
          /\ DOMAIN msix = {"on", "fd"} /\ DOMAIN irq = {"raised", "handling"}
          /\ DOMAIN run = {"on", "q", "wrote"}

Quiet == guest[0].stage = "none" =>
            /\ bells = <<>> /\ ~run.on
            /\ \A x \in Queue : guest[x] = NoGuest /\ cq[x] = NoRing(x)
Armed == guest[0].stage # "none" => msix.on /\ msix.fd

IrqInv == Fields /\ Quiet /\ Armed /\ (run.wrote => run.on) /\ NoLostInterrupt

LEMMA NoGuestFields ==
    /\ DOMAIN NoGuest = GuestFields /\ NoGuest.stage = "none" /\ NoGuest.rung = NoGuest.tail
    /\ NoGuest.head = 0 /\ NoGuest.phase = TRUE
BY DEF NoGuest, GuestFields

LEMMA EmptyRingOld ==
    ASSUME NEW x \in Queue
    PROVE  NoRing(x)[0].phase = FALSE
<1>1. Depth(x) \in Nat /\ Cardinality(Cid(x)) \in Nat /\ Cardinality(Cid(x)) < Depth(x)
  BY VfioAssumption, FS_CardinalityType
<1>2. 0 \in Ring(x)
  BY <1>1 DEF Ring
<1>3. QED
  BY <1>2 DEF NoRing, NoCpl

LEMMA AdminQueue == 0 \in Queue
BY VfioAssumption

LEMMA IrqInit == VfioInit => IrqInv
<1> SUFFICES ASSUME VfioInit PROVE IrqInv
  OBVIOUS
<1>1. Fields
  BY NoGuestFields DEF VfioInit, Fields, NoMsix, NoIrq, NoRun
<1>2. \A x \in Queue : guest[x] = NoGuest /\ cq[x] = NoRing(x)
  BY DEF VfioInit
<1>3. bells = <<>> /\ ~run.on /\ ~run.wrote
  BY DEF VfioInit, NoRun
<1>4. guest[0].stage = "none" /\ \A x \in Queue : ~New(x)
  BY <1>2, AdminQueue, NoGuestFields DEF New
<1>5. QED
  BY <1>1, <1>2, <1>3, <1>4 DEF IrqInv, Quiet, Armed, NoLostInterrupt

(* A reset by the client or by the guest.                                  *)
LEMMA IrqForget ==
    ASSUME IrqInv, GuestForgets, bells' = <<>>, UNCHANGED run, ~run.on, DOMAIN msix' = {"on", "fd"}
    PROVE  IrqInv'
<1>1. Fields'
  BY NoGuestFields DEF IrqInv, Fields, GuestForgets, NoIrq
<1>2. \A x \in Queue : guest'[x] = NoGuest /\ cq'[x] = NoRing(x)
  BY DEF GuestForgets
<1>3. guest'[0].stage = "none" /\ \A x \in Queue : ~New(x)'
  BY <1>2, AdminQueue, NoGuestFields DEF New
<1>4. QED
  BY <1>1, <1>2, <1>3 DEF IrqInv, Quiet, Armed, NoLostInterrupt

(* A step that changes neither the queues in guest memory nor the          *)
(* interrupts.                                                             *)
LEMMA IrqSame ==
    ASSUME IrqInv, UNCHANGED <<guest, cq, irq, msix, bells, run>>
    PROVE  IrqInv'
<1>1. \A x \in Queue : New(x)' = New(x)
  BY DEF New
<1>2. QED
  BY <1>1 DEF IrqInv, Fields, Quiet, Armed, NoLostInterrupt

LEMMA IrqEnable ==
    ASSUME IrqInv, EnableCtrl
    PROVE  IrqInv'
<1> DEFINE live == [NoGuest EXCEPT !.stage = "live"]
<1>1. /\ guest[0].stage = "none" /\ msix.on /\ msix.fd /\ ~run.on
      /\ guest' = [guest EXCEPT ![0] = live] /\ UNCHANGED <<msix, bells, run, cq, irq>>
  BY DEF EnableCtrl, Sync
<1>2. DOMAIN live = GuestFields /\ live.stage = "live" /\ live.head = 0 /\ live.phase = TRUE
  BY NoGuestFields DEF GuestFields
<1> HIDE DEF live
<1>3. guest'[0] = live /\ \A x \in Queue \ {0} : guest'[x] = guest[x]
  BY <1>1, AdminQueue DEF IrqInv, Fields
<1>4. Fields'
  BY <1>1, <1>2, <1>3 DEF IrqInv, Fields
<1>5. \A x \in Queue : ~New(x)'
  <2>1. cq'[0][0].phase = FALSE
    BY <1>1, AdminQueue, EmptyRingOld DEF IrqInv, Quiet
  <2>2. ~New(0)'
    BY <1>2, <1>3, <2>1 DEF New
  <2>3. \A x \in Queue \ {0} : guest'[x].stage = "none"
    BY <1>1, <1>3, NoGuestFields DEF IrqInv, Quiet
  <2>4. QED
    BY <2>2, <2>3 DEF New
<1>6. guest'[0].stage # "none"
  BY <1>2, <1>3
<1>7. QED
  BY <1>1, <1>4, <1>5, <1>6 DEF IrqInv, Quiet, Armed, NoLostInterrupt

(* The loop of process_queue_commands.                                     *)
LEMMA IrqDoorbell ==
    ASSUME IrqInv, Doorbell
    PROVE  IrqInv'
<1>1. bells # <<>> /\ ~run.on /\ UNCHANGED <<msix, cq, guest, irq>> /\ ~run'.wrote /\ DOMAIN run' = {"on", "q", "wrote"}
  BY DEF Doorbell
<1>2. guest'[0].stage # "none" /\ ~run.wrote
  BY <1>1 DEF IrqInv, Quiet
<1>3. \A x \in Queue : New(x)' = New(x)
  BY <1>1 DEF New
<1>4. QED
  BY <1>1, <1>2, <1>3 DEF IrqInv, Fields, Quiet, Armed, NoLostInterrupt

LEMMA IrqServe ==
    ASSUME IrqInv, Serve
    PROVE  IrqInv'
<1>1. /\ run.on /\ UNCHANGED <<msix, bells, guest, irq>> /\ run' = [run EXCEPT !.wrote = TRUE]
      /\ DOMAIN cq' = DOMAIN cq
  BY DEF Serve
<1>2. guest'[0].stage # "none"
  BY <1>1 DEF IrqInv, Quiet
<1>3. DOMAIN run' = {"on", "q", "wrote"} /\ run'.wrote = TRUE /\ run'.on = run.on
  BY <1>1 DEF IrqInv, Fields
<1>4. QED
  BY <1>1, <1>2, <1>3 DEF IrqInv, Fields, Quiet, Armed, NoLostInterrupt

LEMMA IrqLoopEnds ==
    ASSUME IrqInv, run.on, NEW x, LoopEnds(x), UNCHANGED <<msix, bells, cq, guest>>
    PROVE  IrqInv'
<1>1. guest[0].stage # "none"
  BY DEF IrqInv, Quiet
<1>2. run.wrote => irq' = [irq EXCEPT !.raised = TRUE]
  BY <1>1 DEF IrqInv, Armed, LoopEnds, Interrupts
<1>3. run.wrote => irq'.raised = TRUE
  BY <1>2 DEF IrqInv, Fields
<1>4. ~run.wrote => irq' = irq
  BY DEF LoopEnds, Interrupts
<1>5. DOMAIN irq' = {"raised", "handling"} /\ DOMAIN run' = {"on", "q", "wrote"} /\ ~run'.wrote
  BY <1>2, <1>4 DEF IrqInv, Fields, LoopEnds, NoRun
<1>6. \A y \in Queue : New(y)' = New(y)
  BY DEF New
<1>7. NoLostInterrupt'
  BY <1>3, <1>4, <1>6 DEF IrqInv, NoLostInterrupt
<1>8. QED
  BY <1>1, <1>5, <1>7 DEF IrqInv, Fields, Quiet, Armed

(* The guest.                                                              *)
LEMMA IrqRings ==
    ASSUME IrqInv, NEW x \in Queue, Rings(x)
    PROVE  IrqInv'
<1>1. /\ guest[x].rung # guest[x].tail /\ UNCHANGED <<msix, run, cq, irq>>
      /\ guest' = [guest EXCEPT ![x].rung = guest[x].tail]
  BY DEF Rings
<1>2. guest[0].stage # "none"
  BY <1>1, NoGuestFields DEF IrqInv, Quiet
<1>3. \A y \in Queue : /\ DOMAIN guest'[y] = DOMAIN guest[y] /\ guest'[y].stage = guest[y].stage
                       /\ guest'[y].head = guest[y].head /\ guest'[y].phase = guest[y].phase
  BY <1>1 DEF IrqInv, Fields, GuestFields
<1>4. \A y \in Queue : New(y)' = New(y)
  BY <1>1, <1>3 DEF New
<1>5. Fields'
  BY <1>1, <1>3 DEF IrqInv, Fields
<1>6. guest'[0].stage # "none"
  BY <1>2, <1>3, AdminQueue
<1>7. QED
  BY <1>1, <1>2, <1>4, <1>5, <1>6 DEF IrqInv, Quiet, Armed, NoLostInterrupt

LEMMA IrqConsume ==
    ASSUME IrqInv, NEW x \in Queue, Consume(x)
    PROVE  IrqInv'
<1> DEFINE g    == guest[x]
           done == {o \in g.out : o.cid = cq[x][g.head].cid}
           tookx == [g EXCEPT !.head  = (@ + 1) % Depth(x),
                              !.phase = IF g.head + 1 = Depth(x) THEN ~@ ELSE @,
                              !.out   = @ \ done]
           took == [guest EXCEPT ![x] = tookx]
           ended(y) == [took[y] EXCEPT !.stage = Ended[(CHOOSE o \in done : o.arg = y).op]]
<1>1. /\ irq.handling /\ New(x) /\ UNCHANGED <<msix, bells, run, irq>>
      /\ DOMAIN cq' = DOMAIN cq
      /\ guest' = [y \in Queue |-> IF \E o \in done : o.arg = y /\ y # 0 THEN ended(y) ELSE took[y]]
  BY DEF Consume
<1>2. guest[0].stage # "none"
  BY <1>1, NoGuestFields DEF IrqInv, Quiet, New
<1>3. DOMAIN g = GuestFields /\ DOMAIN guest = Queue
  BY DEF IrqInv, Fields
<1>4. DOMAIN tookx = GuestFields /\ tookx.stage = guest[x].stage
  BY <1>3 DEF GuestFields
<1> HIDE DEF g, done, tookx
<1>5. \A y \in Queue : DOMAIN took[y] = GuestFields /\ took[y].stage = guest[y].stage
  BY <1>3, <1>4 DEF IrqInv, Fields
<1> HIDE DEF took
<1>6. \A y \in Queue : DOMAIN ended(y) = GuestFields
  BY <1>5
<1> HIDE DEF ended
<1>7. guest'[0] = took[0]
  BY <1>1, AdminQueue
<1>8. \A y \in Queue : DOMAIN guest'[y] = GuestFields
  BY <1>1, <1>5, <1>6
<1>9. DOMAIN guest' = Queue
  BY <1>1
<1>10. Fields'
  BY <1>1, <1>8, <1>9 DEF IrqInv, Fields
<1>11. guest'[0].stage # "none"
  BY <1>2, <1>5, <1>7, AdminQueue
<1>12. QED
  BY <1>1, <1>2, <1>10, <1>11 DEF IrqInv, Quiet, Armed, NoLostInterrupt

(* A queue that is created starts with an empty completion ring; on every  *)
(* other the guest sees what it saw.                                       *)
LEMMA IrqSubmit ==
    ASSUME IrqInv, NEW x \in Queue, Submit(x)
    PROVE  IrqInv'
<1>1. PICK c \in Cid(x) \ Out(x), m \in Commands(x) :
        LET cmd == [cid |-> c, op |-> m.op, arg |-> m.arg]
            g   == [guest EXCEPT ![x].tail = (@ + 1) % Depth(x), ![x].out = @ \cup {cmd}]
        IN  /\ guest' = IF m.arg = 0 THEN g ELSE [g EXCEPT ![m.arg] = Starting(@, m.op)]
            /\ cq' = IF m.op = "CREATE_CQ" THEN [cq EXCEPT ![m.arg] = NoRing(m.arg)] ELSE cq
  BY DEF Submit
<1> DEFINE cmd == [cid |-> c, op |-> m.op, arg |-> m.arg]
           g   == [guest EXCEPT ![x].tail = (@ + 1) % Depth(x), ![x].out = @ \cup {cmd}]
<1>2. guest[x].stage = "live" /\ UNCHANGED <<msix, bells, run, irq>>
  BY DEF Submit
<1>3. guest[0].stage # "none"
  BY <1>2, NoGuestFields DEF IrqInv, Quiet
<1>4. \/ m.op = "IO" /\ m.arg = 0
      \/ m.op = "CREATE_CQ" /\ m.arg \in IoQ /\ guest[m.arg].stage = "none"
      \/ m.op \in {"CREATE_SQ", "DELETE_CQ", "DELETE_SQ"} /\ m.arg \in IoQ /\ guest[m.arg].stage # "none"
  BY DEF Commands
<1>5. /\ guest' = IF m.arg = 0 THEN g ELSE [g EXCEPT ![m.arg] = Starting(@, m.op)]
      /\ cq' = IF m.op = "CREATE_CQ" THEN [cq EXCEPT ![m.arg] = NoRing(m.arg)] ELSE cq
  BY <1>1
<1>6. /\ DOMAIN g = Queue
      /\ \A y \in Queue : /\ DOMAIN g[y] = GuestFields /\ g[y].stage = guest[y].stage
                          /\ g[y].head = guest[y].head /\ g[y].phase = guest[y].phase
  BY DEF IrqInv, Fields, GuestFields
<1> HIDE DEF g, cmd
<1>7. ASSUME NEW y \in Queue, y # m.arg \/ y = 0
      PROVE  guest'[y] = g[y] /\ cq'[y] = cq[y]
  BY <1>4, <1>5, <1>6, <1>7 DEF IrqInv, Fields, IoQ
<1>8. ASSUME m.arg # 0
      PROVE  /\ guest'[m.arg] = Starting(g[m.arg], m.op) /\ m.arg \in Queue
             /\ DOMAIN guest'[m.arg] = GuestFields
  <2>1. guest'[m.arg] = Starting(g[m.arg], m.op) /\ m.arg \in Queue
    BY <1>4, <1>5, <1>6, <1>8 DEF IoQ
  <2> DEFINE h == g[m.arg]
  <2>2. DOMAIN h = GuestFields
    BY <1>6, <2>1
  <2> HIDE DEF h
  <2>3. DOMAIN Starting(h, m.op) = GuestFields
    BY <2>2, NoGuestFields DEF Starting
  <2>4. QED
    BY <2>1, <2>3 DEF h
<1>9. Fields'
  <2>1. DOMAIN guest' = Queue /\ DOMAIN cq' = Queue
    BY <1>5, <1>6 DEF IrqInv, Fields
  <2>2. \A y \in Queue : DOMAIN guest'[y] = GuestFields
    BY <1>6, <1>7, <1>8
  <2>3. QED
    BY <1>2, <2>1, <2>2 DEF IrqInv, Fields
<1>10. guest'[0].stage # "none"
  BY <1>3, <1>6, <1>7, AdminQueue
<1>11. ASSUME NEW y \in Queue, New(y)' PROVE New(y)
  <2>1. CASE y # m.arg \/ y = 0
    BY <1>6, <1>7, <1>11, <2>1 DEF New
  <2>2. CASE y = m.arg /\ y # 0 /\ m.op = "CREATE_CQ"
    <3>1. guest'[y] = [NoGuest EXCEPT !.stage = "busy"]
      BY <1>8, <2>2 DEF Starting
    <3>2. guest'[y].head = 0 /\ guest'[y].phase = TRUE
      BY <3>1, NoGuestFields DEF GuestFields
    <3>3. cq'[y] = NoRing(y)
      BY <1>5, <2>2 DEF IrqInv, Fields
    <3>4. QED
      BY <1>11, <3>2, <3>3, EmptyRingOld DEF New
  <2>3. CASE y = m.arg /\ y # 0 /\ m.op # "CREATE_CQ"
    <3> DEFINE h == g[y]
    <3>1. /\ DOMAIN h = GuestFields /\ h.head = guest[y].head /\ h.phase = guest[y].phase
          /\ guest[y].stage # "none"
      BY <1>4, <1>6, <2>3
    <3>2. guest'[y] = Starting(h, m.op) /\ cq' = cq
      BY <1>5, <1>8, <2>3
    <3> HIDE DEF h
    <3>3. guest'[y].head = h.head /\ guest'[y].phase = h.phase
      BY <1>4, <2>3, <3>1, <3>2 DEF Starting, GuestFields
    <3>4. QED
      BY <1>11, <3>1, <3>2, <3>3 DEF New
  <2>4. QED
    BY <2>1, <2>2, <2>3
<1>12. QED
  BY <1>2, <1>3, <1>9, <1>10, <1>11 DEF IrqInv, Quiet, Armed, NoLostInterrupt

LEMMA IrqNext ==
    ASSUME IrqInv, [VfioNext]_vfioVars
    PROVE  IrqInv'
<1>1. CASE \/ Connect \/ UNCHANGED vfioVars
           \/ \E a \in Area, low \in BOOLEAN : DmaMap(a, low) \/ DmaUnmap(<<a, low>>)
           \/ \E r \in {"AQA", "ASQ", "ACQ"} : RegWrite(r)
  <2>1. UNCHANGED <<guest, cq, irq, msix, bells, run>>
    BY <1>1 DEF Connect, DmaMap, DmaUnmap, RegWrite, vfioVars
  <2>2. QED
    BY <2>1, IrqSame
<1>2. CASE VfioClose \/ DeviceReset \/ DisableCtrl
  <2>1. GuestForgets /\ bells' = <<>> /\ UNCHANGED run /\ ~run.on
    BY <1>2 DEF VfioClose, DeviceReset, DisableCtrl, Sync
  <2>2. DOMAIN msix' = {"on", "fd"}
    BY <1>2 DEF VfioClose, DeviceReset, DisableCtrl, NoMsix, IrqInv, Fields
  <2>3. QED
    BY <2>1, <2>2, IrqForget
<1>3. CASE EnableCtrl
  BY <1>3, IrqEnable
<1>4. ASSUME NEW b \in BOOLEAN, handle_device_set_irqs(b) \/ pci_config_write(b) PROVE IrqInv'
  <2>1. /\ guest[0].stage = "none" /\ DOMAIN msix' = {"on", "fd"}
        /\ UNCHANGED <<guest, cq, irq, bells, run>>
    BY <1>4 DEF handle_device_set_irqs, pci_config_write, IrqInv, Fields
  <2>2. \A x \in Queue : New(x)' = New(x)
    BY <2>1 DEF New
  <2>3. QED
    BY <2>1, <2>2 DEF IrqInv, Fields, Quiet, Armed, NoLostInterrupt
<1>5. CASE Doorbell
  BY <1>5, IrqDoorbell
<1>6. CASE Serve
  BY <1>6, IrqServe
<1>7. CASE ServeNoCq \/ ServeEnd
  <2>1. run.on /\ LoopEnds(run.q) /\ UNCHANGED <<msix, bells, cq, guest>>
    BY <1>7 DEF ServeNoCq, ServeEnd
  <2>2. QED
    BY <2>1, IrqLoopEnds
<1>8. CASE TakesIrq
  <2>1. UNCHANGED <<guest, cq, msix, bells, run>> /\ irq' = [raised |-> FALSE, handling |-> TRUE]
    BY <1>8 DEF TakesIrq
  <2>2. QED
    BY <2>1 DEF IrqInv, Fields, Quiet, Armed, NoLostInterrupt
<1>9. CASE IrqDone
  <2>1. /\ UNCHANGED <<guest, cq, msix, bells, run>> /\ DOMAIN irq' = DOMAIN irq
        /\ \A x \in Queue : ~New(x)
    BY <1>9 DEF IrqDone
  <2>2. \A x \in Queue : New(x)' = New(x)
    BY <2>1 DEF New
  <2>3. QED
    BY <2>1, <2>2 DEF IrqInv, Fields, Quiet, Armed, NoLostInterrupt
<1>10. ASSUME NEW x \in Queue, Consume(x) PROVE IrqInv'
  BY <1>10, IrqConsume
<1>11. ASSUME NEW x \in Queue, Submit(x) \/ Rings(x) PROVE IrqInv'
  BY <1>11, IrqSubmit, IrqRings
<1>12. QED
  BY <1>1, <1>2, <1>3, <1>4, <1>5, <1>6, <1>7, <1>8, <1>9, <1>10, <1>11
     DEF VfioNext, VfioServing, Guest

(* vfio-user: a completion the guest has not seen is announced by an       *)
(* interrupt that is pending or handled, or will be by the one at the end  *)
(* of process_queue_commands, for every number and depth of queues and     *)
(* through resets and queues created and deleted while others are served.  *)
THEOREM InterruptsNeverLost == Spec => []NoLostInterrupt
<1>1. Init => IrqInv
  BY IrqInit DEF Init
<1>2. IrqInv /\ [Next]_vars => IrqInv'
  <2> SUFFICES ASSUME IrqInv, [Next]_vars PROVE IrqInv'
    OBVIOUS
  <2>1. [VfioNext]_vfioVars
    BY DEF Next, VfioStep, VhostStep, vars
  <2>2. QED
    BY <2>1, IrqNext
<1>3. IrqInv => NoLostInterrupt
  BY DEF IrqInv
<1>4. QED
  BY <1>1, <1>2, <1>3, PTL DEF Spec

-----------------------------------------------------------------------------
(* vfio-user: where the commands are.  A list w of W commands that wait,   *)
(* a list v of V identifiers that are shown as completed: every command    *)
(* that is out is in one of them, once; only the first that waits may be   *)
(* in rn, the commands that have run, and all that are shown are.          *)
Spread(w, W, v, V, out, rn) ==
    /\ \A o, p \in out : o.cid = p.cid => o = p
    /\ \A i \in 0..W - 1 : w[i] \in out
    /\ \A i, j \in 0..W - 1 : w[i].cid = w[j].cid => i = j
    /\ \A k \in 0..V - 1 : \E o \in out : o.cid = v[k]
    /\ \A k, l \in 0..V - 1 : v[k] = v[l] => k = l
    /\ \A i \in 0..W - 1, k \in 0..V - 1 : w[i].cid # v[k]
    /\ \A o \in out : (\E i \in 0..W - 1 : w[i] = o) \/ (\E k \in 0..V - 1 : v[k] = o.cid)
    /\ \A i \in 1..W - 1 : w[i].cid \notin rn
    /\ \A k \in 0..V - 1 : v[k] \in rn

(* In a ring of n entries: the place k after i, the way from i to j.       *)
Spot(n, i, k) == IF i + k < n THEN i + k ELSE i + k - n
Way(n, i, j)   == IF j >= i THEN j - i ELSE j - i + n

(* Following the phase tag from position h, exactly V entries are new.     *)
PhaseOf(n, h, p, k)  == IF h + k < n THEN p ELSE ~p
Shows(n, c, h, p, V) ==
    \A k \in 0..n - 1 : c[Spot(n, h, k)].phase = PhaseOf(n, h, p, k) <=> k < V

(* The first m entries of list b, as they are and without the first.       *)
Same(a, b, m)    == \A i \in 0..m - 1 : a[i] = b[i]
Shifted(a, b, m) == \A i \in 0..m - 2 : a[i] = b[i + 1]

LEMMA SpreadNone ==
    ASSUME NEW w, NEW v, NEW rn PROVE Spread(w, 0, v, 0, {}, rn)
BY DEF Spread

LEMMA SpreadEmpty ==
    ASSUME NEW w, NEW W \in Nat, NEW v, NEW V \in Nat, NEW rn, Spread(w, W, v, V, {}, rn)
    PROVE  W = 0 /\ V = 0
<1>1. W > 0 => w[0] \in {}
  BY DEF Spread
<1>2. V > 0 => \E o \in {} : o.cid = v[0]
  <2>1. V > 0 => 0 \in 0..V - 1
    OBVIOUS
  <2>2. QED
    BY <2>1 DEF Spread
<1>3. QED
  BY <1>1, <1>2

(* A command is submitted.                                                 *)
LEMMA SpreadSubmit ==
    ASSUME NEW w, NEW W \in Nat, NEW v, NEW V \in Nat, NEW out, NEW rn, Spread(w, W, v, V, out, rn),
           NEW cmd, \A o \in out : o.cid # cmd.cid,
           NEW w1, \A i \in 0..W - 1 : w1[i] = w[i], w1[W] = cmd
    PROVE  Spread(w1, W + 1, v, V, out \cup {cmd}, rn \ {cmd.cid})
<1> DEFINE more == out \cup {cmd}
           less == rn \ {cmd.cid}
<1>1. \A i \in 0..(W + 1) - 1 : i \in 0..W - 1 \/ i = W
  OBVIOUS
<1>2. W \in 0..(W + 1) - 1 /\ \A i \in 0..W - 1 : i \in 0..(W + 1) - 1
  OBVIOUS
<1>3. \A o, p \in more : o.cid = p.cid => o = p
  BY DEF Spread
<1>4. \A i \in 0..W - 1 : w1[i] \in out /\ w1[i].cid # cmd.cid
  BY DEF Spread
<1>5. \A i \in 0..(W + 1) - 1 : w1[i] \in more
  BY <1>1, <1>4
<1>6. \A i, j \in 0..(W + 1) - 1 : w1[i].cid = w1[j].cid => i = j
  <2>1. \A i, j \in 0..W - 1 : w1[i].cid = w1[j].cid => i = j
    BY DEF Spread
  <2>2. QED
    BY <1>1, <1>4, <2>1
<1>7. \A k \in 0..V - 1 : (\E o \in out : o.cid = v[k]) /\ v[k] # cmd.cid
  BY DEF Spread
<1>8. \A i \in 0..(W + 1) - 1, k \in 0..V - 1 : w1[i].cid # v[k]
  <2>1. \A i \in 0..W - 1, k \in 0..V - 1 : w1[i].cid # v[k]
    BY DEF Spread
  <2>2. QED
    BY <1>1, <1>7, <2>1
<1>9. ASSUME NEW o \in more
      PROVE  (\E i \in 0..(W + 1) - 1 : w1[i] = o) \/ (\E k \in 0..V - 1 : v[k] = o.cid)
  <2>1. CASE o \in out
    <3>1. (\E i \in 0..W - 1 : w[i] = o) \/ (\E k \in 0..V - 1 : v[k] = o.cid)
      BY <2>1 DEF Spread
    <3>2. QED
      BY <1>2, <3>1
  <2>2. CASE o = cmd
    BY <1>2, <2>2
  <2>3. QED
    BY <2>1, <2>2
<1>10. \A i \in 1..(W + 1) - 1 : w1[i].cid \notin less
  <2> TAKE i \in 1..(W + 1) - 1
  <2>1. CASE i = W
    BY <2>1
  <2>2. CASE i # W
    <3>1. i \in 1..W - 1 /\ i \in 0..W - 1
      BY <2>2
    <3>2. QED
      BY <3>1 DEF Spread
  <2>3. QED
    BY <2>1, <2>2
<1>11. \A k \in 0..V - 1 : v[k] \in less
  BY <1>7 DEF Spread
<1>12. \A i, j \in 0..V - 1 : v[i] = v[j] => i = j
  BY DEF Spread
<1>13. \A k \in 0..V - 1 : \E o \in more : o.cid = v[k]
  BY <1>7
<1> HIDE DEF more, less
<1>14. Spread(w1, W + 1, v, V, more, less)
  BY <1>3, <1>5, <1>6, <1>8, <1>9, <1>10, <1>11, <1>12, <1>13 DEF Spread
<1>15. QED
  BY <1>14 DEF more, less

(* The first command that waits has run.                                   *)
LEMMA SpreadRun ==
    ASSUME NEW w, NEW W \in Nat, W > 0, NEW v, NEW V \in Nat, NEW out, NEW rn, Spread(w, W, v, V, out, rn)
    PROVE  /\ w[0] \in out
           /\ Spread(w, W, v, V, out, rn \cup {w[0].cid})
<1>1. 0 \in 0..W - 1 /\ \A i \in 1..W - 1 : i \in 0..W - 1 /\ i # 0
  OBVIOUS
<1>2. \A i \in 1..W - 1 : w[i].cid \notin rn \cup {w[0].cid}
  BY <1>1 DEF Spread
<1> DEFINE more == rn \cup {w[0].cid}
<1>3. \A i \in 1..W - 1 : w[i].cid \notin more
  BY <1>2
<1>4. \A k \in 0..V - 1 : v[k] \in more
  BY DEF Spread
<1> HIDE DEF more
<1>5. Spread(w, W, v, V, out, more)
  BY <1>3, <1>4 DEF Spread
<1>6. QED
  BY <1>1, <1>5 DEF Spread, more

(* It is completed.                                                        *)
LEMMA SpreadServe ==
    ASSUME NEW w, NEW W, NEW v, NEW V, NEW out, NEW rn, NEW w1, NEW v1,
           W \in Nat, W > 0, V \in Nat, Spread(w, W, v, V, out, rn),
           Shifted(w1, w, W), Same(v1, v, V), v1[V] = w[0].cid
    PROVE  Spread(w1, W - 1, v1, V + 1, out, rn \cup {w[0].cid})
<1> DEFINE more == rn \cup {w[0].cid}
<1>1. Spread(w, W, v, V, out, more) /\ w[0] \in out /\ w[0].cid \in more
  BY SpreadRun
<1> USE DEF Same, Shifted
<1> HIDE DEF more
<1>2. W - 1 \in Nat /\ \A i \in 0..(W - 1) - 1 : i \in 0..W - 2 /\ i + 1 \in 1..W - 1 /\ i + 1 \in 0..W - 1 /\ i + 1 # 0
  OBVIOUS
<1>3. 0 \in 0..W - 1 /\ V \in 0..(V + 1) - 1 /\ \A k \in 0..V - 1 : k \in 0..(V + 1) - 1
  OBVIOUS
<1>4. \A k \in 0..(V + 1) - 1 : k \in 0..V - 1 \/ k = V
  OBVIOUS
<1>5. \A i \in 0..(W - 1) - 1 : w1[i] = w[i + 1]
  BY <1>2
<1>6. \A i \in 0..(W - 1) - 1 : w1[i] \in out
  BY <1>1, <1>2, <1>5 DEF Spread
<1>7. \A i, j \in 0..(W - 1) - 1 : w1[i].cid = w1[j].cid => i = j
  <2> TAKE i, j \in 0..(W - 1) - 1
  <2>1. w[i + 1].cid = w[j + 1].cid => i + 1 = j + 1
    BY <1>1, <1>2 DEF Spread
  <2>2. QED
    BY <1>5, <2>1
<1>8. \A k \in 0..(V + 1) - 1 : \E o \in out : o.cid = v1[k]
  BY <1>1, <1>4 DEF Spread
<1>9. \A k \in 0..V - 1 : v1[k] # w[0].cid
  BY <1>1, <1>3 DEF Spread
<1>10. \A k, l \in 0..(V + 1) - 1 : v1[k] = v1[l] => k = l
  <2>1. \A k, l \in 0..V - 1 : v1[k] = v1[l] => k = l
    BY <1>1 DEF Spread
  <2>2. QED
    BY <1>4, <1>9, <2>1
<1>11. \A i \in 0..(W - 1) - 1 : w1[i].cid # w[0].cid
  BY <1>1, <1>2, <1>3, <1>5 DEF Spread
<1>12. \A i \in 0..(W - 1) - 1, k \in 0..(V + 1) - 1 : w1[i].cid # v1[k]
  <2>1. \A i \in 0..(W - 1) - 1, k \in 0..V - 1 : w1[i].cid # v1[k]
    BY <1>1, <1>2, <1>5 DEF Spread
  <2>2. QED
    BY <1>4, <1>11, <2>1
<1>13. ASSUME NEW o \in out
       PROVE  (\E i \in 0..(W - 1) - 1 : w1[i] = o) \/ (\E k \in 0..(V + 1) - 1 : v1[k] = o.cid)
  <2>1. CASE \E k \in 0..V - 1 : v[k] = o.cid
    BY <1>3, <2>1
  <2>2. CASE \E i \in 0..W - 1 : w[i] = o
    <3>1. PICK i \in 0..W - 1 : w[i] = o
      BY <2>2
    <3>2. CASE i = 0
      BY <1>3, <3>1, <3>2
    <3>3. CASE i # 0
      <4>1. i - 1 \in 0..(W - 1) - 1 /\ (i - 1) + 1 = i
        BY <3>3
      <4>2. w1[i - 1] = o
        BY <1>5, <3>1, <4>1
      <4>3. QED
        BY <4>1, <4>2
    <3>4. QED
      BY <3>2, <3>3
  <2>3. QED
    BY <1>1, <2>1, <2>2 DEF Spread
<1>14. \A i \in 1..(W - 1) - 1 : w1[i].cid \notin more
  <2> TAKE i \in 1..(W - 1) - 1
  <2>1. i \in 0..(W - 1) - 1 /\ i + 1 \in 1..W - 1
    OBVIOUS
  <2>2. QED
    BY <1>1, <1>5, <2>1 DEF Spread
<1>15. \A k \in 0..(V + 1) - 1 : v1[k] \in more
  BY <1>1, <1>4 DEF Spread
<1>16. \A o, p \in out : o.cid = p.cid => o = p
  BY DEF Spread
<1>17. Spread(w1, W - 1, v1, V + 1, out, more)
  BY <1>6, <1>7, <1>8, <1>10, <1>12, <1>13, <1>14, <1>15, <1>16 DEF Spread
<1>18. QED
  BY <1>17 DEF more

(* The guest takes the first completion.                                   *)
LEMMA SpreadTake ==
    ASSUME NEW w, NEW W \in Nat, NEW v, NEW V \in Nat, V > 0, NEW out, NEW rn, Spread(w, W, v, V, out, rn),
           NEW v1, Shifted(v1, v, V)
    PROVE  Spread(w, W, v1, V - 1, {o \in out : o.cid # v[0]}, rn \ {v[0]})
<1> DEFINE rest == {o \in out : o.cid # v[0]}
           less == rn \ {v[0]}
<1>1. \A o : o \in rest <=> o \in out /\ o.cid # v[0]
  OBVIOUS
<1> HIDE DEF rest
<1> USE DEF Shifted
<1>2. V - 1 \in Nat /\ \A k \in 0..(V - 1) - 1 : k \in 0..V - 2 /\ k + 1 \in 0..V - 1 /\ k + 1 # 0
  OBVIOUS
<1>3. 0 \in 0..V - 1
  OBVIOUS
<1>4. \A k \in 0..(V - 1) - 1 : v1[k] = v[k + 1] /\ v1[k] # v[0]
  BY <1>2, <1>3 DEF Spread
<1>7. \A p, r \in rest : p.cid = r.cid => p = r
  BY <1>1 DEF Spread
<1>8. \A i \in 0..W - 1 : w[i] \in rest
  BY <1>1, <1>3 DEF Spread
<1>9. \A k \in 0..(V - 1) - 1 : \E p \in rest : p.cid = v1[k]
  <2> TAKE k \in 0..(V - 1) - 1
  <2>1. PICK p \in out : p.cid = v[k + 1]
    BY <1>2 DEF Spread
  <2>2. p \in rest /\ p.cid = v1[k]
    BY <1>1, <1>4, <2>1
  <2>3. QED
    BY <2>2
<1>10. \A k, l \in 0..(V - 1) - 1 : v1[k] = v1[l] => k = l
  <2> TAKE k, l \in 0..(V - 1) - 1
  <2>1. v[k + 1] = v[l + 1] => k + 1 = l + 1
    BY <1>2 DEF Spread
  <2>2. QED
    BY <1>4, <2>1
<1>11. \A i \in 0..W - 1, k \in 0..(V - 1) - 1 : w[i].cid # v1[k]
  BY <1>2, <1>4 DEF Spread
<1>12. ASSUME NEW p \in rest
       PROVE  (\E i \in 0..W - 1 : w[i] = p) \/ (\E k \in 0..(V - 1) - 1 : v1[k] = p.cid)
  <2>1. (\E i \in 0..W - 1 : w[i] = p) \/ (\E k \in 0..V - 1 : v[k] = p.cid)
    BY <1>1 DEF Spread
  <2>2. ASSUME NEW k \in 0..V - 1, v[k] = p.cid
        PROVE  \E l \in 0..(V - 1) - 1 : v1[l] = p.cid
    <3>1. k # 0
      BY <1>1, <2>2
    <3>2. k - 1 \in 0..(V - 1) - 1 /\ (k - 1) + 1 = k
      BY <3>1
    <3>3. v1[k - 1] = p.cid
      BY <1>4, <2>2, <3>2
    <3>4. QED
      BY <3>2, <3>3
  <2>3. QED
    BY <2>1, <2>2
<1>13. \A i \in 1..W - 1 : w[i].cid \notin less
  BY DEF Spread
<1>14. \A k \in 0..(V - 1) - 1 : v1[k] \in less
  BY <1>2, <1>4 DEF Spread
<1> HIDE DEF less
<1>15. Spread(w, W, v1, V - 1, rest, less)
  BY <1>7, <1>8, <1>9, <1>10, <1>11, <1>12, <1>13, <1>14 DEF Spread
<1>16. QED
  BY <1>15 DEF rest, less

LEMMA SpreadDone ==
    ASSUME NEW w, NEW W \in Nat, NEW v, NEW V \in Nat, V > 0, NEW out, NEW rn, Spread(w, W, v, V, out, rn)
    PROVE  \E o \in out : o.cid = v[0] /\ \A p \in out : p.cid = v[0] => p = o
<1>1. 0 \in 0..V - 1
  OBVIOUS
<1>2. PICK o \in out : o.cid = v[0]
  BY <1>1 DEF Spread
<1>3. \A p \in out : p.cid = v[0] => p = o
  BY <1>2 DEF Spread
<1>4. QED
  BY <1>2, <1>3

(* A list without repetition is no longer than the set it is drawn from.   *)
LEMMA NoMoreThan ==
    ASSUME NEW n \in Nat, NEW C, IsFiniteSet(C), NEW f \in [0..n - 1 -> C],
           \A i, j \in 0..n - 1 : f[i] = f[j] => i = j
    PROVE  n <= Cardinality(C)
<1> DEFINE D == 0..n - 1
<1>1. IsFiniteSet(D) /\ Cardinality(D) = n
  <2>1. 0 \in Int /\ n - 1 \in Int
    OBVIOUS
  <2>2. IsFiniteSet(0..(n - 1)) /\ Cardinality(0..(n - 1)) = IF 0 > n - 1 THEN 0 ELSE (n - 1) - 0 + 1
    BY <2>1, FS_Interval
  <2>3. QED
    BY <2>2
<1>2. f \in Injection(D, C)
  BY DEF Injection, IsInjective
<1> HIDE DEF D
<1>3. QED
  BY <1>1, <1>2, FS_Injection

(* So the commands that are out fit into the rings.                        *)
LEMMA SpreadRoom ==
    ASSUME NEW w, NEW W \in Nat, NEW v, NEW V \in Nat, NEW out, NEW rn, Spread(w, W, v, V, out, rn),
           NEW C, IsFiniteSet(C), \A o \in out : o.cid \in C
    PROVE  W + V <= Cardinality(C)
<1> DEFINE n == W + V
           f == [i \in 0..n - 1 |-> IF i < W THEN w[i].cid ELSE v[i - W]]
<1>1. \A i \in 0..n - 1 : (i < W /\ i \in 0..W - 1) \/ (~(i < W) /\ i - W \in 0..V - 1)
  OBVIOUS
<1>2. \A i \in 0..W - 1 : w[i].cid \in C
  BY DEF Spread
<1>3. \A k \in 0..V - 1 : v[k] \in C
  BY DEF Spread
<1>4. \A i \in 0..n - 1 : f[i] = (IF i < W THEN w[i].cid ELSE v[i - W]) /\ f[i] \in C
  BY <1>1, <1>2, <1>3
<1>5. f \in [0..n - 1 -> C]
  BY <1>4
<1>6. n \in Nat
  OBVIOUS
<1> HIDE DEF f, n
<1>7. ASSUME NEW i \in 0..n - 1, NEW j \in 0..n - 1, f[i] = f[j] PROVE i = j
  <2>1. CASE i < W /\ j < W
    <3>1. i \in 0..W - 1 /\ j \in 0..W - 1 /\ w[i].cid = w[j].cid
      BY <1>1, <1>4, <1>7, <2>1
    <3>2. QED
      BY <3>1 DEF Spread
  <2>2. CASE i < W /\ ~(j < W)
    <3>1. i \in 0..W - 1 /\ j - W \in 0..V - 1 /\ w[i].cid = v[j - W]
      BY <1>1, <1>4, <1>7, <2>2
    <3>2. QED
      BY <3>1 DEF Spread
  <2>3. CASE ~(i < W) /\ j < W
    <3>1. j \in 0..W - 1 /\ i - W \in 0..V - 1 /\ w[j].cid = v[i - W]
      BY <1>1, <1>4, <1>7, <2>3
    <3>2. QED
      BY <3>1 DEF Spread
  <2>4. CASE ~(i < W) /\ ~(j < W)
    <3>1. i - W \in 0..V - 1 /\ j - W \in 0..V - 1 /\ v[i - W] = v[j - W]
      BY <1>1, <1>4, <1>7, <2>4
    <3>2. i - W = j - W
      BY <3>1 DEF Spread
    <3>3. QED
      BY <1>6, <3>2
  <2>5. QED
    BY <2>1, <2>2, <2>3, <2>4
<1>8. n <= Cardinality(C)
  BY <1>5, <1>6, <1>7, NoMoreThan
<1>9. QED
  BY <1>8 DEF n

LEMMA WayType ==
    ASSUME NEW n \in Nat, NEW i \in 0..n - 1, NEW j \in 0..n - 1
    PROVE  Way(n, i, j) \in 0..n - 1 /\ Way(n, i, j) \in Nat /\ (Way(n, i, j) = 0 <=> i = j)
BY DEF Way

LEMMA WayZero ==
    ASSUME NEW n \in Nat, NEW i \in 0..n - 1, NEW j \in 0..n - 1, Way(n, i, j) = 0
    PROVE  i = j
BY DEF Way

LEMMA SpotType ==
    ASSUME NEW n \in Nat, NEW i \in 0..n - 1, NEW k \in 0..n - 1
    PROVE  Spot(n, i, k) \in 0..n - 1
BY DEF Spot

LEMMA SpotWay ==
    ASSUME NEW n \in Nat, NEW i \in 0..n - 1, NEW j \in 0..n - 1
    PROVE  Spot(n, i, Way(n, i, j)) = j
BY DEF Spot, Way

LEMMA SpotFirst ==
    ASSUME NEW n \in Nat, NEW i \in 0..n - 1
    PROVE  Spot(n, i, 0) = i /\ Way(n, i, i) = 0
BY DEF Spot, Way

LEMMA SpotsDiffer ==
    ASSUME NEW n \in Nat, NEW i \in 0..n - 1, NEW k \in 0..n - 1, NEW l \in 0..n - 1,
           Spot(n, i, k) = Spot(n, i, l)
    PROVE  k = l
BY DEF Spot

LEMMA WaysDiffer ==
    ASSUME NEW n \in Nat, NEW i \in 0..n - 1, NEW j \in 0..n - 1, NEW k \in 0..n - 1, j # k
    PROVE  Way(n, i, j) # Way(n, i, k)
BY DEF Way

(* The next entry.                                                         *)
LEMMA NextEntry ==
    ASSUME NEW n \in Nat, NEW i \in 0..n - 1
    PROVE  /\ (i + 1) % n = IF i + 1 < n THEN i + 1 ELSE 0
           /\ (i + 1) % n \in 0..n - 1
<1> DEFINE x == i + 1
<1>1. n \in Nat \ {0} /\ x \in 1..n
  OBVIOUS
<1> HIDE DEF x
<1>2. x % n = IF x < n THEN x ELSE 0
  BY <1>1
<1>3. QED
  BY <1>1, <1>2 DEF x

LEMMA SpotMoves ==
    ASSUME NEW n \in Nat, NEW i \in 0..n - 1, NEW k \in 0..n - 2, NEW e, e = (i + 1) % n
    PROVE  Spot(n, e, k) = Spot(n, i, k + 1)
<1>1. e = IF i + 1 < n THEN i + 1 ELSE 0
  BY NextEntry
<1>2. QED
  BY <1>1 DEF Spot

LEMMA SpotLast ==
    ASSUME NEW n \in Nat, NEW i \in 0..n - 1, NEW e, e = (i + 1) % n
    PROVE  Spot(n, e, n - 1) = i
<1>1. e = IF i + 1 < n THEN i + 1 ELSE 0
  BY NextEntry
<1>2. QED
  BY <1>1 DEF Spot

LEMMA WayShrinks ==
    ASSUME NEW n \in Nat, NEW i \in 0..n - 1, NEW j \in 0..n - 1, i # j, NEW e, e = (i + 1) % n
    PROVE  Way(n, e, j) = Way(n, i, j) - 1
<1>1. e = IF i + 1 < n THEN i + 1 ELSE 0
  BY NextEntry
<1>2. QED
  BY <1>1 DEF Way

LEMMA WayGrows ==
    ASSUME NEW n \in Nat, NEW i \in 0..n - 1, NEW j \in 0..n - 1, Way(n, i, j) + 1 < n,
           NEW e, e = (j + 1) % n
    PROVE  Way(n, i, e) = Way(n, i, j) + 1
<1>1. e = IF j + 1 < n THEN j + 1 ELSE 0
  BY NextEntry
<1>2. QED
  BY <1>1 DEF Way

(* The phase tags: a completion is posted, or taken, or the ring is new.   *)
LEMMA ShowsNew ==
    ASSUME NEW n \in Nat, NEW c, \A i \in 0..n - 1 : c[i].phase = FALSE
    PROVE  Shows(n, c, 0, TRUE, 0)
<1>1. \A k \in 0..n - 1 : Spot(n, 0, k) = k /\ PhaseOf(n, 0, TRUE, k) = TRUE /\ ~(k < 0)
  BY DEF Spot, PhaseOf
<1>2. QED
  BY <1>1 DEF Shows

(* In entry t, the one after the V that are new, c becomes d with the next *)
(* phase.                                                                  *)
OneMore(n, c, h, p, V, t, d) ==
    /\ V = Way(n, h, t) /\ d[t].phase = PhaseOf(n, h, p, V)
    /\ \A i \in 0..n - 1 : i # t => d[i].phase = c[i].phase

LEMMA ShowsPosted ==
    ASSUME NEW n \in Nat, NEW c, NEW h \in 0..n - 1, NEW p \in BOOLEAN, NEW V \in Nat, V + 1 < n,
           Shows(n, c, h, p, V), NEW t \in 0..n - 1, NEW d, OneMore(n, c, h, p, V, t, d)
    PROVE  Shows(n, d, h, p, V + 1)
<1> USE DEF OneMore
<1>1. Spot(n, h, V) = t /\ V \in 0..n - 1
  <2>1. Spot(n, h, Way(n, h, t)) = t
    BY SpotWay
  <2>2. QED
    BY <2>1
<1>2. ASSUME NEW k \in 0..n - 1
      PROVE  d[Spot(n, h, k)].phase = PhaseOf(n, h, p, k) <=> k < V + 1
  <2>1. CASE k = V
    BY <1>1, <2>1
  <2>2. CASE k # V
    <3>1. Spot(n, h, k) # t /\ Spot(n, h, k) \in 0..n - 1
      BY <1>1, <2>2, SpotsDiffer, SpotType
    <3>2. d[Spot(n, h, k)].phase = c[Spot(n, h, k)].phase
      BY <3>1
    <3>3. c[Spot(n, h, k)].phase = PhaseOf(n, h, p, k) <=> k < V
      BY DEF Shows
    <3>4. k < V <=> k < V + 1
      BY <2>2
    <3>5. QED
      BY <3>2, <3>3, <3>4
  <2>3. QED
    BY <2>1, <2>2
<1>3. QED
  BY <1>2 DEF Shows

LEMMA PhasePosted ==
    ASSUME NEW n \in Nat, NEW h \in 0..n - 1, NEW p \in BOOLEAN, NEW V \in Nat, V + 1 < n,
           NEW t \in 0..n - 1, V = Way(n, h, t), NEW r, r = PhaseOf(n, h, p, V)
    PROVE  (IF t + 1 = n THEN ~r ELSE r) = PhaseOf(n, h, p, V + 1)
<1>1. CASE h + V < n
  <2>1. t = h + V
    BY <1>1 DEF Way
  <2>2. t + 1 = n <=> ~(h + (V + 1) < n)
    BY <1>1, <2>1
  <2>3. QED
    BY <1>1, <2>2 DEF PhaseOf
<1>2. CASE ~(h + V < n)
  <2>1. t + 1 # n /\ ~(h + (V + 1) < n)
    BY <1>2 DEF Way
  <2>2. QED
    BY <1>2, <2>1 DEF PhaseOf
<1>3. QED
  BY <1>1, <1>2

LEMMA PhaseTaken ==
    ASSUME NEW n \in Nat, NEW h \in 0..n - 1, NEW p \in BOOLEAN, NEW k \in 0..n - 2,
           NEW e, e = (h + 1) % n, NEW s \in BOOLEAN, h + 1 = n => s = ~p, h + 1 # n => s = p
    PROVE  PhaseOf(n, e, s, k) = PhaseOf(n, h, p, k + 1)
<1>1. e = IF h + 1 < n THEN h + 1 ELSE 0
  BY NextEntry
<1>2. CASE h + 1 < n
  <2>1. e = h + 1 /\ s = p /\ (e + k < n <=> h + (k + 1) < n)
    BY <1>1, <1>2
  <2>2. QED
    BY <2>1 DEF PhaseOf
<1>3. CASE ~(h + 1 < n)
  <2>1. e = 0 /\ s = ~p /\ e + k < n /\ ~(h + (k + 1) < n)
    BY <1>1, <1>3
  <2>2. QED
    BY <2>1 DEF PhaseOf
<1>4. QED
  BY <1>2, <1>3

SamePhases(n, d, c) == \A i \in 0..n - 1 : d[i].phase = c[i].phase
Flips(n, h, p, s)   == (h + 1 = n => s = ~p) /\ (h + 1 # n => s = p)

LEMMA ShowsTaken ==
    ASSUME NEW n, NEW c, NEW h, NEW p, NEW V, NEW d, NEW s,
           n \in Nat, h \in 0..n - 1, p \in BOOLEAN, V \in 1..n - 1, s \in BOOLEAN,
           Shows(n, c, h, p, V), SamePhases(n, d, c), Flips(n, h, p, s)
    PROVE  Shows(n, d, (h + 1) % n, s, V - 1)
<1> DEFINE e == (h + 1) % n
<1> USE DEF SamePhases, Flips
<1>0. e = (h + 1) % n
  OBVIOUS
<1>1. e = (IF h + 1 < n THEN h + 1 ELSE 0) /\ e \in 0..n - 1
  BY NextEntry
<1> HIDE DEF e
<1>2. ASSUME NEW k \in 0..n - 1
      PROVE  d[Spot(n, e, k)].phase = PhaseOf(n, e, s, k) <=> k < V - 1
  <2>1. CASE k = n - 1
    <3>1. Spot(n, e, k) = h
      BY <1>0, <2>1, SpotLast
    <3>2. c[h].phase = p
      <4>1. Spot(n, h, 0) = h /\ PhaseOf(n, h, p, 0) = p /\ 0 \in 0..n - 1 /\ 0 < V
        BY SpotFirst DEF PhaseOf
      <4>2. QED
        BY <4>1 DEF Shows
    <3>3. PhaseOf(n, e, s, k) = ~p
      <4>1. CASE h + 1 < n
        <5>1. ~(e + k < n) /\ s = p
          BY <1>1, <2>1, <4>1
        <5>2. QED
          BY <5>1 DEF PhaseOf
      <4>2. CASE ~(h + 1 < n)
        <5>1. e + k < n /\ s = ~p
          BY <1>1, <2>1, <4>2
        <5>2. QED
          BY <5>1 DEF PhaseOf
      <4>3. QED
        BY <4>1, <4>2
    <3>4. ~(k < V - 1)
      BY <2>1
    <3>5. h \in 0..n - 1 /\ d[h].phase = p
      BY <3>2
    <3>6. d[Spot(n, e, k)].phase # PhaseOf(n, e, s, k)
      BY <3>1, <3>3, <3>5
    <3>7. QED
      BY <3>4, <3>6
  <2>2. CASE k # n - 1
    <3>1. k \in 0..n - 2 /\ k + 1 \in 0..n - 1 /\ (k + 1 < V <=> k < V - 1)
      BY <2>2
    <3>2. Spot(n, e, k) = Spot(n, h, k + 1) /\ Spot(n, h, k + 1) \in 0..n - 1
      BY <1>0, <3>1, SpotMoves, SpotType
    <3>3. PhaseOf(n, e, s, k) = PhaseOf(n, h, p, k + 1)
      BY <1>0, <3>1, PhaseTaken
    <3>4. c[Spot(n, h, k + 1)].phase = PhaseOf(n, h, p, k + 1) <=> k + 1 < V
      BY <3>1 DEF Shows
    <3>5. QED
      BY <3>1, <3>2, <3>3, <3>4
  <2>3. QED
    BY <2>1, <2>2
<1>3. QED
  BY <1>2 DEF Shows, e

(* A queue x with its device side r, its guest side g, the rings s and c   *)
(* and the commands rn that have run.                                      *)
WaitList(x, r, s)  == [i \in Ring(x) |-> s[Spot(Depth(x), r.head, i)]]
SeenList(x, g, c)  == [k \in Ring(x) |-> c[Spot(Depth(x), g.head, k)].cid]
Waits(x, r, g)     == Way(Depth(x), r.head, g.tail)
Seen(x, r, g)      == Way(Depth(x), g.head, r.cqTail)
Taken(x, r)        == Way(Depth(x), r.head, r.tail)      \* known to the device
Announced(x, r, g) == Way(Depth(x), r.head, g.rung)      \* rung by the guest

Lane(x, r, g, s, c, rn) ==
    /\ r.valid /\ r.cqOn
    /\ r.head \in Ring(x) /\ r.tail \in Ring(x) /\ r.cqTail \in Ring(x)
    /\ g.head \in Ring(x) /\ g.tail \in Ring(x) /\ g.rung \in Ring(x)
    /\ \A o \in g.out : o.cid \in Cid(x) /\ (x # 0 => o.op = "IO" /\ o.arg = 0)
    /\ Spread(WaitList(x, r, s), Waits(x, r, g), SeenList(x, g, c), Seen(x, r, g), g.out, rn)
    /\ Shows(Depth(x), c, g.head, g.phase, Seen(x, r, g))
    /\ r.phase = PhaseOf(Depth(x), g.head, g.phase, Seen(x, r, g))
    /\ Taken(x, r) <= Announced(x, r, g) /\ Announced(x, r, g) <= Waits(x, r, g)

(* The completion ring shows nothing, and the device is at its start.      *)
Old(x, g, c) == g.head \in Ring(x) /\ Shows(Depth(x), c, g.head, g.phase, 0)
Primed(r, g) == r.cqOn /\ r.cqTail = g.head /\ r.phase = g.phase

(* A queue in each stage of its life; one that is not live has nothing out *)
(* and, if it is being served, nothing to serve.                           *)
StageInv(x, r, g, s, c, rn, served) ==
    /\ g.stage \in {"none", "busy", "cq", "live"}
    /\ g.stage = "live" => Lane(x, r, g, s, c, rn)
    /\ g.stage # "live" => g.out = {} /\ g.rung = g.tail /\ (served => r.head = r.tail)
    /\ g.stage \in {"busy", "cq"} => Old(x, g, c)
    /\ g.stage = "cq" => Primed(r, g)

Served(x) == run.on /\ run.q = x
Stages == \A x \in Queue : StageInv(x, q[x], guest[x], sq[x], cq[x], ran[x], Served(x))

(* An admin command that is out, the queue it is about, and what it has    *)
(* done to it when its completion is there.                                *)
Completed(o) == \E k \in 0..Seen(0, q[0], guest[0]) - 1 : SeenList(0, guest[0], cq[0])[k] = o.cid

Errand(o, r, g, done) ==
    /\ o.arg \in IoQ /\ g.stage = "busy"
    /\ o.op \in {"CREATE_CQ", "CREATE_SQ", "DELETE_CQ", "DELETE_SQ"}
    /\ o.op = "CREATE_CQ" => g.head = 0 /\ g.phase = TRUE /\ (done => Primed(r, g))
    /\ o.op \in {"CREATE_SQ", "DELETE_SQ"} => Primed(r, g)
    /\ o.op = "CREATE_SQ" => /\ g.tail = 0 /\ g.rung = 0
                             /\ done => r.valid /\ r.head = 0 /\ r.tail = 0

Errands ==
    /\ guest[0].stage \in {"none", "live"}
    /\ \A o \in guest[0].out : Errand(o, q[o.arg], guest[o.arg], Completed(o))
    /\ \A o, p \in guest[0].out : o.arg = p.arg => o = p

(* Doorbells travel in order, and announce more than the device has taken. *)
Offset(b, r) == Way(Depth(b.q), r.head, b.tail)

BellInv(b, r, g) ==
    /\ b.q \in Queue /\ g.stage = "live" /\ b.tail \in Ring(b.q)
    /\ Taken(b.q, r) < Offset(b, r) /\ Offset(b, r) <= Announced(b.q, r, g)

BellsInv ==
    /\ \A i \in 1..Len(bells) : BellInv(bells[i], q[bells[i].q], guest[bells[i].q])
    /\ \A i, j \in 1..Len(bells) :
          i < j /\ bells[i].q = bells[j].q =>
              Offset(bells[i], q[bells[i].q]) < Offset(bells[j], q[bells[i].q])

QueueFields == {"sqOn", "cqOn", "head", "tail", "cqTail", "phase", "valid"}

Shapes ==
    /\ DOMAIN q = Queue /\ DOMAIN sq = Queue /\ DOMAIN ran = Queue
    /\ \A x \in Queue : DOMAIN q[x] = QueueFields /\ DOMAIN sq[x] = Ring(x) /\ DOMAIN cq[x] = Ring(x)
    /\ \A x \in Queue : guest[x].phase \in BOOLEAN
    /\ \A x \in Queue : \A i \in Ring(x) : DOMAIN cq[x][i] = {"cid", "phase"}
    /\ (run.on => run.q \in Queue) /\ bells \in Seq([q : Queue, tail : Nat])

AccInv == Shapes /\ Stages /\ Errands /\ BellsInv

LEMMA DepthFacts ==
    ASSUME NEW x \in Queue
    PROVE  /\ Depth(x) \in Nat /\ Depth(x) > 0 /\ 0 \in Ring(x) /\ Ring(x) = 0..Depth(x) - 1
           /\ IsFiniteSet(Cid(x)) /\ Cardinality(Cid(x)) \in Nat /\ Cardinality(Cid(x)) < Depth(x)
<1>1. /\ Depth(x) \in Nat /\ IsFiniteSet(Cid(x)) /\ Cardinality(Cid(x)) \in Nat
      /\ Cardinality(Cid(x)) < Depth(x)
  BY VfioAssumption, FS_CardinalityType
<1>2. QED
  BY <1>1 DEF Ring

(* What a live queue has out fits into its rings.                          *)
LEMMA LaneRoom ==
    ASSUME NEW x \in Queue, NEW r, NEW g, NEW s, NEW c, NEW rn, Lane(x, r, g, s, c, rn)
    PROVE  /\ Waits(x, r, g) \in Ring(x) /\ Waits(x, r, g) \in Nat
           /\ Seen(x, r, g) \in Ring(x) /\ Seen(x, r, g) \in Nat
           /\ Waits(x, r, g) + Seen(x, r, g) < Depth(x)
           /\ Taken(x, r) \in Nat /\ Announced(x, r, g) \in Nat
<1> DEFINE W == Waits(x, r, g)
           V == Seen(x, r, g)
<1>1. W \in Ring(x) /\ W \in Nat /\ V \in Ring(x) /\ V \in Nat /\ Taken(x, r) \in Nat /\ Announced(x, r, g) \in Nat
  <2> DEFINE n == Depth(x)
  <2>1. /\ n \in Nat /\ Ring(x) = 0..n - 1 /\ r.head \in 0..n - 1 /\ r.tail \in 0..n - 1
        /\ r.cqTail \in 0..n - 1 /\ g.head \in 0..n - 1 /\ g.tail \in 0..n - 1 /\ g.rung \in 0..n - 1
    BY DepthFacts DEF Lane
  <2>2. /\ W = Way(n, r.head, g.tail) /\ V = Way(n, g.head, r.cqTail)
        /\ Taken(x, r) = Way(n, r.head, r.tail) /\ Announced(x, r, g) = Way(n, r.head, g.rung)
    BY DEF Waits, Seen, Taken, Announced
  <2> HIDE DEF n, W, V
  <2>3. Way(n, r.head, g.tail) \in 0..n - 1 /\ Way(n, r.head, g.tail) \in Nat
    BY <2>1, WayType
  <2>4. Way(n, g.head, r.cqTail) \in 0..n - 1 /\ Way(n, g.head, r.cqTail) \in Nat
    BY <2>1, WayType
  <2>5. Way(n, r.head, r.tail) \in Nat /\ Way(n, r.head, g.rung) \in Nat
    BY <2>1, WayType
  <2>6. QED
    BY <2>1, <2>2, <2>3, <2>4, <2>5
<1> HIDE DEF W, V
<1>2. W + V <= Cardinality(Cid(x))
  <2>1. /\ Spread(WaitList(x, r, s), W, SeenList(x, g, c), V, g.out, rn)
        /\ \A o \in g.out : o.cid \in Cid(x)
    BY DEF Lane, W, V
  <2>2. IsFiniteSet(Cid(x))
    BY DepthFacts
  <2>3. QED
    BY <1>1, <2>1, <2>2, SpreadRoom
<1>3. W + V < Depth(x)
  BY <1>1, <1>2, DepthFacts
<1>4. QED
  BY <1>1, <1>3 DEF W, V

(* A queue that is created starts empty.                                   *)
LEMMA LaneStart ==
    ASSUME NEW x \in Queue, NEW r, NEW g, NEW s, NEW c, NEW rn,
           r.valid, r.head = 0, r.tail = 0, Primed(r, g), Old(x, g, c),
           g.tail = 0, g.rung = 0, g.out = {}, g.phase \in BOOLEAN
    PROVE  Lane(x, r, g, s, c, rn)
<1>1. Depth(x) \in Nat /\ 0 \in Ring(x) /\ Ring(x) = 0..Depth(x) - 1 /\ Depth(x) > 0
  BY DepthFacts
<1>2. g.head \in Ring(x) /\ r.cqTail = g.head
  BY DEF Old, Primed
<1>3. Waits(x, r, g) = 0 /\ Seen(x, r, g) = 0 /\ Taken(x, r) = 0 /\ Announced(x, r, g) = 0
  BY <1>1, <1>2, SpotFirst DEF Waits, Seen, Taken, Announced
<1>4. Spread(WaitList(x, r, s), 0, SeenList(x, g, c), 0, {}, rn)
  BY SpreadNone
<1>5. PhaseOf(Depth(x), g.head, g.phase, 0) = g.phase
  BY <1>1, <1>2 DEF PhaseOf
<1>6. QED
  BY <1>1, <1>2, <1>3, <1>4, <1>5 DEF Lane, Old, Primed

(* One that has nothing out is as it was when it was created.              *)
LEMMA LaneIdle ==
    ASSUME NEW x \in Queue, NEW r, NEW g, NEW s, NEW c, NEW rn, Lane(x, r, g, s, c, rn), g.out = {}
    PROVE  /\ Primed(r, g) /\ Old(x, g, c) /\ r.head = r.tail /\ g.rung = g.tail
           /\ Taken(x, r) = 0 /\ Announced(x, r, g) = 0
<1>1. Depth(x) \in Nat /\ Ring(x) = 0..Depth(x) - 1
  BY DepthFacts
<1>2. Waits(x, r, g) = 0 /\ Seen(x, r, g) = 0
  <2>1. Spread(WaitList(x, r, s), Waits(x, r, g), SeenList(x, g, c), Seen(x, r, g), {}, rn)
    BY DEF Lane
  <2>2. QED
    BY <2>1, LaneRoom, SpreadEmpty
<1>3. Taken(x, r) = 0 /\ Announced(x, r, g) = 0
  BY <1>2, LaneRoom DEF Lane
<1>4. r.cqTail = g.head /\ r.head = r.tail /\ g.rung = g.tail
  <2> DEFINE n == Depth(x)
  <2>1. /\ n \in Nat /\ r.head \in 0..n - 1 /\ r.tail \in 0..n - 1
        /\ r.cqTail \in 0..n - 1 /\ g.head \in 0..n - 1 /\ g.rung \in 0..n - 1 /\ g.tail \in 0..n - 1
    BY <1>1 DEF Lane
  <2>2. /\ Way(n, g.head, r.cqTail) = 0 /\ Way(n, r.head, r.tail) = 0
        /\ Way(n, r.head, g.rung) = 0 /\ Way(n, r.head, g.tail) = 0
    BY <1>2, <1>3 DEF Seen, Taken, Announced, Waits
  <2> HIDE DEF n
  <2>3. g.head = r.cqTail
    BY <2>1, <2>2, WayZero
  <2>4. r.head = r.tail
    BY <2>1, <2>2, WayZero
  <2>5. r.head = g.rung
    BY <2>1, <2>2, WayZero
  <2>6. r.head = g.tail
    BY <2>1, <2>2, WayZero
  <2>7. QED
    BY <2>3, <2>4, <2>5, <2>6
<1>5. PhaseOf(Depth(x), g.head, g.phase, 0) = g.phase
  BY <1>1 DEF PhaseOf, Lane
<1>6. QED
  BY <1>2, <1>3, <1>4, <1>5 DEF Lane, Old, Primed

(* Command cmd is put at the guest's tail: g and s become h and t.         *)
Submits(x, g, s, cmd, h, t) ==
    /\ cmd.cid \in Cid(x) /\ (x # 0 => cmd.op = "IO" /\ cmd.arg = 0)
    /\ \A o \in g.out : o.cid # cmd.cid
    /\ h.tail = (g.tail + 1) % Depth(x) /\ h.out = g.out \cup {cmd}
    /\ h.head = g.head /\ h.phase = g.phase /\ h.rung = g.rung
    /\ t[g.tail] = cmd
    /\ \A i \in Ring(x) : i # g.tail => t[i] = s[i]

LEMMA LaneSubmit ==
    ASSUME NEW x \in Queue, NEW r, NEW g, NEW s, NEW c, NEW rn, Lane(x, r, g, s, c, rn),
           NEW cmd, NEW h, NEW t, Submits(x, g, s, cmd, h, t)
    PROVE  Lane(x, r, h, t, c, rn \ {cmd.cid})
<1> DEFINE n == Depth(x)
           W == Waits(x, r, g)
           V == Seen(x, r, g)
           w == WaitList(x, r, s)
           u == WaitList(x, r, t)
           v == SeenList(x, g, c)
<1> USE DEF Submits
<1>1. n \in Nat /\ Ring(x) = 0..n - 1 /\ n > 0
  BY DepthFacts
<1>2. W \in 0..n - 1 /\ W \in Nat /\ V \in Nat /\ V \in 0..n - 1 /\ Taken(x, r) \in Nat /\ Announced(x, r, g) \in Nat
  BY <1>1, LaneRoom
<1>3. r.head \in 0..n - 1 /\ g.tail \in 0..n - 1 /\ W = Way(n, r.head, g.tail)
  BY <1>1 DEF Lane, Waits
<1>4. \A i \in 0..n - 1 : w[i] = s[Spot(n, r.head, i)] /\ u[i] = t[Spot(n, r.head, i)]
  BY <1>1 DEF WaitList
<1>5. Spread(w, W, v, V, g.out, rn)
  BY DEF Lane
<1>6. v = SeenList(x, h, c) /\ V = Seen(x, r, h) /\ Announced(x, r, h) = Announced(x, r, g)
  BY DEF SeenList, Seen, Announced
<1> HIDE DEF n, W, V, w, u, v
<1>7. u[W] = cmd
  <2>1. Spot(n, r.head, W) = g.tail
    BY <1>1, <1>3, SpotWay
  <2>2. QED
    BY <1>2, <1>4, <2>1
<1>8. ASSUME NEW i \in 0..W - 1 PROVE u[i] = w[i]
  <2>1. i \in 0..n - 1 /\ i # W
    BY <1>1, <1>2
  <2>2. Spot(n, r.head, i) # g.tail
    <3>1. Spot(n, r.head, W) = g.tail
      BY <1>1, <1>3, SpotWay
    <3>2. QED
      BY <1>1, <1>2, <1>3, <2>1, <3>1, SpotsDiffer
  <2>3. Spot(n, r.head, i) \in 0..n - 1
    BY <1>1, <1>3, <2>1, SpotType
  <2>4. QED
    BY <1>1, <1>4, <2>1, <2>2, <2>3
<1>9. Spread(u, W + 1, v, V, h.out, rn \ {cmd.cid})
  BY <1>2, <1>5, <1>7, <1>8, SpreadSubmit
<1>10. \A o \in h.out : o.cid \in Cid(x) /\ (x # 0 => o.op = "IO" /\ o.arg = 0)
  BY DEF Lane
<1>11. W + 1 < n
  <2>1. W + 1 + V <= Cardinality(Cid(x))
    <3>1. W + 1 \in Nat /\ \A o \in h.out : o.cid \in Cid(x)
      BY <1>2, <1>10
    <3>2. QED
      BY <1>2, <1>9, <3>1, DepthFacts, SpreadRoom
  <2>2. QED
    BY <1>2, <2>1, DepthFacts DEF n
<1>12. Way(n, r.head, h.tail) = W + 1 /\ h.tail \in 0..n - 1
  <2>1. h.tail = (g.tail + 1) % n
    BY DEF n
  <2>2. QED
    BY <1>1, <1>3, <1>11, <2>1, WayGrows, NextEntry
<1>13. Waits(x, r, h) = W + 1
  BY <1>12 DEF Waits, n
<1>14. Announced(x, r, h) <= W + 1
  BY <1>2, <1>6 DEF Lane, W
<1>15. QED
  BY <1>1, <1>6, <1>9, <1>10, <1>12, <1>13, <1>14 DEF Lane, n, W, V, u, v

(* The guest rings; the device takes a doorbell.                           *)
LEMMA LaneRing ==
    ASSUME NEW x \in Queue, NEW r, NEW g, NEW s, NEW c, NEW rn, Lane(x, r, g, s, c, rn),
           NEW h, h.rung = g.tail, h.tail = g.tail, h.out = g.out, h.head = g.head, h.phase = g.phase
    PROVE  Lane(x, r, h, s, c, rn) /\ (g.rung # g.tail => Announced(x, r, g) < Announced(x, r, h))
<1>1. /\ Waits(x, r, h) = Waits(x, r, g) /\ Seen(x, r, h) = Seen(x, r, g)
      /\ SeenList(x, h, c) = SeenList(x, g, c) /\ Announced(x, r, h) = Waits(x, r, g)
  BY DEF Waits, Seen, SeenList, Announced
<1>2. Waits(x, r, g) \in Nat /\ Announced(x, r, g) \in Nat /\ Taken(x, r) \in Nat
  BY LaneRoom
<1>3. Taken(x, r) <= Waits(x, r, g)
  BY <1>2 DEF Lane
<1>4. g.rung # g.tail => Announced(x, r, g) # Waits(x, r, g)
  BY DepthFacts, WaysDiffer DEF Lane, Announced, Waits
<1>5. Announced(x, r, g) <= Waits(x, r, g)
  BY DEF Lane
<1>6. Waits(x, r, g) <= Waits(x, r, g)
  BY <1>2
<1>7. Lane(x, r, h, s, c, rn)
  BY <1>1, <1>3, <1>6 DEF Lane
<1>8. QED
  BY <1>1, <1>2, <1>4, <1>5, <1>7

LEMMA LaneDoorbell ==
    ASSUME NEW x \in Queue, NEW r, NEW g, NEW s, NEW c, NEW rn, Lane(x, r, g, s, c, rn),
           NEW t, t.tail \in Ring(x), Way(Depth(x), r.head, t.tail) <= Announced(x, r, g),
           t.head = r.head, t.cqTail = r.cqTail, t.phase = r.phase, t.valid = r.valid, t.cqOn = r.cqOn
    PROVE  Lane(x, t, g, s, c, rn)
<1>1. /\ Waits(x, t, g) = Waits(x, r, g) /\ Seen(x, t, g) = Seen(x, r, g)
      /\ WaitList(x, t, s) = WaitList(x, r, s) /\ Announced(x, t, g) = Announced(x, r, g)
      /\ Taken(x, t) = Way(Depth(x), r.head, t.tail)
  BY DEF Waits, Seen, WaitList, Announced, Taken
<1>2. QED
  BY <1>1 DEF Lane

(* The command at the head of a live queue with something to serve.        *)
LEMMA LaneFirst ==
    ASSUME NEW x \in Queue, NEW r, NEW g, NEW s, NEW c, NEW rn, Lane(x, r, g, s, c, rn), r.head # r.tail
    PROVE  /\ Waits(x, r, g) > 0 /\ Taken(x, r) > 0
           /\ WaitList(x, r, s)[0] = s[r.head]
           /\ s[r.head] \in g.out /\ Lane(x, r, g, s, c, rn \cup {s[r.head].cid})
<1> DEFINE n == Depth(x)
           W == Waits(x, r, g)
           V == Seen(x, r, g)
           w == WaitList(x, r, s)
           v == SeenList(x, g, c)
           more == rn \cup {w[0].cid}
<1>1. n \in Nat /\ Ring(x) = 0..n - 1 /\ n > 0
  BY DepthFacts
<1>2. W \in Nat /\ V \in Nat /\ Taken(x, r) \in Nat /\ Announced(x, r, g) \in Nat
  BY LaneRoom
<1>3. r.head \in 0..n - 1 /\ r.tail \in 0..n - 1 /\ Taken(x, r) = Way(n, r.head, r.tail)
  BY <1>1 DEF Lane, Taken
<1>4. w[0] = s[Spot(n, r.head, 0)]
  BY <1>1 DEF WaitList
<1>5. Spread(w, W, v, V, g.out, rn) /\ Taken(x, r) <= Announced(x, r, g) /\ Announced(x, r, g) <= W
  BY DEF Lane
<1> HIDE DEF n, W, V, w, v
<1>6. w[0] = s[r.head]
  BY <1>1, <1>3, <1>4, SpotFirst
<1>7. Taken(x, r) # 0
  BY <1>1, <1>3, WayZero
<1>8. W > 0 /\ Taken(x, r) > 0
  BY <1>2, <1>5, <1>7
<1>9. w[0] \in g.out /\ Spread(w, W, v, V, g.out, more)
  BY <1>2, <1>5, <1>8, SpreadRun
<1> HIDE DEF more
<1>10. Lane(x, r, g, s, c, more)
  BY <1>9 DEF Lane, n, W, V, w, v
<1>11. QED
  BY <1>6, <1>8, <1>9, <1>10 DEF more, w, W

(* The command at the head of a queue is completed: r, s and c become t, u *)
(* and d.                                                                  *)
Serves(x, r, s, c, t, u, d) ==
    /\ t.head = (r.head + 1) % Depth(x) /\ t.tail = r.tail
    /\ t.cqTail = (r.cqTail + 1) % Depth(x)
    /\ t.phase = IF r.cqTail + 1 = Depth(x) THEN ~r.phase ELSE r.phase
    /\ t.valid = r.valid /\ t.cqOn = r.cqOn
    /\ d[r.cqTail].cid = s[r.head].cid /\ d[r.cqTail].phase = r.phase
    /\ \A i \in Ring(x) : i # r.cqTail => d[i] = c[i]
    /\ \A i \in Ring(x) : i # r.head => u[i] = s[i]

Advances(x, r, g, c, t, d, cid) ==
    /\ Seen(x, t, g) = Seen(x, r, g) + 1
    /\ \A k \in 0..Seen(x, r, g) - 1 : SeenList(x, g, d)[k] = SeenList(x, g, c)[k]
    /\ SeenList(x, g, d)[Seen(x, r, g)] = cid
    /\ \A j \in Ring(x) : j # r.head => Way(Depth(x), t.head, j) = Way(Depth(x), r.head, j) - 1

LEMMA LaneServe ==
    ASSUME NEW x \in Queue, NEW r, NEW g, NEW s, NEW c, NEW rn, Lane(x, r, g, s, c, rn), r.head # r.tail,
           g.phase \in BOOLEAN, NEW t, NEW u, NEW d, Serves(x, r, s, c, t, u, d)
    PROVE  /\ Lane(x, t, g, u, d, rn \cup {s[r.head].cid})
           /\ Advances(x, r, g, c, t, d, s[r.head].cid)
<1> DEFINE n == Depth(x)
           W == Waits(x, r, g)
           V == Seen(x, r, g)
           w == WaitList(x, r, s)
           w1 == WaitList(x, t, u)
           v == SeenList(x, g, c)
           v1 == SeenList(x, g, d)
           cid == s[r.head].cid
<1>1. n \in Nat /\ Ring(x) = 0..n - 1 /\ n > 0
  BY DepthFacts
<1>2. W \in 0..n - 1 /\ W \in Nat /\ V \in 0..n - 1 /\ V \in Nat /\ W + V < n /\ Announced(x, r, g) \in Nat
  BY <1>1, LaneRoom
<1>3. /\ r.head \in 0..n - 1 /\ r.tail \in 0..n - 1 /\ r.cqTail \in 0..n - 1
      /\ g.head \in 0..n - 1 /\ g.tail \in 0..n - 1 /\ g.rung \in 0..n - 1
  BY <1>1 DEF Lane
<1>4. /\ W = Way(n, r.head, g.tail) /\ V = Way(n, g.head, r.cqTail)
      /\ Taken(x, r) = Way(n, r.head, r.tail) /\ Announced(x, r, g) = Way(n, r.head, g.rung)
      /\ Waits(x, t, g) = Way(n, t.head, g.tail) /\ Seen(x, t, g) = Way(n, g.head, t.cqTail)
      /\ Taken(x, t) = Way(n, t.head, t.tail) /\ Announced(x, t, g) = Way(n, t.head, g.rung)
  BY DEF Waits, Seen, Taken, Announced
<1>5. \A i \in 0..n - 1 : /\ w[i] = s[Spot(n, r.head, i)] /\ w1[i] = u[Spot(n, t.head, i)]
                          /\ v[i] = c[Spot(n, g.head, i)].cid /\ v1[i] = d[Spot(n, g.head, i)].cid
  BY <1>1 DEF WaitList, SeenList
<1>6. /\ Spread(w, W, v, V, g.out, rn) /\ Taken(x, r) <= Announced(x, r, g) /\ Announced(x, r, g) <= W
      /\ Shows(n, c, g.head, g.phase, V) /\ r.phase = PhaseOf(n, g.head, g.phase, V)
      /\ \A o \in g.out : o.cid \in Cid(x) /\ (x # 0 => o.op = "IO" /\ o.arg = 0)
      /\ r.valid /\ r.cqOn
  BY DEF Lane
<1>7. W > 0 /\ Taken(x, r) > 0 /\ w[0] = s[r.head]
  <2>1. /\ Waits(x, r, g) > 0 /\ Taken(x, r) > 0
        /\ WaitList(x, r, s)[0] = s[r.head]
        /\ s[r.head] \in g.out /\ Lane(x, r, g, s, c, rn \cup {s[r.head].cid})
    <3> HIDE DEF W, V, w, w1, v, v1, n, cid
    <3>1. QED
      BY LaneFirst
  <2>2. QED
    BY <2>1
<1>8. /\ t.head = (r.head + 1) % n /\ t.cqTail = (r.cqTail + 1) % n
      /\ t.phase = (IF r.cqTail + 1 = n THEN ~r.phase ELSE r.phase)
      /\ \A i \in 0..n - 1 : i # r.cqTail => d[i] = c[i]
      /\ \A i \in 0..n - 1 : i # r.head => u[i] = s[i]
      /\ t.tail = r.tail /\ t.valid = r.valid /\ t.cqOn = r.cqOn
      /\ d[r.cqTail].cid = cid /\ d[r.cqTail].phase = r.phase
  BY <1>1 DEF Serves
<1> HIDE DEF n, W, V, w, w1, v, v1
<1>9. t.head \in 0..n - 1 /\ t.cqTail \in 0..n - 1
  BY <1>1, <1>3, <1>8, NextEntry
<1>10. \A j \in 0..n - 1 : j # r.head => Way(n, t.head, j) = Way(n, r.head, j) - 1
  BY <1>1, <1>3, <1>8, WayShrinks
<1>11. g.tail # r.head /\ g.rung # r.head
  <2>1. Way(n, r.head, g.tail) # 0 /\ Way(n, r.head, g.rung) # 0
    BY <1>2, <1>4, <1>6, <1>7, LaneRoom
  <2>2. QED
    BY <1>1, <1>3, <2>1, SpotFirst
<1>12. Waits(x, t, g) = W - 1 /\ Announced(x, t, g) = Announced(x, r, g) - 1 /\ Taken(x, t) = Taken(x, r) - 1
  BY <1>3, <1>4, <1>8, <1>10, <1>11
<1>13. Way(n, g.head, t.cqTail) = V + 1
  <2>1. V + 1 < n
    BY <1>1, <1>2, <1>7
  <2>2. QED
    BY <1>1, <1>3, <1>4, <1>8, <2>1, WayGrows
<1>14. ASSUME NEW i \in 0..W - 2 PROVE w1[i] = w[i + 1]
  <2>1. i \in 0..n - 2 /\ i \in 0..n - 1 /\ i + 1 \in 0..n - 1 /\ i + 1 # 0
    BY <1>1, <1>2
  <2>2. Spot(n, t.head, i) = Spot(n, r.head, i + 1)
    BY <1>1, <1>3, <1>8, <2>1, SpotMoves
  <2>3. Spot(n, r.head, i + 1) \in 0..n - 1
    BY <1>1, <1>3, <2>1, SpotType
  <2>4. Spot(n, r.head, i + 1) # r.head
    <3>1. Spot(n, r.head, 0) = r.head /\ 0 \in 0..n - 1
      BY <1>1, <1>3, SpotFirst
    <3>2. QED
      BY <1>1, <1>3, <2>1, <3>1, SpotsDiffer
  <2>5. w1[i] = u[Spot(n, r.head, i + 1)] /\ w[i + 1] = s[Spot(n, r.head, i + 1)]
    BY <1>5, <2>1, <2>2
  <2>6. QED
    BY <1>8, <2>3, <2>4, <2>5
<1>15. Spot(n, g.head, V) = r.cqTail
  BY <1>1, <1>3, <1>4, SpotWay
<1>16. v1[V] = cid
  BY <1>2, <1>5, <1>8, <1>15
<1>17. ASSUME NEW k \in 0..V - 1 PROVE v1[k] = v[k]
  <2>1. k \in 0..n - 1 /\ k # V
    BY <1>1, <1>2
  <2>2. Spot(n, g.head, k) # r.cqTail /\ Spot(n, g.head, k) \in 0..n - 1
    <3>1. Spot(n, g.head, k) # r.cqTail
      BY <1>1, <1>2, <1>3, <1>15, <2>1, SpotsDiffer
    <3>2. Spot(n, g.head, k) \in 0..n - 1
      BY <1>1, <1>3, <2>1, SpotType
    <3>3. QED
      BY <3>1, <3>2
  <2>3. QED
    BY <1>5, <1>8, <2>1, <2>2
<1>18. Spread(w1, W - 1, v1, V + 1, g.out, rn \cup {cid})
  <2>1. Spread(w, W, v, V, g.out, rn) /\ v1[V] = w[0].cid
    BY <1>6, <1>7, <1>16
  <2>2. Shifted(w1, w, W) /\ Same(v1, v, V)
    BY <1>14, <1>17 DEF Shifted, Same
  <2>3. Spread(w1, W - 1, v1, V + 1, g.out, rn \cup {w[0].cid})
    BY <1>2, <1>7, <2>1, <2>2, SpreadServe
  <2>4. QED
    BY <1>7, <2>3
<1>19. V + 1 < n
  BY <1>1, <1>2, <1>7
<1> DEFINE gh == g.head
           gp == g.phase
           ct == r.cqTail
           rp == r.phase
<1>a. /\ gh \in 0..n - 1 /\ gp \in BOOLEAN /\ ct \in 0..n - 1 /\ V = Way(n, gh, ct)
      /\ Shows(n, c, gh, gp, V) /\ rp = PhaseOf(n, gh, gp, V) /\ d[ct].phase = rp
      /\ t.phase = (IF ct + 1 = n THEN ~rp ELSE rp)
      /\ \A i \in 0..n - 1 : i # ct => d[i].phase = c[i].phase
  BY <1>3, <1>4, <1>6, <1>8
<1>20. Shows(n, d, g.head, g.phase, V + 1)
  <2> HIDE DEF gh, gp, ct, rp
  <2>1. OneMore(n, c, gh, gp, V, ct, d)
    BY <1>a DEF OneMore
  <2>2. Shows(n, d, gh, gp, V + 1)
    <3>1. /\ n \in Nat /\ V \in Nat /\ V + 1 < n /\ gh \in 0..n - 1 /\ gp \in BOOLEAN /\ ct \in 0..n - 1
          /\ Shows(n, c, gh, gp, V)
      BY <1>1, <1>2, <1>a, <1>19
    <3>2. QED
      BY <2>1, <3>1, ShowsPosted
  <2>3. QED
    BY <2>2 DEF gh, gp
<1>21. t.phase = PhaseOf(n, g.head, g.phase, V + 1)
  <2> HIDE DEF gh, gp, ct, rp
  <2>1. (IF ct + 1 = n THEN ~rp ELSE rp) = PhaseOf(n, gh, gp, V + 1)
    BY <1>1, <1>2, <1>a, <1>19, PhasePosted
  <2>2. QED
    BY <1>a, <2>1 DEF gh, gp
<1>22. Taken(x, t) <= Announced(x, t, g) /\ Announced(x, t, g) <= W - 1
  BY <1>2, <1>6, <1>12, LaneRoom
<1>23. Lane(x, t, g, u, d, rn \cup {cid})
  <2> HIDE DEF cid
  <2>1. QED
    BY <1>1, <1>3, <1>4, <1>6, <1>8, <1>9, <1>12, <1>13, <1>18, <1>20, <1>21, <1>22
       DEF Lane, n, v1, w1
<1>24. QED
  BY <1>1, <1>4, <1>10, <1>13, <1>16, <1>17, <1>23 DEF n, V, v, v1, cid, Advances

(* The guest takes a completion.                                           *)
Takes(x, g, c, h, d) ==
    /\ c[g.head].phase = g.phase
    /\ h.head = (g.head + 1) % Depth(x)
    /\ g.head + 1 = Depth(x) => h.phase = ~g.phase
    /\ g.head + 1 # Depth(x) => h.phase = g.phase
    /\ h.tail = g.tail /\ h.rung = g.rung
    /\ \A o : o \in h.out <=> o \in g.out /\ o.cid # c[g.head].cid
    /\ \A i \in Ring(x) : d[i].phase = c[i].phase /\ (i # g.head => d[i].cid = c[i].cid)

Drops(x, r, g, c, h, d) ==
    /\ \E o \in g.out : o.cid = c[g.head].cid /\ \A p \in g.out : p.cid = c[g.head].cid => p = o
    /\ Seen(x, r, g) \in Nat /\ Seen(x, r, g) > 0 /\ SeenList(x, g, c)[0] = c[g.head].cid
    /\ Seen(x, r, h) = Seen(x, r, g) - 1
    /\ \A k \in 0..Seen(x, r, g) - 2 : SeenList(x, h, d)[k] = SeenList(x, g, c)[k + 1]

LEMMA LaneTake ==
    ASSUME NEW x \in Queue, NEW r, NEW g, NEW s, NEW c, NEW rn, Lane(x, r, g, s, c, rn),
           g.phase \in BOOLEAN, NEW h, h.phase \in BOOLEAN, NEW d, Takes(x, g, c, h, d)
    PROVE  /\ Lane(x, r, h, s, d, rn \ {c[g.head].cid})
           /\ Drops(x, r, g, c, h, d)
<1> DEFINE n == Depth(x)
           W == Waits(x, r, g)
           V == Seen(x, r, g)
           w == WaitList(x, r, s)
           v == SeenList(x, g, c)
           v1 == SeenList(x, h, d)
           cid == c[g.head].cid
<1>1. n \in Nat /\ Ring(x) = 0..n - 1 /\ n > 0
  BY DepthFacts
<1>2. W \in Nat /\ V \in 0..n - 1 /\ V \in Nat
  BY <1>1, LaneRoom
<1>3. g.head \in 0..n - 1 /\ r.cqTail \in 0..n - 1 /\ r.head \in 0..n - 1
  BY <1>1 DEF Lane
<1>4. /\ V = Way(n, g.head, r.cqTail) /\ Seen(x, r, h) = Way(n, h.head, r.cqTail)
      /\ Waits(x, r, h) = W /\ Announced(x, r, h) = Announced(x, r, g)
  BY DEF Waits, Seen, Announced, Takes
<1>5. \A i \in 0..n - 1 : v[i] = c[Spot(n, g.head, i)].cid /\ v1[i] = d[Spot(n, h.head, i)].cid
  BY <1>1 DEF SeenList
<1>6. /\ Spread(w, W, v, V, g.out, rn)
      /\ Shows(n, c, g.head, g.phase, V) /\ r.phase = PhaseOf(n, g.head, g.phase, V)
  BY DEF Lane
<1>7. /\ h.head = (g.head + 1) % n /\ (g.head + 1 = n => h.phase = ~g.phase)
      /\ (g.head + 1 # n => h.phase = g.phase)
      /\ \A i \in 0..n - 1 : d[i].phase = c[i].phase /\ (i # g.head => d[i].cid = c[i].cid)
      /\ \A o : o \in h.out <=> o \in g.out /\ o.cid # cid
      /\ h.tail = g.tail /\ h.rung = g.rung /\ c[g.head].phase = g.phase
  BY <1>1 DEF Takes
<1> HIDE DEF n, W, V, w, v, v1
<1> DEFINE gh == g.head
           gp == g.phase
           e  == h.head
           ep == h.phase
<1>a. /\ gh \in 0..n - 1 /\ gp \in BOOLEAN /\ e = (gh + 1) % n /\ ep \in BOOLEAN
      /\ (gh + 1 = n => ep = ~gp) /\ (gh + 1 # n => ep = gp)
      /\ Shows(n, c, gh, gp, V)
  BY <1>3, <1>6, <1>7
<1>8. Spot(n, g.head, 0) = g.head /\ 0 \in 0..n - 1 /\ PhaseOf(n, g.head, g.phase, 0) = g.phase
  BY <1>1, <1>3, SpotFirst DEF PhaseOf
<1>9. V > 0 /\ V \in 1..n - 1
  <2>1. 0 < V
    BY <1>6, <1>7, <1>8 DEF Shows
  <2>2. QED
    BY <1>1, <1>2, <2>1
<1>10. v[0] = cid
  BY <1>5, <1>8
<1>11. h.head \in 0..n - 1
  BY <1>1, <1>3, <1>7, NextEntry
<1>12. Way(n, h.head, r.cqTail) = V - 1
  <2>1. g.head # r.cqTail
    BY <1>1, <1>3, <1>4, <1>9, SpotFirst
  <2>2. QED
    BY <1>1, <1>3, <1>4, <1>7, <2>1, WayShrinks
<1>13. ASSUME NEW k \in 0..V - 2 PROVE v1[k] = v[k + 1]
  <2>1. k \in 0..n - 2 /\ k \in 0..n - 1 /\ k + 1 \in 0..n - 1 /\ k + 1 # 0
    BY <1>1, <1>2
  <2>2. Spot(n, h.head, k) = Spot(n, g.head, k + 1)
    <3> HIDE DEF gh, e
    <3>1. Spot(n, e, k) = Spot(n, gh, k + 1)
      BY <1>1, <1>a, <2>1, SpotMoves
    <3>2. QED
      BY <3>1 DEF e, gh
  <2>3. Spot(n, g.head, k + 1) \in 0..n - 1
    BY <1>1, <1>3, <2>1, SpotType
  <2>4. Spot(n, g.head, k + 1) # g.head
    BY <1>1, <1>3, <1>8, <2>1, SpotsDiffer
  <2>5. v1[k] = d[Spot(n, g.head, k + 1)].cid /\ v[k + 1] = c[Spot(n, g.head, k + 1)].cid
    BY <1>5, <2>1, <2>2
  <2>6. QED
    BY <1>7, <2>3, <2>4, <2>5
<1>14. /\ Spread(w, W, v1, V - 1, h.out, rn \ {v[0]})
       /\ \E o \in g.out : o.cid = v[0] /\ \A p \in g.out : p.cid = v[0] => p = o
  <2>1. Shifted(v1, v, V)
    BY <1>13 DEF Shifted
  <2>2. Spread(w, W, v1, V - 1, {o \in g.out : o.cid # v[0]}, rn \ {v[0]})
    BY <1>2, <1>6, <1>9, <2>1, SpreadTake
  <2>3. h.out = {o \in g.out : o.cid # v[0]}
    BY <1>7, <1>10
  <2>4. \E o \in g.out : o.cid = v[0] /\ \A p \in g.out : p.cid = v[0] => p = o
    BY <1>2, <1>6, <1>9, SpreadDone
  <2>5. QED
    BY <2>2, <2>3, <2>4
<1>15. Shows(n, d, h.head, h.phase, V - 1)
  <2> HIDE DEF gh, gp, e, ep
  <2>1. SamePhases(n, d, c) /\ Flips(n, gh, gp, ep)
    BY <1>7, <1>a DEF SamePhases, Flips
  <2>2. Shows(n, d, (gh + 1) % n, ep, V - 1)
    BY <1>1, <1>a, <1>9, <2>1, ShowsTaken
  <2>3. QED
    BY <1>a, <2>2 DEF e, ep
<1>16. r.phase = PhaseOf(n, h.head, h.phase, V - 1)
  <2>1. V - 1 \in 0..n - 2 /\ (V - 1) + 1 = V
    BY <1>1, <1>2, <1>9
  <2>2. PhaseOf(n, h.head, h.phase, V - 1) = PhaseOf(n, g.head, g.phase, (V - 1) + 1)
    <3> HIDE DEF gh, gp, e, ep
    <3>1. PhaseOf(n, e, ep, V - 1) = PhaseOf(n, gh, gp, (V - 1) + 1)
      BY <1>1, <1>a, <2>1, PhaseTaken
    <3>2. QED
      BY <3>1 DEF e, ep, gh, gp
  <2>3. QED
    BY <1>6, <2>1, <2>2
<1>17. \A o \in h.out : o.cid \in Cid(x) /\ (x # 0 => o.op = "IO" /\ o.arg = 0)
  BY <1>7 DEF Lane
<1>18. Spread(w, W, v1, V - 1, h.out, rn \ {cid})
  BY <1>10, <1>14
<1>19. Lane(x, r, h, s, d, rn \ {cid})
  <2> HIDE DEF cid
  <2>1. QED
    BY <1>1, <1>4, <1>7, <1>11, <1>12, <1>15, <1>16, <1>17, <1>18 DEF Lane, n, W, w, v1
<1>20. QED
  BY <1>2, <1>4, <1>9, <1>10, <1>12, <1>13, <1>14, <1>19 DEF V, v, v1, Drops

(* While the guest has nothing of its queues.                              *)
LEMMA NoGuestStage ==
    ASSUME NEW x, NEW r, NEW s, NEW c, NEW rn
    PROVE  StageInv(x, r, NoGuest, s, c, rn, FALSE)
BY DEF StageInv, NoGuest

LEMMA RingShapes ==
    ASSUME NEW x \in Queue
    PROVE  /\ DOMAIN NoRing(x) = Ring(x) /\ NoGuest.phase \in BOOLEAN /\ NoGuest.out = {}
           /\ \A i \in Ring(x) : DOMAIN NoRing(x)[i] = {"cid", "phase"} /\ NoRing(x)[i].phase = FALSE
BY DEF NoRing, NoCpl, NoGuest

(* Nothing is under way.                                                   *)
LEMMA AccQuiet ==
    ASSUME \A x \in Queue : guest[x] = NoGuest, bells = <<>>, ~run.on, Shapes
    PROVE  AccInv
<1>1. Stages
  <2> SUFFICES ASSUME NEW x \in Queue
               PROVE  StageInv(x, q[x], guest[x], sq[x], cq[x], ran[x], Served(x))
    BY DEF Stages
  <2>1. Served(x) = FALSE
    BY DEF Served
  <2>2. QED
    BY <2>1, NoGuestStage
<1>2. Errands
  BY AdminQueue, RingShapes, NoGuestFields DEF Errands
<1>3. BellsInv
  BY DEF BellsInv
<1>4. QED
  BY <1>1, <1>2, <1>3 DEF AccInv

LEMMA EmptyBells == <<>> \in Seq([q : Queue, tail : Nat])
OBVIOUS

LEMMA AccInit == VfioInit => AccInv
<1> SUFFICES ASSUME VfioInit PROVE AccInv
  OBVIOUS
<1>1. \A x \in Queue : DOMAIN NoQueue = QueueFields
  BY DEF NoQueue, QueueFields
<1>2. \A x \in Queue : /\ guest[x] = NoGuest /\ cq[x] = NoRing(x) /\ DOMAIN sq[x] = Ring(x)
                       /\ q[x] = NoQueue
  BY DEF VfioInit
<1>3. DOMAIN q = Queue /\ DOMAIN sq = Queue /\ DOMAIN ran = Queue /\ bells = <<>> /\ ~run.on
  BY DEF VfioInit, NoRun
<1>4. Shapes
  BY <1>1, <1>2, <1>3, RingShapes, EmptyBells DEF Shapes
<1>5. QED
  BY <1>2, <1>3, <1>4, AccQuiet

LEMMA AccForget ==
    ASSUME GuestForgets, bells' = <<>>, UNCHANGED run, ~run.on,
           DOMAIN q' = Queue, \A x \in Queue : DOMAIN q'[x] = QueueFields
    PROVE  AccInv'
<1>1. \A x \in Queue : guest'[x] = NoGuest /\ cq'[x] = NoRing(x) /\ DOMAIN sq'[x] = Ring(x)
  BY DEF GuestForgets
<1>2. DOMAIN sq' = Queue /\ DOMAIN ran' = Queue /\ ~run'.on
  BY DEF GuestForgets
<1>3. Shapes'
  BY <1>1, <1>2, RingShapes, EmptyBells DEF Shapes
<1>4. Stages'
  <2> SUFFICES ASSUME NEW x \in Queue
               PROVE  StageInv(x, q'[x], guest'[x], sq'[x], cq'[x], ran'[x], Served(x)')
    BY DEF Stages
  <2>1. Served(x)' = FALSE
    BY <1>2 DEF Served
  <2>2. QED
    BY <1>1, <2>1, NoGuestStage
<1>5. Errands'
  BY <1>1, AdminQueue, RingShapes, NoGuestFields DEF Errands
<1>6. BellsInv'
  BY DEF BellsInv
<1>7. QED
  BY <1>3, <1>4, <1>5, <1>6 DEF AccInv

(* A step that changes neither the queues nor what is under way; the loop  *)
(* may end.                                                                *)
LEMMA AccSame ==
    ASSUME AccInv, UNCHANGED <<q, guest, sq, cq, ran, bells>>, run' = run \/ ~run'.on
    PROVE  AccInv'
<1>1. Shapes'
  BY DEF AccInv, Shapes
<1>2. Stages'
  <2> SUFFICES ASSUME NEW x \in Queue
               PROVE  StageInv(x, q'[x], guest'[x], sq'[x], cq'[x], ran'[x], Served(x)')
    BY DEF Stages
  <2>1. StageInv(x, q[x], guest[x], sq[x], cq[x], ran[x], Served(x)) /\ (Served(x)' => Served(x))
    BY DEF AccInv, Stages, Served
  <2>2. QED
    BY <2>1 DEF StageInv
<1>3. Errands'
  <2>1. \A o \in guest[0].out : Completed(o)' = Completed(o)
    BY DEF Completed
  <2>2. QED
    BY <2>1 DEF AccInv, Errands
<1>4. BellsInv'
  BY DEF AccInv, BellsInv
<1>5. QED
  BY <1>1, <1>2, <1>3, <1>4 DEF AccInv

(* Writes to the registers of the admin queue, and CC.EN = 1.              *)
LEMMA AccAdmin ==
    ASSUME IrqInv, AccInv, NEW r, q' = [q EXCEPT ![0] = FromRegs(r)], UNCHANGED <<sq, cq, ran, bells, run>>,
           guest[0].stage = "none",
           \/ guest' = guest
           \/ /\ guest' = [guest EXCEPT ![0] = [NoGuest EXCEPT !.stage = "live"]]
              /\ {"ASQ", "ACQ"} \subseteq r
    PROVE  AccInv'
<1> DEFINE f == FromRegs(r)
           live == [NoGuest EXCEPT !.stage = "live"]
<1>1. bells = <<>> /\ ~run.on /\ \A x \in Queue : guest[x] = NoGuest /\ cq[x] = NoRing(x)
  BY DEF IrqInv, Quiet
<1>2. DOMAIN guest = Queue /\ DOMAIN q = Queue /\ \A x \in Queue : DOMAIN q[x] = QueueFields
  BY DEF IrqInv, Fields, AccInv, Shapes
<1>3. q'[0] = f /\ DOMAIN q' = Queue /\ \A x \in Queue \ {0} : q'[x] = q[x]
  BY <1>2, AdminQueue
<1>4. /\ DOMAIN f = QueueFields /\ f.head = 0 /\ f.tail = 0 /\ f.cqTail = 0 /\ f.phase = TRUE /\ f.cqOn = TRUE
      /\ ({"ASQ", "ACQ"} \subseteq r => f.valid)
  <2> DEFINE z == q[0]
  <2>1. DOMAIN z = QueueFields
    BY <1>2, AdminQueue
  <2> HIDE DEF z
  <2> DEFINE y == [z EXCEPT !.head = 0, !.tail = 0, !.cqTail = 0, !.phase = TRUE]
  <2>2. y = Reset0
    BY DEF z, Reset0
  <2>3. DOMAIN y = QueueFields /\ y.head = 0 /\ y.tail = 0 /\ y.cqTail = 0 /\ y.phase = TRUE
    BY <2>1 DEF QueueFields
  <2> HIDE DEF y
  <2>4. f = [y EXCEPT !.sqOn = TRUE, !.cqOn = TRUE, !.valid = {"ASQ", "ACQ"} \subseteq r]
    BY <2>2 DEF FromRegs
  <2> HIDE DEF f
  <2>5. QED
    BY <2>3, <2>4 DEF QueueFields
<1>5. /\ live.stage = "live" /\ live.tail = 0 /\ live.rung = 0 /\ live.head = 0 /\ live.phase = TRUE
      /\ live.out = {}
  BY DEF NoGuest
<1> HIDE DEF f, live
<1>6. /\ guest'[0] = NoGuest \/ (guest'[0] = live /\ f.valid)
      /\ \A x \in Queue \ {0} : guest'[x] = NoGuest
  BY <1>1, <1>2, <1>4, AdminQueue DEF live
<1>7. Shapes'
  <2>1. \A x \in Queue : DOMAIN q'[x] = QueueFields
    BY <1>2, <1>3, <1>4
  <2>2. \A x \in Queue : guest'[x].phase \in BOOLEAN
    BY <1>5, <1>6, RingShapes
  <2>3. QED
    BY <1>3, <2>1, <2>2 DEF AccInv, Shapes
<1>8. ASSUME guest'[0] = live, f.valid
      PROVE  Lane(0, f, live, sq'[0], cq'[0], ran'[0])
  <2>1. Primed(f, live)
    BY <1>4, <1>5 DEF Primed
  <2>2. Old(0, live, NoRing(0))
    <3>1. Depth(0) \in Nat /\ 0 \in Ring(0) /\ Ring(0) = 0..Depth(0) - 1
      BY AdminQueue, DepthFacts
    <3>2. \A i \in 0..Depth(0) - 1 : NoRing(0)[i].phase = FALSE
      BY <3>1, AdminQueue, RingShapes
    <3>3. Shows(Depth(0), NoRing(0), 0, TRUE, 0)
      BY <3>1, <3>2, ShowsNew
    <3>4. QED
      BY <1>5, <3>1, <3>3 DEF Old
  <2>3. cq'[0] = NoRing(0)
    BY <1>1, AdminQueue
  <2>4. live.phase \in BOOLEAN
    BY <1>5
  <2>5. QED
    BY <1>4, <1>5, <1>8, <2>1, <2>2, <2>3, <2>4, AdminQueue, LaneStart
<1>9. Stages'
  <2> SUFFICES ASSUME NEW x \in Queue
               PROVE  StageInv(x, q'[x], guest'[x], sq'[x], cq'[x], ran'[x], Served(x)')
    BY DEF Stages
  <2>1. Served(x)' = FALSE
    BY <1>1 DEF Served
  <2>2. CASE guest'[x] = NoGuest
    <3>1. StageInv(x, q'[x], NoGuest, sq'[x], cq'[x], ran'[x], FALSE)
      BY NoGuestStage
    <3>2. QED
      BY <2>1, <2>2, <3>1
  <2>3. CASE x = 0 /\ guest'[x] = live /\ f.valid
    BY <1>3, <1>5, <1>8, <2>1, <2>3 DEF StageInv
  <2>4. QED
    BY <1>6, <2>2, <2>3
<1>10. Errands'
  BY <1>5, <1>6, AdminQueue, RingShapes, NoGuestFields DEF Errands
<1>11. BellsInv'
  BY <1>1 DEF BellsInv
<1>12. QED
  BY <1>7, <1>9, <1>10, <1>11 DEF AccInv

LEMMA FirstBell ==
    ASSUME NEW S, NEW b \in Seq(S), b # <<>>
    PROVE  /\ Head(b) = b[1] /\ 1 \in 1..Len(b) /\ Tail(b) \in Seq(S)
           /\ \A i \in 1..Len(Tail(b)) : i + 1 \in 1..Len(b) /\ Tail(b)[i] = b[i + 1] /\ 1 < i + 1
OBVIOUS

LEMMA LastBell ==
    ASSUME NEW S, NEW b \in Seq(S), NEW e \in S, NEW a, a = Append(b, e)
    PROVE  /\ a \in Seq(S) /\ Len(b) \in Nat
           /\ \A i \in 1..Len(a) : \/ i \in 1..Len(b) /\ a[i] = b[i]
                                   \/ i = Len(b) + 1 /\ a[i] = e
<1>1. Len(b) \in Nat /\ Len(a) = Len(b) + 1 /\ a \in Seq(S)
  OBVIOUS
<1>2. \A i \in 1..Len(b) : a[i] = b[i]
  OBVIOUS
<1>3. a[Len(b) + 1] = e
  OBVIOUS
<1>4. \A i \in 1..Len(a) : i \in 1..Len(b) \/ i = Len(b) + 1
  BY <1>1
<1>5. QED
  BY <1>1, <1>2, <1>3, <1>4

LEMMA AccDoorbell ==
    ASSUME IrqInv, AccInv, Doorbell
    PROVE  AccInv'
<1>0. PICK b : b = Head(bells)
  OBVIOUS
<1> DEFINE S  == [q : Queue, tail : Nat]
           x  == b.q
           r  == q[x]
           t  == [r EXCEPT !.tail = b.tail]
           n  == Depth(x)
<1>1. /\ bells # <<>> /\ q' = [q EXCEPT ![x].tail = b.tail] /\ bells' = Tail(bells)
      /\ run' = [on |-> q[x].valid /\ q[x].sqOn /\ q[x].cqOn, q |-> x, wrote |-> FALSE]
      /\ UNCHANGED <<sq, cq, guest, ran>>
  BY <1>0 DEF Doorbell
<1>2. bells \in Seq(S)
  BY DEF AccInv, Shapes
<1> HIDE DEF S
<1>3. /\ b = bells[1] /\ 1 \in 1..Len(bells) /\ bells' \in Seq(S)
      /\ \A i \in 1..Len(bells') : i + 1 \in 1..Len(bells) /\ bells'[i] = bells[i + 1] /\ 1 < i + 1
  BY <1>0, <1>1, <1>2, FirstBell
<1>4. BellInv(b, r, guest[x])
  BY <1>3 DEF AccInv, BellsInv
<1>5. /\ x \in Queue /\ guest[x].stage = "live" /\ b.tail \in Ring(x)
      /\ Taken(x, r) < Way(n, r.head, b.tail) /\ Way(n, r.head, b.tail) <= Announced(x, r, guest[x])
  BY <1>4 DEF BellInv, Offset
<1>6. DOMAIN q = Queue /\ DOMAIN r = QueueFields
  BY <1>5 DEF AccInv, Shapes
<1> HIDE DEF x
<1>7. q'[x] = t /\ DOMAIN q' = Queue /\ \A y \in Queue \ {x} : q'[y] = q[y]
  BY <1>1, <1>5, <1>6
<1> HIDE DEF r
<1>8. /\ DOMAIN t = QueueFields /\ t.tail = b.tail /\ t.head = r.head /\ t.cqTail = r.cqTail
      /\ t.phase = r.phase /\ t.valid = r.valid /\ t.cqOn = r.cqOn
  BY <1>6 DEF QueueFields
<1> HIDE DEF t
<1>9. Lane(x, r, guest[x], sq[x], cq[x], ran[x])
  BY <1>5 DEF AccInv, Stages, StageInv, r
<1>10. Lane(x, t, guest[x], sq[x], cq[x], ran[x])
  BY <1>5, <1>8, <1>9, LaneDoorbell DEF n
<1>11. Shapes'
  <2>1. \A y \in Queue : DOMAIN q'[y] = QueueFields
    BY <1>7, <1>8 DEF AccInv, Shapes
  <2>2. run'.q \in Queue
    BY <1>1, <1>5
  <2>3. bells' \in Seq([q : Queue, tail : Nat])
    BY <1>3 DEF S
  <2>4. QED
    BY <1>1, <1>7, <2>1, <2>2, <2>3 DEF AccInv, Shapes
<1>12. Stages'
  <2> SUFFICES ASSUME NEW y \in Queue
               PROVE  StageInv(y, q'[y], guest'[y], sq'[y], cq'[y], ran'[y], Served(y)')
    BY DEF Stages
  <2>1. CASE y = x
    <3>1. StageInv(x, t, guest[x], sq[x], cq[x], ran[x], Served(x)')
      BY <1>5, <1>10 DEF StageInv
    <3>2. QED
      BY <1>1, <1>7, <2>1, <3>1
  <2>2. CASE y # x
    <3>1. Served(y)' = FALSE
      BY <1>1, <2>2 DEF Served
    <3>2. StageInv(y, q[y], guest[y], sq[y], cq[y], ran[y], Served(y))
      BY DEF AccInv, Stages
    <3>3. StageInv(y, q[y], guest[y], sq[y], cq[y], ran[y], FALSE)
      BY <3>2 DEF StageInv
    <3>4. QED
      BY <1>1, <1>7, <2>2, <3>1, <3>3
  <2>3. QED
    BY <2>1, <2>2
<1>13. Errands'
  <2>1. Seen(0, q'[0], guest[0]) = Seen(0, q[0], guest[0])
    BY <1>7, <1>8, AdminQueue DEF Seen, r
  <2>2. \A o \in guest[0].out : Completed(o)' = Completed(o)
    BY <1>1, <2>1 DEF Completed
  <2>3. \A o \in guest[0].out : Errand(o, q[o.arg], guest[o.arg], Completed(o))
    BY DEF AccInv, Errands
  <2>4. \A o \in guest[0].out : q'[o.arg] = q[o.arg]
    BY <1>5, <1>7, <2>3 DEF Errand, IoQ
  <2>5. QED
    BY <1>1, <2>2, <2>4 DEF AccInv, Errands
<1>14. BellsInv'
  <2>1. \A i \in 1..Len(bells) : BellInv(bells[i], q[bells[i].q], guest[bells[i].q])
    BY DEF AccInv, BellsInv
  <2>2. \A i, j \in 1..Len(bells) : i < j /\ bells[i].q = bells[j].q =>
          Offset(bells[i], q[bells[i].q]) < Offset(bells[j], q[bells[i].q])
    BY DEF AccInv, BellsInv
  <2>3. \A y \in Queue : q'[y].head = q[y].head
    BY <1>7, <1>8 DEF r
  <2>4. \A f : f.q \in Queue => Offset(f, q'[f.q]) = Offset(f, q[f.q])
    BY <2>3 DEF Offset
  <2>5. Taken(x, t) = Offset(b, r) /\ Announced(x, t, guest[x]) = Announced(x, r, guest[x])
    BY <1>8 DEF Taken, Announced, Offset, x
  <2>6. ASSUME NEW i \in 1..Len(bells')
        PROVE  BellInv(bells'[i], q'[bells'[i].q], guest'[bells'[i].q])
    <3>1. PICK f : f = bells[i + 1]
      OBVIOUS
    <3>2. /\ BellInv(f, q[f.q], guest[f.q]) /\ bells'[i] = f /\ i + 1 \in 1..Len(bells)
          /\ (f.q = x => Offset(b, r) < Offset(f, r))
      BY <1>3, <2>1, <2>2, <3>1 DEF x, r
    <3>3. f.q \in Queue /\ guest[f.q].stage = "live" /\ f.tail \in Ring(f.q)
      BY <3>2 DEF BellInv
    <3>4. CASE f.q = x
      <4>1. BellInv(f, t, guest[x])
        <5>1. Offset(f, t) = Offset(f, r)
          BY <1>8 DEF Offset
        <5>2. QED
          BY <2>5, <3>2, <3>3, <3>4, <5>1 DEF BellInv, r
      <4>2. QED
        BY <1>1, <1>7, <3>2, <3>4, <4>1
    <3>5. CASE f.q # x
      BY <1>1, <1>7, <3>2, <3>3, <3>5
    <3>6. QED
      BY <3>4, <3>5
  <2>7. ASSUME NEW i \in 1..Len(bells'), NEW j \in 1..Len(bells'), i < j, bells'[i].q = bells'[j].q
        PROVE  Offset(bells'[i], q'[bells'[i].q]) < Offset(bells'[j], q'[bells'[i].q])
    <3>1. PICK e, f : e = bells[i + 1] /\ f = bells[j + 1]
      OBVIOUS
    <3>2. /\ i + 1 \in 1..Len(bells) /\ j + 1 \in 1..Len(bells) /\ i + 1 < j + 1
          /\ bells'[i] = e /\ bells'[j] = f
      BY <1>3, <2>7, <3>1
    <3>3. e.q = f.q /\ e.q \in Queue
      BY <2>1, <2>7, <3>1, <3>2 DEF BellInv
    <3>4. Offset(e, q[e.q]) < Offset(f, q[e.q])
      BY <2>2, <3>1, <3>2, <3>3
    <3>5. Offset(e, q'[e.q]) = Offset(e, q[e.q]) /\ Offset(f, q'[e.q]) = Offset(f, q[e.q])
      BY <2>4, <3>3
    <3>6. QED
      BY <3>2, <3>4, <3>5
  <2>8. QED
    BY <2>6, <2>7 DEF BellsInv
<1>15. QED
  BY <1>11, <1>12, <1>13, <1>14 DEF AccInv

LEMMA AccRings ==
    ASSUME IrqInv, AccInv, NEW x \in Queue, Rings(x)
    PROVE  AccInv'
<1> DEFINE S  == [q : Queue, tail : Nat]
           g  == guest[x]
           h  == [g EXCEPT !.rung = g.tail]
           r  == q[x]
           n  == Depth(x)
           e  == [q |-> x, tail |-> g.tail]
<1>1. /\ g.rung # g.tail /\ guest' = [guest EXCEPT ![x].rung = guest[x].tail]
      /\ bells' = Append(bells, e) /\ UNCHANGED <<q, run, sq, cq, ran>>
  BY DEF Rings
<1>2. bells \in Seq(S)
  BY DEF AccInv, Shapes
<1>3. DOMAIN guest = Queue /\ DOMAIN g = GuestFields
  BY DEF IrqInv, Fields
<1>4. guest'[x] = h /\ \A y \in Queue \ {x} : guest'[y] = guest[y]
  BY <1>1, <1>3
<1>5. StageInv(x, q[x], guest[x], sq[x], cq[x], ran[x], Served(x))
  BY DEF AccInv, Stages
<1>6. g.stage = "live"
  BY <1>1, <1>5 DEF StageInv
<1>7. Lane(x, r, g, sq[x], cq[x], ran[x])
  BY <1>5, <1>6 DEF StageInv
<1>8. n \in Nat /\ Ring(x) = 0..n - 1 /\ g.tail \in Ring(x)
  BY <1>7, DepthFacts DEF Lane
<1>9. e \in S /\ e.q = x /\ e.tail = g.tail
  BY <1>8
<1> HIDE DEF g
<1>10. /\ h.rung = g.tail /\ h.tail = g.tail /\ h.out = g.out /\ h.head = g.head /\ h.phase = g.phase
       /\ h.stage = g.stage
  BY <1>3 DEF GuestFields
<1> HIDE DEF h, r, S, e, n
<1>11. Lane(x, r, h, sq[x], cq[x], ran[x])
  BY <1>7, <1>10, LaneRing
<1>12. Announced(x, r, g) < Announced(x, r, h)
  BY <1>1, <1>7, <1>10, LaneRing
<1>13. /\ bells' \in Seq(S) /\ Len(bells) \in Nat
       /\ \A i \in 1..Len(bells') : \/ i \in 1..Len(bells) /\ bells'[i] = bells[i]
                                    \/ i = Len(bells) + 1 /\ bells'[i] = e
  BY <1>1, <1>2, <1>9, LastBell
<1>14. Shapes'
  <2>1. \A y \in Queue : guest'[y].phase \in BOOLEAN
    BY <1>4, <1>10 DEF AccInv, Shapes, g
  <2>2. bells' \in Seq([q : Queue, tail : Nat])
    BY <1>13 DEF S
  <2>3. QED
    BY <1>1, <2>1, <2>2 DEF AccInv, Shapes
<1>15. Stages'
  <2> SUFFICES ASSUME NEW y \in Queue
               PROVE  StageInv(y, q'[y], guest'[y], sq'[y], cq'[y], ran'[y], Served(y)')
    BY DEF Stages
  <2>1. Served(y)' = Served(y)
    BY <1>1 DEF Served
  <2>2. CASE y = x
    <3>1. StageInv(x, r, h, sq[x], cq[x], ran[x], Served(x))
      BY <1>6, <1>10, <1>11 DEF StageInv
    <3>2. QED
      BY <1>1, <1>4, <2>1, <2>2, <3>1 DEF r
  <2>3. CASE y # x
    <3>1. StageInv(y, q[y], guest[y], sq[y], cq[y], ran[y], Served(y))
      BY DEF AccInv, Stages
    <3>2. QED
      BY <1>1, <1>4, <2>1, <2>3, <3>1
  <2>4. QED
    BY <2>2, <2>3
<1>16. Errands'
  <2>1. guest'[0].out = guest[0].out /\ guest'[0].stage = guest[0].stage /\ guest'[0].head = guest[0].head
    BY <1>4, <1>10, AdminQueue DEF g
  <2>2. Seen(0, q[0], guest'[0]) = Seen(0, q[0], guest[0]) /\ SeenList(0, guest'[0], cq[0]) = SeenList(0, guest[0], cq[0])
    BY <2>1 DEF Seen, SeenList
  <2>3. \A o \in guest[0].out : Completed(o)' = Completed(o)
    BY <1>1, <2>2 DEF Completed
  <2>4. \A o \in guest[0].out : Errand(o, q[o.arg], guest[o.arg], Completed(o))
    BY DEF AccInv, Errands
  <2>5. \A o \in guest[0].out : guest'[o.arg] = guest[o.arg]
    BY <1>4, <1>6, <2>4 DEF Errand, IoQ, g
  <2>6. QED
    BY <1>1, <2>1, <2>3, <2>5 DEF AccInv, Errands
<1>17. BellsInv'
  <2>1. \A i \in 1..Len(bells) : BellInv(bells[i], q[bells[i].q], guest[bells[i].q])
    BY DEF AccInv, BellsInv
  <2>2. \A i, j \in 1..Len(bells) : i < j /\ bells[i].q = bells[j].q =>
          Offset(bells[i], q[bells[i].q]) < Offset(bells[j], q[bells[i].q])
    BY DEF AccInv, BellsInv
  <2>3. /\ Announced(x, r, h) = Offset(e, r) /\ Announced(x, r, g) \in Nat /\ Announced(x, r, h) \in Nat
        /\ Taken(x, r) \in Nat /\ Taken(x, r) <= Announced(x, r, g)
    <3>1. Announced(x, r, h) = Offset(e, r)
      BY <1>9, <1>10 DEF Announced, Offset
    <3>2. Announced(x, r, g) \in Nat /\ Taken(x, r) \in Nat
      BY <1>7, LaneRoom
    <3>3. Announced(x, r, h) \in Nat
      BY <1>11, LaneRoom
    <3>4. QED
      BY <1>7, <3>1, <3>2, <3>3 DEF Lane
  <2>4. ASSUME NEW f, f.q = x, BellInv(f, r, g)
        PROVE  Offset(f, r) \in Nat /\ Offset(f, r) <= Announced(x, r, g) /\ f.tail \in Ring(x)
    <3>1. f.tail \in 0..n - 1 /\ r.head \in 0..n - 1
      BY <1>7, <1>8, <2>4 DEF BellInv, Lane
    <3>2. Offset(f, r) = Way(n, r.head, f.tail)
      BY <2>4 DEF Offset, n
    <3>3. Way(n, r.head, f.tail) \in Nat
      BY <1>8, <3>1, WayType
    <3>4. QED
      BY <2>4, <3>2, <3>3 DEF BellInv
  <2>5. BellInv(e, r, h)
    BY <1>6, <1>8, <1>9, <1>10, <1>12, <2>3 DEF BellInv
  <2>6. ASSUME NEW f, f.q = x, BellInv(f, r, g) PROVE BellInv(f, r, h)
    <3>1. Offset(f, r) \in Nat /\ Offset(f, r) <= Announced(x, r, g)
      BY <2>4, <2>6
    <3>2. Offset(f, r) <= Announced(x, r, h)
      BY <1>12, <2>3, <3>1
    <3>3. QED
      BY <1>10, <2>6, <3>2 DEF BellInv
  <2>7. ASSUME NEW i \in 1..Len(bells')
        PROVE  BellInv(bells'[i], q'[bells'[i].q], guest'[bells'[i].q])
    <3>1. CASE i \in 1..Len(bells) /\ bells'[i] = bells[i]
      <4>1. PICK f : f = bells[i] /\ BellInv(f, q[f.q], guest[f.q])
        BY <2>1, <3>1
      <4>2. CASE f.q = x
        <5>1. BellInv(f, r, h)
          BY <2>6, <4>1, <4>2 DEF r, g
        <5>2. QED
          BY <1>1, <1>4, <3>1, <4>1, <4>2, <5>1 DEF r
      <4>3. CASE f.q # x
        <5>1. f.q \in Queue
          BY <4>1 DEF BellInv
        <5>2. QED
          BY <1>1, <1>4, <3>1, <4>1, <4>3, <5>1
      <4>4. QED
        BY <4>2, <4>3
    <3>2. CASE bells'[i] = e
      BY <1>1, <1>4, <1>9, <2>5, <3>2 DEF r
    <3>3. QED
      BY <1>13, <3>1, <3>2
  <2>8. ASSUME NEW i \in 1..Len(bells'), NEW j \in 1..Len(bells'), i < j, bells'[i].q = bells'[j].q
        PROVE  Offset(bells'[i], q'[bells'[i].q]) < Offset(bells'[j], q'[bells'[i].q])
    <3>1. i \in 1..Len(bells) /\ bells'[i] = bells[i]
      <4>1. Len(bells) \in Nat /\ (j \in 1..Len(bells) \/ j = Len(bells) + 1)
        BY <1>13
      <4>2. i # Len(bells) + 1
        BY <2>8, <4>1
      <4>3. QED
        BY <1>13, <4>2
    <3>2. PICK f : f = bells[i] /\ BellInv(f, q[f.q], guest[f.q])
      BY <2>1, <3>1
    <3>3. CASE j \in 1..Len(bells) /\ bells'[j] = bells[j]
      BY <1>1, <2>2, <2>8, <3>1, <3>3
    <3>4. CASE bells'[j] = e
      <4>1. f.q = x
        BY <1>9, <2>8, <3>1, <3>2, <3>4
      <4>2. Offset(f, r) \in Nat /\ Offset(f, r) <= Announced(x, r, g)
        BY <2>4, <3>2, <4>1 DEF r, g
      <4>3. Offset(f, r) < Offset(e, r)
        BY <1>12, <2>3, <4>2
      <4>4. QED
        BY <1>1, <3>1, <3>2, <3>4, <4>1, <4>3 DEF r
    <3>5. QED
      BY <1>13, <3>3, <3>4
  <2>9. QED
    BY <2>7, <2>8 DEF BellsInv
<1>18. QED
  BY <1>14, <1>15, <1>16, <1>17 DEF AccInv

(* A queue that is served and has something to serve is live, and the      *)
(* command at its head is out.                                             *)
LEMMA ServedLive ==
    ASSUME AccInv, NEW x \in Queue, run.on, run.q = x, More(x)
    PROVE  /\ guest[x].stage = "live" /\ q[x].head # q[x].tail
           /\ Lane(x, q[x], guest[x], sq[x], cq[x], ran[x])
<1>1. StageInv(x, q[x], guest[x], sq[x], cq[x], ran[x], Served(x)) /\ Served(x)
  BY DEF AccInv, Stages, Served
<1>2. QED
  BY <1>1 DEF StageInv, More

LEMMA ServedCommand ==
    ASSUME AccInv, NEW x \in Queue, run.on, run.q = x, More(x), NEW cmd, cmd = sq[x][q[x].head]
    PROVE  /\ cmd \in guest[x].out
           /\ x # 0 => cmd.op = "IO" /\ cmd.arg = 0
           /\ x = 0 => Errand(cmd, q[cmd.arg], guest[cmd.arg], FALSE)
<1> DEFINE r == q[x]
           g == guest[x]
           s == sq[x]
<1>1. Lane(x, r, g, s, cq[x], ran[x]) /\ r.head # r.tail
  BY ServedLive
<1>2. s[r.head] \in g.out
  <2> HIDE DEF r, g, s
  <2>1. QED
    BY <1>1, LaneFirst
<1>3. cmd \in guest[x].out /\ (x # 0 => cmd.op = "IO" /\ cmd.arg = 0)
  BY <1>1, <1>2 DEF Lane
<1>4. x = 0 => Errand(cmd, q[cmd.arg], guest[cmd.arg], Completed(cmd))
  BY <1>3 DEF AccInv, Errands
<1>5. QED
  BY <1>3, <1>4 DEF Errand

(* What a command on a queue does to it.                                   *)
LEMMA EffectElsewhere ==
    ASSUME AccInv, NEW cmd, cmd.op = "IO" \/ cmd.arg \in Queue
    PROVE  /\ DOMAIN Effect(cmd) = Queue
           /\ \A z \in Queue : cmd.op = "IO" \/ z # cmd.arg => Effect(cmd)[z] = q[z]
<1>1. DOMAIN q = Queue
  BY DEF AccInv, Shapes
<1>2. QED
  BY <1>1 DEF Effect

LEMMA EffectOn ==
    ASSUME AccInv, NEW cmd, NEW g, Errand(cmd, q[cmd.arg], g, FALSE)
    PROVE  DOMAIN Effect(cmd)[cmd.arg] = QueueFields /\ Errand(cmd, Effect(cmd)[cmd.arg], g, TRUE)
<1> DEFINE y == cmd.arg
           r == q[y]
           t == Effect(cmd)[y]
<1>1. y \in Queue /\ DOMAIN q = Queue /\ DOMAIN r = QueueFields
  BY DEF AccInv, Shapes, Errand, IoQ
<1>2. CASE cmd.op = "CREATE_SQ"
  <2>1. t = [r EXCEPT !.sqOn = TRUE, !.head = 0, !.tail = 0, !.valid = r.cqOn]
    BY <1>1, <1>2 DEF Effect
  <2> HIDE DEF t, r
  <2>2. /\ DOMAIN t = QueueFields /\ t.cqOn = r.cqOn /\ t.cqTail = r.cqTail /\ t.phase = r.phase
        /\ t.valid = r.cqOn /\ t.head = 0 /\ t.tail = 0
    BY <1>1, <2>1 DEF QueueFields
  <2>3. Errand(cmd, t, g, TRUE)
    BY <1>2, <2>2 DEF Errand, Primed, r
  <2>4. QED
    BY <2>2, <2>3 DEF t
<1>3. CASE cmd.op = "CREATE_CQ"
  <2>1. t = [r EXCEPT !.cqOn = TRUE, !.cqTail = 0, !.phase = TRUE, !.valid = r.sqOn]
    BY <1>1, <1>3 DEF Effect
  <2> HIDE DEF t, r
  <2>2. DOMAIN t = QueueFields /\ t.cqOn = TRUE /\ t.cqTail = 0 /\ t.phase = TRUE
    BY <1>1, <2>1 DEF QueueFields
  <2>3. Errand(cmd, t, g, TRUE)
    BY <1>3, <2>2 DEF Errand, Primed
  <2>4. QED
    BY <2>2, <2>3 DEF t
<1>4. CASE cmd.op = "DELETE_SQ"
  <2>1. t = [r EXCEPT !.sqOn = FALSE, !.valid = FALSE]
    BY <1>1, <1>4 DEF Effect
  <2> HIDE DEF t, r
  <2>2. DOMAIN t = QueueFields /\ t.cqOn = r.cqOn /\ t.cqTail = r.cqTail /\ t.phase = r.phase
    BY <1>1, <2>1 DEF QueueFields
  <2>3. Errand(cmd, t, g, TRUE)
    BY <1>4, <2>2 DEF Errand, Primed, r
  <2>4. QED
    BY <2>2, <2>3 DEF t
<1>5. CASE cmd.op = "DELETE_CQ"
  <2>1. t = [r EXCEPT !.cqOn = FALSE, !.valid = FALSE]
    BY <1>1, <1>5 DEF Effect
  <2> HIDE DEF t, r
  <2>2. DOMAIN t = QueueFields
    BY <1>1, <2>1 DEF QueueFields
  <2>3. Errand(cmd, t, g, TRUE)
    BY <1>5 DEF Errand
  <2>4. QED
    BY <2>2, <2>3 DEF t
<1>6. QED
  BY <1>2, <1>3, <1>4, <1>5 DEF Errand

LEMMA ErrandLess ==
    ASSUME NEW o, NEW r, NEW g, NEW d, NEW e, Errand(o, r, g, d), e => d
    PROVE  Errand(o, r, g, e)
BY DEF Errand

(* The device has moved on in queue x, from r to t: doorbells still        *)
(* announce what lies ahead.                                               *)
BellsMove(x, r, t, g) ==
    /\ \A b : b.q = x /\ BellInv(b, r, g) => BellInv(b, t, g)
    /\ \A b, e : /\ b.q = x /\ e.q = x /\ BellInv(b, r, g) /\ BellInv(e, r, g)
                 /\ Offset(b, r) < Offset(e, r)
                 => Offset(b, t) < Offset(e, t)

(* One command of queue x has run, completed or not; t is what the device  *)
(* then has of the queue.                                                  *)
OneServed(x, cmd, t) ==
    /\ x \in Queue /\ run.on /\ run.q = x /\ More(x) /\ cmd = sq[x][q[x].head]
    /\ DOMAIN t = QueueFields /\ DOMAIN q' = Queue /\ q'[x] = t
    /\ \A z \in Queue \ {x} : q'[z] = Effect(cmd)[z]
    /\ UNCHANGED <<guest, bells>> /\ (run'.on => run'.q = x)
    /\ DOMAIN sq' = Queue /\ DOMAIN ran' = Queue
    /\ \A z \in Queue \ {x} : sq'[z] = sq[z] /\ cq'[z] = cq[z] /\ ran'[z] = ran[z]
    /\ DOMAIN sq'[x] = Ring(x) /\ DOMAIN cq'[x] = Ring(x)
    /\ \A i \in Ring(x) : DOMAIN cq'[x][i] = {"cid", "phase"}
    /\ Lane(x, t, guest[x], sq'[x], cq'[x], ran'[x])
    /\ x = 0 => \A o \in guest[0].out : Completed(o)' => Completed(o) \/ o = cmd
    /\ BellsMove(x, q[x], t, guest[x])

LEMMA AccServed ==
    ASSUME AccInv, NEW x, NEW cmd, NEW t, OneServed(x, cmd, t)
    PROVE  AccInv'
<1> USE DEF OneServed
<1>1. guest[x].stage = "live" /\ x \in Queue
  BY ServedLive
<1>2. /\ cmd \in guest[x].out /\ (x # 0 => cmd.op = "IO" /\ cmd.arg = 0)
      /\ (x = 0 => Errand(cmd, q[cmd.arg], guest[cmd.arg], FALSE))
  <2>1. AccInv /\ run.on /\ run.q = x /\ More(x) /\ cmd = sq[x][q[x].head]
    OBVIOUS
  <2>2. cmd \in guest[x].out
    BY <2>1, ServedCommand
  <2>3. x # 0 => cmd.op = "IO" /\ cmd.arg = 0
    BY <2>1, ServedCommand
  <2>4. x = 0 => Errand(cmd, q[cmd.arg], guest[cmd.arg], FALSE)
    BY <2>1, ServedCommand
  <2>5. QED
    BY <2>2, <2>3, <2>4
<1>3. cmd.op = "IO" \/ cmd.arg \in Queue
  BY <1>2 DEF Errand, IoQ
<1>4. \A z \in Queue \ {x} : x # 0 \/ z # cmd.arg => q'[z] = q[z]
  BY <1>2, <1>3, EffectElsewhere
<1>5. x = 0 => /\ cmd.arg \in Queue \ {0} /\ guest[cmd.arg].stage = "busy"
               /\ DOMAIN q'[cmd.arg] = QueueFields
               /\ Errand(cmd, q'[cmd.arg], guest[cmd.arg], TRUE)
  <2> SUFFICES ASSUME x = 0
               PROVE  /\ cmd.arg \in Queue \ {0} /\ guest[cmd.arg].stage = "busy"
                      /\ DOMAIN q'[cmd.arg] = QueueFields
                      /\ Errand(cmd, q'[cmd.arg], guest[cmd.arg], TRUE)
    OBVIOUS
  <2>1. Errand(cmd, q[cmd.arg], guest[cmd.arg], FALSE)
    BY <1>2
  <2>2. cmd.arg \in Queue \ {0} /\ guest[cmd.arg].stage = "busy"
    BY <2>1 DEF Errand, IoQ
  <2>3. q'[cmd.arg] = Effect(cmd)[cmd.arg]
    BY <2>2
  <2>4. DOMAIN Effect(cmd)[cmd.arg] = QueueFields /\ Errand(cmd, Effect(cmd)[cmd.arg], guest[cmd.arg], TRUE)
    BY <2>1, EffectOn
  <2>5. QED
    BY <2>2, <2>3, <2>4
<1>6. Shapes'
  <2>1. \A z \in Queue : DOMAIN q'[z] = QueueFields
    BY <1>4, <1>5 DEF AccInv, Shapes
  <2>2. \A z \in Queue : DOMAIN sq'[z] = Ring(z) /\ DOMAIN cq'[z] = Ring(z)
    BY DEF AccInv, Shapes
  <2>3. \A z \in Queue : \A i \in Ring(z) : DOMAIN cq'[z][i] = {"cid", "phase"}
    BY DEF AccInv, Shapes
  <2>4. QED
    BY <2>1, <2>2, <2>3 DEF AccInv, Shapes
<1>7. Stages'
  <2> SUFFICES ASSUME NEW y \in Queue
               PROVE  StageInv(y, q'[y], guest'[y], sq'[y], cq'[y], ran'[y], Served(y)')
    BY DEF Stages
  <2>1. CASE y = x
    <3>1. StageInv(x, t, guest[x], sq'[x], cq'[x], ran'[x], Served(x)')
      BY <1>1 DEF StageInv
    <3>2. QED
      BY <2>1, <3>1
  <2>2. CASE y # x
    <3>1. StageInv(y, q[y], guest[y], sq[y], cq[y], ran[y], Served(y))
      BY DEF AccInv, Stages
    <3>2. Served(y)' = FALSE
      BY <2>2 DEF Served
    <3>3. CASE q'[y] = q[y]
      <4>1. StageInv(y, q[y], guest[y], sq[y], cq[y], ran[y], FALSE)
        BY <3>1 DEF StageInv
      <4>2. QED
        BY <2>2, <3>2, <3>3, <4>1
    <3>4. CASE x = 0 /\ y = cmd.arg
      <4>1. guest[y].stage = "busy"
        BY <1>5, <3>4
      <4>2. StageInv(y, q'[y], guest[y], sq[y], cq[y], ran[y], FALSE)
        BY <3>1, <4>1 DEF StageInv
      <4>3. QED
        BY <2>2, <3>2, <4>2
    <3>5. QED
      BY <1>4, <2>2, <3>3, <3>4
  <2>3. QED
    BY <2>1, <2>2
<1>8. Errands'
  <2>1. /\ guest[0].stage \in {"none", "live"}
        /\ \A o \in guest[0].out : Errand(o, q[o.arg], guest[o.arg], Completed(o))
        /\ \A o, p \in guest[0].out : o.arg = p.arg => o = p
    BY DEF AccInv, Errands
  <2>2. ASSUME NEW o \in guest[0].out PROVE Errand(o, q'[o.arg], guest[o.arg], Completed(o)')
    <3>1. Errand(o, q[o.arg], guest[o.arg], Completed(o))
      BY <2>1
    <3>2. o.arg \in Queue \ {0} /\ o.arg # x
      BY <1>1, <3>1 DEF Errand, IoQ
    <3>3. CASE x # 0
      <4>1. q'[o.arg] = q[o.arg]
        BY <1>4, <3>2, <3>3
      <4>2. q'[0] = q[0] /\ cq'[0] = cq[0]
        BY <1>4, <3>3, AdminQueue
      <4>3. Completed(o)' = Completed(o)
        BY <4>2 DEF Completed
      <4>4. QED
        BY <3>1, <4>1, <4>3
    <3>4. CASE x = 0 /\ o # cmd
      <4>1. o.arg # cmd.arg
        BY <1>2, <2>1, <3>4
      <4>2. q'[o.arg] = q[o.arg]
        BY <1>4, <3>2, <4>1
      <4>3. Completed(o)' => Completed(o)
        BY <3>4
      <4>4. QED
        BY <3>1, <4>2, <4>3, ErrandLess
    <3>5. CASE x = 0 /\ o = cmd
      <4>1. Errand(o, q'[o.arg], guest[o.arg], TRUE)
        BY <1>5, <3>5
      <4>2. QED
        BY <4>1 DEF Errand
    <3>6. QED
      BY <3>3, <3>4, <3>5
  <2>3. QED
    BY <2>1, <2>2 DEF Errands
<1>9. BellsInv'
  <2>1. \A i \in 1..Len(bells) : BellInv(bells[i], q[bells[i].q], guest[bells[i].q])
    BY DEF AccInv, BellsInv
  <2>2. \A i, j \in 1..Len(bells) : i < j /\ bells[i].q = bells[j].q =>
          Offset(bells[i], q[bells[i].q]) < Offset(bells[j], q[bells[i].q])
    BY DEF AccInv, BellsInv
  <2>3. \A y \in Queue : y # x /\ guest[y].stage = "live" => q'[y] = q[y]
    BY <1>4, <1>5
  <2>4. ASSUME NEW i \in 1..Len(bells) PROVE BellInv(bells[i], q'[bells[i].q], guest[bells[i].q])
    <3>1. PICK b : b = bells[i] /\ BellInv(b, q[b.q], guest[b.q])
      BY <2>1
    <3>2. CASE b.q = x
      BY <3>1, <3>2 DEF BellsMove
    <3>3. CASE b.q # x
      <4>1. b.q \in Queue /\ guest[b.q].stage = "live"
        BY <3>1 DEF BellInv
      <4>2. QED
        BY <2>3, <3>1, <3>3, <4>1
    <3>4. QED
      BY <3>2, <3>3
  <2>5. ASSUME NEW i \in 1..Len(bells), NEW j \in 1..Len(bells), i < j, bells[i].q = bells[j].q
        PROVE  Offset(bells[i], q'[bells[i].q]) < Offset(bells[j], q'[bells[i].q])
    <3>1. PICK b, e : /\ b = bells[i] /\ BellInv(b, q[b.q], guest[b.q])
                      /\ e = bells[j] /\ BellInv(e, q[e.q], guest[e.q])
      BY <2>1
    <3>2. b.q = e.q /\ Offset(b, q[b.q]) < Offset(e, q[b.q])
      BY <2>2, <2>5, <3>1
    <3>3. CASE b.q = x
      BY <3>1, <3>2, <3>3 DEF BellsMove
    <3>4. CASE b.q # x
      <4>1. b.q \in Queue /\ guest[b.q].stage = "live"
        BY <3>1 DEF BellInv
      <4>2. QED
        BY <2>3, <3>1, <3>2, <3>4, <4>1
    <3>5. QED
      BY <3>3, <3>4
  <2>6. QED
    BY <2>4, <2>5 DEF BellsInv
<1>10. QED
  BY <1>6, <1>7, <1>8, <1>9 DEF AccInv

LEMMA BellsStay ==
    ASSUME NEW x, NEW r, NEW g
    PROVE  BellsMove(x, r, r, g)
BY DEF BellsMove

LEMMA BellsShift ==
    ASSUME NEW x \in Queue, NEW r, NEW g, NEW s, NEW c, NEW rn, Lane(x, r, g, s, c, rn), r.head # r.tail,
           NEW t, t.tail = r.tail,
           \A j \in Ring(x) : j # r.head => Way(Depth(x), t.head, j) = Way(Depth(x), r.head, j) - 1
    PROVE  BellsMove(x, r, t, g)
<1> DEFINE n == Depth(x)
<1>1. n \in Nat /\ Ring(x) = 0..n - 1
  BY DepthFacts
<1>2. r.head \in 0..n - 1 /\ r.tail \in 0..n - 1 /\ g.rung \in 0..n - 1
  BY <1>1 DEF Lane
<1>3. /\ Taken(x, r) \in Nat /\ Announced(x, r, g) \in Nat /\ Taken(x, r) <= Announced(x, r, g)
      /\ Taken(x, r) = Way(n, r.head, r.tail) /\ Announced(x, r, g) = Way(n, r.head, g.rung)
      /\ Taken(x, t) = Way(n, t.head, r.tail) /\ Announced(x, t, g) = Way(n, t.head, g.rung)
  <2>1. Taken(x, r) \in Nat /\ Announced(x, r, g) \in Nat
    BY LaneRoom
  <2>2. QED
    BY <2>1 DEF Lane, Taken, Announced
<1>4. \A j \in 0..n - 1 : j # r.head => Way(n, t.head, j) = Way(n, r.head, j) - 1
  BY <1>1
<1> HIDE DEF n
<1>5. Taken(x, r) # 0
  BY <1>1, <1>2, <1>3, WayZero
<1>6. g.rung # r.head
  <2>1. Way(n, r.head, g.rung) # 0
    BY <1>3, <1>5
  <2>2. QED
    BY <1>1, <1>2, <2>1, SpotFirst
<1>7. Taken(x, t) = Taken(x, r) - 1 /\ Announced(x, t, g) = Announced(x, r, g) - 1
  BY <1>2, <1>3, <1>4, <1>6
<1>8. ASSUME NEW b, b.q = x, BellInv(b, r, g)
      PROVE  Offset(b, r) \in Nat /\ Offset(b, t) = Offset(b, r) - 1 /\ BellInv(b, t, g)
  <2>1. /\ Offset(b, r) = Way(n, r.head, b.tail) /\ Offset(b, t) = Way(n, t.head, b.tail)
        /\ b.tail \in 0..n - 1 /\ Taken(x, r) < Offset(b, r) /\ Offset(b, r) <= Announced(x, r, g)
        /\ g.stage = "live"
    BY <1>1, <1>8 DEF BellInv, Offset, n
  <2>2. Way(n, r.head, b.tail) \in Nat
    BY <1>1, <1>2, <2>1, WayType
  <2>3. b.tail # r.head
    <3>1. Way(n, r.head, b.tail) # 0
      BY <1>3, <2>1, <2>2
    <3>2. QED
      BY <1>1, <1>2, <3>1, SpotFirst
  <2>4. Offset(b, t) = Offset(b, r) - 1
    BY <1>4, <2>1, <2>3
  <2>5. BellInv(b, t, g)
    BY <1>1, <1>3, <1>7, <1>8, <2>1, <2>2, <2>4 DEF BellInv
  <2>6. QED
    BY <2>1, <2>2, <2>4, <2>5
<1>9. QED
  BY <1>8 DEF BellsMove

LEMMA PostedFields ==
    ASSUME NEW x, NEW r, DOMAIN r = QueueFields, NEW t, t = Posted(r, x)
    PROVE  /\ DOMAIN t = QueueFields /\ t.head = (r.head + 1) % Depth(x) /\ t.tail = r.tail
           /\ t.cqTail = (r.cqTail + 1) % Depth(x)
           /\ t.phase = (IF r.cqTail + 1 = Depth(x) THEN ~r.phase ELSE r.phase)
           /\ t.valid = r.valid /\ t.cqOn = r.cqOn
BY DEF Posted, QueueFields

LEMMA AccServe ==
    ASSUME IrqInv, AccInv, Serve
    PROVE  AccInv'
<1>1. PICK x, r, s, c, rn, g : x = run.q /\ r = q[x] /\ s = sq[x] /\ c = cq[x] /\ rn = ran[x] /\ g = guest[x]
  OBVIOUS
<1>2. PICK cmd : cmd = s[r.head]
  OBVIOUS
<1>3. PICK t : t = Posted(r, x)
  OBVIOUS
<1>4. /\ run.on /\ More(x)
      /\ cq' = [cq EXCEPT ![x][r.cqTail] = [cid |-> cmd.cid, phase |-> r.phase]]
      /\ q' = [Effect(cmd) EXCEPT ![x] = Posted(@, x)]
      /\ sq' = [sq EXCEPT ![x][r.head] = NoCmd]
      /\ ran' = [ran EXCEPT ![x] = @ \cup {cmd.cid}]
      /\ run' = [run EXCEPT !.wrote = TRUE] /\ UNCHANGED <<bells, guest>>
  BY <1>1, <1>2 DEF Serve, Counted
<1>5. x \in Queue /\ cmd = sq[x][q[x].head]
  BY <1>1, <1>2, <1>4 DEF AccInv, Shapes
<1>6. Lane(x, r, g, s, c, rn) /\ r.head # r.tail
  BY <1>1, <1>4, <1>5, ServedLive
<1>7. cmd \in g.out
  BY <1>1, <1>4, <1>5, ServedCommand
<1>8. x # 0 => cmd.op = "IO" /\ cmd.arg = 0
  BY <1>1, <1>4, <1>5, ServedCommand
<1>9. x = 0 => Errand(cmd, q[cmd.arg], guest[cmd.arg], FALSE)
  BY <1>1, <1>4, <1>5, ServedCommand
<1>10. cmd.op = "IO" \/ cmd.arg \in Queue \ {0}
  BY <1>8, <1>9 DEF Errand, IoQ
<1>11. DOMAIN Effect(cmd) = Queue /\ Effect(cmd)[x] = r
  <2>1. cmd.op = "IO" \/ cmd.arg \in Queue
    BY <1>10
  <2>2. DOMAIN Effect(cmd) = Queue
    BY <2>1, EffectElsewhere
  <2>3. cmd.op = "IO" \/ x # cmd.arg
    BY <1>8, <1>10
  <2>4. Effect(cmd)[x] = q[x]
    BY <1>5, <2>1, <2>3, EffectElsewhere
  <2>5. QED
    BY <1>1, <2>2, <2>4
<1>12. DOMAIN q' = Queue /\ q'[x] = t /\ \A z \in Queue \ {x} : q'[z] = Effect(cmd)[z]
  BY <1>3, <1>4, <1>5, <1>11
<1>13. /\ DOMAIN r = QueueFields /\ DOMAIN s = Ring(x) /\ DOMAIN c = Ring(x) /\ DOMAIN sq = Queue
       /\ DOMAIN cq = Queue /\ DOMAIN ran = Queue
       /\ \A i \in Ring(x) : DOMAIN c[i] = {"cid", "phase"}
  BY <1>1, <1>5 DEF AccInv, Shapes, IrqInv, Fields
<1>14. /\ DOMAIN t = QueueFields /\ t.head = (r.head + 1) % Depth(x) /\ t.tail = r.tail
       /\ t.cqTail = (r.cqTail + 1) % Depth(x)
       /\ t.phase = (IF r.cqTail + 1 = Depth(x) THEN ~r.phase ELSE r.phase)
       /\ t.valid = r.valid /\ t.cqOn = r.cqOn
  BY <1>3, <1>13, PostedFields
<1>15. r.head \in Ring(x) /\ r.cqTail \in Ring(x)
  BY <1>6 DEF Lane
<1>16. PICK u, d : u = [s EXCEPT ![r.head] = NoCmd] /\ d = [c EXCEPT ![r.cqTail] = [cid |-> cmd.cid, phase |-> r.phase]]
  OBVIOUS
<1>17. /\ DOMAIN u = Ring(x) /\ DOMAIN d = Ring(x) /\ d[r.cqTail] = [cid |-> cmd.cid, phase |-> r.phase]
       /\ \A i \in Ring(x) : i # r.cqTail => d[i] = c[i]
       /\ \A i \in Ring(x) : i # r.head => u[i] = s[i]
  BY <1>13, <1>15, <1>16
<1>18. /\ DOMAIN sq' = Queue /\ DOMAIN ran' = Queue /\ sq'[x] = u /\ cq'[x] = d /\ ran'[x] = rn \cup {cmd.cid}
       /\ \A z \in Queue \ {x} : sq'[z] = sq[z] /\ cq'[z] = cq[z] /\ ran'[z] = ran[z]
  BY <1>1, <1>4, <1>5, <1>13, <1>16
<1>19. \A i \in Ring(x) : DOMAIN d[i] = {"cid", "phase"}
  BY <1>13, <1>17
<1>20. d[r.cqTail].cid = cmd.cid /\ d[r.cqTail].phase = r.phase
  BY <1>17
<1>21. Serves(x, r, s, c, t, u, d)
  BY <1>2, <1>14, <1>17, <1>20 DEF Serves
<1>22. g.phase \in BOOLEAN
  BY <1>1, <1>5 DEF AccInv, Shapes
<1>23. /\ Lane(x, t, g, u, d, rn \cup {s[r.head].cid})
       /\ Seen(x, t, g) = Seen(x, r, g) + 1
       /\ \A k \in 0..Seen(x, r, g) - 1 : SeenList(x, g, d)[k] = SeenList(x, g, c)[k]
       /\ SeenList(x, g, d)[Seen(x, r, g)] = s[r.head].cid
       /\ \A j \in Ring(x) : j # r.head => Way(Depth(x), t.head, j) = Way(Depth(x), r.head, j) - 1
  <2>1. Lane(x, t, g, u, d, rn \cup {s[r.head].cid})
    BY <1>5, <1>6, <1>21, <1>22, LaneServe
  <2>2. Advances(x, r, g, c, t, d, s[r.head].cid)
    BY <1>5, <1>6, <1>21, <1>22, LaneServe
  <2>3. QED
    BY <2>1, <2>2 DEF Advances
<1>24. BellsMove(x, r, t, g)
  BY <1>5, <1>6, <1>14, <1>23, BellsShift
<1>25. ASSUME x = 0, NEW o \in guest[0].out, Completed(o)' PROVE Completed(o) \/ o = cmd
  <2>1. PICK V : V = Seen(0, r, g) /\ V \in Nat
    BY <1>5, <1>6, <1>25, LaneRoom
  <2>2. PICK k \in 0..Seen(0, q'[0], guest'[0]) - 1 : SeenList(0, guest'[0], cq'[0])[k] = o.cid
    BY <1>25 DEF Completed
  <2>3. k \in 0..V /\ SeenList(0, g, d)[k] = o.cid
    <3>1. q'[0] = t /\ guest'[0] = g /\ cq'[0] = d
      BY <1>1, <1>4, <1>12, <1>18, <1>25
    <3>2. Seen(0, q'[0], guest'[0]) = V + 1
      BY <1>23, <1>25, <2>1, <3>1
    <3>3. QED
      BY <2>1, <2>2, <3>1, <3>2
  <2>4. CASE k = V
    <3>1. o.cid = cmd.cid
      BY <1>2, <1>23, <1>25, <2>1, <2>3, <2>4
    <3>2. \A p1, p2 \in g.out : p1.cid = p2.cid => p1 = p2
      BY <1>6 DEF Lane, Spread
    <3>3. QED
      BY <1>1, <1>7, <1>25, <3>1, <3>2
  <2>5. CASE k # V
    <3>1. k \in 0..V - 1
      BY <2>1, <2>3, <2>5
    <3>2. SeenList(0, g, c)[k] = o.cid
      BY <1>23, <1>25, <2>1, <2>3, <3>1
    <3>3. QED
      BY <1>1, <1>25, <2>1, <3>1, <3>2 DEF Completed
  <2>6. QED
    BY <2>4, <2>5
<1>26. run'.on => run'.q = x
  BY <1>1, <1>4 DEF IrqInv, Fields
<1>27. /\ Lane(x, t, guest[x], sq'[x], cq'[x], ran'[x]) /\ BellsMove(x, q[x], t, guest[x])
       /\ DOMAIN sq'[x] = Ring(x) /\ DOMAIN cq'[x] = Ring(x)
       /\ \A i \in Ring(x) : DOMAIN cq'[x][i] = {"cid", "phase"}
  BY <1>1, <1>2, <1>17, <1>18, <1>19, <1>23, <1>24
<1>28. x = 0 => \A o \in guest[0].out : Completed(o)' => Completed(o) \/ o = cmd
  BY <1>25
<1>29. OneServed(x, cmd, t)
  BY <1>1, <1>4, <1>5, <1>12, <1>14, <1>18, <1>26, <1>27, <1>28 DEF OneServed
<1>30. QED
  BY <1>29, AccServed

LEMMA AccServeNoCq ==
    ASSUME IrqInv, AccInv, ServeNoCq
    PROVE  AccInv'
<1>1. PICK x, r, s, c, rn, g : x = run.q /\ r = q[x] /\ s = sq[x] /\ c = cq[x] /\ rn = ran[x] /\ g = guest[x]
  OBVIOUS
<1>2. PICK cmd : cmd = s[r.head]
  OBVIOUS
<1>3. /\ run.on /\ More(x) /\ q' = Effect(cmd) /\ ran' = [ran EXCEPT ![x] = @ \cup {cmd.cid}]
      /\ run' = NoRun /\ UNCHANGED <<bells, guest, sq, cq>>
  BY <1>1, <1>2 DEF ServeNoCq, Counted, LoopEnds
<1>4. x \in Queue /\ cmd = sq[x][q[x].head] /\ ~run'.on
  BY <1>1, <1>2, <1>3 DEF AccInv, Shapes, NoRun
<1>5. Lane(x, r, g, s, c, rn) /\ r.head # r.tail
  BY <1>1, <1>3, <1>4, ServedLive
<1>6. x # 0 => cmd.op = "IO" /\ cmd.arg = 0
  BY <1>1, <1>3, <1>4, ServedCommand
<1>7. x = 0 => Errand(cmd, q[cmd.arg], guest[cmd.arg], FALSE)
  BY <1>1, <1>3, <1>4, ServedCommand
<1>8. cmd.op = "IO" \/ cmd.arg \in Queue \ {0}
  BY <1>6, <1>7 DEF Errand, IoQ
<1>9. DOMAIN Effect(cmd) = Queue /\ Effect(cmd)[x] = r
  <2>1. cmd.op = "IO" \/ cmd.arg \in Queue
    BY <1>8
  <2>2. DOMAIN Effect(cmd) = Queue
    BY <2>1, EffectElsewhere
  <2>3. cmd.op = "IO" \/ x # cmd.arg
    BY <1>6, <1>8
  <2>4. Effect(cmd)[x] = q[x]
    BY <1>4, <2>1, <2>3, EffectElsewhere
  <2>5. QED
    BY <1>1, <2>2, <2>4
<1>10. /\ DOMAIN r = QueueFields /\ DOMAIN s = Ring(x) /\ DOMAIN c = Ring(x) /\ DOMAIN sq = Queue
       /\ DOMAIN ran = Queue /\ \A i \in Ring(x) : DOMAIN c[i] = {"cid", "phase"}
  BY <1>1, <1>4 DEF AccInv, Shapes
<1>11. /\ DOMAIN ran' = Queue /\ ran'[x] = rn \cup {cmd.cid} /\ \A z \in Queue \ {x} : ran'[z] = ran[z]
  BY <1>1, <1>3, <1>4, <1>10
<1>12. Lane(x, r, g, s, c, rn \cup {s[r.head].cid})
  BY <1>4, <1>5, LaneFirst
<1>13. BellsMove(x, r, r, g)
  BY BellsStay
<1>14. \A o \in guest[0].out : x = 0 => (Completed(o)' => Completed(o))
  BY <1>1, <1>3, <1>4, <1>9 DEF Completed
<1>15. DOMAIN q' = Queue /\ q'[x] = r /\ \A z \in Queue \ {x} : q'[z] = Effect(cmd)[z]
  BY <1>3, <1>9
<1>16. /\ Lane(x, r, guest[x], sq'[x], cq'[x], ran'[x]) /\ BellsMove(x, q[x], r, guest[x])
       /\ DOMAIN sq'[x] = Ring(x) /\ DOMAIN cq'[x] = Ring(x) /\ DOMAIN sq' = Queue
       /\ \A i \in Ring(x) : DOMAIN cq'[x][i] = {"cid", "phase"}
       /\ \A z \in Queue \ {x} : sq'[z] = sq[z] /\ cq'[z] = cq[z] /\ ran'[z] = ran[z]
  BY <1>1, <1>2, <1>3, <1>10, <1>11, <1>12, <1>13
<1>17. x = 0 => \A o \in guest[0].out : Completed(o)' => Completed(o) \/ o = cmd
  BY <1>14
<1>18. run'.on => run'.q = x
  BY <1>4
<1>19. OneServed(x, cmd, r)
  BY <1>1, <1>3, <1>4, <1>10, <1>11, <1>15, <1>16, <1>17, <1>18 DEF OneServed
<1>20. QED
  BY <1>19, AccServed

LEMMA OldNotNew ==
    ASSUME NEW x \in Queue, NEW g, NEW c, Old(x, g, c)
    PROVE  c[g.head].phase # g.phase
<1> DEFINE n == Depth(x)
<1>1. n \in Nat /\ n > 0 /\ g.head \in 0..n - 1 /\ Shows(n, c, g.head, g.phase, 0)
  BY DepthFacts DEF Old
<1> HIDE DEF n
<1>2. Spot(n, g.head, 0) = g.head /\ PhaseOf(n, g.head, g.phase, 0) = g.phase /\ 0 \in 0..n - 1
  BY <1>1, SpotFirst DEF PhaseOf
<1>3. QED
  BY <1>1, <1>2 DEF Shows

(* g becomes k when the guest learns that command o is done.               *)
Ends(g, o, k) ==
    /\ k.stage = Ended[o.op] /\ k.tail = g.tail /\ k.rung = g.rung /\ k.head = g.head
    /\ k.phase = g.phase /\ k.out = g.out

(* The queue that an admin command is about, once the guest knows that it  *)
(* is done.                                                                *)
LEMMA EndStage ==
    ASSUME NEW y \in Queue, NEW r, NEW g, NEW s, NEW c, NEW rn, NEW served, NEW o,
           StageInv(y, r, g, s, c, rn, served), Errand(o, r, g, TRUE), g.phase \in BOOLEAN,
           NEW k, Ends(g, o, k)
    PROVE  StageInv(y, r, k, s, c, rn, served) /\ k.phase \in BOOLEAN
<1>1. k.stage = Ended[o.op] /\ k.tail = g.tail /\ k.rung = g.rung /\ k.head = g.head /\ k.phase = g.phase
      /\ k.out = g.out
  BY DEF Ends
<1>2. g.stage = "busy" /\ g.out = {} /\ g.rung = g.tail /\ (served => r.head = r.tail) /\ Old(y, g, c)
  BY DEF Errand, StageInv
<1>3. Old(y, k, c) /\ (Primed(r, g) => Primed(r, k))
  BY <1>1, <1>2 DEF Old, Primed
<1>4. CASE o.op = "CREATE_CQ" \/ o.op = "DELETE_SQ"
  <2>1. k.stage = "cq"
    BY <1>1, <1>4 DEF Ended
  <2>2. Primed(r, k)
    BY <1>3, <1>4 DEF Errand
  <2>3. QED
    BY <1>1, <1>2, <1>3, <2>1, <2>2 DEF StageInv
<1>5. CASE o.op = "DELETE_CQ"
  <2>1. k.stage = "none"
    BY <1>1, <1>5 DEF Ended
  <2>2. QED
    BY <1>1, <1>2, <2>1 DEF StageInv
<1>6. CASE o.op = "CREATE_SQ"
  <2>1. k.stage = "live"
    BY <1>1, <1>6 DEF Ended
  <2>2. Primed(r, k) /\ r.valid /\ r.head = 0 /\ r.tail = 0 /\ k.tail = 0 /\ k.rung = 0 /\ k.out = {}
    BY <1>1, <1>2, <1>3, <1>6 DEF Errand
  <2>3. k.phase \in BOOLEAN
    BY <1>1
  <2>4. Lane(y, r, k, s, c, rn)
    BY <1>3, <2>2, <2>3, LaneStart
  <2>5. QED
    BY <2>1, <2>3, <2>4 DEF StageInv
<1>7. QED
  BY <1>4, <1>5, <1>6 DEF Errand

LEMMA AccConsume ==
    ASSUME IrqInv, AccInv, NEW x \in Queue, Consume(x)
    PROVE  AccInv'
<1> DEFINE G    == guest[x]
           Done == {o \in G.out : o.cid = cq[x][G.head].cid}
           H    == [G EXCEPT !.head  = (@ + 1) % Depth(x),
                             !.phase = IF G.head + 1 = Depth(x) THEN ~@ ELSE @,
                             !.out   = @ \ Done]
           Took == [guest EXCEPT ![x] = H]
<1>0. /\ New(x)
      /\ guest' = [y \in Queue |-> IF \E o \in Done : o.arg = y /\ y # 0
                                   THEN [Took[y] EXCEPT !.stage = Ended[(CHOOSE o \in Done : o.arg = y).op]]
                                   ELSE Took[y]]
      /\ cq' = [cq EXCEPT ![x][G.head].cid = 0]
      /\ ran' = [ran EXCEPT ![x] = @ \ {cq[x][G.head].cid}]
      /\ UNCHANGED <<q, bells, run, sq>>
  BY DEF Consume
<1>1. PICK r, s, c, rn, g : r = q[x] /\ s = sq[x] /\ c = cq[x] /\ rn = ran[x] /\ g = guest[x]
  OBVIOUS
<1>2. PICK cid, done : cid = c[g.head].cid /\ done = {o \in g.out : o.cid = cid} /\ done = Done
  BY <1>1
<1> HIDE DEF Done
<1>3. PICK h, took : /\ h = [g EXCEPT !.head  = (@ + 1) % Depth(x),
                                      !.phase = IF g.head + 1 = Depth(x) THEN ~@ ELSE @,
                                      !.out   = @ \ done]
                     /\ took = [guest EXCEPT ![x] = h]
                     /\ took = Took
  BY <1>1, <1>2
<1> HIDE DEF H, Took
<1>4. PICK d : d = [c EXCEPT ![g.head].cid = 0]
  OBVIOUS
<1>5. /\ New(x)
      /\ guest' = [y \in Queue |-> IF \E o \in done : o.arg = y /\ y # 0
                                   THEN [took[y] EXCEPT !.stage = Ended[(CHOOSE o \in done : o.arg = y).op]]
                                   ELSE took[y]]
      /\ cq' = [cq EXCEPT ![x][g.head].cid = 0]
      /\ ran' = [ran EXCEPT ![x] = @ \ {cid}]
      /\ UNCHANGED <<q, bells, run, sq>>
  <2>1. cid = cq[x][G.head].cid /\ g = G /\ done = Done /\ took = Took
    BY <1>1, <1>2, <1>3
  <2>2. QED
    BY <1>0, <2>1
<1>6. /\ DOMAIN guest = Queue /\ DOMAIN g = GuestFields /\ DOMAIN cq = Queue /\ DOMAIN ran = Queue
      /\ DOMAIN c = Ring(x) /\ g.phase \in BOOLEAN /\ \A i \in Ring(x) : DOMAIN c[i] = {"cid", "phase"}
  BY <1>1 DEF IrqInv, Fields, AccInv, Shapes
<1>7. g.stage = "live" /\ Lane(x, r, g, s, c, rn)
  <2>1. StageInv(x, r, g, s, c, rn, Served(x))
    BY <1>1 DEF AccInv, Stages
  <2>2. g.stage # "none" /\ c[g.head].phase = g.phase
    BY <1>1, <1>5 DEF New
  <2>3. ~Old(x, g, c)
    BY <2>2, OldNotNew
  <2>4. QED
    BY <2>1, <2>2, <2>3 DEF StageInv
<1>8. g.head \in Ring(x)
  BY <1>7 DEF Lane
<1>9. /\ DOMAIN d = Ring(x) /\ \A i \in Ring(x) : DOMAIN d[i] = {"cid", "phase"}
      /\ \A i \in Ring(x) : d[i].phase = c[i].phase /\ (i # g.head => d[i].cid = c[i].cid)
  BY <1>4, <1>6, <1>8
<1>10. cq'[x] = d /\ ran'[x] = rn \ {cid} /\ DOMAIN ran' = Queue
       /\ \A z \in Queue \ {x} : cq'[z] = cq[z] /\ ran'[z] = ran[z]
  BY <1>1, <1>4, <1>5, <1>6
<1>11. /\ h.stage = g.stage /\ h.tail = g.tail /\ h.rung = g.rung /\ h.head = (g.head + 1) % Depth(x)
       /\ h.out = g.out \ done /\ h.phase = (IF g.head + 1 = Depth(x) THEN ~g.phase ELSE g.phase)
  BY <1>3, <1>6 DEF GuestFields
<1>12. h.phase \in BOOLEAN
  BY <1>6, <1>11
<1>13. Takes(x, g, c, h, d)
  <2>1. c[g.head].phase = g.phase
    BY <1>1, <1>5 DEF New
  <2>2. \A o : o \in h.out <=> o \in g.out /\ o.cid # c[g.head].cid
    BY <1>2, <1>11
  <2>3. QED
    BY <1>9, <1>11, <2>1, <2>2 DEF Takes
<1>14. Lane(x, r, h, s, d, rn \ {c[g.head].cid}) /\ Drops(x, r, g, c, h, d)
  <2>1. g.phase \in BOOLEAN /\ h.phase \in BOOLEAN /\ Lane(x, r, g, s, c, rn) /\ Takes(x, g, c, h, d)
    BY <1>6, <1>7, <1>12, <1>13
  <2>2. QED
    BY <2>1, LaneTake
<1>15. Drops(x, r, g, c, h, d)
  BY <1>14
<1>16. PICK o \in g.out : o.cid = cid /\ \A p \in g.out : p.cid = cid => p = o
  BY <1>2, <1>15 DEF Drops
<1>17. done = {o}
  BY <1>2, <1>16
<1>18. took[x] = h /\ \A y \in Queue \ {x} : took[y] = guest[y]
  BY <1>1, <1>3, <1>6
<1>19. x # 0 => o.arg = 0
  BY <1>7, <1>16 DEF Lane
<1>20. x = 0 => /\ Errand(o, q[o.arg], guest[o.arg], TRUE) /\ o.arg \in Queue \ {0}
  <2> SUFFICES ASSUME x = 0
               PROVE  Errand(o, q[o.arg], guest[o.arg], TRUE) /\ o.arg \in Queue \ {0}
    OBVIOUS
  <2>1. Completed(o)
    <3>1. 0 \in 0..Seen(x, r, g) - 1 /\ SeenList(x, g, c)[0] = o.cid
      BY <1>2, <1>15, <1>16 DEF Drops
    <3>2. QED
      BY <1>1, <3>1 DEF Completed
  <2>2. Errand(o, q[o.arg], guest[o.arg], Completed(o))
    BY <1>1, <1>16 DEF AccInv, Errands
  <2>3. QED
    BY <2>1, <2>2 DEF Errand, IoQ
<1>21. ASSUME NEW y \in Queue, y # o.arg \/ y = 0 PROVE guest'[y] = took[y]
  BY <1>5, <1>17, <1>21
<1>22. guest'[x] = h
  BY <1>18, <1>19, <1>20, <1>21
<1>23. \A y \in Queue \ {x} : y # o.arg \/ y = 0 => guest'[y] = guest[y]
  BY <1>18, <1>21
<1>24. x = 0 => guest'[o.arg] = [guest[o.arg] EXCEPT !.stage = Ended[o.op]]
  <2> SUFFICES ASSUME x = 0 PROVE guest'[o.arg] = [guest[o.arg] EXCEPT !.stage = Ended[o.op]]
    OBVIOUS
  <2>1. o.arg \in Queue \ {0} /\ took[o.arg] = guest[o.arg]
    BY <1>18, <1>20
  <2>2. (CHOOSE p \in done : p.arg = o.arg) = o
    BY <1>17
  <2>3. \E p \in done : p.arg = o.arg /\ o.arg # 0
    BY <1>17, <2>1
  <2>4. QED
    BY <1>5, <2>1, <2>2, <2>3
<1>25. ASSUME x = 0
       PROVE  /\ StageInv(o.arg, q[o.arg], guest'[o.arg], sq[o.arg], cq[o.arg], ran[o.arg], Served(o.arg))
              /\ guest'[o.arg].phase \in BOOLEAN
  <2>1. PICK y, k, f, r1, s1, c1, rn1 : /\ y = o.arg /\ k = guest[y] /\ f = guest'[y] /\ r1 = q[y] /\ s1 = sq[y]
                                        /\ c1 = cq[y] /\ rn1 = ran[y]
    OBVIOUS
  <2>2. y \in Queue /\ Errand(o, r1, k, TRUE) /\ f = [k EXCEPT !.stage = Ended[o.op]]
    BY <1>20, <1>24, <1>25, <2>1
  <2>3. DOMAIN k = GuestFields /\ k.phase \in BOOLEAN
    BY <2>1, <2>2 DEF IrqInv, Fields, AccInv, Shapes
  <2>4. StageInv(y, r1, k, s1, c1, rn1, Served(y))
    BY <2>1, <2>2 DEF AccInv, Stages
  <2>5. StageInv(y, r1, f, s1, c1, rn1, Served(y)) /\ f.phase \in BOOLEAN
    <3>1. Ends(k, o, f)
      BY <2>2, <2>3 DEF Ends, GuestFields
    <3>2. PICK served : served = Served(y)
      OBVIOUS
    <3>3. y \in Queue /\ StageInv(y, r1, k, s1, c1, rn1, served) /\ Errand(o, r1, k, TRUE) /\ k.phase \in BOOLEAN
      BY <2>2, <2>3, <2>4, <3>2
    <3>4. StageInv(y, r1, f, s1, c1, rn1, served) /\ f.phase \in BOOLEAN
      BY <3>1, <3>3, EndStage
    <3>5. QED
      BY <3>2, <3>4
  <2>6. QED
    BY <2>1, <2>5
<1>26. Shapes'
  <2>1. \A y \in Queue : guest'[y].phase \in BOOLEAN
    BY <1>12, <1>19, <1>22, <1>23, <1>25 DEF AccInv, Shapes
  <2>2. \A y \in Queue : DOMAIN cq'[y] = Ring(y) /\ \A i \in Ring(y) : DOMAIN cq'[y][i] = {"cid", "phase"}
    BY <1>9, <1>10 DEF AccInv, Shapes
  <2>3. QED
    BY <1>5, <1>10, <2>1, <2>2 DEF AccInv, Shapes
<1>27. Stages'
  <2> SUFFICES ASSUME NEW y \in Queue
               PROVE  StageInv(y, q'[y], guest'[y], sq'[y], cq'[y], ran'[y], Served(y)')
    BY DEF Stages
  <2>1. Served(y)' = Served(y)
    BY <1>5 DEF Served
  <2>2. CASE y = x
    <3>1. StageInv(x, r, h, s, d, rn \ {cid}, Served(x))
      BY <1>2, <1>7, <1>11, <1>14 DEF StageInv
    <3>2. QED
      BY <1>1, <1>5, <1>10, <1>22, <2>1, <2>2, <3>1
  <2>3. CASE y # x /\ guest'[y] = guest[y]
    <3>1. StageInv(y, q[y], guest[y], sq[y], cq[y], ran[y], Served(y))
      BY DEF AccInv, Stages
    <3>2. QED
      BY <1>5, <1>10, <2>1, <2>3, <3>1
  <2>4. CASE y # x /\ x = 0 /\ y = o.arg
    <3>1. StageInv(y, q[y], guest'[y], sq[y], cq[y], ran[y], Served(y))
      BY <1>25, <2>4
    <3>2. QED
      BY <1>5, <1>10, <2>1, <2>4, <3>1
  <2>5. QED
    BY <1>19, <1>23, <2>2, <2>3, <2>4
<1>28. Errands'
  <2>1. /\ guest[0].stage \in {"none", "live"}
        /\ \A p \in guest[0].out : Errand(p, q[p.arg], guest[p.arg], Completed(p))
        /\ \A p, e \in guest[0].out : p.arg = e.arg => p = e
    BY DEF AccInv, Errands
  <2>2. CASE x # 0
    <3>1. guest'[0] = guest[0] /\ cq'[0] = cq[0]
      BY <1>10, <1>23, <2>2, AdminQueue
    <3>2. \A p \in guest[0].out : Completed(p)' = Completed(p)
      BY <1>5, <3>1 DEF Completed
    <3>3. \A p \in guest[0].out : p.arg \in Queue /\ p.arg # 0 /\ p.arg # x
      BY <1>1, <1>7, <2>1 DEF Errand, IoQ
    <3>4. \A p \in guest[0].out : guest'[p.arg] = guest[p.arg]
      BY <1>19, <1>23, <2>2, <3>3
    <3>5. QED
      BY ZenonT(30), <1>5, <2>1, <3>1, <3>2, <3>4 DEF Errands
  <2>3. CASE x = 0
    <3>1. guest'[0].out = g.out \ {o} /\ guest'[0].stage = "live"
      BY <1>7, <1>11, <1>17, <1>22, <2>3
    <3>2. ASSUME NEW p \in guest'[0].out PROVE Errand(p, q[p.arg], guest'[p.arg], Completed(p)')
      <4>1. p \in guest[0].out /\ p # o /\ o \in guest[0].out
        BY <1>1, <1>16, <2>3, <3>1, <3>2
      <4>2. p.arg # o.arg /\ Errand(p, q[p.arg], guest[p.arg], Completed(p))
        BY <2>1, <4>1
      <4>3. p.arg \in Queue \ {0}
        BY <4>2 DEF Errand, IoQ
      <4>4. guest'[p.arg] = guest[p.arg]
        BY <1>23, <2>3, <4>2, <4>3
      <4>5. Completed(p)' => Completed(p)
        <5> SUFFICES ASSUME Completed(p)' PROVE Completed(p)
          OBVIOUS
        <5>1. PICK k \in 0..Seen(0, q'[0], guest'[0]) - 1 : SeenList(0, guest'[0], cq'[0])[k] = p.cid
          BY DEF Completed
        <5>2. q'[0] = r /\ guest'[0] = h /\ cq'[0] = d
          BY <1>1, <1>5, <1>10, <1>22, <2>3
        <5>3. PICK V : V = Seen(0, r, g) /\ V \in Nat /\ V > 0 /\ Seen(0, r, h) = V - 1
          BY <1>15, <2>3 DEF Drops
        <5>4. k \in 0..(V - 1) - 1 /\ SeenList(0, h, d)[k] = p.cid
          BY <5>1, <5>2, <5>3
        <5>5. k \in 0..V - 2 /\ k + 1 \in 0..V - 1
          BY <5>3, <5>4
        <5>6. SeenList(0, g, c)[k + 1] = p.cid
          BY <1>15, <2>3, <5>3, <5>4, <5>5 DEF Drops
        <5>7. QED
          BY <1>1, <2>3, <5>3, <5>5, <5>6 DEF Completed
      <4>6. QED
        BY <4>2, <4>4, <4>5, ErrandLess
    <3>3. \A p, e \in guest'[0].out : p.arg = e.arg => p = e
      BY <1>1, <2>1, <2>3, <3>1
    <3>4. QED
      BY <1>5, <3>1, <3>2, <3>3 DEF Errands
  <2>4. QED
    BY <2>2, <2>3
<1>29. BellsInv'
  <2>1. \A i \in 1..Len(bells) : BellInv(bells[i], q[bells[i].q], guest[bells[i].q])
    BY DEF AccInv, BellsInv
  <2>2. \A i, j \in 1..Len(bells) : i < j /\ bells[i].q = bells[j].q =>
          Offset(bells[i], q[bells[i].q]) < Offset(bells[j], q[bells[i].q])
    BY DEF AccInv, BellsInv
  <2>3. ASSUME NEW i \in 1..Len(bells) PROVE BellInv(bells[i], q[bells[i].q], guest'[bells[i].q])
    <3>1. PICK b : b = bells[i] /\ BellInv(b, q[b.q], guest[b.q])
      BY <2>1
    <3>2. b.q \in Queue /\ guest[b.q].stage = "live"
      BY <3>1 DEF BellInv
    <3>3. CASE b.q = x
      <4>1. BellInv(b, r, h)
        BY <1>1, <1>11, <3>1, <3>3 DEF BellInv, Announced
      <4>2. QED
        BY <1>1, <1>22, <3>1, <3>3, <4>1
    <3>4. CASE b.q # x
      <4>1. b.q # o.arg \/ b.q = 0
        BY <1>19, <1>20, <3>2, <3>4 DEF Errand
      <4>2. QED
        BY <1>23, <3>1, <3>2, <3>4, <4>1
    <3>5. QED
      BY <3>3, <3>4
  <2>4. QED
    BY <1>5, <2>2, <2>3 DEF BellsInv
<1>30. QED
  BY <1>26, <1>27, <1>28, <1>29 DEF AccInv

(* What the guest may ask for of a queue whose side is g.                  *)
May(cmd, g) ==
    \/ cmd.op = "CREATE_CQ" /\ g.stage = "none"
    \/ cmd.op \in {"CREATE_SQ", "DELETE_CQ"} /\ g.stage = "cq"
    \/ cmd.op = "DELETE_SQ" /\ g.stage = "live" /\ g.out = {}

(* The queue that a command is about, when it is submitted.                *)
Starts(y, g, c, cmd, k, d) ==
    /\ k.stage = "busy"
    /\ cmd.op = "CREATE_CQ" =>
          /\ k.tail = 0 /\ k.rung = 0 /\ k.head = 0 /\ k.phase = TRUE /\ k.out = {}
          /\ \A i \in Ring(y) : d[i].phase = FALSE
    /\ cmd.op # "CREATE_CQ" => k.head = g.head /\ k.phase = g.phase /\ k.out = g.out /\ d = c
    /\ cmd.op = "CREATE_SQ" => k.tail = 0 /\ k.rung = 0
    /\ cmd.op \in {"DELETE_CQ", "DELETE_SQ"} => k.tail = g.tail /\ k.rung = g.rung

LEMMA StartStage ==
    ASSUME NEW y \in Queue, NEW r, NEW g, NEW s, NEW c, NEW rn, NEW served, NEW cmd,
           StageInv(y, r, g, s, c, rn, served), g.phase \in BOOLEAN, cmd.arg \in IoQ, May(cmd, g),
           NEW k, NEW d, Starts(y, g, c, cmd, k, d)
    PROVE  StageInv(y, r, k, s, d, rn, served) /\ Errand(cmd, r, k, FALSE) /\ k.phase \in BOOLEAN
<1>1. CASE cmd.op = "CREATE_CQ" /\ g.stage = "none"
  <2>1. /\ k.stage = "busy" /\ k.tail = 0 /\ k.rung = 0 /\ k.head = 0 /\ k.phase = TRUE /\ k.out = {}
        /\ \A i \in Ring(y) : d[i].phase = FALSE
    BY <1>1 DEF Starts
  <2>2. Old(y, k, d)
    <3>1. Depth(y) \in Nat /\ 0 \in Ring(y) /\ Ring(y) = 0..Depth(y) - 1
      BY DepthFacts
    <3>2. Shows(Depth(y), d, 0, TRUE, 0)
      BY <2>1, <3>1, ShowsNew
    <3>3. QED
      BY <2>1, <3>1, <3>2 DEF Old
  <2>3. served => r.head = r.tail
    BY <1>1 DEF StageInv
  <2>4. QED
    BY <1>1, <2>1, <2>2, <2>3 DEF StageInv, Errand
<1>2. CASE cmd.op \in {"CREATE_SQ", "DELETE_CQ"} /\ g.stage = "cq"
  <2>1. k.stage = "busy" /\ k.head = g.head /\ k.phase = g.phase /\ k.out = g.out /\ d = c
    BY <1>2 DEF Starts
  <2>2. g.out = {} /\ (served => r.head = r.tail) /\ Old(y, g, c) /\ Primed(r, g) /\ g.rung = g.tail
    BY <1>2 DEF StageInv
  <2>3. Old(y, k, d) /\ Primed(r, k)
    BY <2>1, <2>2 DEF Old, Primed
  <2>4. k.rung = k.tail /\ (cmd.op = "CREATE_SQ" => k.tail = 0 /\ k.rung = 0)
    BY <1>2, <2>2 DEF Starts
  <2>5. QED
    BY <1>2, <2>1, <2>2, <2>3, <2>4 DEF StageInv, Errand
<1>3. CASE cmd.op = "DELETE_SQ" /\ g.stage = "live" /\ g.out = {}
  <2>1. /\ k.stage = "busy" /\ k.head = g.head /\ k.phase = g.phase /\ k.out = g.out /\ d = c
        /\ k.tail = g.tail /\ k.rung = g.rung
    BY <1>3 DEF Starts
  <2>2. Lane(y, r, g, s, c, rn) /\ g.out = {}
    BY <1>3 DEF StageInv
  <2>3. Primed(r, g) /\ Old(y, g, c) /\ r.head = r.tail /\ g.rung = g.tail
    BY <2>2, LaneIdle
  <2>4. Old(y, k, d) /\ Primed(r, k)
    BY <2>1, <2>3 DEF Old, Primed
  <2>5. QED
    BY <1>3, <2>1, <2>3, <2>4 DEF StageInv, Errand
<1>4. QED
  BY <1>1, <1>2, <1>3 DEF May

(* The guest submits command cmd to queue x.                               *)
Sent(x, cmd) ==
    /\ guest[x].stage = "live" /\ guest'[x].stage = "live"
    /\ Submits(x, guest[x], sq[x], cmd, guest'[x], sq'[x])
    /\ x = 0 => cmd.arg \in IoQ /\ May(cmd, guest[cmd.arg])
    /\ \A y \in Queue \ {x} : y # cmd.arg \/ y = 0 => guest'[y] = guest[y]
    /\ \A y \in Queue : y # cmd.arg \/ y = 0 => cq'[y] = cq[y]
    /\ x = 0 => /\ Starts(cmd.arg, guest[cmd.arg], cq[cmd.arg], cmd, guest'[cmd.arg], cq'[cmd.arg])
                /\ DOMAIN cq'[cmd.arg] = Ring(cmd.arg)
                /\ \A i \in Ring(cmd.arg) : DOMAIN cq'[cmd.arg][i] = {"cid", "phase"}
    /\ DOMAIN sq' = Queue /\ DOMAIN sq'[x] = Ring(x) /\ DOMAIN ran' = Queue
    /\ ran'[x] = ran[x] \ {cmd.cid}
    /\ \A y \in Queue \ {x} : sq'[y] = sq[y] /\ ran'[y] = ran[y]
    /\ UNCHANGED <<q, bells, run>>

LEMMA SubmitSends ==
    ASSUME IrqInv, AccInv, NEW x \in Queue, Submit(x)
    PROVE  \E cmd : Sent(x, cmd)
<1>1. PICK c0 \in Cid(x) \ Out(x), m \in Commands(x) :
        LET cmd == [cid |-> c0, op |-> m.op, arg |-> m.arg]
            g   == [guest EXCEPT ![x].tail = (@ + 1) % Depth(x), ![x].out = @ \cup {cmd}]
        IN  /\ sq' = [sq EXCEPT ![x][guest[x].tail] = cmd]
            /\ guest' = IF m.arg = 0 THEN g ELSE [g EXCEPT ![m.arg] = Starting(@, m.op)]
            /\ cq' = IF m.op = "CREATE_CQ" THEN [cq EXCEPT ![m.arg] = NoRing(m.arg)] ELSE cq
            /\ ran' = [ran EXCEPT ![x] = @ \ {c0}]
  BY DEF Submit
<1> DEFINE Cmd == [cid |-> c0, op |-> m.op, arg |-> m.arg]
           G   == [guest EXCEPT ![x].tail = (@ + 1) % Depth(x), ![x].out = @ \cup {Cmd}]
<1>2. guest[x].stage = "live" /\ UNCHANGED <<q, bells, run>>
  BY DEF Submit
<1>3. /\ sq' = [sq EXCEPT ![x][guest[x].tail] = Cmd]
      /\ guest' = IF m.arg = 0 THEN G ELSE [G EXCEPT ![m.arg] = Starting(@, m.op)]
      /\ cq' = IF m.op = "CREATE_CQ" THEN [cq EXCEPT ![m.arg] = NoRing(m.arg)] ELSE cq
      /\ ran' = [ran EXCEPT ![x] = @ \ {c0}]
  BY <1>1
<1>a. Cmd.cid = c0 /\ Cmd.op = m.op /\ Cmd.arg = m.arg
  OBVIOUS
<1> HIDE DEF Cmd
<1>4. PICK cmd : cmd = Cmd /\ cmd.cid = c0 /\ cmd.op = m.op /\ cmd.arg = m.arg
  BY <1>a
<1>5. /\ DOMAIN guest = Queue /\ DOMAIN cq = Queue /\ \A y \in Queue : DOMAIN guest[y] = GuestFields
      /\ DOMAIN sq = Queue /\ DOMAIN ran = Queue /\ \A y \in Queue : DOMAIN sq[y] = Ring(y) /\ DOMAIN cq[y] = Ring(y)
      /\ \A y \in Queue : \A i \in Ring(y) : DOMAIN cq[y][i] = {"cid", "phase"}
  BY DEF IrqInv, Fields, AccInv, Shapes
<1>6. /\ x # 0 => cmd.op = "IO" /\ cmd.arg = 0
      /\ x = 0 => cmd.arg \in IoQ /\ May(cmd, guest[cmd.arg])
      /\ cmd.op = "CREATE_CQ" => x = 0
  BY <1>4 DEF Commands, May
<1>7. /\ DOMAIN G = Queue /\ \A y \in Queue \ {x} : G[y] = guest[y]
      /\ DOMAIN G[x] = GuestFields /\ G[x].tail = (guest[x].tail + 1) % Depth(x)
      /\ G[x].out = guest[x].out \cup {cmd} /\ G[x].head = guest[x].head /\ G[x].phase = guest[x].phase
      /\ G[x].rung = guest[x].rung /\ G[x].stage = guest[x].stage
  BY <1>4, <1>5 DEF GuestFields
<1> HIDE DEF G
<1>8. \A y \in Queue : y # cmd.arg \/ y = 0 => guest'[y] = G[y] /\ cq'[y] = cq[y]
  <2> SUFFICES ASSUME NEW y \in Queue, y # cmd.arg \/ y = 0 PROVE guest'[y] = G[y] /\ cq'[y] = cq[y]
    OBVIOUS
  <2>1. guest'[y] = G[y]
    BY <1>3, <1>4, <1>7
  <2>2. cq'[y] = cq[y]
    BY <1>3, <1>4, <1>5, <1>6 DEF IoQ
  <2>3. QED
    BY <2>1, <2>2
<1>9. guest'[x] = G[x]
  BY <1>6, <1>8 DEF IoQ
<1>10. guest[x].tail \in Ring(x)
  <2>1. StageInv(x, q[x], guest[x], sq[x], cq[x], ran[x], Served(x))
    BY DEF AccInv, Stages
  <2>2. QED
    BY <1>2, <2>1 DEF StageInv, Lane
<1>11. /\ DOMAIN sq' = Queue /\ DOMAIN sq'[x] = Ring(x) /\ sq'[x][guest[x].tail] = cmd
       /\ \A i \in Ring(x) : i # guest[x].tail => sq'[x][i] = sq[x][i]
       /\ \A y \in Queue \ {x} : sq'[y] = sq[y]
  BY <1>3, <1>4, <1>5, <1>10
<1>12. /\ DOMAIN ran' = Queue /\ ran'[x] = ran[x] \ {cmd.cid} /\ \A y \in Queue \ {x} : ran'[y] = ran[y]
  BY <1>3, <1>4, <1>5
<1>13. Submits(x, guest[x], sq[x], cmd, guest'[x], sq'[x])
  <2>1. cmd.cid \in Cid(x) /\ \A o \in guest[x].out : o.cid # cmd.cid
    BY <1>4 DEF Out
  <2>2. QED
    BY <1>6, <1>7, <1>9, <1>11, <2>1 DEF Submits
<1>14. ASSUME x = 0
       PROVE  /\ Starts(cmd.arg, guest[cmd.arg], cq[cmd.arg], cmd, guest'[cmd.arg], cq'[cmd.arg])
              /\ DOMAIN cq'[cmd.arg] = Ring(cmd.arg)
              /\ \A i \in Ring(cmd.arg) : DOMAIN cq'[cmd.arg][i] = {"cid", "phase"}
  <2>1. PICK y : y = cmd.arg /\ y \in Queue /\ y # 0 /\ y # x
    BY <1>6, <1>14 DEF IoQ
  <2>2. PICK g, k, c, d : g = guest[y] /\ k = guest'[y] /\ c = cq[y] /\ d = cq'[y]
    OBVIOUS
  <2>3. k = Starting(g, cmd.op) /\ DOMAIN g = GuestFields
    BY <1>3, <1>4, <1>5, <1>7, <2>1, <2>2
  <2>4. (cmd.op = "CREATE_CQ" => d = NoRing(y)) /\ (cmd.op # "CREATE_CQ" => d = c)
    BY <1>3, <1>4, <1>5, <2>1, <2>2
  <2>5. DOMAIN d = Ring(y) /\ \A i \in Ring(y) : DOMAIN d[i] = {"cid", "phase"}
    <3>1. DOMAIN c = Ring(y) /\ \A i \in Ring(y) : DOMAIN c[i] = {"cid", "phase"}
      BY <1>5, <2>1, <2>2
    <3>2. DOMAIN NoRing(y) = Ring(y) /\ \A i \in Ring(y) : DOMAIN NoRing(y)[i] = {"cid", "phase"}
      BY <2>1, RingShapes
    <3>3. d = c \/ d = NoRing(y)
      BY <2>4
    <3>4. QED
      BY <3>1, <3>2, <3>3
  <2>6. CASE cmd.op = "CREATE_CQ"
    <3>1. k = [NoGuest EXCEPT !.stage = "busy"]
      BY <2>3, <2>6 DEF Starting
    <3>2. k.stage = "busy" /\ k.tail = 0 /\ k.rung = 0 /\ k.head = 0 /\ k.phase = TRUE /\ k.out = {}
      BY <3>1 DEF NoGuest
    <3>3. \A i \in Ring(y) : d[i].phase = FALSE
      BY <2>1, <2>4, <2>6, RingShapes
    <3>4. Starts(y, g, c, cmd, k, d)
      BY <2>6, <3>2, <3>3 DEF Starts
    <3>5. QED
      BY <2>1, <2>2, <2>5, <3>4
  <2>7. CASE cmd.op = "CREATE_SQ"
    <3>1. k = [g EXCEPT !.stage = "busy", !.tail = 0, !.rung = 0]
      BY <2>3, <2>7 DEF Starting
    <3>2. Starts(y, g, c, cmd, k, d)
      BY <2>3, <2>4, <2>7, <3>1 DEF Starts, GuestFields
    <3>3. QED
      BY <2>1, <2>2, <2>5, <3>2
  <2>8. CASE cmd.op # "CREATE_CQ" /\ cmd.op # "CREATE_SQ"
    <3>1. k = [g EXCEPT !.stage = "busy"]
      BY <2>3, <2>8 DEF Starting
    <3>2. Starts(y, g, c, cmd, k, d)
      BY <2>3, <2>4, <2>8, <3>1 DEF Starts, GuestFields
    <3>3. QED
      BY <2>1, <2>2, <2>5, <3>2
  <2>9. QED
    BY <2>6, <2>7, <2>8
<1>15. \A y \in Queue \ {x} : y # cmd.arg \/ y = 0 => guest'[y] = guest[y]
  BY <1>7, <1>8
<1>16. guest'[x].stage = "live"
  BY <1>2, <1>7, <1>9
<1>17. Sent(x, cmd)
  BY <1>2, <1>6, <1>8, <1>11, <1>12, <1>13, <1>14, <1>15, <1>16 DEF Sent
<1>18. QED
  BY <1>17

(* No bell is under way to a queue that has nothing out.                   *)
LEMMA IdleNoBell ==
    ASSUME NEW f, NEW r, NEW g, NEW s, NEW c, NEW rn, BellInv(f, r, g), Lane(f.q, r, g, s, c, rn)
    PROVE  g.out # {}
<1> SUFFICES ASSUME g.out = {} PROVE FALSE
  OBVIOUS
<1> DEFINE n == Depth(f.q)
<1>1. f.q \in Queue /\ n \in Nat /\ Ring(f.q) = 0..n - 1
  BY DepthFacts DEF BellInv
<1>2. Taken(f.q, r) = 0 /\ Announced(f.q, r, g) = 0
  BY <1>1, LaneIdle
<1>3. f.tail \in 0..n - 1 /\ r.head \in 0..n - 1
  BY <1>1 DEF BellInv, Lane
<1>4. Offset(f, r) = Way(n, r.head, f.tail)
  BY DEF Offset
<1> HIDE DEF n
<1>5. Offset(f, r) \in Nat
  BY <1>1, <1>3, <1>4, WayType
<1>6. QED
  BY <1>2, <1>5 DEF BellInv

LEMMA AccSubmit ==
    ASSUME IrqInv, AccInv, NEW x \in Queue, Submit(x)
    PROVE  AccInv'
<1>1. PICK cmd : Sent(x, cmd)
  BY SubmitSends
<1>2. PICK r, s, c, rn, g, h, t : /\ r = q[x] /\ s = sq[x] /\ c = cq[x] /\ rn = ran[x] /\ g = guest[x]
                                  /\ h = guest'[x] /\ t = sq'[x]
  OBVIOUS
<1>3. /\ g.stage = "live" /\ h.stage = "live" /\ Submits(x, g, s, cmd, h, t)
      /\ \A y \in Queue \ {x} : y # cmd.arg \/ y = 0 => guest'[y] = guest[y]
      /\ \A y \in Queue : y # cmd.arg \/ y = 0 => cq'[y] = cq[y]
  BY <1>1, <1>2 DEF Sent
<1>4. /\ DOMAIN sq' = Queue /\ DOMAIN t = Ring(x) /\ DOMAIN ran' = Queue
      /\ ran'[x] = rn \ {cmd.cid}
      /\ \A y \in Queue \ {x} : sq'[y] = sq[y] /\ ran'[y] = ran[y]
      /\ q' = q /\ bells' = bells /\ run' = run
  BY <1>1, <1>2 DEF Sent
<1>5. x # 0 => cmd.arg = 0
  BY <1>3 DEF Submits
<1>6. x = 0 => cmd.arg \in IoQ /\ cmd.arg \in Queue /\ cmd.arg # 0 /\ May(cmd, guest[cmd.arg])
  BY <1>1 DEF Sent, IoQ
<1>7. cq'[x] = c
  BY <1>2, <1>3, <1>5, <1>6
<1>8. Lane(x, r, g, s, c, rn)
  <2>1. StageInv(x, r, g, s, c, rn, Served(x))
    BY <1>2 DEF AccInv, Stages
  <2>2. QED
    BY <1>3, <2>1 DEF StageInv
<1>9. Lane(x, r, h, t, c, rn \ {cmd.cid})
  BY <1>3, <1>8, LaneSubmit
<1>10. /\ h.head = g.head /\ h.phase = g.phase /\ h.rung = g.rung /\ h.out = g.out \cup {cmd}
       /\ \A o \in g.out : o.cid # cmd.cid
  BY <1>3 DEF Submits
<1>11. ASSUME x = 0
       PROVE  /\ StageInv(cmd.arg, q[cmd.arg], guest'[cmd.arg], sq[cmd.arg], cq'[cmd.arg], ran[cmd.arg],
                          Served(cmd.arg))
              /\ Errand(cmd, q[cmd.arg], guest'[cmd.arg], FALSE)
              /\ guest'[cmd.arg].phase \in BOOLEAN
              /\ DOMAIN cq'[cmd.arg] = Ring(cmd.arg)
              /\ \A i \in Ring(cmd.arg) : DOMAIN cq'[cmd.arg][i] = {"cid", "phase"}
  <2>1. PICK y, r1, k1, s1, c1, rn1, k, d, served :
           /\ y = cmd.arg /\ r1 = q[y] /\ k1 = guest[y] /\ s1 = sq[y] /\ c1 = cq[y] /\ rn1 = ran[y]
           /\ k = guest'[y] /\ d = cq'[y] /\ served = Served(y)
    OBVIOUS
  <2>2. y \in Queue /\ StageInv(y, r1, k1, s1, c1, rn1, served) /\ k1.phase \in BOOLEAN
    BY <1>6, <1>11, <2>1 DEF AccInv, Shapes, Stages
  <2>3. cmd.arg \in IoQ /\ May(cmd, k1) /\ Starts(y, k1, c1, cmd, k, d)
    BY <1>1, <1>11, <2>1 DEF Sent
  <2>4. DOMAIN d = Ring(y) /\ \A i \in Ring(y) : DOMAIN d[i] = {"cid", "phase"}
    BY <1>1, <1>11, <2>1 DEF Sent
  <2>5. StageInv(y, r1, k, s1, d, rn1, served) /\ Errand(cmd, r1, k, FALSE) /\ k.phase \in BOOLEAN
    BY <2>2, <2>3, StartStage
  <2>6. QED
    BY <2>1, <2>4, <2>5
<1>12. Shapes'
  <2>1. \A y \in Queue : guest'[y].phase \in BOOLEAN
    <3>1. \A y \in Queue : guest[y].phase \in BOOLEAN
      BY DEF AccInv, Shapes
    <3>2. QED
      BY <1>2, <1>3, <1>5, <1>10, <1>11, <3>1
  <2>2. \A y \in Queue : DOMAIN cq'[y] = Ring(y) /\ \A i \in Ring(y) : DOMAIN cq'[y][i] = {"cid", "phase"}
    <3>1. \A y \in Queue : DOMAIN cq[y] = Ring(y) /\ \A i \in Ring(y) : DOMAIN cq[y][i] = {"cid", "phase"}
      BY DEF AccInv, Shapes
    <3> SUFFICES ASSUME NEW y \in Queue
                 PROVE  DOMAIN cq'[y] = Ring(y) /\ \A i \in Ring(y) : DOMAIN cq'[y][i] = {"cid", "phase"}
      OBVIOUS
    <3>2. CASE y # cmd.arg \/ y = 0
      BY <1>3, <3>1, <3>2
    <3>3. CASE y = cmd.arg /\ y # 0
      BY <1>5, <1>11, <3>3
    <3>4. QED
      BY <3>2, <3>3
  <2>3. \A y \in Queue : DOMAIN sq'[y] = Ring(y)
    BY <1>2, <1>4 DEF AccInv, Shapes
  <2>4. QED
    BY <1>4, <2>1, <2>2, <2>3 DEF AccInv, Shapes
<1>13. Stages'
  <2> SUFFICES ASSUME NEW y \in Queue
               PROVE  StageInv(y, q'[y], guest'[y], sq'[y], cq'[y], ran'[y], Served(y)')
    BY DEF Stages
  <2>1. Served(y)' = Served(y)
    BY <1>4 DEF Served
  <2>2. CASE y = x
    <3>1. StageInv(x, r, h, t, c, rn \ {cmd.cid}, Served(x))
      BY <1>3, <1>9 DEF StageInv
    <3>2. QED
      BY <1>2, <1>4, <1>7, <2>1, <2>2, <3>1
  <2>3. CASE y # x /\ guest'[y] = guest[y] /\ cq'[y] = cq[y]
    <3>1. StageInv(y, q[y], guest[y], sq[y], cq[y], ran[y], Served(y))
      BY DEF AccInv, Stages
    <3>2. QED
      BY <1>4, <2>1, <2>3, <3>1
  <2>4. CASE y # x /\ x = 0 /\ y = cmd.arg
    <3>1. StageInv(y, q[y], guest'[y], sq[y], cq'[y], ran[y], Served(y))
      BY <1>11, <2>4
    <3>2. QED
      BY <1>4, <2>1, <2>4, <3>1
  <2>5. QED
    BY <1>3, <1>5, <2>2, <2>3, <2>4
<1>14. Errands'
  <2>1. /\ guest[0].stage \in {"none", "live"}
        /\ \A p \in guest[0].out : Errand(p, q[p.arg], guest[p.arg], Completed(p))
        /\ \A p, e \in guest[0].out : p.arg = e.arg => p = e
    BY DEF AccInv, Errands
  <2>2. cq'[0] = cq[0] /\ guest'[0].head = guest[0].head
    BY <1>2, <1>3, <1>10, AdminQueue
  <2>3. Seen(0, q[0], guest'[0]) = Seen(0, q[0], guest[0]) /\ SeenList(0, guest'[0], cq[0]) = SeenList(0, guest[0], cq[0])
    BY <2>2 DEF Seen, SeenList
  <2>4. \A p : Completed(p)' = Completed(p)
    BY <1>4, <2>2, <2>3 DEF Completed
  <2>5. CASE x # 0
    <3>1. guest'[0] = guest[0]
      BY <1>3, <2>5, AdminQueue
    <3>2. \A p \in guest[0].out : p.arg \in Queue /\ p.arg # x /\ p.arg # 0
      BY <1>2, <1>3, <2>1 DEF Errand, IoQ
    <3>3. \A p \in guest[0].out : guest'[p.arg] = guest[p.arg]
      BY <1>3, <1>5, <2>5, <3>2
    <3>4. QED
      BY <1>4, <2>1, <2>4, <3>1, <3>3 DEF Errands
  <2>6. CASE x = 0
    <3>1. guest'[0].out = guest[0].out \cup {cmd} /\ guest'[0].stage = "live"
      BY <1>2, <1>3, <1>10, <2>6
    <3>2. ASSUME NEW p \in guest[0].out
          PROVE  Errand(p, q[p.arg], guest'[p.arg], Completed(p)') /\ p.arg # cmd.arg
      <4>1. Errand(p, q[p.arg], guest[p.arg], Completed(p)) /\ p.arg \in Queue /\ p.arg # 0
            /\ guest[p.arg].stage = "busy"
        BY <2>1, <3>2 DEF Errand, IoQ
      <4>2. p.arg # cmd.arg
        BY <1>6, <2>6, <4>1 DEF May
      <4>3. guest'[p.arg] = guest[p.arg]
        BY <1>3, <2>6, <4>1, <4>2
      <4>4. Completed(p)' = Completed(p)
        BY <2>4
      <4>5. QED
        BY <4>1, <4>2, <4>3, <4>4
    <3>3. Errand(cmd, q[cmd.arg], guest'[cmd.arg], Completed(cmd)')
      <4>1. ~Completed(cmd)
        <5> SUFFICES ASSUME Completed(cmd) PROVE FALSE
          OBVIOUS
        <5>1. PICK k \in 0..Seen(x, r, g) - 1 : SeenList(x, g, c)[k] = cmd.cid
          BY <1>2, <2>6 DEF Completed
        <5>2. \E o \in g.out : o.cid = SeenList(x, g, c)[k]
          BY <1>8 DEF Lane, Spread
        <5>3. QED
          BY <1>10, <5>1, <5>2
      <4>2. Completed(cmd)' = FALSE
        BY <2>4, <4>1
      <4>3. QED
        BY <1>11, <2>6, <4>2
    <3>4. \A p, e \in guest'[0].out : p.arg = e.arg => p = e
      BY <2>1, <3>1, <3>2
    <3>5. \A p \in guest'[0].out : Errand(p, q[p.arg], guest'[p.arg], Completed(p)')
      BY <3>1, <3>2, <3>3
    <3>6. QED
      BY <1>4, <3>1, <3>4, <3>5 DEF Errands
  <2>7. QED
    BY <2>5, <2>6
<1>15. BellsInv'
  <2>1. \A i \in 1..Len(bells) : BellInv(bells[i], q[bells[i].q], guest[bells[i].q])
    BY DEF AccInv, BellsInv
  <2>2. \A i, j \in 1..Len(bells) : i < j /\ bells[i].q = bells[j].q =>
          Offset(bells[i], q[bells[i].q]) < Offset(bells[j], q[bells[i].q])
    BY DEF AccInv, BellsInv
  <2>3. ASSUME NEW i \in 1..Len(bells) PROVE BellInv(bells[i], q[bells[i].q], guest'[bells[i].q])
    <3>1. PICK f : f = bells[i] /\ BellInv(f, q[f.q], guest[f.q])
      BY <2>1
    <3>2. f.q \in Queue /\ guest[f.q].stage = "live"
      BY <3>1 DEF BellInv
    <3>3. CASE f.q = x
      <4>1. BellInv(f, r, h)
        BY <1>2, <1>3, <1>10, <3>1, <3>3 DEF BellInv, Announced
      <4>2. QED
        BY <1>2, <3>1, <3>3, <4>1
    <3>4. CASE f.q # x
      <4>1. guest[f.q].out # {}
        <5>1. PICK r1, g1, s1, c1, rn1 : /\ r1 = q[f.q] /\ g1 = guest[f.q] /\ s1 = sq[f.q] /\ c1 = cq[f.q]
                                         /\ rn1 = ran[f.q]
          OBVIOUS
        <5>2. StageInv(f.q, r1, g1, s1, c1, rn1, Served(f.q))
          BY <3>2, <5>1 DEF AccInv, Stages
        <5>3. BellInv(f, r1, g1) /\ Lane(f.q, r1, g1, s1, c1, rn1)
          BY <3>1, <3>2, <5>1, <5>2 DEF StageInv
        <5>4. QED
          BY <5>1, <5>3, IdleNoBell
      <4>2. f.q # cmd.arg \/ f.q = 0
        BY <1>5, <1>6, <3>2, <4>1 DEF May
      <4>3. QED
        BY <1>3, <3>1, <3>2, <3>4, <4>2
    <3>5. QED
      BY <3>3, <3>4
  <2>4. QED
    BY <1>4, <2>2, <2>3 DEF BellsInv
<1>16. QED
  BY <1>12, <1>13, <1>14, <1>15 DEF AccInv

LEMMA AccNext ==
    ASSUME IrqInv, AccInv, [VfioNext]_vfioVars
    PROVE  AccInv'
<1>1. CASE \/ Connect \/ ServeEnd \/ TakesIrq \/ IrqDone \/ UNCHANGED vfioVars
           \/ \E a \in Area, low \in BOOLEAN : DmaMap(a, low) \/ DmaUnmap(<<a, low>>)
           \/ \E b \in BOOLEAN : handle_device_set_irqs(b) \/ pci_config_write(b)
  <2>1. UNCHANGED <<q, guest, sq, cq, ran, bells>>
    BY <1>1 DEF Connect, DmaMap, DmaUnmap, handle_device_set_irqs, pci_config_write, ServeEnd, TakesIrq,
                IrqDone, vfioVars
  <2>2. run' = run \/ ~run'.on
    <3>1. CASE ServeEnd
      BY <3>1 DEF ServeEnd, LoopEnds, NoRun
    <3>2. CASE ~ServeEnd
      BY <1>1, <3>2 DEF Connect, DmaMap, DmaUnmap, handle_device_set_irqs, pci_config_write, TakesIrq,
                        IrqDone, vfioVars
    <3>3. QED
      BY <3>1, <3>2
  <2>3. QED
    BY <2>1, <2>2, AccSame
<1>2. CASE VfioClose \/ DeviceReset \/ DisableCtrl
  <2>1. GuestForgets /\ bells' = <<>> /\ UNCHANGED run /\ ~run.on
    BY <1>2 DEF VfioClose, DeviceReset, DisableCtrl, Sync
  <2>2. DOMAIN q' = Queue /\ \A x \in Queue : DOMAIN q'[x] = QueueFields
    <3>1. CASE q' = [x \in Queue |-> NoQueue]
      BY <3>1 DEF NoQueue, QueueFields
    <3>2. CASE q' = [q EXCEPT ![0] = Reset0]
      <4>1. DOMAIN q = Queue /\ \A x \in Queue : DOMAIN q[x] = QueueFields
        BY DEF AccInv, Shapes
      <4>2. DOMAIN Reset0 = QueueFields
        BY <4>1, AdminQueue DEF Reset0
      <4>3. QED
        BY <3>2, <4>1, <4>2
    <3>3. QED
      BY <1>2, <3>1, <3>2 DEF VfioClose, DeviceReset, DisableCtrl
  <2>3. QED
    BY <2>1, <2>2, AccForget
<1>3. ASSUME NEW r0 \in {"AQA", "ASQ", "ACQ"}, RegWrite(r0) PROVE AccInv'
  <2>1. PICK r : r = regs'
    OBVIOUS
  <2>2. /\ q' = [q EXCEPT ![0] = FromRegs(r)] /\ UNCHANGED <<sq, cq, ran, bells, run>>
        /\ guest[0].stage = "none" /\ guest' = guest
    BY <1>3, <2>1 DEF RegWrite
  <2>3. QED
    BY <2>2, AccAdmin
<1>4. CASE EnableCtrl
  <2>1. PICK r : r = regs
    OBVIOUS
  <2>2. /\ q' = [q EXCEPT ![0] = FromRegs(r)] /\ UNCHANGED <<sq, cq, ran, bells, run>>
        /\ guest[0].stage = "none"
        /\ guest' = [guest EXCEPT ![0] = [NoGuest EXCEPT !.stage = "live"]]
        /\ {"ASQ", "ACQ"} \subseteq r
    BY <1>4, <2>1 DEF EnableCtrl
  <2>3. QED
    BY <2>2, AccAdmin
<1>5. CASE Doorbell
  BY <1>5, AccDoorbell
<1>6. CASE Serve
  BY <1>6, AccServe
<1>7. CASE ServeNoCq
  BY <1>7, AccServeNoCq
<1>8. ASSUME NEW x \in Queue, Consume(x) PROVE AccInv'
  BY <1>8, AccConsume
<1>9. ASSUME NEW x \in Queue, Submit(x) \/ Rings(x) PROVE AccInv'
  BY <1>9, AccSubmit, AccRings
<1>10. QED
  BY <1>1, <1>2, <1>3, <1>4, <1>5, <1>6, <1>7, <1>8, <1>9
     DEF VfioNext, VfioServing, Guest

LEMMA SpotMod ==
    ASSUME NEW n \in Nat, NEW i \in 0..n - 1, NEW k \in 0..n - 1
    PROVE  (i + k) % n = Spot(n, i, k)
<1> DEFINE e == i + k
<1>1. n \in Nat \ {0} /\ e \in 0..2 * n - 2
  OBVIOUS
<1> HIDE DEF e
<1>2. e % n = IF e < n THEN e ELSE e - n
  BY <1>1
<1>3. QED
  BY <1>2 DEF e, Spot

LEMMA WayMod ==
    ASSUME NEW n \in Nat, NEW i \in 0..n - 1, NEW j \in 0..n - 1
    PROVE  (j + n - i) % n = Way(n, i, j)
<1> DEFINE e == j + n - i
<1>1. n \in Nat \ {0} /\ e \in 0..2 * n - 1 /\ (e < n <=> j < i)
  OBVIOUS
<1>2. e < n => e = j - i + n
  OBVIOUS
<1>3. e - n = j - i
  OBVIOUS
<1> HIDE DEF e
<1>4. e % n = IF e < n THEN e ELSE e - n
  BY <1>1
<1>5. e % n = Way(n, i, j)
  BY <1>1, <1>2, <1>3, <1>4 DEF Way
<1>6. QED
  BY <1>5 DEF e

(* The guest that follows the phase tag finds the completions that are     *)
(* shown, and the ring between the heads holds the commands that wait.     *)
LEMMA FreshSeen ==
    ASSUME NEW x \in Queue, NEW V \in Nat, V < Depth(x), guest[x].head \in Ring(x),
           Shows(Depth(x), cq[x], guest[x].head, guest[x].phase, V), NEW k \in Ring(x)
    PROVE  Fresh(x, k) <=> k < V
<1> DEFINE n == Depth(x)
           h == guest[x].head
           p == guest[x].phase
<1>1. n \in Nat /\ Ring(x) = 0..n - 1
  BY DepthFacts
<1>2. ASSUME NEW j \in 0..k
      PROVE  (cq[x][(h + j) % n].phase = PhaseAt(x, j)) <=> j < V
  <2>1. j \in 0..n - 1 /\ h \in 0..n - 1
    BY <1>1
  <2>2. (h + j) % n = Spot(n, h, j)
    BY <1>1, <2>1, SpotMod
  <2>3. PhaseAt(x, j) = PhaseOf(n, h, p, j)
    BY DEF PhaseAt, PhaseOf
  <2>4. cq[x][Spot(n, h, j)].phase = PhaseOf(n, h, p, j) <=> j < V
    BY <2>1 DEF Shows
  <2>5. QED
    BY <2>2, <2>3, <2>4
<1>3. Fresh(x, k) <=> \A j \in 0..k : cq[x][(h + j) % n].phase = PhaseAt(x, j)
  BY DEF Fresh
<1> HIDE DEF n, h, p
<1>4. Fresh(x, k) <=> \A j \in 0..k : j < V
  BY <1>2, <1>3
<1>5. k \in Nat /\ k \in 0..k
  BY <1>1
<1>6. (\A j \in 0..k : j < V) <=> k < V
  BY <1>5
<1>7. QED
  BY <1>4, <1>6

LEMMA LaneMeans ==
    ASSUME NEW x \in Queue, Lane(x, q[x], guest[x], sq[x], cq[x], ran[x])
    PROVE  /\ q[x].valid
           /\ Out(x) = ToSet(Waiting(x)) \cup Visible(x)
           /\ ToSet(Waiting(x)) \cap Visible(x) = {} /\ IsInjective(Waiting(x))
           /\ \A i \in 2..Len(Waiting(x)) : Waiting(x)[i] \notin ran[x]
           /\ Visible(x) \subseteq ran[x]
<1>1. PICK r, s, c, rn, g : r = q[x] /\ s = sq[x] /\ c = cq[x] /\ rn = ran[x] /\ g = guest[x]
  OBVIOUS
<1> DEFINE n == Depth(x)
           W == Waits(x, r, g)
           V == Seen(x, r, g)
           w == WaitList(x, r, s)
           v == SeenList(x, g, c)
<1>2. Lane(x, r, g, s, c, rn)
  BY <1>1
<1>3. n \in Nat /\ n > 0 /\ Ring(x) = 0..n - 1
  BY DepthFacts
<1>4. W \in 0..n - 1 /\ W \in Nat /\ V \in 0..n - 1 /\ V \in Nat /\ V < n
  <2>1. W \in Ring(x) /\ W \in Nat /\ V \in Ring(x) /\ V \in Nat
    BY <1>2, LaneRoom
  <2> HIDE DEF n, W, V
  <2>2. QED
    BY <1>3, <2>1
<1>5. r.head \in 0..n - 1 /\ g.tail \in 0..n - 1 /\ g.head \in 0..n - 1
  BY <1>2, <1>3 DEF Lane
<1>6. Spread(w, W, v, V, g.out, rn) /\ Shows(n, c, g.head, g.phase, V) /\ r.valid
  BY <1>2 DEF Lane
<1>7. /\ \A i \in 0..n - 1 : w[i] = s[Spot(n, r.head, i)]
      /\ \A k \in 0..n - 1 : v[k] = c[Spot(n, g.head, k)].cid
  BY <1>3 DEF WaitList, SeenList
<1>8. W = Way(n, r.head, g.tail)
  BY DEF Waits
<1> HIDE DEF n, W, V, w, v
<1>9. Waiting(x) = [i \in 1..W |-> s[(r.head + i - 1) % n].cid]
  <2>1. (g.tail + n - r.head) % n = W
    BY <1>3, <1>5, <1>8, WayMod
  <2>2. QED
    BY <1>1, <2>1 DEF Waiting, n
<1>10. ASSUME NEW i \in 1..W PROVE Waiting(x)[i] = w[i - 1].cid /\ i - 1 \in 0..W - 1
  <2>1. i - 1 \in 0..n - 1 /\ i - 1 \in 0..W - 1
    BY <1>3, <1>4
  <2>2. r.head + i - 1 = r.head + (i - 1)
    BY <1>5
  <2>3. (r.head + (i - 1)) % n = Spot(n, r.head, i - 1)
    BY <1>3, <1>5, <2>1, SpotMod
  <2>4. QED
    BY <1>7, <1>9, <2>1, <2>2, <2>3
<1>11. DOMAIN Waiting(x) = 1..W /\ Len(Waiting(x)) = W
  BY <1>4, <1>9
<1>12. \A e : e \in Visible(x) <=> \E k \in 0..V - 1 : v[k] = e
  <2>1. ASSUME NEW k \in 0..n - 1
        PROVE  (Fresh(x, k) <=> k < V) /\ c[(g.head + k) % n].cid = v[k]
    <3>1. Fresh(x, k) <=> k < V
      <4>1. /\ V < Depth(x) /\ guest[x].head \in Ring(x) /\ k \in Ring(x)
            /\ Shows(Depth(x), cq[x], guest[x].head, guest[x].phase, V)
        BY <1>1, <1>3, <1>4, <1>5, <1>6 DEF n
      <4>2. QED
        BY <1>4, <4>1, FreshSeen
    <3>2. (g.head + k) % n = Spot(n, g.head, k)
      BY <1>3, <1>5, SpotMod
    <3>3. QED
      BY <1>7, <3>1, <3>2
  <2>2. \A e : e \in Visible(x) <=> \E k \in 0..n - 1 : Fresh(x, k) /\ c[(g.head + k) % n].cid = e
    BY <1>1, <1>3 DEF Visible, n
  <2>3. \A k \in 0..n - 1 : k < V <=> k \in 0..V - 1
    BY <1>3, <1>4
  <2>4. 0..V - 1 \subseteq 0..n - 1
    BY <1>3, <1>4
  <2>5. QED
    BY <2>1, <2>2, <2>3, <2>4
<1>13. \A e : e \in ToSet(Waiting(x)) <=> \E i \in 0..W - 1 : w[i].cid = e
  <2>1. \A e : e \in ToSet(Waiting(x)) <=> \E i \in 1..W : Waiting(x)[i] = e
    BY <1>11 DEF ToSet
  <2>2. ASSUME NEW e, NEW i \in 0..W - 1, w[i].cid = e PROVE \E j \in 1..W : Waiting(x)[j] = e
    <3>1. i + 1 \in 1..W /\ (i + 1) - 1 = i
      BY <1>4
    <3>2. Waiting(x)[i + 1] = w[(i + 1) - 1].cid
      BY <1>10, <3>1
    <3>3. QED
      BY <2>2, <3>1, <3>2
  <2>3. ASSUME NEW e, NEW j \in 1..W, Waiting(x)[j] = e PROVE \E i \in 0..W - 1 : w[i].cid = e
    BY <1>10, <2>3
  <2>4. QED
    BY <2>1, <2>2, <2>3
<1>14. \A e : e \in Out(x) <=> \E o \in g.out : o.cid = e
  BY <1>1 DEF Out
<1>15. Out(x) = ToSet(Waiting(x)) \cup Visible(x)
  <2>1. ASSUME NEW e, e \in Out(x) PROVE e \in ToSet(Waiting(x)) \/ e \in Visible(x)
    <3>1. PICK o \in g.out : o.cid = e
      BY <1>14, <2>1
    <3>2. (\E i \in 0..W - 1 : w[i] = o) \/ (\E k \in 0..V - 1 : v[k] = o.cid)
      BY <1>6 DEF Spread
    <3>3. QED
      BY <1>12, <1>13, <3>1, <3>2
  <2>2. ASSUME NEW e, e \in ToSet(Waiting(x)) \/ e \in Visible(x) PROVE e \in Out(x)
    <3>1. CASE e \in ToSet(Waiting(x))
      <4>1. PICK i \in 0..W - 1 : w[i].cid = e
        BY <1>13, <3>1
      <4>2. w[i] \in g.out
        BY <1>6 DEF Spread
      <4>3. QED
        BY <1>14, <4>1, <4>2
    <3>2. CASE e \in Visible(x)
      <4>1. PICK k \in 0..V - 1 : v[k] = e
        BY <1>12, <3>2
      <4>2. \E o \in g.out : o.cid = v[k]
        BY <1>6 DEF Spread
      <4>3. QED
        BY <1>14, <4>1, <4>2
    <3>3. QED
      BY <2>2, <3>1, <3>2
  <2>3. QED
    BY <2>1, <2>2
<1>16. ToSet(Waiting(x)) \cap Visible(x) = {}
  <2>1. \A i \in 0..W - 1, k \in 0..V - 1 : w[i].cid # v[k]
    BY <1>6 DEF Spread
  <2>2. QED
    BY <1>12, <1>13, <2>1
<1>17. IsInjective(Waiting(x))
  <2>1. \A i, j \in 0..W - 1 : w[i].cid = w[j].cid => i = j
    BY <1>6 DEF Spread
  <2>2. ASSUME NEW i \in 1..W, NEW j \in 1..W, Waiting(x)[i] = Waiting(x)[j] PROVE i = j
    <3>1. i - 1 = j - 1
      BY <1>10, <2>1, <2>2
    <3>2. QED
      BY <1>4, <3>1
  <2>3. QED
    BY <1>11, <2>2 DEF IsInjective
<1>18. ASSUME NEW i \in 2..Len(Waiting(x)) PROVE Waiting(x)[i] \notin ran[x]
  <2>1. i \in 1..W /\ i - 1 \in 1..W - 1
    BY <1>4, <1>11
  <2>2. w[i - 1].cid \notin rn
    BY <1>6, <2>1 DEF Spread
  <2>3. QED
    BY <1>1, <1>10, <2>1, <2>2
<1>19. Visible(x) \subseteq ran[x]
  <2>1. \A k \in 0..V - 1 : v[k] \in rn
    BY <1>6 DEF Spread
  <2>2. QED
    BY <1>1, <1>12, <2>1
<1>20. q[x].valid
  BY <1>1, <1>6
<1>21. QED
  BY <1>15, <1>16, <1>17, <1>18, <1>19, <1>20

LEMMA AccMeans == AccInv => CommandsAccounted
<1> SUFFICES ASSUME AccInv, NEW x \in Queue, guest[x].stage = "live"
             PROVE  Lane(x, q[x], guest[x], sq[x], cq[x], ran[x])
  BY LaneMeans DEF CommandsAccounted
<1>1. StageInv(x, q[x], guest[x], sq[x], cq[x], ran[x], Served(x))
  BY DEF AccInv, Stages
<1>2. QED
  BY <1>1 DEF StageInv

(* vfio-user: every command the guest has out on a live queue waits in the *)
(* submission ring or is shown in the completion ring, exactly once, and   *)
(* only the first that waits may have run, for every number and depth of   *)
(* queues, through laps of the rings, doorbells under way, queues created  *)
(* and deleted, resets, and rings that are not mapped.                     *)
THEOREM CommandsNeverLost == Spec => []CommandsAccounted
<1>1. Init => IrqInv /\ AccInv
  BY IrqInit, AccInit DEF Init
<1>2. IrqInv /\ AccInv /\ [Next]_vars => IrqInv' /\ AccInv'
  <2> SUFFICES ASSUME IrqInv, AccInv, [Next]_vars PROVE IrqInv' /\ AccInv'
    OBVIOUS
  <2>1. [VfioNext]_vfioVars
    BY DEF Next, VfioStep, VhostStep, vars
  <2>2. QED
    BY <2>1, IrqNext, AccNext
<1>3. AccInv => CommandsAccounted
  BY AccMeans
<1>4. QED
  BY <1>1, <1>2, <1>3, PTL DEF Spec

=============================================================================
