--------------------------- MODULE ManagerProofs ----------------------------
(***************************************************************************)
(* Theorems about Manager, for every set of modules, every size of the     *)
(* queues and every limit and threshold.                                   *)
(***************************************************************************)
EXTENDS Manager, FiniteSetTheorems, SequenceTheorems, WellFoundedInduction, TLAPS

-----------------------------------------------------------------------------
(* The records of the modules.                                             *)
InfoFields == {"state", "health", "errors", "beat"}

WellFormed(mods) ==
    /\ DOMAIN mods = Module
    /\ \A m \in Module : /\ DOMAIN mods[m] = InfoFields
                         /\ mods[m].health \in 0..3 /\ mods[m].errors \in Nat

(* new has what old has, but for the time stamps.                          *)
Alike(new, old) ==
    /\ WellFormed(new)
    /\ \A m \in Module : /\ new[m].state = old[m].state /\ new[m].health = old[m].health
                         /\ new[m].errors = old[m].errors

(* o is the overall health of mods, at least HEALTHY.                      *)
Worst(mods, o) ==
    /\ \A m \in Module : mods[m].state # "UNINIT" => mods[m].health <= o
    /\ o = HEALTHY \/ \E m \in Module : mods[m].state # "UNINIT" /\ mods[m].health = o

(* Reading the clock changes nothing but time stamps.                      *)
LEMMA AgedAlike ==
    ASSUME NEW mods, WellFormed(mods), NEW n
    PROVE  Alike(Aged(mods, n), mods)
<1>1. DOMAIN Aged(mods, n) = Module
  BY DEF Aged
<1>2. ASSUME NEW m \in Module
      PROVE  LET a == Aged(mods, n)[m]
             IN  /\ DOMAIN a = InfoFields /\ a.state = mods[m].state /\ a.health = mods[m].health
                 /\ a.errors = mods[m].errors
  <2>1. PICK info, b : info = mods[m] /\ b = Min({info.beat + n, WatchdogTimeout + 1})
    OBVIOUS
  <2>2. Aged(mods, n)[m] = [info EXCEPT !.beat = b]
    BY <2>1 DEF Aged
  <2>3. DOMAIN info = InfoFields
    BY <2>1 DEF WellFormed
  <2>4. QED
    BY <2>1, <2>2, <2>3 DEF InfoFields
<1>3. QED
  BY <1>1, <1>2 DEF Alike, WellFormed

LEMMA AlikeWorst ==
    ASSUME NEW new, NEW old, Alike(new, old), NEW o, Worst(old, o)
    PROVE  Worst(new, o)
BY DEF Alike, Worst

(* Max finds the worst of a set of health values.                          *)
LEMMA MaxOfHealths ==
    ASSUME NEW S \in SUBSET (0..3), S # {}
    PROVE  Max(S) \in S /\ \A x \in S : x <= Max(S)
<1>1. \E x \in S : \A y \in S : x >= y
  <2>1. CASE 3 \in S
    BY <2>1
  <2>2. CASE 3 \notin S /\ 2 \in S
    <3>1. \A y \in S : 2 >= y
      BY <2>2
    <3>2. QED
      BY <2>2, <3>1
  <2>3. CASE 3 \notin S /\ 2 \notin S /\ 1 \in S
    <3>1. \A y \in S : 1 >= y
      BY <2>3
    <3>2. QED
      BY <2>3, <3>1
  <2>4. CASE 3 \notin S /\ 2 \notin S /\ 1 \notin S
    <3>1. \A y \in S : y = 0
      <4>1. \A y \in S : y \in 0..3 /\ y # 3 /\ y # 2 /\ y # 1
        BY <2>4
      <4>2. QED
        BY <4>1
    <3>2. \A y \in S : 0 >= y
      <4> TAKE y \in S
      <4>1. y = 0
        BY <3>1
      <4>2. QED
        BY <4>1
    <3>3. PICK y \in S : y = 0
      BY <3>1
    <3>4. QED
      BY <3>2, <3>3
  <2>5. QED
    BY <2>1, <2>2, <2>3, <2>4
<1>2. PICK mx : mx = Max(S) /\ mx \in S /\ \A y \in S : mx >= y
  BY <1>1 DEF Max
<1>3. QED
  BY <1>2

(* calc_overall_health finds the worst of the modules that were started.   *)
LEMMA OverallWorst ==
    ASSUME NEW mods, WellFormed(mods)
    PROVE  Worst(mods, calc_overall_health(mods))
<1> DEFINE H == {mods[m].health : m \in {n \in Module : mods[n].state # "UNINIT"}}
           S == {HEALTHY} \cup H
<1>1. S \in SUBSET (0..3) /\ S # {}
  BY DEF WellFormed, HEALTHY
<1>2. calc_overall_health(mods) = Max(S)
  BY DEF calc_overall_health
<1>3. \A m \in Module : mods[m].state # "UNINIT" => mods[m].health \in S
  OBVIOUS
<1>4. \A h \in S : h = HEALTHY \/ \E m \in Module : mods[m].state # "UNINIT" /\ mods[m].health = h
  OBVIOUS
<1> HIDE DEF S
<1>5. Max(S) \in S /\ \A x \in S : x <= Max(S)
  BY <1>1, MaxOfHealths
<1>6. QED
  BY <1>2, <1>3, <1>4, <1>5 DEF Worst

(* One error more: at the limit the module is taken out of service.        *)
Hit(new, old) ==
    /\ DOMAIN new = InfoFields /\ new.health \in 0..3 /\ new.errors \in Nat
    /\ old.errors + 1 >= MaxErrorCount => new.state = "READY"
    /\ old.errors + 1 < MaxErrorCount => new.state = old.state /\ new.errors = old.errors + 1

(* process_error_report counts one error, whichever module it is for.      *)
LEMMA ReportHits ==
    ASSUME NEW info, DOMAIN info = InfoFields, info.errors \in Nat
    PROVE  Hit(process_error_report(info), info)
<1> DEFINE hit == [info EXCEPT !.errors = @ + 1]
<1>1. DOMAIN hit = InfoFields /\ hit.errors = info.errors + 1 /\ hit.state = info.state
  BY DEF InfoFields
<1>2. process_error_report(info) = IF hit.errors >= MaxErrorCount THEN auto_recover_module(hit)
                                   ELSE [hit EXCEPT !.health = check_module_health(hit)]
  BY DEF process_error_report
<1> HIDE DEF hit
<1>3. MaxErrorCount \in Nat
  BY ManagerAssumption
<1>4. CASE hit.errors >= MaxErrorCount
  <2>1. PICK r : r = auto_recover_module(hit)
    OBVIOUS
  <2>2. DOMAIN r = InfoFields /\ r.state = "READY" /\ r.health \in 0..3 /\ r.errors \in Nat
    BY <1>1, <2>1 DEF auto_recover_module, InfoFields, HEALTHY
  <2>3. process_error_report(info) = r
    BY <1>2, <1>4, <2>1
  <2>4. QED
    BY <1>1, <1>3, <1>4, <2>2, <2>3 DEF Hit
<1>5. CASE ~(hit.errors >= MaxErrorCount)
  <2>1. check_module_health(hit) \in 0..3
    BY <1>1, <1>3, <1>5 DEF check_module_health, HEALTHY, WARNING, CRITICAL
  <2>2. PICK h, r : h = check_module_health(hit) /\ r = [hit EXCEPT !.health = h]
    OBVIOUS
  <2>3. /\ DOMAIN r = InfoFields /\ r.health \in 0..3 /\ r.errors = info.errors + 1
        /\ r.state = info.state
    BY <1>1, <2>1, <2>2 DEF InfoFields
  <2>4. process_error_report(info) = r
    BY <1>2, <1>5, <2>2
  <2>5. QED
    BY <1>1, <1>3, <1>5, <2>3, <2>4 DEF Hit
<1>6. QED
  BY <1>4, <1>5

-----------------------------------------------------------------------------
(* The loop of manager_process, as a path of turns.                        *)
Turn(t) == [q    |-> msg_queue_recv(t.q, ManagerId),
            mods |-> Handle(t.mods, Head(t.q[ManagerId].msgs))]

Turns(f, start, n) == f[0] = start /\ \A k \in 1..n : f[k] = Turn(f[k - 1])

(* A set of numbers that has 0 and the successor of each of its members.   *)
LEMMA AllNumbers ==
    ASSUME NEW T \in SUBSET Nat, 0 \in T, \A k \in T : k + 1 \in T
    PROVE  \A k \in Nat : k \in T
<1> DEFINE less == {ss \in Nat \X Nat : ss[1] < ss[2]}
           Rest == Nat \ T
<1>1. less = OpToRel(<, Nat)
  BY DEF OpToRel
<1>2. IsWellFoundedOn(less, Nat)
  BY <1>1, NatLessThanWellFounded
<1>3. \A a, b \in Nat : <<a, b>> \in less <=> a < b
  OBVIOUS
<1> HIDE DEF less
<1>4. SUFFICES ASSUME Rest # {} PROVE FALSE
  OBVIOUS
<1>5. PICK m \in Rest : \A k \in Rest : ~ (<<k, m>> \in less)
  BY <1>2, <1>4, WFMin
<1>6. m \in Nat /\ m # 0 /\ m \notin T
  OBVIOUS
<1>7. m - 1 \in Nat /\ (m - 1) + 1 = m /\ m - 1 < m
  BY <1>6
<1>8. m - 1 \notin Rest
  BY <1>3, <1>5, <1>6, <1>7
<1>9. QED
  BY <1>6, <1>7, <1>8

(* The recursive function of Drained exists.                               *)
LEMMA TurnsExist ==
    ASSUME NEW start, NEW n \in Nat
    PROVE  \E f : f = [k \in 0..n |-> IF k = 0 THEN start ELSE Turn(f[k - 1])]
<1> DEFINE step(f, k) == IF k = 0 THEN start ELSE Turn(f[k - 1])
           T == {m \in Nat : \E f : f = [k \in 0..m |-> step(f, k)]}
<1>1. 0 \in T
  <2> DEFINE f == [k \in 0..0 |-> start]
  <2>1. f = [k \in 0..0 |-> step(f, k)]
    OBVIOUS
  <2>2. QED
    BY <2>1
<1>2. ASSUME NEW m \in T PROVE m + 1 \in T
  <2>1. PICK f : f = [k \in 0..m |-> step(f, k)]
    OBVIOUS
  <2>2. m \in Nat /\ m + 1 \in Nat
    OBVIOUS
  <2> DEFINE g == [k \in 0..(m + 1) |-> IF k <= m THEN f[k] ELSE Turn(f[m])]
  <2>3. \A k \in 0..(m + 1) : g[k] = step(g, k)
    <3> TAKE k \in 0..(m + 1)
    <3>1. CASE k = 0
      <4>1. f[0] = start
        BY <2>1, <2>2
      <4>2. g[0] = f[0]
        BY <2>2
      <4>3. QED
        BY <3>1, <4>1, <4>2
    <3>2. CASE k # 0 /\ k <= m
      <4>1. k \in 0..m /\ k - 1 \in 0..m /\ k - 1 \in 0..(m + 1)
        BY <2>2, <3>2
      <4>2. f[k] = Turn(f[k - 1])
        <5>1. f[k] = step(f, k)
          BY <2>1, <4>1
        <5>2. QED
          BY <3>2, <5>1
      <4>3. g[k] = f[k] /\ g[k - 1] = f[k - 1]
        BY <2>2, <3>2, <4>1
      <4>4. QED
        BY <3>2, <4>2, <4>3
    <3>3. CASE k = m + 1
      <4>1. g[k] = Turn(f[m])
        BY <2>2, <3>3
      <4>2. g[m] = f[m]
        BY <2>2
      <4>3. k # 0 /\ k - 1 = m
        BY <2>2, <3>3
      <4>4. QED
        BY <3>3, <4>1, <4>2, <4>3
    <3>4. QED
      BY <2>2, <3>1, <3>2, <3>3
  <2>4. g = [k \in 0..(m + 1) |-> step(g, k)]
    <3> DEFINE h == [k \in 0..(m + 1) |-> step(g, k)]
    <3>1. DOMAIN g = DOMAIN h /\ g = [k \in DOMAIN g |-> g[k]] /\ h = [k \in DOMAIN h |-> h[k]]
      OBVIOUS
    <3>2. \A k \in DOMAIN g : g[k] = h[k]
      BY <2>3
    <3> HIDE DEF g, h
    <3>3. g = h
      BY <3>1, <3>2
    <3>4. QED
      BY <3>3 DEF h
  <2> HIDE DEF g, step
  <2>5. QED
    BY <2>2, <2>4
<1> HIDE DEF T
<1>3. n \in T
  <2>1. T \in SUBSET Nat
    BY DEF T
  <2>2. QED
    BY <1>1, <1>2, <2>1, AllNumbers
<1>4. QED
  BY <1>3 DEF T

(* Drained is the last of as many turns as there are messages.             *)
LEMMA DrainedTurns ==
    ASSUME NEW n, n = Len(queues[ManagerId].msgs), n \in Nat
    PROVE  \E f : Turns(f, [q |-> queues, mods |-> modules], n) /\ Drained = f[n]
<1> DEFINE start == [q |-> queues, mods |-> modules]
           f == CHOOSE f : f = [k \in 0..n |-> IF k = 0 THEN start ELSE Turn(f[k - 1])]
<1>1. f = [k \in 0..n |-> IF k = 0 THEN start ELSE Turn(f[k - 1])]
  BY TurnsExist
<1>2. Drained = f[n]
  BY DEF Drained, msg_queue_get_count, Turn
<1> HIDE DEF f
<1>3. Turns(f, start, n)
  BY SMTT(30), <1>1 DEF Turns
<1>4. QED
  BY <1>2, <1>3


(* The messages that the queues hold.                                      *)
Letter == [type : {"ERROR_REPORT", "HEALTH_CHECK"}, prio : Nat, src : Module]

(* A queue of the manager's world, whatever its size.                      *)
QueueShape(q) == DOMAIN q = {"size", "msgs"} /\ q.size \in Nat /\ q.msgs \in Seq(Letter)

(* The reports about m among the first k messages of list.                 *)
Mine(list, m, k) == {i \in 1..k : list[i].type = "ERROR_REPORT" /\ list[i].src = m}

(* The reports are counted message by message.                             *)
LEMMA MineGrows ==
    ASSUME NEW list, NEW m, NEW k \in Nat
    PROVE  /\ Mine(list, m, 0) = {} /\ IsFiniteSet(Mine(list, m, k))
           /\ Cardinality(Mine(list, m, k)) \in Nat
           /\ IF list[k + 1].type = "ERROR_REPORT" /\ list[k + 1].src = m
              THEN Cardinality(Mine(list, m, k + 1)) = Cardinality(Mine(list, m, k)) + 1
              ELSE Mine(list, m, k + 1) = Mine(list, m, k)
<1>1. IsFiniteSet(Mine(list, m, k)) /\ Cardinality(Mine(list, m, k)) \in Nat
  <2>1. IsFiniteSet(1..k)
    BY FS_Interval
  <2>2. Mine(list, m, k) \in SUBSET (1..k)
    BY DEF Mine
  <2>3. IsFiniteSet(Mine(list, m, k))
    BY <2>1, <2>2, FS_Subset
  <2>4. QED
    BY <2>3, FS_CardinalityType
<1>2. 1..k + 1 = (1..k) \cup {k + 1} /\ k + 1 \notin 1..k /\ 1..0 = {}
  OBVIOUS
<1>3. CASE list[k + 1].type = "ERROR_REPORT" /\ list[k + 1].src = m
  <2>1. Mine(list, m, k + 1) = Mine(list, m, k) \cup {k + 1} /\ k + 1 \notin Mine(list, m, k)
    BY <1>2, <1>3 DEF Mine
  <2>2. Cardinality(Mine(list, m, k) \cup {k + 1}) = Cardinality(Mine(list, m, k)) + 1
    BY <1>1, <2>1, FS_AddElement
  <2>3. QED
    BY <1>1, <1>2, <1>3, <2>1, <2>2 DEF Mine
<1>4. CASE ~(list[k + 1].type = "ERROR_REPORT" /\ list[k + 1].src = m)
  <2>1. Mine(list, m, k + 1) = Mine(list, m, k)
    BY <1>2, <1>4 DEF Mine
  <2>2. QED
    BY <1>1, <1>2, <1>4, <2>1 DEF Mine
<1>5. QED
  BY <1>3, <1>4

(* A running module after k messages of list: still running with its       *)
(* errors counted, or taken out of service by max_error_count of them.     *)
Told(old, new, c) ==
    \/ new.state = old.state /\ new.errors = old.errors + c
    \/ new.state = "READY" /\ old.errors + c >= MaxErrorCount

(* Message msg makes old of module m new.                                  *)
Handled(msg, m, old, new) ==
    LET hit == process_error_report(old)
    IN  /\ msg.type = "ERROR_REPORT" /\ msg.src = m => new.state = hit.state /\ new.errors = hit.errors
        /\ ~(msg.type = "ERROR_REPORT" /\ msg.src = m) => new.state = old.state /\ new.errors = old.errors

(* One message counts for its sender and for nobody else.                  *)
LEMMA HandleTells ==
    ASSUME NEW mods, WellFormed(mods), NEW msg \in Letter
    PROVE  /\ WellFormed(Handle(mods, msg))
           /\ \A m \in Module : Handled(msg, m, mods[m], Handle(mods, msg)[m])
<1>1. CASE msg.type # "ERROR_REPORT"
  <2>1. Handle(mods, msg) = mods
    BY <1>1 DEF Handle
  <2>2. QED
    BY <1>1, <2>1 DEF Handled
<1>2. CASE msg.type = "ERROR_REPORT"
  <2>1. PICK s, r : s = msg.src /\ r = process_error_report(mods[s])
    OBVIOUS
  <2>2. s \in Module
    BY <2>1 DEF Letter
  <2>3. PICK new : new = [mods EXCEPT ![s] = r]
    OBVIOUS
  <2>4. DOMAIN r = InfoFields /\ r.health \in 0..3 /\ r.errors \in Nat
    BY <2>1, <2>2, ReportHits DEF WellFormed, Hit
  <2>5. new[s] = r /\ DOMAIN new = Module /\ \A m \in Module \ {s} : new[m] = mods[m]
    BY <2>2, <2>3 DEF WellFormed
  <2>6. WellFormed(new)
    BY <2>4, <2>5 DEF WellFormed
  <2>7. Handle(mods, msg) = Aged(new, 1)
    BY <1>2, <2>1, <2>3 DEF Handle
  <2>8. Alike(Handle(mods, msg), new)
    BY <2>6, <2>7, AgedAlike
  <2>9. QED
    BY <1>2, <2>1, <2>5, <2>8 DEF Alike, Handled
<1>3. QED
  BY <1>1, <1>2

(* After k turns from queues qs and modules mods, with list in the queue of *)
(* the manager.                                                            *)
Reached(t, qs, mods, list, k) ==
    /\ DOMAIN t.q = Module /\ \A m \in Module : m # ManagerId => t.q[m] = qs[m]
    /\ QueueShape(t.q[ManagerId]) /\ Len(t.q[ManagerId].msgs) = Len(list) - k
    /\ \A i \in 1..Len(list) - k : t.q[ManagerId].msgs[i] = list[i + k]
    /\ WellFormed(t.mods)
    /\ \A m \in Module : Told(mods[m], t.mods[m], Cardinality(Mine(list, m, k)))

(* One turn of the loop takes the first message and handles it.            *)
LEMMA TurnTells ==
    ASSUME ManagerId \in Module, NEW qs, NEW mods, WellFormed(mods),
           NEW list \in Seq(Letter), NEW k \in Nat, k < Len(list),
           NEW t, Reached(t, qs, mods, list, k)
    PROVE  Reached(Turn(t), qs, mods, list, k + 1)
<1> DEFINE n == Len(list)
<1>1. n \in Nat /\ n - k > 0 /\ n - (k + 1) \in Nat /\ n - (k + 1) = (n - k) - 1 /\ k + 1 \in 1..n
  BY LenProperties
<1>2. PICK a, b, x, r, msg : a = t.q /\ b = t.mods /\ x = a[ManagerId] /\ r = x.msgs /\ msg = list[k + 1]
  OBVIOUS
<1>3. /\ DOMAIN a = Module /\ \A m \in Module : m # ManagerId => a[m] = qs[m]
      /\ DOMAIN x = {"size", "msgs"} /\ x.size \in Nat /\ r \in Seq(Letter) /\ Len(r) = n - k
      /\ \A i \in 1..n - k : r[i] = list[i + k]
      /\ WellFormed(b)
      /\ \A m \in Module : Told(mods[m], b[m], Cardinality(Mine(list, m, k)))
  BY <1>2 DEF Reached, QueueShape
<1> HIDE DEF n
<1>4. Head(r) = msg /\ msg \in Letter
  <2>1. 1 \in 1..n - k /\ 1 + k = k + 1 /\ r # <<>>
    BY <1>1, <1>3
  <2>2. Head(r) = r[1] /\ 1 \in 1..Len(r)
    BY <1>3, <2>1, HeadTailProperties
  <2>3. r[1] \in Letter
    BY <1>3, <2>2, ElementOfSeq
  <2>4. QED
    BY <1>2, <1>3, <2>1, <2>2, <2>3
<1>5. PICK e, d, y, u : e = Turn(t).q /\ d = Turn(t).mods /\ u = Tail(r) /\ y = [x EXCEPT !.msgs = u]
  OBVIOUS
<1>6. e = [a EXCEPT ![ManagerId] = y] /\ d = Handle(b, msg)
  <2>1. e = msg_queue_recv(a, ManagerId) /\ d = Handle(b, Head(r))
    BY <1>2, <1>5 DEF Turn
  <2>2. msg_queue_get_count(a, ManagerId) > 0
    BY <1>1, <1>2, <1>3 DEF msg_queue_get_count
  <2>3. e = [a EXCEPT ![ManagerId].msgs = Tail(@)]
    BY <2>1, <2>2 DEF msg_queue_recv
  <2>4. QED
    BY <1>2, <1>4, <1>5, <2>1, <2>3
<1>7. /\ u \in Seq(Letter) /\ Len(u) = n - (k + 1)
      /\ \A i \in 1..n - (k + 1) : u[i] = list[i + (k + 1)]
  <2>1. r # <<>>
    BY <1>1, <1>3
  <2>2. /\ u \in Seq(Letter) /\ Len(u) = Len(r) - 1 /\ \A i \in 1..Len(u) : u[i] = r[i + 1]
    BY <1>3, <1>5, <2>1, HeadTailProperties
  <2>3. ASSUME NEW i \in 1..n - (k + 1) PROVE u[i] = list[i + (k + 1)]
    <3>1. i \in 1..Len(u) /\ i + 1 \in 1..n - k /\ (i + 1) + k = i + (k + 1)
      BY <1>1, <1>3, <2>2
    <3>2. QED
      BY <1>3, <2>2, <3>1
  <2>4. QED
    BY <1>1, <1>3, <2>2, <2>3
<1>8. y.msgs = u /\ y.size = x.size /\ DOMAIN y = {"size", "msgs"}
  BY <1>3, <1>5
<1>9. DOMAIN e = Module /\ e[ManagerId] = y /\ \A m \in Module : m # ManagerId => e[m] = qs[m]
  BY <1>3, <1>6
<1>10. QueueShape(y)
  BY <1>3, <1>7, <1>8 DEF QueueShape
<1>11. /\ WellFormed(d)
       /\ \A m \in Module : Handled(msg, m, b[m], d[m])
  BY <1>3, <1>4, <1>6, HandleTells
<1>12. ASSUME NEW m \in Module
       PROVE  Told(mods[m], d[m], Cardinality(Mine(list, m, k + 1)))
  <2>1. PICK c, c1, z, o, w : /\ c = Cardinality(Mine(list, m, k)) /\ c1 = Cardinality(Mine(list, m, k + 1))
                              /\ z = b[m] /\ o = mods[m] /\ w = d[m]
    OBVIOUS
  <2>2. c \in Nat /\ MaxErrorCount \in Nat
    BY <2>1, MineGrows, ManagerAssumption
  <2>3. o.errors \in Nat /\ z.errors \in Nat /\ DOMAIN z = InfoFields /\ Told(o, z, c)
    BY <1>3, <2>1 DEF WellFormed
  <2>4. CASE msg.type = "ERROR_REPORT" /\ msg.src = m
    <3>1. c1 = c + 1
      BY <1>2, <2>1, <2>4, MineGrows
    <3>2. PICK v : v = process_error_report(z) /\ Hit(v, z)
      BY <2>3, ReportHits
    <3>3. w.state = v.state /\ w.errors = v.errors
      BY <1>11, <2>1, <2>4, <3>2 DEF Handled
    <3>4. Told(o, w, c1)
      <4>1. CASE z.errors + 1 >= MaxErrorCount
        <5>1. w.state = "READY"
          BY <3>2, <3>3, <4>1 DEF Hit
        <5>2. o.errors + c1 >= MaxErrorCount
          BY <2>2, <2>3, <3>1, <4>1 DEF Told
        <5>3. QED
          BY <5>1, <5>2 DEF Told
      <4>2. CASE z.errors + 1 < MaxErrorCount
        <5>1. w.state = z.state /\ w.errors = z.errors + 1
          BY <3>2, <3>3, <4>2 DEF Hit
        <5>2. QED
          BY <2>2, <2>3, <3>1, <5>1 DEF Told
      <4>3. QED
        BY <2>2, <2>3, <4>1, <4>2
    <3>5. QED
      BY <2>1, <3>4
  <2>5. CASE ~(msg.type = "ERROR_REPORT" /\ msg.src = m)
    <3>1. c1 = c
      BY <1>2, <2>1, <2>5, MineGrows
    <3>2. w.state = z.state /\ w.errors = z.errors
      BY <1>11, <2>1, <2>5 DEF Handled
    <3>3. Told(o, w, c1)
      BY <2>3, <3>1, <3>2 DEF Told
    <3>4. QED
      BY <2>1, <3>3
  <2>6. QED
    BY <2>4, <2>5
<1>13. QED
  BY <1>5, <1>7, <1>8, <1>9, <1>10, <1>11, <1>12 DEF Reached, n

(* The loop takes the messages in the order of the list.                   *)
LEMMA TurnsTell ==
    ASSUME ManagerId \in Module, NEW qs, NEW mods, WellFormed(mods), NEW list \in Seq(Letter),
           DOMAIN qs = Module, QueueShape(qs[ManagerId]), qs[ManagerId].msgs = list,
           NEW f, Turns(f, [q |-> qs, mods |-> mods], Len(list))
    PROVE  Reached(f[Len(list)], qs, mods, list, Len(list))
<1> DEFINE n == Len(list)
           T == {k \in Nat : k <= n => Reached(f[k], qs, mods, list, k)}
<1>1. n \in Nat
  BY LenProperties
<1>2. Reached(f[0], qs, mods, list, 0)
  <2>1. f[0].q = qs /\ f[0].mods = mods
    BY DEF Turns
  <2>2. n - 0 = n /\ \A i \in 1..n : i + 0 = i
    BY <1>1
  <2>3. \A m \in Module : Mine(list, m, 0) = {} /\ Cardinality(Mine(list, m, 0)) = 0
    BY MineGrows, FS_EmptySet
  <2>4. \A m \in Module : Told(mods[m], mods[m], Cardinality(Mine(list, m, 0)))
    <3> TAKE m \in Module
    <3>1. mods[m].errors \in Nat /\ mods[m].errors + 0 = mods[m].errors
      BY DEF WellFormed
    <3>2. QED
      BY <2>3, <3>1 DEF Told
  <2>5. QED
    BY <2>1, <2>2, <2>4 DEF Reached
<1>3. ASSUME NEW k \in T PROVE k + 1 \in T
  <2>1. k \in Nat /\ (k <= n => Reached(f[k], qs, mods, list, k))
    OBVIOUS
  <2> HIDE DEF T
  <2>2. ASSUME k + 1 <= n PROVE Reached(f[k + 1], qs, mods, list, k + 1)
    <3>1. k < Len(list) /\ k <= n /\ k + 1 \in 1..n /\ (k + 1) - 1 = k
      BY <1>1, <2>1, <2>2
    <3>2. f[k + 1] = Turn(f[k])
      BY <3>1 DEF Turns
    <3>3. Reached(f[k], qs, mods, list, k)
      BY <2>1, <3>1
    <3>4. QED
      BY <2>1, <3>1, <3>2, <3>3, TurnTells
  <2>3. QED
    BY <2>1, <2>2 DEF T
<1>4. n \in T
  <2>1. T \in SUBSET Nat
    OBVIOUS
  <2>2. 0 \in T
    BY <1>2
  <2> HIDE DEF T
  <2>3. QED
    BY <1>1, <1>3, <2>1, <2>2, AllNumbers
<1>5. QED
  BY <1>1, <1>4

-----------------------------------------------------------------------------

(* The lists of the queues: of letters, the more urgent ones in front.     *)
Sorted(s) == \A i, j \in 1..Len(s) : i < j => s[i].prio >= s[j].prio

QueuesInOrder(qs) ==
    /\ DOMAIN qs = Module
    /\ \A m \in Module : QueueShape(qs[m]) /\ Sorted(qs[m].msgs)

(* msg belongs behind the first i messages of s.                           *)
Between(s, msg, i) ==
    /\ i \in 0..Len(s)
    /\ \A j \in 1..i : s[j].prio >= msg.prio
    /\ i = Len(s) \/ s[i + 1].prio < msg.prio

(* The search of msg_queue_send for a place ends at one.                   *)
LEMMA PlaceFound ==
    ASSUME NEW s \in Seq(Letter), NEW msg \in Letter
    PROVE  Between(s, msg, Place(s, msg))
<1> DEFINE n == Len(s)
           Stops == {i \in 0..n : i = n \/ s[i + 1].prio < msg.prio}
           Goes == {i \in Nat : \A k \in 0..i : k \notin Stops}
<1>1. n \in Nat
  BY LenProperties
<1>2. msg.prio \in Nat /\ \A j \in 1..n : s[j].prio \in Nat
  <2>1. \A j \in 1..n : s[j] \in Letter
    BY ElementOfSeq
  <2>2. QED
    BY <2>1 DEF Letter
<1>3. \E i \in Stops : \A k \in 0..i - 1 : k \notin Stops
  <2> SUFFICES ASSUME ~(\E i \in Stops : \A k \in 0..i - 1 : k \notin Stops) PROVE FALSE
    OBVIOUS
  <2>1. 0 \in Goes
    <3>1. 0 \notin Stops
      <4>1. \A k \in 0..0 - 1 : FALSE
        OBVIOUS
      <4>2. QED
        BY <4>1
    <3>2. \A k \in 0..0 : k = 0
      OBVIOUS
    <3>3. QED
      BY <3>1, <3>2
  <2>2. ASSUME NEW i \in Goes PROVE i + 1 \in Goes
    <3>1. i \in Nat /\ i + 1 \in Nat /\ (i + 1) - 1 = i /\ \A k \in 0..i + 1 : k \in 0..i \/ k = i + 1
      OBVIOUS
    <3>2. \A k \in 0..i : k \notin Stops
      OBVIOUS
    <3>3. i + 1 \notin Stops
      BY <3>1, <3>2
    <3> HIDE DEF Stops
    <3>4. QED
      BY <3>1, <3>2, <3>3
  <2>3. Goes \in SUBSET Nat
    OBVIOUS
  <2>4. n \in Stops
    BY <1>1
  <2> HIDE DEF Goes
  <2>5. n \in Goes
    BY <1>1, <2>1, <2>2, <2>3, AllNumbers
  <2>6. n \notin Stops
    BY <1>1, <2>5 DEF Goes
  <2>7. QED
    BY <2>4, <2>6
<1>4. PICK i \in Stops : \A k \in 0..i - 1 : k \notin Stops
  BY <1>3
<1>5. ASSUME NEW j \in 1..i PROVE s[j].prio >= msg.prio
  <2>1. i \in 0..n /\ j \in 1..n /\ j - 1 \in 0..i - 1 /\ j - 1 \in 0..n /\ j - 1 # n /\ (j - 1) + 1 = j
    BY <1>1
  <2>2. j - 1 \notin Stops
    BY <1>4, <2>1
  <2>3. ~(s[j].prio < msg.prio)
    BY <2>1, <2>2
  <2>4. QED
    BY <1>2, <2>1, <2>3
<1>6. Between(s, msg, i)
  BY <1>5 DEF Between
<1>7. Place(s, msg) = CHOOSE k \in 0..n : /\ \A j \in 1..k : s[j].prio >= msg.prio
                                          /\ k = n \/ s[k + 1].prio < msg.prio
  BY DEF Place
<1> HIDE DEF Stops, Goes
<1>8. QED
  BY <1>6, <1>7 DEF Between

(* u is s with msg put behind its first i messages.                        *)
Shifted(u, s, msg, i) ==
    /\ u \in Seq(Letter) /\ Len(u) = Len(s) + 1
    /\ \A k \in 1..i : u[k] = s[k]
    /\ u[i + 1] = msg
    /\ \A k \in i + 2..Len(s) + 1 : u[k] = s[k - 1]

(* A message is put into the list at that place.                           *)
LEMMA InsertedShifts ==
    ASSUME NEW s \in Seq(Letter), NEW msg \in Letter
    PROVE  \E i : Between(s, msg, i) /\ Shifted(Inserted(s, msg), s, msg, i)
<1>1. PICK i : i = Place(s, msg) /\ Between(s, msg, i)
  BY PlaceFound
<1>2. PICK n : n = Len(s) /\ n \in Nat
  BY LenProperties
<1>3. /\ i \in 0..n
      /\ \A j \in 1..i : s[j].prio >= msg.prio
      /\ i = n \/ s[i + 1].prio < msg.prio
  BY <1>1, <1>2 DEF Between
<1>4. msg.prio \in Nat /\ \A j \in 1..n : s[j] \in Letter /\ s[j].prio \in Nat
  <2>1. \A j \in 1..n : s[j] \in Letter
    BY <1>2, ElementOfSeq
  <2>2. QED
    BY <2>1 DEF Letter
<1>5. PICK a, b, u : a = SubSeq(s, 1, i) /\ b = SubSeq(s, i + 1, n) /\ u = (a \o <<msg>>) \o b
  OBVIOUS
<1>6. Inserted(s, msg) = u
  BY <1>1, <1>2, <1>5 DEF Inserted
<1>7. a \in Seq(Letter) /\ Len(a) = i /\ \A k \in 1..i : a[k] = s[k]
  BY <1>2, <1>3, <1>4, <1>5
<1>8. b \in Seq(Letter) /\ Len(b) = n - i /\ \A k \in 1..n - i : b[k] = s[i + k]
  BY <1>2, <1>3, <1>4, <1>5
<1>9. u \in Seq(Letter) /\ Len(u) = n + 1
  <2>1. <<msg>> \in Seq(Letter) /\ Len(<<msg>>) = 1 /\ <<msg>>[1] = msg
    OBVIOUS
  <2>2. PICK c : c = a \o <<msg>> /\ u = c \o b
    BY <1>5
  <2>3. c \in Seq(Letter) /\ Len(c) = i + 1
    BY <1>3, <1>7, <2>1, <2>2, ConcatProperties
  <2>4. u \in Seq(Letter) /\ Len(u) = (i + 1) + (n - i)
    <3>1. c \o b \in Seq(Letter) /\ Len(c \o b) = Len(c) + Len(b)
      BY <1>8, <2>3, ConcatProperties
    <3>2. QED
      BY <1>8, <2>2, <2>3, <3>1
  <2>5. QED
    BY <1>2, <1>3, <2>4
<1>10. /\ \A k \in 1..i : u[k] = s[k]
       /\ u[i + 1] = msg
       /\ \A k \in i + 2..n + 1 : u[k] = s[k - 1]
  <2>1. <<msg>> \in Seq(Letter) /\ Len(<<msg>>) = 1 /\ <<msg>>[1] = msg
    OBVIOUS
  <2>2. PICK c : c = a \o <<msg>> /\ u = c \o b
    BY <1>5
  <2>3. /\ c \in Seq(Letter) /\ Len(c) = i + 1
        /\ \A k \in 1..i + 1 : c[k] = IF k <= i THEN a[k] ELSE <<msg>>[k - i]
    BY <1>3, <1>7, <2>1, <2>2, ConcatProperties
  <2>4. \A k \in 1..(i + 1) + (n - i) : u[k] = IF k <= i + 1 THEN c[k] ELSE b[k - (i + 1)]
    BY <1>8, <2>2, <2>3, ConcatProperties
  <2>5. ASSUME NEW k \in 1..i PROVE u[k] = s[k]
    <3>1. k \in 1..(i + 1) + (n - i) /\ k <= i + 1 /\ k <= i /\ k \in 1..i + 1
      BY <1>2, <1>3
    <3>2. QED
      BY <1>7, <2>3, <2>4, <3>1
  <2>6. u[i + 1] = msg
    <3>1. i + 1 \in 1..(i + 1) + (n - i) /\ ~(i + 1 <= i) /\ (i + 1) - i = 1 /\ i + 1 \in 1..i + 1
      BY <1>2, <1>3
    <3>2. QED
      BY <2>1, <2>3, <2>4, <3>1
  <2>7. ASSUME NEW k \in i + 2..n + 1 PROVE u[k] = s[k - 1]
    <3>1. /\ k - (i + 1) \in 1..n - i /\ i + (k - (i + 1)) = k - 1
          /\ k \in 1..(i + 1) + (n - i) /\ ~(k <= i + 1)
      BY <1>2, <1>3
    <3>2. u[k] = b[k - (i + 1)]
      BY <2>4, <3>1
    <3>3. QED
      BY <1>8, <3>1, <3>2
  <2>8. QED
    BY <2>5, <2>6, <2>7
<1>11. Shifted(u, s, msg, i)
  BY <1>2, <1>9, <1>10 DEF Shifted
<1>12. QED
  BY <1>1, <1>6, <1>11

(* A list in order of priority stays so.                                   *)
LEMMA InsertedInOrder ==
    ASSUME NEW s \in Seq(Letter), Sorted(s), NEW msg \in Letter
    PROVE  Inserted(s, msg) \in Seq(Letter) /\ Sorted(Inserted(s, msg))
<1>1. PICK i, u : u = Inserted(s, msg) /\ Between(s, msg, i) /\ Shifted(u, s, msg, i)
  BY InsertedShifts
<1>2. PICK n : n = Len(s) /\ n \in Nat
  BY LenProperties
<1>3. /\ i \in 0..n
      /\ \A j \in 1..i : s[j].prio >= msg.prio
      /\ i = n \/ s[i + 1].prio < msg.prio
  BY <1>1, <1>2 DEF Between
<1>4. msg.prio \in Nat /\ \A j \in 1..n : s[j] \in Letter /\ s[j].prio \in Nat
  <2>1. \A j \in 1..n : s[j] \in Letter
    BY <1>2, ElementOfSeq
  <2>2. QED
    BY <2>1 DEF Letter
<1>5. u \in Seq(Letter) /\ Len(u) = n + 1
  BY <1>1, <1>2 DEF Shifted
<1>6. /\ \A k \in 1..i : u[k] = s[k]
      /\ u[i + 1] = msg
      /\ \A k \in i + 2..n + 1 : u[k] = s[k - 1]
  BY <1>1, <1>2 DEF Shifted
<1>7. Sorted(u)
  <2> SUFFICES ASSUME NEW j \in 1..Len(u), NEW k \in 1..Len(u), j < k PROVE u[j].prio >= u[k].prio
    BY DEF Sorted
  <2>1. j \in 1..n + 1 /\ k \in 1..n + 1
    BY <1>5
  <2>2. \A x, y \in 1..n : x < y => s[x].prio >= s[y].prio
    BY <1>2 DEF Sorted
  <2>3. CASE k <= i
    <3>1. j \in 1..n /\ k \in 1..n /\ j \in 1..i /\ k \in 1..i
      BY <1>2, <1>3, <2>1, <2>3
    <3>2. QED
      BY <1>6, <2>2, <3>1
  <2>4. CASE k = i + 1
    <3>1. j \in 1..i
      BY <1>2, <1>3, <2>1, <2>4
    <3>2. QED
      BY <1>3, <1>6, <2>4, <3>1
  <2>5. CASE k > i + 1
    <3>1. k \in i + 2..n + 1 /\ k - 1 \in 1..n /\ i + 1 \in 1..n /\ i # n
      BY <1>2, <1>3, <2>1, <2>5
    <3>2. u[k] = s[k - 1]
      BY <1>6, <3>1
    <3>3. CASE j <= i
      <4>1. j \in 1..i /\ j \in 1..n /\ j < k - 1
        BY <1>2, <1>3, <2>1, <2>5, <3>3
      <4>2. QED
        BY <1>6, <2>2, <3>1, <3>2, <4>1
    <3>4. CASE j = i + 1
      <4>1. s[i + 1].prio < msg.prio
        BY <1>3, <3>1
      <4>2. s[i + 1].prio >= s[k - 1].prio
        <5>1. CASE i + 1 = k - 1
          BY <1>4, <3>1, <5>1
        <5>2. CASE i + 1 < k - 1
          BY <2>2, <3>1, <5>2
        <5>3. QED
          BY <1>3, <3>1, <5>1, <5>2
      <4>3. msg.prio >= s[k - 1].prio
        BY <1>4, <3>1, <4>1, <4>2
      <4>4. QED
        BY <1>6, <3>2, <3>4, <4>3
    <3>5. CASE j > i + 1
      <4>1. j \in i + 2..n + 1 /\ j - 1 \in 1..n /\ j - 1 < k - 1
        BY <1>2, <1>3, <2>1, <2>5, <3>5
      <4>2. u[j] = s[j - 1]
        BY <1>6, <4>1
      <4>3. QED
        BY <2>2, <3>1, <3>2, <4>1, <4>2
    <3>6. QED
      BY <1>3, <2>1, <3>3, <3>4, <3>5
  <2>6. QED
    <3>1. k < i + 1 \/ k = i + 1 \/ k > i + 1
      BY <1>2, <1>3, <2>1
    <3>2. k < i + 1 => k <= i
      BY <1>2, <1>3, <2>1
    <3>3. QED
      BY <2>3, <2>4, <2>5, <3>1, <3>2
<1>8. QED
  BY <1>1, <1>5, <1>7

(* msg_queue_send keeps every queue in order of priority.                  *)
LEMMA SendInOrder ==
    ASSUME NEW qs, QueuesInOrder(qs), NEW dst \in Module, NEW msg \in Letter
    PROVE  QueuesInOrder(msg_queue_send(qs, dst, msg))
<1>1. CASE ~CanSend(qs, dst)
  <2>1. msg_queue_send(qs, dst, msg) = qs
    BY <1>1 DEF msg_queue_send
  <2>2. QED
    BY <2>1
<1>2. CASE CanSend(qs, dst)
  <2>1. PICK x, s, y : x = qs[dst] /\ s = Inserted(x.msgs, msg) /\ y = [x EXCEPT !.msgs = s]
    OBVIOUS
  <2>2. DOMAIN x = {"size", "msgs"} /\ x.size \in Nat /\ x.msgs \in Seq(Letter) /\ Sorted(x.msgs)
    BY <2>1 DEF QueuesInOrder, QueueShape
  <2>3. s \in Seq(Letter) /\ Sorted(s)
    BY <2>1, <2>2, InsertedInOrder
  <2>4. y.msgs = s /\ y.size = x.size /\ DOMAIN y = {"size", "msgs"}
    BY <2>1, <2>2
  <2>5. PICK new : new = msg_queue_send(qs, dst, msg)
    OBVIOUS
  <2>6. new = [qs EXCEPT ![dst] = y]
    BY <1>2, <2>1, <2>5 DEF msg_queue_send
  <2>7. DOMAIN new = Module /\ new[dst] = y /\ \A m \in Module : m # dst => new[m] = qs[m]
    BY <2>6 DEF QueuesInOrder
  <2>8. QueueShape(y) /\ Sorted(y.msgs)
    BY <2>2, <2>3, <2>4 DEF QueueShape
  <2>9. QueuesInOrder(new)
    BY <2>7, <2>8 DEF QueuesInOrder
  <2>10. QED
    BY <2>5, <2>9
<1>3. QED
  BY <1>1, <1>2

(* The watchdog: nothing but an error of its own stops a silent module.    *)
LEMMA ChecksTell ==
    ASSUME NEW mods, WellFormed(mods)
    PROVE  /\ WellFormed(process_health_check(mods))
           /\ \A m \in Module : \/ process_health_check(mods)[m].state = mods[m].state
                                \/ mods[m].errors + 1 >= MaxErrorCount
<1>1. PICK new, n : /\ new = [m \in Module |-> IF m \in Silent(mods) THEN process_error_report(mods[m])
                                               ELSE mods[m]]
                    /\ n = 1 + Cardinality(Silent(mods))
  OBVIOUS
<1>2. ASSUME NEW m \in Module
      PROVE  /\ DOMAIN new[m] = InfoFields /\ new[m].health \in 0..3 /\ new[m].errors \in Nat
             /\ new[m].state = mods[m].state \/ mods[m].errors + 1 >= MaxErrorCount
  <2>1. PICK o : o = mods[m] /\ DOMAIN o = InfoFields /\ o.health \in 0..3 /\ o.errors \in Nat
    BY DEF WellFormed
  <2>2. CASE m \in Silent(mods)
    <3>1. PICK r : r = process_error_report(o) /\ Hit(r, o)
      BY <2>1, ReportHits
    <3>2. new[m] = r
      BY <1>1, <2>1, <2>2, <3>1
    <3>3. MaxErrorCount \in Nat
      BY ManagerAssumption
    <3>4. o.errors + 1 < MaxErrorCount \/ o.errors + 1 >= MaxErrorCount
      BY <2>1, <3>3
    <3>5. QED
      BY <2>1, <3>1, <3>2, <3>4 DEF Hit
  <2>3. CASE m \notin Silent(mods)
    BY <1>1, <2>1, <2>3
  <2>4. QED
    BY <2>2, <2>3
<1>3. WellFormed(new)
  BY <1>1, <1>2 DEF WellFormed
<1>4. process_health_check(mods) = Aged(new, n)
  BY <1>1 DEF process_health_check
<1>5. Alike(process_health_check(mods), new)
  BY <1>3, <1>4, AgedAlike
<1>6. QED
  BY <1>2, <1>5 DEF Alike

-----------------------------------------------------------------------------
(* The inductive invariant.                                                *)
ManagerInv ==
    /\ up \in BOOLEAN
    /\ QueuesInOrder(queues)
    /\ WellFormed(modules)
    /\ up => Worst(modules, overall)

(* A module before its first start.                                        *)
LEMMA FreshFields ==
    DOMAIN Fresh = InfoFields /\ Fresh.state = "UNINIT" /\ Fresh.health = 0 /\ Fresh.errors = 0
BY DEF Fresh, InfoFields, UNKNOWN

(* An empty queue is in order.                                             *)
LEMMA EmptyInOrder ==
    ASSUME NEW size \in Nat
    PROVE  LET q == [size |-> size, msgs |-> <<>>] IN QueueShape(q) /\ Sorted(q.msgs)
<1> DEFINE q == [size |-> size, msgs |-> <<>>]
<1>1. DOMAIN q = {"size", "msgs"} /\ q.size = size /\ q.msgs = <<>>
  OBVIOUS
<1> HIDE DEF q
<1>2. <<>> \in Seq(Letter) /\ Len(<<>>) = 0
  BY EmptySeq
<1>3. \A i \in 1..0 : FALSE
  OBVIOUS
<1>4. QED
  BY <1>1, <1>2, <1>3 DEF QueueShape, Sorted, q

(* The inductive invariant holds at first, and every action keeps it.      *)
LEMMA ManagerInitInv == Init => ManagerInv
<1> SUFFICES ASSUME Init PROVE ManagerInv
  OBVIOUS
<1>1. up = FALSE /\ queues = [m \in Module |-> NotInit] /\ modules = [m \in Module |-> Fresh]
  BY DEF Init
<1>2. QueueShape(NotInit) /\ Sorted(NotInit.msgs)
  BY EmptyInOrder DEF NotInit
<1>3. QueuesInOrder(queues)
  BY <1>1, <1>2 DEF QueuesInOrder
<1>4. WellFormed(modules)
  BY <1>1, FreshFields DEF WellFormed
<1>5. QED
  BY <1>1, <1>3, <1>4 DEF ManagerInv

LEMMA BootKeeps == ASSUME ManagerInv, Boot PROVE ManagerInv'
<1>1. up' = TRUE /\ queues' = CreateQueues(queues) /\ overall' = HEALTHY
  BY DEF Boot
<1>2. QueuesInOrder(queues')
  <2>1. DOMAIN queues' = Module
    BY <1>1 DEF CreateQueues
  <2>2. ASSUME NEW m \in Module PROVE QueueShape(queues'[m]) /\ Sorted(queues'[m].msgs)
    <3>1. queues'[m] = msg_queue_init(queues, m, QueueSize)[m]
      BY <1>1 DEF CreateQueues
    <3>2. queues'[m] = [size |-> QueueSize, msgs |-> <<>>]
      BY <3>1 DEF msg_queue_init, ManagerInv, QueuesInOrder
    <3>3. QueueSize \in Nat
      BY ManagerAssumption
    <3>4. QED
      BY <3>2, <3>3, EmptyInOrder
  <2>3. QED
    BY <2>1, <2>2 DEF QueuesInOrder
<1>3. DOMAIN modules' = Module
  BY DEF Boot, manager_start_all_modules
<1>4. ASSUME NEW m \in Module
      PROVE  /\ DOMAIN modules'[m] = InfoFields /\ modules'[m].errors = 0 /\ modules'[m].health \in 0..1
  <2>1. PICK fresh, ready, new : /\ fresh = [k \in Module |-> Fresh]
                                 /\ ready = manager_init_all_modules(fresh)
                                 /\ new = manager_start_all_modules(ready)
    OBVIOUS
  <2>2. modules' = new
    BY <2>1 DEF Boot
  <2>3. PICK r : r = ready[m]
    OBVIOUS
  <2>4. r = IF m = ManagerId THEN Fresh ELSE [Fresh EXCEPT !.state = "READY"]
    BY <2>1, <2>3 DEF manager_init_all_modules
  <2>5. DOMAIN r = InfoFields /\ r.health = 0 /\ r.errors = 0
    BY <2>4, FreshFields DEF InfoFields
  <2>6. new[m] = IF r.state # "READY" THEN r
                 ELSE [r EXCEPT !.state = "RUNNING", !.health = HEALTHY, !.beat = 1]
    BY <2>1, <2>3 DEF manager_start_all_modules
  <2>7. DOMAIN new[m] = InfoFields /\ new[m].errors = 0 /\ new[m].health \in 0..1
    BY <2>5, <2>6 DEF InfoFields, HEALTHY
  <2>8. QED
    BY <2>2, <2>7
<1>5. WellFormed(modules')
  <2>1. \A m \in Module : modules'[m].health \in 0..3 /\ modules'[m].errors \in Nat
    BY <1>4
  <2>2. QED
    BY <1>3, <1>4, <2>1 DEF WellFormed
<1>6. Worst(modules', overall')
  BY <1>1, <1>4 DEF Worst, HEALTHY
<1>7. QED
  BY <1>1, <1>2, <1>5, <1>6 DEF ManagerInv

LEMMA ShutdownKeeps == ASSUME ManagerInv, Shutdown PROVE ManagerInv'
<1>1. up' = FALSE /\ queues' = DestroyQueues(queues) /\ modules' = manager_stop_all_modules(modules)
  BY DEF Shutdown
<1>2. QueuesInOrder(queues')
  <2>1. DOMAIN queues' = Module
    BY <1>1 DEF DestroyQueues
  <2>2. ASSUME NEW m \in Module PROVE QueueShape(queues'[m]) /\ Sorted(queues'[m].msgs)
    <3>1. queues'[m] = msg_queue_deinit(queues, m)[m]
      BY <1>1 DEF DestroyQueues
    <3>2. queues'[m] = [size |-> 0, msgs |-> <<>>]
      BY <3>1 DEF msg_queue_deinit, NotInit, ManagerInv, QueuesInOrder
    <3>3. QED
      BY <3>2, EmptyInOrder
  <2>3. QED
    BY <2>1, <2>2 DEF QueuesInOrder
<1>3. DOMAIN modules' = Module
  BY <1>1 DEF manager_stop_all_modules
<1>4. ASSUME NEW m \in Module
      PROVE  DOMAIN modules'[m] = InfoFields /\ modules'[m].health \in 0..3 /\ modules'[m].errors \in Nat
  <2>1. PICK o : o = modules[m] /\ DOMAIN o = InfoFields /\ o.health \in 0..3 /\ o.errors \in Nat
    BY DEF ManagerInv, WellFormed
  <2>2. modules'[m] = IF o.state # "RUNNING" THEN o ELSE [o EXCEPT !.state = "READY"]
    BY <1>1, <2>1 DEF manager_stop_all_modules
  <2>3. QED
    BY <2>1, <2>2 DEF InfoFields
<1>5. WellFormed(modules')
  BY <1>3, <1>4 DEF WellFormed
<1>6. QED
  BY <1>1, <1>2, <1>5 DEF ManagerInv

(* What manager_process does to the queues and the modules.                *)
LEMMA ProcessTells ==
    ASSUME ManagerInv, Process
    PROVE  \E handled, checked, t :
              /\ Reached(t, queues, modules, queues[ManagerId].msgs, Len(queues[ManagerId].msgs))
              /\ t.mods = handled /\ queues' = t.q /\ checked = process_health_check(handled)
              /\ modules' = Aged(checked, 1) /\ overall' = calc_overall_health(checked)
<1>1. ManagerId \in Module
  BY ManagerAssumption
<1>2. PICK list : list = queues[ManagerId].msgs /\ list \in Seq(Letter)
  BY <1>1 DEF ManagerInv, QueuesInOrder, QueueShape
<1>3. PICK n : n = Len(list) /\ n \in Nat
  BY <1>2, LenProperties
<1>4. PICK f : Turns(f, [q |-> queues, mods |-> modules], n) /\ Drained = f[n]
  BY <1>2, <1>3, DrainedTurns
<1>5. Reached(f[n], queues, modules, list, n)
  BY <1>1, <1>2, <1>3, <1>4, TurnsTell DEF ManagerInv, QueuesInOrder
<1>6. PICK t : t = Drained
  OBVIOUS
<1>7. /\ queues' = t.q
      /\ modules' = Aged(process_health_check(t.mods), 1)
      /\ overall' = calc_overall_health(process_health_check(t.mods))
  BY <1>6 DEF Process
<1>8. QED
  BY <1>2, <1>3, <1>4, <1>5, <1>6, <1>7

LEMMA ProcessKeeps == ASSUME ManagerInv, Process PROVE ManagerInv'
<1>1. PICK list : list = queues[ManagerId].msgs
  OBVIOUS
<1>2. PICK handled, checked, t :
              /\ Reached(t, queues, modules, list, Len(list))
              /\ t.mods = handled /\ queues' = t.q /\ checked = process_health_check(handled)
              /\ modules' = Aged(checked, 1) /\ overall' = calc_overall_health(checked)
  BY <1>1, ProcessTells
<1>3. WellFormed(handled)
  BY <1>2 DEF Reached
<1>4. WellFormed(checked)
  BY <1>2, <1>3, ChecksTell
<1>5. Alike(modules', checked)
  BY <1>2, <1>4, AgedAlike
<1>6. Worst(checked, overall')
  BY <1>2, <1>4, OverallWorst
<1>7. Worst(modules', overall')
  BY <1>5, <1>6, AlikeWorst
<1>8. QueuesInOrder(queues')
  <2>1. ManagerId \in Module
    BY ManagerAssumption
  <2>2. /\ DOMAIN queues' = Module /\ \A m \in Module : m # ManagerId => queues'[m] = queues[m]
        /\ QueueShape(queues'[ManagerId]) /\ Len(queues'[ManagerId].msgs) = Len(list) - Len(list)
    BY <1>2 DEF Reached
  <2>3. Len(queues'[ManagerId].msgs) = 0
    <3>1. list \in Seq(Letter)
      BY <1>1, <2>1 DEF ManagerInv, QueuesInOrder, QueueShape
    <3>2. Len(list) \in Nat
      BY <3>1, LenProperties
    <3>3. QED
      BY <2>2, <3>2
  <2>4. Sorted(queues'[ManagerId].msgs)
    <3>1. \A i \in 1..0 : FALSE
      OBVIOUS
    <3>2. QED
      BY <2>3, <3>1 DEF Sorted
  <2>5. QED
    BY <2>1, <2>2, <2>4 DEF QueuesInOrder, ManagerInv
<1>9. up' = up
  BY DEF Process
<1>10. WellFormed(modules')
  BY <1>5 DEF Alike
<1>11. QED
  BY <1>7, <1>8, <1>9, <1>10 DEF ManagerInv

LEMMA ReportErrorKeeps == ASSUME ManagerInv, NEW m \in Module, ReportError(m) PROVE ManagerInv'
<1>1. PICK msg : msg = [type |-> "ERROR_REPORT", prio |-> 2, src |-> m]
  OBVIOUS
<1>2. msg \in Letter
  BY <1>1 DEF Letter
<1>3. /\ up' = up /\ overall' = overall /\ modules' = Aged(modules, 1)
      /\ queues' = msg_queue_send(queues, ManagerId, msg)
  BY <1>1 DEF ReportError
<1>4. QueuesInOrder(queues')
  BY <1>2, <1>3, SendInOrder, ManagerAssumption DEF ManagerInv
<1>5. Alike(modules', modules)
  BY <1>3, AgedAlike DEF ManagerInv
<1>6. up => Worst(modules', overall)
  BY <1>5, AlikeWorst DEF ManagerInv
<1>7. QED
  BY <1>3, <1>4, <1>5, <1>6 DEF ManagerInv, Alike

LEMMA SendOtherKeeps == ASSUME ManagerInv, NEW p \in Priority, SendOther(p) PROVE ManagerInv'
<1>1. PICK msg : msg = [type |-> "HEALTH_CHECK", prio |-> p, src |-> ManagerId]
  OBVIOUS
<1>2. msg \in Letter
  BY <1>1, MsgAssumption, ManagerAssumption DEF Letter
<1>3. /\ up' = up /\ overall' = overall /\ modules' = modules
      /\ queues' = msg_queue_send(queues, ManagerId, msg)
  BY <1>1 DEF SendOther, mgrVars
<1>4. QueuesInOrder(queues')
  BY <1>2, <1>3, SendInOrder, ManagerAssumption DEF ManagerInv
<1>5. QED
  BY <1>3, <1>4 DEF ManagerInv

LEMMA HeartbeatKeeps ==
    ASSUME ManagerInv, NEW m \in Module, Heartbeat(m)
    PROVE  ManagerInv' /\ Alike(modules', modules)
<1>1. PICK aged : aged = Aged(modules, 1)
  OBVIOUS
<1>2. /\ up' = up /\ overall' = overall /\ queues' = queues /\ modules' = [aged EXCEPT ![m].beat = 1]
  BY <1>1 DEF Heartbeat
<1>3. Alike(aged, modules)
  BY <1>1, AgedAlike DEF ManagerInv
<1>4. PICK a, b : a = aged[m] /\ b = [a EXCEPT !.beat = 1]
  OBVIOUS
<1>5. DOMAIN a = InfoFields
  BY <1>3, <1>4 DEF Alike, WellFormed
<1>6. DOMAIN b = InfoFields /\ b.state = a.state /\ b.health = a.health /\ b.errors = a.errors
  BY <1>4, <1>5 DEF InfoFields
<1>7. modules' = [aged EXCEPT ![m] = b]
  BY <1>2, <1>4
<1>8. DOMAIN modules' = Module /\ modules'[m] = b /\ \A k \in Module : k # m => modules'[k] = aged[k]
  BY <1>3, <1>7 DEF Alike, WellFormed
<1>9. Alike(modules', modules)
  <2>1. \A k \in Module : /\ DOMAIN modules'[k] = InfoFields /\ modules'[k].state = aged[k].state
                          /\ modules'[k].health = aged[k].health /\ modules'[k].errors = aged[k].errors
    BY <1>3, <1>4, <1>6, <1>8 DEF Alike, WellFormed
  <2>2. QED
    BY <1>3, <1>8, <2>1 DEF Alike, WellFormed
<1>10. up => Worst(modules', overall)
  BY <1>9, AlikeWorst DEF ManagerInv
<1>11. QED
  BY <1>2, <1>9, <1>10 DEF ManagerInv, Alike

LEMMA UpdateHealthKeeps ==
    ASSUME ManagerInv, NEW m \in Module, NEW h \in Healths, UpdateHealth(m, h)
    PROVE  ManagerInv' /\ \A k \in Module : modules'[k].state = modules[k].state
<1>1. /\ up' = up /\ queues' = queues /\ modules' = [modules EXCEPT ![m].health = h]
      /\ overall' = calc_overall_health(modules')
  BY DEF UpdateHealth
<1>2. PICK a, b : a = modules[m] /\ b = [a EXCEPT !.health = h]
  OBVIOUS
<1>3. DOMAIN a = InfoFields /\ h \in 0..3
  BY <1>2, ManagerAssumption DEF ManagerInv, WellFormed
<1>4. DOMAIN b = InfoFields /\ b.state = a.state /\ b.health = h /\ b.errors = a.errors
  BY <1>2, <1>3 DEF InfoFields
<1>5. modules' = [modules EXCEPT ![m] = b]
  BY <1>1, <1>2
<1>6. DOMAIN modules' = Module /\ modules'[m] = b /\ \A k \in Module : k # m => modules'[k] = modules[k]
  BY <1>5 DEF ManagerInv, WellFormed
<1>7. WellFormed(modules')
  BY <1>2, <1>3, <1>4, <1>6 DEF ManagerInv, WellFormed
<1>8. Worst(modules', overall')
  BY <1>1, <1>7, OverallWorst
<1>9. QED
  BY <1>1, <1>2, <1>4, <1>6, <1>7, <1>8 DEF ManagerInv

LEMMA SetPowerStateKeeps ==
    ASSUME ManagerInv, NEW s, SetPowerState(s)
    PROVE  ManagerInv' /\ Alike(modules', modules)
<1>1. up' = up /\ overall' = overall /\ queues' = queues /\ modules' = Aged(modules, 1)
  BY DEF SetPowerState
<1>2. Alike(modules', modules)
  BY <1>1, AgedAlike DEF ManagerInv
<1>3. up => Worst(modules', overall)
  BY <1>2, AlikeWorst DEF ManagerInv
<1>4. QED
  BY <1>1, <1>2, <1>3 DEF ManagerInv, Alike

LEMMA ManagerNextInv == ManagerInv /\ [Next]_vars => ManagerInv'
<1> SUFFICES ASSUME ManagerInv, [Next]_vars PROVE ManagerInv'
  OBVIOUS
<1>1. CASE Boot
  BY <1>1, BootKeeps
<1>2. CASE Shutdown
  BY <1>2, ShutdownKeeps
<1>3. CASE Process
  BY <1>3, ProcessKeeps
<1>4. ASSUME NEW m \in Module, ReportError(m) PROVE ManagerInv'
  BY <1>4, ReportErrorKeeps
<1>5. ASSUME NEW m \in Module, Heartbeat(m) PROVE ManagerInv'
  BY <1>5, HeartbeatKeeps
<1>6. ASSUME NEW m \in Module, NEW h \in Healths, UpdateHealth(m, h) PROVE ManagerInv'
  BY <1>6, UpdateHealthKeeps
<1>7. ASSUME NEW p \in Priority, SendOther(p) PROVE ManagerInv'
  BY <1>7, SendOtherKeeps
<1>8. ASSUME NEW t \in Temperatures, UpdateTemperature(t) PROVE ManagerInv'
  <2>1. up' = up /\ overall' = overall /\ queues' = queues /\ modules' = modules
    BY <1>8 DEF UpdateTemperature
  <2>2. QED
    BY <2>1 DEF ManagerInv
<1>9. ASSUME NEW s \in PowerSettings, SetPowerState(s) PROVE ManagerInv'
  BY <1>9, SetPowerStateKeeps
<1>10. CASE UNCHANGED vars
  <2>1. up' = up /\ overall' = overall /\ queues' = queues /\ modules' = modules
    BY <1>10 DEF vars, mgrVars
  <2>2. QED
    BY <2>1 DEF ManagerInv
<1>11. QED
  BY <1>1, <1>2, <1>3, <1>4, <1>5, <1>6, <1>7, <1>8, <1>9, <1>10 DEF Next

(* The overall health the manager reports is at all times that of the      *)
(* worst module that was started, after any report, recovery or manual     *)
(* setting.                                                                *)
THEOREM HealthIsWorst == Spec => []OverallIsWorst
<1>1. ManagerInv => OverallIsWorst
  BY DEF ManagerInv, Worst, OverallIsWorst
<1>2. QED
  BY <1>1, ManagerInitInv, ManagerNextInv, PTL DEF Spec

(* A step of the invariant takes a module out of service only if it has    *)
(* earned it.                                                              *)
Earned ==
    \A m \in Module :
         up /\ up' /\ modules[m].state = "RUNNING" /\ modules'[m].state # "RUNNING" =>
            LET own == {i \in Reports : queues[ManagerId].msgs[i].src = m}
            IN  modules[m].errors + Cardinality(own) + 1 >= MaxErrorCount

(* manager_process takes a module out of service by its errors only.       *)
LEMMA ProcessEarns == ASSUME ManagerInv, Process PROVE Earned
<1> SUFFICES ASSUME NEW m \in Module, modules[m].state = "RUNNING", modules'[m].state # "RUNNING"
             PROVE  LET own == {i \in Reports : queues[ManagerId].msgs[i].src = m}
                    IN  modules[m].errors + Cardinality(own) + 1 >= MaxErrorCount
  BY DEF Earned
<1>1. PICK list : list = queues[ManagerId].msgs
  OBVIOUS
<1>2. list \in Seq(Letter)
  BY <1>1, ManagerAssumption DEF ManagerInv, QueuesInOrder, QueueShape
<1>3. PICK n : n = Len(list) /\ n \in Nat /\ DOMAIN list = 1..n
  BY <1>2, LenProperties
<1>4. {i \in Reports : queues[ManagerId].msgs[i].src = m} = Mine(list, m, n)
  BY <1>1, <1>3 DEF Reports, Mine
<1>5. PICK handled, checked, t :
              /\ Reached(t, queues, modules, list, n)
              /\ t.mods = handled /\ queues' = t.q /\ checked = process_health_check(handled)
              /\ modules' = Aged(checked, 1) /\ overall' = calc_overall_health(checked)
  BY <1>1, <1>3, ProcessTells
<1>6. PICK c : c = Cardinality(Mine(list, m, n)) /\ c \in Nat
  BY <1>3, MineGrows
<1>7. WellFormed(handled) /\ Told(modules[m], handled[m], c)
  BY <1>5, <1>6 DEF Reached
<1>8. PICK e, o, w : e = modules[m].errors /\ o = handled[m].errors /\ w = handled[m].state
  OBVIOUS
<1>9. e \in Nat /\ o \in Nat /\ MaxErrorCount \in Nat
  BY <1>7, <1>8, ManagerAssumption DEF ManagerInv, WellFormed
<1>10. WellFormed(checked) /\ (checked[m].state = w \/ o + 1 >= MaxErrorCount)
  BY <1>5, <1>7, <1>8, ChecksTell
<1>11. modules'[m].state = checked[m].state
  BY <1>5, <1>10, AgedAlike DEF Alike
<1>12. (w = "RUNNING" /\ o = e + c) \/ e + c >= MaxErrorCount
  BY <1>7, <1>8 DEF Told
<1>13. e + c + 1 >= MaxErrorCount
  BY <1>6, <1>9, <1>10, <1>11, <1>12
<1>14. QED
  BY <1>4, <1>6, <1>8, <1>13

LEMMA StepEarns == ManagerInv /\ [Next]_vars => Earned
<1> SUFFICES ASSUME ManagerInv, [Next]_vars PROVE Earned
  OBVIOUS
<1>0. (\A m \in Module : modules'[m].state = modules[m].state) => Earned
  BY DEF Earned
<1>1. CASE Boot
  BY <1>1 DEF Boot, Earned
<1>2. CASE Shutdown
  BY <1>2 DEF Shutdown, Earned
<1>3. CASE Process
  BY <1>3, ProcessEarns
<1>4. ASSUME NEW m \in Module, ReportError(m) PROVE Earned
  <2>1. modules' = Aged(modules, 1)
    BY <1>4 DEF ReportError
  <2>2. Alike(modules', modules)
    BY <2>1, AgedAlike DEF ManagerInv
  <2>3. QED
    BY <1>0, <2>2 DEF Alike
<1>5. ASSUME NEW m \in Module, Heartbeat(m) PROVE Earned
  BY <1>0, <1>5, HeartbeatKeeps DEF Alike
<1>6. ASSUME NEW m \in Module, NEW h \in Healths, UpdateHealth(m, h) PROVE Earned
  BY <1>0, <1>6, UpdateHealthKeeps
<1>7. ASSUME NEW p \in Priority, SendOther(p) PROVE Earned
  BY <1>0, <1>7 DEF SendOther, mgrVars
<1>8. ASSUME NEW t \in Temperatures, UpdateTemperature(t) PROVE Earned
  BY <1>0, <1>8 DEF UpdateTemperature
<1>9. ASSUME NEW s \in PowerSettings, SetPowerState(s) PROVE Earned
  BY <1>0, <1>9, SetPowerStateKeeps DEF Alike
<1>10. CASE UNCHANGED vars
  BY <1>0, <1>10 DEF vars, mgrVars
<1>11. QED
  BY <1>1, <1>2, <1>3, <1>4, <1>5, <1>6, <1>7, <1>8, <1>9, <1>10 DEF Next

(* A module is recovered only when its earlier errors, its reports in the  *)
(* queue and at most one missed heartbeat reach max_error_count, for every *)
(* number of waiting messages in every order.                              *)
THEOREM RecoveriesAreEarned == Spec => RecoveryEarned
<1>1. ManagerInv /\ [Next]_vars => [Earned]_vars
  BY StepEarns
<1>2. QED
  BY <1>1, ManagerInitInv, ManagerNextInv, PTL DEF Spec, RecoveryEarned, Earned

-----------------------------------------------------------------------------
(* The lanes of the queues, as paths along the list.                       *)
LanePath(f, s, p) == f[0] = <<>> /\ \A k \in 1..Len(s) : f[k] = Longer(f[k - 1], s[k], p)

(* The recursive function of LaneOf exists.                                *)
LEMMA LanesExist ==
    ASSUME NEW s, NEW p, NEW n \in Nat
    PROVE  \E f : f = [i \in 0..n |-> IF i = 0 THEN <<>> ELSE Longer(f[i - 1], s[i], p)]
<1> DEFINE step(f, k) == IF k = 0 THEN <<>> ELSE Longer(f[k - 1], s[k], p)
           T == {m \in Nat : \E f : f = [k \in 0..m |-> step(f, k)]}
<1>1. 0 \in T
  <2> DEFINE f == [k \in 0..0 |-> <<>>]
  <2>1. f = [k \in 0..0 |-> step(f, k)]
    OBVIOUS
  <2>2. QED
    BY <2>1
<1>2. ASSUME NEW m \in T PROVE m + 1 \in T
  <2>1. PICK f : f = [k \in 0..m |-> step(f, k)]
    OBVIOUS
  <2>2. m \in Nat /\ m + 1 \in Nat
    OBVIOUS
  <2> DEFINE g == [k \in 0..(m + 1) |-> IF k <= m THEN f[k] ELSE Longer(f[m], s[m + 1], p)]
  <2>3. \A k \in 0..(m + 1) : g[k] = step(g, k)
    <3> TAKE k \in 0..(m + 1)
    <3>1. CASE k = 0
      <4>1. f[0] = <<>>
        BY <2>1, <2>2
      <4>2. g[0] = f[0]
        BY <2>2
      <4>3. QED
        BY <3>1, <4>1, <4>2
    <3>2. CASE k # 0 /\ k <= m
      <4>1. k \in 0..m /\ k - 1 \in 0..m /\ k - 1 \in 0..(m + 1)
        BY <2>2, <3>2
      <4>2. f[k] = Longer(f[k - 1], s[k], p)
        <5>1. f[k] = step(f, k)
          BY <2>1, <4>1
        <5>2. QED
          BY <3>2, <5>1
      <4>3. g[k] = f[k] /\ g[k - 1] = f[k - 1]
        BY <2>2, <3>2, <4>1
      <4>4. QED
        BY <3>2, <4>2, <4>3
    <3>3. CASE k = m + 1
      <4>1. g[k] = Longer(f[m], s[m + 1], p)
        BY <2>2, <3>3
      <4>2. g[m] = f[m]
        BY <2>2
      <4>3. k # 0 /\ k - 1 = m
        BY <2>2, <3>3
      <4>4. QED
        BY <3>3, <4>1, <4>2, <4>3
    <3>4. QED
      BY <2>2, <3>1, <3>2, <3>3
  <2>4. g = [k \in 0..(m + 1) |-> step(g, k)]
    <3> DEFINE h == [k \in 0..(m + 1) |-> step(g, k)]
    <3>1. DOMAIN g = DOMAIN h /\ g = [k \in DOMAIN g |-> g[k]] /\ h = [k \in DOMAIN h |-> h[k]]
      OBVIOUS
    <3>2. \A k \in DOMAIN g : g[k] = h[k]
      BY <2>3
    <3> HIDE DEF g, h
    <3>3. g = h
      BY <3>1, <3>2
    <3>4. QED
      BY <3>3 DEF h
  <2> HIDE DEF g, step
  <2>5. QED
    BY <2>2, <2>4
<1> HIDE DEF T
<1>3. n \in T
  <2>1. T \in SUBSET Nat
    BY DEF T
  <2>2. QED
    BY <1>1, <1>2, <2>1, AllNumbers
<1>4. QED
  BY <1>3 DEF T

(* LaneOf is the last step of the path along the list.                     *)
LEMMA LaneFound ==
    ASSUME NEW s \in Seq(Letter), NEW p
    PROVE  \E f : LanePath(f, s, p) /\ LaneOf(s, p) = f[Len(s)]
<1>1. PICK n : n = Len(s) /\ n \in Nat
  BY LenProperties
<1> DEFINE f == CHOOSE f : f = [i \in 0..n |-> IF i = 0 THEN <<>> ELSE Longer(f[i - 1], s[i], p)]
<1>2. f = [i \in 0..n |-> IF i = 0 THEN <<>> ELSE Longer(f[i - 1], s[i], p)]
  BY <1>1, LanesExist
<1>3. LaneOf(s, p) = f[n]
  BY <1>1 DEF LaneOf
<1> HIDE DEF f
<1>4. LanePath(f, s, p)
  BY <1>1, <1>2 DEF LanePath
<1>5. QED
  BY <1>1, <1>3, <1>4

(* Every step of the path is a list of letters.                            *)
LEMMA LaneTyped ==
    ASSUME NEW s \in Seq(Letter), NEW p, NEW f, LanePath(f, s, p)
    PROVE  \A k \in 0..Len(s) : f[k] \in Seq(Letter)
<1>1. PICK n : n = Len(s) /\ n \in Nat
  BY LenProperties
<1> DEFINE T == {k \in Nat : k <= n => f[k] \in Seq(Letter)}
<1>2. 0 \in T
  <2>1. f[0] = <<>> /\ <<>> \in Seq(Letter)
    BY EmptySeq DEF LanePath
  <2>2. QED
    BY <2>1
<1>3. ASSUME NEW k \in T PROVE k + 1 \in T
  <2>1. k \in Nat /\ k + 1 \in Nat /\ (k <= n => f[k] \in Seq(Letter))
    OBVIOUS
  <2> HIDE DEF T
  <2>2. ASSUME k + 1 <= n PROVE f[k + 1] \in Seq(Letter)
    <3>1. k <= n /\ k + 1 \in 1..n /\ (k + 1) - 1 = k
      BY <1>1, <2>1, <2>2
    <3>2. f[k + 1] = Longer(f[k], s[k + 1], p) /\ s[k + 1] \in Letter
      <4>1. s[k + 1] \in Letter
        BY <1>1, <3>1, ElementOfSeq
      <4>2. QED
        BY <1>1, <3>1, <4>1 DEF LanePath
    <3>3. Append(f[k], s[k + 1]) \in Seq(Letter)
      BY <2>1, <3>1, <3>2
    <3>4. QED
      BY <2>1, <3>1, <3>2, <3>3 DEF Longer
  <2>3. QED
    BY <2>1, <2>2 DEF T
<1>4. ASSUME NEW k \in 0..Len(s) PROVE f[k] \in Seq(Letter)
  <2>1. T \in SUBSET Nat /\ k \in Nat /\ k <= n
    BY <1>1
  <2> HIDE DEF T
  <2>2. k \in T
    BY <1>2, <1>3, <2>1, AllNumbers
  <2>3. QED
    BY <2>1, <2>2 DEF T
<1>5. QED
  BY <1>4

(* The paths along s and along u, which has one message more: alike up to  *)
(* its place, and again from there on when it is of another priority or    *)
(* when no message behind it is of its own.                                *)
LEMMA PathsBefore ==
    ASSUME NEW s \in Seq(Letter), NEW msg \in Letter, NEW p, NEW u, NEW i \in 0..Len(s),
           Shifted(u, s, msg, i), NEW f, LanePath(f, s, p), NEW g, LanePath(g, u, p)
    PROVE  g[i] = f[i]
<1>1. PICK n : n = Len(s) /\ n \in Nat /\ Len(u) = n + 1
  BY LenProperties DEF Shifted
<1> DEFINE T == {k \in Nat : k <= i => g[k] = f[k]}
<1>2. 0 \in T
  BY DEF LanePath
<1>3. ASSUME NEW k \in T PROVE k + 1 \in T
  <2>1. k \in Nat /\ k + 1 \in Nat /\ (k <= i => g[k] = f[k])
    OBVIOUS
  <2> HIDE DEF T
  <2>2. ASSUME k + 1 <= i PROVE g[k + 1] = f[k + 1]
    <3>1. k <= i /\ k + 1 \in 1..n /\ k + 1 \in 1..n + 1 /\ (k + 1) - 1 = k /\ k + 1 \in 1..i
      BY <1>1, <2>1, <2>2
    <3>2. f[k + 1] = Longer(f[k], s[k + 1], p) /\ g[k + 1] = Longer(g[k], u[k + 1], p)
      BY <1>1, <3>1 DEF LanePath
    <3>3. u[k + 1] = s[k + 1]
      BY <3>1 DEF Shifted
    <3>4. QED
      BY <2>1, <3>1, <3>2, <3>3
  <2>3. QED
    BY <2>1, <2>2 DEF T
<1>4. i \in T
  <2>1. T \in SUBSET Nat /\ i \in Nat
    BY <1>1
  <2> HIDE DEF T
  <2>2. QED
    BY <1>2, <1>3, <2>1, AllNumbers
<1>5. QED
  BY <1>1, <1>4

(* An insertion leaves a lane as it was or puts the message at its end.    *)
LEMMA LaneGrows ==
    ASSUME NEW s \in Seq(Letter), Sorted(s), NEW msg \in Letter, NEW p \in Nat
    PROVE  /\ LaneOf(s, p) \in Seq(Letter)
           /\ LaneOf(Inserted(s, msg), p) \in {LaneOf(s, p), Append(LaneOf(s, p), msg)}
<1>1. PICK i, u : u = Inserted(s, msg) /\ Between(s, msg, i) /\ Shifted(u, s, msg, i)
  BY InsertedShifts
<1>2. PICK n : n = Len(s) /\ n \in Nat /\ Len(u) = n + 1 /\ u \in Seq(Letter) /\ i \in 0..n
  BY <1>1, LenProperties DEF Shifted, Between
<1>3. PICK f : LanePath(f, s, p) /\ LaneOf(s, p) = f[n]
  BY <1>2, LaneFound
<1>4. PICK g : LanePath(g, u, p) /\ LaneOf(u, p) = g[n + 1]
  BY <1>2, LaneFound
<1>5. f[n] \in Seq(Letter)
  BY <1>2, <1>3, LaneTyped
<1>6. g[i] = f[i]
  <2>1. i \in 0..Len(s) /\ Shifted(u, s, msg, i) /\ LanePath(f, s, p) /\ LanePath(g, u, p)
    BY <1>1, <1>2, <1>3, <1>4
  <2>2. QED
    BY <2>1, PathsBefore
<1>7. g[i + 1] = Longer(f[i], msg, p)
  <2>1. i + 1 \in 1..n + 1 /\ (i + 1) - 1 = i
    BY <1>2
  <2>2. QED
    BY <1>1, <1>2, <1>4, <1>6, <2>1 DEF LanePath, Shifted
<1>8. ASSUME NEW k \in Nat, k + 1 <= n, i <= k
      PROVE  /\ f[k + 1] = Longer(f[k], s[k + 1], p) /\ g[(k + 1) + 1] = Longer(g[k + 1], s[k + 1], p)
             /\ s[k + 1].prio < msg.prio
  <2>1. /\ k + 1 \in 1..n /\ (k + 1) - 1 = k /\ (k + 1) + 1 \in 1..n + 1 /\ ((k + 1) + 1) - 1 = k + 1
        /\ (k + 1) + 1 \in i + 2..n + 1 /\ i # n /\ i + 1 \in 1..n
    BY <1>2, <1>8
  <2>2. u[(k + 1) + 1] = s[k + 1]
    BY <1>1, <1>2, <2>1 DEF Shifted
  <2>3. s[k + 1].prio < msg.prio
    <3>1. \A j \in 1..n : s[j].prio \in Nat
      <4>1. \A j \in 1..n : s[j] \in Letter
        BY <1>2, ElementOfSeq
      <4>2. QED
        BY <4>1 DEF Letter
    <3>2. s[i + 1].prio < msg.prio
      BY <1>1, <1>2, <2>1 DEF Between
    <3>3. i + 1 = k + 1 \/ i + 1 < k + 1
      BY <1>2, <1>8
    <3>4. i + 1 < k + 1 => s[i + 1].prio >= s[k + 1].prio
      BY <1>2, <2>1 DEF Sorted
    <3>5. msg.prio \in Nat
      BY DEF Letter
    <3>6. QED
      BY <2>1, <3>1, <3>2, <3>3, <3>4, <3>5
  <2>4. QED
    BY <1>2, <1>3, <1>4, <2>1, <2>2, <2>3 DEF LanePath
<1>9. CASE msg.prio = p
  <2> DEFINE T == {k \in Nat : i <= k /\ k <= n => f[k] = f[i] /\ g[k + 1] = g[i + 1]}
  <2>1. 0 \in T
    BY <1>2
  <2>2. ASSUME NEW k \in T PROVE k + 1 \in T
    <3>1. k \in Nat /\ k + 1 \in Nat /\ (i <= k /\ k <= n => f[k] = f[i] /\ g[k + 1] = g[i + 1])
      OBVIOUS
    <3> HIDE DEF T
    <3>2. ASSUME i <= k + 1, k + 1 <= n PROVE f[k + 1] = f[i] /\ g[(k + 1) + 1] = g[i + 1]
      <4>1. CASE i = k + 1
        BY <4>1
      <4>2. CASE i <= k
        <5>1. k <= n
          BY <1>2, <3>1, <3>2
        <5>2. s[k + 1].prio # p
          <6>1. s[k + 1] \in Letter
            <7>1. k + 1 \in 1..n
              BY <1>2, <3>1, <3>2
            <7>2. QED
              BY <1>2, <7>1, ElementOfSeq
          <6>2. s[k + 1].prio \in Nat /\ s[k + 1].prio < p
            BY <1>8, <1>9, <3>1, <3>2, <4>2, <6>1 DEF Letter
          <6>3. QED
            BY <6>2
        <5>3. f[k + 1] = f[k] /\ g[(k + 1) + 1] = g[k + 1]
          BY <1>8, <3>1, <3>2, <4>2, <5>2 DEF Longer
        <5>4. QED
          BY <3>1, <4>2, <5>1, <5>3
      <4>3. QED
        BY <1>2, <3>1, <3>2, <4>1, <4>2
    <3>3. QED
      BY <3>1, <3>2 DEF T
  <2>3. n \in T
    <3>1. T \in SUBSET Nat
      OBVIOUS
    <3> HIDE DEF T
    <3>2. QED
      BY <1>2, <2>1, <2>2, <3>1, AllNumbers
  <2>4. f[n] = f[i] /\ g[n + 1] = g[i + 1]
    BY <1>2, <2>3
  <2>5. g[n + 1] = Append(f[n], msg)
    BY <1>7, <1>9, <2>4 DEF Longer
  <2>6. QED
    BY <1>1, <1>3, <1>4, <1>5, <2>5
<1>10. CASE msg.prio # p
  <2> DEFINE T == {k \in Nat : i <= k /\ k <= n => g[k + 1] = f[k]}
  <2>0. g[i + 1] = f[i]
    BY <1>7, <1>10 DEF Longer
  <2>1. 0 \in T
    BY <1>2, <2>0
  <2>2. ASSUME NEW k \in T PROVE k + 1 \in T
    <3>1. k \in Nat /\ k + 1 \in Nat /\ (i <= k /\ k <= n => g[k + 1] = f[k])
      OBVIOUS
    <3> HIDE DEF T
    <3>2. ASSUME i <= k + 1, k + 1 <= n PROVE g[(k + 1) + 1] = f[k + 1]
      <4>1. CASE i = k + 1
        BY <2>0, <4>1
      <4>2. CASE i <= k
        <5>1. k <= n
          BY <1>2, <3>1, <3>2
        <5>2. QED
          BY <1>8, <3>1, <3>2, <4>2, <5>1
      <4>3. QED
        BY <1>2, <3>1, <3>2, <4>1, <4>2
    <3>3. QED
      BY <3>1, <3>2 DEF T
  <2>3. n \in T
    <3>1. T \in SUBSET Nat
      OBVIOUS
    <3> HIDE DEF T
    <3>2. QED
      BY <1>2, <2>1, <2>2, <3>1, AllNumbers
  <2>4. g[n + 1] = f[n]
    BY <1>2, <2>3
  <2>5. QED
    BY <1>1, <1>3, <1>4, <1>5, <2>4
<1>11. QED
  BY <1>9, <1>10

(* The lanes of an empty queue are empty.                                  *)
LEMMA EmptyLane == ASSUME NEW p PROVE LaneOf(<<>>, p) = <<>>
<1>1. <<>> \in Seq(Letter) /\ Len(<<>>) = 0
  BY EmptySeq
<1>2. PICK f : LanePath(f, <<>>, p) /\ LaneOf(<<>>, p) = f[Len(<<>>)]
  BY <1>1, LaneFound
<1>3. QED
  BY <1>1, <1>2 DEF LanePath

(* A send moves the lane of every queue as a queue moves.                  *)
LEMMA SendMovesLanes ==
    ASSUME NEW qs, QueuesInOrder(qs), NEW dst \in Module, NEW msg \in Letter, NEW m \in Module,
           NEW p \in Nat
    PROVE  LaneMoves(LaneOf(qs[m].msgs, p), LaneOf(msg_queue_send(qs, dst, msg)[m].msgs, p))
<1>1. PICK new, s : new = msg_queue_send(qs, dst, msg) /\ s = qs[m].msgs
  OBVIOUS
<1>2. s \in Seq(Letter) /\ Sorted(s)
  BY <1>1 DEF QueuesInOrder, QueueShape
<1>3. CASE new[m].msgs = s
  BY <1>1, <1>3 DEF LaneMoves
<1>4. CASE new[m].msgs = Inserted(s, msg)
  <2>1. PICK old, lane : old = LaneOf(s, p) /\ lane = LaneOf(Inserted(s, msg), p)
    OBVIOUS
  <2>2. old \in Seq(Letter) /\ lane \in {old, Append(old, msg)}
    BY <1>2, <2>1, LaneGrows
  <2>3. CASE lane = Append(old, msg)
    <3>1. PICK n : n = Len(old) /\ n \in Nat
      BY <2>2, LenProperties
    <3>2. 0 \in 0..n /\ 0 + 1 = 1
      BY <3>1
    <3>3. SubSeq(old, 1, n) = old
      BY <2>2, <3>1
    <3>4. Len(lane) = n + 1 /\ SubSeq(lane, 1, n) = old
      BY <2>2, <2>3, <3>1
    <3>5. QED
      BY <1>1, <1>4, <2>1, <3>1, <3>2, <3>3, <3>4 DEF LaneMoves
  <2>4. CASE lane = old
    BY <1>1, <1>4, <2>1, <2>4 DEF LaneMoves
  <2>5. QED
    BY <2>2, <2>3, <2>4
<1>5. new[m].msgs = s \/ new[m].msgs = Inserted(s, msg)
  <2>1. CASE ~CanSend(qs, dst)
    BY <1>1, <2>1 DEF msg_queue_send
  <2>2. CASE CanSend(qs, dst)
    <3>1. PICK x, y : x = qs[dst] /\ y = [x EXCEPT !.msgs = Inserted(x.msgs, msg)]
      OBVIOUS
    <3>2. new = [qs EXCEPT ![dst] = y]
      BY <1>1, <2>2, <3>1 DEF msg_queue_send
    <3>3. y.msgs = Inserted(x.msgs, msg)
      BY <3>1 DEF QueuesInOrder, QueueShape
    <3>4. QED
      BY <1>1, <3>1, <3>2, <3>3 DEF QueuesInOrder
  <2>3. QED
    BY <2>1, <2>2
<1>6. QED
  BY <1>3, <1>4, <1>5

(* The lanes of all queues move so.                                        *)
LanesMove ==
    \A m \in Module, p \in Priority : LaneMoves(LaneOf(queues[m].msgs, p), LaneOf(queues'[m].msgs, p))

(* A queue that is emptied or left alone moves its lanes so.               *)
LEMMA EmptiedMoves ==
    ASSUME \A m \in Module : queues'[m].msgs \in {<<>>, queues[m].msgs}
    PROVE  LanesMove
<1> SUFFICES ASSUME NEW m \in Module, NEW p \in Priority
             PROVE  LaneMoves(LaneOf(queues[m].msgs, p), LaneOf(queues'[m].msgs, p))
  BY DEF LanesMove
<1>1. LaneOf(queues'[m].msgs, p) = <<>> \/ LaneOf(queues'[m].msgs, p) = LaneOf(queues[m].msgs, p)
  BY EmptyLane
<1>2. QED
  BY <1>1 DEF LaneMoves

LEMMA StepMovesLanes == ManagerInv /\ [Next]_vars => LanesMove
<1> SUFFICES ASSUME ManagerInv, [Next]_vars PROVE LanesMove
  OBVIOUS
<1>0. queues' = queues => LanesMove
  BY EmptiedMoves
<1>1. CASE Boot
  <2>1. \A m \in Module : queues'[m].msgs = <<>>
    BY <1>1 DEF Boot, CreateQueues, msg_queue_init, ManagerInv, QueuesInOrder
  <2>2. QED
    BY <2>1, EmptiedMoves
<1>2. CASE Shutdown
  <2>1. \A m \in Module : queues'[m].msgs = <<>>
    BY <1>2 DEF Shutdown, DestroyQueues, msg_queue_deinit, NotInit, ManagerInv, QueuesInOrder
  <2>2. QED
    BY <2>1, EmptiedMoves
<1>3. CASE Process
  <2>1. PICK list, t : /\ list = queues[ManagerId].msgs /\ queues' = t.q
                       /\ Reached(t, queues, modules, list, Len(list))
    BY <1>3, ProcessTells
  <2>2. \A m \in Module : m # ManagerId => queues'[m] = queues[m]
    BY <2>1 DEF Reached
  <2>3. queues'[ManagerId].msgs = <<>>
    <3>1. list \in Seq(Letter)
      BY <2>1, ManagerAssumption DEF ManagerInv, QueuesInOrder, QueueShape
    <3>2. Len(list) - Len(list) = 0
      BY <3>1, LenProperties
    <3>3. queues'[ManagerId].msgs \in Seq(Letter) /\ Len(queues'[ManagerId].msgs) = 0
      BY <2>1, <3>2 DEF Reached, QueueShape
    <3>4. QED
      BY <3>3, EmptySeq
  <2>4. QED
    BY <2>2, <2>3, EmptiedMoves
<1>4. ASSUME NEW m \in Module, ReportError(m) PROVE LanesMove
  <2>1. PICK msg : msg = [type |-> "ERROR_REPORT", prio |-> 2, src |-> m]
    OBVIOUS
  <2>2. msg \in Letter /\ queues' = msg_queue_send(queues, ManagerId, msg)
    BY <1>4, <2>1 DEF Letter, ReportError
  <2>3. QED
    BY <2>2, SendMovesLanes, MsgAssumption, ManagerAssumption DEF LanesMove, ManagerInv
<1>5. ASSUME NEW m \in Module, Heartbeat(m) PROVE LanesMove
  BY <1>0, <1>5 DEF Heartbeat
<1>6. ASSUME NEW m \in Module, NEW h \in Healths, UpdateHealth(m, h) PROVE LanesMove
  BY <1>0, <1>6 DEF UpdateHealth
<1>7. ASSUME NEW p \in Priority, SendOther(p) PROVE LanesMove
  <2>1. PICK msg : msg = [type |-> "HEALTH_CHECK", prio |-> p, src |-> ManagerId]
    OBVIOUS
  <2>2. msg \in Letter /\ queues' = msg_queue_send(queues, ManagerId, msg)
    BY <1>7, <2>1, MsgAssumption, ManagerAssumption DEF Letter, SendOther
  <2>3. QED
    BY <2>2, SendMovesLanes, MsgAssumption, ManagerAssumption DEF LanesMove, ManagerInv
<1>8. ASSUME NEW t \in Temperatures, UpdateTemperature(t) PROVE LanesMove
  BY <1>0, <1>8 DEF UpdateTemperature
<1>9. ASSUME NEW s \in PowerSettings, SetPowerState(s) PROVE LanesMove
  BY <1>0, <1>9 DEF SetPowerState
<1>10. CASE UNCHANGED vars
  BY <1>0, <1>10 DEF vars
<1>11. QED
  BY <1>1, <1>2, <1>3, <1>4, <1>5, <1>6, <1>7, <1>8, <1>9, <1>10 DEF Next

(* The queues of the firmware modules hand out the most urgent message     *)
(* first, and the messages of one priority in the order they were sent.    *)
THEOREM MessagesInOrder == Spec => DeliveredInOrder
<1>1. ManagerInv => MostUrgentFirst
  BY DEF ManagerInv, QueuesInOrder, Sorted, MostUrgentFirst
<1>2. ManagerInv /\ [Next]_vars
      => [\A m \in Module, p \in Priority : LaneMoves(Lane(m, p), Lane(m, p)')]_queues
  BY StepMovesLanes DEF LanesMove, Lane
<1>3. QED
  BY <1>1, <1>2, ManagerInitInv, ManagerNextInv, PTL DEF Spec, DeliveredInOrder

=============================================================================
