----------------------------- MODULE DmaProofs ------------------------------
(***************************************************************************)
(* Theorems about Dma, for every number of channels and threads.           *)
(***************************************************************************)
EXTENDS Dma, WellFoundedInduction, TLAPS

(* A thread that has not returned from dma_transfer_thread.                *)
Active(s) == th[s].at # "none"

ThreadInv ==
    \A s \in Slot :
        /\ Active(s) <=> th[s].state \in {"READY", "RUNNING"}
        /\ Active(s) => ch[th[s].chan].alloc /\ ch[th[s].chan].tid = s

(* How the channel of a thread follows its transfer.  An abort is seen by  *)
(* the thread while the client that asked for it waits in thread_join.     *)
ProgressOf(s) ==
    LET c == ch[th[s].chan]
    IN  /\ th[s].at \in {"check", "copy", "finish"} => c.state \in {"RUNNING", "PAUSED", "ERROR"}
        /\ th[s].at \in {"check", "copy"} => th[s].left > 0 /\ c.done + th[s].left = c.len
        /\ th[s].at = "finish" => c.state = "ERROR" \/ c.done = c.len
        /\ Active(s) /\ c.state = "ERROR" => call.op = "join" /\ call.chan = th[s].chan

DmaInv == TypeOK /\ ThreadInv /\ (\A s \in Slot : ProgressOf(s)) /\ CompleteIsWhole


-----------------------------------------------------------------------------
(* find_free_slot and dma_alloc_channel find what they look for.           *)
LEMMA MinExists ==
    ASSUME NEW T \in SUBSET Nat, T # {}
    PROVE  Min(T) \in T
<1> DEFINE less == {ss \in Nat \X Nat : ss[1] < ss[2]}
<1>1. less = OpToRel(<, Nat)
  BY DEF OpToRel
<1>2. IsWellFoundedOn(less, Nat)
  BY <1>1, NatLessThanWellFounded
<1>3. \A a, b \in Nat : <<a, b>> \in less <=> a < b
  OBVIOUS
<1> HIDE DEF less
<1>4. PICK m \in T : \A k \in T : ~ (<<k, m>> \in less)
  BY <1>2, WFMin
<1>5. \A k \in T : m <= k
  <2> TAKE k \in T
  <2>1. k \in Nat /\ m \in Nat /\ ~ (k < m)
    BY <1>3, <1>4
  <2>2. QED
    BY <2>1
<1>6. QED
  BY <1>5 DEF Min

LEMMA InitInv == Init => DmaInv
<1> SUFFICES ASSUME Init PROVE DmaInv
  OBVIOUS
<1>1. 0 \in Channel /\ 0 \in Nat
  BY DmaAssumption DEF Channel
<1>2. TypeOK
  BY <1>1 DEF Init, TypeOK, ChannelType, ThreadType, CallType, FreeSlot, Idle
<1>3. QED
  BY <1>2 DEF Init, DmaInv, ThreadInv, Active, ProgressOf, CompleteIsWhole, FreeSlot

(* No thread works for a channel the client finds quiet.                   *)
LEMMA QuietIdle ==
    ASSUME DmaInv, NEW c \in Channel, Quiet(c), NEW s \in Slot, Active(s)
    PROVE  th[s].chan # c
BY DEF DmaInv, ThreadInv, Quiet

(* A step that changes one channel only, for which no thread works, and no *)
(* thread.                                                                 *)
LEMMA ChannelStep ==
    ASSUME DmaInv, NEW c \in Channel, \A s \in Slot : Active(s) => th[s].chan # c,
           NEW d \in ChannelType, ch' = [ch EXCEPT ![c] = d],
           d.state = "COMPLETE" => d.done = d.len,
           UNCHANGED th, call' \in CallType,
           call' = call \/ \A s \in Slot : Active(s) => ch[th[s].chan].state # "ERROR"
    PROVE  DmaInv'
<1>1. TypeOK'
  BY DEF DmaInv, TypeOK
<1>2. ch'[c] = d /\ \A k \in Channel : k # c => ch'[k] = ch[k]
  BY DEF DmaInv, TypeOK
<1>3. \A s \in Slot : th[s].chan \in Channel
  BY DEF DmaInv, TypeOK, ThreadType
<1>4. \A s \in Slot : (Active(s)' <=> Active(s)) /\ (Active(s) => ch'[th[s].chan] = ch[th[s].chan])
  BY <1>2, <1>3 DEF Active
<1>5. ThreadInv'
  BY <1>4 DEF DmaInv, ThreadInv
<1>6. \A s \in Slot : ProgressOf(s)'
  BY <1>4 DEF DmaInv, ProgressOf, Active
<1>7. CompleteIsWhole'
  BY <1>2 DEF DmaInv, CompleteIsWhole
<1>8. QED
  BY <1>1, <1>5, <1>6, <1>7 DEF DmaInv

(* A step of the client that changes no channel and no thread: it must not *)
(* leave thread_join before the thread has gone.                           *)
LEMMA CallStep ==
    ASSUME DmaInv, UNCHANGED <<ch, th>>, call.op # "join", call' \in CallType
    PROVE  DmaInv'
BY DEF DmaInv, TypeOK, ThreadInv, Active, ProgressOf, CompleteIsWhole


-----------------------------------------------------------------------------
(* The client.                                                             *)

LEMMA IdleCall == Idle \in CallType /\ Idle.op = "none"
BY DmaAssumption DEF Idle, CallType, Channel

LEMMA AllocKeeps == DmaInv /\ Alloc => DmaInv'
<1> SUFFICES ASSUME DmaInv, Alloc PROVE DmaInv'
  OBVIOUS
<1> DEFINE free == {c \in Channel : ~ch[c].alloc}
           c    == Min(free)
           d    == [ch[c] EXCEPT !.alloc = TRUE, !.state = "IDLE", !.done = 0]
<1>1. free # {} /\ free \in SUBSET Nat
  <2>1. free # {}
    BY DEF Alloc
  <2>2. Channel \subseteq Nat
    BY DmaAssumption DEF Channel
  <2>3. QED
    BY <2>1, <2>2
<1>2. c \in free
  BY <1>1, MinExists
<1>3. ch' = [ch EXCEPT ![c].alloc = TRUE, ![c].state = "IDLE", ![c].done = 0] /\ UNCHANGED <<th, call>>
  BY DEF Alloc
<1> HIDE DEF c
<1>4. c \in Channel /\ ~ch[c].alloc /\ ch[c] \in ChannelType /\ ch \in [Channel -> ChannelType]
  BY <1>2 DEF DmaInv, TypeOK
<1>5. ch' = [ch EXCEPT ![c] = d] /\ d \in ChannelType /\ d.state = "IDLE"
  BY <1>3, <1>4 DEF ChannelType
<1>6. \A s \in Slot : Active(s) => th[s].chan # c
  BY <1>4 DEF DmaInv, ThreadInv
<1>7. call' = call /\ call' \in CallType
  BY <1>3 DEF DmaInv, TypeOK
<1> HIDE DEF d
<1>8. QED
  BY <1>3, <1>4, <1>5, <1>6, <1>7, ChannelStep

LEMMA ConfigKeeps ==
    ASSUME Careful, DmaInv, NEW c \in Channel, NEW n \in Lengths, Config(c, n)
    PROVE  DmaInv'
<1> DEFINE d == [ch[c] EXCEPT !.state = "READY", !.len = n, !.done = 0]
<1>1. ch[c] \in ChannelType /\ ch \in [Channel -> ChannelType]
  BY DEF DmaInv, TypeOK
<1>2. ch' = [ch EXCEPT ![c] = d] /\ d \in ChannelType /\ d.state = "READY"
  BY <1>1 DEF Config, ChannelType
<1>3. \A s \in Slot : Active(s) => th[s].chan # c
  BY QuietIdle DEF Config
<1>4. UNCHANGED th /\ call' = call /\ call' \in CallType
  BY DEF Config, DmaInv, TypeOK
<1> HIDE DEF d
<1>5. QED
  BY <1>2, <1>3, <1>4, ChannelStep

LEMMA StartKeeps ==
    ASSUME Careful, DmaInv, NEW c \in Channel, Start(c)
    PROVE  DmaInv'
<1> DEFINE s == Min(FreeSlots)
<1>1. FreeSlots # {} /\ FreeSlots \in SUBSET Nat
  BY DmaAssumption DEF Start, FreeSlots, Slot
<1>2. s \in FreeSlots
  BY <1>1, MinExists
<1>3. /\ ch' = [ch EXCEPT ![c].tid = s]
      /\ \/ th' = [th EXCEPT ![s] = thread_create(s, c)]
         \/ th' = [th EXCEPT ![s] = SpawnFailed(s, c)]
      /\ UNCHANGED call /\ call = Idle /\ ch[c].state = "READY" /\ ch[c].alloc
  BY DEF Start, StartsThread
<1> HIDE DEF s
<1>4. /\ s \in Slot /\ th[s].state = "UNINIT" /\ ~Active(s)
      /\ \A k \in Channel : ch[k] \in ChannelType
      /\ \A k \in Slot : th[k] \in ThreadType
      /\ ch \in [Channel -> ChannelType] /\ th \in [Slot -> ThreadType] /\ call \in CallType
  BY <1>2 DEF FreeSlots, DmaInv, TypeOK, ThreadInv
<1>5. \A k \in Slot : Active(k) => th[k].chan # c
  BY QuietIdle DEF Start, StartsThread
<1>6. PICK t \in ThreadType :
         /\ th' = [th EXCEPT ![s] = t]
         /\ t.chan = c /\ t.left = 0
         /\ \/ t.state = "READY" /\ t.at = "claim"
            \/ t.state = "ERROR" /\ t.at = "none"
  <2>1. /\ thread_create(s, c) \in ThreadType /\ thread_create(s, c).chan = c
        /\ thread_create(s, c).left = 0
        /\ thread_create(s, c).state = "READY" /\ thread_create(s, c).at = "claim"
    BY DEF thread_create, ThreadType
  <2>2. /\ SpawnFailed(s, c) \in ThreadType /\ SpawnFailed(s, c).chan = c
        /\ SpawnFailed(s, c).left = 0
        /\ SpawnFailed(s, c).state = "ERROR" /\ SpawnFailed(s, c).at = "none"
    BY DEF SpawnFailed, thread_create, ThreadType
  <2>3. CASE th' = [th EXCEPT ![s] = thread_create(s, c)]
    BY <2>1, <2>3
  <2>4. CASE th' = [th EXCEPT ![s] = SpawnFailed(s, c)]
    BY <2>2, <2>4
  <2>5. QED
    BY <1>3, <2>3, <2>4
<1>7. /\ ch'[c] \in ChannelType /\ ch'[c].tid = s /\ ch'[c].alloc /\ ch'[c].state = "READY"
      /\ \A k \in Channel : k # c => ch'[k] = ch[k]
      /\ th'[s] = t /\ \A k \in Slot : k # s => th'[k] = th[k]
  <2>1. ch'[c] = [ch[c] EXCEPT !.tid = s] /\ \A k \in Channel : k # c => ch'[k] = ch[k]
    BY <1>3, <1>4
  <2>2. ch'[c] \in ChannelType /\ ch'[c].tid = s /\ ch'[c].alloc /\ ch'[c].state = "READY"
    <3> DEFINE d == ch[c]
    <3>1. d \in ChannelType /\ d.state = "READY" /\ d.alloc /\ s \in {0} \cup Slot
      BY <1>3, <1>4
    <3> HIDE DEF d
    <3>2. [d EXCEPT !.tid = s] \in ChannelType /\ [d EXCEPT !.tid = s].tid = s
          /\ [d EXCEPT !.tid = s].alloc /\ [d EXCEPT !.tid = s].state = "READY"
      BY <3>1 DEF ChannelType
    <3>3. QED
      BY <2>1, <3>2 DEF d
  <2>3. QED
    BY <1>4, <1>6, <2>1, <2>2
<1>8. TypeOK'
  <2>1. ch' \in [Channel -> ChannelType]
    BY <1>3, <1>4, <1>7
  <2>2. th' \in [Slot -> ThreadType]
    BY <1>4, <1>6
  <2>3. QED
    BY <1>3, <1>4, <2>1, <2>2 DEF TypeOK
<1>9. \A k \in Slot : k # s /\ Active(k) => th[k].chan \in Channel /\ ch'[th[k].chan] = ch[th[k].chan]
  BY <1>4, <1>5, <1>7 DEF ThreadType
<1>10. \A k \in Slot : k # s => (Active(k)' <=> Active(k))
  BY <1>7 DEF Active
<1>11. ThreadInv' /\ \A k \in Slot : ProgressOf(k)'
  <2> SUFFICES ASSUME NEW k \in Slot
               PROVE  /\ Active(k)' <=> th'[k].state \in {"READY", "RUNNING"}
                      /\ Active(k)' => ch'[th'[k].chan].alloc /\ ch'[th'[k].chan].tid = k
                      /\ ProgressOf(k)'
    BY DEF ThreadInv
  <2>1. CASE k = s
    BY <1>6, <1>7, <2>1 DEF Active, ProgressOf
  <2>2. CASE k # s
    <3>1. th'[k] = th[k] /\ (Active(k)' <=> Active(k)) /\ (Active(k) => ch'[th[k].chan] = ch[th[k].chan])
      BY <1>7, <1>9, <1>10, <2>2
    <3>2. ProgressOf(k)'
      BY <1>3, <3>1 DEF DmaInv, ProgressOf, Active
    <3>3. QED
      BY <3>1, <3>2 DEF DmaInv, ThreadInv
  <2>3. QED
    BY <2>1, <2>2
<1>12. CompleteIsWhole'
  <2> SUFFICES ASSUME NEW k \in Channel, ch'[k].state = "COMPLETE" PROVE ch'[k].done = ch'[k].len
    BY DEF CompleteIsWhole
  <2>1. k # c
    BY <1>7
  <2>2. QED
    BY <1>7, <2>1 DEF DmaInv, CompleteIsWhole
<1>13. QED
  BY <1>8, <1>11, <1>12 DEF DmaInv

LEMMA StartFailsKeeps ==
    ASSUME Careful, DmaInv, NEW c \in Channel, StartWithoutSlot(c)
    PROVE  DmaInv'
<1> DEFINE d == [ch[c] EXCEPT !.tid = 0, !.state = "ERROR"]
<1>1. ch[c] \in ChannelType /\ ch \in [Channel -> ChannelType]
  BY DEF DmaInv, TypeOK
<1>2. ch' = [ch EXCEPT ![c] = d] /\ d \in ChannelType /\ d.state = "ERROR"
  BY <1>1 DEF StartWithoutSlot, ChannelType
<1>3. \A s \in Slot : Active(s) => th[s].chan # c
  BY QuietIdle DEF StartWithoutSlot, StartsThread
<1>4. UNCHANGED th /\ call' = call /\ call' \in CallType
  BY DEF StartWithoutSlot, DmaInv, TypeOK
<1> HIDE DEF d
<1>5. QED
  BY <1>2, <1>3, <1>4, ChannelStep

LEMMA FreeKeeps ==
    ASSUME Careful, DmaInv, NEW c \in Channel, CallFree(c)
    PROVE  DmaInv'
<1>1. CASE call' = [op |-> "stop", chan |-> c, release |-> TRUE] /\ UNCHANGED ch
  <2>1. call' \in CallType /\ call.op = "none" /\ UNCHANGED <<ch, th>>
    BY <1>1, IdleCall DEF CallFree, CallType
  <2>2. QED
    BY <2>1, CallStep
<1>2. CASE Quiet(c) /\ ch' = [ch EXCEPT ![c] = Released(@)] /\ UNCHANGED call
  <2> DEFINE d == Released(ch[c])
  <2>1. ch[c] \in ChannelType /\ ch \in [Channel -> ChannelType]
    BY DEF DmaInv, TypeOK
  <2>2. ch' = [ch EXCEPT ![c] = d] /\ d \in ChannelType /\ d.state = "IDLE"
    BY <1>2, <2>1 DEF Released, ChannelType
  <2>3. \A s \in Slot : Active(s) => th[s].chan # c
    BY <1>2, QuietIdle
  <2>4. UNCHANGED th /\ call' = call /\ call' \in CallType
    BY <1>2 DEF CallFree, DmaInv, TypeOK
  <2> HIDE DEF d
  <2>5. QED
    BY <2>2, <2>3, <2>4, ChannelStep
<1>3. QED
  BY <1>1, <1>2 DEF CallFree

LEMMA JoinedKeeps == DmaInv /\ Joined => DmaInv'
<1> SUFFICES ASSUME DmaInv, Joined PROVE DmaInv'
  OBVIOUS
<1> DEFINE c == call.chan
           j == [ch[c] EXCEPT !.tid = 0]
           d == IF call.release THEN Released(j) ELSE j
<1>1. c \in Channel /\ ch[c] \in ChannelType /\ ch \in [Channel -> ChannelType]
  BY DEF DmaInv, TypeOK, CallType
<1>2. ch' = [ch EXCEPT ![c] = d] /\ UNCHANGED th /\ call' = Idle /\ call.op = "join"
  BY <1>1 DEF Joined, Returns
<1>3. d \in ChannelType /\ (d.state = "COMPLETE" => d.done = d.len)
  BY <1>1 DEF Released, ChannelType, DmaInv, CompleteIsWhole
<1>4. \A s \in Slot : Active(s) => th[s].chan # c
  BY DmaAssumption DEF DmaInv, ThreadInv, Joined, thread_joined, Slot
<1>5. \A s \in Slot : Active(s) => ch[th[s].chan].state # "ERROR"
  BY <1>4 DEF DmaInv, ProgressOf
<1> HIDE DEF d, c
<1>6. QED
  BY <1>1, <1>2, <1>3, <1>4, <1>5, IdleCall, ChannelStep

(* Pausing, resuming and stopping change the state of a channel while a    *)
(* thread may be working for it.                                           *)
LEMMA StateKeeps == DmaInv /\ (PauseOrResume \/ StopLocked) => DmaInv'
<1> SUFFICES ASSUME DmaInv, PauseOrResume \/ StopLocked PROVE DmaInv'
  OBVIOUS
<1> DEFINE c == call.chan
<1>1. /\ c \in Channel /\ ch[c] \in ChannelType /\ ch \in [Channel -> ChannelType]
      /\ th \in [Slot -> ThreadType] /\ call \in CallType
  BY DEF DmaInv, TypeOK, CallType
<1>2. PICK z : /\ ch' = [ch EXCEPT ![c].state = z]
               /\ \/ z \in {"PAUSED", "RUNNING"} /\ call' = Idle
                  \/ z = Stopped(ch[c].state) /\ call' = [call EXCEPT !.op = "join"]
  BY <1>1 DEF PauseOrResume, StopLocked, Returns
<1>3. UNCHANGED th /\ call.op # "join"
  BY DEF PauseOrResume, StopLocked
<1>4. /\ z \in {"IDLE", "READY", "RUNNING", "PAUSED", "COMPLETE", "ERROR"}
      /\ z \in {"PAUSED", "RUNNING"} \/ (z = "ERROR" /\ call' = [call EXCEPT !.op = "join"])
         \/ (z = ch[c].state /\ call' = [call EXCEPT !.op = "join"])
  BY <1>1, <1>2 DEF Stopped, ChannelType
<1> HIDE DEF c
<1>5. ch'[c] = [ch[c] EXCEPT !.state = z] /\ \A k \in Channel : k # c => ch'[k] = ch[k]
  BY <1>1, <1>2
<1>6. /\ ch'[c] \in ChannelType /\ ch'[c].state = z /\ ch'[c].done = ch[c].done
      /\ ch'[c].len = ch[c].len /\ ch'[c].tid = ch[c].tid /\ ch'[c].alloc = ch[c].alloc
  BY <1>1, <1>4, <1>5 DEF ChannelType
<1>7. call' \in CallType
  <2>1. [call EXCEPT !.op = "join"] \in CallType
    BY <1>1 DEF CallType
  <2>2. QED
    BY <1>2, <2>1, IdleCall
<1>8. TypeOK'
  BY <1>1, <1>2, <1>3, <1>6, <1>7 DEF TypeOK
<1>9. \A s \in Slot : th[s].chan \in Channel /\ (Active(s) => ch[th[s].chan].state # "ERROR")
  BY <1>1, <1>3 DEF DmaInv, ProgressOf, ThreadType
<1>10. ThreadInv'
  BY ZenonT(30), <1>3, <1>5, <1>6, <1>9 DEF DmaInv, ThreadInv, Active
<1>11. ASSUME NEW s \in Slot PROVE ProgressOf(s)'
  <2>1. CASE th[s].chan # c
    BY <1>3, <1>5, <1>9, <2>1 DEF DmaInv, ProgressOf, Active
  <2>2. CASE th[s].chan = c
    <3>1. z = "ERROR" /\ Active(s) => call'.op = "join" /\ call'.chan = c
      BY <1>1, <1>4, <1>9, <2>2 DEF CallType, c
    <3>2. QED
      BY <1>3, <1>4, <1>6, <1>9, <2>2, <3>1 DEF DmaInv, ProgressOf, Active
  <2>3. QED
    BY <2>1, <2>2
<1>12. CompleteIsWhole'
  BY ZenonT(30), <1>1, <1>4, <1>5, <1>6 DEF DmaInv, CompleteIsWhole
<1>13. QED
  BY <1>8, <1>10, <1>11, <1>12 DEF DmaInv


-----------------------------------------------------------------------------
(* The transfer threads.                                                   *)

(* A step of the thread in slot s: no other thread works for its channel,  *)
(* and it leaves the other channels and the client alone.                  *)
LEMMA ThreadStep ==
    ASSUME DmaInv, NEW s \in Slot, NEW c \in Channel, c = th[s].chan, Active(s),
           NEW t \in ThreadType, th' = [th EXCEPT ![s] = t], t.chan = c,
           t.at # "none" <=> t.state \in {"READY", "RUNNING"},
           NEW d \in ChannelType, ch' = [ch EXCEPT ![c] = d],
           d.alloc = ch[c].alloc, d.tid = ch[c].tid,
           d.state = "COMPLETE" => d.done = d.len,
           d.state = "ERROR" => ch[c].state = "ERROR",
           t.at \in {"check", "copy", "finish"} => d.state \in {"RUNNING", "PAUSED", "ERROR"},
           t.at \in {"check", "copy"} => t.left > 0 /\ d.done + t.left = d.len,
           t.at = "finish" => d.state = "ERROR" \/ d.done = d.len,
           UNCHANGED call
    PROVE  DmaInv'
<1>1. TypeOK'
  BY DEF DmaInv, TypeOK
<1>2. /\ ch'[c] = d /\ \A k \in Channel : k # c => ch'[k] = ch[k]
      /\ th'[s] = t /\ \A k \in Slot : k # s => th'[k] = th[k]
  BY DEF DmaInv, TypeOK
<1>3. \A k \in Slot : th[k].chan \in Channel
  BY DEF DmaInv, TypeOK, ThreadType
<1>4. \A k \in Slot : k # s /\ Active(k) => th[k].chan # c
  BY DEF DmaInv, ThreadInv
<1>5. ASSUME NEW k \in Slot
      PROVE  /\ Active(k)' <=> th'[k].state \in {"READY", "RUNNING"}
             /\ Active(k)' => ch'[th'[k].chan].alloc /\ ch'[th'[k].chan].tid = k
             /\ ProgressOf(k)'
  <2>1. CASE k = s
    <3>1. ch[c].alloc /\ ch[c].tid = s /\ (ch[c].state = "ERROR" => call.op = "join" /\ call.chan = c)
      BY DEF DmaInv, ThreadInv, ProgressOf
    <3>2. Active(k)' <=> t.at # "none"
      BY <1>2, <2>1 DEF Active
    <3>3. ProgressOf(k)'
      <4>1. th'[k] = t /\ ch'[th'[k].chan] = d /\ th'[k].chan = c /\ call' = call
        BY <1>2, <2>1
      <4>2. d.state = "ERROR" => call.op = "join" /\ call.chan = c
        BY <3>1
      <4>3. QED
        BY <4>1, <4>2 DEF ProgressOf
    <3>4. d.alloc /\ d.tid = s
      BY <3>1
    <3>5. th'[k] = t /\ ch'[th'[k].chan] = d
      BY <1>2, <2>1
    <3>6. QED
      BY <2>1, <3>2, <3>3, <3>4, <3>5
  <2>2. CASE k # s
    <3>1. th'[k] = th[k] /\ (Active(k)' <=> Active(k)) /\ (Active(k) => ch'[th[k].chan] = ch[th[k].chan])
      BY <1>2, <1>3, <1>4, <2>2 DEF Active
    <3>2. ProgressOf(k)'
      BY <3>1 DEF DmaInv, ProgressOf, Active
    <3>3. QED
      BY <3>1, <3>2 DEF DmaInv, ThreadInv
  <2>3. QED
    BY <2>1, <2>2
<1>6. ThreadInv' /\ \A k \in Slot : ProgressOf(k)'
  BY <1>5 DEF ThreadInv
<1>7. CompleteIsWhole'
  BY <1>2 DEF DmaInv, CompleteIsWhole
<1>8. QED
  BY <1>1, <1>6, <1>7 DEF DmaInv

LEMMA TransferKeeps ==
    ASSUME DmaInv, NEW s \in Slot, Transfer(s)
    PROVE  DmaInv'
<1> DEFINE c == th[s].chan
           u == th[s]
           g == ch[c]
<1>1. /\ c \in Channel /\ u \in ThreadType /\ g \in ChannelType /\ Active(s)
      /\ ch \in [Channel -> ChannelType] /\ th \in [Slot -> ThreadType] /\ UNCHANGED call
      /\ u.chan = c /\ u.state \in {"READY", "RUNNING"}
  <2>1. Active(s) /\ UNCHANGED call
    BY DEF Transfer, Claim, Check, Copy, Finish, Exit, Active
  <2>2. c \in Channel /\ u \in ThreadType
    BY DEF DmaInv, TypeOK, ThreadType
  <2>3. QED
    BY <2>1, <2>2 DEF DmaInv, TypeOK, ThreadInv
<1>2. /\ u.at \in {"check", "copy", "finish"} => g.state \in {"RUNNING", "PAUSED", "ERROR"}
      /\ u.at \in {"check", "copy"} => u.left > 0 /\ g.done + u.left = g.len
      /\ u.at = "finish" => g.state = "ERROR" \/ g.done = g.len
      /\ g.state = "COMPLETE" => g.done = g.len
  BY <1>1 DEF DmaInv, ProgressOf, CompleteIsWhole
<1>3. g.done \in Nat /\ g.len \in Nat /\ u.left \in Nat
  <2>1. Lengths \cup {0} \subseteq Nat
    BY DmaAssumption
  <2> HIDE DEF g, u
  <2>2. g.done \in Nat /\ g.len \in Lengths \cup {0}
    BY <1>1 DEF ChannelType
  <2>3. u.left \in Nat
    BY <1>1 DEF ThreadType
  <2>4. QED
    BY <2>1, <2>2, <2>3
<1>4. ch = [ch EXCEPT ![c] = g]
  BY <1>1
<1>5. CASE Claim(s)
  <2>1. CASE g.state = "READY"
    <3> DEFINE d == [g EXCEPT !.state = "RUNNING", !.done = 0]
               t == [u EXCEPT !.state = "RUNNING", !.left = g.len,
                              !.at = IF g.len = 0 THEN "finish" ELSE "check"]
    <3>1. ch' = [ch EXCEPT ![c] = d] /\ th' = [th EXCEPT ![s] = t]
      BY <1>1, <1>5, <2>1 DEF Claim
    <3>2. d \in ChannelType /\ d.state = "RUNNING" /\ d.done = 0 /\ d.len = g.len
          /\ d.alloc = g.alloc /\ d.tid = g.tid
      BY <1>1 DEF ChannelType
    <3>3. t \in ThreadType /\ t.state = "RUNNING" /\ t.left = g.len /\ t.chan = c
          /\ t.at = IF g.len = 0 THEN "finish" ELSE "check"
      BY <1>1, <1>3 DEF ThreadType
    <3> HIDE DEF d, t, g, u, c
    <3>4. t.at \in {"check", "copy"} => t.left > 0 /\ d.done + t.left = d.len
      BY <1>3, <3>2, <3>3
    <3>5. QED
      BY <1>1, <3>1, <3>2, <3>3, <3>4, ThreadStep DEF c, g
  <2>2. CASE g.state # "READY"
    <3> DEFINE t == [u EXCEPT !.state = "RUNNING", !.at = "exit"]
    <3>1. ch' = [ch EXCEPT ![c] = g] /\ th' = [th EXCEPT ![s] = t]
      BY <1>1, <1>4, <1>5, <2>2 DEF Claim
    <3>2. t \in ThreadType /\ t.state = "RUNNING" /\ t.chan = c /\ t.at = "exit"
      BY <1>1 DEF ThreadType
    <3> HIDE DEF t, g, u, c
    <3>3. QED
      BY <1>1, <1>2, <3>1, <3>2, ThreadStep DEF c, g
  <2>3. QED
    BY <2>1, <2>2
<1>6. CASE Check(s)
  <2> DEFINE t == [u EXCEPT !.at = IF g.state = "RUNNING" THEN "copy" ELSE "finish"]
  <2>1. ch' = [ch EXCEPT ![c] = g] /\ th' = [th EXCEPT ![s] = t] /\ u.at = "check" /\ g.state # "PAUSED"
    BY <1>1, <1>4, <1>6 DEF Check, Goes
  <2>2. /\ t \in ThreadType /\ t.state = u.state /\ t.chan = c /\ t.left = u.left
        /\ t.at = IF g.state = "RUNNING" THEN "copy" ELSE "finish"
    BY <1>1 DEF ThreadType
  <2> HIDE DEF t, g, u, c
  <2>3. QED
    BY <1>1, <1>2, <2>1, <2>2, ThreadStep DEF c, g
<1>7. CASE Copy(s)
  <2> DEFINE d == [g EXCEPT !.done = @ + 1]
             t == [u EXCEPT !.left = @ - 1, !.at = IF u.left = 1 THEN "finish" ELSE "check"]
  <2>1. ch' = [ch EXCEPT ![c] = d] /\ th' = [th EXCEPT ![s] = t] /\ u.at = "copy"
    BY <1>1, <1>7 DEF Copy
  <2>2. u.left > 0 /\ u.left - 1 \in Nat /\ g.done + 1 \in Nat
    BY <1>2, <1>3, <2>1
  <2>3. d \in ChannelType /\ d.state = g.state /\ d.done = g.done + 1 /\ d.len = g.len
        /\ d.alloc = g.alloc /\ d.tid = g.tid
    BY <1>1, <2>2 DEF ChannelType
  <2>4. t \in ThreadType /\ t.state = u.state /\ t.left = u.left - 1 /\ t.chan = c
        /\ t.at = IF u.left = 1 THEN "finish" ELSE "check"
    BY <1>1, <2>2 DEF ThreadType
  <2> HIDE DEF d, t, g, u, c
  <2>5. /\ t.at \in {"check", "copy"} => t.left > 0 /\ d.done + t.left = d.len
        /\ t.at = "finish" => d.done = d.len
        /\ d.state \in {"RUNNING", "PAUSED", "ERROR"}
    BY <1>2, <1>3, <2>1, <2>2, <2>3, <2>4
  <2>6. QED
    BY <1>1, <2>1, <2>3, <2>4, <2>5, ThreadStep DEF c, g
<1>8. CASE Finish(s)
  <2> DEFINE d == [g EXCEPT !.state = FinalState(@)]
             t == [u EXCEPT !.at = "exit"]
  <2>1. ch' = [ch EXCEPT ![c] = d] /\ th' = [th EXCEPT ![s] = t] /\ u.at = "finish"
    BY <1>1, <1>8 DEF Finish, Goes
  <2>2. d \in ChannelType /\ d.state = FinalState(g.state) /\ d.done = g.done /\ d.len = g.len
        /\ d.alloc = g.alloc /\ d.tid = g.tid
    BY <1>1 DEF ChannelType, FinalState
  <2>3. t \in ThreadType /\ t.state = u.state /\ t.chan = c /\ t.at = "exit"
    BY <1>1 DEF ThreadType
  <2> HIDE DEF d, t, g, u, c
  <2>4. (d.state = "COMPLETE" => d.done = d.len) /\ (d.state = "ERROR" => g.state = "ERROR")
    BY <1>2, <2>1, <2>2 DEF FinalState
  <2>5. QED
    BY <1>1, <2>1, <2>2, <2>3, <2>4, ThreadStep DEF c, g
<1>9. CASE Exit(s)
  <2> DEFINE t == [u EXCEPT !.state = "STOPPED", !.at = "none"]
  <2>1. ch' = [ch EXCEPT ![c] = g] /\ th' = [th EXCEPT ![s] = t]
    BY <1>1, <1>4, <1>9 DEF Exit
  <2>2. t \in ThreadType /\ t.state = "STOPPED" /\ t.chan = c /\ t.at = "none"
    BY <1>1 DEF ThreadType
  <2> HIDE DEF t, g, u, c
  <2>3. QED
    BY <1>1, <1>2, <2>1, <2>2, ThreadStep DEF c, g
<1>10. QED
  BY <1>5, <1>6, <1>7, <1>8, <1>9 DEF Transfer

-----------------------------------------------------------------------------
LEMMA DmaStep == Careful /\ DmaInv /\ [Next]_vars => DmaInv'
<1> SUFFICES ASSUME Careful, DmaInv, [Next]_vars PROVE DmaInv'
  OBVIOUS
<1>1. CASE UNCHANGED vars
  BY <1>1 DEF vars, DmaInv, TypeOK, ThreadInv, Active, ProgressOf, CompleteIsWhole
<1>2. CASE WaitEnds
  <2>1. call.op = "wait" /\ UNCHANGED <<ch, th>> /\ call' \in {[call EXCEPT !.op = "join"], Idle}
    BY <1>2 DEF WaitEnds, Returns
  <2>2. [call EXCEPT !.op = "join"] \in CallType
    BY DEF DmaInv, TypeOK, CallType
  <2>3. call' \in CallType
    BY <2>1, <2>2, IdleCall
  <2>4. QED
    BY <2>1, <2>3, CallStep
<1>3. ASSUME NEW c \in Channel, CallPause(c) \/ CallResume(c) \/ CallStop(c) \/ CallWait(c)
      PROVE  DmaInv'
  <2>1. call = Idle /\ UNCHANGED <<ch, th>> /\ call' \in CallType
    <3>1. \A o \in {"pause", "resume", "stop", "wait"} :
             [op |-> o, chan |-> c, release |-> FALSE] \in CallType
      BY DEF CallType
    <3>2. QED
      BY <1>3, <3>1 DEF CallPause, CallResume, CallStop, CallWait
  <2>2. QED
    BY <2>1, IdleCall, CallStep
<1>4. QED
  BY <1>1, <1>2, <1>3, AllocKeeps, ConfigKeeps, StartKeeps, StartFailsKeeps, FreeKeeps, JoinedKeeps,
     StateKeeps, TransferKeeps DEF Next, Client

LEMMA DmaAlways ==
    ASSUME Careful
    PROVE  Spec => []DmaInv
BY InitInv, DmaStep, PTL DEF Spec

(* When the client reuses or releases a channel only after its thread has  *)
(* returned, no thread copies into the buffers of a transfer that is over  *)
(* for the client, whatever stops, waits and timeouts it issued: the calls *)
(* that end a transfer join the thread the channel names, and the channel  *)
(* names every thread that works for it.                                   *)
THEOREM CopiesEndBeforeCalls ==
    ASSUME Careful
    PROVE  Spec => []NoLateCopy
<1>1. DmaInv => NoLateCopy
  BY DEF DmaInv, ThreadInv, Active, NoLateCopy
<1>2. QED
  BY <1>1, DmaAlways, PTL

(* Under the same discipline a channel that reports COMPLETE has copied    *)
(* the whole transfer, however stop, pause and resume raced with the       *)
(* thread: an abort is seen only while the client that asked for it waits  *)
(* for the thread, so no late resume turns it into a completion.           *)
THEOREM CompletionsAreWhole ==
    ASSUME Careful
    PROVE  Spec => []CompleteIsWhole
<1>1. DmaInv => CompleteIsWhole
  BY DEF DmaInv
<1>2. QED
  BY <1>1, DmaAlways, PTL

=============================================================================
