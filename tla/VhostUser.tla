------------------------------ MODULE VhostUser ------------------------------
(***************************************************************************)
(* The vhost-user front end: the memory table a client sends, and a vring  *)
(* that carries NVMe commands in split available and used rings.           *)
(*                                                                         *)
(* The driver in the guest works on its rings at any time, also while the  *)
(* back end goes through them.  Guest memory has areas: one with the rings,*)
(* one with the command buffers, others.  Indices run modulo IdxMod as     *)
(* the 16-bit ones do.  Vrings do not interact: there is one here.  What a *)
(* command does, feature bits and the register mirror are left out.        *)
(***************************************************************************)
EXTENDS Naturals, Sequences, FiniteSets

CONSTANTS
    Num,        \* descriptors, and entries of each ring
    IdxMod,     \* 2^16
    Table,      \* the areas of guest memory in the order the client sends them
    Restarts    \* the client may stop and restart a ring that has run

(* The size of a ring is a power of two, so it divides the index range.    *)
ASSUME VhostAssumption == /\ {Num, IdxMod} \subseteq Nat \ {0} /\ IdxMod % Num = 0 /\ IdxMod > Num
                   /\ Restarts \in BOOLEAN /\ Table \in Seq({"ring", "buf", "data"})

VARIABLES
    up,         \* connected; "crashed" after a wild access
    mem,        \* g_ctx: mem_region_count, and what mem_mappings[i] leads to
    vr,         \* the vring
    scan,       \* process_vring under way
    avail, used,\* the rings in guest memory
    drv,        \* the driver: descriptors in flight, used index seen
    call,       \* the call descriptor is signalled; the driver handles it
    skipped     \* descriptors in flight the back end has dropped

vhostVars == <<up, mem, vr, scan, avail, used, drv, call, skipped>>

Desc == 0..Num - 1
Slot == 0..Num - 1
Plus(i, k) == (i + k) % IdxMod

NoVring == [addr |-> FALSE, kick |-> FALSE, call |-> FALSE, enabled |-> FALSE,
            base |-> 0, last |-> 0, used |-> 0]
NoScan  == [on |-> FALSE, to |-> 0]
NoCall  == [raised |-> FALSE, handling |-> FALSE]
NoDrv   == [fly |-> {}, seen |-> 0]
NoVq  == [idx |-> 0, ring |-> [s \in Slot |-> 0]]

(* Entry i of the mappings is NULL, leads to the area Table[i] of this     *)
(* client, or to memory of an earlier one.                                 *)
NoMem == [n |-> 0, at |-> [i \in DOMAIN Table |-> "null"]]

(* vhost_user_nvme_init.                                                   *)
VhostInit == /\ up = "no" /\ mem = NoMem /\ vr = NoVring /\ scan = NoScan
             /\ avail = NoVq /\ used = NoVq /\ drv = NoDrv /\ call = NoCall /\ skipped = {}

-----------------------------------------------------------------------------
(* gpa_to_hva looks at the first mem_region_count entries, without looking *)
(* at whether the mmap of an entry succeeded: the count is the number of   *)
(* those that did.                                                         *)
Found(a)   == {i \in DOMAIN Table : i <= mem.n /\ Table[i] = a}
Reached(a) == \E i \in Found(a) : mem.at[i] = "here"
Wild(a)    == \E i \in Found(a) : mem.at[i] \in {"null", "old"}
Null(a)    == \A i \in Found(a) : mem.at[i] = "null"

(* Of the old mappings only the first mem_region_count are given up.       *)
Kept(i) == IF i <= mem.n THEN "null" ELSE mem.at[i]

-----------------------------------------------------------------------------
(* Messages of the client.                                                 *)
Message == up = "yes" /\ ~scan.on

VhostAccept == /\ up = "no" /\ up' = "yes"
               /\ UNCHANGED <<mem, vr, scan, avail, used, drv, call, skipped>>

(* close_connection.  The client then starts over, with new rings.         *)
VhostClose == /\ Message
              /\ up' = "no"
              /\ mem' = [n |-> 0, at |-> [i \in DOMAIN Table |->
                                    IF Kept(i) = "null" THEN "null" ELSE "old"]]
              /\ vr' = [vr EXCEPT !.kick = FALSE, !.call = FALSE, !.enabled = FALSE,
                                  !.last = 0, !.used = 0]
              /\ avail' = NoVq /\ used' = NoVq /\ drv' = NoDrv /\ call' = NoCall /\ skipped' = {}
              /\ UNCHANGED scan

(* SET_MEM_TABLE: each mmap may fail.  A client always sends the same      *)
(* table, so what is left of its own mappings still leads to the area.     *)
SetMemTable ==
    /\ Message
    /\ \E ok \in [DOMAIN Table -> BOOLEAN] :
         mem' = [n  |-> Cardinality({i \in DOMAIN Table : ok[i]}),
                 at |-> [i \in DOMAIN Table |-> IF ok[i] THEN "here" ELSE Kept(i)]]
    /\ UNCHANGED <<up, vr, scan, avail, used, drv, call, skipped>>

(* SET_VRING_ADDR, KICK, CALL: with the values of this client.             *)
SetVring(f) == /\ Message /\ ~vr.enabled /\ ~vr[f]
               /\ vr' = [vr EXCEPT ![f] = TRUE]
               /\ UNCHANGED <<up, mem, scan, avail, used, drv, call, skipped>>

VringEnable == /\ Message /\ vr.addr /\ vr.kick /\ vr.call
               /\ vr' = [vr EXCEPT !.enabled = ~@]
               /\ UNCHANGED <<up, mem, scan, avail, used, drv, call, skipped>>

(* The client asks where the ring stands and starts it from there:         *)
(* GET_VRING_BASE answers with the base it was given, SET_VRING_BASE sets  *)
(* the index of the next entry.                                            *)
Restart == /\ Message /\ ~vr.enabled
           /\ Restarts \/ vr.last = vr.base
           /\ vr' = [vr EXCEPT !.last = vr.base]
           /\ UNCHANGED <<up, mem, scan, avail, used, drv, call, skipped>>

-----------------------------------------------------------------------------
(* process_vring: the available index is read once, with or without a      *)
(* kick.                                                                   *)
Poll == /\ Message /\ vr.enabled /\ Reached("ring") /\ avail.idx # vr.last
        /\ scan' = [on |-> TRUE, to |-> avail.idx]
        /\ UNCHANGED <<up, mem, vr, avail, used, drv, call, skipped>>

(* The address found for an area whose mmap has failed is an offset from   *)
(* NULL, which is NULL itself for the start of the area and else faults,   *)
(* or lies in a mapping that was left behind, in memory of an earlier      *)
(* client.  Nothing is said of the back end from there on.                 *)
Crash == /\ up = "yes"
         /\ \/ Message /\ vr.enabled /\ Wild("ring")
            \/ scan.on /\ vr.last # scan.to /\ Wild("buf")
         /\ up' = "crashed"
         /\ UNCHANGED <<mem, vr, scan, avail, used, drv, call, skipped>>

Entry == avail.ring[vr.last % Num]

(* Mutant: used entries are placed by the index of the available ring.     *)
BugUsedSlot == (vr.last + 1) % Num

UsedSlot == vr.used % Num

Bump(i) == Plus(i, 1)

(* Mutant: only the command that empties the ring is announced.            *)
BugCalls == vr.call /\ Plus(vr.last, 1) = avail.idx

Calls == vr.call

(* A command runs and goes to the used ring.                               *)
Take == /\ up = "yes" /\ scan.on /\ vr.last # scan.to /\ Reached("buf")
        /\ used' = [idx |-> Bump(vr.used), ring |-> [used.ring EXCEPT ![UsedSlot] = Entry]]
        /\ vr' = [vr EXCEPT !.used = Bump(@), !.last = Bump(@)]
        /\ call' = IF Calls THEN [call EXCEPT !.raised = TRUE] ELSE call
        /\ UNCHANGED <<up, mem, scan, avail, drv, skipped>>

(* The buffer is not mapped: the entry is passed over.                     *)
Skip == /\ up = "yes" /\ scan.on /\ vr.last # scan.to /\ Null("buf")
        /\ vr' = [vr EXCEPT !.last = Bump(@)]
        /\ skipped' = skipped \cup {Entry}
        /\ UNCHANGED <<up, mem, scan, avail, used, drv, call>>

ScanEnd == /\ up = "yes" /\ scan.on /\ vr.last = scan.to
           /\ scan' = NoScan
           /\ UNCHANGED <<up, mem, vr, avail, used, drv, call, skipped>>

-----------------------------------------------------------------------------
(* The driver.                                                             *)
Offers == /\ up = "yes" /\ vr.enabled
          /\ \E d \in Desc \ drv.fly :
               /\ avail' = [idx |-> Plus(avail.idx, 1),
                            ring |-> [avail.ring EXCEPT ![avail.idx % Num] = d]]
               /\ drv' = [drv EXCEPT !.fly = @ \cup {d}]
          /\ UNCHANGED <<up, mem, vr, scan, used, call, skipped>>

TakesCall == /\ call.raised /\ ~call.handling
             /\ call' = [raised |-> FALSE, handling |-> TRUE]
             /\ UNCHANGED <<up, mem, vr, scan, avail, used, drv, skipped>>

Collects == /\ call.handling /\ drv.seen # used.idx
            /\ drv' = [fly |-> drv.fly \ {used.ring[drv.seen % Num]}, seen |-> Plus(drv.seen, 1)]
            /\ UNCHANGED <<up, mem, vr, scan, avail, used, call, skipped>>

CallDone == /\ call.handling /\ drv.seen = used.idx
            /\ call' = [call EXCEPT !.handling = FALSE]
            /\ UNCHANGED <<up, mem, vr, scan, avail, used, drv, skipped>>

-----------------------------------------------------------------------------
VhostServing == Poll \/ Take \/ Skip \/ ScanEnd \/ Crash
Driver  == TakesCall \/ Collects \/ CallDone

VhostNext == \/ VhostAccept \/ VhostClose \/ SetMemTable \/ VringEnable \/ Restart
             \/ \E f \in {"addr", "kick", "call"} : SetVring(f)
             \/ VhostServing \/ Offers \/ Driver

(* The main loop polls the ring, and the driver answers its interrupt.     *)
VhostFairness == WF_vhostVars(VhostServing) /\ WF_vhostVars(Driver)
VhostSpec     == VhostInit /\ [][VhostNext]_vhostVars /\ VhostFairness

-----------------------------------------------------------------------------
VhostTypeOK ==
    /\ up \in {"no", "yes", "crashed"} /\ scan.to \in 0..IdxMod - 1
    /\ {vr.last, vr.used, vr.base, avail.idx, used.idx} \subseteq 0..IdxMod - 1
    /\ drv.fly \subseteq Desc /\ skipped \subseteq Desc

Between(from, to) == [i \in 1..(to + IdxMod - from) % IdxMod |-> Plus(from, i - 1)]
WaitingDescs  == {avail.ring[Between(vr.last, avail.idx)[i] % Num] : i \in DOMAIN Between(vr.last, avail.idx)}
ReturnedDescs == {used.ring[Between(drv.seen, used.idx)[i] % Num] : i \in DOMAIN Between(drv.seen, used.idx)}

(* Each descriptor in flight is in one place: in the available ring, in    *)
(* the used ring, or dropped because its buffer was not mapped; none       *)
(* appears twice, so no command runs twice and none is returned that the   *)
(* driver has not sent.                                                    *)
DescriptorsAccounted ==
    /\ drv.fly = WaitingDescs \cup ReturnedDescs \cup skipped
    /\ Cardinality(drv.fly) = Len(Between(vr.last, avail.idx)) + Len(Between(drv.seen, used.idx))
                              + Cardinality(skipped)

Usable == up = "yes" /\ vr.enabled /\ Reached("ring") /\ Reached("buf")

(* A command that waits in an enabled ring with mapped memory comes back   *)
(* to the driver, although the ring is polled without looking at kicks and *)
(* commands arrive while it is scanned.                                    *)
CommandsReturned ==
    \A d \in Desc : (d \in drv.fly \ skipped /\ Usable) ~> (d \notin drv.fly \/ d \in skipped \/ ~Usable)
=============================================================================
