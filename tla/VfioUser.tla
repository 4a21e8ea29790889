------------------------------ MODULE VfioUser ------------------------------
(***************************************************************************)
(* The vfio-user front end: one client, its DMA table, the controller      *)
(* registers, and NVMe queue pairs in guest memory that are served when a  *)
(* doorbell is written.                                                    *)
(*                                                                         *)
(* Doorbells are posted writes that travel in order; for every other       *)
(* message the client waits for the reply, so the doorbells before it have *)
(* been handled.  The guest reads and writes its rings at any time, also   *)
(* while the back end serves a doorbell.  Guest memory is a set of areas,  *)
(* each mapped by one DMA message, at an address that gpa_to_hva accepts   *)
(* or refuses; the client passes a descriptor of the memory with it.  The  *)
(* data of commands, their status and the PCI header are left out: a       *)
(* command that fails is completed like one that succeeds.                 *)
(***************************************************************************)
EXTENDS Naturals, Sequences, FiniteSets, SequencesExt

CONSTANTS
    Queue,          \* queue pairs; 0 is the admin queue
    Depth(_),       \* entries of each ring of a queue
    Cid(_),         \* command identifiers the guest uses on a queue
    Area,           \* areas of guest memory
    SqArea(_),      \* the area that holds a submission ring
    CqArea(_),      \* the area that holds a completion ring
    MaxRegions,     \* VFIO_USER_MAX_DMA_REGIONS
    MaxBells        \* doorbell writes under way

IoQ     == Queue \ {0}
Ring(x) == 0..Depth(x) - 1

(* The guest never has as many commands out as a ring has entries.         *)
ASSUME VfioAssumption ==
    /\ 0 \in Queue /\ {MaxRegions, MaxBells} \subseteq Nat \ {0}
    /\ \A x \in Queue : {SqArea(x), CqArea(x)} \subseteq Area
    /\ \A x \in Queue : Depth(x) \in Nat /\ IsFiniteSet(Cid(x)) /\ Cardinality(Cid(x)) < Depth(x)

VARIABLES
    connected,  \* g_ctx.connected
    dma,        \* g_ctx.dma_regions
    regs,       \* admin queue registers of the controller that were written
    q,          \* g_queues
    msix,       \* msix_enabled, and whether msix_evtfd is valid
    bells,      \* doorbell messages under way
    run,        \* process_queue_commands under way
    sq, cq,     \* the rings in guest memory
    guest,      \* the guest's side of each queue
    irq,        \* the event descriptor is signalled; the guest handles it
    mapped,     \* areas the client has mapped, from the replies, and where
    ran         \* commands that have run since they were submitted

vfioVars == <<connected, dma, regs, q, msix, bells, run, sq, cq, guest, irq, mapped, ran>>

NoRun   == [on |-> FALSE, q |-> 0, wrote |-> FALSE]
NoMsix  == [on |-> FALSE, fd |-> FALSE]
NoIrq   == [raised |-> FALSE, handling |-> FALSE]
NoQueue == [sqOn |-> FALSE, cqOn |-> FALSE, head |-> 0, tail |-> 0, cqTail |-> 0,
            phase |-> FALSE, valid |-> FALSE]
NoCmd   == [cid |-> 0, op |-> "NONE", arg |-> 0]
NoCpl   == [cid |-> 0, phase |-> FALSE]
NoRing(x) == [i \in Ring(x) |-> NoCpl]

(* The guest's side of a queue: stage of its life, where it produces, the  *)
(* tail it last rang, where it consumes and with which phase, and the      *)
(* commands that are out.                                                  *)
NoGuest == [stage |-> "none", tail |-> 0, rung |-> 0, head |-> 0, phase |-> TRUE, out |-> {}]

(* vfio_user_nvme_init.                                                    *)
VfioInit == /\ connected = FALSE /\ dma = <<>> /\ mapped = {} /\ regs = {}
            /\ msix = NoMsix /\ bells = <<>> /\ run = NoRun /\ irq = NoIrq
            /\ q     = [x \in Queue |-> NoQueue]
            /\ sq    = [x \in Queue |-> [i \in Ring(x) |-> NoCmd]]
            /\ cq    = [x \in Queue |-> NoRing(x)]
            /\ guest = [x \in Queue |-> NoGuest]
            /\ ran   = [x \in Queue |-> {}]

-----------------------------------------------------------------------------
(* A message the client waits for is handled after all doorbells.          *)
Sync == connected /\ bells = <<>> /\ ~run.on

(* The guest has nothing left of its queues, and clears the rings.         *)
GuestForgets == /\ guest' = [x \in Queue |-> NoGuest]
                /\ cq'    = [x \in Queue |-> NoRing(x)]
                /\ sq'    = [x \in Queue |-> [i \in Ring(x) |-> NoCmd]]
                /\ ran'   = [x \in Queue |-> {}]
                /\ irq'   = NoIrq

(* gpa_to_hva succeeds: the area is mapped, and at a low address.  It      *)
(* refuses 0, 0xCCCCCCCCCCCCCCCC and what is above 4 GiB, which DMA_MAP    *)
(* accepts.                                                                *)
Hva(a) == <<a, TRUE>> \in ToSet(dma)

Connect == /\ ~connected /\ connected' = TRUE
           /\ UNCHANGED <<dma, regs, q, msix, bells, run, sq, cq, guest, irq, mapped, ran>>

(* close_connection; what the client posted last may be lost.  The         *)
(* registers of the shared controller stay as they are.                    *)
VfioClose == /\ connected /\ ~run.on
             /\ connected' = FALSE /\ dma' = <<>> /\ mapped' = {} /\ msix' = NoMsix
             /\ q' = [x \in Queue |-> NoQueue]
             /\ bells' = <<>> /\ GuestForgets
             /\ UNCHANGED <<regs, run>>

(* handle_set_reset: the DMA table stays.                                  *)
DeviceReset == /\ Sync /\ \E x \in Queue : guest[x].stage # "none"
               /\ q' = [x \in Queue |-> NoQueue] /\ msix' = NoMsix
               /\ GuestForgets
               /\ UNCHANGED <<connected, dma, regs, bells, run, mapped>>

(* handle_dma_map: refused when the table is full, never for its address.  *)
DmaMap(a, low) ==
    /\ Sync /\ a \notin {m[1] : m \in mapped}
    /\ IF Len(dma) >= MaxRegions THEN UNCHANGED <<dma, mapped>>
       ELSE dma' = Append(dma, <<a, low>>) /\ mapped' = mapped \cup {<<a, low>>}
    /\ UNCHANGED <<connected, regs, q, msix, bells, run, sq, cq, guest, irq, ran>>

(* The last entry takes the place of entry i.                              *)
Without(s, i) == SubSeq([s EXCEPT ![i] = Last(s)], 1, Len(s) - 1)

DmaUnmap(m) ==
    /\ Sync /\ m \in mapped
    /\ \E i \in 1..Len(dma) : dma[i] = m /\ dma' = Without(dma, i)
    /\ mapped' = mapped \ {m}
    /\ UNCHANGED <<connected, regs, q, msix, bells, run, sq, cq, guest, irq, ran>>

(* The client passes an event descriptor and writes the MSI-X control      *)
(* word, in any order, before the guest enables the controller.            *)
handle_device_set_irqs(fd) ==
    /\ Sync /\ guest[0].stage = "none"
    /\ msix' = [msix EXCEPT !.fd = fd]
    /\ UNCHANGED <<connected, dma, regs, q, bells, run, sq, cq, guest, irq, mapped, ran>>

pci_config_write(on) ==
    /\ Sync /\ guest[0].stage = "none"
    /\ msix' = [msix EXCEPT !.on = on]
    /\ UNCHANGED <<connected, dma, regs, q, bells, run, sq, cq, guest, irq, mapped, ran>>

-----------------------------------------------------------------------------
(* Controller registers.                                                   *)
Reset0 == [q[0] EXCEPT !.head = 0, !.tail = 0, !.cqTail = 0, !.phase = TRUE]

(* update_admin_queue_from_regs: a size is never zero.                     *)
FromRegs(r) == [Reset0 EXCEPT !.sqOn = TRUE, !.cqOn = TRUE, !.valid = {"ASQ", "ACQ"} \subseteq r]

RegWrite(r) == /\ Sync /\ guest[0].stage = "none"
               /\ regs' = regs \cup {r}
               /\ q' = [q EXCEPT ![0] = FromRegs(regs')]
               /\ UNCHANGED <<connected, dma, msix, bells, run, sq, cq, guest, irq, mapped, ran>>

(* CC.EN = 1, with the registers and interrupts set.                       *)
EnableCtrl == /\ Sync /\ guest[0].stage = "none" /\ regs = {"AQA", "ASQ", "ACQ"}
              /\ msix.on /\ msix.fd
              /\ q' = [q EXCEPT ![0] = FromRegs(regs)]
              /\ guest' = [guest EXCEPT ![0] = [NoGuest EXCEPT !.stage = "live"]]
              /\ UNCHANGED <<connected, dma, regs, msix, bells, run, sq, cq, irq, mapped, ran>>

(* CC.EN = 0: only the pointers of the admin queue are reset.              *)
DisableCtrl == /\ Sync /\ guest[0].stage # "none"
               /\ q' = [q EXCEPT ![0] = Reset0]
               /\ GuestForgets
               /\ UNCHANGED <<connected, dma, regs, msix, bells, run, mapped>>

-----------------------------------------------------------------------------
(* process_nvme_command: what a command does to the queues.  An I/O        *)
(* command and any other admin command leaves them alone.                  *)
Effect(cmd) ==
    CASE cmd.op = "CREATE_SQ" ->
           [q EXCEPT ![cmd.arg] = [@ EXCEPT !.sqOn = TRUE, !.head = 0, !.tail = 0,
                                            !.valid = q[cmd.arg].cqOn]]
      [] cmd.op = "CREATE_CQ" ->
           [q EXCEPT ![cmd.arg] = [@ EXCEPT !.cqOn = TRUE, !.cqTail = 0, !.phase = TRUE,
                                            !.valid = q[cmd.arg].sqOn]]
      [] cmd.op = "DELETE_SQ" -> [q EXCEPT ![cmd.arg].sqOn = FALSE, ![cmd.arg].valid = FALSE]
      [] cmd.op = "DELETE_CQ" -> [q EXCEPT ![cmd.arg].cqOn = FALSE, ![cmd.arg].valid = FALSE]
      [] OTHER -> q

(* handle_doorbell_write: the tail is taken over, and the queue is served. *)
Doorbell ==
    /\ connected /\ bells # <<>> /\ ~run.on
    /\ LET x == Head(bells).q
       IN  /\ q' = [q EXCEPT ![x].tail = Head(bells).tail]
           /\ run' = [on |-> q[x].valid /\ q[x].sqOn /\ q[x].cqOn, q |-> x, wrote |-> FALSE]
    /\ bells' = Tail(bells)
    /\ UNCHANGED <<connected, dma, regs, msix, sq, cq, guest, irq, mapped, ran>>

(* Mutant: a doorbell serves one command.                                  *)
BugMore(x) == q[x].head # q[x].tail /\ ~run.wrote

More(x) == q[x].head # q[x].tail

(* Mutant: the phase tag does not change on a new lap.                     *)
BugPosted(r, x) == [r EXCEPT !.cqTail = (@ + 1) % Depth(x), !.head = (@ + 1) % Depth(x)]

(* The pointers after a completion; the phase changes when the ring wraps. *)
Posted(r, x) == [r EXCEPT !.cqTail = (@ + 1) % Depth(x),
                          !.phase  = IF r.cqTail + 1 = Depth(x) THEN ~@ ELSE @,
                          !.head   = (@ + 1) % Depth(x)]

Counted(x, cmd) == ran' = [ran EXCEPT ![x] = @ \cup {cmd.cid}]

(* Mutant: completions on the admin queue are not announced.               *)
BugInterrupts(x) == run.wrote /\ msix.on /\ msix.fd /\ x # 0

(* trigger_msix_interrupt, after the loop, when a completion was written.  *)
Interrupts(x) == run.wrote /\ msix.on /\ msix.fd

LoopEnds(x) == /\ run' = NoRun
               /\ irq' = IF Interrupts(x) THEN [irq EXCEPT !.raised = TRUE] ELSE irq

(* One command of the loop: it runs and its completion is posted.  Its     *)
(* slot is blanked: what it held is not read again.                        *)
Serve ==
    /\ run.on
    /\ LET x   == run.q
           cmd == sq[x][q[x].head]
       IN  /\ More(x) /\ Hva(SqArea(x)) /\ Hva(CqArea(x))
           /\ cq' = [cq EXCEPT ![x][q[x].cqTail] = [cid |-> cmd.cid, phase |-> q[x].phase]]
           /\ q' = [Effect(cmd) EXCEPT ![x] = Posted(@, x)]
           /\ sq' = [sq EXCEPT ![x][q[x].head] = NoCmd]
           /\ Counted(x, cmd)
    /\ run' = [run EXCEPT !.wrote = TRUE]
    /\ UNCHANGED <<connected, dma, regs, msix, bells, guest, irq, mapped>>

(* The completion ring is not reached: the command has run, and will run    *)
(* again.                                                                  *)
ServeNoCq ==
    /\ run.on
    /\ LET x   == run.q
           cmd == sq[x][q[x].head]
       IN  /\ More(x) /\ Hva(SqArea(x)) /\ ~Hva(CqArea(x))
           /\ q' = Effect(cmd)
           /\ Counted(x, cmd)
           /\ LoopEnds(x)
    /\ UNCHANGED <<connected, dma, regs, msix, bells, sq, cq, guest, mapped>>

(* The submission ring is not reached, or it is empty.                     *)
ServeEnd ==
    /\ run.on /\ (~More(run.q) \/ ~Hva(SqArea(run.q)))
    /\ LoopEnds(run.q)
    /\ UNCHANGED <<connected, dma, regs, q, msix, bells, sq, cq, guest, mapped, ran>>

-----------------------------------------------------------------------------
(* The guest.                                                              *)
Out(x) == {o.cid : o \in guest[x].out}

(* Commands the guest may send: a completion queue is created before and   *)
(* deleted after its submission queue.  Admin commands that leave the      *)
(* queues alone, which are served like I/O commands, are not sent.         *)
Commands(x) ==
    IF x # 0 THEN {[op |-> "IO", arg |-> 0]}
    ELSE [op : {"CREATE_CQ"}, arg : {y \in IoQ : guest[y].stage = "none"}]
         \cup [op : {"CREATE_SQ", "DELETE_CQ"}, arg : {y \in IoQ : guest[y].stage = "cq"}]
         \cup [op : {"DELETE_SQ"}, arg : {y \in IoQ : guest[y].stage = "live" /\ guest[y].out = {}}]

(* The guest's side of queue y once a command on it has been submitted.    *)
Starting(g, op) == CASE op = "CREATE_CQ" -> [NoGuest EXCEPT !.stage = "busy"]
                     [] op = "CREATE_SQ" -> [g EXCEPT !.stage = "busy", !.tail = 0, !.rung = 0]
                     [] OTHER            -> [g EXCEPT !.stage = "busy"]

Submit(x) ==
    /\ guest[x].stage = "live"
    /\ \E c \in Cid(x) \ Out(x), m \in Commands(x) :
         LET cmd == [cid |-> c, op |-> m.op, arg |-> m.arg]
             g   == [guest EXCEPT ![x].tail = (@ + 1) % Depth(x), ![x].out = @ \cup {cmd}]
         IN  /\ sq' = [sq EXCEPT ![x][guest[x].tail] = cmd]
             /\ guest' = IF m.arg = 0 THEN g ELSE [g EXCEPT ![m.arg] = Starting(@, m.op)]
             /\ cq' = IF m.op = "CREATE_CQ" THEN [cq EXCEPT ![m.arg] = NoRing(m.arg)] ELSE cq
             /\ ran' = [ran EXCEPT ![x] = @ \ {c}]
    /\ UNCHANGED <<connected, dma, regs, q, msix, bells, run, irq, mapped>>

Rings(x) == /\ guest[x].rung # guest[x].tail /\ Len(bells) < MaxBells
            /\ bells' = Append(bells, [q |-> x, tail |-> guest[x].tail])
            /\ guest' = [guest EXCEPT ![x].rung = guest[x].tail]
            /\ UNCHANGED <<connected, dma, regs, q, msix, run, sq, cq, irq, mapped, ran>>

(* The entry at the guest's position is new when its phase matches.        *)
New(x) == guest[x].stage # "none" /\ cq[x][guest[x].head].phase = guest[x].phase

TakesIrq == /\ irq.raised /\ ~irq.handling
            /\ irq' = [raised |-> FALSE, handling |-> TRUE]
            /\ UNCHANGED <<connected, dma, regs, q, msix, bells, run, sq, cq, guest, mapped, ran>>

(* The interrupt handler takes the new completions.                        *)
Ended == [CREATE_CQ |-> "cq", CREATE_SQ |-> "live", DELETE_SQ |-> "cq", DELETE_CQ |-> "none"]

Consume(x) ==
    /\ irq.handling /\ New(x)
    /\ LET g    == guest[x]
           done == {o \in g.out : o.cid = cq[x][g.head].cid}
           took == [guest EXCEPT ![x] = [g EXCEPT !.head  = (@ + 1) % Depth(x),
                                                  !.phase = IF g.head + 1 = Depth(x) THEN ~@ ELSE @,
                                                  !.out   = @ \ done]]
       IN  guest' = [y \in Queue |-> IF \E o \in done : o.arg = y /\ y # 0
                                     THEN [took[y] EXCEPT !.stage =
                                             Ended[(CHOOSE o \in done : o.arg = y).op]]
                                     ELSE took[y]]
    /\ cq' = [cq EXCEPT ![x][guest[x].head].cid = 0]
    /\ ran' = [ran EXCEPT ![x] = @ \ {cq[x][guest[x].head].cid}]
    /\ UNCHANGED <<connected, dma, regs, q, msix, bells, run, sq, irq, mapped>>

IrqDone == /\ irq.handling /\ \A x \in Queue : ~New(x)
           /\ irq' = [irq EXCEPT !.handling = FALSE]
           /\ UNCHANGED <<connected, dma, regs, q, msix, bells, run, sq, cq, guest, mapped, ran>>

-----------------------------------------------------------------------------
VfioServing == Doorbell \/ Serve \/ ServeNoCq \/ ServeEnd
Guest   == TakesIrq \/ IrqDone \/ \E x \in Queue : Consume(x)

VfioNext == \/ Connect \/ VfioClose \/ DeviceReset \/ EnableCtrl \/ DisableCtrl
            \/ \E b \in BOOLEAN : handle_device_set_irqs(b) \/ pci_config_write(b)
            \/ \E a \in Area, low \in BOOLEAN : DmaMap(a, low) \/ DmaUnmap(<<a, low>>)
            \/ \E r \in {"AQA", "ASQ", "ACQ"} : RegWrite(r)
            \/ VfioServing \/ Guest
            \/ \E x \in Queue : Submit(x) \/ Rings(x)

(* The main loop polls the socket, and the guest handles interrupts.       *)
VfioFairness == WF_vfioVars(VfioServing) /\ WF_vfioVars(Guest)

VfioSpec == VfioInit /\ [][VfioNext]_vfioVars /\ VfioFairness

-----------------------------------------------------------------------------
VfioTypeOK ==
    /\ connected \in BOOLEAN /\ msix \in [on : BOOLEAN, fd : BOOLEAN] /\ mapped \subseteq Area \X BOOLEAN
    /\ Len(dma) <= MaxRegions /\ Len(bells) <= MaxBells
    /\ \A x \in Queue : /\ q[x].head \in Ring(x) /\ q[x].tail \in Ring(x) /\ q[x].cqTail \in Ring(x)
                        /\ guest[x].stage \in {"none", "busy", "cq", "live"}

(* Commands between the device's head and the guest's tail, in ring order. *)
Waiting(x) == [i \in 1..(guest[x].tail + Depth(x) - q[x].head) % Depth(x) |->
                  sq[x][(q[x].head + i - 1) % Depth(x)].cid]

(* Completions the guest will find by following the phase tag.             *)
PhaseAt(x, k) == IF guest[x].head + k < Depth(x) THEN guest[x].phase ELSE ~guest[x].phase
Fresh(x, k)   == \A j \in 0..k : cq[x][(guest[x].head + j) % Depth(x)].phase = PhaseAt(x, j)
Visible(x)    == {cq[x][(guest[x].head + k) % Depth(x)].cid : k \in {j \in Ring(x) : Fresh(x, j)}}

(* Every command the guest has out on a live queue is in one place: it     *)
(* waits in the submission ring, or its completion is in the completion    *)
(* ring where the phase tag shows it.  Only the first of those that wait   *)
(* may have run, and what is completed has run.  So it is through resets,  *)
(* deleted and created queues, laps of the rings and rings that are not    *)
(* mapped or mapped where the back end does not look for them.             *)
CommandsAccounted ==
    \A x \in Queue : guest[x].stage = "live" =>
        /\ q[x].valid
        /\ Out(x) = ToSet(Waiting(x)) \cup Visible(x)
        /\ ToSet(Waiting(x)) \cap Visible(x) = {} /\ IsInjective(Waiting(x))
        /\ \A i \in 2..Len(Waiting(x)) : Waiting(x)[i] \notin ran[x]
        /\ Visible(x) \subseteq ran[x]

(* A completion the guest has not seen is announced: by an interrupt that  *)
(* is pending or being handled, or by the one at the end of the loop.      *)
NoLostInterrupt ==
    (\E x \in Queue : New(x)) => irq.raised \/ irq.handling \/ run.wrote

(* What the client knows: it has had replies for both rings, and has put   *)
(* them below 4 GiB.                                                       *)
RingsMapped(x) == {SqArea(x), CqArea(x)} \X {TRUE} \subseteq mapped
Rung(x)        == \E i \in 1..Len(bells) : bells[i] = [q |-> x, tail |-> guest[x].tail]

(* A doorbell is served: its commands are completed and seen, unless the   *)
(* client unmaps a ring or resets the device. It is promised only for      *)
(* rings below 4 GiB: above, DMA_MAP is answered with success, and no      *)
(* doorbell of the queue is ever served.                                   *)
DoorbellServed ==
    \A x \in Queue : \A c \in Cid(x) :
        (c \in Out(x) /\ Rung(x) /\ RingsMapped(x)) ~> (c \notin Out(x) \/ ~RingsMapped(x))
=============================================================================
