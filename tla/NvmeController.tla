--------------------------- MODULE NvmeController ----------------------------
(***************************************************************************)
(* The NVMe controller: asynchronous event requests (AER), the composite   *)
(* temperature sensor and the firmware slots, driven by admin commands,    *)
(* and the I/O queue pair.                                                 *)
(*                                                                         *)
(* A command is chosen when it is taken from the submission queue: the     *)
(* doorbell and nvme_ctrl_process run in one thread, so a call of          *)
(* nvme_ctrl_process is a number of Admin steps, a number of Io steps and  *)
(* Finish.  A completion queue holds the identifiers the host has not      *)
(* consumed; the status of a completion is left out.  "out" is what the    *)
(* host knows: the commands it has submitted and not had an answer to.     *)
(***************************************************************************)
EXTENDS Naturals, FiniteSets, Sequences

CONSTANTS Cid,            \* command identifiers of the host
          MaxPending,     \* NVME_AER_MAX_PENDING
          EventSlots,     \* NVME_AER_QUEUE_SIZE
          FwSlots,        \* NVME_FW_SLOT_COUNT
          MaxImage,       \* NVME_FW_MAX_IMAGE_SIZE, in chunks of 4096 bytes
          MinTemp, MaxTemp, Warning, Critical,   \* of sensor 0
          Thresholds,     \* warning thresholds the host sets; 0 is ignored
          UpdateEvery,    \* calls of nvme_ctrl_process between two updates (8)
          NoCid           \* an inactive AER slot

ASSUME NvmeAssumption ==
    /\ {MaxPending, EventSlots, FwSlots, MaxImage, UpdateEvery} \subseteq Nat \ {0}
    /\ {MinTemp, MaxTemp, Critical} \subseteq Nat
    /\ Warning \in Nat \ {0}
    /\ MinTemp < Critical /\ Critical <= MaxTemp
    /\ Thresholds \subseteq Nat
    /\ NoCid \notin Cid

VARIABLES
    admin_cq,       \* completions of admin commands
    aer_pending,    \* g_aer_pending
    aer, temp, fw,  \* event ring, temperature sensor 0, firmware slots
    ctrl,           \* controller state, I/O queue created, I/O in this call
    io_cq,          \* completions of I/O commands
    out             \* history: commands the host waits for

vars == <<admin_cq, aer_pending, aer, temp, fw, ctrl, io_cq, out>>

AerSlot   == 0..(MaxPending - 1)
FwSlot    == 1..FwSlots
SlotState == {"EMPTY", "VALID", "RUNNING"}

TypeOK ==
    /\ admin_cq \in Seq(Cid)
    /\ aer_pending \in [AerSlot -> Cid \cup {NoCid}]
    /\ aer \in [head : 0..(EventSlots - 1), tail : 0..(EventSlots - 1),
                count : 0..EventSlots, mask : BOOLEAN]
    /\ temp \in [current : MinTemp..MaxTemp, warning : Nat \ {0},
                 warning_active : BOOLEAN, critical_active : BOOLEAN,
                 update_counter : 0..(UpdateEvery - 1)]
    /\ fw \in [state : [FwSlot -> SlotState], running : FwSlot, next_boot : FwSlot,
               active : BOOLEAN, downloaded : 0..MaxImage]
    /\ ctrl \in [ready : BOOLEAN, sq : BOOLEAN, io_cmd : BOOLEAN]
    /\ io_cq \in Seq(Cid)
    /\ out \subseteq Cid

nvme_ctrl_aer_init ==
    /\ aer_pending = [s \in AerSlot |-> NoCid]
    /\ aer = [head |-> 0, tail |-> 0, count |-> 0, mask |-> TRUE]

nvme_ctrl_temp_init ==
    temp = [current |-> MinTemp, warning |-> Warning, warning_active |-> FALSE,
            critical_active |-> FALSE, update_counter |-> 0]

nvme_ctrl_fw_init ==
    fw = [state |-> [s \in FwSlot |-> IF s = 1 THEN "RUNNING" ELSE "EMPTY"],
          running |-> 1, next_boot |-> 1, active |-> FALSE, downloaded |-> 0]

(* nvme_ctrl_init: the controller is in RESET, with its admin queues only. *)
Init ==
    /\ nvme_ctrl_aer_init /\ nvme_ctrl_temp_init /\ nvme_ctrl_fw_init
    /\ admin_cq = <<>> /\ io_cq = <<>> /\ out = {}
    /\ ctrl = [ready |-> FALSE, sq |-> FALSE, io_cmd |-> FALSE]

-----------------------------------------------------------------------------
(* Asynchronous events.                                                    *)
Pending == {s \in AerSlot : aer_pending[s] # NoCid}
Lowest(S) == CHOOSE s \in S : \A t \in S : s <= t

(* An event of the SMART kind is dropped when it is masked, any event is   *)
(* dropped when the ring is full.  Which event an entry holds is left out. *)
post_aer_event(a, type) ==
    IF (type = "SMART_HEALTH" /\ ~a.mask) \/ a.count >= EventSlots THEN a
    ELSE [a EXCEPT !.tail = (@ + 1) % EventSlots, !.count = @ + 1]

(* Mutant: a request stays pending after it was answered.                  *)
BugReleased(S) == aer_pending

(* aer_try_complete answers the first n pending requests, in the order of  *)
(* their slots, with the first n events of the ring.                       *)
Answerable == IF aer.count < Cardinality(Pending) THEN aer.count ELSE Cardinality(Pending)
Answered(n) == {s \in Pending : Cardinality({t \in Pending : t < s}) < n}
AnswerOrder(n) == [i \in 1..n |-> aer_pending[CHOOSE s \in Answered(n) :
                        Cardinality({t \in Pending : t < s}) = i - 1]]
Released(S) == [s \in AerSlot |-> IF s \in S THEN NoCid ELSE aer_pending[s]]
Taken(a, n) == [a EXCEPT !.head = (@ + n) % EventSlots, !.count = @ - n]

-----------------------------------------------------------------------------
(* The temperature moves by rand() % 3 - 1, one up when there was I/O and  *)
(* one down otherwise, within the limits of the sensor; an event is posted *)
(* when a threshold is reached, not while the temperature stays above it.  *)
Clamped(t) == IF t < MinTemp + 2 THEN MinTemp
              ELSE IF t - 2 > MaxTemp THEN MaxTemp ELSE t - 2
NewTemps(io) == {Clamped(temp.current + r + (IF io THEN 2 ELSE 0)) : r \in 0..2}

(* temp_check_thresholds: the critical threshold first, then the warning.  *)
Raises(a, was, is) == IF is /\ ~was THEN post_aer_event(a, "SMART_HEALTH") ELSE a
temp_check_thresholds(a, t) ==
    Raises(Raises(a, temp.critical_active, t >= Critical),
           temp.warning_active, t >= temp.warning)

-----------------------------------------------------------------------------
(* Firmware download and commit.                                           *)
Downloads(offset) ==
    /\ offset = 0 \/ (fw.active /\ offset = fw.downloaded)
    /\ offset + 1 <= MaxImage

(* An offset of 0 starts a new download even when the chunk is refused.    *)
admin_fw_download(offset) ==
    LET started == IF offset = 0 THEN [fw EXCEPT !.active = TRUE, !.downloaded = 0] ELSE fw
    IN  IF Downloads(offset) THEN [started EXCEPT !.downloaded = @ + 1] ELSE started

Commits(slot, action) ==
    /\ slot \in FwSlot
    /\ action # "SET_BOOT"
    /\ fw.active /\ fw.downloaded > 0
    /\ ~(action = "REPLACE" /\ slot = fw.running)

(* The commit consumes the download; the slot becomes VALID before the     *)
(* action is looked at.                                                    *)
Stored(slot) == [fw EXCEPT !.state[slot] = "VALID", !.active = FALSE, !.downloaded = 0]

(* Mutant: the slot that was running keeps its mark.                       *)
BugActivated(slot) == [Stored(slot) EXCEPT !.state[slot] = "RUNNING",
                                           !.running = slot, !.next_boot = slot]

Activated(slot) == [Stored(slot) EXCEPT !.state = [@ EXCEPT ![fw.running] = "VALID",
                                                            ![slot] = "RUNNING"],
                                        !.running = slot, !.next_boot = slot]

SetsBoot(slot, action) ==
    /\ slot \in FwSlot
    /\ action = "SET_BOOT"
    /\ fw.state[slot] # "EMPTY"

admin_fw_activate(slot, action) ==
    IF SetsBoot(slot, action) THEN [fw EXCEPT !.next_boot = slot]
    ELSE IF ~Commits(slot, action) THEN fw
    ELSE CASE action = "REPLACE_RESET" -> [Stored(slot) EXCEPT !.next_boot = slot]
           [] action = "REPLACE_NOW"   -> Activated(slot)
           [] OTHER                    -> Stored(slot)

-----------------------------------------------------------------------------
(* Admin commands.  Fresh: the host reuses an identifier only after it has *)
(* consumed its completion, also when it has reset the controller: a reset *)
(* leaves the pending event requests in place.                             *)
Fresh == Cid \ out

Post(cid) == admin_cq' = Append(admin_cq, cid)

(* Identify, Get Log Page, Get Features, Delete Queue, Abort, Format, Keep *)
(* Alive and unknown opcodes change nothing modelled here.                 *)
Other(cid) == Post(cid) /\ UNCHANGED <<aer_pending, aer, temp, fw, ctrl, io_cq>>

(* A queue starts empty, also when there is one already: the host creates  *)
(* queues when it has no I/O command out, the completion queue first, so   *)
(* that the submission queue says whether there are I/O queues.            *)
CreateQueues(cid) ==
    /\ io_cq = <<>>
    /\ ctrl' = [ctrl EXCEPT !.sq = TRUE]
    /\ Post(cid)
    /\ UNCHANGED <<aer_pending, aer, temp, fw, io_cq>>

(* Mutant: a request for which no slot is free is marked as waiting, too.  *)
BugAsyncEvent(cid) ==
    /\ LET free == AerSlot \ Pending
       IN IF free = {} THEN UNCHANGED aer_pending
          ELSE aer_pending' = [aer_pending EXCEPT ![Lowest(free)] = cid]
    /\ UNCHANGED <<admin_cq, aer, temp, fw, ctrl, io_cq>>

(* admin_async_event marks the completion with rsvd1 = 0xAE01, which only  *)
(* nvme_ctrl_process looks at.  A request beyond the slots is answered at  *)
(* once.                                                                   *)
AsyncEvent(cid) ==
    /\ LET free == AerSlot \ Pending
       IN IF free = {} THEN Post(cid) /\ UNCHANGED aer_pending
          ELSE /\ aer_pending' = [aer_pending EXCEPT ![Lowest(free)] = cid]
               /\ UNCHANGED admin_cq
    /\ UNCHANGED <<aer, temp, fw, ctrl, io_cq>>

SetFeatures(cid) ==
    /\ \/ \E m \in BOOLEAN : aer' = [aer EXCEPT !.mask = m] /\ UNCHANGED temp
       \/ \E t \in Thresholds :
             /\ temp' = [temp EXCEPT !.warning = IF t > 0 THEN t ELSE @]
             /\ UNCHANGED aer
    /\ Post(cid)
    /\ UNCHANGED <<aer_pending, fw, ctrl, io_cq>>

FwDownload(cid) ==
    /\ \E offset \in 0..MaxImage : fw' = admin_fw_download(offset)
    /\ Post(cid)
    /\ UNCHANGED <<aer_pending, aer, temp, ctrl, io_cq>>

FwActivate(cid) ==
    /\ \E slot \in 0..FwSlots,
          action \in {"REPLACE", "REPLACE_RESET", "REPLACE_NOW", "SET_BOOT", "UNKNOWN"} :
          /\ fw' = admin_fw_activate(slot, action)
          /\ aer' = IF action = "REPLACE_NOW" /\ Commits(slot, action)
                    THEN post_aer_event(aer, "NOTICE") ELSE aer
    /\ Post(cid)
    /\ UNCHANGED <<aer_pending, temp, ctrl, io_cq>>

(* nvme_ctrl_process looks at the I/O queue once the admin queue is empty. *)
Admin == /\ ctrl.ready /\ ~ctrl.io_cmd
         /\ \E cid \in Fresh :
               /\ \/ Other(cid) \/ CreateQueues(cid) \/ AsyncEvent(cid)
                  \/ SetFeatures(cid) \/ FwDownload(cid) \/ FwActivate(cid)
               /\ out' = out \cup {cid}

(* nvme_ctrl_process_io_cmd: every command is completed, whatever its      *)
(* opcode and outcome.                                                     *)
Io == /\ ctrl.ready /\ ctrl.sq
      /\ \E cid \in Fresh : io_cq' = Append(io_cq, cid) /\ out' = out \cup {cid}
      /\ ctrl' = [ctrl EXCEPT !.io_cmd = TRUE]
      /\ UNCHANGED <<admin_cq, aer_pending, aer, temp, fw>>

(* nvme_ctrl_write_reg, of which only CC.EN matters here.                  *)
nvme_ctrl_write_cc(en) ==
    /\ ~ctrl.io_cmd
    /\ ctrl' = [ctrl EXCEPT !.ready = en]
    /\ UNCHANGED <<admin_cq, aer_pending, aer, temp, fw, io_cq, out>>

(* The end of nvme_ctrl_process: aer_try_complete, and every UpdateEvery   *)
(* calls the temperature.                                                  *)
Finish ==
    /\ ctrl.ready
    /\ \E n \in {Answerable} :
          /\ admin_cq' = admin_cq \o AnswerOrder(n)
          /\ aer_pending' = Released(Answered(n))
          /\ IF temp.update_counter + 1 < UpdateEvery
             THEN /\ aer' = Taken(aer, n)
                  /\ temp' = [temp EXCEPT !.update_counter = @ + 1]
             ELSE \E t \in NewTemps(ctrl.io_cmd) :
                  /\ aer' = temp_check_thresholds(Taken(aer, n), t)
                  /\ temp' = [temp EXCEPT !.update_counter = 0, !.current = t,
                                !.critical_active = (t >= Critical),
                                !.warning_active = (t >= temp.warning)]
    /\ ctrl' = [ctrl EXCEPT !.io_cmd = FALSE]
    /\ UNCHANGED <<fw, io_cq, out>>

HostConsumes ==
    /\ \/ /\ admin_cq # <<>> /\ admin_cq' = Tail(admin_cq) /\ UNCHANGED io_cq
          /\ out' = out \ {Head(admin_cq)}
       \/ /\ io_cq # <<>> /\ io_cq' = Tail(io_cq) /\ UNCHANGED admin_cq
          /\ out' = out \ {Head(io_cq)}
    /\ UNCHANGED <<aer_pending, aer, temp, fw, ctrl>>

Next == Admin \/ Io \/ Finish \/ HostConsumes \/ \E en \in BOOLEAN : nvme_ctrl_write_cc(en)

(* Nothing in the program calls nvme_ctrl_process: no fairness.            *)
Spec == Init /\ [][Next]_vars

-----------------------------------------------------------------------------
Members(s) == {s[i] : i \in 1..Len(s)}
Outstanding == Members(admin_cq) \cup Members(io_cq) \cup {aer_pending[s] : s \in Pending}

(* A command is answered once: no identifier is twice in the completion    *)
(* queues, or there while its request is still pending, so the host never  *)
(* sees a completion for a command it does not wait for, also when the     *)
(* controller was reset in between.                                        *)
AnsweredOnce ==
    LET answers == admin_cq \o io_cq
    IN  /\ \A i, j \in 1..Len(answers) : answers[i] = answers[j] => i = j
        /\ \A s, t \in Pending : aer_pending[s] = aer_pending[t] => s = t
        /\ \A s \in Pending : aer_pending[s] \notin Members(answers)

(* At most the running slot is marked RUNNING, however firmware images are *)
(* replaced, and the slots the device runs from and boots from next hold   *)
(* an image.                                                               *)
FirmwareBootable ==
    /\ \A s \in FwSlot : fw.state[s] = "RUNNING" => s = fw.running
    /\ fw.state[fw.running] # "EMPTY"
    /\ fw.state[fw.next_boot] # "EMPTY"

(* No command is dropped: one the host waits for has its answer in a       *)
(* completion queue or waits for an event in a slot that still holds its   *)
(* identifier, and nothing else is there. Resets, a full slot table (the   *)
(* request is rejected, not marked as waiting) and a full event ring lose  *)
(* none.                                                                   *)
NoCommandDropped == out = Outstanding
=============================================================================
