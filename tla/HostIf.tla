------------------------------- MODULE HostIf -------------------------------
(***************************************************************************)
(* The host interface of modules/host_if/host_if.c: a submission list and  *)
(* a completion ring of queue_size entries, the commands host_if_process   *)
(* executes on the FTL, and the counters of the simulated power losses.    *)
(*                                                                         *)
(* A page is Lost when it holds no data of the host.  A call of the FTL    *)
(* may fail at any page (no space, bad block); which calls fail is the     *)
(* subject of module Ftl.  One feature register stands for the twelve,     *)
(* which differ in nothing.  The contents of identify and log pages,       *)
(* statistics and latencies are left out.                                  *)
(***************************************************************************)
EXTENDS Naturals, Sequences, FiniteSets, SequencesExt

CONSTANTS
    QueueSize,      \* queue_size of host_if_config_t
    CidMod,         \* 2^16, the range of g_cid_counter
    TotalLpns,      \* pages of the FTL
    Data, Zero, Lost,
    Settings,       \* values the host writes into a feature register
    MaxPages,       \* bound on the pages of one command (nlb + 1)
    MaxPowerLoss    \* bound on the simulated power losses

ASSUME HostAssumption ==
    /\ QueueSize \in Nat \ {0} /\ CidMod \in Nat \ {0} /\ TotalLpns \in Nat \ {0}
    /\ MaxPages \in Nat \ {0} /\ MaxPowerLoss \in Nat
    /\ Zero \notin Data /\ Lost \notin Data \cup {Zero}
    /\ Settings \subseteq Nat

VARIABLES
    sq,         \* submission list
    cq,         \* ring: entries, head, tail, count and phase_tag
    cid,        \* g_cid_counter
    busy,       \* host_if_process is in its loop
    disk,       \* contents of the FTL
    feature,    \* a feature register
    plp,        \* wal_dirty, power_cycles and unsafe_shutdowns
    host,       \* the host: cids it waits for, and the phase it expects
    promised    \* history: disk and feature once all accepted commands are done

vars == <<sq, cq, cid, busy, disk, feature, plp, host, promised>>

LPN    == 0..TotalLpns - 1
Status == {"SUCCESS", "ERROR"}      \* nvme_status_t, all errors alike
Ring   == 0..QueueSize - 1
NoCqe  == [cid |-> 0, status |-> "SUCCESS", phase |-> 0]

(* known: the number names a page or feature, and the buffer is there.     *)
Cmd ==
    [op : {"READ", "TRIM", "WRITE_ZEROES"}, lpn : LPN, n : 1..MaxPages]
    \cup [op : {"WRITE"}, lpn : LPN, n : 1..MaxPages, val : Data]
    \cup [op : {"IDENTIFY", "GET_LOG_PAGE", "GET_FEATURE"}, known : BOOLEAN]
    \cup [op : {"SET_FEATURE"}, known : {TRUE}, val : Settings]
    \cup [op : {"SET_FEATURE"}, known : {FALSE}]
    \cup [op : {"ACKNOWLEDGED", "INVALID"}]

-----------------------------------------------------------------------------
(* Mutant: the phase changes one entry early.                              *)
BugAddCqe(c, entry) ==
    LET tail == (c.tail + 1) % QueueSize
    IN  [c EXCEPT !.buf[c.tail] = [entry EXCEPT !.phase = c.phase],
                  !.tail = tail, !.count = @ + 1,
                  !.phase = IF tail = QueueSize - 1 THEN 1 - @ ELSE @]

(* A full ring drops the entry: host_if_process ignores RET_ERR_NO_SPACE.  *)
add_cqe(c, entry) ==
    LET tail == (c.tail + 1) % QueueSize
    IN  IF c.count >= QueueSize THEN c
        ELSE [c EXCEPT !.buf[c.tail] = [entry EXCEPT !.phase = c.phase],
                       !.tail = tail, !.count = @ + 1,
                       !.phase = IF tail = 0 THEN 1 - @ ELSE @]

(* Mutant: nlb is taken for the number of pages, not for one less.         *)
BugPages(lpn, k, v) == [l \in lpn..lpn + k - 2 |-> v]

(* Pages lpn .. lpn + k - 1 get v.                                         *)
Pages(lpn, k, v) == [l \in lpn..lpn + k - 1 |-> v]
Written(pages)   == [l \in LPN |-> IF l \in DOMAIN pages THEN pages[l] ELSE disk[l]]
InRange(cmd)     == cmd.lpn + cmd.n <= TotalLpns

(* process_write_cmd and process_write_zeroes_cmd: page by page, and an    *)
(* error leaves the pages before it written; ftl_write refuses a page out  *)
(* of range.                                                               *)
process_write_cmd(cmd, status, v) ==
    \/ /\ status = "SUCCESS" /\ InRange(cmd)
       /\ disk' = Written(Pages(cmd.lpn, cmd.n, v))
    \/ /\ status = "ERROR"
       /\ \E k \in 0..cmd.n - 1 : /\ cmd.lpn + k <= TotalLpns
                                  /\ disk' = Written([l \in cmd.lpn..cmd.lpn + k - 1 |-> v])

(* ftl_trim cuts a range that is too long and refuses nothing else.        *)
process_trim_cmd(cmd, status) ==
    status = "SUCCESS" /\ disk' = Written(Pages(cmd.lpn, cmd.n, Lost))

process_read_cmd(cmd, status) ==
    /\ status \in {"SUCCESS", "ERROR"} /\ (status = "SUCCESS" => InRange(cmd))
    /\ UNCHANGED disk

(* Admin commands: what is unknown is refused, with nothing changed.       *)
Answer(cmd) == IF cmd.known THEN "SUCCESS" ELSE "ERROR"
host_if_process_identify(cmd, status)     == status = Answer(cmd) /\ UNCHANGED feature
host_if_process_get_log_page(cmd, status) == status = Answer(cmd) /\ UNCHANGED feature
host_if_process_get_feature(cmd, status)  == status = Answer(cmd) /\ UNCHANGED feature
host_if_process_set_feature(cmd, status)  ==
    status = Answer(cmd) /\ feature' = IF cmd.known THEN cmd.val ELSE feature

(* "Acknowledged" stands for flush and for the admin commands that only    *)
(* return success (create and delete queue, abort, asynchronous event,     *)
(* firmware, format), "invalid" for unknown opcodes.                       *)
host_if_process_admin_cmd(cmd, status) ==
    \/ cmd.op = "IDENTIFY" /\ host_if_process_identify(cmd, status)
    \/ cmd.op = "GET_LOG_PAGE" /\ host_if_process_get_log_page(cmd, status)
    \/ cmd.op = "GET_FEATURE" /\ host_if_process_get_feature(cmd, status)
    \/ cmd.op = "SET_FEATURE" /\ host_if_process_set_feature(cmd, status)
    \/ cmd.op = "ACKNOWLEDGED" /\ status = "SUCCESS" /\ UNCHANGED feature
    \/ cmd.op = "INVALID" /\ status = "ERROR" /\ UNCHANGED feature

(* The switch of host_if_process.                                          *)
Executes(cmd, status) ==
    \/ host_if_process_admin_cmd(cmd, status) /\ UNCHANGED disk
    \/ /\ \/ cmd.op = "READ" /\ process_read_cmd(cmd, status)
          \/ cmd.op = "WRITE" /\ process_write_cmd(cmd, status, cmd.val)
          \/ cmd.op = "WRITE_ZEROES" /\ process_write_cmd(cmd, status, Zero)
          \/ cmd.op = "TRIM" /\ process_trim_cmd(cmd, status)
       /\ UNCHANGED feature

-----------------------------------------------------------------------------
(* What the host expects of a command that succeeds, from the description  *)
(* of the command set and not from the code.                               *)
Expected(dev, entry) ==
    LET cmd  == entry.cmd
        v    == CASE cmd.op = "WRITE" -> cmd.val [] cmd.op = "TRIM" -> Lost [] OTHER -> Zero
    IN  IF cmd.op \in {"WRITE", "WRITE_ZEROES", "TRIM"}
        THEN [dev EXCEPT !.disk = [l \in LPN |-> IF l >= cmd.lpn /\ l < cmd.lpn + cmd.n
                                                 THEN v ELSE dev.disk[l]]]
        ELSE IF cmd.op = "SET_FEATURE" /\ cmd.known THEN [dev EXCEPT !.feature = cmd.val]
        ELSE dev

AfterAll(dev, list) ==
    LET after[k \in 0..Len(list)] ==
            IF k = 0 THEN dev ELSE Expected(after[k - 1], list[k])
    IN  after[Len(list)]

NextCid == (cid + 1) % CidMod

(* host_if_submit_cmd of a command without identifier (cid = 0).  The host *)
(* has at most QueueSize commands it was not told the end of.              *)
Submit(cmd) ==
    /\ ~busy /\ Len(sq) < QueueSize /\ Len(host.waiting) < QueueSize
    /\ sq'   = Append(sq, [cmd |-> cmd, cid |-> cid])
    /\ cid'  = NextCid
    /\ host' = [host EXCEPT !.waiting = Append(@, cid)]
    /\ promised' = Expected(promised, [cmd |-> cmd, cid |-> cid])
    /\ UNCHANGED <<cq, busy, disk, feature, plp>>

(* host_if_process, called by the service loop: runs until the submission  *)
(* list is empty, and nothing else runs meanwhile.                         *)
ProcessBegin ==
    /\ ~busy /\ sq # <<>> /\ busy' = TRUE
    /\ UNCHANGED <<sq, cq, cid, disk, feature, plp, host, promised>>

(* Mutant: the newest command is taken first.                              *)
BugPicked == Len(sq)

(* The command of one turn of the loop: the head of the list.              *)
Picked == 1

(* A failure is reported to the host and may leave a part of the command   *)
(* done: what was promised then starts from what there is.                 *)
ProcessCmd(status) ==
    /\ busy /\ sq # <<>>
    /\ Executes(sq[Picked].cmd, status)
    /\ cq' = add_cqe(cq, [cid |-> sq[Picked].cid, status |-> status, phase |-> 0])
    /\ sq' = RemoveAt(sq, Picked)
    /\ busy' = (sq' # <<>>)
    /\ promised' = IF status = "SUCCESS" THEN promised
                   ELSE AfterAll([disk |-> disk', feature |-> feature'], sq')
    /\ UNCHANGED <<cid, plp, host>>

(* What the host may wait for after a completion of c: it takes it for one *)
(* of the commands with that identifier, if it waits for one.              *)
Told(waiting, c) ==
    LET named == {i \in 1..Len(waiting) : waiting[i] = c}
    IN  IF named = {} THEN {waiting} ELSE {RemoveAt(waiting, i) : i \in named}

(* host_if_poll_cq; the host expects the other phase once it has gone      *)
(* round the ring.                                                         *)
Poll ==
    /\ ~busy /\ cq.count > 0
    /\ cq' = [cq EXCEPT !.head = (@ + 1) % QueueSize, !.count = @ - 1]
    /\ \E rest \in Told(host.waiting, cq.buf[cq.head].cid) :
         host' = [waiting |-> rest,
                  phase   |-> IF cq.head = QueueSize - 1 THEN 1 - host.phase ELSE host.phase]
    /\ UNCHANGED <<sq, cid, busy, disk, feature, plp, promised>>

(* host_if_plp_simulate_power_loss and host_if_plp_recovery                *)
PowerLoss ==
    /\ ~busy /\ plp.unsafe < MaxPowerLoss
    /\ plp' = [plp EXCEPT !.dirty = TRUE, !.unsafe = @ + 1]
    /\ UNCHANGED <<sq, cq, cid, busy, disk, feature, host, promised>>

Recovered(p) == IF p.dirty THEN [p EXCEPT !.dirty = FALSE, !.cycles = @ + 1] ELSE p

PlpRecovery ==
    /\ ~busy /\ plp.cycles <= MaxPowerLoss + 1
    /\ plp' = Recovered(plp)
    /\ UNCHANGED <<sq, cq, cid, busy, disk, feature, host, promised>>

-----------------------------------------------------------------------------
Init ==
    /\ sq = <<>>
    /\ cq = [buf |-> [i \in Ring |-> NoCqe], head |-> 0, tail |-> 0, count |-> 0, phase |-> 1]
    /\ cid = 0 /\ busy = FALSE
    /\ disk = [l \in LPN |-> Lost] /\ feature = 0
    /\ plp = [dirty |-> FALSE, cycles |-> 1, unsafe |-> 0]
    /\ host = [waiting |-> <<>>, phase |-> 1]
    /\ promised = [disk |-> disk, feature |-> feature]

Process == ProcessBegin \/ \E s \in Status : ProcessCmd(s)

Next ==
    \/ \E cmd \in Cmd : Submit(cmd)
    \/ Process \/ Poll \/ PowerLoss \/ PlpRecovery

Spec == Init /\ [][Next]_vars

-----------------------------------------------------------------------------
Cqe == [cid : 0..CidMod - 1, status : Status, phase : {0, 1}]

TypeOK ==
    /\ sq \in Seq([cmd : Cmd, cid : 0..CidMod - 1]) /\ Len(sq) <= QueueSize
    /\ cq \in [buf : [Ring -> Cqe], head : Ring, tail : Ring, count : 0..QueueSize, phase : {0, 1}]
    /\ cid \in 0..CidMod - 1 /\ busy \in BOOLEAN
    /\ disk \in [LPN -> Data \cup {Zero, Lost}] /\ feature \in {0} \cup Settings
    /\ plp \in [dirty : BOOLEAN, cycles : Nat, unsafe : 0..MaxPowerLoss]

(* The entries of the ring the host has not polled, oldest first.          *)
Pending == [i \in 1..cq.count |-> cq.buf[(cq.head + i - 1) % QueueSize]]

(* Every accepted command is completed exactly once and in the order of    *)
(* submission: what the host waits for is what the ring holds followed by  *)
(* what the list holds.  g_cid_counter wraps, so a second command with an  *)
(* identifier still in use would be taken for the first.                   *)
CompletionsInOrder ==
    host.waiting = [i \in 1..cq.count |-> Pending[i].cid] \o [i \in 1..Len(sq) |-> sq[i].cid]

(* A host that reads the ring by the phase tag sees exactly the pending    *)
(* entries: they carry the phase of the lap the host is in, or the other   *)
(* one past the end of the ring.                                           *)
PhaseFollowsLap ==
    \A i \in 1..cq.count :
        Pending[i].phase = IF cq.head + i - 1 < QueueSize THEN host.phase ELSE 1 - host.phase

(* The commands take effect in the order of submission, each once, and on  *)
(* the pages the host named: what is on the disk now, with the commands    *)
(* still in the list added, is what the host was promised.                 *)
EffectsInOrder == promised = AfterAll([disk |-> disk, feature |-> feature], sq)
=============================================================================
