# TLA+ models of ftl-firmware

A verification development for the SSD firmware reference implementation in this
repository: the NAND simulator and its error correction, the flash translation
layer (FTL), snapshots and restarts, the manager with its message queues, the DMA
engine on its threads, the host interface, and the NVMe controller with its
NVMe/TCP, vfio-user and vhost-user front ends. TLC checks the models on small
instances; TLAPS proves the main facts about all parts but the codes of `Ecc` and `Dif` for every size.

## 1. Inventory

| Part | State | Operations | Interacts with |
|---|---|---|---|
| NAND device `modules/nand` | `g_phy_blocks` (state, erase count, valid counter, `page_valid`), spare counter, the mapped media file | page read/write, block erase, invalidate, mark bad, mark cold, spare allocation, replacement, retries, `nand_init` scan | called by the FTL; `g_nand_mutex` inside single calls |
| ECC and CRC `modules/nand` | spare area of a page, `ecc_algo` | CRC-32, Hamming, BCH and LDPC codes, protected page reads and writes | page calls |
| FTL core `modules/ftl` | `l2p_table`, `reverse_map`, write point, algorithm, counters | read, write, trim, GC (six victim algorithms), dynamic and static wear levelling, bad-block replacement, read-disturb relocation | calls NAND; called by host_if, the front ends and `main.c`, with no lock of its own |
| FTL persistence | snapshot file, write-ahead log | save, load | main loop and heartbeat thread |
| IPC `ipc/msg_queue.c` | one priority list per module | send, receive, count | manager |
| Manager `modules/manager` | health, errors and heartbeat of each module, thermal and power state | error reports, watchdog, recovery, temperature and power management | message queue, service loop |
| Threads, DMA | 32 thread slots; channels with a mutex each | create, start, join; configure, start, pause, resume, stop, wait, release | every transfer runs in a thread of its own |
| Host interface `modules/host_if` | submission list, completion ring, features, power-loss counters | submit, process, poll, simulated power loss; protection information (DIF) | FTL |
| NVMe controller | registers, queues, pending event requests, event ring, sensors, firmware slots | admin and I/O commands, events, firmware download and activation, reset | front ends |
| NVMe/TCP target | 4 connections, one write buffer | PDUs, data in capsules and after R2T | FTL |
| vfio-user, vhost-user | DMA or memory table, queues or vrings | messages of the client, doorbells or kicks, completions, interrupts | guest memory, FTL |
| UFS, RAID, write-ahead log, hybrid map | | | not reached by the running program, see section 5 |
| log, utils, OS layer | | helpers | all |

Hard behaviours: GC and relocation move data between the instants the host sees;
several counters and maps describe the same fact and can drift apart; blocks go
bad in the middle of a move; a power cut loses all of `g_phy_blocks`; counters
are unsigned and wrap; the FTL is called from several threads without a lock;
a DMA channel's state is read outside its mutex; rings are shared with a guest
that runs at the same time; data of several connections meet in one buffer.
`PROJECT.json` lists the hazards line by line, with the properties for each.

What makes the parts correct:
- NAND: valid data is stable, survives a power cut, bad blocks stay bad; what a
  protected read returns is what was written.
- FTL: the host sees a plain array of pages (`LogicalDisk`); what is erased holds
  no current data; the reverse map only names current copies; calls end.
- Manager: the overall health is current, recovery is neither spurious nor missed.
- DMA: no write to a buffer that was handed back, COMPLETE means complete.
- Queues and front ends: every command is executed and answered exactly once, in
  order where the ring promises it, with the right data, and is announced.

## 2. Modules

| Module | Models |
|---|---|
| `Nand` | the device as one record `nand`; every `nand_*` call is an operator from record to record, its early returns an operator `..._ret`; `NandSpec` lets a caller make any call, with power cuts |
| `Ecc`, `Dif` | one page whose cells lose bits, with its spare area; the codes as functions on sets of bits; protection information of the host interface |
| `GcSelect` | `gc_select_*` as predicates "b is the block the scan returns" |
| `Ftl` | the FTL, one call at a time, one action per loop iteration (`pc`, `op`, `job` are the control state of the call in progress) |
| `LogicalDisk` | the abstract specification: calls take effect at one instant or fail without effect |
| `FtlPower` | `Ftl` with power cuts, the snapshot file, and the start-up sequence of `main.c` |
| `MsgQueue`, `Manager` | the queues as operators; the manager on top of them with `Boot` and `Shutdown` of `main.c` |
| `Dma` | channels, thread slots and the client's call in progress |
| `HostIf` | submission list, completion ring and the commands on the FTL's pages |
| `NvmeController` | event requests, events, temperature, firmware slots, queues and resets |
| `NvmeTcp` | connections as two streams of PDUs, the target's handlers and a host |
| `VfioUser`, `VhostUser`, `Prp`, `FrontEnds` | the front ends for virtual machines, each with its guest; how both find a command's data; the main loop that polls them |
| `MCNand`, `MCFtl`, `MCEcc`, `MCFrontEnds` | model-checking definitions: view, symmetry, small instances |
| `NandProofs`, `FtlProofs`, `ManagerProofs`, `DmaProofs`, `NvmeProofs`, `HostProofs`, `TcpProofs`, `FrontEndProofs` | theorems about the module of that name; `FtlProofs` about `Ftl` and `FtlPower` |

### FTL and power

`CallX` actions are the entry of `ftl_X` (argument checks that
return at once without a change are not actions). `ftl_write` is `CallWrite`,
then rounds of `GcBegin`/`GcSkip`/`GcMove`/`GcErase` while `NeedsGc`, then
`WriteProgram`, whose `Commit` is everything after the program: invalidation of
the old page, both maps, `wear_leveling_check`, and, when due, the choice of
`static_wear_leveling_check`, whose loop is `RelocSkip`/`RelocMove`/`RelocErase`.
The same three actions are the loop of `ftl_handle_read_disturb`. `ftl_trim` is
one `TrimPage` per logical page. `ReplaceBlock` is the whole of
`ftl_replace_bad_block`; its loop over pages cannot be interrupted by anything
the model has and is one step. `ftl_secure_erase` is a sequence of `ftl_write`
and `ftl_trim` and has no action of its own.

`FtlPower` adds the snapshot file (`header`, `table`) and a writer that runs
beside the FTL: `SaveOpen` empties the file as `fopen(..., "wb")` does,
`SaveHeader` and `SaveEntry` copy the write point and the map piece by piece,
because the heartbeat thread takes no lock. `Restart` is a power cut at that
moment followed by `nand_init` (`RescannedDevice`), `ftl_init` and
`ftl_load_snapshot`; `up` is false when `ftl_init` gives up. `clean` is a history
variable used by one property only.

Abstractions. A physical page is `<<block, page>>`; a payload is a member of
`Data`; scores are compared by cross multiplication instead of doubles; the read
counter of a block is not kept (any USED user block can be the most read one);
`gc_count` is a nondeterministic residue; `rand()` in the erase of a worn block
is a choice. Counters of type `uint32_t` are kept modulo `CntMod`.

### The other parts

- `Ecc`: a word is the set of its 1 bits, so exclusive or is symmetric difference.
  `Retention` flips a cell; `WriteWithCrc` programs the page and `OobWrite` its
  spare area, with `PowerCycle` possible in between. Reads are operators.
- `Manager`: the clock counts its own calls, so a time stamp is kept as its age,
  capped at the largest threshold it is compared with. `Process` is the whole of
  `manager_process`: it drains the queue, then health, thermal and power checks.
- `Dma`: a step of a transfer thread is one critical section or the copy between
  two; a client call that reads the state and then locks is two steps. `Careful`
  is an assumption on the client: it reconfigures, restarts or releases a channel
  only when its thread has ended (see section 6).
- `HostIf`: `ProcessBegin` and one `ProcessCmd` per command. A call of the FTL may
  fail at any page; which calls do is the subject of `Ftl`. The host keeps at most
  `QueueSize` commands outstanding.
- `NvmeController`: `Admin` and `Io` take one command each, `Finish` is the end of
  `nvme_ctrl_process` (events to pending requests, temperature). The host does not
  reuse the identifier of a pending request, also across a reset; `out` is what the
  host waits for, kept apart from what the controller holds.
- `NvmeTcp`: a PDU is handled whole; the unit of data is a page of a write or a
  range of a trim. `owner` and `lost` are history variables: the connection whose
  transfer is whole in the shared buffer, and the commands of each connection whose
  transfer the next command with data has replaced.
- `VfioUser`: doorbells are posted and arrive in order; all other messages are
  synchronous. `process_queue_commands` is one action per command, so the guest
  works on its rings in between. An area of guest memory is mapped at an address
  that `gpa_to_hva` accepts or at one that it refuses; `mapped` is what the client
  knows from the replies. `VhostUser` treats `process_vring` likewise; an entry of its
  memory table is NULL, leads to the client's area, or to memory of an earlier client.
- `Prp`: the walk as a function from a transfer and the mapped pages to the pairs
  (unit, address) it moves; compared with where a driver keeps the data.

Identifiers starting with `Bug` are mutants: the definition next to them with a
plausible slip. They are used by no specification; each is substituted for its
original to see that a property notices.

## 3. Runs

| Run | Instance | Shows |
|---|---|---|
| `nand_device` | 2 blocks x 2 pages, 1 spare, any call, power cuts | data stability, power-cut recovery, bad blocks |
| `ecc` | a page of 2 bytes, 3 payloads, up to 2 wrong bits, both page codes | a CRC read never returns wrong data; codewords are restored within the reach of their codes; protection information detects lost bits and misplaced blocks, also in the rest of a transfer and where reference tags wrap |
| `ftl_core` | 5 x 2, 2 spares, 1 erase per block, all six algorithms | refinement of `LogicalDisk`, the facts GC relies on, victims with space are found |
| `ftl_any` | 3 x 2, all calls, wear gaps, failing erases, weak fairness | typing, and every call returns |
| `ftl_disturb` | 4 x 3, read-disturb relocation | counterexample: GC erases the last copy of a page after a relocation into the block being filled (`findings`) |
| `power` | 4 x 2, writes, a snapshot writer, power cuts anywhere | the reverse map is sound after any recovery; a restart on an up-to-date snapshot keeps the disk, and later garbage collection keeps it readable |
| `manager` | 2 modules, queue of 3, 3 priorities, time-outs of 2 to 4 | delivery order, overall health, no spurious and no missed recovery |
| `dma` | 2 channels, 2 thread slots, transfers of 1 and 2 chunks | no late copy, COMPLETE is whole, calls end, also when slots run out |
| `host_if` | rings of 2, identifiers modulo 2, 2 pages | completions and effects in order over many laps, phase tag |
| `nvme` | 3 identifiers, 2 pending requests, 2 events, 2 firmware slots | a command is answered once and none is dropped, also through resets and with all slots taken; firmware stays bootable |
| `nvme_tcp` | 2 connections with 2 identifiers each, commands of up to 2 pages in PDUs of 1, and writes that are too long | reads complete, writes faithful; exactly one answer, except to a write or trim whose transfer is replaced |
| `front_ends` | vfio-user with an admin and an I/O queue; a vring of 2, indices modulo 4 | no command lost, doubled or unannounced; doorbells and descriptors are served. Its assumptions `VfioTransfersFaithful` and `VhostTransfersOfTwoPages` check the PRP walk on transfers of up to three pages |

Bounds. `MaxErase` bounds the erases of a block; behaviours may stop there
(`LifetimeEnds`); a restart resets the counts, as `nand_init` does. `ftl_core` is bounded to a wear difference
below `WearDiff`, i.e. to lives in which `nand_mark_cold_block` is not called:
beyond it `valid_page_cnt` is no longer a count, and
`FreeBlocksEmpty`, `MappedPagesReachable` and the refinement do not hold. With
three user blocks and two logical pages GC has to move pages, to choose the block
being filled, and to run several rounds in one write. `PoweredView` identifies
states that differ only in the payload and spare area of pages that are not
valid, which nothing in `Ftl` reads.
Rings of two entries and identifier and index ranges of two to four wrap within
a few commands, so full, empty and wrapped rings all occur; two actors (channels,
connections, queues) are the fewest that can disturb each other, and the code
treats them alike. Two pages and PDUs of one page make a transfer that takes
several pieces. In `nvme_tcp` a connection has two commands out, so a capsule comes
in the middle of another one's transfer; `SmallHost` keeps the run finite in
minutes: while two connections are open each has one command out, and connections
are closed one at a time. The theorems of `TcpProofs` do not assume it. Two pages of two bytes keep all single and double bit errors in
`ecc`; on so short a page the CRC-32 has no collision, on a page of 4096 bytes
`CrcReadFaithful` holds up to one. `FrontEnds` checks one front end at a time
(`Configs`): they share no variable and no code but the FTL. `CHECK_DEADLOCK` is
off in that run, because a vhost-user back end that has met a wild access stops.

Fairness. `Ftl`: only that the call in progress takes its next step; the FTL runs
in its caller's thread and waits for nothing. `Manager`: the service loop calls
`manager_process`. `Dma`: threads and the call in progress are scheduled.
`NvmeTcp`, `VfioUser`, `VhostUser`: the main loop polls, and the host or guest
consumes what it is sent. Arrival of calls and commands is never fair.
`NvmeController` has no fairness: the design wants `nvme_ctrl_process` called again
and again (`docs/详细设计文档.md:844`), but nothing in the program calls it (section 6),
so that an event reaches a pending request is not claimed.

## 4. Proofs

All theorems hold for every value of the constants that satisfies the named
assumptions of the modules; a further premise is in the theorem and explained
here. Each rests on an inductive invariant that TLC checked first.

`NandProofs` (premise-free). `DeviceInv` adds to the types that a page which is
marked valid has the magic number in its spare area, so a rescan finds every
readable page again (`PowerCutKeepsReadablePages`), no call programs a page that stays valid
(`ValidPagesKeepPayload`), and no call but `nand_init` takes a block out of BAD
(`BadBlocksStayBad`). The effect of each `nand_*` operator is a lemma here, stated
page by page and block by block, and cited by all proofs about the FTL.

`FtlProofs`, its first part (premise-free, all calls and failures).
- `TypeCorrect`: `TypeInv` is `TypeOK` with `OpInv`, which ties `pc` to the call
  in progress; without it the lookups of `l2p` by `op.lpn` are not typed.
- `ReverseMapCorrect`: each handler that enters a page into the reverse map
  redirects its logical page in the same step and clears the entry of the page
  it replaces; soundness makes the entries of one block name distinct logical
  pages, which is what `ftl_replace_bad_block` needs.

`FtlProofs`, its second part, the core (premises `CoreCalls` and `[]Level`). `Level` says that the erase
counts differ by less than `FTL_WEAR_DIFF_THRESHOLD`: beyond it
`wear_leveling_check` overwrites the counter of a block (section 6) and none of
these facts hold. `CoreCalls` leaves out read-disturb relocation, which breaks
`ErasesOnlyDeadBlocks` (`ftl_disturb`), and bad-block replacement. The invariant
`CoreInv` has five parts:
- `BaseInv`: types and the sound reverse map;
- `SpaceInv`: counters are exact, FREE blocks are empty, and no logical page is on
  the part of the current block that is still to be handed out. This last,
  `FrontierUnmapped`, is weaker than the `FrontierClean` that the run checks,
  because a restart revives pages there; it is what the erase needs;
- `DataInv`: mapped pages are readable, hold data and are named by the reverse map;
- `ScanInv`: the pages of the source that a move has passed hold no logical page;
  the target of a relocation is another block that is not being filled, and free
  from the scan position on;
- `CallInv`: which call a step works for.

From it follow `NoPageLost`, `CountersExact`, `FreeBlocksHoldNothing`,
`NothingLiveErased`, `FrontierStaysClean`, `VictimsAreFound` (each of the
algorithms finds exactly one victim while a user block is in use; the best block of a
scan exists and is unique because the candidates are ordered by score and then by
place, and the algorithms that start at a window wrap around to it), and, with `CatAgeWeight > 0` (the code
has `FTL_GC_CAT_AGE_WEIGHT` = 100), `VictimsHaveSpace`. `FtlImplementsDisk` is the step simulation: under
`CoreInv` each action maps to a step of `LogicalDisk` or to a stutter, a call
takes effect in `Commit` or `TrimPage`. `YoungDeviceKeepsData` discharges
`[]Level` for `MaxErase <= WearDiff`, the regime of `ftl_core`.

`FtlProofs`, its third part, power cuts and restarts.
- `ReverseMapSurvivesPowerCuts`: the file holds only values the tables once held;
  `RebuiltReverseMap` enters a page only for a logical page that the loaded table
  maps to it, so it is sound for any table, torn or old.
- `CleanRestart`: `StoreInv` adds that valid pages carry the magic number, so the
  rescan revives what the snapshot names.
- `CleanRestartsLoseNothing`: `clean => CoreInv` is inductive, through `Restart`
  too: this is why `CoreInv` may only ask for `FrontierUnmapped`.

`ManagerProofs` (premise-free). `ManagerInv`: the queues hold well-formed messages
in order of priority, the records of the modules are typed, and while the manager
is up the overall health is that of the worst module that was started.
- `HealthIsWorst`: `manager_process` and `manager_update_module_health` compute it
  anew; every other call changes only time stamps.
- `RecoveriesAreEarned`: the loop that drains the queue is a recursive function; by
  induction over its turns, a running module after `k` messages either runs on
  with one error more for each of its reports among them, or its errors and these
  reports have reached the limit (`Told`). The watchdog adds at most one.
- `MessagesInOrder`: the place the search of `msg_queue_send` stops at exists, what is in
  front of it is at least as urgent and what is behind it less urgent. The lane of a
  priority is a recursive function along the list; with the message of another
  priority in the list it takes the same values one position later, with one of its own it
  ends with that message.

`DmaProofs` (premise `Careful`, as in the run). `DmaInv`: a thread that has not
returned belongs to a channel that is allocated and names it, what is done and
what is left add up to the transfer, and a thread meets ERROR only while the
client that aborted it waits in `thread_join`; the two theorems are `CopiesEndBeforeCalls` and
`CompletionsAreWhole`.

`NvmeProofs` (premise-free). `NvmeInv`: the identifiers in the two completion
queues and among the pending requests are all different and together those the host
waits for, and the firmware slots, events and sensors are typed. The loop that hands events to requests posts them
in the order of their slots; that the ranks of the pending slots number `0..n-1`,
each once, is the counting argument behind it. Theorems
`CommandsAnsweredOnce`, `NoCommandIsDropped`, `FirmwareStaysBootable`,
`ControllerTypeCorrect`.

`HostProofs`.
- `EffectsAreInOrder` (premise-free): what the commands in the list do in turn,
  `AfterAll`, is a function defined by recursion on its own domain. That a command
  at the end of the list is applied last, and that the first one may be applied
  ahead of the rest, is proved by induction over the positions of the list; no
  invariant beyond the type of the disk is needed.
- `RingInv` ties tail, head and count of the completion ring to the
  phases on both sides; `OrderInv` matches what the host waits for with ring and list and
  makes the identifiers in use the last ones before the counter. `PhaseTagsFollowLaps` is premise-free;
  `CompletedOnceInOrder` needs `QueueSize <= CidMod`: with a queue of more than
  65536 entries, which the 32-bit `queue_size` admits, identifiers would repeat.

`TcpProofs`. `LinkInv` describes each connection in the phase the host sees (closed,
greeting, ready): capsules on their way belong to commands that wait, each once; the
transfer under way is for a command that waits and has no capsule left; and of a
command that is answered, the stream to the host holds the data PDUs in order of
their offsets, continuing what the host has, and then one response. `MoveInv`
follows the data of a write or trim on a connection on which no transfer was
replaced: `conn.xfer` agrees with its command, either one
ready-to-transfer is outstanding or the remaining data PDUs are in the stream one
behind the other, and the owner's buffer holds the first `len` units of the payload.
That pieces of `MaxH2C` units cover a payload without gap or overlap, the last one
shorter, is in lemmas about quotients.
- `ReadsAreComplete`, `OneResponseEach`, `WritesAreFaithful` (premise-free, any
  number of commands on a connection). The second is the safety half of
  `AnsweredExactlyOnce`. The third is about writes whose data no other transfer of
  the shared buffer came between (`owner`), on a connection that has replaced none of
  its transfers (`lost`): the target keeps one transfer per connection and does not
  look at the identifier of a data PDU (section 6), so data of a replaced write can
  complete the one that replaced it, which is then answered as done without its data
  on its pages.

`FrontEndProofs`.
- `DescriptorsNeverLost` (premise `~Restarts`, section 6). `VhostInv`: the first
  entries of the list that starts at `last_avail_idx`, of the list that starts
  at the used index the driver has seen, and the dropped descriptors are pairwise
  distinct and together the descriptors in flight (`Placed`); a scan stays within
  what was available when it began. The arithmetic of indices modulo 2^16 and
  slots modulo the size of the ring is in lemmas about remainders.
- `InterruptsNeverLost` (premise-free). `IrqInv`: as long as the controller is
  disabled the rings are blank and no loop runs, and once it is enabled MSI-X is
  on with a descriptor, so that a loop that wrote a completion ends with an
  interrupt; a queue created later starts with a blank ring.
- `CommandsNeverLost` (premise-free, from `CommandsAccounted`). `AccInv` has four
  parts beside the shapes of the tables. `Lane`, for a queue that is live: the
  commands between the device's head and the guest's tail, and the identifiers
  that the phase tag shows from the guest's head on, are together the commands
  that are out, each once, and only the first that waits may have run (`Spread`);
  exactly the entries up to the device's `cq_tail` look new, and what the device has
  been told lies between its head and the guest's tail. `StageInv`, for a queue in
  any stage: one that is not live has nothing out, and, while it is
  created or deleted, a completion ring that shows nothing and, once it is created,
  a device side that starts where the guest looks. `Errand`: each admin command that
  is out is about a queue of its own, and once its completion is shown the device
  side is as the guest will assume; this is what makes a queue live with
  pointers that agree. `BellsInv`: doorbells under way announce more than the
  device knows, in growing order, so that none takes the tail back. Room in the
  rings follows by counting: distinct identifiers of `Cid(x)`, fewer than entries.

Only model-checked:
- liveness (`CallsEnd`, `DoorbellServed` and the others, and the second half of
  `AnsweredExactlyOnce`): it rests on fairness and `ENABLED`;
- `CrcReadFaithful`, `CodewordsRestored`, `DifDetects`, the PRP walk: what the folds
  over bits and bytes compute. A recursive function over positions can be
  reasoned about by induction on a set of numbers, as in `EffectsAreInOrder`; that a
  polynomial code detects and corrects errors is another kind of argument.

## 5. Not modelled

- The write-ahead log: nothing calls `ftl_wal_*`, so the log is never open and
  `wal_log_write` returns at once. The hybrid map: `ftl_hot_cold_migration` has no
  caller and reads and writes go through `l2p_table` only. RAID: buffers in memory
  used by self-tests that are never called. UFS: only initialisation and capacity
  are used outside its tests.
- Two snapshot writers at the same time.
- `dma_deinit`, the calls of the thread pool that DMA does not use, the raw
  setters of the manager that nothing calls.
- Contents of identify and log pages, PCI configuration space, feature bits,
  energy, latency and performance figures, logging, and the thin OS wrappers.

Next: the wait-for relations of `Dma` without the premise of a careful client.

## 6. What modelling showed

Things the models have because the code does so, and that a reader of the
properties should know. Where a property would not hold without a premise, the
premise is in the property or is a constant, named here.

FTL and NAND
- `nand_init` on an existing media file forgets which blocks were bad, and a block
  whose pages were all invalidated is FREE without an erase.
- `nand_mark_cold_block` sets `valid_page_cnt` to 1, and the next invalidation
  frees a block with live pages.
- The gap of static wear levelling is an unsigned difference (`ftl.c:656`): it
  wraps when the free block is the more worn one, and data moves there.
- After a restart all programmed pages are valid again; with no free block left
  `ftl_init` fails and the firmware does not start (`up = FALSE` in `FtlPower`).
- A snapshot that is cut short is loaded as far as it goes, while
  `ftl_load_snapshot` reports an error.
- The Hamming page code is the exclusive or of all bytes: a flipped bit is
  repaired only in byte 0; elsewhere `nand_page_read` flips the same bit of byte 0
  as well and returns `RET_OK`. Two flips in one column go unnoticed. The BCH page
  decoder reports a correction and makes none. `nand_page_read` uses the Hamming
  decoder also for pages whose spare area holds a BCH code. The CRC of
  `nand_page_read_with_crc` catches all of this. The codeword decoders have no
  caller; the LDPC one corrects one data bit, not `NAND_LDPC_T` = 3.
- `crc16_t10pi_table` (`host_if.c:1540`) is linear, but its entries with bit 6 or
  7 are not those of the polynomial 0x8BB7 that `host_if.c:1538` names (entry 64
  is 0x883D, not 0xD883). It detects the errors `DifDetects` is about.

DMA and manager
- Thread slots are never released, so the engine can start 32 transfers.
- A channel that is still READY can be released or configured again while its
  thread has not begun, by `dma_transfer_sync` after its time-out too; without
  `Careful` that thread then works for the next user. A pause that races with the
  end of a transfer leaves the channel PAUSED with no thread.
- A recovered module is READY, and the watchdog looks only at RUNNING ones: it is
  not supervised again. A manual SLEEP is turned into IDLE by the next round.

NVMe
- `host_if`: a completion is dropped when the ring is full; the host of the model
  keeps at most `QueueSize` commands outstanding.
- `nvme_ctrl_process` and `nvme_ctrl_write_cc` have no caller. The front ends
  call the admin handler themselves and send the completion of an event request
  at once (`nvme_tcp_target.c:698`, `vfio_user_nvme.c:789`,
  `vhost_user_nvme.c:908`) although the handler marks it as suspended
  (`nvme_controller.c:538`). A reset keeps pending requests and queued events; an
  event is lost when the ring is full. Replacing the image of the running slot
  leaves no slot marked RUNNING.
- NVMe/TCP: the four connections share `g_io_write_buf`; two writes whose data
  PDUs interleave overwrite each other. `WritesFaithful` has the premise that no
  other transfer came between (`owner`). A connection has one transfer as well: a
  capsule with data that comes before the data of the one before it takes its place
  (`nvme_tcp_target.c:501`), and the replaced command is never answered, or its data
  end the other's transfer. `AnsweredExactlyOnce` and `WritesFaithful` name that
  exception (`lost`). Errors of the controller are answered as success
  (`nvme_tcp_target.c:702`). A trim discards one page more than the length field of
  a range says (`nvme_tcp_target.c:569`, `819`). A unit of the buffer that a trim
  finds overwritten is parsed as any range. Left out: the number of blocks and of ranges is
  taken modulo 2^16 and 2^8 (lines 469 and 538), so 65536 blocks are 0 and 256 ranges
  are 0; the model has smaller commands, and no reads that exceed the buffer.
- vfio-user: a command whose completion entry is not mapped is executed again at
  the next doorbell, a doorbell that meets an unmapped submission ring is spent,
  and there is no check for a full completion ring (the guest never has as many
  commands out as entries). `DMA_MAP` is answered with success for any address, but
  `gpa_to_hva` refuses 0, 0xCCCCCCCCCCCCCCCC and everything above 4 GiB
  (`vfio_user_nvme.c:128`): doorbells of a queue with a ring there are never served.
  The states are in the run; `DoorbellServed` is for rings the client has mapped below
  4 GiB (`RingsMapped`). A `DMA_MAP` without a descriptor gets private memory of the
  back end and success as well (`vfio_user_nvme.c:1395`); the guest would never see what
  is written there. The client of the model passes a descriptor.
- vhost-user: a memory region that cannot be mapped makes the count of regions
  and their places disagree: an entry within the count may be an offset from NULL, or,
  as only the first `mem_region_count` mappings are given up with a table or a
  connection (`vhost_user_nvme.c:560`, `1240`), a mapping of an earlier client. The model
  stops there (`Crash`). With three regions: the second is the only one mapped, the
  client leaves, and the next maps the first and the third. Descriptors with an unmapped
  buffer are skipped without a used entry: `DescriptorsAccounted` counts them as
  `skipped`, so it shows that nothing else is lost, not that they return.
  `GET_VRING_BASE` returns the base of the start, so a restarted ring would run its
  commands again (`Restarts = FALSE` excludes it).
- PRP: in transfers of more than two pages vhost-user puts the second page at
  `prp2`, where the list is; vfio-user follows the list. Both return `RET_OK`
  with a short transfer when `prp2` is not page aligned.
