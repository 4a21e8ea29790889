-------------------------------- MODULE Ftl ---------------------------------
(***************************************************************************)
(* The page-mapped flash translation layer of modules/ftl/ftl.c, on top of *)
(* the device of Nand.                                                     *)
(*                                                                         *)
(* The FTL is not reentrant: one call runs at a time.  A call that loops   *)
(* over pages, victims or logical pages is a sequence of actions, one per  *)
(* iteration (pc says where it is, op what was called, job which blocks    *)
(* and which page its inner loop is at), so that a power cut or a snapshot *)
(* can be placed between two iterations.  reply is what the last call      *)
(* returned.                                                               *)
(*                                                                         *)
(* Left out: the write-ahead log, which is never opened by the firmware    *)
(* (ftl_wal_init has no caller, so wal_log_write and wal_log_trim return   *)
(* at once), the hybrid map mode, and the statistics counters, of which    *)
(* only gc_count influences a decision: see GcBegin.                       *)
(***************************************************************************)
EXTENDS GcSelect

CONSTANTS
    TotalLpns,        \* FTL_TOTAL_LPNS
    GcTrigger,        \* FTL_GC_TRIGGER_THRESHOLD
    WearDiff,         \* FTL_WEAR_DIFF_THRESHOLD
    StaticThreshold,  \* FTL_STATIC_WEAR_THRESHOLD
    StaticInterval,   \* FTL_STATIC_WEAR_INTERVAL
    Calls,            \* the entry points the clients use
    Algos,            \* algorithms passed to ftl_set_gc_algo
    TrimCounts,       \* counts passed to ftl_trim, no wrap of lpn + count
    Lost              \* what a mapped page that cannot be read holds

ASSUME FtlAssumption ==
    /\ TotalLpns \in Nat
    /\ GcTrigger \in Nat
    /\ WearDiff \in Nat
    /\ StaticThreshold \in Nat
    /\ StaticInterval \in Nat
    /\ Calls \subseteq {"write", "read", "trim", "gc", "algo", "disturb", "replace"}
    /\ Algos \subseteq GcAlgo
    /\ TrimCounts \subseteq Nat \ {0}
    /\ Lost \notin Data \cup {Blank}

VARIABLES
    l2p,                     \* l2p_table
    reverse_map,             \* reverse_map
    cur_write_block,
    cur_write_page,
    gc_algo,
    write_since_last_check,
    pc, op, job, reply

ftlVars == <<l2p, reverse_map, cur_write_block, cur_write_page, gc_algo,
             write_since_last_check, pc, op, job, reply>>
vars    == <<nand, ftlVars>>

LPN   == 0..(TotalLpns - 1)
NoPpn == <<TotalBlocks, 0>>   \* FTL_INVALID_PPN
NoLpn == TotalLpns            \* FTL_INVALID_LPN

RetCode == {"OK", "NOT_MAPPED", "BAD_BLOCK", "OVERWRITE", "NO_SPACE", "INTERNAL", "PARAM"}
NoOp    == [call |-> "none", lpn |-> 0, end |-> 0, data |-> Blank]
NoJob   == [src |-> 0, dst |-> 0, page |-> 0]

TypeOK ==
    /\ nand \in NandType
    /\ l2p \in [LPN -> PPN \cup {NoPpn}]
    /\ reverse_map \in [PPN -> LPN \cup {NoLpn}]
    /\ cur_write_block \in Block
    /\ cur_write_page \in 0..PagesPerBlock
    /\ gc_algo \in GcAlgo
    /\ write_since_last_check \in Nat
    /\ pc \in {"idle", "write", "retry", "trigger", "gc", "reloc", "trim"}
    /\ op \in [call : Calls \cup {"none"}, lpn : Nat, end : Nat, data : Data \cup {Blank}]
    /\ job \in [src : Block, dst : Block, page : 0..PagesPerBlock]
    /\ reply \in [ret : RetCode, data : Data \cup {Blank}]

-----------------------------------------------------------------------------
(* Allocation.                                                             *)

(* ftl_find_next_free_block: user blocks from start up, then every block   *)
(* below start, spare blocks included when start lies among them.          *)
FreeFrom(n, start) == {b \in UserBlock : b >= start /\ n.state[b] = "FREE"}
FreeBelow(n, start) == {b \in Block : b < start /\ n.state[b] = "FREE"}

FindsNextFree(n, start, b) ==
    \/ b \in FreeFrom(n, start) /\ \A c \in FreeFrom(n, start) : b <= c
    \/ /\ FreeFrom(n, start) = {}
       /\ b \in FreeBelow(n, start) /\ \A c \in FreeBelow(n, start) : b <= c

NoFreeBlock(n, start) == FreeFrom(n, start) = {} /\ FreeBelow(n, start) = {}

(* ftl_alloc_phy_page: x is the page it returns.                           *)
Allocates(x) ==
    \/ cur_write_page < PagesPerBlock /\ x = <<cur_write_block, cur_write_page>>
    \/ /\ cur_write_page >= PagesPerBlock
       /\ x[2] = 0
       /\ FindsNextFree(nand, cur_write_block + 1, x[1])

AllocationFails ==
    cur_write_page >= PagesPerBlock /\ NoFreeBlock(nand, cur_write_block + 1)

(* Mutant: the page handed out stays the next one.                         *)
BugNoAdvance(x) == cur_write_block' = x[1] /\ cur_write_page' = x[2]

AdvanceTo(x) == cur_write_block' = x[1] /\ cur_write_page' = x[2] + 1

-----------------------------------------------------------------------------
(* Returning to the caller.                                                *)

Return(code, d) ==
    /\ pc' = "idle"
    /\ op' = NoOp
    /\ job' = NoJob
    /\ reply' = [ret |-> code, data |-> d]

Busy(where) == pc' = where /\ UNCHANGED reply

Begin(where, o) ==
    /\ pc = "idle"
    /\ op' = o
    /\ Busy(where)
    /\ UNCHANGED <<nand, l2p, reverse_map, cur_write_block, cur_write_page,
                   gc_algo, write_since_last_check, job>>

-----------------------------------------------------------------------------
(* Garbage collection: gc_do_recycle, called by the loop of ftl_write and  *)
(* by ftl_trigger_gc.                                                      *)

NeedsGc == nand_get_free_block_count(nand) <= GcTrigger

(* What the caller does with the code gc_do_recycle returned: ftl_write    *)
(* tests its loop again or gives up with NO_SPACE, ftl_trigger_gc returns  *)
(* the code itself.                                                        *)
GcEnd(code) ==
    IF op.call = "write" /\ code = "OK"
    THEN Busy("write") /\ job' = NoJob /\ UNCHANGED op
    ELSE Return(IF op.call = "write" THEN "NO_SPACE" ELSE code, Blank)

CallTriggerGc ==
    /\ "gc" \in Calls
    /\ Begin("trigger", [NoOp EXCEPT !.call = "gc"])

(* Victim selection.  d-Choices samples blocks by gc_count; the counter is *)
(* not kept, any residue may come up.                                      *)
GcVictim(b) ==
    \E g \in IF gc_algo = "D_CHOICES" THEN 0..(TotalBlocks - 1) ELSE {0} :
        gc_select_victim_block(nand, gc_algo, cur_write_block, g, b)

GcBegin ==
    /\ pc = "trigger" \/ (pc = "write" /\ NeedsGc)
    /\ \/ \E b \in Block :
            /\ GcVictim(b)
            /\ job' = [NoJob EXCEPT !.src = b]
            /\ Busy("gc")
            /\ UNCHANGED op
       \/ (\A b \in Block : ~GcVictim(b)) /\ GcEnd("NO_SPACE")
    /\ UNCHANGED <<nand, l2p, reverse_map, cur_write_block, cur_write_page,
                   gc_algo, write_since_last_check>>

(* The page the inner loop is at, and whether it is one to move.           *)
Here == <<job.src, job.page>>
(* Mutant: logical page 0 is taken for an unmapped one.                    *)
BugMovable == Here \in nand.page_valid /\ reverse_map[Here] \notin {NoLpn, 0}

Movable == Here \in nand.page_valid /\ reverse_map[Here] # NoLpn

(* Mutant: the loop does not advance.                                      *)
BugNextPage == UNCHANGED <<job, pc, op, reply>>

NextPage == job' = [job EXCEPT !.page = @ + 1] /\ UNCHANGED <<pc, op, reply>>

(* Mutants: the reverse map misses the copy, or keeps the old page.        *)
BugForgetsCopy(old, new) ==
    /\ l2p' = [l2p EXCEPT ![reverse_map[old]] = new]
    /\ reverse_map' = [reverse_map EXCEPT ![old] = NoLpn]
BugKeepsOld(old, new) ==
    /\ l2p' = [l2p EXCEPT ![reverse_map[old]] = new]
    /\ reverse_map' = [reverse_map EXCEPT ![new] = reverse_map[old]]

(* Redirect the logical page stored at old to the copy at new.             *)
Remap(old, new) ==
    /\ l2p' = [l2p EXCEPT ![reverse_map[old]] = new]
    /\ reverse_map' = [reverse_map EXCEPT ![new] = reverse_map[old], ![old] = NoLpn]

GcSkip ==
    /\ pc = "gc" /\ job.page < PagesPerBlock
    /\ ~Movable
    /\ NextPage
    /\ UNCHANGED <<nand, l2p, reverse_map, cur_write_block, cur_write_page,
                   gc_algo, write_since_last_check>>

(* One valid page is copied to a fresh one.  The old copy stays valid in   *)
(* the device until the victim is erased.                                  *)
GcMove ==
    /\ pc = "gc" /\ job.page < PagesPerBlock
    /\ Movable
    /\ \E x \in PPN :
          /\ Allocates(x)
          /\ AdvanceTo(x)
          /\ \/ /\ nand_page_write_ret(nand, x) = "OK"
                /\ nand' = nand_page_write(nand, x, nand.media[Here])
                /\ Remap(Here, x)
                /\ NextPage
             \/ /\ nand_page_write_ret(nand, x) # "OK"
                /\ GcEnd("INTERNAL")
                /\ UNCHANGED <<nand, l2p, reverse_map>>
    /\ UNCHANGED <<gc_algo, write_since_last_check>>

GcOutOfSpace ==
    /\ pc = "gc" /\ job.page < PagesPerBlock
    /\ Movable
    /\ AllocationFails
    /\ GcEnd("NO_SPACE")
    /\ UNCHANGED <<nand, l2p, reverse_map, cur_write_block, cur_write_page,
                   gc_algo, write_since_last_check>>

GcErase ==
    /\ pc = "gc" /\ job.page = PagesPerBlock
    /\ \E code \in {"OK", "BAD_BLOCK"} :
          Erases(nand, job.src, nand', code) /\ GcEnd(code)
    /\ UNCHANGED <<l2p, reverse_map, cur_write_block, cur_write_page,
                   gc_algo, write_since_last_check>>

-----------------------------------------------------------------------------
(* Wear levelling.                                                         *)

(* wear_leveling_check.  cold_block is the last USED block at which the    *)
(* ascending scan met a new minimum of the erase counts.                   *)
NotBad(n) == {b \in UserBlock : n.state[b] # "BAD"}

ColdBlock(n, b) ==
    LET NewMinimum(c) == \A x \in NotBad(n) : x < c => n.erase_count[x] > n.erase_count[c]
        Cold == {c \in NotBad(n) : n.state[c] = "USED" /\ NewMinimum(c)}
    IN  b \in Cold /\ \A c \in Cold : c <= b

WearGap(n) == \E b, c \in NotBad(n) : n.erase_count[b] - n.erase_count[c] > WearDiff

wear_leveling_check(n) ==
    IF WearGap(n) /\ (\E b \in UserBlock : ColdBlock(n, b))
    THEN nand_mark_cold_block(n, CHOOSE b \in UserBlock : ColdBlock(n, b))
    ELSE n

(* static_wear_leveling_check: the data of src, the first most erased USED *)
(* block, go to dst, the first least erased FREE block.  The difference is *)
(* taken in uint32_t, so it is also "large" when dst is the more erased.   *)
StaticPair(n, src, dst) ==
    LET Used == {b \in UserBlock : n.state[b] = "USED" /\ n.erase_count[b] > 0}
        Free == {b \in UserBlock : n.state[b] = "FREE"}
        More(x, y) == n.erase_count[x] > n.erase_count[y]
        Less(x, y) == n.erase_count[x] < n.erase_count[y]
    IN  /\ FirstBest(Used, More, src)
        /\ FirstBest(Free, Less, dst)
        /\ (n.erase_count[src] - n.erase_count[dst]) % CntMod > StaticThreshold

(* The relocation loop shared by static_wear_leveling_check and            *)
(* ftl_handle_read_disturb: each page goes to the same offset of dst, a    *)
(* page that cannot be programmed there is skipped.                        *)
RelocSkip ==
    /\ pc = "reloc" /\ job.page < PagesPerBlock
    /\ ~Movable \/ nand_page_write_ret(nand, <<job.dst, job.page>>) # "OK"
    /\ NextPage
    /\ UNCHANGED <<nand, l2p, reverse_map, cur_write_block, cur_write_page,
                   gc_algo, write_since_last_check>>

(* Mutant: the page is copied and its source dropped, the maps are not     *)
(* updated.                                                                *)
BugRelocMove ==
    /\ pc = "reloc" /\ job.page < PagesPerBlock
    /\ Movable
    /\ LET x == <<job.dst, job.page>>
       IN  /\ nand_page_write_ret(nand, x) = "OK"
           /\ nand' = nand_mark_page_invalid(
                          nand_page_write(nand, x, nand.media[Here]), Here)
    /\ NextPage
    /\ UNCHANGED <<l2p, reverse_map, cur_write_block, cur_write_page, gc_algo,
                   write_since_last_check>>

RelocMove ==
    /\ pc = "reloc" /\ job.page < PagesPerBlock
    /\ Movable
    /\ LET x == <<job.dst, job.page>>
       IN  /\ nand_page_write_ret(nand, x) = "OK"
           /\ nand' = nand_mark_page_invalid(
                          nand_page_write(nand, x, nand.media[Here]), Here)
           /\ Remap(Here, x)
    /\ NextPage
    /\ UNCHANGED <<cur_write_block, cur_write_page, gc_algo, write_since_last_check>>

(* The source is erased whether or not every page left it.                 *)
RelocErase ==
    /\ pc = "reloc" /\ job.page = PagesPerBlock
    /\ \E code \in {"OK", "BAD_BLOCK"} : Erases(nand, job.src, nand', code)
    /\ Return("OK", Blank)
    /\ UNCHANGED <<l2p, reverse_map, cur_write_block, cur_write_page,
                   gc_algo, write_since_last_check>>

-----------------------------------------------------------------------------
(* Bad blocks: ftl_replace_bad_block.                                      *)

(* The logical pages the reverse map finds in b move to the same offsets   *)
(* of the spare block r.  No two pages of b belong to one logical page     *)
(* (ReverseMapSound).                                                      *)
ReplaceBlock(b, r) ==
    /\ nand' = nand_replace_bad_block(nand, b, r)
    /\ l2p' = [l \in LPN |->
                  IF \E pg \in Page : reverse_map[<<b, pg>>] = l
                  THEN <<r, CHOOSE pg \in Page : reverse_map[<<b, pg>>] = l>>
                  ELSE l2p[l]]
    /\ reverse_map' = [x \in PPN |->
                  IF x[1] = b THEN NoLpn
                  ELSE IF x[1] = r /\ reverse_map[<<b, x[2]>>] # NoLpn
                       THEN reverse_map[<<b, x[2]>>]
                       ELSE reverse_map[x]]
    /\ cur_write_block' = IF cur_write_block = b THEN r ELSE cur_write_block

NoSpareBlock == \A r \in ReservedBlock : ~AllocatesReserved(nand, r)

KeepMap == UNCHANGED <<nand, l2p, reverse_map, cur_write_block>>

CallReplaceBadBlock(b) ==
    /\ "replace" \in Calls
    /\ pc = "idle"
    /\ \/ /\ nand.state[b] # "FREE"
          /\ \E r \in ReservedBlock :
                AllocatesReserved(nand, r) /\ ReplaceBlock(b, r) /\ Return("OK", Blank)
       \/ nand.state[b] = "FREE" /\ KeepMap /\ Return("PARAM", Blank)
       \/ nand.state[b] # "FREE" /\ NoSpareBlock /\ KeepMap /\ Return("NO_SPACE", Blank)
    /\ UNCHANGED <<cur_write_page, gc_algo, write_since_last_check>>

-----------------------------------------------------------------------------
(* Reading: ftl_read.  Meeting a bad block triggers its replacement, but   *)
(* the read itself reports the bad block.                                  *)

CallRead(l) ==
    /\ "read" \in Calls
    /\ pc = "idle"
    /\ LET x    == l2p[l]
           code == IF x = NoPpn THEN "NOT_MAPPED" ELSE nand_page_read_ret(nand, x)
       IN  /\ code # "BAD_BLOCK"
           /\ Return(code, IF code = "OK" THEN nand.media[x] ELSE Blank)
    /\ KeepMap
    /\ UNCHANGED <<cur_write_page, gc_algo, write_since_last_check>>

CallReadBadBlock(l) ==
    /\ "read" \in Calls
    /\ pc = "idle"
    /\ l2p[l] # NoPpn
    /\ nand_page_read_ret(nand, l2p[l]) = "BAD_BLOCK"
    /\ \/ \E r \in ReservedBlock : AllocatesReserved(nand, r) /\ ReplaceBlock(l2p[l][1], r)
       \/ NoSpareBlock /\ KeepMap
    /\ Return("BAD_BLOCK", Blank)
    /\ UNCHANGED <<cur_write_page, gc_algo, write_since_last_check>>

-----------------------------------------------------------------------------
(* Writing: ftl_write.                                                     *)

CallWrite(l, d) ==
    /\ "write" \in Calls
    /\ Begin("write", [NoOp EXCEPT !.call = "write", !.lpn = l, !.data = d])

AboutToProgram == pc = "retry" \/ (pc = "write" /\ ~NeedsGc)

(* Page x was programmed: the old copy is invalidated, both maps are       *)
(* updated, and the wear levelling checks run.                             *)
Commit(x) ==
    LET old   == l2p[op.lpn]
        wrote == nand_page_write(nand, x, op.data)
        fresh == IF old = NoPpn THEN wrote ELSE nand_mark_page_invalid(wrote, old)
        due   == write_since_last_check + 1 >= StaticInterval
    IN  \E dev \in {wear_leveling_check(fresh)} :
        /\ nand' = dev
        /\ l2p' = [l2p EXCEPT ![op.lpn] = x]
        /\ reverse_map' = [y \in PPN |-> IF y = x THEN op.lpn
                                         ELSE IF y = old THEN NoLpn
                                         ELSE reverse_map[y]]
        /\ write_since_last_check' = IF due THEN 0 ELSE write_since_last_check + 1
        /\ \/ \E src, dst \in UserBlock :
                /\ due /\ StaticPair(dev, src, dst)
                /\ job' = [src |-> src, dst |-> dst, page |-> 0]
                /\ Busy("reloc")
                /\ UNCHANGED op
           \/ /\ ~due \/ \A src, dst \in UserBlock : ~StaticPair(dev, src, dst)
              /\ Return("OK", Blank)

(* A second attempt that meets a bad block again gives up, as does any     *)
(* attempt that finds the page valid already.                              *)
WriteProgram ==
    /\ AboutToProgram
    /\ IF AllocationFails
       THEN /\ Return("NO_SPACE", Blank)
            /\ KeepMap
            /\ UNCHANGED <<cur_write_page, write_since_last_check>>
       ELSE \E x \in PPN :
              LET code == nand_page_write_ret(nand, x)
              IN  /\ Allocates(x)
                  /\ AdvanceTo(x)
                  /\ \/ code = "OK" /\ Commit(x)
                     \/ /\ code # "OK" /\ (code = "BAD_BLOCK" => pc = "retry")
                        /\ Return(code, Blank)
                        /\ UNCHANGED <<nand, l2p, reverse_map, write_since_last_check>>
    /\ UNCHANGED gc_algo

(* The first attempt met a bad block: ftl_replace_bad_block, then a second *)
(* allocation and a second attempt.                                        *)
WriteMeetsBadBlock ==
    /\ pc = "write" /\ ~NeedsGc
    /\ \E x \in PPN :
          /\ Allocates(x)
          /\ nand_page_write_ret(nand, x) = "BAD_BLOCK"
          /\ cur_write_page' = x[2] + 1
          /\ \/ /\ \E r \in ReservedBlock : AllocatesReserved(nand, r) /\ ReplaceBlock(x[1], r)
                /\ Busy("retry")
                /\ UNCHANGED <<op, job>>
             \/ NoSpareBlock /\ KeepMap /\ Return("NO_SPACE", Blank)
    /\ UNCHANGED <<gc_algo, write_since_last_check>>

-----------------------------------------------------------------------------
(* Trimming: ftl_trim, one logical page per step.                          *)

TrimEnd(l, count) == IF l + count > TotalLpns THEN TotalLpns ELSE l + count

CallTrim(l, count) ==
    /\ "trim" \in Calls
    /\ Begin("trim", [NoOp EXCEPT !.call = "trim", !.lpn = l, !.end = TrimEnd(l, count)])

TrimPage ==
    /\ pc = "trim" /\ op.lpn < op.end
    /\ LET x == l2p[op.lpn]
       IN  IF x = NoPpn THEN UNCHANGED <<nand, l2p, reverse_map>>
           ELSE /\ nand' = nand_mark_page_invalid(nand, x)
                /\ l2p' = [l2p EXCEPT ![op.lpn] = NoPpn]
                /\ reverse_map' = [reverse_map EXCEPT ![x] = NoLpn]
    /\ op' = [op EXCEPT !.lpn = @ + 1]
    /\ UNCHANGED <<cur_write_block, cur_write_page, gc_algo,
                   write_since_last_check, pc, job, reply>>

TrimDone ==
    /\ pc = "trim" /\ op.lpn = op.end
    /\ Return("OK", Blank)
    /\ KeepMap
    /\ UNCHANGED <<cur_write_page, gc_algo, write_since_last_check>>

-----------------------------------------------------------------------------
(* The remaining entry points.                                             *)

(* ftl_handle_read_disturb: the destination is the first free block, which *)
(* may be the block being filled.                                          *)
CallHandleReadDisturb ==
    /\ "disturb" \in Calls
    /\ pc = "idle"
    /\ \/ \E src, dst \in Block :
            /\ src \in ReadDisturbed(nand)
            /\ FindsNextFree(nand, 0, dst)
            /\ op' = [NoOp EXCEPT !.call = "disturb"]
            /\ job' = [src |-> src, dst |-> dst, page |-> 0]
            /\ Busy("reloc")
       \/ /\ ReadDisturbed(nand) # {}
          /\ NoFreeBlock(nand, 0)
          /\ Return("NO_SPACE", Blank)
    /\ KeepMap
    /\ UNCHANGED <<cur_write_page, gc_algo, write_since_last_check>>

CallSetGcAlgo(a) ==
    /\ "algo" \in Calls
    /\ pc = "idle"
    /\ gc_algo' = a
    /\ KeepMap
    /\ UNCHANGED <<cur_write_page, write_since_last_check, pc, op, job, reply>>

(* A bound of the model, not of the code: behaviours may stop at the erase *)
(* that would take a block past MaxErase.                                  *)
Worn(b) == nand.state[b] # "BAD" /\ nand.erase_count[b] = MaxErase

AtLifetimeEnd ==
    pc \in {"gc", "reloc"} /\ job.page = PagesPerBlock /\ Worn(job.src)

LifetimeEnds == AtLifetimeEnd /\ UNCHANGED vars

-----------------------------------------------------------------------------
(* nand_init on a new media file, then ftl_init.                           *)
Init ==
    /\ NandInit
    /\ l2p = [l \in LPN |-> NoPpn]
    /\ reverse_map = [x \in PPN |-> NoLpn]
    /\ cur_write_block \in Block
    /\ FindsNextFree(nand, 0, cur_write_block)
    /\ cur_write_page = 0
    /\ gc_algo = "GREEDY"
    /\ write_since_last_check = 0
    /\ pc = "idle" /\ op = NoOp /\ job = NoJob
    /\ reply = [ret |-> "OK", data |-> Blank]

GcStep    == GcBegin \/ GcSkip \/ GcMove \/ GcOutOfSpace \/ GcErase
RelocStep == RelocSkip \/ RelocMove \/ RelocErase
WriteStep == WriteProgram \/ WriteMeetsBadBlock
TrimStep  == TrimPage \/ TrimDone

(* The steps of the call in progress, as opposed to the arrival of one.    *)
Internal == GcStep \/ RelocStep \/ WriteStep \/ TrimStep

Arrival ==
    \/ \E l \in LPN, d \in Data : CallWrite(l, d)
    \/ \E l \in LPN : CallRead(l) \/ CallReadBadBlock(l)
    \/ \E l \in LPN, c \in TrimCounts : CallTrim(l, c)
    \/ CallTriggerGc
    \/ \E a \in Algos : CallSetGcAlgo(a)
    \/ \E b \in Block : CallReplaceBadBlock(b)
    \/ CallHandleReadDisturb

Next == Internal \/ Arrival \/ LifetimeEnds

Spec == Init /\ [][Next]_vars

(* A call that was made runs on until it returns.                          *)
FairSpec == Spec /\ WF_vars(Internal)

-----------------------------------------------------------------------------
(* What the host finds on a logical page.                                  *)
Content(l) ==
    IF l2p[l] = NoPpn THEN Blank
    ELSE IF nand_page_read_ret(nand, l2p[l]) = "OK" THEN nand.media[l2p[l]] ELSE Lost

Disk == INSTANCE LogicalDisk WITH
            Lpn  <- LPN,
            disk <- [l \in LPN |-> Content(l)],
            done <- op.call = "write" /\ pc = "reloc"

(* The FTL implements the logical disk: collecting garbage and levelling   *)
(* wear move data around without the host ever noticing, ftl_write returns *)
(* RET_OK exactly when its data can be read back, and a failed ftl_write   *)
(* leaves the previous data readable.                                      *)
ImplementsDisk == Disk!DiskSpec

(* The reverse map never names a page that is not the current copy: what   *)
(* gc_do_recycle, the relocation loops and ftl_replace_bad_block find      *)
(* there is a page they may redirect.                                      *)
ReverseMapSound ==
    \A x \in PPN : reverse_map[x] # NoLpn => l2p[reverse_map[x]] = x

(* Every mapped logical page is on a readable page that the reverse map    *)
(* knows of, so the loops that look for data to move before an erase see   *)
(* it.                                                                     *)
MappedPagesReachable ==
    \A l \in LPN : l2p[l] # NoPpn =>
        /\ nand_page_read_ret(nand, l2p[l]) = "OK"
        /\ reverse_map[l2p[l]] = l

(* A block the allocator may hand out holds no valid page: BLOCK_FREE is   *)
(* reached by an erase or by a counter that dropped to zero, and both must *)
(* mean that the block is empty.                                           *)
FreeBlocksEmpty ==
    \A b \in Block : nand.state[b] = "FREE" => ValidPagesOf(nand, b) = {}

(* valid_page_cnt is the number of valid pages of the block.               *)
CountExact ==
    \A b \in Block : nand.valid_page_cnt[b] = Cardinality(ValidPagesOf(nand, b))

(* The pages of the block being filled that are still to be handed out are *)
(* not valid.  Otherwise collecting this very block could move a page to   *)
(* an offset the scan has already passed, and erase it.                    *)
FrontierClean ==
    \A pg \in Page : pg >= cur_write_page =>
        <<cur_write_block, pg>> \notin nand.page_valid

(* When gc_do_recycle or a relocation is about to erase its block, no      *)
(* logical page is left on it.                                             *)
ErasesOnlyDeadBlocks ==
    pc \in {"gc", "reloc"} /\ job.page = PagesPerBlock =>
        \A l \in LPN : l2p[l] = NoPpn \/ l2p[l][1] # job.src

(* When garbage collection starts on a block while some user block has a   *)
(* page to reclaim, the block it chose has one too: a round of the loop of *)
(* ftl_write gains space when space can be gained.  (Windowed and          *)
(* d-choices look at a part of the device and may choose a full block.)    *)
VictimHasSpace ==
    LET HasSpace(b) == nand.state[b] = "USED" /\ nand.valid_page_cnt[b] < PagesPerBlock
    IN  /\ pc = "gc" /\ job.page = 0
        /\ gc_algo \notin {"WINDOWED", "D_CHOICES"}
        /\ \E b \in UserBlock : HasSpace(b)
        => HasSpace(job.src)

(* Every algorithm finds a victim when there is one: on no device the FTL  *)
(* can bring about does one of them give up with RET_ERR_NO_SPACE while a  *)
(* user block is in use, whatever gc_count is and wherever the window      *)
(* lies, and the choice is always one block.                               *)
VictimFound ==
    /\ pc = "trigger" \/ (pc = "write" /\ NeedsGc)
    /\ \E b \in UserBlock : nand.state[b] = "USED"
    => \A g \in 0..(TotalBlocks - 1) :
          LET Chosen == {b \in Block :
                  gc_select_victim_block(nand, gc_algo, cur_write_block, g, b)}
          IN  \E b \in Chosen : Chosen = {b}

(* Every call returns, unless its next erase is past the modelled          *)
(* lifetime: the loops over pages, victims and logical pages all end.      *)
CallsReturn == pc # "idle" ~> (pc = "idle" \/ AtLifetimeEnd)
=============================================================================
