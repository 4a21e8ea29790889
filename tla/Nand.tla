-------------------------------- MODULE Nand --------------------------------
(***************************************************************************)
(* The simulated NAND device of modules/nand/nand.c: the per-block table   *)
(* g_phy_blocks, the counter of spare blocks in g_nand_dev, and the mapped *)
(* media file, which is the only part that survives a power cut.           *)
(*                                                                         *)
(* The device is one record, nand, so that a caller that makes several     *)
(* nand_* calls in one handler can chain their effects: every state        *)
(* changing call is an operator from a record to a record, its guard (the  *)
(* early returns of the C function) is an operator of its own, and the     *)
(* actions at the end of the module apply them to the variable.            *)
(*                                                                         *)
(*   state           FREE, USED or BAD, per block                          *)
(*   erase_count     erases of the block                                   *)
(*   valid_page_cnt  the counter of valid pages, a uint32_t (mod CntMod)   *)
(*   page_valid      the pages whose page_valid byte is 1                  *)
(*   media           the payload last programmed into each page            *)
(*   oob             the pages whose spare area holds NAND_OOB_MAGIC       *)
(*   reserved_count  spare blocks nand_alloc_reserved_block may still give *)
(*                                                                         *)
(* A physical page is the pair <<block, page>>; the code packs it into     *)
(* block * NAND_PAGES_PER_BLOCK + page, a bijection for page below         *)
(* NAND_PAGES_PER_BLOCK.  Payload bytes, ECC, energy and latency figures   *)
(* are left out: a payload is a member of Data.  The read counter of a     *)
(* block is left out too: see ReadDisturbed.                               *)
(***************************************************************************)
EXTENDS Integers, FiniteSets

CONSTANTS
    TotalBlocks,     \* NAND_TOTAL_BLOCKS
    ReservedBlocks,  \* NAND_RESERVED_BLOCKS, the last blocks of the device
    PagesPerBlock,   \* NAND_PAGES_PER_BLOCK
    EraseThreshold,  \* erases after which an erase may fail
    CntMod,          \* modulus of the uint32_t counters
    MaxErase,        \* bound: the modelled lifetime, in erases per block
    Data,            \* payloads a host may write
    Blank            \* what a page that was never programmed holds

ASSUME NandAssumption ==
    /\ PagesPerBlock \in Nat \ {0}
    /\ ReservedBlocks \in Nat
    /\ TotalBlocks \in Nat
    /\ ReservedBlocks < TotalBlocks
    /\ EraseThreshold \in Nat
    /\ MaxErase \in Nat
    /\ CntMod \in Nat
    /\ PagesPerBlock < CntMod
    /\ Blank \notin Data

VARIABLE nand

Block         == 0..(TotalBlocks - 1)
UserBlock     == 0..(TotalBlocks - ReservedBlocks - 1)
ReservedBlock == (TotalBlocks - ReservedBlocks)..(TotalBlocks - 1)
Page          == 0..(PagesPerBlock - 1)
PPN           == Block \X Page
BlockState    == {"FREE", "USED", "BAD"}

NandType ==
    [state          : [Block -> BlockState],
     erase_count    : [Block -> 0..MaxErase],
     valid_page_cnt : [Block -> 0..(CntMod - 1)],
     page_valid     : SUBSET PPN,
     media          : [PPN -> Data \cup {Blank}],
     oob            : SUBSET PPN,
     reserved_count : Nat]

PagesOf(b)         == {<<b, pg>> : pg \in Page}
ValidPagesOf(n, b) == {pg \in Page : <<b, pg>> \in n.page_valid}

-----------------------------------------------------------------------------
(* Counters of the width the code gives them.                              *)

Inc(c) == IF c = CntMod - 1 THEN 0 ELSE c + 1
Dec(c) == IF c = 0 THEN CntMod - 1 ELSE c - 1

-----------------------------------------------------------------------------
(* nand_init.  On a new media file some blocks are born bad; on an existing *)
(* one every block starts FREE and each page whose spare area carries the   *)
(* magic number becomes valid again, whatever the bad-block marks say.      *)

FreeReserved(st) == {b \in ReservedBlock : st[b] = "FREE"}

NewDevice(bad) ==
    LET st == [b \in Block |-> IF b \in bad THEN "BAD" ELSE "FREE"]
    IN  [state          |-> st,
         erase_count    |-> [b \in Block |-> 0],
         valid_page_cnt |-> [b \in Block |-> 0],
         page_valid     |-> {},
         media          |-> [x \in PPN |-> Blank],
         oob            |-> {},
         reserved_count |-> Cardinality(FreeReserved(st))]

RescannedDevice(n) ==
    [state          |-> [b \in Block |-> IF \E pg \in Page : <<b, pg>> \in n.oob
                                         THEN "USED" ELSE "FREE"],
     erase_count    |-> [b \in Block |-> 0],
     valid_page_cnt |-> [b \in Block |->
                            Cardinality({pg \in Page : <<b, pg>> \in n.oob})],
     page_valid     |-> n.oob,
     media          |-> n.media,
     oob            |-> n.oob,
     reserved_count |-> ReservedBlocks]

-----------------------------------------------------------------------------
(* The early returns of the page and block calls.                          *)

nand_page_read_ret(n, x) ==
    IF n.state[x[1]] = "BAD" THEN "BAD_BLOCK"
    ELSE IF x \notin n.page_valid THEN "NOT_MAPPED" ELSE "OK"

(* Mutant: the test for a page that is already written is missing.         *)
BugOverwrites(n, x) == IF n.state[x[1]] = "BAD" THEN "BAD_BLOCK" ELSE "OK"

nand_page_write_ret(n, x) ==
    IF n.state[x[1]] = "BAD" THEN "BAD_BLOCK"
    ELSE IF x \in n.page_valid THEN "OVERWRITE" ELSE "OK"

(* Mutant: the spare area is not written.                                  *)
BugNoSpareArea(n, x, d) ==
    [n EXCEPT !.media[x] = d,
              !.page_valid = @ \cup {x},
              !.valid_page_cnt[x[1]] = Inc(@),
              !.state[x[1]] = "USED"]

(* nand_page_write that returned RET_OK: payload and spare area go to the  *)
(* media, the page becomes valid and its block USED.                       *)
nand_page_write(n, x, d) ==
    [n EXCEPT !.media[x] = d,
              !.oob = @ \cup {x},
              !.page_valid = @ \cup {x},
              !.valid_page_cnt[x[1]] = Inc(@),
              !.state[x[1]] = "USED"]

(* Mutants: the page_valid bytes, or the counter, are not reset.           *)
BugEraseKeepsValid(n, b) ==
    [n EXCEPT !.erase_count[b] = @ + 1, !.valid_page_cnt[b] = 0, !.state[b] = "FREE"]
BugEraseKeepsCount(n, b) ==
    [n EXCEPT !.erase_count[b] = @ + 1, !.page_valid = @ \ PagesOf(b), !.state[b] = "FREE"]

(* nand_block_erase that returned RET_OK.  Neither payload nor spare area  *)
(* of the media is touched.                                                *)
nand_block_erase(n, b) ==
    [n EXCEPT !.erase_count[b] = @ + 1,
              !.valid_page_cnt[b] = 0,
              !.page_valid = @ \ PagesOf(b),
              !.state[b] = "FREE"]

(* nand_block_erase of a worn block that failed: the block turns BAD and   *)
(* keeps its page_valid bytes and its counter.                             *)
nand_block_wear_out(n, b) == [n EXCEPT !.state[b] = "BAD"]

(* Mutant: a bad block is erased like any other.                           *)
BugErasesBad(n, b, m, code) ==
    n.erase_count[b] < MaxErase /\ m = nand_block_erase(n, b) /\ code = "OK"

(* nand_block_erase leaves device m and returns code.  A block past the    *)
(* threshold fails with probability NAND_HIGH_WEAR_BAD_RATIO, a            *)
(* nondeterministic choice here.  The modelled lifetime ends before the    *)
(* erase that would take a block past MaxErase.                            *)
Erases(n, b, m, code) ==
    \/ n.state[b] = "BAD" /\ m = n /\ code = "BAD_BLOCK"
    \/ /\ n.state[b] # "BAD" /\ n.erase_count[b] > EraseThreshold
       /\ m = nand_block_wear_out(n, b) /\ code = "BAD_BLOCK"
    \/ /\ n.state[b] # "BAD" /\ n.erase_count[b] < MaxErase
       /\ m = nand_block_erase(n, b) /\ code = "OK"

(* nand_mark_page_invalid, its two silent early returns included: a block  *)
(* whose counter reaches zero becomes FREE without an erase.               *)
nand_mark_page_invalid(n, x) ==
    IF n.state[x[1]] = "BAD" \/ x \notin n.page_valid THEN n
    ELSE LET c == Dec(n.valid_page_cnt[x[1]])
         IN  [n EXCEPT !.page_valid = @ \ {x},
                       !.valid_page_cnt[x[1]] = c,
                       !.state[x[1]] = IF c = 0 THEN "FREE" ELSE @]

(* nand_mark_block_bad: the mark is written over the spare area of page 0, *)
(* whose magic number it keeps.                                            *)
nand_mark_block_bad(n, b) ==
    [n EXCEPT !.state[b] = "BAD",
              !.valid_page_cnt[b] = 0,
              !.page_valid = @ \ PagesOf(b),
              !.oob = @ \cup {<<b, 0>>}]

(* nand_mark_cold_block: the counter is set to 1 so that garbage           *)
(* collection prefers the block; its pages stay valid.                     *)
nand_mark_cold_block(n, b) ==
    IF n.state[b] = "USED" /\ n.valid_page_cnt[b] > 1
    THEN [n EXCEPT !.valid_page_cnt[b] = 1] ELSE n

(* nand_get_free_block_count: spare blocks are not counted.                *)
nand_get_free_block_count(n) ==
    Cardinality({b \in UserBlock : n.state[b] = "FREE"})

(* Mutant: the counter of spare blocks is not tested.                      *)
BugSpareUncounted(n, r) ==
    /\ r \in ReservedBlock
    /\ n.state[r] = "FREE"
    /\ \A c \in ReservedBlock : n.state[c] = "FREE" => r <= c

(* nand_alloc_reserved_block gives out r, the first FREE spare block, and  *)
(* only decrements the counter: r stays FREE until it is programmed.       *)
AllocatesReserved(n, r) ==
    /\ n.reserved_count > 0
    /\ r \in ReservedBlock
    /\ n.state[r] = "FREE"
    /\ \A c \in ReservedBlock : n.state[c] = "FREE" => r <= c

(* The pages nand_replace_bad_block copies from b to the spare block r: a  *)
(* BAD block cannot be read, and a page valid in r cannot be programmed.   *)
CopiedPages(n, b, r) ==
    IF n.state[b] = "BAD" THEN {}
    ELSE {pg \in Page : <<b, pg>> \in n.page_valid /\ <<r, pg>> \notin n.page_valid}

CopyPages(n, b, r, pgs) ==
    [n EXCEPT !.media = [x \in PPN |-> IF x[1] = r /\ x[2] \in pgs
                                       THEN n.media[<<b, x[2]>>] ELSE n.media[x]],
              !.oob = @ \cup {<<r, pg>> : pg \in pgs},
              !.page_valid = @ \cup {<<r, pg>> : pg \in pgs},
              !.valid_page_cnt[r] = (@ + Cardinality(pgs)) % CntMod,
              !.state[r] = IF pgs = {} THEN @ ELSE "USED"]

(* nand_replace_bad_block, once the spare block r is allocated.            *)
nand_replace_bad_block(n, b, r) ==
    LET spared == [n EXCEPT !.reserved_count = @ - 1]
        copied == CopyPages(spared, b, r, CopiedPages(n, b, r))
    IN  IF n.state[b] = "BAD" THEN copied ELSE nand_mark_block_bad(copied, b)

(* nand_check_read_disturb: a USED user block whose read counter passed    *)
(* NAND_READ_DISTURB_THRESHOLD.  Only an erase resets the counter, every   *)
(* USED block has held a readable page since its last erase, and the host  *)
(* chooses how often it reads, so any USED user block can be the one.      *)
ReadDisturbed(n) == {b \in UserBlock : n.state[b] = "USED"}

-----------------------------------------------------------------------------
(* The device on its own, driven through nand.h by a caller that may make  *)
(* any call.  A call that only fails changes nothing and has no action.    *)

CONSTANT MaxInitBad  \* bound: blocks that are bad on a new media file

NandInit == \E bad \in SUBSET Block :
                /\ Cardinality(bad) <= MaxInitBad
                /\ nand = NewDevice(bad)

PageWrite(x, d) ==
    /\ nand_page_write_ret(nand, x) = "OK"
    /\ nand' = nand_page_write(nand, x, d)

BlockErase(b) == \E code \in {"OK", "BAD_BLOCK"} : Erases(nand, b, nand', code)

MarkPageInvalid(x) == nand' = nand_mark_page_invalid(nand, x)

MarkBlockBad(b) == nand' = nand_mark_block_bad(nand, b)

MarkColdBlock(b) == nand' = nand_mark_cold_block(nand, b)

AllocReservedBlock ==
    /\ \E r \in ReservedBlock : AllocatesReserved(nand, r)
    /\ nand' = [nand EXCEPT !.reserved_count = @ - 1]

ReplaceBadBlock(b) ==
    /\ nand.state[b] # "FREE"
    /\ \E r \in ReservedBlock :
          /\ AllocatesReserved(nand, r)
          /\ nand' = nand_replace_bad_block(nand, b, r)

(* nand_page_write_with_retry: a page that is already valid stays valid,   *)
(* so the retries end with the whole block marked bad.                     *)
PageWriteWithRetry(x, d) ==
    nand' = IF nand_page_write_ret(nand, x) = "OK"
            THEN nand_page_write(nand, x, d)
            ELSE nand_mark_block_bad(nand, x[1])

(* nand_page_read_with_retry: a page that cannot be read condemns its block. *)
PageReadWithRetry(x) ==
    /\ nand_page_read_ret(nand, x) # "OK"
    /\ nand' = nand_mark_block_bad(nand, x[1])

(* A power cut or nand_deinit, then nand_init on the same media file.      *)
PowerCycle == nand' = RescannedDevice(nand)

NandNext ==
    \/ \E x \in PPN, d \in Data : PageWrite(x, d) \/ PageWriteWithRetry(x, d)
    \/ \E x \in PPN : MarkPageInvalid(x) \/ PageReadWithRetry(x)
    \/ \E b \in Block : \/ BlockErase(b) \/ MarkBlockBad(b) \/ MarkColdBlock(b)
                        \/ ReplaceBadBlock(b)
    \/ AllocReservedBlock
    \/ PowerCycle

NandSpec == NandInit /\ [][NandNext]_nand

-----------------------------------------------------------------------------
(* A page that stays valid keeps its payload: nothing but an invalidation  *)
(* or an erase gives nand_page_write, or the copy loop of                  *)
(* nand_replace_bad_block, access to it.                                   *)
ValidPagesStable ==
    [][\A x \in nand.page_valid \cap nand'.page_valid : nand'.media[x] = nand.media[x]]_nand

(* What can be read now can be read after a power cut at this moment: the  *)
(* scan of nand_init finds every page that is valid on a usable block, with *)
(* the payload it has now.                                                 *)
ReadableSurvivesPowerCut ==
    LET n == RescannedDevice(nand)
    IN  \A x \in PPN : nand_page_read_ret(nand, x) = "OK" =>
            nand_page_read_ret(n, x) = "OK" /\ n.media[x] = nand.media[x]

(* While the device is powered a bad block stays bad and nothing in it     *)
(* becomes readable, erases and replacements included.                     *)
BadUntilRestart ==
    [][nand' = RescannedDevice(nand) \/
       \A b \in Block : nand.state[b] = "BAD" =>
           nand'.state[b] = "BAD" /\ ValidPagesOf(nand', b) \subseteq ValidPagesOf(nand, b)]_nand

=============================================================================
