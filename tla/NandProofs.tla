----------------------------- MODULE NandProofs -----------------------------
(***************************************************************************)
(* Theorems about Nand, for every geometry of the device, and the lemmas   *)
(* about its calls that the proofs of the layers above use.                *)
(***************************************************************************)
EXTENDS Nand, FiniteSetTheorems, WellFoundedInduction, TLAPS

-----------------------------------------------------------------------------
(* A set of numbers that is not empty and has a bound has a largest member. *)
LEMMA LargestExists ==
    ASSUME NEW N \in Nat, NEW T \in SUBSET (0..N), T # {}
    PROVE  \E l \in T : \A k \in T : k <= l
<1> DEFINE mirror == {N - l : l \in T}
           less   == {ss \in Nat \X Nat : ss[1] < ss[2]}
<1>1. T \subseteq Nat /\ \A l \in T : N - l \in Nat
  OBVIOUS
<1>2. mirror \subseteq Nat /\ mirror # {}
  BY <1>1
<1>3. less = OpToRel(<, Nat)
  BY DEF OpToRel
<1>4. IsWellFoundedOn(less, Nat)
  BY <1>3, NatLessThanWellFounded
<1>5. \A a, b \in Nat : <<a, b>> \in less <=> a < b
  OBVIOUS
<1> HIDE DEF mirror, less
<1>6. PICK m \in mirror : \A k \in mirror : ~ (<<k, m>> \in less)
  BY <1>2, <1>4, WFMin
<1>7. \A k \in mirror : m <= k
  <2> TAKE k \in mirror
  <2>1. k \in Nat /\ m \in Nat /\ ~ (<<k, m>> \in less)
    BY <1>2, <1>6
  <2>2. ~ (k < m)
    BY <1>5, <2>1
  <2>3. QED
    BY <2>1, <2>2
<1>8. PICK l \in T : m = N - l
  BY <1>6 DEF mirror
<1>9. \A k \in T : N - l <= N - k
  BY <1>7, <1>8 DEF mirror
<1>10. QED
  BY <1>1, <1>9

-----------------------------------------------------------------------------
(* The calls of nand.h keep the device well typed.                         *)

LEMMA PageFinite == IsFiniteSet(Page) /\ Cardinality(Page) = PagesPerBlock
BY FS_Interval, NandAssumption DEF Page

LEMMA CounterType == \A c \in 0..(CntMod - 1) :
                        Inc(c) \in 0..(CntMod - 1) /\ Dec(c) \in 0..(CntMod - 1)
BY NandAssumption DEF Inc, Dec

LEMMA PairFacts ==
    /\ \A x \in PPN : x = <<x[1], x[2]>> /\ x[1] \in Block /\ x[2] \in Page
    /\ \A b \in Block, pg \in Page : <<b, pg>> \in PPN
BY NandAssumption DEF PPN, Block, Page

LEMMA BlockFacts == UserBlock \subseteq Block /\ ReservedBlock \subseteq Block
BY NandAssumption DEF UserBlock, ReservedBlock, Block

LEMMA PageWriteType ==
    ASSUME NEW n \in NandType, NEW x \in PPN, NEW d \in Data \cup {Blank}
    PROVE  nand_page_write(n, x, d) \in NandType
BY PairFacts, CounterType DEF nand_page_write, NandType, BlockState

LEMMA EraseType ==
    ASSUME NEW n \in NandType, NEW b \in Block, NEW m, NEW code, Erases(n, b, m, code)
    PROVE  m \in NandType
<1>1. CASE m = n
  BY <1>1
<1>2. CASE m = nand_block_wear_out(n, b)
  BY <1>2 DEF nand_block_wear_out, NandType, BlockState
<1>3. CASE n.erase_count[b] < MaxErase /\ m = nand_block_erase(n, b)
  <2>1. n.erase_count[b] + 1 \in 0..MaxErase
    BY <1>3, NandAssumption DEF NandType
  <2>2. 0 \in 0..(CntMod - 1)
    BY NandAssumption
  <2>3. QED
    BY <1>3, <2>1, <2>2 DEF nand_block_erase, NandType, BlockState
<1>4. QED
  BY <1>1, <1>2, <1>3 DEF Erases

LEMMA MarkPageInvalidType ==
    ASSUME NEW n \in NandType, NEW x \in PPN
    PROVE  nand_mark_page_invalid(n, x) \in NandType
BY PairFacts, CounterType DEF nand_mark_page_invalid, NandType, BlockState

LEMMA MarkColdType ==
    ASSUME NEW n \in NandType, NEW b \in Block
    PROVE  nand_mark_cold_block(n, b) \in NandType
<1>1. n.valid_page_cnt[b] > 1 => 1 \in 0..(CntMod - 1)
  BY NandAssumption DEF NandType
<1>2. QED
  BY <1>1 DEF nand_mark_cold_block, NandType, BlockState

LEMMA CopyPagesType ==
    ASSUME NEW n \in NandType, NEW b \in Block, NEW r \in Block, NEW pgs \in SUBSET Page
    PROVE  CopyPages(n, b, r, pgs) \in NandType
<1>1. Cardinality(pgs) \in Nat
  BY PageFinite, FS_Subset, FS_CardinalityType
<1>2. (n.valid_page_cnt[r] + Cardinality(pgs)) % CntMod \in 0..(CntMod - 1)
  BY <1>1, NandAssumption DEF NandType
<1>3. [x \in PPN |-> IF x[1] = r /\ x[2] \in pgs
                     THEN n.media[<<b, x[2]>>] ELSE n.media[x]] \in [PPN -> Data \cup {Blank}]
  BY PairFacts DEF NandType
<1>4. {<<r, pg>> : pg \in pgs} \subseteq PPN
  BY PairFacts
<1>5. QED
  BY <1>2, <1>3, <1>4 DEF CopyPages, NandType, BlockState

LEMMA MarkBlockBadType ==
    ASSUME NEW n \in NandType, NEW b \in Block
    PROVE  nand_mark_block_bad(n, b) \in NandType
<1>1. 0 \in 0..(CntMod - 1) /\ <<b, 0>> \in PPN
  BY NandAssumption, PairFacts DEF Page
<1>2. QED
  BY <1>1 DEF nand_mark_block_bad, NandType, BlockState

LEMMA ReplaceType ==
    ASSUME NEW n \in NandType, NEW b \in Block, NEW r, AllocatesReserved(n, r)
    PROVE  r \in Block /\ nand_replace_bad_block(n, b, r) \in NandType
<1>1. r \in Block
  BY BlockFacts DEF AllocatesReserved
<1> DEFINE spared == [n EXCEPT !.reserved_count = @ - 1]
<1>2. spared \in NandType
  BY DEF AllocatesReserved, NandType
<1>3. CopiedPages(n, b, r) \in SUBSET Page
  BY DEF CopiedPages
<1>4. CopyPages(spared, b, r, CopiedPages(n, b, r)) \in NandType
  BY <1>1, <1>2, <1>3, CopyPagesType
<1>5. QED
  BY <1>1, <1>4, MarkBlockBadType DEF nand_replace_bad_block

LEMMA NewDeviceType ==
    ASSUME NEW bad \in SUBSET Block
    PROVE  NewDevice(bad) \in NandType
<1> DEFINE st == [b \in Block |-> IF b \in bad THEN "BAD" ELSE "FREE"]
<1>1. Cardinality(FreeReserved(st)) \in Nat
  <2>1. IsFiniteSet(ReservedBlock)
    BY FS_Interval, NandAssumption DEF ReservedBlock
  <2>2. QED
    BY <2>1, FS_Subset, FS_CardinalityType DEF FreeReserved
<1>2. 0 \in 0..MaxErase /\ 0 \in 0..(CntMod - 1)
  BY NandAssumption
<1>3. QED
  BY <1>1, <1>2 DEF NewDevice, NandType, BlockState

LEMMA RescannedType ==
    ASSUME NEW n \in NandType
    PROVE  RescannedDevice(n) \in NandType
<1>1. ASSUME NEW b \in Block
      PROVE  Cardinality({pg \in Page : <<b, pg>> \in n.oob}) \in 0..(CntMod - 1)
  <2> DEFINE Programmed == {pg \in Page : <<b, pg>> \in n.oob}
  <2>1. Programmed \subseteq Page
    OBVIOUS
  <2>2. IsFiniteSet(Programmed) /\ Cardinality(Programmed) <= PagesPerBlock
    BY <2>1, PageFinite, FS_Subset
  <2>3. Cardinality(Programmed) \in Nat
    BY <2>2, FS_CardinalityType
  <2>4. QED
    BY <2>2, <2>3, NandAssumption
<1>2. 0 \in 0..MaxErase /\ ReservedBlocks \in Nat
  BY NandAssumption
<1>3. QED
  BY <1>1, <1>2 DEF RescannedDevice, NandType, BlockState

-----------------------------------------------------------------------------
(* What the calls change, field by field.                                  *)

LEMMA PageWriteEffect ==
    ASSUME NEW n \in NandType, NEW x \in PPN, NEW d, NEW m, m = nand_page_write(n, x, d)
    PROVE  /\ \A y \in PPN : m.media[y] = IF y = x THEN d ELSE n.media[y]
           /\ m.oob = n.oob \cup {x}
           /\ m.page_valid = n.page_valid \cup {x}
           /\ \A b \in Block : m.valid_page_cnt[b] = IF b = x[1] THEN Inc(n.valid_page_cnt[b])
                                                   ELSE n.valid_page_cnt[b]
           /\ \A b \in Block : m.state[b] = IF b = x[1] THEN "USED" ELSE n.state[b]
           /\ m.erase_count = n.erase_count
BY DEF nand_page_write, NandType

LEMMA MarkPageInvalidEffect ==
    ASSUME NEW n \in NandType, NEW x \in PPN, n.state[x[1]] # "BAD", x \in n.page_valid,
           NEW m, m = nand_mark_page_invalid(n, x)
    PROVE  LET c == Dec(n.valid_page_cnt[x[1]])
           IN  /\ m.media = n.media
               /\ m.oob = n.oob
               /\ m.page_valid = n.page_valid \ {x}
               /\ \A b \in Block : m.valid_page_cnt[b] = IF b = x[1] THEN c
                                                       ELSE n.valid_page_cnt[b]
               /\ \A b \in Block : m.state[b] = IF b = x[1] /\ c = 0 THEN "FREE" ELSE n.state[b]
               /\ m.erase_count = n.erase_count
BY DEF nand_mark_page_invalid, NandType

LEMMA InvalidShrinks ==
    ASSUME NEW n \in NandType, NEW x, NEW m, m = nand_mark_page_invalid(n, x)
    PROVE  m.page_valid \subseteq n.page_valid
BY DEF nand_mark_page_invalid, NandType

WornOut(n, b, m) ==
    /\ n.state[b] # "BAD"
    /\ m.state = [n.state EXCEPT ![b] = "BAD"]
    /\ m.page_valid = n.page_valid
    /\ m.valid_page_cnt = n.valid_page_cnt

Emptied(n, b, m) ==
    /\ n.state[b] # "BAD"
    /\ m.state = [n.state EXCEPT ![b] = "FREE"]
    /\ m.page_valid = n.page_valid \ PagesOf(b)
    /\ m.valid_page_cnt = [n.valid_page_cnt EXCEPT ![b] = 0]

LEMMA EraseEffect ==
    ASSUME NEW n \in NandType, NEW b \in Block, NEW m, NEW code, Erases(n, b, m, code)
    PROVE  /\ m.media = n.media /\ m.oob = n.oob
           /\ m = n \/ WornOut(n, b, m) \/ Emptied(n, b, m)
<1>1. CASE m = n
  BY <1>1
<1>2. CASE n.state[b] # "BAD" /\ m = nand_block_wear_out(n, b)
  BY <1>2 DEF nand_block_wear_out, NandType, WornOut
<1>3. CASE n.state[b] # "BAD" /\ m = nand_block_erase(n, b)
  BY <1>3 DEF nand_block_erase, NandType, Emptied
<1>4. QED
  BY <1>1, <1>2, <1>3 DEF Erases

-----------------------------------------------------------------------------
(* What a power cut leaves.  Every page that is marked valid carries the   *)
(* magic number in its spare area: nand_page_write and the copy loop of    *)
(* nand_replace_bad_block write both, and nothing clears a spare area.     *)

Recorded(n) == n.page_valid \subseteq n.oob

LEMMA CopyPagesRecorded ==
    ASSUME NEW n \in NandType, Recorded(n), NEW b, NEW r, NEW pgs
    PROVE  Recorded(CopyPages(n, b, r, pgs))
BY DEF CopyPages, NandType, Recorded

LEMMA MarkBlockBadRecorded ==
    ASSUME NEW n \in NandType, Recorded(n), NEW b
    PROVE  Recorded(nand_mark_block_bad(n, b))
BY DEF nand_mark_block_bad, NandType, Recorded

LEMMA PageWriteRecorded ==
    ASSUME NEW n \in NandType, Recorded(n), NEW x, NEW d
    PROVE  Recorded(nand_page_write(n, x, d))
BY DEF nand_page_write, NandType, Recorded

LEMMA EraseRecorded ==
    ASSUME NEW n \in NandType, Recorded(n), NEW b \in Block, NEW m, NEW code, Erases(n, b, m, code)
    PROVE  Recorded(m)
<1>1. m.oob = n.oob /\ (m = n \/ WornOut(n, b, m) \/ Emptied(n, b, m))
  BY EraseEffect
<1>2. QED
  BY <1>1 DEF WornOut, Emptied, Recorded

LEMMA MarkPageInvalidRecorded ==
    ASSUME NEW n \in NandType, Recorded(n), NEW x
    PROVE  Recorded(nand_mark_page_invalid(n, x))
BY DEF nand_mark_page_invalid, NandType, Recorded

LEMMA MarkColdRecorded ==
    ASSUME NEW n \in NandType, Recorded(n), NEW b
    PROVE  Recorded(nand_mark_cold_block(n, b))
BY DEF nand_mark_cold_block, NandType, Recorded

LEMMA ReplaceRecorded ==
    ASSUME NEW n \in NandType, Recorded(n), NEW b \in Block, NEW r, AllocatesReserved(n, r)
    PROVE  Recorded(nand_replace_bad_block(n, b, r))
<1> DEFINE spared == [n EXCEPT !.reserved_count = @ - 1]
           copied == CopyPages(spared, b, r, CopiedPages(n, b, r))
<1>1. spared \in NandType /\ Recorded(spared)
  BY DEF AllocatesReserved, NandType, Recorded
<1>2. r \in Block /\ CopiedPages(n, b, r) \in SUBSET Page
  BY BlockFacts DEF AllocatesReserved, CopiedPages
<1>3. copied \in NandType /\ Recorded(copied)
  BY <1>1, <1>2, CopyPagesType, CopyPagesRecorded
<1>4. QED
  BY <1>3, MarkBlockBadRecorded DEF nand_replace_bad_block

-----------------------------------------------------------------------------
(* The device driven by a caller that makes any call.                      *)

DeviceInv == nand \in NandType /\ Recorded(nand)

LEMMA DeviceInit == NandInit => DeviceInv
BY NewDeviceType DEF NandInit, NewDevice, DeviceInv, Recorded

LEMMA DeviceStep == DeviceInv /\ [NandNext]_nand => DeviceInv'
<1> SUFFICES ASSUME DeviceInv, [NandNext]_nand PROVE DeviceInv'
  OBVIOUS
<1> USE DEF DeviceInv
<1>1. ASSUME NEW x \in PPN, NEW d \in Data, PageWrite(x, d) \/ PageWriteWithRetry(x, d)
      PROVE  DeviceInv'
  BY <1>1, PairFacts, PageWriteType, PageWriteRecorded, MarkBlockBadType, MarkBlockBadRecorded
     DEF PageWrite, PageWriteWithRetry
<1>2. ASSUME NEW x \in PPN, MarkPageInvalid(x) \/ PageReadWithRetry(x) PROVE DeviceInv'
  BY <1>2, PairFacts, MarkPageInvalidType, MarkPageInvalidRecorded, MarkBlockBadType,
     MarkBlockBadRecorded DEF MarkPageInvalid, PageReadWithRetry
<1>3. ASSUME NEW b \in Block, BlockErase(b) PROVE DeviceInv'
  BY <1>3, EraseType, EraseRecorded DEF BlockErase
<1>4. ASSUME NEW b \in Block, MarkBlockBad(b) \/ MarkColdBlock(b) PROVE DeviceInv'
  BY <1>4, MarkBlockBadType, MarkBlockBadRecorded, MarkColdType, MarkColdRecorded
     DEF MarkBlockBad, MarkColdBlock
<1>5. ASSUME NEW b \in Block, ReplaceBadBlock(b) PROVE DeviceInv'
  BY <1>5, ReplaceType, ReplaceRecorded DEF ReplaceBadBlock
<1>6. CASE AllocReservedBlock
  BY <1>6 DEF AllocReservedBlock, AllocatesReserved, NandType, Recorded
<1>7. CASE PowerCycle
  BY <1>7, RescannedType DEF PowerCycle, RescannedDevice, Recorded
<1>8. QED
  BY <1>1, <1>2, <1>3, <1>4, <1>5, <1>6, <1>7 DEF NandNext

LEMMA DeviceAlways == NandSpec => []DeviceInv
BY DeviceInit, DeviceStep, PTL DEF NandSpec

(* Whatever sequence of nand.h calls a caller makes, with whatever blocks  *)
(* failing, the scan of nand_init after a power cut finds every page that  *)
(* could be read before, with the same payload.                            *)
THEOREM PowerCutKeepsReadablePages == NandSpec => []ReadableSurvivesPowerCut
<1>1. DeviceInv => ReadableSurvivesPowerCut
  <2> SUFFICES ASSUME DeviceInv, NEW x \in PPN, nand_page_read_ret(nand, x) = "OK"
               PROVE  LET n == RescannedDevice(nand)
                      IN  nand_page_read_ret(n, x) = "OK" /\ n.media[x] = nand.media[x]
    BY DEF ReadableSurvivesPowerCut
  <2>1. x \in nand.oob
    BY DEF nand_page_read_ret, DeviceInv, Recorded
  <2>2. x[1] \in Block /\ \E pg \in Page : <<x[1], pg>> \in nand.oob
    BY <2>1, PairFacts
  <2>3. RescannedDevice(nand).state[x[1]] = "USED"
    BY <2>2 DEF RescannedDevice
  <2>4. QED
    BY <2>1, <2>3 DEF nand_page_read_ret, RescannedDevice
<1>2. QED
  BY <1>1, DeviceAlways, PTL

-----------------------------------------------------------------------------
(* One step of the device.                                                 *)

LEMMA ReplaceKeepsMedia ==
    ASSUME NEW n \in NandType, NEW b \in Block, NEW r \in Block,
           NEW x \in n.page_valid
    PROVE  nand_replace_bad_block(n, b, r).media[x] = n.media[x]
<1>1. x \in PPN /\ x = <<x[1], x[2]>>
  BY PairFacts DEF NandType
<1>2. ~(x[1] = r /\ x[2] \in CopiedPages(n, b, r))
  BY <1>1 DEF CopiedPages
<1>3. QED
  BY <1>1, <1>2 DEF nand_replace_bad_block, CopyPages, nand_mark_block_bad, NandType

(* The payload of a page that is valid before and after a call is not      *)
(* touched by it, whichever call of nand.h it is and in whatever state of  *)
(* the device.                                                             *)
THEOREM ValidPagesKeepPayload == NandSpec => ValidPagesStable
<1>1. ASSUME DeviceInv, [NandNext]_nand
      PROVE  [\A x \in nand.page_valid \cap nand'.page_valid : nand'.media[x] = nand.media[x]]_nand
  <2> SUFFICES ASSUME NandNext, NEW y \in nand.page_valid PROVE nand'.media[y] = nand.media[y]
    BY <1>1
  <2> USE <1>1 DEF DeviceInv
  <2>1. ASSUME NEW x \in PPN, NEW d \in Data, PageWrite(x, d) \/ PageWriteWithRetry(x, d)
        PROVE  nand'.media[y] = nand.media[y]
    <3>1. CASE nand_page_write_ret(nand, x) = "OK" /\ nand' = nand_page_write(nand, x, d)
      <4>1. y # x
        BY <3>1 DEF nand_page_write_ret
      <4>2. \A z \in PPN : nand'.media[z] = IF z = x THEN d ELSE nand.media[z]
        BY <3>1, PageWriteEffect
      <4>3. QED
        BY <4>1, <4>2 DEF NandType
    <3>2. CASE nand' = nand_mark_block_bad(nand, x[1])
      BY <3>2 DEF nand_mark_block_bad, NandType
    <3>3. QED
      BY <2>1, <3>1, <3>2 DEF PageWrite, PageWriteWithRetry
  <2>2. ASSUME NEW x \in PPN, MarkPageInvalid(x) \/ PageReadWithRetry(x)
        PROVE  nand'.media = nand.media
    BY <2>2 DEF MarkPageInvalid, PageReadWithRetry, nand_mark_page_invalid, nand_mark_block_bad,
       NandType
  <2>3. ASSUME NEW b \in Block, BlockErase(b) \/ MarkBlockBad(b) \/ MarkColdBlock(b)
        PROVE  nand'.media = nand.media
    BY <2>3 DEF BlockErase, Erases, nand_block_wear_out, nand_block_erase, MarkBlockBad,
       MarkColdBlock, nand_mark_block_bad, nand_mark_cold_block, NandType
  <2>4. ASSUME NEW b \in Block, ReplaceBadBlock(b) PROVE nand'.media[y] = nand.media[y]
    BY <2>4, BlockFacts, ReplaceKeepsMedia DEF ReplaceBadBlock
  <2>5. AllocReservedBlock \/ PowerCycle => nand'.media = nand.media
    BY DEF AllocReservedBlock, PowerCycle, RescannedDevice, NandType
  <2>6. QED
    BY <2>1, <2>2, <2>3, <2>4, <2>5 DEF NandNext
<1>2. QED
  BY <1>1, DeviceAlways, PTL DEF NandSpec, ValidPagesStable

BadKept(n, m) ==
    \A b \in Block : n.state[b] = "BAD" =>
        m.state[b] = "BAD" /\ ValidPagesOf(m, b) \subseteq ValidPagesOf(n, b)

LEMMA MarkBlockBadKeeps ==
    ASSUME NEW n \in NandType, NEW c \in Block
    PROVE  BadKept(n, nand_mark_block_bad(n, c))
BY DEF BadKept, nand_mark_block_bad, ValidPagesOf, NandType

LEMMA PageWriteKeepsBad ==
    ASSUME NEW n \in NandType, NEW x \in PPN, NEW d, nand_page_write_ret(n, x) = "OK"
    PROVE  BadKept(n, nand_page_write(n, x, d))
<1>1. x[1] \in Block /\ n.state[x[1]] # "BAD"
  BY PairFacts DEF nand_page_write_ret
<1>2. QED
  BY <1>1, PairFacts DEF BadKept, nand_page_write, ValidPagesOf, NandType

LEMMA ReplaceKeepsBad ==
    ASSUME NEW n \in NandType, NEW c \in Block, NEW r, AllocatesReserved(n, r)
    PROVE  BadKept(n, nand_replace_bad_block(n, c, r))
<1> DEFINE spared == [n EXCEPT !.reserved_count = @ - 1]
           pgs    == CopiedPages(n, c, r)
           copied == CopyPages(spared, c, r, pgs)
<1>1. r \in Block /\ n.state[r] = "FREE"
  BY BlockFacts DEF AllocatesReserved
<1>2. copied \in NandType
  <2>1. spared \in NandType /\ pgs \in SUBSET Page
    BY DEF AllocatesReserved, CopiedPages, NandType
  <2>2. QED
    BY <1>1, <2>1, CopyPagesType
<1>3. BadKept(n, copied)
  <2>1. /\ copied.state = [n.state EXCEPT ![r] = IF pgs = {} THEN @ ELSE "USED"]
        /\ copied.page_valid = n.page_valid \cup {<<r, pg>> : pg \in pgs}
    BY DEF CopyPages, NandType
  <2> HIDE DEF copied, pgs
  <2>2. QED
    BY <1>1, <2>1 DEF BadKept, ValidPagesOf, NandType
<1>4. BadKept(copied, nand_mark_block_bad(copied, c))
  BY <1>2, MarkBlockBadKeeps
<1>5. nand_replace_bad_block(n, c, r) \in {copied, nand_mark_block_bad(copied, c)}
  BY DEF nand_replace_bad_block
<1> HIDE DEF copied
<1>6. QED
  BY <1>3, <1>4, <1>5 DEF BadKept

(* Nothing but a restart brings a bad block back: no erase, program,       *)
(* invalidation or replacement makes it usable again or makes a page of it *)
(* valid.                                                                  *)
THEOREM BadBlocksStayBad == NandSpec => BadUntilRestart
<1>1. ASSUME DeviceInv, [NandNext]_nand
      PROVE  [nand' = RescannedDevice(nand) \/ BadKept(nand, nand')]_nand
  <2> SUFFICES ASSUME NandNext, ~PowerCycle PROVE BadKept(nand, nand')
    BY <1>1 DEF PowerCycle
  <2> USE <1>1 DEF DeviceInv
  <2>1. ASSUME NEW x \in PPN, NEW d \in Data, PageWrite(x, d) \/ PageWriteWithRetry(x, d)
        PROVE  BadKept(nand, nand')
    BY <2>1, PairFacts, PageWriteKeepsBad, MarkBlockBadKeeps DEF PageWrite, PageWriteWithRetry
  <2>2. ASSUME NEW x \in PPN, MarkPageInvalid(x) PROVE BadKept(nand, nand')
    BY <2>2, PairFacts DEF MarkPageInvalid, nand_mark_page_invalid, BadKept, ValidPagesOf, NandType
  <2>3. ASSUME NEW x \in PPN, PageReadWithRetry(x) PROVE BadKept(nand, nand')
    BY <2>3, PairFacts, MarkBlockBadKeeps DEF PageReadWithRetry
  <2>4. ASSUME NEW b \in Block, BlockErase(b) PROVE BadKept(nand, nand')
    <3>1. nand' = nand \/ WornOut(nand, b, nand') \/ Emptied(nand, b, nand')
      BY <2>4, EraseEffect DEF BlockErase
    <3>2. QED
      BY <3>1 DEF WornOut, Emptied, BadKept, ValidPagesOf, NandType
  <2>5. ASSUME NEW b \in Block, MarkBlockBad(b) \/ MarkColdBlock(b) PROVE BadKept(nand, nand')
    BY <2>5, MarkBlockBadKeeps DEF MarkBlockBad, MarkColdBlock, nand_mark_cold_block, BadKept,
       ValidPagesOf, NandType
  <2>6. ASSUME NEW b \in Block, ReplaceBadBlock(b) PROVE BadKept(nand, nand')
    BY <2>6, ReplaceKeepsBad DEF ReplaceBadBlock
  <2>7. AllocReservedBlock => BadKept(nand, nand')
    BY DEF AllocReservedBlock, BadKept, ValidPagesOf, NandType
  <2>8. QED
    BY <2>1, <2>2, <2>3, <2>4, <2>5, <2>6, <2>7 DEF NandNext
<1>2. QED
  BY <1>1, DeviceAlways, PTL DEF NandSpec, BadUntilRestart, BadKept

=============================================================================
