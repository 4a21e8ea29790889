-------------------------------- MODULE Dif --------------------------------
(***************************************************************************)
(* End-to-end protection of modules/host_if/host_if.c: protection          *)
(* information is generated for the pages of a transfer and verified when  *)
(* they come back, here from the page of module Ecc whose cells lose bits. *)
(* The error counters are left out.                                        *)
(***************************************************************************)
EXTENDS Ecc

CONSTANT RefTags   \* values of a reference tag, 2^32 in the code

ASSUME DifAssumption == RefTags \in Nat \ {0}

(* crc16_t10pi_table is linear: it is given by what it holds for each bit  *)
(* of the byte.  Bits 6 and 7 are not what the polynomial 0x8BB7, which    *)
(* gives the others, makes of them.                                        *)
TableBit == <<{0, 1, 2, 4, 5, 7, 8, 9, 11, 15}, {0, 3, 4, 6, 7, 10, 11, 12, 15},
              {0, 2, 9, 12, 13, 15}, {0, 2, 3, 4, 5, 7, 8, 9, 10, 11, 13, 14, 15},
              {0, 2, 3, 6, 7, 10, 12, 14}, {1, 3, 4, 7, 8, 11, 13, 15},
              {0, 2, 3, 4, 5, 11, 15}, {0, 1, 7, 12}>>

crc16_t10pi_table == [x \in Byte |-> Xor(x, LAMBDA b : TableBit[b + 1])]

dif_crc16(buf) ==
    LET Step(crc, byte) ==
            SymDiff(Shift(crc, 8) \cap 0..15,
                    crc16_t10pi_table[SymDiff({b - 8 : b \in crc \ (0..7)}, byte)])
    IN  FoldLeft(Step, 0..15, buf)

(* A transfer has one block for each whole page; a rest goes to the last   *)
(* block, and a short transfer is one block.                               *)
LbaCount(buf) == Max({1, Len(buf) \div PageSize})

(* Mutant: the rest of the last block is not protected.                    *)
BugLbaData(buf, i) == SubSeq(buf, i * PageSize + 1, (i + 1) * PageSize)

LbaData(buf, i) == SubSeq(buf, i * PageSize + 1,
                          IF i = LbaCount(buf) - 1 THEN Len(buf) ELSE (i + 1) * PageSize)

(* A configuration has a type, the tag to write with its mask (words), and *)
(* the set of checks that are enabled.                                     *)
dif_generate(config, buf, lba) ==
    [i \in 0..LbaCount(buf) - 1 |->
        [crc     |-> dif_crc16(LbaData(buf, i)),
         app_tag |-> config.app_tag,
         ref_tag |-> IF config.type = 1 THEN (lba + i) % RefTags ELSE 0]]

(* The checks block i fails.                                               *)
Failing(config, buf, lba, protection, i) ==
    {check \in config.checks :
        CASE check = "CRC"     -> dif_crc16(LbaData(buf, i)) # protection[i].crc
          [] check = "APP_TAG" -> protection[i].app_tag \cap config.mask
                                      # config.app_tag \cap config.mask
          [] OTHER             -> /\ config.type = 1
                                  /\ protection[i].ref_tag # (lba + i) % RefTags}

(* The first block that fails a check is reported, for the first check it  *)
(* fails: the guard, then the application tag, then the reference tag.     *)
dif_verify(config, buf, lba, protection) ==
    LET bad(i) == Failing(config, buf, lba, protection, i)
        wrong  == {i \in 0..LbaCount(buf) - 1 : bad(i) # {}}
        First(S) == IF "CRC" \in S THEN "CRC" ELSE IF "APP_TAG" \in S THEN "APP_TAG" ELSE "REF_TAG"
    IN  IF wrong = {} THEN [ret |-> "OK", error_lba |-> 0]
        ELSE [ret |-> First(bad(Min(wrong))), error_lba |-> lba + Min(wrong)]

-----------------------------------------------------------------------------
Checks  == {{"CRC", "APP_TAG", "REF_TAG"}, {"CRC"}, {"REF_TAG"}}
Configs == [type : {1, 2}, app_tag : {{0, 4}}, mask : {{4}}, checks : Checks]

(* Transfers with the page in another place, the last with half a page.    *)
Transfers == {<<page \o data, data \o data>>, <<data \o page, data \o data>>,
              <<data \o data \o SubSeq(page, 2, PageSize),
                data \o data \o SubSeq(data, 2, PageSize)>>}

(* A transfer is accepted exactly when what is checked is right: with the  *)
(* guard check, when no bit was lost; with the reference tag check of type *)
(* 1, when it is read from where it was written.  The block reported is    *)
(* the first with a lost bit.                                              *)
DifDetects ==
    \A c \in Configs, t \in Transfers, lba \in {RefTags - 1, RefTags} :
        LET got     == t[1]
            sent    == t[2]
            damaged == {i \in 0..LbaCount(sent) - 1 : LbaData(got, i) # LbaData(sent, i)}
            moved   == lba # RefTags - 1
            result  == dif_verify(c, got, lba, dif_generate(c, sent, RefTags - 1))
        IN  /\ result.ret = "OK" <=> /\ ("CRC" \in c.checks => got = sent)
                                     /\ ("REF_TAG" \in c.checks /\ c.type = 1 => ~moved)
            /\ result.ret = "CRC" => result.error_lba = lba + Min(damaged)
=============================================================================
