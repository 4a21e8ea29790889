-------------------------------- MODULE Ecc --------------------------------
(***************************************************************************)
(* The error correction of modules/nand/nand.c: the CRC, the Hamming, BCH  *)
(* and LDPC codes, and what they do for one physical page whose cells lose *)
(* bits.  Module Nand leaves all of this out.                              *)
(*                                                                         *)
(* A machine word is the set of its bits that are 1, so that exclusive or  *)
(* is the symmetric difference; a page is a sequence of bytes.  Reading    *)
(* changes nothing but statistics, so the read calls are operators and     *)
(* have no action.  LDPC cannot be chosen for pages: nand_ecc_set_algo     *)
(* refuses it, so only its codewords are modelled.                         *)
(***************************************************************************)
EXTENDS Naturals, FiniteSetsExt, SequencesExt

CONSTANTS
    PageSize,   \* NAND_PAGE_SIZE
    Payloads,   \* the pages a caller may write
    MaxFlips    \* bound on the cells of a page that hold a wrong bit

Byte == SUBSET (0..7)

ASSUME EccAssumption ==
    /\ PageSize \in Nat \ {0} /\ MaxFlips \in Nat
    /\ Payloads \subseteq [1..PageSize -> Byte] /\ Payloads # {}

VARIABLES
    page,     \* the cells
    oob,      \* nand_oob_t of the page; magic is TRUE once it was written
    valid,    \* page_valid
    algo,     \* ecc_algo of g_nand_dev
    writing,  \* nand_page_write_with_crc has yet to write the spare area
    data      \* history: the page the last write was given

vars == <<page, oob, valid, algo, writing, data>>

-----------------------------------------------------------------------------
Odd(S)      == Cardinality(S) % 2 = 1
Shift(w, k) == {b + k : b \in w}

(* Exclusive or of the words Word(i) for i in S.                           *)
Xor(S, Word(_)) ==
    {b \in UNION {Word(i) : i \in S} : Odd({i \in S : b \in Word(i)})}

-----------------------------------------------------------------------------
(* CRC-32: entry x of crc32_table is x divided by the polynomial.          *)
Polynomial == {5, 8, 9, 15, 19, 20, 21, 23, 24, 26, 27, 29, 30, 31}

crc32_table ==
    [x \in Byte |->
        LET rem[k \in 0..8] ==
                IF k = 0 THEN x
                ELSE SymDiff({b - 1 : b \in rem[k - 1] \ {0}},
                             IF 0 \in rem[k - 1] THEN Polynomial ELSE {})
        IN  rem[8]]

nand_crc32_calculate(p) ==
    LET Step(crc, byte) ==
            SymDiff({b - 8 : b \in crc \ (0..7)},
                    crc32_table[SymDiff(crc \cap 0..7, byte)])
    IN  SymDiff(FoldLeft(Step, 0..31, p), 0..31)

-----------------------------------------------------------------------------
(* Hamming(7,4): data bits go to 2, 4, 5 and 6, parity bits to 0, 1 and 3. *)
DataBit   == <<2, 4, 5, 6>>
ParityBit == 0 :> {0, 1, 3} @@ 1 :> {0, 2, 3} @@ 3 :> {1, 2, 3}

hamming_encode_4bit(d) ==
    {DataBit[b + 1] : b \in d} \cup {p \in DOMAIN ParityBit : Odd(ParityBit[p] \cap d)}

(* Mutant: the position found is not counted from 1.                       *)
BugHammingDecode(c) ==
    LET Check(p)  == {p} \cup {DataBit[b + 1] : b \in ParityBit[p]}
        syndrome  == SumSet({p + 1 : p \in {q \in DOMAIN ParityBit : Odd(Check(q) \cap c)}})
    IN  IF syndrome = 0 THEN c ELSE SymDiff(c, {syndrome})

(* The word hamming_decode_7bit leaves in *code.                           *)
hamming_decode_7bit(c) ==
    LET Check(p)  == {p} \cup {DataBit[b + 1] : b \in ParityBit[p]}
        syndrome  == SumSet({p + 1 : p \in {q \in DOMAIN ParityBit : Odd(Check(q) \cap c)}})
    IN  IF syndrome = 0 THEN c ELSE SymDiff(c, {syndrome - 1})

(* All bytes of the page are added up in one pair of codewords.            *)
nand_ecc_hamming_encode(p) ==
    LET Word(i) == hamming_encode_4bit(p[i] \cap 0..3)
                   \cup Shift(hamming_encode_4bit({b - 4 : b \in p[i] \cap 4..7}), 7)
    IN  Xor(DOMAIN p, Word)

(* Bit k of the page, counted from the first byte.                         *)
Flipped(p, k) == [p EXCEPT ![k \div 8 + 1] = SymDiff(@, {k % 8})]

(* The first single bit whose flip makes the code fit, if there is one.    *)
nand_ecc_hamming_decode(p, ecc) ==
    LET fits == {k \in 0..8 * PageSize - 1 : nand_ecc_hamming_encode(Flipped(p, k)) = ecc}
    IN  IF nand_ecc_hamming_encode(p) = ecc THEN [result |-> "OK", buf |-> p]
        ELSE IF fits = {} THEN [result |-> "UNCORRECTABLE", buf |-> p]
        ELSE [result |-> "CORRECTED", buf |-> Flipped(p, Min(fits))]

-----------------------------------------------------------------------------
(* BCH(15,7) over GF(16), with the primitive polynomial 0x13.              *)
gf_mul(a, b) ==
    LET times[k \in 0..3] ==
            IF k = 0 THEN a
            ELSE SymDiff(Shift(times[k - 1], 1), IF 3 \in times[k - 1] THEN {0, 1, 4} ELSE {})
    IN  Xor(b, LAMBDA k : times[k]) \cap 0..3

gf_pow(a, n) ==
    LET power[k \in 0..n] == IF k = 0 THEN {0} ELSE gf_mul(power[k - 1], a)
    IN  power[n]

Alpha == [i \in 0..14 |-> gf_pow({1}, i)]
Cubed == [i \in 0..14 |-> gf_pow(Alpha[i], 3)]

bch_encode_7bit(d) ==
    LET word[k \in 0..7] ==     \* a uint16_t
            IF k = 0 THEN Shift(d, 8)
            ELSE SymDiff(Shift(word[k - 1], 1) \cap 0..15,
                         IF 14 \in word[k - 1] THEN {0, 4, 6, 7, 8} ELSE {})
    IN  word[7] \cap 0..14

(* The word bch_decode_15bit leaves in *codeword.                          *)
bch_decode_15bit(r) ==
    LET s1 == Xor(r, LAMBDA i : Alpha[i])
        s3 == Xor(r, LAMBDA i : Cubed[i])
        one == {{i} : i \in {k \in 0..14 : Alpha[k] = s1}}
        two == {{i, j} : <<i, j>> \in
                   {ij \in (0..14) \X (0..14) : /\ ij[1] < ij[2]
                                                /\ SymDiff(Alpha[ij[1]], Alpha[ij[2]]) = s1
                                                /\ SymDiff(Cubed[ij[1]], Cubed[ij[2]]) = s3}}
        errors == IF s3 = gf_pow(s1, 3) THEN one ELSE two
    IN  IF (s1 = {} /\ s3 = {}) \/ errors = {} THEN r
        ELSE SymDiff(r, CHOOSE e \in errors : TRUE)

(* The code of a page is only eight bits wide, rotated through a uint32_t. *)
nand_ecc_bch_encode(p) ==
    LET Step(ecc, byte) ==
            {(b + 1) % 32 : b \in SymDiff(ecc, bch_encode_7bit(byte \cap 0..6) \cap 0..7)}
    IN  FoldLeft(Step, {}, p)

(* "Corrected" when few bits of the code differ; the page stays as it is.  *)
nand_ecc_bch_decode(p, ecc) ==
    LET wrong == Cardinality(SymDiff(nand_ecc_bch_encode(p), ecc))
    IN  [result |-> IF wrong = 0 THEN "OK"
                    ELSE IF wrong <= 2 THEN "CORRECTED" ELSE "UNCORRECTABLE",
         buf |-> p]

-----------------------------------------------------------------------------
(* LDPC(12,6), decoded by flipping the bit most failed checks agree on.    *)
ldpc_H_matrix == <<{0, 1, 3, 6}, {1, 2, 4, 7}, {2, 3, 5, 8},
                   {0, 3, 4, 9}, {1, 4, 5, 10}, {0, 2, 5, 11}>>
NAND_LDPC_T   == 3

ldpc_encode_6bit(d) ==
    d \cup {i + 5 : i \in {j \in 1..6 : Odd(ldpc_H_matrix[j] \cap d)}}

ldpc_calc_syndrome(c) == {i \in 1..6 : Odd(ldpc_H_matrix[i] \cap c)}

(* One round of the decoder.                                               *)
Corrected(c) ==
    LET votes == [b \in 0..11 |-> Cardinality({i \in ldpc_calc_syndrome(c) : b \in ldpc_H_matrix[i]})]
        most  == Max({votes[b] : b \in 0..11})
    IN  IF ldpc_calc_syndrome(c) = {} THEN c
        ELSE SymDiff(c, {Min({b \in 0..11 : votes[b] = most})})

(* The word ldpc_decode_12bit leaves in *codeword.                         *)
ldpc_decode_12bit(c) ==
    LET round[k \in 0..NAND_LDPC_T] == IF k = 0 THEN c ELSE Corrected(round[k - 1])
    IN  IF ldpc_calc_syndrome(round[NAND_LDPC_T]) = {} THEN round[NAND_LDPC_T] ELSE c

-----------------------------------------------------------------------------
(* The page calls.  nand_page_read always decodes with the Hamming code,   *)
(* whichever code is in the spare area, and returns RET_OK in any case.    *)
nand_page_read == IF oob.magic THEN nand_ecc_hamming_decode(page, oob.ecc).buf ELSE page

Encode(p) == IF algo = "HAMMING" THEN nand_ecc_hamming_encode(p) ELSE nand_ecc_bch_encode(p)
Decode(p) == IF algo = "HAMMING" THEN nand_ecc_hamming_decode(p, oob.ecc)
             ELSE nand_ecc_bch_decode(p, oob.ecc)

(* Mutant: a page the code has corrected is not tested again.              *)
BugReadWithCrc ==
    LET decoded == Decode(nand_page_read)
    IN  [ret |-> IF ~oob.magic \/ decoded.result = "CORRECTED"
                    \/ nand_crc32_calculate(decoded.buf) = oob.crc32
                 THEN "OK" ELSE "CHECKSUM",
         buf |-> decoded.buf]

(* The CRC is tested after the correction, whatever the decoder says.      *)
nand_page_read_with_crc ==
    LET decoded == Decode(nand_page_read)
    IN  IF ~oob.magic THEN [ret |-> "OK", buf |-> nand_page_read]
        ELSE [ret |-> IF nand_crc32_calculate(decoded.buf) = oob.crc32
                      THEN "OK" ELSE "CHECKSUM",
              buf |-> decoded.buf]

nand_page_write(p) ==
    /\ ~valid /\ ~writing
    /\ page'  = p
    /\ oob'   = [magic |-> TRUE, ecc |-> nand_ecc_hamming_encode(p), crc32 |-> {}]
    /\ valid' = TRUE
    /\ data'  = p
    /\ UNCHANGED algo

PageWrite(p) == nand_page_write(p) /\ UNCHANGED writing

(* nand_page_write_with_crc writes page and spare area, then the spare     *)
(* area again; the device is not locked in between.                        *)
WriteWithCrc(p) == nand_page_write(p) /\ writing' = TRUE

OobWrite ==
    /\ writing /\ writing' = FALSE
    /\ oob' = [magic |-> TRUE, ecc |-> Encode(data), crc32 |-> nand_crc32_calculate(data)]
    /\ UNCHANGED <<page, valid, algo, data>>

(* nand_block_erase leaves cells and spare area alone.                     *)
Erase ==
    /\ valid /\ ~writing /\ valid' = FALSE
    /\ UNCHANGED <<page, oob, algo, writing, data>>

(* Cells that no longer hold what was written.                             *)
Damage(p) == {k \in 0..8 * PageSize - 1 : (k % 8 \in p[k \div 8 + 1]) # (k % 8 \in data[k \div 8 + 1])}

(* nand_inject_retention_errors, one bit at a time: which bits is up to    *)
(* rand(), and a bit may be hit twice.                                     *)
Retention(k) ==
    /\ valid
    /\ page' = Flipped(page, k)
    /\ Cardinality(Damage(page')) <= MaxFlips
    /\ UNCHANGED <<oob, valid, algo, writing, data>>

nand_ecc_set_algo(a) ==
    /\ a \in {"HAMMING", "BCH"}
    /\ algo' = a
    /\ UNCHANGED <<page, oob, valid, writing, data>>

(* A power cut, also in the middle of nand_page_write_with_crc; nand_init  *)
(* finds the page by its magic number and returns to the default code.     *)
PowerCycle ==
    /\ valid' = oob.magic
    /\ writing' = FALSE
    /\ algo' = "BCH"
    /\ UNCHANGED <<page, oob, data>>

-----------------------------------------------------------------------------
Erased == [i \in 1..PageSize |-> {}]

Init ==
    /\ page = Erased /\ data = Erased
    /\ oob = [magic |-> FALSE, ecc |-> {}, crc32 |-> {}]
    /\ valid = FALSE /\ writing = FALSE
    /\ algo = "BCH"

Next ==
    \/ \E p \in Payloads : PageWrite(p) \/ WriteWithCrc(p)
    \/ OobWrite \/ Erase \/ PowerCycle
    \/ \E k \in 0..8 * PageSize - 1 : Retention(k)
    \/ \E a \in {"HAMMING", "BCH", "LDPC"} : nand_ecc_set_algo(a)

Spec == Init /\ [][Next]_vars

-----------------------------------------------------------------------------
TypeOK ==
    /\ page \in [1..PageSize -> Byte] /\ data \in [1..PageSize -> Byte]
    /\ oob \in [magic : BOOLEAN, ecc : SUBSET (0..31), crc32 : SUBSET (0..31)]
    /\ valid \in BOOLEAN /\ writing \in BOOLEAN
    /\ algo \in {"HAMMING", "BCH"}

(* End-to-end protection: nand_page_read_with_crc never hands out a page   *)
(* that differs from the last one written, however many bits were lost,    *)
(* although the decoders repair the wrong bit or none, although the code   *)
(* in the spare area may be of the other algorithm, and although a power   *)
(* cut may have left the spare area of nand_page_write.                    *)
CrcReadFaithful ==
    valid /\ nand_page_read_with_crc.ret = "OK" => nand_page_read_with_crc.buf = data

(* The codewords themselves: for each byte written, the Hamming decoder    *)
(* restores its codewords from one wrong bit, the BCH decoder from two,    *)
(* and the LDPC decoder from one wrong data bit.                           *)
CodewordsRestored ==
    Damage(page) = {} =>
        \A i \in DOMAIN data :
            LET h == hamming_encode_4bit(data[i] \cap 0..3)
                b == bch_encode_7bit(data[i] \cap 0..6)
                l == ldpc_encode_6bit(data[i] \cap 0..5)
            IN  /\ \A k \in 0..6 : hamming_decode_7bit(SymDiff(h, {k})) = h
                /\ \A j, k \in 0..14 : bch_decode_15bit(SymDiff(b, {j, k})) = b
                /\ \A k \in 0..5 : ldpc_decode_12bit(SymDiff(l, {k})) = l
=============================================================================
