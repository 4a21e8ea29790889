----------------------------- MODULE FtlProofs ------------------------------
(***************************************************************************)
(* Theorems about Ftl, for every size of the device, every number of       *)
(* logical pages and every threshold, and at the end those about FtlPower, *)
(* which runs the same core through snapshots and power cuts.              *)
(***************************************************************************)
EXTENDS FtlPower, NandProofs, SequenceTheorems

LEMMA PPNFacts ==
    /\ \A x \in PPN : x = <<x[1], x[2]>> /\ x[1] \in Block /\ x[2] \in Page
    /\ \A b \in Block, pg \in Page : <<b, pg>> \in PPN
    /\ NoPpn \notin PPN
    /\ NoLpn \notin LPN
BY PairFacts, NandAssumption, FtlAssumption DEF PPN, Block, NoPpn, NoLpn, LPN

LEMMA WearLevelingType ==
    ASSUME NEW n \in NandType
    PROVE  wear_leveling_check(n) \in NandType
<1>1. CASE WearGap(n) /\ \E b \in UserBlock : ColdBlock(n, b)
  BY <1>1, MarkColdType, BlockFacts DEF wear_leveling_check
<1>2. CASE ~(WearGap(n) /\ \E b \in UserBlock : ColdBlock(n, b))
  BY <1>2 DEF wear_leveling_check
<1>3. QED
  BY <1>1, <1>2

-----------------------------------------------------------------------------
(* Type correctness.  TypeOK alone does not say that the logical page a    *)
(* write or a trim is working on exists; OpInv does.                       *)

OpInv ==
    /\ op.call = "write" => op.lpn \in LPN /\ op.data \in Data
    /\ op.call = "trim" => op.end <= TotalLpns
    /\ pc \in {"write", "retry"} => op.call = "write"
    /\ pc = "trim" => op.call = "trim"
    /\ pc = "idle" <=> op.call = "none"

TypeInv == TypeOK /\ OpInv

LEMMA AllocatesType ==
    ASSUME TypeOK, NEW x \in PPN, Allocates(x)
    PROVE  x[1] \in Block /\ x[2] + 1 \in 0..PagesPerBlock
BY PPNFacts, NandAssumption DEF Page, Block

LEMMA ReturnType ==
    ASSUME NEW code \in RetCode, NEW d \in Data \cup {Blank}, Return(code, d)
    PROVE  /\ pc' = "idle" /\ op' = NoOp
           /\ pc' \in {"idle", "write", "retry", "trigger", "gc", "reloc", "trim"}
           /\ op' \in [call : Calls \cup {"none"}, lpn : Nat, end : Nat, data : Data \cup {Blank}]
           /\ job' \in [src : Block, dst : Block, page : 0..PagesPerBlock]
           /\ reply' \in [ret : RetCode, data : Data \cup {Blank}]
           /\ OpInv'
BY NandAssumption DEF Return, NoOp, NoJob, OpInv, Block

LEMMA GcEndType ==
    ASSUME TypeInv, pc \in {"gc", "write", "trigger"},
           NEW code \in {"OK", "NO_SPACE", "INTERNAL", "BAD_BLOCK"}, GcEnd(code)
    PROVE  /\ pc' \in {"idle", "write", "retry", "trigger", "gc", "reloc", "trim"}
           /\ op' \in [call : Calls \cup {"none"}, lpn : Nat, end : Nat, data : Data \cup {Blank}]
           /\ job' \in [src : Block, dst : Block, page : 0..PagesPerBlock]
           /\ reply' \in [ret : RetCode, data : Data \cup {Blank}]
           /\ OpInv'
<1>1. CASE op.call = "write" /\ code = "OK"
  BY <1>1, NandAssumption DEF GcEnd, Busy, NoJob, OpInv, TypeInv, TypeOK, Block
<1>2. CASE ~(op.call = "write" /\ code = "OK")
  <2>1. Return(IF op.call = "write" THEN "NO_SPACE" ELSE code, Blank)
    BY <1>2 DEF GcEnd
  <2>2. (IF op.call = "write" THEN "NO_SPACE" ELSE code) \in RetCode
    BY DEF RetCode
  <2>3. QED
    BY <2>1, <2>2, ReturnType
<1>3. QED
  BY <1>1, <1>2

LEMMA RemapType ==
    ASSUME TypeOK, NEW old \in PPN, NEW new \in PPN,
           reverse_map[old] # NoLpn, Remap(old, new)
    PROVE  /\ l2p' \in [LPN -> PPN \cup {NoPpn}]
           /\ reverse_map' \in [PPN -> LPN \cup {NoLpn}]
BY DEF Remap, TypeOK

LEMMA ReplaceBlockType ==
    ASSUME TypeOK, NEW b \in Block, NEW r, AllocatesReserved(nand, r), ReplaceBlock(b, r)
    PROVE  /\ nand' \in NandType
           /\ l2p' \in [LPN -> PPN \cup {NoPpn}]
           /\ reverse_map' \in [PPN -> LPN \cup {NoLpn}]
           /\ cur_write_block' \in Block
<1>1. r \in Block /\ nand' \in NandType
  BY ReplaceType DEF ReplaceBlock, TypeOK
<1>2. l2p' \in [LPN -> PPN \cup {NoPpn}]
  <2>1. ASSUME NEW l \in LPN, \E pg \in Page : reverse_map[<<b, pg>>] = l
        PROVE  <<r, CHOOSE pg \in Page : reverse_map[<<b, pg>>] = l>> \in PPN
    <3>1. (CHOOSE pg \in Page : reverse_map[<<b, pg>>] = l) \in Page
      BY <2>1
    <3>2. QED
      BY <1>1, <3>1, PPNFacts
  <2>2. QED
    BY <2>1 DEF ReplaceBlock, TypeOK
<1>3. reverse_map' \in [PPN -> LPN \cup {NoLpn}]
  <2>1. ASSUME NEW x \in PPN PROVE <<b, x[2]>> \in PPN
    BY PPNFacts
  <2>2. QED
    BY <2>1 DEF ReplaceBlock, TypeOK
<1>4. cur_write_block' \in Block
  BY <1>1 DEF ReplaceBlock, TypeOK
<1>5. QED
  BY <1>1, <1>2, <1>3, <1>4

LEMMA MovableFacts ==
    ASSUME TypeOK, job.page < PagesPerBlock
    PROVE  Here \in PPN /\ (Movable => nand.media[Here] \in Data \cup {Blank})
BY PPNFacts, NandAssumption DEF Here, Movable, TypeOK, NandType, Page

LEMMA NextPageType ==
    ASSUME TypeInv, job.page < PagesPerBlock, NextPage
    PROVE  /\ job' \in [src : Block, dst : Block, page : 0..PagesPerBlock]
           /\ pc' = pc /\ op' = op /\ reply' = reply
           /\ OpInv'
BY NandAssumption DEF NextPage, TypeInv, TypeOK, OpInv

LEMMA CommitDeviceType ==
    ASSUME TypeInv, op.call = "write", NEW x \in PPN
    PROVE  LET old   == l2p[op.lpn]
               wrote == nand_page_write(nand, x, op.data)
               fresh == IF old = NoPpn THEN wrote ELSE nand_mark_page_invalid(wrote, old)
           IN  /\ fresh \in NandType
               /\ wear_leveling_check(fresh) \in NandType
<1>1. op.lpn \in LPN /\ op.data \in Data /\ nand \in NandType /\ l2p[op.lpn] \in PPN \cup {NoPpn}
  BY DEF TypeInv, TypeOK, OpInv
<1>2. nand_page_write(nand, x, op.data) \in NandType
  BY <1>1, PageWriteType
<1>3. QED
  BY <1>1, <1>2, MarkPageInvalidType, WearLevelingType

LEMMA CommitType ==
    ASSUME TypeInv, op.call = "write", NEW x \in PPN, Commit(x),
           cur_write_block' \in Block, cur_write_page' \in 0..PagesPerBlock, gc_algo' = gc_algo
    PROVE  TypeInv'
<1>1. op.lpn \in LPN /\ op.data \in Data
  BY DEF TypeInv, OpInv
<1>2. nand' \in NandType
  BY CommitDeviceType DEF Commit
<1>3. l2p' \in [LPN -> PPN \cup {NoPpn}]
  BY <1>1 DEF Commit, TypeInv, TypeOK
<1>4. reverse_map' \in [PPN -> LPN \cup {NoLpn}]
  BY <1>1 DEF Commit, TypeInv, TypeOK
<1>5. write_since_last_check' \in Nat
  BY DEF Commit, TypeInv, TypeOK
<1>6. CASE Return("OK", Blank)
  <2>1. "OK" \in RetCode /\ Blank \in Data \cup {Blank}
    BY DEF RetCode
  <2>2. QED
    BY <1>2, <1>3, <1>4, <1>5, <1>6, <2>1, ReturnType DEF TypeInv, TypeOK
<1>7. CASE /\ \E src, dst \in UserBlock : job' = [src |-> src, dst |-> dst, page |-> 0]
           /\ Busy("reloc")
           /\ UNCHANGED op
  <2>1. job' \in [src : Block, dst : Block, page : 0..PagesPerBlock]
    BY <1>7, BlockFacts, NandAssumption
  <2>2. QED
    BY <1>2, <1>3, <1>4, <1>5, <1>7, <2>1 DEF TypeInv, TypeOK, Busy, OpInv
<1>8. QED
  BY <1>6, <1>7 DEF Commit

LEMMA InitType == Init => TypeInv
<1> SUFFICES ASSUME Init PROVE TypeInv
  OBVIOUS
<1>1. nand \in NandType
  BY NewDeviceType DEF Init, NandInit
<1>2. QED
  BY <1>1, NandAssumption DEF Init, TypeInv, TypeOK, OpInv, NoOp, NoJob, GcAlgo, RetCode, Block

LEMMA InternalType == TypeInv /\ Internal => TypeInv'
<1> SUFFICES ASSUME TypeInv, Internal PROVE TypeInv'
  OBVIOUS
<1> USE DEF TypeInv
<1>1. CASE GcBegin
  <2>1. PICK b \in Block : \/ /\ job' = [NoJob EXCEPT !.src = b]
                              /\ Busy("gc") /\ UNCHANGED op
                           \/ GcEnd("NO_SPACE")
    BY <1>1, NandAssumption DEF GcBegin, Block
  <2>2. pc \in {"trigger", "write"}
    BY <1>1 DEF GcBegin
  <2>3. CASE GcEnd("NO_SPACE")
    BY <1>1, <2>2, <2>3, GcEndType DEF GcBegin, TypeOK
  <2>4. CASE job' = [NoJob EXCEPT !.src = b] /\ Busy("gc") /\ UNCHANGED op
    BY <1>1, <2>2, <2>4, NandAssumption DEF GcBegin, TypeOK, OpInv, Busy, NoJob, Block
  <2>5. QED
    BY <2>1, <2>3, <2>4
<1>2. CASE GcSkip
  BY <1>2, NextPageType DEF GcSkip, TypeOK
<1>3. CASE GcMove
  <2>1. PICK x \in PPN : /\ Allocates(x) /\ AdvanceTo(x)
                         /\ \/ /\ nand' = nand_page_write(nand, x, nand.media[Here])
                               /\ Remap(Here, x) /\ NextPage
                            \/ GcEnd("INTERNAL") /\ UNCHANGED <<nand, l2p, reverse_map>>
    BY <1>3 DEF GcMove
  <2>2. cur_write_block' \in Block /\ cur_write_page' \in 0..PagesPerBlock
    BY <2>1, AllocatesType DEF AdvanceTo
  <2>3. pc = "gc" /\ Here \in PPN /\ Movable /\ job.page < PagesPerBlock
        /\ nand.media[Here] \in Data \cup {Blank}
    BY <1>3, MovableFacts DEF GcMove
  <2>4. CASE GcEnd("INTERNAL") /\ UNCHANGED <<nand, l2p, reverse_map>>
    BY <1>3, <2>2, <2>3, <2>4, GcEndType DEF GcMove, TypeOK
  <2>5. CASE nand' = nand_page_write(nand, x, nand.media[Here]) /\ Remap(Here, x) /\ NextPage
    <3>1. nand' \in NandType
      BY <2>3, <2>5, PageWriteType DEF TypeOK
    <3>2. /\ l2p' \in [LPN -> PPN \cup {NoPpn}]
          /\ reverse_map' \in [PPN -> LPN \cup {NoLpn}]
      BY <2>3, <2>5, RemapType DEF Movable
    <3>3. QED
      BY <1>3, <2>2, <2>3, <2>5, <3>1, <3>2, NextPageType DEF GcMove, TypeOK
  <2>6. QED
    BY <2>1, <2>4, <2>5
<1>4. CASE GcOutOfSpace
  BY <1>4, GcEndType DEF GcOutOfSpace, TypeOK
<1>5. CASE GcErase
  <2>1. PICK code \in {"OK", "BAD_BLOCK"} : Erases(nand, job.src, nand', code) /\ GcEnd(code)
    BY <1>5 DEF GcErase
  <2>2. nand' \in NandType
    BY <2>1, EraseType DEF TypeOK
  <2>3. QED
    BY <1>5, <2>1, <2>2, GcEndType DEF GcErase, TypeOK
<1>6. CASE RelocSkip
  BY <1>6, NextPageType DEF RelocSkip, TypeOK
<1>7. CASE RelocMove
  <2> DEFINE x == <<job.dst, job.page>>
  <2>1. x \in PPN /\ Here \in PPN /\ Movable /\ nand.media[Here] \in Data \cup {Blank}
    <3>1. job.page < PagesPerBlock /\ Movable
      BY <1>7 DEF RelocMove
    <3>2. job.page \in Page /\ job.dst \in Block
      BY <3>1, NandAssumption DEF TypeOK, Page
    <3>3. QED
      BY <3>1, <3>2, MovableFacts, PPNFacts
  <2>2. nand' \in NandType
    BY <1>7, <2>1, PageWriteType, MarkPageInvalidType DEF RelocMove, TypeOK
  <2>3. /\ l2p' \in [LPN -> PPN \cup {NoPpn}]
        /\ reverse_map' \in [PPN -> LPN \cup {NoLpn}]
    BY <1>7, <2>1, RemapType DEF RelocMove, Movable
  <2>4. QED
    BY <1>7, <2>2, <2>3, NextPageType DEF RelocMove, TypeOK
<1>8. CASE RelocErase
  <2>1. nand' \in NandType
    BY <1>8, EraseType DEF RelocErase, TypeOK
  <2>2. "OK" \in RetCode
    BY DEF RetCode
  <2>3. QED
    BY <1>8, <2>1, <2>2, ReturnType DEF RelocErase, TypeOK
<1>9. CASE WriteProgram
  <2>1. op.call = "write"
    BY <1>9 DEF WriteProgram, AboutToProgram, OpInv
  <2>2. CASE AllocationFails
    <3>1. Return("NO_SPACE", Blank) /\ "NO_SPACE" \in RetCode
      BY <1>9, <2>2 DEF WriteProgram, RetCode
    <3>2. QED
      BY <1>9, <2>2, <3>1, ReturnType DEF WriteProgram, KeepMap, TypeOK
  <2>3. CASE ~AllocationFails
    <3>1. PICK x \in PPN : /\ Allocates(x) /\ AdvanceTo(x)
                           /\ \/ Commit(x)
                              \/ /\ Return(nand_page_write_ret(nand, x), Blank)
                                 /\ UNCHANGED <<nand, l2p, reverse_map, write_since_last_check>>
      BY <1>9, <2>3 DEF WriteProgram
    <3>2. cur_write_block' \in Block /\ cur_write_page' \in 0..PagesPerBlock
      BY <3>1, AllocatesType DEF AdvanceTo
    <3>3. gc_algo' = gc_algo
      BY <1>9 DEF WriteProgram
    <3>4. CASE Commit(x)
      BY <2>1, <3>2, <3>3, <3>4, CommitType
    <3>5. CASE /\ Return(nand_page_write_ret(nand, x), Blank)
               /\ UNCHANGED <<nand, l2p, reverse_map, write_since_last_check>>
      <4>1. nand_page_write_ret(nand, x) \in RetCode
        BY DEF nand_page_write_ret, RetCode
      <4>2. QED
        BY <3>2, <3>3, <3>5, <4>1, ReturnType DEF TypeOK
    <3>6. QED
      BY <3>1, <3>4, <3>5
  <2>4. QED
    BY <2>2, <2>3
<1>10. CASE WriteMeetsBadBlock
  <2>1. PICK x \in PPN :
           /\ Allocates(x) /\ cur_write_page' = x[2] + 1
           /\ \/ /\ \E r \in ReservedBlock : AllocatesReserved(nand, r) /\ ReplaceBlock(x[1], r)
                 /\ Busy("retry") /\ UNCHANGED <<op, job>>
              \/ KeepMap /\ Return("NO_SPACE", Blank)
    BY <1>10 DEF WriteMeetsBadBlock
  <2>2. x[1] \in Block /\ cur_write_page' \in 0..PagesPerBlock /\ op.call = "write"
    BY <1>10, <2>1, AllocatesType DEF WriteMeetsBadBlock, OpInv
  <2>3. CASE KeepMap /\ Return("NO_SPACE", Blank)
    BY <1>10, <2>2, <2>3, ReturnType DEF WriteMeetsBadBlock, KeepMap, TypeOK, RetCode
  <2>4. CASE /\ \E r \in ReservedBlock : AllocatesReserved(nand, r) /\ ReplaceBlock(x[1], r)
             /\ Busy("retry") /\ UNCHANGED <<op, job>>
    BY <1>10, <2>2, <2>4, ReplaceBlockType DEF WriteMeetsBadBlock, TypeOK, OpInv, Busy
  <2>5. QED
    BY <2>1, <2>3, <2>4
<1>11. CASE TrimPage
  <2>1. op.lpn \in LPN
    BY <1>11, FtlAssumption DEF TrimPage, OpInv, TypeOK, LPN
  <2>2. l2p[op.lpn] # NoPpn => l2p[op.lpn] \in PPN
    BY <2>1 DEF TypeOK
  <2>3. nand' \in NandType
    BY <1>11, <2>2, MarkPageInvalidType DEF TrimPage, TypeOK
  <2>4. /\ l2p' \in [LPN -> PPN \cup {NoPpn}]
        /\ reverse_map' \in [PPN -> LPN \cup {NoLpn}]
    BY <1>11, <2>1, <2>2 DEF TrimPage, TypeOK
  <2>5. /\ op' \in [call : Calls \cup {"none"}, lpn : Nat, end : Nat, data : Data \cup {Blank}]
        /\ op'.call = op.call /\ op'.end = op.end /\ op.call = "trim"
    BY <1>11 DEF TrimPage, TypeOK, OpInv
  <2>6. QED
    BY <1>11, <2>3, <2>4, <2>5 DEF TrimPage, TypeOK, OpInv
<1>12. CASE TrimDone
  BY <1>12, ReturnType DEF TrimDone, KeepMap, TypeOK, RetCode
<1>13. QED
  BY <1>1, <1>2, <1>3, <1>4, <1>5, <1>6, <1>7, <1>8, <1>9, <1>10, <1>11, <1>12
     DEF Internal, GcStep, RelocStep, WriteStep, TrimStep

LEMMA BeginType ==
    ASSUME TypeInv, NEW where \in {"write", "trigger", "trim"}, NEW o, Begin(where, o),
           o \in [call : Calls \cup {"none"}, lpn : Nat, end : Nat, data : Data \cup {Blank}],
           where = "write" => o.call = "write" /\ o.lpn \in LPN /\ o.data \in Data,
           where = "trim" => o.call = "trim" /\ o.end <= TotalLpns,
           where = "trigger" => o.call = "gc"
    PROVE  TypeInv'
BY DEF TypeInv, TypeOK, OpInv, Begin, Busy

LEMMA ArrivalType == TypeInv /\ Arrival => TypeInv'
<1> SUFFICES ASSUME TypeInv, Arrival PROVE TypeInv'
  OBVIOUS
<1> USE DEF TypeInv
<1>1. ASSUME NEW l \in LPN, NEW d \in Data, CallWrite(l, d) PROVE TypeInv'
  <2> DEFINE o == [NoOp EXCEPT !.call = "write", !.lpn = l, !.data = d]
  <2>1. /\ o \in [call : Calls \cup {"none"}, lpn : Nat, end : Nat, data : Data \cup {Blank}]
        /\ o.call = "write" /\ o.lpn = l /\ o.data = d
    <3>1. l \in Nat /\ "write" \in Calls
      BY <1>1, FtlAssumption DEF CallWrite, LPN
    <3>2. QED
      BY <3>1 DEF NoOp
  <2>2. Begin("write", o)
    BY <1>1 DEF CallWrite
  <2>3. QED
    BY <2>1, <2>2, BeginType
<1>2. ASSUME NEW l \in LPN, CallRead(l) PROVE TypeInv'
  <2> DEFINE code == IF l2p[l] = NoPpn THEN "NOT_MAPPED" ELSE nand_page_read_ret(nand, l2p[l])
             d    == IF code = "OK" THEN nand.media[l2p[l]] ELSE Blank
  <2>1. Return(code, d)
    BY <1>2 DEF CallRead
  <2>2. code \in RetCode
    BY DEF RetCode, nand_page_read_ret
  <2>3. d \in Data \cup {Blank}
    BY DEF TypeOK, NandType
  <2>4. QED
    BY <1>2, <2>1, <2>2, <2>3, ReturnType DEF CallRead, KeepMap, TypeOK
<1>3. ASSUME NEW l \in LPN, CallReadBadBlock(l) PROVE TypeInv'
  <2>1. l2p[l][1] \in Block
    BY <1>3, PPNFacts DEF CallReadBadBlock, TypeOK
  <2>2. Return("BAD_BLOCK", Blank) /\ "BAD_BLOCK" \in RetCode
    BY <1>3 DEF CallReadBadBlock, RetCode
  <2>3. CASE KeepMap
    BY <1>3, <2>2, <2>3, ReturnType DEF CallReadBadBlock, KeepMap, TypeOK
  <2>4. CASE \E r \in ReservedBlock : AllocatesReserved(nand, r) /\ ReplaceBlock(l2p[l][1], r)
    BY <1>3, <2>1, <2>2, <2>4, ReturnType, ReplaceBlockType DEF CallReadBadBlock, TypeOK
  <2>5. QED
    BY <1>3, <2>3, <2>4 DEF CallReadBadBlock
<1>4. ASSUME NEW l \in LPN, NEW c \in TrimCounts, CallTrim(l, c) PROVE TypeInv'
  <2> DEFINE o == [NoOp EXCEPT !.call = "trim", !.lpn = l, !.end = TrimEnd(l, c)]
  <2>1. TrimEnd(l, c) \in Nat /\ TrimEnd(l, c) <= TotalLpns
    BY FtlAssumption DEF TrimEnd, LPN
  <2>2. /\ o \in [call : Calls \cup {"none"}, lpn : Nat, end : Nat, data : Data \cup {Blank}]
        /\ o.call = "trim" /\ o.end <= TotalLpns
    <3>1. l \in Nat /\ "trim" \in Calls
      BY <1>4, FtlAssumption DEF CallTrim, LPN
    <3>2. QED
      BY <2>1, <3>1 DEF NoOp
  <2>3. Begin("trim", o)
    BY <1>4 DEF CallTrim
  <2>4. QED
    BY <2>2, <2>3, BeginType
<1>5. ASSUME CallTriggerGc PROVE TypeInv'
  <2> DEFINE o == [NoOp EXCEPT !.call = "gc"]
  <2>1. /\ o \in [call : Calls \cup {"none"}, lpn : Nat, end : Nat, data : Data \cup {Blank}]
        /\ o.call = "gc"
    BY <1>5 DEF CallTriggerGc, NoOp
  <2>2. Begin("trigger", o)
    BY <1>5 DEF CallTriggerGc
  <2>3. QED
    BY <2>1, <2>2, BeginType
<1>6. ASSUME NEW a \in Algos, CallSetGcAlgo(a) PROVE TypeInv'
  BY <1>6, FtlAssumption DEF CallSetGcAlgo, KeepMap, TypeOK, OpInv
<1>7. ASSUME NEW b \in Block, CallReplaceBadBlock(b) PROVE TypeInv'
  <2>1. PICK code \in {"OK", "PARAM", "NO_SPACE"} : Return(code, Blank)
    BY <1>7 DEF CallReplaceBadBlock
  <2>2. code \in RetCode
    BY DEF RetCode
  <2>3. CASE KeepMap
    BY <1>7, <2>1, <2>2, <2>3, ReturnType DEF CallReplaceBadBlock, KeepMap, TypeOK
  <2>4. CASE \E r \in ReservedBlock : AllocatesReserved(nand, r) /\ ReplaceBlock(b, r)
    BY <1>7, <2>1, <2>2, <2>4, ReturnType, ReplaceBlockType DEF CallReplaceBadBlock, TypeOK
  <2>5. QED
    BY <1>7, <2>3, <2>4 DEF CallReplaceBadBlock
<1>8. ASSUME CallHandleReadDisturb PROVE TypeInv'
  <2>1. CASE Return("NO_SPACE", Blank)
    BY <1>8, <2>1, ReturnType DEF CallHandleReadDisturb, KeepMap, TypeOK, RetCode
  <2>2. CASE \E src, dst \in Block :
               /\ op' = [NoOp EXCEPT !.call = "disturb"]
               /\ job' = [src |-> src, dst |-> dst, page |-> 0]
               /\ Busy("reloc")
    BY <1>8, <2>2, NandAssumption DEF CallHandleReadDisturb, KeepMap, TypeOK, OpInv, NoOp, Busy
  <2>3. QED
    BY <1>8, <2>1, <2>2 DEF CallHandleReadDisturb
<1>9. QED
  BY <1>1, <1>2, <1>3, <1>4, <1>5, <1>6, <1>7, <1>8 DEF Arrival

LEMMA StutterType == TypeInv /\ UNCHANGED vars => TypeInv'
BY DEF TypeInv, TypeOK, OpInv, vars, ftlVars

LEMMA StepType == TypeInv /\ [Next]_vars => TypeInv'
BY InternalType, ArrivalType, StutterType DEF Next, LifetimeEnds

(* Every reachable state of the FTL is well typed: the maps stay within    *)
(* the device and the logical range, the write point stays in the device,  *)
(* whatever blocks fail and whichever calls are made.                      *)
THEOREM TypeCorrect == Spec => []TypeOK
<1>1. Spec => []TypeInv
  BY InitType, StepType, PTL DEF Spec
<1>2. TypeInv => TypeOK
  BY DEF TypeInv
<1>3. QED
  BY <1>1, <1>2, PTL
-----------------------------------------------------------------------------
(* The reverse map.  Its soundness is inductive on its own: each handler    *)
(* that enters a page into it redirects the logical page in the same step, *)
(* and removes the entry of the copy it replaces.                          *)

LEMMA RemapSound ==
    ASSUME TypeInv, ReverseMapSound, NEW old \in PPN, NEW new \in PPN,
           reverse_map[old] # NoLpn, Remap(old, new)
    PROVE  ReverseMapSound'
BY PPNFacts DEF TypeInv, TypeOK, ReverseMapSound, Remap

LEMMA ReplaceBlockSound ==
    ASSUME TypeInv, ReverseMapSound, NEW b \in Block, NEW r \in Block, ReplaceBlock(b, r)
    PROVE  ReverseMapSound'
<1> SUFFICES ASSUME NEW x \in PPN, reverse_map'[x] # NoLpn
             PROVE  l2p'[reverse_map'[x]] = x
  BY DEF ReverseMapSound
<1> USE DEF TypeInv, TypeOK
<1>1. x = <<x[1], x[2]>> /\ x[1] \in Block /\ x[2] \in Page /\ x[1] # b
  BY PPNFacts DEF ReplaceBlock
<1>2. \A pg \in Page : /\ <<b, pg>> \in PPN
                       /\ reverse_map[<<b, pg>>] # NoLpn =>
                             l2p[reverse_map[<<b, pg>>]] = <<b, pg>>
  BY PPNFacts DEF ReverseMapSound
<1>3. CASE x[1] = r /\ reverse_map[<<b, x[2]>>] # NoLpn
  <2> DEFINE l == reverse_map[<<b, x[2]>>]
  <2>1. reverse_map'[x] = l /\ l \in LPN
    BY <1>1, <1>2, <1>3 DEF ReplaceBlock
  <2>2. \A pg \in Page : reverse_map[<<b, pg>>] = l => pg = x[2]
    BY <1>1, <1>2, <1>3
  <2>3. (CHOOSE pg \in Page : reverse_map[<<b, pg>>] = l) = x[2]
    BY <1>1, <2>2
  <2>4. l2p'[l] = <<r, CHOOSE pg \in Page : reverse_map[<<b, pg>>] = l>>
    <3>1. \E pg \in Page : reverse_map[<<b, pg>>] = l
      BY <1>1
    <3> HIDE DEF l
    <3>2. QED
      BY <2>1, <3>1 DEF ReplaceBlock
  <2>5. QED
    BY <1>1, <1>3, <2>1, <2>3, <2>4
<1>4. CASE ~(x[1] = r /\ reverse_map[<<b, x[2]>>] # NoLpn)
  <2>1. reverse_map'[x] = reverse_map[x] /\ reverse_map[x] \in LPN
    BY <1>1, <1>4 DEF ReplaceBlock
  <2>2. l2p[reverse_map[x]] = x
    BY <2>1, PPNFacts DEF ReverseMapSound
  <2>3. ASSUME NEW pg \in Page, reverse_map[<<b, pg>>] = reverse_map[x] PROVE FALSE
    <3>1. l2p[reverse_map[x]] = <<b, pg>>
      BY <1>2, <2>1, <2>3, PPNFacts
    <3>2. QED
      BY <1>1, <2>2, <3>1
  <2>4. QED
    BY <2>1, <2>2, <2>3 DEF ReplaceBlock
<1>5. QED
  BY <1>3, <1>4

LEMMA ReverseMapStep == TypeInv /\ ReverseMapSound /\ [Next]_vars => ReverseMapSound'
<1> SUFFICES ASSUME TypeInv, ReverseMapSound, [Next]_vars PROVE ReverseMapSound'
  OBVIOUS
<1> DEFINE Kept == UNCHANGED <<l2p, reverse_map>>
<1>1. Kept => ReverseMapSound'
  BY DEF ReverseMapSound
<1>2. CASE GcMove
  <2>1. Here \in PPN /\ reverse_map[Here] # NoLpn
    BY <1>2, MovableFacts DEF GcMove, Movable, TypeInv
  <2>2. QED
    BY <1>1, <1>2, <2>1, RemapSound DEF GcMove
<1>3. CASE RelocMove
  <2>1. Here \in PPN /\ reverse_map[Here] # NoLpn
    BY <1>3, MovableFacts DEF RelocMove, Movable, TypeInv
  <2>2. <<job.dst, job.page>> \in PPN
    BY <1>3, <2>1, PPNFacts DEF RelocMove, TypeInv, TypeOK, Here
  <2>3. QED
    BY <1>3, <2>1, <2>2, RemapSound DEF RelocMove
<1>4. CASE WriteProgram
  <2>1. op.lpn \in LPN
    BY <1>4 DEF WriteProgram, AboutToProgram, TypeInv, OpInv
  <2>2. ASSUME NEW x \in PPN, Commit(x) PROVE ReverseMapSound'
    BY <2>1, <2>2, PPNFacts DEF Commit, TypeInv, TypeOK, ReverseMapSound
  <2>3. QED
    BY <1>1, <1>4, <2>2 DEF WriteProgram, KeepMap
<1>5. CASE TrimPage
  <2>1. op.lpn \in LPN
    BY <1>5, FtlAssumption DEF TrimPage, TypeInv, OpInv, TypeOK, LPN
  <2>2. QED
    BY <1>1, <1>5, <2>1, PPNFacts DEF TrimPage, TypeInv, TypeOK, ReverseMapSound
<1>6. CASE WriteMeetsBadBlock
  BY <1>1, <1>6, ReplaceBlockSound, PPNFacts, BlockFacts DEF WriteMeetsBadBlock, KeepMap
<1>7. ASSUME NEW b \in Block, CallReplaceBadBlock(b) PROVE ReverseMapSound'
  BY <1>1, <1>7, ReplaceBlockSound, BlockFacts DEF CallReplaceBadBlock, KeepMap
<1>8. ASSUME NEW l \in LPN, CallReadBadBlock(l) PROVE ReverseMapSound'
  <2>1. l2p[l][1] \in Block
    BY <1>8, PPNFacts DEF CallReadBadBlock, TypeInv, TypeOK
  <2>2. QED
    BY <1>1, <1>8, <2>1, ReplaceBlockSound, BlockFacts DEF CallReadBadBlock, KeepMap
<1>9. CASE GcBegin \/ GcSkip \/ GcOutOfSpace \/ GcErase \/ RelocSkip \/ RelocErase \/ TrimDone
  BY <1>1, <1>9 DEF GcBegin, GcSkip, GcOutOfSpace, GcErase, RelocSkip, RelocErase, TrimDone, KeepMap
<1>10. CASE Arrival
  <2>1. ASSUME NEW l \in LPN, NEW d \in Data, CallWrite(l, d) PROVE Kept
    BY <2>1 DEF CallWrite, Begin
  <2>2. ASSUME NEW l \in LPN, CallRead(l) PROVE Kept
    BY <2>2 DEF CallRead, KeepMap
  <2>3. ASSUME NEW l \in LPN, NEW c \in TrimCounts, CallTrim(l, c) PROVE Kept
    BY <2>3 DEF CallTrim, Begin
  <2>4. CallTriggerGc \/ CallHandleReadDisturb \/ (\E a \in Algos : CallSetGcAlgo(a)) => Kept
    BY DEF CallTriggerGc, Begin, CallHandleReadDisturb, CallSetGcAlgo, KeepMap
  <2>5. QED
    BY <1>1, <1>7, <1>8, <1>10, <2>1, <2>2, <2>3, <2>4 DEF Arrival
<1>11. CASE LifetimeEnds \/ UNCHANGED vars
  BY <1>1, <1>11 DEF LifetimeEnds, vars, ftlVars
<1>12. QED
  BY <1>2, <1>3, <1>4, <1>5, <1>6, <1>9, <1>10, <1>11
     DEF Next, Internal, GcStep, RelocStep, WriteStep, TrimStep

(* Whatever fails and whichever calls are made, an entry of the reverse    *)
(* map names the logical page whose current copy it is, so moving a block  *)
(* by it (gc_do_recycle, the relocations, ftl_replace_bad_block) never     *)
(* redirects a logical page to an outdated copy.                           *)
THEOREM ReverseMapCorrect == Spec => []ReverseMapSound
<1>1. Init => ReverseMapSound
  BY DEF Init, ReverseMapSound
<1>2. Spec => [](TypeInv /\ ReverseMapSound)
  BY <1>1, InitType, StepType, ReverseMapStep, PTL DEF Spec
<1>3. QED
  BY <1>2, PTL

-----------------------------------------------------------------------------
(* The core of Ftl (writing, reading, trimming and garbage collection with *)
(* static wear levelling, no forced relocation), for every device: no data *)
(* are lost, and the FTL implements LogicalDisk.                           *)


(* The entry points of the core.  ftl_handle_read_disturb may relocate     *)
(* into the block being filled, and ftl_replace_bad_block may be called    *)
(* for a block that is not bad: neither is part of it.                     *)
CoreCalls == Calls \subseteq {"write", "read", "trim", "gc", "algo"}

(* The erase counts are within FTL_WEAR_DIFF_THRESHOLD of each other, so   *)
(* wear_leveling_check does not overwrite the counter of a block.          *)
Level == ~WearGap(nand)

-----------------------------------------------------------------------------
(* The counters of valid pages.                                            *)

Counted(n) == \A b \in Block : n.valid_page_cnt[b] = Cardinality(ValidPagesOf(n, b))
FreeEmpty(n) == \A b \in Block : n.state[b] = "FREE" => ValidPagesOf(n, b) = {}

LEMMA ValidPagesFinite ==
    ASSUME NEW n, NEW b
    PROVE  /\ IsFiniteSet(ValidPagesOf(n, b))
           /\ Cardinality(ValidPagesOf(n, b)) \in 0..PagesPerBlock
<1>1. ValidPagesOf(n, b) \subseteq Page
  BY DEF ValidPagesOf
<1>2. IsFiniteSet(ValidPagesOf(n, b)) /\ Cardinality(ValidPagesOf(n, b)) <= PagesPerBlock
  BY <1>1, PageFinite, FS_Subset
<1>3. QED
  BY <1>2, FS_CardinalityType, NandAssumption

LEMMA WriteCounted ==
    ASSUME NEW n \in NandType, Counted(n), FreeEmpty(n), NEW x \in PPN, x \notin n.page_valid,
           NEW d, NEW m, m = nand_page_write(n, x, d)
    PROVE  Counted(m) /\ FreeEmpty(m)
<1>1. /\ m.page_valid = n.page_valid \cup {x}
      /\ \A b \in Block : m.valid_page_cnt[b] = IF b = x[1] THEN Inc(n.valid_page_cnt[b])
                                                ELSE n.valid_page_cnt[b]
      /\ \A b \in Block : m.state[b] = IF b = x[1] THEN "USED" ELSE n.state[b]
  BY PageWriteEffect
<1>2. x = <<x[1], x[2]>> /\ x[1] \in Block /\ x[2] \in Page
  BY PairFacts
<1>3. \A b \in Block : b # x[1] => ValidPagesOf(m, b) = ValidPagesOf(n, b)
  BY <1>1, <1>2 DEF ValidPagesOf
<1>4. ValidPagesOf(m, x[1]) = ValidPagesOf(n, x[1]) \cup {x[2]} /\ x[2] \notin ValidPagesOf(n, x[1])
  BY <1>1, <1>2 DEF ValidPagesOf
<1>5. Cardinality(ValidPagesOf(m, x[1])) = Cardinality(ValidPagesOf(n, x[1])) + 1
  BY <1>4, ValidPagesFinite, FS_AddElement
<1>6. Cardinality(ValidPagesOf(n, x[1])) + 1 <= PagesPerBlock
  BY <1>5, ValidPagesFinite
<1>7. Inc(n.valid_page_cnt[x[1]]) = Cardinality(ValidPagesOf(m, x[1]))
  BY <1>2, <1>5, <1>6, ValidPagesFinite, NandAssumption DEF Counted, Inc
<1>8. QED
  BY <1>1, <1>2, <1>3, <1>7 DEF Counted, FreeEmpty

LEMMA InvalidCounted ==
    ASSUME NEW n \in NandType, Counted(n), FreeEmpty(n), NEW x \in PPN, x \in n.page_valid,
           n.state[x[1]] # "BAD", NEW m, m = nand_mark_page_invalid(n, x)
    PROVE  Counted(m) /\ FreeEmpty(m)
<1> DEFINE c == Dec(n.valid_page_cnt[x[1]])
<1>1. /\ m.page_valid = n.page_valid \ {x}
      /\ \A b \in Block : m.valid_page_cnt[b] = IF b = x[1] THEN c ELSE n.valid_page_cnt[b]
      /\ \A b \in Block : m.state[b] = IF b = x[1] /\ c = 0 THEN "FREE" ELSE n.state[b]
  BY MarkPageInvalidEffect
<1>2. x = <<x[1], x[2]>> /\ x[1] \in Block /\ x[2] \in Page
  BY PairFacts
<1>3. \A b \in Block : b # x[1] => ValidPagesOf(m, b) = ValidPagesOf(n, b)
  BY <1>1, <1>2 DEF ValidPagesOf
<1>4. ValidPagesOf(m, x[1]) = ValidPagesOf(n, x[1]) \ {x[2]} /\ x[2] \in ValidPagesOf(n, x[1])
  BY <1>1, <1>2 DEF ValidPagesOf
<1>5. Cardinality(ValidPagesOf(m, x[1])) = Cardinality(ValidPagesOf(n, x[1])) - 1
  <2> DEFINE S == ValidPagesOf(n, x[1])
  <2>1. IsFiniteSet(S)
    BY ValidPagesFinite
  <2> HIDE DEF S
  <2>2. Cardinality(S \ {x[2]}) = IF x[2] \in S THEN Cardinality(S) - 1 ELSE Cardinality(S)
    BY <2>1, FS_RemoveElement
  <2>3. QED
    BY <1>4, <2>2 DEF S
<1>6. c = Cardinality(ValidPagesOf(m, x[1]))
  <2>1. n.valid_page_cnt[x[1]] = Cardinality(ValidPagesOf(n, x[1]))
    BY <1>2 DEF Counted
  <2>2. Cardinality(ValidPagesOf(m, x[1])) \in Nat /\ Cardinality(ValidPagesOf(n, x[1])) \in Nat
    BY ValidPagesFinite
  <2>3. QED
    BY <1>5, <2>1, <2>2 DEF Dec
<1>7. c = 0 => ValidPagesOf(m, x[1]) = {}
  BY <1>6, ValidPagesFinite, FS_EmptySet
<1>8. n.state[x[1]] # "FREE"
  BY <1>2, <1>4 DEF FreeEmpty
<1> HIDE DEF c
<1>9. QED
  BY <1>1, <1>2, <1>3, <1>6, <1>7, <1>8 DEF Counted, FreeEmpty

LEMMA EraseCounted ==
    ASSUME NEW n \in NandType, Counted(n), FreeEmpty(n), NEW b \in Block, NEW m,
           m = n \/ WornOut(n, b, m) \/ Emptied(n, b, m)
    PROVE  Counted(m) /\ FreeEmpty(m)
<1>1. CASE m = n
  BY <1>1
<1>2. CASE WornOut(n, b, m)
  BY <1>2 DEF WornOut, Counted, FreeEmpty, ValidPagesOf, NandType
<1>3. CASE Emptied(n, b, m)
  <2>1. \A c \in Block : ValidPagesOf(m, c) = IF c = b THEN {} ELSE ValidPagesOf(n, c)
    BY <1>3 DEF Emptied, ValidPagesOf, PagesOf
  <2>2. Cardinality({}) = 0
    BY FS_EmptySet
  <2>3. QED
    BY <1>3, <2>1, <2>2 DEF Emptied, Counted, FreeEmpty, NandType
<1>4. QED
  BY <1>1, <1>2, <1>3

-----------------------------------------------------------------------------
(* The invariant.  The properties of Ftl about lost data need each other,  *)
(* and three facts more: what is stored on a mapped page is a payload of   *)
(* the host, how far the loops over the pages of a block have come, and    *)
(* that the pages still to be handed out are not mapped.  (That they are   *)
(* not even valid, FrontierClean, is shown on top of this invariant: it    *)
(* does not survive a restart, and the rest does.)                         *)

(* What a logical page holds, once its physical page is known readable.    *)
Stored(l) == IF l2p[l] = NoPpn THEN Blank ELSE nand.media[l2p[l]]

MappedData == \A l \in LPN : l2p[l] # NoPpn => nand.media[l2p[l]] \in Data

(* The pages of the source the scan has passed hold no logical page; the   *)
(* target of a relocation is another block, which is not being filled, and *)
(* the offsets still to come are not programmed there.                     *)
ScanInv ==
    /\ pc \in {"gc", "reloc"} =>
          \A pg \in Page : pg < job.page => reverse_map[<<job.src, pg>>] = NoLpn
    /\ pc = "reloc" =>
          /\ job.dst # job.src /\ job.dst # cur_write_block
          /\ nand.state[job.dst] # "BAD"
          /\ \A pg \in Page : pg >= job.page => <<job.dst, pg>> \notin nand.page_valid

(* Which call a step works for.                                            *)
CallInv ==
    /\ op.call \in {"none", "write", "trim", "gc"}
    /\ pc = "trigger" => op.call = "gc"
    /\ pc = "gc" => op.call \in {"gc", "write"}
    /\ pc = "reloc" => op.call = "write"

FrontierUnmapped ==
    \A l \in LPN : l2p[l] # NoPpn /\ l2p[l][1] = cur_write_block => l2p[l][2] < cur_write_page

SpaceInv == CountExact /\ FreeBlocksEmpty /\ FrontierUnmapped
DataInv  == MappedPagesReachable /\ MappedData
BaseInv  == TypeInv /\ ReverseMapSound
CoreInv  == BaseInv /\ SpaceInv /\ DataInv /\ ScanInv /\ CallInv

LEMMA SpaceOf ==
    SpaceInv <=> Counted(nand) /\ FreeEmpty(nand) /\ FrontierUnmapped
BY DEF SpaceInv, CountExact, FreeBlocksEmpty, Counted, FreeEmpty

(* The allocator hands out the next page of the block being filled, or the *)
(* first one of a free block.                                              *)
LEMMA AllocatedPage ==
    ASSUME NEW x \in PPN, Allocates(x)
    PROVE  \/ x[1] = cur_write_block /\ x[2] = cur_write_page
           \/ x[2] = 0 /\ nand.state[x[1]] = "FREE"
BY DEF Allocates, FindsNextFree, FreeFrom, FreeBelow

LEMMA Writable ==
    ASSUME NEW x, nand_page_write_ret(nand, x) = "OK"
    PROVE  x \notin nand.page_valid /\ nand.state[x[1]] # "BAD"
BY DEF nand_page_write_ret

(* A valid page of a block is on a block that is not FREE.                 *)
LEMMA ValidNotFree ==
    ASSUME TypeOK, SpaceInv, NEW x \in PPN, x \in nand.page_valid
    PROVE  nand.state[x[1]] # "FREE"
BY PairFacts DEF SpaceInv, FreeBlocksEmpty, ValidPagesOf

(* The mapped pages: valid, on usable blocks, known to the reverse map.    *)
LEMMA MappedFacts ==
    ASSUME TypeOK, DataInv, NEW l \in LPN, l2p[l] # NoPpn
    PROVE  /\ l2p[l] \in PPN /\ l2p[l] \in nand.page_valid
           /\ nand.state[l2p[l][1]] # "BAD"
           /\ reverse_map[l2p[l]] = l
           /\ nand.media[l2p[l]] \in Data
BY DEF TypeOK, DataInv, MappedPagesReachable, MappedData, nand_page_read_ret

(* The write point moves past the page that was handed out, and no other   *)
(* page becomes a mapped one.                                              *)
LEMMA FrontierAdvances ==
    ASSUME TypeOK, SpaceInv, DataInv, NEW x \in PPN, Allocates(x), AdvanceTo(x),
           \A l \in LPN : l2p'[l] \in {l2p[l], x}
    PROVE  FrontierUnmapped'
<1> SUFFICES ASSUME NEW l \in LPN, l2p'[l] # NoPpn, l2p'[l][1] = x[1]
             PROVE  l2p'[l][2] < x[2] + 1
  BY DEF FrontierUnmapped, AdvanceTo
<1>1. x[1] \in Block /\ x[2] \in Nat
  BY PairFacts, NandAssumption DEF Page
<1>2. CASE l2p'[l] = x
  BY <1>1, <1>2
<1>3. CASE l2p'[l] = l2p[l]
  <2>1. l2p[l] \in PPN /\ l2p[l] \in nand.page_valid /\ l2p[l][2] \in Nat
    BY <1>3, MappedFacts, PairFacts, NandAssumption DEF Page
  <2>2. nand.state[l2p[l][1]] # "FREE"
    BY <2>1, ValidNotFree
  <2>3. x[1] = cur_write_block /\ x[2] = cur_write_page
    BY <1>3, <2>2, AllocatedPage
  <2>4. l2p[l][2] < x[2]
    BY <1>3, <2>3 DEF SpaceInv, FrontierUnmapped
  <2>5. QED
    BY <1>1, <1>3, <2>1, <2>4
<1>4. QED
  BY <1>2, <1>3

(* A step that keeps the maps, the payloads, and the mapped pages valid on *)
(* usable blocks, keeps the data.                                          *)
LEMMA MapsKept ==
    ASSUME TypeOK, TypeOK', DataInv, UNCHANGED <<l2p, reverse_map>>,
           nand'.media = nand.media,
           \A l \in LPN : l2p[l] # NoPpn =>
              l2p[l] \in nand'.page_valid /\ nand'.state[l2p[l][1]] # "BAD"
    PROVE  DataInv' /\ \A l \in LPN : Stored(l)' = Stored(l)
<1>1. \A l \in LPN : l2p'[l] # NoPpn =>
              /\ l2p'[l] \in nand'.page_valid
              /\ nand'.state[l2p'[l][1]] # "BAD"
              /\ reverse_map'[l2p'[l]] = l
              /\ nand'.media[l2p'[l]] \in Data
  BY MappedFacts
<1>2. DataInv'
  BY <1>1 DEF DataInv, MappedPagesReachable, MappedData, nand_page_read_ret
<1>3. QED
  BY <1>2 DEF Stored

(* Redirecting a logical page from old to a programmed copy at new.        *)
LEMMA RemapData ==
    ASSUME TypeOK, ReverseMapSound, DataInv, NEW old \in PPN, NEW new \in PPN,
           reverse_map[old] # NoLpn, new \notin nand.page_valid, Remap(old, new),
           new \in nand'.page_valid, nand'.state[new[1]] # "BAD",
           \A y \in nand.page_valid : y # old => y \in nand'.page_valid,
           \A b \in Block : nand.state[b] # "BAD" => nand'.state[b] # "BAD",
           \A y \in PPN : nand'.media[y] = IF y = new THEN nand.media[old] ELSE nand.media[y]
    PROVE  DataInv' /\ \A l \in LPN : Stored(l)' = Stored(l)
<1> DEFINE k == reverse_map[old]
<1>1. k \in LPN /\ l2p[k] = old /\ old # NoPpn /\ new # NoPpn /\ old # new /\ old[1] \in Block
  <2>1. k \in LPN /\ l2p[k] = old /\ old # NoPpn /\ new # NoPpn /\ old[1] \in Block
    BY PPNFacts DEF TypeOK, ReverseMapSound
  <2>2. old \in nand.page_valid
    BY <2>1, MappedFacts
  <2>3. QED
    BY <2>1, <2>2
<1>2. l2p' = [l2p EXCEPT ![k] = new] /\ reverse_map' = [reverse_map EXCEPT ![new] = k, ![old] = NoLpn]
  BY DEF Remap
<1> HIDE DEF k
<1>3. ASSUME NEW l \in LPN, l2p'[l] # NoPpn
      PROVE  /\ l2p'[l] \in nand'.page_valid
             /\ nand'.state[l2p'[l][1]] # "BAD"
             /\ reverse_map'[l2p'[l]] = l
             /\ nand'.media[l2p'[l]] \in Data
             /\ nand'.media[l2p'[l]] = nand.media[l2p[l]]
  <2>1. CASE l = k
    <3>1. l2p'[l] = new /\ reverse_map'[new] = k
      BY <1>1, <1>2, <2>1 DEF TypeOK
    <3>2. nand.media[old] \in Data
      BY <1>1, MappedFacts
    <3>3. QED
      BY <1>1, <2>1, <3>1, <3>2
  <2>2. CASE l # k
    <3>1. l2p'[l] = l2p[l] /\ l2p[l] # NoPpn
      BY <1>1, <1>2, <1>3, <2>2 DEF TypeOK
    <3>2. /\ l2p[l] \in PPN /\ l2p[l] \in nand.page_valid
          /\ nand.state[l2p[l][1]] # "BAD"
          /\ reverse_map[l2p[l]] = l
          /\ nand.media[l2p[l]] \in Data
      BY <3>1, MappedFacts
    <3>3. l2p[l] # old /\ l2p[l] # new /\ l2p[l][1] \in Block
      BY <2>2, <3>2, PairFacts DEF k
    <3>4. QED
      BY <1>2, <3>1, <3>2, <3>3 DEF TypeOK
  <2>3. QED
    BY <2>1, <2>2
<1>4. DataInv'
  BY <1>3 DEF DataInv, MappedPagesReachable, MappedData, nand_page_read_ret
<1>5. \A l \in LPN : l2p'[l] = NoPpn <=> l2p[l] = NoPpn
  BY <1>1, <1>2 DEF TypeOK
<1>6. QED
  BY <1>3, <1>4, <1>5 DEF Stored

-----------------------------------------------------------------------------
(* The steps, one by one.                                                  *)

SameContent == \A l \in LPN : Stored(l)' = Stored(l)

LEMMA GcEndFacts ==
    ASSUME NEW code, GcEnd(code)
    PROVE  pc' \in {"idle", "write"}
BY DEF GcEnd, Return, Busy

LEMMA ScanOver ==
    ASSUME pc' \notin {"gc", "reloc"}
    PROVE  ScanInv'
BY DEF ScanInv

(* A step that leaves the device, the maps and the write point alone.      *)
LEMMA QuietStep ==
    ASSUME CoreInv, TypeOK', UNCHANGED <<nand, l2p, reverse_map, cur_write_block, cur_write_page>>
    PROVE  SpaceInv' /\ DataInv' /\ SameContent
<1>1. SpaceInv'
  BY DEF CoreInv, SpaceInv, CountExact, FreeBlocksEmpty, FrontierUnmapped, ValidPagesOf
<1>2. DataInv'
  BY DEF CoreInv, DataInv, MappedPagesReachable, MappedData, nand_page_read_ret
<1>3. QED
  BY <1>1, <1>2 DEF SameContent, Stored

(* A step that only moves the write point past the page it was given.      *)
LEMMA SkippedPage ==
    ASSUME CoreInv, TypeOK', NEW x \in PPN, Allocates(x), AdvanceTo(x),
           UNCHANGED <<nand, l2p, reverse_map>>
    PROVE  SpaceInv' /\ DataInv' /\ SameContent
<1>3. FrontierUnmapped'
  BY FrontierAdvances DEF CoreInv, BaseInv, TypeInv
<1>4. SpaceInv'
  BY <1>3 DEF CoreInv, SpaceInv, CountExact, FreeBlocksEmpty, ValidPagesOf
<1>5. DataInv'
  BY DEF CoreInv, DataInv, MappedPagesReachable, MappedData, nand_page_read_ret
<1>6. QED
  BY <1>4, <1>5 DEF SameContent, Stored

LEMMA GcMoveKeeps ==
    ASSUME CoreInv, TypeOK', GcMove
    PROVE  SpaceInv' /\ DataInv' /\ ScanInv' /\ SameContent
<1> USE DEF CoreInv, BaseInv, TypeInv
<1>1. /\ pc = "gc" /\ job.page < PagesPerBlock /\ Movable
      /\ Here \in PPN /\ Here \in nand.page_valid /\ reverse_map[Here] # NoLpn
  BY MovableFacts DEF GcMove, Movable
<1>2. PICK x \in PPN : /\ Allocates(x) /\ AdvanceTo(x)
                       /\ \/ /\ nand_page_write_ret(nand, x) = "OK"
                             /\ nand' = nand_page_write(nand, x, nand.media[Here])
                             /\ Remap(Here, x) /\ NextPage
                          \/ GcEnd("INTERNAL") /\ UNCHANGED <<nand, l2p, reverse_map>>
  BY DEF GcMove
<1>3. CASE GcEnd("INTERNAL") /\ UNCHANGED <<nand, l2p, reverse_map>>
  <2>1. SpaceInv' /\ DataInv' /\ SameContent
    BY <1>2, <1>3, SkippedPage
  <2>2. ScanInv'
    BY <1>3, GcEndFacts, ScanOver
  <2>3. QED
    BY <2>1, <2>2
<1>4. CASE /\ nand_page_write_ret(nand, x) = "OK"
           /\ nand' = nand_page_write(nand, x, nand.media[Here])
           /\ Remap(Here, x) /\ NextPage
  <2>1. SpaceInv'
    <3>1. Counted(nand') /\ FreeEmpty(nand')
      BY <1>4, SpaceOf, Writable, WriteCounted DEF TypeOK
    <3>2. \A l \in LPN : l2p'[l] \in {l2p[l], x}
      BY <1>4 DEF Remap, TypeOK
    <3>3. FrontierUnmapped'
      BY <1>2, <3>2, FrontierAdvances
    <3>4. QED
      BY <3>1, <3>3 DEF SpaceInv, CountExact, FreeBlocksEmpty, Counted, FreeEmpty
  <2>2. /\ x \notin nand.page_valid
        /\ \/ x[1] = cur_write_block /\ x[2] = cur_write_page
           \/ x[2] = 0 /\ nand.state[x[1]] = "FREE"
    BY <1>2, <1>4, AllocatedPage, Writable
  <2>3. nand \in NandType /\ x = <<x[1], x[2]>> /\ x[1] \in Block /\ x[2] \in Page
    BY PairFacts DEF TypeOK
  <2>4. /\ \A y \in PPN : nand'.media[y] = IF y = x THEN nand.media[Here] ELSE nand.media[y]
        /\ nand'.page_valid = nand.page_valid \cup {x}
        /\ \A b \in Block : nand'.state[b] = IF b = x[1] THEN "USED" ELSE nand.state[b]
    BY <1>4, <2>3, PageWriteEffect
  <2>5. DataInv' /\ SameContent
    BY <1>1, <1>4, <2>2, <2>3, <2>4, RemapData DEF SameContent
  <2>6. ScanInv'
    <3>1. pc' = "gc" /\ job'.src = job.src /\ job'.page = job.page + 1
      BY <1>1, <1>4 DEF NextPage, TypeOK
    <3>2. job.src \in Block /\ job.page \in Page /\ Here = <<job.src, job.page>>
      BY <1>1, NandAssumption DEF TypeOK, Page, Here
    <3>3. ASSUME NEW pg \in Page, pg < job.page PROVE x # <<job.src, pg>>
      <4>1. CASE x[1] = cur_write_block /\ x[2] = cur_write_page
        <5>1. x[1] = job.src => job.page < cur_write_page
          <6>1. reverse_map[Here] \in LPN /\ l2p[reverse_map[Here]] = Here /\ Here # NoPpn
            BY <1>1, PPNFacts DEF TypeOK, ReverseMapSound
          <6>2. Here[1] = job.src /\ Here[2] = job.page
            BY <3>2
          <6>3. QED
            BY <4>1, <6>1, <6>2 DEF SpaceInv, FrontierUnmapped
        <5>2. QED
          BY <3>3, <4>1, <5>1, <2>3, <3>2, NandAssumption DEF Page
      <4>2. CASE nand.state[x[1]] = "FREE"
        <5>1. nand.state[job.src] # "FREE"
          BY <1>1, <3>2, ValidNotFree
        <5>2. QED
          BY <4>2, <5>1
      <4>3. QED
        BY <2>2, <4>1, <4>2
    <3>4. ASSUME NEW pg \in Page, pg < job.page + 1
          PROVE  reverse_map'[<<job.src, pg>>] = NoLpn
      <4>1. CASE pg = job.page
        BY <1>1, <1>4, <3>2, <4>1 DEF Remap, TypeOK
      <4>2. CASE pg < job.page
        <5>1. reverse_map[<<job.src, pg>>] = NoLpn /\ <<job.src, pg>> \in PPN
          BY <1>1, <3>2, <4>2, PairFacts DEF ScanInv
        <5>2. <<job.src, pg>> # x
          BY <3>3, <4>2
        <5>3. QED
          BY <1>4, <5>1, <5>2 DEF Remap, TypeOK
      <4>3. QED
        BY <3>2, <3>4, <4>1, <4>2, NandAssumption DEF Page
    <3>5. QED
      BY <3>1, <3>4 DEF ScanInv
  <2>7. QED
    BY <2>1, <2>5, <2>6
<1>5. QED
  BY <1>2, <1>3, <1>4

(* A mapped page is not on a block whose pages have all been scanned.      *)
LEMMA ScannedIsDead ==
    ASSUME CoreInv, pc \in {"gc", "reloc"}, job.page = PagesPerBlock, NEW l \in LPN,
           l2p[l] # NoPpn
    PROVE  l2p[l][1] # job.src
<1>1. l2p[l] \in PPN /\ reverse_map[l2p[l]] = l
  BY MappedFacts DEF CoreInv, BaseInv, TypeInv
<1>2. l2p[l] = <<l2p[l][1], l2p[l][2]>> /\ l2p[l][2] \in Page
  BY <1>1, PairFacts
<1>3. l2p[l][2] < job.page /\ l # NoLpn
  BY <1>2, NandAssumption, PPNFacts DEF Page
<1>4. QED
  BY <1>1, <1>2, <1>3 DEF CoreInv, ScanInv

LEMMA EraseKeeps ==
    ASSUME CoreInv, TypeOK', pc \in {"gc", "reloc"}, job.page = PagesPerBlock,
           NEW code, Erases(nand, job.src, nand', code),
           UNCHANGED <<l2p, reverse_map, cur_write_block, cur_write_page>>
    PROVE  SpaceInv' /\ DataInv' /\ SameContent
<1> USE DEF CoreInv, BaseInv, TypeInv
<1>1. nand \in NandType /\ job.src \in Block
  BY DEF TypeOK
<1>2. /\ nand'.media = nand.media
      /\ nand' = nand \/ WornOut(nand, job.src, nand') \/ Emptied(nand, job.src, nand')
  BY <1>1, EraseEffect
<1>3. Counted(nand') /\ FreeEmpty(nand')
  BY <1>1, <1>2, EraseCounted, SpaceOf
<1>5. SpaceInv'
  BY <1>3 DEF SpaceInv, CountExact, FreeBlocksEmpty, Counted, FreeEmpty, FrontierUnmapped
<1>6. ASSUME NEW l \in LPN, l2p[l] # NoPpn
      PROVE  l2p[l] \in nand'.page_valid /\ nand'.state[l2p[l][1]] # "BAD"
  <2>1. l2p[l] \in PPN /\ l2p[l] \in nand.page_valid /\ nand.state[l2p[l][1]] # "BAD"
    BY <1>6, MappedFacts
  <2>2. l2p[l][1] # job.src /\ l2p[l][1] \in Block
    BY <1>6, <2>1, ScannedIsDead, PairFacts
  <2>3. l2p[l] \notin PagesOf(job.src)
    BY <2>2 DEF PagesOf
  <2>4. QED
    BY <1>1, <1>2, <2>1, <2>2, <2>3 DEF WornOut, Emptied, NandType
<1>7. DataInv' /\ SameContent
  BY <1>2, <1>6, MapsKept DEF SameContent
<1>8. QED
  BY <1>5, <1>7

(* A page the loops pass over holds no logical page.                       *)
LEMMA PassedOver ==
    ASSUME CoreInv, job.page < PagesPerBlock, ~Movable
    PROVE  Here \in PPN /\ reverse_map[Here] = NoLpn
<1> USE DEF CoreInv, BaseInv, TypeInv
<1>1. Here \in PPN
  BY MovableFacts
<1>2. ASSUME reverse_map[Here] # NoLpn PROVE FALSE
  <2>1. reverse_map[Here] \in LPN /\ l2p[reverse_map[Here]] = Here /\ Here # NoPpn
    BY <1>1, <1>2, PPNFacts DEF TypeOK, ReverseMapSound
  <2>2. Here \in nand.page_valid
    BY <2>1, MappedFacts
  <2>3. QED
    BY <1>2, <2>2 DEF Movable
<1>3. QED
  BY <1>1, <1>2

LEMMA SkipKeeps ==
    ASSUME CoreInv, TypeOK', GcSkip \/ RelocSkip
    PROVE  SpaceInv' /\ DataInv' /\ ScanInv' /\ SameContent
<1> USE DEF CoreInv, BaseInv, TypeInv
<1>1. /\ pc \in {"gc", "reloc"} /\ job.page < PagesPerBlock /\ NextPage
      /\ UNCHANGED <<nand, l2p, reverse_map, cur_write_block, cur_write_page>>
  BY DEF GcSkip, RelocSkip
<1>2. job.page \in Page /\ job.dst \in Block
  BY <1>1, NandAssumption DEF TypeOK, Page
<1>3. ~Movable
  <2>1. pc = "reloc" => nand_page_write_ret(nand, <<job.dst, job.page>>) = "OK"
    BY <1>2, NandAssumption DEF ScanInv, nand_page_write_ret, Page
  <2>2. QED
    BY <2>1 DEF GcSkip, RelocSkip
<1>4. reverse_map[<<job.src, job.page>>] = NoLpn
  BY <1>1, <1>3, PassedOver DEF Here
<1>5. /\ pc' = pc /\ job'.src = job.src /\ job'.dst = job.dst /\ job'.page = job.page + 1
  BY <1>1 DEF NextPage, TypeOK
<1>6. ScanInv'
  <2>1. ASSUME NEW pg \in Page, pg < job.page + 1
        PROVE  reverse_map[<<job.src, pg>>] = NoLpn
    <3>1. pg = job.page \/ pg < job.page
      BY <1>2, <2>1, NandAssumption DEF Page
    <3>2. QED
      BY <1>1, <1>4, <3>1 DEF ScanInv
  <2>2. \A pg \in Page : pg >= job.page + 1 => pg >= job.page
    BY <1>2, NandAssumption DEF Page
  <2>3. QED
    BY <1>1, <1>5, <2>1, <2>2 DEF ScanInv
<1>7. QED
  BY <1>1, <1>6, QuietStep

LEMMA RelocMoveKeeps ==
    ASSUME CoreInv, TypeOK', RelocMove
    PROVE  SpaceInv' /\ DataInv' /\ ScanInv' /\ SameContent
<1> USE DEF CoreInv, BaseInv, TypeInv
<1> DEFINE x == <<job.dst, job.page>>
           m == nand_page_write(nand, x, nand.media[Here])
<1>1. /\ pc = "reloc" /\ job.page < PagesPerBlock /\ Movable
      /\ Here \in PPN /\ Here \in nand.page_valid /\ reverse_map[Here] # NoLpn
      /\ nand.media[Here] \in Data \cup {Blank}
  BY MovableFacts DEF RelocMove, Movable
<1>2. nand' = nand_mark_page_invalid(m, Here) /\ Remap(Here, x) /\ NextPage
      /\ UNCHANGED <<cur_write_block, cur_write_page>>
  BY DEF RelocMove
<1>3. job.src \in Block /\ job.dst \in Block /\ job.page \in Page /\ job.dst # job.src
      /\ job.dst # cur_write_block
  BY <1>1, NandAssumption DEF TypeOK, Page, ScanInv
<1>4. x \in PPN /\ x \notin nand.page_valid /\ x[1] = job.dst /\ nand \in NandType
  BY <1>1, <1>3, PairFacts, NandAssumption DEF ScanInv, TypeOK, Page
<1>5. Here = <<job.src, job.page>> /\ Here[1] = job.src /\ Here # x /\ nand.state[job.src] # "BAD"
  <2>1. Here = <<job.src, job.page>> /\ Here[1] = job.src /\ Here # x
    BY <1>1, <1>4 DEF Here
  <2>2. reverse_map[Here] \in LPN /\ l2p[reverse_map[Here]] = Here /\ Here # NoPpn
    BY <1>1, PPNFacts DEF TypeOK, ReverseMapSound
  <2>3. nand.state[Here[1]] # "BAD"
    BY <2>2, MappedFacts
  <2>4. QED
    BY <2>1, <2>3
<1> HIDE DEF x
<1>6. /\ m \in NandType
      /\ \A y \in PPN : m.media[y] = IF y = x THEN nand.media[Here] ELSE nand.media[y]
      /\ m.page_valid = nand.page_valid \cup {x}
      /\ \A b \in Block : m.state[b] = IF b = x[1] THEN "USED" ELSE nand.state[b]
      /\ Counted(m) /\ FreeEmpty(m)
  <2>1. m \in NandType
    BY <1>1, <1>4, PageWriteType
  <2>2. /\ \A y \in PPN : m.media[y] = IF y = x THEN nand.media[Here] ELSE nand.media[y]
        /\ m.page_valid = nand.page_valid \cup {x}
        /\ \A b \in Block : m.state[b] = IF b = x[1] THEN "USED" ELSE nand.state[b]
    BY <1>4, PageWriteEffect
  <2>3. Counted(m) /\ FreeEmpty(m)
    BY <1>4, SpaceOf, WriteCounted
  <2>4. QED
    BY <2>1, <2>2, <2>3
<1> HIDE DEF m
<1>7. Here \in m.page_valid /\ m.state[Here[1]] # "BAD"
  BY <1>1, <1>3, <1>4, <1>5, <1>6
<1>8. /\ nand'.media = m.media
      /\ nand'.page_valid = m.page_valid \ {Here}
      /\ \A b \in Block : b # job.src => nand'.state[b] = m.state[b]
      /\ \A b \in Block : m.state[b] # "BAD" => nand'.state[b] # "BAD"
      /\ Counted(nand') /\ FreeEmpty(nand')
  <2>1. Counted(nand') /\ FreeEmpty(nand')
    BY <1>1, <1>2, <1>6, <1>7, InvalidCounted
  <2>2. /\ nand'.media = m.media
        /\ nand'.page_valid = m.page_valid \ {Here}
        /\ \A b \in Block : nand'.state[b] =
              IF b = Here[1] /\ Dec(m.valid_page_cnt[Here[1]]) = 0 THEN "FREE" ELSE m.state[b]
    BY <1>1, <1>2, <1>6, <1>7, MarkPageInvalidEffect
  <2>3. QED
    BY <1>5, <2>1, <2>2
<1>9. SpaceInv'
  <2>1. FrontierUnmapped'
    <3>1. \A l \in LPN : l2p'[l] = l2p[l] \/ l2p'[l] = x
      BY <1>2 DEF Remap, TypeOK
    <3>2. QED
      BY <1>2, <1>3, <1>4, <3>1 DEF SpaceInv, FrontierUnmapped
  <2>2. QED
    BY <1>8, <2>1 DEF SpaceInv, CountExact, FreeBlocksEmpty, Counted, FreeEmpty
<1>10. DataInv' /\ SameContent
  <2>1. x \in nand'.page_valid /\ nand'.state[x[1]] # "BAD"
    BY <1>3, <1>4, <1>5, <1>6, <1>8
  <2>2. \A y \in nand.page_valid : y # Here => y \in nand'.page_valid
    BY <1>6, <1>8
  <2>3. \A b \in Block : nand.state[b] # "BAD" => nand'.state[b] # "BAD"
    BY <1>6, <1>8
  <2>4. \A y \in PPN : nand'.media[y] = IF y = x THEN nand.media[Here] ELSE nand.media[y]
    BY <1>6, <1>8
  <2>5. QED
    BY <1>1, <1>2, <1>4, <2>1, <2>2, <2>3, <2>4, RemapData DEF SameContent
<1>11. ScanInv'
  <2>1. /\ pc' = "reloc" /\ job'.src = job.src /\ job'.dst = job.dst /\ job'.page = job.page + 1
    BY <1>1, <1>2 DEF NextPage, TypeOK
  <2>2. ASSUME NEW pg \in Page, pg < job.page + 1
        PROVE  reverse_map'[<<job.src, pg>>] = NoLpn
    <3>1. CASE pg = job.page
      BY <1>1, <1>2, <1>5, <3>1 DEF Remap, TypeOK
    <3>2. CASE pg < job.page
      <4>1. reverse_map[<<job.src, pg>>] = NoLpn /\ <<job.src, pg>> \in PPN /\ <<job.src, pg>> # x
        BY <1>1, <1>3, <1>4, <3>2, PairFacts DEF ScanInv
      <4>2. QED
        BY <1>2, <4>1 DEF Remap, TypeOK
    <3>3. QED
      BY <1>3, <2>2, <3>1, <3>2, NandAssumption DEF Page
  <2>3. ASSUME NEW pg \in Page, pg >= job.page + 1
        PROVE  <<job.dst, pg>> \notin nand'.page_valid
    <3>1. <<job.dst, pg>> # x /\ pg >= job.page
      BY <1>3, <2>3, NandAssumption DEF Page, x
    <3>2. QED
      BY <1>1, <1>6, <1>8, <3>1 DEF ScanInv
  <2>4. nand'.state[job.dst] # "BAD"
    BY <1>3, <1>4, <1>6, <1>8
  <2>5. QED
    BY <1>2, <1>3, <2>1, <2>2, <2>3, <2>4 DEF ScanInv
<1>12. QED
  BY <1>9, <1>10, <1>11

-----------------------------------------------------------------------------
(* Writing.                                                                *)

(* Between level blocks wear_leveling_check changes nothing.               *)
LEMMA LevelCheck ==
    ASSUME Level, NEW n, n.erase_count = nand.erase_count,
           \A b \in Block : n.state[b] # "BAD" => nand.state[b] # "BAD"
    PROVE  wear_leveling_check(n) = n
<1>1. NotBad(n) \subseteq NotBad(nand)
  BY BlockFacts DEF NotBad
<1>2. ~WearGap(n)
  BY <1>1 DEF Level, WearGap
<1>3. QED
  BY <1>2 DEF wear_leveling_check

(* The device after a write: x is programmed, the old copy is not valid.   *)
LEMMA CommitDevice ==
    ASSUME CoreInv, Level, op.call = "write", NEW x \in PPN, Allocates(x),
           nand_page_write_ret(nand, x) = "OK", Commit(x)
    PROVE  LET old == l2p[op.lpn]
           IN  /\ Counted(nand') /\ FreeEmpty(nand')
               /\ nand'.page_valid = (nand.page_valid \cup {x}) \ {old}
               /\ x # old
               /\ \A b \in Block : nand.state[b] # "BAD" => nand'.state[b] # "BAD"
               /\ \A y \in PPN : nand'.media[y] = IF y = x THEN op.data ELSE nand.media[y]
<1> USE DEF CoreInv, BaseInv, TypeInv
<1> DEFINE old   == l2p[op.lpn]
           wrote == nand_page_write(nand, x, op.data)
           fresh == IF old = NoPpn THEN wrote ELSE nand_mark_page_invalid(wrote, old)
<1>1. op.lpn \in LPN /\ op.data \in Data /\ nand \in NandType /\ x \notin nand.page_valid
      /\ x[1] \in Block /\ nand.state[x[1]] # "BAD"
  BY Writable, PairFacts DEF TypeOK, OpInv
<1>2. nand' = wear_leveling_check(fresh)
  BY DEF Commit
<1>3. wrote \in NandType
  BY <1>1, PageWriteType
<1>4. /\ \A y \in PPN : wrote.media[y] = IF y = x THEN op.data ELSE nand.media[y]
      /\ wrote.page_valid = nand.page_valid \cup {x}
      /\ \A b \in Block : wrote.state[b] = IF b = x[1] THEN "USED" ELSE nand.state[b]
      /\ wrote.erase_count = nand.erase_count
  BY <1>1, PageWriteEffect
<1>5. Counted(wrote) /\ FreeEmpty(wrote)
  BY <1>1, SpaceOf, WriteCounted
<1> HIDE DEF wrote
<1>6. CASE old = NoPpn
  <2>1. fresh = wrote
    BY <1>6
  <2>2. nand' = wrote
    BY <1>1, <1>2, <1>4, <2>1, LevelCheck
  <2>3. old \notin PPN /\ old \notin wrote.page_valid
    BY <1>3, <1>6, PPNFacts DEF NandType
  <2>4. QED
    BY <1>1, <1>4, <1>5, <2>2, <2>3
<1>7. CASE old # NoPpn
  <2>1. /\ old \in PPN /\ old[1] \in Block /\ old \in nand.page_valid
        /\ nand.state[old[1]] # "BAD" /\ x # old
    BY <1>1, <1>7, MappedFacts, PairFacts
  <2>2. old \in wrote.page_valid /\ wrote.state[old[1]] # "BAD"
    BY <1>4, <2>1
  <2>3. fresh = nand_mark_page_invalid(wrote, old)
    BY <1>7
  <2> HIDE DEF fresh, old
  <2>4. /\ fresh.media = wrote.media
        /\ fresh.page_valid = wrote.page_valid \ {old}
        /\ \A b \in Block : fresh.state[b] =
              IF b = old[1] /\ Dec(wrote.valid_page_cnt[old[1]]) = 0 THEN "FREE" ELSE wrote.state[b]
        /\ fresh.erase_count = wrote.erase_count
    BY <1>3, <2>1, <2>2, <2>3, MarkPageInvalidEffect
  <2>5. Counted(fresh) /\ FreeEmpty(fresh)
    BY <1>3, <1>5, <2>1, <2>2, <2>3, InvalidCounted
  <2>6. \A b \in Block : fresh.state[b] # "BAD" <=> nand.state[b] # "BAD"
    BY <1>1, <1>4, <2>1, <2>4
  <2>7. nand' = fresh
    BY <1>2, <1>4, <2>4, <2>6, LevelCheck
  <2>8. QED
    BY <1>4, <2>1, <2>4, <2>5, <2>6, <2>7 DEF old
<1>8. QED
  BY <1>6, <1>7

LEMMA StaticPairFacts ==
    ASSUME NEW n, NEW src, NEW dst, StaticPair(n, src, dst)
    PROVE  n.state[src] = "USED" /\ n.state[dst] = "FREE"
BY DEF StaticPair, FirstBest

LEMMA CommitKeeps ==
    ASSUME CoreInv, Level, TypeOK', op.call = "write", NEW x \in PPN, Allocates(x), AdvanceTo(x),
           nand_page_write_ret(nand, x) = "OK", Commit(x)
    PROVE  /\ SpaceInv' /\ DataInv' /\ ScanInv'
           /\ \A l \in LPN : Stored(l)' = IF l = op.lpn THEN op.data ELSE Stored(l)
<1> USE DEF CoreInv, BaseInv, TypeInv
<1> DEFINE old == l2p[op.lpn]
<1>1. op.lpn \in LPN /\ op.data \in Data /\ nand \in NandType
      /\ x = <<x[1], x[2]>> /\ x[1] \in Block /\ x[2] \in Page
      /\ x \notin nand.page_valid /\ nand.state[x[1]] # "BAD"
  BY Writable, PairFacts DEF TypeOK, OpInv
<1>2. /\ Counted(nand') /\ FreeEmpty(nand')
      /\ nand'.page_valid = (nand.page_valid \cup {x}) \ {old}
      /\ x # old
      /\ \A b \in Block : nand.state[b] # "BAD" => nand'.state[b] # "BAD"
      /\ \A y \in PPN : nand'.media[y] = IF y = x THEN op.data ELSE nand.media[y]
  BY CommitDevice
<1>3. /\ l2p' = [l2p EXCEPT ![op.lpn] = x]
      /\ reverse_map' = [y \in PPN |-> IF y = x THEN op.lpn
                                       ELSE IF y = old THEN NoLpn ELSE reverse_map[y]]
  BY DEF Commit
<1>4. SpaceInv'
  <2>1. \A l \in LPN : l2p'[l] \in {l2p[l], x}
    BY <1>3 DEF TypeOK
  <2>2. FrontierUnmapped'
    BY <2>1, FrontierAdvances
  <2>3. QED
    BY <1>2, <2>2 DEF SpaceInv, CountExact, FreeBlocksEmpty, Counted, FreeEmpty
<1>5. ASSUME NEW l \in LPN, l # op.lpn, l2p[l] # NoPpn
      PROVE  /\ l2p'[l] = l2p[l]
             /\ l2p[l] \in nand'.page_valid
             /\ nand'.state[l2p[l][1]] # "BAD"
             /\ reverse_map'[l2p[l]] = l
             /\ nand'.media[l2p[l]] = nand.media[l2p[l]]
             /\ nand.media[l2p[l]] \in Data
  <2>1. /\ l2p[l] \in PPN /\ l2p[l] \in nand.page_valid
        /\ nand.state[l2p[l][1]] # "BAD"
        /\ reverse_map[l2p[l]] = l
        /\ nand.media[l2p[l]] \in Data
    BY <1>5, MappedFacts
  <2>2. l2p[l] # x /\ l2p[l][1] \in Block
    BY <1>1, <2>1, PairFacts
  <2>3. l2p[l] # old
    <3>1. old # NoPpn => reverse_map[old] = op.lpn
      BY <1>1, MappedFacts
    <3>2. QED
      BY <1>5, <2>1, <3>1
  <2> HIDE DEF old
  <2>4. QED
    BY <1>1, <1>2, <1>3, <1>5, <2>1, <2>2, <2>3 DEF TypeOK
<1>6. /\ l2p'[op.lpn] = x /\ x # NoPpn
      /\ x \in nand'.page_valid /\ nand'.state[x[1]] # "BAD"
      /\ reverse_map'[x] = op.lpn
      /\ nand'.media[x] = op.data
  BY <1>1, <1>2, <1>3, PPNFacts DEF TypeOK
<1>7. \A l \in LPN : l # op.lpn => l2p'[l] = l2p[l]
  BY <1>1, <1>3 DEF TypeOK
<1>8. DataInv'
  <2>1. ASSUME NEW l \in LPN, l2p'[l] # NoPpn
        PROVE  /\ l2p'[l] \in nand'.page_valid
               /\ nand'.state[l2p'[l][1]] # "BAD"
               /\ reverse_map'[l2p'[l]] = l
               /\ nand'.media[l2p'[l]] \in Data
    BY <1>1, <1>5, <1>6, <1>7, <2>1
  <2>2. QED
    BY <2>1 DEF DataInv, MappedPagesReachable, MappedData, nand_page_read_ret
<1>9. \A l \in LPN : Stored(l)' = IF l = op.lpn THEN op.data ELSE Stored(l)
  BY <1>5, <1>6, <1>7 DEF Stored
<1>10. ScanInv'
  <2>1. CASE pc' = "idle"
    BY <2>1, ScanOver
  <2>2. CASE pc' # "idle"
    <3>1. PICK src \in UserBlock, dst \in UserBlock :
             /\ StaticPair(nand', src, dst)
             /\ job' = [src |-> src, dst |-> dst, page |-> 0]
             /\ pc' = "reloc"
      BY <2>2 DEF Commit, Return, Busy
    <3>2. nand'.state[src] = "USED" /\ nand'.state[dst] = "FREE" /\ src \in Block /\ dst \in Block
      BY <3>1, StaticPairFacts, BlockFacts
    <3>3. x[2] \in ValidPagesOf(nand', x[1])
      BY <1>1, <1>6 DEF ValidPagesOf
    <3>4. nand'.state[x[1]] # "FREE"
      BY <1>1, <1>2, <3>3 DEF FreeEmpty
    <3>5. dst # src /\ dst # cur_write_block'
      BY <3>2, <3>4 DEF AdvanceTo
    <3>6. \A pg \in Page : <<dst, pg>> \notin nand'.page_valid
      BY <1>2, <3>2 DEF FreeEmpty, ValidPagesOf
    <3>7. \A pg \in Page : ~(pg < 0)
      BY NandAssumption DEF Page
    <3>8. QED
      BY <3>1, <3>2, <3>5, <3>6, <3>7 DEF ScanInv
  <2>3. QED
    BY <2>1, <2>2
<1>11. QED
  BY <1>4, <1>8, <1>9, <1>10

(* Replacing a bad block copies nothing.                                   *)
LEMMA ReplaceBadEffect ==
    ASSUME NEW n \in NandType, NEW b \in Block, NEW r \in Block, n.state[b] = "BAD",
           NEW m, m = nand_replace_bad_block(n, b, r)
    PROVE  /\ m.page_valid = n.page_valid
           /\ \A c \in Block : m.state[c] = n.state[c] /\ m.valid_page_cnt[c] = n.valid_page_cnt[c]
           /\ \A y \in PPN : m.media[y] = n.media[y]
<1> DEFINE spared == [n EXCEPT !.reserved_count = @ - 1]
<1>1. m = CopyPages(spared, b, r, {})
  BY DEF nand_replace_bad_block, CopiedPages
<1>2. Cardinality({}) = 0
  BY FS_EmptySet
<1>3. /\ spared.page_valid = n.page_valid /\ spared.media = n.media /\ spared.state = n.state
      /\ spared.valid_page_cnt = n.valid_page_cnt
      /\ DOMAIN spared = {"state", "erase_count", "valid_page_cnt", "page_valid", "media", "oob",
                          "reserved_count"}
  BY DEF NandType
<1>4. \A v \in 0..(CntMod - 1) : (v + 0) % CntMod = v
  BY NandAssumption
<1>5. m.page_valid = n.page_valid
  BY <1>1, <1>3 DEF CopyPages
<1>6. m.state = [n.state EXCEPT ![r] = n.state[r]]
  BY <1>1, <1>3 DEF CopyPages
<1>7. m.valid_page_cnt = [n.valid_page_cnt EXCEPT ![r] = (n.valid_page_cnt[r] + 0) % CntMod]
  BY <1>1, <1>2, <1>3 DEF CopyPages
<1>8. m.media = [y \in PPN |-> IF y[1] = r /\ y[2] \in {} THEN n.media[<<b, y[2]>>] ELSE n.media[y]]
  BY <1>1, <1>3 DEF CopyPages
<1>9. QED
  BY <1>4, <1>5, <1>6, <1>7, <1>8 DEF NandType

LEMMA MeetsBadBlockKeeps ==
    ASSUME CoreInv, TypeOK', WriteMeetsBadBlock
    PROVE  SpaceInv' /\ DataInv' /\ ScanInv' /\ SameContent
<1> USE DEF CoreInv, BaseInv, TypeInv
<1>1. PICK x \in PPN :
         /\ Allocates(x)
         /\ nand_page_write_ret(nand, x) = "BAD_BLOCK"
         /\ cur_write_page' = x[2] + 1
         /\ \/ /\ \E r \in ReservedBlock : AllocatesReserved(nand, r) /\ ReplaceBlock(x[1], r)
               /\ Busy("retry")
            \/ KeepMap /\ Return("NO_SPACE", Blank)
  BY DEF WriteMeetsBadBlock
<1>2. /\ nand.state[x[1]] = "BAD" /\ x[1] = cur_write_block /\ x[2] = cur_write_page
      /\ x = <<x[1], x[2]>> /\ x[1] \in Block /\ x[2] \in Page
  <2>1. nand.state[x[1]] = "BAD"
    BY <1>1 DEF nand_page_write_ret
  <2>2. QED
    BY <1>1, <2>1, AllocatedPage, PairFacts
<1>3. ScanInv'
  <2>1. pc' \in {"retry", "idle"}
    BY <1>1 DEF Busy, Return
  <2>2. QED
    BY <2>1, ScanOver
<1>4. CASE KeepMap /\ Return("NO_SPACE", Blank)
  <2>1. AdvanceTo(x) /\ UNCHANGED <<nand, l2p, reverse_map>>
    BY <1>1, <1>2, <1>4 DEF KeepMap, AdvanceTo
  <2>2. QED
    BY <1>1, <1>3, <2>1, SkippedPage
<1>5. ASSUME NEW r \in ReservedBlock, AllocatesReserved(nand, r), ReplaceBlock(x[1], r)
      PROVE  SpaceInv' /\ DataInv' /\ SameContent
  <2>1. r \in Block /\ nand.state[r] = "FREE" /\ nand \in NandType /\ nand' \in NandType
    BY <1>5, BlockFacts DEF AllocatesReserved, TypeOK
  <2>2. /\ nand'.page_valid = nand.page_valid
        /\ \A c \in Block : /\ nand'.state[c] = nand.state[c]
                            /\ nand'.valid_page_cnt[c] = nand.valid_page_cnt[c]
        /\ \A y \in PPN : nand'.media[y] = nand.media[y]
    BY <1>2, <1>5, <2>1, ReplaceBadEffect DEF ReplaceBlock
  <2>3. nand'.media = nand.media
    BY <2>1, <2>2 DEF NandType
  <2>4. ASSUME NEW pg \in Page PROVE reverse_map[<<x[1], pg>>] = NoLpn
    <3>1. <<x[1], pg>> \in PPN /\ <<x[1], pg>> # NoPpn /\ <<x[1], pg>>[1] = x[1]
      BY <1>2, PPNFacts
    <3>2. ASSUME reverse_map[<<x[1], pg>>] # NoLpn PROVE FALSE
      <4>1. reverse_map[<<x[1], pg>>] \in LPN /\ l2p[reverse_map[<<x[1], pg>>]] = <<x[1], pg>>
        BY <3>1, <3>2 DEF TypeOK, ReverseMapSound
      <4>2. nand.state[<<x[1], pg>>[1]] # "BAD"
        BY <3>1, <4>1, MappedFacts
      <4>3. QED
        BY <1>2, <3>1, <4>2
    <3>3. QED
      BY <3>2
  <2>5. l2p' = l2p
    <3>1. \A l \in LPN : ~\E pg \in Page : reverse_map[<<x[1], pg>>] = l
      BY <2>4, PPNFacts
    <3>2. QED
      BY <1>5, <3>1 DEF ReplaceBlock, TypeOK
  <2>6. reverse_map' = reverse_map
    <3>1. \A y \in PPN : y = <<y[1], y[2]>> /\ y[2] \in Page
      BY PairFacts
    <3>2. \A y \in PPN : y[1] = x[1] => reverse_map[y] = NoLpn
      BY <2>4, <3>1
    <3>3. \A y \in PPN : reverse_map'[y] = reverse_map[y]
      BY <1>5, <2>4, <3>1, <3>2 DEF ReplaceBlock
    <3>4. QED
      BY <3>3 DEF TypeOK
  <2>7. SpaceInv'
    <3>1. \A c \in Block : ValidPagesOf(nand', c) = ValidPagesOf(nand, c)
      BY <2>2 DEF ValidPagesOf
    <3>2. \A l \in LPN : l2p[l] # NoPpn => l2p[l][1] # r
      BY <2>1, MappedFacts, ValidNotFree
    <3>3. cur_write_block' = r
      BY <1>2, <1>5 DEF ReplaceBlock
    <3>4. QED
      BY <2>2, <2>5, <3>1, <3>2, <3>3 DEF SpaceInv, CountExact, FreeBlocksEmpty, FrontierUnmapped
  <2>8. ASSUME NEW l \in LPN, l2p[l] # NoPpn
        PROVE  l2p[l] \in nand'.page_valid /\ nand'.state[l2p[l][1]] # "BAD"
    <3>1. l2p[l] \in PPN /\ l2p[l] \in nand.page_valid /\ nand.state[l2p[l][1]] # "BAD"
      BY <2>8, MappedFacts
    <3>2. QED
      BY <2>2, <3>1, PairFacts
  <2>9. DataInv' /\ SameContent
    BY <2>3, <2>5, <2>6, <2>8, MapsKept DEF SameContent
  <2>10. QED
    BY <2>7, <2>9
<1>6. QED
  BY <1>1, <1>3, <1>4, <1>5

LEMMA WriteProgramKeeps ==
    ASSUME CoreInv, Level, TypeOK', WriteProgram
    PROVE  /\ SpaceInv' /\ DataInv' /\ ScanInv'
           /\ \/ SameContent /\ pc' = "idle"
              \/ \E x \in PPN : Commit(x) /\
                    \A l \in LPN : Stored(l)' = IF l = op.lpn THEN op.data ELSE Stored(l)
<1> USE DEF CoreInv, BaseInv, TypeInv
<1>1. op.call = "write"
  BY DEF WriteProgram, AboutToProgram, OpInv
<1>2. CASE AllocationFails
  <2>1. Return("NO_SPACE", Blank) /\ KeepMap /\ UNCHANGED cur_write_page
    BY <1>2 DEF WriteProgram
  <2>2. UNCHANGED <<nand, l2p, reverse_map, cur_write_block, cur_write_page>> /\ pc' = "idle"
    BY <2>1 DEF KeepMap, Return
  <2>3. QED
    BY <2>2, QuietStep, ScanOver
<1>3. CASE ~AllocationFails
  <2>1. PICK x \in PPN :
           /\ Allocates(x) /\ AdvanceTo(x)
           /\ \/ nand_page_write_ret(nand, x) = "OK" /\ Commit(x)
              \/ /\ Return(nand_page_write_ret(nand, x), Blank)
                 /\ UNCHANGED <<nand, l2p, reverse_map>>
    BY <1>3 DEF WriteProgram
  <2>2. CASE nand_page_write_ret(nand, x) = "OK" /\ Commit(x)
    BY <1>1, <2>1, <2>2, CommitKeeps
  <2>3. CASE Return(nand_page_write_ret(nand, x), Blank) /\ UNCHANGED <<nand, l2p, reverse_map>>
    <3>1. pc' = "idle"
      BY <2>3 DEF Return
    <3>2. QED
      BY <2>1, <2>3, <3>1, SkippedPage, ScanOver
  <2>4. QED
    BY <2>1, <2>2, <2>3
<1>4. QED
  BY <1>2, <1>3

-----------------------------------------------------------------------------
(* Trimming.                                                               *)

LEMMA TrimKeeps ==
    ASSUME CoreInv, TypeOK', TrimPage
    PROVE  /\ SpaceInv' /\ DataInv' /\ ScanInv'
           /\ op.lpn \in LPN
           /\ \A l \in LPN : Stored(l)' = IF l = op.lpn THEN Blank ELSE Stored(l)
<1> USE DEF CoreInv, BaseInv, TypeInv
<1> DEFINE x == l2p[op.lpn]
<1>1. op.lpn \in LPN /\ pc = "trim" /\ pc' = "trim" /\ nand \in NandType
      /\ UNCHANGED <<cur_write_block, cur_write_page>>
  BY FtlAssumption DEF TrimPage, OpInv, TypeOK, LPN
<1>2. ScanInv'
  BY <1>1, ScanOver
<1>3. CASE x = NoPpn
  <2>1. UNCHANGED <<nand, l2p, reverse_map>>
    BY <1>3 DEF TrimPage
  <2>2. SpaceInv' /\ DataInv' /\ SameContent
    BY <1>1, <2>1, QuietStep
  <2>3. Stored(op.lpn) = Blank
    BY <1>3 DEF Stored
  <2>4. QED
    BY <1>1, <1>2, <2>2, <2>3 DEF SameContent
<1>4. CASE x # NoPpn
  <2>1. /\ nand' = nand_mark_page_invalid(nand, x)
        /\ l2p' = [l2p EXCEPT ![op.lpn] = NoPpn]
        /\ reverse_map' = [reverse_map EXCEPT ![x] = NoLpn]
    BY <1>4 DEF TrimPage
  <2>2. /\ x \in PPN /\ x \in nand.page_valid /\ nand.state[x[1]] # "BAD" /\ reverse_map[x] = op.lpn
    BY <1>1, <1>4, MappedFacts
  <2> HIDE DEF x
  <2>3. /\ nand'.media = nand.media
        /\ nand'.page_valid = nand.page_valid \ {x}
        /\ \A b \in Block : nand'.state[b] =
              IF b = x[1] /\ Dec(nand.valid_page_cnt[x[1]]) = 0 THEN "FREE" ELSE nand.state[b]
    BY <1>1, <2>1, <2>2, MarkPageInvalidEffect
  <2>4. Counted(nand') /\ FreeEmpty(nand')
    BY <1>1, <2>1, <2>2, SpaceOf, InvalidCounted
  <2>6. l2p'[op.lpn] = NoPpn /\ \A l \in LPN : l # op.lpn => l2p'[l] = l2p[l]
    BY <1>1, <2>1 DEF TypeOK
  <2>5. SpaceInv'
    BY <1>1, <2>4, <2>6 DEF SpaceInv, CountExact, FreeBlocksEmpty, Counted, FreeEmpty,
       FrontierUnmapped
  <2>7. ASSUME NEW l \in LPN, l2p'[l] # NoPpn
        PROVE  /\ l2p'[l] \in nand'.page_valid
               /\ nand'.state[l2p'[l][1]] # "BAD"
               /\ reverse_map'[l2p'[l]] = l
               /\ nand'.media[l2p'[l]] \in Data
    <3>1. l # op.lpn /\ l2p'[l] = l2p[l] /\ l2p[l] # NoPpn
      BY <2>6, <2>7
    <3>2. /\ l2p[l] \in PPN /\ l2p[l] \in nand.page_valid
          /\ nand.state[l2p[l][1]] # "BAD"
          /\ reverse_map[l2p[l]] = l
          /\ nand.media[l2p[l]] \in Data
      BY <3>1, MappedFacts
    <3>3. l2p[l] # x /\ l2p[l][1] \in Block
      BY <2>2, <3>1, <3>2, PairFacts
    <3>4. QED
      BY <2>1, <2>3, <3>1, <3>2, <3>3 DEF TypeOK
  <2>8. DataInv'
    BY <2>7 DEF DataInv, MappedPagesReachable, MappedData, nand_page_read_ret
  <2>9. \A l \in LPN : Stored(l)' = IF l = op.lpn THEN Blank ELSE Stored(l)
    BY <2>3, <2>6 DEF Stored
  <2>10. QED
    BY <1>1, <1>2, <2>5, <2>8, <2>9
<1>5. QED
  BY <1>3, <1>4

-----------------------------------------------------------------------------
(* The invariant is inductive.                                             *)

(* Accepting a call changes neither the device nor the maps; no read meets *)
(* a bad block, and the calls outside the core are not made.               *)
LEMMA CoreArrival ==
    ASSUME CoreCalls, CoreInv, Arrival
    PROVE  /\ UNCHANGED <<nand, l2p, reverse_map, cur_write_block, cur_write_page>>
           /\ pc' \in {"idle", "write", "trim", "trigger"}
           /\ \/ \E l \in LPN, d \in Data : CallWrite(l, d)
              \/ \E l \in LPN : CallRead(l)
              \/ \E l \in LPN, c \in TrimCounts : CallTrim(l, c)
              \/ CallTriggerGc
              \/ \E a \in Algos : CallSetGcAlgo(a)
<1>1. ASSUME NEW l \in LPN, CallReadBadBlock(l) PROVE FALSE
  <2>1. l2p[l] # NoPpn /\ nand_page_read_ret(nand, l2p[l]) = "BAD_BLOCK"
    BY <1>1 DEF CallReadBadBlock
  <2>2. QED
    BY <2>1 DEF CoreInv, DataInv, MappedPagesReachable
<1>2. ASSUME NEW b \in Block, CallReplaceBadBlock(b) PROVE FALSE
  BY <1>2 DEF CallReplaceBadBlock, CoreCalls
<1>3. ~CallHandleReadDisturb
  BY DEF CallHandleReadDisturb, CoreCalls
<1>4. \/ \E l \in LPN, d \in Data : CallWrite(l, d)
      \/ \E l \in LPN : CallRead(l)
      \/ \E l \in LPN, c \in TrimCounts : CallTrim(l, c)
      \/ CallTriggerGc
      \/ \E a \in Algos : CallSetGcAlgo(a)
  BY <1>1, <1>2, <1>3 DEF Arrival
<1>5. QED
  BY <1>4 DEF CallWrite, CallRead, CallTrim, CallTriggerGc, CallSetGcAlgo, Begin, Busy, Return,
     KeepMap

LEMMA CallStep ==
    ASSUME CoreCalls, CoreInv, [Next]_vars
    PROVE  CallInv'
<1> USE DEF CoreInv, BaseInv, TypeInv, CallInv
<1>1. CASE Arrival
  <2>1. ASSUME NEW l \in LPN, NEW d \in Data, CallWrite(l, d) PROVE CallInv'
    BY <2>1 DEF CallWrite, Begin, Busy, NoOp
  <2>2. ASSUME NEW l \in LPN, CallRead(l) PROVE CallInv'
    BY <2>2 DEF CallRead, Return, NoOp
  <2>3. ASSUME NEW l \in LPN, NEW c \in TrimCounts, CallTrim(l, c) PROVE CallInv'
    BY <2>3 DEF CallTrim, Begin, Busy, NoOp
  <2>4. CallTriggerGc => CallInv'
    BY DEF CallTriggerGc, Begin, Busy, NoOp
  <2>5. ASSUME NEW a \in Algos, CallSetGcAlgo(a) PROVE CallInv'
    BY <2>5 DEF CallSetGcAlgo
  <2>6. QED
    BY <1>1, <2>1, <2>2, <2>3, <2>4, <2>5, CoreArrival
<1>2. ASSUME NEW code, NEW d, Return(code, d) PROVE CallInv'
  BY <1>2 DEF Return, NoOp
<1>3. ASSUME NEW code, GcEnd(code) PROVE CallInv'
  BY <1>2, <1>3 DEF GcEnd, Busy
<1>4. CASE GcBegin
  <2>1. op.call \in {"gc", "write"}
    BY <1>4 DEF GcBegin, OpInv
  <2>2. QED
    BY <1>3, <1>4, <2>1 DEF GcBegin, Busy
<1>5. CASE GcSkip \/ RelocSkip \/ RelocMove
  BY <1>5 DEF GcSkip, RelocSkip, RelocMove, NextPage
<1>6. CASE GcMove
  BY <1>3, <1>6 DEF GcMove, NextPage
<1>7. CASE GcOutOfSpace \/ GcErase
  BY <1>3, <1>7 DEF GcOutOfSpace, GcErase
<1>8. CASE RelocErase \/ TrimDone
  BY <1>2, <1>8 DEF RelocErase, TrimDone
<1>9. CASE WriteProgram
  <2>1. op.call = "write"
    BY <1>9 DEF WriteProgram, AboutToProgram, OpInv
  <2>2. ASSUME NEW x \in PPN, Commit(x) PROVE CallInv'
    BY <1>2, <2>1, <2>2 DEF Commit, Busy
  <2>3. QED
    BY <1>2, <1>9, <2>2 DEF WriteProgram
<1>10. CASE WriteMeetsBadBlock
  BY <1>2, <1>10 DEF WriteMeetsBadBlock, Busy
<1>11. CASE TrimPage
  BY <1>11 DEF TrimPage, TypeOK
<1>12. CASE LifetimeEnds \/ UNCHANGED vars
  BY <1>12 DEF LifetimeEnds, vars, ftlVars
<1>13. QED
  BY <1>1, <1>4, <1>5, <1>6, <1>7, <1>8, <1>9, <1>10, <1>11, <1>12
     DEF Next, Internal, GcStep, RelocStep, WriteStep, TrimStep

(* The steps that neither program nor invalidate a page for the host.      *)
Maintenance ==
    \/ GcBegin \/ GcSkip \/ GcMove \/ GcOutOfSpace \/ GcErase
    \/ RelocSkip \/ RelocMove \/ RelocErase
    \/ WriteMeetsBadBlock \/ TrimDone \/ Arrival \/ LifetimeEnds \/ UNCHANGED vars

LEMMA MaintenanceKeeps ==
    ASSUME CoreCalls, CoreInv, TypeOK', Maintenance
    PROVE  SpaceInv' /\ DataInv' /\ ScanInv' /\ SameContent
<1> DEFINE Kept == UNCHANGED <<nand, l2p, reverse_map, cur_write_block, cur_write_page>>
<1>1. CASE GcBegin
  <2>1. Kept
    BY <1>1 DEF GcBegin
  <2>2. CASE GcEnd("NO_SPACE")
    BY <2>1, <2>2, QuietStep, GcEndFacts, ScanOver
  <2>3. CASE \E b \in Block : job' = [NoJob EXCEPT !.src = b] /\ Busy("gc")
    <3>1. pc' = "gc" /\ job'.page = 0
      BY <2>3 DEF Busy, NoJob
    <3>2. \A pg \in Page : ~(pg < 0)
      BY NandAssumption DEF Page
    <3>3. ScanInv'
      BY <3>1, <3>2 DEF ScanInv
    <3>4. QED
      BY <2>1, <3>3, QuietStep
  <2>4. QED
    BY <1>1, <2>2, <2>3 DEF GcBegin
<1>2. CASE GcSkip \/ RelocSkip
  BY <1>2, SkipKeeps
<1>3. CASE GcMove
  BY <1>3, GcMoveKeeps
<1>4. CASE GcOutOfSpace
  <2>1. Kept /\ GcEnd("NO_SPACE")
    BY <1>4 DEF GcOutOfSpace
  <2>2. QED
    BY <2>1, QuietStep, GcEndFacts, ScanOver
<1>5. CASE GcErase
  <2>1. PICK code \in {"OK", "BAD_BLOCK"} : Erases(nand, job.src, nand', code) /\ GcEnd(code)
    BY <1>5 DEF GcErase
  <2>2. QED
    BY <1>5, <2>1, EraseKeeps, GcEndFacts, ScanOver DEF GcErase
<1>6. CASE RelocMove
  BY <1>6, RelocMoveKeeps
<1>7. CASE RelocErase
  <2>1. PICK code \in {"OK", "BAD_BLOCK"} : Erases(nand, job.src, nand', code)
    BY <1>7 DEF RelocErase
  <2>2. pc' = "idle"
    BY <1>7 DEF RelocErase, Return
  <2>3. QED
    BY <1>7, <2>1, <2>2, EraseKeeps, ScanOver DEF RelocErase
<1>8. CASE WriteMeetsBadBlock
  BY <1>8, MeetsBadBlockKeeps
<1>9. CASE TrimDone
  <2>1. Kept /\ pc' = "idle"
    BY <1>9 DEF TrimDone, KeepMap, Return
  <2>2. QED
    BY <2>1, QuietStep, ScanOver
<1>10. CASE Arrival
  BY <1>10, CoreArrival, QuietStep, ScanOver
<1>11. CASE LifetimeEnds \/ UNCHANGED vars
  <2>1. UNCHANGED <<nand, l2p, reverse_map, cur_write_block, cur_write_page, pc, job>>
    BY <1>11 DEF LifetimeEnds, vars, ftlVars
  <2>2. ScanInv'
    BY <2>1 DEF CoreInv, ScanInv
  <2>3. QED
    BY <2>1, <2>2, QuietStep
<1>12. QED
  BY <1>1, <1>2, <1>3, <1>4, <1>5, <1>6, <1>7, <1>8, <1>9, <1>10, <1>11 DEF Maintenance

LEMMA StepCases == [Next]_vars => Maintenance \/ WriteProgram \/ TrimPage
BY DEF Next, Internal, GcStep, RelocStep, WriteStep, TrimStep, Maintenance

LEMMA CoreStep == CoreCalls /\ CoreInv /\ Level /\ [Next]_vars => CoreInv'
<1> SUFFICES ASSUME CoreCalls, CoreInv, Level, [Next]_vars PROVE CoreInv'
  OBVIOUS
<1>1. TypeInv' /\ ReverseMapSound' /\ CallInv'
  BY StepType, ReverseMapStep, CallStep DEF CoreInv, BaseInv
<1>2. SpaceInv' /\ DataInv' /\ ScanInv'
  <2>1. TypeOK'
    BY <1>1 DEF TypeInv
  <2>2. QED
    BY <2>1, StepCases, MaintenanceKeeps, WriteProgramKeeps, TrimKeeps
<1>3. QED
  BY <1>1, <1>2 DEF CoreInv, BaseInv

LEMMA CoreInit == Init => CoreInv
<1> SUFFICES ASSUME Init PROVE CoreInv
  OBVIOUS
<1>1. TypeInv /\ ReverseMapSound
  BY InitType DEF Init, ReverseMapSound
<1>2. PICK bad \in SUBSET Block : nand = NewDevice(bad)
  BY DEF Init, NandInit
<1>3. nand.page_valid = {} /\ \A b \in Block : nand.valid_page_cnt[b] = 0 /\ ValidPagesOf(nand, b) = {}
  BY <1>2 DEF NewDevice, ValidPagesOf
<1>4. SpaceInv
  BY <1>3, FS_EmptySet DEF Init, SpaceInv, CountExact, FreeBlocksEmpty, FrontierUnmapped
<1>5. DataInv
  BY DEF Init, DataInv, MappedPagesReachable, MappedData
<1>6. ScanInv /\ CallInv
  BY DEF Init, ScanInv, CallInv, NoOp
<1>7. QED
  BY <1>1, <1>4, <1>5, <1>6 DEF CoreInv, BaseInv

LEMMA CoreAlways ==
    ASSUME CoreCalls
    PROVE  Spec /\ []Level => []CoreInv
BY CoreInit, CoreStep, PTL DEF Spec

(* While the erase counts are level, every mapped logical page is on a     *)
(* page that can be read and that the reverse map knows of: no write, trim *)
(* or garbage collection, however it ends, and no block that wears out in  *)
(* the middle of it, loses a logical page.                                 *)
THEOREM NoPageLost ==
    ASSUME CoreCalls
    PROVE  Spec /\ []Level => []MappedPagesReachable
<1>1. CoreInv => MappedPagesReachable
  BY DEF CoreInv, DataInv
<1>2. QED
  BY <1>1, CoreAlways, PTL

(* valid_page_cnt, which every victim score and the release of a block go  *)
(* by, is exact after any sequence of programs, invalidations, moves and   *)
(* failed erases.                                                          *)
THEOREM CountersExact ==
    ASSUME CoreCalls
    PROVE  Spec /\ []Level => []CountExact
<1>1. CoreInv => CountExact
  BY DEF CoreInv, SpaceInv
<1>2. QED
  BY <1>1, CoreAlways, PTL

(* A block that became FREE because its counter dropped to zero, and which *)
(* the allocator may hand out without an erase, holds no valid page.       *)
THEOREM FreeBlocksHoldNothing ==
    ASSUME CoreCalls
    PROVE  Spec /\ []Level => []FreeBlocksEmpty
<1>1. CoreInv => FreeBlocksEmpty
  BY DEF CoreInv, SpaceInv
<1>2. QED
  BY <1>1, CoreAlways, PTL

(* When gc_do_recycle or a relocation comes to erase its block, no logical *)
(* page is left on it, wherever the copies went: also when the victim is   *)
(* the block being filled, so that the copies went back into it.           *)
THEOREM NothingLiveErased ==
    ASSUME CoreCalls
    PROVE  Spec /\ []Level => []ErasesOnlyDeadBlocks
<1>1. CoreInv => ErasesOnlyDeadBlocks
  BY ScannedIsDead DEF ErasesOnlyDeadBlocks
<1>2. QED
  BY <1>1, CoreAlways, PTL

-----------------------------------------------------------------------------
(* The pages still to be handed out are not valid.                         *)

LEMMA CleanAdvances ==
    ASSUME TypeOK, SpaceInv, FrontierClean, NEW x \in PPN, Allocates(x), AdvanceTo(x),
           nand'.page_valid \subseteq nand.page_valid \cup {x}
    PROVE  FrontierClean'
<1>1. x = <<x[1], x[2]>> /\ x[1] \in Block /\ x[2] \in Page
  BY PairFacts
<1>2. ASSUME NEW pg \in Page, pg >= x[2] + 1 PROVE <<x[1], pg>> \notin nand.page_valid
  <2>1. CASE x[1] = cur_write_block /\ x[2] = cur_write_page
    <3>1. pg >= cur_write_page
      BY <1>1, <1>2, <2>1, NandAssumption DEF Page
    <3>2. QED
      BY <2>1, <3>1 DEF FrontierClean
  <2>2. CASE nand.state[x[1]] = "FREE"
    BY <1>1, <2>2 DEF SpaceInv, FreeBlocksEmpty, ValidPagesOf
  <2>3. QED
    BY <2>1, <2>2, AllocatedPage
<1>3. \A pg \in Page : pg >= x[2] + 1 => <<x[1], pg>> # x
  BY <1>1, NandAssumption DEF Page
<1>4. QED
  BY <1>2, <1>3 DEF FrontierClean, AdvanceTo

LEMMA CleanRests ==
    ASSUME FrontierClean, UNCHANGED <<cur_write_block, cur_write_page>>,
           \A y \in nand'.page_valid : y \in nand.page_valid \/ y[1] # cur_write_block
    PROVE  FrontierClean'
BY DEF FrontierClean

LEMMA CleanStep ==
    CoreCalls /\ CoreInv /\ Level /\ FrontierClean /\ [Next]_vars => FrontierClean'
<1> SUFFICES ASSUME CoreCalls, CoreInv, Level, FrontierClean, [Next]_vars PROVE FrontierClean'
  OBVIOUS
<1> USE DEF CoreInv, BaseInv, TypeInv
<1>1. nand \in NandType
  BY DEF TypeOK
<1>2. ASSUME UNCHANGED <<nand, cur_write_block, cur_write_page>> PROVE FrontierClean'
  BY <1>2, CleanRests
<1>3. CASE GcBegin \/ GcSkip \/ GcOutOfSpace \/ RelocSkip
  BY <1>2, <1>3 DEF GcBegin, GcSkip, GcOutOfSpace, RelocSkip
<1>4. CASE GcMove
  <2>1. PICK x \in PPN : /\ Allocates(x) /\ AdvanceTo(x)
                         /\ \/ nand' = nand_page_write(nand, x, nand.media[Here])
                            \/ UNCHANGED nand
    BY <1>4 DEF GcMove
  <2>2. nand'.page_valid \subseteq nand.page_valid \cup {x}
    BY <1>1, <2>1, PageWriteEffect
  <2>3. QED
    BY <2>1, <2>2, CleanAdvances
<1>5. CASE GcErase \/ RelocErase
  <2>1. PICK code : Erases(nand, job.src, nand', code)
    BY <1>5 DEF GcErase, RelocErase
  <2>2. job.src \in Block /\ UNCHANGED <<cur_write_block, cur_write_page>>
    BY <1>5 DEF GcErase, RelocErase, TypeOK
  <2>3. nand' = nand \/ WornOut(nand, job.src, nand') \/ Emptied(nand, job.src, nand')
    BY <1>1, <2>1, <2>2, EraseEffect
  <2>4. nand'.page_valid \subseteq nand.page_valid
    BY <2>3 DEF WornOut, Emptied
  <2>5. QED
    BY <2>2, <2>4, CleanRests
<1>6. CASE RelocMove
  <2> DEFINE x == <<job.dst, job.page>>
             m == nand_page_write(nand, x, nand.media[Here])
  <2>1. nand' = nand_mark_page_invalid(m, Here) /\ UNCHANGED <<cur_write_block, cur_write_page>>
        /\ pc = "reloc" /\ job.page < PagesPerBlock /\ Movable
    BY <1>6 DEF RelocMove
  <2>2. x \in PPN /\ x[1] # cur_write_block /\ Here \in PPN /\ nand.media[Here] \in Data \cup {Blank}
    <3>1. job.dst \in Block /\ job.page \in Page /\ job.dst # cur_write_block
      BY <2>1, NandAssumption DEF TypeOK, Page, ScanInv
    <3>2. QED
      BY <2>1, <3>1, PairFacts, MovableFacts
  <2> HIDE DEF x
  <2>3. m \in NandType /\ m.page_valid = nand.page_valid \cup {x}
    BY <1>1, <2>2, PageWriteType, PageWriteEffect
  <2> HIDE DEF m
  <2>4. nand'.page_valid \subseteq m.page_valid
    BY <2>1, <2>2, <2>3, InvalidShrinks
  <2>5. QED
    BY <2>1, <2>2, <2>3, <2>4, CleanRests
<1>7. CASE WriteProgram
  <2>1. CASE AllocationFails
    BY <1>2, <1>7, <2>1 DEF WriteProgram, KeepMap
  <2>2. CASE ~AllocationFails
    <3>1. PICK x \in PPN : /\ Allocates(x) /\ AdvanceTo(x)
                           /\ \/ nand_page_write_ret(nand, x) = "OK" /\ Commit(x)
                              \/ UNCHANGED nand
      BY <1>7, <2>2 DEF WriteProgram
    <3>2. op.call = "write"
      BY <1>7 DEF WriteProgram, AboutToProgram, OpInv
    <3>3. nand'.page_valid \subseteq nand.page_valid \cup {x}
      BY <3>1, <3>2, CommitDevice
    <3>4. QED
      BY <3>1, <3>3, CleanAdvances
  <2>3. QED
    BY <2>1, <2>2
<1>8. CASE WriteMeetsBadBlock
  <2>1. PICK x \in PPN :
           /\ Allocates(x)
           /\ nand_page_write_ret(nand, x) = "BAD_BLOCK"
           /\ cur_write_page' = x[2] + 1
           /\ \/ \E r \in ReservedBlock : AllocatesReserved(nand, r) /\ ReplaceBlock(x[1], r)
              \/ KeepMap
    BY <1>8 DEF WriteMeetsBadBlock
  <2>2. nand.state[x[1]] = "BAD" /\ x[1] \in Block
    BY <2>1, PairFacts DEF nand_page_write_ret
  <2>3. x[1] = cur_write_block
    BY <2>1, <2>2, AllocatedPage
  <2>4. CASE KeepMap
    BY <2>1, <2>3, <2>4, CleanAdvances DEF KeepMap, AdvanceTo
  <2>5. ASSUME NEW r \in ReservedBlock, AllocatesReserved(nand, r), ReplaceBlock(x[1], r)
        PROVE  FrontierClean'
    <3>1. r \in Block /\ nand.state[r] = "FREE"
      BY <2>5, BlockFacts DEF AllocatesReserved
    <3>2. nand'.page_valid = nand.page_valid
      BY <1>1, <2>2, <2>5, <3>1, ReplaceBadEffect DEF ReplaceBlock
    <3>3. \A pg \in Page : <<r, pg>> \notin nand.page_valid
      BY <3>1 DEF SpaceInv, FreeBlocksEmpty, ValidPagesOf
    <3>4. QED
      BY <2>3, <2>5, <3>2, <3>3 DEF ReplaceBlock, FrontierClean
  <2>6. QED
    BY <2>1, <2>4, <2>5
<1>9. CASE TrimPage
  <2>1. op.lpn \in LPN
    BY <1>9, FtlAssumption DEF TrimPage, OpInv, TypeOK, LPN
  <2>2. nand' = nand \/ (l2p[op.lpn] \in PPN /\ nand' = nand_mark_page_invalid(nand, l2p[op.lpn]))
    BY <1>9, <2>1 DEF TrimPage, TypeOK
  <2>3. nand'.page_valid \subseteq nand.page_valid
    BY <1>1, <2>2, InvalidShrinks
  <2>4. QED
    BY <1>9, <2>3, CleanRests DEF TrimPage
<1>10. CASE TrimDone \/ LifetimeEnds \/ UNCHANGED vars
  BY <1>2, <1>10 DEF TrimDone, KeepMap, LifetimeEnds, vars, ftlVars
<1>11. CASE Arrival
  BY <1>2, <1>11, CoreArrival
<1>12. QED
  BY <1>3, <1>4, <1>5, <1>6, <1>7, <1>8, <1>9, <1>10, <1>11
     DEF Next, Internal, GcStep, RelocStep, WriteStep, TrimStep

(* From a new device on, the rest of the block being filled is erased, so  *)
(* ftl_write and gc_do_recycle never run into a page that is programmed    *)
(* already.                                                                *)
THEOREM FrontierStaysClean ==
    ASSUME CoreCalls
    PROVE  Spec /\ []Level => []FrontierClean
<1>1. Init => FrontierClean
  <2> SUFFICES ASSUME Init PROVE FrontierClean
    OBVIOUS
  <2>1. PICK bad \in SUBSET Block : nand = NewDevice(bad)
    BY DEF Init, NandInit
  <2>2. nand.page_valid = {}
    BY <2>1 DEF NewDevice
  <2>3. QED
    BY <2>2 DEF FrontierClean
<1>2. QED
  BY <1>1, CoreAlways, CleanStep, PTL DEF Spec

-----------------------------------------------------------------------------
(* The refinement.                                                         *)

LEMMA ContentIs ==
    ASSUME DataInv
    PROVE  \A l \in LPN : Content(l) = Stored(l)
BY DEF DataInv, MappedPagesReachable, Content, Stored

LEMMA ContentWas ==
    ASSUME DataInv'
    PROVE  \A l \in LPN : Content(l)' = Stored(l)'
BY DEF DataInv, MappedPagesReachable, Content, Stored

(* The disk the FTL shows.                                                 *)
Shown == [l \in LPN |-> Content(l)]

LEMMA ShownSame ==
    ASSUME DataInv, DataInv', SameContent
    PROVE  Shown' = Shown
BY ContentIs, ContentWas DEF SameContent, Shown

LEMMA ShownChanges ==
    ASSUME DataInv, DataInv', NEW k \in LPN, NEW d,
           \A l \in LPN : Stored(l)' = IF l = k THEN d ELSE Stored(l)
    PROVE  Shown' = [Shown EXCEPT ![k] = d]
BY ContentIs, ContentWas DEF Shown

LEMMA DiskInitially == Init => Disk!DiskInit
BY DEF Init, NoOp, Disk!DiskInit, Disk!Between, Content

LEMMA DiskReturn ==
    ASSUME NEW code, NEW d, Return(code, d)
    PROVE  Disk!Return(code, d)
<1>1. pc' = "idle" /\ op'.call = "none" /\ reply' = [ret |-> code, data |-> d]
  BY DEF Return, NoOp
<1>2. (op.call = "write" /\ pc = "reloc")' = FALSE
  BY <1>1
<1>3. QED
  BY <1>1, <1>2 DEF Disk!Return

LEMMA DiskWriteFails ==
    ASSUME op.call = "write", pc # "reloc", NEW code \in RetCode \ {"OK"}, Return(code, Blank),
           Shown' = Shown
    PROVE  Disk!DiskNext
<1>1. Disk!Return(code, Blank)
  BY DiskReturn
<1>2. Disk!WriteFails
  BY <1>1 DEF Disk!WriteFails, Shown
<1>3. QED
  BY <1>2 DEF Disk!DiskNext

LEMMA DiskMaintenance ==
    ASSUME op.call = "gc", NEW code \in RetCode \ {"NOT_MAPPED"}, Return(code, Blank),
           Shown' = Shown
    PROVE  Disk!DiskNext
<1>1. Disk!Return(code, Blank)
  BY DiskReturn
<1>2. Disk!MaintenanceReturns
  BY <1>1 DEF Disk!MaintenanceReturns, Shown
<1>3. QED
  BY <1>2 DEF Disk!DiskNext

LEMMA DiskStutter ==
    ASSUME Shown' = Shown, UNCHANGED <<op, reply>>, pc # "reloc" \/ op.call # "write",
           pc' # "reloc" \/ op.call # "write"
    PROVE  UNCHANGED Disk!diskVars
<1>1. (op.call = "write" /\ pc = "reloc")' = (op.call = "write" /\ pc = "reloc")
  OBVIOUS
<1>2. QED
  BY <1>1 DEF Disk!diskVars, Shown

LEMMA DiskGcEnd ==
    ASSUME op.call \in {"gc", "write"}, pc # "reloc",
           NEW code \in {"OK", "NO_SPACE", "INTERNAL", "BAD_BLOCK"}, GcEnd(code), Shown' = Shown
    PROVE  Disk!DiskNext \/ UNCHANGED Disk!diskVars
<1>1. CASE op.call = "write" /\ code = "OK"
  <2>1. pc' = "write" /\ UNCHANGED <<op, reply>>
    BY <1>1 DEF GcEnd, Busy
  <2>2. QED
    BY <2>1, DiskStutter
<1>2. CASE op.call = "write" /\ code # "OK"
  <2>1. Return("NO_SPACE", Blank) /\ "NO_SPACE" \in RetCode \ {"OK"}
    BY <1>2 DEF GcEnd, RetCode
  <2>2. QED
    BY <1>2, <2>1, DiskWriteFails
<1>3. CASE op.call = "gc"
  <2>1. Return(code, Blank) /\ code \in RetCode \ {"NOT_MAPPED"}
    BY <1>3 DEF GcEnd, RetCode
  <2>2. QED
    BY <1>3, <2>1, DiskMaintenance
<1>4. QED
  BY <1>1, <1>2, <1>3

LEMMA DiskArrival ==
    ASSUME CoreCalls, CoreInv, Arrival, Shown' = Shown
    PROVE  Disk!DiskNext \/ UNCHANGED Disk!diskVars
<1> USE DEF CoreInv, BaseInv, TypeInv
<1>1. ASSUME NEW where \in {"write", "trim", "trigger"}, NEW o, o.call # "none", Begin(where, o)
      PROVE  Disk!DiskNext
  <2>1. pc = "idle" /\ op.call = "none" /\ op'.call # "none" /\ pc' # "reloc" /\ UNCHANGED reply
    BY <1>1 DEF Begin, Busy, OpInv
  <2>2. (op.call = "write" /\ pc = "reloc")' = FALSE
    BY <2>1
  <2>3. Disk!Accept
    BY <2>1, <2>2 DEF Disk!Accept, Disk!Between, Shown
  <2>4. QED
    BY <2>3 DEF Disk!DiskNext
<1>2. ASSUME NEW l \in LPN, NEW d \in Data, CallWrite(l, d) PROVE Disk!DiskNext
  <2>1. [NoOp EXCEPT !.call = "write", !.lpn = l, !.data = d].call # "none"
    BY DEF NoOp
  <2>2. QED
    BY <1>1, <1>2, <2>1 DEF CallWrite
<1>3. ASSUME NEW l \in LPN, NEW c \in TrimCounts, CallTrim(l, c) PROVE Disk!DiskNext
  <2>1. [NoOp EXCEPT !.call = "trim", !.lpn = l, !.end = TrimEnd(l, c)].call # "none"
    BY DEF NoOp
  <2>2. QED
    BY <1>1, <1>3, <2>1 DEF CallTrim
<1>4. CallTriggerGc => Disk!DiskNext
  <2>1. [NoOp EXCEPT !.call = "gc"].call # "none"
    BY DEF NoOp
  <2>2. QED
    BY <1>1, <2>1 DEF CallTriggerGc
<1>5. ASSUME NEW a \in Algos, CallSetGcAlgo(a) PROVE UNCHANGED Disk!diskVars
  BY <1>5, DiskStutter DEF CallSetGcAlgo
<1>6. ASSUME NEW l \in LPN, CallRead(l) PROVE Disk!DiskNext
  <2>1. op.call = "none"
    BY <1>6 DEF CallRead, OpInv
  <2>2. CASE l2p[l] = NoPpn
    <3>1. Return("NOT_MAPPED", Blank)
      BY <1>6, <2>2 DEF CallRead
    <3>2. Content(l) = Blank
      BY <2>2 DEF Content
    <3>3. Disk!Read(l)
      BY <2>1, <3>1, <3>2, DiskReturn DEF Disk!Read, Disk!Between, Shown
    <3>4. QED
      BY <3>3 DEF Disk!DiskNext
  <2>3. CASE l2p[l] # NoPpn
    <3>1. nand_page_read_ret(nand, l2p[l]) = "OK" /\ nand.media[l2p[l]] \in Data
      BY <2>3 DEF DataInv, MappedPagesReachable, MappedData
    <3>2. Return("OK", nand.media[l2p[l]])
      BY <1>6, <2>3, <3>1 DEF CallRead
    <3>3. Content(l) = nand.media[l2p[l]] /\ Content(l) # Blank
      BY <2>3, <3>1, NandAssumption DEF Content
    <3>4. Disk!Return("OK", Content(l))
      BY <3>2, <3>3, DiskReturn
    <3>5. Disk!Read(l)
      BY <2>1, <3>3, <3>4 DEF Disk!Read, Disk!Between, Shown
    <3>6. QED
      BY <3>5 DEF Disk!DiskNext
  <2>4. QED
    BY <2>2, <2>3
<1>7. QED
  BY <1>2, <1>3, <1>4, <1>5, <1>6, CoreArrival

LEMMA DiskWrite ==
    ASSUME CoreInv, CoreInv', Level, WriteProgram
    PROVE  Disk!DiskNext
<1> USE DEF CoreInv, BaseInv, TypeInv
<1>1. op.call = "write" /\ op.lpn \in LPN /\ pc # "reloc"
  BY DEF WriteProgram, AboutToProgram, OpInv
<1>2. CASE SameContent /\ pc' = "idle"
  <2>1. Shown' = Shown
    BY <1>2, ShownSame
  <2>2. CASE AllocationFails
    <3>1. Return("NO_SPACE", Blank) /\ "NO_SPACE" \in RetCode \ {"OK"}
      BY <2>2 DEF WriteProgram, RetCode
    <3>2. QED
      BY <1>1, <2>1, <3>1, DiskWriteFails
  <2>3. CASE ~AllocationFails
    <3>1. PICK x \in PPN :
             /\ Allocates(x) /\ AdvanceTo(x)
             /\ \/ nand_page_write_ret(nand, x) = "OK" /\ Commit(x)
                \/ /\ nand_page_write_ret(nand, x) # "OK"
                   /\ Return(nand_page_write_ret(nand, x), Blank)
      BY <2>3 DEF WriteProgram
    <3>2. CASE nand_page_write_ret(nand, x) = "OK" /\ Commit(x)
      <4>1. \A l \in LPN : Stored(l)' = IF l = op.lpn THEN op.data ELSE Stored(l)
        BY <1>1, <3>1, <3>2, CommitKeeps
      <4>2. Return("OK", Blank)
        BY <1>2, <3>2 DEF Commit, Busy
      <4>3. Shown' = [Shown EXCEPT ![op.lpn] = op.data]
        BY <1>1, <4>1, ShownChanges
      <4>4. Disk!WriteSucceeds
        BY <1>1, <4>2, <4>3, DiskReturn DEF Disk!WriteSucceeds, Disk!WriteEffect, Shown
      <4>5. QED
        BY <4>4 DEF Disk!DiskNext
    <3>3. CASE /\ nand_page_write_ret(nand, x) # "OK"
               /\ Return(nand_page_write_ret(nand, x), Blank)
      <4>1. nand_page_write_ret(nand, x) \in RetCode \ {"OK"}
        BY <3>3 DEF nand_page_write_ret, RetCode
      <4>2. QED
        BY <1>1, <2>1, <3>3, <4>1, DiskWriteFails
    <3>4. QED
      BY <3>1, <3>2, <3>3
  <2>4. QED
    BY <2>2, <2>3
<1>3. ASSUME NEW x \in PPN, Commit(x),
             \A l \in LPN : Stored(l)' = IF l = op.lpn THEN op.data ELSE Stored(l)
      PROVE  Disk!DiskNext
  <2>1. Shown' = [Shown EXCEPT ![op.lpn] = op.data]
    BY <1>1, <1>3, ShownChanges
  <2>2. CASE Return("OK", Blank)
    <3>1. Disk!WriteSucceeds
      BY <1>1, <2>1, <2>2, DiskReturn DEF Disk!WriteSucceeds, Disk!WriteEffect, Shown
    <3>2. QED
      BY <3>1 DEF Disk!DiskNext
  <2>3. CASE Busy("reloc") /\ UNCHANGED op
    <3>1. pc' = "reloc" /\ UNCHANGED <<op, reply>>
      BY <2>3 DEF Busy
    <3>2. Disk!WriteTakesEffect
      BY <1>1, <2>1, <3>1 DEF Disk!WriteTakesEffect, Disk!WriteEffect, Shown
    <3>3. QED
      BY <3>2 DEF Disk!DiskNext
  <2>4. QED
    BY <1>3, <2>2, <2>3 DEF Commit
<1>4. QED
  BY <1>2, <1>3, WriteProgramKeeps

LEMMA DiskStep ==
    CoreCalls /\ CoreInv /\ CoreInv' /\ Level /\ [Next]_vars => [Disk!DiskNext]_(Disk!diskVars)
<1> SUFFICES ASSUME CoreCalls, CoreInv, CoreInv', Level, [Next]_vars
             PROVE  Disk!DiskNext \/ UNCHANGED Disk!diskVars
  OBVIOUS
<1> USE DEF CoreInv, BaseInv, TypeInv
<1>1. CASE WriteProgram
  BY <1>1, DiskWrite
<1>2. CASE TrimPage
  <2>1. op.call = "trim" /\ pc' = pc /\ pc = "trim" /\ op.lpn < op.end /\ op' = [op EXCEPT !.lpn = @ + 1]
        /\ reply' = reply /\ op'.call = "trim"
    BY <1>2 DEF TrimPage, OpInv, TypeOK
  <2>2. op.lpn \in LPN /\ \A l \in LPN : Stored(l)' = IF l = op.lpn THEN Blank ELSE Stored(l)
    BY <1>2, TrimKeeps
  <2>3. Shown' = [Shown EXCEPT ![op.lpn] = Blank]
    BY <2>2, ShownChanges
  <2>4. (op.call = "write" /\ pc = "reloc")' = (op.call = "write" /\ pc = "reloc")
    BY <2>1
  <2>5. Disk!TrimPage
    BY <2>1, <2>3, <2>4 DEF Disk!TrimPage, Shown
  <2>6. QED
    BY <2>5 DEF Disk!DiskNext
<1>3. CASE Maintenance
  <2>1. Shown' = Shown
    BY <1>3, MaintenanceKeeps, ShownSame
  <2>2. CASE GcBegin
    <3>1. op.call \in {"gc", "write"} /\ pc # "reloc"
      BY <2>2 DEF GcBegin, CallInv, OpInv
    <3>2. CASE GcEnd("NO_SPACE")
      BY <2>1, <3>1, <3>2, DiskGcEnd
    <3>3. CASE Busy("gc") /\ UNCHANGED op
      BY <2>1, <3>1, <3>3, DiskStutter DEF Busy
    <3>4. QED
      BY <2>2, <3>2, <3>3 DEF GcBegin
  <2>3. CASE GcSkip
    BY <2>1, <2>3, DiskStutter DEF GcSkip, NextPage
  <2>4. CASE GcMove
    <3>1. pc = "gc" /\ op.call \in {"gc", "write"}
      BY <2>4 DEF GcMove, CallInv
    <3>2. CASE NextPage
      BY <2>1, <3>1, <3>2, DiskStutter DEF NextPage
    <3>3. CASE GcEnd("INTERNAL")
      BY <2>1, <3>1, <3>3, DiskGcEnd
    <3>4. QED
      BY <2>4, <3>2, <3>3 DEF GcMove
  <2>5. CASE GcOutOfSpace
    BY <2>1, <2>5, DiskGcEnd DEF GcOutOfSpace, CallInv
  <2>6. CASE GcErase
    BY <2>1, <2>6, DiskGcEnd DEF GcErase, CallInv
  <2>7. CASE RelocSkip \/ RelocMove
    <3>1. UNCHANGED <<pc, op, reply>>
      BY <2>7 DEF RelocSkip, RelocMove, NextPage
    <3>2. QED
      BY <2>1, <3>1 DEF Disk!diskVars, Shown
  <2>8. CASE RelocErase
    <3>1. op.call = "write" /\ pc = "reloc" /\ Return("OK", Blank)
      BY <2>8 DEF RelocErase, CallInv
    <3>2. Disk!Return("OK", Blank)
      BY <3>1, DiskReturn
    <3>3. Disk!WriteSucceeds
      BY <2>1, <3>1, <3>2 DEF Disk!WriteSucceeds, Shown
    <3>4. QED
      BY <3>3 DEF Disk!DiskNext
  <2>9. CASE WriteMeetsBadBlock
    <3>1. op.call = "write" /\ pc = "write"
      BY <2>9 DEF WriteMeetsBadBlock, OpInv
    <3>2. CASE Busy("retry") /\ UNCHANGED op
      BY <2>1, <3>1, <3>2, DiskStutter DEF Busy
    <3>3. CASE Return("NO_SPACE", Blank)
      BY <2>1, <3>1, <3>3, DiskWriteFails DEF RetCode
    <3>4. QED
      BY <2>9, <3>2, <3>3 DEF WriteMeetsBadBlock
  <2>10. CASE TrimDone
    <3>1. op.call = "trim" /\ op.lpn = op.end /\ Return("OK", Blank)
      BY <2>10 DEF TrimDone, OpInv
    <3>2. Disk!Return("OK", Blank)
      BY <3>1, DiskReturn
    <3>3. Disk!TrimReturns
      BY <2>1, <3>1, <3>2 DEF Disk!TrimReturns, Shown
    <3>4. QED
      BY <3>3 DEF Disk!DiskNext
  <2>11. CASE Arrival
    BY <2>1, <2>11, DiskArrival
  <2>12. CASE LifetimeEnds \/ UNCHANGED vars
    <3>1. UNCHANGED <<pc, op, reply>>
      BY <2>12 DEF LifetimeEnds, vars, ftlVars
    <3>2. QED
      BY <2>1, <3>1 DEF Disk!diskVars, Shown
  <2>13. QED
    BY <1>3, <2>2, <2>3, <2>4, <2>5, <2>6, <2>7, <2>8, <2>9, <2>10, <2>11, <2>12 DEF Maintenance
<1>4. QED
  BY <1>1, <1>2, <1>3, StepCases

(* While the erase counts are level, the FTL implements the logical disk,  *)
(* for every size of the device and whichever blocks are bad from the      *)
(* start or wear out: garbage collection, static wear levelling and the    *)
(* replacement of a bad write block are invisible, ftl_write returns       *)
(* RET_OK exactly when its data can be read back, a failed ftl_write       *)
(* leaves the previous data, and ftl_read returns what was written last.   *)
THEOREM FtlImplementsDisk ==
    ASSUME CoreCalls
    PROVE  Spec /\ []Level => ImplementsDisk
<1>1. Spec /\ []Level => []CoreInv
  BY CoreAlways
<1>2. CoreInv /\ CoreInv' /\ Level /\ [Next]_vars => [Disk!DiskNext]_(Disk!diskVars)
  BY DiskStep
<1>3. QED
  BY <1>1, <1>2, DiskInitially, PTL DEF Spec, ImplementsDisk, Disk!DiskSpec

-----------------------------------------------------------------------------
(* Victim selection.                                                       *)

HasSpace(n, b) == n.state[b] = "USED" /\ n.valid_page_cnt[b] < PagesPerBlock

LEMMA GreedyVictim ==
    ASSUME NEW n \in NandType, NEW c \in UserBlock, HasSpace(n, c), NEW b, gc_select_greedy(n, b)
    PROVE  HasSpace(n, b)
<1> DEFINE S == {x \in UsedIn(n, UserBlock) : n.valid_page_cnt[x] <= PagesPerBlock}
<1>1. c \in Block /\ n.valid_page_cnt[c] \in Nat
  BY BlockFacts, NandAssumption DEF NandType
<1>2. c \in S
  BY <1>1, NandAssumption DEF HasSpace, UsedIn
<1>3. b \in S /\ ~(n.valid_page_cnt[c] < n.valid_page_cnt[b])
  BY <1>2 DEF gc_select_greedy, FewestValid, FirstBest
<1>4. b \in Block /\ n.valid_page_cnt[b] \in Nat /\ n.state[b] = "USED"
  BY <1>3, BlockFacts, NandAssumption DEF NandType, UsedIn
<1>5. QED
  BY <1>1, <1>3, <1>4, NandAssumption DEF HasSpace

LEMMA InvalidPagesValue ==
    ASSUME NEW n, Counted(n), NEW b \in Block
    PROVE  /\ n.valid_page_cnt[b] \in 0..PagesPerBlock
           /\ InvalidPages(n, b) = PagesPerBlock - n.valid_page_cnt[b]
<1>1. n.valid_page_cnt[b] \in 0..PagesPerBlock
  BY ValidPagesFinite DEF Counted
<1>2. QED
  BY <1>1, NandAssumption DEF InvalidPages

(* A score that is zero for a full block and positive for one with space.  *)
LEMMA PositiveBeatsZero ==
    ASSUME NEW p \in Nat, NEW q \in Nat, NEW e \in Nat, NEW f \in Nat, p > 0, q = 0
    PROVE  p * (e + 1) > q * (f + 1)
<1>1. q * (f + 1) = 0
  OBVIOUS
<1>2. p * (e + 1) > 0
  OBVIOUS
<1>3. QED
  BY <1>1, <1>2

LEMMA CostBenefitVictim ==
    ASSUME NEW n \in NandType, Counted(n), NEW c \in UserBlock, HasSpace(n, c),
           NEW b, gc_select_cost_benefit(n, b)
    PROVE  HasSpace(n, b)
<1>1. c \in UsedIn(n, UserBlock) /\ c \in Block
  BY BlockFacts DEF HasSpace, UsedIn
<1>2. /\ b \in UsedIn(n, UserBlock)
      /\ ~(InvalidPages(n, c) * (n.erase_count[b] + 1) > InvalidPages(n, b) * (n.erase_count[c] + 1))
  BY <1>1 DEF gc_select_cost_benefit, FirstBest
<1>3. b \in Block /\ n.state[b] = "USED"
  BY <1>2, BlockFacts DEF UsedIn
<1>4. InvalidPages(n, c) \in Nat /\ InvalidPages(n, c) > 0
  BY <1>1, InvalidPagesValue, NandAssumption DEF HasSpace
<1>5. n.erase_count[b] \in Nat /\ n.erase_count[c] \in Nat
  BY <1>1, <1>3, NandAssumption DEF NandType
<1>6. InvalidPages(n, b) \in Nat /\ InvalidPages(n, b) # 0
  <2>1. InvalidPages(n, b) \in Nat
    BY <1>3, InvalidPagesValue, NandAssumption
  <2>2. QED
    BY <1>2, <1>4, <1>5, <2>1, PositiveBeatsZero
<1>7. QED
  BY <1>3, <1>6, InvalidPagesValue, NandAssumption DEF HasSpace

LEMMA CatVictim ==
    ASSUME NEW n \in NandType, Counted(n), CatAgeWeight > 0, NEW c \in UserBlock, HasSpace(n, c),
           NEW b, gc_select_cat(n, b)
    PROVE  HasSpace(n, b)
<1> DEFINE S   == UsedIn(n, UserBlock)
           E   == {n.erase_count[x] : x \in S}
           Top == CHOOSE e \in E : \A x \in S : n.erase_count[x] <= e
           Age(x) == IF Top > 0 THEN Top - n.erase_count[x] + CatAgeWeight ELSE 1
           Num(x) == InvalidPages(n, x) * Age(x)
<1>1. c \in S /\ c \in Block
  BY BlockFacts DEF HasSpace, UsedIn
<1>2. b \in S /\ ~(Num(c) * (n.erase_count[b] + 1) > Num(b) * (n.erase_count[c] + 1))
  BY <1>1 DEF gc_select_cat, FirstBest
<1>3. b \in Block /\ n.state[b] = "USED"
  BY <1>2, BlockFacts DEF UsedIn
<1>4. Top \in E /\ \A x \in S : n.erase_count[x] <= Top
  <2>1. E \in SUBSET (0..MaxErase) /\ E # {} /\ MaxErase \in Nat
    BY <1>1, BlockFacts, NandAssumption DEF NandType, UsedIn
  <2>2. \E e \in E : \A k \in E : k <= e
    BY <2>1, LargestExists
  <2>3. \E e \in E : \A x \in S : n.erase_count[x] <= e
    BY <2>2
  <2>4. QED
    BY <2>3
<1>5. Top \in Nat /\ \A x \in S : n.erase_count[x] \in Nat
  <2>1. \A x \in S : x \in Block
    BY BlockFacts DEF UsedIn
  <2>2. \A x \in Block : n.erase_count[x] \in Nat
    BY NandAssumption DEF NandType
  <2>3. \A x \in S : n.erase_count[x] \in Nat
    BY <2>1, <2>2
  <2> HIDE DEF Top, S
  <2>4. QED
    BY <1>4, <2>3
<1> HIDE DEF Top
<1>6. \A x \in S : Age(x) \in Nat /\ Age(x) > 0
  BY <1>4, <1>5, GcSelectAssumption
<1> HIDE DEF Age, S
<1>7. /\ InvalidPages(n, c) \in Nat /\ InvalidPages(n, c) > 0
      /\ InvalidPages(n, b) \in Nat
      /\ InvalidPages(n, b) = 0 => InvalidPages(n, b) * Age(b) = 0
  BY <1>1, <1>2, <1>3, <1>6, InvalidPagesValue, NandAssumption DEF HasSpace
<1>8. Num(c) \in Nat /\ Num(c) > 0 /\ Num(b) \in Nat
  BY <1>1, <1>2, <1>6, <1>7
<1>9. Num(b) # 0
  BY <1>1, <1>2, <1>5, <1>8, PositiveBeatsZero
<1>10. InvalidPages(n, b) # 0
  BY <1>7, <1>9
<1>11. QED
  BY <1>3, <1>10, InvalidPagesValue, NandAssumption DEF HasSpace

LEMMA FraVictim ==
    ASSUME NEW n \in NandType, NEW c \in UserBlock, HasSpace(n, c), NEW b, gc_select_fra(n, b)
    PROVE  HasSpace(n, b)
<1> DEFINE Empty == {x \in UsedIn(n, UserBlock) : n.valid_page_cnt[x] = 0}
<1>1. CASE Empty # {}
  <2>1. b \in Empty
    BY <1>1 DEF gc_select_fra
  <2>2. QED
    BY <2>1, NandAssumption DEF HasSpace, UsedIn
<1>2. CASE Empty = {}
  <2>1. gc_select_greedy(n, b)
    BY <1>2 DEF gc_select_fra
  <2>2. QED
    BY <2>1, GreedyVictim
<1>3. QED
  BY <1>1, <1>2

(* What the selection promises, for the block a collection starts with.    *)
LEMMA VictimChosen ==
    ASSUME CoreInv, CatAgeWeight > 0, gc_algo \notin {"WINDOWED", "D_CHOICES"},
           NEW c \in UserBlock, HasSpace(nand, c), NEW b \in Block, GcVictim(b)
    PROVE  HasSpace(nand, b)
<1>1. nand \in NandType /\ Counted(nand) /\ gc_algo \in GcAlgo
  BY SpaceOf DEF CoreInv, BaseInv, TypeInv, TypeOK
<1>2. PICK g : gc_select_victim_block(nand, gc_algo, cur_write_block, g, b)
  BY DEF GcVictim
<1>3. \/ gc_select_cost_benefit(nand, b)
      \/ gc_select_cat(nand, b)
      \/ gc_select_fra(nand, b)
      \/ gc_select_greedy(nand, b)
  <2> HIDE DEF gc_select_cost_benefit, gc_select_cat, gc_select_fra, gc_select_greedy
  <2>1. CASE gc_algo = "COST_BENEFIT"
    BY <1>2, <2>1 DEF gc_select_victim_block
  <2>2. CASE gc_algo = "CAT"
    BY <1>2, <2>2 DEF gc_select_victim_block
  <2>3. CASE gc_algo = "FRA"
    BY <1>2, <2>3 DEF gc_select_victim_block
  <2>4. CASE gc_algo = "GREEDY"
    BY <1>2, <2>4 DEF gc_select_victim_block
  <2>5. QED
    BY <1>1, <2>1, <2>2, <2>3, <2>4 DEF GcAlgo
<1>4. QED
  BY <1>1, <1>3, GreedyVictim, CostBenefitVictim, CatVictim, FraVictim

LEMMA VictimStep ==
    CatAgeWeight > 0 /\ CoreCalls /\ CoreInv /\ VictimHasSpace /\ [Next]_vars => VictimHasSpace'
<1> SUFFICES ASSUME CatAgeWeight > 0, CoreCalls, CoreInv, VictimHasSpace, [Next]_vars,
                    (pc = "gc" /\ job.page = 0)'
             PROVE  VictimHasSpace'
  BY DEF VictimHasSpace
<1> USE DEF CoreInv, BaseInv, TypeInv, TypeOK
<1>1. CASE GcBegin
  <2>1. PICK b \in Block : GcVictim(b) /\ job' = [NoJob EXCEPT !.src = b]
    BY <1>1, GcEndFacts DEF GcBegin
  <2>2. UNCHANGED <<nand, gc_algo>> /\ job'.src = b
    BY <1>1, <2>1 DEF GcBegin, NoJob
  <2>3. ASSUME gc_algo \notin {"WINDOWED", "D_CHOICES"}, NEW c \in UserBlock, HasSpace(nand, c)
        PROVE  HasSpace(nand, b)
    BY <2>1, <2>3, VictimChosen
  <2>4. QED
    BY <2>2, <2>3 DEF VictimHasSpace, HasSpace
<1>2. ASSUME NextPage PROVE FALSE
  BY <1>2, NandAssumption DEF NextPage
<1>3. ASSUME NEW code, NEW d, Return(code, d) PROVE FALSE
  BY <1>3 DEF Return
<1>4. ASSUME NEW code, GcEnd(code) PROVE FALSE
  BY <1>4, GcEndFacts
<1>5. CASE GcSkip \/ RelocSkip \/ RelocMove
  BY <1>2, <1>5 DEF GcSkip, RelocSkip, RelocMove
<1>6. CASE GcMove \/ GcOutOfSpace \/ GcErase
  BY <1>2, <1>4, <1>6 DEF GcMove, GcOutOfSpace, GcErase
<1>7. CASE RelocErase \/ TrimDone
  BY <1>3, <1>7 DEF RelocErase, TrimDone
<1>8. CASE WriteProgram
  BY <1>3, <1>8 DEF WriteProgram, Commit, Busy
<1>9. CASE WriteMeetsBadBlock
  BY <1>3, <1>9 DEF WriteMeetsBadBlock, Busy
<1>10. CASE TrimPage
  BY <1>10 DEF TrimPage
<1>11. CASE Arrival
  BY <1>11, CoreArrival
<1>12. CASE LifetimeEnds \/ UNCHANGED vars
  BY <1>12 DEF LifetimeEnds, vars, ftlVars, VictimHasSpace
<1>13. QED
  BY <1>1, <1>5, <1>6, <1>7, <1>8, <1>9, <1>10, <1>11, <1>12
     DEF Next, Internal, GcStep, RelocStep, WriteStep, TrimStep

(* A collection that GREEDY, COST_BENEFIT, CAT or FRA starts gains space   *)
(* whenever a user block has an invalid page: ftl_write's loop does not    *)
(* spin on full blocks.  For CAT this needs the age weight to be positive, *)
(* for the uint32_t scores it needs the counters to be exact.              *)
THEOREM VictimsHaveSpace ==
    ASSUME CoreCalls, CatAgeWeight > 0
    PROVE  Spec /\ []Level => []VictimHasSpace
<1>1. Init => VictimHasSpace
  BY DEF Init, VictimHasSpace
<1>2. QED
  BY <1>1, CoreAlways, VictimStep, PTL DEF Spec

-----------------------------------------------------------------------------
(* The scans of the victim selection end with one block.                   *)

(* A set of numbers that is not empty has a least member.                  *)
LEMMA LeastExists ==
    ASSUME NEW T \in SUBSET Nat, T # {}
    PROVE  \E l \in T : \A k \in T : l <= k
<1> DEFINE less == {ss \in Nat \X Nat : ss[1] < ss[2]}
<1>1. less = OpToRel(<, Nat)
  BY DEF OpToRel
<1>2. IsWellFoundedOn(less, Nat)
  BY <1>1, NatLessThanWellFounded
<1>3. \A a, b \in Nat : <<a, b>> \in less <=> a < b
  OBVIOUS
<1> HIDE DEF less
<1>4. PICK m \in T : \A k \in T : ~ (<<k, m>> \in less)
  BY <1>2, WFMin
<1>5. \A k \in T : m <= k
  <2> TAKE k \in T
  <2>1. k \in Nat /\ m \in Nat /\ ~ (k < m)
    BY <1>3, <1>4
  <2>2. QED
    BY <2>1
<1>6. QED
  BY <1>5

(* A finite set that is not empty has a member no other one precedes: the  *)
(* one with the fewest predecessors.                                       *)
LEMMA MinimalExists ==
    ASSUME NEW S, IsFiniteSet(S), S # {}, NEW R,
           \A x \in S : <<x, x>> \notin R,
           \A x, y, z \in S : <<x, y>> \in R /\ <<y, z>> \in R => <<x, z>> \in R
    PROVE  \E b \in S : \A c \in S : <<c, b>> \notin R
<1> DEFINE before(y) == {x \in S : <<x, y>> \in R}
           T         == {Cardinality(before(y)) : y \in S}
<1>1. \A y \in S : before(y) \subseteq S /\ IsFiniteSet(before(y)) /\ Cardinality(before(y)) \in Nat
  <2> TAKE y \in S
  <2>1. before(y) \subseteq S
    OBVIOUS
  <2> HIDE DEF before
  <2>2. QED
    BY <2>1, FS_Subset, FS_CardinalityType
<1> HIDE DEF before
<1>2. T \in SUBSET Nat /\ T # {}
  BY <1>1
<1>3. PICK l \in T : \A k \in T : l <= k
  BY <1>2, LeastExists
<1>4. PICK b \in S : l = Cardinality(before(b))
  BY <1>3
<1>5. ASSUME NEW c \in S, <<c, b>> \in R PROVE FALSE
  <2>1. before(c) \subseteq before(b) /\ c \in before(b) /\ c \notin before(c)
    <3>1. \A x \in S : <<x, c>> \in R => <<x, b>> \in R
      BY <1>5
    <3>2. <<c, c>> \notin R
      OBVIOUS
    <3>3. QED
      BY <1>5, <3>1, <3>2 DEF before
  <2>2. Cardinality(before(b)) <= Cardinality(before(c))
    BY <1>3, <1>4
  <2>3. /\ IsFiniteSet(before(b)) /\ IsFiniteSet(before(c))
        /\ Cardinality(before(b)) \in Nat /\ Cardinality(before(c)) \in Nat
    BY <1>1
  <2>4. Cardinality(before(c)) <= Cardinality(before(b)) /\ Cardinality(before(c)) # Cardinality(before(b))
    BY <2>1, <2>3, FS_Subset
  <2>5. QED
    BY <2>2, <2>3, <2>4
<1>6. QED
  BY <1>5

(* A scan in ascending order finds exactly one block when the comparison   *)
(* is a strict weak order.                                                 *)
LEMMA ScanFinds ==
    ASSUME NEW S \in SUBSET Nat, IsFiniteSet(S), S # {}, NEW W,
           \A x, y \in S : <<x, y>> \in W => <<y, x>> \notin W,
           \A x, y, z \in S : <<x, y>> \notin W /\ <<y, z>> \notin W => <<x, z>> \notin W
    PROVE  \E b \in S : \A c \in S : <<c, b>> \notin W /\ (c < b => <<b, c>> \in W)
<1> DEFINE R == {p \in S \X S : p \in W \/ (<<p[2], p[1]>> \notin W /\ p[1] < p[2])}
<1>1. \A x, y \in S : <<x, y>> \in R <=> <<x, y>> \in W \/ (<<y, x>> \notin W /\ x < y)
  OBVIOUS
<1> HIDE DEF R
<1>2. \A x \in S : ~(x < x)
  OBVIOUS
<1>3. \A x, y, z \in S : x < y /\ y < z => x < z
  OBVIOUS
<1>4. \A x \in S : <<x, x>> \notin R
  BY <1>1, <1>2
<1>5. ASSUME NEW x \in S, NEW y \in S, NEW z \in S, <<x, y>> \in R, <<y, z>> \in R
      PROVE  <<x, z>> \in R
  <2>1. <<y, x>> \notin W /\ <<z, y>> \notin W
    BY <1>1, <1>5
  <2>2. <<z, x>> \notin W
    BY <2>1
  <2>3. CASE <<x, y>> \in W \/ <<y, z>> \in W
    <3>1. CASE <<x, z>> \in W
      BY <1>1, <3>1
    <3>2. CASE <<x, z>> \notin W
      BY <2>1, <2>3, <3>2
    <3>3. QED
      BY <3>1, <3>2
  <2>4. CASE <<x, y>> \notin W /\ <<y, z>> \notin W
    <3>1. x < y /\ y < z
      BY <1>1, <1>5, <2>4
    <3>2. x < z
      BY <1>3, <3>1
    <3>3. QED
      BY <1>1, <2>2, <3>2
  <2>5. QED
    BY <2>3, <2>4
<1>6. PICK b \in S : \A c \in S : <<c, b>> \notin R
  BY <1>4, <1>5, MinimalExists
<1>7. QED
  BY <1>1, <1>6

(* Comparing fractions by cross multiplication is one.                     *)
LEMMA CrossOrder ==
    ASSUME NEW p \in Nat, NEW q \in Nat, NEW r \in Nat,
           NEW a \in Nat, NEW b \in Nat, NEW c \in Nat,
           ~(p * (b + 1) > q * (a + 1)), ~(q * (c + 1) > r * (b + 1))
    PROVE  ~(p * (c + 1) > r * (a + 1))
<1> DEFINE A == a + 1
           B == b + 1
           C == c + 1
<1>1. A \in Nat /\ B \in Nat /\ C \in Nat /\ A > 0 /\ B > 0 /\ C > 0
  OBVIOUS
<1>2. p * B <= q * A /\ q * C <= r * B
  OBVIOUS
<1> HIDE DEF A, B, C
<1>3. (p * B) * C <= (q * A) * C
  <2> DEFINE u == p * B
             v == q * A
  <2>1. u \in Nat /\ v \in Nat /\ u <= v
    BY <1>1, <1>2
  <2> HIDE DEF u, v
  <2>2. u * C <= v * C
    BY <1>1, <2>1
  <2>3. QED
    BY <2>2 DEF u, v
<1>4. (q * C) * A <= (r * B) * A
  <2> DEFINE u == q * C
             v == r * B
  <2>1. u \in Nat /\ v \in Nat /\ u <= v
    BY <1>1, <1>2
  <2> HIDE DEF u, v
  <2>2. u * A <= v * A
    BY <1>1, <2>1
  <2>3. QED
    BY <2>2 DEF u, v
<1>5. /\ (p * B) * C = (p * C) * B /\ (q * A) * C = (q * C) * A /\ (r * B) * A = (r * A) * B
  BY <1>1
<1>6. p * C \in Nat /\ r * A \in Nat
  BY <1>1
<1> DEFINE x == p * C
           y == r * A
<1>7. x * B <= y * B
  <2>1. /\ (p * B) * C \in Nat /\ (q * A) * C \in Nat /\ (q * C) * A \in Nat /\ (r * B) * A \in Nat
    BY <1>1
  <2>2. QED
    BY <1>3, <1>4, <1>5, <2>1
<1> HIDE DEF x, y
<1>8. x <= y
  <2>1. x \in Nat /\ y \in Nat
    BY <1>6 DEF x, y
  <2>2. ASSUME x > y PROVE FALSE
    <3>1. PICK k \in Nat : x = y + k /\ k > 0
      <4>1. x - y \in Nat /\ x = y + (x - y) /\ x - y > 0
        BY <2>1, <2>2
      <4>2. QED
        BY <4>1
    <3>2. x * B = y * B + k * B
      BY <1>1, <2>1, <3>1
    <3>3. k * B > 0 /\ k * B \in Nat /\ y * B \in Nat
      BY <1>1, <2>1, <3>1
    <3>4. QED
      BY <1>7, <3>2, <3>3
  <2>3. QED
    BY <2>1, <2>2
<1>9. QED
  BY <1>6, <1>8 DEF x, y, A, C

LEMMA UsedFinite ==
    ASSUME NEW n, NEW B \in SUBSET Block
    PROVE  /\ UsedIn(n, B) \in SUBSET Nat /\ UsedIn(n, B) \subseteq Block
           /\ IsFiniteSet(UsedIn(n, B)) /\ Cardinality(UsedIn(n, B)) \in Nat
<1>1. UsedIn(n, B) \subseteq Block /\ Block \subseteq Nat
  <2>1. Block \subseteq Nat
    BY NandAssumption DEF Block
  <2>2. QED
    BY <2>1 DEF UsedIn
<1>2. IsFiniteSet(Block)
  BY NandAssumption, FS_Interval DEF Block
<1>3. QED
  BY <1>1, <1>2, FS_Subset, FS_CardinalityType

(* The counting scan finds one block in every range that has a used one.   *)
LEMMA FewestFound ==
    ASSUME NEW n, Counted(n), NEW B \in SUBSET Block, UsedIn(n, B) # {}
    PROVE  \E b \in Block : /\ FewestValid(n, B, b)
                            /\ \A c \in Block : FewestValid(n, B, c) => c = b
<1> DEFINE S == {c \in UsedIn(n, B) : n.valid_page_cnt[c] <= PagesPerBlock}
           v(x) == n.valid_page_cnt[x]
           W == {p \in S \X S : v(p[1]) < v(p[2])}
<1>1. \A c \in UsedIn(n, B) : c \in Block /\ v(c) \in Nat /\ v(c) <= PagesPerBlock
  BY UsedFinite, InvalidPagesValue, NandAssumption
<1>2. S = UsedIn(n, B)
  BY <1>1
<1>3. S \in SUBSET Nat /\ IsFiniteSet(S) /\ S # {} /\ S \subseteq Block
  BY <1>2, UsedFinite
<1>4. \A c \in S : v(c) \in Nat
  BY <1>1, <1>2
<1>5. \A x, y \in S : <<x, y>> \in W <=> v(x) < v(y)
  OBVIOUS
<1>6. \A b : FewestValid(n, B, b) <=>
               b \in S /\ \A c \in S : ~(v(c) < v(b)) /\ (c < b => v(b) < v(c))
  BY DEF FewestValid, FirstBest
<1> HIDE DEF S, v, W
<1>7. PICK b \in S : \A c \in S : <<c, b>> \notin W /\ (c < b => <<b, c>> \in W)
  <2>1. \A x, y \in S : <<x, y>> \in W => <<y, x>> \notin W
    BY <1>4, <1>5
  <2>2. \A x, y, z \in S : <<x, y>> \notin W /\ <<y, z>> \notin W => <<x, z>> \notin W
    BY <1>4, <1>5
  <2>3. QED
    BY <1>3, <2>1, <2>2, ScanFinds
<1>8. FewestValid(n, B, b)
  BY <1>5, <1>6, <1>7
<1>9. ASSUME NEW c, FewestValid(n, B, c) PROVE c = b
  <2>1. c \in S /\ b \in Nat /\ c \in Nat
    BY <1>3, <1>6, <1>9
  <2>2. ~(c < b) /\ ~(b < c)
    BY <1>6, <1>8, <1>9, <2>1
  <2>3. QED
    BY <2>1, <2>2
<1>10. QED
  BY <1>3, <1>8, <1>9

(* So does the scan that compares scores p / (e + 1).                      *)
LEMMA ScoreFound ==
    ASSUME NEW S \in SUBSET Nat, IsFiniteSet(S), S # {}, NEW p, NEW e,
           \A x \in S : p[x] \in Nat /\ e[x] \in Nat
    PROVE  \E b \in S :
             /\ \A c \in S : /\ ~(p[c] * (e[b] + 1) > p[b] * (e[c] + 1))
                             /\ c < b => p[b] * (e[c] + 1) > p[c] * (e[b] + 1)
             /\ \A d \in S :
                  (\A c \in S : /\ ~(p[c] * (e[d] + 1) > p[d] * (e[c] + 1))
                                /\ c < d => p[d] * (e[c] + 1) > p[c] * (e[d] + 1))
                  => d = b
<1> DEFINE beats(x, y) == p[x] * (e[y] + 1) > p[y] * (e[x] + 1)
           W == {q \in S \X S : beats(q[1], q[2])}
           Wins(b) == \A c \in S : ~beats(c, b) /\ (c < b => beats(b, c))
<1>1. \A x, y \in S : <<x, y>> \in W <=> beats(x, y)
  OBVIOUS
<1>2. \A x, y \in S : beats(x, y) => ~beats(y, x)
  <2> TAKE x, y \in S
  <2>1. p[x] * (e[y] + 1) \in Nat /\ p[y] * (e[x] + 1) \in Nat
    OBVIOUS
  <2>2. QED
    BY <2>1
<1>3. \A x, y, z \in S : ~beats(x, y) /\ ~beats(y, z) => ~beats(x, z)
  <2> TAKE x, y, z \in S
  <2>1. p[x] \in Nat /\ p[y] \in Nat /\ p[z] \in Nat /\ e[x] \in Nat /\ e[y] \in Nat /\ e[z] \in Nat
    OBVIOUS
  <2>2. QED
    BY <2>1, CrossOrder
<1> HIDE DEF W, beats
<1>4. PICK b \in S : \A c \in S : <<c, b>> \notin W /\ (c < b => <<b, c>> \in W)
  <2>1. \A x, y \in S : <<x, y>> \in W => <<y, x>> \notin W
    BY <1>1, <1>2
  <2>2. \A x, y, z \in S : <<x, y>> \notin W /\ <<y, z>> \notin W => <<x, z>> \notin W
    BY <1>1, <1>3
  <2>3. QED
    BY <2>1, <2>2, ScanFinds
<1>5. Wins(b)
  BY <1>1, <1>4
<1>6. ASSUME NEW d \in S, Wins(d) PROVE d = b
  <2>1. ~(d < b) /\ ~(b < d) /\ d \in Nat /\ b \in Nat
    BY <1>5, <1>6
  <2>2. QED
    BY <2>1
<1>7. QED
  BY <1>5, <1>6 DEF beats

LEMMA CostBenefitFound ==
    ASSUME NEW n \in NandType, Counted(n), UsedIn(n, UserBlock) # {}
    PROVE  \E b \in Block : /\ gc_select_cost_benefit(n, b)
                            /\ \A c \in Block : gc_select_cost_benefit(n, c) => c = b
<1> DEFINE S == UsedIn(n, UserBlock)
           p == [x \in S |-> InvalidPages(n, x)]
           e == [x \in S |-> n.erase_count[x]]
           Wins(b) == \A c \in S : /\ ~(p[c] * (e[b] + 1) > p[b] * (e[c] + 1))
                                   /\ c < b => p[b] * (e[c] + 1) > p[c] * (e[b] + 1)
<1>1. S \in SUBSET Nat /\ IsFiniteSet(S) /\ S # {} /\ S \subseteq Block
  BY UsedFinite, BlockFacts
<1>2. \A x \in S : InvalidPages(n, x) \in Nat /\ n.erase_count[x] \in Nat
  BY <1>1, InvalidPagesValue, NandAssumption DEF NandType
<1>3. \A x \in S : p[x] \in Nat /\ e[x] \in Nat
  BY <1>2
<1>4. \A b : gc_select_cost_benefit(n, b) <=> b \in S /\ Wins(b)
  BY DEF gc_select_cost_benefit, FirstBest
<1> HIDE DEF S, p, e
<1>5. PICK b \in S : Wins(b) /\ \A d \in S : Wins(d) => d = b
  BY <1>1, <1>3, ScoreFound
<1> HIDE DEF Wins
<1>6. QED
  BY <1>1, <1>4, <1>5

LEMMA CatFound ==
    ASSUME NEW n \in NandType, Counted(n), UsedIn(n, UserBlock) # {}
    PROVE  \E b \in Block : /\ gc_select_cat(n, b)
                            /\ \A c \in Block : gc_select_cat(n, c) => c = b
<1> DEFINE S   == UsedIn(n, UserBlock)
           E   == {n.erase_count[x] : x \in S}
           Top == CHOOSE f \in E : \A x \in S : n.erase_count[x] <= f
           Age(x) == IF Top > 0 THEN Top - n.erase_count[x] + CatAgeWeight ELSE 1
           Num(x) == InvalidPages(n, x) * Age(x)
           p == [x \in S |-> Num(x)]
           e == [x \in S |-> n.erase_count[x]]
           Wins(b) == \A c \in S : /\ ~(p[c] * (e[b] + 1) > p[b] * (e[c] + 1))
                                   /\ c < b => p[b] * (e[c] + 1) > p[c] * (e[b] + 1)
<1>1. S \in SUBSET Nat /\ IsFiniteSet(S) /\ S # {} /\ S \subseteq Block
  BY UsedFinite, BlockFacts
<1>2. \A x \in S : InvalidPages(n, x) \in Nat /\ n.erase_count[x] \in Nat
  BY <1>1, InvalidPagesValue, NandAssumption DEF NandType
<1>3. Top \in E /\ \A x \in S : n.erase_count[x] <= Top
  <2>1. E \in SUBSET (0..MaxErase) /\ E # {} /\ MaxErase \in Nat
    BY <1>1, NandAssumption DEF NandType
  <2>2. \E f \in E : \A k \in E : k <= f
    BY <2>1, LargestExists
  <2>3. \E f \in E : \A x \in S : n.erase_count[x] <= f
    BY <2>2
  <2>4. QED
    BY <2>3
<1>4. \A b : gc_select_cat(n, b) <=> b \in S /\ Wins(b)
  <2>1. \A b : gc_select_cat(n, b) <=>
          b \in S /\ \A c \in S :
              /\ ~(Num(c) * (n.erase_count[b] + 1) > Num(b) * (n.erase_count[c] + 1))
              /\ c < b => Num(b) * (n.erase_count[c] + 1) > Num(c) * (n.erase_count[b] + 1)
    BY DEF gc_select_cat, FirstBest
  <2> HIDE DEF Num, S
  <2>2. \A x \in S : p[x] = Num(x) /\ e[x] = n.erase_count[x]
    OBVIOUS
  <2> HIDE DEF p, e
  <2>3. QED
    BY <2>1, <2>2
<1> HIDE DEF S
<1>5. Top \in Nat
  <2> HIDE DEF Top
  <2>1. QED
    BY <1>2, <1>3
<1> HIDE DEF Top
<1>6. \A x \in S : Age(x) \in Nat
  BY <1>2, <1>3, <1>5, GcSelectAssumption
<1> HIDE DEF Age
<1>7. \A x \in S : p[x] \in Nat /\ e[x] \in Nat
  BY <1>2, <1>6
<1> HIDE DEF p, e
<1>8. PICK b \in S : Wins(b) /\ \A d \in S : Wins(d) => d = b
  BY <1>1, <1>7, ScoreFound
<1> HIDE DEF Wins
<1>9. QED
  BY <1>1, <1>4, <1>8

LEMMA GreedyFound ==
    ASSUME NEW n, Counted(n), UsedIn(n, UserBlock) # {}
    PROVE  \E b \in Block : /\ gc_select_greedy(n, b)
                            /\ \A c \in Block : gc_select_greedy(n, c) => c = b
BY BlockFacts, FewestFound DEF gc_select_greedy

LEMMA WindowedFound ==
    ASSUME NEW n, Counted(n), UsedIn(n, UserBlock) # {}, NEW cur \in Block
    PROVE  \E b \in Block : /\ gc_select_windowed(n, cur, b)
                            /\ \A c \in Block : gc_select_windowed(n, cur, c) => c = b
<1>1. Window(cur) \in SUBSET Block
  BY NandAssumption, GcSelectAssumption DEF Window, Block
<1>2. CASE UsedIn(n, Window(cur)) # {}
  BY <1>1, <1>2, FewestFound DEF gc_select_windowed
<1>3. CASE UsedIn(n, Window(cur)) = {}
  <2>1. \A c : ~FewestValid(n, Window(cur), c)
    BY <1>3 DEF FewestValid, FirstBest
  <2>2. QED
    BY <2>1, GreedyFound DEF gc_select_windowed
<1>4. QED
  BY <1>2, <1>3

LEMMA FraFound ==
    ASSUME NEW n, Counted(n), UsedIn(n, UserBlock) # {}
    PROVE  \E b \in Block : /\ gc_select_fra(n, b)
                            /\ \A c \in Block : gc_select_fra(n, c) => c = b
<1> DEFINE Empty == {c \in UsedIn(n, UserBlock) : n.valid_page_cnt[c] = 0}
<1>1. Empty \in SUBSET Nat /\ Empty \subseteq Block
  BY UsedFinite, BlockFacts
<1>2. \A b : Empty # {} => (gc_select_fra(n, b) <=> b \in Empty /\ \A c \in Empty : b <= c)
  BY DEF gc_select_fra
<1>3. \A b : Empty = {} => (gc_select_fra(n, b) <=> gc_select_greedy(n, b))
  BY DEF gc_select_fra
<1> HIDE DEF Empty
<1>4. CASE Empty # {}
  <2>1. PICK b \in Empty : \A c \in Empty : b <= c
    BY <1>1, <1>4, LeastExists
  <2>2. \A c \in Empty : (\A d \in Empty : c <= d) => c = b
    BY <1>1, <2>1
  <2>3. QED
    BY <1>1, <1>2, <1>4, <2>1, <2>2
<1>5. CASE Empty = {}
  BY <1>3, <1>5, GreedyFound
<1>6. QED
  BY <1>4, <1>5

(* The place of a number among the members of a set.                       *)
RankIn(S, c) == Cardinality({x \in S : x < c})

LEMMA RankInGrows ==
    ASSUME NEW S \in SUBSET Nat, IsFiniteSet(S), NEW s \in S, NEW t \in S, s < t
    PROVE  RankIn(S, s) < RankIn(S, t)
<1> DEFINE below(u) == {v \in S : v < u}
<1>1. below(s) \subseteq S /\ below(t) \subseteq S
  OBVIOUS
<1>2. below(s) \subseteq below(t) /\ s \in below(t) /\ s \notin below(s)
  <2>1. \A v \in S : v < s => v < t
    OBVIOUS
  <2>2. ~(s < s)
    OBVIOUS
  <2>3. QED
    BY <2>1, <2>2
<1>3. RankIn(S, s) = Cardinality(below(s)) /\ RankIn(S, t) = Cardinality(below(t))
  BY DEF RankIn
<1> HIDE DEF below
<1>4. IsFiniteSet(below(s)) /\ IsFiniteSet(below(t))
  BY <1>1, FS_Subset
<1>5. Cardinality(below(s)) <= Cardinality(below(t)) /\ Cardinality(below(s)) # Cardinality(below(t))
  BY <1>2, <1>4, FS_Subset
<1>6. Cardinality(below(s)) \in Nat /\ Cardinality(below(t)) \in Nat
  BY <1>4, FS_CardinalityType
<1>7. QED
  BY <1>3, <1>5, <1>6

LEMMA RankInBelow ==
    ASSUME NEW S \in SUBSET Nat, IsFiniteSet(S), NEW s \in S
    PROVE  RankIn(S, s) \in Nat /\ RankIn(S, s) < Cardinality(S)
<1> DEFINE below == {v \in S : v < s}
<1>1. below \subseteq S /\ s \notin below
  <2>1. ~(s < s)
    OBVIOUS
  <2>2. QED
    BY <2>1
<1>2. RankIn(S, s) = Cardinality(below)
  BY DEF RankIn
<1> HIDE DEF below
<1>3. Cardinality(below) <= Cardinality(S) /\ Cardinality(below) # Cardinality(S) /\ IsFiniteSet(below)
  BY <1>1, FS_Subset
<1>4. Cardinality(below) \in Nat /\ Cardinality(S) \in Nat
  BY <1>3, FS_CardinalityType
<1>5. QED
  BY <1>2, <1>3, <1>4

LEMMA RankInDiffers ==
    ASSUME NEW S \in SUBSET Nat, IsFiniteSet(S), NEW s \in S, NEW t \in S, RankIn(S, s) = RankIn(S, t)
    PROVE  s = t
<1>1. s < t => RankIn(S, s) < RankIn(S, t)
  BY RankInGrows
<1>2. t < s => RankIn(S, t) < RankIn(S, s)
  BY RankInGrows
<1>3. RankIn(S, s) \in Nat /\ RankIn(S, t) \in Nat /\ s \in Nat /\ t \in Nat
  BY RankInBelow
<1>4. QED
  BY <1>1, <1>2, <1>3

(* The ranks are 0, 1, ... without a gap.                                  *)
LEMMA RankInOnto ==
    ASSUME NEW S \in SUBSET Nat, IsFiniteSet(S), NEW k \in Nat, k < Cardinality(S)
    PROVE  \E s \in S : RankIn(S, s) = k
<1> DEFINE N == Cardinality(S)
           R == 0..(N - 1)
           f == [s \in S |-> RankIn(S, s)]
<1>1. N \in Nat
  BY FS_CardinalityType
<1>2. N > 0
  BY <1>1
<1>3. \A s \in S : RankIn(S, s) \in R
  <2> TAKE s \in S
  <2>1. RankIn(S, s) \in Nat /\ RankIn(S, s) < N
    BY RankInBelow
  <2> HIDE DEF N
  <2>2. QED
    BY <1>1, <2>1
<1> HIDE DEF N
<1>4. IsFiniteSet(R) /\ Cardinality(R) = N
  <2>1. 0 \in Int /\ N - 1 \in Int /\ ~(0 > N - 1)
    BY <1>1, <1>2
  <2>2. IsFiniteSet(0..(N - 1)) /\ Cardinality(0..(N - 1)) = (N - 1) - 0 + 1
    BY <2>1, FS_Interval
  <2>3. QED
    BY <1>1, <2>2
<1>5. f \in Injection(S, R)
  <2>1. \A s, t \in S : RankIn(S, s) = RankIn(S, t) => s = t
    BY RankInDiffers
  <2>2. QED
    BY <1>3, <2>1 DEF Injection, IsInjective
<1> HIDE DEF f, R
<1>6. f \in Surjection(S, R)
  BY <1>4, <1>5, FS_Injection DEF N
<1>7. k \in R
  BY <1>1 DEF R, N
<1>8. PICK s \in S : f[s] = k
  BY <1>6, <1>7 DEF Surjection
<1>9. QED
  BY <1>8 DEF f

LEMMA ModRange ==
    ASSUME NEW x \in Nat, NEW m \in Nat, m > 0
    PROVE  x % m \in Nat /\ x % m < m
BY Z3

(* Drawing DChoices of them: some block is drawn, no two at the same draw, *)
(* so one of the blocks drawn comes before all others.                     *)
LEMMA DrawFound ==
    ASSUME NEW n, Counted(n), NEW g \in Nat, UsedIn(n, UserBlock) # {},
           ~(Cardinality(UsedIn(n, UserBlock)) < DChoices)
    PROVE  \E b \in Block : /\ gc_select_d_choices(n, g, b)
                            /\ \A c \in Block : gc_select_d_choices(n, g, c) => c = b
<1> DEFINE S        == UsedIn(n, UserBlock)
           at(i)    == (g * 7 + i * 13) % Cardinality(S)
           Draws(c) == {i \in 0..(DChoices - 1) : Cardinality({x \in S : x < c}) = at(i)}
           First(c) == CHOOSE i \in Draws(c) : \A j \in Draws(c) : i <= j
           v(c)     == n.valid_page_cnt[c]
           Drawn    == {c \in S : Draws(c) # {} /\ n.valid_page_cnt[c] <= PagesPerBlock}
           Earlier(b, c) == \/ v(b) < v(c)
                            \/ v(b) = v(c) /\ First(b) < First(c)
           R        == {q \in S \X S : Earlier(q[1], q[2])}
<1>1. \A b : gc_select_d_choices(n, g, b) <=>
               b \in Drawn /\ \A c \in Drawn \ {b} : Earlier(b, c)
  BY DEF gc_select_d_choices
<1>2. S \in SUBSET Nat /\ IsFiniteSet(S) /\ S # {} /\ S \subseteq Block /\ Cardinality(S) \in Nat
  BY UsedFinite, BlockFacts
<1>3. \A x \in S : v(x) \in Nat /\ v(x) <= PagesPerBlock
  BY <1>2, InvalidPagesValue, NandAssumption
<1>4. \A c \in S : Draws(c) \in SUBSET Nat /\ \A i \in Draws(c) : RankIn(S, c) = at(i)
  BY GcSelectAssumption DEF RankIn
<1>5. Cardinality(S) > 0
  BY <1>2, GcSelectAssumption
<1>6. \E c \in S : 0 \in Draws(c)
  <2>1. g * 7 + 0 * 13 \in Nat
    OBVIOUS
  <2>2. at(0) \in Nat /\ at(0) < Cardinality(S)
    BY <1>2, <1>5, <2>1, ModRange
  <2> HIDE DEF at, S
  <2>3. PICK c \in S : RankIn(S, c) = at(0)
    BY <1>2, <2>2, RankInOnto
  <2>4. 0 \in 0..(DChoices - 1)
    BY GcSelectAssumption
  <2>5. Cardinality({x \in S : x < c}) = at(0)
    BY <2>3 DEF RankIn
  <2>6. QED
    BY <2>4, <2>5
<1> HIDE DEF S, at, Draws
<1>7. Drawn \subseteq S /\ Drawn # {} /\ \A c \in Drawn : Draws(c) # {}
  BY <1>3, <1>6
<1>8. \A c \in Drawn : First(c) \in Draws(c) /\ First(c) \in Nat /\ RankIn(S, c) = at(First(c))
  <2> TAKE c \in Drawn
  <2>1. \E i \in Draws(c) : \A j \in Draws(c) : i <= j
    BY <1>4, <1>7, LeastExists
  <2>2. First(c) \in Draws(c)
    BY <2>1
  <2> HIDE DEF First
  <2>3. QED
    BY <1>4, <1>7, <2>2
<1> HIDE DEF First, v, Drawn
<1>9. \A x, y \in Drawn : First(x) = First(y) => x = y
  BY <1>2, <1>7, <1>8, RankInDiffers
<1>10. \A x \in Drawn : v(x) \in Nat
  BY <1>3, <1>7
<1>11. \A x \in Drawn : ~Earlier(x, x)
  BY <1>8, <1>10
<1>12. \A x, y, z \in Drawn : Earlier(x, y) /\ Earlier(y, z) => Earlier(x, z)
  BY <1>8, <1>10
<1>13. \A x, y \in Drawn : x # y => Earlier(x, y) \/ Earlier(y, x)
  BY <1>8, <1>9, <1>10
<1>14. \A x, y \in Drawn : <<x, y>> \in R <=> Earlier(x, y)
  BY <1>7
<1> HIDE DEF Earlier, R
<1>15. PICK b \in Drawn : \A c \in Drawn : <<c, b>> \notin R
  <2>1. IsFiniteSet(Drawn)
    BY <1>2, <1>7, FS_Subset
  <2>2. \A x \in Drawn : <<x, x>> \notin R
    BY <1>11, <1>14
  <2>3. \A x, y, z \in Drawn : <<x, y>> \in R /\ <<y, z>> \in R => <<x, z>> \in R
    BY <1>12, <1>14
  <2>4. QED
    BY <1>7, <2>1, <2>2, <2>3, MinimalExists
<1>16. \A c \in Drawn \ {b} : Earlier(b, c)
  BY <1>13, <1>14, <1>15
<1>17. gc_select_d_choices(n, g, b) /\ b \in Block
  BY <1>1, <1>2, <1>7, <1>15, <1>16
<1>18. ASSUME NEW c, gc_select_d_choices(n, g, c) PROVE c = b
  <2>1. c \in Drawn /\ (c # b => Earlier(c, b))
    BY <1>1, <1>15, <1>18
  <2>2. QED
    BY <1>14, <1>15, <2>1
<1>19. QED
  BY <1>17, <1>18

LEMMA DChoicesFound ==
    ASSUME NEW n, Counted(n), NEW g \in Nat, UsedIn(n, UserBlock) # {}
    PROVE  \E b \in Block : /\ gc_select_d_choices(n, g, b)
                            /\ \A c \in Block : gc_select_d_choices(n, g, c) => c = b
<1>1. CASE Cardinality(UsedIn(n, UserBlock)) < DChoices
  <2>1. \A b : gc_select_d_choices(n, g, b) <=> gc_select_greedy(n, b)
    BY <1>1 DEF gc_select_d_choices
  <2>2. QED
    BY <2>1, GreedyFound
<1>2. CASE ~(Cardinality(UsedIn(n, UserBlock)) < DChoices)
  BY <1>2, DrawFound
<1>3. QED
  BY <1>1, <1>2

LEMMA AlgorithmFinds ==
    ASSUME NEW n \in NandType, Counted(n), NEW algo \in GcAlgo, NEW cur \in Block, NEW g \in Nat,
           UsedIn(n, UserBlock) # {}
    PROVE  \E b \in Block : /\ gc_select_victim_block(n, algo, cur, g, b)
                            /\ \A c \in Block : gc_select_victim_block(n, algo, cur, g, c) => c = b
<1>1. CASE algo = "COST_BENEFIT"
  BY <1>1, CostBenefitFound DEF gc_select_victim_block
<1>2. CASE algo = "CAT"
  BY <1>2, CatFound DEF gc_select_victim_block
<1>3. CASE algo = "WINDOWED"
  BY <1>3, WindowedFound DEF gc_select_victim_block
<1>4. CASE algo = "D_CHOICES"
  BY <1>4, DChoicesFound DEF gc_select_victim_block
<1>5. CASE algo = "FRA"
  BY <1>5, FraFound DEF gc_select_victim_block
<1>6. CASE algo = "GREEDY"
  BY <1>6, GreedyFound DEF gc_select_victim_block
<1>7. QED
  BY <1>1, <1>2, <1>3, <1>4, <1>5, <1>6 DEF GcAlgo

(* Every algorithm finds exactly one victim whenever a user block is in    *)
(* use, whatever gc_count is: garbage collection never gives up with       *)
(* RET_ERR_NO_SPACE on a device that has something to collect.  It rests   *)
(* on the counters being exact: a counter above NAND_PAGES_PER_BLOCK is    *)
(* never chosen by the counting scans.                                     *)
THEOREM VictimsAreFound ==
    ASSUME CoreCalls
    PROVE  Spec /\ []Level => []VictimFound
<1>1. CoreInv => VictimFound
  <2> SUFFICES ASSUME CoreInv, NEW u \in UserBlock, nand.state[u] = "USED",
                      NEW g \in 0..(TotalBlocks - 1)
               PROVE  LET Chosen == {b \in Block :
                              gc_select_victim_block(nand, gc_algo, cur_write_block, g, b)}
                      IN  \E b \in Chosen : Chosen = {b}
    BY DEF VictimFound
  <2>1. /\ nand \in NandType /\ Counted(nand) /\ gc_algo \in GcAlgo /\ cur_write_block \in Block
        /\ g \in Nat
    BY SpaceOf, NandAssumption DEF CoreInv, BaseInv, TypeInv, TypeOK
  <2>2. UsedIn(nand, UserBlock) # {}
    BY DEF UsedIn
  <2>3. PICK b \in Block :
               /\ gc_select_victim_block(nand, gc_algo, cur_write_block, g, b)
               /\ \A c \in Block :
                    gc_select_victim_block(nand, gc_algo, cur_write_block, g, c) => c = b
    BY <2>1, <2>2, AlgorithmFinds
  <2>4. QED
    BY <2>3
<1>2. QED
  BY <1>1, CoreAlways, PTL

-----------------------------------------------------------------------------
(* A device whose blocks may not wear further apart than the threshold.    *)

LEMMA ShortLifeLevel == MaxErase <= WearDiff /\ TypeOK => Level
<1> SUFFICES ASSUME MaxErase <= WearDiff, TypeOK,
                    NEW b \in NotBad(nand), NEW c \in NotBad(nand)
             PROVE  ~(nand.erase_count[b] - nand.erase_count[c] > WearDiff)
  BY DEF Level, WearGap
<1>1. b \in Block /\ c \in Block
  BY BlockFacts DEF NotBad
<1>2. nand.erase_count[b] \in 0..MaxErase /\ nand.erase_count[c] \in 0..MaxErase
  BY <1>1 DEF TypeOK, NandType
<1>3. QED
  BY <1>2, NandAssumption, FtlAssumption

(* Until some block has been erased more often than                        *)
(* FTL_WEAR_DIFF_THRESHOLD allows two blocks to differ, the FTL implements *)
(* the logical disk and loses no page, without further assumption.         *)
THEOREM YoungDeviceKeepsData ==
    ASSUME CoreCalls, MaxErase <= WearDiff
    PROVE  Spec => ImplementsDisk /\ []MappedPagesReachable
<1>1. TypeOK => Level
  BY ShortLifeLevel
<1>2. QED
  BY <1>1, TypeCorrect, FtlImplementsDisk, NoPageLost, PTL

-----------------------------------------------------------------------------
(* The largest of the logical pages that claim one physical page exists.   *)
LEMMA LastClaim ==
    ASSUME NEW T \in SUBSET LPN, T # {}
    PROVE  \E l \in T : \A k \in T : k <= l
<1>1. T \in SUBSET (0..TotalLpns) /\ TotalLpns \in Nat
  BY FtlAssumption DEF LPN
<1>2. QED
  BY <1>1, LargestExists

(* The map and the reverse map that ftl_load_snapshot builds.              *)
LEMMA LoadedMapType ==
    ASSUME PowerType
    PROVE  LoadedMap \in [LPN -> PPN \cup {NoPpn}]
<1> SUFFICES ASSUME NEW l \in LPN, l < Len(table) PROVE table[l + 1] \in PPN \cup {NoPpn}
  BY DEF LoadedMap
<1>1. l \in Nat /\ Len(table) \in Nat /\ table \in [1..Len(table) -> PPN \cup {NoPpn}]
  BY FtlAssumption, LenProperties DEF PowerType, LPN
<1>2. l + 1 \in 1..Len(table)
  BY <1>1
<1>3. QED
  BY <1>1, <1>2

LEMMA RebuiltEntry ==
    ASSUME NEW map \in [LPN -> PPN \cup {NoPpn}], NEW x \in PPN
    PROVE  \/ RebuiltReverseMap(map)[x] = NoLpn
           \/ RebuiltReverseMap(map)[x] \in LPN /\ map[RebuiltReverseMap(map)[x]] = x
<1> DEFINE Claims == {l \in LPN : map[l] = x}
<1>1. CASE Claims = {}
  BY <1>1 DEF RebuiltReverseMap
<1>2. CASE Claims # {}
  <2>1. \E l \in Claims : \A k \in Claims : k <= l
    BY <1>2, LastClaim
  <2>2. RebuiltReverseMap(map)[x] = CHOOSE l \in Claims : \A k \in Claims : k <= l
    BY <1>2 DEF RebuiltReverseMap
  <2>3. RebuiltReverseMap(map)[x] \in Claims
    BY <2>1, <2>2
  <2>4. QED
    BY <2>3
<1>3. QED
  BY <1>1, <1>2

LEMMA RebuiltType ==
    ASSUME NEW map \in [LPN -> PPN \cup {NoPpn}]
    PROVE  RebuiltReverseMap(map) \in [PPN -> LPN \cup {NoLpn}]
<1>1. RebuiltReverseMap(map) = [x \in PPN |-> RebuiltReverseMap(map)[x]]
  BY DEF RebuiltReverseMap
<1>2. QED
  BY <1>1, RebuiltEntry

-----------------------------------------------------------------------------
PowerInv == TypeInv /\ PowerType /\ ReverseMapSound

LEMMA LoadKeeps ==
    ASSUME PowerType, NEW b \in Block, ftl_load_snapshot(b)
    PROVE  /\ l2p' \in [LPN -> PPN \cup {NoPpn}]
           /\ reverse_map' \in [PPN -> LPN \cup {NoLpn}]
           /\ cur_write_block' \in Block
           /\ cur_write_page' \in 0..PagesPerBlock
           /\ ReverseMapSound'
<1>1. LoadedMap \in [LPN -> PPN \cup {NoPpn}]
  BY LoadedMapType
<1>2. CASE SnapshotComplete
  <2>1. PICK c \in Block, pg \in 0..PagesPerBlock : header = <<c, pg>>
    <3>1. Len(header) = 2
      BY <1>2 DEF SnapshotComplete, HeaderComplete
    <3>2. header # <<>>
      BY <3>1
    <3>3. \A c \in Block : header # <<c>>
      BY <3>1
    <3>4. QED
      BY <3>2, <3>3 DEF PowerType
  <2>2. reverse_map' \in [PPN -> LPN \cup {NoLpn}]
    BY <1>1, <1>2, RebuiltType DEF ftl_load_snapshot
  <2>3. ReverseMapSound'
    BY <1>1, <1>2, RebuiltEntry DEF ftl_load_snapshot, ReverseMapSound
  <2>4. QED
    BY <1>1, <1>2, <2>1, <2>2, <2>3 DEF ftl_load_snapshot
<1>3. CASE ~SnapshotComplete
  BY <1>1, <1>3, NandAssumption DEF ftl_load_snapshot, ReverseMapSound
<1>4. QED
  BY <1>2, <1>3

LEMMA RestartKeeps == PowerInv /\ Restart => PowerInv'
<1> SUFFICES ASSUME PowerInv, Restart PROVE PowerInv'
  OBVIOUS
<1>1. nand' \in NandType
  BY RescannedType DEF Restart, PowerInv, TypeInv, TypeOK
<1>2. /\ l2p' \in [LPN -> PPN \cup {NoPpn}]
      /\ reverse_map' \in [PPN -> LPN \cup {NoLpn}]
      /\ cur_write_block' \in Block
      /\ cur_write_page' \in 0..PagesPerBlock
      /\ ReverseMapSound'
      /\ up' \in BOOLEAN
  <2>1. CASE up' = TRUE /\ \E b \in Block : ftl_load_snapshot(b)
    BY <2>1, LoadKeeps DEF PowerInv
  <2>2. CASE /\ up' = FALSE
             /\ l2p' = [l \in LPN |-> NoPpn] /\ reverse_map' = [x \in PPN |-> NoLpn]
             /\ cur_write_block' = 0 /\ cur_write_page' = 0
    <3>1. 0 \in Block /\ 0 \in 0..PagesPerBlock
      BY NandAssumption DEF Block
    <3>2. ReverseMapSound'
      BY <2>2 DEF ReverseMapSound
    <3>3. QED
      BY <2>2, <3>1, <3>2
  <2>3. QED
    BY <2>1, <2>2 DEF Restart
<1>3. Return("OK", Blank) /\ "OK" \in RetCode
  BY DEF Restart, RetCode
<1>4. TypeInv'
  BY <1>1, <1>2, <1>3, ReturnType DEF Restart, TypeInv, TypeOK, GcAlgo
<1>5. PowerType'
  BY <1>2, <1>4 DEF PowerType, PowerInv, TypeInv, Restart
<1>6. QED
  BY <1>2, <1>4, <1>5 DEF PowerInv

LEMMA SaverKeeps == PowerInv /\ SaverStep => PowerInv'
<1> SUFFICES ASSUME PowerInv, SaverStep PROVE PowerInv'
  OBVIOUS
<1>1. TypeInv' /\ ReverseMapSound' /\ UNCHANGED <<up, clean>>
  BY StutterType DEF SaverStep, PowerInv, ReverseMapSound, vars, ftlVars
<1> DEFINE HeaderOK == \/ header = <<>>
                       \/ \E b \in Block : header = <<b>>
                       \/ \E b \in Block, pg \in 0..PagesPerBlock : header = <<b, pg>>
<1>2. CASE SaveOpen
  BY <1>1, <1>2 DEF SaveOpen, PowerInv, PowerType, TypeInv
<1>3. CASE SaveHeader
  <2>1. HeaderOK'
    <3>1. cur_write_block \in Block /\ cur_write_page \in 0..PagesPerBlock
      BY DEF PowerInv, TypeInv, TypeOK
    <3>2. CASE header = <<>>
      <4>1. header' = <<cur_write_block>>
        BY <1>3, <3>2 DEF SaveHeader
      <4>2. QED
        BY <3>1, <4>1
    <3>3. ASSUME NEW b \in Block, header = <<b>> PROVE HeaderOK'
      <4>1. header # <<>>
        BY <3>3
      <4>2. header' = Append(<<b>>, cur_write_page)
        BY <1>3, <3>3, <4>1 DEF SaveHeader
      <4>3. Append(<<b>>, cur_write_page) = <<b, cur_write_page>>
        <5>1. <<b>> \in Seq(Nat) /\ cur_write_page \in Nat /\ Len(<<b>>) = 1
          BY <3>1 DEF Block
        <5> DEFINE s == Append(<<b>>, cur_write_page)
        <5>2. s \in Seq(Nat) /\ Len(s) = 2 /\ s[1] = b /\ s[2] = cur_write_page
          BY <5>1, AppendProperties
        <5> HIDE DEF s
        <5>3. <<b, cur_write_page>> \in Seq(Nat) /\ Len(<<b, cur_write_page>>) = 2
          BY <5>1
        <5>4. s = <<b, cur_write_page>>
          BY <5>2, <5>3, SeqEqual
        <5>5. QED
          BY <5>4 DEF s
      <4>4. QED
        BY <3>1, <4>2, <4>3
    <3>4. ASSUME NEW b \in Block, NEW pg \in 0..PagesPerBlock, header = <<b, pg>>
          PROVE  FALSE
      <4>1. Len(header) = 2
        BY <3>4
      <4>2. QED
        BY <1>3, <4>1 DEF SaveHeader
    <3>5. QED
      BY <3>2, <3>3, <3>4 DEF PowerInv, PowerType
  <2>2. QED
    BY <1>1, <1>3, <2>1 DEF SaveHeader, PowerInv, PowerType, TypeInv
<1>4. CASE SaveEntry
  <2>1. Len(table) \in LPN
    BY <1>4, LenProperties, FtlAssumption DEF SaveEntry, PowerInv, PowerType, LPN
  <2>2. l2p[Len(table)] \in PPN \cup {NoPpn}
    BY <2>1 DEF PowerInv, TypeInv, TypeOK
  <2>3. table' \in Seq(PPN \cup {NoPpn})
    BY <1>4, <2>2, AppendProperties DEF SaveEntry, PowerInv, PowerType
  <2>4. QED
    BY <1>1, <1>4, <2>3 DEF SaveEntry, PowerInv, PowerType, TypeInv
<1>5. CASE SaveClose
  BY <1>1, <1>5 DEF SaveClose, PowerInv, PowerType, TypeInv
<1>6. QED
  BY <1>2, <1>3, <1>4, <1>5 DEF SaverStep, SaveStep

LEMMA PowerStep == PowerInv /\ [PowerNext]_powerVars => PowerInv'
<1> SUFFICES ASSUME PowerInv, [PowerNext]_powerVars PROVE PowerInv'
  OBVIOUS
<1>1. CASE FtlStep
  <2>1. TypeInv' /\ ReverseMapSound'
    BY <1>1, StepType, ReverseMapStep DEF FtlStep, PowerInv
  <2>2. QED
    BY <1>1, <2>1 DEF FtlStep, PowerInv, PowerType, TypeInv, fileVars
<1>2. CASE UNCHANGED powerVars
  <2>1. TypeInv' /\ ReverseMapSound'
    BY <1>2, StepType, ReverseMapStep DEF PowerInv, powerVars
  <2>2. QED
    BY <1>2, <2>1 DEF PowerInv, PowerType, TypeInv, fileVars, powerVars
<1>3. QED
  BY <1>1, <1>2, SaverKeeps, RestartKeeps DEF PowerNext

LEMMA PowerBegins == PowerInit => PowerInv
<1>1. PowerInit => TypeInv /\ ReverseMapSound
  BY InitType DEF PowerInit, Init, ReverseMapSound
<1>2. <<>> \in Seq(PPN \cup {NoPpn})
  OBVIOUS
<1>3. QED
  BY <1>1, <1>2 DEF PowerInit, PowerInv, PowerType, TypeInv

(* Wherever the power fails and however old or torn the snapshot is, the   *)
(* tables ftl_load_snapshot leaves are well typed and no entry of the      *)
(* reverse map names an outdated copy, so neither a later relocation nor   *)
(* ftl_replace_bad_block brings old data back.                             *)
THEOREM ReverseMapSurvivesPowerCuts == PowerSpec => []ReverseMapSound
<1>1. PowerInit => PowerInv
  BY PowerBegins
<1>2. PowerInv => ReverseMapSound
  BY DEF PowerInv
<1>3. QED
  BY <1>1, <1>2, PowerStep, PTL DEF PowerSpec


-----------------------------------------------------------------------------
(* Every step of the FTL keeps valid pages recorded in the spare area.     *)

LEMMA WearLevelingRecorded ==
    ASSUME NEW n \in NandType, Recorded(n)
    PROVE  Recorded(wear_leveling_check(n))
<1>1. CASE WearGap(n) /\ \E b \in UserBlock : ColdBlock(n, b)
  BY <1>1, MarkColdRecorded DEF wear_leveling_check
<1>2. CASE ~(WearGap(n) /\ \E b \in UserBlock : ColdBlock(n, b))
  BY <1>2 DEF wear_leveling_check
<1>3. QED
  BY <1>1, <1>2

LEMMA CommitRecorded ==
    ASSUME TypeInv, Recorded(nand), op.call = "write", NEW x \in PPN, Commit(x)
    PROVE  Recorded(nand')
<1> DEFINE old   == l2p[op.lpn]
           wrote == nand_page_write(nand, x, op.data)
           fresh == IF old = NoPpn THEN wrote ELSE nand_mark_page_invalid(wrote, old)
<1>1. op.data \in Data /\ nand \in NandType
  BY DEF TypeInv, TypeOK, OpInv
<1>2. wrote \in NandType /\ Recorded(wrote)
  BY <1>1, PageWriteType, PageWriteRecorded
<1>3. fresh \in NandType
  BY CommitDeviceType
<1>4. Recorded(fresh)
  <2> HIDE DEF wrote
  <2>1. QED
    BY <1>2, MarkPageInvalidRecorded
<1>5. nand' = wear_leveling_check(fresh)
  BY DEF Commit
<1> HIDE DEF fresh
<1>6. QED
  BY <1>3, <1>4, <1>5, WearLevelingRecorded

LEMMA RecordedStep == TypeInv /\ Recorded(nand) /\ [Next]_vars => Recorded(nand')
<1> SUFFICES ASSUME TypeInv, Recorded(nand), [Next]_vars PROVE Recorded(nand')
  OBVIOUS
<1>1. nand \in NandType /\ (UNCHANGED nand => Recorded(nand'))
  BY DEF TypeInv, TypeOK
<1>2. ASSUME NEW b \in Block, NEW r \in ReservedBlock, AllocatesReserved(nand, r), ReplaceBlock(b, r)
      PROVE  Recorded(nand')
  BY <1>1, <1>2, ReplaceRecorded DEF ReplaceBlock
<1>3. CASE GcMove
  BY <1>1, <1>3, PageWriteRecorded DEF GcMove
<1>4. CASE GcErase \/ RelocErase
  <2>1. job.src \in Block
    BY DEF TypeInv, TypeOK
  <2>2. QED
    BY <1>1, <1>4, <2>1, EraseRecorded DEF GcErase, RelocErase
<1>5. CASE RelocMove
  <2> DEFINE x == <<job.dst, job.page>>
             m == nand_page_write(nand, x, nand.media[Here])
  <2>1. nand' = nand_mark_page_invalid(m, Here) /\ job.page < PagesPerBlock /\ Movable
    BY <1>5 DEF RelocMove
  <2>2. x \in PPN /\ Here \in PPN /\ nand.media[Here] \in Data \cup {Blank}
    <3>1. job.dst \in Block /\ job.page \in Page
      BY <2>1, NandAssumption DEF TypeInv, TypeOK, Page
    <3>2. QED
      BY <2>1, <3>1, PairFacts, MovableFacts DEF TypeInv
  <2>3. m \in NandType /\ Recorded(m)
    BY <1>1, <2>2, PageWriteType, PageWriteRecorded
  <2> HIDE DEF m
  <2>4. QED
    BY <2>1, <2>3, MarkPageInvalidRecorded
<1>6. CASE WriteProgram
  <2>1. op.call = "write"
    BY <1>6 DEF WriteProgram, AboutToProgram, TypeInv, OpInv
  <2>2. UNCHANGED nand \/ \E x \in PPN : Commit(x)
    BY <1>6 DEF WriteProgram, KeepMap
  <2>3. QED
    BY <1>1, <2>1, <2>2, CommitRecorded
<1>7. CASE WriteMeetsBadBlock
  <2>1. PICK x \in PPN : \/ KeepMap
                         \/ \E r \in ReservedBlock : AllocatesReserved(nand, r) /\ ReplaceBlock(x[1], r)
    BY <1>7 DEF WriteMeetsBadBlock
  <2>2. QED
    BY <1>1, <1>2, <2>1, PairFacts DEF KeepMap
<1>8. CASE TrimPage
  BY <1>1, <1>8, MarkPageInvalidRecorded DEF TrimPage
<1>9. CASE GcBegin \/ GcSkip \/ GcOutOfSpace \/ RelocSkip \/ TrimDone \/ LifetimeEnds \/ UNCHANGED vars
  BY <1>1, <1>9 DEF GcBegin, GcSkip, GcOutOfSpace, RelocSkip, TrimDone, KeepMap, LifetimeEnds, vars,
     ftlVars
<1>10. ASSUME NEW l \in LPN, CallReadBadBlock(l) PROVE Recorded(nand')
  <2>1. l2p[l][1] \in Block
    BY <1>10, PairFacts DEF CallReadBadBlock, TypeInv, TypeOK
  <2>2. QED
    BY <1>1, <1>2, <1>10, <2>1 DEF CallReadBadBlock, KeepMap
<1>11. ASSUME NEW b \in Block, CallReplaceBadBlock(b) PROVE Recorded(nand')
  BY <1>1, <1>2, <1>11 DEF CallReplaceBadBlock, KeepMap
<1>12. CASE Arrival
  BY <1>1, <1>10, <1>11, <1>12 DEF Arrival, CallWrite, CallRead, CallTrim, CallTriggerGc, CallSetGcAlgo,
     CallHandleReadDisturb, Begin, KeepMap
<1>13. QED
  BY <1>3, <1>4, <1>5, <1>6, <1>7, <1>8, <1>9, <1>12
     DEF Next, Internal, GcStep, RelocStep, WriteStep, TrimStep

-----------------------------------------------------------------------------
(* Restarting with an up-to-date snapshot.                                 *)

StoreInv == PowerInv /\ Recorded(nand)

LEMMA StoreInit == PowerInit => StoreInv
<1> SUFFICES ASSUME PowerInit PROVE StoreInv
  OBVIOUS
<1>1. PowerInv
  BY PowerBegins
<1>2. DeviceInv
  BY DeviceInit DEF PowerInit, Init
<1>3. QED
  BY <1>1, <1>2 DEF StoreInv, DeviceInv

LEMMA StoreStep == StoreInv /\ [PowerNext]_powerVars => StoreInv'
<1> SUFFICES ASSUME StoreInv, [PowerNext]_powerVars PROVE StoreInv'
  OBVIOUS
<1> USE DEF StoreInv
<1>1. PowerInv'
  BY PowerStep
<1>2. CASE FtlStep \/ UNCHANGED powerVars
  BY <1>1, <1>2, RecordedStep DEF FtlStep, powerVars, PowerInv
<1>3. CASE SaverStep
  BY <1>1, <1>3 DEF SaverStep, vars, ftlVars
<1>4. CASE Restart
  BY <1>1, <1>4 DEF Restart, RescannedDevice, Recorded
<1>5. QED
  BY <1>2, <1>3, <1>4 DEF PowerNext

LEMMA CurrentLoads ==
    ASSUME PowerInv, SnapshotCurrent, Restart, up'
    PROVE  /\ UNCHANGED <<l2p, cur_write_block, cur_write_page>>
           /\ reverse_map' = RebuiltReverseMap(l2p)
<1>1. PICK b \in Block : ftl_load_snapshot(b)
  BY DEF Restart
<1>2. header = <<cur_write_block, cur_write_page>> /\ Len(table) = TotalLpns
      /\ \A l \in LPN : table[l + 1] = l2p[l]
  BY DEF SnapshotCurrent
<1>3. HeaderComplete /\ SnapshotComplete
  BY <1>2 DEF HeaderComplete, SnapshotComplete
<1>4. \A l \in LPN : l < Len(table)
  BY <1>2, FtlAssumption DEF LPN
<1>5. LoadedMap = l2p
  BY <1>2, <1>3, <1>4 DEF LoadedMap, PowerInv, TypeInv, TypeOK
<1>6. QED
  BY <1>1, <1>2, <1>3, <1>5 DEF ftl_load_snapshot

(* A restart that finds an up-to-date snapshot shows the host the disk as  *)
(* it was, on every device and with any of the entry points in progress    *)
(* when the power failed: nand_init finds every mapped page, because       *)
(* valid pages are recorded, and the map is the one that was saved.        *)
THEOREM CleanRestart == PowerSpec => CleanRestartKeepsDisk
<1>1. ASSUME StoreInv, Restart, SnapshotCurrent, up', NEW l \in LPN, Content(l) # Lost
      PROVE  Content(l)' = Content(l)
  <2>1. UNCHANGED l2p
    BY <1>1, CurrentLoads DEF StoreInv
  <2>2. CASE l2p[l] = NoPpn
    BY <2>1, <2>2 DEF Content
  <2>3. CASE l2p[l] # NoPpn
    <3>1. nand_page_read_ret(nand, l2p[l]) = "OK" /\ Content(l) = nand.media[l2p[l]]
      BY <1>1, <2>3 DEF Content
    <3>2. l2p[l] \in PPN /\ l2p[l] \in nand.oob
      BY <1>1, <2>3, <3>1 DEF StoreInv, PowerInv, TypeInv, TypeOK, Recorded, nand_page_read_ret
    <3>3. l2p[l][1] \in Block /\ \E pg \in Page : <<l2p[l][1], pg>> \in nand.oob
      BY <3>2, PairFacts
    <3>4. nand'.state[l2p[l][1]] = "USED" /\ nand'.page_valid = nand.oob /\ nand'.media = nand.media
      BY <1>1, <3>3 DEF Restart, RescannedDevice
    <3>5. nand_page_read_ret(nand', l2p[l]) = "OK"
      BY <3>2, <3>4 DEF nand_page_read_ret
    <3>6. QED
      BY <2>1, <2>3, <3>1, <3>4, <3>5 DEF Content
  <2>4. QED
    BY <2>2, <2>3
<1>2. StoreInv => (Restart /\ SnapshotCurrent /\ up /\ up' =>
                     \A l \in LPN : Content(l) # Lost => Content(l)' = Content(l))
  BY <1>1
<1>3. PowerSpec => []StoreInv
  BY StoreInit, StoreStep, PTL DEF PowerSpec
<1>4. QED
  BY <1>2, <1>3, PTL DEF CleanRestartKeepsDisk, PowerSpec


-----------------------------------------------------------------------------
(* What nand_init makes of the device fits what the FTL loads.             *)

LEMMA RescannedSpace ==
    ASSUME NEW n \in NandType, NEW m, m = RescannedDevice(n)
    PROVE  Counted(m) /\ FreeEmpty(m)
<1>1. \A b \in Block : ValidPagesOf(m, b) = {pg \in Page : <<b, pg>> \in n.oob}
  BY DEF RescannedDevice, ValidPagesOf
<1>2. QED
  BY <1>1 DEF RescannedDevice, Counted, FreeEmpty

(* Mapped pages are claimed by one logical page each, so the reverse map   *)
(* that ftl_load_snapshot rebuilds is complete.                            *)
LEMMA RebuiltComplete ==
    ASSUME TypeOK, DataInv, NEW l \in LPN, l2p[l] # NoPpn
    PROVE  RebuiltReverseMap(l2p)[l2p[l]] = l
<1> DEFINE x == l2p[l]
           Claims == {k \in LPN : l2p[k] = x}
<1>1. x \in PPN /\ l \in Claims
  BY MappedFacts
<1>2. \A k \in Claims : k = l
  BY MappedFacts
<1>3. Claims = {l}
  BY <1>1, <1>2
<1>4. l <= l
  BY FtlAssumption DEF LPN
<1>5. RebuiltReverseMap(l2p)[x] = CHOOSE k \in Claims : \A j \in Claims : j <= k
  BY <1>1 DEF RebuiltReverseMap
<1>6. (CHOOSE k \in Claims : \A j \in Claims : j <= k) \in Claims
  BY <1>3, <1>4
<1>7. QED
  BY <1>2, <1>5, <1>6

LEMMA CleanRestartCore ==
    ASSUME StoreInv, CoreInv, Restart, SnapshotCurrent
    PROVE  CoreInv'
<1> USE DEF StoreInv, CoreInv, BaseInv
<1>1. TypeInv' /\ ReverseMapSound' /\ TypeOK'
  BY RestartKeeps DEF PowerInv, TypeInv
<1>2. nand \in NandType /\ nand' = RescannedDevice(nand) /\ pc' = "idle" /\ op' = NoOp
  BY DEF Restart, Return, TypeInv, TypeOK
<1>3. Counted(nand') /\ FreeEmpty(nand')
  BY <1>2, RescannedSpace
<1>4. ScanInv' /\ CallInv'
  BY <1>2, ScanOver DEF CallInv, NoOp
<1>5. CASE up'
  <2>1. /\ UNCHANGED <<l2p, cur_write_block, cur_write_page>>
        /\ reverse_map' = RebuiltReverseMap(l2p)
    BY <1>5, CurrentLoads
  <2>2. FrontierUnmapped'
    BY <2>1 DEF SpaceInv, FrontierUnmapped
  <2>3. ASSUME NEW l \in LPN, l2p'[l] # NoPpn
        PROVE  /\ nand_page_read_ret(nand', l2p'[l]) = "OK"
               /\ reverse_map'[l2p'[l]] = l
               /\ nand'.media[l2p'[l]] \in Data
    <3>1. l2p[l] \in PPN /\ l2p[l] \in nand.oob /\ nand.media[l2p[l]] \in Data
      BY <2>1, <2>3, MappedFacts DEF TypeInv, Recorded
    <3>2. l2p[l][1] \in Block /\ \E pg \in Page : <<l2p[l][1], pg>> \in nand.oob
      BY <3>1, PairFacts
    <3>3. nand'.state[l2p[l][1]] = "USED" /\ nand'.page_valid = nand.oob /\ nand'.media = nand.media
      BY <1>2, <3>2 DEF RescannedDevice
    <3>4. nand_page_read_ret(nand', l2p[l]) = "OK"
      BY <3>1, <3>3 DEF nand_page_read_ret
    <3>5. RebuiltReverseMap(l2p)[l2p[l]] = l
      BY <2>1, <2>3, RebuiltComplete DEF TypeInv
    <3>6. QED
      BY <2>1, <3>1, <3>3, <3>4, <3>5
  <2>4. DataInv'
    BY <2>3 DEF DataInv, MappedPagesReachable, MappedData
  <2>5. QED
    BY <1>1, <1>3, <1>4, <2>2, <2>4 DEF SpaceInv, CountExact, FreeBlocksEmpty, Counted, FreeEmpty
<1>6. CASE ~up'
  <2>1. \A l \in LPN : l2p'[l] = NoPpn
    BY <1>6 DEF Restart
  <2>2. FrontierUnmapped' /\ DataInv'
    BY <2>1 DEF FrontierUnmapped, DataInv, MappedPagesReachable, MappedData
  <2>3. QED
    BY <1>1, <1>3, <1>4, <2>2 DEF SpaceInv, CountExact, FreeBlocksEmpty, Counted, FreeEmpty
<1>7. QED
  BY <1>5, <1>6

LEMMA CleanCoreStep ==
    CoreCalls /\ StoreInv /\ Level /\ (clean => CoreInv) /\ [PowerNext]_powerVars
        => (clean => CoreInv)'
<1> SUFFICES ASSUME CoreCalls, StoreInv, Level, clean => CoreInv, [PowerNext]_powerVars, clean'
             PROVE  CoreInv'
  OBVIOUS
<1>1. CASE FtlStep
  BY <1>1, CoreStep DEF FtlStep
<1>2. CASE UNCHANGED powerVars
  BY <1>2, CoreStep DEF powerVars
<1>3. CASE SaverStep
  BY <1>3, CoreStep DEF SaverStep
<1>4. CASE Restart
  BY <1>4, CleanRestartCore DEF Restart
<1>5. QED
  BY <1>1, <1>2, <1>3, <1>4 DEF PowerNext

(* As long as every restart found an up-to-date snapshot, no logical page  *)
(* is lost, however often the power failed and in whatever operation,      *)
(* although nand_init revives pages that were invalid: the rest of the     *)
(* block being filled may then hold valid pages, but no mapped one.        *)
THEOREM CleanRestartsLoseNothing ==
    ASSUME CoreCalls
    PROVE  PowerSpec /\ []Level => []RecoveredPagesReachable
<1>1. PowerInit => (clean => CoreInv)
  BY CoreInit DEF PowerInit
<1>2. PowerSpec => []StoreInv
  BY StoreInit, StoreStep, PTL DEF PowerSpec
<1>3. (clean => CoreInv) => RecoveredPagesReachable
  BY DEF RecoveredPagesReachable, CoreInv, DataInv
<1>4. QED
  BY <1>1, <1>2, <1>3, CleanCoreStep, PTL DEF PowerSpec

=============================================================================
