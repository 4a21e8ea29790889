------------------------------ MODULE FtlPower ------------------------------
(***************************************************************************)
(* Ftl with power cuts: the metadata snapshot of ftl_save_snapshot, the    *)
(* start-up sequence of init_all_modules in src/main.c (nand_init,         *)
(* ftl_init, ftl_load_snapshot), and what survives in between: the media   *)
(* file and the snapshot file.                                             *)
(*                                                                         *)
(* The snapshot is written by the heartbeat thread (and, between calls, by *)
(* the main thread) while the FTL runs, without a lock: the block and the  *)
(* page of the write point and each entry of l2p_table are read at moments *)
(* of their own.  fopen with "wb" empties the only copy first, and a power *)
(* cut leaves the part written so far.  One writer at a time is modelled.  *)
(***************************************************************************)
EXTENDS Ftl, Sequences

VARIABLES
    header,  \* write point in the snapshot file: <<>>, <<block>> or <<block, page>>
    table,   \* the entries of l2p_table in the file so far
    saving,  \* the file is open for writing
    up,      \* the firmware is running
    clean    \* history: every restart so far met an up-to-date snapshot

fileVars  == <<header, table, saving>>
powerVars == <<vars, fileVars, up, clean>>

PowerType ==
    /\ TypeOK
    /\ \/ header = <<>>
       \/ \E b \in Block : header = <<b>>
       \/ \E b \in Block, pg \in 0..PagesPerBlock : header = <<b, pg>>
    /\ table \in Seq(PPN \cup {NoPpn})
    /\ saving \in BOOLEAN /\ up \in BOOLEAN /\ clean \in BOOLEAN

-----------------------------------------------------------------------------
(* ftl_save_snapshot.                                                      *)

SaveOpen ==
    /\ ~saving
    /\ saving' = TRUE
    /\ header' = <<>> /\ table' = <<>>

SaveHeader ==
    /\ saving /\ Len(header) < 2
    /\ header' = Append(header, IF header = <<>> THEN cur_write_block ELSE cur_write_page)
    /\ UNCHANGED <<table, saving>>

SaveEntry ==
    /\ saving /\ Len(header) = 2 /\ Len(table) < TotalLpns
    /\ table' = Append(table, l2p[Len(table)])
    /\ UNCHANGED <<header, saving>>

SaveClose ==
    /\ saving /\ Len(header) = 2 /\ Len(table) = TotalLpns
    /\ saving' = FALSE
    /\ UNCHANGED <<header, table>>

SaveStep == SaveOpen \/ SaveHeader \/ SaveEntry \/ SaveClose

-----------------------------------------------------------------------------
(* Start-up.                                                               *)

HeaderComplete   == Len(header) = 2
SnapshotComplete == HeaderComplete /\ Len(table) = TotalLpns

(* Mutant: the table is read one entry off.                                *)
BugLoadedMap == [l \in LPN |-> IF HeaderComplete /\ l > 0 /\ l <= Len(table)
                               THEN table[l] ELSE NoPpn]

(* fread fills l2p_table as far as the file goes, whatever the return code *)
(* of ftl_load_snapshot will be.                                           *)
LoadedMap == [l \in LPN |-> IF HeaderComplete /\ l < Len(table)
                            THEN table[l + 1] ELSE NoPpn]

(* Mutant: the reverse map is left as ftl_init made it.                    *)
BugNoRebuild(map) == [x \in PPN |-> NoLpn]

(* The loop over logical pages: the last one that claims a page gets it.   *)
RebuiltReverseMap(map) ==
    [x \in PPN |->
        LET Claims == {l \in LPN : map[l] = x}
        IN  IF Claims = {} THEN NoLpn
            ELSE CHOOSE l \in Claims : \A k \in Claims : k <= l]

(* ftl_load_snapshot, after ftl_init has put the write point at block b.   *)
ftl_load_snapshot(b) ==
    /\ l2p' = LoadedMap
    /\ IF SnapshotComplete
       THEN /\ reverse_map' = RebuiltReverseMap(LoadedMap)
            /\ cur_write_block' = header[1] /\ cur_write_page' = header[2]
       ELSE /\ reverse_map' = [x \in PPN |-> NoLpn]
            /\ cur_write_block' = b /\ cur_write_page' = 0

SnapshotCurrent ==
    /\ header = <<cur_write_block, cur_write_page>>
    /\ Len(table) = TotalLpns
    /\ \A l \in LPN : table[l + 1] = l2p[l]

(* The power fails and comes back.  ftl_init gives up, and the firmware    *)
(* with it, when nand_init leaves no free block.                           *)
Restart ==
    /\ nand' = RescannedDevice(nand)
    /\ \/ /\ up' = TRUE
          /\ \E b \in Block : FindsNextFree(RescannedDevice(nand), 0, b) /\ ftl_load_snapshot(b)
       \/ /\ NoFreeBlock(RescannedDevice(nand), 0)
          /\ up' = FALSE
          /\ l2p' = [l \in LPN |-> NoPpn]
          /\ reverse_map' = [x \in PPN |-> NoLpn]
          /\ cur_write_block' = 0 /\ cur_write_page' = 0
    /\ gc_algo' = "GREEDY"
    /\ write_since_last_check' = 0
    /\ Return("OK", Blank)
    /\ saving' = FALSE
    /\ UNCHANGED <<header, table>>
    /\ clean' = (clean /\ up /\ SnapshotCurrent)

-----------------------------------------------------------------------------
PowerInit ==
    /\ Init
    /\ header = <<>> /\ table = <<>> /\ saving = FALSE
    /\ up = TRUE /\ clean = TRUE

FtlStep   == up /\ Next /\ UNCHANGED <<fileVars, up, clean>>
SaverStep == up /\ SaveStep /\ UNCHANGED <<vars, up, clean>>

PowerNext == FtlStep \/ SaverStep \/ Restart

PowerSpec == PowerInit /\ [][PowerNext]_powerVars

-----------------------------------------------------------------------------
(* A restart that finds an up-to-date snapshot shows the host the disk as  *)
(* it was.                                                                 *)
CleanRestartKeepsDisk ==
    [][Restart /\ SnapshotCurrent /\ up /\ up' =>
         \A l \in LPN : Content(l) # Lost => Content(l)' = Content(l)]_powerVars

(* After such restarts the pages that nand_init revived do not disturb the *)
(* FTL: mapped pages stay readable and known to the reverse map, through   *)
(* any amount of garbage collection.                                       *)
RecoveredPagesReachable == clean => MappedPagesReachable

=============================================================================
