-------------------------------- MODULE MCFtl --------------------------------
(***************************************************************************)
(* Model checking of Ftl.  The payload and spare area of a page that is    *)
(* not valid can only be seen by nand_init after a restart, which Ftl does *)
(* not have, and no step reads the reply of the last call, so states that  *)
(* differ in nothing else are identified.  (The last component is always   *)
(* TRUE; comparing makes TLC evaluate the media function before it stores  *)
(* the state.)                                                             *)
(***************************************************************************)
EXTENDS Ftl, TLC

PoweredView ==
    <<[nand EXCEPT !.media = [x \in PPN |-> IF x \in nand.page_valid
                                            THEN nand.media[x] ELSE Blank],
                   !.oob = {}],
      l2p, reverse_map, cur_write_block, cur_write_page, gc_algo,
      write_since_last_check, pc, op, job, nand.media = nand.media>>

DataSymmetry == Permutations(Data)
=============================================================================
