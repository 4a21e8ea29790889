------------------------------- MODULE MCNand -------------------------------
(***************************************************************************)
(* Model checking of the device alone.                                     *)
(***************************************************************************)
EXTENDS Nand, TLC

DataSymmetry == Permutations(Data)
=============================================================================
