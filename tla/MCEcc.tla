------------------------------- MODULE MCEcc -------------------------------
(***************************************************************************)
(* Model checking of the codes: pages of two bytes.                        *)
(***************************************************************************)
EXTENDS Dif

ThreePages == {<<{}, {0}>>, <<{0, 3, 6}, {1, 2, 7}>>, <<0..7, {2, 4, 5}>>}
=============================================================================
