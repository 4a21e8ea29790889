------------------------------ MODULE FrontEnds ------------------------------
(***************************************************************************)
(* The main loop with the front ends for virtual machines, vfio-user and   *)
(* vhost-user: those that are configured are polled in turn, each with its *)
(* own client.                                                             *)
(***************************************************************************)
EXTENDS VfioUser, VhostUser, Prp

CONSTANT Configs    \* sets of front ends that g_config may enable
VARIABLE config     \* g_config.enable_*

ASSUME ConfigsAssumption == Configs \subseteq SUBSET {"vfio", "vhost"}

vars == <<config, vfioVars, vhostVars>>

(* init_all_modules: the front ends start empty.                           *)
Init == config \in Configs /\ VfioInit /\ VhostInit

VfioStep  == "vfio" \in config /\ VfioNext /\ UNCHANGED <<config, vhostVars>>
VhostStep == "vhost" \in config /\ VhostNext /\ UNCHANGED <<config, vfioVars>>

Next == VfioStep \/ VhostStep

(* The loop polls each front end again and again.                          *)
Spec == Init /\ [][Next]_vars /\ VfioFairness /\ VhostFairness

-----------------------------------------------------------------------------
TypeOK == VfioTypeOK /\ VhostTypeOK
=============================================================================
