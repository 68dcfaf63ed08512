---------------------------- MODULE MC_Eviction ----------------------------
(***************************************************************************)
(* Instances of Eviction for TLC.                                          *)
(***************************************************************************)
EXTENDS Eviction

CONSTANTS k1, k2, k3

MCKey == {k1, k2, k3}
MCOtherSizes == {0, 2, 3}
=============================================================================
