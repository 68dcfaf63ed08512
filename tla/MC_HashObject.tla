--------------------------- MODULE MC_HashObject ---------------------------
(***************************************************************************)
(* Instances of HashObject for TLC.                                        *)
(***************************************************************************)
EXTENDS HashObject

CONSTANTS k1, k2, k3, v1, v2, addr1, addr2

(* k1 and k2 share a bucket in tables of one and two, k1 and k3 in all.    *)
MCKey   == {k1, k2, k3}
MCValue == {v1}
MCHash  == [k \in MCKey |-> IF k = k2 THEN 2 ELSE 0]
MCWalk  == {"keyiter"}
MCTableAddress == {addr1, addr2}
=============================================================================
