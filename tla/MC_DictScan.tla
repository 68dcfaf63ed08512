---------------------------- MODULE MC_DictScan ----------------------------
(***************************************************************************)
(* Instances of DictScan for TLC.                                          *)
(***************************************************************************)
EXTENDS DictScan

CONSTANTS k1, k2, v1

MCKey   == {k1, k2}
MCValue == {v1}

(* Different buckets in every table of more than one. *)
MCHash    == [k \in Key |-> IF k = k1 THEN 1 ELSE 2]
MCBatch   == {1}
MCRequests == {1, 2, 8}
=============================================================================
