------------------------------ MODULE MC_Dict ------------------------------
(***************************************************************************)
(* Instances of Dict for TLC.                                              *)
(***************************************************************************)
EXTENDS Dict

CONSTANTS k1, k2, v1, v2

MCKey   == {k1, k2}
MCValue == {v1, v2}

(* The keys share a bucket in tables of one and two, and part in larger.   *)
MCHash  == [k \in Key |-> IF k = k1 THEN 0 ELSE 2]

MCBatch    == {1, 3}
MCRequests == {1, 3}
=============================================================================
