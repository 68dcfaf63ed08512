--------------------------- MODULE MC_Containers ---------------------------
(***************************************************************************)
(* Instances of Containers for TLC.                                        *)
(***************************************************************************)
EXTENDS Containers, TLC

CONSTANTS a1, a2, a3

MCAddress  == {a1, a2, a3}
MCSymmetry == Permutations(MCAddress)

MCListValue == {1, 2}
MCCount     == -5 .. 5

(* Widths of 3, 4 and 5 bits for 16, 32, 64: 7 needs the second encoding,  *)
(* 9 the third, 100 is a text; -1 is stored as 7 in the first encoding,    *)
(* and 0 .. 2 with -1 are more than an intset holds.                       *)
MCReach    == <<4, 8, 16>>
MCSetValue == {-1, 0, 1, 2, 7, 9, 100}

(* The text of score 11 is read back as 10. *)
MCMember   == {1, 2, 3}
MCScore    == {10, 11, 20}
MCReadBack == [s \in MCScore |-> IF s = 11 THEN 10 ELSE s]
MCRanges   == [min : {9, 10, 20}, max : {10, 15, 20}, minex : BOOLEAN, maxex : BOOLEAN]
=============================================================================
