------------------------------- MODULE MC_Db -------------------------------
(***************************************************************************)
(* Instances of Db for TLC.                                                *)
(***************************************************************************)
EXTENDS Db, TLC

CONSTANTS k1, k2

MCName     == {k1, k2}
MCSymmetry == Permutations(MCName)

MCKeyObject   == 1 .. 4
MCValueObject == 11 .. 14
MCDeadline     == {1, 2}
MCContainer    == {"set", "hash"}

(* "7" is a shared integer, "7x" is stored as one, "abc" as it is.         *)
MCText         == {"7", "7x", "abc"}
MCSharedText   == {"7"}
MCSharedObject == [t \in MCSharedText |-> 11]
MCStored       == [t \in MCText |-> IF t = "7x" THEN "7" ELSE t]
MCTwoTexts     == {"7", "abc"}
MCStoredTwo    == [t \in MCTwoTexts |-> t]
=============================================================================
