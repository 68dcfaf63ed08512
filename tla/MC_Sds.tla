------------------------------- MODULE MC_Sds -------------------------------
(***************************************************************************)
(* Instances of Sds for TLC: notation of base two, numbers of three bits.  *)
(***************************************************************************)
EXTENDS Sds

MCByte      == {"nul", "0", "1", "-"}
MCByteOrder == <<"nul", "-", "0", "1">>
MCDigit     == <<"0", "1">>
MCText      == {<< >>, <<"0">>, <<"-">>, <<"1", "1", "0">>} \cup {sdsll2str(n) : n \in {-4, -1, 1, 2}}
MCSeparator == {<<"0">>, <<"1", "1">>}
=============================================================================
