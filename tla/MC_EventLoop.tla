---------------------------- MODULE MC_EventLoop ----------------------------
(***************************************************************************)
(* Instances of EventLoop for TLC.                                         *)
(***************************************************************************)
EXTENDS EventLoop, TLC

CONSTANTS c1, c2

MCConn == {c1, c2}
MCFd   == {4, 5}

(* Nothing in EventLoop tells connections apart; for the safety runs.      *)
MCSymmetry == Permutations(MCConn)
=============================================================================
