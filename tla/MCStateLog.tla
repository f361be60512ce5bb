----------------------------- MODULE MCStateLog -----------------------------
(***************************************************************************)
(* Model values for StateLog.                                              *)
(***************************************************************************)
EXTENDS StateLog, TLC
CONSTANTS s1, s2, fresh
MCSnapshots == {fresh, s1, s2}
MCSymmetry == Permutations({s1, s2})
TornCuts == {"torn"}
AllCuts == {"nothing", "torn", "whole", "undecodable"}
=============================================================================
