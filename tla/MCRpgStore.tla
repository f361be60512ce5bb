---------------------------- MODULE MCRpgStore ------------------------------
EXTENDS RpgStore, TLC
CONSTANTS p1, p2, short, long
MCBlocks == (short :> 1) @@ (long :> 2)
MCSplits == {long}
=============================================================================
