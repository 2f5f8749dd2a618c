----------------------------- MODULE MCRtSmallMem ----------------------------
EXTENDS RtSmallMem, TLC
MCSymmetry == Permutations(Clients)
=============================================================================
