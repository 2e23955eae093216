----------------------------- MODULE MCRtoWheel -----------------------------
EXTENDS RtoWheel, TLC

CONSTANTS s1, s2

MCSymmetry == Permutations(Stream)
=============================================================================
