---------------------------- MODULE MCRecvBuffer ----------------------------
EXTENDS RecvBuffer

\* Which content is which does not matter.
Same == Permutations(Value)
=============================================================================
