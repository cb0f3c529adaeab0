------------------------- MODULE MCBridgeTransaction -------------------------
EXTENDS BridgeTransaction, TLC

MCSymmetry == Permutations(Tasks) \cup Permutations(Conns)
=============================================================================
