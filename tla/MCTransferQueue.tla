---------------------------- MODULE MCTransferQueue ----------------------------
EXTENDS TransferQueue, TLC

Symmetry == Permutations(Runners)
=============================================================================
