---------------------------- MODULE MCChangeEvents ----------------------------
EXTENDS ChangeEvents, TLC

CONSTANTS channels, vod, recordings

MCDomains == {channels, vod, recordings}
MCSyncEvents == <<channels, vod>>

Symmetry == Permutations(Threads)
=============================================================================
