------------------------------ MODULE MCUiRefresh ------------------------------
EXTENDS UiRefresh, TLC

CONSTANTS channels, vod

MCSyncEvents == <<channels, vod>>
Symmetry == Permutations(Threads)
=============================================================================
