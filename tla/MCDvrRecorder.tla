---------------------------- MODULE MCDvrRecorder ----------------------------
EXTENDS DvrRecorder, TLC

CONSTANTS news, film

\* Two programmes of one channel that overlap.
MCClash == {<<news, film>>, <<film, news>>}
Symmetry == Permutations(Slots)

\* The two programmes are alike, so it is enough that news is scheduled first
\* (TLC's own reduction by symmetry is not sound for liveness).
MCNext == Next /\ (film \in booked' => news \in booked')

MCFairSpec == Init /\ [][MCNext]_vars /\ Fairness
=============================================================================
