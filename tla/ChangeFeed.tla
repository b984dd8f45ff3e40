------------------------------ MODULE ChangeFeed ------------------------------
(***************************************************************************)
(* What the event stream promises a subscriber: a commit makes domains     *)
(* dirty, a domain becomes clean only by an event that covers it, and no   *)
(* domain stays dirty for ever.                                            *)
(***************************************************************************)
EXTENDS Sequences

CONSTANTS Domains, BulkDataRefresh

VARIABLES dirty, feed

Covered(e) == IF e = BulkDataRefresh THEN Domains ELSE {e}

Init == dirty = {} /\ feed = << >>

Change ==
    /\ \E D \in SUBSET Domains : dirty' = dirty \cup D
    /\ UNCHANGED feed

Announce ==
    \E e \in Domains \cup {BulkDataRefresh} :
        /\ feed' = Append(feed, e)
        /\ dirty' = dirty \ Covered(e)

Next == Change \/ Announce

Safety == Init /\ [][Next]_<<dirty, feed>>

Spec == Safety /\ \A d \in Domains : (d \in dirty) ~> (d \notin dirty)
=============================================================================
