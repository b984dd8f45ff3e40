-------------------------- MODULE MCRecurringExpansion --------------------------
\* A daily broadcast, seen from a device whose clock is not UTC.
EXTENDS RecurringExpansion

MCRecurring == {[show |-> "news", start |-> 2, end |-> 3, days |-> {0, 1}]}
=================================================================================
