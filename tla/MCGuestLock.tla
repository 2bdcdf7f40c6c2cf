---------------------------- MODULE MCGuestLock ----------------------------
(* Instances of GuestLock for TLC. *)
EXTENDS GuestLock, TLC

CONSTANTS w1, w2

\* Everyone at one priority, or the first worker above the others.
FlatPrio == [t \in Guests |-> 1]
TwoLevels == [t \in Guests |-> IF t = w1 THEN 2 ELSE 1]

=============================================================================
