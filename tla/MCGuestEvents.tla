--------------------------- MODULE MCGuestEvents ---------------------------
(* Small instances of GuestEvents for TLC. *)
EXTENDS GuestEvents

CONSTANTS t1, t2, t3, n1, s1, s2

\* t1 and t2 wait for the same notification and the same synchronisation
\* event, t1 alone, t2 also in a list; only t1 waits for all of a list; t3
\* sets, pulses and clears.
One == [t \in Threads |->
          IF t = t1 THEN {n1, s1} ELSE IF t = t2 THEN {s1} ELSE {}]
Any == [t \in Threads |-> IF t = t2 THEN {<<n1, s1>>} ELSE {}]
All == [t \in Threads |-> IF t = t1 THEN {<<n1, s2>>} ELSE {}]

\* The instance is one of those the theorem on OneSetOneWaiter is about.
ASSUME InstanceAlone == AllAlone

=============================================================================
