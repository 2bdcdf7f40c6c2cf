------------------------------ MODULE DpcQueue ------------------------------
(***************************************************************************)
(* What KeInsertQueueDpc and KeRemoveQueueDpc of kernel_bridge.c promise a *)
(* driver, whoever calls them: a queued DPC is in the queue once and runs  *)
(* once, one at a time and after those queued before it, unless it is      *)
(* removed first.  An insert may always be refused (the queue may be full).*)
(*                                                                         *)
(* A queue that has nothing twice is what it has and which of two things   *)
(* is ahead of the other.                                                  *)
(***************************************************************************)
CONSTANT Dpcs

VARIABLES
  queued,    \* the DPCs in the queue
  ahead,     \* pairs of them: the first came before the second
  running    \* the thread that takes them runs one

vars == <<queued, ahead, running>>

Insert(d) ==
  /\ d \notin queued
  /\ queued' = queued \cup {d}
  /\ ahead' = ahead \cup (queued \X {d})
  /\ UNCHANGED running

Leaves(d) ==
  /\ d \in queued
  /\ queued' = queued \ {d}
  /\ ahead' = {p \in ahead : p[1] # d /\ p[2] # d}

Remove(d) == Leaves(d) /\ UNCHANGED running

Run(d) ==
  /\ ~running /\ running' = TRUE
  /\ \A e \in queued : <<e, d>> \notin ahead
  /\ Leaves(d)

Return == running /\ running' = FALSE /\ UNCHANGED <<queued, ahead>>

Init == queued = {} /\ ahead = {} /\ running = FALSE

Next == Return \/ \E d \in Dpcs : Insert(d) \/ Remove(d) \/ Run(d)

Spec == Init /\ [][Next]_vars

=============================================================================
