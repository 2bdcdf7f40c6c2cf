------------------------------ MODULE MCNatTcp ------------------------------
(* Small instances of NatTcp for TLC. *)
EXTENDS NatTcp

None == [x \in Ports |-> 0]
One == [x \in Ports |-> 1]
Two == [x \in Ports |-> 2]
Three == [x \in Ports |-> 3]

=============================================================================
