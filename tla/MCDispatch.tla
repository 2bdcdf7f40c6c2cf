----------------------------- MODULE MCDispatch -----------------------------
(* Small instances of Dispatch for TLC. *)
EXTENDS Dispatch

CONSTANTS g1, g2, u1, clk, d1, d2, d3, v1, v2

\* v1 comes with a DPC, v2 is a plain kernel sleep.
DpcOfV1 == [v \in Timers |-> IF v = v1 THEN d1 ELSE NoDpc]
NoTimerDpc == [v \in Timers |-> NoDpc]

=============================================================================
