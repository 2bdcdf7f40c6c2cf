-------------------------------- MODULE Relay --------------------------------
(***************************************************************************)
(* What the router's TCP promises (xbox_net_nat.c:40-46): the bytes of a   *)
(* console's connection are carried to the far side and the far side's to  *)
(* the console, each once and in order, and an end only behind everything  *)
(* that came before it. Any connection may stop short.                     *)
(***************************************************************************)
EXTENDS Naturals, Sequences

CONSTANT Pipes

VARIABLES
  written,     \* bytes the source has put in
  ended,       \* the source has put in its end
  broken,      \* the source has broken off
  delivered,   \* what has come out
  told         \* the end has come out

vars == <<written, ended, broken, delivered, told>>

Init ==
  /\ written \in [Pipes -> Nat]
  /\ ended = [d \in Pipes |-> FALSE]
  /\ broken = [d \in Pipes |-> FALSE]
  /\ delivered = [d \in Pipes |-> <<>>]
  /\ told = [d \in Pipes |-> FALSE]

Write(d) ==
  /\ ~ended[d] /\ ~broken[d]
  /\ written' = [written EXCEPT ![d] = @ + 1]
  /\ UNCHANGED <<ended, broken, delivered, told>>

End(d) ==
  /\ ~ended[d] /\ ~broken[d]
  /\ ended' = [ended EXCEPT ![d] = TRUE]
  /\ UNCHANGED <<written, broken, delivered, told>>

Break(d) ==
  /\ broken' = [broken EXCEPT ![d] = TRUE]
  /\ UNCHANGED <<written, ended, delivered, told>>

\* As long as nothing has come out there may be another source.
Retry(d) ==
  /\ delivered[d] = <<>> /\ ~told[d]
  /\ written' = [written EXCEPT ![d] = 0]
  /\ ended' = [ended EXCEPT ![d] = FALSE]
  /\ broken' = [broken EXCEPT ![d] = FALSE]
  /\ UNCHANGED <<delivered, told>>

\* More of the stream comes out, and its end if it was all of it.
Carry(d) ==
  /\ ~told[d]
  /\ \E n \in Len(delivered[d]) .. written[d] :
       delivered' = [delivered EXCEPT ![d] = [i \in 1 .. n |-> i]]
  /\ \/ UNCHANGED told
     \/ /\ \/ ended[d] /\ Len(delivered'[d]) = written[d]
           \/ broken[d]
        /\ told' = [told EXCEPT ![d] = TRUE]
  /\ UNCHANGED <<written, ended, broken>>

Next == \E d \in Pipes : Write(d) \/ End(d) \/ Break(d) \/ Retry(d) \/ Carry(d)

Spec == Init /\ [][Next]_vars

=============================================================================
