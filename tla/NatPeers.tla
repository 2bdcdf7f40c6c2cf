------------------------------ MODULE NatPeers ------------------------------
(***************************************************************************)
(* The two sides the router of xbox_net_nat.c stands between, as the       *)
(* router meets them: the console's own TCP, which is XNet's and belongs   *)
(* to the title, and this PC's sockets with the far side behind them.      *)
(* Neither is code of the repository; each is a correct TCP of the least   *)
(* sort that shows the router everything it has cases for: segments said   *)
(* again, windows that close and open, probes, ends and resets.            *)
(*                                                                         *)
(* A byte is its place in its stream, a sequence number lives modulo       *)
(* SeqSpace.                                                               *)
(***************************************************************************)
EXTENDS Integers, Sequences

CONSTANTS
  Ports,          \* the console's ports, one connection attempt each
  Sends, Answers, \* [Ports -> Nat]: bytes the title, the far side have to say
  Refusing,       \* ports whose far side may refuse
  Resetting,      \* ports whose far side may break off
  Aborting,       \* ports whose title may break off
  ConBuf,         \* bytes the console's TCP holds for its title
  ConIss,         \* the console's first sequence number
  SeqSpace,       \* sequence numbers; 2^32
  OutLen          \* frames from the card the router's queue holds

ASSUME PeersAssumption ==
  /\ Sends \in [Ports -> Nat] /\ Answers \in [Ports -> Nat]
  /\ Refusing \subseteq Ports /\ Resetting \subseteq Ports /\ Aborting \subseteq Ports
  /\ ConBuf \in Nat \ {0} /\ OutLen \in Nat \ {0}
  /\ SeqSpace \in Nat \ {0} /\ SeqSpace % 2 = 0 /\ ConIss \in 0 .. SeqSpace - 1

VARIABLES
  con,    \* the console's connections
  host,   \* this PC's socket for each and the far side behind it
  out,    \* frames from the card, not yet handled
  in      \* frames for the card

Seqs == 0 .. SeqSpace - 1
Plus(a, n) == (a + n) % SeqSpace
Minus(a, b) == (a - b) % SeqSpace

\* (int32_t)(a - b) < 0, and <= 0.
seq_lt(a, b) == Minus(a, b) >= SeqSpace \div 2
seq_le(a, b) == a = b \/ seq_lt(a, b)

Segments ==
  [port : Ports, fl : SUBSET {"syn", "ack", "fin", "rst"}, seq : Seqs, ack : Seqs,
   wnd : Nat, data : Seq(Nat \ {0})]

(* The console's TCP: acked and sent count the places of its stream (its   *)
(* end is the place after the last byte) the router has acknowledged and   *)
(* it has sent; edge is the place up to which the router lets it send.     *)
NoCon == [st |-> "none", acked |-> 0, sent |-> 0, edge |-> 0, shut |-> FALSE,
          riss |-> 0, got |-> <<>>, read |-> 0, fin |-> FALSE]

Expects(c) == Plus(c.riss, 1 + Len(c.got) + (IF c.fin THEN 1 ELSE 0))
Room(c) == ConBuf - (Len(c.got) - c.read)

Speak(p, c, place, fl, data) ==
  [port |-> p, fl |-> fl, seq |-> Plus(ConIss, place),
   ack |-> IF "ack" \in fl THEN Expects(c) ELSE 0, wnd |-> Room(c), data |-> data]
SynOf(p) == Speak(p, NoCon, 0, {"syn"}, <<>>)
AckOf(p, c) == Speak(p, c, 1 + c.sent, {"ack"}, <<>>)
RstOf(p, c) == Speak(p, c, 1 + c.sent, {"rst"}, <<>>)

\* What stands at a place of the title's stream: a byte, with the end if it
\* is the last and the title has finished, or the end alone.
Said(p, c, k) ==
  Speak(p, c, 1 + k,
        {"ack"} \cup (IF c.shut /\ k + 1 >= Sends[p] THEN {"fin"} ELSE {}),
        IF k < Sends[p] THEN <<k + 1>> ELSE <<>>)
After(p, c, k) == IF c.shut /\ k + 1 >= Sends[p] THEN Sends[p] + 1 ELSE k + 1
Whole(p, c) == Sends[p] + (IF c.shut THEN 1 ELSE 0)

\* xbox_net_nat_send: a frame that finds the queue full is dropped.
Queued(q, f) == IF Len(q) = OutLen THEN q ELSE Append(q, f)

-----------------------------------------------------------------------------
(* The title and the console's TCP. *)

TitleOpens(p) ==
  /\ con[p].st = "none"
  /\ con' = [con EXCEPT ![p].st = "syn"]
  /\ out' = Queued(out, SynOf(p))
  /\ UNCHANGED <<in, host>>

TitleFinishes(p) ==
  /\ con[p].st = "up" /\ con[p].sent = Sends[p]
  /\ con' = [con EXCEPT ![p].shut = TRUE]
  /\ UNCHANGED <<in, host, out>>

\* It reads a byte; a window that was shut and opens is said.
TitleReads(p) ==
  LET c == [con[p] EXCEPT !.read = @ + 1] IN
  /\ con[p].st = "up" /\ con[p].read < Len(con[p].got)
  /\ con' = [con EXCEPT ![p] = c]
  /\ out' = IF Room(con[p]) = 0 THEN Queued(out, AckOf(p, c)) ELSE out
  /\ UNCHANGED <<in, host>>

TitleAborts(p) ==
  /\ p \in Aborting /\ con[p].st \in {"syn", "up"}
  /\ con' = [con EXCEPT ![p].st = "gone"]
  /\ out' = Queued(out, RstOf(p, con[p]))
  /\ UNCHANGED <<in, host>>

ConsoleSends(p) ==
  LET c == con[p] IN
  /\ c.st = "up" /\ c.sent < Whole(p, c)
  /\ c.sent < c.edge \/ c.sent = Sends[p]
  /\ con' = [con EXCEPT ![p].sent = After(p, c, c.sent)]
  /\ out' = Queued(out, Said(p, c, c.sent))
  /\ UNCHANGED <<in, host>>

\* What has not been answered, again: its SYN, the oldest place sent, or one
\* byte against a shut window. Its timer is longer than the card's queue.
ConsoleRepeats(p) ==
  LET c == con[p] IN
  /\ out = <<>> /\ in = <<>>
  /\ \/ /\ c.st = "syn"
        /\ out' = <<SynOf(p)>>
        /\ UNCHANGED con
     \/ /\ c.st = "up"
        /\ c.acked < c.sent \/ (c.acked = c.edge /\ c.acked < Sends[p])
        /\ out' = <<Said(p, c, c.acked)>>
        /\ con' = [con EXCEPT ![p].sent = IF @ = c.acked THEN After(p, c, @) ELSE @]
  /\ UNCHANGED <<in, host>>

\* Both ends said and answered: the connection is forgotten.
ConsoleForgets(p) ==
  /\ con[p].st = "up" /\ con[p].fin /\ con[p].acked = Sends[p] + 1
  /\ con' = [con EXCEPT ![p].st = "gone"]
  /\ UNCHANGED <<in, host, out>>

Heard(p, c, f) ==
  LET count == Minus(f.ack, Plus(ConIss, 1)) IN
  IF count < c.acked \/ count > c.sent THEN c
  ELSE [c EXCEPT !.acked = count, !.edge = count + f.wnd]

Accepts(c, f) ==
  IF f.seq # Expects(c) \/ c.fin \/ Len(f.data) > Room(c) THEN c
  ELSE [c EXCEPT !.got = @ \o f.data, !.fin = "fin" \in f.fl]

\* The timer thread hands the card the next frame (xbox_net_nat_peek, _pop)
\* and the console's TCP takes it.
ConsoleTakes ==
  /\ in # <<>>
  /\ in' = Tail(in)
  /\ UNCHANGED host
  /\ LET f == Head(in)
         p == f.port
         c == con[p]
         h == Accepts(Heard(p, c, f), f)
     IN
     \/ /\ "rst" \in f.fl
        /\ con' = [con EXCEPT ![p].st = "gone"]
        /\ UNCHANGED out
     \/ /\ "rst" \notin f.fl /\ c.st = "gone"
        /\ out' = Queued(out, RstOf(p, c))
        /\ UNCHANGED con
     \/ /\ f.fl = {"syn", "ack"} /\ c.st = "syn"
        /\ con' = [con EXCEPT ![p] = [c EXCEPT !.st = "up", !.riss = f.seq, !.edge = f.wnd]]
        /\ out' = Queued(out, AckOf(p, con'[p]))
     \/ /\ f.fl = {"syn", "ack"} /\ c.st = "up"
        /\ out' = Queued(out, AckOf(p, c))
        /\ UNCHANGED con
     \/ /\ f.fl \cap {"syn", "rst"} = {} /\ c.st = "up"
        /\ con' = [con EXCEPT ![p] = h]
        /\ out' = IF f.data # <<>> \/ "fin" \in f.fl THEN Queued(out, AckOf(p, h)) ELSE out

Console ==
  \/ ConsoleTakes
  \/ \E p \in Ports : TitleOpens(p) \/ TitleFinishes(p) \/ TitleReads(p) \/ TitleAborts(p)
                      \/ ConsoleSends(p) \/ ConsoleRepeats(p) \/ ConsoleForgets(p)

-----------------------------------------------------------------------------
(* This PC's socket and the far side: wrote counts the bytes the far side  *)
(* has sent, took those the router has received, got is what the far side  *)
(* has been given; full, that the socket takes no more for now.            *)

NoHost == [st |-> "none", wrote |-> 0, took |-> 0, ended |-> FALSE,
           got |-> <<>>, full |-> FALSE, shut |-> FALSE]

Far(p, h) == host' = [host EXCEPT ![p] = h] /\ UNCHANGED <<con, out, in>>

FarAnswers(p) ==
  /\ host[p].st = "connecting"
  /\ \/ Far(p, [host[p] EXCEPT !.st = "up"])
     \/ p \in Refusing /\ Far(p, [host[p] EXCEPT !.st = "refused"])

FarWrites(p) ==
  /\ host[p].st = "up" /\ host[p].wrote < Answers[p]
  /\ Far(p, [host[p] EXCEPT !.wrote = @ + 1])

FarEnds(p) ==
  /\ host[p].st = "up" /\ host[p].wrote = Answers[p] /\ ~host[p].ended
  /\ Far(p, [host[p] EXCEPT !.ended = TRUE])

FarReads(p) ==
  /\ host[p].st = "up" /\ host[p].full
  /\ Far(p, [host[p] EXCEPT !.full = FALSE])

FarResets(p) ==
  /\ p \in Resetting /\ host[p].st = "up" /\ ~host[p].ended
  /\ Far(p, [host[p] EXCEPT !.st = "reset"])

FarSide ==
  \E p \in Ports : FarAnswers(p) \/ FarWrites(p) \/ FarEnds(p) \/ FarReads(p) \/ FarResets(p)

PeersInit ==
  /\ con = [p \in Ports |-> NoCon]
  /\ host = [p \in Ports |-> NoHost]
  /\ out = <<>> /\ in = <<>>

=============================================================================
