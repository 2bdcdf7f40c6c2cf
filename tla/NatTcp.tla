-------------------------------- MODULE NatTcp --------------------------------
(***************************************************************************)
(* The TCP relay of the router inside the runtime                          *)
(* (src/src/kernel/xbox_net_nat.c): it ends the console's connection       *)
(* itself and carries its bytes over a socket of this PC's. One thread     *)
(* does everything: a pass of its loop asks select, handles every frame    *)
(* the card has queued, then the sockets select has named, then the        *)
(* timers. The queues either way are short and drop what does not fit.     *)
(*                                                                         *)
(* Each handler is one step on a work record of the connection, the queue  *)
(* of frames for the card and the connection's socket. There is no clock:  *)
(* any time may pass between two steps, so a timer's condition on it may   *)
(* hold whenever the thread looks.                                         *)
(***************************************************************************)
EXTENDS NatPeers, SequencesExt

CONSTANTS
  TcpMax,    \* TCP_MAX, connections carried at once
  TcpBuf,    \* TCP_BUF, bytes buffered each way
  Mss,       \* bytes in one segment to the console
  InLen,     \* IN_LEN, frames for the card the queue holds
  Iss        \* the first sequence numbers the clock can give

ASSUME NatAssumption ==
  /\ TcpMax \in Nat \ {0} /\ TcpBuf \in Nat \ {0} /\ Mss \in Nat \ {0} /\ InLen \in Nat \ {0}
  /\ Iss \subseteq Seqs

\* What is buffered at either end is little against the numbers there are: 64 KB
\* (TCP_BUF) and a window of 16 bits against 2^32.
ASSUME WindowAssumption == 2 * (TcpBuf + ConBuf + 3) <= SeqSpace

VARIABLES
  tcp,    \* the table of connections
  loop    \* where the router's thread is, and what select has told it

peerVars == <<con, host, out, in>>
vars == <<con, host, out, in, tcp, loop>>

Slots == 1 .. TcpMax
Socks == 1 .. TcpMax + 1
NoSock == 0

\* tcp_close, and the table before anything was opened.
FreeTcp ==
  [used |-> FALSE, connecting |-> FALSE, sock |-> NoSock, port |-> NoSock, iss |-> 0,
   una |-> 0, nxt |-> 0, rcv_nxt |-> 0, syn_acked |-> FALSE, wnd |-> 0, tx |-> <<>>,
   tx_seq |-> 0, rx |-> <<>>, host_eof |-> FALSE, fin_sent |-> FALSE, fin_acked |-> FALSE,
   fin_seq |-> 0, console_fin |-> FALSE, shut_wr |-> FALSE]

Selecting == [at |-> "select", todo |-> {}, rd |-> {}, wr |-> {}]

Init ==
  /\ PeersInit
  /\ tcp = [s \in Slots |-> FreeTcp]
  /\ loop = Selecting

-----------------------------------------------------------------------------
(* Work on one connection: c, the queue q of frames for the card, and h,   *)
(* the socket and what is behind it.                                       *)

Work(s) == [c |-> tcp[s], q |-> in, h |-> host[tcp[s].port]]

deliver(q, f) == IF Len(q) = InLen THEN q ELSE Append(q, f)

segment(c, seq, fl, data) ==
  [port |-> c.port, fl |-> fl, seq |-> seq, ack |-> c.rcv_nxt, wnd |-> TcpBuf - Len(c.rx),
   data |-> data]
tcp_segment(w, seq, fl, data) == [w EXCEPT !.q = deliver(@, segment(w.c, seq, fl, data))]

tcp_close(w) ==
  [w EXCEPT !.c = FreeTcp, !.h.st = IF @ \in {"reset", "refused"} THEN @ ELSE "closed"]

tcp_abort(w) ==
  tcp_close(IF w.c.syn_acked \/ ~w.c.connecting
            THEN tcp_segment(w, w.c.nxt, {"rst", "ack"}, <<>>) ELSE w)

\* Of the buffer, what has not been sent, n bytes in segments of at most Mss:
\* the queue takes the first of them, as many as it has room for.
Pieces(c, n) ==
  LET off == Minus(c.nxt, c.tx_seq) IN
  [i \in 1 .. (n + Mss - 1) \div Mss |->
     segment(c, Plus(c.nxt, (i - 1) * Mss), {"ack"},
             SubSeq(c.tx, off + (i - 1) * Mss + 1, off + Min({i * Mss, n})))]
Sent(w, n) ==
  LET pieces == Pieces(w.c, n)
      fit == Min({Len(pieces), InLen - Len(w.q)})
  IN [w EXCEPT !.q = @ \o SubSeq(pieces, 1, fit), !.c.nxt = Plus(@, n)]

Left(c) == Len(c.tx) - Minus(c.nxt, c.tx_seq)

\* The data the console's window allows.
SendData_WholeWindow(w) ==       \* mutant: what is in flight left out
  IF Left(w.c) <= 0 \/ w.c.wnd = 0 THEN w ELSE Sent(w, Min({Left(w.c), w.c.wnd}))
SendData(w) ==
  LET inflight == Minus(w.c.nxt, w.c.una) IN
  IF Left(w.c) <= 0 \/ inflight >= w.c.wnd THEN w
  ELSE Sent(w, Min({Left(w.c), w.c.wnd - inflight}))

\* The end, behind the last byte of this PC's side.
Ended(w) ==
  [tcp_segment(w, w.c.nxt, {"fin", "ack"}, <<>>)
     EXCEPT !.c.fin_seq = w.c.nxt, !.c.nxt = Plus(@, 1), !.c.fin_sent = TRUE]
SendFin_Early(w) ==              \* mutant: before the bytes the window holds back
  IF w.c.host_eof /\ ~w.c.fin_sent THEN Ended(w) ELSE w
SendFin(w) ==
  IF w.c.host_eof /\ ~w.c.fin_sent /\ w.c.nxt = Plus(w.c.tx_seq, Len(w.c.tx))
  THEN Ended(w) ELSE w

tcp_pump(w) ==
  IF w.c.connecting \/ (~w.c.syn_acked /\ w.c.nxt # w.c.iss) THEN w
  ELSE IF ~w.c.syn_acked
  THEN [tcp_segment(w, w.c.iss, {"syn", "ack"}, <<>>) EXCEPT !.c.nxt = Plus(w.c.iss, 1)]
  ELSE SendFin(SendData(w))

\* What the sends of the loop come to for n bytes: how many are taken before
\* one would block, or Failed. A socket is full by being sent to.
Failed == -1
Taken(h, n) ==
  IF h.st = "up" THEN IF h.full THEN {0} ELSE 1 .. n
  ELSE IF h.st = "connecting" THEN {0} ELSE {Failed}

PassEnd(w) ==
  IF w.c.rx = <<>> /\ w.c.console_fin /\ ~w.c.shut_wr
  THEN [w EXCEPT !.c.shut_wr = TRUE, !.h.shut = TRUE] ELSE w

tcp_flush_rx(w) ==
  LET n == Len(w.c.rx)
      Flushed(k, full) ==
        LET c == [w.c EXCEPT !.rx = SubSeq(@, k + 1, n)]
            h == [w.h EXCEPT !.got = @ \o SubSeq(w.c.rx, 1, k), !.full = full]
        IN PassEnd(tcp_segment([w EXCEPT !.c = c, !.h = h], c.nxt, {"ack"}, <<>>))
      Came(k) == IF k = Failed THEN {tcp_abort(w)} ELSE IF k = 0 THEN {w}
                 ELSE {Flushed(k, full) : full \in {TRUE, k < n}}
  IN IF w.c.rx = <<>> \/ w.c.connecting THEN {PassEnd(w)}
     ELSE UNION {Came(k) : k \in Taken(w.h, n)}

-----------------------------------------------------------------------------
(* A segment from the console.                                             *)

SlotsOf(p) == {s \in Slots : tcp[s].used /\ tcp[s].port = p}
FreeSlots == {s \in Slots : ~tcp[s].used}

ResetFor(q, f) ==
  IF "rst" \in f.fl THEN q
  ELSE deliver(q, [port |-> f.port, fl |-> IF "ack" \in f.fl THEN {"rst"} ELSE {"rst", "ack"},
                   seq |-> IF "ack" \in f.fl THEN f.ack ELSE 0,
                   ack |-> IF "ack" \in f.fl THEN 0
                           ELSE Plus(f.seq, Len(f.data) + Cardinality(f.fl \cap {"syn", "fin"})),
                   wnd |-> 0, data |-> <<>>])

Takes(f) ==
  /\ loop.at = "frames" /\ out # <<>>
  /\ f = Head(out) /\ out' = Tail(out)
  /\ UNCHANGED <<con, loop>>

Refused(f) == in' = ResetFor(in, f) /\ UNCHANGED <<tcp, host>>

\* Nobody's segment.
InUnknown(f) ==
  /\ Takes(f)
  /\ SlotsOf(f.port) = {} /\ f.fl # {"syn"}
  /\ Refused(f)

\* A new SYN that cannot be carried: the table is full, or this PC has no
\* socket or no way to where it goes.
InRefused(f) ==
  /\ Takes(f)
  /\ SlotsOf(f.port) = {} /\ f.fl = {"syn"}
  /\ FreeSlots = {} \/ f.port \in Refusing
  /\ Refused(f)

\* A new SYN: a socket of this PC's begins to connect. The number the
\* system gives it is any that is free.
tcp_open(f) ==
  /\ Takes(f)
  /\ SlotsOf(f.port) = {} /\ f.fl = {"syn"} /\ FreeSlots # {}
  /\ \E iss \in Iss, sock \in Socks \ {tcp[s].sock : s \in Slots} :
       tcp' = [tcp EXCEPT ![Min(FreeSlots)] =
                 [FreeTcp EXCEPT !.used = TRUE, !.connecting = TRUE, !.sock = sock,
                                 !.port = f.port, !.iss = iss, !.una = iss, !.nxt = iss,
                                 !.tx_seq = Plus(iss, 1), !.rcv_nxt = Plus(f.seq, 1),
                                 !.wnd = f.wnd]]
  /\ host' = [host EXCEPT ![f.port] = [NoHost EXCEPT !.st = "connecting"]]
  /\ UNCHANGED in

\* Of a connection in the table: w is what the handler leaves.
Handled(s, w) ==
  /\ tcp' = [tcp EXCEPT ![s] = w.c]
  /\ in' = w.q
  /\ host' = [host EXCEPT ![tcp[s].port] = w.h]

InReset(s, f) ==
  /\ Takes(f) /\ s \in SlotsOf(f.port) /\ "rst" \in f.fl
  /\ Handled(s, tcp_close(Work(s)))

InSynAgain(s, f) ==
  /\ Takes(f) /\ s \in SlotsOf(f.port) /\ f.fl = {"syn"}
  /\ Handled(s, IF tcp[s].connecting \/ tcp[s].syn_acked THEN Work(s)
                ELSE tcp_pump([Work(s) EXCEPT !.c.nxt = tcp[s].iss]))

InWhileConnecting(s, f) ==
  /\ Takes(f) /\ s \in SlotsOf(f.port) /\ f.fl \cap {"syn", "rst"} = {}
  /\ tcp[s].connecting
  /\ Handled(s, Work(s))

Acknowledged(c, f) ==
  LET done == Min({Minus(f.ack, c.tx_seq), Len(c.tx)})
      freed == IF seq_lt(c.tx_seq, f.ack)
               THEN [c EXCEPT !.tx = SubSeq(@, done + 1, Len(@)), !.tx_seq = Plus(@, done)] ELSE c
  IN
  [ IF seq_lt(c.una, f.ack) /\ seq_le(f.ack, c.nxt)
    THEN [freed EXCEPT !.syn_acked = @ \/ seq_le(Plus(c.iss, 1), f.ack),
                       !.fin_acked = @ \/ (c.fin_sent /\ f.ack = Plus(c.fin_seq, 1)),
                       !.una = f.ack]
    ELSE c
    EXCEPT !.wnd = f.wnd ]

\* What of the segment's bytes and end is the next the connection waits for
\* and fits its buffer.
Fitting(c, f) == Min({Len(f.data), TcpBuf - Len(c.rx)})
Accepted(c, f, take) ==
  LET fin == "fin" \in f.fl /\ take = Len(f.data) /\ ~c.console_fin IN
  [c EXCEPT !.rx = @ \o SubSeq(f.data, 1, take),
            !.rcv_nxt = Plus(@, take + (IF fin THEN 1 ELSE 0)),
            !.console_fin = @ \/ fin]
Received_NoLimit(c, f) ==        \* mutant: the room not looked at
  IF f.seq = c.rcv_nxt THEN Accepted(c, f, Len(f.data)) ELSE c
Received_AckedWhole(c, f) ==     \* mutant: what had no room is acknowledged
  IF f.seq = c.rcv_nxt
  THEN [Accepted(c, f, Fitting(c, f)) EXCEPT !.rcv_nxt = Plus(f.seq, Len(f.data))] ELSE c
Received_AnyOrder(c, f) ==       \* mutant: whatever comes is the next
  Accepted(c, f, Fitting(c, f))
Received(c, f) ==
  IF f.seq = c.rcv_nxt THEN Accepted(c, f, Fitting(c, f)) ELSE c

Finished(w) ==
  LET v == tcp_pump(w) IN
  IF v.c.fin_acked /\ v.c.console_fin /\ v.c.rx = <<>> THEN tcp_close(v) ELSE v

InSegment(s, f) ==
  /\ Takes(f) /\ s \in SlotsOf(f.port) /\ f.fl \cap {"syn", "rst"} = {}
  /\ ~tcp[s].connecting
  /\ LET acked == [Work(s) EXCEPT !.c = Acknowledged(@, f)]
         taken == [acked EXCEPT !.c = Received(@, f)]
         told == tcp_segment(taken, taken.c.nxt, {"ack"}, <<>>)
     IN
     IF f.data = <<>> /\ "fin" \notin f.fl THEN Handled(s, Finished(acked))
     ELSE \E w \in tcp_flush_rx(told) : Handled(s, IF w.c.used THEN Finished(w) ELSE w)

tcp_in(f) ==
  \/ InUnknown(f) \/ InRefused(f) \/ tcp_open(f)
  \/ \E s \in Slots : InReset(s, f) \/ InSynAgain(s, f) \/ InWhileConnecting(s, f)
                      \/ InSegment(s, f)

-----------------------------------------------------------------------------
(* This PC's sockets.                                                      *)

Readable(h) == h.took < h.wrote \/ h.ended \/ h.st \in {"refused", "reset"}
Writable(h) == h.st \notin {"none", "connecting"} /\ ~h.full

\* The next slot of those left to this part of the pass; behind the last one
\* come the timers, and behind theirs the next pass.
Begin(at, r) ==
  LET slots == {s \in Slots : tcp'[s].used} IN
  loop' = IF slots = {} THEN Selecting ELSE [r EXCEPT !.at = at, !.todo = slots]

NextSlot(at, s) ==
  /\ loop.at = at /\ s = Min(loop.todo)
  /\ UNCHANGED <<con, out>>

Onward ==
  IF Cardinality(loop.todo) > 1 THEN loop' = [loop EXCEPT !.todo = @ \ {Min(@)}]
  ELSE IF loop.at = "sockets" THEN Begin("timers", Selecting) ELSE loop' = Selecting

\* Sockets are asked about by number, and the answer stands for the rest of
\* the pass.
Select ==
  LET Asked(A(_)) == {tcp[s].sock : s \in {t \in Slots : tcp[t].used /\ A(tcp[t])}}
      R(c) == ~c.connecting /\ ~c.host_eof /\ Len(c.tx) < TcpBuf /\ Readable(host[c.port])
      W(c) == (c.connecting \/ c.rx # <<>>) /\ Writable(host[c.port])
  IN
  /\ loop.at = "select"
  /\ loop' = [at |-> "frames", todo |-> {}, rd |-> Asked(R), wr |-> Asked(W)]
  /\ UNCHANGED <<peerVars, tcp>>

FramesDone ==
  /\ loop.at = "frames" /\ out = <<>>
  /\ UNCHANGED <<peerVars, tcp>>
  /\ Begin("sockets", loop)

\* recv: bytes while there are any, then the end; a far side that broke off
\* may take unread bytes with it. What is not bytes is an end to the console.
Receives(w) ==
  LET room == TcpBuf - Len(w.c.tx)
      left == w.h.wrote - w.h.took
      Got(k) == [w EXCEPT !.c.tx = @ \o [i \in 1 .. k |-> w.h.took + i],
                          !.h.took = @ + k]
      eof == [w EXCEPT !.c.host_eof = TRUE]
  IN
  IF room = 0 THEN {w}
  ELSE IF w.h.st = "reset" THEN {eof} \cup {Got(k) : k \in 1 .. Min({room, left})}
  ELSE IF left > 0 THEN {Got(Min({room, left}))}
  ELSE IF w.h.ended \/ w.h.st = "refused" THEN {eof} ELSE {w}

Services(w, readable, writable) ==
  IF w.c.connecting
  THEN {IF ~writable THEN w
        ELSE IF w.h.st \in {"refused", "reset"}
        THEN tcp_close(tcp_segment(w, w.c.iss, {"rst", "ack"}, <<>>))
        ELSE tcp_pump([w EXCEPT !.c.connecting = FALSE])}
  ELSE LET read == IF readable /\ ~w.c.host_eof THEN Receives(w) ELSE {w}
           flushed == UNION {IF writable THEN tcp_flush_rx(v) ELSE {v} : v \in read}
       IN {IF v.c.used THEN tcp_pump(v) ELSE v : v \in flushed}

tcp_service(s) ==
  /\ NextSlot("sockets", s)
  /\ IF tcp[s].used
     THEN \E w \in Services(Work(s), tcp[s].sock \in loop.rd, tcp[s].sock \in loop.wr) :
            Handled(s, w)
     ELSE UNCHANGED <<tcp, in, host>>
  /\ Onward

-----------------------------------------------------------------------------
(* Timers.                                                                 *)

\* TCP_RTO_MS without progress: back to the oldest byte the console has not
\* acknowledged. Sending is no progress, so what goes out after a silence is
\* late from the start.
GoBack_OnlyPumps(s) ==           \* mutant: sends on from where it was
  /\ NextSlot("timers", s)
  /\ tcp[s].used /\ ~tcp[s].connecting /\ tcp[s].una # tcp[s].nxt
  /\ Handled(s, tcp_pump(Work(s)))
GoBack(s) ==
  /\ NextSlot("timers", s)
  /\ tcp[s].used /\ ~tcp[s].connecting /\ tcp[s].una # tcp[s].nxt
  /\ Handled(s, tcp_pump([Work(s) EXCEPT !.c.nxt = tcp[s].una,
                                         !.c.fin_sent = @ /\ tcp[s].una # tcp[s].fin_seq]))

\* TCP_IDLE_MS without a word, far longer than anything under way takes.
Idle(s) ==
  /\ NextSlot("timers", s)
  /\ tcp[s].used /\ ~tcp[s].connecting /\ tcp[s].una = tcp[s].nxt
  /\ out = <<>> /\ in = <<>>
  /\ Handled(s, tcp_abort(Work(s)))

tcp_timers(s) ==
  /\ \/ GoBack(s)
     \/ Idle(s)
     \/ NextSlot("timers", s) /\ UNCHANGED <<tcp, in, host>>
  /\ Onward

router_thread ==
  \/ Select \/ FramesDone
  \/ out # <<>> /\ tcp_in(Head(out))
  \/ \E s \in Slots : tcp_service(s) \/ tcp_timers(s)

Next ==
  \/ router_thread
  \/ (Console \/ FarSide) /\ UNCHANGED <<tcp, loop>>

Spec == Init /\ [][Next]_vars

\* The router's thread never rests, the card queues frames more slowly than
\* it takes them, and a timer that stays due is found due; the title reads
\* what has come, the console's TCP and the far side answer. Nothing makes
\* the title or the far side open, write, end or break off.
Fairness ==
  /\ WF_vars(router_thread) /\ SF_vars(FramesDone)
  /\ \A s \in Slots : SF_vars(GoBack(s) /\ Onward) /\ SF_vars(Idle(s) /\ Onward)
  /\ WF_vars(ConsoleTakes /\ UNCHANGED <<tcp, loop>>)
  /\ \A p \in Ports :
       /\ WF_vars((TitleReads(p) \/ ConsoleSends(p)) /\ UNCHANGED <<tcp, loop>>)
       /\ SF_vars(ConsoleRepeats(p) /\ UNCHANGED <<tcp, loop>>)
       /\ WF_vars((FarAnswers(p) \/ FarReads(p)) /\ UNCHANGED <<tcp, loop>>)

FairSpec == Spec /\ Fairness

-----------------------------------------------------------------------------
(* Properties.                                                             *)

TypeOK ==
  /\ loop.at \in {"select", "frames", "sockets", "timers"}
  /\ loop.todo \subseteq Slots /\ loop.rd \subseteq Socks /\ loop.wr \subseteq Socks
  /\ Len(out) <= OutLen /\ Len(in) <= InLen
  /\ Range(out) \subseteq Segments /\ Range(in) \subseteq Segments
  /\ \A s \in Slots :
       LET c == tcp[s] IN
       /\ c.used => c.sock \in Socks /\ c.port \in Ports
       /\ {c.iss, c.una, c.nxt, c.rcv_nxt, c.tx_seq, c.fin_seq} \subseteq Seqs
       /\ Len(c.tx) <= TcpBuf /\ Len(c.rx) <= TcpBuf

\* The console is never sent what it has no room for: every byte on its way
\* lies inside the window it has said, whatever was said again meanwhile.
SentFits ==
  \A i \in DOMAIN in :
    LET f == in[i] c == con[f.port] IN
    f.data # <<>> /\ c.st = "up"
      => seq_le(Plus(f.seq, Len(f.data)), Plus(Expects(c), Room(c)))

Carrying(p) == \E s \in Slots : tcp[s].used /\ tcp[s].port = p

\* What has been acknowledged to the console is not lost on the way: it is in
\* the connection's buffer or with the far side.
AcknowledgedIsHeld ==
  \A s \in Slots :
    tcp[s].used =>
      con[tcp[s].port].acked <=
        Len(host[tcp[s].port].got) + Len(tcp[s].rx) + (IF tcp[s].console_fin THEN 1 ELSE 0)

\* The relay implements its promise: what comes out of either end of a
\* connection went in at the other, in order and once, and an end only after
\* all of it.
Pipes == Ports \X {"up", "down"}
Pipe(up, down) == [d \in Pipes |-> IF d[2] = "up" THEN up[d[1]] ELSE down[d[1]]]
R == INSTANCE Relay WITH
  written <- Pipe(Sends, [p \in Ports |-> host[p].wrote]),
  ended <- Pipe([p \in Ports |-> con[p].shut], [p \in Ports |-> host[p].ended]),
  broken <- Pipe([p \in Ports |-> con[p].st = "gone"],
                 [p \in Ports |-> host[p].st \in {"reset", "refused"}]),
  delivered <- Pipe([p \in Ports |-> host[p].got], [p \in Ports |-> con[p].got]),
  told <- Pipe([p \in Ports |-> host[p].shut], [p \in Ports |-> con[p].fin])
ImplementsRelay == R!Spec

\* Where the far side has finished, the console comes to have every byte and
\* the end, or the router lets the connection go.
DownArrives ==
  \A p \in Ports :
    host[p].ended /\ Carrying(p) ~> con[p].fin \/ ~Carrying(p)

\* An end that has been sent and lost is still in flight, so that the timer
\* sends it again: it is owed, on its way, or the console has it.
EndNotLost ==
  \A s \in Slots :
    LET c == tcp[s] IN
    c.fin_sent /\ ~c.fin_acked /\ con[c.port].st = "up"
      => \/ c.una # c.nxt \/ con[c.port].fin
         \/ \E i \in DOMAIN in : in[i].port = c.port /\ "fin" \in in[i].fl

=============================================================================
