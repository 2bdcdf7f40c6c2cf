---------------------------- MODULE NatTcpProofs ----------------------------
(***************************************************************************)
(* What holds of the router's TCP for every number of ports, connections   *)
(* and bytes, every size of its buffers and queues, and whatever the title *)
(* and the far side do.                                                    *)
(***************************************************************************)
EXTENDS NatTcp, FiniteSetTheorems, SequenceTheorems, WellFoundedInduction, TLAPS

---------------------------------------------------------------------------
(* The inductive invariant *)

Bytes == Seq(Nat \ {0})

ConType ==
  [st : {"none", "syn", "up", "gone"}, acked : Nat, sent : Nat, edge : Nat, shut : BOOLEAN,
   riss : Seqs, got : Bytes, read : Nat, fin : BOOLEAN]

HostType ==
  [st : {"none", "connecting", "up", "refused", "reset", "closed"}, wrote : Nat, took : Nat,
   ended : BOOLEAN, got : Bytes, full : BOOLEAN, shut : BOOLEAN]

TcpType ==
  [used : BOOLEAN, connecting : BOOLEAN, sock : Nat, port : Ports \cup {NoSock}, iss : Seqs,
   una : Seqs, nxt : Seqs, rcv_nxt : Seqs, syn_acked : BOOLEAN, wnd : Nat, tx : Bytes,
   tx_seq : Seqs, rx : Bytes, host_eof : BOOLEAN, fin_sent : BOOLEAN, fin_acked : BOOLEAN,
   fin_seq : Seqs, console_fin : BOOLEAN, shut_wr : BOOLEAN]

LoopType ==
  [at : {"select", "frames", "sockets", "timers"}, todo : SUBSET Slots, rd : SUBSET Socks,
   wr : SUBSET Socks]

\* A connection's buffers, and what the table has of one that is carried.
Fits(c) ==
  /\ Len(c.tx) <= TcpBuf /\ Len(c.rx) <= TcpBuf
  /\ c.used => c.sock \in Socks /\ c.port \in Ports

Types ==
  /\ con \in [Ports -> ConType]
  /\ \A p \in Ports : con[p].read <= Len(con[p].got) /\ Room(con[p]) >= 0
  /\ host \in [Ports -> HostType]
  /\ out \in Seq(Segments) /\ Len(out) <= OutLen
  /\ in \in Seq(Segments) /\ Len(in) <= InLen
  /\ tcp \in [Slots -> TcpType]
  /\ \A s \in Slots : Fits(tcp[s])
  /\ loop \in LoopType

\* A port has one connection.
OneEach ==
  \A s, t \in Slots : tcp[s].used /\ tcp[t].used /\ tcp[s].port = tcp[t].port => s = t

\* How many places of the console's stream the router has taken, and a frame
\* that acknowledges no more than a of them.
Taking(c, h) == Len(h.got) + Len(c.rx) + (IF c.console_fin THEN 1 ELSE 0)
Tells(f, a) == "rst" \in f.fl \/ \E b \in 0 .. a : f.ack = Plus(ConIss, 1 + b)

\* A connection waits for the place behind those it has taken, and has
\* acknowledged no others.
Honest(s) ==
  LET p == tcp[s].port
      a == Taking(tcp[s], host[p])
  IN /\ tcp[s].rcv_nxt = Plus(ConIss, 1 + a)
     /\ con[p].acked <= a
     /\ \A f \in Range(in) : f.port = p => Tells(f, a)

\* Nothing of the console's stream has been taken yet.
Carries(f) == f.data # <<>> \/ "fin" \in f.fl
Anew(p) ==
  /\ con[p].acked = 0 /\ host[p].got = <<>>
  /\ \A f \in Range(in) : f.port = p => Tells(f, 0)
  /\ \A s \in SlotsOf(p) : tcp[s].rx = <<>> /\ ~tcp[s].console_fin

\* While a SYN is on its way, or another may be sent, nothing has been taken;
\* bytes and ends come behind the last SYN.
Opening(p) ==
  con[p].st \in {"none", "syn"} \/ \E f \in Range(out) : f.port = p /\ "syn" \in f.fl
Ordered ==
  /\ \A f \in Range(out) : "syn" \in f.fl => f.fl = {"syn"} /\ f.seq = Plus(ConIss, 0)
  /\ \A f \in Range(out) : Carries(f) => con[f.port].st \notin {"none", "syn"}
  /\ \A i, j \in DOMAIN out :
       i < j /\ Carries(out[i]) /\ "syn" \in out[j].fl => out[i].port # out[j].port
Opens == Ordered /\ \A p \in Ports : Opening(p) => Anew(p)

IInv ==
  /\ Types
  /\ OneEach
  /\ \A s \in Slots : tcp[s].used => Honest(s)
  /\ Opens

---------------------------------------------------------------------------
(* Sequence numbers *)

LEMMA Numbers ==
  /\ SeqSpace \in Nat /\ SeqSpace > 0 /\ ConIss \in Seqs /\ Iss \subseteq Seqs
  /\ TcpMax \in Nat /\ TcpBuf \in Nat /\ Mss \in Nat /\ Mss > 0 /\ InLen \in Nat /\ InLen > 0
  /\ ConBuf \in Nat /\ OutLen \in Nat /\ OutLen > 0
  /\ Sends \in [Ports -> Nat] /\ Answers \in [Ports -> Nat]
  BY NatAssumption, PeersAssumption DEF Seqs

LEMMA SeqType ==
  ASSUME NEW a \in Int, NEW n \in Int
  PROVE  Plus(a, n) \in Seqs /\ Minus(a, n) \in Seqs
  BY PeersAssumption DEF Plus, Minus, Seqs

LEMMA SeqsAre == \A a \in Seqs : a \in Nat /\ a \in Int /\ a < SeqSpace
  BY PeersAssumption DEF Seqs

LEMMA Turns ==
  ASSUME NEW q \in Int, NEW x \in Int
  PROVE  (q * SeqSpace + x) % SeqSpace = x % SeqSpace
<1>1. PICK k \in Int : k = x \div SeqSpace
  BY PeersAssumption
<1>2. PICK r \in Int : r = x % SeqSpace
  BY PeersAssumption
<1>3. x = k * SeqSpace + r /\ 0 <= r /\ r < SeqSpace
  BY <1>1, <1>2, PeersAssumption
<1>4. (q + k) * SeqSpace = q * SeqSpace + k * SeqSpace
      /\ q * SeqSpace \in Int /\ k * SeqSpace \in Int
  BY PeersAssumption
<1>5. q * SeqSpace + x = (q + k) * SeqSpace + r
  BY <1>3, <1>4
<1>6. ((q + k) * SeqSpace + r) % SeqSpace = r
  BY <1>3, PeersAssumption
<1> QED
  BY <1>2, <1>5, <1>6

LEMMA PlusPlus ==
  ASSUME NEW a \in Int, NEW n \in Int, NEW m \in Int
  PROVE  Plus(Plus(a, n), m) = Plus(a, n + m)
<1>1. PICK k \in Int : k = (a + n) \div SeqSpace
  BY PeersAssumption
<1>2. PICK r \in Int : r = (a + n) % SeqSpace
  BY PeersAssumption
<1>3. a + n = k * SeqSpace + r /\ k * SeqSpace \in Int
  BY <1>1, <1>2, PeersAssumption
<1>4. (k * SeqSpace + (r + m)) % SeqSpace = (r + m) % SeqSpace
  BY Turns
<1>5. k * SeqSpace + (r + m) = a + (n + m)
  BY <1>3
<1> QED
  BY <1>2, <1>4, <1>5 DEF Plus

\* How far one place is behind another.
LEMMA MinusIs ==
  ASSUME NEW a \in Int, NEW n \in Int, NEW m \in Int
  PROVE  Minus(Plus(a, n), Plus(a, m)) = (n - m) % SeqSpace
<1>1. PICK j \in Int, k \in Int : j = (a + n) \div SeqSpace /\ k = (a + m) \div SeqSpace
  BY PeersAssumption
<1>2. PICK r \in Int, t \in Int : r = (a + n) % SeqSpace /\ t = (a + m) % SeqSpace
  BY PeersAssumption
<1>3. /\ a + n = j * SeqSpace + r /\ a + m = k * SeqSpace + t
      /\ j * SeqSpace \in Int /\ k * SeqSpace \in Int
      /\ (j - k) * SeqSpace = j * SeqSpace - k * SeqSpace
  BY <1>1, <1>2, PeersAssumption
<1>4. ((j - k) * SeqSpace + (r - t)) % SeqSpace = (r - t) % SeqSpace
  BY Turns
<1>5. (j - k) * SeqSpace + (r - t) = n - m
  BY <1>3
<1> QED
  BY <1>2, <1>4, <1>5 DEF Plus, Minus

LEMMA MinusAtMost ==
  ASSUME NEW a \in Int, NEW b \in Nat
  PROVE  Minus(Plus(a, 1 + b), Plus(a, 1)) <= b
<1>1. Minus(Plus(a, 1 + b), Plus(a, 1)) = b % SeqSpace
  BY MinusIs
<1>2. b % SeqSpace <= b
  BY PeersAssumption
<1> QED
  BY <1>1, <1>2

---------------------------------------------------------------------------
(* Queues of frames *)

LEMMA RangeOf ==
  ASSUME NEW S, NEW q \in Seq(S)
  PROVE  /\ Range(q) \subseteq S
         /\ \A f : f \in Range(q) <=> \E i \in 1 .. Len(q) : f = q[i]
  BY RangeOfSeq, RangeEquality

LEMMA AppendRange ==
  ASSUME NEW S, NEW q \in Seq(S), NEW f \in S
  PROVE  /\ Append(q, f) \in Seq(S) /\ Len(Append(q, f)) = Len(q) + 1
         /\ Range(Append(q, f)) = Range(q) \cup {f}
<1>1. Append(q, f) \in Seq(S) /\ Len(Append(q, f)) = Len(q) + 1
      /\ (\A i \in 1 .. Len(q) : Append(q, f)[i] = q[i]) /\ Append(q, f)[Len(q) + 1] = f
  BY AppendProperties
<1> DEFINE r == Append(q, f)
<1>2. ASSUME NEW g  PROVE g \in Range(r) <=> g \in Range(q) \/ g = f
  <2>1. g \in Range(q) <=> \E i \in 1 .. Len(q) : g = q[i]
    BY RangeOf
  <2>2. /\ r \in Seq(S) /\ Len(r) = Len(q) + 1 /\ Len(q) \in Nat
        /\ (\A i \in 1 .. Len(q) : r[i] = q[i]) /\ r[Len(q) + 1] = f
    BY <1>1
  <2> HIDE DEF r
  <2>3. g \in Range(r) <=> \E i \in 1 .. Len(r) : g = r[i]
    BY <2>2, RangeOf
  <2>4. \A i \in 1 .. Len(q) + 1 : i \in 1 .. Len(q) \/ i = Len(q) + 1
    BY <2>2
  <2> QED
    BY <2>1, <2>2, <2>3, <2>4
<1> QED
  BY <1>1, <1>2

LEMMA TailRange ==
  ASSUME NEW S, NEW q \in Seq(S), q # <<>>
  PROVE  /\ Head(q) \in S /\ Head(q) \in Range(q) /\ Head(q) = q[1]
         /\ Tail(q) \in Seq(S) /\ Len(Tail(q)) = Len(q) - 1
         /\ \A i \in 1 .. Len(q) - 1 : Tail(q)[i] = q[i + 1]
         /\ Range(Tail(q)) \subseteq Range(q)
<1>1. Len(q) \in Nat /\ Len(q) > 0
  BY EmptySeq
<1>2. /\ Head(q) \in S /\ Head(q) = q[1]
      /\ Tail(q) \in Seq(S) /\ Len(Tail(q)) = Len(q) - 1
      /\ \A i \in 1 .. Len(q) - 1 : Tail(q)[i] = q[i + 1]
  BY <1>1, HeadTailProperties
<1> DEFINE r == Tail(q)
<1>3. ASSUME NEW g \in Range(r)  PROVE g \in Range(q)
  <2>1. r \in Seq(S) /\ Len(r) = Len(q) - 1 /\ \A i \in 1 .. Len(q) - 1 : r[i] = q[i + 1]
    BY <1>2
  <2> HIDE DEF r
  <2>2. PICK i \in 1 .. Len(r) : g = r[i]
    BY <1>3, <2>1, RangeOf
  <2>3. i + 1 \in 1 .. Len(q) /\ g = q[i + 1]
    BY <1>1, <2>1, <2>2
  <2> QED
    BY <2>3, RangeOf
<1>4. Head(q) \in Range(q)
  BY <1>1, <1>2, RangeOf
<1> QED
  BY <1>2, <1>3, <1>4

LEMMA DeliverIs ==
  ASSUME NEW q \in Seq(Segments), Len(q) <= InLen, NEW f \in Segments
  PROVE  /\ deliver(q, f) \in Seq(Segments) /\ Len(deliver(q, f)) <= InLen
         /\ Range(deliver(q, f)) \subseteq Range(q) \cup {f}
  BY AppendRange, Numbers DEF deliver

LEMMA QueuedIs ==
  ASSUME NEW q \in Seq(Segments), Len(q) <= OutLen, NEW f \in Segments
  PROVE  /\ Queued(q, f) \in Seq(Segments) /\ Len(Queued(q, f)) <= OutLen
         /\ Range(Queued(q, f)) \subseteq Range(q) \cup {f}
         /\ \A i \in DOMAIN Queued(q, f) :
              \/ i \in DOMAIN q /\ Queued(q, f)[i] = q[i]
              \/ Queued(q, f)[i] = f /\ i = Len(q) + 1
<1>1. CASE Len(q) = OutLen
  BY <1>1 DEF Queued
<1>2. CASE Len(q) # OutLen
  <2>1. Queued(q, f) = Append(q, f)
    BY <1>2 DEF Queued
  <2>2. Len(q) \in Nat /\ DOMAIN q = 1 .. Len(q) /\ DOMAIN Append(q, f) = 1 .. Len(q) + 1
    BY AppendRange
  <2> QED
    BY <1>2, <2>1, <2>2, AppendRange, AppendProperties, Numbers
<1> QED
  BY <1>1, <1>2

\* The lesser of two numbers.
LEMMA MinIs ==
  ASSUME NEW a \in Int, NEW b \in Int
  PROVE  Min({a, b}) = IF a <= b THEN a ELSE b
<1>1. CASE a <= b
  <2>1. ASSUME NEW x \in {a, b}, \A y \in {a, b} : x <= y
        PROVE  x = a
    BY <1>1, <2>1
  <2>2. \A y \in {a, b} : a <= y
    BY <1>1
  <2> QED
    BY <1>1, <2>1, <2>2 DEF Min
<1>2. CASE ~(a <= b)
  <2>1. ASSUME NEW x \in {a, b}, \A y \in {a, b} : x <= y
        PROVE  x = b
    BY <1>2, <2>1
  <2>2. \A y \in {a, b} : b <= y
    BY <1>2
  <2> QED
    BY <1>2, <2>1, <2>2 DEF Min
<1> QED
  BY <1>1, <1>2

LEMMA LeastPositive ==
  ASSUME NEW a \in Int, NEW b \in Int
  PROVE  /\ Min({a, b}) \in Int /\ Min({a, b}) <= a /\ Min({a, b}) <= b
         /\ a > 0 /\ b > 0 => Min({a, b}) > 0
<1>1. CASE a <= b
  BY <1>1, MinIs
<1>2. CASE ~(a <= b)
  BY <1>2, MinIs
<1> QED
  BY <1>1, <1>2

LEMMA LesserOf ==
  ASSUME NEW a \in Nat, NEW b \in Nat
  PROVE  Min({a, b}) \in Nat /\ Min({a, b}) <= a /\ Min({a, b}) <= b
  BY MinIs

---------------------------------------------------------------------------
(* Work on one connection *)

Works == [c : TcpType, q : Seq(Segments), h : HostType]

\* In the hands of a handler: the connection of port p, of whose stream a places are
\* taken, and the queue, which has got frames of that port only.
InHand(w, p, a) ==
  /\ w \in Works /\ Len(w.q) <= InLen /\ Fits(w.c) /\ Len(w.h.got) <= a
  /\ w.c.used => /\ w.c.port = p
                 /\ w.c.rcv_nxt = Plus(ConIss, 1 + a)
                 /\ Taking(w.c, w.h) = a
  /\ \A f \in Range(w.q) : IF f.port = p THEN Tells(f, a) ELSE f \in Range(in)

LEMMA TakingIs ==
  ASSUME NEW c \in TcpType, NEW h \in HostType
  PROVE  /\ Taking(c, h) \in Nat /\ Len(h.got) <= Taking(c, h)
         /\ Taking(c, h) = 0 <=> h.got = <<>> /\ c.rx = <<>> /\ ~c.console_fin
<1>1. c.rx \in Bytes /\ h.got \in Bytes /\ c.console_fin \in BOOLEAN
  BY DEF TcpType, HostType
<1>2. \A b \in Bytes : Len(b) \in Nat /\ (Len(b) = 0 <=> b = <<>>)
  BY EmptySeq DEF Bytes
<1>3. PICK x \in Nat, y \in Nat : x = Len(h.got) /\ y = Len(c.rx)
  BY <1>1, <1>2
<1>4. (x = 0 <=> h.got = <<>>) /\ (y = 0 <=> c.rx = <<>>)
  BY <1>1, <1>2, <1>3
<1>5. Taking(c, h) = x + y + (IF c.console_fin THEN 1 ELSE 0)
  BY <1>3 DEF Taking
<1>6. CASE c.console_fin
  <2>1. Taking(c, h) = x + y + 1
    BY <1>5, <1>6
  <2>2. x + y + 1 \in Nat /\ x <= x + y + 1 /\ x + y + 1 # 0
    OBVIOUS
  <2> QED
    BY <1>3, <1>6, <2>1, <2>2, Zenon
<1>7. CASE ~c.console_fin
  <2>1. Taking(c, h) = x + y + 0
    BY <1>5, <1>7
  <2>2. x + y + 0 \in Nat /\ x <= x + y + 0 /\ (x + y + 0 = 0 <=> x = 0 /\ y = 0)
    OBVIOUS
  <2> QED
    BY <1>3, <1>4, <1>7, <2>1, <2>2, Zenon
<1> QED
  BY <1>1, <1>6, <1>7

LEMMA FreeType == FreeTcp \in TcpType /\ Fits(FreeTcp) /\ ~FreeTcp.used
  BY Numbers, SeqsAre, PeersAssumption DEF FreeTcp, TcpType, Fits, Bytes, NoSock, Seqs

LEMMA SegmentType ==
  ASSUME NEW c \in TcpType, Fits(c), c.port \in Ports, NEW seq \in Seqs,
         NEW fl \in SUBSET {"syn", "ack", "fin", "rst"}, NEW data \in Bytes
  PROVE  segment(c, seq, fl, data) \in Segments
  BY Numbers DEF TcpType, Fits, Bytes, segment, Segments

LEMMA SegmentSent ==
  ASSUME NEW p \in Ports, NEW a \in Nat, NEW w, InHand(w, p, a), w.c.used,
         NEW seq \in Seqs, NEW fl \in SUBSET {"syn", "ack", "fin", "rst"}, NEW data \in Bytes
  PROVE  LET v == tcp_segment(w, seq, fl, data)
         IN InHand(v, p, a) /\ v.c = w.c /\ v.h = w.h
<1> DEFINE f == segment(w.c, seq, fl, data)
           v == tcp_segment(w, seq, fl, data)
<1>1. w \in Works /\ w.c \in TcpType /\ w.c.port = p
  BY DEF InHand, Works
<1>2. f \in Segments /\ f.port = p /\ f.ack = Plus(ConIss, 1 + a)
  BY <1>1, SegmentType DEF InHand, segment
<1>3. v = [w EXCEPT !.q = deliver(w.q, f)]
  BY DEF tcp_segment
<1>4. Tells(f, a)
  BY <1>2 DEF Tells
<1> HIDE DEF f
<1>5. /\ deliver(w.q, f) \in Seq(Segments) /\ Len(deliver(w.q, f)) <= InLen
      /\ Range(deliver(w.q, f)) \subseteq Range(w.q) \cup {f}
  BY <1>1, <1>2, DeliverIs DEF InHand, Works
<1>6. v \in Works /\ v.c = w.c /\ v.h = w.h /\ v.q = deliver(w.q, f)
  BY <1>1, <1>3, <1>5 DEF Works
<1> HIDE DEF v
<1>7. InHand(v, p, a)
  BY <1>2, <1>4, <1>5, <1>6 DEF InHand
<1> QED
  BY <1>6, <1>7 DEF v

LEMMA Closed ==
  ASSUME NEW p, NEW a, NEW w, InHand(w, p, a)
  PROVE  InHand(tcp_close(w), p, a) /\ ~tcp_close(w).c.used
<1>1. /\ tcp_close(w) \in Works /\ tcp_close(w).c = FreeTcp /\ tcp_close(w).q = w.q
      /\ tcp_close(w).h.got = w.h.got
  BY FreeType DEF InHand, Works, tcp_close, HostType
<1> QED
  BY <1>1, FreeType DEF InHand

LEMMA Aborted ==
  ASSUME NEW p \in Ports, NEW a \in Nat, NEW w, InHand(w, p, a), w.c.used
  PROVE  InHand(tcp_abort(w), p, a) /\ ~tcp_abort(w).c.used
<1>1. w.c.nxt \in Seqs /\ <<>> \in Bytes
  BY DEF InHand, Works, TcpType, Bytes
<1>2. InHand(tcp_segment(w, w.c.nxt, {"rst", "ack"}, <<>>), p, a)
  BY <1>1, SegmentSent
<1> QED
  BY <1>2, Closed DEF tcp_abort

\* What a handler does to the rest of a connection.
LEMMA Otherwise ==
  ASSUME NEW p, NEW a, NEW w, InHand(w, p, a), NEW v \in Works, Fits(v.c), v.q = w.q,
         v.c.used = w.c.used, v.c.port = w.c.port, v.c.rcv_nxt = w.c.rcv_nxt,
         v.c.rx = w.c.rx, v.c.console_fin = w.c.console_fin, v.h.got = w.h.got
  PROVE  InHand(v, p, a)
  BY DEF InHand, Taking

\* The pieces of n bytes behind what has been sent.
LEMMA PieceType ==
  ASSUME NEW c \in TcpType, Fits(c), c.port \in Ports, NEW n \in 1 .. Left(c)
  PROVE  /\ Pieces(c, n) \in Seq(Segments)
         /\ \A i \in 1 .. Len(Pieces(c, n)) :
              Pieces(c, n)[i].port = c.port /\ Pieces(c, n)[i].ack = c.rcv_nxt
<1> DEFINE off == Minus(c.nxt, c.tx_seq)
           k == (n + Mss - 1) \div Mss
           Place(i) == Plus(c.nxt, (i - 1) * Mss)
           Data(i) == SubSeq(c.tx, off + (i - 1) * Mss + 1, off + Min({i * Mss, n}))
           Piece(i) == segment(c, Place(i), {"ack"}, Data(i))
           ps == [i \in 1 .. k |-> Piece(i)]
<1>1. c.nxt \in Int /\ c.tx_seq \in Int /\ c.tx \in Bytes /\ Len(c.tx) \in Nat
  BY SeqsAre DEF TcpType, Bytes
<1>2. off \in Nat /\ n \in Nat /\ off + n <= Len(c.tx)
  <2>1. Minus(c.nxt, c.tx_seq) \in Seqs
    BY <1>1, SeqType
  <2>2. Minus(c.nxt, c.tx_seq) \in Nat
    BY <2>1, SeqsAre
  <2> QED
    BY <1>1, <2>2 DEF Left
<1>3. k \in Nat
  BY <1>2, Numbers
<1>4. ASSUME NEW i \in 1 .. k
      PROVE  Piece(i) \in Segments /\ Piece(i).port = c.port /\ Piece(i).ack = c.rcv_nxt
  <2>1. (i - 1) * Mss \in Nat /\ i * Mss \in Nat
    BY <1>3, Numbers
  <2>2. Min({i * Mss, n}) \in Int /\ Min({i * Mss, n}) <= n
    BY <1>2, <2>1, MinIs
  <2> DEFINE from == off + (i - 1) * Mss + 1
             to == off + Min({i * Mss, n})
  <2>3. from \in Int /\ to \in Int /\ from >= 1 /\ to <= Len(c.tx)
    BY <1>2, <2>1, <2>2
  <2>4. Data(i) = SubSeq(c.tx, from, to)
    OBVIOUS
  <2> HIDE DEF from, to, Data, off
  <2>5. \A j \in from .. to : c.tx[j] \in Nat \ {0}
    BY <1>1, <2>3 DEF Bytes
  <2>6. SubSeq(c.tx, from, to) \in Seq(Nat \ {0})
    BY <2>3, <2>5, SubSeqProperties
  <2>60. Data(i) \in Bytes
    BY <2>4, <2>6 DEF Bytes
  <2>7. Place(i) \in Seqs
    BY <1>1, <2>1, SeqType
  <2> HIDE DEF Place
  <2>8. segment(c, Place(i), {"ack"}, Data(i)) \in Segments
    BY <2>60, <2>7, SegmentType
  <2> QED
    BY <2>8 DEF segment
<1>5. Pieces(c, n) = ps
  BY DEF Pieces
<1> HIDE DEF Piece, off
<1>6. ps \in Seq(Segments) /\ Len(ps) = k
  BY <1>3, <1>4
<1>7. \A i \in 1 .. k : ps[i] = Piece(i)
  OBVIOUS
<1> HIDE DEF ps, k
<1> QED
  BY <1>4, <1>5, <1>6, <1>7

LEMMA SentKeeps ==
  ASSUME NEW p \in Ports, NEW a \in Nat, NEW w, InHand(w, p, a), w.c.used,
         NEW n \in 1 .. Left(w.c)
  PROVE  InHand(Sent(w, n), p, a) /\ Sent(w, n).c.used
<1> DEFINE ps == Pieces(w.c, n)
           fit == Min({Len(ps), InLen - Len(w.q)})
           first == SubSeq(ps, 1, fit)
           v == [w EXCEPT !.q = w.q \o first, !.c.nxt = Plus(w.c.nxt, n)]
<1>1. /\ w \in Works /\ w.c \in TcpType /\ w.c.port = p /\ Fits(w.c)
      /\ w.q \in Seq(Segments) /\ Len(w.q) \in Nat /\ Len(w.q) <= InLen
      /\ w.c.rcv_nxt = Plus(ConIss, 1 + a)
  BY DEF InHand, Works
<1>2. ps \in Seq(Segments) /\ \A i \in 1 .. Len(ps) : ps[i].port = p /\ ps[i].ack = w.c.rcv_nxt
  BY <1>1, PieceType
<1>3. Sent(w, n) = v
  BY DEF Sent
<1> HIDE DEF ps
<1>4. fit \in Nat /\ fit <= Len(ps) /\ fit <= InLen - Len(w.q)
  <2>1. Len(ps) \in Nat /\ InLen - Len(w.q) \in Nat
    BY <1>1, <1>2, Numbers
  <2>2. fit = IF Len(ps) <= InLen - Len(w.q) THEN Len(ps) ELSE InLen - Len(w.q)
    BY <2>1, MinIs
  <2> QED
    BY <2>1, <2>2
<1> HIDE DEF fit
<1>5. /\ first \in Seq(Segments) /\ Len(first) = fit
      /\ \A i \in 1 .. fit : first[i] = ps[i]
  <2>1. \A i \in 1 .. fit : ps[i] \in Segments
    BY <1>2, <1>4
  <2> QED
    BY <1>4, <2>1, SubSeqProperties
<1> HIDE DEF first
<1>6. /\ w.q \o first \in Seq(Segments) /\ Len(w.q \o first) <= InLen
      /\ Range(w.q \o first) = Range(w.q) \cup Range(first)
  <2>1. /\ w.q \o first \in Seq(Segments)
        /\ Len(w.q \o first) = Len(w.q) + Len(first)
    BY <1>1, <1>5, ConcatProperties
  <2>2. Len(w.q) + Len(first) <= InLen
    BY <1>1, <1>4, <1>5, Numbers
  <2> QED
    BY <1>1, <1>5, <2>1, <2>2, RangeConcatenation
<1>7. ASSUME NEW f \in Range(first)  PROVE f.port = p /\ Tells(f, a)
  <2>1. PICK i \in 1 .. fit : f = ps[i]
    BY <1>5, RangeOf
  <2> QED
    BY <1>1, <1>2, <1>4, <2>1 DEF Tells
<1>8. Plus(w.c.nxt, n) \in Seqs
  <2>1. w.c.nxt \in Int /\ n \in Int
    BY <1>1, SeqsAre DEF TcpType
  <2> QED
    BY <2>1, SeqType
<1>9. /\ v \in Works /\ v.q = w.q \o first /\ v.h = w.h
      /\ v.c = [w.c EXCEPT !.nxt = Plus(w.c.nxt, n)]
  BY <1>1, <1>6, <1>8 DEF Works, TcpType
<1>10. /\ v.c.used = w.c.used /\ v.c.port = w.c.port /\ v.c.rcv_nxt = w.c.rcv_nxt
       /\ v.c.rx = w.c.rx /\ v.c.console_fin = w.c.console_fin /\ v.c.tx = w.c.tx
       /\ v.c.sock = w.c.sock
  <2> DEFINE c == [w.c EXCEPT !.nxt = Plus(w.c.nxt, n)]
  <2>1. /\ c.used = w.c.used /\ c.port = w.c.port /\ c.rcv_nxt = w.c.rcv_nxt
        /\ c.rx = w.c.rx /\ c.console_fin = w.c.console_fin /\ c.tx = w.c.tx
        /\ c.sock = w.c.sock
    BY <1>1 DEF TcpType
  <2>2. v.c = c
    BY <1>9
  <2> HIDE DEF c, v
  <2> QED
    BY <2>1, <2>2
<1> HIDE DEF v
<1>11. InHand(v, p, a)
  BY <1>6, <1>7, <1>9, <1>10 DEF InHand, Taking, Fits
<1> QED
  BY <1>3, <1>10, <1>11

LEMMA SendDataKeeps ==
  ASSUME NEW p \in Ports, NEW a \in Nat, NEW w, InHand(w, p, a), w.c.used
  PROVE  InHand(SendData(w), p, a) /\ SendData(w).c.used
<1> DEFINE inflight == Minus(w.c.nxt, w.c.una)
           n == Min({Left(w.c), w.c.wnd - inflight})
<1>1. /\ w.c.nxt \in Int /\ w.c.una \in Int /\ w.c.tx_seq \in Int /\ Len(w.c.tx) \in Nat
      /\ w.c.wnd \in Int
  BY SeqsAre DEF InHand, Works, TcpType, Bytes
<1>2. Left(w.c) \in Int /\ inflight \in Int
  <2>1. inflight \in Seqs /\ Minus(w.c.nxt, w.c.tx_seq) \in Seqs
    BY <1>1, SeqType
  <2>2. inflight \in Int /\ Minus(w.c.nxt, w.c.tx_seq) \in Int
    BY <2>1, SeqsAre
  <2> QED
    BY <1>1, <2>2 DEF Left
<1> HIDE DEF inflight
<1>3. CASE Left(w.c) <= 0 \/ inflight >= w.c.wnd
  BY <1>3 DEF SendData, inflight
<1>4. CASE ~(Left(w.c) <= 0 \/ inflight >= w.c.wnd)
  <2>1. n \in 1 .. Left(w.c)
    <3> DEFINE left == Left(w.c)
               open == w.c.wnd - inflight
    <3>1. left \in Int /\ open \in Int /\ left > 0 /\ open > 0
      BY <1>1, <1>2, <1>4
    <3> HIDE DEF left, open
    <3>2. Min({left, open}) \in Int /\ Min({left, open}) <= left /\ Min({left, open}) > 0
      BY <3>1, LeastPositive
    <3>3. Min({left, open}) \in 1 .. left
      BY <3>1, <3>2
    <3> QED
      BY <3>3 DEF left, open
  <2>2. SendData(w) = Sent(w, n)
    BY <1>4 DEF SendData, inflight
  <2> HIDE DEF n
  <2> QED
    BY <2>1, <2>2, SentKeeps
<1> QED
  BY <1>3, <1>4

LEMMA SendFinKeeps ==
  ASSUME NEW p \in Ports, NEW a \in Nat, NEW w, InHand(w, p, a), w.c.used
  PROVE  InHand(SendFin(w), p, a) /\ SendFin(w).c.used
<1> DEFINE u == tcp_segment(w, w.c.nxt, {"fin", "ack"}, <<>>)
           v == Ended(w)
<1>1. w.c.nxt \in Seqs /\ <<>> \in Bytes
  BY DEF InHand, Works, TcpType, Bytes
<1>2. InHand(u, p, a) /\ u.c = w.c /\ u.h = w.h
  BY <1>1, SegmentSent
<1>3. v = [u EXCEPT !.c.fin_seq = w.c.nxt, !.c.nxt = Plus(u.c.nxt, 1), !.c.fin_sent = TRUE]
  BY DEF Ended
<1> HIDE DEF u
<1>4. u \in Works /\ Plus(u.c.nxt, 1) \in Seqs
  <2>1. u.c.nxt \in Int
    BY <1>1, <1>2, SeqsAre
  <2> QED
    BY <1>2, <2>1, SeqType DEF InHand
<1>5. /\ v \in Works /\ Fits(v.c) /\ v.q = u.q /\ v.c.used = u.c.used
      /\ v.c.port = u.c.port /\ v.c.rcv_nxt = u.c.rcv_nxt /\ v.c.rx = u.c.rx
      /\ v.c.console_fin = u.c.console_fin /\ v.h.got = u.h.got
  <2> DEFINE c == [u.c EXCEPT !.fin_seq = w.c.nxt, !.nxt = Plus(u.c.nxt, 1), !.fin_sent = TRUE]
  <2>1. u.c \in TcpType /\ Fits(u.c)
    BY <1>2 DEF InHand, Works
  <2>2. /\ c \in TcpType /\ c.used = u.c.used /\ c.port = u.c.port /\ c.sock = u.c.sock
        /\ c.rcv_nxt = u.c.rcv_nxt /\ c.rx = u.c.rx /\ c.console_fin = u.c.console_fin
        /\ c.tx = u.c.tx
    BY <1>1, <1>2, <1>4, <2>1 DEF TcpType
  <2>3. v = [u EXCEPT !.c = c]
    BY <1>3, <1>4 DEF Works
  <2> HIDE DEF c, v
  <2>4. v \in Works /\ v.c = c /\ v.q = u.q /\ v.h = u.h
    BY <1>4, <2>2, <2>3 DEF Works
  <2> QED
    BY <2>1, <2>2, <2>4 DEF Fits
<1> HIDE DEF v
<1>6. InHand(v, p, a) /\ v.c.used
  BY <1>2, <1>5, Otherwise
<1> QED
  BY <1>6 DEF SendFin, v

LEMMA PumpKeeps ==
  ASSUME NEW p \in Ports, NEW a \in Nat, NEW w, InHand(w, p, a), w.c.used
  PROVE  InHand(tcp_pump(w), p, a) /\ tcp_pump(w).c.used
<1> DEFINE u == tcp_segment(w, w.c.iss, {"syn", "ack"}, <<>>)
           v == [u EXCEPT !.c.nxt = Plus(w.c.iss, 1)]
<1>1. w.c.iss \in Seqs /\ <<>> \in Bytes
  BY DEF InHand, Works, TcpType, Bytes
<1>2. InHand(u, p, a) /\ u.c = w.c
  BY <1>1, SegmentSent
<1>3. Plus(w.c.iss, 1) \in Seqs
  <2>1. w.c.iss \in Int
    BY <1>1, SeqsAre
  <2> QED
    BY <2>1, SeqType
<1> HIDE DEF u
<1>4. /\ v \in Works /\ Fits(v.c) /\ v.q = u.q /\ v.c.used = u.c.used
      /\ v.c.port = u.c.port /\ v.c.rcv_nxt = u.c.rcv_nxt /\ v.c.rx = u.c.rx
      /\ v.c.console_fin = u.c.console_fin /\ v.h.got = u.h.got
  BY <1>2, <1>3 DEF InHand, Works, TcpType, Fits
<1> HIDE DEF v
<1>5. InHand(v, p, a) /\ v.c.used
  BY <1>2, <1>4, Otherwise
<1>6. InHand(SendFin(SendData(w)), p, a) /\ SendFin(SendData(w)).c.used
  BY SendDataKeeps, SendFinKeeps
<1> QED
  BY <1>5, <1>6 DEF tcp_pump, u, v

LEMMA PassEndKeeps ==
  ASSUME NEW p, NEW a, NEW w, InHand(w, p, a)
  PROVE  InHand(PassEnd(w), p, a)
<1> DEFINE v == [w EXCEPT !.c.shut_wr = TRUE, !.h.shut = TRUE]
<1>1. /\ v \in Works /\ Fits(v.c) /\ v.q = w.q /\ v.c.used = w.c.used
      /\ v.c.port = w.c.port /\ v.c.rcv_nxt = w.c.rcv_nxt /\ v.c.rx = w.c.rx
      /\ v.c.console_fin = w.c.console_fin /\ v.h.got = w.h.got
  BY DEF InHand, Works, TcpType, HostType, Fits
<1> HIDE DEF v
<1>2. InHand(v, p, a)
  BY <1>1, Otherwise
<1> QED
  BY <1>2 DEF PassEnd, v

\* k of the buffer's bytes go to the far side.
Shorter(w, k) == [w.c EXCEPT !.rx = SubSeq(@, k + 1, Len(w.c.rx))]
Longer(w, k, full) == [w.h EXCEPT !.got = @ \o SubSeq(w.c.rx, 1, k), !.full = full]
Pass(w, k, full) == [w EXCEPT !.c = Shorter(w, k), !.h = Longer(w, k, full)]

LEMMA Passed ==
  ASSUME NEW p, NEW a \in Nat, NEW w, InHand(w, p, a), w.c.used, NEW k \in 1 .. Len(w.c.rx),
         NEW full \in BOOLEAN
  PROVE  /\ InHand(Pass(w, k, full), p, a) /\ Pass(w, k, full).c = Shorter(w, k)
         /\ Shorter(w, k).used /\ Shorter(w, k).nxt \in Seqs
<1> DEFINE n == Len(w.c.rx)
           rest == SubSeq(w.c.rx, k + 1, n)
           more == SubSeq(w.c.rx, 1, k)
           c == Shorter(w, k)
           h == Longer(w, k, full)
           v == Pass(w, k, full)
<1>0. /\ c = [w.c EXCEPT !.rx = rest]
      /\ h = [w.h EXCEPT !.got = w.h.got \o more, !.full = full]
      /\ v = [w EXCEPT !.c = c, !.h = h]
  BY DEF Shorter, Longer, Pass
<1>1. /\ w \in Works /\ w.c \in TcpType /\ w.h \in HostType /\ Fits(w.c)
      /\ w.c.rx \in Bytes /\ w.h.got \in Bytes /\ n \in Nat /\ n <= TcpBuf /\ TcpBuf \in Nat
      /\ Len(w.h.got) \in Nat /\ k \in 1 .. n
  <2>1. w \in Works /\ w.c \in TcpType /\ w.h \in HostType /\ Fits(w.c)
    BY DEF InHand, Works
  <2>2. w.c.rx \in Bytes /\ w.h.got \in Bytes
    BY <2>1 DEF TcpType, HostType, Bytes
  <2> QED
    BY <2>1, <2>2, Numbers DEF Bytes, Fits
<1>2. /\ rest \in Bytes /\ Len(rest) = n - k
      /\ more \in Bytes /\ Len(more) = k
  <2>1. \A i \in 1 .. n : w.c.rx[i] \in Nat \ {0}
    BY <1>1, ElementOfSeq DEF Bytes
  <2> HIDE DEF n
  <2>2. k \in Int /\ n \in Int /\ 1 <= k /\ k <= n
    BY <1>1
  <2>3. (\A i \in k + 1 .. n : w.c.rx[i] \in Nat \ {0})
        /\ (\A i \in 1 .. k : w.c.rx[i] \in Nat \ {0})
    BY <2>1, <2>2
  <2>4. rest \in Bytes /\ Len(rest) = IF k + 1 <= n THEN n - (k + 1) + 1 ELSE 0
    BY <2>2, <2>3, SubSeqProperties DEF Bytes
  <2>5. more \in Bytes /\ Len(more) = IF 1 <= k THEN k - 1 + 1 ELSE 0
    BY <2>2, <2>3, SubSeqProperties DEF Bytes
  <2> QED
    BY <2>2, <2>4, <2>5
<1> HIDE DEF rest, more, c, h, v
<1>3. w.h.got \o more \in Bytes /\ Len(w.h.got \o more) = Len(w.h.got) + k
  BY <1>1, <1>2, ConcatProperties DEF Bytes
<1>4. /\ c \in TcpType /\ c.used = w.c.used /\ c.port = w.c.port /\ c.sock = w.c.sock
      /\ c.rcv_nxt = w.c.rcv_nxt /\ c.rx = rest /\ c.console_fin = w.c.console_fin
      /\ c.tx = w.c.tx /\ c.nxt \in Seqs
  BY <1>0, <1>1, <1>2 DEF TcpType
<1>5. h \in HostType /\ h.got = w.h.got \o more
  BY <1>0, <1>1, <1>3 DEF HostType
<1>6. v \in Works /\ v.c = c /\ v.h = h /\ v.q = w.q
  BY <1>0, <1>1, <1>4, <1>5 DEF Works
<1>7. Taking(c, h) = Taking(w.c, w.h)
  <2> DEFINE g == Len(w.h.got)
  <2>1. Len(h.got) = g + k /\ Len(c.rx) = n - k /\ Len(w.c.rx) = n
    BY <1>2, <1>3, <1>4, <1>5
  <2>2. g \in Int /\ n \in Int /\ k \in Int
    BY <1>1
  <2> HIDE DEF g, n
  <2>3. Len(h.got) + Len(c.rx) = g + Len(w.c.rx)
    BY <2>1, <2>2
  <2> QED
    BY <1>4, <2>3 DEF Taking, g
<1>8. Fits(c)
  BY <1>1, <1>2, <1>4 DEF Fits
<1>9. Len(h.got) <= Taking(c, h)
  BY <1>4, <1>5, TakingIs
<1>10. InHand(v, p, a)
  BY <1>4, <1>6, <1>7, <1>8, <1>9 DEF InHand
<1> QED
  BY <1>4, <1>6, <1>10 DEF v, c

LEMMA FlushKeeps ==
  ASSUME NEW p \in Ports, NEW a \in Nat, NEW w, InHand(w, p, a), w.c.used,
         NEW v \in tcp_flush_rx(w)
  PROVE  InHand(v, p, a)
<1> DEFINE n == Len(w.c.rx)
           Flushed(k, full) ==
             PassEnd(tcp_segment(Pass(w, k, full), Shorter(w, k).nxt, {"ack"}, <<>>))
<1>1. n \in Nat
  BY DEF InHand, Works, TcpType, Bytes
<1>2. ASSUME NEW k \in 1 .. n, NEW full \in BOOLEAN
      PROVE  InHand(Flushed(k, full), p, a)
  <2>1. InHand(Pass(w, k, full), p, a) /\ Pass(w, k, full).c.used
        /\ Shorter(w, k).nxt \in Seqs
    BY Passed
  <2>2. <<>> \in Bytes
    BY DEF Bytes
  <2>3. InHand(tcp_segment(Pass(w, k, full), Shorter(w, k).nxt, {"ack"}, <<>>), p, a)
    BY <2>1, <2>2, SegmentSent
  <2> QED
    BY <2>3, PassEndKeeps
<1>3. CASE w.c.rx = <<>> \/ w.c.connecting
  BY <1>3, PassEndKeeps DEF tcp_flush_rx
<1>4. CASE ~(w.c.rx = <<>> \/ w.c.connecting)
  <2>1. PICK k \in Taken(w.h, n) :
          v \in (IF k = Failed THEN {tcp_abort(w)} ELSE IF k = 0 THEN {w}
                 ELSE {Flushed(k, full) : full \in {TRUE, k < n}})
    BY <1>4 DEF tcp_flush_rx, Pass, Shorter, Longer
  <2>2. k = Failed \/ k = 0 \/ k \in 1 .. n
    BY DEF Taken
  <2>3. CASE k = Failed
    BY <2>1, <2>3, Aborted
  <2>4. CASE k = 0
    BY <2>1, <2>4 DEF Failed
  <2>5. CASE k # Failed /\ k # 0
    <3>1. PICK full \in {TRUE, k < n} : v = Flushed(k, full)
      BY <2>1, <2>5
    <3>2. k \in 1 .. n
      BY <2>2, <2>5
    <3>3. (k < n) \in BOOLEAN
      OBVIOUS
    <3> HIDE DEF Flushed, n
    <3>4. full \in BOOLEAN
      BY <3>1, <3>3
    <3> QED
      BY <1>2, <3>1, <3>2, <3>4
  <2> QED
    BY <2>3, <2>4, <2>5
<1> QED
  BY <1>3, <1>4

\* A segment's acknowledgement and window.
LEMMA AcknowledgedKeeps ==
  ASSUME NEW p \in Ports, NEW a \in Nat, NEW w, InHand(w, p, a), w.c.used, NEW f \in Segments
  PROVE  LET v == [w EXCEPT !.c = Acknowledged(@, f)] IN InHand(v, p, a) /\ v.c.used
<1> DEFINE c == w.c
           done == Min({Minus(f.ack, c.tx_seq), Len(c.tx)})
           shorter == [c EXCEPT !.tx = SubSeq(@, done + 1, Len(@)), !.tx_seq = Plus(@, done)]
           freed == IF seq_lt(c.tx_seq, f.ack) THEN shorter ELSE c
           syn == freed.syn_acked \/ seq_le(Plus(c.iss, 1), f.ack)
           end == freed.fin_acked \/ (c.fin_sent /\ f.ack = Plus(c.fin_seq, 1))
           new == [freed EXCEPT !.syn_acked = syn, !.fin_acked = end, !.una = f.ack]
           some == IF seq_lt(c.una, f.ack) /\ seq_le(f.ack, c.nxt) THEN new ELSE c
           Alike(d) == /\ d \in TcpType /\ Fits(d) /\ d.used = c.used /\ d.port = c.port
                       /\ d.rcv_nxt = c.rcv_nxt /\ d.rx = c.rx
                       /\ d.console_fin = c.console_fin
<1>1. /\ c \in TcpType /\ Fits(c) /\ Alike(c) /\ c.tx_seq \in Int /\ Len(c.tx) \in Nat
      /\ f.ack \in Seqs /\ f.ack \in Int /\ f.wnd \in Nat
  <2>1. c \in TcpType /\ Fits(c)
    BY DEF InHand, Works
  <2>2. c.tx_seq \in Seqs /\ c.tx \in Seq(Nat \ {0}) /\ f.ack \in Seqs /\ f.wnd \in Nat
    BY <2>1 DEF TcpType, Bytes, Segments
  <2> QED
    BY <2>1, <2>2, SeqsAre
<1>2. done \in Nat /\ done <= Len(c.tx)
  <2>1. Minus(f.ack, c.tx_seq) \in Seqs
    BY <1>1, SeqType
  <2>2. Minus(f.ack, c.tx_seq) \in Nat
    BY <2>1, SeqsAre
  <2>3. Len(c.tx) \in Nat
    BY <1>1
  <2> QED
    BY <2>2, <2>3, LesserOf
<1> HIDE DEF done
<1>3. SubSeq(c.tx, done + 1, Len(c.tx)) \in Bytes
      /\ Len(SubSeq(c.tx, done + 1, Len(c.tx))) <= TcpBuf
  <2>1. \A i \in done + 1 .. Len(c.tx) : c.tx[i] \in Nat \ {0}
    BY <1>1, <1>2 DEF TcpType, Bytes
  <2>2. Len(SubSeq(c.tx, done + 1, Len(c.tx))) =
          IF done + 1 <= Len(c.tx) THEN Len(c.tx) - (done + 1) + 1 ELSE 0
    BY <1>1, <1>2, <2>1, SubSeqProperties
  <2>3. SubSeq(c.tx, done + 1, Len(c.tx)) \in Bytes
    BY <1>1, <1>2, <2>1, SubSeqProperties DEF Bytes
  <2> QED
    BY <1>1, <1>2, <2>2, <2>3, Numbers DEF Fits
<1>4. Plus(c.tx_seq, done) \in Seqs
  BY <1>1, <1>2, SeqType
<1>5. Alike(shorter)
  BY <1>1, <1>3, <1>4 DEF TcpType, Fits
<1>6. Alike(freed)
  BY <1>1, <1>5
<1> HIDE DEF freed, shorter
<1>7. Alike(new)
  <2>1. syn \in BOOLEAN /\ end \in BOOLEAN
    OBVIOUS
  <2> HIDE DEF syn, end
  <2>2. f.ack \in Seqs /\ freed \in TcpType
    BY <1>6 DEF Segments
  <2> DEFINE old == [freed EXCEPT !.syn_acked = syn, !.fin_acked = end]
  <2>a. /\ old \in TcpType /\ old.used = freed.used /\ old.port = freed.port
         /\ old.sock = freed.sock /\ old.tx = freed.tx /\ old.rx = freed.rx
         /\ old.rcv_nxt = freed.rcv_nxt /\ old.console_fin = freed.console_fin
    BY <2>1, <2>2 DEF TcpType
  <2>b. new = [old EXCEPT !.una = f.ack]
    OBVIOUS
  <2> HIDE DEF old
  <2>3. /\ new \in TcpType /\ new.used = freed.used /\ new.port = freed.port
        /\ new.sock = freed.sock /\ new.tx = freed.tx /\ new.rx = freed.rx
        /\ new.rcv_nxt = freed.rcv_nxt /\ new.console_fin = freed.console_fin
    <3> HIDE DEF new
    <3> QED
      BY <2>2, <2>a, <2>b DEF TcpType
  <2> HIDE DEF new
  <2> QED
    BY <1>6, <2>3 DEF Fits
<1>8. Alike(some)
  BY <1>1, <1>7
<1>9. Acknowledged(c, f) = [some EXCEPT !.wnd = f.wnd]
  BY DEF Acknowledged, some, new, syn, end, freed, shorter, done
<1> HIDE DEF some, new
<1>10. Alike(Acknowledged(c, f))
  <2> DEFINE d == [some EXCEPT !.wnd = f.wnd]
  <2>1. f.wnd \in Nat /\ some \in TcpType
    BY <1>8 DEF Segments
  <2>2. /\ d \in TcpType /\ d.used = some.used /\ d.port = some.port
        /\ d.sock = some.sock /\ d.tx = some.tx /\ d.rx = some.rx
        /\ d.rcv_nxt = some.rcv_nxt /\ d.console_fin = some.console_fin
    BY <2>1 DEF TcpType
  <2> HIDE DEF d
  <2>3. Alike(d)
    BY <1>8, <2>2 DEF Fits
  <2> QED
    BY <1>9, <2>3 DEF d
<1> DEFINE v == [w EXCEPT !.c = Acknowledged(c, f)]
<1>11. v \in Works /\ v.c = Acknowledged(c, f) /\ v.q = w.q /\ v.h = w.h
  BY <1>10 DEF InHand, Works
<1> HIDE DEF v
<1>12. InHand(v, p, a) /\ v.c.used
  BY <1>10, <1>11, Otherwise
<1> QED
  BY <1>12 DEF v

\* More is taken, more may be told.
LEMMA TellsMore ==
  ASSUME NEW a \in Nat, NEW b \in Nat, a <= b, NEW f, Tells(f, a)
  PROVE  Tells(f, b)
  BY DEF Tells

\* A segment's bytes and end: of those behind what has been taken, what fits.
LEMMA ReceivedKeeps ==
  ASSUME NEW p \in Ports, NEW a \in Nat, NEW w, InHand(w, p, a), w.c.used, NEW f \in Segments
  PROVE  LET v == [w EXCEPT !.c = Received(@, f)]
         IN \E b \in Nat : a <= b /\ InHand(v, p, b) /\ v.c.used /\ (~Carries(f) => b = a)
<1> DEFINE c == w.c
           take == Fitting(c, f)
           fin == "fin" \in f.fl /\ take = Len(f.data) /\ ~c.console_fin
           one == IF fin THEN 1 ELSE 0
           part == SubSeq(f.data, 1, take)
           d == [c EXCEPT !.rx = c.rx \o part, !.rcv_nxt = Plus(c.rcv_nxt, take + one),
                          !.console_fin = c.console_fin \/ fin]
           v == [w EXCEPT !.c = d]
<1>1. /\ w \in Works /\ c \in TcpType /\ Fits(c) /\ c.rx \in Bytes /\ Len(c.rx) \in Nat
      /\ Len(c.rx) <= TcpBuf /\ f.data \in Bytes /\ Len(f.data) \in Nat /\ TcpBuf \in Nat
      /\ Len(w.h.got) \in Nat /\ c.port = p
  <2>1. w \in Works /\ c \in TcpType /\ Fits(c) /\ c.port = p /\ w.h \in HostType
    BY DEF InHand, Works
  <2>2. c.rx \in Bytes /\ w.h.got \in Bytes /\ f.data \in Bytes
    BY <2>1 DEF TcpType, HostType, Segments, Bytes
  <2> QED
    BY <2>1, <2>2, Numbers DEF Bytes, Fits
<1>2. take \in Nat /\ take <= Len(f.data) /\ take <= TcpBuf - Len(c.rx)
  <2> DEFINE m == TcpBuf - Len(c.rx)
  <2>1. m \in Nat /\ take = Min({Len(f.data), m})
    BY <1>1 DEF Fitting
  <2>2. Len(f.data) \in Nat
    BY <1>1
  <2> HIDE DEF m, take
  <2>3. take \in Nat /\ take <= Len(f.data) /\ take <= m
    BY <2>1, <2>2, LesserOf
  <2> QED
    BY <2>3 DEF m
<1>3. ~Carries(f) => take = 0 /\ ~fin
  BY <1>1, <1>2 DEF Carries
<1> HIDE DEF take
<1>4. part \in Bytes /\ Len(part) = take
  <2>1. \A i \in 1 .. take : f.data[i] \in Nat \ {0}
    BY <1>1, <1>2 DEF Bytes
  <2>2. part \in Bytes /\ Len(part) = IF 1 <= take THEN take - 1 + 1 ELSE 0
    BY <1>1, <1>2, <2>1, SubSeqProperties DEF Bytes
  <2> QED
    BY <1>2, <2>2
<1>5. one \in {0, 1} /\ fin \in BOOLEAN /\ (fin => ~c.console_fin)
  OBVIOUS
<1> HIDE DEF fin, part
<1>6. c.rx \o part \in Bytes /\ Len(c.rx \o part) = Len(c.rx) + take
  BY <1>1, <1>4, ConcatProperties DEF Bytes
<1> DEFINE b == a + (take + one)
<1>7. Plus(c.rcv_nxt, take + one) = Plus(ConIss, 1 + b)
  <2>1. c.rcv_nxt = Plus(ConIss, 1 + a) /\ ConIss \in Int /\ take + one \in Int
    BY <1>2, <1>5, Numbers, SeqsAre DEF InHand
  <2>2. 1 + b = (1 + a) + (take + one)
    BY <1>2, <1>5
  <2> HIDE DEF b, one
  <2> QED
    BY <2>1, <2>2, PlusPlus
<1>8. Plus(ConIss, 1 + b) \in Seqs /\ b \in Nat /\ a <= b
  <2>1. b \in Nat /\ a <= b /\ ConIss \in Int
    BY <1>2, <1>5, Numbers, SeqsAre
  <2> HIDE DEF b
  <2> QED
    BY <2>1, SeqType
<1>9. /\ d \in TcpType /\ d.used = c.used /\ d.port = c.port /\ d.sock = c.sock /\ d.tx = c.tx
      /\ d.rx = c.rx \o part /\ d.rcv_nxt = Plus(ConIss, 1 + b)
      /\ d.console_fin = (c.console_fin \/ fin)
  <2> HIDE DEF b, one
  <2> QED
    BY <1>1, <1>5, <1>6, <1>7, <1>8 DEF TcpType
<1>10. Received(c, f) = IF f.seq = c.rcv_nxt THEN d ELSE c
  BY DEF Received, Accepted, take, fin, part
<1> HIDE DEF d
<1>11. v \in Works /\ v.c = d /\ v.h = w.h /\ v.q = w.q
  BY <1>1, <1>9 DEF Works
<1>12. Taking(d, w.h) = b
  <2>1. Len(w.h.got) + Len(c.rx) + (IF c.console_fin THEN 1 ELSE 0) = a
    BY DEF InHand, Taking
  <2> DEFINE g == Len(w.h.got)
             l == Len(c.rx)
  <2>2. g \in Int /\ l \in Int /\ take \in Int /\ one \in Int
    BY <1>1, <1>2, <1>5
  <2>3. Len(d.rx) = l + take
    BY <1>6, <1>9
  <2>4. d.console_fin = (c.console_fin \/ fin) /\ (fin => ~c.console_fin)
        /\ one = IF fin THEN 1 ELSE 0
    BY <1>5, <1>9
  <2>5. g + l + (IF c.console_fin THEN 1 ELSE 0) = a
    BY <2>1
  <2> HIDE DEF g, l, one
  <2>6. g + (l + take) + (IF d.console_fin THEN 1 ELSE 0) = a + (take + one)
    <3>1. CASE fin
      <4>1. /\ (IF c.console_fin THEN 1 ELSE 0) = 0 /\ (IF d.console_fin THEN 1 ELSE 0) = 1
            /\ one = 1
        BY <2>4, <3>1
      <4> QED
        BY <2>2, <2>5, <4>1
    <3>2. CASE ~fin /\ c.console_fin
      <4>1. /\ (IF c.console_fin THEN 1 ELSE 0) = 1 /\ (IF d.console_fin THEN 1 ELSE 0) = 1
            /\ one = 0
        BY <2>4, <3>2
      <4> QED
        BY <2>2, <2>5, <4>1
    <3>3. CASE ~fin /\ ~c.console_fin
      <4>1. /\ (IF c.console_fin THEN 1 ELSE 0) = 0 /\ (IF d.console_fin THEN 1 ELSE 0) = 0
            /\ one = 0
        BY <2>4, <3>3
      <4> QED
        BY <2>2, <2>5, <4>1
    <3> QED
      BY <3>1, <3>2, <3>3
  <2> QED
    BY <2>3, <2>6 DEF Taking, g
<1>13. Fits(d)
  BY <1>1, <1>2, <1>6, <1>9 DEF Fits
<1> HIDE DEF v
<1>14. ~Carries(f) => b = a
  BY <1>3, <1>5
<1> HIDE DEF b
<1>15. InHand(v, p, b) /\ v.c.used
  <2>1. Len(w.h.got) <= b
    BY <1>1, <1>9, <1>12, TakingIs DEF Works
  <2> QED
    BY <1>8, <1>9, <1>11, <1>12, <1>13, <2>1, TellsMore DEF InHand
<1>16. f.seq # c.rcv_nxt => [w EXCEPT !.c = Received(c, f)] = w
  BY <1>1, <1>10 DEF Works
<1>17. f.seq = c.rcv_nxt => [w EXCEPT !.c = Received(c, f)] = v
  BY <1>10 DEF v
<1> DEFINE u == [w EXCEPT !.c = Received(c, f)]
<1>18. CASE f.seq = c.rcv_nxt
  <2>1. u = v
    BY <1>17, <1>18
  <2> HIDE DEF u
  <2>2. \E e \in Nat : a <= e /\ InHand(u, p, e) /\ u.c.used /\ (~Carries(f) => e = a)
    BY <1>8, <1>14, <1>15, <2>1
  <2> QED
    BY <2>2 DEF u
<1>19. CASE f.seq # c.rcv_nxt
  <2>1. u = w
    BY <1>16, <1>19
  <2> HIDE DEF u
  <2>2. \E e \in Nat : a <= e /\ InHand(u, p, e) /\ u.c.used /\ (~Carries(f) => e = a)
    BY <2>1
  <2> QED
    BY <2>2 DEF u
<1> QED
  BY <1>18, <1>19

LEMMA FinishedKeeps ==
  ASSUME NEW p \in Ports, NEW a \in Nat, NEW w, InHand(w, p, a), w.c.used
  PROVE  InHand(Finished(w), p, a)
  BY PumpKeeps, Closed DEF Finished

\* Bytes or an end from the far side.
LEMMA ReceivesKeeps ==
  ASSUME NEW p \in Ports, NEW a \in Nat, NEW w, InHand(w, p, a), w.c.used,
         NEW v \in Receives(w)
  PROVE  InHand(v, p, a) /\ v.c.used
<1> DEFINE room == TcpBuf - Len(w.c.tx)
           left == w.h.wrote - w.h.took
           more(k) == [i \in 1 .. k |-> w.h.took + i]
           Got(k) == [w EXCEPT !.c.tx = @ \o more(k), !.h.took = @ + k]
           eof == [w EXCEPT !.c.host_eof = TRUE]
<1>1. /\ w \in Works /\ w.c \in TcpType /\ w.h \in HostType /\ Fits(w.c) /\ w.c.tx \in Bytes
      /\ Len(w.c.tx) \in Nat /\ w.h.took \in Nat /\ w.h.wrote \in Nat
      /\ room \in Nat /\ left \in Int
  <2>1. w \in Works /\ w.c \in TcpType /\ w.h \in HostType /\ Fits(w.c)
    BY DEF InHand, Works
  <2>2. w.c.tx \in Bytes /\ w.h.took \in Nat /\ w.h.wrote \in Nat
    BY <2>1 DEF TcpType, HostType, Bytes
  <2>3. Len(w.c.tx) \in Nat /\ Len(w.c.tx) <= TcpBuf /\ TcpBuf \in Nat
    BY <2>1, <2>2, Numbers DEF Bytes, Fits
  <2> QED
    BY <2>1, <2>2, <2>3
<1>2. ASSUME NEW k \in 1 .. room
      PROVE  InHand(Got(k), p, a) /\ Got(k).c.used
  <2> HIDE DEF room
  <2>1. more(k) \in Bytes /\ Len(more(k)) = k
    <3> DEFINE e(i) == w.h.took + i
    <3>1. k \in Nat /\ \A i \in 1 .. k : e(i) \in Nat \ {0}
      BY <1>1
    <3>2. more(k) = [i \in 1 .. k |-> e(i)]
      OBVIOUS
    <3> HIDE DEF e, more
    <3> QED
      BY <3>1, <3>2 DEF Bytes
  <2> HIDE DEF more
  <2>2. w.c.tx \o more(k) \in Bytes /\ Len(w.c.tx \o more(k)) = Len(w.c.tx) + k
    <3>1. w.c.tx \in Seq(Nat \ {0}) /\ more(k) \in Seq(Nat \ {0})
      BY <1>1, <2>1 DEF Bytes
    <3>2. /\ w.c.tx \o more(k) \in Seq(Nat \ {0})
          /\ Len(w.c.tx \o more(k)) = Len(w.c.tx) + Len(more(k))
      BY <3>1, ConcatProperties
    <3> QED
      BY <2>1, <3>2 DEF Bytes
  <2>3. Len(w.c.tx \o more(k)) <= TcpBuf
    <3>1. k <= TcpBuf - Len(w.c.tx)
      BY <1>1 DEF room
    <3> QED
      BY <1>1, <2>2, <3>1, Numbers
  <2> DEFINE c == [w.c EXCEPT !.tx = w.c.tx \o more(k)]
             took == w.h.took + k
             h == [w.h EXCEPT !.took = took]
             u == Got(k)
  <2>4. /\ c \in TcpType /\ c.used = w.c.used /\ c.port = w.c.port /\ c.rcv_nxt = w.c.rcv_nxt
        /\ c.rx = w.c.rx /\ c.console_fin = w.c.console_fin /\ c.sock = w.c.sock
        /\ c.tx = w.c.tx \o more(k)
    BY <1>1, <2>2 DEF TcpType
  <2>5. h \in HostType /\ h.got = w.h.got
    <3>1. took \in Nat
      BY <1>1
    <3> HIDE DEF took
    <3> QED
      BY <1>1, <3>1 DEF HostType
  <2>6. u = [w EXCEPT !.c = c, !.h = h]
    BY <1>1 DEF Works
  <2> HIDE DEF c, h, u
  <2>7. u \in Works /\ u.c = c /\ u.h = h /\ u.q = w.q
    BY <1>1, <2>4, <2>5, <2>6 DEF Works
  <2>8. Fits(c)
    BY <1>1, <2>3, <2>4 DEF Fits
  <2>9. InHand(u, p, a) /\ u.c.used
    BY <2>4, <2>5, <2>7, <2>8, Otherwise
  <2> QED
    BY <2>9 DEF u
<1>3. InHand(eof, p, a) /\ eof.c.used
  <2>1. /\ eof \in Works /\ Fits(eof.c) /\ eof.q = w.q /\ eof.c.used = w.c.used
        /\ eof.c.port = w.c.port /\ eof.c.rcv_nxt = w.c.rcv_nxt /\ eof.c.rx = w.c.rx
        /\ eof.c.console_fin = w.c.console_fin /\ eof.h.got = w.h.got
    BY <1>1 DEF Works, TcpType, Fits
  <2> HIDE DEF eof
  <2> QED
    BY <2>1, Otherwise
<1>4. Min({room, left}) \in Int /\ Min({room, left}) <= room
      /\ (room > 0 /\ left > 0 => Min({room, left}) >= 1)
  <2> HIDE DEF room, left
  <2> DEFINE m == Min({room, left})
  <2>0. room \in Int /\ left \in Int
    BY <1>1
  <2>1. m \in Int /\ m <= room /\ (room > 0 /\ left > 0 => m > 0)
    BY <2>0, LeastPositive
  <2> HIDE DEF m
  <2>2. m \in Int /\ m <= room /\ (room > 0 /\ left > 0 => m >= 1)
    BY <2>0, <2>1
  <2> QED
    BY <2>2 DEF m
<1>5. v = w \/ v = eof \/ \E k \in 1 .. room : v = Got(k)
  <2> DEFINE m == Min({room, left})
  <2>1. CASE room = 0
    BY <2>1 DEF Receives
  <2>2. CASE room # 0 /\ w.h.st = "reset"
    <3>1. v = eof \/ \E k \in 1 .. m : v = Got(k)
      BY <2>2 DEF Receives
    <3> HIDE DEF m, Got, eof, room
    <3>2. \A k \in 1 .. m : k \in 1 .. room
      BY <1>1, <1>4 DEF m
    <3> QED
      BY <3>1, <3>2
  <2>3. CASE room # 0 /\ w.h.st # "reset" /\ left > 0
    <3>1. v = Got(m)
      BY <2>3 DEF Receives
    <3> HIDE DEF m, Got, eof, left, room
    <3>2. m \in 1 .. room
      BY <1>1, <1>4, <2>3 DEF m
    <3> QED
      BY <3>1, <3>2
  <2>4. CASE room # 0 /\ w.h.st # "reset" /\ ~(left > 0)
    BY <2>4 DEF Receives
  <2> QED
    BY <2>1, <2>2, <2>3, <2>4
<1> HIDE DEF Got, eof, room
<1> QED
  BY <1>2, <1>3, <1>5

LEMMA ServicesKeeps ==
  ASSUME NEW p \in Ports, NEW a \in Nat, NEW w, InHand(w, p, a), w.c.used,
         NEW r \in BOOLEAN, NEW x \in BOOLEAN, NEW v \in Services(w, r, x)
  PROVE  InHand(v, p, a)
<1>1. CASE w.c.connecting
  <2> DEFINE u == tcp_segment(w, w.c.iss, {"rst", "ack"}, <<>>)
             y == [w EXCEPT !.c.connecting = FALSE]
  <2>1. InHand(u, p, a)
    <3>1. w.c.iss \in Seqs /\ <<>> \in Bytes
      BY DEF InHand, Works, TcpType, Bytes
    <3> QED
      BY <3>1, SegmentSent
  <2>2. /\ y \in Works /\ Fits(y.c) /\ y.q = w.q /\ y.c.used = w.c.used
        /\ y.c.port = w.c.port /\ y.c.rcv_nxt = w.c.rcv_nxt /\ y.c.rx = w.c.rx
        /\ y.c.console_fin = w.c.console_fin /\ y.h.got = w.h.got
    BY DEF InHand, Works, TcpType, Fits
  <2>3. v = w \/ v = tcp_close(u) \/ v = tcp_pump(y)
    BY <1>1 DEF Services
  <2> HIDE DEF u, y
  <2>4. InHand(y, p, a) /\ y.c.used
    BY <2>2, Otherwise
  <2> QED
    BY <2>1, <2>3, <2>4, Closed, PumpKeeps
<1>2. CASE ~w.c.connecting
  <2>1. PICK u : /\ u = w \/ u \in Receives(w)
                 /\ \E y : /\ y = u \/ y \in tcp_flush_rx(u)
                           /\ v = IF y.c.used THEN tcp_pump(y) ELSE y
    BY <1>2 DEF Services
  <2>2. InHand(u, p, a) /\ u.c.used
    BY <2>1, ReceivesKeeps
  <2>3. PICK y : /\ y = u \/ y \in tcp_flush_rx(u)
                 /\ v = IF y.c.used THEN tcp_pump(y) ELSE y
    BY <2>1
  <2>4. InHand(y, p, a)
    BY <2>2, <2>3, FlushKeeps
  <2> QED
    BY <2>3, <2>4, PumpKeeps
<1> QED
  BY <1>1, <1>2

---------------------------------------------------------------------------
(* The router's steps *)

LEMMA InitInv == Init => IInv
<1> SUFFICES ASSUME Init  PROVE IInv
  OBVIOUS
<1>1. /\ con = [p \in Ports |-> NoCon] /\ host = [p \in Ports |-> NoHost]
      /\ out = <<>> /\ in = <<>> /\ tcp = [s \in Slots |-> FreeTcp] /\ loop = Selecting
  BY DEF Init, PeersInit
<1>2. NoCon \in ConType /\ NoHost \in HostType /\ Selecting \in LoopType
  BY PeersAssumption DEF NoCon, NoHost, Selecting, ConType, HostType, LoopType, Bytes, Seqs
<1>3. NoCon.read = 0 /\ NoCon.got = <<>> /\ Room(NoCon) = ConBuf /\ NoHost.got = <<>>
      /\ NoCon.acked = 0
  BY Numbers DEF NoCon, NoHost, Room
<1>4. Range(in) = {} /\ Range(out) = {} /\ DOMAIN out = {}
  BY <1>1 DEF Range
<1>5. Types
  BY <1>1, <1>2, <1>3, FreeType, Numbers DEF Types
<1>6. \A s \in Slots : ~tcp[s].used
  BY <1>1, FreeType
<1>7. Opens
  BY <1>1, <1>3, <1>4, <1>6 DEF Opens, Ordered, Opening, Anew, SlotsOf
<1> QED
  BY <1>5, <1>6, <1>7 DEF IInv, OneEach

\* A connection of the table, in hand.
LEMMA TakenInHand ==
  ASSUME IInv, NEW s \in Slots, tcp[s].used
  PROVE  LET p == tcp[s].port
             a == Taking(tcp[s], host[p])
         IN /\ p \in Ports /\ a \in Nat
            /\ InHand(Work(s), p, a)
            /\ Work(s).c = tcp[s] /\ Work(s).q = in /\ Work(s).h = host[p]
<1> DEFINE p == tcp[s].port
           a == Taking(tcp[s], host[p])
<1>1. tcp[s] \in TcpType /\ Fits(tcp[s]) /\ p \in Ports
  BY DEF IInv, Types, Fits
<1>2. host[p] \in HostType /\ in \in Seq(Segments) /\ Len(in) <= InLen
  BY <1>1 DEF IInv, Types
<1>3. a \in Nat /\ Len(host[p].got) <= a
  BY <1>1, <1>2, TakingIs
<1>4. /\ Work(s) \in Works /\ Work(s).c = tcp[s] /\ Work(s).q = in /\ Work(s).h = host[p]
  BY <1>1, <1>2 DEF Work, Works
<1>5. Honest(s)
  BY DEF IInv
<1>6. tcp[s].rcv_nxt = Plus(ConIss, 1 + a) /\ \A f \in Range(in) : f.port = p => Tells(f, a)
  BY <1>5 DEF Honest
<1>7. InHand(Work(s), p, a)
  BY <1>1, <1>2, <1>3, <1>4, <1>6 DEF InHand
<1> QED
  BY <1>1, <1>3, <1>4, <1>7

\* The handler puts it back, and its stream has got on from a to b.
LEMMA PutBack ==
  ASSUME IInv, NEW s \in Slots, tcp[s].used, NEW p, p = tcp[s].port,
         NEW a, a = Taking(tcp[s], host[p]), NEW b \in Nat, a <= b,
         NEW v, InHand(v, p, b), Handled(s, v),
         con' = con, loop' \in LoopType, out' \in Seq(Segments), Len(out') <= OutLen,
         Ordered', \A r \in Ports : Opening(r)' => Opening(r),
         b = a \/ ~Opening(p)'
  PROVE  IInv'
<1>1. /\ p \in Ports /\ a \in Nat /\ tcp \in [Slots -> TcpType] /\ host \in [Ports -> HostType]
      /\ tcp' = [tcp EXCEPT ![s] = v.c] /\ in' = v.q /\ host' = [host EXCEPT ![p] = v.h]
  BY TakenInHand DEF IInv, Types, Handled
<1>2. /\ v.c \in TcpType /\ v.q \in Seq(Segments) /\ v.h \in HostType /\ Len(v.q) <= InLen
      /\ Fits(v.c) /\ Len(v.h.got) <= b
      /\ v.c.used => /\ v.c.port = p /\ v.c.rcv_nxt = Plus(ConIss, 1 + b)
                     /\ Taking(v.c, v.h) = b
      /\ \A f \in Range(v.q) : IF f.port = p THEN Tells(f, b) ELSE f \in Range(in)
  BY DEF InHand, Works
<1>3. /\ tcp'[s] = v.c /\ host'[p] = v.h
      /\ \A t \in Slots \ {s} : tcp'[t] = tcp[t]
      /\ \A r \in Ports \ {p} : host'[r] = host[r]
  BY <1>1
<1>4. Types'
  <2>1. tcp' \in [Slots -> TcpType] /\ host' \in [Ports -> HostType]
        /\ in' \in Seq(Segments) /\ Len(in') <= InLen
    BY <1>1, <1>2
  <2>2. \A t \in Slots : Fits(tcp'[t])
    BY <1>2, <1>3 DEF IInv, Types
  <2>3. \A t \in Slots : Fits(tcp[t])'
    BY <2>2 DEF Fits
  <2>4. \A r \in Ports : (con[r].read <= Len(con[r].got) /\ Room(con[r]) >= 0)'
    BY DEF IInv, Types, Room
  <2> QED
    BY <2>1, <2>3, <2>4 DEF Types, IInv
<1>5. OneEach'
  <2>1. \A t \in Slots : tcp'[t].used => tcp[t].used /\ tcp'[t].port = tcp[t].port
    BY <1>2, <1>3
  <2> QED
    BY <2>1 DEF OneEach, IInv
<1>6. ASSUME NEW t \in Slots, tcp'[t].used
      PROVE  Honest(t)'
  <2>1. CASE t = s
    <3>1. /\ tcp'[t] = v.c /\ v.c.port = p /\ v.c.rcv_nxt = Plus(ConIss, 1 + b)
          /\ Taking(v.c, v.h) = b
      BY <1>2, <1>3, <1>6, <2>1
    <3>2. Taking(tcp[t], host[tcp[t].port])' = b
      BY <1>3, <3>1 DEF Taking
    <3>3. con'[p].acked <= b
      <4>1. con[p].acked <= a /\ con[p].acked \in Nat
        BY <1>1 DEF IInv, Honest, Types, ConType
      <4> QED
        BY <1>1, <4>1
    <3>4. \A f \in Range(in') : f.port = p => Tells(f, b)
      BY <1>1, <1>2
    <3> QED
      BY <3>1, <3>2, <3>3, <3>4 DEF Honest, Tells
  <2>2. CASE t # s
    <3>1. tcp'[t] = tcp[t] /\ tcp[t].used /\ tcp[t].port # p /\ tcp[t].port \in Ports
      BY <1>3, <1>6, <2>2 DEF IInv, OneEach, Types, Fits
    <3>2. host'[tcp[t].port] = host[tcp[t].port]
      BY <1>3, <3>1
    <3>3. Taking(tcp[t], host[tcp[t].port])' = Taking(tcp[t], host[tcp[t].port])
      BY <3>1, <3>2 DEF Taking
    <3>4. \A f \in Range(in') : f.port = tcp[t].port => f \in Range(in)
      BY <1>1, <1>2, <3>1
    <3>5. Honest(t)
      BY <3>1 DEF IInv
    <3> QED
      BY <3>1, <3>3, <3>4, <3>5 DEF Honest, Tells
  <2> QED
    BY <2>1, <2>2
<1>7. ASSUME NEW r \in Ports, Opening(r)'
      PROVE  Anew(r)'
  <2>1. Anew(r)
    BY <1>7 DEF IInv, Opens
  <2>2. CASE r # p
    <3>1. host'[r] = host[r]
      BY <1>3, <2>2
    <3>2. \A f \in Range(in') : f.port = r => f \in Range(in)
      BY <1>1, <1>2, <2>2
    <3>3. ASSUME NEW t \in Slots, tcp'[t].used, tcp'[t].port = r
          PROVE  tcp'[t] = tcp[t]
      BY <1>2, <1>3, <2>2, <3>3
    <3> QED
      BY <2>1, <3>1, <3>2, <3>3 DEF Anew, SlotsOf, Tells
  <2>3. CASE r = p
    <3>1. b = 0
      <4>1. b = a
        BY <1>7, <2>3
      <4>2. host[p].got = <<>> /\ tcp[s].rx = <<>> /\ ~tcp[s].console_fin
        BY <2>1, <2>3 DEF Anew, SlotsOf
      <4> QED
        BY <1>1, <4>1, <4>2, TakingIs
    <3>2. v.h.got = <<>>
      <4>1. v.h.got \in Bytes
        BY <1>2 DEF HostType
      <4> QED
        BY <1>2, <3>1, <4>1, EmptySeq DEF Bytes
    <3>3. \A f \in Range(in') : f.port = p => Tells(f, 0)
      BY <1>1, <1>2, <3>1
    <3>4. ASSUME NEW t \in Slots, tcp'[t].used, tcp'[t].port = p
          PROVE  tcp'[t].rx = <<>> /\ ~tcp'[t].console_fin
      <4>1. t = s
        BY <1>3, <3>4 DEF IInv, OneEach
      <4> QED
        BY <1>2, <1>3, <3>1, <3>4, <4>1, TakingIs
    <3> QED
      BY <1>3, <2>1, <2>3, <3>2, <3>3, <3>4 DEF Anew, SlotsOf, Tells
  <2> QED
    BY <2>2, <2>3
<1> QED
  BY <1>4, <1>5, <1>6, <1>7 DEF IInv, Opens

\* The thread handles the oldest frame: no SYN comes to be on its way, and behind
\* bytes or an end there is none of their port.
LEMMA OutShrinks ==
  ASSUME IInv, out # <<>>, out' = Tail(out), con' = con
  PROVE  /\ Head(out) \in Segments /\ Head(out) \in Range(out)
         /\ out' \in Seq(Segments) /\ Len(out') <= OutLen
         /\ Ordered' /\ \A r \in Ports : Opening(r)' => Opening(r)
         /\ \A r : Carries(Head(out)) /\ r = Head(out).port => ~Opening(r)'
<1>1. out \in Seq(Segments) /\ Len(out) <= OutLen /\ Len(out) \in Nat /\ Ordered
  BY DEF IInv, Types, Opens
<1>2. /\ Head(out) \in Segments /\ Head(out) \in Range(out) /\ Head(out) = out[1]
      /\ out' \in Seq(Segments) /\ Len(out') = Len(out) - 1
      /\ \A i \in 1 .. Len(out) - 1 : out'[i] = out[i + 1]
      /\ Range(out') \subseteq Range(out)
  BY <1>1, TailRange
<1>3. DOMAIN out' = 1 .. Len(out) - 1 /\ DOMAIN out = 1 .. Len(out) /\ Len(out) > 0
  BY <1>1, <1>2
<1>4. \A i \in DOMAIN out' : i + 1 \in DOMAIN out /\ out'[i] = out[i + 1]
  BY <1>1, <1>2, <1>3
<1>5. Ordered'
  <2>1. \A f \in Range(out') : "syn" \in f.fl => f.fl = {"syn"} /\ f.seq = Plus(ConIss, 0)
    BY <1>1, <1>2 DEF Ordered
  <2>2. \A f \in Range(out') : Carries(f) => con'[f.port].st \notin {"none", "syn"}
    BY <1>1, <1>2 DEF Ordered
  <2>3. ASSUME NEW i \in DOMAIN out', NEW j \in DOMAIN out', i < j, Carries(out'[i]),
               "syn" \in out'[j].fl
        PROVE  out'[i].port # out'[j].port
    <3>1. i + 1 < j + 1
      BY <1>3, <2>3
    <3> QED
      BY <1>1, <1>4, <2>3, <3>1 DEF Ordered
  <2> QED
    BY <2>1, <2>2, <2>3 DEF Ordered, Carries
<1>6. \A r \in Ports : Opening(r)' => Opening(r)
  BY <1>2 DEF Opening
<1>7. ASSUME NEW r, Carries(Head(out)), r = Head(out).port, Opening(r)'
      PROVE  FALSE
  <2>1. con[r].st \notin {"none", "syn"}
    BY <1>1, <1>2, <1>7 DEF Ordered
  <2>2. PICK f \in Range(out') : f.port = r /\ "syn" \in f.fl
    BY <1>7, <2>1 DEF Opening
  <2>3. PICK i \in 1 .. Len(out') : f = out'[i]
    <3> DEFINE q == out'
    <3>1. q \in Seq(Segments) /\ f \in Range(q)
      BY <1>2, <2>2
    <3> HIDE DEF q
    <3>2. \E i \in 1 .. Len(q) : f = q[i]
      BY <3>1, RangeOf
    <3> QED
      BY <3>2 DEF q
  <2>4. i \in DOMAIN out' /\ 1 \in DOMAIN out /\ 1 < i + 1
    BY <1>1, <1>2, <1>3, <2>3
  <2>5. i + 1 \in DOMAIN out /\ f = out[i + 1]
    BY <1>4, <2>3, <2>4
  <2> QED
    BY <1>1, <1>2, <1>7, <2>2, <2>4, <2>5 DEF Ordered
<1>8. Len(out') <= OutLen
  BY <1>1, <1>2, Numbers
<1> QED
  BY <1>2, <1>5, <1>6, <1>7, <1>8

LEMMA OutStays ==
  ASSUME IInv, out' = out, con' = con
  PROVE  /\ out' \in Seq(Segments) /\ Len(out') <= OutLen
         /\ Ordered' /\ \A r \in Ports : Opening(r)' => Opening(r)
  BY DEF IInv, Types, Opens, Ordered, Opening, Carries

LEMMA BeginType ==
  ASSUME NEW at \in {"sockets", "timers"}, NEW r \in LoopType, Begin(at, r)
  PROVE  loop' \in LoopType
<1> DEFINE slots == {s \in Slots : tcp'[s].used}
<1>1. slots \subseteq Slots /\ (loop' = Selecting \/ loop' = [r EXCEPT !.at = at, !.todo = slots])
  BY DEF Begin
<1> HIDE DEF slots
<1>2. Selecting \in LoopType
  BY DEF LoopType, Selecting
<1>3. [r EXCEPT !.at = at, !.todo = slots] \in LoopType
  <2>1. at \in {"select", "frames", "sockets", "timers"} /\ slots \in SUBSET Slots
    BY <1>1
  <2> QED
    BY <2>1 DEF LoopType
<1> QED
  BY <1>1, <1>2, <1>3

LEMMA OnwardType ==
  ASSUME loop \in LoopType, Onward
  PROVE  loop' \in LoopType
<1>1. Selecting \in LoopType
  BY DEF LoopType, Selecting
<1>2. CASE loop' = [loop EXCEPT !.todo = @ \ {Min(@)}]
  <2> DEFINE m == Min(loop.todo)
  <2>1. loop' = [loop EXCEPT !.todo = loop.todo \ {m}]
    BY <1>2
  <2> HIDE DEF m
  <2> QED
    BY <2>1 DEF LoopType
<1>3. CASE Begin("timers", Selecting)
  BY <1>1, <1>3, BeginType
<1>4. CASE loop' = Selecting
  BY <1>1, <1>4
<1> QED
  BY <1>2, <1>3, <1>4 DEF Onward

\* The router's thread moves on without touching a connection.
LEMMA Standing ==
  ASSUME IInv, UNCHANGED <<con, host, out, in, tcp>>, loop' \in LoopType
  PROVE  IInv'
<1>1. Types'
  BY DEF IInv, Types, Room, Fits
<1>2. OneEach'
  BY DEF IInv, OneEach
<1>3. ASSUME NEW s \in Slots, tcp'[s].used
      PROVE  Honest(s)'
  <2>1. Honest(s)
    BY <1>3 DEF IInv
  <2>2. Taking(tcp[s], host[tcp[s].port])' = Taking(tcp[s], host[tcp[s].port])
    BY DEF Taking
  <2> QED
    BY <2>1, <2>2 DEF Honest, Tells
<1>4. Opens'
  BY DEF IInv, Opens, Ordered, Opening, Anew, SlotsOf, Carries, Tells
<1> QED
  BY <1>1, <1>2, <1>3, <1>4 DEF IInv

LEMMA SelectKeeps ==
  ASSUME IInv, Select
  PROVE  IInv'
<1>1. loop' \in LoopType
  <2>1. PICK rds, wrs : /\ rds \subseteq {tcp[s].sock : s \in {t \in Slots : tcp[t].used}}
                    /\ wrs \subseteq {tcp[s].sock : s \in {t \in Slots : tcp[t].used}}
                    /\ loop' = [at |-> "frames", todo |-> {}, rd |-> rds, wr |-> wrs]
    BY DEF Select
  <2>2. \A s \in Slots : tcp[s].used => tcp[s].sock \in Socks
    BY DEF IInv, Types, Fits
  <2> QED
    BY <2>1, <2>2 DEF LoopType
<1> QED
  BY <1>1, Standing DEF Select, peerVars

LEMMA FramesDoneKeeps ==
  ASSUME IInv, FramesDone
  PROVE  IInv'
<1>1. loop' \in LoopType
  BY BeginType DEF FramesDone, IInv, Types
<1> QED
  BY <1>1, Standing DEF FramesDone, peerVars

LEMMA ResetIs ==
  ASSUME NEW q \in Seq(Segments), Len(q) <= InLen, NEW f \in Segments
  PROVE  /\ ResetFor(q, f) \in Seq(Segments) /\ Len(ResetFor(q, f)) <= InLen
         /\ \A g \in Range(ResetFor(q, f)) : g \in Range(q) \/ "rst" \in g.fl
<1> DEFINE n == Len(f.data) + Cardinality(f.fl \cap {"syn", "fin"})
           g == [port |-> f.port, fl |-> IF "ack" \in f.fl THEN {"rst"} ELSE {"rst", "ack"},
                 seq |-> IF "ack" \in f.fl THEN f.ack ELSE 0,
                 ack |-> IF "ack" \in f.fl THEN 0 ELSE Plus(f.seq, n),
                 wnd |-> 0, data |-> <<>>]
<1>1. f.port \in Ports /\ f.ack \in Seqs /\ f.seq \in Int /\ Len(f.data) \in Nat /\ 0 \in Seqs
  BY SeqsAre, PeersAssumption DEF Segments, Seqs
<1>2. n \in Int
  <2> DEFINE S == f.fl \cap {"syn", "fin"}
  <2> DEFINE E == {} \cup {"syn"} \cup {"fin"}
  <2>1. IsFiniteSet(E)
    BY FS_EmptySet, FS_AddElement
  <2>2. S \subseteq E
    OBVIOUS
  <2> HIDE DEF S, E
  <2>3. Cardinality(S) \in Nat
    BY <2>1, <2>2, FS_Subset, FS_CardinalityType
  <2> QED
    BY <1>1, <2>3 DEF S
<1> HIDE DEF n
<1>3. Plus(f.seq, n) \in Seqs
  BY <1>1, <1>2, SeqType
<1>4. g \in Segments /\ "rst" \in g.fl
  BY <1>1, <1>3 DEF Segments
<1>5. ResetFor(q, f) = IF "rst" \in f.fl THEN q ELSE deliver(q, g)
  BY DEF ResetFor, n
<1> HIDE DEF g
<1>6. /\ deliver(q, g) \in Seq(Segments) /\ Len(deliver(q, g)) <= InLen
      /\ Range(deliver(q, g)) \subseteq Range(q) \cup {g}
  BY <1>4, DeliverIs
<1>7. CASE "rst" \in f.fl
  BY <1>5, <1>7
<1>8. CASE "rst" \notin f.fl
  BY <1>4, <1>5, <1>6, <1>8
<1> QED
  BY <1>7, <1>8

\* The refused segment is answered with a reset, which acknowledges nothing.
LEMMA RefusedKeeps ==
  ASSUME IInv, out # <<>>, NEW f, f = Head(out), Takes(f), Refused(f)
  PROVE  IInv'
<1>1. /\ out' = Tail(out) /\ UNCHANGED <<con, loop, tcp, host>> /\ in' = ResetFor(in, f)
  BY DEF Takes, Refused
<1>2. /\ f \in Segments /\ out' \in Seq(Segments) /\ Len(out') <= OutLen
      /\ Ordered' /\ \A r \in Ports : Opening(r)' => Opening(r)
  BY <1>1, OutShrinks
<1>3. /\ in' \in Seq(Segments) /\ Len(in') <= InLen
      /\ \A g \in Range(in') : g \in Range(in) \/ "rst" \in g.fl
  BY <1>1, <1>2, ResetIs DEF IInv, Types
<1>4. Types'
  BY <1>1, <1>2, <1>3 DEF IInv, Types, Room, Fits
<1>5. OneEach'
  BY <1>1 DEF IInv, OneEach
<1>6. ASSUME NEW s \in Slots, tcp'[s].used
      PROVE  Honest(s)'
  <2>1. Honest(s)
    BY <1>1, <1>6 DEF IInv
  <2> QED
    BY <1>1, <1>3, <2>1 DEF Honest, Taking, Tells
<1>7. \A r \in Ports : Opening(r)' => Anew(r)'
  BY <1>1, <1>2, <1>3 DEF IInv, Opens, Anew, SlotsOf, Tells
<1> QED
  BY <1>2, <1>4, <1>5, <1>6, <1>7 DEF IInv, Opens

LEMMA LeastOf ==
  ASSUME NEW S, S \subseteq Nat, S # {}
  PROVE  Min(S) \in S
<1> DEFINE Less == {ss \in Nat \X Nat : ss[1] < ss[2]}
<1>1. IsWellFoundedOn(Less, Nat)
  BY NatLessThanWellFounded DEF OpToRel
<1> HIDE DEF Less
<1>2. PICK i \in S : \A j \in S : <<j, i>> \notin Less
  BY <1>1, WFMin
<1>3. ASSUME NEW j \in S  PROVE i <= j
  <2> DEFINE pair == <<j, i>>
  <2>1. pair \in Nat \X Nat /\ pair[1] = j /\ pair[2] = i
    OBVIOUS
  <2>2. pair \notin Less
    BY <1>2
  <2> HIDE DEF pair
  <2> QED
    BY <2>1, <2>2 DEF Less
<1> QED
  BY <1>3 DEF Min

LEMMA OpenKeeps ==
  ASSUME IInv, out # <<>>, NEW f, f = Head(out), tcp_open(f)
  PROVE  IInv'
<1> DEFINE p == f.port
<1>1. /\ out' = Tail(out) /\ UNCHANGED <<con, loop, in>>
      /\ SlotsOf(p) = {} /\ f.fl = {"syn"} /\ FreeSlots # {}
      /\ host' = [host EXCEPT ![p] = [NoHost EXCEPT !.st = "connecting"]]
  BY DEF tcp_open, Takes
<1>2. /\ f \in Segments /\ f \in Range(out) /\ out' \in Seq(Segments) /\ Len(out') <= OutLen
      /\ Ordered' /\ \A r \in Ports : Opening(r)' => Opening(r)
  BY <1>1, OutShrinks
<1>3. p \in Ports /\ f.seq \in Int /\ f.wnd \in Nat
  BY <1>2, SeqsAre DEF Segments
<1>4. Opening(p) /\ f.seq = Plus(ConIss, 0)
  BY <1>1, <1>2 DEF Opening, IInv, Opens, Ordered
<1>5. Anew(p)
  BY <1>3, <1>4 DEF IInv, Opens
<1>6. PICK s : s = Min(FreeSlots)
  OBVIOUS
<1>7. s \in Slots /\ ~tcp[s].used
  <2>1. FreeSlots \subseteq Nat
    BY Numbers DEF FreeSlots, Slots
  <2> QED
    BY <1>1, <1>6, <2>1, LeastOf DEF FreeSlots
<1>8. PICK iss \in Iss, sock \in Socks :
        tcp' = [tcp EXCEPT ![s] =
                 [FreeTcp EXCEPT !.used = TRUE, !.connecting = TRUE, !.sock = sock,
                                 !.port = p, !.iss = iss, !.una = iss, !.nxt = iss,
                                 !.tx_seq = Plus(iss, 1), !.rcv_nxt = Plus(f.seq, 1),
                                 !.wnd = f.wnd]]
  BY ZenonT(40), <1>6 DEF tcp_open
<1> DEFINE c == [FreeTcp EXCEPT !.used = TRUE, !.connecting = TRUE, !.sock = sock,
                                 !.port = p, !.iss = iss, !.una = iss, !.nxt = iss,
                                 !.tx_seq = Plus(iss, 1), !.rcv_nxt = Plus(f.seq, 1),
                                 !.wnd = f.wnd]
           h == [NoHost EXCEPT !.st = "connecting"]
<1>9. /\ c \in TcpType /\ Fits(c) /\ c.used /\ c.port = p /\ c.rx = <<>> /\ ~c.console_fin
      /\ c.rcv_nxt = Plus(f.seq, 1)
  <2>1. iss \in Seqs /\ Plus(iss, 1) \in Seqs /\ Plus(f.seq, 1) \in Seqs
    <3>1. iss \in Seqs
      BY Numbers
    <3>2. iss \in Int
      BY <3>1, SeqsAre
    <3> QED
      BY <1>3, <3>1, <3>2, SeqType
  <2>2. sock \in Nat
    BY Numbers DEF Socks
  <2>3. FreeTcp \in TcpType /\ FreeTcp.tx = <<>> /\ FreeTcp.rx = <<>> /\ ~FreeTcp.console_fin
    BY FreeType DEF FreeTcp
  <2>4. c \in TcpType
    <3> DEFINE first == Plus(iss, 1)
               next == Plus(f.seq, 1)
               d == [FreeTcp EXCEPT !.used = TRUE, !.connecting = TRUE, !.sock = sock, !.port = p]
               e == [d EXCEPT !.iss = iss, !.una = iss, !.nxt = iss]
    <3>1. d \in TcpType
      BY <1>3, <2>2, <2>3 DEF TcpType
    <3>2. c = [e EXCEPT !.tx_seq = first, !.rcv_nxt = next, !.wnd = f.wnd]
      BY <2>3 DEF TcpType
    <3> HIDE DEF c, d, first, next
    <3>3. e \in TcpType
      BY <2>1, <3>1 DEF TcpType
    <3>4. first \in Seqs /\ next \in Seqs
      BY <2>1 DEF first, next
    <3> HIDE DEF e
    <3> QED
      BY <1>3, <3>2, <3>3, <3>4 DEF TcpType
  <2>5. /\ c.used /\ c.port = p /\ c.sock = sock /\ c.rx = <<>> /\ c.tx = <<>> /\ ~c.console_fin
        /\ c.rcv_nxt = Plus(f.seq, 1)
    BY <2>3 DEF TcpType
  <2> HIDE DEF c
  <2> QED
    BY <1>3, <2>4, <2>5, Numbers DEF Fits
<1>10. h \in HostType /\ h.got = <<>>
  <2>1. NoHost \in HostType /\ NoHost.got = <<>>
    BY DEF HostType, NoHost, Bytes
  <2> QED
    BY <2>1 DEF HostType
<1>11. c.rcv_nxt = Plus(ConIss, 1 + 0)
  <2>1. ConIss \in Int
    BY Numbers, SeqsAre
  <2>2. Plus(Plus(ConIss, 0), 1) = Plus(ConIss, 0 + 1)
    BY <2>1, PlusPlus
  <2> QED
    BY <1>4, <1>9, <2>2
<1>12. tcp' = [tcp EXCEPT ![s] = c] /\ host' = [host EXCEPT ![p] = h]
  BY <1>1, <1>8
<1> HIDE DEF c, h
<1>13. /\ tcp'[s] = c /\ \A t \in Slots \ {s} : tcp'[t] = tcp[t]
       /\ host'[p] = h /\ \A r \in Ports \ {p} : host'[r] = host[r]
       /\ tcp' \in [Slots -> TcpType] /\ host' \in [Ports -> HostType]
  BY <1>3, <1>7, <1>9, <1>10, <1>12 DEF IInv, Types
<1>14. \A t \in Slots : t # s /\ tcp'[t].used => tcp[t].used /\ tcp'[t].port # p
  BY <1>1, <1>13 DEF SlotsOf
<1>15. Types'
  <2>1. \A t \in Slots : Fits(tcp[t])'
    BY <1>9, <1>13 DEF Fits, IInv, Types
  <2>2. \A r \in Ports : (con[r].read <= Len(con[r].got) /\ Room(con[r]) >= 0)'
    BY <1>1 DEF IInv, Types, Room
  <2> QED
    BY <1>1, <1>2, <1>13, <2>1, <2>2 DEF IInv, Types
<1>16. OneEach'
  BY <1>9, <1>13, <1>14 DEF IInv, OneEach
<1>17. ASSUME NEW t \in Slots, tcp'[t].used
       PROVE  Honest(t)'
  <2>1. CASE t = s
    <3>1. Taking(c, h) = 0
      BY <1>9, <1>10, TakingIs
    <3>2. Taking(tcp[t], host[tcp[t].port])' = 0
      BY <1>9, <1>13, <2>1, <3>1 DEF Taking
    <3>3. con'[p].acked = 0 /\ \A g \in Range(in') : g.port = p => Tells(g, 0)
      BY <1>1, <1>5 DEF Anew
    <3> QED
      BY <1>9, <1>11, <1>13, <2>1, <3>2, <3>3 DEF Honest, Tells
  <2>2. CASE t # s
    <3>1. tcp'[t] = tcp[t] /\ tcp[t].used /\ tcp[t].port # p /\ tcp[t].port \in Ports
      BY <1>13, <1>14, <1>17, <2>2 DEF IInv, Types, Fits
    <3>2. host'[tcp[t].port] = host[tcp[t].port] /\ Honest(t)
      BY <1>13, <3>1 DEF IInv
    <3>3. Taking(tcp[t], host[tcp[t].port])' = Taking(tcp[t], host[tcp[t].port])
      BY <3>1, <3>2 DEF Taking
    <3> QED
      BY <1>1, <3>1, <3>2, <3>3 DEF Honest, Tells
  <2> QED
    BY <2>1, <2>2
<1>18. ASSUME NEW r \in Ports, Opening(r)'
       PROVE  Anew(r)'
  <2>1. Anew(r)
    BY <1>2, <1>18 DEF IInv, Opens
  <2>2. host'[r].got = <<>>
    BY <1>10, <1>13, <2>1 DEF Anew
  <2>3. \A t \in Slots : tcp'[t].used /\ tcp'[t].port = r
                        => tcp'[t].rx = <<>> /\ ~tcp'[t].console_fin
    BY <1>9, <1>13, <2>1 DEF Anew, SlotsOf
  <2> QED
    BY <1>1, <2>1, <2>2, <2>3 DEF Anew, SlotsOf, Tells
<1> QED
  BY <1>2, <1>15, <1>16, <1>17, <1>18 DEF IInv, Opens

\* A frame's handler has taken nothing of the stream, or the frame brought it.
LEMMA FrameHandled ==
  ASSUME IInv, out # <<>>, NEW f, f = Head(out), Takes(f), NEW s \in SlotsOf(f.port),
         NEW b \in Nat, Taking(tcp[s], host[tcp[s].port]) <= b,
         b = Taking(tcp[s], host[tcp[s].port]) \/ Carries(f),
         NEW v, InHand(v, tcp[s].port, b), Handled(s, v)
  PROVE  IInv'
<1>1. s \in Slots /\ tcp[s].used /\ tcp[s].port = f.port
  BY DEF SlotsOf
<1>2. out' = Tail(out) /\ con' = con /\ loop' = loop /\ loop \in LoopType
  BY DEF Takes, IInv, Types
<1>3. /\ out' \in Seq(Segments) /\ Len(out') <= OutLen
      /\ Ordered' /\ \A r \in Ports : Opening(r)' => Opening(r)
      /\ \A r : Carries(f) /\ r = f.port => ~Opening(r)'
  BY <1>2, OutShrinks
<1>4. PICK p, a : /\ p = tcp[s].port /\ a = Taking(tcp[s], host[p])
                  /\ InHand(v, p, b) /\ a <= b /\ (b = a \/ Carries(f))
  OBVIOUS
<1>5. b = a \/ ~Opening(p)'
  BY <1>1, <1>3, <1>4
<1> QED
  BY <1>1, <1>2, <1>3, <1>4, <1>5, PutBack

LEMMA InResetKeeps ==
  ASSUME IInv, out # <<>>, NEW s \in Slots, InReset(s, Head(out))
  PROVE  IInv'
<1> DEFINE v == tcp_close(Work(s))
<1>1. /\ Takes(Head(out)) /\ s \in SlotsOf(Head(out).port) /\ tcp[s].used
      /\ Handled(s, v)
  BY DEF InReset, SlotsOf
<1>2. /\ Taking(tcp[s], host[tcp[s].port]) \in Nat
      /\ InHand(Work(s), tcp[s].port, Taking(tcp[s], host[tcp[s].port]))
  BY <1>1, TakenInHand
<1>3. InHand(v, tcp[s].port, Taking(tcp[s], host[tcp[s].port]))
  BY <1>2, Closed
<1> HIDE DEF v
<1> QED
  BY <1>1, <1>2, <1>3, FrameHandled

LEMMA InSynAgainKeeps ==
  ASSUME IInv, out # <<>>, NEW s \in Slots, InSynAgain(s, Head(out))
  PROVE  IInv'
<1> DEFINE w == Work(s)
           u == [w EXCEPT !.c.nxt = w.c.iss]
           v == IF tcp[s].connecting \/ tcp[s].syn_acked THEN w ELSE tcp_pump(u)
<1>1. /\ Takes(Head(out)) /\ s \in SlotsOf(Head(out).port) /\ tcp[s].used
      /\ Handled(s, v)
  BY DEF InSynAgain, SlotsOf, Work
<1>2. PICK p \in Ports, a \in Nat : p = tcp[s].port /\ a = Taking(tcp[s], host[p])
                                    /\ InHand(w, p, a) /\ w.c.used
  BY <1>1, TakenInHand
<1>3. /\ u \in Works /\ Fits(u.c) /\ u.q = w.q /\ u.c.used = w.c.used
      /\ u.c.port = w.c.port /\ u.c.rcv_nxt = w.c.rcv_nxt /\ u.c.rx = w.c.rx
      /\ u.c.console_fin = w.c.console_fin /\ u.h.got = w.h.got
  <2>1. w \in Works /\ Fits(w.c)
    BY <1>2 DEF InHand
  <2> HIDE DEF w
  <2> QED
    BY <2>1 DEF Works, TcpType, Fits
<1> HIDE DEF w, u
<1>4. InHand(u, p, a) /\ u.c.used
  BY <1>2, <1>3, Otherwise
<1>5. InHand(v, p, a)
  BY <1>2, <1>4, PumpKeeps
<1> HIDE DEF v
<1> QED
  BY <1>1, <1>2, <1>5, FrameHandled

LEMMA InWhileConnectingKeeps ==
  ASSUME IInv, out # <<>>, NEW s \in Slots, InWhileConnecting(s, Head(out))
  PROVE  IInv'
<1>1. /\ Takes(Head(out)) /\ s \in SlotsOf(Head(out).port) /\ tcp[s].used
      /\ Handled(s, Work(s))
  BY DEF InWhileConnecting, SlotsOf
<1> QED
  BY <1>1, TakenInHand, FrameHandled

LEMMA InSegmentKeeps ==
  ASSUME IInv, out # <<>>, NEW s \in Slots, InSegment(s, Head(out))
  PROVE  IInv'
<1> DEFINE f == Head(out)
           acked == [Work(s) EXCEPT !.c = Acknowledged(@, f)]
           taken == [acked EXCEPT !.c = Received(@, f)]
           told == tcp_segment(taken, taken.c.nxt, {"ack"}, <<>>)
<1>1. /\ Takes(f) /\ s \in SlotsOf(f.port) /\ tcp[s].used /\ out' = Tail(out) /\ con' = con
  BY DEF InSegment, SlotsOf, Takes
<1>2. f \in Segments
  BY <1>1, OutShrinks
<1>3. PICK p \in Ports, a \in Nat : p = tcp[s].port /\ a = Taking(tcp[s], host[p])
                                    /\ InHand(Work(s), p, a) /\ Work(s).c.used
  BY <1>1, TakenInHand
<1>4. InHand(acked, p, a) /\ acked.c.used
  BY <1>2, <1>3, AcknowledgedKeeps
<1>5. IF f.data = <<>> /\ "fin" \notin f.fl THEN Handled(s, Finished(acked))
      ELSE \E w \in tcp_flush_rx(told) : Handled(s, IF w.c.used THEN Finished(w) ELSE w)
  BY DEF InSegment
<1> HIDE DEF f, acked
<1>6. PICK b \in Nat : /\ a <= b /\ InHand(taken, p, b) /\ taken.c.used
                       /\ ~Carries(f) => b = a
  BY ZenonT(40), <1>2, <1>4, ReceivedKeeps
<1> HIDE DEF taken
<1>7. InHand(told, p, b) /\ told.c.used
  <2>1. taken.c.nxt \in Seqs /\ <<>> \in Bytes
    BY <1>6 DEF InHand, Works, TcpType, Bytes
  <2> QED
    BY <1>6, <2>1, SegmentSent
<1> HIDE DEF told
<1>8. CASE f.data = <<>> /\ "fin" \notin f.fl
  <2>1. InHand(Finished(acked), p, a) /\ Handled(s, Finished(acked))
    BY <1>4, <1>5, <1>8, FinishedKeeps
  <2> QED
    BY <1>1, <1>3, <2>1, FrameHandled DEF f
<1>9. CASE ~(f.data = <<>> /\ "fin" \notin f.fl)
  <2>1. PICK w \in tcp_flush_rx(told) : Handled(s, IF w.c.used THEN Finished(w) ELSE w)
    BY <1>5, <1>9
  <2>2. InHand(w, p, b)
    BY <1>7, FlushKeeps
  <2> DEFINE v == IF w.c.used THEN Finished(w) ELSE w
  <2>3. InHand(v, p, b) /\ Handled(s, v)
    BY <2>1, <2>2, FinishedKeeps
  <2>4. Carries(f)
    BY <1>9 DEF Carries
  <2> HIDE DEF v
  <2> QED
    BY <1>1, <1>3, <1>6, <2>3, <2>4, FrameHandled DEF f
<1> QED
  BY <1>8, <1>9

\* Between frames, the rest of a pass.
LEMMA SlotHandled ==
  ASSUME IInv, NEW s \in Slots, tcp[s].used, UNCHANGED <<con, out>>, Onward,
         NEW v, InHand(v, tcp[s].port, Taking(tcp[s], host[tcp[s].port])), Handled(s, v)
  PROVE  IInv'
<1>1. loop' \in LoopType
  BY OnwardType DEF IInv, Types
<1>2. /\ out' \in Seq(Segments) /\ Len(out') <= OutLen
      /\ Ordered' /\ \A r \in Ports : Opening(r)' => Opening(r)
  BY OutStays
<1>3. PICK p, a : p = tcp[s].port /\ a = Taking(tcp[s], host[p])
  OBVIOUS
<1>4. a \in Nat /\ a <= a /\ InHand(v, p, a)
  BY <1>3, TakenInHand
<1> QED
  BY <1>1, <1>2, <1>3, <1>4, PutBack

LEMMA ServiceKeeps ==
  ASSUME IInv, NEW s \in Slots, tcp_service(s)
  PROVE  IInv'
<1>1. UNCHANGED <<con, out>> /\ Onward /\ loop \in LoopType
  BY DEF tcp_service, NextSlot, IInv, Types
<1>2. CASE tcp[s].used
  <2> DEFINE rd == tcp[s].sock \in loop.rd
             wr == tcp[s].sock \in loop.wr
  <2>0. rd \in BOOLEAN /\ wr \in BOOLEAN /\ \E w \in Services(Work(s), rd, wr) : Handled(s, w)
    BY <1>2 DEF tcp_service
  <2> HIDE DEF rd, wr
  <2>1. PICK r \in BOOLEAN, x \in BOOLEAN : \E w \in Services(Work(s), r, x) : Handled(s, w)
    BY <2>0
  <2>2. PICK w \in Services(Work(s), r, x) : Handled(s, w)
    BY <2>1
  <2>3. InHand(w, tcp[s].port, Taking(tcp[s], host[tcp[s].port]))
    BY <1>2, <2>2, TakenInHand, ServicesKeeps
  <2> QED
    BY <1>1, <1>2, <2>2, <2>3, SlotHandled
<1>3. CASE ~tcp[s].used
  <2>1. UNCHANGED <<con, host, out, in, tcp>>
    BY <1>1, <1>3 DEF tcp_service
  <2> QED
    BY <1>1, <2>1, OnwardType, Standing
<1> QED
  BY <1>2, <1>3

LEMMA TimersKeeps ==
  ASSUME IInv, NEW s \in Slots, tcp_timers(s)
  PROVE  IInv'
<1>1. UNCHANGED <<con, out>> /\ Onward /\ loop \in LoopType
  BY DEF tcp_timers, GoBack, Idle, NextSlot, IInv, Types
<1>2. CASE GoBack(s)
  <2> DEFINE w == Work(s)
             u == [w EXCEPT !.c.nxt = tcp[s].una,
                            !.c.fin_sent = @ /\ tcp[s].una # tcp[s].fin_seq]
             v == tcp_pump(u)
  <2>1. tcp[s].used /\ Handled(s, v)
    BY <1>2 DEF GoBack
  <2>2. PICK p \in Ports, a \in Nat : p = tcp[s].port /\ a = Taking(tcp[s], host[p])
                                      /\ InHand(w, p, a) /\ w.c.used /\ w.c = tcp[s]
    BY <2>1, TakenInHand
  <2> DEFINE sent == w.c.fin_sent /\ tcp[s].una # tcp[s].fin_seq
  <2>3. tcp[s].una \in Seqs /\ sent \in BOOLEAN /\ w \in Works /\ Fits(w.c)
    BY <2>2 DEF InHand, Works, TcpType
  <2>4. u = [w EXCEPT !.c = [w.c EXCEPT !.nxt = tcp[s].una, !.fin_sent = sent]]
    OBVIOUS
  <2> HIDE DEF w, u, sent
  <2>5. /\ u \in Works /\ Fits(u.c) /\ u.q = w.q /\ u.c.used = w.c.used
        /\ u.c.port = w.c.port /\ u.c.rcv_nxt = w.c.rcv_nxt /\ u.c.rx = w.c.rx
        /\ u.c.console_fin = w.c.console_fin /\ u.h.got = w.h.got
    BY <2>3, <2>4 DEF Works, TcpType, Fits
  <2>6. InHand(u, p, a) /\ u.c.used
    BY <2>2, <2>5, Otherwise
  <2>7. InHand(v, p, a)
    BY <2>6, PumpKeeps
  <2> HIDE DEF v
  <2> QED
    BY <1>1, <2>1, <2>2, <2>7, SlotHandled
<1>3. CASE Idle(s)
  <2>1. tcp[s].used /\ Handled(s, tcp_abort(Work(s)))
    BY <1>3 DEF Idle
  <2>2. InHand(tcp_abort(Work(s)), tcp[s].port, Taking(tcp[s], host[tcp[s].port]))
    BY <2>1, TakenInHand, Aborted
  <2> QED
    BY <1>1, <2>1, <2>2, SlotHandled
<1>4. CASE UNCHANGED <<tcp, in, host>>
  BY <1>1, <1>4, OnwardType, Standing
<1> QED
  BY <1>2, <1>3, <1>4 DEF tcp_timers

LEMMA RouterKeeps ==
  ASSUME IInv, router_thread
  PROVE  IInv'
<1>1. CASE out # <<>> /\ tcp_in(Head(out))
  <2>1. CASE InUnknown(Head(out)) \/ InRefused(Head(out))
    BY <1>1, <2>1, RefusedKeeps DEF InUnknown, InRefused
  <2>2. CASE tcp_open(Head(out))
    BY <1>1, <2>2, OpenKeeps
  <2>3. ASSUME NEW s \in Slots, \/ InReset(s, Head(out)) \/ InSynAgain(s, Head(out))
                                \/ InWhileConnecting(s, Head(out)) \/ InSegment(s, Head(out))
        PROVE  IInv'
    BY <1>1, <2>3, InResetKeeps, InSynAgainKeeps, InWhileConnectingKeeps, InSegmentKeeps
  <2> QED
    BY <1>1, <2>1, <2>2, <2>3 DEF tcp_in
<1> QED
  BY <1>1, SelectKeeps, FramesDoneKeeps, ServiceKeeps, TimersKeeps DEF router_thread

---------------------------------------------------------------------------
(* The console's steps *)

Sound(c) == c \in ConType /\ c.read <= Len(c.got) /\ Room(c) >= 0
Early(c) == c.st \in {"none", "syn"}

LEMMA ExpectsType ==
  ASSUME NEW c \in ConType
  PROVE  Expects(c) \in Seqs
<1>1. c.riss \in Int /\ Len(c.got) \in Nat
  BY SeqsAre DEF ConType, Bytes
<1> DEFINE n == 1 + Len(c.got) + (IF c.fin THEN 1 ELSE 0)
<1>2. n \in Int
  BY <1>1
<1> HIDE DEF n
<1>3. Plus(c.riss, n) \in Seqs
  BY <1>1, <1>2, SeqType
<1> QED
  BY <1>3 DEF Expects, n

LEMMA SpeakType ==
  ASSUME NEW p \in Ports, NEW c, Sound(c), NEW k \in Nat,
         NEW fl \in SUBSET {"syn", "ack", "fin", "rst"}, NEW data \in Bytes
  PROVE  /\ Speak(p, c, k, fl, data) \in Segments
         /\ Speak(p, c, k, fl, data).port = p /\ Speak(p, c, k, fl, data).fl = fl
         /\ Speak(p, c, k, fl, data).seq = Plus(ConIss, k)
         /\ Speak(p, c, k, fl, data).data = data
<1> DEFINE a == IF "ack" \in fl THEN Expects(c) ELSE 0
<1>1. ConIss \in Int /\ 0 \in Seqs
  BY Numbers, SeqsAre, PeersAssumption DEF Seqs
<1>2. a \in Seqs
  BY <1>1, ExpectsType DEF Sound
<1>3. Plus(ConIss, k) \in Seqs
  BY <1>1, SeqType
<1>4. Room(c) \in Nat
  <2>1. ConBuf \in Int /\ Len(c.got) \in Int /\ c.read \in Int
    BY Numbers DEF Sound, ConType, Bytes
  <2> QED
    BY <2>1 DEF Sound, Room
<1>5. Speak(p, c, k, fl, data) =
        [port |-> p, fl |-> fl, seq |-> Plus(ConIss, k), ack |-> a, wnd |-> Room(c), data |-> data]
  BY DEF Speak
<1> HIDE DEF a
<1> QED
  BY <1>2, <1>3, <1>4, <1>5 DEF Segments, Bytes

\* What the console may queue: a SYN while it is early, bytes and ends afterwards.
LEMMA QueuedOrdered ==
  ASSUME IInv, NEW g \in Segments, out' = out \/ out' = Queued(out, g),
         "syn" \in g.fl => g.fl = {"syn"} /\ g.seq = Plus(ConIss, 0) /\ Early(con[g.port]),
         Carries(g) => ~Early(con'[g.port]),
         \A q \in Ports : ~Early(con[q]) => ~Early(con'[q])
  PROVE  /\ out' \in Seq(Segments) /\ Len(out') <= OutLen
         /\ Ordered' /\ \A r \in Ports : Opening(r)' => Opening(r)
<1>1. out \in Seq(Segments) /\ Len(out) <= OutLen /\ Ordered
  BY DEF IInv, Types, Opens
<1>2. /\ out' \in Seq(Segments) /\ Len(out') <= OutLen
      /\ Range(out') \subseteq Range(out) \cup {g}
      /\ \A i \in DOMAIN out' : \/ i \in DOMAIN out /\ out'[i] = out[i]
                                \/ out'[i] = g /\ i = Len(out) + 1
  <2>1. CASE out' = out
    BY <1>1, <2>1
  <2>2. CASE out' = Queued(out, g)
    <3> DEFINE q == Queued(out, g)
    <3>1. /\ q \in Seq(Segments) /\ Len(q) <= OutLen /\ Range(q) \subseteq Range(out) \cup {g}
          /\ \A i \in DOMAIN q :
               \/ i \in DOMAIN out /\ q[i] = out[i]
               \/ q[i] = g /\ i = Len(out) + 1
      BY <1>1, QueuedIs
    <3>2. out' = q
      BY <2>2
    <3> HIDE DEF q
    <3> QED
      BY <3>1, <3>2
  <2> QED
    BY <2>1, <2>2
<1>3. \A f \in Segments : f.port \in Ports
  BY DEF Segments
<1>4. \A f \in Range(out) : f \in Segments
  BY <1>1, RangeOf
<1>5. \A f \in Range(out') : "syn" \in f.fl => f.fl = {"syn"} /\ f.seq = Plus(ConIss, 0)
  BY <1>1, <1>2 DEF Ordered
<1>6. \A f \in Range(out') : Carries(f) => con'[f.port].st \notin {"none", "syn"}
  BY <1>1, <1>2, <1>3, <1>4 DEF Ordered, Early
<1>7. ASSUME NEW i \in DOMAIN out', NEW j \in DOMAIN out', i < j, Carries(out'[i]),
             "syn" \in out'[j].fl
      PROVE  out'[i].port # out'[j].port
  <2>1. DOMAIN out = 1 .. Len(out) /\ Len(out) \in Nat
    BY <1>1
  <2>2. CASE i \in DOMAIN out /\ out'[i] = out[i] /\ j \in DOMAIN out /\ out'[j] = out[j]
    BY <1>1, <1>7, <2>2 DEF Ordered
  <2>3. CASE i \in DOMAIN out /\ out'[i] = out[i] /\ out'[j] = g
    <3>1. out[i] \in Range(out)
      BY <1>1, <2>1, <2>3, RangeOf
    <3> QED
      BY <1>1, <1>7, <2>3, <3>1 DEF Ordered, Early
  <2>4. CASE i = Len(out) + 1
    <3>1. j \in 1 .. Len(out) + 1
      BY <1>2, <1>7, <2>1
    <3> QED
      BY <1>7, <2>1, <2>4, <3>1
  <2> QED
    BY <1>2, <2>2, <2>3, <2>4
<1>8. Ordered'
  BY <1>5, <1>6, <1>7 DEF Ordered, Carries
<1>9. ASSUME NEW r \in Ports, Opening(r)'
      PROVE  Opening(r)
  BY <1>2, <1>9 DEF Opening, Early
<1> QED
  BY <1>2, <1>8, <1>9

\* The console hears no more acknowledged than a frame for it tells.
LEMMA ConsoleStep ==
  ASSUME IInv, UNCHANGED <<host, tcp, loop>>,
         NEW p \in Ports, NEW c, Sound(c), con' = [con EXCEPT ![p] = c],
         ~Early(con[p]) => ~Early(c),
         NEW g \in Segments, out' = out \/ out' = Queued(out, g),
         "syn" \in g.fl => g.fl = {"syn"} /\ g.seq = Plus(ConIss, 0) /\ Early(con[g.port]),
         Carries(g) => g.port = p /\ ~Early(c),
         in' \in Seq(Segments), Len(in') <= InLen, Range(in') \subseteq Range(in),
         \/ c.acked = con[p].acked
         \/ \E f \in Range(in) : /\ f.port = p /\ "rst" \notin f.fl
                                 /\ c.acked = Minus(f.ack, Plus(ConIss, 1))
  PROVE  IInv'
<1>1. /\ con \in [Ports -> ConType] /\ con' \in [Ports -> ConType]
      /\ con'[p] = c /\ \A q \in Ports \ {p} : con'[q] = con[q]
  BY DEF IInv, Types, Sound
<1>2. /\ out' \in Seq(Segments) /\ Len(out') <= OutLen
      /\ Ordered' /\ \A r \in Ports : Opening(r)' => Opening(r)
  BY <1>1, QueuedOrdered
<1>3. ASSUME NEW a \in Nat, \A f \in Range(in) : f.port = p => Tells(f, a), con[p].acked <= a
      PROVE  c.acked <= a
  <2>1. CASE c.acked = con[p].acked
    BY <1>3, <2>1
  <2>2. ASSUME NEW f \in Range(in), f.port = p, "rst" \notin f.fl,
               c.acked = Minus(f.ack, Plus(ConIss, 1))
        PROVE  c.acked <= a
    <3>1. PICK b \in 0 .. a : f.ack = Plus(ConIss, 1 + b)
      BY <1>3, <2>2 DEF Tells
    <3>2. ConIss \in Int /\ b \in Nat /\ c.acked \in Int
      BY Numbers, SeqsAre DEF Sound, ConType
    <3>3. Minus(Plus(ConIss, 1 + b), Plus(ConIss, 1)) <= b
      BY <3>2, MinusAtMost
    <3>4. c.acked <= b
      BY <2>2, <3>1, <3>3
    <3> QED
      BY <1>3, <3>1, <3>2, <3>4
  <2> QED
    BY <2>1, <2>2
<1>4. Types'
  <2>1. \A q \in Ports : (con[q].read <= Len(con[q].got) /\ Room(con[q]) >= 0)'
    BY <1>1 DEF IInv, Types, Room, Sound
  <2>2. \A s \in Slots : Fits(tcp[s])'
    BY DEF IInv, Types, Fits
  <2>3. tcp' \in [Slots -> TcpType] /\ host' \in [Ports -> HostType] /\ loop' \in LoopType
    BY DEF IInv, Types
  <2>4. in' \in Seq(Segments) /\ Len(in') <= InLen
    OBVIOUS
  <2>5. con' \in [Ports -> ConType] /\ out' \in Seq(Segments) /\ Len(out') <= OutLen
    BY <1>1, <1>2
  <2> QED
    BY <2>1, <2>2, <2>3, <2>4, <2>5 DEF Types
<1>5. OneEach'
  BY DEF IInv, OneEach
<1>6. ASSUME NEW s \in Slots, tcp'[s].used
      PROVE  Honest(s)'
  <2> DEFINE q == tcp[s].port
             a == Taking(tcp[s], host[q])
  <2>1. Honest(s) /\ tcp[s].used /\ q \in Ports /\ tcp[s] \in TcpType /\ host[q] \in HostType
    BY <1>6 DEF IInv, Types, Fits
  <2>2. a \in Nat
    BY <2>1, TakingIs
  <2>3. /\ con[q].acked <= a /\ \A f \in Range(in) : f.port = q => Tells(f, a)
    BY <2>1 DEF Honest
  <2>4. con'[q].acked <= a
    <3>1. CASE q = p
      BY <1>1, <1>3, <2>2, <2>3, <3>1
    <3>2. CASE q # p
      BY <1>1, <2>1, <2>3, <3>2
    <3> QED
      BY <3>1, <3>2
  <2> QED
    BY <2>1, <2>4 DEF Honest, Taking, Tells
<1>7. ASSUME NEW r \in Ports, Opening(r)'
      PROVE  Anew(r)'
  <2>1. Anew(r)
    BY <1>2, <1>7 DEF IInv, Opens
  <2>2. con'[r].acked = 0
    <3>1. CASE r = p
      <4>1. c.acked <= 0
        BY <1>3, <2>1, <3>1 DEF Anew
      <4>2. c.acked \in Nat
        BY DEF Sound, ConType
      <4> QED
        BY <1>1, <3>1, <4>1, <4>2
    <3>2. CASE r # p
      BY <1>1, <2>1, <3>2 DEF Anew
    <3> QED
      BY <3>1, <3>2
  <2> QED
    BY <2>1, <2>2 DEF Anew, SlotsOf, Tells
<1> QED
  BY <1>2, <1>4, <1>5, <1>6, <1>7 DEF IInv, Opens

LEMMA ConSound ==
  ASSUME IInv, NEW p \in Ports
  PROVE  /\ Sound(con[p]) /\ con[p] \in ConType /\ con \in [Ports -> ConType]
         /\ con[p].got \in Bytes /\ Len(con[p].got) \in Nat
         /\ in \in Seq(Segments) /\ Len(in) <= InLen
  BY DEF IInv, Types, Sound, ConType, Bytes

LEMMA NoConSound == Sound(NoCon)
  BY Numbers, PeersAssumption DEF Sound, NoCon, ConType, Room, Bytes, Seqs

LEMMA SynIs ==
  ASSUME NEW p \in Ports
  PROVE  /\ SynOf(p) \in Segments /\ SynOf(p).port = p /\ SynOf(p).fl = {"syn"}
         /\ SynOf(p).seq = Plus(ConIss, 0) /\ ~Carries(SynOf(p))
<1>1. 0 \in Nat /\ <<>> \in Bytes /\ {"syn"} \in SUBSET {"syn", "ack", "fin", "rst"}
  BY DEF Bytes
<1>2. /\ SynOf(p) \in Segments /\ SynOf(p).port = p /\ SynOf(p).fl = {"syn"}
      /\ SynOf(p).seq = Plus(ConIss, 0) /\ SynOf(p).data = <<>>
  BY <1>1, NoConSound, SpeakType DEF SynOf
<1> QED
  BY <1>2 DEF Carries

LEMMA TitleOpensKeeps ==
  ASSUME IInv, UNCHANGED <<tcp, loop>>, NEW p \in Ports, TitleOpens(p)
  PROVE  IInv'
<1> DEFINE c == [con[p] EXCEPT !.st = "syn"]
           g == SynOf(p)
<1>1. /\ UNCHANGED <<in, host>> /\ con[p].st = "none" /\ con' = [con EXCEPT ![p] = c]
      /\ out' = Queued(out, g)
  BY DEF TitleOpens
<1>2. Sound(c) /\ c.acked = con[p].acked /\ c.st = "syn"
  BY ConSound DEF Sound, ConType, Room
<1>3. /\ g \in Segments /\ g.port = p /\ g.fl = {"syn"} /\ g.seq = Plus(ConIss, 0)
      /\ ~Carries(g)
  BY SynIs
<1> HIDE DEF c, g
<1>4. Early(con[g.port])
  BY <1>1, <1>3 DEF Early
<1> QED
  BY <1>1, <1>2, <1>3, <1>4, ConsoleStep, ConSound DEF Early

\* A word of the console's that is neither SYN nor bytes nor an end.
LEMMA WordIs ==
  ASSUME NEW p \in Ports, NEW c, Sound(c)
  PROVE  /\ AckOf(p, c) \in Segments /\ ~Carries(AckOf(p, c)) /\ "syn" \notin AckOf(p, c).fl
         /\ RstOf(p, c) \in Segments /\ ~Carries(RstOf(p, c)) /\ "syn" \notin RstOf(p, c).fl
<1>1. 1 + c.sent \in Nat /\ <<>> \in Bytes
  BY DEF Sound, ConType, Bytes
<1>2. /\ AckOf(p, c) \in Segments /\ AckOf(p, c).fl = {"ack"} /\ AckOf(p, c).data = <<>>
  BY <1>1, SpeakType DEF AckOf
<1>3. /\ RstOf(p, c) \in Segments /\ RstOf(p, c).fl = {"rst"} /\ RstOf(p, c).data = <<>>
  BY <1>1, SpeakType DEF RstOf
<1> QED
  BY <1>2, <1>3 DEF Carries

\* A step of the console's that queues nothing, or such a word.
LEMMA WordStep ==
  ASSUME IInv, UNCHANGED <<host, tcp, loop>>,
         NEW p \in Ports, NEW c, Sound(c), con' = [con EXCEPT ![p] = c],
         ~Early(con[p]) => ~Early(c),
         \/ out' = out
         \/ \E g \in Segments : out' = Queued(out, g) /\ ~Carries(g) /\ "syn" \notin g.fl,
         in' \in Seq(Segments), Len(in') <= InLen, Range(in') \subseteq Range(in),
         \/ c.acked = con[p].acked
         \/ \E f \in Range(in) : /\ f.port = p /\ "rst" \notin f.fl
                                 /\ c.acked = Minus(f.ack, Plus(ConIss, 1))
  PROVE  IInv'
<1>1. PICK g \in Segments : /\ out' = out \/ out' = Queued(out, g)
                            /\ ~Carries(g) /\ "syn" \notin g.fl
  <2>1. RstOf(p, c) \in Segments /\ ~Carries(RstOf(p, c)) /\ "syn" \notin RstOf(p, c).fl
    BY WordIs
  <2> QED
    BY <2>1
<1> QED
  BY <1>1, ConsoleStep

LEMMA TitleFinishesKeeps ==
  ASSUME IInv, UNCHANGED <<tcp, loop>>, NEW p \in Ports, TitleFinishes(p)
  PROVE  IInv'
<1> DEFINE c == [con[p] EXCEPT !.shut = TRUE]
<1>1. UNCHANGED <<in, host, out>> /\ con' = [con EXCEPT ![p] = c]
  BY DEF TitleFinishes
<1>2. Sound(c) /\ c.acked = con[p].acked /\ c.st = con[p].st
  BY ConSound DEF Sound, ConType, Room
<1> HIDE DEF c
<1> QED
  BY <1>1, <1>2, ConSound, WordStep DEF Early

LEMMA TitleReadsKeeps ==
  ASSUME IInv, UNCHANGED <<tcp, loop>>, NEW p \in Ports, TitleReads(p)
  PROVE  IInv'
<1> DEFINE n == con[p].read + 1
           c == [con[p] EXCEPT !.read = n]
<1>1. /\ UNCHANGED <<in, host>> /\ con' = [con EXCEPT ![p] = c]
      /\ out' = out \/ out' = Queued(out, AckOf(p, c))
  BY DEF TitleReads
<1>2. con[p].read < Len(con[p].got) /\ n \in Nat
  BY ConSound DEF TitleReads, ConType
<1> HIDE DEF n
<1>3. /\ c \in ConType /\ c.read = n /\ c.got = con[p].got
      /\ c.acked = con[p].acked /\ c.st = con[p].st
  BY <1>2, ConSound DEF ConType
<1> HIDE DEF c
<1>4. Sound(c)
  <2>1. con[p].read \in Nat /\ ConBuf \in Nat
    BY ConSound, Numbers DEF ConType
  <2>2. ConBuf - (Len(con[p].got) - con[p].read) >= 0
    BY ConSound DEF Sound, Room
  <2> DEFINE l == Len(con[p].got)
  <2>3. l \in Nat
    BY ConSound
  <2>4. con[p].read + 1 <= l /\ ConBuf - (l - (con[p].read + 1)) >= 0
    BY <1>2, <2>1, <2>2, <2>3
  <2> QED
    BY <1>3, <2>4 DEF Sound, Room, n
<1>5. AckOf(p, c) \in Segments /\ ~Carries(AckOf(p, c)) /\ "syn" \notin AckOf(p, c).fl
  BY <1>4, WordIs
<1> QED
  BY <1>1, <1>3, <1>4, <1>5, ConSound, WordStep DEF Early

LEMMA TitleAbortsKeeps ==
  ASSUME IInv, UNCHANGED <<tcp, loop>>, NEW p \in Ports, TitleAborts(p)
  PROVE  IInv'
<1> DEFINE c == [con[p] EXCEPT !.st = "gone"]
<1>1. /\ UNCHANGED <<in, host>> /\ con' = [con EXCEPT ![p] = c]
      /\ out' = Queued(out, RstOf(p, con[p]))
  BY DEF TitleAborts
<1>2. Sound(c) /\ c.acked = con[p].acked /\ c.st = "gone"
  BY ConSound DEF Sound, ConType, Room
<1> HIDE DEF c
<1>3. /\ RstOf(p, con[p]) \in Segments /\ ~Carries(RstOf(p, con[p]))
      /\ "syn" \notin RstOf(p, con[p]).fl
  BY ConSound, WordIs
<1> QED
  BY <1>1, <1>2, <1>3, ConSound, WordStep DEF Early

LEMMA ConsoleForgetsKeeps ==
  ASSUME IInv, UNCHANGED <<tcp, loop>>, NEW p \in Ports, ConsoleForgets(p)
  PROVE  IInv'
<1> DEFINE c == [con[p] EXCEPT !.st = "gone"]
<1>1. UNCHANGED <<in, host, out>> /\ con' = [con EXCEPT ![p] = c]
  BY DEF ConsoleForgets
<1>2. Sound(c) /\ c.acked = con[p].acked /\ c.st = "gone"
  BY ConSound DEF Sound, ConType, Room
<1> HIDE DEF c
<1> QED
  BY <1>1, <1>2, ConSound, WordStep DEF Early

\* What the console says from a place of its stream.
LEMMA SaidType ==
  ASSUME NEW p \in Ports, NEW c, Sound(c), NEW k \in Nat
  PROVE  /\ Said(p, c, k) \in Segments /\ Said(p, c, k).port = p /\ "syn" \notin Said(p, c, k).fl
         /\ After(p, c, k) \in Nat
<1> DEFINE fl == {"ack"} \cup (IF c.shut /\ k + 1 >= Sends[p] THEN {"fin"} ELSE {})
           data == IF k < Sends[p] THEN <<k + 1>> ELSE <<>>
<1>1. 1 + k \in Nat /\ k + 1 \in Nat \ {0} /\ Sends[p] \in Nat
  BY Numbers
<1>2. fl \in SUBSET {"syn", "ack", "fin", "rst"} /\ "syn" \notin fl
  OBVIOUS
<1>3. data \in Bytes
  <2>1. <<>> \in Bytes /\ <<k + 1>> \in Bytes
    BY <1>1 DEF Bytes
  <2> QED
    BY <2>1
<1>4. Said(p, c, k) = Speak(p, c, 1 + k, fl, data)
  BY DEF Said
<1> HIDE DEF fl, data
<1>5. Said(p, c, k) \in Segments /\ Said(p, c, k).port = p /\ Said(p, c, k).fl = fl
  BY <1>1, <1>2, <1>3, <1>4, SpeakType
<1> QED
  BY <1>1, <1>2, <1>5 DEF After

LEMMA ConsoleSendsKeeps ==
  ASSUME IInv, UNCHANGED <<tcp, loop>>, NEW p \in Ports, ConsoleSends(p)
  PROVE  IInv'
<1> DEFINE n == After(p, con[p], con[p].sent)
           c == [con[p] EXCEPT !.sent = n]
           g == Said(p, con[p], con[p].sent)
<1>1. /\ UNCHANGED <<in, host>> /\ con' = [con EXCEPT ![p] = c] /\ con[p].st = "up"
      /\ out' = Queued(out, g)
  BY DEF ConsoleSends
<1>2. Sound(con[p]) /\ con[p].sent \in Nat
  BY ConSound DEF ConType
<1>3. n \in Nat /\ g \in Segments /\ g.port = p /\ "syn" \notin g.fl
  BY <1>2, SaidType
<1> HIDE DEF n, g
<1>4. Sound(c) /\ c.acked = con[p].acked /\ c.st = "up"
  BY <1>1, <1>2, <1>3 DEF Sound, ConType, Room
<1> HIDE DEF c
<1> QED
  BY <1>1, <1>3, <1>4, ConSound, ConsoleStep DEF Early

LEMMA ConsoleRepeatsKeeps ==
  ASSUME IInv, UNCHANGED <<tcp, loop>>, NEW p \in Ports, ConsoleRepeats(p)
  PROVE  IInv'
<1>1. UNCHANGED <<in, host>> /\ out = <<>>
  BY DEF ConsoleRepeats
<1>2. \A g : Queued(out, g) = <<g>>
  BY <1>1, Numbers DEF Queued
<1>3. CASE con[p].st = "syn" /\ out' = <<SynOf(p)>> /\ con' = con
  <2> DEFINE g == SynOf(p)
  <2>1. /\ g \in Segments /\ g.port = p /\ g.fl = {"syn"} /\ g.seq = Plus(ConIss, 0)
        /\ ~Carries(g)
    BY SynIs
  <2>2. con' = [con EXCEPT ![p] = con[p]] /\ out' = Queued(out, g)
    BY <1>2, <1>3, ConSound
  <2> HIDE DEF g
  <2>3. Early(con[g.port])
    BY <1>3, <2>1 DEF Early
  <2> QED
    BY <1>1, <2>1, <2>2, <2>3, ConSound, ConsoleStep
<1>4. CASE ~(con[p].st = "syn" /\ out' = <<SynOf(p)>> /\ con' = con)
  <2> DEFINE k == con[p].acked
             n == IF con[p].sent = k THEN After(p, con[p], con[p].sent) ELSE con[p].sent
             c == [con[p] EXCEPT !.sent = n]
             g == Said(p, con[p], k)
  <2>1. /\ con' = [con EXCEPT ![p] = c] /\ con[p].st = "up" /\ out' = Queued(out, g)
    BY <1>2, <1>4 DEF ConsoleRepeats
  <2>2. Sound(con[p]) /\ con[p].sent \in Nat /\ k \in Nat
    BY ConSound DEF ConType
  <2>3. g \in Segments /\ g.port = p /\ "syn" \notin g.fl
    BY <2>2, SaidType
  <2>4. n \in Nat
    BY <2>2, SaidType
  <2> HIDE DEF n, g, k
  <2>5. Sound(c) /\ c.acked = con[p].acked /\ c.st = "up"
    BY <2>1, <2>2, <2>4 DEF Sound, ConType, Room
  <2> HIDE DEF c
  <2> QED
    BY <1>1, <2>1, <2>3, <2>5, ConSound, ConsoleStep DEF Early
<1> QED
  BY <1>3, <1>4

\* A frame for the console, and what it makes of it.
LEMMA HeardIs ==
  ASSUME NEW p \in Ports, NEW c, Sound(c), NEW f \in Segments
  PROVE  /\ Sound(Heard(p, c, f)) /\ Heard(p, c, f).st = c.st
         /\ \/ Heard(p, c, f).acked = c.acked
            \/ Heard(p, c, f).acked = Minus(f.ack, Plus(ConIss, 1))
<1> DEFINE count == Minus(f.ack, Plus(ConIss, 1))
           edge == count + f.wnd
           d == [c EXCEPT !.acked = count, !.edge = edge]
<1>1. count \in Nat /\ f.wnd \in Nat
  <2>1. ConIss \in Int /\ f.ack \in Int
    BY Numbers, SeqsAre DEF Segments
  <2>2. Plus(ConIss, 1) \in Int
    BY <2>1, SeqType, SeqsAre
  <2>3. count \in Seqs
    BY <2>1, <2>2, SeqType
  <2> QED
    BY <2>3, SeqsAre DEF Segments
<1>2. Heard(p, c, f) = IF count < c.acked \/ count > c.sent THEN c ELSE d
  BY DEF Heard
<1>3. edge \in Nat
  BY <1>1
<1> HIDE DEF count, edge
<1>4. /\ d \in ConType /\ d.st = c.st /\ d.acked = count /\ d.got = c.got /\ d.read = c.read
  BY <1>1, <1>3 DEF Sound, ConType
<1> HIDE DEF d
<1>5. Sound(d)
  BY <1>4 DEF Sound, Room
<1> QED
  BY <1>2, <1>4, <1>5 DEF count

LEMMA AcceptsIs ==
  ASSUME NEW c, Sound(c), NEW f \in Segments
  PROVE  Sound(Accepts(c, f)) /\ Accepts(c, f).st = c.st /\ Accepts(c, f).acked = c.acked
<1> DEFINE got == c.got \o f.data
           fin == "fin" \in f.fl
           d == [c EXCEPT !.got = got, !.fin = fin]
<1>1. c.got \in Bytes /\ f.data \in Bytes /\ c.read \in Nat /\ ConBuf \in Nat
  BY Numbers DEF Sound, ConType, Segments, Bytes
<1>2. got \in Bytes /\ Len(got) = Len(c.got) + Len(f.data) /\ Len(c.got) \in Nat
      /\ Len(f.data) \in Nat
  BY <1>1, ConcatProperties DEF Bytes
<1>3. fin \in BOOLEAN
  OBVIOUS
<1>4. Accepts(c, f) = IF f.seq # Expects(c) \/ c.fin \/ Len(f.data) > Room(c) THEN c ELSE d
  BY DEF Accepts
<1> HIDE DEF got, fin
<1>5. /\ d \in ConType /\ d.got = got /\ d.read = c.read /\ d.st = c.st /\ d.acked = c.acked
  BY <1>2, <1>3 DEF Sound, ConType
<1> HIDE DEF d
<1>6. ASSUME ~(Len(f.data) > Room(c))
      PROVE  Sound(d)
  <2>1. c.read <= Len(c.got) /\ ConBuf - (Len(c.got) - c.read) >= Len(f.data)
    BY <1>1, <1>2, <1>6 DEF Sound, Room
  <2> DEFINE l == Len(c.got)
             m == Len(f.data)
             r == c.read
  <2>2. l \in Nat /\ m \in Nat /\ r \in Nat /\ r <= l /\ ConBuf - (l - r) >= m
    BY <1>1, <1>2, <2>1
  <2> HIDE DEF l, m, r
  <2>3. r <= l + m /\ ConBuf - ((l + m) - r) >= 0
    BY <1>1, <2>2
  <2>4. d.read <= Len(d.got) /\ ConBuf - (Len(d.got) - d.read) >= 0
    BY <1>2, <1>5, <2>3 DEF l, m, r
  <2> QED
    BY <1>5, <2>4 DEF Sound, Room
<1> QED
  BY <1>4, <1>5, <1>6

LEMMA ConsoleTakesKeeps ==
  ASSUME IInv, UNCHANGED <<tcp, loop>>, ConsoleTakes
  PROVE  IInv'
<1>1. PICK f : f = Head(in)
  OBVIOUS
<1>2. PICK p : p = f.port
  OBVIOUS
<1>3. PICK h : h = Accepts(Heard(p, con[p], f), f)
  OBVIOUS
<1>4. /\ in' = Tail(in) /\ host' = host /\ in # <<>>
      /\ \/ "rst" \in f.fl /\ con' = [con EXCEPT ![p].st = "gone"] /\ out' = out
         \/ con[p].st = "gone" /\ out' = Queued(out, RstOf(p, con[p])) /\ con' = con
         \/ /\ f.fl = {"syn", "ack"} /\ con[p].st = "syn"
            /\ con' = [con EXCEPT ![p] =
                         [con[p] EXCEPT !.st = "up", !.riss = f.seq, !.edge = f.wnd]]
            /\ out' = Queued(out, AckOf(p, con'[p]))
         \/ con[p].st = "up" /\ out' = Queued(out, AckOf(p, con[p])) /\ con' = con
         \/ /\ f.fl \cap {"syn", "rst"} = {} /\ con[p].st = "up"
            /\ con' = [con EXCEPT ![p] = h]
            /\ out' = Queued(out, AckOf(p, h)) \/ out' = out
  BY <1>1, <1>2, <1>3 DEF ConsoleTakes
<1>5. in \in Seq(Segments) /\ Len(in) <= InLen
  BY DEF IInv, Types
<1>6. /\ f \in Segments /\ f \in Range(in) /\ in' \in Seq(Segments) /\ Len(in') = Len(in) - 1
      /\ Range(in') \subseteq Range(in)
  BY <1>1, <1>4, <1>5, TailRange
<1>7. Len(in') <= InLen
  BY <1>5, <1>6, Numbers
<1>8. p \in Ports /\ f.seq \in Seqs /\ f.wnd \in Nat
  BY <1>2, <1>6 DEF Segments
<1>9. /\ Sound(con[p]) /\ con[p] \in ConType /\ con \in [Ports -> ConType]
      /\ con' = con => con' = [con EXCEPT ![p] = con[p]]
  BY <1>8, ConSound
<1>10. CASE "rst" \in f.fl /\ con' = [con EXCEPT ![p].st = "gone"] /\ out' = out
  <2> DEFINE c == [con[p] EXCEPT !.st = "gone"]
  <2>1. Sound(c) /\ c.acked = con[p].acked /\ c.st = "gone" /\ con' = [con EXCEPT ![p] = c]
    BY <1>9, <1>10 DEF Sound, ConType, Room
  <2> HIDE DEF c
  <2> QED
    BY <1>4, <1>6, <1>7, <1>8, <1>10, <2>1, WordStep DEF Early
<1>11. CASE con' = con /\ (\/ out' = Queued(out, RstOf(p, con[p]))
                           \/ out' = Queued(out, AckOf(p, con[p])))
  <2>1. \E g \in Segments : out' = Queued(out, g) /\ ~Carries(g) /\ "syn" \notin g.fl
    BY <1>8, <1>9, <1>11, WordIs
  <2> QED
    BY <1>4, <1>6, <1>7, <1>8, <1>9, <1>11, <2>1, WordStep
<1>12. CASE /\ con' = [con EXCEPT ![p] =
                         [con[p] EXCEPT !.st = "up", !.riss = f.seq, !.edge = f.wnd]]
            /\ out' = Queued(out, AckOf(p, con'[p]))
  <2> DEFINE c == [con[p] EXCEPT !.st = "up", !.riss = f.seq, !.edge = f.wnd]
  <2>1. Sound(c) /\ c.acked = con[p].acked /\ c.st = "up"
    BY <1>8, <1>9 DEF Sound, ConType, Room
  <2>2. con' = [con EXCEPT ![p] = c] /\ con'[p] = c
    BY <1>8, <1>9, <1>12
  <2> HIDE DEF c
  <2>3. \E g \in Segments : out' = Queued(out, g) /\ ~Carries(g) /\ "syn" \notin g.fl
    BY <1>8, <1>12, <2>1, <2>2, WordIs
  <2> QED
    BY <1>4, <1>6, <1>7, <1>8, <2>1, <2>2, <2>3, WordStep DEF Early
<1>13. CASE /\ f.fl \cap {"syn", "rst"} = {} /\ con[p].st = "up" /\ con' = [con EXCEPT ![p] = h]
            /\ out' = Queued(out, AckOf(p, h)) \/ out' = out
  <2>1. PICK d : d = Heard(p, con[p], f)
    OBVIOUS
  <2>2. /\ Sound(d) /\ d.st = "up"
        /\ d.acked = con[p].acked \/ d.acked = Minus(f.ack, Plus(ConIss, 1))
    BY <1>6, <1>8, <1>9, <1>13, <2>1, HeardIs
  <2>3. Sound(h) /\ h.st = "up" /\ h.acked = d.acked
    BY <1>3, <1>6, <2>1, <2>2, AcceptsIs
  <2>4. AckOf(p, h) \in Segments /\ ~Carries(AckOf(p, h)) /\ "syn" \notin AckOf(p, h).fl
    BY <1>8, <2>3, WordIs
  <2>5. \/ h.acked = con[p].acked
        \/ \E g \in Range(in) : /\ g.port = p /\ "rst" \notin g.fl
                                /\ h.acked = Minus(g.ack, Plus(ConIss, 1))
    BY <1>2, <1>6, <1>13, <2>2, <2>3
  <2> QED
    BY <1>4, <1>6, <1>7, <1>8, <1>13, <2>3, <2>4, <2>5, WordStep DEF Early
<1> QED
  BY <1>4, <1>10, <1>11, <1>12, <1>13

LEMMA ConsoleKeeps ==
  ASSUME IInv, Console, UNCHANGED <<tcp, loop>>
  PROVE  IInv'
  BY ConsoleTakesKeeps, TitleOpensKeeps, TitleFinishesKeeps, TitleReadsKeeps, TitleAbortsKeeps,
     ConsoleSendsKeeps, ConsoleRepeatsKeeps, ConsoleForgetsKeeps DEF Console

---------------------------------------------------------------------------
(* The far side's steps, and the theorems *)

LEMMA FarKeeps ==
  ASSUME IInv, UNCHANGED <<tcp, loop>>, NEW p \in Ports, NEW h \in HostType,
         h.got = host[p].got, Far(p, h)
  PROVE  IInv'
<1>1. /\ host' = [host EXCEPT ![p] = h] /\ UNCHANGED <<con, out, in>>
      /\ host \in [Ports -> HostType]
  BY DEF Far, IInv, Types
<1>2. host' \in [Ports -> HostType] /\ \A q \in Ports : host'[q].got = host[q].got
  BY <1>1
<1>3. Types'
  BY <1>1, <1>2 DEF IInv, Types, Fits, Room
<1>4. OneEach'
  BY DEF IInv, OneEach
<1>5. \A s \in Slots : tcp[s].used => tcp[s].port \in Ports
  BY DEF IInv, Types, Fits
<1>6. ASSUME NEW s \in Slots, tcp'[s].used
      PROVE  Honest(s)'
  <2>1. tcp[s].used /\ Honest(s) /\ tcp[s].port \in Ports
    BY <1>5, <1>6 DEF IInv
  <2>2. host'[tcp[s].port].got = host[tcp[s].port].got
    BY <1>2, <2>1
  <2>3. Taking(tcp[s], host[tcp[s].port])' = Taking(tcp[s], host[tcp[s].port])
    BY <2>2 DEF Taking
  <2> QED
    BY <1>1, <2>1, <2>3 DEF Honest, Tells
<1>7. Opens'
  BY <1>1, <1>2 DEF IInv, Opens, Ordered, Opening, Anew, SlotsOf, Carries, Tells
<1> QED
  BY <1>3, <1>4, <1>6, <1>7 DEF IInv

LEMMA FarSideKeeps ==
  ASSUME IInv, FarSide, UNCHANGED <<tcp, loop>>
  PROVE  IInv'
<1>1. PICK p \in Ports :
        FarAnswers(p) \/ FarWrites(p) \/ FarEnds(p) \/ FarReads(p) \/ FarResets(p)
  BY DEF FarSide
<1>2. host[p] \in HostType
  BY DEF IInv, Types
<1>3. \A st \in {"up", "refused", "reset"} :
        [host[p] EXCEPT !.st = st] \in HostType /\ [host[p] EXCEPT !.st = st].got = host[p].got
  BY <1>2 DEF HostType
<1>4. /\ [host[p] EXCEPT !.wrote = @ + 1] \in HostType
      /\ [host[p] EXCEPT !.wrote = @ + 1].got = host[p].got
  <2>1. host[p].wrote + 1 \in Nat
    BY <1>2 DEF HostType
  <2> QED
    BY <1>2, <2>1 DEF HostType
<1>a. /\ [host[p] EXCEPT !.ended = TRUE] \in HostType
      /\ [host[p] EXCEPT !.ended = TRUE].got = host[p].got
      /\ [host[p] EXCEPT !.full = FALSE] \in HostType
      /\ [host[p] EXCEPT !.full = FALSE].got = host[p].got
  BY <1>2 DEF HostType
<1>5. CASE FarAnswers(p) \/ FarResets(p)
  <2>1. PICK st \in {"up", "refused", "reset"} : Far(p, [host[p] EXCEPT !.st = st])
    BY <1>5 DEF FarAnswers, FarResets
  <2> QED
    BY <1>3, <2>1, FarKeeps
<1>6. CASE FarWrites(p)
  BY <1>4, <1>6, FarKeeps DEF FarWrites
<1>7. CASE FarEnds(p)
  BY <1>a, <1>7, FarKeeps DEF FarEnds
<1>8. CASE FarReads(p)
  BY <1>a, <1>8, FarKeeps DEF FarReads
<1> QED
  BY <1>1, <1>5, <1>6, <1>7, <1>8

\* Every step keeps the invariant.
LEMMA Inductive == IInv /\ [Next]_vars => IInv'
<1> SUFFICES ASSUME IInv, [Next]_vars  PROVE IInv'
  OBVIOUS
<1>1. CASE UNCHANGED vars
  BY <1>1, Standing DEF vars, IInv, Types
<1> QED
  BY <1>1, RouterKeeps, ConsoleKeeps, FarSideKeeps DEF Next

THEOREM Invariant == Spec => []IInv
  BY InitInv, Inductive, PTL DEF Spec

\* The queues, the table and select's answer keep within their bounds: the types of the
\* router's variables and of the frames (xbox_net_nat.c: OUT_LEN, IN_LEN, TCP_MAX, TCP_BUF).
THEOREM TypeCorrect == Spec => []TypeOK
<1>1. ASSUME IInv  PROVE TypeOK
  <2>1. loop \in LoopType /\ \A s \in Slots : tcp[s] \in TcpType /\ Fits(tcp[s])
    BY <1>1 DEF IInv, Types
  <2>2. Range(out) \subseteq Segments /\ Range(in) \subseteq Segments
    BY <1>1, RangeOf DEF IInv, Types
  <2> QED
    BY <1>1, <2>1, <2>2 DEF TypeOK, IInv, Types, LoopType, TcpType, Fits
<1> QED
  BY <1>1, Invariant, PTL

\* What the router acknowledges to the console (tcp_segment's rcv_nxt) is in its buffer or
\* with the far side: a console that has been told its bytes arrived has not been told too
\* much, whatever is lost, said again, refused or broken off.
THEOREM AcknowledgedHeld == Spec => []AcknowledgedIsHeld
<1>1. ASSUME IInv  PROVE AcknowledgedIsHeld
  BY <1>1 DEF IInv, Honest, Taking, AcknowledgedIsHeld
<1> QED
  BY <1>1, Invariant, PTL

=============================================================================
