---------------------------- MODULE NatRelayProofs ----------------------------
(***************************************************************************)
(* That the router's TCP carries what it promises to carry, for every      *)
(* number of ports, connections and bytes, every size of its buffers and   *)
(* queues that is small against the sequence numbers, and whatever the     *)
(* title and the far side do: what it sends the console fits the window    *)
(* the console has said, and it implements Relay.                          *)
(***************************************************************************)
EXTENDS NatTcpProofs

---------------------------------------------------------------------------
(* The inductive invariant *)

\* A sequence number as a place: of those that have it, counted from r, the one
\* around x.
Off(a, b) == LET d == Minus(a, b) IN IF 2 * d < SeqSpace THEN d ELSE d - SeqSpace
Around(r, x, q) == x + Off(q, Plus(r, x))

\* Where the console is in the far side's stream: the place it waits for, the one its
\* window ends before, and a sequence number near them. Place 0 is the SYN's.
Awaits(k) == 1 + Len(k.got) + (IF k.fin THEN 1 ELSE 0)
Edge(k) == Awaits(k) + Room(k)
Place(k, q) == Around(k.riss, Awaits(k), q)

\* Bytes that follow b others.
Follows(d, b) == \A i \in 1 .. Len(d) : d[i] = b + i

\* Nothing more comes from the far side.
Over(h) == h.st \in {"reset", "refused"} \/ (h.ended /\ h.took = h.wrote)
Source(p, h) == h.took <= h.wrote /\ h.wrote <= Answers[p] /\ (h.ended => h.wrote = Answers[p])

\* How far what is said again may be behind what has come.
Reach == TcpBuf + 2

\* A frame with bytes or the end for console k, out of the far side's stream.
Placed(f, k, h) ==
  LET g == Place(k, f.seq) IN
  /\ 1 <= g /\ Follows(f.data, g - 1) /\ g - 1 + Len(f.data) <= h.took
  /\ f.data # <<>> => g + Len(f.data) <= Edge(k)
  /\ "fin" \in f.fl => f.data = <<>> /\ g = 1 + h.took /\ Over(h)
  /\ Awaits(k) <= g + Reach

\* Those of one port in a queue, and how far they go back.
Bound(p, q) == {f \in Range(q) : f.port = p /\ Carries(f)}
Final(f) == IF "fin" \in f.fl THEN 1 ELSE 0
InTurn(p, k, q) ==
  \A i, j \in 1 .. Len(q) :
    i < j /\ q[i].port = p /\ q[j].port = p /\ Carries(q[i]) /\ Carries(q[j])
      => Place(k, q[i].seq) + Len(q[i].data) + Final(q[i]) <= Place(k, q[j].seq) + Reach

\* A connection before and after the console's first acknowledgement: what has been
\* taken from the far side is in its buffer or behind it, and it sends between what the
\* console has acknowledged and the end of what it has.
Greeting(c, h) ==
  /\ c.una = c.iss /\ c.nxt \in {c.iss, Plus(c.iss, 1)} /\ c.tx_seq = Plus(c.iss, 1)
  /\ Len(c.tx) = h.took /\ Follows(c.tx, 0)
  /\ c.host_eof => Over(h)
Flowing(c, k, h) ==
  LET B == h.took - Len(c.tx)
      u == Place(k, c.una)
      n == Place(k, c.nxt)
  IN
  /\ B >= 0 /\ Follows(c.tx, B) /\ Place(k, c.tx_seq) = 1 + B
  /\ 1 + B <= u /\ u <= n /\ n <= h.took + 2 /\ (n = h.took + 2 => c.host_eof)
  /\ u <= Awaits(k) /\ u + c.wnd <= Edge(k)
  /\ c.host_eof => Over(h)

\* What the console has said of the far side's stream and the router has not heard.
Plain(f) == f.fl \cap {"syn", "rst"} = {}
Low(c, k) == IF c.syn_acked THEN Place(k, c.una) ELSE 1
Acks(p, k, l, q) ==
  /\ \A f \in Range(q) :
       f.port = p /\ Plain(f)
         => /\ l <= Place(k, f.ack) /\ Place(k, f.ack) <= Awaits(k)
            /\ Place(k, f.ack) + f.wnd <= Edge(k)
  /\ \A i, j \in 1 .. Len(q) :
       i < j /\ q[i].port = p /\ q[j].port = p /\ Plain(q[i]) /\ Plain(q[j])
         => Place(k, q[i].ack) <= Place(k, q[j].ack)

\* A connection and its console.
Joined(p, c, k, h, O, I) ==
  /\ IF c.syn_acked THEN Flowing(c, k, h)
     ELSE Greeting(c, h) /\ Awaits(k) = 1 /\ Bound(p, I) = {}
  /\ k.st = "up" => c.iss = k.riss /\ ~c.connecting
  /\ \A f \in Bound(p, I) : "fin" \in f.fl => c.host_eof
  /\ Acks(p, k, Low(c, k), O)

\* The way down, of port p whose console has not gone: C are its connections, of which
\* there is one at most.
Syns(p, q) == {f \in Range(q) : f.port = p /\ "syn" \in f.fl}
Opened(p, k, O) == Early(k) \/ Syns(p, O) # {}
Down(p, k, h, C, O, I) ==
  /\ Follows(k.got, 0) /\ Len(k.got) <= h.took /\ h.took < Awaits(k) + TcpBuf
  /\ \A f \in Bound(p, I) : Placed(f, k, h)
  /\ InTurn(p, k, I)
  /\ \A c \in C : Joined(p, c, k, h, O, I)
  /\ Opened(p, k, O)
       => Awaits(k) = 1 /\ Bound(p, I) = {} /\ \A c \in C : ~c.syn_acked
  /\ Early(k) => \A f \in Syns(p, I) : \E c \in C : ~c.connecting /\ c.iss = f.seq

\* What the console has sent and may send: it has not been told more than it was, and
\* is not further ahead than the router has room.
Top(p, k) == IF k.shut THEN Sends[p] + 1 ELSE k.sent
Telling(p, k) ==
  /\ k.acked <= k.sent /\ k.sent <= Sends[p] + 1
  /\ k.sent <= k.acked + TcpBuf \/ Sends[p] <= k.acked + TcpBuf
  /\ k.edge <= k.acked + TcpBuf
  /\ k.sent = Sends[p] + 1 => k.shut
  /\ k.shut => k.sent >= Sends[p]

\* The console's bytes and end on their way to a router that has taken a places.
Stands(a, q) == Around(ConIss, 1 + a, q) - 1
Stood(p, k, a, f) ==
  LET m == Stands(a, f.seq) IN
  /\ 0 <= m /\ a <= m + TcpBuf + 1
  /\ f.data = IF m < Sends[p] THEN <<m + 1>> ELSE <<>>
  /\ "fin" \in f.fl => k.shut /\ m + Len(f.data) = Sends[p]
  /\ m + Len(f.data) + Final(f) <= Top(p, k)
InOrder(p, a, q) ==
  \A i, j \in 1 .. Len(q) :
    i < j /\ q[i].port = p /\ q[j].port = p /\ Carries(q[i]) /\ Carries(q[j])
      => Stands(a, q[i].seq) + Len(q[i].data) + Final(q[i])
           <= Stands(a, q[j].seq) + TcpBuf + 1
Carried(p, c, k, h, O) ==
  LET a == Taking(c, h) IN
  /\ Follows(c.rx, Len(h.got)) /\ Len(h.got) + Len(c.rx) <= Sends[p]
  /\ c.console_fin => k.shut /\ Len(h.got) + Len(c.rx) = Sends[p]
  /\ a <= Top(p, k)
  /\ \A f \in Bound(p, O) : Stood(p, k, a, f)
  /\ InOrder(p, a, O)

\* The way up.
Up(p, k, h, C, O) ==
  /\ Telling(p, k)
  /\ Follows(h.got, 0) /\ Len(h.got) <= Sends[p]
  /\ h.shut => k.shut /\ Len(h.got) = Sends[p]
  /\ \A c \in C : Carried(p, c, k, h, O)
  /\ Opened(p, k, O) => k.got = <<>> /\ ~k.fin /\ ~h.shut

\* What the console says: its SYNs first, and a reset as the last, both without bytes.
\* While a SYN is on its way to the router and the console has had an answer, the
\* connection stands.
Spoken(p, k, O) ==
  /\ \A f \in Range(O) :
       f.port = p => /\ "rst" \in f.fl => k.st = "gone"
                     /\ Plain(f) => ~Early(k)
                     /\ Carries(f) => Plain(f)
  /\ \A i, j \in 1 .. Len(O) :
       i < j /\ O[i].port = p /\ O[j].port = p /\ "syn" \in O[j].fl => "syn" \in O[i].fl
Met(p, k, C, O) ==
  Syns(p, O) # {} /\ (k.st = "up" \/ \E f \in Range(O) : f.port = p /\ Plain(f))
    => C # {} /\ \A c \in C : ~c.connecting

Relays(p, k, h, C, O, I) ==
  /\ Source(p, h)
  /\ \A f \in Range(I) : f.port = p => f.wnd <= TcpBuf
  /\ Spoken(p, k, O) /\ Met(p, k, C, O)
  /\ k.st # "gone" => Down(p, k, h, C, O, I)
  /\ Up(p, k, h, C, O)

Conns(p) == {tcp[s] : s \in SlotsOf(p)}
RInv == \A p \in Ports : Relays(p, con[p], host[p], Conns(p), out, in)

---------------------------------------------------------------------------
(* Sequence numbers and places *)

\* What is said of the constants, in one place.
LEMMA Windows ==
  /\ TcpBuf \in Nat /\ TcpBuf >= 1 /\ ConBuf \in Nat /\ ConBuf >= 1 /\ Reach = TcpBuf + 2
  /\ SeqSpace \in Nat /\ 2 * TcpBuf + 2 * ConBuf + 6 <= SeqSpace
  BY NatAssumption, PeersAssumption, WindowAssumption DEF Reach

\* A place near x is the one its sequence number is taken for.
LEMMA AroundIs ==
  ASSUME NEW r \in Int, NEW x \in Int, NEW g \in Int,
         -SeqSpace <= 2 * (g - x), 2 * (g - x) < SeqSpace
  PROVE  Around(r, x, Plus(r, g)) = g
<1>1. Minus(Plus(r, g), Plus(r, x)) = (g - x) % SeqSpace
  BY MinusIs
<1>2. SeqSpace \in Nat /\ SeqSpace > 0
  BY Numbers
<1>3. CASE g >= x
  <2>1. (g - x) % SeqSpace = g - x
    BY <1>2, <1>3
  <2> QED
    BY <1>1, <1>2, <2>1 DEF Around, Off
<1>4. CASE g < x
  <2>1. (g - x) % SeqSpace = g - x + SeqSpace
    BY <1>2, <1>4
  <2> QED
    BY <1>1, <1>2, <1>4, <2>1 DEF Around, Off
<1> QED
  BY <1>3, <1>4

\* The place a sequence number is taken for has that number and is near x.
LEMMA AroundOf ==
  ASSUME NEW r \in Int, NEW x \in Int, NEW q \in Seqs
  PROVE  /\ Around(r, x, q) \in Int /\ Plus(r, Around(r, x, q)) = q
         /\ -SeqSpace <= 2 * (Around(r, x, q) - x) /\ 2 * (Around(r, x, q) - x) < SeqSpace
<1> DEFINE z == Plus(r, x)
           d == Minus(q, z)
           g == Around(r, x, q)
<1>1. /\ SeqSpace \in Nat /\ SeqSpace > 0 /\ q \in Int /\ 0 <= q /\ q < SeqSpace
      /\ z \in Int
  BY Numbers, SeqType, SeqsAre
<1> HIDE DEF z
<1>2. d \in Int /\ 0 <= d /\ d < SeqSpace
  BY <1>1 DEF Minus
<1>3. PICK j \in Int : j = (q - z) \div SeqSpace
  BY <1>1
<1>4. PICK m \in Int : m = j * SeqSpace /\ q - z = m + d
  BY <1>1, <1>3 DEF Minus
<1> HIDE DEF d
<1>5. (z + d) % SeqSpace = q
  <2>1. PICK i \in Int : i = 0 - j /\ i * SeqSpace = 0 - m
    BY <1>1, <1>4
  <2>2. (i * SeqSpace + q) % SeqSpace = q % SeqSpace
    BY <1>1, Turns
  <2>3. i * SeqSpace + q = z + d
    BY <1>1, <1>2, <1>4, <2>1
  <2> QED
    BY <1>1, <2>2, <2>3
<1>6. (z + (d - SeqSpace)) % SeqSpace = q
  <2>1. PICK i \in Int : i = 0 - 1 /\ i * SeqSpace = 0 - SeqSpace
    BY <1>1
  <2>a. PICK y \in Int : y = z + d
    BY <1>1, <1>2
  <2>2. (i * SeqSpace + y) % SeqSpace = y % SeqSpace
    BY Turns
  <2>3. i * SeqSpace + y = z + (d - SeqSpace)
    BY <1>1, <1>2, <2>a, <2>1
  <2> QED
    BY <1>5, <2>a, <2>2, <2>3
<1>7. Plus(z, d) = q /\ Plus(z, d - SeqSpace) = q
  BY <1>5, <1>6 DEF Plus
<1>8. Plus(r, x + d) = q /\ Plus(r, x + (d - SeqSpace)) = q
  BY <1>1, <1>2, <1>7, PlusPlus DEF z
<1>9. g = IF 2 * d < SeqSpace THEN x + d ELSE x + (d - SeqSpace)
  BY DEF Around, Off, d, z
<1> QED
  BY <1>1, <1>2, <1>8, <1>9

\* Of two places less than half the numbers apart, which is before the other.
LEMMA Apart ==
  ASSUME NEW r \in Int, NEW i \in Int, NEW j \in Int, -SeqSpace < 2 * (i - j), 2 * (i - j) < SeqSpace
  PROVE  /\ i >= j => Minus(Plus(r, i), Plus(r, j)) = i - j
         /\ seq_lt(Plus(r, i), Plus(r, j)) <=> i < j
         /\ Plus(r, i) = Plus(r, j) <=> i = j
         /\ seq_le(Plus(r, i), Plus(r, j)) <=> i <= j
<1>1. Minus(Plus(r, i), Plus(r, j)) = (i - j) % SeqSpace
  BY MinusIs
<1>2. PICK h \in Nat : SeqSpace = 2 * h /\ h > 0 /\ SeqSpace \div 2 = h
  <2>1. SeqSpace \in Nat /\ SeqSpace % 2 = 0 /\ SeqSpace > 0
    BY PeersAssumption
  <2>2. SeqSpace \div 2 \in Nat /\ SeqSpace = 2 * (SeqSpace \div 2)
    BY <2>1
  <2> QED
    BY <2>1, <2>2
<1>3. (i - j) % SeqSpace = IF i >= j THEN i - j ELSE i - j + SeqSpace
  BY <1>2
<1>4. Plus(r, i) = Plus(r, j) => i = j
  <2>1. ASSUME Plus(r, i) = Plus(r, j)  PROVE (i - j) % SeqSpace = 0
    <3>1. Plus(r, i) \in Int
      BY SeqType, SeqsAre
    <3>2. Minus(Plus(r, i), Plus(r, j)) = 0
      BY <1>2, <2>1, <3>1 DEF Minus
    <3> QED
      BY <1>1, <3>2
  <2> QED
    BY <1>2, <1>3, <2>1
<1>5. seq_lt(Plus(r, i), Plus(r, j)) <=> i < j
  BY <1>1, <1>2, <1>3 DEF seq_lt
<1> QED
  BY <1>1, <1>2, <1>3, <1>4, <1>5 DEF seq_le

\* The place the console waits for is that of the number it acknowledges.
LEMMA AwaitsIs ==
  ASSUME NEW k, Sound(k)
  PROVE  /\ Awaits(k) \in Nat /\ Awaits(k) >= 1 /\ Expects(k) = Plus(k.riss, Awaits(k))
         /\ k.riss \in Seqs /\ k.riss \in Int /\ Expects(k) \in Seqs
         /\ Room(k) \in Nat /\ Room(k) <= ConBuf
         /\ Edge(k) \in Nat /\ Edge(k) = Awaits(k) + Room(k)
         /\ Len(k.got) \in Nat /\ k.got \in Bytes /\ k.fin \in BOOLEAN
         /\ Awaits(k) <= Len(k.got) + 2 /\ Len(k.got) + 1 <= Awaits(k)
         /\ (~k.fin => Awaits(k) = Len(k.got) + 1)
         /\ (Awaits(k) = 1 <=> k.got = <<>> /\ ~k.fin)
<1>1. k.riss \in Seqs /\ k.riss \in Int /\ k.got \in Bytes /\ k.fin \in BOOLEAN /\ k.read \in Nat
  BY SeqsAre DEF Sound, ConType
<1>2. PICK n \in Nat : n = Len(k.got) /\ (n = 0 <=> k.got = <<>>)
  BY <1>1, EmptySeq DEF Bytes
<1>3. Awaits(k) = 1 + n + (IF k.fin THEN 1 ELSE 0)
  BY <1>2 DEF Awaits
<1>4. /\ Awaits(k) \in Nat /\ Awaits(k) >= 1 /\ Awaits(k) <= n + 2 /\ n + 1 <= Awaits(k)
      /\ (~k.fin => Awaits(k) = n + 1) /\ (k.fin => Awaits(k) = n + 2)
  BY <1>1, <1>3
<1>5. Expects(k) = Plus(k.riss, Awaits(k))
  BY DEF Expects, Awaits
<1>6. Room(k) = ConBuf - (n - k.read) /\ k.read <= n /\ Room(k) >= 0 /\ ConBuf \in Nat
  BY <1>2, Numbers DEF Sound, Room
<1>7. Room(k) \in Nat /\ Room(k) <= ConBuf
  BY <1>1, <1>6
<1>8. Awaits(k) = 1 <=> n = 0 /\ ~k.fin
  BY <1>4
<1>9. Expects(k) \in Seqs
  BY ExpectsType DEF Sound
<1> QED
  BY <1>1, <1>2, <1>4, <1>5, <1>7, <1>8, <1>9 DEF Edge

\* The same of places in the far side's stream, seen from the console.
LEMMA PlaceIs ==
  ASSUME NEW k, Sound(k), NEW g \in Int,
         -SeqSpace <= 2 * (g - Awaits(k)), 2 * (g - Awaits(k)) < SeqSpace
  PROVE  Place(k, Plus(k.riss, g)) = g
  BY AwaitsIs, AroundIs DEF Place

LEMMA PlaceOf ==
  ASSUME NEW k, Sound(k), NEW q \in Seqs
  PROVE  /\ Place(k, q) \in Int /\ Plus(k.riss, Place(k, q)) = q
         /\ -SeqSpace <= 2 * (Place(k, q) - Awaits(k)) /\ 2 * (Place(k, q) - Awaits(k)) < SeqSpace
  BY AwaitsIs, AroundOf DEF Place

LEMMA PlaceInt ==
  ASSUME NEW k, Sound(k)
  PROVE  /\ Awaits(k) \in Int /\ Edge(k) \in Int /\ Awaits(k) >= 1
         /\ \A q \in Seqs : Place(k, q) \in Int
<1>1. Awaits(k) \in Nat /\ Awaits(k) >= 1 /\ Edge(k) \in Nat
  BY AwaitsIs
<1>2. \A q \in Seqs : Place(k, q) \in Int
  BY PlaceOf
<1> QED
  BY <1>1, <1>2

\* The types of what the places of frames and connections are made from.
LEMMA FrameLens ==
  ASSUME NEW f \in Segments
  PROVE  /\ f.seq \in Seqs /\ f.ack \in Seqs /\ f.wnd \in Nat /\ f.data \in Bytes
         /\ Len(f.data) \in Nat /\ Final(f) \in Nat /\ Final(f) <= 1
  BY DEF Segments, Bytes, Final

LEMMA FrameInts ==
  ASSUME NEW k, Sound(k), NEW f \in Segments
  PROVE  /\ Place(k, f.seq) \in Int /\ Place(k, f.ack) \in Int /\ f.seq \in Seqs /\ f.ack \in Seqs
         /\ f.wnd \in Nat /\ f.data \in Bytes /\ Len(f.data) \in Nat
         /\ Final(f) \in Nat /\ Final(f) <= 1
<1>1. f.seq \in Seqs /\ f.ack \in Seqs /\ f.wnd \in Nat /\ f.data \in Bytes
  BY DEF Segments, Bytes
<1>2. Place(k, f.seq) \in Int /\ Place(k, f.ack) \in Int
  BY <1>1, PlaceInt
<1> QED
  BY <1>1, <1>2 DEF Bytes, Final

LEMMA TcpInts ==
  ASSUME NEW k, Sound(k), NEW c \in TcpType
  PROVE  /\ c.una \in Seqs /\ c.nxt \in Seqs /\ c.tx_seq \in Seqs /\ c.wnd \in Nat
         /\ c.tx \in Bytes /\ Len(c.tx) \in Nat /\ c.iss \in Seqs
         /\ Place(k, c.una) \in Int /\ Place(k, c.nxt) \in Int /\ Place(k, c.tx_seq) \in Int
<1>1. /\ c.una \in Seqs /\ c.nxt \in Seqs /\ c.tx_seq \in Seqs /\ c.wnd \in Nat
      /\ c.tx \in Bytes /\ c.iss \in Seqs
  BY DEF TcpType
<1>2. Place(k, c.una) \in Int /\ Place(k, c.nxt) \in Int /\ Place(k, c.tx_seq) \in Int
  BY <1>1, PlaceInt
<1> QED
  BY <1>1, <1>2 DEF Bytes

LEMMA PlaceExpects ==
  ASSUME NEW k, Sound(k)
  PROVE  Place(k, Expects(k)) = Awaits(k)
<1>1. PICK x \in Int : x = Awaits(k)
  BY PlaceInt
<1>2. -SeqSpace <= 2 * (x - x) /\ 2 * (x - x) < SeqSpace
  BY Numbers
<1>3. Place(k, Plus(k.riss, x)) = x
  BY <1>1, <1>2, PlaceIs
<1>4. Expects(k) = Plus(k.riss, Awaits(k))
  BY AwaitsIs
<1> QED
  BY <1>1, <1>3, <1>4

\* A number further on is as much further in places, while both are near.
LEMMA PlaceMoved ==
  ASSUME NEW k, Sound(k), NEW q \in Seqs, NEW m \in Int,
         -SeqSpace <= 2 * (Place(k, q) + m - Awaits(k)), 2 * (Place(k, q) + m - Awaits(k)) < SeqSpace
  PROVE  Place(k, Plus(q, m)) = Place(k, q) + m
<1>1. PICK g \in Int : g = Place(k, q) /\ Plus(k.riss, g) = q
  BY PlaceOf
<1>a. PICK r \in Int, x \in Int : r = k.riss /\ x = Awaits(k)
  BY AwaitsIs
<1>2. Plus(q, m) = Plus(k.riss, g + m)
  <2>1. Plus(Plus(r, g), m) = Plus(r, g + m)
    BY PlusPlus
  <2> QED
    BY <1>1, <1>a, <2>1
<1>3. g + m \in Int /\ -SeqSpace <= 2 * ((g + m) - Awaits(k))
      /\ 2 * ((g + m) - Awaits(k)) < SeqSpace
  BY <1>1, <1>a
<1>4. Place(k, Plus(k.riss, g + m)) = g + m
  BY <1>3, PlaceIs
<1> QED
  BY <1>1, <1>2, <1>4

\* The comparisons the code makes of sequence numbers are those of their places.
LEMMA PlacesApart ==
  ASSUME NEW k, Sound(k), NEW a \in Seqs, NEW b \in Seqs,
         -SeqSpace < 2 * (Place(k, a) - Place(k, b)), 2 * (Place(k, a) - Place(k, b)) < SeqSpace
  PROVE  /\ Place(k, a) >= Place(k, b) => Minus(a, b) = Place(k, a) - Place(k, b)
         /\ seq_lt(a, b) <=> Place(k, a) < Place(k, b)
         /\ a = b <=> Place(k, a) = Place(k, b)
         /\ seq_le(a, b) <=> Place(k, a) <= Place(k, b)
<1>1. PICK i \in Int, j \in Int : /\ i = Place(k, a) /\ Plus(k.riss, i) = a
                                  /\ j = Place(k, b) /\ Plus(k.riss, j) = b
  BY PlaceOf
<1>2. k.riss \in Int
  BY AwaitsIs
<1> QED
  BY <1>1, <1>2, Apart

\* Bytes in order, with more behind them, or only some of them.
LEMMA FollowsOn ==
  ASSUME NEW a \in Bytes, NEW b \in Bytes, NEW n \in Int, Follows(a, n), Follows(b, n + Len(a))
  PROVE  Follows(a \o b, n) /\ Len(a \o b) = Len(a) + Len(b) /\ a \o b \in Bytes
<1>1. PICK l \in Nat, m \in Nat : l = Len(a) /\ m = Len(b)
  BY DEF Bytes
<1>2. PICK r \in Bytes :
        /\ r = a \o b /\ Len(r) = l + m
        /\ \A i \in 1 .. l : r[i] = a[i]
        /\ \A i \in l + 1 .. l + m : r[i] = b[i - l]
  <2>1. /\ a \o b \in Bytes /\ Len(a \o b) = Len(a) + Len(b)
        /\ \A i \in 1 .. Len(a) : (a \o b)[i] = a[i]
        /\ \A i \in Len(a) + 1 .. Len(a) + Len(b) : (a \o b)[i] = b[i - Len(a)]
    BY ConcatProperties DEF Bytes
  <2> QED
    BY <1>1, <2>1
<1>3. ASSUME NEW i \in 1 .. Len(r)  PROVE r[i] = n + i
  <2>1. CASE i \in 1 .. l
    BY <1>1, <1>2, <2>1 DEF Follows
  <2>2. CASE i \in l + 1 .. l + m
    <3>1. i - l \in 1 .. m
      BY <2>2
    <3>2. b[i - l] = (n + l) + (i - l)
      BY <1>1, <3>1 DEF Follows
    <3> QED
      BY <1>2, <2>2, <3>2
  <2> QED
    BY <1>2, <2>1, <2>2
<1> QED
  BY <1>1, <1>2, <1>3 DEF Follows

LEMMA FollowsSub ==
  ASSUME NEW a \in Bytes, NEW n \in Int, Follows(a, n), NEW i \in Nat, NEW j \in Nat,
         1 <= i, i <= j + 1, j <= Len(a)
  PROVE  /\ Follows(SubSeq(a, i, j), n + i - 1) /\ Len(SubSeq(a, i, j)) = j - i + 1
         /\ SubSeq(a, i, j) \in Bytes
<1>1. PICK r \in Bytes : /\ r = SubSeq(a, i, j) /\ Len(r) = j - i + 1
                         /\ \A x \in 1 .. j - i + 1 : r[x] = a[i + x - 1]
  <2>1. Len(a) \in Nat
    BY DEF Bytes
  <2>2. \A x \in i .. j : a[x] \in Nat \ {0}
    <3>1. \A x \in i .. j : x \in 1 .. Len(a)
      BY <2>1
    <3> QED
      BY <3>1 DEF Bytes
  <2>3. /\ SubSeq(a, i, j) \in Seq(Nat \ {0})
        /\ Len(SubSeq(a, i, j)) = IF i <= j THEN j - i + 1 ELSE 0
        /\ \A x \in 1 .. j - i + 1 : SubSeq(a, i, j)[x] = a[i + x - 1]
    BY <2>2, SubSeqProperties
  <2>4. (IF i <= j THEN j - i + 1 ELSE 0) = j - i + 1
    OBVIOUS
  <2> QED
    BY <2>3, <2>4 DEF Bytes
<1>2. ASSUME NEW x \in 1 .. Len(r)  PROVE r[x] = (n + i - 1) + x
  <2>1. i + x - 1 \in 1 .. Len(a)
    BY <1>1 DEF Bytes
  <2>2. a[i + x - 1] = n + (i + x - 1)
    BY <2>1 DEF Follows
  <2> QED
    BY <1>1, <2>2
<1> QED
  BY <1>1, <1>2 DEF Follows

\* The console gets on, and what it says and is told stays where it was.
LEMMA PlaceSame ==
  ASSUME NEW k, Sound(k), NEW d, Sound(d), d.riss = k.riss, NEW q \in Seqs,
         -SeqSpace <= 2 * (Place(k, q) - Awaits(d)), 2 * (Place(k, q) - Awaits(d)) < SeqSpace
  PROVE  Place(d, q) = Place(k, q)
<1>1. PICK g \in Int : g = Place(k, q) /\ Plus(k.riss, g) = q
  BY PlaceOf
<1>2. Place(d, Plus(d.riss, g)) = g
  BY <1>1, PlaceIs
<1> QED
  BY <1>1, <1>2

\* Places in the console's stream, seen from the router.
LEMMA StandsIs ==
  ASSUME NEW a \in Nat, NEW m \in Int, -SeqSpace <= 2 * (m - a), 2 * (m - a) < SeqSpace
  PROVE  Stands(a, Plus(ConIss, 1 + m)) = m
<1>1. ConIss \in Int
  BY Numbers, SeqsAre
<1>2. PICK x \in Int, g \in Int : x = 1 + a /\ g = 1 + m
  OBVIOUS
<1>3. Around(ConIss, x, Plus(ConIss, g)) = g
  BY <1>1, <1>2, AroundIs
<1> QED
  BY <1>2, <1>3 DEF Stands

LEMMA StandsOf ==
  ASSUME NEW a \in Nat, NEW q \in Seqs
  PROVE  /\ Stands(a, q) \in Int /\ Plus(ConIss, 1 + Stands(a, q)) = q
         /\ -SeqSpace <= 2 * (Stands(a, q) - a) /\ 2 * (Stands(a, q) - a) < SeqSpace
<1>1. ConIss \in Int
  BY Numbers, SeqsAre
<1>2. PICK x \in Int : x = 1 + a
  OBVIOUS
<1>3. PICK g \in Int : g = Around(ConIss, x, q)
  BY <1>1, AroundOf
<1>4. /\ Plus(ConIss, g) = q /\ -SeqSpace <= 2 * (g - x) /\ 2 * (g - x) < SeqSpace
  BY <1>1, <1>3, AroundOf
<1>5. Stands(a, q) = g - 1
  BY <1>2, <1>3 DEF Stands
<1>6. 1 + (g - 1) = g
  OBVIOUS
<1> QED
  BY <1>2, <1>4, <1>5, <1>6

LEMMA StandsSame ==
  ASSUME NEW a \in Nat, NEW b \in Nat, NEW q \in Seqs,
         -SeqSpace <= 2 * (Stands(a, q) - b), 2 * (Stands(a, q) - b) < SeqSpace
  PROVE  Stands(b, q) = Stands(a, q)
<1>1. PICK m \in Int : m = Stands(a, q) /\ Plus(ConIss, 1 + m) = q
  BY StandsOf
<1>2. Stands(b, Plus(ConIss, 1 + m)) = m
  BY <1>1, StandsIs
<1> QED
  BY <1>1, <1>2

---------------------------------------------------------------------------
(* Queues that shrink and grow *)

\* The frames of port p in r are of q, and in its order.
Within(p, r, q) ==
  /\ \A f \in Range(r) : f.port = p => f \in Range(q)
  /\ \A i, j \in 1 .. Len(r) :
       i < j /\ r[i].port = p /\ r[j].port = p
         => \E x, y \in 1 .. Len(q) : x < y /\ q[x] = r[i] /\ q[y] = r[j]

\* r is q, and frames of F behind it.
Grown(q, r, F) ==
  /\ Len(q) <= Len(r)
  /\ \A i \in 1 .. Len(q) : r[i] = q[i]
  /\ \A i \in Len(q) + 1 .. Len(r) : r[i] \in F

LEMMA LenIs == ASSUME NEW S, NEW q \in Seq(S)  PROVE Len(q) \in Nat
  OBVIOUS

\* A queue without its first frame; a queue with more frames, all of F.
LEMMA TailWithin ==
  ASSUME NEW p, NEW q \in Seq(Segments), q # <<>>
  PROVE  Within(p, Tail(q), q)
<1> DEFINE r == Tail(q)
<1>1. /\ r \in Seq(Segments) /\ Len(r) = Len(q) - 1 /\ Range(r) \subseteq Range(q)
      /\ Len(q) \in Nat /\ Len(q) > 0
      /\ \A i \in 1 .. Len(q) - 1 : r[i] = q[i + 1]
  BY TailRange, EmptySeq
<1> HIDE DEF r
<1>2. ASSUME NEW i \in 1 .. Len(r), NEW j \in 1 .. Len(r), i < j
      PROVE  \E x, y \in 1 .. Len(q) : x < y /\ q[x] = r[i] /\ q[y] = r[j]
  <2>1. /\ i + 1 \in 1 .. Len(q) /\ j + 1 \in 1 .. Len(q) /\ i + 1 < j + 1
        /\ q[i + 1] = r[i] /\ q[j + 1] = r[j]
    BY <1>1, <1>2
  <2> QED
    BY <2>1
<1> QED
  BY <1>1, <1>2 DEF Within, r

LEMMA SameWithin == ASSUME NEW p, NEW q  PROVE Within(p, q, q)
  BY DEF Within

LEMMA GrownRange ==
  ASSUME NEW q \in Seq(Segments), NEW r \in Seq(Segments), NEW F, Grown(q, r, F)
  PROVE  /\ Range(q) \subseteq Range(r)
         /\ \A f \in Range(r) : f \in Range(q) \/ f \in F
<1>1. Len(q) \in Nat /\ Len(r) \in Nat
  BY LenIs
<1>2. ASSUME NEW f \in Range(q)  PROVE f \in Range(r)
  <2>1. PICK i \in 1 .. Len(q) : f = q[i]
    BY RangeOf
  <2>2. i \in 1 .. Len(r) /\ f = r[i]
    BY <1>1, <2>1 DEF Grown
  <2> QED
    BY <2>2, RangeOf
<1>3. ASSUME NEW f \in Range(r)  PROVE f \in Range(q) \/ f \in F
  <2>1. PICK i \in 1 .. Len(r) : f = r[i]
    BY RangeOf
  <2>2. CASE i \in 1 .. Len(q)
    <3>1. f = q[i]
      BY <2>1, <2>2 DEF Grown
    <3> QED
      BY <2>2, <3>1, RangeOf
  <2>3. CASE i \in Len(q) + 1 .. Len(r)
    BY <2>1, <2>3 DEF Grown
  <2> QED
    BY <1>1, <2>2, <2>3
<1> QED
  BY <1>2, <1>3

LEMMA GrownWithin ==
  ASSUME NEW q \in Seq(Segments), NEW r \in Seq(Segments), NEW F, Grown(q, r, F),
         NEW p, \A f \in F : f.port # p
  PROVE  Within(p, r, q)
<1>1. Len(q) \in Nat /\ Len(r) \in Nat
  BY LenIs
<1>2. \A i \in 1 .. Len(r) : r[i].port = p => i \in 1 .. Len(q) /\ q[i] = r[i]
  <2>1. \A i \in 1 .. Len(r) : i \in 1 .. Len(q) \/ i \in Len(q) + 1 .. Len(r)
    BY <1>1
  <2> QED
    BY <2>1 DEF Grown
<1>3. \A f \in Range(r) : f.port = p => f \in Range(q)
  BY GrownRange
<1> QED
  BY <1>2, <1>3 DEF Within

LEMMA GrownSame == ASSUME NEW q \in Seq(Segments), NEW F  PROVE Grown(q, q, F)
<1>1. Len(q) \in Nat
  BY LenIs
<1> QED
  BY <1>1 DEF Grown

LEMMA GrownMore ==
  ASSUME NEW q \in Seq(Segments), NEW r \in Seq(Segments), NEW s \in Seq(Segments), NEW F,
         NEW E, E \subseteq F, Grown(q, r, F), Grown(r, s, E)
  PROVE  Grown(q, s, F)
<1>1. Len(q) \in Nat /\ Len(r) \in Nat /\ Len(s) \in Nat /\ Len(q) <= Len(r) /\ Len(r) <= Len(s)
  BY LenIs DEF Grown
<1>2. \A i \in 1 .. Len(q) : i \in 1 .. Len(r)
  BY <1>1
<1>3. \A i \in Len(q) + 1 .. Len(s) : i \in Len(r) + 1 .. Len(s) \/ (i \in 1 .. Len(r) /\ i \in Len(q) + 1 .. Len(r))
  BY <1>1
<1> QED
  BY <1>1, <1>2, <1>3 DEF Grown

LEMMA AppendGrows ==
  ASSUME NEW q \in Seq(Segments), NEW f \in Segments, NEW F, f \in F
  PROVE  Grown(q, Append(q, f), F)
<1>1. /\ Len(q) \in Nat /\ Len(Append(q, f)) = Len(q) + 1
      /\ \A i \in 1 .. Len(q) : Append(q, f)[i] = q[i]
      /\ Append(q, f)[Len(q) + 1] = f
  BY LenIs, AppendRange, AppendProperties
<1>2. \A i \in Len(q) + 1 .. Len(Append(q, f)) : i = Len(q) + 1
  BY <1>1
<1> QED
  BY <1>1, <1>2 DEF Grown

LEMMA DeliverGrows ==
  ASSUME NEW q \in Seq(Segments), NEW f \in Segments, NEW F, f \in F
  PROVE  Grown(q, deliver(q, f), F)
  BY AppendGrows, GrownSame DEF deliver

LEMMA QueuedGrows ==
  ASSUME NEW q \in Seq(Segments), NEW f \in Segments, NEW F, f \in F
  PROVE  Grown(q, Queued(q, f), F)
  BY AppendGrows, GrownSame DEF Queued

LEMMA ConcatGrows ==
  ASSUME NEW q \in Seq(Segments), NEW r \in Seq(Segments), NEW F, \A i \in 1 .. Len(r) : r[i] \in F
  PROVE  Grown(q, q \o r, F)
<1>1. /\ Len(q) \in Nat /\ Len(r) \in Nat /\ Len(q \o r) = Len(q) + Len(r)
      /\ \A i \in 1 .. Len(q) : (q \o r)[i] = q[i]
      /\ \A i \in Len(q) + 1 .. Len(q) + Len(r) : (q \o r)[i] = r[i - Len(q)]
  BY LenIs, ConcatProperties
<1>2. \A i \in Len(q) + 1 .. Len(q) + Len(r) : i - Len(q) \in 1 .. Len(r)
  BY <1>1
<1> QED
  BY <1>1, <1>2 DEF Grown

\* What is said of the frames of a port holds when there are fewer.
LEMMA RelaysThins ==
  ASSUME NEW p, NEW k, NEW h, NEW C, NEW O, NEW I, NEW P, NEW J,
         Relays(p, k, h, C, O, I), Within(p, P, O), Within(p, J, I)
  PROVE  Relays(p, k, h, C, P, J)
<1>1. Bound(p, P) \subseteq Bound(p, O) /\ Bound(p, J) \subseteq Bound(p, I)
      /\ Syns(p, P) \subseteq Syns(p, O) /\ Syns(p, J) \subseteq Syns(p, I)
  BY DEF Within, Bound, Syns
<1>2. Opened(p, k, P) => Opened(p, k, O)
  BY <1>1 DEF Opened
<1>3. InTurn(p, k, I) => InTurn(p, k, J)
  BY DEF InTurn, Within
<1>4. \A a : InOrder(p, a, O) => InOrder(p, a, P)
  BY DEF InOrder, Within
<1>5. \A l : Acks(p, k, l, O) => Acks(p, k, l, P)
  BY DEF Acks, Within
<1>6. Spoken(p, k, P) /\ Met(p, k, C, P) /\ \A f \in Range(J) : f.port = p => f.wnd <= TcpBuf
  <2>1. Spoken(p, k, O) /\ Met(p, k, C, O) /\ \A f \in Range(I) : f.port = p => f.wnd <= TcpBuf
    BY DEF Relays
  <2>2. Spoken(p, k, P)
    BY <2>1, SMTT(30) DEF Spoken, Within
  <2>3. Met(p, k, C, P)
    BY <1>1, <2>1 DEF Met, Within
  <2> QED
    BY <2>1, <2>2, <2>3 DEF Within
<1>7. ASSUME NEW c, Joined(p, c, k, h, O, I)  PROVE Joined(p, c, k, h, P, J)
  <2>1. Bound(p, I) = {} => Bound(p, J) = {}
    BY <1>1
  <2> QED
    BY <1>1, <1>5, <1>7, <2>1 DEF Joined
<1>8. Down(p, k, h, C, O, I) => Down(p, k, h, C, P, J)
  BY <1>1, <1>2, <1>3, <1>7 DEF Down
<1>9. ASSUME NEW c, Carried(p, c, k, h, O)  PROVE Carried(p, c, k, h, P)
  BY <1>1, <1>4, <1>9 DEF Carried
<1>10. Up(p, k, h, C, O) => Up(p, k, h, C, P)
  BY <1>2, <1>9 DEF Up
<1> QED
  BY <1>6, <1>8, <1>10 DEF Relays

\* Of the far side, the way down needs what has been taken and whether more comes.
LEMMA RelaysFar ==
  ASSUME NEW p, NEW k, NEW h, NEW C, NEW O, NEW I, Relays(p, k, h, C, O, I),
         NEW g, g.took = h.took, g.got = h.got, g.shut = h.shut, Over(h) => Over(g), Source(p, g)
  PROVE  Relays(p, k, g, C, O, I)
<1>1. \A f : Placed(f, k, h) => Placed(f, k, g)
  BY DEF Placed
<1>2. \A c : Joined(p, c, k, h, O, I) => Joined(p, c, k, g, O, I)
  BY DEF Joined, Greeting, Flowing
<1>3. \A c : Carried(p, c, k, h, O) => Carried(p, c, k, g, O)
  BY DEF Carried, Taking
<1>4. Down(p, k, h, C, O, I) => Down(p, k, g, C, O, I)
  BY <1>1, <1>2 DEF Down
<1>5. Up(p, k, h, C, O) => Up(p, k, g, C, O)
  BY <1>3 DEF Up
<1> QED
  BY <1>4, <1>5 DEF Relays

\* RInv is shown of one port at a time.
LEMMA NextRelays ==
  ASSUME \A p \in Ports : Relays(p, con'[p], host'[p], Conns(p)', out', in')
  PROVE  RInv'
  BY DEF RInv

LEMMA StillRelays ==
  ASSUME RInv, UNCHANGED <<con, host, out, in, tcp>>
  PROVE  RInv'
<1>1. \A p \in Ports : Conns(p)' = Conns(p)
  BY DEF Conns, SlotsOf
<1> QED
  BY <1>1, NextRelays DEF RInv

\* The far side's steps say nothing to either queue and only lengthen its stream.
LEMMA FarRelays ==
  ASSUME IInv, RInv, FarSide, UNCHANGED tcp
  PROVE  RInv'
<1>1. PICK p \in Ports :
        FarAnswers(p) \/ FarWrites(p) \/ FarEnds(p) \/ FarReads(p) \/ FarResets(p)
  BY DEF FarSide
<1> DEFINE h == host[p]
<1>2. PICK g : /\ host' = [host EXCEPT ![p] = g] /\ UNCHANGED <<con, out, in>>
               /\ \/ h.st = "connecting" /\ \E st \in {"up", "refused"} : g = [h EXCEPT !.st = st]
                  \/ h.st = "up" /\ h.wrote < Answers[p] /\ g = [h EXCEPT !.wrote = h.wrote + 1]
                  \/ h.st = "up" /\ h.wrote = Answers[p] /\ g = [h EXCEPT !.ended = TRUE]
                  \/ h.st = "up" /\ g = [h EXCEPT !.full = FALSE]
                  \/ h.st = "up" /\ g = [h EXCEPT !.st = "reset"]
  BY <1>1 DEF FarAnswers, FarWrites, FarEnds, FarReads, FarResets, Far
<1>3. host \in [Ports -> HostType] /\ h \in HostType /\ Answers[p] \in Nat
  BY Numbers DEF IInv, Types
<1>4. Relays(p, con[p], h, Conns(p), out, in) /\ Source(p, h)
  BY DEF RInv, Relays
<1> HIDE DEF h
<1>5. g.took = h.took /\ g.got = h.got /\ g.shut = h.shut
  BY <1>2, <1>3 DEF HostType
<1>6. Over(h) => Over(g)
  BY <1>2, <1>3, <1>4 DEF HostType, Over, Source
<1>7. Source(p, g)
  BY <1>2, <1>3, <1>4 DEF HostType, Source
<1>8. Relays(p, con[p], g, Conns(p), out, in)
  BY <1>4, <1>5, <1>6, <1>7, RelaysFar
<1>9. \A r \in Ports : Conns(r)' = Conns(r)
  BY DEF Conns, SlotsOf
<1>10. \A r \in Ports : Relays(r, con'[r], host'[r], Conns(r)', out', in')
  BY <1>2, <1>3, <1>8, <1>9 DEF RInv
<1> QED
  BY <1>10, NextRelays

LEMMA InitRelays == Init => RInv
<1> SUFFICES ASSUME Init, NEW p \in Ports
    PROVE  Relays(p, con[p], host[p], Conns(p), out, in)
  BY DEF RInv
<1>1. /\ con[p] = NoCon /\ host[p] = NoHost /\ out = <<>> /\ in = <<>>
      /\ tcp = [s \in Slots |-> FreeTcp]
  BY DEF Init, PeersInit
<1>2. Conns(p) = {}
  BY <1>1, FreeType DEF Conns, SlotsOf
<1>3. /\ NoCon.got = <<>> /\ NoCon.fin = FALSE /\ NoCon.st = "none" /\ NoCon.acked = 0
      /\ NoCon.sent = 0 /\ NoCon.edge = 0 /\ NoCon.shut = FALSE
      /\ NoHost.wrote = 0 /\ NoHost.took = 0 /\ NoHost.ended = FALSE /\ NoHost.got = <<>>
      /\ NoHost.shut = FALSE
  BY DEF NoCon, NoHost
<1>4. Range(<<>>) = {} /\ Len(<<>>) = 0
  BY DEF Range
<1>5. Bound(p, <<>>) = {} /\ Syns(p, <<>>) = {} /\ \A b : Follows(<<>>, b)
  BY <1>4 DEF Bound, Syns, Follows
<1>6. Awaits(NoCon) = 1
  BY <1>3, <1>4 DEF Awaits
<1>7. Sends[p] \in Nat /\ Answers[p] \in Nat /\ TcpBuf \in Nat /\ TcpBuf >= 1
  BY Numbers, Windows
<1>8. Source(p, NoHost)
  BY <1>3, <1>7 DEF Source
<1>9. Spoken(p, NoCon, <<>>) /\ Met(p, NoCon, {}, <<>>)
  BY <1>4, <1>5 DEF Spoken, Met
<1>10. Down(p, NoCon, NoHost, {}, <<>>, <<>>)
  BY <1>3, <1>4, <1>5, <1>6, <1>7 DEF Down, InTurn
<1>11. Up(p, NoCon, NoHost, {}, <<>>)
  BY <1>3, <1>4, <1>5, <1>7 DEF Up, Telling
<1> QED
  BY <1>1, <1>2, <1>4, <1>8, <1>9, <1>10, <1>11 DEF Relays

---------------------------------------------------------------------------
(* The console's steps *)

\* P is O, or O with g behind it.
Adds(O, P, g) ==
  \A i \in 1 .. Len(P) : (i \in 1 .. Len(O) /\ P[i] = O[i]) \/ (i = Len(O) + 1 /\ P[i] = g)

\* What the console says finds the queue full or comes last in it.
LEMMA QueuedAdds ==
  ASSUME NEW O \in Seq(Segments), Len(O) <= OutLen, NEW g \in Segments, NEW P,
         P = O \/ P = Queued(O, g)
  PROVE  P \in Seq(Segments) /\ Adds(O, P, g)
<1>1. CASE P = O
  BY <1>1 DEF Adds
<1>2. CASE P = Queued(O, g)
  <2>1. P \in Seq(Segments) /\ \A i \in DOMAIN P : \/ i \in DOMAIN O /\ P[i] = O[i]
                                                   \/ P[i] = g /\ i = Len(O) + 1
    BY <1>2, QueuedIs
  <2>2. DOMAIN P = 1 .. Len(P) /\ DOMAIN O = 1 .. Len(O)
    BY <2>1
  <2> QED
    BY <2>1, <2>2 DEF Adds
<1> QED
  BY <1>1, <1>2

LEMMA AddsRange ==
  ASSUME NEW O \in Seq(Segments), NEW P \in Seq(Segments), NEW g, Adds(O, P, g)
  PROVE  \A f \in Range(P) : f \in Range(O) \/ f = g
<1>1. ASSUME NEW f \in Range(P)  PROVE f \in Range(O) \/ f = g
  <2>1. PICK i \in 1 .. Len(P) : f = P[i]
    BY RangeOf
  <2>2. (i \in 1 .. Len(O) /\ P[i] = O[i]) \/ P[i] = g
    BY DEF Adds
  <2> QED
    BY <2>1, <2>2, RangeOf
<1> QED
  BY <1>1

\* The console speaks without having got on in the far side's stream.
LEMMA SpeaksDown ==
  ASSUME NEW p, NEW k, Sound(k), NEW d, Sound(d), d.got = k.got, d.fin = k.fin, d.riss = k.riss,
         Room(k) <= Room(d), d.st = k.st \/ (Early(k) /\ Early(d)),
         NEW h, NEW C, NEW O \in Seq(Segments), NEW P \in Seq(Segments),
         NEW I \in Seq(Segments), Down(p, k, h, C, O, I),
         \A c \in C : c \in TcpType,
         NEW g, Adds(O, P, g), "syn" \in g.fl => Early(k),
         Plain(g) => g.ack = Expects(d) /\ g.wnd \in Nat /\ g.wnd <= Room(d)
  PROVE  Down(p, d, h, C, P, I)
<1>1. /\ Awaits(d) = Awaits(k) /\ \A q : Place(d, q) = Place(k, q)
      /\ Early(d) <=> Early(k)
  BY DEF Awaits, Place, Early
<1>2. Edge(k) <= Edge(d)
  BY <1>1, AwaitsIs
<1>3. \A f \in Range(P) : f \in Range(O) \/ f = g
  BY AddsRange
<1>4. Opened(p, d, P) => Opened(p, k, O)
  BY <1>1, <1>3 DEF Opened, Syns
<1>5. ASSUME NEW f \in Segments, Placed(f, k, h)  PROVE Placed(f, d, h)
  <2>1. Place(k, f.seq) \in Int /\ Len(f.data) \in Nat
    BY PlaceOf DEF Segments
  <2>2. Edge(k) \in Int /\ Edge(d) \in Int
    BY AwaitsIs
  <2> QED
    BY <1>1, <1>2, <1>5, <2>1, <2>2 DEF Placed
<1>6. \A f \in Bound(p, I) : f \in Segments
  BY RangeOf DEF Bound
<1>7. Plain(g) => /\ Place(d, g.ack) = Awaits(d) /\ g.wnd \in Nat
                  /\ Place(d, g.ack) + g.wnd <= Edge(d)
  <2>1. Place(d, Expects(d)) = Awaits(d)
    BY PlaceExpects
  <2>2. Awaits(d) \in Nat /\ Room(d) \in Nat /\ Edge(d) = Awaits(d) + Room(d)
    BY AwaitsIs
  <2> QED
    BY <2>1, <2>2
<1>8. ASSUME NEW l \in Int, l <= Awaits(k), Acks(p, k, l, O)
      PROVE  Acks(p, d, l, P)
  <2>1. ASSUME NEW f \in Range(P), f.port = p, Plain(f)
        PROVE  /\ l <= Place(d, f.ack) /\ Place(d, f.ack) <= Awaits(d)
               /\ Place(d, f.ack) + f.wnd <= Edge(d)
    <3>1. CASE f \in Range(O)
      <4>1. f \in Segments
        BY <3>1, RangeOf
      <4>2. Place(d, f.ack) \in Int /\ f.wnd \in Nat /\ Edge(k) \in Int /\ Edge(d) \in Int
        BY <4>1, PlaceOf, AwaitsIs DEF Segments
      <4> QED
        BY <1>1, <1>2, <1>8, <2>1, <3>1, <4>2 DEF Acks
    <3>2. CASE f = g
      BY <1>1, <1>7, <1>8, <2>1, <3>2, AwaitsIs
    <3> QED
      BY <1>3, <3>1, <3>2
  <2>2. ASSUME NEW i \in 1 .. Len(P), NEW j \in 1 .. Len(P), i < j, P[i].port = p,
               P[j].port = p, Plain(P[i]), Plain(P[j])
        PROVE  Place(d, P[i].ack) <= Place(d, P[j].ack)
    <3>1. Len(O) \in Nat /\ P[i] \in Range(P)
      BY LenIs, RangeOf
    <3>2. CASE i \in 1 .. Len(O) /\ P[i] = O[i] /\ j \in 1 .. Len(O) /\ P[j] = O[j]
      BY <1>1, <1>8, <2>2, <3>2 DEF Acks
    <3>3. CASE P[j] = g
      BY <1>7, <2>1, <2>2, <3>1, <3>3
    <3>4. CASE i = Len(O) + 1
      BY <2>2, <3>1, <3>4 DEF Adds
    <3> QED
      BY <3>2, <3>3, <3>4 DEF Adds
  <2> QED
    BY <2>1, <2>2 DEF Acks
<1>9. ASSUME NEW c \in C
      PROVE  Joined(p, c, d, h, P, I)
  <2>1. Joined(p, c, k, h, O, I) /\ c.una \in Seqs /\ c.wnd \in Nat
    BY DEF Down, TcpType
  <2>2. c.syn_acked => Flowing(c, d, h)
    <3>1. Place(k, c.una) \in Int /\ Edge(k) \in Int /\ Edge(d) \in Int
      BY <2>1, PlaceInt
    <3> QED
      BY <1>1, <1>2, <2>1, <3>1 DEF Joined, Flowing
  <2>3. ~c.syn_acked => Greeting(c, h) /\ Awaits(d) = 1 /\ Bound(p, I) = {}
    BY <1>1, <2>1 DEF Joined
  <2>4. d.st = "up" => c.iss = d.riss /\ ~c.connecting
    BY <2>1 DEF Joined, Early
  <2>5. Acks(p, d, Low(c, d), P)
    <3>1. Low(c, d) = Low(c, k)
      BY <1>1 DEF Low
    <3>2. Low(c, k) \in Int /\ Low(c, k) <= Awaits(k)
      BY <2>1, PlaceInt, AwaitsIs DEF Low, Joined, Flowing
    <3> QED
      BY <1>8, <2>1, <3>1, <3>2 DEF Joined
  <2> QED
    BY <2>1, <2>2, <2>3, <2>4, <2>5 DEF Joined
<1>10. InTurn(p, d, I)
  BY <1>1 DEF Down, InTurn
<1>11. \A f \in Bound(p, I) : Placed(f, d, h)
  BY <1>5, <1>6 DEF Down
<1> QED
  BY <1>1, <1>4, <1>9, <1>10, <1>11 DEF Down

\* The console's first answer: its connection stands where the router's SYN said.
LEMMA StandsUp ==
  ASSUME NEW p, NEW k, Sound(k), Early(k), NEW d, Sound(d), d.got = k.got, d.fin = k.fin,
         d.st = "up", NEW f, d.riss = f.seq,
         NEW h, NEW C, \A c, e \in C : c = e,
         NEW O \in Seq(Segments), NEW P \in Seq(Segments), NEW I, NEW J \in Seq(Segments),
         Bound(p, J) \subseteq Bound(p, I), f \in Syns(p, I),
         Spoken(p, k, O), Down(p, k, h, C, O, I),
         NEW g, Adds(O, P, g), g.ack = Expects(d), g.wnd \in Nat, g.wnd <= Room(d)
  PROVE  Down(p, d, h, C, P, J) /\ C # {} /\ \A c \in C : ~c.connecting
<1>1. /\ Awaits(k) = 1 /\ Bound(p, J) = {} /\ \A c \in C : ~c.syn_acked
      /\ \E c \in C : ~c.connecting /\ c.iss = f.seq
  BY DEF Down, Opened
<1>2. C # {} /\ \A c \in C : ~c.connecting /\ c.iss = d.riss
  BY <1>1
<1>3. Awaits(d) = 1 /\ ~Early(d)
  BY <1>1 DEF Awaits, Early
<1>4. Place(d, g.ack) = 1 /\ 1 + g.wnd <= Edge(d)
  BY <1>3, PlaceExpects, AwaitsIs DEF Edge
<1>5. \A i \in 1 .. Len(O) : O[i].port = p => ~Plain(O[i])
  BY RangeOf DEF Spoken
<1>6. ASSUME NEW i \in 1 .. Len(P), P[i].port = p, Plain(P[i])
      PROVE  i = Len(O) + 1 /\ P[i] = g
  BY <1>5, <1>6 DEF Adds
<1>7. Acks(p, d, 1, P)
  <2>1. ASSUME NEW e \in Range(P), e.port = p, Plain(e)  PROVE e = g
    <3>1. PICK i \in 1 .. Len(P) : e = P[i]
      BY RangeOf
    <3> QED
      BY <1>6, <2>1, <3>1
  <2>2. \A i, j \in 1 .. Len(P) :
          ~(i < j /\ P[i].port = p /\ P[j].port = p /\ Plain(P[i]) /\ Plain(P[j]))
    <3>1. Len(O) \in Nat
      BY LenIs
    <3> QED
      BY <1>6, <3>1
  <2> QED
    BY <1>3, <1>4, <2>1, <2>2 DEF Acks
<1>8. ASSUME NEW c \in C  PROVE Joined(p, c, d, h, P, J)
  BY <1>1, <1>2, <1>3, <1>7 DEF Down, Joined, Low
<1>9. /\ Follows(d.got, 0) /\ Len(d.got) <= h.took /\ h.took < Awaits(d) + TcpBuf
  BY <1>1, <1>3 DEF Down
<1>10. InTurn(p, d, J)
  <2>1. \A i \in 1 .. Len(J) : J[i].port = p => ~Carries(J[i])
    BY <1>1, RangeOf DEF Bound
  <2> QED
    BY <2>1 DEF InTurn
<1>11. /\ Opened(p, d, P) => Awaits(d) = 1 /\ Bound(p, J) = {} /\ \A c \in C : ~c.syn_acked
       /\ \A e \in Bound(p, J) : Placed(e, d, h)
       /\ Early(d) => \A e \in Syns(p, J) : \E c \in C : ~c.connecting /\ c.iss = e.seq
  BY <1>1, <1>3
<1> QED
  BY <1>2, <1>8, <1>9, <1>10, <1>11 DEF Down

\* The console takes the bytes it waits for, or the end.
LEMMA GetsOn ==
  ASSUME NEW k, Sound(k), NEW d, Sound(d), NEW f \in Segments, f.seq = Expects(k), k.fin = FALSE,
         d.got = k.got \o f.data, d.fin <=> "fin" \in f.fl, d.read = k.read,
         NEW h \in HostType, Placed(f, k, h),
         Follows(k.got, 0), Len(k.got) <= h.took, h.took < Awaits(k) + TcpBuf
  PROVE  /\ Awaits(d) = Awaits(k) + Len(f.data) + Final(f) /\ Awaits(k) <= Awaits(d)
         /\ Awaits(d) <= h.took + 2 /\ h.took < Awaits(k) + TcpBuf
         /\ Edge(k) <= Edge(d)
         /\ Follows(d.got, 0) /\ Len(d.got) <= h.took
<1>1. h.took \in Nat
  BY DEF HostType
<1>2. /\ Placed(f, k, h)
      /\ Follows(k.got, 0) /\ Len(k.got) <= h.took /\ h.took < Awaits(k) + TcpBuf
  OBVIOUS
<1>3. PICK x \in Nat, n \in Nat, m \in Nat, t \in Nat, e \in Nat :
        /\ e <= 1 /\ x = Awaits(k) /\ n = Len(k.got) /\ m = Len(f.data) /\ t = h.took /\ e = Final(f)
        /\ x = n + 1 /\ Place(k, f.seq) = x /\ k.got \in Bytes /\ f.data \in Bytes
  <2>1. /\ Awaits(k) \in Nat /\ Awaits(k) = Len(k.got) + 1 /\ Len(k.got) \in Nat
        /\ Place(k, f.seq) = Awaits(k) /\ k.got \in Bytes
    BY AwaitsIs, PlaceExpects
  <2>2. f.data \in Bytes /\ Len(f.data) \in Nat /\ Final(f) \in Nat /\ Final(f) <= 1
    BY DEF Bytes, Segments, Final
  <2> QED
    BY <1>1, <2>1, <2>2
<1>4. Follows(f.data, 0 + n)
  BY <1>2, <1>3 DEF Placed
<1>5. d.got = k.got \o f.data /\ Len(d.got) = n + m /\ Follows(d.got, 0)
  BY <1>2, <1>3, <1>4, FollowsOn
<1>6. Awaits(d) = x + m + e
  <2>1. Awaits(d) = 1 + (n + m) + e
    BY <1>3, <1>5 DEF Awaits, Final
  <2>2. x = n + 1
    BY <1>3
  <2> QED
    BY <2>1, <2>2
<1>8. /\ x - 1 + m <= t /\ (e = 1 => m = 0 /\ x = 1 + t) /\ n <= t /\ t < x + TcpBuf
  <2>1. e = 1 => m = 0 /\ x = 1 + t
    <3>1. "fin" \in f.fl => f.data = <<>> /\ x = 1 + t
      BY <1>2, <1>3 DEF Placed
    <3> QED
      BY <1>3, <3>1 DEF Final
  <2> QED
    BY <1>2, <1>3, <2>1 DEF Placed
<1>7. (e = 0 \/ e = 1) /\ x = n + 1
  BY <1>3
<1>9. x + m + e <= t + 2 /\ x <= x + m + e /\ n + m <= t
  <2>1. CASE e = 0
    BY <1>7, <1>8, <2>1
  <2>2. CASE e = 1
    BY <1>7, <1>8, <2>2
  <2> QED
    BY <1>7, <2>1, <2>2
<1>10. Edge(k) <= Edge(d)
  <2>1. PICK r \in Nat, b \in Nat : r = k.read /\ b = ConBuf
    BY Numbers DEF Sound, ConType
  <2>2. Room(k) = b - (n - r) /\ Room(d) = b - ((n + m) - r)
    BY <1>3, <1>5, <2>1 DEF Room
  <2>3. Edge(k) = x + (b - (n - r)) /\ Edge(d) = (x + m + e) + (b - ((n + m) - r))
    BY <1>3, <1>6, <2>2 DEF Edge
  <2>4. x + (b - (n - r)) <= (x + m + e) + (b - ((n + m) - r))
    OBVIOUS
  <2> QED
    BY <2>3, <2>4
<1> QED
  BY <1>2, <1>3, <1>5, <1>6, <1>8, <1>9, <1>10

\* What lies about the place the console waits for stays where it is as it gets on.
LEMMA PlaceStays ==
  ASSUME NEW k, Sound(k), NEW d, Sound(d), d.riss = k.riss, NEW q \in Seqs,
         Awaits(k) <= Awaits(d), Awaits(d) <= Place(k, q) + Reach,
         Place(k, q) <= Awaits(k) + Reach
  PROVE  Place(d, q) = Place(k, q)
<1>1. PICK x \in Int, y \in Int, g \in Int : x = Awaits(k) /\ y = Awaits(d) /\ g = Place(k, q)
  BY PlaceInt
<1>2. PICK b \in Nat, n \in Nat, s \in Nat : b = TcpBuf /\ n = ConBuf /\ s = SeqSpace
  BY Windows
<1>3. 2 * b + 2 * n + 6 <= s /\ x <= y /\ y <= g + (b + 2) /\ g <= x + (b + 2)
  BY <1>1, <1>2, Windows
<1>4. -s <= 2 * (g - y) /\ 2 * (g - y) < s
  BY <1>3
<1> QED
  BY <1>1, <1>2, <1>4, PlaceSame

\* The way down where the console takes a frame it waited for and answers it.
LEMMA GetsOnDown ==
  ASSUME NEW p, NEW k, Sound(k), NEW d, Sound(d), k.st = "up", d.st = "up", d.riss = k.riss,
         NEW f \in Segments, f.port = p, Carries(f), f.seq = Expects(k), k.fin = FALSE,
         d.got = k.got \o f.data, d.fin <=> "fin" \in f.fl, d.read = k.read,
         NEW h \in HostType, NEW I \in Seq(Segments), I # <<>>, f = Head(I),
         NEW C, \A c \in C : c \in TcpType /\ Fits(c), NEW O \in Seq(Segments), NEW P \in Seq(Segments),
         Down(p, k, h, C, O, I),
         NEW g, Adds(O, P, g), "syn" \notin g.fl,
         g.ack = Expects(d), g.wnd \in Nat, g.wnd <= Room(d)
  PROVE  Down(p, d, h, C, P, Tail(I))
<1> DEFINE J == Tail(I)
<1>1. PICK X \in Int, Y \in Int, E \in Int, F \in Int, t \in Nat :
        /\ X = Awaits(k) /\ Y = Awaits(d) /\ E = Edge(k) /\ F = Edge(d) /\ t = h.took
  BY PlaceInt DEF HostType
<1>a. /\ Awaits(d) = Awaits(k) + Len(f.data) + Final(f) /\ Awaits(k) <= Awaits(d)
      /\ Awaits(d) <= h.took + 2 /\ h.took < Awaits(k) + TcpBuf /\ Edge(k) <= Edge(d)
      /\ Follows(d.got, 0) /\ Len(d.got) <= h.took /\ ~Opened(p, k, O)
  <2>1. f \in Bound(p, I)
    BY TailRange DEF Bound
  <2>2. /\ Placed(f, k, h) /\ ~Opened(p, k, O)
        /\ Follows(k.got, 0) /\ Len(k.got) <= h.took /\ h.took < Awaits(k) + TcpBuf
    BY <2>1 DEF Down
  <2> QED
    BY <2>2, GetsOn
<1>3. PICK b \in Nat : b = TcpBuf /\ Reach = b + 2
  BY Windows
<1>2. X <= Y /\ Y <= t + 2 /\ t < X + b /\ E <= F
  BY <1>1, <1>3, <1>a
<1>4. t < Y + b
  BY <1>2
<1>5. /\ f = I[1] /\ J \in Seq(Segments) /\ Len(I) \in Nat /\ Len(I) > 0 /\ Len(J) = Len(I) - 1
      /\ Range(J) \subseteq Range(I) /\ \A i \in 1 .. Len(J) : J[i] = I[i + 1]
  BY TailRange, EmptySeq
<1> HIDE DEF J
<1>6. ASSUME NEW i \in 1 .. Len(J), J[i].port = p, Carries(J[i])
      PROVE  /\ Place(d, J[i].seq) = Place(k, J[i].seq) /\ Y <= Place(k, J[i].seq) + Reach
             /\ J[i] \in Bound(p, I)
  <2>1. J[i] \in Bound(p, I) /\ J[i] \in Segments
    BY <1>5, <1>6, RangeOf DEF Bound
  <2>2. Placed(J[i], k, h)
    BY <2>1 DEF Down
  <2>3. PICK l \in Int, n \in Nat : l = Place(k, J[i].seq) /\ n = Len(J[i].data) /\ J[i].seq \in Seqs
    BY <2>1, FrameInts
  <2>4. l - 1 + n <= t
    BY <1>1, <2>2, <2>3 DEF Placed
  <2>5. X + Len(f.data) + Final(f) <= l + Reach
    <3>1. /\ 1 \in 1 .. Len(I) /\ i + 1 \in 1 .. Len(I) /\ 1 < i + 1
          /\ I[1] = f /\ I[i + 1] = J[i]
      BY <1>5
    <3>2. Place(k, f.seq) = X
      BY <1>1, PlaceExpects
    <3>3. Place(k, I[1].seq) + Len(I[1].data) + Final(I[1]) <= Place(k, I[i + 1].seq) + Reach
      BY <1>6, <3>1 DEF Down, InTurn
    <3> QED
      BY <2>3, <3>1, <3>2, <3>3
  <2>6. l <= X + (b + 2)
    <3>1. l - 1 + n < X + b
      BY <1>2, <2>4
    <3> QED
      BY <3>1, SMTT(30)
  <2>7. Y <= l + Reach /\ l <= X + Reach
    BY <1>1, <1>3, <1>a, <2>5, <2>6
  <2> QED
    BY <1>1, <1>2, <2>1, <2>3, <2>7, PlaceStays
<1>7. \A e \in Bound(p, J) : Placed(e, d, h)
  <2> SUFFICES ASSUME NEW e \in Bound(p, J)  PROVE Placed(e, d, h)
    OBVIOUS
  <2>1. PICK i \in 1 .. Len(J) : e = J[i] /\ J[i].port = p /\ Carries(J[i])
    BY <1>5, RangeOf, SMTT(30) DEF Bound
  <2>2. /\ Place(d, e.seq) = Place(k, e.seq) /\ Y <= Place(k, e.seq) + Reach
        /\ e \in Bound(p, I) /\ e \in Segments
    BY <1>5, <1>6, <2>1, RangeOf DEF Bound
  <2>3. Placed(e, k, h)
    BY <2>2 DEF Down
  <2>4. Place(k, e.seq) + Len(e.data) <= Edge(k) => Place(k, e.seq) + Len(e.data) <= Edge(d)
    <3>1. PICK l \in Int, n \in Nat : l = Place(k, e.seq) /\ n = Len(e.data)
      BY <2>2, FrameInts
    <3>2. l + n <= E => l + n <= F
      BY <1>2
    <3> QED
      BY <1>1, <2>2, <3>1, <3>2
  <2> QED
    BY <1>1, <2>2, <2>3, <2>4 DEF Placed
<1>8. InTurn(p, d, J)
  <2>1. InTurn(p, k, J)
    <3>1. ASSUME NEW i \in 1 .. Len(J), NEW j \in 1 .. Len(J), i < j, J[i].port = p,
                 J[j].port = p, Carries(J[i]), Carries(J[j])
          PROVE  Place(k, J[i].seq) + Len(J[i].data) + Final(J[i]) <= Place(k, J[j].seq) + Reach
      <4>1. i + 1 \in 1 .. Len(I) /\ j + 1 \in 1 .. Len(I) /\ i + 1 < j + 1
            /\ I[i + 1] = J[i] /\ I[j + 1] = J[j]
        <5>1. i + 1 \in 1 .. Len(I) /\ j + 1 \in 1 .. Len(I) /\ i + 1 < j + 1
          BY <1>5, <3>1, SMTT(30)
        <5> QED
          BY <1>5, <5>1
      <4> QED
        BY <3>1, <4>1 DEF Down, InTurn
    <3> QED
      BY <3>1 DEF InTurn
  <2> QED
    BY <1>6, <2>1 DEF InTurn
<1>9. ASSUME NEW c \in C
      PROVE  Joined(p, c, d, h, P, J)
  <2>1. Joined(p, c, k, h, O, I) /\ c \in TcpType /\ Fits(c) /\ c.syn_acked
    <3>1. f \in Bound(p, I)
      BY TailRange DEF Bound
    <3> QED
      BY <3>1 DEF Down, Joined
  <2>2. PICK u \in Int, n \in Int, l \in Nat, w \in Nat :
          /\ u = Place(k, c.una) /\ n = Place(k, c.nxt) /\ l = Len(c.tx) /\ w = c.wnd
          /\ {c.una, c.nxt, c.tx_seq} \subseteq Seqs
    BY <2>1, TcpInts
  <2>3. /\ t - l >= 0 /\ Place(k, c.tx_seq) = 1 + (t - l) /\ 1 + (t - l) <= u /\ u <= n
        /\ n <= t + 2 /\ u <= X /\ u + w <= E
    BY <1>1, <2>1, <2>2 DEF Joined, Flowing
  <2>4. l <= b
    BY <1>3, <2>1, <2>2 DEF Fits
  <2>5. /\ Y <= (1 + (t - l)) + (b + 2) /\ 1 + (t - l) <= X + (b + 2)
        /\ Y <= u + (b + 2) /\ u <= X + (b + 2) /\ Y <= n + (b + 2) /\ n <= X + (b + 2)
    BY <1>2, <1>4, <2>3, <2>4
  <2>6. /\ Place(d, c.tx_seq) = Place(k, c.tx_seq) /\ Place(d, c.una) = u
        /\ Place(d, c.nxt) = n
    <3>1. \A q \in Seqs : Y <= Place(k, q) + (b + 2) /\ Place(k, q) <= X + (b + 2)
                          => Place(d, q) = Place(k, q)
      BY <1>1, <1>2, <1>3, PlaceStays
    <3> QED
      BY <2>2, <2>3, <2>5, <3>1
  <2>7. u <= Y /\ u + w <= F
    BY <1>2, <2>3
  <2>8. Flowing(c, d, h)
    BY <1>1, <2>1, <2>2, <2>6, <2>7 DEF Joined, Flowing
  <2>9. Acks(p, d, Low(c, d), P)
    <3>1. Low(c, d) = u /\ Low(c, k) = u /\ Acks(p, k, u, O)
      BY <2>1, <2>2, <2>6 DEF Low, Joined
    <3>2. ASSUME NEW e \in Range(O), e.port = p, Plain(e)
          PROVE  /\ Place(d, e.ack) = Place(k, e.ack) /\ u <= Place(d, e.ack)
                 /\ Place(d, e.ack) <= Y /\ Place(d, e.ack) + e.wnd <= F
      <4>1. PICK a \in Int, v \in Nat : a = Place(k, e.ack) /\ v = e.wnd /\ e.ack \in Seqs
        <5>1. e \in Segments
          BY <3>2, RangeOf
        <5> QED
          BY <5>1, FrameInts
      <4>2. u <= a /\ a <= X /\ a + v <= E
        BY <1>1, <3>1, <3>2, <4>1 DEF Acks
      <4>3. Y <= a + (b + 2) /\ a <= X + (b + 2) /\ a <= Y /\ a + v <= F
        <5>1. Y <= u + (b + 2) /\ X <= Y /\ E <= F
          BY <1>2, <2>5
        <5> QED
          BY <4>2, <5>1, SMTT(30)
      <4> QED
        BY <1>1, <1>2, <1>3, <4>1, <4>2, <4>3, PlaceStays
    <3>3. /\ Place(d, g.ack) = Y /\ u <= Y /\ Y + g.wnd <= F
      BY <1>1, <2>7, PlaceExpects, AwaitsIs, SMTT(30)
    <3>4. \A e \in Range(P) : e \in Range(O) \/ e = g
      BY AddsRange
    <3>5. ASSUME NEW i \in 1 .. Len(P), NEW j \in 1 .. Len(P), i < j, P[i].port = p,
                 P[j].port = p, Plain(P[i]), Plain(P[j])
          PROVE  Place(d, P[i].ack) <= Place(d, P[j].ack)
      <4>1. Len(O) \in Nat /\ P[i] \in Range(P)
        BY LenIs, RangeOf
      <4>2. CASE i \in 1 .. Len(O) /\ P[i] = O[i] /\ j \in 1 .. Len(O) /\ P[j] = O[j]
        <5>1. O[i] \in Range(O) /\ O[j] \in Range(O)
          BY <4>2, RangeOf
        <5> QED
          BY <3>1, <3>2, <3>5, <4>2, <5>1 DEF Acks
      <4>3. CASE P[j] = g
        <5>1. P[i] \in Range(O) => Place(d, P[i].ack) <= Y
          BY <3>2, <3>5
        <5>2. Y <= Y
          OBVIOUS
        <5> QED
          BY <3>3, <3>4, <4>1, <4>3, <5>1, <5>2
      <4>4. CASE i = Len(O) + 1
        BY <3>5, <4>1, <4>4 DEF Adds
      <4> QED
        BY <4>2, <4>3, <4>4 DEF Adds
    <3>6. ASSUME NEW e \in Range(P), e.port = p, Plain(e)
          PROVE  /\ u <= Place(d, e.ack) /\ Place(d, e.ack) <= Y
                 /\ Place(d, e.ack) + e.wnd <= F
      BY <3>2, <3>3, <3>4, <3>6
    <3> QED
      BY <1>1, <3>1, <3>5, <3>6 DEF Acks
  <2> QED
    BY <1>5, <2>1, <2>8, <2>9 DEF Joined, Bound
<1>10. ~Opened(p, d, P) /\ ~Early(d)
  <2>1. \A e \in Range(P) : e \in Range(O) \/ e = g
    BY AddsRange
  <2> QED
    BY <1>a, <2>1 DEF Opened, Syns, Early
<1>11. /\ Follows(d.got, 0) /\ Len(d.got) <= h.took /\ h.took < Awaits(d) + TcpBuf
  BY <1>1, <1>3, <1>4, <1>a
<1> QED
  BY <1>7, <1>8, <1>9, <1>10, <1>11 DEF Down, J

\* The console says something of its own stream: from place m on.
Utters(p, d, m, g) ==
  /\ d.acked <= m /\ m <= Sends[p] /\ g.seq = Plus(ConIss, 1 + m) /\ Plain(g)
  /\ g.data = IF m < Sends[p] THEN <<m + 1>> ELSE <<>>
  /\ "fin" \in g.fl => d.shut /\ m + Len(g.data) = Sends[p]
  /\ m + Len(g.data) + Final(g) <= Top(p, d)

\* What the console may say next is not beyond what the router has room for.
LEMMA TopNear ==
  ASSUME NEW p \in Ports, NEW k, Sound(k), Telling(p, k)
  PROVE  /\ Top(p, k) \in Nat /\ Top(p, k) <= k.acked + TcpBuf + 1 /\ k.sent <= Top(p, k)
         /\ Sends[p] \in Nat /\ k.sent \in Nat /\ k.acked \in Nat /\ k.edge \in Nat
<1>1. PICK n \in Nat, s \in Nat, a \in Nat, b \in Nat :
        n = Sends[p] /\ s = k.sent /\ a = k.acked /\ b = TcpBuf /\ k.shut \in BOOLEAN
        /\ k.edge \in Nat
  BY Numbers DEF Sound, ConType
<1>3. CASE k.shut
  <2>1. Top(p, k) = n + 1
    BY <1>1, <1>3 DEF Top
  <2>2. s <= n + 1
    BY <1>1 DEF Telling
  <2>3. n <= a + b
    <3>1. (s <= a + b \/ n <= a + b) /\ s >= n
      BY <1>1, <1>3 DEF Telling
    <3> QED
      BY <3>1
  <2>4. n + 1 <= a + b + 1 /\ n + 1 \in Nat
    BY <2>3
  <2> QED
    BY <1>1, <2>1, <2>2, <2>4
<1>4. CASE ~k.shut
  <2>1. Top(p, k) = s
    BY <1>1, <1>4 DEF Top
  <2>2. s <= n
    <3>1. s <= n + 1 /\ s # n + 1
      BY <1>1, <1>4 DEF Telling
    <3> QED
      BY <3>1
  <2>3. s <= a + b \/ n <= a + b
    BY <1>1 DEF Telling
  <2>4. s <= a + b + 1
    BY <2>2, <2>3
  <2> QED
    BY <1>1, <2>1, <2>4
<1> QED
  BY <1>3, <1>4

\* The console speaks, and what it says belongs behind what it has said.
LEMMA SpeaksUp ==
  ASSUME NEW p \in Ports, NEW k, Sound(k), NEW d, Sound(d),
         NEW h \in HostType, NEW C, \A c \in C : c \in TcpType /\ d.acked <= Taking(c, h),
         NEW O \in Seq(Segments), NEW P \in Seq(Segments), NEW g \in Segments, Adds(O, P, g),
         Spoken(p, k, O), Met(p, k, C, O), Up(p, k, h, C, O),
         Telling(p, d), k.shut => d.shut, Top(p, k) <= Top(p, d),
         k.st = "gone" => d.st = "gone", Early(d) => Early(k),
         "syn" \in g.fl => Early(k) /\ Early(d), "rst" \in g.fl => d.st = "gone",
         Plain(g) => ~Early(d),
         d.st = "up" \/ Plain(g) => k.st = "up" \/ (C # {} /\ \A c \in C : ~c.connecting),
         Opened(p, k, O) => d.got = <<>> /\ ~d.fin,
         Carries(g) => \E m \in Nat : Utters(p, d, m, g)
  PROVE  Spoken(p, d, P) /\ Met(p, d, C, P) /\ Up(p, d, h, C, P)
<1>1. \A f \in Range(P) : f \in Range(O) \/ f = g
  BY AddsRange
<1>2. Opened(p, d, P) => Opened(p, k, O)
  BY <1>1 DEF Opened, Syns
<1>3. Len(O) \in Nat /\ \A i \in 1 .. Len(O) : O[i] \in Range(O)
  BY LenIs, RangeOf
<1>4. Spoken(p, d, P)
  <2>1. \A f \in Range(P) : f.port = p => /\ "rst" \in f.fl => d.st = "gone"
                                          /\ Plain(f) => ~Early(d)
                                          /\ Carries(f) => Plain(f)
    BY <1>1 DEF Spoken, Utters
  <2>2. ASSUME NEW i \in 1 .. Len(P), NEW j \in 1 .. Len(P), i < j, P[i].port = p,
               P[j].port = p, "syn" \in P[j].fl
        PROVE  "syn" \in P[i].fl
    <3>1. CASE i \in 1 .. Len(O) /\ P[i] = O[i] /\ j \in 1 .. Len(O) /\ P[j] = O[j]
      BY <2>2, <3>1 DEF Spoken
    <3>2. CASE i \in 1 .. Len(O) /\ P[i] = O[i] /\ P[j] = g
      <4>1. Early(k) /\ ("rst" \in O[i].fl => k.st = "gone") /\ (Plain(O[i]) => ~Early(k))
        BY <1>3, <2>2, <3>2 DEF Spoken
      <4> QED
        BY <3>2, <4>1 DEF Plain, Early
    <3>3. CASE i = Len(O) + 1
      BY <1>3, <2>2, <3>3 DEF Adds
    <3> QED
      BY <3>1, <3>2, <3>3 DEF Adds
  <2> QED
    BY <2>1, <2>2 DEF Spoken
<1>5. Met(p, d, C, P)
  <2> SUFFICES ASSUME Syns(p, P) # {},
                      d.st = "up" \/ \E f \in Range(P) : f.port = p /\ Plain(f)
               PROVE  C # {} /\ \A c \in C : ~c.connecting
    BY DEF Met
  <2>1. CASE k.st # "up" /\ (d.st = "up" \/ Plain(g))
    BY <2>1
  <2>2. CASE k.st = "up" \/ \E f \in Range(O) : f.port = p /\ Plain(f)
    <3>1. ~Early(k)
      BY <2>2 DEF Spoken, Early
    <3>2. Syns(p, O) # {}
      BY <1>1, <3>1 DEF Syns
    <3> QED
      BY <2>2, <3>2 DEF Met
  <2> QED
    BY <1>1, <2>1, <2>2
<1>6. ASSUME NEW c \in C  PROVE Carried(p, c, d, h, P)
  <2>1. Carried(p, c, k, h, O) /\ Telling(p, k) /\ c \in TcpType /\ d.acked <= Taking(c, h)
    BY DEF Up
  <2>2. PICK a \in Nat, t \in Nat, s \in Nat, n \in Nat, x \in Nat, b \in Nat :
          /\ a = Taking(c, h) /\ t = Top(p, k) /\ s = Top(p, d) /\ n = Sends[p]
          /\ x = d.acked /\ b = TcpBuf
    <3>1. Taking(c, h) \in Nat
      BY <2>1, TakingIs
    <3>2. Top(p, k) \in Nat /\ Top(p, d) \in Nat /\ Sends[p] \in Nat /\ d.acked \in Nat
      BY <2>1, TopNear
    <3> QED
      BY <3>1, <3>2, Numbers
  <2>3. a <= t /\ t <= s /\ x <= a /\ s <= x + b + 1
    BY <2>1, <2>2, TopNear DEF Carried
  <2>4. ASSUME NEW f \in Segments, Stood(p, k, a, f)  PROVE Stood(p, d, a, f)
    <3>1. PICK m \in Int, l \in Nat, e \in Nat :
            m = Stands(a, f.seq) /\ l = Len(f.data) /\ e = Final(f)
      <4>1. f.seq \in Seqs /\ Len(f.data) \in Nat /\ Final(f) \in Nat
        BY DEF Segments, Final
      <4> QED
        BY <4>1, StandsOf
    <3>2. m + l + e <= t
      BY <2>2, <2>4, <3>1 DEF Stood
    <3>3. m + l + e <= s
      BY <2>3, <3>2
    <3> QED
      BY <2>2, <2>4, <3>1, <3>3 DEF Stood
  <2>5. ASSUME Carries(g)
        PROVE  /\ Stood(p, d, a, g)
               /\ \A e \in Int : e <= t => e <= Stands(a, g.seq) + TcpBuf + 1
    <3>1. PICK m \in Nat : Utters(p, d, m, g)
      BY <2>5
    <3>2. /\ x <= m /\ m <= n /\ g.seq = Plus(ConIss, 1 + m)
          /\ g.data = IF m < Sends[p] THEN <<m + 1>> ELSE <<>>
          /\ "fin" \in g.fl => d.shut /\ m + Len(g.data) = Sends[p]
          /\ m + Len(g.data) + Final(g) <= Top(p, d)
      BY <2>2, <3>1 DEF Utters
    <3>3. m <= s
      <4>1. Len(g.data) \in Nat /\ Final(g) \in Nat
        BY DEF Segments, Final
      <4> QED
        BY <2>2, <3>2, <4>1
    <3>4. a <= m + b + 1 /\ m <= a + b + 1
      BY <2>3, <3>2, <3>3
    <3>5. Stands(a, Plus(ConIss, 1 + m)) = m
      <4>1. PICK S \in Nat : S = SeqSpace /\ 2 * b + 4 < S
        BY <2>2, Windows
      <4>2. -S <= 2 * (m - a) /\ 2 * (m - a) < S
        BY <3>4, <4>1
      <4> QED
        BY <4>1, <4>2, StandsIs
    <3>6. Stood(p, d, a, g)
      <4>1. Stands(a, g.seq) = m /\ 0 <= m /\ a <= m + TcpBuf + 1
        BY <2>2, <3>2, <3>4, <3>5
      <4> QED
        BY <3>2, <4>1 DEF Stood
    <3>7. \A e \in Int : e <= t => e <= m + b + 1
      BY <2>3, <3>2
    <3> QED
      BY <2>2, <3>2, <3>5, <3>6, <3>7
  <2>6. \A f \in Bound(p, P) : Stood(p, d, a, f)
    <3> SUFFICES ASSUME NEW f \in Bound(p, P)  PROVE Stood(p, d, a, f)
      OBVIOUS
    <3>1. CASE f \in Range(O)
      <4>1. f \in Bound(p, O) /\ f \in Segments
        BY <3>1, RangeOf DEF Bound
      <4> QED
        BY <2>1, <2>2, <2>4, <4>1 DEF Carried
    <3> QED
      BY <1>1, <2>5, <3>1 DEF Bound
  <2>7. InOrder(p, a, P)
    <3> SUFFICES ASSUME NEW i \in 1 .. Len(P), NEW j \in 1 .. Len(P), i < j, P[i].port = p,
                        P[j].port = p, Carries(P[i]), Carries(P[j])
                 PROVE  Stands(a, P[i].seq) + Len(P[i].data) + Final(P[i])
                          <= Stands(a, P[j].seq) + TcpBuf + 1
      BY DEF InOrder
    <3>1. CASE i \in 1 .. Len(O) /\ P[i] = O[i] /\ j \in 1 .. Len(O) /\ P[j] = O[j]
      BY <2>1, <2>2, <3>1 DEF Carried, InOrder
    <3>2. CASE i \in 1 .. Len(O) /\ P[i] = O[i] /\ P[j] = g
      <4>1. O[i] \in Segments /\ O[i] \in Bound(p, O)
        BY <1>3, <3>2, RangeOf DEF Bound
      <4>2. PICK m \in Int, l \in Nat, e \in Nat :
              m = Stands(a, O[i].seq) /\ l = Len(O[i].data) /\ e = Final(O[i])
        <5>1. O[i].seq \in Seqs /\ Len(O[i].data) \in Nat /\ Final(O[i]) \in Nat
          BY <4>1, FrameLens
        <5> QED
          BY <5>1, StandsOf
      <4>3. m + l + e <= t
        BY <2>1, <2>2, <4>1, <4>2 DEF Carried, Stood
      <4>4. m + l + e \in Int
        OBVIOUS
      <4>5. m + l + e <= Stands(a, P[j].seq) + TcpBuf + 1
        BY <2>5, <3>2, <4>3, <4>4
      <4> QED
        BY <3>2, <4>2, <4>5
    <3>3. CASE i = Len(O) + 1
      BY <1>3, <3>3 DEF Adds
    <3> QED
      BY <3>1, <3>2, <3>3 DEF Adds
  <2>8. Taking(c, h) <= Top(p, d)
    BY <2>2, <2>3
  <2> QED
    BY <2>1, <2>2, <2>6, <2>7, <2>8 DEF Carried
<1> QED
  BY <1>2, <1>4, <1>5, <1>6 DEF Up

\* A step of the console at port p, as it is seen from every port.
LEMMA ConsoleRelays ==
  ASSUME IInv, IInv', RInv, UNCHANGED <<host, tcp>>,
         NEW p \in Ports, NEW d, Sound(d), con' = [con EXCEPT ![p] = d],
         NEW g \in Segments, g.port = p, out' = out \/ out' = Queued(out, g),
         in' = in \/ (in # <<>> /\ in' = Tail(in)),
         Telling(p, d), con[p].shut => d.shut, Top(p, con[p]) <= Top(p, d),
         con[p].st = "gone" => d.st = "gone", Early(d) => Early(con[p]),
         "syn" \in g.fl => Early(con[p]) /\ Early(d), "rst" \in g.fl => d.st = "gone",
         Plain(g) => ~Early(d),
         d.st = "up" \/ Plain(g)
           => con[p].st = "up" \/ (Conns(p) # {} /\ \A c \in Conns(p) : ~c.connecting),
         Opened(p, con[p], out) => d.got = <<>> /\ ~d.fin,
         Carries(g) => \E m \in Nat : Utters(p, d, m, g),
         d.st # "gone" => Down(p, d, host[p], Conns(p), out', in')
  PROVE  RInv'
<1>1. /\ con \in [Ports -> ConType] /\ con'[p] = d /\ Sound(con[p])
      /\ \A q \in Ports \ {p} : con'[q] = con[q]
  BY ConSound
<1>2. /\ out \in Seq(Segments) /\ in \in Seq(Segments) /\ Len(out) <= OutLen
      /\ out' \in Seq(Segments) /\ in' \in Seq(Segments) /\ host[p] \in HostType
  BY DEF IInv, Types
<1>3. \A q \in Ports : Conns(q)' = Conns(q)
  BY DEF Conns, SlotsOf
<1>4. \A q \in Ports : Within(q, in', in)
  BY <1>2, TailWithin, SameWithin
<1>5. \A q \in Ports \ {p} : Within(q, out', out)
  <2>1. CASE out' = out
    BY <2>1, SameWithin
  <2>2. CASE out' = Queued(out, g)
    <3>1. Grown(out, out', {g})
      BY <1>2, <2>2, QueuedGrows
    <3> QED
      BY <1>2, <3>1, GrownWithin
  <2> QED
    BY <2>1, <2>2
<1>6. ASSUME NEW q \in Ports \ {p}
      PROVE  Relays(q, con'[q], host'[q], Conns(q)', out', in')
  <2>1. Relays(q, con[q], host[q], Conns(q), out', in')
    BY <1>4, <1>5, RelaysThins DEF RInv
  <2> QED
    BY <1>1, <1>3, <2>1
<1>7. Relays(p, d, host[p], Conns(p), out', in')
  <2>1. Relays(p, con[p], host[p], Conns(p), out, in)
    BY DEF RInv
  <2>2. Adds(out, out', g)
    BY <1>2, QueuedAdds
  <2>3. ASSUME NEW c \in Conns(p)  PROVE c \in TcpType /\ d.acked <= Taking(c, host[p])
    <3>1. PICK s \in Slots : c = tcp[s] /\ tcp[s].used /\ tcp[s].port = p
      BY DEF Conns, SlotsOf
    <3>2. Honest(s)'
      BY <3>1 DEF IInv
    <3>3. con'[p].acked <= Taking(tcp[s], host[p])
      BY <3>1, <3>2 DEF Honest, Taking
    <3> QED
      BY <1>1, <3>1, <3>3 DEF IInv, Types
  <2>4. Spoken(p, con[p], out) /\ Met(p, con[p], Conns(p), out) /\ Up(p, con[p], host[p], Conns(p), out)
    BY <2>1 DEF Relays
  <2>5. Spoken(p, d, out') /\ Met(p, d, Conns(p), out') /\ Up(p, d, host[p], Conns(p), out')
    BY <1>1, <1>2, <2>2, <2>3, <2>4, SpeaksUp
  <2>6. \A f \in Range(in') : f.port = p => f.wnd <= TcpBuf
    BY <1>4, <2>1 DEF Relays, Within
  <2> QED
    BY <2>1, <2>5, <2>6 DEF Relays
<1> QED
  BY <1>1, <1>3, <1>6, <1>7, NextRelays

\* One that does not get on in the far side's stream.
LEMMA SpeaksRelays ==
  ASSUME IInv, IInv', RInv, UNCHANGED <<host, tcp>>,
         NEW p \in Ports, NEW d, Sound(d), con' = [con EXCEPT ![p] = d],
         d.got = con[p].got, d.fin = con[p].fin, d.riss = con[p].riss, Room(con[p]) <= Room(d),
         d.st = con[p].st \/ d.st = "gone" \/ (Early(con[p]) /\ Early(d)),
         NEW g \in Segments, g.port = p, out' = out \/ out' = Queued(out, g),
         in' = in \/ (in # <<>> /\ in' = Tail(in)),
         Telling(p, d), con[p].shut => d.shut, Top(p, con[p]) <= Top(p, d),
         con[p].st = "gone" => d.st = "gone",
         "syn" \in g.fl => Early(con[p]) /\ Early(d), "rst" \in g.fl => d.st = "gone",
         Plain(g) => con[p].st = "up" /\ g.ack = Expects(d) /\ g.wnd \in Nat /\ g.wnd <= Room(d),
         Carries(g) => \E m \in Nat : Utters(p, d, m, g)
  PROVE  RInv'
<1>1. /\ Sound(con[p]) /\ out \in Seq(Segments) /\ in \in Seq(Segments) /\ Len(out) <= OutLen
      /\ in' \in Seq(Segments)
  BY ConSound DEF IInv, Types
<1>2. Relays(p, con[p], host[p], Conns(p), out, in')
  <2>1. Within(p, in', in) /\ Within(p, out, out)
    BY <1>1, TailWithin, SameWithin
  <2> QED
    BY <2>1, RelaysThins DEF RInv
<1>3. \A c \in Conns(p) : c \in TcpType
  BY DEF Conns, SlotsOf, IInv, Types
<1>4. d.st # "gone" => Down(p, d, host[p], Conns(p), out', in')
  <2> SUFFICES ASSUME d.st # "gone"  PROVE Down(p, d, host[p], Conns(p), out', in')
    OBVIOUS
  <2>1. d.st = con[p].st \/ (Early(con[p]) /\ Early(d))
    OBVIOUS
  <2>2. Down(p, con[p], host[p], Conns(p), out, in') /\ con[p].st # "gone"
    BY <1>2 DEF Relays
  <2>3. out' \in Seq(Segments) /\ Adds(out, out', g)
    BY <1>1, QueuedAdds
  <2> QED
    BY <1>1, <1>3, <2>1, <2>2, <2>3, SpeaksDown
<1>5. (Early(d) => Early(con[p])) /\ (Plain(g) => ~Early(d))
      /\ (d.st = "up" \/ Plain(g) => con[p].st = "up")
  BY DEF Early
<1>6. Opened(p, con[p], out) => d.got = <<>> /\ ~d.fin
  BY <1>2 DEF Relays, Up
<1> QED
  BY <1>4, <1>5, <1>6, ConsoleRelays

\* What the console says.
LEMMA AckIs ==
  ASSUME NEW p \in Ports, NEW c, Sound(c)
  PROVE  /\ AckOf(p, c) \in Segments /\ AckOf(p, c).port = p /\ AckOf(p, c).fl = {"ack"}
         /\ AckOf(p, c).ack = Expects(c) /\ AckOf(p, c).wnd = Room(c) /\ ~Carries(AckOf(p, c))
         /\ Room(c) \in Nat
<1>1. /\ AckOf(p, c) \in Segments /\ ~Carries(AckOf(p, c)) /\ Room(c) \in Nat
  BY WordIs, AwaitsIs
<1>2. AckOf(p, c).port = p /\ AckOf(p, c).fl = {"ack"} /\ AckOf(p, c).ack = Expects(c)
      /\ AckOf(p, c).wnd = Room(c)
  BY DEF AckOf, Speak
<1> QED
  BY <1>1, <1>2

\* The frames the console makes.
LEMMA RstIs ==
  ASSUME NEW p \in Ports, NEW c, Sound(c)
  PROVE  /\ RstOf(p, c) \in Segments /\ RstOf(p, c).port = p /\ RstOf(p, c).fl = {"rst"}
         /\ ~Plain(RstOf(p, c)) /\ ~Carries(RstOf(p, c))
<1>1. RstOf(p, c).port = p /\ RstOf(p, c).fl = {"rst"}
  BY DEF RstOf, Speak
<1> QED
  BY <1>1, WordIs DEF Plain

LEMMA SaidIs ==
  ASSUME NEW p \in Ports, NEW c, Sound(c), NEW m \in Nat
  PROVE  /\ Said(p, c, m) \in Segments /\ Said(p, c, m).port = p
         /\ Said(p, c, m).fl \cap {"syn", "rst"} = {}
         /\ Said(p, c, m).ack = Expects(c) /\ Said(p, c, m).wnd = Room(c)
         /\ Said(p, c, m).seq = Plus(ConIss, 1 + m)
         /\ Said(p, c, m).data = (IF m < Sends[p] THEN <<m + 1>> ELSE <<>>)
         /\ "fin" \in Said(p, c, m).fl <=> c.shut /\ m + 1 >= Sends[p]
         /\ Room(c) \in Nat
<1>1. Said(p, c, m) \in Segments /\ Room(c) \in Nat
  BY SaidType, AwaitsIs
<1> DEFINE fl == {"ack"} \cup (IF c.shut /\ m + 1 >= Sends[p] THEN {"fin"} ELSE {})
           data == IF m < Sends[p] THEN <<m + 1>> ELSE <<>>
           g == Said(p, c, m)
<1>2. /\ "ack" \in fl /\ fl \cap {"syn", "rst"} = {}
      /\ "fin" \in fl <=> c.shut /\ m + 1 >= Sends[p]
  OBVIOUS
<1>3. g = Speak(p, c, 1 + m, fl, data)
  BY DEF Said
<1> HIDE DEF fl
<1>4. /\ g.port = p /\ g.fl = fl /\ g.ack = Expects(c) /\ g.wnd = Room(c)
      /\ g.seq = Plus(ConIss, 1 + m) /\ g.data = data
  BY <1>2, <1>3 DEF Speak
<1> QED
  BY <1>1, <1>2, <1>4

\* What holds of any port's console.
LEMMA ConTells ==
  ASSUME IInv, RInv, NEW p \in Ports
  PROVE  /\ Telling(p, con[p]) /\ Sound(con[p]) /\ con[p] \in ConType /\ con \in [Ports -> ConType]
         /\ Relays(p, con[p], host[p], Conns(p), out, in)
  BY ConSound DEF RInv, Relays, Up

\* Of what the console has said and been told nothing changes.
LEMMA TellsSame ==
  ASSUME NEW p, NEW k, NEW d, d.acked = k.acked, d.sent = k.sent, d.edge = k.edge,
         d.shut = k.shut
  PROVE  (Telling(p, k) => Telling(p, d)) /\ Top(p, d) = Top(p, k)
  BY DEF Telling, Top

\* The title's steps, one after the other.
LEMMA TitleOpensRelays ==
  ASSUME IInv, IInv', RInv, UNCHANGED <<tcp, loop>>, NEW p \in Ports, TitleOpens(p)
  PROVE  RInv'
<1> DEFINE k == con[p]
           d == [k EXCEPT !.st = "syn"]
           g == SynOf(p)
<1>1. /\ UNCHANGED <<in, host>> /\ k.st = "none" /\ con' = [con EXCEPT ![p] = d]
      /\ out' = Queued(out, g)
  BY DEF TitleOpens
<1>2. Sound(k) /\ k \in ConType /\ Telling(p, k)
  BY ConTells
<1> HIDE DEF k
<1>3. /\ d \in ConType /\ d.st = "syn" /\ d.got = k.got /\ d.fin = k.fin /\ d.riss = k.riss
      /\ d.read = k.read /\ d.acked = k.acked /\ d.sent = k.sent /\ d.edge = k.edge
      /\ d.shut = k.shut
  BY <1>2 DEF ConType
<1> HIDE DEF d
<1>4. Sound(d) /\ Room(d) = Room(k) /\ Room(k) \in Nat
  BY <1>2, <1>3, AwaitsIs DEF Sound, Room
<1>5. g \in Segments /\ g.port = p /\ g.fl = {"syn"} /\ ~Carries(g)
  BY SynIs
<1> HIDE DEF g
<1>6. Telling(p, d) /\ Top(p, k) \in Nat /\ Top(p, d) = Top(p, k)
  BY <1>2, <1>3, TellsSame, TopNear
<1>7. Early(k) /\ Early(d) /\ ~Plain(g) /\ Top(p, k) <= Top(p, d) /\ Room(k) <= Room(d)
  BY <1>1, <1>3, <1>4, <1>5, <1>6 DEF Early, Plain
<1> QED
  BY <1>1, <1>3, <1>4, <1>5, <1>6, <1>7, SpeaksRelays DEF k

LEMMA TitleFinishesRelays ==
  ASSUME IInv, IInv', RInv, UNCHANGED <<tcp, loop>>, NEW p \in Ports, TitleFinishes(p)
  PROVE  RInv'
<1> DEFINE k == con[p]
           d == [k EXCEPT !.shut = TRUE]
           g == AckOf(p, d)
<1>1. /\ UNCHANGED <<in, host, out>> /\ k.st = "up" /\ k.sent = Sends[p]
      /\ con' = [con EXCEPT ![p] = d]
  BY DEF TitleFinishes
<1>2. Sound(k) /\ k \in ConType /\ Telling(p, k)
  BY ConTells
<1> HIDE DEF k
<1>3. /\ d \in ConType /\ d.st = "up" /\ d.got = k.got /\ d.fin = k.fin /\ d.riss = k.riss
      /\ d.read = k.read /\ d.acked = k.acked /\ d.sent = k.sent /\ d.edge = k.edge
      /\ d.shut = TRUE
  BY <1>1, <1>2 DEF ConType
<1> HIDE DEF d
<1>4. Sound(d) /\ Room(d) = Room(k) /\ Room(k) \in Nat
  BY <1>2, <1>3, AwaitsIs DEF Sound, Room
<1>5. /\ g \in Segments /\ g.port = p /\ g.fl = {"ack"} /\ ~Carries(g) /\ g.ack = Expects(d)
      /\ g.wnd = Room(d)
  BY <1>4, AckIs
<1> HIDE DEF g
<1>6. Telling(p, d) /\ Top(p, k) <= Top(p, d)
  <2>1. Sends[p] \in Nat
    BY Numbers
  <2>2. Top(p, k) <= Sends[p] + 1 /\ Top(p, d) = Sends[p] + 1
    BY <1>1, <1>3, <2>1 DEF Top
  <2>3. d.shut => d.sent >= Sends[p]
    BY <1>1, <1>3, <2>1
  <2> QED
    BY <1>2, <1>3, <2>2, <2>3 DEF Telling
<1>7. Room(k) <= Room(d) /\ Room(d) <= Room(d)
  BY <1>4
<1> QED
  BY <1>1, <1>3, <1>4, <1>5, <1>6, <1>7, SpeaksRelays DEF k

LEMMA TitleReadsRelays ==
  ASSUME IInv, IInv', RInv, UNCHANGED <<tcp, loop>>, NEW p \in Ports, TitleReads(p)
  PROVE  RInv'
<1> DEFINE k == con[p]
           n == k.read + 1
           d == [k EXCEPT !.read = n]
           g == AckOf(p, d)
<1>1. /\ UNCHANGED <<in, host>> /\ k.st = "up" /\ con' = [con EXCEPT ![p] = d]
      /\ out' = out \/ out' = Queued(out, g)
  BY DEF TitleReads
<1>2. Sound(k) /\ k \in ConType /\ Telling(p, k)
  BY ConTells
<1>3. Sound(con'[p]) /\ con'[p] = d
  BY <1>1, ConTells, ConSound DEF IInv, Types, Sound
<1>4. k.read \in Nat /\ n = k.read + 1 /\ n \in Nat
  BY <1>2 DEF ConType
<1> HIDE DEF k, n
<1>5. /\ d.st = k.st /\ d.got = k.got /\ d.fin = k.fin /\ d.riss = k.riss
      /\ d.read = n /\ d.acked = k.acked /\ d.sent = k.sent /\ d.edge = k.edge
      /\ d.shut = k.shut
  BY <1>2 DEF ConType
<1>6. Sound(d)
  BY <1>3
<1> HIDE DEF d
<1>7. Room(k) <= Room(d) /\ Room(d) \in Nat
  <2>1. PICK l \in Nat, b \in Nat, r \in Nat : l = Len(k.got) /\ b = ConBuf /\ r = k.read
    BY <1>2, <1>4, Numbers, AwaitsIs
  <2>2. b - (l - r) <= b - (l - (r + 1))
    OBVIOUS
  <2> QED
    BY <1>4, <1>5, <1>6, <2>1, <2>2, AwaitsIs DEF Room
<1>8. /\ g \in Segments /\ g.port = p /\ g.fl = {"ack"} /\ ~Carries(g) /\ g.ack = Expects(d)
      /\ g.wnd = Room(d)
  BY <1>6, AckIs
<1> HIDE DEF g
<1>9. Telling(p, d) /\ Top(p, k) <= Top(p, d)
  <2>1. Telling(p, d) /\ Top(p, k) \in Nat /\ Top(p, d) = Top(p, k)
    BY <1>2, <1>5, TellsSame, TopNear
  <2> QED
    BY <2>1
<1>10. Room(d) <= Room(d)
  BY <1>7
<1> QED
  BY <1>1, <1>5, <1>6, <1>7, <1>8, <1>9, <1>10, SpeaksRelays DEF k

\* The console's connection ends: it says no more than a reset.
LEMMA GoneRelays ==
  ASSUME IInv, IInv', RInv, UNCHANGED <<host, tcp>>, NEW p \in Ports,
         con' = [con EXCEPT ![p].st = "gone"],
         out' = out \/ out' = Queued(out, RstOf(p, con[p])),
         in' = in \/ (in # <<>> /\ in' = Tail(in))
  PROVE  RInv'
<1> DEFINE k == con[p]
           d == [k EXCEPT !.st = "gone"]
           g == RstOf(p, k)
<1>1. con' = [con EXCEPT ![p] = d] /\ (out' = out \/ out' = Queued(out, g))
  OBVIOUS
<1>2. Sound(k) /\ k \in ConType /\ Telling(p, k)
  BY ConTells
<1> HIDE DEF k
<1>3. /\ d \in ConType /\ d.st = "gone" /\ d.got = k.got /\ d.fin = k.fin /\ d.riss = k.riss
      /\ d.read = k.read /\ d.acked = k.acked /\ d.sent = k.sent /\ d.edge = k.edge
      /\ d.shut = k.shut
  BY <1>2 DEF ConType
<1> HIDE DEF d
<1>4. Sound(d) /\ Room(d) = Room(k) /\ Room(k) \in Nat
  BY <1>2, <1>3, AwaitsIs DEF Sound, Room
<1>5. g \in Segments /\ g.port = p /\ g.fl = {"rst"} /\ ~Plain(g) /\ ~Carries(g)
  BY <1>2, RstIs
<1> HIDE DEF g
<1>6. Telling(p, d) /\ Top(p, k) <= Top(p, d) /\ Room(k) <= Room(d)
  <2>1. Telling(p, d) /\ Top(p, k) \in Nat /\ Top(p, d) = Top(p, k)
    BY <1>2, <1>3, TellsSame, TopNear
  <2> QED
    BY <1>4, <2>1
<1> QED
  BY <1>1, <1>3, <1>4, <1>5, <1>6, SpeaksRelays DEF k

LEMMA TitleAbortsRelays ==
  ASSUME IInv, IInv', RInv, UNCHANGED <<tcp, loop>>, NEW p \in Ports, TitleAborts(p)
  PROVE  RInv'
  BY GoneRelays DEF TitleAborts

\* The console's own steps.
LEMMA ConsoleForgetsRelays ==
  ASSUME IInv, IInv', RInv, UNCHANGED <<tcp, loop>>, NEW p \in Ports, ConsoleForgets(p)
  PROVE  RInv'
  BY GoneRelays DEF ConsoleForgets

\* The console says m of its stream, which is nothing it has not got to.
LEMMA SaysRelays ==
  ASSUME IInv, IInv', RInv, UNCHANGED <<host, tcp, in>>, NEW p \in Ports, con[p].st = "up",
         NEW n \in Nat, con' = [con EXCEPT ![p].sent = n],
         NEW m \in Nat, out' = Queued(out, Said(p, con[p], m)),
         con[p].acked <= m, m <= Sends[p], con[p].sent <= n, n <= Sends[p] + 1,
         n <= con[p].acked + TcpBuf \/ Sends[p] <= con[p].acked + TcpBuf,
         n = Sends[p] + 1 => con[p].shut,
         m < n
  PROVE  RInv'
<1> DEFINE k == con[p]
           d == [k EXCEPT !.sent = n]
           g == Said(p, k, m)
<1>1. /\ k.st = "up" /\ con' = [con EXCEPT ![p] = d] /\ out' = Queued(out, g)
      /\ k.acked <= m /\ k.sent <= n /\ (n = Sends[p] + 1 => k.shut)
      /\ n <= k.acked + TcpBuf \/ Sends[p] <= k.acked + TcpBuf
  OBVIOUS
<1>2. Sound(k) /\ k \in ConType /\ Telling(p, k)
  BY ConTells
<1> HIDE DEF k
<1>3. /\ d \in ConType /\ d.st = k.st /\ d.got = k.got /\ d.fin = k.fin /\ d.riss = k.riss
      /\ d.read = k.read /\ d.acked = k.acked /\ d.sent = n /\ d.edge = k.edge
      /\ d.shut = k.shut
  BY <1>2 DEF ConType
<1> HIDE DEF d
<1>4. Sound(d) /\ Room(d) = Room(k) /\ Room(k) \in Nat /\ Expects(d) = Expects(k)
  BY <1>2, <1>3, AwaitsIs DEF Sound, Room, Expects
<1>5. /\ g \in Segments /\ g.port = p /\ g.fl \cap {"syn", "rst"} = {} /\ g.ack = Expects(d)
      /\ g.wnd = Room(d) /\ g.seq = Plus(ConIss, 1 + m)
      /\ g.data = (IF m < Sends[p] THEN <<m + 1>> ELSE <<>>)
      /\ "fin" \in g.fl <=> k.shut /\ m + 1 >= Sends[p]
  BY <1>2, <1>4, SaidIs
<1> HIDE DEF g
<1>6. PICK S \in Nat, a \in Nat, s \in Nat :
        S = Sends[p] /\ a = k.acked /\ s = k.sent
  BY <1>2, Numbers DEF ConType
<1>7. Telling(p, d) /\ Top(p, k) <= Top(p, d)
  <2>1. Top(p, k) = (IF k.shut THEN S + 1 ELSE s) /\ Top(p, d) = (IF k.shut THEN S + 1 ELSE n)
    BY <1>3, <1>6 DEF Top
  <2>2. Top(p, k) <= Top(p, d)
    BY <1>1, <1>6, <2>1
  <2>3. a <= s /\ s <= n /\ (k.shut => s >= S) /\ k.edge <= k.acked + TcpBuf
    BY <1>1, <1>2, <1>6 DEF Telling
  <2>4. a <= n /\ (k.shut => n >= S)
    BY <2>3
  <2> QED
    BY <1>1, <1>3, <1>6, <2>2, <2>3, <2>4 DEF Telling
<1>8. Utters(p, d, m, g)
  <2>0. Plain(g)
    BY <1>5 DEF Plain
  <2>1. m <= S /\ m < n /\ Top(p, d) = (IF k.shut THEN S + 1 ELSE n)
    BY <1>3, <1>6 DEF Top
  <2>2. CASE m < S
    <3>1. Len(g.data) = 1
      BY <1>5, <1>6, <2>2
    <3>2. Final(g) = IF k.shut /\ m + 1 >= S THEN 1 ELSE 0
      BY <1>5, <1>6 DEF Final
    <3>3. m + 1 + Final(g) <= Top(p, d)
      BY <2>1, <2>2, <3>2
    <3>4. "fin" \in g.fl => d.shut /\ m + Len(g.data) = S
      BY <1>3, <1>5, <1>6, <2>2, <3>1
    <3> QED
      BY <1>1, <1>3, <1>5, <1>6, <2>0, <2>1, <3>1, <3>3, <3>4 DEF Utters
  <2>3. CASE m = S
    <3>1. Len(g.data) = 0
      BY <1>5, <1>6, <2>3
    <3>2. Final(g) = IF k.shut THEN 1 ELSE 0
      BY <1>5, <1>6, <2>3 DEF Final
    <3>3. m + 0 + Final(g) <= Top(p, d)
      BY <2>1, <2>3, <3>2
    <3>4. "fin" \in g.fl => d.shut /\ m + Len(g.data) = S
      BY <1>3, <1>5, <1>6, <2>3, <3>1
    <3> QED
      BY <1>1, <1>3, <1>5, <1>6, <2>0, <2>1, <3>1, <3>3, <3>4 DEF Utters
  <2> QED
    BY <2>1, <2>2, <2>3
<1>9. Room(k) <= Room(d) /\ Room(d) <= Room(d)
  BY <1>4
<1> QED
  BY <1>1, <1>3, <1>4, <1>5, <1>7, <1>8, <1>9, SpeaksRelays, ZenonT(40) DEF k

LEMMA ConsoleSendsRelays ==
  ASSUME IInv, IInv', RInv, UNCHANGED <<tcp, loop>>, NEW p \in Ports, ConsoleSends(p)
  PROVE  RInv'
<1> DEFINE k == con[p]
           m == k.sent
           n == After(p, k, m)
<1>1. /\ UNCHANGED <<in, host>> /\ k.st = "up" /\ con' = [con EXCEPT ![p].sent = n]
      /\ out' = Queued(out, Said(p, k, m))
      /\ m < Whole(p, k) /\ (m < k.edge \/ m = Sends[p])
  BY DEF ConsoleSends
<1>2. Telling(p, k) /\ k \in ConType
  BY ConTells
<1>3. PICK S \in Nat, a \in Nat, e \in Nat, b \in Nat :
        /\ S = Sends[p] /\ a = k.acked /\ e = k.edge /\ b = TcpBuf /\ m \in Nat
        /\ k.shut \in BOOLEAN
  BY <1>2, Numbers DEF ConType
<1>4. /\ m < S + (IF k.shut THEN 1 ELSE 0) /\ (m < e \/ m = S)
      /\ a <= m /\ e <= a + b /\ (k.shut => m >= S)
      /\ (m <= a + b \/ S <= a + b)
      /\ n = IF k.shut /\ m + 1 >= S THEN S + 1 ELSE m + 1
  BY <1>1, <1>2, <1>3 DEF Telling, Whole, After
<1>5. m <= S /\ (~k.shut => m < S)
  BY <1>3, <1>4
<1> HIDE DEF m, n
<1>6. /\ n \in Nat /\ m <= n /\ n <= S + 1 /\ (n <= a + b \/ S <= a + b)
      /\ (n = S + 1 => k.shut) /\ m < n
  <2>1. CASE k.shut
    <3>1. m = S /\ n = S + 1
      BY <1>3, <1>4, <1>5, <2>1
    <3> QED
      BY <1>3, <1>4, <2>1, <3>1
  <2>2. CASE ~k.shut
    <3>1. n = m + 1 /\ m < S /\ m < e
      BY <1>3, <1>4, <1>5, <2>2
    <3> QED
      BY <1>3, <1>4, <3>1
  <2> QED
    BY <2>1, <2>2
<1> QED
  BY <1>1, <1>3, <1>4, <1>5, <1>6, SaysRelays DEF m

LEMMA ConsoleRepeatsRelays ==
  ASSUME IInv, IInv', RInv, UNCHANGED <<tcp, loop>>, NEW p \in Ports, ConsoleRepeats(p)
  PROVE  RInv'
<1>1. UNCHANGED <<in, host>> /\ out = <<>> /\ \A g : Queued(out, g) = <<g>>
  BY Numbers DEF ConsoleRepeats, Queued
<1>2. CASE con[p].st = "syn" /\ out' = <<SynOf(p)>> /\ UNCHANGED con
  <2> DEFINE g == SynOf(p)
             k == con[p]
  <2>1. /\ g \in Segments /\ g.port = p /\ g.fl = {"syn"} /\ ~Carries(g)
    BY SynIs
  <2>2. out' = Queued(out, g)
    BY <1>1, <1>2
  <2> HIDE DEF g
  <2>3. /\ Sound(k) /\ k \in ConType /\ Telling(p, k) /\ con' = [con EXCEPT ![p] = k]
        /\ Top(p, k) \in Nat /\ Room(k) \in Nat
    BY <1>2, ConTells, TopNear, AwaitsIs
  <2>4. Early(k) /\ ~Plain(g) /\ Top(p, k) <= Top(p, k) /\ Room(k) <= Room(k)
    BY <1>2, <2>1, <2>3 DEF Early, Plain
  <2> QED
    BY <1>1, <1>2, <2>1, <2>2, <2>3, <2>4, SpeaksRelays
<1>3. CASE ~(con[p].st = "syn" /\ out' = <<SynOf(p)>> /\ UNCHANGED con)
  <2> DEFINE k == con[p]
             m == k.acked
             n == IF k.sent = m THEN After(p, k, k.sent) ELSE k.sent
  <2>1. /\ k.st = "up" /\ con' = [con EXCEPT ![p].sent = n]
        /\ out' = Queued(out, Said(p, k, m))
        /\ m < k.sent \/ (m = k.edge /\ m < Sends[p])
    BY <1>1, <1>3 DEF ConsoleRepeats
  <2>2. Telling(p, k) /\ k \in ConType
    BY ConTells
  <2>3. PICK S \in Nat, s \in Nat, b \in Nat :
          /\ S = Sends[p] /\ s = k.sent /\ b = TcpBuf /\ b >= 1 /\ m \in Nat
          /\ k.shut \in BOOLEAN
    BY <2>2, Numbers, Windows DEF ConType
  <2>4. /\ (m < s \/ m < S) /\ m <= s /\ s <= S + 1 /\ (k.shut => s >= S)
        /\ (s <= m + b \/ S <= m + b) /\ (s = S + 1 => k.shut)
        /\ n = IF s = m THEN (IF k.shut /\ s + 1 >= S THEN S + 1 ELSE s + 1) ELSE s
    BY <2>1, <2>2, <2>3 DEF Telling, After
  <2> HIDE DEF m, n
  <2>5. /\ n \in Nat /\ m <= S /\ s <= n /\ n <= S + 1 /\ (n <= m + b \/ S <= m + b)
        /\ (n = S + 1 => k.shut) /\ m < n /\ m <= m
    <3>1. CASE s = m
      <4>1. m < S /\ ~k.shut
        BY <2>3, <2>4, <3>1
      <4>2. n = m + 1
        BY <2>3, <2>4, <3>1, <4>1
      <4> QED
        BY <2>3, <3>1, <4>1, <4>2
    <3>2. CASE s # m
      <4>1. n = s /\ m < s
        BY <2>3, <2>4, <3>2
      <4> QED
        BY <2>3, <2>4, <4>1
    <3> QED
      BY <3>1, <3>2
  <2> QED
    BY <1>1, <2>1, <2>3, <2>5, SaysRelays DEF m
<1> QED
  BY <1>2, <1>3

\* What the console hears of its own stream.
LEMMA HeardTells ==
  ASSUME NEW p \in Ports, NEW k, Sound(k), Telling(p, k), NEW f \in Segments, f.wnd <= TcpBuf
  PROVE  LET d == Heard(p, k, f) IN
         /\ Sound(d) /\ Telling(p, d) /\ Top(p, d) = Top(p, k)
         /\ d.st = k.st /\ d.got = k.got /\ d.fin = k.fin /\ d.riss = k.riss
         /\ d.read = k.read /\ d.shut = k.shut
<1> DEFINE count == Minus(f.ack, Plus(ConIss, 1))
           edge == count + f.wnd
           e == [k EXCEPT !.acked = count, !.edge = edge]
           d == Heard(p, k, f)
<1>1. Sound(d)
  BY HeardIs
<1>2. k \in ConType /\ f.wnd \in Nat /\ count \in Int
  <2>1. ConIss \in Int /\ f.ack \in Int
    BY Numbers, SeqsAre DEF Segments
  <2>2. Plus(ConIss, 1) \in Int
    BY <2>1, SeqType, SeqsAre
  <2>3. count \in Seqs
    BY <2>1, <2>2, SeqType
  <2> QED
    BY <2>3, SeqsAre DEF Sound, Segments
<1>3. d = IF count < k.acked \/ count > k.sent THEN k ELSE e
  BY DEF Heard
<1>4. edge <= count + TcpBuf
  BY <1>2, Windows
<1> HIDE DEF count, edge
<1>5. /\ e.acked = count /\ e.edge = edge /\ e.sent = k.sent /\ e.shut = k.shut
      /\ e.st = k.st /\ e.got = k.got /\ e.fin = k.fin /\ e.riss = k.riss /\ e.read = k.read
  BY <1>2 DEF ConType
<1> HIDE DEF e, d
<1>6. CASE d = k
  BY <1>1, <1>6 DEF d
<1>7. CASE d = e /\ k.acked <= count /\ count <= k.sent
  <2>1. Telling(p, e)
    <3>1. PICK a \in Nat, s \in Nat, S \in Nat, b \in Nat :
            a = k.acked /\ s = k.sent /\ S = Sends[p] /\ b = TcpBuf
      BY <1>2, Numbers DEF ConType
    <3>2. a <= count /\ count <= s /\ s <= S + 1 /\ (s <= a + b \/ S <= a + b)
          /\ (s = S + 1 => k.shut) /\ (k.shut => s >= S)
      BY <1>7, <3>1 DEF Telling
    <3>3. s <= count + b \/ S <= count + b
      BY <1>2, <3>2
    <3> QED
      BY <1>4, <1>5, <3>1, <3>2, <3>3 DEF Telling
  <2> QED
    BY <1>1, <1>5, <1>7, <2>1 DEF d, Top
<1> QED
  <2>1. d = k \/ (d = e /\ k.acked <= count /\ count <= k.sent)
    <3>1. k.acked \in Int /\ k.sent \in Int
      BY <1>2 DEF ConType
    <3> QED
      BY <1>2, <1>3, <3>1
  <2> QED
    BY <1>6, <1>7, <2>1

\* d is c when it has taken what frame f carries.
GotOn(c, f, d) ==
  /\ f.seq = Expects(c) /\ c.fin = FALSE /\ Carries(f)
  /\ d.got = c.got \o f.data /\ (d.fin <=> "fin" \in f.fl)

\* A console that takes a frame's bytes or end was waiting for them.
LEMMA AcceptsWhat ==
  ASSUME NEW c, Sound(c), NEW f \in Segments, NEW d, d = Accepts(c, f)
  PROVE  /\ Sound(d) /\ d.st = c.st /\ d.acked = c.acked /\ d.sent = c.sent /\ d.edge = c.edge
         /\ d.shut = c.shut /\ d.riss = c.riss /\ d.read = c.read
         /\ (d.got = c.got /\ d.fin = c.fin) \/ GotOn(c, f, d)
<1> DEFINE got == c.got \o f.data
           fin == "fin" \in f.fl
           e == [c EXCEPT !.got = got, !.fin = fin]
<1>1. Sound(d) /\ c \in ConType /\ c.fin \in BOOLEAN /\ c.got \in Bytes /\ f.data \in Bytes
  BY AcceptsIs DEF Sound, ConType, Segments, Bytes
<1>2. d = IF f.seq # Expects(c) \/ c.fin \/ Len(f.data) > Room(c) THEN c ELSE e
  BY DEF Accepts
<1>3. ~Carries(f) => got = c.got /\ fin = FALSE
  <2>1. c.got \o <<>> = c.got
    BY <1>1, ConcatEmptySeq DEF Bytes
  <2>2. ~Carries(f) => f.data = <<>> /\ ~fin
    BY DEF Carries
  <2>3. ~fin => fin = FALSE
    OBVIOUS
  <2>4. ~Carries(f) => got = c.got
    BY <2>1, <2>2
  <2> QED
    BY <2>2, <2>3, <2>4
<1> HIDE DEF got
<1>4. /\ e.st = c.st /\ e.acked = c.acked /\ e.sent = c.sent /\ e.edge = c.edge
      /\ e.shut = c.shut /\ e.riss = c.riss /\ e.read = c.read /\ e.got = got /\ e.fin = fin
  BY <1>1 DEF ConType
<1> HIDE DEF e
<1>5. CASE d = c
  BY <1>1, <1>5
<1>6. CASE d = e /\ f.seq = Expects(c) /\ c.fin = FALSE
  BY <1>1, <1>3, <1>4, <1>6 DEF got, GotOn
<1> QED
  BY <1>1, <1>2, <1>5, <1>6

\* The connections of a port are one or none.
LEMMA ConnsOne ==
  ASSUME IInv, NEW p
  PROVE  /\ \A c, e \in Conns(p) : c = e
         /\ \A c \in Conns(p) : c \in TcpType /\ Fits(c)
  BY DEF Conns, SlotsOf, IInv, OneEach, Types

\* The console takes the first frame of its queue.
LEMMA ConsoleTakesRelays ==
  ASSUME IInv, IInv', RInv, UNCHANGED <<tcp, loop>>, ConsoleTakes
  PROVE  RInv'
<1>1. PICK f : f = Head(in)
  OBVIOUS
<1>2. PICK p : p = f.port
  OBVIOUS
<1> DEFINE k == con[p]
<1>3. PICK h : h = Accepts(Heard(p, k, f), f)
  OBVIOUS
<1>4. /\ in' = Tail(in) /\ host' = host /\ in # <<>>
      /\ \/ "rst" \in f.fl /\ con' = [con EXCEPT ![p].st = "gone"] /\ out' = out
         \/ k.st = "gone" /\ out' = Queued(out, RstOf(p, k)) /\ con' = con
         \/ /\ f.fl = {"syn", "ack"} /\ k.st = "syn"
            /\ con' = [con EXCEPT ![p] = [k EXCEPT !.st = "up", !.riss = f.seq, !.edge = f.wnd]]
            /\ out' = Queued(out, AckOf(p, con'[p]))
         \/ k.st = "up" /\ out' = Queued(out, AckOf(p, k)) /\ con' = con
         \/ /\ f.fl \cap {"syn", "rst"} = {} /\ k.st = "up"
            /\ con' = [con EXCEPT ![p] = h]
            /\ out' = IF Carries(f) THEN Queued(out, AckOf(p, h)) ELSE out
  BY <1>1, <1>2, <1>3 DEF ConsoleTakes, Carries
<1>5. /\ in \in Seq(Segments) /\ f \in Segments /\ f \in Range(in) /\ p \in Ports
      /\ in' \in Seq(Segments) /\ Range(in') \subseteq Range(in) /\ host[p] \in HostType
      /\ out \in Seq(Segments) /\ out' \in Seq(Segments) /\ Len(out) <= OutLen
  <2>1. in \in Seq(Segments) /\ out \in Seq(Segments) /\ out' \in Seq(Segments)
        /\ Len(out) <= OutLen /\ host \in [Ports -> HostType]
    BY DEF IInv, Types
  <2>2. /\ f \in Segments /\ f \in Range(in) /\ in' \in Seq(Segments)
        /\ Range(in') \subseteq Range(in)
    BY <1>1, <1>4, <2>1, TailRange
  <2> QED
    BY <1>2, <2>1, <2>2 DEF Segments
<1>6. /\ Telling(p, k) /\ Sound(k) /\ k \in ConType /\ con \in [Ports -> ConType]
      /\ Relays(p, k, host[p], Conns(p), out, in) /\ f.wnd <= TcpBuf
      /\ Top(p, k) \in Nat /\ Room(k) \in Nat /\ Room(k) <= Room(k) /\ Top(p, k) <= Top(p, k)
  <2>1. /\ Telling(p, k) /\ Sound(k) /\ k \in ConType /\ con \in [Ports -> ConType]
        /\ Relays(p, k, host[p], Conns(p), out, in)
    BY <1>5, ConTells
  <2>2. f.wnd <= TcpBuf
    BY <1>2, <1>5, <2>1 DEF Relays
  <2>3. Top(p, k) \in Nat /\ Room(k) \in Nat
    BY <1>5, <2>1, TopNear, AwaitsIs
  <2> QED
    BY <2>1, <2>2, <2>3
<1>7. CASE "rst" \in f.fl /\ con' = [con EXCEPT ![p].st = "gone"] /\ out' = out
  BY <1>4, <1>5, <1>7, GoneRelays
<1>8. CASE k.st = "gone" /\ out' = Queued(out, RstOf(p, k)) /\ con' = con
  <2>1. [k EXCEPT !.st = "gone"] = k
    BY <1>6, <1>8 DEF ConType
  <2>2. con' = [con EXCEPT ![p].st = "gone"]
    BY <1>5, <1>6, <1>8, <2>1
  <2> QED
    BY <1>4, <1>5, <1>8, <2>2, GoneRelays
<1>9. CASE /\ f.fl = {"syn", "ack"} /\ k.st = "syn"
           /\ con' = [con EXCEPT ![p] = [k EXCEPT !.st = "up", !.riss = f.seq, !.edge = f.wnd]]
           /\ out' = Queued(out, AckOf(p, con'[p]))
  <2> DEFINE d == [k EXCEPT !.st = "up", !.riss = f.seq, !.edge = f.wnd]
             g == AckOf(p, d)
  <2>1. f.seq \in Seqs /\ f.wnd \in Nat
    BY <1>5, FrameLens
  <2>2. con' = [con EXCEPT ![p] = d] /\ con'[p] = d /\ out' = Queued(out, g)
    BY <1>5, <1>6, <1>9
  <2> HIDE DEF k
  <2>3. /\ d \in ConType /\ d.st = "up" /\ d.got = k.got /\ d.fin = k.fin /\ d.riss = f.seq
        /\ d.read = k.read /\ d.acked = k.acked /\ d.sent = k.sent /\ d.edge = f.wnd
        /\ d.shut = k.shut
    BY <1>6, <2>1 DEF ConType
  <2> HIDE DEF d
  <2>4. Sound(d)
    BY <1>6, <2>3 DEF Sound, Room
  <2>5. /\ g \in Segments /\ g.port = p /\ g.fl = {"ack"} /\ ~Carries(g) /\ g.ack = Expects(d)
        /\ g.wnd = Room(d) /\ Room(d) \in Nat /\ g.wnd <= Room(d)
    BY <1>5, <2>4, AckIs
  <2> HIDE DEF g
  <2>6. Telling(p, d) /\ Top(p, d) = Top(p, k)
    <3>1. d.edge <= d.acked + TcpBuf
      <4>1. d.edge \in Nat /\ d.acked \in Nat /\ TcpBuf \in Nat /\ d.edge <= TcpBuf
        BY <1>6, <2>3, Windows DEF ConType
      <4> QED
        BY <4>1
    <3> QED
      BY <1>6, <2>3, <3>1 DEF Telling, Top
  <2>7. Early(k) /\ ~Early(d) /\ Plain(g) /\ f \in Syns(p, in) /\ Opened(p, k, out)
    BY <1>2, <1>5, <1>9, <2>3, <2>5 DEF Early, Plain, Syns, Opened
  <2>8. /\ Spoken(p, k, out) /\ Down(p, k, host[p], Conns(p), out, in)
        /\ Up(p, k, host[p], Conns(p), out)
    BY <1>6, <1>9 DEF Relays
  <2>9. /\ Down(p, d, host[p], Conns(p), out', in')
        /\ Conns(p) # {} /\ \A c \in Conns(p) : ~c.connecting
    <3>1. Adds(out, out', g)
      BY <1>5, <2>2, <2>5, QueuedAdds
    <3>2. Bound(p, in') \subseteq Bound(p, in)
      BY <1>5 DEF Bound
    <3>3. \A c, e \in Conns(p) : c = e
      BY ConnsOne
    <3> QED
      BY <1>5, <1>6, <2>3, <2>4, <2>5, <2>7, <2>8, <3>1, <3>2, <3>3, StandsUp, ZenonT(40)
  <2>10. d.got = <<>> /\ ~d.fin
    BY <2>3, <2>7, <2>8 DEF Up
  <2>11. /\ k.st # "gone" /\ "syn" \notin g.fl /\ "rst" \notin g.fl
         /\ (k.shut => d.shut)
         /\ Top(p, k) <= Top(p, d) /\ k = con[p] /\ UNCHANGED <<host, tcp>>
    BY <1>4, <1>6, <1>9, <2>3, <2>5, <2>6 DEF k
  <2> QED
    <3>1. /\ in' = in \/ (in # <<>> /\ in' = Tail(in))
          /\ out' = out \/ out' = Queued(out, g)
          /\ d.st = "up" \/ Plain(g)
               => con[p].st = "up" \/ (Conns(p) # {} /\ \A c \in Conns(p) : ~c.connecting)
          /\ Opened(p, con[p], out) => d.got = <<>> /\ ~d.fin
          /\ d.st # "gone" => Down(p, d, host[p], Conns(p), out', in')
      BY <1>4, <2>2, <2>9, <2>10
    <3>2. /\ con[p].shut => d.shut
          /\ con[p].st = "gone" => d.st = "gone"
          /\ Early(d) => Early(con[p])
          /\ "syn" \in g.fl => Early(con[p]) /\ Early(d)
          /\ "rst" \in g.fl => d.st = "gone"
          /\ Plain(g) => ~Early(d)
      BY <2>7, <2>11
    <3>3. Top(p, con[p]) <= Top(p, d)
      BY <2>11
    <3>4. Carries(g) => \E m \in Nat : Utters(p, d, m, g)
      BY <2>5
    <3> QED
      BY <1>5, <2>2, <2>4, <2>5, <2>6, <2>11, <3>1, <3>2, <3>3, <3>4, ConsoleRelays
<1>10. CASE k.st = "up" /\ out' = Queued(out, AckOf(p, k)) /\ con' = con
  <2> DEFINE g == AckOf(p, k)
  <2>1. con' = [con EXCEPT ![p] = k]
    BY <1>5, <1>6, <1>10
  <2>2. /\ g \in Segments /\ g.port = p /\ g.fl = {"ack"} /\ ~Carries(g) /\ g.ack = Expects(k)
        /\ g.wnd = Room(k)
    BY <1>5, <1>6, AckIs
  <2>3. out' = Queued(out, g)
    BY <1>10
  <2> HIDE DEF g
  <2>4. "syn" \notin g.fl /\ "rst" \notin g.fl /\ g.wnd \in Nat /\ g.wnd <= Room(k)
    BY <1>6, <2>2
  <2> QED
    BY <1>4, <1>5, <1>6, <1>10, <2>1, <2>2, <2>3, <2>4, SpeaksRelays
<1>11. CASE /\ f.fl \cap {"syn", "rst"} = {} /\ k.st = "up"
            /\ con' = [con EXCEPT ![p] = h]
            /\ out' = IF Carries(f) THEN Queued(out, AckOf(p, h)) ELSE out
  <2> DEFINE g == AckOf(p, h)
  <2>1. PICK e : e = Heard(p, k, f)
    OBVIOUS
  <2>2. /\ Sound(e) /\ Telling(p, e) /\ Top(p, e) = Top(p, k)
        /\ e.st = k.st /\ e.got = k.got /\ e.fin = k.fin /\ e.riss = k.riss
        /\ e.read = k.read /\ e.shut = k.shut
    BY <1>5, <1>6, <2>1, HeardTells
  <2>h. h = Accepts(e, f)
    BY <1>3, <2>1
  <2>3. /\ Sound(h) /\ h.st = e.st /\ h.acked = e.acked /\ h.sent = e.sent /\ h.edge = e.edge
        /\ h.shut = e.shut /\ h.riss = e.riss /\ h.read = e.read
        /\ (h.got = e.got /\ h.fin = e.fin) \/ GotOn(e, f, h)
    <3>1. Sound(e) /\ f \in Segments
      BY <1>5, <2>2
    <3> QED
      BY <2>h, <3>1, AcceptsWhat
  <2>4. Telling(p, h) /\ Top(p, h) = Top(p, k)
    BY <2>2, <2>3, TellsSame
  <2>5. /\ g \in Segments /\ g.port = p /\ g.fl = {"ack"} /\ ~Carries(g) /\ g.ack = Expects(h)
        /\ g.wnd = Room(h) /\ Room(h) \in Nat /\ g.wnd <= Room(h)
    BY <1>5, <2>3, AckIs
  <2>6. out' = out \/ out' = Queued(out, g)
    BY <1>11
  <2> HIDE DEF g, k
  <2>7. ~Early(k) /\ ~Early(h) /\ Plain(g) /\ Top(p, k) <= Top(p, h)
    BY <1>6, <1>11, <2>2, <2>3, <2>4, <2>5 DEF Early, Plain
  <2>8. CASE h.got = e.got /\ h.fin = e.fin
    <3>1. Room(h) = Room(k)
      BY <2>2, <2>3, <2>8 DEF Room
    <3>2. Room(k) <= Room(h)
      BY <2>5, <3>1
    <3> QED
      BY <1>4, <1>5, <1>6, <1>11, <2>2, <2>3, <2>4, <2>5, <2>6, <2>7, <2>8, <3>2, SpeaksRelays, ZenonT(40)
         DEF k
  <2>9. CASE GotOn(e, f, h)
    <3>1. f.seq = Expects(k) /\ k.fin = FALSE /\ h.got = k.got \o f.data /\ h.riss = k.riss
      BY <2>2, <2>3, <2>9 DEF Expects, GotOn
    <3>2. Down(p, k, host[p], Conns(p), out, in) /\ Adds(out, out', g)
      BY <1>5, <1>6, <1>11, <2>5, <2>6, QueuedAdds DEF Relays
    <3>3. \A c \in Conns(p) : c \in TcpType /\ Fits(c)
      BY ConnsOne
    <3>4. Down(p, h, host[p], Conns(p), out', Tail(in))
      <4>1. /\ Sound(k) /\ Sound(h) /\ k.st = "up" /\ h.st = "up" /\ h.read = k.read
            /\ f.port = p /\ Carries(f) /\ (h.fin <=> "fin" \in f.fl) /\ "syn" \notin g.fl
        BY <1>2, <1>6, <1>11, <2>2, <2>3, <2>5, <2>9 DEF GotOn
      <4> QED
        BY <1>1, <1>4, <1>5, <2>5, <3>1, <3>2, <3>3, <4>1, GetsOnDown
    <3>5. ~Opened(p, k, out)
      <4>1. f \in Bound(p, in)
        BY <1>2, <1>5, <2>9 DEF Bound, GotOn
      <4> QED
        BY <3>2, <4>1 DEF Down
    <3> QED
      BY <1>4, <1>5, <1>6, <1>11, <2>2, <2>3, <2>4, <2>5, <2>6, <2>7, <3>4, <3>5, ConsoleRelays
         DEF k
  <2> QED
    BY <2>3, <2>8, <2>9
<1> QED
  BY <1>4, <1>7, <1>8, <1>9, <1>10, <1>11

LEMMA ConsoleStepsRelay ==
  ASSUME IInv, IInv', RInv, Console, UNCHANGED <<tcp, loop>>
  PROVE  RInv'
  BY ConsoleTakesRelays, TitleOpensRelays, TitleFinishesRelays, TitleReadsRelays,
     TitleAbortsRelays, ConsoleSendsRelays, ConsoleRepeatsRelays, ConsoleForgetsRelays
     DEF Console

---------------------------------------------------------------------------
(* The router's handlers *)

\* A frame for the card, and with bytes or an end one that is as far on as what has been
\* taken from the far side allows.
Fresh(p, k, h, C, f) ==
  f.port = p =>
    /\ f.wnd <= TcpBuf
    /\ k.st # "gone" /\ "syn" \in f.fl => \E c \in C : ~c.connecting /\ c.iss = f.seq
    /\ k.st # "gone" /\ Carries(f) =>
         /\ \E c \in C : c.syn_acked /\ ("fin" \in f.fl => c.host_eof)
         /\ Placed(f, k, h) /\ h.took + 2 <= Place(k, f.seq) + Reach

\* A frame for the console ends within the far side's stream.
LEMMA PlacedEnds ==
  ASSUME NEW k, Sound(k), NEW f \in Segments, NEW h \in HostType, Placed(f, k, h)
  PROVE  Place(k, f.seq) + Len(f.data) + Final(f) <= h.took + 2
<1>1. PICK g \in Int, n \in Nat, t \in Nat :
        g = Place(k, f.seq) /\ n = Len(f.data) /\ t = h.took /\ Final(f) \in Nat
  BY FrameInts DEF HostType
<1>2. g - 1 + n <= t
  BY <1>1 DEF Placed
<1>3. CASE "fin" \in f.fl
  <2>1. f.data = <<>> /\ g = 1 + t /\ Final(f) = 1
    BY <1>1, <1>3 DEF Placed, Final
  <2>2. n = 0
    BY <1>1, <2>1
  <2>3. g + n + 1 <= t + 2
    BY <2>1, <2>2
  <2> QED
    BY <1>1, <2>1, <2>3
<1>4. CASE "fin" \notin f.fl
  <2>1. Final(f) = 0 /\ g + n + 0 <= t + 2
    BY <1>2, <1>4 DEF Final
  <2> QED
    BY <1>1, <2>1
<1> QED
  BY <1>3, <1>4

\* The queue for the card has got more.
LEMMA GrowsRelays ==
  ASSUME NEW p, NEW k, Sound(k), NEW h \in HostType, NEW C, \A c, e \in C : c = e, NEW O,
         NEW I \in Seq(Segments), NEW J \in Seq(Segments), NEW F, Grown(I, J, F),
         \A f \in F : f \in Segments /\ Fresh(p, k, h, C, f), Relays(p, k, h, C, O, I)
  PROVE  Relays(p, k, h, C, O, J)
<1>1. \A f \in Range(J) : f \in Range(I) \/ f \in F
  BY GrownRange
<1>2. \A f \in Range(J) : f.port = p => f.wnd <= TcpBuf
  BY <1>1 DEF Relays, Fresh
<1>3. ASSUME k.st # "gone"  PROVE Down(p, k, h, C, O, J)
  <2>1. Down(p, k, h, C, O, I)
    BY <1>3 DEF Relays
  <2>2. ASSUME NEW f \in Bound(p, J)
        PROVE  /\ f \in Segments /\ Placed(f, k, h)
               /\ \/ f \in Bound(p, I)
                  \/ \E c \in C : c.syn_acked /\ ("fin" \in f.fl => c.host_eof)
    <3>1. f \in Segments /\ f.port = p /\ Carries(f) /\ f \in Range(J)
      BY RangeOf DEF Bound
    <3>2. CASE f \in Range(I)
      BY <2>1, <3>1, <3>2 DEF Bound, Down
    <3>3. CASE f \in F
      BY <1>3, <3>1, <3>3 DEF Fresh
    <3> QED
      BY <1>1, <3>1, <3>2, <3>3
  <2>3. InTurn(p, k, J)
    <3> SUFFICES ASSUME NEW i \in 1 .. Len(J), NEW j \in 1 .. Len(J), i < j, J[i].port = p,
                        J[j].port = p, Carries(J[i]), Carries(J[j])
                 PROVE  Place(k, J[i].seq) + Len(J[i].data) + Final(J[i])
                          <= Place(k, J[j].seq) + Reach
      BY DEF InTurn
    <3>1. Len(I) \in Nat /\ Len(J) \in Nat
      BY LenIs
    <3>2. CASE j \in 1 .. Len(I)
      <4>1. i \in 1 .. Len(I) /\ J[i] = I[i] /\ J[j] = I[j]
        BY <3>1, <3>2 DEF Grown
      <4> QED
        BY <2>1, <3>2, <4>1 DEF Down, InTurn
    <3>3. CASE j \in Len(I) + 1 .. Len(J)
      <4>1. J[j] \in F
        BY <3>3 DEF Grown
      <4>2. h.took + 2 <= Place(k, J[j].seq) + Reach
        BY <1>3, <4>1 DEF Fresh
      <4>3. J[i] \in Bound(p, J) /\ J[j] \in Segments
        BY RangeOf DEF Bound
      <4>4. Place(k, J[i].seq) + Len(J[i].data) + Final(J[i]) <= h.took + 2 /\ J[i] \in Segments
        BY <2>2, <4>3, PlacedEnds
      <4>5. PICK g \in Int, n \in Nat, m \in Nat, t \in Nat, e \in Int, b \in Int :
              /\ g = Place(k, J[i].seq) /\ n = Len(J[i].data) /\ m = Final(J[i])
              /\ t = h.took /\ e = Place(k, J[j].seq) /\ b = Reach
        <5>1. Place(k, J[i].seq) \in Int /\ Len(J[i].data) \in Nat /\ Final(J[i]) \in Nat
          BY <4>4, FrameInts
        <5>2. Place(k, J[j].seq) \in Int /\ h.took \in Nat /\ Reach \in Int
          BY <4>3, FrameInts, Windows, SMTT(30) DEF HostType
        <5> QED
          BY <5>1, <5>2
      <4>6. g + n + m <= t + 2 /\ t + 2 <= e + b
        BY <4>2, <4>4, <4>5
      <4>7. g + n + m <= e + b
        BY <4>6
      <4> QED
        BY <4>5, <4>7
    <3> QED
      BY <3>1, <3>2, <3>3
  <2>4. ASSUME \A c \in C : ~c.syn_acked, Bound(p, I) = {}  PROVE Bound(p, J) = {}
    BY <2>2, <2>4
  <2>5. ASSUME NEW c \in C  PROVE Joined(p, c, k, h, O, J)
    <3>1. Joined(p, c, k, h, O, I) /\ \A e \in C : e = c
      BY <2>1 DEF Down
    <3>2. ~c.syn_acked => Bound(p, J) = {}
      BY <2>4, <3>1 DEF Joined
    <3>3. \A f \in Bound(p, J) : "fin" \in f.fl => c.host_eof
      BY <2>2, <3>1 DEF Joined
    <3> QED
      BY <3>1, <3>2, <3>3 DEF Joined
  <2>6. Opened(p, k, O) => Awaits(k) = 1 /\ Bound(p, J) = {} /\ \A c \in C : ~c.syn_acked
    BY <2>1, <2>4 DEF Down
  <2>7. Early(k) => \A f \in Syns(p, J) : \E c \in C : ~c.connecting /\ c.iss = f.seq
    <3> SUFFICES ASSUME Early(k), NEW f \in Syns(p, J)
                 PROVE  \E c \in C : ~c.connecting /\ c.iss = f.seq
      OBVIOUS
    <3>1. CASE f \in Range(I)
      BY <2>1, <3>1 DEF Down, Syns
    <3>2. CASE f \in F
      BY <1>3, <3>2 DEF Fresh, Syns
    <3> QED
      BY <1>1, <3>1, <3>2 DEF Syns
  <2> QED
    BY <2>1, <2>2, <2>3, <2>5, <2>6, <2>7 DEF Down
<1> QED
  BY <1>2, <1>3 DEF Relays

\* What of a connection and its socket the way down depends on, and the way up.
LEMMA DownAlike ==
  ASSUME NEW p, NEW k, NEW h, NEW g, NEW c, NEW d, NEW O, NEW I,
         d.una = c.una, d.nxt = c.nxt, d.tx_seq = c.tx_seq, d.tx = c.tx, d.wnd = c.wnd,
         d.syn_acked = c.syn_acked, d.iss = c.iss, d.host_eof = c.host_eof,
         d.connecting = c.connecting, g.took = h.took, Over(h) => Over(g),
         Down(p, k, h, {c}, O, I)
  PROVE  Down(p, k, g, {d}, O, I)
<1>1. \A f : Placed(f, k, h) => Placed(f, k, g)
  BY DEF Placed
<1>2. Joined(p, d, k, g, O, I)
  <2>1. Joined(p, c, k, h, O, I) /\ Low(d, k) = Low(c, k)
    BY DEF Down, Low
  <2>2. Greeting(c, h) => Greeting(d, g)
    BY DEF Greeting
  <2>3. Flowing(c, k, h) => Flowing(d, k, g)
    BY DEF Flowing
  <2> QED
    BY <2>1, <2>2, <2>3 DEF Joined
<1> QED
  BY <1>1, <1>2 DEF Down

\* The way up depends on a connection's buffer and end only.
LEMMA UpAlike ==
  ASSUME NEW p, NEW k, NEW h, NEW g, NEW c, NEW d, NEW O, d.rx = c.rx,
         d.console_fin = c.console_fin, g.got = h.got, g.shut = h.shut, Up(p, k, h, {c}, O)
  PROVE  Up(p, k, g, {d}, O)
<1>1. Carried(p, d, k, g, O)
  <2>1. Carried(p, c, k, h, O) /\ Taking(d, g) = Taking(c, h)
    BY DEF Up, Taking
  <2> QED
    BY <2>1 DEF Carried
<1> QED
  BY <1>1 DEF Up

\* What it sends next is another place.
LEMMA SteersRelays ==
  ASSUME NEW p, NEW k, NEW h, NEW c, NEW d, NEW O, NEW I, Relays(p, k, h, {c}, O, I),
         d.una = c.una, d.tx_seq = c.tx_seq, d.tx = c.tx, d.wnd = c.wnd,
         d.syn_acked = c.syn_acked, d.iss = c.iss, d.host_eof = c.host_eof, d.rx = c.rx,
         d.console_fin = c.console_fin, d.connecting => c.connecting,
         k.st # "gone" /\ c.syn_acked =>
           /\ Place(k, c.una) <= Place(k, d.nxt) /\ Place(k, d.nxt) <= h.took + 2
           /\ Place(k, d.nxt) = h.took + 2 => c.host_eof,
         k.st # "gone" /\ ~c.syn_acked => d.nxt \in {c.iss, Plus(c.iss, 1)}
  PROVE  Relays(p, k, h, {d}, O, I)
<1>1. Up(p, k, h, {d}, O)
  BY UpAlike DEF Relays
<1>2. Met(p, k, {d}, O)
  BY DEF Relays, Met
<1>3. ASSUME k.st # "gone"  PROVE Down(p, k, h, {d}, O, I)
  <2>1. Down(p, k, h, {c}, O, I) /\ Joined(p, c, k, h, O, I)
    BY <1>3 DEF Relays, Down
  <2>2. Joined(p, d, k, h, O, I)
    <3>1. Low(d, k) = Low(c, k)
      BY DEF Low
    <3>2. c.syn_acked => Flowing(d, k, h)
      BY <1>3, <2>1 DEF Joined, Flowing
    <3>3. ~c.syn_acked => Greeting(d, h)
      BY <1>3, <2>1 DEF Joined, Greeting
    <3> QED
      BY <2>1, <3>1, <3>2, <3>3 DEF Joined
  <2> QED
    BY <2>1, <2>2 DEF Down
<1> QED
  BY <1>1, <1>2, <1>3 DEF Relays

\* The connection is let go.
LEMMA ClosesRelays ==
  ASSUME NEW p, NEW k, NEW h, NEW g, NEW C, NEW O, NEW I, Relays(p, k, h, C, O, I),
         g.took = h.took, g.wrote = h.wrote, g.ended = h.ended, g.got = h.got, g.shut = h.shut,
         Over(h) => Over(g), Met(p, k, {}, O), Early(k) => Syns(p, I) = {}
  PROVE  Relays(p, k, g, {}, O, I)
<1>1. \A f : Placed(f, k, h) => Placed(f, k, g)
  BY DEF Placed
<1>2. k.st # "gone" => Down(p, k, g, {}, O, I)
  BY <1>1 DEF Relays, Down
<1>3. Up(p, k, g, {}, O)
  BY DEF Relays, Up
<1>4. Source(p, g)
  BY DEF Relays, Source
<1> QED
  BY <1>2, <1>3, <1>4 DEF Relays

\* A connection in the hands of its handler: what is queued for the card since q is of its
\* port, the socket has got on from h, and the connection and its console stand as ever.
Own(w) == IF w.c.used THEN {w.c} ELSE {}
Broke(h) == h.st \in {"reset", "refused"}
Onto(h, g) ==
  /\ g.wrote = h.wrote /\ g.ended = h.ended /\ (Broke(g) <=> Broke(h))
  /\ Len(h.got) <= Len(g.got) /\ (h.shut => g.shut)
Held(p, k, O, q, h, w) ==
  /\ Grown(q, w.q, {f \in Segments : f.port = p})
  /\ Onto(h, w.h)
  /\ Relays(p, k, w.h, Own(w), O, w.q)
  /\ w.c.used /\ (w.c.rx # <<>> \/ w.c.console_fin) => ~Opened(p, k, O)
Side(p, k, O, q, h) ==
  p \in Ports /\ Sound(k) /\ O \in Seq(Segments) /\ q \in Seq(Segments) /\ h \in HostType

\* Changes to the far side that make no difference to its record of a handler.
LEMMA OntoSame ==
  ASSUME NEW h \in HostType, NEW g \in HostType, NEW e \in HostType, Onto(h, g),
         e.wrote = g.wrote, e.ended = g.ended, Broke(e) <=> Broke(g), Len(g.got) <= Len(e.got),
         g.shut => e.shut
  PROVE  Onto(h, e)
<1>1. Len(h.got) \in Nat /\ Len(g.got) \in Nat /\ Len(e.got) \in Nat
  BY DEF HostType, Bytes
<1> QED
  BY <1>1 DEF Onto

\* A segment sent: any, and one without bytes or an end.
LEMMA HeldSends ==
  ASSUME NEW p, NEW k, NEW O, NEW q, NEW h, Side(p, k, O, q, h),
         NEW a \in Nat, NEW w, InHand(w, p, a), w.c.used, Held(p, k, O, q, h, w),
         NEW seq \in Seqs, NEW fl \in SUBSET {"syn", "ack", "fin", "rst"}, NEW data \in Bytes,
         Fresh(p, k, w.h, {w.c}, segment(w.c, seq, fl, data))
  PROVE  Held(p, k, O, q, h, tcp_segment(w, seq, fl, data))
<1> DEFINE f == segment(w.c, seq, fl, data)
           v == tcp_segment(w, seq, fl, data)
           F == {g \in Segments : g.port = p}
<1>1. /\ w \in Works /\ w.c \in TcpType /\ w.h \in HostType /\ w.q \in Seq(Segments)
      /\ w.c.port = p /\ Fits(w.c)
      /\ p \in Ports /\ Sound(k) /\ q \in Seq(Segments)
  BY DEF InHand, Works, Side
<1>2. f \in Segments /\ f.port = p
  BY <1>1, SegmentType DEF segment
<1>3. v.c = w.c /\ v.h = w.h /\ InHand(v, p, a)
  BY <1>1, SegmentSent
<1>4. v.q = deliver(w.q, f) /\ v.q \in Seq(Segments)
  BY <1>1, <1>3 DEF tcp_segment, Works, InHand
<1> HIDE DEF f, v
<1>5. Grown(w.q, v.q, {f}) /\ Grown(w.q, v.q, F)
  BY <1>1, <1>2, <1>4, DeliverGrows
<1>6. Grown(q, v.q, F)
  <2>1. Grown(q, w.q, F)
    BY DEF Held
  <2> HIDE DEF F
  <2> QED
    BY <1>1, <1>4, <1>5, <2>1, GrownMore
<1>7. Own(w) = {w.c} /\ Own(v) = {w.c}
  BY <1>3 DEF Own
<1>8. Relays(p, k, w.h, {w.c}, O, v.q)
  <2>1. Relays(p, k, w.h, {w.c}, O, w.q)
    BY <1>7 DEF Held
  <2>2. \A g \in {f} : g \in Segments /\ Fresh(p, k, w.h, {w.c}, g)
    BY <1>2 DEF f
  <2>3. \A c, e \in {w.c} : c = e
    OBVIOUS
  <2> QED
    BY <1>1, <1>4, <1>5, <2>1, <2>2, <2>3, GrowsRelays
<1>9. Held(p, k, O, q, h, v)
  BY <1>3, <1>6, <1>7, <1>8 DEF Held
<1> QED
  BY <1>9 DEF v

\* A frame without bytes, end or SYN.
LEMMA QuietIs ==
  ASSUME NEW p, NEW k, NEW h, NEW C, NEW c \in TcpType, NEW seq,
         NEW fl \in SUBSET {"ack", "rst"}
  PROVE  Fresh(p, k, h, C, segment(c, seq, fl, <<>>))
<1>1. Len(c.rx) \in Nat /\ TcpBuf \in Nat
  BY Numbers DEF TcpType, Bytes
<1>2. TcpBuf - Len(c.rx) <= TcpBuf
  BY <1>1
<1> QED
  BY <1>2 DEF Fresh, segment, Carries

LEMMA HeldQuiet ==
  ASSUME NEW p, NEW k, NEW O, NEW q, NEW h, Side(p, k, O, q, h),
         NEW a \in Nat, NEW w, InHand(w, p, a), w.c.used, Held(p, k, O, q, h, w),
         NEW seq \in Seqs, NEW fl \in SUBSET {"ack", "rst"}
  PROVE  LET v == tcp_segment(w, seq, fl, <<>>)
         IN Held(p, k, O, q, h, v) /\ InHand(v, p, a) /\ v.c = w.c /\ v.h = w.h
<1>1. w.c \in TcpType /\ <<>> \in Bytes /\ fl \in SUBSET {"syn", "ack", "fin", "rst"} /\ p \in Ports
  BY DEF InHand, Works, Bytes, Side
<1>2. Fresh(p, k, w.h, {w.c}, segment(w.c, seq, fl, <<>>))
  BY <1>1, QuietIs
<1>3. Held(p, k, O, q, h, tcp_segment(w, seq, fl, <<>>))
  BY <1>1, <1>2, HeldSends
<1> QED
  BY <1>1, <1>3, SegmentSent

\* A handler that changes only where it will send from.
LEMMA HeldSteers ==
  ASSUME NEW p, NEW k, NEW O, NEW q, NEW h, NEW w, w.c.used, Held(p, k, O, q, h, w),
         NEW v, v.q = w.q, v.h = w.h, NEW d, v.c = d, d.used,
         d.una = w.c.una, d.tx_seq = w.c.tx_seq, d.tx = w.c.tx, d.wnd = w.c.wnd,
         d.syn_acked = w.c.syn_acked, d.iss = w.c.iss, d.host_eof = w.c.host_eof,
         d.rx = w.c.rx, d.console_fin = w.c.console_fin, d.connecting => w.c.connecting,
         k.st # "gone" /\ w.c.syn_acked =>
           /\ Place(k, w.c.una) <= Place(k, d.nxt) /\ Place(k, d.nxt) <= w.h.took + 2
           /\ Place(k, d.nxt) = w.h.took + 2 => w.c.host_eof,
         k.st # "gone" /\ ~w.c.syn_acked => d.nxt \in {w.c.iss, Plus(w.c.iss, 1)}
  PROVE  Held(p, k, O, q, h, v)
<1>1. Relays(p, k, w.h, {w.c}, O, w.q)
  BY DEF Held, Own
<1>2. PICK c : c = w.c
  OBVIOUS
<1>3. Relays(p, k, w.h, {d}, O, w.q)
  BY <1>1, SteersRelays
<1>4. Own(v) = {d}
  BY DEF Own
<1> QED
  BY <1>3, <1>4 DEF Held

\* A connection may be let go when the console's SYN is behind it, or it has not answered.
Parted(p, k, O, I) == Met(p, k, {}, O) /\ (Early(k) => Syns(p, I) = {})

\* A connection may go: when nobody waits for an answer to a SYN of it.
LEMMA MayPart ==
  ASSUME NEW p, NEW k, NEW O, NEW q, NEW h, NEW w, w.c.used, Held(p, k, O, q, h, w),
         ~Opened(p, k, O) \/ w.c.connecting
  PROVE  Parted(p, k, O, w.q)
<1>1. Relays(p, k, w.h, {w.c}, O, w.q)
  BY DEF Held, Own
<1>2. CASE ~Opened(p, k, O)
  BY <1>2 DEF Parted, Met, Opened
<1>3. CASE w.c.connecting
  <2>1. Met(p, k, {}, O)
    BY <1>1, <1>3 DEF Relays, Met
  <2>2. Early(k) => Syns(p, w.q) = {}
    <3>1. Early(k) => k.st # "gone"
      BY DEF Early
    <3> QED
      BY <1>1, <1>3, <3>1 DEF Relays, Down
  <2> QED
    BY <2>1, <2>2 DEF Parted
<1> QED
  BY <1>2, <1>3

\* A handler closes its connection, or breaks it off.
LEMMA HeldCloses ==
  ASSUME NEW p, NEW k, NEW O, NEW q, NEW h, Side(p, k, O, q, h),
         NEW a, NEW w, InHand(w, p, a), w.c.used, Held(p, k, O, q, h, w), Parted(p, k, O, w.q)
  PROVE  Held(p, k, O, q, h, tcp_close(w))
<1> DEFINE v == tcp_close(w)
           st == IF Broke(w.h) THEN w.h.st ELSE "closed"
           g == [w.h EXCEPT !.st = st]
<1>1. w \in Works /\ w.c \in TcpType /\ w.h \in HostType /\ h \in HostType
  BY DEF InHand, Works, Side
<1>2. v = [w EXCEPT !.c = FreeTcp, !.h = g]
  BY DEF tcp_close, Broke
<1>3. /\ g \in HostType /\ g.st = st /\ g.took = w.h.took /\ g.wrote = w.h.wrote
      /\ g.ended = w.h.ended /\ g.got = w.h.got /\ g.shut = w.h.shut
  <2>1. st \in {"none", "connecting", "up", "refused", "reset", "closed"}
    BY <1>1 DEF HostType
  <2> HIDE DEF st
  <2> QED
    BY <1>1, <2>1 DEF HostType
<1>4. (Over(w.h) => Over(g)) /\ (Broke(g) <=> Broke(w.h))
  BY <1>3 DEF Over, Broke
<1> HIDE DEF g
<1>5. v.c = FreeTcp /\ v.h = g /\ v.q = w.q
  BY <1>1, <1>2, <1>3, FreeType DEF Works
<1> HIDE DEF v
<1>6. Own(v) = {} /\ ~v.c.used /\ Own(w) = {w.c}
  BY <1>5, FreeType DEF Own
<1>7. Relays(p, k, g, {}, O, w.q)
  <2>1. Relays(p, k, w.h, {w.c}, O, w.q) /\ Met(p, k, {}, O) /\ (Early(k) => Syns(p, w.q) = {})
    BY <1>6 DEF Held, Parted
  <2> QED
    BY <1>3, <1>4, <2>1, ClosesRelays
<1>8. Onto(h, g)
  <2>1. Onto(h, w.h) /\ Len(w.h.got) \in Nat
    BY <1>1 DEF Held, HostType, Bytes
  <2>2. Len(w.h.got) <= Len(g.got)
    BY <1>3, <2>1
  <2> QED
    BY <1>1, <1>3, <1>4, <2>1, <2>2, OntoSame
<1>9. Held(p, k, O, q, h, v)
  BY <1>5, <1>6, <1>7, <1>8 DEF Held
<1> QED
  BY <1>9 DEF v

LEMMA HeldAborts ==
  ASSUME NEW p, NEW k, NEW O, NEW q, NEW h, Side(p, k, O, q, h),
         NEW a \in Nat, NEW w, InHand(w, p, a), w.c.used, Held(p, k, O, q, h, w),
         Parted(p, k, O, w.q)
  PROVE  Held(p, k, O, q, h, tcp_abort(w))
<1> DEFINE f == segment(w.c, w.c.nxt, {"rst", "ack"}, <<>>)
           v == tcp_segment(w, w.c.nxt, {"rst", "ack"}, <<>>)
<1>1. w.c.nxt \in Seqs /\ w \in Works /\ w.c \in TcpType /\ Fits(w.c) /\ w.c.port = p /\ p \in Ports
  BY DEF InHand, Works, TcpType, Side
<1>2. Held(p, k, O, q, h, v) /\ InHand(v, p, a) /\ v.c = w.c
  BY <1>1, HeldQuiet
<1>3. Syns(p, v.q) \subseteq Syns(p, w.q)
  <2>1. f \in Segments /\ f.fl = {"rst", "ack"}
    <3>1. <<>> \in Bytes /\ w.c.port \in Ports
      BY <1>1 DEF Bytes
    <3> QED
      BY <1>1, <3>1, SegmentType DEF segment
  <2>2. v.q = deliver(w.q, f)
    BY <1>1 DEF tcp_segment, Works
  <2> HIDE DEF f, v
  <2>3. Range(v.q) \subseteq Range(w.q) \cup {f}
    BY <1>1, <2>1, <2>2, DeliverIs DEF InHand, Works
  <2> QED
    BY <2>1, <2>3 DEF Syns
<1>4. Parted(p, k, O, v.q)
  BY <1>3 DEF Parted
<1>5. Held(p, k, O, q, h, tcp_close(v))
  BY <1>2, <1>4, HeldCloses
<1>6. Held(p, k, O, q, h, tcp_close(w))
  BY HeldCloses
<1> QED
  BY <1>5, <1>6 DEF tcp_abort

\* The far side's bytes and end that are on their way or may be: all are near the place
\* the console waits for.
Close(k, h, g) == h.took + 1 <= g + TcpBuf /\ g <= h.took + 3
Tied(k, h) == Len(k.got) <= h.took /\ h.took < Awaits(k) + TcpBuf

\* Places of the far side's stream are near what the console waits for.
LEMMA NearIs ==
  ASSUME NEW k, Sound(k), NEW h \in HostType, Tied(k, h), NEW g \in Int, Close(k, h, g)
  PROVE  -SeqSpace < 2 * (g - Awaits(k)) /\ 2 * (g - Awaits(k)) < SeqSpace
<1>1. PICK x \in Nat, l \in Nat, t \in Nat, b \in Nat, e \in Nat, s \in Nat :
        /\ x = Awaits(k) /\ l = Len(k.got) /\ t = h.took /\ b = TcpBuf /\ e = ConBuf /\ s = SeqSpace
        /\ x <= l + 2 /\ e >= 1 /\ 2 * b + 2 * e + 6 <= s
  BY AwaitsIs, Windows DEF HostType
<1>2. l <= t /\ t < x + b /\ t + 1 <= g + b /\ g <= t + 3
  BY <1>1 DEF Tied, Close
<1>3. -s < 2 * (g - x) /\ 2 * (g - x) < s
  <2>1. /\ x <= l + 2 /\ e >= 1 /\ 2 * b + 2 * e + 6 <= s
        /\ l <= t /\ t < x + b /\ t + 1 <= g + b /\ g <= t + 3
    BY <1>1, <1>2
  <2>2. g - x <= b + 2 /\ x - g <= b + 1
    BY <2>1
  <2> QED
    BY <2>1, <2>2
<1> QED
  BY <1>1, <1>3

LEMMA MovedNear ==
  ASSUME NEW k, Sound(k), NEW h \in HostType, Tied(k, h), NEW q \in Seqs, NEW m \in Int,
         Close(k, h, Place(k, q) + m)
  PROVE  Place(k, Plus(q, m)) = Place(k, q) + m
<1>1. PICK g \in Int : g = Place(k, q) + m /\ Place(k, q) \in Int
  BY PlaceInt
<1>2. -SeqSpace < 2 * (g - Awaits(k)) /\ 2 * (g - Awaits(k)) < SeqSpace
  BY <1>1, NearIs
<1>3. PICK x \in Int, s \in Nat : x = Awaits(k) /\ s = SeqSpace
  BY PlaceInt, Numbers
<1>4. -s <= 2 * (g - x) /\ 2 * (g - x) < s
  BY <1>2, <1>3
<1> QED
  BY <1>1, <1>3, <1>4, PlaceMoved

\* The places of a connection the console has answered: B of the far side's bytes are behind
\* its buffer.
LEMMA FlowIs ==
  ASSUME NEW k, Sound(k), NEW h \in HostType, Tied(k, h), NEW c \in TcpType, Fits(c),
         Flowing(c, k, h)
  PROVE  /\ h.took - Len(c.tx) \in Nat /\ Len(c.tx) \in Nat /\ h.took \in Nat
         /\ Place(k, c.una) \in Int /\ Place(k, c.nxt) \in Int /\ Edge(k) \in Int
         /\ Awaits(k) \in Int /\ c.wnd \in Nat /\ Len(c.tx) <= TcpBuf /\ TcpBuf \in Nat
         /\ Follows(c.tx, h.took - Len(c.tx)) /\ Place(k, c.tx_seq) = 1 + (h.took - Len(c.tx))
         /\ 1 + (h.took - Len(c.tx)) <= Place(k, c.una) /\ Place(k, c.una) <= Place(k, c.nxt)
         /\ Place(k, c.nxt) <= h.took + 2 /\ (Place(k, c.nxt) = h.took + 2 => c.host_eof)
         /\ Place(k, c.una) <= Awaits(k) /\ Place(k, c.una) + c.wnd <= Edge(k)
         /\ Minus(c.nxt, c.tx_seq) = Place(k, c.nxt) - (1 + (h.took - Len(c.tx)))
         /\ Minus(c.nxt, c.una) = Place(k, c.nxt) - Place(k, c.una)
<1>1. /\ c.una \in Seqs /\ c.nxt \in Seqs /\ c.tx_seq \in Seqs /\ c.wnd \in Nat
      /\ Len(c.tx) \in Nat /\ Len(c.tx) <= TcpBuf
      /\ Place(k, c.una) \in Int /\ Place(k, c.nxt) \in Int /\ Place(k, c.tx_seq) \in Int
  BY TcpInts DEF Fits
<1>2. PICK l \in Nat, u \in Int, n \in Int, t \in Nat, b \in Nat, e \in Int, x \in Int, y \in Nat :
        /\ l = Len(c.tx) /\ t = h.took /\ b = TcpBuf /\ e = Edge(k) /\ x = Awaits(k) /\ y = c.wnd
        /\ u = Place(k, c.una) /\ n = Place(k, c.nxt) /\ l <= b
  BY <1>1, PlaceInt, Windows DEF HostType
<1>3. PICK B \in Nat : B = t - l
  <2>1. t - l >= 0
    BY <1>2 DEF Flowing
  <2> QED
    BY <2>1
<1>4. /\ B >= 0 /\ Follows(c.tx, B) /\ Place(k, c.tx_seq) = 1 + B
      /\ 1 + B <= u /\ u <= n /\ n <= t + 2 /\ (n = t + 2 => c.host_eof)
      /\ u <= x /\ u + y <= e
  BY <1>2, <1>3 DEF Flowing
<1>5. PICK s \in Nat, o \in Nat : s = SeqSpace /\ o = ConBuf /\ o >= 1 /\ 2 * b + 2 * o + 6 <= s
  BY <1>2, Windows
<1>6. /\ -s < 2 * (n - (1 + B)) /\ 2 * (n - (1 + B)) < s /\ n >= 1 + B
      /\ -s < 2 * (n - u) /\ 2 * (n - u) < s
  <2>1. /\ l <= b /\ B = t - l /\ B >= 0 /\ 1 + B <= u /\ u <= n /\ n <= t + 2
        /\ o >= 1 /\ 2 * b + 2 * o + 6 <= s
    BY <1>2, <1>3, <1>4, <1>5
  <2>2. n - (1 + B) <= b + 1 /\ n - u <= b + 1 /\ n - (1 + B) >= 0 /\ n - u >= 0
    BY <2>1
  <2> QED
    BY <2>1, <2>2
<1>7. Minus(c.nxt, c.tx_seq) = n - (1 + B)
  <2>1. PICK i \in Int, j \in Int : i = n /\ j = 1 + B /\ i >= j
    BY <1>6
  <2>2. /\ Place(k, c.nxt) = i /\ Place(k, c.tx_seq) = j
        /\ -SeqSpace < 2 * (i - j) /\ 2 * (i - j) < SeqSpace
    BY <1>2, <1>4, <1>5, <1>6, <2>1
  <2>3. /\ Place(k, c.nxt) >= Place(k, c.tx_seq)
        /\ -SeqSpace < 2 * (Place(k, c.nxt) - Place(k, c.tx_seq))
        /\ 2 * (Place(k, c.nxt) - Place(k, c.tx_seq)) < SeqSpace
    BY <2>1, <2>2
  <2>4. Minus(c.nxt, c.tx_seq) = Place(k, c.nxt) - Place(k, c.tx_seq)
    BY <1>1, <2>3, PlacesApart
  <2> QED
    BY <2>1, <2>2, <2>4
<1>8. Minus(c.nxt, c.una) = n - u
  <2>1. -SeqSpace < 2 * (n - u) /\ 2 * (n - u) < SeqSpace /\ n >= u
    BY <1>4, <1>5, <1>6
  <2> QED
    BY <1>1, <1>2, <2>1, PlacesApart
<1>9. B + l = t
  BY <1>3
<1>10. /\ l = Len(c.tx) /\ t = h.took /\ b = TcpBuf /\ e = Edge(k) /\ x = Awaits(k)
       /\ y = c.wnd /\ B = h.took - Len(c.tx) /\ B + l = t /\ l <= b
  BY <1>2, <1>3, <1>9
<1> QED
  BY <1>2, <1>4, <1>7, <1>8, <1>10

PieceOf(c, n, f) ==
  \E m \in Nat, j \in Nat :
    /\ m < j /\ j <= n
    /\ f = segment(c, Plus(c.nxt, m), {"ack"},
                   SubSeq(c.tx, Minus(c.nxt, c.tx_seq) + m + 1, Minus(c.nxt, c.tx_seq) + j))

\* The segments tcp_pump cuts its bytes into are those bytes, in order.
LEMMA PieceIs ==
  ASSUME NEW c \in TcpType, Fits(c), c.port \in Ports, NEW n \in 1 .. Left(c),
         NEW i \in 1 .. Len(Pieces(c, n))
  PROVE  PieceOf(c, n, Pieces(c, n)[i])
<1> DEFINE off == Minus(c.nxt, c.tx_seq)
           k == (n + Mss - 1) \div Mss
           Piece(x) == segment(c, Plus(c.nxt, (x - 1) * Mss), {"ack"},
                               SubSeq(c.tx, off + (x - 1) * Mss + 1, off + Min({x * Mss, n})))
           ps == [x \in 1 .. k |-> Piece(x)]
<1>1. n \in Nat /\ n >= 1 /\ Mss \in Nat /\ Mss >= 1
  <2>1. c.nxt \in Int /\ c.tx_seq \in Int /\ Len(c.tx) \in Nat
    BY SeqsAre DEF TcpType, Bytes
  <2>2. off \in Seqs
    BY <2>1, SeqType
  <2>3. off \in Int
    BY <2>2, SeqsAre
  <2>4. Left(c) \in Int
    BY <2>1, <2>3 DEF Left
  <2> QED
    BY <2>4, Numbers
<1>2. k \in Nat /\ k * Mss <= n + Mss - 1
  BY <1>1
<1>3. Pieces(c, n) = ps
  BY DEF Pieces
<1> HIDE DEF Piece, k, off
<1>4. Len(ps) = k
  BY <1>2
<1>5. i \in 1 .. k /\ ps[i] = Piece(i)
  BY <1>3, <1>4
<1> DEFINE m == (i - 1) * Mss
           r == i * Mss
           j == Min({i * Mss, n})
<1>6. r \in Nat /\ m \in Nat /\ r = m + Mss /\ m < n
  <2>1. i \in Nat /\ i >= 1 /\ i <= k
    BY <1>2, <1>5
  <2>2. r <= k * Mss /\ r \in Nat
    BY <1>1, <1>2, <2>1
  <2>3. m \in Int /\ m = r - Mss
    BY <1>1, <2>1
  <2>4. m >= 0
    BY <1>1, <2>1
  <2> HIDE DEF m, r
  <2> QED
    BY <1>1, <1>2, <2>2, <2>3, <2>4
<1>7. j \in Nat /\ m < j /\ j <= n
  <2>1. j = Min({r, n})
    OBVIOUS
  <2> HIDE DEF j, r, m
  <2>2. j = IF r <= n THEN r ELSE n
    BY <1>1, <1>6, <2>1, MinIs
  <2> QED
    BY <1>1, <1>6, <2>2
<1>8. Pieces(c, n)[i] = segment(c, Plus(c.nxt, m), {"ack"}, SubSeq(c.tx, off + m + 1, off + j))
  BY <1>3, <1>5 DEF Piece
<1> HIDE DEF m, j
<1> QED
  BY <1>6, <1>7, <1>8 DEF off, PieceOf

\* What a connection's record says, by whether the console has answered its SYN.
LEMMA TiedIs ==
  ASSUME NEW p, NEW k, Sound(k), NEW h \in HostType, NEW c, NEW O, NEW I,
         Relays(p, k, h, {c}, O, I), k.st # "gone"
  PROVE  /\ Tied(k, h) /\ Awaits(k) <= h.took + 2
         /\ Joined(p, c, k, h, O, I)
         /\ c.syn_acked => Flowing(c, k, h) /\ ~Opened(p, k, O)
         /\ ~c.syn_acked => Greeting(c, h) /\ Awaits(k) = 1
<1>1. Down(p, k, h, {c}, O, I)
  BY DEF Relays
<1>2. Tied(k, h) /\ Joined(p, c, k, h, O, I)
  BY <1>1 DEF Down, Tied
<1>3. Awaits(k) <= h.took + 2
  <2>1. PICK x \in Nat, l \in Nat, t \in Nat :
          x = Awaits(k) /\ l = Len(k.got) /\ t = h.took /\ x <= l + 2
    BY AwaitsIs DEF HostType
  <2>2. l <= t
    BY <1>2, <2>1 DEF Tied
  <2>3. x <= t + 2
    BY <2>1, <2>2
  <2> QED
    BY <2>1, <2>3
<1>4. c.syn_acked => ~Opened(p, k, O)
  BY <1>1 DEF Down
<1> QED
  BY <1>2, <1>3, <1>4 DEF Joined

\* A piece of what the window allows is as far on as it should be.
LEMMA PieceFresh ==
  ASSUME NEW p, NEW k, Sound(k), NEW h \in HostType, Tied(k, h), Awaits(k) <= h.took + 2,
         NEW c \in TcpType, Fits(c), c.syn_acked, Flowing(c, k, h),
         NEW z \in 1 .. Left(c), z <= c.wnd - Minus(c.nxt, c.una),
         NEW m \in Nat, NEW j \in Nat, m < j, j <= z,
         NEW f, f = segment(c, Plus(c.nxt, m), {"ack"},
                            SubSeq(c.tx, Minus(c.nxt, c.tx_seq) + m + 1,
                                   Minus(c.nxt, c.tx_seq) + j))
  PROVE  Fresh(p, k, h, {c}, f)
<1>a. /\ h.took - Len(c.tx) \in Nat /\ Len(c.tx) \in Nat /\ h.took \in Nat
      /\ Place(k, c.una) \in Int /\ Place(k, c.nxt) \in Int /\ Edge(k) \in Int
      /\ Awaits(k) \in Int /\ c.wnd \in Nat /\ Len(c.tx) <= TcpBuf /\ TcpBuf \in Nat
      /\ Follows(c.tx, h.took - Len(c.tx))
      /\ 1 + (h.took - Len(c.tx)) <= Place(k, c.una) /\ Place(k, c.una) <= Place(k, c.nxt)
      /\ Place(k, c.nxt) <= h.took + 2
      /\ Place(k, c.una) <= Awaits(k) /\ Place(k, c.una) + c.wnd <= Edge(k)
      /\ Minus(c.nxt, c.tx_seq) = Place(k, c.nxt) - (1 + (h.took - Len(c.tx)))
      /\ Minus(c.nxt, c.una) = Place(k, c.nxt) - Place(k, c.una)
  BY FlowIs
<1>b. PICK B \in Nat, l \in Nat, t \in Nat :
        B = h.took - Len(c.tx) /\ l = Len(c.tx) /\ t = h.took
  BY <1>a
<1>c. PICK u \in Int, n \in Int, e \in Int, x \in Int :
        u = Place(k, c.una) /\ n = Place(k, c.nxt) /\ e = Edge(k) /\ x = Awaits(k)
  BY <1>a
<1>d. PICK b \in Nat, y \in Nat : b = TcpBuf /\ y = c.wnd
  BY <1>a
<1>0. /\ B = h.took - Len(c.tx) /\ l = Len(c.tx) /\ u = Place(k, c.una) /\ n = Place(k, c.nxt)
      /\ t = h.took /\ b = TcpBuf /\ e = Edge(k) /\ x = Awaits(k) /\ y = c.wnd
  BY <1>b, <1>c, <1>d
<1>1. /\ B + l = t /\ l <= b /\ Follows(c.tx, B)
      /\ 1 + B <= u /\ u <= n /\ n <= t + 2 /\ u <= x /\ u + y <= e /\ x <= t + 2
      /\ Minus(c.nxt, c.tx_seq) = n - (1 + B) /\ Minus(c.nxt, c.una) = n - u
  <2>1. B + l = t
    BY <1>b
  <2> QED
    BY <1>0, <1>a, <2>1
<1>2. PICK off \in Nat : off = n - (1 + B) /\ off = Minus(c.nxt, c.tx_seq)
  <2>1. n - (1 + B) \in Nat
    BY <1>1
  <2> QED
    BY <1>1, <2>1
<1>3. z \in Int /\ 1 <= z /\ z <= l - off /\ z <= y - (n - u)
  <2>1. Left(c) = l - off
    BY <1>0, <1>1, <1>2 DEF Left
  <2>2. z \in Int /\ 1 <= z /\ z <= l - off
    BY <2>1
  <2>3. z <= y - (n - u)
    BY <1>0, <1>1
  <2> QED
    BY <2>2, <2>3
<1>4. /\ off + m + 1 \in Nat /\ off + j \in Nat /\ 1 <= off + m + 1 /\ off + m + 1 <= (off + j) + 1
      /\ off + j <= l
  BY <1>3
<1>5. PICK data : data = SubSeq(c.tx, off + m + 1, off + j)
  OBVIOUS
<1>6. Follows(data, n - 1 + m) /\ Len(data) = j - m
  <2>1. c.tx \in Bytes
    BY DEF TcpType
  <2>2. PICK i1 \in Nat, j1 \in Nat : i1 = off + m + 1 /\ j1 = off + j
    BY <1>4
  <2>3. 1 <= i1 /\ i1 <= j1 + 1 /\ j1 <= Len(c.tx)
    BY <1>0, <1>4, <2>2
  <2>4. Follows(SubSeq(c.tx, i1, j1), B + i1 - 1) /\ Len(SubSeq(c.tx, i1, j1)) = j1 - i1 + 1
    BY <1>1, <2>1, <2>3, FollowsSub, SMTT(30)
  <2>5. B + i1 - 1 = n - 1 + m /\ j1 - i1 + 1 = j - m
    BY <1>2, <2>2
  <2> QED
    BY <1>5, <2>2, <2>4, <2>5
<1>7. t + 1 <= n + m + b /\ n + m <= t + 3 /\ n + m >= 1 /\ n + j - 1 <= t /\ n + j <= u + y
  <2>1. n + z <= t + 1
    BY <1>1, <1>2, <1>3
  <2>2. t + 1 <= n + b /\ n >= 1
    BY <1>1
  <2>3. n + z <= u + y
    BY <1>3
  <2> QED
    BY <1>3, <2>1, <2>2, <2>3
<1>8. Place(k, f.seq) = n + m
  <2>1. Close(k, h, Place(k, c.nxt) + m)
    BY <1>0, <1>7 DEF Close
  <2>2. c.nxt \in Seqs
    BY DEF TcpType
  <2>3. f.seq = Plus(c.nxt, m)
    BY DEF segment
  <2> QED
    BY <1>0, <2>1, <2>2, <2>3, MovedNear
<1>9. f.data = data /\ f.fl = {"ack"} /\ f.wnd = TcpBuf - Len(c.rx)
  BY <1>2, <1>5 DEF segment
<1>10. Placed(f, k, h)
  <2>1. PICK g \in Int : g = n + m
    OBVIOUS
  <2>2. 1 <= g /\ g - 1 = n - 1 + m /\ g - 1 + (j - m) <= t /\ g + (j - m) <= e
    BY <1>1, <1>7, <2>1
  <2>3. x <= g + Reach
    <3>1. x <= t + 2 /\ t + 1 <= g + b
      BY <1>1, <1>7, <2>1
    <3>2. Reach = b + 2
      BY <1>0, Windows
    <3>3. x <= g + (b + 2)
      BY <3>1
    <3> QED
      BY <3>2, <3>3
  <2> QED
    BY <1>0, <1>6, <1>8, <1>9, <2>1, <2>2, <2>3 DEF Placed
<1>11. h.took + 2 <= Place(k, f.seq) + Reach
  <2>1. Reach = b + 2
    BY <1>0, Windows
  <2>2. t + 2 <= n + m + (b + 2)
    BY <1>7
  <2> QED
    BY <1>0, <1>8, <2>1, <2>2
<1>12. f.wnd <= TcpBuf
  <2>1. Len(c.rx) \in Nat /\ TcpBuf \in Nat
    BY Numbers DEF TcpType, Bytes
  <2> QED
    BY <1>9, <2>1
<1> QED
  BY <1>9, <1>10, <1>11, <1>12 DEF Fresh

\* tcp_pump: the bytes, then the end.
LEMMA HeldSent ==
  ASSUME NEW p, NEW k, NEW O, NEW q, NEW h, Side(p, k, O, q, h),
         NEW a \in Nat, NEW w, InHand(w, p, a), w.c.used, Held(p, k, O, q, h, w),
         w.c.syn_acked, NEW z \in 1 .. Left(w.c), z <= w.c.wnd - Minus(w.c.nxt, w.c.una)
  PROVE  Held(p, k, O, q, h, Sent(w, z))
<1> DEFINE ps == Pieces(w.c, z)
           fit == Min({Len(ps), InLen - Len(w.q)})
           first == SubSeq(ps, 1, fit)
           J == w.q \o first
           y == [w EXCEPT !.q = J]
           d == [w.c EXCEPT !.nxt = Plus(w.c.nxt, z)]
           v == [w EXCEPT !.q = J, !.c.nxt = Plus(w.c.nxt, z)]
           F == {f \in Segments : f.port = p}
           E == {f \in Segments : f.port = p /\ Fresh(p, k, w.h, {w.c}, f)}
<1>1. /\ w \in Works /\ w.c \in TcpType /\ w.c.port = p /\ Fits(w.c) /\ w.h \in HostType
      /\ w.q \in Seq(Segments) /\ Len(w.q) \in Nat /\ Len(w.q) <= InLen
      /\ p \in Ports /\ Sound(k) /\ q \in Seq(Segments)
  BY DEF InHand, Works, Side
<1>2. ps \in Seq(Segments) /\ \A i \in 1 .. Len(ps) : ps[i].port = p
  BY <1>1, PieceType
<1>3. Relays(p, k, w.h, {w.c}, O, w.q)
  BY DEF Held, Own
<1>4. ASSUME NEW i \in 1 .. Len(ps)  PROVE ps[i] \in E
  <2>1. PICK m \in Nat, j \in Nat :
           /\ m < j /\ j <= z
           /\ ps[i] = segment(w.c, Plus(w.c.nxt, m), {"ack"},
                              SubSeq(w.c.tx, Minus(w.c.nxt, w.c.tx_seq) + m + 1,
                                     Minus(w.c.nxt, w.c.tx_seq) + j))
    <3>1. PieceOf(w.c, z, ps[i])
      BY <1>1, PieceIs
    <3> HIDE DEF ps
    <3> QED
      BY <3>1 DEF PieceOf
  <2>2. ps[i] \in Segments /\ ps[i].port = p
    BY <1>2
  <2>3. CASE k.st # "gone"
    <3>1. Tied(k, w.h) /\ Awaits(k) <= w.h.took + 2 /\ Flowing(w.c, k, w.h)
      BY <1>1, <1>3, <2>3, TiedIs
    <3>2. Fresh(p, k, w.h, {w.c}, ps[i])
      BY <1>1, <2>1, <3>1, PieceFresh
    <3> QED
      BY <2>2, <3>2
  <2>4. CASE k.st = "gone"
    <3>1. ps[i].wnd = TcpBuf - Len(w.c.rx)
      BY <2>1 DEF segment
    <3>2. Len(w.c.rx) \in Nat /\ TcpBuf \in Nat
      BY <1>1, Numbers DEF TcpType, Bytes
    <3>3. ps[i].wnd <= TcpBuf
      BY <3>1, <3>2
    <3> QED
      BY <2>2, <2>4, <3>3 DEF Fresh
  <2> QED
    BY <2>3, <2>4
<1>5. Sent(w, z) = v
  BY DEF Sent
<1> HIDE DEF ps
<1>6. fit \in Nat /\ fit <= Len(ps)
  <2>1. Len(ps) \in Nat /\ InLen - Len(w.q) \in Nat
    BY <1>1, <1>2, Numbers
  <2>2. PICK x \in Int, y1 \in Int : x = Len(ps) /\ y1 = InLen - Len(w.q) /\ x >= 0 /\ y1 >= 0
    BY <2>1
  <2>3. Min({x, y1}) = IF x <= y1 THEN x ELSE y1
    BY MinIs
  <2>4. fit = Min({x, y1})
    BY <2>2
  <2> HIDE DEF fit
  <2> QED
    BY <2>2, <2>3, <2>4
<1> HIDE DEF fit
<1>7. first \in Seq(Segments) /\ Len(first) = fit /\ \A i \in 1 .. fit : first[i] = ps[i]
  <2>1. \A i \in 1 .. fit : ps[i] \in Segments
    BY <1>2, <1>6
  <2> QED
    BY <1>6, <2>1, SubSeqProperties
<1> HIDE DEF first, E
<1>8. \A i \in 1 .. Len(first) : first[i] \in E
  BY <1>4, <1>6, <1>7
<1>9. Grown(w.q, J, E) /\ J \in Seq(Segments)
  <2>1. J \in Seq(Segments)
    BY <1>1, <1>7, ConcatProperties
  <2> QED
    BY <1>1, <1>7, <1>8, <2>1, ConcatGrows
<1> HIDE DEF J
<1>10. Relays(p, k, w.h, {w.c}, O, J)
  <2>1. \A f \in E : f \in Segments /\ Fresh(p, k, w.h, {w.c}, f)
    BY DEF E
  <2>2. \A c, e \in {w.c} : c = e
    OBVIOUS
  <2> QED
    BY <1>1, <1>3, <1>9, <2>1, <2>2, GrowsRelays
<1>11. Grown(q, J, F)
  <2>1. E \subseteq F /\ Grown(q, w.q, F)
    BY DEF E, Held
  <2>2. Grown(w.q, J, F)
    BY <1>9, <2>1 DEF Grown
  <2> HIDE DEF F
  <2> QED
    BY <1>1, <1>9, <2>1, <2>2, GrownMore
<1>12. y.q = J /\ y.h = w.h /\ y.c = w.c
  BY <1>1 DEF Works
<1>13. Held(p, k, O, q, h, y) /\ y.c.used
  BY <1>10, <1>11, <1>12 DEF Held, Own
<1>14. Plus(w.c.nxt, z) \in Seqs /\ w.c.nxt \in Seqs
  <2>1. w.c.nxt \in Int /\ z \in Int /\ w.c.nxt \in Seqs
    BY <1>1, SeqsAre DEF TcpType
  <2> QED
    BY <2>1, SeqType
<1>15. v.c = d /\ v.q = J /\ v.h = w.h
  BY <1>1, <1>9, <1>14 DEF Works
<1>16. /\ d.nxt = Plus(w.c.nxt, z) /\ d.used /\ d.una = w.c.una /\ d.tx_seq = w.c.tx_seq
       /\ d.tx = w.c.tx /\ d.wnd = w.c.wnd /\ d.syn_acked = w.c.syn_acked /\ d.iss = w.c.iss
       /\ d.host_eof = w.c.host_eof /\ d.rx = w.c.rx /\ d.console_fin = w.c.console_fin
       /\ d.connecting = w.c.connecting
  BY <1>1, <1>14 DEF TcpType
<1> HIDE DEF d, v, y
<1>17. ASSUME k.st # "gone"
       PROVE  /\ Place(k, w.c.una) <= Place(k, d.nxt) /\ Place(k, d.nxt) <= w.h.took + 2
              /\ Place(k, d.nxt) = w.h.took + 2 => w.c.host_eof
  <2>1. Tied(k, w.h) /\ Flowing(w.c, k, w.h)
    BY <1>1, <1>3, <1>17, TiedIs
  <2>a. /\ w.h.took - Len(w.c.tx) \in Nat /\ Len(w.c.tx) \in Nat /\ w.h.took \in Nat
        /\ Place(k, w.c.una) \in Int /\ Place(k, w.c.nxt) \in Int
        /\ Len(w.c.tx) <= TcpBuf /\ TcpBuf \in Nat
        /\ 1 + (w.h.took - Len(w.c.tx)) <= Place(k, w.c.una)
        /\ Place(k, w.c.una) <= Place(k, w.c.nxt)
        /\ Minus(w.c.nxt, w.c.tx_seq) = Place(k, w.c.nxt) - (1 + (w.h.took - Len(w.c.tx)))
    BY <1>1, <2>1, FlowIs
  <2>b. PICK B \in Nat, l \in Nat, t \in Nat, b \in Nat :
          B = w.h.took - Len(w.c.tx) /\ l = Len(w.c.tx) /\ t = w.h.took /\ b = TcpBuf
    BY <2>a
  <2>c. PICK u \in Int, n \in Int : u = Place(k, w.c.una) /\ n = Place(k, w.c.nxt)
    BY <2>a
  <2>0. /\ B = w.h.took - Len(w.c.tx) /\ l = Len(w.c.tx) /\ u = Place(k, w.c.una)
        /\ n = Place(k, w.c.nxt) /\ t = w.h.took /\ b = TcpBuf
    BY <2>b, <2>c
  <2>2. /\ B + l = t /\ l <= b /\ 1 + B <= u /\ u <= n
        /\ Minus(w.c.nxt, w.c.tx_seq) = n - (1 + B)
    <3>1. B + l = t
      BY <2>b, SMTT(30)
    <3> QED
      BY <2>a, <2>0, <3>1
  <2>3. z \in Int /\ 1 <= z /\ z <= l - (n - (1 + B))
    <3>1. Left(w.c) = l - (n - (1 + B))
      BY <2>0, <2>2 DEF Left
    <3> QED
      BY <2>2, <3>1
  <2>4. n + z <= t + 1 /\ t + 1 <= n + z + b
    BY <2>2, <2>3
  <2>5. Close(k, w.h, Place(k, w.c.nxt) + z)
    BY <2>0, <2>4, SMTT(30) DEF Close
  <2>6. Place(k, Plus(w.c.nxt, z)) = n + z
    BY <1>1, <1>14, <2>0, <2>1, <2>3, <2>5, MovedNear
  <2>7. u <= n + z /\ n + z <= t + 2 /\ n + z # t + 2
    BY <2>2, <2>3, <2>4
  <2> QED
    BY <1>16, <2>0, <2>6, <2>7
<1>18. Held(p, k, O, q, h, v)
  <2>1. /\ v.q = y.q /\ v.h = y.h /\ v.c = d /\ d.used /\ y.c.used /\ Held(p, k, O, q, h, y)
        /\ d.una = y.c.una /\ d.tx_seq = y.c.tx_seq /\ d.tx = y.c.tx /\ d.wnd = y.c.wnd
        /\ d.syn_acked = y.c.syn_acked /\ d.iss = y.c.iss /\ d.host_eof = y.c.host_eof
        /\ d.rx = y.c.rx /\ d.console_fin = y.c.console_fin /\ (d.connecting => y.c.connecting)
        /\ y.c.syn_acked
    BY <1>12, <1>13, <1>15, <1>16
  <2>2. k.st # "gone" =>
          /\ Place(k, y.c.una) <= Place(k, d.nxt) /\ Place(k, d.nxt) <= y.h.took + 2
          /\ Place(k, d.nxt) = y.h.took + 2 => y.c.host_eof
    BY <1>12, <1>17
  <2> QED
    BY <2>1, <2>2, HeldSteers
<1> QED
  BY <1>5, <1>18

LEMMA HeldSendData ==
  ASSUME NEW p, NEW k, NEW O, NEW q, NEW h, Side(p, k, O, q, h),
         NEW a \in Nat, NEW w, InHand(w, p, a), w.c.used, Held(p, k, O, q, h, w), w.c.syn_acked
  PROVE  Held(p, k, O, q, h, SendData(w)) /\ SendData(w).c.syn_acked
<1> DEFINE inflight == Minus(w.c.nxt, w.c.una)
           n == Min({Left(w.c), w.c.wnd - inflight})
<1>1. /\ w.c.nxt \in Int /\ w.c.una \in Int /\ w.c.tx_seq \in Int /\ Len(w.c.tx) \in Nat
      /\ w.c.wnd \in Int /\ w \in Works /\ w.c \in TcpType
  BY SeqsAre DEF InHand, Works, TcpType, Bytes
<1>2. Left(w.c) \in Int /\ inflight \in Int
  <2>1. inflight \in Seqs /\ Minus(w.c.nxt, w.c.tx_seq) \in Seqs
    BY <1>1, SeqType
  <2>2. inflight \in Int /\ Minus(w.c.nxt, w.c.tx_seq) \in Int
    BY <2>1, SeqsAre
  <2> QED
    BY <1>1, <2>2 DEF Left
<1>3. CASE Left(w.c) <= 0 \/ inflight >= w.c.wnd
  BY <1>3 DEF SendData
<1>4. CASE ~(Left(w.c) <= 0 \/ inflight >= w.c.wnd)
  <2>1. n \in 1 .. Left(w.c) /\ n <= w.c.wnd - inflight
    <3> DEFINE left == Left(w.c)
               open == w.c.wnd - inflight
    <3>1. left \in Int /\ open \in Int /\ left > 0 /\ open > 0
      BY <1>1, <1>2, <1>4
    <3> HIDE DEF left, open
    <3>2. /\ Min({left, open}) \in Int /\ Min({left, open}) <= left /\ Min({left, open}) > 0
          /\ Min({left, open}) <= open
      BY <3>1, LeastPositive
    <3>3. Min({left, open}) \in 1 .. left /\ Min({left, open}) <= open
      BY <3>1, <3>2
    <3> QED
      BY <3>3 DEF left, open
  <2>2. SendData(w) = Sent(w, n)
    BY <1>4 DEF SendData
  <2> HIDE DEF n
  <2>3. Held(p, k, O, q, h, Sent(w, n))
    BY <2>1, HeldSent
  <2>4. Sent(w, n).c.syn_acked
    BY <1>1 DEF Sent, Works, TcpType
  <2> QED
    BY <2>2, <2>3, <2>4
<1> QED
  BY <1>3, <1>4

\* The end stands behind the last byte.
LEMMA EndFresh ==
  ASSUME NEW p, NEW k, Sound(k), NEW h \in HostType, Tied(k, h), Awaits(k) <= h.took + 2,
         NEW c \in TcpType, Fits(c), c.syn_acked, Flowing(c, k, h), c.host_eof,
         c.nxt = Plus(c.tx_seq, Len(c.tx))
  PROVE  /\ Fresh(p, k, h, {c}, segment(c, c.nxt, {"fin", "ack"}, <<>>))
         /\ Place(k, c.una) <= Place(k, Plus(c.nxt, 1)) /\ Place(k, Plus(c.nxt, 1)) <= h.took + 2
<1> DEFINE f == segment(c, c.nxt, {"fin", "ack"}, <<>>)
<1>a. /\ h.took - Len(c.tx) \in Nat /\ Len(c.tx) \in Nat /\ h.took \in Nat
      /\ Place(k, c.una) \in Int /\ Place(k, c.nxt) \in Int /\ Edge(k) \in Int
      /\ Awaits(k) \in Int /\ TcpBuf \in Nat
      /\ Place(k, c.tx_seq) = 1 + (h.took - Len(c.tx))
      /\ Place(k, c.una) <= Place(k, c.nxt)
  BY FlowIs
<1>b. PICK B \in Nat, l \in Nat, t \in Nat, b \in Nat :
        B = h.took - Len(c.tx) /\ l = Len(c.tx) /\ t = h.took /\ b = TcpBuf
  BY <1>a
<1>c. PICK u \in Int, n \in Int, x \in Int :
        u = Place(k, c.una) /\ n = Place(k, c.nxt) /\ x = Awaits(k)
  BY <1>a
<1>1. B + l = t /\ u <= n /\ x <= t + 2
  <2>1. B + l = t
    BY <1>b
  <2>2. u <= n /\ x <= t + 2
    BY <1>a, <1>b, <1>c
  <2> QED
    BY <2>1, <2>2
<1>2. c.nxt \in Seqs /\ c.tx_seq \in Seqs
  BY DEF TcpType
<1>3. n = t + 1
  <2>1. Close(k, h, Place(k, c.tx_seq) + l)
    <3>1. t + 1 <= (1 + B) + l + b /\ (1 + B) + l <= t + 3
      BY <1>1
    <3> QED
      BY <1>a, <1>b, <3>1 DEF Close
  <2>2. Place(k, Plus(c.tx_seq, l)) = Place(k, c.tx_seq) + l
    BY <1>2, <2>1, MovedNear
  <2>3. Place(k, c.tx_seq) = 1 + B
    BY <1>a, <1>b
  <2>4. n = Place(k, Plus(c.tx_seq, l))
    BY <1>b, <1>c
  <2> QED
    BY <1>1, <2>2, <2>3, <2>4
<1>4. Place(k, Plus(c.nxt, 1)) = t + 2
  <2>1. Close(k, h, Place(k, c.nxt) + 1)
    <3>1. t + 1 <= (t + 1) + 1 + b /\ (t + 1) + 1 <= t + 3
      OBVIOUS
    <3> QED
      BY <1>b, <1>c, <1>3, <3>1 DEF Close
  <2>2. Place(k, Plus(c.nxt, 1)) = Place(k, c.nxt) + 1
    BY <1>2, <2>1, MovedNear
  <2> QED
    BY <1>c, <1>3, <2>2
<1>5. f.seq = c.nxt /\ f.fl = {"fin", "ack"} /\ f.data = <<>> /\ f.wnd = TcpBuf - Len(c.rx)
  BY DEF segment
<1> HIDE DEF f
<1>6. Placed(f, k, h)
  <2>1. Place(k, f.seq) = t + 1 /\ Len(f.data) = 0
    BY <1>c, <1>3, <1>5, EmptySeq
  <2>2. Follows(f.data, (t + 1) - 1)
    BY <1>5, EmptySeq DEF Follows
  <2>3. 1 <= t + 1 /\ (t + 1) - 1 + 0 <= t /\ t + 1 = 1 + t
    OBVIOUS
  <2>4. x <= (t + 1) + Reach
    <3>1. Reach = b + 2
      BY <1>b, Windows
    <3>2. x <= (t + 1) + (b + 2)
      BY <1>1
    <3> QED
      BY <3>1, <3>2
  <2>5. Over(h)
    BY DEF Flowing
  <2> QED
    BY <1>b, <1>c, <1>5, <2>1, <2>2, <2>3, <2>4, <2>5 DEF Placed
<1>7. h.took + 2 <= Place(k, f.seq) + Reach
  <2>1. Reach = b + 2
    BY <1>b, Windows
  <2>2. t + 2 <= (t + 1) + (b + 2)
    OBVIOUS
  <2> QED
    BY <1>b, <1>c, <1>3, <1>5, <2>1, <2>2
<1>8. f.wnd <= TcpBuf
  <2>1. Len(c.rx) \in Nat /\ TcpBuf \in Nat
    BY Numbers DEF TcpType, Bytes
  <2> QED
    BY <1>5, <2>1
<1>9. Fresh(p, k, h, {c}, f)
  BY <1>5, <1>6, <1>7, <1>8 DEF Fresh
<1>10. u <= t + 2 /\ t + 2 <= t + 2
  BY <1>1, <1>3
<1> QED
  BY <1>b, <1>c, <1>4, <1>9, <1>10 DEF f

LEMMA HeldSendFin ==
  ASSUME NEW p, NEW k, NEW O, NEW q, NEW h, Side(p, k, O, q, h),
         NEW a \in Nat, NEW w, InHand(w, p, a), w.c.used, Held(p, k, O, q, h, w), w.c.syn_acked
  PROVE  Held(p, k, O, q, h, SendFin(w))
<1> SUFFICES ASSUME w.c.host_eof, w.c.nxt = Plus(w.c.tx_seq, Len(w.c.tx))
             PROVE  Held(p, k, O, q, h, Ended(w))
  BY DEF SendFin
<1> DEFINE f == segment(w.c, w.c.nxt, {"fin", "ack"}, <<>>)
           u == tcp_segment(w, w.c.nxt, {"fin", "ack"}, <<>>)
           d == [w.c EXCEPT !.fin_seq = w.c.nxt, !.nxt = Plus(w.c.nxt, 1), !.fin_sent = TRUE]
           v == Ended(w)
<1>1. /\ w.c.nxt \in Seqs /\ <<>> \in Bytes /\ w.c \in TcpType /\ w.h \in HostType
      /\ Fits(w.c) /\ Sound(k) /\ p \in Ports
      /\ {"fin", "ack"} \in SUBSET {"syn", "ack", "fin", "rst"}
  BY DEF InHand, Works, TcpType, Bytes, Side
<1>2. InHand(u, p, a) /\ u.c = w.c /\ u.h = w.h
  BY <1>1, SegmentSent
<1>3. v = [u EXCEPT !.c.fin_seq = w.c.nxt, !.c.nxt = Plus(u.c.nxt, 1), !.c.fin_sent = TRUE]
  BY DEF Ended
<1>4. Relays(p, k, w.h, {w.c}, O, w.q)
  BY DEF Held, Own
<1>5. ASSUME k.st # "gone"
      PROVE  /\ Fresh(p, k, w.h, {w.c}, f)
             /\ Place(k, w.c.una) <= Place(k, Plus(w.c.nxt, 1))
             /\ Place(k, Plus(w.c.nxt, 1)) <= w.h.took + 2
  <2>1. Tied(k, w.h) /\ Awaits(k) <= w.h.took + 2 /\ Flowing(w.c, k, w.h)
    BY <1>1, <1>4, <1>5, TiedIs
  <2> QED
    BY <1>1, <2>1, EndFresh
<1>6. Fresh(p, k, w.h, {w.c}, f)
  <2>1. Len(w.c.rx) \in Nat /\ TcpBuf \in Nat
    BY <1>1, Numbers DEF TcpType, Bytes
  <2>2. f.wnd <= TcpBuf
    BY <2>1 DEF segment
  <2> QED
    BY <1>5, <2>2 DEF Fresh
<1> HIDE DEF f
<1>7. Held(p, k, O, q, h, u)
  BY <1>1, <1>6, HeldSends DEF f
<1> HIDE DEF u
<1>8. u \in Works /\ Plus(w.c.nxt, 1) \in Seqs
  <2>1. w.c.nxt \in Int
    BY <1>1, SeqsAre
  <2> QED
    BY <1>2, <2>1, SeqType DEF InHand
<1>9. /\ d \in TcpType /\ d.nxt = Plus(w.c.nxt, 1) /\ d.used /\ d.una = w.c.una
      /\ d.tx_seq = w.c.tx_seq /\ d.tx = w.c.tx /\ d.wnd = w.c.wnd
      /\ d.syn_acked = w.c.syn_acked /\ d.iss = w.c.iss /\ d.host_eof = w.c.host_eof
      /\ d.rx = w.c.rx /\ d.console_fin = w.c.console_fin /\ d.connecting = w.c.connecting
  BY <1>1, <1>8 DEF TcpType
<1>10. v.c = d /\ v.q = u.q /\ v.h = u.h
  <2>1. v = [u EXCEPT !.c = d]
    BY <1>2, <1>3, <1>8 DEF Works
  <2> HIDE DEF v, d
  <2> QED
    BY <1>8, <1>9, <2>1 DEF Works
<1> HIDE DEF d, v
<1>11. Held(p, k, O, q, h, v)
  <2>1. /\ u.c.used /\ Held(p, k, O, q, h, u) /\ v.q = u.q /\ v.h = u.h /\ v.c = d /\ d.used
        /\ d.una = u.c.una /\ d.tx_seq = u.c.tx_seq /\ d.tx = u.c.tx /\ d.wnd = u.c.wnd
        /\ d.syn_acked = u.c.syn_acked /\ d.iss = u.c.iss /\ d.host_eof = u.c.host_eof
        /\ d.rx = u.c.rx /\ d.console_fin = u.c.console_fin /\ (d.connecting => u.c.connecting)
        /\ u.c.syn_acked
    BY <1>2, <1>7, <1>9, <1>10
  <2>2. k.st # "gone" =>
          /\ Place(k, u.c.una) <= Place(k, d.nxt) /\ Place(k, d.nxt) <= u.h.took + 2
          /\ Place(k, d.nxt) = u.h.took + 2 => u.c.host_eof
    BY <1>2, <1>5, <1>9
  <2> QED
    BY <2>1, <2>2, HeldSteers
<1> QED
  BY <1>11 DEF v

LEMMA HeldPump ==
  ASSUME NEW p, NEW k, NEW O, NEW q, NEW h, Side(p, k, O, q, h),
         NEW a \in Nat, NEW w, InHand(w, p, a), w.c.used, Held(p, k, O, q, h, w)
  PROVE  Held(p, k, O, q, h, tcp_pump(w))
<1> DEFINE f == segment(w.c, w.c.iss, {"syn", "ack"}, <<>>)
           u == tcp_segment(w, w.c.iss, {"syn", "ack"}, <<>>)
           d == [w.c EXCEPT !.nxt = Plus(w.c.iss, 1)]
           v == [u EXCEPT !.c.nxt = Plus(w.c.iss, 1)]
<1>1. /\ w.c.iss \in Seqs /\ <<>> \in Bytes /\ w.c \in TcpType /\ w.h \in HostType /\ p \in Ports
      /\ {"syn", "ack"} \in SUBSET {"syn", "ack", "fin", "rst"}
  BY DEF InHand, Works, TcpType, Bytes, Side
<1>2. InHand(u, p, a) /\ u.c = w.c /\ u.h = w.h
  BY <1>1, SegmentSent
<1>3. Plus(w.c.iss, 1) \in Seqs /\ u \in Works
  <2>1. w.c.iss \in Int
    BY <1>1, SeqsAre
  <2> QED
    BY <1>2, <2>1, SeqType DEF InHand
<1>4. CASE w.c.connecting \/ (~w.c.syn_acked /\ w.c.nxt # w.c.iss)
  BY <1>4 DEF tcp_pump
<1>5. CASE ~w.c.connecting /\ ~w.c.syn_acked
  <2>1. Fresh(p, k, w.h, {w.c}, f)
    <3>1. Len(w.c.rx) \in Nat /\ TcpBuf \in Nat
      BY <1>1, Numbers DEF TcpType, Bytes
    <3>2. f.wnd <= TcpBuf
      BY <3>1 DEF segment
    <3>3. f.seq = w.c.iss /\ ~Carries(f)
      BY DEF segment, Carries
    <3> QED
      BY <1>5, <3>2, <3>3 DEF Fresh
  <2> HIDE DEF f
  <2>2. Held(p, k, O, q, h, u)
    BY <1>1, <2>1, HeldSends DEF f
  <2> HIDE DEF u
  <2>3. /\ d \in TcpType /\ d.nxt = Plus(w.c.iss, 1) /\ d.used /\ d.una = w.c.una
        /\ d.tx_seq = w.c.tx_seq /\ d.tx = w.c.tx /\ d.wnd = w.c.wnd
        /\ d.syn_acked = w.c.syn_acked /\ d.iss = w.c.iss /\ d.host_eof = w.c.host_eof
        /\ d.rx = w.c.rx /\ d.console_fin = w.c.console_fin /\ d.connecting = w.c.connecting
    BY <1>1, <1>3 DEF TcpType
  <2>4. v.c = d /\ v.q = u.q /\ v.h = u.h
    <3>1. v = [u EXCEPT !.c = d]
      BY <1>2, <1>3 DEF Works
    <3> HIDE DEF v, d
    <3> QED
      BY <1>3, <2>3, <3>1 DEF Works
  <2> HIDE DEF d, v
  <2>5. /\ u.c.used /\ Held(p, k, O, q, h, u) /\ v.q = u.q /\ v.h = u.h /\ v.c = d /\ d.used
        /\ d.una = u.c.una /\ d.tx_seq = u.c.tx_seq /\ d.tx = u.c.tx /\ d.wnd = u.c.wnd
        /\ d.syn_acked = u.c.syn_acked /\ d.iss = u.c.iss /\ d.host_eof = u.c.host_eof
        /\ d.rx = u.c.rx /\ d.console_fin = u.c.console_fin /\ (d.connecting => u.c.connecting)
        /\ ~u.c.syn_acked /\ d.nxt \in {u.c.iss, Plus(u.c.iss, 1)}
    BY <1>2, <1>5, <2>2, <2>3, <2>4
  <2>6. Held(p, k, O, q, h, v)
    BY <2>5, HeldSteers
  <2> QED
    BY <1>4, <1>5, <2>6 DEF tcp_pump, v, u
<1>6. CASE ~w.c.connecting /\ w.c.syn_acked
  <2>1. Held(p, k, O, q, h, SendData(w)) /\ SendData(w).c.syn_acked
    BY <1>6, HeldSendData
  <2>2. InHand(SendData(w), p, a) /\ SendData(w).c.used
    BY <1>1, SendDataKeeps
  <2>3. Held(p, k, O, q, h, SendFin(SendData(w)))
    BY <2>1, <2>2, HeldSendFin
  <2> QED
    BY <1>6, <2>3 DEF tcp_pump
<1> QED
  BY <1>4, <1>5, <1>6

LEMMA HeldFinished ==
  ASSUME NEW p, NEW k, NEW O, NEW q, NEW h, Side(p, k, O, q, h),
         NEW a \in Nat, NEW w, InHand(w, p, a), w.c.used, Held(p, k, O, q, h, w)
  PROVE  Held(p, k, O, q, h, Finished(w))
<1>1. Held(p, k, O, q, h, tcp_pump(w)) /\ InHand(tcp_pump(w), p, a) /\ tcp_pump(w).c.used
  <2>1. p \in Ports
    BY DEF Side
  <2> QED
    BY <2>1, HeldPump, PumpKeeps
<1>2. ASSUME tcp_pump(w).c.console_fin
      PROVE  Held(p, k, O, q, h, tcp_close(tcp_pump(w)))
  <2>1. ~Opened(p, k, O)
    BY <1>1, <1>2 DEF Held
  <2>2. Parted(p, k, O, tcp_pump(w).q)
    BY <1>1, <2>1, MayPart
  <2> QED
    BY <1>1, <2>2, HeldCloses
<1> QED
  BY <1>1, <1>2 DEF Finished

\* The far side is told the end, behind every byte.
LEMMA HeldPassEnd ==
  ASSUME NEW p, NEW k, NEW O, NEW q, NEW h, Side(p, k, O, q, h),
         NEW a \in Nat, NEW w, InHand(w, p, a), w.c.used, Held(p, k, O, q, h, w)
  PROVE  Held(p, k, O, q, h, PassEnd(w))
<1> SUFFICES ASSUME w.c.rx = <<>>, w.c.console_fin
             PROVE  Held(p, k, O, q, h, [w EXCEPT !.c.shut_wr = TRUE, !.h.shut = TRUE])
  BY DEF PassEnd
<1> DEFINE d == [w.c EXCEPT !.shut_wr = TRUE]
           g == [w.h EXCEPT !.shut = TRUE]
           v == [w EXCEPT !.c.shut_wr = TRUE, !.h.shut = TRUE]
<1>1. w \in Works /\ w.c \in TcpType /\ w.h \in HostType /\ h \in HostType
  BY DEF InHand, Works, Side
<1>2. /\ d \in TcpType /\ d.used /\ d.una = w.c.una /\ d.nxt = w.c.nxt
      /\ d.tx_seq = w.c.tx_seq /\ d.tx = w.c.tx /\ d.wnd = w.c.wnd
      /\ d.syn_acked = w.c.syn_acked /\ d.iss = w.c.iss /\ d.host_eof = w.c.host_eof
      /\ d.rx = w.c.rx /\ d.console_fin = w.c.console_fin /\ d.connecting = w.c.connecting
  BY <1>1 DEF TcpType
<1>3. /\ g \in HostType /\ g.st = w.h.st /\ g.took = w.h.took /\ g.wrote = w.h.wrote
      /\ g.ended = w.h.ended /\ g.got = w.h.got /\ g.shut
  BY <1>1 DEF HostType
<1>4. v.c = d /\ v.h = g /\ v.q = w.q
  BY <1>1 DEF Works, TcpType, HostType
<1> HIDE DEF d, g, v
<1>5. (Over(w.h) <=> Over(g)) /\ (Broke(g) <=> Broke(w.h))
  BY <1>3 DEF Over, Broke
<1>6. Relays(p, k, w.h, {w.c}, O, w.q) /\ ~Opened(p, k, O) /\ Onto(h, w.h)
  BY DEF Held, Own
<1>7. k.st # "gone" => Down(p, k, g, {d}, O, w.q)
  BY <1>2, <1>3, <1>5, <1>6, DownAlike DEF Relays
<1>8. Up(p, k, g, {d}, O)
  <2>1. Up(p, k, w.h, {w.c}, O) /\ Carried(p, w.c, k, w.h, O)
    BY <1>6 DEF Relays, Up
  <2>2. Taking(d, g) = Taking(w.c, w.h)
    BY <1>2, <1>3 DEF Taking
  <2>3. Carried(p, d, k, g, O)
    BY <1>2, <1>3, <2>1, <2>2 DEF Carried
  <2>4. k.shut /\ Len(g.got) = Sends[p]
    <3>1. k.shut /\ Len(w.h.got) + Len(w.c.rx) = Sends[p] /\ Len(w.c.rx) = 0
      BY <2>1, EmptySeq DEF Carried
    <3>2. Len(w.h.got) \in Nat
      BY <1>1 DEF HostType, Bytes
    <3> QED
      BY <1>3, <3>1, <3>2
  <2> QED
    BY <1>3, <1>6, <2>1, <2>3, <2>4 DEF Up
<1>9. Relays(p, k, g, {d}, O, w.q)
  <2>1. Source(p, g)
    BY <1>3, <1>6 DEF Relays, Source
  <2>2. Met(p, k, {d}, O)
    BY <1>2, <1>6 DEF Relays, Met
  <2> QED
    BY <1>6, <1>7, <1>8, <2>1, <2>2 DEF Relays
<1>10. Onto(h, g)
  <2>1. Len(w.h.got) \in Nat /\ Len(w.h.got) <= Len(g.got)
    BY <1>1, <1>3 DEF HostType, Bytes
  <2> QED
    BY <1>1, <1>3, <1>5, <1>6, <2>1, OntoSame
<1>11. Own(v) = {d}
  BY <1>2, <1>4 DEF Own
<1>12. Held(p, k, O, q, h, v)
  BY <1>4, <1>6, <1>9, <1>10, <1>11 DEF Held
<1> QED
  BY <1>12 DEF v

\* tcp_flush_rx: one send, then all of them.
LEMMA PassIs ==
  ASSUME NEW w \in Works, NEW x \in 1 .. Len(w.c.rx), NEW full \in BOOLEAN,
         NEW s \in Nat, Follows(w.h.got, 0), Follows(w.c.rx, Len(w.h.got)),
         Len(w.h.got) + Len(w.c.rx) <= s
  PROVE  LET c == Shorter(w, x)
             g == Longer(w, x, full)
             v == Pass(w, x, full)
         IN
         /\ v.c = c /\ v.h = g /\ v.q = w.q /\ c \in TcpType /\ g \in HostType
         /\ c.used = w.c.used /\ c.una = w.c.una /\ c.nxt = w.c.nxt
         /\ c.tx_seq = w.c.tx_seq /\ c.tx = w.c.tx /\ c.wnd = w.c.wnd
         /\ c.syn_acked = w.c.syn_acked /\ c.iss = w.c.iss /\ c.host_eof = w.c.host_eof
         /\ c.console_fin = w.c.console_fin /\ c.connecting = w.c.connecting
         /\ g.st = w.h.st /\ g.took = w.h.took /\ g.wrote = w.h.wrote
         /\ g.ended = w.h.ended /\ g.shut = w.h.shut
         /\ Follows(g.got, 0) /\ Follows(c.rx, Len(g.got))
         /\ Len(g.got) + Len(c.rx) = Len(w.h.got) + Len(w.c.rx)
         /\ Len(w.h.got) < Len(g.got) /\ Len(g.got) <= s
<1> DEFINE n == Len(w.c.rx)
           rest == SubSeq(w.c.rx, x + 1, n)
           more == SubSeq(w.c.rx, 1, x)
           got == w.h.got \o more
           c == Shorter(w, x)
           g == Longer(w, x, full)
           v == Pass(w, x, full)
<1>1. /\ w.c \in TcpType /\ w.h \in HostType /\ w.c.rx \in Bytes /\ w.h.got \in Bytes
      /\ n \in Nat /\ Len(w.h.got) \in Nat /\ x \in Nat /\ 1 <= x /\ x <= n
  BY DEF Works, TcpType, HostType, Bytes
<1>2. PICK l \in Nat, m \in Nat : l = Len(w.h.got) /\ m = n
  BY <1>1
<1>3. Follows(more, l) /\ Len(more) = x /\ more \in Bytes
  <2>1. /\ Follows(SubSeq(w.c.rx, 1, x), l + 1 - 1) /\ Len(SubSeq(w.c.rx, 1, x)) = x - 1 + 1
        /\ SubSeq(w.c.rx, 1, x) \in Bytes
    <3>1. 1 <= x + 1 /\ x <= Len(w.c.rx) /\ Follows(w.c.rx, l)
      BY <1>1, <1>2
    <3> QED
      BY <1>1, <3>1, FollowsSub
  <2>2. l + 1 - 1 = l /\ x - 1 + 1 = x
    BY <1>1
  <2> QED
    BY <2>1, <2>2
<1>4. Follows(rest, l + x) /\ Len(rest) = m - x /\ rest \in Bytes
  <2>1. PICK i \in Nat : i = x + 1
    BY <1>1
  <2>2. 1 <= i /\ i <= m + 1 /\ m <= Len(w.c.rx) /\ Follows(w.c.rx, l) /\ w.c.rx \in Bytes
    <3>1. m = Len(w.c.rx) /\ x <= m
      BY <1>1, <1>2
    <3> QED
      BY <1>1, <1>2, <2>1, <3>1
  <2>a. PICK y \in Bytes : y = w.c.rx /\ m <= Len(y) /\ Follows(y, l)
    BY <2>2
  <2>b. l \in Int /\ i <= m + 1 /\ 1 <= i
    BY <2>2
  <2>3. Follows(SubSeq(y, i, m), l + i - 1) /\ Len(SubSeq(y, i, m)) = m - i + 1
        /\ SubSeq(y, i, m) \in Bytes
    BY ONLY <2>a, <2>b, FollowsSub, i \in Nat, m \in Nat
  <2>4. l + i - 1 = l + x /\ m - i + 1 = m - x
    BY <1>1, <2>1
  <2> QED
    BY <1>2, <2>1, <2>a, <2>3, <2>4
<1> HIDE DEF more, rest
<1>5. Follows(got, 0) /\ Len(got) = l + x /\ got \in Bytes
  <2>1. PICK y : y = w.h.got /\ y \in Bytes /\ Len(y) = l /\ Follows(y, 0)
    BY <1>1, <1>2
  <2>2. Follows(more, 0 + Len(y)) /\ more \in Bytes
    BY <1>3, <2>1
  <2>3. Follows(y \o more, 0) /\ Len(y \o more) = Len(y) + Len(more) /\ y \o more \in Bytes
    BY <2>1, <2>2, FollowsOn
  <2> QED
    BY <1>3, <2>1, <2>3
<1>6. c = [w.c EXCEPT !.rx = rest] /\ g = [w.h EXCEPT !.got = got, !.full = full]
      /\ v = [w EXCEPT !.c = c, !.h = g]
  BY DEF Shorter, Longer, Pass, rest, more
<1> HIDE DEF got, c, g, v
<1>7. /\ c \in TcpType /\ c.rx = rest
      /\ c.used = w.c.used /\ c.una = w.c.una /\ c.nxt = w.c.nxt
      /\ c.tx_seq = w.c.tx_seq /\ c.tx = w.c.tx /\ c.wnd = w.c.wnd
      /\ c.syn_acked = w.c.syn_acked /\ c.iss = w.c.iss /\ c.host_eof = w.c.host_eof
      /\ c.console_fin = w.c.console_fin /\ c.connecting = w.c.connecting
  BY <1>1, <1>4, <1>6 DEF TcpType
<1>8. /\ g \in HostType /\ g.got = got /\ g.st = w.h.st /\ g.took = w.h.took /\ g.wrote = w.h.wrote
      /\ g.ended = w.h.ended /\ g.shut = w.h.shut
  BY <1>1, <1>5, <1>6 DEF HostType
<1>9. v.c = c /\ v.h = g /\ v.q = w.q
  BY <1>6, <1>7, <1>8 DEF Works
<1>10. (l + x) + (m - x) = l + m /\ l < l + x /\ l + x <= s
  <2>1. l + m <= s /\ x <= m
    BY <1>1, <1>2
  <2> QED
    BY <1>1, <2>1
<1>11. /\ Follows(g.got, 0) /\ Follows(c.rx, Len(g.got))
       /\ Len(g.got) + Len(c.rx) = Len(w.h.got) + Len(w.c.rx)
       /\ Len(w.h.got) < Len(g.got) /\ Len(g.got) <= s
  BY <1>2, <1>4, <1>5, <1>7, <1>8, <1>10
<1> QED
  BY <1>7, <1>8, <1>9, <1>11 DEF c, g, v

\* Some of the buffer goes to the far side.
LEMMA HeldPassed ==
  ASSUME NEW p, NEW k, NEW O, NEW q, NEW h, Side(p, k, O, q, h),
         NEW a \in Nat, NEW w, InHand(w, p, a), w.c.used, Held(p, k, O, q, h, w),
         NEW x \in 1 .. Len(w.c.rx), NEW full \in BOOLEAN
  PROVE  Held(p, k, O, q, h, Pass(w, x, full))
<1> DEFINE c == Shorter(w, x)
           g == Longer(w, x, full)
           v == Pass(w, x, full)
<1>1. w \in Works /\ w.c \in TcpType /\ w.h \in HostType /\ h \in HostType /\ p \in Ports
  BY DEF InHand, Works, Side
<1>2. /\ Relays(p, k, w.h, {w.c}, O, w.q) /\ Onto(h, w.h)
      /\ Up(p, k, w.h, {w.c}, O) /\ Carried(p, w.c, k, w.h, O)
  BY DEF Held, Own, Relays, Up
<1>3. Sends[p] \in Nat
  BY <1>1, Numbers
<1>4. /\ v.c = c /\ v.h = g /\ v.q = w.q /\ c \in TcpType /\ g \in HostType
      /\ c.used = w.c.used /\ c.una = w.c.una /\ c.nxt = w.c.nxt
      /\ c.tx_seq = w.c.tx_seq /\ c.tx = w.c.tx /\ c.wnd = w.c.wnd
      /\ c.syn_acked = w.c.syn_acked /\ c.iss = w.c.iss /\ c.host_eof = w.c.host_eof
      /\ c.console_fin = w.c.console_fin /\ c.connecting = w.c.connecting
      /\ g.st = w.h.st /\ g.took = w.h.took /\ g.wrote = w.h.wrote
      /\ g.ended = w.h.ended /\ g.shut = w.h.shut
      /\ Follows(g.got, 0) /\ Follows(c.rx, Len(g.got))
      /\ Len(g.got) + Len(c.rx) = Len(w.h.got) + Len(w.c.rx)
      /\ Len(w.h.got) < Len(g.got) /\ Len(g.got) <= Sends[p]
  <2>1. Follows(w.h.got, 0) /\ Follows(w.c.rx, Len(w.h.got))
        /\ Len(w.h.got) + Len(w.c.rx) <= Sends[p]
    BY <1>2 DEF Up, Carried
  <2> QED
    BY <1>1, <1>3, <2>1, PassIs
<1> HIDE DEF c, g, v
<1>5. w.c.rx # <<>>
  BY EmptySeq
<1>6. ~Opened(p, k, O)
  BY <1>5 DEF Held
<1>7. (Over(w.h) <=> Over(g)) /\ (Broke(g) <=> Broke(w.h))
  BY <1>4 DEF Over, Broke
<1>8. k.st # "gone" => Down(p, k, g, {c}, O, w.q)
  BY <1>2, <1>4, <1>7, DownAlike DEF Relays
<1>9. Taking(c, g) = Taking(w.c, w.h)
  BY <1>4 DEF Taking
<1>10. Carried(p, c, k, g, O)
  BY <1>2, <1>4, <1>9 DEF Carried
<1>11. ~w.h.shut
  <2>1. PICK l \in Nat, m \in Nat, s \in Nat :
          l = Len(w.h.got) /\ m = Len(g.got) /\ s = Sends[p]
    BY <1>1, <1>3, <1>4, SMTT(30) DEF HostType, Bytes
  <2>2. l < m /\ m <= s
    BY <1>4, <2>1
  <2>3. l # s
    BY <2>2
  <2> QED
    BY <1>2, <2>1, <2>3 DEF Up
<1>12. Up(p, k, g, {c}, O)
  BY <1>2, <1>4, <1>6, <1>10, <1>11 DEF Up
<1>13. Relays(p, k, g, {c}, O, w.q)
  <2>1. Source(p, g)
    BY <1>4, <1>2 DEF Relays, Source
  <2>2. Met(p, k, {c}, O)
    BY <1>4, <1>2 DEF Relays, Met
  <2> QED
    BY <1>2, <1>8, <1>12, <2>1, <2>2 DEF Relays
<1>14. Onto(h, g)
  <2>1. PICK l \in Nat, m \in Nat : l = Len(w.h.got) /\ m = Len(g.got)
    BY <1>1, <1>4 DEF HostType, Bytes
  <2>2. l <= m
    BY <1>4, <2>1
  <2> QED
    BY <1>1, <1>2, <1>4, <1>7, <2>1, <2>2, OntoSame
<1>15. Own(v) = {c} /\ Held(p, k, O, q, h, w)
  BY <1>4 DEF Own
<1>16. Held(p, k, O, q, h, v)
  BY <1>4, <1>6, <1>13, <1>14, <1>15 DEF Held
<1> QED
  BY <1>16 DEF v

LEMMA HeldFlush ==
  ASSUME NEW p, NEW k, NEW O, NEW q, NEW h, Side(p, k, O, q, h),
         NEW a \in Nat, NEW w, InHand(w, p, a), w.c.used, Held(p, k, O, q, h, w),
         NEW v \in tcp_flush_rx(w)
  PROVE  Held(p, k, O, q, h, v)
<1> DEFINE n == Len(w.c.rx)
           Flushed(x, full) ==
             PassEnd(tcp_segment(Pass(w, x, full), Shorter(w, x).nxt, {"ack"}, <<>>))
<1>1. n \in Nat /\ p \in Ports
  BY DEF InHand, Works, TcpType, Bytes, Side
<1>2. ASSUME NEW x \in 1 .. n, NEW full \in BOOLEAN
      PROVE  Held(p, k, O, q, h, Flushed(x, full))
  <2> DEFINE y == Pass(w, x, full)
             u == tcp_segment(y, Shorter(w, x).nxt, {"ack"}, <<>>)
  <2>1. InHand(y, p, a) /\ y.c = Shorter(w, x) /\ y.c.used /\ Shorter(w, x).nxt \in Seqs
    BY Passed
  <2>2. Held(p, k, O, q, h, y)
    BY HeldPassed
  <2> HIDE DEF y
  <2>3. {"ack"} \in SUBSET {"ack", "rst"}
    OBVIOUS
  <2>4. Held(p, k, O, q, h, u) /\ InHand(u, p, a) /\ u.c = y.c
    BY <2>1, <2>2, <2>3, HeldQuiet
  <2> HIDE DEF u
  <2>5. Held(p, k, O, q, h, PassEnd(u))
    BY <2>1, <2>4, HeldPassEnd
  <2> QED
    BY <2>5 DEF u, y
<1>3. CASE w.c.rx = <<>> \/ w.c.connecting
  <2>1. v = PassEnd(w)
    BY <1>3 DEF tcp_flush_rx
  <2> QED
    BY <2>1, HeldPassEnd
<1>4. CASE ~(w.c.rx = <<>> \/ w.c.connecting)
  <2>1. PICK x \in Taken(w.h, n) :
          v \in (IF x = Failed THEN {tcp_abort(w)} ELSE IF x = 0 THEN {w}
                 ELSE {Flushed(x, full) : full \in {TRUE, x < n}})
    BY <1>4 DEF tcp_flush_rx, Pass, Shorter, Longer
  <2>2. x = Failed \/ x = 0 \/ x \in 1 .. n
    BY DEF Taken
  <2>3. CASE x = Failed
    <3>1. ~Opened(p, k, O)
      BY <1>4 DEF Held
    <3>2. Parted(p, k, O, w.q)
      BY <3>1, MayPart
    <3>3. v = tcp_abort(w)
      BY <2>1, <2>3
    <3> QED
      BY <3>2, <3>3, HeldAborts
  <2>4. CASE x = 0
    BY <2>1, <2>4 DEF Failed
  <2>5. CASE x # Failed /\ x # 0
    <3>1. PICK full \in {TRUE, x < n} : v = Flushed(x, full)
      BY <2>1, <2>5
    <3>2. x \in 1 .. n
      BY <2>2, <2>5
    <3>3. (x < n) \in BOOLEAN
      OBVIOUS
    <3> HIDE DEF Flushed, n
    <3>4. full \in BOOLEAN
      BY <3>1, <3>3
    <3> QED
      BY <1>2, <3>1, <3>2, <3>4
  <2> QED
    BY <2>3, <2>4, <2>5
<1> QED
  BY <1>3, <1>4

\* More of the far side's bytes are taken.
LEMMA FillsRelays ==
  ASSUME NEW p, NEW k, Sound(k), NEW h \in HostType, NEW g \in HostType, NEW c \in TcpType, Fits(c),
         NEW d, NEW O, NEW I \in Seq(Segments), Relays(p, k, h, {c}, O, I), ~c.host_eof,
         NEW x \in Nat, x >= 1, g.took = h.took + x, g.took <= g.wrote, g.wrote = h.wrote,
         g.ended = h.ended, g.got = h.got, g.shut = h.shut,
         NEW more \in Bytes, Len(more) = x, Follows(more, h.took), d.tx = c.tx \o more,
         Len(d.tx) <= TcpBuf,
         d.una = c.una, d.nxt = c.nxt, d.tx_seq = c.tx_seq, d.wnd = c.wnd,
         d.syn_acked = c.syn_acked, d.iss = c.iss, d.host_eof = c.host_eof, d.rx = c.rx,
         d.console_fin = c.console_fin, d.connecting = c.connecting
  PROVE  Relays(p, k, g, {d}, O, I)
<1>1. Up(p, k, g, {d}, O)
  BY UpAlike DEF Relays
<1>2. Met(p, k, {d}, O) /\ Source(p, g)
  BY DEF Relays, Met, Source
<1>3. PICK l \in Nat, t \in Nat, b \in Nat :
        l = Len(c.tx) /\ t = h.took /\ b = TcpBuf
  BY Windows DEF TcpType, HostType, Bytes
<1>4. PICK tx \in Bytes : tx = c.tx
  BY DEF TcpType
<1>5. Len(d.tx) = l + x /\ \A n \in Int : Follows(tx, n) /\ n + l = t => Follows(d.tx, n)
  <2>1. Len(tx \o more) = Len(tx) + Len(more)
    <3>1. tx \in Seq(Nat \ {0}) /\ more \in Seq(Nat \ {0})
      BY DEF Bytes
    <3>2. tx \o more \in Seq(Nat \ {0}) /\ Len(tx \o more) = Len(tx) + Len(more)
      BY ONLY <3>1, ConcatProperties
    <3> QED
      BY <3>2
  <2>2. ASSUME NEW n \in Int, Follows(tx, n), n + l = t  PROVE Follows(tx \o more, n)
    <3>1. Follows(more, n + Len(tx))
      BY <1>3, <1>4, <2>2
    <3> QED
      BY <2>2, <3>1, FollowsOn
  <2> QED
    BY <1>3, <1>4, <2>1, <2>2
<1>6. ASSUME k.st # "gone"  PROVE Down(p, k, g, {d}, O, I)
  <2>1. Down(p, k, h, {c}, O, I) /\ Joined(p, c, k, h, O, I)
    BY <1>6 DEF Relays, Down
  <2>2. PICK a \in Nat, m \in Nat : a = Awaits(k) /\ m = Len(k.got) /\ a >= 1
    BY AwaitsIs
  <2>3. m <= t /\ t < a + b
    BY <1>3, <2>1, <2>2 DEF Down
  <2>4. l + x <= b
    BY <1>3, <1>5
  <2>5. \A f \in Bound(p, I) : Placed(f, k, g)
    <3> SUFFICES ASSUME NEW f \in Bound(p, I)  PROVE Placed(f, k, g)
      OBVIOUS
    <3>1. Placed(f, k, h) /\ "fin" \notin f.fl
      BY <2>1 DEF Down, Joined
    <3>2. Place(k, f.seq) - 1 + Len(f.data) <= t
      BY <1>3, <3>1 DEF Placed
    <3>3. Place(k, f.seq) - 1 + Len(f.data) <= t + x
      <4>1. f \in Segments
        BY RangeOf DEF Bound
      <4>2. PICK y \in Int, z \in Nat : y = Place(k, f.seq) /\ z = Len(f.data)
        BY <4>1, FrameInts
      <4>3. y - 1 + z <= t
        BY <3>2, <4>2
      <4>4. y - 1 + z <= t + x
        BY <4>3
      <4> QED
        BY <4>2, <4>4
    <3> QED
      BY <1>3, <3>1, <3>3 DEF Placed
  <2>6. ASSUME c.syn_acked  PROVE Flowing(d, k, g) /\ t + x < a + b
    <3>1. PICK B \in Int, u \in Int, n \in Int :
            B = t - l /\ u = Place(k, c.una) /\ n = Place(k, c.nxt)
      BY TcpInts
    <3>2. /\ B >= 0 /\ Follows(c.tx, B) /\ Place(k, c.tx_seq) = 1 + B /\ 1 + B <= u /\ u <= n
          /\ n <= t + 2 /\ u <= a /\ u + c.wnd <= Edge(k)
      BY <1>3, <2>1, <2>2, <2>6, <3>1 DEF Joined, Flowing
    <3>3. B = (t + x) - (l + x) /\ n <= (t + x) + 2 /\ n # (t + x) + 2 /\ t + x < a + b
      <4>1. B = t - l /\ 1 + B <= a /\ n <= t + 2 /\ l + x <= b
        BY <2>4, <3>1, <3>2
      <4>2. B = (t + x) - (l + x)
        BY <4>1
      <4>3. n <= (t + x) + 2 /\ n # (t + x) + 2
        BY <4>1
      <4>4. t + x < a + b
        BY <4>1
      <4> QED
        BY <4>2, <4>3, <4>4
    <3>4. Follows(d.tx, B)
      BY <1>4, <1>5, <3>1, <3>2
    <3> QED
      BY <1>3, <1>5, <2>2, <3>1, <3>2, <3>3, <3>4 DEF Flowing
  <2>7. ASSUME ~c.syn_acked  PROVE Greeting(d, g) /\ t + x < a + b
    <3>1. Greeting(c, h) /\ l = t /\ Follows(c.tx, 0)
      BY <1>3, <2>1, <2>7 DEF Joined, Greeting
    <3>2. t + x < a + b /\ 0 + l = t
      BY <2>2, <2>4, <3>1
    <3>3. Follows(d.tx, 0)
      BY <1>4, <1>5, <3>1, <3>2
    <3> QED
      BY <1>3, <1>5, <3>1, <3>2, <3>3 DEF Greeting
  <2>8. Joined(p, d, k, g, O, I)
    <3>1. Low(d, k) = Low(c, k)
      BY DEF Low
    <3> QED
      BY <2>1, <2>6, <2>7, <3>1 DEF Joined
  <2>9. Len(k.got) <= g.took /\ g.took < Awaits(k) + TcpBuf
    <3>1. m <= t + x
      BY <2>3
    <3> QED
      BY <1>3, <2>2, <2>6, <2>7, <3>1
  <2> QED
    BY <2>1, <2>5, <2>8, <2>9 DEF Down
<1> QED
  BY <1>1, <1>2, <1>6 DEF Relays

\* The far side has come to its end, or broken off.
LEMMA EofRelays ==
  ASSUME NEW p, NEW k, NEW h, NEW c, NEW d, NEW O, NEW I, Relays(p, k, h, {c}, O, I), Over(h),
         d.una = c.una, d.nxt = c.nxt, d.tx_seq = c.tx_seq, d.tx = c.tx, d.wnd = c.wnd,
         d.syn_acked = c.syn_acked, d.iss = c.iss, d.host_eof, d.rx = c.rx,
         d.console_fin = c.console_fin, d.connecting = c.connecting
  PROVE  Relays(p, k, h, {d}, O, I)
<1>1. Up(p, k, h, {d}, O)
  BY UpAlike DEF Relays
<1>2. Met(p, k, {d}, O)
  BY DEF Relays, Met
<1>3. ASSUME k.st # "gone"  PROVE Down(p, k, h, {d}, O, I)
  <2>1. Down(p, k, h, {c}, O, I) /\ Joined(p, c, k, h, O, I)
    BY <1>3 DEF Relays, Down
  <2>2. Joined(p, d, k, h, O, I)
    <3>1. Low(d, k) = Low(c, k)
      BY DEF Low
    <3>2. c.syn_acked => Flowing(d, k, h)
      BY <2>1 DEF Joined, Flowing
    <3>3. ~c.syn_acked => Greeting(d, h)
      BY <2>1 DEF Joined, Greeting
    <3> QED
      BY <2>1, <3>1, <3>2, <3>3 DEF Joined
  <2> QED
    BY <2>1, <2>2 DEF Down
<1> QED
  BY <1>1, <1>2, <1>3 DEF Relays

\* tcp_service takes bytes from the far side.
LEMMA HeldReceives ==
  ASSUME NEW p, NEW k, NEW O, NEW q, NEW h, Side(p, k, O, q, h),
         NEW a \in Nat, NEW w, InHand(w, p, a), w.c.used, Held(p, k, O, q, h, w), ~w.c.host_eof,
         NEW v \in Receives(w)
  PROVE  Held(p, k, O, q, h, v)
<1> DEFINE room == TcpBuf - Len(w.c.tx)
           left == w.h.wrote - w.h.took
           more(x) == [i \in 1 .. x |-> w.h.took + i]
           Got(x) == [w EXCEPT !.c.tx = @ \o more(x), !.h.took = @ + x]
           eof == [w EXCEPT !.c.host_eof = TRUE]
<1>1. /\ w \in Works /\ w.c \in TcpType /\ w.h \in HostType /\ Fits(w.c) /\ w.c.tx \in Bytes
      /\ Len(w.c.tx) \in Nat /\ w.h.took \in Nat /\ w.h.wrote \in Nat
      /\ room \in Nat /\ left \in Int /\ Sound(k) /\ h \in HostType
  <2>1. w \in Works /\ w.c \in TcpType /\ w.h \in HostType /\ Fits(w.c) /\ Sound(k) /\ h \in HostType
    BY DEF InHand, Works, Side
  <2>2. w.c.tx \in Bytes /\ w.h.took \in Nat /\ w.h.wrote \in Nat
    BY <2>1 DEF TcpType, HostType, Bytes
  <2>3. Len(w.c.tx) \in Nat /\ Len(w.c.tx) <= TcpBuf /\ TcpBuf \in Nat
    BY <2>1, <2>2, Numbers DEF Bytes, Fits
  <2> QED
    BY <2>1, <2>2, <2>3
<1>2. Relays(p, k, w.h, {w.c}, O, w.q) /\ Onto(h, w.h) /\ Source(p, w.h)
  BY DEF Held, Own, Relays
<1>3. ASSUME NEW x \in Nat, x >= 1, x <= room, x <= left
      PROVE  Held(p, k, O, q, h, Got(x))
  <2> HIDE DEF room, left
  <2>1. more(x) \in Bytes /\ Len(more(x)) = x /\ Follows(more(x), w.h.took)
    <3> DEFINE e(i) == w.h.took + i
    <3>1. x \in Nat /\ \A i \in 1 .. x : e(i) \in Nat \ {0}
      BY <1>1
    <3>2. more(x) = [i \in 1 .. x |-> e(i)]
      OBVIOUS
    <3> HIDE DEF e, more
    <3>3. more(x) \in Bytes /\ Len(more(x)) = x /\ \A i \in 1 .. x : more(x)[i] = e(i)
      BY <3>1, <3>2 DEF Bytes
    <3> QED
      BY <3>3 DEF Follows, e
  <2> HIDE DEF more
  <2>2. w.c.tx \o more(x) \in Bytes /\ Len(w.c.tx \o more(x)) = Len(w.c.tx) + x
    <3>1. w.c.tx \in Seq(Nat \ {0}) /\ more(x) \in Seq(Nat \ {0})
      BY <1>1, <2>1 DEF Bytes
    <3>2. /\ w.c.tx \o more(x) \in Seq(Nat \ {0})
          /\ Len(w.c.tx \o more(x)) = Len(w.c.tx) + Len(more(x))
      BY <3>1, ConcatProperties
    <3> QED
      BY <2>1, <3>2 DEF Bytes
  <2>3. Len(w.c.tx \o more(x)) <= TcpBuf
    <3>1. x <= TcpBuf - Len(w.c.tx)
      BY <1>3 DEF room
    <3> QED
      BY <1>1, <2>2, <3>1, Numbers
  <2> DEFINE c == [w.c EXCEPT !.tx = w.c.tx \o more(x)]
             took == w.h.took + x
             g == [w.h EXCEPT !.took = took]
             u == Got(x)
  <2>4. /\ c \in TcpType /\ c.used = w.c.used /\ c.una = w.c.una /\ c.nxt = w.c.nxt
        /\ c.tx_seq = w.c.tx_seq /\ c.wnd = w.c.wnd /\ c.syn_acked = w.c.syn_acked
        /\ c.iss = w.c.iss /\ c.host_eof = w.c.host_eof /\ c.rx = w.c.rx
        /\ c.console_fin = w.c.console_fin /\ c.connecting = w.c.connecting
        /\ c.tx = w.c.tx \o more(x)
    BY <1>1, <2>2 DEF TcpType
  <2>5. /\ g \in HostType /\ g.got = w.h.got /\ g.wrote = w.h.wrote /\ g.ended = w.h.ended
        /\ g.shut = w.h.shut /\ g.st = w.h.st /\ g.took = w.h.took + x
    <3>1. took \in Nat
      BY <1>1
    <3> HIDE DEF took
    <3>2. /\ g \in HostType /\ g.got = w.h.got /\ g.wrote = w.h.wrote /\ g.ended = w.h.ended
          /\ g.shut = w.h.shut /\ g.st = w.h.st /\ g.took = took
      BY <1>1, <3>1 DEF HostType
    <3> QED
      BY <3>2 DEF took
  <2>6. u = [w EXCEPT !.c = c, !.h = g]
    BY <1>1 DEF Works
  <2> HIDE DEF c, g, u
  <2>7. u.c = c /\ u.h = g /\ u.q = w.q
    BY <1>1, <2>4, <2>5, <2>6 DEF Works
  <2>8. g.took <= g.wrote
    <3>1. x <= w.h.wrote - w.h.took
      BY <1>3 DEF left
    <3>2. w.h.took + x <= w.h.wrote
      BY <1>1, <3>1
    <3> QED
      BY <2>5, <3>2
  <2>9. Relays(p, k, g, {c}, O, w.q)
    <3>1. Len(c.tx) <= TcpBuf
      BY <2>3, <2>4
    <3>2. /\ w.c \in TcpType /\ Fits(w.c) /\ w.h \in HostType /\ g \in HostType /\ ~w.c.host_eof
          /\ Relays(p, k, w.h, {w.c}, O, w.q) /\ Sound(k) /\ more(x) \in Bytes /\ x >= 1
          /\ w.q \in Seq(Segments)
          /\ Len(more(x)) = x /\ Follows(more(x), w.h.took) /\ c.tx = w.c.tx \o more(x)
      BY <1>1, <1>2, <1>3, <2>1, <2>4, <2>5 DEF Works
    <3> QED
      BY <2>4, <2>5, <2>8, <3>1, <3>2, FillsRelays, ZenonT(40)
  <2>10. Onto(h, g)
    <3>1. (Broke(g) <=> Broke(w.h)) /\ Len(w.h.got) <= Len(g.got)
      BY <1>1, <2>5 DEF Broke, HostType, Bytes
    <3> QED
      BY <1>1, <1>2, <2>5, <3>1, OntoSame
  <2>11. Own(u) = {c}
    BY <2>4, <2>7 DEF Own
  <2>12. Held(p, k, O, q, h, u)
    BY <2>4, <2>7, <2>9, <2>10, <2>11 DEF Held
  <2> QED
    BY <2>12 DEF u
<1>4. ASSUME Over(w.h)  PROVE Held(p, k, O, q, h, eof)
  <2> DEFINE d == [w.c EXCEPT !.host_eof = TRUE]
  <2>1. /\ d \in TcpType /\ d.used = w.c.used /\ d.una = w.c.una /\ d.nxt = w.c.nxt
        /\ d.tx_seq = w.c.tx_seq /\ d.wnd = w.c.wnd /\ d.syn_acked = w.c.syn_acked
        /\ d.iss = w.c.iss /\ d.host_eof /\ d.rx = w.c.rx /\ d.tx = w.c.tx
        /\ d.console_fin = w.c.console_fin /\ d.connecting = w.c.connecting
    BY <1>1 DEF TcpType
  <2>2. eof.c = d /\ eof.q = w.q /\ eof.h = w.h
    BY <1>1 DEF Works
  <2> HIDE DEF d, eof
  <2>3. Relays(p, k, w.h, {d}, O, w.q)
    BY <1>2, <1>4, <2>1, EofRelays
  <2>4. Own(eof) = {d}
    BY <2>1, <2>2 DEF Own
  <2> QED
    BY <1>2, <2>1, <2>2, <2>3, <2>4 DEF Held
<1>5. Min({room, left}) \in Int /\ Min({room, left}) <= room /\ Min({room, left}) <= left
      /\ (room > 0 /\ left > 0 => Min({room, left}) >= 1)
  <2> HIDE DEF room, left
  <2> DEFINE m == Min({room, left})
  <2>0. room \in Int /\ left \in Int
    BY <1>1
  <2>1. m \in Int /\ m <= room /\ m <= left /\ (room > 0 /\ left > 0 => m > 0)
    BY <2>0, LeastPositive
  <2> HIDE DEF m
  <2>2. m \in Int /\ m <= room /\ m <= left /\ (room > 0 /\ left > 0 => m >= 1)
    BY <2>0, <2>1
  <2> QED
    BY <2>2 DEF m
<1>6. \/ v = w
      \/ v = eof /\ Over(w.h)
      \/ \E x \in Nat : x >= 1 /\ x <= room /\ x <= left /\ v = Got(x)
  <2> DEFINE m == Min({room, left})
  <2>1. CASE room = 0
    <3>1. v = w
      BY <2>1 DEF Receives
    <3> HIDE DEF Got, eof, room, left, m
    <3> QED
      BY <3>1
  <2>2. CASE room # 0 /\ w.h.st = "reset"
    <3>1. v = eof \/ \E x \in 1 .. m : v = Got(x)
      BY <2>2 DEF Receives
    <3>2. Over(w.h)
      BY <2>2 DEF Over
    <3> HIDE DEF m, Got, eof, room, left
    <3>3. \A x \in 1 .. m : x \in Nat /\ x >= 1 /\ x <= room /\ x <= left
      BY <1>1, <1>5 DEF m
    <3> QED
      BY <3>1, <3>2, <3>3
  <2>3. CASE room # 0 /\ w.h.st # "reset" /\ left > 0
    <3>1. v = Got(m)
      BY <2>3 DEF Receives
    <3> HIDE DEF m, Got, eof, left, room
    <3>2. m \in Nat /\ m >= 1 /\ m <= room /\ m <= left
      BY <1>1, <1>5, <2>3 DEF m
    <3> QED
      BY <3>1, <3>2
  <2>4. CASE room # 0 /\ w.h.st # "reset" /\ ~(left > 0)
    <3>1. v = w \/ (v = eof /\ (w.h.ended \/ w.h.st = "refused"))
      BY <2>4 DEF Receives
    <3>2. w.h.took = w.h.wrote
      <4>1. w.h.took <= w.h.wrote
        BY <1>2 DEF Source
      <4> QED
        BY <1>1, <2>4, <4>1
    <3>3. w.h.ended \/ w.h.st = "refused" => Over(w.h)
      BY <3>2 DEF Over
    <3> HIDE DEF eof, Got, room, left, m
    <3> QED
      BY <3>1, <3>3
  <2> QED
    BY <2>1, <2>2, <2>3, <2>4
<1> HIDE DEF Got, eof, room, left
<1> QED
  BY <1>3, <1>4, <1>6

\* A socket's turn.
LEMMA HeldServices ==
  ASSUME NEW p, NEW k, NEW O, NEW q, NEW h, Side(p, k, O, q, h),
         NEW a \in Nat, NEW w, InHand(w, p, a), w.c.used, Held(p, k, O, q, h, w),
         NEW r, NEW x, NEW v \in Services(w, r, x)
  PROVE  Held(p, k, O, q, h, v)
<1>0. p \in Ports /\ w \in Works /\ w.c \in TcpType /\ w.h \in HostType
  BY DEF Side, InHand, Works
<1>1. CASE w.c.connecting
  <2> DEFINE u == tcp_segment(w, w.c.iss, {"rst", "ack"}, <<>>)
             d == [w.c EXCEPT !.connecting = FALSE]
             y == [w EXCEPT !.c.connecting = FALSE]
  <2>1. Held(p, k, O, q, h, u) /\ InHand(u, p, a) /\ u.c = w.c
    <3>1. w.c.iss \in Seqs
      BY <1>0 DEF TcpType
    <3> QED
      BY <3>1, HeldQuiet
  <2>2. /\ d \in TcpType /\ d.used /\ d.una = w.c.una /\ d.nxt = w.c.nxt
        /\ d.tx_seq = w.c.tx_seq /\ d.wnd = w.c.wnd /\ d.syn_acked = w.c.syn_acked
        /\ d.iss = w.c.iss /\ d.host_eof = w.c.host_eof /\ d.rx = w.c.rx /\ d.tx = w.c.tx
        /\ d.console_fin = w.c.console_fin /\ d.port = w.c.port /\ d.sock = w.c.sock
        /\ d.rcv_nxt = w.c.rcv_nxt
    BY <1>0 DEF TcpType
  <2>3. y.c = d /\ y.q = w.q /\ y.h = w.h /\ y \in Works
    BY <1>0 DEF Works, TcpType
  <2>4. v = w \/ v = tcp_close(u) \/ v = tcp_pump(y)
    BY <1>1 DEF Services
  <2> HIDE DEF u, y, d
  <2>5. InHand(y, p, a)
    <3>1. Fits(d)
      BY <1>0, <2>2 DEF Fits, InHand
    <3> QED
      BY <2>2, <2>3, <3>1, Otherwise
  <2>6. Held(p, k, O, q, h, tcp_close(u))
    <3>1. Parted(p, k, O, u.q)
      BY <1>1, <2>1, MayPart
    <3> QED
      BY <2>1, <3>1, HeldCloses
  <2>7. Held(p, k, O, q, h, y)
    <3>1. Relays(p, k, w.h, {w.c}, O, w.q)
      BY DEF Held, Own
    <3>2. k.st # "gone" => Joined(p, w.c, k, w.h, O, w.q)
      BY <3>1 DEF Relays, Down
    <3>3. k.st # "gone" /\ w.c.syn_acked =>
            /\ Place(k, w.c.una) <= Place(k, d.nxt) /\ Place(k, d.nxt) <= w.h.took + 2
            /\ Place(k, d.nxt) = w.h.took + 2 => w.c.host_eof
      BY <2>2, <3>2 DEF Joined, Flowing
    <3>4. k.st # "gone" /\ ~w.c.syn_acked => d.nxt \in {w.c.iss, Plus(w.c.iss, 1)}
      BY <2>2, <3>2 DEF Joined, Greeting
    <3> QED
      BY <1>1, <2>2, <2>3, <3>3, <3>4, HeldSteers
  <2>8. Held(p, k, O, q, h, tcp_pump(y))
    BY <2>2, <2>3, <2>5, <2>7, HeldPump
  <2> QED
    BY <2>4, <2>6, <2>8
<1>2. CASE ~w.c.connecting
  <2>1. PICK u : /\ u = w \/ (u \in Receives(w) /\ ~w.c.host_eof)
                 /\ \E y : /\ y = u \/ y \in tcp_flush_rx(u)
                           /\ v = IF y.c.used THEN tcp_pump(y) ELSE y
    BY <1>2 DEF Services
  <2>2. InHand(u, p, a) /\ u.c.used /\ Held(p, k, O, q, h, u)
    BY <1>0, <2>1, ReceivesKeeps, HeldReceives
  <2>3. PICK y : /\ y = u \/ y \in tcp_flush_rx(u)
                 /\ v = IF y.c.used THEN tcp_pump(y) ELSE y
    BY <2>1
  <2>4. InHand(y, p, a) /\ Held(p, k, O, q, h, y)
    BY <1>0, <2>2, <2>3, FlushKeeps, HeldFlush
  <2> QED
    BY <2>3, <2>4, HeldPump
<1> QED
  BY <1>1, <1>2

\* Two sequence numbers no further apart than a buffer.
LEMMA BothNear ==
  ASSUME NEW k, Sound(k), NEW q \in Seqs, NEW r \in Seqs,
         Place(k, q) <= Place(k, r) + TcpBuf + 1, Place(k, r) <= Place(k, q) + TcpBuf + 1
  PROVE  /\ Place(k, q) >= Place(k, r) => Minus(q, r) = Place(k, q) - Place(k, r)
         /\ seq_lt(q, r) <=> Place(k, q) < Place(k, r)
         /\ q = r <=> Place(k, q) = Place(k, r)
         /\ seq_le(q, r) <=> Place(k, q) <= Place(k, r)
<1>1. PICK i \in Int, j \in Int : i = Place(k, q) /\ j = Place(k, r)
  BY PlaceInt
<1>2. PICK b \in Nat, o \in Nat, s \in Nat :
        b = TcpBuf /\ o = ConBuf /\ s = SeqSpace /\ o >= 1 /\ 2 * b + 2 * o + 6 <= s
  BY Windows
<1>3. -s < 2 * (i - j) /\ 2 * (i - j) < s
  <2>1. i <= j + b + 1 /\ j <= i + b + 1
    BY <1>1, <1>2
  <2>2. o >= 1 /\ 2 * b + 2 * o + 6 <= s
    BY <1>2
  <2> QED
    BY <2>1, <2>2
<1>4. -SeqSpace < 2 * (Place(k, q) - Place(k, r)) /\ 2 * (Place(k, q) - Place(k, r)) < SeqSpace
  BY <1>1, <1>2, <1>3
<1> QED
  BY <1>4, PlacesApart

\* What an acknowledgement changes: the oldest byte the console has not acknowledged, and
\* what is kept to be sent again.
Advances(c, f) == seq_lt(c.una, f.ack) /\ seq_le(f.ack, c.nxt)
Freed(c, f) ==
  IF seq_lt(c.tx_seq, f.ack) THEN Min({Minus(f.ack, c.tx_seq), Len(c.tx)}) ELSE 0

\* What an acknowledgement changes of a connection.
LEMMA AcknowledgedIs ==
  ASSUME NEW c \in TcpType, NEW f \in Segments, NEW d, d = Acknowledged(c, f)
  PROVE  /\ d.used = c.used /\ d.nxt = c.nxt /\ d.iss = c.iss /\ d.connecting = c.connecting
         /\ d.host_eof = c.host_eof /\ d.rx = c.rx /\ d.console_fin = c.console_fin
         /\ d.wnd = f.wnd
         /\ Advances(c, f) =>
              /\ d.una = f.ack
              /\ d.syn_acked <=> c.syn_acked \/ seq_le(Plus(c.iss, 1), f.ack)
              /\ seq_lt(c.tx_seq, f.ack) =>
                   /\ d.tx = SubSeq(c.tx, Freed(c, f) + 1, Len(c.tx))
                   /\ d.tx_seq = Plus(c.tx_seq, Freed(c, f))
              /\ ~seq_lt(c.tx_seq, f.ack) => d.tx = c.tx /\ d.tx_seq = c.tx_seq
         /\ ~Advances(c, f) =>
              /\ d.una = c.una /\ d.syn_acked = c.syn_acked /\ d.tx = c.tx /\ d.tx_seq = c.tx_seq
<1> DEFINE done == Min({Minus(f.ack, c.tx_seq), Len(c.tx)})
           rest == SubSeq(c.tx, done + 1, Len(c.tx))
           next == Plus(c.tx_seq, done)
           shorter == [c EXCEPT !.tx = rest, !.tx_seq = next]
           freed == IF seq_lt(c.tx_seq, f.ack) THEN shorter ELSE c
           syn == freed.syn_acked \/ seq_le(Plus(c.iss, 1), f.ack)
           end == freed.fin_acked \/ (c.fin_sent /\ f.ack = Plus(c.fin_seq, 1))
           new == [freed EXCEPT !.syn_acked = syn, !.fin_acked = end, !.una = f.ack]
           some == IF Advances(c, f) THEN new ELSE c
<1>0. d = [some EXCEPT !.wnd = f.wnd]
  BY DEF Acknowledged, Advances
<1>1. c.tx_seq \in Int /\ f.ack \in Seqs /\ f.ack \in Int /\ f.wnd \in Nat /\ c.tx \in Bytes
      /\ Len(c.tx) \in Nat
  <2>1. c.tx_seq \in Seqs /\ c.tx \in Bytes /\ f.ack \in Seqs /\ f.wnd \in Nat
    BY DEF TcpType, Segments
  <2> QED
    BY <2>1, SeqsAre DEF Bytes
<1>2. done \in Nat /\ done <= Len(c.tx)
  <2>1. Minus(f.ack, c.tx_seq) \in Seqs
    BY <1>1, SeqType
  <2>2. Minus(f.ack, c.tx_seq) \in Nat
    BY <2>1, SeqsAre
  <2> QED
    BY <1>1, <2>2, LesserOf
<1>3. seq_lt(c.tx_seq, f.ack) => Freed(c, f) = done
  BY DEF Freed
<1> HIDE DEF done
<1>4. rest \in Bytes /\ next \in Seqs
  <2>1. \A i \in done + 1 .. Len(c.tx) : c.tx[i] \in Nat \ {0}
    BY <1>1, <1>2 DEF Bytes
  <2>2. rest \in Bytes
    BY <1>1, <1>2, <2>1, SubSeqProperties DEF Bytes
  <2> QED
    BY <1>1, <1>2, <2>2, SeqType
<1> HIDE DEF rest, next
<1> DEFINE Alike(e) == /\ e \in TcpType /\ e.used = c.used /\ e.nxt = c.nxt /\ e.iss = c.iss
                       /\ e.connecting = c.connecting /\ e.host_eof = c.host_eof
                       /\ e.rx = c.rx /\ e.console_fin = c.console_fin
<1>5. Alike(shorter) /\ shorter.tx = rest /\ shorter.tx_seq = next
      /\ shorter.syn_acked = c.syn_acked
  BY <1>4 DEF TcpType
<1> HIDE DEF shorter
<1>6. /\ Alike(freed) /\ freed.syn_acked = c.syn_acked
      /\ seq_lt(c.tx_seq, f.ack) => freed.tx = rest /\ freed.tx_seq = next
      /\ ~seq_lt(c.tx_seq, f.ack) => freed.tx = c.tx /\ freed.tx_seq = c.tx_seq
  BY <1>5
<1> HIDE DEF freed
<1>7. /\ Alike(new) /\ new.una = f.ack /\ new.tx = freed.tx /\ new.tx_seq = freed.tx_seq
      /\ new.syn_acked <=> syn
  <2>1. syn \in BOOLEAN /\ end \in BOOLEAN
    OBVIOUS
  <2> HIDE DEF syn, end
  <2>2. freed \in TcpType
    BY <1>6
  <2> DEFINE old == [freed EXCEPT !.syn_acked = syn, !.fin_acked = end]
  <2>3. /\ old \in TcpType /\ old.used = freed.used /\ old.nxt = freed.nxt /\ old.iss = freed.iss
        /\ old.connecting = freed.connecting /\ old.host_eof = freed.host_eof
        /\ old.rx = freed.rx /\ old.console_fin = freed.console_fin /\ old.tx = freed.tx
        /\ old.tx_seq = freed.tx_seq /\ old.syn_acked = syn
    BY <2>1, <2>2, ZenonT(40) DEF TcpType
  <2>4. new = [old EXCEPT !.una = f.ack]
    OBVIOUS
  <2> HIDE DEF old
  <2>5. /\ new \in TcpType /\ new.used = old.used /\ new.nxt = old.nxt /\ new.iss = old.iss
        /\ new.connecting = old.connecting /\ new.host_eof = old.host_eof
        /\ new.rx = old.rx /\ new.console_fin = old.console_fin /\ new.tx = old.tx
        /\ new.tx_seq = old.tx_seq /\ new.syn_acked = old.syn_acked /\ new.una = f.ack
    <3> HIDE DEF new
    <3> QED
      BY <1>1, <2>3, <2>4 DEF TcpType
  <2> HIDE DEF new
  <2> QED
    BY <1>6, <2>3, <2>5
<1>8. new.syn_acked <=> c.syn_acked \/ seq_le(Plus(c.iss, 1), f.ack)
  BY <1>6, <1>7
<1> HIDE DEF new, syn, end
<1>9. Alike(some)
  BY <1>7
<1>10. some \in TcpType
  BY <1>9
<1> HIDE DEF some
<1>11. /\ d.used = some.used /\ d.nxt = some.nxt /\ d.iss = some.iss
       /\ d.connecting = some.connecting /\ d.host_eof = some.host_eof /\ d.rx = some.rx
       /\ d.console_fin = some.console_fin /\ d.wnd = f.wnd /\ d.una = some.una
       /\ d.syn_acked = some.syn_acked /\ d.tx = some.tx /\ d.tx_seq = some.tx_seq
  BY <1>0, <1>1, <1>10 DEF TcpType
<1>12. ASSUME Advances(c, f)  PROVE some = new
  BY <1>12 DEF some
<1>13. ASSUME ~Advances(c, f)  PROVE some = c
  BY <1>13 DEF some
<1> QED
  BY <1>3, <1>6, <1>7, <1>8, <1>9, <1>11, <1>12, <1>13 DEF rest, next

\* The acknowledgement of an answered SYN.
LEMMA AckGreets ==
  ASSUME NEW k, Sound(k), NEW h \in HostType, NEW c \in TcpType, Greeting(c, h), ~c.syn_acked,
         c.iss = k.riss, Awaits(k) = 1, NEW f \in Segments,
         1 <= Place(k, f.ack), Place(k, f.ack) <= Awaits(k), Place(k, f.ack) + f.wnd <= Edge(k),
         NEW d, d = Acknowledged(c, f)
  PROVE  /\ IF d.syn_acked THEN Flowing(d, k, h) ELSE Greeting(d, h)
         /\ d.syn_acked => Place(k, d.una) = 1
<1> DEFINE r == k.riss
<1>1. /\ d.nxt = c.nxt /\ d.iss = c.iss /\ d.host_eof = c.host_eof /\ d.wnd = f.wnd
      /\ Advances(c, f) =>
           /\ d.una = f.ack
           /\ d.syn_acked <=> c.syn_acked \/ seq_le(Plus(c.iss, 1), f.ack)
           /\ ~seq_lt(c.tx_seq, f.ack) => d.tx = c.tx /\ d.tx_seq = c.tx_seq
      /\ ~Advances(c, f) =>
           /\ d.una = c.una /\ d.syn_acked = c.syn_acked /\ d.tx = c.tx /\ d.tx_seq = c.tx_seq
  BY AcknowledgedIs
<1>2. f.ack \in Seqs /\ f.wnd \in Nat /\ r \in Int /\ r \in Seqs
  BY FrameLens, AwaitsIs
<1>3. f.ack = Plus(r, 1) /\ Place(k, f.ack) = 1
  <2>1. Place(k, f.ack) \in Int /\ Plus(r, Place(k, f.ack)) = f.ack
    BY <1>2, PlaceOf
  <2>2. PICK x \in Int : x = Place(k, f.ack)
    BY <2>1
  <2>3. 1 <= x /\ x <= 1
    BY <2>2
  <2>4. x = 1
    BY <2>3
  <2> QED
    BY <2>1, <2>2, <2>4
<1>4. Plus(r, 0) = r
  <2>1. 0 <= r /\ r < SeqSpace /\ SeqSpace \in Nat
    BY <1>2, SeqsAre, Numbers
  <2> QED
    BY <1>2, <2>1 DEF Plus
<1>5. SeqSpace \in Nat /\ SeqSpace >= 6
  <2>1. PICK b \in Nat, o \in Nat, s \in Nat :
          b = TcpBuf /\ o = ConBuf /\ s = SeqSpace /\ 2 * b + 2 * o + 6 <= s
    BY Windows
  <2>2. s >= 6
    BY <2>1
  <2> QED
    BY <2>1, <2>2
<1>6. /\ seq_lt(Plus(r, 0), Plus(r, 1)) /\ ~seq_le(Plus(r, 1), Plus(r, 0))
      /\ ~seq_lt(Plus(r, 1), Plus(r, 1)) /\ seq_le(Plus(r, 1), Plus(r, 1))
      /\ Plus(r, 0) # Plus(r, 1)
  <2>1. -SeqSpace < 2 * (0 - 1) /\ 2 * (0 - 1) < SeqSpace
        /\ -SeqSpace < 2 * (1 - 0) /\ 2 * (1 - 0) < SeqSpace
        /\ -SeqSpace < 2 * (1 - 1) /\ 2 * (1 - 1) < SeqSpace
    BY <1>5
  <2>2. /\ seq_lt(Plus(r, 0), Plus(r, 1)) <=> 0 < 1
        /\ Plus(r, 0) = Plus(r, 1) <=> 0 = 1
    BY <1>2, <2>1, Apart
  <2>3. seq_le(Plus(r, 1), Plus(r, 0)) <=> 1 <= 0
    BY <1>2, <2>1, Apart
  <2>4. /\ seq_lt(Plus(r, 1), Plus(r, 1)) <=> 1 < 1
        /\ seq_le(Plus(r, 1), Plus(r, 1)) <=> 1 <= 1
    BY <1>2, <2>1, Apart
  <2> QED
    BY <2>2, <2>3, <2>4
<1>7. c.una = r /\ c.nxt \in {r, Plus(r, 1)} /\ c.tx_seq = Plus(r, 1)
  BY DEF Greeting
<1>8. CASE c.nxt = r
  <2>1. ~Advances(c, f)
    BY <1>3, <1>4, <1>6, <1>8 DEF Advances
  <2>2. Greeting(d, h) /\ ~d.syn_acked
    BY <1>1, <2>1 DEF Greeting
  <2> QED
    BY <2>2
<1>9. CASE c.nxt = Plus(r, 1)
  <2>1. Advances(c, f)
    BY <1>3, <1>4, <1>6, <1>7, <1>9 DEF Advances
  <2>2. /\ d.una = f.ack /\ d.syn_acked /\ d.tx = c.tx /\ d.tx_seq = Plus(r, 1)
        /\ d.nxt = Plus(r, 1)
    BY <1>1, <1>3, <1>6, <1>7, <1>9, <2>1
  <2>3. Place(k, Plus(r, 1)) = 1
    BY <1>3
  <2>4. PICK t \in Nat : t = h.took /\ Len(d.tx) = t
    BY <2>2 DEF HostType, Greeting
  <2>5. Follows(d.tx, 0) /\ (d.host_eof => Over(h))
    BY <1>1, <2>2 DEF Greeting
  <2>6. t - t = 0 /\ 1 + 0 <= 1 /\ 1 <= t + 2 /\ 1 # t + 2
    OBVIOUS
  <2>7. Flowing(d, k, h)
    BY <1>1, <1>3, <2>2, <2>3, <2>4, <2>5, <2>6 DEF Flowing
  <2> QED
    BY <1>3, <2>2, <2>7
<1> QED
  BY <1>7, <1>8, <1>9

\* What the console acknowledges of the stream's bytes and end.
LEMMA AckFlows ==
  ASSUME NEW k, Sound(k), NEW h \in HostType, Tied(k, h), Awaits(k) <= h.took + 2,
         NEW c \in TcpType, Fits(c), c.syn_acked, Flowing(c, k, h), NEW f \in Segments,
         Place(k, c.una) <= Place(k, f.ack), Place(k, f.ack) <= Awaits(k),
         Place(k, f.ack) + f.wnd <= Edge(k),
         NEW d, d = Acknowledged(c, f)
  PROVE  Flowing(d, k, h) /\ d.syn_acked /\ Place(k, d.una) <= Place(k, f.ack)
<1>0. /\ d.nxt = c.nxt /\ d.host_eof = c.host_eof /\ d.wnd = f.wnd
      /\ Advances(c, f) =>
           /\ d.una = f.ack
           /\ d.syn_acked <=> c.syn_acked \/ seq_le(Plus(c.iss, 1), f.ack)
           /\ seq_lt(c.tx_seq, f.ack) =>
                /\ d.tx = SubSeq(c.tx, Freed(c, f) + 1, Len(c.tx))
                /\ d.tx_seq = Plus(c.tx_seq, Freed(c, f))
           /\ ~seq_lt(c.tx_seq, f.ack) => d.tx = c.tx /\ d.tx_seq = c.tx_seq
      /\ ~Advances(c, f) =>
           /\ d.una = c.una /\ d.syn_acked = c.syn_acked /\ d.tx = c.tx /\ d.tx_seq = c.tx_seq
  BY ONLY AcknowledgedIs, c \in TcpType, f \in Segments, d = Acknowledged(c, f)
<1>1. d.nxt = c.nxt /\ d.host_eof = c.host_eof /\ d.wnd = f.wnd /\ d.syn_acked
  BY <1>0
<1>a. /\ h.took - Len(c.tx) \in Nat /\ Len(c.tx) \in Nat /\ h.took \in Nat
      /\ Place(k, c.una) \in Int /\ Place(k, c.nxt) \in Int /\ Edge(k) \in Int
      /\ Awaits(k) \in Int /\ c.wnd \in Nat /\ Len(c.tx) <= TcpBuf /\ TcpBuf \in Nat
      /\ Follows(c.tx, h.took - Len(c.tx)) /\ Place(k, c.tx_seq) = 1 + (h.took - Len(c.tx))
      /\ 1 + (h.took - Len(c.tx)) <= Place(k, c.una) /\ Place(k, c.una) <= Place(k, c.nxt)
      /\ Place(k, c.nxt) <= h.took + 2 /\ (Place(k, c.nxt) = h.took + 2 => c.host_eof)
      /\ Place(k, c.una) <= Awaits(k)
  BY FlowIs
<1>b. PICK B \in Nat, l \in Nat, t \in Nat, b \in Nat :
        B = h.took - Len(c.tx) /\ l = Len(c.tx) /\ t = h.took /\ b = TcpBuf
  BY <1>a
<1>c. PICK u \in Int, n \in Int, e \in Int, y \in Int :
        u = Place(k, c.una) /\ n = Place(k, c.nxt) /\ e = Edge(k) /\ y = Awaits(k)
  BY <1>a
<1>d. PICK x \in Int, z \in Nat : x = Place(k, f.ack) /\ z = f.wnd
  BY FrameInts
<1>2. /\ B + l = t /\ l <= b
      /\ 1 + B <= u /\ u <= n /\ n <= t + 2 /\ (n = t + 2 => c.host_eof)
      /\ u <= x /\ x <= y /\ y <= t + 2 /\ x + z <= e
  <2>1. B + l = t
    BY <1>b
  <2>2. y <= t + 2
    BY <1>b, <1>c
  <2>3. u <= x /\ x <= y /\ x + z <= e
    BY <1>c, <1>d
  <2> QED
    BY <1>a, <1>b, <1>c, <2>1, <2>2, <2>3
<1>3. /\ c.una \in Seqs /\ c.nxt \in Seqs /\ c.tx_seq \in Seqs /\ f.ack \in Seqs
      /\ c.tx \in Bytes
  BY TcpInts, FrameLens
<1>4. Place(k, c.tx_seq) = 1 + B /\ Follows(c.tx, B) /\ (c.host_eof => Over(h))
  BY <1>a, <1>b DEF Flowing
<1>5. seq_lt(c.una, f.ack) <=> u < x
  <2>1. u <= x + b + 1 /\ x <= u + b + 1
    BY <1>2
  <2>2. Place(k, c.una) <= Place(k, f.ack) + TcpBuf + 1
        /\ Place(k, f.ack) <= Place(k, c.una) + TcpBuf + 1
    BY <1>b, <1>c, <1>d, <2>1
  <2> QED
    BY <1>3, <1>c, <1>d, <2>2, BothNear
<1>6. seq_le(f.ack, c.nxt) <=> x <= n
  <2>1. n <= x + b + 1 /\ x <= n + b + 1
    BY <1>2
  <2>2. Place(k, c.nxt) <= Place(k, f.ack) + TcpBuf + 1
        /\ Place(k, f.ack) <= Place(k, c.nxt) + TcpBuf + 1
    BY <1>b, <1>c, <1>d, <2>1
  <2> QED
    BY <1>3, <1>c, <1>d, <2>2, BothNear
<1>7. /\ seq_lt(c.tx_seq, f.ack) <=> 1 + B < x
      /\ Minus(f.ack, c.tx_seq) = x - (1 + B)
  <2>1. 1 + B <= x + b + 1 /\ x <= (1 + B) + b + 1 /\ x >= 1 + B
    BY <1>2
  <2>2. Place(k, c.tx_seq) <= Place(k, f.ack) + TcpBuf + 1
        /\ Place(k, f.ack) <= Place(k, c.tx_seq) + TcpBuf + 1
        /\ Place(k, f.ack) >= Place(k, c.tx_seq)
    BY <1>4, <1>b, <1>d, <2>1
  <2> QED
    BY <1>3, <1>4, <1>d, <2>2, BothNear
<1>8. CASE ~Advances(c, f)
  <2>1. u + z <= e
    BY <1>2
  <2>2. Flowing(d, k, h)
    BY <1>0, <1>1, <1>8, <1>2, <1>4, <1>b, <1>c, <1>d, <2>1 DEF Flowing
  <2> QED
    BY <1>0, <1>1, <1>8, <1>c, <1>d, <1>2, <2>2
<1>9. CASE Advances(c, f)
  <2>1. u < x /\ x <= n /\ 1 + B < x /\ seq_lt(c.tx_seq, f.ack)
    <3>1. u < x /\ x <= n
      BY <1>5, <1>6, <1>9 DEF Advances
    <3>2. 1 + B < x
      BY <1>2, <3>1
    <3> QED
      BY <1>7, <3>1, <3>2
  <2>2. PICK m \in Nat : m = Freed(c, f) /\ m <= l /\ m <= x - (1 + B)
    <3>1. PICK i \in Nat : i = x - (1 + B)
      BY <2>1
    <3>2. Freed(c, f) = Min({i, l})
      BY <1>7, <1>b, <2>1, <3>1 DEF Freed
    <3>3. Min({i, l}) \in Nat /\ Min({i, l}) <= i /\ Min({i, l}) <= l
      BY LesserOf
    <3> QED
      BY <3>1, <3>2, <3>3
  <2>3. d.tx = SubSeq(c.tx, m + 1, l) /\ d.tx_seq = Plus(c.tx_seq, m) /\ d.una = f.ack
        /\ d.syn_acked
    BY <1>0, <1>1, <1>9, <1>b, <2>1, <2>2
  <2>4. Follows(d.tx, B + m) /\ Len(d.tx) = l - m
    <3>1. PICK i \in Nat : i = m + 1
      BY <2>2
    <3>a. PICK s \in Bytes : s = c.tx /\ l <= Len(s) /\ Follows(s, B)
      BY <1>3, <1>4, <1>b
    <3>b. B \in Int /\ i <= l + 1 /\ 1 <= i
      BY <2>2, <3>1
    <3>2. Follows(SubSeq(s, i, l), B + i - 1) /\ Len(SubSeq(s, i, l)) = l - i + 1
      BY ONLY <3>a, <3>b, FollowsSub, i \in Nat, l \in Nat
    <3>3. B + i - 1 = B + m /\ l - i + 1 = l - m
      BY <3>1
    <3> QED
      BY <2>3, <3>1, <3>a, <3>2, <3>3
  <2>5. Place(k, d.tx_seq) = 1 + (B + m)
    <3>1. t + 1 <= (1 + B) + m + b /\ (1 + B) + m <= t + 3
      BY <1>2, <2>2
    <3>2. Close(k, h, Place(k, c.tx_seq) + m)
      BY <1>4, <1>b, <3>1 DEF Close
    <3>3. Place(k, Plus(c.tx_seq, m)) = Place(k, c.tx_seq) + m
      BY <1>3, <3>2, MovedNear
    <3>4. (1 + B) + m = 1 + (B + m)
      OBVIOUS
    <3> QED
      BY <1>4, <2>3, <3>3, <3>4
  <2>6. t - (l - m) = B + m /\ B + m >= 0 /\ 1 + (B + m) <= x
    BY <1>2, <2>2
  <2>7. Flowing(d, k, h)
    <3>1. h.took - Len(d.tx) = B + m
      BY <1>b, <2>4, <2>6
    <3>2. Place(k, d.una) = x /\ Place(k, d.nxt) = n /\ d.wnd = z /\ d.host_eof = c.host_eof
      BY <1>1, <1>c, <1>d, <2>3
    <3> QED
      BY <1>2, <1>4, <1>b, <1>c, <2>1, <2>4, <2>5, <2>6, <3>1, <3>2 DEF Flowing
  <2>8. x <= x
    OBVIOUS
  <2> QED
    BY <1>d, <2>3, <2>7, <2>8
<1> QED
  BY <1>8, <1>9

\* Behind the first of the console's frames.
LEMMA Behind ==
  ASSUME NEW p, NEW k, NEW O \in Seq(Segments), O # <<>>, NEW f, f = Head(O), f.port = p,
         "syn" \notin f.fl, Plain(f) \/ "rst" \in f.fl, Spoken(p, k, O)
  PROVE  Syns(p, Tail(O)) = {} /\ ~Early(k) /\ ~Opened(p, k, Tail(O))
<1> DEFINE P == Tail(O)
<1>1. /\ f \in Range(O) /\ f = O[1] /\ P \in Seq(Segments) /\ Len(P) = Len(O) - 1
      /\ \A i \in 1 .. Len(O) - 1 : P[i] = O[i + 1]
  BY TailRange
<1>2. ~Early(k)
  BY <1>1 DEF Spoken, Early
<1> HIDE DEF P
<1>3. ASSUME NEW g \in Range(P), g.port = p, "syn" \in g.fl  PROVE FALSE
  <2>1. PICK n \in Nat : n = Len(O) /\ n >= 1
    BY EmptySeq
  <2>2. PICK i \in 1 .. n - 1 : g = P[i]
    BY <1>1, <2>1, RangeOf
  <2>3. 1 < i + 1 /\ i + 1 \in 1 .. n /\ 1 \in 1 .. n
    BY <2>1
  <2>4. O[i + 1] = g
    BY <1>1, <2>1, <2>2
  <2>5. "syn" \in O[1].fl
    BY <1>1, <1>3, <2>1, <2>3, <2>4 DEF Spoken
  <2> QED
    BY <1>1, <2>5
<1>4. Syns(p, Tail(O)) = {}
  BY <1>3 DEF Syns, P
<1> QED
  BY <1>2, <1>4 DEF Opened

\* Of acknowledgements, those behind the first one say as much or more.
LEMMA AcksBehind ==
  ASSUME NEW p, NEW k, Sound(k), NEW O \in Seq(Segments), O # <<>>, NEW f, f = Head(O),
         f.port = p, Plain(f), NEW l, Acks(p, k, l, O), NEW n \in Int, n <= Place(k, f.ack)
  PROVE  Acks(p, k, n, Tail(O))
<1> DEFINE P == Tail(O)
<1>1. /\ f = O[1] /\ P \in Seq(Segments) /\ Len(P) = Len(O) - 1
      /\ \A i \in 1 .. Len(O) - 1 : P[i] = O[i + 1]
      /\ Range(P) \subseteq Range(O) /\ f \in Segments
  BY TailRange
<1>2. PICK z \in Nat : z = Len(O) /\ z >= 1
  BY EmptySeq
<1> HIDE DEF P
<1>3. ASSUME NEW g \in Range(P), g.port = p, Plain(g)
      PROVE  n <= Place(k, g.ack) /\ Place(k, g.ack) <= Awaits(k)
             /\ Place(k, g.ack) + g.wnd <= Edge(k)
  <2>1. PICK i \in 1 .. z - 1 : g = P[i]
    BY <1>1, <1>2, RangeOf
  <2>2. 1 < i + 1 /\ i + 1 \in 1 .. z /\ 1 \in 1 .. z /\ O[i + 1] = g
    BY <1>1, <1>2, <2>1
  <2>3. Place(k, f.ack) <= Place(k, g.ack)
    BY <1>1, <1>2, <1>3, <2>2 DEF Acks
  <2>4. g \in Segments /\ g \in Range(O)
    BY <1>1, RangeOf
  <2>5. Place(k, f.ack) \in Int /\ Place(k, g.ack) \in Int
    BY <1>1, <2>4, FrameInts
  <2>6. n <= Place(k, g.ack)
    BY <2>3, <2>5
  <2> QED
    BY <1>3, <2>4, <2>6 DEF Acks
<1>4. ASSUME NEW i \in 1 .. Len(P), NEW j \in 1 .. Len(P), i < j, P[i].port = p, P[j].port = p,
             Plain(P[i]), Plain(P[j])
      PROVE  Place(k, P[i].ack) <= Place(k, P[j].ack)
  <2>1. /\ i + 1 < j + 1 /\ i + 1 \in 1 .. Len(O) /\ j + 1 \in 1 .. Len(O)
        /\ P[i] = O[i + 1] /\ P[j] = O[j + 1]
    BY <1>1, <1>2, <1>4
  <2> QED
    BY <1>4, <2>1 DEF Acks
<1>5. Acks(p, k, n, P)
  BY <1>3, <1>4 DEF Acks
<1> QED
  BY <1>5 DEF P

\* The first of the console's frames is gone.
LEMMA PopsRelays ==
  ASSUME NEW p, NEW k, NEW h, NEW C, NEW O \in Seq(Segments), O # <<>>, NEW I,
         Relays(p, k, h, C, O, I)
  PROVE  Relays(p, k, h, C, Tail(O), I)
<1>1. Within(p, Tail(O), O) /\ Within(p, I, I)
  BY TailWithin, SameWithin
<1> QED
  BY <1>1, RelaysThins

\* It acknowledges.
LEMMA AckRelays ==
  ASSUME NEW p, NEW k, Sound(k), NEW h \in HostType, NEW c \in TcpType, Fits(c),
         NEW O \in Seq(Segments), O # <<>>, NEW f, f = Head(O), f.port = p, Plain(f), NEW I,
         Relays(p, k, h, {c}, O, I), NEW d, d = Acknowledged(c, f)
  PROVE  Relays(p, k, h, {d}, Tail(O), I)
<1> DEFINE P == Tail(O)
<1>1. f \in Segments /\ f \in Range(O)
  BY TailRange
<1>2. Relays(p, k, h, {c}, P, I)
  BY PopsRelays
<1>3. Syns(p, P) = {} /\ ~Early(k) /\ ~Opened(p, k, P)
  BY Behind DEF Relays, Plain
<1> HIDE DEF P
<1>4. /\ d.used = c.used /\ d.nxt = c.nxt /\ d.iss = c.iss /\ d.connecting = c.connecting
      /\ d.host_eof = c.host_eof /\ d.rx = c.rx /\ d.console_fin = c.console_fin
  BY ONLY <1>1, AcknowledgedIs, c \in TcpType, d = Acknowledged(c, f)
<1>5. Met(p, k, {d}, P)
  BY <1>3 DEF Met
<1>6. Up(p, k, h, {d}, P)
  BY <1>2, <1>4, UpAlike DEF Relays
<1>7. ASSUME k.st # "gone"  PROVE Joined(p, d, k, h, P, I)
  <2>1. /\ Tied(k, h) /\ Awaits(k) <= h.took + 2 /\ Joined(p, c, k, h, O, I)
        /\ c.syn_acked => Flowing(c, k, h)
        /\ ~c.syn_acked => Greeting(c, h) /\ Awaits(k) = 1
    BY <1>7, TiedIs
  <2>2. k.st = "up"
    BY <1>3, <1>7 DEF Sound, ConType, Early
  <2>3. /\ c.iss = k.riss /\ ~c.connecting /\ Acks(p, k, Low(c, k), O)
        /\ \A g \in Bound(p, I) : "fin" \in g.fl => c.host_eof
    BY <2>1, <2>2 DEF Joined
  <2>4. /\ Low(c, k) <= Place(k, f.ack) /\ Place(k, f.ack) <= Awaits(k)
        /\ Place(k, f.ack) + f.wnd <= Edge(k)
    BY <1>1, <2>3 DEF Acks
  <2>5. ASSUME NEW n \in Int, n <= Place(k, f.ack)  PROVE Acks(p, k, n, P)
    BY <2>3, <2>5, AcksBehind DEF P
  <2>6. CASE c.syn_acked
    <3>1. Place(k, c.una) <= Place(k, f.ack)
      BY <2>4, <2>6 DEF Low
    <3>2. Flowing(c, k, h)
      BY <2>1, <2>6
    <3>3. Flowing(d, k, h) /\ d.syn_acked /\ Place(k, d.una) <= Place(k, f.ack)
      BY <1>1, <2>1, <2>4, <2>6, <3>1, <3>2, AckFlows
    <3>4. Place(k, d.una) \in Int
      <4>1. d.una = c.una \/ d.una = f.ack
        BY ONLY <1>1, AcknowledgedIs, c \in TcpType, d = Acknowledged(c, f)
      <4> QED
        BY <1>1, <4>1, FrameInts, TcpInts
    <3>5. Acks(p, k, Low(d, k), P)
      BY <2>5, <3>3, <3>4 DEF Low
    <3> QED
      BY <1>4, <2>3, <3>3, <3>5 DEF Joined
  <2>7. CASE ~c.syn_acked
    <3>1. Greeting(c, h) /\ Awaits(k) = 1 /\ Bound(p, I) = {}
      BY <2>1, <2>7 DEF Joined
    <3>2. 1 <= Place(k, f.ack)
      BY <2>4, <2>7 DEF Low
    <3>3. /\ IF d.syn_acked THEN Flowing(d, k, h) ELSE Greeting(d, h)
          /\ d.syn_acked => Place(k, d.una) = 1
      BY <1>1, <2>3, <2>4, <2>7, <3>1, <3>2, AckGreets
    <3>4. Low(d, k) = 1
      BY <3>3 DEF Low
    <3>5. Acks(p, k, Low(d, k), P)
      BY <2>5, <3>2, <3>4
    <3> QED
      BY <1>4, <2>3, <3>1, <3>3, <3>5 DEF Joined
  <2> QED
    BY <2>6, <2>7
<1>8. ASSUME k.st # "gone"  PROVE Down(p, k, h, {d}, P, I)
  <2>1. Down(p, k, h, {c}, P, I)
    BY <1>2, <1>8 DEF Relays
  <2>2. \A e \in {d} : Joined(p, e, k, h, P, I)
    BY <1>7, <1>8
  <2> QED
    BY <1>3, <2>1, <2>2 DEF Down
<1>9. Relays(p, k, h, {d}, P, I)
  BY <1>2, <1>5, <1>6, <1>8 DEF Relays
<1> QED
  BY <1>9 DEF P

\* What a connection takes of a frame: n bytes, and the end if it is behind them.
Gains(c, f, d, n) ==
  /\ n <= Len(f.data) /\ d.rx = c.rx \o SubSeq(f.data, 1, n)
  /\ d.console_fin <=> c.console_fin \/ ("fin" \in f.fl /\ n = Len(f.data))

\* What bytes and an end change of a connection.
LEMMA ReceivedIs ==
  ASSUME NEW c \in TcpType, Fits(c), NEW f \in Segments, NEW d, d = Received(c, f)
  PROVE  /\ d.used = c.used /\ d.una = c.una /\ d.nxt = c.nxt /\ d.tx_seq = c.tx_seq
         /\ d.tx = c.tx /\ d.wnd = c.wnd /\ d.syn_acked = c.syn_acked /\ d.iss = c.iss
         /\ d.host_eof = c.host_eof /\ d.connecting = c.connecting
         /\ \/ d.rx = c.rx /\ d.console_fin = c.console_fin
            \/ f.seq = c.rcv_nxt /\ \E n \in Nat : Gains(c, f, d, n)
<1> DEFINE take == Fitting(c, f)
           fin == "fin" \in f.fl /\ take = Len(f.data) /\ ~c.console_fin
           one == IF fin THEN 1 ELSE 0
           rx == c.rx \o SubSeq(f.data, 1, take)
           next == Plus(c.rcv_nxt, take + one)
           end == c.console_fin \/ fin
           e == [c EXCEPT !.rx = rx, !.rcv_nxt = next, !.console_fin = end]
<1>1. /\ c.rx \in Bytes /\ Len(c.rx) \in Nat /\ f.data \in Bytes /\ Len(f.data) \in Nat
      /\ TcpBuf \in Nat /\ Len(c.rx) <= TcpBuf
  BY Numbers, FrameLens DEF TcpType, Bytes, Fits
<1>2. take \in Nat /\ take <= Len(f.data)
  <2>a. PICK i \in Nat, b \in Nat : i = Len(c.rx) /\ b = TcpBuf
    BY <1>1
  <2>b. i <= b
    BY <1>1, <2>a
  <2>c. PICK m \in Nat : m = b - i
    BY <2>b
  <2>d. PICK l \in Nat : l = Len(f.data)
    BY <1>1
  <2>1. m = TcpBuf - Len(c.rx) /\ l = Len(f.data)
    BY <2>a, <2>c, <2>d
  <2>2. take = Min({l, m})
    BY <2>1 DEF Fitting
  <2> QED
    BY <2>1, <2>2, LesserOf
<1>3. Received(c, f) = IF f.seq = c.rcv_nxt THEN e ELSE c
  BY DEF Received, Accepted
<1>4. end <=> c.console_fin \/ ("fin" \in f.fl /\ take = Len(f.data))
  OBVIOUS
<1> HIDE DEF take, rx, next, end, fin, one
<1>5. /\ e.used = c.used /\ e.una = c.una /\ e.nxt = c.nxt /\ e.tx_seq = c.tx_seq
      /\ e.tx = c.tx /\ e.wnd = c.wnd /\ e.syn_acked = c.syn_acked /\ e.iss = c.iss
      /\ e.host_eof = c.host_eof /\ e.connecting = c.connecting
      /\ e.rx = rx /\ e.console_fin = end
  BY DEF TcpType
<1> HIDE DEF e
<1>6. CASE f.seq = c.rcv_nxt
  <2>1. d = e
    BY <1>3, <1>6
  <2>2. Gains(c, f, d, take)
    BY <1>2, <1>4, <1>5, <2>1 DEF Gains, rx
  <2> QED
    BY <1>2, <1>5, <1>6, <2>1, <2>2
<1>7. CASE f.seq # c.rcv_nxt
  BY <1>3, <1>7
<1> QED
  BY <1>6, <1>7

\* It takes what is next of the stream, and no more than the frame has.
LEMMA TakesOn ==
  ASSUME NEW p \in Ports, NEW k, NEW h \in HostType, NEW c \in TcpType, NEW a \in Nat,
         a = Taking(c, h), NEW f \in Segments, Stood(p, k, a, f), f.seq = Plus(ConIss, 1 + a),
         Follows(c.rx, Len(h.got)), Len(h.got) + Len(c.rx) <= Sends[p],
         c.console_fin => k.shut /\ Len(h.got) + Len(c.rx) = Sends[p],
         NEW d, NEW n \in Nat, Gains(c, f, d, n)
  PROVE  /\ Follows(d.rx, Len(h.got)) /\ Len(h.got) + Len(d.rx) <= Sends[p]
         /\ d.console_fin => k.shut /\ Len(h.got) + Len(d.rx) = Sends[p]
         /\ Taking(d, h) \in Nat /\ a <= Taking(d, h)
         /\ Taking(d, h) <= a + Len(f.data) + Final(f)
<1> DEFINE part == SubSeq(f.data, 1, n)
<1>1. /\ c.rx \in Bytes /\ h.got \in Bytes /\ f.data \in Bytes /\ c.console_fin \in BOOLEAN
      /\ Final(f) \in Nat
  BY FrameLens DEF TcpType, HostType
<1>2. PICK g \in Nat, l \in Nat, S \in Nat, z \in Nat :
        g = Len(h.got) /\ l = Len(c.rx) /\ S = Sends[p] /\ z = Len(f.data)
  BY <1>1, Numbers DEF Bytes
<1>3. Stands(a, f.seq) = a
  <2>1. -SeqSpace <= 2 * (a - a) /\ 2 * (a - a) < SeqSpace
    BY Numbers
  <2> QED
    BY <2>1, StandsIs
<1>4. /\ f.data = IF a < S THEN <<a + 1>> ELSE <<>>
      /\ "fin" \in f.fl => k.shut /\ a + z = S
  BY <1>2, <1>3 DEF Stood
<1>5. n <= z /\ (a < S => z = 1) /\ (~(a < S) => z = 0)
  BY <1>2, <1>4 DEF Gains
<1>6. Follows(part, a) /\ Len(part) = n /\ part \in Bytes
  <2>1. Follows(f.data, a)
    BY <1>4 DEF Follows
  <2>2. PICK y \in Bytes, i \in Nat : y = f.data /\ i = 1
    BY <1>1
  <2>3. Follows(y, a) /\ 1 <= i /\ i <= n + 1 /\ n <= Len(y) /\ a \in Int
    BY <1>2, <1>5, <2>1, <2>2
  <2>4. /\ Follows(SubSeq(y, i, n), a + i - 1) /\ Len(SubSeq(y, i, n)) = n - i + 1
        /\ SubSeq(y, i, n) \in Bytes
    BY ONLY <2>3, FollowsSub, y \in Bytes, i \in Nat, n \in Nat
  <2>5. a + i - 1 = a /\ n - i + 1 = n
    BY <2>2
  <2> QED
    BY <2>2, <2>4, <2>5
<1>7. a = g + l + (IF c.console_fin THEN 1 ELSE 0)
  BY <1>2 DEF Taking
<1>8. d.rx = c.rx \o part /\ (d.console_fin <=> c.console_fin \/ ("fin" \in f.fl /\ n = z))
  BY <1>2 DEF Gains
<1> HIDE DEF part
<1>9. PICK y \in Bytes, x \in Bytes : /\ y = c.rx /\ x = part /\ Len(y) = l /\ Follows(y, g)
                                      /\ Len(x) = n /\ Follows(x, a)
  BY <1>1, <1>2, <1>6
<1>10. CASE c.console_fin
  <2>1. a = g + l + 1 /\ g + l = S
    BY <1>2, <1>7, <1>10
  <2>2. z = 0 /\ n = 0
    BY <1>5, <2>1
  <2>3. x = <<>>
    BY <1>9, <2>2, EmptySeq DEF Bytes
  <2>4. d.rx = c.rx
    <3>1. y \o <<>> = y
      BY ConcatEmptySeq DEF Bytes
    <3> QED
      BY <1>8, <1>9, <2>3, <3>1
  <2>5. d.console_fin
    BY <1>8, <1>10
  <2>6. Taking(d, h) = a
    BY <1>2, <2>1, <2>4, <2>5 DEF Taking
  <2>7. Taking(d, h) <= a + Len(f.data) + Final(f) /\ a <= Taking(d, h)
    <3>1. PICK i \in Nat : i = Final(f)
      BY <1>1
    <3>2. a <= a + z + i
      OBVIOUS
    <3> QED
      BY <1>2, <2>6, <3>1, <3>2
  <2>8. /\ Follows(d.rx, Len(h.got)) /\ Len(h.got) + Len(d.rx) <= Sends[p]
        /\ k.shut /\ Len(h.got) + Len(d.rx) = Sends[p]
    BY <1>10, <2>4
  <2> QED
    BY <2>6, <2>7, <2>8
<1>11. CASE ~c.console_fin
  <2>1. a = g + l
    BY <1>7, <1>11
  <2>2. Follows(x, g + Len(y)) /\ g \in Int
    BY <1>9, <2>1
  <2>3. Follows(y \o x, g) /\ Len(y \o x) = Len(y) + Len(x)
    BY ONLY <1>9, <2>2, FollowsOn, y \in Bytes, x \in Bytes
  <2>4. Follows(d.rx, g) /\ Len(d.rx) = l + n
    BY <1>8, <1>9, <2>3
  <2>5. g + (l + n) <= S
    <3>1. CASE a < S
      BY <1>5, <2>1, <3>1
    <3>2. CASE ~(a < S)
      <4>1. z = 0 /\ n <= z
        BY <1>5, <3>2
      <4>2. n = 0
        BY <4>1
      <4>3. g + l <= S
        BY <1>2
      <4> QED
        BY <4>2, <4>3
    <3> QED
      BY <3>1, <3>2
  <2>6. ASSUME d.console_fin  PROVE k.shut /\ g + (l + n) = S /\ "fin" \in f.fl /\ n = z
    <3>1. "fin" \in f.fl /\ n = z
      BY <1>8, <1>11, <2>6
    <3>2. k.shut /\ a + z = S
      BY <1>4, <3>1
    <3>3. g + (l + n) = S
      BY <2>1, <3>1, <3>2
    <3> QED
      BY <3>1, <3>2, <3>3
  <2>7. PICK e \in Nat : e = IF d.console_fin THEN 1 ELSE 0
    OBVIOUS
  <2>8. Taking(d, h) = g + (l + n) + e
    BY <1>2, <2>4, <2>7 DEF Taking
  <2>9. PICK i \in Nat : i = Final(f)
    BY <1>1
  <2>10. e <= i
    <3>1. CASE d.console_fin
      BY <2>6, <2>7, <2>9, <3>1 DEF Final
    <3>2. CASE ~d.console_fin
      BY <2>7, <3>2
    <3> QED
      BY <3>1, <3>2
  <2>11. /\ g + (l + n) + e \in Nat /\ a <= g + (l + n) + e
         /\ g + (l + n) + e <= a + z + i
    BY <1>5, <2>1, <2>10
  <2> QED
    BY <1>2, <2>4, <2>5, <2>6, <2>8, <2>9, <2>11
<1> QED
  BY <1>10, <1>11

\* What is behind a frame stays where it was when the frame has been taken.
LEMMA StoodOn ==
  ASSUME NEW p \in Ports, NEW k, Sound(k), Telling(p, k), NEW a \in Nat, k.acked <= a,
         NEW b \in Nat, a <= b, NEW g \in Segments, Stood(p, k, a, g),
         b <= Stands(a, g.seq) + TcpBuf + 1
  PROVE  Stood(p, k, b, g) /\ Stands(b, g.seq) = Stands(a, g.seq)
<1>1. /\ Len(g.data) \in Nat /\ Final(g) \in Nat /\ g.seq \in Seqs
  BY FrameLens
<1>2. PICK m \in Int, l \in Nat, e \in Nat, t \in Nat, x \in Nat, B \in Nat :
        m = Stands(a, g.seq) /\ l = Len(g.data) /\ e = Final(g) /\ t = Top(p, k)
        /\ x = k.acked /\ B = TcpBuf
  <2>1. Stands(a, g.seq) \in Int
    BY <1>1, StandsOf
  <2> QED
    BY <1>1, <2>1, TopNear, Numbers
<1>3. m + l + e <= t /\ t <= x + B + 1 /\ x <= a /\ a <= b /\ b <= m + B + 1
  BY <1>2, TopNear DEF Stood
<1>4. m <= b + B + 1
  BY <1>3
<1>5. Stands(b, g.seq) = m
  <2>1. PICK S \in Nat : S = SeqSpace /\ 2 * B + 4 < S
    BY <1>2, Windows
  <2>2. -S <= 2 * (m - b) /\ 2 * (m - b) < S
    BY <1>3, <1>4, <2>1
  <2> QED
    BY <1>1, <1>2, <2>1, <2>2, StandsSame, SMTT(30)
<1>6. Stood(p, k, b, g)
  BY <1>2, <1>3, <1>5 DEF Stood
<1> QED
  BY <1>2, <1>5, <1>6

\* Frames behind the first are not far behind what it carried.
LEMMA StoodBehind ==
  ASSUME NEW p, NEW k, NEW h, NEW c, NEW O \in Seq(Segments), O # <<>>, NEW f, f = Head(O),
         f.port = p, Carries(f), NEW a, a = Taking(c, h), Carried(p, c, k, h, O)
  PROVE  /\ Stood(p, k, a, f)
         /\ \A g \in Bound(p, Tail(O)) :
              Stands(a, f.seq) + Len(f.data) + Final(f) <= Stands(a, g.seq) + TcpBuf + 1
<1> DEFINE P == Tail(O)
<1>1. /\ f \in Range(O) /\ f = O[1] /\ P \in Seq(Segments) /\ Len(P) = Len(O) - 1
      /\ \A i \in 1 .. Len(O) - 1 : P[i] = O[i + 1]
  BY TailRange
<1> HIDE DEF P
<1>2. Stood(p, k, a, f)
  BY <1>1 DEF Carried, Bound
<1>3. ASSUME NEW g \in Range(P), g.port = p, Carries(g)
      PROVE  Stands(a, f.seq) + Len(f.data) + Final(f) <= Stands(a, g.seq) + TcpBuf + 1
  <2>1. PICK n \in Nat : n = Len(O) /\ n >= 1
    BY EmptySeq
  <2>2. PICK i \in 1 .. n - 1 : g = P[i]
    BY <1>1, <2>1, RangeOf
  <2>3. 1 < i + 1 /\ i + 1 \in 1 .. n /\ 1 \in 1 .. n /\ O[i + 1] = g
    BY <1>1, <2>1, <2>2
  <2>4. InOrder(p, a, O)
    BY DEF Carried
  <2> QED
    BY <1>1, <1>3, <2>1, <2>3, <2>4 DEF InOrder
<1>4. \A g \in Bound(p, P) :
        Stands(a, f.seq) + Len(f.data) + Final(f) <= Stands(a, g.seq) + TcpBuf + 1
  BY <1>3 DEF Bound
<1> QED
  BY <1>2, <1>4 DEF P

\* A connection takes what the first of the console's frames has for it.
LEMMA ReceivedRelays ==
  ASSUME NEW p \in Ports, NEW k, Sound(k), NEW h \in HostType, NEW c \in TcpType, Fits(c),
         NEW a \in Nat, a = Taking(c, h), c.rcv_nxt = Plus(ConIss, 1 + a), k.acked <= a,
         NEW O \in Seq(Segments), O # <<>>, NEW f, f = Head(O), f.port = p, Plain(f), Carries(f),
         Spoken(p, k, O), Carried(p, c, k, h, O), NEW I, Relays(p, k, h, {c}, Tail(O), I),
         NEW d, d = Received(c, f)
  PROVE  Relays(p, k, h, {d}, Tail(O), I)
<1> DEFINE P == Tail(O)
<1>1. f \in Segments /\ P \in Seq(Segments)
  BY TailRange
<1>2. /\ Stood(p, k, a, f)
      /\ \A g \in Bound(p, P) :
           Stands(a, f.seq) + Len(f.data) + Final(f) <= Stands(a, g.seq) + TcpBuf + 1
  BY StoodBehind
<1>3. ~Opened(p, k, P) /\ Syns(p, P) = {}
  BY Behind DEF Plain
<1>4. Relays(p, k, h, {c}, P, I)
  OBVIOUS
<1> HIDE DEF P
<1>5. /\ d.used = c.used /\ d.una = c.una /\ d.nxt = c.nxt /\ d.tx_seq = c.tx_seq
      /\ d.tx = c.tx /\ d.wnd = c.wnd /\ d.syn_acked = c.syn_acked /\ d.iss = c.iss
      /\ d.host_eof = c.host_eof /\ d.connecting = c.connecting
      /\ \/ d.rx = c.rx /\ d.console_fin = c.console_fin
         \/ f.seq = c.rcv_nxt /\ \E n \in Nat : Gains(c, f, d, n)
  BY ONLY <1>1, ReceivedIs, c \in TcpType, Fits(c), d = Received(c, f)
<1>6. k.st # "gone" => Down(p, k, h, {d}, P, I)
  BY <1>4, <1>5, DownAlike DEF Relays
<1>7. Telling(p, k) /\ Carried(p, c, k, h, P)
  BY <1>4 DEF Relays, Up
<1>8. CASE d.rx = c.rx /\ d.console_fin = c.console_fin
  <2>1. Up(p, k, h, {d}, P)
    BY <1>4, <1>8, UpAlike DEF Relays
  <2>2. Met(p, k, {d}, P)
    BY <1>3 DEF Met
  <2> QED
    BY <1>4, <1>6, <2>1, <2>2 DEF Relays, P
<1>9. ASSUME f.seq = c.rcv_nxt, NEW n \in Nat, Gains(c, f, d, n)
      PROVE  Relays(p, k, h, {d}, P, I)
  <2>1. /\ Follows(d.rx, Len(h.got)) /\ Len(h.got) + Len(d.rx) <= Sends[p]
        /\ d.console_fin => k.shut /\ Len(h.got) + Len(d.rx) = Sends[p]
        /\ Taking(d, h) \in Nat /\ a <= Taking(d, h)
        /\ Taking(d, h) <= a + Len(f.data) + Final(f)
    <3>1. /\ Follows(c.rx, Len(h.got)) /\ Len(h.got) + Len(c.rx) <= Sends[p]
          /\ c.console_fin => k.shut /\ Len(h.got) + Len(c.rx) = Sends[p]
      BY <1>7 DEF Carried
    <3>2. f.seq = Plus(ConIss, 1 + a)
      BY <1>9
    <3> QED
      BY <1>1, <1>2, <1>9, <3>1, <3>2, TakesOn, ZenonT(40)
  <2>2. PICK b \in Nat : b = Taking(d, h)
    BY <2>1
  <2>3. PICK e \in Nat : e = Len(f.data) + Final(f)
    <3>1. PICK y \in Nat, z \in Nat : y = Len(f.data) /\ z = Final(f)
      BY <1>1, FrameLens
    <3> QED
      BY <3>1
  <2>4. Stands(a, f.seq) = a
    <3>1. -SeqSpace <= 2 * (a - a) /\ 2 * (a - a) < SeqSpace
      BY Numbers
    <3> QED
      BY <1>9, <3>1, StandsIs
  <2>5. /\ a <= b /\ b <= a + e
        /\ a + e = a + Len(f.data) + Final(f)
    <3>1. PICK y \in Nat, z \in Nat : y = Len(f.data) /\ z = Final(f)
      BY <1>1, FrameLens
    <3>2. a <= b /\ b <= a + y + z
      BY <2>1, <2>2, <3>1
    <3>3. e = y + z
      BY <2>3, <3>1
    <3>4. a <= b /\ b <= a + e
      BY <3>2, <3>3
    <3>5. a + e = a + y + z
      BY <3>3
    <3> QED
      BY <3>1, <3>4, <3>5
  <2>6. b <= Top(p, k)
    <3>1. PICK t \in Nat : t = Top(p, k)
      BY <1>7, TopNear
    <3>2. a + e <= t
      BY <1>2, <2>4, <2>5, <3>1 DEF Stood
    <3>3. b <= t
      BY <2>5, <3>2
    <3> QED
      BY <3>1, <3>3
  <2>7. ASSUME NEW g \in Bound(p, P)
        PROVE  g \in Segments /\ Stood(p, k, b, g) /\ Stands(b, g.seq) = Stands(a, g.seq)
    <3>1. g \in Segments
      BY <1>1, RangeOf DEF Bound
    <3>2. Stood(p, k, a, g)
      BY <1>7 DEF Carried
    <3>3. PICK m \in Int, B \in Nat : m = Stands(a, g.seq) /\ B = TcpBuf
      BY <3>1, FrameLens, StandsOf, Numbers
    <3>4. a + e <= m + B + 1
      BY <1>2, <2>4, <2>5, <3>3
    <3>5. b <= m + B + 1
      BY <2>5, <3>4
    <3>6. b <= Stands(a, g.seq) + TcpBuf + 1
      BY <3>3, <3>5
    <3>7. Stood(p, k, b, g) /\ Stands(b, g.seq) = Stands(a, g.seq)
      BY <1>7, <2>5, <3>1, <3>2, <3>6, StoodOn
    <3> QED
      BY <3>1, <3>7
  <2>8. InOrder(p, b, P)
    <3> SUFFICES ASSUME NEW i \in 1 .. Len(P), NEW j \in 1 .. Len(P), i < j, P[i].port = p,
                        P[j].port = p, Carries(P[i]), Carries(P[j])
                 PROVE  Stands(b, P[i].seq) + Len(P[i].data) + Final(P[i])
                          <= Stands(b, P[j].seq) + TcpBuf + 1
      BY DEF InOrder
    <3>1. P[i] \in Bound(p, P) /\ P[j] \in Bound(p, P)
      BY <1>1, RangeOf DEF Bound
    <3>2. Stands(b, P[i].seq) = Stands(a, P[i].seq) /\ Stands(b, P[j].seq) = Stands(a, P[j].seq)
      BY <2>7, <3>1
    <3>3. InOrder(p, a, P)
      BY <1>7 DEF Carried
    <3> QED
      BY <3>2, <3>3 DEF InOrder
  <2>9. Carried(p, d, k, h, P)
    BY <2>1, <2>2, <2>6, <2>7, <2>8 DEF Carried
  <2>10. Up(p, k, h, {d}, P)
    BY <1>3, <1>4, <2>9 DEF Relays, Up
  <2>11. Met(p, k, {d}, P)
    BY <1>3 DEF Met
  <2> QED
    BY <1>4, <1>6, <2>10, <2>11 DEF Relays
<1> QED
  BY <1>5, <1>8, <1>9 DEF P

\* The connection of a slot as its handler finds it, when the queue from the console is O.
LEMMA TakenHeld ==
  ASSUME IInv, RInv, NEW s \in Slots, tcp[s].used, NEW p, p = tcp[s].port,
         NEW O, O = out \/ (out # <<>> /\ O = Tail(out)),
         NEW a, a = Taking(tcp[s], host[p]), NEW w, w = Work(s)
  PROVE  /\ Side(p, con[p], O, in, host[p]) /\ a \in Nat /\ InHand(w, p, a)
         /\ w.c = tcp[s] /\ w.q = in /\ w.h = host[p] /\ w.c.used /\ con[p].acked <= a
         /\ Relays(p, con[p], host[p], {tcp[s]}, out, in)
         /\ Held(p, con[p], O, in, host[p], w)
<1>1. /\ p \in Ports /\ a \in Nat /\ InHand(w, p, a)
      /\ w.c = tcp[s] /\ w.q = in /\ w.h = host[p] /\ w.c.used
  BY TakenInHand
<1>2. /\ Sound(con[p]) /\ in \in Seq(Segments) /\ out \in Seq(Segments)
      /\ host[p] \in HostType
  BY <1>1, ConSound DEF IInv, Types
<1>3. O \in Seq(Segments) /\ Range(O) \subseteq Range(out)
  BY <1>2, TailRange
<1>4. Side(p, con[p], O, in, host[p])
  BY <1>1, <1>2, <1>3 DEF Side
<1>5. con[p].acked <= a
  BY <1>1 DEF IInv, Honest
<1>6. Conns(p) = {tcp[s]}
  <2>1. ASSUME NEW t \in SlotsOf(p)  PROVE t = s
    BY <2>1 DEF IInv, OneEach, SlotsOf
  <2>2. s \in SlotsOf(p)
    BY DEF SlotsOf
  <2> QED
    BY <2>1, <2>2 DEF Conns
<1>7. Relays(p, con[p], host[p], {tcp[s]}, out, in)
  BY <1>1, <1>6 DEF RInv
<1>8. Relays(p, con[p], host[p], {tcp[s]}, O, in)
  BY <1>2, <1>7, PopsRelays
<1>9. Grown(in, w.q, {f \in Segments : f.port = p})
  BY <1>1, <1>2, GrownSame
<1>10. Onto(host[p], w.h)
  <2>1. PICK n \in Nat : n = Len(host[p].got)
    BY <1>2 DEF HostType, Bytes
  <2>2. n <= n
    OBVIOUS
  <2> QED
    BY <1>1, <2>1, <2>2 DEF Onto
<1>11. ASSUME Opened(p, con[p], O)  PROVE tcp[s].rx = <<>> /\ ~tcp[s].console_fin
  <2>1. Opening(p)
    BY <1>3, <1>11 DEF Opened, Opening, Early, Syns
  <2> QED
    BY <1>1, <2>1 DEF IInv, Opens, Anew, SlotsOf
<1>12. Own(w) = {tcp[s]}
  BY <1>1 DEF Own
<1>13. Held(p, con[p], O, in, host[p], w)
  BY <1>1, <1>8, <1>9, <1>10, <1>11, <1>12 DEF Held
<1> QED
  BY <1>1, <1>4, <1>5, <1>7, <1>13

\* The only sockets and far sides a step of the router changes: none, or one that gets on.
Furthers ==
  \/ host' = host
  \/ \E p \in Ports, h \in HostType : host' = [host EXCEPT ![p] = h] /\ Onto(host[p], h)

\* What its handler leaves goes back into the table.
LEMMA PutsBack ==
  ASSUME IInv, IInv', RInv, NEW s \in Slots, tcp[s].used, NEW p, p = tcp[s].port,
         NEW O, O = out \/ (out # <<>> /\ O = Tail(out)), out' = O, con' = con,
         NEW b, NEW v, InHand(v, p, b), Handled(s, v), Held(p, con[p], O, in, host[p], v)
  PROVE  RInv' /\ Furthers
<1>1. /\ tcp' = [tcp EXCEPT ![s] = v.c] /\ in' = v.q /\ host' = [host EXCEPT ![p] = v.h]
      /\ tcp \in [Slots -> TcpType] /\ host \in [Ports -> HostType] /\ p \in Ports
      /\ in \in Seq(Segments) /\ out \in Seq(Segments) /\ v.q \in Seq(Segments)
  BY DEF Handled, IInv, Types, Fits, InHand, Works
<1>2. v.c.used => v.c.port = p
  BY DEF InHand
<1>3. /\ Grown(in, v.q, {f \in Segments : f.port = p})
      /\ Relays(p, con[p], v.h, Own(v), O, v.q)
  BY DEF Held
<1>4. Conns(p)' = Own(v)
  <2>1. Conns(p)' = {tcp'[t] : t \in SlotsOf(p)'}
    BY DEF Conns
  <2>2. SlotsOf(p)' = {t \in Slots : tcp'[t].used /\ tcp'[t].port = p}
    BY DEF SlotsOf
  <2>3. ASSUME NEW t \in Slots, t # s  PROVE ~(tcp'[t].used /\ tcp'[t].port = p)
    <3>1. tcp'[t] = tcp[t]
      BY <1>1, <2>3
    <3> QED
      BY <2>3, <3>1 DEF IInv, OneEach
  <2>4. tcp'[s] = v.c
    BY <1>1
  <2>5. CASE v.c.used
    <3>1. SlotsOf(p)' = {s}
      BY <1>2, <2>2, <2>3, <2>4, <2>5
    <3> QED
      BY <2>1, <2>4, <2>5, <3>1 DEF Own
  <2>6. CASE ~v.c.used
    <3>1. SlotsOf(p)' = {}
      BY <2>2, <2>3, <2>4, <2>6
    <3> QED
      BY <2>1, <2>6, <3>1 DEF Own
  <2> QED
    BY <2>5, <2>6
<1>5. host'[p] = v.h
  BY <1>1
<1>6. Relays(p, con'[p], host'[p], Conns(p)', out', in')
  BY <1>1, <1>3, <1>4, <1>5
<1>7. ASSUME NEW r \in Ports, r # p  PROVE Relays(r, con'[r], host'[r], Conns(r)', out', in')
  <2>1. host'[r] = host[r]
    BY <1>1, <1>7
  <2>2. Conns(r)' = Conns(r)
    <3>1. /\ Conns(r)' = {tcp'[t] : t \in SlotsOf(r)'} /\ Conns(r) = {tcp[t] : t \in SlotsOf(r)}
          /\ SlotsOf(r)' = {t \in Slots : tcp'[t].used /\ tcp'[t].port = r}
          /\ SlotsOf(r) = {t \in Slots : tcp[t].used /\ tcp[t].port = r}
      BY DEF Conns, SlotsOf
    <3>2. ASSUME NEW t \in Slots, t # s  PROVE tcp'[t] = tcp[t]
      BY <1>1, <3>2
    <3>3. ~(tcp[s].used /\ tcp[s].port = r) /\ ~(tcp'[s].used /\ tcp'[s].port = r)
      BY <1>1, <1>2, <1>7
    <3>4. SlotsOf(r)' = SlotsOf(r) /\ s \notin SlotsOf(r)
      BY <3>1, <3>2, <3>3
    <3>5. \A t \in SlotsOf(r) : tcp'[t] = tcp[t]
      BY <3>1, <3>2, <3>4
    <3> QED
      BY <3>1, <3>4, <3>5
  <2>3. Relays(r, con[r], host[r], Conns(r), out, in)
    BY DEF RInv
  <2>4. Within(r, out', out)
    BY <1>1, TailWithin, SameWithin
  <2>5. Within(r, in', in)
    <3>1. \A f \in {g \in Segments : g.port = p} : f.port # r
      BY <1>7
    <3> QED
      BY <1>1, <1>3, <3>1, GrownWithin
  <2>6. Relays(r, con[r], host[r], Conns(r), out', in')
    BY <2>3, <2>4, <2>5, RelaysThins
  <2> QED
    BY <2>1, <2>2, <2>6
<1>8. \A r \in Ports : Relays(r, con'[r], host'[r], Conns(r)', out', in')
  BY <1>6, <1>7
<1>9. Furthers
  <2>1. v.h \in HostType /\ Onto(host[p], v.h)
    BY DEF InHand, Works, Held
  <2> QED
    BY <1>1, <2>1 DEF Furthers
<1> QED
  BY <1>8, <1>9, NextRelays

\* The handlers of a frame for a connection, and of a connection in the rest of a pass.
LEMMA ResetRelays ==
  ASSUME IInv, IInv', RInv, out # <<>>, NEW s \in Slots, InReset(s, Head(out))
  PROVE  RInv' /\ Furthers
<1> DEFINE v == tcp_close(Work(s))
<1>1. /\ Takes(Head(out)) /\ tcp[s].used /\ Handled(s, v) /\ tcp[s].port = Head(out).port
      /\ "rst" \in Head(out).fl /\ out' = Tail(out) /\ con' = con
  BY DEF InReset, SlotsOf, Takes
<1>2. PICK p, O, f, w : p = tcp[s].port /\ O = Tail(out) /\ f = Head(out) /\ w = Work(s)
  OBVIOUS
<1>3. PICK a \in Nat : a = Taking(tcp[s], host[p])
  BY <1>1, <1>2, TakenHeld
<1>4. /\ Side(p, con[p], O, in, host[p]) /\ InHand(w, p, a) /\ w.c.used
      /\ Held(p, con[p], O, in, host[p], w)
      /\ Relays(p, con[p], host[p], {tcp[s]}, out, in)
  BY <1>1, <1>2, <1>3, TakenHeld
<1>5. "syn" \notin f.fl
  <2>1. f \in Range(out)
    BY <1>2, TailRange DEF IInv, Types
  <2>2. "syn" \in f.fl => f.fl = {"syn"}
    BY <2>1 DEF IInv, Opens, Ordered
  <2> QED
    BY <1>1, <1>2, <2>2
<1>6. ~Opened(p, con[p], O)
  <2>1. out \in Seq(Segments) /\ Spoken(p, con[p], out)
    BY <1>4 DEF IInv, Types, Relays
  <2> QED
    BY <1>1, <1>2, <1>5, <2>1, Behind
<1>7. Parted(p, con[p], O, w.q)
  BY <1>4, <1>6, MayPart
<1>8. Held(p, con[p], O, in, host[p], v) /\ InHand(v, p, a)
  <2>1. Held(p, con[p], O, in, host[p], tcp_close(w)) /\ InHand(tcp_close(w), p, a)
    BY <1>4, <1>7, HeldCloses, Closed
  <2> QED
    BY <1>2, <2>1
<1> HIDE DEF v
<1> QED
  BY <1>1, <1>2, <1>8, PutsBack

\* The steps of the router's thread, one after the other.
LEMMA SynAgainRelays ==
  ASSUME IInv, IInv', RInv, out # <<>>, NEW s \in Slots, InSynAgain(s, Head(out))
  PROVE  RInv' /\ Furthers
<1> DEFINE w == Work(s)
           u == [w EXCEPT !.c.nxt = w.c.iss]
           v == IF tcp[s].connecting \/ tcp[s].syn_acked THEN w ELSE tcp_pump(u)
<1>1. /\ Takes(Head(out)) /\ tcp[s].used /\ Handled(s, v) /\ out' = Tail(out) /\ con' = con
  BY DEF InSynAgain, SlotsOf, Work, Takes
<1>2. PICK p, O : p = tcp[s].port /\ O = Tail(out)
  OBVIOUS
<1>3. PICK a \in Nat : a = Taking(tcp[s], host[p])
  BY <1>1, <1>2, TakenHeld
<1>4. /\ Side(p, con[p], O, in, host[p]) /\ InHand(w, p, a) /\ w.c.used /\ w.c = tcp[s]
      /\ Held(p, con[p], O, in, host[p], w)
  BY <1>1, <1>2, <1>3, TakenHeld, ZenonT(40)
<1>5. w \in Works /\ Fits(w.c) /\ w.c \in TcpType /\ w.c.iss \in Seqs /\ p \in Ports
  BY <1>4 DEF InHand, Works, TcpType, Side
<1> DEFINE d == [w.c EXCEPT !.nxt = w.c.iss]
<1>6. u = [w EXCEPT !.c = d]
  OBVIOUS
<1> HIDE DEF w, u
<1>7. /\ d \in TcpType /\ d.nxt = w.c.iss
      /\ d.una = w.c.una /\ d.tx_seq = w.c.tx_seq /\ d.tx = w.c.tx /\ d.wnd = w.c.wnd
      /\ d.syn_acked = w.c.syn_acked /\ d.iss = w.c.iss /\ d.host_eof = w.c.host_eof
      /\ d.rx = w.c.rx /\ d.console_fin = w.c.console_fin /\ d.connecting = w.c.connecting
      /\ d.used = w.c.used /\ d.port = w.c.port /\ d.rcv_nxt = w.c.rcv_nxt /\ d.sock = w.c.sock
  BY <1>5 DEF TcpType
<1> HIDE DEF d
<1>8. u \in Works /\ u.c = d /\ u.q = w.q /\ u.h = w.h
  BY <1>5, <1>6, <1>7 DEF Works
<1>9. Fits(u.c)
  BY <1>5, <1>7, <1>8 DEF Fits
<1>10. InHand(u, p, a) /\ u.c.used
  BY <1>4, <1>7, <1>8, <1>9, Otherwise
<1>11. ASSUME ~w.c.syn_acked
       PROVE  Held(p, con[p], O, in, host[p], u)
  <2>1. d.used /\ (d.connecting => w.c.connecting)
    BY <1>4, <1>7
  <2>2. con[p].st # "gone" /\ w.c.syn_acked =>
          /\ Place(con[p], w.c.una) <= Place(con[p], d.nxt)
          /\ Place(con[p], d.nxt) <= w.h.took + 2
          /\ Place(con[p], d.nxt) = w.h.took + 2 => w.c.host_eof
    BY <1>11
  <2>3. con[p].st # "gone" /\ ~w.c.syn_acked => d.nxt \in {w.c.iss, Plus(w.c.iss, 1)}
    BY <1>7
  <2> QED
    BY <1>4, <1>7, <1>8, <2>1, <2>2, <2>3, HeldSteers
<1>12. ASSUME ~w.c.syn_acked
       PROVE  Held(p, con[p], O, in, host[p], tcp_pump(u)) /\ InHand(tcp_pump(u), p, a)
  BY <1>4, <1>5, <1>10, <1>11, <1>12, HeldPump, PumpKeeps
<1>13. Held(p, con[p], O, in, host[p], v) /\ InHand(v, p, a)
  <2>1. CASE tcp[s].connecting \/ tcp[s].syn_acked
    BY <1>4, <2>1
  <2>2. CASE ~(tcp[s].connecting \/ tcp[s].syn_acked)
    BY <1>4, <1>12, <2>2
  <2> QED
    BY <2>1, <2>2
<1> HIDE DEF v
<1> QED
  BY <1>1, <1>2, <1>13, PutsBack

LEMMA WhileConnectingRelays ==
  ASSUME IInv, IInv', RInv, out # <<>>, NEW s \in Slots, InWhileConnecting(s, Head(out))
  PROVE  RInv' /\ Furthers
<1>1. /\ tcp[s].used /\ Handled(s, Work(s)) /\ out' = Tail(out) /\ con' = con
  BY DEF InWhileConnecting, SlotsOf, Takes
<1>2. PICK p, O, w : p = tcp[s].port /\ O = Tail(out) /\ w = Work(s)
  OBVIOUS
<1>3. PICK a : a = Taking(tcp[s], host[p])
  OBVIOUS
<1>4. InHand(w, p, a) /\ Held(p, con[p], O, in, host[p], w)
  BY <1>1, <1>2, <1>3, TakenHeld
<1> QED
  BY <1>1, <1>2, <1>4, PutsBack

LEMMA ServiceRelays ==
  ASSUME IInv, IInv', RInv, NEW s \in Slots, tcp_service(s)
  PROVE  RInv' /\ Furthers
<1>1. UNCHANGED <<con, out>>
  BY DEF tcp_service, NextSlot
<1>2. CASE tcp[s].used
  <2> DEFINE rd == tcp[s].sock \in loop.rd
             wr == tcp[s].sock \in loop.wr
  <2>0. rd \in BOOLEAN /\ wr \in BOOLEAN /\ \E w \in Services(Work(s), rd, wr) : Handled(s, w)
    BY <1>2 DEF tcp_service
  <2> HIDE DEF rd, wr
  <2>1. PICK r \in BOOLEAN, x \in BOOLEAN : \E w \in Services(Work(s), r, x) : Handled(s, w)
    BY <2>0
  <2>2. PICK v \in Services(Work(s), r, x) : Handled(s, v)
    BY <2>1
  <2>3. PICK p, O, w : p = tcp[s].port /\ O = out /\ w = Work(s)
    OBVIOUS
  <2>4. PICK a \in Nat : a = Taking(tcp[s], host[p])
    BY <1>2, <2>3, TakenHeld
  <2>5. /\ Side(p, con[p], O, in, host[p]) /\ InHand(w, p, a) /\ w.c.used
        /\ Held(p, con[p], O, in, host[p], w)
    BY <1>2, <2>3, <2>4, TakenHeld
  <2>6. p \in Ports
    BY <2>5 DEF Side
  <2>7. v \in Services(w, r, x)
    BY <2>2, <2>3
  <2>8. Held(p, con[p], O, in, host[p], v)
    BY <2>5, <2>7, HeldServices
  <2>9. InHand(v, p, a)
    BY <2>5, <2>6, <2>7, ServicesKeeps
  <2> QED
    BY <1>1, <1>2, <2>2, <2>3, <2>8, <2>9, PutsBack
<1>3. CASE ~tcp[s].used
  <2>1. UNCHANGED <<con, host, out, in, tcp>>
    BY <1>1, <1>3 DEF tcp_service
  <2> QED
    BY <2>1, StillRelays DEF Furthers
<1> QED
  BY <1>2, <1>3

LEMMA TimersRelays ==
  ASSUME IInv, IInv', RInv, NEW s \in Slots, tcp_timers(s)
  PROVE  RInv' /\ Furthers
<1>1. UNCHANGED <<con, out>>
  BY DEF tcp_timers, GoBack, Idle, NextSlot
<1>2. CASE GoBack(s)
  <2> DEFINE w == Work(s)
             u == [w EXCEPT !.c.nxt = tcp[s].una,
                            !.c.fin_sent = @ /\ tcp[s].una # tcp[s].fin_seq]
             v == tcp_pump(u)
  <2>1. tcp[s].used /\ Handled(s, v)
    BY <1>2 DEF GoBack
  <2>2. PICK p, O, k : p = tcp[s].port /\ O = out /\ k = con[p]
    OBVIOUS
  <2>3. PICK a \in Nat : a = Taking(tcp[s], host[p])
    BY <2>1, <2>2, TakenHeld
  <2>4. /\ Side(p, k, O, in, host[p]) /\ InHand(w, p, a) /\ w.c.used
        /\ Held(p, k, O, in, host[p], w) /\ w.c = tcp[s] /\ w.h = host[p]
        /\ Relays(p, k, host[p], {tcp[s]}, out, in)
    <3>1. /\ s \in Slots /\ tcp[s].used /\ w = Work(s) /\ p = tcp[s].port
          /\ a = Taking(tcp[s], host[p]) /\ O = out
      BY <2>1, <2>2, <2>3
    <3> HIDE DEF w
    <3>2. /\ Side(p, con[p], O, in, host[p]) /\ InHand(w, p, a) /\ w.c.used
          /\ con[p].acked <= a /\ Held(p, con[p], O, in, host[p], w)
      BY <3>1, TakenHeld
    <3>3. Relays(p, con[p], host[p], {tcp[s]}, out, in)
      BY <3>1, TakenHeld
    <3>4. w.c = tcp[s] /\ w.q = in /\ w.h = host[p]
      BY <3>1, TakenInHand
    <3> QED
      BY <2>2, <3>2, <3>3, <3>4
  <2> DEFINE sent == w.c.fin_sent /\ tcp[s].una # tcp[s].fin_seq
             d == [w.c EXCEPT !.nxt = w.c.una, !.fin_sent = sent]
  <2>5. /\ w.c.una \in Seqs /\ sent \in BOOLEAN /\ w \in Works /\ Fits(w.c) /\ w.c \in TcpType
        /\ p \in Ports /\ Sound(k) /\ w.h \in HostType
    BY <2>4 DEF InHand, Works, TcpType, Side
  <2>6. u = [w EXCEPT !.c = d]
    BY <2>4
  <2> HIDE DEF w, u, sent
  <2>7. /\ d \in TcpType /\ d.nxt = w.c.una
        /\ d.una = w.c.una /\ d.tx_seq = w.c.tx_seq /\ d.tx = w.c.tx /\ d.wnd = w.c.wnd
        /\ d.syn_acked = w.c.syn_acked /\ d.iss = w.c.iss /\ d.host_eof = w.c.host_eof
        /\ d.rx = w.c.rx /\ d.console_fin = w.c.console_fin /\ d.connecting = w.c.connecting
        /\ d.used = w.c.used /\ d.port = w.c.port /\ d.rcv_nxt = w.c.rcv_nxt
        /\ d.sock = w.c.sock
    BY <2>5 DEF TcpType
  <2> HIDE DEF d
  <2>8. u \in Works /\ u.c = d /\ u.q = w.q /\ u.h = w.h
    BY <2>5, <2>6, <2>7 DEF Works
  <2>9. Fits(u.c)
    BY <2>5, <2>7, <2>8 DEF Fits
  <2>10. InHand(u, p, a) /\ u.c.used
    BY <2>4, <2>7, <2>8, <2>9, Otherwise
  <2>11. k.st # "gone" /\ w.c.syn_acked =>
           /\ Place(k, w.c.una) <= Place(k, d.nxt) /\ Place(k, d.nxt) <= w.h.took + 2
           /\ Place(k, d.nxt) = w.h.took + 2 => w.c.host_eof
    <3> SUFFICES ASSUME k.st # "gone", w.c.syn_acked
                 PROVE  /\ Place(k, w.c.una) <= Place(k, w.c.una)
                        /\ Place(k, w.c.una) <= w.h.took + 2
                        /\ Place(k, w.c.una) = w.h.took + 2 => w.c.host_eof
      BY <2>7
    <3>1. Tied(k, w.h) /\ Flowing(w.c, k, w.h)
      BY <2>4, <2>5, TiedIs
    <3>2. /\ Place(k, w.c.una) \in Int /\ Place(k, w.c.nxt) \in Int /\ w.h.took \in Nat
          /\ Place(k, w.c.una) <= Place(k, w.c.nxt) /\ Place(k, w.c.nxt) <= w.h.took + 2
          /\ (Place(k, w.c.nxt) = w.h.took + 2 => w.c.host_eof)
      BY <2>5, <3>1, FlowIs
    <3>3. PICK y \in Int, n \in Int, t \in Nat :
            y = Place(k, w.c.una) /\ n = Place(k, w.c.nxt) /\ t = w.h.took
      BY <3>2
    <3>4. y <= n /\ n <= t + 2 /\ (n = t + 2 => w.c.host_eof)
      BY <3>2, <3>3
    <3>5. y <= y /\ y <= t + 2 /\ (y = t + 2 => n = t + 2)
      BY <3>4
    <3> QED
      BY <3>3, <3>4, <3>5
  <2>12. k.st # "gone" /\ ~w.c.syn_acked => d.nxt \in {w.c.iss, Plus(w.c.iss, 1)}
    <3> SUFFICES ASSUME k.st # "gone", ~w.c.syn_acked  PROVE w.c.una = w.c.iss
      BY <2>7
    <3>1. Greeting(w.c, w.h)
      BY <2>4, <2>5, TiedIs
    <3> QED
      BY <3>1 DEF Greeting
  <2>13. d.used /\ (d.connecting => w.c.connecting)
    BY <2>4, <2>7
  <2>14. Held(p, k, O, in, host[p], u)
    BY <2>4, <2>7, <2>8, <2>11, <2>12, <2>13, HeldSteers
  <2>15. Held(p, k, O, in, host[p], v) /\ InHand(v, p, a)
    BY <2>4, <2>5, <2>10, <2>14, HeldPump, PumpKeeps
  <2> HIDE DEF v
  <2> QED
    BY <1>1, <2>1, <2>2, <2>15, PutsBack
<1>3. CASE Idle(s)
  <2>1. tcp[s].used /\ Handled(s, tcp_abort(Work(s))) /\ out = <<>> /\ in = <<>>
    BY <1>3 DEF Idle
  <2>2. PICK p, O, w : p = tcp[s].port /\ O = out /\ w = Work(s)
    OBVIOUS
  <2>3. PICK a \in Nat : a = Taking(tcp[s], host[p])
    BY <2>1, <2>2, TakenHeld
  <2>4. /\ Side(p, con[p], O, in, host[p]) /\ InHand(w, p, a) /\ w.c.used /\ w.q = in
        /\ Held(p, con[p], O, in, host[p], w)
    <3>1. /\ s \in Slots /\ tcp[s].used /\ w = Work(s) /\ p = tcp[s].port
          /\ a = Taking(tcp[s], host[p]) /\ O = out
      BY <2>1, <2>2, <2>3
    <3>2. /\ Side(p, con[p], O, in, host[p]) /\ InHand(w, p, a) /\ w.c.used
          /\ con[p].acked <= a /\ Held(p, con[p], O, in, host[p], w)
      BY <3>1, TakenHeld
    <3>3. Relays(p, con[p], host[p], {tcp[s]}, out, in)
      BY <3>1, TakenHeld
    <3>4. w.c = tcp[s] /\ w.q = in /\ w.h = host[p]
      BY <3>1, TakenInHand
    <3> QED
      BY <3>2, <3>3, <3>4
  <2>5. Parted(p, con[p], O, w.q)
    <3>1. \A f : f \notin Range(O) /\ f \notin Range(w.q)
      BY <2>1, <2>2, <2>4 DEF Range
    <3> QED
      BY <3>1 DEF Parted, Met, Syns
  <2>6. p \in Ports
    BY <2>4 DEF Side
  <2>7. Held(p, con[p], O, in, host[p], tcp_abort(w)) /\ InHand(tcp_abort(w), p, a)
    BY <2>4, <2>5, <2>6, HeldAborts, Aborted
  <2> QED
    BY <1>1, <2>1, <2>2, <2>7, PutsBack
<1>4. CASE UNCHANGED <<tcp, in, host>>
  BY <1>1, <1>4, StillRelays DEF Furthers
<1> QED
  BY <1>2, <1>3, <1>4 DEF tcp_timers

LEMMA SegmentRelays ==
  ASSUME IInv, IInv', RInv, out # <<>>, NEW s \in Slots, InSegment(s, Head(out))
  PROVE  RInv' /\ Furthers
<1> DEFINE f == Head(out)
           w == Work(s)
           acked == [w EXCEPT !.c = Acknowledged(@, f)]
           taken == [acked EXCEPT !.c = Received(@, f)]
           told == tcp_segment(taken, taken.c.nxt, {"ack"}, <<>>)
<1>1. /\ tcp[s].used /\ tcp[s].port = f.port /\ Plain(f) /\ out' = Tail(out) /\ con' = con
  BY DEF InSegment, SlotsOf, Takes, Plain
<1>2. f \in Segments /\ out \in Seq(Segments)
  BY <1>1, OutShrinks DEF IInv, Types
<1>3. PICK p, O, k : p = tcp[s].port /\ O = Tail(out) /\ k = con[p]
  OBVIOUS
<1>4. PICK a \in Nat : a = Taking(tcp[s], host[p])
  BY <1>1, <1>3, TakenHeld
<1>5. /\ Side(p, k, O, in, host[p]) /\ InHand(w, p, a) /\ w.c.used
      /\ w.c = tcp[s] /\ w.q = in /\ w.h = host[p] /\ k.acked <= a
      /\ Held(p, k, O, in, host[p], w) /\ Relays(p, k, host[p], {tcp[s]}, out, in)
  <2>1. /\ s \in Slots /\ tcp[s].used /\ w = Work(s) /\ p = tcp[s].port
        /\ a = Taking(tcp[s], host[p]) /\ out # <<>> /\ O = Tail(out)
    BY <1>1, <1>3, <1>4
  <2> HIDE DEF w
  <2>2. /\ Side(p, con[p], O, in, host[p]) /\ InHand(w, p, a) /\ w.c.used
        /\ con[p].acked <= a /\ Held(p, con[p], O, in, host[p], w)
    BY <2>1, TakenHeld
  <2>3. Relays(p, con[p], host[p], {tcp[s]}, out, in)
    BY <2>1, TakenHeld
  <2>4. w.c = tcp[s] /\ w.q = in /\ w.h = host[p]
    BY <2>1, TakenInHand
  <2> QED
    BY <1>3, <2>2, <2>3, <2>4
<1>6. /\ p \in Ports /\ Sound(k) /\ w.c \in TcpType /\ Fits(w.c) /\ w \in Works
      /\ w.h \in HostType /\ p = f.port
  BY <1>1, <1>3, <1>5 DEF Side, InHand, Works
<1>7. InHand(acked, p, a) /\ acked.c.used
  BY <1>2, <1>5, <1>6, AcknowledgedKeeps
<1>8. IF f.data = <<>> /\ "fin" \notin f.fl THEN Handled(s, Finished(acked))
      ELSE \E v \in tcp_flush_rx(told) : Handled(s, IF v.c.used THEN Finished(v) ELSE v)
  BY DEF InSegment
<1>9. /\ acked.q = w.q /\ acked.h = w.h /\ acked.c = Acknowledged(w.c, f)
      /\ acked.c \in TcpType /\ Fits(acked.c) /\ acked \in Works
  <2>1. acked \in Works
    BY <1>7 DEF InHand
  <2>2. acked = [w EXCEPT !.c = Acknowledged(w.c, f)]
    OBVIOUS
  <2> HIDE DEF acked
  <2>3. acked.c = Acknowledged(w.c, f) /\ acked.q = w.q /\ acked.h = w.h
    BY <1>6, <2>2 DEF Works
  <2> QED
    BY <1>7, <2>1, <2>3 DEF InHand, Works
<1> HIDE DEF acked
<1>10. /\ acked.c.rx = w.c.rx /\ acked.c.console_fin = w.c.console_fin
  <2>1. PICK d : d = acked.c
    OBVIOUS
  <2>2. d.rx = w.c.rx /\ d.console_fin = w.c.console_fin
    BY <1>2, <1>6, <1>9, <2>1, AcknowledgedIs
  <2> QED
    BY <2>1, <2>2
<1>11. ~Opened(p, k, O) /\ Spoken(p, k, out)
  <2>1. Spoken(p, k, out)
    BY <1>5 DEF Relays
  <2>2. "syn" \notin f.fl
    BY <1>1 DEF Plain
  <2> QED
    BY <1>1, <1>2, <1>3, <1>6, <2>1, <2>2, Behind
<1>12. Relays(p, k, w.h, {acked.c}, O, in)
  <2>1. Relays(p, k, w.h, {w.c}, out, in)
    BY <1>5
  <2> QED
    BY <1>1, <1>2, <1>3, <1>6, <1>9, <2>1, AckRelays
<1>13. Grown(in, w.q, {g \in Segments : g.port = p}) /\ Onto(host[p], w.h)
  BY <1>5 DEF Held
<1>14. Held(p, k, O, in, host[p], acked)
  <2>1. Own(acked) = {acked.c}
    BY <1>7 DEF Own
  <2> QED
    BY <1>5, <1>9, <1>11, <1>12, <1>13, <2>1 DEF Held
<1>15. PICK b \in Nat : /\ a <= b /\ InHand(taken, p, b) /\ taken.c.used
                        /\ ~Carries(f) => b = a
  BY ZenonT(40), <1>2, <1>6, <1>7, ReceivedKeeps
<1>16. taken.c = Received(acked.c, f) /\ taken.q = w.q /\ taken.h = w.h
  <2>1. taken = [acked EXCEPT !.c = Received(acked.c, f)]
    OBVIOUS
  <2> QED
    BY <1>9, <2>1 DEF Works
<1> HIDE DEF taken, f, w
<1>17. ASSUME Carries(f)  PROVE Held(p, k, O, in, host[p], taken)
  <2>1. Carried(p, acked.c, k, w.h, out)
    <3>1. Carried(p, w.c, k, w.h, out)
      BY <1>5 DEF Relays, Up
    <3> QED
      BY <1>10, <3>1 DEF Carried, Taking
  <2>2. a = Taking(acked.c, w.h) /\ acked.c.rcv_nxt = Plus(ConIss, 1 + a)
    BY <1>7, <1>9 DEF InHand
  <2>3. Relays(p, k, w.h, {acked.c}, Tail(out), in)
    BY <1>3, <1>12
  <2>4. out # <<>> /\ f = Head(out)
    BY DEF f
  <2>5. Relays(p, k, w.h, {taken.c}, Tail(out), in)
    BY <1>1, <1>2, <1>5, <1>6, <1>9, <1>11, <1>16, <1>17, <2>1, <2>2, <2>3, <2>4, ReceivedRelays, SMTT(30)
  <2>6. Own(taken) = {taken.c}
    BY <1>15 DEF Own
  <2> QED
    BY <1>3, <1>5, <1>11, <1>13, <1>16, <2>5, <2>6 DEF Held
<1>18. CASE f.data = <<>> /\ "fin" \notin f.fl
  <2>1. Handled(s, Finished(acked))
    BY <1>8, <1>18
  <2>2. Held(p, k, O, in, host[p], Finished(acked)) /\ InHand(Finished(acked), p, a)
    BY <1>5, <1>6, <1>7, <1>14, HeldFinished, FinishedKeeps
  <2> QED
    BY <1>1, <1>3, <2>1, <2>2, PutsBack
<1>19. CASE ~(f.data = <<>> /\ "fin" \notin f.fl)
  <2>1. Held(p, k, O, in, host[p], taken)
    BY <1>17, <1>19 DEF Carries
  <2>2. taken.c.nxt \in Seqs /\ {"ack"} \in SUBSET {"ack", "rst"}
    BY <1>15 DEF InHand, Works, TcpType
  <2>3. Held(p, k, O, in, host[p], told) /\ InHand(told, p, b) /\ told.c = taken.c
    BY <1>5, <1>15, <2>1, <2>2, HeldQuiet
  <2>4. told.c.used
    BY <1>15, <2>3
  <2> HIDE DEF told
  <2>5. PICK v \in tcp_flush_rx(told) : Handled(s, IF v.c.used THEN Finished(v) ELSE v)
    BY <1>8, <1>19
  <2>6. Held(p, k, O, in, host[p], v) /\ InHand(v, p, b)
    BY <1>5, <1>6, <2>3, <2>4, HeldFlush, FlushKeeps
  <2> DEFINE x == IF v.c.used THEN Finished(v) ELSE v
  <2>7. Held(p, k, O, in, host[p], x) /\ InHand(x, p, b)
    <3>1. CASE v.c.used
      BY <1>5, <1>6, <2>6, <3>1, HeldFinished, FinishedKeeps
    <3>2. CASE ~v.c.used
      BY <2>6, <3>2
    <3> QED
      BY <3>1, <3>2
  <2>8. Handled(s, x)
    BY <2>5
  <2> HIDE DEF x
  <2> QED
    BY <1>1, <1>3, <2>7, <2>8, PutsBack
<1> QED
  BY <1>18, <1>19

\* The answer to a segment that is nobody's carries nothing.
Answer == {g \in Segments : g.wnd = 0 /\ g.data = <<>> /\ g.fl \subseteq {"rst", "ack"}}

\* A frame that no connection is for is answered with a reset or not at all.
LEMMA ResetGrows ==
  ASSUME NEW q \in Seq(Segments), NEW f \in Segments
  PROVE  Grown(q, ResetFor(q, f), Answer)
<1> DEFINE n == Len(f.data) + Cardinality(f.fl \cap {"syn", "fin"})
           g == [port |-> f.port, fl |-> IF "ack" \in f.fl THEN {"rst"} ELSE {"rst", "ack"},
                 seq |-> IF "ack" \in f.fl THEN f.ack ELSE 0,
                 ack |-> IF "ack" \in f.fl THEN 0 ELSE Plus(f.seq, n),
                 wnd |-> 0, data |-> <<>>]
<1>1. f.port \in Ports /\ f.ack \in Seqs /\ f.seq \in Int /\ Len(f.data) \in Nat /\ 0 \in Seqs
  BY SeqsAre, PeersAssumption DEF Segments, Seqs
<1>2. n \in Int
  <2> DEFINE S == f.fl \cap {"syn", "fin"}
  <2> DEFINE E == {} \cup {"syn"} \cup {"fin"}
  <2>1. IsFiniteSet(E)
    BY FS_EmptySet, FS_AddElement
  <2>2. S \subseteq E
    OBVIOUS
  <2> HIDE DEF S, E
  <2>3. Cardinality(S) \in Nat
    BY <2>1, <2>2, FS_Subset, FS_CardinalityType
  <2> QED
    BY <1>1, <2>3 DEF S
<1> HIDE DEF n
<1>3. Plus(f.seq, n) \in Seqs
  BY <1>1, <1>2, SeqType
<1>4. g \in Segments /\ g.wnd = 0 /\ g.data = <<>> /\ g.fl \subseteq {"rst", "ack"}
  BY <1>1, <1>3 DEF Segments
<1>5. ResetFor(q, f) = IF "rst" \in f.fl THEN q ELSE deliver(q, g)
  BY DEF ResetFor, n
<1> HIDE DEF g
<1>6. Grown(q, q, Answer) /\ Grown(q, deliver(q, g), Answer)
  <2>1. g \in Answer
    BY <1>4 DEF Answer
  <2> QED
    BY <1>4, <2>1, GrownSame, DeliverGrows
<1> QED
  BY <1>5, <1>6

LEMMA RefusedRelays ==
  ASSUME IInv, IInv', RInv, out # <<>>, NEW f, f = Head(out), Takes(f), Refused(f)
  PROVE  RInv'
<1>1. out' = Tail(out) /\ UNCHANGED <<con, tcp, host>> /\ in' = ResetFor(in, f)
  BY DEF Takes, Refused
<1>2. /\ out \in Seq(Segments) /\ in \in Seq(Segments) /\ in' \in Seq(Segments)
      /\ host \in [Ports -> HostType]
  BY DEF IInv, Types
<1>3. f \in Segments
  BY <1>2, TailRange
<1>4. PICK J \in Seq(Segments) : J = in' /\ Grown(in, J, Answer)
  BY <1>1, <1>2, <1>3, ResetGrows
<1>5. ASSUME NEW p \in Ports  PROVE Relays(p, con'[p], host'[p], Conns(p)', out', in')
  <2>1. Conns(p)' = Conns(p)
    BY <1>1 DEF Conns, SlotsOf
  <2>2. /\ Sound(con[p]) /\ host[p] \in HostType
        /\ \A c, e \in Conns(p) : c = e
    BY <1>2, ConSound, ConnsOne
  <2>3. Relays(p, con[p], host[p], Conns(p), Tail(out), in)
    BY <1>2, PopsRelays DEF RInv
  <2>4. \A g \in Answer : g \in Segments /\ Fresh(p, con[p], host[p], Conns(p), g)
    <3> SUFFICES ASSUME NEW g \in Answer
                 PROVE  g \in Segments /\ Fresh(p, con[p], host[p], Conns(p), g)
      OBVIOUS
    <3>1. g \in Segments /\ g.wnd = 0 /\ ~Carries(g) /\ "syn" \notin g.fl
      BY DEF Answer, Carries
    <3>2. 0 <= TcpBuf
      BY Numbers
    <3> QED
      BY <3>1, <3>2 DEF Fresh
  <2>5. Relays(p, con[p], host[p], Conns(p), Tail(out), J)
    BY <1>2, <1>4, <2>2, <2>3, <2>4, GrowsRelays
  <2> QED
    BY <1>1, <1>4, <2>1, <2>5
<1> QED
  BY <1>5, NextRelays

\* A connection that has just been opened.
OpenedConn(p, f, iss, sock) ==
  [FreeTcp EXCEPT !.used = TRUE, !.connecting = TRUE, !.sock = sock, !.port = p, !.iss = iss,
                  !.una = iss, !.nxt = iss, !.tx_seq = Plus(iss, 1), !.rcv_nxt = Plus(f.seq, 1),
                  !.wnd = f.wnd]
NewHost == [NoHost EXCEPT !.st = "connecting"]

\* A SYN opens a connection.
LEMMA OpensRelays ==
  ASSUME NEW p \in Ports, NEW k, Sound(k), NEW h, NEW O \in Seq(Segments), O # <<>>,
         NEW f, f = Head(O), f.port = p, f.fl = {"syn"}, NEW I \in Seq(Segments),
         Relays(p, k, h, {}, O, I), NEW iss, NEW sock
  PROVE  /\ Relays(p, k, NewHost, {OpenedConn(p, f, iss, sock)}, Tail(O), I)
         /\ k.got = <<>> /\ ~k.fin /\ ~h.shut
<1> DEFINE c == OpenedConn(p, f, iss, sock)
           g == NewHost
           P == Tail(O)
<1>1. /\ c.connecting /\ c.una = iss /\ c.nxt = iss /\ c.iss = iss /\ c.tx_seq = Plus(iss, 1)
      /\ ~c.syn_acked /\ c.tx = <<>> /\ c.rx = <<>> /\ ~c.host_eof /\ ~c.console_fin
  BY DEF OpenedConn, FreeTcp
<1>2. g.took = 0 /\ g.wrote = 0 /\ ~g.ended /\ g.got = <<>> /\ ~g.shut
  BY DEF NewHost, NoHost
<1>3. f \in Range(O) /\ Range(P) \subseteq Range(O) /\ P \in Seq(Segments)
  BY TailRange
<1> HIDE DEF c, g, P
<1>4. Syns(p, O) # {} /\ Opened(p, k, O)
  BY <1>3 DEF Syns, Opened
<1>5. k.st # "up" /\ \A e \in Range(O) : e.port = p => ~Plain(e)
  BY <1>4 DEF Relays, Met
<1>6. k.got = <<>> /\ ~k.fin /\ ~h.shut /\ Telling(p, k)
  BY <1>4 DEF Relays, Up
<1>7. Awaits(k) = 1
  BY <1>6, AwaitsIs
<1>8. Bound(p, P) = {}
  BY <1>3, <1>5 DEF Relays, Spoken, Bound
<1>9. Spoken(p, k, P)
  <2>1. Relays(p, k, h, {}, P, I)
    BY PopsRelays DEF P
  <2> QED
    BY <2>1 DEF Relays
<1>10. Met(p, k, {c}, P)
  BY <1>3, <1>5 DEF Met
<1>11. Source(p, g)
  BY <1>2, Numbers DEF Source
<1>12. Len(<<>>) = 0 /\ \A n : Follows(<<>>, n)
  BY DEF Follows
<1>13. ASSUME k.st # "gone"  PROVE Down(p, k, g, {c}, P, I)
  <2>1. Bound(p, I) = {} /\ (Early(k) => Syns(p, I) = {})
    BY <1>4, <1>13 DEF Relays, Down
  <2>2. InTurn(p, k, I)
    <3>1. ASSUME NEW i \in 1 .. Len(I), I[i].port = p, Carries(I[i])  PROVE FALSE
      BY <2>1, <3>1, RangeOf DEF Bound
    <3> QED
      BY <3>1 DEF InTurn
  <2>3. Acks(p, k, Low(c, k), P)
    <3>1. \A e \in Range(P) : e.port = p => ~Plain(e)
      BY <1>3, <1>5
    <3>2. ASSUME NEW i \in 1 .. Len(P), P[i].port = p, Plain(P[i])  PROVE FALSE
      BY <1>3, <3>1, <3>2, RangeOf
    <3> QED
      BY <3>1, <3>2 DEF Acks
  <2>4. Greeting(c, g)
    BY <1>1, <1>2, <1>12 DEF Greeting
  <2>5. Joined(p, c, k, g, P, I)
    BY <1>1, <1>5, <1>7, <2>1, <2>3, <2>4 DEF Joined
  <2>6. /\ Follows(k.got, 0) /\ Len(k.got) <= g.took /\ g.took < Awaits(k) + TcpBuf
    <3>1. 0 <= 0 /\ 0 < 1 + TcpBuf
      BY Numbers
    <3> QED
      BY <1>2, <1>6, <1>7, <1>12, <3>1
  <2>7. \A e \in Bound(p, I) : Placed(e, k, g)
    BY <2>1
  <2>8. \A e \in {c} : Joined(p, e, k, g, P, I) /\ ~e.syn_acked
    BY <1>1, <2>5
  <2> QED
    BY <1>7, <2>1, <2>2, <2>6, <2>7, <2>8 DEF Down
<1>14. Up(p, k, g, {c}, P)
  <2>1. Taking(c, g) = 0
    BY <1>1, <1>2, <1>12 DEF Taking
  <2>2. 0 <= Top(p, k) /\ 0 <= Sends[p] /\ 0 + 0 <= Sends[p]
    BY <1>6, TopNear
  <2>3. InOrder(p, 0, P)
    <3>1. ASSUME NEW i \in 1 .. Len(P), P[i].port = p, Carries(P[i])  PROVE FALSE
      BY <1>3, <1>8, <3>1, RangeOf DEF Bound
    <3> QED
      BY <3>1 DEF InOrder
  <2>4. Carried(p, c, k, g, P)
    BY <1>1, <1>2, <1>8, <1>12, <2>1, <2>2, <2>3 DEF Carried
  <2> QED
    BY <1>2, <1>6, <1>12, <2>2, <2>4 DEF Up
<1>15. Relays(p, k, g, {c}, P, I)
  BY <1>9, <1>10, <1>11, <1>13, <1>14 DEF Relays
<1> QED
  BY <1>6, <1>15 DEF c, g, P

\* A connection is opened, for a console that has had nothing yet.
LEMMA OpenRelays ==
  ASSUME IInv, RInv, out # <<>>, NEW f, f = Head(out), tcp_open(f)
  PROVE  /\ RInv' /\ f.port \in Ports /\ host' = [host EXCEPT ![f.port] = NewHost]
         /\ con[f.port].got = <<>> /\ ~con[f.port].fin
         /\ host[f.port].got = <<>> /\ ~host[f.port].shut
<1>1. PICK p : p = f.port
  OBVIOUS
<1>2. /\ out' = Tail(out) /\ con' = con /\ in' = in
      /\ SlotsOf(p) = {} /\ f.fl = {"syn"} /\ FreeSlots # {}
      /\ host' = [host EXCEPT ![p] = NewHost]
  BY <1>1 DEF tcp_open, Takes, NewHost
<1>3. /\ out \in Seq(Segments) /\ in \in Seq(Segments) /\ host \in [Ports -> HostType]
      /\ tcp \in [Slots -> TcpType]
  BY DEF IInv, Types
<1>4. f \in Segments /\ p \in Ports
  <2>1. f \in Segments
    BY <1>3, TailRange
  <2> QED
    BY <1>1, <2>1 DEF Segments
<1>5. PICK s : s = Min(FreeSlots)
  OBVIOUS
<1>6. s \in Slots /\ ~tcp[s].used
  <2>1. FreeSlots \subseteq Nat
    BY Numbers DEF FreeSlots, Slots
  <2> QED
    BY <1>2, <1>5, <2>1, LeastOf DEF FreeSlots
<1>7. PICK iss \in Iss, sock \in Socks :
        tcp' = [tcp EXCEPT ![s] =
                 [FreeTcp EXCEPT !.used = TRUE, !.connecting = TRUE, !.sock = sock,
                                 !.port = p, !.iss = iss, !.una = iss, !.nxt = iss,
                                 !.tx_seq = Plus(iss, 1), !.rcv_nxt = Plus(f.seq, 1),
                                 !.wnd = f.wnd]]
  BY ZenonT(40), <1>1, <1>5 DEF tcp_open
<1>8. PICK c : c = OpenedConn(p, f, iss, sock)
  OBVIOUS
<1>9. tcp' = [tcp EXCEPT ![s] = c]
  BY <1>7, <1>8 DEF OpenedConn
<1>10. c.used /\ c.port = p
  BY <1>8 DEF OpenedConn, FreeTcp
<1>11. tcp'[s] = c /\ \A t \in Slots : t # s => tcp'[t] = tcp[t]
  BY <1>3, <1>6, <1>9
<1>12. Conns(p) = {} /\ Conns(p)' = {c}
  <2>1. Conns(p) = {}
    BY <1>2 DEF Conns
  <2>2. Conns(p)' = {tcp'[t] : t \in SlotsOf(p)'}
    BY DEF Conns
  <2>3. SlotsOf(p)' = {t \in Slots : tcp'[t].used /\ tcp'[t].port = p}
    BY DEF SlotsOf
  <2>4. SlotsOf(p)' = {s}
    BY <1>2, <1>6, <1>10, <1>11, <2>3 DEF SlotsOf
  <2> QED
    BY <1>11, <2>1, <2>2, <2>4
<1>13. Sound(con[p]) /\ Relays(p, con[p], host[p], {}, out, in)
  BY <1>4, <1>12, ConSound DEF RInv
<1>14. /\ Relays(p, con[p], NewHost, {c}, Tail(out), in)
       /\ con[p].got = <<>> /\ ~con[p].fin /\ ~host[p].shut
  BY <1>1, <1>2, <1>3, <1>4, <1>8, <1>13, OpensRelays
<1>15. ASSUME NEW r \in Ports, r # p  PROVE Relays(r, con'[r], host'[r], Conns(r)', out', in')
  <2>1. host'[r] = host[r]
    BY <1>2, <1>3, <1>15
  <2>2. Conns(r)' = Conns(r)
    <3>1. /\ Conns(r)' = {tcp'[t] : t \in SlotsOf(r)'} /\ Conns(r) = {tcp[t] : t \in SlotsOf(r)}
          /\ SlotsOf(r)' = {t \in Slots : tcp'[t].used /\ tcp'[t].port = r}
          /\ SlotsOf(r) = {t \in Slots : tcp[t].used /\ tcp[t].port = r}
      BY DEF Conns, SlotsOf
    <3>2. SlotsOf(r)' = SlotsOf(r) /\ s \notin SlotsOf(r)
      BY <1>6, <1>10, <1>11, <1>15, <3>1
    <3>3. \A t \in SlotsOf(r) : tcp'[t] = tcp[t]
      BY <1>11, <3>1, <3>2
    <3> QED
      BY <3>1, <3>2, <3>3
  <2>3. Relays(r, con[r], host[r], Conns(r), out, in)
    BY DEF RInv
  <2>4. Relays(r, con[r], host[r], Conns(r), Tail(out), in)
    BY <1>3, <2>3, PopsRelays
  <2> QED
    BY <1>2, <2>1, <2>2, <2>4
<1>16. host'[p] = NewHost
  BY <1>2, <1>3, <1>4
<1>17. \A r \in Ports : Relays(r, con'[r], host'[r], Conns(r)', out', in')
  BY <1>2, <1>12, <1>14, <1>15, <1>16
<1>18. RInv'
  BY <1>17, NextRelays
<1>19. host[p].got = <<>>
  <2>1. f \in Range(out)
    BY <1>3, TailRange
  <2>2. Anew(p)
    BY <1>1, <1>2, <1>4, <2>1 DEF IInv, Opens, Opening
  <2> QED
    BY <2>2 DEF Anew
<1> QED
  BY <1>1, <1>2, <1>4, <1>14, <1>18, <1>19

\* What a step of the router does to the sockets: it gets on with one, or opens one anew
\* for a console that has had nothing.
Reopens(p) ==
  /\ con[p].got = <<>> /\ ~con[p].fin /\ host[p].got = <<>> /\ ~host[p].shut
  /\ host' = [host EXCEPT ![p] = NewHost]

\* All of the router's steps.
LEMMA RouterRelays ==
  ASSUME IInv, IInv', RInv, router_thread
  PROVE  RInv' /\ con' = con /\ (Furthers \/ \E p \in Ports : Reopens(p))
<1>1. CASE Select \/ FramesDone
  <2>1. UNCHANGED <<con, host, out, in, tcp>>
    BY <1>1 DEF Select, FramesDone, peerVars
  <2> QED
    BY <2>1, StillRelays DEF Furthers
<1>2. CASE out # <<>> /\ tcp_in(Head(out))
  <2>0. con' = con
    BY <1>2 DEF tcp_in, InUnknown, InRefused, tcp_open, InReset, InSynAgain,
                InWhileConnecting, InSegment, Takes
  <2>1. CASE InUnknown(Head(out)) \/ InRefused(Head(out))
    <3>1. Takes(Head(out)) /\ Refused(Head(out))
      BY <2>1 DEF InUnknown, InRefused
    <3>2. host' = host
      BY <3>1 DEF Refused
    <3> QED
      BY <1>2, <2>0, <3>1, <3>2, RefusedRelays DEF Furthers
  <2>2. CASE tcp_open(Head(out))
    <3>1. PICK f : f = Head(out)
      OBVIOUS
    <3>2. /\ RInv' /\ f.port \in Ports /\ host' = [host EXCEPT ![f.port] = NewHost]
          /\ con[f.port].got = <<>> /\ ~con[f.port].fin
          /\ host[f.port].got = <<>> /\ ~host[f.port].shut
      BY <1>2, <2>2, <3>1, OpenRelays
    <3> QED
      BY <2>0, <3>2 DEF Reopens
  <2>3. ASSUME NEW s \in Slots, \/ InReset(s, Head(out)) \/ InSynAgain(s, Head(out))
                                \/ InWhileConnecting(s, Head(out)) \/ InSegment(s, Head(out))
        PROVE  RInv' /\ Furthers
    BY <1>2, <2>3, ResetRelays, SynAgainRelays, WhileConnectingRelays, SegmentRelays
  <2> QED
    BY <1>2, <2>0, <2>1, <2>2, <2>3 DEF tcp_in
<1>3. ASSUME NEW s \in Slots, tcp_service(s) \/ tcp_timers(s)
      PROVE  RInv' /\ con' = con /\ Furthers
  <2>1. con' = con
    BY <1>3 DEF tcp_service, tcp_timers, GoBack, Idle, NextSlot
  <2> QED
    BY <1>3, <2>1, ServiceRelays, TimersRelays
<1> QED
  BY <1>1, <1>2, <1>3 DEF router_thread

\* Every step keeps it.
LEMMA NextKeepsRelays == IInv /\ IInv' /\ RInv /\ [Next]_vars => RInv'
<1> SUFFICES ASSUME IInv, IInv', RInv, [Next]_vars  PROVE RInv'
  OBVIOUS
<1>1. CASE UNCHANGED vars
  BY <1>1, StillRelays DEF vars
<1>2. CASE router_thread
  BY <1>2, RouterRelays
<1>3. CASE Console /\ UNCHANGED <<tcp, loop>>
  BY <1>3, ConsoleStepsRelay
<1>4. CASE FarSide /\ UNCHANGED <<tcp, loop>>
  BY <1>4, FarRelays
<1> QED
  BY <1>1, <1>2, <1>3, <1>4 DEF Next

\* Whatever the title and the far side do, what is said of either way between them holds.
THEOREM RelayInvariant == Spec => []RInv
  BY InitRelays, Inductive, Invariant, NextKeepsRelays, PTL DEF Spec

\* The bytes of a segment on its way to the console end within the window the console has,
\* however long the segment has been in the queue (tcp_pump, xbox_net_nat.c:796-828).
THEOREM SentFitting == Spec => []SentFits
<1>1. ASSUME IInv, RInv, NEW i \in DOMAIN in, in[i].data # <<>>, con[in[i].port].st = "up"
      PROVE  seq_le(Plus(in[i].seq, Len(in[i].data)),
                    Plus(Expects(con[in[i].port]), Room(con[in[i].port])))
  <2>1. PICK f, p, k, h : f = in[i] /\ p = f.port /\ k = con[p] /\ h = host[p]
    OBVIOUS
  <2>2. f \in Range(in) /\ f \in Segments
    <3>1. in \in Seq(Segments)
      BY <1>1 DEF IInv, Types
    <3> QED
      BY <1>1, <2>1, <3>1, RangeOf
  <2>3. p \in Ports /\ Sound(k) /\ k.st = "up" /\ f.data # <<>>
    <3>1. p \in Ports
      BY <2>1, <2>2 DEF Segments
    <3> QED
      BY <1>1, <2>1, <3>1, ConSound
  <2>4. Placed(f, k, h)
    <3>1. f \in Bound(p, in)
      BY <2>1, <2>2, <2>3 DEF Bound, Carries
    <3>2. Relays(p, k, h, Conns(p), out, in)
      BY <1>1, <2>1, <2>3 DEF RInv
    <3> QED
      BY <2>3, <3>1, <3>2 DEF Relays, Down
  <2>5. /\ Place(k, f.seq) + Len(f.data) <= Edge(k) /\ Awaits(k) <= Place(k, f.seq) + Reach
    BY <2>3, <2>4 DEF Placed
  <2>6. /\ f.seq \in Seqs /\ Len(f.data) \in Nat
    BY <2>2, FrameLens
  <2>7. Place(k, f.seq) \in Int /\ Plus(k.riss, Place(k, f.seq)) = f.seq
    BY <2>3, <2>6, PlaceOf
  <2>8. /\ Awaits(k) \in Nat /\ Room(k) \in Nat /\ Room(k) <= ConBuf /\ k.riss \in Int
        /\ Edge(k) = Awaits(k) + Room(k) /\ Expects(k) = Plus(k.riss, Awaits(k))
    BY <2>3, AwaitsIs
  <2>9. PICK g \in Int, n \in Nat, a \in Nat, m \in Nat, r \in Int :
          g = Place(k, f.seq) /\ n = Len(f.data) /\ a = Awaits(k) /\ m = Room(k) /\ r = k.riss
    BY <2>6, <2>7, <2>8
  <2>10. PICK e \in Int, j \in Int : e = g + n /\ j = a + m
    OBVIOUS
  <2>11. g + n <= a + m /\ a <= g + (TcpBuf + 2) /\ m <= ConBuf
    BY <2>5, <2>8, <2>9, Windows
  <2>12. e <= j /\ -SeqSpace < 2 * (e - j) /\ 2 * (e - j) < SeqSpace
    <3>1. TcpBuf \in Nat /\ ConBuf \in Nat /\ SeqSpace \in Nat /\ 2 * TcpBuf + 2 * ConBuf + 6 <= SeqSpace
      BY Windows
    <3> QED
      BY <2>10, <2>11, <3>1
  <2>13. seq_le(Plus(r, e), Plus(r, j))
    BY <2>12, Apart
  <2>14. Plus(f.seq, n) = Plus(r, e) /\ Plus(Expects(k), m) = Plus(r, j)
    <3>1. Plus(Plus(r, g), n) = Plus(r, g + n) /\ Plus(Plus(r, a), m) = Plus(r, a + m)
      BY PlusPlus
    <3> QED
      BY <2>7, <2>8, <2>9, <2>10, <3>1
  <2> QED
    BY <2>1, <2>9, <2>13, <2>14
<1>2. IInv /\ RInv => SentFits
  BY <1>1 DEF SentFits
<1> QED
  BY <1>2, Invariant, RelayInvariant, PTL

---------------------------------------------------------------------------
(* The relay keeps its promise *)

\* What the two ways of a port are in a view of all pipes.
LEMMA PipeIs ==
  ASSUME NEW p \in Ports, NEW u, NEW d
  PROVE  /\ <<p, "up">> \in Pipes /\ <<p, "down">> \in Pipes
         /\ Pipe(u, d)[<<p, "up">>] = u[p] /\ Pipe(u, d)[<<p, "down">>] = d[p]
  BY DEF Pipe, Pipes

LEMMA PipeSame ==
  ASSUME NEW u, NEW d, NEW v, NEW e, \A p \in Ports : v[p] = u[p] /\ e[p] = d[p]
  PROVE  Pipe(v, e) = Pipe(u, d)
  BY DEF Pipe, Pipes

LEMMA PipeSet ==
  ASSUME NEW p \in Ports, NEW u, NEW d, NEW v, NEW e,
         \A r \in Ports : r # p => v[r] = u[r] /\ e[r] = d[r]
  PROVE  Pipe(v, e) = [Pipe(u, d) EXCEPT ![<<p, "up">>] = v[p], ![<<p, "down">>] = e[p]]
<1> DEFINE F == Pipe(u, d)
           G == Pipe(v, e)
<1>1. /\ F = [c \in Pipes |-> F[c]] /\ G = [c \in Pipes |-> G[c]]
      /\ \A r \in Ports : /\ F[<<r, "up">>] = u[r] /\ F[<<r, "down">>] = d[r]
                          /\ G[<<r, "up">>] = v[r] /\ G[<<r, "down">>] = e[r]
  BY PipeIs DEF Pipe
<1> HIDE DEF F, G
<1>2. ASSUME NEW c \in Pipes
      PROVE  G[c] = [F EXCEPT ![<<p, "up">>] = v[p], ![<<p, "down">>] = e[p]][c]
  <2>1. PICK r \in Ports, s \in {"up", "down"} : c = <<r, s>>
    BY DEF Pipes
  <2>2. CASE r = p
    <3>1. /\ <<p, "up">> # <<p, "down">> /\ <<p, "up">> \in Pipes /\ <<p, "down">> \in Pipes
          /\ G[<<p, "up">>] = v[p] /\ G[<<p, "down">>] = e[p]
      BY <1>1, PipeIs
    <3>2. [F EXCEPT ![<<p, "up">>] = v[p], ![<<p, "down">>] = e[p]][<<p, "up">>] = v[p]
      BY <1>1, <3>1
    <3>3. [F EXCEPT ![<<p, "up">>] = v[p], ![<<p, "down">>] = e[p]][<<p, "down">>] = e[p]
      BY <1>1, <3>1
    <3> QED
      BY <2>1, <2>2, <3>1, <3>2, <3>3
  <2>3. CASE r # p
    <3>1. c # <<p, "up">> /\ c # <<p, "down">>
      BY <2>1, <2>3
    <3>2. G[c] = F[c]
      BY <1>1, <2>1, <2>3, ZenonT(40)
    <3> QED
      BY <1>1, <1>2, <3>1, <3>2
  <2> QED
    BY <2>2, <2>3
<1>3. DOMAIN [F EXCEPT ![<<p, "up">>] = v[p], ![<<p, "down">>] = e[p]] = Pipes
  BY <1>1
<1> QED
  BY <1>1, <1>2, <1>3 DEF F, G

\* The five things the promise sees, and those of one port's two ends.
Put == Pipe(Sends, [p \in Ports |-> host[p].wrote])
Finishes == Pipe([p \in Ports |-> con[p].shut], [p \in Ports |-> host[p].ended])
Breaks == Pipe([p \in Ports |-> con[p].st = "gone"],
               [p \in Ports |-> host[p].st \in {"reset", "refused"}])
Gives == Pipe([p \in Ports |-> host[p].got], [p \in Ports |-> con[p].got])
Closes == Pipe([p \in Ports |-> host[p].shut], [p \in Ports |-> con[p].fin])

Changes(p, g, l) ==
  /\ \A r \in Ports : host'[r] = IF r = p THEN g ELSE host[r]
  /\ \A r \in Ports : con'[r] = IF r = p THEN l ELSE con[r]

\* The views of one port's two ways, and what a step of its ends does to them.
LEMMA SeenIs ==
  ASSUME NEW p \in Ports
  PROVE  /\ Put[<<p, "up">>] = Sends[p] /\ Put[<<p, "down">>] = host[p].wrote
         /\ Finishes[<<p, "up">>] = con[p].shut /\ Finishes[<<p, "down">>] = host[p].ended
         /\ Breaks[<<p, "up">>] = (con[p].st = "gone")
         /\ Breaks[<<p, "down">>] = (host[p].st \in {"reset", "refused"})
         /\ Gives[<<p, "up">>] = host[p].got /\ Gives[<<p, "down">>] = con[p].got
         /\ Closes[<<p, "up">>] = host[p].shut /\ Closes[<<p, "down">>] = con[p].fin
<1>1. Put[<<p, "up">>] = Sends[p] /\ Put[<<p, "down">>] = host[p].wrote
  BY DEF Put, Pipe, Pipes
<1>2. Finishes[<<p, "up">>] = con[p].shut /\ Finishes[<<p, "down">>] = host[p].ended
  BY DEF Finishes, Pipe, Pipes
<1>3. /\ Breaks[<<p, "up">>] = (con[p].st = "gone")
      /\ Breaks[<<p, "down">>] = (host[p].st \in {"reset", "refused"})
  BY DEF Breaks, Pipe, Pipes
<1>4. Gives[<<p, "up">>] = host[p].got /\ Gives[<<p, "down">>] = con[p].got
  BY DEF Gives, Pipe, Pipes
<1>5. Closes[<<p, "up">>] = host[p].shut /\ Closes[<<p, "down">>] = con[p].fin
  BY DEF Closes, Pipe, Pipes
<1> QED
  BY <1>1, <1>2, <1>3, <1>4, <1>5

LEMMA SeenPipes ==
  /\ Put = [c \in Pipes |-> Put[c]] /\ Finishes = [c \in Pipes |-> Finishes[c]]
  /\ Breaks = [c \in Pipes |-> Breaks[c]] /\ Gives = [c \in Pipes |-> Gives[c]]
  /\ Closes = [c \in Pipes |-> Closes[c]]
<1>1. ASSUME NEW u, NEW d  PROVE Pipe(u, d) = [c \in Pipes |-> Pipe(u, d)[c]]
  BY DEF Pipe
<1> QED
  BY <1>1 DEF Put, Finishes, Breaks, Gives, Closes

LEMMA SeenMoves ==
  ASSUME NEW p \in Ports, NEW g, NEW l, Changes(p, g, l)
  PROVE  /\ Put' = [Put EXCEPT ![<<p, "up">>] = Sends[p], ![<<p, "down">>] = g.wrote]
         /\ Finishes' = [Finishes EXCEPT ![<<p, "up">>] = l.shut, ![<<p, "down">>] = g.ended]
         /\ Breaks' = [Breaks EXCEPT ![<<p, "up">>] = (l.st = "gone"),
                                     ![<<p, "down">>] = (g.st \in {"reset", "refused"})]
         /\ Gives' = [Gives EXCEPT ![<<p, "up">>] = g.got, ![<<p, "down">>] = l.got]
         /\ Closes' = [Closes EXCEPT ![<<p, "up">>] = g.shut, ![<<p, "down">>] = l.fin]
<1>1. Put' = [Put EXCEPT ![<<p, "up">>] = Sends[p], ![<<p, "down">>] = g.wrote]
  <2> DEFINE d == [r \in Ports |-> host[r].wrote]
             e == [r \in Ports |-> host'[r].wrote]
  <2>1. e[p] = g.wrote /\ \A r \in Ports : r # p => e[r] = d[r]
    BY DEF Changes
  <2>2. Put = Pipe(Sends, d) /\ Put' = Pipe(Sends, e)
    BY DEF Put
  <2> HIDE DEF d, e
  <2> QED
    BY <2>1, <2>2, PipeSet
<1>2. Finishes' = [Finishes EXCEPT ![<<p, "up">>] = l.shut, ![<<p, "down">>] = g.ended]
  <2> DEFINE u == [r \in Ports |-> con[r].shut]
             v == [r \in Ports |-> con'[r].shut]
             d == [r \in Ports |-> host[r].ended]
             e == [r \in Ports |-> host'[r].ended]
  <2>1. /\ v[p] = l.shut /\ e[p] = g.ended
        /\ \A r \in Ports : r # p => v[r] = u[r] /\ e[r] = d[r]
    BY DEF Changes
  <2>2. Finishes = Pipe(u, d) /\ Finishes' = Pipe(v, e)
    BY DEF Finishes
  <2> HIDE DEF u, v, d, e
  <2> QED
    BY <2>1, <2>2, PipeSet
<1>3. Breaks' = [Breaks EXCEPT ![<<p, "up">>] = (l.st = "gone"),
                               ![<<p, "down">>] = (g.st \in {"reset", "refused"})]
  <2> DEFINE u == [r \in Ports |-> con[r].st = "gone"]
             v == [r \in Ports |-> con'[r].st = "gone"]
             d == [r \in Ports |-> host[r].st \in {"reset", "refused"}]
             e == [r \in Ports |-> host'[r].st \in {"reset", "refused"}]
  <2>1. /\ v[p] = (l.st = "gone") /\ e[p] = (g.st \in {"reset", "refused"})
        /\ \A r \in Ports : r # p => v[r] = u[r] /\ e[r] = d[r]
    BY DEF Changes
  <2>2. Breaks = Pipe(u, d) /\ Breaks' = Pipe(v, e)
    BY DEF Breaks
  <2> HIDE DEF u, v, d, e
  <2>3. Pipe(v, e) = [Pipe(u, d) EXCEPT ![<<p, "up">>] = v[p], ![<<p, "down">>] = e[p]]
    BY <2>1, PipeSet
  <2> QED
    BY <2>1, <2>2, <2>3
<1>4. Gives' = [Gives EXCEPT ![<<p, "up">>] = g.got, ![<<p, "down">>] = l.got]
  <2> DEFINE u == [r \in Ports |-> host[r].got]
             v == [r \in Ports |-> host'[r].got]
             d == [r \in Ports |-> con[r].got]
             e == [r \in Ports |-> con'[r].got]
  <2>1. /\ v[p] = g.got /\ e[p] = l.got
        /\ \A r \in Ports : r # p => v[r] = u[r] /\ e[r] = d[r]
    BY DEF Changes
  <2>2. Gives = Pipe(u, d) /\ Gives' = Pipe(v, e)
    BY DEF Gives
  <2> HIDE DEF u, v, d, e
  <2> QED
    BY <2>1, <2>2, PipeSet
<1>5. Closes' = [Closes EXCEPT ![<<p, "up">>] = g.shut, ![<<p, "down">>] = l.fin]
  <2> DEFINE u == [r \in Ports |-> host[r].shut]
             v == [r \in Ports |-> host'[r].shut]
             d == [r \in Ports |-> con[r].fin]
             e == [r \in Ports |-> con'[r].fin]
  <2>1. /\ v[p] = g.shut /\ e[p] = l.fin
        /\ \A r \in Ports : r # p => v[r] = u[r] /\ e[r] = d[r]
    BY DEF Changes
  <2>2. Closes = Pipe(u, d) /\ Closes' = Pipe(v, e)
    BY DEF Closes
  <2> HIDE DEF u, v, d, e
  <2> QED
    BY <2>1, <2>2, PipeSet
<1> QED
  BY <1>1, <1>2, <1>3, <1>4, <1>5

\* The promise's steps in these terms.
LEMMA Promises ==
  ASSUME NEW d \in Pipes
  PROVE  /\ ~Finishes[d] /\ ~Breaks[d] /\ Put' = [Put EXCEPT ![d] = Put[d] + 1]
            /\ Finishes' = Finishes /\ Breaks' = Breaks /\ Gives' = Gives /\ Closes' = Closes
              => R!Write(d)
         /\ ~Finishes[d] /\ ~Breaks[d] /\ Finishes' = [Finishes EXCEPT ![d] = TRUE]
            /\ Put' = Put /\ Breaks' = Breaks /\ Gives' = Gives /\ Closes' = Closes
              => R!End(d)
         /\ Breaks' = [Breaks EXCEPT ![d] = TRUE]
            /\ Put' = Put /\ Finishes' = Finishes /\ Gives' = Gives /\ Closes' = Closes
              => R!Break(d)
         /\ Gives[d] = <<>> /\ ~Closes[d] /\ Put' = [Put EXCEPT ![d] = 0]
            /\ Finishes' = [Finishes EXCEPT ![d] = FALSE]
            /\ Breaks' = [Breaks EXCEPT ![d] = FALSE] /\ Gives' = Gives /\ Closes' = Closes
              => R!Retry(d)
<1>1. /\ ~Finishes[d] /\ ~Breaks[d] /\ Put' = [Put EXCEPT ![d] = Put[d] + 1]
         /\ Finishes' = Finishes /\ Breaks' = Breaks /\ Gives' = Gives /\ Closes' = Closes
           => R!Write(d)
  BY DEF R!Write, Put, Finishes, Breaks, Gives, Closes
<1>2. /\ ~Finishes[d] /\ ~Breaks[d] /\ Finishes' = [Finishes EXCEPT ![d] = TRUE]
         /\ Put' = Put /\ Breaks' = Breaks /\ Gives' = Gives /\ Closes' = Closes
           => R!End(d)
  BY DEF R!End, Put, Finishes, Breaks, Gives, Closes
<1>3. /\ Breaks' = [Breaks EXCEPT ![d] = TRUE]
         /\ Put' = Put /\ Finishes' = Finishes /\ Gives' = Gives /\ Closes' = Closes
           => R!Break(d)
  BY DEF R!Break, Put, Finishes, Breaks, Gives, Closes
<1>4. /\ Gives[d] = <<>> /\ ~Closes[d] /\ Put' = [Put EXCEPT ![d] = 0]
         /\ Finishes' = [Finishes EXCEPT ![d] = FALSE]
         /\ Breaks' = [Breaks EXCEPT ![d] = FALSE] /\ Gives' = Gives /\ Closes' = Closes
           => R!Retry(d)
  BY DEF R!Retry, Put, Finishes, Breaks, Gives, Closes
<1> QED
  BY <1>1, <1>2, <1>3, <1>4

\* Bytes that come out, and an end with them, are one step of the promise.
LEMMA PromisesCarry ==
  ASSUME NEW d \in Pipes, ~Closes[d], NEW n \in Len(Gives[d]) .. Put[d],
         Gives' = [Gives EXCEPT ![d] = [i \in 1 .. n |-> i]],
         \/ Closes' = Closes
         \/ /\ (Finishes[d] /\ n = Put[d]) \/ Breaks[d]
            /\ Closes' = [Closes EXCEPT ![d] = TRUE],
         Put' = Put, Finishes' = Finishes, Breaks' = Breaks, n \in Nat
  PROVE  R!Carry(d)
<1>1. Len(Gives'[d]) = n
  <2>1. Gives'[d] = [i \in 1 .. n |-> i]
    BY SeenPipes
  <2> QED
    BY <2>1
<1>2. \E m \in Len(Gives[d]) .. Put[d] : Gives' = [Gives EXCEPT ![d] = [i \in 1 .. m |-> i]]
  OBVIOUS
<1>3. \/ Closes' = Closes
      \/ /\ (Finishes[d] /\ Len(Gives'[d]) = Put[d]) \/ Breaks[d]
         /\ Closes' = [Closes EXCEPT ![d] = TRUE]
  BY <1>1
<1> QED
  BY <1>2, <1>3 DEF R!Carry, Put, Finishes, Breaks, Gives, Closes

\* A port's two pipes become x and y, and one of them may stay as it was.
Moved(p, F, G, x, y) == G = [F EXCEPT ![<<p, "up">>] = x, ![<<p, "down">>] = y]

\* A view of which one way changes, or none.
LEMMA PipeStays ==
  ASSUME NEW p \in Ports, NEW F, F = [c \in Pipes |-> F[c]], NEW x, NEW y, NEW G,
         Moved(p, F, G, x, y)
  PROVE  /\ x = F[<<p, "up">>] => G = [F EXCEPT ![<<p, "down">>] = y]
         /\ y = F[<<p, "down">>] => G = [F EXCEPT ![<<p, "up">>] = x]
         /\ x = F[<<p, "up">>] /\ y = F[<<p, "down">>] => G = F
<1>0. G = [F EXCEPT ![<<p, "up">>] = x, ![<<p, "down">>] = y]
  BY DEF Moved
<1>1. <<p, "up">> \in Pipes /\ <<p, "down">> \in Pipes /\ <<p, "up">> # <<p, "down">>
  BY PipeIs
<1>2. [F EXCEPT ![<<p, "up">>] = F[<<p, "up">>]] = F
      /\ [F EXCEPT ![<<p, "down">>] = F[<<p, "down">>]] = F
  BY <1>1
<1>3. x = F[<<p, "up">>] => G = [F EXCEPT ![<<p, "down">>] = y]
  BY <1>0, <1>1, <1>2
<1>4. y = F[<<p, "down">>] => G = [F EXCEPT ![<<p, "up">>] = x]
  BY <1>0, <1>1, <1>2
<1> QED
  BY <1>0, <1>2, <1>3, <1>4

\* What the change of a port's socket, or of its console, leaves as it was.
LEMMA SeenFar ==
  ASSUME NEW p \in Ports, NEW g, Changes(p, g, con[p])
  PROVE  /\ IF g.wrote = host[p].wrote THEN Put' = Put
            ELSE Put' = [Put EXCEPT ![<<p, "down">>] = g.wrote]
         /\ IF g.ended = host[p].ended THEN Finishes' = Finishes
            ELSE Finishes' = [Finishes EXCEPT ![<<p, "down">>] = g.ended]
         /\ IF Broke(g) <=> Broke(host[p]) THEN Breaks' = Breaks
            ELSE Breaks' = [Breaks EXCEPT ![<<p, "down">>] = Broke(g)]
         /\ IF g.got = host[p].got THEN Gives' = Gives
            ELSE Gives' = [Gives EXCEPT ![<<p, "up">>] = g.got]
         /\ IF g.shut = host[p].shut THEN Closes' = Closes
            ELSE Closes' = [Closes EXCEPT ![<<p, "up">>] = g.shut]
<1> DEFINE up == <<p, "up">>
           down == <<p, "down">>
           k == con[p]
           h == host[p]
<1>1. /\ Put[up] = Sends[p] /\ Put[down] = h.wrote
      /\ Finishes[up] = k.shut /\ Finishes[down] = h.ended
      /\ Breaks[up] = (k.st = "gone") /\ Breaks[down] = (h.st \in {"reset", "refused"})
      /\ Gives[up] = h.got /\ Gives[down] = k.got
      /\ Closes[up] = h.shut /\ Closes[down] = k.fin
  BY SeenIs
<1>2. /\ Moved(p, Put, Put', Sends[p], g.wrote)
      /\ Moved(p, Finishes, Finishes', k.shut, g.ended)
      /\ Moved(p, Breaks, Breaks', k.st = "gone", g.st \in {"reset", "refused"})
      /\ Moved(p, Gives, Gives', g.got, k.got)
      /\ Moved(p, Closes, Closes', g.shut, k.fin)
  BY SeenMoves DEF Moved
<1> HIDE DEF k, h
<1>3. IF g.wrote = h.wrote THEN Put' = Put ELSE Put' = [Put EXCEPT ![down] = g.wrote]
  BY <1>1, <1>2, SeenPipes, PipeStays
<1>4. IF g.ended = h.ended THEN Finishes' = Finishes
      ELSE Finishes' = [Finishes EXCEPT ![down] = g.ended]
  BY <1>1, <1>2, SeenPipes, PipeStays
<1>5. IF Broke(g) <=> Broke(h) THEN Breaks' = Breaks
      ELSE Breaks' = [Breaks EXCEPT ![down] = Broke(g)]
  BY <1>1, <1>2, SeenPipes, PipeStays DEF Broke
<1>6. IF g.got = h.got THEN Gives' = Gives ELSE Gives' = [Gives EXCEPT ![up] = g.got]
  BY <1>1, <1>2, SeenPipes, PipeStays
<1>7. IF g.shut = h.shut THEN Closes' = Closes
      ELSE Closes' = [Closes EXCEPT ![up] = g.shut]
  BY <1>1, <1>2, SeenPipes, PipeStays
<1> QED
  BY <1>3, <1>4, <1>5, <1>6, <1>7 DEF h

\* A step of the console's end alone.
LEMMA SeenNear ==
  ASSUME NEW p \in Ports, NEW l, Changes(p, host[p], l)
  PROVE  /\ Put' = Put
         /\ IF l.shut = con[p].shut THEN Finishes' = Finishes
            ELSE Finishes' = [Finishes EXCEPT ![<<p, "up">>] = l.shut]
         /\ IF (l.st = "gone") <=> (con[p].st = "gone") THEN Breaks' = Breaks
            ELSE Breaks' = [Breaks EXCEPT ![<<p, "up">>] = (l.st = "gone")]
         /\ IF l.got = con[p].got THEN Gives' = Gives
            ELSE Gives' = [Gives EXCEPT ![<<p, "down">>] = l.got]
         /\ IF l.fin = con[p].fin THEN Closes' = Closes
            ELSE Closes' = [Closes EXCEPT ![<<p, "down">>] = l.fin]
<1> DEFINE up == <<p, "up">>
           down == <<p, "down">>
           k == con[p]
           h == host[p]
<1>1. /\ Put[up] = Sends[p] /\ Put[down] = h.wrote
      /\ Finishes[up] = k.shut /\ Finishes[down] = h.ended
      /\ Breaks[up] = (k.st = "gone") /\ Breaks[down] = (h.st \in {"reset", "refused"})
      /\ Gives[up] = h.got /\ Gives[down] = k.got
      /\ Closes[up] = h.shut /\ Closes[down] = k.fin
  BY SeenIs
<1>2. /\ Moved(p, Put, Put', Sends[p], h.wrote)
      /\ Moved(p, Finishes, Finishes', l.shut, h.ended)
      /\ Moved(p, Breaks, Breaks', l.st = "gone", h.st \in {"reset", "refused"})
      /\ Moved(p, Gives, Gives', h.got, l.got)
      /\ Moved(p, Closes, Closes', h.shut, l.fin)
  BY SeenMoves DEF Moved
<1> HIDE DEF k, h
<1>3. Put' = Put
  BY <1>1, <1>2, SeenPipes, PipeStays
<1>4. IF l.shut = k.shut THEN Finishes' = Finishes
      ELSE Finishes' = [Finishes EXCEPT ![up] = l.shut]
  BY <1>1, <1>2, SeenPipes, PipeStays
<1>5. IF (l.st = "gone") <=> (k.st = "gone") THEN Breaks' = Breaks
      ELSE Breaks' = [Breaks EXCEPT ![up] = (l.st = "gone")]
  BY <1>1, <1>2, SeenPipes, PipeStays
<1>6. IF l.got = k.got THEN Gives' = Gives ELSE Gives' = [Gives EXCEPT ![down] = l.got]
  BY <1>1, <1>2, SeenPipes, PipeStays
<1>7. IF l.fin = k.fin THEN Closes' = Closes
      ELSE Closes' = [Closes EXCEPT ![down] = l.fin]
  BY <1>1, <1>2, SeenPipes, PipeStays
<1> QED
  BY <1>3, <1>4, <1>5, <1>6, <1>7 DEF k

\* Nothing is seen.
LEMMA SeenStill ==
  ASSUME Put' = Put, Finishes' = Finishes, Breaks' = Breaks, Gives' = Gives, Closes' = Closes
  PROVE  UNCHANGED R!vars
  BY DEF R!vars, Put, Finishes, Breaks, Gives, Closes

\* A socket's bytes are those of the stream, as many as they are.
LEMMA FollowsIs ==
  ASSUME NEW d \in Bytes, Follows(d, 0)
  PROVE  /\ Len(d) \in Nat /\ d = [i \in 1 .. Len(d) |-> i]
<1>1. PICK n \in Nat : n = Len(d) /\ DOMAIN d = 1 .. n /\ d = [i \in 1 .. n |-> d[i]]
  BY DEF Bytes
<1>2. \A i \in 1 .. n : d[i] = i
  <2>1. \A i \in 1 .. n : d[i] = 0 + i
    BY <1>1 DEF Follows
  <2> QED
    BY <2>1
<1> QED
  BY <1>1, <1>2

\* The steps of the far side.
LEMMA FarImplements ==
  ASSUME IInv, RInv, FarSide
  PROVE  [R!Next]_(R!vars)
<1>1. PICK p \in Ports :
        FarAnswers(p) \/ FarWrites(p) \/ FarEnds(p) \/ FarReads(p) \/ FarResets(p)
  BY DEF FarSide
<1> DEFINE h == host[p]
           d == <<p, "down">>
<1>2. PICK g : /\ host' = [host EXCEPT ![p] = g] /\ con' = con
               /\ \/ h.st = "connecting" /\ \E st \in {"up", "refused"} : g = [h EXCEPT !.st = st]
                  \/ h.st = "up" /\ h.wrote < Answers[p] /\ g = [h EXCEPT !.wrote = h.wrote + 1]
                  \/ h.st = "up" /\ ~h.ended /\ g = [h EXCEPT !.ended = TRUE]
                  \/ h.st = "up" /\ g = [h EXCEPT !.full = FALSE]
                  \/ h.st = "up" /\ g = [h EXCEPT !.st = "reset"]
  BY <1>1 DEF FarAnswers, FarWrites, FarEnds, FarReads, FarResets, Far
<1>3. host \in [Ports -> HostType] /\ h \in HostType /\ Answers[p] \in Nat
  BY Numbers DEF IInv, Types
<1>4. Source(p, h)
  BY DEF RInv, Relays
<1>5. Changes(p, g, con[p])
  BY <1>2, <1>3 DEF Changes
<1>6. d \in Pipes /\ Put[d] = h.wrote /\ Finishes[d] = h.ended
      /\ Breaks[d] = (h.st \in {"reset", "refused"})
  BY SeenIs, PipeIs
<1>7. /\ IF g.wrote = h.wrote THEN Put' = Put ELSE Put' = [Put EXCEPT ![d] = g.wrote]
      /\ IF g.ended = h.ended THEN Finishes' = Finishes
         ELSE Finishes' = [Finishes EXCEPT ![d] = g.ended]
      /\ IF Broke(g) <=> Broke(h) THEN Breaks' = Breaks
         ELSE Breaks' = [Breaks EXCEPT ![d] = Broke(g)]
      /\ g.got = h.got => Gives' = Gives
      /\ g.shut = h.shut => Closes' = Closes
  BY <1>5, SeenFar
<1> HIDE DEF h, d
<1>8. g.got = h.got /\ g.shut = h.shut
  BY <1>2, <1>3 DEF HostType
<1>9. CASE h.st = "up" /\ h.wrote < Answers[p] /\ g = [h EXCEPT !.wrote = h.wrote + 1]
  <2>1. /\ g.wrote = h.wrote + 1 /\ g.wrote # h.wrote /\ g.ended = h.ended /\ g.st = h.st
        /\ ~h.ended
    BY <1>3, <1>4, <1>9 DEF HostType, Source
  <2>2. R!Write(d)
    BY <1>6, <1>7, <1>8, <1>9, <2>1, Promises DEF Broke
  <2> QED
    BY <1>6, <2>2 DEF R!Next
<1>10. CASE h.st = "up" /\ ~h.ended /\ g = [h EXCEPT !.ended = TRUE]
  <2>1. g.wrote = h.wrote /\ g.ended = TRUE /\ g.ended # h.ended /\ g.st = h.st
    BY <1>3, <1>10 DEF HostType
  <2>2. R!End(d)
    BY <1>6, <1>7, <1>8, <1>10, <2>1, Promises DEF Broke
  <2> QED
    BY <1>6, <2>2 DEF R!Next
<1>11. CASE \E st \in {"refused", "reset"} : g = [h EXCEPT !.st = st] /\ ~Broke(h)
  <2>1. g.wrote = h.wrote /\ g.ended = h.ended /\ Broke(g) = TRUE
    BY <1>3, <1>11 DEF HostType, Broke
  <2>2. Breaks' = [Breaks EXCEPT ![d] = TRUE]
    BY <1>7, <1>11, <2>1
  <2>3. R!Break(d)
    BY <1>6, <1>7, <1>8, <2>1, <2>2, Promises
  <2> QED
    BY <1>6, <2>3 DEF R!Next
<1>12. CASE \/ h.st = "connecting" /\ g = [h EXCEPT !.st = "up"]
            \/ g = [h EXCEPT !.full = FALSE]
  <2>1. g.wrote = h.wrote /\ g.ended = h.ended /\ (Broke(g) <=> Broke(h))
    BY <1>3, <1>12 DEF HostType, Broke
  <2> QED
    BY <1>7, <1>8, <2>1, SeenStill
<1> QED
  BY <1>2, <1>9, <1>10, <1>11, <1>12 DEF Broke

\* The steps of the router.
LEMMA FurthersImplements ==
  ASSUME IInv, IInv', RInv, RInv', con' = con, Furthers
  PROVE  [R!Next]_(R!vars)
<1>1. CASE host' = host
  <2>1. \A p \in Ports : Changes(p, host[p], con[p])
    BY <1>1 DEF Changes
  <2>2. CASE Ports # {}
    <3>1. PICK p \in Ports : TRUE
      BY <2>2
    <3>2. Changes(p, host[p], con[p])
      BY <2>1
    <3> QED
      BY <3>2, SeenFar, SeenStill
  <2>3. CASE Ports = {}
    <3>1. UNCHANGED <<con, host>>
      BY <1>1
    <3> QED
      BY <3>1, SeenStill DEF Put, Finishes, Breaks, Gives, Closes
  <2> QED
    BY <2>2, <2>3
<1>2. ASSUME NEW p \in Ports, NEW g \in HostType, host' = [host EXCEPT ![p] = g],
             Onto(host[p], g)
      PROVE  [R!Next]_(R!vars)
  <2> DEFINE d == <<p, "up">>
  <2>1. /\ host \in [Ports -> HostType] /\ host'[p] = g /\ con'[p] = con[p]
        /\ Changes(p, g, con[p])
    BY <1>2 DEF IInv, Types, Changes
  <2>2. PICK h \in HostType, k \in ConType : h = host[p] /\ k = con[p]
    BY <2>1 DEF IInv, Types
  <2>3. /\ Up(p, k, h, Conns(p), out) /\ Up(p, k, g, Conns(p)', out')
    BY <2>1, <2>2 DEF RInv, Relays
  <2>4. /\ Follows(h.got, 0) /\ Follows(g.got, 0) /\ h.got \in Bytes /\ g.got \in Bytes
        /\ Len(g.got) <= Sends[p]
        /\ h.shut => Len(h.got) = Sends[p]
        /\ g.shut => k.shut /\ Len(g.got) = Sends[p]
        /\ h.shut \in BOOLEAN /\ g.shut \in BOOLEAN /\ k.shut \in BOOLEAN
    BY <2>3 DEF Up, HostType, ConType
  <2>5. /\ g.wrote = h.wrote /\ g.ended = h.ended /\ (Broke(g) <=> Broke(h))
        /\ Len(h.got) <= Len(g.got) /\ (h.shut => g.shut)
    BY <1>2, <2>2 DEF Onto
  <2>6. PICK m \in Nat, n \in Nat :
          /\ m = Len(h.got) /\ h.got = [i \in 1 .. m |-> i]
          /\ n = Len(g.got) /\ g.got = [i \in 1 .. n |-> i]
    BY <2>4, FollowsIs
  <2>7. /\ Put' = Put /\ Finishes' = Finishes /\ Breaks' = Breaks
        /\ IF g.got = h.got THEN Gives' = Gives ELSE Gives' = [Gives EXCEPT ![d] = g.got]
        /\ IF g.shut = h.shut THEN Closes' = Closes ELSE Closes' = [Closes EXCEPT ![d] = g.shut]
    BY <2>1, <2>2, <2>5, SeenFar
  <2>8. /\ d \in Pipes /\ Put[d] = Sends[p] /\ Finishes[d] = k.shut /\ Gives[d] = h.got
        /\ Closes[d] = h.shut
    BY <2>2, SeenIs, PipeIs
  <2> HIDE DEF d
  <2>9. CASE h.shut
    <3>1. m = n
      BY <2>4, <2>5, <2>6, <2>9, Numbers
    <3>2. g.got = h.got /\ g.shut = h.shut
      BY <2>4, <2>5, <2>6, <2>9, <3>1
    <3> QED
      BY <2>7, <3>2, SeenStill
  <2>10. CASE ~h.shut
    <3>1. n \in Len(Gives[d]) .. Put[d]
      <4>1. Sends[p] \in Nat /\ m <= n /\ n <= Sends[p]
        BY <2>4, <2>5, <2>6, Numbers
      <4> QED
        BY <2>6, <2>8, <4>1
    <3>2. Gives' = [Gives EXCEPT ![d] = [i \in 1 .. n |-> i]]
      BY <2>6, <2>7, <2>8, SeenPipes
    <3>3. \/ Closes' = Closes
          \/ /\ (Finishes[d] /\ n = Put[d]) \/ Breaks[d]
             /\ Closes' = [Closes EXCEPT ![d] = TRUE]
      <4>1. CASE g.shut = h.shut
        BY <2>7, <4>1
      <4>2. CASE g.shut # h.shut
        <5>1. g.shut = TRUE /\ k.shut /\ n = Sends[p]
          BY <2>4, <2>6, <2>10, <4>2
        <5> QED
          BY <2>7, <2>8, <4>2, <5>1
      <4> QED
        BY <4>1, <4>2
    <3>4. R!Carry(d)
      BY <2>7, <2>8, <2>10, <3>1, <3>2, <3>3, PromisesCarry
    <3> QED
      BY <2>8, <3>4 DEF R!Next
  <2> QED
    BY <2>9, <2>10
<1> QED
  BY <1>1, <1>2 DEF Furthers

\* A SYN said again may find another far side, nothing having come out.
LEMMA ReopensImplements ==
  ASSUME IInv, NEW p \in Ports, con' = con, Reopens(p)
  PROVE  [R!Next]_(R!vars)
<1> DEFINE d == <<p, "down">>
           g == NewHost
           h == host[p]
<1>1. /\ g.wrote = 0 /\ g.ended = FALSE /\ g.got = <<>> /\ g.shut = FALSE /\ Broke(g) = FALSE
  BY DEF NewHost, NoHost, Broke
<1>2. /\ con[p].got = <<>> /\ ~con[p].fin /\ h.got = <<>> /\ ~h.shut /\ h \in HostType
      /\ Changes(p, g, con[p])
  BY DEF Reopens, IInv, Types, Changes
<1>3. /\ d \in Pipes /\ Put[d] = h.wrote /\ Finishes[d] = h.ended /\ Breaks[d] = Broke(h)
      /\ Gives[d] = con[p].got /\ Closes[d] = con[p].fin
  BY SeenIs, PipeIs DEF Broke
<1>4. /\ IF g.wrote = h.wrote THEN Put' = Put ELSE Put' = [Put EXCEPT ![d] = g.wrote]
      /\ IF g.ended = h.ended THEN Finishes' = Finishes
         ELSE Finishes' = [Finishes EXCEPT ![d] = g.ended]
      /\ IF Broke(g) <=> Broke(h) THEN Breaks' = Breaks
         ELSE Breaks' = [Breaks EXCEPT ![d] = Broke(g)]
      /\ g.got = h.got => Gives' = Gives
      /\ g.shut = h.shut => Closes' = Closes
  BY <1>2, SeenFar
<1> HIDE DEF d, g
<1>5. h.shut = FALSE
  BY <1>2 DEF HostType
<1> HIDE DEF h
<1>6. Put' = [Put EXCEPT ![d] = 0]
  BY <1>1, <1>3, <1>4, SeenPipes
<1>7. Finishes' = [Finishes EXCEPT ![d] = FALSE]
  BY <1>1, <1>3, <1>4, SeenPipes
<1>8. Breaks' = [Breaks EXCEPT ![d] = FALSE]
  <2>1. CASE Broke(h)
    BY <1>1, <1>4, <2>1
  <2>2. CASE ~Broke(h)
    <3>1. Breaks' = Breaks
      BY <1>1, <1>4, <2>2
    <3>2. Breaks[d] = FALSE
      BY <1>3, <2>2
    <3> QED
      BY <3>1, <3>2, SeenPipes
  <2> QED
    BY <2>1, <2>2
<1>9. R!Retry(d)
  BY <1>1, <1>2, <1>3, <1>4, <1>5, <1>6, <1>7, <1>8, Promises
<1> QED
  BY <1>3, <1>9 DEF R!Next

\* The steps of the console: to be one the promise sees nothing of, to end, to break off, or
\* to take the next of the far side's stream.
LEMMA ConsoleStays ==
  ASSUME IInv, NEW p \in Ports, NEW l, con' = [con EXCEPT ![p] = l], host' = host,
         l.got = con[p].got, l.fin = con[p].fin, l.shut = con[p].shut,
         (l.st = "gone") <=> (con[p].st = "gone")
  PROVE  UNCHANGED R!vars
<1>1. Changes(p, host[p], l)
  BY DEF Changes, IInv, Types
<1> QED
  BY <1>1, SeenNear, SeenStill

\* The console breaks off, ends, takes a frame.
LEMMA GoneImplements ==
  ASSUME IInv, NEW p \in Ports, con' = [con EXCEPT ![p].st = "gone"], host' = host
  PROVE  [R!Next]_(R!vars)
<1> DEFINE d == <<p, "up">>
           k == con[p]
           l == [k EXCEPT !.st = "gone"]
<1>1. k \in ConType /\ con \in [Ports -> ConType]
  BY DEF IInv, Types
<1>2. /\ l.st = "gone" /\ l.got = k.got /\ l.fin = k.fin /\ l.shut = k.shut
      /\ con' = [con EXCEPT ![p] = l]
  BY <1>1 DEF ConType
<1>3. Changes(p, host[p], l)
  BY <1>1, <1>2 DEF Changes
<1> HIDE DEF l
<1>4. /\ Put' = Put /\ Finishes' = Finishes /\ Gives' = Gives /\ Closes' = Closes
      /\ IF (l.st = "gone") <=> (k.st = "gone") THEN Breaks' = Breaks
         ELSE Breaks' = [Breaks EXCEPT ![d] = (l.st = "gone")]
  BY <1>2, <1>3, SeenNear
<1>5. d \in Pipes
  BY PipeIs
<1>6. CASE k.st = "gone"
  BY <1>2, <1>4, <1>6, SeenStill
<1>7. CASE k.st # "gone"
  <2>1. Breaks' = [Breaks EXCEPT ![d] = TRUE]
    BY <1>2, <1>4, <1>7
  <2>2. R!Break(d)
    BY <1>4, <1>5, <2>1, Promises
  <2> QED
    BY <1>5, <2>2 DEF R!Next
<1> QED
  BY <1>6, <1>7

LEMMA FinishesImplements ==
  ASSUME IInv, NEW p \in Ports, TitleFinishes(p)
  PROVE  [R!Next]_(R!vars)
<1> DEFINE d == <<p, "up">>
           k == con[p]
           l == [k EXCEPT !.shut = TRUE]
<1>1. k \in ConType /\ con \in [Ports -> ConType] /\ k.st = "up"
  BY DEF IInv, Types, TitleFinishes
<1>2. /\ l.st = k.st /\ l.got = k.got /\ l.fin = k.fin /\ l.shut = TRUE
      /\ con' = [con EXCEPT ![p] = l] /\ host' = host
  BY <1>1 DEF ConType, TitleFinishes
<1>3. Changes(p, host[p], l)
  BY <1>1, <1>2 DEF Changes
<1> HIDE DEF l
<1>4. /\ Put' = Put /\ Breaks' = Breaks /\ Gives' = Gives /\ Closes' = Closes
      /\ IF l.shut = k.shut THEN Finishes' = Finishes
         ELSE Finishes' = [Finishes EXCEPT ![d] = l.shut]
  BY <1>2, <1>3, SeenNear, ZenonT(40)
<1>5. d \in Pipes /\ Finishes[d] = k.shut /\ Breaks[d] = (k.st = "gone") /\ k.shut \in BOOLEAN
  BY <1>1, PipeIs, SeenIs DEF ConType
<1> HIDE DEF k, d
<1>6. CASE k.shut
  BY <1>2, <1>4, <1>5, <1>6, SeenStill
<1>7. CASE ~k.shut
  <2>1. Finishes' = [Finishes EXCEPT ![d] = TRUE]
    BY <1>2, <1>4, <1>5, <1>7
  <2>2. ~Finishes[d] /\ ~Breaks[d]
    BY <1>1, <1>5, <1>7
  <2>3. R!End(d)
    BY <1>4, <1>5, <2>1, <2>2, Promises
  <2> QED
    BY <1>5, <2>3 DEF R!Next
<1> QED
  BY <1>5, <1>6, <1>7

\* What the console takes of the far side's stream, and its end.
LEMMA GotOnImplements ==
  ASSUME IInv, IInv', RInv, RInv', NEW p \in Ports, NEW f \in Range(in), f.port = p,
         NEW k, k = con[p], k.st = "up", NEW l, Sound(l), l.st = "up", GotOn(k, f, l),
         con' = [con EXCEPT ![p] = l], host' = host, l.shut = k.shut
  PROVE  [R!Next]_(R!vars)
<1> DEFINE d == <<p, "down">>
           h == host[p]
<1>1. /\ con \in [Ports -> ConType] /\ con'[p] = l /\ host'[p] = h /\ h \in HostType /\ Sound(k)
      /\ Changes(p, h, l) /\ f \in Segments
  <2>1. f \in Segments
    BY RangeOf DEF IInv, Types
  <2> QED
    BY <2>1, ConSound DEF IInv, Types, Changes
<1>2. /\ Down(p, k, h, Conns(p), out, in) /\ Source(p, h)
      /\ Down(p, l, h, Conns(p)', out', in')
  BY <1>1 DEF RInv, Relays
<1>3. Placed(f, k, h)
  BY <1>2 DEF Down, Bound, GotOn
<1>4. /\ Follows(l.got, 0) /\ Follows(k.got, 0) /\ Len(l.got) <= h.took /\ h.took <= h.wrote
      /\ k.got \in Bytes /\ l.got \in Bytes /\ f.data \in Bytes
      /\ h.took \in Nat /\ h.wrote \in Nat
  BY <1>1, <1>2, AwaitsIs, FrameLens DEF Down, Source, HostType
<1>5. PICK m \in Nat, n \in Nat, b \in Nat :
        /\ m = Len(k.got) /\ n = Len(l.got) /\ b = Len(f.data)
        /\ l.got = [i \in 1 .. n |-> i] /\ k.got = [i \in 1 .. m |-> i]
  <2>1. Len(f.data) \in Nat
    BY <1>4 DEF Bytes
  <2> QED
    BY <1>4, <2>1, FollowsIs, ZenonT(40)
<1>6. n = m + b
  BY <1>4, <1>5, ConcatProperties DEF GotOn, Bytes
<1>7. k.fin = FALSE /\ (l.fin <=> "fin" \in f.fl) /\ l.fin \in BOOLEAN
  BY AwaitsIs DEF GotOn
<1>8. ASSUME l.fin  PROVE n = h.took /\ Over(h) /\ f.data = <<>>
  <2>1. f.data = <<>> /\ Place(k, f.seq) = 1 + h.took /\ Over(h)
    BY <1>3, <1>7, <1>8 DEF Placed
  <2>2. Place(k, f.seq) = Awaits(k)
    <3>1. f.seq = Expects(k)
      BY DEF GotOn
    <3> QED
      BY <1>1, <3>1, PlaceExpects
  <2>3. Awaits(k) = m + 1
    BY <1>1, <1>5, <1>7, AwaitsIs
  <2>4. m = h.took
    BY <1>4, <2>1, <2>2, <2>3
  <2>5. b = 0
    BY <1>5, <2>1
  <2> QED
    BY <1>6, <2>1, <2>4, <2>5
<1>9. /\ Put' = Put /\ Finishes' = Finishes /\ Breaks' = Breaks
      /\ IF l.got = k.got THEN Gives' = Gives ELSE Gives' = [Gives EXCEPT ![d] = l.got]
      /\ IF l.fin = k.fin THEN Closes' = Closes ELSE Closes' = [Closes EXCEPT ![d] = l.fin]
  BY <1>1, SeenNear
<1>10. /\ d \in Pipes /\ Put[d] = h.wrote /\ Finishes[d] = h.ended /\ Gives[d] = k.got
       /\ Closes[d] = k.fin /\ Breaks[d] = (h.st \in {"reset", "refused"})
  BY SeenIs, PipeIs
<1> HIDE DEF d, h
<1>11. n \in Len(Gives[d]) .. Put[d]
  <2>1. PICK t \in Nat, v \in Nat : t = h.took /\ v = h.wrote
    BY <1>4
  <2>2. n <= t /\ t <= v
    BY <1>4, <1>5, <2>1
  <2>3. m <= n /\ n <= v
    BY <1>6, <2>2
  <2>4. Len(Gives[d]) = m /\ Put[d] = v
    BY <1>5, <1>10, <2>1
  <2> QED
    BY <2>3, <2>4
<1>12. Gives' = [Gives EXCEPT ![d] = [i \in 1 .. n |-> i]]
  BY <1>5, <1>9, <1>10, SeenPipes
<1>13. \/ Closes' = Closes
       \/ /\ (Finishes[d] /\ n = Put[d]) \/ Breaks[d]
          /\ Closes' = [Closes EXCEPT ![d] = TRUE]
  <2>1. CASE ~l.fin
    BY <1>7, <1>9, <2>1
  <2>2. CASE l.fin
    <3>1. Closes' = [Closes EXCEPT ![d] = TRUE]
      BY <1>7, <1>9, <2>2
    <3>2. (Finishes[d] /\ n = Put[d]) \/ Breaks[d]
      BY <1>8, <1>10, <2>2 DEF Over
    <3> QED
      BY <3>1, <3>2
  <2> QED
    BY <2>1, <2>2
<1>14. R!Carry(d)
  BY <1>7, <1>9, <1>10, <1>11, <1>12, <1>13, PromisesCarry
<1> QED
  BY <1>10, <1>14 DEF R!Next

LEMMA ConsoleTakesImplements ==
  ASSUME IInv, IInv', RInv, RInv', ConsoleTakes
  PROVE  [R!Next]_(R!vars)
<1>1. PICK f : f = Head(in)
  OBVIOUS
<1>2. PICK p : p = f.port
  OBVIOUS
<1> DEFINE k == con[p]
<1>3. PICK l : l = Accepts(Heard(p, k, f), f)
  OBVIOUS
<1>4. /\ in # <<>> /\ host' = host
      /\ \/ con' = [con EXCEPT ![p].st = "gone"]
         \/ con' = con
         \/ /\ k.st = "syn"
            /\ con' = [con EXCEPT ![p] = [k EXCEPT !.st = "up", !.riss = f.seq, !.edge = f.wnd]]
         \/ k.st = "up" /\ con' = [con EXCEPT ![p] = l]
  BY <1>1, <1>2, <1>3 DEF ConsoleTakes
<1>5. f \in Segments /\ f \in Range(in) /\ p \in Ports
  <2>1. in \in Seq(Segments)
    BY DEF IInv, Types
  <2>2. f \in Segments /\ f \in Range(in)
    BY <1>1, <1>4, <2>1, TailRange
  <2> QED
    BY <1>2, <2>2 DEF Segments
<1>6. /\ Telling(p, k) /\ Sound(k) /\ k \in ConType /\ con \in [Ports -> ConType]
      /\ f.wnd <= TcpBuf
  <2>1. /\ Telling(p, k) /\ Sound(k) /\ k \in ConType /\ con \in [Ports -> ConType]
        /\ Relays(p, k, host[p], Conns(p), out, in)
    BY <1>5, ConTells
  <2>2. f.wnd <= TcpBuf
    BY <1>2, <1>5, <2>1 DEF Relays
  <2> QED
    BY <2>1, <2>2
<1>7. CASE con' = [con EXCEPT ![p].st = "gone"]
  BY <1>4, <1>5, <1>7, GoneImplements
<1>8. CASE con' = con
  <2>1. con' = [con EXCEPT ![p] = k]
    BY <1>5, <1>6, <1>8
  <2> QED
    BY <1>4, <1>5, <2>1, ConsoleStays
<1>9. CASE /\ k.st = "syn"
           /\ con' = [con EXCEPT ![p] = [k EXCEPT !.st = "up", !.riss = f.seq, !.edge = f.wnd]]
  <2> DEFINE d == [k EXCEPT !.st = "up", !.riss = f.seq, !.edge = f.wnd]
  <2>1. /\ d.st = "up" /\ d.got = k.got /\ d.fin = k.fin /\ d.shut = k.shut
        /\ con' = [con EXCEPT ![p] = d]
    BY <1>6, <1>9 DEF ConType
  <2> HIDE DEF d
  <2>2. (d.st = "gone") <=> (con[p].st = "gone")
    BY <1>9, <2>1
  <2> QED
    BY <1>4, <1>5, <2>1, <2>2, ConsoleStays
<1>10. CASE k.st = "up" /\ con' = [con EXCEPT ![p] = l]
  <2>1. PICK e : e = Heard(p, k, f)
    OBVIOUS
  <2>2. /\ Sound(e) /\ e.st = k.st /\ e.got = k.got /\ e.fin = k.fin /\ e.riss = k.riss
        /\ e.shut = k.shut
    BY <1>5, <1>6, <2>1, HeardTells
  <2>3. /\ Sound(l) /\ l.st = e.st /\ l.shut = e.shut
        /\ (l.got = e.got /\ l.fin = e.fin) \/ GotOn(e, f, l)
    <3>1. l = Accepts(e, f)
      BY <1>3, <2>1
    <3> QED
      BY <1>5, <2>2, <3>1, AcceptsWhat
  <2> HIDE DEF k
  <2>4. CASE l.got = e.got /\ l.fin = e.fin
    BY <1>4, <1>5, <1>10, <2>2, <2>3, <2>4, ConsoleStays DEF k
  <2>5. CASE GotOn(e, f, l)
    <3>1. GotOn(k, f, l)
      BY <2>2, <2>5 DEF GotOn, Expects
    <3>2. k = con[p] /\ l.st = "up" /\ l.shut = k.shut
      BY <1>10, <2>2, <2>3 DEF k
    <3> QED
      BY <1>2, <1>4, <1>5, <1>10, <2>3, <3>1, <3>2, GotOnImplements
  <2> QED
    BY <2>3, <2>4, <2>5
<1> QED
  BY <1>4, <1>7, <1>8, <1>9, <1>10

LEMMA ConsoleImplements ==
  ASSUME IInv, IInv', RInv, RInv', Console
  PROVE  [R!Next]_(R!vars)
<1>1. CASE ConsoleTakes
  BY <1>1, ConsoleTakesImplements
<1>2. ASSUME NEW p \in Ports, TitleFinishes(p) \/ TitleAborts(p) \/ ConsoleForgets(p)
      PROVE  [R!Next]_(R!vars)
  BY <1>2, FinishesImplements, GoneImplements DEF TitleAborts, ConsoleForgets
<1>3. ASSUME NEW p \in Ports, \/ TitleOpens(p) \/ TitleReads(p)
                              \/ ConsoleSends(p) \/ ConsoleRepeats(p)
      PROVE  [R!Next]_(R!vars)
  <2> DEFINE k == con[p]
  <2>1. k \in ConType /\ con \in [Ports -> ConType] /\ host' = host
    BY <1>3 DEF IInv, Types, TitleOpens, TitleReads, ConsoleSends, ConsoleRepeats
  <2>2. PICK l : /\ con' = [con EXCEPT ![p] = l]
                 /\ \/ k.st = "none" /\ l = [k EXCEPT !.st = "syn"]
                    \/ \E x : l = [k EXCEPT !.read = x] \/ l = [k EXCEPT !.sent = x]
                    \/ l = k
    <3>1. CASE TitleOpens(p)
      <4>1. con' = [con EXCEPT ![p] = [k EXCEPT !.st = "syn"]] /\ k.st = "none"
        BY <3>1 DEF TitleOpens
      <4> QED
        BY <4>1
    <3>2. CASE TitleReads(p)
      <4>1. con' = [con EXCEPT ![p] = [k EXCEPT !.read = k.read + 1]]
        BY <3>2 DEF TitleReads
      <4> QED
        BY <4>1
    <3>3. CASE ConsoleSends(p)
      <4>1. con' = [con EXCEPT ![p] = [k EXCEPT !.sent = After(p, k, k.sent)]]
        BY <3>3 DEF ConsoleSends
      <4> QED
        BY <4>1
    <3>4. CASE ConsoleRepeats(p)
      <4>1. CASE con' = con
        <5>1. con' = [con EXCEPT ![p] = k]
          BY <2>1, <4>1
        <5> QED
          BY <5>1
      <4>2. CASE con' # con
        <5>1. con' = [con EXCEPT ![p].sent = IF @ = k.acked THEN After(p, k, @) ELSE @]
          BY <3>4, <4>2 DEF ConsoleRepeats
        <5>2. PICK x : x = IF k.sent = k.acked THEN After(p, k, k.sent) ELSE k.sent
          OBVIOUS
        <5>3. con' = [con EXCEPT ![p] = [k EXCEPT !.sent = x]]
          BY <5>1, <5>2
        <5> QED
          BY <5>3
      <4> QED
        BY <4>1, <4>2
    <3> QED
      BY <1>3, <3>1, <3>2, <3>3, <3>4
  <2>3. /\ l.got = k.got /\ l.fin = k.fin /\ l.shut = k.shut
        /\ (l.st = "gone") <=> (k.st = "gone")
    BY <2>1, <2>2 DEF ConType
  <2> QED
    BY <2>1, <2>2, <2>3, ConsoleStays
<1> QED
  BY <1>1, <1>2, <1>3 DEF Console

\* The initial state is one of the promise, with nothing written or taken.
LEMMA InitImplements == Init => R!Init
<1> SUFFICES ASSUME Init  PROVE R!Init
  OBVIOUS
<1>1. con = [p \in Ports |-> NoCon] /\ host = [p \in Ports |-> NoHost]
  BY DEF Init, PeersInit
<1>2. /\ NoCon.shut = FALSE /\ NoCon.st = "none" /\ NoCon.got = <<>> /\ NoCon.fin = FALSE
      /\ NoHost.wrote = 0 /\ NoHost.ended = FALSE /\ NoHost.st = "none" /\ NoHost.got = <<>>
      /\ NoHost.shut = FALSE
  BY DEF NoCon, NoHost
<1>3. \A d \in Pipes : /\ Put[d] \in Nat /\ Finishes[d] = FALSE /\ Breaks[d] = FALSE
                       /\ Gives[d] = <<>> /\ Closes[d] = FALSE
  <2> SUFFICES ASSUME NEW d \in Pipes
               PROVE  /\ Put[d] \in Nat /\ Finishes[d] = FALSE /\ Breaks[d] = FALSE
                      /\ Gives[d] = <<>> /\ Closes[d] = FALSE
    OBVIOUS
  <2>1. PICK p \in Ports : d = <<p, "up">> \/ d = <<p, "down">>
    BY DEF Pipes
  <2>2. Sends[p] \in Nat /\ con[p] = NoCon /\ host[p] = NoHost
    BY <1>1, Numbers
  <2>3. ~(host[p].st \in {"reset", "refused"}) /\ ~(con[p].st = "gone") /\ 0 \in Nat
    BY <1>2, <2>2
  <2>4. /\ Put[<<p, "up">>] = Sends[p] /\ Put[<<p, "down">>] = 0
        /\ Finishes[<<p, "up">>] = FALSE /\ Finishes[<<p, "down">>] = FALSE
    BY <1>2, <2>2, SeenIs
  <2>5. Breaks[<<p, "up">>] = FALSE /\ Breaks[<<p, "down">>] = FALSE
    <3>1. Breaks[<<p, "up">>] = (con[p].st = "gone")
      BY SeenIs
    <3>2. Breaks[<<p, "down">>] = (host[p].st \in {"reset", "refused"})
      BY SeenIs
    <3>3. (con[p].st = "gone") = FALSE
      BY <2>3
    <3>4. (host[p].st \in {"reset", "refused"}) = FALSE
      BY <2>3
    <3> QED
      BY <3>1, <3>2, <3>3, <3>4
  <2>6. /\ Gives[<<p, "up">>] = <<>> /\ Gives[<<p, "down">>] = <<>>
        /\ Closes[<<p, "up">>] = FALSE /\ Closes[<<p, "down">>] = FALSE
    BY <1>2, <2>2, SeenIs
  <2> QED
    BY <2>1, <2>2, <2>3, <2>4, <2>5, <2>6
<1>4. /\ Put = [d \in Pipes |-> Put[d]] /\ Finishes = [d \in Pipes |-> FALSE]
      /\ Breaks = [d \in Pipes |-> FALSE] /\ Gives = [d \in Pipes |-> <<>>]
      /\ Closes = [d \in Pipes |-> FALSE]
  BY <1>3, SeenPipes
<1>5. Put \in [Pipes -> Nat]
  BY <1>3, <1>4
<1> QED
  BY <1>4, <1>5 DEF R!Init, Put, Finishes, Breaks, Gives, Closes

\* Every step is one the promise allows.
LEMMA NextImplements == IInv /\ IInv' /\ RInv /\ RInv' /\ [Next]_vars => [R!Next]_(R!vars)
<1> SUFFICES ASSUME IInv, IInv', RInv, RInv', [Next]_vars  PROVE [R!Next]_(R!vars)
  OBVIOUS
<1>1. CASE UNCHANGED vars
  <2>1. con' = con /\ Furthers
    BY <1>1 DEF vars, Furthers
  <2> QED
    BY <2>1, FurthersImplements
<1>2. CASE router_thread
  <2>1. con' = con /\ (Furthers \/ \E p \in Ports : Reopens(p))
    BY <1>2, RouterRelays
  <2> QED
    BY <2>1, FurthersImplements, ReopensImplements
<1>3. CASE Console
  BY <1>3, ConsoleImplements
<1>4. CASE FarSide
  BY <1>4, FarImplements
<1> QED
  BY <1>1, <1>2, <1>3, <1>4 DEF Next

\* The router's TCP implements Relay: what comes out of either end of a connection went in
\* at the other, in order and once, and an end only behind all of it (xbox_net_nat.c:40-46).
THEOREM RelayImplemented == Spec => ImplementsRelay
<1>1. Spec => [][R!Next]_(R!vars)
  BY Invariant, RelayInvariant, NextImplements, PTL DEF Spec
<1> QED
  BY <1>1, InitImplements, PTL DEF Spec, ImplementsRelay, R!Spec
=============================================================================
