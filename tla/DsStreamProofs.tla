--------------------------- MODULE DsStreamProofs ---------------------------
(***************************************************************************)
(* What holds of the sound streams for every number of streams, voices,    *)
(* packets and threads, whatever the title and its callbacks call.         *)
(***************************************************************************)
EXTENDS DsStream, FiniteSetTheorems, WellFoundedInduction, TLAPS

---------------------------------------------------------------------------
(* The streams, their voices and the slots, in the inductive invariant *)

\* The three variables a call works on, together and as a record.
HostType == [queue : Seq(Nat), played : Nat]

SoundType ==
  [stream : [Slots -> StreamType], owner : [Voices -> Slots \cup {0}],
   host : [Voices -> HostType]]

\* VoicesAgree and PositionExact, of streams, owners and voices.
Agree(st, ow, ho) ==
  /\ \A v \in Voices :
       IF ow[v] = 0
       THEN ho[v] = Silence /\ \A i \in Slots : st[i].voice # v
       ELSE st[ow[v]].voice = v
  /\ \A i \in Slots : st[i].voice # 0 => ow[st[i].voice] = i

ExactAt(s, h) ==
  s.output /\ ~s.paused =>
    /\ \A k \in DOMAIN h.queue : h.queue[k] = s.origin + h.played + k - 1
    /\ s.origin + h.played + Len(h.queue) = s.sent

Exact(st, ho) ==
  \A i \in Slots : st[i].voice # 0 => ExactAt(st[i], ho[st[i].voice])

\* The host has no more than it takes, and the clock is not past the data.
Within(st, ho) ==
  /\ \A v \in Voices : Len(ho[v].queue) <= Depth
  /\ \A i \in Slots : st[i].base <= st[i].queued

Consistent(st, ow, ho) ==
  /\ st \in [Slots -> StreamType]
  /\ ow \in [Voices -> Slots \cup {0}]
  /\ ho \in [Voices -> HostType]
  /\ Agree(st, ow, ho)
  /\ Exact(st, ho)
  /\ Within(st, ho)

Good(d) == d \in SoundType /\ Consistent(d.stream, d.owner, d.host)

\* Each slot has its place by active_ms.
Placed == \A i \in Slots : \E k \in DOMAIN recent : recent[k] = i

LEMMA Numbers ==
  /\ Slots \subseteq Nat \ {0} /\ Voices \subseteq Nat \ {0} /\ Packets \subseteq Nat \ {0}
  /\ Attached \in Nat /\ Lead \in Nat /\ Depth \in Nat /\ Nest \in Nat
  BY FS_CardinalityType, DsStreamAssumption

---------------------------------------------------------------------------
(* Changes that keep the streams, owners and voices consistent *)

LEMMA SilenceType == Silence \in HostType /\ Len(Silence.queue) = 0 /\ Silence.played = 0
                     /\ DOMAIN Silence.queue = {}
  BY DEF Silence, HostType

\* Stream i changes, its voice does not.
LEMMA StreamChanges ==
  ASSUME NEW st, NEW ow, NEW ho, Consistent(st, ow, ho),
         NEW i \in Slots, NEW r \in StreamType,
         r.voice = st[i].voice, r.base <= r.queued,
         r.voice # 0 => ExactAt(r, ho[r.voice])
  PROVE  Consistent([st EXCEPT ![i] = r], ow, ho)
  BY Numbers DEF Consistent, Agree, Exact, Within

\* Its voice starts anew, empty.
LEMMA VoiceRestarts ==
  ASSUME NEW st, NEW ow, NEW ho, Consistent(st, ow, ho),
         NEW i \in Slots, NEW r \in StreamType,
         r.voice = st[i].voice, r.voice # 0, r.base <= r.queued,
         r.output /\ ~r.paused => r.sent = r.origin
  PROVE  Consistent([st EXCEPT ![i] = r], ow, [ho EXCEPT ![r.voice] = Silence])
<1> DEFINE v == r.voice
           su == [st EXCEPT ![i] = r]
           hu == [ho EXCEPT ![v] = Silence]
<1>1. v \in Voices /\ ow[v] = i
  BY DEF StreamType, Consistent, Agree
<1>2. su \in [Slots -> StreamType] /\ hu \in [Voices -> HostType]
  BY <1>1, SilenceType DEF Consistent
<1>3. Agree(su, ow, hu)
  BY <1>1, Numbers DEF Consistent, Agree
<1>4. ExactAt(r, Silence)
  BY SilenceType DEF ExactAt, StreamType
<1>5. \A j \in Slots : j # i => st[j].voice # v
  BY <1>1 DEF Consistent, Agree
<1>6. Exact(su, hu)
  BY <1>1, <1>4, <1>5 DEF Consistent, Exact, StreamType
<1>7. Within(su, hu)
  BY <1>1, SilenceType, Numbers DEF Consistent, Within
<1> QED
  BY <1>2, <1>3, <1>6, <1>7 DEF Consistent

\* Its voice goes back.
LEMMA VoiceGoesBack ==
  ASSUME NEW st, NEW ow, NEW ho, Consistent(st, ow, ho),
         NEW i \in Slots, st[i].voice # 0, NEW r \in StreamType,
         r.voice = 0, r.base <= r.queued
  PROVE  Consistent([st EXCEPT ![i] = r], [ow EXCEPT ![st[i].voice] = 0],
                    [ho EXCEPT ![st[i].voice] = Silence])
<1> DEFINE v == st[i].voice
           su == [st EXCEPT ![i] = r]
           ou == [ow EXCEPT ![v] = 0]
           hu == [ho EXCEPT ![v] = Silence]
<1>1. v \in Voices /\ ow[v] = i
  BY DEF StreamType, Consistent, Agree
<1>2. /\ su \in [Slots -> StreamType] /\ hu \in [Voices -> HostType]
      /\ ou \in [Voices -> Slots \cup {0}]
  BY <1>1, SilenceType DEF Consistent
<1>3. \A j \in Slots : j # i => st[j].voice # v
  BY <1>1 DEF Consistent, Agree
<1>4. Agree(su, ou, hu)
  <2>1. ASSUME NEW w \in Voices
        PROVE  IF ou[w] = 0
               THEN hu[w] = Silence /\ \A j \in Slots : su[j].voice # w
               ELSE su[ou[w]].voice = w
    BY <1>1, <1>2, <1>3, Numbers DEF Consistent, Agree
  <2>2. ASSUME NEW j \in Slots, su[j].voice # 0  PROVE ou[su[j].voice] = j
    <3>1. j # i
      BY <1>2, <2>2 DEF Consistent
    <3>2. st[j].voice # v /\ st[j].voice \in Voices /\ ow[st[j].voice] = j
      BY <1>3, <2>2, <3>1 DEF Consistent, Agree, StreamType
    <3> QED
      BY <1>1, <3>1, <3>2 DEF Consistent
  <2> QED
    BY <2>1, <2>2 DEF Agree
<1>5. Exact(su, hu)
  BY <1>1, <1>3 DEF Consistent, Exact, StreamType
<1>6. Within(su, hu)
  BY <1>1, SilenceType, Numbers DEF Consistent, Within
<1> QED
  BY <1>2, <1>4, <1>5, <1>6 DEF Consistent

\* It is given a voice that nobody has.
LEMMA VoiceGiven ==
  ASSUME NEW st, NEW ow, NEW ho, Consistent(st, ow, ho),
         NEW i \in Slots, st[i].voice = 0, NEW v \in Voices, ow[v] = 0,
         NEW r \in StreamType, r.voice = v, r.base <= r.queued, r.origin = r.sent
  PROVE  Consistent([st EXCEPT ![i] = r], [ow EXCEPT ![v] = i], ho)
<1> DEFINE su == [st EXCEPT ![i] = r]
           ou == [ow EXCEPT ![v] = i]
<1>1. /\ su \in [Slots -> StreamType] /\ ho \in [Voices -> HostType]
      /\ ou \in [Voices -> Slots \cup {0}]
  BY DEF Consistent
<1>2. ho[v] = Silence /\ \A j \in Slots : st[j].voice # v
  BY DEF Consistent, Agree
<1>3. Agree(su, ou, ho)
  <2>1. ASSUME NEW w \in Voices
        PROVE  IF ou[w] = 0
               THEN ho[w] = Silence /\ \A j \in Slots : su[j].voice # w
               ELSE su[ou[w]].voice = w
    BY <1>1, <1>2, Numbers DEF Consistent, Agree
  <2>2. ASSUME NEW j \in Slots, su[j].voice # 0  PROVE ou[su[j].voice] = j
    <3>1. CASE j = i
      BY <1>1, <3>1 DEF Consistent
    <3>2. CASE j # i
      <4>1. st[j].voice # v /\ st[j].voice \in Voices /\ ow[st[j].voice] = j
        BY <1>2, <2>2, <3>2 DEF Consistent, Agree, StreamType
      <4> QED
        BY <1>1, <3>2, <4>1 DEF Consistent
    <3> QED
      BY <3>1, <3>2
  <2> QED
    BY <2>1, <2>2 DEF Agree
<1>4. ExactAt(r, Silence)
  BY SilenceType DEF ExactAt, StreamType
<1>5. Exact(su, ho)
  BY <1>2, <1>4 DEF Consistent, Exact, StreamType
<1>6. Within(su, ho)
  BY DEF Consistent, Within
<1> QED
  BY <1>1, <1>3, <1>5, <1>6 DEF Consistent

\* Its voice takes or plays some of what is sent.
LEMMA VoiceMoves ==
  ASSUME NEW st, NEW ow, NEW ho, Consistent(st, ow, ho),
         NEW i \in Slots, st[i].voice # 0, NEW r \in StreamType,
         r.voice = st[i].voice, r.base <= r.queued,
         NEW h \in HostType, Len(h.queue) <= Depth, ExactAt(r, h)
  PROVE  Consistent([st EXCEPT ![i] = r], ow, [ho EXCEPT ![r.voice] = h])
<1> DEFINE v == r.voice
           su == [st EXCEPT ![i] = r]
           hu == [ho EXCEPT ![v] = h]
<1>1. v \in Voices /\ ow[v] = i
  BY DEF StreamType, Consistent, Agree
<1>2. su \in [Slots -> StreamType] /\ hu \in [Voices -> HostType]
  BY <1>1 DEF Consistent
<1>3. \A j \in Slots : j # i => st[j].voice # v
  BY <1>1 DEF Consistent, Agree
<1>4. Agree(su, ow, hu)
  BY <1>1, Numbers DEF Consistent, Agree
<1>5. Exact(su, hu)
  BY <1>1, <1>3 DEF Consistent, Exact, StreamType
<1>6. Within(su, hu)
  BY <1>1 DEF Consistent, Within
<1> QED
  BY <1>2, <1>4, <1>5, <1>6 DEF Consistent

---------------------------------------------------------------------------
(* What the operators of a call do to the streams and the voices *)

\* No ring has changed.
SameRings(d, e) == \A j \in Slots : e.stream[j].packets = d.stream[j].packets

Follows(d, e) == Good(e) /\ SameRings(d, e)

\* The parts of a state, and a state from its parts.
LEMMA Parts ==
  ASSUME NEW d, Good(d)
  PROVE  /\ d = [stream |-> d.stream, owner |-> d.owner, host |-> d.host]
         /\ Consistent(d.stream, d.owner, d.host)
         /\ \A i \in Slots : d.stream[i] \in StreamType
         /\ \A i \in Slots : d.stream[i].base <= d.stream[i].queued
  BY DEF Good, SoundType, Consistent, Within

LEMMA Assembled ==
  ASSUME NEW st, NEW ow, NEW ho, Consistent(st, ow, ho)
  PROVE  Good([stream |-> st, owner |-> ow, host |-> ho])
  BY DEF Good, SoundType, Consistent

\* The types of a stream's fields.
LEMMA StreamFields ==
  ASSUME NEW s \in StreamType
  PROVE  /\ s.packets \in Seq(PacketType)
         /\ s.queued \in Nat /\ s.base \in Nat /\ s.elapsed \in Nat
         /\ s.sent \in Nat /\ s.origin \in Nat
         /\ s.callback \in BOOLEAN /\ s.output \in BOOLEAN /\ s.running \in BOOLEAN
         /\ s.paused \in BOOLEAN /\ s.synch \in BOOLEAN
         /\ s.object \in Objects \cup {NoObject} /\ s.voice \in Voices \cup {0}
  BY DEF StreamType

\* A stream changes and no voice does.
Put(d, i, r) == [d EXCEPT !.stream[i] = r]

LEMMA OnlyStream ==
  ASSUME NEW d, Good(d), NEW i \in Slots, NEW r \in StreamType,
         r.voice = d.stream[i].voice, r.base <= r.queued,
         r.voice # 0 => ExactAt(r, d.host[r.voice])
  PROVE  /\ Good(Put(d, i, r))
         /\ Put(d, i, r) =
              [stream |-> [d.stream EXCEPT ![i] = r], owner |-> d.owner, host |-> d.host]
<1>1. Consistent([d.stream EXCEPT ![i] = r], d.owner, d.host)
  BY Parts, StreamChanges
<1>2. Put(d, i, r) =
        [stream |-> [d.stream EXCEPT ![i] = r], owner |-> d.owner, host |-> d.host]
  BY Parts DEF Put
<1> QED
  BY <1>1, <1>2, Assembled

\* Stream i becomes r, its voice empty.
Anew(d, i, r) ==
  [stream |-> [d.stream EXCEPT ![i] = r], owner |-> d.owner,
   host |-> IF r.voice = 0 THEN d.host ELSE [d.host EXCEPT ![r.voice] = Silence]]

LEMMA AnewGood ==
  ASSUME NEW d, Good(d), NEW i \in Slots, NEW r \in StreamType,
         r.voice = d.stream[i].voice, r.base <= r.queued,
         r.output /\ ~r.paused => r.sent = r.origin
  PROVE  /\ Good(Anew(d, i, r)) /\ Anew(d, i, r).stream[i] = r
         /\ \A j \in Slots : j # i => Anew(d, i, r).stream[j] = d.stream[j]
<1>1. d.stream \in [Slots -> StreamType] /\ Consistent(d.stream, d.owner, d.host)
  BY Parts DEF Good, SoundType
<1>2. Good(Anew(d, i, r))
  <2>1. CASE r.voice = 0
    <3>1. Consistent([d.stream EXCEPT ![i] = r], d.owner, d.host)
      BY <1>1, <2>1, StreamChanges
    <3> QED
      BY <2>1, <3>1, Assembled DEF Anew
  <2>2. CASE r.voice # 0
    <3>1. Consistent([d.stream EXCEPT ![i] = r], d.owner,
                     [d.host EXCEPT ![r.voice] = Silence])
      BY <1>1, <2>2, VoiceRestarts
    <3> QED
      BY <2>2, <3>1, Assembled DEF Anew
  <2> QED
    BY <2>1, <2>2
<1>3. Anew(d, i, r).stream = [d.stream EXCEPT ![i] = r]
  BY DEF Anew
<1> QED
  BY <1>1, <1>2, <1>3

LEMMA ResetIs ==
  ASSUME NEW d, Good(d), NEW i \in Slots
  PROVE  /\ ResetVoice(d, i).stream = d.stream /\ ResetVoice(d, i).owner = d.owner
         /\ ResetVoice(d, i).host = IF d.stream[i].voice = 0 THEN d.host
                                    ELSE [d.host EXCEPT ![d.stream[i].voice] = Silence]
         /\ ResetVoice(d, i) = [stream |-> ResetVoice(d, i).stream,
                                owner |-> ResetVoice(d, i).owner,
                                host |-> ResetVoice(d, i).host]
<1>1. ResetVoice(d, i) = [stream |-> d.stream, owner |-> d.owner,
                         host |-> IF d.stream[i].voice = 0 THEN d.host
                                  ELSE [d.host EXCEPT ![d.stream[i].voice] = Silence]]
  BY Parts DEF ResetVoice
<1> HIDE DEF ResetVoice
<1> QED
  BY <1>1

LEMMA StartVoiceAtGood ==
  ASSUME NEW d, Good(d), NEW i \in Slots, NEW pos \in Nat
  PROVE  /\ Follows(d, StartVoiceAt(d, i, pos))
         /\ StartVoiceAt(d, i, pos).stream[i] \in StreamType
         /\ StartVoiceAt(d, i, pos).stream[i].queued = d.stream[i].queued
         /\ StartVoiceAt(d, i, pos).stream[i].voice = d.stream[i].voice
<1> DEFINE s == d.stream[i]
           r == [s EXCEPT !.sent = pos, !.origin = pos]
           e == StartVoiceAt(d, i, pos)
<1>1. s \in StreamType /\ s.base <= s.queued /\ d.stream \in [Slots -> StreamType]
  BY Parts DEF Good, SoundType
<1>2. /\ r \in StreamType /\ r.sent = pos /\ r.origin = pos /\ r.packets = s.packets
      /\ r.queued = s.queued /\ r.base = s.base /\ r.voice = s.voice
  <2> HIDE DEF s
  <2> QED
    BY <1>1 DEF StreamType
<1>3. e = Anew(d, i, r)
  <2> DEFINE a == ResetVoice(d, i)
  <2>1. e = [a EXCEPT !.stream[i] = [a.stream[i] EXCEPT !.sent = pos, !.origin = pos]]
    BY DEF StartVoiceAt
  <2>2. /\ a.stream = d.stream /\ a.owner = d.owner
        /\ a.host = IF s.voice = 0 THEN d.host ELSE [d.host EXCEPT ![s.voice] = Silence]
        /\ a = [stream |-> a.stream, owner |-> a.owner, host |-> a.host]
    BY ResetIs
  <2> HIDE DEF a, e
  <2>3. e = [a EXCEPT !.stream[i] = r]
    BY <2>1, <2>2
  <2> HIDE DEF r
  <2> QED
    BY <1>2, <2>2, <2>3 DEF Anew
<1> HIDE DEF r, e
<1>4. /\ Good(e) /\ e.stream[i] = r
      /\ \A j \in Slots : j # i => e.stream[j] = d.stream[j]
  BY <1>1, <1>2, <1>3, AnewGood
<1>5. SameRings(d, e)
  BY <1>2, <1>4 DEF SameRings
<1> QED
  BY <1>2, <1>4, <1>5 DEF Follows, e

---------------------------------------------------------------------------
(* The choices of a slot *)

\* A set of numbers that is not empty has a least one.
LEMMA LeastOf ==
  ASSUME NEW S, S \subseteq Nat, S # {}
  PROVE  \E i \in S : \A j \in S : i <= j
<1> DEFINE Less == {ss \in Nat \X Nat : ss[1] < ss[2]}
<1>1. IsWellFoundedOn(Less, Nat)
  BY NatLessThanWellFounded DEF OpToRel
<1> HIDE DEF Less
<1>2. PICK i \in S : \A j \in S : ~ (<<j, i>> \in Less)
  BY <1>1, WFMin
<1>3. ASSUME NEW j \in S  PROVE i <= j
  <2> DEFINE p == <<j, i>>
  <2>1. p \in Nat \X Nat /\ p[1] = j /\ p[2] = i
    OBVIOUS
  <2>2. p \notin Less
    BY <1>2
  <2> HIDE DEF p
  <2>3. ~ (j < i)
    BY <2>1, <2>2 DEF Less
  <2> QED
    BY <2>3
<1> QED
  BY <1>3

LEMMA MinOf ==
  ASSUME NEW S, S \subseteq Nat, S # {}
  PROVE  Min(S) \in S /\ \A j \in S : Min(S) <= j
  BY LeastOf DEF Min

\* Each slot has its place, and some slot of a set has been idle longest.
LEMMA PlaceOf ==
  ASSUME Placed, NEW i \in Slots
  PROVE  Place(i) \in DOMAIN recent /\ recent[Place(i)] = i
  BY DEF Placed, Place

LEMMA LongestOf ==
  ASSUME Placed, recent \in Seq(Slots), NEW I, I \subseteq Slots, I # {}
  PROVE  LongestIdle(I) \in I
<1> DEFINE P == {Place(i) : i \in I}
<1>1. P \subseteq Nat /\ P # {}
  BY PlaceOf
<1>2. PICK k \in P : \A l \in P : k <= l
  BY <1>1, LeastOf
<1>3. \E i \in I : \A j \in I : Place(i) <= Place(j)
  BY <1>2
<1> QED
  BY <1>3 DEF LongestIdle

\* Every slot keeps a place when slot i goes to the end.
LEMMA ActiveOf ==
  ASSUME Placed, recent \in Seq(Slots), NEW i \in Slots
  PROVE  /\ Active(i) \in Seq(Slots) /\ Len(Active(i)) = Len(recent)
         /\ \A j \in Slots : \E k \in DOMAIN Active(i) : Active(i)[k] = j
<1> DEFINE p == Place(i)
           rest == RemoveAt(recent, p)
<1>1. p \in 1..Len(recent) /\ recent[p] = i /\ Len(recent) \in Nat
  BY PlaceOf
<1> HIDE DEF p
<1>2. /\ rest \in Seq(Slots) /\ Len(rest) = Len(recent) - 1
      /\ \A k \in 1..Len(rest) : rest[k] = IF k < p THEN recent[k] ELSE recent[k + 1]
  <2> DEFINE a == SubSeq(recent, 1, p - 1)
             b == SubSeq(recent, p + 1, Len(recent))
  <2>1. /\ a \in Seq(Slots) /\ Len(a) = p - 1
        /\ \A k \in 1..(p - 1) : a[k] = recent[k]
    BY <1>1
  <2>2. /\ b \in Seq(Slots) /\ Len(b) = Len(recent) - p
        /\ \A k \in 1..(Len(recent) - p) : b[k] = recent[k + p]
    BY <1>1
  <2>3. rest = a \o b
    BY DEF RemoveAt
  <2> HIDE DEF a, b, rest
  <2>4. rest \in Seq(Slots) /\ Len(rest) = Len(recent) - 1
    BY SMTT(30), <1>1, <2>1, <2>2, <2>3
  <2>5. ASSUME NEW k \in 1..Len(rest), k < p  PROVE rest[k] = recent[k]
    <3>1. k \in 1..(p - 1)
      BY <1>1, <2>4, <2>5
    <3>2. (a \o b)[k] = a[k]
      BY <1>1, <2>1, <2>2, <3>1
    <3> QED
      BY <2>1, <2>3, <3>1, <3>2
  <2>6. ASSUME NEW k \in 1..Len(rest), ~ (k < p)  PROVE rest[k] = recent[k + 1]
    <3>1. rest[k] = b[k - (p - 1)] /\ k - (p - 1) \in 1..(Len(recent) - p)
      BY SMTT(30), <1>1, <2>1, <2>2, <2>3, <2>4, <2>6
    <3>2. k - (p - 1) + p = k + 1
      BY <1>1
    <3> QED
      BY <2>2, <3>1, <3>2
  <2> QED
    BY <2>4, <2>5, <2>6
<1>3. Active(i) = Append(rest, i)
  BY DEF Active, p
<1> HIDE DEF rest
<1>4. Active(i) \in Seq(Slots) /\ Len(Active(i)) = Len(recent)
  BY <1>1, <1>2, <1>3
<1>5. ASSUME NEW j \in Slots  PROVE \E k \in DOMAIN Active(i) : Active(i)[k] = j
  <2>1. CASE j = i
    BY <1>1, <1>2, <1>3, <1>4, <2>1
  <2>2. CASE j # i
    <3> DEFINE q == Place(j)
    <3>1. q \in 1..Len(recent) /\ recent[q] = j
      BY PlaceOf
    <3> HIDE DEF q
    <3>2. CASE q < p
      <4>1. q \in 1..Len(rest) /\ rest[q] = j
        BY <1>1, <1>2, <3>1, <3>2
      <4> QED
        BY <1>2, <1>3, <4>1
    <3>3. CASE ~ (q < p)
      <4>1. q - 1 \in 1..Len(rest) /\ rest[q - 1] = j
        BY <1>1, <1>2, <2>2, <3>1, <3>3
      <4> QED
        BY <1>2, <1>3, <4>1
    <3> QED
      BY <3>2, <3>3
  <2> QED
    BY <2>1, <2>2
<1> QED
  BY <1>4, <1>5

---------------------------------------------------------------------------
(* The voices *)

\* release_voice
LEMMA Voiceless ==
  ASSUME NEW s \in StreamType
  PROVE  LET r == [s EXCEPT !.voice = 0]
         IN /\ r \in StreamType /\ r.voice = 0
            /\ r.packets = s.packets /\ r.queued = s.queued /\ r.base = s.base
            /\ r.sent = s.sent
  BY DEF StreamType

LEMMA ReleaseVoiceGood ==
  ASSUME NEW d, Good(d), NEW i \in Slots
  PROVE  LET e == ReleaseVoice(d, i)
         IN /\ Follows(d, e)
            /\ e.stream[i].voice = 0
            /\ \A j \in Slots : j # i => e.stream[j] = d.stream[j]
            /\ d.stream[i].voice # 0 => e.owner[d.stream[i].voice] = 0
<1> DEFINE s == d.stream[i]
           v == s.voice
           r == [s EXCEPT !.voice = 0]
           e == ReleaseVoice(d, i)
<1>1. /\ s \in StreamType /\ s.base <= s.queued /\ d.stream \in [Slots -> StreamType]
      /\ Consistent(d.stream, d.owner, d.host)
  BY Parts DEF Good, SoundType
<1>2. CASE v = 0
  BY <1>1, <1>2 DEF ReleaseVoice, Follows, SameRings
<1>3. CASE v # 0
  <2>1. v \in DOMAIN d.owner
    BY <1>1, <1>3, StreamFields DEF Consistent
  <2>2. r \in StreamType /\ r.voice = 0 /\ r.packets = s.packets /\ r.base <= r.queued
    BY <1>1, Voiceless
  <2>3. ResetVoice(d, i) = [stream |-> d.stream, owner |-> d.owner,
                           host |-> [d.host EXCEPT ![v] = Silence]]
    BY <1>3, Parts DEF ResetVoice
  <2>4. e = [stream |-> [d.stream EXCEPT ![i] = r], owner |-> [d.owner EXCEPT ![v] = 0],
             host |-> [d.host EXCEPT ![v] = Silence]]
    <3> DEFINE a == ResetVoice(d, i)
    <3>1. e = [a EXCEPT !.owner[v] = 0, !.stream[i].voice = 0]
      BY <1>3 DEF ReleaseVoice
    <3>2. /\ a.stream = d.stream /\ a.owner = d.owner
          /\ a.host = [d.host EXCEPT ![v] = Silence]
          /\ a = [stream |-> a.stream, owner |-> a.owner, host |-> a.host]
      BY <2>3
    <3> HIDE DEF a, e
    <3>3. e = [stream |-> e.stream, owner |-> e.owner, host |-> e.host]
      BY <3>1, <3>2
    <3>4. /\ e.stream = [d.stream EXCEPT ![i] = r]
          /\ e.owner = [d.owner EXCEPT ![v] = 0]
          /\ e.host = [d.host EXCEPT ![v] = Silence]
      BY <3>1, <3>2
    <3> QED
      BY <3>3, <3>4
  <2> HIDE DEF r, e
  <2>5. Consistent([d.stream EXCEPT ![i] = r], [d.owner EXCEPT ![v] = 0],
                   [d.host EXCEPT ![v] = Silence])
    BY <1>1, <1>3, <2>2, VoiceGoesBack
  <2>6. Good(e)
    BY <2>4, <2>5, Assembled
  <2>7. e.stream = [d.stream EXCEPT ![i] = r] /\ e.owner = [d.owner EXCEPT ![v] = 0]
    BY <2>4
  <2>8. SameRings(d, e) /\ e.stream[i] = r /\ e.owner[v] = 0
        /\ \A j \in Slots : j # i => e.stream[j] = d.stream[j]
    BY <1>1, <2>1, <2>2, <2>7 DEF SameRings
  <2> QED
    BY <2>2, <2>6, <2>8 DEF Follows, e
<1> QED
  BY <1>2, <1>3

\* acquire_voice
LEMMA Voiced ==
  ASSUME NEW s \in StreamType, NEW v \in Voices
  PROVE  LET r == [s EXCEPT !.voice = v, !.origin = s.sent]
         IN /\ r \in StreamType /\ r.voice = v /\ r.origin = r.sent
            /\ r.packets = s.packets /\ r.queued = s.queued /\ r.base = s.base
  BY DEF StreamType

LEMMA GiveVoiceGood ==
  ASSUME NEW d, Good(d), NEW i \in Slots, d.stream[i].voice = 0,
         NEW v \in Voices, d.owner[v] = 0
  PROVE  Follows(d, GiveVoice(d, i, v))
<1> DEFINE s == d.stream[i]
           r == [s EXCEPT !.voice = v, !.origin = s.sent]
           e == GiveVoice(d, i, v)
<1>1. /\ s \in StreamType /\ s.base <= s.queued /\ d.stream \in [Slots -> StreamType]
      /\ Consistent(d.stream, d.owner, d.host)
  BY Parts DEF Good, SoundType
<1>2. /\ r \in StreamType /\ r.voice = v /\ r.origin = r.sent /\ r.packets = s.packets
      /\ r.base <= r.queued
  BY <1>1, Voiced
<1>3. e = [stream |-> [d.stream EXCEPT ![i] = r], owner |-> [d.owner EXCEPT ![v] = i],
           host |-> d.host]
  <2>1. d = [stream |-> d.stream, owner |-> d.owner, host |-> d.host]
    BY Parts
  <2>2. e = [d EXCEPT !.owner[v] = i,
                      !.stream[i] = [@ EXCEPT !.voice = v, !.origin = d.stream[i].sent]]
    BY DEF GiveVoice
  <2> HIDE DEF e
  <2>3. e = [stream |-> e.stream, owner |-> e.owner, host |-> e.host]
    BY <2>1, <2>2
  <2>4. /\ e.stream = [d.stream EXCEPT ![i] = r] /\ e.owner = [d.owner EXCEPT ![v] = i]
        /\ e.host = d.host
    BY <2>1, <2>2
  <2> QED
    BY <2>3, <2>4
<1> HIDE DEF r, e
<1>4. Consistent([d.stream EXCEPT ![i] = r], [d.owner EXCEPT ![v] = i], d.host)
  BY <1>1, <1>2, VoiceGiven
<1>5. Good(e) /\ e.stream = [d.stream EXCEPT ![i] = r]
  BY <1>3, <1>4, Assembled
<1>6. SameRings(d, e)
  BY <1>1, <1>2, <1>5 DEF SameRings
<1> QED
  BY <1>5, <1>6 DEF Follows, e

LEMMA AcquireVoiceGood ==
  ASSUME Placed, recent \in Seq(Slots), NEW d, Good(d), NEW i \in Slots
  PROVE  Follows(d, AcquireVoice(d, i))
<1> DEFINE free == {v \in Voices : d.owner[v] = 0}
           victims == {j \in Idle(d) : d.stream[j].voice # 0}
           j == LongestIdle(victims)
<1>1. CASE d.stream[i].voice # 0
  BY <1>1 DEF AcquireVoice, Follows, SameRings
<1>2. CASE d.stream[i].voice = 0 /\ free # {}
  <2>1. Min(free) \in Voices /\ d.owner[Min(free)] = 0
    BY <1>2, MinOf, Numbers
  <2>2. AcquireVoice(d, i) = GiveVoice(d, i, Min(free))
    BY <1>2 DEF AcquireVoice
  <2> QED
    BY <1>2, <2>1, <2>2, GiveVoiceGood
<1>3. CASE d.stream[i].voice = 0 /\ free = {} /\ victims # {}
  <2> DEFINE e == ReleaseVoice(d, j)
             v == d.stream[j].voice
  <2>1. j \in victims /\ j \in Slots /\ v # 0
    BY <1>3, LongestOf DEF Idle
  <2>2. j # i
    BY <1>3, <2>1
  <2>3. v \in Voices
    BY <2>1, Parts, StreamFields
  <2> HIDE DEF j
  <2>4. Follows(d, e) /\ e.stream[i].voice = 0 /\ e.owner[v] = 0
    BY <1>3, <2>1, <2>2, ReleaseVoiceGood
  <2>5. Follows(e, GiveVoice(e, i, v))
    BY <2>3, <2>4, GiveVoiceGood DEF Follows
  <2>6. AcquireVoice(d, i) = GiveVoice(e, i, v)
    BY <1>3 DEF AcquireVoice, j
  <2> QED
    BY <2>4, <2>5, <2>6 DEF Follows, SameRings
<1>4. CASE d.stream[i].voice = 0 /\ free = {} /\ victims = {}
  BY <1>4 DEF AcquireVoice, Follows, SameRings
<1> QED
  BY <1>1, <1>2, <1>3, <1>4

---------------------------------------------------------------------------
(* The clock, and what a call submits *)

\* The clock is between its base and the end of the data.
LEMMA ConsumedType ==
  ASSUME NEW s \in StreamType, s.base <= s.queued, NEW lag \in Nat
  PROVE  /\ Consumed(s, lag) \in Nat
         /\ s.base <= Consumed(s, lag) /\ Consumed(s, lag) <= s.queued
         /\ s.elapsed = lag => Consumed(s, lag) = s.base
<1> DEFINE gone == IF ~s.paused /\ s.running /\ s.elapsed > lag THEN s.elapsed - lag ELSE 0
<1>1. s.queued \in Nat /\ s.base \in Nat /\ s.elapsed \in Nat
  BY StreamFields
<1>2. gone \in Nat /\ (s.elapsed = lag => gone = 0)
  BY <1>1
<1>3. Consumed(s, lag) = Least(s.queued, s.base + gone)
  BY DEF Consumed
<1> HIDE DEF gone
<1> QED
  BY <1>1, <1>2, <1>3 DEF Least

\* A change of stream i that leaves its voice, and what was sent, alone.
LEMMA Aside ==
  ASSUME NEW d, Good(d), NEW i \in Slots, NEW r \in StreamType,
         r.voice = d.stream[i].voice, r.base <= r.queued,
         r.output = d.stream[i].output, r.paused = d.stream[i].paused,
         r.sent = d.stream[i].sent, r.origin = d.stream[i].origin
  PROVE  /\ Good(Put(d, i, r))
         /\ Put(d, i, r).stream[i] = r
         /\ \A j \in Slots : j # i => Put(d, i, r).stream[j] = d.stream[j]
<1>1. r.voice # 0 => ExactAt(r, d.host[r.voice])
  BY DEF Good, Consistent, Exact, ExactAt
<1> DEFINE e == Put(d, i, r)
<1>2. /\ Good(e)
      /\ e = [stream |-> [d.stream EXCEPT ![i] = r], owner |-> d.owner, host |-> d.host]
  BY <1>1, OnlyStream
<1>3. d.stream \in [Slots -> StreamType]
  BY DEF Good, SoundType
<1> HIDE DEF e
<1>4. e.stream = [d.stream EXCEPT ![i] = r] /\ e.owner = d.owner /\ e.host = d.host
  BY <1>2
<1> QED
  BY <1>2, <1>3, <1>4 DEF e

\* sync_to_host
LEMMA SyncToHostGood ==
  ASSUME NEW d, Good(d), NEW i \in Slots, NEW lag \in Nat
  PROVE  /\ Follows(d, SyncToHost(d, i, lag))
         /\ LET s == d.stream[i]
                t == SyncToHost(d, i, lag).stream[i]
            IN s.output /\ ~s.paused /\ s.running /\ s.voice # 0
                 /\ d.host[s.voice].queue # << >>
               => t.base <= s.origin + d.host[s.voice].played /\ t.elapsed = lag
<1> DEFINE s == d.stream[i]
           v == s.voice
           b == Least(s.queued, s.origin + d.host[v].played)
           r == [s EXCEPT !.base = b, !.elapsed = lag]
           wet == s.output /\ ~s.paused /\ s.running /\ v # 0 /\ d.host[v].queue # << >>
           e == Put(d, i, r)
<1>1. CASE ~wet
  BY <1>1 DEF SyncToHost, Follows, SameRings
<1>2. CASE wet
  <2>1. s \in StreamType /\ v \in Voices
    BY <1>2, Parts, StreamFields
  <2>2. d.host[v].played \in Nat
    BY <2>1 DEF Good, SoundType, HostType
  <2>3. b \in Nat /\ b <= s.queued /\ b <= s.origin + d.host[v].played
    BY <2>1, <2>2, StreamFields DEF Least
  <2> HIDE DEF b, s
  <2>4. /\ r \in StreamType /\ r.base = b /\ r.elapsed = lag
        /\ r.packets = s.packets /\ r.queued = s.queued
        /\ r.sent = s.sent /\ r.origin = s.origin /\ r.paused = s.paused
        /\ r.output = s.output /\ r.voice = s.voice
    <3>1. s \in StreamType /\ b \in Nat
      BY <2>1, <2>3
    <3> QED
      BY <3>1 DEF StreamType
  <2> USE DEF s
  <2> HIDE DEF r
  <2>5. /\ Good(e) /\ e.stream[i] = r
        /\ \A j \in Slots : j # i => e.stream[j] = d.stream[j]
    BY <2>3, <2>4, Aside
  <2>6. SyncToHost(d, i, lag) = e
    BY <1>2 DEF SyncToHost, Put, r, b
  <2> HIDE DEF e
  <2> QED
    BY <2>3, <2>4, <2>5, <2>6 DEF Follows, SameRings
<1> QED
  BY <1>1, <1>2

LEMMA Joined ==
  ASSUME NEW S, NEW a \in Seq(S), NEW b \in Seq(S)
  PROVE  a \o b \in Seq(S) /\ Len(a \o b) = Len(a) + Len(b)
  OBVIOUS

LEMMA Follow ==
  ASSUME NEW h \in HostType, NEW s \in StreamType, ExactAt(s, h), NEW n \in Nat,
         NEW r \in StreamType, r.sent = s.sent + n, r.origin = s.origin,
         r.paused = s.paused, r.output = s.output
  PROVE  LET g == [h EXCEPT !.queue = @ \o [k \in 1..n |-> s.sent + k - 1]]
         IN g \in HostType /\ Len(g.queue) = Len(h.queue) + n /\ ExactAt(r, g)
<1> DEFINE more == [k \in 1..n |-> s.sent + k - 1]
           q == h.queue \o more
           g == [h EXCEPT !.queue = @ \o [k \in 1..n |-> s.sent + k - 1]]
<1>1. s.sent \in Nat /\ h.queue \in Seq(Nat) /\ h.played \in Nat /\ s.origin \in Nat
  BY StreamFields DEF HostType
<1>2. more \in Seq(Nat) /\ Len(more) = n /\ \A k \in 1..n : more[k] = s.sent + k - 1
  BY <1>1
<1> HIDE DEF more
<1>3. /\ q \in Seq(Nat) /\ Len(q) = Len(h.queue) + n /\ DOMAIN q = 1..Len(q)
      /\ Len(h.queue) \in Nat /\ Len(q) \in Nat
      /\ \A k \in 1..Len(h.queue) : q[k] = h.queue[k]
  <2>1. q \in Seq(Nat) /\ Len(q) = Len(h.queue) + n
    <3> DEFINE a == h.queue
    <3>1. a \in Seq(Nat) /\ more \in Seq(Nat) /\ Len(more) = n
      BY <1>1, <1>2
    <3> HIDE DEF a
    <3>2. a \o more \in Seq(Nat) /\ Len(a \o more) = Len(a) + n
      BY <3>1, Joined
    <3> QED
      BY <3>2 DEF a
  <2>2. ASSUME NEW k \in 1..Len(h.queue)  PROVE q[k] = h.queue[k]
    BY <1>1, <1>2
  <2> QED
    BY SMTT(30), <1>1, <2>1, <2>2
<1>4. ASSUME NEW k \in 1..Len(q), k \notin 1..Len(h.queue)
      PROVE  q[k] = s.sent + (k - Len(h.queue)) - 1
  <2>1. k - Len(h.queue) \in 1..n /\ q[k] = more[k - Len(h.queue)]
    BY <1>1, <1>2, <1>3, <1>4
  <2> QED
    BY <1>2, <2>1
<1>5. g.queue = q /\ g.played = h.played /\ g \in HostType
  BY <1>3 DEF HostType, more
<1> HIDE DEF q, g
<1>6. ASSUME s.output, ~s.paused
      PROVE  /\ \A k \in DOMAIN q : q[k] = s.origin + h.played + k - 1
             /\ s.origin + h.played + Len(q) = s.sent + n
  <2>1. /\ \A k \in 1..Len(h.queue) : h.queue[k] = s.origin + h.played + k - 1
        /\ s.origin + h.played + Len(h.queue) = s.sent
    BY SMTT(30), <1>1, <1>6 DEF ExactAt
  <2>2. ASSUME NEW k \in 1..Len(q)  PROVE q[k] = s.origin + h.played + k - 1
    <3>1. CASE k \in 1..Len(h.queue)
      BY <1>3, <2>1, <3>1
    <3>2. CASE k \notin 1..Len(h.queue)
      <4>1. q[k] = s.sent + (k - Len(h.queue)) - 1
        BY <1>4, <3>2
      <4> QED
        BY SMTT(30), <1>1, <1>3, <2>1, <4>1
    <3> QED
      BY <3>1, <3>2
  <2> QED
    BY <1>1, <1>3, <2>1, <2>2
<1>7. ExactAt(r, g)
  BY <1>5, <1>6 DEF ExactAt
<1> QED
  BY <1>3, <1>5, <1>7 DEF g

\* pump: to the host, from its voice's queue on.
LEMMA SubmitGood ==
  ASSUME NEW d, Good(d), NEW i \in Slots, NEW lag \in Nat, d.stream[i].voice # 0
  PROVE  Follows(d, Submit(d, i, lag))
<1> DEFINE s == d.stream[i]
           v == s.voice
           h == d.host[v]
           target == Least(s.queued, Consumed(s, lag) + Lead)
           gap == s.packets = << >> \/ s.sent < Head(s.packets).start
           room == Depth - Len(h.queue)
           n == IF device THEN Least(target - s.sent, room) ELSE 0
           r == [s EXCEPT !.sent = @ + n]
           g == [h EXCEPT !.queue = @ \o [k \in 1..n |-> s.sent + k - 1]]
           e == [d EXCEPT !.stream[i].sent = @ + n,
                          !.host[v].queue = @ \o [k \in 1..n |-> s.sent + k - 1]]
<1>1. /\ s \in StreamType /\ s.base <= s.queued /\ v \in Voices
      /\ d.stream \in [Slots -> StreamType] /\ d.host \in [Voices -> HostType]
      /\ d = [stream |-> d.stream, owner |-> d.owner, host |-> d.host]
      /\ Consistent(d.stream, d.owner, d.host)
  BY Parts, StreamFields DEF Good, SoundType
<1>2. h \in HostType /\ Len(h.queue) \in Nat /\ Len(h.queue) <= Depth /\ ExactAt(s, h)
  BY <1>1 DEF Consistent, Exact, Within, HostType
<1>3. s.queued \in Nat /\ s.sent \in Nat /\ Consumed(s, lag) \in Nat
  BY <1>1, StreamFields, ConsumedType
<1>4. target \in Nat
  BY <1>3, Numbers DEF Least
<1>5. CASE s.sent >= target
  <2>1. Submit(d, i, lag) = d
    <3> HIDE DEF gap, n
    <3>1. Submit(d, i, lag) = CASE s.sent >= target -> d
                                [] s.sent < target /\ gap -> StartVoiceAt(d, i, target)
                                [] OTHER -> e
      BY DEF Submit, gap, n
    <3>2. s.sent >= target /\ ~(s.sent < target)
      BY <1>3, <1>4, <1>5
    <3> HIDE DEF target, s, e
    <3> QED
      BY <3>1, <3>2
  <2> QED
    BY <2>1 DEF Follows, SameRings
<1>6. CASE s.sent < target /\ gap
  <2>1. Submit(d, i, lag) = StartVoiceAt(d, i, target)
    BY <1>3, <1>4, <1>6 DEF Submit
  <2> HIDE DEF target
  <2> QED
    BY <1>4, <2>1, StartVoiceAtGood
<1>7. CASE s.sent < target /\ ~gap
  <2>1. Submit(d, i, lag) = e
    BY <1>3, <1>4, <1>7 DEF Submit
  <2>2. n \in Nat /\ n <= room
    <3> HIDE DEF target, s, h
    <3>1. target - s.sent \in Nat /\ room \in Nat
      BY <1>2, <1>3, <1>4, <1>7, Numbers
    <3> HIDE DEF room
    <3> QED
      BY <3>1 DEF Least
  <2> HIDE DEF n
  <2>3. /\ r \in StreamType /\ r.sent = s.sent + n /\ r.packets = s.packets
        /\ r.queued = s.queued /\ r.base = s.base /\ r.origin = s.origin
        /\ r.paused = s.paused /\ r.output = s.output /\ r.voice = s.voice
    <3> HIDE DEF s
    <3>1. s.sent + n \in Nat
      BY <1>3, <2>2
    <3> QED
      BY <1>1, <3>1 DEF StreamType
  <2> HIDE DEF r
  <2>4. g \in HostType /\ Len(g.queue) = Len(h.queue) + n /\ ExactAt(r, g)
    <3> HIDE DEF s, h
    <3> QED
      BY <1>1, <1>2, <2>2, <2>3, Follow
  <2>5. Len(g.queue) <= Depth
    <3> HIDE DEF g, h
    <3> QED
      BY <1>2, <2>2, <2>4, Numbers
  <2>6. /\ e.stream = [d.stream EXCEPT ![i] = r] /\ e.owner = d.owner
        /\ e.host = [d.host EXCEPT ![v] = g]
        /\ e = [stream |-> e.stream, owner |-> e.owner, host |-> e.host]
    <3> HIDE DEF g
    <3>1. e = [d EXCEPT !.stream[i] = r, !.host[v] = g]
      BY DEF r, g
    <3> HIDE DEF e
    <3> QED
      BY <1>1, <3>1
  <2> HIDE DEF e, g
  <2>7. Consistent([d.stream EXCEPT ![i] = r], d.owner, [d.host EXCEPT ![v] = g])
    <3>1. Consistent([d.stream EXCEPT ![i] = r], d.owner, [d.host EXCEPT ![r.voice] = g])
      BY <1>1, <2>3, <2>4, <2>5, VoiceMoves
    <3> QED
      BY <2>3, <3>1
  <2>8. Good(e)
    BY <2>6, <2>7, Assembled
  <2>9. SameRings(d, e)
    BY <1>1, <2>3, <2>6 DEF SameRings
  <2> QED
    BY <2>1, <2>8, <2>9 DEF Follows
<1> QED
  BY <1>3, <1>4, <1>5, <1>6, <1>7

LEMMA PumpGood ==
  ASSUME Placed, recent \in Seq(Slots), NEW d, Good(d), NEW i \in Slots, NEW lag \in Nat
  PROVE  Follows(d, Pump(d, i, lag))
<1> DEFINE s == d.stream[i]
           a == AcquireVoice(d, i)
           c == CatchUp(a, i, lag)
           still == \/ ~s.output \/ s.paused \/ ~s.running
                    \/ s.sent >= s.queued
                    \/ a.stream[i].voice = 0
<1>1. CASE still
  BY <1>1 DEF Pump, Follows, SameRings
<1>2. CASE ~still
  <2>1. Follows(d, a) /\ a.stream[i].voice # 0
    BY <1>2, AcquireVoiceGood
  <2>2. Pump(d, i, lag) = Submit(c, i, lag)
    BY <1>2 DEF Pump
  <2> HIDE DEF a
  <2>3. Follows(a, c) /\ c.stream[i].voice # 0
    <3> DEFINE u == a.stream[i]
               p == Consumed(u, lag)
    <3>1. u \in StreamType /\ u.base <= u.queued
      BY <2>1, Parts DEF Follows
    <3>2. p \in Nat
      BY <3>1, ConsumedType
    <3>3. CASE u.sent < p
      <4>1. c = StartVoiceAt(a, i, p)
        BY <3>3 DEF CatchUp
      <4> HIDE DEF p
      <4> QED
        <5>1. Good(a) /\ SameRings(d, a)
          BY <2>1 DEF Follows
        <5>2. Follows(a, c) /\ c.stream[i].voice = a.stream[i].voice
          BY <2>1, <3>2, <4>1, <5>1, StartVoiceAtGood
        <5> QED
          BY <2>1, <5>2
    <3>4. CASE ~ (u.sent < p)
      <4>1. c = a
        BY <3>4 DEF CatchUp
      <4> QED
        BY <2>1, <4>1 DEF Follows, SameRings
    <3> QED
      BY <3>3, <3>4
  <2> HIDE DEF c
  <2>4. Follows(c, Submit(c, i, lag))
    BY <2>3, SubmitGood DEF Follows
  <2> QED
    BY <2>1, <2>2, <2>3, <2>4 DEF Follows, SameRings
<1> QED
  BY <1>1, <1>2

LEMMA GiveBackGood ==
  ASSUME NEW d, Good(d), NEW i \in Slots, NEW quiet
  PROVE  Follows(d, GiveBackIdle(d, i, quiet))
  BY ReleaseVoiceGood DEF GiveBackIdle, Follows, SameRings

---------------------------------------------------------------------------
(* Calls that change a stream *)

\* Ring i alone has changed, to q.
RingBecomes(d, e, i, q) ==
  /\ e.stream[i].packets = q
  /\ \A j \in Slots : j # i => e.stream[j].packets = d.stream[j].packets

\* flush_stream
LEMMA FlushedGood ==
  ASSUME NEW d, Good(d), NEW i \in Slots
  PROVE  Good(Flushed(d, i)) /\ RingBecomes(d, Flushed(d, i), i, << >>)
<1> DEFINE s == d.stream[i]
           a == StartVoiceAt(d, i, s.queued)
           u == a.stream[i]
           r == [u EXCEPT !.packets = << >>, !.base = s.queued,
                          !.running = FALSE, !.elapsed = 0]
           e == Put(a, i, r)
<1>1. s \in StreamType /\ s.queued \in Nat
  BY Parts, StreamFields
<1>2. Follows(d, a) /\ u \in StreamType /\ u.queued = s.queued
  BY <1>1, StartVoiceAtGood
<1>3. Flushed(d, i) = e
  BY DEF Flushed, Put
<1>4. u \in StreamType /\ u.queued = s.queued
  BY <1>2
<1> HIDE DEF a
<1> DEFINE q == s.queued
<1>5. /\ r \in StreamType /\ r.voice = u.voice /\ r.base = q /\ r.queued = u.queued
      /\ r.output = u.output /\ r.paused = u.paused /\ r.sent = u.sent
      /\ r.origin = u.origin /\ r.packets = << >>
  <2> HIDE DEF u, q
  <2>1. q \in Nat
    BY <1>1 DEF q
  <2>2. r = [u EXCEPT !.packets = << >>, !.base = q, !.running = FALSE, !.elapsed = 0]
    BY DEF q
  <2>3. << >> \in Seq(PacketType)
    OBVIOUS
  <2> HIDE DEF r
  <2> QED
    BY <1>4, <2>1, <2>2, <2>3 DEF StreamType
<1> HIDE DEF r
<1>6. /\ Good(e) /\ e.stream[i] = r
      /\ \A j \in Slots : j # i => e.stream[j] = a.stream[j]
  <2>1. Good(a) /\ r.base <= r.queued
    BY <1>1, <1>2, <1>5 DEF Follows
  <2>2. r \in StreamType /\ r.voice = a.stream[i].voice /\ r.output = a.stream[i].output
        /\ r.paused = a.stream[i].paused /\ r.sent = a.stream[i].sent
        /\ r.origin = a.stream[i].origin
    BY <1>5
  <2> HIDE DEF u, e
  <2>3. Good(Put(a, i, r))
    BY <2>1, <2>2, Aside
  <2> QED
    BY <2>1, <2>2, Aside DEF e
<1> QED
  BY <1>2, <1>3, <1>5, <1>6 DEF RingBecomes, Follows, SameRings

\* Process: the packet goes in, at the end of the data.
LEMMA QueuedIs ==
  ASSUME NEW s \in StreamType, s.base <= s.queued, NEW p \in Packets,
         NEW size \in Nat, NEW lag \in Nat
  PROVE  LET r == Queued(s, p, size, lag)
             k == [id |-> p, start |-> s.queued, end |-> s.queued + size]
         IN /\ k \in PacketType
            /\ r \in StreamType /\ r.packets = Append(s.packets, k)
            /\ r.base <= r.queued /\ r.voice = s.voice /\ r.output = s.output
            /\ r.paused = s.paused /\ r.sent = s.sent /\ r.origin = s.origin
<1> DEFINE k == [id |-> p, start |-> s.queued, end |-> s.queued + size]
           a == IF Consumed(s, lag) >= s.queued THEN Restart(s, lag) ELSE s
           r == Queued(s, p, size, lag)
<1>1. /\ s.queued \in Nat /\ s.base \in Nat /\ s.queued + size \in Nat
      /\ s.packets \in Seq(PacketType) /\ s.paused \in BOOLEAN
  BY StreamFields
<1>2. k \in PacketType
  BY <1>1 DEF PacketType
<1>3. /\ a \in StreamType /\ a.packets = s.packets /\ a.queued = s.queued
      /\ a.base <= s.queued /\ a.voice = s.voice /\ a.output = s.output
      /\ a.paused = s.paused /\ a.sent = s.sent /\ a.origin = s.origin
  <2>1. CASE Consumed(s, lag) >= s.queued
    <3>1. a = [s EXCEPT !.base = s.queued, !.running = ~s.paused, !.elapsed = lag]
      BY <2>1 DEF Restart
    <3>2. (~ s.paused) \in BOOLEAN /\ s.queued <= s.queued
      BY <1>1
    <3> HIDE DEF a
    <3> QED
      BY <1>1, <3>1, <3>2 DEF StreamType
  <2>2. CASE ~ (Consumed(s, lag) >= s.queued)
    BY <2>2
  <2> QED
    BY <2>1, <2>2
<1>4. r = [a EXCEPT !.packets = Append(@, k), !.queued = @ + size]
  BY DEF Queued
<1> HIDE DEF a, r, k
<1>5. Append(a.packets, k) \in Seq(PacketType) /\ a.queued + size \in Nat
  BY <1>1, <1>2, <1>3
<1>6. /\ r \in StreamType /\ r.packets = Append(a.packets, k)
      /\ r.queued = a.queued + size /\ r.base = a.base /\ r.voice = a.voice
      /\ r.output = a.output /\ r.paused = a.paused /\ r.sent = a.sent
      /\ r.origin = a.origin
  BY <1>3, <1>4, <1>5 DEF StreamType
<1>7. r.base <= r.queued
  BY <1>1, <1>3, <1>6, StreamFields
<1> QED
  BY <1>2, <1>3, <1>6, <1>7 DEF r, k

\* forget_stream
LEMMA NoStreamType == NoStream \in StreamType /\ NoStream.voice = 0
                      /\ NoStream.base <= NoStream.queued /\ NoStream.packets = << >>
  BY DEF NoStream, StreamType

LEMMA ForgottenGood ==
  ASSUME NEW d, Good(d), NEW i \in Slots
  PROVE  /\ Good(Forgotten(d, i)) /\ RingBecomes(d, Forgotten(d, i), i, << >>)
         /\ Forgotten(d, i).stream[i] = NoStream
<1> DEFINE a == ReleaseVoice(d, i)
           e == Put(a, i, NoStream)
<1>1. Follows(d, a) /\ a.stream[i].voice = 0
  BY ReleaseVoiceGood
<1>2. Forgotten(d, i) = e
  BY DEF Forgotten, Put
<1> HIDE DEF a
<1>3. /\ Good(e)
      /\ e = [stream |-> [a.stream EXCEPT ![i] = NoStream], owner |-> a.owner,
              host |-> a.host]
  BY <1>1, NoStreamType, OnlyStream DEF Follows
<1>4. a.stream \in [Slots -> StreamType]
  BY <1>1 DEF Follows, Good, SoundType
<1> HIDE DEF e
<1>5. e.stream = [a.stream EXCEPT ![i] = NoStream]
  BY <1>3
<1>6. e.stream[i] = NoStream /\ \A j \in Slots : j # i => e.stream[j] = a.stream[j]
  BY <1>4, <1>5
<1> QED
  BY <1>1, <1>2, <1>3, <1>6, NoStreamType DEF RingBecomes, Follows, SameRings

\* Pause: the clock stops where it is, the voice is emptied.
LEMMA PausedGood ==
  ASSUME NEW d, Good(d), NEW i \in Slots, NEW lag \in Nat
  PROVE  Follows(d, Paused(d, i, lag))
<1> DEFINE s == d.stream[i]
           c == Consumed(s, lag)
           r == [s EXCEPT !.base = c, !.paused = TRUE, !.running = FALSE,
                          !.elapsed = 0, !.sent = c]
           e == Paused(d, i, lag)
<1>1. /\ s \in StreamType /\ s.base <= s.queued /\ d.stream \in [Slots -> StreamType]
      /\ c \in Nat /\ c <= s.queued
  BY Parts, ConsumedType DEF Good, SoundType
<1>2. CASE s.paused
  BY <1>2 DEF Paused, Follows, SameRings
<1>3. CASE ~s.paused
  <2> HIDE DEF c
  <2>1. /\ r \in StreamType /\ r.paused = TRUE /\ r.packets = s.packets /\ r.base = c
        /\ r.queued = s.queued /\ r.voice = s.voice
    <3> HIDE DEF s
    <3> QED
      BY <1>1 DEF StreamType
  <2>2. e = Anew(d, i, r)
    <3> DEFINE a == ResetVoice(d, i)
    <3>1. e = [a EXCEPT !.stream[i] = r]
      BY <1>3 DEF Paused, c
    <3>2. /\ a.stream = d.stream /\ a.owner = d.owner
          /\ a.host = IF s.voice = 0 THEN d.host ELSE [d.host EXCEPT ![s.voice] = Silence]
          /\ a = [stream |-> a.stream, owner |-> a.owner, host |-> a.host]
      BY ResetIs
    <3> HIDE DEF a, e, r
    <3> QED
      BY <2>1, <3>1, <3>2 DEF Anew
  <2> HIDE DEF r, e
  <2>3. /\ Good(e) /\ e.stream[i] = r
        /\ \A j \in Slots : j # i => e.stream[j] = d.stream[j]
    <3>1. r.base <= r.queued /\ r.voice = d.stream[i].voice
      BY <1>1, <2>1
    <3> QED
      BY <2>1, <2>2, <3>1, AnewGood
  <2> QED
    BY <2>1, <2>3 DEF Follows, SameRings, e
<1> QED
  BY <1>2, <1>3

\* resume_stream, with refeed.
LEMMA ResumedGood ==
  ASSUME Placed, recent \in Seq(Slots), NEW d, Good(d), NEW i \in Slots, NEW lag \in Nat
  PROVE  Follows(d, Resumed(d, i, lag))
<1> DEFINE s == d.stream[i]
           more == s.base < s.queued
           r == [s EXCEPT !.paused = FALSE, !.running = more,
                          !.elapsed = IF more THEN lag ELSE 0,
                          !.base = IF more THEN @ ELSE s.queued]
           p == Consumed(r, lag)
           t == [r EXCEPT !.sent = p, !.origin = p]
           b == Put(d, i, r)
           a == StartVoiceAt(b, i, p)
<1>1. /\ s \in StreamType /\ s.base <= s.queued /\ d.stream \in [Slots -> StreamType]
      /\ s.queued \in Nat /\ s.base \in Nat
      /\ d = [stream |-> d.stream, owner |-> d.owner, host |-> d.host]
  BY Parts, StreamFields DEF Good, SoundType
<1>2. CASE ~s.paused
  BY <1>2 DEF Resumed, Follows, SameRings
<1>3. CASE s.paused
  <2>1. Resumed(d, i, lag) = Pump(a, i, lag)
    BY <1>3 DEF Resumed, Put
  <2>2. /\ r \in StreamType /\ r.packets = s.packets /\ r.base <= r.queued
        /\ r.voice = s.voice
    <3>1. more \in BOOLEAN /\ (IF more THEN lag ELSE 0) \in Nat
          /\ (IF more THEN s.base ELSE s.queued) \in Nat
          /\ (IF more THEN s.base ELSE s.queued) <= s.queued
      BY <1>1
    <3> HIDE DEF s, more
    <3>2. /\ r \in StreamType /\ r.packets = s.packets /\ r.queued = s.queued
          /\ r.base = (IF more THEN s.base ELSE s.queued) /\ r.voice = s.voice
      BY <1>1, <3>1 DEF StreamType
    <3> HIDE DEF r
    <3> QED
      BY <3>1, <3>2
  <2>3. b.stream = [d.stream EXCEPT ![i] = r] /\ b.owner = d.owner /\ b.host = d.host
        /\ b = [stream |-> b.stream, owner |-> b.owner, host |-> b.host]
    <3> HIDE DEF r
    <3>1. b = [stream |-> [d.stream EXCEPT ![i] = r], owner |-> d.owner, host |-> d.host]
      BY <1>1 DEF Put
    <3> HIDE DEF b
    <3> QED
      BY <3>1
  <2> HIDE DEF r
  <2>4. p \in Nat
    BY <2>2, ConsumedType
  <2> HIDE DEF p
  <2>5. /\ t \in StreamType /\ t.sent = p /\ t.origin = p /\ t.packets = r.packets
        /\ t.queued = r.queued /\ t.base = r.base /\ t.voice = r.voice
    BY <2>2, <2>4 DEF StreamType
  <2>6. a = Anew(d, i, t)
    <3> HIDE DEF b, t
    <3> DEFINE z == ResetVoice(b, i)
    <3>1. b.stream[i] = r
      BY <1>1, <2>3
    <3>2. z = [stream |-> b.stream, owner |-> b.owner,
               host |-> IF r.voice = 0 THEN b.host
                        ELSE [b.host EXCEPT ![r.voice] = Silence]]
      BY <2>3, <3>1 DEF ResetVoice
    <3>3. a = [z EXCEPT !.stream[i] = [z.stream[i] EXCEPT !.sent = p, !.origin = p]]
      BY DEF StartVoiceAt
    <3> HIDE DEF z, a
    <3>4. z.stream = b.stream /\ z.owner = b.owner
          /\ z.host = IF r.voice = 0 THEN b.host
                      ELSE [b.host EXCEPT ![r.voice] = Silence]
      BY <3>2
    <3>5. a = [z EXCEPT !.stream[i] = t]
      BY <3>1, <3>3, <3>4 DEF t
    <3>6. [b.stream EXCEPT ![i] = t] = [d.stream EXCEPT ![i] = t]
      BY <1>1, <2>3
    <3> QED
      BY <2>3, <2>5, <3>2, <3>4, <3>5, <3>6 DEF Anew
  <2> HIDE DEF t, b, a
  <2>7. /\ Good(a) /\ a.stream[i] = t
        /\ \A j \in Slots : j # i => a.stream[j] = d.stream[j]
    <3>1. t.base <= t.queued /\ t.voice = d.stream[i].voice
      BY <2>2, <2>5
    <3> QED
      BY <2>5, <2>6, <3>1, AnewGood
  <2>8. Follows(a, Pump(a, i, lag))
    BY <2>7, PumpGood
  <2>9. SameRings(d, a)
    BY <2>2, <2>5, <2>7 DEF SameRings
  <2> QED
    BY <2>1, <2>8, <2>9 DEF Follows, SameRings
<1> QED
  BY <1>2, <1>3

\* record_stream
LEMMA MadeGood ==
  ASSUME NEW d, Good(d), NEW i \in Slots, NEW o \in Objects,
         NEW cb \in BOOLEAN, NEW out \in BOOLEAN
  PROVE  LET e == [Forgotten(d, i) EXCEPT
                     !.stream[i] = [@ EXCEPT !.object = o, !.callback = cb, !.output = out]]
         IN Good(e) /\ RingBecomes(d, e, i, << >>)
<1> DEFINE a == Forgotten(d, i)
           r == [NoStream EXCEPT !.object = o, !.callback = cb, !.output = out]
           e == [a EXCEPT !.stream[i] =
                   [@ EXCEPT !.object = o, !.callback = cb, !.output = out]]
<1>1. /\ Good(a) /\ RingBecomes(d, a, i, << >>) /\ a.stream[i] = NoStream
  BY ForgottenGood
<1> HIDE DEF a
<1>2. e = Put(a, i, r)
  <2>1. e = [a EXCEPT !.stream[i] =
               [a.stream[i] EXCEPT !.object = o, !.callback = cb, !.output = out]]
    OBVIOUS
  <2> QED
    BY <1>1, <2>1 DEF Put
<1>3. /\ r \in StreamType /\ r.packets = << >> /\ r.base <= r.queued /\ r.voice = 0
  <2>1. /\ r \in StreamType /\ r.packets = NoStream.packets /\ r.base = NoStream.base
        /\ r.queued = NoStream.queued /\ r.voice = NoStream.voice
    BY NoStreamType DEF StreamType
  <2> QED
    BY <2>1, NoStreamType
<1>4. NoStream.voice = 0
  BY NoStreamType
<1> HIDE DEF r
<1>5. /\ Good(Put(a, i, r)) /\ Put(a, i, r).stream[i] = r
      /\ \A j \in Slots : j # i => Put(a, i, r).stream[j] = a.stream[j]
  <2>1. Good(Put(a, i, r))
        /\ Put(a, i, r) = [stream |-> [a.stream EXCEPT ![i] = r], owner |-> a.owner,
                           host |-> a.host]
    BY <1>1, <1>3, <1>4, OnlyStream
  <2>2. Put(a, i, r).stream = [a.stream EXCEPT ![i] = r]
    BY <2>1
  <2>3. a.stream \in [Slots -> StreamType]
    BY <1>1 DEF Good, SoundType
  <2> QED
    BY <2>1, <2>2, <2>3
<1>6. Good(e) /\ RingBecomes(d, e, i, << >>)
  BY <1>1, <1>2, <1>3, <1>5 DEF RingBecomes
<1> QED
  BY <1>6 DEF a

---------------------------------------------------------------------------
(* The calls in progress, in the inductive invariant *)

\* A flush alone has packets still to complete, and what a call heard bounds
\* what it completes.
FrameOK(f) ==
  /\ f \in FrameType
  /\ f.list # << >> => f.op = "flush"
  /\ f.heard # Unheard => f.limit <= f.heard

GoodFrames(s) == s \in Seq(FrameType) /\ \A k \in DOMAIN s : FrameOK(s[k])

Calling ==
  /\ lock \in Actors \cup {Nobody}
  /\ DOMAIN frames = Actors /\ frames = [a \in Actors |-> frames[a]]
  /\ \A a \in Actors : GoodFrames(frames[a])
  /\ \A a \in Actors : frames[a] # << >> <=> lock = a

\* What the calls of s have still to complete.
ListOf(s, n) == IF n \in DOMAIN s THEN s[n].list ELSE << >>

LEMMA Pushed ==
  ASSUME NEW s, GoodFrames(s), NEW f, FrameOK(f)
  PROVE  /\ GoodFrames(Append(s, f)) /\ Append(s, f) # << >>
         /\ \A n \in Nat \ {0} :
              ListOf(Append(s, f), n) = IF n = Len(s) + 1 THEN f.list ELSE ListOf(s, n)
<1>1. s \in Seq(FrameType) /\ f \in FrameType
  BY DEF GoodFrames, FrameOK
<1>2. /\ Append(s, f) \in Seq(FrameType) /\ Len(Append(s, f)) = Len(s) + 1
      /\ \A k \in 1..Len(s) : Append(s, f)[k] = s[k]
      /\ Append(s, f)[Len(s) + 1] = f
      /\ DOMAIN Append(s, f) = 1..(Len(s) + 1) /\ DOMAIN s = 1..Len(s) /\ Len(s) \in Nat
  BY <1>1
<1>3. \A k \in 1..(Len(s) + 1) : FrameOK(Append(s, f)[k])
  BY <1>2 DEF GoodFrames
<1>4. ASSUME NEW n \in Nat \ {0}
      PROVE  ListOf(Append(s, f), n) = IF n = Len(s) + 1 THEN f.list ELSE ListOf(s, n)
  BY <1>2 DEF ListOf
<1> QED
  BY <1>2, <1>3, <1>4 DEF GoodFrames

LEMMA Popped ==
  ASSUME NEW s, GoodFrames(s), s # << >>
  PROVE  LET u == SubSeq(s, 1, Len(s) - 1)
         IN /\ GoodFrames(u) /\ FrameOK(s[Len(s)]) /\ Len(u) = Len(s) - 1
            /\ Len(s) \in Nat \ {0}
            /\ \A n \in Nat \ {0} :
                 ListOf(u, n) = IF n = Len(s) THEN << >> ELSE ListOf(s, n)
<1> DEFINE u == SubSeq(s, 1, Len(s) - 1)
<1>1. s \in Seq(FrameType) /\ Len(s) \in Nat \ {0} /\ DOMAIN s = 1..Len(s)
  BY DEF GoodFrames
<1>2. /\ u \in Seq(FrameType) /\ Len(u) = Len(s) - 1 /\ DOMAIN u = 1..(Len(s) - 1)
      /\ \A k \in 1..(Len(s) - 1) : u[k] = s[k]
  BY <1>1
<1> HIDE DEF u
<1>3. \A k \in 1..(Len(s) - 1) : FrameOK(u[k])
  BY <1>1, <1>2 DEF GoodFrames
<1>4. ASSUME NEW n \in Nat \ {0}
      PROVE  ListOf(u, n) = IF n = Len(s) THEN << >> ELSE ListOf(s, n)
  <2> DEFINE m == Len(s)
  <2>1. /\ m \in Nat /\ n \in Nat /\ n # 0 /\ DOMAIN s = 1..m /\ DOMAIN u = 1..(m - 1)
        /\ \A k \in 1..(m - 1) : u[k] = s[k]
    BY <1>1, <1>2
  <2> HIDE DEF m
  <2>2. CASE n < m
    <3>1. n \in 1..(m - 1) /\ n \in 1..m /\ n # m
      BY <2>1, <2>2
    <3> QED
      BY <2>1, <3>1 DEF ListOf, m
  <2>3. CASE n = m
    <3>1. n \notin 1..(m - 1)
      BY <2>1, <2>3
    <3> QED
      BY <2>1, <2>3, <3>1 DEF ListOf, m
  <2>4. CASE n > m
    <3>1. n \notin 1..(m - 1) /\ n \notin 1..m /\ n # m
      BY <2>1, <2>4
    <3> QED
      BY <2>1, <3>1 DEF ListOf, m
  <2> QED
    BY <2>1, <2>2, <2>3, <2>4
<1>5. FrameOK(s[Len(s)])
  BY <1>1 DEF GoodFrames
<1> QED
  BY <1>1, <1>2, <1>3, <1>4, <1>5 DEF GoodFrames, u

\* Of a's calls, the innermost and the others.
LEMMA TopOf ==
  ASSUME Calling, NEW a \in Actors, frames[a] # << >>
  PROVE  /\ lock = a
         /\ FrameOK(Top(a)) /\ Top(a) \in FrameType /\ GoodFrames(Under(a))
         /\ Len(frames[a]) \in Nat \ {0} /\ Len(Under(a)) = Len(frames[a]) - 1
         /\ ListOf(frames[a], Len(frames[a])) = Top(a).list
         /\ \A n \in Nat \ {0} : ListOf(Under(a), n) =
              IF n = Len(frames[a]) THEN << >> ELSE ListOf(frames[a], n)
<1>1. GoodFrames(frames[a]) /\ lock = a
  BY DEF Calling
<1>2. Len(frames[a]) \in DOMAIN frames[a]
  BY <1>1 DEF GoodFrames
<1>3. ListOf(frames[a], Len(frames[a])) = Top(a).list
  BY <1>2 DEF ListOf, Top
<1> QED
  BY <1>1, <1>3, Popped DEF Top, Under, FrameOK

\* The frames of a become fs: a holds g_lock as long as it is in a call.
LEMMA FramesSet ==
  ASSUME Calling, NEW a \in Actors, lock \in {Nobody, a}, NEW fs, GoodFrames(fs),
         SetFrames(a, fs)
  PROVE  /\ Calling'
         /\ frames'[a] = fs /\ \A b \in Actors : b # a => frames'[b] = frames[b]
<1>1. /\ frames'[a] = fs /\ \A b \in Actors : b # a => frames'[b] = frames[b]
      /\ DOMAIN frames' = Actors /\ frames' = [b \in Actors |-> frames'[b]]
  BY DEF Calling, SetFrames
<1>2. \A b \in Actors : GoodFrames(frames'[b])
  BY <1>1 DEF Calling
<1>3. lock' = IF fs = << >> THEN Nobody ELSE a
  BY DEF SetFrames
<1>4. Nobody \notin Actors
  BY DsStreamAssumption DEF Actors
<1>5. \A b \in Actors : frames'[b] # << >> <=> lock' = b
  BY <1>1, <1>3, <1>4 DEF Calling
<1> QED
  BY <1>1, <1>2, <1>3, <1>5 DEF Calling

\* A call: in the callback it may be made from, or with no other.
LEMMA CallerGood ==
  ASSUME Calling, NEW t \in Actors
  PROVE  /\ GoodFrames(Caller(t)) /\ Len(Caller(t)) = Len(frames[t])
         /\ Len(frames[t]) \in Nat
         /\ \A n \in Nat \ {0} : ListOf(Caller(t), n) = ListOf(frames[t], n)
<1>2. CASE frames[t] = << >>
  <2>1. Caller(t) = frames[t] /\ GoodFrames(frames[t])
    BY <1>2 DEF Caller, Calling
  <2> QED
    BY <2>1 DEF GoodFrames
<1>3. CASE frames[t] # << >>
  <2> DEFINE f == Top(t)
             g == [f EXCEPT !.called = TRUE]
             l == Len(frames[t])
             u == Under(t)
  <2>1. /\ f \in FrameType /\ FrameOK(f) /\ GoodFrames(u) /\ l \in Nat \ {0}
        /\ Len(u) = l - 1 /\ ListOf(frames[t], l) = f.list
        /\ \A n \in Nat \ {0} : ListOf(u, n) =
              IF n = l THEN << >> ELSE ListOf(frames[t], n)
    BY <1>3, TopOf
  <2>2. Caller(t) = Append(u, g)
    BY <1>3 DEF Caller
  <2> HIDE DEF f, u, l
  <2>3. /\ g \in FrameType /\ g.op = f.op /\ g.list = f.list /\ g.heard = f.heard
        /\ g.limit = f.limit
    BY <2>1 DEF FrameType
  <2> HIDE DEF g
  <2>4. FrameOK(g)
    BY <2>1, <2>3 DEF FrameOK
  <2>5. /\ GoodFrames(Append(u, g))
        /\ \A n \in Nat \ {0} :
             ListOf(Append(u, g), n) = IF n = Len(u) + 1 THEN g.list ELSE ListOf(u, n)
    BY <2>1, <2>4, Pushed
  <2>6. Len(Append(u, g)) = Len(u) + 1 /\ Len(u) + 1 = l
    BY <2>1 DEF GoodFrames
  <2> QED
    BY <2>1, <2>2, <2>3, <2>5, <2>6 DEF l
<1> QED
  BY <1>2, <1>3

\* The loop over a slot: what it may complete is bounded by what is heard.
LEMMA LookingGood ==
  ASSUME NEW d, Good(d), NEW a, NEW f \in FrameType, f.list # << >> => f.op = "flush",
         NEW i \in Slots, NEW lag \in Nat
  PROVE  /\ Follows(d, Looking(d, a, f, i, lag).sound)
         /\ FrameOK(Looking(d, a, f, i, lag).frame)
         /\ Looking(d, a, f, i, lag).frame.list = f.list
<1> DEFINE s == d.stream[i]
           v == s.voice
           h == d.host[v]
           sync == Synced(f.op)
           e == IF sync THEN SyncToHost(d, i, lag) ELSE d
           wet == /\ sync /\ s.output /\ ~s.paused /\ s.running
                  /\ v # 0 /\ h.queue # << >>
           c == Consumed(e.stream[i], lag)
           heard == IF wet THEN Head(h.queue) ELSE Unheard
           g == [f EXCEPT !.slot = i, !.limit = c, !.heard = heard]
           l == Looking(d, a, f, i, lag)
<1>1. l.sound = e /\ l.frame = g
  BY DEF Looking
<1>2. Follows(d, e)
  BY SyncToHostGood DEF Follows, SameRings
<1>3. s \in StreamType /\ e.stream[i] \in StreamType
      /\ e.stream[i].base <= e.stream[i].queued
  BY <1>2, Parts DEF Follows
<1>4. c \in Nat /\ (e.stream[i].elapsed = lag => c = e.stream[i].base)
  BY <1>3, ConsumedType
<1>5. wet => c <= Head(h.queue) /\ Head(h.queue) \in Nat
  <2> SUFFICES ASSUME wet  PROVE c <= Head(h.queue) /\ Head(h.queue) \in Nat
    OBVIOUS
  <2>1. v \in Voices /\ s.origin \in Nat
    BY <1>3, StreamFields
  <2>2. h.queue \in Seq(Nat) /\ h.played \in Nat /\ ExactAt(s, h)
    BY <2>1 DEF Good, SoundType, HostType, Consistent, Exact
  <2>3. 1 \in DOMAIN h.queue /\ Head(h.queue) = h.queue[1] /\ h.queue[1] \in Nat
    <3> DEFINE q == h.queue
    <3>1. q \in Seq(Nat) /\ q # << >>
      BY <2>2
    <3> HIDE DEF q
    <3>2. 1 \in DOMAIN q /\ Head(q) = q[1] /\ q[1] \in Nat
      BY <3>1
    <3> QED
      BY <3>2 DEF q
  <2>4. h.queue[1] = s.origin + h.played + 1 - 1
    BY <2>2, <2>3 DEF ExactAt
  <2>5. e.stream[i].base <= s.origin + h.played /\ e.stream[i].elapsed = lag
    BY SyncToHostGood
  <2>6. c = e.stream[i].base
    BY <1>4, <2>5
  <2> HIDE DEF c, e, s, h
  <2> QED
    BY <2>1, <2>2, <2>3, <2>4, <2>5, <2>6
<1>6. heard \in Nat \cup {Unheard}
  BY <1>5 DEF Unheard
<1> HIDE DEF c, heard
<1>7. /\ g \in FrameType /\ g.limit = c /\ g.heard = heard /\ g.list = f.list
      /\ g.op = f.op
  BY <1>4, <1>6 DEF FrameType
<1> HIDE DEF g
<1>8. FrameOK(g)
  BY <1>5, <1>7 DEF FrameOK, heard
<1> QED
  BY <1>1, <1>2, <1>7, <1>8

---------------------------------------------------------------------------
(* Where the packets wait *)

\* The rings of the streams and the lists of the calls are places, each with
\* a queue of packets.
RingAt(i) == <<"ring", i>>
ListAt(a, n) == <<"list", a, n>>
Places == {RingAt(i) : i \in Slots} \cup {ListAt(a, n) : a \in Actors, n \in Nat \ {0}}

Queues(st, fr) ==
  [x \in Places |-> IF x[1] = "ring" THEN st[x[2]].packets
                                     ELSE ListOf(fr[x[2]], x[3])]

\* PendingOnce: a packet is pending as long as it is in a queue, and is there
\* once.
Once(Q, ft) ==
  /\ \A x \in Places : Q[x] \in Seq(PacketType)
  /\ \A p \in Packets :
       ft[p] = "pending" <=> \E x \in Places : \E k \in DOMAIN Q[x] : Q[x][k].id = p
  /\ \A x, y \in Places : \A k \in DOMAIN Q[x], l \in DOMAIN Q[y] :
       Q[x][k].id = Q[y][l].id => x = y /\ k = l

\* What becomes of packet p, and a change of place x alone.
FateBecomes(ft, gt, p, v) == \A q \in Packets : gt[q] = IF q = p THEN v ELSE ft[q]
OnlyAt(Q, R, x) == \A y \in Places : y # x => R[y] = Q[y]

LEMMA PlacesDiffer ==
  /\ \A i \in Slots : RingAt(i) \in Places
  /\ \A a \in Actors, n \in Nat \ {0} : ListAt(a, n) \in Places
  /\ \A x \in Places : \/ \E i \in Slots : x = RingAt(i)
                       \/ \E a \in Actors, n \in Nat \ {0} : x = ListAt(a, n)
  /\ \A i, j \in Slots : RingAt(i) = RingAt(j) => i = j
  /\ \A a, b \in Actors, n, m \in Nat \ {0} : ListAt(a, n) = ListAt(b, m) => a = b /\ n = m
  /\ \A i \in Slots, a \in Actors, n \in Nat \ {0} : RingAt(i) # ListAt(a, n)
<1>1. \A i, j \in Slots : RingAt(i) = RingAt(j) => i = j
  BY DEF RingAt
<1>2. \A a, b \in Actors, n, m \in Nat \ {0} : ListAt(a, n) = ListAt(b, m) => a = b /\ n = m
  BY DEF ListAt
<1>3. \A i \in Slots, a \in Actors, n \in Nat \ {0} : RingAt(i) # ListAt(a, n)
  BY DEF RingAt, ListAt
<1> QED
  BY <1>1, <1>2, <1>3 DEF Places

LEMMA QueueAt ==
  ASSUME NEW st, NEW fr
  PROVE  /\ \A i \in Slots : Queues(st, fr)[RingAt(i)] = st[i].packets
         /\ \A a \in Actors, n \in Nat \ {0} :
              Queues(st, fr)[ListAt(a, n)] = ListOf(fr[a], n)
<1>1. ASSUME NEW i \in Slots  PROVE Queues(st, fr)[RingAt(i)] = st[i].packets
  <2>1. RingAt(i)[1] = "ring" /\ RingAt(i)[2] = i
    BY DEF RingAt
  <2> QED
    BY <2>1, PlacesDiffer DEF Queues
<1>2. ASSUME NEW a \in Actors, NEW n \in Nat \ {0}
      PROVE  Queues(st, fr)[ListAt(a, n)] = ListOf(fr[a], n)
  <2>1. ListAt(a, n)[1] = "list" /\ ListAt(a, n)[2] = a /\ ListAt(a, n)[3] = n
    BY DEF ListAt
  <2> QED
    BY <2>1, PlacesDiffer DEF Queues
<1> QED
  BY <1>1, <1>2

\* The packet at the head of a queue is completed.
LEMMA OnceHead ==
  ASSUME NEW Q, NEW R, NEW ft, NEW gt, Once(Q, ft),
         NEW x \in Places, Q[x] # << >>, R[x] = Tail(Q[x]), OnlyAt(Q, R, x),
         NEW v, v # "pending", FateBecomes(ft, gt, Head(Q[x]).id, v)
  PROVE  Once(R, gt)
<1> DEFINE q == Q[x]
           h == Head(q).id
<1> USE DEF OnlyAt, FateBecomes
<1>1. /\ q \in Seq(PacketType) /\ Len(q) \in Nat \ {0} /\ q[1] = Head(q)
      /\ Tail(q) \in Seq(PacketType) /\ Len(Tail(q)) = Len(q) - 1
      /\ \A k \in 1..(Len(q) - 1) : Tail(q)[k] = q[k + 1]
      /\ DOMAIN q = 1..Len(q) /\ DOMAIN Tail(q) = 1..(Len(q) - 1)
  BY DEF Once
<1>2. ASSUME NEW y \in Places  PROVE R[y] \in Seq(PacketType)
  <2>1. CASE y = x
    BY <1>1, <2>1
  <2>2. CASE y # x
    BY <2>2 DEF Once
  <2> QED
    BY <2>1, <2>2
<1>3. ASSUME NEW y \in Places, NEW k \in DOMAIN R[y]
      PROVE  /\ IF y = x THEN k + 1 \in DOMAIN q /\ R[y][k] = q[k + 1]
                         ELSE k \in DOMAIN Q[y] /\ R[y][k] = Q[y][k]
             /\ R[y][k].id # h
  <2>1. CASE y = x
    <3>1. k \in 1..(Len(q) - 1) /\ R[y][k] = q[k + 1]
      BY <1>1, <1>3, <2>1
    <3>2. k + 1 \in DOMAIN q /\ 1 \in DOMAIN q /\ k + 1 # 1
      BY <1>1, <3>1
    <3>3. q[k + 1].id # q[1].id
      BY <3>2 DEF Once
    <3> QED
      BY <1>1, <2>1, <3>1, <3>2, <3>3
  <2>2. CASE y # x
    <3>1. k \in DOMAIN Q[y] /\ R[y][k] = Q[y][k] /\ 1 \in DOMAIN Q[x]
      BY <1>1, <1>3, <2>2
    <3>2. Q[y][k].id # Q[x][1].id
      BY <2>2, <3>1 DEF Once
    <3> QED
      BY <1>1, <2>2, <3>1, <3>2
  <2> QED
    BY <2>1, <2>2
<1> HIDE DEF h, q
<1>4. ASSUME NEW p \in Packets
      PROVE  gt[p] = "pending" <=> \E y \in Places : \E k \in DOMAIN R[y] : R[y][k].id = p
  <2>1. CASE p = h
    <3>1. gt[p] = v
      BY <2>1 DEF h, q
    <3> QED
      BY <1>3, <2>1, <3>1
  <2>2. CASE p # h
    <3>1. gt[p] = ft[p]
      BY <2>2 DEF h, q
    <3>2. ASSUME NEW y \in Places, NEW k \in DOMAIN R[y], R[y][k].id = p
          PROVE  ft[p] = "pending"
      <4>1. CASE y = x
        BY <1>3, <3>2, <4>1 DEF Once, q
      <4>2. CASE y # x
        BY <1>3, <3>2, <4>2 DEF Once
      <4> QED
        BY <4>1, <4>2
    <3>3. ASSUME NEW y \in Places, NEW k \in DOMAIN Q[y], Q[y][k].id = p
          PROVE  \E z \in Places : \E l \in DOMAIN R[z] : R[z][l].id = p
      <4>1. CASE y = x
        <5>1. k \in 1..Len(q) /\ q[k].id = p
          BY <1>1, <3>3, <4>1 DEF q
        <5>2. k # 1
          BY <1>1, <2>2, <5>1 DEF h
        <5>3. k - 1 \in 1..(Len(q) - 1) /\ Tail(q)[k - 1] = q[k - 1 + 1] /\ k - 1 + 1 = k
          BY <1>1, <5>1, <5>2
        <5>4. k - 1 \in DOMAIN R[x] /\ R[x][k - 1] = q[k]
          BY <1>1, <5>3 DEF q
        <5> QED
          BY <5>1, <5>4
      <4>2. CASE y # x
        BY <3>3, <4>2
      <4> QED
        BY <4>1, <4>2
    <3> QED
      BY <3>1, <3>2, <3>3 DEF Once
  <2> QED
    BY <2>1, <2>2
<1>5. ASSUME NEW y \in Places, NEW z \in Places, NEW k \in DOMAIN R[y],
             NEW l \in DOMAIN R[z], R[y][k].id = R[z][l].id
      PROVE  y = z /\ k = l
  <2>1. k \in Nat /\ l \in Nat
    BY <1>2
  <2> DEFINE kk == IF y = x THEN k + 1 ELSE k
             ll == IF z = x THEN l + 1 ELSE l
  <2>2. kk \in DOMAIN Q[y] /\ R[y][k] = Q[y][kk]
    BY <1>3 DEF q
  <2>3. ll \in DOMAIN Q[z] /\ R[z][l] = Q[z][ll]
    BY <1>3 DEF q
  <2>4. y = z /\ kk = ll
    <3> HIDE DEF kk, ll
    <3> QED
      BY <1>5, <2>2, <2>3 DEF Once
  <2> QED
    BY <2>1, <2>4
<1> QED
  BY <1>2, <1>4, <1>5 DEF Once

\* A packet that waits nowhere goes to the end of a queue.
LEMMA OnceAppended ==
  ASSUME NEW Q, NEW R, NEW ft, NEW gt, Once(Q, ft),
         NEW x \in Places, NEW e \in PacketType, ft[e.id] # "pending",
         R[x] = Append(Q[x], e), OnlyAt(Q, R, x), FateBecomes(ft, gt, e.id, "pending")
  PROVE  Once(R, gt)
<1> DEFINE q == Q[x]
           n == Len(q) + 1
<1> USE DEF OnlyAt, FateBecomes
<1>1. /\ q \in Seq(PacketType) /\ Len(q) \in Nat /\ R[x] \in Seq(PacketType)
      /\ DOMAIN q = 1..Len(q) /\ DOMAIN R[x] = 1..n /\ R[x][n] = e
      /\ \A k \in 1..Len(q) : R[x][k] = q[k]
  BY DEF Once
<1>2. \A y \in Places : R[y] \in Seq(PacketType)
  BY <1>1 DEF Once
<1>3. e.id \in Packets
  BY DEF PacketType
<1>4. \A y \in Places : \A k \in DOMAIN Q[y] : Q[y][k].id # e.id
  BY <1>3 DEF Once
<1>5. ASSUME NEW y \in Places, NEW k \in DOMAIN R[y]
      PROVE  \/ y = x /\ k = n /\ R[y][k].id = e.id
             \/ k \in DOMAIN Q[y] /\ R[y][k] = Q[y][k] /\ R[y][k].id # e.id
  <2>1. CASE y = x /\ k = n
    BY <1>1, <2>1
  <2>2. CASE y = x /\ k # n
    <3>1. k \in DOMAIN Q[y]
      BY <1>1, <1>5, <2>2
    <3> QED
      BY SMTT(30), <1>1, <1>4, <2>2, <3>1
  <2>3. CASE y # x
    BY <1>4, <1>5, <2>3
  <2> QED
    BY <2>1, <2>2, <2>3
<1>6. \A y \in Places : \A k \in DOMAIN Q[y] : k \in DOMAIN R[y] /\ R[y][k] = Q[y][k]
  BY <1>1
<1>7. n \in DOMAIN R[x] /\ R[x][n].id = e.id
  BY <1>1
<1> HIDE DEF n, q
<1>8. ASSUME NEW p \in Packets
      PROVE  gt[p] = "pending" <=> \E y \in Places : \E k \in DOMAIN R[y] : R[y][k].id = p
  <2>1. CASE p = e.id
    BY <1>7, <2>1
  <2>2. CASE p # e.id
    <3>1. gt[p] = "pending" <=> \E y \in Places : \E k \in DOMAIN Q[y] : Q[y][k].id = p
      BY <2>2 DEF Once
    <3> QED
      BY <1>5, <1>6, <2>2, <3>1
  <2> QED
    BY <2>1, <2>2
<1>9. ASSUME NEW y \in Places, NEW z \in Places, NEW k \in DOMAIN R[y],
             NEW l \in DOMAIN R[z], R[y][k].id = R[z][l].id
      PROVE  y = z /\ k = l
  BY <1>5, <1>9 DEF Once
<1> QED
  BY <1>2, <1>8, <1>9 DEF Once

\* A queue goes to another place, that had none.
LEMMA OnceMoved ==
  ASSUME NEW Q, NEW R, NEW ft, Once(Q, ft),
         NEW x \in Places, NEW y \in Places, x # y, Q[y] = << >>,
         R[x] = << >>, R[y] = Q[x],
         \A z \in Places : z # x /\ z # y => R[z] = Q[z]
  PROVE  Once(R, ft)
<1>1. \A z \in Places : R[z] \in Seq(PacketType)
  BY DEF Once
<1>2. ASSUME NEW z \in Places, NEW k \in DOMAIN R[z]
      PROVE  /\ z # x
             /\ LET w == IF z = y THEN x ELSE z IN k \in DOMAIN Q[w] /\ R[z][k] = Q[w][k]
  BY <1>2
<1>3. ASSUME NEW w \in Places, NEW k \in DOMAIN Q[w]
      PROVE  \E z \in Places : k \in DOMAIN R[z] /\ R[z][k] = Q[w][k]
  BY <1>3
<1>4. ASSUME NEW p \in Packets
      PROVE  ft[p] = "pending" <=> \E z \in Places : \E k \in DOMAIN R[z] : R[z][k].id = p
  BY <1>2, <1>3 DEF Once
<1>5. ASSUME NEW w \in Places, NEW z \in Places, NEW k \in DOMAIN R[w],
             NEW l \in DOMAIN R[z], R[w][k].id = R[z][l].id
      PROVE  w = z /\ k = l
  <2> DEFINE ww == IF w = y THEN x ELSE w
             zz == IF z = y THEN x ELSE z
  <2>1. ww \in Places /\ k \in DOMAIN Q[ww] /\ R[w][k] = Q[ww][k] /\ w # x
    BY <1>2
  <2>2. zz \in Places /\ l \in DOMAIN Q[zz] /\ R[z][l] = Q[zz][l] /\ z # x
    BY <1>2
  <2>3. ww = zz /\ k = l
    <3> HIDE DEF ww, zz
    <3> QED
      BY <1>5, <2>1, <2>2 DEF Once
  <2> QED
    BY <2>1, <2>2, <2>3
<1> QED
  BY <1>1, <1>4, <1>5 DEF Once

\* A queue is dropped.
LEMMA OnceEmptied ==
  ASSUME NEW Q, NEW R, NEW ft, NEW gt, Once(Q, ft),
         NEW x \in Places, R[x] = << >>, OnlyAt(Q, R, x),
         \A p \in Packets :
           gt[p] = IF \E k \in DOMAIN Q[x] : Q[x][k].id = p THEN "dropped" ELSE ft[p]
  PROVE  Once(R, gt)
<1> USE DEF OnlyAt
<1>1. ASSUME NEW z \in Places  PROVE R[z] \in Seq(PacketType)
  <2>1. << >> \in Seq(PacketType)
    OBVIOUS
  <2> QED
    BY <2>1 DEF Once
<1>2. ASSUME NEW z \in Places, NEW k \in DOMAIN R[z]
      PROVE  z # x /\ k \in DOMAIN Q[z] /\ R[z][k] = Q[z][k]
  BY <1>2
<1>3. ASSUME NEW p \in Packets
      PROVE  gt[p] = "pending" <=> \E z \in Places : \E k \in DOMAIN R[z] : R[z][k].id = p
  <2>1. CASE \E k \in DOMAIN Q[x] : Q[x][k].id = p
    BY <1>2, <2>1 DEF Once
  <2>2. CASE ~ \E k \in DOMAIN Q[x] : Q[x][k].id = p
    <3>1. gt[p] = ft[p]
      BY <2>2
    <3>2. \A z \in Places : (\E k \in DOMAIN Q[z] : Q[z][k].id = p)
                              <=> (\E k \in DOMAIN R[z] : R[z][k].id = p)
      BY <2>2
    <3> QED
      BY <3>1, <3>2 DEF Once
  <2> QED
    BY <2>1, <2>2
<1>4. ASSUME NEW w \in Places, NEW z \in Places, NEW k \in DOMAIN R[w],
             NEW l \in DOMAIN R[z], R[w][k].id = R[z][l].id
      PROVE  w = z /\ k = l
  BY <1>2, <1>4 DEF Once
<1> QED
  BY <1>1, <1>3, <1>4 DEF Once

---------------------------------------------------------------------------
(* The inductive invariant, and what a step does to its parts *)

Recents == recent \in Seq(Slots) /\ Len(recent) = Cardinality(Slots) /\ Placed

Others ==
  /\ title \in Titles
  /\ device \in BOOLEAN
  /\ blocked \subseteq Threads
  /\ turn \in Threads
  /\ creations \in Nat
  /\ fate \in [Packets -> Fates]

Waiting == Once(Queues(stream, frames), fate)

Inv == Good(Sound) /\ Recents /\ Others /\ Calling /\ Waiting

LEMMA TitleFacts ==
  ASSUME title \in Titles
  PROVE  /\ title.threads \subseteq Threads
         /\ title.objects \subseteq Objects
         /\ title.creations \in Nat /\ title.lag \in Nat /\ title.sizes \subseteq Nat
         /\ title.packets \subseteq Packets
         /\ \A lag \in 0..title.lag : lag \in Nat
<1>1. TitleOK(title)
  BY DsStreamAssumption
<1>2. title.lag \in Nat /\ \A lag \in 0..title.lag : lag \in Nat
  BY <1>1 DEF TitleOK
<1>3. title.threads \subseteq Threads
  <2>1. title.threads \in SUBSET Threads \ {{}}
    BY <1>1 DEF TitleOK
  <2> QED
    BY <2>1
<1>4. /\ title.objects \subseteq Objects /\ title.creations \in Nat
      /\ title.sizes \subseteq Nat /\ title.packets \subseteq Packets
  BY <1>1 DEF TitleOK
<1> QED
  BY <1>2, <1>3, <1>4

LEMMA SoundSet ==
  ASSUME NEW e, Good(e), SoundBecomes(e)
  PROVE  Good(Sound)' /\ stream' = e.stream
<1>1. Sound' = [stream |-> e.stream, owner |-> e.owner, host |-> e.host]
  BY DEF Sound, SoundBecomes
<1>2. Sound' = e
  BY <1>1, Parts
<1>3. Good(Sound')
  BY <1>2
<1> QED
  BY <1>3 DEF SoundBecomes, Sound, Good

LEMMA SoundKept ==
  ASSUME Good(Sound), UNCHANGED soundVars
  PROVE  Good(Sound)' /\ stream' = stream
  BY DEF Sound, soundVars

LEMMA RecentsSet ==
  ASSUME Recents, NEW i \in Slots, recent' = Active(i)
  PROVE  Recents'
<1>1. /\ recent' \in Seq(Slots) /\ Len(recent') = Len(recent)
      /\ \A j \in Slots : \E k \in DOMAIN recent' : recent'[k] = j
  BY ActiveOf DEF Recents
<1> QED
  BY <1>1 DEF Recents, Placed

LEMMA RecentsKept ==
  ASSUME Recents, recent' = recent
  PROVE  Recents'
  BY DEF Recents, Placed

\* No ring and no list changes.
LEMMA WaitingKept ==
  ASSUME Waiting, fate' = fate,
         \A i \in Slots : stream'[i].packets = stream[i].packets,
         \A a \in Actors, n \in Nat \ {0} :
           ListOf(frames'[a], n) = ListOf(frames[a], n)
  PROVE  Waiting'
<1> DEFINE Q == Queues(stream, frames)
           R == Queues(stream', frames')
<1>1. \A x \in Places : R[x] = Q[x]
  BY QueueAt, PlacesDiffer
<1>2. Q = [x \in Places |-> Q[x]] /\ R = [x \in Places |-> R[x]]
  BY DEF Queues
<1> HIDE DEF Q, R
<1>3. Q = R
  BY <1>1, <1>2
<1>4. Once(R, fate')
  BY <1>3 DEF Waiting, Q
<1> QED
  BY <1>4 DEF Waiting, R, Once, Queues

\* One place's queue is as given, the others are as they were.
LEMMA RingOnly ==
  ASSUME NEW i \in Slots,
         \A j \in Slots : j # i => stream'[j].packets = stream[j].packets,
         \A a \in Actors, n \in Nat \ {0} :
           ListOf(frames'[a], n) = ListOf(frames[a], n)
  PROVE  /\ Queues(stream', frames')[RingAt(i)] = stream'[i].packets
         /\ Queues(stream, frames)[RingAt(i)] = stream[i].packets
         /\ OnlyAt(Queues(stream, frames), Queues(stream', frames'), RingAt(i))
  BY QueueAt, PlacesDiffer DEF OnlyAt

\* A call of a begins, with frame f.
LEMMA Called ==
  ASSUME Calling, NEW a \in Actors, lock \in {Nobody, a}, NEW f, FrameOK(f),
         SetFrames(a, Append(Caller(a), f))
  PROVE  /\ Calling' /\ Len(frames[a]) + 1 \in Nat \ {0}
         /\ ListOf(frames[a], Len(frames[a]) + 1) = << >>
         /\ \A b \in Actors, n \in Nat \ {0} :
              ListOf(frames'[b], n) =
                IF b = a /\ n = Len(frames[a]) + 1 THEN f.list ELSE ListOf(frames[b], n)
<1> DEFINE c == Caller(a)
           l == Len(frames[a])
<1>1. /\ GoodFrames(c) /\ Len(c) = l /\ l \in Nat
      /\ \A n \in Nat \ {0} : ListOf(c, n) = ListOf(frames[a], n)
  BY CallerGood
<1> HIDE DEF c
<1>2. /\ GoodFrames(Append(c, f))
      /\ \A n \in Nat \ {0} :
           ListOf(Append(c, f), n) = IF n = l + 1 THEN f.list ELSE ListOf(c, n)
  BY <1>1, Pushed
<1>3. /\ Calling' /\ frames'[a] = Append(c, f)
      /\ \A b \in Actors : b # a => frames'[b] = frames[b]
  BY <1>2, FramesSet DEF c
<1>4. l + 1 \notin DOMAIN frames[a]
  BY <1>1 DEF Calling, GoodFrames
<1>5. ListOf(frames[a], l + 1) = << >>
  BY <1>4 DEF ListOf
<1> HIDE DEF l
<1>6. l + 1 \in Nat \ {0}
  BY <1>1
<1> QED
  BY <1>1, <1>2, <1>3, <1>5, <1>6 DEF l

\* A call that does nothing but return, and its caller's frames.
LEMMA CalledBriefly ==
  ASSUME Calling, NEW a \in Actors, lock \in {Nobody, a}, SetFrames(a, Caller(a))
  PROVE  /\ Calling'
         /\ \A b \in Actors, n \in Nat \ {0} :
              ListOf(frames'[b], n) = ListOf(frames[b], n)
<1>1. /\ GoodFrames(Caller(a))
      /\ \A n \in Nat \ {0} : ListOf(Caller(a), n) = ListOf(frames[a], n)
  BY CallerGood
<1>2. /\ Calling' /\ frames'[a] = Caller(a)
      /\ \A b \in Actors : b # a => frames'[b] = frames[b]
  BY <1>1, FramesSet
<1> QED
  BY <1>1, <1>2

\* A call of a that has nothing to complete returns.
LEMMA Returned ==
  ASSUME Calling, NEW a \in Actors, frames[a] # << >>, Top(a).list = << >>,
         SetFrames(a, Under(a))
  PROVE  /\ Calling'
         /\ \A b \in Actors, n \in Nat \ {0} :
              ListOf(frames'[b], n) = ListOf(frames[b], n)
<1>1. /\ lock = a /\ GoodFrames(Under(a)) /\ Len(frames[a]) \in Nat \ {0}
      /\ ListOf(frames[a], Len(frames[a])) = << >>
      /\ \A n \in Nat \ {0} : ListOf(Under(a), n) =
           IF n = Len(frames[a]) THEN << >> ELSE ListOf(frames[a], n)
  BY TopOf
<1>2. /\ Calling' /\ frames'[a] = Under(a)
      /\ \A b \in Actors : b # a => frames'[b] = frames[b]
  BY <1>1, FramesSet
<1> QED
  BY <1>1, <1>2

\* The innermost call of a goes on, with frame g.
LEMMA GoesOn ==
  ASSUME Calling, NEW a \in Actors, frames[a] # << >>, NEW g, FrameOK(g),
         SetFrames(a, Append(Under(a), g))
  PROVE  /\ Calling' /\ Len(frames[a]) \in Nat \ {0}
         /\ \A b \in Actors, n \in Nat \ {0} :
              ListOf(frames'[b], n) =
                IF b = a /\ n = Len(frames[a]) THEN g.list ELSE ListOf(frames[b], n)
<1> DEFINE u == Under(a)
           l == Len(frames[a])
<1>1. /\ lock = a /\ GoodFrames(u) /\ l \in Nat \ {0} /\ Len(u) = l - 1
      /\ \A n \in Nat \ {0} : ListOf(u, n) =
           IF n = l THEN << >> ELSE ListOf(frames[a], n)
  BY TopOf
<1> HIDE DEF u, l
<1>2. Len(u) + 1 = l
  BY <1>1
<1>3. /\ GoodFrames(Append(u, g))
      /\ \A n \in Nat \ {0} :
           ListOf(Append(u, g), n) = IF n = l THEN g.list ELSE ListOf(u, n)
  BY <1>1, <1>2, Pushed
<1>4. /\ Calling' /\ frames'[a] = Append(u, g)
      /\ \A b \in Actors : b # a => frames'[b] = frames[b]
  BY <1>1, <1>3, FramesSet DEF u
<1> QED
  BY <1>1, <1>3, <1>4 DEF l

LEMMA CallingKept ==
  ASSUME Calling, frames' = frames, lock' = lock
  PROVE  /\ Calling'
         /\ \A b \in Actors, n \in Nat \ {0} :
              ListOf(frames'[b], n) = ListOf(frames[b], n)
  BY DEF Calling

---------------------------------------------------------------------------
(* Each action keeps the invariant *)

\* Steps that complete nothing and queue nothing.
LEMMA Quietly ==
  ASSUME Inv, Good(Sound)', Recents', Others', Calling', fate' = fate,
         \A i \in Slots : stream'[i].packets = stream[i].packets,
         \A a \in Actors, n \in Nat \ {0} :
           ListOf(frames'[a], n) = ListOf(frames[a], n)
  PROVE  Inv'
  BY WaitingKept DEF Inv

LEMMA BareFrame ==
  ASSUME NEW op \in {"status", "work", "service", "process", "flush", "synch"},
         NEW i \in Slots
  PROVE  /\ Frame(op, i) \in FrameType /\ Frame(op, i).list = << >>
         /\ Frame(op, i).heard = Unheard /\ Frame(op, i).op = op
  BY DEF Frame, FrameType, Unheard

LEMMA BeginKeeps ==
  ASSUME Inv, NEW a \in Actors, lock \in {Nobody, a},
         NEW op \in {"status", "work", "service", "process"}, NEW i \in Slots,
         NEW size \in Nat, Begin(a, op, i, size)
  PROVE  Inv'
<1> DEFINE f == [Frame(op, i) EXCEPT !.size = size]
<1>1. f \in FrameType /\ f.list = << >>
  BY BareFrame DEF FrameType
<1>2. PICK lag \in 0..title.lag :
        LET l == Looking(Sound, a, f, i, lag)
        IN /\ SoundBecomes(l.sound)
           /\ Enters(a, Append(Caller(a), l.frame))
           /\ UNCHANGED <<recent, creations, fate>>
  BY DEF Begin
<1> DEFINE l == Looking(Sound, a, f, i, lag)
<1> HIDE DEF f
<1>3. lag \in Nat
  BY TitleFacts DEF Inv, Others
<1>4. Follows(Sound, l.sound) /\ FrameOK(l.frame) /\ l.frame.list = << >>
  BY <1>1, <1>3, LookingGood DEF Inv
<1> HIDE DEF l
<1>5. /\ SoundBecomes(l.sound) /\ SetFrames(a, Append(Caller(a), l.frame))
      /\ blocked' = blocked \ {a}
      /\ UNCHANGED <<title, device, turn, recent, creations, fate>>
  BY <1>2 DEF l, Enters
<1>6. Good(Sound)' /\ \A j \in Slots : stream'[j].packets = stream[j].packets
  <2>1. Good(Sound)' /\ stream' = l.sound.stream
    BY <1>4, <1>5, SoundSet DEF Follows
  <2> QED
    BY <1>4, <2>1 DEF Follows, SameRings, Sound
<1>7. Calling' /\ \A b \in Actors, n \in Nat \ {0} :
        ListOf(frames'[b], n) = ListOf(frames[b], n)
  BY <1>4, <1>5, Called DEF Inv
<1>8. Recents' /\ Others'
  BY <1>5, RecentsKept DEF Inv, Others
<1> QED
  BY <1>5, <1>6, <1>7, <1>8, Quietly

LEMMA InCall ==
  ASSUME NEW t \in Threads, NEW c, MayCall(t, c)
  PROVE  t \in Actors /\ lock \in {Nobody, t}
  BY DEF MayCall, Actors

LEMMA GetStatusKeeps ==
  ASSUME Inv, NEW t \in Threads, NEW o, GetStatus(t, o)  PROVE Inv'
<1>1. PICK i \in SlotOf(o) : Begin(t, "status", i, 0)
  BY DEF GetStatus
<1> QED
  BY <1>1, InCall, BeginKeeps DEF GetStatus, SlotOf

LEMMA ProcessKeeps ==
  ASSUME Inv, NEW t \in Threads, NEW o, NEW size \in Nat, Process(t, o, size)  PROVE Inv'
<1>1. PICK i \in SlotOf(o) : Begin(t, "process", i, size)
  BY DEF Process
<1> QED
  BY <1>1, InCall, BeginKeeps DEF Process, SlotOf

LEMMA FirstRecorded ==
  ASSUME Recorded # {}  PROVE Min(Recorded) \in Slots
  BY MinOf, Numbers DEF Recorded

LEMMA DoWorkKeeps ==
  ASSUME Inv, NEW t \in Threads, DoWork(t)  PROVE Inv'
  BY InCall, FirstRecorded, BeginKeeps DEF DoWork

LEMMA ServiceWakesKeeps ==
  ASSUME Inv, ServiceWakes  PROVE Inv'
<1>1. Service \in Actors
  BY DEF Actors
<1> QED
  BY <1>1, FirstRecorded, BeginKeeps DEF ServiceWakes

\* The next packet of the title's is one it has.
LEMMA NextPacketFree ==
  ASSUME Inv, \E p \in title.packets : fate[p] = "free"
  PROVE  NextPacket \in Packets /\ fate[NextPacket] = "free"
<1> DEFINE free == {p \in title.packets : fate[p] = "free"}
<1>1. free # {} /\ free \subseteq Packets /\ free \subseteq Nat
  BY TitleFacts, Numbers DEF Inv, Others
<1>2. Min(free) \in free
  BY <1>1, MinOf
<1> QED
  BY <1>1, <1>2 DEF NextPacket

LEMMA ProcessUnknownKeeps ==
  ASSUME Inv, NEW t \in Threads, NEW o, ProcessUnknown(t, o)  PROVE Inv'
<1>1. /\ NextPacket \in Packets /\ fate[NextPacket] = "free"
      /\ fate' = [fate EXCEPT ![NextPacket] = "unknown"]
  BY NextPacketFree DEF ProcessUnknown
<1>2. /\ SetFrames(t, Caller(t)) /\ blocked' = blocked \ {t}
      /\ UNCHANGED <<title, device, turn, soundVars, recent, creations>>
  BY DEF ProcessUnknown, Enters
<1>3. t \in Actors /\ lock \in {Nobody, t}
  BY InCall DEF ProcessUnknown
<1>4. Good(Sound)' /\ stream' = stream
  BY <1>2, SoundKept DEF Inv
<1>5. Calling' /\ \A b \in Actors, n \in Nat \ {0} :
        ListOf(frames'[b], n) = ListOf(frames[b], n)
  BY <1>2, <1>3, CalledBriefly DEF Inv
<1>6. Recents' /\ Others'
  BY <1>1, <1>2, RecentsKept DEF Inv, Others, Fates
<1>7. Waiting'
  <2> DEFINE Q == Queues(stream, frames)
             R == Queues(stream', frames')
  <2>1. \A x \in Places : R[x] = Q[x]
    BY <1>4, <1>5, QueueAt, PlacesDiffer
  <2> HIDE DEF Q, R
  <2>2. Once(Q, fate)
    BY DEF Inv, Waiting, Q
  <2>3. \A p \in Packets : fate'[p] = "pending" <=> fate[p] = "pending"
    BY <1>1 DEF Inv, Others
  <2>4. Once(R, fate')
    BY <2>1, <2>2, <2>3 DEF Once
  <2> QED
    BY <2>4 DEF Waiting, R, Once, Queues
<1> QED
  BY <1>4, <1>5, <1>6, <1>7 DEF Inv

LEMMA SynchPlaybackKeeps ==
  ASSUME Inv, NEW t \in Threads, SynchPlayback(t)  PROVE Inv'
<1> DEFINE f == Frame("synch", Min(HeldBack))
<1>1. Min(HeldBack) \in Slots
  BY MinOf, Numbers DEF SynchPlayback, HeldBack
<1>2. FrameOK(f) /\ f.list = << >>
  BY <1>1, BareFrame DEF FrameOK
<1> HIDE DEF f
<1>3. /\ SetFrames(t, Append(Caller(t), f)) /\ blocked' = blocked \ {t}
      /\ UNCHANGED <<title, device, turn, soundVars, recent, creations, fate>>
  BY DEF SynchPlayback, Enters, f
<1>4. t \in Actors /\ lock \in {Nobody, t}
  BY InCall DEF SynchPlayback
<1>5. Good(Sound)' /\ stream' = stream
  BY <1>3, SoundKept DEF Inv
<1>6. Calling' /\ \A b \in Actors, n \in Nat \ {0} :
        ListOf(frames'[b], n) = ListOf(frames[b], n)
  BY ZenonT(40), <1>2, <1>3, <1>4, Called DEF Inv
<1>7. Recents' /\ Others'
  BY <1>3, RecentsKept DEF Inv, Others
<1> QED
  BY <1>3, <1>5, <1>6, <1>7, Quietly

\* A stream's mark for SYNCHPLAYBACK.
LEMMA Marked ==
  ASSUME Inv, NEW i \in Slots, NEW b \in BOOLEAN
  PROVE  Follows(Sound, [Sound EXCEPT !.stream[i].synch = b])
<1> DEFINE s == stream[i]
           r == [s EXCEPT !.synch = b]
           e == Put(Sound, i, r)
<1>1. s \in StreamType /\ s.base <= s.queued /\ Sound.stream = stream
  <2>1. Sound.stream = stream
    BY DEF Sound
  <2> QED
    BY <2>1, Parts DEF Inv
<1>2. [Sound EXCEPT !.stream[i].synch = b] = e
  BY <1>1 DEF Put
<1>3. /\ r \in StreamType /\ r.voice = s.voice /\ r.base = s.base
      /\ r.queued = s.queued /\ r.output = s.output /\ r.paused = s.paused
      /\ r.sent = s.sent /\ r.origin = s.origin /\ r.packets = s.packets
  <2> HIDE DEF s
  <2> QED
    BY <1>1 DEF StreamType
<1> HIDE DEF r
<1>4. /\ Good(e) /\ e.stream[i] = r
      /\ \A j \in Slots : j # i => e.stream[j] = Sound.stream[j]
  BY <1>1, <1>3, Aside DEF Inv
<1> QED
  BY <1>1, <1>2, <1>3, <1>4 DEF Follows, SameRings

LEMMA PauseKeeps ==
  ASSUME Inv, NEW t \in Threads, NEW o, NEW mode \in {"resume", "pause", "synch"},
         Pause(t, o, mode)
  PROVE  Inv'
<1>1. PICK i \in SlotOf(o), lag \in 0..title.lag :
        LET d == [Sound EXCEPT !.stream[i].synch = mode = "synch"]
        IN /\ SoundBecomes(IF mode = "resume" THEN Resumed(d, i, lag)
                                              ELSE Paused(d, i, lag))
           /\ recent' = Active(i)
  BY DEF Pause
<1> DEFINE b == mode = "synch"
           d == [Sound EXCEPT !.stream[i].synch = b]
           e == IF mode = "resume" THEN Resumed(d, i, lag) ELSE Paused(d, i, lag)
<1>2. i \in Slots /\ lag \in Nat
  BY TitleFacts DEF SlotOf, Inv, Others
<1>3. Follows(Sound, d)
  <2>1. b \in BOOLEAN
    OBVIOUS
  <2> HIDE DEF b
  <2> QED
    BY <1>2, <2>1, Marked
<1> HIDE DEF d
<1>4. Follows(d, e)
  BY <1>2, <1>3, ResumedGood, PausedGood DEF Follows, Inv, Recents
<1>5. /\ SoundBecomes(e) /\ recent' = Active(i)
      /\ SetFrames(t, Caller(t)) /\ blocked' = blocked \ {t}
      /\ UNCHANGED <<title, device, turn, creations, fate>>
  BY <1>1 DEF d, Pause, Enters
<1> HIDE DEF e
<1>6. Good(Sound)' /\ \A j \in Slots : stream'[j].packets = stream[j].packets
  <2>1. Good(Sound)' /\ stream' = e.stream
    BY <1>4, <1>5, SoundSet DEF Follows
  <2> QED
    BY <1>3, <1>4, <2>1 DEF Follows, SameRings, Sound
<1>7. Calling' /\ \A c \in Actors, n \in Nat \ {0} :
        ListOf(frames'[c], n) = ListOf(frames[c], n)
  BY <1>5, InCall, CalledBriefly DEF Pause, Inv
<1>8. Recents' /\ Others'
  BY <1>2, <1>5, RecentsSet DEF Inv, Others
<1> QED
  BY <1>5, <1>6, <1>7, <1>8, Quietly

\* A frame in its loop is a frame.
LEMMA InLoop ==
  ASSUME Inv, NEW a \in Actors, NEW ops, In(a, ops)
  PROVE  /\ frames[a] # << >> /\ Top(a) \in FrameType /\ FrameOK(Top(a))
         /\ Top(a).slot \in Slots /\ Top(a).op \in ops /\ lock = a
         /\ Top(a).op # "flush" => Top(a).list = << >>
<1>1. frames[a] # << >> /\ Top(a).op \in ops
  BY DEF In
<1>2. Top(a) \in FrameType /\ FrameOK(Top(a)) /\ lock = a
  BY <1>1, TopOf DEF Inv
<1>3. Top(a).slot \in Slots
  BY <1>2 DEF FrameType
<1> QED
  BY <1>1, <1>2, <1>3 DEF FrameOK

LEMMA StartHeldKeeps ==
  ASSUME Inv, NEW t \in Threads, StartHeld(t)  PROVE Inv'
<1> DEFINE f == Top(t)
           i == f.slot
           left == {j \in HeldBack : j > i}
           d == [Sound EXCEPT !.stream[i].synch = FALSE]
           g == [f EXCEPT !.slot = Min(left)]
<1>1. t \in Actors /\ In(t, {"synch"})
  BY DEF StartHeld, Actors
<1>2. frames[t] # << >> /\ f \in FrameType /\ FrameOK(f) /\ i \in Slots /\ f.list = << >>
  BY <1>1, InLoop
<1>3. PICK lag \in 0..title.lag : SoundBecomes(Resumed(d, i, lag))
  BY DEF StartHeld
<1>4. lag \in Nat
  BY TitleFacts DEF Inv, Others
<1>5. /\ recent' = Active(i)
      /\ SetFrames(t, IF left = {} THEN Under(t) ELSE Append(Under(t), g))
      /\ UNCHANGED <<title, device, blocked, turn, creations, fate>>
  BY DEF StartHeld
<1> HIDE DEF f
<1>6. Follows(Sound, d)
  BY <1>2, Marked
<1>7. Follows(d, Resumed(d, i, lag))
  <2> HIDE DEF d, i
  <2> QED
    BY <1>2, <1>4, <1>6, ResumedGood DEF Follows, Inv, Recents
<1>8. Good(Sound)' /\ \A j \in Slots : stream'[j].packets = stream[j].packets
  <2> HIDE DEF d, i
  <2>1. Good(Sound)' /\ stream' = Resumed(d, i, lag).stream
    BY <1>3, <1>7, SoundSet DEF Follows
  <2> QED
    BY <1>6, <1>7, <2>1 DEF Follows, SameRings, Sound
<1>9. Calling' /\ \A c \in Actors, n \in Nat \ {0} :
        ListOf(frames'[c], n) = ListOf(frames[c], n)
  <2>1. CASE left = {}
    BY <1>1, <1>2, <1>5, <2>1, Returned DEF Inv, f
  <2>2. CASE left # {}
    <3>1. Min(left) \in Slots
      <4>1. left \subseteq Nat /\ left \subseteq Slots
        BY Numbers DEF HeldBack
      <4> HIDE DEF left
      <4> QED
        BY <2>2, <4>1, MinOf
    <3> HIDE DEF left
    <3>2. /\ g \in FrameType /\ g.list = << >> /\ g.op = f.op /\ g.heard = f.heard
          /\ g.limit = f.limit
      BY <1>2, <3>1 DEF FrameType
    <3>3. FrameOK(g)
      BY <1>2, <3>2 DEF FrameOK
    <3> HIDE DEF g
    <3>4. /\ Calling' /\ Len(frames[t]) \in Nat \ {0}
          /\ \A c \in Actors, n \in Nat \ {0} :
               ListOf(frames'[c], n) =
                 IF c = t /\ n = Len(frames[t]) THEN g.list ELSE ListOf(frames[c], n)
      BY <1>1, <1>2, <1>5, <2>2, <3>3, GoesOn DEF Inv
    <3>5. ListOf(frames[t], Len(frames[t])) = << >>
      BY <1>1, <1>2, TopOf DEF Inv, f
    <3> QED
      BY <3>2, <3>4, <3>5
  <2> QED
    BY <2>1, <2>2
<1>10. Recents' /\ Others'
  BY <1>2, <1>5, RecentsSet DEF Inv, Others
<1> QED
  BY <1>5, <1>8, <1>9, <1>10, Quietly

LEMMA CompletePassedKeeps ==
  ASSUME Inv, NEW a \in Actors, CompletePassed(a)  PROVE Inv'
<1> DEFINE f == Top(a)
           i == f.slot
           s == stream[i]
           r == [s EXCEPT !.packets = Tail(@)]
           g == IF s.callback THEN [f EXCEPT !.at = "callback", !.called = FALSE] ELSE f
           p == Head(s.packets).id
<1>1. /\ frames[a] # << >> /\ f \in FrameType /\ FrameOK(f) /\ i \in Slots
      /\ f.list = << >> /\ s.packets # << >>
  <2>1. In(a, {"status", "work", "service", "process"}) /\ s.packets # << >>
    BY DEF CompletePassed, Passed
  <2> QED
    BY <2>1, InLoop
<1>2. /\ stream' = [stream EXCEPT ![i] = r] /\ fate' = [fate EXCEPT ![p] = "done"]
      /\ SetFrames(a, Append(Under(a), g))
      /\ UNCHANGED <<title, owner, host, recent, device, blocked, turn, creations>>
  BY DEF CompletePassed, AfterCompleting
<1>3. s \in StreamType /\ s.base <= s.queued /\ Sound.stream = stream
      /\ stream \in [Slots -> StreamType]
  <2>1. Sound.stream = stream
    BY DEF Sound
  <2> QED
    BY <1>1, <2>1, Parts DEF Inv, Good, SoundType
<1>4. g \in FrameType /\ g.list = << >> /\ FrameOK(g)
  <2>1. CASE s.callback
    <3>1. /\ g \in FrameType /\ g.list = f.list /\ g.op = f.op /\ g.heard = f.heard
          /\ g.limit = f.limit
      <4> HIDE DEF f
      <4> QED
        BY <1>1, <2>1 DEF FrameType
    <3> QED
      BY <1>1, <3>1 DEF FrameOK
  <2>2. CASE ~s.callback
    BY <1>1, <2>2
  <2> QED
    BY <2>1, <2>2
<1> HIDE DEF g
<1>5. Calling' /\ \A b \in Actors, n \in Nat \ {0} :
        ListOf(frames'[b], n) = ListOf(frames[b], n)
  <2>1. ListOf(frames[a], Len(frames[a])) = << >>
    BY <1>1, TopOf DEF Inv
  <2>2. /\ Calling' /\ \A b \in Actors, n \in Nat \ {0} :
           ListOf(frames'[b], n) =
             IF b = a /\ n = Len(frames[a]) THEN g.list ELSE ListOf(frames[b], n)
    BY <1>1, <1>2, <1>4, GoesOn DEF Inv
  <2> QED
    BY <1>4, <2>1, <2>2
<1>6. p \in Packets
  <2> DEFINE q == s.packets
  <2>1. q \in Seq(PacketType) /\ q # << >>
    BY <1>1, <1>3, StreamFields
  <2> HIDE DEF q
  <2>2. Head(q) \in PacketType
    BY <2>1
  <2> QED
    BY <2>2 DEF PacketType, q
<1>7. /\ r \in StreamType /\ r.voice = s.voice /\ r.base = s.base /\ r.queued = s.queued
      /\ r.output = s.output /\ r.paused = s.paused /\ r.sent = s.sent
      /\ r.origin = s.origin /\ r.packets = Tail(s.packets)
  <2>1. Tail(s.packets) \in Seq(PacketType)
    BY <1>1, <1>3, StreamFields
  <2> HIDE DEF s
  <2> QED
    BY <1>3, <2>1 DEF StreamType
<1> HIDE DEF r
<1>8. Good(Sound)' /\ stream'[i] = r /\ \A j \in Slots : j # i => stream'[j] = stream[j]
  <2>1. Good(Put(Sound, i, r))
    BY <1>1, <1>3, <1>7, Aside DEF Inv
  <2>2. SoundBecomes(Put(Sound, i, r))
    BY <1>2 DEF SoundBecomes, Put, Sound
  <2> QED
    BY <1>1, <1>2, <1>3, <2>1, <2>2, SoundSet
<1>9. Recents' /\ Others'
  BY <1>2, <1>6, RecentsKept DEF Inv, Others, Fates
<1>10. Waiting'
  <2> DEFINE Q == Queues(stream, frames)
             R == Queues(stream', frames')
             x == RingAt(i)
  <2>1. x \in Places
    BY <1>1, PlacesDiffer
  <2>2. R[x] = stream'[i].packets /\ Q[x] = s.packets /\ OnlyAt(Q, R, x)
    BY <1>1, <1>5, <1>8, RingOnly
  <2> HIDE DEF Q, R, x
  <2>3. R[x] = Tail(Q[x]) /\ Q[x] # << >> /\ p = Head(Q[x]).id
    BY <1>1, <1>7, <1>8, <2>2
  <2>4. FateBecomes(fate, fate', p, "done")
    BY <1>2 DEF Inv, Others, FateBecomes
  <2> HIDE DEF p
  <2>5. Once(R, fate')
    BY <2>1, <2>2, <2>3, <2>4, OnceHead DEF Inv, Waiting, Q
  <2> QED
    BY <2>5 DEF Waiting, R, Once, Queues
<1> QED
  BY <1>5, <1>8, <1>9, <1>10 DEF Inv

LEMMA CallbackReturnsKeeps ==
  ASSUME Inv, NEW t \in Threads, CallbackReturns(t)  PROVE Inv'
<1> DEFINE f == Top(t)
           g == [f EXCEPT !.at = "loop"]
<1>1. t \in Actors /\ frames[t] # << >>
  BY DEF CallbackReturns, InCallback, Actors
<1>2. f \in FrameType /\ FrameOK(f) /\ lock = t
      /\ ListOf(frames[t], Len(frames[t])) = f.list
      /\ Len(frames[t]) \in Nat \ {0} /\ GoodFrames(Under(t))
  BY <1>1, TopOf DEF Inv
<1>3. /\ frames' = [frames EXCEPT ![t] = Append(Under(t), g)]
      /\ UNCHANGED <<title, soundVars, recent, device, lock, blocked, turn,
                     creations, fate>>
  BY DEF CallbackReturns
<1> HIDE DEF f
<1>4. /\ g \in FrameType /\ g.list = f.list /\ g.op = f.op /\ g.heard = f.heard
      /\ g.limit = f.limit
  BY <1>2 DEF FrameType
<1> HIDE DEF g
<1>5. FrameOK(g)
  BY <1>2, <1>4 DEF FrameOK
<1>6. SetFrames(t, Append(Under(t), g))
  <2>1. Append(Under(t), g) # << >>
    BY <1>2, <1>5, Pushed
  <2> QED
    BY <1>2, <1>3, <2>1 DEF SetFrames
<1>7. /\ Calling'
      /\ \A b \in Actors, n \in Nat \ {0} :
           ListOf(frames'[b], n) =
             IF b = t /\ n = Len(frames[t]) THEN g.list ELSE ListOf(frames[b], n)
  BY <1>1, <1>5, <1>6, GoesOn DEF Inv
<1>8. \A b \in Actors, n \in Nat \ {0} : ListOf(frames'[b], n) = ListOf(frames[b], n)
  BY <1>2, <1>4, <1>7
<1>9. Good(Sound)' /\ stream' = stream
  BY <1>3, SoundKept DEF Inv
<1>10. Recents' /\ Others'
  BY <1>3, RecentsKept DEF Inv, Others
<1> QED
  BY <1>3, <1>7, <1>8, <1>9, <1>10, Quietly

LEMMA EndStatusKeeps ==
  ASSUME Inv, NEW t \in Threads, EndStatus(t)  PROVE Inv'
<1> DEFINE i == Top(t).slot
<1>1. /\ t \in Actors /\ frames[t] # << >> /\ i \in Slots /\ Top(t).list = << >>
  <2>1. t \in Actors /\ In(t, {"status"})
    BY DEF EndStatus, Actors
  <2> QED
    BY <2>1, InLoop
<1>2. PICK lag \in 0..title.lag, quiet \in BOOLEAN :
        SoundBecomes(GiveBackIdle(Pump(Sound, i, lag), i, quiet))
  BY DEF EndStatus
<1>3. /\ SetFrames(t, Under(t))
      /\ UNCHANGED <<title, recent, device, blocked, turn, creations, fate>>
  BY DEF EndStatus
<1> DEFINE d == Pump(Sound, i, lag)
           e == GiveBackIdle(d, i, quiet)
<1> HIDE DEF i
<1>4. lag \in Nat
  BY TitleFacts DEF Inv, Others
<1>5. Follows(Sound, d)
  BY <1>1, <1>4, PumpGood DEF Inv, Recents
<1> HIDE DEF d
<1>6. Follows(d, e)
  BY <1>1, <1>5, GiveBackGood DEF Follows
<1>7. SoundBecomes(e)
  BY <1>2 DEF d
<1> HIDE DEF e
<1>8. Good(Sound)' /\ \A j \in Slots : stream'[j].packets = stream[j].packets
  <2>1. Good(Sound)' /\ stream' = e.stream
    BY <1>6, <1>7, SoundSet DEF Follows
  <2> QED
    BY <1>5, <1>6, <2>1 DEF Follows, SameRings, Sound
<1>9. Calling' /\ \A b \in Actors, n \in Nat \ {0} :
        ListOf(frames'[b], n) = ListOf(frames[b], n)
  BY <1>1, <1>3, Returned DEF Inv
<1>10. Recents' /\ Others'
  BY <1>3, RecentsKept DEF Inv, Others
<1> QED
  BY <1>3, <1>8, <1>9, <1>10, Quietly

LEMMA EndSweepKeeps ==
  ASSUME Inv, NEW a \in Actors, EndSweep(a)  PROVE Inv'
<1> DEFINE f == Top(a)
           i == f.slot
           m == Min(After(i))
<1>1. /\ frames[a] # << >> /\ f \in FrameType /\ i \in Slots /\ f.list = << >>
  <2>1. In(a, {"work", "service"})
    BY DEF EndSweep
  <2> QED
    BY <2>1, InLoop
<1>2. PICK lag \in 0..title.lag, quiet \in BOOLEAN :
        LET d == Pump(Sound, i, lag)
            e == IF f.op = "work" THEN GiveBackIdle(d, i, quiet) ELSE d
            l == Looking(e, a, f, m, lag)
        IN IF After(i) = {}
           THEN SoundBecomes(e) /\ SetFrames(a, Under(a))
           ELSE SoundBecomes(l.sound) /\ SetFrames(a, Append(Under(a), l.frame))
  BY DEF EndSweep
<1>3. UNCHANGED <<title, recent, device, blocked, turn, creations, fate>>
  BY DEF EndSweep
<1> DEFINE d == Pump(Sound, i, lag)
           e == IF f.op = "work" THEN GiveBackIdle(d, i, quiet) ELSE d
           l == Looking(e, a, f, m, lag)
<1>4. lag \in Nat
  BY TitleFacts DEF Inv, Others
<1>5. Follows(Sound, d)
  <2> HIDE DEF i
  <2> QED
    BY <1>1, <1>4, PumpGood DEF Inv, Recents
<1>6. Follows(Sound, e)
  <2> HIDE DEF d, i
  <2>1. Follows(d, GiveBackIdle(d, i, quiet))
    BY <1>1, <1>5, GiveBackGood DEF Follows
  <2> QED
    BY <1>5, <2>1 DEF Follows, SameRings
<1> HIDE DEF e
<1>7. Recents' /\ Others'
  BY <1>3, RecentsKept DEF Inv, Others
<1>8. CASE After(i) = {}
  <2>1. SoundBecomes(e) /\ SetFrames(a, Under(a))
    BY <1>2, <1>8 DEF e
  <2>2. Good(Sound)' /\ \A j \in Slots : stream'[j].packets = stream[j].packets
    <3>1. Good(Sound)' /\ stream' = e.stream
      BY <1>6, <2>1, SoundSet DEF Follows
    <3> QED
      BY <1>6, <3>1 DEF Follows, SameRings, Sound
  <2>3. Calling' /\ \A b \in Actors, n \in Nat \ {0} :
          ListOf(frames'[b], n) = ListOf(frames[b], n)
    BY <1>1, <2>1, Returned DEF Inv
  <2> QED
    BY <1>3, <1>7, <2>2, <2>3, Quietly
<1>9. CASE After(i) # {}
  <2>1. SoundBecomes(l.sound) /\ SetFrames(a, Append(Under(a), l.frame))
    BY <1>2, <1>9 DEF e
  <2>2. m \in Slots
    <3>1. After(i) \subseteq Nat /\ After(i) \subseteq Slots
      BY Numbers DEF After, Recorded
    <3> QED
      BY <1>9, <3>1, MinOf
  <2> HIDE DEF m, f
  <2>3. Follows(e, l.sound) /\ FrameOK(l.frame) /\ l.frame.list = << >>
    BY <1>1, <1>4, <1>6, <2>2, LookingGood DEF Follows
  <2> HIDE DEF l
  <2>4. Good(Sound)' /\ \A j \in Slots : stream'[j].packets = stream[j].packets
    <3>1. Good(Sound)' /\ stream' = l.sound.stream
      BY <2>1, <2>3, SoundSet DEF Follows
    <3> QED
      BY <1>6, <2>3, <3>1 DEF Follows, SameRings, Sound
  <2>5. Calling' /\ \A b \in Actors, n \in Nat \ {0} :
          ListOf(frames'[b], n) = ListOf(frames[b], n)
    <3>1. ListOf(frames[a], Len(frames[a])) = << >>
      BY <1>1, TopOf DEF Inv, f
    <3>2. /\ Calling' /\ \A b \in Actors, n \in Nat \ {0} :
             ListOf(frames'[b], n) =
               IF b = a /\ n = Len(frames[a]) THEN l.frame.list ELSE ListOf(frames[b], n)
      BY <1>1, <2>1, <2>3, GoesOn DEF Inv
    <3> QED
      BY <2>3, <3>1, <3>2
  <2> QED
    BY <1>3, <1>7, <2>4, <2>5, Quietly
<1> QED
  BY <1>8, <1>9

LEMMA EndProcessKeeps ==
  ASSUME Inv, NEW t \in Threads, EndProcess(t)  PROVE Inv'
<1> DEFINE f == Top(t)
           i == f.slot
           s == stream[i]
           full == Len(s.packets) >= Attached \/ s.object = NoObject
           taken == {p \in title.packets : fate[p] = "free"} # {}
           p == NextPacket
<1>1. /\ t \in Actors /\ frames[t] # << >> /\ f \in FrameType /\ i \in Slots
      /\ f.list = << >>
  <2>1. t \in Actors /\ In(t, {"process"})
    BY DEF EndProcess, Actors
  <2> QED
    BY <2>1, InLoop
<1>2. f.size \in Nat
  BY <1>1 DEF FrameType
<1>3. /\ SetFrames(t, Under(t)) /\ UNCHANGED <<title, device, blocked, turn, creations>>
  BY DEF EndProcess
<1>4. Calling' /\ \A b \in Actors, n \in Nat \ {0} :
        ListOf(frames'[b], n) = ListOf(frames[b], n)
  BY <1>1, <1>3, Returned DEF Inv
<1>5. CASE full \/ ~taken
  <2>1. UNCHANGED <<soundVars, recent, fate>>
    BY <1>5 DEF EndProcess
  <2>2. Good(Sound)' /\ stream' = stream
    BY <2>1, SoundKept DEF Inv
  <2>3. Recents' /\ Others'
    BY <1>3, <2>1, RecentsKept DEF Inv, Others
  <2> QED
    BY <1>4, <2>1, <2>2, <2>3, Quietly
<1>6. CASE ~(full \/ ~taken)
  <2>1. PICK lag \in 0..title.lag :
          SoundBecomes(Pump([Sound EXCEPT !.stream[i] = Queued(s, p, f.size, lag)], i, lag))
    BY <1>6 DEF EndProcess
  <2>2. recent' = Active(i) /\ fate' = [fate EXCEPT ![p] = "pending"]
    BY <1>6 DEF EndProcess
  <2>3. p \in Packets /\ fate[p] = "free"
    BY <1>6, NextPacketFree
  <2>4. lag \in Nat
    BY TitleFacts DEF Inv, Others
  <2> DEFINE r == Queued(s, p, f.size, lag)
             k == [id |-> p, start |-> s.queued, end |-> s.queued + f.size]
             d == Put(Sound, i, r)
             e == Pump(d, i, lag)
  <2>5. s \in StreamType /\ s.base <= s.queued /\ Sound.stream = stream
        /\ stream \in [Slots -> StreamType]
    <3>1. Sound.stream = stream
      BY DEF Sound
    <3> QED
      BY <1>1, <3>1, Parts DEF Inv, Good, SoundType
  <2>6. SoundBecomes(e)
    BY <2>1 DEF Put
  <2>7. /\ k \in PacketType
        /\ r \in StreamType /\ r.packets = Append(s.packets, k)
        /\ r.base <= r.queued /\ r.voice = s.voice /\ r.output = s.output
        /\ r.paused = s.paused /\ r.sent = s.sent /\ r.origin = s.origin
    <3> DEFINE size == f.size
    <3>1. size \in Nat
      BY <1>2
    <3> HIDE DEF s, p, size
    <3>2. /\ k \in PacketType
          /\ r \in StreamType /\ r.packets = Append(s.packets, k)
          /\ r.base <= r.queued /\ r.voice = s.voice /\ r.output = s.output
          /\ r.paused = s.paused /\ r.sent = s.sent /\ r.origin = s.origin
      BY <2>3, <2>4, <2>5, <3>1, QueuedIs DEF size
    <3> QED
      BY <3>2
  <2>8. k.id = p
    OBVIOUS
  <2> HIDE DEF r, k, p
  <2>9. /\ Good(d) /\ d.stream[i] = r
        /\ \A j \in Slots : j # i => d.stream[j] = stream[j]
    BY <1>1, <2>5, <2>7, Aside DEF Inv
  <2> HIDE DEF d
  <2>10. Follows(d, e)
    <3> HIDE DEF i
    <3> QED
      BY <1>1, <2>4, <2>9, PumpGood DEF Inv, Recents
  <2> HIDE DEF e
  <2>11. /\ Good(Sound)' /\ stream'[i].packets = Append(s.packets, k)
         /\ \A j \in Slots : j # i => stream'[j].packets = stream[j].packets
    <3>1. Good(Sound)' /\ stream' = e.stream
      BY <2>6, <2>10, SoundSet DEF Follows
    <3> QED
      BY <1>1, <2>7, <2>9, <2>10, <3>1 DEF Follows, SameRings
  <2>12. Recents' /\ Others'
    BY <1>1, <1>3, <2>2, <2>3, RecentsSet DEF Inv, Others, Fates
  <2>13. Waiting'
    <3> DEFINE Q == Queues(stream, frames)
               R == Queues(stream', frames')
               x == RingAt(i)
    <3>1. x \in Places
      BY <1>1, PlacesDiffer
    <3>2. R[x] = stream'[i].packets /\ Q[x] = s.packets /\ OnlyAt(Q, R, x)
      BY <1>1, <1>4, <2>11, RingOnly
    <3> HIDE DEF Q, R, x, s
    <3>3. R[x] = Append(Q[x], k)
      BY <2>11, <3>2
    <3>4. FateBecomes(fate, fate', k.id, "pending") /\ fate[k.id] # "pending"
      BY <2>2, <2>3, <2>8 DEF Inv, Others, FateBecomes
    <3>5. Once(R, fate')
      BY <2>7, <3>1, <3>2, <3>3, <3>4, OnceAppended DEF Inv, Waiting, Q
    <3> QED
      BY <3>5 DEF Waiting, R, Once, Queues
  <2> QED
    BY <1>4, <2>11, <2>12, <2>13 DEF Inv
<1> QED
  BY <1>5, <1>6

LEMMA FlushKeeps ==
  ASSUME Inv, NEW t \in Threads, NEW o, Flush(t, o)  PROVE Inv'
<1>1. PICK i \in SlotOf(o) :
        /\ SoundBecomes(Flushed(Sound, i))
        /\ Enters(t, Append(Caller(t), [Frame("flush", i) EXCEPT !.list = stream[i].packets]))
  BY DEF Flush
<1> DEFINE s == stream[i]
           f == [Frame("flush", i) EXCEPT !.list = s.packets]
           n == Len(frames[t]) + 1
<1>2. i \in Slots /\ t \in Actors /\ lock \in {Nobody, t}
  BY InCall DEF Flush, SlotOf
<1>3. s \in StreamType /\ Sound.stream = stream
  <2>1. Sound.stream = stream
    BY DEF Sound
  <2> QED
    BY <1>2, <2>1, Parts DEF Inv
<1>4. f \in FrameType /\ f.list = s.packets /\ FrameOK(f)
  <2>1. s.packets \in Seq(PacketType)
    BY <1>3, StreamFields
  <2> DEFINE b == Frame("flush", i)
  <2>2. b \in FrameType /\ b.heard = Unheard /\ b.op = "flush"
    BY <1>2, BareFrame
  <2> HIDE DEF b, s
  <2>3. f \in FrameType /\ f.list = s.packets /\ f.heard = b.heard /\ f.op = b.op
    <3> DEFINE q == s.packets
    <3>1. f = [b EXCEPT !.list = q] /\ q \in Seq(PacketType)
      BY <2>1 DEF b
    <3> HIDE DEF f, q
    <3>2. f \in FrameType /\ f.list = q /\ f.heard = b.heard /\ f.op = b.op
      BY <2>2, <3>1 DEF FrameType
    <3> QED
      BY <3>2 DEF q
  <2> QED
    BY <2>2, <2>3 DEF FrameOK
<1>5. /\ SetFrames(t, Append(Caller(t), f)) /\ blocked' = blocked \ {t}
      /\ UNCHANGED <<title, device, turn, recent, creations, fate>>
  BY <1>1 DEF Flush, Enters
<1> HIDE DEF f
<1>6. /\ Calling' /\ n \in Nat \ {0} /\ ListOf(frames[t], n) = << >>
      /\ \A b \in Actors, m \in Nat \ {0} :
           ListOf(frames'[b], m) = IF b = t /\ m = n THEN s.packets ELSE ListOf(frames[b], m)
  BY <1>2, <1>4, <1>5, Called DEF Inv
<1>7. /\ Good(Sound)' /\ stream'[i].packets = << >>
      /\ \A j \in Slots : j # i => stream'[j].packets = stream[j].packets
  <2>1. /\ Good(Flushed(Sound, i)) /\ RingBecomes(Sound, Flushed(Sound, i), i, << >>)
    BY <1>2, FlushedGood DEF Inv
  <2>2. Good(Sound)' /\ stream' = Flushed(Sound, i).stream
    BY <1>1, <2>1, SoundSet
  <2> QED
    BY <1>3, <2>1, <2>2 DEF RingBecomes
<1>8. Recents' /\ Others'
  BY <1>5, RecentsKept DEF Inv, Others
<1>9. Waiting'
  <2> HIDE DEF n, s
  <2> DEFINE Q == Queues(stream, frames)
             R == Queues(stream', frames')
             x == RingAt(i)
             y == ListAt(t, n)
  <2>1. x \in Places /\ y \in Places /\ x # y
    BY <1>2, <1>6, PlacesDiffer
  <2>2. /\ R[x] = << >> /\ Q[x] = s.packets /\ R[y] = s.packets /\ Q[y] = << >>
    BY <1>2, <1>6, <1>7, QueueAt DEF s
  <2>3. ASSUME NEW z \in Places, z # x, z # y  PROVE R[z] = Q[z]
    <3>1. CASE \E j \in Slots : z = RingAt(j)
      BY <1>7, <2>3, <3>1, QueueAt
    <3>2. CASE \E b \in Actors, m \in Nat \ {0} : z = ListAt(b, m)
      BY <1>6, <2>3, <3>2, QueueAt
    <3> QED
      BY <3>1, <3>2, PlacesDiffer
  <2> HIDE DEF Q, R, x, y
  <2>4. Once(Q, fate)
    BY DEF Inv, Waiting, Q
  <2>5. Once(R, fate)
    BY <2>1, <2>2, <2>3, <2>4, OnceMoved
  <2>6. fate' = fate
    BY <1>5
  <2> QED
    BY <2>5, <2>6 DEF Waiting, R, Once, Queues
<1> QED
  BY <1>6, <1>7, <1>8, <1>9 DEF Inv

LEMMA CompleteFlushedKeeps ==
  ASSUME Inv, NEW t \in Threads, CompleteFlushed(t)  PROVE Inv'
<1> DEFINE f == Top(t)
           h == [f EXCEPT !.list = Tail(@)]
           g == IF stream[f.slot].callback
                THEN [h EXCEPT !.at = "callback", !.called = FALSE] ELSE h
           p == Head(f.list).id
           n == Len(frames[t])
<1>1. /\ t \in Actors /\ frames[t] # << >> /\ f \in FrameType /\ FrameOK(f)
      /\ f.op = "flush" /\ f.list # << >> /\ f.slot \in Slots
      /\ n \in Nat \ {0} /\ ListOf(frames[t], n) = f.list
  <2>1. t \in Actors /\ In(t, {"flush"}) /\ f.list # << >>
    BY DEF CompleteFlushed, Actors
  <2>2. frames[t] # << >> /\ f \in FrameType /\ FrameOK(f) /\ f.op \in {"flush"}
        /\ f.slot \in Slots
    BY <2>1, InLoop
  <2> QED
    BY <2>1, <2>2, TopOf DEF Inv
<1>2. /\ fate' = [fate EXCEPT ![p] = "flushed"] /\ SetFrames(t, Append(Under(t), g))
      /\ UNCHANGED <<title, soundVars, recent, device, blocked, turn, creations>>
  <2>1. fate' = [fate EXCEPT ![p] = "flushed"] /\ AfterCompleting(t, h)
        /\ UNCHANGED <<title, soundVars, recent, device, blocked, turn, creations>>
    BY DEF CompleteFlushed
  <2> DEFINE sl == f.slot
  <2>2. h.slot = sl
    <3>1. sl = f.slot
      OBVIOUS
    <3> HIDE DEF f, sl
    <3> QED
      BY <1>1, <3>1 DEF FrameType
  <2> QED
    BY <2>1, <2>2 DEF AfterCompleting
<1>3. f.list \in Seq(PacketType) /\ Tail(f.list) \in Seq(PacketType) /\ p \in Packets
  <2> DEFINE q == f.list
  <2>1. q \in Seq(PacketType) /\ q # << >>
    BY <1>1 DEF FrameType
  <2> HIDE DEF q
  <2>2. Head(q) \in PacketType /\ Tail(q) \in Seq(PacketType)
    BY <2>1
  <2> QED
    BY <2>1, <2>2 DEF PacketType, q
<1> HIDE DEF f
<1>4. /\ h \in FrameType /\ h.list = Tail(f.list) /\ h.op = f.op /\ h.heard = f.heard
      /\ h.limit = f.limit
  BY <1>1, <1>3 DEF FrameType
<1> HIDE DEF h
<1>5. g.list = h.list /\ FrameOK(g)
  <2>1. /\ g \in FrameType /\ g.list = h.list /\ g.op = h.op /\ g.heard = h.heard
        /\ g.limit = h.limit
    BY <1>4 DEF FrameType
  <2> HIDE DEF g
  <2> QED
    BY <1>1, <1>4, <2>1 DEF FrameOK
<1> HIDE DEF g
<1>6. /\ Calling'
      /\ \A b \in Actors, m \in Nat \ {0} :
           ListOf(frames'[b], m) = IF b = t /\ m = n THEN g.list ELSE ListOf(frames[b], m)
  BY <1>1, <1>2, <1>5, GoesOn DEF Inv
<1> HIDE DEF n
<1>7. Good(Sound)' /\ stream' = stream
  BY <1>2, SoundKept DEF Inv
<1>8. Recents' /\ Others'
  BY <1>2, <1>3, RecentsKept DEF Inv, Others, Fates
<1>9. Waiting'
  <2> DEFINE Q == Queues(stream, frames)
             R == Queues(stream', frames')
             y == ListAt(t, n)
  <2>1. y \in Places
    BY <1>1, PlacesDiffer
  <2>2. R[y] = Tail(f.list) /\ Q[y] = f.list
    BY <1>1, <1>4, <1>5, <1>6, QueueAt
  <2>3. OnlyAt(Q, R, y)
    <3>1. ASSUME NEW z \in Places, z # y  PROVE R[z] = Q[z]
      <4>1. CASE \E j \in Slots : z = RingAt(j)
        BY <1>7, <4>1, QueueAt
      <4>2. CASE \E b \in Actors, m \in Nat \ {0} : z = ListAt(b, m)
        BY <1>6, <3>1, <4>2, QueueAt
      <4> QED
        BY <4>1, <4>2, PlacesDiffer
    <3> HIDE DEF Q, R, y
    <3> QED
      BY <3>1 DEF OnlyAt
  <2> HIDE DEF Q, R, y
  <2>4. Once(Q, fate)
    BY DEF Inv, Waiting, Q
  <2>5. R[y] = Tail(Q[y]) /\ Q[y] # << >> /\ p = Head(Q[y]).id
    BY <1>1, <2>2
  <2>6. FateBecomes(fate, fate', p, "flushed")
    BY <1>2, <1>3 DEF Inv, Others, FateBecomes
  <2> HIDE DEF p
  <2>7. Once(R, fate')
    BY <2>1, <2>3, <2>4, <2>5, <2>6, OnceHead
  <2> QED
    BY <2>7 DEF Waiting, R, Once, Queues
<1> QED
  BY <1>6, <1>7, <1>8, <1>9 DEF Inv

LEMMA EndFlushKeeps ==
  ASSUME Inv, NEW t \in Threads, EndFlush(t)  PROVE Inv'
<1>1. /\ t \in Actors /\ frames[t] # << >> /\ Top(t).list = << >>
  BY DEF EndFlush, In, Actors
<1>2. /\ SetFrames(t, Under(t))
      /\ UNCHANGED <<title, soundVars, recent, device, blocked, turn, creations, fate>>
  BY DEF EndFlush
<1>3. Good(Sound)' /\ stream' = stream
  BY <1>2, SoundKept DEF Inv
<1>4. Calling' /\ \A b \in Actors, n \in Nat \ {0} :
        ListOf(frames'[b], n) = ListOf(frames[b], n)
  BY <1>1, <1>2, Returned DEF Inv
<1>5. Recents' /\ Others'
  BY <1>2, RecentsKept DEF Inv, Others
<1> QED
  BY <1>2, <1>3, <1>4, <1>5, Quietly

\* The stream in slot i is dropped, with its packets.
LEMMA DroppedKeeps ==
  ASSUME Inv, NEW i \in Slots, fate' = Dropped(i), Good(Sound)', Calling',
         stream'[i].packets = << >>,
         \A j \in Slots : j # i => stream'[j].packets = stream[j].packets,
         \A a \in Actors, n \in Nat \ {0} :
           ListOf(frames'[a], n) = ListOf(frames[a], n)
  PROVE  Waiting' /\ fate' \in [Packets -> Fates]
<1> DEFINE Q == Queues(stream, frames)
           R == Queues(stream', frames')
           x == RingAt(i)
           q == stream[i].packets
<1>1. x \in Places
  BY PlacesDiffer
<1>2. R[x] = << >> /\ Q[x] = q /\ OnlyAt(Q, R, x)
  BY RingOnly
<1> HIDE DEF Q, R, x
<1>3. \A p \in Packets : fate'[p] = IF \E k \in DOMAIN q : q[k].id = p THEN "dropped"
                                    ELSE fate[p]
  BY DEF Dropped, ToSet
<1>4. fate' \in [Packets -> Fates]
  BY DEF Dropped, Inv, Others, Fates
<1> HIDE DEF q
<1>5. \A p \in Packets : fate'[p] = IF \E k \in DOMAIN Q[x] : Q[x][k].id = p
                                    THEN "dropped" ELSE fate[p]
  BY <1>2, <1>3
<1>6. Once(R, fate')
  BY <1>1, <1>2, <1>5, OnceEmptied DEF Inv, Waiting, Q
<1> QED
  BY <1>4, <1>6 DEF Waiting, R, Once, Queues

LEMMA SlotForOne ==
  ASSUME Inv, NEW o  PROVE SlotFor(o) \subseteq Slots
<1> DEFINE free == Slots \ Recorded
<1>1. CASE SlotOf(o) # {}
  BY <1>1 DEF SlotFor, SlotOf
<1>2. CASE SlotOf(o) = {} /\ free # {}
  <2>1. Min(free) \in Slots
    BY <1>2, MinOf, Numbers
  <2> QED
    BY <1>2, <2>1 DEF SlotFor
<1>3. CASE SlotOf(o) = {} /\ free = {} /\ Idle(Sound) # {}
  <2>1. LongestIdle(Idle(Sound)) \in Slots
    BY <1>3, LongestOf DEF Inv, Recents, Idle
  <2> QED
    BY <1>3, <2>1 DEF SlotFor
<1>4. CASE SlotOf(o) = {} /\ free = {} /\ Idle(Sound) = {}
  BY <1>4 DEF SlotFor
<1> QED
  BY <1>1, <1>2, <1>3, <1>4

LEMMA CreateKeeps ==
  ASSUME Inv, NEW t \in Threads, NEW o \in title.objects, Create(t, o)  PROVE Inv'
<1>1. t \in Actors /\ lock \in {Nobody, t}
  BY InCall DEF Create
<1>2. /\ SetFrames(t, Caller(t)) /\ blocked' = blocked \ {t}
      /\ UNCHANGED <<title, device, turn>> /\ creations' = creations - 1 /\ creations > 0
  BY DEF Create, Enters
<1>3. Calling' /\ \A b \in Actors, n \in Nat \ {0} :
        ListOf(frames'[b], n) = ListOf(frames[b], n)
  BY <1>1, <1>2, CalledBriefly DEF Inv
<1>4. creations' \in Nat
  BY <1>2 DEF Inv, Others
<1>5. CASE SlotFor(o) = {}
  <2>1. UNCHANGED <<soundVars, recent, fate>>
    BY <1>5 DEF Create
  <2>2. Good(Sound)' /\ stream' = stream
    BY <2>1, SoundKept DEF Inv
  <2>3. Recents' /\ Others'
    BY <1>2, <1>4, <2>1, RecentsKept DEF Inv, Others
  <2> QED
    BY <1>3, <2>1, <2>2, <2>3, Quietly
<1>6. CASE SlotFor(o) # {}
  <2> DEFINE cb == o \in title.callback
             out == o \notin title.silent
  <2>1. PICK i \in SlotFor(o) :
          /\ SoundBecomes([Forgotten(Sound, i) EXCEPT
               !.stream[i] = [@ EXCEPT !.object = o, !.callback = cb, !.output = out]])
          /\ recent' = Active(i)
          /\ fate' = Dropped(i)
    BY <1>6 DEF Create
  <2> DEFINE e == [Forgotten(Sound, i) EXCEPT
                     !.stream[i] = [@ EXCEPT !.object = o, !.callback = cb, !.output = out]]
  <2>2. i \in Slots /\ o \in Objects /\ cb \in BOOLEAN /\ out \in BOOLEAN
    BY SlotForOne, TitleFacts DEF Inv, Others
  <2> HIDE DEF cb, out
  <2>3. Good(e) /\ RingBecomes(Sound, e, i, << >>)
    BY <2>2, MadeGood DEF Inv
  <2> HIDE DEF e
  <2>4. SoundBecomes(e) /\ recent' = Active(i) /\ fate' = Dropped(i)
    BY <2>1 DEF e
  <2>5. /\ Good(Sound)' /\ stream'[i].packets = << >>
        /\ \A j \in Slots : j # i => stream'[j].packets = stream[j].packets
    <3>1. Good(Sound)' /\ stream' = e.stream
      BY <2>3, <2>4, SoundSet
    <3> QED
      BY <2>3, <3>1 DEF RingBecomes, Sound
  <2>6. Waiting' /\ fate' \in [Packets -> Fates]
    BY <1>3, <2>2, <2>4, <2>5, DroppedKeeps
  <2>7. Recents' /\ Others'
    BY <1>2, <1>4, <2>2, <2>4, <2>6, RecentsSet DEF Inv, Others
  <2> QED
    BY <1>3, <2>5, <2>6, <2>7 DEF Inv
<1> QED
  BY <1>5, <1>6

LEMMA ReleaseKeeps ==
  ASSUME Inv, NEW t \in Threads, NEW o, Release(t, o)  PROVE Inv'
<1>1. t \in Actors /\ lock \in {Nobody, t}
  BY InCall DEF Release
<1>2. PICK i \in SlotOf(o) : SoundBecomes(Forgotten(Sound, i)) /\ fate' = Dropped(i)
  BY DEF Release
<1>3. /\ SetFrames(t, Caller(t)) /\ blocked' = blocked \ {t}
      /\ UNCHANGED <<title, device, turn, recent, creations>>
  BY DEF Release, Enters
<1>4. Calling' /\ \A b \in Actors, n \in Nat \ {0} :
        ListOf(frames'[b], n) = ListOf(frames[b], n)
  BY <1>1, <1>3, CalledBriefly DEF Inv
<1>5. i \in Slots
  BY DEF SlotOf
<1>6. /\ Good(Sound)' /\ stream'[i].packets = << >>
      /\ \A j \in Slots : j # i => stream'[j].packets = stream[j].packets
  <2>1. Good(Forgotten(Sound, i)) /\ RingBecomes(Sound, Forgotten(Sound, i), i, << >>)
    BY <1>5, ForgottenGood DEF Inv
  <2>2. Good(Sound)' /\ stream' = Forgotten(Sound, i).stream
    BY <1>2, <2>1, SoundSet
  <2> QED
    BY <2>1, <2>2 DEF RingBecomes, Sound
<1>7. Waiting' /\ fate' \in [Packets -> Fates]
  BY <1>2, <1>4, <1>5, <1>6, DroppedKeeps
<1>8. Recents' /\ Others'
  BY <1>3, <1>7, RecentsKept DEF Inv, Others
<1> QED
  BY <1>4, <1>6, <1>7, <1>8 DEF Inv

LEMMA TurnsKeep ==
  ASSUME Inv, NEW t \in Threads,
         Blocks(t) \/ \E u \in title.threads \ {t} : Yields(t, u)
  PROVE  Inv'
<1>1. /\ UNCHANGED <<title, soundVars, recent, device, lock, frames, creations, fate>>
      /\ blocked' \subseteq Threads /\ turn' \in Threads
  <2>1. CASE Blocks(t)
    BY <2>1 DEF Blocks, Inv, Others
  <2>2. CASE \E u \in title.threads \ {t} : Yields(t, u)
    BY <2>2, TitleFacts DEF Yields, Inv, Others
  <2> QED
    BY <2>1, <2>2
<1>2. Good(Sound)' /\ stream' = stream
  BY <1>1, SoundKept DEF Inv
<1>3. Calling' /\ \A b \in Actors, n \in Nat \ {0} :
        ListOf(frames'[b], n) = ListOf(frames[b], n)
  BY <1>1, CallingKept DEF Inv
<1>4. Recents' /\ Others'
  BY <1>1, RecentsKept DEF Inv, Others
<1> QED
  BY <1>1, <1>2, <1>3, <1>4, Quietly

LEMMA DeviceOpensKeeps ==
  ASSUME Inv, DeviceOpens  PROVE Inv'
<1>1. /\ UNCHANGED <<title, soundVars, recent, lock, frames, blocked, turn,
                     creations, fate>>
      /\ device' \in BOOLEAN
  BY DEF DeviceOpens
<1>2. Good(Sound)' /\ stream' = stream
  BY <1>1, SoundKept DEF Inv
<1>3. Calling' /\ \A b \in Actors, n \in Nat \ {0} :
        ListOf(frames'[b], n) = ListOf(frames[b], n)
  BY <1>1, CallingKept DEF Inv
<1>4. Recents' /\ Others'
  BY <1>1, RecentsKept DEF Inv, Others
<1> QED
  BY <1>1, <1>2, <1>3, <1>4, Quietly

\* The clock alone moves.
LEMMA AdvancedIs ==
  ASSUME title.lag \in Nat, NEW s \in StreamType, s.base <= s.queued
  PROVE  /\ Advanced(s) \in StreamType /\ Advanced(s).packets = s.packets
         /\ Advanced(s).base = s.base /\ Advanced(s).queued = s.queued
         /\ Advanced(s).voice = s.voice /\ Advanced(s).output = s.output
         /\ Advanced(s).paused = s.paused /\ Advanced(s).sent = s.sent
         /\ Advanced(s).origin = s.origin
<1> DEFINE n == Least(s.elapsed + 1, EndOfClock(s))
<1>1. n \in Nat
  BY StreamFields DEF Least, EndOfClock
<1>2. CASE s.running
  <2>1. Advanced(s) = [s EXCEPT !.elapsed = n]
    BY <1>2 DEF Advanced
  <2> HIDE DEF n
  <2> QED
    BY <1>1, <2>1 DEF StreamType
<1>3. CASE ~s.running
  BY <1>3 DEF Advanced
<1> QED
  BY <1>2, <1>3

LEMMA TickKeeps ==
  ASSUME Inv, Tick  PROVE Inv'
<1>1. /\ stream' = [i \in Slots |-> Advanced(stream[i])]
      /\ UNCHANGED <<title, owner, host, recent, device, lock, frames, blocked,
                     turn, creations, fate>>
  BY DEF Tick
<1>2. Consistent(stream, owner, host)
  BY DEF Inv, Good, Sound
<1>3. ASSUME NEW i \in Slots
      PROVE  /\ stream'[i] \in StreamType /\ stream'[i].packets = stream[i].packets
             /\ stream'[i].base = stream[i].base /\ stream'[i].queued = stream[i].queued
             /\ stream'[i].voice = stream[i].voice /\ stream'[i].output = stream[i].output
             /\ stream'[i].paused = stream[i].paused /\ stream'[i].sent = stream[i].sent
             /\ stream'[i].origin = stream[i].origin
  <2> DEFINE s == stream[i]
  <2>1. s \in StreamType /\ s.base <= s.queued /\ title.lag \in Nat
    BY <1>2, TitleFacts DEF Consistent, Within, Inv, Others
  <2>2. stream'[i] = Advanced(s)
    BY <1>1
  <2> HIDE DEF s
  <2>3. /\ stream'[i] \in StreamType /\ stream'[i].packets = s.packets
        /\ stream'[i].base = s.base /\ stream'[i].queued = s.queued
        /\ stream'[i].voice = s.voice /\ stream'[i].output = s.output
        /\ stream'[i].paused = s.paused /\ stream'[i].sent = s.sent
        /\ stream'[i].origin = s.origin
    BY <2>1, <2>2, AdvancedIs
  <2> QED
    BY <2>3 DEF s
<1>4. Consistent(stream', owner, host)
  <2>1. stream' \in [Slots -> StreamType]
    BY <1>1, <1>3
  <2>2. Agree(stream', owner, host)
    <3>1. ASSUME NEW v \in Voices
          PROVE  IF owner[v] = 0
                 THEN host[v] = Silence /\ \A i \in Slots : stream'[i].voice # v
                 ELSE stream'[owner[v]].voice = v
      <4>1. CASE owner[v] = 0
        BY <1>2, <1>3, <4>1 DEF Consistent, Agree
      <4>2. CASE owner[v] # 0
        <5>1. owner[v] \in Slots /\ stream[owner[v]].voice = v
          BY <1>2, <4>2 DEF Consistent, Agree
        <5> QED
          BY <1>3, <4>2, <5>1
      <4> QED
        BY <4>1, <4>2
    <3>2. \A i \in Slots : stream'[i].voice # 0 => owner[stream'[i].voice] = i
      BY <1>2, <1>3 DEF Consistent, Agree
    <3> QED
      BY <3>1, <3>2 DEF Agree
  <2>3. Exact(stream', host)
    BY <1>2, <1>3 DEF Consistent, Exact, ExactAt
  <2>4. Within(stream', host)
    BY <1>2, <1>3 DEF Consistent, Within
  <2> QED
    BY <1>2, <2>1, <2>2, <2>3, <2>4 DEF Consistent
<1>5. Good(Sound)'
  <2> DEFINE e == [stream |-> stream', owner |-> owner, host |-> host]
  <2>1. Good(e)
    BY <1>4, Assembled
  <2>2. SoundBecomes(e)
    BY <1>1 DEF SoundBecomes
  <2> HIDE DEF e
  <2> QED
    BY <2>1, <2>2, SoundSet
<1>6. Calling' /\ \A b \in Actors, n \in Nat \ {0} :
        ListOf(frames'[b], n) = ListOf(frames[b], n)
  BY <1>1, CallingKept DEF Inv
<1>7. Recents' /\ Others'
  BY <1>1, RecentsKept DEF Inv, Others
<1> QED
  BY <1>1, <1>3, <1>5, <1>6, <1>7, Quietly

LEMMA HostPlaysKeeps ==
  ASSUME Inv, NEW v \in Voices, HostPlays(v)  PROVE Inv'
<1> DEFINE i == owner[v]
           s == stream[i]
           h == host[v]
           g == [h EXCEPT !.queue = Tail(@), !.played = @ + 1]
<1>1. /\ h.queue # << >> /\ host' = [host EXCEPT ![v] = g]
      /\ UNCHANGED <<title, stream, owner, recent, device, lock, frames, blocked,
                     turn, creations, fate>>
  BY DEF HostPlays
<1>2. Consistent(stream, owner, host)
  BY DEF Inv, Good, Sound
<1>3. h \in HostType /\ h.queue \in Seq(Nat) /\ h.played \in Nat /\ Len(h.queue) <= Depth
  BY <1>2 DEF Consistent, HostType, Within
<1>4. i \in Slots /\ s.voice = v /\ s.voice # 0
  <2>1. owner[v] # 0
    BY <1>1, <1>2 DEF Consistent, Agree, Silence
  <2> QED
    BY <1>2, <2>1, Numbers DEF Consistent, Agree
<1>5. s \in StreamType /\ s.base <= s.queued /\ ExactAt(s, h)
  BY <1>2, <1>4 DEF Consistent, Exact, Within
<1> DEFINE q == h.queue
           pl == h.played
<1>6. /\ Tail(q) \in Seq(Nat) /\ Len(Tail(q)) = Len(q) - 1 /\ Len(q) \in Nat
      /\ DOMAIN Tail(q) = 1..(Len(q) - 1) /\ DOMAIN q = 1..Len(q)
      /\ \A k \in 1..(Len(q) - 1) : Tail(q)[k] = q[k + 1]
  <2>1. q \in Seq(Nat) /\ q # << >>
    BY <1>1, <1>3
  <2> HIDE DEF q
  <2> QED
    BY <2>1
<1>7. g \in HostType /\ g.queue = Tail(q) /\ g.played = pl + 1
  <2>1. pl + 1 \in Nat
    BY <1>3
  <2> HIDE DEF h
  <2> QED
    BY <1>3, <1>6, <2>1 DEF HostType
<1> HIDE DEF g
<1>8. ExactAt(s, g) /\ Len(g.queue) <= Depth
  <2>1. ASSUME s.output, ~s.paused
        PROVE  /\ \A k \in DOMAIN g.queue : g.queue[k] = s.origin + g.played + k - 1
               /\ s.origin + g.played + Len(g.queue) = s.sent
    <3>1. /\ \A k \in 1..Len(q) : q[k] = s.origin + pl + k - 1
          /\ s.origin + pl + Len(q) = s.sent
      BY <1>5, <1>6, <2>1 DEF ExactAt
    <3>2. s.origin \in Nat /\ pl \in Nat
      BY <1>3, <1>5, StreamFields
    <3> HIDE DEF q, pl, s
    <3>3. ASSUME NEW k \in 1..(Len(q) - 1)  PROVE Tail(q)[k] = s.origin + (pl + 1) + k - 1
      <4>1. k + 1 \in 1..Len(q)
        BY <1>6
      <4>2. q[k + 1] = s.origin + pl + (k + 1) - 1
        BY <3>1, <4>1
      <4>3. Tail(q)[k] = q[k + 1] /\ k \in Int
        BY <1>6
      <4> DEFINE o == s.origin
      <4>4. o \in Int /\ pl \in Int /\ q[k + 1] = o + pl + (k + 1) - 1
        BY <3>2, <4>2
      <4> HIDE DEF o
      <4>5. o + pl + (k + 1) - 1 = o + (pl + 1) + k - 1
        BY <4>3, <4>4
      <4> QED
        BY <4>3, <4>4, <4>5 DEF o
    <3>4. s.origin + (pl + 1) + (Len(q) - 1) = s.sent
      <4> DEFINE o == s.origin
                 n == Len(q)
      <4>1. o \in Int /\ pl \in Int /\ n \in Int /\ o + pl + n = s.sent
        BY <1>6, <3>1, <3>2
      <4> HIDE DEF o, n
      <4>2. o + (pl + 1) + (n - 1) = o + pl + n
        BY <4>1
      <4> QED
        BY <4>1, <4>2 DEF o, n
    <3> QED
      BY <1>6, <1>7, <3>3, <3>4
  <2>2. Len(g.queue) <= Depth
    <3> HIDE DEF q
    <3>1. Len(q) <= Depth
      BY <1>3 DEF q
    <3> QED
      BY <1>6, <1>7, <3>1, Numbers
  <2> QED
    BY <2>1, <2>2 DEF ExactAt
<1>9. Consistent(stream, owner, host')
  <2>1. Consistent([stream EXCEPT ![i] = s], owner, [host EXCEPT ![s.voice] = g])
    <3> HIDE DEF i
    <3> QED
      BY <1>2, <1>4, <1>5, <1>7, <1>8, VoiceMoves
  <2>2. [stream EXCEPT ![i] = s] = stream
    BY <1>2 DEF Consistent
  <2> QED
    BY <1>1, <1>4, <2>1, <2>2
<1>10. Good(Sound)'
  <2> DEFINE e == [stream |-> stream, owner |-> owner, host |-> host']
  <2>1. Good(e)
    BY <1>9, Assembled
  <2>2. SoundBecomes(e)
    BY <1>1 DEF SoundBecomes
  <2> HIDE DEF e
  <2> QED
    BY <2>1, <2>2, SoundSet
<1>11. Calling' /\ \A b \in Actors, n \in Nat \ {0} :
        ListOf(frames'[b], n) = ListOf(frames[b], n)
  BY <1>1, CallingKept DEF Inv
<1>12. Recents' /\ Others'
  BY <1>1, RecentsKept DEF Inv, Others
<1> QED
  BY <1>1, <1>10, <1>11, <1>12, Quietly

---------------------------------------------------------------------------
(* The invariant is inductive *)

LEMMA InitKeeps ==
  Init => Inv
<1> SUFFICES ASSUME Init  PROVE Inv
  OBVIOUS
<1>1. Good(Sound)
  <2>1. /\ Sound.stream = [i \in Slots |-> NoStream]
        /\ Sound.owner = [v \in Voices |-> 0]
        /\ Sound.host = [v \in Voices |-> Silence]
        /\ Sound = [stream |-> Sound.stream, owner |-> Sound.owner, host |-> Sound.host]
    BY DEF Init, Sound
  <2> DEFINE d == Sound
  <2> HIDE DEF d
  <2>2. /\ d.stream \in [Slots -> StreamType] /\ d.owner \in [Voices -> Slots \cup {0}]
        /\ d.host \in [Voices -> HostType]
    BY <2>1, NoStreamType, SilenceType DEF d
  <2>3. Agree(d.stream, d.owner, d.host) /\ Exact(d.stream, d.host)
    BY <2>1, NoStreamType, Numbers DEF d, Agree, Exact
  <2>4. NoStream.base = 0 /\ NoStream.queued = 0
    BY DEF NoStream
  <2>5. Within(d.stream, d.host)
    BY <2>1, <2>4, SilenceType, Numbers DEF d, Within
  <2> QED
    BY <2>1, <2>2, <2>3, <2>5, Assembled DEF d, Consistent
<1>2. Recents
  <2>1. recent = [i \in 1..Cardinality(Slots) |-> i] /\ Cardinality(Slots) \in Nat
    BY FS_CardinalityType, DsStreamAssumption DEF Init
  <2>2. recent \in Seq(Slots) /\ Len(recent) = Cardinality(Slots)
    BY <2>1, DsStreamAssumption
  <2>3. Placed
    BY DEF Placed, Init
  <2> QED
    BY <2>2, <2>3 DEF Recents
<1>3. Others
  BY TitleFacts DEF Init, Others, Fates
<1>4. Calling
  <2>1. \A a \in Actors : frames[a] = << >>
    BY DEF Init
  <2>2. GoodFrames(<< >>)
    BY DEF GoodFrames
  <2>3. Nobody \notin Actors
    BY DsStreamAssumption DEF Actors
  <2> QED
    BY <2>1, <2>2, <2>3 DEF Init, Calling
<1>5. Waiting
  <2> DEFINE Q == Queues(stream, frames)
  <2>1. \A i \in Slots : stream[i].packets = << >>
    BY DEF Init, NoStream
  <2>2. \A a \in Actors, n \in Nat \ {0} : ListOf(frames[a], n) = << >>
    BY DEF Init, ListOf
  <2>3. \A x \in Places : Q[x] = << >>
    BY <2>1, <2>2, QueueAt, PlacesDiffer
  <2> HIDE DEF Q
  <2>4. \A p \in Packets : fate[p] # "pending"
    BY DEF Init
  <2>5. \A x \in Places : Q[x] \in Seq(PacketType) /\ DOMAIN Q[x] = {}
    <3>1. << >> \in Seq(PacketType) /\ DOMAIN << >> = {}
      OBVIOUS
    <3> QED
      BY <2>3, <3>1
  <2>6. Once(Q, fate)
    BY <2>4, <2>5 DEF Once
  <2> QED
    BY <2>6 DEF Waiting, Q
<1> QED
  BY <1>1, <1>2, <1>3, <1>4, <1>5 DEF Inv

LEMMA TitleCallsKeep ==
  ASSUME Inv, NEW t \in Threads, TitleCalls(t)  PROVE Inv'
<1>1. title.sizes \subseteq Nat
  BY TitleFacts DEF Inv, Others
<1>2. ASSUME NEW o \in title.objects,
             \/ Create(t, o)
             \/ Release(t, o)
             \/ GetStatus(t, o)
             \/ Flush(t, o)
             \/ ProcessUnknown(t, o)
             \/ \E size \in title.sizes : Process(t, o, size)
             \/ \E mode \in {"resume", "pause", "synch"} : Pause(t, o, mode)
      PROVE  Inv'
  <2>1. CASE Create(t, o)
    BY <2>1, CreateKeeps
  <2>2. CASE Release(t, o)
    BY <2>2, ReleaseKeeps
  <2>3. CASE GetStatus(t, o)
    BY <2>3, GetStatusKeeps
  <2>4. CASE Flush(t, o)
    BY <2>4, FlushKeeps
  <2>5. CASE ProcessUnknown(t, o)
    BY <2>5, ProcessUnknownKeeps
  <2>6. CASE \E size \in title.sizes : Process(t, o, size)
    BY <1>1, <2>6, ProcessKeeps
  <2>7. CASE \E mode \in {"resume", "pause", "synch"} : Pause(t, o, mode)
    BY <2>7, PauseKeeps
  <2> QED
    BY <1>2, <2>1, <2>2, <2>3, <2>4, <2>5, <2>6, <2>7
<1>3. CASE DoWork(t)
  BY <1>3, DoWorkKeeps
<1>4. CASE SynchPlayback(t)
  BY <1>4, SynchPlaybackKeeps
<1> QED
  BY <1>2, <1>3, <1>4 DEF TitleCalls

LEMMA CallStepsKeep ==
  ASSUME Inv, NEW a \in Actors, CallSteps(a)  PROVE Inv'
  BY CompletePassedKeeps, EndSweepKeeps DEF CallSteps

LEMMA TitleStepsKeep ==
  ASSUME Inv, NEW t \in Threads, TitleSteps(t)  PROVE Inv'
<1>1. t \in Actors
  BY DEF Actors
<1>2. CASE CallSteps(t)
  BY <1>1, <1>2, CallStepsKeep
<1>3. CASE EndStatus(t)
  BY <1>3, EndStatusKeeps
<1>4. CASE EndProcess(t)
  BY <1>4, EndProcessKeeps
<1>5. CASE CompleteFlushed(t)
  BY <1>5, CompleteFlushedKeeps
<1>6. CASE EndFlush(t)
  BY <1>6, EndFlushKeeps
<1>7. CASE StartHeld(t)
  BY <1>7, StartHeldKeeps
<1>8. CASE CallbackReturns(t)
  BY <1>8, CallbackReturnsKeeps
<1> QED
  BY <1>2, <1>3, <1>4, <1>5, <1>6, <1>7, <1>8 DEF TitleSteps

LEMMA NextKeeps ==
  Inv /\ [Next]_vars => Inv'
<1> SUFFICES ASSUME Inv, [Next]_vars  PROVE Inv'
  OBVIOUS
<1>1. ASSUME NEW t \in Threads,
             \/ TitleCalls(t)
             \/ TitleSteps(t)
             \/ Blocks(t)
             \/ \E u \in title.threads \ {t} : Yields(t, u)
      PROVE  Inv'
  <2>1. title.threads \subseteq Threads
    BY TitleFacts DEF Inv, Others
  <2>2. CASE TitleCalls(t)
    BY <2>2, TitleCallsKeep
  <2>3. CASE TitleSteps(t)
    BY <2>3, TitleStepsKeep
  <2>4. CASE Blocks(t) \/ \E u \in title.threads \ {t} : Yields(t, u)
    BY <2>1, <2>4, TurnsKeep
  <2> QED
    BY <1>1, <2>2, <2>3, <2>4
<1>2. CASE ServiceWakes
  BY <1>2, ServiceWakesKeeps
<1>3. CASE CallSteps(Service)
  <2>1. Service \in Actors
    BY DEF Actors
  <2> QED
    BY <1>3, <2>1, CallStepsKeep
<1>4. CASE Tick
  BY <1>4, TickKeeps
<1>5. CASE DeviceOpens
  BY <1>5, DeviceOpensKeeps
<1>6. CASE \E v \in Voices : HostPlays(v)
  BY <1>6, HostPlaysKeeps
<1>7. CASE UNCHANGED vars
  <2>1. /\ UNCHANGED soundVars /\ recent' = recent /\ frames' = frames /\ lock' = lock
        /\ fate' = fate /\ UNCHANGED <<title, device, blocked, turn, creations>>
    BY <1>7 DEF vars
  <2>2. Good(Sound)' /\ stream' = stream
    BY <2>1, SoundKept DEF Inv
  <2>3. Calling' /\ \A b \in Actors, n \in Nat \ {0} :
          ListOf(frames'[b], n) = ListOf(frames[b], n)
    BY <2>1, CallingKept DEF Inv
  <2>4. Recents' /\ Others'
    BY <2>1, RecentsKept DEF Inv, Others
  <2> QED
    BY <2>1, <2>2, <2>3, <2>4, Quietly
<1> QED
  BY <1>1, <1>2, <1>3, <1>4, <1>5, <1>6, <1>7 DEF Next

LEMMA Always ==
  Spec => []Inv
<1> QED
  BY InitKeeps, NextKeeps, PTL DEF Spec

---------------------------------------------------------------------------
(* What the invariant says *)

\* The type of every reachable state; and a call of one actor at a time, with
\* g_lock held as long as it lasts.
THEOREM TypeCorrect ==
  Spec => []TypeOK
<1>1. Inv => TypeOK
  <2> SUFFICES ASSUME Inv  PROVE TypeOK
    OBVIOUS
  <2>1. /\ stream \in [Slots -> StreamType] /\ owner \in [Voices -> Slots \cup {0}]
        /\ host \in [Voices -> [queue : Seq(Nat), played : Nat]]
    BY DEF Inv, Good, SoundType, Sound, HostType
  <2>2. frames \in [Actors -> Seq(FrameType)]
    BY DEF Inv, Calling, GoodFrames
  <2> QED
    BY <2>1, <2>2 DEF Inv, TypeOK, Recents, Others, Calling
<1> QED
  BY <1>1, Always, PTL

\* g_voice_owner and the streams' own voices agree, through every steal,
\* release and slot used again; a voice that nobody has is silent.
THEOREM VoicesAreOwned ==
  Spec => []VoicesAgree
<1>1. Inv => VoicesAgree
  BY DEF Inv, Good, Consistent, Agree, VoicesAgree, Sound
<1> QED
  BY <1>1, Always, PTL

\* play_origin plus what the voice has played is the position it plays next,
\* whatever was flushed, paused, resumed or restarted in between.
THEOREM PositionIsVoice ==
  Spec => []PositionExact
<1>1. Inv => PositionExact
  <2> SUFFICES ASSUME Inv  PROVE PositionExact
    OBVIOUS
  <2>1. Exact(stream, host)
    BY DEF Inv, Good, Consistent, Sound
  <2> QED
    BY <2>1 DEF Exact, ExactAt, PositionExact
<1> QED
  BY <1>1, Always, PTL

\* A call that finds a voice sounding completes no packet beyond what it has
\* played, in a callback's calls as in any other.
THEOREM HeardBeforeDone ==
  Spec => []HeardFirst
<1>1. Inv => HeardFirst
  BY DEF Inv, Calling, GoodFrames, FrameOK, HeardFirst
<1> QED
  BY <1>1, Always, PTL

\* A pending packet is in one ring or one flush's list, once, and no other
\* packet is in any: it is completed once.
THEOREM PendingPacketsOnce ==
  Spec => []PendingOnce
<1>1. Inv => PendingOnce
  <2> SUFFICES ASSUME Inv  PROVE PendingOnce
    OBVIOUS
  <2> DEFINE Q == Queues(stream, frames)
             Ring(i) == stream[i].packets
             List(a, n) == frames[a][n].list
  <2>1. Once(Q, fate)
    BY DEF Inv, Waiting
  <2>2. \A i \in Slots : RingAt(i) \in Places /\ Q[RingAt(i)] = Ring(i)
    BY QueueAt, PlacesDiffer
  <2>3. ASSUME NEW a \in Actors, NEW n \in DOMAIN frames[a]
        PROVE  /\ n \in Nat \ {0} /\ ListAt(a, n) \in Places
               /\ Q[ListAt(a, n)] = List(a, n)
    <3>1. n \in Nat \ {0}
      BY DEF Inv, Calling, GoodFrames
    <3> QED
      BY <3>1, QueueAt, PlacesDiffer DEF ListOf
  <2>4. ASSUME NEW a \in Actors, NEW n \in Nat \ {0}, NEW k \in DOMAIN Q[ListAt(a, n)]
        PROVE  n \in DOMAIN frames[a]
    <3>1. Q[ListAt(a, n)] = ListOf(frames[a], n)
      BY QueueAt
    <3> HIDE DEF Q
    <3> QED
      BY <3>1 DEF ListOf
  <2> HIDE DEF Q, Ring, List
  <2>5. ASSUME NEW p \in Packets
        PROVE  fate[p] = "pending" <=>
                 \/ \E i \in Slots : \E k \in DOMAIN Ring(i) : Ring(i)[k].id = p
                 \/ \E a \in Actors : \E n \in DOMAIN frames[a] :
                      \E k \in DOMAIN List(a, n) : List(a, n)[k].id = p
    <3>1. fate[p] = "pending" <=> \E x \in Places : \E k \in DOMAIN Q[x] : Q[x][k].id = p
      BY <2>1 DEF Once
    <3>2. ASSUME NEW x \in Places, NEW k \in DOMAIN Q[x], Q[x][k].id = p
          PROVE  \/ \E i \in Slots : \E l \in DOMAIN Ring(i) : Ring(i)[l].id = p
                 \/ \E a \in Actors : \E n \in DOMAIN frames[a] :
                      \E l \in DOMAIN List(a, n) : List(a, n)[l].id = p
      <4>1. CASE \E i \in Slots : x = RingAt(i)
        BY <2>2, <3>2, <4>1
      <4>2. CASE \E a \in Actors, n \in Nat \ {0} : x = ListAt(a, n)
        <5>1. PICK a \in Actors, n \in Nat \ {0} : x = ListAt(a, n)
          BY <4>2
        <5>2. n \in DOMAIN frames[a] /\ Q[x] = List(a, n)
          BY <2>3, <2>4, <5>1
        <5> QED
          BY <3>2, <5>2
      <4> QED
        BY <4>1, <4>2, PlacesDiffer
    <3> QED
      BY <2>2, <2>3, <3>1, <3>2
  <2>6. \A x, y \in Places : \A k \in DOMAIN Q[x], l \in DOMAIN Q[y] :
          Q[x][k].id = Q[y][l].id => x = y /\ k = l
    BY <2>1 DEF Once
  <2>7. \A i, j \in Slots : \A k \in DOMAIN Ring(i), l \in DOMAIN Ring(j) :
          Ring(i)[k].id = Ring(j)[l].id => i = j /\ k = l
    BY <2>2, <2>6, PlacesDiffer
  <2>8. ASSUME NEW a \in Actors, NEW b \in Actors,
               NEW n \in DOMAIN frames[a], NEW m \in DOMAIN frames[b],
               NEW k \in DOMAIN List(a, n), NEW l \in DOMAIN List(b, m),
               List(a, n)[k].id = List(b, m)[l].id
        PROVE  a = b /\ n = m /\ k = l
    <3>1. ListAt(a, n) = ListAt(b, m) /\ k = l
      BY <2>3, <2>6, <2>8
    <3> QED
      BY <2>3, <3>1, PlacesDiffer
  <2>9. \A i \in Slots, a \in Actors : \A n \in DOMAIN frames[a] :
          \A k \in DOMAIN Ring(i), l \in DOMAIN List(a, n) :
            Ring(i)[k].id # List(a, n)[l].id
    BY <2>2, <2>3, <2>6, PlacesDiffer
  <2> QED
    BY <2>5, <2>7, <2>8, <2>9 DEF PendingOnce, Ring, List
<1> QED
  BY <1>1, Always, PTL

=============================================================================
