---------------------------- MODULE HandlesProofs ----------------------------
(***************************************************************************)
(* What holds of a title's handles and of the objects behind them for      *)
(* every number of threads, tokens, addresses and timers, and whatever the *)
(* title calls.                                                            *)
(***************************************************************************)
EXTENDS Handles, FiniteSetTheorems, WellFoundedInduction, TLAPS

---------------------------------------------------------------------------
(* What counts on an object *)

\* The calls that have yet to release theirs, and what counts on the object at
\* o: of the handles m, the timers tm and the calls c.
Letting == {"closing", "releasing", "cancelled"}

Naming(m, o) == {h \in m : h.object = o}
Arming(tm, o) == {i \in DOMAIN tm : tm[i].object = o}
LettingGo(c, o) == {t \in Threads : c[t].op \in Letting /\ c[t].hs[1].object = o}

LEMMA CountedIs ==
  ASSUME NEW o
  PROVE  Counted(o) = Cardinality(Naming(mine, o)) + Cardinality(Arming(timers, o))
                      + Cardinality(LettingGo(call, o))
  BY DEF Counted, Naming, Arming, LettingGo, Armed, Letting

\* One handle more, one handle less.
LEMMA NamingGains ==
  ASSUME NEW m, IsFiniteSet(m), NEW h, h \notin m, NEW o
  PROVE  /\ IsFiniteSet(m \cup {h})
         /\ Cardinality(Naming(m \cup {h}, o)) =
              Cardinality(Naming(m, o)) + IF h.object = o THEN 1 ELSE 0
<1>1. IsFiniteSet(Naming(m, o)) /\ h \notin Naming(m, o)
  BY FS_Subset DEF Naming
<1>2. Naming(m \cup {h}, o) = IF h.object = o THEN Naming(m, o) \cup {h} ELSE Naming(m, o)
  BY DEF Naming
<1>3. Cardinality(Naming(m, o)) \in Nat
  BY <1>1, FS_CardinalityType
<1>4. IsFiniteSet(m \cup {h})
  BY FS_AddElement
<1>5. Cardinality(Naming(m, o) \cup {h}) = Cardinality(Naming(m, o)) + 1
  BY <1>1, FS_AddElement
<1> QED
  BY <1>2, <1>3, <1>4, <1>5

LEMMA NamingLoses ==
  ASSUME NEW m, IsFiniteSet(m), NEW h \in m, NEW o
  PROVE  /\ IsFiniteSet(m \ {h})
         /\ Cardinality(Naming(m, o)) =
              Cardinality(Naming(m \ {h}, o)) + IF h.object = o THEN 1 ELSE 0
<1>1. (m \ {h}) \cup {h} = m /\ h \notin m \ {h} /\ IsFiniteSet(m \ {h})
  BY FS_RemoveElement
<1> QED
  BY <1>1, NamingGains

\* A call begins to let go of its object, or has.
LEMMA LettingGains ==
  ASSUME NEW c, NEW d, NEW t \in Threads, \A u \in Threads \ {t} : d[u] = c[u],
         c[t].op \notin Letting, d[t].op \in Letting, NEW o
  PROVE  /\ d[t].hs[1].object = o =>
              Cardinality(LettingGo(d, o)) = Cardinality(LettingGo(c, o)) + 1
         /\ d[t].hs[1].object # o => LettingGo(d, o) = LettingGo(c, o)
<1>1. /\ IsFiniteSet(LettingGo(c, o)) /\ t \notin LettingGo(c, o)
      /\ LettingGo(d, o) = IF d[t].hs[1].object = o THEN LettingGo(c, o) \cup {t}
                                                   ELSE LettingGo(c, o)
  BY FS_Subset, HostObjectsAssumption DEF LettingGo
<1>2. Cardinality(LettingGo(c, o)) \in Nat
  BY <1>1, FS_CardinalityType
<1>3. Cardinality(LettingGo(c, o) \cup {t}) = Cardinality(LettingGo(c, o)) + 1
  BY <1>1, FS_AddElement
<1> QED
  BY <1>1, <1>2, <1>3

LEMMA LettingKept ==
  ASSUME NEW c, NEW d, NEW t \in Threads, \A u \in Threads \ {t} : d[u] = c[u],
         \/ c[t].op \notin Letting /\ d[t].op \notin Letting
         \/ c[t].op \in Letting /\ d[t].op \in Letting /\ d[t].hs[1].object = c[t].hs[1].object,
         NEW o
  PROVE  LettingGo(d, o) = LettingGo(c, o)
<1>1. \A u \in Threads : c[u].op \in Letting /\ c[u].hs[1].object = o
                           <=> d[u].op \in Letting /\ d[u].hs[1].object = o
  <2>1. ASSUME NEW u \in Threads, u # t
        PROVE  c[u].op \in Letting /\ c[u].hs[1].object = o
                 <=> d[u].op \in Letting /\ d[u].hs[1].object = o
    BY <2>1
  <2> QED
    BY <2>1
<1> QED
  BY <1>1 DEF LettingGo

---------------------------------------------------------------------------
(* The timers *)

TimerType == [object : Addresses, due : BOOLEAN, period : BOOLEAN]

\* One timer more.
LEMMA TimerAdded ==
  ASSUME NEW tm \in Seq(TimerType), NEW e \in TimerType, NEW o
  PROVE  /\ Append(tm, e) \in Seq(TimerType) /\ Len(Append(tm, e)) = Len(tm) + 1
         /\ Cardinality(Arming(Append(tm, e), o)) =
              Cardinality(Arming(tm, o)) + IF e.object = o THEN 1 ELSE 0
<1> DEFINE n == Len(tm) + 1
           s == Append(tm, e)
<1>1. /\ s \in Seq(TimerType) /\ Len(s) = n /\ DOMAIN s = 1..n /\ DOMAIN tm = 1..Len(tm)
      /\ \A k \in 1..Len(tm) : s[k] = tm[k] /\ s[n] = e /\ Len(tm) \in Nat
  OBVIOUS
<1>2. s[n] = e /\ Len(tm) \in Nat
  OBVIOUS
<1> HIDE DEF s
<1>3. /\ Arming(s, o) = IF e.object = o THEN Arming(tm, o) \cup {n} ELSE Arming(tm, o)
      /\ n \notin Arming(tm, o)
  BY <1>1, <1>2 DEF Arming
<1>4. IsFiniteSet(Arming(tm, o))
  <2>1. IsFiniteSet(1..Len(tm)) /\ Arming(tm, o) \subseteq 1..Len(tm)
    BY <1>1, <1>2, FS_Interval DEF Arming
  <2> QED
    BY <2>1, FS_Subset
<1>5. Cardinality(Arming(tm, o)) \in Nat
  BY <1>4, FS_CardinalityType
<1>6. Cardinality(Arming(tm, o) \cup {n}) = Cardinality(Arming(tm, o)) + 1
  BY <1>3, <1>4, FS_AddElement
<1> QED
  BY <1>1, <1>3, <1>5, <1>6 DEF s

\* Timers that change, each on the same object.
LEMMA TimersSame ==
  ASSUME NEW tm \in Seq(TimerType), NEW i \in DOMAIN tm, NEW e \in TimerType,
         e.object = tm[i].object
  PROVE  /\ [tm EXCEPT ![i] = e] \in Seq(TimerType)
         /\ Len([tm EXCEPT ![i] = e]) = Len(tm)
         /\ \A o : Arming([tm EXCEPT ![i] = e], o) = Arming(tm, o)
<1> DEFINE s == [tm EXCEPT ![i] = e]
<1>1. s \in Seq(TimerType) /\ Len(s) = Len(tm) /\ DOMAIN s = DOMAIN tm
  OBVIOUS
<1>2. \A k \in DOMAIN tm : s[k].object = tm[k].object
  OBVIOUS
<1> HIDE DEF s
<1>3. \A o : Arming(s, o) = Arming(tm, o)
  BY <1>1, <1>2 DEF Arming
<1> QED
  BY <1>1, <1>3 DEF s

\* One timer less: the last takes its place.
Lacking(tm, i) == Front([tm EXCEPT ![i] = Last(tm)])

LEMMA LackingIs ==
  ASSUME NEW tm \in Seq(TimerType), NEW i \in DOMAIN tm
  PROVE  /\ Lacking(tm, i) \in Seq(TimerType) /\ Len(tm) \in Nat \ {0}
         /\ Len(Lacking(tm, i)) = Len(tm) - 1
         /\ \A k \in 1..(Len(tm) - 1) :
              Lacking(tm, i)[k] = IF k = i THEN tm[Len(tm)] ELSE tm[k]
<1> DEFINE n == Len(tm)
           s == [tm EXCEPT ![i] = tm[n]]
<1>1. n \in Nat \ {0} /\ DOMAIN tm = 1..n /\ i \in 1..n
  OBVIOUS
<1>2. tm[n] \in TimerType
  BY <1>1
<1>3. s \in Seq(TimerType) /\ Len(s) = n /\ \A k \in 1..n : s[k] = IF k = i THEN tm[n] ELSE tm[k]
  BY <1>1, <1>2
<1>4. Lacking(tm, i) = SubSeq(s, 1, n - 1)
  BY <1>3 DEF Lacking, Front, Last
<1> HIDE DEF s, n
<1>5. /\ SubSeq(s, 1, n - 1) \in Seq(TimerType) /\ Len(SubSeq(s, 1, n - 1)) = n - 1
      /\ \A k \in 1..(n - 1) : SubSeq(s, 1, n - 1)[k] = s[k]
  BY <1>1, <1>3
<1>6. \A k \in 1..(n - 1) : k \in 1..n
  BY <1>1
<1> QED
  BY <1>1, <1>3, <1>4, <1>5, <1>6 DEF n

LEMMA TimerDropped ==
  ASSUME NEW tm \in Seq(TimerType), NEW i \in DOMAIN tm, NEW o
  PROVE  Cardinality(Arming(tm, o)) =
           Cardinality(Arming(Lacking(tm, i), o)) + IF tm[i].object = o THEN 1 ELSE 0
<1> DEFINE n == Len(tm)
           s == Lacking(tm, i)
           A == Arming(tm, o)
           B == Arming(s, o)
           C == (A \ {i}) \ {n}
<1>1. /\ s \in Seq(TimerType) /\ n \in Nat \ {0} /\ DOMAIN s = 1..(n - 1) /\ DOMAIN tm = 1..n
      /\ i \in 1..n
      /\ \A k \in 1..(n - 1) : s[k] = IF k = i THEN tm[n] ELSE tm[k]
  BY LackingIs
<1> HIDE DEF n, s
<1>2. /\ \A k \in 1..(n - 1) : k \in 1..n /\ k # n
      /\ \A k \in 1..n : k # n => k \in 1..(n - 1)
      /\ n \in 1..n
  BY <1>1
<1>3. IsFiniteSet(A)
  <2>1. IsFiniteSet(1..n)
    BY <1>1, FS_Interval
  <2> QED
    BY <1>1, <2>1, FS_Subset DEF Arming
<1>4. \A k : /\ k \in A <=> k \in 1..n /\ tm[k].object = o
             /\ k \in B <=> k \in 1..(n - 1) /\ s[k].object = o
  BY <1>1 DEF Arming
<1>5. i \in A <=> tm[i].object = o
  BY <1>1, <1>4
<1> HIDE DEF A, B
<1>6. CASE i = n
  <2>1. \A k : k \in B <=> k \in A \ {i}
    BY <1>1, <1>2, <1>4, <1>6
  <2>2. B = A \ {i}
    BY <2>1
  <2>3. Cardinality(B) = (IF i \in A THEN Cardinality(A) - 1 ELSE Cardinality(A))
        /\ Cardinality(A) \in Nat
    BY <1>3, <2>2, FS_RemoveElement, FS_CardinalityType
  <2>4. Cardinality(A) = Cardinality(B) + IF i \in A THEN 1 ELSE 0
    BY <2>3
  <2> QED
    BY <1>5, <2>4 DEF A, B, s
<1>7. CASE i # n
  <2>1. \A k : k \in B <=> k \in C \/ (k = i /\ n \in A)
    BY <1>1, <1>2, <1>4, <1>7
  <2>2. i \notin C /\ n \notin C
    OBVIOUS
  <2>3. B = IF n \in A THEN C \cup {i} ELSE C
    BY <2>1
  <2>4. /\ IsFiniteSet(A \ {i}) /\ Cardinality(A) \in Nat
        /\ Cardinality(A \ {i}) = IF i \in A THEN Cardinality(A) - 1 ELSE Cardinality(A)
    BY <1>3, FS_RemoveElement, FS_CardinalityType
  <2>5. /\ IsFiniteSet(C)
        /\ Cardinality(C) = IF n \in A THEN Cardinality(A \ {i}) - 1 ELSE Cardinality(A \ {i})
    BY <1>7, <2>4, FS_RemoveElement
  <2>6. Cardinality(C \cup {i}) = Cardinality(C) + 1 /\ Cardinality(C) \in Nat
    BY <2>2, <2>5, FS_AddElement, FS_CardinalityType
  <2> HIDE DEF C
  <2>7. Cardinality(A \ {i}) \in Nat
    BY <2>4, FS_CardinalityType
  <2>8. Cardinality(B) = Cardinality(A \ {i})
    <3>1. CASE n \in A
      <4>1. Cardinality(B) = Cardinality(C) + 1 /\ Cardinality(C) = Cardinality(A \ {i}) - 1
        BY <2>3, <2>5, <2>6, <3>1
      <4> QED
        BY <2>7, <4>1
    <3>2. CASE n \notin A
      BY <2>3, <2>5, <3>2
    <3> QED
      BY <3>1, <3>2
  <2>9. Cardinality(A) = Cardinality(B) + IF i \in A THEN 1 ELSE 0
    BY <2>4, <2>8
  <2> QED
    BY <1>5, <2>9 DEF A, B, s
<1> QED
  BY <1>6, <1>7

---------------------------------------------------------------------------
(* The inductive invariant *)

\* An object: a mutex that has an owner has been acquired, and what nothing
\* counts on is free.
Shape(x) ==
  /\ x \in ObjectType
  /\ x.owner # NoThread => x.depth > 0
  /\ x.kind = "free" <=> x.refs = 0

\* A call: handles it has use of are the title's as long as it goes on.
CallOK(c, m) ==
  /\ c \in CallType
  /\ c.at > 0
  /\ c.op # "title" => c.hs # << >>
  /\ c.op = "sample" => Len(c.gens) < Len(c.hs)
  /\ c.op \notin {"title", "closing", "releasing"} => \A k \in DOMAIN c.hs : c.hs[k] \in m

Objs == object \in [Addresses -> ObjectType] /\ \A o \in Addresses : Shape(object[o])

InCalls == call \in [Threads -> CallType] /\ \A t \in Threads : CallOK(call[t], mine)

Typed ==
  /\ title \in Titles
  /\ timers \in Seq(TimerType) /\ Len(timers) <= TimersMax
  /\ scan \in 0..TimersMax + 1
  /\ pulsed \subseteq Threads \X Addresses
  /\ table \in [Tokens -> [object : Addresses \cup {0}, async : BOOLEAN,
                           kind : EventKinds \cup {"unknown"}]]
  /\ search \in [Addresses -> Nat]
  /\ mine \subseteq HandleType /\ IsFiniteSet(mine)
  /\ made \in Nat /\ begun \subseteq 1..made

Counts == \A o \in Addresses : object[o].refs = Counted(o)

\* Two objects are never the same how-manieth, and a title's handle is of the
\* object that is at its address now.
Serials ==
  \A o \in Addresses : object[o].kind # "free" =>
    /\ object[o].serial \in 1..made
    /\ \A p \in Addresses :
         object[p].kind # "free" /\ object[p].serial = object[o].serial => p = o

Current == \A h \in mine : object[h.object].serial = h.serial

\* Its slot is its own.
Slotted ==
  /\ \A h \in mine :
       /\ table[h.token].object = h.object
       /\ h.make = "file" => table[h.token].async = h.async
       /\ h.make \in EventKinds => table[h.token].kind = h.make
  /\ \A h, g \in mine : h.token = g.token => h = g

Inv == Typed /\ Objs /\ InCalls /\ Counts /\ Serials /\ Current /\ Slotted

LEMMA Sizes ==
  /\ Tokens \subseteq Nat \ {0} /\ Addresses \subseteq Nat \ {0}
  /\ SemaphoreMax \in Nat \ {0} /\ TimersMax \in Nat \ {0} /\ PulsesMax \in Nat \ {0}
  BY FS_CardinalityType, HandlesAssumption, HostObjectsAssumption

\* A set of numbers that is not empty has a least one.
LEMMA LeastOf ==
  ASSUME NEW S, S \subseteq Nat, S # {}
  PROVE  Min(S) \in S
<1> DEFINE Less == {ss \in Nat \X Nat : ss[1] < ss[2]}
<1>1. IsWellFoundedOn(Less, Nat)
  BY NatLessThanWellFounded DEF OpToRel
<1> HIDE DEF Less
<1>2. PICK i \in S : \A j \in S : ~ (<<j, i>> \in Less)
  BY <1>1, WFMin
<1>3. ASSUME NEW j \in S  PROVE i <= j
  <2> DEFINE p == <<j, i>>
  <2>1. p \in Nat \X Nat /\ p[1] = j /\ p[2] = i
    OBVIOUS
  <2>2. p \notin Less
    BY <1>2
  <2> HIDE DEF p
  <2>3. ~ (j < i)
    BY <2>1, <2>2 DEF Less
  <2> QED
    BY <2>3
<1> QED
  BY <1>3 DEF Min

\* What counts on an object is counted in numbers, none if there is nothing.
LEMMA Numbered ==
  ASSUME IsFiniteSet(mine), timers \in Seq(TimerType), NEW o
  PROVE  /\ Cardinality(Naming(mine, o)) \in Nat /\ Cardinality(Arming(timers, o)) \in Nat
         /\ Cardinality(LettingGo(call, o)) \in Nat /\ Counted(o) \in Nat
         /\ Naming(mine, o) # {} => Cardinality(Naming(mine, o)) > 0
         /\ Arming(timers, o) # {} => Cardinality(Arming(timers, o)) > 0
         /\ LettingGo(call, o) # {} => Cardinality(LettingGo(call, o)) > 0
<1>1. IsFiniteSet(Naming(mine, o)) /\ IsFiniteSet(LettingGo(call, o))
  BY FS_Subset, HostObjectsAssumption DEF Naming, LettingGo
<1>2. IsFiniteSet(Arming(timers, o))
  <2>1. Len(timers) \in Nat /\ DOMAIN timers = 1..Len(timers)
    OBVIOUS
  <2>2. IsFiniteSet(DOMAIN timers)
    BY <2>1, FS_Interval
  <2> QED
    BY <2>2, FS_Subset DEF Arming
<1>3. ASSUME NEW S, IsFiniteSet(S)
      PROVE  Cardinality(S) \in Nat /\ (S # {} => Cardinality(S) > 0)
  BY <1>3, FS_CardinalityType, FS_EmptySet
<1>4. /\ Cardinality(Naming(mine, o)) \in Nat /\ Cardinality(Arming(timers, o)) \in Nat
      /\ Cardinality(LettingGo(call, o)) \in Nat
  BY <1>1, <1>2, <1>3
<1>5. Counted(o) \in Nat
  BY <1>4, CountedIs
<1> QED
  BY <1>1, <1>2, <1>3, <1>5

\* So an object with a handle, an armed timer or a call that has yet to
\* release it is not free.
Needed(o) ==
  \/ \E h \in mine : h.object = o
  \/ \E i \in DOMAIN timers : timers[i].object = o
  \/ \E t \in Threads : call[t].op \in Letting /\ call[t].hs[1].object = o

AllLive ==
  \A o \in Addresses : Needed(o) =>
    object[o].kind # "free" /\ object[o].refs \in Nat /\ object[o].refs > 0

LEMMA Live ==
  Typed /\ Objs /\ Counts => AllLive
<1> SUFFICES ASSUME Typed, Objs, Counts, NEW o \in Addresses, Needed(o)
             PROVE  object[o].kind # "free" /\ object[o].refs \in Nat /\ object[o].refs > 0
  BY DEF AllLive
<1>1. Naming(mine, o) # {} \/ Arming(timers, o) # {} \/ LettingGo(call, o) # {}
  BY DEF Naming, Arming, LettingGo, Needed
<1>2. /\ Cardinality(Naming(mine, o)) \in Nat /\ Cardinality(Arming(timers, o)) \in Nat
      /\ Cardinality(LettingGo(call, o)) \in Nat
      /\ Naming(mine, o) # {} => Cardinality(Naming(mine, o)) > 0
      /\ Arming(timers, o) # {} => Cardinality(Arming(timers, o)) > 0
      /\ LettingGo(call, o) # {} => Cardinality(LettingGo(call, o)) > 0
  BY Numbered DEF Typed
<1>3. Counted(o) \in Nat /\ Counted(o) > 0
  BY <1>1, <1>2, CountedIs
<1> QED
  BY <1>3 DEF Counts, Objs, Shape

\* No object comes to be: what is left of the invariant follows.
Lasts(x, y) == y.kind = "free" \/ (y.kind = x.kind /\ y.serial = x.serial)

LEMMA Settles ==
  ASSUME Inv, Typed', Objs', InCalls', Counts', Slotted', made' = made,
         \A o \in Addresses : Lasts(object[o], object'[o]),
         \A h \in mine' : \E g \in mine : g.object = h.object /\ g.serial = h.serial
  PROVE  Inv'
<1>1. Serials'
  BY DEF Inv, Serials, Lasts
<1>2. ASSUME NEW h \in mine'  PROVE object'[h.object].serial = h.serial
  <2>1. h.object \in Addresses
    BY DEF Typed, HandleType
  <2>2. (object[h.object].kind # "free")'
    <3>1. AllLive'
      BY Live, PTL
    <3> QED
      BY <2>1, <3>1 DEF AllLive, Needed
  <2> QED
    BY <2>1, <2>2 DEF Inv, Current, Lasts
<1>3. Current'
  BY <1>2 DEF Current
<1> QED
  BY <1>1, <1>3 DEF Inv

---------------------------------------------------------------------------
(* What a step does to the parts of the invariant *)

LEMMA CountedNext ==
  ASSUME NEW o
  PROVE  Counted(o)' = Cardinality(Naming(mine', o)) + Cardinality(Arming(timers', o))
                       + Cardinality(LettingGo(call', o))
  BY DEF Counted, Naming, Arming, LettingGo, Armed, Letting

LEMMA CountsKept ==
  ASSUME Counts, mine' = mine,
         \A o \in Addresses : /\ Arming(timers', o) = Arming(timers, o)
                              /\ LettingGo(call', o) = LettingGo(call, o)
                              /\ object'[o].refs = object[o].refs
  PROVE  Counts'
<1>1. ASSUME NEW o \in Addresses  PROVE object'[o].refs = Counted(o)'
  <2>1. Counted(o)' = Counted(o)
    BY CountedIs, CountedNext
  <2> QED
    BY <2>1 DEF Counts
<1> QED
  BY <1>1 DEF Counts

\* What a call on an object may do to it.
Changes(x, y) == Shape(y) /\ y.kind = x.kind /\ y.refs = x.refs /\ y.serial = x.serial

\* The call of t becomes c.
LEMMA CallBecomes ==
  ASSUME InCalls, mine' = mine, NEW t \in Threads, NEW c, CallOK(c, mine),
         call' = [call EXCEPT ![t] = c]
  PROVE  InCalls' /\ call'[t] = c /\ \A u \in Threads \ {t} : call'[u] = call[u]
  BY DEF InCalls, CallOK

\* A step of t that changes no handle, and no count.
LEMMA Plainly ==
  ASSUME Inv, UNCHANGED <<title, timers, scan, table, mine, made>>,
         search' \in [Addresses -> Nat], begun' \subseteq 1..made,
         pulsed' \subseteq Threads \X Addresses,
         object' \in [Addresses -> ObjectType],
         \A o \in Addresses : Changes(object[o], object'[o]),
         NEW t \in Threads, NEW c, CallOK(c, mine), call' = [call EXCEPT ![t] = c],
         call[t].op \notin Letting, c.op \notin Letting
  PROVE  Inv'
<1>1. Typed' /\ Slotted'
  BY DEF Inv, Typed, Slotted
<1>2. Objs'
  BY DEF Objs, Changes
<1>3. InCalls' /\ call'[t] = c /\ \A u \in Threads \ {t} : call'[u] = call[u]
  BY CallBecomes DEF Inv
<1>4. Counts'
  <2>1. ASSUME NEW o  PROVE LettingGo(call', o) = LettingGo(call, o)
    <3>1. call[t].op \notin Letting /\ call'[t].op \notin Letting
      BY <1>3
    <3> QED
      BY <1>3, <3>1, LettingKept
  <2> QED
    BY <2>1, CountsKept DEF Inv, Changes
<1>5. \A o \in Addresses : Lasts(object[o], object'[o])
  BY DEF Changes, Lasts
<1> QED
  BY <1>1, <1>2, <1>3, <1>4, <1>5, Settles DEF Inv

LEMMA NoChange ==
  ASSUME Objs, NEW o \in Addresses
  PROVE  Changes(object[o], object[o])
  BY DEF Objs, Changes

\* One object changes, and that as a call may change it.
LEMMA OneChanges ==
  ASSUME Objs, NEW o \in Addresses, NEW y, Changes(object[o], y),
         object' = [object EXCEPT ![o] = y]
  PROVE  /\ object' \in [Addresses -> ObjectType]
         /\ \A p \in Addresses : Changes(object[p], object'[p])
<1>1. y \in ObjectType
  BY DEF Changes, Shape
<1>2. object' \in [Addresses -> ObjectType] /\ object'[o] = y
      /\ \A p \in Addresses \ {o} : object'[p] = object[p]
  BY <1>1 DEF Objs
<1> QED
  BY <1>2, NoChange

\* Calls as they begin.
LEMMA Calling ==
  ASSUME NEW op \in {"title", "took", "sleep", "sample", "poll", "closing", "releasing",
                     "cancelled", "arming"},
         NEW hs \in Seq(HandleType)
  PROVE  /\ Call(op, hs) \in CallType /\ Call(op, hs).op = op /\ Call(op, hs).hs = hs
         /\ Call(op, hs).at = 1 /\ Call(op, hs).gens = << >>
<1>1. << >> \in Seq(0..PulsesMax)
  OBVIOUS
<1> QED
  BY <1>1 DEF Call, CallType

LEMMA CallOf ==
  ASSUME Typed, NEW h \in mine, NEW op \in {"took", "closing", "cancelled", "arming"}
  PROVE  CallOK(Call(op, <<h>>), mine) /\ Call(op, <<h>>).op = op
         /\ Call(op, <<h>>).hs[1] = h
<1>1. <<h>> \in Seq(HandleType) /\ <<h>> # << >> /\ <<h>>[1] = h /\ DOMAIN <<h>> = {1}
  BY DEF Typed
<1>2. /\ Call(op, <<h>>) \in CallType /\ Call(op, <<h>>).op = op
      /\ Call(op, <<h>>).hs = <<h>> /\ Call(op, <<h>>).at = 1
  <2>1. op \in {"title", "took", "sleep", "sample", "poll", "closing", "releasing",
                "cancelled", "arming"}
    OBVIOUS
  <2> DEFINE hs == <<h>>
  <2>2. hs \in Seq(HandleType)
    BY <1>1
  <2> HIDE DEF hs
  <2>3. /\ Call(op, hs) \in CallType /\ Call(op, hs).op = op
        /\ Call(op, hs).hs = hs /\ Call(op, hs).at = 1
    BY <2>1, <2>2, Calling
  <2> QED
    BY <2>3 DEF hs
<1> DEFINE c == Call(op, <<h>>)
<1>3. op # "title" /\ op # "sample"
  OBVIOUS
<1>4. c \in CallType /\ c.op = op /\ c.hs = <<h>> /\ c.at = 1
  BY <1>2
<1> HIDE DEF c
<1>5. c.at > 0
  BY <1>4
<1>6. \A k \in DOMAIN c.hs : c.hs[k] \in mine
  BY <1>1, <1>4
<1> QED
  BY <1>1, <1>3, <1>4, <1>5, <1>6 DEF CallOK, c

LEMMA BackInTitle ==
  CallOK(InTitle, mine) /\ InTitle.op = "title"
<1>1. << >> \in Seq(HandleType)
  OBVIOUS
<1>2. /\ Call("title", << >>) \in CallType /\ Call("title", << >>).op = "title"
      /\ Call("title", << >>).at = 1
  <2> DEFINE hs == << >>
  <2>1. hs \in Seq(HandleType)
    BY <1>1
  <2> HIDE DEF hs
  <2>2. Call("title", hs) \in CallType /\ Call("title", hs).op = "title" /\ Call("title", hs).at = 1
    BY <2>1, Calling
  <2> QED
    BY <2>2 DEF hs
<1>3. InTitle \in CallType /\ InTitle.op = "title" /\ InTitle.at = 1
  BY <1>2 DEF InTitle
<1> QED
  BY <1>3 DEF CallOK

\* What t has taken is the object's as a call may change it.
LEMMA TakenChanges ==
  ASSUME NEW x, Shape(x), NEW t \in Threads, NEW gen, Ready(x, t, gen)
  PROVE  Changes(x, Taken(x, t))
<1>0. t # NoThread /\ SemaphoreMax \in Nat /\ x \in ObjectType
  BY HostObjectsAssumption, Sizes DEF Shape
<1> DEFINE y == Taken(x, t)
<1>1. CASE x.kind \in EventKinds /\ x.signaled
  <2>1. y = [x EXCEPT !.signaled = x.kind = "manual"]
    BY <1>1 DEF Taken, EventKinds
  <2> HIDE DEF y
  <2>2. (x.kind = "manual") \in BOOLEAN
    OBVIOUS
  <2> QED
    BY <2>1, <2>2 DEF Shape, ObjectType, Changes, y
<1>2. CASE x.kind \in EventKinds /\ ~x.signaled
  <2>1. y = [x EXCEPT !.pulse = x.kind = "manual"]
    BY <1>2 DEF Taken, EventKinds
  <2> HIDE DEF y
  <2>2. (x.kind = "manual") \in BOOLEAN
    OBVIOUS
  <2> QED
    BY <2>1, <2>2 DEF Shape, ObjectType, Changes, y
<1>3. CASE x.kind = "semaphore"
  <2>1. y = [x EXCEPT !.count = x.count - 1] /\ x.count > 0
    BY <1>3 DEF Taken, Ready, EventKinds
  <2>2. x.count \in 0..SemaphoreMax
    BY <1>0 DEF ObjectType
  <2>3. x.count - 1 \in 0..SemaphoreMax
    BY <1>0, <2>1, <2>2
  <2> HIDE DEF y
  <2> QED
    BY <2>1, <2>3 DEF Shape, ObjectType, Changes, y
<1>4. CASE x.kind = "mutex"
  <2>1. y = [x EXCEPT !.owner = t, !.depth = x.depth + 1]
    BY <1>4 DEF Taken, EventKinds
  <2>2. x.depth \in Nat
    BY <1>0 DEF ObjectType
  <2>3. x.depth + 1 \in Nat /\ x.depth + 1 > 0
    BY <2>2
  <2> HIDE DEF y
  <2> QED
    BY <2>1, <2>3 DEF Shape, ObjectType, Changes, y
<1>5. CASE x.kind \notin EventKinds \cup {"semaphore", "mutex"}
  <2>1. y = x
    BY <1>5 DEF Taken, EventKinds
  <2> QED
    BY <2>1 DEF Changes
<1> QED
  BY <1>0, <1>1, <1>2, <1>3, <1>4, <1>5 DEF ObjectType

---------------------------------------------------------------------------
(* Calls that signal, and calls that look *)

LEMMA TitleIs ==
  ASSUME Typed
  PROVE  /\ title.timed \subseteq BOOLEAN /\ title.all \subseteq BOOLEAN
         /\ title.periods \subseteq BOOLEAN /\ title.makes \subseteq Makes
         /\ title.creations \in Nat
  BY HandlesAssumption DEF Typed, TitleOK

LEMMA OfMine ==
  ASSUME Typed, Objs, NEW h \in mine
  PROVE  /\ h \in HandleType /\ h.object \in Addresses /\ h.token \in Tokens
         /\ h.make \in Makes /\ h.serial \in Nat /\ h.async \in BOOLEAN
         /\ object[h.object] \in ObjectType /\ Shape(object[h.object])
<1>1. h \in HandleType
  BY DEF Typed
<1> QED
  BY <1>1 DEF HandleType, Objs

\* A call that returns at once.
LEMMA AtOnce ==
  ASSUME Inv, UNCHANGED <<title, timers, scan, table, mine, made, search, begun, call>>,
         pulsed' \subseteq Threads \X Addresses,
         NEW t \in Threads, NEW c, MayCall(t, c),
         NEW o \in Addresses, NEW y, Changes(object[o], y), object' = [object EXCEPT ![o] = y]
  PROVE  Inv'
<1>1. call[t].op = "title" /\ CallOK(call[t], mine) /\ call' = [call EXCEPT ![t] = call[t]]
  BY DEF MayCall, Inv, InCalls
<1>2. call[t].op \notin Letting
  BY <1>1 DEF Letting
<1>3. search' \in [Addresses -> Nat] /\ begun' \subseteq 1..made
  BY DEF Inv, Typed
<1>4. /\ object' \in [Addresses -> ObjectType]
      /\ \A p \in Addresses : Changes(object[p], object'[p])
  BY OneChanges DEF Inv
<1> QED
  BY <1>1, <1>2, <1>3, <1>4, Plainly

LEMMA AskKeeps ==
  ASSUME Inv, NEW t \in Threads, NEW h \in mine, ObReferenceObjectByHandle(t, h)  PROVE Inv'
<1> DEFINE x == object[h.object]
           asks == table[h.token].kind = "manual" /\ Ready(x, t, x.gen)
           y == IF asks THEN Taken(x, t) ELSE x
<1>1. h.object \in Addresses /\ Shape(x) /\ Changes(x, x)
  BY OfMine, NoChange DEF Inv
<1>2. Changes(x, y)
  BY <1>1, TakenChanges
<1>3. object' = [object EXCEPT ![h.object] = y]
  BY <1>1 DEF ObReferenceObjectByHandle, Inv, Objs
<1>4. /\ MayCall(t, "ask") /\ pulsed' \subseteq Threads \X Addresses
      /\ UNCHANGED <<title, timers, scan, table, mine, made, search, begun, call>>
  BY DEF ObReferenceObjectByHandle, TableStays, Inv, Typed
<1> HIDE DEF x, y
<1> QED
  BY <1>1, <1>2, <1>3, <1>4, AtOnce DEF x

LEMMA SignalChanges ==
  ASSUME NEW x, Shape(x), NEW b \in BOOLEAN
  PROVE  /\ Changes(x, [x EXCEPT !.signaled = b])
         /\ x.gen < PulsesMax =>
              Changes(x, [x EXCEPT !.signaled = FALSE, !.gen = x.gen + 1, !.pulse = TRUE])
         /\ Changes(x, [x EXCEPT !.count = IF x.count < SemaphoreMax THEN x.count + 1 ELSE x.count])
<1>0. x \in ObjectType /\ x.count \in 0..SemaphoreMax /\ x.gen \in 0..PulsesMax
  BY DEF Shape, ObjectType
<1>1. Changes(x, [x EXCEPT !.signaled = b])
  <2> DEFINE y == [x EXCEPT !.signaled = b]
  <2>1. y = [x EXCEPT !.signaled = b]
    OBVIOUS
  <2> HIDE DEF y
  <2> QED
    BY <2>1 DEF Shape, ObjectType, Changes, y
<1>2. ASSUME x.gen < PulsesMax
      PROVE  Changes(x, [x EXCEPT !.signaled = FALSE, !.gen = x.gen + 1, !.pulse = TRUE])
  <2> DEFINE y == [x EXCEPT !.signaled = FALSE, !.gen = x.gen + 1, !.pulse = TRUE]
  <2>1. y = [x EXCEPT !.signaled = FALSE, !.gen = x.gen + 1, !.pulse = TRUE]
    OBVIOUS
  <2>2. x.gen + 1 \in 0..PulsesMax
    BY <1>0, <1>2, Sizes
  <2> HIDE DEF y
  <2> QED
    BY <2>1, <2>2 DEF Shape, ObjectType, Changes, y
<1>3. Changes(x, [x EXCEPT !.count = IF x.count < SemaphoreMax THEN x.count + 1 ELSE x.count])
  <2> DEFINE n == IF x.count < SemaphoreMax THEN x.count + 1 ELSE x.count
             y == [x EXCEPT !.count = n]
  <2>1. y = [x EXCEPT !.count = n]
    OBVIOUS
  <2>2. n \in 0..SemaphoreMax
    BY <1>0, Sizes
  <2> HIDE DEF y, n
  <2>3. Changes(x, y)
    BY <2>1, <2>2 DEF Shape, ObjectType, Changes
  <2> QED
    BY <2>3 DEF y, n
<1> QED
  BY <1>1, <1>2, <1>3

LEMMA SetKeeps ==
  ASSUME Inv, NEW t \in Threads, NEW h \in mine, NtSetEvent(t, h)  PROVE Inv'
<1> DEFINE x == object[h.object]
           y == [x EXCEPT !.signaled = TRUE]
<1>1. h.object \in Addresses /\ Changes(x, y)
  BY OfMine, SignalChanges DEF Inv
<1>2. object' = [object EXCEPT ![h.object] = y]
  BY <1>1 DEF NtSetEvent, SetEvent, Inv, Objs
<1>3. /\ MayCall(t, "set") /\ pulsed' \subseteq Threads \X Addresses
      /\ UNCHANGED <<title, timers, scan, table, mine, made, search, begun, call>>
  BY DEF NtSetEvent, SetEvent, OnObject, TableStays, Inv, Typed
<1> HIDE DEF y
<1> QED
  BY <1>1, <1>2, <1>3, AtOnce

LEMMA ClearKeeps ==
  ASSUME Inv, NEW t \in Threads, NEW h \in mine, NtClearEvent(t, h)  PROVE Inv'
<1> DEFINE x == object[h.object]
           y == [x EXCEPT !.signaled = FALSE]
<1>1. h.object \in Addresses /\ Changes(x, y)
  BY OfMine, SignalChanges DEF Inv
<1>2. object' = [object EXCEPT ![h.object] = y]
  BY <1>1 DEF NtClearEvent, ResetEvent, Inv, Objs
<1>3. /\ MayCall(t, "clear") /\ pulsed' \subseteq Threads \X Addresses
      /\ UNCHANGED <<title, timers, scan, table, mine, made, search, begun, call>>
  BY DEF NtClearEvent, ResetEvent, OnObject, TableStays, Inv, Typed
<1> HIDE DEF y
<1> QED
  BY <1>1, <1>2, <1>3, AtOnce

LEMMA PulseKeeps ==
  ASSUME Inv, NEW t \in Threads, NEW h \in mine, NtPulseEvent(t, h)  PROVE Inv'
<1> DEFINE x == object[h.object]
           y == [x EXCEPT !.signaled = FALSE, !.gen = x.gen + 1, !.pulse = TRUE]
<1>0. h.object \in Addresses /\ x.gen < PulsesMax
  BY OfMine DEF Inv, NtPulseEvent, PulseEvent
<1>1. Changes(x, y)
  BY <1>0, OfMine, SignalChanges DEF Inv
<1>2. object' = [object EXCEPT ![h.object] = y]
  BY <1>0 DEF NtPulseEvent, PulseEvent, Inv, Objs
<1>3. /\ MayCall(t, "pulse")
      /\ UNCHANGED <<title, timers, scan, table, mine, made, search, begun, call>>
  BY DEF NtPulseEvent, OnObject, TableStays
<1>4. pulsed' \subseteq Threads \X Addresses
  BY <1>0 DEF NtPulseEvent, PulseEvent, SeesPulse, Inv, Typed
<1> HIDE DEF y
<1> QED
  BY <1>0, <1>1, <1>2, <1>3, <1>4, AtOnce

LEMMA SemaphoreKeeps ==
  ASSUME Inv, NEW t \in Threads, NEW h \in mine, NtReleaseSemaphore(t, h)  PROVE Inv'
<1> DEFINE x == object[h.object]
           y == [x EXCEPT !.count = IF x.count < SemaphoreMax THEN x.count + 1 ELSE x.count]
<1>1. h.object \in Addresses /\ Changes(x, y)
  BY OfMine, SignalChanges DEF Inv
<1>2. object' = [object EXCEPT ![h.object] = y]
  BY <1>1 DEF NtReleaseSemaphore, ReleaseSemaphore, Inv, Objs
<1>3. /\ MayCall(t, "release") /\ pulsed' \subseteq Threads \X Addresses
      /\ UNCHANGED <<title, timers, scan, table, mine, made, search, begun, call>>
  BY DEF NtReleaseSemaphore, ReleaseSemaphore, OnObject, TableStays, Inv, Typed
<1> HIDE DEF y
<1> QED
  BY <1>1, <1>2, <1>3, AtOnce

\* A mutex is released by its owner, once for each time it was acquired.
LEMMA MutantKeeps ==
  ASSUME Inv, NEW t \in Threads, NEW h \in mine, NtReleaseMutant(t, h)  PROVE Inv'
<1> DEFINE x == object[h.object]
           z == [x EXCEPT !.depth = x.depth - 1,
                          !.owner = IF x.depth > 1 THEN t ELSE NoThread]
           y == IF x.owner # t THEN x ELSE z
<1>1. h.object \in Addresses /\ Shape(x) /\ Changes(x, x) /\ x \in ObjectType
  BY OfMine, NoChange DEF Inv
<1>2. ASSUME x.owner = t  PROVE Changes(x, z)
  <2>1. x.depth \in Nat /\ x.depth > 0
    BY <1>1, <1>2, HostObjectsAssumption DEF Shape, ObjectType
  <2>2. x.depth - 1 \in Nat /\ (x.depth > 1 => x.depth - 1 > 0)
    BY <2>1
  <2>3. z = [x EXCEPT !.depth = x.depth - 1,
                      !.owner = IF x.depth > 1 THEN t ELSE NoThread]
    OBVIOUS
  <2>4. z.depth = x.depth - 1 /\ z.owner = (IF x.depth > 1 THEN t ELSE NoThread)
        /\ z.kind = x.kind /\ z.refs = x.refs /\ z.serial = x.serial
    BY <1>1 DEF ObjectType
  <2>5. z \in ObjectType
    BY <1>1, <2>2 DEF ObjectType
  <2> HIDE DEF z, x
  <2> QED
    BY <1>1, <2>2, <2>4, <2>5 DEF Shape, Changes
<1>3. Changes(x, y)
  BY <1>1, <1>2
<1>4. object' = [object EXCEPT ![h.object] = y]
  BY <1>1 DEF NtReleaseMutant, ReleaseMutex, Inv, Objs
<1>5. /\ MayCall(t, "release") /\ pulsed' \subseteq Threads \X Addresses
      /\ UNCHANGED <<title, timers, scan, table, mine, made, search, begun, call>>
  BY DEF NtReleaseMutant, ReleaseMutex, OnObject, TableStays, Inv, Typed
<1> HIDE DEF y, z
<1> QED
  BY <1>1, <1>3, <1>4, <1>5, AtOnce

---------------------------------------------------------------------------
(* Waits *)

HandlesStay == UNCHANGED <<title, timers, scan, table, mine, made, search, begun>>

\* The call of t goes on as c, and no object changes.
LEMMA GoesOn ==
  ASSUME Inv, HandlesStay, object' = object, pulsed' \subseteq Threads \X Addresses,
         NEW t \in Threads, call[t].op \notin Letting,
         NEW c, CallOK(c, mine), c.op \notin Letting, call' = [call EXCEPT ![t] = c]
  PROVE  Inv'
<1>1. search' \in [Addresses -> Nat] /\ begun' \subseteq 1..made
  BY DEF HandlesStay, Inv, Typed
<1>2. object' \in [Addresses -> ObjectType] /\ \A p \in Addresses : Changes(object[p], object'[p])
  BY NoChange DEF Inv, Objs
<1> QED
  BY <1>1, <1>2, Plainly DEF HandlesStay

LEMMA EndedPulses ==
  ASSUME Typed, NEW t, NEW c, WaitEnds(t, c)
  PROVE  pulsed' \subseteq Threads \X Addresses /\ call' = [call EXCEPT ![t] = c]
  BY DEF WaitEnds, Typed

LEMMA TookKeeps ==
  ASSUME Inv, HandlesStay, NEW t \in Threads, call[t].op \notin Letting,
         NEW h \in mine, NEW gen, Ready(object[h.object], t, gen), Takes(t, h)
  PROVE  Inv'
<1> DEFINE x == object[h.object]
<1>1. h.object \in Addresses /\ Changes(x, Taken(x, t))
  BY OfMine, TakenChanges DEF Inv
<1>2. object' = [object EXCEPT ![h.object] = Taken(x, t)]
  BY <1>1 DEF Takes, Inv, Objs
<1>3. object' \in [Addresses -> ObjectType] /\ \A p \in Addresses : Changes(object[p], object'[p])
  BY <1>1, <1>2, OneChanges DEF Inv
<1>4. CallOK(Took(h), mine) /\ Took(h).op \notin Letting
  <2>1. CallOK(Call("took", <<h>>), mine) /\ Call("took", <<h>>).op = "took"
    BY CallOf DEF Inv
  <2> HIDE DEF Call
  <2> QED
    BY <2>1 DEF Took, Letting
<1>5. pulsed' \subseteq Threads \X Addresses /\ call' = [call EXCEPT ![t] = Took(h)]
  BY EndedPulses DEF Takes, Inv
<1>6. search' \in [Addresses -> Nat] /\ begun' \subseteq 1..made
  BY DEF HandlesStay, Inv, Typed
<1> HIDE DEF x
<1> QED
  BY <1>3, <1>4, <1>5, <1>6, Plainly DEF HandlesStay

LEMMA EndedKeeps ==
  ASSUME Inv, HandlesStay, object' = object, NEW t \in Threads, call[t].op \notin Letting,
         WaitEnds(t, InTitle)
  PROVE  Inv'
<1>1. CallOK(InTitle, mine) /\ InTitle.op \notin Letting
  <2>1. CallOK(InTitle, mine) /\ InTitle.op = "title"
    BY BackInTitle
  <2> HIDE DEF InTitle
  <2> QED
    BY <2>1 DEF Letting
<1>2. pulsed' \subseteq Threads \X Addresses /\ call' = [call EXCEPT ![t] = InTitle]
  BY EndedPulses DEF Inv
<1> QED
  BY <1>1, <1>2, GoesOn

LEMMA Sleeping ==
  ASSUME Typed, NEW h \in mine, NEW gen \in 0..PulsesMax, NEW timed \in BOOLEAN
  PROVE  LET c == [Call("sleep", <<h>>) EXCEPT !.gens = <<gen>>, !.timed = timed]
         IN CallOK(c, mine) /\ c.op = "sleep"
<1> DEFINE hs == <<h>>
           b == Call("sleep", hs)
           gs == <<gen>>
           c == [b EXCEPT !.gens = gs, !.timed = timed]
<1>1. /\ hs \in Seq(HandleType) /\ hs # << >> /\ DOMAIN hs = {1} /\ hs[1] = h
      /\ gs \in Seq(0..PulsesMax)
  BY DEF Typed
<1> HIDE DEF hs, gs
<1>2. b \in CallType /\ b.op = "sleep" /\ b.hs = hs /\ b.at = 1
  BY <1>1, Calling
<1> HIDE DEF b
<1>3. c = [b EXCEPT !.gens = gs, !.timed = timed]
  OBVIOUS
<1> HIDE DEF c
<1>4. c \in CallType /\ c.op = "sleep" /\ c.hs = hs /\ c.at = 1
  BY <1>1, <1>2, <1>3 DEF CallType
<1>5. c.at > 0 /\ c.hs # << >> /\ \A k \in DOMAIN c.hs : c.hs[k] \in mine
  BY <1>1, <1>4
<1>6. CallOK(c, mine)
  BY <1>4, <1>5 DEF CallOK
<1> QED
  BY <1>4, <1>6 DEF c, b, hs, gs

LEMMA WaitKeeps ==
  ASSUME Inv, NEW t \in Threads, NEW h \in mine, NEW timed \in title.timed,
         NtWaitForSingleObject(t, h, timed)
  PROVE  Inv'
<1> DEFINE x == object[h.object]
           c == [Call("sleep", <<h>>) EXCEPT !.gens = <<x.gen>>, !.timed = timed]
<1>1. HandlesStay /\ call[t].op \notin Letting
  BY DEF NtWaitForSingleObject, OnObject, TableStays, HandlesStay, MayCall, Letting
<1>2. CASE Ready(x, t, x.gen)
  <2>1. Takes(t, h)
    BY <1>2 DEF NtWaitForSingleObject, WaitForOne
  <2> QED
    BY <1>1, <1>2, <2>1, TookKeeps
<1>3. CASE ~Ready(x, t, x.gen)
  <2>1. object' = object /\ pulsed' = pulsed /\ call' = [call EXCEPT ![t] = c]
    BY <1>3 DEF NtWaitForSingleObject, WaitForOne
  <2>2. x.gen \in 0..PulsesMax /\ timed \in BOOLEAN
    BY OfMine, TitleIs DEF Inv, ObjectType
  <2>3. CallOK(c, mine) /\ c.op = "sleep"
    BY <2>2, Sleeping DEF Inv
  <2>4. pulsed' \subseteq Threads \X Addresses
    BY <2>1 DEF Inv, Typed
  <2> HIDE DEF c
  <2>5. c.op \notin Letting
    BY <2>3 DEF Letting
  <2> QED
    BY <1>1, <2>1, <2>3, <2>4, <2>5, GoesOn
<1> QED
  BY <1>2, <1>3

LEMMA WaitManyKeeps ==
  ASSUME Inv, NEW t \in Threads, NEW h \in mine, NEW g \in mine, NEW all \in title.all,
         NEW timed \in title.timed, NtWaitForMultipleObjects(t, h, g, all, timed)
  PROVE  Inv'
<1> DEFINE hs == <<h, g>>
           b == Call("sample", hs)
           c == [b EXCEPT !.all = all, !.timed = timed]
<1>1. HandlesStay /\ call[t].op \notin Letting
  BY DEF NtWaitForMultipleObjects, OnObject, TableStays, HandlesStay, MayCall, Letting
<1>2. object' = object /\ pulsed' = pulsed /\ call' = [call EXCEPT ![t] = c]
  BY DEF NtWaitForMultipleObjects, WaitForSeveral
<1>3. /\ hs \in Seq(HandleType) /\ hs # << >> /\ DOMAIN hs = {1, 2} /\ hs[1] = h /\ hs[2] = g
      /\ Len(hs) = 2
  BY DEF Inv, Typed
<1> HIDE DEF hs
<1>4. b \in CallType /\ b.op = "sample" /\ b.hs = hs /\ b.at = 1 /\ b.gens = << >>
  BY <1>3, Calling
<1> HIDE DEF b
<1>5. all \in BOOLEAN /\ timed \in BOOLEAN
  BY TitleIs DEF Inv
<1>6. c = [b EXCEPT !.all = all, !.timed = timed]
  OBVIOUS
<1> HIDE DEF c
<1>7. c \in CallType /\ c.op = "sample" /\ c.hs = hs /\ c.at = 1 /\ c.gens = << >>
  BY <1>4, <1>5, <1>6 DEF CallType
<1>8. c.at > 0 /\ c.hs # << >> /\ (\A k \in DOMAIN c.hs : c.hs[k] \in mine)
      /\ Len(c.gens) < Len(c.hs)
  BY <1>3, <1>7
<1>9. CallOK(c, mine) /\ c.op \notin Letting
  BY <1>7, <1>8 DEF CallOK, Letting
<1>10. pulsed' \subseteq Threads \X Addresses
  BY <1>2 DEF Inv, Typed
<1> QED
  BY <1>1, <1>2, <1>9, <1>10, GoesOn

\* A call that waits, and the handles it has use of.
LEMMA InWait ==
  ASSUME Inv, NEW t \in Threads, call[t].op \in {"took", "sleep", "sample", "poll"}
  PROVE  /\ call[t] \in CallType /\ call[t].op \notin Letting /\ call[t].op # "title"
         /\ call[t].hs \in Seq(HandleType) /\ call[t].hs # << >> /\ call[t].at \in Nat \ {0}
         /\ Len(call[t].hs) \in Nat \ {0}
         /\ \A k \in 1..Len(call[t].hs) : call[t].hs[k] \in mine
         /\ call[t].op = "sample" => Len(call[t].gens) < Len(call[t].hs)
<1>1. CallOK(call[t], mine)
  BY DEF Inv, InCalls
<1>2. /\ call[t] \in CallType /\ call[t].hs \in Seq(HandleType) /\ call[t].hs # << >>
      /\ call[t].at \in Nat /\ call[t].at > 0
  BY <1>1 DEF CallOK, CallType
<1>3. Len(call[t].hs) \in Nat \ {0} /\ DOMAIN call[t].hs = 1..Len(call[t].hs)
  BY <1>2
<1>4. call[t].op \notin Letting
  BY DEF Letting
<1> QED
  BY <1>1, <1>2, <1>3, <1>4 DEF CallOK

LEMMA ReleasedKeeps ==
  ASSUME Inv, NEW t \in Threads, WaitIsReleased(t), UNCHANGED handleVars  PROVE Inv'
<1>1. HandlesStay /\ call[t].op = "sleep"
  BY DEF WaitIsReleased, handleVars, HandlesStay
<1>2. call[t].hs[1] \in mine /\ call[t].op \notin Letting
  BY <1>1, InWait
<1> QED
  BY <1>1, <1>2, TookKeeps DEF WaitIsReleased

LEMMA TimesOutKeeps ==
  ASSUME Inv, NEW t \in Threads, SleepTimesOut(t), UNCHANGED handleVars  PROVE Inv'
<1>1. HandlesStay /\ call[t].op = "sleep" /\ object' = object /\ WaitEnds(t, InTitle)
  BY DEF SleepTimesOut, handleVars, HandlesStay
<1>2. call[t].op \notin Letting
  BY <1>1 DEF Letting
<1> QED
  BY <1>1, <1>2, EndedKeeps

LEMMA SampleKeeps ==
  ASSUME Inv, NEW t \in Threads, Sample(t), UNCHANGED handleVars  PROVE Inv'
<1> DEFINE c == call[t]
           gs == c.gens
           l == Len(gs)
           gen == object[c.hs[l + 1].object].gen
           g2 == Append(gs, gen)
           d == [c EXCEPT !.gens = g2]
           e == IF Len(d.gens) = Len(d.hs) THEN [d EXCEPT !.op = "poll"] ELSE d
<1>1. /\ HandlesStay /\ c.op = "sample" /\ object' = object /\ pulsed' = pulsed
      /\ call' = [call EXCEPT ![t] = e]
  BY DEF Sample, handleVars, HandlesStay
<1>2. /\ c \in CallType /\ c.op \notin Letting /\ c.hs \in Seq(HandleType) /\ c.hs # << >>
      /\ c.at \in Nat \ {0} /\ Len(c.hs) \in Nat \ {0}
      /\ (\A k \in 1..Len(c.hs) : c.hs[k] \in mine) /\ l < Len(c.hs)
  BY <1>1, InWait
<1>3. gs \in Seq(0..PulsesMax) /\ l \in Nat
  BY <1>2 DEF CallType
<1>4. gen \in 0..PulsesMax
  <2>1. l + 1 \in 1..Len(c.hs)
    BY <1>2, <1>3
  <2>2. c.hs[l + 1] \in mine
    BY <1>2, <2>1
  <2> QED
    BY <2>2, OfMine DEF Inv, ObjectType
<1> HIDE DEF gen, l
<1>5. g2 \in Seq(0..PulsesMax) /\ Len(g2) = l + 1
  BY <1>3, <1>4 DEF l
<1> HIDE DEF g2, gs
<1>6. d = [c EXCEPT !.gens = g2]
  OBVIOUS
<1> HIDE DEF c, d
<1>7. d \in CallType /\ d.gens = g2 /\ d.hs = c.hs /\ d.op = c.op /\ d.at = c.at
  BY <1>2, <1>5, <1>6 DEF CallType
<1>8. CASE Len(d.gens) = Len(d.hs)
  <2>1. e = [d EXCEPT !.op = "poll"]
    BY <1>8
  <2> HIDE DEF e
  <2>2. e \in CallType /\ e.op = "poll" /\ e.hs = c.hs /\ e.at = c.at
    BY <1>7, <2>1 DEF CallType
  <2>3. /\ e.at > 0 /\ e.hs # << >> /\ (\A k \in DOMAIN e.hs : e.hs[k] \in mine)
        /\ e.op \notin Letting
    BY <1>2, <2>2 DEF Letting
  <2>4. CallOK(e, mine)
    BY <2>2, <2>3 DEF CallOK
  <2>5. pulsed' \subseteq Threads \X Addresses
    BY <1>1 DEF Inv, Typed
  <2> QED
    BY <1>1, <1>2, <2>3, <2>4, <2>5, GoesOn DEF c
<1>9. CASE Len(d.gens) # Len(d.hs)
  <2>1. e = d
    BY <1>9
  <2> HIDE DEF e
  <2>2. /\ e.at > 0 /\ e.hs # << >> /\ (\A k \in DOMAIN e.hs : e.hs[k] \in mine)
        /\ e.op \notin Letting /\ Len(e.gens) < Len(e.hs) /\ e \in CallType
    BY <1>1, <1>2, <1>3, <1>5, <1>7, <1>9, <2>1 DEF c
  <2>3. CallOK(e, mine)
    BY <2>2 DEF CallOK
  <2>4. pulsed' \subseteq Threads \X Addresses
    BY <1>1 DEF Inv, Typed
  <2> QED
    BY <1>1, <1>2, <2>2, <2>3, <2>4, GoesOn DEF c
<1> QED
  BY <1>8, <1>9

\* The next look of a wait for several.
LEMMA LookingOn ==
  ASSUME NEW c \in CallType, NEW m, CallOK(c, m), c.op = "poll", NEW n \in Nat
  PROVE  LET d == [c EXCEPT !.at = c.at + 1, !.got = n]
         IN CallOK(d, m) /\ d.op = "poll"
<1> DEFINE d == [c EXCEPT !.at = c.at + 1, !.got = n]
<1>1. c.at \in Nat
  BY DEF CallType
<1>2. d = [c EXCEPT !.at = c.at + 1, !.got = n] /\ c.at + 1 \in Nat /\ c.at + 1 > 0
  BY <1>1
<1> HIDE DEF d
<1>3. d \in CallType /\ d.op = "poll" /\ d.hs = c.hs /\ d.at = c.at + 1 /\ d.gens = c.gens
  BY <1>2 DEF CallType
<1>4. CallOK(d, m)
  BY <1>2, <1>3 DEF CallOK
<1> QED
  BY <1>3, <1>4 DEF d

LEMMA PollKeeps ==
  ASSUME Inv, NEW t \in Threads, Poll(t), UNCHANGED handleVars  PROVE Inv'
<1> DEFINE c == call[t]
           h == c.hs[c.at]
           x == object[h.object]
           ready == Ready(x, t, c.gens[c.at])
           d == [c EXCEPT !.at = c.at + 1, !.got = c.got]
           e == [c EXCEPT !.at = c.at + 1, !.got = c.got + 1]
<1>1. HandlesStay /\ c.op = "poll" /\ c.at <= Len(c.hs)
  BY DEF Poll, handleVars, HandlesStay
<1>2. /\ c \in CallType /\ c.op \notin Letting /\ h \in mine /\ CallOK(c, mine)
      /\ c.got \in Nat /\ c.got + 1 \in Nat
  <2>1. /\ c \in CallType /\ c.op \notin Letting /\ c.at \in Nat \ {0} /\ Len(c.hs) \in Nat \ {0}
        /\ \A k \in 1..Len(c.hs) : c.hs[k] \in mine
    BY <1>1, InWait
  <2>2. c.at \in 1..Len(c.hs)
    BY <1>1, <2>1
  <2>3. c.got \in Nat
    BY <2>1 DEF CallType
  <2>4. c.got + 1 \in Nat
    BY <2>3
  <2> QED
    BY <2>1, <2>2, <2>3, <2>4 DEF Inv, InCalls
<1>3. search' \in [Addresses -> Nat] /\ begun' \subseteq 1..made
  BY <1>1 DEF HandlesStay, Inv, Typed
<1>4. CASE ~ready
  <2>1. object' = object /\ pulsed' = pulsed /\ call' = [call EXCEPT ![t] = d]
    <3>1. object' = object /\ LooksOn(t, c)
      BY <1>4 DEF Poll
    <3>2. [c EXCEPT !.at = c.at + 1] = d
      BY <1>2 DEF CallType
    <3> QED
      BY <3>1, <3>2 DEF LooksOn
  <2>2. CallOK(d, mine) /\ d.op = "poll"
    BY <1>1, <1>2, LookingOn
  <2> HIDE DEF d
  <2>3. pulsed' \subseteq Threads \X Addresses /\ d.op \notin Letting
    BY <2>1, <2>2 DEF Inv, Typed, Letting
  <2> QED
    BY <1>1, <1>2, <2>1, <2>2, <2>3, GoesOn
<1>5. CASE ready /\ c.all
  <2>1. h.object \in Addresses /\ Changes(x, Taken(x, t))
    BY <1>2, <1>5, OfMine, TakenChanges DEF Inv
  <2>2. /\ object' = [object EXCEPT ![h.object] = Taken(x, t)]
        /\ pulsed' = pulsed /\ call' = [call EXCEPT ![t] = e]
    <3>1. /\ object' = [object EXCEPT ![h.object] = Taken(@, t)]
          /\ LooksOn(t, [c EXCEPT !.got = @ + 1])
      BY <1>5 DEF Poll
    <3>2. [[c EXCEPT !.got = @ + 1] EXCEPT !.at = @ + 1] = e
      BY <1>2 DEF CallType
    <3>3. [object EXCEPT ![h.object] = Taken(@, t)] = [object EXCEPT ![h.object] = Taken(x, t)]
      BY <2>1 DEF Inv, Objs
    <3> QED
      BY <3>1, <3>2, <3>3 DEF LooksOn
  <2>3. CallOK(e, mine) /\ e.op = "poll"
    BY <1>1, <1>2, LookingOn
  <2> HIDE DEF e
  <2>4. pulsed' \subseteq Threads \X Addresses /\ e.op \notin Letting
    BY <2>2, <2>3 DEF Inv, Typed, Letting
  <2>5. object' \in [Addresses -> ObjectType] /\ \A p \in Addresses : Changes(object[p], object'[p])
    BY <2>1, <2>2, OneChanges DEF Inv
  <2> QED
    BY <1>1, <1>2, <1>3, <2>2, <2>3, <2>4, <2>5, Plainly DEF HandlesStay
<1>6. CASE ready /\ ~c.all
  <2>1. Takes(t, h)
    BY <1>6 DEF Poll
  <2> QED
    BY <1>1, <1>2, <1>6, <2>1, TookKeeps
<1> QED
  BY <1>4, <1>5, <1>6

LEMMA RoundEndsKeeps ==
  ASSUME Inv, NEW t \in Threads, RoundEnds(t), UNCHANGED handleVars  PROVE Inv'
<1> DEFINE c == call[t]
           d == [c EXCEPT !.at = 1, !.got = 0]
<1>1. HandlesStay /\ c.op = "poll" /\ object' = object
  BY DEF RoundEnds, handleVars, HandlesStay
<1>2. /\ c \in CallType /\ c.op \notin Letting /\ Last(c.hs) \in mine /\ CallOK(c, mine)
  BY <1>1, InWait DEF Last, Inv, InCalls
<1>3. CASE WaitEnds(t, Took(Last(c.hs)))
  <2>1. CallOK(Took(Last(c.hs)), mine) /\ Took(Last(c.hs)).op \notin Letting
    <3> DEFINE h == Last(c.hs)
    <3> HIDE DEF h
    <3>1. h \in mine
      BY <1>2 DEF h
    <3>2. CallOK(Call("took", <<h>>), mine) /\ Call("took", <<h>>).op = "took"
      BY <3>1, CallOf DEF Inv
    <3>3. Call("took", <<h>>).op \notin Letting
      BY <3>2 DEF Letting
    <3> QED
      BY <3>2, <3>3 DEF Took, h
  <2>2. pulsed' \subseteq Threads \X Addresses /\ call' = [call EXCEPT ![t] = Took(Last(c.hs))]
    BY <1>3, EndedPulses DEF Inv
  <2> QED
    BY <1>1, <1>2, <2>1, <2>2, GoesOn
<1>4. CASE WaitEnds(t, InTitle)
  BY <1>1, <1>2, <1>4, EndedKeeps
<1>5. CASE call' = [call EXCEPT ![t].at = 1, ![t].got = 0] /\ UNCHANGED pulsed
  <2>1. call' = [call EXCEPT ![t] = d]
    BY <1>2, <1>5 DEF Inv, InCalls
  <2>2. d = [c EXCEPT !.at = 1, !.got = 0]
    OBVIOUS
  <2> HIDE DEF d
  <2>3. d \in CallType /\ d.op = "poll" /\ d.hs = c.hs /\ d.at = 1
    BY <1>1, <1>2, <2>2 DEF CallType
  <2>4. d.at > 0 /\ d.op \notin Letting
    BY <2>3 DEF Letting
  <2>5. CallOK(d, mine)
    BY <1>1, <1>2, <2>3, <2>4 DEF CallOK
  <2>6. pulsed' \subseteq Threads \X Addresses
    BY <1>5 DEF Inv, Typed
  <2> QED
    BY <1>1, <1>2, <2>1, <2>4, <2>5, <2>6, GoesOn
<1> QED
  BY <1>3, <1>4, <1>5 DEF RoundEnds

LEMMA WaitReturnsKeeps ==
  ASSUME Inv, NEW t \in Threads, WaitReturns(t)  PROVE Inv'
<1>1. /\ HandlesStay /\ object' = object /\ call[t].op = "took"
      /\ call' = [call EXCEPT ![t] = InTitle] /\ pulsed' = pulsed
  BY DEF WaitReturns, TableStays, HandlesStay
<1>2. call[t].op \notin Letting /\ pulsed' \subseteq Threads \X Addresses
  BY <1>1 DEF Letting, Inv, Typed
<1>3. CallOK(InTitle, mine) /\ InTitle.op \notin Letting
  <2>1. CallOK(InTitle, mine) /\ InTitle.op = "title"
    BY BackInTitle
  <2> HIDE DEF InTitle
  <2> QED
    BY <2>1 DEF Letting
<1> QED
  BY <1>1, <1>2, <1>3, GoesOn

LEMMA SetTimerKeeps ==
  ASSUME Inv, NEW t \in Threads, NEW h \in mine, NEW period \in title.periods,
         NtSetTimerEx(t, h, period)
  PROVE  Inv'
<1> DEFINE x == object[h.object]
           y == [x EXCEPT !.signaled = FALSE]
           b == Call("arming", <<h>>)
           c == [b EXCEPT !.period = period]
<1>1. /\ HandlesStay /\ call[t].op \notin Letting /\ call' = [call EXCEPT ![t] = c]
      /\ pulsed' \subseteq Threads \X Addresses
  BY DEF NtSetTimerEx, OnObject, TableStays, HandlesStay, MayCall, Letting, ResetEvent, Inv, Typed
<1>2. h.object \in Addresses /\ Changes(x, y) /\ period \in BOOLEAN
  BY OfMine, SignalChanges, TitleIs DEF Inv
<1>3. object' = [object EXCEPT ![h.object] = y]
  BY <1>2 DEF NtSetTimerEx, ResetEvent, Inv, Objs
<1>4. object' \in [Addresses -> ObjectType] /\ \A p \in Addresses : Changes(object[p], object'[p])
  BY <1>2, <1>3, OneChanges DEF Inv
<1>5. CallOK(b, mine) /\ b.op = "arming" /\ b \in CallType
  BY CallOf DEF Inv, CallOK
<1>6. c = [b EXCEPT !.period = period]
  OBVIOUS
<1> HIDE DEF b, c
<1>7. /\ c \in CallType /\ c.op = b.op /\ c.hs = b.hs /\ c.at = b.at /\ c.gens = b.gens
  BY <1>2, <1>5, <1>6 DEF CallType
<1>8. CallOK(c, mine) /\ c.op \notin Letting
  BY <1>5, <1>7 DEF CallOK, Letting
<1>9. search' \in [Addresses -> Nat] /\ begun' \subseteq 1..made
  BY <1>1 DEF HandlesStay, Inv, Typed
<1> QED
  BY <1>1, <1>4, <1>8, <1>9, Plainly DEF HandlesStay

LEMMA QueryKeeps ==
  ASSUME Inv, NEW t \in Threads, NEW h \in mine, NEW restart \in BOOLEAN, NEW ends \in BOOLEAN,
         NtQueryDirectoryFile(t, h, restart, ends)
  PROVE  Inv'
<1>1. /\ UNCHANGED <<hostVars, title, table, made, mine>> /\ call[t].op = "title"
      /\ call[t].op \notin Letting
  BY DEF NtQueryDirectoryFile, MayCall, Letting
<1>2. h.object \in Addresses /\ h.serial \in Nat
  BY OfMine DEF Inv
<1>3. h.serial \in 1..made
  <2>1. object[h.object].kind # "free"
    <3>1. Needed(h.object)
      BY DEF Needed
    <3> QED
      BY <1>2, <3>1, Live DEF Inv, AllLive
  <2> QED
    BY <1>2, <2>1 DEF Inv, Serials, Current
<1>4. search' \in [Addresses -> Nat] /\ begun' \subseteq 1..made
  <2> DEFINE v == IF ends THEN 0 ELSE IF search[h.object] # 0 /\ ~restart
                                      THEN search[h.object] ELSE h.serial
  <2>1. v \in Nat /\ search' = [search EXCEPT ![h.object] = v]
    BY <1>2 DEF NtQueryDirectoryFile, Inv, Typed
  <2> HIDE DEF v
  <2>2. search' \in [Addresses -> Nat]
    BY <2>1 DEF Inv, Typed
  <2>3. begun' \subseteq begun \cup {h.serial}
    BY DEF NtQueryDirectoryFile
  <2> QED
    BY <1>3, <2>2, <2>3 DEF Inv, Typed
<1>5. /\ object' = object /\ call' = [call EXCEPT ![t] = call[t]]
      /\ CallOK(call[t], mine)
      /\ UNCHANGED <<title, timers, scan, table, mine, made>>
      /\ pulsed' \subseteq Threads \X Addresses
  BY <1>1 DEF hostVars, Inv, InCalls, Typed
<1>6. object' \in [Addresses -> ObjectType] /\ \A p \in Addresses : Changes(object[p], object'[p])
  BY <1>5, NoChange DEF Inv, Objs
<1> QED
  BY <1>1, <1>4, <1>5, <1>6, Plainly

---------------------------------------------------------------------------
(* Steps that change what counts on an object *)

\* n handles, a timers and l calls more, and as many references.
LEMMA Tally ==
  ASSUME Inv, NEW o \in Addresses, NEW n \in Int, NEW a \in Int, NEW l \in Int,
         Cardinality(Naming(mine', o)) = Cardinality(Naming(mine, o)) + n,
         Cardinality(Arming(timers', o)) = Cardinality(Arming(timers, o)) + a,
         Cardinality(LettingGo(call', o)) = Cardinality(LettingGo(call, o)) + l,
         object'[o].refs = object[o].refs + (n + a + l)
  PROVE  object'[o].refs = Counted(o)'
<1>1. /\ Cardinality(Naming(mine, o)) \in Nat /\ Cardinality(Arming(timers, o)) \in Nat
      /\ Cardinality(LettingGo(call, o)) \in Nat
  BY Numbered DEF Inv, Typed
<1>2. object[o].refs = Cardinality(Naming(mine, o)) + Cardinality(Arming(timers, o))
                       + Cardinality(LettingGo(call, o))
  BY CountedIs DEF Inv, Counts
<1>3. Counted(o)' = Cardinality(Naming(mine', o)) + Cardinality(Arming(timers', o))
                    + Cardinality(LettingGo(call', o))
  BY CountedNext
<1> QED
  BY <1>1, <1>2, <1>3

\* The same of every object but one.
LEMMA Tallied ==
  ASSUME Inv, NEW o \in Addresses, NEW n \in Int, NEW a \in Int, NEW l \in Int,
         Cardinality(Naming(mine', o)) = Cardinality(Naming(mine, o)) + n,
         Cardinality(Arming(timers', o)) = Cardinality(Arming(timers, o)) + a,
         Cardinality(LettingGo(call', o)) = Cardinality(LettingGo(call, o)) + l,
         object'[o].refs = object[o].refs + (n + a + l),
         \A p \in Addresses \ {o} :
           /\ Cardinality(Naming(mine', p)) = Cardinality(Naming(mine, p))
           /\ Cardinality(Arming(timers', p)) = Cardinality(Arming(timers, p))
           /\ Cardinality(LettingGo(call', p)) = Cardinality(LettingGo(call, p))
           /\ object'[p].refs = object[p].refs
  PROVE  Counts'
<1>1. object'[o].refs = Counted(o)'
  BY Tally
<1>2. ASSUME NEW p \in Addresses, p # o  PROVE object'[p].refs = Counted(p)'
  <2>1. /\ Cardinality(Naming(mine', p)) = Cardinality(Naming(mine, p))
        /\ Cardinality(Arming(timers', p)) = Cardinality(Arming(timers, p))
        /\ Cardinality(LettingGo(call', p)) = Cardinality(LettingGo(call, p))
        /\ object'[p].refs = object[p].refs
    BY <1>2
  <2>2. Counted(p)' = Counted(p)
    BY <2>1, CountedIs, CountedNext
  <2> QED
    BY <2>1, <2>2 DEF Inv, Counts
<1> QED
  BY <1>1, <1>2 DEF Counts

\* What is counted is a number, and counts that do not change.
LEMMA Unchanged ==
  ASSUME Inv, NEW o
  PROVE  /\ Cardinality(Naming(mine, o)) = Cardinality(Naming(mine, o)) + 0
         /\ Cardinality(Arming(timers, o)) = Cardinality(Arming(timers, o)) + 0
         /\ Cardinality(LettingGo(call, o)) = Cardinality(LettingGo(call, o)) + 0
  BY Numbered DEF Inv, Typed

LEMMA ReleasedIs ==
  ASSUME NEW f \in [Addresses -> ObjectType], \A p \in Addresses : Shape(f[p]),
         NEW o \in Addresses, f[o].refs > 0
  PROVE  /\ Released(f, o) \in [Addresses -> ObjectType]
         /\ \A p \in Addresses : /\ Shape(Released(f, o)[p])
                                 /\ Lasts(f[p], Released(f, o)[p])
                                 /\ Released(f, o)[p].refs =
                                      f[p].refs + IF p = o THEN -1 ELSE 0
<1> DEFINE x == f[o]
           y == IF x.refs > 1 THEN [x EXCEPT !.refs = x.refs - 1] ELSE Free
<1>1. Released(f, o) = [f EXCEPT ![o] = y]
  BY DEF Released
<1>2. x.refs \in Nat /\ x.refs > 0 /\ x \in ObjectType /\ Shape(x)
  BY DEF ObjectType
<1>3. Shape(y) /\ Lasts(x, y) /\ y.refs = x.refs - 1
  <2>1. CASE x.refs > 1
    <3>1. y = [x EXCEPT !.refs = x.refs - 1] /\ x.refs - 1 \in Nat /\ x.refs - 1 # 0
      BY <1>2, <2>1
    <3> HIDE DEF y, x
    <3>2. y \in ObjectType /\ y.refs = x.refs - 1 /\ y.kind = x.kind /\ y.serial = x.serial
          /\ y.owner = x.owner /\ y.depth = x.depth
      BY <1>2, <3>1 DEF ObjectType
    <3> QED
      BY <1>2, <3>1, <3>2 DEF Shape, Lasts
  <2>2. CASE ~(x.refs > 1)
    <3>1. y = Free /\ x.refs = 1
      BY <1>2, <2>2
    <3>2. /\ Free.kind = "free" /\ Free.refs = 0 /\ Free.owner = NoThread
          /\ Free \in ObjectType
      BY Sizes DEF Free, ObjectType, Kinds
    <3> HIDE DEF y
    <3> QED
      BY <3>1, <3>2 DEF Shape, Lasts
  <2> QED
    BY <2>1, <2>2
<1> HIDE DEF y
<1>4. y \in ObjectType
  BY <1>3 DEF Shape
<1>5. /\ Released(f, o) \in [Addresses -> ObjectType] /\ Released(f, o)[o] = y
      /\ \A p \in Addresses \ {o} : Released(f, o)[p] = f[p]
  BY <1>1, <1>4
<1>6. \A p \in Addresses : f[p].refs \in Nat
  BY DEF ObjectType
<1> QED
  BY <1>3, <1>5, <1>6 DEF Lasts

LEMMA NewName ==
  ASSUME Inv, NEW o \in Addresses, object[o].kind = "free"
  PROVE  /\ Naming(mine, o) = {} /\ Arming(timers, o) = {} /\ LettingGo(call, o) = {}
<1>1. ~Needed(o)
  BY Live DEF Inv, AllLive
<1> QED
  BY <1>1 DEF Needed, Naming, Arming, LettingGo

\* Handles that a call has use of stay the title's, when the title gets one
\* and when it gives up one that no call uses.
LEMMA MineGrows ==
  ASSUME NEW c, NEW m, CallOK(c, m), NEW n, m \subseteq n
  PROVE  CallOK(c, n)
  BY DEF CallOK

LEMMA MineShrinks ==
  ASSUME InCalls, NEW h, ~InUse(h), NEW t \in Threads
  PROVE  CallOK(call[t], mine \ {h})
<1>1. CallOK(call[t], mine) /\ h \notin ToSet(call[t].hs)
  BY DEF InCalls, InUse
<1>2. \A k \in DOMAIN call[t].hs : call[t].hs[k] # h
  BY <1>1 DEF ToSet
<1> QED
  BY <1>1, <1>2 DEF CallOK

\* The call of t begins to let go of its object, or has let go of it.
LEMMA LettingBegins ==
  ASSUME NEW t \in Threads, \A u \in Threads \ {t} : call'[u] = call[u],
         call[t].op \notin Letting, call'[t].op \in Letting, NEW p
  PROVE  /\ call'[t].hs[1].object = p =>
              Cardinality(LettingGo(call', p)) = Cardinality(LettingGo(call, p)) + 1
         /\ call'[t].hs[1].object # p => LettingGo(call', p) = LettingGo(call, p)
<1>1. /\ IsFiniteSet(LettingGo(call, p)) /\ t \notin LettingGo(call, p)
      /\ LettingGo(call', p) = IF call'[t].hs[1].object = p THEN LettingGo(call, p) \cup {t}
                                                          ELSE LettingGo(call, p)
  BY FS_Subset, HostObjectsAssumption DEF LettingGo
<1>2. Cardinality(LettingGo(call, p) \cup {t}) = Cardinality(LettingGo(call, p)) + 1
  BY <1>1, FS_AddElement
<1> QED
  BY <1>1, <1>2

LEMMA LettingEnds ==
  ASSUME NEW t \in Threads, \A u \in Threads \ {t} : call'[u] = call[u],
         call[t].op \in Letting, call'[t].op \notin Letting, NEW p
  PROVE  /\ call[t].hs[1].object = p =>
              Cardinality(LettingGo(call', p)) = Cardinality(LettingGo(call, p)) + -1
         /\ call[t].hs[1].object # p => LettingGo(call', p) = LettingGo(call, p)
<1> DEFINE c == call'
           d == call
<1>1. \A u \in Threads \ {t} : d[u] = c[u]
  OBVIOUS
<1>2. c[t].op \notin Letting /\ d[t].op \in Letting
  OBVIOUS
<1> HIDE DEF c, d
<1>3. /\ d[t].hs[1].object = p => Cardinality(LettingGo(d, p)) = Cardinality(LettingGo(c, p)) + 1
      /\ d[t].hs[1].object # p => LettingGo(d, p) = LettingGo(c, p)
  BY <1>1, <1>2, LettingGains
<1>4. Cardinality(LettingGo(c, p)) \in Nat
  <2>1. IsFiniteSet(LettingGo(c, p))
    BY FS_Subset, HostObjectsAssumption DEF LettingGo
  <2> QED
    BY <2>1, FS_CardinalityType
<1>5. d[t].hs[1].object = p => Cardinality(LettingGo(c, p)) = Cardinality(LettingGo(d, p)) + -1
  BY <1>3, <1>4
<1> QED
  BY <1>3, <1>5 DEF c, d

LEMMA CloseKeeps ==
  ASSUME Inv, NEW t \in Threads, NEW h \in mine, NtClose(t, h)  PROVE Inv'
<1> DEFINE c == Call("closing", <<h>>)
<1>1. /\ call[t].op = "title" /\ ~InUse(h) /\ mine' = mine \ {h}
      /\ call' = [call EXCEPT ![t] = c]
      /\ table' = [table EXCEPT ![h.token].object = 0, ![h.token].async = FALSE]
      /\ UNCHANGED <<object, timers, scan, pulsed, title, search, made, begun>>
  BY DEF NtClose, MayCall
<1>2. CallOK(c, mine) /\ c.op = "closing" /\ c.hs[1] = h
  BY CallOf DEF Inv
<1>3. h.object \in Addresses /\ h.token \in Tokens
  BY OfMine DEF Inv
<1> HIDE DEF c
<1>4. CallOK(c, mine \ {h}) /\ c \in CallType
  BY <1>2 DEF CallOK
<1>5. /\ call' \in [Threads -> CallType] /\ call'[t] = c
      /\ \A u \in Threads \ {t} : call'[u] = call[u]
  BY <1>1, <1>4 DEF Inv, InCalls
<1>6. InCalls'
  BY <1>1, <1>4, <1>5, MineShrinks DEF Inv, InCalls
<1>7. /\ table' \in [Tokens -> [object : Addresses \cup {0}, async : BOOLEAN,
                                kind : EventKinds \cup {"unknown"}]]
      /\ \A i \in Tokens \ {h.token} : table'[i] = table[i]
  BY ZenonT(40), <1>1, <1>3 DEF Inv, Typed
<1>8. IsFiniteSet(mine')
  BY <1>1, NamingLoses DEF Inv, Typed
<1>9. Typed' /\ Objs'
  BY <1>1, <1>7, <1>8 DEF Inv, Typed, Objs
<1>10. Slotted'
  <2>1. \A g \in mine' : g \in mine /\ g.token \in Tokens \ {h.token}
    BY <1>1, OfMine DEF Inv, Slotted
  <2> QED
    BY <1>7, <2>1 DEF Inv, Slotted
<1>11. ASSUME NEW p \in Addresses
       PROVE  /\ p = h.object =>
                   /\ Cardinality(Naming(mine', p)) = Cardinality(Naming(mine, p)) + -1
                   /\ Cardinality(LettingGo(call', p)) = Cardinality(LettingGo(call, p)) + 1
              /\ p # h.object => /\ Cardinality(Naming(mine', p)) = Cardinality(Naming(mine, p))
                                 /\ Cardinality(LettingGo(call', p)) =
                                      Cardinality(LettingGo(call, p))
  <2>1. Cardinality(Naming(mine, p)) =
          Cardinality(Naming(mine', p)) + IF h.object = p THEN 1 ELSE 0
    <3>1. IsFiniteSet(mine)
      BY DEF Inv, Typed
    <3>2. Cardinality(Naming(mine, p)) =
            Cardinality(Naming(mine \ {h}, p)) + IF h.object = p THEN 1 ELSE 0
      BY <3>1, NamingLoses
    <3> QED
      BY <1>1, <3>2
  <2>2. Cardinality(Naming(mine', p)) \in Nat
    <3>1. IsFiniteSet(Naming(mine', p))
      BY <1>8, FS_Subset DEF Naming
    <3> QED
      BY <3>1, FS_CardinalityType
  <2>3. /\ h.object = p => Cardinality(LettingGo(call', p)) = Cardinality(LettingGo(call, p)) + 1
        /\ h.object # p => LettingGo(call', p) = LettingGo(call, p)
    <3>1. call[t].op \notin Letting /\ call'[t].op \in Letting /\ call'[t].hs[1] = h
      BY <1>1, <1>2, <1>5 DEF Letting
    <3>2. \A u \in Threads \ {t} : call'[u] = call[u]
      BY <1>5
    <3> QED
      BY <3>1, <3>2, LettingBegins
  <2> QED
    BY <2>1, <2>2, <2>3
<1>12. Counts'
  <2>1. \A p \in Addresses : Cardinality(Arming(timers', p)) = Cardinality(Arming(timers, p)) + 0
    BY <1>1, Unchanged
  <2>2. \A p \in Addresses : object'[p].refs = object[p].refs + (-1 + 0 + 1)
    BY <1>1 DEF Inv, Objs, ObjectType
  <2> DEFINE n == -1
             a == 0
             l == 1
  <2>3. n \in Int /\ a \in Int /\ l \in Int
    OBVIOUS
  <2>4. /\ Cardinality(Naming(mine', h.object)) = Cardinality(Naming(mine, h.object)) + n
        /\ Cardinality(Arming(timers', h.object)) = Cardinality(Arming(timers, h.object)) + a
        /\ Cardinality(LettingGo(call', h.object)) = Cardinality(LettingGo(call, h.object)) + l
        /\ object'[h.object].refs = object[h.object].refs + (n + a + l)
    BY <1>3, <1>11, <2>1, <2>2
  <2>5. \A p \in Addresses \ {h.object} :
          /\ Cardinality(Naming(mine', p)) = Cardinality(Naming(mine, p))
          /\ Cardinality(Arming(timers', p)) = Cardinality(Arming(timers, p))
          /\ Cardinality(LettingGo(call', p)) = Cardinality(LettingGo(call, p))
          /\ object'[p].refs = object[p].refs
    BY <1>1, <1>11
  <2> HIDE DEF n, a, l
  <2> QED
    BY <1>3, <2>3, <2>4, <2>5, Tallied
<1>13. \A o \in Addresses : Lasts(object[o], object'[o])
  BY <1>1 DEF Lasts
<1> QED
  BY <1>1, <1>6, <1>9, <1>10, <1>12, <1>13, Settles

LEMMA FileClosingKeeps ==
  ASSUME Inv, NEW t \in Threads, FileClosing(t)  PROVE Inv'
<1> DEFINE c == call[t]
           d == [c EXCEPT !.op = "releasing"]
           o == c.hs[1].object
<1>1. /\ c.op = "closing" /\ search' = (IF Held(o) THEN search ELSE [search EXCEPT ![o] = 0])
      /\ call' = [call EXCEPT ![t].op = "releasing"]
      /\ UNCHANGED <<object, timers, scan, pulsed, title, table, made, mine, begun>>
  BY DEF FileClosing
<1>2. CallOK(c, mine) /\ c \in CallType /\ d = [c EXCEPT !.op = "releasing"]
  BY DEF Inv, InCalls
<1>3. call' = [call EXCEPT ![t] = d]
  BY <1>1, <1>2 DEF Inv, InCalls
<1>4. search' \in [Addresses -> Nat]
  BY <1>1 DEF Inv, Typed
<1> HIDE DEF c, d
<1>5. d \in CallType /\ d.op = "releasing" /\ d.hs = c.hs /\ d.at = c.at
  BY <1>2 DEF CallType
<1>6. CallOK(d, mine)
  BY <1>1, <1>2, <1>5 DEF CallOK
<1>7. InCalls' /\ call'[t] = d /\ \A u \in Threads \ {t} : call'[u] = call[u]
  BY <1>1, <1>3, <1>6, CallBecomes DEF Inv
<1>8. Counts'
  <2>1. ASSUME NEW p  PROVE LettingGo(call', p) = LettingGo(call, p)
    <3>1. /\ call[t].op \in Letting /\ call'[t].op \in Letting
          /\ call'[t].hs[1].object = call[t].hs[1].object
      BY <1>1, <1>5, <1>7 DEF Letting, c
    <3>2. \A u \in Threads \ {t} : call'[u] = call[u]
      BY <1>7
    <3> QED
      BY <3>1, <3>2, LettingKept
  <2> QED
    BY <1>1, <2>1, CountsKept DEF Inv
<1>9. Typed' /\ Objs' /\ Slotted'
  BY <1>1, <1>4 DEF Inv, Typed, Objs, Slotted
<1>10. \A p \in Addresses : Lasts(object[p], object'[p])
  BY <1>1 DEF Lasts
<1> QED
  BY <1>1, <1>7, <1>8, <1>9, <1>10, Settles

LEMMA ReleasesKeeps ==
  ASSUME Inv, NEW t \in Threads, Releases(t)  PROVE Inv'
<1> DEFINE o == call[t].hs[1].object
<1>1. /\ call[t].op \in {"releasing", "cancelled"} /\ object' = Released(object, o)
      /\ call' = [call EXCEPT ![t] = InTitle]
      /\ UNCHANGED <<timers, scan, pulsed, table, search, made, mine, begun, title>>
  BY DEF Releases, TableStays
<1>2. o \in Addresses
  <2>1. call[t] \in CallType /\ call[t].hs # << >>
    BY <1>1 DEF Inv, InCalls, CallOK
  <2>2. call[t].hs \in Seq(HandleType)
    BY <2>1 DEF CallType
  <2>3. call[t].hs[1] \in HandleType
    BY <2>1, <2>2
  <2> QED
    BY <2>3 DEF HandleType
<1>3. call[t].op \in Letting
  BY <1>1 DEF Letting
<1>4. object[o].refs > 0
  <2>1. Needed(o)
    BY <1>3 DEF Needed
  <2> QED
    BY <1>2, <2>1, Live DEF Inv, AllLive
<1>5. /\ object' \in [Addresses -> ObjectType]
      /\ \A p \in Addresses : /\ Shape(object'[p]) /\ Lasts(object[p], object'[p])
                              /\ object'[p].refs = object[p].refs + IF p = o THEN -1 ELSE 0
  BY <1>1, <1>2, <1>4, ReleasedIs DEF Inv, Objs
<1>6. CallOK(InTitle, mine) /\ InTitle.op = "title"
  BY BackInTitle
<1> HIDE DEF InTitle
<1>7. InCalls' /\ call'[t] = InTitle /\ \A u \in Threads \ {t} : call'[u] = call[u]
  BY <1>1, <1>6, CallBecomes DEF Inv
<1>8. ASSUME NEW p
      PROVE  /\ o = p => Cardinality(LettingGo(call', p)) = Cardinality(LettingGo(call, p)) + -1
             /\ o # p => LettingGo(call', p) = LettingGo(call, p)
  <2>1. \A u \in Threads \ {t} : call'[u] = call[u]
    BY <1>7
  <2>2. call'[t].op \notin Letting
    BY <1>6, <1>7 DEF Letting
  <2> QED
    BY <1>3, <2>1, <2>2, LettingEnds
<1>9. Counts'
  <2>1. \A p \in Addresses : object[p].refs \in Nat
    BY DEF Inv, Objs, ObjectType
  <2> DEFINE n == 0
             l == -1
  <2>2. n \in Int /\ l \in Int
    OBVIOUS
  <2>3. /\ Cardinality(Naming(mine', o)) = Cardinality(Naming(mine, o)) + n
        /\ Cardinality(Arming(timers', o)) = Cardinality(Arming(timers, o)) + n
        /\ Cardinality(LettingGo(call', o)) = Cardinality(LettingGo(call, o)) + l
        /\ object'[o].refs = object[o].refs + (n + n + l)
    <3>1. /\ Cardinality(Naming(mine', o)) = Cardinality(Naming(mine, o)) + 0
          /\ Cardinality(Arming(timers', o)) = Cardinality(Arming(timers, o)) + 0
      BY <1>1, Unchanged
    <3>2. Cardinality(LettingGo(call', o)) = Cardinality(LettingGo(call, o)) + -1
      BY <1>8
    <3>3. object'[o].refs = object[o].refs + (0 + 0 + -1)
      BY <1>2, <1>5, <2>1
    <3> QED
      BY <3>1, <3>2, <3>3
  <2>4. \A p \in Addresses \ {o} :
          /\ Cardinality(Naming(mine', p)) = Cardinality(Naming(mine, p))
          /\ Cardinality(Arming(timers', p)) = Cardinality(Arming(timers, p))
          /\ Cardinality(LettingGo(call', p)) = Cardinality(LettingGo(call, p))
          /\ object'[p].refs = object[p].refs
    <3>1. ASSUME NEW p \in Addresses \ {o}  PROVE object'[p].refs = object[p].refs
      <4>1. object'[p].refs = object[p].refs + 0 /\ object[p].refs \in Nat
        BY <1>5, <2>1
      <4> QED
        BY <4>1
    <3> QED
      BY <1>1, <1>8, <3>1
  <2> HIDE DEF n, l, o
  <2> QED
    BY <1>2, <2>2, <2>3, <2>4, Tallied
<1>10. Typed' /\ Objs' /\ Slotted'
  BY <1>1, <1>5 DEF Inv, Typed, Objs, Slotted
<1> QED
  BY <1>1, <1>5, <1>7, <1>9, <1>10, Settles

---------------------------------------------------------------------------
(* Timers *)

\* A step that changes neither handles nor calls.
LEMMA OfService ==
  ASSUME Inv, UNCHANGED handleVars, UNCHANGED <<call, pulsed>>,
         timers' \in Seq(TimerType), Len(timers') <= TimersMax, scan' \in 0..TimersMax + 1,
         Objs', Counts', \A o \in Addresses : Lasts(object[o], object'[o])
  PROVE  Inv'
<1>1. UNCHANGED <<title, table, search, made, mine, begun>>
  BY DEF handleVars
<1>2. Typed' /\ InCalls' /\ Slotted'
  BY <1>1 DEF Inv, Typed, InCalls, Slotted
<1> QED
  BY <1>1, <1>2, Settles

\* A timer by its place.
LEMMA TimerAt ==
  ASSUME Typed, NEW i \in DOMAIN timers
  PROVE  /\ timers[i] \in TimerType /\ timers[i].object \in Addresses
         /\ i \in Nat \ {0} /\ i <= Len(timers) /\ Len(timers) \in Nat /\ Len(timers) <= TimersMax
<1>1. timers[i] \in TimerType
  BY DEF Typed
<1>2. timers[i].object \in Addresses
  BY <1>1 DEF TimerType
<1> QED
  BY <1>1, <1>2 DEF Typed

\* Without a timer, its object has a reference less.
LEMMA TimerGoes ==
  ASSUME Inv, NEW i \in DOMAIN timers, timers' = Without(i), mine' = mine, call' = call,
         NEW f \in [Addresses -> ObjectType],
         \A p \in Addresses : /\ Shape(f[p]) /\ f[p].refs = object[p].refs
                              /\ f[p].kind = object[p].kind /\ f[p].serial = object[p].serial,
         object' = Released(f, timers[i].object)
  PROVE  /\ timers' \in Seq(TimerType) /\ Len(timers') <= TimersMax
         /\ Objs' /\ Counts' /\ \A p \in Addresses : Lasts(object[p], object'[p])
<1> DEFINE o == timers[i].object
<1>1. o \in Addresses /\ timers \in Seq(TimerType) /\ Len(timers) <= TimersMax
      /\ Len(timers) \in Nat
  BY TimerAt DEF Inv, Typed
<1>2. timers' = Lacking(timers, i)
  BY DEF Without, Lacking
<1>3. timers' \in Seq(TimerType) /\ Len(timers') <= TimersMax
  <2>1. timers' \in Seq(TimerType) /\ Len(timers') = Len(timers) - 1
    BY <1>1, <1>2, LackingIs
  <2> QED
    BY <1>1, <2>1, Sizes
<1>4. \A p : Cardinality(Arming(timers, p)) =
               Cardinality(Arming(timers', p)) + IF timers[i].object = p THEN 1 ELSE 0
  BY <1>1, <1>2, TimerDropped
<1>5. \A p : Cardinality(Arming(timers', p)) \in Nat
  <2>1. ASSUME NEW p  PROVE Cardinality(Arming(timers', p)) \in Nat
    <3>1. DOMAIN timers' = 1..Len(timers') /\ Len(timers') \in Nat
      BY <1>3
    <3>2. IsFiniteSet(Arming(timers', p))
      <4>1. IsFiniteSet(1..Len(timers'))
        BY <3>1, FS_Interval
      <4> QED
        BY <3>1, <4>1, FS_Subset DEF Arming
    <3> QED
      BY <3>2, FS_CardinalityType
  <2> QED
    BY <2>1
<1>6. f[o].refs > 0 /\ \A p \in Addresses : object[p].refs \in Nat
  <2>1. Needed(o)
    BY DEF Needed
  <2>2. object[o].refs > 0
    BY <1>1, <2>1, Live DEF Inv, AllLive
  <2> QED
    BY <1>1, <2>2 DEF Inv, Objs, ObjectType
<1> HIDE DEF o
<1>7. /\ object' \in [Addresses -> ObjectType]
      /\ \A p \in Addresses : /\ Shape(object'[p]) /\ Lasts(f[p], object'[p])
                              /\ object'[p].refs = f[p].refs + IF p = o THEN -1 ELSE 0
  BY <1>1, <1>6, ReleasedIs DEF o
<1>8. Objs' /\ \A p \in Addresses : Lasts(object[p], object'[p])
  BY <1>7 DEF Objs, Lasts
<1>9. Counts'
  <2> DEFINE n == 0
             a == -1
  <2>1. n \in Int /\ a \in Int
    OBVIOUS
  <2>2. /\ Cardinality(Naming(mine', o)) = Cardinality(Naming(mine, o)) + n
        /\ Cardinality(Arming(timers', o)) = Cardinality(Arming(timers, o)) + a
        /\ Cardinality(LettingGo(call', o)) = Cardinality(LettingGo(call, o)) + n
        /\ object'[o].refs = object[o].refs + (n + a + n)
    <3>1. /\ Cardinality(Naming(mine', o)) = Cardinality(Naming(mine, o)) + 0
          /\ Cardinality(LettingGo(call', o)) = Cardinality(LettingGo(call, o)) + 0
      BY Unchanged
    <3>2. Cardinality(Arming(timers', o)) = Cardinality(Arming(timers, o)) + -1
      BY <1>4, <1>5 DEF o
    <3>3. object'[o].refs = object[o].refs + (0 + -1 + 0)
      BY <1>1, <1>6, <1>7
    <3> QED
      BY <3>1, <3>2, <3>3
  <2>3. \A p \in Addresses \ {o} :
          /\ Cardinality(Naming(mine', p)) = Cardinality(Naming(mine, p))
          /\ Cardinality(Arming(timers', p)) = Cardinality(Arming(timers, p))
          /\ Cardinality(LettingGo(call', p)) = Cardinality(LettingGo(call, p))
          /\ object'[p].refs = object[p].refs
    <3>1. ASSUME NEW p \in Addresses \ {o}  PROVE object'[p].refs = object[p].refs
      <4>1. object'[p].refs = object[p].refs + 0 /\ object[p].refs \in Nat
        BY <1>6, <1>7
      <4> QED
        BY <4>1
    <3>2. ASSUME NEW p \in Addresses \ {o}
          PROVE  Cardinality(Arming(timers', p)) = Cardinality(Arming(timers, p))
      BY <1>4, <1>5 DEF o
    <3> QED
      BY <3>1, <3>2
  <2> HIDE DEF n, a
  <2> QED
    BY ZenonT(40), <1>1, <2>1, <2>2, <2>3, Tallied
<1> QED
  BY <1>3, <1>8, <1>9

\* A timer that changes stays on its object, and nothing counts otherwise.
LEMMA TimerStays ==
  ASSUME Inv, NEW i \in DOMAIN timers, NEW e \in TimerType, e.object = timers[i].object,
         timers' = [timers EXCEPT ![i] = e], mine' = mine, call' = call,
         \A p \in Addresses : object'[p].refs = object[p].refs
  PROVE  timers' \in Seq(TimerType) /\ Len(timers') <= TimersMax /\ Counts'
<1>1. timers \in Seq(TimerType) /\ Len(timers) <= TimersMax
  BY DEF Inv, Typed
<1>2. /\ timers' \in Seq(TimerType) /\ Len(timers') = Len(timers)
      /\ \A p : Arming(timers', p) = Arming(timers, p)
  BY <1>1, TimersSame
<1>3. Counts'
  BY <1>2, CountsKept DEF Inv
<1> QED
  BY <1>1, <1>2, <1>3

LEMMA DueKeeps ==
  ASSUME Inv, NEW o \in Addresses, Due(o), UNCHANGED handleVars  PROVE Inv'
<1>1. PICK i \in Armed(o) : timers' = [timers EXCEPT ![i].due = TRUE]
  BY DEF Due
<1>2. UNCHANGED <<object, scan, call, pulsed, mine>> /\ i \in DOMAIN timers
  BY <1>1 DEF Due, Armed, handleVars
<1> DEFINE e == [timers[i] EXCEPT !.due = TRUE]
<1>3. timers[i] \in TimerType /\ e = [timers[i] EXCEPT !.due = TRUE]
  BY <1>2, TimerAt DEF Inv
<1>4. timers' = [timers EXCEPT ![i] = e]
  BY <1>1, <1>2 DEF Inv, Typed
<1> HIDE DEF e
<1>5. e \in TimerType /\ e.object = timers[i].object
  BY <1>3 DEF TimerType
<1>6. timers' \in Seq(TimerType) /\ Len(timers') <= TimersMax /\ Counts'
  BY <1>2, <1>4, <1>5, TimerStays
<1>7. Objs' /\ scan' \in 0..TimersMax + 1 /\ \A p \in Addresses : Lasts(object[p], object'[p])
  BY <1>2 DEF Inv, Objs, Typed, Lasts
<1> QED
  BY <1>2, <1>6, <1>7, OfService

\* The service thread looks, and changes no timer and no object.
LEMMA LooksKeep ==
  ASSUME Inv, UNCHANGED handleVars, UNCHANGED <<object, timers, call, pulsed>>,
         scan' \in 0..TimersMax + 1
  PROVE  Inv'
<1>1. Counts'
  BY CountsKept DEF handleVars, Inv
<1>2. Objs' /\ \A p \in Addresses : Lasts(object[p], object'[p])
  BY DEF Inv, Objs, Lasts
<1>3. timers' \in Seq(TimerType) /\ Len(timers') <= TimersMax
  BY DEF Inv, Typed
<1> QED
  BY <1>1, <1>2, <1>3, OfService

LEMMA ServiceWakesKeeps ==
  ASSUME Inv, ServiceWakes, UNCHANGED handleVars  PROVE Inv'
<1>1. scan' \in 0..TimersMax + 1
  BY Sizes DEF ServiceWakes
<1> QED
  BY <1>1, LooksKeep DEF ServiceWakes

LEMMA PassByKeeps ==
  ASSUME Inv, PassBy, UNCHANGED handleVars  PROVE Inv'
<1>1. scan \in DOMAIN timers /\ scan' = scan + 1
  BY DEF PassBy
<1>2. scan' \in 0..TimersMax + 1
  BY <1>1, TimerAt, Sizes DEF Inv
<1> QED
  BY <1>2, LooksKeep DEF PassBy

LEMMA ServiceSleepsKeeps ==
  ASSUME Inv, ServiceSleeps, UNCHANGED handleVars  PROVE Inv'
<1>1. scan' \in 0..TimersMax + 1
  BY Sizes DEF ServiceSleeps
<1> QED
  BY <1>1, LooksKeep DEF ServiceSleeps

LEMMA DropClosedKeeps ==
  ASSUME Inv, DropClosed, UNCHANGED handleVars  PROVE Inv'
<1>1. /\ scan \in DOMAIN timers /\ timers' = Without(scan)
      /\ object' = Released(object, timers[scan].object) /\ UNCHANGED <<scan, call, pulsed, mine>>
  BY DEF DropClosed, handleVars
<1>2. object \in [Addresses -> ObjectType] /\ \A p \in Addresses : Shape(object[p])
  BY DEF Inv, Objs
<1>3. /\ timers' \in Seq(TimerType) /\ Len(timers') <= TimersMax
      /\ Objs' /\ Counts' /\ \A p \in Addresses : Lasts(object[p], object'[p])
  BY <1>1, <1>2, TimerGoes
<1>4. scan' \in 0..TimersMax + 1
  BY <1>1 DEF Inv, Typed
<1> QED
  BY <1>1, <1>3, <1>4, OfService

LEMMA FireKeeps ==
  ASSUME Inv, Fire, UNCHANGED handleVars  PROVE Inv'
<1> DEFINE o == timers[scan].object
           x == object[o]
           y == [x EXCEPT !.signaled = TRUE]
           set == [object EXCEPT ![o] = y]
<1>1. scan \in DOMAIN timers /\ UNCHANGED <<call, pulsed, mine>>
  BY DEF Fire, handleVars
<1>2. /\ o \in Addresses /\ timers[scan] \in TimerType
      /\ scan \in Nat /\ scan + 1 \in 0..TimersMax + 1
  BY <1>1, TimerAt, Sizes DEF Inv
<1>3. [object EXCEPT ![o].signaled = TRUE] = set
  BY <1>2 DEF Inv, Objs
<1>4. Changes(x, y)
  BY <1>2, SignalChanges DEF Inv, Objs
<1> HIDE DEF y
<1>5. /\ set \in [Addresses -> ObjectType] /\ set[o] = y
      /\ \A p \in Addresses \ {o} : set[p] = object[p]
  <2>1. y \in ObjectType
    BY <1>4 DEF Changes, Shape
  <2> QED
    BY <1>2, <2>1 DEF Inv, Objs
<1> HIDE DEF set
<1>6. \A p \in Addresses : Changes(object[p], set[p])
  BY <1>4, <1>5, NoChange DEF Inv
<1>7. CASE timers[scan].period
  <2> DEFINE e == [timers[scan] EXCEPT !.due = FALSE]
  <2>1. object' = set /\ timers' = [timers EXCEPT ![scan].due = FALSE] /\ scan' = scan + 1
    BY <1>3, <1>7 DEF Fire
  <2>2. e = [timers[scan] EXCEPT !.due = FALSE]
    OBVIOUS
  <2>3. timers' = [timers EXCEPT ![scan] = e]
    BY <1>1, <2>1 DEF Inv, Typed
  <2> HIDE DEF e
  <2>4. e \in TimerType /\ e.object = timers[scan].object
    BY <1>2, <2>2 DEF TimerType
  <2>5. \A p \in Addresses : object'[p].refs = object[p].refs
    BY <1>6, <2>1 DEF Changes
  <2>6. timers' \in Seq(TimerType) /\ Len(timers') <= TimersMax /\ Counts'
    BY <1>1, <2>3, <2>4, <2>5, TimerStays
  <2>7. Objs' /\ \A p \in Addresses : Lasts(object[p], object'[p])
    BY <1>5, <1>6, <2>1 DEF Objs, Changes, Lasts
  <2> QED
    BY <1>1, <1>2, <2>1, <2>6, <2>7, OfService
<1>8. CASE ~timers[scan].period
  <2>1. object' = Released(set, o) /\ timers' = Without(scan) /\ scan' = scan
    BY <1>3, <1>8 DEF Fire
  <2>2. \A p \in Addresses : /\ Shape(set[p]) /\ set[p].refs = object[p].refs
                             /\ set[p].kind = object[p].kind /\ set[p].serial = object[p].serial
    BY <1>6 DEF Changes
  <2>3. /\ timers' \in Seq(TimerType) /\ Len(timers') <= TimersMax
        /\ Objs' /\ Counts' /\ \A p \in Addresses : Lasts(object[p], object'[p])
    BY <1>1, <1>5, <2>1, <2>2, TimerGoes
  <2>4. scan' \in 0..TimersMax + 1
    BY <2>1 DEF Inv, Typed
  <2> QED
    BY <1>1, <2>3, <2>4, OfService
<1> QED
  BY <1>7, <1>8

\* A call of t that lets go of nothing, before and after.
LEMMA CallKeeps ==
  ASSUME Inv, mine' = mine, NEW t \in Threads, NEW c, CallOK(c, mine),
         call' = [call EXCEPT ![t] = c], call[t].op \notin Letting, c.op \notin Letting
  PROVE  InCalls' /\ \A p : LettingGo(call', p) = LettingGo(call, p)
<1>1. InCalls' /\ call'[t] = c /\ \A u \in Threads \ {t} : call'[u] = call[u]
  BY CallBecomes DEF Inv
<1>2. ASSUME NEW p  PROVE LettingGo(call', p) = LettingGo(call, p)
  <2>1. call[t].op \notin Letting /\ call'[t].op \notin Letting
    BY <1>1
  <2> QED
    BY <1>1, <2>1, LettingKept
<1> QED
  BY <1>1, <1>2

\* SetWaitableTimer arms.
LEMMA ArmsKeeps ==
  ASSUME Inv, NEW t \in Threads, Arms(t)  PROVE Inv'
<1> DEFINE o == call[t].hs[1].object
           entry == [object |-> o, due |-> FALSE, period |-> call[t].period]
<1>1. /\ call[t].op = "arming" /\ ArmTimer(o, call[t].period)
      /\ call' = [call EXCEPT ![t] = InTitle]
      /\ UNCHANGED <<scan, pulsed, table, search, made, mine, begun, title>>
  BY DEF Arms, TableStays
<1>2. call[t] \in CallType /\ call[t].hs[1] \in mine
  <2>1. /\ call[t] \in CallType /\ call[t].hs # << >>
        /\ \A k \in DOMAIN call[t].hs : call[t].hs[k] \in mine
    BY <1>1 DEF Inv, InCalls, CallOK
  <2>2. call[t].hs \in Seq(HandleType)
    BY <2>1 DEF CallType
  <2>3. 1 \in DOMAIN call[t].hs
    BY <2>1, <2>2
  <2> QED
    BY <2>1, <2>3
<1>3. o \in Addresses /\ call[t].period \in BOOLEAN
  BY <1>2, OfMine DEF Inv, CallType
<1>4. entry \in TimerType /\ entry.object = o
  BY <1>3 DEF TimerType
<1>5. InCalls' /\ \A p : LettingGo(call', p) = LettingGo(call, p)
  <2>1. CallOK(InTitle, mine) /\ InTitle.op \notin Letting /\ call[t].op \notin Letting
    BY <1>1, BackInTitle DEF Letting
  <2> HIDE DEF InTitle
  <2> QED
    BY <1>1, <2>1, CallKeeps
<1>6. /\ timers \in Seq(TimerType) /\ Len(timers) <= TimersMax /\ Len(timers) \in Nat
      /\ Arming(timers, o) = Armed(o)
  BY DEF Inv, Typed, Arming, Armed
<1>7. \/ /\ Armed(o) # {} /\ object' = object
         /\ timers' = [timers EXCEPT ![CHOOSE i \in Armed(o) : TRUE] = entry]
      \/ UNCHANGED <<timers, object>>
      \/ /\ Armed(o) = {} /\ Len(timers) # TimersMax /\ timers' = Append(timers, entry)
         /\ object' = [object EXCEPT ![o].refs = @ + 1]
  BY <1>1 DEF ArmTimer
<1> HIDE DEF entry, o
<1>8. /\ timers' \in Seq(TimerType) /\ Len(timers') <= TimersMax /\ Objs' /\ Counts'
      /\ \A p \in Addresses : Lasts(object[p], object'[p])
  <2>1. CASE Armed(o) # {} /\ object' = object
             /\ timers' = [timers EXCEPT ![CHOOSE i \in Armed(o) : TRUE] = entry]
    <3>1. PICK i \in Armed(o) : timers' = [timers EXCEPT ![i] = entry]
      BY <2>1
    <3>2. i \in DOMAIN timers /\ timers[i].object = entry.object
      BY <1>4 DEF Armed
    <3>3. /\ timers' \in Seq(TimerType) /\ Len(timers') = Len(timers)
          /\ \A p : Arming(timers', p) = Arming(timers, p)
      BY <1>4, <1>6, <3>1, <3>2, TimersSame
    <3>4. Counts'
      BY <1>1, <1>5, <2>1, <3>3, CountsKept DEF Inv
    <3> QED
      BY <1>6, <2>1, <3>3, <3>4 DEF Inv, Objs, Lasts
  <2>2. CASE UNCHANGED <<timers, object>>
    <3>1. Counts'
      BY <1>1, <1>5, <2>2, CountsKept DEF Inv
    <3> QED
      BY <1>6, <2>2, <3>1 DEF Inv, Objs, Lasts
  <2>3. CASE /\ Armed(o) = {} /\ Len(timers) # TimersMax /\ timers' = Append(timers, entry)
             /\ object' = [object EXCEPT ![o].refs = @ + 1]
    <3> DEFINE x == object[o]
               y == [x EXCEPT !.refs = x.refs + 1]
    <3>1. object' = [object EXCEPT ![o] = y] /\ y = [x EXCEPT !.refs = x.refs + 1]
      BY <1>3, <2>3 DEF Inv, Objs
    <3>2. x \in ObjectType /\ Shape(x) /\ x.refs \in Nat /\ x.kind # "free" /\ x.refs > 0
      <4>1. Needed(o)
        BY <1>2 DEF Needed, o
      <4> QED
        BY <1>3, <4>1, Live DEF Inv, AllLive, Objs, ObjectType
    <3> HIDE DEF y
    <3>3. /\ y \in ObjectType /\ y.refs = x.refs + 1 /\ y.kind = x.kind /\ y.serial = x.serial
          /\ y.owner = x.owner /\ y.depth = x.depth
      BY <3>1, <3>2 DEF ObjectType
    <3>4. Shape(y) /\ Lasts(x, y)
      BY <3>2, <3>3 DEF Shape, Lasts
    <3>5. /\ object' \in [Addresses -> ObjectType] /\ object'[o] = y
          /\ \A p \in Addresses \ {o} : object'[p] = object[p]
      BY <1>3, <3>1, <3>3 DEF Inv, Objs
    <3>6. Objs' /\ \A p \in Addresses : Lasts(object[p], object'[p])
      <4>1. \A p \in Addresses : Shape(object'[p])
        BY <3>4, <3>5 DEF Inv, Objs
      <4> QED
        BY <3>4, <3>5, <4>1 DEF Objs, Lasts
    <3>7. /\ timers' \in Seq(TimerType) /\ Len(timers') = Len(timers) + 1
          /\ \A p : Cardinality(Arming(timers', p)) =
                      Cardinality(Arming(timers, p)) + IF entry.object = p THEN 1 ELSE 0
      <4>1. timers' = Append(timers, entry)
        BY <2>3
      <4>2. Append(timers, entry) \in Seq(TimerType) /\ Len(Append(timers, entry)) = Len(timers) + 1
        BY <1>4, <1>6
      <4> QED
        BY <1>4, <1>6, <4>1, <4>2, TimerAdded
    <3>8. Len(timers') <= TimersMax
      BY <1>6, <2>3, <3>7, Sizes
    <3>9. Counts'
      <4> DEFINE n == 0
                 a == 1
      <4>1. n \in Int /\ a \in Int
        OBVIOUS
      <4>2. /\ Cardinality(Naming(mine', o)) = Cardinality(Naming(mine, o)) + n
            /\ Cardinality(Arming(timers', o)) = Cardinality(Arming(timers, o)) + a
            /\ Cardinality(LettingGo(call', o)) = Cardinality(LettingGo(call, o)) + n
            /\ object'[o].refs = object[o].refs + (n + a + n)
        <5>1. /\ Cardinality(Naming(mine', o)) = Cardinality(Naming(mine, o)) + 0
              /\ Cardinality(LettingGo(call', o)) = Cardinality(LettingGo(call, o)) + 0
          BY <1>1, <1>5, Unchanged
        <5>2. Cardinality(Arming(timers', o)) = Cardinality(Arming(timers, o)) + 1
          BY <1>4, <3>7
        <5>3. object'[o].refs = object[o].refs + (0 + 1 + 0)
          BY <3>2, <3>3, <3>5
        <5> QED
          BY <5>1, <5>2, <5>3
      <4>3. \A p \in Addresses \ {o} :
              /\ Cardinality(Naming(mine', p)) = Cardinality(Naming(mine, p))
              /\ Cardinality(Arming(timers', p)) = Cardinality(Arming(timers, p))
              /\ Cardinality(LettingGo(call', p)) = Cardinality(LettingGo(call, p))
              /\ object'[p].refs = object[p].refs
        <5>1. ASSUME NEW p \in Addresses \ {o}
              PROVE  Cardinality(Arming(timers', p)) = Cardinality(Arming(timers, p))
          <6>1. Cardinality(Arming(timers', p)) = Cardinality(Arming(timers, p)) + 0
            BY <1>4, <3>7
          <6>2. Cardinality(Arming(timers, p)) \in Nat
            BY Numbered DEF Inv, Typed
          <6> QED
            BY <6>1, <6>2
        <5> QED
          BY <1>1, <1>5, <3>5, <5>1
      <4> HIDE DEF n, a
      <4> QED
        BY <1>3, <4>1, <4>2, <4>3, Tallied
    <3> QED
      BY <3>6, <3>7, <3>8, <3>9
  <2> QED
    BY <1>7, <2>1, <2>2, <2>3
<1>9. Typed' /\ Slotted'
  BY <1>1, <1>8 DEF Inv, Typed, Slotted
<1> QED
  BY <1>1, <1>5, <1>8, <1>9, Settles

\* CancelWaitableTimer removes a timer; its reference goes after.
LEMMA CancelKeeps ==
  ASSUME Inv, NEW t \in Threads, NEW h \in mine, NtCancelTimer(t, h)  PROVE Inv'
<1> DEFINE o == h.object
           c == Call("cancelled", <<h>>)
<1>1. /\ MayCall(t, "canceltimer") /\ call[t].op = "title" /\ call[t].op \notin Letting
      /\ UNCHANGED <<object, scan, pulsed, table, search, made, mine, begun, title>>
  BY DEF NtCancelTimer, TableStays, MayCall, Letting
<1>2. o \in Addresses
  BY OfMine DEF Inv
<1>3. CASE Armed(o) = {}
  <2>1. call' = call /\ timers' = timers
    BY <1>3 DEF NtCancelTimer, DisarmTimer
  <2>2. Changes(object[o], object[o]) /\ object' = [object EXCEPT ![o] = object[o]]
    BY <1>1, <1>2, NoChange DEF Inv, Objs
  <2>3. pulsed' \subseteq Threads \X Addresses
    BY <1>1 DEF Inv, Typed
  <2> QED
    BY <1>1, <1>2, <2>1, <2>2, <2>3, AtOnce
<1>4. CASE Armed(o) # {}
  <2>1. call' = [call EXCEPT ![t] = c] /\ \E i \in Armed(o) : timers' = Without(i)
    BY <1>4 DEF NtCancelTimer, DisarmTimer
  <2>2. PICK i \in Armed(o) : timers' = Without(i)
    BY <2>1
  <2>3. i \in DOMAIN timers /\ timers[i].object = o /\ timers' = Lacking(timers, i)
    BY <2>2 DEF Armed, Without, Lacking
  <2>4. /\ timers \in Seq(TimerType) /\ Len(timers) <= TimersMax /\ Len(timers) \in Nat
    BY DEF Inv, Typed
  <2>5. CallOK(c, mine) /\ c.op = "cancelled" /\ c.hs[1] = h
    BY CallOf DEF Inv
  <2> HIDE DEF c
  <2>6. InCalls' /\ call'[t] = c /\ \A u \in Threads \ {t} : call'[u] = call[u]
    BY <1>1, <2>1, <2>5, CallBecomes DEF Inv
  <2>7. timers' \in Seq(TimerType) /\ Len(timers') <= TimersMax
    <3>1. timers' \in Seq(TimerType) /\ Len(timers') = Len(timers) - 1
      BY <2>3, <2>4, LackingIs
    <3> QED
      BY <2>4, <3>1, Sizes
  <2>8. \A p : /\ o = p => Cardinality(LettingGo(call', p)) = Cardinality(LettingGo(call, p)) + 1
               /\ o # p => LettingGo(call', p) = LettingGo(call, p)
    <3>1. call'[t].op \in Letting /\ call'[t].hs[1].object = o
      BY <2>5, <2>6 DEF Letting
    <3> QED
      BY <1>1, <2>6, <3>1, LettingBegins
  <2>9. \A p : /\ o = p => Cardinality(Arming(timers', p)) = Cardinality(Arming(timers, p)) + -1
               /\ o # p => Cardinality(Arming(timers', p)) = Cardinality(Arming(timers, p))
    <3>1. ASSUME NEW p
          PROVE  /\ o = p => Cardinality(Arming(timers', p)) = Cardinality(Arming(timers, p)) + -1
                 /\ o # p => Cardinality(Arming(timers', p)) = Cardinality(Arming(timers, p))
      <4>1. Cardinality(Arming(timers, p)) =
              Cardinality(Arming(timers', p)) + IF timers[i].object = p THEN 1 ELSE 0
        BY <2>3, <2>4, TimerDropped
      <4>2. Cardinality(Arming(timers', p)) \in Nat
        <5>1. DOMAIN timers' = 1..Len(timers') /\ Len(timers') \in Nat
          BY <2>7
        <5>2. IsFiniteSet(1..Len(timers'))
          BY <5>1, FS_Interval
        <5>3. IsFiniteSet(Arming(timers', p))
          BY <5>1, <5>2, FS_Subset DEF Arming
        <5> QED
          BY <5>3, FS_CardinalityType
      <4>3. timers[i].object = o
        BY <2>3
      <4> HIDE DEF o
      <4> QED
        BY <4>1, <4>2, <4>3
    <3> QED
      BY <3>1
  <2>10. Counts'
    <3> DEFINE n == 0
               a == -1
               l == 1
    <3>1. n \in Int /\ a \in Int /\ l \in Int
      OBVIOUS
    <3>2. /\ Cardinality(Naming(mine', o)) = Cardinality(Naming(mine, o)) + n
          /\ Cardinality(Arming(timers', o)) = Cardinality(Arming(timers, o)) + a
          /\ Cardinality(LettingGo(call', o)) = Cardinality(LettingGo(call, o)) + l
          /\ object'[o].refs = object[o].refs + (n + a + l)
      <4>1. Cardinality(Naming(mine', o)) = Cardinality(Naming(mine, o)) + 0
        BY <1>1, Unchanged
      <4>2. object'[o].refs = object[o].refs + (0 + -1 + 1)
        BY <1>1, <1>2 DEF Inv, Objs, ObjectType
      <4> QED
        BY <2>8, <2>9, <4>1, <4>2
    <3>3. \A p \in Addresses \ {o} :
            /\ Cardinality(Naming(mine', p)) = Cardinality(Naming(mine, p))
            /\ Cardinality(Arming(timers', p)) = Cardinality(Arming(timers, p))
            /\ Cardinality(LettingGo(call', p)) = Cardinality(LettingGo(call, p))
            /\ object'[p].refs = object[p].refs
      BY <1>1, <2>8, <2>9
    <3> HIDE DEF n, a, l, o
    <3> QED
      BY <1>2, <3>1, <3>2, <3>3, Tallied
  <2>11. Typed' /\ Objs' /\ Slotted' /\ \A p \in Addresses : Lasts(object[p], object'[p])
    BY <1>1, <2>7 DEF Inv, Typed, Objs, Slotted, Lasts
  <2> QED
    BY <1>1, <2>6, <2>10, <2>11, Settles
<1> QED
  BY <1>3, <1>4

---------------------------------------------------------------------------
(* Handles that come to be *)

TableType == [object : Addresses \cup {0}, async : BOOLEAN, kind : EventKinds \cup {"unknown"}]

\* A slot that is free, or that has an object which is, is no handle's.
LEMMA SlotIsFree ==
  ASSUME Inv, NEW i \in Tokens,
         table[i].object \in Addresses => object[table[i].object].kind = "free"
  PROVE  \A h \in mine : h.token # i
<1> SUFFICES ASSUME NEW h \in mine, h.token = i  PROVE FALSE
  OBVIOUS
<1>1. table[i].object = h.object /\ h.object \in Addresses
  BY OfMine DEF Inv, Slotted
<1>2. Needed(h.object)
  BY DEF Needed
<1> QED
  BY <1>1, <1>2, Live DEF Inv, AllLive

LEMMA LeastFree ==
  ASSUME Inv, FreeTokens # {}
  PROVE  Min(FreeTokens) \in Tokens /\ table[Min(FreeTokens)].object = 0
<1>1. FreeTokens \subseteq Nat
  BY Sizes DEF FreeTokens
<1>2. Min(FreeTokens) \in FreeTokens
  BY <1>1, LeastOf
<1> QED
  BY <1>2 DEF FreeTokens

LEMMA FoundSlot ==
  ASSUME Inv, NEW o \in Addresses, object[o].kind = "free", FreeTokens # {},
         NEW i \in Finding(o)
  PROVE  i \in Tokens /\ \A h \in mine : h.token # i
<1> DEFINE has == {j \in Tokens : table[j].object = o}
<1>1. CASE has # {}
  <2>1. has \subseteq Nat
    BY Sizes
  <2>2. i = Min(has)
    BY <1>1 DEF Finding
  <2> HIDE DEF has
  <2>3. i \in has
    BY <1>1, <2>1, <2>2, LeastOf
  <2>4. i \in Tokens /\ table[i].object = o
    BY <2>3 DEF has
  <2> QED
    BY <2>4, SlotIsFree
<1>2. CASE has = {}
  <2>1. i = Min(FreeTokens)
    BY <1>2 DEF Finding
  <2>2. i \in Tokens /\ table[i].object = 0
    BY <2>1, LeastFree
  <2>3. 0 \notin Addresses
    BY Sizes
  <2> QED
    BY <2>2, <2>3, SlotIsFree
<1> QED
  BY <1>1, <1>2

\* A count more of an object that lives.
More(o) == [object EXCEPT ![o].refs = @ + 1]

LEMMA MoreRefs ==
  ASSUME Objs, NEW o \in Addresses, object[o].kind # "free"
  PROVE  /\ More(o) \in [Addresses -> ObjectType]
         /\ \A p \in Addresses :
              /\ Shape(More(o)[p]) /\ More(o)[p].kind = object[p].kind
              /\ More(o)[p].serial = object[p].serial
              /\ More(o)[p].refs = object[p].refs + IF p = o THEN 1 ELSE 0
<1> DEFINE x == object[o]
           y == [x EXCEPT !.refs = x.refs + 1]
<1>1. More(o) = [object EXCEPT ![o] = y] /\ y = [x EXCEPT !.refs = x.refs + 1]
  BY DEF Objs, More
<1>2. x \in ObjectType /\ Shape(x) /\ x.refs \in Nat
  BY DEF Objs, ObjectType
<1> HIDE DEF y
<1>3. /\ y \in ObjectType /\ y.refs = x.refs + 1 /\ y.kind = x.kind /\ y.serial = x.serial
      /\ y.owner = x.owner /\ y.depth = x.depth
  BY <1>1, <1>2 DEF ObjectType
<1>4. Shape(y)
  BY <1>2, <1>3 DEF Shape
<1>5. /\ More(o) \in [Addresses -> ObjectType] /\ More(o)[o] = y
      /\ \A p \in Addresses \ {o} : More(o)[p] = object[p]
  BY <1>1, <1>3 DEF Objs
<1>6. ASSUME NEW p \in Addresses, p # o
      PROVE  /\ Shape(More(o)[p]) /\ More(o)[p].kind = object[p].kind
             /\ More(o)[p].serial = object[p].serial
             /\ More(o)[p].refs = object[p].refs + 0
  BY <1>5, <1>6 DEF Objs, ObjectType
<1> QED
  BY <1>3, <1>4, <1>5, <1>6

\* A handle the title gets has a slot that was nobody's.
LEMMA SlottedGains ==
  ASSUME Inv, NEW m \in SUBSET mine, NEW g, mine' = m \cup {g}, NEW i \in Tokens, g.token = i,
         \A h \in mine : h.token # i,
         NEW row, table' = [table EXCEPT ![i] = row],
         row.object = g.object, g.make = "file" => row.async = g.async,
         g.make \in EventKinds => row.kind = g.make
  PROVE  Slotted'
<1>1. /\ table'[i] = row /\ \A j \in Tokens \ {i} : table'[j] = table[j]
  BY DEF Inv, Typed
<1>2. \A h \in m : h.token \in Tokens /\ h.token # i /\ h \in mine
  BY OfMine DEF Inv
<1>3. ASSUME NEW h \in mine'
      PROVE  /\ table'[h.token].object = h.object
             /\ h.make = "file" => table'[h.token].async = h.async
             /\ h.make \in EventKinds => table'[h.token].kind = h.make
  <2>1. CASE h \in m
    <3>1. table'[h.token] = table[h.token] /\ h \in mine
      BY <1>1, <1>2, <2>1
    <3> QED
      BY <3>1 DEF Inv, Slotted
  <2>2. CASE h = g
    BY <1>1, <2>2
  <2> QED
    BY <2>1, <2>2
<1>4. ASSUME NEW h \in mine', NEW k \in mine', h.token = k.token  PROVE h = k
  BY <1>2, <1>4 DEF Inv, Slotted
<1> QED
  BY <1>3, <1>4 DEF Slotted

LEMMA DuplicateKeeps ==
  ASSUME Inv, NEW t \in Threads, NEW h \in mine, NEW move \in BOOLEAN,
         NtDuplicateObject(t, h, move)
  PROVE  Inv'
<1> DEFINE o == h.object
           counted == [object EXCEPT ![o].refs = @ + 1]
           m == IF move THEN mine \ {h} ELSE mine
<1>1. /\ FreeTokens # {} /\ ~InUse(h)
      /\ UNCHANGED <<timers, scan, call, pulsed, title, search, made, begun>>
      /\ \E i \in DuplicateToken(o) :
           /\ object' = IF move THEN Released(counted, o) ELSE counted
           /\ table' = [table EXCEPT ![i] = [table[h.token] EXCEPT !.object = o]]
           /\ mine' = m \cup {[h EXCEPT !.token = i]}
  BY DEF NtDuplicateObject
<1>2. PICK i \in DuplicateToken(o) :
           /\ object' = IF move THEN Released(counted, o) ELSE counted
           /\ table' = [table EXCEPT ![i] = [table[h.token] EXCEPT !.object = o]]
           /\ mine' = m \cup {[h EXCEPT !.token = i]}
  BY <1>1
<1>3. i \in Tokens /\ \A k \in mine : k.token # i
  <2>1. i = Min(FreeTokens)
    BY DEF DuplicateToken
  <2>2. i \in Tokens /\ table[i].object = 0 /\ 0 \notin Addresses
    BY <1>1, <2>1, LeastFree, Sizes
  <2> QED
    BY <2>2, SlotIsFree
<1>4. /\ o \in Addresses /\ h \in HandleType /\ h.token \in Tokens /\ table[h.token] \in TableType
      /\ table[h.token].object = o
  BY OfMine DEF Inv, Typed, Slotted, TableType
<1> DEFINE g == [h EXCEPT !.token = i]
           row == [table[h.token] EXCEPT !.object = o]
<1>5. /\ g = [h EXCEPT !.token = i] /\ row = [table[h.token] EXCEPT !.object = o]
      /\ mine' = m \cup {g} /\ table' = [table EXCEPT ![i] = row]
  BY <1>2
<1> HIDE DEF g, row
<1>6. /\ g \in HandleType /\ g.token = i /\ g.object = o /\ g.serial = h.serial
      /\ g.make = h.make /\ g.async = h.async
  BY <1>3, <1>4, <1>5 DEF HandleType
<1>7. row = table[h.token] /\ row \in TableType
  BY <1>4, <1>5 DEF TableType
<1>8. Slotted'
  <2>1. m \in SUBSET mine
    OBVIOUS
  <2>2. /\ row.object = g.object
        /\ g.make = "file" => row.async = g.async
        /\ g.make \in EventKinds => row.kind = g.make
    BY <1>4, <1>6, <1>7 DEF Inv, Slotted
  <2> HIDE DEF m
  <2> QED
    BY ZenonT(40), <1>3, <1>5, <1>6, <2>1, <2>2, SlottedGains
<1>9. IsFiniteSet(mine)
  BY DEF Inv, Typed
<1>10. g \notin m /\ IsFiniteSet(m)
  <2>1. g \notin mine
    BY <1>3, <1>6
  <2>2. IsFiniteSet(mine \ {h})
    BY <1>9, FS_RemoveElement
  <2> QED
    BY <1>9, <2>1, <2>2
<1>11. InCalls'
  <2>1. ASSUME NEW u \in Threads  PROVE CallOK(call[u], mine')
    <3>1. CallOK(call[u], m)
      BY <1>1, MineShrinks DEF Inv, InCalls
    <3>2. m \subseteq mine'
      BY <1>5
    <3> HIDE DEF m
    <3> QED
      BY <3>1, <3>2, MineGrows
  <2> QED
    BY <1>1, <2>1 DEF Inv, InCalls
<1>12. object[o].kind # "free" /\ object[o].refs > 0 /\ \A p \in Addresses : object[p].refs \in Nat
  <2>1. Needed(o)
    BY DEF Needed
  <2> QED
    BY <1>4, <2>1, Live DEF Inv, AllLive, Objs, ObjectType
<1>20. counted = More(o)
  BY DEF More
<1> HIDE DEF counted
<1>13. /\ counted \in [Addresses -> ObjectType]
       /\ \A p \in Addresses :
            /\ Shape(counted[p]) /\ counted[p].kind = object[p].kind
            /\ counted[p].serial = object[p].serial
            /\ counted[p].refs = object[p].refs + IF p = o THEN 1 ELSE 0
  <2>1. Objs /\ o \in Addresses /\ object[o].kind # "free"
    BY <1>4, <1>12 DEF Inv
  <2> HIDE DEF o
  <2> QED
    BY <1>20, <2>1, MoreRefs
<1>14. object' = IF move THEN Released(counted, o) ELSE counted
  BY <1>2 DEF counted
<1> DEFINE n == IF move THEN 0 ELSE 1
<1>15. /\ object' \in [Addresses -> ObjectType]
       /\ \A p \in Addresses : /\ Shape(object'[p]) /\ Lasts(object[p], object'[p])
                               /\ object'[p].refs = object[p].refs + IF p = o THEN n ELSE 0
  <2>1. CASE move
    <3>1. counted[o].refs > 0
      BY <1>4, <1>12, <1>13
    <3>2. /\ object' \in [Addresses -> ObjectType]
          /\ \A p \in Addresses : /\ Shape(object'[p]) /\ Lasts(counted[p], object'[p])
                                  /\ object'[p].refs = counted[p].refs + IF p = o THEN -1 ELSE 0
      BY <1>4, <1>13, <1>14, <2>1, <3>1, ReleasedIs
    <3>3. ASSUME NEW p \in Addresses
          PROVE  object'[p].refs = object[p].refs + IF p = o THEN n ELSE 0
      BY <1>12, <1>13, <2>1, <3>2
    <3>4. \A p \in Addresses : Lasts(object[p], object'[p])
      BY <1>13, <3>2 DEF Lasts
    <3> QED
      BY <3>2, <3>3, <3>4
  <2>2. CASE ~move
    BY <1>13, <1>14, <2>2 DEF Lasts
  <2> QED
    BY <2>1, <2>2
<1>16. \A p : Cardinality(Naming(mine', p)) =
                Cardinality(Naming(mine, p)) + IF o = p THEN n ELSE 0
  <2>1. ASSUME NEW p
        PROVE  Cardinality(Naming(mine', p)) = Cardinality(Naming(mine, p)) + IF o = p THEN n ELSE 0
    <3>1. Cardinality(Naming(mine', p)) = Cardinality(Naming(m, p)) + IF g.object = p THEN 1 ELSE 0
      <4> HIDE DEF m
      <4>1. Cardinality(Naming(m \cup {g}, p)) =
              Cardinality(Naming(m, p)) + IF g.object = p THEN 1 ELSE 0
        BY <1>10, NamingGains
      <4> QED
        BY <1>5, <4>1
    <3>2. Cardinality(Naming(mine, p)) =
            Cardinality(Naming(mine \ {h}, p)) + IF h.object = p THEN 1 ELSE 0
      BY <1>9, NamingLoses
    <3>3. Cardinality(Naming(m, p)) \in Nat /\ Cardinality(Naming(mine, p)) \in Nat
      <4>1. IsFiniteSet(Naming(m, p)) /\ IsFiniteSet(Naming(mine, p))
        BY <1>9, <1>10, FS_Subset DEF Naming
      <4> QED
        BY <4>1, FS_CardinalityType
    <3>4. CASE move
      <4>1. m = mine \ {h}
        BY <3>4
      <4> HIDE DEF m
      <4>2. Cardinality(Naming(mine, p)) = Cardinality(Naming(m, p)) + IF o = p THEN 1 ELSE 0
        BY <3>2, <4>1
      <4>3. Cardinality(Naming(mine', p)) = Cardinality(Naming(m, p)) + IF o = p THEN 1 ELSE 0
        BY <1>6, <3>1
      <4> HIDE DEF o
      <4> QED
        BY <3>3, <3>4, <4>2, <4>3
    <3>5. CASE ~move
      BY <1>6, <3>1, <3>5
    <3> QED
      BY <3>4, <3>5
  <2> QED
    BY <2>1
<1>17. Counts'
  <2> DEFINE a == 0
  <2>1. n \in Int /\ a \in Int
    OBVIOUS
  <2>2. \A p : /\ Cardinality(Arming(timers', p)) = Cardinality(Arming(timers, p)) + a
               /\ Cardinality(LettingGo(call', p)) = Cardinality(LettingGo(call, p)) + a
               /\ Cardinality(Naming(mine, p)) \in Nat
    BY <1>1, Unchanged, Numbered DEF Inv, Typed
  <2>3. object'[o].refs = object[o].refs + (n + a + a)
    BY <1>4, <1>12, <1>15
  <2>4. Cardinality(Naming(mine', o)) = Cardinality(Naming(mine, o)) + n
    BY <1>16
  <2> HIDE DEF n, o
  <2>5. \A p \in Addresses \ {o} :
          /\ Cardinality(Naming(mine', p)) = Cardinality(Naming(mine, p))
          /\ object'[p].refs = object[p].refs
    <3>1. ASSUME NEW p \in Addresses \ {o}
          PROVE  /\ Cardinality(Naming(mine', p)) = Cardinality(Naming(mine, p))
                 /\ object'[p].refs = object[p].refs
      <4>1. /\ Cardinality(Naming(mine', p)) = Cardinality(Naming(mine, p)) + 0
            /\ object'[p].refs = object[p].refs + 0
        BY <1>15, <1>16
      <4> QED
        BY <1>12, <2>2, <4>1
    <3> QED
      BY <3>1
  <2>6. \A p \in Addresses \ {o} :
          /\ Cardinality(Arming(timers', p)) = Cardinality(Arming(timers, p))
          /\ Cardinality(LettingGo(call', p)) = Cardinality(LettingGo(call, p))
    BY <1>1
  <2> HIDE DEF a
  <2> QED
    BY <1>4, <2>1, <2>2, <2>3, <2>4, <2>5, <2>6, Tallied
<1>18. Typed' /\ Objs'
  <2>1. mine' \subseteq HandleType
    BY <1>5, <1>6 DEF Inv, Typed
  <2>2. IsFiniteSet(mine')
    <3> HIDE DEF m
    <3> QED
      BY <1>5, <1>10, FS_AddElement
  <2>3. table' \in [Tokens -> TableType]
    BY <1>3, <1>5, <1>7 DEF Inv, Typed, TableType
  <2> QED
    BY <1>1, <1>15, <2>1, <2>2, <2>3 DEF Inv, Typed, Objs, TableType
<1>19. \A k \in mine' : \E j \in mine : j.object = k.object /\ j.serial = k.serial
  BY <1>5, <1>6
<1> QED
  BY <1>1, <1>8, <1>11, <1>15, <1>17, <1>18, <1>19, Settles

\* An object that comes to be, owned by w.
New(k, w, d) == [Object(k, made + 1) EXCEPT !.owner = w, !.depth = d]

LEMMA NewObject ==
  ASSUME made \in Nat, NEW k \in Kinds, NEW w \in Threads \cup {NoThread}, NEW d \in Nat,
         w # NoThread => d > 0
  PROVE  /\ Shape(New(k, w, d)) /\ New(k, w, d).refs = 1 /\ New(k, w, d).kind # "free"
         /\ New(k, w, d).serial = made + 1
<1> DEFINE f == [Free EXCEPT !.kind = k, !.serial = made + 1, !.refs = 1]
           y == New(k, w, d)
<1>1. /\ Free \in ObjectType /\ k \in Kinds \cup {"free"} /\ made + 1 \in Nat
  BY Sizes DEF Free, ObjectType
<1>2. /\ f = [Free EXCEPT !.kind = k, !.serial = made + 1, !.refs = 1]
      /\ y = [f EXCEPT !.owner = w, !.depth = d]
  BY DEF New, Object
<1> HIDE DEF f, y
<1>3. f \in ObjectType /\ f.kind = k /\ f.serial = made + 1 /\ f.refs = 1
  BY <1>1, <1>2 DEF ObjectType
<1>4. /\ y \in ObjectType /\ y.kind = k /\ y.serial = made + 1 /\ y.refs = 1
      /\ y.owner = w /\ y.depth = d
  BY <1>2, <1>3 DEF ObjectType
<1>5. k # "free"
  BY DEF Kinds, EventKinds
<1> QED
  BY <1>4, <1>5 DEF Shape, y

LEMMA CreateKeeps ==
  ASSUME Inv, NEW t \in Threads, NEW make \in title.makes, NEW async \in BOOLEAN,
         Create(t, make, async)
  PROVE  Inv'
<1> DEFINE o == Min(FreeAddresses)
           y == [Object(KindOf(make), made + 1) EXCEPT
                   !.owner = IF make = "mutant" THEN t ELSE NoThread,
                   !.depth = IF make = "mutant" THEN 1 ELSE 0]
<1>1. /\ FreeTokens # {} /\ FreeAddresses # {} /\ (async => make = "file") /\ made' = made + 1
      /\ UNCHANGED <<timers, scan, call, pulsed, title, search, begun>>
      /\ \E i \in Finding(o) :
           /\ object' = [object EXCEPT ![o] = y]
           /\ table' = [table EXCEPT
                ![i].object = o,
                ![i].kind = IF make \in EventKinds THEN make ELSE @,
                ![i].async = IF make = "file" THEN async ELSE @]
           /\ mine' = mine \cup {[Handle(i, o, make, async) EXCEPT !.serial = made + 1]}
  BY DEF Create
<1>2. PICK i \in Finding(o) :
           /\ object' = [object EXCEPT ![o] = y]
           /\ table' = [table EXCEPT
                ![i].object = o,
                ![i].kind = IF make \in EventKinds THEN make ELSE @,
                ![i].async = IF make = "file" THEN async ELSE @]
           /\ mine' = mine \cup {[Handle(i, o, make, async) EXCEPT !.serial = made + 1]}
  BY <1>1
<1>3. o \in Addresses /\ object[o].kind = "free"
  <2>1. FreeAddresses \subseteq Nat
    BY Sizes DEF FreeAddresses
  <2>2. o \in FreeAddresses
    BY <1>1, <2>1, LeastOf
  <2> QED
    BY <2>2 DEF FreeAddresses
<1> HIDE DEF o
<1>4. i \in Tokens /\ \A h \in mine : h.token # i
  BY <1>1, <1>3, FoundSlot
<1>5. make \in Makes /\ made \in Nat
  BY TitleIs DEF Inv, Typed
<1>6. y = [Object(KindOf(make), made + 1) EXCEPT
             !.owner = IF make = "mutant" THEN t ELSE NoThread,
             !.depth = IF make = "mutant" THEN 1 ELSE 0]
  OBVIOUS
<1>7. object' = [object EXCEPT ![o] = y]
  BY <1>2
<1> HIDE DEF y
<1>8. Shape(y) /\ y \in ObjectType /\ y.refs = 1 /\ y.kind # "free" /\ y.serial = made + 1
  <2> DEFINE k == KindOf(make)
             w == IF make = "mutant" THEN t ELSE NoThread
             d == IF make = "mutant" THEN 1 ELSE 0
  <2>1. k \in Kinds
    BY <1>5 DEF KindOf, Makes, Kinds, EventKinds
  <2>2. w \in Threads \cup {NoThread} /\ d \in Nat /\ (w # NoThread => d > 0)
    OBVIOUS
  <2>3. y = New(k, w, d)
    BY <1>6 DEF New
  <2> HIDE DEF k, w, d
  <2>4. /\ Shape(New(k, w, d)) /\ New(k, w, d).refs = 1 /\ New(k, w, d).kind # "free"
        /\ New(k, w, d).serial = made + 1
    BY <1>5, <2>1, <2>2, NewObject
  <2> QED
    BY <2>3, <2>4 DEF Shape
<1>9. /\ object' \in [Addresses -> ObjectType] /\ object'[o] = y
      /\ \A p \in Addresses \ {o} : object'[p] = object[p]
  BY <1>3, <1>7, <1>8 DEF Inv, Objs
<1> DEFINE g == [Handle(i, o, make, async) EXCEPT !.serial = made + 1]
           kind == IF make \in EventKinds THEN make ELSE table[i].kind
           row == [object |-> o, async |-> IF make = "file" THEN async ELSE table[i].async,
                   kind |-> kind]
<1>10. table' = [table EXCEPT ![i] = row] /\ row \in TableType
  <2>1. table[i] \in TableType /\ table \in [Tokens -> TableType]
    BY <1>4 DEF Inv, Typed, TableType
  <2>2. kind \in EventKinds \cup {"unknown"}
    BY <2>1 DEF TableType
  <2>3. table'[i] = row /\ DOMAIN table' = Tokens /\ \A j \in Tokens \ {i} : table'[j] = table[j]
    BY <1>2, <1>4, <2>1 DEF TableType
  <2> HIDE DEF kind
  <2>4. row \in TableType
    BY <1>3, <2>1, <2>2 DEF TableType
  <2> HIDE DEF row
  <2> QED
    BY <1>2, <1>4, <2>1, <2>3, <2>4
<1>11. /\ row.object = o /\ (make = "file" => row.async = async)
       /\ (make \in EventKinds => row.kind = make)
  OBVIOUS
<1>12. g \in HandleType /\ g.token = i /\ g.object = o /\ g.serial = made + 1 /\ g.make = make
       /\ g.async = async
  BY <1>3, <1>4, <1>5 DEF Handle, HandleType
<1>13. mine' = mine \cup {g}
  BY <1>2
<1> HIDE DEF g, row
<1>14. Slotted'
  <2>1. mine \in SUBSET mine
    OBVIOUS
  <2>2. /\ row.object = g.object
        /\ g.make = "file" => row.async = g.async
        /\ g.make \in EventKinds => row.kind = g.make
    BY <1>11, <1>12
  <2> QED
    BY <1>4, <1>10, <1>12, <1>13, <2>1, <2>2, SlottedGains
<1>15. g \notin mine /\ IsFiniteSet(mine)
  BY <1>4, <1>12 DEF Inv, Typed
<1>16. Typed' /\ Objs'
  <2>1. mine' \subseteq HandleType
    BY <1>12, <1>13 DEF Inv, Typed
  <2>2. IsFiniteSet(mine')
    BY <1>13, <1>15, FS_AddElement
  <2>3. table' \in [Tokens -> TableType]
    BY <1>4, <1>10 DEF Inv, Typed, TableType
  <2>4. made' \in Nat /\ begun' \subseteq 1..made'
    BY <1>1, <1>5 DEF Inv, Typed
  <2>5. Objs'
    BY <1>8, <1>9 DEF Inv, Objs
  <2> QED
    BY <1>1, <2>1, <2>2, <2>3, <2>4, <2>5 DEF Inv, Typed, TableType
<1>17. InCalls'
  <2>1. ASSUME NEW u \in Threads  PROVE CallOK(call[u], mine')
    <3>1. CallOK(call[u], mine) /\ mine \subseteq mine'
      BY <1>13 DEF Inv, InCalls
    <3> QED
      BY <3>1, MineGrows
  <2> QED
    BY <1>1, <2>1 DEF Inv, InCalls
<1>18. \A h \in mine : h.object \in Addresses \ {o}
  <2>1. Naming(mine, o) = {}
    BY <1>3, NewName
  <2> QED
    BY <2>1, OfMine DEF Naming, Inv
<1>19. Current'
  BY <1>8, <1>9, <1>12, <1>13, <1>18 DEF Current, Inv
<1>20. Serials'
  <2>1. ASSUME NEW p \in Addresses, object'[p].kind # "free"
        PROVE  /\ object'[p].serial \in 1..made'
               /\ \A q \in Addresses :
                    object'[q].kind # "free" /\ object'[q].serial = object'[p].serial => q = p
    <3>1. \A q \in Addresses \ {o} : object[q].kind # "free" => object[q].serial \in 1..made
      BY DEF Inv, Serials
    <3>2. \A q \in Addresses \ {o} : object'[q].kind # "free" => object'[q].serial # made + 1
      BY <1>5, <1>9, <3>1
    <3>3. CASE p = o
      BY <1>1, <1>5, <1>8, <1>9, <2>1, <3>2, <3>3
    <3>4. CASE p # o
      <4>1. object'[p] = object[p] /\ object'[o].serial # object'[p].serial
        BY <1>8, <1>9, <2>1, <3>2, <3>4
      <4>2. object'[p].serial \in 1..made'
        BY <1>1, <1>5, <2>1, <3>1, <3>4, <4>1
      <4>3. ASSUME NEW q \in Addresses, object'[q].kind # "free",
                   object'[q].serial = object'[p].serial
            PROVE  q = p
        <5>1. q # o /\ object'[q] = object[q]
          BY <1>9, <4>1, <4>3
        <5> QED
          BY <2>1, <4>1, <4>3, <5>1 DEF Inv, Serials
      <4> QED
        BY <4>2, <4>3
    <3> QED
      BY <3>3, <3>4
  <2> QED
    BY <2>1 DEF Serials
<1>21. Counts'
  <2>1. object[o].refs = 0
    BY <1>3 DEF Inv, Objs, Shape
  <2>2. \A p : Cardinality(Naming(mine', p)) =
                 Cardinality(Naming(mine, p)) + IF o = p THEN 1 ELSE 0
    <3>1. \A p : Cardinality(Naming(mine \cup {g}, p)) =
                   Cardinality(Naming(mine, p)) + IF g.object = p THEN 1 ELSE 0
      BY <1>15, NamingGains
    <3> QED
      BY <1>12, <1>13, <3>1
  <2> DEFINE n == 1
             a == 0
  <2>3. n \in Int /\ a \in Int
    OBVIOUS
  <2>4. \A p : /\ Cardinality(Arming(timers', p)) = Cardinality(Arming(timers, p)) + a
               /\ Cardinality(LettingGo(call', p)) = Cardinality(LettingGo(call, p)) + a
               /\ Cardinality(Naming(mine, p)) \in Nat
    BY <1>1, Unchanged, Numbered DEF Inv, Typed
  <2>5. object'[o].refs = object[o].refs + (n + a + a)
    BY <1>8, <1>9, <2>1
  <2>6. Cardinality(Naming(mine', o)) = Cardinality(Naming(mine, o)) + n
    BY <2>2
  <2>7. \A p \in Addresses \ {o} :
          /\ Cardinality(Naming(mine', p)) = Cardinality(Naming(mine, p))
          /\ object'[p].refs = object[p].refs
    <3>1. ASSUME NEW p \in Addresses \ {o}
          PROVE  Cardinality(Naming(mine', p)) = Cardinality(Naming(mine, p))
      <4>1. Cardinality(Naming(mine', p)) = Cardinality(Naming(mine, p)) + 0
        BY <2>2
      <4> QED
        BY <2>4, <4>1
    <3> QED
      BY <1>9, <3>1
  <2>8. \A p \in Addresses \ {o} :
          /\ Cardinality(Arming(timers', p)) = Cardinality(Arming(timers, p))
          /\ Cardinality(LettingGo(call', p)) = Cardinality(LettingGo(call, p))
    BY <1>1
  <2> HIDE DEF n, a
  <2> QED
    BY <1>3, <2>3, <2>4, <2>5, <2>6, <2>7, <2>8, Tallied
<1> QED
  BY <1>14, <1>16, <1>17, <1>19, <1>20, <1>21 DEF Inv

---------------------------------------------------------------------------
(* Every step *)

LEMMA InitKeeps ==
  Init => Inv
<1> SUFFICES ASSUME Init  PROVE Inv
  OBVIOUS
<1>1. /\ object = [o \in Addresses |-> Free] /\ timers = << >> /\ scan = 0
      /\ call = [t \in Threads |-> InTitle] /\ pulsed = {}
      /\ title \in Titles /\ table = [i \in Tokens |-> Empty]
      /\ search = [o \in Addresses |-> 0] /\ made = 0 /\ mine = {} /\ begun = {}
  BY DEF Init, HostInit
<1>2. /\ Free.kind = "free" /\ Free.refs = 0 /\ Free.owner = NoThread /\ Free \in ObjectType
  BY Sizes DEF Free, ObjectType, Kinds
<1>3. Objs
  BY <1>1, <1>2 DEF Objs, Shape
<1>4. CallOK(InTitle, mine) /\ InTitle.op = "title" /\ InTitle \in CallType
  BY BackInTitle DEF CallOK
<1> HIDE DEF InTitle
<1>5. InCalls
  BY <1>1, <1>4 DEF InCalls
<1>6. Typed
  <2>1. timers \in Seq(TimerType) /\ Len(timers) = 0
    BY <1>1
  <2>2. IsFiniteSet(mine)
    BY <1>1, FS_EmptySet
  <2>3. Empty \in TableType
    BY DEF Empty, TableType
  <2>4. table \in [Tokens -> TableType]
    BY <1>1, <2>3
  <2> QED
    BY <1>1, <2>1, <2>2, <2>4, Sizes DEF Typed, TableType
<1>7. Counts
  <2>1. ASSUME NEW o \in Addresses  PROVE object[o].refs = Counted(o)
    <3>1. Naming(mine, o) = {} /\ Arming(timers, o) = {} /\ LettingGo(call, o) = {}
      BY <1>1, <1>4 DEF Naming, Arming, LettingGo, Letting
    <3>2. Counted(o) = 0
      BY <3>1, CountedIs, FS_EmptySet
    <3> QED
      BY <1>1, <1>2, <3>2
  <2> QED
    BY <2>1 DEF Counts
<1>8. Serials
  BY <1>1, <1>2 DEF Serials
<1>9. Current /\ Slotted
  BY <1>1 DEF Current, Slotted
<1> QED
  BY <1>3, <1>5, <1>6, <1>7, <1>8, <1>9 DEF Inv

LEMMA StutterKeeps ==
  ASSUME Inv, UNCHANGED vars  PROVE Inv'
<1>1. /\ UNCHANGED <<object, timers, scan, call, pulsed>>
      /\ UNCHANGED <<title, table, search, made, mine, begun>>
  BY DEF vars, hostVars, handleVars
<1>2. Counts'
  BY <1>1, CountsKept DEF Inv
<1> QED
  BY <1>1, <1>2 DEF Inv, Typed, Objs, InCalls, Serials, Current, Slotted

LEMMA TitleKeeps ==
  ASSUME Inv, NEW t \in Threads, TitleCalls(t)  PROVE Inv'
<1>1. ASSUME NEW make \in title.makes, NEW async \in BOOLEAN, Create(t, make, async)  PROVE Inv'
  BY <1>1, CreateKeeps
<1>2. ASSUME NEW h \in mine, NtClose(t, h)  PROVE Inv'
  BY <1>2, CloseKeeps
<1>3. ASSUME NEW h \in mine, NEW move \in title.moves, NtDuplicateObject(t, h, move)  PROVE Inv'
  <2>1. move \in BOOLEAN
    BY HandlesAssumption DEF Inv, Typed, TitleOK
  <2> QED
    BY <1>3, <2>1, DuplicateKeeps
<1>4. ASSUME NEW h \in mine, ObReferenceObjectByHandle(t, h)  PROVE Inv'
  BY <1>4, AskKeeps
<1>5. ASSUME NEW h \in mine, NEW restart \in BOOLEAN, NEW ends \in BOOLEAN,
             NtQueryDirectoryFile(t, h, restart, ends)
      PROVE  Inv'
  BY <1>5, QueryKeeps
<1>6. ASSUME NEW h \in mine,
             \/ NtSetEvent(t, h) \/ NtClearEvent(t, h) \/ NtPulseEvent(t, h)
             \/ NtReleaseSemaphore(t, h) \/ NtReleaseMutant(t, h)
      PROVE  Inv'
  BY <1>6, SetKeeps, ClearKeeps, PulseKeeps, SemaphoreKeeps, MutantKeeps
<1>7. ASSUME NEW h \in mine, NEW period \in title.periods, NtSetTimerEx(t, h, period)  PROVE Inv'
  BY <1>7, SetTimerKeeps
<1>8. ASSUME NEW h \in mine, NtCancelTimer(t, h)  PROVE Inv'
  BY <1>8, CancelKeeps
<1>9. ASSUME NEW h \in mine, NEW timed \in title.timed, NtWaitForSingleObject(t, h, timed)
      PROVE  Inv'
  BY <1>9, WaitKeeps
<1>10. ASSUME NEW h \in mine, NEW timed \in title.timed, NEW g \in mine, NEW all \in title.all,
              NtWaitForMultipleObjects(t, h, g, all, timed)
       PROVE  Inv'
  BY <1>10, WaitManyKeeps
<1> QED
  BY <1>1, <1>2, <1>3, <1>4, <1>5, <1>6, <1>7, <1>8, <1>9, <1>10 DEF TitleCalls

LEMMA NextKeeps ==
  ASSUME Inv, [Next]_vars  PROVE Inv'
<1>1. CASE \E t \in Threads : TitleCalls(t)
  BY <1>1, TitleKeeps
<1>2. CASE \E t \in Threads : WaitSteps(t)
  BY <1>2, ReleasedKeeps, SampleKeeps, PollKeeps, RoundEndsKeeps DEF WaitSteps
<1>3. CASE \E t \in Threads : CallSteps(t)
  BY <1>3, FileClosingKeeps, ReleasesKeeps, ArmsKeeps, WaitReturnsKeeps DEF CallSteps
<1>4. CASE Timing
  BY <1>4, DueKeeps, ServiceWakesKeeps, DropClosedKeeps, FireKeeps, PassByKeeps,
     ServiceSleepsKeeps, TimesOutKeeps DEF Timing, ServiceSteps
<1>5. CASE UNCHANGED vars
  BY <1>5, StutterKeeps
<1> QED
  BY <1>1, <1>2, <1>3, <1>4, <1>5 DEF Next

LEMMA Always ==
  Spec => []Inv
<1>1. Inv /\ [Next]_vars => Inv'
  BY NextKeeps
<1> QED
  BY InitKeeps, <1>1, PTL DEF Spec

---------------------------------------------------------------------------
(* Directory searches *)

NothingMoves == \A x \in Titles : TRUE \notin x.moves

\* The handles that calls are closing, and all that a search may belong to.
Closing(c) == {c[t].hs[1] : t \in {u \in Threads : c[u].op = "closing"}}

Known(m, c) == m \cup Closing(c)

\* A token stands for an object as long as a handle of the title's has it; a
\* search is of a file that a handle names or a call is closing, the only one
\* that is known at its address; and it is there if it has begun.
Tokened == \A i \in Tokens : table[i].object # 0 => \E h \in mine : h.token = i

Agreed == \A h, k \in Known(mine, call) : h.object = k.object => h.serial = k.serial

Searched ==
  \A o \in Addresses : search[o] # 0 =>
    \E k \in Known(mine, call) : k.object = o /\ k.serial = search[o]

Begun == \A h \in mine : h.serial \in begun => search[h.object] = h.serial

Found == Tokened /\ Agreed /\ Searched /\ Begun

LEMMA Steady ==
  ASSUME Found, UNCHANGED <<mine, table, search, begun>>, Closing(call') = Closing(call)
  PROVE  Found'
<1>1. Known(mine', call') = Known(mine, call)
  BY DEF Known
<1>2. Tokened' /\ Begun'
  BY DEF Found, Tokened, Begun
<1>3. Agreed' /\ Searched'
  BY <1>1 DEF Found, Agreed, Searched
<1> QED
  BY <1>2, <1>3 DEF Found

\* A call that closes nothing becomes another that closes nothing.
LEMMA NotClosing ==
  ASSUME Inv, NEW t \in Threads, NEW c, call' = [call EXCEPT ![t] = c],
         call[t].op # "closing", c.op # "closing"
  PROVE  Closing(call') = Closing(call)
<1>1. call'[t] = c /\ \A u \in Threads \ {t} : call'[u] = call[u]
  BY DEF Inv, InCalls
<1>2. {u \in Threads : call'[u].op = "closing"} = {u \in Threads : call[u].op = "closing"}
  BY <1>1
<1>3. \A u \in {u \in Threads : call[u].op = "closing"} : call'[u] = call[u]
  BY <1>1
<1> QED
  BY <1>2, <1>3 DEF Closing

\* The calls that begin and end without closing.
LEMMA OpsAre ==
  \A op, hs : /\ Call(op, hs).op = op /\ InTitle.op = "title"
              /\ \A a, b : /\ [Call(op, hs) EXCEPT !.gens = a, !.timed = b].op = op
                           /\ [Call(op, hs) EXCEPT !.all = a, !.timed = b].op = op
              /\ \A a : [Call(op, hs) EXCEPT !.period = a].op = op
  BY DEF Call, InTitle

LEMMA TookSteady ==
  ASSUME Inv, Found, NEW t \in Threads, call[t].op # "closing", NEW h, Takes(t, h),
         UNCHANGED <<mine, table, search, begun>>
  PROVE  Found'
<1>1. call' = [call EXCEPT ![t] = Took(h)] /\ Took(h).op = "took"
  BY DEF Takes, WaitEnds, Took, Call
<1> HIDE DEF Took
<1>2. Closing(call') = Closing(call)
  BY <1>1, NotClosing
<1> QED
  BY <1>2, Steady

LEMMA EndedSteady ==
  ASSUME Inv, Found, NEW t \in Threads, call[t].op # "closing",
         call' = [call EXCEPT ![t] = InTitle], UNCHANGED <<mine, table, search, begun>>
  PROVE  Found'
<1>1. InTitle.op # "closing"
  BY OpsAre
<1> HIDE DEF InTitle
<1>2. Closing(call') = Closing(call)
  BY <1>1, NotClosing
<1> QED
  BY <1>2, Steady

\* Calls on objects.
LEMMA ObjectSteady ==
  ASSUME Inv, Found, NEW t \in Threads, NEW h \in mine,
         \/ ObReferenceObjectByHandle(t, h)
         \/ NtSetEvent(t, h) \/ NtClearEvent(t, h) \/ NtPulseEvent(t, h)
         \/ NtReleaseSemaphore(t, h) \/ NtReleaseMutant(t, h)
  PROVE  Found'
<1>1. UNCHANGED <<mine, table, search, begun, call>>
  BY DEF ObReferenceObjectByHandle, NtSetEvent, NtClearEvent, NtPulseEvent, NtReleaseSemaphore,
         NtReleaseMutant, OnObject, TableStays
<1> QED
  BY <1>1, Steady

LEMMA TimerSteady ==
  ASSUME Inv, Found, NEW t \in Threads, NEW h \in mine, NEW period,
         NtSetTimerEx(t, h, period) \/ NtCancelTimer(t, h)
  PROVE  Found'
<1>1. UNCHANGED <<mine, table, search, begun>> /\ call[t].op # "closing"
  BY DEF NtSetTimerEx, NtCancelTimer, OnObject, TableStays, MayCall
<1>2. CASE call' = call
  BY <1>1, <1>2, Steady
<1>3. CASE call' # call
  <2>1. \/ call' = [call EXCEPT ![t] = [Call("arming", <<h>>) EXCEPT !.period = period]]
        \/ call' = [call EXCEPT ![t] = Call("cancelled", <<h>>)]
    BY <1>3 DEF NtSetTimerEx, NtCancelTimer
  <2>2. PICK c : call' = [call EXCEPT ![t] = c] /\ c.op # "closing"
    <3> DEFINE c == Call("cancelled", <<h>>)
               d == [Call("arming", <<h>>) EXCEPT !.period = period]
    <3>1. c.op # "closing" /\ d.op # "closing"
      BY OpsAre
    <3> HIDE DEF c, d
    <3> QED
      BY <2>1, <3>1 DEF c, d
  <2>3. Closing(call') = Closing(call)
    BY <1>1, <2>2, NotClosing
  <2> QED
    BY <1>1, <2>3, Steady
<1> QED
  BY <1>2, <1>3

LEMMA WaitSteady ==
  ASSUME Inv, Found, NEW t \in Threads, NEW h \in mine, NEW g \in mine, NEW all, NEW timed,
         NtWaitForSingleObject(t, h, timed) \/ NtWaitForMultipleObjects(t, h, g, all, timed)
  PROVE  Found'
<1> DEFINE x == object[h.object]
           c == [Call("sleep", <<h>>) EXCEPT !.gens = <<x.gen>>, !.timed = timed]
           d == [Call("sample", <<h, g>>) EXCEPT !.all = all, !.timed = timed]
<1>1. UNCHANGED <<mine, table, search, begun>> /\ call[t].op # "closing"
  BY DEF NtWaitForSingleObject, NtWaitForMultipleObjects, OnObject, TableStays, MayCall
<1>2. \/ Takes(t, h)
      \/ call' = [call EXCEPT ![t] = c] \/ call' = [call EXCEPT ![t] = d]
  BY DEF NtWaitForSingleObject, NtWaitForMultipleObjects, WaitForOne, WaitForSeveral
<1>3. c.op # "closing" /\ d.op # "closing"
  BY OpsAre
<1> HIDE DEF c, d
<1>4. CASE Takes(t, h)
  BY <1>1, <1>4, TookSteady
<1>5. CASE call' = [call EXCEPT ![t] = c] \/ call' = [call EXCEPT ![t] = d]
  <2>1. Closing(call') = Closing(call)
    BY <1>1, <1>3, <1>5, NotClosing
  <2> QED
    BY <1>1, <2>1, Steady
<1> QED
  BY <1>2, <1>4, <1>5

\* The steps of a wait, and of the other calls but for the file layer's.
LEMMA LooksSteady ==
  ASSUME Inv, Found, NEW t \in Threads, WaitSteps(t)  PROVE Found'
<1> DEFINE c == call[t]
<1>1. UNCHANGED <<mine, table, search, begun>> /\ c.op \in {"sleep", "sample", "poll"}
  BY DEF WaitSteps, handleVars, WaitIsReleased, Sample, Poll, RoundEnds
<1>2. c \in CallType /\ c.op # "closing"
  BY <1>1 DEF Inv, InCalls
<1>3. ASSUME NEW d \in CallType, NEW x  PROVE [d EXCEPT !.at = x].op = d.op
  BY DEF CallType
<1>4. CASE WaitIsReleased(t)
  BY <1>1, <1>2, <1>4, TookSteady DEF WaitIsReleased
<1>5. ASSUME NEW e, call' = [call EXCEPT ![t] = e], e.op # "closing"  PROVE Found'
  <2>1. Closing(call') = Closing(call)
    BY <1>2, <1>5, NotClosing
  <2> QED
    BY <1>1, <2>1, Steady
<1>6. CASE Sample(t)
  <2> DEFINE d == [c EXCEPT !.gens = Append(@, object[c.hs[Len(@) + 1].object].gen)]
             e == IF Len(d.gens) = Len(d.hs) THEN [d EXCEPT !.op = "poll"] ELSE d
  <2>1. c.op = "sample" /\ call' = [call EXCEPT ![t] = e]
    BY <1>6 DEF Sample
  <2>2. d.op = c.op /\ [d EXCEPT !.op = "poll"].op = "poll"
    BY <1>2 DEF CallType
  <2> HIDE DEF d
  <2>3. e.op # "closing"
    BY <2>1, <2>2
  <2> HIDE DEF e
  <2> QED
    BY <1>5, <2>1, <2>3
<1>7. CASE Poll(t)
  <2> DEFINE h == c.hs[c.at]
             d == [c EXCEPT !.got = @ + 1]
             e == [c EXCEPT !.at = @ + 1]
             f == [d EXCEPT !.at = @ + 1]
  <2>1. c.op = "poll" /\ (LooksOn(t, c) \/ LooksOn(t, d) \/ Takes(t, h))
    BY <1>7 DEF Poll
  <2>2. \/ call' = [call EXCEPT ![t] = e] \/ call' = [call EXCEPT ![t] = f] \/ Takes(t, h)
    BY <2>1 DEF LooksOn
  <2>3. e.op # "closing" /\ f.op # "closing"
    BY <1>2, <2>1 DEF CallType
  <2> HIDE DEF d, e, f
  <2> QED
    BY <1>1, <1>2, <1>5, <2>2, <2>3, TookSteady
<1>8. CASE RoundEnds(t)
  <2> DEFINE l == Took(Last(c.hs))
             e == [c EXCEPT !.at = 1, !.got = 0]
  <2>1. \/ WaitEnds(t, l) \/ WaitEnds(t, InTitle)
        \/ call' = [call EXCEPT ![t].at = 1, ![t].got = 0]
    BY <1>8 DEF RoundEnds
  <2>2. l.op # "closing" /\ InTitle.op # "closing"
    BY OpsAre DEF Took
  <2>3. e.op # "closing"
    BY <1>2 DEF CallType
  <2>4. [call EXCEPT ![t].at = 1, ![t].got = 0] = [call EXCEPT ![t] = e]
    BY <1>2 DEF Inv, InCalls
  <2> HIDE DEF l, e, InTitle
  <2>5. \/ call' = [call EXCEPT ![t] = l] \/ call' = [call EXCEPT ![t] = InTitle]
        \/ call' = [call EXCEPT ![t] = e]
    BY <2>1, <2>4 DEF WaitEnds
  <2> QED
    BY <1>5, <2>2, <2>3, <2>5
<1> QED
  BY <1>4, <1>6, <1>7, <1>8 DEF WaitSteps

LEMMA CallsSteady ==
  ASSUME Inv, Found, NEW t \in Threads, Releases(t) \/ Arms(t) \/ WaitReturns(t)  PROVE Found'
<1>1. /\ UNCHANGED <<mine, table, search, begun>> /\ call[t].op # "closing"
      /\ call' = [call EXCEPT ![t] = InTitle]
  BY DEF Releases, Arms, WaitReturns, TableStays
<1> QED
  BY <1>1, EndedSteady

LEMMA TimingSteady ==
  ASSUME Inv, Found, Timing  PROVE Found'
<1>1. UNCHANGED <<mine, table, search, begun>>
  BY DEF Timing, handleVars
<1>2. CASE call' = call
  BY <1>1, <1>2, Steady
<1>3. CASE call' # call
  <2>1. PICK t \in Threads : SleepTimesOut(t)
    BY <1>3 DEF Timing, Due, ServiceWakes, ServiceSteps, DropClosed, Fire, PassBy, ServiceSleeps
  <2>2. call[t].op # "closing" /\ call' = [call EXCEPT ![t] = InTitle]
    BY <2>1 DEF SleepTimesOut, WaitEnds
  <2> QED
    BY <1>1, <2>2, EndedSteady
<1> QED
  BY <1>2, <1>3

\* A handle the title gets, of an object that a handle it has names or of one
\* that nothing is known of.
LEMMA GainsSteady ==
  ASSUME Inv, Found, UNCHANGED <<search, begun, call>>, NEW g, mine' = mine \cup {g},
         NEW i \in Tokens, g.token = i, \A j \in Tokens \ {i} : table'[j].object = table[j].object,
         \/ \E h \in mine : h.object = g.object /\ h.serial = g.serial
         \/ /\ \A k \in Known(mine, call) : k.object # g.object
            /\ g.serial \notin begun
  PROVE  Found'
<1>1. Known(mine', call') = Known(mine, call) \cup {g} /\ mine \subseteq Known(mine, call)
  BY DEF Known
<1>2. Tokened'
  BY DEF Found, Tokened
<1>3. Agreed'
  BY <1>1 DEF Found, Agreed
<1>4. Searched'
  BY <1>1 DEF Found, Searched
<1>5. Begun'
  BY DEF Found, Begun
<1> QED
  BY <1>2, <1>3, <1>4, <1>5 DEF Found

LEMMA CreateSteady ==
  ASSUME Inv, Found, NEW t \in Threads, NEW make \in title.makes, NEW async \in BOOLEAN,
         Create(t, make, async)
  PROVE  Found'
<1> DEFINE o == Min(FreeAddresses)
<1>1. /\ FreeTokens # {} /\ FreeAddresses # {} /\ UNCHANGED <<search, begun, call>>
      /\ \E i \in Finding(o) :
           /\ table' = [table EXCEPT
                ![i].object = o,
                ![i].kind = IF make \in EventKinds THEN make ELSE @,
                ![i].async = IF make = "file" THEN async ELSE @]
           /\ mine' = mine \cup {[Handle(i, o, make, async) EXCEPT !.serial = made + 1]}
  BY DEF Create
<1>2. PICK i \in Finding(o) :
           /\ table' = [table EXCEPT
                ![i].object = o,
                ![i].kind = IF make \in EventKinds THEN make ELSE @,
                ![i].async = IF make = "file" THEN async ELSE @]
           /\ mine' = mine \cup {[Handle(i, o, make, async) EXCEPT !.serial = made + 1]}
  BY <1>1
<1>3. o \in Addresses /\ object[o].kind = "free"
  <2>1. FreeAddresses \subseteq Nat
    BY Sizes DEF FreeAddresses
  <2>2. o \in FreeAddresses
    BY <1>1, <2>1, LeastOf
  <2> QED
    BY <2>2 DEF FreeAddresses
<1> HIDE DEF o
<1>4. i \in Tokens
  BY <1>1, <1>3, FoundSlot
<1>5. \A j \in Tokens \ {i} : table'[j].object = table[j].object
  BY <1>2, <1>4 DEF Inv, Typed
<1> DEFINE g == [Handle(i, o, make, async) EXCEPT !.serial = made + 1]
<1>6. g.token = i /\ g.object = o /\ g.serial = made + 1
  BY DEF Handle
<1>7. mine' = mine \cup {g}
  BY <1>2
<1> HIDE DEF g
<1>8. \A k \in Known(mine, call) : k.object # o
  <2>1. Naming(mine, o) = {} /\ LettingGo(call, o) = {}
    BY <1>3, NewName
  <2> QED
    BY <2>1 DEF Naming, LettingGo, Letting, Known, Closing
<1>9. made + 1 \notin begun
  BY DEF Inv, Typed
<1> QED
  BY <1>1, <1>4, <1>5, <1>6, <1>7, <1>8, <1>9, GainsSteady

LEMMA DuplicateSteady ==
  ASSUME Inv, Found, NEW t \in Threads, NEW h \in mine, NtDuplicateObject(t, h, FALSE)
  PROVE  Found'
<1>1. /\ FreeTokens # {} /\ UNCHANGED <<search, begun, call>>
      /\ \E i \in DuplicateToken(h.object) :
           /\ table' = [table EXCEPT ![i] = [table[h.token] EXCEPT !.object = h.object]]
           /\ mine' = mine \cup {[h EXCEPT !.token = i]}
  BY DEF NtDuplicateObject
<1>2. PICK i \in DuplicateToken(h.object) :
           /\ table' = [table EXCEPT ![i] = [table[h.token] EXCEPT !.object = h.object]]
           /\ mine' = mine \cup {[h EXCEPT !.token = i]}
  BY <1>1
<1>3. i \in Tokens
  BY <1>1, LeastFree DEF DuplicateToken
<1>4. \A j \in Tokens \ {i} : table'[j].object = table[j].object
  BY <1>2 DEF Inv, Typed
<1> DEFINE g == [h EXCEPT !.token = i]
<1>5. g.token = i /\ g.object = h.object /\ g.serial = h.serial
  BY OfMine DEF Inv, HandleType
<1>6. mine' = mine \cup {g}
  BY <1>2
<1> HIDE DEF g
<1> QED
  BY <1>1, <1>3, <1>4, <1>5, <1>6, GainsSteady

\* A handle that is closed is still known, to the call.
LEMMA CloseSteady ==
  ASSUME Inv, Found, NEW t \in Threads, NEW h \in mine, NtClose(t, h)  PROVE Found'
<1> DEFINE c == Call("closing", <<h>>)
<1>1. /\ call[t].op = "title" /\ mine' = mine \ {h} /\ call' = [call EXCEPT ![t] = c]
      /\ table' = [table EXCEPT ![h.token].object = 0, ![h.token].async = FALSE]
      /\ UNCHANGED <<search, begun>>
  BY DEF NtClose, MayCall
<1>2. c.op = "closing" /\ c.hs[1] = h
  BY CallOf DEF Inv
<1> HIDE DEF c
<1>3. call'[t] = c /\ \A u \in Threads \ {t} : call'[u] = call[u]
  BY <1>1 DEF Inv, InCalls
<1>4. Closing(call') = Closing(call) \cup {h}
  <2>1. {u \in Threads : call'[u].op = "closing"} =
          {u \in Threads : call[u].op = "closing"} \cup {t}
    BY <1>1, <1>2, <1>3
  <2>2. \A u \in {u \in Threads : call[u].op = "closing"} : call'[u] = call[u]
    BY <1>1, <1>3
  <2> QED
    BY <1>2, <1>3, <2>1, <2>2 DEF Closing
<1>5. Known(mine', call') = Known(mine, call)
  BY <1>1, <1>4 DEF Known
<1>6. Tokened'
  <2>1. h.token \in Tokens /\ table'[h.token].object = 0
    BY <1>1, OfMine DEF Inv, Typed
  <2>2. \A j \in Tokens \ {h.token} : table'[j] = table[j]
    BY <1>1 DEF Inv, Typed
  <2> QED
    BY <1>1, <2>1, <2>2 DEF Found, Tokened
<1>7. Agreed' /\ Searched'
  <2>1. Agreed'
    BY <1>5 DEF Found, Agreed
  <2>2. search' = search
    BY <1>1
  <2>3. Searched'
    BY <1>5, <2>2 DEF Found, Searched
  <2> QED
    BY <2>1, <2>3
<1>8. Begun'
  BY <1>1 DEF Found, Begun
<1> QED
  BY <1>6, <1>7, <1>8 DEF Found

\* The file layer lets go of the search unless a handle still has the file.
LEMMA LetsGoSteady ==
  ASSUME Inv, Found, NEW t \in Threads, FileClosing(t)  PROVE Found'
<1> DEFINE c == call[t]
           o == c.hs[1].object
           d == [c EXCEPT !.op = "releasing"]
<1>1. /\ c.op = "closing" /\ search' = (IF Held(o) THEN search ELSE [search EXCEPT ![o] = 0])
      /\ call' = [call EXCEPT ![t].op = "releasing"]
      /\ UNCHANGED <<table, mine, begun>>
  BY DEF FileClosing
<1>2. c \in CallType /\ c.hs # << >>
  BY <1>1 DEF Inv, InCalls, CallOK
<1>3. o \in Addresses
  <2>1. c.hs \in Seq(HandleType)
    BY <1>2 DEF CallType
  <2>2. c.hs[1] \in HandleType
    BY <1>2, <2>1
  <2> QED
    BY <2>2 DEF HandleType
<1>4. /\ call'[t].op = "releasing" /\ \A u \in Threads \ {t} : call'[u] = call[u]
  <2>1. d.op = "releasing"
    BY <1>2 DEF CallType
  <2>2. call' = [call EXCEPT ![t] = d]
    BY <1>1 DEF Inv, InCalls
  <2> HIDE DEF d
  <2> QED
    BY <2>1, <2>2 DEF Inv, InCalls
<1> HIDE DEF d
<1>5. /\ Known(mine', call') \subseteq Known(mine, call)
      /\ \A k \in Known(mine, call) : k \in Known(mine', call') \/ k = c.hs[1]
  BY <1>1, <1>4 DEF Known, Closing
<1>6. Held(o) <=> \E h \in mine : h.object = o
  <2>1. ASSUME Held(o)  PROVE \E h \in mine : h.object = o
    <3>1. PICK i \in Tokens : table[i].object = o
      BY <2>1 DEF Held
    <3>2. o # 0
      BY <1>3, Sizes
    <3>3. PICK h \in mine : h.token = i
      BY <3>1, <3>2 DEF Found, Tokened
    <3> QED
      BY <3>1, <3>3 DEF Inv, Slotted
  <2>2. ASSUME NEW h \in mine, h.object = o  PROVE Held(o)
    BY <2>2, OfMine DEF Inv, Slotted, Held
  <2> QED
    BY <2>1, <2>2
<1>7. \A p \in Addresses : /\ p = o /\ ~Held(o) => search'[p] = 0
                           /\ p # o \/ Held(o) => search'[p] = search[p]
  BY <1>1, <1>3 DEF Inv, Typed
<1> HIDE DEF o
<1>8. Tokened' /\ Agreed'
  BY <1>1, <1>5 DEF Found, Tokened, Agreed
<1>9. Begun'
  <2>1. ASSUME NEW h \in mine, h.serial \in begun  PROVE search'[h.object] = h.serial
    <3>1. h.object \in Addresses
      BY OfMine DEF Inv
    <3>2. search'[h.object] = search[h.object]
      BY <1>6, <1>7, <3>1
    <3> QED
      BY <2>1, <3>2 DEF Found, Begun
  <2> QED
    BY <1>1, <2>1 DEF Begun
<1>10. Searched'
  <2>1. ASSUME NEW p \in Addresses, search'[p] # 0
        PROVE  \E k \in Known(mine', call') : k.object = p /\ k.serial = search'[p]
    <3>1. search'[p] = search[p] /\ (p # o \/ Held(o))
      BY <1>7, <2>1
    <3>2. PICK k \in Known(mine, call) : k.object = p /\ k.serial = search[p]
      BY <2>1, <3>1 DEF Found, Searched
    <3>3. CASE p # o
      BY <1>5, <3>1, <3>2, <3>3 DEF o
    <3>4. CASE p = o
      <4>1. PICK h \in mine : h.object = o
        BY <1>6, <3>1, <3>4
      <4>2. h \in Known(mine, call) /\ h \in Known(mine', call')
        BY <1>1 DEF Known
      <4>3. h.serial = k.serial
        BY <3>2, <3>4, <4>1, <4>2 DEF Found, Agreed
      <4> QED
        BY <3>1, <3>2, <3>4, <4>1, <4>2, <4>3
    <3> QED
      BY <3>3, <3>4
  <2> QED
    BY <2>1 DEF Searched
<1> QED
  BY <1>8, <1>9, <1>10 DEF Found

LEMMA QuerySteady ==
  ASSUME Inv, Found, NEW t \in Threads, NEW h \in mine, NEW restart \in BOOLEAN,
         NEW ends \in BOOLEAN, NtQueryDirectoryFile(t, h, restart, ends)
  PROVE  Found'
<1> DEFINE o == h.object
           v == IF ends THEN 0 ELSE IF search[o] # 0 /\ ~restart THEN search[o] ELSE h.serial
<1>1. /\ UNCHANGED <<table, mine, call>> /\ search' = [search EXCEPT ![o] = v]
      /\ begun' = IF ends THEN begun \ {h.serial} ELSE begun \cup {h.serial}
  BY DEF NtQueryDirectoryFile, hostVars, Inv, Typed
<1>2. o \in Addresses
  BY OfMine DEF Inv
<1>3. search'[o] = v /\ \A p \in Addresses \ {o} : search'[p] = search[p]
  BY <1>1, <1>2 DEF Inv, Typed
<1>4. h \in Known(mine, call)
  BY DEF Known
<1>5. v = IF ends THEN 0 ELSE h.serial
  <2>1. ASSUME search[o] # 0  PROVE search[o] = h.serial
    <3>1. PICK k \in Known(mine, call) : k.object = o /\ k.serial = search[o]
      BY <1>2, <2>1 DEF Found, Searched
    <3> QED
      BY <1>4, <3>1 DEF Found, Agreed
  <2> QED
    BY <2>1
<1>6. ASSUME NEW k \in mine  PROVE k.object = o <=> k.serial = h.serial
  <2>1. k.object \in Addresses
    BY OfMine DEF Inv
  <2>2. object[k.object].kind # "free" /\ object[o].kind # "free"
    <3>1. Needed(k.object) /\ Needed(o)
      BY DEF Needed
    <3> QED
      BY <1>2, <2>1, <3>1, Live DEF Inv, AllLive
  <2> QED
    BY <1>2, <2>1, <2>2 DEF Inv, Serials, Current
<1> HIDE DEF v, o
<1>7. Tokened' /\ Agreed'
  BY <1>1 DEF Found, Tokened, Agreed
<1>8. Begun'
  <2>1. ASSUME NEW k \in mine, k.serial \in begun'  PROVE search'[k.object] = k.serial
    <3>1. k.object \in Addresses
      BY OfMine DEF Inv
    <3>2. CASE k.object = o
      BY <1>1, <1>3, <1>5, <1>6, <2>1, <3>2
    <3>3. CASE k.object # o
      <4>1. search'[k.object] = search[k.object] /\ k.serial # h.serial
        BY <1>3, <1>6, <3>1, <3>3
      <4>2. k.serial \in begun
        BY <1>1, <2>1, <4>1
      <4> QED
        BY <4>1, <4>2 DEF Found, Begun
    <3> QED
      BY <3>2, <3>3
  <2> QED
    BY <1>1, <2>1 DEF Begun
<1>9. Searched'
  <2>1. ASSUME NEW p \in Addresses, search'[p] # 0
        PROVE  \E k \in Known(mine, call) : k.object = p /\ k.serial = search'[p]
    <3>1. CASE p = o
      BY <1>3, <1>4, <1>5, <2>1, <3>1 DEF o
    <3>2. CASE p # o
      BY <1>3, <2>1, <3>2 DEF Found, Searched
    <3> QED
      BY <3>1, <3>2
  <2> QED
    BY <1>1, <2>1 DEF Searched
<1> QED
  BY <1>7, <1>8, <1>9 DEF Found

LEMMA FoundKeeps ==
  ASSUME NothingMoves, Inv, Found, [Next]_vars  PROVE Found'
<1>1. ASSUME NEW t \in Threads, TitleCalls(t)  PROVE Found'
  <2>1. ASSUME NEW make \in title.makes, NEW async \in BOOLEAN, Create(t, make, async)
        PROVE  Found'
    BY <2>1, CreateSteady
  <2>2. ASSUME NEW h \in mine, NtClose(t, h)  PROVE Found'
    BY <2>2, CloseSteady
  <2>3. ASSUME NEW h \in mine, NEW move \in title.moves, NtDuplicateObject(t, h, move)
        PROVE  Found'
    <3>1. move = FALSE
      BY HandlesAssumption DEF NothingMoves, Inv, Typed, TitleOK
    <3> QED
      BY <2>3, <3>1, DuplicateSteady
  <2>4. ASSUME NEW h \in mine, NEW restart \in BOOLEAN, NEW ends \in BOOLEAN,
               NtQueryDirectoryFile(t, h, restart, ends)
        PROVE  Found'
    BY <2>4, QuerySteady
  <2>5. ASSUME NEW h \in mine,
               \/ ObReferenceObjectByHandle(t, h)
               \/ NtSetEvent(t, h) \/ NtClearEvent(t, h) \/ NtPulseEvent(t, h)
               \/ NtReleaseSemaphore(t, h) \/ NtReleaseMutant(t, h)
        PROVE  Found'
    BY <2>5, ObjectSteady
  <2>6. ASSUME NEW h \in mine, NEW period, NtSetTimerEx(t, h, period) \/ NtCancelTimer(t, h)
        PROVE  Found'
    BY <2>6, TimerSteady
  <2>7. ASSUME NEW h \in mine, NEW g \in mine, NEW all, NEW timed,
               \/ NtWaitForSingleObject(t, h, timed)
               \/ NtWaitForMultipleObjects(t, h, g, all, timed)
        PROVE  Found'
    BY <2>7, WaitSteady
  <2> QED
    BY <1>1, <2>1, <2>2, <2>3, <2>4, <2>5, <2>6, <2>7 DEF TitleCalls
<1>2. ASSUME NEW t \in Threads, CallSteps(t)  PROVE Found'
  BY <1>2, LetsGoSteady, CallsSteady DEF CallSteps
<1>3. CASE UNCHANGED vars
  <2>1. UNCHANGED <<mine, table, search, begun, call>>
    BY <1>3 DEF vars, hostVars, handleVars
  <2> QED
    BY <2>1, Steady
<1> QED
  BY <1>1, <1>2, <1>3, LooksSteady, TimingSteady DEF Next

LEMMA FoundAtFirst ==
  Init => Found
<1> SUFFICES ASSUME Init  PROVE Found
  OBVIOUS
<1>1. /\ mine = {} /\ search = [o \in Addresses |-> 0] /\ table = [i \in Tokens |-> Empty]
      /\ call = [t \in Threads |-> InTitle]
  BY DEF Init, HostInit
<1>2. Closing(call) = {}
  <2>1. \A t \in Threads : call[t].op = "title"
    BY <1>1, OpsAre
  <2> QED
    BY <2>1 DEF Closing
<1> QED
  BY <1>1, <1>2 DEF Found, Tokened, Agreed, Searched, Begun, Known, Empty

---------------------------------------------------------------------------
(* What is taken *)

\* An object is of the kind that the title's handles were made for.
Kindly == \A h \in mine : object[h.object].kind = KindOf(h.make)

NotLess(x, y) == y.serial = x.serial => ~(Units(y) < Units(x))

Reported(o) ==
  \/ \E t \in Threads : /\ call'[t].op = "took"
                        /\ call'[t] # call[t]
                        /\ call'[t].hs[1].object = o
  \/ Gathers(o)
  \/ AsksUntold(o)

LEMMA TwoFlags ==
  IsFiniteSet({"signal", "pulse"})
<1>1. IsFiniteSet({"signal"}) /\ {"signal", "pulse"} = {"signal"} \cup {"pulse"}
  BY FS_Singleton
<1> QED
  BY <1>1, FS_AddElement

LEMMA UnitsType ==
  ASSUME NEW x \in ObjectType
  PROVE  Units(x) \in Nat
<1> DEFINE S == {b \in {"signal", "pulse"} : IF b = "signal" THEN x.signaled ELSE x.pulse}
<1>1. IsFiniteSet({"signal", "pulse"})
  BY TwoFlags
<1>2. Cardinality(S) \in Nat
  BY <1>1, FS_Subset, FS_CardinalityType
<1> HIDE DEF S
<1>3. CASE x.kind = "auto"
  BY <1>2, <1>3 DEF Units, S
<1>4. CASE x.kind = "semaphore"
  BY <1>4, Sizes DEF Units, ObjectType
<1>5. CASE x.kind \notin {"auto", "semaphore"}
  BY <1>5 DEF Units
<1> QED
  BY <1>3, <1>4, <1>5

\* Nothing is taken from an object that is the same, or that only signals or
\* counts more, or that has come to be.
LEMMA SameUnits ==
  ASSUME NEW x \in ObjectType, NEW y, y.kind = x.kind, y.signaled = x.signaled,
         y.pulse = x.pulse, y.count = x.count, y.owner = x.owner
  PROVE  NotLess(x, y)
<1>1. Units(y) = Units(x)
  BY DEF Units
<1>2. Units(x) \in Nat
  BY UnitsType
<1> QED
  BY <1>1, <1>2 DEF NotLess

LEMMA FreeUnits ==
  ASSUME NEW x, x.kind \notin {"auto", "semaphore", "mutex"}, NEW y \in ObjectType
  PROVE  NotLess(x, y)
<1>1. Units(x) = 0
  BY DEF Units
<1>2. Units(y) \in Nat
  BY UnitsType
<1> QED
  BY <1>1, <1>2 DEF NotLess

LEMMA SetUnits ==
  ASSUME NEW x \in ObjectType
  PROVE  NotLess(x, [x EXCEPT !.signaled = TRUE])
<1> DEFINE y == [x EXCEPT !.signaled = TRUE]
           S(z) == {b \in {"signal", "pulse"} : IF b = "signal" THEN z.signaled ELSE z.pulse}
<1>1. /\ y.kind = x.kind /\ y.signaled = TRUE /\ y.pulse = x.pulse /\ y.count = x.count
      /\ y.owner = x.owner
  BY DEF ObjectType
<1> HIDE DEF y
<1>2. CASE x.kind = "auto"
  <2>1. IsFiniteSet({"signal", "pulse"})
    BY TwoFlags
  <2>2. IsFiniteSet(S(y))
    BY <2>1, FS_Subset
  <2>3. S(x) \subseteq S(y)
    BY <1>1
  <2> DEFINE X == S(x)
             Y == S(y)
  <2>4. Units(x) = Cardinality(X) /\ Units(y) = Cardinality(Y)
    BY <1>1, <1>2 DEF Units
  <2>5. IsFiniteSet(Y) /\ X \subseteq Y
    BY <2>2, <2>3
  <2> HIDE DEF X, Y
  <2>6. Cardinality(X) \in Nat /\ Cardinality(Y) \in Nat /\ Cardinality(X) <= Cardinality(Y)
    BY <2>5, FS_Subset, FS_CardinalityType
  <2> QED
    BY <2>4, <2>6 DEF NotLess, y
<1>3. CASE x.kind # "auto"
  <2>1. Units(y) = Units(x)
    BY <1>1, <1>3 DEF Units
  <2> QED
    BY <2>1, UnitsType DEF NotLess, y
<1> QED
  BY <1>2, <1>3

LEMMA CountUnits ==
  ASSUME NEW x \in ObjectType, x.kind = "semaphore"
  PROVE  NotLess(x, [x EXCEPT !.count = IF @ < SemaphoreMax THEN @ + 1 ELSE @])
<1> DEFINE n == IF x.count < SemaphoreMax THEN x.count + 1 ELSE x.count
           y == [x EXCEPT !.count = n]
<1>1. x.count \in Nat
  BY Sizes DEF ObjectType
<1>2. n \in Nat /\ x.count <= n
  BY <1>1
<1>3. y.kind = x.kind /\ y.count = n
  BY DEF ObjectType
<1> HIDE DEF n
<1>4. Units(x) = x.count /\ Units(y) = n
  BY <1>3 DEF Units
<1>5. ~(Units(y) < Units(x))
  BY <1>1, <1>2, <1>4
<1> QED
  BY <1>5 DEF NotLess, n

LEMMA OwnerUnits ==
  ASSUME NEW x \in ObjectType, x.kind = "mutex", NEW d, NEW w, w \in {x.owner, NoThread}
  PROVE  NotLess(x, [x EXCEPT !.depth = d, !.owner = w])
<1> DEFINE y == [x EXCEPT !.depth = d, !.owner = w]
<1>1. y.kind = x.kind /\ y.owner = w
  BY DEF ObjectType
<1>2. Units(x) = (IF x.owner = NoThread THEN 1 ELSE 0) /\ Units(y) = IF w = NoThread THEN 1 ELSE 0
  BY <1>1 DEF Units
<1>3. ~(Units(y) < Units(x))
  BY <1>2
<1> QED
  BY <1>3 DEF NotLess

\* What is released has been an object, or is as it was.
LEMMA ReleasedUnits ==
  ASSUME NEW f \in [Addresses -> ObjectType], NEW o \in Addresses, NEW p \in Addresses,
         f[p].kind # "free" => f[p].serial # 0
  PROVE  NotLess(f[p], Released(f, o)[p])
<1> DEFINE x == f[o]
           r == x.refs - 1
           y == [x EXCEPT !.refs = r]
<1>1. CASE p # o
  <2>1. Released(f, o)[p] = f[p]
    BY <1>1 DEF Released
  <2> QED
    BY <2>1, SameUnits
<1>2. CASE p = o /\ x.refs > 1
  <2>1. Released(f, o)[o] = y
    BY <1>2 DEF Released
  <2>2. /\ y.kind = x.kind /\ y.signaled = x.signaled /\ y.pulse = x.pulse /\ y.count = x.count
        /\ y.owner = x.owner
    BY DEF ObjectType
  <2> HIDE DEF y
  <2>3. NotLess(x, y)
    BY <2>2, SameUnits
  <2> QED
    BY <1>2, <2>1, <2>3
<1>3. CASE p = o /\ ~(x.refs > 1)
  <2>1. Released(f, o)[o] = Free /\ Free.serial = 0 /\ Free \in ObjectType
    BY <1>3, Sizes DEF Released, Free, ObjectType
  <2>2. CASE x.kind = "free"
    BY <1>3, <2>1, <2>2, FreeUnits
  <2>3. CASE x.kind # "free"
    BY <1>3, <2>1, <2>3 DEF NotLess
  <2> QED
    BY <2>2, <2>3
<1> QED
  BY <1>1, <1>2, <1>3

---------------------------------------------------------------------------
(* What each step does to the objects *)

\* No object is of another kind, unless it is freed, and nothing is taken of
\* it that is not cleared or reported.
Fairly ==
  \A o \in Addresses : /\ Lasts(object[o], object'[o])
                       /\ NotLess(object[o], object'[o]) \/ Clears \/ Reported(o)

LEMMA NoObject ==
  ASSUME Objs, object' = object
  PROVE  Fairly
<1>1. ASSUME NEW o \in Addresses
      PROVE  Lasts(object[o], object'[o]) /\ NotLess(object[o], object'[o])
  BY SameUnits DEF Objs, Lasts
<1> QED
  BY <1>1 DEF Fairly

LEMMA OneObject ==
  ASSUME Objs, NEW o \in Addresses, NEW y, object' = [object EXCEPT ![o] = y],
         Changes(object[o], y), NotLess(object[o], y) \/ Clears \/ Reported(o)
  PROVE  Fairly
<1>1. ASSUME NEW p \in Addresses, p # o
      PROVE  Lasts(object[p], object'[p]) /\ NotLess(object[p], object'[p])
  <2>1. object'[p] = object[p] /\ object[p] \in ObjectType
    BY <1>1 DEF Objs
  <2> QED
    BY <2>1, SameUnits DEF Lasts
<1>2. object'[o] = y
  BY DEF Objs
<1> QED
  BY <1>1, <1>2 DEF Fairly, Changes, Lasts

LEMMA TakesFairly ==
  ASSUME Inv, NEW t \in Threads, NEW h \in mine, NEW gen, Ready(object[h.object], t, gen),
         Takes(t, h), call[t].op # "took"
  PROVE  Fairly
<1> DEFINE o == h.object
           c == Took(h)
<1>1. o \in Addresses /\ object[o] \in ObjectType /\ Shape(object[o])
  BY OfMine DEF Inv
<1>2. c.op = "took" /\ c.hs[1] = h
  BY DEF Took, Call
<1>3. call' = [call EXCEPT ![t] = c] /\ object' = [object EXCEPT ![o] = Taken(@, t)]
  BY DEF Takes, WaitEnds
<1> HIDE DEF c
<1>4. call'[t] = c
  BY <1>3 DEF Inv, InCalls
<1>5. Reported(o)
  BY <1>2, <1>4 DEF Reported
<1>6. Changes(object[o], Taken(object[o], t))
  BY <1>1, TakenChanges
<1>7. object' = [object EXCEPT ![o] = Taken(object[o], t)]
  BY <1>1, <1>3 DEF Inv, Objs
<1> HIDE DEF o
<1> QED
  BY <1>1, <1>5, <1>6, <1>7, OneObject DEF Inv

LEMMA AskFairly ==
  ASSUME Inv, Kindly, NEW t \in Threads, NEW h \in mine,
         ObReferenceObjectByHandle(t, h)
  PROVE  Fairly
<1> DEFINE x == object[h.object]
           asks == table[h.token].kind = "manual" /\ Ready(x, t, x.gen)
<1>1. h.object \in Addresses /\ Shape(x) /\ x \in ObjectType
  BY OfMine DEF Inv
<1>2. CASE ~asks
  BY <1>2, NoObject DEF ObReferenceObjectByHandle, Inv
<1>3. CASE asks
  <2>1. object' = [object EXCEPT ![h.object] = Taken(x, t)]
    BY <1>1, <1>3 DEF ObReferenceObjectByHandle, Inv, Objs
  <2>2. Changes(x, Taken(x, t))
    BY <1>1, <1>3, TakenChanges
  <2>3. h.make \notin EventKinds => AsksUntold(h.object)
    BY DEF AsksUntold
  <2>4. ASSUME h.make \in EventKinds  PROVE NotLess(x, Taken(x, t))
    <3>1. h.make = "manual"
      BY <1>3, <2>4 DEF Inv, Slotted
    <3>2. x.kind = "manual"
      BY <3>1 DEF Kindly, KindOf
    <3>3. Taken(x, t) \in ObjectType
      BY <2>2 DEF Changes, Shape
    <3> QED
      BY <3>2, <3>3, FreeUnits
  <2>5. NotLess(x, Taken(x, t)) \/ Reported(h.object)
    BY <2>3, <2>4 DEF Reported
  <2> HIDE DEF x
  <2> QED
    BY <1>1, <2>1, <2>2, <2>5, OneObject DEF Inv, x
<1> QED
  BY <1>2, <1>3

LEMMA SignalsFairly ==
  ASSUME Inv, NEW t \in Threads, NEW h \in mine,
         \/ NtSetEvent(t, h) \/ NtClearEvent(t, h) \/ NtPulseEvent(t, h)
         \/ \E period \in BOOLEAN : NtSetTimerEx(t, h, period)
  PROVE  Fairly
<1> DEFINE o == h.object
           x == object[o]
           set == [x EXCEPT !.signaled = TRUE]
           clear == [x EXCEPT !.signaled = FALSE]
           pulse == [x EXCEPT !.signaled = FALSE, !.gen = x.gen + 1, !.pulse = TRUE]
<1>1. o \in Addresses /\ Shape(x) /\ x \in ObjectType
  BY OfMine DEF Inv
<1>2. Changes(x, set) /\ Changes(x, clear) /\ (x.gen < PulsesMax => Changes(x, pulse))
  BY <1>1, SignalChanges
<1>3. NotLess(x, set)
  BY <1>1, SetUnits
<1>4. CASE NtSetEvent(t, h)
  <2>1. object' = [object EXCEPT ![o] = set]
    BY <1>1, <1>4 DEF NtSetEvent, SetEvent, Inv, Objs
  <2> HIDE DEF o, set
  <2> QED
    BY <1>1, <1>2, <1>3, <2>1, OneObject DEF Inv
<1>5. CASE NtClearEvent(t, h) \/ \E period \in BOOLEAN : NtSetTimerEx(t, h, period)
  <2>1. object' = [object EXCEPT ![o] = clear]
    BY <1>1, <1>5 DEF NtClearEvent, NtSetTimerEx, ResetEvent, Inv, Objs
  <2>2. Clears
    BY <1>5 DEF Clears
  <2> HIDE DEF o, clear
  <2> QED
    BY <1>1, <1>2, <2>1, <2>2, OneObject DEF Inv
<1>6. CASE NtPulseEvent(t, h)
  <2>1. object' = [object EXCEPT ![o] = pulse] /\ x.gen < PulsesMax
    BY <1>1, <1>6 DEF NtPulseEvent, PulseEvent, Inv, Objs
  <2>2. Clears
    BY <1>6 DEF Clears
  <2> HIDE DEF o, pulse
  <2> QED
    BY <1>1, <1>2, <2>1, <2>2, OneObject DEF Inv
<1> QED
  BY <1>4, <1>5, <1>6

LEMMA SemaphoreFairly ==
  ASSUME Inv, NEW t \in Threads, NEW h \in mine, NtReleaseSemaphore(t, h)
  PROVE  Fairly
<1> DEFINE o == h.object
           x == object[o]
           y == [x EXCEPT !.count = IF @ < SemaphoreMax THEN @ + 1 ELSE @]
<1>1. o \in Addresses /\ Shape(x) /\ x \in ObjectType /\ x.kind = "semaphore"
  BY OfMine DEF Inv, NtReleaseSemaphore
<1>2. Changes(x, y)
  <2>1. y = [x EXCEPT !.count = IF x.count < SemaphoreMax THEN x.count + 1 ELSE x.count]
    OBVIOUS
  <2> QED
    BY <1>1, <2>1, SignalChanges
<1>3. NotLess(x, y)
  BY <1>1, CountUnits
<1>4. object' = [object EXCEPT ![o] = y]
  BY <1>1 DEF NtReleaseSemaphore, ReleaseSemaphore, Inv, Objs
<1> HIDE DEF o, y
<1> QED
  BY <1>1, <1>2, <1>3, <1>4, OneObject DEF Inv

LEMMA MutantFairly ==
  ASSUME Inv, NEW t \in Threads, NEW h \in mine, NtReleaseMutant(t, h)
  PROVE  Fairly
<1> DEFINE o == h.object
           x == object[o]
           w == IF x.depth > 1 THEN t ELSE NoThread
           y == [x EXCEPT !.depth = x.depth - 1, !.owner = w]
<1>1. o \in Addresses /\ Shape(x) /\ x \in ObjectType /\ x.kind = "mutex"
  BY OfMine DEF Inv, NtReleaseMutant
<1>2. CASE x.owner # t
  BY <1>2, NoObject DEF NtReleaseMutant, ReleaseMutex, Inv
<1>3. CASE x.owner = t
  <2>1. object' = [object EXCEPT ![o] = y]
    BY <1>1, <1>3 DEF NtReleaseMutant, ReleaseMutex, Inv, Objs
  <2>2. x.depth \in Nat /\ x.depth > 0
    BY <1>1, <1>3, HostObjectsAssumption DEF Shape, ObjectType
  <2>3. x.depth - 1 \in Nat /\ w \in {x.owner, NoThread} /\ w \in Threads \cup {NoThread}
        /\ (w # NoThread => x.depth - 1 > 0)
    BY <1>3, <2>2
  <2> HIDE DEF w
  <2>4. NotLess(x, y)
    BY <1>1, <2>3, OwnerUnits
  <2>5. y.depth = x.depth - 1 /\ y.owner = w /\ y.kind = x.kind /\ y.refs = x.refs
        /\ y.serial = x.serial /\ y \in ObjectType
    BY <1>1, <2>3 DEF ObjectType
  <2> HIDE DEF y, o
  <2>6. Changes(x, y)
    BY <1>1, <2>3, <2>5 DEF Shape, Changes
  <2> QED
    BY <1>1, <2>1, <2>4, <2>6, OneObject DEF Inv
<1> QED
  BY <1>2, <1>3

\* One reference more or less.
LEMMA MoreFairly ==
  ASSUME Inv, NEW o \in Addresses, object[o].kind # "free", object' = More(o)
  PROVE  Fairly
<1>1. ASSUME NEW p \in Addresses
      PROVE  Lasts(object[p], object'[p]) /\ NotLess(object[p], object'[p])
  <2>1. object'[p].kind = object[p].kind /\ object'[p].serial = object[p].serial
    BY MoreRefs DEF Inv
  <2>2. /\ object'[p].signaled = object[p].signaled /\ object'[p].pulse = object[p].pulse
        /\ object'[p].count = object[p].count /\ object'[p].owner = object[p].owner
    BY DEF More, Inv, Objs, ObjectType
  <2>3. object[p] \in ObjectType
    BY DEF Inv, Objs
  <2> QED
    BY <2>1, <2>2, <2>3, SameUnits DEF Lasts
<1> QED
  BY <1>1 DEF Fairly

LEMMA Numerals ==
  ASSUME Inv, NEW p \in Addresses, object[p].kind # "free"
  PROVE  object[p].serial # 0
  BY DEF Inv, Serials, Typed

LEMMA LessFairly ==
  ASSUME Inv, NEW f \in [Addresses -> ObjectType], NEW o \in Addresses, f[o].refs > 0,
         \A p \in Addresses : /\ Shape(f[p]) /\ f[p].kind = object[p].kind
                              /\ f[p].serial = object[p].serial
                              /\ NotLess(object[p], f[p]),
         object' = Released(f, o)
  PROVE  Fairly
<1>1. ASSUME NEW p \in Addresses
      PROVE  Lasts(object[p], object'[p]) /\ NotLess(object[p], object'[p])
  <2>1. Lasts(f[p], object'[p]) /\ object'[p] \in ObjectType
    BY ReleasedIs
  <2>2. NotLess(f[p], object'[p])
    <3>1. f[p].kind # "free" => f[p].serial # 0
      BY Numerals
    <3> QED
      BY <3>1, ReleasedUnits
  <2>3. Units(object[p]) \in Nat /\ Units(f[p]) \in Nat /\ Units(object'[p]) \in Nat
    BY <2>1, UnitsType DEF Inv, Objs
  <2>4. NotLess(object[p], object'[p])
    BY <2>2, <2>3 DEF NotLess
  <2> QED
    BY <2>1, <2>4 DEF Lasts
<1> QED
  BY <1>1 DEF Fairly

LEMMA DuplicateFairly ==
  ASSUME Inv, NEW t \in Threads, NEW h \in mine, NEW move \in BOOLEAN,
         NtDuplicateObject(t, h, move)
  PROVE  Fairly
<1> DEFINE o == h.object
<1>1. o \in Addresses /\ object' = IF move THEN Released(More(o), o) ELSE More(o)
  BY OfMine DEF NtDuplicateObject, More, Inv
<1>2. object[o].kind # "free" /\ object[o].refs > 0 /\ object[o].refs \in Nat
  <2>1. Needed(o)
    BY DEF Needed
  <2> QED
    BY <1>1, <2>1, Live DEF Inv, AllLive
<1> HIDE DEF o
<1>3. CASE ~move
  BY <1>1, <1>2, <1>3, MoreFairly
<1>4. CASE move
  <2> DEFINE f == More(o)
  <2>1. /\ f \in [Addresses -> ObjectType] /\ f[o].refs > 0
        /\ \A p \in Addresses : /\ Shape(f[p]) /\ f[p].kind = object[p].kind
                                /\ f[p].serial = object[p].serial
    BY <1>1, <1>2, MoreRefs DEF Inv
  <2>2. ASSUME NEW p \in Addresses  PROVE NotLess(object[p], f[p])
    <3>1. /\ f[p].signaled = object[p].signaled /\ f[p].pulse = object[p].pulse
          /\ f[p].count = object[p].count /\ f[p].owner = object[p].owner
      BY DEF More, Inv, Objs, ObjectType
    <3>2. object[p] \in ObjectType /\ f[p].kind = object[p].kind
      BY <2>1 DEF Inv, Objs
    <3> QED
      BY <3>1, <3>2, SameUnits
  <2>3. object' = Released(f, o)
    BY <1>1, <1>4
  <2> HIDE DEF f
  <2> QED
    BY <1>1, <2>1, <2>2, <2>3, LessFairly
<1> QED
  BY <1>3, <1>4

\* An object is released as it is.
LEMMA ReleasedFairly ==
  ASSUME Inv, NEW o \in Addresses, Needed(o), object' = Released(object, o)
  PROVE  Fairly
<1>1. /\ object \in [Addresses -> ObjectType]
      /\ \A p \in Addresses : Shape(object[p]) /\ NotLess(object[p], object[p])
  BY SameUnits DEF Inv, Objs
<1>2. object[o].refs > 0
  BY Live DEF Inv, AllLive
<1> QED
  BY <1>1, <1>2, LessFairly

LEMMA CallsFairly ==
  ASSUME Inv, NEW t \in Threads, CallSteps(t)
  PROVE  Fairly
<1>1. CASE FileClosing(t) \/ WaitReturns(t)
  BY <1>1, NoObject DEF FileClosing, WaitReturns, Inv
<1> DEFINE o == call[t].hs[1].object
<1>2. call[t].op \in Letting \cup {"arming"} => o \in Addresses
  <2>1. ASSUME call[t].op \in Letting \cup {"arming"}  PROVE o \in Addresses
    <3>1. call[t] \in CallType /\ call[t].hs # << >>
      BY <2>1 DEF Inv, InCalls, CallOK, Letting
    <3>2. call[t].hs \in Seq(HandleType)
      BY <3>1 DEF CallType
    <3>3. call[t].hs[1] \in HandleType
      BY <3>1, <3>2
    <3> QED
      BY <3>3 DEF HandleType
  <2> QED
    BY <2>1
<1>3. CASE Releases(t)
  <2>1. call[t].op \in Letting /\ object' = Released(object, o)
    BY <1>3 DEF Releases, Letting
  <2>2. Needed(o)
    BY <2>1 DEF Needed
  <2> HIDE DEF o
  <2> QED
    BY <1>2, <2>1, <2>2, ReleasedFairly
<1>4. CASE Arms(t)
  <2>1. call[t].op = "arming" /\ (object' = object \/ object' = More(o))
    BY <1>4 DEF Arms, ArmTimer, More
  <2>2. Needed(o)
    <3>1. call[t].hs # << >> /\ call[t].hs \in Seq(HandleType)
          /\ \A k \in DOMAIN call[t].hs : call[t].hs[k] \in mine
      BY <2>1 DEF Inv, InCalls, CallOK, CallType
    <3>2. call[t].hs[1] \in mine
      BY <3>1
    <3> QED
      BY <3>2 DEF Needed
  <2>3. object[o].kind # "free"
    BY <1>2, <2>1, <2>2, Live DEF Inv, AllLive
  <2> HIDE DEF o
  <2> QED
    BY <1>2, <2>1, <2>3, NoObject, MoreFairly DEF Inv
<1> QED
  BY <1>1, <1>3, <1>4 DEF CallSteps

LEMMA TimingFairly ==
  ASSUME Inv, Timing
  PROVE  Fairly
<1>1. CASE object' = object
  BY <1>1, NoObject DEF Inv
<1> DEFINE o == timers[scan].object
<1>2. scan \in DOMAIN timers => o \in Addresses /\ Needed(o)
  BY TimerAt DEF Inv, Needed
<1>3. CASE DropClosed
  <2>1. object' = Released(object, o) /\ o \in Addresses /\ Needed(o)
    BY <1>2, <1>3 DEF DropClosed
  <2> HIDE DEF o
  <2> QED
    BY <2>1, ReleasedFairly
<1>4. CASE Fire
  <2> DEFINE x == object[o]
             y == [x EXCEPT !.signaled = TRUE]
             set == [object EXCEPT ![o] = y]
  <2>1. o \in Addresses /\ Needed(o) /\ x \in ObjectType /\ Shape(x)
    BY <1>2, <1>4 DEF Fire, Inv, Objs
  <2>2. object' = set \/ object' = Released(set, o)
    <3>1. [object EXCEPT ![o].signaled = TRUE] = set
      BY <2>1 DEF Inv, Objs
    <3> QED
      BY <1>4, <3>1 DEF Fire
  <2>3. Changes(x, y) /\ NotLess(x, y)
    BY <2>1, SignalChanges, SetUnits
  <2>4. x.refs > 0
    BY <2>1, Live DEF Inv, AllLive
  <2> HIDE DEF y, o
  <2>5. CASE object' = set
    BY <2>1, <2>3, <2>5, OneObject DEF Inv
  <2>6. CASE object' = Released(set, o)
    <3>1. y \in ObjectType
      BY <2>3 DEF Changes, Shape
    <3>2. /\ set \in [Addresses -> ObjectType] /\ set[o] = y
          /\ \A p \in Addresses \ {o} : set[p] = object[p]
      BY <2>1, <3>1 DEF Inv, Objs
    <3> HIDE DEF set
    <3>3. ASSUME NEW p \in Addresses
          PROVE  /\ Shape(set[p]) /\ set[p].kind = object[p].kind
                 /\ set[p].serial = object[p].serial /\ NotLess(object[p], set[p])
      <4>1. CASE p = o
        BY <2>3, <3>2, <4>1 DEF Changes
      <4>2. CASE p # o
        BY <3>2, <4>2, SameUnits DEF Inv, Objs
      <4> QED
        BY <4>1, <4>2
    <3>4. set[o].refs > 0
      BY <2>3, <2>4, <3>2 DEF Changes
    <3> QED
      BY <2>1, <2>6, <3>2, <3>3, <3>4, LessFairly
  <2> QED
    BY <2>2, <2>5, <2>6
<1> QED
  BY <1>1, <1>3, <1>4 DEF Timing, ServiceSteps, Due, ServiceWakes, PassBy, ServiceSleeps,
                          SleepTimesOut

\* Looks of waits.
LEMMA LooksFairly ==
  ASSUME Inv, NEW t \in Threads, WaitSteps(t)
  PROVE  Fairly
<1> DEFINE c == call[t]
<1>1. CASE WaitIsReleased(t)
  <2>1. c.op = "sleep" /\ Ready(object[c.hs[1].object], t, c.gens[1]) /\ Takes(t, c.hs[1])
    BY <1>1 DEF WaitIsReleased
  <2>2. c.hs[1] \in mine /\ c.op # "took"
    BY <2>1, InWait
  <2> QED
    BY <2>1, <2>2, TakesFairly
<1>2. CASE Sample(t) \/ RoundEnds(t)
  BY <1>2, NoObject DEF Sample, RoundEnds, Inv
<1>3. CASE Poll(t)
  <2> DEFINE h == c.hs[c.at]
             x == object[h.object]
             ready == Ready(x, t, c.gens[c.at])
  <2>1. c.op = "poll" /\ c.at <= Len(c.hs)
    BY <1>3 DEF Poll
  <2>2. h \in mine /\ c.op # "took"
    <3>1. /\ c.at \in Nat \ {0} /\ Len(c.hs) \in Nat \ {0}
          /\ \A k \in 1..Len(c.hs) : c.hs[k] \in mine
      BY <2>1, InWait
    <3>2. c.at \in 1..Len(c.hs)
      BY <2>1, <3>1
    <3> QED
      BY <2>1, <3>1, <3>2
  <2>3. CASE ~ready
    <3>1. object' = object
      BY <1>3, <2>3 DEF Poll
    <3> QED
      BY <3>1, NoObject DEF Inv
  <2>4. CASE ready /\ ~c.all
    <3>1. Takes(t, h)
      BY <1>3, <2>4 DEF Poll
    <3> QED
      BY <2>2, <2>4, <3>1, TakesFairly
  <2>5. CASE ready /\ c.all
    <3>1. h.object \in Addresses /\ Shape(x) /\ x \in ObjectType
      BY <2>2, OfMine DEF Inv
    <3>2. Changes(x, Taken(x, t))
      BY <2>5, <3>1, TakenChanges
    <3>3. object' = [object EXCEPT ![h.object] = Taken(x, t)]
      BY <1>3, <2>5, <3>1 DEF Poll, Inv, Objs
    <3>4. Gathers(h.object)
      <4> DEFINE d == [c EXCEPT !.got = @ + 1]
                 e == [d EXCEPT !.at = @ + 1]
      <4>1. call' = [call EXCEPT ![t] = e]
        BY <1>3, <2>5 DEF Poll, LooksOn
      <4>2. c \in CallType
        BY DEF Inv, InCalls
      <4>3. e.got = c.got + 1
        BY <4>2 DEF CallType
      <4> HIDE DEF d, e
      <4>4. call'[t] = e
        BY <4>1 DEF Inv, InCalls
      <4> QED
        BY <2>1, <2>5, <4>3, <4>4 DEF Gathers
    <3>5. Reported(h.object)
      BY <3>4 DEF Reported
    <3> HIDE DEF x, h
    <3> QED
      BY <3>1, <3>2, <3>3, <3>5, OneObject DEF Inv, x
  <2> QED
    BY <2>3, <2>4, <2>5
<1> QED
  BY <1>1, <1>2, <1>3 DEF WaitSteps

---------------------------------------------------------------------------
(* Objects keep their kinds *)

\* The handles after a step are handles before it, or duplicates of them.
Kept == \A h \in mine' : \E g \in mine : g.object = h.object /\ g.make = h.make

LEMMA KindlyKept ==
  ASSUME Inv, Inv', Kindly, Fairly, Kept
  PROVE  Kindly'
<1>1. ASSUME NEW h \in mine'  PROVE object'[h.object].kind = KindOf(h.make)
  <2>1. h.object \in Addresses
    BY DEF Inv, Typed, HandleType
  <2>2. (object[h.object].kind # "free")'
    <3>1. AllLive'
      <4>1. (Typed /\ Objs /\ Counts)'
        BY DEF Inv
      <4> QED
        BY <4>1, Live, PTL
    <3> QED
      BY <2>1, <3>1 DEF AllLive, Needed
  <2>3. object'[h.object].kind = object[h.object].kind
    BY <2>1, <2>2 DEF Fairly, Lasts
  <2>4. PICK g \in mine : g.object = h.object /\ g.make = h.make
    BY DEF Kept
  <2>5. object[g.object].kind = KindOf(g.make)
    BY DEF Kindly
  <2> QED
    BY <2>3, <2>4, <2>5
<1> QED
  BY <1>1 DEF Kindly

LEMMA SameKept ==
  mine' = mine => Kept
  BY DEF Kept

LEMMA CreateKindly ==
  ASSUME Inv, Kindly, NEW t \in Threads, NEW make \in title.makes, NEW async \in BOOLEAN,
         Create(t, make, async)
  PROVE  Kindly' /\ \A p \in Addresses : NotLess(object[p], object'[p])
<1> DEFINE o == Min(FreeAddresses)
           y == New(KindOf(make), IF make = "mutant" THEN t ELSE NoThread,
                    IF make = "mutant" THEN 1 ELSE 0)
<1>1. /\ FreeAddresses # {} /\ object' = [object EXCEPT ![o] = y]
      /\ \E i \in Finding(o) :
           mine' = mine \cup {[Handle(i, o, make, async) EXCEPT !.serial = made + 1]}
  BY DEF Create, New
<1>2. o \in Addresses /\ object[o].kind = "free"
  <2>1. FreeAddresses \subseteq Nat
    BY Sizes DEF FreeAddresses
  <2>2. o \in FreeAddresses
    BY <1>1, <2>1, LeastOf
  <2> QED
    BY <2>2 DEF FreeAddresses
<1>3. y.kind = KindOf(make) /\ y \in ObjectType
  <2> DEFINE k == KindOf(make)
             w == IF make = "mutant" THEN t ELSE NoThread
             d == IF make = "mutant" THEN 1 ELSE 0
  <2>1. k \in Kinds
    BY TitleIs DEF KindOf, Makes, Kinds, EventKinds, Inv
  <2>2. w \in Threads \cup {NoThread} /\ d \in Nat /\ (w # NoThread => d > 0) /\ made \in Nat
    BY DEF Inv, Typed
  <2> HIDE DEF k, w, d
  <2>3. Shape(New(k, w, d))
    BY <2>1, <2>2, NewObject
  <2>4. New(k, w, d).kind = k
    BY DEF New, Object, Free
  <2> QED
    BY <2>3, <2>4 DEF Shape, k, w, d
<1> HIDE DEF o, y
<1>4. object'[o] = y /\ \A p \in Addresses \ {o} : object'[p] = object[p]
  BY <1>1, <1>2 DEF Inv, Objs
<1>5. ASSUME NEW h \in mine'  PROVE object'[h.object].kind = KindOf(h.make)
  <2>1. CASE h \in mine
    <3>1. h.object \in Addresses /\ object[h.object].kind # "free"
      <4>1. h.object \in Addresses /\ Needed(h.object)
        BY <2>1, OfMine DEF Needed, Inv
      <4> QED
        BY <4>1, Live DEF Inv, AllLive
    <3>2. object'[h.object] = object[h.object]
      BY <1>2, <1>4, <3>1
    <3> QED
      BY <2>1, <3>2 DEF Kindly
  <2>2. CASE h \notin mine
    <3>1. PICK i : h = [Handle(i, o, make, async) EXCEPT !.serial = made + 1]
      BY <1>1, <2>2
    <3>2. h.object = o /\ h.make = make
      BY <3>1 DEF Handle
    <3> QED
      BY <1>3, <1>4, <3>2
  <2> QED
    BY <2>1, <2>2
<1>6. ASSUME NEW p \in Addresses  PROVE NotLess(object[p], object'[p])
  <2>1. CASE p = o
    BY <1>2, <1>3, <1>4, <2>1, FreeUnits
  <2>2. CASE p # o
    BY <1>4, <2>2, SameUnits DEF Inv, Objs
  <2> QED
    BY <2>1, <2>2
<1> QED
  BY <1>5, <1>6 DEF Kindly

LEMMA TitleFairly ==
  ASSUME Inv, Kindly, NEW t \in Threads, TitleCalls(t),
         ~\E make \in title.makes, async \in BOOLEAN : Create(t, make, async)
  PROVE  Fairly /\ Kept
<1>1. ASSUME NEW h \in mine, NtClose(t, h)  PROVE Fairly /\ Kept
  <2>1. object' = object /\ mine' = mine \ {h}
    BY <1>1 DEF NtClose
  <2> QED
    BY <2>1, NoObject DEF Kept, Inv
<1>2. ASSUME NEW h \in mine, NEW move \in title.moves, NtDuplicateObject(t, h, move)
      PROVE  Fairly /\ Kept
  <2>1. move \in BOOLEAN
    BY HandlesAssumption DEF Inv, Typed, TitleOK
  <2>2. Fairly
    BY <1>2, <2>1, DuplicateFairly
  <2>3. PICK i : mine' = (IF move THEN mine \ {h} ELSE mine) \cup {[h EXCEPT !.token = i]}
    BY <1>2 DEF NtDuplicateObject
  <2>4. [h EXCEPT !.token = i].object = h.object /\ [h EXCEPT !.token = i].make = h.make
    BY OfMine DEF HandleType, Inv
  <2> QED
    BY <2>2, <2>3, <2>4 DEF Kept
<1>3. ASSUME NEW h \in mine, ObReferenceObjectByHandle(t, h)  PROVE Fairly /\ Kept
  BY <1>3, AskFairly, SameKept DEF ObReferenceObjectByHandle, TableStays
<1>4. ASSUME NEW h \in mine, NEW restart \in BOOLEAN, NEW ends \in BOOLEAN,
             NtQueryDirectoryFile(t, h, restart, ends)
      PROVE  Fairly /\ Kept
  BY <1>4, NoObject, SameKept DEF NtQueryDirectoryFile, hostVars, Inv
<1>5. ASSUME NEW h \in mine, NtSetEvent(t, h) \/ NtClearEvent(t, h) \/ NtPulseEvent(t, h)
      PROVE  Fairly /\ Kept
  BY <1>5, SignalsFairly, SameKept DEF NtSetEvent, NtClearEvent, NtPulseEvent, OnObject, TableStays
<1>6. ASSUME NEW h \in mine, NtReleaseSemaphore(t, h) \/ NtReleaseMutant(t, h)
      PROVE  Fairly /\ Kept
  BY <1>6, SemaphoreFairly, MutantFairly, SameKept
     DEF NtReleaseSemaphore, NtReleaseMutant, OnObject, TableStays
<1>7. ASSUME NEW h \in mine, NEW period \in title.periods, NtSetTimerEx(t, h, period)
      PROVE  Fairly /\ Kept
  <2>1. period \in BOOLEAN
    BY TitleIs DEF Inv
  <2> QED
    BY <1>7, <2>1, SignalsFairly, SameKept DEF NtSetTimerEx, OnObject, TableStays
<1>8. ASSUME NEW h \in mine, NtCancelTimer(t, h)  PROVE Fairly /\ Kept
  BY <1>8, NoObject, SameKept DEF NtCancelTimer, TableStays, Inv
<1>9. ASSUME NEW h \in mine, NEW timed, NtWaitForSingleObject(t, h, timed)
      PROVE  Fairly /\ Kept
  <2> DEFINE x == object[h.object]
  <2>1. mine' = mine /\ call[t].op # "took"
    BY <1>9 DEF NtWaitForSingleObject, OnObject, TableStays, MayCall
  <2>2. CASE Ready(x, t, x.gen)
    <3>1. Takes(t, h)
      BY <1>9, <2>2 DEF NtWaitForSingleObject, WaitForOne
    <3> QED
      BY <2>1, <2>2, <3>1, TakesFairly, SameKept
  <2>3. CASE ~Ready(x, t, x.gen)
    <3>1. object' = object
      BY <1>9, <2>3 DEF NtWaitForSingleObject, WaitForOne
    <3> QED
      BY <2>1, <3>1, NoObject, SameKept DEF Inv
  <2> QED
    BY <2>2, <2>3
<1>10. ASSUME NEW h \in mine, NEW g \in mine, NEW all \in title.all, NEW timed,
              NtWaitForMultipleObjects(t, h, g, all, timed)
       PROVE  Fairly /\ Kept
  BY <1>10, NoObject, SameKept
     DEF NtWaitForMultipleObjects, WaitForSeveral, OnObject, TableStays, Inv
<1> QED
  BY <1>1, <1>2, <1>3, <1>4, <1>5, <1>6, <1>7, <1>8, <1>9, <1>10 DEF TitleCalls

LEMMA NextTakes ==
  ASSUME Inv, Kindly, [Next]_vars
  PROVE  /\ Kindly'
         /\ \A o \in Addresses : NotLess(object[o], object'[o]) \/ Clears \/ Reported(o)
<1>1. ASSUME Fairly, Kept
      PROVE  Kindly' /\ \A o \in Addresses : NotLess(object[o], object'[o]) \/ Clears \/ Reported(o)
  BY <1>1, NextKeeps, KindlyKept DEF Fairly
<1>2. CASE \E t \in Threads, make \in title.makes, async \in BOOLEAN : Create(t, make, async)
  BY <1>2, CreateKindly
<1>3. CASE /\ \E t \in Threads : TitleCalls(t)
           /\ ~\E t \in Threads, make \in title.makes, async \in BOOLEAN : Create(t, make, async)
  BY <1>1, <1>3, TitleFairly
<1>4. CASE \E t \in Threads : WaitSteps(t)
  BY <1>1, <1>4, LooksFairly, SameKept DEF WaitSteps, handleVars
<1>5. CASE \E t \in Threads : CallSteps(t)
  BY <1>1, <1>5, CallsFairly, SameKept DEF CallSteps, FileClosing, Releases, Arms, WaitReturns,
                                            TableStays
<1>6. CASE Timing
  BY <1>1, <1>6, TimingFairly, SameKept DEF Timing, handleVars
<1>7. CASE UNCHANGED vars
  BY <1>1, <1>7, NoObject, SameKept DEF vars, hostVars, handleVars, Inv
<1> QED
  BY <1>2, <1>3, <1>4, <1>5, <1>6, <1>7 DEF Next

---------------------------------------------------------------------------
(* The theorems *)

\* The state keeps its type; a semaphore is never above its maximum, the
\* timers never more than there is room for.
THEOREM TypeCorrect ==
  Spec => []TypeOK
<1>1. Inv => TypeOK
  BY DEF Inv, Typed, Objs, InCalls, TypeOK, TimerType
<1> QED
  BY Always, <1>1, PTL

\* An object lives exactly as long as a handle, an armed timer or a call of
\* the title's needs it, and each handle names its own object, with what it
\* was opened as, in a slot of its own: however many threads close, duplicate,
\* arm and cancel, and wherever the timer thread is in its scan.
THEOREM HandlesAreExact ==
  Spec => []HandlesExact
<1>1. Inv => HandlesExact
  BY DEF Inv, Counts, Current, Slotted, HandlesExact
<1> QED
  BY Always, <1>1, PTL

\* Unless a title moves a handle when it duplicates it, a search is of the file
\* it was begun on: the close of one handle of several does not end it, and the
\* close of the last does, before another file can be at the same address.
THEOREM SearchesFollow ==
  ASSUME NothingMoves
  PROVE  Spec => []SearchFollows
<1>1. Inv /\ Found /\ [Next]_vars => Found'
  BY FoundKeeps
<1>2. Inv /\ Found => SearchFollows
  <2> SUFFICES ASSUME Inv, Found  PROVE SearchFollows
    OBVIOUS
  <2>1. ASSUME NEW h \in mine, search[h.object] # 0  PROVE search[h.object] = h.serial
    <3>1. h.object \in Addresses /\ h \in Known(mine, call)
      BY OfMine DEF Inv, Known
    <3>2. PICK k \in Known(mine, call) : k.object = h.object /\ k.serial = search[h.object]
      BY <2>1, <3>1 DEF Found, Searched
    <3> QED
      BY <3>1, <3>2 DEF Found, Agreed
  <2> QED
    BY <2>1 DEF SearchFollows, Found, Begun
<1> QED
  BY Always, FoundAtFirst, <1>1, <1>2, PTL DEF Spec

\* Whatever the title makes, asks and waits for, what is taken from an object
\* is what a wait returns with, or what a wait for all counts in its round;
\* an ask takes at most from what has no kind of its own, and so never the
\* signal of an automatic event.
THEOREM TakenAreReported ==
  Spec => TakenIsReported
<1>1. Init => Kindly
  BY DEF Init, Kindly
<1>2. Inv /\ Kindly /\ [Next]_vars => Kindly'
  BY NextTakes
<1>3. Inv /\ Kindly /\ [Next]_vars
      => [\A o \in Addresses :
            /\ object'[o].serial = object[o].serial
            /\ Units(object'[o]) < Units(object[o])
            => \/ Clears
               \/ \E t \in Threads : /\ call'[t].op = "took"
                                     /\ call'[t] # call[t]
                                     /\ call'[t].hs[1].object = o
               \/ Gathers(o)
               \/ AsksUntold(o)]_vars
  BY NextTakes DEF NotLess, Reported
<1> QED
  BY Always, <1>1, <1>2, <1>3, PTL DEF Spec, TakenIsReported

=============================================================================
