------------------------- MODULE GuestEventsProofs -------------------------
(***************************************************************************)
(* What holds of the guest events for every number of threads and events,  *)
(* whatever lists the threads wait on.                                     *)
(***************************************************************************)
EXTENDS GuestEvents, TLAPS

---------------------------------------------------------------------------
(* The inductive invariant *)

\* A thread waits on what it was told to wait on; only the three places of a
\* single wait, of a scan and of the taking after it have their own kinds.
Listed(t) ==
  Waiting(t) =>
    \/ kind[t] = "one" /\ \E e \in OneWaits[t] : objs[t] = <<e>>
    \/ kind[t] = "any" /\ objs[t] \in AnyWaits[t]
    \/ kind[t] = "all" /\ objs[t] \in AllWaits[t]

Placed(t) ==
  /\ pc[t] \in {"look", "take", "generation"} => kind[t] = "one"
  /\ pc[t] = "scan" => kind[t] # "one"
  /\ pc[t] = "taking" => kind[t] = "all"

\* A call in progress has returned nothing yet, and one that is to wake the
\* waiters is about the one event.
Unfinished(t) ==
  /\ pc[t] # "idle" => result[t] = "none"
  /\ pc[t] = "waking" => \E e \in Events : objs[t] = <<e>>
  /\ ~Waiting(t) => idx[t] = 1

Shape ==
  /\ TypeOK
  /\ idx \in [Threads -> Nat]
  /\ \A t \in Threads : Listed(t) /\ Placed(t) /\ Unfinished(t)

\* The history of a wait has every object that is signalled or being set now,
\* and nothing but its objects.
Seen(t) ==
  Waiting(t) =>
    /\ lit[t] \subseteq Range(objs[t])
    /\ \A e \in Range(objs[t]) : state[e] = 1 \/ BeingSet(e) => e \in lit[t]

\* The ground on which each place may go on to success, and a finished wait
\* has its own.
Grounds(t) ==
  /\ Waiting(t) /\ moved[t] => lit[t] # {}
  /\ pc[t] = "clock" /\ kind[t] = "all" => idx[t] = 1
  /\ pc[t] = "scan" /\ kind[t] = "all" =>
       \A j \in 1..(idx[t] - 1) : objs[t][j] \in lit[t]
  /\ pc[t] = "taking" => Range(objs[t]) \subseteq lit[t]

Earned(t) ==
  result[t] = "success" =>
    /\ lit[t] # {}
    /\ kind[t] = "all" => lit[t] = Range(objs[t])

Reasons == \A t \in Threads : Seen(t) /\ Grounds(t) /\ Earned(t)

EventsInv == Shape /\ Reasons

---------------------------------------------------------------------------
(* The objects of a wait *)

LEMMA RangeOfOne ==
  ASSUME NEW e
  PROVE  Range(<<e>>) = {e} /\ Len(<<e>>) = 1 /\ <<e>>[1] = e
  BY DEF Range

LEMMA InRange ==
  ASSUME NEW s \in Seq(Events)
  PROVE  /\ Range(s) \subseteq Events
         /\ \A i \in 1..Len(s) : s[i] \in Range(s) /\ s[i] \in Events
         /\ \A e \in Range(s) : \E i \in 1..Len(s) : s[i] = e
         /\ s # << >> => Range(s) # {}
  <1>1. s # << >> => s[1] \in Range(s)
    BY DEF Range
  <1> QED  BY <1>1 DEF Range

\* The lists a thread may wait on are lists of events, and not empty.
LEMMA ListsAreEvents ==
  ASSUME NEW t \in Threads
  PROVE  /\ \A e \in OneWaits[t] : <<e>> \in Seq(Events) /\ Len(<<e>>) = 1
         /\ \A s \in AnyWaits[t] \cup AllWaits[t] :
              s \in Seq(Events) /\ Len(s) \in Nat /\ Len(s) >= 1
  <1>1. OneWaits[t] \subseteq Events
    BY GuestEventsAssumption
  <1>2. \A s \in AnyWaits[t] \cup AllWaits[t] : s \in Seq(Events) /\ s # << >>
    BY GuestEventsAssumption
  <1>3. \A s \in Seq(Events) : s # << >> => Len(s) \in Nat /\ Len(s) >= 1
    OBVIOUS
  <1> QED  BY <1>1, <1>2, <1>3

\* A place of the list that is not the last has one after it.
LEMMA InBounds ==
  ASSUME Shape, NEW t \in Threads, pc[t] # "idle"
  PROVE  /\ idx[t] \in 1..Len(objs[t])
         /\ Len(objs[t]) \in Nat
         /\ Obj(t) \in Events
         /\ Obj(t) \in Range(objs[t])
         /\ 1 \in 1..Len(objs[t])
         /\ ~Last(t) => idx[t] + 1 \in 1..Len(objs[t])
  <1>1. objs[t] \in Seq(Events) /\ Len(objs[t]) \in Nat
    BY DEF Shape, TypeOK
  <1>2. idx[t] \in 1..Len(objs[t])
    BY DEF Shape, TypeOK
  <1>3. Obj(t) \in Events /\ Obj(t) \in Range(objs[t])
    BY <1>1, <1>2, InRange DEF Obj
  <1> QED  BY <1>1, <1>2, <1>3 DEF Last

---------------------------------------------------------------------------
(* The shape of the calls is kept *)

\* A step of t that touches the calls of others in nothing but their history
\* keeps the shape if it leaves t itself in shape.
OnlyCallOf(t) ==
  /\ pc' \in [Threads -> Pcs]
  /\ kind' \in [Threads -> {"one", "any", "all"}]
  /\ objs' \in [Threads -> Seq(Events)]
  /\ idx' \in [Threads -> Nat]
  /\ limit' \in [Threads -> {Poll, Timed, Forever}]
  /\ result' \in [Threads -> {"none", "success", "timeout"}]
  /\ \A u \in Threads \ {t} :
       /\ pc'[u] = pc[u] /\ kind'[u] = kind[u] /\ objs'[u] = objs[u]
       /\ idx'[u] = idx[u] /\ result'[u] = result[u]

EventsTyped ==
  /\ state \in [Events -> 0..1]
  /\ host \in [Events -> BOOLEAN]
  /\ tokens \in [Events -> Int]
  /\ moved \in [Threads -> BOOLEAN]
  /\ lit \in [Threads -> SUBSET Events]

LEMMA ShapeByOne ==
  ASSUME Shape, NEW t \in Threads, OnlyCallOf(t), EventsTyped',
         pc'[t] # "idle" => idx'[t] \in 1..Len(objs'[t]),
         Listed(t)', Placed(t)', Unfinished(t)'
  PROVE  Shape'
  <1>1. \A u \in Threads : pc'[u] # "idle" => idx'[u] \in 1..Len(objs'[u])
    BY DEF Shape, TypeOK, OnlyCallOf
  <1>2. TypeOK'
    BY <1>1 DEF OnlyCallOf, EventsTyped, TypeOK
  <1>3. ASSUME NEW u \in Threads PROVE Listed(u)' /\ Placed(u)' /\ Unfinished(u)'
    <2>1. CASE u = t
      BY <2>1
    <2>2. CASE u # t
      <3>1. Listed(u) /\ Placed(u) /\ Unfinished(u)
        BY DEF Shape
      <3>2. /\ pc'[u] = pc[u] /\ kind'[u] = kind[u] /\ objs'[u] = objs[u]
            /\ idx'[u] = idx[u] /\ result'[u] = result[u]
        BY <2>2 DEF OnlyCallOf
      <3>3. Listed(u)'
        BY <3>1, <3>2 DEF Listed, Waiting
      <3> QED  BY <3>1, <3>2, <3>3 DEF Placed, Unfinished, Waiting
    <2> QED  BY <2>1, <2>2
  <1> QED  BY <1>2, <1>3 DEF Shape, OnlyCallOf

LEMMA ShapeWakes ==
  ASSUME Shape, NEW t \in Threads, NEW e \in Events, pc[t] = "idle",
         Wakes(t, e), state' \in [Events -> 0..1], tokens' \in [Events -> Int],
         UNCHANGED host
  PROVE  Shape'
  <1>1. <<e>> \in Seq(Events) /\ Len(<<e>>) = 1
    OBVIOUS
  <1>2. OnlyCallOf(t)
    BY <1>1 DEF Shape, TypeOK, OnlyCallOf, Wakes, Goto, Pcs
  <1>3. EventsTyped'
    BY DEF Shape, TypeOK, EventsTyped, Wakes
  <1>4. pc'[t] = "waking" /\ objs'[t] = <<e>> /\ result'[t] = "none" /\ idx'[t] = idx[t]
    BY DEF Shape, TypeOK, Wakes, Goto
  <1>5. idx[t] = 1
    BY DEF Shape, Unfinished, Waiting
  <1>6. Listed(t)' /\ Placed(t)'
    BY <1>4 DEF Listed, Placed, Waiting
  <1>7. Unfinished(t)'
    BY <1>4, <1>5 DEF Unfinished, Waiting
  <1>8. idx'[t] \in 1..Len(objs'[t])
    BY <1>1, <1>4, <1>5
  <1> QED  BY <1>2, <1>3, <1>6, <1>7, <1>8, ShapeByOne

LEMMA ShapeCall ==
  ASSUME Shape, NEW t \in Threads, Call(t)
  PROVE  Shape'
  <1>1. PICK e \in Events :
          \/ Set(t, e) \/ Pulse(t, e) \/ Reset(t, e) \/ Clear(t, e)
          \/ \E s \in 0..1 : Initialize(t, e, s)
    BY DEF Call
  <1>2. CASE Set(t, e)
    <2>1. state' \in [Events -> 0..1] /\ tokens' \in [Events -> Int]
      BY <1>2 DEF Set, Shape, TypeOK
    <2> QED  BY <1>2, <2>1, ShapeWakes DEF Set
  <1>3. CASE Pulse(t, e)
    <2>1. state' \in [Events -> 0..1] /\ tokens' \in [Events -> Int]
      BY <1>3 DEF Pulse, Shape, TypeOK
    <2> QED  BY <1>3, <2>1, ShapeWakes DEF Pulse
  <1>4. CASE Reset(t, e)
    BY <1>4 DEF Reset, Shape, TypeOK, Listed, Placed, Unfinished, Waiting,
                waitVars
  <1>5. CASE Clear(t, e)
    BY <1>5 DEF Clear, Shape, TypeOK, Listed, Placed, Unfinished, Waiting,
                waitVars
  <1>6. ASSUME NEW s \in 0..1, Initialize(t, e, s) PROVE Shape'
    BY <1>6 DEF Initialize, Shape, TypeOK, Listed, Placed, Unfinished, Waiting,
                waitVars
  <1> QED  BY <1>1, <1>2, <1>3, <1>4, <1>5, <1>6

LEMMA ShapeBegin ==
  ASSUME Shape, NEW t \in Threads, NEW k, NEW list, NEW lim \in Limits,
         Begin(t, k, list, lim),
         \/ k = "one" /\ \E e \in OneWaits[t] : list = <<e>>
         \/ k = "any" /\ list \in AnyWaits[t]
         \/ k = "all" /\ list \in AllWaits[t]
  PROVE  Shape'
  <1>1. list \in Seq(Events) /\ 1 \in 1..Len(list)
    <2>1. CASE \E e \in OneWaits[t] : list = <<e>>
      BY <2>1, ListsAreEvents
    <2>2. CASE list \in AnyWaits[t] \cup AllWaits[t]
      BY <2>2, ListsAreEvents
    <2> QED  BY <2>1, <2>2
  <1>2. lim \in {Poll, Timed, Forever} /\ k \in {"one", "any", "all"}
    BY GuestEventsAssumption
  <1>3. OnlyCallOf(t)
    BY <1>1, <1>2 DEF Shape, TypeOK, OnlyCallOf, Begin, Goto, Pcs
  <1>4. EventsTyped'
    <2>1. {e \in Range(list) : state[e] = 1 \/ BeingSet(e)} \subseteq Events
      BY <1>1, InRange
    <2> QED  BY <2>1 DEF Shape, TypeOK, EventsTyped, Begin, eventVars
  <1>5. /\ pc'[t] = IF k = "one" THEN "look" ELSE "scan"
        /\ kind'[t] = k /\ objs'[t] = list /\ idx'[t] = 1 /\ result'[t] = "none"
    BY DEF Shape, TypeOK, Begin, Goto
  <1>6. Listed(t)' /\ Placed(t)' /\ Unfinished(t)'
    BY <1>5 DEF Listed, Placed, Unfinished, Waiting
  <1> QED  BY <1>1, <1>3, <1>4, <1>5, <1>6, ShapeByOne

LEMMA ShapeReturns ==
  ASSUME Shape, NEW t \in Threads, NEW r \in {"success", "timeout"},
         Returns(t, r), state' \in [Events -> 0..1], tokens' \in [Events -> Int],
         UNCHANGED host
  PROVE  Shape'
  <1>1. OnlyCallOf(t)
    BY DEF Shape, TypeOK, OnlyCallOf, Returns, Goto, Pcs
  <1>2. EventsTyped'
    BY DEF Shape, TypeOK, EventsTyped, Returns
  <1>3. pc'[t] = "idle" /\ idx'[t] = 1
    BY DEF Shape, TypeOK, Returns, Goto
  <1>4. Listed(t)' /\ Placed(t)' /\ Unfinished(t)'
    BY <1>3 DEF Listed, Placed, Unfinished, Waiting
  <1> QED  BY <1>1, <1>2, <1>3, <1>4, ShapeByOne

\* A wait that goes on, here or at another place, at the same object or at
\* another one of its list.
LEMMA ShapeGoesOn ==
  ASSUME Shape, NEW t \in Threads, Waiting(t),
         NEW there \in Pcs \ {"idle", "waking"}, NEW i \in 1..Len(objs[t]),
         pc' = [pc EXCEPT ![t] = there], idx' = [idx EXCEPT ![t] = i],
         UNCHANGED <<kind, objs, limit, moved, result, lit, host>>,
         state' \in [Events -> 0..1], tokens' \in [Events -> Int],
         there \in {"look", "take", "generation"} => kind[t] = "one",
         there = "scan" => kind[t] # "one",
         there = "taking" => kind[t] = "all"
  PROVE  Shape'
  <1>1. i \in Nat
    BY DEF Shape, TypeOK
  <1>2. OnlyCallOf(t)
    BY <1>1 DEF Shape, TypeOK, OnlyCallOf
  <1>3. EventsTyped'
    BY DEF Shape, TypeOK, EventsTyped
  <1>4. /\ pc'[t] = there /\ kind'[t] = kind[t] /\ objs'[t] = objs[t]
        /\ idx'[t] = i /\ result'[t] = result[t]
    BY DEF Shape, TypeOK
  <1>5. Listed(t) /\ Unfinished(t)
    BY DEF Shape
  <1>6. Listed(t)'
    BY <1>4, <1>5 DEF Listed, Waiting
  <1>7. Placed(t)' /\ Unfinished(t)'
    BY <1>4, <1>5 DEF Placed, Unfinished, Waiting
  <1> QED  BY <1>2, <1>3, <1>4, <1>6, <1>7, ShapeByOne

LEMMA ShapeGoesTo ==
  ASSUME Shape, NEW t \in Threads, Waiting(t),
         NEW there \in Pcs \ {"idle", "waking"}, Goto(t, there),
         UNCHANGED <<waitVars, eventVars>>,
         there \in {"look", "take", "generation"} => kind[t] = "one",
         there = "scan" => kind[t] # "one",
         there = "taking" => kind[t] = "all"
  PROVE  Shape'
  <1>1. idx[t] \in 1..Len(objs[t])
    BY InBounds DEF Waiting
  <1>2. idx' = [idx EXCEPT ![t] = idx[t]]
    BY DEF Shape, waitVars
  <1>3. state' \in [Events -> 0..1] /\ tokens' \in [Events -> Int]
    BY DEF Shape, TypeOK, eventVars
  <1> QED  BY <1>1, <1>2, <1>3, ShapeGoesOn DEF Goto, waitVars, eventVars

LEMMA ConsumeTyped ==
  ASSUME Shape, NEW e \in Events, Consume(e)
  PROVE  state' \in [Events -> 0..1] /\ tokens' \in [Events -> Int] /\ host' = host
  BY DEF Shape, TypeOK, Consume

LEMMA ShapeSingle ==
  ASSUME Shape, NEW t \in Threads,
         Look(t) \/ Take(t) \/ Generation(t) \/ TimesOut(t) \/ LooksAgain(t)
  PROVE  Shape'
  <1>0. Placed(t) /\ Waiting(t) /\ Obj(t) \in Events
    BY InBounds DEF Shape, Waiting, Look, Take, Generation, TimesOut, LooksAgain
  <1>1. CASE UNCHANGED eventVars /\ \E r \in {"success", "timeout"} : Returns(t, r)
    BY <1>1, ShapeReturns DEF Shape, TypeOK, eventVars
  <1>2. CASE Look(t)
    <2>1. kind[t] = "one"
      BY <1>0, <1>2 DEF Look, Placed
    <2>2. ASSUME NEW there \in {"take", "generation", "clock"}, Goto(t, there),
                 UNCHANGED <<waitVars, eventVars>>
          PROVE  Shape'
      BY <1>0, <2>1, <2>2, ShapeGoesTo DEF Pcs
    <2> QED  BY <1>1, <1>2, <2>2 DEF Look
  <1>3. CASE Take(t)
    <2>1. kind[t] = "one"
      BY <1>0, <1>3 DEF Take, Placed
    <2>2. CASE state[Obj(t)] = 1
      <3>1. ASSUME NEW e \in Events
            PROVE  /\ [state EXCEPT ![e] = 0] \in [Events -> 0..1]
                   /\ [tokens EXCEPT ![e] = @ - 1] \in [Events -> Int]
        BY DEF Shape, TypeOK
      <3> QED  BY <1>0, <1>3, <2>2, <3>1, ShapeReturns DEF Take
    <2>3. CASE state[Obj(t)] # 1
      BY <1>0, <1>3, <2>1, <2>3, ShapeGoesTo DEF Take, Pcs, eventVars
    <2> QED  BY <2>2, <2>3
  <1>4. CASE Generation(t)
    <2>1. CASE moved[t]
      BY <1>1, <1>4, <2>1 DEF Generation
    <2>2. CASE ~moved[t]
      BY <1>0, <1>4, <2>2, ShapeGoesTo DEF Generation, Pcs
    <2> QED  BY <2>1, <2>2
  <1>5. CASE TimesOut(t)
    BY <1>1, <1>5 DEF TimesOut
  <1>6. CASE LooksAgain(t)
    <2>1. CASE kind[t] = "one"
      BY <1>0, <1>6, <2>1, ShapeGoesTo DEF LooksAgain, Pcs
    <2>2. CASE kind[t] # "one"
      BY <1>0, <1>6, <2>2, ShapeGoesTo DEF LooksAgain, Pcs
    <2> QED  BY <2>1, <2>2
  <1> QED  BY <1>2, <1>3, <1>4, <1>5, <1>6

LEMMA ShapeMultiple ==
  ASSUME Shape, NEW t \in Threads, ScanAny(t) \/ ScanAll(t) \/ TakeAll(t)
  PROVE  Shape'
  <1>0. Waiting(t) /\ pc[t] \in Pcs /\ Obj(t) \in Events
    BY InBounds DEF Shape, TypeOK, Waiting, ScanAny, ScanAll, TakeAll
  <1>1. 1 \in 1..Len(objs[t]) /\ (~Last(t) => idx[t] + 1 \in 1..Len(objs[t]))
    BY <1>0, InBounds DEF Waiting
  <1>2. UNCHANGED eventVars => state' \in [Events -> 0..1] /\ tokens' \in [Events -> Int]
    BY DEF Shape, TypeOK, eventVars
  <1>3. UNCHANGED pc => pc' = [pc EXCEPT ![t] = pc[t]]
    BY DEF Shape, TypeOK
  <1>4. CASE ScanAny(t)
    <2>1. CASE Consume(Obj(t)) /\ Returns(t, "success")
      BY <1>0, <2>1, ConsumeTyped, ShapeReturns
    <2>2. CASE Rewind(t) /\ Goto(t, "clock") /\ UNCHANGED <<eventVars, kind, objs, limit, moved, result, lit>>
      BY <1>0, <1>1, <1>2, <2>2, ShapeGoesOn DEF Rewind, Goto, Pcs, eventVars
    <2>3. CASE Advance(t) /\ UNCHANGED pc /\ ~Last(t) /\ UNCHANGED <<eventVars, kind, objs, limit, moved, result, lit>>
      BY <1>0, <1>1, <1>2, <1>3, <1>4, <2>3, ShapeGoesOn DEF Advance, ScanAny, eventVars
    <2> QED  BY <1>4, <2>1, <2>2, <2>3 DEF ScanAny
  <1>5. CASE ScanAll(t)
    <2>1. kind[t] = "all" /\ pc[t] = "scan"
      BY <1>5 DEF ScanAll
    <2>2. ASSUME NEW there \in {"taking", "clock"}, Rewind(t), Goto(t, there) PROVE Shape'
      BY <1>0, <1>1, <1>2, <1>5, <2>1, <2>2, ShapeGoesOn DEF ScanAll, Rewind, Goto, Pcs, eventVars
    <2>3. CASE Advance(t) /\ UNCHANGED pc /\ ~Last(t)
      BY <1>0, <1>1, <1>2, <1>3, <1>5, <2>1, <2>3, ShapeGoesOn DEF Advance, ScanAll, eventVars
    <2> QED  BY <1>5, <2>2, <2>3 DEF ScanAll
  <1>6. CASE TakeAll(t)
    <2>1. state' \in [Events -> 0..1] /\ tokens' \in [Events -> Int] /\ host' = host
      BY <1>0, <1>6, ConsumeTyped DEF TakeAll
    <2>2. kind[t] = "all" /\ pc[t] = "taking"
      BY <1>6 DEF TakeAll, Shape, Placed
    <2>3. CASE Last(t)
      BY <1>6, <2>1, <2>3, ShapeReturns DEF TakeAll
    <2>4. CASE ~Last(t)
      BY <1>0, <1>1, <1>3, <1>6, <2>1, <2>2, <2>4, ShapeGoesOn DEF TakeAll, Advance
    <2> QED  BY <2>3, <2>4
  <1> QED  BY <1>4, <1>5, <1>6

LEMMA ShapeWake ==
  ASSUME Shape, NEW t \in Threads, Wake(t)
  PROVE  Shape'
  <1>1. OnlyCallOf(t)
    BY DEF Shape, TypeOK, OnlyCallOf, Wake, Goto, Pcs
  <1>2. EventsTyped'
    <2>1. \A u \in Threads :
            (moved[u] \/ (HasGeneration(objs[t][1]) /\ Waits(u, objs[t][1]))) \in BOOLEAN
      OBVIOUS
    <2>2. moved' \in [Threads -> BOOLEAN]
      BY <2>1 DEF Wake
    <2> QED  BY <2>2 DEF Shape, TypeOK, EventsTyped, Wake, eventVars
  <1>3. pc'[t] = "idle" /\ idx'[t] = 1
    BY DEF Shape, TypeOK, Wake, Goto, Unfinished, Waiting
  <1>4. Listed(t)' /\ Placed(t)' /\ Unfinished(t)'
    BY <1>3 DEF Listed, Placed, Unfinished, Waiting
  <1> QED  BY <1>1, <1>2, <1>3, <1>4, ShapeByOne

LEMMA ShapeStep ==
  ASSUME Shape, [Next]_vars
  PROVE  Shape'
  <1>1. CASE Next
    <2>1. PICK t \in Threads : Begins(t) \/ Call(t) \/ Continue(t)
      BY <1>1 DEF Next
    <2>2. CASE Begins(t)
      BY <2>2, ShapeBegin DEF Begins
    <2>3. CASE Call(t)
      BY <2>3, ShapeCall
    <2>4. CASE Continue(t)
      BY <2>4, ShapeSingle, ShapeMultiple, ShapeWake DEF Continue
    <2> QED  BY <2>1, <2>2, <2>3, <2>4
  <1>2. CASE UNCHANGED vars
    BY <1>2 DEF vars, eventVars, waitVars, Shape, TypeOK, Listed, Placed,
                Unfinished, Waiting
  <1> QED  BY <1>1, <1>2

LEMMA ShapeInit == Init => Shape
  <1>1. << >> \in Seq(Events)
    OBVIOUS
  <1> QED  BY <1>1 DEF Init, Shape, TypeOK, Pcs, Listed, Placed, Unfinished, Waiting

---------------------------------------------------------------------------
(* A wait succeeds for a reason of its own *)

\* A step of t signals nothing and touches no other wait.
Quiet(t) ==
  /\ \A e \in Events : state'[e] = 1 => state[e] = 1
  /\ \A e \in Events : BeingSet(e)' => BeingSet(e)
  /\ \A u \in Threads \ {t} :
       /\ pc'[u] = pc[u] /\ kind'[u] = kind[u] /\ objs'[u] = objs[u]
       /\ idx'[u] = idx[u] /\ result'[u] = result[u] /\ moved'[u] = moved[u]
       /\ lit'[u] = lit[u]

\* What a step of another may do to a wait.
LEMMA ReasonsOfAnother ==
  ASSUME EventsInv, NEW u \in Threads,
         pc'[u] = pc[u], kind'[u] = kind[u], objs'[u] = objs[u],
         idx'[u] = idx[u], result'[u] = result[u],
         ~Waiting(u) => lit'[u] = lit[u],
         lit[u] \subseteq lit'[u],
         Waiting(u) => lit'[u] \subseteq Range(objs[u]),
         Waiting(u) => \A e \in Range(objs[u]) :
                         state'[e] = 1 \/ BeingSet(e)' => e \in lit'[u],
         Waiting(u) /\ moved'[u] => lit'[u] # {}
  PROVE  Seen(u)' /\ Grounds(u)' /\ Earned(u)'
  <1>1. Seen(u) /\ Grounds(u) /\ Earned(u) /\ Unfinished(u)
    BY DEF EventsInv, Reasons, Shape
  <1>2. Seen(u)'
    BY DEF Seen, Waiting
  <1>3. Grounds(u)'
    BY <1>1 DEF Grounds, Waiting
  <1>4. Earned(u)'
    BY <1>1 DEF Earned, Unfinished, Waiting
  <1> QED  BY <1>2, <1>3, <1>4

LEMMA ReasonsQuiet ==
  ASSUME EventsInv, NEW t \in Threads, Quiet(t),
         Seen(t)', Grounds(t)', Earned(t)'
  PROVE  Reasons'
  <1>1. ASSUME NEW u \in Threads, u # t
        PROVE  Seen(u)' /\ Grounds(u)' /\ Earned(u)'
    <2>1. Seen(u) /\ Grounds(u) /\ Range(objs[u]) \subseteq Events
      BY InRange DEF EventsInv, Reasons, Shape, TypeOK
    <2>2. Waiting(u) => lit[u] \subseteq Range(objs[u])
      BY <2>1 DEF Seen
    <2>3. Waiting(u) => \A e \in Range(objs[u]) :
                          state'[e] = 1 \/ BeingSet(e)' => e \in lit[u]
      BY <2>1 DEF Seen, Quiet
    <2>4. Waiting(u) /\ moved[u] => lit[u] # {}
      BY <2>1 DEF Grounds
    <2>5. /\ pc'[u] = pc[u] /\ kind'[u] = kind[u] /\ objs'[u] = objs[u]
          /\ idx'[u] = idx[u] /\ result'[u] = result[u] /\ moved'[u] = moved[u]
          /\ lit'[u] = lit[u]
      BY <1>1 DEF Quiet
    <2> QED  BY <2>2, <2>3, <2>4, <2>5, ReasonsOfAnother
  <1> QED  BY <1>1 DEF Reasons

\* A step of t inside a wait, or into or out of it: it sets nothing.
LEMMA QuietStep ==
  ASSUME EventsInv, NEW t \in Threads, pc'[t] # "waking",
         \A e \in Events : state'[e] = 1 => state[e] = 1,
         \A u \in Threads \ {t} :
           /\ pc'[u] = pc[u] /\ kind'[u] = kind[u] /\ objs'[u] = objs[u]
           /\ idx'[u] = idx[u] /\ result'[u] = result[u]
           /\ moved'[u] = moved[u] /\ lit'[u] = lit[u]
  PROVE  Quiet(t)
  BY DEF Quiet, BeingSet

LEMMA ReasonsReturns ==
  ASSUME EventsInv, NEW t \in Threads, NEW r \in {"success", "timeout"},
         Returns(t, r), \A e \in Events : state'[e] = 1 => state[e] = 1,
         r = "success" =>
           lit[t] # {} /\ (kind[t] = "all" => lit[t] = Range(objs[t]))
  PROVE  Reasons'
  <1>1. pc'[t] = "idle" /\ result'[t] = r
    BY DEF Returns, Goto, EventsInv, Shape, TypeOK
  <1>2. Quiet(t)
    <2>1. \A u \in Threads \ {t} :
           /\ pc'[u] = pc[u] /\ kind'[u] = kind[u] /\ objs'[u] = objs[u]
           /\ idx'[u] = idx[u] /\ result'[u] = result[u]
           /\ moved'[u] = moved[u] /\ lit'[u] = lit[u]
      BY DEF Returns, Goto, EventsInv, Shape, TypeOK
    <2> QED  BY <1>1, <2>1, QuietStep
  <1>3. Seen(t)' /\ Grounds(t)'
    BY <1>1 DEF Seen, Grounds, Waiting
  <1>4. Earned(t)'
    BY <1>1 DEF Returns, Earned
  <1> QED  BY <1>2, <1>3, <1>4, ReasonsQuiet

LEMMA ReasonsGoesOn ==
  ASSUME EventsInv, NEW t \in Threads, Waiting(t),
         NEW there \in Pcs \ {"idle", "waking"}, NEW i \in 1..Len(objs[t]),
         pc' = [pc EXCEPT ![t] = there], idx' = [idx EXCEPT ![t] = i],
         UNCHANGED <<kind, objs, moved, result, lit>>,
         \A e \in Events : state'[e] = 1 => state[e] = 1,
         there = "clock" /\ kind[t] = "all" => i = 1,
         there = "scan" /\ kind[t] = "all" =>
           \A j \in 1..(i - 1) : objs[t][j] \in lit[t],
         there = "taking" => Range(objs[t]) \subseteq lit[t]
  PROVE  Reasons'
  <1>1. pc'[t] = there /\ idx'[t] = i
    BY DEF EventsInv, Shape, TypeOK
  <1>2. Quiet(t)
    <2>1. \A u \in Threads \ {t} :
           /\ pc'[u] = pc[u] /\ kind'[u] = kind[u] /\ objs'[u] = objs[u]
           /\ idx'[u] = idx[u] /\ result'[u] = result[u]
           /\ moved'[u] = moved[u] /\ lit'[u] = lit[u]
      BY DEF EventsInv, Shape, TypeOK
    <2> QED  BY <1>1, <2>1, QuietStep
  <1>3. Seen(t) /\ Grounds(t) /\ Range(objs[t]) \subseteq Events /\ Unfinished(t)
    BY InRange DEF EventsInv, Reasons, Shape, TypeOK
  <1>4. Seen(t)'
    BY <1>1, <1>2, <1>3 DEF Seen, Quiet, Waiting
  <1>5. Grounds(t)'
    BY <1>1, <1>3 DEF Grounds, Waiting
  <1>6. Earned(t)'
    BY <1>3 DEF Earned, Unfinished, Waiting
  <1> QED  BY <1>2, <1>4, <1>5, <1>6, ReasonsQuiet

LEMMA ReasonsGoesTo ==
  ASSUME EventsInv, NEW t \in Threads, Waiting(t),
         NEW there \in Pcs \ {"idle", "waking", "taking"}, Goto(t, there),
         UNCHANGED <<waitVars, state>>,
         there \in {"clock", "scan"} /\ kind[t] = "all" => idx[t] = 1
  PROVE  Reasons'
  <1>1. idx[t] \in 1..Len(objs[t])
    BY InBounds DEF EventsInv, Waiting
  <1>2. idx' = [idx EXCEPT ![t] = idx[t]]
    BY DEF EventsInv, Shape, waitVars
  <1>3. there = "scan" /\ kind[t] = "all" =>
          \A j \in 1..(idx[t] - 1) : objs[t][j] \in lit[t]
    OBVIOUS
  <1>4. UNCHANGED <<kind, objs, moved, result, lit>> /\ there # "taking"
    BY DEF waitVars
  <1>5. \A e \in Events : state'[e] = 1 => state[e] = 1
    OBVIOUS
  <1> QED  BY <1>1, <1>2, <1>3, <1>4, <1>5, ReasonsGoesOn DEF Goto

LEMMA ReasonsSingle ==
  ASSUME EventsInv, NEW t \in Threads,
         Look(t) \/ Take(t) \/ Generation(t) \/ TimesOut(t) \/ LooksAgain(t)
  PROVE  Reasons'
  <1>1. Placed(t) /\ Seen(t) /\ Grounds(t) /\ Waiting(t)
    BY DEF EventsInv, Shape, Reasons, Waiting, Look, Take, Generation, TimesOut, LooksAgain
  <1>2. Obj(t) \in Events /\ Obj(t) \in Range(objs[t])
    BY <1>1, InBounds DEF EventsInv, Waiting
  <1>3. state[Obj(t)] = 1 => lit[t] # {}
    BY <1>1, <1>2 DEF Seen
  <1>4. CASE Look(t)
    <2>1. kind[t] = "one" /\ UNCHANGED state
      BY <1>1, <1>4 DEF Look, Placed, eventVars
    <2>2. CASE Returns(t, "success") /\ state[Obj(t)] = 1
      BY <1>3, <2>1, <2>2, ReasonsReturns
    <2>3. ASSUME NEW there \in {"take", "generation", "clock"}, Goto(t, there),
                 UNCHANGED waitVars
          PROVE  Reasons'
      BY <1>1, <2>1, <2>3, ReasonsGoesTo DEF Pcs
    <2> QED  BY <1>4, <2>2, <2>3 DEF Look
  <1>5. CASE Take(t)
    <2>1. kind[t] = "one"
      BY <1>1, <1>5 DEF Take, Placed
    <2>2. CASE state[Obj(t)] = 1
      <3>1. \A e \in Events : state'[e] = 1 => state[e] = 1
        BY <1>2, <1>5, <2>2 DEF Take, EventsInv, Shape, TypeOK
      <3> QED  BY <1>3, <1>5, <2>1, <2>2, <3>1, ReasonsReturns DEF Take
    <2>3. CASE state[Obj(t)] # 1
      BY <1>1, <1>5, <2>1, <2>3, ReasonsGoesTo DEF Take, Pcs
    <2> QED  BY <2>2, <2>3
  <1>6. CASE Generation(t)
    <2>1. kind[t] = "one" /\ UNCHANGED state
      BY <1>1, <1>6 DEF Generation, Placed, eventVars
    <2>2. CASE moved[t]
      <3>1. lit[t] # {}
        BY <1>1, <2>2 DEF Grounds
      <3> QED  BY <1>6, <2>1, <2>2, <3>1, ReasonsReturns DEF Generation
    <2>3. CASE ~moved[t]
      BY <1>1, <1>6, <2>1, <2>3, ReasonsGoesTo DEF Generation, Pcs
    <2> QED  BY <2>2, <2>3
  <1>7. CASE TimesOut(t)
    BY <1>7, ReasonsReturns DEF TimesOut, eventVars
  <1>8. CASE LooksAgain(t)
    <2>1. kind[t] = "all" => idx[t] = 1
      BY <1>1, <1>8 DEF LooksAgain, Grounds
    <2> QED  BY <1>1, <1>8, <2>1, ReasonsGoesTo DEF LooksAgain, Pcs, eventVars
  <1> QED  BY <1>4, <1>5, <1>6, <1>7, <1>8

LEMMA ConsumeQuiet ==
  ASSUME EventsInv, NEW e \in Events, Consume(e)
  PROVE  \A x \in Events : state'[x] = 1 => state[x] = 1
  BY DEF EventsInv, Shape, TypeOK, Consume

LEMMA ReasonsMultiple ==
  ASSUME EventsInv, NEW t \in Threads, ScanAny(t) \/ ScanAll(t) \/ TakeAll(t)
  PROVE  Reasons'
  <1>1. Placed(t) /\ Seen(t) /\ Grounds(t) /\ Waiting(t)
    BY DEF EventsInv, Shape, Reasons, Waiting, ScanAny, ScanAll, TakeAll
  <1>2. /\ Obj(t) \in Events /\ Obj(t) \in Range(objs[t])
        /\ 1 \in 1..Len(objs[t]) /\ idx[t] \in 1..Len(objs[t])
        /\ (~Last(t) => idx[t] + 1 \in 1..Len(objs[t]))
    BY <1>1, InBounds DEF EventsInv, Waiting
  <1>3. state[Obj(t)] = 1 => Obj(t) \in lit[t]
    BY <1>1, <1>2 DEF Seen
  <1>4. /\ UNCHANGED pc => pc' = [pc EXCEPT ![t] = pc[t]]
        /\ pc[t] \in Pcs \ {"idle", "waking"}
    BY <1>1 DEF EventsInv, Shape, TypeOK, Waiting
  <1>5. UNCHANGED eventVars => \A e \in Events : state'[e] = 1 => state[e] = 1
    BY DEF eventVars
  <1>6. CASE ScanAny(t)
    <2>0. pc[t] = "scan" /\ kind[t] = "any"
      BY <1>6 DEF ScanAny
    <2>1. CASE state[Obj(t)] = 1 /\ Consume(Obj(t)) /\ Returns(t, "success")
      BY <1>2, <1>3, <2>0, <2>1, ConsumeQuiet, ReasonsReturns
    <2>2. CASE Rewind(t) /\ Goto(t, "clock") /\ UNCHANGED <<eventVars, kind, objs, limit, moved, result, lit>>
      BY <1>1, <1>2, <1>5, <2>0, <2>2, ReasonsGoesOn DEF Rewind, Goto, Pcs
    <2>3. CASE Advance(t) /\ UNCHANGED pc /\ ~Last(t) /\ UNCHANGED <<eventVars, kind, objs, limit, moved, result, lit>>
      BY <1>1, <1>2, <1>4, <1>5, <2>0, <2>3, ReasonsGoesOn DEF Advance
    <2> QED  BY <1>6, <2>1, <2>2, <2>3 DEF ScanAny
  <1>7. CASE ScanAll(t)
    <2>0. /\ pc[t] = "scan" /\ kind[t] = "all"
          /\ UNCHANGED <<eventVars, kind, objs, limit, moved, result, lit>>
      BY <1>7 DEF ScanAll
    <2>1. state[Obj(t)] = 1 => \A j \in 1..idx[t] : objs[t][j] \in lit[t]
      BY <1>1, <1>2, <1>3, <2>0 DEF Grounds, Obj
    <2>2. CASE Rewind(t) /\ Goto(t, "clock")
      BY <1>1, <1>2, <1>5, <2>0, <2>2, ReasonsGoesOn DEF Rewind, Goto, Pcs
    <2>3. CASE state[Obj(t)] = 1 /\ Last(t) /\ Rewind(t) /\ Goto(t, "taking")
      <3>1. Range(objs[t]) \subseteq lit[t]
        BY <2>1, <2>3, InRange DEF Last, EventsInv, Shape, TypeOK
      <3> QED
        BY <1>1, <1>2, <1>5, <2>0, <2>3, <3>1, ReasonsGoesOn DEF Rewind, Goto, Pcs
    <2>4. CASE state[Obj(t)] = 1 /\ ~Last(t) /\ Advance(t) /\ UNCHANGED pc
      <3>1. \A j \in 1..((idx[t] + 1) - 1) : objs[t][j] \in lit[t]
        BY <1>2, <2>1, <2>4
      <3> QED
        BY <1>1, <1>2, <1>4, <1>5, <2>0, <2>4, <3>1, ReasonsGoesOn DEF Advance
    <2> QED  BY <1>7, <2>2, <2>3, <2>4 DEF ScanAll
  <1>8. CASE TakeAll(t)
    <2>0. pc[t] = "taking" /\ Consume(Obj(t))
      BY <1>8 DEF TakeAll
    <2>1. Range(objs[t]) \subseteq lit[t] /\ lit[t] \subseteq Range(objs[t])
      BY <1>1, <2>0 DEF Grounds, Seen, Waiting
    <2>2. \A e \in Events : state'[e] = 1 => state[e] = 1
      BY <1>2, <2>0, ConsumeQuiet
    <2>3. CASE Last(t)
      <3>1. lit[t] = Range(objs[t]) /\ lit[t] # {}
        BY <1>2, <2>1
      <3> QED  BY <1>8, <2>2, <2>3, <3>1, ReasonsReturns DEF TakeAll
    <2>4. CASE ~Last(t)
      BY <1>1, <1>2, <1>4, <1>8, <2>0, <2>1, <2>2, <2>4, ReasonsGoesOn DEF TakeAll, Advance
    <2> QED  BY <2>3, <2>4
  <1> QED  BY <1>6, <1>7, <1>8

LEMMA ReasonsBegin ==
  ASSUME EventsInv, NEW t \in Threads, NEW k, NEW list \in Seq(Events), NEW lim,
         Begin(t, k, list, lim)
  PROVE  Reasons'
  <1>1. /\ pc'[t] = IF k = "one" THEN "look" ELSE "scan"
        /\ objs'[t] = list /\ idx'[t] = 1 /\ result'[t] = "none" /\ ~moved'[t]
        /\ lit'[t] = {e \in Range(list) : state[e] = 1 \/ BeingSet(e)}
        /\ state' = state
    BY DEF EventsInv, Shape, TypeOK, Begin, Goto, eventVars
  <1>2. Quiet(t)
    <2>1. \A u \in Threads \ {t} :
           /\ pc'[u] = pc[u] /\ kind'[u] = kind[u] /\ objs'[u] = objs[u]
           /\ idx'[u] = idx[u] /\ result'[u] = result[u]
           /\ moved'[u] = moved[u] /\ lit'[u] = lit[u]
      BY DEF EventsInv, Shape, TypeOK, Begin, Goto
    <2> QED  BY <1>1, <2>1, QuietStep
  <1>3. Seen(t)'
    <2>1. Range(list) \subseteq Events
      BY InRange
    <2> QED  BY <1>1, <1>2, <2>1 DEF Seen, Quiet
  <1>4. Grounds(t)' /\ Earned(t)'
    BY <1>1 DEF Grounds, Earned
  <1> QED  BY <1>2, <1>3, <1>4, ReasonsQuiet

LEMMA ReasonsWakes ==
  ASSUME EventsInv, NEW t \in Threads, NEW e \in Events, pc[t] = "idle",
         Wakes(t, e),
         \A x \in Events \ {e} : state'[x] = 1 => state[x] = 1
  PROVE  Reasons'
  <1>1. pc'[t] = "waking" /\ result'[t] = "none"
    BY DEF EventsInv, Shape, TypeOK, Wakes, Goto
  <1>2. /\ \A u \in Threads \ {t} :
             pc'[u] = pc[u] /\ objs'[u] = objs[u] /\ kind'[u] = kind[u]
             /\ result'[u] = result[u] /\ idx'[u] = idx[u] /\ moved'[u] = moved[u]
        /\ \A u \in Threads \ {t} :
             lit'[u] = IF Waits(u, e) THEN lit[u] \cup {e} ELSE lit[u]
        /\ objs'[t] = <<e>>
    BY DEF EventsInv, Shape, TypeOK, Wakes, Goto
  <1>3. \A x \in Events : BeingSet(x)' => BeingSet(x) \/ x = e
    BY <1>2 DEF BeingSet
  <1>4. ASSUME NEW u \in Threads, u # t
        PROVE  Seen(u)' /\ Grounds(u)' /\ Earned(u)'
    <2>1. Seen(u) /\ Grounds(u) /\ Range(objs[u]) \subseteq Events
      BY InRange DEF EventsInv, Reasons, Shape, TypeOK
    <2>2. ~Waiting(u) => lit'[u] = lit[u]
      BY <1>2, <1>4 DEF Waits
    <2>3. lit[u] \subseteq lit'[u]
      BY <1>2, <1>4
    <2>4. Waiting(u) => lit'[u] \subseteq Range(objs[u])
      BY ZenonT(40), <1>2, <1>4, <2>1 DEF Seen, Waits
    <2>5. Waiting(u) => \A x \in Range(objs[u]) :
                          state'[x] = 1 \/ BeingSet(x)' => x \in lit'[u]
      BY <1>2, <1>3, <1>4, <2>1, <2>3 DEF Seen, Waits
    <2>6. Waiting(u) /\ moved'[u] => lit'[u] # {}
      BY <1>2, <1>4, <2>1, <2>3 DEF Grounds
    <2> QED  BY <1>2, <1>4, <2>2, <2>3, <2>4, <2>5, <2>6, ReasonsOfAnother
  <1>5. Seen(t)' /\ Grounds(t)' /\ Earned(t)'
    BY <1>1 DEF Seen, Grounds, Earned, Waiting
  <1> QED  BY <1>4, <1>5 DEF Reasons

\* A call that touches no wait, and signals nothing anyone waits for.
LEMMA ReasonsAside ==
  ASSUME EventsInv, UNCHANGED <<pc, waitVars>>,
         \A u \in Threads :
           Waiting(u) => \A x \in Range(objs[u]) : state'[x] = 1 => state[x] = 1
  PROVE  Reasons'
  <1>1. \A x : BeingSet(x)' <=> BeingSet(x)
    BY DEF BeingSet, waitVars
  <1>2. ASSUME NEW u \in Threads
        PROVE  Seen(u)' /\ Grounds(u)' /\ Earned(u)'
    <2>1. Seen(u) /\ Grounds(u)
      BY DEF EventsInv, Reasons
    <2>2. Waiting(u) => \A x \in Range(objs[u]) :
                          state'[x] = 1 \/ BeingSet(x)' => x \in lit[u]
      BY <1>1, <2>1 DEF Seen
    <2>3. (Waiting(u) => lit[u] \subseteq Range(objs[u]))
          /\ (Waiting(u) /\ moved[u] => lit[u] # {})
      BY <2>1 DEF Seen, Grounds
    <2> QED  BY <2>2, <2>3, ReasonsOfAnother DEF waitVars
  <1> QED  BY <1>2 DEF Reasons

LEMMA ReasonsCall ==
  ASSUME EventsInv, NEW t \in Threads, Call(t)
  PROVE  Reasons'
  <1>1. PICK e \in Events :
          \/ Set(t, e) \/ Pulse(t, e) \/ Reset(t, e) \/ Clear(t, e)
          \/ \E s \in 0..1 : Initialize(t, e, s)
    BY DEF Call
  <1>2. \A u \in Threads : Range(objs[u]) \subseteq Events
    BY InRange DEF EventsInv, Shape, TypeOK
  <1>3. CASE Set(t, e)
    <2>1. \A x \in Events \ {e} : state'[x] = 1 => state[x] = 1
      BY <1>3 DEF Set, EventsInv, Shape, TypeOK
    <2> QED  BY <1>3, <2>1, ReasonsWakes DEF Set
  <1>4. CASE Pulse(t, e)
    <2>1. \A x \in Events \ {e} : state'[x] = 1 => state[x] = 1
      BY <1>4 DEF Pulse, EventsInv, Shape, TypeOK
    <2> QED  BY <1>4, <2>1, ReasonsWakes DEF Pulse
  <1>5. CASE Reset(t, e)
    BY <1>5, ReasonsAside DEF Reset
  <1>6. CASE Clear(t, e)
    <2>1. \A x \in Events : state'[x] = 1 => state[x] = 1
      BY <1>6 DEF Clear, EventsInv, Shape, TypeOK
    <2> QED  BY <1>2, <1>6, <2>1, ReasonsAside DEF Clear
  <1>7. ASSUME NEW s \in 0..1, Initialize(t, e, s) PROVE Reasons'
    <2>1. \A x \in Events \ {e} : state'[x] = 1 => state[x] = 1
      BY <1>7 DEF Initialize, EventsInv, Shape, TypeOK
    <2>2. \A u \in Threads : Waiting(u) => e \notin Range(objs[u])
      BY <1>7 DEF Initialize, Waiting
    <2>3. \A u \in Threads :
            Waiting(u) => \A x \in Range(objs[u]) : state'[x] = 1 => state[x] = 1
      BY <1>2, <2>1, <2>2
    <2>4. UNCHANGED <<pc, waitVars>>
      BY <1>7 DEF Initialize
    <2> QED  BY <2>3, <2>4, ReasonsAside
  <1> QED  BY <1>1, <1>3, <1>4, <1>5, <1>6, <1>7

LEMMA ReasonsWake ==
  ASSUME EventsInv, NEW t \in Threads, Wake(t)
  PROVE  Reasons'
  <1>1. pc'[t] = "idle" /\ result'[t] = "none"
    BY DEF EventsInv, Shape, TypeOK, Unfinished, Wake, Goto
  <1>2. /\ UNCHANGED <<state, kind, idx, result, lit>>
        /\ \A u \in Threads \ {t} : pc'[u] = pc[u] /\ objs'[u] = objs[u]
        /\ \A u \in Threads :
             moved'[u] <=> moved[u] \/ (HasGeneration(objs[t][1]) /\ Waits(u, objs[t][1]))
    BY DEF EventsInv, Shape, TypeOK, Wake, Goto, eventVars
  <1>3. \A x : BeingSet(x)' => BeingSet(x)
    BY <1>1, <1>2 DEF BeingSet
  <1>4. BeingSet(objs[t][1])
    BY DEF BeingSet, Wake
  <1>5. ASSUME NEW u \in Threads, u # t
        PROVE  Seen(u)' /\ Grounds(u)' /\ Earned(u)'
    <2>1. Seen(u) /\ Grounds(u)
      BY DEF EventsInv, Reasons
    <2>2. Waiting(u) => \A x \in Range(objs[u]) :
                          state'[x] = 1 \/ BeingSet(x)' => x \in lit[u]
      BY <1>2, <1>3, <2>1 DEF Seen
    <2>3. Waiting(u) => lit[u] \subseteq Range(objs[u])
      BY <2>1 DEF Seen
    <2>4. Waiting(u) /\ moved'[u] => lit[u] # {}
      BY <1>2, <1>4, <2>1 DEF Seen, Grounds, Waits
    <2> QED  BY <1>2, <1>5, <2>2, <2>3, <2>4, ReasonsOfAnother
  <1>6. Seen(t)' /\ Grounds(t)' /\ Earned(t)'
    BY <1>1 DEF Seen, Grounds, Earned, Waiting
  <1> QED  BY <1>5, <1>6 DEF Reasons

LEMMA ReasonsStep ==
  ASSUME EventsInv, [Next]_vars
  PROVE  Reasons'
  <1>1. CASE Next
    <2>1. PICK t \in Threads : Begins(t) \/ Call(t) \/ Continue(t)
      BY <1>1 DEF Next
    <2>2. CASE Begins(t)
      <3>1. PICK lim \in Limits :
              \/ \E e \in OneWaits[t] : Begin(t, "one", <<e>>, lim)
              \/ \E list \in AnyWaits[t] : Begin(t, "any", list, lim)
              \/ \E list \in AllWaits[t] : Begin(t, "all", list, lim)
        BY <2>2 DEF Begins
      <3> QED  BY <3>1, ListsAreEvents, ReasonsBegin
    <2>3. CASE Call(t)
      BY <2>3, ReasonsCall
    <2>4. CASE Continue(t)
      BY <2>4, ReasonsSingle, ReasonsMultiple, ReasonsWake DEF Continue
    <2> QED  BY <2>1, <2>2, <2>3, <2>4
  <1>2. CASE UNCHANGED vars
    BY <1>2, ReasonsAside DEF vars, eventVars
  <1> QED  BY <1>1, <1>2

LEMMA EventsInduction == Spec => []EventsInv
  <1>1. Init => EventsInv
    BY ShapeInit DEF EventsInv, Init, Reasons, Seen, Grounds, Earned, Waiting
  <1>2. EventsInv /\ [Next]_vars => EventsInv'
    BY ShapeStep, ReasonsStep DEF EventsInv
  <1> QED  BY <1>1, <1>2, PTL DEF Spec

\* Every call keeps its place, its objects and its locals what the code takes
\* them for: a scan never looks past the list it was given.
THEOREM TypeCorrect == Spec => []TypeOK
  <1>1. EventsInv => TypeOK
    BY DEF EventsInv, Shape
  <1> QED  BY <1>1, EventsInduction, PTL

\* Whatever threads set, pulse, clear and wait for at the same time, and
\* whatever slots of generations they share, a wait that succeeds had its
\* object signalled while it was waiting, and a wait for all had all of them.
THEOREM SuccessIsEarned == Spec => []SuccessHasItsSet
  <1>1. EventsInv => SuccessHasItsSet
    BY DEF EventsInv, Reasons, Earned, SuccessHasItsSet
  <1> QED  BY <1>1, EventsInduction, PTL

---------------------------------------------------------------------------
(* One set of a synchronisation event releases one wait *)

\* What a wait for all has checked and not yet consumed is signalled still.
Held(t) ==
  /\ pc[t] = "scan" /\ kind[t] = "all" =>
       \A j \in 1..(idx[t] - 1) :
         objs[t][j] \in SyncEvents => state[objs[t][j]] = 1
  /\ pc[t] = "taking" =>
       \A j \in idx[t]..Len(objs[t]) :
         objs[t][j] \in SyncEvents => state[objs[t][j]] = 1

Claims == (\A t \in Threads : Held(t)) /\ OneSetOneWaiter

\* Places of a wait for all at which something of it is checked already.
HoldsSome(t) == pc[t] = "taking" \/ (pc[t] = "scan" /\ kind[t] = "all")

LEMMA HoldsAllWait ==
  ASSUME Shape, NEW t \in Threads, HoldsSome(t)
  PROVE  /\ objs[t] \in AllWaits[t] /\ kind[t] = "all" /\ Waiting(t)
         /\ objs[t] \in Seq(Events) /\ Len(objs[t]) \in Nat
         /\ idx[t] \in 1..Len(objs[t])
  <1>1. kind[t] = "all" /\ Waiting(t)
    BY DEF HoldsSome, Shape, Placed, Waiting
  <1>2. objs[t] \in AllWaits[t]
    BY <1>1 DEF Shape, Listed
  <1>3. objs[t] \in Seq(Events) /\ Len(objs[t]) \in Nat
    BY DEF Shape, TypeOK
  <1>4. idx[t] \in 1..Len(objs[t])
    BY <1>1, InBounds DEF Waiting
  <1> QED  BY <1>1, <1>2, <1>3, <1>4

\* A wait that keeps its place keeps its claims if what it claims stays
\* signalled.
LEMMA HeldKept ==
  ASSUME Shape, NEW u \in Threads, Held(u),
         pc'[u] = pc[u], kind'[u] = kind[u], objs'[u] = objs[u], idx'[u] = idx[u],
         HoldsSome(u) =>
           \A j \in 1..Len(objs[u]) :
             objs[u][j] \in SyncEvents /\ state[objs[u][j]] = 1 => state'[objs[u][j]] = 1
  PROVE  Held(u)'
  <1>1. CASE HoldsSome(u)
    <2>1. idx[u] \in 1..Len(objs[u]) /\ Len(objs[u]) \in Nat
      BY <1>1, HoldsAllWait
    <2> QED  BY <1>1, <2>1 DEF Held, HoldsSome
  <1>2. CASE ~HoldsSome(u)
    BY <1>2 DEF Held, HoldsSome
  <1> QED  BY <1>1, <1>2

\* No other thread consumes what a wait for all claims.
LEMMA NotShared ==
  ASSUME AllAlone, Shape, NEW t \in Threads, NEW u \in Threads, u # t,
         Waiting(t), HoldsSome(u), NEW j \in 1..Len(objs[u]),
         objs[u][j] \in SyncEvents
  PROVE  objs[u][j] # Obj(t)
  <1>1. objs[u] \in AllWaits[u]
    BY HoldsAllWait
  <1>2. /\ objs[u][j] \notin OneWaits[t]
        /\ \A other \in AnyWaits[t] \cup AllWaits[t] : objs[u][j] \notin Range(other)
    BY <1>1 DEF AllAlone
  <1>3. Obj(t) \in Range(objs[t])
    BY InBounds DEF Waiting
  <1>4. Listed(t)
    BY DEF Shape
  <1>5. CASE \E e \in OneWaits[t] : objs[t] = <<e>>
    <2>1. PICK e \in OneWaits[t] : objs[t] = <<e>>
      BY <1>5
    <2>2. Obj(t) = e
      BY <1>3, <2>1, RangeOfOne
    <2> QED  BY <1>2, <2>2
  <1>6. CASE objs[t] \in AnyWaits[t] \cup AllWaits[t]
    BY <1>2, <1>3, <1>6
  <1> QED  BY <1>4, <1>5, <1>6 DEF Listed

\* A step of t that clears its own object at most.
LEMMA OthersHeld ==
  ASSUME AllAlone, Shape, NEW t \in Threads, Waiting(t),
         \A x \in Events : state[x] = 1 /\ x # Obj(t) => state'[x] = 1,
         NEW u \in Threads, u # t, Held(u),
         pc'[u] = pc[u], kind'[u] = kind[u], objs'[u] = objs[u], idx'[u] = idx[u]
  PROVE  Held(u)'
  <1>1. ASSUME HoldsSome(u), NEW j \in 1..Len(objs[u]),
               objs[u][j] \in SyncEvents, state[objs[u][j]] = 1
        PROVE  state'[objs[u][j]] = 1
    <2>1. objs[u][j] \in Events
      BY GuestEventsAssumption, <1>1
    <2>2. objs[u][j] # Obj(t)
      BY <1>1, NotShared
    <2> QED  BY <1>1, <2>1, <2>2
  <1> QED  BY <1>1, HeldKept

LEMMA ConsumeCounts ==
  ASSUME Shape, OneSetOneWaiter, NEW e \in Events, Consume(e),
         e \in SyncEvents => state[e] = 1
  PROVE  /\ OneSetOneWaiter'
         /\ \A x \in Events : state[x] = 1 /\ x # e => state'[x] = 1
  BY DEF Shape, TypeOK, OneSetOneWaiter, Consume

LEMMA ClaimsInWait ==
  ASSUME AllAlone, Shape, Claims, NEW t \in Threads, Waiting(t),
         \A x \in Events : state[x] = 1 /\ x # Obj(t) => state'[x] = 1,
         UNCHANGED <<kind, objs>>,
         \A u \in Threads \ {t} : pc'[u] = pc[u] /\ idx'[u] = idx[u],
         Held(t)', OneSetOneWaiter'
  PROVE  Claims'
  <1>1. ASSUME NEW u \in Threads, u # t PROVE Held(u)'
    <2>1. Held(u)
      BY DEF Claims
    <2> QED  BY <1>1, <2>1, OthersHeld
  <1> QED  BY <1>1 DEF Claims

\* A wait that ends, or goes to a place where it claims nothing.
LEMMA ClaimsLeaves ==
  ASSUME AllAlone, Shape, Claims, NEW t \in Threads, Waiting(t),
         \A x \in Events : state[x] = 1 /\ x # Obj(t) => state'[x] = 1,
         UNCHANGED <<kind, objs>>,
         NEW there \in Pcs \ {"taking"}, Goto(t, there),
         there = "scan" /\ kind[t] = "all" => idx'[t] = 1,
         \A u \in Threads \ {t} : idx'[u] = idx[u],
         OneSetOneWaiter'
  PROVE  Claims'
  <1>1. pc'[t] = there /\ \A u \in Threads \ {t} : pc'[u] = pc[u]
    BY DEF Goto, Shape, TypeOK
  <1>2. Held(t)'
    BY <1>1 DEF Held
  <1> QED  BY <1>1, <1>2, ClaimsInWait

LEMMA ClaimsSingle ==
  ASSUME AllAlone, EventsInv, Claims, NEW t \in Threads,
         Look(t) \/ Take(t) \/ Generation(t) \/ TimesOut(t) \/ LooksAgain(t)
  PROVE  Claims'
  <1>1. Shape /\ Placed(t) /\ Grounds(t) /\ Waiting(t)
    BY DEF EventsInv, Shape, Reasons, Waiting, Look, Take, Generation, TimesOut, LooksAgain
  <1>2. Obj(t) \in Events
    BY <1>1, InBounds DEF Waiting
  <1>3. UNCHANGED <<kind, objs>> /\ \A u \in Threads \ {t} : idx'[u] = idx[u]
    BY DEF EventsInv, Shape, Look, Take, Generation, TimesOut, LooksAgain, Returns, waitVars
  <1>4. /\ \A x \in Events : state[x] = 1 /\ x # Obj(t) => state'[x] = 1
        /\ OneSetOneWaiter'
    <2>1. CASE UNCHANGED eventVars
      BY <2>1 DEF eventVars, Claims, OneSetOneWaiter
    <2>2. CASE Take(t)
      <3>1. CASE state[Obj(t)] = 1
        <4>1. state' = [state EXCEPT ![Obj(t)] = 0] /\ tokens' = [tokens EXCEPT ![Obj(t)] = @ - 1]
          BY <2>2, <3>1 DEF Take
        <4>2. ASSUME NEW e \in Events, e = Obj(t)
              PROVE  /\ \A x \in Events : state[x] = 1 /\ x # e => state'[x] = 1
                     /\ OneSetOneWaiter'
          BY <1>1, <3>1, <4>1, <4>2 DEF Shape, TypeOK, Claims, OneSetOneWaiter
        <4> QED  BY <1>2, <4>2
      <3>2. CASE state[Obj(t)] # 1
        BY <2>2, <3>2 DEF Take, Claims, OneSetOneWaiter
      <3> QED  BY <3>1, <3>2
    <2> QED  BY <2>1, <2>2 DEF Look, Generation, TimesOut, LooksAgain
  <1>5. \E there \in Pcs \ {"taking"} :
          Goto(t, there) /\ (there = "scan" /\ kind[t] = "all" => idx'[t] = 1)
    <2>1. CASE Look(t) \/ Take(t) \/ Generation(t) \/ TimesOut(t)
      BY <2>1 DEF Look, Take, Generation, TimesOut, Returns, Pcs
    <2>2. CASE LooksAgain(t)
      BY <1>1, <2>2 DEF LooksAgain, Grounds, Pcs, waitVars
    <2> QED  BY <2>1, <2>2
  <1> QED  BY <1>1, <1>3, <1>4, <1>5, ClaimsLeaves

LEMMA ClaimsMultiple ==
  ASSUME AllAlone, EventsInv, Claims, NEW t \in Threads,
         ScanAny(t) \/ ScanAll(t) \/ TakeAll(t)
  PROVE  Claims'
  <1>1. Shape /\ Held(t) /\ Waiting(t)
    BY DEF EventsInv, Claims, Waiting, ScanAny, ScanAll, TakeAll
  <1>2. Obj(t) \in Events /\ idx[t] \in 1..Len(objs[t]) /\ Len(objs[t]) \in Nat
    BY <1>1, InBounds DEF Waiting
  <1>3. UNCHANGED <<kind, objs>> /\ \A u \in Threads \ {t} : idx'[u] = idx[u]
    BY <1>1 DEF Shape, ScanAny, ScanAll, TakeAll, Returns, Rewind, Advance
  <1>4. UNCHANGED eventVars =>
          /\ OneSetOneWaiter'
          /\ \A x \in Events : state[x] = 1 /\ x # Obj(t) => state'[x] = 1
    BY DEF eventVars, Claims, OneSetOneWaiter
  <1>5. CASE ScanAny(t)
    <2>1. CASE state[Obj(t)] = 1 /\ Consume(Obj(t)) /\ Returns(t, "success")
      <3>1. /\ OneSetOneWaiter'
            /\ \A x \in Events : state[x] = 1 /\ x # Obj(t) => state'[x] = 1
        BY <1>1, <1>2, <2>1, ConsumeCounts DEF Claims
      <3>2. Goto(t, "idle")
        BY <2>1 DEF Returns
      <3> QED  BY <1>1, <1>3, <3>1, <3>2, ClaimsLeaves DEF Pcs
    <2>2. CASE UNCHANGED eventVars /\ Goto(t, "clock")
      BY <1>1, <1>3, <1>4, <2>2, ClaimsLeaves DEF Pcs
    <2>3. CASE UNCHANGED eventVars /\ UNCHANGED pc
      <3>1. Held(t)'
        BY <1>3, <1>5, <2>3 DEF ScanAny, Held
      <3> QED  BY <1>1, <1>3, <1>4, <2>3, <3>1, ClaimsInWait
    <2> QED  BY <1>5, <2>1, <2>2, <2>3 DEF ScanAny
  <1>6. CASE ScanAll(t)
    <2>0. /\ pc[t] = "scan" /\ kind[t] = "all" /\ UNCHANGED eventVars
          /\ state' = state
      BY <1>6 DEF ScanAll, eventVars
    <2>1. state[Obj(t)] = 1 =>
            \A j \in 1..idx[t] : objs[t][j] \in SyncEvents => state[objs[t][j]] = 1
      BY <1>1, <1>2, <2>0 DEF Held, Obj
    <2>2. CASE Rewind(t) /\ Goto(t, "clock")
      BY <1>1, <1>3, <1>4, <2>0, <2>2, ClaimsLeaves DEF Pcs
    <2>3. CASE state[Obj(t)] = 1 /\ Last(t) /\ Rewind(t) /\ Goto(t, "taking")
      <3>1. /\ pc'[t] = "taking" /\ idx'[t] = 1
            /\ \A u \in Threads \ {t} : pc'[u] = pc[u]
        BY <1>1, <2>3 DEF Shape, TypeOK, Rewind, Goto
      <3>2. Held(t)'
        BY <1>2, <1>3, <2>0, <2>1, <2>3, <3>1 DEF Held, Last
      <3> QED  BY <1>1, <1>3, <1>4, <2>0, <3>1, <3>2, ClaimsInWait
    <2>4. CASE state[Obj(t)] = 1 /\ ~Last(t) /\ Advance(t) /\ UNCHANGED pc
      <3>1. idx'[t] - 1 = idx[t]
        BY <1>1, <1>2, <2>4 DEF Shape, Advance
      <3>2. Held(t)'
        BY <1>2, <1>3, <2>0, <2>1, <2>4, <3>1 DEF Held
      <3> QED  BY <1>1, <1>3, <1>4, <2>0, <2>4, <3>2, ClaimsInWait
    <2> QED  BY <1>6, <2>2, <2>3, <2>4 DEF ScanAll
  <1>7. CASE TakeAll(t)
    <2>0. pc[t] = "taking" /\ Consume(Obj(t)) /\ HoldsSome(t)
      BY <1>7 DEF TakeAll, HoldsSome
    <2>1. Obj(t) \in SyncEvents => state[Obj(t)] = 1
      BY <1>1, <1>2, <2>0 DEF Held, Obj
    <2>2. /\ OneSetOneWaiter'
          /\ \A x \in Events : state[x] = 1 /\ x # Obj(t) => state'[x] = 1
      BY <1>1, <1>2, <2>0, <2>1, ConsumeCounts DEF Claims
    <2>3. CASE Last(t)
      BY <1>1, <1>3, <1>7, <2>2, <2>3, ClaimsLeaves DEF TakeAll, Returns, Pcs
    <2>4. CASE ~Last(t)
      <3>1. idx'[t] = idx[t] + 1 /\ UNCHANGED pc
        BY <1>1, <1>7, <2>4 DEF Shape, TakeAll, Advance
      <3>2. ASSUME NEW j \in (idx[t] + 1)..Len(objs[t]), objs[t][j] \in SyncEvents
            PROVE  state'[objs[t][j]] = 1
        <4>1. objs[t] \in AllWaits[t] /\ j \in 1..Len(objs[t]) /\ j # idx[t]
          BY <1>1, <1>2, <2>0, HoldsAllWait
        <4>2. objs[t][j] # Obj(t)
          BY <1>2, <3>2, <4>1 DEF AllAlone, Obj
        <4>3. objs[t][j] \in Events /\ state[objs[t][j]] = 1
          BY <1>1, <1>2, <2>0, <3>2, GuestEventsAssumption DEF Held
        <4> QED  BY <2>2, <4>2, <4>3
      <3>3. Held(t)'
        BY <1>3, <2>0, <3>1, <3>2 DEF Held
      <3> QED  BY <1>1, <1>3, <2>2, <3>1, <3>3, ClaimsInWait
    <2> QED  BY <2>3, <2>4
  <1> QED  BY <1>5, <1>6, <1>7

\* A step of a thread that is in no wait: the claims of the others stand as
\* long as it clears nothing they may claim.
LEMMA ClaimsOutside ==
  ASSUME AllAlone, Shape, Claims, NEW t \in Threads, ~Waiting(t),
         \A u \in Threads \ {t} :
           pc'[u] = pc[u] /\ kind'[u] = kind[u] /\ objs'[u] = objs[u] /\ idx'[u] = idx[u],
         ~HoldsSome(t)' \/ (pc'[t] = "scan" /\ idx'[t] = 1),
         \A x \in Events : state[x] = 1 /\ state'[x] # 1 =>
           x \in Cleared \/ (\A u \in Threads : Waiting(u) => x \notin Range(objs[u])),
         OneSetOneWaiter'
  PROVE  Claims'
  <1>1. Held(t)'
    BY DEF Held, HoldsSome
  <1>2. ASSUME NEW u \in Threads, u # t PROVE Held(u)'
    <2>1. ASSUME HoldsSome(u), NEW j \in 1..Len(objs[u]),
                 objs[u][j] \in SyncEvents, state[objs[u][j]] = 1
          PROVE  state'[objs[u][j]] = 1
      <3>1. objs[u] \in AllWaits[u] /\ Waiting(u) /\ objs[u] \in Seq(Events)
        BY <2>1, HoldsAllWait
      <3>2. objs[u][j] \notin Cleared
        BY <2>1, <3>1 DEF AllAlone
      <3>3. objs[u][j] \in Range(objs[u]) /\ objs[u][j] \in Events
        BY <3>1, InRange
      <3> QED  BY <2>1, <3>1, <3>2, <3>3
    <2>2. Held(u)
      BY DEF Claims
    <2> QED  BY <1>2, <2>1, <2>2, HeldKept
  <1> QED  BY <1>1, <1>2 DEF Claims

LEMMA ClaimsBegin ==
  ASSUME AllAlone, Shape, Claims, NEW t \in Threads, NEW k, NEW list, NEW lim,
         Begin(t, k, list, lim)
  PROVE  Claims'
  <1>1. ~Waiting(t) /\ state' = state /\ OneSetOneWaiter'
    BY DEF Begin, Waiting, eventVars, Claims, OneSetOneWaiter
  <1>2. \A u \in Threads \ {t} :
          pc'[u] = pc[u] /\ kind'[u] = kind[u] /\ objs'[u] = objs[u] /\ idx'[u] = idx[u]
    BY DEF Shape, TypeOK, Begin, Goto
  <1>3. pc'[t] \in {"look", "scan"} /\ idx'[t] = 1
    BY DEF Shape, TypeOK, Begin, Goto
  <1>4. ~HoldsSome(t)' \/ (pc'[t] = "scan" /\ idx'[t] = 1)
    BY <1>3 DEF HoldsSome
  <1> QED  BY <1>1, <1>2, <1>4, ClaimsOutside

LEMMA ClaimsWakes ==
  ASSUME AllAlone, Shape, Claims, NEW t \in Threads, NEW e \in Events,
         pc[t] = "idle", Wakes(t, e),
         \A x \in Events : state[x] = 1 /\ state'[x] # 1 => x \in Cleared,
         OneSetOneWaiter'
  PROVE  Claims'
  <1>1. \A u \in Threads \ {t} :
          pc'[u] = pc[u] /\ kind'[u] = kind[u] /\ objs'[u] = objs[u] /\ idx'[u] = idx[u]
    BY DEF Shape, TypeOK, Wakes, Goto
  <1>2. ~Waiting(t) /\ ~HoldsSome(t)'
    BY DEF Shape, TypeOK, Wakes, Goto, Waiting, HoldsSome
  <1> QED  BY <1>1, <1>2, ClaimsOutside

LEMMA ClaimsAside ==
  ASSUME AllAlone, Shape, Claims, NEW t \in Threads, pc[t] = "idle",
         UNCHANGED <<pc, waitVars>>,
         \A x \in Events : state[x] = 1 /\ state'[x] # 1 =>
           x \in Cleared \/ (\A u \in Threads : Waiting(u) => x \notin Range(objs[u])),
         OneSetOneWaiter'
  PROVE  Claims'
  <1>1. ~Waiting(t) /\ ~HoldsSome(t)'
    BY DEF Waiting, HoldsSome
  <1> QED  BY <1>1, ClaimsOutside DEF waitVars

LEMMA ClaimsCall ==
  ASSUME AllAlone, Shape, Claims, NEW t \in Threads, Call(t)
  PROVE  Claims'
  <1>1. PICK e \in Events :
          \/ Set(t, e) \/ Pulse(t, e) \/ Reset(t, e) \/ Clear(t, e)
          \/ \E s \in 0..1 : Initialize(t, e, s)
    BY DEF Call
  <1>2. pc[t] = "idle" /\ state \in [Events -> 0..1] /\ tokens \in [Events -> Int]
        /\ \A x \in Events : tokens[x] = state[x]
    BY <1>1 DEF Set, Pulse, Reset, Clear, Initialize, Shape, TypeOK, Claims, OneSetOneWaiter
  <1>3. CASE Set(t, e)
    <2>1. /\ \A x \in Events : state[x] = 1 /\ state'[x] # 1 => x \in Cleared
          /\ OneSetOneWaiter'
      BY <1>2, <1>3 DEF Set, OneSetOneWaiter
    <2> QED  BY <1>3, <2>1, ClaimsWakes DEF Set
  <1>4. CASE Pulse(t, e)
    <2>1. /\ \A x \in Events : state[x] = 1 /\ state'[x] # 1 => x \in Cleared
          /\ OneSetOneWaiter'
      BY <1>2, <1>4 DEF Pulse, OneSetOneWaiter
    <2> QED  BY <1>4, <2>1, ClaimsWakes DEF Pulse
  <1>5. CASE Reset(t, e)
    BY <1>2, <1>5, ClaimsAside DEF Reset, OneSetOneWaiter
  <1>6. CASE Clear(t, e)
    <2>1. /\ \A x \in Events : state[x] = 1 /\ state'[x] # 1 => x \in Cleared
          /\ OneSetOneWaiter'
      BY <1>2, <1>6 DEF Clear, OneSetOneWaiter
    <2> QED  BY <1>2, <1>6, <2>1, ClaimsAside DEF Clear
  <1>7. ASSUME NEW s \in 0..1, Initialize(t, e, s) PROVE Claims'
    <2>1. /\ \A x \in Events : state[x] = 1 /\ state'[x] # 1 => x = e
          /\ OneSetOneWaiter'
      BY <1>2, <1>7 DEF Initialize, OneSetOneWaiter
    <2>2. \A u \in Threads : Waiting(u) => e \notin Range(objs[u])
      BY <1>7 DEF Initialize, Waiting
    <2> QED  BY <1>2, <1>7, <2>1, <2>2, ClaimsAside DEF Initialize
  <1> QED  BY <1>1, <1>3, <1>4, <1>5, <1>6, <1>7

LEMMA ClaimsWake ==
  ASSUME AllAlone, Shape, Claims, NEW t \in Threads, Wake(t)
  PROVE  Claims'
  <1>1. \A u \in Threads \ {t} :
          pc'[u] = pc[u] /\ kind'[u] = kind[u] /\ objs'[u] = objs[u] /\ idx'[u] = idx[u]
    BY DEF Shape, TypeOK, Wake, Goto
  <1>2. ~Waiting(t) /\ ~HoldsSome(t)'
    BY DEF Shape, TypeOK, Wake, Goto, Waiting, HoldsSome
  <1>3. state' = state /\ OneSetOneWaiter'
    BY DEF Wake, eventVars, Claims, OneSetOneWaiter
  <1> QED  BY <1>1, <1>2, <1>3, ClaimsOutside

LEMMA ClaimsStep ==
  ASSUME AllAlone, EventsInv, Claims, [Next]_vars
  PROVE  Claims'
  <1>0. Shape
    BY DEF EventsInv
  <1>1. CASE Next
    <2>1. PICK t \in Threads : Begins(t) \/ Call(t) \/ Continue(t)
      BY <1>1 DEF Next
    <2>2. CASE Begins(t)
      BY <1>0, <2>2, ClaimsBegin DEF Begins
    <2>3. CASE Call(t)
      BY <1>0, <2>3, ClaimsCall
    <2>4. CASE Continue(t)
      BY <1>0, <2>4, ClaimsSingle, ClaimsMultiple, ClaimsWake DEF Continue
    <2> QED  BY <2>1, <2>2, <2>3, <2>4
  <1>2. CASE UNCHANGED vars
    BY <1>2 DEF vars, eventVars, waitVars, Claims, Held, OneSetOneWaiter
  <1> QED  BY <1>1, <1>2

\* However many threads set, pulse, clear and wait for the same events, alone
\* or in lists, a set of a synchronisation event is consumed once, by one wait
\* or one clear, provided that what the code never checks holds of the title:
\* no other wait or clear reaches such an event in the list of a wait for all.
THEOREM OneWaiterPerSet ==
  ASSUME AllAlone
  PROVE  Spec => []OneSetOneWaiter
  <1>1. Init => Claims
    BY DEF Init, Claims, Held, OneSetOneWaiter
  <1>2. EventsInv /\ Claims /\ [Next]_vars => Claims'
    BY ClaimsStep
  <1>3. Claims => OneSetOneWaiter
    BY DEF Claims
  <1> QED  BY <1>1, <1>2, <1>3, EventsInduction, PTL DEF Spec

=============================================================================
