--------------------------- MODULE DispatchProofs ---------------------------
(***************************************************************************)
(* What holds of deferred work and timers for every number of DPCs, timers *)
(* and executors and every size of the ring and of the table.              *)
(***************************************************************************)
EXTENDS Dispatch, FiniteSetTheorems, WellFoundedInduction, TLAPS

\* A set of slots that is not empty has a first one.
LEMMA FirstSlot ==
  ASSUME NEW S, S \subseteq Slots
  PROVE  /\ First(S) \subseteq S
         /\ \A i, j \in First(S) : i = j
         /\ S # {} => First(S) # {}
<1>1. CASE S = {}
  BY <1>1 DEF First
<1>2. CASE S # {}
  <2>1. S \subseteq Nat
    BY DispatchAssumption DEF Slots
  <2> DEFINE Less == {ss \in Nat \X Nat : ss[1] < ss[2]}
  <2>2. IsWellFoundedOn(Less, Nat)
    BY NatLessThanWellFounded DEF OpToRel
  <2> HIDE DEF Less
  <2>3. PICK i \in S : \A j \in S : ~ (<<j, i>> \in Less)
    BY <1>2, <2>1, <2>2, WFMin
  <2>4. ASSUME NEW j \in S  PROVE i <= j
    <3> DEFINE p == <<j, i>>
    <3>1. p \in Nat \X Nat /\ p[1] = j /\ p[2] = i
      BY <2>1
    <3>2. p \notin Less
      BY <2>3
    <3> HIDE DEF p
    <3>3. ~ (j < i)
      BY <3>1, <3>2 DEF Less
    <3> QED
      BY <2>1, <3>3
  <2>5. \E k \in S : \A j \in S : k <= j
    BY <2>4
  <2>6. First(S) = {CHOOSE k \in S : \A j \in S : k <= j}
    BY <1>2 DEF First
  <2> QED
    BY <2>5, <2>6
<1> QED
  BY <1>1, <1>2

\* The next place of the ring is a place.
LEMMA AfterPlace ==
  ASSUME NEW i \in Places
  PROVE  After(i) \in Places
  BY DispatchAssumption DEF After, Places

---------------------------------------------------------------------------
(* The inductive invariant *)

\* The executors that are starting the timer thread.
Starting == {x \in Executors : op[x] \in {"boot", "create", "begun"}}

\* While g_timer_started is 1 at most one executor starts the timer thread,
\* and its place in the three writes says which of them are done; else none
\* does, and all three are done or none.
BootInv ==
  /\ \A x, y \in Starting : x = y
  /\ \A x \in Starting :
       /\ started = 1
       /\ locks = IF op[x] = "boot" THEN 0 ELSE 1
       /\ clocks = IF op[x] = "begun" THEN 1 ELSE 0
  /\ started = 0 => locks = 0 /\ clocks = 0
  /\ started = 2 => locks = 1 /\ clocks = 1
  /\ locks <= 1 /\ clocks <= locks

USE DEF ringVars, tableVars, startVars, signalVars, callVars, clockVars

---------------------------------------------------------------------------
(* Types *)

LEMMA InitTypes == Init => TypeOK
  BY DispatchAssumption DEF Init, TypeOK, Ops, Ats, Slots, Places

\* An executor that runs lifted code may spend one of its calls.
LEMMA SpendTypes ==
  ASSUME TypeOK, NEW x \in Executors, Lifted(x), Spend(x)
  PROVE  budget' \in [Executors -> 0..RoutineCalls]
<1>1. CASE x \in Guests
  BY <1>1 DEF TypeOK, Spend
<1>2. CASE x \notin Guests
  <2>1. budget[x] > 0 /\ budget[x] \in 0..RoutineCalls
    BY <1>2 DEF TypeOK, Lifted
  <2>2. budget[x] - 1 \in 0..RoutineCalls
    BY <2>1, DispatchAssumption
  <2> QED
    BY <1>2, <2>2 DEF TypeOK, Spend
<1> QED
  BY <1>1, <1>2

LEMMA RoutineTypes ==
  ASSUME TypeOK, NEW x \in Executors, Fresh(x) \/ Ended(x)
  PROVE  budget' \in [Executors -> 0..RoutineCalls]
  BY DispatchAssumption DEF TypeOK, Fresh, Ended

LEMMA NextSlotTypes ==
  ASSUME TypeOK, NextSlot
  PROVE  at' \in Ats /\ slot' \in Slots
  BY DispatchAssumption DEF TypeOK, NextSlot, LastSlot, Slots, Ats

\* Writing a function of a type at one point.
LEMMA PutTypes ==
  ASSUME NEW D, NEW R, NEW f \in [D -> R], NEW a, NEW b \in R
  PROVE  [f EXCEPT ![a] = b] \in [D -> R]
  OBVIOUS

\* Each kernel call keeps the types.
LEMMA CallTypes ==
  ASSUME TypeOK, NEW x \in Executors, Call(x)
  PROVE  TypeOK'
<1>1. ASSUME NEW d \in Dpcs, Insert(x, d)  PROVE TypeOK'
  BY <1>1, AfterPlace, SpendTypes DEF TypeOK, Insert
<1>2. ASSUME NEW d \in Dpcs, Remove(x, d)  PROVE TypeOK'
  BY <1>2, SpendTypes DEF TypeOK, Remove, Emptied
<1>3. ASSUME NEW v \in Timers, SetTimer(x, v)  PROVE TypeOK'
  BY <1>3, SpendTypes DEF TypeOK, SetTimer, Goto, Ops
<1>4. ASSUME NEW v \in Timers, Cancel(x, v)  PROVE TypeOK'
  BY <1>4, SpendTypes DEF TypeOK, Cancel
<1>5. ASSUME NEW v \in Timers, WaitOne(x, v)  PROVE TypeOK'
  BY <1>5 DEF TypeOK, WaitOne, Goto, Ops
<1>6. ASSUME NEW v \in Timers, WaitAny(x, v)  PROVE TypeOK'
  BY <1>6 DEF TypeOK, WaitAny, Goto, Ops
<1> QED
  BY <1>1, <1>2, <1>3, <1>4, <1>5, <1>6 DEF Call

LEMMA ContinueTypes ==
  ASSUME TypeOK, NEW x \in Executors, Continue(x)
  PROVE  TypeOK'
<1>1. CASE InitLock(x) \/ StartClock(x) \/ Announce(x)
  BY <1>1 DEF TypeOK, InitLock, StartClock, Announce, Goto, Ops, Ats
<1>2. CASE Arm(x)
  BY <1>2 DEF TypeOK, Arm, Goto, Ops
<1>3. CASE Unset(x)
  BY <1>3 DEF TypeOK, Unset, Goto, Ops
<1>4. CASE Clear(x)
  <2>1. signal' \in [Timers -> 0..1]
    <3>1. signal \in [Timers -> 0..1] /\ 0 \in 0..1
      BY DEF TypeOK
    <3>2. signal' = [signal EXCEPT ![arg[x]] = 0]
      BY <1>4 DEF Clear
    <3> QED
      BY <3>1, <3>2, PutTypes, Zenon
  <2>2. op' \in [Executors -> Ops] /\ arg' \in [Executors -> Timers \cup {NoTimer}]
    BY <1>4 DEF TypeOK, Clear, Back, Ops
  <2> QED
    BY <1>4, <2>1, <2>2 DEF TypeOK, Clear
<1>5. CASE ResetShadow(x)
  BY <1>5 DEF TypeOK, ResetShadow, Back, Ops
<1> QED
  BY <1>1, <1>2, <1>3, <1>4, <1>5 DEF Continue

LEMMA ClockTypes ==
  ASSUME TypeOK, ClockStep
  PROVE  TypeOK'
<1> Clock \in Executors
  BY DEF Executors
<1>1. CASE Wake
  BY <1>1, RoutineTypes DEF TypeOK, Wake, Ats
<1>2. CASE IsrReturns
  BY <1>2, RoutineTypes DEF TypeOK, IsrReturns, Ats
<1>3. CASE DrainOne
  BY <1>3, RoutineTypes, AfterPlace DEF TypeOK, DrainOne, Ats
<1>4. CASE DpcReturns
  BY <1>4, RoutineTypes DEF TypeOK, DpcReturns, Ats
<1>5. CASE DrainDone
  BY <1>5 DEF TypeOK, DrainDone, Ats
<1>6. CASE NotDue
  BY <1>6, NextSlotTypes DEF TypeOK, NotDue
<1>7. CASE Expire
  BY <1>7, RoutineTypes DEF TypeOK, Expire, Ats
<1>8. CASE TimerDpcReturns
  BY <1>8, RoutineTypes DEF TypeOK, TimerDpcReturns, Ats
<1>9. CASE SetShadow
  BY <1>9 DEF TypeOK, SetShadow, Ats
<1>10. CASE SetHeader
  <2>1. signal' \in [Timers -> 0..1]
    <3>1. signal \in [Timers -> 0..1] /\ 1 \in 0..1
      BY DEF TypeOK
    <3>2. signal' = [signal EXCEPT ![fired] = 1]
      BY <1>10 DEF SetHeader
    <3> QED
      BY <3>1, <3>2, PutTypes, Zenon
  <2>2. at' \in Ats /\ slot' \in Slots
    BY <1>10, NextSlotTypes DEF SetHeader
  <2> QED
    BY <1>10, <2>1, <2>2 DEF TypeOK, SetHeader
<1> QED
  BY <1>1, <1>2, <1>3, <1>4, <1>5, <1>6, <1>7, <1>8, <1>9, <1>10 DEF ClockStep

LEMMA OtherTypes ==
  ASSUME TypeOK,
         \/ \E x \in Devices : DeviceIsr(x) \/ DeviceIsrReturns(x)
         \/ \E i \in Slots : FallsDue(i)
         \/ UNCHANGED vars
  PROVE  TypeOK'
<1>1. ASSUME NEW x \in Devices, DeviceIsr(x)  PROVE TypeOK'
  BY <1>1, RoutineTypes DEF TypeOK, DeviceIsr, Ops, Executors
<1>2. ASSUME NEW x \in Devices, DeviceIsrReturns(x)  PROVE TypeOK'
  BY <1>2, RoutineTypes DEF TypeOK, DeviceIsrReturns, Ops, Executors
<1>3. ASSUME NEW i \in Slots, FallsDue(i)  PROVE TypeOK'
  BY <1>3 DEF TypeOK, FallsDue
<1>4. CASE UNCHANGED vars
  BY <1>4 DEF TypeOK, vars
<1> QED
  BY <1>1, <1>2, <1>3, <1>4

---------------------------------------------------------------------------
(* The timer thread's start *)

\* What the start is about changes in SetTimer and in its three writes alone.
LEMMA BootStep ==
  ASSUME TypeOK, BootInv, [Next]_vars
  PROVE  BootInv'
<1>1. ASSUME NEW x \in Executors, NEW v \in Timers, SetTimer(x, v)
      PROVE  BootInv'
  <2>1. op' = [op EXCEPT ![x] = IF started = 0 THEN "boot" ELSE "arm"]
    BY <1>1 DEF SetTimer, Goto, MayBoot
  <2>2. started' = IF started = 0 THEN 1 ELSE started
    BY <1>1 DEF SetTimer, MayBoot
  <2>3. locks' = locks /\ clocks' = clocks
    BY <1>1 DEF SetTimer
  <2>4. \A y \in Executors : op'[y] = IF y = x THEN IF started = 0 THEN "boot" ELSE "arm"
                                                ELSE op[y]
    BY <2>1 DEF TypeOK
  <2>5. CASE started = 0
    <3>1. Starting = {}
      BY <2>5 DEF BootInv
    <3>2. Starting' = {x} /\ op'[x] = "boot"
      BY <2>4, <2>5, <3>1 DEF Starting
    <3> QED
      BY <2>2, <2>3, <2>5, <3>2 DEF BootInv
  <2>6. CASE started # 0
    <3>1. Starting' \subseteq Starting /\ \A y \in Starting' : op'[y] = op[y]
      BY <2>4, <2>6 DEF Starting
    <3> QED
      BY <2>2, <2>3, <2>6, <3>1 DEF BootInv
  <2> QED
    BY <2>5, <2>6
<1>2. ASSUME NEW x \in Executors, InitLock(x)
      PROVE  BootInv'
  <2>1. x \in Starting /\ started = 1 /\ locks = 0 /\ clocks = 0
    BY <1>2 DEF BootInv, InitLock, Starting
  <2>2. started' = 1 /\ locks' = 1 /\ clocks' = 0
    BY <1>2, <2>1 DEF InitLock
  <2>3. op'[x] = "create" /\ Starting' = {x}
    BY <1>2, <2>1 DEF TypeOK, InitLock, Goto, BootInv, Starting
  <2> QED
    BY <2>2, <2>3 DEF BootInv
<1>10. ASSUME NEW x \in Executors, StartClock(x)
       PROVE  BootInv'
  <2>1. x \in Starting /\ started = 1 /\ locks = 1 /\ clocks = 0
    BY <1>10 DEF BootInv, StartClock, Starting
  <2>2. started' = 1 /\ locks' = 1 /\ clocks' = 1
    BY <1>10, <2>1 DEF StartClock
  <2>3. op'[x] = "begun" /\ Starting' = {x}
    BY <1>10, <2>1 DEF TypeOK, StartClock, Goto, BootInv, Starting
  <2> QED
    BY <2>2, <2>3 DEF BootInv
<1>11. ASSUME NEW x \in Executors, Announce(x)
       PROVE  BootInv'
  <2>1. x \in Starting /\ locks = 1 /\ clocks = 1
    BY <1>11 DEF BootInv, Announce, Starting
  <2>2. started' = 2 /\ locks' = 1 /\ clocks' = 1
    BY <1>11, <2>1 DEF Announce
  <2>3. Starting' = {}
    BY <1>11, <2>1 DEF TypeOK, Announce, Goto, BootInv, Starting
  <2> QED
    BY <2>2, <2>3 DEF BootInv
<1> DEFINE Keeps == /\ UNCHANGED startVars
                    /\ Starting' \subseteq Starting
                    /\ \A y \in Starting' : op'[y] = op[y]
<1>3. ASSUME NEW x \in Executors, Call(x), ~ \E v \in Timers : SetTimer(x, v)
      PROVE  Keeps
  BY <1>3 DEF Call, Insert, Remove, Cancel, WaitOne, WaitAny, Goto, TypeOK, Starting
<1>4. ASSUME NEW x \in Executors, Arm(x) \/ Unset(x) \/ Clear(x) \/ ResetShadow(x)
      PROVE  Keeps
  BY <1>4 DEF Arm, Unset, Clear, ResetShadow, Goto, Back, TypeOK, Starting
<1>5. CASE ClockStep
  <2>1. Keeps
    BY <1>5 DEF ClockStep, Wake, IsrReturns, DrainOne, DpcReturns, DrainDone, NotDue,
                Expire, TimerDpcReturns, SetShadow, SetHeader, Starting
  <2> QED
    BY <2>1 DEF BootInv
<1>6. ASSUME NEW x \in Devices, DeviceIsr(x) \/ DeviceIsrReturns(x)
      PROVE  Keeps
  BY <1>6 DEF DeviceIsr, DeviceIsrReturns, TypeOK, Starting
<1>7. ASSUME NEW i \in Slots, FallsDue(i)
      PROVE  Keeps
  BY <1>7 DEF FallsDue, Starting
<1>8. CASE UNCHANGED vars
  BY <1>8 DEF vars, BootInv, Starting
<1>9. Keeps => BootInv'
  BY DEF BootInv
<1> QED
  BY <1>1, <1>2, <1>3, <1>4, <1>5, <1>6, <1>7, <1>8, <1>9, <1>10, <1>11
     DEF Next, Continue

---------------------------------------------------------------------------
(* The table *)

\* Setting a timer leaves it in one slot: its own, or one that was free.
LEMMA ArmStep ==
  ASSUME TypeOK, NoDoubleArm, NEW x \in Executors, Arm(x)
  PROVE  NoDoubleArm'
<1> DEFINE v == arg[x]
           S == SlotFor(v)
<1>1. Held(v) \subseteq Slots /\ FreeSlots \subseteq Slots
  BY DEF Held, FreeSlots
<1>2. /\ Held(v) # {} => S \subseteq Held(v) /\ S # {}
      /\ Held(v) = {} => S \subseteq FreeSlots
      /\ \A i, j \in S : i = j
  BY <1>1, FirstSlot DEF SlotFor
<1>3. \A i \in Slots : table'[i] = IF i \in S THEN v ELSE table[i]
  BY <1>2 DEF Arm
<1>4. ASSUME NEW i \in Slots, NEW j \in Slots,
             table'[i] = table'[j], table'[i] # NoTimer, i \in S, j \notin S
      PROVE  i = j
  <2>1. table[j] = v /\ v # NoTimer
    BY <1>3, <1>4
  <2>2. j \in Held(v)
    BY <2>1 DEF Held
  <2>3. table[i] = v
    BY <1>2, <1>4, <2>2 DEF Held
  <2> QED
    BY <2>1, <2>3 DEF NoDoubleArm
<1> HIDE DEF S, v
<1>5. ASSUME NEW i \in Slots, NEW j \in Slots,
             table'[i] = table'[j], table'[i] # NoTimer
      PROVE  i = j
  <2>1. CASE i \in S /\ j \in S
    BY <1>2, <2>1
  <2>2. CASE i \notin S /\ j \notin S
    BY <1>3, <1>5, <2>2 DEF NoDoubleArm
  <2> QED
    BY <1>4, <1>5, <2>1, <2>2
<1> QED
  BY <1>5 DEF NoDoubleArm

\* Every other step leaves a slot as it is or frees it.
LEMMA TableStep ==
  ASSUME TypeOK, NoDoubleArm, [Next]_vars
  PROVE  NoDoubleArm'
<1> DEFINE Frees == \A i \in Slots : table'[i] \in {table[i], NoTimer}
<1>1. Frees => NoDoubleArm'
  BY DEF NoDoubleArm
<1>2. ASSUME NEW x \in Executors, Call(x)
      PROVE  Frees
  BY <1>2 DEF Call, Insert, Remove, SetTimer, Cancel, WaitOne, WaitAny
<1>3. ASSUME NEW x \in Executors, Continue(x)
      PROVE  NoDoubleArm'
  <2>1. CASE Arm(x)
    BY <2>1, ArmStep
  <2>2. CASE \/ InitLock(x) \/ StartClock(x) \/ Announce(x)
             \/ Unset(x) \/ Clear(x) \/ ResetShadow(x)
    BY <2>2, <1>1 DEF InitLock, StartClock, Announce, Unset, Clear, ResetShadow
  <2> QED
    BY <1>3, <2>1, <2>2 DEF Continue
<1>4. CASE ClockStep
  <2>1. CASE Expire
    BY <2>1, <1>1 DEF Expire, TypeOK
  <2>2. CASE ~ Expire
    BY <1>1, <1>4, <2>2 DEF ClockStep, Wake, IsrReturns, DrainOne, DpcReturns,
       DrainDone, NotDue, TimerDpcReturns, SetShadow, SetHeader
  <2> QED
    BY <2>1, <2>2
<1>5. ASSUME NEW x \in Devices, DeviceIsr(x) \/ DeviceIsrReturns(x)
      PROVE  Frees
  BY <1>5 DEF DeviceIsr, DeviceIsrReturns
<1>6. ASSUME NEW i \in Slots, FallsDue(i)
      PROVE  Frees
  BY <1>6 DEF FallsDue
<1>7. CASE UNCHANGED vars
  BY <1>7, <1>1 DEF vars
<1> QED
  BY <1>1, <1>2, <1>3, <1>4, <1>5, <1>6, <1>7 DEF Next

---------------------------------------------------------------------------
(* The ring *)

\* The entries of the ring and the flags of the DPCs say the same.
RingInv ==
  /\ \A i \in Pending : ring[i] # NoDpc => inserted[ring[i]]
  /\ \A i, j \in Pending : ring[i] = ring[j] /\ ring[i] # NoDpc => i = j
  /\ \A d \in Dpcs : inserted[d] => \E i \in Pending : ring[i] = d

\* How far one place of the ring is after another.
LEMMA Distance ==
  ASSUME NEW i \in Places, NEW h \in Places
  PROVE  (i - h) % RingSize = IF h <= i THEN i - h ELSE i - h + RingSize
<1>1. /\ RingSize \in Nat /\ RingSize > 1
      /\ i \in Int /\ 0 <= i /\ i < RingSize
      /\ h \in Int /\ 0 <= h /\ h < RingSize
  BY DispatchAssumption DEF Places
<1>2. CASE h <= i
  <2>1. i - h \in 0..RingSize - 1
    BY <1>1, <1>2
  <2> QED
    BY <1>1, <1>2, <2>1
<1>3. CASE i < h
  <2>1. i - h + RingSize \in 0..RingSize - 1
    BY <1>1, <1>3
  <2>2. (i - h) % RingSize = (i - h + RingSize) % RingSize
    BY <1>1, <1>3
  <2> QED
    BY <1>1, <1>3, <2>1, <2>2
<1> QED
  BY <1>1, <1>2, <1>3

\* The same without remainders: the places from h up to t.
LEMMA Span ==
  ASSUME NEW i \in Places, NEW h \in Places, NEW t \in Places
  PROVE  (i - h) % RingSize < (t - h) % RingSize
           <=> IF h <= t THEN h <= i /\ i < t ELSE h <= i \/ i < t
  BY Distance, DispatchAssumption DEF Places

LEMMA AfterIs ==
  ASSUME NEW i \in Places
  PROVE  After(i) = IF i = RingSize - 1 THEN 0 ELSE i + 1
<1>1. RingSize \in Nat /\ RingSize > 1 /\ i \in Int /\ 0 <= i /\ i < RingSize
  BY DispatchAssumption DEF Places
<1>2. CASE i = RingSize - 1
  BY <1>1, <1>2 DEF After
<1>3. CASE i < RingSize - 1
  BY <1>1, <1>3 DEF After
<1> QED
  BY <1>1, <1>2, <1>3

\* The place at the tail joins the pending ones, if it does not meet the head.
LEMMA TailJoins ==
  ASSUME NEW i \in Places, NEW h \in Places, NEW t \in Places, After(t) # h
  PROVE  /\ ~ ((t - h) % RingSize < (t - h) % RingSize)
         /\ (i - h) % RingSize < (After(t) - h) % RingSize
              <=> (i - h) % RingSize < (t - h) % RingSize \/ i = t
<1>1. After(t) \in Places
  BY AfterPlace
<1>2. RingSize \in Nat /\ RingSize > 1 /\ i \in Int /\ h \in Int /\ t \in Int
      /\ 0 <= i /\ i < RingSize /\ 0 <= h /\ h < RingSize /\ 0 <= t /\ t < RingSize
  BY DispatchAssumption DEF Places
<1>3. (i - h) % RingSize < (t - h) % RingSize
        <=> IF h <= t THEN h <= i /\ i < t ELSE h <= i \/ i < t
  BY Span
<1>4. (i - h) % RingSize < (After(t) - h) % RingSize
        <=> IF h <= After(t) THEN h <= i /\ i < After(t) ELSE h <= i \/ i < After(t)
  BY <1>1, Span
<1>5. ~ ((t - h) % RingSize < (t - h) % RingSize)
  BY Span, <1>2
<1> QED
  BY <1>2, <1>3, <1>4, <1>5, AfterIs

\* The place at the head leaves them, if there is one.
LEMMA HeadLeaves ==
  ASSUME NEW i \in Places, NEW h \in Places, NEW t \in Places, h # t
  PROVE  /\ (h - h) % RingSize < (t - h) % RingSize
         /\ (i - After(h)) % RingSize < (t - After(h)) % RingSize
              <=> (i - h) % RingSize < (t - h) % RingSize /\ i # h
<1>1. After(h) \in Places
  BY AfterPlace
<1>2. RingSize \in Nat /\ RingSize > 1 /\ i \in Int /\ h \in Int /\ t \in Int
      /\ 0 <= i /\ i < RingSize /\ 0 <= h /\ h < RingSize /\ 0 <= t /\ t < RingSize
  BY DispatchAssumption DEF Places
<1>3. (i - h) % RingSize < (t - h) % RingSize
        <=> IF h <= t THEN h <= i /\ i < t ELSE h <= i \/ i < t
  BY Span
<1>4. (i - After(h)) % RingSize < (t - After(h)) % RingSize
        <=> IF After(h) <= t THEN After(h) <= i /\ i < t ELSE After(h) <= i \/ i < t
  BY <1>1, Span
<1>5. (h - h) % RingSize < (t - h) % RingSize
  BY Span, <1>2
<1> QED
  BY <1>2, <1>3, <1>4, <1>5, AfterIs

LEMMA InsertStep ==
  ASSUME TypeOK, RingInv, NEW x \in Executors, NEW d \in Dpcs, Insert(x, d)
  PROVE  RingInv'
<1>1. head \in Places /\ tail \in Places /\ d # NoDpc
  BY DispatchAssumption DEF TypeOK
<1>2. Pending' = Pending \cup {tail} /\ tail \notin Pending
  BY <1>1, TailJoins DEF Insert, Pending
<1>3. \A i \in Places : ring'[i] = IF i = tail THEN d ELSE ring[i]
  BY DEF Insert, TypeOK
<1>4. \A e \in Dpcs : inserted'[e] <=> e = d \/ inserted[e]
  BY DEF Insert, TypeOK
<1>5. Pending \subseteq Places /\ \A i \in Pending : ring[i] \in Dpcs \cup {NoDpc}
  BY DEF Pending, TypeOK
<1>6. \A i \in Pending : ring[i] # d
  BY <1>1, <1>5 DEF RingInv, Insert
<1>7. \A i \in Pending' : ring'[i] # NoDpc => inserted'[ring'[i]]
  BY <1>1, <1>2, <1>3, <1>4, <1>5 DEF RingInv
<1>8. \A i, j \in Pending' : ring'[i] = ring'[j] /\ ring'[i] # NoDpc => i = j
  BY <1>1, <1>2, <1>3, <1>5, <1>6 DEF RingInv
<1>9. \A e \in Dpcs : inserted'[e] => \E i \in Pending' : ring'[i] = e
  BY <1>1, <1>2, <1>3, <1>4, <1>5 DEF RingInv
<1> QED
  BY <1>7, <1>8, <1>9 DEF RingInv

LEMMA RemoveStep ==
  ASSUME TypeOK, RingInv, NEW x \in Executors, NEW d \in Dpcs, Remove(x, d)
  PROVE  RingInv'
<1>1. Pending' = Pending /\ Pending \subseteq Places
  BY DEF Remove, Pending
<1>2. \A i \in Pending : ring'[i] = IF ring[i] = d THEN NoDpc ELSE ring[i]
  BY <1>1 DEF Remove, Emptied
<1>3. \A e \in Dpcs : inserted'[e] <=> e # d /\ inserted[e]
  BY DEF Remove, TypeOK
<1>4. \A i \in Pending : ring[i] \in Dpcs \cup {NoDpc}
  BY <1>1 DEF TypeOK
<1>5. \A i \in Pending' : ring'[i] # NoDpc => inserted'[ring'[i]]
  BY <1>1, <1>2, <1>3, <1>4 DEF RingInv
<1>6. \A i, j \in Pending' : ring'[i] = ring'[j] /\ ring'[i] # NoDpc => i = j
  BY <1>1, <1>2, <1>4 DEF RingInv
<1>7. \A e \in Dpcs : inserted'[e] => \E i \in Pending' : ring'[i] = e
  BY <1>1, <1>2, <1>3, <1>4 DEF RingInv
<1> QED
  BY <1>5, <1>6, <1>7 DEF RingInv

LEMMA DrainStep ==
  ASSUME TypeOK, RingInv, DrainOne
  PROVE  RingInv'
<1>1. head \in Places /\ tail \in Places
  BY DEF TypeOK
<1>2. Pending' = Pending \ {head} /\ head \in Pending
  BY <1>1, HeadLeaves DEF DrainOne, Pending
<1>3. Pending \subseteq Places /\ \A i \in Pending : ring[i] \in Dpcs \cup {NoDpc}
  BY DEF Pending, TypeOK
<1>4. \A i \in Pending' : ring'[i] = ring[i]
  BY <1>2, <1>3 DEF DrainOne, TypeOK
<1>5. \A e \in Dpcs : inserted'[e] <=> e # ring[head] /\ inserted[e]
  BY DispatchAssumption DEF DrainOne, TypeOK
<1>6. \A i \in Pending' : ring'[i] # NoDpc => inserted'[ring'[i]]
  BY <1>2, <1>3, <1>4, <1>5 DEF RingInv
<1>7. \A i, j \in Pending' : ring'[i] = ring'[j] /\ ring'[i] # NoDpc => i = j
  BY <1>2, <1>3, <1>4 DEF RingInv
<1>8. \A e \in Dpcs : inserted'[e] => \E i \in Pending' : ring'[i] = e
  BY <1>2, <1>3, <1>4, <1>5 DEF RingInv
<1> QED
  BY <1>6, <1>7, <1>8 DEF RingInv

LEMMA RingStep ==
  ASSUME TypeOK, RingInv, [Next]_vars
  PROVE  RingInv'
<1>1. ASSUME UNCHANGED ringVars  PROVE RingInv'
  BY <1>1 DEF RingInv, Pending
<1>2. ASSUME NEW x \in Executors, Call(x)
      PROVE  RingInv'
  <2>1. ASSUME NEW d \in Dpcs, Insert(x, d) \/ Remove(x, d)
        PROVE  RingInv'
    BY <2>1, InsertStep, RemoveStep
  <2>2. ASSUME NEW v \in Timers,
               SetTimer(x, v) \/ Cancel(x, v) \/ WaitOne(x, v) \/ WaitAny(x, v)
        PROVE  RingInv'
    BY <1>1, <2>2 DEF SetTimer, Cancel, WaitOne, WaitAny
  <2> QED
    BY <1>2, <2>1, <2>2 DEF Call
<1>3. ASSUME NEW x \in Executors, Continue(x)
      PROVE  RingInv'
  BY <1>1, <1>3 DEF Continue, InitLock, StartClock, Announce, Arm, Unset, Clear,
                        ResetShadow
<1>4. CASE ClockStep
  <2>1. CASE DrainOne
    BY <2>1, DrainStep
  <2>2. CASE ~ DrainOne
    BY <1>1, <1>4, <2>2 DEF ClockStep, Wake, IsrReturns, DpcReturns, DrainDone,
       NotDue, Expire, TimerDpcReturns, SetShadow, SetHeader
  <2> QED
    BY <2>1, <2>2
<1>5. ASSUME NEW x \in Devices, DeviceIsr(x) \/ DeviceIsrReturns(x)
      PROVE  RingInv'
  BY <1>1, <1>5 DEF DeviceIsr, DeviceIsrReturns
<1>6. ASSUME NEW i \in Slots, FallsDue(i)
      PROVE  RingInv'
  BY <1>1, <1>6 DEF FallsDue
<1>7. CASE UNCHANGED vars
  BY <1>1, <1>7 DEF vars
<1> QED
  BY <1>2, <1>3, <1>4, <1>5, <1>6, <1>7 DEF Next

---------------------------------------------------------------------------
(* Theorems *)

IInv == TypeOK /\ BootInv /\ NoDoubleArm /\ RingInv

\* The invariant holds of every behaviour of the timer code.
THEOREM Inductive == Spec => []IInv
<1>1. Init => IInv
  <2>1. Init => BootInv
    BY DEF Init, BootInv, Starting
  <2>2. Init => NoDoubleArm
    BY DEF Init, NoDoubleArm
  <2>3. Init => RingInv
    <3>1. Init => \A i \in Pending : ring[i] = NoDpc
      BY DEF Init, Pending
    <3>2. Init => \A d \in Dpcs : ~ inserted[d]
      BY DEF Init
    <3> QED
      BY <3>1, <3>2 DEF RingInv
  <2> QED
    BY <2>1, <2>2, <2>3, InitTypes DEF IInv
<1>2. IInv /\ [Next]_vars => IInv'
  <2> SUFFICES ASSUME IInv, [Next]_vars  PROVE IInv'
    OBVIOUS
  <2>1. TypeOK'
    BY CallTypes, ContinueTypes, ClockTypes, OtherTypes DEF IInv, Next
  <2> QED
    BY <2>1, BootStep, TableStep, RingStep DEF IInv
<1> QED
  BY <1>1, <1>2, PTL DEF Spec

\* Every variable of deferred work and timers keeps its type: the ring's
\* indices stay places of the ring, the scan's index a slot of the table.
THEOREM TypeCorrect == Spec => []TypeOK
<1>1. IInv => TypeOK
  BY DEF IInv
<1> QED
  BY <1>1, Inductive, PTL

\* However many threads set a title's first timer at the same moment, the
\* table's lock is initialised once and one timer thread is made, after the
\* lock and before anybody else is let to the table.
THEOREM OneTimerThread == Spec => []OneClock
<1>1. IInv => OneClock
  BY DEF IInv, BootInv, OneClock, TypeOK
<1> QED
  BY <1>1, Inductive, PTL

\* A timer that is set and set again, also while the timer thread frees slots
\* in the middle of its scan, is in one slot at most.
THEOREM OneSlotPerTimer == Spec => []NoDoubleArm
<1>1. IInv => NoDoubleArm
  BY DEF IInv
<1> QED
  BY <1>1, Inductive, PTL

\* The Inserted byte of a DPC and the ring agree, in rings of any size: a
\* flagged DPC is pending at one place, one that is not flagged at none.
THEOREM FlagsMatchRing == Spec => []RingExact
<1>1. ASSUME IInv, NEW d \in Dpcs
      PROVE  Cardinality({i \in Pending : ring[i] = d}) = IF inserted[d] THEN 1 ELSE 0
  <2> DEFINE S == {i \in Pending : ring[i] = d}
  <2>1. d # NoDpc
    BY DispatchAssumption
  <2>2. CASE inserted[d]
    <3>1. PICK i \in Pending : ring[i] = d
      BY <1>1, <2>2 DEF IInv, RingInv
    <3>2. S = {i}
      BY <1>1, <2>1, <3>1 DEF IInv, RingInv
    <3> QED
      BY <2>2, <3>2, FS_Singleton
  <2>3. CASE ~ inserted[d]
    <3>1. S = {}
      BY <1>1, <2>1, <2>3 DEF IInv, RingInv
    <3> QED
      BY <2>3, <3>1, FS_EmptySet
  <2> QED
    BY <2>2, <2>3
<1>2. IInv => RingExact
  BY <1>1 DEF RingExact
<1> QED
  BY <1>2, Inductive, PTL

---------------------------------------------------------------------------
(* The ring is a queue *)

\* In the queue, and ahead of another in it.
Waits(d) == Entry(d) # {}
Ahead(d, e) == \E i \in Entry(d), j \in Entry(e) : Before(i, j)

\* Steps of the queue by what they do to its elements.
LEMMA QueueSame ==
  ASSUME \A d \in Dpcs : Waits(d)' <=> Waits(d),
         \A d, e \in Dpcs : Ahead(d, e)' <=> Ahead(d, e)
  PROVE  /\ {d \in Dpcs : Entry(d) # {}}' = {d \in Dpcs : Entry(d) # {}}
         /\ {p \in Dpcs \X Dpcs : \E i \in Entry(p[1]), j \in Entry(p[2]) : Before(i, j)}' =
            {p \in Dpcs \X Dpcs : \E i \in Entry(p[1]), j \in Entry(p[2]) : Before(i, j)}
<1>1. \A p \in Dpcs \X Dpcs : p[1] \in Dpcs /\ p[2] \in Dpcs
  OBVIOUS
<1> QED
  BY <1>1 DEF Waits, Ahead

LEMMA QueueGains ==
  ASSUME NEW d \in Dpcs, ~Waits(d),
         \A e \in Dpcs : Waits(e)' <=> e = d \/ Waits(e),
         \A e, f \in Dpcs : Ahead(e, f)' <=> Ahead(e, f) \/ (Waits(e) /\ f = d),
         (at = "dpc")' = (at = "dpc")
  PROVE  Queue!Insert(d)
<1>1. \A p \in Dpcs \X Dpcs : p[1] \in Dpcs /\ p[2] \in Dpcs /\ p = <<p[1], p[2]>>
  OBVIOUS
<1>2. {e \in Dpcs : Entry(e) # {}}' = {e \in Dpcs : Entry(e) # {}} \cup {d}
  BY DEF Waits
<1>3. {p \in Dpcs \X Dpcs : \E i \in Entry(p[1]), j \in Entry(p[2]) : Before(i, j)}' =
        {p \in Dpcs \X Dpcs : \E i \in Entry(p[1]), j \in Entry(p[2]) : Before(i, j)}
          \cup ({e \in Dpcs : Entry(e) # {}} \X {d})
  BY <1>1 DEF Waits, Ahead
<1> QED
  BY <1>2, <1>3 DEF Queue!Insert, Waits

LEMMA QueueLoses ==
  ASSUME NEW d \in Dpcs, Waits(d),
         \A e \in Dpcs : Waits(e)' <=> e # d /\ Waits(e),
         \A e, f \in Dpcs : Ahead(e, f)' <=> Ahead(e, f) /\ e # d /\ f # d
  PROVE  Queue!Leaves(d)
<1>1. \A p \in Dpcs \X Dpcs : p[1] \in Dpcs /\ p[2] \in Dpcs
  OBVIOUS
<1>2. {e \in Dpcs : Entry(e) # {}}' = {e \in Dpcs : Entry(e) # {}} \ {d}
  BY DEF Waits
<1> DEFINE A == {p \in Dpcs \X Dpcs : \E i \in Entry(p[1]), j \in Entry(p[2]) : Before(i, j)}
<1>3. A' = {p \in A : p[1] # d /\ p[2] # d}
  BY <1>1 DEF Ahead
<1> QED
  BY <1>2, <1>3 DEF Queue!Leaves, Waits

\* A DPC has one place in the ring at most, and one if it is flagged.
LEMMA EntryIs ==
  ASSUME IInv, NEW d \in Dpcs
  PROVE  /\ Entry(d) \subseteq Pending /\ Pending \subseteq Places /\ d # NoDpc
         /\ Waits(d) <=> inserted[d]
         /\ \A i, j \in Entry(d) : i = j
  BY DispatchAssumption DEF IInv, RingInv, Entry, Pending, Waits

LEMMA InsertQueues ==
  ASSUME IInv, NEW x \in Executors, NEW d \in Dpcs, Insert(x, d)
  PROVE  Queue!Insert(d)
<1>1. head \in Places /\ tail \in Places /\ d # NoDpc /\ Pending \subseteq Places
  BY DispatchAssumption DEF IInv, TypeOK, Pending
<1>2. Pending' = Pending \cup {tail} /\ tail \notin Pending
  BY <1>1, TailJoins DEF Insert, Pending
<1>3. \A i \in Places : ring'[i] = IF i = tail THEN d ELSE ring[i]
  BY DEF Insert, IInv, TypeOK
<1>4. Entry(d) = {}
  BY EntryIs DEF Insert, Waits
<1>5. ASSUME NEW e \in Dpcs  PROVE Entry(e)' = IF e = d THEN {tail} ELSE Entry(e)
  BY <1>1, <1>2, <1>3, <1>4 DEF Entry
<1>6. \A i, j : Before(i, j)' <=> Before(i, j)
  BY DEF Insert, Before
<1>7. /\ \A i \in Pending : Before(i, tail) /\ ~Before(tail, i)
      /\ ~Before(tail, tail)
  <2>1. ASSUME NEW i \in Places  PROVE (i - head) % RingSize \in Int
    BY <1>1, Distance, DispatchAssumption DEF Places
  <2> QED
    BY <1>1, <2>1 DEF Before, Pending
<1>8. \A e \in Dpcs : Waits(e)' <=> e = d \/ Waits(e)
  BY <1>5 DEF Waits
<1>9. ASSUME NEW e \in Dpcs, NEW f \in Dpcs
      PROVE  Ahead(e, f)' <=> Ahead(e, f) \/ (Waits(e) /\ f = d)
  <2>1. Entry(e) \subseteq Pending /\ Entry(f) \subseteq Pending
    BY EntryIs
  <2>2. Ahead(e, f)' <=> \E i \in Entry(e)', j \in Entry(f)' : Before(i, j)
    BY <1>6 DEF Ahead
  <2>3. CASE e = d
    BY <1>4, <1>5, <1>7, <2>1, <2>2, <2>3 DEF Ahead, Waits
  <2>4. CASE e # d /\ f = d
    BY <1>4, <1>5, <1>7, <2>1, <2>2, <2>4 DEF Ahead, Waits
  <2>5. CASE e # d /\ f # d
    BY <1>5, <2>2, <2>5 DEF Ahead
  <2> QED
    BY <2>3, <2>4, <2>5
<1>10. at' = at /\ ~Waits(d)
  BY <1>4 DEF Insert, Waits
<1> QED
  BY <1>8, <1>9, <1>10, QueueGains

LEMMA RemoveQueues ==
  ASSUME IInv, NEW x \in Executors, NEW d \in Dpcs, Remove(x, d)
  PROVE  Queue!Remove(d)
<1>1. Pending' = Pending /\ Pending \subseteq Places /\ d # NoDpc
  BY DispatchAssumption DEF Remove, Pending
<1>2. \A i \in Pending : ring'[i] = IF ring[i] = d THEN NoDpc ELSE ring[i]
  BY <1>1 DEF Remove, Emptied
<1>3. ASSUME NEW e \in Dpcs  PROVE Entry(e)' = IF e = d THEN {} ELSE Entry(e)
  <2>1. e # NoDpc
    BY DispatchAssumption
  <2> QED
    BY <1>1, <1>2, <2>1 DEF Entry
<1>4. \A i, j : Before(i, j)' <=> Before(i, j)
  BY DEF Remove, Before
<1>5. \A e \in Dpcs : Waits(e)' <=> e # d /\ Waits(e)
  BY <1>3 DEF Waits
<1>6. \A e, f \in Dpcs : Ahead(e, f)' <=> Ahead(e, f) /\ e # d /\ f # d
  BY <1>3, <1>4 DEF Ahead
<1>7. Waits(d) /\ at' = at
  BY EntryIs DEF Remove
<1> QED
  BY <1>5, <1>6, <1>7, QueueLoses DEF Queue!Remove

\* With the head gone, the places behind it are in the same order.
LEMMA OrderStays ==
  ASSUME NEW h \in Places, NEW i \in Places, NEW j \in Places, i # h, j # h
  PROVE  (i - After(h)) % RingSize < (j - After(h)) % RingSize
           <=> (i - h) % RingSize < (j - h) % RingSize
<1>1. After(h) \in Places
  BY AfterPlace
<1>2. RingSize \in Nat /\ RingSize > 1 /\ i \in Int /\ h \in Int /\ j \in Int
      /\ 0 <= i /\ i < RingSize /\ 0 <= h /\ h < RingSize /\ 0 <= j /\ j < RingSize
  BY DispatchAssumption DEF Places
<1>3. (i - After(h)) % RingSize < (j - After(h)) % RingSize
        <=> IF After(h) <= j THEN After(h) <= i /\ i < j ELSE After(h) <= i \/ i < j
  BY <1>1, Span
<1>4. (i - h) % RingSize < (j - h) % RingSize
        <=> IF h <= j THEN h <= i /\ i < j ELSE h <= i \/ i < j
  BY Span
<1> QED
  BY <1>2, <1>3, <1>4, AfterIs

LEMMA DrainPlaces ==
  ASSUME IInv, DrainOne
  PROVE  /\ head \in Pending /\ Pending \subseteq Places
         /\ Pending' \subseteq Pending
         /\ \A e \in Dpcs : Entry(e)' = Entry(e) \ {head}
         /\ \A i, j \in Pending' : Before(i, j)' <=> Before(i, j)
         /\ \A i \in Pending : ~Before(i, head)
<1>1. head \in Places /\ tail \in Places
  BY DEF IInv, TypeOK
<1>2. Pending' = Pending \ {head} /\ head \in Pending /\ Pending \subseteq Places
  BY <1>1, HeadLeaves DEF DrainOne, Pending
<1>3. \A i \in Pending' : ring'[i] = ring[i]
  BY <1>2 DEF DrainOne, IInv, TypeOK
<1>4. ASSUME NEW i \in Pending', NEW j \in Pending'
      PROVE  Before(i, j)' <=> Before(i, j)
  BY <1>1, <1>2, OrderStays DEF DrainOne, Before
<1>5. \A i \in Pending : ~Before(i, head)
  <2>1. ASSUME NEW i \in Pending
        PROVE  (i - head) % RingSize >= (head - head) % RingSize
    BY <1>1, <1>2, Distance, DispatchAssumption DEF Places
  <2>2. ASSUME NEW i \in Places  PROVE (i - head) % RingSize \in Int
    BY <1>1, Distance, DispatchAssumption DEF Places
  <2> QED
    BY <1>1, <1>2, <2>1, <2>2 DEF Before
<1>6. ASSUME NEW e \in Dpcs  PROVE Entry(e)' = Entry(e) \ {head}
  BY <1>2, <1>3 DEF Entry
<1> QED
  BY <1>2, <1>4, <1>5, <1>6

\* A removed DPC's entry is taken without a trace in the queue.
LEMMA DrainSkips ==
  ASSUME IInv, DrainOne, ring[head] = NoDpc
  PROVE  UNCHANGED Queue!vars
<1>1. ASSUME NEW e \in Dpcs
      PROVE  Entry(e)' = Entry(e) /\ Entry(e) \subseteq Pending'
  <2>1. head \notin Entry(e)
    BY DispatchAssumption DEF Entry
  <2>2. Entry(e)' = Entry(e)
    BY <2>1, DrainPlaces
  <2> QED
    BY <2>2 DEF Entry
<1>2. \A e \in Dpcs : Waits(e)' <=> Waits(e)
  BY <1>1 DEF Waits
<1>3. \A e, f \in Dpcs : Ahead(e, f)' <=> Ahead(e, f)
  BY <1>1, DrainPlaces DEF Ahead
<1>4. at' = at
  BY DEF DrainOne
<1> QED
  BY <1>2, <1>3, <1>4, QueueSame DEF Queue!vars

LEMMA DrainRuns ==
  ASSUME IInv, DrainOne, NEW d \in Dpcs, ring[head] = d
  PROVE  Queue!Run(d)
<1>1. head \in Entry(d)
  BY DrainPlaces DEF Entry
<1>2. Entry(d) = {head}
  BY <1>1, EntryIs
<1>3. Waits(d) /\ Entry(d)' = {}
  BY <1>2, DrainPlaces DEF Waits
<1>4. ASSUME NEW e \in Dpcs, e # d
      PROVE  Entry(e)' = Entry(e) /\ Entry(e) \subseteq Pending'
  <2>1. head \notin Entry(e)
    BY <1>4 DEF Entry
  <2>2. Entry(e)' = Entry(e)
    BY <2>1, DrainPlaces
  <2> QED
    BY <2>2 DEF Entry
<1>5. \A e \in Dpcs : Waits(e)' <=> e # d /\ Waits(e)
  BY <1>3, <1>4 DEF Waits
<1>6. ASSUME NEW e \in Dpcs, NEW f \in Dpcs
      PROVE  Ahead(e, f)' <=> Ahead(e, f) /\ e # d /\ f # d
  <2>1. CASE e = d \/ f = d
    BY <1>3, <2>1 DEF Ahead
  <2>2. CASE e # d /\ f # d
    BY <1>4, <2>2, DrainPlaces DEF Ahead
  <2> QED
    BY <2>1, <2>2
<1>7. Queue!Leaves(d)
  BY <1>3, <1>5, <1>6, QueueLoses
<1>8. ASSUME NEW e \in Dpcs  PROVE ~Ahead(e, d)
  BY <1>2, EntryIs, DrainPlaces DEF Ahead
<1>9. at = "drain" /\ at' = "dpc"
  BY DispatchAssumption DEF DrainOne
<1> DEFINE A == {p \in Dpcs \X Dpcs : \E i \in Entry(p[1]), j \in Entry(p[2]) : Before(i, j)}
<1>10. \A e \in Dpcs : <<e, d>> \notin A
  BY <1>8 DEF Ahead
<1> QED
  BY <1>7, <1>9, <1>10 DEF Queue!Run

\* Where ring, indices and at stay, the queue does.
LEMMA RingStays ==
  ASSUME UNCHANGED ringVars
  PROVE  /\ {d \in Dpcs : Entry(d) # {}}' = {d \in Dpcs : Entry(d) # {}}
         /\ {p \in Dpcs \X Dpcs : \E i \in Entry(p[1]), j \in Entry(p[2]) : Before(i, j)}' =
            {p \in Dpcs \X Dpcs : \E i \in Entry(p[1]), j \in Entry(p[2]) : Before(i, j)}
<1>1. Pending' = Pending
  BY DEF Pending
<1>2. \A d : Entry(d)' = Entry(d)
  BY <1>1 DEF Entry
<1>3. \A i, j : Before(i, j)' <=> Before(i, j)
  BY DEF Before
<1> QED
  BY <1>2, <1>3

LEMMA QueueStep ==
  ASSUME IInv, [Next]_vars
  PROVE  [Queue!Next]_Queue!vars
<1> DEFINE Stays == UNCHANGED ringVars /\ (at = "dpc")' = (at = "dpc")
<1>1. Stays => UNCHANGED Queue!vars
  BY RingStays DEF Queue!vars
<1>2. ASSUME NEW x \in Executors, Call(x)
      PROVE  [Queue!Next]_Queue!vars
  <2>1. ASSUME NEW d \in Dpcs, Insert(x, d) \/ Remove(x, d)
        PROVE  [Queue!Next]_Queue!vars
    BY <2>1, InsertQueues, RemoveQueues DEF Queue!Next
  <2>2. ASSUME NEW v \in Timers,
               SetTimer(x, v) \/ Cancel(x, v) \/ WaitOne(x, v) \/ WaitAny(x, v)
        PROVE  Stays
    BY <2>2 DEF SetTimer, Cancel, WaitOne, WaitAny
  <2> QED
    BY <1>1, <1>2, <2>1, <2>2 DEF Call
<1>3. ASSUME NEW x \in Executors, Continue(x)
      PROVE  Stays
  BY <1>3 DEF Continue, InitLock, StartClock, Announce, Arm, Unset, Clear,
                        ResetShadow
<1>4. ASSUME ClockStep
      PROVE  [Queue!Next]_Queue!vars
  <2>1. CASE DrainOne
    <3>1. ring[head] \in Dpcs \cup {NoDpc}
      BY DEF IInv, TypeOK
    <3> QED
      BY <2>1, <3>1, DrainSkips, DrainRuns DEF Queue!Next
  <2>2. CASE DpcReturns
    <3>1. UNCHANGED ringVars /\ at = "dpc" /\ at' = "drain"
      BY <2>2 DEF DpcReturns
    <3>2. Queue!Return
      BY <3>1, RingStays DEF Queue!Return
    <3> QED
      BY <3>2 DEF Queue!Next
  <2>3. CASE ~DrainOne /\ ~DpcReturns
    BY <1>1, <1>4, <2>3 DEF ClockStep, Wake, IsrReturns, DrainDone,
       NotDue, Expire, TimerDpcReturns, SetShadow, SetHeader, NextSlot
  <2> QED
    BY <2>1, <2>2, <2>3
<1>5. ASSUME NEW x \in Devices, DeviceIsr(x) \/ DeviceIsrReturns(x)
      PROVE  Stays
  BY <1>5 DEF DeviceIsr, DeviceIsrReturns
<1>6. ASSUME NEW i \in Slots, FallsDue(i)
      PROVE  Stays
  BY <1>6 DEF FallsDue
<1>7. CASE UNCHANGED vars
  BY <1>1, <1>7 DEF vars
<1> QED
  BY <1>1, <1>2, <1>3, <1>4, <1>5, <1>6, <1>7 DEF Next

\* The ring implements the queue, at every size: whatever threads insert and
\* remove while the timer thread drains, an accepted DPC stays until it is
\* removed or runs, and runs when all before it are gone.
THEOREM RingIsQueue == Spec => ImplementsQueue
<1>1. Init => Queue!Init
  <2> SUFFICES ASSUME Init  PROVE Queue!Init
    OBVIOUS
  <2>1. \A d \in Dpcs : Entry(d) = {}
    BY DispatchAssumption DEF Init, Entry, Pending
  <2> QED
    BY <2>1 DEF Queue!Init, Init
<1>2. IInv /\ [Next]_vars => [Queue!Next]_Queue!vars
  BY QueueStep
<1> QED
  BY <1>1, <1>2, Inductive, PTL DEF Spec, ImplementsQueue, Queue!Spec

=============================================================================
