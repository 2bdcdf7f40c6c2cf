-------------------------- MODULE GuestLockProofs --------------------------
(***************************************************************************)
(* What holds of the guest lock for every number of threads, nesting of    *)
(* calls and choice of the bounds.                                         *)
(***************************************************************************)
EXTENDS GuestLock, TLAPS

---------------------------------------------------------------------------
(* The inductive invariant *)

\* Only a thread in lifted code, or one that ended there, has levels.
OffLock(t) ==
  pc[t] \notin {"lifted", "gone"} => depth[t] = 0

\* A level, or a probe, is the mutex.
HolderOwns(t) ==
  depth[t] > 0 \/ pc[t] = "probe" => owner = t

\* Lifted code of a guest thread holds the levels its nesting calls for.
RunningDepth(t) ==
  t \in Guests /\ pc[t] = "lifted" =>
    depth[t] = IF calls[t] = << >> THEN BaseDepth(t) ELSE 1

\* The outermost frame remembers the routine's own levels, the others the
\* one level of a callback.
FramesHold(t) ==
  t \in Guests =>
    \A i \in 1..Len(calls[t]) :
      calls[t][i].held = IF i = Len(calls[t]) THEN BaseDepth(t) ELSE 1

\* A thread is inside a call exactly where its place says so.
CallsMatch(t) ==
  /\ pc[t] \in {"unborn", "born"} => calls[t] = << >>
  /\ pc[t] \in {"call", "halted"} => calls[t] # << >>
  /\ pc[t] \in Entering => (goal[t] = "start" <=> calls[t] = << >>)

ThreadInv(t) ==
  OffLock(t) /\ HolderOwns(t) /\ RunningDepth(t) /\ FramesHold(t) /\ CallsMatch(t)

LockInv == \A t \in Threads : ThreadInv(t)

IInv == TypeOK /\ LockInv

---------------------------------------------------------------------------
(* Frames *)

\* Entering a call puts its frame in front.
LEMMA PushFrame ==
  ASSUME NEW s \in Seq(Frames), NEW f \in Frames
  PROVE  /\ <<f>> \o s \in Seq(Frames)
         /\ <<f>> \o s # << >>
         /\ Len(<<f>> \o s) = Len(s) + 1
         /\ (<<f>> \o s)[1] = f
         /\ \A i \in 1..Len(s) : (<<f>> \o s)[i + 1] = s[i]
  OBVIOUS

\* Coming back from a call takes its frame away.
LEMMA PopFrame ==
  ASSUME NEW s \in Seq(Frames), s # << >>
  PROVE  /\ Head(s) = s[1]
         /\ Head(s) \in Frames
         /\ Tail(s) \in Seq(Frames)
         /\ Len(Tail(s)) = Len(s) - 1
         /\ \A i \in 1..Len(Tail(s)) : Tail(s)[i] = s[i + 1]
         /\ Tail(s) = << >> <=> Len(s) = 1
<1>1. Len(s) \in Nat \ {0}
  OBVIOUS
<1>2. Head(s) = s[1] /\ Head(s) \in Frames
  BY <1>1
<1>3. Tail(s) \in Seq(Frames) /\ Len(Tail(s)) = Len(s) - 1
  BY <1>1
<1>4. \A i \in 1..Len(Tail(s)) : Tail(s)[i] = s[i + 1]
  BY <1>1, <1>3
<1>5. Tail(s) = << >> <=> Len(s) = 1
  BY <1>1, <1>3
<1>. QED
  BY <1>2, <1>3, <1>4, <1>5

\* Doing what the call is for leaves the levels the frame remembers alone.
LEMMA MarkFrame ==
  ASSUME NEW s \in Seq(Frames), s # << >>, NEW f \in Frames, f.held = s[1].held
  PROVE  LET m == [s EXCEPT ![1] = f]
         IN  /\ m \in Seq(Frames)
             /\ m # << >>
             /\ Len(m) = Len(s)
             /\ \A i \in 1..Len(s) : m[i].held = s[i].held
  OBVIOUS

---------------------------------------------------------------------------
(* Types *)

USE DEF Goto

\* Every guest and every host is a thread, and no thread is "no thread".
LEMMA ThreadFacts ==
  /\ Guests \subseteq Threads
  /\ Hosts \subseteq Threads
  /\ Workers \subseteq Guests
  /\ Main \in Guests
  /\ NoThread \notin Threads
  /\ \A t \in Threads : t \in Hosts <=> t \notin Guests
  /\ HostPrio \in Levels
  /\ Prios \subseteq Levels
  /\ HostPrio \notin Prios
  BY GuestLockAssumption DEF Threads, Guests, Levels

\* The starting state has every variable in its type.
LEMMA TypeInit == Init => TypeOK
<1>. SUFFICES ASSUME Init PROVE TypeOK
  OBVIOUS
<1>. USE GuestLockAssumption, ThreadFacts DEF Pcs, Goals, NotWoken
<1>1. /\ owner \in Threads \cup {NoThread} /\ depth \in [Threads -> 0..2]
      /\ pc \in [Threads -> Pcs] /\ goal \in [Threads -> Goals]
      /\ calls \in [Threads -> Seq(Frames)]
  BY DEF Init
<1>2. /\ waiters \in Int /\ waitingAt \in [Levels -> Int]
      /\ waiting \in [Threads -> BOOLEAN] /\ wprio \in [Threads -> Levels]
      /\ prio \in [Guests -> Prios]
  BY DEF Init
<1>3. /\ ran \in [Threads -> 0..2] /\ age \in 0..2
      /\ resv \in Guests \cup {NoThread}
      /\ fresh \in [Threads -> SUBSET Levels]
  BY DEF Init
<1>5. /\ starved \in [Threads -> BOOLEAN] /\ lapsed \in BOOLEAN
      /\ tResv \in [Threads -> BOOLEAN]
  BY DEF Init
<1>4. /\ suspend \in [Threads -> Nat] /\ req \in [Threads -> BOOLEAN]
      /\ woken \in [Threads -> Levels]
  BY DEF Init
<1>. QED
  BY <1>1, <1>2, <1>3, <1>4, <1>5 DEF TypeOK

\* Letting go keeps the lock and the frames in their types.
LEMMA TypeDrop ==
  ASSUME TypeOK, NEW t \in Threads, NEW kind \in Kinds, Drop(t, kind)
  PROVE  /\ calls' \in [Threads -> Seq(Frames)]
         /\ depth' \in [Threads -> 0..2]
         /\ owner' \in Threads \cup {NoThread}
         /\ ran' \in [Threads -> 0..2]
         /\ age' \in 0..2
<1>1. [kind |-> kind, held |-> depth[t], todo |-> kind # BackEdge] \in Frames
  BY DEF TypeOK, Frames
<1>2. <<[kind |-> kind, held |-> depth[t], todo |-> kind # BackEdge]>> \o calls[t]
        \in Seq(Frames)
  BY <1>1, PushFrame DEF TypeOK
<1>3. calls' \in [Threads -> Seq(Frames)]
  BY <1>2, Zenon DEF Drop, TypeOK
<1>4. depth' \in [Threads -> 0..2] /\ age' \in 0..2
  BY DEF Drop, TypeOK
<1>5. owner' \in Threads \cup {NoThread}
  BY DEF Drop, TypeOK
<1>6. ran' = ran \/ ran' = [ran EXCEPT ![t] = 0]
  BY DEF Drop
<1>7. ran' \in [Threads -> 0..2]
  <2>1. ran \in [Threads -> 0..2]
    BY DEF TypeOK
  <2>2. [ran EXCEPT ![t] = 0] \in [Threads -> 0..2]
    BY <2>1
  <2>. QED
    BY <1>6, <2>1, <2>2
<1>. QED
  BY <1>3, <1>4, <1>5, <1>7

\* Beginning and ending a wait keep the counters in their types.
LEMMA TypeWait ==
  ASSUME TypeOK, NEW p \in Levels, WaitBegin(p) \/ WaitEnd(p)
  PROVE  /\ waiters' \in Int
         /\ waitingAt' \in [Levels -> Int]
         /\ fresh' \in [Threads -> SUBSET Levels]
<1>1. CASE WaitBegin(p)
  <2>1. waiters' \in Int /\ waitingAt' \in [Levels -> Int]
    BY <1>1 DEF WaitBegin, TypeOK
  <2>2. fresh' \in [Threads -> SUBSET Levels]
    BY <1>1 DEF WaitBegin, TypeOK
  <2>. QED
    BY <2>1, <2>2
<1>2. CASE WaitEnd(p)
  BY <1>2 DEF WaitEnd, TypeOK
<1>. QED
  BY <1>1, <1>2

\* So does counting a thread of guest_cs_enter_ex as a waiter.
LEMMA TypeCount ==
  ASSUME TypeOK, NEW t \in Threads, CountAsWaiter(t)
  PROVE  /\ waiters' \in Int
         /\ waitingAt' \in [Levels -> Int]
         /\ fresh' \in [Threads -> SUBSET Levels]
         /\ waiting' \in [Threads -> BOOLEAN]
<1>1. CASE waiting[t]
  BY <1>1 DEF CountAsWaiter, TypeOK, waitVars
<1>2. CASE ~waiting[t]
  <2>1. wprio[t] \in Levels /\ WaitBegin(wprio[t])
    BY <1>2 DEF CountAsWaiter, TypeOK
  <2>2. waiting' \in [Threads -> BOOLEAN]
    BY <1>2 DEF CountAsWaiter, TypeOK
  <2>. QED
    BY <2>1, <2>2, TypeWait
<1>. QED
  BY <1>1, <1>2

\* The frame of a call that has done what it was made for.
LEMMA DoneFacts ==
  ASSUME TypeOK, NEW t \in Threads, CallsMatch(t), NEW kind, InCall(t, kind), Done(t)
  PROVE  /\ calls' \in [Threads -> Seq(Frames)]
         /\ \A u \in Threads : u # t => calls'[u] = calls[u]
         /\ calls'[t] # << >>
         /\ Len(calls'[t]) = Len(calls[t])
         /\ \A i \in 1..Len(calls[t]) : calls'[t][i].held = calls[t][i].held
<1>. DEFINE s == calls[t]
            f == [s[1] EXCEPT !.todo = FALSE]
            m == [s EXCEPT ![1] = f]
<1>1. s \in Seq(Frames) /\ s # << >>
  BY DEF TypeOK, CallsMatch, InCall
<1>2. s[1] \in Frames
  BY <1>1, PopFrame
<1>3. f \in Frames /\ f.held = s[1].held
  BY <1>2 DEF Frames
<1>4. /\ m \in Seq(Frames)
      /\ m # << >>
      /\ Len(m) = Len(s)
      /\ \A i \in 1..Len(s) : m[i].held = s[i].held
  <2>. HIDE DEF f, s
  <2>. QED
    BY <1>1, <1>3, MarkFrame
<1>5. calls' = [calls EXCEPT ![t] = m]
  BY DEF Done
<1>6. calls \in [Threads -> Seq(Frames)]
  BY DEF TypeOK
<1>. HIDE DEF m
<1>7. calls'[t] = m /\ \A u \in Threads : u # t => calls'[u] = calls[u]
  BY <1>5, <1>6
<1>8. calls' \in [Threads -> Seq(Frames)]
  BY <1>4, <1>5, <1>6
<1>. QED
  BY <1>4, <1>7, <1>8

\* The frame of a thread that stops itself in its call.
LEMMA StopFacts ==
  ASSUME TypeOK, NEW t \in Threads, CallsMatch(t), InCall(t, Prompt), Stopped(t)
  PROVE  /\ calls' \in [Threads -> Seq(Frames)]
         /\ \A u \in Threads : u # t => calls'[u] = calls[u]
         /\ calls'[t] # << >>
         /\ Len(calls'[t]) = Len(calls[t])
         /\ \A i \in 1..Len(calls[t]) : calls'[t][i].held = calls[t][i].held
<1>. DEFINE s == calls[t]
            f == [s[1] EXCEPT !.kind = Blocking, !.todo = FALSE]
            m == [s EXCEPT ![1] = f]
<1>1. s \in Seq(Frames) /\ s # << >>
  BY DEF TypeOK, CallsMatch, InCall
<1>2. s[1] \in Frames
  BY <1>1, PopFrame
<1>3. f \in Frames /\ f.held = s[1].held
  BY <1>2 DEF Frames, Kinds
<1>4. /\ m \in Seq(Frames)
      /\ m # << >>
      /\ Len(m) = Len(s)
      /\ \A i \in 1..Len(s) : m[i].held = s[i].held
  <2>. HIDE DEF f, s
  <2>. QED
    BY <1>1, <1>3, MarkFrame
<1>5. calls' = [calls EXCEPT ![t] = m]
  BY DEF Stopped
<1>6. calls \in [Threads -> Seq(Frames)]
  BY DEF TypeOK
<1>. HIDE DEF m
<1>7. calls'[t] = m /\ \A u \in Threads : u # t => calls'[u] = calls[u]
  BY <1>5, <1>6
<1>8. calls' \in [Threads -> Seq(Frames)]
  BY <1>4, <1>5, <1>6
<1>. QED
  BY <1>4, <1>7, <1>8

\* The frame of the call a thread comes back from.
LEMMA PopFacts ==
  ASSUME TypeOK, NEW t \in Threads, calls[t] # << >>,
         calls' = [calls EXCEPT ![t] = Tail(@)]
  PROVE  /\ calls' \in [Threads -> Seq(Frames)]
         /\ \A u \in Threads : u # t => calls'[u] = calls[u]
         /\ calls'[t] = Tail(calls[t])
         /\ Head(calls[t]).held \in 0..2
<1>1. calls \in [Threads -> Seq(Frames)]
  BY DEF TypeOK
<1>2. calls[t] \in Seq(Frames)
  BY <1>1
<1>3. Tail(calls[t]) \in Seq(Frames) /\ Head(calls[t]) \in Frames
  BY <1>2, PopFrame
<1>4. Head(calls[t]).held \in 0..2
  BY <1>3 DEF Frames
<1>. QED
  BY <1>1, <1>3, <1>4

\* Taking the lock keeps everything Took touches in its type.
LEMMA TypeTook ==
  ASSUME TypeOK, NEW t \in Threads, NEW d \in 0..2, NEW a \in 0..2, Took(t, d, a)
  PROVE  /\ owner' \in Threads \cup {NoThread}
         /\ depth' \in [Threads -> 0..2]
         /\ age' \in 0..2
         /\ ran' \in [Threads -> 0..2]
         /\ starved' \in [Threads -> BOOLEAN]
         /\ pc' \in [Threads -> Pcs]
<1>1. owner' \in Threads \cup {NoThread} /\ age' \in 0..2
  BY DEF Took
<1>2. depth' \in [Threads -> 0..2]
  BY DEF Took, TypeOK
<1>3. ran' \in [Threads -> 0..2]
  <2>1. \A u \in Threads : ran[u] \in 0..2
    BY DEF TypeOK
  <2>2. \A u \in Threads : (IF calls'[u] = << >> THEN 0
                           ELSE IF ran[u] = 2 THEN 2 ELSE ran[u] + 1) \in 0..2
    BY <2>1
  <2>. QED
    BY <2>2 DEF Took
<1>4. starved' \in [Threads -> BOOLEAN]
  BY DEF Took, TypeOK
<1>5. pc' \in [Threads -> Pcs]
  BY DEF Took, TypeOK, Pcs
<1>. QED
  BY <1>1, <1>2, <1>3, <1>4, <1>5

\* A thread's call and its way back keep every variable in its type.
LEMMA TypeStep ==
  ASSUME IInv, NEW t \in Threads, Step(t)
  PROVE  TypeOK'
<1>. USE GuestLockAssumption, ThreadFacts DEF IInv, Pcs, Goals, NotWoken
<1>1. ASSUME NEW kind \in CallKinds \ {HostWait}, KernelCall(t, kind)
      PROVE  TypeOK'
  <2>1. kind \in Kinds /\ TypeOK /\ Drop(t, kind)
    BY <1>1 DEF KernelCall, Kinds
  <2>2. /\ calls' \in [Threads -> Seq(Frames)]
        /\ depth' \in [Threads -> 0..2]
        /\ owner' \in Threads \cup {NoThread}
        /\ ran' \in [Threads -> 0..2]
        /\ age' \in 0..2
    BY <2>1, TypeDrop
  <2>. QED
    BY ZenonT(40), <1>1, <2>1, <2>2 DEF KernelCall, TypeOK, askVars, recVars
<1>2. ASSUME GuestSleep(t)  PROVE TypeOK'
  <2>1. TypeOK /\ Drop(t, HostWait)
    BY <1>2 DEF GuestSleep
  <2>2. /\ calls' \in [Threads -> Seq(Frames)]
        /\ depth' \in [Threads -> 0..2]
        /\ owner' \in Threads \cup {NoThread}
        /\ ran' \in [Threads -> 0..2]
        /\ age' \in 0..2
    BY <2>1, TypeDrop DEF Kinds
  <2>. QED
    BY <1>2, <2>1, <2>2 DEF GuestSleep, TypeOK, askVars, recVars, waitVars, resvVars
<1>3. ASSUME Yield(t)  PROVE TypeOK'
  <2>1. TypeOK /\ Drop(t, BackEdge)
    BY <1>3 DEF Yield
  <2>2. /\ calls' \in [Threads -> Seq(Frames)]
        /\ depth' \in [Threads -> 0..2]
        /\ owner' \in Threads \cup {NoThread}
        /\ ran' \in [Threads -> 0..2]
        /\ age' \in 0..2
    BY <2>1, TypeDrop DEF Kinds
  <2>. QED
    BY <1>3, <2>1, <2>2 DEF Yield, TypeOK, askVars, recVars, waitVars, resvVars
<1>4. ASSUME HandoffDone(t)  PROVE TypeOK'
  BY <1>4 DEF HandoffDone, TypeOK, askVars, recVars, waitVars, resvVars, lockVars
<1>5. ASSUME Entry(t)  PROVE TypeOK'
  <2>1. MyPrio(t) \in Levels
    BY DEF MyPrio, TypeOK
  <2>. QED
    BY <1>5, <2>1 DEF Entry, TypeOK, askVars, recVars, waitVars, resvVars, lockVars
<1>6. ASSUME Unpark(t)  PROVE TypeOK'
  BY <1>6 DEF Unpark, TypeOK, askVars, recVars, waitVars, resvVars, lockVars
<1>7. ASSUME TryFail(t)  PROVE TypeOK'
  <2>1. /\ waiters' \in Int
        /\ waitingAt' \in [Levels -> Int]
        /\ fresh' \in [Threads -> SUBSET Levels]
        /\ waiting' \in [Threads -> BOOLEAN]
    BY <1>7, TypeCount DEF TryFail
  <2>. QED
    BY <1>7, <2>1 DEF TryFail, TypeOK, recVars, resvVars, lockVars
<1>8. ASSUME TryOk(t)  PROVE TypeOK'
  BY <1>8 DEF TryOk, TypeOK, askVars, recVars, waitVars, resvVars
<1>9. ASSUME ReservationOver(t)  PROVE TypeOK'
  BY <1>9 DEF ReservationOver, TypeOK, askVars, recVars, waitVars, resvVars, lockVars
<1>10. ASSUME NEW u \in Workers, Spawn(t, u)  PROVE TypeOK'
  <2>1. calls' \in [Threads -> Seq(Frames)]
    BY <1>10, DoneFacts DEF Spawn, LockInv, ThreadInv
  <2>. QED
    BY <1>10, <2>1 DEF Spawn, TypeOK, askVars, recVars, waitVars, resvVars, lockVars
<1>11. ASSUME StandAside(t)  PROVE TypeOK'
  <2>1. /\ waiters' \in Int
        /\ waitingAt' \in [Levels -> Int]
        /\ fresh' \in [Threads -> SUBSET Levels]
        /\ waiting' \in [Threads -> BOOLEAN]
    BY <1>11, TypeCount DEF StandAside
  <2>2. pc' \in [Threads -> Pcs]
    BY <1>11 DEF StandAside, TypeOK
  <2>. QED
    BY <1>11, <2>1, <2>2 DEF StandAside, TypeOK, recVars, resvVars
<1>12. ASSUME Take(t)  PROVE TypeOK'
  <2>1. pc[t] = "probe" /\ calls \in [Threads -> Seq(Frames)]
    BY <1>12 DEF Take, TypeOK
  <2>2. /\ calls' \in [Threads -> Seq(Frames)]
        /\ DepthTaken(t) \in 0..2
    <3>1. CASE goal[t] \in {"return", "turn"}
      <4>1. calls[t] # << >>
        BY <2>1, <3>1 DEF LockInv, ThreadInv, CallsMatch, Entering
      <4>. QED
        BY <1>12, <3>1, <4>1, PopFacts DEF Take, DepthTaken
    <3>2. CASE goal[t] \notin {"return", "turn"}
      BY SMTT(30), <1>12, <2>1, <3>2 DEF Take, DepthTaken, BaseDepth, TypeOK
    <3>. QED
      BY <3>1, <3>2
  <2>3. AgeTaken(t) \in 0..2
    BY DEF AgeTaken, TypeOK
  <2>4. /\ owner' \in Threads \cup {NoThread}
        /\ depth' \in [Threads -> 0..2]
        /\ age' \in 0..2
        /\ ran' \in [Threads -> 0..2]
        /\ starved' \in [Threads -> BOOLEAN]
        /\ pc' \in [Threads -> Pcs]
    BY <1>12, <2>2, <2>3, TypeTook DEF Take
  <2>5. /\ waiters' \in Int
        /\ waitingAt' \in [Levels -> Int]
        /\ fresh' \in [Threads -> SUBSET Levels]
    <3>1. CASE waiting[t]
      <4>1. wprio[t] \in Levels /\ WaitEnd(wprio[t])
        BY <1>12, <3>1 DEF Take, TypeOK
      <4>. QED
        BY <4>1, TypeWait
    <3>2. CASE ~waiting[t]
      BY <1>12, <3>2 DEF Take, TypeOK, waitVars
    <3>. QED
      BY <3>1, <3>2
  <2>6. waiting' \in [Threads -> BOOLEAN] /\ wprio' \in [Threads -> Levels]
    BY <1>12 DEF Take, TypeOK
  <2>7. goal' \in [Threads -> Goals] /\ resv' \in Guests \cup {NoThread}
    BY <1>12 DEF Take, TypeOK, ClearResv
  <2>. QED
    BY <1>12, <2>2, <2>4, <2>5, <2>6, <2>7 DEF Take, TypeOK, recVars
<1>13. ASSUME NEW u \in Guests, SuspendOther(t, u)  PROVE TypeOK'
  <2>1. calls' \in [Threads -> Seq(Frames)]
    BY <1>13, DoneFacts DEF SuspendOther, LockInv, ThreadInv
  <2>2. /\ waiters' \in Int
        /\ waitingAt' \in [Levels -> Int]
        /\ fresh' \in [Threads -> SUBSET Levels]
    <3>1. CASE woken[u] # NotWoken
      <4>1. woken[u] \in Levels /\ WaitEnd(woken[u])
        BY <1>13, <3>1 DEF SuspendOther, TypeOK
      <4>. QED
        BY <4>1, TypeWait
    <3>2. CASE woken[u] = NotWoken
      <4>1. \/ waiters' = waiters + 1 /\ UNCHANGED <<waitingAt, fresh>>
            \/ UNCHANGED waitVars
        BY <1>13, <3>2 DEF SuspendOther
      <4>. QED
        BY <4>1 DEF TypeOK, waitVars
    <3>. QED
      BY <3>1, <3>2
  <2>3. suspend' \in [Threads -> Nat]
    <3>1. suspend \in [Threads -> Nat] /\ suspend[u] + 1 \in Nat
      BY DEF TypeOK
    <3>2. suspend' = [suspend EXCEPT ![u] = suspend[u] + 1]
      BY <1>13 DEF SuspendOther
    <3>. QED
      BY <3>1, <3>2
  <2>5. woken' \in [Threads -> Levels]
    BY <1>13 DEF SuspendOther, TypeOK
  <2>4. req' \in [Threads -> BOOLEAN]
    <3>1. PICK b \in BOOLEAN : req' = [req EXCEPT ![u] = b]
      BY <1>13 DEF SuspendOther
    <3>. QED
      BY <3>1 DEF TypeOK
  <2>. QED
    BY <1>13, <2>1, <2>2, <2>3, <2>4, <2>5 DEF SuspendOther, TypeOK, lockVars, askVars, resvVars
<1>14. ASSUME NEW u \in Guests, Resume(t, u)  PROVE TypeOK'
  <2>1. calls' \in [Threads -> Seq(Frames)]
    BY <1>14, DoneFacts DEF Resume, LockInv, ThreadInv
  <2>2. /\ waiters' \in Int
        /\ waitingAt' \in [Levels -> Int]
        /\ fresh' \in [Threads -> SUBSET Levels]
    <3>1. CASE WaitBegin(prio[u])
      <4>1. prio[u] \in Levels
        BY DEF TypeOK
      <4>. QED
        BY <3>1, <4>1, TypeWait
    <3>2. CASE ~WaitBegin(prio[u])
      BY <1>14, <3>2 DEF Resume, TypeOK, waitVars
    <3>. QED
      BY <3>1, <3>2
  <2>3. suspend' \in [Threads -> Nat]
    <3>1. suspend \in [Threads -> Nat] /\ suspend[u] \in Nat
      BY DEF TypeOK
    <3>2. \/ suspend' = suspend
          \/ suspend[u] # 0 /\ suspend' = [suspend EXCEPT ![u] = suspend[u] - 1]
      BY <1>14 DEF Resume, recVars
    <3>. QED
      BY <3>1, <3>2
  <2>5. woken' \in [Threads -> Levels]
    <3>1. woken' = woken \/ woken' = [woken EXCEPT ![u] = prio[u]]
      BY <1>14 DEF Resume, recVars
    <3>2. prio[u] \in Levels
      BY DEF TypeOK
    <3>. QED
      BY <3>1, <3>2 DEF TypeOK
  <2>6. pc' \in [Threads -> Pcs]
    BY <1>14 DEF Resume, TypeOK, recVars
  <2>4. req' \in [Threads -> BOOLEAN]
    BY <1>14 DEF Resume, TypeOK, recVars
  <2>. QED
    BY <1>14, <2>1, <2>2, <2>3, <2>4, <2>5, <2>6 DEF Resume, TypeOK, lockVars, askVars, resvVars
<1>15. ASSUME SuspendSelf(t)  PROVE TypeOK'
  <2>1. calls' \in [Threads -> Seq(Frames)]
    BY <1>15, StopFacts DEF SuspendSelf, LockInv, ThreadInv
  <2>2. resv' \in Guests \cup {NoThread}
    BY <1>15 DEF SuspendSelf, ClearResv, TypeOK
  <2>. QED
    BY <1>15, <2>1, <2>2 DEF SuspendSelf, TypeOK, lockVars, askVars, waitVars, recVars
<1>16. ASSUME NEW u \in Guests, NEW p \in NewPrios, SetPriority(t, u, p)
       PROVE  TypeOK'
  <2>1. calls' \in [Threads -> Seq(Frames)]
    BY <1>16, DoneFacts DEF SetPriority, LockInv, ThreadInv
  <2>2. prio' \in [Guests -> Prios]
    BY <1>16 DEF SetPriority, TypeOK
  <2>. QED
    BY <1>16, <2>1, <2>2 DEF SetPriority, TypeOK, lockVars, askVars, waitVars,
                             resvVars, recVars
<1>17. ASSUME NEW kind \in CallbackIn, Callback(t, kind)  PROVE TypeOK'
  <2>1. calls' \in [Threads -> Seq(Frames)]
    BY <1>17, DoneFacts DEF Callback, LockInv, ThreadInv
  <2>. QED
    BY <1>17, <2>1 DEF Callback, TypeOK, lockVars, waitVars, resvVars, recVars
<1>18. ASSUME CallbackReturn(t)  PROVE TypeOK'
  <2>1. depth[t] = 1
    BY <1>18 DEF CallbackReturn, LockInv, ThreadInv, RunningDepth
  <2>2. depth' = [depth EXCEPT ![t] = 0] /\ owner' = NoThread
    BY <1>18, <2>1 DEF CallbackReturn
  <2>. QED
    BY <1>18, <2>2 DEF CallbackReturn, TypeOK, askVars, waitVars, resvVars, recVars
<1>19. ASSUME Terminate(t)  PROVE TypeOK'
  BY <1>19 DEF Terminate, TypeOK, lockVars, askVars, waitVars, resvVars, recVars
<1>20. ASSUME WorkerReturn(t)  PROVE TypeOK'
  <2>1. depth[t] = 2
    BY <1>20 DEF WorkerReturn, LockInv, ThreadInv, RunningDepth, BaseDepth
  <2>2. depth' = [depth EXCEPT ![t] = 1] /\ owner' = owner
    BY <1>20, <2>1 DEF WorkerReturn
  <2>. QED
    BY <1>20, <2>2 DEF WorkerReturn, TypeOK, askVars, waitVars, resvVars, recVars
<1>21. ASSUME Starve(t)  PROVE TypeOK'
  BY <1>21 DEF Starve, TypeOK, lockVars, waitVars, resvVars, recVars
<1>23. ASSUME Begin(t)  PROVE TypeOK'
  BY <1>23 DEF Begin, TypeOK, lockVars, waitVars, resvVars, recVars
<1>22. ASSUME Return(t)  PROVE TypeOK'
  <2>1. calls[t] # << >>
    BY <1>22 DEF Return, LockInv, ThreadInv, CallsMatch
  <2>2. ASSUME Restore(t)
        PROVE  /\ calls' \in [Threads -> Seq(Frames)]
               /\ pc' \in [Threads -> Pcs]
               /\ goal' \in [Threads -> Goals]
    <3>1. CASE Head(calls[t]).held = 0
      <4>1. /\ calls' = [calls EXCEPT ![t] = Tail(@)]
            /\ pc' = [pc EXCEPT ![t] = "lifted"] /\ goal' = goal
        BY <2>2, <3>1 DEF Restore, Goto
      <4>2. calls' \in [Threads -> Seq(Frames)]
        BY <2>1, <4>1, PopFacts
      <4>3. "lifted" \in Pcs
        BY DEF Pcs
      <4>. QED
        BY <4>1, <4>2, <4>3 DEF TypeOK
    <3>2. CASE Head(calls[t]).held # 0
      BY <2>2, <3>2 DEF Restore, TypeOK
    <3>. QED
      BY <3>1, <3>2
  <2>3. ASSUME RestoreReserved(t)
        PROVE  /\ calls' \in [Threads -> Seq(Frames)]
               /\ pc' \in [Threads -> Pcs]
               /\ goal' \in [Threads -> Goals]
    <3>1. CASE lapsed
      BY <2>2, <2>3, <3>1 DEF RestoreReserved
    <3>2. CASE ~lapsed
      BY ZenonT(40), <2>3, <3>2 DEF RestoreReserved, TypeOK
    <3>. QED
      BY <3>1, <3>2
  <2>4. /\ calls' \in [Threads -> Seq(Frames)]
        /\ pc' \in [Threads -> Pcs]
        /\ goal' \in [Threads -> Goals]
    BY <1>22, <2>2, <2>3 DEF Return
  <2>5. tResv' \in [Threads -> BOOLEAN] /\ lapsed' \in BOOLEAN
    BY <1>22 DEF Return, RestoreReserved, TypeOK, resvVars
  <2>6. resv' \in Guests \cup {NoThread}
    <3>1. resv' = resv \/ resv' = NoThread
      BY <1>22 DEF Return, RestoreReserved, ClearResv, resvVars
    <3>. QED
      BY <3>1 DEF TypeOK
  <2>7. fresh' \in [Threads -> SUBSET Levels]
    <3>1. fresh' = fresh \/ fresh' = [fresh EXCEPT ![t] = {}]
      BY <1>22 DEF Return, RestoreReserved, waitVars
    <3>. QED
      BY <3>1 DEF TypeOK
  <2>8. waiters' \in Int /\ waitingAt' \in [Levels -> Int]
    BY <1>22 DEF Return, RestoreReserved, TypeOK, waitVars
  <2>. QED
    BY <1>22, <2>4, <2>5, <2>6, <2>7, <2>8 DEF Return, TypeOK, lockVars, recVars
<1>. QED
  BY <1>1, <1>2, <1>3, <1>4, <1>5, <1>6, <1>7, <1>8, <1>9, <1>10, <1>11, <1>12,
     <1>13, <1>14, <1>15, <1>16, <1>17, <1>18, <1>19, <1>20, <1>21, <1>22, <1>23 DEF Step

\* So do a host thread's steps.
LEMMA TypeHostStep ==
  ASSUME IInv, NEW h \in Hosts, HostStep(h)
  PROVE  TypeOK'
<1>. USE ThreadFacts DEF IInv, Pcs
<1>1. ASSUME HostTake(h)
      PROVE  /\ owner' \in Threads \cup {NoThread}
             /\ depth' \in [Threads -> 0..2]
             /\ age' \in 0..2
             /\ ran' \in [Threads -> 0..2]
             /\ starved' \in [Threads -> BOOLEAN]
             /\ pc' \in [Threads -> Pcs]
             /\ calls' \in [Threads -> Seq(Frames)]
  <2>1. Took(h, 1, 0) /\ calls' = calls /\ 1 \in 0..2 /\ 0 \in 0..2
    BY <1>1 DEF HostTake
  <2>. QED
    BY <2>1, TypeTook DEF TypeOK
<1>2. ASSUME HostEnter(h)  PROVE TypeOK'
  <2>1. CASE HostTake(h) /\ UNCHANGED waitVars
    BY <1>1, <1>2, <2>1 DEF HostEnter, TypeOK, waitVars, resvVars, recVars
  <2>2. CASE WaitBegin(HostPrio) /\ Goto(h, "timed") /\ UNCHANGED <<lockVars, starved>>
    <3>1. /\ waiters' \in Int
          /\ waitingAt' \in [Levels -> Int]
          /\ fresh' \in [Threads -> SUBSET Levels]
      BY <2>2, TypeWait
    <3>. QED
      BY <1>2, <2>2, <3>1 DEF HostEnter, TypeOK, lockVars, resvVars, recVars
  <2>. QED
    BY <1>2, <2>1, <2>2 DEF HostEnter
<1>3. ASSUME WaitEnd(HostPrio)
      PROVE  /\ waiters' \in Int
             /\ waitingAt' \in [Levels -> Int]
             /\ fresh' \in [Threads -> SUBSET Levels]
  BY <1>3, TypeWait
<1>4. ASSUME HostTimedTake(h)  PROVE TypeOK'
  BY <1>1, <1>3, <1>4 DEF HostTimedTake, TypeOK, resvVars, recVars
<1>5. ASSUME HostTimeout(h)  PROVE TypeOK'
  BY <1>3, <1>5 DEF HostTimeout, TypeOK, lockVars, askVars, resvVars, recVars
<1>6. ASSUME HostDone(h)  PROVE TypeOK'
  <2>1. owner' \in Threads \cup {NoThread}
    BY <1>6 DEF HostDone, TypeOK
  <2>2. depth' \in [Threads -> 0..2]
    BY <1>6 DEF HostDone, TypeOK
  <2>. QED
    BY <1>6, <2>1, <2>2 DEF HostDone, TypeOK, askVars, waitVars, resvVars, recVars
<1>. QED
  BY <1>2, <1>4, <1>5, <1>6 DEF HostStep

\* Every step keeps every variable in its type.
LEMMA TypeNext ==
  ASSUME IInv, [Next]_vars
  PROVE  TypeOK'
<1>1. CASE Tick
  BY <1>1, GuestLockAssumption
     DEF Tick, IInv, TypeOK, askVars, waitVars, resvVars, recVars
<1>2. CASE Lapse
  BY <1>2 DEF Lapse, IInv, TypeOK, lockVars, askVars, waitVars, recVars
<1>3. CASE UNCHANGED vars
  BY <1>3 DEF vars, IInv, TypeOK, lockVars, askVars, waitVars, resvVars, recVars
<1>. QED
  BY <1>1, <1>2, <1>3, TypeStep, TypeHostStep DEF Next

---------------------------------------------------------------------------
(* The lock *)

\* The starting state, in which only the main thread runs.
LEMMA LockInit == Init => LockInv
<1>. SUFFICES ASSUME Init, NEW t \in Threads PROVE ThreadInv(t)
  BY DEF LockInv
<1>. USE GuestLockAssumption, ThreadFacts DEF Init
<1>1. calls[t] = << >> /\ depth[t] = (IF t = Main THEN 1 ELSE 0)
  OBVIOUS
<1>2. pc[t] \in {"lifted", "idle", "unborn"} /\ (t \in Guests => pc[t] # "idle")
  OBVIOUS
<1>3. t = Main <=> pc[t] = "lifted"
  OBVIOUS
<1>4. OffLock(t) /\ HolderOwns(t) /\ RunningDepth(t)
  BY <1>1, <1>2, <1>3 DEF OffLock, HolderOwns, RunningDepth, BaseDepth
<1>5. FramesHold(t) /\ CallsMatch(t)
  BY <1>1, <1>2 DEF FramesHold, CallsMatch, Entering
<1>. QED
  BY <1>4, <1>5 DEF ThreadInv

\* A thread that keeps its place, its levels and what its frames remember
\* keeps its part of the invariant, unless the mutex is taken from it.
LEMMA ThreadKept ==
  ASSUME NEW t \in Threads, ThreadInv(t),
         pc'[t] = pc[t], depth'[t] = depth[t], goal'[t] = goal[t],
         calls[t] = << >> <=> calls'[t] = << >>,
         Len(calls'[t]) = Len(calls[t]),
         \A i \in 1..Len(calls[t]) : calls'[t][i].held = calls[t][i].held,
         owner = t => owner' = t
  PROVE  ThreadInv(t)'
<1>1. OffLock(t)' /\ HolderOwns(t)' /\ RunningDepth(t)'
  BY DEF ThreadInv, OffLock, HolderOwns, RunningDepth, BaseDepth
<1>2. FramesHold(t)'
  BY DEF ThreadInv, FramesHold, BaseDepth
<1>3. CallsMatch(t)'
  BY DEF ThreadInv, CallsMatch
<1>. QED
  BY <1>1, <1>2, <1>3 DEF ThreadInv

\* A step of one thread on its own: whoever else owns the mutex keeps it.
LEMMA OneThread ==
  ASSUME LockInv, NEW t \in Threads, ThreadInv(t)',
         \A u \in Threads \ {t} :
           /\ pc'[u] = pc[u] /\ depth'[u] = depth[u] /\ goal'[u] = goal[u]
           /\ calls'[u] = calls[u],
         owner \in {t, NoThread} \/ owner' = owner
  PROVE  LockInv'
<1>. SUFFICES ASSUME NEW u \in Threads PROVE ThreadInv(u)'
  BY DEF LockInv
<1>1. CASE u = t
  BY <1>1
<1>2. CASE u # t
  <2>1. owner = u => owner' = u
    BY <1>2, ThreadFacts
  <2>2. ThreadInv(u)
    BY DEF LockInv
  <2>. QED
    BY <1>2, <2>1, <2>2, ThreadKept
<1>. QED
  BY <1>1, <1>2

\* A step that moves no thread, changes no levels and only marks a frame.
LEMMA CallMarked ==
  ASSUME IInv, NEW t \in Threads, NEW kind, InCall(t, kind), Done(t),
         pc' = pc, goal' = goal, UNCHANGED lockVars
  PROVE  LockInv'
<1>. SUFFICES ASSUME NEW u \in Threads PROVE ThreadInv(u)'
  BY DEF LockInv
<1>1. ThreadInv(u) /\ CallsMatch(t) /\ calls[t] # << >>
  BY DEF IInv, LockInv, ThreadInv, CallsMatch, InCall
<1>2. /\ calls[u] = << >> <=> calls'[u] = << >>
      /\ Len(calls'[u]) = Len(calls[u])
      /\ \A i \in 1..Len(calls[u]) : calls'[u][i].held = calls[u][i].held
  <2>1. CASE u = t
    BY <1>1, <2>1, DoneFacts DEF IInv
  <2>2. CASE u # t
    BY <1>1, <2>2, DoneFacts DEF IInv
  <2>. QED
    BY <2>1, <2>2
<1>. QED
  BY <1>1, <1>2, ThreadKept DEF lockVars

\* Letting go for a call, from lifted code.
LEMMA LockDrop ==
  ASSUME IInv, NEW t \in Threads, NEW kind \in Kinds, pc[t] = "lifted", Drop(t, kind)
  PROVE  /\ depth'[t] = 0
         /\ FramesHold(t)'
         /\ calls'[t] # << >>
         /\ owner \in {t, NoThread} \/ owner' = owner
         /\ \A u \in Threads \ {t} : calls'[u] = calls[u] /\ depth'[u] = depth[u]
<1>. DEFINE f == [kind |-> kind, held |-> depth[t], todo |-> kind # BackEdge]
<1>1. /\ calls \in [Threads -> Seq(Frames)]
      /\ depth \in [Threads -> 0..2]
  BY DEF IInv, TypeOK
<1>2. ThreadInv(t)
  BY DEF IInv, LockInv
<1>3. f \in Frames /\ f.held = depth[t]
  BY <1>1 DEF Frames
<1>4. /\ calls' = [calls EXCEPT ![t] = <<f>> \o calls[t]]
      /\ depth' = [depth EXCEPT ![t] = 0]
      /\ owner' = owner \/ depth[t] > 0
  BY DEF Drop
<1>. HIDE DEF f
<1>5. calls'[t] = <<f>> \o calls[t] /\ calls[t] \in Seq(Frames)
  BY <1>1, <1>4
<1>6. /\ calls'[t] # << >>
      /\ Len(calls'[t]) = Len(calls[t]) + 1
      /\ calls'[t][1] = f
      /\ \A i \in 1..Len(calls[t]) : calls'[t][i + 1] = calls[t][i]
  BY SMTT(30), <1>3, <1>5, PushFrame
<1>7. FramesHold(t)'
  <2>. SUFFICES ASSUME t \in Guests, NEW i \in 1..Len(calls'[t])
                PROVE  calls'[t][i].held =
                         IF i = Len(calls'[t]) THEN BaseDepth(t) ELSE 1
    BY DEF FramesHold, BaseDepth
  <2>1. Len(calls[t]) \in Nat
    BY <1>5
  <2>2. CASE i = 1
    <3>1. calls'[t][i].held = depth[t]
      BY <1>3, <1>6, <2>2
    <3>2. depth[t] = IF calls[t] = << >> THEN BaseDepth(t) ELSE 1
      BY <1>2 DEF ThreadInv, RunningDepth
    <3>3. calls[t] = << >> <=> Len(calls[t]) = 0
      BY <1>5
    <3>. QED
      BY <1>6, <2>1, <2>2, <3>1, <3>2, <3>3
  <2>3. CASE i # 1
    <3>1. i - 1 \in 1..Len(calls[t]) /\ (i - 1) + 1 = i
      BY <1>6, <2>1, <2>3
    <3>2. calls'[t][i] = calls[t][i - 1]
      BY <1>6, <3>1
    <3>3. calls[t][i - 1].held =
            IF i - 1 = Len(calls[t]) THEN BaseDepth(t) ELSE 1
      BY <1>2, <3>1 DEF ThreadInv, FramesHold
    <3>. QED
      BY <1>6, <2>1, <3>1, <3>2, <3>3
  <2>. QED
    BY <2>2, <2>3
<1>8. owner \in {t, NoThread} \/ owner' = owner
  BY <1>2, <1>4 DEF ThreadInv, HolderOwns
<1>. QED
  BY <1>1, <1>4, <1>6, <1>7, <1>8

\* A thread's own steps keep the lock's invariant.
LEMMA LockStep ==
  ASSUME IInv, NEW t \in Threads, Step(t)
  PROVE  LockInv'
<1>. USE GuestLockAssumption, ThreadFacts
<1>inv. ThreadInv(t) /\ LockInv
  BY DEF IInv, LockInv
<1>types. /\ pc \in [Threads -> Pcs] /\ goal \in [Threads -> Goals]
      /\ calls \in [Threads -> Seq(Frames)] /\ depth \in [Threads -> 0..2]
  BY DEF IInv, TypeOK
<1>. USE <1>inv, <1>types
<1>1. ASSUME NEW kind \in Kinds, Drop(t, kind), pc[t] = "lifted",
             pc' = [pc EXCEPT ![t] = "call"], goal' = goal
      PROVE  LockInv'
  <2>1. /\ depth'[t] = 0
        /\ FramesHold(t)'
        /\ calls'[t] # << >>
        /\ owner \in {t, NoThread} \/ owner' = owner
        /\ \A u \in Threads \ {t} : calls'[u] = calls[u] /\ depth'[u] = depth[u]
    BY <1>1, LockDrop
  <2>2. ThreadInv(t)'
    BY <1>1, <2>1 DEF ThreadInv, OffLock, HolderOwns, RunningDepth, CallsMatch, Entering
  <2>. QED
    BY <1>1, <2>1, <2>2, OneThread
<1>2. ASSUME NEW kind \in CallKinds \ {HostWait}, KernelCall(t, kind)  PROVE LockInv'
  BY <1>1, <1>2 DEF KernelCall, askVars, Kinds
<1>3. ASSUME GuestSleep(t)  PROVE LockInv'
  BY <1>1, <1>3 DEF GuestSleep, askVars, Kinds
<1>4. ASSUME Yield(t)  PROVE LockInv'
  <2>1. /\ depth'[t] = 0
        /\ FramesHold(t)'
        /\ calls'[t] # << >>
        /\ owner \in {t, NoThread} \/ owner' = owner
        /\ \A u \in Threads \ {t} : calls'[u] = calls[u] /\ depth'[u] = depth[u]
    BY <1>4, LockDrop DEF Yield, Kinds
  <2>2. pc'[t] \in {"entry", "handoff"} /\ goal'[t] = "return"
    BY <1>4 DEF Yield
  <2>3. ThreadInv(t)'
    BY <2>1, <2>2 DEF ThreadInv, OffLock, HolderOwns, RunningDepth, CallsMatch, Entering
  <2>. QED
    BY <1>4, <2>1, <2>3, OneThread DEF Yield
<1>5. ASSUME HandoffDone(t)  PROVE LockInv'
  <2>1. ThreadInv(t)'
    BY <1>5 DEF HandoffDone, ThreadInv, OffLock, HolderOwns, RunningDepth, FramesHold,
               CallsMatch, Entering, BaseDepth, lockVars, askVars
  <2>. QED
    BY <1>5, <2>1, OneThread DEF HandoffDone, lockVars, askVars
<1>6. ASSUME Entry(t)  PROVE LockInv'
  <2>1. ThreadInv(t)'
    BY <1>6 DEF Entry, ThreadInv, OffLock, HolderOwns, RunningDepth, FramesHold,
               CallsMatch, Entering, BaseDepth, lockVars, askVars
  <2>. QED
    BY <1>6, <2>1, OneThread DEF Entry, lockVars, askVars
<1>7. ASSUME Unpark(t)  PROVE LockInv'
  <2>1. ThreadInv(t)'
    BY <1>7 DEF Unpark, ThreadInv, OffLock, HolderOwns, RunningDepth, FramesHold,
               CallsMatch, Entering, BaseDepth, lockVars, askVars
  <2>. QED
    BY <1>7, <2>1, OneThread DEF Unpark, lockVars, askVars
<1>8. ASSUME TryOk(t)  PROVE LockInv'
  <2>1. ThreadInv(t)'
    BY <1>8 DEF TryOk, ThreadInv, OffLock, HolderOwns, RunningDepth, FramesHold,
               CallsMatch, Entering, BaseDepth, lockVars, askVars
  <2>. QED
    BY <1>8, <2>1, OneThread DEF TryOk, lockVars, askVars
<1>9. ASSUME ReservationOver(t)  PROVE LockInv'
  <2>1. ThreadInv(t)'
    BY <1>9 DEF ReservationOver, ThreadInv, OffLock, HolderOwns, RunningDepth, FramesHold,
               CallsMatch, Entering, BaseDepth, lockVars, askVars
  <2>. QED
    BY <1>9, <2>1, OneThread DEF ReservationOver, lockVars, askVars
<1>10. ASSUME StandAside(t)  PROVE LockInv'
  <2>1. ThreadInv(t)'
    BY <1>10 DEF StandAside, ThreadInv, OffLock, HolderOwns, RunningDepth, FramesHold,
               CallsMatch, Entering, BaseDepth, lockVars, askVars
  <2>2. owner = t
    BY <1>10 DEF StandAside, ThreadInv, HolderOwns
  <2>3. \A u \in Threads \ {t} : pc'[u] = pc[u]
    BY <1>10 DEF StandAside
  <2>. QED
    BY <1>10, <2>1, <2>2, <2>3, OneThread DEF StandAside
<1>11. ASSUME TryFail(t)  PROVE LockInv'
  BY <1>11, ThreadKept DEF TryFail, lockVars, LockInv
<1>12. ASSUME Take(t)  PROVE LockInv'
  <2>1. /\ owner = t /\ pc[t] = "probe"
        /\ owner' = t /\ pc' = [pc EXCEPT ![t] = "lifted"]
        /\ depth' = [depth EXCEPT ![t] = DepthTaken(t)]
        /\ goal' = [goal EXCEPT ![t] = "return"]
    BY <1>12 DEF Take, Took, ThreadInv, HolderOwns
  <2>2. /\ FramesHold(t)'
        /\ \A u \in Threads \ {t} : calls'[u] = calls[u]
        /\ t \in Guests =>
             DepthTaken(t) = IF calls'[t] = << >> THEN BaseDepth(t) ELSE 1
    <3>1. CASE goal[t] \in {"return", "turn"}
      <4>1. calls[t] # << >> /\ calls' = [calls EXCEPT ![t] = Tail(@)]
        BY <1>12, <2>1, <3>1 DEF Take, ThreadInv, CallsMatch, Entering
      <4>2. /\ \A u \in Threads \ {t} : calls'[u] = calls[u]
            /\ calls'[t] = Tail(calls[t])
        BY <4>1, PopFacts DEF IInv
      <4>3. /\ Head(calls[t]) = calls[t][1]
            /\ Len(calls'[t]) = Len(calls[t]) - 1
            /\ \A i \in 1..Len(calls'[t]) : calls'[t][i] = calls[t][i + 1]
            /\ calls'[t] = << >> <=> Len(calls[t]) = 1
            /\ Len(calls[t]) \in Nat \ {0}
        <5>1. calls[t] \in Seq(Frames)
          OBVIOUS
        <5>2. Len(calls[t]) \in Nat \ {0}
          BY <4>1, <5>1
        <5>3. calls[t] # << >>
          BY <4>1
        <5>4. /\ Head(calls[t]) = calls[t][1]
              /\ Len(Tail(calls[t])) = Len(calls[t]) - 1
              /\ \A i \in 1..Len(Tail(calls[t])) : Tail(calls[t])[i] = calls[t][i + 1]
              /\ Tail(calls[t]) = << >> <=> Len(calls[t]) = 1
          BY ONLY <5>1, <5>3, PopFrame
        <5>. QED
          BY <4>2, <5>2, <5>4
      <4>4. t \in Guests => \A i \in 1..Len(calls[t]) : calls[t][i].held =
                               IF i = Len(calls[t]) THEN BaseDepth(t) ELSE 1
        BY DEF ThreadInv, FramesHold
      <4>5. FramesHold(t)'
        <5>. SUFFICES ASSUME t \in Guests, NEW i \in 1..Len(calls'[t])
                      PROVE  calls'[t][i].held =
                               IF i = Len(calls'[t]) THEN BaseDepth(t) ELSE 1
          BY DEF FramesHold, BaseDepth
        <5>1. i + 1 \in 1..Len(calls[t]) /\ (i + 1 = Len(calls[t]) <=> i = Len(calls'[t]))
          BY <4>3
        <5>. QED
          BY <4>3, <4>4, <5>1
      <4>6. t \in Guests => DepthTaken(t) = IF calls'[t] = << >> THEN BaseDepth(t) ELSE 1
        <5>1. DepthTaken(t) = Head(calls[t]).held
          BY <3>1 DEF DepthTaken
        <5>2. 1 \in 1..Len(calls[t])
          BY <4>3
        <5>. QED
          BY <4>3, <4>4, <5>1, <5>2
      <4>. QED
        BY <4>2, <4>5, <4>6
    <3>2. CASE goal[t] \notin {"return", "turn"}
      <4>1. calls' = calls /\ goal[t] \in {"start", "callback"}
        BY <1>12, <3>2 DEF Take, Goals
      <4>2. FramesHold(t)'
        BY <4>1 DEF ThreadInv, FramesHold, BaseDepth
      <4>3. goal[t] = "start" <=> calls[t] = << >>
        BY <2>1 DEF ThreadInv, CallsMatch, Entering
      <4>. QED
        BY <4>1, <4>2, <4>3 DEF DepthTaken
    <3>. QED
      BY <3>1, <3>2
  <2>3. ThreadInv(t)'
    BY <2>1, <2>2 DEF ThreadInv, OffLock, HolderOwns, RunningDepth, CallsMatch,
                      Entering, BaseDepth
  <2>. QED
    BY <2>1, <2>2, <2>3, OneThread
<1>13. ASSUME NEW u \in Workers, Spawn(t, u)  PROVE LockInv'
  <2>1. /\ t # u /\ pc[u] = "unborn" /\ CallsMatch(t)
        /\ pc' = [pc EXCEPT ![u] = "born"] /\ UNCHANGED <<owner, depth, goal>>
    BY <1>13 DEF Spawn, InCall, lockVars, askVars, ThreadInv
  <2>2. /\ \A x \in Threads : x # t => calls'[x] = calls[x]
        /\ calls'[t] # << >> /\ calls[t] # << >>
        /\ Len(calls'[t]) = Len(calls[t])
        /\ \A i \in 1..Len(calls[t]) : calls'[t][i].held = calls[t][i].held
    BY <1>13, <2>1, DoneFacts DEF Spawn, IInv, InCall, CallsMatch
  <2>. SUFFICES ASSUME NEW x \in Threads PROVE ThreadInv(x)'
    BY DEF LockInv
  <2>3. ThreadInv(x)
    BY DEF LockInv
  <2>4. CASE x = u
    <3>1. calls'[u] = calls[u] /\ calls[u] = << >> /\ depth'[u] = 0
      BY <2>1, <2>2, <2>3, <2>4 DEF ThreadInv, CallsMatch, OffLock
    <3>2. pc'[u] = "born"
      BY <2>1
    <3>. QED
      BY <2>4, <3>1, <3>2 DEF ThreadInv, OffLock, HolderOwns, RunningDepth, FramesHold,
                              CallsMatch, Entering
  <2>5. CASE x # u
    BY <2>1, <2>2, <2>3, <2>5, ThreadKept
  <2>. QED
    BY <2>4, <2>5
<1>14. ASSUME NEW u \in Guests, SuspendOther(t, u)  PROVE LockInv'
  BY <1>14, CallMarked DEF SuspendOther, askVars
<1>15. ASSUME NEW u \in Guests, NEW p \in NewPrios, SetPriority(t, u, p)
       PROVE  LockInv'
  BY <1>15, CallMarked DEF SetPriority, askVars
<1>16. ASSUME NEW u \in Guests, Resume(t, u)  PROVE LockInv'
  <2>1. CASE suspend[u] # 0
    BY <1>16, <2>1, CallMarked DEF Resume, askVars
  <2>2. CASE suspend[u] = 0
    <3>1. /\ t # u /\ pc[u] = "halted" /\ CallsMatch(t)
          /\ pc' = [pc EXCEPT ![u] = "call"] /\ goal' = goal
          /\ UNCHANGED <<owner, depth>>
      BY <1>16, <2>2 DEF Resume, InCall, lockVars, askVars, ThreadInv
    <3>2. /\ \A x \in Threads : x # t => calls'[x] = calls[x]
          /\ calls'[t] # << >> /\ calls[t] # << >>
          /\ Len(calls'[t]) = Len(calls[t])
          /\ \A i \in 1..Len(calls[t]) : calls'[t][i].held = calls[t][i].held
      BY <1>16, <3>1, DoneFacts DEF Resume, IInv, InCall, CallsMatch
    <3>. SUFFICES ASSUME NEW x \in Threads PROVE ThreadInv(x)'
      BY DEF LockInv
    <3>3. ThreadInv(x)
      BY DEF LockInv
    <3>4. CASE x = u
      <4>1. pc'[u] = "call" /\ calls'[u] = calls[u] /\ depth'[u] = depth[u]
        BY <3>1, <3>2
      <4>2. calls[u] # << >> /\ depth[u] = 0
        BY <3>1, <3>3, <3>4 DEF ThreadInv, CallsMatch, OffLock
      <4>3. FramesHold(u)'
        BY <3>3, <3>4, <4>1 DEF ThreadInv, FramesHold, BaseDepth
      <4>. QED
        BY <3>4, <4>1, <4>2, <4>3 DEF ThreadInv, OffLock, HolderOwns, RunningDepth,
                                 CallsMatch, Entering
    <3>5. CASE x # u
      BY <3>1, <3>2, <3>3, <3>5, ThreadKept
    <3>. QED
      BY <3>4, <3>5
  <2>. QED
    BY <2>1, <2>2
<1>17. ASSUME SuspendSelf(t)  PROVE LockInv'
  <2>1. /\ CallsMatch(t) /\ pc[t] = "call" /\ calls[t] # << >>
        /\ pc' = [pc EXCEPT ![t] = "halted"] /\ goal' = goal
        /\ UNCHANGED <<owner, depth>>
    BY <1>17 DEF SuspendSelf, InCall, lockVars, askVars, ThreadInv, CallsMatch
  <2>2. /\ \A x \in Threads : x # t => calls'[x] = calls[x]
        /\ calls'[t] # << >>
        /\ Len(calls'[t]) = Len(calls[t])
        /\ \A i \in 1..Len(calls[t]) : calls'[t][i].held = calls[t][i].held
    BY <1>17, <2>1, StopFacts DEF SuspendSelf, IInv
  <2>3. FramesHold(t)'
    BY <2>2 DEF ThreadInv, FramesHold, BaseDepth
  <2>4. ThreadInv(t)'
    BY <2>1, <2>2, <2>3 DEF ThreadInv, OffLock, HolderOwns, RunningDepth, CallsMatch,
                            Entering
  <2>. QED
    BY <2>1, <2>2, <2>4, OneThread
<1>18. ASSUME NEW kind \in CallbackIn, Callback(t, kind)  PROVE LockInv'
  <2>1. /\ CallsMatch(t) /\ pc[t] = "call" /\ calls[t] # << >>
        /\ pc' = [pc EXCEPT ![t] = "entry"] /\ goal' = [goal EXCEPT ![t] = "callback"]
        /\ UNCHANGED <<owner, depth>>
    BY <1>18 DEF Callback, InCall, lockVars, ThreadInv, CallsMatch
  <2>2. /\ \A x \in Threads : x # t => calls'[x] = calls[x]
        /\ calls'[t] # << >>
        /\ Len(calls'[t]) = Len(calls[t])
        /\ \A i \in 1..Len(calls[t]) : calls'[t][i].held = calls[t][i].held
    BY <1>18, <2>1, DoneFacts DEF Callback, IInv
  <2>3. FramesHold(t)'
    BY <2>2 DEF ThreadInv, FramesHold, BaseDepth
  <2>4. ThreadInv(t)'
    BY <2>1, <2>2, <2>3 DEF ThreadInv, OffLock, HolderOwns, RunningDepth, CallsMatch,
                            Entering
  <2>. QED
    BY <2>1, <2>2, <2>4, OneThread
<1>19. ASSUME CallbackReturn(t)  PROVE LockInv'
  <2>1. depth[t] = 1 /\ owner = t
    BY <1>19 DEF CallbackReturn, ThreadInv, RunningDepth, HolderOwns
  <2>2. /\ pc' = [pc EXCEPT ![t] = "call"] /\ goal' = goal /\ calls' = calls
        /\ depth' = [depth EXCEPT ![t] = 0] /\ calls[t] # << >>
    BY <1>19, <2>1 DEF CallbackReturn, askVars
  <2>3. ThreadInv(t)'
    BY <2>1, <2>2 DEF ThreadInv, OffLock, HolderOwns, RunningDepth, FramesHold, CallsMatch,
                      Entering, BaseDepth
  <2>. QED
    BY <2>1, <2>2, <2>3, OneThread
<1>20. ASSUME Terminate(t)  PROVE LockInv'
  <2>1. /\ pc[t] = "call" /\ pc' = [pc EXCEPT ![t] = "gone"] /\ goal' = goal
        /\ calls' = [calls EXCEPT ![t] = << >>] /\ UNCHANGED <<owner, depth>>
    BY <1>20 DEF Terminate, InCall, lockVars, askVars
  <2>2. calls'[t] = << >> /\ Len(calls'[t]) = 0 /\ depth'[t] = 0
    BY <2>1 DEF ThreadInv, OffLock
  <2>3. FramesHold(t)'
    BY <2>2 DEF FramesHold
  <2>4. ThreadInv(t)'
    BY <2>1, <2>2, <2>3 DEF ThreadInv, OffLock, HolderOwns, RunningDepth, CallsMatch,
                            Entering
  <2>. QED
    BY <2>1, <2>4, OneThread
<1>21. ASSUME WorkerReturn(t)  PROVE LockInv'
  <2>1. depth[t] = 2 /\ owner = t
    BY <1>21 DEF WorkerReturn, ThreadInv, RunningDepth, HolderOwns, BaseDepth
  <2>2. /\ pc' = [pc EXCEPT ![t] = "gone"] /\ goal' = goal /\ calls' = calls
        /\ depth' = [depth EXCEPT ![t] = 1] /\ owner' = owner
    BY <1>21, <2>1 DEF WorkerReturn, askVars
  <2>3. ThreadInv(t)'
    BY <2>1, <2>2 DEF ThreadInv, OffLock, HolderOwns, RunningDepth, FramesHold, CallsMatch,
                      Entering, BaseDepth
  <2>. QED
    BY <2>1, <2>2, <2>3, OneThread
<1>22. ASSUME Starve(t)  PROVE LockInv'
  BY <1>22, ThreadKept DEF Starve, lockVars, LockInv
<1>24. ASSUME Begin(t)  PROVE LockInv'
  <2>1. /\ pc[t] = "born" /\ calls[t] = << >> /\ depth[t] = 0
        /\ pc' = [pc EXCEPT ![t] = "entry"] /\ goal' = [goal EXCEPT ![t] = "start"]
        /\ UNCHANGED <<owner, depth, calls>>
    BY <1>24 DEF Begin, lockVars, ThreadInv, CallsMatch, OffLock
  <2>2. ThreadInv(t)'
    BY <2>1 DEF ThreadInv, OffLock, HolderOwns, RunningDepth, FramesHold, CallsMatch,
                Entering, BaseDepth
  <2>. QED
    BY <2>1, <2>2, OneThread
<1>23. ASSUME Return(t)  PROVE LockInv'
  <2>1. /\ pc[t] = "call" /\ calls[t] # << >> /\ depth[t] = 0
        /\ UNCHANGED <<owner, depth>>
    BY <1>23 DEF Return, lockVars, ThreadInv, CallsMatch, OffLock
  <2>2. ASSUME NEW g \in {"return", "turn"}, NEW there \in {"handoff", "entry"},
               pc' = [pc EXCEPT ![t] = there], goal' = [goal EXCEPT ![t] = g],
               calls' = calls
        PROVE  LockInv'
    <3>1. ThreadInv(t)'
      BY <2>1, <2>2 DEF ThreadInv, OffLock, HolderOwns, RunningDepth, FramesHold,
                        CallsMatch, Entering, BaseDepth
    <3>. QED
      BY <2>1, <2>2, <3>1, OneThread
  <2>3. ASSUME Restore(t)  PROVE LockInv'
    <3>1. CASE Head(calls[t]).held # 0
      BY <2>2, <2>3, <3>1 DEF Restore
    <3>2. CASE Head(calls[t]).held = 0
      <4>1. /\ pc' = [pc EXCEPT ![t] = "lifted"] /\ goal' = goal
            /\ calls' = [calls EXCEPT ![t] = Tail(@)]
        BY <2>3, <3>2 DEF Restore
      <4>2. t \notin Guests
        <5>1. calls[t] \in Seq(Frames)
          OBVIOUS
        <5>2. Head(calls[t]) = calls[t][1] /\ 1 \in 1..Len(calls[t])
          BY <2>1, <5>1
        <5>3. t \in Guests => calls[t][1].held \in {1, BaseDepth(t)}
          BY <5>2 DEF ThreadInv, FramesHold
        <5>. QED
          BY <3>2, <5>2, <5>3 DEF BaseDepth
      <4>3. \A u \in Threads \ {t} : calls'[u] = calls[u]
        BY <4>1
      <4>4. ThreadInv(t)'
        BY <2>1, <4>1, <4>2 DEF ThreadInv, OffLock, HolderOwns, RunningDepth,
                                FramesHold, CallsMatch, Entering
      <4>. QED
        BY <2>1, <4>1, <4>3, <4>4, OneThread
    <3>. QED
      BY <3>1, <3>2
  <2>4. ASSUME RestoreReserved(t)  PROVE LockInv'
    BY <2>2, <2>3, <2>4 DEF RestoreReserved
  <2>. QED
    BY <1>23, <2>3, <2>4 DEF Return
<1>. QED
  BY <1>2, <1>3, <1>4, <1>5, <1>6, <1>7, <1>8, <1>9, <1>10, <1>11, <1>12, <1>13, <1>14,
     <1>15, <1>16, <1>17, <1>18, <1>19, <1>20, <1>21, <1>22, <1>23, <1>24 DEF Step

\* So do a host thread's.
LEMMA LockHostStep ==
  ASSUME IInv, NEW h \in Hosts, HostStep(h)
  PROVE  LockInv'
<1>. USE GuestLockAssumption, ThreadFacts
<1>inv. ThreadInv(h) /\ LockInv /\ h \in Threads /\ h \notin Guests
  BY DEF IInv, LockInv
<1>types. /\ pc \in [Threads -> Pcs] /\ calls \in [Threads -> Seq(Frames)]
          /\ depth \in [Threads -> 0..2]
  BY DEF IInv, TypeOK
<1>. USE <1>inv, <1>types
<1>1. ASSUME HostTake(h), goal' = goal  PROVE LockInv'
  <2>1. /\ owner = NoThread /\ calls' = calls /\ owner' = h
        /\ pc' = [pc EXCEPT ![h] = "lifted"] /\ depth' = [depth EXCEPT ![h] = 1]
    BY <1>1 DEF HostTake, Took
  <2>2. ThreadInv(h)'
    BY <1>1, <2>1 DEF ThreadInv, OffLock, HolderOwns, RunningDepth, FramesHold, CallsMatch,
                Entering
  <2>. QED
    BY <1>1, <2>1, <2>2, OneThread
<1>2. ASSUME HostEnter(h)  PROVE LockInv'
  <2>1. CASE HostTake(h)
    BY <1>1, <1>2, <2>1 DEF HostEnter
  <2>2. CASE Goto(h, "timed") /\ UNCHANGED <<lockVars, starved>>
    <3>1. ThreadInv(h)'
      BY <1>2, <2>2 DEF HostEnter, ThreadInv, OffLock, HolderOwns, RunningDepth,
                        FramesHold, CallsMatch, Entering, lockVars
    <3>. QED
      BY <1>2, <2>2, <3>1, OneThread DEF HostEnter, lockVars
  <2>. QED
    BY <1>2, <2>1, <2>2 DEF HostEnter
<1>3. ASSUME HostTimedTake(h)  PROVE LockInv'
  BY <1>1, <1>3 DEF HostTimedTake
<1>4. ASSUME HostTimeout(h)  PROVE LockInv'
  <2>1. ThreadInv(h)'
    BY <1>4 DEF HostTimeout, ThreadInv, OffLock, HolderOwns, RunningDepth,
                FramesHold, CallsMatch, Entering, lockVars, askVars
  <2>. QED
    BY <1>4, <2>1, OneThread DEF HostTimeout, lockVars, askVars
<1>5. ASSUME HostDone(h)  PROVE LockInv'
  <2>1. ThreadInv(h)'
    BY <1>5 DEF HostDone, ThreadInv, OffLock, HolderOwns, RunningDepth,
                FramesHold, CallsMatch, Entering, askVars
  <2>2. owner \in {h, NoThread} \/ owner' = owner
    BY <1>5 DEF HostDone, ThreadInv, HolderOwns
  <2>3. /\ depth' = [depth EXCEPT ![h] = 0] /\ pc' = [pc EXCEPT ![h] = "idle"]
        /\ goal' = goal /\ calls' = calls
    BY <1>5 DEF HostDone, askVars
  <2>. QED
    BY <2>1, <2>2, <2>3, OneThread
<1>. QED
  BY <1>2, <1>3, <1>4, <1>5 DEF HostStep

\* Every step keeps the lock's invariant.
LEMMA LockNext ==
  ASSUME IInv, [Next]_vars
  PROVE  LockInv'
<1>1. CASE Tick
  BY <1>1, ThreadKept DEF Tick, IInv, LockInv, askVars
<1>2. CASE Lapse
  BY <1>2, ThreadKept DEF Lapse, IInv, LockInv, lockVars, askVars
<1>3. CASE UNCHANGED vars
  BY <1>3, ThreadKept DEF vars, IInv, LockInv, lockVars, askVars
<1>. QED
  BY <1>1, <1>2, <1>3, LockStep, LockHostStep DEF Next

---------------------------------------------------------------------------
(* Theorems *)

\* The inductive invariant: every variable keeps its type, and every thread
\* has the levels its place and its frames call for.
THEOREM Inductive == Spec => []IInv
<1>1. Init => IInv
  BY TypeInit, LockInit DEF IInv
<1>2. IInv /\ [Next]_vars => IInv'
  BY TypeNext, LockNext DEF IInv
<1>. QED
  BY <1>1, <1>2, PTL DEF Spec

\* The state of the guest lock keeps its types.
THEOREM TypeCorrect == Spec => []TypeOK
  BY Inductive, PTL DEF IInv

\* Letting go around a kernel call and coming back restores every recursive
\* level of the guest lock, whatever calls and callbacks lay between.
THEOREM LevelsAlwaysRestored == Spec => []LevelsRestored
<1>1. IInv => LevelsRestored
  BY ThreadFacts DEF IInv, LockInv, ThreadInv, RunningDepth, HolderOwns, BaseDepth,
                     LevelsRestored
<1>. QED
  BY <1>1, Inductive, PTL

\* Two guest threads never run lifted code at once: with the guest lock on,
\* the title has the one processor it was written for.
THEOREM OneGuestAtATime == Spec => []MutualExclusion
<1>1. LevelsRestored => MutualExclusion
  BY DEF LevelsRestored, MutualExclusion
<1>. QED
  BY <1>1, LevelsAlwaysRestored, PTL

=============================================================================
