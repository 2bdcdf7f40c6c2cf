--------------------------- MODULE GuestLockTurns ---------------------------
(***************************************************************************)
(* More of what holds of the guest lock for every number of threads: that  *)
(* suspends are not lost, that no thread blocks with the lock, that a      *)
(* reservation in force keeps the others out of lifted code and is taken   *)
(* away by none of them, that the counters of waiters say who waits, and   *)
(* so that a free lock goes to the highest waiter.                         *)
(***************************************************************************)
EXTENDS GuestLockProofs, FiniteSetTheorems

USE DEF Goto

---------------------------------------------------------------------------
(* Suspend and resume *)

\* A step that leaves guest_rec alone and takes no thread into its park or
\* out of it.
LEMMA SuspendKept ==
  ASSUME SuspendNotLost, UNCHANGED recVars,
         \A u \in Guests : pc'[u] = "parked" <=> pc[u] = "parked"
  PROVE  SuspendNotLost'
  BY DEF SuspendNotLost, recVars

\* Its simplest form: one thread moves, to a place that is not its park.
LEMMA SuspendMoved ==
  ASSUME TypeOK, SuspendNotLost, UNCHANGED recVars, NEW x \in Threads,
         pc[x] # "parked",
         NEW there, there # "parked", pc' = [pc EXCEPT ![x] = there]
  PROVE  SuspendNotLost'
<1>1. pc \in [Threads -> Pcs] /\ Guests \subseteq Threads
  BY DEF TypeOK, Guests, Threads
<1>2. \A u \in Guests : pc'[u] = "parked" <=> pc[u] = "parked"
  <2>. SUFFICES ASSUME NEW u \in Guests  PROVE pc'[u] = "parked" <=> pc[u] = "parked"
    OBVIOUS
  <2>1. CASE u = x
    BY <1>1, <2>1
  <2>2. CASE u # x
    BY <1>1, <2>2
  <2>. QED
    BY <2>1, <2>2
<1>. QED
  BY <1>2, SuspendKept

\* Most of a thread's steps are of one of the two kinds.
LEMMA SuspendAside ==
  ASSUME TypeOK, SuspendNotLost, NEW t \in Threads, Step(t),
         ~Entry(t), ~Unpark(t),
         \A u \in Guests : ~SuspendOther(t, u) /\ ~Resume(t, u)
  PROVE  SuspendNotLost'
<1>1. ASSUME NEW kind \in CallKinds \ {HostWait}, KernelCall(t, kind)
      PROVE  SuspendNotLost'
  BY <1>1, SuspendMoved DEF KernelCall
<1>2. CASE GuestSleep(t)
  BY <1>2, SuspendMoved DEF GuestSleep
<1>3. CASE Yield(t)
  <2>1. \E there \in {"entry", "handoff"} : pc' = [pc EXCEPT ![t] = there]
    BY <1>3 DEF Yield
  <2>. QED
    BY <1>3, <2>1, SuspendMoved DEF Yield
<1>4. CASE Return(t)
  <2>1. pc[t] = "call" /\ UNCHANGED recVars
    BY <1>4 DEF Return
  <2>2. \E there \in {"lifted", "handoff", "entry"} : pc' = [pc EXCEPT ![t] = there]
    BY <1>4 DEF Return, RestoreReserved, Restore
  <2>. QED
    BY <2>1, <2>2, SuspendMoved
<1>5. CASE HandoffDone(t)
  BY <1>5, SuspendMoved DEF HandoffDone
<1>6. CASE TryFail(t)
  BY <1>6, SuspendKept DEF TryFail
<1>7. CASE TryOk(t)
  BY <1>7, SuspendMoved DEF TryOk
<1>8. CASE StandAside(t)
  <2>1. \E there \in {"reserved", "trying"} : pc' = [pc EXCEPT ![t] = there]
    BY <1>8 DEF StandAside
  <2>. QED
    BY <1>8, <2>1, SuspendMoved DEF StandAside
<1>9. CASE ReservationOver(t)
  BY <1>9, SuspendMoved DEF ReservationOver
<1>10. CASE Take(t)
  BY <1>10, SuspendMoved DEF Take, Took
<1>11. ASSUME NEW u \in Workers, Spawn(t, u)  PROVE SuspendNotLost'
  <2>1. u \in Threads
    BY DEF Threads, Guests
  <2>. QED
    BY <1>11, <2>1, SuspendMoved DEF Spawn
<1>12. CASE SuspendSelf(t)
  BY <1>12, SuspendMoved DEF SuspendSelf, InCall
<1>13. ASSUME NEW u \in Guests, NEW p \in NewPrios, SetPriority(t, u, p)
       PROVE  SuspendNotLost'
  BY <1>13, SuspendKept DEF SetPriority
<1>14. ASSUME NEW kind \in CallbackIn, Callback(t, kind)  PROVE SuspendNotLost'
  BY <1>14, SuspendMoved DEF Callback, InCall
<1>15. CASE CallbackReturn(t)
  BY <1>15, SuspendMoved DEF CallbackReturn
<1>16. CASE Terminate(t)
  BY <1>16, SuspendMoved DEF Terminate, InCall
<1>17. CASE WorkerReturn(t)
  BY <1>17, SuspendMoved DEF WorkerReturn
<1>18. CASE Starve(t)
  BY <1>18, SuspendKept DEF Starve
<1>19. CASE Begin(t)
  BY <1>19, SuspendMoved DEF Begin
<1>. QED
  BY <1>1, <1>2, <1>3, <1>4, <1>5, <1>6, <1>7, <1>8, <1>9, <1>10, <1>11,
     <1>12, <1>13, <1>14, <1>15, <1>16, <1>17, <1>18, <1>19 DEF Step

\* A suspend of another thread: what it writes, by the target's place.
LEMMA SuspendAsked ==
  ASSUME TypeOK, SuspendNotLost, NEW t \in Threads, NEW u \in Guests,
         SuspendOther(t, u)
  PROVE  SuspendNotLost'
<1>types. /\ suspend \in [Threads -> Nat] /\ req \in [Threads -> BOOLEAN]
          /\ woken \in [Threads -> Levels] /\ Guests \subseteq Threads
  BY DEF TypeOK, Guests, Threads
<1>1. /\ pc' = pc
      /\ suspend' = [suspend EXCEPT ![u] = @ + 1]
      /\ woken' = [woken EXCEPT ![u] = NotWoken]
      /\ req' = [req EXCEPT ![u] = req[u] \/ (suspend[u] = 0 /\ ~req[u] /\ pc[u] # "parked")]
  BY DEF SuspendOther
<1>2. suspend'[u] > 0 /\ suspend'[u] # 0 /\ woken'[u] = NotWoken
  BY <1>types, <1>1
<1>3. req'[u] = (req[u] \/ (suspend[u] = 0 /\ ~req[u] /\ pc[u] # "parked"))
  BY <1>types, <1>1, Zenon
<1>4. suspend[u] > 0 \/ suspend[u] = 0
  BY <1>types
<1>5. req'[u] \/ pc[u] = "parked"
  BY <1>3, <1>4 DEF SuspendNotLost
<1>6. ASSUME NEW v \in Guests, v # u
      PROVE  suspend'[v] = suspend[v] /\ woken'[v] = woken[v] /\ req'[v] = req[v]
  BY <1>types, <1>1, <1>6
<1>. QED
  BY <1>1, <1>2, <1>5, <1>6 DEF SuspendNotLost

\* A resume: of a thread halted by its own suspend, one of several, the last.
LEMMA SuspendEnds ==
  ASSUME TypeOK, SuspendNotLost, NEW t \in Threads, NEW u \in Guests,
         Resume(t, u)
  PROVE  SuspendNotLost'
<1>types. /\ suspend \in [Threads -> Nat] /\ req \in [Threads -> BOOLEAN]
          /\ woken \in [Threads -> Levels] /\ u \in Threads
          /\ Guests \subseteq Threads /\ prio[u] # NotWoken
  <2>1. /\ prio[u] \in Prios /\ suspend \in [Threads -> Nat]
        /\ req \in [Threads -> BOOLEAN] /\ woken \in [Threads -> Levels]
    BY DEF TypeOK
  <2>2. prio[u] < HostPrio /\ HostPrio \in Nat /\ prio[u] \in Nat
    BY <2>1, GuestLockAssumption
  <2>. QED
    BY <2>1, <2>2 DEF Guests, Threads, NotWoken
<1>1. CASE suspend[u] = 0
  <2>1. pc[u] = "halted" /\ UNCHANGED recVars /\ pc' = [pc EXCEPT ![u] = "call"]
    BY <1>types, <1>1 DEF Resume
  <2>. QED
    BY <1>types, <2>1, SuspendMoved
<1>2. CASE suspend[u] > 1
  <2>1. /\ pc' = pc /\ req' = req /\ woken' = woken
        /\ suspend' = [suspend EXCEPT ![u] = @ - 1]
    BY <1>types, <1>2 DEF Resume
  <2>2. suspend'[u] > 0 /\ suspend'[u] # 0 /\ suspend[u] > 0 /\ suspend[u] # 0
    BY <1>types, <1>2, <2>1
  <2>3. \A v \in Guests : v # u => suspend'[v] = suspend[v]
    BY <1>types, <2>1
  <2>. QED
    BY <2>1, <2>2, <2>3 DEF SuspendNotLost
<1>3. CASE suspend[u] = 1
  <2>1. /\ pc' = pc /\ suspend' = [suspend EXCEPT ![u] = 0]
        /\ req' = [req EXCEPT ![u] = FALSE]
    BY <1>types, <1>3 DEF Resume
  <2>2. IF pc[u] = "parked" /\ woken[u] = NotWoken
        THEN woken' = [woken EXCEPT ![u] = prio[u]] ELSE woken' = woken
    BY <1>types, <1>3 DEF Resume
  <2>3. woken[u] = NotWoken
    BY <1>types, <1>3 DEF SuspendNotLost
  <2>4. suspend'[u] = 0 /\ ~req'[u]
        /\ (woken'[u] # NotWoken <=> pc[u] = "parked")
    BY <1>types, <2>1, <2>2, <2>3
  <2>5. ASSUME NEW v \in Guests, v # u
        PROVE  suspend'[v] = suspend[v] /\ woken'[v] = woken[v] /\ req'[v] = req[v]
    BY <1>types, <2>1, <2>2, <2>5
  <2>. QED
    BY <2>1, <2>4, <2>5 DEF SuspendNotLost
<1>. QED
  BY <1>types, <1>1, <1>2, <1>3

LEMMA SuspendStep ==
  ASSUME TypeOK, SuspendNotLost, NEW t \in Threads, Step(t)
  PROVE  SuspendNotLost'
<1>types. /\ pc \in [Threads -> Pcs] /\ suspend \in [Threads -> Nat]
          /\ req \in [Threads -> BOOLEAN] /\ woken \in [Threads -> Levels]
          /\ prio \in [Guests -> Prios]
  BY DEF TypeOK
<1>1. CASE Entry(t)
  BY <1>types, <1>1 DEF Entry, SuspendNotLost
<1>2. CASE Unpark(t)
  BY <1>types, <1>2 DEF Unpark, SuspendNotLost
<1>. QED
  BY <1>1, <1>2, SuspendAsked, SuspendEnds, SuspendAside DEF Step

LEMMA SuspendNext ==
  ASSUME TypeOK, SuspendNotLost, [Next]_vars
  PROVE  SuspendNotLost'
<1>1. ASSUME NEW h \in Hosts, HostStep(h)  PROVE SuspendNotLost'
  BY <1>1, SuspendKept, ThreadFacts
     DEF HostStep, HostEnter, HostTake, Took, HostTimedTake, HostTimeout, HostDone, TypeOK
<1>2. CASE Tick \/ Lapse \/ UNCHANGED vars
  BY <1>2, SuspendKept DEF Tick, Lapse, vars
<1>. QED
  BY <1>1, <1>2, SuspendStep DEF Next

\* Whatever threads suspend and resume one another, and wherever the target
\* is meanwhile, a suspend count is answered by a park or stands as a request,
\* and a resume that overtakes the park leaves neither behind.
THEOREM SuspendsKept == Spec => []SuspendNotLost
<1>1. Init => SuspendNotLost
  BY ThreadFacts DEF Init, SuspendNotLost
<1>2. TypeOK /\ SuspendNotLost /\ [Next]_vars => SuspendNotLost'
  BY SuspendNext
<1>. QED
  BY <1>1, <1>2, TypeCorrect, PTL DEF Spec

---------------------------------------------------------------------------
(* What a step leaves alone *)

\* What thread t's step may do to another: make it, or resume it in the call
\* that stopped it.
Aside(t, u) ==
  /\ depth'[u] = depth[u]
  /\ calls'[u] = calls[u]
  /\ tResv'[u] = tResv[u]
  /\ \/ pc'[u] = pc[u] /\ goal'[u] = goal[u]
     \/ u \in Guests /\ pc[u] = "unborn" /\ pc'[u] = "born" /\ goal'[u] = goal[u]
     \/ u \in Guests /\ pc[u] = "halted" /\ pc'[u] = "call" /\ goal'[u] = goal[u]
  /\ owner' \in {owner, t, NoThread}
  /\ resv' \in {resv, t, NoThread}

\* A step moves the mutex and the reservation only to or from its own thread.
LEMMA Elsewhere ==
  ASSUME IInv, NEW t \in Threads, Step(t), NEW u \in Threads, u # t
  PROVE  Aside(t, u)
<1>types. /\ pc \in [Threads -> Pcs] /\ goal \in [Threads -> Goals]
          /\ calls \in [Threads -> Seq(Frames)] /\ depth \in [Threads -> 0..2]
          /\ tResv \in [Threads -> BOOLEAN]
  BY DEF IInv, TypeOK
<1>inv. CallsMatch(t) /\ TypeOK
  BY DEF IInv, LockInv, ThreadInv
<1>. USE <1>types
<1>drop. ASSUME NEW kind \in Kinds, Drop(t, kind)
         PROVE  depth'[u] = depth[u] /\ calls'[u] = calls[u] /\ owner' \in {owner, NoThread}
  BY <1>drop DEF Drop
<1>done. ASSUME NEW kind, InCall(t, kind), Done(t)  PROVE calls'[u] = calls[u]
  BY <1>done, <1>inv, DoneFacts
<1>1. ASSUME NEW kind \in CallKinds \ {HostWait}, KernelCall(t, kind)  PROVE Aside(t, u)
  <2>1. kind \in Kinds
    BY GuestLockAssumption DEF Kinds
  <2>. QED
    BY <1>1, <2>1, <1>drop DEF KernelCall, Aside, askVars
<1>2. CASE GuestSleep(t)
  BY <1>2, <1>drop DEF GuestSleep, Aside, askVars, resvVars, Kinds
<1>3. CASE Yield(t)
  BY <1>3, <1>drop DEF Yield, Aside, resvVars, Kinds
<1>4. CASE Return(t)
  <2>1. ASSUME Restore(t)
        PROVE  /\ pc'[u] = pc[u] /\ goal'[u] = goal[u] /\ calls'[u] = calls[u]
    BY <2>1 DEF Restore
  <2>2. UNCHANGED <<depth, owner>>
    BY <1>4 DEF Return, lockVars
  <2>3. CASE RestoreReserved(t)
    <3>1. /\ pc'[u] = pc[u] /\ goal'[u] = goal[u] /\ calls'[u] = calls[u]
          /\ resv' \in {resv, t, NoThread}
      BY <2>1, <2>3 DEF RestoreReserved, ClearResv
    <3>2. tResv'[u] = tResv[u]
      BY <2>3 DEF RestoreReserved
    <3>. QED
      BY <2>2, <3>1, <3>2 DEF Aside
  <2>4. CASE Restore(t) /\ UNCHANGED <<waitVars, resvVars>>
    BY <2>1, <2>2, <2>4 DEF Aside, resvVars
  <2>. QED
    BY <1>4, <2>3, <2>4 DEF Return
<1>5. CASE HandoffDone(t)
  BY <1>5 DEF HandoffDone, Aside, lockVars, askVars, resvVars
<1>6. CASE Entry(t)
  BY <1>6 DEF Entry, Aside, lockVars, resvVars
<1>7. CASE Unpark(t)
  BY <1>7 DEF Unpark, Aside, lockVars, resvVars
<1>8. CASE TryFail(t)
  BY <1>8 DEF TryFail, Aside, lockVars, resvVars
<1>9. CASE TryOk(t)
  BY <1>9 DEF TryOk, Aside, askVars, resvVars
<1>10. CASE StandAside(t)
  <2>1. pc'[u] = pc[u]
    BY <1>10 DEF StandAside
  <2>. QED
    BY <1>10, <2>1 DEF StandAside, Aside, resvVars
<1>11. CASE ReservationOver(t)
  BY <1>11 DEF ReservationOver, Aside, lockVars, askVars, resvVars
<1>12. CASE Take(t)
  <2>1. pc'[u] = pc[u] /\ depth'[u] = depth[u] /\ owner' = t
    BY <1>12 DEF Take, Took
  <2>2. calls'[u] = calls[u] /\ goal'[u] = goal[u] /\ tResv'[u] = tResv[u]
    BY <1>12 DEF Take
  <2>3. resv' \in {resv, t, NoThread}
    BY <1>12 DEF Take, ClearResv
  <2>. QED
    BY <2>1, <2>2, <2>3 DEF Aside
<1>13. ASSUME NEW x \in Workers, Spawn(t, x)  PROVE Aside(t, u)
  <2>1. x \in Guests /\ x \in Threads
    BY ThreadFacts
  <2>2. /\ calls'[u] = calls[u] /\ pc[x] = "unborn"
        /\ UNCHANGED <<depth, owner, resv, tResv, goal>>
        /\ pc' = [pc EXCEPT ![x] = "born"]
    BY <1>13, <1>done DEF Spawn, lockVars, askVars, resvVars
  <2>. QED
    BY <2>1, <2>2 DEF Aside
<1>14. ASSUME NEW x \in Guests, SuspendOther(t, x)  PROVE Aside(t, u)
  BY <1>14, <1>done DEF SuspendOther, Aside, lockVars, askVars, resvVars
<1>15. CASE SuspendSelf(t)
  <2>1. calls'[u] = calls[u]
    BY <1>15, <1>inv, StopFacts DEF SuspendSelf
  <2>. QED
    BY <1>15, <2>1 DEF SuspendSelf, ClearResv, Aside, lockVars, askVars
<1>16. ASSUME NEW x \in Guests, Resume(t, x)  PROVE Aside(t, u)
  <2>1. /\ calls'[u] = calls[u] /\ UNCHANGED <<depth, owner, resv, tResv, goal>>
    BY <1>16, <1>done DEF Resume, lockVars, resvVars, askVars
  <2>2. \/ pc' = pc
        \/ pc[x] = "halted" /\ pc' = [pc EXCEPT ![x] = "call"]
    <3>1. CASE suspend[x] = 0
      BY <1>16, <3>1, ThreadFacts DEF Resume, IInv, TypeOK
    <3>2. CASE suspend[x] # 0
      BY <1>16, <3>2 DEF Resume
    <3>. QED
      BY <3>1, <3>2
  <2>. QED
    BY <2>1, <2>2, ThreadFacts DEF Aside
<1>17. ASSUME NEW x \in Guests, NEW p \in NewPrios, SetPriority(t, x, p)
       PROVE  Aside(t, u)
  BY <1>17, <1>done DEF SetPriority, Aside, lockVars, askVars, resvVars
<1>18. ASSUME NEW kind \in CallbackIn, Callback(t, kind)  PROVE Aside(t, u)
  BY <1>18, <1>done DEF Callback, Aside, lockVars, resvVars
<1>19. CASE CallbackReturn(t)
  BY <1>19 DEF CallbackReturn, Aside, askVars, resvVars
<1>20. CASE Terminate(t)
  BY <1>20 DEF Terminate, Aside, lockVars, askVars, resvVars
<1>21. CASE WorkerReturn(t)
  BY <1>21 DEF WorkerReturn, Aside, askVars, resvVars
<1>22. CASE Starve(t)
  BY <1>22 DEF Starve, Aside, lockVars, resvVars
<1>23. CASE Begin(t)
  BY <1>23 DEF Begin, Aside, lockVars, resvVars
<1>. QED
  BY <1>1, <1>2, <1>3, <1>4, <1>5, <1>6, <1>7, <1>8, <1>9, <1>10, <1>11, <1>12, <1>13,
     <1>14, <1>15, <1>16, <1>17, <1>18, <1>19, <1>20, <1>21, <1>22, <1>23 DEF Step

\* A host thread's step around an interrupt leaves every other thread where it
\* is, and the mutex with whoever has it.
LEMMA HostElsewhere ==
  ASSUME IInv, NEW h \in Hosts, HostStep(h), NEW u \in Threads, u # h
  PROVE  Aside(h, u) /\ pc'[u] = pc[u] /\ resv' = resv /\ lapsed' = lapsed
<1>types. /\ pc \in [Threads -> Pcs] /\ depth \in [Threads -> 0..2] /\ h \in Threads
  BY ThreadFacts DEF IInv, TypeOK
<1>1. CASE HostEnter(h)
  <2>1. pc'[u] = pc[u] /\ depth'[u] = depth[u] /\ calls'[u] = calls[u] /\ owner' \in {owner, h}
    BY <1>types, <1>1 DEF HostEnter, HostTake, Took, lockVars
  <2>. QED
    BY <1>1, <2>1 DEF HostEnter, Aside, resvVars
<1>2. CASE HostTimedTake(h)
  BY <1>types, <1>2 DEF HostTimedTake, HostTake, Took, Aside, resvVars
<1>3. CASE HostTimeout(h)
  BY <1>types, <1>3 DEF HostTimeout, Aside, lockVars, askVars, resvVars
<1>4. CASE HostDone(h)
  BY <1>types, <1>4 DEF HostDone, Aside, askVars, resvVars
<1>. QED
  BY <1>1, <1>2, <1>3, <1>4 DEF HostStep

---------------------------------------------------------------------------
(* Who holds the mutex *)

\* A thread that blocks does not have the mutex; a host thread that dropped
\* levels of it has levels to take back, and never has a reservation.
Holding(t) ==
  /\ owner = t => pc[t] = "probe" \/ (pc[t] = "lifted" /\ depth[t] > 0)
  /\ t \in Hosts =>
       /\ goal[t] = "return"
       /\ ~tResv[t]
       /\ pc[t] \in Entering => calls[t] # << >> /\ Head(calls[t]).held > 0

HoldInv == \A t \in Threads : Holding(t)

\* What a call's frame says when it is entered, done with, stopped in, left.
LEMMA DoneKind ==
  ASSUME TypeOK, NEW t \in Threads, CallsMatch(t), NEW kind, InCall(t, kind), Done(t)
  PROVE  /\ \A i \in 1..Len(calls[t]) : calls'[t][i].kind = calls[t][i].kind
         /\ Head(calls'[t]) = calls'[t][1] /\ Head(calls[t]) = calls[t][1]
         /\ Head(calls'[t]).kind = kind
<1>1. /\ calls \in [Threads -> Seq(Frames)] /\ calls[t] # << >>
      /\ calls' = [calls EXCEPT ![t] = [calls[t] EXCEPT ![1] =
                     [calls[t][1] EXCEPT !.todo = FALSE]]]
      /\ Head(calls[t]).kind = kind
  BY DEF TypeOK, CallsMatch, InCall, Done
<1>2. calls[t] \in Seq(Frames) /\ 1 \in 1..Len(calls[t]) /\ Head(calls[t]) = calls[t][1]
  BY <1>1
<1>3. calls[t][1] \in Frames
  BY <1>2
<1>4. [calls[t][1] EXCEPT !.todo = FALSE].kind = kind
  BY <1>1, <1>2, <1>3 DEF Frames
<1>5. calls'[t] = [calls[t] EXCEPT ![1] = [calls[t][1] EXCEPT !.todo = FALSE]]
  BY <1>1
<1>. DEFINE f == [calls[t][1] EXCEPT !.todo = FALSE]
            m == calls'[t]
<1>6. m = [calls[t] EXCEPT ![1] = f] /\ f.kind = kind /\ calls[t][1].kind = kind
  BY <1>1, <1>2, <1>4, <1>5
<1>7. Len(calls'[t]) = Len(calls[t]) /\ calls'[t] # << >> /\ calls' \in [Threads -> Seq(Frames)]
  BY DoneFacts
<1>. HIDE DEF f
<1>8. \A i \in 1..Len(calls[t]) : m[i].kind = calls[t][i].kind
  BY <1>2, <1>6
<1>9. Head(m) = m[1]
  BY <1>7
<1>. QED
  BY <1>2, <1>6, <1>8, <1>9

LEMMA StopKind ==
  ASSUME TypeOK, NEW t \in Threads, CallsMatch(t), InCall(t, Prompt), Stopped(t)
  PROVE  /\ calls'[t][1].kind = Blocking
         /\ \A i \in 2..Len(calls[t]) : calls'[t][i].kind = calls[t][i].kind
<1>1. /\ calls \in [Threads -> Seq(Frames)] /\ calls[t] # << >>
      /\ calls' = [calls EXCEPT ![t] = [calls[t] EXCEPT ![1] =
                     [calls[t][1] EXCEPT !.kind = Blocking, !.todo = FALSE]]]
  BY DEF TypeOK, CallsMatch, InCall, Stopped
<1>. DEFINE f == [calls[t][1] EXCEPT !.kind = Blocking, !.todo = FALSE]
<1>2. calls[t] \in Seq(Frames) /\ 1 \in 1..Len(calls[t]) /\ calls[t][1] \in Frames
  BY <1>1
<1>3. f.kind = Blocking
  BY <1>2 DEF Frames
<1>4. calls'[t] = [calls[t] EXCEPT ![1] = f]
  BY <1>1
<1>. HIDE DEF f
<1>. QED
  BY <1>2, <1>3, <1>4

LEMMA DropKind ==
  ASSUME TypeOK, NEW t \in Threads, NEW kind \in Kinds, Drop(t, kind)
  PROVE  /\ calls'[t] # << >>
         /\ Head(calls'[t]).kind = kind /\ Head(calls'[t]).held = depth[t]
         /\ Len(calls'[t]) = Len(calls[t]) + 1 /\ calls'[t][1].kind = kind
         /\ \A i \in 1..Len(calls[t]) : calls'[t][i + 1] = calls[t][i]
<1>. DEFINE f == [kind |-> kind, held |-> depth[t], todo |-> kind # BackEdge]
<1>1. calls \in [Threads -> Seq(Frames)] /\ depth \in [Threads -> 0..2]
  BY DEF TypeOK
<1>2. f \in Frames /\ f.held = depth[t] /\ f.kind = kind
  BY <1>1 DEF Frames
<1>3. calls' = [calls EXCEPT ![t] = <<f>> \o calls[t]]
  BY DEF Drop
<1>. HIDE DEF f
<1>4. calls'[t] = <<f>> \o calls[t] /\ calls[t] \in Seq(Frames)
  BY <1>1, <1>3
<1>5. Head(<<f>> \o calls[t]) = f
  BY <1>2, <1>4
<1>. QED
  BY <1>2, <1>4, <1>5, PushFrame

\* The steps of a thread's own way back to the lock, which change neither its
\* calls nor what it comes back for.
OnTheWay(t) ==
  \/ HandoffDone(t) \/ Entry(t) \/ Unpark(t) \/ TryFail(t) \/ TryOk(t)
  \/ StandAside(t) \/ ReservationOver(t)

LEMMA WayFacts ==
  ASSUME TypeOK, NEW t \in Threads, OnTheWay(t)
  PROVE  /\ pc[t] \in Entering /\ pc'[t] \in Entering
         /\ UNCHANGED <<calls, goal, depth, resv, lapsed, tResv>>
         /\ owner' = t => owner = t \/ pc'[t] = "probe"
         /\ owner' = t /\ pc[t] = "probe" => pc'[t] = "probe"
<1>types. pc \in [Threads -> Pcs] /\ NoThread \notin Threads
  BY GuestLockAssumption DEF TypeOK
<1>1. CASE HandoffDone(t)
  BY <1>types, <1>1 DEF HandoffDone, Entering, lockVars, askVars, resvVars
<1>2. CASE Entry(t)
  BY <1>types, <1>2 DEF Entry, Entering, lockVars, resvVars
<1>3. CASE Unpark(t)
  BY <1>types, <1>3 DEF Unpark, Entering, lockVars, resvVars
<1>4. CASE TryFail(t)
  BY <1>types, <1>4 DEF TryFail, Entering, lockVars, resvVars
<1>5. CASE TryOk(t)
  BY <1>types, <1>5 DEF TryOk, Entering, askVars, resvVars
<1>6. CASE StandAside(t)
  <2>1. pc'[t] \in {"reserved", "trying"} /\ pc[t] = "probe" /\ owner' = NoThread
    BY <1>types, <1>6 DEF StandAside
  <2>. QED
    BY <1>types, <1>6, <2>1 DEF StandAside, Entering, resvVars
<1>7. CASE ReservationOver(t)
  BY <1>types, <1>7 DEF ReservationOver, Entering, lockVars, askVars, resvVars
<1>. QED
  BY <1>1, <1>2, <1>3, <1>4, <1>5, <1>6, <1>7 DEF OnTheWay

\* A thread's own step does not leave it blocked with the mutex.
LEMMA HoldingOwn ==
  ASSUME IInv, IInv', ~WorkersReturn, NEW t \in Threads, Holding(t), Step(t)
  PROVE  Holding(t)'
<1>types. /\ pc \in [Threads -> Pcs] /\ goal \in [Threads -> Goals]
          /\ calls \in [Threads -> Seq(Frames)] /\ depth \in [Threads -> 0..2]
          /\ tResv \in [Threads -> BOOLEAN] /\ TypeOK
  BY DEF IInv, TypeOK
<1>facts. (t \in Hosts <=> t \notin Guests) /\ NoThread # t
  BY ThreadFacts
<1>inv. Holding(t) /\ ThreadInv(t) /\ ThreadInv(t)'
  BY DEF IInv, LockInv
<1>. USE <1>types, <1>facts, <1>inv
<1>drop. ASSUME NEW kind \in Kinds, Drop(t, kind), pc[t] = "lifted"
         PROVE  owner' # t
  BY <1>drop DEF Drop, Holding
<1>1. ASSUME NEW kind \in CallKinds \ {HostWait}, KernelCall(t, kind)
      PROVE  Holding(t)'
  <2>1. kind \in Kinds
    BY GuestLockAssumption DEF Kinds
  <2>2. owner' # t
    BY <1>1, <2>1, <1>drop DEF KernelCall
  <2>3. pc'[t] = "call" /\ goal' = goal /\ (t \in Hosts => ~tResv'[t])
    BY <1>1 DEF KernelCall, askVars
  <2>. QED
    BY <2>2, <2>3 DEF Holding, Entering
<1>2. CASE GuestSleep(t)
  <2>1. owner' # t
    BY <1>2, <1>drop DEF GuestSleep, Kinds
  <2>. QED
    BY <1>2, <2>1 DEF GuestSleep, Holding
<1>3. CASE Yield(t)
  <2>1. owner' # t /\ calls'[t] # << >> /\ Head(calls'[t]).held = depth[t]
    BY <1>3, <1>drop, DropKind DEF Yield, Kinds
  <2>2. pc'[t] \in {"entry", "handoff"} /\ goal'[t] = "return" /\ tResv' = tResv /\ depth[t] > 0
    BY <1>3 DEF Yield, resvVars
  <2>. QED
    BY <2>1, <2>2 DEF Holding
<1>4. CASE Return(t)
  <2>1. owner' # t /\ calls[t] # << >>
    BY <1>4 DEF Return, lockVars, Holding, ThreadInv, CallsMatch
  <2>2. CASE t \in Guests
    BY <2>1, <2>2 DEF Holding
  <2>3. CASE t \in Hosts
    <3>1. Restore(t) /\ tResv' = tResv
      BY <1>4, <2>3 DEF Return, Holding, resvVars
    <3>2. Head(calls[t]).held \in 0..2
      BY <2>1, PopFrame DEF Frames
    <3>3. CASE Head(calls[t]).held = 0
      BY <2>1, <3>1, <3>3 DEF Restore, Holding, Entering
    <3>4. CASE Head(calls[t]).held # 0
      <4>1. calls' = calls /\ goal'[t] = "return" /\ Head(calls[t]).held > 0
        BY <3>1, <3>2, <3>4 DEF Restore
      <4>. QED
        BY <2>1, <2>3, <3>1, <4>1 DEF Holding
    <3>. QED
      BY <3>3, <3>4
  <2>. QED
    BY <2>2, <2>3
<1>5. CASE OnTheWay(t)
  <2>1. /\ pc[t] \in Entering /\ pc'[t] \in Entering
        /\ UNCHANGED <<calls, goal, depth, resv, lapsed, tResv>>
        /\ owner' = t => owner = t \/ pc'[t] = "probe"
        /\ owner' = t /\ pc[t] = "probe" => pc'[t] = "probe"
    BY <1>5, WayFacts
  <2>2. pc[t] # "lifted"
    BY <2>1 DEF Entering
  <2>. QED
    BY <2>1, <2>2 DEF Holding
<1>6. CASE Take(t)
  <2>1. pc'[t] = "lifted" /\ goal'[t] = "return" /\ tResv' = tResv
    BY <1>6 DEF Take, Took
  <2>2. depth'[t] > 0
    <3>1. CASE t \in Guests
      BY <2>1, <3>1 DEF ThreadInv, RunningDepth, BaseDepth
    <3>2. CASE t \in Hosts
      <4>1. goal[t] = "return" /\ Head(calls[t]).held > 0
        BY <1>6, <3>2 DEF Take, Holding, Entering
      <4>2. DepthTaken(t) = Head(calls[t]).held
        BY <4>1 DEF DepthTaken
      <4>. QED
        BY <1>6, <4>1, <4>2 DEF Take, Took
    <3>. QED
      BY <3>1, <3>2
  <2>. QED
    BY <2>1, <2>2 DEF Holding, Entering
<1>7. ASSUME InCall(t, Prompt) \/ InCall(t, Blocking), UNCHANGED owner  PROVE Holding(t)'
  <2>1. owner' # t /\ t \in Guests
    BY <1>7 DEF InCall, Holding
  <2>. QED
    BY <2>1 DEF Holding
<1>8. \/ \E x \in Workers : Spawn(t, x)
      \/ \E x \in Guests : SuspendOther(t, x)
      \/ SuspendSelf(t)
      \/ \E x \in Guests : Resume(t, x)
      \/ \E x \in Guests, p \in NewPrios : SetPriority(t, x, p)
      \/ \E kind \in CallbackIn : Callback(t, kind)
      \/ Terminate(t)
      => Holding(t)'
  <2>1. CallbackIn \subseteq {Prompt, Blocking}
    BY GuestLockAssumption
  <2>. QED
    BY <1>7, <2>1 DEF Spawn, SuspendOther, SuspendSelf, Resume, SetPriority, Callback,
       Terminate, lockVars
<1>9. CASE CallbackReturn(t)
  <2>1. depth[t] = 1
    BY <1>9 DEF CallbackReturn, ThreadInv, RunningDepth
  <2>. QED
    BY <1>9, <2>1 DEF CallbackReturn, Holding
<1>10. CASE WorkerReturn(t)
  BY <1>10 DEF WorkerReturn
<1>11. CASE Starve(t)
  BY <1>11 DEF Starve, Holding, lockVars, resvVars
<1>12. CASE Begin(t)
  <2>1. t \in Guests
    BY <1>12, ThreadFacts DEF Begin
  <2>. QED
    BY <1>12, <2>1 DEF Begin, Holding, lockVars
<1>. QED
  BY <1>1, <1>2, <1>3, <1>4, <1>5, <1>6, <1>8, <1>9, <1>10, <1>11, <1>12 DEF Step, OnTheWay

LEMMA HoldingNext ==
  ASSUME IInv, IInv', HoldInv, ~WorkersReturn, [Next]_vars
  PROVE  HoldInv'
<1>1. ASSUME NEW t \in Threads, Step(t)  PROVE HoldInv'
  <2>. SUFFICES ASSUME NEW u \in Threads  PROVE Holding(u)'
    BY DEF HoldInv
  <2>1. CASE u = t
    BY <1>1, <2>1, HoldingOwn DEF HoldInv
  <2>2. CASE u # t
    <3>1. Aside(t, u) /\ Holding(u) /\ u # NoThread /\ (u \in Hosts <=> u \notin Guests)
      BY <1>1, <2>2, Elsewhere, ThreadFacts DEF HoldInv
    <3>. QED
      BY <2>2, <3>1 DEF Aside, Holding
  <2>. QED
    BY <2>1, <2>2
<1>2. ASSUME NEW h \in Hosts, HostStep(h)  PROVE HoldInv'
  <2>. SUFFICES ASSUME NEW u \in Threads  PROVE Holding(u)'
    BY DEF HoldInv
  <2>1. Holding(u) /\ u # NoThread
    BY ThreadFacts DEF HoldInv
  <2>2. CASE u = h
    <3>types. /\ pc \in [Threads -> Pcs] /\ depth \in [Threads -> 0..2]
              /\ h \in Threads /\ h # NoThread
      BY ThreadFacts DEF IInv, TypeOK
    <3>1. CASE HostEnter(h)
      <4>1. CASE HostTake(h)
        BY <3>types, <2>1, <2>2, <3>1, <4>1
           DEF HostEnter, HostTake, Took, Holding, Entering, resvVars
      <4>2. CASE Goto(h, "timed") /\ UNCHANGED <<lockVars, starved>>
        BY <3>types, <2>1, <2>2, <3>1, <4>2 DEF HostEnter, Holding, Entering, resvVars, lockVars
      <4>. QED
        BY <3>1, <4>1, <4>2 DEF HostEnter
    <3>2. CASE HostTimedTake(h)
      BY <3>types, <2>1, <2>2, <3>2
         DEF HostTimedTake, HostTake, Took, Holding, Entering, resvVars
    <3>3. CASE HostTimeout(h)
      BY <3>types, <2>1, <2>2, <3>3
         DEF HostTimeout, Holding, Entering, resvVars, lockVars, askVars
    <3>4. CASE HostDone(h)
      BY <3>types, <2>1, <2>2, <3>4 DEF HostDone, Holding, Entering, resvVars, askVars
    <3>. QED
      BY <1>2, <3>1, <3>2, <3>3, <3>4 DEF HostStep
  <2>3. CASE u # h
    <3>1. Aside(h, u) /\ pc'[u] = pc[u] /\ (u \in Hosts <=> u \notin Guests)
      BY <1>2, <2>3, HostElsewhere, ThreadFacts
    <3>. QED
      BY <2>1, <2>3, <3>1 DEF Aside, Holding
  <2>. QED
    BY <2>2, <2>3
<1>3. CASE Tick \/ Lapse \/ UNCHANGED vars
  <2>1. UNCHANGED <<pc, calls, owner, depth, goal, tResv>>
    BY <1>3 DEF Tick, Lapse, vars, lockVars, askVars, resvVars
  <2>. QED
    BY <2>1 DEF HoldInv, Holding
<1>. QED
  BY <1>1, <1>2, <1>3 DEF Next

\* Nobody blocks with the lock, as long as no worker's routine returns instead
\* of terminating: the holder can always run, so threads never all wait for one
\* that waits for them.  A routine that returns ends its thread with a level it
\* does not give back.
THEOREM HolderIsRunning == ASSUME ~WorkersReturn PROVE Spec => []NobodyBlocksHolding
<1>1. Init => HoldInv
  BY ThreadFacts DEF Init, HoldInv, Holding, Entering
<1>2. IInv /\ IInv' /\ HoldInv /\ [Next]_vars => HoldInv'
  BY HoldingNext
<1>3. HoldInv => NobodyBlocksHolding
  BY DEF HoldInv, Holding, NobodyBlocksHolding
<1>. QED
  BY <1>1, <1>2, <1>3, Inductive, PTL DEF Spec

---------------------------------------------------------------------------
(* A prompt call keeps the turn *)

\* A step changes the reservation from lifted code, where a prompt call makes
\* it its own, or to end its own.
LEMMA ResvMoves ==
  ASSUME IInv, NEW t \in Threads, Step(t)
  PROVE  \/ t \in Guests /\ pc[t] = "lifted" /\ resv' = t
         \/ /\ lapsed' = lapsed
            /\ resv' = resv \/ (resv = t /\ resv' = NoThread)
<1>1. ASSUME NEW kind \in CallKinds \ {HostWait}, KernelCall(t, kind)
      PROVE  \/ t \in Guests /\ pc[t] = "lifted" /\ resv' = t
             \/ lapsed' = lapsed /\ resv' = resv
  BY <1>1 DEF KernelCall
<1>2. CASE Return(t)
  <2>1. CASE RestoreReserved(t)
    BY <2>1 DEF RestoreReserved, ClearResv
  <2>2. CASE UNCHANGED resvVars
    BY <2>2 DEF resvVars
  <2>. QED
    BY <1>2, <2>1, <2>2 DEF Return
<1>3. CASE Take(t)
  BY <1>3 DEF Take, ClearResv
<1>4. CASE SuspendSelf(t)
  BY <1>4 DEF SuspendSelf, ClearResv
<1>5. CASE OnTheWay(t)
  BY <1>5, WayFacts DEF IInv
<1>6. GuestSleep(t) \/ Yield(t) \/ CallbackReturn(t) \/ WorkerReturn(t) \/ Begin(t)
        \/ Terminate(t) \/ Starve(t) \/ (\E x \in Workers : Spawn(t, x))
        => UNCHANGED resvVars
  BY DEF GuestSleep, Yield, CallbackReturn, WorkerReturn, Terminate, Starve, Spawn, Begin,
         resvVars
<1>7. \/ \E x \in Guests : SuspendOther(t, x)
      \/ \E x \in Guests : Resume(t, x)
      \/ \E x \in Guests, p \in NewPrios : SetPriority(t, x, p)
      \/ \E kind \in CallbackIn : Callback(t, kind)
      => UNCHANGED resvVars
  BY DEF SuspendOther, Resume, SetPriority, Callback, resvVars
<1>8. UNCHANGED resvVars => lapsed' = lapsed /\ resv' = resv
  BY DEF resvVars
<1>. QED
  BY <1>1, <1>2, <1>3, <1>4, <1>5, <1>6, <1>7, <1>8 DEF Step, OnTheWay

\* A guest thread comes to lifted code past nobody's reservation.
LEMMA LiftedUnreserved ==
  ASSUME IInv, NEW t \in Guests, Step(t), pc[t] # "lifted", pc'[t] = "lifted"
  PROVE  ~Reserved(t)
<1>types. /\ pc \in [Threads -> Pcs] /\ t \in Threads /\ TypeOK
          /\ calls \in [Threads -> Seq(Frames)] /\ CallsMatch(t) /\ ThreadInv(t)
  BY ThreadFacts DEF IInv, TypeOK, LockInv, ThreadInv
<1>. USE <1>types
<1>1. CASE Take(t)
  BY <1>1 DEF Take
<1>2. ~Return(t)
  <2>. SUFFICES ASSUME Return(t)  PROVE FALSE
    OBVIOUS
  <2>1. calls[t] # << >>
    BY DEF Return, CallsMatch
  <2>2. Head(calls[t]) = calls[t][1] /\ 1 \in 1..Len(calls[t])
    BY <2>1
  <2>3. Head(calls[t]).held # 0
    BY <2>2 DEF ThreadInv, FramesHold, BaseDepth
  <2>4. ~Restore(t)
    BY <2>3 DEF Restore
  <2>5. RestoreReserved(t)
    BY <2>4 DEF Return
  <2>. QED
    BY <2>4, <2>5 DEF RestoreReserved
<1>3. ~OnTheWay(t)
  BY WayFacts DEF Entering
<1>4. ~(\/ \E kind \in CallKinds \ {HostWait} : KernelCall(t, kind)
        \/ GuestSleep(t) \/ Yield(t) \/ CallbackReturn(t) \/ WorkerReturn(t)
        \/ Terminate(t) \/ Starve(t) \/ Begin(t))
  BY DEF KernelCall, GuestSleep, Yield, CallbackReturn, WorkerReturn, Terminate, Starve, Begin
<1>5. ~(\/ \E x \in Workers : Spawn(t, x)
        \/ \E x \in Guests : SuspendOther(t, x)
        \/ SuspendSelf(t)
        \/ \E x \in Guests : Resume(t, x)
        \/ \E x \in Guests, p \in NewPrios : SetPriority(t, x, p)
        \/ \E kind \in CallbackIn : Callback(t, kind))
  BY DEF Spawn, SuspendOther, SuspendSelf, Resume, SetPriority, Callback
<1>. QED
  BY <1>1, <1>2, <1>3, <1>4, <1>5 DEF Step, OnTheWay

\* What another thread's step leaves of a guest's prompt call and of its being
\* in lifted code.
LEMMA AsideStays ==
  ASSUME IInv, NEW t \in Threads, NEW u \in Guests, Aside(t, u)
  PROVE  /\ pc'[u] = "lifted" => pc[u] = "lifted"
         /\ InPromptCall(u)' /\ pc[u] # "halted" => InPromptCall(u)
  BY DEF Aside, InPromptCall, Entering

\* A reservation comes into force for the thread that makes the call alone, and
\* while one is, nobody else comes to lifted code.
LEMMA UndisturbedStep ==
  ASSUME IInv, MutualExclusion, PromptCallUndisturbed, NEW t \in Threads, Step(t)
  PROVE  PromptCallUndisturbed'
<1>. SUFFICES ASSUME NEW a \in Guests, NEW b \in Guests, InForce(a)',
                     pc'[b] = "lifted", a # b
              PROVE  FALSE
  BY DEF PromptCallUndisturbed
<1>types. a # NoThread /\ a \in Threads /\ b \in Threads
  BY ThreadFacts
<1>1. CASE InForce(a)
  <2>1. pc[b] # "lifted"
    BY <1>1 DEF PromptCallUndisturbed
  <2>2. b = t
    BY <1>types, <2>1, Elsewhere, AsideStays
  <2>3. ~Reserved(b)
    BY <2>1, <2>2, LiftedUnreserved
  <2>. QED
    BY <1>types, <1>1, <2>3 DEF Reserved, InForce
<1>2. CASE ~InForce(a)
  <2>1. a = t /\ pc[t] = "lifted"
    BY <1>types, <1>2, ResvMoves DEF InForce
  <2>2. pc[b] = "lifted"
    BY <1>types, <2>1, Elsewhere, AsideStays
  <2>. QED
    BY <2>1, <2>2 DEF MutualExclusion
<1>. QED
  BY <1>1, <1>2

LEMMA UndisturbedNext ==
  ASSUME IInv, MutualExclusion, PromptCallUndisturbed, [Next]_vars
  PROVE  PromptCallUndisturbed'
<1>1. ASSUME NEW h \in Hosts, HostStep(h)  PROVE PromptCallUndisturbed'
  <2>1. ASSUME NEW u \in Guests
        PROVE  pc'[u] = pc[u] /\ resv' = resv /\ lapsed' = lapsed
    BY <1>1, HostElsewhere, ThreadFacts
  <2>. QED
    BY <2>1 DEF PromptCallUndisturbed, InForce
<1>2. CASE Tick \/ Lapse \/ UNCHANGED vars
  <2>1. pc' = pc /\ resv' = resv /\ (lapsed' = lapsed \/ lapsed')
    BY <1>2 DEF Tick, Lapse, vars, resvVars
  <2>. QED
    BY <2>1 DEF PromptCallUndisturbed, InForce
<1>. QED
  BY <1>1, <1>2, UndisturbedStep DEF Next

\* A kernel call that cannot block is no reschedule: while its reservation is
\* in force no other guest thread runs lifted code, whatever the priorities,
\* the suspends, the threads that wait and the callbacks in the middle of it.
THEOREM PromptCallsAreWhole == Spec => []PromptCallUndisturbed
<1>1. Init => PromptCallUndisturbed
  BY ThreadFacts DEF Init, PromptCallUndisturbed, InForce
<1>2. IInv /\ MutualExclusion /\ PromptCallUndisturbed /\ [Next]_vars
        => PromptCallUndisturbed'
  BY UndisturbedNext
<1>. QED
  BY <1>1, <1>2, Inductive, OneGuestAtATime, PTL DEF Spec

\* A thread halted by its own suspend is in a call that says it blocks.
HaltedBlocks ==
  \A t \in Guests : pc[t] = "halted" => Head(calls[t]).kind = Blocking

LEMMA HaltedOwn ==
  ASSUME IInv, NEW t \in Threads, Step(t), pc'[t] = "halted"
  PROVE  \/ Head(calls'[t]).kind = Blocking
         \/ pc[t] = "halted" /\ calls'[t] = calls[t]
<1>types. /\ pc \in [Threads -> Pcs] /\ TypeOK /\ CallsMatch(t)
  BY DEF IInv, TypeOK, LockInv, ThreadInv
<1>1. CASE SuspendSelf(t)
  <2>1. calls'[t][1].kind = Blocking
    BY <1>types, <1>1, StopKind DEF SuspendSelf
  <2>2. calls'[t] \in Seq(Frames) /\ calls'[t] # << >>
    BY <1>types, <1>1, StopFacts DEF SuspendSelf
  <2>. QED
    BY <2>1, <2>2
<1>2. CASE Starve(t)
  BY <1>2 DEF Starve
<1>3. ~OnTheWay(t) /\ ~Take(t)
  BY <1>types, WayFacts DEF Entering, Take, Took
<1>4. ~Return(t)
  BY <1>types DEF Return, RestoreReserved, Restore
<1>5. ~(\/ \E kind \in CallKinds \ {HostWait} : KernelCall(t, kind)
        \/ GuestSleep(t) \/ Yield(t) \/ CallbackReturn(t) \/ WorkerReturn(t)
        \/ Terminate(t) \/ Begin(t) \/ (\E kind \in CallbackIn : Callback(t, kind)))
  BY <1>types DEF KernelCall, GuestSleep, Yield, CallbackReturn, WorkerReturn, Terminate,
     Begin, Callback
<1>6. ~(\/ \E x \in Workers : Spawn(t, x)
        \/ \E x \in Guests : SuspendOther(t, x)
        \/ \E x \in Guests : Resume(t, x)
        \/ \E x \in Guests, p \in NewPrios : SetPriority(t, x, p))
  BY <1>types, ThreadFacts DEF Spawn, SuspendOther, Resume, SetPriority, InCall
<1>. QED
  BY <1>1, <1>2, <1>3, <1>4, <1>5, <1>6 DEF Step, OnTheWay

LEMMA HaltedNext ==
  ASSUME IInv, HaltedBlocks, [Next]_vars
  PROVE  HaltedBlocks'
<1>. SUFFICES ASSUME NEW u \in Guests, pc'[u] = "halted"
              PROVE  Head(calls'[u]).kind = Blocking
  BY DEF HaltedBlocks
<1>1. ASSUME NEW t \in Threads, Step(t)  PROVE Head(calls'[u]).kind = Blocking
  <2>1. CASE u = t
    BY <1>1, <2>1, HaltedOwn DEF HaltedBlocks
  <2>2. CASE u # t
    <3>1. Aside(t, u)
      BY <1>1, <2>2, Elsewhere, ThreadFacts
    <3>. QED
      BY <3>1 DEF Aside, HaltedBlocks
  <2>. QED
    BY <2>1, <2>2
<1>2. ASSUME NEW h \in Hosts, HostStep(h)  PROVE Head(calls'[u]).kind = Blocking
  BY <1>2, HostElsewhere, ThreadFacts DEF Aside, HaltedBlocks
<1>3. CASE Tick \/ Lapse \/ UNCHANGED vars
  BY <1>3 DEF Tick, Lapse, vars, HaltedBlocks
<1>. QED
  BY <1>1, <1>2, <1>3 DEF Next

\* What may have happened to a prompt call without a reservation: it had none
\* in force before the step, the clock ran it out, or its callback returned.
Excused(t) ==
  \/ InPromptCall(t) /\ (lapsed' \/ ~InForce(t))
  \/ pc[t] = "lifted" /\ calls'[t] = calls[t]

\* A thread's own step: it comes into a prompt call with a reservation, and
\* gives it up only as it gives up its turn.
LEMMA KeptOwn ==
  ASSUME IInv, NEW t \in Guests, Step(t), InPromptCall(t)', ~InForce(t)'
  PROVE  Excused(t)
<1>types. /\ pc \in [Threads -> Pcs] /\ goal \in [Threads -> Goals]
          /\ calls \in [Threads -> Seq(Frames)] /\ TypeOK /\ t \in Threads
          /\ CallsMatch(t) /\ ThreadInv(t)
  BY ThreadFacts DEF IInv, TypeOK, LockInv, ThreadInv
<1>. USE <1>types
<1>then. /\ calls'[t] # << >> /\ Head(calls'[t]).kind = Prompt
         /\ pc'[t] = "call" \/ (pc'[t] \in Entering /\ goal'[t] = "turn")
  BY DEF InPromptCall
<1>1. ~(\E kind \in CallKinds \ {HostWait} : KernelCall(t, kind))
  <2>. SUFFICES ASSUME NEW kind \in CallKinds \ {HostWait}, KernelCall(t, kind)  PROVE FALSE
    OBVIOUS
  <2>1. kind \in Kinds
    BY GuestLockAssumption DEF Kinds
  <2>2. kind = Prompt /\ pc[t] = "lifted"
    BY <2>1, <1>then, DropKind DEF KernelCall
  <2>3. depth[t] > 0
    BY <2>2 DEF ThreadInv, RunningDepth, BaseDepth
  <2>4. resv' = t /\ ~lapsed'
    BY <2>2, <2>3 DEF KernelCall
  <2>. QED
    BY <2>4 DEF InForce
<1>2. ~GuestSleep(t)
  BY <1>then, DropKind DEF GuestSleep, Kinds, HostWait, Prompt
<1>3. ~Yield(t)
  BY <1>then, DropKind DEF Yield, Kinds, BackEdge, Prompt
<1>4. CASE Return(t)
  <2>1. pc[t] = "call" /\ calls[t] # << >>
    BY <1>4 DEF Return, CallsMatch
  <2>2. Head(calls[t]).held # 0
    <3>1. Head(calls[t]) = calls[t][1] /\ 1 \in 1..Len(calls[t])
      BY <2>1
    <3>. QED
      BY SMTT(30), <3>1 DEF ThreadInv, FramesHold, BaseDepth
  <2>3. Restore(t) => goal'[t] = "return" /\ pc'[t] # "call"
    BY <2>2 DEF Restore
  <2>4. RestoreReserved(t) /\ ~Restore(t)
    BY <1>4, <1>then, <2>3 DEF Return
  <2>5. ~ReadiedAbove(t)
    BY <1>then, <2>4 DEF RestoreReserved
  <2>6. calls' = calls /\ resv' = resv /\ lapsed' = lapsed
    BY <2>4, <2>5 DEF RestoreReserved
  <2>. QED
    BY <1>then, <2>1, <2>6 DEF InPromptCall, InForce, Excused
<1>5. CASE OnTheWay(t)
  <2>1. /\ pc[t] \in Entering /\ pc'[t] \in Entering
        /\ UNCHANGED <<calls, goal, resv, lapsed>>
    BY <1>5, WayFacts
  <2>2. pc[t] # "call" /\ pc'[t] # "call"
    BY <2>1 DEF Entering
  <2>. QED
    BY <1>then, <2>1, <2>2 DEF InPromptCall, InForce, Excused
<1>6. ~Take(t)
  BY <1>then DEF Take, Took, Entering
<1>7. ASSUME NEW kind, InCall(t, kind), Done(t), UNCHANGED resvVars, pc'[t] = pc[t]
      PROVE  Excused(t)
  <2>1. Head(calls[t]).kind = Prompt
    BY <1>7, <1>then, DoneKind DEF InCall
  <2>2. InPromptCall(t)
    BY <1>7, <2>1 DEF InPromptCall, InCall, CallsMatch
  <2>. QED
    BY <1>7, <2>2 DEF InForce, resvVars, Excused
<1>8. ASSUME NEW x \in Workers, Spawn(t, x)  PROVE Excused(t)
  BY <1>7, <1>8 DEF Spawn, InCall
<1>9. ASSUME NEW x \in Guests, SuspendOther(t, x)  PROVE Excused(t)
  BY <1>7, <1>9 DEF SuspendOther
<1>10. ASSUME NEW x \in Guests, Resume(t, x)  PROVE Excused(t)
  BY <1>7, <1>10 DEF Resume
<1>11. ASSUME NEW x \in Guests, NEW p \in NewPrios, SetPriority(t, x, p)  PROVE Excused(t)
  BY <1>7, <1>11 DEF SetPriority
<1>12. ~SuspendSelf(t) /\ ~Terminate(t) /\ ~WorkerReturn(t) /\ ~Begin(t)
  BY <1>then DEF SuspendSelf, Terminate, WorkerReturn, Begin, Entering
<1>13. ~(\E kind \in CallbackIn : Callback(t, kind))
  BY <1>then DEF Callback
<1>14. CASE CallbackReturn(t)
  BY <1>14 DEF CallbackReturn, Excused
<1>15. CASE Starve(t)
  BY <1>15, <1>then DEF Starve, InPromptCall, InForce, resvVars, Excused
<1>. QED
  BY <1>1, <1>2, <1>3, <1>4, <1>5, <1>6, <1>8, <1>9, <1>10, <1>11, <1>12, <1>13,
     <1>14, <1>15 DEF Step, OnTheWay

\* Another thread's step does not touch it: one that runs lifted code cannot be
\* there, and one that blocks or comes back ends no reservation but its own.
LEMMA KeptAside ==
  ASSUME IInv, PromptCallUndisturbed, HaltedBlocks, NEW t \in Guests,
         NEW x \in Threads, x # t, Step(x), InPromptCall(t)', ~InForce(t)'
  PROVE  Excused(t)
<1>1. Aside(x, t)
  BY Elsewhere, ThreadFacts
<1>2. pc[t] # "halted"
  <2>. SUFFICES ASSUME pc[t] = "halted"  PROVE FALSE
    OBVIOUS
  <2>1. Head(calls'[t]).kind = Blocking
    BY <1>1 DEF HaltedBlocks, Aside
  <2>. QED
    BY <2>1 DEF InPromptCall, Blocking, Prompt
<1>3. InPromptCall(t)
  BY <1>1, <1>2, AsideStays
<1>4. InForce(t) => ~(x \in Guests /\ pc[x] = "lifted")
  BY DEF PromptCallUndisturbed
<1>5. InForce(t) => resv' = t /\ lapsed' = lapsed
  BY <1>4, ResvMoves DEF InForce
<1>. QED
  BY <1>3, <1>5 DEF InForce, Excused

\* From its drop to its turn a prompt call loses its reservation only by the
\* clock, or to a kernel call its own callback made, and never to what another
\* thread does: neither to one that takes its turn back, nor to a suspend.
THEOREM ReservationsKept == Spec => ReservationKept
<1>. DEFINE Kept == \A t \in Guests : InPromptCall(t)' /\ ~InForce(t)' =>
                      \/ InPromptCall(t) /\ (lapsed' \/ ~InForce(t))
                      \/ pc[t] = "lifted" /\ calls'[t] = calls[t]
<1>1. Init => HaltedBlocks
  BY ThreadFacts DEF Init, HaltedBlocks
<1>2. IInv /\ HaltedBlocks /\ [Next]_vars => HaltedBlocks'
  BY HaltedNext
<1>3. IInv /\ PromptCallUndisturbed /\ HaltedBlocks /\ [Next]_vars => [Kept]_vars
  <2>. SUFFICES ASSUME IInv, PromptCallUndisturbed, HaltedBlocks, [Next]_vars,
                       NEW t \in Guests, InPromptCall(t)', ~InForce(t)'
                PROVE  Excused(t)
    BY DEF Excused
  <2>1. ASSUME NEW x \in Threads, Step(x)  PROVE Excused(t)
    BY <2>1, KeptOwn, KeptAside
  <2>2. ASSUME NEW h \in Hosts, HostStep(h)  PROVE Excused(t)
    <3>1. /\ pc'[t] = pc[t] /\ goal'[t] = goal[t] /\ calls'[t] = calls[t]
          /\ resv' = resv /\ lapsed' = lapsed
      <4>1. Aside(h, t) /\ pc'[t] = pc[t] /\ resv' = resv /\ lapsed' = lapsed
        BY <2>2, HostElsewhere, ThreadFacts
      <4>. QED
        BY <4>1 DEF Aside
    <3>. QED
      BY <3>1 DEF InPromptCall, InForce, Excused
  <2>3. CASE Tick \/ Lapse \/ UNCHANGED vars
    <3>1. UNCHANGED <<pc, calls, goal, resv>> /\ (lapsed' = lapsed \/ lapsed')
      BY <2>3 DEF Tick, Lapse, vars, askVars, resvVars
    <3>. QED
      BY <3>1 DEF InPromptCall, InForce, Excused
  <2>. QED
    BY <2>1, <2>2, <2>3 DEF Next
<1>. QED
  BY <1>1, <1>2, <1>3, Inductive, PromptCallsAreWhole, PTL DEF Spec, ReservationKept

---------------------------------------------------------------------------
(* Who waits, by where each thread is *)

\* A thread counts itself between its first failed try and its turn; it
\* answers a request before it parks; interrupts are neither suspended nor
\* woken.
Counting(t) ==
  /\ waiting[t] => pc[t] \in {"trying", "probe", "reserved"}
  /\ pc[t] = "parked" => ~req[t]
  /\ woken[t] # NotWoken => pc[t] = "parked"
  /\ pc[t] = "timed" => t \in Hosts
  /\ t \in Hosts => ~req[t] /\ woken[t] = NotWoken

CountInv == \A t \in Threads : Counting(t)

WaitingAt(p) == {t \in Threads : WaitsAt(t, p)}
Waiting      == {t \in Threads : \E p \in Levels : WaitsAt(t, p)}
Asked        == {t \in Threads : req[t]}

Exact ==
  /\ \A p \in Levels : waitingAt[p] = Cardinality(WaitingAt(p))
  /\ waiters = Cardinality(Waiting) + Cardinality(Asked)

LEMMA ExactSets == (WaitersExact <=> Exact) /\ (WaitersExact' <=> Exact')
  BY DEF WaitersExact, Exact, WaitingAt, Waiting, Asked

\* Cardinalities of sets of threads are numbers.
LEMMA CountsAreNumbers ==
  ASSUME NEW S \in SUBSET Threads
  PROVE  IsFiniteSet(S) /\ Cardinality(S) \in Nat
  BY GuestLockAssumption, FS_Subset, FS_CardinalityType

\* A step in which nobody begins or ends to wait, or is asked to park.
LEMMA CountKept ==
  ASSUME WaitersExact, waiters' = waiters, waitingAt' = waitingAt,
         \A t \in Threads : req'[t] = req[t],
         \A t \in Threads, p \in Levels : WaitsAt(t, p)' <=> WaitsAt(t, p)
  PROVE  WaitersExact'
<1>1. /\ \A p \in Levels : WaitingAt(p)' = WaitingAt(p)
      /\ Waiting' = Waiting /\ Asked' = Asked
  BY DEF WaitingAt, Waiting, Asked, Levels, Threads, Guests
<1>. QED
  BY <1>1, ExactSets DEF Exact, Levels

\* One thread begins to wait, at one priority.
LEMMA CountBegun ==
  ASSUME TypeOK, WaitersExact, NEW t \in Threads, NEW q \in Levels,
         waiters' = waiters + 1,
         waitingAt' = [waitingAt EXCEPT ![q] = @ + 1],
         \A u \in Threads : req'[u] = req[u],
         \A u \in Threads, p \in Levels : u # t => (WaitsAt(u, p)' <=> WaitsAt(u, p)),
         \A p \in Levels : ~WaitsAt(t, p),
         \A p \in Levels : WaitsAt(t, p)' <=> p = q
  PROVE  WaitersExact'
<1>1. /\ WaitingAt(q)' = WaitingAt(q) \cup {t} /\ t \notin WaitingAt(q)
      /\ \A p \in Levels : p # q => WaitingAt(p)' = WaitingAt(p)
      /\ Waiting' = Waiting \cup {t} /\ t \notin Waiting
      /\ Asked' = Asked
  <2>1. WaitingAt(q)' = WaitingAt(q) \cup {t} /\ t \notin WaitingAt(q)
    BY DEF WaitingAt, Threads, Guests
  <2>2. ASSUME NEW p \in Levels, p # q  PROVE WaitingAt(p)' = WaitingAt(p)
    BY <2>2 DEF WaitingAt, Threads, Guests
  <2>3. Waiting' = Waiting \cup {t} /\ t \notin Waiting
    BY DEF Waiting, Threads, Guests, Levels
  <2>4. Asked' = Asked
    BY DEF Asked, Threads, Guests
  <2>. QED
    BY <2>1, <2>2, <2>3, <2>4
<1>2. /\ Cardinality(WaitingAt(q)') = Cardinality(WaitingAt(q)) + 1
      /\ Cardinality(Waiting') = Cardinality(Waiting) + 1
  BY <1>1, CountsAreNumbers, FS_AddElement DEF WaitingAt, Waiting
<1>3. Cardinality(Waiting) \in Nat /\ Cardinality(Asked) \in Nat
  BY CountsAreNumbers DEF Waiting, Asked
<1>4. waitingAt \in [Levels -> Int]
  BY DEF TypeOK
<1>5. ASSUME NEW p \in Levels  PROVE waitingAt'[p] = Cardinality(WaitingAt(p)')
  BY <1>1, <1>2, <1>4, <1>5, ExactSets DEF Exact
<1>6. waiters' = Cardinality(Waiting') + Cardinality(Asked')
  BY <1>1, <1>2, <1>3, ExactSets DEF Exact
<1>. QED
  BY <1>5, <1>6, ExactSets DEF Exact, Levels

\* One thread ends to wait, at the priority it waited at.
LEMMA CountEnded ==
  ASSUME TypeOK, WaitersExact, NEW t \in Threads, NEW q \in Levels,
         waiters' = waiters - 1,
         waitingAt' = [waitingAt EXCEPT ![q] = @ - 1],
         \A u \in Threads : req'[u] = req[u],
         \A u \in Threads, p \in Levels : u # t => (WaitsAt(u, p)' <=> WaitsAt(u, p)),
         \A p \in Levels : WaitsAt(t, p) <=> p = q,
         \A p \in Levels : ~WaitsAt(t, p)'
  PROVE  WaitersExact'
<1>1. /\ WaitingAt(q)' = WaitingAt(q) \ {t} /\ t \in WaitingAt(q)
      /\ \A p \in Levels : p # q => WaitingAt(p)' = WaitingAt(p)
      /\ Waiting' = Waiting \ {t} /\ t \in Waiting
      /\ Asked' = Asked
  <2>1. WaitingAt(q)' = WaitingAt(q) \ {t} /\ t \in WaitingAt(q)
    BY DEF WaitingAt, Threads, Guests
  <2>2. ASSUME NEW p \in Levels, p # q  PROVE WaitingAt(p)' = WaitingAt(p)
    BY <2>2 DEF WaitingAt, Threads, Guests
  <2>3. Waiting' = Waiting \ {t} /\ t \in Waiting
    BY DEF Waiting, Threads, Guests, Levels
  <2>4. Asked' = Asked
    BY DEF Asked, Threads, Guests
  <2>. QED
    BY <2>1, <2>2, <2>3, <2>4
<1>2. /\ Cardinality(WaitingAt(q)') = Cardinality(WaitingAt(q)) - 1
      /\ Cardinality(Waiting') = Cardinality(Waiting) - 1
  <2>1. IsFiniteSet(WaitingAt(q)) /\ IsFiniteSet(Waiting)
    BY CountsAreNumbers DEF WaitingAt, Waiting
  <2>2. Cardinality(WaitingAt(q) \ {t}) = Cardinality(WaitingAt(q)) - 1
    BY <1>1, <2>1, FS_RemoveElement
  <2>3. Cardinality(Waiting \ {t}) = Cardinality(Waiting) - 1
    BY <1>1, <2>1, FS_RemoveElement
  <2>. QED
    BY <1>1, <2>2, <2>3
<1>3. Cardinality(Waiting) \in Nat /\ Cardinality(Asked) \in Nat
  BY CountsAreNumbers DEF Waiting, Asked
<1>4. waitingAt \in [Levels -> Int]
  BY DEF TypeOK
<1>5. ASSUME NEW p \in Levels  PROVE waitingAt'[p] = Cardinality(WaitingAt(p)')
  BY <1>1, <1>2, <1>4, <1>5, ExactSets DEF Exact
<1>6. waiters' = Cardinality(Waiting') + Cardinality(Asked')
  BY <1>1, <1>2, <1>3, ExactSets DEF Exact
<1>. QED
  BY <1>5, <1>6, ExactSets DEF Exact, Levels

\* One thread is asked to park, or its request is answered or withdrawn.
LEMMA CountAsked ==
  ASSUME WaitersExact, NEW t \in Threads, waitingAt' = waitingAt,
         \/ ~req[t] /\ req'[t] /\ waiters' = waiters + 1
         \/ req[t] /\ ~req'[t] /\ waiters' = waiters - 1,
         \A u \in Threads : u # t => req'[u] = req[u],
         \A u \in Threads, p \in Levels : WaitsAt(u, p)' <=> WaitsAt(u, p)
  PROVE  WaitersExact'
<1>1. \A p \in Levels : WaitingAt(p)' = WaitingAt(p)
  BY DEF WaitingAt, Threads, Guests
<1>2. Waiting' = Waiting
  BY DEF Waiting, Threads, Guests, Levels
<1>3. Cardinality(Waiting) \in Nat /\ Cardinality(Asked) \in Nat
  BY CountsAreNumbers DEF Waiting, Asked
<1>4. CASE ~req[t] /\ req'[t] /\ waiters' = waiters + 1
  <2>1. Asked' = Asked \cup {t} /\ t \notin Asked
    BY <1>4 DEF Asked, Threads, Guests
  <2>2. Cardinality(Asked') = Cardinality(Asked) + 1
    BY <2>1, CountsAreNumbers, FS_AddElement DEF Asked
  <2>. QED
    BY <1>1, <1>2, <1>3, <1>4, <2>2, ExactSets DEF Exact, Levels
<1>5. CASE req[t] /\ ~req'[t] /\ waiters' = waiters - 1
  <2>1. Asked' = Asked \ {t} /\ t \in Asked
    BY <1>5 DEF Asked, Threads, Guests
  <2>2. Cardinality(Asked') = Cardinality(Asked) - 1
    BY <2>1, CountsAreNumbers, FS_RemoveElement DEF Asked
  <2>. QED
    BY <1>1, <1>2, <1>3, <1>5, <2>2, ExactSets DEF Exact, Levels
<1>. QED
  BY <1>4, <1>5

---------------------------------------------------------------------------
(* Every step keeps the counts *)

\* A step that only takes one thread from a place to another, neither of them
\* a place where one waits uncounted by itself.
LEMMA CountMoved ==
  ASSUME TypeOK, CountInv, WaitersExact, NEW x \in Threads, NEW there,
         pc' = [pc EXCEPT ![x] = there],
         {pc[x], there} \cap {"parked", "timed"} = {},
         waiting[x] => there \in {"trying", "probe", "reserved"},
         UNCHANGED <<waiting, wprio, req, woken, waiters, waitingAt>>
  PROVE  CountInv' /\ WaitersExact'
<1>1. pc \in [Threads -> Pcs]
  BY DEF TypeOK
<1>2. ASSUME NEW u \in Threads
      PROVE  Counting(u)' /\ \A p \in Levels : WaitsAt(u, p)' <=> WaitsAt(u, p)
  <2>1. CASE u = x
    BY <1>1, <2>1 DEF CountInv, Counting, WaitsAt
  <2>2. CASE u # x
    BY <1>1, <2>2 DEF CountInv, Counting, WaitsAt
  <2>. QED
    BY <2>1, <2>2
<1>3. WaitersExact'
  BY <1>2, CountKept
<1>. QED
  BY <1>2, <1>3 DEF CountInv

\* A step that moves nobody.
LEMMA CountStill ==
  ASSUME CountInv, WaitersExact,
         UNCHANGED <<pc, waiting, wprio, req, woken, waiters, waitingAt>>
  PROVE  CountInv' /\ WaitersExact'
<1>1. \A u \in Threads, p \in Levels : WaitsAt(u, p)' <=> WaitsAt(u, p)
  BY DEF WaitsAt
<1>2. CountInv'
  BY DEF CountInv, Counting
<1>. QED
  BY <1>1, <1>2, CountKept

\* Entry answers a park request, and whatever it finds there ends it.
LEMMA CountEntry ==
  ASSUME TypeOK, CountInv, WaitersExact, NEW t \in Threads, Entry(t)
  PROVE  CountInv' /\ WaitersExact'
<1>types. /\ pc \in [Threads -> Pcs] /\ req \in [Threads -> BOOLEAN]
          /\ wprio \in [Threads -> Levels]
  BY DEF TypeOK
<1>1. /\ pc[t] = "entry" /\ pc'[t] \in {"parked", "trying"} /\ ~req'[t]
      /\ \A u \in Threads : u # t => /\ pc'[u] = pc[u] /\ req'[u] = req[u]
                                     /\ wprio'[u] = wprio[u]
      /\ UNCHANGED <<waiting, woken, waitingAt>>
      /\ waiters' = IF req[t] THEN waiters - 1 ELSE waiters
  BY <1>types DEF Entry
<1>2. ~waiting[t] /\ woken[t] = NotWoken
  BY <1>1 DEF CountInv, Counting
<1>3. ASSUME NEW u \in Threads
      PROVE  Counting(u)' /\ \A p \in Levels : WaitsAt(u, p)' <=> WaitsAt(u, p)
  <2>1. CASE u = t
    BY <1>1, <1>2, <2>1 DEF CountInv, Counting, WaitsAt
  <2>2. CASE u # t
    BY <1>1, <2>2 DEF CountInv, Counting, WaitsAt
  <2>. QED
    BY <2>1, <2>2
<1>4. CASE req[t]
  BY <1>1, <1>3, <1>4, CountAsked DEF CountInv
<1>5. CASE ~req[t]
  <2>1. \A u \in Threads : req'[u] = req[u]
    <3>1. req'[t] = req[t]
      BY <1>types, <1>5 DEF Entry
    <3>. QED
      BY <1>1, <3>1
  <2>. QED
    BY <1>1, <1>3, <1>5, <2>1, CountKept DEF CountInv
<1>. QED
  BY <1>4, <1>5

\* A thread that was resumed takes over the wait the resume began for it.
LEMMA CountUnpark ==
  ASSUME TypeOK, CountInv, WaitersExact, NEW t \in Threads, Unpark(t)
  PROVE  CountInv' /\ WaitersExact'
<1>types. /\ pc \in [Threads -> Pcs] /\ woken \in [Threads -> Levels]
          /\ waiting \in [Threads -> BOOLEAN] /\ wprio \in [Threads -> Levels]
  BY DEF TypeOK
<1>1. /\ pc[t] = "parked" /\ pc'[t] = "trying" /\ woken'[t] = NotWoken
      /\ waiting'[t] = (woken[t] # NotWoken)
      /\ woken[t] # NotWoken => wprio'[t] = woken[t]
      /\ \A u \in Threads : u # t => /\ pc'[u] = pc[u] /\ woken'[u] = woken[u]
                                     /\ waiting'[u] = waiting[u] /\ wprio'[u] = wprio[u]
      /\ UNCHANGED <<req, waiters, waitingAt>>
  BY <1>types DEF Unpark, waitVars
<1>2. ~waiting[t]
  BY <1>1 DEF CountInv, Counting
<1>3. ASSUME NEW u \in Threads
      PROVE  Counting(u)' /\ \A p \in Levels : WaitsAt(u, p)' <=> WaitsAt(u, p)
  <2>1. CASE u = t
    BY <1>1, <1>2, <2>1 DEF CountInv, Counting, WaitsAt
  <2>2. CASE u # t
    BY <1>1, <2>2 DEF CountInv, Counting, WaitsAt
  <2>. QED
    BY <2>1, <2>2
<1>. QED
  BY <1>1, <1>3, CountKept DEF CountInv

\* A thread that finds the mutex taken, or gives it back, counts itself once.
LEMMA CountAsks ==
  ASSUME TypeOK, CountInv, WaitersExact, NEW t \in Threads,
         CountAsWaiter(t), pc[t] \in {"trying", "probe"},
         NEW there \in {"trying", "reserved"}, pc' = [pc EXCEPT ![t] = there],
         UNCHANGED <<wprio, req, woken>>
  PROVE  CountInv' /\ WaitersExact'
<1>types. /\ pc \in [Threads -> Pcs] /\ waiting \in [Threads -> BOOLEAN]
          /\ wprio \in [Threads -> Levels]
  BY DEF TypeOK
<1>1. CASE waiting[t]
  BY <1>1, CountMoved DEF CountAsWaiter, waitVars
<1>2. CASE ~waiting[t]
  <2>1. /\ waiters' = waiters + 1
        /\ waitingAt' = [waitingAt EXCEPT ![wprio[t]] = @ + 1]
        /\ waiting' = [waiting EXCEPT ![t] = TRUE]
    BY <1>2 DEF CountAsWaiter, WaitBegin
  <2>2. woken[t] = NotWoken
    BY DEF CountInv, Counting
  <2>3. ASSUME NEW u \in Threads, u # t
        PROVE  Counting(u)' /\ \A p \in Levels : WaitsAt(u, p)' <=> WaitsAt(u, p)
    BY <1>types, <2>1, <2>3 DEF CountInv, Counting, WaitsAt
  <2>4. /\ Counting(t)'
        /\ \A p \in Levels : ~WaitsAt(t, p)
        /\ \A p \in Levels : WaitsAt(t, p)' <=> p = wprio[t]
    BY <1>types, <1>2, <2>1, <2>2 DEF CountInv, Counting, WaitsAt
  <2>5. WaitersExact'
    BY <1>types, <2>1, <2>3, <2>4, CountBegun
  <2>. QED
    BY <2>3, <2>4, <2>5 DEF CountInv
<1>. QED
  BY <1>1, <1>2

\* A thread whose turn it is stops counting.
LEMMA CountTake ==
  ASSUME TypeOK, CountInv, WaitersExact, NEW t \in Threads, Take(t)
  PROVE  CountInv' /\ WaitersExact'
<1>types. /\ pc \in [Threads -> Pcs] /\ waiting \in [Threads -> BOOLEAN]
          /\ wprio \in [Threads -> Levels]
  BY DEF TypeOK
<1>1. /\ pc[t] = "probe" /\ pc'[t] = "lifted" /\ ~waiting'[t]
      /\ \A u \in Threads : u # t => /\ pc'[u] = pc[u] /\ waiting'[u] = waiting[u]
                                     /\ wprio'[u] = wprio[u]
      /\ UNCHANGED <<req, woken>>
  BY <1>types DEF Take, Took, recVars
<1>2. woken[t] = NotWoken
  BY <1>1 DEF CountInv, Counting
<1>3. ASSUME NEW u \in Threads, u # t
      PROVE  Counting(u)' /\ \A p \in Levels : WaitsAt(u, p)' <=> WaitsAt(u, p)
  BY <1>1, <1>3 DEF CountInv, Counting, WaitsAt
<1>4. Counting(t)' /\ \A p \in Levels : ~WaitsAt(t, p)'
  BY <1>1, <1>2 DEF CountInv, Counting, WaitsAt
<1>5. CASE waiting[t]
  <2>1. /\ waiters' = waiters - 1
        /\ waitingAt' = [waitingAt EXCEPT ![wprio[t]] = @ - 1]
    BY <1>5 DEF Take, WaitEnd
  <2>2. \A p \in Levels : WaitsAt(t, p) <=> p = wprio[t]
    BY <1>1, <1>2, <1>5 DEF WaitsAt
  <2>. QED
    BY <1>types, <1>1, <1>3, <1>4, <2>1, <2>2, CountEnded DEF CountInv
<1>6. CASE ~waiting[t]
  <2>1. UNCHANGED <<waiters, waitingAt>>
    BY <1>6 DEF Take, waitVars
  <2>2. \A p \in Levels : ~WaitsAt(t, p)
    BY <1>1, <1>2, <1>6 DEF WaitsAt
  <2>3. \A u \in Threads, p \in Levels : WaitsAt(u, p)' <=> WaitsAt(u, p)
    BY <1>3, <1>4, <2>2
  <2>. QED
    BY <1>1, <1>3, <1>4, <2>1, <2>3, CountKept DEF CountInv
<1>. QED
  BY <1>5, <1>6

\* A suspend ends the wait a resume had begun, or asks for a park, once.
LEMMA CountSuspend ==
  ASSUME TypeOK, CountInv, WaitersExact, NEW t \in Threads, NEW u \in Guests,
         SuspendOther(t, u)
  PROVE  CountInv' /\ WaitersExact'
<1>. DEFINE ask == suspend[u] = 0 /\ ~req[u] /\ pc[u] # "parked"
<1>types. /\ req \in [Threads -> BOOLEAN] /\ woken \in [Threads -> Levels]
          /\ u \in Threads /\ u \notin Hosts
  BY ThreadFacts DEF TypeOK
<1>1. /\ UNCHANGED <<pc, waiting, wprio>>
      /\ woken' = [woken EXCEPT ![u] = NotWoken]
      /\ req' = [req EXCEPT ![u] = req[u] \/ ask]
  BY DEF SuspendOther, askVars
<1>2. /\ woken[u] # NotWoken => WaitEnd(woken[u])
      /\ woken[u] = NotWoken /\ ask => waiters' = waiters + 1 /\ UNCHANGED waitingAt
      /\ woken[u] = NotWoken /\ ~ask => UNCHANGED <<waiters, waitingAt>>
  BY DEF SuspendOther, waitVars
<1>3. woken'[u] = NotWoken
  BY <1>types, <1>1
<1>4. req'[u] = (req[u] \/ ask)
  BY <1>types, <1>1, Zenon
<1>5. ASSUME NEW v \in Threads, v # u  PROVE req'[v] = req[v] /\ woken'[v] = woken[v]
  BY <1>types, <1>1, <1>5
<1>6. ASSUME NEW v \in Threads, v # u
      PROVE  Counting(v)' /\ \A p \in Levels : WaitsAt(v, p)' <=> WaitsAt(v, p)
  BY <1>1, <1>5, <1>6 DEF CountInv, Counting, WaitsAt
<1>7. Counting(u)
  BY <1>types DEF CountInv
<1>8. Counting(u)'
  BY <1>types, <1>1, <1>3, <1>4, <1>7 DEF Counting
<1>9. CASE woken[u] # NotWoken
  <2>1. pc[u] = "parked" /\ ~waiting[u]
    BY <1>7, <1>9 DEF Counting
  <2>2. /\ \A p \in Levels : WaitsAt(u, p) <=> p = woken[u]
        /\ \A p \in Levels : ~WaitsAt(u, p)'
    BY <1>1, <1>3, <1>9, <2>1 DEF WaitsAt
  <2>3. \A v \in Threads : req'[v] = req[v]
    BY <1>4, <1>5, <1>7, <2>1, <1>types DEF Counting
  <2>4. waiters' = waiters - 1 /\ waitingAt' = [waitingAt EXCEPT ![woken[u]] = @ - 1]
    BY <1>2, <1>9 DEF WaitEnd
  <2>. QED
    BY <1>types, <1>6, <1>8, <2>2, <2>3, <2>4, CountEnded DEF CountInv
<1>10. CASE woken[u] = NotWoken
  <2>1. \A v \in Threads, p \in Levels : WaitsAt(v, p)' <=> WaitsAt(v, p)
    BY <1>1, <1>3, <1>6, <1>10 DEF WaitsAt
  <2>2. CASE ask
    BY <1>types, <1>2, <1>4, <1>5, <1>6, <1>8, <1>10, <2>1, <2>2, CountAsked DEF CountInv
  <2>3. CASE ~ask
    <3>1. \A v \in Threads : req'[v] = req[v]
      <4>1. req'[u] = req[u]
        BY <1>types, <1>4, <2>3
      <4>. QED
        BY <1>5, <4>1
    <3>2. UNCHANGED <<waiters, waitingAt>>
      BY <1>2, <1>10, <2>3
    <3>. QED
      BY <1>6, <1>8, <2>1, <3>1, <3>2, CountKept DEF CountInv
  <2>. QED
    BY <2>2, <2>3
<1>. QED
  BY <1>9, <1>10

\* The last resume withdraws the request, or begins the parked thread's wait.
LEMMA CountResume ==
  ASSUME TypeOK, SuspendNotLost, CountInv, WaitersExact,
         NEW t \in Threads, NEW u \in Guests, Resume(t, u)
  PROVE  CountInv' /\ WaitersExact'
<1>types. /\ req \in [Threads -> BOOLEAN] /\ woken \in [Threads -> Levels]
          /\ suspend \in [Threads -> Nat] /\ u \in Threads /\ u \notin Hosts
          /\ prio[u] \in Levels /\ prio[u] # NotWoken
  <2>1. u \in Threads /\ u \notin Hosts /\ prio[u] \in Prios
    BY ThreadFacts DEF TypeOK
  <2>. QED
    BY <2>1, ThreadFacts DEF TypeOK, NotWoken
<1>0. UNCHANGED <<waiting, wprio>> /\ Counting(u)
  BY <1>types DEF Resume, askVars, CountInv
<1>1. CASE suspend[u] = 0
  <2>1. /\ pc[u] = "halted" /\ pc' = [pc EXCEPT ![u] = "call"]
        /\ UNCHANGED <<waiters, waitingAt, req, woken>>
    BY <1>1, <1>types DEF Resume, waitVars, recVars
  <2>2. ~waiting[u]
    BY <1>0, <2>1 DEF Counting
  <2>. QED
    BY <1>0, <1>types, <2>1, <2>2, CountMoved
<1>2. CASE suspend[u] > 1
  <2>1. UNCHANGED <<pc, waiters, waitingAt, req, woken>>
    BY <1>types, <1>2 DEF Resume, waitVars
  <2>. QED
    BY <1>0, <2>1, CountStill
<1>3. CASE suspend[u] = 1
  <2>1. woken[u] = NotWoken
    BY <1>3 DEF SuspendNotLost
  <2>2. pc' = pc /\ req' = [req EXCEPT ![u] = FALSE]
    BY <1>types, <1>3 DEF Resume
  <2>3. ~req'[u] /\ \A v \in Threads : v # u => req'[v] = req[v]
    BY <1>types, <2>2
  <2>4. CASE pc[u] = "parked"
    <3>1. woken' = [woken EXCEPT ![u] = prio[u]] /\ WaitBegin(prio[u])
      BY <1>types, <1>3, <2>1, <2>4 DEF Resume
    <3>2. ASSUME NEW v \in Threads, v # u
          PROVE  Counting(v)' /\ \A p \in Levels : WaitsAt(v, p)' <=> WaitsAt(v, p)
      BY <1>0, <1>types, <2>2, <2>3, <3>1, <3>2 DEF CountInv, Counting, WaitsAt
    <3>3. woken'[u] = prio[u]
      BY <1>types, <3>1
    <3>4. /\ Counting(u)'
          /\ \A p \in Levels : ~WaitsAt(u, p)
          /\ \A p \in Levels : WaitsAt(u, p)' <=> p = prio[u]
      BY <1>0, <1>types, <2>1, <2>2, <2>3, <2>4, <3>3 DEF Counting, WaitsAt
    <3>5. \A v \in Threads : req'[v] = req[v]
      <4>1. ~req[u]
        BY <1>0, <2>4 DEF Counting
      <4>. QED
        BY <1>types, <2>2, <4>1
    <3>6. /\ waiters' = waiters + 1
          /\ waitingAt' = [waitingAt EXCEPT ![prio[u]] = @ + 1]
      BY <3>1 DEF WaitBegin
    <3>7. WaitersExact'
      BY <1>types, <3>2, <3>4, <3>5, <3>6, CountBegun
    <3>. QED
      BY <3>2, <3>4, <3>7 DEF CountInv
  <2>5. CASE pc[u] # "parked"
    <3>1. /\ woken' = woken /\ waitingAt' = waitingAt
          /\ waiters' = IF req[u] THEN waiters - 1 ELSE waiters
      BY <1>types, <1>3, <2>5 DEF Resume
    <3>2. \A v \in Threads, p \in Levels : WaitsAt(v, p)' <=> WaitsAt(v, p)
      BY <1>0, <2>2, <3>1 DEF WaitsAt
    <3>3. ASSUME NEW v \in Threads  PROVE Counting(v)'
      BY <1>0, <1>types, <2>2, <2>3, <3>1 DEF CountInv, Counting
    <3>4. CASE req[u]
      BY <1>types, <2>3, <3>1, <3>2, <3>3, <3>4, CountAsked DEF CountInv
    <3>5. CASE ~req[u]
      <4>1. \A v \in Threads : req'[v] = req[v]
        BY <1>types, <2>2, <3>5
      <4>. QED
        BY <3>1, <3>2, <3>3, <3>5, <4>1, CountKept DEF CountInv
    <3>. QED
      BY <3>4, <3>5
  <2>. QED
    BY <2>4, <2>5
<1>. QED
  BY <1>1, <1>2, <1>3, <1>types

LEMMA CountStep ==
  ASSUME IInv, SuspendNotLost, CountInv, WaitersExact, NEW t \in Threads, Step(t)
  PROVE  CountInv' /\ WaitersExact'
<1>types. TypeOK /\ CallsMatch(t) /\ Counting(t) /\ t \in Threads
  BY DEF IInv, LockInv, ThreadInv, CountInv
<1>. USE <1>types
<1>away. ASSUME NEW x \in Threads, NEW there, pc' = [pc EXCEPT ![x] = there],
                pc[x] \in {"lifted", "call", "handoff", "unborn", "born"},
                there \notin {"parked", "timed"},
                UNCHANGED <<waiting, wprio, req, woken, waiters, waitingAt>>
         PROVE  CountInv' /\ WaitersExact'
  <2>1. ~waiting[x]
    BY <1>away DEF CountInv, Counting
  <2>. QED
    BY <1>away, <2>1, CountMoved
<1>1. ASSUME NEW kind \in CallKinds \ {HostWait}, KernelCall(t, kind)
      PROVE  CountInv' /\ WaitersExact'
  <2>1. /\ pc[t] = "lifted" /\ pc' = [pc EXCEPT ![t] = "call"]
        /\ UNCHANGED <<waiting, wprio, req, woken, waiters, waitingAt>>
    BY <1>1 DEF KernelCall, askVars, recVars
  <2>. QED
    BY <2>1, <1>away
<1>2. CASE GuestSleep(t)
  BY <1>2, <1>away DEF GuestSleep, askVars, waitVars, recVars
<1>3. CASE Yield(t)
  <2>1. \E there \in {"entry", "handoff"} : pc' = [pc EXCEPT ![t] = there]
    BY <1>3 DEF Yield
  <2>. QED
    BY <1>3, <2>1, <1>away DEF Yield, waitVars, recVars
<1>4. CASE Return(t)
  <2>1. \E there \in {"lifted", "handoff", "entry"} : pc' = [pc EXCEPT ![t] = there]
    BY <1>4 DEF Return, RestoreReserved, Restore
  <2>2. UNCHANGED <<waiters, waitingAt>>
    BY <1>4 DEF Return, RestoreReserved, waitVars
  <2>. QED
    BY <1>4, <2>1, <2>2, <1>away DEF Return, recVars
<1>5. CASE HandoffDone(t)
  BY <1>5, <1>away DEF HandoffDone, askVars, waitVars, recVars
<1>6. CASE TryFail(t)
  <2>1. pc' = [pc EXCEPT ![t] = "trying"]
    BY <1>6 DEF TryFail, TypeOK
  <2>. QED
    BY <1>6, <2>1, CountAsks DEF TryFail, recVars
<1>7. CASE TryOk(t)
  BY <1>7, CountMoved DEF TryOk, askVars, waitVars, recVars
<1>8. CASE StandAside(t)
  <2>1. \E there \in {"trying", "reserved"} : pc' = [pc EXCEPT ![t] = there]
    BY <1>8 DEF StandAside
  <2>. QED
    BY <1>8, <2>1, CountAsks DEF StandAside, recVars
<1>9. CASE ReservationOver(t)
  BY <1>9, CountMoved DEF ReservationOver, askVars, waitVars, recVars
<1>10. ASSUME NEW x \in Workers, Spawn(t, x)  PROVE CountInv' /\ WaitersExact'
  <2>1. x \in Threads
    BY ThreadFacts
  <2>. QED
    BY <1>10, <2>1, <1>away DEF Spawn, askVars, waitVars, recVars
<1>11. CASE SuspendSelf(t)
  BY <1>11, <1>away DEF SuspendSelf, InCall, askVars, waitVars, recVars
<1>12. ASSUME NEW kind \in CallbackIn, Callback(t, kind)
       PROVE  CountInv' /\ WaitersExact'
  BY <1>12, <1>away DEF Callback, InCall, waitVars, recVars
<1>13. CASE CallbackReturn(t)
  BY <1>13, <1>away DEF CallbackReturn, askVars, waitVars, recVars
<1>14. CASE Terminate(t)
  BY <1>14, <1>away DEF Terminate, InCall, askVars, waitVars, recVars
<1>15. CASE WorkerReturn(t)
  BY <1>15, <1>away DEF WorkerReturn, askVars, waitVars, recVars
<1>16. ASSUME \/ \E u \in Guests, p \in NewPrios : SetPriority(t, u, p)
              \/ Starve(t)
       PROVE  CountInv' /\ WaitersExact'
  BY <1>16, CountStill DEF SetPriority, Starve, askVars, waitVars, recVars
<1>17. CASE Begin(t)
  BY <1>17, <1>away DEF Begin, waitVars, recVars
<1>. QED
  BY <1>1, <1>2, <1>3, <1>4, <1>5, <1>6, <1>7, <1>8, <1>9, <1>10, <1>11, <1>12, <1>13,
     <1>14, <1>15, <1>16, <1>17, CountEntry, CountUnpark, CountTake, CountSuspend, CountResume
     DEF Step

\* An interrupt waits at its own level, and only until its bound.
LEMMA CountHost ==
  ASSUME TypeOK, CountInv, WaitersExact, NEW h \in Hosts, HostStep(h)
  PROVE  CountInv' /\ WaitersExact'
<1>types. /\ pc \in [Threads -> Pcs] /\ h \in Threads /\ HostPrio \in Levels
          /\ Counting(h)
  BY ThreadFacts DEF TypeOK, CountInv
<1>0. UNCHANGED <<waiting, wprio, req, woken>>
  BY DEF HostStep, HostEnter, HostTimedTake, HostTimeout, HostDone, recVars, askVars
<1>. USE <1>types, <1>0
<1>1. ASSUME pc[h] = "idle", pc' = [pc EXCEPT ![h] = "lifted"],
             UNCHANGED <<waiters, waitingAt>>
      PROVE  CountInv' /\ WaitersExact'
  <2>1. ~waiting[h]
    BY <1>1 DEF Counting
  <2>. QED
    BY <1>1, <2>1, CountMoved
<1>2. ASSUME pc[h] = "idle", pc' = [pc EXCEPT ![h] = "timed"], WaitBegin(HostPrio)
      PROVE  CountInv' /\ WaitersExact'
  <2>1. ASSUME NEW u \in Threads, u # h
        PROVE  Counting(u)' /\ \A p \in Levels : WaitsAt(u, p)' <=> WaitsAt(u, p)
    BY <1>2, <2>1 DEF CountInv, Counting, WaitsAt
  <2>2. /\ Counting(h)'
        /\ \A p \in Levels : ~WaitsAt(h, p)
        /\ \A p \in Levels : WaitsAt(h, p)' <=> p = HostPrio
    BY <1>2 DEF Counting, WaitsAt
  <2>3. waiters' = waiters + 1 /\ waitingAt' = [waitingAt EXCEPT ![HostPrio] = @ + 1]
    BY <1>2 DEF WaitBegin
  <2>4. WaitersExact'
    BY <2>1, <2>2, <2>3, CountBegun
  <2>. QED
    BY <2>1, <2>2, <2>4 DEF CountInv
<1>3. ASSUME pc[h] = "timed", pc' = [pc EXCEPT ![h] = "lifted"], WaitEnd(HostPrio)
      PROVE  CountInv' /\ WaitersExact'
  <2>1. ASSUME NEW u \in Threads, u # h
        PROVE  Counting(u)' /\ \A p \in Levels : WaitsAt(u, p)' <=> WaitsAt(u, p)
    BY <1>3, <2>1 DEF CountInv, Counting, WaitsAt
  <2>2. /\ Counting(h)'
        /\ \A p \in Levels : WaitsAt(h, p) <=> p = HostPrio
        /\ \A p \in Levels : ~WaitsAt(h, p)'
    BY <1>3 DEF Counting, WaitsAt
  <2>3. waiters' = waiters - 1 /\ waitingAt' = [waitingAt EXCEPT ![HostPrio] = @ - 1]
    BY <1>3 DEF WaitEnd
  <2>4. WaitersExact'
    BY <2>1, <2>2, <2>3, CountEnded
  <2>. QED
    BY <2>1, <2>2, <2>4 DEF CountInv
<1>4. CASE HostEnter(h)
  BY <1>1, <1>2, <1>4 DEF HostEnter, HostTake, Took, waitVars
<1>5. CASE HostTimedTake(h)
  BY <1>3, <1>5 DEF HostTimedTake, HostTake, Took
<1>6. CASE HostTimeout(h)
  BY <1>3, <1>6 DEF HostTimeout
<1>7. CASE HostDone(h)
  <2>1. ~waiting[h]
    BY <1>7 DEF HostDone, Counting
  <2>. QED
    BY <1>7, <2>1, CountMoved DEF HostDone, waitVars
<1>. QED
  BY <1>4, <1>5, <1>6, <1>7 DEF HostStep

LEMMA CountNext ==
  ASSUME IInv, SuspendNotLost, CountInv, WaitersExact, [Next]_vars
  PROVE  CountInv' /\ WaitersExact'
<1>1. CASE Tick \/ Lapse \/ UNCHANGED vars
  BY <1>1, CountStill DEF Tick, Lapse, vars, askVars, waitVars, recVars
<1>. QED
  BY <1>1, CountStep, CountHost DEF Next, IInv

LEMMA CountInit == Init => CountInv /\ WaitersExact
<1>. SUFFICES ASSUME Init  PROVE CountInv /\ WaitersExact
  OBVIOUS
<1>1. CountInv
  BY DEF Init, CountInv, Counting
<1>2. \A t \in Threads, p \in Levels : ~WaitsAt(t, p)
  BY DEF Init, WaitsAt
<1>3. Waiting = {} /\ Asked = {} /\ \A p \in Levels : WaitingAt(p) = {}
  BY <1>2 DEF Init, Waiting, Asked, WaitingAt
<1>4. waiters = 0 /\ \A p \in Levels : waitingAt[p] = 0
  BY DEF Init
<1>. QED
  BY <1>1, <1>3, <1>4, FS_EmptySet, ExactSets DEF Exact

---------------------------------------------------------------------------
(* Theorems *)

\* No phantom waiter and none forgotten, for every number of threads: the
\* counter of each priority is the number of threads waiting there, and the
\* total also counts the park requests nobody has answered.  The arbitration
\* decides by these counters alone.
THEOREM CountersAreExact == Spec => []WaitersExact
<1>1. Init => CountInv /\ WaitersExact
  BY CountInit
<1>2. IInv /\ SuspendNotLost /\ CountInv /\ WaitersExact /\ [Next]_vars
        => (CountInv /\ WaitersExact)'
  BY CountNext
<1>. QED
  BY <1>1, <1>2, Inductive, SuspendsKept, PTL DEF Spec

\* A guest thread that comes to the lock other than back from a prompt call,
\* and has not starved, leaves nobody waiting above it: not a thread a resume
\* has woken, nor one whose priority has changed while it waited.
THEOREM FreeLockGoesHighest == Spec => HighestFirst
<1>. DEFINE First ==
       \A t \in Guests :
         pc[t] = "probe" /\ pc'[t] = "lifted" /\ goal[t] # "turn" /\ ~starved[t]
           => \A u \in Threads, p \in Levels : WaitsAt(u, p) => p <= wprio[t]
<1>1. IInv /\ WaitersExact /\ [Next]_vars => [First]_vars
  <2>. SUFFICES ASSUME IInv, WaitersExact, [Next]_vars, NEW t \in Guests,
                       pc[t] = "probe", pc'[t] = "lifted", goal[t] # "turn", ~starved[t],
                       NEW u \in Threads, NEW p \in Levels, WaitsAt(u, p)
                PROVE  p <= wprio[t]
    OBVIOUS
  <2>1. Step(t)
    <3>1. ASSUME NEW x \in Threads, Step(x), x # t  PROVE FALSE
      BY <3>1, Elsewhere, ThreadFacts DEF Aside
    <3>2. ASSUME NEW h \in Hosts, HostStep(h)  PROVE FALSE
      BY <3>2, HostElsewhere, ThreadFacts
    <3>3. ~(Tick \/ Lapse \/ UNCHANGED vars)
      BY DEF Tick, Lapse, vars
    <3>. QED
      BY <3>1, <3>2, <3>3, ThreadFacts DEF Next
  <2>2. ~Outranked(t)
    <3>1. ~OnTheWay(t)
      BY WayFacts, ThreadFacts DEF IInv, Entering
    <3>2. Take(t)
      BY <2>1, <3>1 DEF Step, OnTheWay, KernelCall, GuestSleep, Yield, Return, Spawn,
         SuspendOther, SuspendSelf, Resume, SetPriority, Callback, CallbackReturn,
         Terminate, WorkerReturn, Starve, Begin, InCall
    <3>. QED
      BY <3>2 DEF Take
  <2>3. p \in WaitedFor
    <3>1. waitingAt[p] = Cardinality(WaitingAt(p)) /\ u \in WaitingAt(p)
      BY ExactSets DEF Exact, WaitingAt
    <3>2. IsFiniteSet(WaitingAt(p)) /\ Cardinality(WaitingAt(p)) \in Nat
      BY CountsAreNumbers DEF WaitingAt
    <3>3. Cardinality(WaitingAt(p)) # 0
      BY <3>1, <3>2, FS_EmptySet
    <3>. QED
      BY <3>1, <3>2, <3>3 DEF WaitedFor
  <2>4. p \in Nat /\ wprio[t] \in Nat
    BY GuestLockAssumption, ThreadFacts DEF IInv, TypeOK, Levels
  <2>. QED
    BY <2>2, <2>3, <2>4 DEF Outranked
<1>. QED
  BY <1>1, Inductive, CountersAreExact, PTL DEF Spec, HighestFirst

=============================================================================
