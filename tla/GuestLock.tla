----------------------------- MODULE GuestLock -----------------------------
(***************************************************************************)
(* The guest lock of src/kernel/xbox_memory_layout.c: the scheduler that   *)
(* lets one guest thread at a time run lifted code, with the kernel-call   *)
(* dispatcher of kernel_bridge.c that drops it and takes it back.          *)
(*                                                                         *)
(* The console has one processor and strict priorities.  Here every guest  *)
(* thread is a host thread and the lock stands for the processor:          *)
(*   - it is dropped around every kernel call and taken back at its return;*)
(*   - a call that cannot block leaves a RESERVATION while the lock is     *)
(*     down, so that no other guest thread runs in the middle of it;       *)
(*   - a free lock goes to the waiter of highest priority;                 *)
(*   - a holder hands over at a loop's back edge or at a kernel call's     *)
(*     return, by priority and quantum;                                    *)
(*   - a suspended thread parks at its next safe point, the lock let go;   *)
(*   - a host thread delivering an interrupt waits at most a bound.        *)
(*                                                                         *)
(* Time is abstract: Tick lets the holder's quantum (or the starvation     *)
(* bound) run out, Lapse lets a reservation run out, and a handoff wait or *)
(* a host wait may give up at any moment where the constants allow it.     *)
(***************************************************************************)
EXTENDS Integers, Sequences, FiniteSets

CONSTANTS
  Main,          \* the title's main thread
  Workers,       \* threads the title spawns
  Hosts,         \* host threads that deliver ISRs and DPCs
  NoThread,      \* "no thread": a free lock, no reservation
  Prios,         \* the priorities guest threads may have
  HostPrio,      \* GL_PRIO_HOST: an interrupt outranks every guest
  StartPrio,     \* the priority each guest thread is created with
  NewPrios,      \* the priorities a running title may set
  CallKinds,     \* the kinds of call the title makes
  MaxCalls,      \* bound: nesting of kernel calls, one in another's callback
  MaxSuspend,    \* bound: a guest suspend count
  MaxAge,        \* 1: quanta run out; 2: the starvation valve opens as well
  CallbackIn,    \* the kinds of kernel call that call back into lifted code
  LapsesAt,      \* where a reservation may outlast RECOMP_GUEST_RESERVE_US
  SlowWake,      \* a handoff wait may give up after its 2 ms
  HostGivesUp,   \* a host thread may pass its bound and run without the lock
  WorkersReturn  \* a worker's routine may return instead of terminating

Guests  == Workers \cup {Main}
Threads == Guests \cup Hosts
Levels  == Prios \cup {HostPrio}

\* The calls of bridge_may_block, every other kernel call, a host-side wait
\* (xbox_GuestSleep) and a back edge that let go.
Blocking == "blocking"
Prompt   == "prompt"
HostWait == "hostwait"
BackEdge == "backedge"
Kinds    == {Blocking, Prompt, HostWait, BackEdge}

ASSUME GuestLockAssumption ==
  /\ Main \notin Workers
  /\ Guests \cap Hosts = {}
  /\ NoThread \notin Threads
  /\ IsFiniteSet(Threads)
  /\ Prios \subseteq Nat
  /\ HostPrio \in Nat
  /\ \A p \in Prios : p < HostPrio
  /\ StartPrio \in [Guests -> Prios]
  /\ NewPrios \subseteq Prios
  /\ MaxCalls \in Nat
  /\ MaxSuspend \in Nat
  /\ MaxAge \in 1..2
  /\ CallKinds \subseteq {Blocking, Prompt, HostWait}
  /\ CallbackIn \subseteq {Blocking, Prompt}
  /\ {SlowWake, HostGivesUp, WorkersReturn} \subseteq BOOLEAN

VARIABLES
  owner,      \* g_guest_cs: who holds the mutex
  depth,      \* g_guest_depth of each thread
  pc,         \* where each thread is
  goal,       \* what its entry to the lock is for
  calls,      \* the calls it is inside, innermost first
  waiters,    \* g_guest_lock_waiters
  waitingAt,  \* s_gl_waiting_at
  waiting,    \* the local `waiting` of guest_cs_enter_ex
  wprio,      \* the local `prio` of guest_cs_enter_ex
  prio,       \* s_gl_prio
  ran,        \* g_guest_takes less the thread's g_guest_takes_at_drop, up to 2
  age,        \* the holder's turn: 0 new, 1 past its quantum, 2 past the valve
  starved,    \* waited past the starvation bound
  resv,       \* s_gl_resv_tid
  lapsed,     \* s_gl_resv_until has passed
  tResv,      \* t_resv of each thread
  fresh,      \* the priorities whose s_gl_wait_since is after t_resv_at
  suspend,    \* guest_rec.suspend
  req,        \* guest_rec.req
  woken       \* guest_rec.wake_prio while guest_rec.woken, else NotWoken

lockVars  == <<owner, depth, age, ran>>
askVars   == <<goal, waiting, wprio, starved>>
waitVars  == <<waiters, waitingAt, fresh>>
resvVars  == <<resv, lapsed, tResv>>
recVars   == <<suspend, req, woken>>
vars == <<pc, calls, prio, lockVars, askVars, waitVars, resvVars, recVars>>

Pcs == {"unborn", "born", "idle", "lifted", "call", "handoff", "entry", "parked",
        "trying", "probe", "reserved", "halted", "timed", "gone"}

\* A guest's wait is never counted at the interrupts' level.
NotWoken == HostPrio

Goals == {"start", "return", "turn", "callback"}

Frames == [kind : Kinds, held : 0..2, todo : BOOLEAN]

---------------------------------------------------------------------------
(* Counting waiters *)

\* guest_wait_begin: a guest's wait also stamps s_gl_wait_since, which every
\* thread inside a prompt call will compare with the moment its call began.
WaitBegin(p) ==
  /\ waiters' = waiters + 1
  /\ waitingAt' = [waitingAt EXCEPT ![p] = @ + 1]
  /\ fresh' = [u \in Threads |->
       IF tResv[u] /\ p # HostPrio THEN fresh[u] \cup {p} ELSE fresh[u]]

WaitEnd_TotalOnly(p) ==          \* mutant: the priority's own counter forgotten
  waiters' = waiters - 1 /\ UNCHANGED <<waitingAt, fresh>>

WaitEnd(p) ==
  /\ waiters' = waiters - 1
  /\ waitingAt' = [waitingAt EXCEPT ![p] = @ - 1]
  /\ UNCHANGED fresh

\* Becoming a waiter inside guest_cs_enter_ex, once.
CountAsWaiter(t) ==
  IF waiting[t]
  THEN UNCHANGED <<waiting, waitVars>>
  ELSE WaitBegin(wprio[t]) /\ waiting' = [waiting EXCEPT ![t] = TRUE]

\* guest_my_priority
MyPrio(t) == IF t \in Hosts THEN HostPrio ELSE prio[t]

WaitedFor == {p \in Levels : waitingAt[p] > 0}

\* guest_should_hand_over: a higher waiter at once, an equal one after a
\* quantum, a lower one only past the starvation bound.
ShouldHandOver(t) ==
  /\ WaitedFor # {}
  /\ \/ \E p \in WaitedFor : p > MyPrio(t)
     \/ MyPrio(t) \in WaitedFor /\ age >= 1
     \/ age = 2

\* guest_outranked: never past an interrupt, past a guest once starved.
Outranked_OffByOne(t) ==         \* mutant: the scan stops one level early
  \E p \in WaitedFor : p > wprio[t] + 1

Outranked(t) ==
  /\ \E p \in WaitedFor : p > wprio[t]
  /\ starved[t] => HostPrio \in WaitedFor

\* guest_reserved_against_me
Reserved_AgainstLower(t) ==      \* mutant: a higher thread ignores it
  t \in Guests /\ resv \notin {NoThread, t} /\ ~lapsed /\ prio[t] <= prio[resv]

Reserved(t) == t \in Guests /\ resv \notin {NoThread, t} /\ ~lapsed

\* The CAS that clears a reservation only if it is still this thread's.
ClearResv_Any(t) == resv' = NoThread    \* mutant: a plain store of 0
ClearResv(t) == resv' = IF resv = t THEN NoThread ELSE resv

\* How many levels a thread's own routine holds: the main thread takes the
\* lock once (kernel_thunks.c), a worker in bridge_thread_main and again in
\* bridge_run_thread_inline.
BaseDepth_Thrice(t) == IF t = Main THEN 1 ELSE 3    \* mutant: one more enter
BaseDepth(t) == IF t = Main THEN 1 ELSE 2

Goto(t, there) == pc' = [pc EXCEPT ![t] = there]

\* xbox_GuestLockDrop, pushing the frame that will take the levels back.
Drop_OneLevel(t, kind) ==        \* mutant: `if` for `while`
  /\ calls' = [calls EXCEPT ![t] = <<[kind |-> kind, held |-> depth[t],
                                      todo |-> kind # BackEdge]>> \o @]
  /\ depth' = [depth EXCEPT ![t] = IF @ > 0 THEN @ - 1 ELSE 0]
  /\ owner' = IF depth[t] = 1 THEN NoThread ELSE owner
  /\ ran' = IF depth[t] > 0 THEN [ran EXCEPT ![t] = 0] ELSE ran
  /\ UNCHANGED age

Drop(t, kind) ==
  /\ calls' = [calls EXCEPT ![t] = <<[kind |-> kind, held |-> depth[t],
                                      todo |-> kind # BackEdge]>> \o @]
  /\ depth' = [depth EXCEPT ![t] = 0]
  /\ IF depth[t] > 0
     THEN owner' = NoThread /\ ran' = [ran EXCEPT ![t] = 0]
     ELSE UNCHANGED <<owner, ran>>
  /\ UNCHANGED age

\* guest_took, then t runs lifted code at depth d in a turn of age a.  The
\* others' count of takes goes up; it is kept while a thread has a drop to
\* compare it with.
Took(t, d, a) ==
  /\ owner'   = t
  /\ depth'   = [depth EXCEPT ![t] = d]
  /\ age'     = a
  /\ ran'     = [u \in Threads |-> IF calls'[u] = << >> THEN 0
                                   ELSE IF ran[u] = 2 THEN 2 ELSE ran[u] + 1]
  /\ starved' = [starved EXCEPT ![t] = FALSE]
  /\ Goto(t, "lifted")

---------------------------------------------------------------------------
(* Kernel calls, host waits and back edges: letting go *)

\* kernel_thunk_dispatch, with xbox_GuestLockDropForKernel.  The reservation
\* is set before the lock goes down.
KernelCall(t, kind) ==
  /\ pc[t] = "lifted"
  /\ Len(calls[t]) < MaxCalls
  /\ IF kind = Prompt /\ t \in Guests /\ depth[t] > 0
     THEN /\ resv'     = t
          /\ lapsed'   = FALSE
          /\ tResv'    = [tResv EXCEPT ![t] = TRUE]
          /\ fresh'    = [fresh EXCEPT ![t] = {}]
     ELSE /\ tResv' = [tResv EXCEPT ![t] = FALSE]
          /\ UNCHANGED <<fresh, resv, lapsed>>
  /\ Drop(t, kind)
  /\ Goto(t, "call")
  /\ UNCHANGED <<askVars, waiters, waitingAt, recVars, prio>>

\* xbox_GuestSleep: the drop alone, t_resv left as it is.
GuestSleep(t) ==
  /\ HostWait \in CallKinds
  /\ pc[t] = "lifted"
  /\ t \in Guests
  /\ Len(calls[t]) < MaxCalls
  /\ Drop(t, HostWait)
  /\ Goto(t, "call")
  /\ UNCHANGED <<askVars, waitVars, resvVars, recVars, prio>>

\* recomp_guest_backedge_yield: park when asked, or hand over.
Yield_IgnoresRequest(t) ==       \* mutant: the park request not looked at
  /\ pc[t] = "lifted"
  /\ depth[t] > 0
  /\ waiters > 0
  /\ ShouldHandOver(t)
  /\ Drop(t, BackEdge)
  /\ Goto(t, "handoff")
  /\ goal' = [goal EXCEPT ![t] = "return"]
  /\ UNCHANGED <<waiting, wprio, starved, waitVars, resvVars, recVars, prio>>

Yield(t) ==
  /\ pc[t] = "lifted"
  /\ depth[t] > 0
  /\ waiters > 0
  /\ req[t] \/ ShouldHandOver(t)
  /\ Drop(t, BackEdge)
  /\ Goto(t, IF req[t] THEN "entry" ELSE "handoff")
  /\ goal' = [goal EXCEPT ![t] = "return"]
  /\ UNCHANGED <<waiting, wprio, starved, waitVars, resvVars, recVars, prio>>

---------------------------------------------------------------------------
(* Coming back *)

\* xbox_GuestLockRestore, up to the point where the thread asks for the lock
\* again; a thread that held nothing simply goes on.
Restore(t) ==
  IF Head(calls[t]).held = 0
  THEN /\ Goto(t, "lifted")
       /\ calls' = [calls EXCEPT ![t] = Tail(@)]
       /\ UNCHANGED goal
  ELSE /\ Goto(t, IF waiters > 0 /\ ran[t] = 0 /\ ShouldHandOver(t)
                  THEN "handoff" ELSE "entry")
       /\ goal' = [goal EXCEPT ![t] = "return"]
       /\ UNCHANGED calls

\* A guest waiter above t that began waiting during t's call.
ReadiedAbove(t) == \E p \in WaitedFor \cap fresh[t] : p > MyPrio(t)

\* xbox_GuestLockRestoreForKernel for a call that left a reservation.
RestoreReserved(t) ==
  /\ tResv' = [tResv EXCEPT ![t] = FALSE]
  /\ fresh' = [fresh EXCEPT ![t] = {}]
  /\ CASE lapsed ->
            \* it blocked after all: as any blocking call
            /\ ClearResv(t)
            /\ Restore(t)
       [] ~lapsed /\ ReadiedAbove(t) ->
            \* the call readied a higher thread: preempted at its return
            /\ ClearResv(t)
            /\ Goto(t, "handoff")
            /\ goal' = [goal EXCEPT ![t] = "return"]
            /\ UNCHANGED calls
       [] OTHER ->
            \* keep the turn; an interrupt may go first
            /\ Goto(t, IF waitingAt[HostPrio] > 0 /\ ran[t] = 0
                       THEN "handoff" ELSE "entry")
            /\ goal' = [goal EXCEPT ![t] = "turn"]
            /\ UNCHANGED <<calls, resv>>
  /\ UNCHANGED <<waiters, waitingAt, lapsed>>

\* The bridge function or the host wait is done.
Return(t) ==
  /\ pc[t] = "call"
  /\ IF tResv[t] /\ Head(calls[t]).kind # HostWait
     THEN RestoreReserved(t)
     ELSE Restore(t) /\ UNCHANGED <<waitVars, resvVars>>
  /\ UNCHANGED <<lockVars, waiting, wprio, starved, recVars, prio>>

\* guest_handoff_wait ends: someone took the lock, nobody waits, or 2 ms.
HandoffDone(t) ==
  /\ pc[t] = "handoff"
  /\ ran[t] # 0 \/ waiters = 0 \/ SlowWake
  /\ Goto(t, "entry")
  /\ UNCHANGED <<calls, lockVars, askVars, waitVars, resvVars, recVars, prio>>

---------------------------------------------------------------------------
(* guest_cs_enter_ex: taking the lock *)

\* The head of guest_cs_enter_ex: the priority it will wait at, and
\* guest_park_if_asked.  A park request stops counting as a waiter.
Entry(t) ==
  /\ pc[t] = "entry"
  /\ wprio' = [wprio EXCEPT ![t] = MyPrio(t)]
  /\ req' = [req EXCEPT ![t] = FALSE]
  /\ waiters' = IF req[t] THEN waiters - 1 ELSE waiters
  /\ Goto(t, IF req[t] /\ suspend[t] > 0 THEN "parked" ELSE "trying")
  /\ UNCHANGED <<calls, lockVars, goal, waiting, starved, waitingAt, fresh,
                 resvVars, suspend, woken, prio>>

\* A parked thread whose suspend count is back to 0 wakes up.  The resume has
\* counted it as waiting already.
Unpark_Once(t) ==                \* mutant: `if` for `while` around the wait
  /\ pc[t] = "parked"
  /\ woken' = [woken EXCEPT ![t] = NotWoken]
  /\ waiting' = [waiting EXCEPT ![t] = woken[t] # NotWoken]
  /\ wprio' = [wprio EXCEPT ![t] = IF woken[t] # NotWoken THEN woken[t] ELSE @]
  /\ Goto(t, "trying")
  /\ UNCHANGED <<calls, lockVars, goal, starved, waitVars, resvVars, suspend,
                 req, prio>>

Unpark(t) ==
  /\ pc[t] = "parked"
  /\ suspend[t] = 0
  /\ woken' = [woken EXCEPT ![t] = NotWoken]
  /\ waiting' = [waiting EXCEPT ![t] = woken[t] # NotWoken]
  /\ wprio' = [wprio EXCEPT ![t] = IF woken[t] # NotWoken THEN woken[t] ELSE @]
  /\ Goto(t, "trying")
  /\ UNCHANGED <<calls, lockVars, goal, starved, waitVars, resvVars, suspend,
                 req, prio>>

\* TryEnterCriticalSection fails: count as a waiter and block.
TryFail(t) ==
  /\ pc[t] = "trying"
  /\ owner # NoThread
  /\ ~waiting[t]
  /\ CountAsWaiter(t)
  /\ UNCHANGED <<pc, calls, lockVars, goal, wprio, starved, resvVars, recVars,
                 prio>>

\* The mutex is ours, by the Try or by the blocking enter.
TryOk(t) ==
  /\ pc[t] = "trying"
  /\ owner = NoThread
  /\ owner' = t
  /\ Goto(t, "probe")
  /\ UNCHANGED <<calls, depth, age, ran, askVars, waitVars, resvVars, recVars,
                 prio>>

\* Not our turn: give the mutex back and wait, for a reservation or behind a
\* higher waiter.
StandAside(t) ==
  /\ pc[t] = "probe"
  /\ \/ Reserved(t) /\ Goto(t, "reserved")
     \/ /\ ~Reserved(t)
        /\ goal[t] # "turn"
        /\ t \in Guests
        /\ Outranked(t)
        /\ Goto(t, "trying")
  /\ owner' = NoThread
  /\ CountAsWaiter(t)
  /\ UNCHANGED <<calls, depth, age, ran, goal, wprio, starved, resvVars,
                 recVars, prio>>

\* guest_wait_reservation returns.
ReservationOver(t) ==
  /\ pc[t] = "reserved"
  /\ ~Reserved(t)
  /\ Goto(t, "trying")
  /\ UNCHANGED <<calls, lockVars, askVars, waitVars, resvVars, recVars, prio>>

\* The levels a thread takes back: those its frame recorded, or those its
\* start or callback takes.
DepthTaken_One(t) == 1           \* mutant: the outermost level only

DepthTaken(t) ==
  CASE goal[t] = "start"    -> BaseDepth(t)
    [] goal[t] = "callback" -> 1
    [] OTHER                -> Head(calls[t]).held

\* A thread that kept its turn, with nobody in between, keeps its quantum:
\* t_resv_since is the time of a take nobody has moved on from.
KeepsTurn(t) == goal[t] = "turn" /\ ran[t] = 0
AgeTaken_Fresh(t) == 0           \* mutant: every kernel call restarts the quantum
AgeTaken(t)  == IF KeepsTurn(t) THEN age ELSE 0

\* Our turn.  The recursive levels cannot block, a prompt call's reservation
\* goes only now that the lock is back, and the locals go out of scope.
Take(t) ==
  /\ pc[t] = "probe"
  /\ ~Reserved(t)
  /\ t \in Guests /\ goal[t] # "turn" => ~Outranked(t)
  /\ IF waiting[t] THEN WaitEnd(wprio[t]) ELSE UNCHANGED waitVars
  /\ waiting' = [waiting EXCEPT ![t] = FALSE]
  /\ wprio' = [wprio EXCEPT ![t] = HostPrio]
  /\ calls' = IF goal[t] \in {"return", "turn"}
              THEN [calls EXCEPT ![t] = Tail(@)] ELSE calls
  /\ Took(t, DepthTaken(t), AgeTaken(t))
  /\ goal' = [goal EXCEPT ![t] = "return"]
  /\ IF goal[t] = "turn" THEN ClearResv(t) ELSE UNCHANGED resv
  /\ UNCHANGED <<lapsed, tResv, recVars, prio>>

---------------------------------------------------------------------------
(* What a kernel call does besides: one operation per call *)

InCall(t, kind) ==
  /\ pc[t] = "call"
  /\ t \in Guests
  /\ Head(calls[t]).kind = kind
  /\ Head(calls[t]).todo

Done(t) == calls' = [calls EXCEPT ![t][1].todo = FALSE]

\* A thread that has registered its guest_rec; slots are never given back.
Registered(u) == u \in Guests /\ pc[u] \notin {"unborn", "born"}

\* PsCreateSystemThreadEx makes the worker's host thread.
Spawn(t, u) ==
  /\ InCall(t, Prompt)
  /\ pc[u] = "unborn"
  /\ Done(t)
  /\ Goto(u, "born")
  /\ UNCHANGED <<lockVars, askVars, waitVars, resvVars, recVars, prio>>

\* xbox_GuestLockEnter in that thread, whenever it first runs (it may have been
\* created suspended): it registers and asks for the lock.
Begin(t) ==
  /\ t \in Workers
  /\ pc[t] = "born"
  /\ Goto(t, "entry")
  /\ goal' = [goal EXCEPT ![t] = "start"]
  /\ UNCHANGED <<calls, lockVars, waiting, wprio, starved, waitVars, resvVars,
                 recVars, prio>>

\* xbox_GuestThreadSuspend of another thread.  A woken thread still in its
\* park is not waiting for the lock any more; one that is not parked is asked
\* to park, and the request counts as a waiter.
SuspendOther(t, u) ==
  /\ InCall(t, Prompt)
  /\ u # t
  /\ Registered(u)
  /\ suspend[u] < MaxSuspend
  /\ Done(t)
  /\ suspend' = [suspend EXCEPT ![u] = @ + 1]
  /\ woken' = [woken EXCEPT ![u] = NotWoken]
  /\ LET ask == suspend[u] = 0 /\ ~req[u] /\ pc[u] # "parked"
     IN  /\ req' = [req EXCEPT ![u] = req[u] \/ ask]
         /\ CASE woken[u] # NotWoken -> WaitEnd(woken[u])
              [] woken[u] = NotWoken /\ ask ->
                   waiters' = waiters + 1 /\ UNCHANGED <<waitingAt, fresh>>
              [] OTHER -> UNCHANGED waitVars
  /\ UNCHANGED <<pc, lockVars, askVars, resvVars, prio>>

Stopped(t) ==
  calls' = [calls EXCEPT ![t][1] = [@ EXCEPT !.kind = Blocking, !.todo = FALSE]]

\* A thread suspending itself blocks after all: guest_resv_blocking, then the
\* host's SuspendThread stops it here.
SuspendSelf(t) ==
  /\ InCall(t, Prompt)
  /\ MaxSuspend > 0
  /\ Stopped(t)
  /\ Goto(t, "halted")
  /\ tResv' = [tResv EXCEPT ![t] = FALSE]
  /\ IF tResv[t] THEN ClearResv(t) ELSE UNCHANGED resv
  /\ UNCHANGED <<lockVars, askVars, waitVars, lapsed, recVars, prio>>

\* xbox_GuestThreadResume: at count 0 it is the host's ResumeThread; when the
\* count reaches 0 the request is withdrawn, or the parked thread is counted
\* as waiting at once.
Resume(t, u) ==
  /\ InCall(t, Prompt)
  /\ u # t
  /\ Registered(u)
  /\ suspend[u] > 0 \/ pc[u] = "halted"
  /\ Done(t)
  /\ IF suspend[u] = 0
     THEN Goto(u, "call") /\ UNCHANGED <<waitVars, recVars>>
     ELSE /\ suspend' = [suspend EXCEPT ![u] = @ - 1]
          /\ IF suspend[u] > 1
             THEN UNCHANGED <<waitVars, req, woken>>
             ELSE /\ req' = [req EXCEPT ![u] = FALSE]
                  /\ IF pc[u] = "parked" /\ woken[u] = NotWoken
                     THEN /\ woken' = [woken EXCEPT ![u] = prio[u]]
                          /\ WaitBegin(prio[u])
                     ELSE /\ waiters' = IF req[u] THEN waiters - 1 ELSE waiters
                          /\ UNCHANGED <<waitingAt, fresh, woken>>
          /\ UNCHANGED pc
  /\ UNCHANGED <<lockVars, askVars, resvVars, prio>>

\* xbox_GuestLockNotePriority, from KeSetPriorityThread and its relatives.
SetPriority(t, u, p) ==
  /\ InCall(t, Prompt)
  /\ u \in Guests
  /\ prio[u] # p
  /\ Done(t)
  /\ prio' = [prio EXCEPT ![u] = p]
  /\ UNCHANGED <<pc, lockVars, askVars, waitVars, resvVars, recVars>>

\* BRIDGE_CALL_GUEST on a guest thread, inside a kernel call: it asks for the
\* lock as xbox_GuestLockEnter does.
Callback_TimedOut(t, kind) ==    \* mutant: the host threads' bound on a guest
  /\ InCall(t, kind)
  /\ Done(t)
  /\ Goto(t, "lifted")
  /\ UNCHANGED <<lockVars, askVars, waitVars, resvVars, recVars, prio>>

Callback(t, kind) ==
  /\ InCall(t, kind)
  /\ Done(t)
  /\ Goto(t, "entry")
  /\ goal' = [goal EXCEPT ![t] = "callback"]
  /\ UNCHANGED <<lockVars, waiting, wprio, starved, waitVars, resvVars,
                 recVars, prio>>

\* The called-back routine returns: xbox_GuestLockLeave, and on with the call.
CallbackReturn(t) ==
  /\ pc[t] = "lifted"
  /\ t \in Guests
  /\ calls[t] # << >>
  /\ depth' = [depth EXCEPT ![t] = @ - 1]
  /\ owner' = IF depth[t] = 1 THEN NoThread ELSE owner
  /\ Goto(t, "call")
  /\ UNCHANGED <<calls, age, ran, askVars, waitVars, resvVars, recVars, prio>>

\* PsTerminateSystemThread on a worker: ExitThread inside the call, the lock
\* already let go, the guest_rec left as it is.
Terminate(t) ==
  /\ t \in Workers
  /\ InCall(t, Blocking)
  /\ Goto(t, "gone")
  /\ calls' = [calls EXCEPT ![t] = << >>]
  /\ UNCHANGED <<lockVars, askVars, waitVars, resvVars, recVars, prio>>

\* A worker's routine returns: BRIDGE_CALL_GUEST leaves the level it took,
\* and bridge_thread_main returns with the level it took itself.
WorkerReturn(t) ==
  /\ WorkersReturn
  /\ t \in Workers
  /\ pc[t] = "lifted"
  /\ calls[t] = << >>
  /\ depth' = [depth EXCEPT ![t] = @ - 1]
  /\ owner' = IF depth[t] = 1 THEN NoThread ELSE owner
  /\ Goto(t, "gone")
  /\ UNCHANGED <<calls, age, ran, askVars, waitVars, resvVars, recVars, prio>>

---------------------------------------------------------------------------
(* Host threads: xbox_GuestLockEnterTimed around an ISR or a DPC *)

HostTake(h) ==
  /\ owner = NoThread
  /\ UNCHANGED calls
  /\ Took(h, 1, 0)

HostEnter(h) ==
  /\ pc[h] = "idle"
  /\ \/ HostTake(h) /\ UNCHANGED waitVars
     \/ /\ owner # NoThread
        /\ WaitBegin(HostPrio)
        /\ Goto(h, "timed")
        /\ UNCHANGED <<lockVars, starved>>
  /\ UNCHANGED <<calls, goal, waiting, wprio, resvVars, recVars, prio>>

HostTimedTake(h) ==
  /\ pc[h] = "timed"
  /\ HostTake(h)
  /\ WaitEnd(HostPrio)
  /\ UNCHANGED <<calls, goal, waiting, wprio, resvVars, recVars, prio>>

\* Past the bound the routine runs anyway, without the lock.
HostTimeout(h) ==
  /\ HostGivesUp
  /\ pc[h] = "timed"
  /\ WaitEnd(HostPrio)
  /\ Goto(h, "lifted")
  /\ UNCHANGED <<calls, lockVars, askVars, resvVars, recVars, prio>>

HostDone(h) ==
  /\ pc[h] = "lifted"
  /\ h \in Hosts
  /\ calls[h] = << >>
  /\ depth' = [depth EXCEPT ![h] = 0]
  /\ owner' = IF depth[h] > 0 THEN NoThread ELSE owner
  /\ Goto(h, "idle")
  /\ UNCHANGED <<calls, age, ran, askVars, waitVars, resvVars, recVars, prio>>

---------------------------------------------------------------------------
(* Time *)

Tick ==
  /\ age < MaxAge
  /\ age' = age + 1
  /\ UNCHANGED <<pc, calls, owner, depth, ran, askVars, waitVars, resvVars,
                 recVars, prio>>

Starve(t) ==
  /\ MaxAge = 2
  /\ waiting[t]
  /\ ~starved[t]
  /\ starved' = [starved EXCEPT ![t] = TRUE]
  /\ UNCHANGED <<pc, calls, lockVars, goal, waiting, wprio, waitVars, resvVars,
                 recVars, prio>>

Lapse ==
  /\ resv # NoThread
  /\ pc[resv] \in LapsesAt
  /\ ~lapsed
  /\ lapsed' = TRUE
  /\ UNCHANGED <<pc, calls, lockVars, askVars, waitVars, resv, tResv,
                 recVars, prio>>

---------------------------------------------------------------------------

Init ==
  /\ owner = Main
  /\ depth = [t \in Threads |-> IF t = Main THEN 1 ELSE 0]
  /\ pc = [t \in Threads |-> IF t = Main THEN "lifted"
                             ELSE IF t \in Hosts THEN "idle" ELSE "unborn"]
  /\ goal = [t \in Threads |-> "return"]
  /\ calls = [t \in Threads |-> << >>]
  /\ waiters = 0
  /\ waitingAt = [p \in Levels |-> 0]
  /\ waiting = [t \in Threads |-> FALSE]
  /\ wprio = [t \in Threads |-> HostPrio]
  /\ prio = StartPrio
  /\ ran = [t \in Threads |-> 0]
  /\ age = 0
  /\ starved = [t \in Threads |-> FALSE]
  /\ resv = NoThread
  /\ lapsed = FALSE
  /\ tResv = [t \in Threads |-> FALSE]
  /\ fresh = [t \in Threads |-> {}]
  /\ suspend = [t \in Threads |-> 0]
  /\ req = [t \in Threads |-> FALSE]
  /\ woken = [t \in Threads |-> NotWoken]

Step(t) ==
  \/ \E kind \in CallKinds \ {HostWait} : KernelCall(t, kind)
  \/ GuestSleep(t)
  \/ Yield(t)
  \/ Return(t)
  \/ HandoffDone(t)
  \/ Entry(t)
  \/ Unpark(t)
  \/ TryFail(t)
  \/ TryOk(t)
  \/ StandAside(t)
  \/ ReservationOver(t)
  \/ Take(t)
  \/ \E u \in Workers : Spawn(t, u)
  \/ Begin(t)
  \/ \E u \in Guests : SuspendOther(t, u)
  \/ SuspendSelf(t)
  \/ \E u \in Guests : Resume(t, u)
  \/ \E u \in Guests, p \in NewPrios : SetPriority(t, u, p)
  \/ \E kind \in CallbackIn : Callback(t, kind)
  \/ CallbackReturn(t)
  \/ Terminate(t)
  \/ WorkerReturn(t)
  \/ Starve(t)

HostStep(h) ==
  \/ HostEnter(h)
  \/ HostTimedTake(h)
  \/ HostTimeout(h)
  \/ HostDone(h)

Next ==
  \/ \E t \in Threads : Step(t)
  \/ \E h \in Hosts : HostStep(h)
  \/ Tick
  \/ Lapse

Spec == Init /\ [][Next]_vars

---------------------------------------------------------------------------
(* Fairness *)

\* What a thread does by itself once it is no longer in lifted code: the host
\* schedules it, and a call that cannot block, or has done what it was made
\* for, returns.
Progress(t) ==
  \/ HandoffDone(t) \/ Entry(t) \/ Unpark(t) \/ TryFail(t) \/ TryOk(t)
  \/ StandAside(t) \/ ReservationOver(t) \/ Take(t) \/ CallbackReturn(t)
  \/ /\ pc[t] = "call"
     /\ Head(calls[t]).kind = Prompt \/ ~Head(calls[t]).todo
     /\ Return(t)

\* A turn that starts anew: only a turn that lasts runs out of its quantum.
TurnStarts ==
  \E t \in Threads : depth[t] = 0 /\ depth'[t] > 0 /\ ~KeepsTurn(t)

\* Lifted code that goes on for ever goes round a loop, so it meets a back
\* edge again and again between its calls.  The mutex goes to a guest waiter
\* only where it stays free (weak fairness of TryOk): it is not fair.
Fairness ==
  /\ \A t \in Guests : WF_vars(Progress(t)) /\ SF_vars(Yield(t))
  /\ []<><<TurnStarts>>_vars \/ WF_vars(Tick)
  /\ WF_vars(Lapse)

FairSpec == Spec /\ Fairness

---------------------------------------------------------------------------
(* Properties *)

TypeOK ==
  /\ owner \in Threads \cup {NoThread}
  /\ depth \in [Threads -> 0..2]
  /\ pc \in [Threads -> Pcs]
  /\ goal \in [Threads -> Goals]
  /\ calls \in [Threads -> Seq(Frames)]
  /\ waiters \in Int
  /\ waitingAt \in [Levels -> Int]
  /\ waiting \in [Threads -> BOOLEAN]
  /\ wprio \in [Threads -> Levels]
  /\ prio \in [Guests -> Prios]
  /\ ran \in [Threads -> 0..2]
  /\ age \in 0..2
  /\ starved \in [Threads -> BOOLEAN]
  /\ resv \in Guests \cup {NoThread}
  /\ lapsed \in BOOLEAN
  /\ tResv \in [Threads -> BOOLEAN]
  /\ fresh \in [Threads -> SUBSET Levels]
  /\ suspend \in [Threads -> Nat]
  /\ req \in [Threads -> BOOLEAN]
  /\ woken \in [Threads -> Levels]

\* One guest thread runs lifted code at a time: two never do.  A host thread
\* that ran past its bound is the only thing that may run beside one.
MutualExclusion ==
  \A t, u \in Guests : pc[t] = "lifted" /\ pc[u] = "lifted" => t = u

\* No thread blocks holding the lock: whoever has the mutex is running lifted
\* code or about to find out whether it may, never waiting, parked, in a
\* kernel call or gone.
NobodyBlocksHolding ==
  \A t \in Threads : owner = t => pc[t] \in {"lifted", "probe"}

\* Letting go and coming back restores every recursive level, whatever calls
\* and callbacks lay between.
LevelsRestored ==
  \A t \in Guests :
    pc[t] = "lifted" =>
      /\ owner = t
      /\ depth[t] = IF calls[t] = << >> THEN BaseDepth(t) ELSE 1

\* What the counters stand for: a thread waits at a priority because it is
\* asking for the lock, was resumed and has not woken yet, or is a host thread
\* in its bounded wait.
WaitsAt(t, p) ==
  \/ waiting[t] /\ wprio[t] = p
  \/ woken[t] = p /\ p # NotWoken
  \/ pc[t] = "timed" /\ p = HostPrio

\* No phantom waiter and none forgotten: at each priority the counter is the
\* number of threads waiting there, and the total also counts the park
\* requests nobody has answered, although priorities change while threads
\* wait and suspends and resumes overtake each other.
WaitersExact ==
  /\ \A p \in Levels :
       waitingAt[p] = Cardinality({t \in Threads : WaitsAt(t, p)})
  /\ waiters = Cardinality({t \in Threads : \E p \in Levels : WaitsAt(t, p)})
               + Cardinality({t \in Threads : req[t]})

\* A suspend is never lost and a resume never missed: while the count is not
\* zero the thread is parked or still asked to park, and it is asked, or
\* counted as woken, only then.
SuspendNotLost ==
  \A t \in Guests :
    /\ suspend[t] > 0 => req[t] \/ pc[t] = "parked"
    /\ req[t] => suspend[t] > 0
    /\ woken[t] # NotWoken <=> (pc[t] = "parked" /\ suspend[t] = 0)

\* Inside a kernel call that does not block, up to the moment it has its turn
\* back or has decided to give it up.
Entering == {"handoff", "entry", "parked", "trying", "probe", "reserved"}
InPromptCall(t) ==
  /\ calls[t] # << >>
  /\ Head(calls[t]).kind = Prompt
  /\ pc[t] = "call" \/ (pc[t] \in Entering /\ goal[t] = "turn")

\* A reservation the others go by.
InForce(t) == resv = t /\ ~lapsed

\* A kernel call that cannot block is not a reschedule: while its reservation
\* is in force no other guest thread runs lifted code, whatever waits, lapsed
\* before, is suspended, or is called back in the middle of the call.
PromptCallUndisturbed ==
  \A t, u \in Guests : InForce(t) /\ pc[u] = "lifted" => u = t

\* Nor is it taken away: from its drop to its turn a prompt call loses its
\* reservation only by the clock, or to a kernel call its own callback made,
\* and never to what another thread does.
ReservationKept ==
  [][\A t \in Guests :
       InPromptCall(t)' /\ ~InForce(t)' =>
         \/ InPromptCall(t) /\ (lapsed' \/ ~InForce(t))
         \/ pc[t] = "lifted" /\ calls'[t] = calls[t]]_vars

\* Around a call that blocks the lock goes to whoever is waiting: a thread in
\* such a call, in a host-side wait, or suspended in its park keeps nobody out.
BlockedReservesNothing ==
  \A t \in Guests :
    \/ pc[t] = "parked"
    \/ pc[t] = "call" /\ Head(calls[t]).kind # Prompt
    => ~InForce(t)

\* A free lock goes to the highest waiter: a guest thread that takes it, other
\* than back from a prompt call, leaves no thread waiting above it, a resumed
\* thread that has not woken yet included.
HighestFirst ==
  [][\A t \in Guests :
       pc[t] = "probe" /\ pc'[t] = "lifted" /\ goal[t] # "turn" /\ ~starved[t]
         => \A u \in Threads, p \in Levels : WaitsAt(u, p) => p <= wprio[t]]_vars

\* Two threads of one priority share the processor: one that waits for the
\* lock runs in the end, however many prompt calls the other makes.
EqualWaiterRuns ==
  \A t \in Guests : pc[t] = "trying" ~> pc[t] = "lifted"

\* A suspend request is answered: the thread parks, the request is withdrawn,
\* or the thread has stopped itself meanwhile.
SuspendAnswered ==
  \A t \in Guests : req[t] ~> ~req[t] \/ pc[t] = "halted"

=============================================================================
