----------------------------- MODULE HostObjects -----------------------------
(***************************************************************************)
(* The Win32 objects of the POSIX build (src/platform/win32_compat.c):     *)
(* events, semaphores, mutexes and files behind reference counts, the      *)
(* waits for one and for several of them, and the service thread that sets *)
(* waitable timers.                                                        *)
(*                                                                         *)
(* Each object has a lock of its own, held for a look at it and for a      *)
(* change of it, so those are single steps.  A wait for one object sleeps  *)
(* on the object's condition; a wait for several polls them one by one and *)
(* can be overtaken between any two looks.                                 *)
(***************************************************************************)
EXTENDS Integers, Sequences, FiniteSets, SequencesExt

CONSTANTS
  Threads,
  NoThread,
  Addresses,     \* where an object can be, 1..n
  SemaphoreMax,  \* of every semaphore
  TimersMax,     \* W32_TIMERS_MAX
  PulsesMax      \* bound on pulse_gen

VARIABLES
  object,  \* what is at each address
  timers,  \* g_timers, with whether due_ns has passed
  scan,    \* where timer_service is in g_timers, 0 while it sleeps
  call,    \* the call each thread is in
  pulsed   \* history: <<thread, object>>, pulsed while the thread waited

hostVars == <<object, timers, scan, call, pulsed>>

ASSUME HostObjectsAssumption ==
  /\ IsFiniteSet(Threads) /\ NoThread \notin Threads
  /\ IsFiniteSet(Addresses) /\ Addresses = 1..Cardinality(Addresses)
  /\ {SemaphoreMax, TimersMax, PulsesMax} \subseteq Nat \ {0}

EventKinds == {"manual", "auto"}
Kinds == EventKinds \cup {"semaphore", "mutex", "file"}

\* serial is history: the how-manieth object this is.  pulse is pulse_left: one
\* or none for an automatic event, any number or none for a manual one.
Free ==
  [kind |-> "free", serial |-> 0, refs |-> 0, signaled |-> FALSE, gen |-> 0,
   pulse |-> FALSE, count |-> 0, owner |-> NoThread, depth |-> 0]

\* obj_alloc
Object(kind, serial) == [Free EXCEPT !.kind = kind, !.serial = serial, !.refs = 1]

\* obj_release
Released(f, o) ==
  IF f[o].refs > 1 THEN [f EXCEPT ![o].refs = @ - 1] ELSE [f EXCEPT ![o] = Free]

---------------------------------------------------------------------------
(* One look at an object *)

\* What t would find, in a wait that saw pulse_gen at gen when it began.
Ready(x, t, gen) ==
  CASE x.kind \in EventKinds -> x.signaled \/ (x.gen # gen /\ x.pulse)
    [] x.kind = "semaphore" -> x.count > 0
    [] x.kind = "mutex" -> x.owner \in {NoThread, t}
    [] OTHER -> TRUE

Taken(x, t) ==
  CASE x.kind \in EventKinds /\ x.signaled -> [x EXCEPT !.signaled = x.kind = "manual"]
    [] x.kind \in EventKinds /\ ~x.signaled -> [x EXCEPT !.pulse = x.kind = "manual"]
    [] x.kind = "semaphore" -> [x EXCEPT !.count = @ - 1]
    [] x.kind = "mutex" -> [x EXCEPT !.owner = t, !.depth = @ + 1]
    [] OTHER -> x

---------------------------------------------------------------------------
(* Waits *)

\* A call: what it was given, each with its object, and for a wait the
\* pulse_gen of each, the one it looks at next and how many it got this round;
\* period is of a timer.
Call(op, hs) ==
  [op |-> op, hs |-> hs, gens |-> << >>, at |-> 1, got |-> 0, all |-> FALSE,
   timed |-> FALSE, period |-> FALSE]

InTitle == Call("title", << >>)
Took(h) == Call("took", <<h>>)

OfWait(t) == call[t].op \in {"sleep", "sample", "poll"}
Objects(t) == [k \in DOMAIN call[t].hs |-> call[t].hs[k].object]

\* t waits and has seen pulse_gen of o.
WaitsFor(t, o) ==
  OfWait(t) /\ \E k \in DOMAIN call[t].gens : Objects(t)[k] = o

\* The wait of t is over; h is what it took.
WaitEnds(t, c) ==
  /\ call' = [call EXCEPT ![t] = c]
  /\ pulsed' =
       {p \in pulsed :
          /\ p[1] # t
          /\ c.op = "took" /\ object[p[2]].kind = "auto" => p[2] # c.hs[1].object}

Takes(t, h) ==
  /\ object' = [object EXCEPT ![h.object] = Taken(@, t)]
  /\ WaitEnds(t, Took(h))

\* wait_single_until, up to the condition wait.
WaitForOne(t, h, timed) ==
  LET x == object[h.object]
  IN IF Ready(x, t, x.gen) THEN Takes(t, h)
     ELSE /\ call' = [call EXCEPT ![t] = [Call("sleep", <<h>>) EXCEPT
                                            !.gens = <<x.gen>>, !.timed = timed]]
          /\ UNCHANGED <<object, pulsed>>

\* The sleeper looks again and is released.
WaitIsReleased(t) ==
  /\ call[t].op = "sleep"
  /\ Ready(object[call[t].hs[1].object], t, call[t].gens[1])
  /\ Takes(t, call[t].hs[1])
  /\ UNCHANGED <<timers, scan>>

\* Its time is over: it does not look again.
SleepTimesOut(t) ==
  /\ call[t].op = "sleep"
  /\ call[t].timed
  /\ WaitEnds(t, InTitle)
  /\ UNCHANGED <<object, timers, scan>>

\* WaitForMultipleObjectsEx: pulse_gen of each event first,
WaitForSeveral(t, hs, all, timed) ==
  /\ call' = [call EXCEPT ![t] = [Call("sample", hs) EXCEPT !.all = all, !.timed = timed]]
  /\ UNCHANGED <<object, pulsed>>

Sample(t) ==
  LET c == call[t]
      d == [c EXCEPT !.gens = Append(@, object[c.hs[Len(@) + 1].object].gen)]
  IN /\ c.op = "sample"
     /\ call' = [call EXCEPT ![t] =
                   IF Len(d.gens) = Len(d.hs) THEN [d EXCEPT !.op = "poll"] ELSE d]
     /\ UNCHANGED <<object, timers, scan, pulsed>>

LooksOn(t, c) == call' = [call EXCEPT ![t] = [c EXCEPT !.at = @ + 1]] /\ UNCHANGED pulsed

Poll_Whole(t) ==                         \* mutant: a whole round before it returns
  LET c == call[t]
      h == c.hs[c.at]
  IN /\ c.op = "poll"
     /\ c.at <= Len(c.hs)
     /\ IF Ready(object[h.object], t, c.gens[c.at])
        THEN /\ object' = [object EXCEPT ![h.object] = Taken(@, t)]
             /\ IF c.at < Len(c.hs)
                THEN LooksOn(t, [c EXCEPT !.got = @ + 1])
                ELSE WaitEnds(t, Took(h))
        ELSE LooksOn(t, c) /\ UNCHANGED object
     /\ UNCHANGED <<timers, scan>>

\* then one look at each in turn: a wait for any returns with the first it
\* gets, a wait for all keeps what it gets and counts.
Poll(t) ==
  LET c == call[t]
      h == c.hs[c.at]
  IN /\ c.op = "poll"
     /\ c.at <= Len(c.hs)
     /\ IF ~Ready(object[h.object], t, c.gens[c.at])
        THEN LooksOn(t, c) /\ UNCHANGED object
        ELSE IF c.all
        THEN /\ object' = [object EXCEPT ![h.object] = Taken(@, t)]
             /\ LooksOn(t, [c EXCEPT !.got = @ + 1])
        ELSE Takes(t, h)
     /\ UNCHANGED <<timers, scan>>

\* The end of a round: all were there, or the time is over, or it sleeps a
\* millisecond and looks again.
RoundEnds(t) ==
  LET c == call[t]
  IN /\ c.op = "poll"
     /\ c.at > Len(c.hs)
     /\ IF c.all /\ c.got = Len(c.hs) THEN WaitEnds(t, Took(Last(c.hs)))
        ELSE \/ c.timed /\ WaitEnds(t, InTitle)
             \/ /\ call' = [call EXCEPT ![t].at = 1, ![t].got = 0]
                /\ UNCHANGED pulsed
     /\ UNCHANGED <<object, timers, scan>>

---------------------------------------------------------------------------
(* Signals *)

SetEvent(o) == object' = [object EXCEPT ![o].signaled = TRUE] /\ UNCHANGED pulsed
ResetEvent(o) == object' = [object EXCEPT ![o].signaled = FALSE] /\ UNCHANGED pulsed

\* A wait for all is not over because one of its events was pulsed.
SeesPulse(o) ==
  pulsed' = pulsed \cup
    {<<t, o>> : t \in {u \in Threads : WaitsFor(u, o) /\ ~call[u].all}}

PulseEvent_SetAndClear(o) ==             \* mutant: set, broadcast and clear
  /\ object[o].gen < PulsesMax
  /\ object' = [object EXCEPT ![o].signaled = FALSE]
  /\ SeesPulse(o)

\* The event is left clear; a wait that began before is released.
PulseEvent(o) ==
  /\ object[o].gen < PulsesMax
  /\ object' = [object EXCEPT ![o].signaled = FALSE, ![o].gen = @ + 1, ![o].pulse = TRUE]
  /\ SeesPulse(o)

ReleaseSemaphore_Past(o) ==              \* mutant: past sem_max
  object' = [object EXCEPT ![o].count = @ + 1] /\ UNCHANGED pulsed

ReleaseSemaphore(o) ==
  /\ object' = [object EXCEPT ![o].count = IF @ < SemaphoreMax THEN @ + 1 ELSE @]
  /\ UNCHANGED pulsed

\* Only the owner's counts.
ReleaseMutex(t, o) ==
  /\ object' = IF object[o].owner # t THEN object
               ELSE [object EXCEPT ![o].depth = @ - 1,
                                   ![o].owner = IF object[o].depth > 1 THEN t ELSE NoThread]
  /\ UNCHANGED pulsed

---------------------------------------------------------------------------
(* Waitable timers: events that timer_service sets *)

Armed(o) == {i \in DOMAIN timers : timers[i].object = o}

\* timer_remove: the last one takes its place.
Without(i) == Front([timers EXCEPT ![i] = Last(timers)])

\* SetWaitableTimer after its ResetEvent, under g_timer_lock: the timer's
\* entry is set again, or made, with a reference of its own, if there is room.
ArmTimer(o, period) ==
  LET entry == [object |-> o, due |-> FALSE, period |-> period]
  IN /\ scan = 0
     /\ IF Armed(o) # {} THEN
             /\ timers' = [timers EXCEPT ![CHOOSE i \in Armed(o) : TRUE] = entry]
             /\ UNCHANGED object
        ELSE IF Len(timers) = TimersMax THEN UNCHANGED <<timers, object>>
        ELSE /\ timers' = Append(timers, entry)
             /\ object' = [object EXCEPT ![o].refs = @ + 1]

\* CancelWaitableTimer, under g_timer_lock; its reference is released after.
DisarmTimer(o) ==
  /\ scan = 0
  /\ \/ Armed(o) = {} /\ UNCHANGED timers
     \/ \E i \in Armed(o) : timers' = Without(i)

\* Time reaches due_ns of a timer.  timer_service compares with the time at
\* which it began, so nothing comes due for it in the middle of a scan.
Due(o) ==
  /\ scan = 0
  /\ \E i \in Armed(o) :
       /\ ~timers[i].due
       /\ timers' = [timers EXCEPT ![i].due = TRUE]
  /\ UNCHANGED <<object, scan, call, pulsed>>

\* timer_service wakes, holds g_timer_lock, and goes over the timers.
ServiceWakes ==
  /\ scan = 0
  /\ timers # << >>
  /\ scan' = 1
  /\ UNCHANGED <<object, timers, call, pulsed>>

Closed_Never(o) == FALSE                 \* mutant: the count is not looked at

\* Only the timer's own reference is left: it was closed while armed.
Closed(o) == object[o].refs <= 1

DropClosed ==
  /\ scan \in DOMAIN timers
  /\ Closed(timers[scan].object)
  /\ timers' = Without(scan)
  /\ object' = Released(object, timers[scan].object)
  /\ UNCHANGED <<scan, call, pulsed>>

\* A due timer's event is set; a period arms it again, else it is dropped.
Fire ==
  LET o == timers[scan].object
      set == [object EXCEPT ![o].signaled = TRUE]
  IN /\ scan \in DOMAIN timers
     /\ ~Closed(o)
     /\ timers[scan].due
     /\ IF timers[scan].period
        THEN /\ object' = set
             /\ timers' = [timers EXCEPT ![scan].due = FALSE]
             /\ scan' = scan + 1
        ELSE /\ object' = Released(set, o)
             /\ timers' = Without(scan)
             /\ UNCHANGED scan
     /\ UNCHANGED <<call, pulsed>>

PassBy ==
  /\ scan \in DOMAIN timers
  /\ ~Closed(timers[scan].object)
  /\ ~timers[scan].due
  /\ scan' = scan + 1
  /\ UNCHANGED <<object, timers, call, pulsed>>

ServiceSleeps ==
  /\ scan > Len(timers)
  /\ scan' = 0
  /\ UNCHANGED <<object, timers, call, pulsed>>

ServiceSteps == DropClosed \/ Fire \/ PassBy \/ ServiceSleeps

HostInit ==
  /\ object = [o \in Addresses |-> Free]
  /\ timers = << >>
  /\ scan = 0
  /\ call = [t \in Threads |-> InTitle]
  /\ pulsed = {}

=============================================================================
