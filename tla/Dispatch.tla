------------------------------ MODULE Dispatch ------------------------------
(***************************************************************************)
(* Deferred work and timers of src/kernel/kernel_bridge.c.                 *)
(*                                                                         *)
(*   - Any thread that runs lifted code queues a DPC into a ring under     *)
(*     g_dpc_lock; an Inserted flag in the KDPC keeps it from being queued *)
(*     twice; a removed DPC leaves a zero in its slot.                     *)
(*   - KeSetTimer puts a KTIMER into a table under g_timer_lock, and the   *)
(*     first one starts the timer thread.                                  *)
(*   - The timer thread goes round: interrupts, the DPC ring until it is   *)
(*     empty, then the table, slot by slot: a due timer's DPC, and then    *)
(*     its signal.                                                         *)
(*   - A timer's signal is two words: a host event that a single wait      *)
(*     sleeps on, and SignalState in the guest's KTIMER that a multiple    *)
(*     wait polls.  Neither lock covers them.                              *)
(*                                                                         *)
(* Time is abstract: a set timer falls due at any later moment.  What a    *)
(* title's routines do is open: any of the calls modelled here, at most    *)
(* RoutineCalls of them each.                                              *)
(***************************************************************************)
EXTENDS Integers, FiniteSets, Sequences

CONSTANTS
  Guests,        \* the title's threads
  Devices,       \* host threads that call an ISR themselves (ohci.c)
  Clock,         \* kernel_timer_thread
  Dpcs, NoDpc,
  Timers, NoTimer,
  SyncTimers,    \* those of type SynchronizationTimer
  Periodic,      \* those set with a period
  TimerDpc,      \* the DPC each timer is set with, or NoDpc
  RingSize,      \* XBOX_MAX_PENDING_DPC
  TableSize,     \* XBOX_MAX_TIMERS
  RoutineCalls   \* bound: kernel calls made by one ISR or DPC routine

Executors == Guests \cup Devices \cup {Clock}
Slots     == 1..TableSize
Places    == 0..RingSize - 1

ASSUME DispatchAssumption ==
  /\ Clock \notin Guests \cup Devices
  /\ Guests \cap Devices = {}
  /\ NoDpc \notin Dpcs
  /\ NoTimer \notin Timers
  /\ SyncTimers \subseteq Timers
  /\ Periodic \subseteq Timers
  /\ TimerDpc \in [Timers -> Dpcs \cup {NoDpc}]
  /\ RingSize \in Nat \ {0, 1}
  /\ TableSize \in Nat \ {0}
  /\ RoutineCalls \in Nat

VARIABLES
  ring,      \* g_dpc_queue, NoDpc for a removed or never used entry
  head,      \* g_dpc_head
  tail,      \* g_dpc_tail
  inserted,  \* the Inserted byte of each KDPC
  started,   \* g_timer_started
  locks,     \* times g_timer_lock has been initialised
  clocks,    \* timer threads created so far
  table,     \* g_timers[i].timer_va
  due,       \* g_timers[i].due_ms has passed
  signal,    \* SignalState of each KTIMER
  shadow,    \* the host event of each KTIMER is set
  op,        \* where each executor is inside a kernel call
  arg,       \* the timer that call is about
  budget,    \* calls the routine on an executor may still make
  at,        \* where the timer thread is
  slot,      \* its i
  fired      \* its fired_va

ringVars   == <<ring, head, tail, inserted>>
tableVars  == <<table, due>>
startVars  == <<started, locks, clocks>>
signalVars == <<signal, shadow>>
callVars   == <<op, arg>>
clockVars  == <<at, slot, fired>>
vars == <<ringVars, tableVars, startVars, signalVars, callVars, budget,
          clockVars>>

Ops == {"none", "boot", "create", "begun", "arm", "unset", "clear", "reset",
        "isr"}
Ats == {"off", "sleep", "isr", "drain", "dpc", "scan", "timerdpc", "event",
        "mark"}

---------------------------------------------------------------------------
(* Kernel calls *)

\* Running lifted code, so free to make a kernel call.  A device thread does
\* inside its ISR only, the timer thread inside a routine only.
InRoutine(x) ==
  \/ x = Clock /\ at \in {"isr", "dpc", "timerdpc"}
  \/ x \in Devices /\ op[x] = "isr"

Lifted(x) ==
  \/ x \in Guests /\ op[x] = "none"
  \/ x = Clock /\ op[x] = "none" /\ InRoutine(x) /\ budget[x] > 0
  \/ x \in Devices /\ op[x] = "isr" /\ budget[x] > 0

\* Where an executor goes when its kernel call returns.
Back(x) ==
  /\ op' = [op EXCEPT ![x] = IF x \in Devices THEN "isr" ELSE "none"]
  /\ arg' = [arg EXCEPT ![x] = NoTimer]

Goto(x, there, v) ==
  /\ op' = [op EXCEPT ![x] = there]
  /\ arg' = [arg EXCEPT ![x] = v]

Spend(x) ==
  budget' = IF x \in Guests THEN budget ELSE [budget EXCEPT ![x] = @ - 1]

After_NoWrap(i) == i + 1         \* mutant: the modulo forgotten
After(i) == (i + 1) % RingSize

\* The ring entries from head up to tail.
Pending == {i \in Places : (i - head) % RingSize < (tail - head) % RingSize}

\* KeInsertQueueDpc: refused while the DPC is queued, dropped if the ring is
\* full.
Insert_Unflagged(x, d) ==        \* mutant: without the Inserted flag
  /\ Lifted(x)
  /\ After(tail) # head
  /\ ring' = [ring EXCEPT ![tail] = d]
  /\ inserted' = [inserted EXCEPT ![d] = TRUE]
  /\ tail' = After(tail)
  /\ Spend(x)
  /\ UNCHANGED <<head, tableVars, startVars, signalVars, callVars, clockVars>>

Insert(x, d) ==
  /\ Lifted(x)
  /\ ~inserted[d]
  /\ After(tail) # head
  /\ ring' = [ring EXCEPT ![tail] = d]
  /\ inserted' = [inserted EXCEPT ![d] = TRUE]
  /\ tail' = After(tail)
  /\ Spend(x)
  /\ UNCHANGED <<head, tableVars, startVars, signalVars, callVars, clockVars>>

\* KeRemoveQueueDpc: every entry of the DPC becomes a no-op.
Emptied_FlagOnly(d) == ring      \* mutant: only the flag is cleared
Emptied(d) ==
  [i \in Places |-> IF i \in Pending /\ ring[i] = d THEN NoDpc ELSE ring[i]]

Remove(x, d) ==
  /\ Lifted(x)
  /\ inserted[d]
  /\ ring' = Emptied(d)
  /\ inserted' = [inserted EXCEPT ![d] = FALSE]
  /\ Spend(x)
  /\ UNCHANGED <<head, tail, tableVars, startVars, signalVars, callVars,
                 clockVars>>

\* KeSetTimer and KeSetTimerEx.  The first caller of all starts the timer
\* thread; one that comes while it does waits for the table's lock to exist.
MayBoot_NotRunning == started # 2    \* mutant: a plain read, not a CAS from 0
MayBoot == started = 0

SetTimer(x, v) ==
  /\ Lifted(x)
  /\ Goto(x, IF MayBoot THEN "boot" ELSE "arm", v)
  /\ started' = IF MayBoot THEN 1 ELSE started
  /\ Spend(x)
  /\ UNCHANGED <<ringVars, tableVars, locks, clocks, signalVars, clockVars>>

\* Its three writes: the table's lock, the timer thread, and the word the
\* others wait for.  The thread runs from the second on.
InitLock(x) ==
  /\ op[x] = "boot"
  /\ locks' = locks + 1
  /\ Goto(x, "create", arg[x])
  /\ UNCHANGED <<ringVars, tableVars, started, clocks, signalVars, budget,
                 clockVars>>

StartClock(x) ==
  /\ op[x] = "create"
  /\ clocks' = clocks + 1
  /\ at' = IF at = "off" THEN "sleep" ELSE at
  /\ Goto(x, "begun", arg[x])
  /\ UNCHANGED <<ringVars, tableVars, started, locks, signalVars, budget, slot,
                 fired>>

Announce(x) ==
  /\ op[x] = "begun"
  /\ started' = 2
  /\ Goto(x, "arm", arg[x])
  /\ UNCHANGED <<ringVars, tableVars, locks, clocks, signalVars, budget,
                 clockVars>>

\* The slot a timer is put in: its own if it is set already, else the first
\* free one; none if the table is full, and then nothing is armed.
FreeSlots == {i \in Slots : table[i] = NoTimer}
Held(v)   == {i \in Slots : table[i] = v}
First(S)  == IF S = {} THEN {} ELSE {CHOOSE i \in S : \A j \in S : i <= j}

SlotFor_FirstFree(v) ==          \* mutant: stops at the first free slot
  First(FreeSlots \cup Held(v))
SlotFor(v) == IF Held(v) # {} THEN First(Held(v)) ELSE First(FreeSlots)

Arm(x) ==
  /\ op[x] = "arm"
  /\ started = 2
  /\ table' = [i \in Slots |-> IF i \in SlotFor(arg[x]) THEN arg[x] ELSE table[i]]
  /\ due' = [i \in Slots |-> due[i] /\ i \notin SlotFor(arg[x])]
  /\ Goto(x, "unset", arg[x])
  /\ UNCHANGED <<ringVars, startVars, signalVars, budget, clockVars>>

\* A freshly set timer is not signalled: first its host event, then its
\* header.
Unset(x) ==
  /\ op[x] = "unset"
  /\ shadow' = [shadow EXCEPT ![arg[x]] = FALSE]
  /\ Goto(x, "clear", arg[x])
  /\ UNCHANGED <<ringVars, tableVars, startVars, signal, budget, clockVars>>

Clear(x) ==
  /\ op[x] = "clear"
  /\ signal' = [signal EXCEPT ![arg[x]] = 0]
  /\ Back(x)
  /\ UNCHANGED <<ringVars, tableVars, startVars, shadow, budget, clockVars>>

\* KeCancelTimer, once the table exists.
Cancel(x, v) ==
  /\ Lifted(x)
  /\ started = 2
  /\ Held(v) # {}
  /\ table' = [i \in Slots |-> IF table[i] = v THEN NoTimer ELSE table[i]]
  /\ due' = [i \in Slots |-> due[i] /\ table[i] # v]
  /\ Spend(x)
  /\ UNCHANGED <<ringVars, startVars, signalVars, callVars, clockVars>>

\* KeWaitForSingleObject on a synchronisation timer that is set: the host
\* wait consumes the event, and the header is cleared after it.
WaitOne(x, v) ==
  /\ x \in Guests
  /\ Lifted(x)
  /\ v \in SyncTimers
  /\ shadow[v]
  /\ shadow' = [shadow EXCEPT ![v] = FALSE]
  /\ Goto(x, "clear", v)
  /\ UNCHANGED <<ringVars, tableVars, startVars, signal, budget, clockVars>>

\* KeWaitForMultipleObjects takes the header's word first and resets the host
\* event after it.
WaitAny(x, v) ==
  /\ x \in Guests
  /\ Lifted(x)
  /\ v \in SyncTimers
  /\ signal[v] = 1
  /\ signal' = [signal EXCEPT ![v] = 0]
  /\ Goto(x, "reset", v)
  /\ UNCHANGED <<ringVars, tableVars, startVars, shadow, budget, clockVars>>

ResetShadow(x) ==
  /\ op[x] = "reset"
  /\ shadow' = [shadow EXCEPT ![arg[x]] = FALSE]
  /\ Back(x)
  /\ UNCHANGED <<ringVars, tableVars, startVars, signal, budget, clockVars>>

---------------------------------------------------------------------------
(* The timer thread *)

InCall(x) == op[x] \notin {"none", "isr"}

\* A routine that starts has its calls before it, and one that ends has none.
Fresh(x) == budget' = [budget EXCEPT ![x] = RoutineCalls]
Ended(x) == budget' = [budget EXCEPT ![x] = 0]

\* Awake at the vblank deadline, or within 10 ms; an interrupt whose line is
\* up and that the title connected has its ISR called.
Wake ==
  /\ at = "sleep"
  /\ \/ at' = "isr" /\ Fresh(Clock)
     \/ at' = "drain" /\ UNCHANGED budget
  /\ UNCHANGED <<ringVars, tableVars, startVars, signalVars, callVars, slot,
                 fired>>

IsrReturns_SkipsDrain ==         \* mutant: an interrupt uses up the round
  /\ at = "isr"
  /\ ~InCall(Clock)
  /\ at' = "scan"
  /\ Ended(Clock)
  /\ UNCHANGED <<ringVars, tableVars, startVars, signalVars, callVars, slot,
                 fired>>

IsrReturns ==
  /\ at = "isr"
  /\ ~InCall(Clock)
  /\ at' = "drain"
  /\ Ended(Clock)
  /\ UNCHANGED <<ringVars, tableVars, startVars, signalVars, callVars, slot,
                 fired>>

\* kernel_drain_dpcs: take one entry under the lock, its flag cleared first.
\* (An entry left behind is never read again: it is modelled as empty.)
DrainOne ==
  /\ at = "drain"
  /\ head # tail
  /\ head' = After(head)
  /\ ring' = [ring EXCEPT ![head] = NoDpc]
  /\ IF ring[head] = NoDpc
     THEN UNCHANGED <<inserted, at, budget>>
     ELSE /\ inserted' = [inserted EXCEPT ![ring[head]] = FALSE]
          /\ at' = "dpc"
          /\ Fresh(Clock)
  /\ UNCHANGED <<tail, tableVars, startVars, signalVars, callVars, slot, fired>>

DpcReturns ==
  /\ at = "dpc"
  /\ ~InCall(Clock)
  /\ at' = "drain"
  /\ Ended(Clock)
  /\ UNCHANGED <<ringVars, tableVars, startVars, signalVars, callVars, slot,
                 fired>>

DrainDone ==
  /\ at = "drain"
  /\ head = tail
  /\ at' = "scan"
  /\ UNCHANGED <<ringVars, tableVars, startVars, signalVars, callVars, budget,
                 slot, fired>>

\* On to the next slot, or back to sleep after the last.
LastSlot_Short == TableSize - 1      \* mutant: the last slot never looked at
LastSlot == TableSize

NextSlot ==
  IF slot < LastSlot
  THEN at' = "scan" /\ slot' = slot + 1
  ELSE at' = "sleep" /\ slot' = 1

NotDue ==
  /\ at = "scan"
  /\ table[slot] = NoTimer \/ ~due[slot]
  /\ NextSlot
  /\ UNCHANGED <<ringVars, tableVars, startVars, signalVars, callVars, budget,
                 fired>>

\* A due timer is taken under the lock: a one-shot leaves the table, a
\* periodic one starts its next period.
Expire ==
  /\ at = "scan"
  /\ table[slot] # NoTimer
  /\ due[slot]
  /\ fired' = table[slot]
  /\ due' = [due EXCEPT ![slot] = FALSE]
  /\ table' = [table EXCEPT ![slot] = IF @ \in Periodic THEN @ ELSE NoTimer]
  /\ IF TimerDpc[table[slot]] = NoDpc
     THEN at' = "event" /\ UNCHANGED budget
     ELSE at' = "timerdpc" /\ Fresh(Clock)
  /\ UNCHANGED <<ringVars, startVars, signalVars, callVars, slot>>

TimerDpcReturns ==
  /\ at = "timerdpc"
  /\ ~InCall(Clock)
  /\ at' = "event"
  /\ Ended(Clock)
  /\ UNCHANGED <<ringVars, tableVars, startVars, signalVars, callVars, slot,
                 fired>>

\* The signal, after the DPC and outside the lock: the host event, then the
\* header.
SetShadow ==
  /\ at = "event"
  /\ shadow' = [shadow EXCEPT ![fired] = TRUE]
  /\ at' = "mark"
  /\ UNCHANGED <<ringVars, tableVars, startVars, signal, callVars, budget,
                 slot, fired>>

SetHeader ==
  /\ at = "mark"
  /\ signal' = [signal EXCEPT ![fired] = 1]
  /\ fired' = NoTimer
  /\ NextSlot
  /\ UNCHANGED <<ringVars, tableVars, startVars, shadow, callVars, budget>>

---------------------------------------------------------------------------
(* Devices and time *)

\* ohci_call_isr, on the controller's own thread.
DeviceIsr(x) ==
  /\ x \in Devices
  /\ op[x] = "none"
  /\ op' = [op EXCEPT ![x] = "isr"]
  /\ Fresh(x)
  /\ UNCHANGED <<ringVars, tableVars, startVars, signalVars, arg, clockVars>>

DeviceIsrReturns(x) ==
  /\ x \in Devices
  /\ op[x] = "isr"
  /\ op' = [op EXCEPT ![x] = "none"]
  /\ Ended(x)
  /\ UNCHANGED <<ringVars, tableVars, startVars, signalVars, arg, clockVars>>

FallsDue(i) ==
  /\ table[i] # NoTimer
  /\ ~due[i]
  /\ due' = [due EXCEPT ![i] = TRUE]
  /\ UNCHANGED <<ringVars, table, startVars, signalVars, callVars, budget,
                 clockVars>>

---------------------------------------------------------------------------

Init ==
  /\ ring = [i \in Places |-> NoDpc]
  /\ head = 0
  /\ tail = 0
  /\ inserted = [d \in Dpcs |-> FALSE]
  /\ started = 0
  /\ locks = 0
  /\ clocks = 0
  /\ table = [i \in Slots |-> NoTimer]
  /\ due = [i \in Slots |-> FALSE]
  /\ signal = [v \in Timers |-> 0]
  /\ shadow = [v \in Timers |-> FALSE]
  /\ op = [x \in Executors |-> "none"]
  /\ arg = [x \in Executors |-> NoTimer]
  /\ budget = [x \in Executors |-> 0]
  /\ at = "off"
  /\ slot = 1
  /\ fired = NoTimer

Call(x) ==
  \/ \E d \in Dpcs : Insert(x, d) \/ Remove(x, d)
  \/ \E v \in Timers : SetTimer(x, v) \/ Cancel(x, v)
  \/ \E v \in Timers : WaitOne(x, v) \/ WaitAny(x, v)

Continue(x) ==
  \/ InitLock(x) \/ StartClock(x) \/ Announce(x)
  \/ Arm(x) \/ Unset(x) \/ Clear(x) \/ ResetShadow(x)

ClockStep ==
  \/ Wake \/ IsrReturns \/ DrainOne \/ DpcReturns \/ DrainDone \/ NotDue
  \/ Expire \/ TimerDpcReturns \/ SetShadow \/ SetHeader

Next ==
  \/ \E x \in Executors : Call(x) \/ Continue(x)
  \/ ClockStep
  \/ \E x \in Devices : DeviceIsr(x) \/ DeviceIsrReturns(x)
  \/ \E i \in Slots : FallsDue(i)

\* A kernel call that has begun goes on, and the timer thread keeps going
\* round; a routine makes few calls and returns.
Fairness ==
  /\ \A x \in Executors : WF_vars(Continue(x))
  /\ WF_vars(ClockStep)

Spec == Init /\ [][Next]_vars

FairSpec == Spec /\ Fairness

---------------------------------------------------------------------------
(* Properties *)

TypeOK ==
  /\ ring \in [Places -> Dpcs \cup {NoDpc}]
  /\ head \in Places
  /\ tail \in Places
  /\ inserted \in [Dpcs -> BOOLEAN]
  /\ started \in 0..2
  /\ locks \in Nat
  /\ clocks \in Nat
  /\ table \in [Slots -> Timers \cup {NoTimer}]
  /\ due \in [Slots -> BOOLEAN]
  /\ signal \in [Timers -> 0..1]
  /\ shadow \in [Timers -> BOOLEAN]
  /\ op \in [Executors -> Ops]
  /\ arg \in [Executors -> Timers \cup {NoTimer}]
  /\ budget \in [Executors -> 0..RoutineCalls]
  /\ at \in Ats
  /\ slot \in Slots
  /\ fired \in Timers \cup {NoTimer}

\* The flag in the KDPC and the ring agree: a flagged DPC is in the ring at
\* one place between head and tail, and one that is not flagged at none.
RingExact ==
  \A d \in Dpcs :
    Cardinality({i \in Pending : ring[i] = d}) = IF inserted[d] THEN 1 ELSE 0

\* One timer has one slot: setting it again moves its due time, never adds a
\* second entry that would fire as well.
NoDoubleArm ==
  \A i, j \in Slots : table[i] = table[j] /\ table[i] # NoTimer => i = j

\* Two threads setting the title's first timer start one timer thread, and
\* nobody is at the table before its lock exists or while it is made anew: it
\* is initialised once, the timer thread runs only after that, and the word
\* that lets the others to the table is written only when both are done.
OneClock ==
  /\ locks <= 1
  /\ clocks <= locks
  /\ started = 2 => clocks = 1

\* A timer that is due fires, or is set again or cancelled, as long as the
\* timer thread's drains come to an end.
DueTimerFires ==
  []<>(at = "scan") => \A i \in Slots : due[i] ~> ~due[i]

\* The queue the ring stands for: its entries from head on, no-ops left out.
Entry(d) == {i \in Pending : ring[i] = d}
Before(i, j) == (i - head) % RingSize < (j - head) % RingSize

Queue == INSTANCE DpcQueue WITH
  queued <- {d \in Dpcs : Entry(d) # {}},
  ahead <- {p \in Dpcs \X Dpcs : \E i \in Entry(p[1]), j \in Entry(p[2]) : Before(i, j)},
  running <- at = "dpc"

\* The ring is a queue: whatever threads insert and remove while the timer
\* thread drains, accepted DPCs run in order, none twice and none dropped.
ImplementsQueue == Queue!Spec

\* A queued DPC runs, or is removed.
QueuedRuns == \A d \in Dpcs : inserted[d] ~> ~inserted[d]

\* The same, once the title has set a timer.
QueuedRunsOnceStarted == <>(started = 2) => QueuedRuns

=============================================================================
