---------------------------- MODULE GuestEvents ----------------------------
(***************************************************************************)
(* Events a title builds in its own memory, as src/kernel/kernel_bridge.c  *)
(* waits for them: a DISPATCHER_HEADER whose SignalState every waiter      *)
(* polls, with no queue of waiters behind it.                              *)
(*                                                                         *)
(*   - A notification event also has a generation, bumped by every set and *)
(*     pulse after it has written SignalState; a single wait returns when  *)
(*     the generation moves, whatever SignalState says by then.            *)
(*   - A synchronisation event is consumed by compare-and-swap, so that    *)
(*     one of its waiters has it.                                          *)
(*   - A multiple wait looks at its objects in order and uses no           *)
(*     generation; a wait for all checks them first and consumes after.    *)
(*   - KeResetEvent reaches the host event made by KeInitializeEvent,      *)
(*     which no wait on a guest event uses.                                *)
(*                                                                         *)
(* A wait's timeout is open: it may run out at any look.                   *)
(***************************************************************************)
EXTENDS Integers, Sequences

CONSTANTS
  Threads,      \* title threads, and threads that run DPCs and completions
  Events,
  SyncEvents,   \* those of type SynchronizationEvent
  Tracked,      \* those that found a slot among the EVENT_GEN_SLOTS
  Cleared,      \* those the title pulses, or clears itself
  Renewed,      \* those it initialises again, between uses
  OneWaits,     \* for each thread: the events it waits on one by one,
  AnyWaits,     \*   the lists it waits on for any object,
  AllWaits,     \*   and the lists it waits on for all of them
  Limits        \* the kinds of timeout the title gives

Poll    == "poll"
Timed   == "timed"
Forever == "forever"

ASSUME GuestEventsAssumption ==
  /\ SyncEvents \subseteq Events
  /\ Tracked \cup Cleared \cup Renewed \subseteq Events
  /\ OneWaits \in [Threads -> SUBSET Events]
  /\ \A t \in Threads :
       \A objs \in AnyWaits[t] \cup AllWaits[t] :
         objs \in Seq(Events) /\ objs # << >>
  /\ Limits \subseteq {Poll, Timed, Forever}

VARIABLES
  state,   \* SignalState
  host,    \* the host event behind the same KEVENT is set
  pc,      \* where each thread is in its kernel call
  kind,    \* "one", "any" or "all"
  objs,    \* the objects the call is about
  idx,     \* i of the scan
  limit,   \* the wait's timeout
  moved,   \* the generation is not gen0 any more
  result,  \* what the last wait returned
  lit,     \* history: the wait's objects that were signalled during it
  tokens   \* history: sets of each event not yet consumed or cleared

eventVars == <<state, host, tokens>>
waitVars  == <<kind, objs, idx, limit, moved, result, lit>>
vars == <<eventVars, pc, waitVars>>

Pcs == {"idle", "waking", "look", "take", "generation", "clock", "scan",
        "taking"}

Range(s) == {s[i] : i \in DOMAIN s}

Waiting(t) == pc[t] \notin {"idle", "waking"}
Waits(t, e) == Waiting(t) /\ e \in Range(objs[t])

\* A set or a pulse of e has written the word and not yet the generation.
BeingSet(e) == \E u \in Threads : pc[u] = "waking" /\ objs[u][1] = e

\* Waiters of a notification event see its generation move.
HasGeneration(e) == e \in Tracked \ SyncEvents

Goto(t, there) == pc' = [pc EXCEPT ![t] = there]

---------------------------------------------------------------------------
(* Setting and clearing *)

\* A call that is to wake the waiters of e next: e is signalled, if only for
\* a moment, while they wait.
Wakes(t, e) ==
  /\ Goto(t, "waking")
  /\ kind' = [kind EXCEPT ![t] = "one"]
  /\ objs' = [objs EXCEPT ![t] = <<e>>]
  /\ result' = [result EXCEPT ![t] = "none"]
  /\ lit' = [u \in Threads |-> IF u = t THEN {}
                             ELSE IF Waits(u, e) THEN lit[u] \cup {e}
                             ELSE lit[u]]
  /\ UNCHANGED <<idx, limit, moved>>

\* KeSetEvent, and a completion's xbox_bridge_set_guest_event: the word first
\* and the generation after it.
Set(t, e) ==
  /\ pc[t] = "idle"
  /\ state' = [state EXCEPT ![e] = 1]
  /\ tokens' = [tokens EXCEPT ![e] = IF state[e] = 0 THEN @ + 1 ELSE @]
  /\ Wakes(t, e)
  /\ UNCHANGED host

\* KePulseEvent
Pulse(t, e) ==
  /\ pc[t] = "idle"
  /\ e \in Cleared
  /\ state' = [state EXCEPT ![e] = 0]
  /\ tokens' = [tokens EXCEPT ![e] = IF state[e] = 1 THEN @ - 1 ELSE @]
  /\ Wakes(t, e)
  /\ UNCHANGED host

\* event_wake_waiters
Wake_Nobody(t) ==                \* mutant: the set alone, no generation
  /\ pc[t] = "waking"
  /\ Goto(t, "idle")
  /\ objs' = [objs EXCEPT ![t] = << >>]
  /\ UNCHANGED <<eventVars, kind, idx, limit, moved, result, lit>>

Wake_Slot(t) ==                  \* mutant: one slot for every event
  /\ pc[t] = "waking"
  /\ Goto(t, "idle")
  /\ moved' = [u \in Threads |-> moved[u] \/ Waiting(u)]
  /\ objs' = [objs EXCEPT ![t] = << >>]
  /\ UNCHANGED <<eventVars, kind, idx, limit, result, lit>>

Wake(t) ==
  /\ pc[t] = "waking"
  /\ Goto(t, "idle")
  /\ moved' = [u \in Threads |->
       moved[u] \/ (HasGeneration(objs[t][1]) /\ Waits(u, objs[t][1]))]
  /\ objs' = [objs EXCEPT ![t] = << >>]
  /\ UNCHANGED <<eventVars, kind, idx, limit, result, lit>>

\* KeResetEvent: the host event, not the word.
Reset(t, e) ==
  /\ pc[t] = "idle"
  /\ host' = [host EXCEPT ![e] = FALSE]
  /\ UNCHANGED <<state, tokens, pc, waitVars>>

\* Title code that clears SignalState itself (D3DDevice_BlockUntil-
\* VerticalBlank does), without a kernel call.
Clear(t, e) ==
  /\ pc[t] = "idle"
  /\ e \in Cleared
  /\ state' = [state EXCEPT ![e] = 0]
  /\ tokens' = [tokens EXCEPT ![e] = IF state[e] = 1 THEN @ - 1 ELSE @]
  /\ UNCHANGED <<host, pc, waitVars>>

\* KeInitializeEvent, of an event nobody is using.
Initialize(t, e, s) ==
  /\ pc[t] = "idle"
  /\ e \in Renewed
  /\ \A u \in Threads : pc[u] = "idle" \/ e \notin Range(objs[u])
  /\ state' = [state EXCEPT ![e] = s]
  /\ host' = [host EXCEPT ![e] = s = 1]
  /\ tokens' = [tokens EXCEPT ![e] = s]
  /\ UNCHANGED <<pc, waitVars>>

---------------------------------------------------------------------------
(* Waiting *)

\* A wait begins: it has gen0, the generation of this moment.
Begin(t, k, list, lim) ==
  /\ pc[t] = "idle"
  /\ Goto(t, IF k = "one" THEN "look" ELSE "scan")
  /\ kind' = [kind EXCEPT ![t] = k]
  /\ objs' = [objs EXCEPT ![t] = list]
  /\ idx' = [idx EXCEPT ![t] = 1]
  /\ limit' = [limit EXCEPT ![t] = lim]
  /\ moved' = [moved EXCEPT ![t] = FALSE]
  /\ result' = [result EXCEPT ![t] = "none"]
  /\ lit' = [lit EXCEPT ![t] =
       {e \in Range(list) :
          \/ state[e] = 1
          \/ BeingSet(e)}]
  /\ UNCHANGED eventVars

\* The wait returns; its locals are gone.
Returns(t, r) ==
  /\ Goto(t, "idle")
  /\ result' = [result EXCEPT ![t] = r]
  /\ idx' = [idx EXCEPT ![t] = 1]
  /\ limit' = [limit EXCEPT ![t] = Forever]
  /\ moved' = [moved EXCEPT ![t] = FALSE]
  /\ UNCHANGED <<kind, objs, lit>>

\* The object looked at now.
Obj(t) == objs[t][idx[t]]

\* bridge_wait_guest_event: SignalState first,
Look(t) ==
  /\ pc[t] = "look"
  /\ IF state[Obj(t)] = 1
     THEN IF Obj(t) \in SyncEvents
          THEN Goto(t, "take") /\ UNCHANGED waitVars
          ELSE Returns(t, "success")
     ELSE /\ Goto(t, IF HasGeneration(Obj(t)) THEN "generation" ELSE "clock")
          /\ UNCHANGED waitVars
  /\ UNCHANGED eventVars

\* taken by compare-and-swap, or looked at again if another waiter has it,
Take_Store(t) ==                 \* mutant: a plain store
  /\ pc[t] = "take"
  /\ state' = [state EXCEPT ![Obj(t)] = 0]
  /\ tokens' = [tokens EXCEPT ![Obj(t)] = @ - 1]
  /\ Returns(t, "success")
  /\ UNCHANGED host

Take(t) ==
  /\ pc[t] = "take"
  /\ IF state[Obj(t)] = 1
     THEN /\ state' = [state EXCEPT ![Obj(t)] = 0]
          /\ tokens' = [tokens EXCEPT ![Obj(t)] = @ - 1]
          /\ Returns(t, "success")
     ELSE /\ Goto(t, "look")
          /\ UNCHANGED <<state, tokens, waitVars>>
  /\ UNCHANGED host

\* then the generation,
Generation(t) ==
  /\ pc[t] = "generation"
  /\ IF moved[t]
     THEN Returns(t, "success")
     ELSE Goto(t, "clock") /\ UNCHANGED waitVars
  /\ UNCHANGED eventVars

\* then the clock; a sleep ends after 1 ms at the latest.
TimesOut(t) ==
  /\ pc[t] = "clock"
  /\ limit[t] # Forever
  /\ Returns(t, "timeout")
  /\ UNCHANGED eventVars

LooksAgain(t) ==
  /\ pc[t] = "clock"
  /\ limit[t] # Poll
  /\ Goto(t, IF kind[t] = "one" THEN "look" ELSE "scan")
  /\ UNCHANGED <<eventVars, waitVars>>

\* bridge_wait_guest_events
Last_Past(t) == idx[t] > Len(objs[t])     \* mutant: one too far
Last(t) == idx[t] = Len(objs[t])
Advance(t) == idx' = [idx EXCEPT ![t] = @ + 1]
Rewind(t)  == idx' = [idx EXCEPT ![t] = 1]

Consume(e) ==
  /\ state' = IF e \in SyncEvents THEN [state EXCEPT ![e] = 0] ELSE state
  /\ tokens' = IF e \in SyncEvents THEN [tokens EXCEPT ![e] = @ - 1] ELSE tokens
  /\ UNCHANGED host

ScanAny(t) ==
  /\ pc[t] = "scan"
  /\ kind[t] = "any"
  /\ \/ /\ state[Obj(t)] = 1
        /\ Consume(Obj(t))
        /\ Returns(t, "success")
     \/ /\ state[Obj(t)] = 0
        /\ IF Last(t) THEN Rewind(t) /\ Goto(t, "clock")
                      ELSE Advance(t) /\ UNCHANGED pc
        /\ UNCHANGED <<eventVars, kind, objs, limit, moved, result, lit>>

ScanAll_First(t) ==              \* mutant: returns at the first one signalled
  /\ pc[t] = "scan"
  /\ kind[t] = "all"
  /\ IF state[Obj(t)] = 1
     THEN Rewind(t) /\ Goto(t, "taking")
     ELSE Rewind(t) /\ Goto(t, "clock")
  /\ UNCHANGED <<eventVars, kind, objs, limit, moved, result, lit>>

ScanAll(t) ==
  /\ pc[t] = "scan"
  /\ kind[t] = "all"
  /\ IF state[Obj(t)] = 1
     THEN IF Last(t) THEN Rewind(t) /\ Goto(t, "taking")
                     ELSE Advance(t) /\ UNCHANGED pc
     ELSE Rewind(t) /\ Goto(t, "clock")
  /\ UNCHANGED <<eventVars, kind, objs, limit, moved, result, lit>>

TakeAll(t) ==
  /\ pc[t] = "taking"
  /\ Consume(Obj(t))
  /\ IF Last(t)
     THEN Returns(t, "success")
     ELSE /\ Advance(t)
          /\ UNCHANGED <<pc, kind, objs, limit, moved, result, lit>>

---------------------------------------------------------------------------

Init ==
  /\ state = [e \in Events |-> 0]
  /\ host = [e \in Events |-> FALSE]
  /\ tokens = [e \in Events |-> 0]
  /\ pc = [t \in Threads |-> "idle"]
  /\ kind = [t \in Threads |-> "one"]
  /\ objs = [t \in Threads |-> << >>]
  /\ idx = [t \in Threads |-> 1]
  /\ limit = [t \in Threads |-> Forever]
  /\ moved = [t \in Threads |-> FALSE]
  /\ result = [t \in Threads |-> "none"]
  /\ lit = [t \in Threads |-> {}]

Begins(t) ==
  \E lim \in Limits :
    \/ \E e \in OneWaits[t] : Begin(t, "one", <<e>>, lim)
    \/ \E list \in AnyWaits[t] : Begin(t, "any", list, lim)
    \/ \E list \in AllWaits[t] : Begin(t, "all", list, lim)

Call(t) ==
  \E e \in Events :
    \/ Set(t, e) \/ Pulse(t, e) \/ Reset(t, e) \/ Clear(t, e)
    \/ \E s \in 0..1 : Initialize(t, e, s)

Continue(t) ==
  \/ Wake(t) \/ Look(t) \/ Take(t) \/ Generation(t) \/ TimesOut(t)
  \/ LooksAgain(t) \/ ScanAny(t) \/ ScanAll(t) \/ TakeAll(t)

Next == \E t \in Threads : Begins(t) \/ Call(t) \/ Continue(t)

Spec == Init /\ [][Next]_vars

\* The host schedules every thread that is inside a kernel call.
FairSpec == Spec /\ \A t \in Threads : WF_vars(Continue(t))

---------------------------------------------------------------------------
(* What a title must keep to *)

\* A wait for all checks its objects and consumes them later, without looking
\* again. So one set is one wait only if a synchronisation event that a thread
\* waits for in such a list is that thread's alone, is there once, and is
\* neither pulsed nor cleared by the title.
AllAlone ==
  \A t \in Threads : \A list \in AllWaits[t] : \A i \in 1..Len(list) :
    list[i] \in SyncEvents =>
      /\ list[i] \notin Cleared
      /\ \A j \in 1..Len(list) : list[j] = list[i] => j = i
      /\ \A u \in Threads \ {t} :
           /\ list[i] \notin OneWaits[u]
           /\ \A other \in AnyWaits[u] \cup AllWaits[u] : list[i] \notin Range(other)

---------------------------------------------------------------------------
(* Properties *)

TypeOK ==
  /\ state \in [Events -> 0..1]
  /\ host \in [Events -> BOOLEAN]
  /\ tokens \in [Events -> Int]
  /\ pc \in [Threads -> Pcs]
  /\ kind \in [Threads -> {"one", "any", "all"}]
  /\ objs \in [Threads -> Seq(Events)]
  /\ \A t \in Threads : pc[t] # "idle" => idx[t] \in 1..Len(objs[t])
  /\ limit \in [Threads -> {Poll, Timed, Forever}]
  /\ moved \in [Threads -> BOOLEAN]
  /\ result \in [Threads -> {"none", "success", "timeout"}]
  /\ lit \in [Threads -> SUBSET Events]

\* One set of a synchronisation event releases one wait at most: however
\* single and multiple waits race for it, no wait returns on a signal that
\* another has consumed.
OneSetOneWaiter == \A e \in Events : tokens[e] = state[e]

\* A wait succeeds for a reason of its own: an object of it (all of them, in
\* a wait for all) was signalled, or being set, at some moment of that wait
\* and not only before it.
SuccessHasItsSet ==
  \A t \in Threads :
    result[t] = "success" =>
      /\ lit[t] # {}
      /\ kind[t] = "all" => lit[t] = Range(objs[t])

\* A set or a pulse of a notification event reaches every thread that is in a
\* single wait for it by then, also one that finds the word clear again when
\* it looks: the wait returns.
NotificationReaches ==
  \A t \in Threads, e \in Tracked \ SyncEvents :
    (Waits(t, e) /\ kind[t] = "one" /\ BeingSet(e))  ~> ~Waits(t, e)

=============================================================================
