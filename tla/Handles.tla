------------------------------- MODULE Handles -------------------------------
(***************************************************************************)
(* A title's handles (src/kernel/kernel_bridge.c over HostObjects): the    *)
(* table of tokens that stand for host handles, what is remembered of each *)
(* token, the directory searches that the file layer keeps by host handle, *)
(* and the Nt calls on them.                                               *)
(*                                                                         *)
(* On this host a duplicate is the same pointer with a count more, and an  *)
(* object's address is used again once it is freed: a token, a kind or a   *)
(* search left behind by one object is met by the next.  Calls drop the    *)
(* guest lock, so the calls of several threads interleave.                 *)
(***************************************************************************)
EXTENDS HostObjects

CONSTANTS
  Tokens,     \* slots of s_handle_table, 1..n
  SearchMax,  \* MAX_DIR_CONTEXTS
  Titles      \* what a title does: see TitleOK

Makes == EventKinds \cup {"timer", "synctimer", "semaphore", "mutant", "file"}

KindOf(make) ==
  CASE make = "timer" -> "manual"
    [] make = "synctimer" -> "auto"
    [] make = "mutant" -> "mutex"
    [] OTHER -> make

Calls == {"close", "duplicate", "ask", "search", "wait", "waitmany", "set", "clear",
          "pulse", "release", "settimer", "canceltimer"}

\* A title's threads, what it makes and how many, how many handles it has at
\* once, its calls, how it duplicates, what it waits for, and how.
TitleOK(x) ==
  /\ x.threads \in SUBSET Threads \ {{}}
  /\ x.makes \subseteq Makes
  /\ x.creations \in Nat
  /\ x.handles \in 1..Cardinality(Tokens)
  /\ x.calls \subseteq Calls
  /\ x.moves \subseteq BOOLEAN
  /\ x.timed \subseteq BOOLEAN
  /\ x.all \subseteq BOOLEAN
  /\ x.periods \subseteq BOOLEAN

ASSUME HandlesAssumption ==
  /\ IsFiniteSet(Tokens) /\ Tokens = 1..Cardinality(Tokens)
  /\ SearchMax \in Nat
  /\ \A x \in Titles : TitleOK(x)

VARIABLES
  title,   \* what the title does; never changes
  table,   \* s_handle_table with s_handle_async and s_handle_kind
  search,  \* s_dir_contexts, by host handle: the serial of the file searched
  made,    \* objects made so far
  mine,    \* the handles the title has
  begun    \* history: the files with a search begun and not ended

handleVars == <<title, table, search, made, mine, begun>>
vars == <<hostVars, handleVars>>

Empty == [object |-> 0, async |-> FALSE, kind |-> "unknown"]

\* A handle: its token, and what the title takes it for.
Handle(i, o, make, async) ==
  [token |-> i, object |-> o, serial |-> object[o].serial, make |-> make, async |-> async]

FreeTokens == {i \in Tokens : table[i].object = 0}
InUse(h) == \E t \in Threads : h \in ToSet(call[t].hs)

\* t is in title code and may make call c.
MayCall(t, c) == t \in title.threads /\ call[t].op = "title" /\ c \in title.calls

\* What a call on an object leaves alone when it changes no handle.
TableStays == UNCHANGED <<table, search, made, mine, begun, title>>

---------------------------------------------------------------------------
(* Tokens *)

\* bridge_handle_token: the slot that has this host handle, else a free one.
Finding(o) ==
  LET has == {i \in Tokens : table[i].object = o}
  IN IF has # {} THEN {Min(has)} ELSE {Min(FreeTokens)}

DuplicateToken_Same(o) == Finding(o)     \* mutant: the source's own token

\* bridge_handle_token_new
DuplicateToken(o) == {Min(FreeTokens)}

\* The allocator gives out the lowest address first, so that one used before
\* is used again as soon as it can be.
FreeAddresses == {o \in Addresses : object[o].kind = "free"}

\* A new object and its token.  Events say what kind they are and files
\* whether they are asynchronous; the others leave what the slot remembers.
Create(t, make, async) ==
  /\ t \in title.threads
  /\ call[t].op = "title"
  /\ made < title.creations
  /\ Cardinality(mine) < title.handles
  /\ FreeTokens # {}
  /\ async => make = "file"
  /\ FreeAddresses # {}
  /\ LET o == Min(FreeAddresses) IN \E i \in Finding(o) :
       LET new == [Object(KindOf(make), made + 1) EXCEPT
                     !.owner = IF make = "mutant" THEN t ELSE NoThread,
                     !.depth = IF make = "mutant" THEN 1 ELSE 0]
       IN /\ object' = [object EXCEPT ![o] = new]
          /\ table' = [table EXCEPT
                ![i].object = o,
                ![i].kind = IF make \in EventKinds THEN make ELSE @,
                ![i].async = IF make = "file" THEN async ELSE @]
          /\ mine' = mine \cup {[Handle(i, o, make, async) EXCEPT !.serial = made + 1]}
  /\ made' = made + 1
  /\ UNCHANGED <<timers, scan, call, pulsed, title, search, begun>>

\* NtDuplicateObject: a count more and a token more, with the source's
\* attributes; moving, the source's count goes, but not its token.
NtDuplicateObject(t, h, move) ==
  /\ MayCall(t, "duplicate")
  /\ FreeTokens # {}
  /\ Cardinality(mine) < title.handles
  /\ ~InUse(h)
  /\ \E i \in DuplicateToken(h.object) :
       LET counted == [object EXCEPT ![h.object].refs = @ + 1]
       IN /\ object' = IF move THEN Released(counted, h.object) ELSE counted
          /\ table' = [table EXCEPT ![i] = [table[h.token] EXCEPT !.object = h.object]]
          /\ mine' = (IF move THEN mine \ {h} ELSE mine) \cup {[h EXCEPT !.token = i]}
  /\ UNCHANGED <<timers, scan, call, pulsed, title, search, made, begun>>

\* NtClose: bridge_take_handle empties the slot, all but its kind,
NtClose(t, h) ==
  /\ MayCall(t, "close")
  /\ ~InUse(h)
  /\ mine' = mine \ {h}
  /\ table' = [table EXCEPT ![h.token].object = 0, ![h.token].async = FALSE]
  /\ call' = [call EXCEPT ![t] = Call("closing", <<h>>)]
  /\ UNCHANGED <<object, timers, scan, pulsed, title, search, made, begun>>

Held_Never(o) == FALSE                   \* mutant: closed, whoever has another

\* bridge_handle_held
Held(o) == \E i \in Tokens : table[i].object = o

\* then the file layer lets go of what it keeps for the host handle, unless
\* another token still has it,
FileClosing(t) ==
  LET o == call[t].hs[1].object
  IN /\ call[t].op = "closing"
     /\ search' = IF Held(o) THEN search ELSE [search EXCEPT ![o] = 0]
     /\ call' = [call EXCEPT ![t].op = "releasing"]
     /\ UNCHANGED <<object, timers, scan, pulsed, title, table, made, mine, begun>>

\* and CloseHandle releases the object; so does CancelWaitableTimer, of the
\* reference of the timer it removed.
Releases(t) ==
  /\ call[t].op \in {"releasing", "cancelled"}
  /\ object' = Released(object, call[t].hs[1].object)
  /\ call' = [call EXCEPT ![t] = InTitle]
  /\ UNCHANGED <<timers, scan, pulsed>>
  /\ TableStays

ObReferenceObjectByHandle_AnyEvent(t, h) ==  \* mutant: every event is asked
  LET x == object[h.object]
      asks == table[h.token].kind # "unknown" /\ Ready(x, t, x.gen)
  IN /\ MayCall(t, "ask")
     /\ object' = IF asks THEN [object EXCEPT ![h.object] = Taken(x, t)] ELSE object
     /\ UNCHANGED <<timers, scan, call, pulsed>>
     /\ TableStays

\* ObReferenceObjectByHandle asks an object that it takes for a thread or a
\* manual event whether it is signalled, with a wait for no time.
ObReferenceObjectByHandle(t, h) ==
  LET x == object[h.object]
      asks == table[h.token].kind = "manual" /\ Ready(x, t, x.gen)
  IN /\ MayCall(t, "ask")
     /\ object' = IF asks THEN [object EXCEPT ![h.object] = Taken(x, t)] ELSE object
     /\ UNCHANGED <<timers, scan, call, pulsed>>
     /\ TableStays

\* NtQueryDirectoryFile: the search of this host handle goes on, or one
\* begins; it gives an entry, or it ends.
Searches == {o \in Addresses : search[o] # 0}

NtQueryDirectoryFile(t, h, restart, ends) ==
  LET o == h.object
      goesOn == search[o] # 0 /\ ~restart
  IN /\ MayCall(t, "search")
     /\ h.make = "file"
     /\ search[o] # 0 \/ Cardinality(Searches) < SearchMax
     /\ search' = [search EXCEPT ![o] = IF ends THEN 0 ELSE IF goesOn THEN @ ELSE h.serial]
     /\ begun' = IF ends THEN begun \ {h.serial} ELSE begun \cup {h.serial}
     /\ UNCHANGED <<hostVars, title, table, made, mine>>

---------------------------------------------------------------------------
(* Calls on objects *)

OnObject == TableStays /\ UNCHANGED <<timers, scan>>

NtWaitForSingleObject(t, h, timed) ==
  /\ MayCall(t, "wait")
  /\ WaitForOne(t, h, timed)
  /\ OnObject

NtWaitForMultipleObjects(t, h, g, all, timed) ==
  /\ MayCall(t, "waitmany")
  /\ WaitForSeveral(t, <<h, g>>, all, timed)
  /\ OnObject

IsEvent(h) == object[h.object].kind \in EventKinds

NtSetEvent(t, h) ==
  MayCall(t, "set") /\ IsEvent(h) /\ SetEvent(h.object) /\ UNCHANGED call /\ OnObject

NtClearEvent(t, h) ==
  MayCall(t, "clear") /\ IsEvent(h) /\ ResetEvent(h.object) /\ UNCHANGED call /\ OnObject

NtPulseEvent(t, h) ==
  MayCall(t, "pulse") /\ IsEvent(h) /\ PulseEvent(h.object) /\ UNCHANGED call /\ OnObject

NtReleaseSemaphore(t, h) ==
  /\ MayCall(t, "release")
  /\ object[h.object].kind = "semaphore"
  /\ ReleaseSemaphore(h.object)
  /\ UNCHANGED call
  /\ OnObject

NtReleaseMutant(t, h) ==
  /\ MayCall(t, "release")
  /\ object[h.object].kind = "mutex"
  /\ ReleaseMutex(t, h.object)
  /\ UNCHANGED call
  /\ OnObject

IsTimer(h) == h.make \in {"timer", "synctimer"}

\* NtSetTimerEx resets the timer, and then arms it.
NtSetTimerEx(t, h, period) ==
  /\ MayCall(t, "settimer")
  /\ IsTimer(h)
  /\ ResetEvent(h.object)
  /\ call' = [call EXCEPT ![t] = [Call("arming", <<h>>) EXCEPT !.period = period]]
  /\ OnObject

Arms(t) ==
  /\ call[t].op = "arming"
  /\ ArmTimer(call[t].hs[1].object, call[t].period)
  /\ call' = [call EXCEPT ![t] = InTitle]
  /\ UNCHANGED <<scan, pulsed>>
  /\ TableStays

NtCancelTimer(t, h) ==
  /\ MayCall(t, "canceltimer")
  /\ IsTimer(h)
  /\ DisarmTimer(h.object)
  /\ call' = IF Armed(h.object) = {} THEN call
             ELSE [call EXCEPT ![t] = Call("cancelled", <<h>>)]
  /\ UNCHANGED <<object, scan, pulsed>>
  /\ TableStays

\* The wait returns, through the guest lock.
WaitReturns(t) ==
  /\ call[t].op = "took"
  /\ call' = [call EXCEPT ![t] = InTitle]
  /\ UNCHANGED <<object, timers, scan, pulsed>>
  /\ TableStays

---------------------------------------------------------------------------

Init ==
  /\ HostInit
  /\ title \in Titles
  /\ table = [i \in Tokens |-> Empty]
  /\ search = [o \in Addresses |-> 0]
  /\ made = 0
  /\ mine = {}
  /\ begun = {}

\* A title waits for no file, and for no mutant it has; for two objects, in
\* one order.  It closes and duplicates no handle that a call is using.
WaitsOn(t, h) ==
  /\ h.make # "file"
  /\ h.make = "mutant" => object[h.object].owner # t

TitleCalls(t) ==
  \/ \E make \in title.makes, async \in BOOLEAN : Create(t, make, async)
  \/ \E h \in mine :
       \/ NtClose(t, h)
       \/ \E move \in title.moves : NtDuplicateObject(t, h, move)
       \/ ObReferenceObjectByHandle(t, h)
       \/ \E restart, ends \in BOOLEAN : NtQueryDirectoryFile(t, h, restart, ends)
       \/ NtSetEvent(t, h)
       \/ NtClearEvent(t, h)
       \/ NtPulseEvent(t, h)
       \/ NtReleaseSemaphore(t, h)
       \/ NtReleaseMutant(t, h)
       \/ \E period \in title.periods : NtSetTimerEx(t, h, period)
       \/ NtCancelTimer(t, h)
       \/ \E timed \in title.timed :
            \/ WaitsOn(t, h) /\ NtWaitForSingleObject(t, h, timed)
            \/ \E g \in mine, all \in title.all :
                 /\ WaitsOn(t, h) /\ WaitsOn(t, g) /\ h.object < g.object
                 /\ NtWaitForMultipleObjects(t, h, g, all, timed)

WaitSteps(t) ==
  /\ \/ WaitIsReleased(t)
     \/ Sample(t)
     \/ Poll(t)
     \/ RoundEnds(t)
  /\ UNCHANGED handleVars

CallSteps(t) == FileClosing(t) \/ Releases(t) \/ Arms(t) \/ WaitReturns(t)

Timing ==
  /\ \/ \E o \in Addresses : Due(o)
     \/ ServiceWakes
     \/ ServiceSteps
     \/ \E t \in Threads : SleepTimesOut(t)
  /\ UNCHANGED handleVars

Next ==
  \/ \E t \in Threads : TitleCalls(t) \/ WaitSteps(t) \/ CallSteps(t)
  \/ Timing

Spec == Init /\ [][Next]_vars

\* A call that is under way goes on, time passes, and the service thread wakes
\* when a timer is due and goes through its scan.  The title need call
\* nothing.
SomeDue == \E i \in DOMAIN timers : timers[i].due

ServiceRuns == (SomeDue /\ ServiceWakes) \/ ServiceSteps

Fairness ==
  /\ \A t \in Threads : WF_vars(WaitSteps(t) \/ CallSteps(t))
  /\ \A o \in Addresses : WF_vars(Due(o) /\ UNCHANGED handleVars)
  /\ WF_vars(ServiceRuns /\ UNCHANGED handleVars)

FairSpec == Spec /\ Fairness

---------------------------------------------------------------------------
(* Properties *)

ObjectType ==
  [kind : Kinds \cup {"free"}, serial : Nat, refs : Nat, signaled : BOOLEAN,
   gen : 0..PulsesMax, pulse : BOOLEAN, count : 0..SemaphoreMax,
   owner : Threads \cup {NoThread}, depth : Nat]

HandleType ==
  [token : Tokens, object : Addresses, serial : Nat, make : Makes, async : BOOLEAN]

CallType ==
  [op : {"title", "took", "sleep", "sample", "poll", "closing", "releasing",
         "cancelled", "arming"},
   hs : Seq(HandleType), gens : Seq(0..PulsesMax), at : Nat, got : Nat,
   all : BOOLEAN, timed : BOOLEAN, period : BOOLEAN]

\* The type of the state; a semaphore is never above its maximum, and the
\* timer thread looks at timers only while it is in its scan.
TypeOK ==
  /\ title \in Titles
  /\ object \in [Addresses -> ObjectType]
  /\ timers \in Seq([object : Addresses, due : BOOLEAN, period : BOOLEAN])
  /\ Len(timers) <= TimersMax
  /\ scan \in 0..TimersMax + 1
  /\ call \in [Threads -> CallType]
  /\ pulsed \subseteq Threads \X Addresses
  /\ table \in [Tokens -> [object : Addresses \cup {0}, async : BOOLEAN,
                           kind : EventKinds \cup {"unknown"}]]
  /\ search \in [Addresses -> Nat]
  /\ mine \subseteq HandleType
  /\ begun \subseteq 1..made

\* What counts on the object at o: the title's handles, an armed timer, and
\* the calls that have yet to release it.
Counted(o) ==
  Cardinality({h \in mine : h.object = o}) + Cardinality(Armed(o)) +
  Cardinality({t \in Threads : call[t].op \in {"closing", "releasing", "cancelled"}
                                 /\ call[t].hs[1].object = o})

\* An object lives exactly as long as a handle, an armed timer or a call needs
\* it, whoever closes, duplicates, arms or cancels at the same time; and each
\* handle the title has names its own object, with the attributes it was
\* opened with, in a slot no other handle has ("each close releases one").
HandlesExact ==
  /\ \A o \in Addresses : object[o].refs = Counted(o)
  /\ \A h \in mine :
       /\ table[h.token].object = h.object
       /\ object[h.object].serial = h.serial
       /\ h.make = "file" => table[h.token].async = h.async
       /\ h.make \in EventKinds => table[h.token].kind = h.make
  /\ \A h, g \in mine : h.token = g.token => h = g

\* A directory search belongs to the file it was begun on: it outlives the
\* handle it was begun with while a duplicate has the file, and is never met
\* by the file that is opened next at the same address ("an abandoned
\* directory search [...] would otherwise outlive the handle and answer for
\* the next one opened at the same value").
SearchFollows ==
  /\ \A h \in mine : search[h.object] \in {0, h.serial}
  /\ \A h \in mine : h.serial \in begun => search[h.object] = h.serial

\* What can be taken from an object once.
Units(x) ==
  CASE x.kind = "auto" -> Cardinality({b \in {"signal", "pulse"} :
                            IF b = "signal" THEN x.signaled ELSE x.pulse})
    [] x.kind = "semaphore" -> x.count
    [] x.kind = "mutex" -> IF x.owner = NoThread THEN 1 ELSE 0
    [] OTHER -> 0

Clears ==
  \E t \in Threads, h \in mine :
    \/ NtClearEvent(t, h)
    \/ NtPulseEvent(t, h)
    \/ \E period \in BOOLEAN : NtSetTimerEx(t, h, period)

\* A wait for all has o, and goes on to the next of its round.
Gathers(o) ==
  \E t \in Threads :
    /\ call[t].op = "poll"
    /\ call[t].all
    /\ call[t].at <= Len(call[t].hs)
    /\ call[t].hs[call[t].at].object = o
    /\ call'[t].got = call[t].got + 1

\* An ask by a handle that says nothing of its kind: its slot may remember that
\* of a handle before it.
AsksUntold(o) ==
  \E t \in Threads, h \in mine :
    h.object = o /\ h.make \notin EventKinds /\ ObReferenceObjectByHandle(t, h)

\* A signal that is taken is reported: what is taken from an object is taken by
\* a wait that returns with that object, or by a wait for all that counts it in
\* its round, so that no set, release or expiry is lost to a look that comes to
\* nothing.  In particular no ask takes the signal of an automatic event,
\* whatever was in its slot before.  Only of what has no kind of its own may an
\* ask take (AskTakesNothing).
TakenIsReported ==
  [][\A o \in Addresses :
       /\ object'[o].serial = object[o].serial
       /\ Units(object'[o]) < Units(object[o])
       => \/ Clears
          \/ \E t \in Threads :
               /\ call'[t].op = "took"
               /\ call'[t] # call[t]
               /\ call'[t].hs[1].object = o
          \/ Gathers(o)
          \/ AsksUntold(o)]_vars

\* Asking whether an object is signalled takes nothing from it ("Asking the
\* wrong kind consumes the very signal the guest is waiting for, so the kind is
\* recorded where the object is created [...].  Unknown means do not ask").
AskTakesNothing ==
  [][\A t \in Threads, h \in mine :
       ObReferenceObjectByHandle(t, h)
         => ~(Units(object'[h.object]) < Units(object[h.object]))]_vars

\* A pulse releases the threads that wait when it comes - every one for a
\* manual event, one for an automatic one - although they look at the event
\* only after it is clear again ("a waiter that began before it is released").
PulseReleases ==
  /\ \A t \in Threads, o \in Addresses :
       (<<t, o>> \in pulsed /\ object[o].kind = "manual") ~> <<t, o>> \notin pulsed
  /\ \A o \in Addresses :
       (\E t \in Threads : <<t, o>> \in pulsed)
         ~> ~(\E t \in Threads : <<t, o>> \in pulsed)

\* An object the title has closed is freed, though a timer that comes due
\* again and again is armed on it.
ClosedIsFreed ==
  \A o \in Addresses :
    (object[o].kind # "free" /\ ~\E h \in mine : h.object = o)
      ~> object[o].kind = "free"

=============================================================================
