# Specifications of the recompiled runtime

xboxrecomp translates an original-Xbox title into C and links it with a runtime
that stands in for the console's kernel and devices. The translated ("lifted")
code was written for one processor with strict priorities. The runtime runs it
on host threads, so its scheduler, its deferred work and its events are where a
mistake hides for months: a title hangs once in twenty runs and nothing points
at the cause. These modules specify that part of the runtime, and three parts
around it where several actors meet the same state: the handles a title holds over
the host's objects, the sound streams, and the TCP relay of the virtual network.

Paths below are relative to the repository. Comments in the modules name the
functions; `PROJECT.json` gives each definition its lines.

## The system

| Component | State | Operations | What is hard | Module |
|---|---|---|---|---|
| Guest lock (`xbox_memory_layout.c` 1063-2039, dispatcher of `kernel_bridge.c` 11350-11640) | the recursive mutex, its depth per thread, waiters per priority, reservation, a record per thread (suspend count, park request) | drop and restore around kernel calls, callbacks, back edges, suspend, resume, priority, interrupt entry | every thread, at every step | `GuestLock` |
| DPC queue, timers, timer thread (`kernel_bridge.c` 2820-3796) | DPC ring, Inserted flags, timer table, two signal words per timer | KeInsertQueueDpc, KeRemoveQueueDpc, KeSetTimer(Ex), KeCancelTimer, drain, scan | calls made while the timer thread is in the middle of its round, also by the routines it runs | `Dispatch`, `DpcQueue` |
| Guest events (`kernel_bridge.c` 1840-2153, 8819-8998) | SignalState in title memory, a generation per event, a shadow host event | initialise, set, pulse, reset, single wait, wait for any, wait for all | polling waiters and two-step sets | `GuestEvents` |
| Handles (`kernel_bridge.c` 3893-4090, 5690-5800, 7120-7165; `kernel_sync.c`, directory searches of `kernel_file.c`) | a table of tokens with the host object behind each, an async bit and an event kind per token, directory searches by host handle | open, duplicate, close, search, the Nt calls on events, semaphores, mutants and timers | slots and addresses are used again at once, calls run beside each other | `Handles` |
| POSIX host objects (`src/platform/win32_compat.c`) | reference-counted objects, pulse generations, the table of armed timers | single waits, polling waits for any and all, set, pulse, release, arm, cancel, the timer service | a wait for several looks at its objects one by one; a timer holds its object | `HostObjects` |
| DirectSound streams (`src/hle/hle_dsound_stream.c`, host voices of `audio_output_sdl.c`) | a ring of packets and a clock per stream, the voice it has, what the host has queued and played | process, flush, pause, synch, status, create, release, the service thread, completion callbacks | callbacks call back in in the middle of the loops; the host's position and the wall clock disagree; voices move | `DsStream` |
| TCP relay (`xbox_net_nat.c` 714-1100, 1228-1324) | a table of connections, buffers each way, sequence numbers, two queues of frames | open, segment in, pump, flush, service, time out | both queues drop; the console says things again; the far side refuses or breaks off | `NatTcp`, `NatPeers`, `Relay` |
| File completion and APCs (`kernel_bridge.c` 2176-2229, 4508-4532) | a ring of 64 routines per thread | queue, drain at an alertable wait, run inline | a full ring | not modelled: one thread's own array |
| Ke shadow table (`kernel_bridge.c` 8071-8178) | 4096 slots | find or make | first use by two threads, a full table | not modelled |
| IRQL and interrupt delivery (`kernel_hal.c`, `src/usb/ohci.c`) | IRQL per thread, count of raised threads | raise, lower, deliver | a raise that nothing undoes | in part: devices of `Dispatch` |
| Flip gate (`xbox_memory_layout.c` 648-1060) | host event, vblank count | arm, release, time-out | a release between check and sleep | planned |
| Rest of the virtual network (`xbox_nic.c`, UDP, DHCP, DNS, fragments, `xbox_net_udp.c`) | sessions, card rings | send, receive, expire | datagrams may be lost anyway | not modelled |
| Graphics, audio processing, video decoding, input, launcher, replay | host resources | translation | arithmetic and data, little ordering | not modelled |
| Recompiler (`tools/`) | none at run time | Python programs, file to file | sequential | not modelled |

How they meet. A title's thread runs lifted code with the guest lock held; every
kernel call goes through `kernel_thunk_dispatch`, which drops the lock, runs the
call and takes the lock back. A call that blocks (a wait on a guest event, say)
therefore never holds it. The timer thread is a host thread: to run an ISR or a
DPC it enters the guest lock with a bound and goes ahead without it if the bound
passes. A DPC or a file completion sets guest events and timers' signals, which
the title's threads poll in their waits. What a title holds by handle (an event, a
timer, a file) is a token for a host object; those waits are the host's. The
service thread of the sound streams is a host thread too, but it needs the streams'
lock only and leaves a stream with a callback to the title's own calls. The
network router is a thread by itself: a frame from the card reaches it
through a queue, and the timer thread takes its frames for the card from another.

What makes each correct, in words:

- *Guest lock*: one thread runs lifted code; no thread blocks with the lock; a
  call that cannot block is not a reschedule; a free lock goes to the highest
  waiter; equals take turns; a suspend is neither lost nor left unanswered.
- *Deferred work*: a DPC is queued once, runs once and in order; a timer has one
  slot and fires when due; one timer thread.
- *Guest events*: one set of a synchronisation event releases one wait; a set of a
  notification event releases everyone who waits by then; no wait succeeds on an
  old signal.
- *Handles and host objects*: an object lives exactly as long as something needs it
  and a handle names its own object; what a look takes from an object is reported
  by the wait that looked; a pulse reaches those who wait when it comes.
- *Sound streams*: a packet the title was told is pending completes once, not before
  it is heard, and completes at all; a stream's position is that of its voice.
- *TCP relay*: bytes come out once and in order, and an end behind all of them;
  nothing acknowledged is dropped, nothing is sent that has no room; what the far
  side has said and ended arrives.

## Modules

| Module | What it is |
|---|---|
| `GuestLock` | the scheduler; safety, action and liveness properties |
| `GuestLockProofs` | the inductive invariant and the theorems on turns and levels |
| `GuestLockTurns` | suspends, blocking, reservations, the counters of waiters and what a free lock does: invariants and theorems on top of it |
| `MCGuestLock` | priorities of the instances TLC checks |
| `DpcQueue` | what the DPC ring promises: a queue without duplicates, one of which runs at a time |
| `Dispatch` | the ring, the timers and the timer thread; implements `DpcQueue` |
| `DispatchProofs` | the inductive invariant of `Dispatch` and its theorems |
| `MCDispatch` | the DPC each instance's timer is set with |
| `GuestEvents` | events in title memory and the waits that poll them |
| `GuestEventsProofs` | the inductive invariant of `GuestEvents` and its theorems |
| `MCGuestEvents` | who waits for what in the instance |
| `HostObjects` | the Win32 objects of the POSIX build, their waits, the timer service |
| `Handles` | tokens over `HostObjects` (which it extends), duplicates, searches, the Nt calls |
| `HandlesProofs` | the inductive invariant of `Handles` over `HostObjects` and its theorems |
| `MCHandles` | what the titles of the instance do with handles |
| `DsStream` | sound streams, their packets, voices, callbacks and the service thread |
| `DsStreamProofs` | the inductive invariant of `DsStream` and its theorems |
| `MCDsStream` | the streams and titles of the instances |
| `NatPeers` | the two sides the router meets: the console's TCP and title, this PC's sockets and far side |
| `Relay` | what the relay promises: two byte pipes per connection |
| `NatTcp` | the router's thread, connections and timers between those sides; implements `Relay` |
| `NatTcpProofs` | the types of `NatTcp`, what it has acknowledged, and the theorems on them |
| `NatRelayProofs` | where both streams are, on top of it: what fits the window, and that `NatTcp` implements `Relay` |
| `MCNatTcp` | how much each side has to say in the instances |

### GuestLock

`pc[t]` is the place of thread t: in lifted code, inside a kernel call, waiting
for the mutex (`trying`), holding it but not yet sure of it (`probe`), standing
aside for a reservation, parked, halted by its own suspend, gone; a worker whose host
thread is made and has not run yet is `born`. `goal[t]` says
what an entry is for: the start of the routine, a plain restore, a turn taken back
after a prompt call, a callback. `calls[t]` is the stack of kernel calls t is
inside, each with the levels it gave up (`held` of `kernel_thunk_dispatch`), as a
kernel call may call back into lifted code that makes kernel calls. `owner` and
`depth` are `g_guest_cs` and `g_guest_depth`; `waiters`, `waitingAt` and
`resv` are the variables of nearly the same names, and `ran[t]` is `g_guest_takes` less what it was
at the thread's last drop; `suspend`, `req`, `woken` are
the fields of `guest_rec`.

One action stands for what happens between two points where another thread can
interfere: `KernelCall` is the whole drop, `RestoreReserved` the decision at a
prompt call's return, `Entry`, `TryOk`, `TryFail`, `StandAside`, `Take` the steps
of `guest_cs_enter_ex`. A thread is started in two: `Spawn` makes the host thread, and `Begin`
registers it and asks for the lock, at any later moment or never, so that a thread created
suspended is one that has not begun. The interlocked counters are exact; the plain fields
the code reads outside a lock (`s_gl_wait_since`, `g_guest_takes`) are read in the
step that uses them.

Abstractions: time is three actions, `Tick` (a quantum, or with `MaxAge = 2` the
starvation bound of the holder, is up), `Starve` (a waiter has waited past that
bound) and `Lapse` (a reservation outlasts RECOMP_GUEST_RESERVE_US).
`LapsesAt` names the places where the owner may be when it lapses. A handoff wait
gives up at any moment if `SlowWake`. Priorities are compared, never added up, so
two or three levels suffice. The lock is on: RECOMP_GUEST_LOCK=0 has no scheduler.
The call counter in front of a back edge's slow path and the profile counters are
left out. The pieces of the mutex that are the host's (who of several equal
waiters gets it) are free.

### Dispatch and DpcQueue

An executor is whoever runs lifted code: a title thread, a device's thread
(`ohci_call_isr` runs the title's ISR on a thread of its own) or the timer thread
inside an ISR or DPC. Each makes any kernel calls it likes, at most `RoutineCalls`
in one routine of the timer thread. `at` follows the timer thread round
`kernel_timer_thread`: asleep, ISR, drain, DPC, scan, a timer's DPC, and the two
signal words. The DPC ring keeps the source's shape (head, tail, one place always
empty, zeroed entries for removed ones), with the Inserted byte apart from it; each
operation is one critical section of `g_dpc_lock`. The table's operations are one
critical section of `g_timer_lock` each, and what the code does after leaving it
(`Unset`, `Clear`, `SetShadow`, `SetHeader`) are steps of their own. The first KeSetTimer's start of
the timer thread is three: `InitLock`, `StartClock`, `Announce`; the thread runs from the second on, while
`started` is still 1.

`FallsDue` makes a set timer due at any later moment, also in the middle of a scan;
the code reads the clock once per scan, so a timer that falls due meanwhile waits
for the next one there: every order of firings of the code is one of the model.
An entry taken by the drain is cleared in the model (the source leaves stale bytes
no one reads). Not modelled: RECOMP_DISPATCH_LOCK (off by default), the 60 Hz
condition of the vblank (an interrupt may come in any round, and one ISR stands for
those of the up to three devices a round looks at), the host
implementation behind the second half of KeCancelTimer.

`DpcQueue` is the abstract specification. A queue without duplicates is the set of what it
has and which of two is ahead of the other; besides it says whether one runs. `Insert`
puts a DPC that is absent behind all others, `Remove` takes one from anywhere, `Run` takes one
that has none ahead of it while none runs, `Return` ends it. An insert may always be refused, so
the size of the ring is not part of it. `Dispatch` implements it (`ImplementsQueue`): a DPC is
queued if the ring has an `Entry` of it from head to tail, ahead of another if its entry is nearer
to the head, and one runs while the timer thread is `at` "dpc". The routine of an expired
timer, which the scan calls without the ring, is not part of the queue.

### GuestEvents

A wait is `bridge_wait_guest_event` (`look`, `take`, `generation`, `clock`) or
`bridge_wait_guest_events` (`scan`, `taking`, `clock`), one read or one interlocked
operation per step. A set is two steps, the word (`Set`) and the generation
(`Wake`). `moved[t]` is "the generation is not gen0": the counter itself is not
needed, and a wrap of its 32 bits within one wait is out of the question.
`Clear` is title code that writes the word itself; a comment of the source
(`kernel_bridge.c` 1936-1951) describes the title that does so. `lit` and `tokens`
are history: which objects were signalled during the wait, and sets not yet
consumed.

`Cleared` and `Renewed` limit what the title pulses, clears and initialises again,
the events of a wait for all over synchronisation events being left alone: such
a wait checks and then consumes (a comment accepts that), and on a contended event
returns without a signal of its own, `OneSetOneWaiter` failing. `AllAlone` says exactly
what has to be left alone; the proof assumes it and the instance satisfies it (an
`ASSUME` that TLC evaluates). A timed wait may
time out at any look and may go on for ever, so it has the behaviours of an endless
wait and of a poll too, and the instance has timed waits only. Alertable waits run
queued APCs first; that belongs to the APC ring.

### HostObjects and Handles

`object[a]` is what is at host address a: kind, count of references, signal, pulse
generation, and a serial number that tells an object from the next one at its
address (history: the code has no such thing, which is the point). A look at an object
and a change of it are single steps, as each holds the object's lock; a single wait
sleeps on the object, a wait for several is `Sample` (the pulse generations) and
then one `Poll` per object, round after round. The service thread's scan of
`g_timers` is made with the table's lock held, also around each `SetEvent`; it goes slot by slot,
since `SetEvent` takes the object's lock and what does not need the table's comes between.

`Handles` puts the title on top: `table` is `s_handle_table` with the two attributes
kept beside it, `search` the directory searches, `mine` the handles the title has.
A call of the title is the steps of its handler, and calls of two threads
interleave. `Titles` is a set of ways to use all this, one chosen at the start
and kept: each mixes the operations that meet on the same state, where one title
that does everything would be out of reach. `NtDuplicateObject` is one step: it looks the source
up, takes its reference, finds a token and copies the attributes. What could come between is a
close of the source, and another thread's new handle in a free slot, which is the same one step earlier or
later. A search that cannot be opened, or finds all 64 places taken, changes nothing and is left out. A title
closes no handle that a call
of its other thread is using: the waits hold no reference to what they wait for, and
the code leaves the matter to the title. Freed addresses are used again, lowest first, the
worst case for whatever is remembered by address.

### DsStream

A stream's record has the fields of `Stream` that the properties need: its packets with
start and end, `queued`, the clock (`base`, `elapsed`, `running`), `sent` and
`origin` against the voice, `voice`. `host[v]` is the queue of a host voice and how much of
it has been played. A call of the title is a frame on its thread's stack; a
completion callback runs in the middle of the loop of the frame below, with
the lock still held, and may make a call of its own, `Nest` deep. Time is
`Tick` and `HostPlays`, which are free of each other: the host may be late, starve,
refuse or be still opening (`DeviceOpens`). A call's `now` may be `lag` old when it
has the lock; each use of it within one call draws its own, where the code reads the clock once before the
lock, so the model has the code's behaviours and more. `Process` completes by the wall clock alone,
without asking the host first, and so it is not in `Synced`. Positions are counted in submissions (CHUNK_MS); mixing parameters,
formats and volume are left out, and so is sound that cannot be read or decoded, after which the stream keeps
its clock and has no output. A title's pointer is its stream: the search by what the object looks like, for
a pointer the table does not have (`find_by_object`), is left out. `turn` and `Yields` are the guest lock as a callback meets it,
for `NoStandoff` alone.

### NatPeers, Relay and NatTcp

`NatTcp` is the router's thread: `Select`, then every frame the card has queued, one
`tcp_in` each, then `tcp_service` for each slot in order, then `tcp_timers`. `loop`
says where the pass is and holds select's answer, which the code keeps by socket
number while it handles frames. A handler is one step on a record of the
connection, the queue for the card and the socket; `tcp_pump`, `tcp_flush_rx`,
`tcp_abort` and the rest are operators of those names on that record. Sequence numbers
are modulo `SeqSpace`, and the first ones are chosen to wrap within a connection.
Addresses are left out, a connection being known by the console's port; the MSS
is one number; sends that follow each other within one flush count as one, which takes what it takes, and a
refusal after part of them is a refusal of the next flush.

There is no clock. `GoBack` may come at any pass with something unacknowledged, so
it also meets an answer that is about to arrive; `Idle` (TCP_IDLE_MS, minutes) comes only
where nothing is in flight either way, and never to a connection still connecting,
which the host ends by itself much sooner. The code aborts any connection of which nothing was heard
for five minutes; what is in flight has been answered or said again many times by then. `tcp_abort` closes the
socket, which the far side sees as an end: it is not counted as one the console sent.

`NatPeers` is not code of the repository: the console's TCP is XNet's, inside the
title, and the far side is anybody. Both are as simple as they can be and still do
all that the router has cases for: the console repeats its SYN and its oldest unanswered
place (only once its frames and its answers have left the queues: its retransmit
timer is longer than a round trip), probes a shut window with a byte, says a window that opens,
answers what it does not know with a reset, breaks off; the far side refuses, reads
slowly, writes, ends, breaks off. A frame that finds either queue full is dropped:
`Queued` and `deliver` are the code's.

`Relay` is the promise in lines 40-46 of the source: per connection two pipes, from which
come the bytes that went in, in order and once, and an end only behind all of them (or
after the source broke off). `NatTcp` implements it with what the title and the far side have
written and been given: `ImplementsRelay`.

## Runs

Every run finishes in under three minutes with two workers on a small machine.

| Run | Shows | Bounds |
|---|---|---|
| `guestlock_calls` | `WaitersExact`, `NobodyBlocksHolding`, `PromptCallUndisturbed`, `ReservationKept`, `HighestFirst` with all kinds of calls, prompt calls that call back and blocking calls in the callback, suspends, a higher thread that is lowered, and lapses | two threads, two priorities, calls two deep |
| `guestlock_callbacks` | `TypeOK`, `MutualExclusion`, `LevelsRestored` with an interrupt's thread that may run past its bound, workers that return, reservations that lapse and handoffs that give up | two threads and a host thread, calls two deep |
| `guestlock_turns` | `SuspendNotLost`, `EqualWaiterRuns`, `SuspendAnswered` under fairness, with prompt calls, suspends nested twice and the starvation valve | two threads of one priority |
| `dispatch_work` | `TypeOK`, `RingExact`, `OneClock`, `ImplementsQueue` | three DPCs in a ring that holds two, a periodic timer, a title thread and a device |
| `dispatch_timers` | `NoDoubleArm`, `DueTimerFires`, `QueuedRunsOnceStarted` under fairness | two timers, one of them set with a DPC, two slots; the routines of the timer thread make a call each |
| `events_waits` | `TypeOK`, `OneSetOneWaiter`, `SuccessHasItsSet`, `NotificationReaches` | three threads, a notification and two synchronisation events |
| `handles_objects` | `TypeOK`, `HandlesExact`, `SearchFollows`, `TakenIsReported`, `PulseReleases`, `ClosedIsFreed` under fairness | two threads, three addresses and tokens, two timers, ten kinds of title |
| `streams_packets` | `TypeOK`, `PositionExact`, `HeardFirst`, `VoicesAgree`, `PendingOnce`, `PacketsComplete` under fairness | two slots, one voice, three packets, callbacks two deep, six kinds of title |
| `streams_standoff` | finding: `NoStandoff` fails | two threads, one stream with a callback |
| `nat_relay` | `TypeOK`, `AcknowledgedIsHeld`, `ImplementsRelay` with the title and the far side breaking off | three bytes up, one down, buffers of one byte, queues of two frames and one |
| `nat_arrives` | `SentFits`, `ImplementsRelay`, `DownArrives` under fairness, with a far side that may refuse | two bytes down through a window of one, buffers of two bytes, queues of one frame and two |
| `nat_end` | finding: `EndNotLost` fails | as `nat_arrives` |

Why so small is enough. Each guest lock property is about one or two threads and
what a third may do between their steps; the host thread is that third in
`callbacks`, the second thread in `calls`. Two calls deep are a prompt call and what its
callback calls. Ring arithmetic shows all its cases once
the ring is full, empty and wrapped, which three places give. Two timers and two
slots let a slot be freed, reused and passed by the scan. Two waiters contend for an
event, and a third thread sets and clears it. Three objects and three tokens let an
address and a slot be freed and used again beside a handle that stays. Two streams
over one voice steal it from each other, and three packets are one being completed, one
queued behind it and one queued by the callback. A relay's window of one byte
shuts at every byte; buffers of one byte fill, three bytes fill the far side, the buffer
and the console's probe; a queue of one frame drops the second of two, and the other
queue of two keeps an old frame in front of a new one. What the third thread, voice
or connection would add is another copy of these meetings: the relay's connections
share only the queues, which drop as they please already with one.

`CHECK_DEADLOCK FALSE` appears where the system may really stop: every thread has
suspended itself or ended (guest lock); the title has used up its objects, packets
or bytes and made its last call (handles, streams, relay). The other runs check for
deadlock.

### Fairness

- `GuestLock!FairSpec`: the host schedules every thread that has a step to take on
  its way into or out of the lock (weak fairness of `Progress`); the mutex itself is
  not fair, a waiter gets it for certain only where it stays free. Lifted code that
  goes on for ever goes round a loop, so it meets a back edge again and again
  between its calls, and the back edge's check sees a quantum that is up (strong
  fairness of `Yield`). A quantum runs out only in a turn that lasts, so `Tick` is
  fair unless turns start anew without end; reservations lapse by the clock. Nothing
  makes a title call the kernel or leave lifted code.
- `Dispatch!FairSpec`: the timer thread and threads in the middle of a kernel call
  go on; nothing makes a title call. `DueTimerFires` assumes that the scan is
  reached again and again, since `kernel_drain_dpcs` goes on until the ring is
  empty and a DPC that queues itself keeps it there. (A comment at 2957-2959 says such
  a DPC runs on the next drain; it runs in the same one.)
- `GuestEvents!FairSpec`: a thread in a kernel call goes on. A time-out is never
  forced, so a wait that returns does so for its signal or is not counted on.
- `Handles!FairSpec`: a thread in a call or a wait goes on, an armed timer comes due, and
  the service thread goes through its table. Nothing makes a title call.
- `DsStream!FairSpec`: whoever has the streams' lock goes on, callbacks return, the service thread
  runs, the clock ticks and the host plays what it has. Nothing makes a title call, and
  the device need never open.
- `NatTcp!FairSpec`: the router's thread goes on (select returns within 50 ms) and gets
  through the frames again and again, the card queueing them more slowly than it
  takes them (strong fairness of `FramesDone`); a timer that stays due is found due,
  its time having passed (strong fairness of `GoBack` and `Idle`); the timer thread takes frames for
  the card, the title reads, the console's TCP repeats and the far side answers.
  Nothing makes the title or the far side open, write, end or break off.

### Findings

With a run:

1. *A completion callback can stop the title for good* (`streams_standoff`):
   `complete` calls the title's code with the streams' lock held; when the callback
   gives up the guest lock at a back edge, another title thread may take it and wait
   with it for the streams' lock.
2. *An end sent behind lost bytes is never sent again* (`nat_end`): after a go-back
   to bytes before the end, `fin_sent` stays set, and `tcp_pump` stops at
   `fin_seq`. If the console has the end after all, its acknowledgement is
   beyond `nxt` and ignored, and the bytes are sent again for as long as the
   console answers.

Seen while modelling, without a run of their own. The first six are properties of the modules that fail in a
run's instance when the one thing named is changed:

- *A callback's blocking call leaves the reservation of the call around it* (`guestlock_calls` with
  `BlockedReservesNothing` as one more invariant). KeSynchronizeExecution (`kernel_bridge.c` 2911) and the inline
  PsCreateSystemThreadEx call back into lifted code and count as calls that cannot block. A blocking
  call made there clears the thread's `t_resv` only (`xbox_memory_layout.c` 1892), and the others stand
  aside for its `s_gl_resv_tid` until that lapses. Lines 11348-11351 of `kernel_bridge.c` have it that around such a
  call "the guest lock goes to whoever is waiting".
- *A thread parks with its reservation* (the same invariant with `CallbackIn = {}`). Suspended by another
  during a prompt call, it parks on the way back (1459-1483) and keeps the others out until the
  reservation lapses; a thread that suspends itself does give it up, "so the others run while it waits" (1595-1597).
- *A worker that returns keeps the lock* (`guestlock_callbacks` with `NobodyBlocksHolding`).
  `bridge_thread_main` and `bridge_run_thread_inline` both enter, and only the second leaves.
- *Blocking calls start the quantum anew* (`guestlock_turns` with `"blocking"` in `CallKinds` and
  `MaxSuspend = 0`: `EqualWaiterRuns` fails). `guest_took` (1666) stamps every take, so the equals of a thread that loops on blocking calls depend
  on winning the free mutex and not on the quantum, which 1092-1105 and 1861-1864 mean to end.
- *An ask takes a semaphore's signal* (`handles_objects` with `Titles <- AskingTitles` and the property
  `AskTakesNothing`). `bridge_take_handle` (4064-4082) clears two of a slot's three attributes and leaves the event
  kind, so what takes the slot of a manual event is asked as one (5738-5741). The comment at 3907-3915
  says the kind is recorded so that this does not happen.
- *A search outlives its file* (`handles_objects` with `Titles <- MovingTitles`: `SearchFollows` fails). A
  duplicate with DUPLICATE_CLOSE_SOURCE (7131) leaves the source's token in the table, where the last
  close finds it and takes the file for open. The next file at the address is answered by
  the old search.
- Deferred work: a timer set again by its own DPC is signalled from the start, as the
  thread runs the DPC and writes the signal after it (`kernel_bridge.c` 3693-3710). A DPC in a
  title without timers never runs: the first KeSetTimer starts the only thread that
  drains the ring. The two words of a timer's signal may disagree, and one expiry be lost,
  when it is consumed through one and set through both. A DPC queued by a device's ISR can
  run before that ISR returns (the comment at 2946-2950 has it the other way round). A
  full timer table arms nothing and says nothing.
- Guest events: KeResetEvent resets the shadow, not SignalState (8985), so an event in
  title memory stays signalled. KePulseEvent wakes single waiters of notification events
  only; a set between its two steps can release the same thread twice.
- Handles: SetWaitableTimer resets the signal before it takes the table's lock, so an expiry may
  come between. Two pulses in a row release one waiter of an automatic event. A wait for all that
  finds one object unsignalled has already consumed the others, which a comment
  accepts. Waits hold no reference to what they wait for, and a timed wait that times out
  does not look again.
- TCP relay: a failed recv counts as an end, so a far side that breaks off looks like one
  that finished, and the console's reset like an orderly end to the far side. A shut
  window is never probed: if the word that it is open is lost the connection stands
  until it is idle. A connection whose last bytes leave by `tcp_service` is
  closed only by the next segment or by the idle time, as only `tcp_in` looks for
  that. select's answer is used by socket number after frames were handled: a connection
  opened meanwhile may be taken for connected. Sending does not count as progress, so
  what goes out after 400 ms of silence is sent twice. A reset that finds the queue full
  leaves the console's connection half open.

## Proofs

`GuestLockProofs` proves for every number of workers and host threads, every set
of priorities, any nesting of calls and any choice of the switches, from
`GuestLockAssumption` alone (which TLC evaluates in every guest lock run):

- `TypeCorrect`: `Spec => []TypeOK`
- `LevelsAlwaysRestored`: `Spec => []LevelsRestored`
- `OneGuestAtATime`: `Spec => []MutualExclusion`

None of the three is inductive. `MutualExclusion` follows if whoever runs lifted
code owns the mutex, and that depends on how many levels a thread has at each
place: `Drop` lets go of all of them only because `depth` is what it is, and
`Restore` takes as many as the frame remembers. So the invariant `IInv` is
`TypeOK` and, for each thread,

- `OffLock`: outside lifted code a thread has no level, except one that ended there;
- `HolderOwns`: a level, or a probe, means the mutex is its own;
- `RunningDepth`: in lifted code the depth is that of the routine or of a callback;
- `FramesHold`: the outermost frame remembers the routine's levels, others one;
- `CallsMatch`: being inside a call and having frames agree.

`Inductive` is `Spec => []IInv`. The lemmas are one per action (or group of actions
that differ only in bookkeeping), each with the conjuncts that the action can
disturb; two lemmas on sequences say what pushing and popping a frame does. A thread
that passes its bound and runs without the lock is a host thread and outside
`MutualExclusion`, as in the source.

Every other invariant of the guest lock runs, and the action properties, are proved on top
of this `IInv`, each with what it needs besides, in `GuestLockTurns`:

- `SuspendsKept`: `Spec => []SuspendNotLost`. Inductive with the types.
- `HolderIsRunning`: `Spec => []NobodyBlocksHolding` where `~WorkersReturn`. The invariant
  `HoldInv` adds that a thread in lifted code that owns the mutex has a level of it, and what
  an interrupt's thread brings back to it; a worker that returns keeps a level, and
  the property does fail then.
- `PromptCallsAreWhole`: `Spec => []PromptCallUndisturbed`, with no hypothesis on callbacks or lapses:
  it is about a reservation that is in force (`InForce`). Whose it is does not change while it is in force
  except by its owner, who is in lifted code then or on its way (`ResvMoves`), and a guest thread gets
  from its probe to lifted code only where none against it is.
- `ReservationsKept`: `Spec => ReservationKept`. The other half: from its drop to its turn a prompt
  call loses its reservation only by the clock, or to a kernel call its own callback made. A thread that suspends
  itself gives its own up and stands in no prompt call any more (`HaltedBlocks`). By
  `PromptCallsAreWhole` nobody else is in lifted code to set another one.
- `CountersAreExact`: `Spec => []WaitersExact`. Two actions change several sizes at once and
  some threads count in two ways, so `CountInv` says at which places a thread may count
  itself, and that a parked thread has no request. `CountKept`, `CountBegun`, `CountEnded` and
  `CountAsked` are the four things a step can do to the counted sets; they are why
  `GuestLockAssumption` has the threads finite.
- `FreeLockGoesHighest`: `Spec => HighestFirst`. The code looks at counters, the property
  speaks of threads: the counters being exact, a thread waiting at a level makes its counter
  positive, and the probe at a free lock that finds one above stands down.

`GuestEventsProofs` proves for every number of threads and events and every choice of what
they wait for, from `GuestEventsAssumption`:

- `TypeCorrect`: `Spec => []TypeOK`
- `SuccessIsEarned`: `Spec => []SuccessHasItsSet`
- `OneWaiterPerSet`: `Spec => []OneSetOneWaiter` where `AllAlone`

`Shape` ties the place of a wait to its kind and list. For `SuccessIsEarned` the invariant
`Reasons` says what each place of a wait already knows: a scan for all has seen every
object before its index, a wait that takes has seen them all, and a generation
that moved did so because the event was set during the wait. For `OneWaiterPerSet`, `Claims` says
that what a wait for all has found and not yet consumed is still there, which is
where `AllAlone` comes in.

`DispatchProofs` proves for every number of DPCs, timers and executors and every size
of the ring (two places at least) and of the table, from `DispatchAssumption`:

- `TypeCorrect`: `Spec => []TypeOK`
- `OneTimerThread`: `Spec => []OneClock`
- `OneSlotPerTimer`: `Spec => []NoDoubleArm`
- `FlagsMatchRing`: `Spec => []RingExact`
- `RingIsQueue`: `Spec => ImplementsQueue`, the refinement of `DpcQueue`

Its `IInv` adds to the types

- `BootInv`: one executor at most is starting the timer thread (`Starting`), while
  `g_timer_started` is 1, and its place in the three writes says which are done; that is what keeps a
  second lock or thread from being made;
- `NoDoubleArm` itself, which is inductive once it is known that a set of slots that
  is not empty has a first one (`FirstSlot`, by well-foundedness of the naturals);
- `RingInv`: pending entries are flagged, each DPC is pending once, each flagged DPC
  is pending. `Distance` and `Span` turn the remainders of the ring's arithmetic into
  comparisons; `TailJoins` and `HeadLeaves` say what an insert and a drain do to the
  pending places, and need that one place is always empty. `FlagsMatchRing` then counts
  a singleton or an empty set;
- for `RingIsQueue`, `OrderStays`: when the head moves, the places behind it keep their order.
  Each flagged DPC having one entry, an insert puts its entry behind all others
  (`InsertQueues`), a removal takes the one it has (`RemoveQueues`), and a drain takes the entry
  that none is ahead of (`DrainRuns`) or an emptied one, which the queue does not see (`DrainSkips`).

`DsStreamProofs` proves for every number of streams, voices, packets and threads, any title
and any depth of callbacks, from `DsStreamAssumption`:

- `TypeCorrect`: `Spec => []TypeOK`
- `VoicesAreOwned`: `Spec => []VoicesAgree`
- `PositionIsVoice`: `Spec => []PositionExact`
- `HeardBeforeDone`: `Spec => []HeardFirst`
- `PendingPacketsOnce`: `Spec => []PendingOnce`

A callback may do anything to any stream in the middle of a loop of the call below, so what
the invariant says of streams and voices cannot depend on whose call it is. It has five parts:

- `Good`: types, voices and owners that agree, positions exact, clocks not past their data. It is
  stated of a record of the three variables, as the operators of the module are
  written, and each of these (`SyncToHost`, `AcquireVoice`, `Pump` ...) has a lemma that it keeps it;
- `Recents`: every slot has its place in the order by active_ms, without which a voice could not
  be stolen;
- `Others`: the types of what no call works on;
- `Calling`: a thread has frames exactly if it has the lock; each frame's voice and position are
  those it looked at, so what `complete_passed` takes off the ring has been played;
- `Waiting`: all rings and all flushes' lists, taken as one family of queues, have each pending
  packet once and nothing else. `Once` and its lemmas say what a push, a pop and the move of a whole
  ring into a flush's list do to that family.

`HandlesProofs` proves for every number of threads, addresses and tokens, every limit on timers
and searches and any set of titles, from `HostObjectsAssumption` and `HandlesAssumption`:

- `TypeCorrect`: `Spec => []TypeOK`
- `HandlesAreExact`: `Spec => []HandlesExact`
- `SearchesFollow`: `Spec => []SearchFollows` where no title moves a handle (`NothingMoves`)
- `TakenAreReported`: `Spec => TakenIsReported`, for every title

`Inv` adds to the types

- `Objs` and `InCalls`: the shape of each object (a free one has no references, a semaphore stays
  under its maximum), and that the handles a call works on are the title's until it closes one;
- `Counts`: an object has as many references as it has handles, armed timers, calls letting go
  and one for a timer the service is at. This is the heart of it, and needs the sizes of four sets
  to change by exactly one where a step says so (`CountedIs`, `Naming`, `LettingGo`), which is why
  threads, addresses and tokens are finite;
- `Serials` and `Current`: no two objects are the same one, and a handle's object is the one at its
  address now. `Settles` derives both for every step that makes no object;
- `Slotted`: a handle's slot is its own, with its object, its async bit and its event kind.

`NothingMoves` is needed: a duplicate that closes its source leaves a token behind, and a search with it
(`MovingTitles`). Every title of `handles_objects` satisfies it. `Found`, for the searches, says that a
token with an object belongs to a handle, that a search belongs to a handle that is open or
being closed, and that of those one address has one file only.

For what is taken, `Kindly` says that objects are of the kind their handles were made for, so that a slot
that says "manual" of an event's handle names a manual event; `Fairly`, of a step, that every
object keeps its kind or is freed, and has no less to take unless the step clears it, returns with it or counts it
in a wait for all. An ask by a handle of something without a kind of its own is excepted: it may meet a
slot's old kind, and does take (`AskingTitles`).

`NatTcpProofs` proves for every number of ports, connections and bytes, every size of buffer
and queue and every sequence space (also one that a connection wraps many times), from
`PeersAssumption` and `NatAssumption`:

- `TypeCorrect`: `Spec => []TypeOK`
- `AcknowledgedHeld`: `Spec => []AcknowledgedIsHeld`

What the console knows it has from a frame, and the frame may be old: so `IInv` follows the
acknowledgements from the router to the console. Of the console's stream a connection has taken
`Taking` places, those with the far side and those in its buffer, and an end if one came.

- `Types`: the types of everything, and the room of either side's buffers;
- `OneEach`: a port has one connection, or a second one would be told of by the first one's frames;
- `Honest`: a connection waits for the place behind those it has taken; no frame for its port tells of
  more (`Tells`), and the console has heard of no more;
- `Opens`: while the console may still say a SYN, or one is on its way, nothing has been taken.
  This is why a SYN the router meets when it has no connection of that port may open one with an
  empty far side: a SYN said again comes before any byte in the console's queue
  (`Ordered`), and a byte before any acknowledgement.

The handlers are operators on a work record, and so are the lemmas: `InHand` says of a record that
it is port p's connection with a places taken, and `SegmentSent`, `PumpKeeps`, `FlushKeeps`,
`AcknowledgedKeeps`, `ServicesKeeps` that what they name keeps it; only `ReceivedKeeps` gets
from a to a larger number. `TakenInHand` and `PutBack` connect them with the state. The console's
half is `ConsoleStep`: it hears at most what a frame in the queue tells (`MinusAtMost`).

`NatRelayProofs` goes on from this `IInv`, under `WindowAssumption` besides: what both ends
buffer, and three places more, is at most half of `SeqSpace` (64 KB and a 16-bit window against 2^32).

- `RelayInvariant`: `Spec => []RInv`
- `SentFitting`: `Spec => []SentFits`
- `RelayImplemented`: `Spec => ImplementsRelay`, the refinement of `Relay`

The code compares numbers that wrap, and what is promised is about places in a stream that does
not. `Place(k, q)` is the place of number q in the far side's stream, of all the places with that
number the one nearest to what console k waits for; `Stands` is the same of the console's stream and what
the router has taken. `PlacesApart` shows that the code's comparisons are those of places as long as the
places are near, which is what the assumption is needed for, and `RInv` says of everything kept or on its
way how near it is. Per port, `Relays` has

- `Down`: the console has the first bytes of the far side's stream (`Follows`); a frame on its way
  has bytes of its place and within the console's window (`Placed`), and one behind another
  is not far behind it (`InTurn`); a connection holds what the router has taken and the console has
  not acknowledged (`Joined`: `Greeting` before the console's first answer, `Flowing` after it); and
  acknowledgements on their way say more and more, and no more than the console has (`Acks`).
  `SentFits` is read off `Placed`;
- `Up`: the console is not further on than it was told it may be (`Telling`), what the router has
  buffered follows what the far side has (`Carried`), a frame has the byte of its place (`Stood`);
- `Spoken` and `Met`: the console's SYNs come before its bytes, a reset comes last, and a SYN said
  again after an answer finds the connection that answered it. Without this an old SYN would
  open a second stream in the middle of the first.

A handler works on a record, and `Held` says `Relays` of that record: `HeldSendData`, `HeldSendFin`,
`HeldFlush`, `HeldReceives`, `AckRelays`, `ReceivedRelays` are the lemmas on the code's operators,
and `TakenHeld` and `PutsBack` connect records with the state. Frames being dropped, a queue only ever
loses some or gains some behind the others: `RelaysThins` and `GrowsRelays` are the two lemmas
on that. For the refinement, five views of `NatTcp` (`Put`, `Finishes`, `Breaks`, `Gives`, `Closes`) are
the variables of `Relay`. Each step of the console, the far side or the router changes one end of one port at
most; `Furthers` and `Reopens` say what a handler may do to the far side, and so each step is a `Write`, `End`,
`Break`, `Retry` or `Carry` of one pipe, or none.

Every invariant, action property and refinement that a run finds to hold has a theorem. Only model-checked is liveness,
which TLAPS does not prove: `EqualWaiterRuns` and `SuspendAnswered`, `DueTimerFires` and
`QueuedRunsOnceStarted`, `NotificationReaches`, `PulseReleases` and `ClosedIsFreed`,
`PacketsComplete`, `DownArrives`.

## Plan

Done, with their proofs: `GuestLock`, `GuestEvents`, `Dispatch`, `HostObjects` and `Handles`,
`DsStream`, `NatTcp` over `Relay`.

Next, in this order:

1. The Ke shadow table and its first use; host threads' suspension and end.
2. The flip gate and the IRQL count, each a small module.
3. The router's UDP sessions and fragments, the card's rings.
4. Composition: title threads whose waits are those of `GuestEvents` under the
   scheduling of `GuestLock`, to ask whether a completion reaches a waiter while a
   higher priority thread spins.

To prove, nothing is left of what the runs check but liveness; each of these will bring its own.

## Running

    tlc -workers 2 -config events_waits.cfg MCGuestEvents.tla
    tlc -workers 2 -config nat_relay.cfg MCNatTcp.tla
    tlapm GuestLockProofs.tla
    tlapm GuestLockTurns.tla
    tlapm GuestEventsProofs.tla
    tlapm DispatchProofs.tla
    tlapm DsStreamProofs.tla
    tlapm HandlesProofs.tla
    tlapm NatTcpProofs.tla
    tlapm NatRelayProofs.tla

`PROJECT.json` pairs each run with its module and properties, and each property
with a mutant: a definition of the same module, marked `mutant`, that a plausible
mistake in the code would give and under which TLC finds the property violated.
