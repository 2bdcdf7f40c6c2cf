------------------------------- MODULE DsStream -------------------------------
(***************************************************************************)
(* DirectSound streams as src/hle/hle_dsound_stream.c replaces them.       *)
(*                                                                         *)
(* A title gives a stream packets of sound and is told when each has been  *)
(* heard.  The replacement keeps the packets of a stream in a ring and a   *)
(* clock over them, feeds a host voice up to Lead ahead of the clock,      *)
(* moves the clock onto the voice's play position whenever it is looked    *)
(* at, and completes the packets the clock has passed.  Voices are fewer   *)
(* than streams and move between them.                                     *)
(*                                                                         *)
(* One recursive lock covers it all.  The title's calls take it, the       *)
(* service thread of hle_dsound.c takes it every few milliseconds, and a   *)
(* completion callback - the title's code - runs with it held and may call *)
(* in again, in the middle of the loop that completed its packet.          *)
(*                                                                         *)
(* Positions are in units of one submission to the host (CHUNK_MS), and    *)
(* every stream plays at one unit a tick.                                  *)
(***************************************************************************)
EXTENDS Integers, Sequences, FiniteSets, SequencesExt

CONSTANTS
  Threads,   \* the title's threads
  Service,   \* the service thread
  Nobody,
  Slots,     \* of g_streams, 1..n
  Voices,    \* of the host, 1..n
  Objects,   \* addresses at which the title makes streams
  NoObject,
  Packets,   \* 1..n, in the order they are submitted
  Attached,  \* max_packets of a stream
  Lead,      \* LEAD_MS
  Depth,     \* what the host queues for a voice
  Nest,      \* how deep a callback's calls go
  Titles     \* what a title does: see TitleOK

Calls == {"create", "process", "flush", "pause", "synch", "status", "work",
          "release"}

\* A title's threads, the streams it makes and how often, those with a
\* callback, those the host cannot play, the sizes of its packets, the calls
\* it makes, those its callbacks make, whether a callback reaches a point
\* where the guest lock changes hands, and how old a call's `now` may be when
\* it is used.
TitleOK(x) ==
  /\ x.threads \in SUBSET Threads \ {{}}
  /\ x.objects \subseteq Objects
  /\ x.creations \in Nat
  /\ x.callback \subseteq x.objects
  /\ x.silent \subseteq x.objects
  /\ x.sizes \subseteq Nat
  /\ x.packets \in SUBSET Packets
  /\ x.calls \subseteq Calls
  /\ x.nested \subseteq Calls
  /\ x.yields \in BOOLEAN
  /\ x.lag \in Nat

ASSUME DsStreamAssumption ==
  /\ Service \notin Threads
  /\ Nobody \notin Threads \cup {Service}
  /\ NoObject \notin Objects
  /\ IsFiniteSet(Slots) /\ Slots = 1..Cardinality(Slots)
  /\ IsFiniteSet(Voices) /\ Voices = 1..Cardinality(Voices)
  /\ IsFiniteSet(Packets) /\ Packets = 1..Cardinality(Packets)
  /\ {Attached, Lead, Depth, Nest} \subseteq Nat \ {0}
  /\ \A x \in Titles : TitleOK(x)

VARIABLES
  title,     \* what the title does; never changes
  stream,    \* g_streams
  recent,    \* the slots by active_ms, longest idle first
  owner,     \* g_voice_owner: the slot that has each voice, 0 for none
  host,      \* each voice: the positions of what it has queued, and played
  device,    \* the audio device is open
  lock,      \* who holds g_lock
  frames,    \* the calls each actor is in, innermost last
  blocked,   \* the thread waits for g_lock
  turn,      \* the thread that holds the guest lock
  creations, \* streams the title has yet to make
  fate       \* history: what has become of each packet

soundVars == <<stream, owner, host>>
vars == <<title, soundVars, recent, device, lock, frames, blocked, turn,
          creations, fate>>

Actors == Threads \cup {Service}

Least(a, b) == IF a <= b THEN a ELSE b

NoStream ==
  [object |-> NoObject, callback |-> FALSE, output |-> FALSE, packets |-> << >>,
   queued |-> 0, base |-> 0, elapsed |-> 0, running |-> FALSE, sent |-> 0,
   origin |-> 0, paused |-> FALSE, synch |-> FALSE, voice |-> 0]

Silence == [queue |-> << >>, played |-> 0]

\* The three variables a call works on, for the operators below.
Sound == [stream |-> stream, owner |-> owner, host |-> host]
SoundBecomes(d) ==
  /\ stream' = d.stream
  /\ owner' = d.owner
  /\ host' = d.host

Recorded == {i \in Slots : stream[i].object # NoObject}
Idle(d) == {i \in Slots : d.stream[i].packets = << >>}

\* Slot i by active_ms, and the one of I that has been idle longest.
Place(i) == CHOOSE k \in DOMAIN recent : recent[k] = i
LongestIdle(I) == CHOOSE i \in I : \A j \in I : Place(i) <= Place(j)

\* active_ms of slot i is now.
Active(i) == Append(RemoveAt(recent, Place(i)), i)

---------------------------------------------------------------------------
(* The clock *)

\* consumed, at a `now` that is lag old: resumed_ms was elapsed ago.
Consumed(s, lag) ==
  Least(s.queued,
        s.base + IF ~s.paused /\ s.running /\ s.elapsed > lag
                 THEN s.elapsed - lag ELSE 0)

\* restart_clock
Restart(s, lag) ==
  [s EXCEPT !.base = s.queued, !.running = ~s.paused, !.elapsed = lag]

\* Beyond this the clock is past the end of the data whatever the lag.
EndOfClock(s) == s.queued - s.base + title.lag

Advanced(s) ==
  IF s.running THEN [s EXCEPT !.elapsed = Least(@ + 1, EndOfClock(s))] ELSE s

---------------------------------------------------------------------------
(* The voices *)

\* reset_voice
ResetVoice(d, i) ==
  LET v == d.stream[i].voice
  IN IF v = 0 THEN d ELSE [d EXCEPT !.host[v] = Silence]

\* The voice starts again, empty, with what is at pos.
StartVoiceAt(d, i, pos) ==
  [ResetVoice(d, i) EXCEPT !.stream[i] = [@ EXCEPT !.sent = pos, !.origin = pos]]

ReleaseVoice_Sounding(d, i) ==           \* mutant: without the reset
  LET v == d.stream[i].voice
  IN IF v = 0 THEN d ELSE [d EXCEPT !.owner[v] = 0, !.stream[i].voice = 0]

\* release_voice
ReleaseVoice(d, i) ==
  LET v == d.stream[i].voice
  IN IF v = 0 THEN d
     ELSE [ResetVoice(d, i) EXCEPT !.owner[v] = 0, !.stream[i].voice = 0]

\* acquire_voice: a free voice, else that of the longest idle stream that has
\* no packets; the stream is left without one if there is neither.
GiveVoice(d, i, v) ==
  [d EXCEPT !.owner[v] = i,
            !.stream[i] = [@ EXCEPT !.voice = v, !.origin = d.stream[i].sent]]

AcquireVoice(d, i) ==
  LET free == {v \in Voices : d.owner[v] = 0}
      victims == {j \in Idle(d) : d.stream[j].voice # 0}
      j == LongestIdle(victims)
  IN CASE d.stream[i].voice # 0 -> d
       [] d.stream[i].voice = 0 /\ free # {} -> GiveVoice(d, i, Min(free))
       [] d.stream[i].voice = 0 /\ free = {} /\ victims # {} ->
            GiveVoice(ReleaseVoice(d, j), i, d.stream[j].voice)
       [] OTHER -> d

SyncToHost_Never(d, i, lag) == d         \* mutant: the wall clock alone

SyncToHost_Dry(d, i, lag) ==             \* mutant: a dry voice's position too
  LET s == d.stream[i]
      v == s.voice
  IN IF s.output /\ ~s.paused /\ s.running /\ v # 0
     THEN [d EXCEPT !.stream[i] =
             [s EXCEPT !.base = Least(s.queued, s.origin + d.host[v].played),
                       !.elapsed = lag]]
     ELSE d

\* sync_to_host: the clock is where the voice is, while it has sound.
SyncToHost(d, i, lag) ==
  LET s == d.stream[i]
      v == s.voice
  IN IF s.output /\ ~s.paused /\ s.running /\ v # 0 /\ d.host[v].queue # << >>
     THEN [d EXCEPT !.stream[i] =
             [s EXCEPT !.base = Least(s.queued, s.origin + d.host[v].played),
                       !.elapsed = lag]]
     ELSE d

\* What pump does with a voice: start again at the clock if the host has
\* refused for longer than the lead; else submit up to the lead, as much as
\* the host takes; start again at the target if it is past data that went by
\* without being submitted.
CatchUp(d, i, lag) ==
  LET s == d.stream[i]
  IN IF s.sent < Consumed(s, lag) THEN StartVoiceAt(d, i, Consumed(s, lag)) ELSE d

Submit(d, i, lag) ==
  LET s == d.stream[i]
      target == Least(s.queued, Consumed(s, lag) + Lead)
      gap == s.packets = << >> \/ s.sent < Head(s.packets).start
      room == Depth - Len(d.host[s.voice].queue)
      n == IF device THEN Least(target - s.sent, room) ELSE 0
  IN CASE s.sent >= target -> d
       [] s.sent < target /\ gap -> StartVoiceAt(d, i, target)
       [] OTHER -> [d EXCEPT !.stream[i].sent = @ + n,
                             !.host[s.voice].queue =
                               @ \o [k \in 1..n |-> s.sent + k - 1]]

Pump(d, i, lag) ==
  LET s == d.stream[i]
      a == AcquireVoice(d, i)
  IN IF \/ ~s.output \/ s.paused \/ ~s.running
        \/ s.sent >= s.queued
        \/ a.stream[i].voice = 0
     THEN d
     ELSE Submit(CatchUp(a, i, lag), i, lag)

\* The end of tick: a voice that has played out goes back, once the stream
\* has been quiet for VOICE_IDLE_MS.
GiveBackIdle(d, i, quiet) ==
  LET s == d.stream[i]
  IN IF /\ quiet /\ s.voice # 0 /\ s.packets = << >>
        /\ d.host[s.voice].queue = << >>
     THEN ReleaseVoice(d, i)
     ELSE d

---------------------------------------------------------------------------
(* Calls *)

\* A call in progress: limit is complete_passed's c, list what a flush has
\* still to complete, and at is "loop" or, while the completion callback
\* runs, "callback".  heard is history: what the voice was to play next when
\* the call looked at it, Unheard if the voice was dry.
Unheard == -1

Frame(op, i) ==
  [op |-> op, slot |-> i, limit |-> 0, list |-> << >>, size |-> 0,
   at |-> "loop", called |-> FALSE, heard |-> Unheard]

Top(a) == frames[a][Len(frames[a])]
Under(a) == SubSeq(frames[a], 1, Len(frames[a]) - 1)
In(a, ops) == frames[a] # << >> /\ Top(a).at = "loop" /\ Top(a).op \in ops
InCallback(t) == frames[t] # << >> /\ Top(t).at = "callback"

\* The thread runs title code: outside every call, or in a callback.
InTitle(t) == turn = t /\ (frames[t] = << >> \/ InCallback(t))

\* It may make call c now, and has g_lock for it.
Wants(t, c) ==
  /\ InTitle(t)
  /\ IF frames[t] = << >> THEN c \in title.calls
     ELSE ~Top(t).called /\ Len(frames[t]) < Nest /\ c \in title.nested

MayCall_Unlocked(t, c) == Wants(t, c)    \* mutant: without g_lock

MayCall(t, c) == Wants(t, c) /\ lock \in {Nobody, t}

\* The caller's frames, with the callback it may be in marked: it makes one
\* call.
Caller(t) ==
  IF frames[t] = << >> THEN << >>
  ELSE Append(Under(t), [Top(t) EXCEPT !.called = TRUE])

\* g_lock is let go with the outermost call.
SetFrames(a, fs) ==
  /\ frames' = [frames EXCEPT ![a] = fs]
  /\ lock' = IF fs = << >> THEN Nobody ELSE a

Enters(t, fs) ==
  /\ SetFrames(t, fs)
  /\ blocked' = blocked \ {t}
  /\ UNCHANGED <<title, device, turn>>

SlotOf(o) == {i \in Slots : stream[i].object = o}

\* An operation that looks at the voice before it completes packets.
Synced(op) == op \in {"status", "work", "service"}

\* The loop over slot i begins: sync_to_host, and complete_passed takes c.
Looking(d, a, f, i, lag) ==
  LET s == d.stream[i]
      e == IF Synced(f.op) THEN SyncToHost(d, i, lag) ELSE d
      wet == /\ Synced(f.op) /\ s.output /\ ~s.paused /\ s.running
             /\ s.voice # 0 /\ d.host[s.voice].queue # << >>
  IN [sound |-> e,
      frame |-> [f EXCEPT !.slot = i,
                          !.limit = Consumed(e.stream[i], lag),
                          !.heard = IF wet THEN Head(d.host[s.voice].queue)
                                              ELSE Unheard]]

\* GetStatus and Process find the stream by its object.
Begin(t, op, i, size) ==
  \E lag \in 0..title.lag :
    LET l == Looking(Sound, t, [Frame(op, i) EXCEPT !.size = size], i, lag)
    IN /\ SoundBecomes(l.sound)
       /\ Enters(t, Append(Caller(t), l.frame))
       /\ UNCHANGED <<recent, creations, fate>>

GetStatus(t, o) ==
  /\ MayCall(t, "status")
  /\ \E i \in SlotOf(o) : Begin(t, "status", i, 0)

Process(t, o, size) ==
  /\ MayCall(t, "process")
  /\ \E p \in title.packets : fate[p] = "free"
  /\ \E i \in SlotOf(o) : Begin(t, "process", i, size)

\* On a stream the table has dropped, Process reports success all the same.
NextPacket == Min({p \in title.packets : fate[p] = "free"})

ProcessUnknown(t, o) ==
  /\ MayCall(t, "process")
  /\ \E p \in title.packets : fate[p] = "free"
  /\ SlotOf(o) = {}
  /\ Enters(t, Caller(t))
  /\ fate' = [fate EXCEPT ![NextPacket] = "unknown"]
  /\ UNCHANGED <<soundVars, recent, creations>>

\* hle_dsound_stream_tick (from DirectSoundDoWork) and
\* hle_dsound_stream_service go over the slots in order.
After(i) == {j \in Recorded : j > i}

DoWork(t) ==
  /\ MayCall(t, "work")
  /\ Recorded # {}
  /\ Begin(t, "work", Min(Recorded), 0)

ServiceWakes ==
  /\ lock = Nobody
  /\ Recorded # {}
  /\ Begin(Service, "service", Min(Recorded), 0)

\* complete: the packet's status, and its event or the title's callback.
AfterCompleting(a, f) ==
  SetFrames(a, Append(Under(a),
    IF stream[f.slot].callback
    THEN [f EXCEPT !.at = "callback", !.called = FALSE] ELSE f))

\* complete_passed, one turn of its loop: the packet is out of the ring before
\* it is completed.
Passed(a) ==
  LET f == Top(a)
      s == stream[f.slot]
  IN /\ In(a, {"status", "work", "service", "process"})
     /\ s.packets # << >>
     /\ Head(s.packets).end <= f.limit
     /\ f.op = "service" => ~s.callback

CompletePassed(a) ==
  LET i == Top(a).slot
  IN /\ Passed(a)
     /\ stream' = [stream EXCEPT ![i].packets = Tail(@)]
     /\ fate' = [fate EXCEPT ![Head(stream[i].packets).id] = "done"]
     /\ AfterCompleting(a, Top(a))
     /\ UNCHANGED <<title, owner, host, recent, device, blocked, turn, creations>>

\* The callback returns to the loop.
CallbackReturns(t) ==
  /\ turn = t
  /\ InCallback(t)
  /\ t \notin blocked
  /\ frames' = [frames EXCEPT ![t] = Append(Under(t), [Top(t) EXCEPT !.at = "loop"])]
  /\ UNCHANGED <<title, soundVars, recent, device, lock, blocked, turn,
                 creations, fate>>

\* The rest of the call, after its loop.
EndStatus(t) ==
  /\ In(t, {"status"})
  /\ ~Passed(t)
  /\ \E lag \in 0..title.lag, quiet \in BOOLEAN :
       SoundBecomes(GiveBackIdle(Pump(Sound, Top(t).slot, lag), Top(t).slot, quiet))
  /\ SetFrames(t, Under(t))
  /\ UNCHANGED <<title, recent, device, blocked, turn, creations, fate>>

\* The next stream, or the end.
EndSweep(a) ==
  LET f == Top(a)
  IN /\ In(a, {"work", "service"})
     /\ ~Passed(a)
     /\ \E lag \in 0..title.lag, quiet \in BOOLEAN :
          LET d == Pump(Sound, f.slot, lag)
              e == IF f.op = "work" THEN GiveBackIdle(d, f.slot, quiet) ELSE d
              l == Looking(e, a, f, Min(After(f.slot)), lag)
          IN IF After(f.slot) = {}
             THEN SoundBecomes(e) /\ SetFrames(a, Under(a))
             ELSE SoundBecomes(l.sound) /\ SetFrames(a, Append(Under(a), l.frame))
     /\ UNCHANGED <<title, recent, device, blocked, turn, creations, fate>>

\* Process, after complete_passed: E_FAIL if the ring is full; else the packet
\* goes in, behind a clock that starts again from there if it had run out.
Queued(s, p, size, lag) ==
  LET r == IF Consumed(s, lag) >= s.queued THEN Restart(s, lag) ELSE s
  IN [r EXCEPT !.packets = Append(@, [id |-> p, start |-> s.queued,
                                      end |-> s.queued + size]),
               !.queued = @ + size]

EndProcess(t) ==
  LET f == Top(t)
      s == stream[f.slot]
      full == Len(s.packets) >= Attached \/ s.object = NoObject
      taken == {p \in title.packets : fate[p] = "free"} # {}
  IN /\ In(t, {"process"})
     /\ ~Passed(t)
     /\ IF full \/ ~taken
        THEN UNCHANGED <<soundVars, recent, fate>>
        ELSE /\ \E lag \in 0..title.lag :
                  SoundBecomes(Pump([Sound EXCEPT !.stream[f.slot] =
                                       Queued(s, NextPacket, f.size, lag)],
                                    f.slot, lag))
             /\ recent' = Active(f.slot)
             /\ fate' = [fate EXCEPT ![NextPacket] = "pending"]
     /\ SetFrames(t, Under(t))
     /\ UNCHANGED <<title, device, blocked, turn, creations>>

Flushed_SameOrigin(d, i) ==              \* mutant: play_origin left as it was
  LET s == d.stream[i]
  IN [ResetVoice(d, i) EXCEPT
        !.stream[i] = [s EXCEPT !.packets = << >>, !.base = s.queued, !.sent = s.queued,
                                !.running = FALSE, !.elapsed = 0]]

Flushed_InPlace(d, i) ==                 \* mutant: the ring completed in place
  LET s == d.stream[i]
  IN [StartVoiceAt(d, i, s.queued) EXCEPT
        !.stream[i] = [@ EXCEPT !.base = s.queued, !.running = FALSE, !.elapsed = 0]]

\* flush_stream: the ring is emptied into a list, the clock goes to the end of
\* the data, the voice starts again there, and the list is completed.
Flushed(d, i) ==
  LET s == d.stream[i]
  IN [StartVoiceAt(d, i, s.queued) EXCEPT
        !.stream[i] = [@ EXCEPT !.packets = << >>, !.base = s.queued,
                                !.running = FALSE, !.elapsed = 0]]

Flush(t, o) ==
  /\ MayCall(t, "flush")
  /\ \E i \in SlotOf(o) :
       /\ SoundBecomes(Flushed(Sound, i))
       /\ Enters(t, Append(Caller(t),
            [Frame("flush", i) EXCEPT !.list = stream[i].packets]))
  /\ UNCHANGED <<recent, creations, fate>>

CompleteFlushed(t) ==
  LET f == Top(t)
  IN /\ In(t, {"flush"})
     /\ f.list # << >>
     /\ fate' = [fate EXCEPT ![Head(f.list).id] = "flushed"]
     /\ AfterCompleting(t, [f EXCEPT !.list = Tail(@)])
     /\ UNCHANGED <<title, soundVars, recent, device, blocked, turn, creations>>

EndFlush(t) ==
  /\ In(t, {"flush"})
  /\ Top(t).list = << >>
  /\ SetFrames(t, Under(t))
  /\ UNCHANGED <<title, soundVars, recent, device, blocked, turn, creations, fate>>

---------------------------------------------------------------------------
(* Calls without a callback *)

\* resume_stream: the clock goes on from where it stopped, if there is data
\* beyond; and refeed, the host from the clock.
Resumed(d, i, lag) ==
  LET s == d.stream[i]
      more == s.base < s.queued
      r == [s EXCEPT !.paused = FALSE, !.running = more, !.elapsed = IF more THEN lag ELSE 0,
                     !.base = IF more THEN @ ELSE s.queued]
  IN IF ~s.paused THEN d
     ELSE Pump(StartVoiceAt([d EXCEPT !.stream[i] = r], i, Consumed(r, lag)), i, lag)

Paused(d, i, lag) ==
  LET s == d.stream[i]
      c == Consumed(s, lag)
  IN IF s.paused THEN d
     ELSE [ResetVoice(d, i) EXCEPT
             !.stream[i] = [s EXCEPT !.base = c, !.paused = TRUE, !.running = FALSE,
                                     !.elapsed = 0, !.sent = c]]

Pause(t, o, mode) ==
  /\ MayCall(t, "pause")
  /\ \E i \in SlotOf(o), lag \in 0..title.lag :
       LET d == [Sound EXCEPT !.stream[i].synch = mode = "synch"]
       IN /\ SoundBecomes(IF mode = "resume" THEN Resumed(d, i, lag)
                                             ELSE Paused(d, i, lag))
          /\ recent' = Active(i)
  /\ Enters(t, Caller(t))
  /\ UNCHANGED <<creations, fate>>

\* hle_dsound_stream_synch_playback: those held by SYNCHPLAYBACK start, one
\* after the other in the order of their slots.
HeldBack == {i \in Slots : stream[i].synch}

SynchPlayback(t) ==
  /\ MayCall(t, "synch")
  /\ HeldBack # {}
  /\ Enters(t, Append(Caller(t), Frame("synch", Min(HeldBack))))
  /\ UNCHANGED <<soundVars, recent, creations, fate>>

StartHeld(t) ==
  LET f == Top(t)
      left == {i \in HeldBack : i > f.slot}
  IN /\ In(t, {"synch"})
     /\ \E lag \in 0..title.lag :
          SoundBecomes(Resumed([Sound EXCEPT !.stream[f.slot].synch = FALSE],
                               f.slot, lag))
     /\ recent' = Active(f.slot)
     /\ SetFrames(t, IF left = {} THEN Under(t)
                     ELSE Append(Under(t), [f EXCEPT !.slot = Min(left)]))
     /\ UNCHANGED <<title, device, blocked, turn, creations, fate>>

\* forget_stream: the packets of slot i are dropped, its voice goes back.
Forgotten(d, i) == [ReleaseVoice(d, i) EXCEPT !.stream[i] = NoStream]
Dropped(i) ==
  [p \in Packets |->
     IF \E q \in ToSet(stream[i].packets) : q.id = p THEN "dropped" ELSE fate[p]]

\* record_stream: in the slot of the stream that was at this address, else in
\* a free slot, else in that of the longest idle stream; else nowhere.
SlotFor(o) ==
  LET free == Slots \ Recorded
  IN CASE SlotOf(o) # {} -> SlotOf(o)
       [] SlotOf(o) = {} /\ free # {} -> {Min(free)}
       [] SlotOf(o) = {} /\ free = {} /\ Idle(Sound) # {} ->
            {LongestIdle(Idle(Sound))}
       [] OTHER -> {}

Create(t, o) ==
  /\ MayCall(t, "create")
  /\ creations > 0
  /\ creations' = creations - 1
  /\ IF SlotFor(o) = {} THEN UNCHANGED <<soundVars, recent, fate>>
     ELSE \E i \in SlotFor(o) :
       /\ SoundBecomes([Forgotten(Sound, i) EXCEPT
            !.stream[i] = [@ EXCEPT !.object = o,
                                    !.callback = o \in title.callback,
                                    !.output = o \notin title.silent]])
       /\ recent' = Active(i)
       /\ fate' = Dropped(i)
  /\ Enters(t, Caller(t))

\* CDirectSoundStream_Release, of the last reference.
Release(t, o) ==
  /\ MayCall(t, "release")
  /\ \E i \in SlotOf(o) :
       /\ SoundBecomes(Forgotten(Sound, i))
       /\ fate' = Dropped(i)
  /\ Enters(t, Caller(t))
  /\ UNCHANGED <<recent, creations>>

---------------------------------------------------------------------------
(* Everything else *)

\* A call waits for g_lock, and holds the guest lock while it does.
Blocks(t) ==
  /\ \E c \in Calls : Wants(t, c)
  /\ lock \notin {Nobody, t}
  /\ t \notin blocked
  /\ blocked' = blocked \cup {t}
  /\ UNCHANGED <<title, soundVars, recent, device, lock, frames, turn,
                 creations, fate>>

\* The guest lock changes hands: a kernel call, or a loop's back edge.
Yields(t, u) ==
  /\ InTitle(t)
  /\ t \notin blocked
  /\ frames[t] # << >> => title.yields
  /\ turn' = u
  /\ UNCHANGED <<title, soundVars, recent, device, lock, frames, blocked,
                 creations, fate>>

\* Time passes: every clock that runs moves on.
Tick ==
  /\ stream' = [i \in Slots |-> Advanced(stream[i])]
  /\ stream' # stream
  /\ UNCHANGED <<title, owner, host, recent, device, lock, frames, blocked,
                 turn, creations, fate>>

\* The host plays a unit of voice v.
HostPlays(v) ==
  /\ host[v].queue # << >>
  /\ host' = [host EXCEPT ![v].queue = Tail(@), ![v].played = @ + 1]
  /\ UNCHANGED <<title, stream, owner, recent, device, lock, frames, blocked,
                 turn, creations, fate>>

\* The audio device opens, on a thread of its own; until then the host takes
\* nothing.
DeviceOpens ==
  /\ ~device
  /\ device' = TRUE
  /\ UNCHANGED <<title, soundVars, recent, lock, frames, blocked, turn,
                 creations, fate>>

Init ==
  /\ title \in Titles
  /\ stream = [i \in Slots |-> NoStream]
  /\ recent = [i \in Slots |-> i]
  /\ owner = [v \in Voices |-> 0]
  /\ host = [v \in Voices |-> Silence]
  /\ device = FALSE
  /\ lock = Nobody
  /\ frames = [a \in Actors |-> << >>]
  /\ blocked = {}
  /\ turn \in title.threads
  /\ creations = title.creations
  /\ fate = [p \in Packets |-> "free"]

TitleCalls(t) ==
  \/ \E o \in title.objects :
       \/ Create(t, o)
       \/ Release(t, o)
       \/ GetStatus(t, o)
       \/ Flush(t, o)
       \/ ProcessUnknown(t, o)
       \/ \E size \in title.sizes : Process(t, o, size)
       \/ \E mode \in {"resume", "pause", "synch"} : Pause(t, o, mode)
  \/ DoWork(t)
  \/ SynchPlayback(t)

\* The steps of a call that is under way.
CallSteps(a) ==
  \/ CompletePassed(a)
  \/ EndSweep(a)

TitleSteps(t) ==
  \/ CallSteps(t)
  \/ EndStatus(t)
  \/ EndProcess(t)
  \/ CompleteFlushed(t)
  \/ EndFlush(t)
  \/ StartHeld(t)
  \/ CallbackReturns(t)

Next ==
  \/ \E t \in Threads :
       \/ TitleCalls(t)
       \/ TitleSteps(t)
       \/ Blocks(t)
       \/ \E u \in title.threads \ {t} : Yields(t, u)
  \/ ServiceWakes
  \/ CallSteps(Service)
  \/ Tick
  \/ DeviceOpens
  \/ \E v \in Voices : HostPlays(v)

Spec == Init /\ [][Next]_vars

\* Calls and callbacks come to an end, time passes, what the host took it
\* plays, and the service thread gets the lock in the end.  The title need
\* call nothing, and the device need not open.
Stands(a) ==
  frames[a] = << >> \/ (a \in Threads /\ InCallback(a) /\ turn # a)

\* WF_vars(TitleSteps(a)), or WF_vars(CallSteps(a)) for the service thread,
\* spelt out: its steps are enabled unless it Stands, and a step of frames[a]
\* is a step of a.
MovesOn(a) == []<>Stands(a) \/ []<><<frames'[a] # frames[a]>>_frames

\* SF_vars(ServiceWakes), in the same way.
ServiceRuns ==
  <>[](lock # Nobody \/ Recorded = {})
    \/ []<><<frames'[Service] # frames[Service]>>_frames

Fairness ==
  /\ \A a \in Actors : MovesOn(a)
  /\ ServiceRuns
  /\ WF_vars(Tick)
  /\ \A v \in Voices : WF_vars(HostPlays(v))

FairSpec == Spec /\ Fairness

---------------------------------------------------------------------------
(* Properties *)

PacketType == [id : Packets, start : Nat, end : Nat]

StreamType ==
  [object : Objects \cup {NoObject}, callback : BOOLEAN, output : BOOLEAN,
   packets : Seq(PacketType), queued : Nat, base : Nat, elapsed : Nat,
   running : BOOLEAN, sent : Nat, origin : Nat, paused : BOOLEAN,
   synch : BOOLEAN, voice : Voices \cup {0}]

FrameType ==
  [op : {"status", "work", "service", "process", "flush", "synch"}, slot : Slots,
   limit : Nat, list : Seq(PacketType), size : Nat,
   at : {"loop", "callback"}, called : BOOLEAN, heard : Nat \cup {Unheard}]

Fates == {"free", "pending", "done", "flushed", "dropped", "unknown"}

\* The type of the state; and g_lock is held by the one actor inside a call.
TypeOK ==
  /\ title \in Titles
  /\ stream \in [Slots -> StreamType]
  /\ recent \in Seq(Slots) /\ Len(recent) = Cardinality(Slots)
  /\ owner \in [Voices -> Slots \cup {0}]
  /\ host \in [Voices -> [queue : Seq(Nat), played : Nat]]
  /\ device \in BOOLEAN
  /\ lock \in Actors \cup {Nobody}
  /\ frames \in [Actors -> Seq(FrameType)]
  /\ \A a \in Actors : frames[a] # << >> <=> lock = a
  /\ blocked \subseteq Threads
  /\ turn \in Threads
  /\ creations \in Nat
  /\ fate \in [Packets -> Fates]

\* "The voice's played-sample count reads directly as a stream position": the
\* voice of a stream that is not paused holds exactly what was sent since
\* play_origin, in order, so that play_origin plus what was played is what is
\* heard next.  A flush, a resume, a steal or a restart that leaves one of
\* sent, play_origin and the voice behind breaks it a packet later.
PositionExact ==
  \A i \in Slots :
    LET s == stream[i]
        h == host[s.voice]
    IN s.voice # 0 /\ s.output /\ ~s.paused =>
         /\ \A k \in DOMAIN h.queue : h.queue[k] = s.origin + h.played + k - 1
         /\ s.origin + h.played + Len(h.queue) = s.sent

\* A call that looks at a voice with sound in it does not complete a packet
\* whose last sound the voice has still to play ("packets complete when the
\* sound is actually heard"), however far the wall clock has run from it.
HeardFirst ==
  \A a \in Actors : \A k \in DOMAIN frames[a] :
    LET f == frames[a][k] IN f.heard # Unheard => f.limit <= f.heard

\* g_voice_owner and the streams' voices agree, no two streams feed one voice,
\* and a voice nobody has is silent: the next stream to have it would start
\* with the last one's sound and count it as its own.
VoicesAgree ==
  /\ \A v \in Voices :
       IF owner[v] = 0
       THEN host[v] = Silence /\ \A i \in Slots : stream[i].voice # v
       ELSE stream[owner[v]].voice = v
  /\ \A i \in Slots : stream[i].voice # 0 => owner[stream[i].voice] = i

\* Every packet the title was told is pending is waiting in one place, the
\* ring of its stream or the list of a flush in progress, and nothing else is
\* there: so each is completed once, and none after it was completed, though
\* callbacks queue, flush and complete packets in the middle of the loops that
\* complete them.
PendingOnce ==
  LET Ring(i) == stream[i].packets
      List(a, n) == frames[a][n].list
  IN /\ \A p \in Packets :
          fate[p] = "pending" <=>
            \/ \E i \in Slots : \E k \in DOMAIN Ring(i) : Ring(i)[k].id = p
            \/ \E a \in Actors : \E n \in DOMAIN frames[a] :
                 \E k \in DOMAIN List(a, n) : List(a, n)[k].id = p
     /\ \A i, j \in Slots : \A k \in DOMAIN Ring(i), l \in DOMAIN Ring(j) :
          Ring(i)[k].id = Ring(j)[l].id => i = j /\ k = l
     /\ \A a, b \in Actors : \A n \in DOMAIN frames[a], m \in DOMAIN frames[b] :
          \A k \in DOMAIN List(a, n), l \in DOMAIN List(b, m) :
            List(a, n)[k].id = List(b, m)[l].id => a = b /\ n = m /\ k = l
     /\ \A i \in Slots, a \in Actors : \A n \in DOMAIN frames[a] :
          \A k \in DOMAIN Ring(i), l \in DOMAIN List(a, n) :
            Ring(i)[k].id # List(a, n)[l].id

InRing(p, i) == \E q \in ToSet(stream[i].packets) : q.id = p

\* A packet of a stream without a callback is completed, or its stream paused,
\* though the title never calls in again, the host refuses the sound or is
\* still opening, and no voice is free: the service thread and the wall clock
\* see to it.
PacketsComplete ==
  \A p \in Packets, i \in Slots :
    (InRing(p, i) /\ ~stream[i].callback)
      ~> (~InRing(p, i) \/ stream[i].paused)

\* The thread with the guest lock does not wait for g_lock while another
\* thread, which needs the guest lock to go on, holds it.  ("The lock is
\* dropped around every kernel call so that no thread blocks holding it",
\* xbox_memory_layout.c; the replacements do not drop it.)
NoStandoff ==
  turn \in blocked => lock \notin Threads \ {turn}

=============================================================================
