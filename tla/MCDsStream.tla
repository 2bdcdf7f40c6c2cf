------------------------------ MODULE MCDsStream ------------------------------
(* DsStream on small instances: which streams there are and what a title does *)
(* with them.                                                                 *)
EXTENDS DsStream, TLC

CONSTANTS t1, t2, cb, ev, ov

AllThreads == {t1, t2}
AllObjects == {cb, ev, ov}

Plain ==
  [threads |-> {t1}, objects |-> {cb, ev}, creations |-> 2, callback |-> {}, silent |-> {},
   sizes |-> {2}, packets |-> {1, 2}, calls |-> {"create", "process"},
   nested |-> {}, yields |-> FALSE, lag |-> 0]

\* A movie's sound: a stream fed from its own callback, flushed and paused.
Movie ==
  [Plain EXCEPT !.objects = {cb}, !.creations = 1, !.callback = {cb},
     !.packets = {1, 2, 3},
     !.calls = {"create", "process", "flush", "pause", "status"},
     !.nested = {"process", "flush", "pause", "status"}]

\* Two streams and one voice, on packets completed by their events.
Shared ==
  [Plain EXCEPT !.calls = {"create", "process", "work"}]

\* Two streams held back and started together.
Held ==
  [Plain EXCEPT !.packets = {1},
     !.calls = {"create", "process", "pause", "synch"}]

\* Streams made and released over each other, more than there are slots; one
\* in a format the host cannot play.
Remade ==
  [Plain EXCEPT !.objects = {cb, ev, ov}, !.creations = 3, !.silent = {cb},
     !.sizes = {1}, !.calls = {"create", "process", "release"}]

\* Calls whose time is old by the time they have the lock.
Late ==
  [Movie EXCEPT !.packets = {1, 2}, !.sizes = {0, 2}, !.lag = 1, !.callback = {},
     !.calls = {"create", "process", "status", "flush"}]

\* A stream and its callback, used by two threads.
Handed ==
  [Movie EXCEPT !.threads = {t1, t2}, !.packets = {1}, !.sizes = {1},
     !.calls = {"create", "process", "status"}, !.nested = {"status"}]

PassingTitles == {Movie, Shared, Held, Remade, Late, Handed}

YieldingTitles ==
  {[Handed EXCEPT !.yields = TRUE]}

=============================================================================
