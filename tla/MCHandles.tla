------------------------------ MODULE MCHandles ------------------------------
(* Handles on small instances: what a title does with its handles. *)
EXTENDS Handles, TLC

CONSTANTS t1, t2

AllThreads == {t1, t2}

Plain ==
  [threads |-> {t1, t2}, makes |-> {"auto"}, creations |-> 2, handles |-> 2,
   calls |-> {}, moves |-> {FALSE}, timed |-> {FALSE}, all |-> {FALSE},
   periods |-> {FALSE}]

\* One thread opens, duplicates, searches and closes files, and makes events
\* between.
Opened ==
  [Plain EXCEPT !.threads = {t1}, !.makes = {"file", "manual"}, !.creations = 3,
     !.calls = {"close", "duplicate", "ask", "search"}]

\* Two threads, on the handles of one file at a time.
Shared ==
  [Plain EXCEPT !.makes = {"file"}, !.calls = {"close", "duplicate", "search"}]

\* Two threads wait for an event while it is set, cleared and pulsed.
Signalled ==
  [Plain EXCEPT !.makes = {"auto", "manual"}, !.creations = 1,
     !.calls = {"wait", "set", "clear", "pulse"}, !.timed = {FALSE, TRUE}]

\* They wait for either of two.
Either ==
  [Plain EXCEPT !.makes = {"auto"}, !.calls = {"waitmany", "set", "pulse"},
     !.timed = {FALSE}]

\* A wait for both of two manual events.
Both ==
  [Plain EXCEPT !.threads = {t1, t2}, !.makes = {"manual"}, !.all = {TRUE}, !.timed = {TRUE},
     !.calls = {"waitmany", "set", "pulse"}]

\* Counted objects, and waits for both of two that a look consumes.
Counting ==
  [Plain EXCEPT !.makes = {"semaphore", "mutant"}, !.calls = {"wait", "waitmany", "release"}]

Consuming ==
  [Plain EXCEPT !.makes = {"auto", "semaphore"}, !.calls = {"waitmany", "set", "release"},
     !.all = {TRUE}, !.timed = {TRUE}]

\* Events of both kinds and semaphores, asked and waited for, each in the slot
\* of the one before it.
Asked ==
  [Plain EXCEPT !.makes = {"manual", "auto", "semaphore"}, !.handles = 1,
     !.calls = {"close", "ask", "wait", "set", "release"}]

\* A timer armed, cancelled and waited for by two threads, and closed armed.
Timed ==
  [Plain EXCEPT !.makes = {"timer", "synctimer"}, !.periods = {FALSE, TRUE},
     !.creations = 1, !.calls = {"close", "duplicate", "settimer", "canceltimer", "wait"}]

\* Timers that come and go.
Ticking ==
  [Plain EXCEPT !.threads = {t1}, !.makes = {"timer"}, !.periods = {FALSE, TRUE},
     !.creations = 3, !.calls = {"close", "settimer", "canceltimer"}]

PassingTitles == {Opened, Shared, Signalled, Either, Both, Counting, Consuming, Asked,
                  Timed, Ticking}

\* A duplicate that closes its source: with this title SearchFollows fails.
MovingTitles == {[Opened EXCEPT !.moves = {TRUE}, !.makes = {"file"}, !.threads = {t1}]}

\* An object without a kind of its own in the slot of a manual event.
AskingTitles ==
  {[Plain EXCEPT !.threads = {t1}, !.makes = {"manual", "semaphore", "synctimer", "mutant"},
      !.creations = 3, !.calls = {"close", "ask", "duplicate", "wait", "release", "settimer"}]}

=============================================================================
