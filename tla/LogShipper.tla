------------------------------ MODULE LogShipper ------------------------------
(***************************************************************************)
(* The log shippers: a loop that tails every source and pushes what        *)
(* follows the line it remembers.  The shipper of pod logs is a twin of    *)
(* the one over SSH: a source is a log source of a server or a container   *)
(* of a pod.  Lines are known by their number, 1 for the first ever        *)
(* written to the source, so that what is lost or shipped twice can be     *)
(* told; the shipper sees only their texts.                                *)
(***************************************************************************)
EXTENDS Integers, Sequences, Functions

CONSTANTS
  Sources,     \* the log sources configured
  Unreachable, \* those on a host that never answers; what they say does not matter
  Texts,       \* what a line can say
  None,        \* no cursor
  Torn,        \* what is read of a line whose end is not written yet
  TailLines,   \* TAIL_LINES, the window of one read
  MaxLines,    \* bound: lines written to all the sources together
  MaxCrashes   \* bound: restarts of the process

ASSUME LogAssumption ==
  /\ None \notin Texts \cup {Torn} /\ Torn \notin Texts
  /\ TailLines \in Nat \ {0} /\ MaxLines \in Nat /\ MaxCrashes \in Nat

VARIABLES
  written,   \* per source, the lines ever written
  start,     \* per source, how many of them are gone from the file
  half,      \* the sources whose last line is still being written
  on,        \* the sources whose shipping is enabled
  cursor,    \* _CURSORS: per source, the last line read
  todo,      \* the sources this pass has still to visit
  batch,     \* what is being pushed
  stored,    \* per source, the lines Loki has
  last,      \* history: per source, the number of the line the cursor is
  seen,      \* history: per source, the lines that were in a window read
  dropped,   \* history: per source, the lines of a push that failed
  torn,      \* history: the sources of which a half-written line was read
  crashes

logs == <<written, start, half>>
loki == <<stored, seen, dropped, torn>>
vars == <<logs, on, cursor, todo, batch, loki, last, crashes>>

Asleep == [src |-> None, lines |-> {}, cold |-> FALSE]
Size(s) == Len(written[s])
Text(s, k) == IF k = Size(s) /\ s \in half THEN Torn ELSE written[s][k]

-------------------------------------------------------------------------------
(* The sources, and the admin who enables them. *)

Total == FoldFunction(LAMBDA n, m : n + m, 0, [s \in Sources |-> Size(s)])

\* A line is written, or the beginning of one.
Write(s, t, part) ==
  /\ s \notin half \cup Unreachable /\ Total < MaxLines
  /\ written' = [written EXCEPT ![s] = Append(@, t)]
  /\ half' = IF part THEN half \cup {s} ELSE half
  /\ UNCHANGED <<start, on, cursor, todo, batch, loki, last, crashes>>

EndLine(s) ==
  /\ s \in half
  /\ half' = half \ {s}
  /\ UNCHANGED <<written, start, on, cursor, todo, batch, loki, last, crashes>>

\* Rotation of a file, or a container that starts again.
Rotate(s) ==
  /\ s \notin half /\ start[s] < Size(s)
  /\ start' = [start EXCEPT ![s] = Size(s)]
  /\ UNCHANGED <<written, half, on, cursor, todo, batch, loki, last, crashes>>

\* PUT .../log-shipping; the cursor of a source that is switched off stays.
Switch(s) ==
  /\ on' = IF s \in on THEN on \ {s} ELSE on \cup {s}
  /\ UNCHANGED <<logs, cursor, todo, batch, loki, last, crashes>>

-------------------------------------------------------------------------------
(* One pass. *)

Wake ==
  /\ todo = {} /\ batch = Asleep
  /\ todo' = on
  /\ UNCHANGED <<logs, on, cursor, batch, loki, last, crashes>>

Window(s) == {k \in start[s] + 1 .. Size(s) : k > Size(s) - TailLines}

\* Mutant: the first occurrence of the remembered line is taken.
FreshFirst(s) == {k \in Window(s) : \A j \in Window(s) : Text(s, j) = cursor[s] =>
                                      \E i \in Window(s) : i < k /\ Text(s, i) = cursor[s]}

\* Mutant: the line after the remembered one is taken for the remembered one.
FreshOffByOne(s) ==
  {k \in Window(s) : \A j \in Window(s) : Text(s, j) = cursor[s] => j + 1 < k}

\* What follows the last occurrence of the remembered line; all of it without one.
Fresh(s) == {k \in Window(s) : \A j \in Window(s) : Text(s, j) = cursor[s] => j < k}

Remember(s) == Text(s, Size(s))

\* A source is read; its cursor advances at once, before the push.
Read(s) ==
  /\ s \in todo \ Unreachable /\ batch = Asleep
  /\ Window(s) # {}
  /\ batch' = IF Fresh(s) = {} THEN Asleep
              ELSE [src |-> s, lines |-> Fresh(s), cold |-> cursor[s] \in {None, Torn}]
  /\ cursor' = [cursor EXCEPT ![s] = Remember(s)]
  /\ last' = [last EXCEPT ![s] = Size(s)]
  /\ seen' = [seen EXCEPT ![s] = @ \cup Window(s)]
  /\ torn' = IF s \in half THEN torn \cup {s} ELSE torn
  /\ todo' = todo \ {s}
  /\ UNCHANGED <<logs, on, stored, dropped, crashes>>

\* Mutant: a source that fails is tried again at once.
PassOverNone(s) == todo

PassOver(s) == todo \ {s}

\* No credentials, an unreachable host, a path that is wrong, a pod that is gone, or
\* nothing to read.
Skip(s) ==
  /\ s \in todo /\ batch = Asleep
  /\ todo' = PassOver(s)
  /\ UNCHANGED <<logs, on, cursor, batch, loki, last, crashes>>

\* Loki takes the batch, or does not; either way the shipper moves on.
Push ==
  /\ batch # Asleep
  /\ \/ stored' = [stored EXCEPT ![batch.src] = @ \cup batch.lines] /\ UNCHANGED dropped
     \/ dropped' = [dropped EXCEPT ![batch.src] = @ \cup batch.lines] /\ UNCHANGED stored
  /\ batch' = Asleep
  /\ UNCHANGED <<logs, on, cursor, todo, seen, torn, last, crashes>>

\* The process restarts: cursors gone, a batch under way lost with it.
Crash ==
  /\ crashes < MaxCrashes
  /\ crashes' = crashes + 1
  /\ cursor' = [s \in Sources |-> None]
  /\ last' = [s \in Sources |-> 0]
  /\ dropped' = IF batch = Asleep THEN dropped
                ELSE [dropped EXCEPT ![batch.src] = @ \cup batch.lines]
  /\ todo' = {} /\ batch' = Asleep
  /\ UNCHANGED <<logs, on, stored, seen, torn>>

-------------------------------------------------------------------------------
Init ==
  /\ written = [s \in Sources |-> <<>>]
  /\ start = [s \in Sources |-> 0]
  /\ half = {} /\ on = Sources
  /\ cursor = [s \in Sources |-> None]
  /\ last = [s \in Sources |-> 0]
  /\ todo = {} /\ batch = Asleep
  /\ stored = [s \in Sources |-> {}]
  /\ seen = [s \in Sources |-> {}]
  /\ dropped = [s \in Sources |-> {}]
  /\ torn = {} /\ crashes = 0

World(s) == (\E t \in Texts, part \in BOOLEAN : Write(s, t, part)) \/ EndLine(s) \/ Rotate(s) \/ Switch(s)

Visit(s) == Read(s) \/ Skip(s)

Next == (\E s \in Sources : World(s) \/ Visit(s)) \/ Wake \/ Push \/ Crash

Spec == Init /\ [][Next]_vars

\* The loop sleeps and wakes up; every read and every push has a timeout.
FairSpec ==
  Spec /\ WF_vars(Wake) /\ WF_vars(Push) /\ WF_vars(\E s \in Sources : Visit(s))

-------------------------------------------------------------------------------
(* Properties. *)

LinesOf(s) == 1..Size(s)

TypeOK ==
  /\ written \in [Sources -> Seq(Texts)]
  /\ start \in [Sources -> Nat] /\ last \in [Sources -> Nat]
  /\ cursor \in [Sources -> Texts \cup {None, Torn}]
  /\ {stored, seen, dropped} \subseteq [Sources -> SUBSET Nat]
  /\ half \subseteq Sources /\ on \subseteq Sources /\ torn \subseteq Sources /\ todo \subseteq Sources
  /\ \A s \in Sources :
       /\ start[s] <= Size(s) /\ last[s] <= Size(s) /\ (cursor[s] = None <=> last[s] = 0)
       /\ stored[s] \cup seen[s] \cup dropped[s] \subseteq LinesOf(s)
       /\ s \in half => Size(s) > 0
  /\ batch # Asleep => batch.src \in Sources /\ batch.lines \subseteq LinesOf(batch.src)
  /\ crashes \in 0..MaxCrashes

\* Although the docstring favours "no gaps" over "never a duplicate", a line is never
\* pushed twice while the process lives, rotation and repeated lines or not, unless
\* the read before had caught a half-written line.
NeverTwice ==
  batch # Asleep /\ ~batch.cold => batch.lines \cap stored[batch.src] = {}

\* The lines of s that were read and are neither with Loki, nor in a push that failed,
\* nor being pushed.
Pending(s) == IF batch.src = s THEN batch.lines ELSE {}
Missed(s) == seen[s] \ (stored[s] \cup dropped[s] \cup Pending(s))

\* "No gaps": a line that was in a window is shipped.  Broken by a line that repeats
\* the last one shipped: the lines between the two are taken for old.
NoGaps == \A s \in Sources : Missed(s) = {}

\* Without repeated or half-read lines there are no gaps, whatever is rotated, switched off, or
\* skipped, and however often the process restarts.
NoGapsWhenDistinct ==
  \A s \in Sources : IsInjective(written[s]) /\ s \notin torn => Missed(s) = {}

\* "One unreachable host cannot stall the rest": a source whose shipping is not
\* switched off again and again is visited for ever.
EveryoneIsVisited == \A s \in Sources : []<><<Visit(s)>>_vars \/ []<>(s \notin on)
===============================================================================
