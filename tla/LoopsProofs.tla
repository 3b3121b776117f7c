----------------------------- MODULE LoopsProofs -----------------------------
(***************************************************************************)
(* The tasks that run for as long as the process does: the cursor of the log *)
(* shippers, for any sources, window and history, and the audit rows of the   *)
(* shell's sessions, for any users, tabs and limits.                       *)
(***************************************************************************)
EXTENDS MCLoops, SequenceTheorems, TLAPS

\* A cursor that is a whole line still has that line's text, and nothing pushed lies
\* behind it.
CursorOK ==
  \A s \in Sources : cursor[s] \notin {None, Torn} =>
    /\ Text(s, last[s]) = cursor[s]
    /\ \A k \in stored[s] \cup Pending(s) : k <= last[s]

\* What is still in the file of the window that ended at the cursor was read.
Covered ==
  \A s \in Sources \ torn :
    /\ cursor[s] # Torn
    /\ \A k \in 1..last[s] : k > start[s] /\ k > last[s] - TailLines => k \in seen[s]

Inv == TypeOK /\ CursorOK /\ Covered /\ NeverTwice /\ NoGapsWhenDistinct

-------------------------------------------------------------------------------
LEMMA TextType ==
  ASSUME TypeOK, NEW s \in Sources, NEW k \in LinesOf(s)
  PROVE  Text(s, k) \in Texts \cup {Torn} /\ Text(s, k) # None
  BY LogAssumption DEF TypeOK, LinesOf, Size, Text

LEMMA WindowType ==
  ASSUME TypeOK, NEW s \in Sources
  PROVE  /\ Size(s) \in Nat /\ Window(s) \subseteq LinesOf(s) /\ Fresh(s) \subseteq Window(s)
         /\ Window(s) # {} => Size(s) \in LinesOf(s) /\ Size(s) \in Window(s)
  BY LogAssumption DEF TypeOK, LinesOf, Size, Window, Fresh

\* With a whole line for a cursor, everything fresh lies after it.
LEMMA FreshIsNew ==
  ASSUME TypeOK, CursorOK, NEW s \in Sources, cursor[s] \notin {None, Torn}, NEW k \in Fresh(s)
  PROVE  k > last[s]
<1>1. last[s] \in LinesOf(s) /\ k \in Window(s) /\ k \in Nat /\ last[s] \in Nat /\ start[s] \in Nat
  BY WindowType DEF TypeOK, LinesOf
<1>2. CASE last[s] \in Window(s)
  BY <1>2 DEF CursorOK, Fresh
<1>3. CASE last[s] \notin Window(s)
  BY <1>1, <1>3, LogAssumption DEF Window, LinesOf, TypeOK, Size
<1> QED BY <1>2, <1>3

\* Without repeated lines, what is not fresh was in an earlier window.
LEMMA StaleWasSeen ==
  ASSUME TypeOK, CursorOK, Covered, NEW s \in Sources \ (torn \cup half),
         IsInjective(written[s]), NEW k \in Window(s) \ Fresh(s)
  PROVE  k \in seen[s]
<1>1. PICK j \in Window(s) : Text(s, j) = cursor[s] /\ ~(j < k)
  BY DEF Fresh
<1>2. j \in LinesOf(s) /\ k \in LinesOf(s)
  BY WindowType
<1>3. cursor[s] \notin {None, Torn}
  BY <1>1, <1>2, TextType DEF Covered
<1>4. last[s] \in LinesOf(s) /\ Text(s, last[s]) = cursor[s]
  BY <1>3 DEF CursorOK, TypeOK, LinesOf
<1>5. written[s][j] = written[s][last[s]] /\ DOMAIN written[s] = LinesOf(s)
  BY <1>1, <1>4 DEF Text, TypeOK, LinesOf, Size
<1>6. j = last[s]
  BY <1>2, <1>4, <1>5 DEF IsInjective
<1>7. k \in 1..last[s] /\ k > start[s] /\ k > last[s] - TailLines
  BY <1>1, <1>2, <1>4, <1>6, LogAssumption DEF Window, LinesOf, Size, TypeOK
<1> QED BY <1>7 DEF Covered

-------------------------------------------------------------------------------
LEMMA InitInv == Init => Inv
<1> SUFFICES ASSUME Init PROVE Inv
  OBVIOUS
<1>1. TypeOK
  BY LogAssumption DEF Init, TypeOK, LinesOf, Size
<1>2. CursorOK /\ Covered /\ NeverTwice /\ NoGapsWhenDistinct
  BY LogAssumption DEF Init, CursorOK, Covered, NeverTwice, NoGapsWhenDistinct, Missed
<1> QED BY <1>1, <1>2 DEF Inv

\* A line is written: the sequence of texts grows at its end.
LEMMA WriteInv ==
  ASSUME Inv, NEW s \in Sources, NEW t \in Texts, NEW part \in BOOLEAN, Write(s, t, part)
  PROVE  Inv'
<1> USE DEF Inv
<1>1. /\ Size(s)' = Size(s) + 1 /\ Size(s) \in Nat
      /\ \A k \in LinesOf(s) : written'[s][k] = written[s][k]
      /\ DOMAIN written[s] = LinesOf(s) /\ DOMAIN written'[s] = 1..Size(s) + 1
      /\ written' \in [Sources -> Seq(Texts)]
  <2>1. written[s] \in Seq(Texts) /\ written'[s] = Append(written[s], t)
    BY DEF Write, TypeOK
  <2>2. Append(written[s], t) \in Seq(Texts)
    BY <2>1, AppendProperties
  <2>3. Len(Append(written[s], t)) = Size(s) + 1 /\ Size(s) \in Nat
        /\ \A k \in LinesOf(s) : Append(written[s], t)[k] = written[s][k]
    BY <2>1, AppendProperties, LenProperties DEF Size, LinesOf
  <2>4. DOMAIN written[s] = LinesOf(s) /\ DOMAIN written'[s] = 1..Size(s) + 1
    BY <2>1, <2>2, <2>3, LenProperties DEF Size, LinesOf
  <2>5. written' \in [Sources -> Seq(Texts)]
    BY <2>1, <2>2 DEF Write, TypeOK
  <2> QED BY <2>1, <2>3, <2>4, <2>5 DEF Size
<1>2. \A u \in Sources \ {s} : written'[u] = written[u] /\ (u \in half' <=> u \in half)
  BY DEF Write, TypeOK
<1>3. \A u \in Sources : Size(u) \in Nat /\ LinesOf(u) \subseteq LinesOf(u)'
  <2> SUFFICES ASSUME NEW u \in Sources PROVE Size(u) \in Nat /\ LinesOf(u) \subseteq LinesOf(u)'
    OBVIOUS
  <2>1. Size(u) \in Nat
    BY DEF TypeOK, Size
  <2>2. Size(u)' = Size(u) \/ Size(u)' = Size(u) + 1
    BY <1>1, <1>2 DEF Size
  <2> QED BY <2>1, <2>2 DEF LinesOf
<1>4. \A u \in Sources : \A k \in LinesOf(u) : u # s \/ s \notin half => Text(u, k)' = Text(u, k)
  BY <1>1, <1>2 DEF Write, Text, LinesOf, Size
<1>5. TypeOK'
  <2>1. \A u \in Sources : u \in half' => Size(u)' > 0
    <3> SUFFICES ASSUME NEW u \in Sources, u \in half' PROVE Size(u)' > 0
      OBVIOUS
    <3>1. CASE u = s
      BY <1>1, <3>1
    <3>2. CASE u # s
      BY <1>2, <3>2 DEF TypeOK, Size
    <3> QED BY <3>1, <3>2
  <2>2. \A u \in Sources : start[u] <= Size(u)' /\ last[u] <= Size(u)'
    <3> SUFFICES ASSUME NEW u \in Sources
                 PROVE  start[u] <= Size(u)' /\ last[u] <= Size(u)'
      OBVIOUS
    <3>1. /\ start[u] \in Nat /\ last[u] \in Nat
          /\ start[u] <= Size(u) /\ last[u] <= Size(u)
      BY DEF TypeOK
    <3>2. Size(u)' = Size(u) \/ Size(u)' = Size(u) + 1
      BY <1>1, <1>2 DEF Size
    <3> QED BY <1>3, <3>1, <3>2
  <2> QED BY <1>1, <1>3, <2>1, <2>2 DEF TypeOK, Write, loki
<1>6. CursorOK'
  <2> SUFFICES ASSUME NEW u \in Sources, cursor[u] \notin {None, Torn}
               PROVE  /\ Text(u, last[u])' = cursor[u]
                      /\ \A k \in stored[u] \cup Pending(u) : k <= last[u]
    BY DEF CursorOK, Write, loki, Pending
  <2>1. last[u] \in LinesOf(u)
    BY DEF TypeOK, LinesOf
  <2>2. Text(u, last[u])' = Text(u, last[u])
    BY <1>4, <2>1 DEF Write
  <2> QED BY <2>2 DEF CursorOK
<1>7. Covered' /\ NeverTwice'
  BY DEF Covered, NeverTwice, Write, loki
<1>8. NoGapsWhenDistinct'
  <2> SUFFICES ASSUME NEW u \in Sources, IsInjective(written'[u]), u \notin torn
               PROVE  Missed(u) = {}
    BY DEF NoGapsWhenDistinct, Missed, Pending, Write, loki
  <2>1. IsInjective(written[u])
    <3>1. CASE u = s
      <4>1. \A k \in LinesOf(s) : k \in DOMAIN written'[s] /\ written'[s][k] = written[s][k]
        BY <1>1 DEF LinesOf
      <4> QED BY <3>1, <4>1, <1>1 DEF IsInjective
    <3>2. CASE u # s
      BY <3>2, <1>2
    <3> QED BY <3>1, <3>2
  <2> QED BY <2>1 DEF NoGapsWhenDistinct
<1> QED BY <1>5, <1>6, <1>7, <1>8

\* The half-written line ends: a cursor on it was Torn, and stays so.
LEMMA EndLineInv == ASSUME Inv, NEW s \in Sources, EndLine(s) PROVE Inv'
<1> USE DEF Inv
<1>1. TypeOK'
  BY DEF EndLine, TypeOK, loki, LinesOf, Size
<1>2. CursorOK'
  <2> SUFFICES ASSUME NEW u \in Sources, cursor[u] \notin {None, Torn}
               PROVE  Text(u, last[u])' = Text(u, last[u])
    BY DEF CursorOK, EndLine, loki, Pending
  <2>1. Text(u, last[u]) # Torn
    BY DEF CursorOK
  <2> QED BY <2>1 DEF Text, EndLine, Size
<1>3. Covered' /\ NeverTwice' /\ NoGapsWhenDistinct'
  BY DEF Covered, NeverTwice, NoGapsWhenDistinct, Missed, Pending, EndLine, loki
<1> QED BY <1>1, <1>2, <1>3

LEMMA RotateInv == ASSUME Inv, NEW s \in Sources, Rotate(s) PROVE Inv'
<1> USE DEF Inv
<1>1. Size(s) \in Nat
  BY DEF TypeOK, Size
<1>2. TypeOK'
  BY <1>1 DEF Rotate, TypeOK, loki, LinesOf, Size
<1>3. CursorOK' /\ NeverTwice' /\ NoGapsWhenDistinct'
  BY DEF CursorOK, NeverTwice, NoGapsWhenDistinct, Missed, Pending, Rotate, loki, Text, Size
<1>4. Covered'
  <2> SUFFICES ASSUME NEW u \in Sources \ torn, NEW k \in 1..last[u], k > start'[u]
               PROVE  k > start[u]
    BY DEF Covered, Rotate, loki
  <2>1. start[u] \in Nat /\ last[u] \in Nat
    BY DEF TypeOK, Size
  <2>2. u = s => start'[u] > start[u]
    BY <1>1, <2>1 DEF Rotate, TypeOK
  <2> QED BY <2>1, <2>2, <1>1 DEF Rotate, TypeOK
<1> QED BY <1>2, <1>3, <1>4

\* Who is visited, and when, disturbs nothing.
LEMMA IdleInv ==
  ASSUME Inv, UNCHANGED <<logs, cursor, batch, loki, last, crashes>>,
         on' \subseteq Sources, todo' \subseteq Sources
  PROVE  Inv'
<1> USE DEF Inv
<1>1. TypeOK'
  BY DEF TypeOK, logs, loki, LinesOf, Size
<1>2. CursorOK' /\ Covered' /\ NeverTwice' /\ NoGapsWhenDistinct'
  BY DEF CursorOK, Covered, NeverTwice, NoGapsWhenDistinct, Missed, Pending, logs, loki, Text, Size
<1> QED BY <1>1, <1>2

-------------------------------------------------------------------------------
\* The read: the fresh lines lie after the cursor, the others were seen before.
LEMMA ReadInv == ASSUME Inv, NEW s \in Sources, Read(s) PROVE Inv'
<1> USE DEF Inv
<1>1. /\ Size(s) \in LinesOf(s) /\ Window(s) \subseteq LinesOf(s)
      /\ Fresh(s) \subseteq Window(s) /\ Size(s) \in Nat
  BY WindowType DEF Read
<1>2. cursor'[s] = Text(s, Size(s)) /\ last'[s] = Size(s) /\ Pending(s)' = Fresh(s)
  BY DEF Read, TypeOK, Remember, Pending, Asleep
<1>3. \A u \in Sources \ {s} : Pending(u) = {} /\ Pending(u)' = {}
  BY DEF Read, Pending, Asleep
<1>4. TypeOK'
  <2>1. Text(s, Size(s)) \in Texts \cup {Torn} /\ Text(s, Size(s)) # None
    BY <1>1, TextType
  <2>2. \A u \in Sources : LinesOf(u)' = LinesOf(u) /\ Size(u)' = Size(u)
    BY DEF Read, logs, LinesOf, Size
  <2>3. \A u \in Sources :
          start'[u] <= Size(u)' /\ last'[u] <= Size(u)' /\ (cursor'[u] = None <=> last'[u] = 0)
    BY <1>1, <1>2, <2>1, <2>2 DEF Read, TypeOK, logs, LinesOf
  <2>4. \A u \in Sources : stored'[u] \cup seen'[u] \cup dropped'[u] \subseteq LinesOf(u)'
    BY <1>1, <2>2 DEF Read, TypeOK, logs
  <2>5. (batch # Asleep => batch.src \in Sources /\ batch.lines \subseteq LinesOf(batch.src))'
    <3>1. CASE Fresh(s) = {}
      BY <3>1 DEF Read
    <3>2. CASE Fresh(s) # {}
      BY <1>1, <2>2, <3>2 DEF Read
    <3> QED BY <3>1, <3>2
  <2>6. /\ written' \in [Sources -> Seq(Texts)] /\ crashes' \in 0..MaxCrashes
        /\ half' \subseteq Sources /\ on' \subseteq Sources /\ torn' \subseteq Sources /\ todo' \subseteq Sources
    BY DEF Read, TypeOK, logs
  <2>7. \A u \in Sources : u \in half' => Size(u)' > 0
    BY <2>2 DEF Read, TypeOK, logs
  <2>8. start' \in [Sources -> Nat] /\ last' \in [Sources -> Nat]
        /\ cursor' \in [Sources -> Texts \cup {None, Torn}]
    BY <1>1, <2>1 DEF Read, TypeOK, logs, Remember
  <2>9. {stored', seen', dropped'} \subseteq [Sources -> SUBSET Nat]
    <3>1. Window(s) \subseteq Nat
      BY <1>1 DEF LinesOf
    <3> QED BY <3>1 DEF Read, TypeOK
  <2> QED BY <2>3, <2>4, <2>5, <2>6, <2>7, <2>8, <2>9 DEF TypeOK
<1>5. CursorOK'
  <2> SUFFICES ASSUME NEW u \in Sources, cursor'[u] \notin {None, Torn}
               PROVE  /\ Text(u, last'[u]) = cursor'[u]
                      /\ \A k \in stored[u] \cup Pending(u)' : k <= last'[u]
    BY DEF CursorOK, Read, logs, Text, Size
  <2>1. CASE u = s
    BY <1>1, <1>2, <2>1 DEF TypeOK, LinesOf
  <2>2. CASE u # s
    BY <1>3, <2>2 DEF CursorOK, Read, TypeOK
  <2> QED BY <2>1, <2>2
<1>6. Covered'
  <2> SUFFICES ASSUME NEW u \in Sources \ torn'
               PROVE  /\ cursor'[u] # Torn
                      /\ \A k \in 1..last'[u] :
                           k > start[u] /\ k > last'[u] - TailLines => k \in seen'[u]
    BY DEF Covered, Read, logs
  <2>1. CASE u = s
    <3>1. s \notin half
      BY <2>1 DEF Read
    <3>2. Text(s, Size(s)) # Torn
      BY <1>1, <3>1, LogAssumption DEF Text, TypeOK, LinesOf, Size
    <3>3. \A k \in 1..Size(s) : k > start[s] /\ k > Size(s) - TailLines => k \in Window(s)
      BY <1>1 DEF Window, TypeOK
    <3>4. seen'[s] = seen[s] \cup Window(s)
      BY DEF Read, TypeOK
    <3> QED BY <2>1, <1>2, <3>2, <3>3, <3>4
  <2>2. CASE u # s
    <3>1. u \notin torn
      BY DEF Read
    <3> QED BY <2>2, <3>1 DEF Covered, Read, TypeOK
  <2> QED BY <2>1, <2>2
<1>7. NeverTwice'
  <2> SUFFICES ASSUME cursor[s] \notin {None, Torn} PROVE Fresh(s) \cap stored[s] = {}
    BY DEF NeverTwice, Read
  <2>1. \A k \in Fresh(s) : k > last[s]
    BY FreshIsNew
  <2>2. \A k \in stored[s] : k <= last[s] /\ k \in Int
    BY DEF CursorOK, TypeOK, LinesOf
  <2>3. last[s] \in Int
    BY DEF TypeOK
  <2> QED BY <2>1, <2>2, <2>3
<1>8. NoGapsWhenDistinct'
  <2> SUFFICES ASSUME NEW u \in Sources, IsInjective(written[u]), u \notin torn'
               PROVE  Missed(u)' = {}
    BY DEF NoGapsWhenDistinct, Read, logs
  <2>1. u \notin torn /\ Missed(u) = {}
    BY DEF NoGapsWhenDistinct, Read
  <2>2. CASE u # s
    BY <1>3, <2>1, <2>2 DEF Missed, Read, TypeOK
  <2>3. CASE u = s
    <3>1. s \notin half /\ Pending(s) = {}
      BY <2>3 DEF Read, Pending, Asleep
    <3>2. \A k \in Window(s) \ Fresh(s) : k \in seen[s]
      BY <2>1, <2>3, <3>1, StaleWasSeen
    <3>3. seen[s] \subseteq stored[s] \cup dropped[s]
      BY <2>1, <2>3, <3>1 DEF Missed
    <3>4. seen'[s] = seen[s] \cup Window(s) /\ stored' = stored /\ dropped' = dropped
      BY DEF Read, TypeOK
    <3> QED BY <2>3, <1>2, <3>2, <3>3, <3>4 DEF Missed
  <2> QED BY <2>2, <2>3
<1> QED BY <1>4, <1>5, <1>6, <1>7, <1>8

\* The batch is stored or dropped.
LEMMA PushInv == ASSUME Inv, Push PROVE Inv'
<1> USE DEF Inv
<1>1. /\ \A u \in Sources : Pending(u)' = {}
      /\ batch.src \in Sources /\ batch.lines \subseteq LinesOf(batch.src)
  BY DEF Push, Pending, Asleep, TypeOK
<1>2. \A u \in Sources : stored'[u] \cup dropped'[u] = stored[u] \cup dropped[u] \cup Pending(u)
                       /\ stored'[u] \subseteq stored[u] \cup Pending(u)
  BY DEF Push, Pending, TypeOK
<1>3. TypeOK'
  <2>1. \A u \in Sources : LinesOf(u)' = LinesOf(u) /\ Size(u)' = Size(u)
    BY DEF Push, logs, LinesOf, Size
  <2>2. \A u \in Sources : Pending(u) \subseteq LinesOf(u)
    BY <1>1 DEF Pending
  <2>3. \A u \in Sources : stored'[u] \cup seen'[u] \cup dropped'[u] \subseteq LinesOf(u)'
    BY <1>2, <2>1, <2>2 DEF Push, TypeOK
  <2>4. {stored', seen', dropped'} \subseteq [Sources -> SUBSET Nat]
    <3>1. batch.lines \subseteq Nat
      BY <1>1 DEF LinesOf
    <3>2. {stored, seen, dropped} \subseteq [Sources -> SUBSET Nat]
      BY DEF TypeOK
    <3>3. [stored EXCEPT ![batch.src] = @ \cup batch.lines] \in [Sources -> SUBSET Nat]
      BY <3>1, <3>2, <1>1
    <3>4. [dropped EXCEPT ![batch.src] = @ \cup batch.lines] \in [Sources -> SUBSET Nat]
      BY <3>1, <3>2, <1>1
    <3> QED BY <3>2, <3>3, <3>4 DEF Push
  <2> QED BY <2>1, <2>3, <2>4 DEF Push, TypeOK, logs
<1>4. CursorOK'
  BY <1>1, <1>2 DEF CursorOK, Push, logs, Text, Size
<1>5. Covered' /\ NeverTwice'
  BY DEF Covered, NeverTwice, Push, logs
<1>6. NoGapsWhenDistinct'
  <2>1. \A u \in Sources : Missed(u)' = Missed(u)
    BY <1>1, <1>2 DEF Missed, Push
  <2> QED BY <2>1 DEF NoGapsWhenDistinct, Push, logs
<1> QED BY <1>3, <1>4, <1>5, <1>6

LEMMA CrashInv == ASSUME Inv, Crash PROVE Inv'
<1> USE DEF Inv
<1>1. \A u \in Sources : Pending(u)' = {} /\ cursor'[u] = None /\ last'[u] = 0
  BY DEF Crash, Pending, Asleep
<1>2. \A u \in Sources : dropped'[u] = dropped[u] \cup Pending(u)
  BY DEF Crash, Pending, Asleep, TypeOK
<1>3. TypeOK'
  <2>1. \A u \in Sources : LinesOf(u)' = LinesOf(u) /\ Size(u)' = Size(u) /\ Size(u) \in Nat
    BY DEF Crash, logs, LinesOf, Size, TypeOK
  <2>2. \A u \in Sources : Pending(u) \subseteq LinesOf(u)
    BY DEF Pending, TypeOK, Asleep
  <2>3. \A u \in Sources : stored'[u] \cup seen'[u] \cup dropped'[u] \subseteq LinesOf(u)'
    BY <1>2, <2>1, <2>2 DEF Crash, TypeOK
  <2>4. {stored', seen', dropped'} \subseteq [Sources -> SUBSET Nat]
    BY DEF Crash, TypeOK, LinesOf
  <2> QED BY <1>1, <2>1, <2>3, <2>4, LogAssumption DEF Crash, TypeOK, logs
<1>4. CursorOK' /\ NeverTwice'
  BY <1>1 DEF CursorOK, NeverTwice, Crash
<1>5. Covered'
  BY <1>1, LogAssumption DEF Covered
<1>6. NoGapsWhenDistinct'
  <2>1. \A u \in Sources : Missed(u)' = Missed(u)
    BY <1>1, <1>2 DEF Missed, Crash
  <2> QED BY <2>1 DEF NoGapsWhenDistinct, Crash, logs
<1> QED BY <1>3, <1>4, <1>5, <1>6

-------------------------------------------------------------------------------
LEMMA StepInv == Inv /\ [Next]_vars => Inv'
<1> SUFFICES ASSUME Inv, [Next]_vars PROVE Inv'
  OBVIOUS
<1>1. ASSUME NEW s \in Sources, NEW t \in Texts, NEW part \in BOOLEAN, Write(s, t, part) PROVE Inv'
  BY <1>1, WriteInv
<1>2. ASSUME NEW s \in Sources, EndLine(s) PROVE Inv'
  BY <1>2, EndLineInv
<1>3. ASSUME NEW s \in Sources, Rotate(s) PROVE Inv'
  BY <1>3, RotateInv
<1>4. ASSUME NEW s \in Sources, Switch(s) PROVE Inv'
  <2>1. on' \subseteq Sources /\ todo' \subseteq Sources
    BY <1>4 DEF Switch, Inv, TypeOK
  <2> QED BY <1>4, <2>1, IdleInv DEF Switch
<1>5. ASSUME NEW s \in Sources, Read(s) PROVE Inv'
  BY <1>5, ReadInv
<1>6. ASSUME NEW s \in Sources, Skip(s) PROVE Inv'
  <2>1. on' \subseteq Sources /\ todo' \subseteq Sources
    BY <1>6 DEF Skip, PassOver, Inv, TypeOK
  <2> QED BY <1>6, <2>1, IdleInv DEF Skip
<1>7. CASE Wake
  <2>1. on' \subseteq Sources /\ todo' \subseteq Sources
    BY <1>7 DEF Wake, Inv, TypeOK
  <2> QED BY <1>7, <2>1, IdleInv DEF Wake
<1>8. CASE Push
  BY <1>8, PushInv
<1>9. CASE Crash
  BY <1>9, CrashInv
<1>10. CASE UNCHANGED vars
  <2>1. on' \subseteq Sources /\ todo' \subseteq Sources
    BY <1>10 DEF vars, Inv, TypeOK
  <2> QED BY <1>10, <2>1, IdleInv DEF vars
<1> QED BY <1>1, <1>2, <1>3, <1>4, <1>5, <1>6, <1>7, <1>8, <1>9, <1>10 DEF Next, World, Visit

\* The cursor of a source, the windows read and the lines stored stay what they are said
\* to be, for any number of sources and restarts.
THEOREM TypeCorrect == Spec => []TypeOK
<1>1. Inv => TypeOK
  BY DEF Inv
<1> QED BY <1>1, InitInv, StepInv, PTL DEF Spec

\* While the process lives no line is pushed twice, whatever the window and however the
\* lines repeat, unless a half-written line had been read.
THEOREM NeverShippedTwice == Spec => []NeverTwice
<1>1. Inv => NeverTwice
  BY DEF Inv
<1> QED BY <1>1, InitInv, StepInv, PTL DEF Spec

\* Every line that was in a window is stored, or was in a push that failed, when the source
\* does not repeat its lines: what the docstring's "no gaps" needs.
THEOREM DistinctLinesHaveNoGaps == Spec => []NoGapsWhenDistinct
<1>1. Inv => NoGapsWhenDistinct
  BY DEF Inv
<1> QED BY <1>1, InitInv, StepInv, PTL DEF Spec

-------------------------------------------------------------------------------
(* The sessions of the shell. *)

\* What the rows of a session say, and where its handler may be.
RowsOK ==
  /\ pc \in [Users \X Tabs -> Shell!PCs] /\ fate \in [Users \X Tabs -> Shell!Fates]
  /\ \A s \in Users \X Tabs :
       /\ pc[s] \in {"new", "refusing", "failing", "greeting"} => fate[s] = "none"
       /\ pc[s] \in Shell!PtyAt => s \in opened
       /\ pc[s] \in {"closing", "over"} => fate[s] # "pumps"
       /\ fate[s] \in Shell!Reasons => s \in opened \cap closed

\* One handler moves on, and what it does to its own rows is right.
RowStep(s) ==
  /\ \E p \in Shell!PCs : pc' = [pc EXCEPT ![s] = p]
  /\ \E f \in Shell!Fates : fate' = [fate EXCEPT ![s] = f]
  /\ opened \subseteq opened' /\ closed \subseteq closed'
  /\ pc'[s] \in {"new", "refusing", "failing", "greeting"} => fate'[s] = "none"
  /\ pc'[s] \in Shell!PtyAt => s \in opened'
  /\ pc'[s] \in {"closing", "over"} => fate'[s] # "pumps"
  /\ fate'[s] \in Shell!Reasons => s \in opened' \cap closed'

LEMMA RowStepKeeps ==
  ASSUME RowsOK, NEW s \in Users \X Tabs, RowStep(s)
  PROVE  RowsOK'
<1>1. pc' \in [Users \X Tabs -> Shell!PCs] /\ fate' \in [Users \X Tabs -> Shell!Fates]
  BY DEF RowsOK, RowStep
<1>2. \A t \in (Users \X Tabs) \ {s} : pc'[t] = pc[t] /\ fate'[t] = fate[t]
  BY DEF RowsOK, RowStep
<1>3. ASSUME NEW t \in Users \X Tabs
      PROVE  /\ pc'[t] \in {"new", "refusing", "failing", "greeting"} => fate'[t] = "none"
             /\ pc'[t] \in Shell!PtyAt => t \in opened'
             /\ pc'[t] \in {"closing", "over"} => fate'[t] # "pumps"
             /\ fate'[t] \in Shell!Reasons => t \in opened' \cap closed'
  <2>1. CASE t = s
    BY <2>1 DEF RowStep
  <2>2. CASE t # s
    BY <1>2, <2>2 DEF RowsOK, RowStep
  <2> QED BY <2>1, <2>2
<1> QED BY <1>1, <1>3 DEF RowsOK

\* The reason a session ends for becomes its fate, or the row could not be written.
LEMMA EndingKeeps ==
  ASSUME RowsOK, NEW s \in Users \X Tabs, NEW reason \in Shell!Reasons, pc[s] = "running",
         Shell!CloseRow(s, reason), NEW p \in {"closing", "over"}, Shell!Goto(s, p),
         UNCHANGED opened
  PROVE  RowsOK'
<1>1. RowStep(s)
  BY DEF RowsOK, RowStep, Shell!CloseRow, Shell!Goto, Shell!PCs, Shell!Fates,
         Shell!Reasons, Shell!PtyAt
<1> QED BY <1>1, RowStepKeeps

\* No row is touched.
LEMMA QuietKeeps ==
  ASSUME RowsOK, NEW s \in Users \X Tabs, UNCHANGED <<opened, closed, fate>>, NEW p \in Shell!PCs,
         pc' = [pc EXCEPT ![s] = p],
         \/ p = pc[s]
         \/ p = "over" /\ pc[s] \notin {"running", "crashed"}
         \/ pc[s] = "new" /\ p \in {"refusing", "failing"}
  PROVE  RowsOK'
<1>1. RowStep(s)
  BY DEF RowsOK, RowStep, Shell!PCs, Shell!Fates, Shell!Reasons, Shell!PtyAt
<1> QED BY <1>1, RowStepKeeps

LEMMA HandlerKeepsRows ==
  ASSUME RowsOK, NEW s \in Users \X Tabs, Shell!Handler(s)
  PROVE  RowsOK'
<1> USE DEF Shell!Goto, Shell!rows
<1>1. CASE Shell!Refuse(s)
  BY <1>1, QuietKeeps DEF Shell!Refuse, Shell!PCs
<1>2. CASE Shell!ConnectFails(s)
  BY <1>2, QuietKeeps DEF Shell!ConnectFails, Shell!PCs
<1>3. CASE Shell!OpenRowFails(s)
  BY <1>3, QuietKeeps DEF Shell!OpenRowFails, Shell!PCs
<1>4. CASE Shell!Connect(s)
  <2>1. RowStep(s)
    BY <1>4 DEF Shell!Connect, RowsOK, RowStep, Shell!PCs, Shell!Fates, Shell!Reasons
  <2> QED BY <2>1, RowStepKeeps
<1>5. CASE Shell!Greet(s)
  <2>1. RowStep(s)
    BY <1>5 DEF Shell!Greet, RowsOK, RowStep, Shell!PCs, Shell!Fates, Shell!PtyAt, Shell!Reasons
  <2> QED BY <2>1, RowStepKeeps
<1>6. CASE Shell!GreetFails(s)
  BY <1>6, QuietKeeps DEF Shell!GreetFails, Shell!PCs
<1>7. CASE Shell!Activity(s)
  <2>1. pc' = [pc EXCEPT ![s] = pc[s]] /\ pc[s] \in Shell!PCs
        /\ UNCHANGED <<opened, closed, fate>>
    BY <1>7 DEF Shell!Activity, RowsOK
  <2> QED BY <2>1, QuietKeeps
<1>8. CASE Shell!HangUp(s) \/ Shell!Supervise(s)
  <2>1. PICK reason \in Shell!Reasons : Shell!WindDown(s, reason)
    BY <1>8 DEF Shell!HangUp, Shell!Supervise, Shell!Reasons
  <2> QED BY <2>1, EndingKeeps DEF Shell!WindDown
<1>9. CASE Shell!Finish(s)
  BY <1>9, QuietKeeps DEF Shell!Finish, Shell!PCs
<1>10. CASE Shell!Cancel(s)
  <2>1. CASE pc[s] = "running"
    BY <1>10, <2>1, EndingKeeps DEF Shell!Cancel, Shell!Reasons
  <2>2. CASE pc[s] # "running"
    BY <1>10, <2>2, QuietKeeps DEF Shell!Cancel, Shell!PCs, Shell!Gone
  <2> QED BY <2>1, <2>2
<1> QED BY <1>1, <1>2, <1>3, <1>4, <1>5, <1>6, <1>7, <1>8, <1>9, <1>10 DEF Shell!Handler

LEMMA InitRows == LoopInit => RowsOK
  BY DEF LoopInit, Shell!Init, RowsOK, Shell!Sessions, Shell!PCs, Shell!Fates, Shell!PtyAt,
         Shell!Reasons

LEMMA StepKeepsRows == RowsOK /\ [LoopNext]_<<task, vars, shellVars>> => RowsOK'
<1> SUFFICES ASSUME RowsOK, [LoopNext]_<<task, vars, shellVars>> PROVE RowsOK'
  OBVIOUS
<1>1. CASE UNCHANGED shellVars
  BY <1>1 DEF shellVars, RowsOK
<1>2. CASE Shell!Tick
  BY <1>2 DEF Shell!Tick, Shell!rows, RowsOK
<1>3. CASE Shell!Crash
  <2>1. /\ pc' = [s \in Users \X Tabs |->
                    IF pc[s] \in {"new", "over", "crashed"} THEN pc[s] ELSE "crashed"]
        /\ UNCHANGED <<opened, closed, fate>>
    BY <1>3 DEF Shell!Crash, Shell!rows, Shell!Gone, Shell!Sessions
  <2> QED BY <2>1 DEF RowsOK, Shell!PCs, Shell!PtyAt
<1>4. CASE \E s \in Users \X Tabs : Shell!Handler(s)
  BY <1>4, HandlerKeepsRows
<1> QED BY <1>1, <1>2, <1>3, <1>4 DEF LoopNext, Shell!Next, Shell!Sessions

\* A session that got as far as its pumps leaves both of its audit rows, however it ends, the
\* shutdown of the application included: only a table that could not be written, or the death
\* of the process, costs it the second one.
THEOREM PumpedAreAudited == LoopSpec => []PumpedSessionsAudited
<1>1. RowsOK => PumpedSessionsAudited
  BY DEF RowsOK, PumpedSessionsAudited, Shell!PumpedSessionsAudited, Shell!Sessions
<1> QED BY <1>1, InitRows, StepKeepsRows, PTL DEF LoopSpec

\* The loop of the log shippers is LogShipper's own, whatever the shell does.
THEOREM LoopOfTheLogs == LoopSpec => [](NeverTwice /\ NoGapsWhenDistinct)
<1>1. LoopInit => Inv
  BY InitInv DEF LoopInit
<1>2. Inv /\ [LoopNext]_<<task, vars, shellVars>> => Inv'
  BY StepInv DEF LoopNext
<1>3. Inv => NeverTwice /\ NoGapsWhenDistinct
  BY DEF Inv
<1> QED BY <1>1, <1>2, <1>3, PTL DEF LoopSpec
===============================================================================
