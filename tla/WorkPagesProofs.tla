----------------------------- MODULE WorkPagesProofs ---------------------------
(***************************************************************************)
(* Theorems about the pages that are not about one server, for any sets of   *)
(* connections, keys, namespaces, lines and ranges. Each part is proved about   *)
(* on its own, from its own initial states and steps; WorkPages runs one part    *)
(* at a time, and so has what each of them has.                               *)
(***************************************************************************)
EXTENDS WorkPages, DbWorkspaceProofs, FoldLemmas, FiniteSetTheorems, FunctionTheorems,
        WellFoundedInduction

pagesVars == <<part, vars, navigator, keyspace, kube, inventory, viewer, chart>>

\* A behaviour of the pages is one of every part: of the one that moves, and of
\* those that stay where they start.
LEMMA PartsOfPages ==
  PagesSpec => /\ Spec /\ Connections!Spec /\ Keyspace!Spec /\ Kube!Spec
               /\ Inventory!Spec /\ Viewer!Spec /\ Chart!Spec
<1>1. PagesInit => /\ Init /\ Connections!Init /\ Keyspace!Init /\ Kube!Init
                   /\ Inventory!Init /\ Viewer!Init /\ Chart!Init
  BY DEF PagesInit
<1>2. [PagesNext]_pagesVars =>
        /\ [Next]_vars /\ [Connections!Next]_(Connections!vars)
        /\ [Keyspace!Next]_(Keyspace!vars) /\ [Kube!Next]_(Kube!vars)
        /\ [Inventory!Next]_(Inventory!vars) /\ [Viewer!Next]_(Viewer!vars)
        /\ [Chart!Next]_(Chart!vars)
  BY DEF PagesNext, pagesVars, vars, navigator, keyspace, kube, inventory, viewer, chart,
         Connections!vars, Connections!server, Connections!tree,
         Keyspace!vars, Keyspace!list, Keyspace!value,
         Kube!vars, Kube!reads, Kube!logs, Kube!slot,
         Inventory!vars, Inventory!store, Inventory!page, Inventory!run,
         Viewer!vars, Viewer!builder, Viewer!results, Viewer!spinners,
         Chart!vars, Chart!where, Chart!view, Chart!chart
<1> QED
  BY <1>1, <1>2, PTL
  DEF PagesSpec, pagesVars, Spec, Connections!Spec, Keyspace!Spec, Kube!Spec, Inventory!Spec,
      Viewer!Spec, Chart!Spec

-----------------------------------------------------------------------------
(* The console of the Redis view. Answers carry no ticket, so the argument is   *)
(* about the one command that may be under way.                               *)

\* Requests are numbered as they are sent.
Numbered == commanded \in Nat /\ \A q \in commands : q.n \in Nat /\ q.n <= commanded

\* A command under way is the only one, keeps the console waiting and comes after
\* all that the log tells.
OneCommand ==
  \A q \in commands : q.kind = "command" =>
    /\ running
    /\ \A i \in DOMAIN log : log[i] < q.n
    /\ \A p \in commands : p.kind = "command" => p = q

\* The log tells of requests that were sent.
Told == log \in Seq(Nat) /\ \A i \in DOMAIN log : log[i] <= commanded

ConsoleInv == Numbered /\ OneCommand /\ Told /\ Keyspace!LogIsInOrder

\* A request just sent that is no command.
Other(q) == q.kind # "command" /\ q.n \in Nat /\ q.n <= commanded'

-----------------------------------------------------------------------------
\* Nothing is told or asked at first.
LEMMA ConsoleInit == Keyspace!Init => ConsoleInv
  BY DEF Keyspace!Init, ConsoleInv, Numbered, OneCommand, Told, Keyspace!LogIsInOrder

\* A step that sends neither a command nor tells one, and forgets some requests.
LEMMA OtherRequests ==
  ASSUME ConsoleInv, \A q \in commands' : q \in commands \/ Other(q),
         commanded' \in Nat, commanded <= commanded', UNCHANGED <<running, log>>
  PROVE  ConsoleInv'
<1>1. Numbered'
  BY DEF ConsoleInv, Numbered, Other
<1>2. OneCommand'
  BY DEF ConsoleInv, OneCommand, Other
<1>3. Told'
  <2>1. \A i \in DOMAIN log : log[i] \in Nat
    BY DEF ConsoleInv, Told
  <2> QED
    BY <2>1 DEF ConsoleInv, Told, Numbered
<1>4. Keyspace!LogIsInOrder'
  BY DEF ConsoleInv, Keyspace!LogIsInOrder
<1> QED
  BY <1>1, <1>2, <1>3, <1>4 DEF ConsoleInv

\* Another place, in an open view or a new one: the list is scanned again.
LEMMA ShowPlaceKeeps ==
  ASSUME ConsoleInv, NEW others \in SUBSET commands, NEW at, Keyspace!ShowPlace(others, at)
  PROVE  /\ commanded' \in Nat /\ commanded <= commanded'
         /\ \A q \in commands' : q \in others \/ Other(q)
<1> DEFINE scan == Keyspace!Scan(1, at, 0, TRUE)
<1>1. scan.kind = "scan" /\ scan.n = commanded + 1
  BY DEF Keyspace!Scan
<1>2. commands' = others \cup {scan} /\ commanded' = commanded + 1
  BY DEF Keyspace!ShowPlace, Keyspace!Send
<1> HIDE DEF scan
<1> QED
  BY <1>1, <1>2 DEF ConsoleInv, Numbered, Other

\* The answer of the command under way ends the log, and no other command is left.
LEMMA CommandAnswered ==
  ASSUME ConsoleInv, NEW q \in commands, q.kind = "command",
         \A r \in commands' : r \in commands \ {q} \/ Other(r),
         commanded' \in Nat, commanded <= commanded', log' = Append(log, q.n)
  PROVE  ConsoleInv'
<1>1. q.n \in Nat /\ q.n <= commanded /\ \A i \in DOMAIN log : log[i] < q.n
  BY DEF ConsoleInv, Numbered, OneCommand
<1>2. log \in Seq(Nat) /\ DOMAIN log = 1 .. Len(log)
  BY DEF ConsoleInv, Told
<1>3. /\ log' \in Seq(Nat) /\ DOMAIN log' = 1 .. Len(log) + 1
      /\ \A i \in 1 .. Len(log) : log'[i] = log[i]
      /\ log'[Len(log) + 1] = q.n
  BY <1>1, <1>2, AppendProperties
<1>4. Numbered'
  BY DEF ConsoleInv, Numbered, Other
<1>5. OneCommand'
  <2>1. \A r \in commands' : r.kind # "command"
    BY DEF ConsoleInv, OneCommand, Other
  <2> QED
    BY <2>1 DEF OneCommand
<1>6. \A i \in DOMAIN log : log[i] \in Nat /\ log[i] <= commanded
  BY <1>2 DEF ConsoleInv, Told
<1>7. Told'
  BY <1>1, <1>2, <1>3, <1>6 DEF Told, ConsoleInv, Numbered
<1>8. Keyspace!LogIsInOrder'
  <2>1. \A i, j \in 1 .. Len(log) : i < j => log[i] < log[j]
    BY <1>2 DEF ConsoleInv, Keyspace!LogIsInOrder
  <2>2. \A i \in 1 .. Len(log) : log'[i] < log'[Len(log) + 1]
    BY <1>1, <1>2, <1>3
  <2>3. Len(log) \in Nat
    BY <1>2
  <2>4. \A i, j \in 1 .. Len(log) + 1 :
          i < j => i \in 1 .. Len(log) /\ (j \in 1 .. Len(log) \/ j = Len(log) + 1)
    BY <2>3
  <2> QED
    BY <1>3, <2>1, <2>2, <2>4 DEF Keyspace!LogIsInOrder
<1> QED
  BY <1>4, <1>5, <1>7, <1>8 DEF ConsoleInv

\* No step disturbs the console's order.
LEMMA ConsoleStep == ConsoleInv /\ [Keyspace!Next]_(Keyspace!vars) => ConsoleInv'
<1> SUFFICES ASSUME ConsoleInv, [Keyspace!Next]_(Keyspace!vars) PROVE ConsoleInv'
  OBVIOUS
<1>n. commanded \in Nat /\ \A q \in commands : q.n \in Nat /\ q.n <= commanded
  BY DEF ConsoleInv, Numbered
<1>1. ASSUME NEW c, NEW d, Keyspace!OpenView(c, d) PROVE ConsoleInv'
  <2>1. commanded' \in Nat /\ \A q \in commands' : Other(q)
    BY <1>1, ShowPlaceKeeps DEF Keyspace!OpenView
  <2>2. log' = << >>
    BY <1>1 DEF Keyspace!OpenView
  <2> QED
    BY <2>1, <2>2 DEF ConsoleInv, Numbered, OneCommand, Told, Keyspace!LogIsInOrder, Other
<1>2. ASSUME NEW c, NEW d, NEW p, Keyspace!ChangePlace(c, d, p) PROVE ConsoleInv'
  <2>1. /\ commanded' \in Nat /\ commanded <= commanded'
        /\ \A q \in commands' : q \in commands \/ Other(q)
    BY <1>2, ShowPlaceKeeps DEF Keyspace!ChangePlace
  <2>2. UNCHANGED <<running, log>>
    BY <1>2 DEF Keyspace!ChangePlace
  <2> QED
    BY <2>1, <2>2, OtherRequests
<1>3. ASSUME NEW q, q.kind # "command", q.n = commanded + 1, Keyspace!Send(commands, {q}, 1),
             UNCHANGED <<running, log>>
      PROVE  ConsoleInv'
  <2>1. commands' = commands \cup {q} /\ commanded' = commanded + 1
    BY <1>3 DEF Keyspace!Send
  <2> QED
    BY <1>3, <1>n, <2>1, OtherRequests DEF Other
<1>4. CASE Keyspace!Refresh \/ Keyspace!LoadMore \/ \E k \in Keys : Keyspace!SelectKey(k)
  <2>1. CASE Keyspace!Refresh
    <3> DEFINE scan == Keyspace!Scan(1, Keyspace!Place, 0, TRUE)
    <3>1. scan.kind # "command" /\ scan.n = commanded + 1
      BY DEF Keyspace!Scan
    <3>2. Keyspace!Send(commands, {scan}, 1) /\ UNCHANGED <<running, log>>
      BY <2>1 DEF Keyspace!Refresh
    <3> HIDE DEF scan
    <3> QED
      BY <1>3, <3>1, <3>2
  <2>2. CASE Keyspace!LoadMore
    <3> DEFINE scan == Keyspace!Scan(1, Keyspace!Place, cursor, FALSE)
    <3>1. scan.kind # "command" /\ scan.n = commanded + 1
      BY DEF Keyspace!Scan
    <3>2. Keyspace!Send(commands, {scan}, 1) /\ UNCHANGED <<running, log>>
      BY <2>2 DEF Keyspace!LoadMore
    <3> HIDE DEF scan
    <3> QED
      BY <1>3, <3>1, <3>2
  <2>3. ASSUME NEW k \in Keys, Keyspace!SelectKey(k) PROVE ConsoleInv'
    <3> DEFINE read == Keyspace!Read(1, Keyspace!Place, k)
    <3>1. read.kind # "command" /\ read.n = commanded + 1
      BY DEF Keyspace!Read
    <3>2. Keyspace!Send(commands, {read}, 1) /\ UNCHANGED <<running, log>>
      BY <2>3 DEF Keyspace!SelectKey
    <3> HIDE DEF read
    <3> QED
      BY <1>3, <3>1, <3>2
  <2> QED
    BY <1>4, <2>1, <2>2, <2>3
<1>5. CASE Keyspace!CloseView
  <2>1. commands' = {} /\ commanded' = commanded /\ UNCHANGED <<running, log>>
    BY <1>5 DEF Keyspace!CloseView
  <2> QED
    BY <1>n, <2>1, OtherRequests
<1>6. ASSUME NEW q \in commands, Keyspace!ScanAnswered(q) \/ Keyspace!KeyAnswered(q) PROVE ConsoleInv'
  <2>1. commands' = commands \ {q} /\ commanded' = commanded /\ UNCHANGED <<running, log>>
    BY <1>6 DEF Keyspace!ScanAnswered, Keyspace!KeyAnswered, Keyspace!Take
  <2> QED
    BY <1>n, <2>1, OtherRequests
<1>7. CASE Keyspace!SubmitCommand
  <2>1. ~running /\ running' = TRUE /\ log' = log
    BY <1>7 DEF Keyspace!SubmitCommand, Keyspace!maySubmit
  <2>2. commands' = commands \cup {Keyspace!Command} /\ commanded' = commanded + 1
    BY <1>7 DEF Keyspace!SubmitCommand, Keyspace!Send
  <2>3. Keyspace!Command.n = commanded + 1 /\ Keyspace!Command.kind = "command"
    BY DEF Keyspace!Command
  <2>4. \A q \in commands : q.kind # "command"
    BY <2>1 DEF ConsoleInv, OneCommand
  <2>5. \A i \in DOMAIN log : log[i] \in Nat /\ log[i] <= commanded
    BY DEF ConsoleInv, Told
  <2> QED
    BY <1>n, <2>1, <2>2, <2>3, <2>4, <2>5
    DEF ConsoleInv, Numbered, OneCommand, Told, Keyspace!LogIsInOrder
<1>8. ASSUME NEW q \in commands, Keyspace!CommandFails(q) PROVE ConsoleInv'
  <2>1. commands' = commands \ {q} /\ commanded' = commanded /\ log' = Append(log, q.n)
    BY <1>8 DEF Keyspace!CommandFails, Keyspace!Take
  <2> QED
    BY <1>8, <1>n, <2>1, CommandAnswered DEF Keyspace!CommandFails
<1>9. ASSUME NEW q \in commands, Keyspace!CommandWorks(q) PROVE ConsoleInv'
  <2> DEFINE scan == Keyspace!Scan(1, q.at, 0, TRUE)
             read == Keyspace!Read(2, q.at, q.key)
  <2>1. q.kind = "command" /\ log' = Append(log, q.n)
    BY <1>9 DEF Keyspace!CommandWorks
  <2>2. /\ scan.kind = "scan" /\ scan.n = commanded + 1
        /\ read.kind = "key" /\ read.n = commanded + 2
    BY DEF Keyspace!Scan, Keyspace!Read
  <2>3. \/ commands' = (commands \ {q}) \cup {scan} /\ commanded' = commanded + 1
        \/ commands' = (commands \ {q}) \cup {scan, read} /\ commanded' = commanded + 2
    BY <1>9 DEF Keyspace!CommandWorks, Keyspace!Send
  <2> HIDE DEF scan, read
  <2>4. commanded' \in Nat /\ commanded <= commanded'
    BY <1>n, <2>3
  <2>5. \A r \in commands' : r \in commands \ {q} \/ Other(r)
    BY <1>n, <2>2, <2>3 DEF Other
  <2> QED
    BY <2>1, <2>4, <2>5, CommandAnswered
<1>10. CASE UNCHANGED Keyspace!vars
  BY <1>10 DEF Keyspace!vars, ConsoleInv, Numbered, OneCommand, Told, Keyspace!LogIsInOrder
<1> QED
  BY <1>1, <1>2, <1>4, <1>5, <1>6, <1>7, <1>8, <1>9, <1>10
  DEF Keyspace!Next, Keyspace!Navigator, Keyspace!Header, Keyspace!KeyList, Keyspace!Console, Keyspace!Answers

\* The log tells the commands in the order they were sent.
THEOREM LogKeepsOrder == PagesSpec => []LogIsInOrder
<1>1. ConsoleInv => LogIsInOrder
  BY DEF ConsoleInv, LogIsInOrder
<1> QED
  BY PartsOfPages, ConsoleInit, ConsoleStep, <1>1, PTL DEF Keyspace!Spec

-----------------------------------------------------------------------------
(* The types of the Redis view: an answer is of a request as it was made, and     *)
(* the next page of a scan exists.                                            *)

Places == [conn : Conns, db : Dbs, pattern : Patterns]

\* What a request is about.
ScanOrRead(q, last) ==
  /\ q.n \in 1 .. last
  /\ q.kind = "scan" => q.at \in Places /\ q.page \in 0 .. LastPage
  /\ q.kind = "key" => q.key \in Keys
  /\ q.kind = "command" => q.at \in Places /\ q.key \in Keys \cup {None}

ViewOfKeys ==
  /\ conn \in Conns \cup {None} /\ db \in Dbs /\ pattern \in Patterns
  /\ cursor \in 0 .. LastPage
  /\ keys \in Seq([at : Places, page : 0 .. LastPage])
  /\ selected \in Keys \cup {None} /\ detail \in [key : Keys \cup {None}]
  /\ {scanning, reading, running} \subseteq BOOLEAN

Requested == commanded \in 0 .. MaxRedis /\ \A q \in commands : ScanOrRead(q, commanded)

KeyspaceInv == ViewOfKeys /\ Requested

\* What is sent is numbered past what was.
LEMMA KeyspaceSends ==
  ASSUME Keyspace!RedisAssumption, Requested, NEW others \in SUBSET commands, NEW qs,
         NEW count \in 1 .. 2, Keyspace!Send(others, qs, count),
         \A q \in qs : ScanOrRead(q, commanded + count)
  PROVE  Requested'
<1>1. commanded' = commanded + count /\ commanded' \in 0 .. MaxRedis
  BY DEF Keyspace!Send, Requested, Keyspace!RedisAssumption
<1>2. ASSUME NEW q \in others PROVE ScanOrRead(q, commanded + count)
  BY DEF Requested, ScanOrRead
<1>3. \A q \in commands' : ScanOrRead(q, commanded + count)
  BY <1>2 DEF Keyspace!Send
<1> QED
  BY <1>1, <1>3 DEF Requested

\* A scan of a place.
LEMMA ScanIsSound ==
  ASSUME Requested, NEW at \in Places, NEW p \in 0 .. LastPage, NEW reset,
         NEW count \in 1 .. 2
  PROVE  ScanOrRead(Keyspace!Scan(1, at, p, reset), commanded + count)
  BY DEF Keyspace!Scan, ScanOrRead, Requested

\* The place of an open view.
LEMMA PlaceIsSound == ViewOfKeys /\ conn # None => Keyspace!Place \in Places
  BY DEF ViewOfKeys, Keyspace!Place, Places

\* The view shows another place, or opens there.
LEMMA KeyspaceShows ==
  ASSUME Keyspace!RedisAssumption, KeyspaceInv, NEW others \in SUBSET commands,
         NEW at \in Places, Keyspace!ShowPlace(others, at),
         {reading', running'} \subseteq BOOLEAN
  PROVE  KeyspaceInv'
<1>1. ViewOfKeys'
  BY DEF Keyspace!ShowPlace, Places, ViewOfKeys, Keyspace!NoDetail, Keyspace!RedisAssumption
<1>2. ScanOrRead(Keyspace!Scan(1, at, 0, TRUE), commanded + 1)
  <2>1. Requested /\ 0 \in 0 .. LastPage /\ 1 \in 1 .. 2
    BY DEF KeyspaceInv, Keyspace!RedisAssumption
  <2> QED
    BY <2>1, ScanIsSound
<1>3. PICK scan : scan = Keyspace!Scan(1, at, 0, TRUE)
  OBVIOUS
<1>4. Keyspace!Send(others, {scan}, 1) /\ \A q \in {scan} : ScanOrRead(q, commanded + 1)
  BY <1>2, <1>3 DEF Keyspace!ShowPlace
<1>5. Requested'
  BY <1>4, KeyspaceSends DEF KeyspaceInv
<1> QED
  BY <1>1, <1>5 DEF KeyspaceInv

\* An answer is taken.
LEMMA KeyspaceTakes ==
  ASSUME Requested, NEW q, Keyspace!Take(q)
  PROVE  Requested'
  BY DEF Requested, Keyspace!Take

\* The operator.
LEMMA KeyspaceOperator ==
  ASSUME Keyspace!RedisAssumption, KeyspaceInv,
         Keyspace!Navigator \/ Keyspace!Header \/ Keyspace!KeyList \/ Keyspace!Console
  PROVE  KeyspaceInv'
<1>1. CASE Keyspace!CloseView
  BY <1>1 DEF Keyspace!CloseView, Keyspace!list, Keyspace!value, KeyspaceInv, ViewOfKeys, Requested
<1>2. ASSUME NEW c \in Conns, NEW d \in Dbs, Keyspace!OpenView(c, d) PROVE KeyspaceInv'
  <2>1. PICK at : at = [conn |-> c, db |-> d, pattern |-> "*"]
    OBVIOUS
  <2>2. at \in Places
    BY <2>1 DEF Places, Keyspace!RedisAssumption
  <2>3. Keyspace!ShowPlace({}, at) /\ {reading', running'} \subseteq BOOLEAN
    BY <1>2, <2>1 DEF Keyspace!OpenView
  <2> QED
    BY <2>2, <2>3, KeyspaceShows
<1>3. ASSUME NEW c \in Conns, NEW d \in Dbs, NEW p \in Patterns, Keyspace!ChangePlace(c, d, p)
      PROVE  KeyspaceInv'
  <2>1. PICK at : at = [conn |-> c, db |-> d, pattern |-> p]
    OBVIOUS
  <2>2. at \in Places
    BY <2>1 DEF Places
  <2>3. Keyspace!ShowPlace(commands, at) /\ {reading', running'} \subseteq BOOLEAN
    BY <1>3, <2>1 DEF Keyspace!ChangePlace, KeyspaceInv, ViewOfKeys
  <2> QED
    BY <2>2, <2>3, KeyspaceShows
<1>4. db \in Dbs /\ pattern \in Patterns /\ (conn # None => conn \in Conns)
  BY DEF KeyspaceInv, ViewOfKeys
<1>5. ASSUME NEW p \in 0 .. LastPage, NEW reset, conn # None,
             Keyspace!Send(commands, {Keyspace!Scan(1, Keyspace!Place, p, reset)}, 1)
      PROVE  Requested'
  <2>1. PICK scan : scan = Keyspace!Scan(1, Keyspace!Place, p, reset)
    OBVIOUS
  <2>2. ScanOrRead(scan, commanded + 1)
    BY <1>5, <2>1, PlaceIsSound, ScanIsSound DEF KeyspaceInv
  <2>3. Keyspace!Send(commands, {scan}, 1) /\ \A q \in {scan} : ScanOrRead(q, commanded + 1)
    BY <1>5, <2>1, <2>2
  <2> QED
    BY <2>3, KeyspaceSends DEF KeyspaceInv
<1>6. CASE Keyspace!Refresh \/ Keyspace!LoadMore
  <2>1. ViewOfKeys'
    BY <1>6 DEF Keyspace!Refresh, Keyspace!LoadMore, Keyspace!value, KeyspaceInv, ViewOfKeys
  <2>2. 0 \in 0 .. LastPage /\ cursor \in 0 .. LastPage
    BY DEF Keyspace!RedisAssumption, KeyspaceInv, ViewOfKeys
  <2>3. Requested'
    BY <1>5, <1>6, <2>2 DEF Keyspace!Refresh, Keyspace!LoadMore
  <2> QED
    BY <2>1, <2>3 DEF KeyspaceInv
<1>7. ASSUME NEW k \in Keys, Keyspace!SelectKey(k) PROVE KeyspaceInv'
  <2>1. ViewOfKeys'
    BY <1>7 DEF Keyspace!SelectKey, Keyspace!list, Keyspace!NoDetail, KeyspaceInv, ViewOfKeys
  <2>2. PICK read : read = Keyspace!Read(1, Keyspace!Place, k)
    OBVIOUS
  <2>3. ScanOrRead(read, commanded + 1)
    BY <2>2 DEF Keyspace!Read, ScanOrRead, KeyspaceInv, Requested
  <2>4. Keyspace!Send(commands, {read}, 1) /\ \A q \in {read} : ScanOrRead(q, commanded + 1)
    BY <1>7, <2>2, <2>3 DEF Keyspace!SelectKey
  <2>5. Requested'
    BY <2>4, KeyspaceSends DEF KeyspaceInv
  <2> QED
    BY <2>1, <2>5 DEF KeyspaceInv
<1>8. CASE Keyspace!SubmitCommand
  <2>1. ViewOfKeys'
    BY <1>8 DEF Keyspace!SubmitCommand, Keyspace!list, Keyspace!value, KeyspaceInv, ViewOfKeys
  <2>2. PICK q : q = Keyspace!Command
    OBVIOUS
  <2>3. conn # None
    BY <1>8 DEF Keyspace!SubmitCommand, Keyspace!maySubmit
  <2>4. ScanOrRead(q, commanded + 1)
    BY <2>2, <2>3, PlaceIsSound
       DEF Keyspace!Command, ScanOrRead, KeyspaceInv, ViewOfKeys, Requested
  <2>5. Keyspace!Send(commands, {q}, 1) /\ \A r \in {q} : ScanOrRead(r, commanded + 1)
    BY <1>8, <2>2, <2>4 DEF Keyspace!SubmitCommand
  <2>6. Requested'
    BY <2>5, KeyspaceSends DEF KeyspaceInv
  <2> QED
    BY <2>1, <2>6 DEF KeyspaceInv
<1>9. \A c, d, p : Keyspace!ChangePlace(c, d, p) => conn # None
  BY DEF Keyspace!ChangePlace
<1> QED
  BY <1>1, <1>2, <1>3, <1>4, <1>6, <1>7, <1>8, <1>9
     DEF Keyspace!Navigator, Keyspace!Header, Keyspace!KeyList, Keyspace!Console

\* The answer of a scan.
LEMMA KeyspaceScanned ==
  ASSUME Keyspace!RedisAssumption, KeyspaceInv, NEW q \in commands, Keyspace!ScanAnswered(q)
  PROVE  KeyspaceInv'
<1>1. Requested'
  BY KeyspaceTakes DEF Keyspace!ScanAnswered, KeyspaceInv
<1>2. q.at \in Places /\ q.page \in 0 .. LastPage
  BY DEF Keyspace!ScanAnswered, KeyspaceInv, Requested, ScanOrRead
<1>3. keys' \in Seq([at : Places, page : 0 .. LastPage]) /\ cursor' \in 0 .. LastPage
  <2>1. CASE UNCHANGED <<keys, cursor>>
    BY <2>1 DEF KeyspaceInv, ViewOfKeys
  <2>2. CASE /\ keys' = (IF q.reset THEN << >> ELSE keys) \o <<[at |-> q.at, page |-> q.page]>>
             /\ cursor' = IF q.page = LastPage THEN 0 ELSE q.page + 1
    <3>1. PICK row : row = [at |-> q.at, page |-> q.page]
      OBVIOUS
    <3>2. PICK was : was = IF q.reset THEN << >> ELSE keys
      OBVIOUS
    <3>3. row \in [at : Places, page : 0 .. LastPage]
      BY <1>2, <3>1
    <3>4. was \in Seq([at : Places, page : 0 .. LastPage])
      BY <3>2 DEF KeyspaceInv, ViewOfKeys
    <3>5. keys' = was \o <<row>>
      BY <2>2, <3>1, <3>2
    <3> HIDE <3>1, <3>2
    <3>6. keys' \in Seq([at : Places, page : 0 .. LastPage])
      BY <3>3, <3>4, <3>5
    <3> QED
      BY <1>2, <2>2, <3>6 DEF Keyspace!RedisAssumption
  <2> QED
    BY <2>1, <2>2 DEF Keyspace!ScanAnswered
<1>4. ViewOfKeys'
  BY <1>3 DEF Keyspace!ScanAnswered, Keyspace!value, KeyspaceInv, ViewOfKeys
<1> QED
  BY <1>1, <1>4 DEF KeyspaceInv

\* The answer of a command, or of a key.
LEMMA KeyspaceAnswered ==
  ASSUME Keyspace!RedisAssumption, KeyspaceInv, NEW q \in commands,
         Keyspace!KeyAnswered(q) \/ Keyspace!CommandWorks(q) \/ Keyspace!CommandFails(q)
  PROVE  KeyspaceInv'
<1>0. ScanOrRead(q, commanded)
  BY DEF KeyspaceInv, Requested
<1>1. CASE Keyspace!KeyAnswered(q)
  <2>1. Requested'
    BY <1>1, KeyspaceTakes DEF Keyspace!KeyAnswered, KeyspaceInv
  <2>2. detail' \in [key : Keys \cup {None}]
    BY <1>0, <1>1 DEF Keyspace!KeyAnswered, ScanOrRead, KeyspaceInv, ViewOfKeys
  <2> QED
    BY <1>1, <2>1, <2>2 DEF Keyspace!KeyAnswered, Keyspace!list, KeyspaceInv, ViewOfKeys
<1>2. CASE Keyspace!CommandFails(q)
  <2>1. Requested'
    BY <1>2, KeyspaceTakes DEF Keyspace!CommandFails, KeyspaceInv
  <2> QED
    BY <1>2, <2>1 DEF Keyspace!CommandFails, Keyspace!list, Keyspace!value, KeyspaceInv, ViewOfKeys
<1>3. CASE Keyspace!CommandWorks(q)
  <2>1. q.at \in Places /\ q.key \in Keys \cup {None} /\ 0 \in 0 .. LastPage
    BY <1>0, <1>3 DEF Keyspace!CommandWorks, ScanOrRead, Keyspace!RedisAssumption
  <2>2. PICK scan, read : scan = Keyspace!Scan(1, q.at, 0, TRUE) /\ read = Keyspace!Read(2, q.at, q.key)
    OBVIOUS
  <2>3. ScanOrRead(scan, commanded + 1) /\ ScanOrRead(scan, commanded + 2)
    <3>1. Requested /\ 1 \in 1 .. 2 /\ 2 \in 1 .. 2
      BY DEF KeyspaceInv
    <3> QED
      BY <2>1, <2>2, <3>1, ScanIsSound
  <2>4. CASE q.key = None
    <3>1. /\ Keyspace!Send(commands \ {q}, {scan}, 1) /\ UNCHANGED <<selected, detail, reading>>
          /\ \A r \in {scan} : ScanOrRead(r, commanded + 1)
      BY <1>3, <2>2, <2>3, <2>4 DEF Keyspace!CommandWorks, Keyspace!value
    <3>2. Requested'
      BY <3>1, KeyspaceSends DEF KeyspaceInv
    <3> QED
      BY <1>3, <3>1, <3>2 DEF Keyspace!CommandWorks, KeyspaceInv, ViewOfKeys
  <2>5. CASE q.key # None
    <3>1. ScanOrRead(read, commanded + 2)
      BY <2>1, <2>2, <2>5 DEF Keyspace!Read, ScanOrRead, KeyspaceInv, Requested
    <3>2. /\ Keyspace!Send(commands \ {q}, {scan, read}, 2)
          /\ selected' = q.key /\ detail' = Keyspace!NoDetail /\ reading' = TRUE
      BY <1>3, <2>2, <2>5 DEF Keyspace!CommandWorks
    <3>3. \A r \in {scan, read} : ScanOrRead(r, commanded + 2)
      BY <2>3, <3>1
    <3>4. Requested'
      BY <3>2, <3>3, KeyspaceSends DEF KeyspaceInv
    <3> QED
      BY <1>3, <2>1, <3>2, <3>4
         DEF Keyspace!CommandWorks, Keyspace!NoDetail, KeyspaceInv, ViewOfKeys
  <2> QED
    BY <2>4, <2>5
<1> QED
  BY <1>1, <1>2, <1>3

LEMMA KeyspaceInvariant == Keyspace!Spec => []KeyspaceInv
<1>0. Keyspace!RedisAssumption
  BY PagesAssumption DEF PagesAssumption
<1>1. Keyspace!Init => KeyspaceInv
  <2> SUFFICES ASSUME Keyspace!Init PROVE KeyspaceInv
    OBVIOUS
  <2>1. ViewOfKeys
    <3>1. detail \in [key : Keys \cup {None}]
      BY DEF Keyspace!Init, Keyspace!NoDetail
    <3>2. {scanning, reading, running} \subseteq BOOLEAN
      BY DEF Keyspace!Init
    <3>3. /\ conn \in Conns \cup {None} /\ db \in Dbs /\ pattern \in Patterns
          /\ cursor \in 0 .. LastPage /\ selected \in Keys \cup {None}
      BY <1>0 DEF Keyspace!Init, Keyspace!RedisAssumption
    <3>4. keys \in Seq([at : Places, page : 0 .. LastPage])
      BY DEF Keyspace!Init
    <3> QED
      BY <3>1, <3>2, <3>3, <3>4 DEF ViewOfKeys
  <2>2. Requested
    BY <1>0 DEF Keyspace!Init, Keyspace!RedisAssumption, Requested
  <2> QED
    BY <2>1, <2>2 DEF KeyspaceInv
<1>2. KeyspaceInv /\ [Keyspace!Next]_(Keyspace!vars) => KeyspaceInv'
  <2>1. KeyspaceInv /\ UNCHANGED Keyspace!vars => KeyspaceInv'
    BY DEF Keyspace!vars, Keyspace!list, Keyspace!value, KeyspaceInv, ViewOfKeys, Requested
  <2> QED
    BY <1>0, <2>1, KeyspaceOperator, KeyspaceScanned, KeyspaceAnswered
       DEF Keyspace!Next, Keyspace!Answers
<1> QED
  BY <1>1, <1>2, PTL DEF Keyspace!Spec
-----------------------------------------------------------------------------
(* The charts. On the server's page the effect drops the answers it no longer    *)
(* waits for, so the one that is awaited is that of the newest query.          *)

ChartInv ==
  /\ Chart!TypeOK /\ plotted \in Nat
  /\ Chart!SpinnerHasAQuery /\ Chart!ChartIsOfItsRange
  /\ page = "server" => plots \subseteq {[id |-> plotted, range |-> range]}

LEMMA ChartInit == Chart!ChartAssumption /\ Chart!Init => ChartInv
<1> SUFFICES ASSUME Chart!ChartAssumption, Chart!Init PROVE ChartInv
  OBVIOUS
<1>1. enabled \subseteq Chart!Tabs /\ pane \in enabled
  BY DEF Chart!Init, Chart!Tabs
<1>2. /\ page \in {"server", "monitoring"} /\ range = FirstRange /\ open = TRUE
      /\ data = None /\ failed = FALSE /\ range \in Ranges
  BY DEF Chart!Init, Chart!ChartAssumption
<1>3. CASE Chart!Mounted
  <2>1. plotted = 1 /\ plots = {[id |-> 1, range |-> FirstRange]} /\ drawing = TRUE
    BY <1>3 DEF Chart!Init
  <2>2. [id |-> 1, range |-> FirstRange] \in [id : 1 .. plotted, range : Ranges]
    BY <2>1, <1>2
  <2> QED
    BY <1>1, <1>2, <1>3, <2>1, <2>2
    DEF ChartInv, Chart!TypeOK, Chart!SpinnerHasAQuery, Chart!ChartIsOfItsRange
<1>4. CASE ~Chart!Mounted
  <2>1. plotted = 0 /\ plots = {} /\ drawing = FALSE
    BY <1>4, Zenon DEF Chart!Init, Chart!Mounted, Chart!Shows
  <2> QED
    BY <1>1, <1>2, <1>4, <2>1
    DEF ChartInv, Chart!TypeOK, Chart!SpinnerHasAQuery, Chart!ChartIsOfItsRange
<1> QED
  BY <1>3, <1>4

\* A change of the page: the chart asks, or is gone with what it waited for.
LEMMA ChartChanges ==
  ASSUME ChartInv, NEW t \in enabled, NEW r \in Ranges, NEW o \in BOOLEAN, Chart!Chart(t, r, o)
  PROVE  ChartInv'
<1>1. CASE Chart!Shows(t, o)
  <2>1. /\ plotted' = plotted + 1 /\ drawing' = TRUE /\ failed' = FALSE
        /\ plots' = (IF Chart!Mounted THEN Chart!Awaited ELSE {})
                      \cup {[id |-> plotted + 1, range |-> r]}
        /\ data' = IF Chart!Mounted THEN data ELSE None
    BY <1>1 DEF Chart!Chart, Chart!Asks
  <2>2. pane' = t /\ range' = r /\ open' = o /\ UNCHANGED <<page, enabled>>
    BY DEF Chart!Chart, Chart!where
  <2>3. /\ [id : 1 .. plotted, range : Ranges] \subseteq [id : 1 .. plotted', range : Ranges]
        /\ [id |-> plotted + 1, range |-> r] \in [id : 1 .. plotted', range : Ranges]
        /\ plotted' \in Nat
    BY <2>1 DEF ChartInv
  <2>4. Chart!TypeOK'
    <3>1. plots' \subseteq [id : 1 .. plotted', range : Ranges]
      BY <2>1, <2>3 DEF ChartInv, Chart!TypeOK, Chart!Awaited
    <3>2. data' = None \/ data' \in [id : 1 .. plotted', range : Ranges]
      BY <2>1, <2>3 DEF ChartInv, Chart!TypeOK
    <3> QED
      BY <2>1, <2>2, <3>1, <3>2 DEF ChartInv, Chart!TypeOK
  <2>5. plots' # {} /\ (page' = "server" => plots' \subseteq {[id |-> plotted', range |-> range']})
    BY <2>1, <2>2 DEF Chart!Awaited
  <2> QED
    BY <2>1, <2>3, <2>4, <2>5 DEF ChartInv, Chart!SpinnerHasAQuery, Chart!ChartIsOfItsRange
<1>2. CASE ~Chart!Shows(t, o)
  BY <1>2
  DEF Chart!Chart, Chart!chart, Chart!where, ChartInv, Chart!TypeOK, Chart!Mounted, Chart!Shows,
      Chart!SpinnerHasAQuery, Chart!ChartIsOfItsRange
<1> QED
  BY <1>1, <1>2

LEMMA ChartStep == ChartInv /\ [Chart!Next]_(Chart!vars) => ChartInv'
<1> SUFFICES ASSUME ChartInv, [Chart!Next]_(Chart!vars) PROVE ChartInv'
  OBVIOUS
<1>1. pane \in enabled /\ range \in Ranges /\ open \in BOOLEAN
  BY DEF ChartInv, Chart!TypeOK
<1>2. CASE Chart!Refresh \/ Chart!Fold \/ \E r \in Ranges : Chart!PickRange(r)
  BY <1>1, <1>2, ChartChanges DEF Chart!Refresh, Chart!Fold, Chart!PickRange
<1>3. ASSUME NEW t \in Chart!Tabs, Chart!SelectTab(t) PROVE ChartInv'
  BY <1>1, <1>3, ChartChanges DEF Chart!SelectTab
<1>4. ASSUME NEW q \in plots, NEW ok \in BOOLEAN, Chart!Answered(q, ok) PROVE ChartInv'
  <2>1. q \in [id : 1 .. plotted, range : Ranges]
    BY DEF ChartInv, Chart!TypeOK
  <2> QED
    BY <1>4, <2>1
    DEF Chart!Answered, Chart!where, Chart!view, ChartInv, Chart!TypeOK, Chart!Mounted,
        Chart!SpinnerHasAQuery, Chart!ChartIsOfItsRange
<1>5. CASE UNCHANGED Chart!vars
  BY <1>5
  DEF Chart!vars, Chart!where, Chart!view, Chart!chart, ChartInv, Chart!TypeOK, Chart!Mounted,
      Chart!Shows, Chart!SpinnerHasAQuery, Chart!ChartIsOfItsRange
<1> QED
  BY <1>2, <1>3, <1>4, <1>5 DEF Chart!Next

LEMMA ChartInvariant == PagesSpec => []ChartInv
  BY PagesAssumption, PartsOfPages, ChartInit, ChartStep, PTL DEF Chart!Spec

\* A chart of the server's page shows the range that is chosen, whatever was clicked
\* while it waited.
THEOREM ChartsAreOfTheirRange == PagesSpec => []ChartIsOfItsRange
<1>1. ChartInv => ChartIsOfItsRange
  BY DEF ChartInv, ChartIsOfItsRange
<1> QED
  BY ChartInvariant, <1>1, PTL
-----------------------------------------------------------------------------
(* The page of a cluster. The slot is freed by whatever ends, so all that keeps   *)
(* it from being taken for ever is that every step that takes it sends a task,    *)
(* or keeps one.                                                                  *)

\* What the page asks for.
TaskKinds == Kube!Tabs \cup Kube!Writes \cup {"lines", "servicePods", "reactivate", "shipping"}

AskedBy(t, last) ==
  /\ t \in [id : Int, kind : TaskKinds, ns : Kube!Spaces, over : SUBSET Namespaces]
  /\ t.id \in 1 .. last
  /\ t.kind = "servicePods" => t.ns \in Namespaces

SlotInv ==
  /\ asked \in Nat /\ busy \in BOOLEAN
  /\ \A t \in reads : AskedBy(t, asked)
  /\ Kube!BusyHasATask

KubeInv == Kube!TypeOK /\ SlotInv

-----------------------------------------------------------------------------
LEMMA KubeInit == Kube!Init => KubeInv
<1> SUFFICES ASSUME Kube!Init PROVE KubeInv
  OBVIOUS
<1>1. SlotInv
  BY DEF Kube!Init, SlotInv, Kube!BusyHasATask
<1>2. rows \in [Kube!Scoped -> Kube!Spaces \cup {None}]
  BY DEF Kube!Init
<1>3. pick \in [ns : Kube!Spaces, pod : Namespaces \cup {None}, container : BOOLEAN]
  BY DEF Kube!Init, Kube!Spaces
<1>4. tab \in Kube!Tabs /\ namespace \in Kube!Spaces /\ loaded = {}
      /\ options = {} /\ podLogs = {} /\ auto = FALSE /\ busy = FALSE /\ reads = {}
      /\ cluster \in {"active", "inactive", "unknown"}
  BY DEF Kube!Init, Kube!Spaces, Kube!Tabs
<1> QED
  BY <1>1, <1>2, <1>3, <1>4 DEF KubeInv, Kube!TypeOK

\* Tasks that were just sent, numbered after those before.
LEMMA Sends ==
  ASSUME SlotInv, NEW new, IsFiniteSet(new), new # {}, Kube!Send(new, TRUE),
         \A t \in new : AskedBy(t, asked + Cardinality(new))
  PROVE  SlotInv'
<1>1. Cardinality(new) \in Nat
  BY FS_CardinalityType
<1>2. /\ reads' = reads \cup new /\ asked' = asked + Cardinality(new)
      /\ busy' = TRUE
  <2>1. Kube!Cardinality(new) = Cardinality(new)
    BY DEF Kube!Cardinality, Cardinality
  <2> QED
    BY <2>1, Zenon DEF Kube!Send
<1>3. \A t \in reads : AskedBy(t, asked')
  BY <1>1, <1>2 DEF SlotInv, AskedBy
<1> QED
  BY <1>1, <1>2, <1>3 DEF SlotInv, Kube!BusyHasATask

LEMMA Starts ==
  ASSUME SlotInv, NEW kind \in TaskKinds, NEW ns \in Kube!Spaces, NEW over \in SUBSET Namespaces,
         kind = "servicePods" => ns \in Namespaces,
         Kube!Send({Kube!Task(kind, ns, over)}, TRUE)
  PROVE  SlotInv'
<1> DEFINE t == Kube!Task(kind, ns, over)
<1>1. IsFiniteSet({t}) /\ Cardinality({t}) = 1
  BY FS_Singleton
<1>2. AskedBy(t, asked + 1)
  BY DEF AskedBy, Kube!Task, SlotInv
<1> QED
  BY <1>1, <1>2, Sends

LEMMA StartsOK ==
  ASSUME SlotInv, NEW kind \in TaskKinds, NEW ns \in Kube!Spaces, kind # "servicePods",
         Kube!Start(kind, ns)
  PROVE  SlotInv'
<1>1. {} \in SUBSET Namespaces /\ Kube!Send({Kube!Task(kind, ns, {})}, TRUE)
  BY DEF Kube!Start
<1> QED
  BY <1>1, Starts

\* A task that ends frees the slot.
LEMMA EndsOK ==
  ASSUME SlotInv, NEW t \in reads, Kube!Ends(t)
  PROVE  SlotInv'
  BY DEF SlotInv, Kube!Ends, Kube!BusyHasATask

\* A task that goes on with the read that follows it keeps the slot.
LEMMA GoesOnOK ==
  ASSUME SlotInv, NEW t \in reads, NEW kind \in Kube!Tabs, Kube!GoesOn(t, kind)
  PROVE  SlotInv'
<1> DEFINE u == [t EXCEPT !.kind = kind]
<1>1. reads' = (reads \ {t}) \cup {u} /\ busy' = TRUE /\ asked' = asked
  BY DEF Kube!GoesOn
<1>2. AskedBy(t, asked) /\ kind \in TaskKinds /\ kind # "servicePods"
  BY DEF SlotInv, TaskKinds, Kube!Tabs, Kube!Scoped
<1>3. AskedBy(u, asked)
  BY <1>2 DEF AskedBy
<1> QED
  BY <1>1, <1>3 DEF SlotInv, Kube!BusyHasATask

\* Lines are asked for by a task, or there is nothing to ask for.
LEMMA LoadsLogs ==
  ASSUME KubeInv, NEW ns \in Kube!Spaces, NEW pod \in Namespaces \cup {None},
         NEW container \in BOOLEAN, Kube!LoadLogs(ns, pod, container, options)
  PROVE  SlotInv' /\ podLogs' \subseteq Namespaces
<1> DEFINE over == IF pod # None THEN {pod} ELSE {p \in options : ns \in {All, p}}
<1>1. over \subseteq Namespaces /\ podLogs \subseteq Namespaces /\ "lines" \in TaskKinds
  BY DEF KubeInv, Kube!TypeOK, TaskKinds
<1>2. CASE ~container
  BY <1>1, <1>2 DEF Kube!LoadLogs, Kube!slot, KubeInv, SlotInv, Kube!BusyHasATask
<1>3. CASE container /\ over = {}
  BY <1>1, <1>3 DEF Kube!LoadLogs, KubeInv, SlotInv, Kube!BusyHasATask
<1>4. CASE container /\ over # {}
  <2>1. Kube!Send({Kube!Task("lines", ns, over)}, TRUE) /\ podLogs' = podLogs
    BY <1>4 DEF Kube!LoadLogs
  <2> HIDE DEF over
  <2> QED
    BY <1>1, <2>1, Starts DEF KubeInv
<1> QED
  BY <1>2, <1>3, <1>4

-----------------------------------------------------------------------------
\* The pages and pickers of a step that leaves them as they are.
KubeView == <<cluster, tab, namespace, loaded, rows, options, pick, podLogs, auto>>

LEMMA KubeHeader ==
  ASSUME KubeInv, Kube!Header
  PROVE  KubeInv'
<1>1. CASE Kube!Refresh
  <2>1. SlotInv' /\ podLogs' \subseteq Namespaces
    <3>1. CASE tab = "logs"
      BY <1>1, <3>1, LoadsLogs DEF Kube!Refresh, Kube!RefreshTab, KubeInv, Kube!TypeOK
    <3>2. CASE tab # "logs"
      <4>1. tab \in TaskKinds /\ tab # "servicePods" /\ namespace \in Kube!Spaces
        BY DEF KubeInv, Kube!TypeOK, TaskKinds, Kube!Tabs, Kube!Scoped
      <4>2. Kube!Start(tab, namespace) /\ podLogs' = podLogs
        BY <1>1, <3>2 DEF Kube!Refresh, Kube!RefreshTab
      <4> QED
        BY <4>1, <4>2, StartsOK DEF KubeInv, Kube!TypeOK
    <3> QED
      BY <3>1, <3>2
  <2> QED
    BY <1>1, <2>1 DEF Kube!Refresh, KubeInv, Kube!TypeOK, Kube!reads, SlotInv, AskedBy
<1>2. CASE \E t \in Kube!Tabs : Kube!SelectTab(t)
  <2>1. PICK t \in Kube!Tabs : Kube!SelectTab(t)
    BY <1>2
  <2>2. SlotInv'
    <3>1. CASE t = "overview" \/ t \in loaded
      BY <2>1, <3>1 DEF Kube!SelectTab, Kube!FirstRead, Kube!slot, KubeInv, SlotInv,
                        Kube!BusyHasATask
    <3>2. CASE ~(t = "overview" \/ t \in loaded)
      <4> DEFINE ns == IF t = "logs" THEN pick.ns ELSE namespace
      <4>1. t \in TaskKinds /\ t # "servicePods" /\ ns \in Kube!Spaces
        BY DEF KubeInv, Kube!TypeOK, TaskKinds, Kube!Tabs, Kube!Scoped
      <4>2. Kube!Start(t, ns)
        BY <2>1, <3>2 DEF Kube!SelectTab, Kube!FirstRead
      <4> HIDE DEF ns
      <4> QED
        BY <4>1, <4>2, StartsOK DEF KubeInv
    <3> QED
      BY <3>1, <3>2
  <2> QED
    BY <2>1, <2>2
    DEF Kube!SelectTab, KubeInv, Kube!TypeOK, Kube!reads, Kube!logs, SlotInv, AskedBy
<1> QED
  BY <1>1, <1>2 DEF Kube!Header

\* The buttons that send one request and leave the page as it is.
LEMMA KubeStarts ==
  ASSUME KubeInv, NEW kind \in TaskKinds, NEW ns \in Kube!Spaces, NEW over \in SUBSET Namespaces,
         kind = "servicePods" => ns \in Namespaces,
         Kube!Send({Kube!Task(kind, ns, over)}, TRUE), UNCHANGED KubeView
  PROVE  KubeInv'
<1>1. SlotInv'
  BY Starts DEF KubeInv
<1> QED
  BY <1>1 DEF KubeView, KubeInv, SlotInv, AskedBy, Kube!TypeOK

LEMMA KubeButtons ==
  ASSUME KubeInv,
         \/ \E w \in Kube!Writes : Kube!Mutate(w)
         \/ \E p \in Namespaces : Kube!OpenServiceLogs(p)
         \/ Kube!Reactivate \/ Kube!SaveLogShipping
  PROVE  KubeInv'
<1>1. /\ namespace \in Kube!Spaces /\ All \in Kube!Spaces /\ Namespaces \subseteq Kube!Spaces
      /\ options \in SUBSET Namespaces /\ {} \in SUBSET Namespaces /\ Kube!Writes \subseteq TaskKinds
      /\ {"servicePods", "reactivate", "shipping"} \subseteq TaskKinds
      /\ "servicePods" \notin Kube!Writes
  BY DEF KubeInv, Kube!TypeOK, TaskKinds, Kube!Spaces, Kube!Writes
<1>2. ASSUME NEW w \in Kube!Writes, Kube!Mutate(w) PROVE KubeInv'
  <2>1. Kube!Send({Kube!Task(w, namespace, {})}, TRUE) /\ UNCHANGED KubeView
    BY <1>2 DEF Kube!Mutate, Kube!Start, KubeView, Kube!reads, Kube!logs
  <2> QED
    BY <1>1, <2>1, KubeStarts
<1>3. ASSUME NEW p \in Namespaces, Kube!OpenServiceLogs(p) PROVE KubeInv'
  <2>1. Kube!Send({Kube!Task("servicePods", p, options)}, TRUE) /\ UNCHANGED KubeView
    BY <1>3 DEF Kube!OpenServiceLogs, KubeView, Kube!reads, Kube!logs
  <2> QED
    BY <1>1, <2>1, KubeStarts
<1>4. ASSUME Kube!Reactivate PROVE KubeInv'
  <2>1. Kube!Send({Kube!Task("reactivate", All, {})}, TRUE) /\ UNCHANGED KubeView
    BY <1>4 DEF Kube!Reactivate, Kube!Start, KubeView, Kube!reads, Kube!logs
  <2> QED
    BY <1>1, <2>1, KubeStarts
<1>5. ASSUME Kube!SaveLogShipping PROVE KubeInv'
  <2>1. Kube!Send({Kube!Task("shipping", All, {})}, TRUE) /\ UNCHANGED KubeView
    BY <1>5 DEF Kube!SaveLogShipping, Kube!Start, KubeView, Kube!reads, Kube!logs
  <2> QED
    BY <1>1, <2>1, KubeStarts
<1> QED
  BY <1>2, <1>3, <1>4, <1>5

LEMMA KubeFilter ==
  ASSUME KubeInv, NEW ns \in Kube!Spaces, Kube!ChangeNamespace(ns)
  PROVE  KubeInv'
<1>1. tab \in TaskKinds /\ tab # "servicePods"
  BY DEF KubeInv, Kube!TypeOK, TaskKinds, Kube!Tabs, Kube!Scoped
<1>2. SlotInv'
  BY <1>1, StartsOK DEF Kube!ChangeNamespace, KubeInv
<1> QED
  BY <1>2 DEF Kube!ChangeNamespace, KubeInv, Kube!TypeOK, Kube!reads, Kube!logs, SlotInv, AskedBy

\* The pickers of the log viewer keep its pod and its namespace together.
LEMMA KubeLogsTab ==
  ASSUME KubeInv, Kube!LogsTab
  PROVE  KubeInv'
<1> DEFINE Picks == [ns : Kube!Spaces, pod : Namespaces \cup {None}, container : BOOLEAN]
<1>0. pick \in Picks /\ "logs" \in TaskKinds
  BY DEF KubeInv, Kube!TypeOK, TaskKinds, Kube!Tabs
<1>1. CASE Kube!SetAuto
  BY <1>1 DEF Kube!SetAuto, KubeInv, Kube!TypeOK, Kube!reads, Kube!logs, Kube!slot, SlotInv,
              AskedBy, Kube!BusyHasATask
<1>2. ASSUME NEW ns \in Kube!Spaces, Kube!ChangeLogsNamespace(ns) PROVE KubeInv'
  <2>1. SlotInv'
    BY <1>0, <1>2, StartsOK DEF Kube!ChangeLogsNamespace, KubeInv
  <2>2. pick' \in Picks
    BY <1>2 DEF Kube!ChangeLogsNamespace
  <2> QED
    BY <1>2, <2>1, <2>2
    DEF Kube!ChangeLogsNamespace, KubeInv, Kube!TypeOK, Kube!reads, SlotInv, AskedBy
<1>3. ASSUME NEW chosen \in BOOLEAN, Kube!ChangeLogsContainer(chosen) PROVE KubeInv'
  <2>1. SlotInv' /\ podLogs' \subseteq Namespaces
    BY <1>0, <1>3, LoadsLogs DEF Kube!ChangeLogsContainer
  <2>2. pick' \in Picks
    BY <1>0, <1>3 DEF Kube!ChangeLogsContainer
  <2> QED
    BY <1>3, <2>1, <2>2
    DEF Kube!ChangeLogsContainer, KubeInv, Kube!TypeOK, Kube!reads, SlotInv, AskedBy
<1>4. ASSUME NEW p \in Namespaces \cup {None}, Kube!ChangeLogsPod(p) PROVE KubeInv'
  <2>2. pick' \in Picks
    BY <1>0, <1>4 DEF Kube!ChangeLogsPod, Kube!Spaces
  <2>1. SlotInv' /\ podLogs' \subseteq Namespaces
    BY <1>4, <2>2, LoadsLogs DEF Kube!ChangeLogsPod
  <2> QED
    BY <1>4, <2>1, <2>2
    DEF Kube!ChangeLogsPod, KubeInv, Kube!TypeOK, Kube!reads, SlotInv, AskedBy
<1> QED
  BY <1>1, <1>2, <1>3, <1>4 DEF Kube!LogsTab

\* A row's Logs sends the list and the lines, and the tab its list again.
LEMMA KubeOpensPodLogs ==
  ASSUME KubeInv, NEW p \in Namespaces, Kube!OpenPodLogs(p)
  PROVE  KubeInv'
<1> DEFINE first == [id |-> asked + 1, kind |-> "logs", ns |-> p, over |-> {}]
           lines == [id |-> asked + 2, kind |-> "lines", ns |-> p, over |-> {p}]
           again == [id |-> asked + 3, kind |-> "logs", ns |-> p, over |-> {}]
           new == {first, lines} \cup IF "logs" \in loaded THEN {} ELSE {again}
<1>1. /\ Kube!Send(new, TRUE)
      /\ pick' = [ns |-> p, pod |-> p, container |-> TRUE]
      /\ podLogs' = {} /\ tab' = "logs" /\ UNCHANGED <<cluster, namespace, loaded, rows, options, auto>>
  <2> DEFINE nth(k, kind, over) == [Kube!Task(kind, p, over) EXCEPT !.id = asked + k]
  <2>1. /\ nth(1, "logs", {}) = first /\ nth(2, "lines", {p}) = lines
        /\ nth(3, "logs", {}) = again
    BY DEF Kube!Task
  <2>2. Kube!Send({nth(1, "logs", {}), nth(2, "lines", {p})}
                    \cup IF "logs" \in loaded THEN {} ELSE {nth(3, "logs", {})}, TRUE)
    BY DEF Kube!OpenPodLogs
  <2>3. Kube!Send(new, TRUE)
    BY <2>1, <2>2
  <2> QED
    BY <2>3 DEF Kube!OpenPodLogs, Kube!reads
<1>2. IsFiniteSet({first, lines}) /\ Cardinality({first, lines}) = 2
  <2>1. IsFiniteSet({first}) /\ Cardinality({first}) = 1
    BY FS_Singleton
  <2>2. lines \notin {first} /\ {first} \cup {lines} = {first, lines}
    OBVIOUS
  <2> HIDE DEF first, lines
  <2> QED
    BY <2>1, <2>2, FS_AddElement
<1>3. IsFiniteSet(new) /\ Cardinality(new) = IF "logs" \in loaded THEN 2 ELSE 3
  <2>1. again \notin {first, lines}
    BY DEF KubeInv, SlotInv
  <2> HIDE DEF first, lines, again
  <2>2. new = IF "logs" \in loaded THEN {first, lines} ELSE {first, lines} \cup {again}
    OBVIOUS
  <2> QED
    BY <1>2, <2>1, <2>2, FS_AddElement
<1>4. \A t \in new : AskedBy(t, asked + Cardinality(new))
  <2>1. asked \in Nat /\ {"logs", "lines"} \subseteq TaskKinds /\ p \in Kube!Spaces
    BY DEF KubeInv, SlotInv, TaskKinds, Kube!Tabs, Kube!Spaces
  <2>2. AskedBy(first, asked + 2) /\ AskedBy(first, asked + 3)
    BY <2>1 DEF AskedBy
  <2>3. AskedBy(lines, asked + 2) /\ AskedBy(lines, asked + 3)
    BY <2>1 DEF AskedBy
  <2>4. AskedBy(again, asked + 3)
    BY <2>1 DEF AskedBy
  <2> HIDE DEF first, lines, again
  <2> QED
    BY <1>3, <2>2, <2>3, <2>4
<1>5. SlotInv'
  <2> HIDE DEF first, lines, again
  <2>1. new # {}
    OBVIOUS
  <2> HIDE DEF new
  <2> QED
    BY <1>1, <1>3, <1>4, <2>1, Sends DEF KubeInv
<1>6. pick' \in [ns : Kube!Spaces, pod : Namespaces \cup {None}, container : BOOLEAN]
  BY <1>1 DEF Kube!Spaces
<1> QED
  BY <1>1, <1>5, <1>6 DEF KubeInv, Kube!TypeOK, SlotInv, AskedBy, Kube!Tabs

-----------------------------------------------------------------------------
\* The answers.
LEMMA KubeReadAnswered ==
  ASSUME KubeInv, NEW t \in reads, NEW ok \in BOOLEAN,
         Kube!ReadAnswered(t, ok) \/ Kube!LinesAnswered(t, ok)
  PROVE  KubeInv'
<1>0. t.ns \in Kube!Spaces /\ t.over \subseteq Namespaces
  BY DEF KubeInv, SlotInv, AskedBy
<1>1. SlotInv'
  BY EndsOK DEF Kube!ReadAnswered, Kube!LinesAnswered, KubeInv
<1>2. /\ loaded' \subseteq Kube!Tabs /\ rows' \in [Kube!Scoped -> Kube!Spaces \cup {None}]
      /\ options' \subseteq Namespaces /\ podLogs' \subseteq Namespaces
  BY <1>0 DEF Kube!ReadAnswered, Kube!LinesAnswered, Kube!LoadedAfter, Kube!RowsAfter,
              Kube!PodsListed, Kube!reads, KubeInv, Kube!TypeOK
<1> QED
  BY <1>1, <1>2
  DEF Kube!ReadAnswered, Kube!LinesAnswered, KubeInv, Kube!TypeOK, SlotInv, AskedBy

LEMMA KubeServiceAnswered ==
  ASSUME KubeInv, NEW t \in reads, NEW found \in BOOLEAN, Kube!ServiceAnswered(t, found)
  PROVE  KubeInv'
<1>0. /\ t.ns \in Namespaces /\ t.ns \in Kube!Spaces /\ asked \in Nat /\ "lines" \in TaskKinds
      /\ loaded' \subseteq Kube!Tabs
  BY DEF KubeInv, SlotInv, AskedBy, Kube!ServiceAnswered, Kube!Spaces, TaskKinds, Kube!TypeOK,
         Kube!Tabs
<1>1. CASE ~found
  <2>1. SlotInv'
    BY <1>1, EndsOK DEF Kube!ServiceAnswered, KubeInv
  <2> QED
    BY <1>0, <1>1, <2>1 DEF Kube!ServiceAnswered, Kube!logs, KubeInv, Kube!TypeOK, SlotInv, AskedBy
<1>2. CASE found
  <2> DEFINE over == t.over \cap {t.ns}
             new == Kube!Task("lines", t.ns, over)
  <2>1. /\ tab' = "logs" /\ options' = {t.ns} /\ podLogs' = {}
        /\ pick' = [ns |-> t.ns, pod |-> None, container |-> TRUE]
        /\ asked' = (IF over = {} THEN asked ELSE asked + 1)
        /\ reads' = (reads \ {t}) \cup IF over = {} THEN {} ELSE {new}
        /\ busy' = FALSE /\ UNCHANGED <<cluster, namespace, rows, auto>>
    BY <1>2 DEF Kube!ServiceAnswered
  <2>2. AskedBy(new, asked + 1)
    BY <1>0 DEF AskedBy, Kube!Task
  <2>3. asked' \in Nat /\ \A u \in reads : AskedBy(u, asked')
    BY <1>0, <2>1 DEF KubeInv, SlotInv, AskedBy
  <2> HIDE DEF new, over
  <2>4. \A u \in reads' : AskedBy(u, asked')
    BY <2>1, <2>2, <2>3
  <2>5. pick' \in [ns : Kube!Spaces, pod : Namespaces \cup {None}, container : BOOLEAN]
    BY <1>0, <2>1
  <2> QED
    BY <1>0, <2>1, <2>3, <2>4, <2>5
    DEF KubeInv, SlotInv, AskedBy, Kube!BusyHasATask, Kube!TypeOK, Kube!Tabs
<1> QED
  BY <1>1, <1>2

LEMMA KubeMutationAnswered ==
  ASSUME KubeInv, NEW t \in reads, NEW ok \in BOOLEAN,
         Kube!MutationAnswered(t, ok) \/ Kube!ClusterAnswered(t, ok)
  PROVE  KubeInv'
<1>0. Kube!TableOf(t.kind) \in Kube!Tabs /\ "overview" \in Kube!Tabs
  BY DEF Kube!TableOf, Kube!Tabs, Kube!Scoped
<1>1. SlotInv'
  <2>1. Kube!Ends(t) \/ \E kind \in Kube!Tabs : Kube!GoesOn(t, kind)
    BY <1>0 DEF Kube!MutationAnswered, Kube!ClusterAnswered
  <2> QED
    BY <2>1, EndsOK, GoesOnOK DEF KubeInv
<1>2. cluster' \in {"active", "inactive", "unknown"}
  BY DEF Kube!MutationAnswered, Kube!ClusterAnswered, KubeInv, Kube!TypeOK
<1> QED
  BY <1>1, <1>2
  DEF Kube!MutationAnswered, Kube!ClusterAnswered, Kube!reads, Kube!logs, KubeInv,
      Kube!TypeOK, SlotInv, AskedBy

LEMMA KubeStep == KubeInv /\ [Kube!Next]_(Kube!vars) => KubeInv'
<1> SUFFICES ASSUME KubeInv, [Kube!Next]_(Kube!vars) PROVE KubeInv'
  OBVIOUS
<1>1. CASE UNCHANGED Kube!vars
  BY <1>1 DEF Kube!vars, Kube!reads, Kube!logs, Kube!slot, KubeInv, SlotInv, Kube!TypeOK,
              Kube!BusyHasATask, AskedBy
<1>2. ASSUME Kube!Operator PROVE KubeInv'
  <2>1. ASSUME NEW w \in Kube!Writes, Kube!Mutate(w) PROVE KubeInv'
    BY <2>1, KubeButtons
  <2>2. {"restartPod", "removePod", "cordon", "scale", "restartDeployment"} = Kube!Writes
    BY DEF Kube!Writes
  <2>3. Kube!NodesTab \/ Kube!WorkloadsTab => \E w \in Kube!Writes : Kube!Mutate(w)
    BY <2>2 DEF Kube!NodesTab, Kube!WorkloadsTab
  <2>4. Kube!PodsTab => (\E w \in Kube!Writes : Kube!Mutate(w))
                        \/ \E p \in Namespaces : Kube!OpenPodLogs(p)
    BY <2>2 DEF Kube!PodsTab
  <2> QED
    BY <1>2, <2>1, <2>3, <2>4, KubeHeader, KubeButtons, KubeFilter, KubeLogsTab,
       KubeOpensPodLogs
    DEF Kube!Operator, Kube!Inactive, Kube!NamespaceSelect, Kube!OverviewTab,
        Kube!ServicesTab
<1>3. ASSUME Kube!AutoTick PROVE KubeInv'
  <2>1. SlotInv' /\ podLogs' \subseteq Namespaces
    BY <1>3, LoadsLogs DEF Kube!AutoTick, KubeInv, Kube!TypeOK
  <2> QED
    BY <1>3, <2>1 DEF Kube!AutoTick, KubeInv, Kube!TypeOK, Kube!reads, SlotInv, AskedBy
<1>4. ASSUME NEW t \in reads, Kube!Answers(t) PROVE KubeInv'
  BY <1>4, KubeReadAnswered, KubeServiceAnswered, KubeMutationAnswered DEF Kube!Answers
<1> QED
  BY <1>1, <1>2, <1>3, <1>4 DEF Kube!Next

LEMMA KubeInvariant == Kube!Spec => []KubeInv
  BY KubeInit, KubeStep, PTL DEF Kube!Spec
-----------------------------------------------------------------------------
(* The connection tree. A node that loads keeps its request because whatever     *)
(* drops a request of a node makes the node anew, and whatever answers one ends   *)
(* the spinner. A flag is set before its node is shown, so that no list seeds it.  *)

NodeStates ==
  [open : BOOLEAN, loading : BOOLEAN, shows : {"none", "schemas", "databases", "error"}]
KidStates == [open : BOOLEAN, loading : BOOLEAN, shows : {"none", "items", "error"}]

TreeTypes ==
  /\ stored \subseteq Conns /\ listed \subseteq Conns
  /\ byDefault \in [Conns -> {"all", "one"}]
  /\ showAll \in [Conns -> {"all", "one", "unset"}]
  /\ node \in [Conns -> NodeStates] /\ kid \in [Conns -> KidStates]
  /\ dialog \in Conns \cup {Connections!New, None}

\* A request is numbered, and of a connection unless it is for the list.
NavRequest(q) ==
  /\ q.kind \in Connections!Kinds
  /\ q.kind = "list" => q.arg.has \subseteq Conns /\ q.arg.all \in [Conns -> {"all", "one"}]
  /\ q.kind # "list" => q.conn \in Conns
  /\ q.kind = "node" => q.arg \in {"schemas", "databases"}
  /\ q.kind = "save" => q.arg.all \in {"all", "one"}

NavAsked == /\ changed \in 0 .. MaxNavigator /\ saving \in 0 .. changed
         /\ \A q \in changes : NavRequest(q) /\ q.n \in 1 .. changed

FlagsAreSet == \A c \in listed : showAll[c] # "unset"

NavInv == TreeTypes /\ NavAsked /\ Connections!TreeSpinnerHasALoad /\ FlagsAreSet

LEMMA NavInit == Connections!NavigatorAssumption /\ Connections!Init => NavInv
<1> SUFFICES ASSUME Connections!NavigatorAssumption, Connections!Init PROVE NavInv
  OBVIOUS
<1>1. Connections!Fresh \in NodeStates /\ Connections!Fresh \in KidStates
      /\ Connections!Fresh.loading = FALSE
  BY DEF Connections!Fresh, NodeStates, KidStates
<1>2. TreeTypes
  BY <1>1 DEF Connections!Init, TreeTypes
<1>3. NavAsked
  BY DEF Connections!Init, Connections!NavigatorAssumption, NavAsked, NavRequest, Connections!Kinds
<1>4. \A c \in Conns : node[c].loading = FALSE /\ kid[c].loading = FALSE
  BY <1>1 DEF Connections!Init
<1> QED
  BY <1>2, <1>3, <1>4 DEF Connections!Init, NavInv, FlagsAreSet, Connections!TreeSpinnerHasALoad

-----------------------------------------------------------------------------
\* A request is sent: it has the next number.
LEMMA NavSends ==
  ASSUME NavInv, NEW others \in SUBSET changes, NEW kind, NEW c, NEW arg,
         NavRequest(Connections!Request(kind, c, arg)),
         Connections!Send(others, Connections!Request(kind, c, arg)),
         saving' \in {0, saving, changed + 1}
  PROVE  NavAsked'
<1> DEFINE q == Connections!Request(kind, c, arg)
<1>1. /\ changed < MaxNavigator /\ changed' = changed + 1 /\ changes' = others \cup {q}
      /\ changed \in 0 .. MaxNavigator /\ saving \in 0 .. changed
  BY DEF Connections!Send, NavInv, NavAsked
<1>2. MaxNavigator \in Int
  BY PagesAssumption DEF PagesAssumption, Connections!NavigatorAssumption
<1>3. changed' \in 0 .. MaxNavigator /\ saving' \in 0 .. changed'
  BY <1>1, <1>2
<1>4. \A p \in others : NavRequest(p) /\ p.n \in 1 .. changed'
  BY <1>1, <1>2 DEF NavInv, NavAsked
<1>5. NavRequest(q) /\ q.n \in 1 .. changed'
  BY <1>1, <1>2 DEF Connections!Request
<1> HIDE DEF q
<1> QED
  BY <1>1, <1>3, <1>4, <1>5 DEF NavAsked

\* No request is sent: some may be gone.
LEMMA NavTakes ==
  ASSUME NavInv, changes' \subseteq changes, changed' = changed, saving' \in {0, saving}
  PROVE  NavAsked'
  BY DEF NavInv, NavAsked

\* A node becomes n: the requests for the one below it go with that node.
LEMMA NodeBecomes ==
  ASSUME NavInv, NEW c \in Conns, NEW n \in NodeStates, Connections!Becomes(c, n),
         \A p \in Connections!FlyingAfter(c, n) :
           p \in changes' \/ p.kind \notin {"node", "kid"} \/ (p.kind = "node" /\ p.conn = c),
         n.loading => \E p \in changes' : p.kind = "node" /\ p.conn = c
  PROVE  /\ node' \in [Conns -> NodeStates] /\ kid' \in [Conns -> KidStates]
         /\ Connections!TreeSpinnerHasALoad'
<1> DEFINE keeps == Connections!Mounted(n) /\ n.shows = node[c].shows
<1>1. /\ node' = [node EXCEPT ![c] = n]
      /\ kid' = [kid EXCEPT ![c] = IF keeps THEN kid[c] ELSE Connections!Fresh]
      /\ node \in [Conns -> NodeStates] /\ kid \in [Conns -> KidStates]
  BY DEF Connections!Becomes, Connections!KidAfter, NavInv, TreeTypes
<1>2. Connections!Fresh \in KidStates /\ Connections!Fresh.loading = FALSE
  BY DEF Connections!Fresh, KidStates
<1>3. \A p \in changes :
        p \in changes' \/ p.kind \notin {"node", "kid"} \/ (p.kind = "node" /\ p.conn = c)
        \/ (~keeps /\ p.kind = "kid" /\ p.conn = c)
  BY DEF Connections!FlyingAfter
<1>4. ASSUME NEW d \in Conns
      PROVE  /\ node'[d].loading => \E p \in changes' : p.kind = "node" /\ p.conn = d
             /\ kid'[d].loading => \E p \in changes' : p.kind = "kid" /\ p.conn = d
  <2>1. /\ node[d].loading => \E p \in changes : p.kind = "node" /\ p.conn = d
        /\ kid[d].loading => \E p \in changes : p.kind = "kid" /\ p.conn = d
    BY DEF NavInv, Connections!TreeSpinnerHasALoad
  <2>2. CASE d # c
    <3>1. node'[d] = node[d] /\ kid'[d] = kid[d]
      BY <1>1, <2>2
    <3> HIDE DEF keeps
    <3> QED
      BY <1>3, <2>1, <2>2, <3>1
  <2>3. CASE d = c
    <3>1. node'[d] = n /\ kid'[d] = IF keeps THEN kid[d] ELSE Connections!Fresh
      BY <1>1, <2>3
    <3> HIDE DEF keeps
    <3> QED
      BY <1>2, <1>3, <2>1, <2>3, <3>1
  <2> QED
    BY <2>2, <2>3
<1> QED
  BY <1>1, <1>2, <1>4 DEF Connections!TreeSpinnerHasALoad

\* A node asks: its request is the last one.
LEMMA NodeLoads ==
  ASSUME NavInv, NEW c \in Conns, NEW n, [n EXCEPT !.loading = TRUE] \in NodeStates,
         n.open = [n EXCEPT !.loading = TRUE].open, n.shows = [n EXCEPT !.loading = TRUE].shows,
         NEW flag, Connections!Load(c, n, flag), saving' = saving
  PROVE  /\ node' \in [Conns -> NodeStates] /\ kid' \in [Conns -> KidStates]
         /\ Connections!TreeSpinnerHasALoad' /\ NavAsked'
<1> DEFINE m == [n EXCEPT !.loading = TRUE]
           q == Connections!Request("node", c, Connections!Level(flag))
<1>1. Connections!FlyingAfter(c, m) = Connections!FlyingAfter(c, n)
  BY DEF Connections!FlyingAfter, Connections!Mounted
<1>2. /\ Connections!Becomes(c, m)
      /\ Connections!Send(Connections!FlyingAfter(c, m), q)
  BY <1>1 DEF Connections!Load
<1>3. Connections!FlyingAfter(c, m) \in SUBSET changes
  BY DEF Connections!FlyingAfter
<1>4. NavRequest(q) /\ q.kind = "node" /\ q.conn = c
  BY DEF NavRequest, Connections!Request, Connections!Level, Connections!Kinds
<1>5. NavAsked'
  BY <1>2, <1>3, <1>4, NavSends
<1>6. Connections!FlyingAfter(c, m) \subseteq changes' /\ q \in changes'
  BY <1>2 DEF Connections!Send
<1> HIDE DEF m, q
<1> QED
  BY <1>2, <1>4, <1>5, <1>6, NodeBecomes DEF m

LEMMA NodeStays ==
  ASSUME NavInv, NEW c \in Conns, NEW n \in NodeStates, n.loading => node[c].loading,
         Connections!NoLoad(c, n), saving' = saving
  PROVE  /\ node' \in [Conns -> NodeStates] /\ kid' \in [Conns -> KidStates]
         /\ Connections!TreeSpinnerHasALoad' /\ NavAsked'
<1>1. /\ Connections!Becomes(c, n) /\ changes' = Connections!FlyingAfter(c, n)
      /\ changed' = changed
  BY DEF Connections!NoLoad
<1>2. changes' \subseteq changes /\ \A p \in changes : p.kind = "node" => p \in changes'
  BY <1>1 DEF Connections!FlyingAfter
<1>3. n.loading => \E p \in changes' : p.kind = "node" /\ p.conn = c
  BY <1>2 DEF NavInv, Connections!TreeSpinnerHasALoad
<1> QED
  BY <1>1, <1>2, <1>3, NodeBecomes, NavTakes

-----------------------------------------------------------------------------
\* The nodes of the connections.
LEMMA NavNodes ==
  ASSUME NavInv, NEW c \in listed,
         Connections!Toggle(c) \/ Connections!Refresh(c) \/ Connections!ToggleShowAll(c)
  PROVE  NavInv'
<1>0. /\ c \in Conns /\ node[c] \in NodeStates
      /\ showAll \in [Conns -> {"all", "one", "unset"}]
  BY DEF NavInv, TreeTypes
<1>1. CASE Connections!Toggle(c)
  <2> DEFINE n == [node[c] EXCEPT !.open = ~@]
  <2>1. n \in NodeStates /\ [n EXCEPT !.loading = TRUE] \in NodeStates
        /\ n.open = [n EXCEPT !.loading = TRUE].open /\ n.shows = [n EXCEPT !.loading = TRUE].shows
        /\ n.loading = node[c].loading
    BY <1>0 DEF NodeStates
  <2>2. /\ Connections!Load(c, n, showAll[c]) \/ Connections!NoLoad(c, n)
        /\ UNCHANGED <<stored, byDefault, listed, showAll, dialog, saving>>
    BY <1>1 DEF Connections!Toggle, Connections!server
  <2> HIDE DEF n
  <2> QED
    BY <1>0, <2>1, <2>2, NodeLoads, NodeStays DEF NavInv, TreeTypes, FlagsAreSet
<1>2. CASE Connections!Refresh(c)
  <2> DEFINE n == Connections!Reloaded(c)
  <2>1. n \in NodeStates /\ [n EXCEPT !.loading = TRUE] \in NodeStates
        /\ n.open = [n EXCEPT !.loading = TRUE].open /\ n.shows = [n EXCEPT !.loading = TRUE].shows
    BY <1>0 DEF NodeStates, Connections!Reloaded
  <2>2. /\ Connections!Load(c, n, showAll[c])
        /\ UNCHANGED <<stored, byDefault, listed, showAll, dialog, saving>>
    BY <1>2 DEF Connections!Refresh, Connections!server
  <2> HIDE DEF n
  <2> QED
    BY <1>0, <2>1, <2>2, NodeLoads DEF NavInv, TreeTypes, FlagsAreSet
<1>3. CASE Connections!ToggleShowAll(c)
  <2> DEFINE n == [node[c] EXCEPT !.shows = "none"]
             flag == IF showAll[c] = "all" THEN "one" ELSE "all"
  <2>1. n \in NodeStates /\ [n EXCEPT !.loading = TRUE] \in NodeStates
        /\ n.open = [n EXCEPT !.loading = TRUE].open /\ n.shows = [n EXCEPT !.loading = TRUE].shows
        /\ n.loading = node[c].loading
    BY <1>0 DEF NodeStates
  <2>2. /\ Connections!Load(c, n, flag) \/ Connections!NoLoad(c, n)
        /\ showAll' = [showAll EXCEPT ![c] = flag]
        /\ UNCHANGED <<stored, byDefault, listed, dialog, saving>>
    BY <1>3 DEF Connections!ToggleShowAll, Connections!server
  <2>3. flag \in {"all", "one"}
    OBVIOUS
  <2> HIDE DEF n, flag
  <2>4. showAll' \in [Conns -> {"all", "one", "unset"}] /\ FlagsAreSet'
    BY <1>0, <2>2, <2>3 DEF NavInv, FlagsAreSet
  <2> QED
    BY <1>0, <2>1, <2>2, <2>4, NodeLoads, NodeStays DEF NavInv, TreeTypes
<1> QED
  BY <1>1, <1>2, <1>3

\* The node below.
LEMMA NavKids ==
  ASSUME NavInv, NEW c \in listed, Connections!KidToggle(c) \/ Connections!KidRefresh(c)
  PROVE  NavInv'
<1> DEFINE q == Connections!Request("kid", c, None)
<1>0. c \in Conns /\ kid \in [Conns -> KidStates] /\ kid[c] \in KidStates
  BY DEF NavInv, TreeTypes
<1>1. NavRequest(q) /\ q.kind = "kid" /\ q.conn = c
  BY <1>0 DEF NavRequest, Connections!Request, Connections!Kinds
<1>2. UNCHANGED <<stored, byDefault, listed, showAll, node, dialog, saving>>
  BY DEF Connections!KidToggle, Connections!KidRefresh, Connections!server
<1>3. PICK k \in KidStates : /\ kid' = [kid EXCEPT ![c] = k]
                             /\ \/ Connections!Send(changes, q)
                                \/ UNCHANGED <<changes, changed>> /\ k.loading = kid[c].loading
  <2>1. CASE Connections!KidToggle(c)
    <3> DEFINE k == [kid[c] EXCEPT !.open = ~@]
               l == k.open /\ k.shows = "none"
               m == [k EXCEPT !.loading = @ \/ l]
    <3>1. /\ kid' = [kid EXCEPT ![c] = m]
          /\ IF l THEN Connections!Send(changes, q) ELSE UNCHANGED <<changes, changed>>
      BY <2>1 DEF Connections!KidToggle
    <3>2. m \in KidStates /\ (~l => m.loading = kid[c].loading)
      BY <1>0 DEF KidStates
    <3> HIDE DEF m, l, k, q
    <3> QED
      BY <3>1, <3>2
  <2>2. CASE Connections!KidRefresh(c)
    <3>1. [open |-> TRUE, loading |-> TRUE, shows |-> "none"] \in KidStates
      BY DEF KidStates
    <3> QED
      BY <2>2, <3>1 DEF Connections!KidRefresh
  <2> QED
    BY <2>1, <2>2
<1> HIDE DEF q
<1>4. kid' \in [Conns -> KidStates] /\ \A d \in Conns : kid'[d] = IF d = c THEN k ELSE kid[d]
  BY <1>0, <1>3
<1>5. changes \subseteq changes' /\ (q \in changes' \/ k.loading = kid[c].loading)
  BY <1>3 DEF Connections!Send
<1>6. Connections!TreeSpinnerHasALoad'
  BY <1>0, <1>1, <1>2, <1>4, <1>5 DEF NavInv, Connections!TreeSpinnerHasALoad
<1>7. NavAsked'
  <2>1. changes \in SUBSET changes
    OBVIOUS
  <2> QED
    BY <1>1, <1>2, <1>3, <2>1, NavSends, NavTakes DEF q
<1> QED
  BY <1>2, <1>4, <1>6, <1>7 DEF NavInv, TreeTypes, FlagsAreSet

\* A step that leaves the nodes, and all that they wait for, as they are.
LEMMA NavAside ==
  ASSUME NavInv, UNCHANGED <<listed, showAll, node, kid>>,
         stored' \subseteq Conns, byDefault' \in [Conns -> {"all", "one"}],
         dialog' \in Conns \cup {Connections!New, None}, NavAsked',
         \A p \in changes : p \in changes' \/ p.kind \notin {"node", "kid"}
  PROVE  NavInv'
<1>1. Connections!TreeSpinnerHasALoad'
  BY DEF NavInv, Connections!TreeSpinnerHasALoad
<1> QED
  BY <1>1 DEF NavInv, TreeTypes, FlagsAreSet

\* What asks the server for something else than a node's children.
LEMMA NavAsks ==
  ASSUME NavInv,
         \/ Connections!ReloadList \/ Connections!Save
         \/ \E c \in listed : Connections!Delete(c) \/ Connections!RenameSchema(c)
                              \/ Connections!Restore(c)
  PROVE  NavInv'
<1>0. changes \in SUBSET changes /\ stored \subseteq Conns /\ listed \subseteq Conns
      /\ byDefault \in [Conns -> {"all", "one"}] /\ dialog \in Conns \cup {Connections!New, None}
  BY DEF NavInv, TreeTypes
<1>1. UNCHANGED <<listed, showAll, node, kid, stored, byDefault, dialog>>
  BY DEF Connections!ReloadList, Connections!Save, Connections!Delete,
         Connections!RenameSchema, Connections!Restore, Connections!server, Connections!tree
<1>2. \E kind, c, arg : /\ NavRequest(Connections!Request(kind, c, arg))
                        /\ Connections!Send(changes, Connections!Request(kind, c, arg))
  <2>1. CASE Connections!ReloadList
    <3>1. NavRequest(Connections!Request("list", None, [has |-> stored, all |-> byDefault]))
      BY <1>0 DEF NavRequest, Connections!Request, Connections!Kinds
    <3> QED
      BY <2>1, <3>1 DEF Connections!ReloadList, Connections!ListRequest
  <2>2. CASE Connections!Save
    <3>1. PICK c \in IF dialog = Connections!New
                     THEN {d \in Conns \ stored : showAll[d] = "unset"} ELSE {dialog},
               all \in {"all", "one"} :
            Connections!Send(changes, Connections!Request("save", c,
                                        [all |-> all, new |-> dialog = Connections!New]))
      BY <2>2 DEF Connections!Save
    <3>2. c \in Conns
      BY <1>0, <2>2, <3>1 DEF Connections!Save
    <3>3. NavRequest(Connections!Request("save", c, [all |-> all, new |-> dialog = Connections!New]))
      BY <3>2 DEF NavRequest, Connections!Request, Connections!Kinds
    <3> QED
      BY <3>1, <3>3
  <2>3. ASSUME NEW c \in listed,
               Connections!Delete(c) \/ Connections!RenameSchema(c) \/ Connections!Restore(c)
        PROVE  \E kind : /\ NavRequest(Connections!Request(kind, c, None))
                           /\ Connections!Send(changes, Connections!Request(kind, c, None))
    <3>1. \A kind \in {"delete", "rename", "restore"} : NavRequest(Connections!Request(kind, c, None))
      BY <1>0 DEF NavRequest, Connections!Request, Connections!Kinds
    <3> QED
      BY <2>3, <3>1 DEF Connections!Delete, Connections!RenameSchema, Connections!Restore
  <2> QED
    BY <2>1, <2>2, <2>3
<1>3. saving' \in {0, saving, changed + 1}
  BY DEF Connections!ReloadList, Connections!Save, Connections!Delete,
         Connections!RenameSchema, Connections!Restore
<1>4. NavAsked'
  BY <1>0, <1>2, <1>3, NavSends
<1>5. changes \subseteq changes'
  BY <1>2 DEF Connections!Send
<1> QED
  BY <1>0, <1>1, <1>4, <1>5, NavAside

LEMMA NavDialog ==
  ASSUME NavInv, Connections!CloseDialog \/ \E d \in listed \cup {Connections!New} : Connections!OpenDialog(d)
  PROVE  NavInv'
<1>1. NavAsked'
  BY NavTakes DEF Connections!CloseDialog, Connections!OpenDialog
<1> QED
  BY <1>1, NavAside
  DEF Connections!CloseDialog, Connections!OpenDialog, NavInv, TreeTypes, Connections!server,
      Connections!tree

-----------------------------------------------------------------------------
\* The answers. A list makes the nodes that are gone anew, and drops their requests.
LEMMA NavListAnswered ==
  ASSUME NavInv, NEW q \in changes, Connections!ListAnswered(q) \/ Connections!ListFails(q)
  PROVE  NavInv'
<1>1. CASE Connections!ListFails(q)
  <2>1. NavAsked'
    BY <1>1, NavTakes DEF Connections!ListFails, Connections!Take
  <2> QED
    BY <1>1, <2>1, NavAside
    DEF Connections!ListFails, Connections!Take, Connections!server, Connections!tree, NavInv,
        TreeTypes
<1>2. CASE Connections!ListAnswered(q)
  <2>1. /\ q.kind = "list" /\ listed' = q.arg.has
        /\ showAll' = [c \in Conns |-> IF c \in q.arg.has /\ showAll[c] = "unset"
                                       THEN q.arg.all[c] ELSE showAll[c]]
        /\ node' = [c \in Conns |-> IF c \in q.arg.has THEN node[c] ELSE Connections!Fresh]
        /\ kid' = [c \in Conns |-> IF c \in q.arg.has THEN kid[c] ELSE Connections!Fresh]
        /\ changes' = {p \in changes \ {q} : p.kind \in {"node", "kid"} => p.conn \in q.arg.has}
        /\ UNCHANGED <<stored, byDefault, changed, dialog, saving>>
    BY <1>2 DEF Connections!ListAnswered, Connections!Seeded, Connections!server
  <2>2. q.arg.has \subseteq Conns /\ q.arg.all \in [Conns -> {"all", "one"}]
    BY <2>1 DEF NavInv, NavAsked, NavRequest
  <2>3. /\ Connections!Fresh \in NodeStates /\ Connections!Fresh \in KidStates
        /\ Connections!Fresh.loading = FALSE
    BY DEF Connections!Fresh, NodeStates, KidStates
  <2>4. TreeTypes' /\ FlagsAreSet'
    BY <2>1, <2>2, <2>3 DEF NavInv, TreeTypes, FlagsAreSet
  <2>5. NavAsked'
    BY <2>1, NavTakes
  <2>6. Connections!TreeSpinnerHasALoad'
    BY <2>1, <2>3 DEF NavInv, Connections!TreeSpinnerHasALoad
  <2> QED
    BY <2>4, <2>5, <2>6 DEF NavInv
<1> QED
  BY <1>1, <1>2

LEMMA NavNodeAnswered ==
  ASSUME NavInv, NEW q \in changes, Connections!NodeAnswered(q)
  PROVE  NavInv'
<1> DEFINE c == q.conn
<1>0. c \in Conns /\ q.kind = "node" /\ q.arg \in {"schemas", "databases"} /\ node[c] \in NodeStates
  BY DEF Connections!NodeAnswered, NavInv, NavAsked, NavRequest, TreeTypes
<1>1. PICK shows \in {q.arg, "error"} :
        LET n == [node[q.conn] EXCEPT !.loading = FALSE, !.shows = shows] IN
        /\ Connections!Becomes(q.conn, n)
        /\ changes' = Connections!FlyingAfter(q.conn, n) \ {q}
  BY DEF Connections!NodeAnswered
<1> DEFINE n == [node[c] EXCEPT !.loading = FALSE, !.shows = shows]
<1>2. n \in NodeStates /\ n.loading = FALSE
  BY <1>0 DEF NodeStates
<1>3. /\ Connections!Becomes(c, n) /\ changes' = Connections!FlyingAfter(c, n) \ {q}
      /\ UNCHANGED <<stored, byDefault, changed, listed, showAll, dialog, saving>>
  BY <1>1 DEF Connections!NodeAnswered, Connections!server
<1>4. changes' \subseteq changes
  BY <1>3 DEF Connections!FlyingAfter
<1>5. NavAsked'
  BY <1>3, <1>4, NavTakes
<1> HIDE DEF n, c
<1>6. \A p \in Connections!FlyingAfter(c, n) : p \in changes' \/ (p.kind = "node" /\ p.conn = c)
  BY <1>0, <1>3 DEF c
<1> QED
  BY <1>0, <1>2, <1>3, <1>5, <1>6, NodeBecomes DEF NavInv, TreeTypes, FlagsAreSet

LEMMA NavKidAnswered ==
  ASSUME NavInv, NEW q \in changes, Connections!KidAnswered(q)
  PROVE  NavInv'
<1>0. q.conn \in Conns /\ q.kind = "kid" /\ kid \in [Conns -> KidStates]
  BY DEF Connections!KidAnswered, NavInv, NavAsked, NavRequest, TreeTypes
<1>1. PICK shows \in {"items", "error"} :
        kid' = [kid EXCEPT ![q.conn].loading = FALSE, ![q.conn].shows = shows]
  BY DEF Connections!KidAnswered, Connections!loadChildren
<1>2. /\ changes' = changes \ {q} /\ changed' = changed
      /\ UNCHANGED <<stored, byDefault, listed, showAll, node, dialog, saving>>
  BY DEF Connections!KidAnswered, Connections!Take, Connections!server
<1>3. kid' \in [Conns -> KidStates] /\ kid'[q.conn].loading = FALSE
      /\ \A d \in Conns \ {q.conn} : kid'[d] = kid[d]
  BY <1>0, <1>1 DEF KidStates
<1>4. NavAsked'
  BY <1>2, NavTakes
<1>5. Connections!TreeSpinnerHasALoad'
  BY <1>0, <1>2, <1>3 DEF NavInv, Connections!TreeSpinnerHasALoad
<1> QED
  BY <1>2, <1>3, <1>4, <1>5 DEF NavInv, TreeTypes, FlagsAreSet

LEMMA NavChanged ==
  ASSUME NavInv, NEW q \in changes, Connections!SaveAnswered(q) \/ Connections!DeleteAnswered(q)
  PROVE  NavInv'
<1>0. /\ q.kind \in {"save", "delete"} /\ q.conn \in Conns
      /\ q.kind = "save" => q.arg.all \in {"all", "one"}
      /\ changes \ {q} \in SUBSET changes
  BY DEF Connections!SaveAnswered, Connections!DeleteAnswered, NavInv, NavAsked, NavRequest
<1>1. /\ stored' \subseteq Conns /\ byDefault' \in [Conns -> {"all", "one"}]
      /\ dialog' \in Conns \cup {Connections!New, None}
      /\ UNCHANGED <<listed, showAll, node, kid>>
  BY <1>0 DEF Connections!SaveAnswered, Connections!DeleteAnswered, Connections!Saved,
              Connections!server, Connections!tree, NavInv, TreeTypes
<1>2. NavAsked' /\ changes \ {q} \subseteq changes'
  <2>1. NavRequest(Connections!ListRequest(stored', byDefault'))
    BY <1>1 DEF NavRequest, Connections!ListRequest, Connections!Request, Connections!Kinds
  <2>2. \/ Connections!Send(changes \ {q}, Connections!ListRequest(stored', byDefault'))
        \/ Connections!Take(q)
    BY DEF Connections!SaveAnswered, Connections!DeleteAnswered
  <2>3. saving' \in {0, saving}
    BY DEF Connections!SaveAnswered, Connections!DeleteAnswered
  <2> QED
    BY <1>0, <2>1, <2>2, <2>3, NavSends, NavTakes
    DEF Connections!Take, Connections!Send, Connections!ListRequest
<1> QED
  BY <1>0, <1>1, <1>2, NavAside

LEMMA NavChangeAnswered ==
  ASSUME NavInv, NEW q \in changes, Connections!ChangeAnswered(q)
  PROVE  NavInv'
<1>0. q.kind \in {"rename", "restore"} /\ UNCHANGED <<stored, byDefault, listed, showAll, dialog, saving>>
  BY DEF Connections!ChangeAnswered, Connections!server
<1>1. CASE Connections!Take(q) /\ UNCHANGED <<node, kid>>
  <2>1. NavAsked'
    BY <1>0, <1>1, NavTakes DEF Connections!Take
  <2> QED
    BY <1>0, <1>1, <2>1, NavAside DEF Connections!Take, NavInv, TreeTypes
<1>2. ASSUME q.conn \in listed,
             Connections!Becomes(q.conn, [Connections!Reloaded(q.conn) EXCEPT !.loading = TRUE]),
             Connections!Send(Connections!FlyingAfter(q.conn, Connections!Reloaded(q.conn)) \ {q},
                              Connections!Request("node", q.conn, Connections!Level(showAll[q.conn])))
      PROVE  NavInv'
  <2> DEFINE c == q.conn
             n == [Connections!Reloaded(c) EXCEPT !.loading = TRUE]
             others == Connections!FlyingAfter(c, n) \ {q}
             p == Connections!Request("node", c, Connections!Level(showAll[c]))
  <2>1. c \in Conns /\ node[c] \in NodeStates
    BY <1>2 DEF NavInv, TreeTypes
  <2>2. n \in NodeStates /\ n.open = Connections!Reloaded(c).open
        /\ n.shows = Connections!Reloaded(c).shows
    BY <2>1 DEF NodeStates, Connections!Reloaded
  <2>3. Connections!FlyingAfter(c, n) = Connections!FlyingAfter(c, Connections!Reloaded(c))
    BY <2>2 DEF Connections!FlyingAfter, Connections!Mounted
  <2>4. others \in SUBSET changes
    BY DEF Connections!FlyingAfter
  <2>5. NavRequest(p) /\ p.kind = "node" /\ p.conn = c
    BY <2>1 DEF NavRequest, Connections!Request, Connections!Level, Connections!Kinds
  <2>6. Connections!Becomes(c, n) /\ Connections!Send(others, p)
    BY <1>2, <2>3
  <2>7. NavAsked'
    BY <1>0, <2>4, <2>5, <2>6, NavSends
  <2>8. p \in changes' /\ \A r \in Connections!FlyingAfter(c, n) : r \in changes' \/ r = q
    BY <2>6 DEF Connections!Send
  <2> HIDE DEF c, n, others, p
  <2> QED
    BY <1>0, <2>1, <2>2, <2>5, <2>6, <2>7, <2>8, NodeBecomes DEF NavInv, TreeTypes, FlagsAreSet
<1> QED
  BY <1>1, <1>2 DEF Connections!ChangeAnswered

LEMMA NavStep == NavInv /\ [Connections!Next]_(Connections!vars) => NavInv'
<1> SUFFICES ASSUME NavInv, [Connections!Next]_(Connections!vars) PROVE NavInv'
  OBVIOUS
<1>1. CASE UNCHANGED Connections!vars
  BY <1>1 DEF Connections!vars, Connections!server, Connections!tree, NavInv, TreeTypes, NavAsked,
              Connections!TreeSpinnerHasALoad, FlagsAreSet
<1>2. ASSUME NEW c \in listed, Connections!ConnectionNode(c) \/ Connections!TreeNode(c)
      PROVE  NavInv'
  BY <1>2, NavNodes, NavKids, NavAsks, NavDialog
  DEF Connections!ConnectionNode, Connections!TreeNode
<1>3. ASSUME Connections!Header \/ Connections!ConnectionDialog PROVE NavInv'
  BY <1>3, NavAsks, NavDialog DEF Connections!Header, Connections!ConnectionDialog
<1>4. ASSUME NEW q \in changes,
             \/ Connections!ListAnswered(q) \/ Connections!ListFails(q)
             \/ Connections!NodeAnswered(q) \/ Connections!KidAnswered(q)
             \/ Connections!SaveAnswered(q) \/ Connections!DeleteAnswered(q)
             \/ Connections!ChangeAnswered(q)
      PROVE  NavInv'
  BY <1>4, NavListAnswered, NavNodeAnswered, NavKidAnswered, NavChanged, NavChangeAnswered
<1> QED
  BY <1>1, <1>2, <1>3, <1>4 DEF Connections!Next

LEMMA NavInvariant == Connections!Spec => []NavInv
<1>1. Connections!NavigatorAssumption
  BY PagesAssumption DEF PagesAssumption
<1> QED
  BY <1>1, NavInit, NavStep, PTL DEF Connections!Spec

\* No list that comes changes a flag of a node that is there: the operator does,
\* at that node.
THEOREM FlagsAreTheOperators == PagesSpec => TogglesSurvive
<1>1. ASSUME NavInv, [Connections!Next]_(Connections!vars)
      PROVE  [\A c \in listed : showAll'[c] # showAll[c] => Connections!ToggleShowAll(c)]_(Connections!vars)
  <2> SUFFICES ASSUME Connections!Next, NEW c \in listed, showAll'[c] # showAll[c]
               PROVE  Connections!ToggleShowAll(c)
    BY <1>1
  <2>1. c \in Conns /\ showAll[c] # "unset" /\ showAll \in [Conns -> {"all", "one", "unset"}]
    BY <1>1 DEF NavInv, TreeTypes, FlagsAreSet
  <2>2. \A q \in changes : ~Connections!ListAnswered(q)
    BY <2>1 DEF Connections!ListAnswered, Connections!Seeded
  <2>3. \E d \in listed : Connections!ToggleShowAll(d)
    BY <2>2 DEF Connections!Next, Connections!Header, Connections!ConnectionDialog,
       Connections!ConnectionNode, Connections!TreeNode, Connections!ReloadList,
       Connections!OpenDialog, Connections!CloseDialog, Connections!Save, Connections!Toggle,
       Connections!Refresh, Connections!Delete, Connections!Restore, Connections!KidToggle,
       Connections!KidRefresh, Connections!RenameSchema, Connections!ListFails,
       Connections!NodeAnswered, Connections!KidAnswered, Connections!SaveAnswered,
       Connections!DeleteAnswered, Connections!ChangeAnswered, Connections!tree
  <2>4. \A d \in listed : Connections!ToggleShowAll(d) => d = c
    BY <2>1 DEF Connections!ToggleShowAll
  <2> QED
    BY <2>3, <2>4
<1> QED
  BY <1>1, PartsOfPages, NavInvariant, PTL DEF TogglesSurvive, Connections!TogglesSurvive, Connections!Spec
-----------------------------------------------------------------------------
(* The log viewer. A page is a top part of what lies below its end, so what it    *)
(* leaves out lies at its oldest line or below: the exact end of the next page.   *)
(* A page that was asked for is that of the rows there are now unless another     *)
(* query was answered meanwhile, which the number of the query tells.              *)

LEMMA SameSets ==
  /\ \A S : Viewer!Cardinality(S) = Cardinality(S)
  /\ \A S : Viewer!IsFiniteSet(S) = IsFiniteSet(S)
  BY DEF Viewer!Cardinality, Cardinality, Viewer!IsFiniteSet, IsFiniteSet

LEMMA ViewerFacts ==
  /\ Ns \in [Lines -> Nat] /\ Matches \in [Queries -> SUBSET Lines] /\ IsFiniteSet(Lines)
  /\ \A w \in Windows : {w.start, w.end} \subseteq Nat /\ w.start < w.end
  /\ {PageLimit, ExportMax, MaxLoki} \subseteq Nat \ {0}
  /\ None \notin Queries /\ None \notin Windows
  BY PagesAssumption, SameSets DEF PagesAssumption, Viewer!ViewerAssumption

\* There is an oldest line.
LEMMA Oldest ==
  ASSUME NEW p \in SUBSET Lines, p # {}
  PROVE  /\ Viewer!OldestNs(p) \in Nat
         /\ \E l \in p : Ns[l] = Viewer!OldestNs(p)
         /\ \A l \in p : Ns[l] >= Viewer!OldestNs(p)
<1> DEFINE T == {Ns[l] : l \in p}
           Before == OpToRel(<, Nat)
<1>0. IsWellFoundedOn(Before, Nat)
  BY NatLessThanWellFounded, Zenon
<1>1. T \subseteq Nat /\ T # {}
  BY ViewerFacts
<1> HIDE DEF T, Before
<1>2. PICK x \in T : \A y \in T : ~(<<y, x>> \in Before)
  BY <1>0, <1>1, WFMin
<1>3. \A y \in T : x <= y
  <2> SUFFICES ASSUME NEW y \in T PROVE x <= y
    OBVIOUS
  <2>1. x \in Nat /\ y \in Nat /\ <<y, x>> \notin Before
    BY <1>1, <1>2
  <2>2. y < x => <<y, x>> \in Before
    BY <2>1 DEF Before, OpToRel
  <2> QED
    BY <2>1, <2>2
<1>4. Viewer!OldestNs(p) \in T /\ \A y \in T : Viewer!OldestNs(p) <= y
  <2>1. Viewer!OldestNs(p) = CHOOSE z \in T : \A y \in T : z <= y
    BY DEF Viewer!OldestNs, Viewer!Min, T
  <2> QED
    BY <1>3, <2>1
<1> QED
  BY <1>1, <1>4 DEF T

\* A query of the page.
OfQuery(c) == c.query \in Queries /\ c.window \in Windows /\ c.run \in 1 .. searched

LEMMA WindowIsOfLines ==
  ASSUME NEW c, c.query \in Queries
  PROVE  Viewer!InWindow(c) \subseteq Lines
  BY ViewerFacts DEF Viewer!InWindow

\* What a page holds, and that it is full when it leaves something out.
LEMMA PageHolds ==
  ASSUME NEW c, c.query \in Queries, NEW before, NEW p \in Viewer!Pages(c, before)
  PROVE  /\ p \in SUBSET Lines /\ p \subseteq Viewer!InWindow(c)
         /\ Viewer!Cardinality(p) \in Nat
         /\ p = {} => Viewer!Cardinality(p) < PageLimit
         /\ \A l \in p : Ns[l] < before
         /\ \A l \in Viewer!InWindow(c) \ p :
              Ns[l] < before => /\ Viewer!Cardinality(p) >= PageLimit
                                /\ \A k \in p : Ns[k] >= Ns[l]
<1> DEFINE found == {l \in Viewer!InWindow(c) : Ns[l] < before}
           size == IF Viewer!Cardinality(found) < PageLimit THEN Viewer!Cardinality(found) ELSE PageLimit
<1>1. p \in SUBSET found /\ Viewer!Cardinality(p) = size /\ \A l \in p, m \in found \ p : Ns[l] >= Ns[m]
  BY DEF Viewer!Pages, Viewer!kSubset
<1>2. found \in SUBSET Lines
  BY WindowIsOfLines
<1> HIDE DEF found
<1>3. IsFiniteSet(found)
  BY <1>2, ViewerFacts, FS_Subset
<1>4. /\ Cardinality(found) \in Nat /\ IsFiniteSet(p) /\ Cardinality(p) \in Nat
      /\ Cardinality(found) = Cardinality(p) => found = p
  BY <1>1, <1>3, FS_Subset, FS_CardinalityType
<1>5. p = {} => Cardinality(p) = 0
  BY FS_EmptySet
<1>6. PageLimit \in Nat \ {0}
  BY ViewerFacts
<1> QED
  BY <1>1, <1>2, <1>4, <1>5, <1>6, SameSets DEF found

-----------------------------------------------------------------------------
\* The requests: queries are numbered, and only a query that was answered is paged
\* or exported.
Reads(t) ==
  /\ t.id \in 1 .. searched /\ t.kind \in {"run", "older", "export"} /\ OfQuery(t.ctx)
  /\ t.kind = "run" => t.ctx.run = t.id /\ t.before = t.ctx.window.end
  /\ t.kind = "export" =>
       /\ t.before \in Nat
       /\ t.got \subseteq Viewer!InWindow(t.ctx) /\ \A l \in t.got : Ns[l] >= t.before
       /\ \A l \in Viewer!InWindow(t.ctx) \ t.got : Ns[l] \in t.ends \/ Ns[l] < t.before

\* An older page is for the rows there are, unless they are of another query.
OlderFits(t) ==
  /\ loadingMore
  /\ ctx # None /\ t.ctx.run = ctx.run =>
       t.ctx = ctx /\ pages # << >> /\ t.before = Viewer!Anchor

ViewTypes ==
  /\ builder \in Queries \cup {None} /\ window \in Windows \cup {None}
  /\ {hasMore, finding, loadingMore, exporting, refused} \subseteq BOOLEAN
  /\ searched \in 0 .. MaxLoki
  /\ pages \in Seq((SUBSET Lines) \ {{}})
  /\ ctx = None \/ OfQuery(ctx)
  /\ ctx # None => whose # {}
  /\ file = None \/ file.ctx.query \in Queries

Answerable ==
  /\ \A t \in searches : Reads(t)
  /\ \A t, u \in searches : t.id = u.id => t = u
  /\ \A t, u \in searches : t.kind = "run" /\ u.kind # "run" => u.ctx.run # t.id
  /\ \A t \in searches : t.kind = "run" /\ ctx # None => ctx.run # t.id
  /\ \A t \in searches : t.kind = "older" => OlderFits(t)
  /\ \A t, u \in searches : t.kind = "older" /\ u.kind = "older" => t = u

ViewInv == /\ ViewTypes /\ Answerable /\ Viewer!SpinnersEnd
           /\ Viewer!PagesJoin /\ Viewer!FileIsTheWindow

-----------------------------------------------------------------------------
LEMMA ViewInit == Viewer!Init => ViewInv
<1> SUFFICES ASSUME Viewer!Init PROVE ViewInv
  OBVIOUS
<1>1. /\ window \in Windows /\ ctx = None /\ pages = << >> /\ hasMore = FALSE /\ whose = {}
      /\ loadingMore = FALSE /\ exporting = FALSE /\ refused = FALSE /\ file = None
      /\ builder \in Queries \cup {None}
  BY DEF Viewer!Init
<1>2. /\ finding \in BOOLEAN /\ searched \in 0 .. MaxLoki
      /\ searches = {} => ~finding
  <2>1. MaxLoki \in Nat \ {0}
    BY ViewerFacts
  <2>2. CASE finding = FALSE /\ searched = 0
    <3>1. finding \in BOOLEAN /\ ~finding
      BY <2>2, Zenon
    <3> QED
      BY <2>1, <2>2, <3>1
  <2>3. CASE finding = TRUE /\ searched = 1 /\ searches # {}
    BY <2>1, <2>3
  <2>4. \/ finding = FALSE /\ searched = 0
        \/ finding = TRUE /\ searched = 1 /\ searches # {}
    BY DEF Viewer!Init
  <2> QED
    BY <2>2, <2>3, <2>4
<1>3. ViewTypes
  <2>1. << >> \in Seq((SUBSET Lines) \ {{}})
    OBVIOUS
  <2> QED
    BY <1>1, <1>2, <2>1 DEF ViewTypes
<1>4. Viewer!PagesJoin /\ Viewer!FileIsTheWindow
  BY <1>1 DEF Viewer!PagesJoin, Viewer!FileIsTheWindow
<1>5. Answerable /\ Viewer!SpinnersEnd
  <2>1. CASE searches = {}
    BY <1>1, <1>2, <2>1 DEF Answerable, Viewer!SpinnersEnd
  <2>2. CASE searches # {}
    <3> DEFINE c == [query |-> builder, window |-> window, run |-> 1]
               t == [id |-> 1, kind |-> "run", before |-> window.end, got |-> {}, ends |-> {},
                     ctx |-> c]
    <3>1. searches = {t} /\ searched = 1 /\ builder \in Queries
      BY <1>1, <2>2 DEF Viewer!Init
    <3>2. OfQuery(c)
      BY <1>1, <3>1 DEF OfQuery
    <3>3. /\ t.id = 1 /\ t.kind = "run" /\ t.ctx = c /\ c.run = 1
          /\ t.before = c.window.end
      OBVIOUS
    <3> HIDE DEF t, c
    <3>4. Reads(t)
      BY <3>1, <3>2, <3>3 DEF Reads
    <3> QED
      BY <1>1, <3>1, <3>3, <3>4 DEF Answerable, Viewer!SpinnersEnd
  <2> QED
    BY <2>1, <2>2
<1> QED
  BY <1>3, <1>4, <1>5 DEF ViewInv

-----------------------------------------------------------------------------
\* What is shown after a page was put below, and what it leaves out.
LEMMA PageJoins ==
  ASSUME NEW ps \in Seq((SUBSET Lines) \ {{}}), NEW S \in SUBSET Lines,
         S = UNION {ps[i] : i \in DOMAIN ps},
         NEW q \in (SUBSET Lines) \ {{}}, NEW qs, qs = Append(ps, q)
  PROVE  /\ qs \in Seq((SUBSET Lines) \ {{}}) /\ Len(qs) = Len(ps) + 1 /\ qs[Len(qs)] = q
         /\ DOMAIN qs = DOMAIN ps \cup {Len(qs)} /\ qs # << >>
         /\ \A i \in DOMAIN ps : i \in DOMAIN qs /\ i # Len(qs) /\ qs[i] = ps[i]
         /\ UNION {qs[i] : i \in DOMAIN qs} = S \cup q
<1>1. /\ qs \in Seq((SUBSET Lines) \ {{}}) /\ Len(qs) = Len(ps) + 1 /\ qs[Len(qs)] = q
      /\ DOMAIN qs = DOMAIN ps \cup {Len(qs)} /\ qs # << >>
      /\ \A i \in DOMAIN ps : i \in DOMAIN qs /\ i # Len(qs) /\ qs[i] = ps[i]
  OBVIOUS
<1> QED
  BY <1>1

\* The steps that leave the rows, the file and what is asked as they are, but for
\* a request that is sent.
LEMMA ViewControls ==
  ASSUME ViewInv, Viewer!Controls
  PROVE  ViewInv'
<1>0. UNCHANGED <<ctx, pages, hasMore, whose, file, loadingMore>>
  BY DEF Viewer!Controls, Viewer!SetSelectors, Viewer!SetWindow, Viewer!Run, Viewer!Export,
         Viewer!results, Viewer!spinners
<1>1. Viewer!PagesJoin' /\ Viewer!FileIsTheWindow' /\ Viewer!Anchor' = Viewer!Anchor
  BY <1>0 DEF ViewInv, Viewer!PagesJoin, Viewer!FileIsTheWindow, Viewer!Anchor, Viewer!Shown,
              Viewer!InWindow
<1>2. CASE UNCHANGED <<searches, searched, finding, exporting>>
  <2>1. builder' \in Queries \cup {None} /\ window' \in Windows \cup {None} /\ refused' \in BOOLEAN
    BY DEF Viewer!Controls, Viewer!SetSelectors, Viewer!SetWindow, Viewer!Run, Viewer!Export,
           Viewer!builder, ViewInv, ViewTypes
  <2>2. ViewTypes' /\ Viewer!SpinnersEnd'
    BY <1>0, <1>2, <2>1 DEF ViewInv, ViewTypes, OfQuery, Viewer!SpinnersEnd
  <2>3. Answerable'
    BY <1>0, <1>1, <1>2 DEF ViewInv, Answerable, Reads, OfQuery, OlderFits
  <2> QED
    BY <1>1, <2>2, <2>3 DEF ViewInv
<1>3. ASSUME NEW t, Viewer!Send(t), UNCHANGED <<builder, window>>, refused' = FALSE,
             \/ /\ t.kind = "run" /\ t.id = searched + 1 /\ t.ctx.run = searched + 1
                /\ t.ctx.query \in Queries /\ t.ctx.window \in Windows
                /\ t.before = t.ctx.window.end
                /\ finding' = TRUE /\ exporting' = exporting
             \/ /\ t.kind = "export" /\ t.id = searched + 1 /\ ctx # None /\ t.ctx = ctx
                /\ t.before = ctx.window.end /\ t.got = {} /\ exporting' = TRUE /\ finding' = finding
      PROVE  ViewInv'
  <2>1. /\ searched \in 0 .. MaxLoki /\ MaxLoki \in Nat /\ searched < MaxLoki
        /\ searched' = searched + 1 /\ searches' = searches \cup {t}
    BY <1>3, ViewerFacts DEF Viewer!Send, ViewInv, ViewTypes
  <2>2. searched' \in 0 .. MaxLoki /\ \A n \in 1 .. searched : n \in 1 .. searched' /\ n # searched'
    BY <2>1
  <2>3. Reads(t)'
    <3>1. OfQuery(t.ctx)'
      BY <1>3, <2>1, <2>2 DEF ViewInv, ViewTypes, OfQuery
    <3>2. t.id \in 1 .. searched'
      BY <1>3, <2>1
    <3>3. t.kind = "export" => /\ t.before \in Nat
                               /\ \A l \in Viewer!InWindow(t.ctx) : Ns[l] < t.before
      BY <1>3, ViewerFacts DEF Viewer!InWindow, ViewInv, ViewTypes, OfQuery
    <3> QED
      BY <1>3, <3>1, <3>2, <3>3 DEF Reads
  <2>4. \A u \in searches : Reads(u)' /\ u.id # t.id /\ u.ctx.run # t.id
    BY <1>3, <2>1, <2>2 DEF ViewInv, Answerable, Reads, OfQuery
  <2>5. \A u \in searches : u.kind = "older" => OlderFits(u)'
    BY <1>0, <1>1 DEF ViewInv, Answerable, OlderFits
  <2>6. ctx # None => ctx.run # searched + 1 /\ \A u \in searches : u.kind = "run" => ctx.run # u.id
    BY <2>2, <2>1 DEF ViewInv, ViewTypes, OfQuery, Answerable
  <2>7. Answerable'
    BY <1>0, <1>3, <2>1, <2>3, <2>4, <2>5, <2>6 DEF ViewInv, Answerable
  <2>8. ViewTypes'
    BY <1>0, <1>3, <2>1, <2>2 DEF ViewInv, ViewTypes, OfQuery
  <2>9. Viewer!SpinnersEnd'
    BY <1>0, <1>3, <2>1 DEF ViewInv, Viewer!SpinnersEnd
  <2> QED
    BY <1>1, <2>7, <2>8, <2>9 DEF ViewInv
<1>4. CASE Viewer!Run /\ None \notin {builder, window}
  <2> DEFINE c == [query |-> builder, window |-> window, run |-> searched + 1]
             t == Viewer!Request("run", c, window.end)
  <2>1. /\ Viewer!Send(t) /\ finding' = TRUE /\ refused' = FALSE
        /\ UNCHANGED <<builder, window, exporting>>
    BY <1>4 DEF Viewer!Run, Viewer!builder
  <2>2. /\ t.kind = "run" /\ t.id = searched + 1 /\ t.ctx = c /\ c.run = searched + 1
        /\ c.query = builder /\ c.window = window /\ t.before = window.end
    BY DEF Viewer!Request
  <2>3. builder \in Queries /\ window \in Windows
    BY <1>4 DEF ViewInv, ViewTypes
  <2> HIDE DEF t, c
  <2> QED
    BY <1>3, <2>1, <2>2, <2>3
<1>5. CASE Viewer!Export
  <2> DEFINE t == Viewer!Request("export", ctx, ctx.window.end)
  <2>1. /\ Viewer!Send(t) /\ exporting' = TRUE /\ refused' = FALSE /\ ctx # None
        /\ UNCHANGED <<builder, window, finding>>
    BY <1>5 DEF Viewer!Export, Viewer!builder
  <2>2. /\ t.kind = "export" /\ t.id = searched + 1 /\ t.ctx = ctx
        /\ t.before = ctx.window.end /\ t.got = {}
    BY DEF Viewer!Request
  <2> HIDE DEF t
  <2> QED
    BY <1>3, <2>1, <2>2
<1> QED
  BY <1>2, <1>4, <1>5
  DEF Viewer!Controls, Viewer!SetSelectors, Viewer!SetWindow, Viewer!Run, Viewer!spinners

LEMMA ViewLoadsOlder ==
  ASSUME ViewInv, Viewer!LoadOlder
  PROVE  ViewInv'
<1>0. PICK t : t = Viewer!Request("older", ctx, Viewer!Anchor)
  OBVIOUS
<1>1. /\ ~loadingMore /\ ctx # None /\ pages # << >> /\ Viewer!Send(t) /\ loadingMore' = TRUE
      /\ UNCHANGED <<builder, window, ctx, pages, hasMore, whose, finding, exporting, refused, file>>
  BY <1>0 DEF Viewer!LoadOlder, Viewer!builder, Viewer!results
<1>2. t.kind = "older" /\ t.id = searched + 1 /\ t.ctx = ctx /\ t.before = Viewer!Anchor
  BY <1>0 DEF Viewer!Request
<1>3. /\ searched \in 0 .. MaxLoki /\ MaxLoki \in Nat /\ searched < MaxLoki
      /\ searched' = searched + 1 /\ searches' = searches \cup {t}
  BY <1>1, ViewerFacts DEF Viewer!Send, ViewInv, ViewTypes
<1>4. searched' \in 0 .. MaxLoki /\ \A n \in 1 .. searched : n \in 1 .. searched' /\ n # searched'
  BY <1>3
<1>5. Viewer!PagesJoin' /\ Viewer!FileIsTheWindow' /\ Viewer!Anchor' = Viewer!Anchor
  BY <1>1 DEF ViewInv, Viewer!PagesJoin, Viewer!FileIsTheWindow, Viewer!Anchor, Viewer!Shown,
              Viewer!InWindow
<1>6. Reads(t)' /\ OlderFits(t)'
  <2>1. OfQuery(t.ctx)' /\ t.id \in 1 .. searched'
    BY <1>1, <1>2, <1>3, <1>4 DEF ViewInv, ViewTypes, OfQuery
  <2> QED
    BY <1>1, <1>2, <1>5, <2>1 DEF Reads, OlderFits
<1>7. \A u \in searches : Reads(u)' /\ u.id # t.id /\ u.kind # "older"
  BY <1>1, <1>2, <1>3, <1>4 DEF ViewInv, Answerable, Reads, OfQuery, OlderFits
<1>8. \A u \in searches : u.kind = "run" => ctx.run # u.id
  BY <1>1 DEF ViewInv, Answerable
<1>9. Answerable'
  <2>1. \A u \in searches' : u.kind = "older" => u = t
    BY <1>3, <1>7
  <2>2. \A u, v \in searches' : u.id = v.id => u = v
    BY <1>3, <1>7 DEF ViewInv, Answerable
  <2>3. \A u, v \in searches' : u.kind = "run" /\ v.kind # "run" => v.ctx.run # u.id
    BY <1>2, <1>3, <1>8 DEF ViewInv, Answerable
  <2>4. \A u \in searches' : Reads(u)'
    BY <1>3, <1>6, <1>7
  <2>5. \A u \in searches' : u.kind = "run" /\ ctx' # None => ctx'.run # u.id
    BY <1>1, <1>2, <1>3, <1>8
  <2> QED
    BY <1>6, <2>1, <2>2, <2>3, <2>4, <2>5 DEF Answerable
<1>10. ViewTypes' /\ Viewer!SpinnersEnd'
  BY <1>1, <1>2, <1>3, <1>4 DEF ViewInv, ViewTypes, OfQuery, Viewer!SpinnersEnd
<1> QED
  BY <1>5, <1>9, <1>10 DEF ViewInv

-----------------------------------------------------------------------------
\* The requests that are left when one is answered.
LEMMA LeftAnswerable ==
  ASSUME ViewInv, NEW t \in searches, searches' = searches \ {t}, searched' = searched,
         \A u \in searches \ {t} : u.kind = "run" /\ ctx' # None => ctx'.run # u.id,
         \A u \in searches \ {t} : u.kind = "older" => OlderFits(u)'
  PROVE  Answerable'
<1>1. \A u \in searches : Reads(u)'
  BY DEF ViewInv, Answerable, Reads, OfQuery
<1> QED
  BY <1>1 DEF ViewInv, Answerable

LEMMA ViewRunAnswered ==
  ASSUME ViewInv, NEW t \in searches, NEW ok \in BOOLEAN, Viewer!RunAnswered(t, ok)
  PROVE  ViewInv'
<1>0. /\ t.kind = "run" /\ whose' = {t.id} /\ finding' = FALSE
      /\ searches' = searches \ {t} /\ searched' = searched
      /\ UNCHANGED <<builder, window, loadingMore, exporting, file>>
  BY DEF Viewer!RunAnswered, Viewer!Ends, Viewer!builder
<1>1. /\ OfQuery(t.ctx) /\ t.ctx.run = t.id /\ t.before = t.ctx.window.end
      /\ t.ctx.query \in Queries /\ t.ctx.window \in Windows
  BY <1>0 DEF ViewInv, Answerable, Reads, OfQuery
<1>2. /\ ctx' \in {None, t.ctx} /\ pages' \in Seq((SUBSET Lines) \ {{}})
      /\ hasMore' \in BOOLEAN /\ refused' \in BOOLEAN /\ Viewer!PagesJoin'
  <2>1. CASE ~ok
    <3>1. pages' = << >> /\ ctx' = None /\ hasMore' = FALSE /\ refused' = TRUE
      BY <2>1 DEF Viewer!RunAnswered
    <3>2. << >> \in Seq((SUBSET Lines) \ {{}}) /\ DOMAIN pages' = {}
      BY <3>1
    <3>3. Viewer!PagesJoin'
      BY <3>1, <3>2 DEF Viewer!PagesJoin
    <3> QED
      BY <3>1, <3>2, <3>3
  <2>2. CASE ok
    <3>1. PICK p \in Viewer!Pages(t.ctx, t.before) :
            /\ pages' = IF p = {} THEN << >> ELSE <<p>>
            /\ ctx' = t.ctx
            /\ hasMore' = (Viewer!Cardinality(p) >= PageLimit)
            /\ refused' = refused
      BY <2>2 DEF Viewer!RunAnswered
    <3>2. /\ p \in SUBSET Lines /\ Viewer!Cardinality(p) \in Nat
          /\ p = {} => Viewer!Cardinality(p) < PageLimit
          /\ \A l \in Viewer!InWindow(t.ctx) \ p :
              Ns[l] < t.before => /\ Viewer!Cardinality(p) >= PageLimit
                                  /\ \A k \in p : Ns[k] >= Ns[l]
      BY <1>1, PageHolds
    <3>3. \A l \in Viewer!InWindow(t.ctx) : Ns[l] < t.before /\ l \in Lines
      BY <1>1, WindowIsOfLines DEF Viewer!InWindow
    <3>4. PageLimit \in Nat /\ hasMore' \in BOOLEAN /\ refused' \in BOOLEAN
      <4>1. (Viewer!Cardinality(p) >= PageLimit) \in BOOLEAN
        OBVIOUS
      <4> QED
        BY <3>1, <4>1, ViewerFacts DEF ViewInv, ViewTypes
    <3>5. CASE p = {}
      <4>1. pages' = << >> /\ Viewer!InWindow(t.ctx) = {}
        BY <3>1, <3>2, <3>3, <3>4, <3>5
      <4>2. Viewer!InWindow(ctx)' = Viewer!InWindow(t.ctx)
        BY <3>1 DEF Viewer!InWindow
      <4> QED
        BY <3>1, <3>4, <4>1, <4>2 DEF Viewer!PagesJoin
    <3>6. CASE p # {}
      <4>1. /\ pages' = <<p>> /\ pages' \in Seq((SUBSET Lines) \ {{}}) /\ DOMAIN pages' = {1}
            /\ pages'[1] = p /\ Len(pages') = 1
        <5>1. pages' = <<p>> /\ p \in (SUBSET Lines) \ {{}}
          BY <3>1, <3>2, <3>6
        <5>2. /\ <<p>> \in Seq((SUBSET Lines) \ {{}}) /\ DOMAIN <<p>> = {1}
              /\ <<p>>[1] = p /\ Len(<<p>>) = 1
          BY <5>1
        <5> QED
          BY <5>1, <5>2
      <4>2. Viewer!InWindow(ctx)' = Viewer!InWindow(t.ctx)
        BY <3>1 DEF Viewer!InWindow
      <4>3. Viewer!Shown' = p /\ Viewer!Anchor' = Viewer!OldestNs(p)
        BY <4>1 DEF Viewer!Shown, Viewer!Anchor, Viewer!OldestNs
      <4>4. /\ Viewer!OldestNs(p) \in Nat /\ \E l \in p : Ns[l] = Viewer!OldestNs(p)
        BY <3>2, <3>6, Oldest
      <4>5. ASSUME NEW l \in Viewer!InWindow(t.ctx) \ p
            PROVE  Ns[l] = Viewer!OldestNs(p) \/ (hasMore' /\ Ns[l] < Viewer!OldestNs(p))
        <5>1. Ns[l] < t.before /\ Ns[l] \in Nat
          BY <3>3, ViewerFacts
        <5>2. Viewer!Cardinality(p) >= PageLimit /\ Viewer!OldestNs(p) >= Ns[l]
          BY <3>2, <4>4, <5>1
        <5>3. hasMore'
          BY <3>1, <5>2
        <5> QED
          BY <4>4, <5>1, <5>2, <5>3
      <4>7. Viewer!PagesJoin'
        BY <4>1, <4>2, <4>3, <4>5 DEF Viewer!PagesJoin, Viewer!OldestNs
      <4> QED
        BY <3>1, <3>4, <4>1, <4>7
    <3> QED
      BY <3>5, <3>6
  <2> QED
    BY <2>1, <2>2
<1>3. ViewTypes'
  BY <1>0, <1>1, <1>2 DEF ViewInv, ViewTypes, OfQuery
<1>4. Answerable'
  <2>1. \A u \in searches \ {t} : u.kind = "run" => u.id # t.id
    BY DEF ViewInv, Answerable
  <2>2. \A u \in searches : u.kind = "older" => loadingMore /\ u.ctx.run # t.id
    BY <1>0 DEF ViewInv, Answerable, OlderFits
  <2>3. \A u \in searches \ {t} : u.kind = "older" => OlderFits(u)'
    BY <1>0, <1>1, <1>2, <2>2 DEF OlderFits
  <2> QED
    BY <1>0, <1>1, <1>2, <2>1, <2>3, LeftAnswerable
<1>5. Viewer!SpinnersEnd' /\ Viewer!FileIsTheWindow'
  BY <1>0 DEF ViewInv, Viewer!SpinnersEnd, Viewer!FileIsTheWindow, Viewer!InWindow
<1> QED
  BY <1>2, <1>3, <1>4, <1>5 DEF ViewInv

LEMMA ViewOlderAnswered ==
  ASSUME ViewInv, NEW t \in searches, NEW ok \in BOOLEAN, Viewer!OlderAnswered(t, ok)
  PROVE  ViewInv'
<1>0. /\ t.kind = "older" /\ loadingMore' = FALSE
      /\ searches' = searches \ {t} /\ searched' = searched
      /\ UNCHANGED <<builder, window, ctx, finding, exporting, file>>
  BY DEF Viewer!OlderAnswered, Viewer!Ends, Viewer!builder
<1>1. OfQuery(t.ctx) /\ t.ctx.query \in Queries /\ OlderFits(t)
  BY <1>0 DEF ViewInv, Answerable, Reads, OfQuery
<1>2. /\ pages' \in Seq((SUBSET Lines) \ {{}}) /\ hasMore' \in BOOLEAN /\ refused' \in BOOLEAN
      /\ (whose # {} => whose' # {}) /\ Viewer!PagesJoin'
  <2>1. CASE ~ok
    <3>1. refused' = TRUE /\ UNCHANGED <<pages, hasMore, whose>>
      BY <2>1 DEF Viewer!OlderAnswered
    <3>2. Viewer!PagesJoin'
      BY <1>0, <3>1 DEF ViewInv, Viewer!PagesJoin, Viewer!Shown, Viewer!Anchor, Viewer!InWindow
    <3> QED
      BY <3>1, <3>2 DEF ViewInv, ViewTypes
  <2>2. CASE ok
    <3>1. PICK p \in Viewer!Pages(t.ctx, t.before) :
            /\ pages' = IF Viewer!Fresh(p) = {} THEN pages ELSE Append(pages, Viewer!Fresh(p))
            /\ hasMore' = (Viewer!Cardinality(p) >= PageLimit)
            /\ whose' = whose \cup {t.ctx.run}
            /\ refused' = refused
      BY <2>2 DEF Viewer!OlderAnswered
    <3>2. /\ p \in SUBSET Lines /\ Viewer!Cardinality(p) \in Nat
          /\ p = {} => Viewer!Cardinality(p) < PageLimit
          /\ \A l \in Viewer!InWindow(t.ctx) \ p :
              Ns[l] < t.before => /\ Viewer!Cardinality(p) >= PageLimit
                                  /\ \A k \in p : Ns[k] >= Ns[l]
      BY <1>1, PageHolds
    <3>3. /\ pages \in Seq((SUBSET Lines) \ {{}}) /\ Viewer!Shown \in SUBSET Lines
          /\ Viewer!PagesJoin
      <4>1. pages \in Seq((SUBSET Lines) \ {{}}) /\ Viewer!PagesJoin
        BY DEF ViewInv, ViewTypes
      <4>2. \A i \in DOMAIN pages : pages[i] \subseteq Lines
        BY <4>1
      <4> QED
        BY <4>1, <4>2 DEF Viewer!Shown
    <3>4. hasMore' \in BOOLEAN /\ refused' \in BOOLEAN
      <4>1. (Viewer!Cardinality(p) >= PageLimit) \in BOOLEAN
        OBVIOUS
      <4> QED
        BY <3>1, <4>1 DEF ViewInv, ViewTypes
    <3> DEFINE new == Viewer!Fresh(p)
    <3>5. new = p \ Viewer!Shown
      BY DEF Viewer!Fresh
    <3>6. /\ pages' \in Seq((SUBSET Lines) \ {{}})
          /\ Viewer!Shown' = Viewer!Shown \cup p
          /\ \A i, j \in DOMAIN pages' : i # j => pages'[i] \cap pages'[j] = {}
          /\ \A i \in DOMAIN pages : i \in DOMAIN pages' /\ pages'[i] = pages[i]
          /\ new # {} => Len(pages') \in DOMAIN pages' /\ pages'[Len(pages')] = new
          /\ new = {} => pages' = pages
      <4>1. CASE new = {}
        <5>1. pages' = pages
          BY <3>1, <4>1
        <5>2. Viewer!Shown' = Viewer!Shown /\ p \subseteq Viewer!Shown
          BY <3>5, <4>1, <5>1 DEF Viewer!Shown
        <5> QED
          BY <3>3, <4>1, <5>1, <5>2 DEF Viewer!PagesJoin
      <4>2. CASE new # {}
        <5>1. pages' = Append(pages, new) /\ new \in (SUBSET Lines) \ {{}}
          BY <3>1, <3>2, <3>5, <4>2
        <5>2. Viewer!Shown = UNION {pages[i] : i \in DOMAIN pages}
          BY DEF Viewer!Shown
        <5> HIDE DEF new
        <5>3. /\ pages' \in Seq((SUBSET Lines) \ {{}}) /\ pages'[Len(pages')] = new
              /\ DOMAIN pages' = DOMAIN pages \cup {Len(pages')}
              /\ \A i \in DOMAIN pages : i \in DOMAIN pages' /\ i # Len(pages') /\ pages'[i] = pages[i]
              /\ UNION {pages'[i] : i \in DOMAIN pages'} = Viewer!Shown \cup new
          BY <3>3, <5>1, <5>2, PageJoins
        <5>4. Viewer!Shown' = Viewer!Shown \cup p
          BY <3>5, <5>3 DEF Viewer!Shown
        <5>5. \A i \in DOMAIN pages : pages[i] \cap new = {}
          BY <3>5, <5>2
        <5>6. \A i, j \in DOMAIN pages' : i # j => pages'[i] \cap pages'[j] = {}
          BY <3>3, <5>3, <5>5 DEF Viewer!PagesJoin
        <5> QED
          BY <4>2, <5>3, <5>4, <5>6
      <4> QED
        BY <4>1, <4>2
    <3> HIDE DEF new
    <3>7. ASSUME ctx # None, whose' = {ctx.run}, NEW l \in Viewer!InWindow(ctx) \ Viewer!Shown'
          PROVE  \/ \E i \in DOMAIN pages' : Ns[l] = Viewer!OldestNs(pages'[i])
                 \/ hasMore' /\ Ns[l] < Viewer!Anchor'
      <4>1. t.ctx = ctx /\ whose = {ctx.run} /\ pages # << >> /\ t.before = Viewer!Anchor
        BY <1>1, <3>1, <3>7 DEF OlderFits, ViewInv, ViewTypes
      <4>2. \/ \E i \in DOMAIN pages : Ns[l] = Viewer!OldestNs(pages[i])
            \/ hasMore /\ Ns[l] < Viewer!Anchor
        BY <3>3, <3>6, <3>7, <4>1 DEF Viewer!PagesJoin
      <4>3. CASE \E i \in DOMAIN pages : Ns[l] = Viewer!OldestNs(pages[i])
        BY <3>6, <4>3
      <4>4. CASE Ns[l] < Viewer!Anchor
        <5>1. l \in Lines /\ Ns[l] \in Nat /\ l \notin p
          BY <1>1, <3>6, <3>7, <4>1, WindowIsOfLines, ViewerFacts
        <5>2. Viewer!Cardinality(p) >= PageLimit /\ \A k \in p : Ns[k] >= Ns[l]
          BY <3>2, <3>7, <4>1, <4>4, <5>1
        <5>3. hasMore'
          BY <3>1, <5>2
        <5>4. CASE new = {}
          <6>1. Viewer!Anchor' = Viewer!Anchor
            BY <3>6, <5>4 DEF Viewer!Anchor, Viewer!OldestNs
          <6> QED
            BY <4>4, <5>3, <6>1
        <5>5. CASE new # {}
          <6>1. new \in SUBSET Lines /\ new \subseteq p
            BY <3>2, <3>5
          <6>2. Viewer!OldestNs(new) \in Nat /\ Viewer!OldestNs(new) >= Ns[l]
            BY <5>2, <5>5, <6>1, Oldest
          <6>3. Viewer!Anchor' = Viewer!OldestNs(new)
            BY <3>6, <5>5 DEF Viewer!Anchor, Viewer!OldestNs
          <6> QED
            BY <3>6, <5>1, <5>3, <5>5, <6>2, <6>3
        <5> QED
          BY <5>4, <5>5
      <4> QED
        BY <4>2, <4>3, <4>4
    <3>8. Viewer!PagesJoin'
      <4>1. ctx' = ctx /\ Viewer!InWindow(ctx)' = Viewer!InWindow(ctx)
        BY <1>0 DEF Viewer!InWindow
      <4>2. \A i \in DOMAIN pages' : Viewer!OldestNs(pages[i])' = Viewer!OldestNs(pages'[i])
        BY DEF Viewer!OldestNs
      <4> QED
        BY <3>6, <3>7, <4>1, <4>2 DEF Viewer!PagesJoin
    <3> QED
      BY <3>1, <3>4, <3>6, <3>8
  <2> QED
    BY <2>1, <2>2
<1>3. ViewTypes'
  BY <1>0, <1>2 DEF ViewInv, ViewTypes, OfQuery
<1>4. Answerable'
  <2>1. \A u \in searches \ {t} : u.kind # "older"
    BY <1>0 DEF ViewInv, Answerable
  <2>2. \A u \in searches \ {t} : u.kind = "run" /\ ctx' # None => ctx'.run # u.id
    BY <1>0 DEF ViewInv, Answerable
  <2> QED
    BY <1>0, <2>1, <2>2, LeftAnswerable
<1>5. Viewer!SpinnersEnd' /\ Viewer!FileIsTheWindow'
  BY <1>0 DEF ViewInv, Viewer!SpinnersEnd, Viewer!FileIsTheWindow, Viewer!InWindow
<1> QED
  BY <1>2, <1>3, <1>4, <1>5 DEF ViewInv

\* The walk of an export: what it has left out is at the oldest line of some page,
\* or still below the next one.
LEMMA ViewExportAnswered ==
  ASSUME ViewInv, NEW t \in searches, NEW ok \in BOOLEAN, Viewer!ExportAnswered(t, ok)
  PROVE  ViewInv'
<1>0. /\ t.kind = "export" /\ UNCHANGED <<builder, window, ctx, pages, hasMore, whose, finding, loadingMore>>
  BY DEF Viewer!ExportAnswered, Viewer!builder, Viewer!results
<1>1. /\ OfQuery(t.ctx) /\ t.ctx.query \in Queries /\ Reads(t) /\ t.before \in Nat
      /\ t.got \subseteq Viewer!InWindow(t.ctx) /\ \A l \in t.got : Ns[l] >= t.before
      /\ \A l \in Viewer!InWindow(t.ctx) \ t.got : Ns[l] \in t.ends \/ Ns[l] < t.before
  BY <1>0 DEF ViewInv, Answerable, Reads, OfQuery
<1>2. Viewer!PagesJoin' /\ Viewer!Anchor' = Viewer!Anchor
  BY <1>0 DEF ViewInv, Viewer!PagesJoin, Viewer!Shown, Viewer!Anchor, Viewer!InWindow
<1>3. \A u \in searches : u.kind = "older" => OlderFits(u)'
  BY <1>0, <1>2 DEF ViewInv, Answerable, OlderFits
<1>4. ASSUME Viewer!Ends(t), exporting' = FALSE, refused' \in BOOLEAN,
             file' = None \/ file'.ctx.query \in Queries, Viewer!FileIsTheWindow'
      PROVE  ViewInv'
  <2>1. searches' = searches \ {t} /\ searched' = searched
    BY <1>4 DEF Viewer!Ends
  <2>2. \A u \in searches \ {t} : u.kind = "run" /\ ctx' # None => ctx'.run # u.id
    BY <1>0 DEF ViewInv, Answerable
  <2>3. Answerable'
    BY <1>3, <2>1, <2>2, LeftAnswerable
  <2>4. ViewTypes' /\ Viewer!SpinnersEnd'
    BY <1>0, <1>4, <2>1 DEF ViewInv, ViewTypes, OfQuery, Viewer!SpinnersEnd
  <2> QED
    BY <1>2, <1>4, <2>3, <2>4 DEF ViewInv
<1>5. CASE ~ok
  <2>1. /\ Viewer!Ends(t) /\ exporting' = FALSE /\ refused' = TRUE /\ file' = file
    BY <1>5 DEF Viewer!ExportAnswered
  <2>2. Viewer!FileIsTheWindow'
    BY <2>1 DEF ViewInv, Viewer!FileIsTheWindow, Viewer!InWindow
  <2> QED
    BY <1>4, <2>1, <2>2 DEF ViewInv, ViewTypes
<1>6. ASSUME ok, NEW p \in Viewer!Pages(t.ctx, t.before), refused' = refused,
             IF Viewer!LastOne(t, p)
             THEN Viewer!Download(t, p) /\ exporting' = FALSE /\ Viewer!Ends(t)
             ELSE /\ searches' = (searches \ {t}) \cup
                       {[t EXCEPT !.got = @ \cup p, !.before = Viewer!NextBefore(t, p),
                                  !.ends = @ \cup {Viewer!OldestNs(p)}]}
                  /\ UNCHANGED <<exporting, file, searched>>
      PROVE  ViewInv'
  <2>1. /\ p \in SUBSET Lines /\ p \subseteq Viewer!InWindow(t.ctx) /\ Viewer!Cardinality(p) \in Nat
        /\ p = {} => Viewer!Cardinality(p) < PageLimit
        /\ \A l \in p : Ns[l] < t.before
        /\ \A l \in Viewer!InWindow(t.ctx) \ p :
            Ns[l] < t.before => /\ Viewer!Cardinality(p) >= PageLimit
                                /\ \A k \in p : Ns[k] >= Ns[l]
    BY <1>1, PageHolds
  <2>2. PageLimit \in Nat /\ Viewer!InWindow(t.ctx) \subseteq Lines
        /\ \A l \in Lines : Ns[l] \in Nat
    BY <1>1, WindowIsOfLines, ViewerFacts
  <2>3. CASE Viewer!LastOne(t, p)
    <3>1. Viewer!Download(t, p) /\ exporting' = FALSE /\ Viewer!Ends(t)
      BY <1>6, <2>3
    <3>2. CASE t.got \cup p = {}
      <4>1. file' = file
        BY <3>1, <3>2 DEF Viewer!Download
      <4>2. Viewer!FileIsTheWindow'
        BY <4>1 DEF ViewInv, Viewer!FileIsTheWindow, Viewer!InWindow
      <4> QED
        BY <1>4, <1>6, <3>1, <4>1, <4>2 DEF ViewInv, ViewTypes
    <3>3. CASE t.got \cup p # {}
      <4>1. file' = [ctx |-> t.ctx, lines |-> t.got \cup p, ends |-> t.ends]
        BY <3>1, <3>3 DEF Viewer!Download
      <4>2. /\ file'.ctx = t.ctx /\ file'.lines = t.got \cup p /\ file'.ends = t.ends
        BY <4>1
      <4>3. \/ Viewer!Cardinality(t.got \cup p) >= ExportMax
            \/ \A l \in Viewer!InWindow(t.ctx) \ (t.got \cup p) : Ns[l] \in t.ends
        <5>1. p \subseteq t.got => p = {}
          BY <1>1, <2>1, <2>2
        <5>2. Viewer!Cardinality(t.got \cup p) >= ExportMax \/ Viewer!Cardinality(p) < PageLimit
          BY <2>1, <2>3, <5>1 DEF Viewer!LastOne
        <5>3. Viewer!Cardinality(p) < PageLimit => ~(Viewer!Cardinality(p) >= PageLimit)
          BY <2>1, <2>2
        <5> QED
          BY <1>1, <2>1, <5>2, <5>3
      <4>4. Viewer!FileIsTheWindow'
        BY <1>1, <2>1, <4>2, <4>3 DEF Viewer!FileIsTheWindow, Viewer!InWindow
      <4> QED
        BY <1>1, <1>4, <1>6, <3>1, <4>2, <4>4 DEF ViewInv, ViewTypes
    <3> QED
      BY <3>2, <3>3
  <2>4. CASE ~Viewer!LastOne(t, p)
    <3> DEFINE u == [t EXCEPT !.got = @ \cup p, !.before = Viewer!NextBefore(t, p),
                              !.ends = @ \cup {Viewer!OldestNs(p)}]
    <3>1. searches' = (searches \ {t}) \cup {u} /\ UNCHANGED <<exporting, file, searched>>
      BY <1>6, <2>4
    <3>2. p # {}
      BY <2>1, <2>4 DEF Viewer!LastOne
    <3>3. /\ Viewer!OldestNs(p) \in Nat /\ \E l \in p : Ns[l] = Viewer!OldestNs(p)
          /\ \A l \in p : Ns[l] >= Viewer!OldestNs(p)
      BY <2>1, <3>2, Oldest
    <3>4. /\ u.id = t.id /\ u.kind = "export" /\ u.ctx = t.ctx
          /\ u.got = t.got \cup p /\ u.before = Viewer!OldestNs(p)
          /\ u.ends = t.ends \cup {Viewer!OldestNs(p)}
      BY <1>0 DEF Viewer!NextBefore
    <3> HIDE DEF u
    <3>5. Reads(u)
      <4>1. \A l \in u.got : Ns[l] >= u.before
        BY <1>1, <2>1, <2>2, <3>3, <3>4
      <4>2. \A l \in Viewer!InWindow(t.ctx) \ u.got : Ns[l] \in u.ends \/ Ns[l] < u.before
        <5> SUFFICES ASSUME NEW l \in Viewer!InWindow(t.ctx) \ u.got
                     PROVE  Ns[l] \in u.ends \/ Ns[l] < u.before
          OBVIOUS
        <5>1. CASE Ns[l] < t.before
          <6>1. Viewer!OldestNs(p) >= Ns[l] /\ Ns[l] \in Nat
            BY <2>1, <2>2, <3>3, <3>4, <5>1
          <6> QED
            BY <3>3, <3>4, <6>1
        <5> QED
          BY <1>1, <3>4, <5>1
      <4> QED
        BY <1>0, <1>1, <2>1, <3>3, <3>4, <4>1, <4>2 DEF Reads
    <3>6. \A v \in searches' : Reads(v)'
      BY <3>1, <3>5 DEF ViewInv, Answerable, Reads, OfQuery
    <3>7. Answerable'
      BY <1>0, <1>3, <3>1, <3>4, <3>6 DEF ViewInv, Answerable
    <3>8. ViewTypes' /\ Viewer!SpinnersEnd'
      BY <1>0, <1>6, <3>1, <3>4 DEF ViewInv, ViewTypes, OfQuery, Viewer!SpinnersEnd
    <3>9. Viewer!FileIsTheWindow'
      BY <3>1 DEF ViewInv, Viewer!FileIsTheWindow, Viewer!InWindow
    <3> QED
      BY <1>2, <3>7, <3>8, <3>9 DEF ViewInv
  <2> QED
    BY <2>3, <2>4
<1> QED
  BY <1>5, <1>6 DEF Viewer!ExportAnswered

LEMMA ViewStep == ViewInv /\ [Viewer!Next]_(Viewer!vars) => ViewInv'
<1> SUFFICES ASSUME ViewInv, [Viewer!Next]_(Viewer!vars) PROVE ViewInv'
  OBVIOUS
<1>1. CASE UNCHANGED Viewer!vars
  <2>1. UNCHANGED <<builder, window, ctx, pages, hasMore, whose, finding, loadingMore,
                    exporting, refused, file, searches, searched>>
    BY <1>1 DEF Viewer!vars, Viewer!builder, Viewer!results, Viewer!spinners
  <2>2. Viewer!Anchor' = Viewer!Anchor
    BY <2>1 DEF Viewer!Anchor
  <2>3. ViewTypes' /\ Answerable'
    BY <2>1, <2>2 DEF ViewInv, ViewTypes, Answerable, Reads, OfQuery, OlderFits
  <2>4. Viewer!SpinnersEnd' /\ Viewer!PagesJoin' /\ Viewer!FileIsTheWindow'
    BY <2>1 DEF ViewInv, Viewer!SpinnersEnd, Viewer!PagesJoin, Viewer!FileIsTheWindow,
                Viewer!InWindow, Viewer!Shown, Viewer!Anchor
  <2> QED
    BY <2>3, <2>4 DEF ViewInv
<1> QED
  BY <1>1, ViewControls, ViewLoadsOlder, ViewRunAnswered, ViewOlderAnswered, ViewExportAnswered
  DEF Viewer!Next, Viewer!ResultsPane, Viewer!Answers

LEMMA ViewInvariant == Viewer!Spec => []ViewInv
  BY ViewInit, ViewStep, PTL DEF Viewer!Spec

\* The pages of a query join, for any number of lines that share a nanosecond.
THEOREM RowsJoin == PagesSpec => []PagesJoin
<1>1. ViewInv => PagesJoin
  BY DEF ViewInv, PagesJoin
<1> QED
  BY <1>1, PartsOfPages, ViewInvariant, PTL

\* The walk of an export leaves nothing out but at the ends of its pages.
THEOREM ExportIsWhole == PagesSpec => []FileIsTheWindow
<1>1. ViewInv => FileIsTheWindow
  BY DEF ViewInv, FileIsTheWindow
<1> QED
  BY <1>1, PartsOfPages, ViewInvariant, PTL
-----------------------------------------------------------------------------
(* The inventory page. A vitals run starts when none is under way, and then no     *)
(* probe of a run is: each worker's probe is followed by its next one, or by none. *)

ListingFacts == Inventory!ListingAssumption

Rowsets == UNION {[S -> Folders \cup {None}] : S \in SUBSET Servers}

PostKinds == {"vitals", "assign", "remove", "create", "bulk", "load", "folders", "created"}

Posts == [id : Int, kind : PostKinds, on : Servers \cup Folders \cup {None},
          to : Folders \cup {None}, served : SUBSET {"rows", "tree", "it"},
          rows : Rowsets, tree : Inventory!Trees]

\* What a request is about, and what it has been told by now.
PostedBy(t, last) ==
  /\ t \in Posts /\ t.id \in 1 .. last
  /\ t.kind \in {"vitals", "assign", "bulk"} =>
       t.on \in Servers /\ ("it" \in t.served => t.on \in DOMAIN t.rows)
  /\ t.kind = "load" => t.on = None /\ ("rows" \in t.served => DOMAIN t.rows = Servers)

ListingTypes ==
  /\ tree \in Inventory!Trees /\ folders \in Inventory!Trees
  /\ home \in [Servers -> Folders \cup {None}] /\ servers \in [Servers -> Folders \cup {None}]
  /\ groupFilter \in Folders \cup {None, "all"}
  /\ refreshing \in BOOLEAN /\ queue \subseteq Servers /\ posted \in Nat

Bulk(ts) == {t \in ts : t.kind = "bulk"}

OneRun ==
  /\ IsFiniteSet(Bulk(requests)) /\ Cardinality(Bulk(requests)) <= Workers
  /\ ~refreshing => Bulk(requests) = {}

ListingInv ==
  ListingTypes /\ (\A t \in requests : PostedBy(t, posted)) /\ OneRun

-----------------------------------------------------------------------------
LEMMA ListingConstants ==
  /\ None \notin Servers \cup Folders /\ IsFiniteSet(Servers) /\ Workers \in Nat \ {0}
  /\ \A S : Inventory!Cardinality(S) = Cardinality(S)
<1>1. /\ \A S : Inventory!Cardinality(S) = Cardinality(S)
      /\ \A S : Inventory!IsFiniteSet(S) = IsFiniteSet(S)
  BY DEF Inventory!Cardinality, Cardinality, Inventory!IsFiniteSet, IsFiniteSet
<1> QED
  BY <1>1, PagesAssumption DEF PagesAssumption, Inventory!ListingAssumption

LEMMA InTrees ==
  /\ Inventory!NoTree \in Inventory!Trees /\ Inventory!NoTree \in Rowsets
  /\ \A T \in Inventory!Trees : DOMAIN T \subseteq Folders /\ T \in [DOMAIN T -> Folders \cup {None}]
  /\ \A F \in SUBSET Folders : [F -> Folders \cup {None}] \subseteq Inventory!Trees
  /\ \A R \in Rowsets : DOMAIN R \subseteq Servers /\ R \in [DOMAIN R -> Folders \cup {None}]
  /\ \A S \in SUBSET Servers : [S -> Folders \cup {None}] \subseteq Rowsets
<1>1. Inventory!NoTree \in [{} -> Folders \cup {None}]
  BY DEF Inventory!NoTree
<1> QED
  BY <1>1 DEF Inventory!Trees, Rowsets

LEMMA ListingInit == Inventory!Init => ListingInv
<1> SUFFICES ASSUME Inventory!Init PROVE ListingInv
  OBVIOUS
<1>1. DOMAIN tree \subseteq Folders
  BY InTrees DEF Inventory!Init
<1>2. ListingTypes
  BY <1>1 DEF Inventory!Init, ListingTypes
<1>3. Bulk(requests) = {}
  BY DEF Inventory!Init, Bulk
<1> QED
  BY <1>2, <1>3, FS_EmptySet, ListingConstants DEF Inventory!Init, ListingInv, OneRun

-----------------------------------------------------------------------------
\* Probes of a run when one of them is gone, or gone on with.
LEMMA OneGone ==
  ASSUME OneRun, NEW t \in requests, requests' = requests \ {t}, refreshing' = refreshing
  PROVE  OneRun'
<1>1. Bulk(requests)' \in SUBSET Bulk(requests)
  BY DEF Bulk
<1>2. /\ IsFiniteSet(Bulk(requests)') /\ Cardinality(Bulk(requests)') \in Nat
      /\ Cardinality(Bulk(requests)) \in Nat
      /\ Cardinality(Bulk(requests)') <= Cardinality(Bulk(requests))
  BY <1>1, FS_Subset, FS_CardinalityType DEF OneRun
<1> QED
  BY <1>1, <1>2, ListingConstants DEF OneRun

LEMMA OneMore ==
  ASSUME OneRun, NEW t \in requests, NEW u, u.kind = "bulk" => t.kind = "bulk",
         requests' = (requests \ {t}) \cup {u}, refreshing' = refreshing
  PROVE  OneRun'
<1> DEFINE B == Bulk(requests)
<1>1. IsFiniteSet(B) /\ Cardinality(B) \in Nat /\ Cardinality(B) <= Workers /\ Workers \in Nat
  BY FS_CardinalityType, ListingConstants DEF OneRun
<1>2. CASE u.kind = "bulk"
  <2>1. t \in B /\ Bulk(requests)' = (B \ {t}) \cup {u}
    BY <1>2 DEF Bulk
  <2> HIDE DEF B
  <2>2. IsFiniteSet(B \ {t}) /\ Cardinality(B \ {t}) = Cardinality(B) - 1
    BY <1>1, <2>1, FS_RemoveElement
  <2>3. /\ IsFiniteSet((B \ {t}) \cup {u})
        /\ Cardinality((B \ {t}) \cup {u}) <= Workers
    <3> DEFINE C == B \ {t}
    <3>1. IsFiniteSet(C) /\ Cardinality(C) = Cardinality(B) - 1
      BY <2>2
    <3> HIDE DEF C
    <3>2. /\ IsFiniteSet(C \cup {u})
          /\ Cardinality(C \cup {u}) = IF u \in C THEN Cardinality(C) ELSE Cardinality(C) + 1
      BY <3>1, FS_AddElement
    <3>3. Cardinality(C \cup {u}) <= Workers
      BY <1>1, <3>1, <3>2
    <3> QED
      BY <3>2, <3>3 DEF C
  <2>4. refreshing'
    BY <2>1 DEF OneRun, B
  <2> QED
    BY <2>1, <2>3, <2>4 DEF OneRun
<1>3. CASE u.kind # "bulk"
  <2>1. Bulk(requests)' \in SUBSET B
    BY <1>3 DEF Bulk
  <2>2. IsFiniteSet(Bulk(requests)') /\ Cardinality(Bulk(requests)') \in Nat
        /\ Cardinality(Bulk(requests)') <= Cardinality(B)
    BY <1>1, <2>1, FS_Subset, FS_CardinalityType
  <2> QED
    BY <1>1, <2>1, <2>2 DEF OneRun
<1> QED
  BY <1>2, <1>3

LEMMA OneMore1 ==
  ASSUME OneRun, NEW u, u.kind # "bulk", requests' = requests \cup {u}, refreshing' = refreshing
  PROVE  OneRun'
<1>1. Bulk(requests)' = Bulk(requests)
  BY DEF Bulk
<1> QED
  BY <1>1 DEF OneRun

\* A request as it is sent.
LEMMA ListingSends ==
  ASSUME ListingInv, NEW kind \in {"vitals", "assign", "remove", "create"},
         NEW on \in Servers \cup Folders \cup {None},
         NEW to \in Folders \cup {None}, kind \in {"vitals", "assign"} => on \in Servers,
         Inventory!Send({Inventory!Request(kind, on, to)}),
         UNCHANGED <<tree, home, servers, folders, groupFilter, refreshing, queue>>
  PROVE  ListingInv'
<1>0. PICK u : u = Inventory!Request(kind, on, to)
  OBVIOUS
<1>1. Cardinality({u}) = 1
  BY FS_Singleton
<1>2. requests' = requests \cup {u} /\ posted' = posted + 1 /\ posted \in Nat
  BY <1>0, <1>1, ListingConstants DEF Inventory!Send, ListingInv, ListingTypes
<1>3. /\ u.kind = kind /\ u.on = on /\ u.id = posted + 1 /\ u.served = {} /\ u \in Posts
  BY <1>0, <1>2, InTrees DEF Inventory!Request, Posts, PostKinds
<1>4. PostedBy(u, posted') /\ \A t \in requests : PostedBy(t, posted')
  <2>1. PostedBy(u, posted')
    BY <1>2, <1>3 DEF PostedBy
  <2>2. \A t \in requests : PostedBy(t, posted')
    BY <1>2 DEF ListingInv, PostedBy
  <2> QED
    BY <2>1, <2>2
<1>5. OneRun'
  BY <1>2, <1>3, OneMore1 DEF ListingInv
<1> QED
  BY <1>2, <1>4, <1>5 DEF ListingInv, ListingTypes

\* A vitals run sends as many probes as it has workers, each with a number.
LEMMA RunStarts ==
  ASSUME ListingInv, Inventory!RefreshAllVitals
  PROVE  ListingInv'
<1> DEFINE shown == Inventory!filteredServers
<1>0. /\ ~refreshing /\ refreshing' = TRUE /\ UNCHANGED <<tree, home, servers, folders, groupFilter>>
      /\ shown \in SUBSET Servers /\ posted \in Nat
  BY DEF Inventory!RefreshAllVitals, Inventory!MayRefreshAll, Inventory!store, Inventory!page,
         Inventory!filteredServers, ListingInv, ListingTypes
<1>1. PICK first \in SUBSET shown :
        /\ Inventory!Cardinality(first) =
             IF Inventory!Cardinality(shown) < Workers THEN Inventory!Cardinality(shown) ELSE Workers
        /\ LET nth == CHOOSE n \in [first -> 1 .. Inventory!Cardinality(first)] :
                        \A x, y \in first : x # y => n[x] # n[y]
           IN Inventory!Send({[Inventory!Request("bulk", s, None) EXCEPT !.id = posted + nth[s]] : s \in first})
        /\ queue' = shown \ first
  BY DEF Inventory!RefreshAllVitals
<1>2. PICK n : n = CHOOSE m \in [first -> 1 .. Cardinality(first)] :
                     \A x, y \in first : x # y => m[x] # m[y]
  OBVIOUS
<1>3. PICK new : new = {[Inventory!Request("bulk", s, None) EXCEPT !.id = posted + n[s]] : s \in first}
  OBVIOUS
<1>4. /\ requests' = requests \cup new /\ posted' = posted + Cardinality(new)
      /\ Cardinality(first) = IF Cardinality(shown) < Workers THEN Cardinality(shown) ELSE Workers
  BY <1>1, <1>2, <1>3, ListingConstants DEF Inventory!Send
<1>5. IsFiniteSet(first) /\ Cardinality(first) \in Nat /\ Cardinality(first) <= Workers
  <2>1. IsFiniteSet(shown) /\ first \in SUBSET shown
    BY <1>0, ListingConstants, FS_Subset
  <2>2. IsFiniteSet(first) /\ Cardinality(first) \in Nat /\ Cardinality(shown) \in Nat
    BY <2>1, FS_Subset, FS_CardinalityType
  <2> HIDE DEF shown
  <2> QED
    BY <1>4, <2>2, ListingConstants
<1>6. n \in [first -> 1 .. Cardinality(first)] /\ \A x, y \in first : x # y => n[x] # n[y]
  <2>1. ExistsBijection(first, 1 .. Cardinality(first))
    BY <1>5, FS_CardinalityType, Fun_ExistsBijSymmetric
  <2> DEFINE N == 1 .. Cardinality(first)
  <2>2. PICK m \in Bijection(first, N) : TRUE
    BY <2>1, Fun_ExistsBij
  <2>3. m \in [first -> N] /\ \A x, y \in first : x # y => m[x] # m[y]
    <3> HIDE DEF N
    <3>1. m \in [first -> N] /\ \A x, y \in first : m[x] = m[y] => x = y
      BY <2>2, Fun_BijectionProperties
    <3> QED
      BY <3>1
  <2> QED
    BY <1>2, <2>3
<1>7. PICK f : f = [s \in first |-> [Inventory!Request("bulk", s, None) EXCEPT !.id = posted + n[s]]]
  OBVIOUS
<1>8. /\ \A s \in first : /\ f[s] = [id |-> posted + n[s], kind |-> "bulk", on |-> s, to |-> None,
                                     served |-> {}, rows |-> Inventory!NoTree, tree |-> Inventory!NoTree]
      /\ f \in [first -> new] /\ new = {f[s] : s \in first}
  BY <1>3, <1>7 DEF Inventory!Request
<1>9. IsFiniteSet(new) /\ Cardinality(new) = Cardinality(first)
  <2>1. f \in Surjection(first, new)
    BY <1>8, Fun_IsSurj
  <2>2. \A x, y \in first : f[x] = f[y] => x = y
    BY <1>8
  <2>3. f \in Bijection(first, new)
    BY <1>8, <2>1, <2>2, Fun_IsBij
  <2>4. ExistsBijection(first, new)
    BY <2>3, Fun_ExistsBij
  <2> QED
    BY <1>5, <2>4, FS_Bijection
<1>10. \A u \in new : u.kind = "bulk" /\ PostedBy(u, posted')
  <2> SUFFICES ASSUME NEW s \in first PROVE f[s].kind = "bulk" /\ PostedBy(f[s], posted')
    BY <1>8
  <2>1. s \in Servers /\ n[s] \in 1 .. Cardinality(first)
    BY <1>0, <1>6
  <2>2. posted + n[s] \in 1 .. posted'
    BY <1>0, <1>4, <1>5, <1>9, <2>1
  <2>3. f[s] \in Posts /\ f[s].kind = "bulk" /\ f[s].on = s /\ f[s].id = posted + n[s] /\ f[s].served = {}
    BY <1>0, <1>8, <2>1, InTrees DEF Posts, PostKinds
  <2> QED
    BY <2>1, <2>2, <2>3 DEF PostedBy
<1>11. \A t \in requests : PostedBy(t, posted')
  BY <1>0, <1>4, <1>5, <1>9 DEF ListingInv, PostedBy
<1>12. OneRun'
  <2>1. Bulk(requests)' = new
    BY <1>0, <1>4, <1>10 DEF Bulk, ListingInv, OneRun
  <2> QED
    BY <1>0, <1>5, <1>9, <2>1 DEF OneRun
<1>13. ListingTypes'
  BY <1>0, <1>1, <1>4, <1>5, <1>9 DEF ListingInv, ListingTypes
<1> QED
  BY <1>4, <1>10, <1>11, <1>12, <1>13 DEF ListingInv

LEMMA ListingOperator ==
  ASSUME ListingInv,
         Inventory!RowActions \/ Inventory!GroupCards \/ Inventory!FilterBar \/ Inventory!Toolbar
  PROVE  ListingInv'
<1>0. DOMAIN folders \subseteq Folders
  BY InTrees DEF ListingInv, ListingTypes
<1>1. ASSUME NEW kind \in {"vitals", "assign", "remove", "create"}, NEW on \in Servers \cup Folders \cup {None},
             NEW to \in Folders \cup {None}, kind \in {"vitals", "assign"} => on \in Servers,
             Inventory!Send({Inventory!Request(kind, on, to)}),
             UNCHANGED <<Inventory!store, Inventory!page, Inventory!run>>
      PROVE  ListingInv'
  <2>1. UNCHANGED <<tree, home, servers, folders, groupFilter, refreshing, queue>>
    BY <1>1 DEF Inventory!store, Inventory!page, Inventory!run
  <2> QED
    BY <1>1, <2>1, ListingSends
<1>2. ASSUME NEW s \in Servers, Inventory!RefreshOne(s) PROVE ListingInv'
  <2>1. /\ Inventory!Send({Inventory!Request("vitals", s, None)})
        /\ UNCHANGED <<Inventory!store, Inventory!page, Inventory!run>>
    BY <1>2 DEF Inventory!RefreshOne
  <2> QED
    BY <1>0, <1>1, <2>1
<1>3. ASSUME NEW s \in Servers, NEW f \in Folders \cup {None}, Inventory!AssignFolder(s, f)
      PROVE  ListingInv'
  <2>1. /\ Inventory!Send({Inventory!Request("assign", s, f)})
        /\ UNCHANGED <<Inventory!store, Inventory!page, Inventory!run>>
    BY <1>3 DEF Inventory!AssignFolder
  <2> QED
    BY <1>0, <1>1, <2>1
<1>4. ASSUME NEW f \in Folders, Inventory!RemoveFolder(f) PROVE ListingInv'
  <2>1. /\ Inventory!Send({Inventory!Request("remove", f, None)})
        /\ UNCHANGED <<Inventory!store, Inventory!page, Inventory!run>>
    BY <1>4 DEF Inventory!RemoveFolder
  <2> QED
    BY <1>0, <1>1, <2>1
<1>5. ASSUME NEW f \in Folders \cup {None}, Inventory!CreateGroupUnder(f) PROVE ListingInv'
  <2>1. /\ Inventory!Send({Inventory!Request("create", None, f)})
        /\ UNCHANGED <<Inventory!store, Inventory!page, Inventory!run>>
    BY <1>5 DEF Inventory!CreateGroupUnder
  <2> QED
    BY <1>0, <1>1, <2>1
<1>6. ASSUME NEW f, Inventory!SetFilter(f) PROVE ListingInv'
  <2>1. /\ groupFilter' \in Folders \cup {None, "all"}
        /\ UNCHANGED <<tree, home, servers, folders, refreshing, queue, requests, posted>>
    BY <1>0, <1>6 DEF Inventory!SetFilter, Inventory!store, Inventory!run
  <2> QED
    BY <2>1 DEF ListingInv, ListingTypes, PostedBy, OneRun, Bulk
<1> QED
  BY <1>2, <1>3, <1>4, <1>5, <1>6, RunStarts
  DEF Inventory!RowActions, Inventory!GroupCards, Inventory!FilterBar, Inventory!Toolbar

-----------------------------------------------------------------------------
\* The server keeps its groups and rows well typed.
LEMMA EffectTypes ==
  ASSUME ListingInv, NEW t \in requests, Inventory!Effect(t)
  PROVE  tree' \in Inventory!Trees /\ home' \in [Servers -> Folders \cup {None}]
<1>0. /\ t \in Posts /\ t.to \in Folders \cup {None}
      /\ tree \in Inventory!Trees /\ home \in [Servers -> Folders \cup {None}]
      /\ DOMAIN tree \subseteq Folders /\ tree \in [DOMAIN tree -> Folders \cup {None}]
  BY InTrees DEF ListingInv, ListingTypes, PostedBy, Posts
<1>1. CASE t.kind = "assign" /\ t.to \in DOMAIN tree \cup {None}
  BY <1>0, <1>1 DEF Inventory!Effect
<1>2. CASE t.kind = "remove" /\ t.on \in DOMAIN tree
  <2>1. /\ tree' = [g \in DOMAIN tree \ {t.on} |-> IF tree[g] = t.on THEN tree[t.on] ELSE tree[g]]
        /\ home' = [s \in Servers |-> IF home[s] = t.on THEN None ELSE home[s]]
    BY <1>2 DEF Inventory!Effect, Inventory!Delete, Inventory!Without
  <2>2. tree' \in [DOMAIN tree \ {t.on} -> Folders \cup {None}]
    BY <1>0, <1>2, <2>1
  <2>3. DOMAIN tree \ {t.on} \in SUBSET Folders
    BY <1>0
  <2> QED
    BY <1>0, <2>1, <2>2, <2>3, InTrees
<1>3. CASE t.kind = "create" /\ t.to \in DOMAIN tree \cup {None} /\ DOMAIN tree # Folders
  <2>1. home' = home
    BY <1>3 DEF Inventory!Effect
  <2>2. PICK f \in Folders \ DOMAIN tree :
          tree' = [g \in DOMAIN tree \cup {f} |-> IF g = f THEN t.to ELSE tree[g]]
    BY <1>3 DEF Inventory!Effect
  <2>3. tree' \in [DOMAIN tree \cup {f} -> Folders \cup {None}]
    BY <1>0, <2>2
  <2>4. DOMAIN tree \cup {f} \in SUBSET Folders
    BY <1>0
  <2> QED
    BY <1>0, <2>1, <2>3, <2>4, InTrees
<1>4. CASE /\ ~(t.kind = "assign" /\ t.to \in DOMAIN tree \cup {None})
           /\ ~(t.kind = "remove" /\ t.on \in DOMAIN tree)
           /\ ~(t.kind = "create" /\ t.to \in DOMAIN tree \cup {None} /\ DOMAIN tree # Folders)
  BY <1>0, <1>4 DEF Inventory!Effect, Inventory!store
<1> QED
  BY <1>1, <1>2, <1>3, <1>4

LEMMA ListingServes ==
  ASSUME ListingInv, NEW t \in requests, Inventory!Serve(t)
  PROVE  ListingInv'
<1>1. PICK p \in Inventory!Parts(t.kind) \ t.served : Inventory!Effect(t) /\ Inventory!Answer(t, p)
  BY DEF Inventory!Serve
<1>2. UNCHANGED <<servers, folders, groupFilter, refreshing, queue, posted>>
  BY DEF Inventory!Serve, Inventory!page, Inventory!run
<1>3. tree' \in Inventory!Trees /\ home' \in [Servers -> Folders \cup {None}]
  BY <1>1, EffectTypes
<1>4. PICK rs : rs = IF p = "rows" THEN home'
                     ELSE IF t.on \in Servers THEN [s \in {t.on} |-> home'[s]] ELSE t.rows
  OBVIOUS
<1>5. PICK fs : fs = IF p = "tree" \/ t.kind \in {"folders", "created"} THEN tree' ELSE t.tree
  OBVIOUS
<1>6. PICK u : u = [t EXCEPT !.served = @ \cup {p}, !.rows = rs, !.tree = fs]
  OBVIOUS
<1>7. requests' = (requests \ {t}) \cup {u}
  BY <1>1, <1>4, <1>5, <1>6 DEF Inventory!Answer
<1>8. PostedBy(t, posted) /\ t \in Posts /\ p \in {"rows", "tree", "it"}
      /\ (p = "rows" <=> t.kind = "load" /\ p # "tree")
  BY <1>1 DEF ListingInv, PostedBy, Inventory!Parts
<1>9. rs \in Rowsets /\ fs \in Inventory!Trees
  <2>1. home' \in Rowsets
    BY <1>3, InTrees
  <2>2. t.on \in Servers => [s \in {t.on} |-> home'[s]] \in [{t.on} -> Folders \cup {None}]
    BY <1>3
  <2>3. t.on \in Servers => [s \in {t.on} |-> home'[s]] \in Rowsets
    BY <2>2, InTrees
  <2>4. t.rows \in Rowsets /\ t.tree \in Inventory!Trees
    BY <1>8 DEF Posts
  <2> QED
    BY <1>3, <1>4, <1>5, <2>1, <2>3, <2>4
<1>10. /\ u \in Posts /\ u.id = t.id /\ u.kind = t.kind /\ u.on = t.on
       /\ u.served = t.served \cup {p} /\ u.rows = rs
  BY <1>6, <1>8, <1>9 DEF Posts
<1>11. PostedBy(u, posted)
  <2>1. t.kind \in {"vitals", "assign", "bulk"} => t.on \in DOMAIN u.rows
    BY <1>4, <1>8, <1>10 DEF PostedBy
  <2>2. t.kind = "load" /\ "rows" \in u.served => DOMAIN u.rows = Servers
    <3>1. CASE p = "rows"
      BY <1>3, <1>4, <1>10, <3>1
    <3>2. CASE p # "rows" /\ t.kind = "load"
      <4>1. "rows" \in u.served => "rows" \in t.served
        BY <1>10, <3>2
      <4>2. t.on \notin Servers
        BY <1>8, <3>2, ListingConstants DEF PostedBy
      <4> QED
        BY <1>4, <1>8, <1>10, <3>2, <4>1, <4>2 DEF PostedBy
    <3> QED
      BY <3>1, <3>2
  <2> QED
    BY <1>8, <1>10, <2>1, <2>2 DEF PostedBy
<1>12. OneRun'
  BY <1>2, <1>7, <1>10, OneMore DEF ListingInv
<1> QED
  BY <1>2, <1>3, <1>7, <1>11, <1>12 DEF ListingInv, ListingTypes

\* An answer that says no more than it may: the row of its machine, or the lists.
LEMMA ListingProbed ==
  ASSUME ListingInv, NEW t \in requests, t.kind \in {"vitals", "bulk"}, NEW ok \in BOOLEAN,
         ok => t.served = Inventory!Parts(t.kind), Inventory!Probed(t, ok)
  PROVE  servers' \in [Servers -> Folders \cup {None}]
<1>1. PostedBy(t, posted) /\ t.rows \in Rowsets
  BY DEF ListingInv, PostedBy, Posts
<1>2. ok => t.rows[t.on] \in Folders \cup {None}
  BY <1>1, InTrees DEF PostedBy, Inventory!Parts
<1> QED
  BY <1>2 DEF Inventory!Probed, ListingInv, ListingTypes

LEMMA ListingLeft ==
  ASSUME ListingInv, NEW t \in requests, requests' = requests \ {t},
         UNCHANGED <<tree, home, refreshing, queue, posted>>,
         servers' \in [Servers -> Folders \cup {None}], folders' \in Inventory!Trees,
         groupFilter' \in Folders \cup {None, "all"}
  PROVE  ListingInv'
<1>1. OneRun'
  BY OneGone DEF ListingInv
<1> QED
  BY <1>1 DEF ListingInv, ListingTypes

LEMMA ListsAnsweredOK ==
  ASSUME ListingInv, NEW t \in requests, t.served = Inventory!Parts(t.kind),
         Inventory!ListsAnswered(t), UNCHANGED <<tree, home, posted>>
  PROVE  ListingInv'
<1>1. /\ PostedBy(t, posted) /\ t.rows \in Rowsets /\ t.tree \in Inventory!Trees
      /\ DOMAIN t.tree \subseteq Folders
  BY InTrees DEF ListingInv, PostedBy, Posts
<1>2. t.kind = "load" => t.rows \in [Servers -> Folders \cup {None}]
  BY <1>1, InTrees DEF PostedBy, Inventory!Parts
<1>3. servers' \in [Servers -> Folders \cup {None}] /\ folders' \in Inventory!Trees
  BY <1>1, <1>2 DEF Inventory!ListsAnswered, Inventory!Shows, ListingInv, ListingTypes
<1>4. groupFilter' \in Folders \cup {None, "all"}
  BY <1>1 DEF Inventory!ListsAnswered, Inventory!Shows, Inventory!FilterFor, ListingInv, ListingTypes
<1> QED
  BY <1>3, <1>4, ListingLeft DEF Inventory!ListsAnswered, Inventory!run

LEMMA EditAnsweredOK ==
  ASSUME ListingInv, NEW t \in requests, t.served = Inventory!Parts(t.kind),
         Inventory!EditAnswered(t), UNCHANGED <<tree, home, posted>>
  PROVE  ListingInv'
<1>1. /\ PostedBy(t, posted) /\ t \in Posts /\ t.rows \in Rowsets
      /\ t.kind \in {"assign", "remove", "create"}
  BY DEF ListingInv, PostedBy, Posts, Inventory!EditAnswered
<1>2. t.kind = "assign" => t.rows[t.on] \in Folders \cup {None}
  BY <1>1, InTrees DEF PostedBy, Inventory!Parts
<1>3. PICK u : u = [t EXCEPT !.kind = Inventory!NextRead(t), !.on = None, !.to = None,
                             !.served = {}, !.rows = Inventory!NoTree]
  OBVIOUS
<1>4. /\ requests' = (requests \ {t}) \cup {u}
      /\ UNCHANGED <<folders, groupFilter, refreshing, queue>>
      /\ servers' \in [Servers -> Folders \cup {None}]
  BY <1>2, <1>3 DEF Inventory!EditAnswered, Inventory!GoesOn, Inventory!run, ListingInv, ListingTypes
<1>5. Inventory!NextRead(t) \in {"folders", "load", "created"}
  BY <1>1 DEF Inventory!NextRead
<1>6. /\ u \in Posts /\ u.id = t.id /\ u.kind \in {"folders", "load", "created"}
      /\ u.on = None /\ u.served = {}
  BY <1>1, <1>3, <1>5, InTrees DEF Posts, PostKinds
<1>7. PostedBy(u, posted)
  BY <1>1, <1>6 DEF PostedBy
<1>8. OneRun'
  BY <1>4, <1>6, OneMore DEF ListingInv
<1> QED
  BY <1>4, <1>7, <1>8 DEF ListingInv, ListingTypes

LEMMA BulkAnsweredOK ==
  ASSUME ListingInv, NEW t \in requests, NEW ok \in BOOLEAN,
         ok => t.served = Inventory!Parts(t.kind),
         Inventory!BulkAnswered(t, ok), UNCHANGED <<tree, home, posted>>
  PROVE  ListingInv'
<1>1. /\ PostedBy(t, posted) /\ t \in Posts /\ t.kind = "bulk"
      /\ UNCHANGED <<folders, groupFilter>> /\ servers' \in [Servers -> Folders \cup {None}]
      /\ queue \subseteq Servers
  BY ListingProbed DEF ListingInv, ListingTypes, PostedBy, Inventory!BulkAnswered
<1>2. ASSUME NEW next \in queue, queue' = queue \ {next}, refreshing' = refreshing,
             requests' = (requests \ {t}) \cup
                           {[t EXCEPT !.on = next, !.served = {}, !.rows = Inventory!NoTree]}
      PROVE  ListingInv'
  <2>1. PICK u : u = [t EXCEPT !.on = next, !.served = {}, !.rows = Inventory!NoTree]
    OBVIOUS
  <2>2. /\ u \in Posts /\ u.id = t.id /\ u.kind = "bulk" /\ u.on = next /\ u.served = {}
        /\ next \in Servers
    BY <1>1, <2>1, InTrees DEF Posts
  <2>3. PostedBy(u, posted)
    BY <1>1, <2>2 DEF PostedBy
  <2>4. OneRun'
    BY <1>1, <1>2, <2>1, OneMore DEF ListingInv
  <2> QED
    BY <1>1, <1>2, <2>1, <2>3, <2>4 DEF ListingInv, ListingTypes
<1>3. ASSUME requests' = requests \ {t}, refreshing' = ~Inventory!RunEnds(t), queue' = queue, queue = {}
      PROVE  ListingInv'
  <2>1. refreshing' \in BOOLEAN
    BY <1>3
  <2>2. Bulk(requests)' \in SUBSET Bulk(requests)
    BY <1>3 DEF Bulk
  <2>3. /\ IsFiniteSet(Bulk(requests)') /\ Cardinality(Bulk(requests)') \in Nat
        /\ Cardinality(Bulk(requests)) \in Nat
        /\ Cardinality(Bulk(requests)') <= Cardinality(Bulk(requests))
    BY <2>2, FS_Subset, FS_CardinalityType DEF ListingInv, OneRun
  <2>4. ~refreshing' => Bulk(requests)' = {}
    BY <1>3 DEF Inventory!RunEnds, Bulk
  <2>5. OneRun'
    BY <2>3, <2>4, ListingConstants DEF ListingInv, OneRun
  <2> QED
    BY <1>1, <1>3, <2>1, <2>5 DEF ListingInv, ListingTypes
<1> QED
  BY <1>2, <1>3 DEF Inventory!BulkAnswered

LEMMA ListingDelivers ==
  ASSUME ListingInv, NEW t \in requests, Inventory!Deliver(t)
  PROVE  ListingInv'
<1>0. UNCHANGED <<tree, home, posted>>
  BY DEF Inventory!Deliver, Inventory!store
<1>1. ASSUME NEW ok \in BOOLEAN, Inventory!VitalsAnswered(t, ok), ok => t.served = Inventory!Parts(t.kind)
      PROVE  ListingInv'
  BY <1>0, <1>1, ListingProbed, ListingLeft
  DEF Inventory!VitalsAnswered, Inventory!run, ListingInv, ListingTypes
<1>2. CASE Inventory!Fails(t)
  BY <1>0, <1>2, ListingLeft DEF Inventory!Fails, Inventory!page, Inventory!run, ListingInv, ListingTypes
<1> QED
  BY <1>0, <1>1, <1>2, ListsAnsweredOK, EditAnsweredOK, BulkAnsweredOK DEF Inventory!Deliver

LEMMA ListingStep == ListingInv /\ [Inventory!Next]_(Inventory!vars) => ListingInv'
<1> SUFFICES ASSUME ListingInv, [Inventory!Next]_(Inventory!vars) PROVE ListingInv'
  OBVIOUS
<1>1. CASE UNCHANGED Inventory!vars
  BY <1>1 DEF Inventory!vars, Inventory!store, Inventory!page, Inventory!run, ListingInv,
              ListingTypes, PostedBy, OneRun, Bulk
<1> QED
  BY <1>1, ListingOperator, ListingServes, ListingDelivers DEF Inventory!Next

LEMMA ListingInvariant == Inventory!Spec => []ListingInv
  BY ListingInit, ListingStep, PTL DEF Inventory!Spec

\* A vitals run never has more probes out than workers, and is alone.
THEOREM RunsAreBounded == PagesSpec => []ProbesAreBounded
<1>1. ListingInv => ProbesAreBounded
  BY ListingConstants DEF ListingInv, OneRun, Bulk, ProbesAreBounded, Inventory!ProbesAreBounded
<1> QED
  BY <1>1, PartsOfPages, ListingInvariant, PTL

-----------------------------------------------------------------------------
(* The inventory page: its groups are a forest at every moment, being a copy of  *)
(* what the server's groups were once.                                       *)

Forest(T) ==
  /\ \A f \in DOMAIN T : T[f] \in DOMAIN T \cup {None}
  /\ \A F \in SUBSET DOMAIN T : F # {} => \E f \in F : T[f] \notin F

Forests == Forest(tree) /\ Forest(folders) /\ \A t \in requests : Forest(t.tree)

LEMMA NoTreeIsForest == Forest(Inventory!NoTree)
<1>1. DOMAIN Inventory!NoTree = {}
  BY DEF Inventory!NoTree
<1> QED
  BY <1>1 DEF Forest

LEMMA ForestsInit == Inventory!Init => Forests
  BY DEF Inventory!Init, Forests, Forest

\* A group that is new is below one there is; a group that goes leaves its own to
\* the one above it.
LEMMA ForestGrows ==
  ASSUME NEW T, Forest(T), None \notin DOMAIN T, NEW f, f \notin DOMAIN T, f # None,
         NEW to \in DOMAIN T \cup {None}
  PROVE  Forest([g \in DOMAIN T \cup {f} |-> IF g = f THEN to ELSE T[g]])
<1> DEFINE D == DOMAIN T
           U == [g \in D \cup {f} |-> IF g = f THEN to ELSE T[g]]
<1>1. /\ \A g \in D : T[g] \in D \cup {None}
      /\ \A F \in SUBSET D : F # {} => \E g \in F : T[g] \notin F
  BY DEF Forest
<1>2. DOMAIN U = D \cup {f} /\ U[f] = to /\ \A g \in D : U[g] = T[g]
  OBVIOUS
<1> HIDE DEF U
<1>3. ASSUME NEW F \in SUBSET (D \cup {f}), F # {} PROVE \E g \in F : U[g] \notin F
  <2>1. CASE F \ {f} = {}
    BY <1>2, <1>3, <2>1
  <2>2. CASE F \ {f} # {}
    <3>1. PICK g \in F \ {f} : T[g] \notin F \ {f}
      BY <1>1, <2>2
    <3> QED
      BY <1>1, <1>2, <3>1
  <2> QED
    BY <2>1, <2>2
<1>4. \A g \in DOMAIN U : U[g] \in DOMAIN U \cup {None}
  BY <1>1, <1>2
<1> QED
  BY <1>2, <1>3, <1>4 DEF Forest, U

LEMMA ForestShrinks ==
  ASSUME NEW T, Forest(T), None \notin DOMAIN T, NEW f \in DOMAIN T
  PROVE  Forest([g \in DOMAIN T \ {f} |-> IF T[g] = f THEN T[f] ELSE T[g]])
<1> DEFINE D == DOMAIN T
           U == [g \in D \ {f} |-> IF T[g] = f THEN T[f] ELSE T[g]]
<1>1. /\ \A g \in D : T[g] \in D \cup {None}
      /\ \A F \in SUBSET D : F # {} => \E g \in F : T[g] \notin F
  BY DEF Forest
<1>2. DOMAIN U = D \ {f} /\ \A g \in D \ {f} : U[g] = IF T[g] = f THEN T[f] ELSE T[g]
  OBVIOUS
<1>3. T[f] # f
  BY <1>1, {f} \in SUBSET D
<1> HIDE DEF U
<1>4. ASSUME NEW F \in SUBSET (D \ {f}), F # {} PROVE \E g \in F : U[g] \notin F
  <2>1. CASE T[f] \in F
    <3>1. PICK g \in F \cup {f} : T[g] \notin F \cup {f}
      BY <1>1
    <3> QED
      BY <1>2, <2>1, <3>1
  <2>2. CASE T[f] \notin F
    <3>1. PICK g \in F : T[g] \notin F
      BY <1>1, <1>4
    <3> QED
      BY <1>2, <2>2, <3>1
  <2> QED
    BY <2>1, <2>2
<1>5. \A g \in DOMAIN U : U[g] \in DOMAIN U \cup {None}
  BY <1>1, <1>2, <1>3
<1> QED
  BY <1>2, <1>4, <1>5 DEF Forest, U

LEMMA EffectKeepsForest ==
  ASSUME ListingInv, Forests, NEW t \in requests, Inventory!Effect(t)
  PROVE  Forest(tree')
<1>0. Forest(tree) /\ None \notin DOMAIN tree /\ None \notin Folders
  BY InTrees, ListingConstants DEF ListingInv, ListingTypes, Forests
<1>1. CASE t.kind = "remove" /\ t.on \in DOMAIN tree
  <2>1. tree' = [g \in DOMAIN tree \ {t.on} |-> IF tree[g] = t.on THEN tree[t.on] ELSE tree[g]]
    BY <1>1 DEF Inventory!Effect, Inventory!Delete, Inventory!Without
  <2> QED
    BY <1>0, <1>1, <2>1, ForestShrinks
<1>2. CASE t.kind = "create" /\ t.to \in DOMAIN tree \cup {None} /\ DOMAIN tree # Folders
  <2>1. PICK f \in Folders \ DOMAIN tree :
          tree' = [g \in DOMAIN tree \cup {f} |-> IF g = f THEN t.to ELSE tree[g]]
    BY <1>2 DEF Inventory!Effect
  <2> QED
    BY <1>0, <1>2, <2>1, ForestGrows
<1>3. CASE /\ ~(t.kind = "remove" /\ t.on \in DOMAIN tree)
           /\ ~(t.kind = "create" /\ t.to \in DOMAIN tree \cup {None} /\ DOMAIN tree # Folders)
  <2>1. UNCHANGED tree
    BY <1>3 DEF Inventory!Effect, Inventory!store
  <2> QED
    BY <1>0, <2>1
<1> QED
  BY <1>1, <1>2, <1>3

\* What a step adds to the requests is without a tree, or goes on with one's own.
LEMMA OperatorKeepsForests ==
  ASSUME ListingInv, Forests,
         Inventory!RowActions \/ Inventory!GroupCards \/ Inventory!FilterBar \/ Inventory!Toolbar
  PROVE  Forests'
<1>1. UNCHANGED <<tree, folders>>
  BY DEF Inventory!RowActions, Inventory!RefreshOne, Inventory!AssignFolder, Inventory!GroupCards,
         Inventory!RemoveFolder, Inventory!CreateGroupUnder, Inventory!FilterBar,
         Inventory!SetFilter, Inventory!Toolbar, Inventory!RefreshAllVitals, Inventory!store,
         Inventory!page
<1>2. \A kind, on, to : Inventory!Request(kind, on, to).tree = Inventory!NoTree
  BY DEF Inventory!Request
<1>3. CASE Inventory!RowActions \/ Inventory!GroupCards
  <2>1. PICK kind, on, to : Inventory!Send({Inventory!Request(kind, on, to)})
    BY <1>3 DEF Inventory!RowActions, Inventory!RefreshOne, Inventory!AssignFolder,
         Inventory!GroupCards, Inventory!RemoveFolder, Inventory!CreateGroupUnder
  <2>2. requests' = requests \cup {Inventory!Request(kind, on, to)}
    BY <2>1 DEF Inventory!Send
  <2> QED
    BY <1>1, <1>2, <2>2, NoTreeIsForest DEF Forests, Forest
<1>4. CASE Inventory!FilterBar
  <2>1. UNCHANGED requests
    BY <1>4 DEF Inventory!FilterBar, Inventory!SetFilter
  <2> QED
    BY <1>1, <2>1 DEF Forests, Forest
<1>5. CASE Inventory!Toolbar
  <2>1. PICK first : LET nth == CHOOSE n \in [first -> 1 .. Inventory!Cardinality(first)] :
                                  \A x, y \in first : x # y => n[x] # n[y]
                     IN Inventory!Send({[Inventory!Request("bulk", s, None) EXCEPT !.id = posted + nth[s]] : s \in first})
    BY <1>5 DEF Inventory!Toolbar, Inventory!RefreshAllVitals
  <2>2. PICK nth : nth = CHOOSE n \in [first -> 1 .. Inventory!Cardinality(first)] :
                           \A x, y \in first : x # y => n[x] # n[y]
    OBVIOUS
  <2>3. ASSUME NEW s
        PROVE  [Inventory!Request("bulk", s, None) EXCEPT !.id = posted + nth[s]].tree = Inventory!NoTree
    BY DEF Inventory!Request
  <2>4. requests' = requests \cup
          {[Inventory!Request("bulk", s, None) EXCEPT !.id = posted + nth[s]] : s \in first}
    BY <2>1, <2>2 DEF Inventory!Send
  <2>5. \A t \in requests' : t \in requests \/ t.tree = Inventory!NoTree
    BY <2>3, <2>4
  <2> QED
    BY <1>1, <2>5, NoTreeIsForest DEF Forests, Forest
<1> QED
  BY <1>3, <1>4, <1>5

LEMMA ServeKeepsForests ==
  ASSUME ListingInv, Forests, NEW t \in requests, Inventory!Serve(t)
  PROVE  Forests'
<1>1. PICK p \in Inventory!Parts(t.kind) \ t.served : Inventory!Effect(t) /\ Inventory!Answer(t, p)
  BY DEF Inventory!Serve
<1>2. Forest(tree') /\ UNCHANGED folders
  BY <1>1, EffectKeepsForest DEF Inventory!Serve, Inventory!page
<1>3. t \in Posts
  BY DEF ListingInv, PostedBy
<1>4. PICK rs, fs, u :
        /\ fs = IF p = "tree" \/ t.kind \in {"folders", "created"} THEN tree' ELSE t.tree
        /\ u = [t EXCEPT !.served = @ \cup {p}, !.rows = rs, !.tree = fs]
        /\ requests' = (requests \ {t}) \cup {u}
  BY <1>1 DEF Inventory!Answer
<1>5. u.tree = fs
  BY <1>3, <1>4 DEF Posts
<1>6. Forest(t.tree)
  BY DEF Forests
<1>7. Forest(u.tree)
  BY <1>2, <1>4, <1>5, <1>6
<1>8. \A r \in requests' : r \in requests \/ r = u
  BY <1>4
<1>9. Forest(folders')
  BY <1>2 DEF Forests
<1> QED
  BY <1>2, <1>7, <1>8, <1>9 DEF Forests

LEMMA DeliverKeepsForests ==
  ASSUME ListingInv, Forests, NEW t \in requests, Inventory!Deliver(t)
  PROVE  Forests'
<1>1. UNCHANGED tree
  BY DEF Inventory!Deliver, Inventory!store
<1>2. t \in Posts /\ Forest(t.tree)
  BY DEF ListingInv, PostedBy, Forests
<1>3. folders' = folders \/ folders' = t.tree
  BY DEF Inventory!Deliver, Inventory!ListsAnswered, Inventory!Shows, Inventory!EditAnswered,
         Inventory!VitalsAnswered, Inventory!BulkAnswered, Inventory!Fails, Inventory!page
<1>4. \A r \in requests' : r \in requests \/ r.tree = t.tree
  <2>1. CASE requests' = requests \ {t}
    BY <2>1
  <2>2. CASE Inventory!EditAnswered(t)
    <3>1. \A r \in requests' : r \in requests \/ r \in Inventory!GoesOn(t, Inventory!NextRead(t))
      BY <2>2 DEF Inventory!EditAnswered
    <3>2. \A r \in Inventory!GoesOn(t, Inventory!NextRead(t)) : r.tree = t.tree
      BY <1>2 DEF Inventory!GoesOn, Posts
    <3> QED
      BY <3>1, <3>2
  <2>3. CASE \E next : requests' = (requests \ {t}) \cup
                         {[t EXCEPT !.on = next, !.served = {}, !.rows = Inventory!NoTree]}
    BY <1>2, <2>3 DEF Posts
  <2> QED
    BY <2>1, <2>2, <2>3 DEF Inventory!Deliver, Inventory!ListsAnswered, Inventory!VitalsAnswered,
         Inventory!BulkAnswered, Inventory!Fails
<1>5. Forest(tree') /\ Forest(folders')
  BY <1>1, <1>2, <1>3 DEF Forests
<1>6. \A r \in requests' : Forest(r.tree)
  BY <1>2, <1>4 DEF Forests
<1> QED
  BY <1>5, <1>6 DEF Forests

LEMMA ForestsInvariant == Inventory!Spec => []Forests
<1>1. ListingInv /\ Forests /\ [Inventory!Next]_(Inventory!vars) => Forests'
  <2> SUFFICES ASSUME ListingInv, Forests, [Inventory!Next]_(Inventory!vars) PROVE Forests'
    OBVIOUS
  <2>1. CASE UNCHANGED Inventory!vars
    BY <2>1 DEF Inventory!vars, Inventory!store, Inventory!page, Forests, Forest
  <2> QED
    BY <2>1, OperatorKeepsForests, ServeKeepsForests, DeliverKeepsForests DEF Inventory!Next
<1> QED
  BY <1>1, ListingInvariant, ForestsInit, PTL DEF Inventory!Spec

-----------------------------------------------------------------------------
(* The inventory page: what is drawn.  The three walks over the groups stop after *)
(* as many rounds as there are groups, and have then been everywhere.         *)

Count == Cardinality(Folders)
Listed == DOMAIN folders

LEMMA DrawingFacts ==
  ASSUME ListingInv, Forests
  PROVE  /\ Listed \subseteq Folders /\ folders \in [Listed -> Listed \cup {None}]
         /\ \A F \in SUBSET Listed : F # {} => \E f \in F : folders[f] \notin F
         /\ None \notin Folders /\ IsFiniteSet(Folders) /\ Count \in Nat
         /\ Inventory!Cardinality(Folders) = Count
<1>1. Listed \subseteq Folders /\ folders \in [Listed -> Folders \cup {None}]
  BY InTrees DEF ListingInv, ListingTypes, Listed
<1>2. IsFiniteSet(Folders)
  <2>1. Inventory!IsFiniteSet(Folders)
    BY PagesAssumption DEF PagesAssumption, Inventory!ListingAssumption
  <2> QED
    BY <2>1 DEF Inventory!IsFiniteSet, IsFiniteSet
<1> QED
  BY <1>1, <1>2, ListingConstants, FS_CardinalityType DEF Forests, Forest, Listed, Count

\* The groups to show: with each, the one above it.
LEMMA ShownAreClosed ==
  ASSUME ListingInv, Forests
  PROVE  /\ Inventory!toShow \subseteq Listed
         /\ {f \in Listed : Inventory!Rows(f) # {}} \subseteq Inventory!toShow
         /\ \A f \in Inventory!toShow : folders[f] \in Inventory!toShow \cup {None}
<1> DEFINE N == 0 .. Count
           start == {f \in Listed : Inventory!Rows(f) # {}}
           Above(s) == s \cup ({folders[f] : f \in s} \cap Listed)
           R(h) == [k \in N |-> IF k = 0 THEN start ELSE Above(h[k - 1])]
           V == SUBSET Listed
           op == [p \in Nat \X V |-> Above(p[2])]
           i == CHOOSE h : h = R(h)
<1>1. /\ Listed \subseteq Folders /\ folders \in [Listed -> Listed \cup {None}]
      /\ IsFiniteSet(Folders) /\ Count \in Nat /\ Inventory!Cardinality(Folders) = Count
  BY DrawingFacts
<1>2. op \in [Nat \X V -> V] /\ start \in V
  OBVIOUS
<1>3. PICK g : Iterates(g, Count, V, start, op)
  <2> HIDE DEF op, V, start
  <2> QED
    BY <1>1, <1>2, IterationExists
<1>4. g \in [N -> V] /\ g[0] = start /\ \A k \in 1 .. Count : g[k] = Above(g[k - 1])
  <2>1. g \in [N -> V] /\ g[0] = start /\ \A k \in 1 .. Count : g[k] = op[<<k, g[k - 1]>>]
    BY <1>3 DEF Iterates
  <2>2. ASSUME NEW k \in 1 .. Count PROVE g[k] = Above(g[k - 1])
    <3>1. g[k - 1] \in V /\ <<k, g[k - 1]>> \in Nat \X V
      BY <1>1, <2>1
    <3> QED
      BY <2>1, <3>1
  <2> QED
    BY <2>1, <2>2
<1>5. g = R(g)
  <2>1. \A k \in N : k = 0 \/ k \in 1 .. Count
    BY <1>1
  <2> HIDE DEF start, V
  <2> QED
    BY <1>4, <2>1
<1>6. i = R(i)
  <2> HIDE DEF R
  <2> QED
    BY <1>5
<1>7. Inventory!toShow = i[Count]
  BY <1>1 DEF Inventory!toShow, Listed
<1>8. /\ i[0] = start
      /\ \A k \in 0 .. (Count - 1) : i[k + 1] = Above(i[k])
  <2> HIDE DEF i, start, Above
  <2>1. \A k \in N : i[k] = IF k = 0 THEN start ELSE Above(i[k - 1])
    BY <1>6
  <2>2. \A k \in 0 .. (Count - 1) : k + 1 \in N /\ k + 1 # 0 /\ (k + 1) - 1 = k /\ 0 \in N
    BY <1>1
  <2>3. 0 \in N
    BY <1>1
  <2> QED
    BY <2>1, <2>2, <2>3
<1> DEFINE Reached == {k \in Nat : k <= Count => i[k] \in V /\ start \subseteq i[k]}
<1>9. 0 \in Reached
  BY <1>2, <1>8
<1>10. ASSUME NEW k \in Nat, k \in Reached PROVE k + 1 \in Reached
  <2> HIDE DEF i, start, V
  <2> SUFFICES ASSUME k + 1 <= Count PROVE i[k + 1] \in V /\ start \subseteq i[k + 1]
    OBVIOUS
  <2>1. k \in 0 .. (Count - 1) /\ k <= Count
    BY <1>1
  <2>2. i[k] \in V /\ start \subseteq i[k] /\ i[k + 1] = Above(i[k])
    BY <1>8, <1>10, <2>1
  <2>3. i[k + 1] \in V
    BY <2>2 DEF V
  <2> QED
    BY <2>2, <2>3
<1>11. Nat \subseteq Reached
  <2> HIDE DEF Reached
  <2> QED
    BY <1>9, <1>10, NatSetInduction
<1>12. \A k \in N : i[k] \in V /\ start \subseteq i[k]
  <2> HIDE DEF V, i, start
  <2> QED
    BY <1>1, <1>11
<1> DEFINE C == {s \in SUBSET Folders : s \subseteq Listed => Above(s) = s}
           W == [k \in N |-> i[k]]
           n == Cardinality(Folders)
<1>13. n = Count
  BY DEF Count
<1>14. W \in [N -> SUBSET Folders] /\ Folders \in C
  <2>1. Folders \in C
    BY <1>1
  <2> HIDE DEF i
  <2> QED
    BY <1>1, <1>12, <2>1
<1>15. ASSUME NEW k \in 0 .. (n - 1)
       PROVE  /\ W[k] \subseteq W[k + 1]
              /\ IF W[k] \in C THEN W[k + 1] \in C ELSE W[k + 1] # W[k]
  <2>1. k \in N /\ k + 1 \in N
    BY <1>1, <1>13
  <2>2. W[k] = i[k] /\ W[k + 1] = Above(i[k]) /\ i[k] \in V
    <3> HIDE DEF i, Above
    <3> QED
      BY <1>8, <1>12, <1>13, <2>1
  <2> HIDE DEF i, W
  <2> QED
    BY <2>2, <1>1
<1>16. Growing(W, Folders, C)
  <2> HIDE DEF W, C, i
  <2> QED
    BY <1>13, <1>14, <1>15 DEF Growing
<1>17. W[n] \in C
  <2> HIDE DEF W, C, i
  <2> QED
    BY <1>1, <1>16, GrowingArrives
<1>18. i[Count] \in C /\ i[Count] \in V /\ start \subseteq i[Count]
  <2> HIDE DEF C, i, V, start
  <2> QED
    BY <1>1, <1>12, <1>13, <1>17
<1> HIDE DEF i
<1>19. Above(i[Count]) = i[Count]
  BY <1>18
<1> QED
  BY <1>1, <1>7, <1>18, <1>19

\* The cards: opening them from the top shows every group.
LEMMA OpenedAreAll ==
  ASSUME ListingInv, Forests
  PROVE  Listed \subseteq Inventory!Opened
<1> DEFINE N == 0 .. Count
           start == Inventory!childFolders(None)
           Below(s) == s \cup UNION {Inventory!childFolders(c) : c \in s}
           R(h) == [k \in N |-> IF k = 0 THEN start ELSE Below(h[k - 1])]
           V == SUBSET Listed
           op == [p \in Nat \X V |-> Below(p[2])]
           i == CHOOSE h : h = R(h)
<1>1. /\ Listed \subseteq Folders /\ folders \in [Listed -> Listed \cup {None}]
      /\ IsFiniteSet(Folders) /\ Count \in Nat /\ Inventory!Cardinality(Folders) = Count
      /\ \A F \in SUBSET Listed : F # {} => \E f \in F : folders[f] \notin F
  BY DrawingFacts
<1>2. /\ \A c : Inventory!childFolders(c) = {f \in Listed : folders[f] = c}
      /\ \A s : s \in V => Below(s) \in V
  BY DEF Inventory!childFolders, Listed
<1>3. op \in [Nat \X V -> V] /\ start \in V
  BY <1>2
<1>4. PICK g : Iterates(g, Count, V, start, op)
  <2> HIDE DEF op, V, start
  <2> QED
    BY <1>1, <1>3, IterationExists
<1>5. g \in [N -> V] /\ g[0] = start /\ \A k \in 1 .. Count : g[k] = Below(g[k - 1])
  <2>1. g \in [N -> V] /\ g[0] = start /\ \A k \in 1 .. Count : g[k] = op[<<k, g[k - 1]>>]
    BY <1>4 DEF Iterates
  <2> HIDE DEF V, start, Below
  <2>2. ASSUME NEW k \in 1 .. Count PROVE g[k] = Below(g[k - 1])
    <3>1. g[k - 1] \in V /\ <<k, g[k - 1]>> \in Nat \X V
      BY <1>1, <2>1
    <3> QED
      BY <2>1, <3>1
  <2> QED
    BY <2>1, <2>2
<1>6. g = R(g)
  <2>1. \A k \in N : k = 0 \/ k \in 1 .. Count
    BY <1>1
  <2> HIDE DEF start, V, Below
  <2> QED
    BY <1>5, <2>1
<1>7. i = R(i)
  <2> HIDE DEF R
  <2> QED
    BY <1>6
<1>8. Inventory!Opened = i[Count]
  BY <1>1 DEF Inventory!Opened
<1>9. i[0] = start /\ \A k \in 0 .. (Count - 1) : i[k + 1] = Below(i[k])
  <2> HIDE DEF i, start, Below
  <2>1. \A k \in N : i[k] = IF k = 0 THEN start ELSE Below(i[k - 1])
    BY <1>7
  <2>2. \A k \in 0 .. (Count - 1) : k + 1 \in N /\ k + 1 # 0 /\ (k + 1) - 1 = k
    BY <1>1
  <2>3. 0 \in N
    BY <1>1
  <2> QED
    BY <2>1, <2>2, <2>3
<1> DEFINE Reached == {k \in Nat : k <= Count => i[k] \in V /\ start \subseteq i[k]}
<1>10. 0 \in Reached
  BY <1>3, <1>9
<1>11. ASSUME NEW k \in Nat, k \in Reached PROVE k + 1 \in Reached
  <2> HIDE DEF i, start, V, Below
  <2> SUFFICES ASSUME k + 1 <= Count PROVE i[k + 1] \in V /\ start \subseteq i[k + 1]
    OBVIOUS
  <2>1. k \in 0 .. (Count - 1) /\ k <= Count
    BY <1>1
  <2>2. i[k] \in V /\ start \subseteq i[k] /\ i[k + 1] = Below(i[k])
    BY <1>9, <1>11, <2>1
  <2>3. i[k + 1] \in V
    BY <1>2, <2>2
  <2> QED
    BY <2>2, <2>3 DEF Below
<1>12. Nat \subseteq Reached
  <2> HIDE DEF Reached
  <2> QED
    BY <1>10, <1>11, NatSetInduction
<1>13. \A k \in N : i[k] \in V /\ start \subseteq i[k]
  <2> HIDE DEF V, i, start
  <2> QED
    BY <1>1, <1>12
<1> DEFINE C == {s \in SUBSET Folders : Listed \subseteq s}
           n == Cardinality(Folders)
<1>14. n = Count
  BY DEF Count
\* A round that leaves the rest of the groups out leaves out one whose parent is in.
<1>15. ASSUME NEW s \in SUBSET Listed, start \subseteq s, ~(Listed \subseteq s)
       PROVE  Below(s) # s
  <2>1. PICK f \in Listed \ s : folders[f] \notin Listed \ s
    BY <1>1, <1>15
  <2>2. folders[f] # None
    BY <1>2, <1>15, <2>1
  <2>3. folders[f] \in s
    BY <1>1, <2>1, <2>2
  <2>4. f \in Below(s)
    BY <1>2, <2>3, <2>1
  <2> QED
    BY <2>1, <2>4
<1> DEFINE W == [k \in N |-> i[k]]
<1>16. W \in [N -> SUBSET Folders] /\ Folders \in C
  <2> HIDE DEF i
  <2> QED
    BY <1>1, <1>13
<1>17. ASSUME NEW k \in 0 .. (n - 1)
       PROVE  /\ W[k] \subseteq W[k + 1]
              /\ IF W[k] \in C THEN W[k + 1] \in C ELSE W[k + 1] # W[k]
  <2>1. k \in N /\ k + 1 \in N
    BY <1>1, <1>14
  <2>2. /\ W[k] = i[k] /\ W[k + 1] = Below(i[k]) /\ i[k] \in V /\ W[k + 1] \in V
        /\ start \subseteq i[k]
    <3> HIDE DEF i, Below, V, start
    <3> QED
      BY <1>9, <1>13, <1>14, <2>1
  <2>3. ~(Listed \subseteq i[k]) => Below(i[k]) # i[k]
    <3> HIDE DEF i, Below, start
    <3> QED
      BY <1>15, <2>2
  <2> HIDE DEF i, W, start
  <2> QED
    BY <1>1, <2>2, <2>3
<1>18. Growing(W, Folders, C)
  <2> HIDE DEF W, C, i
  <2> QED
    BY <1>14, <1>16, <1>17 DEF Growing
<1>19. W[n] \in C
  <2> HIDE DEF W, C, i
  <2> QED
    BY <1>1, <1>18, GrowingArrives
<1>20. i[Count] \in C
  <2> HIDE DEF C, i
  <2> QED
    BY <1>1, <1>14, <1>19
<1> HIDE DEF i
<1> QED
  BY <1>8, <1>20

\* The sections: w[d] are the groups drawn at depth d.
WalkedBy(w) ==
  /\ w \in [0 .. Count -> SUBSET Listed]
  /\ w[0] = {f \in Inventory!toShow : folders[f] = None}
  /\ \A d \in 1 .. Count : w[d] = {f \in Inventory!toShow : folders[f] \in w[d - 1]}
  /\ Inventory!groups =
       (UNION {{[key |-> f, depth |-> d] : f \in w[d]} : d \in 0 .. Count})
       \cup IF Inventory!Rows(None) = {} THEN {} ELSE {[key |-> None, depth |-> 0]}

LEMMA WalkExists ==
  ASSUME ListingInv, Forests
  PROVE  \E w : WalkedBy(w)
<1> DEFINE N == 0 .. Count
           shown == Inventory!toShow
           par(f) == Inventory!parentOf(f)
           start == {f \in shown : par(f) = None}
           Below(s) == {f \in shown : par(f) \in s}
           R(h) == [d \in N |-> {f \in shown : IF d = 0 THEN par(f) = None ELSE par(f) \in h[d - 1]}]
           V == SUBSET Listed
           op == [p \in Nat \X V |-> Below(p[2])]
           i == CHOOSE h : h = R(h)
<1>1. /\ folders \in [Listed -> Listed \cup {None}]
      /\ Count \in Nat /\ Inventory!Cardinality(Folders) = Count
  BY DrawingFacts
<1>2. shown \subseteq Listed /\ \A f \in shown : par(f) = folders[f]
  BY <1>1, ShownAreClosed DEF Inventory!parentOf, Listed
<1> HIDE DEF par, shown
<1>3. op \in [Nat \X V -> V] /\ start \in V
  BY <1>2
<1>4. PICK g : Iterates(g, Count, V, start, op)
  <2> HIDE DEF op, V, start
  <2> QED
    BY <1>1, <1>3, IterationExists
<1>5. g \in [N -> V] /\ g[0] = start /\ \A k \in 1 .. Count : g[k] = Below(g[k - 1])
  <2>1. g \in [N -> V] /\ g[0] = start /\ \A k \in 1 .. Count : g[k] = op[<<k, g[k - 1]>>]
    BY <1>4 DEF Iterates
  <2> HIDE DEF V, start, Below
  <2>2. ASSUME NEW k \in 1 .. Count PROVE g[k] = Below(g[k - 1])
    <3>1. g[k - 1] \in V /\ <<k, g[k - 1]>> \in Nat \X V
      BY <1>1, <2>1
    <3> QED
      BY <2>1, <3>1
  <2> QED
    BY <2>1, <2>2
<1>6. g = R(g)
  <2>1. \A k \in N : k = 0 \/ k \in 1 .. Count
    BY <1>1
  <2>2. \A k \in N : g[k] = {f \in shown : IF k = 0 THEN par(f) = None ELSE par(f) \in g[k - 1]}
    BY <1>5, <2>1
  <2> HIDE DEF V
  <2> QED
    BY <1>5, <2>2
<1>7. i = R(i)
  <2> HIDE DEF R
  <2> QED
    BY <1>6
<1>8. Inventory!groups =
        (UNION {{[key |-> f, depth |-> d] : f \in i[d]} : d \in N})
        \cup IF Inventory!Rows(None) = {} THEN {} ELSE {[key |-> None, depth |-> 0]}
  BY <1>1 DEF Inventory!groups, par, shown
<1> HIDE DEF i
<1>9. \A d \in N : i[d] = {f \in shown : IF d = 0 THEN par(f) = None ELSE par(f) \in i[d - 1]}
  BY <1>7
<1>10. i[0] = start /\ \A d \in 1 .. Count : i[d] = Below(i[d - 1])
  <2>1. 0 \in N /\ \A d \in 1 .. Count : d \in N /\ d # 0
    BY <1>1
  <2> QED
    BY <1>9, <2>1
<1>11. i \in [N -> V]
  <2>1. \A d \in N : i[d] \in V
    BY <1>2, <1>9
  <2> HIDE DEF V
  <2> QED
    BY <1>7, <2>1
<1>12. /\ start = {f \in shown : folders[f] = None}
       /\ \A d \in 1 .. Count : Below(i[d - 1]) = {f \in shown : folders[f] \in i[d - 1]}
  BY <1>2
<1>13. i[0] = {f \in shown : folders[f] = None}
  BY <1>10, <1>12
<1>14. \A d \in 1 .. Count : i[d] = {f \in shown : folders[f] \in i[d - 1]}
  BY <1>10, <1>12
<1>15. WalkedBy(i)
  BY <1>8, <1>11, <1>13, <1>14 DEF WalkedBy, shown
<1> QED
  BY <1>15

\* A group to show is drawn once.
LEMMA DrawnOnce ==
  ASSUME ListingInv, Forests, NEW w, WalkedBy(w), NEW f \in Inventory!toShow
  PROVE  \E d \in 0 .. Count : f \in w[d] /\ \A e \in 0 .. Count : f \in w[e] => e = d
<1> DEFINE N == 0 .. Count
           shown == Inventory!toShow
<1>1. /\ Listed \subseteq Folders /\ folders \in [Listed -> Listed \cup {None}]
      /\ IsFiniteSet(Folders) /\ Count \in Nat /\ None \notin Listed
      /\ \A F \in SUBSET Listed : F # {} => \E x \in F : folders[x] \notin F
  BY DrawingFacts
<1>2. shown \subseteq Listed /\ \A x \in shown : folders[x] \in shown \cup {None}
  BY ShownAreClosed
<1>3. /\ w \in [N -> SUBSET Listed] /\ w[0] = {x \in shown : folders[x] = None}
      /\ \A d \in 1 .. Count : w[d] = {x \in shown : folders[x] \in w[d - 1]}
  BY DEF WalkedBy
<1> HIDE DEF shown
<1> DEFINE Once == {d \in Nat : d <= Count => \A x \in w[d], e \in N : x \in w[e] => e = d}
<1>4. 0 \in Once
  <2>1. ASSUME NEW x \in w[0], NEW e \in N, x \in w[e], e # 0 PROVE FALSE
    <3>1. e \in 1 .. Count /\ e - 1 \in N
      BY <1>1, <2>1
    <3>2. folders[x] = None /\ folders[x] \in w[e - 1]
      BY <1>3, <2>1, <3>1
    <3> QED
      BY <1>1, <1>3, <3>1, <3>2
  <2> QED
    BY <2>1
<1>5. ASSUME NEW d \in Nat, d \in Once PROVE d + 1 \in Once
  <2> SUFFICES ASSUME d + 1 <= Count, NEW x \in w[d + 1], NEW e \in N, x \in w[e]
               PROVE  e = d + 1
    OBVIOUS
  <2>1. d + 1 \in 1 .. Count /\ (d + 1) - 1 = d /\ d \in N /\ d <= Count
    BY <1>1
  <2>2. x \in shown /\ folders[x] \in w[d]
    BY <1>3, <2>1
  <2>3. e # 0
    BY <1>1, <1>3, <2>1, <2>2
  <2>4. e \in 1 .. Count /\ e - 1 \in N
    BY <1>1, <2>3
  <2>5. folders[x] \in w[e - 1]
    BY <1>3, <2>4
  <2>6. e - 1 = d
    BY <1>5, <2>1, <2>2, <2>4, <2>5
  <2> QED
    BY <2>4, <2>6
<1>6. Nat \subseteq Once
  <2> HIDE DEF Once
  <2> QED
    BY <1>4, <1>5, NatSetInduction
<1> DEFINE U == [d \in N |-> UNION {w[e] : e \in 0 .. d}]
           C == {s \in SUBSET Folders : shown \subseteq s}
           n == Cardinality(Folders)
<1>7. n = Count
  BY DEF Count
<1>8. U \in [N -> SUBSET Folders] /\ Folders \in C
  <2>1. \A d \in N : 0 .. d \subseteq N
    BY <1>1
  <2>2. \A d \in N : U[d] \in SUBSET Folders
    BY <1>1, <1>3, <2>1
  <2>3. Folders \in C
    BY <1>1, <1>2
  <2> QED
    BY <2>2, <2>3
<1>9. ASSUME NEW d \in 0 .. (n - 1)
      PROVE  /\ U[d] \subseteq U[d + 1]
             /\ IF U[d] \in C THEN U[d + 1] \in C ELSE U[d + 1] # U[d]
  <2>1. /\ d \in N /\ d + 1 \in N /\ d + 1 \in 1 .. Count /\ (d + 1) - 1 = d
        /\ 0 .. d \subseteq 0 .. (d + 1) /\ d \in Nat
    BY <1>1, <1>7
  <2>2. U[d] = UNION {w[e] : e \in 0 .. d} /\ U[d + 1] = UNION {w[e] : e \in 0 .. (d + 1)}
    BY <2>1
  <2>3. U[d] \subseteq U[d + 1] /\ U[d + 1] \in SUBSET Folders
    BY <1>8, <2>1, <2>2
  <2> HIDE DEF U
  <2>4. ASSUME ~(shown \subseteq U[d]) PROVE U[d + 1] # U[d]
    <3>1. PICK x \in shown \ U[d] : folders[x] \notin shown \ U[d]
      BY <1>1, <1>2, <2>4
    <3>2. folders[x] # None
      <4>1. 0 \in 0 .. d
        BY <2>1
      <4> QED
        BY <1>3, <2>2, <3>1, <4>1
    <3>3. folders[x] \in U[d]
      BY <1>2, <3>1, <3>2
    <3>4. PICK e \in 0 .. d : folders[x] \in w[e]
      BY <2>2, <3>3
    <3>5. e + 1 \in 1 .. Count /\ (e + 1) - 1 = e /\ e + 1 \in 0 .. (d + 1)
      BY <1>1, <2>1
    <3>6. x \in w[e + 1]
      BY <1>3, <3>1, <3>4, <3>5
    <3>7. x \in U[d + 1]
      BY <2>2, <3>5, <3>6
    <3> QED
      BY <3>1, <3>7
  <2> HIDE DEF N
  <2> QED
    BY <1>8, <2>1, <2>3, <2>4
<1>10. Growing(U, Folders, C)
  <2> HIDE DEF U, C
  <2> QED
    BY <1>7, <1>8, <1>9 DEF Growing
<1>11. U[n] \in C
  <2> HIDE DEF U, C
  <2> QED
    BY <1>1, <1>10, GrowingArrives
<1>12. PICK d \in 0 .. Count : f \in w[d]
  <2>1. Count \in N
    BY <1>1
  <2>2. U[Count] = UNION {w[e] : e \in 0 .. Count}
    BY <2>1
  <2>3. f \in U[Count]
    <3> HIDE DEF U
    <3> QED
      BY <1>7, <1>11 DEF shown
  <2> QED
    BY <2>2, <2>3
<1>13. \A e \in 0 .. Count : f \in w[e] => e = d
  <2>1. d \in Nat /\ d <= Count
    BY <1>1
  <2> QED
    BY <1>6, <1>12, <2>1
<1> QED
  BY <1>12, <1>13

LEMMA EveryRowIsDrawn ==
  ASSUME ListingInv, Forests
  PROVE  EveryRowIsReached
<1>1. /\ folders \in [Listed -> Listed \cup {None}] /\ None \notin Listed /\ Count \in Nat
  BY DrawingFacts
<1>2. PICK w : WalkedBy(w)
  BY WalkExists
<1>3. /\ w \in [0 .. Count -> SUBSET Listed]
      /\ \A d \in 1 .. Count : w[d] = {f \in Inventory!toShow : folders[f] \in w[d - 1]}
      /\ Inventory!groups =
           (UNION {{[key |-> f, depth |-> d] : f \in w[d]} : d \in 0 .. Count})
           \cup IF Inventory!Rows(None) = {} THEN {} ELSE {[key |-> None, depth |-> 0]}
  BY <1>2 DEF WalkedBy
<1> DEFINE G == Inventory!groups
<1>4. \A g : g \in G <=>
         \/ \E d \in 0 .. Count : \E f \in w[d] : g = [key |-> f, depth |-> d]
         \/ Inventory!Rows(None) # {} /\ g = [key |-> None, depth |-> 0]
  BY <1>3
<1>5. ASSUME NEW s \in Inventory!filteredServers
      PROVE  Inventory!Cardinality({g \in G : Inventory!KeyOf(s) = g.key}) = 1
  <2> DEFINE key == Inventory!KeyOf(s)
  <2>1. s \in Inventory!Rows(key) /\ key \in Listed \cup {None}
    BY DEF Inventory!Rows, Inventory!KeyOf, Listed
  <2> HIDE DEF key, G
  <2>2. \E g : {h \in G : key = h.key} = {g}
    <3>1. CASE key = None
      <4>1. \A d \in 0 .. Count : \A f \in w[d] : f # None
        BY <1>1, <1>3
      <4>2. \A h \in G : key = h.key => h = [key |-> None, depth |-> 0]
        BY <1>4, <3>1, <4>1
      <4>3. [key |-> None, depth |-> 0] \in G
        BY <1>4, <2>1, <3>1
      <4> QED
        BY <3>1, <4>2, <4>3
    <3>2. CASE key \in Listed
      <4>1. key \in Inventory!toShow /\ key # None
        BY <1>1, <2>1, <3>2, ShownAreClosed
      <4>2. PICK d \in 0 .. Count : key \in w[d] /\ \A e \in 0 .. Count : key \in w[e] => e = d
        BY <1>2, <4>1, DrawnOnce
      <4>3. [key |-> key, depth |-> d] \in G
        BY <1>4, <4>2
      <4>4. \A h \in G : key = h.key => h = [key |-> key, depth |-> d]
        BY <1>4, <4>1, <4>2
      <4> QED
        BY <4>3, <4>4
    <3> QED
      BY <2>1, <3>1, <3>2
  <2>3. PICK g : {h \in G : key = h.key} = {g}
    BY <2>2
  <2>4. Cardinality({g}) = 1
    BY FS_Singleton
  <2> QED
    BY <2>3, <2>4, ListingConstants DEF key
<1>6. ASSUME NEW g \in G, g.depth > 0
      PROVE  [key |-> Inventory!parentOf(g.key), depth |-> g.depth - 1] \in G
  <2> HIDE DEF G
  <2>0. PICK d \in 0 .. Count : \E f \in w[d] : g = [key |-> f, depth |-> d]
    BY <1>4, <1>6
  <2>1. PICK f \in w[d] : g = [key |-> f, depth |-> d]
    BY <2>0
  <2>2. d \in 1 .. Count /\ d - 1 \in 0 .. Count
    BY <1>1, <1>6, <2>1
  <2>3. folders[f] \in w[d - 1] /\ folders[f] \in Listed
    BY <1>3, <2>1, <2>2
  <2>4. Inventory!parentOf(f) = folders[f]
    BY <2>3 DEF Inventory!parentOf, Listed
  <2> QED
    BY <1>4, <2>1, <2>2, <2>3, <2>4
<1>7. Inventory!EveryRowHasItsSection
  <2> HIDE DEF G
  <2>1. /\ \A s \in Inventory!filteredServers :
             Inventory!Cardinality({g \in G : Inventory!KeyOf(s) = g.key}) = 1
        /\ \A g \in G : g.depth > 0 =>
             [key |-> Inventory!parentOf(g.key), depth |-> g.depth - 1] \in G
    BY <1>5, <1>6
  <2> QED
    BY <2>1 DEF Inventory!EveryRowHasItsSection, G
<1>8. Inventory!CardsReachEveryRow
  <2> SUFFICES ASSUME NEW s \in Servers
               PROVE  s \in Inventory!unassigned \/ \E c \in Inventory!Opened : s \in Inventory!directServers(c)
    BY DEF Inventory!CardsReachEveryRow
  <2>1. CASE servers[s] \in Listed
    BY <2>1, OpenedAreAll DEF Inventory!directServers
  <2>2. CASE servers[s] \notin Listed
    BY <2>2 DEF Inventory!unassigned, Listed
  <2> QED
    BY <2>1, <2>2
<1> QED
  BY <1>7, <1>8 DEF EveryRowIsReached

\* Whatever the copies of the rows and of the groups were told at different moments,
\* the table shows every row in one section and the cards lead to every row.
THEOREM EveryRowIsThere == PagesSpec => []EveryRowIsReached
<1>1. ListingInv /\ Forests => EveryRowIsReached
  BY EveryRowIsDrawn
<1> QED
  BY <1>1, PartsOfPages, ListingInvariant, ForestsInvariant, PTL

-----------------------------------------------------------------------------
(* All the pages.                                                            *)

\* The parts' invariants have their types.
LEMMA InvariantsHaveTypes ==
  /\ NavInv => Connections!TypeOK
  /\ KeyspaceInv => Keyspace!TypeOK
  /\ ListingInv => Inventory!TypeOK
  /\ ViewInv => Viewer!TypeOK
<1>1. ASSUME NavInv PROVE Connections!TypeOK
  <2>1. \A q \in changes : q.kind \in Connections!Kinds /\ q.n \in 1 .. changed
    BY <1>1 DEF NavInv, NavAsked, NavRequest
  <2>2. \A c \in Conns :
          /\ {node[c].open, kid[c].open, node[c].loading, kid[c].loading} \subseteq BOOLEAN
          /\ node[c].shows \in {"none", "schemas", "databases", "error"}
          /\ kid[c].shows \in {"none", "items", "error"}
    BY <1>1 DEF NavInv, TreeTypes, NodeStates, KidStates
  <2> QED
    BY <1>1, <2>1, <2>2 DEF NavInv, TreeTypes, NavAsked, Connections!TypeOK
<1>2. ASSUME KeyspaceInv PROVE Keyspace!TypeOK
  <2>1. \A i \in DOMAIN keys : keys[i].page \in 0 .. LastPage /\ keys[i].at.db \in Dbs
    <3>1. \A i \in DOMAIN keys : keys[i] \in [at : Places, page : 0 .. LastPage]
      <4> DEFINE Row == [at : Places, page : 0 .. LastPage]
      <4>1. keys \in Seq(Row)
        BY <1>2 DEF KeyspaceInv, ViewOfKeys
      <4> HIDE DEF Row
      <4>2. \A i \in DOMAIN keys : keys[i] \in Row
        BY <4>1
      <4> QED
        BY <4>2 DEF Row
    <3> QED
      BY <3>1 DEF Places
  <2>2. \A q \in commands : q.n \in 1 .. commanded
    BY <1>2 DEF KeyspaceInv, Requested, ScanOrRead
  <2>3. detail.key \in Keys \cup {None}
    BY <1>2 DEF KeyspaceInv, ViewOfKeys
  <2> QED
    BY <1>2, <2>1, <2>2, <2>3 DEF KeyspaceInv, ViewOfKeys, Requested, Keyspace!TypeOK
<1>3. ASSUME ListingInv PROVE Inventory!TypeOK
  BY <1>3 DEF ListingInv, ListingTypes, PostedBy, Inventory!TypeOK
<1>4. ASSUME ViewInv PROVE Viewer!TypeOK
  <2>1. \A i \in DOMAIN pages : pages[i] \in (SUBSET Lines) \ {{}}
    BY <1>4 DEF ViewInv, ViewTypes
  <2>2. \A t \in searches : t.id \in 1 .. searched
    BY <1>4 DEF ViewInv, Answerable, Reads
  <2>3. file = None \/ file.lines \subseteq Lines
    BY <1>4, WindowIsOfLines DEF ViewInv, ViewTypes, Viewer!FileIsTheWindow
  <2>4. ctx = None \/ (ctx.query \in Queries /\ ctx.window \in Windows)
    BY <1>4 DEF ViewInv, ViewTypes, OfQuery
  <2> QED
    BY <1>4, <2>1, <2>2, <2>3, <2>4 DEF ViewInv, ViewTypes, Viewer!TypeOK
<1> QED
  BY <1>1, <1>2, <1>3, <1>4

OnePart ==
  part \in {"query", "navigator", "keyspace", "kube", "inventory", "viewer", "chart"}

\* Each page keeps its types, whichever moves.
THEOREM PagesKeepTypes == PagesSpec => []TypesOK
<1>1. WorkspaceAssumption
  BY PagesAssumption DEF PagesAssumption
<1>2. PagesInit => OnePart
  BY DEF OnePart, PagesInit
<1>3. OnePart /\ [PagesNext]_pagesVars => OnePart'
  BY DEF OnePart, PagesNext, pagesVars
<1>4. PagesSpec => []OnePart
  BY <1>2, <1>3, PTL DEF PagesSpec, pagesVars
<1>5. /\ OnePart
      /\ TypeOK /\ NavInv /\ KeyspaceInv /\ KubeInv /\ ListingInv /\ ViewInv /\ ChartInv
      => TypesOK
  BY InvariantsHaveTypes, Zenon DEF OnePart, TypesOK, KubeInv, ChartInv
<1>6. Spec => []TypeOK
  BY <1>1, PageTypes
<1> QED
  BY <1>4, <1>5, <1>6, PartsOfPages, NavInvariant, KeyspaceInvariant, KubeInvariant,
     ListingInvariant, ViewInvariant, ChartInvariant, PTL

\* What a page is greyed out for is under way: neither a step of another hand nor
\* an answer that comes late or out of turn leaves a spinner without its request
\* (db-workspace.tsx, the navigator, the cluster's page, the viewer, the charts).
THEOREM SpinnersHaveRequests == PagesSpec => []NothingSpinsForEver
<1>1. WorkspaceAssumption
  BY PagesAssumption DEF PagesAssumption
<1>2. RunningHasAQuery /\ NavInv /\ KubeInv /\ ViewInv /\ ChartInv => NothingSpinsForEver
  BY DEF NavInv, KubeInv, SlotInv, ViewInv, ChartInv, NothingSpinsForEver
<1>3. Spec => []RunningHasAQuery
  BY <1>1, RunningTabsAreAnswered
<1> QED
  BY <1>2, <1>3, PartsOfPages, NavInvariant, KubeInvariant, ViewInvariant, ChartInvariant, PTL
=============================================================================
