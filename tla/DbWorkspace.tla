------------------------------ MODULE DbWorkspace ------------------------------
(***************************************************************************)
(* The query tabs of the database page (frontend/components/                 *)
(* db-workspace.tsx, with its editor, result grid and history panel): tabs    *)
(* are opened by the navigator, the history, a .sql file or the deep link;    *)
(* a statement goes through runTab, which asks before it runs one that looks   *)
(* destructive, or to the server at once by "Fetch all".                      *)
(*                                                                          *)
(* A statement is a read or one that analyzeDanger flags. A connection is      *)
(* production or not, for good: a tab keeps what it was told when it opened,   *)
(* and the list of connections is read once. window.confirm blocks the page,   *)
(* so its answer is part of the step; the typed gate is a dialog of its own,   *)
(* behind which nothing is stopped: answers land, and the keyboard reaches     *)
(* every button of the page.                                                 *)
(***************************************************************************)
EXTENDS Integers, Sequences, SequencesExt

CONSTANTS Conns,      \* stored connections
          Prod,       \* those whose environment is prod
          Named,      \* those that store a database name
          MaxTabs,    \* bound: tabs ever opened
          MaxQueries, \* bound: statements ever sent
          None

WorkspaceAssumption == /\ Prod \subseteq Conns /\ Named \subseteq Conns
                       /\ None \notin Conns
                       /\ {MaxTabs, MaxQueries} \subseteq Nat

VARIABLES
  known,      \* the connections are loaded: the deep link and the picker have them
  tabs,       \* the open tabs, left to right
  tabSeq,     \* tabs opened so far
  activeId,   \* the id of the tab shown, 0 for none
  deepLinked, \* autoRanRef
  gate,       \* prodGate, or NoGate
  typed,      \* prodTyped is the name the gate asks for
  flying,     \* statements not answered yet
  sent,       \* statements sent so far
  generating, \* ids of tabs whose generated text has not come yet
  redis       \* redisConn is set: the tabs are behind the Redis view

vars == <<known, tabs, tabSeq, activeId, deepLinked, gate, typed, flying, sent,
          generating, redis>>

Texts  == {"", "read", "drop"}
NoGate == [tab |-> 0, sql |-> "", conn |-> None]
NoResult == [conn |-> None, sql |-> ""]

TypeOK ==
  /\ {known, deepLinked, typed, redis} \subseteq BOOLEAN
  /\ tabSeq \in 0 .. MaxTabs /\ sent \in 0 .. MaxQueries
  /\ activeId \in IF tabs = << >> THEN {0} ELSE {t.id : t \in Range(tabs)}
  /\ \A t \in Range(tabs) :
       /\ t.id \in 1 .. tabSeq /\ t.sql \in Texts
       /\ t.conn \in Conns \cup {None}
       /\ t.result = NoResult \/ t.result \in [conn : Conns, sql : Texts]
       /\ {t.prod, t.failed, t.running} \subseteq BOOLEAN
  /\ gate.tab \in 0 .. tabSeq
  /\ generating \subseteq 1 .. tabSeq

-----------------------------------------------------------------------------
(* Tabs.                                                                     *)

Ids      == {t.id : t \in Range(tabs)}
TabOf(i) == CHOOSE t \in Range(tabs) : t.id = i

\* patchTab: a tab that was closed is not patched.
Patched(i, New(_)) == [k \in DOMAIN tabs |-> IF tabs[k].id = i THEN New(tabs[k]) ELSE tabs[k]]
PatchTab(i, New(_)) == tabs' = Patched(i, New)

\* What a tab copies from the connection it is opened on.
TabFor(c, sql) ==
  [id |-> tabSeq + 1, conn |-> c, prod |-> c \in Prod, sql |-> sql,
   result |-> NoResult, failed |-> FALSE, running |-> FALSE]

AddTab(t) ==
  /\ tabSeq < MaxTabs
  /\ tabs' = Append(tabs, t)
  /\ tabSeq' = tabSeq + 1
  /\ activeId' = t.id
  /\ redis' = FALSE

Query(t, sql, how) ==
  [n |-> sent + 1, tab |-> t.id, conn |-> t.conn, sql |-> sql, how |-> how,
   typedFor |-> IF how = "typed" THEN gate.conn ELSE None]

Send(t, sql, how) ==
  /\ sent < MaxQueries
  /\ sent' = sent + 1
  /\ flying' = flying \cup {Query(t, sql, how)}

\* execute: the tab starts running and loses its result.
Started(t) == [t EXCEPT !.running = TRUE, !.failed = FALSE, !.result = NoResult]

\* The statements analyzeDanger flags.
dangerous(sql) == sql = "drop"

-----------------------------------------------------------------------------
(* runTab on a tab as the ref shows it: the typed gate for a destructive      *)
(* statement on a production tab; a yes or no for any other statement there   *)
(* and for a destructive one elsewhere; else nothing is asked.               *)

Gated(t, sql) == t.prod /\ dangerous(sql)
Asked(t, sql) == t.prod # dangerous(sql)

OpenGate(t, sql) ==
  /\ Gated(t, sql)
  /\ gate' = [tab |-> t.id, sql |-> sql, conn |-> t.conn]
  /\ typed' = FALSE
  /\ UNCHANGED <<flying, sent>>

Refuse(t, sql) == Asked(t, sql) /\ UNCHANGED <<gate, typed, flying, sent>>

Pass(t, sql) ==
  /\ ~Gated(t, sql)
  /\ Send(t, sql, IF Asked(t, sql) THEN "agreed" ELSE "unasked")
  /\ UNCHANGED <<gate, typed>>

RunTab(t, sql) ==
  /\ t.conn # None /\ sql # ""
  /\ \/ (OpenGate(t, sql) \/ Refuse(t, sql)) /\ UNCHANGED tabs
     \/ Pass(t, sql) /\ PatchTab(t.id, Started)
  /\ UNCHANGED <<known, tabSeq, activeId, deepLinked, generating, redis>>

\* The Run button, and Ctrl+Enter in the editor, which no running statement
\* stops. A selection may be any part of the page's text.
Run(sql) ==
  /\ activeId # 0 /\ ~redis
  /\ sql \in Texts
  /\ RunTab(TabOf(activeId), sql)

\* The gate's Execute button: the tab is looked up again.
Execute ==
  /\ gate # NoGate /\ typed
  /\ gate' = NoGate
  /\ IF gate.tab \in Ids
       THEN Send(TabOf(gate.tab), gate.sql, "typed") /\ PatchTab(gate.tab, Started)
       ELSE UNCHANGED <<tabs, flying, sent>>
  /\ UNCHANGED <<known, tabSeq, activeId, deepLinked, typed, generating, redis>>

\* A connection without a database name asks for a name nobody can type.
TypeName ==
  /\ gate # NoGate /\ ~typed
  /\ gate.conn \in Named
  /\ typed' = TRUE
  /\ UNCHANGED <<known, tabs, tabSeq, activeId, deepLinked, gate, flying, sent, generating, redis>>

CancelGate ==
  /\ gate # NoGate
  /\ gate' = NoGate
  /\ UNCHANGED <<known, tabs, tabSeq, activeId, deepLinked, typed, flying, sent, generating, redis>>

\* The grid's button, offered under a result that has columns: the tab's
\* text as it is now goes to the server, past runTab; the result stays.
FetchAll ==
  /\ activeId # 0 /\ ~redis
  /\ LET t == TabOf(activeId) IN
       /\ t.result.sql = "read" /\ ~t.failed /\ ~t.running /\ t.sql # ""
       /\ Send(t, t.sql, "fetch all")
       /\ PatchTab(t.id, LAMBDA u : [u EXCEPT !.running = TRUE])
  /\ UNCHANGED <<known, tabSeq, activeId, deepLinked, gate, typed, generating, redis>>

\* An answer. A statement that ran replaces the text of the tab by what ran.
Answered(q) ==
  /\ flying' = flying \ {q}
  /\ PatchTab(q.tab, LAMBDA t : [t EXCEPT !.running = FALSE, !.failed = FALSE,
                                          !.result = [conn |-> q.conn, sql |-> q.sql],
                                          !.sql = IF q.how = "fetch all" THEN @ ELSE q.sql])
  /\ UNCHANGED <<known, tabSeq, activeId, deepLinked, gate, typed, sent, generating, redis>>

\* An error takes the result away, unless it was "Fetch all".
Failed(q) ==
  /\ flying' = flying \ {q}
  /\ PatchTab(q.tab, LAMBDA t : [t EXCEPT !.running = FALSE, !.failed = TRUE,
                                          !.result = IF q.how = "fetch all" THEN @ ELSE NoResult])
  /\ UNCHANGED <<known, tabSeq, activeId, deepLinked, gate, typed, sent, generating, redis>>

-----------------------------------------------------------------------------
(* Where tabs come from.                                                     *)

ConnectionsLoaded ==
  /\ ~known
  /\ known' = TRUE
  /\ UNCHANGED <<tabs, tabSeq, activeId, deepLinked, gate, typed, flying, sent, generating, redis>>

Open(t) ==
  /\ AddTab(t)
  /\ UNCHANGED <<known, deepLinked, gate, typed, flying, sent>>

\* The navigator knows the connections itself; a blank tab has none.
OpenEditor == \E c \in Conns : Open(TabFor(c, "")) /\ UNCHANGED generating
OpenBlank  == ~redis /\ Open(TabFor(None, "")) /\ UNCHANGED generating

\* An entry may name a connection that is gone, or not loaded.
PickHistory ==
  /\ ~redis
  /\ \E c \in (IF known THEN Conns ELSE {}) \cup {None}, sql \in Texts \ {""} :
       Open(TabFor(c, sql))
  /\ UNCHANGED generating

\* Mutant: a file's tab takes the connection but not its environment.
FileTabUnmarked(t, sql) == [TabFor(t.conn, sql) EXCEPT !.prod = FALSE]

\* A file goes into a tab on the connection of the one in front.
FileTab(t, sql) == [TabFor(t.conn, sql) EXCEPT !.prod = t.prod]

OpenFile(sql) ==
  /\ ~redis
  /\ \/ activeId = 0 /\ Open(TabFor(None, sql))
     \/ /\ activeId # 0 /\ TabOf(activeId).sql # ""
        /\ Open(FileTab(TabOf(activeId), sql))
     \/ /\ activeId # 0 /\ TabOf(activeId).sql = ""
        /\ PatchTab(activeId, LAMBDA t : [t EXCEPT !.sql = sql])
        /\ UNCHANGED <<known, tabSeq, activeId, deepLinked, gate, typed, flying, sent, redis>>
  /\ UNCHANGED generating

\* onViewData: the tab is added and run in one go; addTab has put it in the
\* ref, so runTab finds it. The statement is a read, production asks.
ViewData(c) ==
  LET t == TabFor(c, "read") IN
  /\ tabSeq < MaxTabs
  /\ \/ Refuse(t, t.sql) /\ tabs' = Append(tabs, t)
     \/ Pass(t, t.sql) /\ tabs' = Append(tabs, Started(t))
  /\ tabSeq' = tabSeq + 1 /\ activeId' = t.id /\ redis' = FALSE
  /\ UNCHANGED <<known, generating>>

View == \E c \in Conns : ViewData(c) /\ UNCHANGED deepLinked

\* The link is followed once, when the list is there; it may name nothing.
DeepLink ==
  /\ known /\ ~deepLinked
  /\ deepLinked' = TRUE
  /\ \/ UNCHANGED <<known, tabs, tabSeq, activeId, gate, typed, flying, sent, generating, redis>>
     \/ \E c \in Conns : ViewData(c)

\* onGenerate: the tab shows a comment until the text comes, and then the
\* text, whatever was typed or run in between.
Generate(c) ==
  /\ Open(TabFor(c, "read"))
  /\ generating' = generating \cup {tabSeq + 1}

Generated(i) ==
  /\ generating' = generating \ {i}
  /\ PatchTab(i, LAMBDA t : [t EXCEPT !.sql = "read"])
  /\ UNCHANGED <<known, tabSeq, activeId, deepLinked, gate, typed, flying, sent, redis>>

-----------------------------------------------------------------------------
(* What else the page does with its tabs.                                    *)

TabsOnly == UNCHANGED <<known, tabSeq, deepLinked, gate, typed, flying, sent, generating, redis>>

Edit(sql) ==
  /\ activeId # 0 /\ ~redis
  /\ PatchTab(activeId, LAMBDA t : [t EXCEPT !.sql = sql])
  /\ TabsOnly /\ UNCHANGED activeId

\* Mutant: a connection can be picked until there is a result.
NeedsConnectionNoResult(t) == t.result = NoResult

\* The picker is there in place of the connection's name.
NeedsConnection(t) == t.conn = None

PickConnection(c) ==
  /\ known /\ activeId # 0 /\ ~redis
  /\ NeedsConnection(TabOf(activeId))
  /\ PatchTab(activeId, LAMBDA t : [t EXCEPT !.conn = c, !.prod = c \in Prod])
  /\ TabsOnly /\ UNCHANGED activeId

Select(i) ==
  /\ ~redis
  /\ activeId' = i
  /\ TabsOnly /\ UNCHANGED tabs

\* Mutant: only the neighbour that takes the place is looked for.
AfterClosingNext(next, k) == IF k <= Len(next) THEN next[k].id ELSE 0

\* The neighbour that takes the place of the k-th tab, else the one before.
AfterClosing(next, k) ==
  CASE next = << >>                   -> 0
    [] k <= Len(next)                 -> next[k].id
    [] next # << >> /\ k > Len(next)  -> next[k - 1].id

\* closeTab: only if the tab is the one shown does another come to the front.
CloseTab(i) ==
  LET k    == CHOOSE j \in DOMAIN tabs : tabs[j].id = i
      next == RemoveAt(tabs, k)
  IN /\ ~redis
     /\ tabs' = next
     /\ activeId' = IF i = activeId THEN AfterClosing(next, k) ELSE activeId
     /\ TabsOnly

\* keepTabs, from the menu of a tab, which the click has put in front: the
\* others, those to its right or those to its left are closed.
KeepTabs(i) ==
  LET k == CHOOSE j \in DOMAIN tabs : tabs[j].id = i IN
  /\ ~redis
  /\ activeId' = i
  /\ tabs' \in {<<tabs[k]>>, SubSeq(tabs, 1, k), SubSeq(tabs, k, Len(tabs))}
  /\ TabsOnly

CloseAll ==
  /\ ~redis
  /\ tabs' = << >> /\ activeId' = 0
  /\ TabsOnly

\* The navigator opens the Redis view over the tabs; its cross closes it.
Redis ==
  /\ redis' = ~redis
  /\ UNCHANGED <<known, tabs, tabSeq, activeId, deepLinked, gate, typed, flying, sent, generating>>

-----------------------------------------------------------------------------

Init ==
  /\ known = FALSE /\ tabs = << >> /\ tabSeq = 0 /\ activeId = 0
  /\ deepLinked = FALSE /\ gate = NoGate /\ typed = FALSE
  /\ flying = {} /\ sent = 0 /\ generating = {} /\ redis = FALSE

(* The parts of the page.                                                    *)

Navigator == OpenEditor \/ View \/ Redis \/ \E c \in Conns : Generate(c)
TabBar    == OpenBlank \/ \E i \in Ids : Select(i) \/ CloseTab(i)
TabMenu   == CloseAll \/ \E i \in Ids : CloseTab(i) \/ KeepTabs(i)

\* The toolbar formats the text as well, which is an edit.
Toolbar == \/ \E sql \in Texts : Run(sql) \/ OpenFile(sql) \/ Edit(sql)
           \/ \E c \in Conns : PickConnection(c)

Editor       == \E sql \in Texts : Edit(sql) \/ Run(sql)
ResultGrid   == FetchAll
HistoryPanel == PickHistory
ProdGate     == Execute \/ TypeName \/ CancelGate

Answers == \/ ConnectionsLoaded \/ DeepLink
           \/ \E q \in flying : Answered(q) \/ Failed(q)
           \/ \E i \in generating : Generated(i)

Next == Navigator \/ TabBar \/ TabMenu \/ Toolbar \/ Editor \/ ResultGrid \/ HistoryPanel
        \/ ProdGate \/ Answers

Spec == Init /\ [][Next]_vars

-----------------------------------------------------------------------------

\* A destructive statement that went through runTab and runs on a production
\* connection was typed for, and for that very connection: the tab's label,
\* copied along every way a tab opens, is never behind its connection, and
\* the gate's tab is not re-pointed while the name is being typed.
TypedForWhatRuns ==
  \A q \in flying :
    q.how # "fetch all" /\ q.conn \in Prod /\ dangerous(q.sql) => q.typedFor = q.conn

\* The result in a tab came from the connection the tab names, whatever was
\* picked, run again or closed while the statement was under way.
ResultIsOfItsConnection ==
  \A t \in Range(tabs) : t.result # NoResult => t.result.conn = t.conn

\* A tab that says it is running has a statement under way, so the Run
\* button it disables comes back.
RunningHasAQuery ==
  \A t \in Range(tabs) : t.running => \E q \in flying : q.tab = t.id

\* docs/Database.md: a production connection "requires typing the database
\* name to confirm before a destructive statement".
ProdIsTypedFor ==
  \A q \in flying : q.conn \in Prod /\ dangerous(q.sql) => q.how = "typed"
=============================================================================
