----------------------------- MODULE TablesProofs -----------------------------
(***************************************************************************)
(* The groups, for any number of ids, servers and threads, and the events  *)
(* and counts of the gateway, for any handlers, sources and requests.      *)
(***************************************************************************)
EXTENDS MCTables, FoldLemmas, SequenceTheorems

-------------------------------------------------------------------------------
(* Typing. *)

LEMMA NoNameType == NoName \in Names
  BY NamesAssumption DEF NoName

LEMMA IdleType == Idle \in Request
  BY NoNameType DEF Idle, Request, Ops, Places, Null

\* TypeOK is inductive: whatever the interleaving, the tables keep their shape and no
\* id without a row keeps a parent.
THEOREM TypeCorrect == Spec => []TypeOK
<1>1. Init => TypeOK
  BY NoNameType, IdleType DEF Init, TypeOK, Places, Ids, Null, Idle
<1>2. TypeOK /\ [Next]_vars => TypeOK'
  <2> SUFFICES ASSUME TypeOK, [Next]_vars PROVE TypeOK'
    OBVIOUS
  <2> USE NoNameType, IdleType
  <2>1. ASSUME NEW w \in Workers, NEW r \in Request, Accept(w, r),
               r.op \in {"update", "delete"} => r.id \in Ids
        PROVE TypeOK'
    BY <2>1 DEF TypeOK, Accept, tables
  <2>2. ASSUME NEW w \in Workers, RollBack(w)
        PROVE TypeOK'
    BY <2>2 DEF TypeOK, RollBack, Done, tables, Idle
  <2>3. ASSUME NEW w \in Workers, NEW n \in Names, NEW p \in Places, BeginCreate(w, n, p)
        PROVE TypeOK'
    <3>1. [Idle EXCEPT !.op = "create", !.name = n, !.parent = p] \in Request
      BY DEF Idle, Request, Ops
    <3> QED BY <2>1, <2>3, <3>1 DEF BeginCreate, Idle
  <2>4. ASSUME NEW w \in Workers, NEW n \in Names, BeginImport(w, n)
        PROVE TypeOK'
    <3>1. [Idle EXCEPT !.op = "create", !.name = n, !.parent = Null] \in Request
      BY DEF Idle, Request, Ops, Places
    <3> QED BY <2>1, <2>4, <3>1 DEF BeginImport, Idle
  <2>5. ASSUME NEW w \in Workers, NEW f \in Ids, NEW n \in Names, NEW p \in Places,
               BeginUpdate(w, f, n, p)
        PROVE TypeOK'
    <3>1. [Idle EXCEPT !.op = "update", !.id = f, !.name = n, !.parent = p,
                       !.oldName = name[f], !.oldParent = parent[f]] \in Request
      BY DEF Idle, Request, Ops, Places, TypeOK
    <3> QED BY <2>1, <2>5, <3>1 DEF BeginUpdate, Idle
  <2>6. ASSUME NEW w \in Workers, NEW f \in Ids, BeginDelete(w, f)
        PROVE TypeOK'
    <3>1. [Idle EXCEPT !.op = "delete", !.id = f, !.oldParent = parent[f]] \in Request
      BY DEF Idle, Request, Ops, Places, TypeOK
    <3> QED BY <2>1, <2>6, <3>1 DEF BeginDelete, Idle
  <2>7. ASSUME NEW w \in Workers, NEW s \in Servers, NEW p \in Places, BeginAssign(w, s, p)
        PROVE TypeOK'
    <3>1. [Idle EXCEPT !.op = "assign", !.srv = s, !.parent = p,
                       !.oldParent = srvFolder[s]] \in Request
      BY DEF Idle, Request, Ops, Places, TypeOK
    <3> QED BY <2>1, <2>7, <3>1 DEF BeginAssign, Idle
  <2>8. ASSUME NEW w \in Workers, CommitCreate(w)
        PROVE TypeOK'
    BY <2>8, <2>2 DEF TypeOK, CommitCreate, Done, Request, Places, Idle
  <2>9. ASSUME NEW w \in Workers, CommitUpdate(w)
        PROVE TypeOK'
    <3>1. CASE UpdateHolds(req[w])
      BY <2>9, <3>1
         DEF TypeOK, CommitUpdate, Done, RollBack, Request, Places, UpdateHolds, Moves, Idle
    <3> QED BY <2>9, <2>2, <3>1 DEF CommitUpdate
  <2>10. ASSUME NEW w \in Workers, CommitDelete(w)
         PROVE TypeOK'
    <3>1. CASE DeleteHolds(req[w])
      <4>1. req[w] \in Request
        BY DEF TypeOK
      <4>2. /\ parent' = [g \in Ids |-> IF g = req[w].id THEN Null
                                        ELSE IF parent[g] = req[w].id THEN Reparent(req[w])
                                        ELSE parent[g]]
            /\ folders' = folders \ {req[w].id}
            /\ srvFolder' = [s \in Servers |-> IF srvFolder[s] = req[w].id THEN Null
                                               ELSE srvFolder[s]]
            /\ name' = [name EXCEPT ![req[w].id] = NoName]
            /\ req' = [req EXCEPT ![w] = Idle]
            /\ req[w].op = "delete"
        BY <2>10, <3>1 DEF CommitDelete, Done, RollBack
      <4>3. \A f \in Ids \ folders' : parent'[f] = Null
        BY <4>1, <4>2 DEF TypeOK, Request, Places, Reparent, Null, Ids
      <4> QED BY <4>1, <4>2, <4>3 DEF TypeOK, Request, Places, Reparent, Idle
    <3> QED BY <2>10, <2>2, <3>1 DEF CommitDelete
  <2>11. ASSUME NEW w \in Workers, CommitAssign(w)
         PROVE TypeOK'
    BY <2>11, <2>2 DEF TypeOK, CommitAssign, Done, Request, Places, Idle
  <2>12. CASE UNCHANGED vars
    BY <2>12 DEF TypeOK, vars
  <2> QED
    BY <2>3, <2>4, <2>5, <2>6, <2>7, <2>8, <2>9, <2>10, <2>11, <2>12
       DEF Next, Begin, Commit
<1> QED BY <1>1, <1>2, PTL DEF Spec
-------------------------------------------------------------------------------
(* What each accepted commit does to the parent column. *)

LEMMA CreateEffect ==
  ASSUME TypeOK, NEW w \in Workers, CommitCreate(w), FkHolds(req[w].parent)
  PROVE  \E f \in Ids :
           /\ f \notin folders
           /\ folders' = folders \cup {f}
           /\ parent' = [parent EXCEPT ![f] = req[w].parent]
<1>1. \A f \in Ids : NextRowId(f) => f \notin folders
  BY DEF NextRowId, TypeOK, Ids
<1> QED BY <1>1 DEF CommitCreate

LEMMA DeleteEffect ==
  ASSUME TypeOK, NEW w \in Workers, CommitDelete(w), DeleteHolds(req[w])
  PROVE  /\ req[w].id \in Ids
         /\ folders' = folders \ {req[w].id}
         /\ \A g \in folders' :
              parent'[g] = IF parent[g] = req[w].id THEN req[w].oldParent ELSE parent[g]
         /\ \A s \in Servers :
              srvFolder'[s] = IF srvFolder[s] = req[w].id THEN Null ELSE srvFolder[s]
  BY DEF CommitDelete, TypeOK, RollBack, Done, Reparent

\* Requests only change the tables when they commit.
LEMMA StepCases ==
  ASSUME TypeOK, [Next]_vars
  PROVE  \/ UNCHANGED tables
         \/ \E w \in Workers :
              \/ CommitCreate(w) /\ FkHolds(req[w].parent)
              \/ CommitUpdate(w) /\ UpdateHolds(req[w])
              \/ CommitDelete(w) /\ DeleteHolds(req[w])
              \/ CommitAssign(w) /\ (Moves(req[w]) => FkHolds(req[w].parent))
<1>1. CASE UNCHANGED vars
  BY <1>1 DEF vars, tables
<1>2. ASSUME NEW w \in Workers, Begin(w)
      PROVE UNCHANGED tables
  BY <1>2 DEF Begin, BeginCreate, BeginImport, BeginUpdate, BeginDelete, BeginAssign, Accept
<1>3. ASSUME NEW w \in Workers, Commit(w), ~ UNCHANGED tables
      PROVE \/ CommitCreate(w) /\ FkHolds(req[w].parent)
            \/ CommitUpdate(w) /\ UpdateHolds(req[w])
            \/ CommitDelete(w) /\ DeleteHolds(req[w])
            \/ CommitAssign(w) /\ (Moves(req[w]) => FkHolds(req[w].parent))
  <2>1. CASE CommitCreate(w)
    BY <1>3, <2>1 DEF CommitCreate, RollBack
  <2>2. CASE CommitUpdate(w)
    BY <1>3, <2>2 DEF CommitUpdate, RollBack
  <2>3. CASE CommitDelete(w)
    BY <1>3, <2>3 DEF CommitDelete, RollBack
  <2>4. CASE CommitAssign(w)
    BY <1>3, <2>4 DEF CommitAssign, RollBack
  <2> QED BY <1>3, <2>1, <2>2, <2>3, <2>4 DEF Commit
<1> QED BY <1>1, <1>2, <1>3 DEF Next

-------------------------------------------------------------------------------
\* References never dangle, for any number of threads: every commit that writes a
\* reference checks it (FkHolds) against the rows it writes it next to, and the
\* delete leaves no reference to the row it removes.
THEOREM ReferencesHold == Spec => []RefIntegrity
<1>1. Init => RefIntegrity
  BY DEF Init, RefIntegrity
<1>2. TypeOK /\ RefIntegrity /\ [Next]_vars => RefIntegrity'
  <2> SUFFICES ASSUME TypeOK, RefIntegrity, [Next]_vars PROVE RefIntegrity'
    OBVIOUS
  <2>1. CASE UNCHANGED tables
    BY <2>1 DEF RefIntegrity, tables
  <2>2. ASSUME NEW w \in Workers, CommitCreate(w), FkHolds(req[w].parent)
        PROVE RefIntegrity'
    <3>1. PICK f \in Ids : /\ f \notin folders
                           /\ folders' = folders \cup {f}
                           /\ parent' = [parent EXCEPT ![f] = req[w].parent]
      BY <2>2, CreateEffect
    <3>2. srvFolder' = srvFolder
      BY <2>2 DEF CommitCreate, RollBack, tables
    <3> QED BY <2>2, <3>1, <3>2 DEF RefIntegrity, FkHolds, TypeOK
  <2>3. ASSUME NEW w \in Workers, CommitUpdate(w), UpdateHolds(req[w])
        PROVE RefIntegrity'
    BY <2>3 DEF CommitUpdate, UpdateHolds, Moves, FkHolds, RefIntegrity, TypeOK
  <2>4. ASSUME NEW w \in Workers, CommitDelete(w), DeleteHolds(req[w])
        PROVE RefIntegrity'
    <3> DEFINE r == req[w]
    <3>1. /\ r.id \in Ids
          /\ folders' = folders \ {r.id}
          /\ \A g \in folders' :
               parent'[g] = IF parent[g] = r.id THEN r.oldParent ELSE parent[g]
          /\ \A s \in Servers :
               srvFolder'[s] = IF srvFolder[s] = r.id THEN Null ELSE srvFolder[s]
      BY <2>4, DeleteEffect
    <3>2. ASSUME NEW g \in folders' PROVE parent'[g] \in folders' \cup {Null}
      <4>1. CASE parent[g] = r.id
        <5>1. g \in Children(r.id) /\ g # r.id
          BY <3>1, <4>1 DEF Children
        <5> QED BY <2>4, <3>1, <4>1, <5>1 DEF DeleteHolds, FkHolds, Reparent
      <4>2. CASE parent[g] # r.id
        BY <3>1, <4>2 DEF RefIntegrity
      <4> QED BY <4>1, <4>2
    <3>3. ASSUME NEW s \in Servers PROVE srvFolder'[s] \in folders' \cup {Null}
      BY <3>1 DEF RefIntegrity
    <3> QED BY <3>2, <3>3 DEF RefIntegrity
  <2>5. ASSUME NEW w \in Workers, CommitAssign(w), Moves(req[w]) => FkHolds(req[w].parent)
        PROVE RefIntegrity'
    BY <2>5 DEF CommitAssign, FkHolds, RefIntegrity, TypeOK, RollBack, tables
  <2> QED BY <2>1, <2>2, <2>3, <2>4, <2>5, StepCases
<1> QED BY <1>1, <1>2, TypeCorrect, PTL DEF Spec

-------------------------------------------------------------------------------
(* The forest, when one thread serves the requests. *)

\* The request in flight has been checked against the tables as they still are.
Fresh ==
  \A w \in Workers :
    /\ req[w].op = "update" =>
         /\ req[w].id \in folders
         /\ req[w].oldParent = parent[req[w].id]
         /\ req[w].parent \in MoveTargets(req[w].id)
    /\ req[w].op = "delete" =>
         /\ req[w].id \in folders
         /\ req[w].oldParent = parent[req[w].id]

\* Walking down from f leaves out nothing that hangs from f or from what it met.
LEMMA DescendantsClosed ==
  ASSUME NEW f, NEW g \in folders, parent[g] = f \/ parent[g] \in Descendants(f)
  PROVE  g \in Descendants(f)
  BY DEF Descendants, ClosedBelow

\* Hanging f below a group outside its own sub-tree keeps the forest: a cycle of the
\* new tree would, without f and what is below it, be one of the old tree.
LEMMA MoveKeepsForest ==
  ASSUME TypeOK, Acyclic, NEW f \in folders,
         NEW p \in MoveTargets(f), p # parent[f],
         folders' = folders, parent' = [parent EXCEPT ![f] = p]
  PROVE  Acyclic'
<1> SUFFICES ASSUME NEW S \in SUBSET folders, S # {}, \A g \in S : parent'[g] \in S
             PROVE FALSE
  BY DEF Acyclic
<1> DEFINE T == S \ ({f} \cup Descendants(f))
<1>1. f \in S
  <2> SUFFICES ASSUME f \notin S PROVE FALSE
    OBVIOUS
  <2>1. \A g \in S : parent[g] \in S
    BY DEF TypeOK
  <2> QED BY <2>1 DEF Acyclic
<1>2. p \in S
  BY <1>1 DEF TypeOK
<1>3. p \in T
  BY <1>2 DEF MoveTargets, TypeOK, Null, Ids
<1>4. ASSUME NEW g \in T PROVE parent[g] \in T
  <2>1. parent[g] \in S
    BY <1>4 DEF TypeOK
  <2>2. parent[g] # f /\ parent[g] \notin Descendants(f)
    BY <1>4, DescendantsClosed
  <2> QED BY <2>1, <2>2
<1> QED BY <1>3, <1>4 DEF Acyclic

\* Dissolving f into its parent keeps the forest: put f back between them.
LEMMA DissolveKeepsForest ==
  ASSUME TypeOK, Acyclic, NEW f \in folders,
         folders' = folders \ {f},
         \A g \in folders' :
           parent'[g] = IF parent[g] = f THEN parent[f] ELSE parent[g]
  PROVE  Acyclic'
<1> SUFFICES ASSUME NEW S \in SUBSET folders', S # {}, \A g \in S : parent'[g] \in S
             PROVE FALSE
  BY DEF Acyclic
<1>1. CASE \E g \in S : parent[g] = f
  <2>1. parent[f] \in S
    BY <1>1
  <2>2. \A g \in S \cup {f} : parent[g] \in S \cup {f}
    BY <2>1
  <2> QED BY <2>2 DEF Acyclic
<1>2. CASE \A g \in S : parent[g] # f
  BY <1>2 DEF Acyclic
<1> QED BY <1>1, <1>2

LEMMA CreateKeepsForest ==
  ASSUME TypeOK, RefIntegrity, Acyclic, NEW f \in Ids \ folders, NEW p, FkHolds(p),
         folders' = folders \cup {f}, parent' = [parent EXCEPT ![f] = p]
  PROVE  Acyclic'
<1> SUFFICES ASSUME NEW S \in SUBSET folders', S # {}, \A g \in S : parent'[g] \in S
             PROVE FALSE
  BY DEF Acyclic
<1> DEFINE T == S \ {f}
<1>1. \A g \in T : g \in folders /\ parent'[g] = parent[g]
  BY DEF TypeOK
<1>2. \A g \in T : parent[g] \in T
  BY <1>1 DEF RefIntegrity, Null, Ids
<1>3. T # {}
  <2>1. CASE f \notin S
    BY <2>1
  <2>2. CASE f \in S
    BY <2>2 DEF TypeOK, FkHolds, Null, Ids
  <2> QED BY <2>1, <2>2
<1> QED BY <1>1, <1>2, <1>3 DEF Acyclic

\* The tree never forms a cycle as long as no two requests are in flight at once.
THEOREM SerialAcyclic ==
  ASSUME NEW thread, Workers = {thread}
  PROVE  Spec => []Acyclic
<1> DEFINE IInv == Fresh /\ Acyclic
<1>1. Init => IInv
  BY DEF Init, Fresh, Acyclic, Idle
<1>2. TypeOK /\ RefIntegrity /\ IInv /\ [Next]_vars => IInv'
  <2> SUFFICES ASSUME TypeOK, RefIntegrity, Fresh, Acyclic, [Next]_vars
               PROVE Fresh' /\ Acyclic'
    OBVIOUS
  <2>1. Fresh'
    <3>1. CASE UNCHANGED vars
      BY <3>1 DEF vars, Fresh, MoveTargets, Descendants, ClosedBelow
    <3>2. ASSUME NEW w \in Workers, NEW r, Accept(w, r),
                 r.op \in {"create", "assign"}
          PROVE Fresh'
      BY <3>2 DEF Accept, Fresh, TypeOK
    <3>3. ASSUME NEW w \in Workers, NEW f \in Ids, NEW n \in Names, NEW p \in Places,
                 BeginUpdate(w, f, n, p)
          PROVE Fresh'
      <4>1. /\ req'[thread].op = "update" /\ req'[thread].id = f
            /\ req'[thread].oldParent = parent[f] /\ req'[thread].parent = p
        BY <3>3 DEF BeginUpdate, Accept, Idle, TypeOK
      <4>2. MoveTargets(f)' = MoveTargets(f)
        BY <3>3 DEF BeginUpdate, Accept, tables, MoveTargets, Descendants, ClosedBelow
      <4> QED BY <3>3, <4>1, <4>2 DEF BeginUpdate, Accept, tables, Fresh
    <3>4. ASSUME NEW w \in Workers, NEW f \in Ids, BeginDelete(w, f)
          PROVE Fresh'
      BY <3>4 DEF BeginDelete, Accept, Idle, Fresh, TypeOK, tables
    <3>5. ASSUME NEW w \in Workers, Done(w)
          PROVE Fresh'
      BY <3>5 DEF Done, Idle, Fresh, TypeOK
    <3>6. ASSUME NEW w \in Workers, Begin(w) PROVE Fresh'
      BY <3>6, <3>2, <3>3, <3>4 DEF Begin, BeginCreate, BeginImport, BeginAssign, Idle
    <3>7. ASSUME NEW w \in Workers, Commit(w) PROVE Fresh'
      BY <3>7, <3>5
         DEF Commit, CommitCreate, CommitUpdate, CommitDelete, CommitAssign, RollBack
    <3> QED BY <3>1, <3>6, <3>7 DEF Next
  <2>2. Acyclic'
    <3>1. CASE UNCHANGED tables
      BY <3>1 DEF Acyclic, tables
    <3>2. ASSUME NEW w \in Workers, CommitCreate(w), FkHolds(req[w].parent)
          PROVE Acyclic'
      BY <3>2, CreateEffect, CreateKeepsForest
    <3>3. ASSUME NEW w \in Workers, CommitUpdate(w), UpdateHolds(req[w])
          PROVE Acyclic'
      <4> DEFINE r == req[w]
      <4>1. r.op = "update" /\ r.id \in folders /\ r.oldParent = parent[r.id]
              /\ r.parent \in MoveTargets(r.id)
        BY <3>3 DEF CommitUpdate, Fresh
      <4>2. CASE Moves(r)
        BY <3>3, <4>1, <4>2, MoveKeepsForest DEF CommitUpdate, Moves, RollBack, tables
      <4>3. CASE ~ Moves(r)
        BY <3>3, <4>3 DEF CommitUpdate, RollBack, tables, Acyclic
      <4> QED BY <4>2, <4>3
    <3>4. ASSUME NEW w \in Workers, CommitDelete(w), DeleteHolds(req[w])
          PROVE Acyclic'
      <4>1. req[w].id \in folders /\ req[w].oldParent = parent[req[w].id]
        BY <3>4 DEF CommitDelete, Fresh
      <4> QED BY <3>4, <4>1, DeleteEffect, DissolveKeepsForest
    <3>5. ASSUME NEW w \in Workers, CommitAssign(w) PROVE Acyclic'
      BY <3>5 DEF CommitAssign, RollBack, tables, Acyclic
    <3> QED BY <3>1, <3>2, <3>3, <3>4, <3>5, StepCases
  <2> QED BY <2>1, <2>2
<1> QED BY <1>1, <1>2, TypeCorrect, ReferencesHold, PTL DEF Spec

-------------------------------------------------------------------------------
(* Sets and sums. *)

\* The greatest number of a bounded set.
LEMMA MaxIsGreatest ==
  ASSUME NEW S \in SUBSET Nat, S # {}, NEW m \in Nat, \A y \in S : y <= m
  PROVE  /\ Gateway!Max(S) \in S
         /\ \A y \in S : y <= Gateway!Max(S)
<1>1. \E x \in S : \A y \in S : x >= y
  BY GreatestExists
<1> QED BY <1>1 DEF Gateway!Max

\* The sums of the counts are sums (Functions).
LEMMA SumsAreTotals == \A f, S : Gateway!SumFunctionOnSet(f, S) = Total(f, S)
  BY DEF Gateway!SumFunctionOnSet, Gateway!FoldFunctionOnSet, Gateway!MapThenFoldSet, Total

-------------------------------------------------------------------------------
(* The gateway's tables. *)

LEMMA GatewaySets ==
  /\ \A S : Gateway!Cardinality(S) = Cardinality(S)
  /\ EventTicks \in Nat /\ RollupTicks \in Nat /\ PerMinute \in Nat
  BY TablesAssumption DEF Gateway!Cardinality, Cardinality, Gateway!GatewayAssumption

\* What a request of the log is, and where it may be.
LogOK ==
  /\ now \in Nat /\ swept \in Nat /\ swept <= now
  /\ log \in Seq([source : Sources \cup {Malformed}, ts : Nat, throttled : BOOLEAN])
  /\ events \in Seq(Nat) /\ Len(events) = Len(log)
  /\ inserted \in Seq(Nat) /\ Len(inserted) = Len(log)
  /\ \A i \in 1..Len(log) : log[i].ts <= now
  /\ queued \subseteq 1..Len(log) /\ acked \subseteq 1..Len(log)
  /\ \A w \in Workers : handler[w].batch \subseteq 1..Len(log)
  /\ handler = [w \in Workers |-> handler[w]]

\* A row was written for some request it counts.
RowsAreOfEvents == DOMAIN rollups \subseteq Gateway!Buckets

GatewayInv == LogOK /\ AckedIsStored /\ RowsAreOfEvents /\ CountsAreExact

LEMMA LogFacts ==
  ASSUME LogOK
  PROVE  /\ Len(log) \in Nat /\ DOMAIN log = 1..Len(log) /\ Gateway!Requests = 1..Len(log)
         /\ \A i \in 1..Len(log) :
              log[i].ts \in Nat /\ log[i].throttled \in BOOLEAN
              /\ log[i].source \in Sources \cup {Malformed}
         /\ events \in [1..Len(log) -> Nat] /\ inserted \in [1..Len(log) -> Nat]
<1>1. Len(log) \in Nat /\ DOMAIN log = 1..Len(log)
      /\ log \in [1..Len(log) -> [source : Sources \cup {Malformed}, ts : Nat, throttled : BOOLEAN]]
  BY LenProperties DEF LogOK
<1>2. events \in [1..Len(log) -> Nat] /\ inserted \in [1..Len(log) -> Nat]
  BY LenProperties DEF LogOK
<1> QED BY <1>1, <1>2 DEF Gateway!Requests

\* A table of one number per request is a sequence of them.
LEMMA TableIsSeq ==
  ASSUME NEW n \in Nat, NEW f \in [1..n -> Nat]
  PROVE  f \in Seq(Nat) /\ Len(f) = n
<1>1. f \in Seq(Nat)
  BY SeqDef
<1>2. DOMAIN f = 1..Len(f) /\ Len(f) \in Nat /\ DOMAIN f = 1..n
  BY <1>1, LenProperties
<1> QED BY <1>1, <1>2

\* A request is served: the tables get a line at their end.
LEMMA ServeTables ==
  ASSUME LogOK, NEW s \in Sources \cup {Malformed}, NEW th \in BOOLEAN, Gateway!Serve(s, th)
  PROVE  /\ LogOK'
         /\ Len(log') = Len(log) + 1
         /\ \A i \in 1..Len(log) : log'[i] = log[i] /\ events'[i] = events[i] /\ inserted'[i] = inserted[i]
         /\ inserted'[Len(log) + 1] = 0
<1> DEFINE e == [source |-> s, ts |-> now, throttled |-> th]
<1>0. e \in [source : Sources \cup {Malformed}, ts : Nat, throttled : BOOLEAN] /\ e.ts = now
      /\ log' = Append(log, e)
  BY DEF LogOK, Gateway!Serve
<1> HIDE DEF e
<1>1. /\ log' \in Seq([source : Sources \cup {Malformed}, ts : Nat, throttled : BOOLEAN])
      /\ Len(log') = Len(log) + 1
      /\ \A i \in 1..Len(log) : log'[i] = log[i]
      /\ log'[Len(log) + 1] = e
  BY <1>0, AppendProperties DEF LogOK
<1>2. 0 \in Nat /\ events' = Append(events, 0) /\ inserted' = Append(inserted, 0)
  BY DEF Gateway!Serve
<1>3. events' \in Seq(Nat) /\ Len(events') = Len(log) + 1
      /\ \A i \in 1..Len(log) : events'[i] = events[i]
  BY <1>2, AppendProperties DEF LogOK
<1>4. /\ inserted' \in Seq(Nat) /\ Len(inserted') = Len(log) + 1
      /\ \A i \in 1..Len(log) : inserted'[i] = inserted[i]
      /\ inserted'[Len(log) + 1] = 0
  BY <1>2, AppendProperties DEF LogOK
<1>5. Len(log) \in Nat /\ 1..Len(log) \subseteq 1..Len(log')
  BY LogFacts, <1>1
<1>6. UNCHANGED <<now, acked, handler, swept>> /\ queued' = queued \cup {Len(log) + 1}
  BY DEF Gateway!Serve
<1>7. ASSUME NEW i \in 1..Len(log') PROVE log'[i].ts <= now'
  <2>1. i \in 1..Len(log) \/ i = Len(log) + 1
    BY <1>1, <1>5
  <2> QED BY <2>1, <1>0, <1>1, <1>6 DEF LogOK
<1>8. LogOK'
  BY <1>1, <1>3, <1>4, <1>5, <1>6, <1>7 DEF LogOK
<1>9. \A i \in 1..Len(log) : log'[i] = log[i] /\ events'[i] = events[i] /\ inserted'[i] = inserted[i]
  <2> TAKE i \in 1..Len(log)
  <2> QED BY <1>1, <1>3, <1>4
<1>10. Len(log') = Len(log) + 1
  BY <1>1
<1>11. inserted'[Len(log) + 1] = 0
  BY <1>4
<1> QED BY ONLY <1>8, <1>9, <1>10, <1>11, Zenon

\* What a commit does to the events.
LEMMA StoreTables ==
  ASSUME LogOK, NEW w \in Workers, Gateway!Store(w)
  PROVE  /\ LogOK'
         /\ \A i \in 1..Len(log) :
              /\ events'[i] = events[i] + (IF i \in Gateway!Parsed(handler[w].batch) THEN 1 ELSE 0)
              /\ inserted'[i] = inserted[i] + (IF i \in Gateway!Parsed(handler[w].batch) THEN 1 ELSE 0)
         /\ acked' \subseteq acked \cup handler[w].batch
         /\ UNCHANGED <<log, now, swept>>
<1> DEFINE B == Gateway!Parsed(handler[w].batch)
<1>1. UNCHANGED <<log, now, swept>> /\ acked' \subseteq acked \cup handler[w].batch
      /\ queued' \subseteq queued \cup handler[w].batch
      /\ handler' = [handler EXCEPT ![w] = Gateway!Idle]
  BY DEF Gateway!Store, Gateway!Answer
<1>2. /\ events' = [i \in 1..Len(log) |-> events[i] + (IF i \in B THEN 1 ELSE 0)]
      /\ inserted' = [i \in 1..Len(log) |-> inserted[i] + (IF i \in B THEN 1 ELSE 0)]
  BY LogFacts DEF Gateway!Store
<1> HIDE DEF B
<1>3. events' \in [1..Len(log) -> Nat] /\ inserted' \in [1..Len(log) -> Nat]
  BY <1>2, LogFacts
<1>4. events' \in Seq(Nat) /\ Len(events') = Len(log) /\ inserted' \in Seq(Nat) /\ Len(inserted') = Len(log)
  BY <1>3, LogFacts, TableIsSeq
<1>5. handler' = [v \in Workers |-> handler'[v]]
      /\ \A v \in Workers : handler'[v].batch \subseteq 1..Len(log)
  BY <1>1 DEF LogOK, Gateway!Idle
<1>6. LogOK'
  BY <1>1, <1>4, <1>5 DEF LogOK
<1>7. \A i \in 1..Len(log) :
              /\ events'[i] = events[i] + (IF i \in B THEN 1 ELSE 0)
              /\ inserted'[i] = inserted[i] + (IF i \in B THEN 1 ELSE 0)
  BY <1>2
<1> QED BY <1>1, <1>6, <1>7 DEF B

\* Only the sweep takes events away, those that are old enough.
LEMMA SweepTables ==
  ASSUME LogOK, Gateway!Sweep
  PROVE  /\ LogOK'
         /\ \A i \in 1..Len(log) :
              events'[i] = IF log[i].ts < now - EventTicks THEN 0 ELSE events[i]
         /\ swept' = now /\ UNCHANGED <<log, now, acked, inserted, raced>>
<1>1. swept' = now /\ UNCHANGED <<now, log, acked, queued, handler, inserted, raced>>
      /\ events' = [i \in 1..Len(log) |-> IF log[i].ts < now - EventTicks THEN 0 ELSE events[i]]
  BY LogFacts DEF Gateway!Sweep, Gateway!kong
<1>2. events' \in [1..Len(log) -> Nat]
  BY <1>1, LogFacts
<1>3. events' \in Seq(Nat) /\ Len(events') = Len(log)
  BY <1>2, LogFacts, TableIsSeq
<1>4. LogOK'
  BY <1>1, <1>3 DEF LogOK
<1> QED BY <1>1, <1>4

\* The other steps leave the tables alone.
QuietStep == UNCHANGED <<log, acked, events, rollups, swept, inserted, raced>>

LEMMA QuietTables ==
  ASSUME LogOK, NEW w \in Workers,
         \/ \E B \in (SUBSET queued) \ {{}} : Gateway!Post(w, B)
         \/ Gateway!Fail(w) \/ Gateway!Tick
  PROVE  LogOK' /\ QuietStep
<1>1. CASE \E B \in (SUBSET queued) \ {{}} : Gateway!Post(w, B)
  <2>1. PICK B \in SUBSET queued : Gateway!Post(w, B)
    BY <1>1
  <2>a. PICK h : h = [batch |-> B,
                      seen |-> Gateway!Restrict(rollups, {Gateway!Bucket(i) : i \in Gateway!Parsed(B)}
                                                           \cap DOMAIN rollups)]
    OBVIOUS
  <2>2. handler' = [handler EXCEPT ![w] = h] /\ h.batch = B
    BY <2>1, <2>a DEF Gateway!Post
  <2>3. UNCHANGED <<now, log, acked, events, rollups, swept, inserted, raced>> /\ queued' \subseteq queued
    BY <2>1 DEF Gateway!Post, Gateway!tables
  <2>4. handler' = [v \in Workers |-> handler'[v]]
        /\ \A v \in Workers : handler'[v].batch \subseteq 1..Len(log)
    BY <2>1, <2>2 DEF LogOK
  <2> QED BY <2>3, <2>4 DEF LogOK, QuietStep
<1>2. CASE Gateway!Fail(w)
  <2>1. UNCHANGED <<now, log, acked, events, rollups, swept, inserted, raced>>
        /\ queued' = queued \cup handler[w].batch
        /\ handler' = [handler EXCEPT ![w] = Gateway!Idle]
    BY <1>2 DEF Gateway!Fail, Gateway!tables
  <2>2. handler' = [v \in Workers |-> handler'[v]]
        /\ \A v \in Workers : handler'[v].batch \subseteq 1..Len(log)
    BY <2>1 DEF LogOK, Gateway!Idle
  <2> QED BY <2>1, <2>2 DEF LogOK, QuietStep
<1>3. CASE Gateway!Tick
  <2>1. now' = now + 1 /\ UNCHANGED <<log, acked, queued, handler, events, rollups, swept, inserted, raced>>
    BY <1>3 DEF Gateway!Tick, Gateway!tables, Gateway!kong
  <2>2. \A i \in 1..Len(log') : log'[i].ts <= now'
    BY <2>1, LogFacts DEF LogOK
  <2> QED BY <2>1, <2>2 DEF LogOK, QuietStep
<1> QED BY <1>1, <1>2, <1>3

-------------------------------------------------------------------------------
(* What Kong was answered is stored. *)

LEMMA AckedKept ==
  ASSUME LogOK, AckedIsStored, Gateway!Next
  PROVE  LogOK' /\ AckedIsStored'
<1> USE DEF AckedIsStored, Gateway!AckedIsStored
<1>0. acked \subseteq 1..Len(log) /\ swept <= now /\ now \in Nat /\ swept \in Nat
  BY DEF LogOK
<1>1. ASSUME NEW s \in Sources \cup {Malformed}, NEW th \in BOOLEAN, Gateway!Serve(s, th)
      PROVE  LogOK' /\ AckedIsStored'
  <2>1. UNCHANGED <<acked, swept>>
    BY <1>1 DEF Gateway!Serve
  <2> QED BY <1>1, <2>1, <1>0, ServeTables
<1>2. ASSUME NEW w \in Workers, Gateway!Store(w)
      PROVE  LogOK' /\ AckedIsStored'
  <2> DEFINE B == Gateway!Parsed(handler[w].batch)
  <2>1. /\ LogOK'
        /\ \A i \in 1..Len(log) : events'[i] = events[i] + (IF i \in B THEN 1 ELSE 0)
        /\ acked' \subseteq acked \cup handler[w].batch
        /\ UNCHANGED <<log, now, swept>>
    BY <1>2, StoreTables
  <2>2. ASSUME NEW i \in acked', log'[i].source # Malformed
        PROVE  events'[i] > 0 \/ log'[i].ts < swept' - EventTicks
    <3>1. i \in 1..Len(log) /\ events[i] \in Nat
      BY <2>1, <1>0, LogFacts DEF LogOK
    <3>2. CASE i \in handler[w].batch
      <4>1. i \in B
        BY <3>2, <2>1, <2>2 DEF Gateway!Parsed
      <4> HIDE DEF B
      <4> QED BY <4>1, <3>1, <2>1
    <3>3. CASE i \in acked
      <4> HIDE DEF B
      <4> QED BY <3>3, <3>1, <2>1, <2>2
    <3> QED BY <3>2, <3>3, <2>1
  <2> QED BY <2>1, <2>2
<1>3. CASE Gateway!Sweep
  <2>1. \A i \in 1..Len(log) : log[i].ts \in Nat /\ events[i] \in Nat
    BY LogFacts
  <2>2. /\ LogOK' /\ swept' = now /\ UNCHANGED <<log, acked>>
        /\ \A i \in 1..Len(log) :
             events'[i] = IF log[i].ts < now - EventTicks THEN 0 ELSE events[i]
    BY <1>3, SweepTables
  <2>3. ASSUME NEW i \in acked, log[i].source # Malformed
        PROVE  events'[i] > 0 \/ log[i].ts < now - EventTicks
    <3>1. i \in 1..Len(log)
      BY <1>0
    <3>2. events[i] > 0 \/ log[i].ts < swept - EventTicks
      BY <2>3
    <3>3. CASE log[i].ts < now - EventTicks
      BY <3>3
    <3>4. CASE ~(log[i].ts < now - EventTicks)
      <4>1. events'[i] = events[i]
        BY <2>2, <3>1, <3>4
      <4>2. ~(log[i].ts < swept - EventTicks)
        BY <1>0, <2>1, <3>1, <3>4, GatewaySets
      <4> QED BY <4>1, <4>2, <3>2
    <3> QED BY <3>3, <3>4
  <2> QED BY <2>2, <2>3
<1>4. ASSUME LogOK', QuietStep PROVE LogOK' /\ AckedIsStored'
  BY <1>4 DEF QuietStep
<1>5. ASSUME NEW w \in Workers, \E B \in (SUBSET queued) \ {{}} : Gateway!Post(w, B)
      PROVE  LogOK' /\ AckedIsStored'
  BY <1>4, <1>5, QuietTables
<1>6. ASSUME NEW w \in Workers, Gateway!Fail(w)
      PROVE  LogOK' /\ AckedIsStored'
  BY <1>4, <1>6, QuietTables
<1>7. CASE Gateway!Tick
  <2>1. now' = now + 1 /\ UNCHANGED <<log, acked, queued, handler, events, rollups, swept, inserted, raced>>
    BY <1>7 DEF Gateway!Tick, Gateway!tables, Gateway!kong
  <2>2. \A i \in 1..Len(log') : log'[i].ts <= now'
    BY <2>1, LogFacts DEF LogOK
  <2> QED BY <1>4, <2>1, <2>2 DEF LogOK, QuietStep
<1> QED BY <1>1, <1>2, <1>3, <1>5, <1>6, <1>7 DEF Gateway!Next, Gateway!Ingest

-------------------------------------------------------------------------------
(* The counts follow the events. *)

\* The count of the requests I of the log lg, with n(i) rows of each.
TallyOf(lg, I, n) ==
  [hits |-> Total(n, I), last |-> Gateway!Max({lg[i].ts : i \in I}),
   throttled |-> Total(n, {i \in I : lg[i].throttled}),
   allowed |-> Total(n, {i \in I : ~lg[i].throttled})]

InBucket(b) == {i \in Gateway!Stored : Gateway!Bucket(i) = b}

LEMMA TallyIs ==
  /\ \A b : Gateway!Count(b) = TallyOf(log, InBucket(b), inserted)
  /\ \A B, b : Gateway!Adds(B, b)
                 = TallyOf(log, {i \in B : Gateway!Bucket(i) = b}, [i \in B |-> 1])
<1>1. \A B, n, b : Gateway!Tally(B, n, b) = TallyOf(log, {i \in B : Gateway!Bucket(i) = b}, n)
  BY SumsAreTotals DEF Gateway!Tally, TallyOf
<1> QED BY <1>1 DEF Gateway!Count, Gateway!Adds, InBucket

LEMMA TallyIsNext == \A b : Gateway!Count(b)' = TallyOf(log', InBucket(b)', inserted')
  BY SumsAreTotals DEF Gateway!Count, Gateway!Tally, TallyOf, InBucket

LEMMA BucketsAre ==
  \A b : b \in Gateway!Buckets <=> InBucket(b) # {}
  BY DEF Gateway!Buckets, InBucket

LEMMA BucketsAreNext ==
  \A b : b \in Gateway!Buckets' <=> InBucket(b)' # {}
  BY DEF Gateway!Buckets, InBucket

\* The same requests with the same rows count the same.
SameRows(I, lg, lg2, n, m) ==
  IsFiniteSet(I) /\ \A i \in I : lg2[i] = lg[i] /\ n[i] \in Int /\ m[i] = n[i]

LEMMA SameTally ==
  ASSUME NEW I, NEW lg, NEW lg2, NEW n, NEW m, SameRows(I, lg, lg2, n, m)
  PROVE  TallyOf(lg2, I, m) = TallyOf(lg, I, n)
<1>1. \A S \in SUBSET I : Total(m, S) = Total(n, S)
  <2> TAKE S \in SUBSET I
  <2>1. IsFiniteSet(S)
    BY FS_Subset DEF SameRows
  <2> QED BY <2>1, TotalIsOfValues DEF SameRows
<1>2. /\ {i \in I : lg2[i].throttled} = {i \in I : lg[i].throttled}
      /\ {i \in I : ~lg2[i].throttled} = {i \in I : ~lg[i].throttled}
      /\ {lg2[i].ts : i \in I} = {lg[i].ts : i \in I}
  BY DEF SameRows
<1>3. {i \in I : lg[i].throttled} \in SUBSET I /\ {i \in I : ~lg[i].throttled} \in SUBSET I /\ I \in SUBSET I
  OBVIOUS
<1> QED BY <1>1, <1>2, <1>3 DEF TallyOf

\* Requests J are added, one row each, to a count of I.
GrowsBy(I, J, lg, n, m, ones) ==
  /\ IsFiniteSet(I) /\ IsFiniteSet(J) /\ I # {} /\ J # {}
  /\ \A i \in I \cup J : lg[i].ts \in Nat /\ n[i] \in Int /\ m[i] = n[i] + (IF i \in J THEN 1 ELSE 0)
  /\ \A i \in J \ I : n[i] = 0
  /\ \A i \in J : ones[i] = 1
  /\ \E t \in Nat : \A i \in I \cup J : lg[i].ts <= t

LEMMA GrownPart ==
  ASSUME NEW I, NEW J, NEW lg, NEW n, NEW m, NEW ones, GrowsBy(I, J, lg, n, m, ones),
         NEW I1 \in SUBSET I, NEW J1 \in SUBSET J, I1 = {i \in I : i \in I1 \cup J1},
         J1 = {i \in J : i \in I1 \cup J1}
  PROVE  Total(m, I1 \cup J1) = Total(n, I1) + Total(ones, J1) /\ Total(n, I1) \in Int
<1>1. IsFiniteSet(I1) /\ IsFiniteSet(J1)
  BY FS_Subset DEF GrowsBy
<1>2. \A i \in I1 \cup J1 : n[i] \in Int /\ m[i] = n[i] + (IF i \in J1 THEN 1 ELSE 0)
  BY DEF GrowsBy
<1>3. \A i \in J1 \ I1 : n[i] = 0
  BY DEF GrowsBy
<1>4. \A i \in J1 : ones[i] = 1
  BY DEF GrowsBy
<1> QED BY ONLY <1>1, <1>2, <1>3, <1>4, TotalGrows

LEMMA MaxOfBoth ==
  ASSUME NEW I, NEW J, NEW lg, NEW n, NEW m, NEW ones, GrowsBy(I, J, lg, n, m, ones)
  PROVE  LET a == Gateway!Max({lg[i].ts : i \in I})
             c == Gateway!Max({lg[i].ts : i \in J})
         IN  Gateway!Max({lg[i].ts : i \in I \cup J}) = IF c > a THEN c ELSE a
<1> DEFINE P == {lg[i].ts : i \in I}
           Q == {lg[i].ts : i \in J}
           R == {lg[i].ts : i \in I \cup J}
           a == Gateway!Max(P)
           c == Gateway!Max(Q)
           d == Gateway!Max(R)
<1>1. PICK t \in Nat : \A i \in I \cup J : lg[i].ts <= t
  BY DEF GrowsBy
<1>2. /\ P \in SUBSET Nat /\ P # {} /\ \A y \in P : y <= t
      /\ Q \in SUBSET Nat /\ Q # {} /\ \A y \in Q : y <= t
      /\ R \in SUBSET Nat /\ R # {} /\ \A y \in R : y <= t
      /\ R = P \cup Q
  BY <1>1 DEF GrowsBy
<1> HIDE DEF P, Q, R
<1>3. a \in P /\ \A y \in P : y <= a
  BY <1>2, MaxIsGreatest
<1>4. c \in Q /\ \A y \in Q : y <= c
  BY <1>2, MaxIsGreatest
<1>5. d \in R /\ \A y \in R : y <= d
  BY <1>2, MaxIsGreatest
<1>6. a \in Nat /\ c \in Nat /\ d \in Nat /\ a <= d /\ c <= d /\ (d <= a \/ d <= c)
  BY <1>2, <1>3, <1>4, <1>5
<1>7. d = IF c > a THEN c ELSE a
  <2> HIDE DEF a, c, d
  <2> QED BY <1>6
<1> QED BY <1>7 DEF P, Q, R

LEMMA GrownTally ==
  ASSUME NEW I, NEW J, NEW lg, NEW n, NEW m, NEW ones, GrowsBy(I, J, lg, n, m, ones),
         NEW r, r = TallyOf(lg, I, n)
  PROVE  Gateway!Updated(r, r, TallyOf(lg, J, ones)) = TallyOf(lg, I \cup J, m)
<1> DEFINE It == {i \in I : lg[i].throttled}
           Ia == {i \in I : ~lg[i].throttled}
           Jt == {i \in J : lg[i].throttled}
           Ja == {i \in J : ~lg[i].throttled}
<1>1. Total(m, I \cup J) = Total(n, I) + Total(ones, J) /\ Total(n, I) \in Int
  <2>1. I \in SUBSET I /\ J \in SUBSET J /\ I = {i \in I : i \in I \cup J} /\ J = {i \in J : i \in I \cup J}
    OBVIOUS
  <2> QED BY <2>1, GrownPart
<1>2. /\ {i \in I \cup J : lg[i].throttled} = It \cup Jt
      /\ {i \in I \cup J : ~lg[i].throttled} = Ia \cup Ja
  OBVIOUS
<1>3. Total(m, It \cup Jt) = Total(n, It) + Total(ones, Jt) /\ Total(n, It) \in Int
  <2>1. It \in SUBSET I /\ Jt \in SUBSET J /\ It = {i \in I : i \in It \cup Jt} /\ Jt = {i \in J : i \in It \cup Jt}
    OBVIOUS
  <2> HIDE DEF It, Jt
  <2> QED BY <2>1, GrownPart
<1>4. Total(m, Ia \cup Ja) = Total(n, Ia) + Total(ones, Ja) /\ Total(n, Ia) \in Int
  <2>1. Ia \in SUBSET I /\ Ja \in SUBSET J /\ Ia = {i \in I : i \in Ia \cup Ja} /\ Ja = {i \in J : i \in Ia \cup Ja}
    OBVIOUS
  <2> HIDE DEF Ia, Ja
  <2> QED BY <2>1, GrownPart
<1> DEFINE a == Gateway!Max({lg[i].ts : i \in I})
           c == Gateway!Max({lg[i].ts : i \in J})
<1>5. Gateway!Max({lg[i].ts : i \in I \cup J}) = IF c > a THEN c ELSE a
  BY MaxOfBoth
<1>6. /\ r = [hits |-> Total(n, I), last |-> a, throttled |-> Total(n, It), allowed |-> Total(n, Ia)]
      /\ TallyOf(lg, J, ones) = [hits |-> Total(ones, J), last |-> c,
                                 throttled |-> Total(ones, Jt), allowed |-> Total(ones, Ja)]
  BY DEF TallyOf
<1>7. TallyOf(lg, I \cup J, m)
        = [hits |-> Total(n, I) + Total(ones, J), last |-> IF c > a THEN c ELSE a,
           throttled |-> Total(n, It) + Total(ones, Jt), allowed |-> Total(n, Ia) + Total(ones, Ja)]
  <2> HIDE DEF It, Ia, Jt, Ja, a, c
  <2>1. TallyOf(lg, I \cup J, m)
          = [hits |-> Total(m, I \cup J), last |-> IF c > a THEN c ELSE a,
             throttled |-> Total(m, It \cup Jt), allowed |-> Total(m, Ia \cup Ja)]
    BY <1>2, <1>5 DEF TallyOf
  <2> QED BY <2>1, <1>1, <1>3, <1>4
<1> HIDE DEF It, Ia, Jt, Ja, a, c
<1>8. /\ Total(n, It) = IF Total(ones, Jt) = 0 THEN Total(n, It) + Total(ones, Jt) ELSE Total(n, It)
      /\ Total(n, Ia) = IF Total(ones, Ja) = 0 THEN Total(n, Ia) + Total(ones, Ja) ELSE Total(n, Ia)
  BY <1>3, <1>4
<1> QED BY <1>6, <1>7, <1>8 DEF Gateway!Updated

\* Any requests of the log are finitely many.
LEMMA LogIsFinite ==
  ASSUME LogOK
  PROVE  \A I \in SUBSET (1..Len(log)) : IsFiniteSet(I)
<1>1. IsFiniteSet(1..Len(log))
  BY LogFacts, FS_Interval
<1> QED BY <1>1, FS_Subset

\* A step that leaves what is stored, and the rows of the buckets still kept, as they are.
StoredIsSame ==
  /\ Len(log) <= Len(log') /\ \A i \in 1..Len(log) : log'[i] = log[i] /\ inserted'[i] = inserted[i]
  /\ \A i \in 1..Len(log') : i \notin 1..Len(log) => inserted'[i] = 0
  /\ swept <= swept' /\ raced' = raced
  /\ DOMAIN rollups' \subseteq DOMAIN rollups
  /\ \A b \in DOMAIN rollups : b[2] * PerMinute >= swept' - RollupTicks
       => b \in DOMAIN rollups' /\ rollups'[b] = rollups[b]

LEMMA SameBuckets ==
  ASSUME LogOK, LogOK', StoredIsSame
  PROVE  /\ \A b : InBucket(b)' = InBucket(b)
         /\ \A i \in 1..Len(log) : Gateway!Bucket(i)' = Gateway!Bucket(i)
<1>1. Gateway!Requests = 1..Len(log) /\ Gateway!Requests' = 1..Len(log')
      /\ Len(log) \in Nat /\ Len(log') \in Nat
  <2>1. LogOK' => Gateway!Requests' = 1..Len(log') /\ Len(log') \in Nat
    BY LenProperties DEF LogOK, Gateway!Requests
  <2> QED BY <2>1, LogFacts
<1>2. 1..Len(log) \subseteq 1..Len(log')
  BY <1>1 DEF StoredIsSame
<1>3. \A i \in 1..Len(log) : Gateway!Bucket(i)' = Gateway!Bucket(i)
  BY DEF StoredIsSame, Gateway!Bucket
<1>4. Gateway!Stored' = Gateway!Stored /\ Gateway!Stored \subseteq 1..Len(log)
  <2>1. Gateway!Stored = {i \in 1..Len(log) : inserted[i] > 0}
    BY <1>1 DEF Gateway!Stored
  <2>2. Gateway!Stored' = {i \in 1..Len(log') : inserted'[i] > 0}
    BY <1>1 DEF Gateway!Stored
  <2> QED BY <2>1, <2>2, <1>2 DEF StoredIsSame
<1>5. \A b : InBucket(b)' = {i \in Gateway!Stored' : Gateway!Bucket(i)' = b}
  BY DEF InBucket
<1> QED BY <1>3, <1>4, <1>5 DEF InBucket

LEMMA SameCounts ==
  ASSUME LogOK, LogOK', StoredIsSame, RowsAreOfEvents, CountsAreExact
  PROVE  RowsAreOfEvents' /\ CountsAreExact'
<1>1. \A b : InBucket(b)' = InBucket(b)
  BY SameBuckets
<1>2. \A b : b \in Gateway!Buckets' <=> b \in Gateway!Buckets
  BY <1>1, BucketsAre, BucketsAreNext
<1>3. ASSUME NEW b PROVE Gateway!Count(b)' = Gateway!Count(b)
  <2>1. InBucket(b) \in SUBSET (1..Len(log))
    BY LogFacts DEF InBucket, Gateway!Stored
  <2>2. SameRows(InBucket(b), log, log', inserted, inserted')
    BY <2>1, LogIsFinite, LogFacts DEF SameRows, StoredIsSame
  <2> QED BY <1>1, <2>2, SameTally, TallyIs, TallyIsNext
<1>4. RowsAreOfEvents'
  BY <1>2 DEF RowsAreOfEvents, StoredIsSame
<1>5. ASSUME NEW b \in Gateway!Buckets' \ raced', b[2] * PerMinute >= swept' - RollupTicks
      PROVE  b \in DOMAIN rollups' /\ rollups'[b] = Gateway!Count(b)'
  <2>1. b \in Gateway!Buckets \ raced
    BY <1>2, <1>5 DEF StoredIsSame
  <2>2. b[2] * PerMinute >= swept - RollupTicks
    <3>1. PICK i \in 1..Len(log) : b = Gateway!Bucket(i)
      BY <2>1, LogFacts DEF Gateway!Buckets, Gateway!Stored
    <3>2. b[2] \in Int /\ PerMinute \in Int
      <4>1. log[i].ts \in Nat /\ PerMinute \in Nat \ {0}
        BY LogFacts, TablesAssumption DEF Gateway!GatewayAssumption
      <4>2. b[2] = log[i].ts \div PerMinute
        BY <3>1 DEF Gateway!Bucket
      <4> DEFINE ts == log[i].ts
      <4>3. b[2] = ts \div PerMinute /\ ts \in Nat
        BY <4>1, <4>2
      <4> HIDE DEF ts
      <4> QED BY <4>1, <4>3
    <3>a. \A x, y \in Int : x * y \in Int
      OBVIOUS
    <3>b. swept \in Int /\ swept' \in Int /\ swept <= swept' /\ RollupTicks \in Int
      BY TablesAssumption DEF LogOK, StoredIsSame, Gateway!GatewayAssumption
    <3> DEFINE m == b[2] * PerMinute
    <3>3. m \in Int /\ m >= swept' - RollupTicks
      BY <3>2, <3>a, <1>5
    <3>c. \A x, y, z, r \in Int : x <= y /\ z >= y - r => z >= x - r
      OBVIOUS
    <3> HIDE DEF m
    <3>4. m >= swept - RollupTicks
      BY ONLY <3>b, <3>3, <3>c
    <3> QED BY <3>4 DEF m
  <2>3. b \in DOMAIN rollups /\ rollups[b] = Gateway!Count(b)
    BY <2>1, <2>2 DEF CountsAreExact, Gateway!CountsAreExact
  <2> QED BY <2>3, <1>3, <1>5 DEF StoredIsSame
<1>6. CountsAreExact'
  BY <1>5 DEF CountsAreExact, Gateway!CountsAreExact
<1> QED BY <1>4, <1>6

\* A commit: every row takes what its batch adds to it, or was raced for.
LEMMA StoreCounts ==
  ASSUME LogOK, RowsAreOfEvents, CountsAreExact, NEW w \in Workers, Gateway!Store(w)
  PROVE  RowsAreOfEvents' /\ CountsAreExact'
<1> DEFINE B == Gateway!Parsed(handler[w].batch)
           seen == handler[w].seen
           buckets == {Gateway!Bucket(i) : i \in B}
           ones == [i \in B |-> 1]
           J(b) == {i \in B : Gateway!Bucket(i) = b}
<1>1. /\ \A i \in 1..Len(log) : inserted'[i] = inserted[i] + (IF i \in B THEN 1 ELSE 0)
      /\ UNCHANGED <<log, swept>> /\ LogOK'
  BY StoreTables
<1>2. /\ raced' = raced \cup {b \in DOMAIN seen \cap DOMAIN rollups : seen[b] # rollups[b]}
      /\ buckets \cap DOMAIN rollups = DOMAIN seen
      /\ rollups' = [b \in (buckets \ DOMAIN seen) \cup DOMAIN rollups |->
                       IF b \notin buckets THEN rollups[b]
                       ELSE IF b \notin DOMAIN seen THEN Gateway!Adds(B, b)
                       ELSE Gateway!Updated(rollups[b], seen[b], Gateway!Adds(B, b))]
  BY DEF Gateway!Store, Gateway!Commits
<1>3. B \in SUBSET (1..Len(log))
  BY DEF LogOK, Gateway!Parsed
<1>4. \A b : Gateway!Adds(B, b) = TallyOf(log, J(b), ones)
  BY TallyIs
<1>5. \A b : b \in buckets <=> J(b) # {}
  OBVIOUS
<1>6. \A b : J(b) \in SUBSET B
  OBVIOUS
<1>7. \A b, i : i \in J(b) <=> i \in B /\ Gateway!Bucket(i) = b
  OBVIOUS
<1>8. \A i \in B : ones[i] = 1
  OBVIOUS
<1> HIDE DEF B, seen, buckets, ones, J
<1>9. Gateway!Requests = 1..Len(log) /\ Gateway!Requests' = 1..Len(log)
  BY LogFacts, <1>1 DEF Gateway!Requests
<1>10. \A i \in 1..Len(log) : inserted[i] \in Nat /\ log[i].ts \in Nat /\ log[i].ts <= now /\ now \in Nat
  BY LogFacts DEF LogOK
<1>11. ASSUME NEW b PROVE InBucket(b)' = InBucket(b) \cup J(b) /\ InBucket(b) \in SUBSET (1..Len(log))
  <2>1. InBucket(b) = {i \in 1..Len(log) : inserted[i] > 0 /\ Gateway!Bucket(i) = b}
    BY <1>9 DEF InBucket, Gateway!Stored
  <2>2. \A i : Gateway!Bucket(i)' = Gateway!Bucket(i)
    BY <1>1 DEF Gateway!Bucket
  <2>3. InBucket(b)' = {i \in 1..Len(log) : inserted'[i] > 0 /\ Gateway!Bucket(i) = b}
    BY <1>9, <2>2 DEF InBucket, Gateway!Stored
  <2>4. \A i \in 1..Len(log) : inserted'[i] > 0 <=> inserted[i] > 0 \/ i \in B
    BY <1>1, <1>10
  <2> QED BY <2>1, <2>3, <2>4, <1>3, <1>7
<1>12. RowsAreOfEvents'
  <2>1. DOMAIN rollups' = (buckets \ DOMAIN seen) \cup DOMAIN rollups
    BY <1>2
  <2>2. \A b \in DOMAIN rollups : InBucket(b) # {}
    BY BucketsAre DEF RowsAreOfEvents
  <2>3. \A b \in DOMAIN rollups' : InBucket(b)' # {}
    BY <2>1, <2>2, <1>5, <1>11
  <2> QED BY <2>3, BucketsAreNext DEF RowsAreOfEvents
<1>13. ASSUME NEW b \in Gateway!Buckets' \ raced', b[2] * PerMinute >= swept' - RollupTicks
       PROVE  b \in DOMAIN rollups' /\ rollups'[b] = Gateway!Count(b)'
  <2> DEFINE I == InBucket(b)
  <2>0. /\ Gateway!Count(b) = TallyOf(log, I, inserted)
        /\ Gateway!Count(b)' = TallyOf(log, I \cup J(b), inserted')
        /\ I \in SUBSET (1..Len(log)) /\ J(b) \in SUBSET (1..Len(log))
    BY <1>1, <1>3, <1>6, <1>11, TallyIs, TallyIsNext
  <2>1. I # {} => b \in DOMAIN rollups /\ rollups[b] = Gateway!Count(b)
    <3>1. b \notin raced /\ b[2] * PerMinute >= swept - RollupTicks
      BY <1>1, <1>2, <1>13
    <3>2. I # {} => b \in Gateway!Buckets
      BY BucketsAre
    <3> QED BY <3>1, <3>2 DEF CountsAreExact, Gateway!CountsAreExact
  <2>2. b \in DOMAIN rollups => I # {}
    BY BucketsAre DEF RowsAreOfEvents
  <2>3. I \cup J(b) # {}
    BY <1>11, BucketsAreNext
  <2>f. IsFiniteSet(I) /\ IsFiniteSet(J(b))
    BY <2>0, LogIsFinite
  <2> HIDE DEF I
  <2>4. CASE J(b) = {}
    <3>1. SameRows(I, log, log, inserted, inserted')
      <4>1. \A i \in I : i \notin B
        BY <2>4, <1>7, <2>0 DEF I, InBucket
      <4> QED BY <4>1, <2>0, <2>f, <1>1, <1>10 DEF SameRows
    <3>2. Gateway!Count(b)' = Gateway!Count(b)
      <4>1. I \cup J(b) = I
        BY <2>4
      <4>2. TallyOf(log, I, inserted') = TallyOf(log, I, inserted)
        BY ONLY <3>1, SameTally
      <4> QED BY <4>1, <4>2, <2>0
    <3>3. b \notin buckets /\ I # {}
      BY <2>3, <2>4, <1>5
    <3> QED BY <3>2, <3>3, <2>1, <1>2
  <2>5. CASE J(b) # {} /\ I = {}
    <3>1. b \in buckets /\ b \notin DOMAIN rollups /\ b \notin DOMAIN seen
      BY <2>5, <2>2, <1>2, <1>5
    <3>2. SameRows(J(b), log, log, ones, inserted')
      <4>1. ASSUME NEW i \in J(b) PROVE inserted'[i] = 1 /\ ones[i] = 1
        <5>1. i \in B /\ i \in 1..Len(log) /\ Gateway!Bucket(i) = b
          BY <1>7, <2>0
        <5>2. i \notin Gateway!Stored
          BY <5>1, <2>5 DEF I, InBucket
        <5>3. inserted[i] = 0
          BY <5>1, <5>2, <1>9, <1>10 DEF Gateway!Stored
        <5> QED BY <5>1, <5>3, <1>1, <1>8
      <4> QED BY <4>1, <2>f DEF SameRows
    <3>3. I \cup J(b) = J(b)
      BY <2>5
    <3>4. Gateway!Count(b)' = Gateway!Adds(B, b)
      <4>1. TallyOf(log, J(b), inserted') = TallyOf(log, J(b), ones)
        BY ONLY <3>2, SameTally
      <4> QED BY <4>1, <3>3, <2>0, <1>4
    <3> QED BY <3>1, <3>4, <1>2
  <2>6. CASE J(b) # {} /\ I # {}
    <3>1. b \in buckets /\ b \in DOMAIN rollups /\ b \in DOMAIN seen
      BY <2>6, <2>1, <1>2, <1>5
    <3>2. seen[b] = rollups[b]
      BY <3>1, <1>2, <1>13
    <3>3. GrowsBy(I, J(b), log, inserted, inserted', ones)
      <4>1. \A i \in I \cup J(b) : i \in 1..Len(log)
        BY <2>0
      <4>2. \A i \in I \cup J(b) : i \in J(b) <=> i \in B
        BY <1>7 DEF I, InBucket
      <4>3. \A i \in I \cup J(b) : /\ log[i].ts \in Nat /\ inserted[i] \in Int
                                   /\ inserted'[i] = inserted[i] + (IF i \in J(b) THEN 1 ELSE 0)
        BY <4>1, <4>2, <1>1, <1>10
      <4>4. \A i \in J(b) \ I : inserted[i] = 0
        <5> TAKE i \in J(b) \ I
        <5>1. i \in 1..Len(log) /\ Gateway!Bucket(i) = b
          BY <4>1, <1>7
        <5>2. i \notin Gateway!Stored
          BY <5>1 DEF I, InBucket
        <5> QED BY <5>1, <5>2, <1>9, <1>10 DEF Gateway!Stored
      <4>5. \A i \in J(b) : ones[i] = 1
        BY <1>7, <1>8
      <4>6. \E t \in Nat : \A i \in I \cup J(b) : log[i].ts <= t
        BY <4>1, <1>10 DEF LogOK
      <4> QED BY <2>6, <2>f, <4>3, <4>4, <4>5, <4>6 DEF GrowsBy
    <3>4. Gateway!Updated(rollups[b], rollups[b], Gateway!Adds(B, b)) = Gateway!Count(b)'
      <4>1. rollups[b] = TallyOf(log, I, inserted)
        BY <2>0, <2>1, <2>6
      <4> QED BY <3>3, <4>1, <2>0, <1>4, GrownTally
    <3> QED BY <3>1, <3>2, <3>4, <1>2
  <2> QED BY <2>4, <2>5, <2>6
<1>14. CountsAreExact'
  BY <1>13 DEF CountsAreExact, Gateway!CountsAreExact
<1> QED BY <1>12, <1>14

-------------------------------------------------------------------------------
(* The theorems about the gateway. *)

LEMMA GatewayStep ==
  ASSUME GatewayInv, Gateway!Next
  PROVE  GatewayInv'
<1> USE DEF GatewayInv
<1>1. LogOK' /\ AckedIsStored'
  BY AckedKept
<1>2. Len(log) \in Nat /\ swept \in Nat /\ swept <= swept
  BY LogFacts DEF LogOK
<1>3. ASSUME StoredIsSame PROVE GatewayInv'
  BY <1>1, <1>3, SameCounts
<1>4. ASSUME UNCHANGED <<log, rollups, swept, inserted, raced>> PROVE GatewayInv'
  <2>1. StoredIsSame
    BY <1>2, <1>4 DEF StoredIsSame
  <2> QED BY <1>3, <2>1
<1>5. ASSUME NEW s \in Sources \cup {Malformed}, NEW th \in BOOLEAN, Gateway!Serve(s, th)
      PROVE  GatewayInv'
  <2>1. /\ Len(log') = Len(log) + 1
        /\ \A i \in 1..Len(log) : log'[i] = log[i] /\ inserted'[i] = inserted[i]
        /\ inserted'[Len(log) + 1] = 0
    BY <1>5, ServeTables
  <2>2. UNCHANGED <<rollups, swept, raced>>
    BY <1>5 DEF Gateway!Serve
  <2>3. \A i \in 1..Len(log') : i \notin 1..Len(log) => inserted'[i] = 0
    <3> SUFFICES ASSUME NEW i \in 1..Len(log'), i \notin 1..Len(log) PROVE inserted'[i] = 0
      OBVIOUS
    <3>1. i = Len(log) + 1
      BY <1>2, <2>1
    <3> QED BY <2>1, <3>1
  <2>4. StoredIsSame
    BY <1>2, <2>1, <2>2, <2>3 DEF StoredIsSame
  <2> QED BY <1>3, <2>4
<1>6. ASSUME NEW w \in Workers, Gateway!Store(w) PROVE GatewayInv'
  BY <1>1, <1>6, StoreCounts
<1>7. CASE Gateway!Sweep
  <2>1. swept' = now /\ UNCHANGED <<log, inserted, raced>>
    BY <1>7, SweepTables
  <2>2. rollups' = [b \in {c \in DOMAIN rollups : ~Gateway!Expired(c)} |-> rollups[b]]
    BY <1>7 DEF Gateway!Sweep, Gateway!Restrict
  <2>3. ASSUME NEW b \in DOMAIN rollups, b[2] * PerMinute >= now - RollupTicks
        PROVE  b \in DOMAIN rollups' /\ rollups'[b] = rollups[b]
    <3>1. b[2] \in Int
      <4>1. PICK i \in 1..Len(log) : b = Gateway!Bucket(i)
        BY LogFacts DEF RowsAreOfEvents, Gateway!Buckets, Gateway!Stored
      <4> DEFINE ts == log[i].ts
      <4>2. b[2] = ts \div PerMinute /\ ts \in Nat /\ PerMinute \in Nat \ {0}
        BY <4>1, LogFacts, TablesAssumption DEF Gateway!Bucket, Gateway!GatewayAssumption
      <4> HIDE DEF ts
      <4> QED BY <4>2
    <3>2. \A x, y, z, r \in Int : x * y >= z - r => ~(x * y < z - r)
      OBVIOUS
    <3>3. ~Gateway!Expired(b)
      BY <2>3, <3>1, <3>2, GatewaySets DEF Gateway!Expired, LogOK
    <3> QED BY <2>2, <3>3
  <2>4. swept <= swept' /\ Len(log) <= Len(log') /\ log' = log /\ inserted' = inserted
        /\ raced' = raced
    BY <1>2, <2>1 DEF LogOK
  <2>5. DOMAIN rollups' \subseteq DOMAIN rollups
    BY <2>2
  <2>6. \A b \in DOMAIN rollups : b[2] * PerMinute >= swept' - RollupTicks
          => b \in DOMAIN rollups' /\ rollups'[b] = rollups[b]
    BY <2>1, <2>3
  <2>7. StoredIsSame
    BY ONLY <2>4, <2>5, <2>6 DEF StoredIsSame
  <2> QED BY <1>3, <2>7
<1>8. ASSUME NEW w \in Workers, \E B \in (SUBSET queued) \ {{}} : Gateway!Post(w, B)
      PROVE  GatewayInv'
  <2>1. PICK B \in SUBSET queued : Gateway!Post(w, B)
    BY <1>8
  <2> QED BY <2>1, <1>4 DEF Gateway!Post, Gateway!tables
<1>9. ASSUME NEW w \in Workers, Gateway!Fail(w) PROVE GatewayInv'
  BY <1>4, <1>9 DEF Gateway!Fail, Gateway!tables
<1>10. CASE Gateway!Tick
  BY <1>4, <1>10 DEF Gateway!Tick, Gateway!tables, Gateway!kong
<1> QED BY <1>5, <1>6, <1>7, <1>8, <1>9, <1>10 DEF Gateway!Next, Gateway!Ingest

LEMMA GatewayStart == Gateway!Init => GatewayInv
<1> SUFFICES ASSUME Gateway!Init PROVE GatewayInv
  OBVIOUS
<1>1. \A S : <<>> \in Seq(S) /\ Len(<<>>) = 0
  BY EmptySeq
<1>2. LogOK
  BY <1>1 DEF Gateway!Init, LogOK, Gateway!Idle
<1>3. DOMAIN log = {} /\ DOMAIN rollups = {} /\ acked = {}
  BY DEF Gateway!Init
<1>4. Gateway!Buckets = {}
  BY <1>3 DEF Gateway!Buckets, Gateway!Stored, Gateway!Requests
<1>5. AckedIsStored /\ RowsAreOfEvents /\ CountsAreExact
  BY <1>3, <1>4 DEF AckedIsStored, Gateway!AckedIsStored, RowsAreOfEvents, CountsAreExact,
                    Gateway!CountsAreExact
<1> QED BY <1>2, <1>5 DEF GatewayInv

LEMMA GatewayStays ==
  GatewayInv /\ [TablesNext]_<<table, vars, gatewayVars>> => GatewayInv'
<1> SUFFICES ASSUME GatewayInv, [TablesNext]_<<table, vars, gatewayVars>> PROVE GatewayInv'
  OBVIOUS
<1>1. CASE UNCHANGED gatewayVars
  <2>1. UNCHANGED <<now, log, queued, acked, handler, events, rollups, swept, inserted, raced>>
    BY <1>1 DEF gatewayVars
  <2>2. LogOK'
    BY <2>1 DEF GatewayInv, LogOK
  <2>3. StoredIsSame
    BY <2>1, LogFacts DEF GatewayInv, LogOK, StoredIsSame
  <2>4. AckedIsStored'
    BY <2>1 DEF GatewayInv, AckedIsStored, Gateway!AckedIsStored
  <2> QED BY <2>2, <2>3, <2>4, SameCounts DEF GatewayInv
<1>2. CASE Gateway!Next
  BY <1>2, GatewayStep
<1> QED BY <1>1, <1>2 DEF TablesNext

\* A request Kong has a 200 for is in gateway_events until the retention sweep, for any number
\* of handlers, sources and requests, however batches fail and are posted again, and whatever
\* malformed lines they hold.
THEOREM AckedRowsAreStored == TablesSpec => []AckedIsStored
<1>1. TablesInit => GatewayInv
  BY GatewayStart DEF TablesInit
<1>2. GatewayInv => AckedIsStored
  BY DEF GatewayInv
<1> QED BY <1>1, <1>2, GatewayStays, PTL DEF TablesSpec

\* The row of a bucket that is kept is the count of the events stored in it, to the request:
\* only a handler that wrote over a newer count can make them differ.
THEOREM CountsAreOfEvents == TablesSpec => []CountsAreExact
<1>1. TablesInit => GatewayInv
  BY GatewayStart DEF TablesInit
<1>2. GatewayInv => CountsAreExact
  BY DEF GatewayInv
<1> QED BY <1>1, <1>2, GatewayStays, PTL DEF TablesSpec

\* The groups keep their references while the gateway's tables are at work beside them.
THEOREM GroupsBesideTheGateway == TablesSpec => []RefIntegrity
<1>1. TablesInit => Init
  BY DEF TablesInit
<1>2. [TablesNext]_<<table, vars, gatewayVars>> => [Next]_vars
  BY DEF TablesNext
<1>3. TablesSpec => Spec
  BY <1>1, <1>2, PTL DEF TablesSpec, Spec
<1> QED BY <1>3, ReferencesHold, PTL
===============================================================================
