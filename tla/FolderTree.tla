------------------------------ MODULE FolderTree ------------------------------
(***************************************************************************)
(* The server groups ("folders") of the inventory: a forest kept in one    *)
(* table by a parent_id column, and the folder_id column that puts every   *)
(* server in at most one group.                                            *)
(*                                                                         *)
(* The routes are plain `def` handlers: FastAPI runs each on a thread of   *)
(* its own, and a SELECT of a session opens no SQLite transaction, so a    *)
(* handler is two steps here.  The Begin step is its reads and checks: a   *)
(* request that fails one is answered 4xx and changes nothing, hence only  *)
(* the accepted ones appear.  The Commit step is the flush at db.commit(): *)
(* it writes the attributes the handler changed, from the values it read,  *)
(* or rolls back on a foreign-key or stale-row error.                      *)
(***************************************************************************)
EXTENDS Naturals, FiniteSets

CONSTANTS
  MaxId,        \* bound: the largest row id SQLite hands out
  Names,        \* group names, modulo Python's str.lower()
  FoldedNames,  \* the names SQLite's ASCII-only lower() folds as Python does
  Servers,      \* the inventory's servers
  Workers       \* threads serving a request

ASSUME MaxIdAssumption == MaxId \in Nat
ASSUME NamesAssumption == Names # {} /\ FoldedNames \subseteq Names

Ids == 1..MaxId
Null == 0                     \* SQL NULL: top level, or the "Unassigned" bucket
Places == Ids \cup {Null}

VARIABLES
  folders,    \* ids of the rows of table folders
  parent,     \* folders.parent_id
  name,       \* folders.name (parent and name: filler for an id without a row)
  srvFolder,  \* servers.folder_id
  req         \* per thread, the request between its checks and its commit

vars == <<folders, parent, name, srvFolder, req>>
tables == <<folders, parent, name, srvFolder>>

-------------------------------------------------------------------------------
(* What a handler computes from the rows it reads. *)

Children(f) == {g \in folders : parent[g] = f}

\* S is closed under "has its parent in S", below f.
ClosedBelow(f, S) == \A g \in folders : parent[g] = f \/ parent[g] \in S => g \in S

\* _folder_descendant_ids: everything met walking down from f.
Descendants(f) ==
  {g \in folders : \A S \in SUBSET folders : ClosedBelow(f, S) => g \in S}

\* The rows the clash query matches, comparing lower(name) in SQL with name.lower().
SameNameRows(n, p) ==
  {g \in folders : name[g] = n /\ n \in FoldedNames /\ parent[g] = p}

\* Mutant: only creating a group checks its name.
NoClashSeenCreateOnly(n, p, self) == self # Null \/ SameNameRows(n, p) = {}

\* _sibling_name_clash looks at one row of the query's answer only (db.scalar): when
\* that row is the folder being edited itself, a second namesake goes unnoticed.
NoClashSeen(n, p, self) ==
  LET rows == SameNameRows(n, p) IN rows = {} \/ \E first \in rows : first = self

\* Mutant: only "a group cannot be its own parent" is checked.
MoveTargetsNotSelf(f) == {parent[f], Null} \cup (folders \ {f})

\* The parents a PATCH may ask for: the current one (parent_id not sent), the top
\* level, or an existing group that is neither f nor below it.
MoveTargets(f) ==
  {parent[f], Null} \cup (folders \ ({f} \cup Descendants(f)))

-------------------------------------------------------------------------------
(* Requests. *)

Ops == {"idle", "create", "update", "delete", "assign"}

Request ==
  [op : Ops, id : Places, srv : Servers \cup {Null}, name : Names, parent : Places,
   oldName : Names, oldParent : Places]

NoName == CHOOSE n \in Names : TRUE   \* filler where a row or a request has no name

Idle == [op |-> "idle", id |-> Null, srv |-> Null, name |-> NoName, parent |-> Null,
         oldName |-> NoName, oldParent |-> Null]

Accept(w, r) ==
  /\ req[w].op = "idle"
  /\ req' = [req EXCEPT ![w] = r]
  /\ UNCHANGED tables

Done(w) == req' = [req EXCEPT ![w] = Idle]

\* Mutant: SQLite's default, foreign keys not enforced.
FkHoldsOff(p) == TRUE

\* PRAGMA foreign_keys=ON: a row may only point at a row that exists.
FkHolds(p) == p = Null \/ p \in folders

\* The commit raised IntegrityError or StaleDataError: HTTP 500, nothing written.
RollBack(w) == Done(w) /\ UNCHANGED tables

-------------------------------------------------------------------------------
(* POST /folders, and the groups a CSV import creates at the top level.        *)

\* INTEGER PRIMARY KEY without AUTOINCREMENT: one above the largest id in the table.
NextRowId(f) == (\A g \in folders : g < f) /\ (f = 1 \/ f - 1 \in folders)

\* Bound: no more creations are accepted than there are ids left.
RoomLeft ==
  \E f \in Ids : NextRowId(f) /\ f + Cardinality({w \in Workers : req[w].op = "create"}) <= MaxId

BeginCreate(w, n, p) ==
  /\ RoomLeft
  /\ FkHolds(p)                                  \* _folder_or_404 on the parent
  /\ NoClashSeen(n, p, Null)
  /\ Accept(w, [Idle EXCEPT !.op = "create", !.name = n, !.parent = p])

\* Import resolves a group by name over the WHOLE tree, and creates a missing one.
BeginImport(w, n) ==
  /\ RoomLeft
  /\ \A g \in folders : name[g] # n
  /\ Accept(w, [Idle EXCEPT !.op = "create", !.name = n, !.parent = Null])

CommitCreate(w) ==
  /\ req[w].op = "create"
  /\ \/ /\ FkHolds(req[w].parent)
        /\ \E f \in Ids :
             /\ NextRowId(f)
             /\ folders' = folders \cup {f}
             /\ parent' = [parent EXCEPT ![f] = req[w].parent]
             /\ name' = [name EXCEPT ![f] = req[w].name]
        /\ Done(w)
        /\ UNCHANGED srvFolder
     \/ /\ ~FkHolds(req[w].parent)
        /\ RollBack(w)

-------------------------------------------------------------------------------
(* PATCH /folders/{id}: rename, move, or both.                                 *)

BeginUpdate(w, f, n, p) ==
  /\ f \in folders
  /\ p \in MoveTargets(f)
  /\ NoClashSeen(n, p, f)
  /\ Accept(w, [Idle EXCEPT !.op = "update", !.id = f, !.name = n, !.parent = p,
                            !.oldName = name[f], !.oldParent = parent[f]])

\* SQLAlchemy writes the attributes whose value differs from the one it loaded.
Renames(r) == r.name # r.oldName
Moves(r) == r.parent # r.oldParent

UpdateHolds(r) ==
  /\ Renames(r) \/ Moves(r) => r.id \in folders
  /\ Moves(r) => FkHolds(r.parent)

CommitUpdate(w) ==
  LET r == req[w] IN
  /\ r.op = "update"
  /\ \/ /\ UpdateHolds(r)
        /\ name' = IF Renames(r) THEN [name EXCEPT ![r.id] = r.name] ELSE name
        /\ parent' = IF Moves(r) THEN [parent EXCEPT ![r.id] = r.parent] ELSE parent
        /\ Done(w)
        /\ UNCHANGED <<folders, srvFolder>>
     \/ /\ ~UpdateHolds(r)
        /\ RollBack(w)

-------------------------------------------------------------------------------
(* DELETE /folders/{id}: the sub-groups go to the group's parent as it was     *)
(* read, the servers to "Unassigned", and the row goes, in one transaction.    *)

BeginDelete(w, f) ==
  /\ f \in folders
  /\ Accept(w, [Idle EXCEPT !.op = "delete", !.id = f, !.oldParent = parent[f]])

\* Mutant: sub-groups surface at the top level.
ReparentToTop(r) == Null

\* Where the direct sub-groups go: the parent read by the Begin step.
Reparent(r) == r.oldParent

\* The UPDATE may name a group that is gone by now, and the DELETE may find a
\* sub-group still below the row (only when the row is its own parent).
DeleteHolds(r) ==
  \/ Children(r.id) = {}
  \/ FkHolds(Reparent(r)) /\ (Reparent(r) = r.id => Children(r.id) = {r.id})

CommitDelete(w) ==
  LET r == req[w] IN
  /\ r.op = "delete"
  /\ \/ /\ DeleteHolds(r)
        /\ folders' = folders \ {r.id}
        /\ parent' = [g \in Ids |-> IF g = r.id THEN Null
                                   ELSE IF parent[g] = r.id THEN Reparent(r)
                                   ELSE parent[g]]
        /\ srvFolder' = [s \in Servers |->
                           IF srvFolder[s] = r.id THEN Null ELSE srvFolder[s]]
        /\ name' = [name EXCEPT ![r.id] = NoName]
        /\ Done(w)
     \/ /\ ~DeleteHolds(r)
        /\ RollBack(w)

-------------------------------------------------------------------------------
(* PUT /servers/{id}/folder.                                                   *)

BeginAssign(w, s, p) ==
  /\ FkHolds(p)
  /\ Accept(w, [Idle EXCEPT !.op = "assign", !.srv = s, !.parent = p,
                            !.oldParent = srvFolder[s]])

CommitAssign(w) ==
  LET r == req[w] IN
  /\ r.op = "assign"
  /\ \/ /\ Moves(r) => FkHolds(r.parent)
        /\ srvFolder' = IF Moves(r) THEN [srvFolder EXCEPT ![r.srv] = r.parent]
                                    ELSE srvFolder
        /\ Done(w)
        /\ UNCHANGED <<folders, parent, name>>
     \/ /\ Moves(r) /\ ~FkHolds(r.parent)
        /\ RollBack(w)

-------------------------------------------------------------------------------
Init ==
  /\ folders = {}
  /\ parent = [f \in Ids |-> Null]
  /\ name = [f \in Ids |-> Idle.name]
  /\ srvFolder = [s \in Servers |-> Null]
  /\ req = [w \in Workers |-> Idle]

Begin(w) ==
  \/ \E n \in Names, p \in Places : BeginCreate(w, n, p)
  \/ \E n \in Names : BeginImport(w, n)
  \/ \E f \in Ids, n \in Names, p \in Places : BeginUpdate(w, f, n, p)
  \/ \E f \in Ids : BeginDelete(w, f)
  \/ \E s \in Servers, p \in Places : BeginAssign(w, s, p)

Commit(w) == CommitCreate(w) \/ CommitUpdate(w) \/ CommitDelete(w) \/ CommitAssign(w)

Next == \E w \in Workers : Begin(w) \/ Commit(w)

Spec == Init /\ [][Next]_vars

-------------------------------------------------------------------------------
(* Properties. *)

\* Types, and no row-less id carries a parent: an UPDATE of a group deleted meanwhile
\* is an error and not a write.
TypeOK ==
  /\ folders \subseteq Ids
  /\ parent \in [Ids -> Places]
  /\ name \in [Ids -> Names]
  /\ srvFolder \in [Servers -> Places]
  /\ req \in [Workers -> Request]
  /\ \A w \in Workers : req[w].op \in {"update", "delete"} => req[w].id \in Ids
  /\ \A f \in Ids \ folders : parent[f] = Null

\* No group or server points at a group that is gone, however the requests of any
\* number of admins interleave: a delete moves everything off the row first, and a
\* create, move or assign whose target vanished after its check is rolled back.
RefIntegrity ==
  /\ \A f \in folders : parent[f] \in folders \cup {Null}
  /\ \A s \in Servers : srvFolder[s] \in folders \cup {Null}

\* The tree never forms a cycle (update_folder's docstring): any set of groups has a
\* member whose parent is outside it.  Holds when requests are served one at a time;
\* two moves checked before either commits break it.
Acyclic ==
  \A S \in SUBSET folders : S # {} => \E f \in S : parent[f] \notin S

Twins == {e \in folders \X folders :
            e[1] # e[2] /\ name[e[1]] = name[e[2]] /\ parent[e[1]] = parent[e[2]]}

\* Names are "unique only among siblings" (_sibling_name_clash).  What holds of it, for
\* names that SQLite folds and requests served one at a time: only a delete makes two
\* groups namesakes (delete_folder checks no name); no create, import, rename or move does.
OnlyDeleteMakesTwins ==
  [][(\E w \in Workers : req[w].op # "delete" /\ req'[w].op = "idle") => Twins' \subseteq Twins]_vars

\* Deleting a group in the middle of the tree keeps the rest of the hierarchy: of two
\* surviving groups one is above the other after the delete exactly when it was before.
DeleteKeepsAncestry ==
  [][(\E w \in Workers : req[w].op = "delete" /\ req'[w].op = "idle") =>
       \A f \in folders' : Descendants(f)' = Descendants(f) \cap folders']_vars

\* The table refines the abstract forest: creating, moving and deleting rows is
\* creating, moving with its sub-tree and dissolving a group of the hierarchy.
Ancestors(f) == {g \in folders : f \in Descendants(g)}
Hierarchy == INSTANCE GroupHierarchy WITH
  None <- Null, above <- [f \in folders |-> Ancestors(f)]
ImplementsHierarchy == Hierarchy!Spec
===============================================================================
