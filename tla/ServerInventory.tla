---------------------------- MODULE ServerInventory ----------------------------
(***************************************************************************)
(* The rows of table servers and what keeps them apart: a hostname is      *)
(* unique in its group, an address everywhere.  No database constraint     *)
(* says so; the create, update and CSV import handlers check it before     *)
(* they write.  Requests are two steps, as in FolderTree.                  *)
(***************************************************************************)
EXTENDS Naturals, FiniteSets, SequencesExt

CONSTANTS
  MaxId,       \* bound: the largest server id handed out
  MaxRows,     \* bound: rows of an imported file
  Hosts,       \* hostnames, lower-cased
  Addresses,   \* IP addresses or DNS names, lower-cased
  GroupNames,  \* names a group can have (the tree itself is FolderTree's)
  Unassigned,  \* the bucket of servers without a group
  Workers      \* threads serving a request

InventoryAssumption ==
  MaxId \in Nat /\ MaxRows \in Nat /\ Unassigned \notin GroupNames

Ids == 1..MaxId
Buckets == GroupNames \cup {Unassigned}
Row == [host : Hosts, ip : Addresses, grp : Buckets]
Files == BoundedSeq(Row, MaxRows)      \* the rows of a CSV file that parse

VARIABLES
  rows,    \* table servers: id -> Row, for the ids in use
  groups,  \* the groups that exist
  req      \* per thread, the request between its checks and its commit

vars == <<rows, groups, req>>
tables == <<rows, groups>>

Servers == DOMAIN rows
Idle == [op |-> "idle"]

\* A request, which has the rows its checks saw.
Accept(w, r) == req' = [req EXCEPT ![w] = r] /\ UNCHANGED tables
Done(w) == req' = [req EXCEPT ![w] = Idle]
RollBack(w) == Done(w) /\ UNCHANGED tables
FkHolds(b) == b \in groups \cup {Unassigned}

-------------------------------------------------------------------------------
(* What the checks look for in table t. *)

\* Mutant: folder_id = NULL compares as SQL does, so "Unassigned" has no namesakes.
HostTakenNotByNull(t, h, b, self) ==
  b # Unassigned /\ \E i \in DOMAIN t \ {self} : t[i].host = h /\ t[i].grp = b

HostTaken(t, h, b, self) == \E i \in DOMAIN t \ {self} : t[i].host = h /\ t[i].grp = b

\* Mutant: the address check of update_server is dropped.
AddressTakenNever(t, a, self) == FALSE

AddressTaken(t, a, self) == \E i \in DOMAIN t \ {self} : t[i].ip = a

\* Ids go up from the largest in use (INTEGER PRIMARY KEY, no AUTOINCREMENT).
LastId == CHOOSE n \in Servers \cup {0} : \A i \in Servers : i <= n

\* Bound: requests are accepted as long as everything pending fits in the id space.
Pending(w) == IF req[w].op \in {"create", "import"} THEN Len(req[w].new) ELSE 0
RoomFor(n) == LastId + n + FoldLeft(LAMBDA a, w : a + Pending(w), 0, SetToSeq(Workers)) <= MaxId

-------------------------------------------------------------------------------
(* The CSV import, row by row. *)

\* Mutant: rows are compared within the file only, not with the inventory.
ClashesInFile(t, kept, r) ==
  \E k \in 1..Len(kept) : kept[k].ip = r.ip \/ (kept[k].host = r.host /\ kept[k].grp = r.grp)

\* A row is skipped when an existing server or an earlier row of the file that was
\* kept has its address, or its hostname in the same group.
Clashes(t, kept, r) ==
  \/ HostTaken(t, r.host, r.grp, 0) \/ AddressTaken(t, r.ip, 0)
  \/ \E k \in 1..Len(kept) : kept[k].ip = r.ip \/ (kept[k].host = r.host /\ kept[k].grp = r.grp)

Kept(t, file) ==
  FoldLeft(LAMBDA kept, r : IF Clashes(t, kept, r) THEN kept ELSE Append(kept, r), <<>>, file)

\* A group is set up for a row before the row is compared, so a skipped row's group
\* is created too, provided some row of the file is kept.
NewGroups(file) == {file[k].grp : k \in 1..Len(file)} \ (groups \cup {Unassigned})

-------------------------------------------------------------------------------
(* POST /servers checks the hostname in the target group, not the address.     *)

BeginCreate(w, r) ==
  /\ RoomFor(1)
  /\ FkHolds(r.grp)
  /\ ~HostTaken(rows, r.host, r.grp, 0)
  /\ Accept(w, [op |-> "create", new |-> <<r>>, made |-> {}, seen |-> rows])

\* POST /servers/import; a dry run, or a file with nothing to keep, writes nothing.
BeginImport(w, file) ==
  /\ RoomFor(Len(file))
  /\ Kept(rows, file) # <<>>
  /\ Accept(w, [op |-> "import", new |-> Kept(rows, file), made |-> NewGroups(file),
                file |-> file, seen |-> rows])

InsertHolds(r) == \A k \in 1..Len(r.new) : r.new[k].grp \in groups \cup r.made \cup {Unassigned}

\* One transaction: the groups made, then every row, or nothing when a group the file
\* named has been deleted meanwhile.
CommitInsert(w) ==
  LET r == req[w]
      top == LastId
  IN
  /\ r.op \in {"create", "import"}
  /\ \/ /\ InsertHolds(r)
        /\ groups' = groups \cup r.made
        /\ rows' = [i \in Servers \cup (top + 1 .. top + Len(r.new)) |->
                      IF i \in Servers THEN rows[i] ELSE r.new[i - top]]
        /\ Done(w)
     \/ ~InsertHolds(r) /\ RollBack(w)

-------------------------------------------------------------------------------
(* PATCH /servers/{id}: new hostname and/or address, the group stays.          *)

BeginUpdate(w, i, h, a) ==
  /\ i \in Servers
  /\ h # rows[i].host => ~HostTaken(rows, h, rows[i].grp, i)
  /\ a # rows[i].ip => ~AddressTaken(rows, a, i)
  /\ Accept(w, [op |-> "update", id |-> i, host |-> h, ip |-> a, seen |-> rows])

\* Only the columns that differ from the row as loaded are written.
CommitUpdate(w) ==
  LET r == req[w]
      old == r.seen[r.id]
  IN
  /\ r.op = "update"
  /\ \/ /\ r.id \in Servers
        /\ rows' = [rows EXCEPT ![r.id] =
                      [host |-> IF r.host # old.host THEN r.host ELSE @.host,
                       ip |-> IF r.ip # old.ip THEN r.ip ELSE @.ip, grp |-> @.grp]]
        /\ Done(w)
        /\ UNCHANGED groups
     \/ r.id \notin Servers /\ RollBack(w)

-------------------------------------------------------------------------------
(* PUT /servers/{id}/folder, DELETE /servers/{id}, DELETE /folders/{id} and    *)
(* POST /folders: no check here concerns hostnames.  The two group requests    *)
(* are one step each: what may come between their reads and their commit is    *)
(* FolderTree's subject.                                                       *)

BeginAssign(w, i, b) ==
  /\ i \in Servers /\ FkHolds(b)
  /\ Accept(w, [op |-> "assign", id |-> i, grp |-> b, seen |-> rows])

AssignHolds(r) == r.id \in Servers /\ FkHolds(r.grp)

CommitAssign(w) ==
  LET r == req[w] IN
  /\ r.op = "assign"
  /\ \/ /\ AssignHolds(r)
        /\ rows' = [rows EXCEPT ![r.id].grp = r.grp]
        /\ Done(w)
        /\ UNCHANGED groups
     \/ ~AssignHolds(r) /\ RollBack(w)

BeginRemove(w, i) == i \in Servers /\ Accept(w, [op |-> "remove", id |-> i, seen |-> rows])

CommitRemove(w) ==
  /\ req[w].op = "remove"
  /\ rows' = [i \in Servers \ {req[w].id} |-> rows[i]]
  /\ Done(w)
  /\ UNCHANGED groups

CreateGroup(w, g) ==
  /\ req[w] = Idle /\ g \notin groups
  /\ groups' = groups \cup {g}
  /\ UNCHANGED <<rows, req>>

DeleteGroup(w, g) ==
  /\ req[w] = Idle /\ g \in groups
  /\ groups' = groups \ {g}
  /\ rows' = [i \in Servers |-> IF rows[i].grp = g THEN [rows[i] EXCEPT !.grp = Unassigned]
                                                  ELSE rows[i]]
  /\ UNCHANGED req

-------------------------------------------------------------------------------
Init ==
  /\ rows = [i \in {} |-> 0]
  /\ groups = {}
  /\ req = [w \in Workers |-> Idle]

Begin(w) ==
  /\ req[w] = Idle
  /\ \/ \E r \in Row : BeginCreate(w, r)
     \/ \E file \in Files : BeginImport(w, file)
     \/ \E i \in Servers, h \in Hosts, a \in Addresses : BeginUpdate(w, i, h, a)
     \/ \E i \in Servers, b \in Buckets : BeginAssign(w, i, b)
     \/ \E i \in Servers : BeginRemove(w, i)

Commit(w) == CommitInsert(w) \/ CommitUpdate(w) \/ CommitAssign(w) \/ CommitRemove(w)

Next ==
  \E w \in Workers :
    \/ Begin(w) \/ Commit(w)
    \/ \E g \in GroupNames : CreateGroup(w, g) \/ DeleteGroup(w, g)

Spec == Init /\ [][Next]_vars

-------------------------------------------------------------------------------
(* Properties. *)

TypeOK ==
  /\ Servers \subseteq Ids
  /\ \A i \in Servers : rows[i] \in Row /\ FkHolds(rows[i].grp)
  /\ groups \subseteq GroupNames

SameAddress == {e \in Servers \X Servers : e[1] # e[2] /\ rows[e[1]].ip = rows[e[2]].ip}
Namesakes == {e \in Servers \X Servers :
                e[1] # e[2] /\ rows[e[1]].host = rows[e[2]].host /\ rows[e[1]].grp = rows[e[2]].grp}

\* A request of one of these kinds commits, to the rows its checks saw.
Commits(w, kinds) ==
  req[w] # Idle /\ req'[w] = Idle /\ req[w].op \in kinds /\ req[w].seen = rows

\* "IP addresses stay globally unique", except that POST /servers never passes the
\* address to the check: no other request that commits undisturbed makes two servers
\* share an address, whatever the earlier history left behind.
OnlyCreateSharesAddress ==
  [][\A w \in Workers :
       Commits(w, {"import", "update", "assign", "remove"}) => SameAddress' \subseteq SameAddress]_vars

\* "A clash is only a clash within the same folder_id", except that moving a server,
\* or deleting its group, checks nothing: no other request that commits undisturbed
\* puts a second server of a name in a group.
OnlyRegroupingMakesNamesakes ==
  [][\A w \in Workers :
       Commits(w, {"create", "import", "update", "remove"}) => Namesakes' \subseteq Namesakes]_vars

\* "Re-running the same file is safe: every row comes back skipped, never duplicated":
\* right after an import lands undisturbed, the same file keeps no row.
RerunKeepsNothing ==
  [][\A w \in Workers :
       Commits(w, {"import"}) /\ rows' # rows => Kept(rows', req[w].file) = <<>>]_vars
===============================================================================
