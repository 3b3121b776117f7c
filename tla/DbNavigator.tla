------------------------------ MODULE DbNavigator ------------------------------
(***************************************************************************)
(* The connection tree of the database page (frontend/components/            *)
(* db-navigator.tsx): the list of connections, a node per connection that     *)
(* shows its schemas or, with "Show all databases", the server's databases,    *)
(* one node below it, and the dialog and menu actions that change what the    *)
(* server stores.                                                            *)
(*                                                                          *)
(* Requests are answered in any order. An answer to a node that is gone       *)
(* changes nothing and is dropped with it. React runs an effect before the     *)
(* next event, so what a key or a flag triggers belongs to the step that      *)
(* changes it. A list is what the server held when it was asked.             *)
(***************************************************************************)
EXTENDS Integers

CONSTANTS Conns,       \* connections there may be
          MaxRequests, \* bound: requests sent
          None

NavigatorAssumption == None \notin Conns /\ MaxRequests \in Nat \ {0}

VARIABLES
  stored,    \* the connections the server stores
  byDefault, \* show_all_databases of each
  flying,    \* requests not answered yet
  sent,      \* requests sent so far
  listed,    \* connections: what the tree shows
  showAll,   \* showAllDb: "all", "one", or "unset" where nothing seeded it
  node,      \* the state of each connection's node
  kid,       \* and of the one below it that was opened
  dialog,    \* the connection being edited, New, or None
  saving     \* the save the dialog has under way, or 0

server == <<stored, byDefault>>
tree   == <<listed, showAll, node, kid>>
vars   == <<server, flying, sent, tree, dialog, saving>>

New   == "new"
Fresh == [open |-> FALSE, loading |-> FALSE, shows |-> "none"]

Kinds == {"list", "node", "kid", "save", "delete", "rename", "restore"}

TypeOK ==
  /\ stored \subseteq Conns /\ listed \subseteq Conns
  /\ byDefault \in [Conns -> {"all", "one"}]
  /\ showAll \in [Conns -> {"all", "one", "unset"}]
  /\ sent \in 0 .. MaxRequests
  /\ \A q \in flying : q.kind \in Kinds /\ q.n \in 1 .. sent
  /\ \A c \in Conns : /\ {node[c].open, kid[c].open, node[c].loading, kid[c].loading} \subseteq BOOLEAN
                      /\ node[c].shows \in {"none", "schemas", "databases", "error"}
                      /\ kid[c].shows \in {"none", "items", "error"}
  /\ dialog \in Conns \cup {New, None}
  /\ saving \in 0 .. sent

-----------------------------------------------------------------------------
(* Requests, and the nodes they are for.                                     *)

Request(kind, c, arg) == [n |-> sent + 1, kind |-> kind, conn |-> c, arg |-> arg]

\* The list as the server has it when it is asked for.
ListRequest(has, all) == Request("list", None, [has |-> has, all |-> all])

Send(others, q) == sent < MaxRequests /\ sent' = sent + 1 /\ flying' = others \cup {q}

Take(q) == flying' = flying \ {q} /\ UNCHANGED sent

\* The node below a connection is mounted while its parent shows its like.
Mounted(n) == n.open /\ n.shows \in {"schemas", "databases"}

KidAfter(c, n) == IF Mounted(n) /\ n.shows = node[c].shows THEN kid[c] ELSE Fresh

\* What is left of the requests for the node below c when c becomes n.
FlyingAfter(c, n) ==
  IF Mounted(n) /\ n.shows = node[c].shows THEN flying
  ELSE {q \in flying : ~(q.kind = "kid" /\ q.conn = c)}

Becomes(c, n) == node' = [node EXCEPT ![c] = n] /\ kid' = [kid EXCEPT ![c] = KidAfter(c, n)]

Level(flag) == IF flag = "all" THEN "databases" ELSE "schemas"

\* load: the flag of the render that made the callback says what to ask for.
Load(c, n, flag) ==
  /\ Becomes(c, [n EXCEPT !.loading = TRUE])
  /\ Send(FlyingAfter(c, n), Request("node", c, Level(flag)))

NoLoad(c, n) == Becomes(c, n) /\ flying' = FlyingAfter(c, n) /\ UNCHANGED sent

-----------------------------------------------------------------------------
(* The connection nodes.                                                     *)

\* toggle: children that were never loaded are loaded when the node opens.
Toggle(c) ==
  LET n == [node[c] EXCEPT !.open = ~@] IN
  /\ IF n.open /\ n.shows = "none" THEN Load(c, n, showAll[c]) ELSE NoLoad(c, n)
  /\ UNCHANGED <<server, listed, showAll, dialog, saving>>

\* refresh, Reconnect, and the effect on the reload key.
Reloaded(c) == [node[c] EXCEPT !.open = TRUE, !.shows = "none"]

Refresh(c) ==
  /\ Load(c, Reloaded(c), showAll[c])
  /\ UNCHANGED <<server, listed, showAll, dialog, saving>>

\* toggleShowAllDb and the effect on showAll.
ToggleShowAll(c) ==
  LET n    == [node[c] EXCEPT !.shows = "none"]
      flag == IF showAll[c] = "all" THEN "one" ELSE "all"
  IN /\ showAll' = [showAll EXCEPT ![c] = flag]
     /\ IF n.open THEN Load(c, n, flag) ELSE NoLoad(c, n)
     /\ UNCHANGED <<server, listed, dialog, saving>>

NodeAnswered(q) ==
  /\ q.kind = "node"
  /\ \E shows \in {q.arg, "error"} :
       LET n == [node[q.conn] EXCEPT !.loading = FALSE, !.shows = shows] IN
       /\ Becomes(q.conn, n)
       /\ flying' = FlyingAfter(q.conn, n) \ {q}
  /\ UNCHANGED <<server, sent, listed, showAll, dialog, saving>>

-----------------------------------------------------------------------------
(* A node of the tree below, for the one the operator is at.                  *)

KidToggle(c) ==
  LET k == [kid[c] EXCEPT !.open = ~@]
      l == k.open /\ k.shows = "none"
  IN /\ Mounted(node[c])
     /\ kid' = [kid EXCEPT ![c] = [k EXCEPT !.loading = @ \/ l]]
     /\ IF l THEN Send(flying, Request("kid", c, None)) ELSE UNCHANGED <<flying, sent>>
     /\ UNCHANGED <<server, listed, showAll, node, dialog, saving>>

KidRefresh(c) ==
  /\ Mounted(node[c])
  /\ kid' = [kid EXCEPT ![c] = [open |-> TRUE, loading |-> TRUE, shows |-> "none"]]
  /\ Send(flying, Request("kid", c, None))
  /\ UNCHANGED <<server, listed, showAll, node, dialog, saving>>

\* The schemas, folders, tables or columns below a node; that there are some
\* is all that is told apart.
loadChildren == {"items", "error"}

KidAnswered(q) ==
  /\ q.kind = "kid"
  /\ \E shows \in loadChildren :
       kid' = [kid EXCEPT ![q.conn].loading = FALSE, ![q.conn].shows = shows]
  /\ Take(q)
  /\ UNCHANGED <<server, listed, showAll, node, dialog, saving>>

-----------------------------------------------------------------------------
(* The list.                                                                 *)

\* Mutant: every list that comes sets the flags as stored.
SeededAgain(has, all) == [c \in Conns |-> IF c \in has THEN all[c] ELSE showAll[c]]

\* loadConnections seeds a flag once, and never over one that is set.
Seeded(has, all) ==
  [c \in Conns |-> IF c \in has /\ showAll[c] = "unset" THEN all[c] ELSE showAll[c]]

ReloadList ==
  /\ Send(flying, ListRequest(stored, byDefault))
  /\ UNCHANGED <<server, tree, dialog, saving>>

\* A connection that is not in the list any more loses its node.
ListAnswered(q) ==
  /\ q.kind = "list"
  /\ listed' = q.arg.has
  /\ showAll' = Seeded(q.arg.has, q.arg.all)
  /\ node' = [c \in Conns |-> IF c \in q.arg.has THEN node[c] ELSE Fresh]
  /\ kid'  = [c \in Conns |-> IF c \in q.arg.has THEN kid[c] ELSE Fresh]
  /\ flying' = {p \in flying \ {q} : p.kind \in {"node", "kid"} => p.conn \in q.arg.has}
  /\ UNCHANGED <<server, sent, dialog, saving>>

\* listError, and the list stays as it is.
ListFails(q) == q.kind = "list" /\ Take(q) /\ UNCHANGED <<server, tree, dialog, saving>>

-----------------------------------------------------------------------------
(* What changes the server.                                                  *)

OpenDialog(d) ==
  /\ dialog = None /\ dialog' = d
  /\ UNCHANGED <<server, flying, sent, tree, saving>>

\* Cancel works while a save is under way, and does not stop it.
CloseDialog ==
  /\ dialog # None /\ dialog' = None /\ saving' = 0
  /\ UNCHANGED <<server, flying, sent, tree>>

\* The id of a new connection was never seen before.
Save ==
  /\ dialog # None /\ saving = 0
  /\ saving' = sent + 1
  /\ \E c \in IF dialog = New THEN {d \in Conns \ stored : showAll[d] = "unset"} ELSE {dialog},
        all \in {"all", "one"} :
       Send(flying, Request("save", c, [all |-> all, new |-> dialog = New]))
  /\ UNCHANGED <<server, tree, dialog>>

Saved(q) == /\ q.arg.new \/ q.conn \in stored
            /\ stored' = stored \cup {q.conn}
            /\ byDefault' = [byDefault EXCEPT ![q.conn] = q.arg.all]

\* onSaved closes the dialog that is open by now and asks for the list. An
\* answer that is lost or says no only ends the saving of its own form.
SaveAnswered(q) ==
  /\ q.kind = "save"
  /\ \/ /\ Saved(q)
        /\ dialog' = None /\ saving' = 0
        /\ Send(flying \ {q}, ListRequest(stored', byDefault'))
     \/ /\ Saved(q) \/ UNCHANGED server
        /\ saving' = IF saving = q.n THEN 0 ELSE saving
        /\ Take(q) /\ UNCHANGED dialog
  /\ UNCHANGED <<tree>>

\* The delete the operator has confirmed; then the list is asked for.
Delete(c) ==
  /\ Send(flying, Request("delete", c, None))
  /\ UNCHANGED <<server, tree, dialog, saving>>

DeleteAnswered(q) ==
  /\ q.kind = "delete"
  /\ \/ /\ stored' = stored \ {q.conn}
        /\ Send(flying \ {q}, ListRequest(stored', byDefault))
     \/ /\ stored' \in {stored, stored \ {q.conn}}
        /\ Take(q)
  /\ UNCHANGED <<byDefault, tree, dialog, saving>>

\* renameSchema is given the connection and the schema, not the database the
\* node is under; the server renames in the connection's own.
RenameSchema(c) ==
  /\ \/ node[c].open /\ node[c].shows = "schemas"
     \/ Mounted(node[c]) /\ node[c].shows = "databases" /\ kid[c].open /\ kid[c].shows = "items"
  /\ Send(flying, Request("rename", c, None))
  /\ UNCHANGED <<server, tree, dialog, saving>>

\* onRestoreFile, once a file is chosen and the overwrite confirmed.
Restore(c) ==
  /\ Send(flying, Request("restore", c, None))
  /\ UNCHANGED <<server, tree, dialog, saving>>

\* Either one that worked bumps the reload key of its connection, when there
\* is a node to see it.
ChangeAnswered(q) ==
  /\ q.kind \in {"rename", "restore"}
  /\ \/ /\ q.conn \in listed
        /\ Becomes(q.conn, [Reloaded(q.conn) EXCEPT !.loading = TRUE])
        /\ Send(FlyingAfter(q.conn, Reloaded(q.conn)) \ {q},
                Request("node", q.conn, Level(showAll[q.conn])))
     \/ Take(q) /\ UNCHANGED <<node, kid>>
  /\ UNCHANGED <<server, listed, showAll, dialog, saving>>

-----------------------------------------------------------------------------

\* The page has just mounted and asks for the list.
Init ==
  /\ stored \in SUBSET Conns /\ byDefault \in [Conns -> {"all", "one"}]
  /\ sent = 1
  /\ flying = {[n |-> 1, kind |-> "list", conn |-> None,
                arg |-> [has |-> stored, all |-> byDefault]]}
  /\ listed = {} /\ showAll = [c \in Conns |-> "unset"]
  /\ node = [c \in Conns |-> Fresh] /\ kid = [c \in Conns |-> Fresh]
  /\ dialog = None /\ saving = 0

ConnectionNode(c) ==
  \/ Toggle(c) \/ Refresh(c) \/ ToggleShowAll(c) \/ OpenDialog(c) \/ Delete(c) \/ Restore(c)

\* A schema or a database; the latter can be restored too.
TreeNode(c) == KidToggle(c) \/ KidRefresh(c) \/ RenameSchema(c)
               \/ (Mounted(node[c]) /\ node[c].shows = "databases" /\ Restore(c))

ConnectionDialog == CloseDialog \/ Save
Header           == ReloadList \/ OpenDialog(New)

Next ==
  \/ Header \/ ConnectionDialog
  \/ \E c \in listed : ConnectionNode(c) \/ TreeNode(c)
  \/ \E q \in flying : \/ ListAnswered(q) \/ ListFails(q) \/ NodeAnswered(q) \/ KidAnswered(q)
                       \/ SaveAnswered(q) \/ DeleteAnswered(q) \/ ChangeAnswered(q)

Spec == Init /\ [][Next]_vars

-----------------------------------------------------------------------------

\* "without clobbering any explicit in-session toggle the user has already
\* made": a list that arrives, after an edit of the stored default too, never
\* changes a flag of a node that is there, so no tree is invalidated unasked.
TogglesSurvive ==
  [][\A c \in listed : showAll'[c] # showAll[c] => ToggleShowAll(c)]_vars

\* A node that says it is loading has a request under way, so its spinner
\* ends: also when it was collapsed, refreshed or re-pointed meanwhile.
TreeSpinnerHasALoad ==
  \A c \in Conns :
    /\ node[c].loading => \E q \in flying : q.kind = "node" /\ q.conn = c
    /\ kid[c].loading  => \E q \in flying : q.kind = "kid" /\ q.conn = c
=============================================================================
