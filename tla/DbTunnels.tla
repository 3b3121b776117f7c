------------------------------- MODULE DbTunnels -------------------------------
(***************************************************************************)
(* SSH tunnels of saved database connections: a forwarder per connection,  *)
(* kept in _tunnels with a signature of the fields it was opened with, and *)
(* shared by every request; the handlers that edit and delete connections  *)
(* and SSH configs close them.  A forwarder is known by its local port,    *)
(* which stays bound until it is stopped.  There is one SSH config, which  *)
(* any connection may refer to; what a tunnel leads through, with which    *)
(* credentials, and to which database is its route.                        *)
(***************************************************************************)
EXTENDS FiniteSets

CONSTANTS
  Workers,  \* request handlers
  Conns,    \* saved connections, by public_id
  Routes,   \* values of the fields a tunnel depends on
  Ports,    \* local ports
  None      \* no port, no route, no row

VARIABLES
  rows,     \* db_connections: inline route, and whether the SSH config is used
  config,   \* ssh_configs: the route of the one config
  tunnels,  \* _tunnels: per connection, the port of its forwarder
  bound,    \* per port, the forwarder bound to it
  handler,
  raced     \* history: the connections whose tunnel was opened from a row that was stale or
            \* about to be deleted

db == <<rows, config>>
fwds == <<tunnels, bound, raced>>
vars == <<db, fwds, handler>>

Rows == [inline : Routes \cup {None}, cfg : BOOLEAN]
Forwarders == [conn : Conns, sig : {"cfg", "inline"} \X Routes, up : BOOLEAN]
ASSUME TunnelsAssumption == None \notin Conns \cup Routes \cup Ports \cup Rows \cup Forwarders

Handlers ==
  [op : {"idle", "load", "open", "dial", "list", "edit", "delete", "deleteConfig"},
   conn : Conns \cup {None}, row : Rows \cup {None},
   sig : ({"cfg", "inline"} \X Routes) \cup {None},
   port : Ports \cup {None}, todo : SUBSET Conns]

Idle == [op |-> "idle", conn |-> None, row |-> None, sig |-> None, port |-> None, todo |-> {}]
Become(w, h) == handler' = [handler EXCEPT ![w] = h]

\* resolve_ssh and ssh_signature: a config wins over the inline fields; None is a direct
\* connection.
Signature(row, cf) ==
  IF row.cfg /\ cf # None THEN <<"cfg", cf>>
  ELSE IF row.inline # None THEN <<"inline", row.inline>> ELSE None

Current(c) == IF rows[c] = None THEN None ELSE Signature(rows[c], config)

-------------------------------------------------------------------------------
(* A request that uses a connection: it loads the row, then the config the row refers *)
(* to, then takes the lock.                                                           *)

Load(w, c) ==
  /\ handler[w] = Idle /\ rows[c] # None
  /\ Become(w, [Idle EXCEPT !.op = "load", !.conn = c, !.row = rows[c]])
  /\ UNCHANGED <<db, fwds>>

Resolve(w) ==
  /\ handler[w].op = "load"
  /\ LET s == Signature(handler[w].row, config)
     IN  Become(w, IF s = None THEN Idle
                   ELSE [Idle EXCEPT !.op = "open", !.conn = handler[w].conn, !.sig = s])
  /\ UNCHANGED <<db, fwds>>

\* Mutant: the signature is not compared.
UsableIfUp(c, s) == tunnels[c] # None /\ bound[tunnels[c]].up

Usable(c, s) ==
  /\ tunnels[c] # None
  /\ bound[tunnels[c]].sig = s /\ bound[tunnels[c]].up

Deleting(c) == \E v \in Workers : \/ handler[v].op = "delete" /\ handler[v].conn = c
                                  \/ handler[v].op = "deleteConfig" /\ rows[c] # None /\ rows[c].cfg

\* Mutant: the forwarder that is replaced is forgotten, not stopped.
FreedNone(c) == bound

\* The forwarder of c is stopped.
Freed(c) == [p \in Ports |-> IF p = tunnels[c] THEN None ELSE bound[p]]

Reuse(w) ==
  LET h == handler[w]
  IN  /\ h.op = "open" /\ Usable(h.conn, h.sig)
      /\ Become(w, [h EXCEPT !.op = "dial", !.port = tunnels[h.conn]])
      /\ UNCHANGED <<db, fwds>>

Open(w) ==
  LET h == handler[w]
  IN  /\ h.op = "open" /\ ~Usable(h.conn, h.sig)
      /\ \E p \in {q \in Ports : Freed(h.conn)[q] = None} :
           /\ bound' = [Freed(h.conn) EXCEPT ![p] = [conn |-> h.conn, sig |-> h.sig, up |-> TRUE]]
           /\ tunnels' = [tunnels EXCEPT ![h.conn] = p]
           /\ Become(w, [h EXCEPT !.op = "dial", !.port = p])
      /\ raced' = IF h.sig # Current(h.conn) \/ Deleting(h.conn)
                  THEN raced \cup {h.conn} ELSE raced \ {h.conn}
      /\ UNCHANGED db

\* The bastion cannot be reached: DbTunnelError.
OpenFails(w) ==
  LET h == handler[w]
  IN  /\ h.op = "open" /\ ~Usable(h.conn, h.sig)
      /\ bound' = Freed(h.conn)
      /\ tunnels' = [tunnels EXCEPT ![h.conn] = None]
      /\ raced' = raced \ {h.conn}
      /\ Become(w, Idle)
      /\ UNCHANGED db

\* The driver dials the port, with the lock long released.
Dial(w) ==
  /\ handler[w].op = "dial"
  /\ Become(w, Idle)
  /\ UNCHANGED <<db, fwds>>

\* The SSH connection of a forwarder is lost.
Die(p) ==
  /\ bound[p] # None /\ bound[p].up
  /\ bound' = [bound EXCEPT ![p].up = FALSE]
  /\ UNCHANGED <<db, tunnels, raced, handler>>

-------------------------------------------------------------------------------
(* The handlers that edit and delete. *)

\* delete_ssh_config writes first, and holds SQLite's write lock until it commits.
Writing == \E v \in Workers : handler[v].op = "deleteConfig"

Closing(op, c, cs) == [Idle EXCEPT !.op = op, !.conn = c, !.todo = cs]

\* Mutant: the connections that refer to a config are left alone.
ReferringNone == {}

Referring == {c \in Conns : rows[c] # None /\ rows[c].cfg}

\* update_db_connection: commit, then close.
Edit(w, c, row) ==
  /\ handler[w] = Idle /\ rows[c] # None /\ ~Writing /\ (row.cfg => config # None)
  /\ rows' = [rows EXCEPT ![c] = row]
  /\ Become(w, Closing("edit", None, {c}))
  /\ UNCHANGED <<config, fwds>>

\* update_ssh_config: commit, look for the connections that refer to it, close theirs.
EditConfig(w, r) ==
  /\ handler[w] = Idle /\ config # None /\ ~Writing
  /\ config' = r
  /\ Become(w, [Idle EXCEPT !.op = "list"])
  /\ UNCHANGED <<rows, fwds>>

List(w) ==
  /\ handler[w].op = "list"
  /\ Become(w, Closing("edit", None, Referring))
  /\ UNCHANGED <<db, fwds>>

\* delete_db_connection: close, then commit.
Delete(w, c) ==
  /\ handler[w] = Idle /\ rows[c] # None
  /\ Become(w, Closing("delete", c, {c}))
  /\ UNCHANGED <<db, fwds>>

\* delete_ssh_config: likewise, for every connection that refers to it.
DeleteConfig(w) ==
  /\ handler[w] = Idle /\ config # None /\ ~Writing
  /\ Become(w, Closing("deleteConfig", None, Referring))
  /\ UNCHANGED <<db, fwds>>

\* close: out of _tunnels under the lock, and stopped after it.
Pop(w, c) ==
  /\ c \in handler[w].todo /\ handler[w].port = None
  /\ tunnels' = [tunnels EXCEPT ![c] = None]
  /\ raced' = raced \ {c}
  /\ Become(w, [handler[w] EXCEPT !.todo = @ \ {c}, !.port = tunnels[c]])
  /\ UNCHANGED <<db, bound>>

IsClosing(w) == handler[w].op \in {"edit", "delete", "deleteConfig"}

Stop(w) ==
  /\ IsClosing(w) /\ handler[w].port # None
  /\ bound' = [bound EXCEPT ![handler[w].port] = None]
  /\ Become(w, [handler[w] EXCEPT !.port = None])
  /\ UNCHANGED <<db, tunnels, raced>>

Closed(w) == handler[w].todo = {} /\ handler[w].port = None

Finish(w) ==
  /\ Closed(w)
  /\ \/ handler[w].op = "edit" /\ UNCHANGED db
     \/ /\ handler[w].op = "delete" /\ ~Writing
        /\ rows' = [rows EXCEPT ![handler[w].conn] = None]
        /\ UNCHANGED config
     \/ /\ handler[w].op = "deleteConfig"
        /\ config' = None
        /\ rows' = [c \in Conns |-> IF c \in Referring THEN [rows[c] EXCEPT !.cfg = FALSE]
                                    ELSE rows[c]]
  /\ Become(w, Idle)
  /\ UNCHANGED fwds

-------------------------------------------------------------------------------
Init ==
  /\ rows \in [Conns -> Rows] /\ config \in Routes
  /\ tunnels = [c \in Conns |-> None]
  /\ bound = [p \in Ports |-> None]
  /\ handler = [w \in Workers |-> Idle]
  /\ raced = {}

Request(w) ==
  \/ \E c \in Conns : Load(w, c) \/ Delete(w, c) \/ Pop(w, c) \/ \E row \in Rows : Edit(w, c, row)
  \/ (\E r \in Routes : EditConfig(w, r)) \/ DeleteConfig(w)
  \/ Resolve(w) \/ Reuse(w) \/ Open(w) \/ OpenFails(w) \/ Dial(w)
  \/ List(w) \/ Stop(w) \/ Finish(w)

Next == (\E w \in Workers : Request(w)) \/ \E p \in Ports : Die(p)

Spec == Init /\ [][Next]_vars

-------------------------------------------------------------------------------
(* Properties. *)

TypeOK ==
  /\ rows \in [Conns -> Rows \cup {None}] /\ config \in Routes \cup {None}
  /\ tunnels \in [Conns -> Ports \cup {None}]
  /\ bound \in [Ports -> Forwarders \cup {None}]
  /\ handler \in [Workers -> Handlers]
  /\ raced \subseteq {c \in Conns : tunnels[c] # None}

\* No forwarder is lost track of: one that is bound is its connection's in _tunnels, or a
\* close has taken it out and is about to stop it; and _tunnels leads to no other
\* connection's forwarder.
NoOrphans ==
  /\ \A p \in Ports : bound[p] # None =>
       tunnels[bound[p].conn] = p \/ \E w \in Workers : IsClosing(w) /\ handler[w].port = p
  /\ \A c \in Conns : tunnels[c] # None => bound[tunnels[c]] # None /\ bound[tunnels[c]].conn = c

\* target gives a request a live forwarder that leads where the row it read says, whoever
\* opened it ("if any changed ... must be replaced").
TargetIsRight ==
  [][\A w \in Workers : handler'[w].op = "dial" /\ handler[w].op = "open" =>
       LET f == bound'[handler'[w].port]
       IN  f # None /\ f.up /\ f.sig = handler[w].sig /\ f.conn = handler[w].conn]_vars

\* Still to be closed by a handler under way.
Pending(c) == \E w \in Workers : \/ c \in handler[w].todo
                                 \/ handler[w].op \in {"list", "deleteConfig"}
                                 \/ handler[w].op = "delete" /\ handler[w].conn = c

\* "If any changed since the cached tunnel was opened (on the connection OR the referenced
\* config)": once the handlers of an edit or a delete are through, a tunnel left in the
\* cache leads where its row says, unless it was opened from a row that was stale or about
\* to be deleted.
EditsTearDown ==
  \A c \in Conns \ raced : tunnels[c] # None /\ ~Pending(c) => bound[tunnels[c]].sig = Current(c)

\* "They are torn down when the connection is edited or deleted."  Broken by a request that
\* opens the tunnel after the delete closed it and before it commits, or with a row it
\* read before.
DeletedHasNoTunnel ==
  (\A w \in Workers : handler[w] = Idle) => \A c \in Conns : rows[c] = None => tunnels[c] = None
================================================================================
