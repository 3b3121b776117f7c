----------------------------- MODULE HandlersProofs -----------------------------
(***************************************************************************)
(* Theorems about what the operators register, as MCHandlers composes it,   *)
(* for any connections, ports, requests, servers and groups: no forwarder   *)
(* is lost track of, and a request dials a tunnel that leads where its row   *)
(* says; no request but those that do not check it makes servers share an   *)
(* address or a name; the groups stay a forest, whose hierarchy they        *)
(* implement.                                                              *)
(***************************************************************************)
EXTENDS MCHandlers, FoldLemmas, SequenceTheorems

-------------------------------------------------------------------------------
(* Tunnels. *)

Closers == {"edit", "delete", "deleteConfig"}
Sigs == {"cfg", "inline"} \X Routes

\* What a handler knows at each of its stages.
Staged ==
  {h \in Handlers :
     /\ h.op = "load" => h.conn \in Conns /\ h.row \in Rows
     /\ h.op = "open" => h.conn \in Conns /\ h.sig \in Sigs
     /\ h.op = "delete" => h.conn \in Conns
     /\ h.todo # {} => h.op \in Closers}

\* What a close has taken out is bound, in no cache entry, and stopped by it alone.
Popped(w) == IsClosing(w) /\ handler[w].port # None

PoppedOK ==
  /\ \A w \in Workers : Popped(w) =>
       bound[handler[w].port] # None /\ \A c \in Conns : tunnels[c] # handler[w].port
  /\ \A v, w \in Workers : v # w /\ Popped(v) /\ Popped(w) => handler[v].port # handler[w].port

Inv == TypeOK /\ handler \in [Workers -> Staged] /\ NoOrphans /\ PoppedOK

-------------------------------------------------------------------------------
LEMMA IdleType == Idle \in Staged /\ Idle.op \notin Closers /\ Idle.port = None
  BY DEF Idle, Staged, Handlers, Closers

LEMMA BecomeType ==
  ASSUME Inv, NEW w \in Workers, NEW h \in Staged, Become(w, h)
  PROVE  /\ handler' \in [Workers -> Staged] /\ handler' \in [Workers -> Handlers]
         /\ handler'[w] = h /\ \A v \in Workers \ {w} : handler'[v] = handler[v]
  BY DEF Inv, Become, Staged

LEMMA SignatureType ==
  ASSUME NEW row \in Rows, NEW cf \in Routes \cup {None}
  PROVE  Signature(row, cf) \in Sigs \cup {None}
  BY DEF Signature, Rows, Sigs

\* A step of one handler that holds no popped port and takes none, and leaves the cache
\* and the ports alone.
LEMMA QuietInv ==
  ASSUME Inv, NEW w \in Workers, NEW h \in Staged, Become(w, h), UNCHANGED fwds,
         ~Popped(w), h.op \in Closers => h.port = None,
         rows' \in [Conns -> Rows \cup {None}], config' \in Routes \cup {None}
  PROVE  Inv'
<1> USE DEF Inv
<1>1. /\ handler' \in [Workers -> Staged] /\ handler' \in [Workers -> Handlers]
      /\ handler'[w] = h /\ \A v \in Workers \ {w} : handler'[v] = handler[v]
  BY BecomeType
<1>2. ~Popped(w)' /\ \A v \in Workers \ {w} : Popped(v)' <=> Popped(v)
  BY <1>1 DEF Popped, IsClosing, Closers
<1>3. TypeOK'
  BY <1>1 DEF TypeOK, fwds
<1>4. NoOrphans'
  <2> SUFFICES ASSUME NEW p \in Ports, bound[p] # None,
                      NEW v \in Workers, IsClosing(v), handler[v].port = p
               PROVE  IsClosing(v)' /\ handler'[v].port = p
    BY DEF NoOrphans, fwds
  <2>1. Popped(v)
    BY TunnelsAssumption DEF Popped
  <2> QED BY <1>1, <2>1 DEF IsClosing
<1>5. PoppedOK'
  BY <1>1, <1>2 DEF PoppedOK, fwds
<1> QED BY <1>1, <1>3, <1>4, <1>5

LEMMA InitInv == Init => Inv
<1> SUFFICES ASSUME Init PROVE Inv
  OBVIOUS
<1>1. handler \in [Workers -> Staged] /\ handler \in [Workers -> Handlers]
  BY IdleType DEF Init, Staged
<1>2. \A w \in Workers : ~Popped(w) /\ ~IsClosing(w)
  BY IdleType DEF Init, Popped, IsClosing, Closers
<1>3. TypeOK
  BY <1>1 DEF Init, TypeOK
<1> QED BY <1>1, <1>2, <1>3 DEF Init, Inv, NoOrphans, PoppedOK

-------------------------------------------------------------------------------
\* The steps that leave the forwarders alone: a request reads, or finds its tunnel, or
\* dials; a handler of an edit or a delete starts, or commits.
LEMMA BystanderInv ==
  ASSUME Inv, NEW w \in Workers,
         \/ \E c \in Conns : Load(w, c) \/ Delete(w, c) \/ \E row \in Rows : Edit(w, c, row)
         \/ Resolve(w) \/ Reuse(w) \/ Dial(w)
         \/ (\E r \in Routes : EditConfig(w, r)) \/ DeleteConfig(w) \/ List(w) \/ Finish(w)
  PROVE  Inv'
<1> USE DEF Inv
<1>1. /\ rows \in [Conns -> Rows \cup {None}] /\ config \in Routes \cup {None}
      /\ handler[w] \in Staged /\ handler[w] \in Handlers
      /\ tunnels \in [Conns -> Ports \cup {None}]
  BY DEF TypeOK
<1>2. ASSUME NEW c \in Conns, Load(w, c) PROVE Inv'
  <2> DEFINE h == [Idle EXCEPT !.op = "load", !.conn = c, !.row = rows[c]]
  <2>1. h \in Staged /\ h.op \notin Closers
    BY <1>1, <1>2 DEF Load, Staged, Handlers, Idle, Closers
  <2>2. Become(w, h) /\ UNCHANGED <<db, fwds>> /\ ~Popped(w)
    BY <1>2, IdleType DEF Load, Popped, IsClosing, Closers
  <2> HIDE DEF h
  <2> QED BY <1>1, <2>1, <2>2, QuietInv DEF db
<1>3. ASSUME NEW c \in Conns, Delete(w, c) PROVE Inv'
  <2> DEFINE h == Closing("delete", c, {c})
  <2>1. h \in Staged /\ h.port = None
    BY DEF Closing, Staged, Handlers, Idle, Closers
  <2>2. Become(w, h) /\ UNCHANGED fwds /\ ~Popped(w)
    BY <1>3, IdleType DEF Delete, Popped, IsClosing, Closers
  <2>3. rows' \in [Conns -> Rows \cup {None}] /\ config' \in Routes \cup {None}
    BY <1>1, <1>3 DEF Delete, db
  <2> HIDE DEF h
  <2> QED BY <2>1, <2>2, <2>3, QuietInv
<1>4. ASSUME NEW c \in Conns, NEW row \in Rows, Edit(w, c, row) PROVE Inv'
  <2> DEFINE h == Closing("edit", None, {c})
  <2>1. h \in Staged /\ h.port = None
    BY DEF Closing, Staged, Handlers, Idle, Closers
  <2>2. Become(w, h) /\ UNCHANGED fwds /\ ~Popped(w)
    BY <1>4, IdleType DEF Edit, Popped, IsClosing, Closers
  <2>3. rows' \in [Conns -> Rows \cup {None}] /\ config' \in Routes \cup {None}
    BY <1>1, <1>4 DEF Edit, db
  <2> HIDE DEF h
  <2> QED BY <2>1, <2>2, <2>3, QuietInv
<1>5. CASE Resolve(w)
  <2> DEFINE s == Signature(handler[w].row, config)
  <2>1. s \in Sigs \cup {None} /\ handler[w].conn \in Conns
    BY <1>1, <1>5, SignatureType DEF Resolve, Staged
  <2>2. CASE s = None
    BY <1>1, <1>5, <2>2, IdleType, QuietInv DEF Resolve, Popped, IsClosing, db
  <2>3. CASE s # None
    <3>1. [Idle EXCEPT !.op = "open", !.conn = handler[w].conn, !.sig = s] \in Staged
      BY <2>1, <2>3 DEF Staged, Handlers, Idle, Sigs
    <3> QED BY <1>1, <1>5, <2>3, <3>1, QuietInv DEF Resolve, Idle, Closers, Popped, IsClosing, db
  <2> QED BY <2>2, <2>3
<1>6. CASE Reuse(w)
  <2>1. [handler[w] EXCEPT !.op = "dial", !.port = tunnels[handler[w].conn]] \in Staged
    BY <1>1, <1>6 DEF Reuse, Staged, Handlers, Closers
  <2> QED BY <1>1, <1>6, <2>1, QuietInv DEF Reuse, Staged, Handlers, Closers, Popped, IsClosing, db
<1>7. CASE Dial(w)
  BY <1>1, <1>7, IdleType, QuietInv DEF Dial, Popped, IsClosing, db
<1>8. ASSUME NEW r \in Routes, EditConfig(w, r) PROVE Inv'
  <2>1. [Idle EXCEPT !.op = "list"] \in Staged
    BY DEF Staged, Handlers, Idle
  <2> QED BY <1>1, <1>8, <2>1, QuietInv DEF EditConfig, Idle, Closers, Popped, IsClosing
<1>9. CASE DeleteConfig(w)
  <2> DEFINE h == Closing("deleteConfig", None, Referring)
  <2>1. h \in Staged /\ h.port = None
    BY DEF Closing, Referring, Staged, Handlers, Idle, Closers
  <2>2. Become(w, h) /\ UNCHANGED fwds /\ ~Popped(w)
    BY <1>9, IdleType DEF DeleteConfig, Popped, IsClosing, Closers
  <2>3. rows' \in [Conns -> Rows \cup {None}] /\ config' \in Routes \cup {None}
    BY <1>1, <1>9 DEF DeleteConfig, db
  <2> HIDE DEF h
  <2> QED BY <2>1, <2>2, <2>3, QuietInv
<1>10. CASE List(w)
  <2>1. Closing("edit", None, Referring) \in Staged
    BY DEF Closing, Referring, Staged, Handlers, Idle, Closers
  <2> QED BY <1>1, <1>10, <2>1, QuietInv DEF List, Closing, Idle, Closers, Popped, IsClosing, db
<1>11. CASE Finish(w)
  <2>1. rows' \in [Conns -> Rows \cup {None}] /\ config' \in Routes \cup {None}
    BY <1>1, <1>11 DEF Finish, db, Rows, Referring
  <2> QED BY <1>11, <2>1, IdleType, QuietInv DEF Finish, Closed, Popped
<1> QED BY <1>2, <1>3, <1>4, <1>5, <1>6, <1>7, <1>8, <1>9, <1>10, <1>11

-------------------------------------------------------------------------------
\* What target does to the cache under the lock.
LEMMA OpenInv ==
  ASSUME Inv, NEW w \in Workers, Open(w) \/ OpenFails(w)
  PROVE  Inv'
<1> USE DEF Inv
<1> DEFINE h == handler[w]
           c == handler[w].conn
<1>1. /\ h \in Staged /\ h.op = "open" /\ c \in Conns /\ h.sig \in Sigs /\ ~Popped(w)
      /\ tunnels \in [Conns -> Ports \cup {None}] /\ bound \in [Ports -> Forwarders \cup {None}]
  BY DEF TypeOK, Open, OpenFails, Staged, Popped, IsClosing
<1>2. /\ Freed(c) \in [Ports -> Forwarders \cup {None}]
      /\ \A q \in Ports : Freed(c)[q] = IF q = tunnels[c] THEN None ELSE bound[q]
  BY <1>1 DEF Freed
<1>3. \A d \in Conns \ {c} : tunnels[d] # None => tunnels[d] # tunnels[c] /\ bound[tunnels[d]] # None
                                               /\ bound[tunnels[d]].conn = d
  BY <1>1 DEF NoOrphans
<1>4. \A v \in Workers : Popped(v) => /\ handler[v].port \in Ports /\ handler[v].port # tunnels[c]
                                      /\ Freed(c)[handler[v].port] = bound[handler[v].port]
                                      /\ bound[handler[v].port] # None
  <2> SUFFICES ASSUME NEW v \in Workers, Popped(v)
               PROVE  /\ handler[v].port \in Ports /\ handler[v].port # tunnels[c]
                      /\ Freed(c)[handler[v].port] = bound[handler[v].port]
                      /\ bound[handler[v].port] # None
    OBVIOUS
  <2>1. handler[v].port \in Ports
    BY DEF Popped, TypeOK, Handlers
  <2> QED BY <1>1, <1>2, <2>1 DEF PoppedOK
<1>5. CASE OpenFails(w)
  <2>1. /\ bound' = Freed(c) /\ tunnels' = [tunnels EXCEPT ![c] = None]
        /\ raced' = raced \ {c} /\ Become(w, Idle) /\ UNCHANGED db
    BY <1>5 DEF OpenFails
  <2>2. /\ handler' \in [Workers -> Staged] /\ handler' \in [Workers -> Handlers]
        /\ handler'[w] = Idle /\ \A v \in Workers \ {w} : handler'[v] = handler[v]
    BY <2>1, IdleType, BecomeType
  <2>3. ~Popped(w)' /\ \A v \in Workers \ {w} : Popped(v)' <=> Popped(v)
    BY <2>2, IdleType DEF Popped, IsClosing, Closers
  <2>4. TypeOK'
    BY <1>1, <1>2, <2>1, <2>2 DEF TypeOK, db
  <2>5. PoppedOK'
    <3>1. \A v \in Workers : Popped(v)' => Popped(v) /\ handler'[v].port = handler[v].port
      BY <2>2, <2>3
    <3>2. \A v \in Workers, d \in Conns : Popped(v) => tunnels'[d] # handler[v].port
      BY <1>1, <2>1 DEF PoppedOK, Popped
    <3> QED BY <1>4, <2>1, <3>1, <3>2 DEF PoppedOK
  <2>6. NoOrphans'
    <3>1. ASSUME NEW p \in Ports, bound'[p] # None
          PROVE  tunnels'[bound'[p].conn] = p \/ \E v \in Workers : IsClosing(v)' /\ handler'[v].port = p
      <4>1. bound'[p] = bound[p] /\ p # tunnels[c] /\ bound[p].conn \in Conns
        BY <1>1, <1>2, <2>1, <3>1 DEF Forwarders
      <4>2. CASE tunnels[bound[p].conn] = p
        BY <1>1, <2>1, <4>1, <4>2
      <4>3. ASSUME NEW v \in Workers, IsClosing(v), handler[v].port = p
            PROVE  IsClosing(v)' /\ handler'[v].port = p
        BY <1>1, <2>2, <4>3, TunnelsAssumption DEF IsClosing
      <4> QED BY <3>1, <4>1, <4>2, <4>3 DEF NoOrphans
    <3>2. ASSUME NEW d \in Conns, tunnels'[d] # None
          PROVE  bound'[tunnels'[d]] # None /\ bound'[tunnels'[d]].conn = d
      <4>1. d # c /\ tunnels'[d] = tunnels[d] /\ tunnels[d] \in Ports
        BY <1>1, <2>1, <3>2
      <4> QED BY <1>2, <1>3, <2>1, <3>2, <4>1
    <3> QED BY <3>1, <3>2 DEF NoOrphans
  <2> QED BY <2>2, <2>4, <2>5, <2>6
<1>6. CASE Open(w)
  <2>1. PICK p \in {q \in Ports : Freed(c)[q] = None} :
          /\ bound' = [Freed(c) EXCEPT ![p] = [conn |-> c, sig |-> h.sig, up |-> TRUE]]
          /\ tunnels' = [tunnels EXCEPT ![c] = p]
          /\ Become(w, [h EXCEPT !.op = "dial", !.port = p])
    BY <1>6 DEF Open
  <2>2. [h EXCEPT !.op = "dial", !.port = p] \in Staged /\ UNCHANGED db /\ raced' \subseteq raced \cup {c}
    BY <1>1, <1>6 DEF Staged, Handlers, Closers, Open
  <2>3. /\ handler' \in [Workers -> Staged] /\ handler' \in [Workers -> Handlers]
        /\ handler'[w] = [h EXCEPT !.op = "dial", !.port = p]
        /\ \A v \in Workers \ {w} : handler'[v] = handler[v]
    BY <2>1, <2>2, BecomeType
  <2>4. ~Popped(w)' /\ \A v \in Workers \ {w} : Popped(v)' <=> Popped(v)
    BY <1>1, <2>3 DEF Popped, IsClosing, Staged, Handlers
  <2>5. p # None /\ [conn |-> c, sig |-> h.sig, up |-> TRUE] \in Forwarders
        /\ [conn |-> c, sig |-> h.sig, up |-> TRUE] # None
    <3>1. p \in Ports /\ [conn |-> c, sig |-> h.sig, up |-> TRUE] \in Forwarders
      BY <1>1, <2>1 DEF Forwarders, Sigs
    <3> QED BY <3>1, TunnelsAssumption
  <2>6. TypeOK'
    BY <1>1, <1>2, <2>1, <2>2, <2>3, <2>5 DEF TypeOK, db
  <2>7. PoppedOK'
    BY <1>1, <1>2, <1>4, <2>1, <2>3, <2>4 DEF PoppedOK
  <2>8. NoOrphans'
    <3>1. ASSUME NEW q \in Ports, bound'[q] # None
          PROVE  tunnels'[bound'[q].conn] = q \/ \E v \in Workers : IsClosing(v)' /\ handler'[v].port = q
      <4>1. CASE q = p
        BY <1>1, <1>2, <2>1, <4>1
      <4>2. CASE q # p
        <5>1. bound'[q] = bound[q] /\ q # tunnels[c] /\ bound[q].conn \in Conns
          BY <1>1, <1>2, <2>1, <3>1, <4>2 DEF Forwarders
        <5>2. CASE tunnels[bound[q].conn] = q
          BY <1>1, <2>1, <5>1, <5>2
        <5>3. ASSUME NEW v \in Workers, IsClosing(v), handler[v].port = q
              PROVE  IsClosing(v)' /\ handler'[v].port = q
          BY <1>1, <2>3, <5>3, TunnelsAssumption DEF IsClosing
        <5> QED BY <3>1, <5>1, <5>2, <5>3 DEF NoOrphans
      <4> QED BY <4>1, <4>2
    <3>2. ASSUME NEW d \in Conns, tunnels'[d] # None
          PROVE  bound'[tunnels'[d]] # None /\ bound'[tunnels'[d]].conn = d
      <4>1. CASE d = c
        BY <1>1, <1>2, <2>1, <2>5, <4>1
      <4>2. CASE d # c
        <5>1. tunnels'[d] = tunnels[d] /\ tunnels[d] \in Ports
          BY <1>1, <2>1, <3>2, <4>2
        <5>2. tunnels[d] # p
          BY <1>2, <1>3, <2>1, <3>2, <4>2, <5>1
        <5> QED BY <1>2, <1>3, <2>1, <3>2, <4>2, <5>1, <5>2
      <4> QED BY <4>1, <4>2
    <3> QED BY <3>1, <3>2 DEF NoOrphans
  <2> QED BY <2>3, <2>6, <2>7, <2>8
<1> QED BY <1>5, <1>6

\* A close takes the forwarder out of the cache, and stops it.
LEMMA CloseInv ==
  ASSUME Inv, NEW w \in Workers, (\E c \in Conns : Pop(w, c)) \/ Stop(w)
  PROVE  Inv'
<1> USE DEF Inv
<1> DEFINE h == handler[w]
<1>1. /\ h \in Staged /\ tunnels \in [Conns -> Ports \cup {None}]
      /\ bound \in [Ports -> Forwarders \cup {None}]
  BY DEF TypeOK
<1>2. ASSUME NEW c \in Conns, Pop(w, c) PROVE Inv'
  <2> DEFINE g == [h EXCEPT !.todo = @ \ {c}, !.port = tunnels[c]]
  <2>1. /\ c \in h.todo /\ h.port = None /\ Become(w, g) /\ UNCHANGED <<db, bound>>
        /\ tunnels' = [tunnels EXCEPT ![c] = None] /\ raced' = raced \ {c}
    BY <1>2 DEF Pop
  <2>2. g \in Staged /\ g.op = h.op /\ g.port = tunnels[c] /\ h.op \in Closers
    BY <1>1, <2>1 DEF Staged, Handlers
  <2> HIDE DEF g
  <2>3. /\ handler' \in [Workers -> Staged] /\ handler' \in [Workers -> Handlers]
        /\ handler'[w] = g /\ \A v \in Workers \ {w} : handler'[v] = handler[v]
    BY <2>1, <2>2, BecomeType
  <2>4. \A v \in Workers \ {w} : Popped(v)' <=> Popped(v)
    BY <2>3 DEF Popped, IsClosing
  <2>5. TypeOK'
    BY <1>1, <2>1, <2>3 DEF TypeOK, db
  <2>6. PoppedOK'
    <3>1. ASSUME NEW v \in Workers, Popped(v)'
          PROVE  bound'[handler'[v].port] # None /\ \A d \in Conns : tunnels'[d] # handler'[v].port
      <4>1. CASE v = w
        <5>1. handler'[w].port = tunnels[c] /\ tunnels[c] # None
          BY <2>2, <2>3, <3>1, <4>1 DEF Popped
        <5>2. bound[tunnels[c]] # None /\ \A d \in Conns \ {c} : tunnels[d] # tunnels[c]
          BY <5>1 DEF NoOrphans
        <5> QED BY <1>1, <2>1, <4>1, <5>1, <5>2
      <4>2. CASE v # w
        BY <1>1, <2>1, <2>3, <2>4, <3>1, <4>2 DEF PoppedOK, Popped
      <4> QED BY <4>1, <4>2
    <3>2. ASSUME NEW u \in Workers, NEW v \in Workers, u # v, Popped(u)', Popped(v)'
          PROVE  handler'[u].port # handler'[v].port
      <4>1. \A x \in Workers \ {w} : Popped(x)' => handler'[x].port # tunnels[c]
        BY <2>3, <2>4 DEF PoppedOK
      <4>2. handler'[w].port = tunnels[c]
        BY <2>2, <2>3
      <4> QED BY <2>3, <2>4, <3>2, <4>1, <4>2 DEF PoppedOK
    <3> QED BY <3>1, <3>2 DEF PoppedOK
  <2>7. NoOrphans'
    <3>1. ASSUME NEW p \in Ports, bound'[p] # None
          PROVE  tunnels'[bound'[p].conn] = p \/ \E v \in Workers : IsClosing(v)' /\ handler'[v].port = p
      <4>1. bound'[p] = bound[p] /\ bound[p].conn \in Conns
        BY <1>1, <2>1, <3>1 DEF Forwarders
      <4>2. ASSUME NEW v \in Workers, IsClosing(v), handler[v].port = p
            PROVE  IsClosing(v)' /\ handler'[v].port = p
        BY <2>1, <2>3, <4>2, TunnelsAssumption DEF IsClosing
      <4>3. CASE tunnels[bound[p].conn] = p /\ bound[p].conn # c
        BY <1>1, <2>1, <4>1, <4>3
      <4>4. CASE tunnels[bound[p].conn] = p /\ bound[p].conn = c
        BY <2>2, <2>3, <4>4 DEF IsClosing, Closers
      <4> QED BY <3>1, <4>1, <4>2, <4>3, <4>4 DEF NoOrphans
    <3>2. ASSUME NEW d \in Conns, tunnels'[d] # None
          PROVE  bound'[tunnels'[d]] # None /\ bound'[tunnels'[d]].conn = d
      BY <1>1, <2>1, <3>2 DEF NoOrphans
    <3> QED BY <3>1, <3>2 DEF NoOrphans
  <2> QED BY <2>3, <2>5, <2>6, <2>7
<1>3. CASE Stop(w)
  <2> DEFINE g == [h EXCEPT !.port = None]
  <2>1. /\ Popped(w) /\ h.port \in Ports /\ Become(w, g) /\ UNCHANGED <<db, tunnels, raced>>
        /\ bound' = [bound EXCEPT ![h.port] = None]
    BY <1>1, <1>3 DEF Stop, Popped, Staged, Handlers
  <2>2. g \in Staged /\ g.port = None
    BY <1>1 DEF Staged, Handlers
  <2> HIDE DEF g
  <2>3. /\ handler' \in [Workers -> Staged] /\ handler' \in [Workers -> Handlers]
        /\ handler'[w] = g /\ \A v \in Workers \ {w} : handler'[v] = handler[v]
    BY <2>1, <2>2, BecomeType
  <2>4. ~Popped(w)' /\ \A v \in Workers \ {w} : Popped(v)' <=> Popped(v)
    BY <2>2, <2>3 DEF Popped, IsClosing
  <2>5. TypeOK'
    BY <1>1, <2>1, <2>3 DEF TypeOK, db
  <2>6. PoppedOK'
    <3>1. \A v \in Workers \ {w} : Popped(v) => handler[v].port # h.port
      BY <2>1 DEF PoppedOK
    <3>2. \A v \in Workers : Popped(v) => handler[v].port \in Ports
      BY DEF Popped, TypeOK, Handlers
    <3> QED BY <1>1, <2>1, <2>3, <2>4, <3>1, <3>2 DEF PoppedOK
  <2>7. NoOrphans'
    <3>1. ASSUME NEW p \in Ports, bound'[p] # None
          PROVE  tunnels'[bound'[p].conn] = p \/ \E v \in Workers : IsClosing(v)' /\ handler'[v].port = p
      <4>1. bound'[p] = bound[p] /\ p # h.port
        BY <1>1, <2>1, <3>1
      <4>2. ASSUME NEW v \in Workers, IsClosing(v), handler[v].port = p
            PROVE  IsClosing(v)' /\ handler'[v].port = p
        BY <2>3, <4>1, <4>2 DEF IsClosing
      <4> QED BY <2>1, <3>1, <4>1, <4>2 DEF NoOrphans
    <3>2. ASSUME NEW d \in Conns, tunnels'[d] # None
          PROVE  bound'[tunnels'[d]] # None /\ bound'[tunnels'[d]].conn = d
      <4>1. tunnels[d] # h.port
        BY <2>1 DEF PoppedOK
      <4> QED BY <1>1, <2>1, <3>2, <4>1 DEF NoOrphans
    <3> QED BY <3>1, <3>2 DEF NoOrphans
  <2> QED BY <2>3, <2>5, <2>6, <2>7
<1> QED BY <1>2, <1>3

\* A dead forwarder stays bound until it is stopped.
LEMMA DieInv == ASSUME Inv, NEW p \in Ports, Die(p) PROVE Inv'
<1> USE DEF Inv
<1>1. bound \in [Ports -> Forwarders \cup {None}] /\ bound[p] \in Forwarders
  BY DEF TypeOK, Die
<1>2. [bound[p] EXCEPT !.up = FALSE] \in Forwarders /\ [bound[p] EXCEPT !.up = FALSE] # None
      /\ [bound[p] EXCEPT !.up = FALSE].conn = bound[p].conn
  <2>1. [bound[p] EXCEPT !.up = FALSE] \in Forwarders
        /\ [bound[p] EXCEPT !.up = FALSE].conn = bound[p].conn
    BY <1>1 DEF Forwarders
  <2> QED BY <2>1, TunnelsAssumption
<1>3. /\ bound' \in [Ports -> Forwarders \cup {None}]
      /\ \A q \in Ports : (bound'[q] = None <=> bound[q] = None)
                         /\ (bound[q] # None => bound'[q].conn = bound[q].conn)
  BY <1>1, <1>2 DEF Die
<1>4. TypeOK'
  BY <1>3 DEF TypeOK, Die, db
<1>5. NoOrphans'
  <2>1. \A d \in Conns : tunnels[d] # None => tunnels[d] \in Ports
    BY DEF TypeOK
  <2> QED BY <1>3, <2>1 DEF NoOrphans, Die, IsClosing
<1>6. PoppedOK'
  <2>1. \A v \in Workers : Popped(v) => handler[v].port \in Ports
    BY DEF Popped, TypeOK, Handlers
  <2> QED BY <1>3, <2>1 DEF PoppedOK, Die, Popped, IsClosing
<1> QED BY <1>4, <1>5, <1>6 DEF Die

LEMMA StepInv == Inv /\ [Next]_vars => Inv'
<1> SUFFICES ASSUME Inv, [Next]_vars PROVE Inv'
  OBVIOUS
<1>1. ASSUME NEW w \in Workers, Request(w) PROVE Inv'
  BY <1>1, BystanderInv, OpenInv, CloseInv DEF Request
<1>2. ASSUME NEW p \in Ports, Die(p) PROVE Inv'
  BY <1>2, DieInv
<1>3. CASE UNCHANGED vars
  BY <1>3 DEF vars, db, fwds, Inv, TypeOK, NoOrphans, PoppedOK, Popped, IsClosing
<1> QED BY <1>1, <1>2, <1>3 DEF Next

\* The cache, the ports and the handlers keep their types.
THEOREM TypeCorrect == Spec => []TypeOK
<1>1. Inv => TypeOK
  BY DEF Inv
<1> QED BY <1>1, InitInv, StepInv, PTL DEF Spec

\* A forwarder that is bound can be reached to be stopped, by the cache or by the close
\* that took it out, and the cache never leads to another connection's forwarder.
THEOREM NothingIsOrphaned == Spec => []NoOrphans
<1>1. Inv => NoOrphans
  BY DEF Inv
<1> QED BY <1>1, InitInv, StepInv, PTL DEF Spec
-------------------------------------------------------------------------------
(* What edits tear down. *)

Using(c) == rows[c] # None /\ rows[c].cfg

\* A handler under way will still close the tunnel of c.
Owed(c) == \E w \in Workers : c \in handler[w].todo \/ (handler[w].op = "list" /\ Using(c))

DeletedBy(w, c) ==
  \/ handler[w].op = "delete" /\ handler[w].conn = c
  \/ handler[w].op = "deleteConfig" /\ Using(c)

\* A tunnel that was not opened in a race leads where its row says, or is owed a close; and
\* one whose row or config is being deleted is owed it by the handler that deletes.
SettledAt(c) ==
  c \notin raced /\ tunnels[c] # None =>
    /\ Owed(c) \/ bound[tunnels[c]].sig = Current(c)
    /\ \A v \in Workers : DeletedBy(v, c) => c \in handler[v].todo

Settled == \A c \in Conns : SettledAt(c)

LEMMA IdleFields == Idle.op = "idle" /\ Idle.todo = {} /\ Idle.port = None
  BY DEF Idle

\* A step of one handler that leaves the tables, the cache and the forwarders as they are
\* and neither settles a debt nor starts a delete.
LEMMA KeepsSettled ==
  ASSUME Inv, Settled, NEW w \in Workers, NEW h \in Staged, Become(w, h), UNCHANGED <<db, fwds>>,
         handler[w].todo \subseteq h.todo,
         h.op \notin {"delete", "deleteConfig"} \/ h = [handler[w] EXCEPT !.port = h.port],
         handler[w].op # "list"
  PROVE  Settled'
<1>1. /\ handler'[w] = h /\ \A v \in Workers \ {w} : handler'[v] = handler[v]
  BY BecomeType
<1>2. \A v \in Workers : handler[v].todo \subseteq handler'[v].todo
                        /\ (handler[v].op = "list" => handler'[v].op = "list")
  BY <1>1
<1>3. ASSUME NEW v \in Workers, NEW c \in Conns, DeletedBy(v, c)' PROVE DeletedBy(v, c)
  <2>1. CASE v # w
    BY <1>1, <1>3, <2>1 DEF DeletedBy, Using, db
  <2>2. CASE v = w
    <3>1. handler[w].op = h.op /\ handler[w].conn = h.conn
      BY <1>1, <1>3, <2>2 DEF DeletedBy, Staged, Handlers, Inv
    <3> QED BY <1>1, <1>3, <2>2, <3>1 DEF DeletedBy, Using, db
  <2> QED BY <2>1, <2>2
<1>4. SUFFICES ASSUME NEW c \in Conns, c \notin raced, tunnels[c] # None
               PROVE  /\ Owed(c)' \/ bound[tunnels[c]].sig = Current(c)
                      /\ \A v \in Workers : DeletedBy(v, c)' => c \in handler'[v].todo
  BY DEF Settled, SettledAt, Current, db, fwds
<1>5. SettledAt(c)
  BY DEF Settled
<1>6. Owed(c) => Owed(c)'
  BY <1>2 DEF Owed, Using, db
<1> QED BY <1>2, <1>3, <1>4, <1>5, <1>6 DEF SettledAt

\* A handler of a delete starts, or that of an edited config has looked for the connections:
\* what it takes upon itself is what it deletes, or all that use the config.
LEMMA StartsSettled ==
  ASSUME Inv, Settled, NEW w \in Workers, NEW h \in Staged, Become(w, h), UNCHANGED <<db, fwds>>,
         handler[w].todo = {},
         handler[w].op = "list" => \A c \in Conns : Using(c) => c \in h.todo,
         \/ h.op = "edit"
         \/ h.op = "delete" /\ h.conn \in h.todo
         \/ h.op = "deleteConfig" /\ \A c \in Conns : Using(c) => c \in h.todo
  PROVE  Settled'
<1>1. /\ handler'[w] = h /\ \A v \in Workers \ {w} : handler'[v] = handler[v]
  BY BecomeType
<1>2. ASSUME NEW v \in Workers, NEW c \in Conns, DeletedBy(v, c)'
      PROVE  c \in handler'[v].todo \/ (DeletedBy(v, c) /\ handler'[v].todo = handler[v].todo)
  <2>1. CASE v # w
    BY <1>1, <1>2, <2>1 DEF DeletedBy, Using, db
  <2>2. CASE v = w
    BY <1>1, <1>2, <2>2 DEF DeletedBy, Using, db
  <2> QED BY <2>1, <2>2
<1>3. SUFFICES ASSUME NEW c \in Conns, c \notin raced, tunnels[c] # None
               PROVE  /\ Owed(c)' \/ bound[tunnels[c]].sig = Current(c)
                      /\ \A v \in Workers : DeletedBy(v, c)' => c \in handler'[v].todo
  BY DEF Settled, SettledAt, Current, db, fwds
<1>4. SettledAt(c)
  BY DEF Settled
<1>5. Owed(c) => Owed(c)'
  <2> SUFFICES ASSUME NEW v \in Workers, c \in handler[v].todo \/ (handler[v].op = "list" /\ Using(c))
               PROVE  Owed(c)'
    BY DEF Owed
  <2>1. CASE v = w
    BY <1>1, <2>1 DEF Owed
  <2>2. CASE v # w
    BY <1>1, <2>2 DEF Owed, Using, db
  <2> QED BY <2>1, <2>2
<1> QED BY <1>2, <1>3, <1>4, <1>5 DEF SettledAt

\* The steps of a request that only reads, or dials.
LEMMA ReadsSettle ==
  ASSUME Inv, Settled, NEW w \in Workers,
         (\E c \in Conns : Load(w, c) \/ Delete(w, c)) \/ Resolve(w) \/ Reuse(w) \/ Dial(w)
         \/ DeleteConfig(w) \/ List(w)
  PROVE  Settled'
<1> USE DEF Inv
<1>1. /\ handler[w] \in Staged /\ handler[w] \in Handlers /\ handler[w].todo \subseteq Conns
      /\ config \in Routes \cup {None}
  BY DEF TypeOK, Staged, Handlers
<1>2. ASSUME NEW c \in Conns, Load(w, c) PROVE Settled'
  <2>1. rows[c] \in Rows
    BY <1>2 DEF Load, TypeOK
  <2>2. [Idle EXCEPT !.op = "load", !.conn = c, !.row = rows[c]] \in Staged
    BY <2>1 DEF Staged, Handlers, Idle
  <2>3. handler[w].todo = {} /\ handler[w].op = "idle"
    BY <1>2, IdleFields DEF Load
  <2>4. [Idle EXCEPT !.op = "load", !.conn = c, !.row = rows[c]].op = "load"
    BY DEF Idle
  <2> QED BY <1>2, <2>2, <2>3, <2>4, KeepsSettled DEF Load
<1>3. CASE Resolve(w)
  <2> DEFINE s == Signature(handler[w].row, config)
             h == IF s = None THEN Idle
                  ELSE [Idle EXCEPT !.op = "open", !.conn = handler[w].conn, !.sig = s]
  <2>1. s \in Sigs \cup {None} /\ handler[w].conn \in Conns
    BY <1>1, <1>3, SignatureType DEF Resolve, Staged
  <2>2. h \in Staged /\ h.op \in {"idle", "open"}
    BY <2>1, IdleType DEF Staged, Handlers, Idle, Sigs
  <2>3. Become(w, h) /\ UNCHANGED <<db, fwds>> /\ handler[w].todo = {} /\ handler[w].op = "load"
    BY <1>1, <1>3 DEF Resolve, Staged, Closers
  <2> HIDE DEF h
  <2> QED BY <2>2, <2>3, KeepsSettled
<1>4. CASE Reuse(w)
  <2> DEFINE h == [handler[w] EXCEPT !.op = "dial", !.port = tunnels[handler[w].conn]]
  <2>1. h \in Staged /\ h.op = "dial" /\ h.todo = handler[w].todo /\ handler[w].op = "open"
    BY <1>1, <1>4 DEF Reuse, Staged, Handlers, Closers, TypeOK
  <2>2. Become(w, h) /\ UNCHANGED <<db, fwds>>
    BY <1>4 DEF Reuse
  <2> HIDE DEF h
  <2> QED BY <2>1, <2>2, KeepsSettled
<1>5. CASE Dial(w)
  <2>1. handler[w].todo = {} /\ handler[w].op = "dial" /\ Idle.op = "idle"
    BY <1>1, <1>5 DEF Dial, Staged, Closers, Idle
  <2> QED BY <1>5, <2>1, IdleType, KeepsSettled DEF Dial
<1>6. ASSUME NEW d \in Conns, Delete(w, d) PROVE Settled'
  <2> DEFINE h == Closing("delete", d, {d})
  <2>1. h \in Staged /\ h.op = "delete" /\ h.conn = d /\ h.todo = {d}
    BY DEF Closing, Staged, Handlers, Idle, Closers
  <2>2. Become(w, h) /\ UNCHANGED <<db, fwds>> /\ handler[w].todo = {} /\ handler[w].op = "idle"
    BY <1>6, IdleFields DEF Delete
  <2> HIDE DEF h
  <2>3. handler'[w] = h /\ \A v \in Workers \ {w} : handler'[v] = handler[v]
    BY <2>1, <2>2, BecomeType
  <2>4. d \in handler'[w].todo
    BY <2>1, <2>3
  <2> QED BY <2>1, <2>2, <2>3, <2>4, StartsSettled
<1>7. CASE DeleteConfig(w)
  <2> DEFINE h == Closing("deleteConfig", None, Referring)
  <2>1. h \in Staged /\ h.op = "deleteConfig" /\ h.todo = Referring
    BY DEF Closing, Referring, Staged, Handlers, Idle, Closers
  <2>2. Become(w, h) /\ UNCHANGED <<db, fwds>> /\ handler[w].todo = {} /\ handler[w].op = "idle"
    BY <1>7, IdleFields DEF DeleteConfig
  <2> HIDE DEF h
  <2> QED BY <2>1, <2>2, StartsSettled DEF Referring, Using
<1>8. CASE List(w)
  <2> DEFINE h == Closing("edit", None, Referring)
  <2>1. h \in Staged /\ h.op = "edit" /\ h.todo = Referring
    BY DEF Closing, Referring, Staged, Handlers, Idle, Closers
  <2>2. Become(w, h) /\ UNCHANGED <<db, fwds>> /\ handler[w].todo = {} /\ handler[w].op = "list"
    BY <1>1, <1>8 DEF List, Staged, Closers
  <2> HIDE DEF h
  <2> QED BY <2>1, <2>2, StartsSettled DEF Referring, Using
<1> QED BY <1>2, <1>3, <1>4, <1>5, <1>6, <1>7, <1>8

LEMMA HandlerTypes ==
  ASSUME Inv, NEW w \in Workers
  PROVE  /\ handler[w] \in Staged /\ handler[w] \in Handlers
         /\ handler[w].op = "open" => handler[w].conn \in Conns /\ handler[w].todo = {}
         /\ handler[w].op = "delete" => handler[w].conn \in Conns
         /\ handler[w].port # None => handler[w].port \in Ports
  BY DEF Inv, TypeOK, Staged, Handlers, Closers

\* An edit writes a row, or the config: what it changes for a connection it owes a close.
LEMMA EditsSettle ==
  ASSUME Inv, Settled, NEW w \in Workers,
         (\E c \in Conns, row \in Rows : Edit(w, c, row)) \/ (\E r \in Routes : EditConfig(w, r))
  PROVE  Settled'
<1> USE DEF Inv
<1>1. rows \in [Conns -> Rows \cup {None}] /\ handler \in [Workers -> Staged]
  BY DEF TypeOK
<1>2. ASSUME NEW d \in Conns, NEW row \in Rows, Edit(w, d, row) PROVE Settled'
  <2> DEFINE h == Closing("edit", None, {d})
  <2>1. h \in Staged /\ h.op = "edit" /\ h.todo = {d}
    BY DEF Closing, Staged, Handlers, Idle, Closers
  <2>2. /\ Become(w, h) /\ handler[w].todo = {} /\ handler[w].op = "idle"
        /\ rows' = [rows EXCEPT ![d] = row] /\ UNCHANGED <<config, fwds>> /\ ~Writing
    BY <1>2, IdleFields DEF Edit
  <2> HIDE DEF h
  <2>3. handler'[w] = h /\ \A v \in Workers \ {w} : handler'[v] = handler[v]
    BY <2>1, <2>2, BecomeType
  <2>4. \A c \in Conns \ {d} : rows'[c] = rows[c]
    BY <1>1, <2>2
  <2> SUFFICES ASSUME NEW c \in Conns PROVE SettledAt(c)'
    BY DEF Settled
  <2>5. CASE c # d
    <3>1. Current(c)' = Current(c)
      BY <2>2, <2>4, <2>5 DEF Current
    <3>2. \A v \in Workers : /\ c \in handler[v].todo => c \in handler'[v].todo
                             /\ DeletedBy(v, c)' => DeletedBy(v, c)
      BY <2>1, <2>2, <2>3, <2>4, <2>5 DEF DeletedBy, Using
    <3>3. Owed(c) => Owed(c)'
      BY <2>1, <2>2, <2>3, <2>4, <2>5 DEF Owed, Using
    <3>4. SettledAt(c) /\ bound' = bound /\ tunnels' = tunnels /\ raced' = raced
      BY <2>2 DEF Settled, fwds
    <3> QED BY <3>1, <3>2, <3>3, <3>4 DEF SettledAt
  <2>6. CASE c = d
    <3>1. Owed(d)'
      BY <2>1, <2>3 DEF Owed
    <3>2. ASSUME tunnels[d] # None, d \notin raced, NEW v \in Workers, DeletedBy(v, d)'
          PROVE  d \in handler'[v].todo
      <4>1. v # w => handler[v].op = "delete" /\ handler[v].conn = d
        BY <2>2, <2>3, <3>2 DEF DeletedBy, Writing
      <4> QED BY <2>1, <2>3, <3>2, <4>1 DEF DeletedBy, Settled, SettledAt
    <3> QED BY <2>2, <2>6, <3>1, <3>2 DEF SettledAt, fwds
  <2> QED BY <2>5, <2>6
<1>3. ASSUME NEW r \in Routes, EditConfig(w, r) PROVE Settled'
  <2> DEFINE h == [Idle EXCEPT !.op = "list"]
  <2>1. h \in Staged /\ h.op = "list" /\ h.todo = {}
    BY DEF Staged, Handlers, Idle
  <2>2. /\ Become(w, h) /\ handler[w].todo = {} /\ handler[w].op = "idle"
        /\ config' = r /\ UNCHANGED <<rows, fwds>>
    BY <1>3, IdleFields DEF EditConfig
  <2> HIDE DEF h
  <2>3. handler'[w] = h /\ \A v \in Workers \ {w} : handler'[v] = handler[v]
    BY <2>1, <2>2, BecomeType
  <2> SUFFICES ASSUME NEW c \in Conns PROVE SettledAt(c)'
    BY DEF Settled
  <2>4. \A v \in Workers : /\ c \in handler[v].todo => c \in handler'[v].todo
                           /\ DeletedBy(v, c)' => DeletedBy(v, c)
    BY <2>1, <2>2, <2>3 DEF DeletedBy, Using
  <2>5. CASE Using(c)
    <3>1. Owed(c)'
      BY <2>1, <2>2, <2>3, <2>5 DEF Owed, Using
    <3> QED BY <2>2, <2>4, <3>1 DEF Settled, SettledAt, fwds
  <2>6. CASE ~Using(c)
    <3>1. Current(c)' = Current(c)
      BY <1>1, <2>2, <2>6 DEF Current, Signature, Using
    <3>2. Owed(c) => Owed(c)'
      BY <2>1, <2>2, <2>3, <2>6 DEF Owed, Using
    <3> QED BY <2>2, <2>4, <3>1, <3>2 DEF Settled, SettledAt, fwds
  <2> QED BY <2>5, <2>6
<1> QED BY <1>2, <1>3

\* target replaces a forwarder by one that leads where the row says now, or the race is noted.
LEMMA OpensSettle ==
  ASSUME Inv, Settled, NEW w \in Workers, Open(w) \/ OpenFails(w)
  PROVE  Settled'
<1> USE DEF Inv
<1> DEFINE h == handler[w]
<1> PICK d : d = handler[w].conn
  OBVIOUS
<1>1. /\ h \in Staged /\ h.op = "open" /\ d \in Conns /\ h.todo = {}
      /\ tunnels \in [Conns -> Ports \cup {None}] /\ bound \in [Ports -> Forwarders \cup {None}]
  BY HandlerTypes DEF TypeOK, Open, OpenFails
<1>2. PICK g : /\ g \in {Idle, [h EXCEPT !.op = "dial", !.port = tunnels'[d]]}
               /\ handler' = [handler EXCEPT ![w] = g]
  <2>1. CASE OpenFails(w)
    BY <2>1 DEF OpenFails, Become
  <2>2. CASE Open(w)
    BY <1>1, <2>2 DEF Open, Become
  <2> QED BY <2>1, <2>2
<1>3. g.todo = {} /\ g.op \in {"idle", "dial"}
  BY <1>1, <1>2, IdleFields DEF Staged, Handlers
<1>4. handler'[w] = g /\ \A v \in Workers \ {w} : handler'[v] = handler[v]
  BY <1>2
<1>5. UNCHANGED db /\ \A c \in Conns : Current(c)' = Current(c)
  BY DEF Open, OpenFails, Current, db
<1>6. \A v \in Workers, c \in Conns : /\ c \in handler[v].todo => c \in handler'[v].todo
                                      /\ DeletedBy(v, c)' => DeletedBy(v, c)
  BY <1>1, <1>3, <1>4, <1>5 DEF DeletedBy, Using, db
<1>7. \A c \in Conns : Owed(c) => Owed(c)'
  BY <1>1, <1>3, <1>4, <1>5 DEF Owed, Using, db
<1> SUFFICES ASSUME NEW c \in Conns PROVE SettledAt(c)'
  BY DEF Settled
<1>8. CASE c # d
  <2>1. tunnels'[c] = tunnels[c] /\ (c \in raced' \/ c \notin raced)
    BY <1>1, <1>8 DEF Open, OpenFails
  <2>2. ASSUME tunnels[c] # None PROVE bound'[tunnels[c]].sig = bound[tunnels[c]].sig
    <3>1. tunnels[c] \in Ports /\ bound[tunnels[c]] # None /\ tunnels[c] # tunnels[d]
      BY <1>1, <1>8, <2>2 DEF NoOrphans
    <3>2. Freed(d)[tunnels[c]] = bound[tunnels[c]]
      BY <3>1 DEF Freed
    <3>3. CASE OpenFails(w)
      BY <3>2, <3>3 DEF OpenFails
    <3>4. CASE Open(w)
      <4>1. PICK p \in {q \in Ports : Freed(d)[q] = None} :
              bound' = [Freed(d) EXCEPT ![p] = [conn |-> d, sig |-> h.sig, up |-> TRUE]]
        BY <3>4 DEF Open
      <4> QED BY <3>1, <3>2, <4>1 DEF Freed
    <3> QED BY <3>3, <3>4
  <2> QED BY <1>5, <1>6, <1>7, <2>1, <2>2 DEF Settled, SettledAt
<1>9. CASE c = d
  <2>1. CASE OpenFails(w)
    BY <1>1, <1>9, <2>1 DEF OpenFails, SettledAt
  <2>2. CASE Open(w)
    <3>1. PICK p \in {q \in Ports : Freed(d)[q] = None} :
            /\ bound' = [Freed(d) EXCEPT ![p] = [conn |-> d, sig |-> h.sig, up |-> TRUE]]
            /\ tunnels' = [tunnels EXCEPT ![d] = p]
      BY <2>2 DEF Open
    <3>2. CASE h.sig # Current(d) \/ Deleting(d)
      BY <1>1, <1>9, <2>2, <3>2 DEF Open, SettledAt
    <3>3. CASE h.sig = Current(d) /\ ~Deleting(d)
      <4>1. bound'[tunnels'[d]].sig = Current(d)
        BY <1>1, <3>1, <3>3 DEF Freed
      <4>2. \A v \in Workers : ~DeletedBy(v, d)'
        BY <1>1, <1>6, <3>3 DEF Deleting, DeletedBy, Using
      <4> QED BY <1>5, <1>9, <4>1, <4>2 DEF SettledAt
    <3> QED BY <3>2, <3>3
  <2> QED BY <2>1, <2>2
<1> QED BY <1>8, <1>9

\* A close empties the cache entry before its debt is paid.
LEMMA ClosesSettle ==
  ASSUME Inv, Settled, NEW w \in Workers, (\E c \in Conns : Pop(w, c)) \/ Stop(w)
  PROVE  Settled'
<1> USE DEF Inv
<1>1. /\ handler[w] \in Staged /\ handler \in [Workers -> Staged]
      /\ tunnels \in [Conns -> Ports \cup {None}] /\ bound \in [Ports -> Forwarders \cup {None}]
  BY DEF TypeOK
<1>2. UNCHANGED db /\ \A c \in Conns : Current(c)' = Current(c)
  BY DEF Pop, Stop, Current, db
<1>3. ASSUME NEW d \in Conns, Pop(w, d) PROVE Settled'
  <2>1. /\ handler' = [handler EXCEPT ![w] = [handler[w] EXCEPT !.todo = @ \ {d}, !.port = tunnels[d]]]
        /\ tunnels' = [tunnels EXCEPT ![d] = None] /\ raced' = raced \ {d} /\ bound' = bound
    BY <1>3 DEF Pop, Become
  <2>2. /\ handler'[w].op = handler[w].op /\ handler'[w].conn = handler[w].conn
        /\ handler'[w].todo = handler[w].todo \ {d}
        /\ \A v \in Workers \ {w} : handler'[v] = handler[v]
    BY <1>1, <2>1 DEF Staged, Handlers
  <2> SUFFICES ASSUME NEW c \in Conns PROVE SettledAt(c)'
    BY DEF Settled
  <2>3. CASE c # d
    <3>1. \A v \in Workers : /\ c \in handler[v].todo => c \in handler'[v].todo
                             /\ DeletedBy(v, c)' => DeletedBy(v, c)
      BY <1>2, <2>2, <2>3 DEF DeletedBy, Using, db
    <3>2. Owed(c) => Owed(c)'
      BY <1>2, <2>2, <2>3 DEF Owed, Using, db
    <3> QED BY <1>1, <1>2, <2>1, <2>3, <3>1, <3>2 DEF Settled, SettledAt
  <2>4. CASE c = d
    BY <1>1, <2>1, <2>4 DEF SettledAt
  <2> QED BY <2>3, <2>4
<1>4. CASE Stop(w)
  <2> DEFINE p == handler[w].port
  <2>1. /\ p \in Ports /\ handler' = [handler EXCEPT ![w] = [handler[w] EXCEPT !.port = None]]
        /\ bound' = [bound EXCEPT ![p] = None] /\ UNCHANGED <<tunnels, raced>> /\ Popped(w)
    BY <1>1, <1>4, HandlerTypes DEF Stop, Become, Popped
  <2>2. /\ handler'[w].op = handler[w].op /\ handler'[w].conn = handler[w].conn
        /\ handler'[w].todo = handler[w].todo
        /\ \A v \in Workers \ {w} : handler'[v] = handler[v]
    BY <1>1, <2>1 DEF Staged, Handlers
  <2> SUFFICES ASSUME NEW c \in Conns PROVE SettledAt(c)'
    BY DEF Settled
  <2>3. \A v \in Workers : /\ c \in handler[v].todo => c \in handler'[v].todo
                           /\ DeletedBy(v, c)' => DeletedBy(v, c)
    BY <1>2, <2>2 DEF DeletedBy, Using, db
  <2>4. Owed(c) => Owed(c)'
    BY <1>2, <2>2 DEF Owed, Using, db
  <2>5. tunnels[c] # None => bound'[tunnels[c]].sig = bound[tunnels[c]].sig
    BY <1>1, <2>1 DEF PoppedOK
  <2> QED BY <1>2, <2>1, <2>3, <2>4, <2>5 DEF Settled, SettledAt
<1> QED BY <1>3, <1>4

\* A delete commits: the tunnel of what it deletes is closed, or was opened in a race.
LEMMA FinishSettles ==
  ASSUME Inv, Settled, NEW w \in Workers, Finish(w)
  PROVE  Settled'
<1> USE DEF Inv
<1>1. /\ handler[w] \in Staged /\ handler \in [Workers -> Staged]
      /\ rows \in [Conns -> Rows \cup {None}]
  BY DEF TypeOK
<1>2. /\ handler[w].todo = {} /\ handler[w].port = None /\ UNCHANGED fwds
      /\ handler' = [handler EXCEPT ![w] = Idle]
  BY DEF Finish, Closed, Become
<1>3. handler'[w] = Idle /\ \A v \in Workers \ {w} : handler'[v] = handler[v]
  BY <1>1, <1>2
<1>4. \A v \in Workers, c \in Conns : c \in handler[v].todo => c \in handler'[v].todo
  BY <1>2, <1>3
<1> SUFFICES ASSUME NEW c \in Conns PROVE SettledAt(c)'
  BY DEF Settled
<1>5. SettledAt(c)
  BY DEF Settled
<1>6. CASE handler[w].op = "edit"
  <2>1. UNCHANGED db
    BY <1>6 DEF Finish
  <2>2. Current(c)' = Current(c)
    BY <2>1 DEF Current, db
  <2>3. \A v \in Workers : DeletedBy(v, c)' => DeletedBy(v, c)
    BY <1>3, <2>1, IdleFields DEF DeletedBy, Using, db
  <2>4. Owed(c) => Owed(c)'
    BY <1>2, <1>3, <1>6, <2>1 DEF Owed, Using, db
  <2> QED BY <1>2, <1>4, <1>5, <2>2, <2>3, <2>4 DEF SettledAt, fwds
<1>7. CASE handler[w].op = "delete"
  <2> PICK d \in Conns : d = handler[w].conn
    BY <1>1, <1>7 DEF Staged
  <2>1. rows' = [rows EXCEPT ![d] = None] /\ config' = config /\ ~Writing
    BY <1>7 DEF Finish
  <2>2. CASE c = d
    <3>1. DeletedBy(w, c) /\ c \notin handler[w].todo
      BY <1>2, <1>7, <2>2 DEF DeletedBy
    <3> QED BY <1>2, <1>5, <3>1 DEF SettledAt, fwds
  <2>3. CASE c # d
    <3>1. rows'[c] = rows[c]
      BY <1>1, <2>1, <2>3
    <3>2. Current(c)' = Current(c)
      BY <2>1, <3>1 DEF Current
    <3>3. \A v \in Workers : DeletedBy(v, c)' => DeletedBy(v, c)
      BY <1>3, <3>1, IdleFields DEF DeletedBy, Using
    <3>4. Owed(c) => Owed(c)'
      BY <1>2, <1>3, <1>7, <3>1 DEF Owed, Using
    <3> QED BY <1>2, <1>4, <1>5, <3>2, <3>3, <3>4 DEF SettledAt, fwds
  <2> QED BY <2>2, <2>3
<1>8. CASE handler[w].op = "deleteConfig"
  <2>1. /\ config' = None
        /\ rows' = [x \in Conns |-> IF x \in Referring THEN [rows[x] EXCEPT !.cfg = FALSE] ELSE rows[x]]
    BY <1>8 DEF Finish
  <2>2. CASE Using(c)
    <3>1. DeletedBy(w, c) /\ c \notin handler[w].todo
      BY <1>2, <1>8, <2>2 DEF DeletedBy
    <3> QED BY <1>2, <1>5, <3>1 DEF SettledAt, fwds
  <2>3. CASE ~Using(c)
    <3>1. rows'[c] = rows[c]
      BY <1>1, <2>1, <2>3 DEF Referring, Using
    <3>2. Current(c)' = Current(c)
      <4>1. CASE rows[c] = None
        BY <3>1, <4>1 DEF Current
      <4>2. CASE rows[c] # None /\ ~rows[c].cfg
        BY <3>1, <4>2 DEF Current, Signature
      <4> QED BY <2>3, <4>1, <4>2 DEF Using
    <3>3. \A v \in Workers : DeletedBy(v, c)' => DeletedBy(v, c)
      BY <1>3, <3>1, IdleFields DEF DeletedBy, Using
    <3>4. Owed(c) => Owed(c)'
      BY <1>2, <1>3, <1>8, <3>1 DEF Owed, Using
    <3> QED BY <1>2, <1>4, <1>5, <3>2, <3>3, <3>4 DEF SettledAt, fwds
  <2> QED BY <2>2, <2>3
<1> QED BY <1>6, <1>7, <1>8 DEF Finish

LEMMA DieSettles ==
  ASSUME Inv, Settled, NEW p \in Ports, Die(p)
  PROVE  Settled'
<1>1. bound \in [Ports -> Forwarders \cup {None}] /\ bound[p] \in Forwarders
  BY DEF Inv, TypeOK, Die
<1>2. \A q \in Ports : bound'[q].sig = bound[q].sig
  BY <1>1 DEF Die, Forwarders
<1>3. \A c \in Conns : tunnels[c] # None => bound'[tunnels[c]].sig = bound[tunnels[c]].sig
  BY <1>2 DEF Inv, TypeOK
<1> QED BY <1>3 DEF Settled, SettledAt, Owed, Using, DeletedBy, Current, Die, db

LEMMA StepSettled == Inv /\ Settled /\ [Next]_vars => Settled'
<1> SUFFICES ASSUME Inv, Settled, [Next]_vars PROVE Settled'
  OBVIOUS
<1>1. ASSUME NEW w \in Workers, Request(w) PROVE Settled'
  BY <1>1, ReadsSettle, EditsSettle, OpensSettle, ClosesSettle, FinishSettles DEF Request
<1>2. ASSUME NEW p \in Ports, Die(p) PROVE Settled'
  BY <1>2, DieSettles
<1>3. CASE UNCHANGED vars
  BY <1>3 DEF vars, db, fwds, Settled, SettledAt, Owed, Using, DeletedBy, Current
<1> QED BY <1>1, <1>2, <1>3 DEF Next

\* Once the handlers of an edit or a delete are through, a tunnel left in the cache leads
\* where its row says, unless it was opened in a race with one of them.
THEOREM EditsReachTheCache == Spec => []EditsTearDown
<1>1. Init => Settled
  BY DEF Init, Settled, SettledAt
<1>2. Inv /\ Settled => EditsTearDown
  <2> SUFFICES ASSUME Inv, Settled, NEW c \in Conns, c \notin raced, tunnels[c] # None, ~Pending(c)
               PROVE  bound[tunnels[c]].sig = Current(c)
    BY DEF EditsTearDown
  <2>1. ~Owed(c)
    BY DEF Owed, Pending
  <2> QED BY <2>1 DEF Settled, SettledAt
<1> QED BY <1>1, <1>2, InitInv, StepInv, StepSettled, PTL DEF Spec

-------------------------------------------------------------------------------
(* What a request gets. *)

RightTarget ==
  \A w \in Workers : handler'[w].op = "dial" /\ handler[w].op = "open" =>
    LET f == bound'[handler'[w].port]
    IN  f # None /\ f.up /\ f.sig = handler[w].sig /\ f.conn = handler[w].conn

\* A forwarder that is reused is its connection's, live and of the signature the request
\* computed, and a new one is made so: the request never dials another's.
LEMMA TargetStep == Inv /\ [Next]_vars => RightTarget
<1> SUFFICES ASSUME Inv, [Next]_vars, NEW w \in Workers, handler'[w].op = "dial", handler[w].op = "open"
             PROVE  LET f == bound'[handler'[w].port]
                    IN  f # None /\ f.up /\ f.sig = handler[w].sig /\ f.conn = handler[w].conn
  BY DEF RightTarget
<1>1. /\ handler[w] \in Staged /\ handler[w] \in Handlers /\ handler \in [Workers -> Staged]
      /\ tunnels \in [Conns -> Ports \cup {None}] /\ bound \in [Ports -> Forwarders \cup {None}]
      /\ handler[w].conn \in Conns /\ handler[w].sig \in Sigs
  BY DEF Inv, TypeOK, Staged
<1>2. ASSUME NEW v \in Workers, Request(v) PROVE v = w
  <2>1. v # w => handler'[w] = handler[w]
    BY <1>1, <1>2 DEF Request, Load, Delete, Pop, Edit, EditConfig, DeleteConfig, Resolve, Reuse, Open,
       OpenFails, Dial, List, Stop, Finish, Become
  <2> QED BY <2>1
<1>3. Reuse(w) \/ Open(w)
  <2>1. Request(w)
    BY <1>2 DEF Next, Die, vars
  <2>2. handler[w] # Idle /\ handler[w].todo = {}
    BY <1>1, IdleFields DEF Staged, Closers
  <2>3. ~OpenFails(w)
    BY <1>1, IdleFields DEF OpenFails, Become
  <2> QED BY <2>1, <2>2, <2>3
     DEF Request, Load, Delete, Pop, Edit, EditConfig, DeleteConfig, Resolve, Dial, List, Stop, Finish,
         IsClosing
<1>4. CASE Reuse(w)
  <2>1. handler'[w].port = tunnels[handler[w].conn] /\ bound' = bound
    BY <1>1, <1>4 DEF Reuse, Become, Staged, Handlers, fwds
  <2> QED BY <1>1, <1>4, <2>1 DEF Reuse, Usable, Inv, NoOrphans
<1>5. CASE Open(w)
  <2>1. PICK p \in {q \in Ports : Freed(handler[w].conn)[q] = None} :
          /\ bound' = [Freed(handler[w].conn) EXCEPT
                         ![p] = [conn |-> handler[w].conn, sig |-> handler[w].sig, up |-> TRUE]]
          /\ Become(w, [handler[w] EXCEPT !.op = "dial", !.port = p])
    BY <1>5 DEF Open
  <2>2. handler'[w].port = p
    BY <1>1, <2>1 DEF Become, Staged, Handlers
  <2> DEFINE new == [conn |-> handler[w].conn, sig |-> handler[w].sig, up |-> TRUE]
  <2>3. bound'[p] = new
    BY <2>1 DEF Freed
  <2>4. new # None
    <3>1. new \in Forwarders
      BY <1>1 DEF Forwarders, Sigs
    <3> QED BY <3>1, TunnelsAssumption
  <2>5. new.up /\ new.sig = handler[w].sig /\ new.conn = handler[w].conn
    OBVIOUS
  <2> HIDE DEF new
  <2> QED BY <2>2, <2>3, <2>4, <2>5
<1> QED BY <1>3, <1>4, <1>5

\* A request is given a live forwarder that leads where the row it read says.
THEOREM TargetsAreRight == Spec => TargetIsRight
<1>1. Inv /\ [Next]_vars => [RightTarget]_vars
  BY TargetStep
<1> QED BY <1>1, InitInv, StepInv, PTL DEF Spec, TargetIsRight, RightTarget

-------------------------------------------------------------------------------
(* Groups: requests one at a time.  A request is checked against tables that are *)
(* still the same when it commits, so that no commit rolls back.                *)

Pending1 == req["serial"]

\* What the checks of the request in flight found is still so.
Checked ==
  /\ Pending1.op # "assign"
  /\ Pending1.op = "create" =>
       /\ Groups!FkHolds(Pending1.parent)
       /\ \A g \in folders : ~(name[g] = Pending1.name /\ parent[g] = Pending1.parent)
  /\ Pending1.op \in {"update", "delete"} =>
       Pending1.id \in folders /\ Pending1.oldParent = parent[Pending1.id]
  /\ Pending1.op = "update" =>
       /\ Pending1.oldName = name[Pending1.id]
       /\ Pending1.parent \in Groups!MoveTargets(Pending1.id)
       /\ \/ \A g \in folders : ~(name[g] = Pending1.name /\ parent[g] = Pending1.parent)
          \/ name[Pending1.id] = Pending1.name /\ parent[Pending1.id] = Pending1.parent

GroupsShape ==
  /\ folders \subseteq Groups!Ids
  /\ parent \in [Groups!Ids -> Groups!Places]
  /\ name \in [Groups!Ids -> Names]
  /\ \A f \in folders : parent[f] \in folders \cup {Groups!Null}

GroupsInv ==
  GroupsShape /\ Acyclic /\ Checked /\ req \in [{"serial"} -> Groups!Request]

\* What a commit writes.
Creates ==
  /\ Pending1.op = "create"
  /\ \E f \in Groups!Ids \ folders : /\ folders' = folders \cup {f}
                                     /\ parent' = [parent EXCEPT ![f] = Pending1.parent]
                                     /\ name' = [name EXCEPT ![f] = Pending1.name]

Updates ==
  /\ Pending1.op = "update" /\ folders' = folders
  /\ parent' = [parent EXCEPT ![Pending1.id] = Pending1.parent]
  /\ name' = [name EXCEPT ![Pending1.id] = Pending1.name]

Deletes ==
  /\ Pending1.op = "delete" /\ folders' = folders \ {Pending1.id}
  /\ parent' \in [Groups!Ids -> Groups!Places] /\ name' \in [Groups!Ids -> Names]
  /\ \A g \in folders' :
       /\ name'[g] = name[g]
       /\ parent'[g] = IF parent[g] = Pending1.id THEN parent[Pending1.id] ELSE parent[g]

LEMMA NoNameType == Groups!NoName \in Names
  BY GroupsAssumption DEF Groups!NamesAssumption, Groups!NoName

LEMMA GroupsIdle ==
  Groups!Idle \in Groups!Request /\ Groups!Idle.op = "idle"
  BY NoNameType DEF Groups!Idle, Groups!Request, Groups!Ops, Groups!Places, Groups!Null

\* The checks of a request find what Checked says.
LEMMA BeginChecks ==
  ASSUME GroupsInv, Groups!Begin("serial")
  PROVE  /\ UNCHANGED <<folders, parent, name>> /\ req' \in [{"serial"} -> Groups!Request]
         /\ Pending1.op = "idle" /\ Pending1'.op # "idle" /\ Checked'
<1> USE DEF GroupsInv, GroupsShape
<1>1. ASSUME NEW r \in Groups!Request, Groups!Accept("serial", r)
      PROVE  /\ UNCHANGED <<folders, parent, name>> /\ req' \in [{"serial"} -> Groups!Request]
             /\ Pending1.op = "idle" /\ req'["serial"] = r
  BY <1>1 DEF Groups!Accept, Groups!tables, Pending1
<1>2. ASSUME NEW n \in Names, NEW p \in Groups!Places,
             Groups!Accept("serial", [Groups!Idle EXCEPT !.op = "create", !.name = n, !.parent = p]),
             Groups!FkHolds(p), \A g \in folders : ~(name[g] = n /\ parent[g] = p)
      PROVE  /\ UNCHANGED <<folders, parent, name>> /\ req' \in [{"serial"} -> Groups!Request]
             /\ Pending1.op = "idle" /\ Pending1'.op # "idle" /\ Checked'
  <2> DEFINE r == [Groups!Idle EXCEPT !.op = "create", !.name = n, !.parent = p]
  <2>1. r \in Groups!Request /\ r.op = "create" /\ r.name = n /\ r.parent = p
    BY GroupsIdle DEF Groups!Request, Groups!Ops
  <2> HIDE DEF r
  <2>2. /\ UNCHANGED <<folders, parent, name>> /\ req' \in [{"serial"} -> Groups!Request]
        /\ Pending1.op = "idle" /\ req'["serial"] = r
    BY <1>1, <1>2, <2>1 DEF r
  <2> QED BY <1>2, <2>1, <2>2 DEF Checked, Pending1, Groups!FkHolds
<1>3. ASSUME NEW n \in Names, NEW p \in Groups!Places, Groups!BeginCreate("serial", n, p)
      PROVE  /\ UNCHANGED <<folders, parent, name>> /\ req' \in [{"serial"} -> Groups!Request]
             /\ Pending1.op = "idle" /\ Pending1'.op # "idle" /\ Checked'
  <2>1. \A g \in folders : ~(name[g] = n /\ parent[g] = p)
    BY <1>3 DEF Groups!BeginCreate, Groups!NoClashSeen, Groups!SameNameRows, Groups!Null, Groups!Ids
  <2> QED BY <1>2, <1>3, <2>1 DEF Groups!BeginCreate
<1>4. ASSUME NEW n \in Names, Groups!BeginImport("serial", n)
      PROVE  /\ UNCHANGED <<folders, parent, name>> /\ req' \in [{"serial"} -> Groups!Request]
             /\ Pending1.op = "idle" /\ Pending1'.op # "idle" /\ Checked'
  BY <1>2, <1>4 DEF Groups!BeginImport, Groups!FkHolds, Groups!Places
<1>5. ASSUME NEW f \in Groups!Ids, NEW n \in Names, NEW p \in Groups!Places,
             Groups!BeginUpdate("serial", f, n, p)
      PROVE  /\ UNCHANGED <<folders, parent, name>> /\ req' \in [{"serial"} -> Groups!Request]
             /\ Pending1.op = "idle" /\ Pending1'.op # "idle" /\ Checked'
  <2> DEFINE r == [Groups!Idle EXCEPT !.op = "update", !.id = f, !.name = n, !.parent = p,
                                      !.oldName = name[f], !.oldParent = parent[f]]
  <2>1. /\ r \in Groups!Request /\ r.op = "update" /\ r.id = f /\ r.name = n /\ r.parent = p
        /\ r.oldName = name[f] /\ r.oldParent = parent[f]
    BY GroupsIdle DEF Groups!Request, Groups!Ops, Groups!Places
  <2> HIDE DEF r
  <2>2. /\ UNCHANGED <<folders, parent, name>> /\ req' \in [{"serial"} -> Groups!Request]
        /\ Pending1.op = "idle" /\ req'["serial"] = r
    BY <1>1, <1>5, <2>1 DEF r, Groups!BeginUpdate
  <2>3. f \in folders /\ p \in Groups!MoveTargets(f)
    BY <1>5 DEF Groups!BeginUpdate
  <2>4. \/ \A g \in folders : ~(name[g] = n /\ parent[g] = p)
        \/ name[f] = n /\ parent[f] = p
    BY <1>5 DEF Groups!BeginUpdate, Groups!NoClashSeen, Groups!SameNameRows
  <2>5. p \in Groups!MoveTargets(f)'
    BY <2>2, <2>3 DEF Groups!MoveTargets, Groups!Descendants, Groups!ClosedBelow
  <2>6. Pending1' = r
    BY <2>2 DEF Pending1
  <2>7. Pending1'.parent \in Groups!MoveTargets(Pending1.id)'
    BY <2>1, <2>5, <2>6
  <2> QED BY <2>1, <2>2, <2>3, <2>4, <2>6, <2>7 DEF Checked
<1>6. ASSUME NEW f \in Groups!Ids, Groups!BeginDelete("serial", f)
      PROVE  /\ UNCHANGED <<folders, parent, name>> /\ req' \in [{"serial"} -> Groups!Request]
             /\ Pending1.op = "idle" /\ Pending1'.op # "idle" /\ Checked'
  <2> DEFINE r == [Groups!Idle EXCEPT !.op = "delete", !.id = f, !.oldParent = parent[f]]
  <2>1. /\ r \in Groups!Request /\ r.op = "delete" /\ r.id = f /\ r.oldParent = parent[f]
    BY GroupsIdle DEF Groups!Request, Groups!Ops, Groups!Places
  <2> HIDE DEF r
  <2>2. /\ UNCHANGED <<folders, parent, name>> /\ req' \in [{"serial"} -> Groups!Request]
        /\ Pending1.op = "idle" /\ req'["serial"] = r /\ f \in folders
    BY <1>1, <1>6, <2>1 DEF r, Groups!BeginDelete
  <2> QED BY <2>1, <2>2 DEF Checked, Pending1
<1> QED BY <1>3, <1>4, <1>5, <1>6 DEF Groups!Begin

LEMMA CommitWrites ==
  ASSUME GroupsInv, Groups!Commit("serial")
  PROVE  /\ req' \in [{"serial"} -> Groups!Request] /\ Pending1'.op = "idle" /\ Checked'
         /\ Creates \/ Updates \/ Deletes
<1> USE DEF GroupsInv, GroupsShape
<1> DEFINE r == Pending1
<1>1. r \in Groups!Request
  BY DEF Pending1
<1>2. ASSUME Groups!Done("serial")
      PROVE  req' \in [{"serial"} -> Groups!Request] /\ Pending1'.op = "idle" /\ Checked'
  <2>1. req' \in [{"serial"} -> Groups!Request] /\ req'["serial"] = Groups!Idle
    BY <1>2, GroupsIdle DEF Groups!Done
  <2> QED BY <2>1, GroupsIdle DEF Pending1, Checked
<1>3. CASE Groups!CommitCreate("serial")
  <2>1. r.op = "create" /\ Groups!FkHolds(r.parent)
    BY <1>3 DEF Groups!CommitCreate, Checked, Pending1
  <2>2. \A f \in Groups!Ids : Groups!NextRowId(f) => f \notin folders
    BY DEF Groups!NextRowId, Groups!Ids
  <2>3. Creates /\ Groups!Done("serial")
    BY <1>3, <2>1, <2>2 DEF Groups!CommitCreate, Creates, Pending1
  <2> QED BY <1>2, <2>3
<1>4. CASE Groups!CommitUpdate("serial")
  <2>1. /\ r.op = "update" /\ r.id \in folders /\ r.oldParent = parent[r.id] /\ r.oldName = name[r.id]
        /\ r.parent \in folders \cup {Groups!Null}
    BY <1>4 DEF Groups!CommitUpdate, Checked, Pending1, Groups!MoveTargets
  <2>2. Groups!UpdateHolds(r)
    BY <2>1 DEF Groups!UpdateHolds, Groups!FkHolds
  <2>3. /\ folders' = folders /\ Groups!Done("serial")
        /\ name' = IF Groups!Renames(r) THEN [name EXCEPT ![r.id] = r.name] ELSE name
        /\ parent' = IF Groups!Moves(r) THEN [parent EXCEPT ![r.id] = r.parent] ELSE parent
    BY <1>4, <2>2 DEF Groups!CommitUpdate, Pending1
  <2>4. name' = [name EXCEPT ![r.id] = r.name]
    BY <2>1, <2>3 DEF Groups!Renames
  <2>5. parent' = [parent EXCEPT ![r.id] = r.parent]
    BY <2>1, <2>3 DEF Groups!Moves
  <2> QED BY <1>2, <2>1, <2>3, <2>4, <2>5 DEF Updates
<1>5. CASE Groups!CommitDelete("serial")
  <2>1. r.op = "delete" /\ r.id \in folders /\ r.oldParent = parent[r.id]
    BY <1>5 DEF Groups!CommitDelete, Checked, Pending1
  <2>2. parent[r.id] # r.id /\ parent[r.id] \in folders \cup {Groups!Null}
    <3>1. {r.id} \in SUBSET folders /\ {r.id} # {}
      BY <2>1
    <3> QED BY <2>1, <3>1 DEF Acyclic, Groups!Acyclic
  <2>3. Groups!DeleteHolds(r)
    BY <2>1, <2>2 DEF Groups!DeleteHolds, Groups!FkHolds, Groups!Reparent
  <2>4. /\ folders' = folders \ {r.id} /\ Groups!Done("serial")
        /\ parent' = [g \in Groups!Ids |-> IF g = r.id THEN Groups!Null
                                   ELSE IF parent[g] = r.id THEN Groups!Reparent(r)
                                   ELSE parent[g]]
        /\ name' = [name EXCEPT ![r.id] = Groups!NoName]
    BY <1>5, <2>3 DEF Groups!CommitDelete, Pending1
  <2>5. parent' \in [Groups!Ids -> Groups!Places]
    BY <2>1, <2>2, <2>4 DEF Groups!Reparent, Groups!Places
  <2>6. name' \in [Groups!Ids -> Names] /\ \A g \in folders' : name'[g] = name[g]
    BY <2>1, <2>4, NoNameType
  <2>7. \A g \in folders' : parent'[g] = IF parent[g] = r.id THEN parent[r.id] ELSE parent[g]
    BY <2>1, <2>4 DEF Groups!Reparent
  <2> QED BY <1>2, <2>1, <2>4, <2>5, <2>6, <2>7 DEF Deletes
<1>6. ~Groups!CommitAssign("serial")
  BY DEF Groups!CommitAssign, Checked, Pending1
<1> QED BY <1>3, <1>4, <1>5, <1>6 DEF Groups!Commit

-------------------------------------------------------------------------------
(* The tree as a set F and a function P on it. *)

\* Walking down from f, in the tree of F and P.
Below(F, P, f) ==
  {g \in F : \A S \in SUBSET F : (\A h \in F : P[h] = f \/ P[h] \in S => h \in S) => g \in S}

Rooted(F, P) == \A S \in SUBSET F : S # {} => \E f \in S : P[f] \notin S

\* What hangs from f, or from something below f, is below f; and nothing else is.
LEMMA BelowStep ==
  ASSUME NEW F, NEW P, NEW f, NEW g \in F
  PROVE  g \in Below(F, P, f) <=> (P[g] = f \/ P[g] \in Below(F, P, f))
<1> DEFINE B == Below(F, P, f)
<1>1. \A h \in F : P[h] = f \/ P[h] \in B => h \in B
  BY DEF Below
<1>2. ASSUME g \in B PROVE P[g] = f \/ P[g] \in B
  <2> DEFINE S == {h \in F : P[h] = f \/ P[h] \in B}
  <2>1. S \in SUBSET F /\ S \subseteq B
    BY <1>1
  <2>2. \A h \in F : P[h] = f \/ P[h] \in S => h \in S
    BY <2>1
  <2>3. g \in S
    BY <1>2, <2>1, <2>2 DEF Below
  <2> QED BY <2>3
<1> QED BY <1>1, <1>2

\* In a tree without cycles it is the one set with that property.
LEMMA BelowIsUnique ==
  ASSUME NEW F, NEW P, Rooted(F, P), NEW f, NEW X \in SUBSET F,
         \A g \in F : g \in X <=> (P[g] = f \/ P[g] \in X)
  PROVE  Below(F, P, f) = X
<1> DEFINE B == Below(F, P, f)
           S == {g \in F : (g \in B /\ g \notin X) \/ (g \notin B /\ g \in X)}
<1>1. \A g \in F : g \in B <=> (P[g] = f \/ P[g] \in B)
  BY BelowStep
<1>2. B \subseteq F
  BY DEF Below
<1> HIDE DEF B
<1>3. \A g \in S : P[g] \in S
  BY <1>1, <1>2
<1>4. S \in SUBSET F
  OBVIOUS
<1>5. S = {}
  <2> HIDE DEF S
  <2> QED BY <1>3, <1>4 DEF Rooted
<1> QED BY <1>2, <1>5 DEF B

\* What is below something below f is below f.
LEMMA BelowBelow ==
  ASSUME NEW F, NEW P, NEW f, NEW g \in Below(F, P, f)
  PROVE  Below(F, P, g) \subseteq Below(F, P, f)
<1> DEFINE B == Below(F, P, f)
<1>1. B \in SUBSET F
  BY DEF Below
<1>2. \A h \in F : P[h] = g \/ P[h] \in B => h \in B
  BY BelowStep
<1> HIDE DEF B
<1>3. ASSUME NEW x \in Below(F, P, g) PROVE x \in B
  BY <1>1, <1>2 DEF Below
<1> QED BY <1>3 DEF B

\* Nothing is below itself in a tree without cycles.
LEMMA NotBelowItself ==
  ASSUME NEW F, NEW P, Rooted(F, P), NEW f \in F
  PROVE  f \notin Below(F, P, f)
<1> DEFINE S == {g \in F : g \in Below(F, P, g)}
<1>1. ASSUME NEW g \in S PROVE P[g] \in S
  <2>1. g \in F /\ g \in Below(F, P, g)
    OBVIOUS
  <2>2. P[g] = g \/ P[g] \in Below(F, P, g)
    BY <2>1, BelowStep
  <2>3. CASE P[g] \in Below(F, P, g)
    <3>1. P[g] \in F
      BY <2>3 DEF Below
    <3>2. g \in Below(F, P, P[g])
      BY <2>1, BelowStep
    <3>3. Below(F, P, g) \subseteq Below(F, P, P[g])
      BY <3>2, BelowBelow
    <3> QED BY <2>3, <3>1, <3>3
  <2> QED BY <1>1, <2>2, <2>3
<1>2. S \in SUBSET F
  OBVIOUS
<1>3. S = {}
  <2> HIDE DEF S
  <2> QED BY <1>1, <1>2 DEF Rooted
<1> QED BY <1>3

\* The groups above g.
Above(F, P, g) == {h \in F : g \in Below(F, P, h)}

LEMMA AboveStep ==
  ASSUME NEW F, NEW P, NEW g \in F
  PROVE  Above(F, P, g) = IF P[g] \in F THEN {P[g]} \cup Above(F, P, P[g]) ELSE {}
<1>1. \A h \in F : g \in Below(F, P, h) <=> (P[g] = h \/ P[g] \in Below(F, P, h))
  BY BelowStep
<1>2. \A h : Below(F, P, h) \subseteq F
  BY DEF Below
<1> QED BY <1>1, <1>2 DEF Above

LEMMA AboveIsUnique ==
  ASSUME NEW F, NEW P, Rooted(F, P), NEW A,
         \A g \in F : A[g] = IF P[g] \in F THEN {P[g]} \cup A[P[g]] ELSE {}
  PROVE  \A g \in F : A[g] = Above(F, P, g)
<1> DEFINE S == {g \in F : A[g] # Above(F, P, g)}
<1>1. ASSUME NEW g \in S PROVE P[g] \in S
  <2>1. /\ A[g] = IF P[g] \in F THEN {P[g]} \cup A[P[g]] ELSE {}
        /\ Above(F, P, g) = IF P[g] \in F THEN {P[g]} \cup Above(F, P, P[g]) ELSE {}
        /\ A[g] # Above(F, P, g)
    BY AboveStep
  <2> QED BY <2>1
<1>2. S \in SUBSET F
  OBVIOUS
<1>3. S = {}
  <2> HIDE DEF S
  <2> QED BY <1>1, <1>2 DEF Rooted
<1> QED BY <1>3

LEMMA AboveAbove ==
  ASSUME NEW F, NEW P, NEW g \in F, NEW h \in Above(F, P, g)
  PROVE  Above(F, P, h) \subseteq Above(F, P, g)
<1> SUFFICES ASSUME NEW x \in F, h \in Below(F, P, x) PROVE g \in Below(F, P, x)
  BY DEF Above
<1>1. g \in Below(F, P, h)
  BY DEF Above
<1> QED BY <1>1, BelowBelow

LEMMA NotAboveItself ==
  ASSUME NEW F, NEW P, Rooted(F, P), NEW f \in F
  PROVE  f \notin Above(F, P, f)
  BY NotBelowItself DEF Above

\* A new leaf.
Sprouts(F, P, Q, f) ==
  Rooted(F, P) /\ f \notin F /\ Q[f] # f /\ \A g \in F : Q[g] = P[g] /\ P[g] # f

LEMMA CreateAbove ==
  ASSUME NEW F, NEW P, NEW Q, NEW f, Sprouts(F, P, Q, f)
  PROVE  /\ Rooted(F \cup {f}, Q)
         /\ \A g \in F : Above(F \cup {f}, Q, g) = Above(F, P, g)
         /\ Above(F \cup {f}, Q, f) = IF Q[f] \in F THEN {Q[f]} \cup Above(F, P, Q[f]) ELSE {}
<1> USE DEF Sprouts
<1> DEFINE G == F \cup {f}
<1>1. Rooted(G, Q)
  <2> SUFFICES ASSUME NEW S \in SUBSET G, S # {}, \A g \in S : Q[g] \in S
               PROVE  FALSE
    BY DEF Rooted
  <2> DEFINE T == S \ {f}
  <2>1. \A g \in T : P[g] \in T
    OBVIOUS
  <2>2. T # {}
    OBVIOUS
  <2>3. T \in SUBSET F
    OBVIOUS
  <2> HIDE DEF T
  <2> QED BY <2>1, <2>2, <2>3 DEF Rooted
<1> DEFINE A == [g \in G |-> IF g = f THEN IF Q[f] \in F THEN {Q[f]} \cup Above(F, P, Q[f]) ELSE {}
                             ELSE Above(F, P, g)]
<1>2. ASSUME NEW g \in G PROVE A[g] = IF Q[g] \in G THEN {Q[g]} \cup A[Q[g]] ELSE {}
  <2>1. CASE g = f
    BY <2>1
  <2>2. CASE g # f
    <3>1. g \in F /\ Q[g] = P[g] /\ P[g] # f
      BY <2>2
    <3>2. Above(F, P, g) = IF P[g] \in F THEN {P[g]} \cup Above(F, P, P[g]) ELSE {}
      BY <3>1, AboveStep
    <3> QED BY <2>2, <3>1, <3>2
  <2> QED BY <2>1, <2>2
<1>3. \A g \in G : A[g] = Above(G, Q, g)
  <2> HIDE DEF A, G
  <2>1. \A g \in G : A[g] = IF Q[g] \in G THEN {Q[g]} \cup A[Q[g]] ELSE {}
    BY <1>2
  <2> QED BY ONLY <1>1, <2>1, AboveIsUnique
<1> QED BY <1>1, <1>3

\* A node goes, and what hung from it hangs from its parent.
Dissolves(F, P, G, Q, d) ==
  /\ Rooted(F, P) /\ d \in F /\ G = F \ {d}
  /\ \A g \in G : Q[g] = IF P[g] = d THEN P[d] ELSE P[g]

LEMMA DissolveAbove ==
  ASSUME NEW F, NEW P, NEW G, NEW Q, NEW d, Dissolves(F, P, G, Q, d)
  PROVE  Rooted(G, Q) /\ \A g \in G : Above(G, Q, g) = Above(F, P, g) \ {d}
<1> USE DEF Dissolves
<1>1. P[d] # d
  <2>1. {d} \in SUBSET F /\ {d} # {}
    OBVIOUS
  <2> QED BY <2>1 DEF Rooted
<1>2. Rooted(G, Q)
  <2> SUFFICES ASSUME NEW S \in SUBSET G, S # {}, \A g \in S : Q[g] \in S
               PROVE  FALSE
    BY DEF Rooted
  <2>1. CASE \E g \in S : P[g] = d
    <3>1. P[d] \in S
      BY <2>1
    <3>2. \A g \in S \cup {d} : P[g] \in S \cup {d}
      BY <3>1
    <3>3. S \cup {d} \in SUBSET F /\ S \cup {d} # {}
      OBVIOUS
    <3> QED BY <3>2, <3>3 DEF Rooted
  <2>2. CASE \A g \in S : P[g] # d
    <3>1. \A g \in S : P[g] \in S
      BY <2>2
    <3>2. S \in SUBSET F
      OBVIOUS
    <3> QED BY <3>1, <3>2 DEF Rooted
  <2> QED BY <2>1, <2>2
<1> DEFINE A == [g \in G |-> Above(F, P, g) \ {d}]
<1>3. ASSUME NEW g \in G PROVE A[g] = IF Q[g] \in G THEN {Q[g]} \cup A[Q[g]] ELSE {}
  <2>1. Above(F, P, g) = IF P[g] \in F THEN {P[g]} \cup Above(F, P, P[g]) ELSE {}
    BY AboveStep
  <2>2. CASE P[g] = d
    <3>1. Q[g] = P[d] /\ A[g] = Above(F, P, d) \ {d}
      BY <2>1, <2>2
    <3>2. Above(F, P, d) = IF P[d] \in F THEN {P[d]} \cup Above(F, P, P[d]) ELSE {}
      BY AboveStep
    <3>3. P[d] \in F <=> P[d] \in G
      BY <1>1
    <3>4. CASE P[d] \in F
      <4>1. A[Q[g]] = Above(F, P, P[d]) \ {d}
        BY <3>1, <3>3, <3>4
      <4> QED BY <1>1, <3>1, <3>2, <3>3, <3>4, <4>1
    <3>5. CASE P[d] \notin F
      BY <3>1, <3>2, <3>3, <3>5
    <3> QED BY <3>4, <3>5
  <2>3. CASE P[g] # d
    <3>1. Q[g] = P[g] /\ (P[g] \in F <=> P[g] \in G)
      BY <2>3
    <3> QED BY <2>1, <2>3, <3>1
  <2> QED BY <2>2, <2>3
<1>4. \A g \in G : A[g] = Above(G, Q, g)
  <2> HIDE DEF A
  <2>1. \A g \in G : A[g] = IF Q[g] \in G THEN {Q[g]} \cup A[Q[g]] ELSE {}
    BY <1>3
  <2> QED BY ONLY <1>2, <2>1, AboveIsUnique
<1> QED BY <1>2, <1>4

\* A node moves, with what is below it, below one that is not.
Hangs(F, P, Q, f, p) ==
  /\ Rooted(F, P) /\ f \in F /\ p # f /\ p \notin Below(F, P, f)
  /\ Q[f] = p /\ \A g \in F \ {f} : Q[g] = P[g]

LEMMA MoveAbove ==
  ASSUME NEW F, NEW P, NEW Q, NEW f, NEW p, Hangs(F, P, Q, f, p)
  PROVE  /\ Rooted(F, Q)
         /\ p \in F => f \notin Above(F, P, p)
         /\ \A g \in F : Above(F, Q, g) =
              LET Over == IF p \in F THEN {p} \cup Above(F, P, p) ELSE {}
              IN  IF g = f THEN Over
                  ELSE IF f \in Above(F, P, g) THEN (Above(F, P, g) \ Above(F, P, f)) \cup Over
                  ELSE Above(F, P, g)
<1> USE DEF Hangs
<1>1. Rooted(F, Q)
  <2> SUFFICES ASSUME NEW S \in SUBSET F, S # {}, \A g \in S : Q[g] \in S
               PROVE  FALSE
    BY DEF Rooted
  <2> DEFINE T == S \ ({f} \cup Below(F, P, f))
  <2>1. f \in S
    <3> SUFFICES ASSUME f \notin S PROVE FALSE
      OBVIOUS
    <3>1. \A g \in S : P[g] \in S
      OBVIOUS
    <3> QED BY <3>1 DEF Rooted
  <2>2. p \in T
    BY <2>1
  <2>3. ASSUME NEW g \in T PROVE P[g] \in T
    <3>1. P[g] \in S
      BY <2>3
    <3>2. P[g] # f /\ P[g] \notin Below(F, P, f)
      BY <2>3, BelowStep
    <3> QED BY <3>1, <3>2
  <2>4. T \in SUBSET F
    OBVIOUS
  <2> HIDE DEF T
  <2> QED BY <2>2, <2>3, <2>4 DEF Rooted
<1>2. f \notin Above(F, P, p)
  BY DEF Above
<1> DEFINE Over == IF p \in F THEN {p} \cup Above(F, P, p) ELSE {}
           A == [g \in F |-> IF g = f THEN Over
                             ELSE IF f \in Above(F, P, g) THEN (Above(F, P, g) \ Above(F, P, f)) \cup Over
                             ELSE Above(F, P, g)]
<1>3. ASSUME NEW g \in F PROVE A[g] = IF Q[g] \in F THEN {Q[g]} \cup A[Q[g]] ELSE {}
  <2>1. CASE g = f
    BY <1>2, <2>1
  <2>2. CASE g # f
    <3>1. Q[g] = P[g]
      BY <2>2
    <3>2. Above(F, P, g) = IF P[g] \in F THEN {P[g]} \cup Above(F, P, P[g]) ELSE {}
      BY AboveStep
    <3>3. CASE P[g] \notin F
      BY <2>2, <3>1, <3>2, <3>3
    <3>4. CASE P[g] = f
      <4>1. f \notin Above(F, P, f)
        BY NotAboveItself
      <4>2. A[g] = {f} \cup Over
        BY <2>2, <3>2, <3>4, <4>1
      <4> QED BY <3>1, <3>4, <4>2
    <3>5. CASE P[g] \in F /\ P[g] # f /\ f \in Above(F, P, P[g])
      <4>1. P[g] \notin Above(F, P, f)
        <5>1. P[g] \in Above(F, P, f) => Above(F, P, P[g]) \subseteq Above(F, P, f)
          BY AboveAbove
        <5> QED BY <3>5, <5>1, NotAboveItself
      <4>2. A[g] = (({P[g]} \cup Above(F, P, P[g])) \ Above(F, P, f)) \cup Over
        BY <2>2, <3>2, <3>5
      <4>3. A[P[g]] = (Above(F, P, P[g]) \ Above(F, P, f)) \cup Over
        BY <3>5
      <4> QED BY <3>1, <3>5, <4>1, <4>2, <4>3
    <3>6. CASE P[g] \in F /\ P[g] # f /\ f \notin Above(F, P, P[g])
      BY <2>2, <3>1, <3>2, <3>6
    <3> QED BY <3>3, <3>4, <3>5, <3>6
  <2> QED BY <2>1, <2>2
<1>4. \A g \in F : A[g] = Above(F, Q, g)
  <2> HIDE DEF A
  <2>1. \A g \in F : A[g] = IF Q[g] \in F THEN {Q[g]} \cup A[Q[g]] ELSE {}
    BY <1>3
  <2> QED BY ONLY <1>1, <2>1, AboveIsUnique
<1> QED BY <1>1, <1>2, <1>4

-------------------------------------------------------------------------------
(* The tree of the table. *)

LEMMA TreeOfTable ==
  /\ \A f : Groups!Descendants(f) = Below(folders, parent, f)
  /\ \A f : Groups!Descendants(f)' = Below(folders', parent', f)
  /\ Acyclic <=> Rooted(folders, parent)
  /\ Acyclic' <=> Rooted(folders', parent')
<1>1. \A f : Groups!Descendants(f) = Below(folders, parent, f)
  BY DEF Groups!Descendants, Groups!ClosedBelow, Below
<1>2. \A f : Groups!Descendants(f)' = Below(folders', parent', f)
  BY DEF Groups!Descendants, Groups!ClosedBelow, Below
<1> QED BY <1>1, <1>2 DEF Acyclic, Groups!Acyclic, Rooted

\* The value of the abstract hierarchy.
Tops == [f \in folders |-> Groups!Ancestors(f)]

LEMMA TopsOfTable ==
  /\ Tops = [f \in folders |-> Above(folders, parent, f)]
  /\ Tops' = [f \in folders' |-> Above(folders', parent', f)]
<1>1. \A f : Groups!Ancestors(f) = Above(folders, parent, f)
  BY TreeOfTable DEF Groups!Ancestors, Above
<1>2. \A f : Groups!Ancestors(f)' = Above(folders', parent', f)
  BY TreeOfTable DEF Groups!Ancestors, Above
<1> QED BY <1>1, <1>2 DEF Tops

\* A create is a Create of the hierarchy.
LEMMA CreateImplements ==
  ASSUME GroupsInv, Creates
  PROVE  GroupsShape' /\ Acyclic' /\ Groups!Hierarchy!Next
<1> USE DEF GroupsInv
<1>1. PICK f \in Groups!Ids \ folders :
        /\ folders' = folders \cup {f}
        /\ parent' = [parent EXCEPT ![f] = Pending1.parent]
        /\ name' = [name EXCEPT ![f] = Pending1.name]
  BY DEF Creates
<1> PICK p : p = Pending1.parent
  OBVIOUS
<1>2. Pending1 \in Groups!Request
  BY DEF Pending1
<1>3. p \in folders \cup {Groups!Null} /\ p \in Groups!Places /\ Pending1.name \in Names
  BY <1>2 DEF Checked, Creates, Groups!FkHolds, Groups!Request, GroupsShape, Groups!Places
<1>4. f # Groups!Null /\ p # f
  BY <1>3 DEF Groups!Null, Groups!Ids
<1>5. parent'[f] = p /\ \A g \in folders : parent'[g] = parent[g] /\ parent[g] # f
  BY <1>1, <1>4 DEF GroupsShape
<1>6. GroupsShape'
  BY <1>1, <1>3, <1>4, <1>5 DEF GroupsShape
<1>7. Rooted(folders, parent)
  BY TreeOfTable
<1>8. /\ Rooted(folders', parent')
      /\ \A g \in folders : Above(folders', parent', g) = Above(folders, parent, g)
      /\ Above(folders', parent', f) = IF p \in folders THEN {p} \cup Above(folders, parent, p) ELSE {}
  <2>1. Sprouts(folders, parent, parent', f)
    BY <1>4, <1>5, <1>7 DEF Sprouts
  <2>2. /\ Rooted(folders \cup {f}, parent')
        /\ \A g \in folders : Above(folders \cup {f}, parent', g) = Above(folders, parent, g)
        /\ Above(folders \cup {f}, parent', f) =
             IF parent'[f] \in folders THEN {parent'[f]} \cup Above(folders, parent, parent'[f]) ELSE {}
    BY <2>1, CreateAbove
  <2> QED BY <1>1, <1>5, <2>2
<1>9. Groups!Null \notin folders
  BY DEF GroupsShape, Groups!Null, Groups!Ids
<1>10. Groups!Hierarchy!Create(f, p)
  <2>1. DOMAIN Tops = folders /\ \A g \in folders : Tops[g] = Above(folders, parent, g)
    BY TopsOfTable
  <2>2. Tops' = [g \in folders \cup {f} |-> IF g = f THEN IF p = Groups!Null THEN {} ELSE {p} \cup Tops[p]
                                            ELSE Tops[g]]
    <3>1. p \in folders <=> p # Groups!Null
      BY <1>3, <1>9
    <3>2. \A g \in folders' : Above(folders', parent', g) =
            IF g = f THEN IF p = Groups!Null THEN {} ELSE {p} \cup Tops[p] ELSE Tops[g]
      BY <1>1, <1>8, <2>1, <3>1
    <3> QED BY ONLY <1>1, <3>2, TopsOfTable
  <2> QED BY <1>1, <2>1, <2>2 DEF Tops, Groups!Hierarchy!Create, Groups!Hierarchy!Inside, Groups!Hierarchy!groups
<1>11. Groups!Hierarchy!Next
  BY <1>3, <1>10, TopsOfTable DEF Groups!Hierarchy!Next, Groups!Hierarchy!groups, Tops
<1> QED BY <1>6, <1>8, <1>11, TreeOfTable

\* A rename leaves the hierarchy alone, and a move is a Move of it.
LEMMA UpdateImplements ==
  ASSUME GroupsInv, Updates
  PROVE  GroupsShape' /\ Acyclic' /\ (Groups!Hierarchy!Next \/ UNCHANGED Tops)
<1> USE DEF GroupsInv
<1> PICK f : f = Pending1.id
  OBVIOUS
<1> PICK p : p = Pending1.parent
  OBVIOUS
<1>1. Pending1 \in Groups!Request
  BY DEF Pending1
<1>2. /\ f \in folders /\ folders' = folders /\ p \in Groups!MoveTargets(f)
      /\ parent' = [parent EXCEPT ![f] = p] /\ name' = [name EXCEPT ![f] = Pending1.name]
  BY DEF Updates, Checked
<1>3. p \in folders \cup {Groups!Null} /\ p \in Groups!Places /\ Pending1.name \in Names
  BY <1>1, <1>2 DEF Groups!MoveTargets, Groups!Request, GroupsShape, Groups!Places
<1>4. f \in Groups!Ids /\ Groups!Null \notin folders
  <2>1. folders \subseteq Groups!Ids
    BY DEF GroupsShape
  <2> QED BY ONLY <1>2, <2>1 DEF Groups!Null, Groups!Ids
<1>5. GroupsShape'
  BY <1>2, <1>3, <1>4 DEF GroupsShape
<1>6. CASE p = parent[f]
  <2>1. parent' = parent
    BY <1>2, <1>4, <1>6 DEF GroupsShape
  <2> QED BY <1>2, <1>5, <2>1, TreeOfTable, TopsOfTable
<1>7. CASE p # parent[f]
  <2>1. p # f /\ p \notin Below(folders, parent, f)
    <3>1. p = Groups!Null \/ p \in folders \ ({f} \cup Groups!Descendants(f))
      BY <1>2, <1>7 DEF Groups!MoveTargets
    <3> QED BY <1>2, <1>4, <3>1, TreeOfTable DEF Below
  <2>2. Hangs(folders, parent, parent', f, p)
    BY <1>2, <1>4, <2>1, TreeOfTable DEF Hangs, GroupsShape
  <2> DEFINE Over == IF p \in folders THEN {p} \cup Above(folders, parent, p) ELSE {}
  <2>3. /\ Rooted(folders, parent')
        /\ p \in folders => f \notin Above(folders, parent, p)
        /\ \A g \in folders : Above(folders, parent', g) =
             IF g = f THEN Over
             ELSE IF f \in Above(folders, parent, g)
                  THEN (Above(folders, parent, g) \ Above(folders, parent, f)) \cup Over
             ELSE Above(folders, parent, g)
    BY <2>2, MoveAbove
  <2>4. Groups!Hierarchy!Move(f, p)
    <3>1. DOMAIN Tops = folders /\ \A g \in folders : Tops[g] = Above(folders, parent, g)
      BY TopsOfTable
    <3>2. Over = IF p = Groups!Null THEN {} ELSE {p} \cup Tops[p]
      BY <1>3, <1>4, <3>1
    <3>3. f # p /\ f \notin Over
      BY <2>1, <2>3
    <3> HIDE DEF Over
    <3>4. \A g \in folders' : Above(folders', parent', g) =
            IF g = f THEN Over
            ELSE IF f \in Tops[g] THEN (Tops[g] \ Tops[f]) \cup Over
            ELSE Tops[g]
      BY <1>2, <2>3, <3>1
    <3>5. Tops' = [g \in folders |-> IF g = f THEN Over
                                     ELSE IF f \in Tops[g] THEN (Tops[g] \ Tops[f]) \cup Over
                                     ELSE Tops[g]]
      BY ONLY <1>2, <3>4, TopsOfTable
    <3> QED BY <1>2, <3>1, <3>2, <3>3, <3>5
       DEF Tops, Groups!Hierarchy!Move, Groups!Hierarchy!Inside, Groups!Hierarchy!groups
  <2>5. Groups!Hierarchy!Next
    BY <1>3, <1>4, <2>4, TopsOfTable DEF Groups!Hierarchy!Next, Groups!Hierarchy!groups, Tops
  <2> QED BY <1>2, <1>5, <2>3, <2>5, TreeOfTable
<1> QED BY <1>6, <1>7

\* A delete dissolves the group, and keeps the rest as it was.
LEMMA DeleteImplements ==
  ASSUME GroupsInv, Deletes
  PROVE  /\ GroupsShape' /\ Acyclic' /\ Groups!Hierarchy!Next
         /\ \A f \in folders' : Groups!Descendants(f)' = Groups!Descendants(f) \cap folders'
<1> USE DEF GroupsInv
<1> PICK d : d = Pending1.id
  OBVIOUS
<1>1. /\ d \in folders /\ folders' = folders \ {d}
      /\ parent' \in [Groups!Ids -> Groups!Places] /\ name' \in [Groups!Ids -> Names]
      /\ \A g \in folders' : parent'[g] = IF parent[g] = d THEN parent[d] ELSE parent[g]
  BY DEF Deletes, Checked
<1>2. Dissolves(folders, parent, folders', parent', d)
  BY <1>1, TreeOfTable DEF Dissolves
<1>3. /\ Rooted(folders', parent')
      /\ \A g \in folders' : Above(folders', parent', g) = Above(folders, parent, g) \ {d}
  BY ONLY <1>2, DissolveAbove
<1>4. Acyclic'
  BY <1>1, <1>3, TreeOfTable
<1>5. parent[d] # d
  <2>1. {d} \in SUBSET folders /\ {d} # {}
    BY <1>1
  <2> QED BY <2>1 DEF Acyclic, Groups!Acyclic
<1>6. GroupsShape'
  BY <1>1, <1>5 DEF GroupsShape
<1>7. DOMAIN Tops = folders /\ \A g \in folders : Tops[g] = Above(folders, parent, g)
  BY TopsOfTable
<1>8. \A g \in folders' : Above(folders', parent', g) = Tops[g] \ {d}
  BY <1>1, <1>3, <1>7
<1>9. Groups!Hierarchy!Dissolve(d)
  <2>1. Tops' = [g \in folders \ {d} |-> Tops[g] \ {d}]
    BY ONLY <1>1, <1>8, TopsOfTable
  <2> QED BY <1>1, <1>7, <2>1 DEF Tops, Groups!Hierarchy!Dissolve, Groups!Hierarchy!groups
<1>10. Groups!Hierarchy!Next
  BY <1>1, <1>9 DEF Groups!Hierarchy!Next, GroupsShape
<1>11. ASSUME NEW f \in folders'
       PROVE  Groups!Descendants(f)' = Groups!Descendants(f) \cap folders'
  <2>1. \A g \in folders' : f \in Above(folders', parent', g) <=> f \in Above(folders, parent, g)
    <3>1. f # d /\ folders' \subseteq folders
      BY <1>1
    <3> QED BY ONLY <3>1, <1>7, <1>8
  <2>2. \A g \in folders' : g \in Below(folders', parent', f) <=> g \in Below(folders, parent, f)
    BY <1>1, <2>1 DEF Above
  <2>3. Below(folders', parent', f) \subseteq folders'
    BY DEF Below
  <2> QED BY <2>2, <2>3, TreeOfTable
<1> QED BY <1>4, <1>6, <1>10, <1>11

\* What a group is created or renamed to is nobody's name among its siblings.
LEMMA NoNewTwins ==
  ASSUME GroupsInv, Creates \/ Updates
  PROVE  Groups!Twins' \subseteq Groups!Twins
<1> USE DEF GroupsInv, GroupsShape
<1> SUFFICES ASSUME NEW a \in folders', NEW b \in folders', a # b,
                    name'[a] = name'[b], parent'[a] = parent'[b]
             PROVE  <<a, b>> \in Groups!Twins
  BY DEF Groups!Twins
<1>1. CASE Creates
  <2>1. PICK f \in Groups!Ids \ folders :
          /\ folders' = folders \cup {f}
          /\ parent' = [parent EXCEPT ![f] = Pending1.parent]
          /\ name' = [name EXCEPT ![f] = Pending1.name]
    BY <1>1 DEF Creates
  <2>2. \A g \in folders : ~(name[g] = Pending1.name /\ parent[g] = Pending1.parent)
    BY <1>1 DEF Creates, Checked
  <2>3. a # f /\ b # f
    BY <2>1, <2>2
  <2> QED BY <2>1, <2>3 DEF Groups!Twins
<1>2. CASE Updates
  <2> PICK f : f = Pending1.id
    OBVIOUS
  <2>1. /\ f \in folders /\ folders' = folders
        /\ parent' = [parent EXCEPT ![f] = Pending1.parent]
        /\ name' = [name EXCEPT ![f] = Pending1.name]
    BY <1>2 DEF Updates, Checked
  <2>2. \/ \A g \in folders : ~(name[g] = Pending1.name /\ parent[g] = Pending1.parent)
        \/ name[f] = Pending1.name /\ parent[f] = Pending1.parent
    BY <1>2 DEF Updates, Checked
  <2>3. CASE \A g \in folders : ~(name[g] = Pending1.name /\ parent[g] = Pending1.parent)
    <3>1. a # f /\ b # f
      BY <2>1, <2>3
    <3> QED BY <2>1, <3>1 DEF Groups!Twins
  <2>4. CASE name[f] = Pending1.name /\ parent[f] = Pending1.parent
    <3>1. \A g \in folders : name'[g] = name[g] /\ parent'[g] = parent[g]
      BY <2>1, <2>4
    <3> QED BY <2>1, <3>1 DEF Groups!Twins
  <2> QED BY <2>2, <2>3, <2>4
<1> QED BY <1>1, <1>2

-------------------------------------------------------------------------------
(* Groups: the theorems. *)

TwinsStep ==
  (\E w \in {"serial"} : req[w].op # "delete" /\ req'[w].op = "idle") => Groups!Twins' \subseteq Groups!Twins

AncestryStep ==
  (\E w \in {"serial"} : req[w].op = "delete" /\ req'[w].op = "idle") =>
    \A f \in folders' : Groups!Descendants(f)' = Groups!Descendants(f) \cap folders'

GroupsProperties == TwinsStep /\ AncestryStep /\ (Groups!Hierarchy!Next \/ UNCHANGED Tops)

LEMMA GroupsInit == Groups!Init => GroupsInv /\ Groups!Hierarchy!Init
<1> SUFFICES ASSUME Groups!Init PROVE GroupsInv /\ Groups!Hierarchy!Init
  OBVIOUS
<1>1. folders = {} /\ parent = [f \in Groups!Ids |-> Groups!Null] /\ name = [f \in Groups!Ids |-> Groups!Idle.name]
      /\ req = [w \in {"serial"} |-> Groups!Idle]
  BY DEF Groups!Init
<1>2. Groups!Idle.name \in Names /\ Groups!Idle \in Groups!Request
  BY NoNameType, GroupsIdle DEF Groups!Idle
<1>3. GroupsShape /\ req \in [{"serial"} -> Groups!Request]
  BY <1>1, <1>2 DEF GroupsShape, Groups!Places
<1>4. Checked
  BY <1>1, GroupsIdle DEF Checked, Pending1
<1>5. Acyclic
  BY <1>1 DEF Acyclic, Groups!Acyclic
<1>6. Groups!Hierarchy!Init
  BY <1>1 DEF Groups!Hierarchy!Init
<1> QED BY <1>3, <1>4, <1>5, <1>6 DEF GroupsInv

LEMMA GroupsQuiet ==
  ASSUME GroupsInv, UNCHANGED folderVars
  PROVE  GroupsInv' /\ UNCHANGED Groups!vars
<1>1. UNCHANGED <<folders, parent, name, req>>
  BY DEF folderVars
<1>2. Checked'
  BY <1>1 DEF GroupsInv, Checked, Pending1, Groups!FkHolds, Groups!MoveTargets, Groups!Descendants,
              Groups!ClosedBelow
<1>3. Acyclic' /\ GroupsShape'
  BY <1>1 DEF GroupsInv, Acyclic, Groups!Acyclic, GroupsShape
<1> QED BY <1>1, <1>2, <1>3 DEF GroupsInv, folderVars, Groups!vars

LEMMA GroupsStep ==
  ASSUME GroupsInv, Groups!Next
  PROVE  GroupsInv' /\ GroupsProperties
<1>1. Groups!Begin("serial") \/ Groups!Commit("serial")
  BY DEF Groups!Next
<1>2. CASE Groups!Begin("serial")
  <2>1. /\ UNCHANGED <<folders, parent, name>> /\ req' \in [{"serial"} -> Groups!Request]
        /\ req'["serial"].op # "idle" /\ Checked'
    BY <1>2, BeginChecks DEF Pending1
  <2>2. Acyclic' /\ GroupsShape'
    BY <2>1 DEF GroupsInv, Acyclic, Groups!Acyclic, GroupsShape
  <2>3. UNCHANGED Tops
    BY <2>1, TopsOfTable
  <2> QED BY <2>1, <2>2, <2>3 DEF GroupsInv, GroupsProperties, TwinsStep, AncestryStep
<1>3. CASE Groups!Commit("serial")
  <2>1. /\ req' \in [{"serial"} -> Groups!Request] /\ Checked'
        /\ Creates \/ Updates \/ Deletes
    BY <1>3, CommitWrites
  <2>2. CASE Creates \/ Updates
    <3>1. GroupsShape' /\ Acyclic' /\ (Groups!Hierarchy!Next \/ UNCHANGED Tops)
      BY <2>2, CreateImplements, UpdateImplements
    <3>2. TwinsStep /\ AncestryStep
      BY <2>2, NoNewTwins DEF TwinsStep, AncestryStep, Creates, Updates, Pending1
    <3> QED BY <2>1, <3>1, <3>2 DEF GroupsInv, GroupsProperties
  <2>3. CASE Deletes
    <3>1. GroupsShape' /\ Acyclic' /\ Groups!Hierarchy!Next
      BY <2>3, DeleteImplements
    <3>2. AncestryStep
      BY <2>3, DeleteImplements DEF AncestryStep
    <3>3. TwinsStep
      BY <2>3 DEF TwinsStep, Deletes, Pending1
    <3> QED BY <2>1, <3>1, <3>2, <3>3 DEF GroupsInv, GroupsProperties
  <2> QED BY <2>1, <2>2, <2>3
<1> QED BY <1>1, <1>2, <1>3

handlersVars == <<table, vars, rowVars, folderVars>>

LEMMA HandlersGroups ==
  /\ HandlersInit => GroupsInv /\ Groups!Hierarchy!Init
  /\ GroupsInv /\ [HandlersNext]_handlersVars => GroupsInv' /\ [GroupsProperties]_(Groups!vars)
<1>1. HandlersInit => GroupsInv /\ Groups!Hierarchy!Init
  BY GroupsInit DEF HandlersInit
<1>2. ASSUME GroupsInv, [HandlersNext]_handlersVars
      PROVE  GroupsInv' /\ [GroupsProperties]_(Groups!vars)
  <2>1. Groups!Next \/ UNCHANGED folderVars
    BY <1>2 DEF HandlersNext, handlersVars
  <2> QED BY <1>2, <2>1, GroupsStep, GroupsQuiet
<1> QED BY <1>1, <1>2

\* The groups never form a cycle, served one request at a time.
THEOREM GroupsStayAForest == HandlersSpec => []Acyclic
<1>1. GroupsInv => Acyclic
  BY DEF GroupsInv
<1> QED BY <1>1, HandlersGroups, PTL DEF HandlersSpec, handlersVars

\* Only a delete makes two groups of one parent share a name.
THEOREM OnlyDeletesMakeTwins == HandlersSpec => OnlyDeleteMakesTwins
<1>1. [GroupsProperties]_(Groups!vars) => [TwinsStep]_(Groups!vars)
  BY DEF GroupsProperties
<1>2. HandlersSpec => [][TwinsStep]_(Groups!vars)
  BY <1>1, HandlersGroups, PTL DEF HandlersSpec, handlersVars
<1> QED BY <1>2 DEF OnlyDeleteMakesTwins, Groups!OnlyDeleteMakesTwins, TwinsStep

\* Of two groups that survive a delete, one is above the other exactly when it was.
THEOREM DeletesKeepAncestry == HandlersSpec => DeleteKeepsAncestry
<1>1. [GroupsProperties]_(Groups!vars) => [AncestryStep]_(Groups!vars)
  BY DEF GroupsProperties
<1>2. HandlersSpec => [][AncestryStep]_(Groups!vars)
  BY <1>1, HandlersGroups, PTL DEF HandlersSpec, handlersVars
<1> QED BY <1>2 DEF DeleteKeepsAncestry, Groups!DeleteKeepsAncestry, AncestryStep

\* The rows and their parent column implement the hierarchy of groups: what a request
\* writes is a create, a move with everything inside, or a dissolving of it.
THEOREM TableImplementsHierarchy == HandlersSpec => ImplementsHierarchy
<1>1. GroupsInv /\ [GroupsProperties]_(Groups!vars) =>
        [Groups!Hierarchy!Next]_([f \in folders |-> Groups!Ancestors(f)])
  <2>1. UNCHANGED Groups!vars => UNCHANGED Tops
    BY TopsOfTable DEF Groups!vars
  <2> QED BY <2>1 DEF GroupsProperties, Tops
<1> QED BY <1>1, HandlersGroups, PTL DEF HandlersSpec, handlersVars, ImplementsHierarchy,
           Groups!ImplementsHierarchy, Groups!Hierarchy!Spec

-------------------------------------------------------------------------------
(* Servers: what the import keeps of a file.                                   *)

\* One row more: it is left out when it clashes.
KeepsOr(t, kept, r) == IF Row!Clashes(t, kept, r) THEN kept ELSE Append(kept, r)

\* k(s) is what is kept of the rows s of the file, read in some order.
KeepsBy(k, t, n, file) ==
  /\ k \in [SUBSET (1..n) -> Seq(Row!Row)]
  /\ k[{}] = <<>>
  /\ k[1..n] = Row!Kept(t, file)
  /\ \A s \in SUBSET (1..n) : s # {} => \E c \in s : k[s] = KeepsOr(t, k[s \ {c}], file[c])

LEMMA KeepsExist ==
  ASSUME NEW t, NEW n \in Nat, NEW file \in [1..n -> Row!Row]
  PROVE  \E k : KeepsBy(k, t, n, file)
<1> DEFINE T == 1..n
           V == Seq(Row!Row)
           ch == [s \in SUBSET T |-> Row!Max(s)]
           op == [p \in T \X V |-> KeepsOr(t, p[2], file[p[1]])]
           R(h) == [s \in SUBSET T |-> IF s = {} THEN <<>>
                                       ELSE KeepsOr(t, h[s \ {Row!Max(s)}], file[Row!Max(s)])]
           i == CHOOSE h : h = R(h)
<1>1. op \in [T \X V -> V]
  <2>1. ASSUME NEW p \in T \X V PROVE KeepsOr(t, p[2], file[p[1]]) \in V
    <3>1. p[2] \in Seq(Row!Row) /\ file[p[1]] \in Row!Row
      OBVIOUS
    <3>2. Append(p[2], file[p[1]]) \in Seq(Row!Row)
      BY <3>1, AppendProperties
    <3> QED BY <3>1, <3>2 DEF KeepsOr
  <2> QED BY <2>1
<1>2. ASSUME NEW s \in SUBSET T, s # {} PROVE Row!Max(s) \in s
  <2>1. s \in SUBSET Nat /\ \A y \in s : y <= n
    BY <1>2
  <2>2. \E x \in s : \A y \in s : x >= y
    BY <2>1, <1>2, GreatestExists
  <2> QED BY <2>2 DEF Row!Max
<1>3. IsFiniteSet(T)
  BY FS_Interval
<1>4. <<>> \in V
  BY EmptySeq
<1>5. \A s \in SUBSET T : s # {} => ch[s] \in s
  BY <1>2
<1>6. PICK g : FoldsBy(g, T, V, <<>>, ch, op)
  <2> HIDE DEF T, V, ch, op
  <2> QED BY <1>1, <1>3, <1>4, <1>5, FoldExists
<1>7. g \in [SUBSET T -> V]
  BY <1>6 DEF FoldsBy
<1>8. ASSUME NEW s \in SUBSET T
      PROVE  g[s] = IF s = {} THEN <<>> ELSE KeepsOr(t, g[s \ {Row!Max(s)}], file[Row!Max(s)])
  <2>1. CASE s = {}
    BY <1>6, <2>1 DEF FoldsBy
  <2>2. CASE s # {}
    <3> DEFINE c == Row!Max(s)
    <3>1. c \in s /\ ch[s] = c
      BY <2>2, <1>2
    <3> HIDE DEF c
    <3>2. g[s \ {c}] \in V /\ c \in T
      BY <1>7, <3>1
    <3>3. g[s] = op[<<c, g[s \ {c}]>>]
      <4> HIDE DEF ch, op, V, T
      <4> QED BY <1>6, <2>2, <3>1 DEF FoldsBy
    <3>4. <<c, g[s \ {c}]>> \in T \X V
      BY <3>2
    <3>5. g[s] = KeepsOr(t, g[s \ {c}], file[c])
      <4> HIDE DEF V, T
      <4> QED BY <3>3, <3>4
    <3> QED BY <3>5, <2>2 DEF c
  <2> QED BY <2>1, <2>2
<1>9. g = R(g)
  <2> HIDE DEF V, T
  <2> QED BY <1>7, <1>8
<1>10. i = R(i)
  <2> HIDE DEF R
  <2> QED BY <1>9
<1>11. Row!Kept(t, file) = i[T]
  <2>1. DOMAIN file = T
    OBVIOUS
  <2> QED BY <2>1 DEF Row!Kept, Row!FoldLeft, Row!MapThenFoldSet, KeepsOr
<1>12. ASSUME NEW s \in SUBSET T
       PROVE  i[s] = IF s = {} THEN <<>> ELSE KeepsOr(t, i[s \ {Row!Max(s)}], file[Row!Max(s)])
  <2> HIDE DEF i, T
  <2> QED BY <1>10
<1> HIDE DEF i, T, V, ch, op, R
<1> DEFINE Same == {s \in SUBSET T : i[s] = g[s]}
<1>13. {} \in Same
  BY <1>8, <1>12
<1>14. ASSUME NEW s \in SUBSET T, s # {} PROVE \E c \in s : s \ {c} \in Same => s \in Same
  <2> DEFINE c == Row!Max(s)
  <2>1. c \in s
    BY <1>2, <1>14
  <2>2. g[s] = KeepsOr(t, g[s \ {c}], file[c]) /\ i[s] = KeepsOr(t, i[s \ {c}], file[c])
    BY <1>8, <1>12, <1>14
  <2> HIDE DEF c
  <2>3. s \ {c} \in Same => s \in Same
    BY <2>2
  <2> QED BY <2>1, <2>3
<1>15. SUBSET T \subseteq Same
  <2> HIDE DEF Same
  <2> QED BY <1>3, <1>13, <1>14, SubsetInduction
<1>16. T \in Same
  BY <1>15
<1>17. g[T] = Row!Kept(t, file)
  BY <1>11, <1>16
<1>18. \A s \in SUBSET T : s # {} => \E c \in s : g[s] = KeepsOr(t, g[s \ {c}], file[c])
  BY <1>2, <1>8
<1>19. g[{}] = <<>>
  BY <1>8
<1> QED BY <1>7, <1>17, <1>18, <1>19 DEF KeepsBy, T, V

\* Rows that are apart from the table and from one another.
ApartFrom(t, kept) ==
  /\ \A k \in 1..Len(kept) :
       ~Row!HostTaken(t, kept[k].host, kept[k].grp, 0) /\ ~Row!AddressTaken(t, kept[k].ip, 0)
  /\ \A k, l \in 1..Len(kept) : k # l =>
       kept[k].ip # kept[l].ip /\ ~(kept[k].host = kept[l].host /\ kept[k].grp = kept[l].grp)

LEMMA AppendedRows ==
  ASSUME NEW kept \in Seq(Row!Row), NEW r \in Row!Row
  PROVE  /\ Append(kept, r) \in Seq(Row!Row)
         /\ Len(Append(kept, r)) = Len(kept) + 1 /\ Len(kept) \in Nat
         /\ \A k \in 1..Len(kept) : Append(kept, r)[k] = kept[k]
         /\ Append(kept, r)[Len(kept) + 1] = r
         /\ \A k \in 1..(Len(kept) + 1) : k \in 1..Len(kept) \/ k = Len(kept) + 1
<1>1. Len(kept) \in Nat
  BY LenProperties
<1> QED BY <1>1, AppendProperties

LEMMA ApartMore ==
  ASSUME NEW t, NEW kept \in Seq(Row!Row), NEW r \in Row!Row, ApartFrom(t, kept)
  PROVE  ApartFrom(t, KeepsOr(t, kept, r))
<1>1. CASE Row!Clashes(t, kept, r)
  BY <1>1 DEF KeepsOr
<1>2. CASE ~Row!Clashes(t, kept, r)
  <2> DEFINE a == Append(kept, r)
             n == Len(kept)
  <2>1. /\ Len(a) = n + 1 /\ n \in Nat
        /\ \A k \in 1..n : a[k] = kept[k]
        /\ a[n + 1] = r
        /\ \A k \in 1..(n + 1) : k \in 1..n \/ k = n + 1
    BY AppendedRows
  <2>2. /\ ~Row!HostTaken(t, r.host, r.grp, 0) /\ ~Row!AddressTaken(t, r.ip, 0)
        /\ \A k \in 1..n : kept[k].ip # r.ip /\ ~(kept[k].host = r.host /\ kept[k].grp = r.grp)
    BY <1>2 DEF Row!Clashes
  <2> HIDE DEF a
  <2>3. ASSUME NEW k \in 1..(n + 1)
        PROVE  ~Row!HostTaken(t, a[k].host, a[k].grp, 0) /\ ~Row!AddressTaken(t, a[k].ip, 0)
    BY <2>1, <2>2 DEF ApartFrom
  <2>4. ASSUME NEW k \in 1..(n + 1), NEW l \in 1..(n + 1), k # l
        PROVE  a[k].ip # a[l].ip /\ ~(a[k].host = a[l].host /\ a[k].grp = a[l].grp)
    <3>1. CASE k \in 1..n /\ l \in 1..n
      BY <3>1, <2>1, <2>4 DEF ApartFrom
    <3>2. CASE k \in 1..n /\ l = n + 1
      BY <3>2, <2>1, <2>2
    <3>3. CASE k = n + 1 /\ l \in 1..n
      BY <3>3, <2>1, <2>2
    <3> QED BY <3>1, <3>2, <3>3, <2>1, <2>4
  <2>5. ApartFrom(t, a)
    BY <2>1, <2>3, <2>4 DEF ApartFrom
  <2> QED BY <1>2, <2>5 DEF KeepsOr, a
<1> QED BY <1>1, <1>2

\* What clashes still does when one more row is kept, and a row that was read does.
LEMMA ClashesMore ==
  ASSUME NEW t, NEW kept \in Seq(Row!Row), NEW r \in Row!Row
  PROVE  /\ \A x : Row!Clashes(t, kept, x) => Row!Clashes(t, KeepsOr(t, kept, r), x)
         /\ Row!Clashes(t, KeepsOr(t, kept, r), r)
<1>1. CASE Row!Clashes(t, kept, r)
  BY <1>1 DEF KeepsOr
<1>2. CASE ~Row!Clashes(t, kept, r)
  <2> DEFINE a == Append(kept, r)
             n == Len(kept)
  <2>1. /\ Len(a) = n + 1 /\ n \in Nat
        /\ \A k \in 1..n : a[k] = kept[k]
        /\ a[n + 1] = r
    BY AppendedRows
  <2> HIDE DEF a
  <2>2. 1..n \subseteq 1..(n + 1) /\ n + 1 \in 1..(n + 1)
    BY <2>1
  <2>3. \A x : Row!Clashes(t, kept, x) => Row!Clashes(t, a, x)
    BY <2>1, <2>2 DEF Row!Clashes
  <2>4. Row!Clashes(t, a, r)
    BY <2>1, <2>2 DEF Row!Clashes
  <2> QED BY <1>2, <2>3, <2>4 DEF KeepsOr, a
<1> QED BY <1>1, <1>2

\* The rows kept are apart, and every row of the file clashes with the table or with them.
LEMMA KeptFacts ==
  ASSUME NEW t, NEW n \in Nat, NEW file \in [1..n -> Row!Row]
  PROVE  /\ Row!Kept(t, file) \in Seq(Row!Row)
         /\ ApartFrom(t, Row!Kept(t, file))
         /\ \A i \in 1..n : Row!Clashes(t, Row!Kept(t, file), file[i])
<1> DEFINE T == 1..n
<1>1. PICK k : KeepsBy(k, t, n, file)
  BY KeepsExist
<1>2. k \in [SUBSET T -> Seq(Row!Row)] /\ k[{}] = <<>> /\ k[T] = Row!Kept(t, file)
  BY <1>1 DEF KeepsBy
<1> DEFINE Good == {s \in SUBSET T : /\ ApartFrom(t, k[s])
                                     /\ \A i \in s : Row!Clashes(t, k[s], file[i])}
<1>3. {} \in Good
  <2>1. Len(<<>>) = 0
    BY EmptySeq
  <2> QED BY <1>2, <2>1 DEF ApartFrom
<1>4. ASSUME NEW s \in SUBSET T, s # {} PROVE \E c \in s : s \ {c} \in Good => s \in Good
  <2>1. PICK c \in s : k[s] = KeepsOr(t, k[s \ {c}], file[c])
    BY <1>1, <1>4 DEF KeepsBy
  <2> DEFINE r == s \ {c}
  <2>2. k[r] \in Seq(Row!Row) /\ file[c] \in Row!Row
    BY <1>2
  <2>3. ASSUME r \in Good PROVE s \in Good
    <3>1. ApartFrom(t, k[s])
      BY <2>1, <2>2, <2>3, ApartMore
    <3>2. ASSUME NEW i \in s PROVE Row!Clashes(t, k[s], file[i])
      <4>1. CASE i = c
        BY <4>1, <2>1, <2>2, ClashesMore
      <4>2. CASE i # c
        <5>1. Row!Clashes(t, k[r], file[i])
          BY <4>2, <2>3
        <5> QED BY <5>1, <2>1, <2>2, ClashesMore
      <4> QED BY <4>1, <4>2
    <3> QED BY <3>1, <3>2
  <2> HIDE DEF Good
  <2> QED BY <2>3
<1>5. IsFiniteSet(T)
  BY FS_Interval
<1>6. SUBSET T \subseteq Good
  <2> HIDE DEF Good, T
  <2> QED BY <1>3, <1>4, <1>5, SubsetInduction
<1>7. T \in Good /\ k[T] \in Seq(Row!Row)
  BY <1>2, <1>6
<1> QED BY <1>2, <1>7

\* A file whose rows all clash with the table has nothing to keep.
LEMMA NothingToKeep ==
  ASSUME NEW t, NEW n \in Nat, NEW file \in [1..n -> Row!Row],
         \A i \in 1..n : Row!Clashes(t, <<>>, file[i])
  PROVE  Row!Kept(t, file) = <<>>
<1> DEFINE T == 1..n
<1>1. PICK k : KeepsBy(k, t, n, file)
  BY KeepsExist
<1>2. k[{}] = <<>> /\ k[T] = Row!Kept(t, file)
  BY <1>1 DEF KeepsBy
<1> DEFINE Good == {s \in SUBSET T : k[s] = <<>>}
<1>3. {} \in Good
  BY <1>2
<1>4. ASSUME NEW s \in SUBSET T, s # {} PROVE \E c \in s : s \ {c} \in Good => s \in Good
  <2>1. PICK c \in s : k[s] = KeepsOr(t, k[s \ {c}], file[c])
    BY <1>1, <1>4 DEF KeepsBy
  <2> QED BY <2>1 DEF KeepsOr
<1>5. IsFiniteSet(T)
  BY FS_Interval
<1>6. SUBSET T \subseteq Good
  <2> HIDE DEF Good, T
  <2> QED BY <1>3, <1>4, <1>5, SubsetInduction
<1> QED BY <1>2, <1>6

-------------------------------------------------------------------------------
(* Servers: the table, and what a request in flight has checked.               *)

IsTable(t) ==
  IsFiniteSet(DOMAIN t) /\ DOMAIN t \in SUBSET (Nat \ {0}) /\ t \in [DOMAIN t -> Row!Row]

\* What the request r checked of the rows it saw, by its kind.
CreateChecked(r) ==
  r.op = "create" => \E x \in Row!Row : r.new = <<x>> /\ ~Row!HostTaken(r.seen, x.host, x.grp, 0)

ImportChecked(r) ==
  r.op = "import" => \E n \in Nat : r.file \in [1..n -> Row!Row] /\ r.new = Row!Kept(r.seen, r.file)

UpdateChecked(r) ==
  r.op = "update" =>
    /\ r.host \in Hosts /\ r.ip \in Addresses
    /\ r.host # r.seen[r.id].host => ~Row!HostTaken(r.seen, r.host, r.seen[r.id].grp, r.id)
    /\ r.ip # r.seen[r.id].ip => ~Row!AddressTaken(r.seen, r.ip, r.id)

RequestChecked(r) ==
  /\ CreateChecked(r) /\ ImportChecked(r) /\ UpdateChecked(r)
  /\ r.op = "assign" => r.grp \in Row!Buckets

InventoryOK ==
  /\ IsTable(servers)
  /\ requests = [w \in Workers |-> requests[w]]
  /\ \A w \in Workers : RequestChecked(requests[w])

LEMMA InventoryInit == Row!Init => InventoryOK
<1> SUFFICES ASSUME Row!Init PROVE InventoryOK
  OBVIOUS
<1>1. servers = [i \in {} |-> 0] /\ requests = [w \in Workers |-> Row!Idle]
  BY DEF Row!Init
<1>2. IsTable(servers)
  <2>1. DOMAIN servers = {} /\ servers \in [{} -> Row!Row]
    BY <1>1
  <2> QED BY <2>1, FS_EmptySet DEF IsTable
<1>3. RequestChecked(Row!Idle)
  BY DEF RequestChecked, CreateChecked, ImportChecked, UpdateChecked, Row!Idle
<1> QED BY <1>1, <1>2, <1>3 DEF InventoryOK

\* The rows of an insert get the ids after the largest in use.
LastOf == Row!LastId

LEMMA FiniteIsBounded ==
  ASSUME NEW D \in SUBSET Nat, IsFiniteSet(D)
  PROVE  \E m \in Nat : \A x \in D : x <= m
<1> DEFINE Good == {s \in SUBSET D : \E m \in Nat : \A x \in s : x <= m}
<1>1. {} \in Good
  OBVIOUS
<1>2. ASSUME NEW s \in SUBSET D, s # {} PROVE \E c \in s : s \ {c} \in Good => s \in Good
  <2>1. PICK c \in s : TRUE
    BY <1>2
  <2>2. ASSUME s \ {c} \in Good PROVE s \in Good
    <3>1. PICK m \in Nat : \A x \in s \ {c} : x <= m
      BY <2>2
    <3>2. m + c \in Nat /\ \A x \in s : x <= m + c
      BY <3>1
    <3> QED BY <3>2
  <2> QED BY <2>2
<1>3. SUBSET D \subseteq Good
  <2> HIDE DEF Good
  <2> QED BY <1>1, <1>2, SubsetInduction
<1>4. D \in Good
  BY <1>3
<1> QED BY <1>4

LEMMA LastIsLast ==
  ASSUME IsTable(servers)
  PROVE  LastOf \in Nat /\ \A i \in DOMAIN servers : i <= LastOf
<1> DEFINE S == DOMAIN servers
           D == S \cup {0}
<1>1. IsFiniteSet(D)
  BY FS_AddElement DEF IsTable
<1>2. D \in SUBSET Nat /\ D # {}
  BY DEF IsTable
<1>3. PICK m \in D : \A x \in D : m >= x
  <2> HIDE DEF D
  <2>1. PICK n \in Nat : \A x \in D : x <= n
    BY <1>1, <1>2, FiniteIsBounded
  <2> QED BY <1>2, <2>1, GreatestExists
<1>4. m \in D /\ \A i \in S : i <= m
  BY <1>2, <1>3
<1>5. LastOf \in D /\ \A i \in S : i <= LastOf
  <2> HIDE DEF D
  <2>1. LastOf = CHOOSE x \in D : \A i \in S : i <= x
    BY DEF LastOf, Row!LastId, Row!Servers, D
  <2> QED BY <2>1, <1>4
<1> QED BY <1>2, <1>5

\* t is servers with the rows new after the last.
Inserts(t, new) ==
  t = [i \in DOMAIN servers \cup (LastOf + 1 .. LastOf + Len(new)) |->
         IF i \in DOMAIN servers THEN servers[i] ELSE new[i - LastOf]]

LEMMA InsertedRows ==
  ASSUME IsTable(servers), NEW new \in Seq(Row!Row), NEW t, Inserts(t, new)
  PROVE  /\ IsTable(t)
         /\ \A i \in DOMAIN servers : i \in DOMAIN t /\ t[i] = servers[i]
         /\ \A k \in 1..Len(new) : LastOf + k \in DOMAIN t \ {0} /\ t[LastOf + k] = new[k]
         /\ \A i \in DOMAIN t : i \in DOMAIN servers \/ \E k \in 1..Len(new) : i = LastOf + k
<1> DEFINE S == DOMAIN servers
           n == Len(new)
           top == LastOf
           N == (top + 1 .. top + n)
<1>1. n \in Nat /\ new \in [1..n -> Row!Row]
  BY LenProperties
<1>2. top \in Nat /\ \A i \in S : i <= top
  BY LastIsLast
<1>3. S \in SUBSET (Nat \ {0}) /\ servers \in [S -> Row!Row] /\ IsFiniteSet(S)
  BY DEF IsTable
<1>4. t = [i \in S \cup N |-> IF i \in S THEN servers[i] ELSE new[i - top]]
  BY DEF Inserts
<1> HIDE DEF top, n
<1>5. \A i \in N : i \in Nat \ {0} /\ i - top \in 1..n /\ i = top + (i - top) /\ i \notin S
  BY <1>1, <1>2, <1>3
<1>6. \A k \in 1..n : top + k \in N /\ (top + k) - top = k
  BY <1>1, <1>2
<1> HIDE DEF N, S
<1>7. IsFiniteSet(N)
  BY <1>1, <1>2, FS_Interval DEF N
<1>8. IsFiniteSet(S \cup N)
  BY <1>3, <1>7, FS_Union
<1>9. DOMAIN t = S \cup N /\ t \in [S \cup N -> Row!Row]
  BY <1>1, <1>3, <1>4, <1>5
<1>10. IsTable(t)
  BY <1>3, <1>5, <1>8, <1>9 DEF IsTable
<1>11. \A i \in S : i \in DOMAIN t /\ t[i] = servers[i]
  BY <1>4, <1>9
<1>12. ASSUME NEW k \in 1..n PROVE top + k \in DOMAIN t \ {0} /\ t[top + k] = new[k]
  BY <1>4, <1>5, <1>6, <1>9
<1>13. \A i \in DOMAIN t : i \in S \/ \E k \in 1..n : i = top + k
  BY <1>5, <1>9
<1> QED BY <1>10, <1>11, <1>12, <1>13 DEF S, n, top

-------------------------------------------------------------------------------
(* Servers: a request begins.                                                  *)

AcceptedRow(w, r) == requests' = [requests EXCEPT ![w] = r] /\ UNCHANGED <<servers, groups>>

LEMMA AcceptKeeps ==
  ASSUME InventoryOK, NEW w \in Workers, NEW r, AcceptedRow(w, r), RequestChecked(r)
  PROVE  InventoryOK'
<1>1. UNCHANGED servers /\ requests' = [requests EXCEPT ![w] = r]
  BY DEF AcceptedRow
<1>2. requests' = [v \in Workers |-> IF v = w THEN r ELSE requests[v]]
  BY <1>1 DEF InventoryOK
<1>3. requests' = [v \in Workers |-> requests'[v]]
  BY <1>2
<1>4. \A v \in Workers : RequestChecked(requests'[v])
  BY <1>2 DEF InventoryOK
<1> QED BY <1>1, <1>3, <1>4 DEF InventoryOK, IsTable, RequestChecked, CreateChecked,
           ImportChecked, UpdateChecked, Row!HostTaken, Row!AddressTaken

LEMMA BeginKeeps ==
  ASSUME InventoryOK, NEW w \in Workers, Row!Begin(w)
  PROVE  InventoryOK' /\ requests'[w].op # "idle"
<1> SUFFICES \E r : AcceptedRow(w, r) /\ RequestChecked(r) /\ r.op # "idle"
  <2>1. PICK r : AcceptedRow(w, r) /\ RequestChecked(r) /\ r.op # "idle"
    OBVIOUS
  <2>2. requests'[w] = r
    BY <2>1 DEF AcceptedRow, InventoryOK
  <2> QED BY <2>1, <2>2, AcceptKeeps
<1>1. CASE \E x \in Row!Row : Row!BeginCreate(w, x)
  <2>1. PICK x \in Row!Row : Row!BeginCreate(w, x)
    BY <1>1
  <2>2. PICK r : r = [op |-> "create", new |-> <<x>>, made |-> {}, seen |-> servers]
    OBVIOUS
  <2>3. AcceptedRow(w, r)
    BY <2>1, <2>2 DEF Row!BeginCreate, Row!Accept, Row!tables, AcceptedRow
  <2>4. ~Row!HostTaken(servers, x.host, x.grp, 0)
    BY <2>1 DEF Row!BeginCreate
  <2>5. r.op = "create" /\ r.new = <<x>> /\ r.seen = servers
    BY <2>2
  <2>6. RequestChecked(r)
    BY <2>4, <2>5 DEF RequestChecked, CreateChecked, ImportChecked, UpdateChecked
  <2> QED BY <2>3, <2>5, <2>6
<1>2. CASE \E file \in Row!Files : Row!BeginImport(w, file)
  <2>1. PICK file \in Row!Files : Row!BeginImport(w, file)
    BY <1>2
  <2>2. PICK n \in Nat : file \in [1..n -> Row!Row]
    BY <2>1, RowsAssumption DEF Row!Files, Row!BoundedSeq, Row!SeqOf, Row!InventoryAssumption
  <2>3. PICK r : r = [op |-> "import", new |-> Row!Kept(servers, file), made |-> Row!NewGroups(file),
                      file |-> file, seen |-> servers]
    OBVIOUS
  <2>4. AcceptedRow(w, r)
    BY <2>1, <2>3 DEF Row!BeginImport, Row!Accept, Row!tables, AcceptedRow
  <2>5. r.op = "import" /\ r.new = Row!Kept(r.seen, r.file) /\ r.file = file
    BY <2>3
  <2>6. RequestChecked(r)
    BY <2>2, <2>5 DEF RequestChecked, CreateChecked, ImportChecked, UpdateChecked
  <2> QED BY <2>4, <2>5, <2>6
<1>3. CASE \E i \in DOMAIN servers, h \in Hosts, a \in Addresses : Row!BeginUpdate(w, i, h, a)
  <2>1. PICK i \in DOMAIN servers, h \in Hosts, a \in Addresses : Row!BeginUpdate(w, i, h, a)
    BY <1>3
  <2>2. PICK r : r = [op |-> "update", id |-> i, host |-> h, ip |-> a, seen |-> servers]
    OBVIOUS
  <2>3. AcceptedRow(w, r)
    BY <2>1, <2>2 DEF Row!BeginUpdate, Row!Accept, Row!tables, AcceptedRow
  <2>4. /\ h # servers[i].host => ~Row!HostTaken(servers, h, servers[i].grp, i)
        /\ a # servers[i].ip => ~Row!AddressTaken(servers, a, i)
    BY <2>1 DEF Row!BeginUpdate
  <2>5. r.op = "update" /\ r.id = i /\ r.host = h /\ r.ip = a /\ r.seen = servers
    BY <2>2
  <2>6. RequestChecked(r)
    BY <2>4, <2>5 DEF RequestChecked, CreateChecked, ImportChecked, UpdateChecked
  <2> QED BY <2>3, <2>5, <2>6
<1>4. CASE \E i \in DOMAIN servers, b \in Row!Buckets : Row!BeginAssign(w, i, b)
  <2>1. PICK i \in DOMAIN servers, b \in Row!Buckets : Row!BeginAssign(w, i, b)
    BY <1>4
  <2>2. PICK r : r = [op |-> "assign", id |-> i, grp |-> b, seen |-> servers]
    OBVIOUS
  <2>3. AcceptedRow(w, r)
    BY <2>1, <2>2 DEF Row!BeginAssign, Row!Accept, Row!tables, AcceptedRow
  <2>4. r.op = "assign" /\ r.grp = b
    BY <2>2
  <2>5. RequestChecked(r)
    BY <2>4 DEF RequestChecked, CreateChecked, ImportChecked, UpdateChecked
  <2> QED BY <2>3, <2>4, <2>5
<1>5. CASE \E i \in DOMAIN servers : Row!BeginRemove(w, i)
  <2>1. PICK i \in DOMAIN servers : Row!BeginRemove(w, i)
    BY <1>5
  <2>2. PICK r : r = [op |-> "remove", id |-> i, seen |-> servers]
    OBVIOUS
  <2>3. AcceptedRow(w, r)
    BY <2>1, <2>2 DEF Row!BeginRemove, Row!Accept, Row!tables, AcceptedRow
  <2>4. r.op = "remove"
    BY <2>2
  <2>5. RequestChecked(r)
    BY <2>4 DEF RequestChecked, CreateChecked, ImportChecked, UpdateChecked
  <2> QED BY <2>3, <2>4, <2>5
<1> QED BY <1>1, <1>2, <1>3, <1>4, <1>5 DEF Row!Begin, Row!Servers

-------------------------------------------------------------------------------
(* Servers: a request commits.                                                 *)

LEMMA RequestsDone ==
  ASSUME InventoryOK, NEW w \in Workers, Row!Done(w), IsTable(servers')
  PROVE  InventoryOK'
<1>1. requests' = [v \in Workers |-> IF v = w THEN Row!Idle ELSE requests[v]]
  BY DEF InventoryOK, Row!Done
<1>2. requests' = [v \in Workers |-> requests'[v]]
  BY <1>1
<1>3. RequestChecked(Row!Idle)
  BY DEF RequestChecked, CreateChecked, ImportChecked, UpdateChecked, Row!Idle
<1>4. \A v \in Workers : RequestChecked(requests'[v])
  BY <1>1, <1>3 DEF InventoryOK
<1> QED BY <1>2, <1>4 DEF InventoryOK, IsTable, RequestChecked, CreateChecked,
           ImportChecked, UpdateChecked, Row!HostTaken, Row!AddressTaken

\* What a commit writes, when it is not rolled back.
LEMMA NewRowsType ==
  ASSUME NEW r, RequestChecked(r), r.op \in {"create", "import"}
  PROVE  r.new \in Seq(Row!Row)
<1>1. CASE r.op = "create"
  <2>1. PICK x \in Row!Row : r.new = <<x>>
    BY <1>1 DEF RequestChecked, CreateChecked
  <2> QED BY <2>1
<1>2. CASE r.op = "import"
  <2>1. PICK n \in Nat : r.file \in [1..n -> Row!Row] /\ r.new = Row!Kept(r.seen, r.file)
    BY <1>2 DEF RequestChecked, ImportChecked
  <2> QED BY <2>1, KeptFacts
<1> QED BY <1>1, <1>2

LEMMA InsertKeeps ==
  ASSUME InventoryOK, NEW w \in Workers, Row!CommitInsert(w)
  PROVE  /\ InventoryOK'
         /\ requests[w].op \in {"create", "import"} /\ requests[w].new \in Seq(Row!Row)
         /\ UNCHANGED servers \/ Inserts(servers', requests[w].new)
<1>1. requests[w].op \in {"create", "import"} /\ requests[w].new \in Seq(Row!Row)
  BY NewRowsType DEF Row!CommitInsert, InventoryOK
<1>2. Row!Done(w) /\ (UNCHANGED servers \/ Inserts(servers', requests[w].new))
  BY DEF Row!CommitInsert, Row!RollBack, Row!tables, Inserts, LastOf, Row!Servers
<1>3. IsTable(servers')
  BY <1>1, <1>2, InsertedRows DEF InventoryOK
<1> QED BY <1>1, <1>2, <1>3, RequestsDone

\* An update, or an assignment, of one row.
Rewrites(i, new) ==
  /\ i \in DOMAIN servers /\ new \in Row!Row
  /\ servers' = [servers EXCEPT ![i] = new]

LEMMA RewriteKeeps ==
  ASSUME IsTable(servers), NEW i, NEW new, Rewrites(i, new)
  PROVE  /\ IsTable(servers') /\ DOMAIN servers' = DOMAIN servers /\ servers'[i] = new
         /\ \A j \in DOMAIN servers : j # i => servers'[j] = servers[j]
  BY DEF IsTable, Rewrites

LEMMA UpdateKeeps ==
  ASSUME InventoryOK, NEW w \in Workers, Row!CommitUpdate(w)
  PROVE  /\ InventoryOK' /\ requests[w].op = "update"
         /\ \/ UNCHANGED servers
            \/ \E new : /\ Rewrites(requests[w].id, new)
                        /\ new.grp = servers[requests[w].id].grp
                        /\ requests[w].seen = servers =>
                             new.host = requests[w].host /\ new.ip = requests[w].ip
<1> DEFINE r == requests[w]
           i == r.id
           old == r.seen[i]
           new == [host |-> IF r.host # old.host THEN r.host ELSE servers[i].host,
                   ip |-> IF r.ip # old.ip THEN r.ip ELSE servers[i].ip, grp |-> servers[i].grp]
<1>1. r.op = "update" /\ Row!Done(w) /\ r.host \in Hosts /\ r.ip \in Addresses
  BY DEF Row!CommitUpdate, Row!RollBack, InventoryOK, RequestChecked, UpdateChecked
<1>2. UNCHANGED servers \/ (i \in DOMAIN servers /\ servers' = [servers EXCEPT ![i] = new])
  BY DEF Row!CommitUpdate, Row!RollBack, Row!tables, Row!Servers
<1>3. CASE UNCHANGED servers
  <2>1. IsTable(servers')
    BY <1>3 DEF InventoryOK
  <2> QED BY <1>1, <1>3, <2>1, RequestsDone
<1>4. CASE i \in DOMAIN servers /\ servers' = [servers EXCEPT ![i] = new]
  <2>1. servers[i] \in Row!Row
    BY <1>4 DEF InventoryOK, IsTable
  <2>2. new \in Row!Row /\ new.grp = servers[i].grp
    BY <1>1, <2>1 DEF Row!Row
  <2>3. r.seen = servers => new.host = r.host /\ new.ip = r.ip
    OBVIOUS
  <2>4. Rewrites(i, new)
    BY <1>4, <2>2 DEF Rewrites
  <2>5. IsTable(servers')
    BY <2>4, RewriteKeeps DEF InventoryOK
  <2>6. InventoryOK'
    BY <1>1, <2>5, RequestsDone
  <2> HIDE DEF new
  <2> QED BY <1>1, <2>2, <2>3, <2>4, <2>6
<1> QED BY <1>2, <1>3, <1>4

LEMMA AssignKeeps ==
  ASSUME InventoryOK, NEW w \in Workers, Row!CommitAssign(w)
  PROVE  /\ InventoryOK' /\ requests[w].op = "assign"
         /\ \/ UNCHANGED servers
            \/ \E new : Rewrites(requests[w].id, new) /\ new.ip = servers[requests[w].id].ip
<1> DEFINE r == requests[w]
           i == r.id
           new == [servers[i] EXCEPT !.grp = r.grp]
<1>1. r.op = "assign" /\ Row!Done(w) /\ r.grp \in Row!Buckets
  BY DEF Row!CommitAssign, Row!RollBack, InventoryOK, RequestChecked
<1>2. UNCHANGED servers \/ (i \in DOMAIN servers /\ servers' = [servers EXCEPT ![i] = new])
  BY DEF Row!CommitAssign, Row!RollBack, Row!tables, Row!Servers, Row!AssignHolds
<1>3. CASE UNCHANGED servers
  <2>1. IsTable(servers')
    BY <1>3 DEF InventoryOK
  <2> QED BY <1>1, <1>3, <2>1, RequestsDone
<1>4. CASE i \in DOMAIN servers /\ servers' = [servers EXCEPT ![i] = new]
  <2>1. servers[i] \in Row!Row
    BY <1>4 DEF InventoryOK, IsTable
  <2>2. new \in Row!Row /\ new.ip = servers[i].ip
    BY <1>1, <2>1 DEF Row!Row
  <2>3. Rewrites(i, new)
    BY <1>4, <2>2 DEF Rewrites
  <2>4. IsTable(servers')
    BY <2>3, RewriteKeeps DEF InventoryOK
  <2>5. InventoryOK'
    BY <1>1, <2>4, RequestsDone
  <2> HIDE DEF new
  <2> QED BY <1>1, <2>2, <2>3, <2>5
<1> QED BY <1>2, <1>3, <1>4

LEMMA RemoveKeeps ==
  ASSUME InventoryOK, NEW w \in Workers, Row!CommitRemove(w)
  PROVE  /\ InventoryOK' /\ requests[w].op = "remove"
         /\ DOMAIN servers' \subseteq DOMAIN servers
         /\ \A i \in DOMAIN servers' : servers'[i] = servers[i]
<1> DEFINE S == DOMAIN servers \ {requests[w].id}
<1>1. requests[w].op = "remove" /\ Row!Done(w) /\ servers' = [i \in S |-> servers[i]]
  BY DEF Row!CommitRemove, Row!Servers
<1>2. IsFiniteSet(S) /\ S \subseteq DOMAIN servers
  BY FS_Subset DEF InventoryOK, IsTable
<1>3. IsTable(servers')
  BY <1>1, <1>2 DEF InventoryOK, IsTable
<1>4. DOMAIN servers' \subseteq DOMAIN servers /\ \A i \in DOMAIN servers' : servers'[i] = servers[i]
  BY <1>1
<1> QED BY <1>1, <1>3, <1>4, RequestsDone

\* The two requests for groups leave the others in flight alone.
LEMMA GroupsKeep ==
  ASSUME InventoryOK, NEW w \in Workers, NEW g, Row!CreateGroup(w, g) \/ Row!DeleteGroup(w, g)
  PROVE  InventoryOK' /\ UNCHANGED requests
<1>1. UNCHANGED requests
  BY DEF Row!CreateGroup, Row!DeleteGroup
<1>2. IsTable(servers')
  <2>1. CASE Row!CreateGroup(w, g)
    BY <2>1 DEF Row!CreateGroup, InventoryOK
  <2>2. CASE Row!DeleteGroup(w, g)
    <3>1. servers' = [i \in DOMAIN servers |->
                        IF servers[i].grp = g THEN [servers[i] EXCEPT !.grp = Unassigned]
                                              ELSE servers[i]]
      BY <2>2 DEF Row!DeleteGroup, Row!Servers
    <3>2. \A i \in DOMAIN servers : servers'[i] \in Row!Row
      BY <3>1 DEF InventoryOK, IsTable, Row!Row, Row!Buckets
    <3> QED BY <3>1, <3>2 DEF InventoryOK, IsTable
  <2> QED BY <2>1, <2>2
<1> QED BY <1>1, <1>2 DEF InventoryOK, RequestChecked, CreateChecked,
           ImportChecked, UpdateChecked, Row!HostTaken, Row!AddressTaken

LEMMA CommitKeeps ==
  ASSUME InventoryOK, NEW w \in Workers, Row!Commit(w)
  PROVE  InventoryOK'
  BY InsertKeeps, UpdateKeeps, AssignKeeps, RemoveKeeps DEF Row!Commit

-------------------------------------------------------------------------------
(* Servers: which pairs a commit brings together.                              *)

\* Two servers share an address; two of one group share a hostname.
ShareAddress(t, i, j) == t[i].ip = t[j].ip
ShareName(t, i, j) == t[i].host = t[j].host /\ t[i].grp = t[j].grp

LEMMA PairsOf ==
  ASSUME DOMAIN servers' \subseteq DOMAIN servers
  PROVE  /\ (\A i, j \in DOMAIN servers' : i # j /\ ShareAddress(servers', i, j) => ShareAddress(servers, i, j))
              => Row!SameAddress' \subseteq Row!SameAddress
         /\ (\A i, j \in DOMAIN servers' : i # j /\ ShareName(servers', i, j) => ShareName(servers, i, j))
              => Row!Namesakes' \subseteq Row!Namesakes
  BY DEF ShareAddress, ShareName, Row!SameAddress, Row!Namesakes, Row!Servers

LEMMA SamePairs ==
  ASSUME UNCHANGED servers
  PROVE  Row!SameAddress' \subseteq Row!SameAddress /\ Row!Namesakes' \subseteq Row!Namesakes
  BY DEF Row!SameAddress, Row!Namesakes, Row!Servers

\* Rows inserted that are apart from the table, and from one another, join no pair.
LEMMA InsertPairs ==
  ASSUME IsTable(servers), NEW new \in Seq(Row!Row), Inserts(servers', new)
  PROVE  /\ ApartFrom(servers, new) => Row!SameAddress' \subseteq Row!SameAddress
         /\ (/\ \A k \in 1..Len(new) : ~Row!HostTaken(servers, new[k].host, new[k].grp, 0)
             /\ \A k, l \in 1..Len(new) : k # l => ~(new[k].host = new[l].host /\ new[k].grp = new[l].grp))
              => Row!Namesakes' \subseteq Row!Namesakes
<1> DEFINE S == DOMAIN servers
           T == DOMAIN servers'
           K == 1..Len(new)
           top == LastOf
<1>1. /\ \A i \in S : i \in T /\ servers'[i] = servers[i]
      /\ \A k \in K : servers'[top + k] = new[k]
      /\ \A i \in T : i \in S \/ \E k \in K : i = top + k
  BY InsertedRows
<1>2. \A i \in S : i \in S \ {0}
  BY DEF IsTable
<1> HIDE DEF top, K
<1>3. ASSUME ApartFrom(servers, new), NEW i \in T, NEW j \in T, i # j, servers'[i].ip = servers'[j].ip
      PROVE  i \in S /\ j \in S
  <2>1. \A k \in K : \A m \in S : servers[m].ip # new[k].ip
    BY <1>2, <1>3 DEF ApartFrom, Row!AddressTaken, K
  <2>2. \A k, l \in K : k # l => new[k].ip # new[l].ip
    BY <1>3 DEF ApartFrom, K
  <2>3. CASE i \in S
    BY <1>1, <1>3, <2>1, <2>3
  <2>4. CASE i \notin S
    <3>1. PICK k \in K : i = top + k
      BY <1>1, <2>4
    <3>2. CASE j \in S
      BY <1>1, <1>3, <2>1, <3>1, <3>2
    <3>3. CASE j \notin S
      <4>1. PICK l \in K : j = top + l
        BY <1>1, <3>3
      <4> QED BY <1>1, <1>3, <2>2, <3>1, <4>1
    <3> QED BY <3>2, <3>3
  <2> QED BY <2>3, <2>4
<1>4. ASSUME \A k \in K : ~Row!HostTaken(servers, new[k].host, new[k].grp, 0),
             \A k, l \in K : k # l => ~(new[k].host = new[l].host /\ new[k].grp = new[l].grp),
             NEW i \in T, NEW j \in T, i # j, ShareName(servers', i, j)
      PROVE  i \in S /\ j \in S
  <2>1. \A k \in K : \A m \in S : ~(servers[m].host = new[k].host /\ servers[m].grp = new[k].grp)
    BY <1>2, <1>4 DEF Row!HostTaken
  <2>2. servers'[i].host = servers'[j].host /\ servers'[i].grp = servers'[j].grp
    BY <1>4 DEF ShareName
  <2>3. CASE i \in S
    BY <1>1, <2>1, <2>2, <2>3
  <2>4. CASE i \notin S
    <3>1. PICK k \in K : i = top + k
      BY <1>1, <2>4
    <3>2. CASE j \in S
      BY <1>1, <2>1, <2>2, <3>1, <3>2
    <3>3. CASE j \notin S
      <4>1. PICK l \in K : j = top + l
        BY <1>1, <3>3
      <4> QED BY <1>1, <1>4, <2>2, <3>1, <4>1
    <3> QED BY <3>2, <3>3
  <2> QED BY <2>3, <2>4
<1>5. ASSUME ApartFrom(servers, new) PROVE Row!SameAddress' \subseteq Row!SameAddress
  BY <1>1, <1>3, <1>5 DEF Row!SameAddress, Row!Servers
<1>6. ASSUME \A k \in K : ~Row!HostTaken(servers, new[k].host, new[k].grp, 0),
             \A k, l \in K : k # l => ~(new[k].host = new[l].host /\ new[k].grp = new[l].grp)
      PROVE  Row!Namesakes' \subseteq Row!Namesakes
  BY <1>1, <1>4, <1>6 DEF Row!Namesakes, Row!Servers, ShareName
<1> QED BY <1>5, <1>6 DEF K

\* A commit that writes to the rows its checks saw.
Undisturbed(w) == requests[w].seen = servers

LEMMA InsertApart ==
  ASSUME InventoryOK, NEW w \in Workers, Row!CommitInsert(w), Undisturbed(w)
  PROVE  /\ requests[w].op = "import" => Row!SameAddress' \subseteq Row!SameAddress
         /\ Row!Namesakes' \subseteq Row!Namesakes
<1> DEFINE r == requests[w]
<1>1. /\ r.op \in {"create", "import"} /\ r.new \in Seq(Row!Row)
      /\ UNCHANGED servers \/ Inserts(servers', r.new)
  BY InsertKeeps
<1>2. IsTable(servers) /\ RequestChecked(r)
  BY DEF InventoryOK
<1>3. CASE UNCHANGED servers
  BY <1>3, SamePairs
<1>4. CASE Inserts(servers', r.new) /\ r.op = "import"
  <2>1. ApartFrom(servers, r.new)
    <3>1. PICK n \in Nat : r.file \in [1..n -> Row!Row] /\ r.new = Row!Kept(r.seen, r.file)
      BY <1>2, <1>4 DEF RequestChecked, ImportChecked
    <3> QED BY <3>1, KeptFacts DEF Undisturbed
  <2> QED BY <1>1, <1>2, <1>4, <2>1, InsertPairs DEF ApartFrom
<1>5. CASE Inserts(servers', r.new) /\ r.op = "create"
  <2>1. PICK x \in Row!Row : r.new = <<x>> /\ ~Row!HostTaken(servers, x.host, x.grp, 0)
    BY <1>2, <1>5 DEF RequestChecked, CreateChecked, Undisturbed
  <2>2. Len(r.new) = 1 /\ r.new[1] = x
    BY <2>1
  <2>3. /\ \A k \in 1..Len(r.new) : ~Row!HostTaken(servers, r.new[k].host, r.new[k].grp, 0)
        /\ \A k, l \in 1..Len(r.new) : k = l
    BY <2>1, <2>2
  <2> QED BY <1>1, <1>2, <1>5, <2>3, InsertPairs
<1> QED BY <1>1, <1>3, <1>4, <1>5

LEMMA UpdateApart ==
  ASSUME InventoryOK, NEW w \in Workers, Row!CommitUpdate(w), Undisturbed(w)
  PROVE  Row!SameAddress' \subseteq Row!SameAddress /\ Row!Namesakes' \subseteq Row!Namesakes
<1> DEFINE r == requests[w]
           i == r.id
<1>1. CASE UNCHANGED servers
  BY <1>1, SamePairs
<1>2. CASE \E new : Rewrites(i, new) /\ new.grp = servers[i].grp /\ new.host = r.host /\ new.ip = r.ip
  <2>1. PICK new : Rewrites(i, new) /\ new.grp = servers[i].grp /\ new.host = r.host /\ new.ip = r.ip
    BY <1>2
  <2>2. /\ DOMAIN servers' = DOMAIN servers /\ servers'[i] = new /\ i \in DOMAIN servers
        /\ \A j \in DOMAIN servers : j # i => servers'[j] = servers[j]
    BY <2>1, RewriteKeeps DEF InventoryOK, Rewrites
  <2>3. /\ new.host # servers[i].host => ~Row!HostTaken(servers, new.host, new.grp, i)
        /\ new.ip # servers[i].ip => ~Row!AddressTaken(servers, new.ip, i)
    BY <2>1, UpdateKeeps DEF InventoryOK, RequestChecked, UpdateChecked, Undisturbed
  <2>4. \A j \in DOMAIN servers : j # i /\ servers[j].ip = new.ip => servers[j].ip = servers[i].ip
    BY <2>3 DEF Row!AddressTaken
  <2>5. \A j \in DOMAIN servers : j # i /\ servers[j].host = new.host /\ servers[j].grp = new.grp
          => servers[j].host = servers[i].host /\ servers[j].grp = servers[i].grp
    BY <2>1, <2>3 DEF Row!HostTaken
  <2>6. \A j, k \in DOMAIN servers : j # k /\ ShareAddress(servers', j, k) => ShareAddress(servers, j, k)
    BY <2>2, <2>4 DEF ShareAddress
  <2>7. \A j, k \in DOMAIN servers : j # k /\ ShareName(servers', j, k) => ShareName(servers, j, k)
    BY <2>2, <2>5 DEF ShareName
  <2> QED BY <2>2, <2>6, <2>7, PairsOf
<1> QED BY <1>1, <1>2, UpdateKeeps DEF Undisturbed

LEMMA AssignApart ==
  ASSUME InventoryOK, NEW w \in Workers, Row!CommitAssign(w)
  PROVE  Row!SameAddress' \subseteq Row!SameAddress
<1> DEFINE i == requests[w].id
<1>1. CASE UNCHANGED servers
  BY <1>1, SamePairs
<1>2. CASE \E new : Rewrites(i, new) /\ new.ip = servers[i].ip
  <2>1. PICK new : Rewrites(i, new) /\ new.ip = servers[i].ip
    BY <1>2
  <2>2. /\ DOMAIN servers' = DOMAIN servers /\ servers'[i] = new
        /\ \A j \in DOMAIN servers : j # i => servers'[j] = servers[j]
    BY <2>1, RewriteKeeps DEF InventoryOK
  <2>3. \A j, k \in DOMAIN servers : j # k /\ ShareAddress(servers', j, k) => ShareAddress(servers, j, k)
    BY <2>1, <2>2 DEF ShareAddress
  <2> QED BY <2>2, <2>3, PairsOf
<1> QED BY <1>1, <1>2, AssignKeeps

LEMMA RemoveApart ==
  ASSUME InventoryOK, NEW w \in Workers, Row!CommitRemove(w)
  PROVE  Row!SameAddress' \subseteq Row!SameAddress /\ Row!Namesakes' \subseteq Row!Namesakes
  BY RemoveKeeps, PairsOf DEF ShareAddress, ShareName

\* After an import that wrote, every row of its file clashes with the table.
LEMMA InsertedAgain ==
  ASSUME InventoryOK, NEW w \in Workers, Row!CommitInsert(w), Undisturbed(w),
         requests[w].op = "import", servers' # servers
  PROVE  Row!Kept(servers', requests[w].file) = <<>>
<1> DEFINE r == requests[w]
           top == LastOf
<1>1. r.new \in Seq(Row!Row) /\ Inserts(servers', r.new) /\ IsTable(servers)
  BY InsertKeeps DEF InventoryOK
<1>2. PICK n \in Nat : r.file \in [1..n -> Row!Row] /\ r.new = Row!Kept(servers, r.file)
  BY DEF InventoryOK, RequestChecked, ImportChecked, Undisturbed
<1>3. /\ \A i \in DOMAIN servers : i \in DOMAIN servers' /\ servers'[i] = servers[i]
      /\ \A k \in 1..Len(r.new) : top + k \in DOMAIN servers' \ {0} /\ servers'[top + k] = r.new[k]
  BY <1>1, InsertedRows
<1>4. ASSUME NEW i \in 1..n PROVE Row!Clashes(servers', <<>>, r.file[i])
  <2> DEFINE x == r.file[i]
  <2>1. Row!Clashes(servers, r.new, x)
    BY <1>2, KeptFacts
  <2> HIDE DEF x, top
  <2>2. CASE Row!HostTaken(servers, x.host, x.grp, 0)
    BY <1>3, <2>2 DEF Row!HostTaken, Row!Clashes, x
  <2>3. CASE Row!AddressTaken(servers, x.ip, 0)
    BY <1>3, <2>3 DEF Row!AddressTaken, Row!Clashes, x
  <2>4. CASE \E k \in 1..Len(r.new) : r.new[k].ip = x.ip \/ (r.new[k].host = x.host /\ r.new[k].grp = x.grp)
    <3>1. PICK k \in 1..Len(r.new) : r.new[k].ip = x.ip \/ (r.new[k].host = x.host /\ r.new[k].grp = x.grp)
      BY <2>4
    <3>2. CASE r.new[k].ip = x.ip
      <4>1. Row!AddressTaken(servers', x.ip, 0)
        BY <1>3, <3>2 DEF Row!AddressTaken
      <4> QED BY <4>1 DEF Row!Clashes, x
    <3>3. CASE r.new[k].host = x.host /\ r.new[k].grp = x.grp
      <4>1. Row!HostTaken(servers', x.host, x.grp, 0)
        BY <1>3, <3>3 DEF Row!HostTaken
      <4> QED BY <4>1 DEF Row!Clashes, x
    <3> QED BY <3>1, <3>2, <3>3
  <2> QED BY <2>1, <2>2, <2>3, <2>4 DEF Row!Clashes
<1> QED BY <1>2, <1>4, NothingToKeep

-------------------------------------------------------------------------------
(* Servers: the theorems.                                                      *)

\* The request of w commits, and how.
LEMMA CommitsAsAsked ==
  ASSUME InventoryOK, Row!Next, NEW w \in Workers, NEW kinds, Row!Commits(w, kinds)
  PROVE  /\ Undisturbed(w) /\ requests[w].op \in kinds
         /\ \/ Row!CommitInsert(w) /\ requests[w].op \in {"create", "import"}
            \/ Row!CommitUpdate(w) /\ requests[w].op = "update"
            \/ Row!CommitAssign(w) /\ requests[w].op = "assign"
            \/ Row!CommitRemove(w) /\ requests[w].op = "remove"
<1>1. requests[w] # Row!Idle /\ requests'[w] = Row!Idle /\ requests[w].op \in kinds /\ Undisturbed(w)
  BY DEF Row!Commits, Undisturbed
<1>2. PICK v \in Workers : \/ Row!Begin(v) \/ Row!Commit(v)
                           \/ \E g \in GroupNames : Row!CreateGroup(v, g) \/ Row!DeleteGroup(v, g)
  BY DEF Row!Next
<1>3. ~Row!Begin(v)
  <2> SUFFICES ASSUME Row!Begin(v) PROVE FALSE
    OBVIOUS
  <2>1. requests[v] = Row!Idle /\ requests'[v].op # "idle"
    BY BeginKeeps DEF Row!Begin
  <2>2. \E r : requests' = [requests EXCEPT ![v] = r]
    BY DEF Row!Begin, Row!BeginCreate, Row!BeginImport, Row!BeginUpdate, Row!BeginAssign,
           Row!BeginRemove, Row!Accept
  <2>3. w # v => requests'[w] = requests[w]
    BY <2>2 DEF InventoryOK
  <2> QED BY <1>1, <2>1, <2>3
<1>4. ~\E g \in GroupNames : Row!CreateGroup(v, g) \/ Row!DeleteGroup(v, g)
  BY <1>1, GroupsKeep
<1>5. Row!Commit(v)
  BY <1>2, <1>3, <1>4
<1>6. v = w
  <2>1. Row!Done(v)
    BY <1>5 DEF Row!Commit, Row!CommitInsert, Row!CommitUpdate, Row!CommitAssign,
                Row!CommitRemove, Row!RollBack
  <2>2. v # w => requests'[w] = requests[w]
    BY <2>1 DEF InventoryOK, Row!Done
  <2> QED BY <1>1, <2>2
<1>7. /\ Row!CommitInsert(w) => requests[w].op \in {"create", "import"}
      /\ Row!CommitUpdate(w) => requests[w].op = "update"
      /\ Row!CommitAssign(w) => requests[w].op = "assign"
      /\ Row!CommitRemove(w) => requests[w].op = "remove"
  BY InsertKeeps, UpdateKeeps, AssignKeeps, RemoveKeeps
<1> QED BY <1>1, <1>5, <1>6, <1>7 DEF Row!Commit

\* What the three action properties say of one step.
AddressStep ==
  \A w \in Workers : Row!Commits(w, {"import", "update", "assign", "remove"}) =>
    Row!SameAddress' \subseteq Row!SameAddress
NamesakeStep ==
  \A w \in Workers : Row!Commits(w, {"create", "import", "update", "remove"}) =>
    Row!Namesakes' \subseteq Row!Namesakes
RerunStep ==
  \A w \in Workers : Row!Commits(w, {"import"}) /\ servers' # servers =>
    Row!Kept(servers', requests[w].file) = <<>>
InventoryProperties == AddressStep /\ NamesakeStep /\ RerunStep

LEMMA InventoryStep ==
  ASSUME InventoryOK, Row!Next
  PROVE  InventoryOK' /\ InventoryProperties
<1>1. InventoryOK'
  BY BeginKeeps, CommitKeeps, GroupsKeep DEF Row!Next
<1>2. AddressStep
  <2> SUFFICES ASSUME NEW w \in Workers, Row!Commits(w, {"import", "update", "assign", "remove"})
               PROVE  Row!SameAddress' \subseteq Row!SameAddress
    BY DEF AddressStep
  <2> QED BY CommitsAsAsked, InsertApart, UpdateApart, AssignApart, RemoveApart
<1>3. NamesakeStep
  <2> SUFFICES ASSUME NEW w \in Workers, Row!Commits(w, {"create", "import", "update", "remove"})
               PROVE  Row!Namesakes' \subseteq Row!Namesakes
    BY DEF NamesakeStep
  <2> QED BY CommitsAsAsked, InsertApart, UpdateApart, RemoveApart
<1>4. RerunStep
  <2> SUFFICES ASSUME NEW w \in Workers, Row!Commits(w, {"import"}), servers' # servers
               PROVE  Row!Kept(servers', requests[w].file) = <<>>
    BY DEF RerunStep
  <2> QED BY CommitsAsAsked, InsertedAgain
<1> QED BY <1>1, <1>2, <1>3, <1>4 DEF InventoryProperties

LEMMA HandlersInventory ==
  /\ HandlersInit => InventoryOK
  /\ InventoryOK /\ [HandlersNext]_handlersVars => InventoryOK' /\ [InventoryProperties]_(Row!vars)
<1>1. HandlersInit => InventoryOK
  BY InventoryInit DEF HandlersInit
<1>2. ASSUME InventoryOK, [HandlersNext]_handlersVars
      PROVE  InventoryOK' /\ [InventoryProperties]_(Row!vars)
  <2>1. Row!Next \/ UNCHANGED rowVars
    BY <1>2 DEF HandlersNext, handlersVars
  <2>2. CASE UNCHANGED rowVars
    <3>1. UNCHANGED <<servers, groups, requests>>
      BY <2>2 DEF rowVars
    <3>2. InventoryOK'
      BY <1>2, <3>1 DEF InventoryOK, IsTable, RequestChecked, CreateChecked,
                        ImportChecked, UpdateChecked, Row!HostTaken, Row!AddressTaken
    <3> QED BY <3>1, <3>2 DEF Row!vars
  <2> QED BY <1>2, <2>1, <2>2, InventoryStep
<1> QED BY <1>1, <1>2

\* No request but POST /servers, committed to the rows it checked, makes two servers
\* share an address.
THEOREM OnlyCreatesShareAddress == HandlersSpec => OnlyCreateSharesAddress
<1>1. [InventoryProperties]_(Row!vars) => [AddressStep]_(Row!vars)
  BY DEF InventoryProperties
<1>2. HandlersSpec => [][AddressStep]_(Row!vars)
  BY <1>1, HandlersInventory, PTL DEF HandlersSpec, handlersVars
<1> QED BY <1>2 DEF OnlyCreateSharesAddress, Row!OnlyCreateSharesAddress, AddressStep

\* No request but a move between groups, committed to the rows it checked, puts a second
\* server of a name in a group.
THEOREM OnlyRegroupingsMakeNamesakes == HandlersSpec => OnlyRegroupingMakesNamesakes
<1>1. [InventoryProperties]_(Row!vars) => [NamesakeStep]_(Row!vars)
  BY DEF InventoryProperties
<1>2. HandlersSpec => [][NamesakeStep]_(Row!vars)
  BY <1>1, HandlersInventory, PTL DEF HandlersSpec, handlersVars
<1> QED BY <1>2 DEF OnlyRegroupingMakesNamesakes, Row!OnlyRegroupingMakesNamesakes, NamesakeStep

\* Right after an import has written, the same file keeps no row.
THEOREM RerunsKeepNothing == HandlersSpec => RerunKeepsNothing
<1>1. [InventoryProperties]_(Row!vars) => [RerunStep]_(Row!vars)
  BY DEF InventoryProperties
<1>2. HandlersSpec => [][RerunStep]_(Row!vars)
  BY <1>1, HandlersInventory, PTL DEF HandlersSpec, handlersVars
<1> QED BY <1>2 DEF RerunKeepsNothing, Row!RerunKeepsNothing, RerunStep

-------------------------------------------------------------------------------
(* Tunnels: the composition moves them as DbTunnels says, or not at all. *)

LEMMA HandlersMoveTunnels == HandlersSpec => Spec
<1>1. HandlersInit => Init
  BY DEF HandlersInit
<1>2. [HandlersNext]_handlersVars => [Next]_vars
  BY DEF HandlersNext, handlersVars
<1> QED BY <1>1, <1>2, PTL DEF HandlersSpec, handlersVars, Spec

\* With servers and groups registered beside them, no forwarder is lost track of, edits
\* reach the cache, and a request dials the tunnel its row asks for.
THEOREM TunnelsAmongHandlers == HandlersSpec => []NoOrphans /\ []EditsTearDown /\ TargetIsRight
  BY HandlersMoveTunnels, NothingIsOrphaned, EditsReachTheCache, TargetsAreRight, PTL
===============================================================================
