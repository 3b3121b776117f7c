-------------------------- MODULE DbWorkspaceProofs ---------------------------
(***************************************************************************)
(* The gate of a production connection, and whose result a tab shows, for any    *)
(* connections, tabs and statements. Both come down to one fact: what was sent   *)
(* or is asked for in the name of a tab is of the connection the tab names,       *)
(* which changes at most once, from none (Agrees).                           *)
(***************************************************************************)
EXTENDS DbWorkspace, SequenceTheorems, TLAPS

Recs == [id : Nat, conn : Conns \cup {None}, prod : BOOLEAN, sql : Texts,
         result : [conn : Conns \cup {None}, sql : Texts], failed : BOOLEAN,
         running : BOOLEAN]

\* A tab's label is that of its connection, its result of that connection too.
Good(t) == /\ t.prod = (t.conn \in Prod)
           /\ t.result # NoResult => t.conn \in Conns /\ t.result.conn = t.conn

TabsInv == /\ tabs \in Seq(Recs) /\ tabSeq \in 0 .. MaxTabs
           /\ \A t \in Range(tabs) : Good(t) /\ t.id \in 1 .. tabSeq
           /\ \A s, t \in Range(tabs) : s.id = t.id => s.conn = t.conn

ActiveInv == activeId \in IF Ids = {} THEN {0} ELSE Ids

\* The tab with number i, if it is still there, is on connection c.
Agrees(i, c) == \A t \in Range(tabs) : t.id = i => t.conn = c

GateInv == /\ gate \in [tab : 0 .. tabSeq, sql : Texts, conn : Conns \cup {None}]
           /\ gate # NoGate => gate.conn \in Conns /\ Agrees(gate.tab, gate.conn)

QueryInv == \A q \in flying :
              /\ q.tab \in 1 .. tabSeq /\ q.conn \in Conns /\ q.sql \in Texts
              /\ Agrees(q.tab, q.conn)

RestInv == /\ {known, deepLinked, typed, redis} \subseteq BOOLEAN
           /\ sent \in 0 .. MaxQueries
           /\ generating \subseteq 1 .. tabSeq

PageInv == /\ TabsInv /\ ActiveInv /\ GateInv /\ QueryInv /\ RestInv
           /\ TypedForWhatRuns

-----------------------------------------------------------------------------
(* Sequences of tabs.                                                        *)

\* Appending adds one element.
LEMMA AppendRange ==
  ASSUME NEW S, NEW s \in Seq(S), NEW e \in S
  PROVE  Append(s, e) \in Seq(S) /\ Range(Append(s, e)) = Range(s) \cup {e}
<1>1. /\ Append(s, e) \in Seq(S) /\ Len(Append(s, e)) = Len(s) + 1 /\ Len(s) \in Nat
      /\ \A i \in 1 .. Len(s) : Append(s, e)[i] = s[i]
      /\ Append(s, e)[Len(s) + 1] = e
  BY AppendProperties
<1>2. DOMAIN s = 1 .. Len(s) /\ DOMAIN Append(s, e) = 1 .. Len(s) + 1
  BY <1>1
<1>3. 1 .. Len(s) + 1 = (1 .. Len(s)) \cup {Len(s) + 1}
  BY <1>1
<1> QED
  BY <1>1, <1>2, <1>3 DEF Range

\* A part of a sequence has the elements of that part.
LEMMA SubSeqRange ==
  ASSUME NEW S, NEW s \in Seq(S), NEW m \in 1 .. Len(s) + 1, NEW n \in 0 .. Len(s)
  PROVE  /\ SubSeq(s, m, n) \in Seq(S) /\ Range(SubSeq(s, m, n)) \subseteq Range(s)
         /\ \A i \in m .. n : s[i] \in Range(SubSeq(s, m, n))
<1> DEFINE p == SubSeq(s, m, n)
<1>1. Len(s) \in Nat /\ DOMAIN s = 1 .. Len(s) /\ \A i \in 1 .. Len(s) : s[i] \in S
  OBVIOUS
<1>2. m \in Int /\ n \in Int /\ \A i \in m .. n : i \in 1 .. Len(s)
  BY <1>1
<1>3. /\ p \in Seq(S) /\ Len(p) = IF m <= n THEN n - m + 1 ELSE 0
      /\ \A i \in 1 .. n - m + 1 : p[i] = s[m + i - 1]
  BY <1>1, <1>2, SubSeqProperties
<1>4. DOMAIN p = 1 .. Len(p)
  BY <1>3
<1> HIDE DEF p
<1>5. \A i \in DOMAIN p : p[i] = s[m + i - 1] /\ m + i - 1 \in 1 .. Len(s)
  BY <1>1, <1>2, <1>3, <1>4
<1>6. \A i \in m .. n : i - m + 1 \in DOMAIN p /\ p[i - m + 1] = s[i]
  BY <1>2, <1>3, <1>4
<1>7. Range(p) \subseteq Range(s)
  BY <1>1, <1>5 DEF Range
<1>8. \A i \in m .. n : s[i] \in Range(p)
  BY <1>6 DEF Range
<1> QED
  BY <1>3, <1>7, <1>8 DEF p

\* Removing leaves the others.
LEMMA RemoveAtRange ==
  ASSUME NEW S, NEW s \in Seq(S), NEW k \in 1 .. Len(s)
  PROVE  /\ RemoveAt(s, k) \in Seq(S) /\ Len(RemoveAt(s, k)) = Len(s) - 1
         /\ Range(RemoveAt(s, k)) \subseteq Range(s)
         /\ \A i \in 1 .. Len(s) : i # k => s[i] \in Range(RemoveAt(s, k))
<1> DEFINE a == SubSeq(s, 1, k - 1)
           b == SubSeq(s, k + 1, Len(s))
<1>1. Len(s) \in Nat /\ k \in Nat /\ k <= Len(s) /\ k >= 1
  OBVIOUS
<1>2. /\ a \in Seq(S) /\ Range(a) \subseteq Range(s)
      /\ \A i \in 1 .. k - 1 : s[i] \in Range(a)
  BY <1>1, SubSeqRange
<1>3. /\ b \in Seq(S) /\ Range(b) \subseteq Range(s)
      /\ \A i \in k + 1 .. Len(s) : s[i] \in Range(b)
  BY <1>1, SubSeqRange
<1>4. Len(a) = k - 1 /\ Len(b) = Len(s) - k
  <2>1. \A i \in 1 .. Len(s) : s[i] \in S
    OBVIOUS
  <2> QED
    BY <1>1, <2>1, SubSeqProperties
<1>5. RemoveAt(s, k) = a \o b
  BY DEF RemoveAt
<1> HIDE DEF a, b
<1>6. /\ a \o b \in Seq(S) /\ Len(a \o b) = Len(a) + Len(b)
      /\ \A i \in 1 .. Len(a) + Len(b) :
           (a \o b)[i] = IF i <= Len(a) THEN a[i] ELSE b[i - Len(a)]
  BY <1>2, <1>3, ConcatProperties
<1>7. /\ DOMAIN a = 1 .. Len(a) /\ DOMAIN b = 1 .. Len(b)
      /\ DOMAIN (a \o b) = 1 .. Len(a) + Len(b) /\ Len(a) \in Nat /\ Len(b) \in Nat
  BY <1>2, <1>3, <1>6
<1>8. Range(a \o b) = Range(a) \cup Range(b)
  <2>1. Range(a \o b) \subseteq Range(a) \cup Range(b)
    BY <1>6, <1>7 DEF Range
  <2>2. \A i \in 1 .. Len(a) : i \in DOMAIN (a \o b) /\ (a \o b)[i] = a[i]
    BY <1>6, <1>7
  <2>3. \A i \in 1 .. Len(b) : Len(a) + i \in DOMAIN (a \o b) /\ (a \o b)[Len(a) + i] = b[i]
    BY <1>6, <1>7
  <2>4. Range(a) \subseteq Range(a \o b)
    BY <1>7, <2>2 DEF Range
  <2>5. Range(b) \subseteq Range(a \o b)
    BY <1>7, <2>3 DEF Range
  <2> QED
    BY <2>1, <2>4, <2>5
<1>9. \A i \in 1 .. Len(s) : i # k => i \in 1 .. k - 1 \/ i \in k + 1 .. Len(s)
  BY <1>1
<1> QED
  BY <1>1, <1>2, <1>3, <1>4, <1>5, <1>6, <1>8, <1>9

-----------------------------------------------------------------------------
(* What a step may do to the tabs.                                           *)

\* What was sent or asked for in the name of a tab still agrees with the tab.
StillAgrees == \A i \in 0 .. tabSeq, c \in Conns : Agrees(i, c) => Agrees(i, c)'

\* A tab is new, or it was there, on the same connection or on none.
LEMMA TabsKeep ==
  ASSUME WorkspaceAssumption, TabsInv,
         tabs' \in Seq(Recs), tabSeq' \in 0 .. MaxTabs, tabSeq <= tabSeq',
         \A t \in Range(tabs') :
           /\ Good(t) /\ t.id \in 1 .. tabSeq'
           /\ \/ t.id = tabSeq + 1
              \/ \E s \in Range(tabs) : s.id = t.id /\ s.conn \in {t.conn, None},
         \A s, t \in Range(tabs') : s.id = t.id => s.conn = t.conn
  PROVE  TabsInv' /\ StillAgrees
<1>1. TabsInv'
  BY DEF TabsInv, Good
<1>2. ASSUME NEW i \in 0 .. tabSeq, NEW c \in Conns, Agrees(i, c),
             NEW t \in Range(tabs'), t.id = i
      PROVE  t.conn = c
  <2>1. t.id # tabSeq + 1
    BY <1>2 DEF TabsInv
  <2>2. PICK s \in Range(tabs) : s.id = t.id /\ s.conn \in {t.conn, None}
    BY <2>1
  <2>3. s.conn = c /\ c # None
    BY <1>2, <2>2 DEF Agrees, WorkspaceAssumption
  <2> QED
    BY <2>2, <2>3
<1>3. StillAgrees
  BY <1>2 DEF StillAgrees, Agrees
<1> QED
  BY <1>1, <1>3

\* patchTab with a function: new[k] is what the k-th tab becomes.
LEMMA Patching ==
  ASSUME WorkspaceAssumption, TabsInv, tabSeq' = tabSeq,
         NEW i, NEW new,
         tabs' = [k \in DOMAIN tabs |-> IF tabs[k].id = i THEN new[k] ELSE tabs[k]],
         \A k \in DOMAIN tabs : tabs[k].id = i =>
           /\ new[k] \in Recs /\ Good(new[k]) /\ new[k].id = i
           /\ tabs[k].conn \in {new[k].conn, None},
         \A j, k \in DOMAIN tabs :
           tabs[j].id = i /\ tabs[k].id = i => new[j].conn = new[k].conn
  PROVE  TabsInv' /\ StillAgrees /\ Ids' = Ids
<1>1. /\ Len(tabs) \in Nat /\ DOMAIN tabs = 1 .. Len(tabs)
      /\ \A k \in DOMAIN tabs : tabs[k] \in Recs /\ tabs[k] \in Range(tabs)
  BY DEF TabsInv, Range
<1>2. DOMAIN tabs' = DOMAIN tabs
  OBVIOUS
<1>3. \A k \in DOMAIN tabs : /\ tabs'[k] = IF tabs[k].id = i THEN new[k] ELSE tabs[k]
                             /\ tabs'[k] \in Recs /\ tabs'[k].id = tabs[k].id
                             /\ tabs[k].conn \in {tabs'[k].conn, None}
                             /\ Good(tabs'[k])
  BY <1>1 DEF TabsInv
<1>4. tabs' \in Seq(Recs)
  BY <1>1, <1>2, <1>3
<1>5. Range(tabs') = {tabs'[k] : k \in DOMAIN tabs} /\ Range(tabs) = {tabs[k] : k \in DOMAIN tabs}
  BY <1>2 DEF Range
<1>6. Ids' = Ids
  <2>1. ASSUME NEW n \in Ids PROVE n \in Ids'
    <3>1. PICK k \in DOMAIN tabs : n = tabs[k].id
      BY <1>5, <2>1 DEF Ids
    <3> QED
      BY <1>3, <1>5, <3>1 DEF Ids
  <2>2. ASSUME NEW n \in Ids' PROVE n \in Ids
    <3>1. PICK k \in DOMAIN tabs : n = tabs'[k].id
      BY <1>5, <2>2 DEF Ids
    <3> QED
      BY <1>3, <1>5, <3>1 DEF Ids
  <2> QED
    BY <2>1, <2>2
<1>7. \A k \in DOMAIN tabs : tabs[k].id \in 1 .. tabSeq
  BY <1>1 DEF TabsInv
<1>8. \A t \in Range(tabs') :
        /\ Good(t) /\ t.id \in 1 .. tabSeq'
        /\ \E s \in Range(tabs) : s.id = t.id /\ s.conn \in {t.conn, None}
  BY <1>1, <1>3, <1>5, <1>7
<1>9. ASSUME NEW j \in DOMAIN tabs, NEW k \in DOMAIN tabs, tabs'[j].id = tabs'[k].id
      PROVE  tabs'[j].conn = tabs'[k].conn
  <2>1. tabs[j].id = tabs[k].id
    BY <1>3, <1>9
  <2>2. tabs[j].conn = tabs[k].conn
    BY <1>1, <2>1 DEF TabsInv
  <2> QED
    BY <1>3, <2>1, <2>2
<1>10. \A s, t \in Range(tabs') : s.id = t.id => s.conn = t.conn
  BY <1>5, <1>9
<1>11. tabSeq' \in 0 .. MaxTabs /\ tabSeq <= tabSeq'
  BY DEF TabsInv, WorkspaceAssumption
<1> QED
  BY <1>4, <1>6, <1>8, <1>10, <1>11, TabsKeep

\* One more tab, with the next number.
LEMMA Opening ==
  ASSUME WorkspaceAssumption, TabsInv, tabSeq < MaxTabs, tabSeq' = tabSeq + 1,
         NEW t \in Recs, Good(t), t.id = tabSeq + 1, tabs' = Append(tabs, t)
  PROVE  TabsInv' /\ StillAgrees /\ t \in Range(tabs') /\ tabs' # << >>
<1>1. tabs' \in Seq(Recs) /\ Range(tabs') = Range(tabs) \cup {t}
  BY AppendRange DEF TabsInv
<1>2. tabSeq \in Nat /\ tabSeq' \in 0 .. MaxTabs /\ tabSeq <= tabSeq'
  BY DEF TabsInv, WorkspaceAssumption
<1>3. \A u \in Range(tabs') :
        /\ Good(u) /\ u.id \in 1 .. tabSeq'
        /\ \/ u.id = tabSeq + 1
           \/ \E s \in Range(tabs) : s.id = u.id /\ s.conn \in {u.conn, None}
  BY <1>1, <1>2 DEF TabsInv
<1>4. \A u \in Range(tabs) : u.id # t.id
  BY <1>2 DEF TabsInv
<1>5. \A r, u \in Range(tabs') : r.id = u.id => r.conn = u.conn
  BY <1>1, <1>4 DEF TabsInv
<1>6. tabs' # << >>
  BY AppendProperties DEF TabsInv
<1> QED
  BY <1>1, <1>2, <1>3, <1>5, <1>6, TabsKeep

\* Tabs are only closed.
LEMMA Closing ==
  ASSUME WorkspaceAssumption, TabsInv, tabSeq' = tabSeq,
         tabs' \in Seq(Recs), Range(tabs') \subseteq Range(tabs)
  PROVE  TabsInv' /\ StillAgrees
<1>1. tabSeq' \in 0 .. MaxTabs /\ tabSeq <= tabSeq'
  BY DEF TabsInv, WorkspaceAssumption
<1>2. \A t \in Range(tabs') :
        /\ Good(t) /\ t.id \in 1 .. tabSeq'
        /\ \E s \in Range(tabs) : s.id = t.id /\ s.conn \in {t.conn, None}
  BY DEF TabsInv
<1>3. \A s, t \in Range(tabs') : s.id = t.id => s.conn = t.conn
  BY DEF TabsInv
<1> QED
  BY <1>1, <1>2, <1>3, TabsKeep

\* No tab is touched.
LEMMA TabsStay ==
  ASSUME TabsInv, tabs' = tabs, tabSeq' = tabSeq
  PROVE  TabsInv' /\ StillAgrees
BY DEF TabsInv, StillAgrees, Agrees

\* The tab of an open number.
LEMMA TabOfIs ==
  ASSUME NEW i \in Ids
  PROVE  TabOf(i) \in Range(tabs) /\ TabOf(i).id = i
<1>1. \E t \in Range(tabs) : t.id = i
  BY DEF Ids
<1> QED
  BY <1>1 DEF TabOf

-----------------------------------------------------------------------------
(* What a step may do to the gate and to the statements under way.           *)

\* What a statement under way must satisfy.
Sound(q) == /\ q.tab \in 1 .. tabSeq /\ q.conn \in Conns /\ q.sql \in Texts
            /\ Agrees(q.tab, q.conn)
            /\ q.how # "fetch all" /\ q.conn \in Prod /\ dangerous(q.sql)
                 => q.typedFor = q.conn

\* What the gate must satisfy while it is open.
Pointed == /\ gate \in [tab : 0 .. tabSeq, sql : Texts, conn : Conns]
           /\ Agrees(gate.tab, gate.conn)

\* Given what became of the tabs, the gate and the statements may only be
\* left alone, closed or answered, or be sound as they are made.
LEMMA PageKeeps ==
  ASSUME WorkspaceAssumption, PageInv, TabsInv', StillAgrees, ActiveInv', RestInv',
         tabSeq \in Nat, tabSeq' \in Nat, tabSeq <= tabSeq',
         gate' = gate \/ gate' = NoGate \/ Pointed',
         \A q \in flying' : q \in flying \/ Sound(q)'
  PROVE  PageInv'
<1>0. /\ 0 .. tabSeq \subseteq 0 .. tabSeq' /\ 1 .. tabSeq \subseteq 1 .. tabSeq'
      /\ 1 .. tabSeq \subseteq 0 .. tabSeq
  OBVIOUS
<1>1. GateInv'
  <2>1. CASE gate' = gate
    <3>1. gate \in [tab : 0 .. tabSeq, sql : Texts, conn : Conns \cup {None}]
      BY DEF PageInv, GateInv
    <3>2. gate' \in [tab : 0 .. tabSeq', sql : Texts, conn : Conns \cup {None}]
      BY <1>0, <2>1, <3>1
    <3>3. gate # NoGate => gate.conn \in Conns /\ Agrees(gate.tab, gate.conn)
      BY DEF PageInv, GateInv
    <3>4. ASSUME gate # NoGate PROVE Agrees(gate.tab, gate.conn)'
      BY <2>1, <3>1, <3>3, <3>4 DEF StillAgrees, Agrees
    <3> QED
      BY <2>1, <3>2, <3>3, <3>4 DEF GateInv
  <2>2. CASE gate' = NoGate
    <3>1. NoGate \in [tab : 0 .. tabSeq', sql : Texts, conn : Conns \cup {None}]
      <4>1. 0 \in 0 .. tabSeq' /\ "" \in Texts /\ None \in Conns \cup {None}
        BY DEF Texts
      <4> QED
        BY <4>1 DEF NoGate
    <3> QED
      BY <2>2, <3>1 DEF GateInv
  <2>3. CASE Pointed'
    BY <2>3 DEF GateInv, Pointed
  <2> QED
    BY <2>1, <2>2, <2>3
<1>2. \A q \in flying : Sound(q)
  BY DEF PageInv, QueryInv, TypedForWhatRuns, Sound
<1>3. ASSUME NEW q \in flying' PROVE Sound(q)'
  <2>1. CASE Sound(q)'
    BY <2>1
  <2>2. CASE q \in flying
    <3>1. Sound(q)
      BY <1>2, <2>2
    <3>2. q.tab \in 1 .. tabSeq'
      BY <1>0, <3>1 DEF Sound
    <3>3. q.tab \in 0 .. tabSeq /\ q.conn \in Conns /\ Agrees(q.tab, q.conn)
      BY <1>0, <3>1 DEF Sound
    <3>4. Agrees(q.tab, q.conn)'
      BY <3>3 DEF StillAgrees, Agrees
    <3> QED
      BY <3>1, <3>2, <3>4 DEF Sound
  <2> QED
    BY <1>3, <2>1, <2>2
<1>4. QueryInv' /\ TypedForWhatRuns'
  BY <1>3 DEF QueryInv, TypedForWhatRuns, Sound
<1> QED
  BY <1>1, <1>4 DEF PageInv

\* The gate and the statements are left alone.
LEMMA OnlyTabs ==
  ASSUME WorkspaceAssumption, PageInv, TabsInv', StillAgrees, ActiveInv', RestInv',
         tabSeq <= tabSeq', gate' = gate, flying' = flying
  PROVE  PageInv'
<1>1. tabSeq \in Nat /\ tabSeq' \in Nat
  BY DEF PageInv, TabsInv
<1> QED
  BY <1>1, PageKeeps

-----------------------------------------------------------------------------
(* The actions, one lemma for each.                                          *)

\* The tab in front is an open one.
LEMMA FrontTab ==
  ASSUME WorkspaceAssumption, PageInv, activeId # 0
  PROVE  /\ activeId \in Ids /\ TabOf(activeId) \in Range(tabs)
         /\ TabOf(activeId).id = activeId /\ TabOf(activeId) \in Recs
         /\ Good(TabOf(activeId))
<1>1. activeId \in Ids
  BY DEF PageInv, ActiveInv
<1> DEFINE t == TabOf(activeId)
<1>2. t \in Range(tabs) /\ t.id = activeId
  BY <1>1, TabOfIs
<1> HIDE DEF t
<1>3. t \in Recs /\ Good(t)
  BY <1>2 DEF PageInv, TabsInv, Range
<1> QED
  BY <1>1, <1>2, <1>3 DEF t

\* A statement may be sent for a tab: it was typed for, if it had to be.
Cleared(q) ==
  q.how # "fetch all" /\ q.conn \in Prod /\ dangerous(q.sql) => q.typedFor = q.conn

\* A statement is sent for the tab t.
LEMMA Sending ==
  ASSUME WorkspaceAssumption, PageInv, NEW t \in Range(tabs), NEW q,
         q.tab = t.id, q.conn = t.conn, q.conn \in Conns, q.sql \in Texts, Cleared(q),
         flying' = flying \cup {q}, sent < MaxQueries, sent' = sent + 1,
         TabsInv', StillAgrees, Ids' = Ids,
         tabSeq' = tabSeq, activeId' = activeId, known' = known,
         deepLinked' = deepLinked, typed' = typed, redis' = redis,
         generating' = generating,
         gate' = gate \/ gate' = NoGate
  PROVE  PageInv'
<1>1. tabSeq \in Nat /\ tabSeq' \in Nat /\ tabSeq <= tabSeq'
  BY DEF PageInv, TabsInv
<1>2. ActiveInv'
  BY DEF PageInv, ActiveInv
<1>3. RestInv'
  <2>1. sent \in 0 .. MaxQueries /\ sent' \in 0 .. MaxQueries
    BY DEF PageInv, RestInv, WorkspaceAssumption
  <2> QED
    BY <2>1 DEF PageInv, RestInv
<1>4. t.id \in 1 .. tabSeq /\ Agrees(t.id, t.conn)
  BY DEF PageInv, TabsInv, Agrees
<1>5. t.id \in 0 .. tabSeq
  BY <1>1, <1>4
<1>6. Agrees(t.id, t.conn)'
  BY <1>4, <1>5 DEF StillAgrees, Agrees
<1>7. Sound(q)'
  BY <1>4, <1>6 DEF Sound, Agrees, Cleared
<1>8. \A r \in flying' : r \in flying \/ Sound(r)'
  BY <1>7
<1> QED
  BY <1>1, <1>2, <1>3, <1>8, PageKeeps

\* What is written into tabs leaves their connections alone.
LEMMA Rewriting ==
  ASSUME WorkspaceAssumption, TabsInv, tabSeq' = tabSeq, NEW i, NEW new,
         tabs' = [k \in DOMAIN tabs |-> IF tabs[k].id = i THEN new[k] ELSE tabs[k]],
         \A k \in DOMAIN tabs : tabs[k] \in Recs /\ Good(tabs[k]) /\ tabs[k].id = i =>
           /\ new[k] \in Recs /\ Good(new[k]) /\ new[k].id = i
           /\ new[k].conn = tabs[k].conn
  PROVE  TabsInv' /\ StillAgrees /\ Ids' = Ids
<1>1. \A k \in DOMAIN tabs : tabs[k] \in Range(tabs)
  BY DEF Range
<1>2. \A k \in DOMAIN tabs : tabs[k] \in Recs /\ Good(tabs[k])
  BY <1>1 DEF TabsInv
<1>3. \A k \in DOMAIN tabs : tabs[k].id = i =>
        /\ new[k] \in Recs /\ Good(new[k]) /\ new[k].id = i
        /\ new[k].conn = tabs[k].conn
  BY <1>2
<1>4. \A j, k \in DOMAIN tabs :
        tabs[j].id = i /\ tabs[k].id = i => new[j].conn = new[k].conn
  BY <1>1, <1>3 DEF TabsInv
<1> QED
  BY <1>3, <1>4, Patching

\* No result is an empty one.
LEMMA EmptyIsAResult == NoResult \in [conn : Conns \cup {None}, sql : Texts]
BY DEF NoResult, Texts

\* execute: the tab of a statement that is sent starts running.
LEMMA Starting ==
  ASSUME WorkspaceAssumption, TabsInv, tabSeq' = tabSeq, NEW i,
         PatchTab(i, Started)
  PROVE  TabsInv' /\ StillAgrees /\ Ids' = Ids
<1> DEFINE new == [k \in DOMAIN tabs |-> Started(tabs[k])]
<1>1. tabs' = [k \in DOMAIN tabs |-> IF tabs[k].id = i THEN new[k] ELSE tabs[k]]
  BY DEF PatchTab, Patched, Started
<1>2. ASSUME NEW t \in Recs, Good(t)
      PROVE  /\ Started(t) \in Recs /\ Good(Started(t)) /\ Started(t).id = t.id
             /\ Started(t).conn = t.conn
  BY <1>2, EmptyIsAResult DEF Recs, Good, Started
<1>3. \A k \in DOMAIN tabs : new[k] = Started(tabs[k])
  OBVIOUS
<1> HIDE DEF new
<1> QED
  BY <1>1, <1>2, <1>3, Rewriting

\* Only the tabs' contents change, and perhaps which texts are awaited.
LEMMA OnlyContents ==
  ASSUME WorkspaceAssumption, PageInv, TabsInv', StillAgrees, Ids' = Ids,
         tabSeq' = tabSeq, activeId' = activeId, known' = known,
         deepLinked' = deepLinked, typed' = typed, redis' = redis, sent' = sent,
         gate' = gate, flying' \subseteq flying, generating' \subseteq generating
  PROVE  PageInv'
<1>1. tabSeq \in Nat /\ tabSeq' \in Nat /\ tabSeq <= tabSeq'
  BY DEF PageInv, TabsInv
<1>2. ActiveInv' /\ RestInv'
  BY DEF PageInv, ActiveInv, RestInv
<1>3. \A r \in flying' : r \in flying \/ Sound(r)'
  OBVIOUS
<1> QED
  BY <1>1, <1>2, <1>3, PageKeeps

\* runTab on one of the open tabs.
LEMMA RunTabKeeps ==
  ASSUME WorkspaceAssumption, PageInv, NEW t \in Range(tabs), NEW sql \in Texts,
         RunTab(t, sql)
  PROVE  PageInv'
<1>1. t \in Recs /\ Good(t) /\ t.conn \in Conns
  <2>1. t \in Recs /\ Good(t)
    BY DEF PageInv, TabsInv, Range
  <2> QED
    BY <2>1 DEF RunTab, Recs
<1>2. /\ known' = known /\ tabSeq' = tabSeq /\ activeId' = activeId
      /\ deepLinked' = deepLinked /\ generating' = generating /\ redis' = redis
  BY DEF RunTab
<1>3. CASE OpenGate(t, sql) /\ tabs' = tabs
  <2>1. TabsInv' /\ StillAgrees /\ Ids' = Ids
    BY <1>2, <1>3, TabsStay DEF PageInv, Ids
  <2>2. /\ gate' = [tab |-> t.id, sql |-> sql, conn |-> t.conn] /\ typed' = FALSE
        /\ flying' = flying /\ sent' = sent
    BY <1>3 DEF OpenGate
  <2>3. /\ t.id \in 1 .. tabSeq /\ Agrees(t.id, t.conn) /\ tabSeq \in Nat
        /\ t.id \in 0 .. tabSeq
    BY DEF PageInv, TabsInv, Agrees
  <2>4. Agrees(t.id, t.conn)'
    BY <1>1, <2>1, <2>3 DEF StillAgrees, Agrees
  <2>5. Pointed'
    <3>1. gate'.tab = t.id /\ gate'.conn = t.conn
      BY <2>2
    <3>2. gate' \in [tab : 0 .. tabSeq', sql : Texts, conn : Conns]
      BY <1>1, <1>2, <2>2, <2>3
    <3>3. Agrees(gate.tab, gate.conn)'
      BY <2>4, <3>1 DEF Agrees
    <3> QED
      BY <3>2, <3>3 DEF Pointed
  <2>6. ActiveInv' /\ RestInv' /\ tabSeq' \in Nat /\ tabSeq <= tabSeq'
    <3>1. ActiveInv'
      BY <1>2, <2>1 DEF PageInv, ActiveInv
    <3>2. RestInv'
      BY <1>2, <2>2 DEF PageInv, RestInv
    <3> QED
      BY <1>2, <2>3, <3>1, <3>2
  <2>7. \A r \in flying' : r \in flying \/ Sound(r)'
    BY <2>2
  <2> QED
    BY <2>1, <2>3, <2>5, <2>6, <2>7, PageKeeps
<1>4. CASE Refuse(t, sql) /\ tabs' = tabs
  <2>1. TabsInv' /\ StillAgrees /\ Ids' = Ids
    BY <1>2, <1>4, TabsStay DEF PageInv, Ids
  <2>2. gate' = gate /\ typed' = typed /\ flying' = flying /\ sent' = sent
    BY <1>4 DEF Refuse
  <2> QED
    BY <1>2, <2>1, <2>2, OnlyContents
<1>5. CASE Pass(t, sql) /\ PatchTab(t.id, Started)
  <2>1. TabsInv' /\ StillAgrees /\ Ids' = Ids
    BY <1>2, <1>5, Starting DEF PageInv
  <2> DEFINE q == Query(t, sql, IF Asked(t, sql) THEN "agreed" ELSE "unasked")
  <2>2. /\ flying' = flying \cup {q} /\ sent < MaxQueries /\ sent' = sent + 1
        /\ gate' = gate /\ typed' = typed
    BY <1>5 DEF Pass, Send
  <2>3. q.tab = t.id /\ q.conn = t.conn /\ q.sql = sql
    BY DEF Query
  <2> HIDE DEF q
  <2>4. ~(t.conn \in Prod /\ dangerous(sql))
    BY <1>1, <1>5 DEF Pass, Gated, Good
  <2>5. Cleared(q)
    BY <2>3, <2>4 DEF Cleared, dangerous
  <2> QED
    BY <1>1, <1>2, <2>1, <2>2, <2>3, <2>5, Sending
<1> QED
  BY <1>3, <1>4, <1>5 DEF RunTab

\* The Run button and Ctrl+Enter.
LEMMA RunKeeps ==
  ASSUME WorkspaceAssumption, PageInv, NEW sql, Run(sql)
  PROVE  PageInv'
<1>1. activeId # 0 /\ sql \in Texts /\ RunTab(TabOf(activeId), sql)
  BY DEF Run
<1> DEFINE t == TabOf(activeId)
<1>2. t \in Range(tabs)
  BY <1>1, FrontTab
<1> HIDE DEF t
<1> QED
  BY <1>1, <1>2, RunTabKeeps DEF t

\* The gate's Execute: its tab is still on the connection typed for.
LEMMA ExecuteKeeps ==
  ASSUME WorkspaceAssumption, PageInv, Execute
  PROVE  PageInv'
<1>1. /\ known' = known /\ tabSeq' = tabSeq /\ activeId' = activeId
      /\ deepLinked' = deepLinked /\ generating' = generating /\ redis' = redis
      /\ typed' = typed /\ gate # NoGate /\ gate' = NoGate
  BY DEF Execute
<1>2. gate.sql \in Texts /\ gate.conn \in Conns /\ Agrees(gate.tab, gate.conn)
  BY <1>1 DEF PageInv, GateInv
<1>3. CASE gate.tab \in Ids
  <2> DEFINE t == TabOf(gate.tab)
             q == Query(t, gate.sql, "typed")
  <2>1. t \in Range(tabs) /\ t.id = gate.tab
    BY <1>3, TabOfIs
  <2>2. Send(t, gate.sql, "typed") /\ PatchTab(gate.tab, Started)
    BY <1>3 DEF Execute
  <2>3. TabsInv' /\ StillAgrees /\ Ids' = Ids
    BY <1>1, <2>2, Starting DEF PageInv
  <2>4. flying' = flying \cup {q} /\ sent < MaxQueries /\ sent' = sent + 1
    BY <2>2 DEF Send
  <2>5. /\ q.tab = t.id /\ q.conn = t.conn /\ q.sql = gate.sql
        /\ q.typedFor = gate.conn
    BY DEF Query
  <2> HIDE DEF t, q
  <2>6. t.conn = gate.conn
    BY <1>2, <2>1 DEF Agrees
  <2>7. Cleared(q)
    BY <2>5, <2>6 DEF Cleared
  <2> QED
    BY <1>1, <1>2, <2>1, <2>3, <2>4, <2>5, <2>6, <2>7, Sending
<1>4. CASE gate.tab \notin Ids
  <2>1. tabs' = tabs /\ flying' = flying /\ sent' = sent
    BY <1>4 DEF Execute
  <2>2. TabsInv' /\ StillAgrees /\ Ids' = Ids
    BY <1>1, <2>1, TabsStay DEF PageInv, Ids
  <2>3. tabSeq \in Nat /\ tabSeq' \in Nat /\ tabSeq <= tabSeq'
    BY <1>1 DEF PageInv, TabsInv
  <2>4. ActiveInv' /\ RestInv'
    BY <1>1, <2>1, <2>2 DEF PageInv, ActiveInv, RestInv
  <2>5. \A r \in flying' : r \in flying \/ Sound(r)'
    BY <2>1
  <2> QED
    BY <1>1, <2>2, <2>3, <2>4, <2>5, PageKeeps
<1> QED
  BY <1>3, <1>4

\* The gate is typed into or closed, the list comes, the Redis view opens.
LEMMA TabsAsideKeeps ==
  ASSUME WorkspaceAssumption, PageInv,
         TypeName \/ CancelGate \/ ConnectionsLoaded \/ Redis
  PROVE  PageInv'
<1>1. /\ tabs' = tabs /\ tabSeq' = tabSeq /\ activeId' = activeId
      /\ deepLinked' = deepLinked /\ flying' = flying /\ sent' = sent
      /\ generating' = generating /\ (gate' = gate \/ gate' = NoGate)
      /\ {known', typed', redis'} \subseteq BOOLEAN
  BY DEF TypeName, CancelGate, ConnectionsLoaded, Redis, PageInv, RestInv
<1>2. TabsInv' /\ StillAgrees /\ Ids' = Ids
  BY <1>1, TabsStay DEF PageInv, Ids
<1>3. tabSeq \in Nat /\ tabSeq' \in Nat /\ tabSeq <= tabSeq'
  BY <1>1 DEF PageInv, TabsInv
<1>4. ActiveInv' /\ RestInv'
  BY <1>1, <1>2 DEF PageInv, ActiveInv, RestInv
<1>5. \A r \in flying' : r \in flying \/ Sound(r)'
  BY <1>1
<1> QED
  BY <1>1, <1>2, <1>3, <1>4, <1>5, PageKeeps

\* "Fetch all" sends what the tab holds for the connection it names.
LEMMA FetchAllKeeps ==
  ASSUME WorkspaceAssumption, PageInv, FetchAll
  PROVE  PageInv'
<1> DEFINE t == TabOf(activeId)
           New(u) == [u EXCEPT !.running = TRUE]
           new == [k \in DOMAIN tabs |-> New(tabs[k])]
           q == Query(t, t.sql, "fetch all")
<1>0. activeId # 0 /\ t.result.sql = "read"
  BY DEF FetchAll
<1>1. /\ flying' = flying \cup {q} /\ sent < MaxQueries /\ sent' = sent + 1
      /\ tabs' = [k \in DOMAIN tabs |-> IF tabs[k].id = t.id THEN new[k] ELSE tabs[k]]
      /\ known' = known /\ tabSeq' = tabSeq /\ activeId' = activeId
      /\ deepLinked' = deepLinked /\ generating' = generating /\ redis' = redis
      /\ typed' = typed /\ gate' = gate
  BY DEF FetchAll, Send, PatchTab, Patched
<1>2. t \in Range(tabs) /\ t \in Recs /\ Good(t)
  BY <1>0, FrontTab
<1>3. q.tab = t.id /\ q.conn = t.conn
  BY DEF Query
<1>4. q.sql = t.sql /\ q.how = "fetch all"
  BY DEF Query
<1>5. \A k \in DOMAIN tabs : new[k] = New(tabs[k])
  OBVIOUS
<1>10. ASSUME NEW u \in Recs, Good(u)
       PROVE  New(u) \in Recs /\ Good(New(u)) /\ New(u).id = u.id /\ New(u).conn = u.conn
  BY <1>10 DEF Recs, Good
<1> HIDE DEF t, New, new, q
<1>6. TabsInv' /\ StillAgrees /\ Ids' = Ids
  BY <1>1, <1>5, <1>10, Rewriting DEF PageInv
<1>7. t.conn \in Conns
  <2>1. t.result # NoResult
    <3>1. NoResult.sql = "" /\ "read" # ""
      BY DEF NoResult
    <3> QED
      BY <1>0, <3>1, Zenon
  <2>2. Good(t)
    BY <1>2
  <2> QED
    BY <2>1, <2>2, Zenon DEF Good
<1>8. Cleared(q) /\ q.sql \in Texts /\ q.conn \in Conns
  BY <1>2, <1>3, <1>4, <1>7 DEF Cleared, Recs
<1>9. t \in Range(tabs)
  BY <1>2
<1> QED
  BY <1>1, <1>3, <1>6, <1>8, <1>9, Sending

\* An answer goes to a tab on the connection it came from.
LEMMA AnsweredKeeps ==
  ASSUME WorkspaceAssumption, PageInv, NEW q \in flying, Answered(q)
  PROVE  PageInv'
<1> DEFINE res == [conn |-> q.conn, sql |-> q.sql]
           New(t) == [t EXCEPT !.running = FALSE, !.failed = FALSE, !.result = res,
                               !.sql = IF q.how = "fetch all" THEN @ ELSE q.sql]
           new == [k \in DOMAIN tabs |-> New(tabs[k])]
<1>1. /\ tabs' = [k \in DOMAIN tabs |-> IF tabs[k].id = q.tab THEN new[k] ELSE tabs[k]]
      /\ flying' \subseteq flying /\ sent' = sent /\ gate' = gate /\ typed' = typed
      /\ known' = known /\ tabSeq' = tabSeq /\ activeId' = activeId
      /\ deepLinked' = deepLinked /\ generating' = generating /\ redis' = redis
  BY DEF Answered, PatchTab, Patched
<1>2. q.tab \in 1 .. tabSeq /\ q.conn \in Conns /\ q.sql \in Texts /\ Agrees(q.tab, q.conn)
  BY DEF PageInv, QueryInv
<1>3. ASSUME NEW t \in Recs, Good(t), t.conn = q.conn
      PROVE  New(t) \in Recs /\ Good(New(t)) /\ New(t).id = t.id /\ New(t).conn = t.conn
  <2>1. res \in [conn : Conns \cup {None}, sql : Texts] /\ res.conn = q.conn
    BY <1>2
  <2> HIDE DEF res
  <2> DEFINE sql == IF q.how = "fetch all" THEN t.sql ELSE q.sql
  <2>2. sql \in Texts
    BY <1>2, <1>3 DEF Recs
  <2>3. New(t) = [t EXCEPT !.running = FALSE, !.failed = FALSE, !.result = res, !.sql = sql]
    OBVIOUS
  <2> HIDE DEF sql, New
  <2>4. New(t) \in Recs /\ New(t).id = t.id
    BY <1>3, <2>1, <2>2, <2>3 DEF Recs
  <2>5. New(t).conn = t.conn /\ New(t).prod = t.prod /\ New(t).result = res
    BY <1>3, <2>3 DEF Recs
  <2>6. Good(New(t))
    BY <1>2, <1>3, <2>1, <2>5 DEF Good
  <2> QED
    BY <2>4, <2>5, <2>6
<1>4. \A k \in DOMAIN tabs : new[k] = New(tabs[k])
  OBVIOUS
<1>5. \A k \in DOMAIN tabs : tabs[k].id = q.tab => tabs[k].conn = q.conn
  BY <1>2 DEF Agrees, Range
<1> HIDE DEF res, New, new
<1>6. TabsInv' /\ StillAgrees /\ Ids' = Ids
  BY <1>1, <1>3, <1>4, <1>5, Rewriting DEF PageInv
<1> QED
  BY <1>1, <1>6, OnlyContents

\* An error takes a result away or leaves it.
LEMMA FailedKeeps ==
  ASSUME WorkspaceAssumption, PageInv, NEW q \in flying, Failed(q)
  PROVE  PageInv'
<1> DEFINE New(t) == [t EXCEPT !.running = FALSE, !.failed = TRUE,
                               !.result = IF q.how = "fetch all" THEN @ ELSE NoResult]
           new == [k \in DOMAIN tabs |-> New(tabs[k])]
<1>1. /\ tabs' = [k \in DOMAIN tabs |-> IF tabs[k].id = q.tab THEN new[k] ELSE tabs[k]]
      /\ flying' \subseteq flying /\ sent' = sent /\ gate' = gate /\ typed' = typed
      /\ known' = known /\ tabSeq' = tabSeq /\ activeId' = activeId
      /\ deepLinked' = deepLinked /\ generating' = generating /\ redis' = redis
  BY DEF Failed, PatchTab, Patched
<1>2. ASSUME NEW t \in Recs, Good(t)
      PROVE  New(t) \in Recs /\ Good(New(t)) /\ New(t).id = t.id /\ New(t).conn = t.conn
  <2> DEFINE res == IF q.how = "fetch all" THEN t.result ELSE NoResult
  <2>1. res \in [conn : Conns \cup {None}, sql : Texts] /\ res \in {t.result, NoResult}
    BY <1>2, EmptyIsAResult DEF Recs
  <2>2. New(t) = [t EXCEPT !.running = FALSE, !.failed = TRUE, !.result = res]
    OBVIOUS
  <2> HIDE DEF res, New
  <2>3. New(t) \in Recs /\ New(t).id = t.id
    BY <1>2, <2>1, <2>2 DEF Recs
  <2>4. New(t).conn = t.conn /\ New(t).prod = t.prod /\ New(t).result = res
    BY <1>2, <2>2 DEF Recs
  <2>5. Good(New(t))
    BY <1>2, <2>1, <2>4 DEF Good
  <2> QED
    BY <2>3, <2>4, <2>5
<1>3. \A k \in DOMAIN tabs : new[k] = New(tabs[k])
  OBVIOUS
<1> HIDE DEF New, new
<1>4. TabsInv' /\ StillAgrees /\ Ids' = Ids
  BY <1>1, <1>2, <1>3, Rewriting DEF PageInv
<1> QED
  BY <1>1, <1>4, OnlyContents

\* The tab in front is typed into, or a file's text goes into it.
LEMMA EditKeeps ==
  ASSUME WorkspaceAssumption, PageInv, NEW i, NEW sql \in Texts,
         PatchTab(i, LAMBDA t : [t EXCEPT !.sql = sql]),
         known' = known, tabSeq' = tabSeq, activeId' = activeId,
         deepLinked' = deepLinked, typed' = typed, redis' = redis, sent' = sent,
         gate' = gate, flying' = flying, generating' \subseteq generating
  PROVE  PageInv'
<1> DEFINE New(t) == [t EXCEPT !.sql = sql]
           new == [k \in DOMAIN tabs |-> New(tabs[k])]
<1>1. tabs' = [k \in DOMAIN tabs |-> IF tabs[k].id = i THEN new[k] ELSE tabs[k]]
  BY DEF PatchTab, Patched
<1>2. ASSUME NEW t \in Recs, Good(t)
      PROVE  New(t) \in Recs /\ Good(New(t)) /\ New(t).id = t.id /\ New(t).conn = t.conn
  BY <1>2 DEF Recs, Good
<1>3. \A k \in DOMAIN tabs : new[k] = New(tabs[k])
  OBVIOUS
<1> HIDE DEF New, new
<1>4. TabsInv' /\ StillAgrees /\ Ids' = Ids
  BY <1>1, <1>2, <1>3, Rewriting DEF PageInv
<1>5. flying' \subseteq flying
  OBVIOUS
<1> QED
  BY <1>4, <1>5, OnlyContents

\* A tab that had no connection gets one, with its label.
LEMMA PickConnectionKeeps ==
  ASSUME WorkspaceAssumption, PageInv, NEW c \in Conns, PickConnection(c)
  PROVE  PageInv'
<1> DEFINE label == c \in Prod
           New(t) == [t EXCEPT !.conn = c, !.prod = label]
           new == [k \in DOMAIN tabs |-> New(tabs[k])]
<1>1. /\ tabs' = [k \in DOMAIN tabs |-> IF tabs[k].id = activeId THEN new[k] ELSE tabs[k]]
      /\ known' = known /\ tabSeq' = tabSeq /\ activeId' = activeId
      /\ deepLinked' = deepLinked /\ gate' = gate /\ typed' = typed
      /\ flying' = flying /\ sent' = sent /\ generating' = generating /\ redis' = redis
  BY DEF PickConnection, PatchTab, Patched, TabsOnly
<1>2. activeId # 0 /\ TabOf(activeId).conn = None
  BY DEF PickConnection, NeedsConnection
<1>3. \A k \in DOMAIN tabs : tabs[k] \in Range(tabs)
  BY DEF Range
<1>4. \A k \in DOMAIN tabs : tabs[k].id = activeId => tabs[k].conn = None
  BY <1>2, <1>3, FrontTab DEF PageInv, TabsInv
<1>5. None \notin Conns
  BY DEF WorkspaceAssumption
<1>6. ASSUME NEW t \in Recs, Good(t), t.conn = None
      PROVE  New(t) \in Recs /\ Good(New(t)) /\ New(t).id = t.id /\ New(t).conn = c
  <2>0. label \in BOOLEAN /\ label = (c \in Prod)
    OBVIOUS
  <2> HIDE DEF label
  <2>1. New(t) \in Recs /\ New(t).id = t.id /\ New(t).conn = c
    BY <1>6, <2>0 DEF Recs
  <2>2. New(t).prod = label /\ New(t).result = t.result
    BY <1>6, <2>0 DEF Recs
  <2>3. t.result = NoResult
    BY <1>5, <1>6 DEF Good
  <2> HIDE DEF New
  <2>4. Good(New(t))
    BY <2>0, <2>1, <2>2, <2>3, Zenon DEF Good
  <2> QED
    BY <2>1, <2>4
<1>7. \A k \in DOMAIN tabs : new[k] = New(tabs[k])
  OBVIOUS
<1>8. \A k \in DOMAIN tabs : tabs[k] \in Recs /\ Good(tabs[k])
  BY <1>3 DEF PageInv, TabsInv
<1> HIDE DEF New, new, label
<1>9. ASSUME NEW k \in DOMAIN tabs, tabs[k].id = activeId
      PROVE  /\ new[k] \in Recs /\ Good(new[k]) /\ new[k].id = activeId
             /\ tabs[k].conn \in {new[k].conn, None} /\ new[k].conn = c
  <2>1. tabs[k] \in Recs /\ Good(tabs[k]) /\ tabs[k].conn = None
    BY <1>4, <1>8, <1>9
  <2>2. New(tabs[k]) \in Recs /\ Good(New(tabs[k])) /\ New(tabs[k]).id = tabs[k].id
        /\ New(tabs[k]).conn = c
    BY <1>6, <2>1
  <2> QED
    BY <1>7, <1>9, <2>1, <2>2
<1>10. TabsInv' /\ StillAgrees /\ Ids' = Ids
  <2>1. \A k \in DOMAIN tabs : tabs[k].id = activeId =>
          /\ new[k] \in Recs /\ Good(new[k]) /\ new[k].id = activeId
          /\ tabs[k].conn \in {new[k].conn, None}
    BY <1>9
  <2>2. \A j, k \in DOMAIN tabs :
          tabs[j].id = activeId /\ tabs[k].id = activeId => new[j].conn = new[k].conn
    BY <1>9
  <2>3. /\ TabsInv /\ tabSeq' = tabSeq
        /\ tabs' = [k \in DOMAIN tabs |-> IF tabs[k].id = activeId THEN new[k] ELSE tabs[k]]
    BY <1>1 DEF PageInv
  <2>4. PICK i : i = activeId
    OBVIOUS
  <2> QED
    BY <2>1, <2>2, <2>3, <2>4, Patching
<1>11. flying' \subseteq flying /\ generating' \subseteq generating
  BY <1>1
<1> QED
  BY <1>1, <1>10, <1>11, OnlyContents

\* A tab opens, and nothing is sent.
LEMMA OpenKeeps ==
  ASSUME WorkspaceAssumption, PageInv, NEW t \in Recs, Good(t), t.id = tabSeq + 1,
         tabSeq < MaxTabs, tabSeq' = tabSeq + 1, tabs' = Append(tabs, t),
         activeId' = t.id, redis' = FALSE,
         known' = known, deepLinked' \in BOOLEAN, gate' = gate, typed' = typed,
         flying' = flying, sent' = sent,
         generating' \subseteq generating \cup {tabSeq + 1}
  PROVE  PageInv'
<1>1. TabsInv' /\ StillAgrees /\ t \in Range(tabs')
  BY Opening DEF PageInv
<1>2. tabSeq \in Nat /\ tabSeq <= tabSeq' /\ 1 .. tabSeq \subseteq 1 .. tabSeq'
      /\ tabSeq + 1 \in 1 .. tabSeq'
  BY DEF PageInv, TabsInv
<1>3. ActiveInv'
  BY <1>1 DEF ActiveInv, Ids
<1>4. RestInv'
  <2>1. {known', deepLinked', typed', redis'} \subseteq BOOLEAN
    BY DEF PageInv, RestInv
  <2>2. generating' \subseteq 1 .. tabSeq'
    BY <1>2 DEF PageInv, RestInv
  <2> QED
    BY <2>1, <2>2 DEF PageInv, RestInv
<1> QED
  BY <1>1, <1>2, <1>3, <1>4, OnlyTabs

\* A fresh tab is on its connection, with its label.
LEMMA FreshTab ==
  ASSUME WorkspaceAssumption, TabsInv, NEW c \in Conns \cup {None}, NEW sql \in Texts
  PROVE  LET t == TabFor(c, sql) IN
           /\ t \in Recs /\ Good(t) /\ t.id = tabSeq + 1
           /\ t.conn = c /\ t.sql = sql /\ t.prod = (c \in Prod)
BY EmptyIsAResult DEF TabsInv, Recs, Good, TabFor

\* The navigator, the history and a blank tab.
LEMMA FreshOpens ==
  ASSUME WorkspaceAssumption, PageInv, NEW c \in Conns \cup {None}, NEW sql \in Texts,
         Open(TabFor(c, sql)), generating' \subseteq generating \cup {tabSeq + 1}
  PROVE  PageInv'
<1> DEFINE t == TabFor(c, sql)
<1>1. t \in Recs /\ Good(t) /\ t.id = tabSeq + 1
  BY FreshTab DEF PageInv
<1>2. /\ tabSeq < MaxTabs /\ tabSeq' = tabSeq + 1 /\ tabs' = Append(tabs, t)
      /\ activeId' = t.id /\ redis' = FALSE /\ known' = known
      /\ deepLinked' = deepLinked /\ gate' = gate /\ typed' = typed
      /\ flying' = flying /\ sent' = sent
  BY DEF Open, AddTab
<1> HIDE DEF t
<1>3. deepLinked' \in BOOLEAN
  BY <1>2 DEF PageInv, RestInv
<1> QED
  BY <1>1, <1>2, <1>3, OpenKeeps

\* A .sql file.
LEMMA OpenFileKeeps ==
  ASSUME WorkspaceAssumption, PageInv, NEW sql \in Texts, OpenFile(sql)
  PROVE  PageInv'
<1>1. generating' = generating
  BY DEF OpenFile
<1>2. CASE Open(TabFor(None, sql))
  BY <1>1, <1>2, FreshOpens
<1>3. CASE activeId # 0 /\ Open(FileTab(TabOf(activeId), sql))
  <2> DEFINE f == TabOf(activeId)
             t == FileTab(f, sql)
  <2>1. f \in Recs /\ Good(f)
    BY <1>3, FrontTab
  <2>2. /\ tabSeq < MaxTabs /\ tabSeq' = tabSeq + 1 /\ tabs' = Append(tabs, t)
        /\ activeId' = t.id /\ redis' = FALSE /\ known' = known
        /\ deepLinked' = deepLinked /\ gate' = gate /\ typed' = typed
        /\ flying' = flying /\ sent' = sent
    BY <1>3 DEF Open, AddTab
  <2> HIDE DEF f
  <2> DEFINE n == TabFor(f.conn, sql)
  <2>3. f.conn \in Conns \cup {None} /\ f.prod = (f.conn \in Prod) /\ f.prod \in BOOLEAN
    BY <2>1 DEF Good, Recs
  <2>4. /\ n \in Recs /\ Good(n) /\ n.id = tabSeq + 1 /\ n.prod = (f.conn \in Prod)
    BY <2>3, FreshTab DEF PageInv
  <2>5. t = [n EXCEPT !.prod = f.prod]
    BY DEF FileTab
  <2> HIDE DEF n, t
  <2>6. t = n
    BY <2>3, <2>4, <2>5 DEF Recs
  <2>7. deepLinked' \in BOOLEAN
    BY <2>2 DEF PageInv, RestInv
  <2> QED
    BY <1>1, <2>2, <2>4, <2>6, <2>7, OpenKeeps
<1>4. CASE /\ PatchTab(activeId, LAMBDA t : [t EXCEPT !.sql = sql])
           /\ UNCHANGED <<known, tabSeq, activeId, deepLinked, gate, typed, flying, sent, redis>>
  BY <1>1, <1>4, EditKeeps
<1> QED
  BY <1>2, <1>3, <1>4 DEF OpenFile

\* A tab that is opened and run in one go.
LEMMA ViewDataKeeps ==
  ASSUME WorkspaceAssumption, PageInv, NEW c \in Conns, ViewData(c),
         deepLinked' \in BOOLEAN
  PROVE  PageInv'
<1> DEFINE t == TabFor(c, "read")
<1>1. /\ t \in Recs /\ Good(t) /\ t.id = tabSeq + 1 /\ t.conn = c /\ t.sql = "read"
  BY FreshTab DEF PageInv, Texts
<1>2. /\ tabSeq < MaxTabs /\ tabSeq' = tabSeq + 1 /\ activeId' = t.id
      /\ redis' = FALSE /\ known' = known /\ generating' = generating
  BY DEF ViewData
<1>3. \/ Refuse(t, t.sql) /\ tabs' = Append(tabs, t)
      \/ Pass(t, t.sql) /\ tabs' = Append(tabs, Started(t))
  BY DEF ViewData
<1>4. CASE Refuse(t, t.sql) /\ tabs' = Append(tabs, t)
  <2>1. gate' = gate /\ typed' = typed /\ flying' = flying /\ sent' = sent
    BY <1>4 DEF Refuse
  <2> HIDE DEF t
  <2> QED
    BY <1>1, <1>2, <1>4, <2>1, OpenKeeps
<1>5. CASE Pass(t, t.sql) /\ tabs' = Append(tabs, Started(t))
  <2> DEFINE u == Started(t)
  <2>0. PICK q : q = Query(t, "read", IF Asked(t, "read") THEN "agreed" ELSE "unasked")
    OBVIOUS
  <2>1. /\ flying' = flying \cup {q} /\ sent < MaxQueries /\ sent' = sent + 1
        /\ gate' = gate /\ typed' = typed
    BY <1>1, <1>5, <2>0 DEF Pass, Send
  <2>2. q.tab = t.id /\ q.conn = t.conn /\ q.sql = "read"
    BY <2>0 DEF Query
  <2> HIDE DEF t
  <2>3. u \in Recs /\ Good(u) /\ u.id = t.id /\ u.conn = t.conn
    BY <1>1, EmptyIsAResult DEF Recs, Good, Started
  <2> HIDE DEF u
  <2>4. TabsInv' /\ StillAgrees /\ u \in Range(tabs')
    BY <1>1, <1>2, <1>5, <2>3, Opening DEF PageInv, u
  <2>5. /\ tabSeq \in Nat /\ tabSeq' \in Nat /\ tabSeq <= tabSeq'
        /\ 1 .. tabSeq \subseteq 1 .. tabSeq' /\ t.id \in 1 .. tabSeq'
    BY <1>1, <1>2 DEF PageInv, TabsInv
  <2>6. ActiveInv'
    BY <1>2, <2>3, <2>4 DEF ActiveInv, Ids
  <2>7. RestInv'
    <3>1. {known', deepLinked', typed', redis'} \subseteq BOOLEAN
      BY <1>2, <2>1 DEF PageInv, RestInv
    <3>2. sent' \in 0 .. MaxQueries
      BY <2>1 DEF PageInv, RestInv, WorkspaceAssumption
    <3>3. generating' \subseteq 1 .. tabSeq'
      BY <1>2, <2>5 DEF PageInv, RestInv
    <3> QED
      BY <3>1, <3>2, <3>3 DEF RestInv
  <2>8. Agrees(q.tab, q.conn)'
    BY <2>2, <2>3, <2>4 DEF Agrees, TabsInv
  <2>9. Sound(q)'
    <3>1. q.sql \in Texts /\ ~dangerous(q.sql)
      BY <2>2 DEF Texts, dangerous
    <3>2. q.tab \in 1 .. tabSeq' /\ q.conn \in Conns
      BY <1>1, <2>2, <2>5
    <3> QED
      BY <2>8, <3>1, <3>2 DEF Sound, Agrees
  <2>10. \A r \in flying' : r \in flying \/ Sound(r)'
    BY <2>1, <2>9
  <2> QED
    BY <2>1, <2>4, <2>5, <2>6, <2>7, <2>10, PageKeeps
<1> QED
  BY <1>3, <1>4, <1>5

\* A tab is clicked, or some are closed.
LEMMA ClosingKeeps ==
  ASSUME WorkspaceAssumption, PageInv, TabsOnly,
         tabs' \in Seq(Recs), Range(tabs') \subseteq Range(tabs), ActiveInv'
  PROVE  PageInv'
<1>1. /\ known' = known /\ tabSeq' = tabSeq /\ deepLinked' = deepLinked
      /\ gate' = gate /\ typed' = typed /\ flying' = flying /\ sent' = sent
      /\ generating' = generating /\ redis' = redis
  BY DEF TabsOnly
<1>2. TabsInv' /\ StillAgrees
  BY <1>1, Closing DEF PageInv
<1>3. RestInv'
  BY <1>1 DEF PageInv, RestInv
<1>4. tabSeq <= tabSeq'
  BY <1>1 DEF PageInv, TabsInv
<1> QED
  BY <1>1, <1>2, <1>3, <1>4, OnlyTabs

\* A tab is clicked.
LEMMA SelectKeeps ==
  ASSUME WorkspaceAssumption, PageInv, NEW i \in Ids, Select(i)
  PROVE  PageInv'
<1>1. activeId' = i /\ tabs' = tabs /\ TabsOnly
  BY DEF Select
<1>2. tabs' \in Seq(Recs) /\ Range(tabs') \subseteq Range(tabs)
  BY <1>1 DEF PageInv, TabsInv
<1>3. ActiveInv'
  BY <1>1 DEF ActiveInv, Ids
<1> QED
  BY <1>1, <1>2, <1>3, ClosingKeeps

\* Where a tab stands.
LEMMA PlaceOf ==
  ASSUME NEW i \in Ids
  PROVE  LET k == CHOOSE j \in DOMAIN tabs : tabs[j].id = i IN
           k \in DOMAIN tabs /\ tabs[k].id = i
<1>1. \E j \in DOMAIN tabs : tabs[j].id = i
  BY DEF Ids, Range
<1> QED
  BY <1>1

\* One tab closes; its neighbour comes to the front.
LEMMA CloseTabKeeps ==
  ASSUME WorkspaceAssumption, PageInv, NEW i \in Ids, CloseTab(i)
  PROVE  PageInv'
<1> DEFINE k    == CHOOSE j \in DOMAIN tabs : tabs[j].id = i
           next == RemoveAt(tabs, k)
<1>1. k \in DOMAIN tabs /\ tabs[k].id = i
  BY PlaceOf
<1>2. /\ tabs' = next /\ TabsOnly
      /\ activeId' = IF i = activeId THEN AfterClosing(next, k) ELSE activeId
  BY DEF CloseTab
<1>3. tabs \in Seq(Recs) /\ Len(tabs) \in Nat /\ DOMAIN tabs = 1 .. Len(tabs)
  BY DEF PageInv, TabsInv
<1> HIDE DEF k
<1>4. /\ next \in Seq(Recs) /\ Len(next) = Len(tabs) - 1 /\ Range(next) \subseteq Range(tabs)
      /\ \A j \in 1 .. Len(tabs) : j # k => tabs[j] \in Range(next)
  BY <1>1, <1>3, RemoveAtRange
<1> HIDE DEF next
<1>5. DOMAIN next = 1 .. Len(next) /\ \A j \in 1 .. Len(next) : next[j] \in Range(next)
  BY <1>4 DEF Range
<1>6. Ids' = {t.id : t \in Range(next)}
  BY <1>2 DEF Ids
<1>7. ASSUME i = activeId PROVE ActiveInv'
  <2>1. CASE next = << >>
    <3>1. ~(k <= Len(next)) /\ AfterClosing(next, k) = 0
      BY <1>1, <1>3, <2>1 DEF AfterClosing
    <3>2. Ids' = {} /\ activeId' = 0
      BY <1>2, <1>5, <1>6, <1>7, <2>1, <3>1 DEF Range
    <3> QED
      BY <3>2 DEF ActiveInv
  <2>2. CASE next # << >>
    <3>1. Len(next) >= 1
      BY <1>4, <2>2
    <3>2. PICK j \in 1 .. Len(next) : AfterClosing(next, k) = next[j].id
      <4>1. CASE k <= Len(next)
        BY <1>1, <1>3, <2>2, <4>1 DEF AfterClosing
      <4>2. CASE k > Len(next)
        <5>1. k - 1 \in 1 .. Len(next)
          BY <1>1, <1>3, <1>4, <3>1, <4>2
        <5>2. ~(k <= Len(next))
          BY <1>1, <1>3, <1>4, <4>2
        <5> QED
          BY <2>2, <4>2, <5>1, <5>2 DEF AfterClosing
      <4> QED
        BY <1>1, <1>3, <1>4, <4>1, <4>2
    <3>3. activeId' \in Ids'
      BY <1>2, <1>5, <1>6, <1>7, <3>2
    <3> QED
      BY <3>3 DEF ActiveInv
  <2> QED
    BY <2>1, <2>2
<1>8. ASSUME i # activeId PROVE ActiveInv'
  <2>1. activeId \in Ids
    BY DEF PageInv, ActiveInv
  <2>2. PICK j \in 1 .. Len(tabs) : tabs[j].id = activeId
    BY <1>3, <2>1 DEF Ids, Range
  <2>3. tabs[j] \in Range(next)
    BY <1>1, <1>4, <1>8, <2>2
  <2>4. activeId' \in Ids'
    BY <1>2, <1>6, <1>8, <2>2, <2>3
  <2> QED
    BY <2>4 DEF ActiveInv
<1> QED
  BY <1>2, <1>4, <1>7, <1>8, ClosingKeeps

\* Others than the tab of the menu close.
LEMMA KeepTabsKeeps ==
  ASSUME WorkspaceAssumption, PageInv, NEW i \in Ids, KeepTabs(i)
  PROVE  PageInv'
<1> DEFINE k == CHOOSE j \in DOMAIN tabs : tabs[j].id = i
<1>1. k \in DOMAIN tabs /\ tabs[k].id = i
  BY PlaceOf
<1>2. /\ activeId' = i /\ TabsOnly
      /\ tabs' \in {<<tabs[k]>>, SubSeq(tabs, 1, k), SubSeq(tabs, k, Len(tabs))}
  BY DEF KeepTabs
<1>3. tabs \in Seq(Recs) /\ Len(tabs) \in Nat /\ DOMAIN tabs = 1 .. Len(tabs)
  BY DEF PageInv, TabsInv
<1> HIDE DEF k
<1>4. k \in 1 .. Len(tabs) /\ tabs[k] \in Recs /\ tabs[k] \in Range(tabs)
  BY <1>1, <1>3 DEF Range
<1>5. /\ tabs' \in Seq(Recs) /\ Range(tabs') \subseteq Range(tabs)
      /\ tabs[k] \in Range(tabs')
  <2>1. CASE tabs' = <<tabs[k]>>
    <3>1. tabs' \in Seq(Recs) /\ Range(tabs') = {tabs[k]}
      BY <1>4, <2>1 DEF Range
    <3> QED
      BY <1>4, <3>1
  <2>2. CASE tabs' = SubSeq(tabs, 1, k)
    BY <1>3, <1>4, <2>2, SubSeqRange
  <2>3. CASE tabs' = SubSeq(tabs, k, Len(tabs))
    BY <1>3, <1>4, <2>3, SubSeqRange
  <2> QED
    BY <1>2, <2>1, <2>2, <2>3
<1>6. ActiveInv'
  BY <1>1, <1>2, <1>5 DEF ActiveInv, Ids
<1> QED
  BY <1>2, <1>5, <1>6, ClosingKeeps

\* All tabs close.
LEMMA CloseAllKeeps ==
  ASSUME WorkspaceAssumption, PageInv, CloseAll
  PROVE  PageInv'
<1>1. tabs' = << >> /\ activeId' = 0 /\ TabsOnly
  BY DEF CloseAll
<1>2. tabs' \in Seq(Recs) /\ Range(tabs') = {} /\ ActiveInv'
  BY <1>1 DEF Range, ActiveInv, Ids
<1> QED
  BY <1>1, <1>2, ClosingKeeps

\* The generated text replaces the comment.
LEMMA GeneratedKeeps ==
  ASSUME WorkspaceAssumption, PageInv, NEW i, Generated(i)
  PROVE  PageInv'
<1>1. generating' \subseteq generating /\ "read" \in Texts
  BY DEF Generated, Texts
<1> QED
  BY <1>1, EditKeeps DEF Generated

-----------------------------------------------------------------------------
(* A running tab has a statement under way.                                  *)

Owed(i) == \E q \in flying : q.tab = i

\* Tabs with number i are rewritten; what was under way for others still is.
LEMMA RunningRewritten ==
  ASSUME PageInv, RunningHasAQuery, NEW i, NEW new,
         tabs' = [k \in DOMAIN tabs |-> IF tabs[k].id = i THEN new[k] ELSE tabs[k]],
         \A r \in flying : r \in flying' \/ r.tab = i,
         \A k \in DOMAIN tabs : tabs[k] \in Recs /\ tabs[k].id = i =>
           /\ new[k].id = i
           /\ new[k].running => (tabs[k].running /\ flying \subseteq flying') \/ Owed(i)'
  PROVE  RunningHasAQuery'
<1>1. \A k \in DOMAIN tabs : tabs[k] \in Recs /\ tabs[k] \in Range(tabs)
  BY DEF PageInv, TabsInv, Range
<1>2. ASSUME NEW k \in DOMAIN tabs, tabs'[k].running
      PROVE  \E q \in flying' : q.tab = tabs'[k].id
  <2>1. CASE tabs[k].id = i
    <3>1. tabs'[k].id = i /\ ((tabs[k].running /\ flying \subseteq flying') \/ Owed(i)')
      BY <1>1, <1>2, <2>1
    <3>2. tabs[k].running => \E q \in flying : q.tab = i
      BY <1>1, <2>1 DEF RunningHasAQuery
    <3> QED
      BY <3>1, <3>2 DEF Owed
  <2>2. CASE tabs[k].id # i
    <3>1. tabs'[k] = tabs[k]
      BY <2>2
    <3>2. PICK q \in flying : q.tab = tabs[k].id
      BY <1>1, <1>2, <3>1 DEF RunningHasAQuery
    <3>3. q \in flying'
      BY <2>2, <3>2
    <3> QED
      BY <3>1, <3>2, <3>3 DEF Owed
  <2> QED
    BY <2>1, <2>2
<1>3. DOMAIN tabs' = DOMAIN tabs
  OBVIOUS
<1> QED
  BY <1>2, <1>3 DEF RunningHasAQuery, Range, Owed

\* Tabs are closed, or one is there that does not run or is owed an answer.
LEMMA RunningOthers ==
  ASSUME RunningHasAQuery, flying \subseteq flying',
         \A t \in Range(tabs') : t \in Range(tabs) \/ (t.running => Owed(t.id)')
  PROVE  RunningHasAQuery'
BY DEF RunningHasAQuery, Owed

\* execute: the statement is sent for the very tab that starts.
LEMMA RunningStarts ==
  ASSUME PageInv, RunningHasAQuery, NEW t, NEW sql, NEW how, NEW i, i = t.id,
         Send(t, sql, how), PatchTab(i, Started)
  PROVE  RunningHasAQuery'
<1> DEFINE new == [k \in DOMAIN tabs |-> Started(tabs[k])]
<1>1. tabs' = [k \in DOMAIN tabs |-> IF tabs[k].id = i THEN new[k] ELSE tabs[k]]
  BY DEF PatchTab, Patched, Started
<1>2. ASSUME NEW u \in Recs PROVE Started(u).id = u.id
  BY <1>2 DEF Recs, Started
<1>3. \A k \in DOMAIN tabs : new[k] = Started(tabs[k])
  OBVIOUS
<1> HIDE DEF new
<1>4. PICK q : q = Query(t, sql, how)
  OBVIOUS
<1>5. q \in flying' /\ flying \subseteq flying' /\ q.tab = i
  BY <1>4 DEF Send, Query
<1>6. Owed(i)'
  BY <1>5 DEF Owed
<1>7. \A k \in DOMAIN tabs : tabs[k] \in Recs /\ tabs[k].id = i =>
        /\ new[k].id = i
        /\ new[k].running => (tabs[k].running /\ flying \subseteq flying') \/ Owed(i)'
  BY <1>2, <1>3, <1>6
<1>8. \A r \in flying : r \in flying' \/ r.tab = i
  BY <1>5
<1> QED
  BY <1>1, <1>7, <1>8, RunningRewritten

\* The text or the connection of a tab changes.
LEMMA RunningEdited ==
  ASSUME PageInv, RunningHasAQuery, flying' = flying, NEW i, NEW new,
         tabs' = [k \in DOMAIN tabs |-> IF tabs[k].id = i THEN new[k] ELSE tabs[k]],
         \A k \in DOMAIN tabs : tabs[k] \in Recs =>
           new[k].id = tabs[k].id /\ new[k].running = tabs[k].running
  PROVE  RunningHasAQuery'
<1>1. \A q \in flying : q \in flying' \/ q.tab = i
  OBVIOUS
<1>2. \A k \in DOMAIN tabs : tabs[k] \in Recs /\ tabs[k].id = i =>
        /\ new[k].id = i
        /\ new[k].running => (tabs[k].running /\ flying \subseteq flying') \/ Owed(i)'
  OBVIOUS
<1> QED
  BY <1>1, <1>2, RunningRewritten

\* An answer or an error: no tab with that number runs any more.
LEMMA RunningEnds ==
  ASSUME PageInv, RunningHasAQuery, NEW i, NEW new,
         \A r \in flying : r \in flying' \/ r.tab = i,
         tabs' = [k \in DOMAIN tabs |-> IF tabs[k].id = i THEN new[k] ELSE tabs[k]],
         \A k \in DOMAIN tabs : tabs[k] \in Recs =>
           new[k].id = tabs[k].id /\ ~new[k].running
  PROVE  RunningHasAQuery'
<1>1. \A k \in DOMAIN tabs : tabs[k] \in Recs /\ tabs[k].id = i =>
        /\ new[k].id = i
        /\ new[k].running => (tabs[k].running /\ flying \subseteq flying') \/ Owed(i)'
  OBVIOUS
<1> QED
  BY <1>1, RunningRewritten

\* A tab opens that does not run.
LEMMA RunningOpens ==
  ASSUME PageInv, RunningHasAQuery, NEW t \in Recs, ~t.running,
         tabs' = Append(tabs, t), flying \subseteq flying'
  PROVE  RunningHasAQuery'
<1>1. Range(tabs') = Range(tabs) \cup {t}
  BY AppendRange DEF PageInv, TabsInv
<1> QED
  BY <1>1, RunningOthers

\* runTab on a tab.
LEMMA RunningRun ==
  ASSUME PageInv, RunningHasAQuery, NEW t, NEW sql, RunTab(t, sql)
  PROVE  RunningHasAQuery'
<1>1. CASE (OpenGate(t, sql) \/ Refuse(t, sql)) /\ tabs' = tabs
  BY <1>1 DEF OpenGate, Refuse, RunningHasAQuery
<1>2. CASE Pass(t, sql) /\ PatchTab(t.id, Started)
  <2>1. PICK how : Send(t, sql, how)
    BY <1>2 DEF Pass
  <2>2. PICK i : i = t.id /\ PatchTab(i, Started)
    BY <1>2
  <2> QED
    BY <2>1, <2>2, RunningStarts
<1> QED
  BY <1>1, <1>2 DEF RunTab

\* A tab that is opened and run in one go.
LEMMA RunningView ==
  ASSUME WorkspaceAssumption, PageInv, RunningHasAQuery, NEW c \in Conns, ViewData(c)
  PROVE  RunningHasAQuery'
<1>0. PICK t : t = TabFor(c, "read")
  OBVIOUS
<1>1. t \in Recs /\ t.running = FALSE
  BY <1>0, FreshTab DEF PageInv, Texts, TabFor
<1>2. \/ Refuse(t, t.sql) /\ tabs' = Append(tabs, t)
      \/ Pass(t, t.sql) /\ tabs' = Append(tabs, Started(t))
  BY <1>0 DEF ViewData
<1>3. CASE Refuse(t, t.sql) /\ tabs' = Append(tabs, t)
  <2>1. flying \subseteq flying'
    BY <1>3 DEF Refuse
  <2> QED
    BY <1>1, <1>3, <2>1, RunningOpens
<1>4. CASE Pass(t, t.sql) /\ tabs' = Append(tabs, Started(t))
  <2>1. PICK u : u = Started(t)
    OBVIOUS
  <2>2. u \in Recs /\ u.id = t.id
    BY <1>1, <2>1, EmptyIsAResult DEF Recs, Started
  <2>3. Range(tabs') = Range(tabs) \cup {u}
    BY <1>4, <2>1, <2>2, AppendRange DEF PageInv, TabsInv
  <2>4. PICK q : q = Query(t, t.sql, IF Asked(t, t.sql) THEN "agreed" ELSE "unasked")
    OBVIOUS
  <2>5. flying' = flying \cup {q} /\ q.tab = u.id
    BY <1>4, <2>2, <2>4 DEF Pass, Send, Query
  <2>6. flying \subseteq flying' /\ Owed(u.id)'
    BY <2>5 DEF Owed
  <2> QED
    BY <2>3, <2>6, RunningOthers
<1> QED
  BY <1>2, <1>3, <1>4

\* A tab opens from the navigator, the history, a file or as a blank one.
LEMMA RunningOpened ==
  ASSUME WorkspaceAssumption, PageInv, RunningHasAQuery,
         NEW c \in Conns \cup {None}, NEW sql \in Texts, NEW b \in BOOLEAN,
         NEW t, t = [TabFor(c, sql) EXCEPT !.prod = b], Open(t)
  PROVE  RunningHasAQuery'
<1>0. PICK u : u = TabFor(c, sql)
  OBVIOUS
<1>1. u \in Recs /\ u.running = FALSE
  BY <1>0, FreshTab DEF PageInv, TabFor
<1>2. t \in Recs /\ t.running = FALSE
  BY <1>0, <1>1 DEF Recs
<1>3. tabs' = Append(tabs, t) /\ flying \subseteq flying'
  BY DEF Open, AddTab
<1> QED
  BY <1>2, <1>3, RunningOpens

\* The same for a tab as it is made.
LEMMA RunningFresh ==
  ASSUME WorkspaceAssumption, PageInv, RunningHasAQuery,
         NEW c \in Conns \cup {None}, NEW sql \in Texts, Open(TabFor(c, sql))
  PROVE  RunningHasAQuery'
<1>1. PICK t : t = TabFor(c, sql)
  OBVIOUS
<1>2. t \in Recs /\ t.running = FALSE
  BY <1>1, FreshTab DEF PageInv, TabFor
<1>3. tabs' = Append(tabs, t) /\ flying \subseteq flying'
  BY <1>1 DEF Open, AddTab
<1> QED
  BY <1>2, <1>3, RunningOpens

\* The text of a tab is typed, read from a file or generated.
LEMMA RunningTyped ==
  ASSUME PageInv, RunningHasAQuery, NEW i, NEW sql, flying' = flying,
         PatchTab(i, LAMBDA t : [t EXCEPT !.sql = sql])
  PROVE  RunningHasAQuery'
<1> DEFINE New(t) == [t EXCEPT !.sql = sql]
           new == [k \in DOMAIN tabs |-> New(tabs[k])]
<1>1. tabs' = [k \in DOMAIN tabs |-> IF tabs[k].id = i THEN new[k] ELSE tabs[k]]
  BY DEF PatchTab, Patched
<1>2. ASSUME NEW t \in Recs PROVE New(t).id = t.id /\ New(t).running = t.running
  BY <1>2 DEF Recs
<1>3. \A k \in DOMAIN tabs : new[k] = New(tabs[k])
  OBVIOUS
<1> HIDE DEF New, new
<1> QED
  BY <1>1, <1>2, <1>3, RunningEdited

\* A .sql file.
LEMMA RunningFile ==
  ASSUME WorkspaceAssumption, PageInv, RunningHasAQuery, NEW sql \in Texts, OpenFile(sql)
  PROVE  RunningHasAQuery'
<1>1. CASE Open(TabFor(None, sql))
  BY <1>1, RunningFresh
<1>2. CASE activeId # 0 /\ Open(FileTab(TabOf(activeId), sql))
  <2>1. PICK f : f = TabOf(activeId)
    OBVIOUS
  <2>2. f.conn \in Conns \cup {None} /\ f.prod \in BOOLEAN
    BY <1>2, <2>1, FrontTab DEF Recs
  <2> QED
    BY <1>2, <2>1, <2>2, RunningOpened DEF FileTab
<1>3. CASE /\ PatchTab(activeId, LAMBDA t : [t EXCEPT !.sql = sql]) /\ flying' = flying
  <2>1. PICK i : i = activeId /\ PatchTab(i, LAMBDA t : [t EXCEPT !.sql = sql])
    BY <1>3
  <2> QED
    BY <1>3, <2>1, RunningTyped
<1> QED
  BY <1>1, <1>2, <1>3 DEF OpenFile

\* The connection of a tab is picked.
LEMMA RunningPicked ==
  ASSUME PageInv, RunningHasAQuery, NEW c, PickConnection(c)
  PROVE  RunningHasAQuery'
<1> DEFINE label == c \in Prod
           New(t) == [t EXCEPT !.conn = c, !.prod = label]
           new == [k \in DOMAIN tabs |-> New(tabs[k])]
<1>0. PICK i : i = activeId
  OBVIOUS
<1>1. /\ tabs' = [k \in DOMAIN tabs |-> IF tabs[k].id = i THEN new[k] ELSE tabs[k]]
      /\ flying' = flying
  BY <1>0 DEF PickConnection, PatchTab, Patched, TabsOnly
<1>2. ASSUME NEW t \in Recs PROVE New(t).id = t.id /\ New(t).running = t.running
  <2> HIDE DEF label
  <2> QED
    BY <1>2 DEF Recs
<1>3. \A k \in DOMAIN tabs : new[k] = New(tabs[k])
  OBVIOUS
<1> HIDE DEF New, new
<1> QED
  BY <1>1, <1>2, <1>3, RunningEdited

\* "Fetch all".
LEMMA RunningFetched ==
  ASSUME WorkspaceAssumption, PageInv, RunningHasAQuery, FetchAll
  PROVE  RunningHasAQuery'
<1> DEFINE New(u) == [u EXCEPT !.running = TRUE]
           new == [k \in DOMAIN tabs |-> New(tabs[k])]
<1>0. PICK t, i : t = TabOf(activeId) /\ i = t.id
  OBVIOUS
<1>1. /\ tabs' = [k \in DOMAIN tabs |-> IF tabs[k].id = i THEN new[k] ELSE tabs[k]]
      /\ Send(t, t.sql, "fetch all")
  BY <1>0 DEF FetchAll, PatchTab, Patched
<1>2. ASSUME NEW u \in Recs PROVE New(u).id = u.id
  BY <1>2 DEF Recs
<1>3. \A k \in DOMAIN tabs : new[k] = New(tabs[k])
  OBVIOUS
<1> HIDE DEF New, new
<1>4. flying \subseteq flying' /\ Owed(i)'
  <2>1. PICK q : q = Query(t, t.sql, "fetch all")
    OBVIOUS
  <2>2. flying' = flying \cup {q} /\ q.tab = i
    BY <1>0, <1>1, <2>1 DEF Send, Query
  <2> QED
    BY <2>2 DEF Owed
<1>5. /\ \A q \in flying : q \in flying' \/ q.tab = i
      /\ \A k \in DOMAIN tabs : tabs[k] \in Recs /\ tabs[k].id = i =>
           /\ new[k].id = i
           /\ new[k].running => (tabs[k].running /\ flying \subseteq flying') \/ Owed(i)'
  BY <1>2, <1>3, <1>4
<1> QED
  BY <1>1, <1>5, RunningRewritten

\* An answer.
LEMMA RunningAnswered ==
  ASSUME PageInv, RunningHasAQuery, NEW q \in flying, Answered(q)
  PROVE  RunningHasAQuery'
<1> DEFINE New(t) == [t EXCEPT !.running = FALSE, !.failed = FALSE,
                               !.result = [conn |-> q.conn, sql |-> q.sql],
                               !.sql = IF q.how = "fetch all" THEN @ ELSE q.sql]
           new == [k \in DOMAIN tabs |-> New(tabs[k])]
<1>0. PICK i : i = q.tab
  OBVIOUS
<1>1. /\ tabs' = [k \in DOMAIN tabs |-> IF tabs[k].id = i THEN new[k] ELSE tabs[k]]
      /\ \A r \in flying : r \in flying' \/ r.tab = i
  BY <1>0 DEF Answered, PatchTab, Patched
<1>2. ASSUME NEW t \in Recs PROVE New(t).id = t.id /\ ~New(t).running
  BY <1>2 DEF Recs
<1>3. \A k \in DOMAIN tabs : new[k] = New(tabs[k])
  OBVIOUS
<1> HIDE DEF New, new
<1> QED
  BY <1>1, <1>2, <1>3, RunningEnds

\* An error.
LEMMA RunningFailed ==
  ASSUME PageInv, RunningHasAQuery, NEW q \in flying, Failed(q)
  PROVE  RunningHasAQuery'
<1> DEFINE New(t) == [t EXCEPT !.running = FALSE, !.failed = TRUE,
                               !.result = IF q.how = "fetch all" THEN @ ELSE NoResult]
           new == [k \in DOMAIN tabs |-> New(tabs[k])]
<1>0. PICK i : i = q.tab
  OBVIOUS
<1>1. /\ tabs' = [k \in DOMAIN tabs |-> IF tabs[k].id = i THEN new[k] ELSE tabs[k]]
      /\ \A r \in flying : r \in flying' \/ r.tab = i
  BY <1>0 DEF Failed, PatchTab, Patched
<1>2. ASSUME NEW t \in Recs PROVE New(t).id = t.id /\ ~New(t).running
  BY <1>2 DEF Recs
<1>3. \A k \in DOMAIN tabs : new[k] = New(tabs[k])
  OBVIOUS
<1> HIDE DEF New, new
<1> QED
  BY <1>1, <1>2, <1>3, RunningEnds

\* Tabs are clicked or closed.
LEMMA RunningClosed ==
  ASSUME PageInv, RunningHasAQuery, NEW i \in Ids, CloseTab(i) \/ KeepTabs(i)
  PROVE  RunningHasAQuery'
<1>0. PICK k : k = CHOOSE j \in DOMAIN tabs : tabs[j].id = i
  OBVIOUS
<1>1. k \in DOMAIN tabs
  BY <1>0, PlaceOf
<1>2. tabs \in Seq(Recs) /\ Len(tabs) \in Nat /\ k \in 1 .. Len(tabs) /\ tabs[k] \in Range(tabs)
  BY <1>1 DEF PageInv, TabsInv, Range
<1>3. Range(tabs') \subseteq Range(tabs)
  <2>1. CASE tabs' = RemoveAt(tabs, k)
    BY <1>2, <2>1, RemoveAtRange
  <2>2. CASE tabs' = <<tabs[k]>>
    BY <1>2, <2>2 DEF Range
  <2>3. CASE tabs' = SubSeq(tabs, 1, k)
    BY <1>2, <2>3, SubSeqRange
  <2>4. CASE tabs' = SubSeq(tabs, k, Len(tabs))
    BY <1>2, <2>4, SubSeqRange
  <2> QED
    BY <1>0, <2>1, <2>2, <2>3, <2>4 DEF CloseTab, KeepTabs
<1>4. flying' = flying
  BY DEF CloseTab, KeepTabs, TabsOnly
<1> QED
  BY <1>3, <1>4, RunningOthers

\* Nothing happens to the tabs or to the statements.
LEMMA RunningAside ==
  ASSUME RunningHasAQuery, tabs' = tabs, flying' = flying
  PROVE  RunningHasAQuery'
BY DEF RunningHasAQuery

\* Every step of the page keeps the answers that running tabs wait for.
LEMMA RunningStep ==
  ASSUME WorkspaceAssumption, PageInv, RunningHasAQuery, [Next]_vars
  PROVE  RunningHasAQuery'
<1>1. CASE Navigator
  BY <1>1, RunningFresh, RunningView, RunningAside
     DEF Navigator, OpenEditor, View, Redis, Generate, Texts
<1>2. CASE TabBar
  BY <1>2, RunningFresh, RunningAside, RunningClosed
     DEF TabBar, OpenBlank, Select, TabsOnly, Texts
<1>3. CASE TabMenu
  <2>1. CASE CloseAll
    <3>1. Range(tabs') = {} /\ flying \subseteq flying'
      BY <2>1 DEF CloseAll, TabsOnly, Range
    <3> QED
      BY <3>1, RunningOthers
  <2> QED
    BY <1>3, <2>1, RunningClosed DEF TabMenu
<1>4. ASSUME NEW sql \in Texts, Edit(sql) PROVE RunningHasAQuery'
  <2>1. PICK i : i = activeId /\ PatchTab(i, LAMBDA t : [t EXCEPT !.sql = sql])
    BY <1>4 DEF Edit
  <2> QED
    BY <1>4, <2>1, RunningTyped DEF Edit, TabsOnly
<1>5. CASE Toolbar
  BY <1>4, <1>5, RunningRun, RunningFile, RunningPicked DEF Toolbar, Run
<1>6. CASE Editor
  BY <1>4, <1>6, RunningRun DEF Editor, Run
<1>7. CASE ResultGrid
  BY <1>7, RunningFetched DEF ResultGrid
<1>8. CASE HistoryPanel
  <2>1. PICK c \in Conns \cup {None}, sql \in Texts : Open(TabFor(c, sql))
    BY <1>8 DEF HistoryPanel, PickHistory
  <2> QED
    BY <2>1, RunningFresh
<1>9. CASE ProdGate
  <2>1. CASE Execute /\ gate.tab \in Ids
    <3>1. PICK t, i : t = TabOf(i) /\ i = gate.tab
      OBVIOUS
    <3>2. t.id = i /\ Send(t, gate.sql, "typed") /\ PatchTab(i, Started)
      BY <2>1, <3>1, TabOfIs DEF Execute
    <3> QED
      BY <3>2, RunningStarts
  <2> QED
    BY <1>9, <2>1, RunningAside DEF ProdGate, Execute, TypeName, CancelGate
<1>10. CASE Answers
  <2>1. ASSUME NEW i \in generating, Generated(i) PROVE RunningHasAQuery'
    BY <2>1, RunningTyped DEF Generated
  <2> QED
    BY <1>10, <2>1, RunningAside, RunningView, RunningAnswered, RunningFailed
       DEF Answers, ConnectionsLoaded, DeepLink
<1>11. CASE UNCHANGED vars
  BY <1>11, RunningAside DEF vars
<1> QED
  BY <1>1, <1>2, <1>3, <1>5, <1>6, <1>7, <1>8, <1>9, <1>10, <1>11 DEF Next

-----------------------------------------------------------------------------
(* The theorems.                                                             *)

\* Every step of the page keeps the invariant.
LEMMA PageStep ==
  ASSUME WorkspaceAssumption, PageInv, [Next]_vars
  PROVE  PageInv'
<1>1. CASE Navigator
  <2>1. ASSUME NEW c \in Conns, Open(TabFor(c, "")), generating' = generating
        PROVE  PageInv'
    BY <2>1, FreshOpens DEF Texts
  <2>2. ASSUME NEW c \in Conns, ViewData(c), deepLinked' = deepLinked
        PROVE  PageInv'
    BY <2>2, ViewDataKeeps DEF PageInv, RestInv
  <2>3. ASSUME NEW c \in Conns, Generate(c) PROVE PageInv'
    BY <2>3, FreshOpens DEF Generate, Texts
  <2>4. CASE Redis
    BY <2>4, TabsAsideKeeps
  <2> QED
    BY <1>1, <2>1, <2>2, <2>3, <2>4 DEF Navigator, OpenEditor, View
<1>2. CASE TabBar
  <2>1. CASE OpenBlank
    BY <2>1, FreshOpens DEF OpenBlank, Texts
  <2> QED
    BY <1>2, <2>1, SelectKeeps, CloseTabKeeps DEF TabBar
<1>3. CASE TabMenu
  BY <1>3, CloseAllKeeps, CloseTabKeeps, KeepTabsKeeps DEF TabMenu
<1>4. ASSUME NEW sql \in Texts, Edit(sql) PROVE PageInv'
  BY <1>4, EditKeeps DEF Edit, TabsOnly
<1>5. CASE Toolbar
  BY <1>4, <1>5, RunKeeps, OpenFileKeeps, PickConnectionKeeps DEF Toolbar
<1>6. CASE Editor
  BY <1>4, <1>6, RunKeeps DEF Editor
<1>7. CASE ResultGrid
  BY <1>7, FetchAllKeeps DEF ResultGrid
<1>8. CASE HistoryPanel
  <2>1. PICK c \in Conns \cup {None}, sql \in Texts : Open(TabFor(c, sql))
    BY <1>8 DEF HistoryPanel, PickHistory
  <2>2. generating' = generating
    BY <1>8 DEF HistoryPanel, PickHistory
  <2> QED
    BY <2>1, <2>2, FreshOpens
<1>9. CASE ProdGate
  BY <1>9, ExecuteKeeps, TabsAsideKeeps DEF ProdGate
<1>10. CASE DeepLink
  <2>1. deepLinked' \in BOOLEAN
    BY <1>10 DEF DeepLink
  <2>2. CASE UNCHANGED <<known, tabs, tabSeq, activeId, gate, typed, flying, sent, generating, redis>>
    <3>1. TabsInv' /\ StillAgrees /\ tabSeq <= tabSeq'
      BY <2>2, TabsStay DEF PageInv, TabsInv
    <3>2. ActiveInv' /\ RestInv'
      BY <2>1, <2>2 DEF PageInv, ActiveInv, RestInv, Ids
    <3> QED
      BY <2>2, <3>1, <3>2, OnlyTabs
  <2> QED
    BY <1>10, <2>1, <2>2, ViewDataKeeps DEF DeepLink
<1>11. CASE Answers
  BY <1>10, <1>11, TabsAsideKeeps, AnsweredKeeps, FailedKeeps, GeneratedKeeps DEF Answers
<1>12. CASE UNCHANGED vars
  <2>1. TabsInv' /\ StillAgrees /\ tabSeq <= tabSeq'
    BY <1>12, TabsStay DEF PageInv, TabsInv, vars
  <2>2. ActiveInv' /\ RestInv'
    BY <1>12 DEF PageInv, ActiveInv, RestInv, Ids, vars
  <2> QED
    BY <1>12, <2>1, <2>2, OnlyTabs DEF vars
<1> QED
  BY <1>1, <1>2, <1>3, <1>5, <1>6, <1>7, <1>8, <1>9, <1>11, <1>12 DEF Next

\* The invariant holds from the first state on.
LEMMA PageInvariant ==
  ASSUME WorkspaceAssumption
  PROVE  Spec => []PageInv
<1>1. Init => PageInv
  <2> SUFFICES ASSUME Init PROVE PageInv
    OBVIOUS
  <2>1. tabs = << >> /\ Range(tabs) = {}
    BY DEF Init, Range
  <2>2. TabsInv /\ ActiveInv
    BY <2>1 DEF Init, TabsInv, ActiveInv, Ids, WorkspaceAssumption
  <2>3. NoGate \in [tab : 0 .. tabSeq, sql : Texts, conn : Conns \cup {None}]
    <3>1. 0 \in 0 .. tabSeq /\ "" \in Texts /\ None \in Conns \cup {None}
      BY DEF Init, Texts
    <3> QED
      BY <3>1 DEF NoGate
  <2>4. GateInv /\ QueryInv /\ TypedForWhatRuns
    BY <2>3 DEF Init, GateInv, QueryInv, TypedForWhatRuns
  <2>5. RestInv
    <3>1. sent \in 0 .. MaxQueries /\ generating = {}
      BY DEF Init, WorkspaceAssumption
    <3>2. {known, deepLinked, typed, redis} \subseteq BOOLEAN
      BY DEF Init
    <3> QED
      BY <3>1, <3>2 DEF RestInv
  <2> QED
    BY <2>2, <2>4, <2>5 DEF PageInv
<1>2. PageInv /\ [Next]_vars => PageInv'
  BY PageStep
<1> QED
  BY <1>1, <1>2, PTL DEF Spec

\* The tabs, the gate and the counters have their types, and the tab in
\* front is an open one (the tab bar of db-workspace.tsx).
THEOREM PageTypes ==
  ASSUME WorkspaceAssumption
  PROVE  Spec => []TypeOK
<1>1. PageInv => TypeOK
  <2> SUFFICES ASSUME PageInv PROVE TypeOK
    OBVIOUS
  <2>1. {known, deepLinked, typed, redis} \subseteq BOOLEAN /\ sent \in 0 .. MaxQueries
        /\ generating \subseteq 1 .. tabSeq /\ tabSeq \in 0 .. MaxTabs
    BY DEF PageInv, RestInv, TabsInv
  <2>2. activeId \in IF tabs = << >> THEN {0} ELSE {t.id : t \in Range(tabs)}
    <3>1. CASE tabs = << >>
      BY <3>1 DEF PageInv, ActiveInv, Ids, Range
    <3>2. CASE tabs # << >>
      <4>1. tabs[1] \in Range(tabs)
        BY <3>2 DEF PageInv, TabsInv, Range
      <4> QED
        BY <3>2, <4>1 DEF PageInv, ActiveInv, Ids
    <3> QED
      BY <3>1, <3>2
  <2>3. ASSUME NEW t \in Range(tabs)
        PROVE  /\ t.id \in 1 .. tabSeq /\ t.sql \in Texts
               /\ t.conn \in Conns \cup {None}
               /\ t.result = NoResult \/ t.result \in [conn : Conns, sql : Texts]
               /\ {t.prod, t.failed, t.running} \subseteq BOOLEAN
    <3>1. t \in Recs /\ Good(t) /\ t.id \in 1 .. tabSeq
      BY DEF PageInv, TabsInv, Range
    <3>2. /\ t.sql \in Texts /\ t.conn \in Conns \cup {None}
          /\ t.result \in [conn : Conns \cup {None}, sql : Texts]
          /\ {t.prod, t.failed, t.running} \subseteq BOOLEAN
      BY <3>1 DEF Recs
    <3>3. t.result # NoResult => t.result.conn \in Conns
      BY <3>1 DEF Good
    <3> QED
      BY <3>1, <3>2, <3>3
  <2>4. gate.tab \in 0 .. tabSeq
    BY DEF PageInv, GateInv
  <2> QED
    BY <2>1, <2>2, <2>3, <2>4 DEF TypeOK
<1> QED
  BY <1>1, PageInvariant, PTL

\* No destructive statement that goes through runTab reaches a production
\* connection unless its name was typed for that very connection
\* (db-workspace.tsx, runTab and the gate's Execute).
THEOREM ProductionIsTypedFor ==
  ASSUME WorkspaceAssumption
  PROVE  Spec => []TypedForWhatRuns
<1>1. PageInv => TypedForWhatRuns
  BY DEF PageInv
<1> QED
  BY <1>1, PageInvariant, PTL

\* A tab shows rows of the connection it names (execute, fetchAll and the
\* connection picker of db-workspace.tsx).
THEOREM ResultsAreOfTheirConnection ==
  ASSUME WorkspaceAssumption
  PROVE  Spec => []ResultIsOfItsConnection
<1>1. PageInv => ResultIsOfItsConnection
  BY DEF PageInv, TabsInv, Good, ResultIsOfItsConnection
<1> QED
  BY <1>1, PageInvariant, PTL

\* A tab that says it is running has a statement under way: neither an answer for
\* another tab, nor closing, nor running again takes its answer away
\* (execute and fetchAll of db-workspace.tsx).
THEOREM RunningTabsAreAnswered ==
  ASSUME WorkspaceAssumption
  PROVE  Spec => []RunningHasAQuery
<1>1. Init => RunningHasAQuery
  BY DEF Init, RunningHasAQuery, Range
<1>2. PageInv /\ RunningHasAQuery /\ [Next]_vars => RunningHasAQuery'
  BY RunningStep
<1> QED
  BY <1>1, <1>2, PageInvariant, PTL DEF Spec
=============================================================================
