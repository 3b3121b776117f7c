--------------------------- MODULE ShellWorkspace ---------------------------
(***************************************************************************)
(* The tabs of the shell workspace (frontend/components/shell-panel.tsx):   *)
(* every tab owns one ShellSessionView, whose effect loads xterm, opens a    *)
(* websocket and registers an api object; the panel above it keeps the tab   *)
(* list, the split layout, the focused tab and the status of each tab.       *)
(*                                                                          *)
(* A handler, the render it causes and the effects of that render are one    *)
(* step: React flushes them before the next click. What comes from outside - *)
(* the dynamic import, the socket's events, the timer - are steps of their   *)
(* own and interleave with the clicks.                                       *)
(*                                                                          *)
(* makeSession numbers the tabs and commit only appends or filters, so the    *)
(* order of the tab list is the order of the keys and the list is a set.     *)
(***************************************************************************)
EXTENDS Integers, FiniteSets

CONSTANTS Hosts,      \* servers a tab may be opened against
          First,      \* the host the workspace was opened for
          MaxTabs     \* bound: tabs opened in the life of one workspace

ASSUME WorkspaceAssumption == /\ First \in Hosts
                              /\ MaxTabs \in Nat \ {0}

Keys  == 1 .. MaxTabs
NoKey == 0

VARIABLES
  counter,   \* counter.current: keys handed out so far
  live,      \* sessions: the keys of the open tabs; {} once the panel is gone
  host,      \* the server of each key
  label,     \* the number behind the hostname in the tab's label, 1 for none
  active,    \* activeKey
  layout,    \* <<>> for mode "single", the two keys for mode "split"
  phase,     \* statuses[key].phase; "none" where there is no entry
  socket,    \* the websocket behind each key
  initial,   \* the initial command: unsent, armed (timer runs), ran, lost
  requested, \* requested.current: the host the parent asked for last
  repaired   \* observed only: an effect had to repair what a handler left

tabVars == <<counter, host, label>>
wsVars  == <<live, active, layout, repaired>>
vars    == <<counter, live, host, label, active, layout, phase, socket,
             initial, requested, repaired>>

Phases  == {"none", "open", "closed", "error"}
\* hungup: closed by this side; ended: closed, refused or lost by the other
Sockets == {"none", "loading", "connecting", "open", "hungup", "ended"}

TypeOK ==
  /\ counter \in 0 .. MaxTabs
  /\ live \subseteq 1 .. counter
  /\ host \in [Keys -> Hosts]
  /\ label \in [Keys -> Nat]
  /\ active \in 0 .. MaxTabs
  /\ layout \in {<<>>} \cup (Keys \X Keys)
  /\ phase \in [Keys -> Phases]
  /\ socket \in [Keys -> Sockets]
  /\ initial \in {"unsent", "armed", "ran", "lost"}
  /\ requested \in Hosts
  /\ repaired \in BOOLEAN

-----------------------------------------------------------------------------
(* What the render derives from the state.                                   *)

FirstOf(S) == CHOOSE k \in S : \A j \in S : k <= j
Shown(lay) == {lay[i] : i \in DOMAIN lay}

Resolved(lv, act) == IF act \in lv THEN act
                     ELSE IF lv = {} THEN NoKey ELSE FirstOf(lv)

InSplit(lv, lay) == lay # <<>> /\ Shown(lay) \subseteq lv

FocusOf(lv, lay, act) ==
  IF InSplit(lv, lay) /\ Resolved(lv, act) \notin Shown(lay)
  THEN lay[1] ELSE Resolved(lv, act)

Focused == FocusOf(live, layout, active)

\* registered by the session's effect, once its socket exists
Registered(k, lv, sk) == k \in lv /\ sk[k] \notin {"none", "loading"}

\* nextLabel: the lowest number that no open tab of the host has.
IsNextLabel(n, h) ==
  LET taken == {label[k] : k \in {j \in live : host[j] = h}}
  IN n \notin taken /\ \A i \in 1 .. n - 1 : i \in taken

\* The two converging effects run after every render; a handler that leaves
\* nothing for them to do has set a sound pair of layout and activeKey itself.
Settle(lv, lay, act) ==
  LET sound == IF lay = <<>> \/ InSplit(lv, lay) THEN lay ELSE <<>>
  IN /\ live' = lv
     /\ layout' = sound
     /\ active' = IF lv = {} THEN act ELSE FocusOf(lv, sound, act)
     /\ repaired' = (lv # {} /\ (sound # lay \/ act # FocusOf(lv, lay, act)))

\* The effect of the initial command depends on the status map: every new map
\* first clears a running timer, and the body then returns because it was sent.
InitialEffect(ph, sk, lv) ==
  initial' = IF initial = "armed" THEN "lost"
             ELSE IF initial = "unsent" /\ ph[1] = "open" /\ Registered(1, lv, sk)
             THEN "armed" ELSE initial

\* makeSession: the next key, with a label no open tab has.
MakeSession(h) ==
  /\ counter < MaxTabs
  /\ counter' = counter + 1
  /\ host' = [host EXCEPT ![counter + 1] = h]
  /\ \E n \in 1 .. MaxTabs : /\ IsNextLabel(n, h)
                             /\ label' = [label EXCEPT ![counter + 1] = n]
  /\ socket' = [socket EXCEPT ![counter + 1] = "loading"]

Init ==
  /\ counter = 1
  /\ live = {1}
  /\ host = [k \in Keys |-> First]
  /\ label = [k \in Keys |-> 1]
  /\ active = 1
  /\ layout = <<>>
  /\ phase = [k \in Keys |-> "none"]
  /\ socket = [k \in Keys |-> IF k = 1 THEN "loading" ELSE "none"]
  /\ initial = "unsent"
  /\ requested = First
  /\ repaired = FALSE

-----------------------------------------------------------------------------
(* One session: its effect and its socket.                                   *)

\* Mutant: disposed is not looked at after the import.
StartAnyway(k) ==
  /\ socket[k] = "loading"
  /\ socket' = [socket EXCEPT ![k] = "connecting"]
  /\ UNCHANGED <<tabVars, wsVars, phase, initial, requested>>

\* The dynamic import of xterm answers. A tab closed meanwhile is disposed and
\* gets no socket; otherwise the socket is opened and the api registered.
Start(k) ==
  /\ socket[k] = "loading"
  /\ socket' = [socket EXCEPT ![k] = IF k \in live THEN "connecting" ELSE "none"]
  /\ UNCHANGED <<tabVars, wsVars, phase, initial, requested>>

\* The import fails: the catch reports it without looking at disposed.
StartFails(k) ==
  /\ socket[k] = "loading"
  /\ socket' = [socket EXCEPT ![k] = "none"]
  /\ phase' = [phase EXCEPT ![k] = IF live = {} THEN @ ELSE "error"]
  /\ InitialEffect(phase', socket', live)
  /\ UNCHANGED <<tabVars, wsVars, requested>>

Opened(k) ==
  /\ socket[k] = "connecting"
  /\ socket' = [socket EXCEPT ![k] = "open"]
  /\ phase' = [phase EXCEPT ![k] = "open"]
  /\ InitialEffect(phase', socket', live)
  /\ UNCHANGED <<tabVars, wsVars, requested>>

\* onclose. A network failure raises onerror and then onclose in one task, and
\* the close code decides what is left: our 44xx refusals are errors.
Ended(k, refused) ==
  /\ socket[k] \in {"connecting", "open"}
  /\ socket' = [socket EXCEPT ![k] = "ended"]
  /\ phase' = [phase EXCEPT ![k] = IF refused THEN "error" ELSE "closed"]
  /\ InitialEffect(phase', socket', live)
  /\ UNCHANGED <<tabVars, wsVars, requested>>

\* 300 ms after the first shell went live.
InitialTimer ==
  /\ initial = "armed"
  /\ initial' = IF socket[1] = "open" THEN "ran" ELSE "lost"
  /\ UNCHANGED <<tabVars, wsVars, phase, socket, requested>>

-----------------------------------------------------------------------------
(* The tab strip.                                                            *)

\* Mutant: a tab that is not shown is focused behind the split.
SwappedNever(k) == layout

\* The slot of the split the focused tab has, replaced by k.
Swapped(k) ==
  IF layout = <<>> THEN layout
  ELSE IF Focused = layout[2] THEN <<layout[1], k>> ELSE <<k, layout[2]>>

ActivateSession(k) ==
  /\ k \in live
  /\ Settle(live, IF k \in Shown(layout) THEN layout ELSE Swapped(k), k)
  /\ UNCHANGED <<tabVars, phase, socket, initial, requested>>

OpenAgainst(h) ==
  /\ MakeSession(h)
  /\ Settle(live \cup {counter + 1}, Swapped(counter + 1), counter + 1)
  /\ UNCHANGED <<phase, initial>>

\* New tab, the host picker, Duplicate tab and "New session on ..." all come
\* to openSession with some host.
OpenSession(h) ==
  /\ live # {}
  /\ OpenAgainst(h)
  /\ UNCHANGED requested

\* The parent asks for another host: a new tab, never a replaced workspace.
RequestHost(h) ==
  /\ live # {}
  /\ h # requested
  /\ requested' = h
  /\ OpenAgainst(h)

\* Unmounting a view disposes it and closes its socket; one that is still
\* loading finds disposed set and creates none.
HangUp(gone) ==
  [k \in Keys |-> IF k \in gone /\ socket[k] \in {"connecting", "open"}
                  THEN "hungup" ELSE socket[k]]

\* j takes the focus from k: the tab now at the index k had, or the last one.
IsNeighbour(j, k, rest) ==
  IF \E i \in rest : i > k THEN j > k /\ \A i \in rest : i > k => j <= i
                            ELSE \A i \in rest : i <= j

\* What is left of the strip once k is closed: either half of a split drops
\* back to single with the other half focused.
LayoutWithout(k) == IF k \in Shown(layout) THEN <<>> ELSE layout
OtherHalf(k)     == IF k = layout[1] THEN layout[2] ELSE layout[1]

\* Mutant: the focus moves to a neighbour whichever tab is closed.
ActiveAfterAlways(k, j, rest) == j

ActiveAfter(k, j, rest) ==
  IF k \in Shown(layout) /\ OtherHalf(k) \in rest THEN OtherHalf(k)
  ELSE IF k = Focused THEN j ELSE active

CloseSession(k) ==
  /\ k \in live
  /\ LET rest == live \ {k}
     IN IF rest = {}
        THEN Settle({}, <<>>, active)
        ELSE \E j \in rest :
               /\ IsNeighbour(j, k, rest)
               /\ Settle(rest, LayoutWithout(k), ActiveAfter(k, j, rest))
  /\ socket' = HangUp({k})
  /\ phase' = [phase EXCEPT ![k] = "none"]
  /\ InitialEffect(phase', socket', live')
  /\ UNCHANGED <<tabVars, requested>>

\* Offered by the tab menu only where there are two tabs.
CloseOtherSessions(k) ==
  /\ k \in live
  /\ Cardinality(live) >= 2
  /\ Settle({k}, <<>>, k)
  /\ socket' = HangUp(live \ {k})
  /\ phase' = [j \in Keys |-> IF j = k THEN phase[j] ELSE "none"]
  /\ InitialEffect(phase', socket', live')
  /\ UNCHANGED <<tabVars, requested>>

\* "Close all": every socket, and onClose makes the parent drop the panel.
CloseWorkspace ==
  /\ live # {}
  /\ Settle({}, <<>>, active)
  /\ socket' = HangUp(live)
  /\ initial' = IF initial = "armed" THEN "lost" ELSE initial
  /\ UNCHANGED <<tabVars, phase, requested>>

\* Ordered by the tab strip, so a pair always lands the same way round.
Pair(j, k) == IF j < k THEN <<j, k>> ELSE <<k, j>>

SplitWithPartner(k) ==
  /\ k \in live
  /\ Cardinality(live) >= 2
  /\ \E partner \in live \ {k} :
       /\ IF Focused # k THEN partner = Focused
          ELSE \A j \in live \ {k} : partner <= j
       /\ Settle(live, Pair(k, partner), k)
  /\ UNCHANGED <<tabVars, phase, socket, initial, requested>>

\* With one tab the only sensible partner is a second session on its host.
SplitWithDuplicate(k) ==
  /\ live = {k}
  /\ MakeSession(host[k])
  /\ Settle(live \cup {counter + 1}, <<k, counter + 1>>, k)
  /\ UNCHANGED <<phase, initial, requested>>

\* "Split" in the toolbar and "Split with this tab" in a tab's menu; a tab
\* that is already shown in the split is offered "Exit split" instead.
SplitWith(k) ==
  /\ ~(InSplit(live, layout) /\ k \in Shown(layout))
  /\ SplitWithPartner(k) \/ SplitWithDuplicate(k)

LeaveSplit(k) ==
  /\ InSplit(live, layout) /\ k \in Shown(layout)
  /\ Settle(live, <<>>, k)
  /\ UNCHANGED <<tabVars, phase, socket, initial, requested>>

-----------------------------------------------------------------------------
User ==
  \/ \E k \in live : \/ ActivateSession(k) \/ CloseSession(k)
                     \/ CloseOtherSessions(k)
                     \/ SplitWith(k) \/ LeaveSplit(k)
  \/ \E h \in Hosts : OpenSession(h) \/ RequestHost(h)
  \/ CloseWorkspace

Outside ==
  \/ \E k \in Keys : \/ Start(k) \/ StartFails(k) \/ Opened(k)
                     \/ \E refused \in BOOLEAN : Ended(k, refused)
  \/ InitialTimer

Next == User \/ Outside

Spec == Init /\ [][Next]_vars

-----------------------------------------------------------------------------
(* Properties.                                                               *)

\* A connection belongs to exactly one open tab: no socket outlives its tab,
\* whether it was closed before, while or after the import answered, and no
\* tab that is kept has had its socket closed by this side.
TabOwnsItsSocket ==
  \A k \in Keys : /\ socket[k] \in {"connecting", "open"} => k \in live
                  /\ k \in live => socket[k] # "hungup"

\* Handlers keep layout and activeKey sound themselves: two distinct open tabs
\* in a split, the focused one among them, so the converging effects of the
\* render never have to repair a frame with an empty pane or a stale focus.
NothingToRepair == ~repaired

\* What the chip of an open tab says is what its connection is doing.
PhaseIsTrue ==
  \A k \in live : /\ phase[k] = "open" <=> socket[k] = "open"
                  /\ phase[k] = "closed" => socket[k] = "ended"

\* No two open tabs carry the same label, also after an earlier one was closed.
LabelsAreDistinct ==
  \A j, k \in live : j # k => host[j] # host[k] \/ label[j] # label[k]

\* Closing a tab that has not the keyboard leaves the keyboard where it is.
KeyboardStays ==
  [][\A k \in live : CloseSession(k) /\ k # Focused => Focused' = Focused]_vars

=============================================================================
