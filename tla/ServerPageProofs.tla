--------------------------- MODULE ServerPageProofs ---------------------------
(***************************************************************************)
(* Theorems about the page of one server and what it opens, for any hosts,      *)
(* operations, names and directories. Each part is proved about on its own,      *)
(* from its own initial states and steps; ServerPage runs one part at a time,     *)
(* and so has what each of them has.                                          *)
(***************************************************************************)
EXTENDS ServerPage, FiniteSetTheorems, TLAPS

pageVars == <<part, detail, war, vars, sftp>>

\* A behaviour of the page is one of every part: of the one that moves, and of
\* those that stay where they start.
LEMMA PartsOfPage ==
  PageSpec => Spec /\ Detail!Spec /\ War!Spec /\ Sftp!Spec
<1>1. PageInit => Init /\ Detail!Init /\ War!Init /\ Sftp!Init
  BY DEF PageInit
<1>2. [PageNext]_pageVars =>
        /\ [Next]_vars /\ [Detail!Next]_(Detail!vars) /\ [War!Next]_(War!vars)
        /\ [Sftp!Next]_(Sftp!vars)
  BY DEF PageNext, pageVars, vars, detail, war, sftp, Detail!vars, Detail!pane,
         War!vars, War!host, War!probe, War!form, Sftp!vars, Sftp!pane
<1> QED
  BY <1>1, <1>2, PTL
  DEF PageSpec, pageVars, Spec, Detail!Spec, War!Spec, Sftp!Spec

-----------------------------------------------------------------------------
(* The tabs of the shell workspace. The inductive invariant is in three parts:    *)
(* the split and the focus (Sound), which need nothing else; the sockets (Owned),  *)
(* which need that keys not handed out yet have none; and the labels.             *)

\* The focused tab is open; a split shows two open tabs, the focused among them.
IsSound(lv, lay, act) ==
  lv # {} => /\ act \in lv
             /\ lay # <<>> => /\ lay \in lv \X lv
                              /\ lay[1] # lay[2]
                              /\ act \in {lay[1], lay[2]}

Sound == /\ live \subseteq Keys
         /\ IsSound(live, layout, active)
         /\ live = {} => layout = <<>>
         /\ repaired = FALSE

\* Keys that were not handed out are untouched.
Unused == /\ counter \in 0 .. MaxTabs
          /\ live \subseteq 1 .. counter
          /\ \A k \in Keys : k > counter => socket[k] = "none" /\ phase[k] = "none"

-----------------------------------------------------------------------------
(* Splits and focus.                                                         *)

\* The panes of a split are its two keys.
LEMMA ShownOfPair ==
  ASSUME NEW S, NEW lay \in S \X S
  PROVE  lay # <<>> /\ Shown(lay) = {lay[1], lay[2]}
  BY DEF Shown

\* No split, no panes.
LEMMA ShownOfNone == Shown(<<>>) = {}
  BY DEF Shown

\* A handler that leaves a sound pair of layout and focus gets just that pair,
\* and nothing is repaired.
LEMMA SettleKeeps ==
  ASSUME NEW lv \in SUBSET Keys, NEW lay, NEW act,
         IsSound(lv, lay, act), lv = {} => lay = <<>>,
         Settle(lv, lay, act)
  PROVE  live' = lv /\ layout' = lay /\ active' = act /\ repaired' = FALSE
<1>1. CASE lv = {}
  BY <1>1 DEF Settle
<1>2. CASE lv # {} /\ lay = <<>>
  BY <1>2, ShownOfNone DEF Settle, IsSound, InSplit, FocusOf, Resolved
<1>3. CASE lv # {} /\ lay # <<>>
  <2>1. act \in lv /\ lay \in lv \X lv /\ act \in {lay[1], lay[2]}
    BY <1>3 DEF IsSound
  <2>2. Shown(lay) = {lay[1], lay[2]} /\ Shown(lay) \subseteq lv
    BY <2>1, ShownOfPair
  <2> QED
    BY <1>3, <2>1, <2>2 DEF Settle, InSplit, FocusOf, Resolved
<1> QED
  BY <1>1, <1>2, <1>3

\* In a sound workspace the tab with the keyboard is activeKey's.
LEMMA FocusIsActive ==
  ASSUME NEW lv, NEW lay, NEW act, lv # {}, IsSound(lv, lay, act)
  PROVE  FocusOf(lv, lay, act) = act
<1>1. CASE lay = <<>>
  BY <1>1, ShownOfNone DEF IsSound, FocusOf, Resolved, InSplit
<1>2. CASE lay # <<>>
  <2>1. lay \in lv \X lv /\ act \in {lay[1], lay[2]} /\ act \in lv
    BY <1>2 DEF IsSound
  <2>2. Shown(lay) = {lay[1], lay[2]}
    BY <2>1, ShownOfPair
  <2> QED
    BY <2>1, <2>2 DEF FocusOf, Resolved, InSplit
<1> QED
  BY <1>1, <1>2

\* Putting a tab that is not shown into the slot of the focused one keeps a split
\* of two different tabs with that one in front.
LEMMA SwappedSound ==
  ASSUME Sound, live # {}, NEW k, k \notin Shown(layout),
         NEW lv, live \subseteq lv, k \in lv
  PROVE  IsSound(lv, Swapped(k), k)
<1>1. CASE layout = <<>>
  BY <1>1 DEF Swapped, IsSound
<1>2. CASE layout # <<>>
  <2>1. layout \in live \X live /\ layout[1] # layout[2]
    BY <1>2 DEF Sound, IsSound
  <2>2. k # layout[1] /\ k # layout[2]
    BY <2>1, ShownOfPair
  <2> QED
    BY <1>2, <2>1, <2>2 DEF Swapped, IsSound
<1> QED
  BY <1>1, <1>2

\* A tab just opened is in no split, and takes the focus.
LEMMA OpenKeeps ==
  ASSUME Unused, Sound, live # {}, NEW h, OpenAgainst(h)
  PROVE  Sound'
<1> DEFINE new == counter + 1
<1>1. new \in Keys /\ new \notin live
  BY WorkspaceAssumption DEF OpenAgainst, MakeSession, Unused, Keys
<1>2. new \notin Shown(layout)
  BY <1>1, ShownOfNone, ShownOfPair DEF Sound, IsSound
<1>3. IsSound(live \cup {new}, Swapped(new), new)
  BY <1>2, SwappedSound
<1>4. live \cup {new} \in SUBSET Keys
  BY <1>1 DEF Sound
<1>5. Settle(live \cup {new}, Swapped(new), new)
  BY DEF OpenAgainst
<1> QED
  BY <1>3, <1>4, <1>5, SettleKeeps DEF Sound

\* What is left of the strip when a tab is closed.
LEMMA CloseLeaves ==
  ASSUME Sound, NEW k \in live, NEW j \in live \ {k}
  PROVE  IsSound(live \ {k}, LayoutWithout(k), ActiveAfter(k, j, live \ {k}))
<1> DEFINE rest == live \ {k}
<1>1. Focused = active /\ active \in live
  BY FocusIsActive DEF Sound, IsSound, Focused
<1>2. CASE layout = <<>>
  BY <1>1, <1>2, ShownOfNone DEF LayoutWithout, ActiveAfter, IsSound
<1>3. CASE layout # <<>>
  <2>1. /\ layout \in live \X live /\ layout[1] # layout[2]
        /\ active \in {layout[1], layout[2]}
    BY <1>3 DEF Sound, IsSound
  <2>2. Shown(layout) = {layout[1], layout[2]}
    BY <2>1, ShownOfPair
  <2>3. CASE k \in Shown(layout)
    BY <2>1, <2>2, <2>3 DEF LayoutWithout, ActiveAfter, OtherHalf, IsSound
  <2>4. CASE k \notin Shown(layout)
    <3>1. LayoutWithout(k) = layout /\ ActiveAfter(k, j, rest) = active
      BY <1>1, <2>1, <2>2, <2>4 DEF LayoutWithout, ActiveAfter
    <3>2. layout \in rest \X rest /\ active \in rest
      BY <2>1, <2>2, <2>4
    <3> QED
      BY <2>1, <3>1, <3>2 DEF IsSound
  <2> QED
    BY <2>3, <2>4
<1> QED
  BY <1>2, <1>3

\* Every handler leaves a sound pair of layout and focus; what comes from outside
\* leaves both alone.
LEMMA SoundStep == Unused /\ Sound /\ [Next]_vars => Sound'
<1> SUFFICES ASSUME Unused, Sound, [Next]_vars PROVE Sound'
  OBVIOUS
<1>a. ASSUME NEW lv \in SUBSET Keys, NEW lay, NEW act,
             IsSound(lv, lay, act), lv = {} => lay = <<>>, Settle(lv, lay, act)
      PROVE  Sound'
  BY <1>a, SettleKeeps DEF Sound
<1>b. live \subseteq Keys
  BY DEF Sound
<1>1. ASSUME NEW k \in live, ActivateSession(k) PROVE Sound'
  <2>1. CASE k \in Shown(layout)
    <3>1. Settle(live, layout, k)
      BY <1>1, <2>1 DEF ActivateSession
    <3>2. IsSound(live, layout, k)
      BY <2>1, ShownOfNone, ShownOfPair DEF Sound, IsSound
    <3> QED
      BY <1>a, <1>b, <3>1, <3>2
  <2>2. CASE k \notin Shown(layout)
    <3>1. Settle(live, Swapped(k), k)
      BY <1>1, <2>2 DEF ActivateSession
    <3>2. IsSound(live, Swapped(k), k)
      BY <2>2, SwappedSound
    <3> QED
      BY <1>a, <1>b, <3>1, <3>2
  <2> QED
    BY <2>1, <2>2
<1>2. ASSUME NEW k \in live, CloseSession(k) PROVE Sound'
  <2>1. CASE live \ {k} = {}
    <3>1. Settle({}, <<>>, active)
      BY <1>2, <2>1 DEF CloseSession
    <3> QED
      BY <1>a, <3>1 DEF IsSound
  <2>2. CASE live \ {k} # {}
    <3>1. PICK j \in live \ {k} :
            Settle(live \ {k}, LayoutWithout(k), ActiveAfter(k, j, live \ {k}))
      BY <1>2, <2>2 DEF CloseSession
    <3> QED
      BY <1>a, <1>b, <2>2, <3>1, CloseLeaves
  <2> QED
    BY <2>1, <2>2
<1>3. ASSUME NEW k \in live, CloseOtherSessions(k) PROVE Sound'
  BY <1>a, <1>b, <1>3 DEF CloseOtherSessions, IsSound
<1>4. ASSUME NEW k \in live, SplitWith(k) PROVE Sound'
  <2>1. CASE SplitWithPartner(k)
    <3>1. PICK partner \in live \ {k} : Settle(live, Pair(k, partner), k)
      BY <2>1 DEF SplitWithPartner
    <3>2. IsSound(live, Pair(k, partner), k)
      BY DEF Pair, IsSound
    <3> QED
      BY <1>a, <1>b, <3>1, <3>2
  <2>2. CASE SplitWithDuplicate(k)
    <3>1. counter + 1 \in Keys /\ counter + 1 \notin live
      BY <2>2, WorkspaceAssumption DEF SplitWithDuplicate, MakeSession, Unused, Keys
    <3>2. IsSound(live \cup {counter + 1}, <<k, counter + 1>>, k)
      BY <3>1 DEF IsSound
    <3>3. Settle(live \cup {counter + 1}, <<k, counter + 1>>, k)
      BY <2>2 DEF SplitWithDuplicate
    <3>4. live \cup {counter + 1} \in SUBSET Keys
      BY <1>b, <3>1
    <3> QED
      BY <1>a, <3>2, <3>3, <3>4
  <2> QED
    BY <1>4, <2>1, <2>2 DEF SplitWith
<1>5. ASSUME NEW k \in live, LeaveSplit(k) PROVE Sound'
  BY <1>a, <1>b, <1>5 DEF LeaveSplit, IsSound
<1>6. ASSUME NEW h \in Hosts, OpenSession(h) \/ RequestHost(h) PROVE Sound'
  BY <1>6, OpenKeeps DEF OpenSession, RequestHost
<1>7. CASE CloseWorkspace
  BY <1>a, <1>7 DEF CloseWorkspace, IsSound
<1>8. CASE Outside \/ UNCHANGED vars
  <2>1. UNCHANGED wsVars
    BY <1>8 DEF Outside, Start, StartFails, Opened, Ended, InitialTimer, vars, wsVars
  <2> QED
    BY <2>1 DEF wsVars, Sound, IsSound
<1> QED
  BY <1>1, <1>2, <1>3, <1>4, <1>5, <1>6, <1>7, <1>8 DEF Next, User

-----------------------------------------------------------------------------
(* Sockets and the chips of the tabs.                                        *)

\* What the sockets and the status map are, key by key.
Owned == /\ socket \in [Keys -> Sockets] /\ phase \in [Keys -> Phases]
         /\ TabOwnsItsSocket
         /\ PhaseIsTrue

\* A key is handed out once, with nothing of an earlier tab behind it.
LEMMA NewKey ==
  ASSUME Unused, NEW h, MakeSession(h)
  PROVE  /\ counter + 1 \in Keys /\ counter + 1 \notin live
         /\ counter' = counter + 1 /\ counter' \in 0 .. MaxTabs
         /\ socket[counter + 1] = "none" /\ phase[counter + 1] = "none"
  BY WorkspaceAssumption DEF MakeSession, Unused, Keys

\* A tab that opens has a key of its own, whose library is loading.
LEMMA OpenOwns ==
  ASSUME Unused, Owned, NEW h, MakeSession(h),
         live' = live \cup {counter + 1}, UNCHANGED phase
  PROVE  Unused' /\ Owned'
<1>1. /\ counter + 1 \in Keys /\ counter + 1 \notin live
      /\ counter' = counter + 1 /\ counter' \in 0 .. MaxTabs
      /\ phase[counter + 1] = "none"
  BY NewKey
<1>2. socket' = [socket EXCEPT ![counter + 1] = "loading"]
  BY DEF MakeSession
<1>3. Unused'
  BY <1>1, <1>2, WorkspaceAssumption DEF Unused, Owned, Keys
<1> QED
  BY <1>1, <1>2, <1>3 DEF Owned, TabOwnsItsSocket, PhaseIsTrue, Sockets

\* Closing some of the tabs hangs up on just those; the chips of the others stay.
LEMMA CloseOwns ==
  ASSUME Unused, Owned, NEW gone \in SUBSET live,
         live' = live \ gone, socket' = HangUp(gone), UNCHANGED counter,
         phase' \in [Keys -> Phases], \A k \in live' : phase'[k] = phase[k],
         \A k \in Keys : phase'[k] \in {phase[k], "none"}
  PROVE  Unused' /\ Owned'
<1>1. Unused'
  BY WorkspaceAssumption DEF Unused, HangUp, Keys
<1>2. socket' \in [Keys -> Sockets] /\ phase' \in [Keys -> Phases]
  BY DEF Owned, HangUp, Sockets
<1>3. TabOwnsItsSocket'
  BY DEF Owned, TabOwnsItsSocket, HangUp
<1>4. PhaseIsTrue'
  BY WorkspaceAssumption DEF Unused, Keys, Owned, PhaseIsTrue, HangUp
<1> QED
  BY <1>1, <1>2, <1>3, <1>4 DEF Owned

\* Keys not handed out stay untouched, and sockets stay with their tabs.
LEMMA OwnedStep == Unused /\ Sound /\ Owned /\ [Next]_vars => Unused' /\ Owned'
<1> SUFFICES ASSUME Unused, Sound, Owned, [Next]_vars PROVE Unused' /\ Owned'
  OBVIOUS
<1>a. ASSUME NEW lv, NEW lay, NEW act, Settle(lv, lay, act) PROVE live' = lv
  BY <1>a DEF Settle
<1>c. live \subseteq Keys
  BY DEF Sound
<1>b. ASSUME live' = live, counter' = counter, UNCHANGED <<socket, phase>>
      PROVE  Unused' /\ Owned'
  BY <1>b DEF Unused, Owned, TabOwnsItsSocket, PhaseIsTrue
<1>1. ASSUME NEW k \in live, ActivateSession(k) \/ SplitWithPartner(k) \/ LeaveSplit(k)
      PROVE  Unused' /\ Owned'
  BY <1>1, <1>a, <1>b DEF ActivateSession, SplitWithPartner, LeaveSplit, tabVars
<1>2. ASSUME NEW k \in live, CloseSession(k) PROVE Unused' /\ Owned'
  <2>1. live' = live \ {k}
    BY <1>2, <1>a DEF CloseSession
  <2>2. socket' = HangUp({k}) /\ UNCHANGED counter /\ {k} \in SUBSET live
    BY <1>2 DEF CloseSession, tabVars
  <2>3. /\ phase' \in [Keys -> Phases] /\ \A j \in live' : phase'[j] = phase[j]
        /\ \A j \in Keys : phase'[j] \in {phase[j], "none"}
    <3>1. phase' = [phase EXCEPT ![k] = "none"]
      BY <1>2 DEF CloseSession
    <3> QED
      BY <1>c, <2>1, <3>1 DEF Owned, Phases
  <2> QED
    BY <2>1, <2>2, <2>3, CloseOwns
<1>3. ASSUME NEW k \in live, CloseOtherSessions(k) PROVE Unused' /\ Owned'
  <2>1. live' = live \ (live \ {k}) /\ live' = {k}
    BY <1>3, <1>a DEF CloseOtherSessions
  <2>2. socket' = HangUp(live \ {k}) /\ UNCHANGED counter
    BY <1>3 DEF CloseOtherSessions, tabVars
  <2>3. /\ phase' \in [Keys -> Phases] /\ \A j \in live' : phase'[j] = phase[j]
        /\ \A j \in Keys : phase'[j] \in {phase[j], "none"}
    <3>1. phase' = [j \in Keys |-> IF j = k THEN phase[j] ELSE "none"]
      BY <1>3 DEF CloseOtherSessions
    <3> QED
      BY <1>c, <2>1, <3>1 DEF Owned, Phases
  <2> QED
    BY <2>1, <2>2, <2>3, CloseOwns
<1>4. ASSUME NEW k \in live, SplitWithDuplicate(k) PROVE Unused' /\ Owned'
  BY <1>4, <1>a, OpenOwns DEF SplitWithDuplicate
<1>5. ASSUME NEW h \in Hosts, OpenSession(h) \/ RequestHost(h) PROVE Unused' /\ Owned'
  BY <1>5, <1>a, OpenOwns DEF OpenSession, RequestHost, OpenAgainst
<1>6. CASE CloseWorkspace
  <2>1. live' = live \ live /\ live' = {}
    BY <1>6, <1>a DEF CloseWorkspace
  <2>2. socket' = HangUp(live) /\ UNCHANGED <<counter, phase>>
    BY <1>6 DEF CloseWorkspace, tabVars
  <2> QED
    BY <2>1, <2>2, CloseOwns DEF Owned
<1>7. ASSUME NEW k \in Keys,
             \/ Start(k) \/ StartFails(k) \/ Opened(k)
             \/ \E refused \in BOOLEAN : Ended(k, refused)
      PROVE  Unused' /\ Owned'
  <2>1. live' = live /\ counter' = counter
    BY <1>7 DEF Start, StartFails, Opened, Ended, tabVars, wsVars
  <2>2. k <= counter
    BY <1>7 DEF Start, StartFails, Opened, Ended, Unused, Keys
  <2>3. CASE Start(k)
    BY <2>1, <2>2, <2>3
    DEF Start, Unused, Owned, TabOwnsItsSocket, PhaseIsTrue, Sockets
  <2>4. CASE StartFails(k)
    BY <2>1, <2>2, <2>4
    DEF StartFails, Unused, Owned, TabOwnsItsSocket, PhaseIsTrue, Sockets, Phases
  <2>5. CASE Opened(k)
    BY <2>1, <2>2, <2>5
    DEF Opened, Unused, Owned, TabOwnsItsSocket, PhaseIsTrue, Sockets, Phases
  <2>6. ASSUME NEW refused \in BOOLEAN, Ended(k, refused) PROVE Unused' /\ Owned'
    BY <2>1, <2>2, <2>6
    DEF Ended, Unused, Owned, TabOwnsItsSocket, PhaseIsTrue, Sockets, Phases
  <2> QED
    BY <1>7, <2>3, <2>4, <2>5, <2>6
<1>8. CASE InitialTimer \/ UNCHANGED vars
  BY <1>8, <1>b DEF InitialTimer, vars, tabVars, wsVars
<1> QED
  BY <1>1, <1>2, <1>3, <1>4, <1>5, <1>6, <1>7, <1>8 DEF Next, User, Outside, SplitWith

-----------------------------------------------------------------------------
(* Labels, and the rest of the types.                                        *)

Labelled == /\ host \in [Keys -> Hosts] /\ label \in [Keys -> Nat]
            /\ LabelsAreDistinct

\* A new tab takes a number that no open tab of its host has.
LEMMA OpenLabels ==
  ASSUME Unused, Labelled, NEW h \in Hosts, MakeSession(h),
         live' = live \cup {counter + 1}
  PROVE  Labelled'
<1> DEFINE new == counter + 1
<1>1. new \in Keys /\ new \notin live
  BY NewKey
<1>2. host' = [host EXCEPT ![new] = h]
  BY DEF MakeSession
<1>3. PICK n \in 1 .. MaxTabs :
        IsNextLabel(n, h) /\ label' = [label EXCEPT ![new] = n]
  BY DEF MakeSession
<1>4. \A j \in live : host[j] = h => label[j] # n
  BY <1>3 DEF IsNextLabel
<1>5. host' \in [Keys -> Hosts] /\ label' \in [Keys -> Nat]
  <2>1. n \in Nat
    BY WorkspaceAssumption
  <2> QED
    BY <1>2, <1>3, <2>1 DEF Labelled
<1>6. /\ host'[new] = h /\ label'[new] = n
      /\ \A j \in live : host'[j] = host[j] /\ label'[j] = label[j]
  BY <1>1, <1>2, <1>3, WorkspaceAssumption DEF Labelled, Unused, Keys
<1>7. LabelsAreDistinct'
  BY <1>1, <1>4, <1>6 DEF Labelled, LabelsAreDistinct
<1> QED
  BY <1>5, <1>7 DEF Labelled

\* Tabs that stay keep their labels.
LEMMA LabelledStep == Unused /\ Labelled /\ [Next]_vars => Labelled'
<1> SUFFICES ASSUME Unused, Labelled, [Next]_vars PROVE Labelled'
  OBVIOUS
<1>a. ASSUME NEW lv, NEW lay, NEW act, Settle(lv, lay, act) PROVE live' = lv
  BY <1>a DEF Settle
<1>b. ASSUME live' \subseteq live, UNCHANGED <<host, label>> PROVE Labelled'
  BY <1>b DEF Labelled, LabelsAreDistinct
<1>1. ASSUME NEW k \in live,
             \/ ActivateSession(k) \/ CloseSession(k) \/ CloseOtherSessions(k)
             \/ SplitWithPartner(k) \/ LeaveSplit(k)
      PROVE  Labelled'
  <2>1. UNCHANGED <<host, label>>
    BY <1>1 DEF ActivateSession, CloseSession, CloseOtherSessions, SplitWithPartner,
                LeaveSplit, tabVars
  <2>2. live' \subseteq live
    <3>1. CASE CloseSession(k)
      BY <3>1, <1>a DEF CloseSession
    <3>2. CASE CloseOtherSessions(k)
      BY <3>2, <1>a DEF CloseOtherSessions
    <3>3. CASE ActivateSession(k) \/ SplitWithPartner(k) \/ LeaveSplit(k)
      BY <3>3, <1>a DEF ActivateSession, SplitWithPartner, LeaveSplit
    <3> QED
      BY <1>1, <3>1, <3>2, <3>3
  <2> QED
    BY <1>b, <2>1, <2>2
<1>2. ASSUME NEW k \in live, SplitWithDuplicate(k) PROVE Labelled'
  <2>1. host[k] \in Hosts
    BY WorkspaceAssumption DEF Labelled, Unused, Keys
  <2> QED
    BY <1>2, <1>a, <2>1, OpenLabels DEF SplitWithDuplicate
<1>3. ASSUME NEW h \in Hosts, OpenSession(h) \/ RequestHost(h) PROVE Labelled'
  BY <1>3, <1>a, OpenLabels DEF OpenSession, RequestHost, OpenAgainst
<1>4. CASE CloseWorkspace
  BY <1>4, <1>a, <1>b DEF CloseWorkspace, tabVars
<1>5. CASE Outside \/ UNCHANGED vars
  BY <1>5, <1>b
  DEF Outside, Start, StartFails, Opened, Ended, InitialTimer, vars, tabVars, wsVars
<1> QED
  BY <1>1, <1>2, <1>3, <1>4, <1>5 DEF Next, User, SplitWith

\* What no property is about: the initial command and the host asked for last.
Rest == /\ initial \in {"unsent", "armed", "ran", "lost"}
        /\ requested \in Hosts
        /\ repaired \in BOOLEAN
        /\ active \in 0 .. MaxTabs
        /\ layout \in {<<>>} \cup (Keys \X Keys)

\* The focus and the layout are values of the state, or keys of open tabs.
LEMMA RestStep == Sound /\ Sound' /\ Rest /\ [Next]_vars => Rest'
<1> SUFFICES ASSUME Sound, Sound', Rest, [Next]_vars PROVE Rest'
  OBVIOUS
<1>1. initial' \in {"unsent", "armed", "ran", "lost"}
  BY DEF Next, User, Outside, Rest, ActivateSession, CloseSession, CloseOtherSessions,
         SplitWith, SplitWithPartner, SplitWithDuplicate, LeaveSplit, OpenSession,
         RequestHost, OpenAgainst, CloseWorkspace, Start, StartFails, Opened, Ended,
         InitialTimer, InitialEffect, vars
<1>2. requested' \in Hosts
  BY DEF Next, User, Outside, Rest, ActivateSession, CloseSession, CloseOtherSessions,
         SplitWith, SplitWithPartner, SplitWithDuplicate, LeaveSplit, OpenSession,
         RequestHost, CloseWorkspace, Start, StartFails, Opened, Ended,
         InitialTimer, vars
<1>3. CASE live' # {}
  <2>1. active' \in live' /\ live' \subseteq Keys
    BY <1>3 DEF Sound, IsSound
  <2>2. layout' \in {<<>>} \cup (Keys \X Keys)
    BY <1>3, <2>1 DEF Sound, IsSound
  <2>3. active' \in 0 .. MaxTabs
    BY <2>1, WorkspaceAssumption DEF Keys
  <2> QED
    BY <1>1, <1>2, <2>2, <2>3 DEF Rest, Sound
<1>4. CASE live' = {}
  <2>1. active' = active
    <3>1. ASSUME NEW lv, NEW lay, NEW act, Settle(lv, lay, act), lv # {} PROVE FALSE
      BY <1>4, <3>1 DEF Settle
    <3>2. ASSUME NEW k \in live, CloseSession(k) PROVE active' = active
      <4>1. live \ {k} = {}
        BY <3>1, <3>2 DEF CloseSession
      <4> QED
        BY <3>2, <4>1 DEF CloseSession, Settle
    <3>3. CASE CloseWorkspace
      BY <3>3 DEF CloseWorkspace, Settle
    <3>4. CASE Outside \/ UNCHANGED vars
      BY <3>4 DEF Outside, Start, StartFails, Opened, Ended, InitialTimer, vars, wsVars
    <3> QED
      BY <3>1, <3>2, <3>3, <3>4
      DEF Next, User, ActivateSession, CloseOtherSessions, SplitWith, SplitWithPartner,
          SplitWithDuplicate, LeaveSplit, OpenSession, RequestHost, OpenAgainst
  <2> QED
    BY <1>1, <1>2, <1>4, <2>1 DEF Rest, Sound
<1> QED
  BY <1>3, <1>4

-----------------------------------------------------------------------------
(* The theorems.                                                             *)

WorkspaceInv == Unused /\ Sound /\ Owned /\ Labelled /\ Rest

\* A workspace opens with one tab, whose library is loading.
LEMMA WorkspaceInit == Init => WorkspaceInv
<1> SUFFICES ASSUME Init PROVE WorkspaceInv
  OBVIOUS
<1>1. 1 \in Keys /\ \A k \in Keys : k > 1 => k # 1
  BY WorkspaceAssumption DEF Keys
<1>2. Unused /\ Owned /\ Labelled
  BY <1>1, WorkspaceAssumption
  DEF Init, Unused, Keys, Owned, TabOwnsItsSocket, PhaseIsTrue, Sockets, Phases,
      Labelled, LabelsAreDistinct
<1>3. Sound
  BY <1>1 DEF Init, Sound, IsSound
<1>4. Rest
  <2>1. active \in 0 .. MaxTabs
    BY WorkspaceAssumption DEF Init
  <2>2. initial = "unsent" /\ requested \in Hosts /\ repaired = FALSE /\ layout = <<>>
    BY WorkspaceAssumption DEF Init
  <2> QED
    BY <2>1, <2>2 DEF Rest
<1> QED
  BY <1>2, <1>3, <1>4 DEF WorkspaceInv

\* All of it together is inductive.
LEMMA WorkspaceInvariant == Spec => []WorkspaceInv
<1>1. WorkspaceInv /\ [Next]_vars => WorkspaceInv'
  BY SoundStep, OwnedStep, LabelledStep, RestStep DEF WorkspaceInv
<1> QED
  BY WorkspaceInit, <1>1, PTL DEF Spec

\* Every variable of the workspace keeps its type.
THEOREM TypeCorrect == Spec => []TypeOK
<1>1. WorkspaceInv => TypeOK
  BY DEF WorkspaceInv, TypeOK, Unused, Owned, Labelled, Rest
<1> QED
  BY WorkspaceInvariant, <1>1, PTL

\* A connection belongs to one open tab, whenever the terminal library answers.
THEOREM SocketsAreOwned == Spec => []TabOwnsItsSocket
<1>1. WorkspaceInv => TabOwnsItsSocket
  BY DEF WorkspaceInv, Owned
<1> QED
  BY WorkspaceInvariant, <1>1, PTL

\* What a tab's chip says is what its connection is doing.
THEOREM ChipsAreTrue == Spec => []PhaseIsTrue
<1>1. WorkspaceInv => PhaseIsTrue
  BY DEF WorkspaceInv, Owned
<1> QED
  BY WorkspaceInvariant, <1>1, PTL

\* Two open tabs never carry the same label.
THEOREM LabelsDiffer == Spec => []LabelsAreDistinct
<1>1. WorkspaceInv => LabelsAreDistinct
  BY DEF WorkspaceInv, Labelled
<1> QED
  BY WorkspaceInvariant, <1>1, PTL

\* No order of opening, closing, splitting and activating tabs leaves an effect
\* of the render anything to repair.
THEOREM NeverRepaired == Spec => []NothingToRepair
<1>1. WorkspaceInv => NothingToRepair
  BY DEF WorkspaceInv, Sound, NothingToRepair
<1> QED
  BY WorkspaceInvariant, <1>1, PTL

\* Closing a tab that has not the keyboard leaves the keyboard where it is.
THEOREM KeyboardIsKept == Spec => KeyboardStays
<1>1. ASSUME WorkspaceInv, WorkspaceInv', NEW k \in live, CloseSession(k), k # Focused
      PROVE  Focused' = Focused
  <2>1. Focused = active /\ active \in live
    BY <1>1, FocusIsActive DEF WorkspaceInv, Sound, IsSound, Focused
  <2>2. PICK j \in live \ {k} :
          Settle(live \ {k}, LayoutWithout(k), ActiveAfter(k, j, live \ {k}))
    <3>1. live \ {k} # {}
      BY <1>1, <2>1
    <3> QED
      BY <1>1, <3>1 DEF CloseSession
  <2>3. live' = live \ {k} /\ active' = ActiveAfter(k, j, live \ {k})
    <3>1. IsSound(live \ {k}, LayoutWithout(k), ActiveAfter(k, j, live \ {k}))
      BY <1>1, CloseLeaves DEF WorkspaceInv
    <3> QED
      BY <1>1, <2>2, <3>1, SettleKeeps DEF WorkspaceInv, Sound
  <2>4. ActiveAfter(k, j, live \ {k}) = active
    <3>1. CASE layout = <<>>
      BY <1>1, <3>1, ShownOfNone DEF ActiveAfter
    <3>2. CASE layout # <<>>
      <4>1. layout \in live \X live /\ active \in {layout[1], layout[2]}
        BY <2>1, <3>2, <1>1 DEF WorkspaceInv, Sound, IsSound
      <4>2. Shown(layout) = {layout[1], layout[2]}
        BY <4>1, ShownOfPair
      <4> QED
        BY <1>1, <2>1, <4>1, <4>2 DEF ActiveAfter, OtherHalf
    <3> QED
      BY <3>1, <3>2
  <2>5. Focused' = active'
    BY <1>1, <2>1, <2>3, FocusIsActive, <2>4 DEF WorkspaceInv, Sound, Focused
  <2> QED
    BY <2>1, <2>3, <2>4, <2>5
<1>2. WorkspaceInv /\ WorkspaceInv' /\ [Next]_vars =>
        [\A k \in live : CloseSession(k) /\ k # Focused => Focused' = Focused]_vars
  BY <1>1
<1> QED
  BY WorkspaceInvariant, <1>2, PTL DEF Spec, KeyboardStays

-----------------------------------------------------------------------------
(* The deploy panel. The success banner of a deploy is true for any order of      *)
(* answers, probes and remounts. The banner and the prompt for the restart lean    *)
(* on each other: the invariant follows the one request the form awaits and what   *)
(* the host has done for it (InStep).                                          *)

Target   == Names \cup {None}
Requests == [id : Nat, kind : {"deploy", "restart"}, instance : Instances, name : Target,
             restart : BOOLEAN, mine : BOOLEAN, state : {"sent", "served"},
             ok : BOOLEAN, needs : BOOLEAN, restarted : BOOLEAN]
Banners  == [instance : Instances \cup {None}, name : Target, restarted : BOOLEAN]

Typed ==
  /\ host_ \in [Instances -> SUBSET Target]
  /\ warFlying \subseteq Requests /\ warSent \in Nat
  /\ listed \subseteq Instances /\ chosen \in Instances
  /\ file \in Target /\ override \in Target /\ restart \in BOOLEAN
  /\ warBusy \in {"", "deploy", "restart"}
  /\ result \in Banners

\* The form awaits one request at most, and busy says which kind.
OneAwaited ==
  \A r \in warFlying : r.mine => /\ warBusy = r.kind
                              /\ \A q \in warFlying : q.mine => q = r

\* A deploy that was served well is on the host.
DeployDone(r) == /\ r.name \in host_[r.instance]
                 /\ r.restarted => <<r.instance, r.name>> \in ran

ServedWell == \A r \in warFlying :
                r.kind = "deploy" /\ r.state = "served" /\ r.ok => DeployDone(r)

\* The restart that is awaited is of the instance of its prompt and banner.
InStep ==
  \A r \in warFlying : r.mine /\ r.kind = "restart" =>
    /\ warSudo.kind = "restart" /\ warSudo.instance = r.instance
    /\ r.state = "served" /\ r.ok => <<result.instance, result.name>> \in ran

\* Prompt and banner name instances.
Pointed == /\ warSudo.kind = "restart" => warSudo.instance \in Instances
           /\ result # War!NoResult => result.instance \in Instances

FormInv == /\ Typed /\ OneAwaited /\ ServedWell /\ InStep /\ Pointed
           /\ War!DeployBannerIsTrue /\ War!RestartPromptIsEarned

-----------------------------------------------------------------------------
\* Neither a prompt nor a banner is there at first.
LEMMA WarInit == ASSUME War!DeployAssumption, War!Init PROVE FormInv
<1>1. Typed
  BY DEF War!Init, Typed, Target, Banners, War!NoResult, War!DeployAssumption
<1>2. warSudo.kind = "none" /\ result = War!NoResult /\ warFlying = {}
  BY DEF War!Init, War!NoSudo
<1> QED
  BY <1>1, <1>2 DEF FormInv, OneAwaited, ServedWell, InStep, Pointed,
                    War!DeployBannerIsTrue, War!RestartPromptIsEarned

\* The operator changes the form while nothing is awaited.
LEMMA FormKeeps ==
  ASSUME War!DeployAssumption, FormInv, Typed', UNCHANGED <<War!host, warFlying, warBusy>>, warBusy = "",
         \/ UNCHANGED <<warSudo, result>>
         \/ warSudo' = War!NoSudo /\ result' = War!NoResult
         \/ warSudo' = War!NoSudo /\ UNCHANGED result
  PROVE  FormInv'
<1>1. \A r \in warFlying : ~r.mine
  BY DEF FormInv, OneAwaited, Typed, Requests
<1>2. OneAwaited' /\ ServedWell' /\ InStep'
  BY <1>1 DEF FormInv, OneAwaited, ServedWell, InStep, DeployDone, War!host
<1>3. War!NoSudo.kind # "restart"
  BY DEF War!NoSudo
<1>4. UNCHANGED <<host_, ran>>
  BY DEF War!host
<1>5. warSudo' = warSudo \/ warSudo'.kind # "restart"
  BY <1>3
<1>6. Pointed'
  BY <1>5 DEF FormInv, Pointed
<1>7. War!DeployBannerIsTrue'
  BY <1>4 DEF FormInv, War!DeployBannerIsTrue
<1>8. War!RestartPromptIsEarned'
  BY <1>3, <1>4 DEF FormInv, War!RestartPromptIsEarned
<1> QED
  BY <1>2, <1>6, <1>7, <1>8 DEF FormInv

\* A request that is sent is the one the form awaits, and has not been served.
LEMMA SendKeeps ==
  ASSUME War!DeployAssumption, FormInv, Typed', UNCHANGED War!host, warBusy = "",
         NEW r \in Requests, r.mine, r.state = "sent", War!Send(r),
         \/ UNCHANGED <<warSudo, result>>
            /\ (r.kind = "restart" => warSudo.kind = "restart" /\ warSudo.instance = r.instance)
         \/ warSudo' = War!NoSudo /\ result' = War!NoResult /\ r.kind = "deploy"
  PROVE  FormInv'
<1>1. \A q \in warFlying : ~q.mine
  BY DEF FormInv, OneAwaited, Typed, Requests
<1>2. warFlying' = warFlying \cup {r} /\ warBusy' = r.kind
  BY DEF War!Send
<1>3. OneAwaited' /\ ServedWell' /\ InStep'
  BY <1>1, <1>2 DEF FormInv, OneAwaited, ServedWell, InStep, DeployDone, War!host
<1>4. War!NoSudo.kind # "restart"
  BY DEF War!NoSudo
<1>5. Pointed' /\ War!DeployBannerIsTrue' /\ War!RestartPromptIsEarned'
  BY <1>4 DEF FormInv, Pointed, War!DeployBannerIsTrue, War!RestartPromptIsEarned, War!host
<1> QED
  BY <1>3, <1>5 DEF FormInv

\* The host takes nothing away, so what was done stays done.
LEMMA HostKeeps ==
  ASSUME FormInv, NEW r \in warFlying, NEW s \in Requests, Typed',
         warFlying' = (warFlying \ {r}) \cup {s},
         s.mine = r.mine, s.kind = r.kind, s.instance = r.instance, s.name = r.name,
         \A i \in Instances : host_[i] \subseteq host_'[i], ran \subseteq ran',
         UNCHANGED <<War!form, warBusy>>,
         s.kind = "deploy" /\ s.ok => DeployDone(s)',
         s.kind = "restart" /\ s.ok => {s.instance} \X host_'[s.instance] \subseteq ran'
  PROVE  FormInv'
<1>1. UNCHANGED <<warSudo, result>>
  BY DEF War!form
<1>2. OneAwaited'
  BY DEF FormInv, OneAwaited
<1>3. ServedWell'
  <2>1. \A q \in warFlying : q.instance \in Instances
    BY DEF FormInv, Typed, Requests
  <2> QED
    BY <2>1 DEF FormInv, ServedWell, DeployDone
<1>4. InStep'
  <2>1. ASSUME s.mine, s.kind = "restart"
        PROVE  /\ warSudo.kind = "restart" /\ warSudo.instance = s.instance
               /\ result.instance = s.instance /\ result.name \in host_[s.instance]
    BY <2>1 DEF FormInv, InStep, War!RestartPromptIsEarned
  <2>2. s.instance \in Instances
    BY DEF Requests
  <2>3. ASSUME s.mine, s.kind = "restart", s.ok
        PROVE  <<result.instance, result.name>> \in ran'
    BY <2>1, <2>2, <2>3
  <2> QED
    BY <1>1, <2>1, <2>3 DEF FormInv, InStep
<1>5. Pointed' /\ War!RestartPromptIsEarned'
  BY <1>1 DEF FormInv, Pointed, War!RestartPromptIsEarned
<1>6. War!DeployBannerIsTrue'
  BY <1>1 DEF FormInv, War!DeployBannerIsTrue, Pointed
<1> QED
  BY <1>2, <1>3, <1>4, <1>5, <1>6 DEF FormInv

\* The answer of a deploy: the banner tells what the host has done.
LEMMA DeployAnswerKeeps ==
  ASSUME War!DeployAssumption, FormInv, Typed', NEW r \in warFlying, r.mine, r.state = "served",
         NEW lost \in BOOLEAN, War!DeployAnswered(r, lost),
         warFlying' = warFlying \ {r}, UNCHANGED War!host
  PROVE  FormInv'
<1> DEFINE outcome == War!DeployOutcome(r, lost)
<1>1. r \in Requests /\ r.kind = "deploy" /\ r.instance \in Instances
  BY DEF FormInv, Typed, Requests, War!DeployAnswered
<1>2. outcome \in {"half", "done"} => r.ok /\ DeployDone(r)
  BY <1>1 DEF War!DeployOutcome, FormInv, ServedWell
<1>3. result' = IF outcome \in {"half", "done"} THEN War!BannerOf(r) ELSE War!NoResult
  BY DEF War!DeployAnswered
<1>4. warSudo'.kind = "restart" => outcome = "half" /\ warSudo'.instance = r.instance
  BY DEF War!DeployAnswered, War!NoSudo
<1>5. War!BannerOf(r).instance = r.instance /\ War!BannerOf(r).name = r.name
      /\ War!BannerOf(r).restarted = r.restarted
  BY DEF War!BannerOf
<1>6. War!BannerOf(r) # War!NoResult
  BY <1>1, <1>5 DEF War!NoResult, War!DeployAssumption
<1> HIDE DEF outcome
<1>7. OneAwaited' /\ ServedWell' /\ InStep'
  <2>1. \A q \in warFlying' : q \in warFlying /\ ~q.mine
    BY DEF FormInv, OneAwaited
  <2> QED
    BY <2>1 DEF FormInv, OneAwaited, ServedWell, InStep, DeployDone, War!host
<1>8. Pointed' /\ War!RestartPromptIsEarned' /\ War!DeployBannerIsTrue'
  BY <1>1, <1>2, <1>3, <1>4, <1>5, <1>6
  DEF Pointed, War!RestartPromptIsEarned, War!DeployBannerIsTrue, DeployDone, War!host
<1> QED
  BY <1>7, <1>8 DEF FormInv

\* The answer of a restart is of the banner's instance.
LEMMA RestartAnswerKeeps ==
  ASSUME War!DeployAssumption, FormInv, Typed', NEW r \in warFlying, r.mine, r.state = "served",
         NEW lost \in BOOLEAN, War!RestartAnswered(r, lost),
         warFlying' = warFlying \ {r}, UNCHANGED War!host
  PROVE  FormInv'
<1>1. r \in Requests /\ r.kind = "restart" /\ r.instance \in Instances
  BY DEF FormInv, Typed, Requests, War!RestartAnswered
<1>2. /\ warSudo.kind = "restart" /\ warSudo.instance = r.instance
      /\ result # War!NoResult /\ result.instance = r.instance
      /\ result.name \in host_[r.instance]
      /\ r.ok => <<result.instance, result.name>> \in ran
  BY <1>1 DEF FormInv, InStep, War!RestartPromptIsEarned
<1>3. OneAwaited' /\ ServedWell' /\ InStep'
  <2>1. \A q \in warFlying' : q \in warFlying /\ ~q.mine
    BY DEF FormInv, OneAwaited
  <2> QED
    BY <2>1 DEF FormInv, OneAwaited, ServedWell, InStep, DeployDone, War!host
<1>4. CASE UNCHANGED result /\ (warSudo'.kind = "restart" => warSudo'.instance = r.instance)
  BY <1>1, <1>2, <1>3, <1>4
  DEF FormInv, Pointed, War!RestartPromptIsEarned, War!DeployBannerIsTrue, War!host
<1>5. CASE r.ok /\ warSudo' = War!NoSudo /\ result' = [result EXCEPT !.restarted = TRUE]
  <2>1. result \in Banners
    BY DEF FormInv, Typed
  <2>2. result'.instance = r.instance /\ result'.name = result.name
    BY <1>2, <1>5, <2>1 DEF Banners
  <2>3. warSudo'.kind # "restart"
    BY <1>5 DEF War!NoSudo
  <2> QED
    BY <1>1, <1>2, <1>3, <1>5, <2>2, <2>3
    DEF FormInv, Pointed, War!RestartPromptIsEarned, War!DeployBannerIsTrue, War!host
<1> QED
  BY <1>2, <1>4, <1>5 DEF War!RestartAnswered, War!NoSudo

-----------------------------------------------------------------------------
(* What the host does.                                                       *)

\* A request the host has served is a request still.
LEMMA ServedIsRequest ==
  ASSUME NEW r \in Requests, NEW ok \in BOOLEAN, NEW needs \in BOOLEAN,
         NEW restarted \in BOOLEAN, War!Served(r, ok, needs, restarted)
  PROVE  \E s \in Requests :
           /\ warFlying' = (warFlying \ {r}) \cup {s}
           /\ s.mine = r.mine /\ s.kind = r.kind /\ s.instance = r.instance
           /\ s.name = r.name /\ s.ok = ok /\ s.restarted = restarted
<1> DEFINE s == [r EXCEPT !.state = "served", !.ok = ok, !.needs = needs,
                          !.restarted = restarted]
<1>1. s \in Requests
  BY DEF Requests
<1>2. /\ s.mine = r.mine /\ s.kind = r.kind /\ s.instance = r.instance
      /\ s.name = r.name /\ s.ok = ok /\ s.restarted = restarted
  BY DEF Requests
<1>3. warFlying' = (warFlying \ {r}) \cup {s}
  BY DEF War!Served
<1> QED
  BY <1>1, <1>2, <1>3

\* A WAR that lands is there, and nothing else goes.
LEMMA LandsAdds ==
  ASSUME Typed, NEW r \in Requests, War!Lands(r)
  PROVE  /\ host_' \in [Instances -> SUBSET Target]
         /\ r.name \in host_'[r.instance]
         /\ \A i \in Instances : host_[i] \subseteq host_'[i]
<1>1. r.instance \in Instances /\ r.name \in Target
  BY DEF Requests
<1> QED
  BY <1>1 DEF Typed, War!Lands

\* Serving a request keeps the invariant, whether it works, fails or fails halfway.
LEMMA HostStep ==
  ASSUME FormInv, NEW r \in warFlying, War!HostServes(r)
  PROVE  FormInv'
<1>1. r \in Requests /\ Typed /\ UNCHANGED <<War!form, warBusy>>
  BY DEF FormInv, Typed, War!HostServes
<1>2. ASSUME NEW ok \in BOOLEAN, NEW needs \in BOOLEAN, NEW restarted \in BOOLEAN,
             War!Served(r, ok, needs, restarted),
             host_' \in [Instances -> SUBSET Target],
             \A i \in Instances : host_[i] \subseteq host_'[i], ran \subseteq ran',
             r.kind = "deploy" /\ ok =>
               /\ r.name \in host_'[r.instance]
               /\ restarted => <<r.instance, r.name>> \in ran',
             r.kind = "restart" /\ ok => {r.instance} \X host_'[r.instance] \subseteq ran'
      PROVE  FormInv'
  <2>1. PICK s \in Requests :
          /\ warFlying' = (warFlying \ {r}) \cup {s}
          /\ s.mine = r.mine /\ s.kind = r.kind /\ s.instance = r.instance
          /\ s.name = r.name /\ s.ok = ok /\ s.restarted = restarted
    BY <1>1, <1>2, ServedIsRequest
  <2>2. Typed'
    BY <1>1, <1>2, <2>1 DEF Typed, War!HostServes, War!form, War!probe
  <2>3. s.kind = "deploy" /\ s.ok => DeployDone(s)'
    BY <1>2, <2>1 DEF DeployDone
  <2> QED
    BY <1>1, <1>2, <2>1, <2>2, <2>3, HostKeeps
<1>3. CASE r.kind = "deploy" /\ War!ServeDeploy(r)
  <2>1. War!Lands(r) => /\ host_' \in [Instances -> SUBSET Target]
                    /\ r.name \in host_'[r.instance]
                    /\ \A i \in Instances : host_[i] \subseteq host_'[i]
    BY <1>1, LandsAdds
  <2>2. UNCHANGED host_ => /\ host_' \in [Instances -> SUBSET Target]
                            /\ \A i \in Instances : host_[i] \subseteq host_'[i]
    BY <1>1 DEF Typed
  <2>3. CASE War!Served(r, FALSE, TRUE, FALSE) /\ UNCHANGED <<host_, ran>>
    BY <1>2, <1>3, <2>2, <2>3
  <2>4. CASE War!Served(r, FALSE, FALSE, FALSE) /\ (War!Lands(r) \/ UNCHANGED host_) /\ UNCHANGED ran
    BY <1>2, <1>3, <2>1, <2>2, <2>4
  <2>5. CASE War!Served(r, TRUE, FALSE, FALSE) /\ War!Lands(r) /\ UNCHANGED ran
    BY <1>2, <1>3, <2>1, <2>5
  <2>6. CASE War!Served(r, TRUE, FALSE, TRUE) /\ War!Lands(r) /\ War!Restarts(r.instance)
    <3>1. <<r.instance, r.name>> \in ran' /\ ran \subseteq ran'
      BY <2>1, <2>6 DEF War!Restarts
    <3> QED
      BY <1>2, <1>3, <2>1, <2>6, <3>1
  <2>7. ASSUME War!Lands(r), UNCHANGED ran, NEW needs \in BOOLEAN, War!Served(r, TRUE, needs, FALSE)
        PROVE  FormInv'
    BY <1>2, <1>3, <2>1, <2>7
  <2> QED
    BY <1>3, <2>3, <2>4, <2>5, <2>6, <2>7 DEF War!ServeDeploy
<1>4. CASE r.kind = "restart" /\ War!ServeRestart(r)
  <2>1. UNCHANGED host_ /\ host_' \in [Instances -> SUBSET Target]
        /\ \A i \in Instances : host_[i] \subseteq host_'[i]
    BY <1>1, <1>4 DEF Typed, War!ServeRestart
  <2>2. CASE War!Served(r, TRUE, FALSE, TRUE) /\ War!Restarts(r.instance)
    <3>1. {r.instance} \X host_'[r.instance] \subseteq ran' /\ ran \subseteq ran'
      BY <2>2 DEF War!Restarts
    <3> QED
      BY <1>2, <1>4, <2>1, <2>2, <3>1
  <2>3. ASSUME UNCHANGED ran, NEW needs \in BOOLEAN, War!Served(r, FALSE, needs, FALSE)
        PROVE  FormInv'
    BY <1>2, <1>4, <2>1, <2>3
  <2> QED
    BY <1>4, <2>2, <2>3 DEF War!ServeRestart
<1> QED
  BY <1>3, <1>4 DEF War!HostServes

-----------------------------------------------------------------------------
(* Every step.                                                               *)

\* What the form sends.
LEMMA NewRequest ==
  ASSUME Typed, NEW kind \in {"deploy", "restart"}, NEW i \in Instances, NEW n \in Target,
         NEW wants \in BOOLEAN, War!Send(War!Request(kind, i, n, wants))
  PROVE  \E r \in Requests :
           /\ War!Send(r) /\ r.mine /\ r.state = "sent" /\ r.kind = kind /\ r.instance = i
           /\ warFlying' \subseteq Requests /\ warSent' \in Nat /\ warBusy' = kind
<1> DEFINE r == War!Request(kind, i, n, wants)
<1>1. warSent \in Nat /\ warFlying \subseteq Requests
  BY DEF Typed
<1>2. r \in Requests
  BY <1>1 DEF War!Request, Requests
<1>3. r.mine /\ r.state = "sent" /\ r.kind = kind /\ r.instance = i
  BY DEF War!Request
<1>4. War!Send(r)
  OBVIOUS
<1> HIDE DEF r
<1>5. warFlying' \subseteq Requests /\ warSent' \in Nat /\ warBusy' = kind
  BY <1>2, <1>3, <1>4, <1>1 DEF War!Send
<1> QED
  BY <1>2, <1>3, <1>5, <1>4

\* A deploy that is sent, from the button, the overwrite box or the prompt.
LEMMA DeployStep ==
  ASSUME War!DeployAssumption, FormInv, warBusy = "", NEW consent, War!RunDeploy(consent),
         UNCHANGED <<War!host, War!probe, chosen, file, override, restart>>,
         \/ warSudo' = warSudo /\ result' = result
         \/ warSudo' = War!NoSudo /\ result' = War!NoResult
  PROVE  FormInv'
<1>1. Typed /\ War!targetName \in Target
  BY DEF FormInv, Typed, War!targetName
<1>2. PICK r \in Requests :
        /\ War!Send(r) /\ r.mine /\ r.state = "sent" /\ r.kind = "deploy"
        /\ warFlying' \subseteq Requests /\ warSent' \in Nat /\ warBusy' = "deploy"
  BY <1>1, NewRequest DEF War!RunDeploy, Typed
<1>3. Typed'
  <2>1. War!NoResult \in Banners
    BY DEF War!NoResult, Banners, Target
  <2> QED
    BY <1>1, <1>2, <2>1 DEF Typed, War!host, War!probe
<1> QED
  BY <1>2, <1>3, SendKeeps

\* No step of the operator, the host or the page breaks it.
LEMMA WarStep == ASSUME War!DeployAssumption, FormInv, [War!Next]_(War!vars) PROVE FormInv'
<1>1. Typed /\ War!NoResult \in Banners /\ None \in Target
  BY DEF FormInv, War!NoResult, Banners, Target
<1>2. ASSUME NEW n \in Names \cup {None}, War!PickFile(n) \/ War!TypeFilename(n) PROVE FormInv'
  <2>1. Typed'
    BY <1>1, <1>2 DEF War!PickFile, War!TypeFilename, Typed, War!host, War!probe, Target
  <2> QED
    BY <1>2, <2>1, FormKeeps DEF War!PickFile, War!TypeFilename
<1>3. ASSUME NEW i \in Instances, War!ChooseInstance(i) PROVE FormInv'
  <2>1. Typed'
    BY <1>1, <1>3 DEF War!ChooseInstance, Typed, War!host, War!probe
  <2> QED
    BY <1>3, <2>1, FormKeeps DEF War!ChooseInstance
<1>4. CASE War!ToggleRestart \/ War!CancelOverwrite \/ War!CancelSudo
  <2>1. Typed'
    BY <1>1, <1>4 DEF War!ToggleRestart, War!CancelOverwrite, War!CancelSudo, Typed, War!host, War!probe
  <2>2. warBusy = "" /\ UNCHANGED <<War!host, warFlying, warBusy, result>>
        /\ (warSudo' = warSudo \/ warSudo' = War!NoSudo)
    BY <1>4 DEF War!ToggleRestart, War!CancelOverwrite, War!CancelSudo
  <2> QED
    BY <2>1, <2>2, FormKeeps
<1>5. CASE War!Begin
  <2>1. /\ warBusy = "" /\ UNCHANGED <<War!host, War!probe, chosen, file, override, restart>>
        /\ warSudo' = War!NoSudo /\ result' = War!NoResult
    BY <1>5 DEF War!Begin, War!disabled
  <2>2. CASE UNCHANGED <<warSent, warFlying, warBusy>>
    <3>1. Typed'
      BY <1>1, <2>1, <2>2 DEF Typed, War!host, War!probe
    <3> QED
      BY <2>1, <2>2, <3>1, FormKeeps
  <2>3. ASSUME NEW consent, War!RunDeploy(consent) PROVE FormInv'
    BY <2>1, <2>3, DeployStep
  <2> QED
    BY <1>5, <2>2, <2>3 DEF War!Begin
<1>6. CASE War!Overwrite
  <2>1. /\ warBusy = "" /\ UNCHANGED <<War!host, War!probe, chosen, file, override, restart>>
        /\ warSudo' = warSudo /\ result' = result
    BY <1>6 DEF War!Overwrite
  <2>2. \E consent : War!RunDeploy(consent)
    BY <1>6 DEF War!Overwrite
  <2> QED
    BY <2>1, <2>2, DeployStep
<1>7. CASE War!SubmitSudo
  <2>1. /\ warBusy = "" /\ UNCHANGED <<War!host, War!probe, chosen, file, override, restart>>
        /\ warSudo' = warSudo /\ result' = result
    BY <1>7 DEF War!SubmitSudo
  <2>2. CASE War!RunDeploy({})
    BY <2>1, <2>2, DeployStep
  <2>3. CASE warSudo.kind = "restart" /\ War!RunRestart
    <3>1. warSudo.instance \in Instances /\ War!RestartTarget = warSudo.instance
      BY <2>3 DEF FormInv, Pointed, War!RestartTarget
    <3>2. PICK r \in Requests :
            /\ War!Send(r) /\ r.mine /\ r.state = "sent" /\ r.kind = "restart"
            /\ r.instance = warSudo.instance
            /\ warFlying' \subseteq Requests /\ warSent' \in Nat /\ warBusy' = "restart"
      BY <1>1, <2>3, <3>1, NewRequest DEF War!RunRestart
    <3>3. Typed'
      BY <1>1, <2>1, <3>2 DEF Typed, War!host, War!probe
    <3> QED
      BY <2>1, <2>3, <3>2, <3>3, SendKeeps
  <2> QED
    BY <1>7, <2>2, <2>3 DEF War!SubmitSudo
<1>8. ASSUME NEW r \in warFlying, War!HostServes(r) PROVE FormInv'
  BY <1>8, HostStep
<1>9. ASSUME NEW r \in warFlying, War!Answered(r) PROVE FormInv'
  <2>1. r.state = "served" /\ warFlying' = warFlying \ {r} /\ UNCHANGED <<War!host, warSent, War!probe>>
    BY <1>9 DEF War!Answered
  <2>2. CASE r.mine
    <3>1. PICK lost \in BOOLEAN : War!DeployAnswered(r, lost) \/ War!RestartAnswered(r, lost)
      BY <1>9, <2>2 DEF War!Answered
    <3>2. warBusy' = "" /\ UNCHANGED <<chosen, restart>>
      BY <1>9, <2>2 DEF War!Answered
    <3>3. /\ file' \in {file, None} /\ override' \in {override, None}
          /\ result' \in Banners
      <4>1. r \in Requests
        BY <1>1 DEF Typed
      <4>2. War!BannerOf(r) \in Banners
        BY <4>1 DEF War!BannerOf, Requests, Banners
      <4>3. result \in Banners /\ [result EXCEPT !.restarted = TRUE] \in Banners
        BY <1>1 DEF Typed, Banners
      <4> QED
        BY <1>1, <3>1, <4>2, <4>3 DEF War!DeployAnswered, War!RestartAnswered, War!ResetChoice, War!KeepChoice
    <3>4. Typed'
      BY <1>1, <2>1, <3>2, <3>3 DEF Typed, War!host, War!probe
    <3> QED
      BY <2>1, <2>2, <3>1, <3>4, DeployAnswerKeeps, RestartAnswerKeeps
  <2>3. CASE ~r.mine
    <3>1. UNCHANGED <<War!form, warBusy, War!host, warSent, War!probe>> /\ warFlying' \subseteq warFlying
      BY <1>9, <2>1, <2>3 DEF War!Answered
    <3> QED
      BY <3>1 DEF FormInv, Typed, OneAwaited, ServedWell, InStep, Pointed, DeployDone,
                  War!DeployBannerIsTrue, War!RestartPromptIsEarned, War!form, War!host, War!probe
  <2> QED
    BY <1>1, <2>2, <2>3 DEF Typed, Requests
<1>10. CASE War!RefreshInstances
  <2>1. Typed'
    BY <1>1, <1>10 DEF War!RefreshInstances, Typed, War!host
  <2> QED
    BY <1>10, <2>1 DEF War!RefreshInstances, FormInv, OneAwaited, ServedWell, InStep, Pointed,
                       DeployDone, War!DeployBannerIsTrue, War!RestartPromptIsEarned, War!host
<1>11. CASE War!Remount
  <2>1. /\ UNCHANGED <<War!host, warSent>>
        /\ warFlying' = {[r EXCEPT !.mine = FALSE] : r \in warFlying}
        /\ warSudo' = War!NoSudo /\ result' = War!NoResult /\ warBusy' = ""
    BY <1>11 DEF War!Remount, War!Fresh
  <2>2. \A s \in warFlying' : /\ s \in Requests /\ ~s.mine
                           /\ \E r \in warFlying : /\ s.kind = r.kind /\ s.state = r.state
                                               /\ s.ok = r.ok /\ s.name = r.name
                                               /\ s.instance = r.instance
                                               /\ s.restarted = r.restarted
    BY <1>1, <2>1 DEF Typed, Requests
  <2>3. Typed'
    BY <1>1, <1>11, <2>1, <2>2 DEF Typed, War!Remount, War!Fresh, War!host
  <2>4. OneAwaited' /\ InStep'
    BY <2>2 DEF OneAwaited, InStep
  <2>5. ServedWell'
    <3>1. ASSUME NEW s \in warFlying', s.kind = "deploy", s.state = "served", s.ok
          PROVE  DeployDone(s)'
      <4>1. PICK r \in warFlying : /\ s.kind = r.kind /\ s.state = r.state
                                /\ s.ok = r.ok /\ s.name = r.name
                                /\ s.instance = r.instance /\ s.restarted = r.restarted
        BY <2>2
      <4>2. DeployDone(r)
        BY <3>1, <4>1 DEF FormInv, ServedWell
      <4> QED
        BY <2>1, <4>1, <4>2 DEF DeployDone, War!host
    <3> QED
      BY <3>1 DEF ServedWell
  <2>6. Pointed' /\ War!DeployBannerIsTrue' /\ War!RestartPromptIsEarned'
    BY <2>1 DEF War!NoSudo, Pointed, War!DeployBannerIsTrue, War!RestartPromptIsEarned
  <2> QED
    BY <2>3, <2>4, <2>5, <2>6 DEF FormInv
<1>12. CASE UNCHANGED War!vars
  BY <1>12 DEF War!vars, FormInv, Typed, OneAwaited, ServedWell, InStep, Pointed, DeployDone,
               War!DeployBannerIsTrue, War!RestartPromptIsEarned, War!form, War!host, War!probe
<1> QED
  BY <1>2, <1>3, <1>4, <1>5, <1>6, <1>7, <1>8, <1>9, <1>10, <1>11, <1>12
  DEF War!Next, War!Operator, War!Outside, War!DeployForm, War!OverwriteBox, War!SudoBox

\* What the success banner says is so, and a prompt for the restart alone stands
\* for a WAR that is in place on the instance it names.
THEOREM BannerAndPromptAreTrue == PageSpec => []DeployBannerIsTrue
<1>1. War!DeployAssumption
  BY PageAssumption
<1>2. War!Init => FormInv
  BY <1>1, WarInit
<1>3. FormInv /\ [War!Next]_(War!vars) => FormInv'
  BY <1>1, WarStep
<1>4. FormInv => DeployBannerIsTrue
  BY DEF FormInv, DeployBannerIsTrue
<1> QED
  BY <1>2, <1>3, <1>4, PartsOfPage, PTL DEF War!Spec
-----------------------------------------------------------------------------
(* The types of the deploy panel: a deploy that is sent has a name, so what a     *)
(* host gets, runs and is agreed to replace are named WARs of its instances.      *)

WarTypes ==
  /\ host_ \in [Instances -> SUBSET Names] /\ ran \subseteq Instances \X Names
  /\ warSent \in 0 .. MaxDeploys
  /\ webapps \in [Instances -> SUBSET Names]
  /\ asking \in BOOLEAN /\ unasked \in BOOLEAN
  /\ warSudo.kind \in {"none", "deploy", "restart"}
  /\ warAgreed \subseteq Instances \X Names
  /\ \A r \in warFlying : r.kind = "deploy" => r.name \in Names

\* What is sent is one more request, of an instance, and of a name if it deploys.
LEMMA SendTypes ==
  ASSUME War!DeployAssumption, Typed, WarTypes, NEW kind \in {"deploy", "restart"},
         NEW i \in Instances, NEW n, NEW wants, kind = "deploy" => n \in Names,
         War!Send(War!Request(kind, i, n, wants))
  PROVE  /\ warSent' \in 0 .. MaxDeploys
         /\ \A r \in warFlying' : r.kind = "deploy" => r.name \in Names
<1>1. War!Request(kind, i, n, wants).kind = kind /\ War!Request(kind, i, n, wants).name = n
  BY DEF War!Request
<1> QED
  BY <1>1 DEF War!Send, WarTypes, War!DeployAssumption

\* A deploy that is sent: its file is chosen, so the target has a name.
LEMMA DeployTypes ==
  ASSUME War!DeployAssumption, Typed, WarTypes, NEW consent, War!RunDeploy(consent),
         consent \subseteq {<<chosen, War!targetName>>},
         UNCHANGED <<War!host, War!probe>>,
         warSudo' = warSudo \/ warSudo' = War!NoSudo
  PROVE  WarTypes'
<1>1. War!targetName \in Names /\ chosen \in Instances
  BY DEF Typed, Target, War!RunDeploy, War!targetName
<1>2. /\ warSent' \in 0 .. MaxDeploys
      /\ \A r \in warFlying' : r.kind = "deploy" => r.name \in Names
  BY <1>1, SendTypes DEF War!RunDeploy
<1>3. warAgreed' \subseteq Instances \X Names /\ asking' \in BOOLEAN /\ unasked' \in BOOLEAN
  <2>1. warAgreed' = warAgreed \cup consent /\ asking' = FALSE
    BY DEF War!RunDeploy
  <2>2. unasked' = (unasked \/ (War!collision /\ <<chosen, War!targetName>> \notin warAgreed'))
    BY DEF War!RunDeploy
  <2>3. unasked' \in BOOLEAN
    BY <2>2 DEF WarTypes
  <2>4. warAgreed' \subseteq Instances \X Names
    BY <1>1, <2>1 DEF WarTypes
  <2> QED
    BY <2>1, <2>3, <2>4
<1>4. warSudo'.kind \in {"none", "deploy", "restart"}
  BY DEF WarTypes, War!NoSudo
<1> QED
  BY <1>2, <1>3, <1>4 DEF WarTypes, War!host, War!probe

\* A host gets the WAR of the deploy it serves, and an instance that is
\* restarted runs what is on it.
LEMMA HostTypes ==
  ASSUME War!DeployAssumption, Typed, WarTypes, NEW r \in warFlying, War!HostServes(r)
  PROVE  WarTypes'
<1>1. r \in Requests /\ r.instance \in Instances
  BY DEF Typed, Requests
<1>2. UNCHANGED <<warSent, War!form, War!probe, warAgreed, unasked>>
  BY DEF War!HostServes
<1>3. host_' \in [Instances -> SUBSET Names]
  <2>1. r.kind = "deploy" /\ War!Lands(r) => host_' \in [Instances -> SUBSET Names]
    BY <1>1 DEF War!Lands, WarTypes
  <2> QED
    BY <2>1 DEF War!HostServes, War!ServeDeploy, War!ServeRestart, WarTypes
<1>4. ran' \subseteq Instances \X Names
  <2>1. War!Restarts(r.instance) => ran' \subseteq Instances \X Names
    <3>1. host_'[r.instance] \subseteq Names
      BY <1>1, <1>3
    <3> QED
      BY <1>1, <3>1 DEF War!Restarts, WarTypes
  <2> QED
    BY <2>1 DEF War!HostServes, War!ServeDeploy, War!ServeRestart, WarTypes
<1>5. \A s \in warFlying' : s.kind = "deploy" => s.name \in Names
  <2>1. PICK ok \in BOOLEAN, needs \in BOOLEAN, restarted \in BOOLEAN :
          War!Served(r, ok, needs, restarted)
    BY DEF War!HostServes, War!ServeDeploy, War!ServeRestart
  <2>2. PICK s \in Requests : /\ warFlying' = (warFlying \ {r}) \cup {s}
                              /\ s.kind = r.kind /\ s.name = r.name
    BY <1>1, <2>1, ServedIsRequest
  <2> QED
    BY <2>2 DEF WarTypes
<1> QED
  BY <1>2, <1>3, <1>4, <1>5 DEF WarTypes, War!form, War!probe

\* The types of the panel are kept by every step of it.
LEMMA WarTypesStep ==
  ASSUME War!DeployAssumption, FormInv, WarTypes, [War!Next]_(War!vars)
  PROVE  WarTypes'
<1>1. Typed /\ War!NoSudo.kind = "none"
  BY DEF FormInv, War!NoSudo
<1>2. ASSUME NEW n \in Names \cup {None}, War!PickFile(n) \/ War!TypeFilename(n) PROVE WarTypes'
  BY <1>1, <1>2 DEF War!PickFile, War!TypeFilename, WarTypes, War!host, War!probe
<1>3. ASSUME NEW i \in Instances, War!ChooseInstance(i) PROVE WarTypes'
  BY <1>1, <1>3 DEF War!ChooseInstance, WarTypes, War!host, War!probe
<1>4. CASE War!ToggleRestart \/ War!CancelOverwrite \/ War!CancelSudo
  BY <1>1, <1>4 DEF War!ToggleRestart, War!CancelOverwrite, War!CancelSudo, WarTypes, War!host,
                    War!probe
<1>5. CASE War!Begin
  <2>1. UNCHANGED <<War!host, War!probe>> /\ warSudo' = War!NoSudo
    BY <1>5 DEF War!Begin
  <2>2. CASE UNCHANGED <<warSent, warFlying, warAgreed, unasked>> /\ asking' \in BOOLEAN
    BY <1>1, <2>1, <2>2 DEF WarTypes, War!host, War!probe
  <2>3. ASSUME NEW consent, consent \subseteq {<<chosen, War!targetName>>},
               War!RunDeploy(consent)
        PROVE  WarTypes'
    BY <1>1, <2>1, <2>3, DeployTypes
  <2> QED
    BY <1>5, <2>2, <2>3 DEF War!Begin, WarTypes
<1>6. CASE War!Overwrite
  BY <1>1, <1>6, DeployTypes DEF War!Overwrite
<1>7. CASE War!SubmitSudo
  <2>1. UNCHANGED <<War!host, War!probe, warSudo>>
    BY <1>7 DEF War!SubmitSudo
  <2>2. CASE War!RunDeploy({})
    BY <1>1, <2>1, <2>2, DeployTypes
  <2>3. CASE warSudo.kind = "restart" /\ War!RunRestart
    <3>1. War!RestartTarget \in Instances
      BY <2>3 DEF FormInv, Pointed, War!RestartTarget
    <3>2. /\ warSent' \in 0 .. MaxDeploys
          /\ \A r \in warFlying' : r.kind = "deploy" => r.name \in Names
      BY <1>1, <2>3, <3>1, SendTypes DEF War!RunRestart
    <3> QED
      BY <2>1, <2>3, <3>2 DEF War!RunRestart, WarTypes, War!host, War!probe
  <2> QED
    BY <1>7, <2>2, <2>3 DEF War!SubmitSudo
<1>8. ASSUME NEW r \in warFlying, War!HostServes(r) PROVE WarTypes'
  BY <1>1, <1>8, HostTypes
<1>9. ASSUME NEW r \in warFlying, War!Answered(r) PROVE WarTypes'
  <2>1. /\ warFlying' \subseteq warFlying
        /\ UNCHANGED <<War!host, warSent, War!probe, warAgreed, unasked>>
    BY <1>9 DEF War!Answered
  <2>2. asking' \in BOOLEAN /\ warSudo'.kind \in {"none", "deploy", "restart"}
    <3>1. asking' \in {asking, FALSE}
      BY <1>9 DEF War!Answered, War!DeployAnswered, War!RestartAnswered, War!ResetChoice,
                  War!KeepChoice, War!form
    <3>2. ASSUME NEW lost, War!DeployAnswered(r, lost)
          PROVE  warSudo'.kind \in {"none", "deploy", "restart"}
      BY <1>1, <3>2 DEF War!DeployAnswered
    <3>3. ASSUME NEW lost, War!RestartAnswered(r, lost)
          PROVE  warSudo'.kind \in {"none", "deploy", "restart"}
      BY <1>1, <3>3 DEF War!RestartAnswered, WarTypes
    <3>4. warSudo'.kind \in {"none", "deploy", "restart"}
      BY <1>9, <3>2, <3>3 DEF War!Answered, War!form, WarTypes
    <3> QED
      BY <3>1, <3>4 DEF WarTypes
  <2> QED
    BY <2>1, <2>2 DEF WarTypes, War!host, War!probe
<1>10. CASE War!RefreshInstances
  BY <1>10 DEF War!RefreshInstances, WarTypes, War!host
<1>11. CASE War!Remount
  <2>1. /\ UNCHANGED <<War!host, warSent, unasked>>
        /\ warFlying' = {[r EXCEPT !.mine = FALSE] : r \in warFlying}
        /\ warSudo' = War!NoSudo /\ asking' = FALSE /\ warAgreed' = {} /\ webapps' = host_
    BY <1>11 DEF War!Remount, War!Fresh
  <2>2. \A s \in warFlying' : s.kind = "deploy" => s.name \in Names
    <3>1. \A s \in warFlying' : \E r \in warFlying : s.kind = r.kind /\ s.name = r.name
      BY <1>1, <2>1 DEF Typed, Requests
    <3> QED
      BY <3>1 DEF WarTypes
  <2> QED
    BY <1>1, <2>1, <2>2 DEF WarTypes, War!host
<1>12. CASE UNCHANGED War!vars
  BY <1>12 DEF War!vars, WarTypes, War!form, War!host, War!probe
<1> QED
  BY <1>2, <1>3, <1>4, <1>5, <1>6, <1>7, <1>8, <1>9, <1>10, <1>11, <1>12
  DEF War!Next, War!Operator, War!Outside, War!DeployForm, War!OverwriteBox, War!SudoBox

\* What the panel keeps has its types.
LEMMA WarTypeCorrect == War!Spec => [](War!TypeOK)
<1>1. War!DeployAssumption
  BY PageAssumption
<1>2. War!Init => FormInv /\ WarTypes
  <2>1. War!Init => FormInv
    BY <1>1, WarInit
  <2>2. ASSUME War!Init PROVE WarTypes
    <3>1. host_ \in [Instances -> SUBSET Names] /\ webapps = host_
      BY <2>2 DEF War!Init
    <3>2. warSudo.kind = "none"
      BY <2>2 DEF War!Init, War!NoSudo
    <3>3. warSent \in 0 .. MaxDeploys
      <4>1. warSent = 0
        BY <2>2 DEF War!Init
      <4> QED
        BY <1>1, <4>1 DEF War!DeployAssumption
    <3> QED
      BY <2>2, <3>1, <3>2, <3>3 DEF War!Init, WarTypes
  <2> QED
    BY <2>1, <2>2
<1>3. FormInv /\ WarTypes /\ [War!Next]_(War!vars) => FormInv' /\ WarTypes'
  BY <1>1, WarStep, WarTypesStep
<1>4. FormInv /\ WarTypes => War!TypeOK
  BY DEF FormInv, Typed, WarTypes, War!TypeOK, Target
<1> QED
  BY <1>2, <1>3, <1>4, PTL DEF War!Spec

-----------------------------------------------------------------------------
(* The page itself. Any task may clear the slot, and whoever set it need not be   *)
(* the one: but whatever set it clears it at its end, so while it is taken some   *)
(* task that clears it is under way. An operation is sent by a button that does    *)
(* not ask, after the dialog that does, or out of a prompt for one that was sent.  *)

Loads == {"vitals", "folder", "reactivate", "discovery", "containers", "images", "monitoring",
          "tomcat", "server", "edit", "credentials"}
TaskRecords == [id : Nat, kind : Loads \cup {"op", "log"}, what : Ops \cup Sources \cup {None},
                clears : BOOLEAN]

DetailTasks ==
  /\ sent \in Nat /\ busy \in BOOLEAN
  /\ tasks \subseteq TaskRecords
  /\ \A t \in tasks : t.id \in 1 .. sent
  /\ \A t \in tasks : t.kind = "op" => t.what \in Ops /\ t.clears
  /\ \A t \in tasks : t.kind = "log" => t.what \in Sources

DetailPane ==
  /\ tab \in Detail!Offered(server, probe)
  /\ server \in Detail!Snapshots /\ probe \in {"none", "empty", "some"}
  /\ auto \in BOOLEAN
  /\ title \in Sources \cup {None} /\ lines \in Sources \cup {None}
  /\ refresher \in Sources \cup {None}
  /\ loaded \subseteq {"containers", "images", "monitoring"}

DetailPrompts == /\ dialog \in Ops \cup {None} /\ sudo \in Ops \cup {None}
                 /\ agreed \subseteq Ops

DetailInv == /\ DetailTasks /\ DetailPane /\ DetailPrompts
             /\ Detail!OnlyWhatWasAgreed /\ Detail!BusyHasATask

\* What a button sends: a load, a log, or an operation that is not asked about.
Quietly(kind, what) == Detail!Start(kind, what) \/ Detail!StartQuiet(kind, what)

SendsOne ==
  \/ UNCHANGED <<tasks, sent, busy>>
  \/ \E kind \in Loads : Quietly(kind, None)
  \/ \E s \in Sources : Detail!Start("log", s)
  \/ \E o \in Ops : ~Detail!NeedsConfirm(o) /\ Detail!Start("op", o)

\* Of what a panel does, what the invariant needs to know.
PanelSends == /\ SendsOne /\ dialog' \in Ops \cup {None}
              /\ title' \in Sources \cup {None} /\ refresher' \in Sources \cup {None}
              /\ UNCHANGED <<lines, auto>>
              /\ loaded' \subseteq {"containers", "images", "monitoring"}

-----------------------------------------------------------------------------
\* A task that starts: its record, and the ones there were.
LEMMA StartedTask ==
  ASSUME DetailTasks, NEW kind \in Loads \cup {"op", "log"}, NEW what \in Ops \cup Sources \cup {None},
         NEW clears \in BOOLEAN
  PROVE  /\ Detail!Task(kind, what, clears) \in TaskRecords
         /\ Detail!Task(kind, what, clears).id = sent + 1
         /\ Detail!Task(kind, what, clears).kind = kind
         /\ Detail!Task(kind, what, clears).what = what
         /\ (Detail!Task(kind, what, clears).clears <=> clears)
<1>1. sent + 1 \in Nat
  BY DEF DetailTasks
<1> QED
  BY <1>1 DEF Detail!Task, TaskRecords

\* An operation that starts takes the slot, and was agreed to if it is asked about.
LEMMA StartKeeps ==
  ASSUME DetailInv, NEW kind \in Loads \cup {"op", "log"}, NEW what \in Ops \cup Sources \cup {None},
         \/ Detail!Start(kind, what)
         \/ kind # "op" /\ Detail!StartQuiet(kind, what),
         kind = "op" => what \in Ops,
         kind = "log" => what \in Sources,
         kind = "op" /\ Detail!NeedsConfirm(what) => what \in agreed',
         agreed \subseteq agreed'
  PROVE  /\ DetailTasks' /\ Detail!BusyHasATask'
         /\ \A t \in tasks' : t.kind = "op" /\ Detail!NeedsConfirm(t.what) => t.what \in agreed'
<1>1. PICK clears \in BOOLEAN :
        /\ tasks' = tasks \cup {Detail!Task(kind, what, clears)} /\ sent' = sent + 1
        /\ busy' = IF clears THEN TRUE ELSE busy
        /\ kind = "op" => clears
  BY DEF Detail!Start, Detail!StartQuiet
<1>2. PICK t : t = Detail!Task(kind, what, clears)
  OBVIOUS
<1>3. /\ t \in TaskRecords /\ t.id = sent + 1 /\ t.kind = kind /\ t.what = what
      /\ (t.clears <=> clears)
  BY <1>2, StartedTask DEF DetailInv
<1>4. tasks' = tasks \cup {t} /\ sent \in Nat /\ busy \in BOOLEAN
  BY <1>1, <1>2 DEF DetailInv, DetailTasks
<1>5. DetailTasks'
  <2>1. busy' \in BOOLEAN
    BY <1>1, <1>4
  <2>2. \A u \in tasks' : u.id \in 1 .. sent'
    BY <1>1, <1>3, <1>4 DEF DetailInv, DetailTasks
  <2>3. tasks' \subseteq TaskRecords /\ sent' \in Nat
    BY <1>1, <1>3, <1>4 DEF DetailInv, DetailTasks
  <2>4. \A u \in tasks' : u.kind = "op" => u.what \in Ops /\ u.clears
    BY <1>1, <1>3, <1>4 DEF DetailInv, DetailTasks
  <2>5. \A u \in tasks' : u.kind = "log" => u.what \in Sources
    BY <1>3, <1>4 DEF DetailInv, DetailTasks
  <2> QED
    BY <2>1, <2>2, <2>3, <2>4, <2>5 DEF DetailTasks
<1>6. Detail!BusyHasATask'
  <2>1. CASE clears
    BY <1>3, <1>4, <2>1 DEF Detail!BusyHasATask
  <2>2. CASE ~clears
    BY <1>1, <1>4, <2>2 DEF DetailInv, Detail!BusyHasATask
  <2> QED
    BY <2>1, <2>2
<1>7. \A u \in tasks' : u.kind = "op" /\ Detail!NeedsConfirm(u.what) => u.what \in agreed'
  BY <1>3, <1>4 DEF DetailInv, Detail!OnlyWhatWasAgreed
<1> QED
  BY <1>5, <1>6, <1>7

\* What a panel sends keeps the tasks in order, whichever of the four it is.
LEMMA SendsOneKeeps ==
  ASSUME DetailInv, SendsOne, agreed' = agreed, sudo' = sudo
  PROVE  DetailTasks' /\ Detail!BusyHasATask' /\ Detail!OnlyWhatWasAgreed'
<1>1. SUFFICES /\ DetailTasks' /\ Detail!BusyHasATask'
               /\ \A t \in tasks' :
                    t.kind = "op" /\ Detail!NeedsConfirm(t.what) => t.what \in agreed'
  BY DEF DetailInv, Detail!OnlyWhatWasAgreed
<1>2. CASE UNCHANGED <<tasks, sent, busy>>
  BY <1>2 DEF DetailInv, DetailTasks, Detail!BusyHasATask, Detail!OnlyWhatWasAgreed
<1>3. ASSUME NEW kind \in Loads, Quietly(kind, None)
      PROVE  /\ DetailTasks' /\ Detail!BusyHasATask'
             /\ \A t \in tasks' :
                  t.kind = "op" /\ Detail!NeedsConfirm(t.what) => t.what \in agreed'
  BY <1>3, StartKeeps DEF Quietly, Loads, DetailInv
<1>4. ASSUME NEW s \in Sources, Detail!Start("log", s)
      PROVE  /\ DetailTasks' /\ Detail!BusyHasATask'
             /\ \A t \in tasks' :
                  t.kind = "op" /\ Detail!NeedsConfirm(t.what) => t.what \in agreed'
  BY <1>4, StartKeeps
<1>5. ASSUME NEW o \in Ops, ~Detail!NeedsConfirm(o), Detail!Start("op", o)
      PROVE  /\ DetailTasks' /\ Detail!BusyHasATask'
             /\ \A t \in tasks' :
                  t.kind = "op" /\ Detail!NeedsConfirm(t.what) => t.what \in agreed'
  BY <1>5, StartKeeps
<1> QED
  BY <1>2, <1>3, <1>4, <1>5 DEF SendsOne

-----------------------------------------------------------------------------
(* The panels.                                                               *)

\* A log that is asked for sends one request; the pane names sources.
LEMMA LogReads ==
  ASSUME DetailPane, NEW s \in Sources,
         \/ Detail!loadContainerLogs(s) \/ Detail!loadContainerEnv(s) \/ Detail!loadTomcatLog(s)
         \/ Detail!loadServiceUnitLogs(s) \/ Detail!loadOnDemandLog(s) \/ Detail!loadDbLogs(s)
  PROVE  /\ SendsOne /\ title' \in Sources \cup {None} /\ refresher' \in Sources \cup {None}
         /\ UNCHANGED <<dialog, lines, auto, loaded>>
  BY DEF DetailPane, SendsOne, Detail!loadContainerLogs, Detail!loadContainerEnv,
         Detail!loadTomcatLog, Detail!loadServiceUnitLogs, Detail!loadOnDemandLog,
         Detail!loadDbLogs, Detail!Reads

\* A load sends one request and shows nothing yet.
LEMMA LoadSends ==
  ASSUME \/ Detail!refreshServerVitals \/ Detail!assignFolder \/ Detail!reactivateServer
         \/ Detail!runDiscovery \/ Detail!loadContainers \/ Detail!loadTomcat
         \/ Detail!saveDetails \/ Detail!saveCredentials
  PROVE  SendsOne /\ UNCHANGED <<dialog, Detail!pane, loaded>>
  BY DEF SendsOne, Quietly, Loads, Detail!refreshServerVitals, Detail!assignFolder,
         Detail!reactivateServer, Detail!runDiscovery, Detail!loadContainers,
         Detail!loadTomcat, Detail!saveDetails, Detail!saveCredentials, Detail!Plain

\* An operation sends one request, or is asked about.
LEMMA OpAsks ==
  ASSUME NEW o \in Ops, Detail!Asks(o)
  PROVE  SendsOne /\ dialog' \in {dialog, o} /\ UNCHANGED <<Detail!pane, loaded>>
  BY DEF SendsOne, Detail!Asks

\* Every panel that is offered sends one request at most, or asks.
LEMMA PanelsSend == ASSUME DetailInv, Detail!Panels PROVE PanelSends
<1>1. DetailPane /\ DetailPrompts
  BY DEF DetailInv
<1>2. ASSUME \/ Detail!refreshServerVitals \/ Detail!assignFolder \/ Detail!reactivateServer
             \/ Detail!runDiscovery \/ Detail!loadContainers \/ Detail!loadTomcat
             \/ Detail!saveDetails \/ Detail!saveCredentials
      PROVE  PanelSends
  BY <1>1, <1>2, LoadSends DEF PanelSends, Detail!pane, DetailPane, DetailPrompts
<1>3. ASSUME NEW s \in Sources,
             \/ Detail!loadContainerLogs(s) \/ Detail!loadContainerEnv(s)
             \/ Detail!loadTomcatLog(s) \/ Detail!loadServiceUnitLogs(s)
             \/ Detail!loadOnDemandLog(s) \/ Detail!loadDbLogs(s)
      PROVE  PanelSends
  BY <1>1, <1>3, LogReads DEF PanelSends, DetailPane, DetailPrompts
<1>4. ASSUME NEW o \in Ops, Detail!Asks(o) PROVE PanelSends
  BY <1>1, <1>4, OpAsks DEF PanelSends, Detail!pane, DetailPane, DetailPrompts
<1>5. CASE Detail!loadImages
  <2>1. SendsOne
    BY <1>5 DEF Detail!loadImages, SendsOne, Quietly, Loads
  <2> QED
    BY <1>1, <1>5, <2>1 DEF PanelSends, Detail!loadImages, DetailPane, DetailPrompts, Detail!pane
<1>6. CASE Detail!RunRefresher
  BY <1>1, <1>3, <1>6 DEF Detail!RunRefresher, DetailPane
<1>7. CASE Detail!OverviewTab \/ Detail!ActionsMenu \/ Detail!InactiveBanner
           \/ Detail!EditServerDialog \/ Detail!CredentialsDialog
  BY <1>2, <1>7 DEF Detail!OverviewTab, Detail!ActionsMenu, Detail!InactiveBanner,
                    Detail!EditServerDialog, Detail!CredentialsDialog
<1>8. CASE Detail!ServicesTab
  BY <1>3, <1>4, <1>8 DEF Detail!ServicesTab, Detail!restartSelectedService
<1>9. CASE Detail!TomcatTab
  BY <1>2, <1>3, <1>4, <1>9 DEF Detail!TomcatTab, Detail!runTomcatAction
<1>10. CASE Detail!ContainersTab
  BY <1>2, <1>3, <1>4, <1>5, <1>10
  DEF Detail!ContainersTab, Detail!restartSelectedContainer, Detail!removeSelectedContainer,
      Detail!removeSelectedImage
<1>11. CASE Detail!DatabaseLogsTab
  BY <1>3, <1>11 DEF Detail!DatabaseLogsTab
<1>12. CASE Detail!MonitoringTab
  BY <1>2, <1>4, <1>12 DEF Detail!MonitoringTab, Detail!installMetrics, Detail!uninstallMetrics,
                           Detail!saveLogShipping
<1>13. CASE Detail!LogsTab \/ Detail!AutoRefresh
  BY <1>3, <1>6, <1>13 DEF Detail!LogsTab, Detail!AutoRefresh
<1> QED
  BY <1>7, <1>8, <1>9, <1>10, <1>11, <1>12, <1>13 DEF Detail!Panels

-----------------------------------------------------------------------------
(* The operator.                                                             *)

\* What the invariant says of the tasks is about nothing else.
LEMMA TasksStay ==
  ASSUME DetailInv, UNCHANGED <<tasks, sent, busy>>, agreed \subseteq agreed'
  PROVE  /\ DetailTasks' /\ Detail!BusyHasATask'
         /\ \A t \in tasks' : t.kind = "op" /\ Detail!NeedsConfirm(t.what) => t.what \in agreed'
  BY DEF DetailInv, DetailTasks, Detail!BusyHasATask, Detail!OnlyWhatWasAgreed

\* A panel keeps the invariant.
LEMMA PanelStep ==
  ASSUME DetailInv, Detail!Panels, UNCHANGED <<tab, server, probe, sudo, agreed>>
  PROVE  DetailInv'
<1>1. PanelSends
  BY PanelsSend
<1>2. DetailTasks' /\ Detail!BusyHasATask' /\ Detail!OnlyWhatWasAgreed'
  BY <1>1, SendsOneKeeps DEF PanelSends
<1>3. DetailPane'
  BY <1>1 DEF PanelSends, DetailInv, DetailPane, Detail!Offered, Detail!hasTomcat
<1>4. DetailPrompts'
  BY <1>1 DEF PanelSends, DetailInv, DetailPrompts
<1> QED
  BY <1>2, <1>3, <1>4 DEF DetailInv

\* So does a tab that is picked, and loads the first time.
LEMMA TabStep ==
  ASSUME DetailInv, Detail!TabStrip, UNCHANGED <<server, probe>>
  PROVE  DetailInv'
<1>1. PICK t \in Detail!Offered(server, probe) :
        /\ tab' = t
        /\ \/ t \in {"containers", "monitoring"} \ loaded /\ Detail!AutoLoad(t)
           \/ UNCHANGED <<sent, tasks, busy, dialog, Detail!pane, loaded>>
  BY DEF Detail!TabStrip
<1>2. UNCHANGED <<sudo, agreed, server, probe, dialog, Detail!pane>>
  BY <1>1 DEF Detail!TabStrip, Detail!AutoLoad
<1>3. SendsOne /\ loaded' \subseteq {"containers", "images", "monitoring"}
  BY <1>1 DEF Detail!AutoLoad, SendsOne, Quietly, Loads, DetailInv, DetailPane
<1>4. DetailTasks' /\ Detail!BusyHasATask' /\ Detail!OnlyWhatWasAgreed'
  BY <1>2, <1>3, SendsOneKeeps
<1>5. DetailPane'
  BY <1>1, <1>2, <1>3 DEF DetailInv, DetailPane, Detail!pane, Detail!Offered, Detail!hasTomcat
<1>6. DetailPrompts'
  BY <1>2 DEF DetailInv, DetailPrompts
<1> QED
  BY <1>4, <1>5, <1>6 DEF DetailInv

\* The password form sends what it was asked for again, and drops or keeps it.
LEMMA SudoStep ==
  ASSUME DetailInv, Detail!SudoForm, UNCHANGED <<tab, server, probe>>
  PROVE  DetailInv'
<1>1. sudo \in Ops /\ sudo # None /\ UNCHANGED <<dialog, Detail!pane, loaded, agreed>>
  BY DEF Detail!SudoForm, DetailInv, DetailPrompts
<1>2. Detail!NeedsConfirm(sudo) => sudo \in agreed'
  BY <1>1 DEF DetailInv, Detail!OnlyWhatWasAgreed
<1>3. /\ DetailTasks' /\ Detail!BusyHasATask' /\ sudo' \in {sudo, None}
      /\ \A t \in tasks' : t.kind = "op" /\ Detail!NeedsConfirm(t.what) => t.what \in agreed'
  <2>1. CASE Detail!submitSudoPassword
    <3>1. Detail!Start("op", sudo) /\ sudo' = sudo
      BY <2>1 DEF Detail!submitSudoPassword, Detail!RetryOf
    <3> QED
      BY <1>1, <1>2, <3>1, StartKeeps
  <2>2. CASE Detail!cancelSudo
    BY <1>1, <2>2, TasksStay DEF Detail!cancelSudo
  <2> QED
    BY <2>1, <2>2 DEF Detail!SudoForm
<1>4. Detail!OnlyWhatWasAgreed'
  BY <1>1, <1>2, <1>3 DEF Detail!OnlyWhatWasAgreed
<1>5. DetailPane' /\ DetailPrompts'
  BY <1>1, <1>3 DEF DetailInv, DetailPane, DetailPrompts, Detail!pane, Detail!Offered,
                    Detail!hasTomcat
<1> QED
  BY <1>3, <1>4, <1>5 DEF DetailInv

\* The dialog, confirmed or not, and the box of the timer.
LEMMA DialogStep ==
  ASSUME DetailInv, Detail!Confirmed \/ Detail!Cancelled \/ Detail!SetAuto,
         UNCHANGED <<tab, server, probe>>
  PROVE  DetailInv'
<1>1. sudo' = sudo /\ agreed \subseteq agreed'
  BY DEF Detail!Confirmed, Detail!Cancelled, Detail!SetAuto
<1>2. /\ DetailTasks' /\ Detail!BusyHasATask'
      /\ \A t \in tasks' : t.kind = "op" /\ Detail!NeedsConfirm(t.what) => t.what \in agreed'
  <2>1. CASE Detail!Confirmed
    <3>1. dialog \in Ops /\ Detail!Start("op", dialog) /\ dialog \in agreed'
      BY <2>1 DEF Detail!Confirmed, DetailInv, DetailPrompts
    <3> QED
      BY <1>1, <3>1, StartKeeps
  <2>2. CASE Detail!Cancelled \/ Detail!SetAuto
    <3>1. UNCHANGED <<tasks, sent, busy>>
      BY <2>2 DEF Detail!Cancelled, Detail!SetAuto
    <3> QED
      BY <1>1, <3>1, TasksStay
  <2> QED
    BY <2>1, <2>2
<1>3. Detail!OnlyWhatWasAgreed'
  BY <1>1, <1>2 DEF DetailInv, Detail!OnlyWhatWasAgreed
<1>4. DetailPrompts'
  BY <1>1 DEF DetailInv, DetailPrompts, Detail!Confirmed, Detail!Cancelled, Detail!SetAuto
<1>5. DetailPane'
  <2>1. UNCHANGED <<title, lines, refresher, loaded>> /\ auto' \in BOOLEAN
    BY DEF Detail!Confirmed, Detail!Cancelled, Detail!SetAuto, Detail!pane, DetailInv, DetailPane
  <2> QED
    BY <2>1 DEF DetailInv, DetailPane, Detail!Offered, Detail!hasTomcat
<1> QED
  BY <1>2, <1>3, <1>4, <1>5 DEF DetailInv

-----------------------------------------------------------------------------
(* The answers.                                                              *)

\* A task that ends leaves a task that clears the slot, or the slot free.
LEMMA EndsKeeps ==
  ASSUME DetailInv, NEW t \in tasks, Detail!Ends(t), sent' = sent, agreed' = agreed
  PROVE  /\ DetailTasks' /\ Detail!BusyHasATask'
         /\ \A u \in tasks' : u.kind = "op" /\ Detail!NeedsConfirm(u.what) => u.what \in agreed'
<1>1. tasks' = tasks \ {t} /\ busy' = IF t.clears THEN FALSE ELSE busy
  BY DEF Detail!Ends
<1>2. busy' \in BOOLEAN
  BY <1>1 DEF DetailInv, DetailTasks
<1>3. DetailTasks'
  BY <1>1, <1>2 DEF DetailInv, DetailTasks
<1>4. Detail!BusyHasATask'
  BY <1>1 DEF DetailInv, Detail!BusyHasATask
<1> QED
  BY <1>1, <1>3, <1>4 DEF DetailInv, Detail!OnlyWhatWasAgreed

\* A task that goes on as a load: it may take the slot if it clears it.
LEMMA GoesOnKeeps ==
  ASSUME DetailInv, NEW t \in tasks, NEW kind \in Loads, Detail!GoesOn(t, kind),
         kind \notin {"server", "monitoring"} => t.clears, sent' = sent, agreed' = agreed
  PROVE  /\ DetailTasks' /\ Detail!BusyHasATask'
         /\ \A u \in tasks' : u.kind = "op" /\ Detail!NeedsConfirm(u.what) => u.what \in agreed'
<1>1. t \in TaskRecords
  BY DEF DetailInv, DetailTasks
<1>2. PICK u : u = [t EXCEPT !.kind = kind, !.what = None]
  OBVIOUS
<1>3. u \in TaskRecords /\ u.id = t.id /\ u.kind = kind /\ (u.clears <=> t.clears)
  BY <1>1, <1>2 DEF TaskRecords
<1>4. tasks' = (tasks \ {t}) \cup {u}
  BY <1>2 DEF Detail!GoesOn
<1>5. kind # "op" /\ kind # "log"
  BY DEF Loads
<1>6. DetailTasks'
  <2>1. busy' \in BOOLEAN
    BY DEF Detail!GoesOn, DetailInv, DetailTasks
  <2>2. tasks' \subseteq TaskRecords /\ \A v \in tasks' : v.id \in 1 .. sent'
    BY <1>3, <1>4 DEF DetailInv, DetailTasks
  <2>3. \A v \in tasks' : /\ v.kind = "op" => v.what \in Ops /\ v.clears
                          /\ v.kind = "log" => v.what \in Sources
    BY <1>3, <1>4, <1>5 DEF DetailInv, DetailTasks
  <2> QED
    BY <2>1, <2>2, <2>3 DEF DetailInv, DetailTasks
<1>7. Detail!BusyHasATask'
  <2>1. CASE t.clears
    BY <1>3, <1>4, <2>1 DEF Detail!BusyHasATask
  <2>2. CASE ~t.clears
    <3>1. busy' = busy
      BY <2>2 DEF Detail!GoesOn
    <3> QED
      BY <1>4, <2>2, <3>1 DEF DetailInv, Detail!BusyHasATask
  <2> QED
    BY <2>1, <2>2
<1>8. \A v \in tasks' : v.kind = "op" /\ Detail!NeedsConfirm(v.what) => v.what \in agreed'
  BY <1>3, <1>4, <1>5 DEF DetailInv, Detail!OnlyWhatWasAgreed
<1> QED
  BY <1>6, <1>7, <1>8

\* A log that came is of a source, and its tab is always offered.
LEMMA LogStep ==
  ASSUME DetailInv, NEW t \in tasks, NEW ok \in BOOLEAN, Detail!LogAnswered(t, ok)
  PROVE  DetailInv'
<1>1. t.what \in Sources
  BY DEF Detail!LogAnswered, DetailInv, DetailTasks
<1>2. UNCHANGED <<server, probe, sent, dialog, sudo, refresher, auto, loaded, agreed>>
  BY DEF Detail!LogAnswered
<1>3. /\ DetailTasks' /\ Detail!BusyHasATask'
      /\ \A u \in tasks' : u.kind = "op" /\ Detail!NeedsConfirm(u.what) => u.what \in agreed'
  BY <1>2, EndsKeeps DEF Detail!LogAnswered
<1>4. /\ tab' \in {tab, "logs"} /\ lines' \in Sources \cup {None}
      /\ title' \in Sources \cup {None}
  BY <1>1 DEF Detail!LogAnswered, DetailInv, DetailPane
<1>5. DetailPane'
  <2>1. "logs" \in Detail!Offered(server, probe)
    BY DEF Detail!Offered, Detail!Always
  <2>2. tab' \in Detail!Offered(server, probe)'
    BY <1>2, <1>4, <2>1 DEF DetailInv, DetailPane, Detail!Offered, Detail!hasTomcat
  <2> QED
    BY <1>2, <1>4, <2>2 DEF DetailInv, DetailPane
<1>6. DetailPrompts' /\ Detail!OnlyWhatWasAgreed'
  BY <1>2, <1>3 DEF DetailInv, DetailPrompts, Detail!OnlyWhatWasAgreed
<1> QED
  BY <1>3, <1>5, <1>6 DEF DetailInv

\* An operation that needs a password is the one that was sent; the prompt for it
\* stands for what was agreed to.
LEMMA OpStep ==
  ASSUME DetailInv, NEW t \in tasks, NEW outcome, Detail!OpAnswered(t, outcome)
  PROVE  DetailInv'
<1>1. t.kind = "op" /\ t.what \in Ops /\ t.clears
  BY DEF Detail!OpAnswered, DetailInv, DetailTasks
<1>2. UNCHANGED <<tab, server, probe, sent, dialog, Detail!pane, loaded, agreed>>
  BY DEF Detail!OpAnswered
<1>3. /\ DetailTasks' /\ Detail!BusyHasATask'
      /\ \A u \in tasks' : u.kind = "op" /\ Detail!NeedsConfirm(u.what) => u.what \in agreed'
  <2>1. Detail!LoadAfter(t.what) \in Loads
    BY DEF Detail!LoadAfter, Loads
  <2> QED
    BY <1>1, <1>2, <2>1, EndsKeeps, GoesOnKeeps DEF Detail!OpAnswered
<1>4. sudo' \in {sudo, t.what, None}
  BY DEF Detail!OpAnswered
<1>5. Detail!NeedsConfirm(t.what) => t.what \in agreed
  BY <1>1 DEF DetailInv, Detail!OnlyWhatWasAgreed
<1>6. DetailPrompts' /\ Detail!OnlyWhatWasAgreed'
  BY <1>1, <1>2, <1>3, <1>4, <1>5 DEF DetailInv, DetailPrompts, Detail!OnlyWhatWasAgreed
<1>7. DetailPane'
  BY <1>2 DEF DetailInv, DetailPane, Detail!pane, Detail!Offered, Detail!hasTomcat
<1> QED
  BY <1>3, <1>6, <1>7 DEF DetailInv

\* The tab that is shown is offered, whatever an answer brings.
LEMMA ShowsOffered ==
  ASSUME NEW srv \in Detail!Snapshots, NEW prb \in {"none", "empty", "some"},
         Detail!Shows(tab, srv, prb)
  PROVE  /\ tab' \in Detail!Offered(server, probe)'
         /\ server' \in Detail!Snapshots /\ probe' \in {"none", "empty", "some"}
<1>1. server' = srv /\ probe' = prb /\ tab' = Detail!Rendered(tab, srv, prb)
  BY DEF Detail!Shows
<1>2. Detail!Rendered(tab, srv, prb) \in Detail!Offered(srv, prb)
  BY DEF Detail!Rendered, Detail!Offered, Detail!Always
<1>3. Detail!Offered(server, probe)' = Detail!Offered(srv, prb)
  BY <1>1 DEF Detail!Offered, Detail!hasTomcat
<1> QED
  BY <1>1, <1>2, <1>3

\* Loads that are answered.
LEMMA LoadStep ==
  ASSUME DetailInv, NEW t \in tasks, Detail!LoadAnswered(t)
  PROVE  DetailInv'
<1>1. UNCHANGED <<sent, dialog, sudo, refresher, auto, loaded, agreed>>
  BY DEF Detail!LoadAnswered
<1>2. /\ DetailTasks' /\ Detail!BusyHasATask'
      /\ \A u \in tasks' : u.kind = "op" /\ Detail!NeedsConfirm(u.what) => u.what \in agreed'
  <2>1. CASE Detail!Ends(t)
    BY <1>1, <2>1, EndsKeeps
  <2>2. CASE Detail!GoesOn(t, "server")
    BY <1>1, <2>2, GoesOnKeeps DEF Loads
  <2> QED
    BY <2>1, <2>2 DEF Detail!LoadAnswered, Detail!ServerAnswered, Detail!ServerReloads,
                      Detail!TomcatAnswered, Detail!ListAnswered
<1>3. DetailPane /\ server \in Detail!Snapshots /\ probe \in {"none", "empty", "some"}
  BY DEF DetailInv, DetailPane
<1>4. /\ tab' \in Detail!Offered(server, probe)'
      /\ server' \in Detail!Snapshots /\ probe' \in {"none", "empty", "some"}
  <2>1. CASE Detail!ServerAnswered(t)
    BY <1>3, <2>1, ShowsOffered DEF Detail!ServerAnswered
  <2>2. CASE Detail!ServerReloads(t)
    BY <1>3, <2>2, ShowsOffered DEF Detail!ServerReloads
  <2>3. CASE Detail!TomcatAnswered(t)
    BY <1>3, <2>3, ShowsOffered DEF Detail!TomcatAnswered
  <2>4. CASE Detail!ListAnswered(t)
    <3>1. UNCHANGED <<tab, server, probe>>
      BY <2>4 DEF Detail!ListAnswered
    <3> QED
      BY <1>3, <3>1 DEF DetailPane, Detail!Offered, Detail!hasTomcat
  <2> QED
    BY <2>1, <2>2, <2>3, <2>4 DEF Detail!LoadAnswered
<1>5. lines' \in Sources \cup {None} /\ title' \in Sources \cup {None}
  BY <1>3 DEF Detail!LoadAnswered, Detail!ServerAnswered, Detail!ServerReloads,
              Detail!TomcatAnswered, Detail!ListAnswered, DetailPane
<1>6. DetailPane'
  BY <1>1, <1>3, <1>4, <1>5 DEF DetailPane
<1>7. DetailPrompts' /\ Detail!OnlyWhatWasAgreed'
  BY <1>1, <1>2 DEF DetailInv, DetailPrompts, Detail!OnlyWhatWasAgreed
<1> QED
  BY <1>2, <1>6, <1>7 DEF DetailInv

\* Loads that fail.
LEMMA FailStep ==
  ASSUME DetailInv, NEW t \in tasks, Detail!LoadFails(t)
  PROVE  DetailInv'
<1>1. UNCHANGED <<tab, server, probe, sent, dialog, sudo, Detail!pane, loaded, agreed>>
  BY DEF Detail!LoadFails
<1>2. /\ DetailTasks' /\ Detail!BusyHasATask'
      /\ \A u \in tasks' : u.kind = "op" /\ Detail!NeedsConfirm(u.what) => u.what \in agreed'
  BY <1>1, EndsKeeps DEF Detail!LoadFails
<1>3. DetailPane'
  BY <1>1 DEF DetailInv, DetailPane, Detail!pane, Detail!Offered, Detail!hasTomcat
<1>4. DetailPrompts' /\ Detail!OnlyWhatWasAgreed'
  BY <1>1, <1>2 DEF DetailInv, DetailPrompts, Detail!OnlyWhatWasAgreed
<1> QED
  BY <1>2, <1>3, <1>4 DEF DetailInv

-----------------------------------------------------------------------------
\* No step of the page breaks its invariant.
LEMMA DetailStep == ASSUME DetailInv, [Detail!Next]_(Detail!vars) PROVE DetailInv'
<1>1. CASE Detail!Operator
  BY <1>1, TabStep, PanelStep, SudoStep, DialogStep DEF Detail!Operator
<1>2. ASSUME NEW t \in tasks, Detail!Answers(t) PROVE DetailInv'
  BY <1>2, LoadStep, FailStep, LogStep, OpStep DEF Detail!Answers
<1>3. CASE UNCHANGED Detail!vars
  <2>1. UNCHANGED <<tab, server, probe, busy, tasks, sent, dialog, sudo, title, lines, refresher,
                    auto, loaded, agreed>>
    BY <1>3 DEF Detail!vars, Detail!pane
  <2>2. DetailPane' /\ DetailPrompts'
    BY <2>1 DEF DetailInv, DetailPane, DetailPrompts, Detail!Offered, Detail!hasTomcat
  <2>3. /\ DetailTasks' /\ Detail!BusyHasATask'
        /\ \A t \in tasks' : t.kind = "op" /\ Detail!NeedsConfirm(t.what) => t.what \in agreed'
    BY <2>1, TasksStay
  <2> QED
    BY <2>1, <2>2, <2>3 DEF DetailInv, Detail!OnlyWhatWasAgreed
<1> QED
  BY <1>1, <1>2, <1>3 DEF Detail!Next

\* A page starts with nothing under way and nothing asked.
LEMMA DetailInit == ASSUME Detail!Init PROVE DetailInv
<1>1. /\ server \in Detail!Snapshots /\ probe = "none" /\ tab = "overview"
      /\ tasks = {} /\ sent = 0 /\ dialog = None /\ sudo = None
      /\ title = None /\ lines = None /\ refresher = None /\ loaded = {} /\ agreed = {}
  BY DEF Detail!Init
<1>2. ~busy /\ busy \in BOOLEAN /\ auto \in BOOLEAN
  BY DEF Detail!Init
<1>3. DetailTasks
  BY <1>1, <1>2 DEF DetailTasks
<1>4. DetailPane
  BY <1>1, <1>2 DEF DetailPane, Detail!Offered, Detail!Always
<1>5. DetailPrompts /\ Detail!OnlyWhatWasAgreed /\ Detail!BusyHasATask
  BY <1>1, <1>2 DEF DetailPrompts, Detail!OnlyWhatWasAgreed, Detail!BusyHasATask
<1> QED
  BY <1>3, <1>4, <1>5 DEF DetailInv

\* The invariant of the page holds throughout.
LEMMA DetailInvariant == Detail!Spec => []DetailInv
<1>1. Detail!Init => DetailInv
  BY DetailInit
<1>2. DetailInv /\ [Detail!Next]_(Detail!vars) => DetailInv'
  BY DetailStep
<1> QED
  BY <1>1, <1>2, PTL DEF Detail!Spec

\* Whatever is done to the host that drops connections or cannot be undone was
\* agreed to, operation by operation, also by way of a sudo prompt.
THEOREM OnlyTheAgreedRuns == PageSpec => []OnlyWhatWasAgreed
<1>1. DetailInv => OnlyWhatWasAgreed
  BY DEF DetailInv, OnlyWhatWasAgreed
<1> QED
  BY <1>1, PartsOfPage, DetailInvariant, PTL

\* The page keeps its types.
LEMMA DetailTypeCorrect == Detail!Spec => [](Detail!TypeOK)
<1>1. DetailInv => Detail!TypeOK
  BY DEF DetailInv, DetailTasks, DetailPane, DetailPrompts, Detail!TypeOK
<1> QED
  BY <1>1, DetailInvariant, PTL

-----------------------------------------------------------------------------
(* The file panel. One slot names what is under way and answers of any request     *)
(* set and clear it; the newest listing carries the newest ticket and the          *)
(* directory that was asked for last. The operator makes the pane send at most    *)
(* MaxRequests; an upload or a delete that works lists its directory again, which   *)
(* is one request more for each of them.                                       *)

SftpRequests == [id : Nat, op : Sftp!Actions, entry : Entries \cup {Home}, recursive : BOOLEAN,
                 ticket : Nat, state : {"sent", "served"},
                 reason : {"", "gone", "guard", "denied", "populated"},
                 rows : SUBSET Entries, back : Sftp!Places \cup {None}]

\* Those whose answer may list a directory again.
Followed(requests) == {r \in requests : r.op \in {"upload", "delete"}}

SftpPane ==
  /\ disk \subseteq Entries
  /\ listing.path \in Sftp!Places \cup {None} /\ listing.rows \subseteq Entries
  /\ listing.path = None => listing.rows = {}
  /\ pending \in Sftp!Actions \cup {"none"}
  /\ menu \in Entries \cup {None}
  /\ confirming \in [entry : Entries \cup {None}, escalated : BOOLEAN, typed : BOOLEAN]
  /\ (menu # None \/ confirming.entry # None) => listing.path # None
  /\ aimed \in Sftp!Places

SftpFlying ==
  /\ asked \in Nat \ {0} /\ ticket \in 1 .. asked
  /\ flying \subseteq SftpRequests
  /\ \A r \in flying : r.id \in 1 .. asked
  /\ \A r \in flying : r.op = "list" => r.entry \in Sftp!Places /\ r.ticket <= ticket
  /\ \A r \in flying : r.op = "list" /\ r.ticket = ticket => r.entry = aimed
  /\ \A r \in Followed(flying) : r.back \in Sftp!Places

\* What is left to be sent.
Budget(requests, n) == /\ IsFiniteSet(requests)
                       /\ Cardinality(requests) <= n
                       /\ Cardinality(requests) + n <= 2 * MaxListings

SftpBudget == Budget(Followed(flying), asked)

SftpInv == SftpPane /\ SftpFlying /\ SftpBudget /\ Sftp!SpinnerHasARequest

-----------------------------------------------------------------------------
\* The budget of as many requests or fewer.
LEMMA BudgetOfFewer ==
  ASSUME NEW F, NEW n \in Nat, Budget(F, n), NEW G, IsFiniteSet(G),
         Cardinality(G) <= Cardinality(F)
  PROVE  Budget(G, n)
<1>1. Cardinality(F) \in Nat /\ Cardinality(G) \in Nat /\ MaxListings \in Nat
  BY FS_CardinalityType, PageAssumption DEF Budget, Sftp!SftpAssumption
<1> QED
  BY <1>1 DEF Budget

\* One request for another.
LEMMA BudgetOfSwap ==
  ASSUME NEW F, NEW n \in Nat, Budget(F, n), NEW r \in F, NEW s
  PROVE  Budget((F \ {r}) \cup {s}, n)
<1>1. IsFiniteSet(F) /\ Cardinality(F) \in Nat
  BY FS_CardinalityType DEF Budget
<1>2. IsFiniteSet(F \ {r}) /\ Cardinality(F \ {r}) = Cardinality(F) - 1
  BY <1>1, FS_RemoveElement
<1>3. /\ IsFiniteSet((F \ {r}) \cup {s})
      /\ \/ Cardinality((F \ {r}) \cup {s}) = Cardinality(F \ {r}) + 1
         \/ Cardinality((F \ {r}) \cup {s}) = Cardinality(F \ {r})
  BY <1>2, FS_AddElement
<1>4. Cardinality((F \ {r}) \cup {s}) <= Cardinality(F)
  BY <1>1, <1>2, <1>3
<1> QED
  BY <1>3, <1>4, BudgetOfFewer

\* One more is sent while the operator may send one.
LEMMA BudgetOfOneMore ==
  ASSUME NEW F, NEW n \in Nat, Budget(F, n), n < MaxListings, NEW r, NEW G,
         G = F \/ G = F \cup {r}
  PROVE  Budget(G, n + 1)
<1>1. IsFiniteSet(F) /\ Cardinality(F) \in Nat /\ Cardinality(F) <= n /\ MaxListings \in Nat
  BY FS_CardinalityType, PageAssumption DEF Budget, Sftp!SftpAssumption
<1>2. /\ IsFiniteSet(F \cup {r})
      /\ \/ Cardinality(F \cup {r}) = Cardinality(F) + 1
         \/ Cardinality(F \cup {r}) = Cardinality(F)
  BY <1>1, FS_AddElement
<1>3. Budget(F, n + 1)
  BY <1>1 DEF Budget
<1>4. Budget(F \cup {r}, n + 1)
  BY <1>1, <1>2 DEF Budget
<1> QED
  BY <1>3, <1>4

\* One is answered, and one more is sent.
LEMMA BudgetOfAnswer ==
  ASSUME NEW F, NEW n \in Nat, Budget(F, n), NEW r \in F
  PROVE  Budget(F \ {r}, n + 1)
<1>1. IsFiniteSet(F) /\ Cardinality(F) \in Nat /\ MaxListings \in Nat
  BY FS_CardinalityType, PageAssumption DEF Budget, Sftp!SftpAssumption
<1>2. IsFiniteSet(F \ {r}) /\ Cardinality(F \ {r}) = Cardinality(F) - 1
  BY <1>1, FS_RemoveElement
<1> QED
  BY <1>1, <1>2 DEF Budget

-----------------------------------------------------------------------------
\* A request that is sent.
LEMMA RequestIsOne ==
  ASSUME SftpPane, SftpFlying, NEW op \in Sftp!Actions, NEW e \in Entries \cup {Home},
         NEW recursive \in BOOLEAN, NEW tick \in Nat
  PROVE  \A r : r = Sftp!Request(op, e, recursive, tick) =>
           /\ r \in SftpRequests /\ r.id = asked + 1 /\ r.op = op /\ r.entry = e
           /\ r.ticket = tick /\ r.back = listing.path
<1>1. asked + 1 \in Nat /\ listing.path \in Sftp!Places \cup {None}
  BY DEF SftpPane, SftpFlying
<1>2. Sftp!Request(op, e, recursive, tick) \in SftpRequests
  BY <1>1 DEF Sftp!Request, SftpRequests
<1>3. /\ Sftp!Request(op, e, recursive, tick).id = asked + 1
      /\ Sftp!Request(op, e, recursive, tick).op = op
      /\ Sftp!Request(op, e, recursive, tick).entry = e
      /\ Sftp!Request(op, e, recursive, tick).ticket = tick
      /\ Sftp!Request(op, e, recursive, tick).back = listing.path
  BY DEF Sftp!Request
<1> QED
  BY <1>2, <1>3

\* The newest load carries the newest ticket and the directory aimed at.
LEMMA LoadKeeps ==
  ASSUME Sftp!SftpAssumption, SftpPane, SftpFlying, NEW p \in Sftp!Places, NEW others,
         others \subseteq flying, Sftp!Load(p, others), UNCHANGED <<disk, listing, menu>>,
         confirming' = confirming \/ confirming' = Sftp!NoDialog
  PROVE  /\ SftpPane' /\ SftpFlying' /\ Sftp!SpinnerHasARequest'
         /\ Followed(flying') = Followed(others)
<1>1. PICK r : r = Sftp!Request("list", p, FALSE, ticket + 1)
  OBVIOUS
<1>2. ticket + 1 \in Nat /\ p \in Entries \cup {Home} /\ "list" \in Sftp!Actions
  BY DEF SftpFlying, Sftp!Places, Sftp!SftpAssumption, Sftp!Actions
<1>3. /\ r \in SftpRequests /\ r.id = asked + 1 /\ r.op = "list" /\ r.entry = p
      /\ r.ticket = ticket + 1
  <2>1. asked + 1 \in Nat /\ listing.path \in Sftp!Places \cup {None}
    BY DEF SftpPane, SftpFlying
  <2>2. r \in SftpRequests
    BY <1>1, <1>2, <2>1 DEF Sftp!Request, SftpRequests
  <2> QED
    BY <1>1, <2>2 DEF Sftp!Request
<1>4. /\ asked' = asked + 1 /\ ticket' = ticket + 1 /\ flying' = others \cup {r}
      /\ pending' = "list" /\ aimed' = p
  BY <1>1 DEF Sftp!Load
<1>5. SftpPane'
  <2>1. Sftp!NoDialog \in [entry : Entries \cup {None}, escalated : BOOLEAN, typed : BOOLEAN]
        /\ Sftp!NoDialog.entry = None
    BY DEF Sftp!NoDialog
  <2> QED
    BY <1>4, <2>1 DEF SftpPane, Sftp!Actions
<1>6. SftpFlying'
  <2>1. /\ asked' \in Nat \ {0} /\ ticket' \in 1 .. asked' /\ flying' \subseteq SftpRequests
    BY <1>3, <1>4 DEF SftpFlying
  <2>2. \A q \in flying' : q.id \in 1 .. asked'
    BY <1>3, <1>4 DEF SftpFlying
  <2>3. \A q \in others : q.op = "list" =>
                            q.entry \in Sftp!Places /\ q.ticket <= ticket /\ q.ticket \in Nat
    <3>1. \A q \in others : q.ticket \in Nat
      BY DEF SftpFlying, SftpRequests
    <3> QED
      BY <3>1 DEF SftpFlying
  <2>4. \A q \in flying' : q.op = "list" =>
          /\ q.entry \in Sftp!Places /\ q.ticket <= ticket'
          /\ q.ticket = ticket' => q.entry = aimed'
    BY <1>3, <1>4, <2>3 DEF SftpFlying
  <2>5. \A q \in Followed(flying') : q.back \in Sftp!Places
    BY <1>3, <1>4 DEF SftpFlying, Followed
  <2> QED
    BY <2>1, <2>2, <2>4, <2>5 DEF SftpFlying
<1>7. Sftp!SpinnerHasARequest'
  BY <1>3, <1>4 DEF Sftp!SpinnerHasARequest
<1>8. Followed(flying') = Followed(others)
  BY <1>3, <1>4 DEF Followed
<1> QED
  BY <1>5, <1>6, <1>7, <1>8

\* A load of the operator's.
LEMMA NavigateStep ==
  ASSUME Sftp!SftpAssumption, SftpInv, NEW p \in Sftp!Places, asked < MaxListings,
         Sftp!Load(p, flying), UNCHANGED <<disk, listing, menu, confirming>>
  PROVE  SftpInv'
<1>1. /\ SftpPane' /\ SftpFlying' /\ Sftp!SpinnerHasARequest'
      /\ Followed(flying') = Followed(flying)
  BY LoadKeeps DEF SftpInv
<1>2. asked' = asked + 1
  BY DEF Sftp!Load
<1>3. Budget(Followed(flying), asked) /\ asked \in Nat
  BY DEF SftpInv, SftpBudget, SftpFlying
<1>4. SftpBudget'
  BY <1>1, <1>2, <1>3, BudgetOfOneMore DEF SftpBudget
<1> QED
  BY <1>1, <1>4 DEF SftpInv

\* A transfer or a delete is one request more, of those that are followed if it is
\* an upload or a delete.
LEMMA SendStep ==
  ASSUME Sftp!SftpAssumption, SftpInv, NEW op \in {"download", "upload", "delete"},
         NEW e \in Entries \cup {Home}, NEW recursive \in BOOLEAN,
         Sftp!Send(op, e, recursive), listing.path # None \/ op = "download",
         UNCHANGED confirming, menu' = menu \/ menu' = None
  PROVE  SftpInv'
<1>1. PICK r : r = Sftp!Request(op, e, recursive, 0)
  OBVIOUS
<1>2. /\ r \in SftpRequests /\ r.id = asked + 1 /\ r.op = op /\ r.back = listing.path
  <2>1. op \in Sftp!Actions /\ 0 \in Nat
    BY DEF Sftp!Actions
  <2> QED
    BY <1>1, <2>1, RequestIsOne DEF SftpInv
<1>3. /\ asked' = asked + 1 /\ flying' = flying \cup {r} /\ pending' = op
      /\ UNCHANGED <<disk, ticket, listing, aimed>> /\ asked < MaxListings
  BY <1>1 DEF Sftp!Send
<1>4. SftpPane'
  BY <1>3 DEF SftpInv, SftpPane, Sftp!Actions
<1>5. SftpFlying'
  <2>1. /\ asked' \in Nat \ {0} /\ ticket' \in 1 .. asked' /\ flying' \subseteq SftpRequests
    BY <1>2, <1>3 DEF SftpInv, SftpFlying
  <2>2. \A q \in flying' : q.id \in 1 .. asked'
    BY <1>2, <1>3 DEF SftpInv, SftpFlying
  <2>3. \A q \in flying' : q.op = "list" =>
          /\ q.entry \in Sftp!Places /\ q.ticket <= ticket'
          /\ q.ticket = ticket' => q.entry = aimed'
    BY <1>2, <1>3 DEF SftpInv, SftpFlying
  <2>4. op # "download" => listing.path \in Sftp!Places
    BY DEF SftpInv, SftpPane
  <2>5. \A q \in Followed(flying') : q.back \in Sftp!Places
    BY <1>2, <1>3, <2>4 DEF SftpInv, SftpFlying, Followed
  <2> QED
    BY <2>1, <2>2, <2>3, <2>5 DEF SftpFlying
<1>6. Sftp!SpinnerHasARequest'
  BY <1>2, <1>3 DEF Sftp!SpinnerHasARequest
<1>7. SftpBudget'
  <2>1. Followed(flying') = Followed(flying) \/ Followed(flying') = Followed(flying) \cup {r}
    BY <1>3 DEF Followed
  <2>2. Budget(Followed(flying), asked) /\ asked \in Nat
    BY DEF SftpInv, SftpBudget, SftpFlying
  <2> QED
    BY <1>3, <2>1, <2>2, BudgetOfOneMore DEF SftpBudget
<1> QED
  BY <1>4, <1>5, <1>6, <1>7 DEF SftpInv

\* Nothing but the pane moves.
LEMMA PaneStep ==
  ASSUME SftpInv, SftpPane', UNCHANGED <<flying, asked, ticket, pending, aimed>>
  PROVE  SftpInv'
<1>1. SftpFlying'
  BY DEF SftpInv, SftpFlying
<1>2. SftpBudget'
  BY DEF SftpInv, SftpBudget
<1> QED
  BY <1>1, <1>2 DEF SftpInv, Sftp!SpinnerHasARequest

\* Whatever the operator does in the file panel.
LEMMA SftpOperator == ASSUME Sftp!SftpAssumption, SftpInv, Sftp!Operator PROVE SftpInv'
<1>1. SftpPane /\ SftpFlying /\ Home \in Sftp!Places /\ Sftp!Places \subseteq Entries \cup {Home}
  BY DEF SftpInv, Sftp!Places, Sftp!SftpAssumption
<1>2. Sftp!ShownPlace \in Sftp!Places
  BY <1>1 DEF Sftp!ShownPlace, SftpPane
<1>3. Sftp!Up \subseteq Sftp!Places
  BY DEF Sftp!Up, Sftp!SftpAssumption, Sftp!Places
<1>4. ASSUME NEW p \in Sftp!Places, Sftp!Navigate(p) \/ Sftp!SubmitPath(p) PROVE SftpInv'
  BY <1>4, NavigateStep DEF Sftp!Navigate, Sftp!SubmitPath
<1>5. ASSUME NEW e \in listing.rows, Sftp!Download(e) PROVE SftpInv'
  <2>1. e \in Entries \cup {Home} /\ Sftp!Send("download", e, FALSE) /\ menu' = None
        /\ UNCHANGED confirming
    BY <1>1, <1>5 DEF Sftp!Download, SftpPane
  <2> QED
    BY <2>1, SendStep
<1>6. CASE Sftp!Upload
  <2>1. /\ listing.path # None /\ Sftp!Send("upload", listing.path, FALSE)
        /\ UNCHANGED <<menu, confirming>> /\ listing.path \in Entries \cup {Home}
    BY <1>1, <1>6 DEF Sftp!Upload, SftpPane
  <2> QED
    BY <2>1, SendStep
<1>7. CASE Sftp!RunDelete
  <2>1. /\ confirming.entry # None /\ Sftp!Send("delete", confirming.entry, confirming.escalated)
        /\ UNCHANGED <<menu, confirming>> /\ confirming.entry \in Entries \cup {Home}
        /\ listing.path # None /\ confirming.escalated \in BOOLEAN
    BY <1>1, <1>7 DEF Sftp!RunDelete, SftpPane
  <2> QED
    BY <2>1, SendStep
<1>8. CASE Sftp!RetryFailure
  <2>1. CASE failure.action = "list"
    BY <1>1, <1>8, <2>1, NavigateStep DEF Sftp!RetryFailure, SftpPane
  <2>2. CASE failure.action # "list"
    BY <1>1, <1>8, <2>2, PaneStep DEF Sftp!RetryFailure, SftpPane
  <2> QED
    BY <2>1, <2>2
<1>9. ASSUME NEW e \in listing.rows, Sftp!OpenMenu(e) PROVE SftpInv'
  BY <1>1, <1>9, PaneStep DEF Sftp!OpenMenu, SftpPane
<1>10. CASE Sftp!CloseMenu
  BY <1>1, <1>10, PaneStep DEF Sftp!CloseMenu, SftpPane
<1>11. CASE Sftp!AskDelete
  BY <1>1, <1>11, PaneStep DEF Sftp!AskDelete, SftpPane
<1>12. CASE Sftp!CancelDelete
  BY <1>1, <1>12, PaneStep DEF Sftp!CancelDelete, SftpPane, Sftp!NoDialog
<1>13. CASE Sftp!TypeName
  BY <1>1, <1>13, PaneStep DEF Sftp!TypeName, SftpPane
<1>14. menu # None => \A e : e = menu /\ Sftp!Download(e) => e \in listing.rows
  BY DEF Sftp!Download
<1> QED
  BY <1>1, <1>2, <1>3, <1>4, <1>5, <1>6, <1>7, <1>8, <1>9, <1>10, <1>11, <1>12, <1>13, <1>14
  DEF Sftp!Operator, Sftp!Header, Sftp!PlacesBar, Sftp!UploadRow, Sftp!FailureBanner, Sftp!Rows,
      Sftp!RowMenu, Sftp!DeleteDialog, Sftp!Places

-----------------------------------------------------------------------------
(* The host and the answers.                                                 *)

\* A request that was served is what it was, of the same kind and ticket.
LEMMA ServeStep ==
  ASSUME SftpInv, NEW r \in flying, NEW removed,
         NEW reason \in {"", "gone", "guard", "denied", "populated"},
         NEW rows \in SUBSET Entries, Sftp!Serve(r, removed, reason, rows)
  PROVE  SftpInv'
<1>1. /\ disk' = disk \ removed
      /\ UNCHANGED <<asked, ticket, listing, pending, failure, menu, confirming, aimed>>
  BY DEF Sftp!Serve, Sftp!pane
<1>2. r \in SftpRequests
  BY DEF SftpInv, SftpFlying
<1>3. PICK s \in SftpRequests :
        /\ flying' = (flying \ {r}) \cup {s}
        /\ s.id = r.id /\ s.op = r.op /\ s.entry = r.entry /\ s.ticket = r.ticket
        /\ s.back = r.back
  <2>1. PICK s : s = [r EXCEPT !.state = "served", !.reason = reason, !.rows = rows]
    OBVIOUS
  <2>2. s \in SftpRequests
    BY <1>2, <2>1 DEF SftpRequests
  <2>3. /\ s.id = r.id /\ s.op = r.op /\ s.entry = r.entry /\ s.ticket = r.ticket
        /\ s.back = r.back
    BY <1>2, <2>1 DEF SftpRequests
  <2>4. flying' = (flying \ {r}) \cup {s}
    BY <2>1 DEF Sftp!Serve
  <2> QED
    BY <2>2, <2>3, <2>4
<1>4. SftpPane'
  BY <1>1 DEF SftpInv, SftpPane
<1>5. SftpFlying'
  <2>1. /\ asked' \in Nat \ {0} /\ ticket' \in 1 .. asked' /\ flying' \subseteq SftpRequests
        /\ \A q \in flying' : q.id \in 1 .. asked'
    BY <1>1, <1>3 DEF SftpInv, SftpFlying
  <2>2. \A q \in flying' : q.op = "list" =>
          /\ q.entry \in Sftp!Places /\ q.ticket <= ticket'
          /\ q.ticket = ticket' => q.entry = aimed'
    BY <1>1, <1>3 DEF SftpInv, SftpFlying
  <2>3. \A q \in Followed(flying') : q.back \in Sftp!Places
    BY <1>3 DEF SftpInv, SftpFlying, Followed
  <2> QED
    BY <2>1, <2>2, <2>3 DEF SftpFlying
<1>6. SftpBudget'
  <2>1. Followed(flying') = IF r \in Followed(flying) THEN (Followed(flying) \ {r}) \cup {s}
                            ELSE Followed(flying)
    BY <1>3 DEF Followed
  <2>2. Budget(Followed(flying), asked) /\ asked \in Nat
    BY DEF SftpInv, SftpBudget, SftpFlying
  <2> QED
    <3>1. CASE r \in Followed(flying)
      <4>1. Budget((Followed(flying) \ {r}) \cup {s}, asked)
        BY <2>2, <3>1, BudgetOfSwap
      <4> QED
        BY <1>1, <2>1, <3>1, <4>1 DEF SftpBudget
    <3>2. CASE r \notin Followed(flying)
      BY <1>1, <2>1, <2>2, <3>2 DEF SftpBudget
    <3> QED
      BY <3>1, <3>2
<1>7. Sftp!SpinnerHasARequest'
  BY <1>1, <1>3 DEF SftpInv, Sftp!SpinnerHasARequest
<1> QED
  BY <1>4, <1>5, <1>6, <1>7 DEF SftpInv

\* Whatever the host does with a request.
LEMMA SftpHost ==
  ASSUME SftpInv, NEW r \in flying, Sftp!HostServes(r) PROVE SftpInv'
<1>1. Sftp!RowsOf(r.entry) \in SUBSET Entries /\ {} \in SUBSET Entries
  BY DEF SftpInv, SftpPane, Sftp!RowsOf
<1>2. \A out \in Sftp!DeleteOutcomes(r.entry, r.recursive) :
        out[2] \in {"", "gone", "guard", "denied", "populated"}
  <2>1. \A x : /\ <<x, "">>[2] = "" /\ <<x, "gone">>[2] = "gone"
               /\ <<x, "guard">>[2] = "guard" /\ <<x, "denied">>[2] = "denied"
               /\ <<x, "populated">>[2] = "populated"
    OBVIOUS
  <2>2. ASSUME NEW out \in Sftp!DeleteOutcomes(r.entry, r.recursive)
        PROVE  \E x : out \in {<<x, "">>, <<x, "gone">>, <<x, "guard">>, <<x, "denied">>,
                               <<x, "populated">>}
    BY Zenon DEF Sftp!DeleteOutcomes
  <2> QED
    BY <2>1, <2>2
<1>3. \E removed, reason, rows :
        /\ Sftp!Serve(r, removed, reason, rows)
        /\ reason \in {"", "gone", "guard", "denied", "populated"} /\ rows \in SUBSET Entries
  BY <1>1, <1>2 DEF Sftp!HostServes
<1> QED
  BY <1>3, ServeStep

\* A request that is answered is one less; what the slot names is another, or the
\* slot is free.
LEMMA AnsweredKeeps ==
  ASSUME SftpInv, NEW r \in flying, flying' = flying \ {r}, UNCHANGED <<asked, ticket, aimed>>,
         pending' \in {"none", pending},
         pending' # "none" => r.op = "list" /\ r.ticket # ticket,
         SftpPane'
  PROVE  SftpInv'
<1>1. SftpFlying'
  BY DEF SftpInv, SftpFlying, Followed
<1>2. SftpBudget'
  <2>1. Followed(flying') \subseteq Followed(flying)
    BY DEF Followed
  <2>2. Budget(Followed(flying), asked) /\ asked \in Nat /\ IsFiniteSet(Followed(flying))
    BY DEF SftpInv, SftpBudget, SftpFlying, Budget
  <2>3. /\ IsFiniteSet(Followed(flying'))
        /\ Cardinality(Followed(flying')) <= Cardinality(Followed(flying))
    BY <2>1, <2>2, FS_Subset
  <2> QED
    BY <2>2, <2>3, BudgetOfFewer DEF SftpBudget
<1>3. Sftp!SpinnerHasARequest'
  BY DEF SftpInv, Sftp!SpinnerHasARequest
<1> QED
  BY <1>1, <1>2, <1>3 DEF SftpInv

\* What worked lists its directory again: one followed request less, one load more.
LEMMA FollowedByALoad ==
  ASSUME Sftp!SftpAssumption, SftpInv, NEW r \in Followed(flying),
         Sftp!Load(r.back, flying \ {r}), UNCHANGED <<disk, listing, menu>>,
         confirming' = confirming \/ confirming' = Sftp!NoDialog
  PROVE  SftpInv'
<1>1. r.back \in Sftp!Places /\ flying \ {r} \subseteq flying
  BY DEF SftpInv, SftpFlying
<1>2. /\ SftpPane' /\ SftpFlying' /\ Sftp!SpinnerHasARequest'
      /\ Followed(flying') = Followed(flying \ {r})
  BY <1>1, LoadKeeps DEF SftpInv
<1>3. asked' = asked + 1 /\ asked \in Nat
  BY DEF Sftp!Load, SftpInv, SftpFlying
<1>4. Followed(flying \ {r}) = Followed(flying) \ {r}
  BY DEF Followed
<1>5. Budget(Followed(flying), asked)
  BY DEF SftpInv, SftpBudget
<1>6. SftpBudget'
  BY <1>2, <1>3, <1>4, <1>5, BudgetOfAnswer DEF SftpBudget
<1> QED
  BY <1>2, <1>6 DEF SftpInv

\* An answer, of any request, in any order.
LEMMA SftpAnswer ==
  ASSUME Sftp!SftpAssumption, SftpInv, NEW r \in flying, Sftp!Answered(r) PROVE SftpInv'
<1>1. r \in SftpRequests /\ SftpPane
  BY DEF SftpInv, SftpFlying
<1>2. ASSUME NEW reason, Sftp!ListAnswered(r, reason) PROVE SftpInv'
  <2>1. /\ r.op = "list" /\ flying' = flying \ {r}
        /\ UNCHANGED <<disk, asked, ticket, confirming, aimed>>
    BY <1>2 DEF Sftp!ListAnswered
  <2>2. r.entry \in Sftp!Places /\ r.entry # None
    BY <2>1 DEF SftpInv, SftpFlying, Sftp!Places, Sftp!SftpAssumption
  <2>3. CASE Sftp!Lands(r)
    <3>1. /\ pending' = "none"
          /\ \/ listing' = [path |-> r.entry, rows |-> r.rows] /\ menu' = None
             \/ UNCHANGED <<listing, menu>>
      BY <1>2, <2>3 DEF Sftp!ListAnswered
    <3>2. r.rows \subseteq Entries
      BY <1>1 DEF SftpRequests
    <3>3. SftpPane'
      BY <1>1, <2>1, <2>2, <3>1, <3>2 DEF SftpPane
    <3> QED
      BY <2>1, <3>1, <3>3, AnsweredKeeps
  <2>4. CASE ~Sftp!Lands(r)
    <3>1. UNCHANGED <<listing, menu, pending>> /\ r.ticket # ticket
      BY <1>2, <2>4 DEF Sftp!ListAnswered, Sftp!Lands
    <3>2. SftpPane'
      BY <1>1, <2>1, <3>1 DEF SftpPane
    <3> QED
      BY <2>1, <3>1, <3>2, AnsweredKeeps
  <2> QED
    BY <2>3, <2>4
<1>3. ASSUME NEW reason, Sftp!TransferAnswered(r, reason) PROVE SftpInv'
  <2>1. UNCHANGED <<disk, listing, menu, confirming>>
    BY <1>3 DEF Sftp!TransferAnswered
  <2>2. CASE reason = "" /\ r.op = "upload"
    <3>1. r \in Followed(flying) /\ Sftp!Load(r.back, flying \ {r})
      BY <1>3, <2>2 DEF Sftp!TransferAnswered, Followed
    <3> QED
      BY <2>1, <3>1, FollowedByALoad
  <2>3. CASE ~(reason = "" /\ r.op = "upload")
    <3>1. flying' = flying \ {r} /\ pending' = "none" /\ UNCHANGED <<asked, ticket, aimed>>
      BY <1>3, <2>3 DEF Sftp!TransferAnswered
    <3>2. SftpPane'
      BY <1>1, <2>1, <3>1 DEF SftpPane
    <3> QED
      BY <3>1, <3>2, AnsweredKeeps
  <2> QED
    BY <2>2, <2>3
<1>4. ASSUME NEW reason, Sftp!DeleteWorked(r, reason) PROVE SftpInv'
  BY <1>4, FollowedByALoad DEF Sftp!DeleteWorked, Followed
<1>5. ASSUME NEW reason, Sftp!DeleteFailed(r, reason) PROVE SftpInv'
  <2>1. /\ flying' = flying \ {r} /\ pending' = "none"
        /\ UNCHANGED <<disk, asked, ticket, listing, menu, aimed>>
    BY <1>5 DEF Sftp!DeleteFailed, Sftp!Freed
  <2>2. \/ confirming' = Sftp!NoDialog
        \/ confirming.entry # None
           /\ confirming' = [confirming EXCEPT !.escalated = TRUE, !.typed = FALSE]
    BY <1>5 DEF Sftp!DeleteFailed
  <2>3. /\ confirming' \in [entry : Entries \cup {None}, escalated : BOOLEAN, typed : BOOLEAN]
        /\ confirming'.entry \in {confirming.entry, None}
    <3>1. Sftp!NoDialog \in [entry : Entries \cup {None}, escalated : BOOLEAN, typed : BOOLEAN]
          /\ Sftp!NoDialog.entry = None
      BY DEF Sftp!NoDialog
    <3>2. confirming \in [entry : Entries \cup {None}, escalated : BOOLEAN, typed : BOOLEAN]
      BY <1>1 DEF SftpPane
    <3>3. /\ [confirming EXCEPT !.escalated = TRUE, !.typed = FALSE]
               \in [entry : Entries \cup {None}, escalated : BOOLEAN, typed : BOOLEAN]
          /\ [confirming EXCEPT !.escalated = TRUE, !.typed = FALSE].entry = confirming.entry
      BY <3>2
    <3> QED
      BY <2>2, <3>1, <3>3
  <2>4. SftpPane'
    BY <1>1, <2>1, <2>3 DEF SftpPane
  <2> QED
    BY <2>1, <2>4, AnsweredKeeps
<1> QED
  BY <1>2, <1>3, <1>4, <1>5 DEF Sftp!Answered

-----------------------------------------------------------------------------
\* No step of the file panel breaks its invariant.
LEMMA SftpStep == ASSUME Sftp!SftpAssumption, SftpInv, [Sftp!Next]_(Sftp!vars) PROVE SftpInv'
<1>1. CASE Sftp!Operator
  BY <1>1, SftpOperator
<1>2. ASSUME NEW r \in flying, Sftp!HostServes(r) \/ Sftp!Answered(r) PROVE SftpInv'
  BY <1>2, SftpHost, SftpAnswer
<1>3. ASSUME NEW e \in Entries, Sftp!HostChanges(e) PROVE SftpInv'
  <2>1. SftpPane'
    BY <1>3 DEF Sftp!HostChanges, Sftp!pane, SftpInv, SftpPane
  <2> QED
    BY <1>3, <2>1, PaneStep DEF Sftp!HostChanges, Sftp!pane
<1>4. CASE UNCHANGED Sftp!vars
  <2>1. SftpPane'
    BY <1>4 DEF Sftp!vars, Sftp!pane, SftpInv, SftpPane
  <2> QED
    BY <1>4, <2>1, PaneStep DEF Sftp!vars, Sftp!pane
<1> QED
  BY <1>1, <1>2, <1>3, <1>4 DEF Sftp!Next, Sftp!Outside

\* The panel starts with the listing of the home directory under way.
LEMMA SftpInit == ASSUME Sftp!SftpAssumption, Sftp!Init PROVE SftpInv
<1>1. PICK r : r = [id |-> 1, op |-> "list", entry |-> Home, recursive |-> FALSE,
                    ticket |-> 1, state |-> "sent", reason |-> "", rows |-> {}, back |-> None]
  OBVIOUS
<1>2. /\ disk \subseteq Entries /\ asked = 1 /\ ticket = 1 /\ flying = {r}
      /\ listing = Sftp!Nowhere /\ pending = "list" /\ menu = None
      /\ confirming = Sftp!NoDialog /\ aimed = Home
  BY <1>1 DEF Sftp!Init
<1>3. Home \in Sftp!Places
  BY DEF Sftp!Places
<1>4. r \in SftpRequests /\ r.op = "list" /\ r.entry = Home /\ r.ticket = 1 /\ r.id = 1
  <2>1. r \in SftpRequests
    BY <1>1 DEF SftpRequests, Sftp!Actions
  <2> QED
    BY <1>1, <2>1
<1>5. SftpPane
  <2>1. /\ confirming \in [entry : Entries \cup {None}, escalated : BOOLEAN, typed : BOOLEAN]
        /\ confirming.entry = None
    BY <1>2 DEF Sftp!NoDialog
  <2>2. listing.path = None /\ listing.rows = {}
    BY <1>2 DEF Sftp!Nowhere
  <2> QED
    BY <1>2, <1>3, <2>1, <2>2 DEF SftpPane, Sftp!Actions
<1>6. Followed(flying) = {}
  BY <1>2, <1>4 DEF Followed
<1>7. SftpFlying
  BY <1>2, <1>3, <1>4, <1>6 DEF SftpFlying
<1>8. SftpBudget
  <2>1. IsFiniteSet({}) /\ Cardinality({}) = 0
    BY FS_EmptySet
  <2>2. MaxListings \in Nat \ {0}
    BY DEF Sftp!SftpAssumption
  <2>3. Budget({}, 1)
    BY <2>1, <2>2 DEF Budget
  <2> QED
    BY <1>2, <1>6, <2>3 DEF SftpBudget
<1>9. Sftp!SpinnerHasARequest
  BY <1>2, <1>4 DEF Sftp!SpinnerHasARequest
<1> QED
  BY <1>5, <1>7, <1>8, <1>9 DEF SftpInv

\* The invariant of the file panel holds throughout.
LEMMA SftpInvariant == Sftp!Spec => []SftpInv
<1>1. Sftp!SftpAssumption
  BY PageAssumption
<1>2. Sftp!Init => SftpInv
  BY <1>1, SftpInit
<1>3. SftpInv /\ [Sftp!Next]_(Sftp!vars) => SftpInv'
  BY <1>1, SftpStep
<1> QED
  BY <1>2, <1>3, PTL DEF Sftp!Spec

\* The file panel keeps its types, and never sends more than twice what it may.
LEMMA SftpTypeCorrect == Sftp!Spec => [](Sftp!TypeOK)
<1>1. SftpInv => Sftp!TypeOK
  <2> SUFFICES ASSUME SftpInv PROVE Sftp!TypeOK
    OBVIOUS
  <2>1. Cardinality(Followed(flying)) \in Nat
    BY FS_CardinalityType DEF SftpInv, SftpBudget, Budget
  <2>2. MaxListings \in Nat
    BY PageAssumption DEF Sftp!SftpAssumption
  <2>3. asked \in 1 .. 2 * MaxListings
    <3>1. asked \in Nat \ {0} /\ Cardinality(Followed(flying)) + asked <= 2 * MaxListings
      BY DEF SftpInv, SftpBudget, SftpFlying, Budget
    <3> QED
      BY <2>1, <2>2, <3>1
  <2>4. \A r \in flying : r.op \in Sftp!Actions /\ r.id \in 1 .. asked
    BY DEF SftpInv, SftpFlying, SftpRequests
  <2>5. confirming.entry \in Entries \cup {None}
    BY DEF SftpInv, SftpPane
  <2> QED
    BY <2>3, <2>4, <2>5 DEF SftpInv, SftpPane, SftpFlying, Sftp!TypeOK
<1> QED
  BY <1>1, SftpInvariant, PTL

-----------------------------------------------------------------------------
(* The page.                                                                 *)

\* A listing that appears is of the directory that was asked for last, whatever
\* answers come and in whatever order.
THEOREM TheNewestListingWins == PageSpec => NewestListingWins
<1>1. SftpInv /\ [Sftp!Next]_(Sftp!vars) =>
        [listing' # listing => listing'.path = aimed]_(Sftp!vars)
  <2> SUFFICES ASSUME SftpInv, Sftp!Next, listing' # listing
               PROVE  listing'.path = aimed
    OBVIOUS
  <2>1. PICK r \in flying : \E reason : Sftp!ListAnswered(r, reason)
    BY DEF Sftp!Next, Sftp!Outside, Sftp!HostServes, Sftp!Serve, Sftp!HostChanges, Sftp!Answered,
           Sftp!TransferAnswered, Sftp!DeleteWorked, Sftp!DeleteFailed, Sftp!Operator, Sftp!Header,
           Sftp!PlacesBar, Sftp!UploadRow, Sftp!FailureBanner, Sftp!Rows, Sftp!RowMenu,
           Sftp!DeleteDialog, Sftp!Navigate, Sftp!SubmitPath, Sftp!Upload, Sftp!Download,
           Sftp!OpenMenu, Sftp!RetryFailure, Sftp!AskDelete, Sftp!CloseMenu, Sftp!CancelDelete,
           Sftp!TypeName, Sftp!RunDelete, Sftp!Send, Sftp!pane
  <2>2. r.op = "list" /\ r.ticket = ticket /\ listing' = [path |-> r.entry, rows |-> r.rows]
    BY <2>1 DEF Sftp!ListAnswered, Sftp!Lands
  <2> QED
    BY <2>2 DEF SftpInv, SftpFlying
<1> QED
  BY <1>1, PartsOfPage, SftpInvariant, PTL DEF NewestListingWins, Sftp!NewestListingWins, Sftp!Spec

\* Neither the page nor its file panel greys out for good: what took the slot, or
\* something else that will free it, is still under way.
THEOREM SlotsAreFreed == PageSpec => []NothingSpinsForEver
<1>1. DetailInv /\ SftpInv => NothingSpinsForEver
  BY DEF DetailInv, SftpInv, NothingSpinsForEver
<1> QED
  BY <1>1, PartsOfPage, DetailInvariant, SftpInvariant, PTL

\* Every part keeps its types: the page shows a tab that it offers, the panels
\* send what they may and no more, and show what there is.
THEOREM PartsKeepTypes == PageSpec => []TypesOK
<1>1. PageInit => part \in {"detail", "war", "shell", "sftp"}
  BY DEF PageInit
<1> DEFINE OnePart == part \in {"detail", "war", "shell", "sftp"}
<1>2. OnePart /\ [PageNext]_pageVars => OnePart'
  BY DEF PageNext, pageVars
<1>3. PageInit => OnePart
  BY <1>1
<1>4. OnePart /\ Detail!TypeOK /\ War!TypeOK /\ TypeOK /\ Sftp!TypeOK => TypesOK
  BY DEF TypesOK
<1> HIDE DEF OnePart
<1> QED
  BY <1>2, <1>3, <1>4, PartsOfPage, DetailTypeCorrect, WarTypeCorrect, TypeCorrect,
     SftpTypeCorrect, PTL DEF PageSpec, pageVars
=============================================================================
