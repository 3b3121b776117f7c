-------------------------- MODULE ShellSessionsProofs --------------------------
(***************************************************************************)
(* The concurrency slots of the shell, for any number of users and tabs    *)
(* and any caps.                                                           *)
(***************************************************************************)
EXTENDS ShellSessions, FiniteSetTheorems, TLAPS

-------------------------------------------------------------------------------
(* Counting. *)

LEMMA SessionsFinite == IsFiniteSet(Sessions)
  BY ShellAssumption, FS_Product DEF Sessions

LEMMA HoldersFinite ==
  /\ IsFiniteSet(Holders) /\ Cardinality(Holders) \in Nat
  /\ \A u : IsFiniteSet(HeldBy(u)) /\ Cardinality(HeldBy(u)) \in Nat
<1>1. Holders \in SUBSET Sessions /\ \A u : HeldBy(u) \in SUBSET Sessions
  BY DEF Holders, HeldBy
<1>2. \A T \in SUBSET Sessions : IsFiniteSet(T) /\ Cardinality(T) \in Nat
  BY SessionsFinite, FS_Subset, FS_CardinalityType
<1> QED BY <1>1, <1>2

-------------------------------------------------------------------------------
(* The invariant. *)

\* The counters' shape.
CountersOK ==
  /\ pc \in [Sessions -> PCs]
  /\ active \in Nat
  /\ byUser \in [DOMAIN byUser -> Nat \ {0}] /\ DOMAIN byUser \subseteq Users

\* What the handlers hold is within the caps.
HoldersCapped ==
  /\ Cardinality(Holders) <= MaxSessions
  /\ \A u \in Users : Cardinality(HeldBy(u)) <= MaxPerUser

SlotInv == CountersOK /\ SlotAccounting /\ HoldersCapped

\* A handler that does not hold a slot takes one.
LEMMA ClaimKeeps ==
  ASSUME SlotInv, NEW s \in Sessions, NEW p \in SlotAt,
         pc[s] \notin SlotAt, Claim(s[1]), Goto(s, p)
  PROVE  SlotInv' /\ Holders' = Holders \cup {s}
<1>u. s[1] \in Users
  BY DEF Sessions
<1>1. Holders' = Holders \cup {s} /\ s \notin Holders
  BY DEF SlotInv, CountersOK, Holders, Goto, SlotAt, PCs
<1>2. HeldBy(s[1])' = HeldBy(s[1]) \cup {s} /\ s \notin HeldBy(s[1])
  BY <1>1 DEF HeldBy
<1>3. \A u \in Users \ {s[1]} : HeldBy(u)' = HeldBy(u)
  BY <1>1 DEF HeldBy
<1>4. Cardinality(Holders') = Cardinality(Holders) + 1
  BY <1>1, HoldersFinite, FS_AddElement
<1>5. Cardinality(HeldBy(s[1])') = Cardinality(HeldBy(s[1])) + 1
  BY <1>2, HoldersFinite, FS_AddElement
<1>6. Count(s[1]) \in Nat
  BY <1>u, HoldersFinite DEF SlotInv, SlotAccounting
<1>7. CountersOK'
  BY <1>u, <1>6 DEF SlotInv, CountersOK, Claim, Goto, SlotAt, PCs
<1>8. Count(s[1])' = Count(s[1]) + 1
  BY DEF Claim, Count
<1>9. \A u \in Users \ {s[1]} : Count(u)' = Count(u)
  BY DEF Claim, Count
<1>10. SlotAccounting'
  <2>1. active' = Cardinality(Holders')
    BY <1>4 DEF SlotInv, SlotAccounting, Claim
  <2>2. Count(s[1])' = Cardinality(HeldBy(s[1])')
    BY <1>5, <1>8, <1>u DEF SlotInv, SlotAccounting
  <2>3. \A u \in Users \ {s[1]} : Count(u)' = Cardinality(HeldBy(u)')
    BY <1>3, <1>9 DEF SlotInv, SlotAccounting
  <2> QED BY <2>1, <2>2, <2>3 DEF SlotAccounting
<1>11. HoldersCapped'
  <2>1. active < MaxSessions /\ Count(s[1]) < MaxPerUser
    BY DEF Claim, HasRoom
  <2>2. Cardinality(Holders') <= MaxSessions
    BY <1>4, <2>1, HoldersFinite, ShellAssumption DEF SlotInv, SlotAccounting
  <2>3. Cardinality(HeldBy(s[1])') <= MaxPerUser
    BY <1>5, <1>u, <2>1, HoldersFinite, ShellAssumption DEF SlotInv, SlotAccounting
  <2>4. \A u \in Users \ {s[1]} : Cardinality(HeldBy(u)') <= MaxPerUser
    BY <1>3 DEF SlotInv, HoldersCapped
  <2> QED BY <2>2, <2>3, <2>4 DEF HoldersCapped
<1> QED BY <1>1, <1>7, <1>10, <1>11 DEF SlotInv

\* A handler ends, and gives back the slot it may hold.
LEMMA LeaveKeeps ==
  ASSUME SlotInv, NEW s \in Sessions, NEW p \in PCs \ SlotAt, Leave(s), Goto(s, p)
  PROVE  SlotInv' /\ Holders' = Holders \ {s}
<1>u. s[1] \in Users
  BY DEF Sessions
<1>1. Holders' = Holders \ {s}
  BY DEF SlotInv, CountersOK, Holders, Goto
<1>2. \A u \in Users : HeldBy(u)' = HeldBy(u) \ {s}
  BY <1>1 DEF HeldBy
<1>a. CASE s \notin Holders
  <2>1. UNCHANGED counters
    BY <1>a DEF Holders, Leave
  <2>2. Holders' = Holders /\ \A u \in Users : HeldBy(u)' = HeldBy(u)
    BY <1>1, <1>2, <1>a DEF HeldBy
  <2>3. CountersOK'
    BY <2>1 DEF SlotInv, CountersOK, counters, Goto
  <2>4. SlotAccounting'
    BY <2>1, <2>2 DEF SlotInv, SlotAccounting, Count, counters
  <2>5. HoldersCapped'
    BY <2>2 DEF SlotInv, HoldersCapped
  <2> QED BY <1>1, <2>3, <2>4, <2>5 DEF SlotInv
<1>b. CASE s \in Holders
  <2>0. Release(s[1])
    BY <1>b DEF Holders, Leave
  <2>1. Cardinality(Holders') = Cardinality(Holders) - 1
    BY <1>1, <1>b, HoldersFinite, FS_RemoveElement
  <2>2. s \in HeldBy(s[1])
    BY <1>b DEF HeldBy
  <2>3. Cardinality(HeldBy(s[1])') = Cardinality(HeldBy(s[1])) - 1
    BY <1>2, <1>u, <2>2, HoldersFinite, FS_RemoveElement
  <2>4. \A u \in Users \ {s[1]} : HeldBy(u)' = HeldBy(u)
    BY <1>2 DEF HeldBy
  <2>5. Cardinality(Holders) > 0 /\ Cardinality(HeldBy(s[1])) > 0
    BY <1>b, <2>2, HoldersFinite, FS_EmptySet
  <2>6. active > 0 /\ Count(s[1]) > 0 /\ active \in Nat /\ Count(s[1]) \in Nat
    BY <2>5, <1>u, HoldersFinite DEF SlotInv, SlotAccounting
  <2>7. active' = active - 1
    BY <2>0, <2>6 DEF Release, AtLeast0
  <2>8. s[1] \in DOMAIN byUser /\ Count(s[1]) = byUser[s[1]]
    BY <2>6 DEF Count
  <2>9. CountersOK'
    <3>1. pc' \in [Sessions -> PCs] /\ active' \in Nat
      BY <2>6, <2>7 DEF SlotInv, CountersOK, Goto
    <3>2. CASE Count(s[1]) - 1 > 0
      <4>1. byUser' = [byUser EXCEPT ![s[1]] = @ - 1]
        BY <2>0, <3>2 DEF Release
      <4> QED BY <3>1, <3>2, <4>1, <2>6, <2>8 DEF SlotInv, CountersOK
    <3>3. CASE ~(Count(s[1]) - 1 > 0)
      <4>1. byUser' = [u \in DOMAIN byUser \ {s[1]} |-> byUser[u]]
        BY <2>0, <3>3 DEF Release, Without, Restrict
      <4> QED BY <3>1, <4>1 DEF SlotInv, CountersOK
    <3> QED BY <3>2, <3>3
  <2>10. Count(s[1])' = Count(s[1]) - 1
    <3>2. CASE Count(s[1]) - 1 > 0
      BY <2>0, <3>2, <2>8 DEF Release, Count, SlotInv, CountersOK
    <3>3. CASE ~(Count(s[1]) - 1 > 0)
      <4>1. byUser' = [u \in DOMAIN byUser \ {s[1]} |-> byUser[u]]
        BY <2>0, <3>3 DEF Release, Without, Restrict
      <4>2. Count(s[1])' = 0
        BY <4>1 DEF Count
      <4> QED BY <4>2, <2>6, <3>3
    <3> QED BY <3>2, <3>3
  <2>11. \A u \in Users \ {s[1]} : Count(u)' = Count(u)
    <3>2. CASE Count(s[1]) - 1 > 0
      BY <2>0, <3>2, <2>8 DEF Release, Count, SlotInv, CountersOK
    <3>3. CASE ~(Count(s[1]) - 1 > 0)
      <4>1. byUser' = [u \in DOMAIN byUser \ {s[1]} |-> byUser[u]]
        BY <2>0, <3>3 DEF Release, Without, Restrict
      <4> QED BY <4>1 DEF Count
    <3> QED BY <3>2, <3>3
  <2>12. SlotAccounting'
    <3>1. active' = Cardinality(Holders')
      BY <2>1, <2>7 DEF SlotInv, SlotAccounting
    <3>2. Count(s[1])' = Cardinality(HeldBy(s[1])')
      BY <2>3, <2>10, <1>u DEF SlotInv, SlotAccounting
    <3>3. \A u \in Users \ {s[1]} : Count(u)' = Cardinality(HeldBy(u)')
      BY <2>4, <2>11 DEF SlotInv, SlotAccounting
    <3> QED BY <3>1, <3>2, <3>3 DEF SlotAccounting
  <2>13. HoldersCapped'
    <3>1. Cardinality(Holders') <= MaxSessions
      BY <2>1, HoldersFinite, ShellAssumption DEF SlotInv, HoldersCapped
    <3>2. Cardinality(HeldBy(s[1])') <= MaxPerUser
      BY <2>3, <1>u, HoldersFinite, ShellAssumption DEF SlotInv, HoldersCapped
    <3>3. \A u \in Users \ {s[1]} : Cardinality(HeldBy(u)') <= MaxPerUser
      BY <2>4 DEF SlotInv, HoldersCapped
    <3> QED BY <3>1, <3>2, <3>3 DEF HoldersCapped
  <2> QED BY <1>1, <2>9, <2>12, <2>13 DEF SlotInv
<1> QED BY <1>a, <1>b

\* A handler moves on and keeps what it has.
LEMMA MoveKeeps ==
  ASSUME SlotInv, NEW s \in Sessions, NEW p \in PCs, p \in SlotAt <=> pc[s] \in SlotAt,
         Goto(s, p), UNCHANGED counters
  PROVE  SlotInv' /\ Holders' = Holders
<1>1. Holders' = Holders
  BY DEF SlotInv, CountersOK, Holders, Goto
<1>2. \A u \in Users : HeldBy(u)' = HeldBy(u)
  BY <1>1 DEF HeldBy
<1>3. CountersOK'
  BY DEF SlotInv, CountersOK, Goto, counters
<1>4. SlotAccounting'
  BY <1>1, <1>2 DEF SlotInv, SlotAccounting, Count, counters
<1>5. HoldersCapped'
  BY <1>1, <1>2 DEF SlotInv, HoldersCapped
<1> QED BY <1>1, <1>3, <1>4, <1>5 DEF SlotInv

\* The process dies.
LEMMA CrashKeeps ==
  ASSUME SlotInv, Crash
  PROVE  SlotInv' /\ Holders' = {}
<1>1. Holders' = {} /\ \A u : HeldBy(u)' = {}
  BY DEF Crash, Holders, HeldBy, SlotAt, Gone
<1>2. CountersOK'
  BY DEF Crash, SlotInv, CountersOK, PCs
<1>3. SlotAccounting'
  BY <1>1, FS_EmptySet DEF Crash, SlotAccounting, Count
<1>4. HoldersCapped'
  BY <1>1, FS_EmptySet, ShellAssumption DEF HoldersCapped
<1> QED BY <1>1, <1>2, <1>3, <1>4 DEF SlotInv

\* The four things a step can do to the slots.
LEMMA StepKinds ==
  ASSUME SlotInv, [Next]_vars
  PROVE  \/ /\ \E s \in Sessions : /\ Claim(s[1]) /\ s \notin Holders
                                   /\ Holders' = Holders \cup {s}
            /\ SlotInv'
         \/ SlotInv' /\ \E s \in Sessions : Holders' = Holders \ {s}
         \/ SlotInv' /\ Holders' = Holders
         \/ SlotInv' /\ Holders' = {}
<1> USE DEF SlotAt, PCs
<1>1. ASSUME NEW s \in Sessions, Refuse(s) \/ Greet(s) \/ Activity(s) \/ HangUp(s) \/ Supervise(s)
      PROVE  SlotInv' /\ Holders' = Holders
  <2>1. CASE Refuse(s)
    BY <2>1, MoveKeeps DEF Refuse
  <2>2. CASE Greet(s)
    BY <2>2, MoveKeeps DEF Greet, counters
  <2>3. CASE Activity(s)
    <3>1. Goto(s, pc[s]) /\ pc[s] \in PCs /\ UNCHANGED counters
      BY <2>3 DEF Activity, Goto, SlotInv, CountersOK, counters
    <3> QED BY <3>1, MoveKeeps
  <2>4. CASE HangUp(s) \/ Supervise(s)
    <3>1. pc[s] = "running" /\ Goto(s, "closing") /\ UNCHANGED counters
      BY <2>4 DEF HangUp, Supervise, WindDown
    <3> QED BY <3>1, MoveKeeps
  <2> QED BY <1>1, <2>1, <2>2, <2>3, <2>4
<1>2. ASSUME NEW s \in Sessions, Finish(s) \/ GreetFails(s) \/ Cancel(s)
      PROVE  SlotInv' /\ Holders' = Holders \ {s}
  <2>1. Leave(s) /\ Goto(s, "over")
    BY <1>2 DEF Finish, GreetFails, Cancel
  <2> QED BY <2>1, LeaveKeeps
<1>3. ASSUME NEW s \in Sessions, OpenRowFails(s)
      PROVE  SlotInv' /\ Holders' = Holders
  BY <1>3, MoveKeeps DEF OpenRowFails
<1>4. ASSUME NEW s \in Sessions, ConnectFails(s) \/ Connect(s)
      PROVE  Claim(s[1]) /\ s \notin Holders /\ SlotInv' /\ Holders' = Holders \cup {s}
  <2>1. PICK p \in {"failing", "greeting"} : pc[s] = "new" /\ Claim(s[1]) /\ Goto(s, p)
    BY <1>4 DEF ConnectFails, Connect
  <2>2. s \notin Holders
    BY <2>1 DEF Holders
  <2> QED BY <2>1, <2>2, ClaimKeeps
<1>5. ASSUME UNCHANGED <<pc, active, byUser>>
      PROVE  SlotInv' /\ Holders' = Holders
  BY <1>5 DEF SlotInv, CountersOK, SlotAccounting, HoldersCapped, Holders, HeldBy, Count
<1>6. ASSUME Tick \/ UNCHANGED vars
      PROVE  SlotInv' /\ Holders' = Holders
  BY <1>5, <1>6 DEF Tick, vars, counters
<1>7. ASSUME NEW s \in Sessions, Handler(s)
      PROVE  \/ Refuse(s) \/ Greet(s) \/ Activity(s) \/ HangUp(s) \/ Supervise(s)
             \/ Finish(s) \/ GreetFails(s) \/ Cancel(s) \/ OpenRowFails(s)
             \/ ConnectFails(s) \/ Connect(s)
  BY <1>7 DEF Handler
<1> QED
  <2>1. CASE \E s \in Sessions : Handler(s)
    BY <2>1, <1>1, <1>2, <1>3, <1>4, <1>7
  <2>2. CASE Tick \/ UNCHANGED vars
    BY <2>2, <1>6
  <2>3. CASE Crash
    BY <2>3, CrashKeeps
  <2> QED BY <2>1, <2>2, <2>3 DEF Next

LEMMA InitSlots == Init => SlotInv /\ Holders = {}
<1> SUFFICES ASSUME Init PROVE SlotInv /\ Holders = {}
  OBVIOUS
<1>1. Holders = {} /\ \A u : HeldBy(u) = {}
  BY DEF Init, Holders, HeldBy, SlotAt
<1>2. CountersOK
  BY DEF Init, CountersOK, PCs
<1>3. SlotAccounting
  BY <1>1, FS_EmptySet DEF Init, SlotAccounting, Count
<1>4. HoldersCapped
  BY <1>1, FS_EmptySet, ShellAssumption DEF HoldersCapped
<1> QED BY <1>1, <1>2, <1>3, <1>4 DEF SlotInv

-------------------------------------------------------------------------------
(* The theorems. *)

\* SlotInv is inductive.
THEOREM SlotsInvariant == Spec => []SlotInv
<1>1. SlotInv /\ [Next]_vars => SlotInv'
  BY StepKinds
<1> QED BY <1>1, InitSlots, PTL DEF Spec

\* _shell_active and _shell_active_by_user say what the handlers hold: no way a
\* handler can end leaks a slot or gives one back twice.
THEOREM SlotsAccounted == Spec => []SlotAccounting
<1>1. SlotInv => SlotAccounting
  BY DEF SlotInv
<1> QED BY <1>1, SlotsInvariant, PTL

\* Never more PTYs than the caps, counted over the application and for each user.
THEOREM PtysCapped == Spec => []CapsHold
<1>1. SlotInv => CapsHold
  <2> SUFFICES ASSUME SlotInv PROVE CapsHold
    OBVIOUS
  <2>1. Ptys \in SUBSET Holders
    BY DEF Ptys, Holders, PtyAt, SlotAt
  <2>2. Cardinality(Ptys) <= Cardinality(Holders) /\ Cardinality(Ptys) \in Nat
    BY <2>1, HoldersFinite, FS_Subset, FS_CardinalityType
  <2>3. ASSUME NEW u \in Users
        PROVE  Cardinality({s \in Ptys : s[1] = u}) <= MaxPerUser
    <3> DEFINE mine == {s \in Ptys : s[1] = u}
    <3>1. mine \in SUBSET HeldBy(u)
      BY <2>1 DEF HeldBy
    <3>2. Cardinality(mine) <= Cardinality(HeldBy(u)) /\ Cardinality(mine) \in Nat
      BY <3>1, HoldersFinite, FS_Subset, FS_CardinalityType
    <3> QED BY <3>2, HoldersFinite, ShellAssumption DEF SlotInv, HoldersCapped
  <2> QED BY <2>2, <2>3, HoldersFinite, ShellAssumption DEF SlotInv, HoldersCapped, CapsHold
<1> QED BY <1>1, SlotsInvariant, PTL

\* One user's tabs never take the whole application, as long as the cap per user is
\* the smaller one: every other user still gets a slot.
THEOREM OthersGetIn == Spec => []NoLockout
<1>1. SlotInv => NoLockout
  <2> SUFFICES ASSUME SlotInv, MaxPerUser \in 1..(MaxSessions - 1),
                      NEW u \in Users, Holders = HeldBy(u), NEW v \in Users \ {u}
               PROVE  HasRoom(v)
    BY DEF NoLockout
  <2>1. active < MaxSessions
    BY HoldersFinite, ShellAssumption DEF SlotInv, SlotAccounting, HoldersCapped
  <2>2. HeldBy(v) = {}
    BY DEF HeldBy
  <2>3. Count(v) = 0
    BY <2>2, FS_EmptySet DEF SlotInv, SlotAccounting
  <2> QED BY <2>1, <2>3, ShellAssumption DEF HasRoom
<1> QED BY <1>1, SlotsInvariant, PTL

\* The handlers with their two counters implement a pool of slots with two caps.
THEOREM PoolImplemented == Spec => ImplementsPool
<1>1. Init => Pool!Init
  BY InitSlots DEF Pool!Init
<1>2. SlotInv /\ [Next]_vars => [Pool!Next]_Holders
  <2> SUFFICES ASSUME SlotInv, [Next]_vars PROVE [Pool!Next]_Holders
    OBVIOUS
  <2>1. ASSUME NEW s \in Sessions, Claim(s[1]), s \notin Holders, Holders' = Holders \cup {s}
        PROVE  Pool!Acquire(s)
    <3>1. Pool!Of(s[1]) = HeldBy(s[1]) /\ s[1] \in Users
      BY DEF Pool!Of, HeldBy, Sessions
    <3>2. \A S : Pool!Cardinality(S) = Cardinality(S)
      BY DEF Pool!Cardinality, Cardinality
    <3> QED BY <2>1, <3>1, <3>2 DEF Pool!Acquire, SlotInv, SlotAccounting, Claim, HasRoom
  <2>2. ASSUME NEW s \in Sessions, Holders' = Holders \ {s}
        PROVE  Pool!Release(s) \/ Holders' = Holders
    BY <2>2 DEF Pool!Release
  <2>3. Pool!Sessions = Sessions
    BY DEF Pool!Sessions, Sessions
  <2> QED BY <2>1, <2>2, <2>3, StepKinds DEF Pool!Next, Pool!Restart
<1> QED BY <1>1, <1>2, SlotsInvariant, PTL DEF Spec, ImplementsPool, Pool!Spec
===============================================================================
