------------------------------- MODULE SlotPool -------------------------------
(***************************************************************************)
(* What the shell endpoint promises about its concurrency ceilings: a slot *)
(* is a thing one session holds, never more of them than the two caps, and *)
(* it comes back exactly once.                                             *)
(***************************************************************************)
EXTENDS Naturals, FiniteSets

CONSTANTS Users, Tabs, MaxSessions, MaxPerUser

Sessions == Users \X Tabs      \* a session is one of the tabs of a user

VARIABLE held                  \* the sessions that hold a slot

Of(u) == {s \in held : s[1] = u}

Init == held = {}

Acquire(s) ==
  /\ s \notin held
  /\ Cardinality(held) < MaxSessions
  /\ Cardinality(Of(s[1])) < MaxPerUser
  /\ held' = held \cup {s}

Release(s) == s \in held /\ held' = held \ {s}

Restart == held' = {}          \* the counters live in the process

Next == (\E s \in Sessions : Acquire(s) \/ Release(s)) \/ Restart

Spec == Init /\ [][Next]_held
===============================================================================
