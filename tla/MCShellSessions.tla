---------------------------- MODULE MCShellSessions ----------------------------
(***************************************************************************)
(* ShellSessions for TLC, with many tabs and both time limits off: nothing        *)
(* reads the clocks, which stand still here and run in MCLoops.                  *)
(***************************************************************************)
EXTENDS ShellSessions, TLC

SlotsNext == Next /\ UNCHANGED clocks

SlotsSpec == Init /\ [][SlotsNext]_vars

\* Users are interchangeable, and so are tabs.
Interchangeable == Permutations(Users) \cup Permutations(Tabs)
===============================================================================
