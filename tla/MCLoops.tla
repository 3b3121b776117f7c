-------------------------------- MODULE MCLoops --------------------------------
(***************************************************************************)
(* The tasks that run for as long as the process does, for TLC: the loop of     *)
(* the log shippers, and the handlers of the browser shell with their           *)
(* supervisors. They share nothing, so one of them moves in a behaviour and the  *)
(* other stays where it starts.                                               *)
(***************************************************************************)
EXTENDS LogShipper

CONSTANTS Users, Tabs, MaxSessions, MaxPerUser, AgeLimits, IdleLimits,
          AuditMayFail, Forever

VARIABLES task, pc, active, byUser, opened, closed, fate, age, idle, maxAge, maxIdle

shellVars == <<pc, active, byUser, opened, closed, fate, age, idle, maxAge, maxIdle>>

Shell == INSTANCE ShellSessions

LoopInit ==
  /\ task \in {"logs", "shell"} /\ Init /\ Shell!Init
  /\ task = "logs" => maxAge = 0 /\ maxIdle = 0

LoopNext ==
  /\ UNCHANGED task
  /\ \/ task = "logs" /\ Next /\ UNCHANGED shellVars
     \/ task = "shell" /\ Shell!Next /\ UNCHANGED vars

\* The fairness of LogShipper and of ShellSessions, each for its own task.
LoopSpec ==
  /\ LoopInit /\ [][LoopNext]_<<task, vars, shellVars>>
  /\ WF_vars(task = "logs" /\ Wake) /\ WF_vars(task = "logs" /\ Push)
  /\ WF_vars(task = "logs" /\ \E s \in Sources : Visit(s))
  /\ WF_shellVars(task = "shell" /\ Shell!Tick)
  /\ \A s \in Users \X Tabs :
       /\ WF_shellVars(task = "shell" /\ Shell!Supervise(s))
       /\ WF_shellVars(task = "shell" /\ Shell!Finish(s))
       /\ WF_shellVars(task = "shell" /\ (Shell!Greet(s) \/ Shell!GreetFails(s)))

-----------------------------------------------------------------------------
(* The properties; NeverTwice and NoGapsWhenDistinct are LogShipper's own.    *)

\* A source that stays enabled is visited for ever (LogShipper).
EveryoneVisited == task = "logs" => EveryoneIsVisited

\* A session that ran leaves both of its audit rows (ShellSessions).
PumpedSessionsAudited == Shell!PumpedSessionsAudited

\* With the absolute limit on, every slot comes back (ShellSessions).
SlotsComeBack == Shell!SlotsComeBack
===============================================================================
