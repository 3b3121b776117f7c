----------------------------- MODULE ShellSessions -----------------------------
(***************************************************************************)
(* The websocket handler of the interactive shell: concurrency slots, the  *)
(* audit rows of a session and the limits that end it.  The handler is a   *)
(* coroutine: what it does between two awaits is one action here, and the  *)
(* SSH connection is made without an await.                                *)
(***************************************************************************)
EXTENDS Integers, FiniteSets, Functions

CONSTANTS
  Users,        \* the "sub" of the admins' tokens
  Tabs,         \* the sockets a user may open
  MaxSessions,  \* SHELL_MAX_SESSIONS
  MaxPerUser,   \* SHELL_MAX_SESSIONS_PER_USER
  AgeLimits,    \* what SHELL_MAX_MINUTES may be, in clock ticks, 0: no limit
  IdleLimits,   \* what SHELL_IDLE_MINUTES may be, in clock ticks, 0: no limit
  AuditMayFail, \* whether a commit to audit_logs may fail
  Forever       \* bound: the clocks stop here; 0 when a run is not about time

ASSUME ShellAssumption ==
  /\ IsFiniteSet(Users) /\ IsFiniteSet(Tabs)
  /\ MaxSessions \in Nat /\ MaxPerUser \in Nat
  /\ AgeLimits \subseteq Nat /\ IdleLimits \subseteq Nat
  /\ AuditMayFail \in BOOLEAN /\ Forever \in Nat

Sessions == Users \X Tabs

VARIABLES
  pc,         \* per session: the await its handler is at
  active,     \* _shell_active
  byUser,     \* _shell_active_by_user: a user is in its domain while the count is positive
  opened,     \* sessions with a shell.open row
  closed,     \* sessions with a shell.close row
  fate,       \* per session: "none", "pumps" once they start, then the reason it ended
  age, idle,  \* ticks since the session started, and since it last carried data
  maxAge, maxIdle  \* the limits the process runs with

counters == <<active, byUser>>
rows == <<opened, closed, fate>>
clocks == <<age, idle>>
limits == <<maxAge, maxIdle>>
vars == <<pc, counters, rows, clocks, limits>>

PCs == {"new", "refusing", "failing", "greeting", "running", "closing", "over", "crashed"}
Reasons == {"closed", "idle", "absolute", "shutdown"}
Fates == Reasons \cup {"none", "pumps", "unwritten"}   \* "unwritten": no close row could be

\* slot_held is set, and a session object exists, at these awaits.
SlotAt == {"failing", "greeting", "running", "closing"}
PtyAt == {"greeting", "running", "closing"}
Gone == {"over", "crashed"}

Holders == {s \in Sessions : pc[s] \in SlotAt}
Ptys == {s \in Sessions : pc[s] \in PtyAt}
HeldBy(u) == {s \in Holders : s[1] = u}

Count(u) == IF u \in DOMAIN byUser THEN byUser[u] ELSE 0
Without(f, x) == Restrict(f, DOMAIN f \ {x})
AtLeast0(n) == IF n > 0 THEN n ELSE 0
Goto(s, p) == pc' = [pc EXCEPT ![s] = p]

-------------------------------------------------------------------------------
(* _shell_claim_slot and _shell_release_slot. *)

\* Mutant: the user's own count is not looked at.
HasRoomGlobal(u) == active < MaxSessions

HasRoom(u) == Count(u) < MaxPerUser /\ active < MaxSessions

Claim(u) ==
  /\ HasRoom(u)
  /\ active' = active + 1
  /\ byUser' = [v \in DOMAIN byUser \cup {u} |-> IF v = u THEN Count(u) + 1 ELSE byUser[v]]

Release(u) ==
  /\ active' = AtLeast0(active - 1)
  /\ byUser' = IF Count(u) - 1 > 0 THEN [byUser EXCEPT ![u] = @ - 1] ELSE Without(byUser, u)

\* The outer finally block.  Mutant: the slot is released when there is a session
\* object, so a failed connect keeps it.
LeaveBySession(s) == IF pc[s] \in PtyAt THEN Release(s[1]) ELSE UNCHANGED counters

Leave(s) == IF pc[s] \in SlotAt THEN Release(s[1]) ELSE UNCHANGED counters

-------------------------------------------------------------------------------
(* Handshake, claim, connect and the shell.open row: no await in between. *)

\* Turned away: bad handshake or token, not an admin, no such server, or no slot.
Refuse(s) ==
  /\ pc[s] = "new"
  /\ Goto(s, "refusing")
  /\ UNCHANGED <<counters, rows, clocks, limits>>

\* A slot is taken and the SSH connection or the PTY cannot be had; close(4500) is awaited.
ConnectFails(s) ==
  /\ pc[s] = "new"
  /\ Claim(s[1])
  /\ Goto(s, "failing")
  /\ UNCHANGED <<rows, clocks, limits>>

\* The row of shell.open cannot be written: the finally block runs at once, and claim
\* and release cancel out.
OpenRowFails(s) ==
  /\ AuditMayFail /\ pc[s] = "new" /\ HasRoom(s[1])
  /\ Goto(s, "over")
  /\ UNCHANGED <<counters, rows, clocks, limits>>

Connect(s) ==
  /\ pc[s] = "new"
  /\ Claim(s[1])
  /\ opened' = opened \cup {s}
  /\ Goto(s, "greeting")
  /\ UNCHANGED <<closed, fate, clocks, limits>>

-------------------------------------------------------------------------------
(* The running session. *)

\* "*** Connected ***" is sent, and last_activity set.
Greet(s) ==
  /\ pc[s] = "greeting"
  /\ Goto(s, "running")
  /\ idle' = [idle EXCEPT ![s] = 0]
  /\ fate' = [fate EXCEPT ![s] = "pumps"]
  /\ UNCHANGED <<counters, opened, closed, age, limits>>

\* Data in either direction.
Activity(s) ==
  /\ pc[s] = "running" /\ idle[s] > 0
  /\ idle' = [idle EXCEPT ![s] = 0]
  /\ UNCHANGED <<pc, counters, rows, age, limits>>

\* The inner finally block: the close row is tried, and a failure swallowed.
\* Mutant: the row is written after the try block, so a cancelled handler skips it.
CloseRowUnlessCancelled(s, reason) ==
  IF reason = "shutdown" THEN UNCHANGED <<fate, closed>>
  ELSE fate' = [fate EXCEPT ![s] = reason] /\ closed' = closed \cup {s}

CloseRow(s, reason) ==
  \/ fate' = [fate EXCEPT ![s] = reason] /\ closed' = closed \cup {s}
  \/ AuditMayFail /\ fate' = [fate EXCEPT ![s] = "unwritten"] /\ UNCHANGED closed

WindDown(s, reason) ==
  /\ pc[s] = "running"
  /\ CloseRow(s, reason)
  /\ Goto(s, "closing")
  /\ UNCHANGED <<counters, opened, clocks, limits>>

\* The client or the host hangs up, or a pump fails.
HangUp(s) == WindDown(s, "closed")

\* Mutant: the limit is missed unless it is seen on time.
PastEqual(limit, n) == limit > 0 /\ n = limit

Past(limit, n) == limit > 0 /\ n > limit

\* enforce_limits, every five seconds: idle first.
Supervise(s) ==
  \/ Past(maxIdle, idle[s]) /\ WindDown(s, "idle")
  \/ ~Past(maxIdle, idle[s]) /\ Past(maxAge, age[s]) /\ WindDown(s, "absolute")

\* websocket.close() is done, or the client is gone; the outer finally block.
Finish(s) ==
  /\ pc[s] \in {"refusing", "failing", "closing"}
  /\ Leave(s)
  /\ Goto(s, "over")
  /\ UNCHANGED <<rows, clocks, limits>>

\* The greeting cannot be sent: nothing but the outer finally block is left to run.
GreetFails(s) ==
  /\ pc[s] = "greeting"
  /\ Leave(s)
  /\ Goto(s, "over")
  /\ UNCHANGED <<rows, clocks, limits>>

\* The handler is cancelled at an await, the application shutting down.
Cancel(s) ==
  /\ pc[s] \notin Gone
  /\ IF pc[s] = "running" THEN CloseRow(s, "shutdown") ELSE UNCHANGED <<closed, fate>>
  /\ Leave(s)
  /\ Goto(s, "over")
  /\ UNCHANGED <<opened, clocks, limits>>

\* The process dies: counters and sessions with it, the audit rows stay.
Crash ==
  /\ \E s \in Sessions : pc[s] \notin Gone \cup {"new"}
  /\ pc' = [s \in Sessions |-> IF pc[s] \in Gone \cup {"new"} THEN pc[s] ELSE "crashed"]
  /\ active' = 0
  /\ byUser' = [u \in {} |-> 0]
  /\ UNCHANGED <<rows, clocks, limits>>

Tick ==
  LET later(n, s) == IF pc[s] \in PtyAt /\ n < Forever THEN n + 1 ELSE n IN
  /\ age' = [s \in Sessions |-> later(age[s], s)]
  /\ idle' = [s \in Sessions |-> later(idle[s], s)]
  /\ UNCHANGED <<pc, counters, rows, limits>>

-------------------------------------------------------------------------------
Init ==
  /\ pc = [s \in Sessions |-> "new"]
  /\ active = 0
  /\ byUser = [u \in {} |-> 0]
  /\ opened = {} /\ closed = {}
  /\ fate = [s \in Sessions |-> "none"]
  /\ age = [s \in Sessions |-> 0]
  /\ idle = [s \in Sessions |-> 0]
  /\ maxAge \in AgeLimits /\ maxIdle \in IdleLimits

Handler(s) ==
  \/ Refuse(s) \/ ConnectFails(s) \/ OpenRowFails(s) \/ Connect(s)
  \/ Greet(s) \/ GreetFails(s) \/ Activity(s) \/ HangUp(s) \/ Supervise(s)
  \/ Finish(s) \/ Cancel(s)

Next == (\E s \in Sessions : Handler(s)) \/ Tick \/ Crash

Spec == Init /\ [][Next]_vars

\* The event loop runs every coroutine that is ready: sends end, the supervisor
\* wakes up, closing ends; and time passes.
FairSpec ==
  /\ Spec
  /\ WF_vars(Tick)
  /\ \A s \in Sessions :
       WF_vars(Supervise(s)) /\ WF_vars(Finish(s)) /\ WF_vars(Greet(s) \/ GreetFails(s))

-------------------------------------------------------------------------------
(* Properties. *)

TypeOK ==
  /\ pc \in [Sessions -> PCs]
  /\ active \in Nat
  /\ byUser \in [DOMAIN byUser -> Nat \ {0}] /\ DOMAIN byUser \subseteq Users
  /\ opened \subseteq Sessions /\ closed \subseteq opened
  /\ fate \in [Sessions -> Fates]
  /\ age \in [Sessions -> 0..Forever] /\ idle \in [Sessions -> 0..Forever]
  /\ maxAge \in AgeLimits /\ maxIdle \in IdleLimits

\* Every claim is paid back once: the two counters of the module say what the
\* handlers hold, whatever way each of them has ended.
SlotAccounting ==
  /\ active = Cardinality(Holders)
  /\ \A u \in Users : Count(u) = Cardinality(HeldBy(u))

\* The ceilings hold of the PTYs themselves, not only of the counters.
CapsHold ==
  /\ Cardinality(Ptys) <= MaxSessions
  /\ \A u \in Users : Cardinality({s \in Ptys : s[1] = u}) <= MaxPerUser

\* "one operator with tabs open could otherwise consume the whole process-wide
\* allowance and lock every other admin out": as long as one user holds all the
\* slots, every other user still gets one.
NoLockout ==
  MaxPerUser \in 1..(MaxSessions - 1) =>
    \A u \in Users : Holders = HeldBy(u) => \A v \in Users \ {u} : HasRoom(v)

\* "It survives every exit path, including this handler being cancelled when the app
\* shuts down": a session that got as far as its pumps never ends without its close
\* row being tried, and the row is there unless the table could not be written.
PumpedSessionsAudited ==
  \A s \in Sessions :
    /\ pc[s] \in {"closing", "over"} => fate[s] # "pumps"
    /\ fate[s] \in Reasons => s \in opened \cap closed

\* With the absolute limit on, every session that is granted a slot gives it back,
\* however busy it is kept.
SlotsComeBack == maxAge > 0 => \A s \in Sessions : s \in Holders ~> s \notin Holders

Pool == INSTANCE SlotPool WITH held <- Holders

\* The counters implement a pool of slots with two caps.
ImplementsPool == Pool!Spec
===============================================================================
