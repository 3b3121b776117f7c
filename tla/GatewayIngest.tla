----------------------------- MODULE GatewayIngest -----------------------------
(***************************************************************************)
(* The gateway's access log: Kong posts batches of requests, concurrently  *)
(* and again when it gets no answer; each is stored as one event row per   *)
(* request and added to a row of counts per source and minute; a loop      *)
(* sweeps both tables.  A source is one client address and endpoint of one *)
(* gateway.  The requests a handler makes are numbered in the order Kong   *)
(* saw them, and stand for the log entries.                                *)
(***************************************************************************)
EXTENDS Integers, Sequences, FiniteSets, Functions, FiniteSetsExt

CONSTANTS
  Workers,     \* handlers of POST /gateway/ingest
  Sources,     \* what the counts are grouped by, besides the minute
  Malformed,   \* the source of an entry that cannot be parsed, or has no address
  PerMinute,   \* ticks of the clock to a minute
  EventTicks,  \* gateway_event_retention_days
  RollupTicks, \* gateway_rollup_retention_days
  MaxRequests, \* bound: requests the gateway serves
  MaxTime,     \* bound: the clock
  MaxRetries   \* bound: batches Kong posts again

\* Counts are kept for longer than events, by a minute at least (7 days and 90).
GatewayAssumption ==
  /\ Malformed \notin Sources
  /\ {PerMinute, EventTicks, RollupTicks} \subseteq Nat \ {0}
  /\ RollupTicks >= EventTicks + PerMinute
  /\ {MaxRequests, MaxTime, MaxRetries} \subseteq Nat

VARIABLES
  now,
  log,        \* the requests Kong saw
  queued,     \* those it has to post
  acked,      \* those it had a 200 for
  retries,
  handler,    \* per worker, its batch and the count rows it has read
  events,     \* gateway_events: the rows of each request
  rollups,    \* gateway_rollups: the row of each bucket
  swept,      \* when the tables were last swept, 0 for never
  inserted,   \* history: the event rows ever written of each request
  raced       \* history: the buckets in which a count was written over a newer one

kong == <<log, queued, acked, retries>>
tables == <<events, rollups, swept, inserted, raced>>
vars == <<now, kong, handler, tables>>

Idle == [batch |-> {}, seen |-> <<>>]
Requests == DOMAIN log
Bucket(i) == <<log[i].source, log[i].ts \div PerMinute>>

-------------------------------------------------------------------------------
(* What a batch adds to a bucket. *)

\* Mutant: an entry that cannot be parsed fails the batch.
ParsedOrNone(B) == IF \E i \in B : log[i].source = Malformed THEN {} ELSE B

Parsed(B) == {i \in B : log[i].source # Malformed}

\* The counts of the rows n(i) of each request i of B that fall into bucket b.
Tally(B, n, b) ==
  LET I == {i \in B : Bucket(i) = b}
  IN  [hits |-> SumFunctionOnSet(n, I), last |-> Max({log[i].ts : i \in I}),
       throttled |-> SumFunctionOnSet(n, {i \in I : log[i].throttled}),
       allowed |-> SumFunctionOnSet(n, {i \in I : ~log[i].throttled})]

Adds(B, b) == Tally(B, [i \in B |-> 1], b)

\* Mutant: the row takes the counts of the batch.
UpdatedOver(row, seen, b) ==
  [b EXCEPT !.last = IF b.last > seen.last THEN b.last ELSE row.last]

\* Values are computed from the row as read; an attribute whose value did not change
\* is not in the UPDATE.
Updated(row, seen, b) ==
  [hits |-> seen.hits + b.hits,
   allowed |-> IF b.allowed = 0 THEN row.allowed ELSE seen.allowed + b.allowed,
   throttled |-> IF b.throttled = 0 THEN row.throttled ELSE seen.throttled + b.throttled,
   last |-> IF b.last > seen.last THEN b.last ELSE row.last]

-------------------------------------------------------------------------------
(* The gateway serves a request and logs it; time passes. *)

Serve(s, th) ==
  /\ Len(log) < MaxRequests /\ (s = Malformed => ~th)
  /\ log' = Append(log, [source |-> s, ts |-> now, throttled |-> th])
  /\ queued' = queued \cup {Len(log) + 1}
  /\ events' = Append(events, 0) /\ inserted' = Append(inserted, 0)
  /\ UNCHANGED <<now, acked, retries, handler, rollups, swept, raced>>

Tick ==
  /\ now < MaxTime /\ now' = now + 1
  /\ UNCHANGED <<kong, handler, tables>>

-------------------------------------------------------------------------------
(* One call of gateway_ingest: it reads the rows to add to, and commits. *)

Post(w, B) ==
  /\ handler[w] = Idle
  /\ queued' = queued \ B
  /\ handler' = [handler EXCEPT ![w] =
       [batch |-> B, seen |-> Restrict(rollups, {Bucket(i) : i \in Parsed(B)} \cap DOMAIN rollups)]]
  /\ UNCHANGED <<now, log, acked, retries, tables>>

\* The INSERT of a row that exists violates uq_gateway_rollup, the UPDATE of one that
\* is gone matches nothing; either undoes the batch.
Commits(w) ==
  LET B == Parsed(handler[w].batch)
  IN  {Bucket(i) : i \in B} \cap DOMAIN rollups = DOMAIN handler[w].seen

\* Kong gets the answer, or posts the batch again.
Answer(w) ==
  \/ acked' = acked \cup handler[w].batch /\ UNCHANGED <<log, queued, retries>>
  \/ /\ retries < MaxRetries /\ retries' = retries + 1
     /\ queued' = queued \cup handler[w].batch
     /\ UNCHANGED <<log, acked>>

Store(w) ==
  LET B == Parsed(handler[w].batch)
      seen == handler[w].seen
      buckets == {Bucket(i) : i \in B}
  IN  /\ handler[w].batch # {} /\ Commits(w)
      /\ events' = [i \in Requests |-> events[i] + (IF i \in B THEN 1 ELSE 0)]
      /\ inserted' = [i \in Requests |-> inserted[i] + (IF i \in B THEN 1 ELSE 0)]
      /\ rollups' = [b \in (buckets \ DOMAIN seen) \cup DOMAIN rollups |->
                       IF b \notin buckets THEN rollups[b]
                       ELSE IF b \notin DOMAIN seen THEN Adds(B, b)
                       ELSE Updated(rollups[b], seen[b], Adds(B, b))]
      /\ raced' = raced \cup {b \in DOMAIN seen \cap DOMAIN rollups : seen[b] # rollups[b]}
      /\ Answer(w)
      /\ handler' = [handler EXCEPT ![w] = Idle]
      /\ UNCHANGED <<now, swept>>

\* The commit fails, on a constraint or a locked database: nothing is stored.
Fail(w) ==
  /\ handler[w].batch # {}
  /\ retries < MaxRetries /\ retries' = retries + 1
  /\ queued' = queued \cup handler[w].batch
  /\ handler' = [handler EXCEPT ![w] = Idle]
  /\ UNCHANGED <<now, log, acked, tables>>

-------------------------------------------------------------------------------
(* The retention sweep: one transaction over the two tables. *)

Expired(b) == b[2] * PerMinute < now - RollupTicks

Sweep ==
  /\ swept' = now
  /\ events' = [i \in Requests |-> IF log[i].ts < now - EventTicks THEN 0 ELSE events[i]]
  /\ rollups' = Restrict(rollups, {b \in DOMAIN rollups : ~Expired(b)})
  /\ UNCHANGED <<now, kong, handler, inserted, raced>>

-------------------------------------------------------------------------------
Init ==
  /\ now = 0 /\ log = <<>> /\ queued = {} /\ acked = {} /\ retries = 0
  /\ handler = [w \in Workers |-> Idle]
  /\ events = <<>> /\ rollups = <<>> /\ swept = 0
  /\ inserted = <<>> /\ raced = {}

Ingest(w) ==
  \/ \E B \in (SUBSET queued) \ {{}} : Post(w, B)
  \/ Store(w) \/ Fail(w)

Next ==
  \/ \E s \in Sources \cup {Malformed}, th \in BOOLEAN : Serve(s, th)
  \/ \E w \in Workers : Ingest(w)
  \/ Tick \/ Sweep

Spec == Init /\ [][Next]_vars

-------------------------------------------------------------------------------
(* Properties. *)

Rows == [hits : Nat, allowed : Nat, throttled : Nat, last : 0..MaxTime]

TypeOK ==
  /\ now \in 0..MaxTime /\ swept \in 0..now /\ retries \in 0..MaxRetries
  /\ log \in Seq([source : Sources \cup {Malformed}, ts : 0..now, throttled : BOOLEAN])
  /\ events \in [Requests -> Nat] /\ inserted \in [Requests -> Nat]
  /\ \A i \in Requests : events[i] <= inserted[i] /\ (log[i].source = Malformed => inserted[i] = 0)
  /\ queued \subseteq Requests /\ acked \subseteq Requests \ queued
  /\ \A w \in Workers :
       /\ handler[w].batch \subseteq Requests \ (queued \cup acked)
       /\ handler[w].seen \in [DOMAIN handler[w].seen -> Rows]
       /\ DOMAIN handler[w].seen \subseteq {Bucket(i) : i \in Parsed(handler[w].batch)}
  /\ \A v, w \in Workers : v # w => handler[v].batch \cap handler[w].batch = {}
  /\ rollups \in [DOMAIN rollups -> Rows] /\ raced \subseteq Sources \X (0..MaxTime)

\* The buckets something was stored in, with what should be in their rows.
Stored == {i \in Requests : inserted[i] > 0}
Buckets == {Bucket(i) : i \in Stored}
Count(b) == Tally(Stored, inserted, b)

\* A request Kong has a 200 for is stored, until the retention sweep: a malformed neighbour,
\* a batch that failed before, or one that runs at the same time does not lose it.
AckedIsStored ==
  \A i \in acked : log[i].source # Malformed => events[i] > 0 \/ log[i].ts < swept - EventTicks

\* The reads "never touch gateway_events": the counts of a bucket that is still kept are
\* those of the events stored, duplicates and late ones included, unless a handler wrote
\* counts over newer ones.
CountsAreExact ==
  \A b \in Buckets \ raced :
    b[2] * PerMinute >= swept - RollupTicks => b \in DOMAIN rollups /\ rollups[b] = Count(b)

\* "gateway_rollups, which is written alongside each event": broken by two batches that
\* both read a row before either commits.
CountsFollowEvents ==
  \A b \in Buckets :
    b[2] * PerMinute >= swept - RollupTicks => b \in DOMAIN rollups /\ rollups[b] = Count(b)
================================================================================
