---------------------------- MODULE RedisWorkspace ----------------------------
(***************************************************************************)
(* The Redis view of the database page (frontend/components/                 *)
(* redis-workspace.tsx): it scans the keys of a logical database page by       *)
(* page, shows one key and runs commands. No answer carries a ticket: each     *)
(* lands on whatever is shown by then, in any order. The navigator may put     *)
(* another connection under the open view, which keeps its database and log.   *)
(***************************************************************************)
EXTENDS Integers, Sequences

CONSTANTS Conns,       \* Redis connections
          Dbs,         \* logical databases
          Patterns,    \* key patterns
          Keys,        \* keys that may be selected
          LastPage,    \* the scan of a database has pages 0 .. LastPage
          MaxRequests, \* bound: requests sent
          None

RedisAssumption == LastPage \in Nat /\ MaxRequests \in Nat /\ "*" \in Patterns

VARIABLES
  conn,     \* connection, or None while the view is closed
  db,       \* the logical database chosen
  pattern,  \* the pattern scanned for
  keys,     \* the pages listed, each with the place it is of
  cursor,   \* where "Load more" goes on, 0 at the end
  scanning, \* the list's spinner
  selected, \* selectedKey, or None
  detail,   \* the key shown, or NoDetail
  reading,  \* detailLoading
  running,  \* a command is under way
  log,      \* the commands answered, by the number of their request
  flying,   \* requests not answered yet
  sent      \* requests sent so far

list  == <<keys, cursor, scanning>>
value == <<selected, detail, reading>>
vars  == <<conn, db, pattern, list, value, running, log, flying, sent>>

NoDetail == [key |-> None]

Place == [conn |-> conn, db |-> db, pattern |-> pattern]

TypeOK ==
  /\ conn \in Conns \cup {None} /\ db \in Dbs /\ pattern \in Patterns
  /\ cursor \in 0 .. LastPage
  /\ \A i \in DOMAIN keys : keys[i].page \in 0 .. LastPage /\ keys[i].at.db \in Dbs
  /\ selected \in Keys \cup {None} /\ detail.key \in Keys \cup {None}
  /\ {scanning, reading, running} \subseteq BOOLEAN
  /\ sent \in 0 .. MaxRequests /\ \A q \in flying : q.n \in 1 .. sent

-----------------------------------------------------------------------------

\* Requests carry the place their callback was made for.
Scan(k, at, page, reset) == [n |-> sent + k, kind |-> "scan", at |-> at, page |-> page, reset |-> reset]
Read(k, at, key)         == [n |-> sent + k, kind |-> "key", at |-> at, key |-> key]
Command                  == [n |-> sent + 1, kind |-> "command", at |-> Place, key |-> selected]

Send(others, qs, count) ==
  sent + count <= MaxRequests /\ sent' = sent + count /\ flying' = others \cup qs

Take(q) == flying' = flying \ {q} /\ UNCHANGED sent

\* The effect on the database, the pattern and the connection.
ShowPlace(others, at) ==
  /\ conn' = at.conn /\ db' = at.db /\ pattern' = at.pattern
  /\ keys' = << >> /\ cursor' = 0 /\ scanning' = TRUE
  /\ selected' = None /\ detail' = NoDetail
  /\ Send(others, {Scan(1, at, 0, TRUE)}, 1)

\* The view mounts on the connection's own database; what an earlier one
\* still waits for is lost.
OpenView(c, d) ==
  /\ conn = None
  /\ ShowPlace({}, [conn |-> c, db |-> d, pattern |-> "*"])
  /\ reading' = FALSE /\ running' = FALSE /\ log' = << >>

CloseView ==
  /\ conn # None /\ conn' = None
  /\ flying' = {}
  /\ UNCHANGED <<db, pattern, list, value, running, log, sent>>

ChangePlace(c, d, p) ==
  /\ conn # None /\ [conn |-> c, db |-> d, pattern |-> p] # Place
  /\ <<c, d, p>> \in {<<conn, db, p>>, <<conn, d, pattern>>, <<c, db, pattern>>}
  /\ ShowPlace(flying, [conn |-> c, db |-> d, pattern |-> p])
  /\ UNCHANGED <<reading, running, log>>

Refresh ==
  /\ conn # None
  /\ scanning' = TRUE
  /\ Send(flying, {Scan(1, Place, 0, TRUE)}, 1)
  /\ UNCHANGED <<conn, db, pattern, keys, cursor, value, running, log>>

LoadMore ==
  /\ conn # None /\ cursor # 0 /\ ~scanning
  /\ scanning' = TRUE
  /\ Send(flying, {Scan(1, Place, cursor, FALSE)}, 1)
  /\ UNCHANGED <<conn, db, pattern, keys, cursor, value, running, log>>

\* The pages listed are replaced, or the next one is added; or an error shows.
ScanAnswered(q) ==
  /\ q.kind = "scan"
  /\ scanning' = FALSE
  /\ \/ /\ keys' = (IF q.reset THEN << >> ELSE keys) \o <<[at |-> q.at, page |-> q.page]>>
        /\ cursor' = IF q.page = LastPage THEN 0 ELSE q.page + 1
     \/ UNCHANGED <<keys, cursor>>
  /\ Take(q)
  /\ UNCHANGED <<conn, db, pattern, value, running, log>>

SelectKey(k) ==
  /\ conn # None /\ keys # << >>
  /\ selected' = k /\ detail' = NoDetail /\ reading' = TRUE
  /\ Send(flying, {Read(1, Place, k)}, 1)
  /\ UNCHANGED <<conn, db, pattern, list, running, log>>

KeyAnswered(q) ==
  /\ q.kind = "key"
  /\ reading' = FALSE
  /\ detail' \in {detail, [key |-> q.key]}
  /\ Take(q)
  /\ UNCHANGED <<conn, db, pattern, list, selected, running, log>>

\* Mutant: only the button looks at running; Enter does not.
maySubmitAnytime == conn # None

\* submitCommand, from the button and from Enter.
maySubmit == conn # None /\ ~running

SubmitCommand ==
  /\ maySubmit
  /\ running' = TRUE
  /\ Send(flying, {Command}, 1)
  /\ UNCHANGED <<conn, db, pattern, list, value, log>>

\* A command that worked scans again, and reads the key that was selected,
\* where it was sent from: the callbacks are those of that render.
CommandWorks(q) ==
  /\ q.kind = "command"
  /\ running' = FALSE /\ log' = Append(log, q.n)
  /\ scanning' = TRUE
  /\ \/ /\ q.key = None
        /\ Send(flying \ {q}, {Scan(1, q.at, 0, TRUE)}, 1)
        /\ UNCHANGED value
     \/ /\ q.key # None
        /\ selected' = q.key /\ detail' = NoDetail /\ reading' = TRUE
        /\ Send(flying \ {q}, {Scan(1, q.at, 0, TRUE), Read(2, q.at, q.key)}, 2)
  /\ UNCHANGED <<conn, db, pattern, keys, cursor>>

CommandFails(q) ==
  /\ q.kind = "command"
  /\ running' = FALSE /\ log' = Append(log, q.n)
  /\ Take(q)
  /\ UNCHANGED <<conn, db, pattern, list, value>>

-----------------------------------------------------------------------------

Init ==
  /\ conn = None /\ db \in Dbs /\ pattern = "*"
  /\ keys = << >> /\ cursor = 0 /\ scanning = FALSE
  /\ selected = None /\ detail = NoDetail /\ reading = FALSE
  /\ running = FALSE /\ log = << >> /\ flying = {} /\ sent = 0

\* The navigator opens the view, closes it or puts another connection in it.
Navigator ==
  \/ CloseView
  \/ \E c \in Conns, d \in Dbs : OpenView(c, d)
  \/ \E c \in Conns : ChangePlace(c, db, pattern)

\* The list's own header, its rows, and the console below the value.
Header    == Refresh \/ \E d \in Dbs, p \in Patterns : ChangePlace(conn, d, p)
KeyList   == LoadMore \/ \E k \in Keys : SelectKey(k)
Console   == SubmitCommand
Answers   == \E q \in flying :
               ScanAnswered(q) \/ KeyAnswered(q) \/ CommandWorks(q) \/ CommandFails(q)

Next == Navigator \/ Header \/ KeyList \/ Console \/ Answers

Spec == Init /\ [][Next]_vars

-----------------------------------------------------------------------------

\* The console's log tells commands in the order they were sent: the next
\* one waits for the answer, also after the database was switched below it.
LogIsInOrder == \A i, j \in DOMAIN log : i < j => log[i] < log[j]
=============================================================================
