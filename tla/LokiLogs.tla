------------------------------- MODULE LokiLogs -------------------------------
(***************************************************************************)
(* The log viewer over Loki (frontend/components/loki-logs.tsx): a query        *)
(* returns at most a page of the newest lines of its window, "Load older" goes  *)
(* on below the oldest line shown, and an export walks the whole window on its   *)
(* own. The three run side by side, and a new query may be sent while any of     *)
(* them is under way.                                                        *)
(*                                                                          *)
(* The lines of a window do not change while it is read. Lines differ in their   *)
(* nanosecond or their text, and several may share a nanosecond. The rows are    *)
(* kept as the pages they came in, newest first.                              *)
(***************************************************************************)
EXTENDS Integers, Sequences, FiniteSetsExt

CONSTANTS Lines,       \* the log lines Loki has
          Ns,          \* line -> its nanosecond
          Queries,     \* what the builder may come to
          Matches,     \* query -> the lines it selects
          Windows,     \* time windows, [start, end)
          PageLimit,   \* lines of an answer (PAGE_LIMIT)
          ExportMax,   \* lines of a file (EXPORT_MAX_LINES)
          MaxRequests, \* bound: queries, pages and exports asked for
          None

ViewerAssumption ==
  /\ Ns \in [Lines -> Nat] /\ Matches \in [Queries -> SUBSET Lines]
  /\ IsFiniteSet(Lines)
  /\ \A w \in Windows : {w.start, w.end} \subseteq Nat /\ w.start < w.end
  /\ {PageLimit, ExportMax, MaxRequests} \subseteq Nat \ {0}
  /\ None \notin Queries /\ None \notin Windows

VARIABLES
  query,       \* what the builder comes to now, None if it is refused
  window,      \* the window chosen now, None if it is refused
  ctx,         \* queryCtx: the answered query, or None
  pages,       \* the rows
  hasMore,
  loading, loadingMore, exporting, \* spinners
  failed,      \* an error is shown, in place of the rows
  file,        \* the file downloaded last, or None
  flying,      \* requests not answered yet
  sent,        \* requests sent so far
  whose        \* observed only: the queries the rows and hasMore came from

builder  == <<query, window>>
results  == <<ctx, pages, hasMore, whose>>
spinners == <<loading, loadingMore, exporting>>
vars     == <<builder, results, spinners, failed, file, flying, sent>>

TypeOK ==
  /\ query \in Queries \cup {None} /\ window \in Windows \cup {None}
  /\ ctx = None \/ (ctx.query \in Queries /\ ctx.window \in Windows)
  /\ \A i \in DOMAIN pages : pages[i] \in (SUBSET Lines) \ {{}}
  /\ {hasMore, loading, loadingMore, exporting, failed} \subseteq BOOLEAN
  /\ file = None \/ file.lines \subseteq Lines
  /\ sent \in 0 .. MaxRequests /\ \A t \in flying : t.id \in 1 .. sent

-----------------------------------------------------------------------------
(* Loki.                                                                     *)

InWindow(c) == {l \in Matches[c.query] : c.window.start <= Ns[l] /\ Ns[l] < c.window.end}

\* The page a range query returns, newest first: which lines of the oldest
\* nanosecond make it is Loki's choice.
Pages(c, before) ==
  LET found == {l \in InWindow(c) : Ns[l] < before}
      size == IF Cardinality(found) < PageLimit THEN Cardinality(found) ELSE PageLimit
  IN {p \in kSubset(size, found) : \A l \in p, m \in found \ p : Ns[l] >= Ns[m]}

\* The last row of a page.
OldestNs(p) == Min({Ns[l] : l \in p})

Shown == UNION {pages[i] : i \in DOMAIN pages}

-----------------------------------------------------------------------------
(* Requests.                                                                 *)

Request(kind, c, before) ==
  [id |-> sent + 1, kind |-> kind, ctx |-> c, before |-> before, got |-> {}, ends |-> {}]

Send(t) == sent < MaxRequests /\ sent' = sent + 1 /\ flying' = flying \cup {t}

Ends(t) == flying' = flying \ {t} /\ UNCHANGED sent

\* The page mounts; with a pinned selector it asks at once.
Init ==
  /\ query \in Queries \cup {None} /\ window \in Windows
  /\ ctx = None /\ pages = << >> /\ hasMore = FALSE /\ whose = {}
  /\ loadingMore = FALSE /\ exporting = FALSE /\ failed = FALSE /\ file = None
  /\ \/ loading = FALSE /\ sent = 0 /\ flying = {}
     \/ /\ query # None /\ loading = TRUE /\ sent = 1
        /\ flying = {[id |-> 1, kind |-> "run", before |-> window.end, got |-> {}, ends |-> {},
                      ctx |-> [query |-> query, window |-> window, run |-> 1]]}

-----------------------------------------------------------------------------
(* The query builder.                                                        *)

SetSelectors(q) == /\ q # query /\ query' = q
                   /\ UNCHANGED <<window, results, spinners, failed, file, flying, sent>>

SetWindow(w) == /\ w # window /\ window' = w
                /\ UNCHANGED <<query, results, spinners, failed, file, flying, sent>>

\* Run, Enter in the line filter and the Run of the folded builder: the last
\* two are there while a query is under way.
Run ==
  /\ IF None \in {query, window}
     THEN failed' = TRUE /\ UNCHANGED <<spinners, flying, sent>>
     ELSE /\ Send(Request("run", [query |-> query, window |-> window, run |-> sent + 1],
                          window.end))
          /\ loading' = TRUE /\ failed' = FALSE
          /\ UNCHANGED <<loadingMore, exporting>>
  /\ UNCHANGED <<builder, results, file>>

RunAnswered(t, ok) ==
  /\ t.kind = "run"
  /\ IF ok
     THEN \E p \in Pages(t.ctx, t.before) :
            /\ pages' = IF p = {} THEN << >> ELSE <<p>>
            /\ ctx' = t.ctx
            /\ hasMore' = (Cardinality(p) >= PageLimit)
            /\ UNCHANGED failed
     ELSE pages' = << >> /\ ctx' = None /\ hasMore' = FALSE /\ failed' = TRUE
  /\ whose' = {t.id}
  /\ loading' = FALSE
  /\ Ends(t)
  /\ UNCHANGED <<builder, loadingMore, exporting, file>>

-----------------------------------------------------------------------------
(* Older pages.                                                              *)

\* Loki's end is exclusive, so the next page ends below the last row.
Anchor == OldestNs(pages[Len(pages)])

LoadOlder ==
  /\ ~loading /\ ~failed /\ hasMore /\ ~loadingMore
  /\ ctx # None /\ pages # << >>
  /\ Send(Request("older", ctx, Anchor))
  /\ loadingMore' = TRUE
  /\ UNCHANGED <<builder, results, loading, exporting, failed, file>>

\* Mutant: what another query has shown in the meantime is not looked at.
FreshAll(p) == p

Fresh(p) == p \ Shown

\* The page goes below whatever rows are there by now.
OlderAnswered(t, ok) ==
  /\ t.kind = "older"
  /\ IF ok
     THEN \E p \in Pages(t.ctx, t.before) :
            /\ pages' = IF Fresh(p) = {} THEN pages ELSE Append(pages, Fresh(p))
            /\ hasMore' = (Cardinality(p) >= PageLimit)
            /\ whose' = whose \cup {t.ctx.run}
            /\ UNCHANGED failed
     ELSE failed' = TRUE /\ UNCHANGED <<pages, hasMore, whose>>
  /\ loadingMore' = FALSE
  /\ Ends(t)
  /\ UNCHANGED <<builder, ctx, loading, exporting, file>>

-----------------------------------------------------------------------------
(* Export.                                                                   *)

Export ==
  /\ ctx # None /\ ~exporting
  /\ Send(Request("export", ctx, ctx.window.end))
  /\ exporting' = TRUE /\ failed' = FALSE
  /\ UNCHANGED <<builder, results, loading, loadingMore, file>>

\* Mutant: the next page is asked for with the end of this one.
NextBeforeSame(t, p) == t.before

NextBefore(t, p) == OldestNs(p)

\* A short page, the ceiling, or nothing new: the walk is over.
LastOne(t, p) == \/ Cardinality(p) < PageLimit
                 \/ Cardinality(t.got \cup p) >= ExportMax
                 \/ p \subseteq t.got

Download(t, p) ==
  file' = IF t.got \cup p = {} THEN file
          ELSE [ctx |-> t.ctx, lines |-> t.got \cup p, ends |-> t.ends]

ExportAnswered(t, ok) ==
  /\ t.kind = "export"
  /\ \/ /\ ok
        /\ \E p \in Pages(t.ctx, t.before) :
             IF LastOne(t, p) THEN Download(t, p) /\ exporting' = FALSE /\ Ends(t)
             ELSE /\ flying' = (flying \ {t}) \cup
                       {[t EXCEPT !.got = @ \cup p, !.before = NextBefore(t, p),
                                  !.ends = @ \cup {OldestNs(p)}]}
                  /\ UNCHANGED <<exporting, file, sent>>
        /\ UNCHANGED failed
     \/ /\ ~ok /\ exporting' = FALSE /\ failed' = TRUE
        /\ Ends(t)
        /\ UNCHANGED file
  /\ UNCHANGED <<builder, results, loading, loadingMore>>

-----------------------------------------------------------------------------
Controls == \/ \E q \in Queries \cup {None} : SetSelectors(q)
            \/ \E w \in Windows \cup {None} : SetWindow(w)
            \/ Run \/ Export

ResultsPane == LoadOlder

Answers == \E t \in flying, ok \in BOOLEAN :
             RunAnswered(t, ok) \/ OlderAnswered(t, ok) \/ ExportAnswered(t, ok)

Next == Controls \/ ResultsPane \/ Answers

Spec == Init /\ [][Next]_vars

-----------------------------------------------------------------------------
(* Properties.                                                               *)

\* "Pages join with no overlap or gap": no line is shown twice, whatever queries
\* the pages are of; and the pages of one query leave out no line of its window
\* above the last row, nor below it once there is nothing more to load - except
\* a line that shares its nanosecond with the last row of some page, which the
\* exclusive end skips.
PagesJoin ==
  /\ \A i, j \in DOMAIN pages : i # j => pages[i] \cap pages[j] = {}
  /\ ctx # None /\ whose = {ctx.run} =>
       \A l \in InWindow(ctx) \ Shown :
         \/ \E i \in DOMAIN pages : Ns[l] = OldestNs(pages[i])
         \/ (hasMore /\ Ns[l] < Anchor)

\* "Export the whole window, not just what is on screen": a file that was not cut
\* at the ceiling has every line of the window of the query it was exported for,
\* with the same exception, whatever was queried or loaded in the meantime.
FileIsTheWindow ==
  file # None =>
    /\ file.lines \subseteq InWindow(file.ctx)
    /\ \/ Cardinality(file.lines) >= ExportMax
       \/ \A l \in InWindow(file.ctx) \ file.lines : Ns[l] \in file.ends

\* A spinner that turns has a request that stops it.
SpinnersEnd ==
  /\ loading => \E t \in flying : t.kind = "run"
  /\ loadingMore => \E t \in flying : t.kind = "older"
  /\ exporting => \E t \in flying : t.kind = "export"
=============================================================================
