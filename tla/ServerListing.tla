----------------------------- MODULE ServerListing -----------------------------
(***************************************************************************)
(* The inventory page (frontend/components/server-management-page.tsx): the    *)
(* rows and the groups it holds, each a copy of what the server had when it     *)
(* was asked; the grouped table and the cards drawn from the two copies; the    *)
(* requests of the row menu, the group manager and the vitals run.             *)
(*                                                                          *)
(* A request is served and its answer delivered in two steps, and answers       *)
(* overtake one another: the rows may know of a group the page has not heard    *)
(* of, or of one it no longer lists. Only this page edits the groups. Names,     *)
(* types and environments are left out; so are the sorts, which keep every row. *)
(***************************************************************************)
EXTENDS Integers, FiniteSets

CONSTANTS Servers, Folders,
          Workers,     \* 4: probes of one vitals run at a time
          MaxRequests, \* bound: requests sent in the life of the page
          None         \* no group (the wire's ""), and nothing yet

ListingAssumption == /\ None \notin Servers \cup Folders
                     /\ IsFiniteSet(Servers) /\ IsFiniteSet(Folders)
                     /\ Workers \in Nat \ {0} /\ MaxRequests \in Nat

VARIABLES
  tree,        \* the server's groups: existing group -> its parent or None
  home,        \* the server's rows: machine -> group or None
  servers,     \* the page's rows
  folders,     \* the page's groups
  groupFilter, \* "all", None for Unassigned, or a group
  refreshing,  \* a vitals run is under way
  queue,       \* machines it has not probed yet
  tasks,       \* requests whose answer has not been delivered
  sent         \* requests sent so far

store == <<tree, home>>
page  == <<servers, folders, groupFilter>>
run   == <<refreshing, queue>>
vars  == <<store, page, run, tasks, sent>>

NoTree == [f \in {} |-> None]
Trees  == UNION {[F -> Folders \cup {None}] : F \in SUBSET Folders}

TypeOK ==
  /\ {tree, folders} \subseteq Trees
  /\ home \in [Servers -> Folders \cup {None}]
  /\ servers \in [Servers -> Folders \cup {None}]
  /\ groupFilter \in Folders \cup {None, "all"}
  /\ refreshing \in BOOLEAN /\ queue \subseteq Servers
  /\ \A t \in tasks : t.id \in 1 .. sent

-----------------------------------------------------------------------------
(* What is drawn.                                                            *)

\* Mutant: the table trusts the row.
KeyOfRow(s) == servers[s]

\* A group that no longer resolves counts as none.
KeyOf(s) == IF servers[s] \in DOMAIN folders THEN servers[s] ELSE None

inGroup(s) == groupFilter \in {"all", KeyOf(s)}
filteredServers == {s \in Servers : inGroup(s)}

Rows(f) == {s \in filteredServers : KeyOf(s) = f}

\* The groups that have rows, and all that are above them.
toShow ==
  LET Up[k \in 0 .. Cardinality(Folders)] ==
        IF k = 0 THEN {f \in DOMAIN folders : Rows(f) # {}}
        ELSE Up[k - 1] \cup ({folders[f] : f \in Up[k - 1]} \cap DOMAIN folders)
  IN Up[Cardinality(Folders)]

\* childrenOf: a parent that is not listed counts as none.
parentOf(f) == IF folders[f] \in DOMAIN folders THEN folders[f] ELSE None

\* The walk from the top, as the sections and their depths, and Unassigned.
groups ==
  LET shown == toShow
      Walk[d \in 0 .. Cardinality(Folders)] ==
        {f \in shown : IF d = 0 THEN parentOf(f) = None ELSE parentOf(f) \in Walk[d - 1]}
  IN (UNION {{[key |-> f, depth |-> d] : f \in Walk[d]} : d \in 0 .. Cardinality(Folders)})
     \cup IF Rows(None) = {} THEN {} ELSE {[key |-> None, depth |-> 0]}

\* renderGroupCards: the cards of a level, and the rows of an opened card; the
\* Unassigned card at the top counts what does not resolve.
childFolders(c) == {f \in DOMAIN folders : folders[f] = c}
directServers(c) == {s \in Servers : servers[s] = c}

unassigned == {s \in Servers : servers[s] = None \/ servers[s] \notin DOMAIN folders}

Opened ==
  LET Down[k \in 0 .. Cardinality(Folders)] ==
        IF k = 0 THEN childFolders(None)
        ELSE Down[k - 1] \cup UNION {childFolders(c) : c \in Down[k - 1]}
  IN Down[Cardinality(Folders)]

-----------------------------------------------------------------------------
(* Requests.                                                                 *)

Request(kind, on, to) ==
  [id |-> sent + 1, kind |-> kind, on |-> on, to |-> to,
   served |-> {}, rows |-> NoTree, tree |-> NoTree]

Send(ts) == /\ sent + Cardinality(ts) <= MaxRequests
            /\ tasks' = tasks \cup ts
            /\ sent' = sent + Cardinality(ts)

\* A function that goes on with a request of its own keeps its place.
GoesOn(t, kind) == {[t EXCEPT !.kind = kind, !.on = None, !.to = None, !.served = {},
                              !.rows = NoTree]}

Parts(kind) == IF kind = "load" THEN {"rows", "tree"} ELSE {"it"}

\* The effect that leaves a filter whose group is gone.
FilterFor(fs) ==
  IF groupFilter \in {"all", None} \cup DOMAIN fs THEN groupFilter ELSE "all"

Shows(rs, fs) == /\ servers' = rs /\ folders' = fs
                 /\ groupFilter' = FilterFor(fs)

\* The page has loaded, at a moment when nothing changed.
Init ==
  /\ tree \in Trees
  /\ \A f \in DOMAIN tree : tree[f] \in DOMAIN tree \cup {None}
  /\ \A F \in (SUBSET DOMAIN tree) \ {{}} : \E f \in F : tree[f] \notin F
  /\ home \in [Servers -> DOMAIN tree \cup {None}]
  /\ servers = home /\ folders = tree
  /\ groupFilter = "all" /\ refreshing = FALSE /\ queue = {}
  /\ tasks = {} /\ sent = 0

-----------------------------------------------------------------------------
(* The operator.                                                             *)

\* The row menu: one probe, unless the row is being probed on its own already.
RefreshOne(s) ==
  /\ s \in filteredServers
  /\ \A t \in tasks : t.kind = "vitals" => t.on # s
  /\ Send({Request("vitals", s, None)})
  /\ UNCHANGED <<store, page, run>>

\* "Move to group..." offers every group the page lists.
AssignFolder(s, f) ==
  /\ s \in filteredServers /\ f \in DOMAIN folders \cup {None}
  /\ Send({Request("assign", s, f)})
  /\ UNCHANGED <<store, page, run>>

RemoveFolder(f) ==
  /\ f \in DOMAIN folders
  /\ Send({Request("remove", f, None)})
  /\ UNCHANGED <<store, page, run>>

\* The forms stay greyed out until the groups are listed again.
folderBusy == \E t \in tasks : t.kind \in {"create", "created"}

CreateGroupUnder(parent) ==
  /\ parent \in DOMAIN folders \cup {None}
  /\ ~folderBusy
  /\ Send({Request("create", None, parent)})
  /\ UNCHANGED <<store, page, run>>

SetFilter(f) ==
  /\ f \in {"all", None} \cup DOMAIN folders /\ f # groupFilter
  /\ groupFilter' = f
  /\ UNCHANGED <<store, servers, folders, run, tasks, sent>>

\* Mutant: the menu entry is not greyed out.
MayRefreshAllAgain == filteredServers # {}

MayRefreshAll == ~refreshing /\ filteredServers # {}

\* The rows visible now, by at most Workers probes at a time.
RefreshAllVitals ==
  /\ MayRefreshAll
  /\ \E first \in SUBSET filteredServers :
       /\ Cardinality(first) =
            IF Cardinality(filteredServers) < Workers
            THEN Cardinality(filteredServers) ELSE Workers
       /\ LET nth == CHOOSE n \in [first -> 1 .. Cardinality(first)] :
                       \A a, b \in first : a # b => n[a] # n[b]
          IN Send({[Request("bulk", s, None) EXCEPT !.id = sent + nth[s]] : s \in first})
       /\ queue' = filteredServers \ first
  /\ refreshing' = TRUE
  /\ UNCHANGED <<store, page>>

-----------------------------------------------------------------------------
(* The server: each request in one transaction, the two lists of a load in two. *)

Without(f) == [g \in DOMAIN tree \ {f} |-> IF tree[g] = f THEN tree[f] ELSE tree[g]]

Delete(f) == /\ tree' = Without(f)
             /\ home' = [s \in Servers |-> IF home[s] = f THEN None ELSE home[s]]

\* The row of the answer, or the list asked for.
Answer(t, part) ==
  tasks' = (tasks \ {t}) \cup
    {[t EXCEPT
        !.served = @ \cup {part},
        !.rows = IF part = "rows" THEN home'
                 ELSE IF t.on \in Servers THEN [s \in {t.on} |-> home'[s]] ELSE @,
        !.tree = IF part = "tree" \/ t.kind \in {"folders", "created"} THEN tree' ELSE @]}

Effect(t) ==
  CASE t.kind = "assign" /\ t.to \in DOMAIN tree \cup {None} ->
         home' = [home EXCEPT ![t.on] = t.to] /\ UNCHANGED tree
    [] t.kind = "remove" /\ t.on \in DOMAIN tree -> Delete(t.on)
    [] t.kind = "create" /\ t.to \in DOMAIN tree \cup {None} /\ DOMAIN tree # Folders ->
         /\ \E f \in Folders \ DOMAIN tree :
              tree' = [g \in DOMAIN tree \cup {f} |-> IF g = f THEN t.to ELSE tree[g]]
         /\ UNCHANGED home
    [] OTHER -> UNCHANGED store

Serve(t) ==
  \E part \in Parts(t.kind) \ t.served :
    /\ Effect(t)
    /\ Answer(t, part)
    /\ UNCHANGED <<page, run, sent>>

-----------------------------------------------------------------------------
(* The answers.                                                              *)

ListsAnswered(t) ==
  /\ t.kind \in {"load", "folders", "created"}
  /\ Shows(IF t.kind = "load" THEN t.rows ELSE servers, t.tree)
  /\ tasks' = tasks \ {t}
  /\ UNCHANGED run

\* A move replaces the row and lists the groups again; a removal loads both, and
\* a creation lists the groups.
NextRead(t) == CASE t.kind = "assign" -> "folders"
                [] t.kind = "remove" -> "load"
                [] t.kind = "create" -> "created"

EditAnswered(t) ==
  /\ t.kind \in {"assign", "remove", "create"}
  /\ IF t.kind = "assign"
     THEN servers' = [servers EXCEPT ![t.on] = t.rows[t.on]] ELSE UNCHANGED servers
  /\ tasks' = (tasks \ {t}) \cup GoesOn(t, NextRead(t))
  /\ UNCHANGED <<folders, groupFilter, run>>

\* A probe replaces the whole row, its group included.
Probed(t, ok) ==
  servers' = IF ok THEN [servers EXCEPT ![t.on] = t.rows[t.on]] ELSE servers

VitalsAnswered(t, ok) ==
  /\ t.kind = "vitals"
  /\ Probed(t, ok)
  /\ tasks' = tasks \ {t}
  /\ UNCHANGED <<folders, groupFilter, run>>

RunEnds(t) == queue = {} /\ \A u \in tasks \ {t} : u.kind # "bulk"

\* A worker takes the next machine, and the last one ends the run.
BulkAnswered(t, ok) ==
  /\ t.kind = "bulk"
  /\ Probed(t, ok)
  /\ \/ \E next \in queue :
          /\ tasks' = (tasks \ {t}) \cup {[t EXCEPT !.on = next, !.served = {}, !.rows = NoTree]}
          /\ queue' = queue \ {next}
          /\ UNCHANGED refreshing
     \/ /\ queue = {}
        /\ tasks' = tasks \ {t}
        /\ refreshing' = ~RunEnds(t)
        /\ UNCHANGED queue
  /\ UNCHANGED <<folders, groupFilter>>

Fails(t) ==
  /\ t.kind \in {"load", "folders", "created", "assign", "remove", "create"}
  /\ tasks' = tasks \ {t}
  /\ UNCHANGED <<page, run>>

Deliver(t) ==
  /\ \/ /\ t.served = Parts(t.kind)
        /\ \/ ListsAnswered(t) \/ EditAnswered(t)
           \/ VitalsAnswered(t, TRUE) \/ BulkAnswered(t, TRUE)
     \/ Fails(t) \/ VitalsAnswered(t, FALSE) \/ BulkAnswered(t, FALSE)
  /\ UNCHANGED <<store, sent>>

-----------------------------------------------------------------------------
\* The menu of a row, in the table and in the cards alike.
RowActions ==
  \E s \in Servers : RefreshOne(s) \/ \E f \in Folders \cup {None} : AssignFolder(s, f)

\* The headers of the cards, and the group manager.
GroupCards ==
  \/ \E f \in Folders : RemoveFolder(f)
  \/ \E f \in Folders \cup {None} : CreateGroupUnder(f)

FilterBar == \E f \in Folders \cup {None, "all"} : SetFilter(f)
Toolbar   == RefreshAllVitals

Next == \/ RowActions \/ GroupCards \/ FilterBar \/ Toolbar
        \/ \E t \in tasks : Serve(t) \/ Deliver(t)

Spec == Init /\ [][Next]_vars

-----------------------------------------------------------------------------
(* Properties.                                                               *)

\* The grouped table shows every row that passes the filter in exactly one
\* section, and every section below its parent's, whatever the two copies were
\* told at different moments.
EveryRowHasItsSection ==
  LET sections == groups
  IN /\ \A s \in filteredServers : Cardinality({g \in sections : KeyOf(s) = g.key}) = 1
     /\ \A g \in sections : g.depth > 0 =>
          [key |-> parentOf(g.key), depth |-> g.depth - 1] \in sections

\* Whatever the table shows without filters can also be reached by the cards.
CardsReachEveryRow ==
  Servers \subseteq unassigned \cup UNION {directServers(c) : c \in Opened}

\* "Bounded concurrency keeps a large inventory from opening dozens of SSH
\* connections at once": a run never has more probes out than it has workers, and
\* a second run does not start while the first has any.
ProbesAreBounded == Cardinality({t \in tasks : t.kind = "bulk"}) <= Workers
=============================================================================
