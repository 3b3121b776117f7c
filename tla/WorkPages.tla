------------------------------- MODULE WorkPages -------------------------------
(***************************************************************************)
(* The pages that are not about one server, together: the database page with   *)
(* its query tabs, its navigator and its Redis view, the page of a Kubernetes   *)
(* cluster, the inventory page, and the log viewer and the charts of the          *)
(* monitoring pages. They share no state, so one of them moves in a behaviour      *)
(* and the others stay where they start.                                       *)
(***************************************************************************)
EXTENDS DbWorkspace

CONSTANTS Dbs, Patterns, Keys, LastPage, Namespaces, All, Servers, Folders, Workers,
          Lines, Ns, Queries, Matches, Windows, PageLimit, ExportMax, Ranges, FirstRange,
          MaxNavigator, MaxRedis, MaxCluster, MaxRequests, MaxLoki, MaxCharts

VARIABLES part,
  stored, byDefault, changes, changed, listed, showAll, node, kid, dialog, saving,
  conn, db, pattern, keys, cursor, scanning, selected, detail, reading, running,
  log, commands, commanded,
  cluster, tab, namespace, loaded, rows, options, pick, podLogs, auto, busy,
  reads, asked,
  tree, home, servers, folders, groupFilter, refreshing, queue, requests, posted,
  builder, window, ctx, pages, hasMore, finding, loadingMore, exporting, refused,
  file, searches, searched, whose,
  page, enabled, pane, range, open, data, drawing, failed, plots, plotted

navigator == <<stored, byDefault, changes, changed, listed, showAll, node, kid, dialog,
               saving>>
keyspace  == <<conn, db, pattern, keys, cursor, scanning, selected, detail, reading,
               running, log, commands, commanded>>
kube      == <<cluster, tab, namespace, loaded, rows, options, pick, podLogs, auto,
               busy, reads, asked>>
inventory == <<tree, home, servers, folders, groupFilter, refreshing, queue, requests,
               posted>>
viewer    == <<builder, window, ctx, pages, hasMore, finding, loadingMore, exporting,
               refused, file, searches, searched, whose>>
chart     == <<page, enabled, pane, range, open, data, drawing, failed, plots, plotted>>

Connections == INSTANCE DbNavigator WITH
  MaxRequests <- MaxNavigator, flying <- changes, sent <- changed
Keyspace == INSTANCE RedisWorkspace WITH
  MaxRequests <- MaxRedis, flying <- commands, sent <- commanded
Kube == INSTANCE ClusterDetail WITH MaxTasks <- MaxCluster, tasks <- reads, sent <- asked
Inventory == INSTANCE ServerListing WITH tasks <- requests, sent <- posted

Viewer == INSTANCE LokiLogs WITH
  MaxRequests <- MaxLoki, query <- builder, loading <- finding, failed <- refused,
  flying <- searches, sent <- searched

Chart == INSTANCE MetricCharts WITH
  First <- FirstRange, MaxRequests <- MaxCharts, tab <- pane,
  loading <- drawing, flying <- plots, sent <- plotted

\* Of the groups, which are alike, one is there first and at the top; of the
\* machines, which are alike too, one is in it if any is.
CaseOf(groups, rows_) ==
  LET top == CHOOSE f \in Folders : TRUE
      one == CHOOSE s \in Servers : TRUE
  IN DOMAIN groups # {} => /\ top \in DOMAIN groups /\ groups[top] = None
                           /\ top \in {rows_[s] : s \in Servers} => rows_[one] = top

ASSUME PagesAssumption ==
  /\ WorkspaceAssumption /\ Connections!NavigatorAssumption
  /\ Keyspace!RedisAssumption /\ Kube!ClusterAssumption /\ Inventory!ListingAssumption
  /\ Viewer!ViewerAssumption /\ Chart!ChartAssumption

PagesInit ==
  /\ part \in {"query", "navigator", "keyspace", "kube", "inventory", "viewer", "chart"}
  /\ Init /\ Connections!Init /\ Keyspace!Init /\ Kube!Init /\ Inventory!Init
  /\ Viewer!Init /\ Chart!Init
  /\ part # "navigator" => stored = {} /\ byDefault = [c \in Conns |-> "one"]
  /\ part # "keyspace" => db = CHOOSE d \in Dbs : TRUE
  /\ part # "kube" => cluster = "active"
  /\ part # "inventory" => DOMAIN tree = {}
  /\ part # "viewer" => builder = None /\ window = CHOOSE w \in Windows : TRUE
  /\ part # "chart" => page = "server"
  /\ CaseOf(tree, home)

PagesNext ==
  /\ UNCHANGED part
  /\ part = "query" \/ UNCHANGED vars
  /\ part = "navigator" \/ UNCHANGED navigator
  /\ part = "keyspace" \/ UNCHANGED keyspace
  /\ part = "kube" \/ UNCHANGED kube
  /\ part = "inventory" \/ UNCHANGED inventory
  /\ part = "viewer" \/ UNCHANGED viewer
  /\ part = "chart" \/ UNCHANGED chart
  /\ \/ part = "query" /\ Next
     \/ part = "navigator" /\ Connections!Next
     \/ part = "keyspace" /\ Keyspace!Next
     \/ part = "kube" /\ Kube!Next
     \/ part = "inventory" /\ Inventory!Next
     \/ part = "viewer" /\ Viewer!Next
     \/ part = "chart" /\ Chart!Next

PagesSpec ==
  PagesInit /\ [][PagesNext]_<<part, vars, navigator, keyspace, kube, inventory, viewer, chart>>

-----------------------------------------------------------------------------
(* The properties of the parts; those of DbWorkspace are its own.            *)

\* Every part keeps its types.
TypesOK == CASE part = "query" -> TypeOK
             [] part = "navigator" -> Connections!TypeOK
             [] part = "keyspace" -> Keyspace!TypeOK
             [] part = "kube" -> Kube!TypeOK
             [] part = "inventory" -> Inventory!TypeOK
             [] part = "viewer" -> Viewer!TypeOK
             [] part = "chart" -> Chart!TypeOK

\* Neither a query tab nor a node of the tree, the cluster's page, the log viewer
\* or a chart is greyed out for good (DbWorkspace, DbNavigator, ClusterDetail,
\* LokiLogs, MetricCharts).
NothingSpinsForEver ==
  /\ RunningHasAQuery /\ Connections!TreeSpinnerHasALoad /\ Kube!BusyHasATask
  /\ Viewer!SpinnersEnd /\ Chart!SpinnerHasAQuery

\* "Show all databases" stays as the operator set it (DbNavigator).
TogglesSurvive == Connections!TogglesSurvive

\* The console's lines are in the order they were entered (RedisWorkspace).
LogIsInOrder == Keyspace!LogIsInOrder

\* Each row is in one section of the grouped table, and can be reached by the
\* cards (ServerListing).
EveryRowIsReached == Inventory!EveryRowHasItsSection /\ Inventory!CardsReachEveryRow

\* A vitals run opens no more connections than it has workers (ServerListing).
ProbesAreBounded == Inventory!ProbesAreBounded

\* Pages of log lines neither overlap nor leave out a line, but for the
\* nanosecond they meet in (LokiLogs).
PagesJoin == Viewer!PagesJoin

\* An exported file is the whole window, with the same exception (LokiLogs).
FileIsTheWindow == Viewer!FileIsTheWindow

\* A chart is of the range that is chosen (MetricCharts).
ChartIsOfItsRange == Chart!ChartIsOfItsRange
=============================================================================
