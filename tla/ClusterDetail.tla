----------------------------- MODULE ClusterDetail -----------------------------
(***************************************************************************)
(* The page of one Kubernetes cluster (frontend/components/                   *)
(* cluster-detail-app.tsx) as an admin sees it: tabs that are read the first   *)
(* time they are shown, a namespace filter that four of them share, the log    *)
(* viewer with its namespace / container / pod pickers and its timer, the      *)
(* operations on pods, nodes and deployments, and the cluster that is           *)
(* inactive and must be left alone.                                           *)
(*                                                                          *)
(* Every request is a task that ends with the async function that sent it; the *)
(* slot `busy` is cleared there, whoever took it. window.confirm and prompt     *)
(* block the page, so they are part of the step. One container runs in the      *)
(* pods of every namespace, and a namespace stands for its pods.               *)
(***************************************************************************)
EXTENDS Integers, FiniteSets

CONSTANTS Namespaces, \* namespaces that have pods
          All,        \* the empty filter
          MaxTasks,   \* bound: requests sent in the life of the page
          None

ClusterAssumption == /\ {All, None} \cap Namespaces = {} /\ All # None
                     /\ MaxTasks \in Nat

VARIABLES
  cluster,    \* is_active of the last snapshot, or "unknown" if it never came
  tab,        \* the tab that is selected
  namespace,  \* the filter of pods, workloads, services and events
  loaded,     \* the tabs whose first read worked
  rows,       \* what each scoped table shows: the namespace it was read for
  options,    \* logsPodOptions
  pick,       \* logsNamespace, logsPod, and whether a container is chosen
  podLogs,    \* the pods whose lines are shown
  auto,       \* logsAuto # 0
  busy,       \* busy # ""
  tasks,      \* async functions that have not ended
  sent        \* requests sent so far

reads == <<loaded, rows>>
logs  == <<options, pick, podLogs>>
slot  == <<busy, tasks, sent>>
vars  == <<cluster, tab, namespace, reads, logs, auto, slot>>

Scoped == {"pods", "workloads", "services", "events"}
Tabs   == Scoped \cup {"overview", "nodes", "logs", "health"}
Spaces == Namespaces \cup {All}
Writes == {"restartPod", "removePod", "cordon", "scale", "restartDeployment"}

TypeOK ==
  /\ cluster \in {"active", "inactive", "unknown"} /\ tab \in Tabs
  /\ namespace \in Spaces
  /\ loaded \subseteq Tabs /\ rows \in [Scoped -> Spaces \cup {None}]
  /\ {options, podLogs} \subseteq SUBSET Namespaces
  /\ pick \in [ns : Spaces, pod : Namespaces \cup {None}, container : BOOLEAN]
  /\ {auto, busy} \subseteq BOOLEAN
  /\ \A t \in tasks : t.id \in 1 .. sent

-----------------------------------------------------------------------------
(* Tasks.                                                                    *)

Task(kind, ns, over) == [id |-> sent + 1, kind |-> kind, ns |-> ns, over |-> over]

Send(new, takesSlot) == /\ sent + Cardinality(new) <= MaxTasks
                        /\ tasks' = tasks \cup new
                        /\ sent' = sent + Cardinality(new)
                        /\ busy' = (busy \/ takesSlot)

Start(kind, ns) == Send({Task(kind, ns, {})}, TRUE)

Ends(t) == /\ tasks' = tasks \ {t} /\ busy' = FALSE
           /\ UNCHANGED sent

\* Mutant: the end of the mutation frees the slot and leaves the read to take it.
GoesOnFreed(t, kind) == /\ tasks' = tasks \ {t}
                        /\ busy' = TRUE
                        /\ UNCHANGED sent

\* A mutation reads its table again, for the filter it was clicked under,
\* before its finally.
GoesOn(t, kind) == /\ tasks' = (tasks \ {t}) \cup {[t EXCEPT !.kind = kind]}
                   /\ busy' = TRUE
                   /\ UNCHANGED sent

\* The tabs and the panels below them; Refresh, in the header, is always there.
Shown == cluster # "inactive"
At(where) == Shown /\ tab = where

\* The cluster, and the overview of one that is not inactive: the page shows
\* nothing before both came.
Init ==
  /\ cluster \in {"active", "inactive", "unknown"}
  /\ tab = "overview" /\ namespace = All /\ loaded = {}
  /\ rows = [s \in Scoped |-> None]
  /\ options = {} /\ podLogs = {}
  /\ pick = [ns |-> All, pod |-> None, container |-> FALSE]
  /\ auto = FALSE /\ busy = FALSE /\ tasks = {} /\ sent = 0

-----------------------------------------------------------------------------
(* Reading the tabs.                                                         *)

\* The effect of showing a tab. Its guard is the snapshot's: a cluster that
\* could not be read is read on.
FirstRead(t) ==
  IF t = "overview" \/ t \in loaded THEN UNCHANGED slot
  ELSE Start(t, IF t = "logs" THEN pick.ns ELSE namespace)

SelectTab(t) ==
  /\ Shown /\ t # tab
  /\ tab' = t
  /\ FirstRead(t)
  /\ UNCHANGED <<cluster, namespace, reads, logs, auto>>

\* Refresh, and the Load button of the log viewer. loadLogs without a container
\* only complains; with a pod it reads that one, without one every listed pod
\* of the namespace, and when there is none it takes the slot and frees it.
LoadLogs(ns, pod, container, listed) ==
  LET over == IF pod # None THEN {pod} ELSE {p \in listed : ns \in {All, p}}
  IN /\ IF ~container THEN UNCHANGED <<slot, podLogs>>
        ELSE IF over = {}
        THEN /\ busy' = FALSE /\ podLogs' = {}
             /\ UNCHANGED <<tasks, sent>>
        ELSE /\ Send({Task("lines", ns, over)}, TRUE)
             /\ UNCHANGED podLogs

RefreshTab ==
  IF tab = "logs" THEN LoadLogs(pick.ns, pick.pod, pick.container, options)
                  ELSE Start(tab, namespace) /\ UNCHANGED podLogs

Refresh ==
  /\ ~busy /\ cluster # "inactive"
  /\ RefreshTab
  /\ UNCHANGED <<cluster, tab, namespace, reads, options, pick, auto>>

\* The filter is not greyed out while a read is under way.
ChangeNamespace(ns) ==
  /\ Shown /\ tab \in Scoped /\ ns # namespace
  /\ namespace' = ns
  /\ Start(tab, ns)
  /\ UNCHANGED <<cluster, tab, reads, logs, auto>>

LoadedAfter(t) == loaded \cup {t.kind}
RowsAfter(t)   == IF t.kind \in Scoped THEN [rows EXCEPT ![t.kind] = t.ns] ELSE rows
PodsListed(t)  == IF t.kind = "logs" THEN {p \in Namespaces : t.ns \in {All, p}} ELSE options

ReadAnswered(t, ok) ==
  /\ t.kind \in Tabs
  /\ Ends(t)
  /\ IF ok THEN loaded' = LoadedAfter(t) /\ rows' = RowsAfter(t) /\ options' = PodsListed(t)
           ELSE UNCHANGED <<reads, options>>
  /\ UNCHANGED <<cluster, tab, namespace, pick, podLogs, auto>>

-----------------------------------------------------------------------------
(* The log viewer.                                                           *)

ChangeLogsNamespace(ns) ==
  /\ At("logs") /\ ns # pick.ns
  /\ pick' = [ns |-> ns, pod |-> None, container |-> FALSE]
  /\ Start("logs", ns)
  /\ UNCHANGED <<cluster, tab, namespace, reads, options, podLogs, auto>>

ChangeLogsContainer(chosen) ==
  /\ At("logs") /\ options # {} /\ chosen # pick.container
  /\ ~busy \/ \E t \in tasks : t.kind # "logs"
  /\ pick' = [pick EXCEPT !.container = chosen, !.pod = None]
  /\ LoadLogs(pick.ns, None, chosen, options)
  /\ UNCHANGED <<cluster, tab, namespace, reads, options, auto>>

\* A pod brings its namespace along; "All pods" keeps the one that is chosen.
ChangeLogsPod(pod) ==
  /\ At("logs") /\ pick.container /\ pod \in options \cup {None} /\ pod # pick.pod
  /\ pick' = [pick EXCEPT !.pod = pod, !.ns = IF pod = None THEN @ ELSE pod]
  /\ LoadLogs(pick'.ns, pod, TRUE, options)
  /\ UNCHANGED <<cluster, tab, namespace, reads, options, auto>>

\* "Logs" of a pod's row: it is not greyed out. It lists the pods and reads the
\* lines, and the effect of showing the tab lists the pods a second time.
OpenPodLogs(pod) ==
  LET nth(k, kind, over) == [Task(kind, pod, over) EXCEPT !.id = sent + k]
  IN /\ At("pods") /\ rows["pods"] \in {All, pod}
     /\ pick' = [ns |-> pod, pod |-> pod, container |-> TRUE]
     /\ podLogs' = {}
     /\ tab' = "logs"
     /\ Send({nth(1, "logs", {}), nth(2, "lines", {pod})}
               \cup IF "logs" \in loaded THEN {} ELSE {nth(3, "logs", {})}, TRUE)
     /\ UNCHANGED <<cluster, namespace, reads, options, auto>>

\* "Logs" of a service's row; the closure keeps the listed pods of the click.
OpenServiceLogs(svc) ==
  /\ At("services") /\ ~busy /\ rows["services"] \in {All, svc}
  /\ Send({Task("servicePods", svc, options)}, TRUE)
  /\ UNCHANGED <<cluster, tab, namespace, reads, logs, auto>>

\* The lines are read from the pods listed then, and the finally frees the slot
\* at once.
ServiceAnswered(t, found) ==
  /\ t.kind = "servicePods"
  /\ IF ~found THEN Ends(t) /\ UNCHANGED <<tab, logs>>
     ELSE LET over == t.over \cap {t.ns}
          IN /\ tab' = "logs"
             /\ options' = {t.ns}
             /\ pick' = [ns |-> t.ns, pod |-> None, container |-> TRUE]
             /\ podLogs' = {}
             /\ sent < MaxTasks
             /\ sent' = IF over = {} THEN sent ELSE sent + 1
             /\ tasks' = (tasks \ {t}) \cup IF over = {} THEN {}
                                             ELSE {Task("lines", t.ns, over)}
             /\ busy' = FALSE
  /\ loaded' = IF found THEN loaded \cup {"logs"} ELSE loaded
  /\ UNCHANGED <<cluster, namespace, rows, auto>>

LinesAnswered(t, ok) ==
  /\ t.kind = "lines"
  /\ Ends(t)
  /\ podLogs' = IF ok THEN t.over ELSE podLogs
  /\ UNCHANGED <<cluster, tab, namespace, reads, options, pick, auto>>

SetAuto ==
  /\ At("logs") /\ pick.container
  /\ auto' = ~auto
  /\ UNCHANGED <<cluster, tab, namespace, reads, logs, slot>>

\* The timer asks for a container and the slot, not for the tab or the cluster.
AutoTick ==
  /\ auto /\ pick.container /\ ~busy
  /\ LoadLogs(pick.ns, pick.pod, pick.container, options)
  /\ UNCHANGED <<cluster, tab, namespace, reads, options, pick, auto>>

-----------------------------------------------------------------------------
(* Operations, and the cluster itself.                                       *)

TableOf(w) == CASE w \in {"restartPod", "removePod"} -> "pods"
                [] w = "cordon" -> "nodes"
                [] OTHER -> "workloads"

\* A button of a row, and the yes to its question.
Mutate(w) ==
  /\ At(TableOf(w)) /\ ~busy /\ TableOf(w) \in loaded
  /\ Start(w, namespace)
  /\ UNCHANGED <<cluster, tab, namespace, reads, logs, auto>>

MutationAnswered(t, ok) ==
  /\ t.kind \in Writes
  /\ IF ok THEN GoesOn(t, TableOf(t.kind)) ELSE Ends(t)
  /\ UNCHANGED <<cluster, tab, namespace, reads, logs, auto>>

Reactivate ==
  /\ cluster = "inactive" /\ ~busy
  /\ Start("reactivate", All)
  /\ UNCHANGED <<cluster, tab, namespace, reads, logs, auto>>

SaveLogShipping ==
  /\ At("overview") /\ ~busy
  /\ Start("shipping", All)
  /\ UNCHANGED <<cluster, tab, namespace, reads, logs, auto>>

\* Both bring the cluster as it is by now; the overview follows a reactivation.
ClusterAnswered(t, ok) ==
  /\ t.kind \in {"reactivate", "shipping"}
  /\ IF ~ok THEN UNCHANGED cluster
     ELSE IF t.kind = "reactivate" THEN cluster' = "active"
     ELSE cluster' \in {"active", "inactive"}
  /\ IF ok /\ t.kind = "reactivate" THEN GoesOn(t, "overview") ELSE Ends(t)
  /\ UNCHANGED <<tab, namespace, reads, logs, auto>>

-----------------------------------------------------------------------------
(* What each tab offers.                                                     *)

Header == Refresh \/ \E t \in Tabs : SelectTab(t)

\* The page of a cluster that is inactive has one button.
Inactive == Reactivate

OverviewTab     == SaveLogShipping
NodesTab        == Mutate("cordon")
PodsTab         == \/ \E w \in {"restartPod", "removePod"} : Mutate(w)
                   \/ \E p \in Namespaces : OpenPodLogs(p)
WorkloadsTab    == \E w \in {"scale", "restartDeployment"} : Mutate(w)
ServicesTab     == \E p \in Namespaces : OpenServiceLogs(p)
NamespaceSelect == \E ns \in Spaces : ChangeNamespace(ns)

LogsTab ==
  \/ SetAuto
  \/ \E ns \in Spaces : ChangeLogsNamespace(ns)
  \/ \E chosen \in BOOLEAN : ChangeLogsContainer(chosen)
  \/ \E p \in Namespaces \cup {None} : ChangeLogsPod(p)

Operator ==
  \/ Header \/ Inactive \/ NamespaceSelect
  \/ OverviewTab \/ NodesTab \/ PodsTab \/ WorkloadsTab \/ ServicesTab \/ LogsTab

Answers(t) ==
  \E ok \in BOOLEAN : \/ ReadAnswered(t, ok) \/ LinesAnswered(t, ok)
                      \/ ServiceAnswered(t, ok) \/ MutationAnswered(t, ok)
                      \/ ClusterAnswered(t, ok)

Next == Operator \/ AutoTick \/ \E t \in tasks : Answers(t)

Spec == Init /\ [][Next]_vars

-----------------------------------------------------------------------------
(* Properties.                                                               *)

\* The page never greys out for good: while the slot is taken something is under
\* way that frees it, although any answer frees what another request has taken.
BusyHasATask == busy => tasks # {}
=============================================================================
