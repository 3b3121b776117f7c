----------------------------- MODULE ServerDetail -----------------------------
(***************************************************************************)
(* The page of one server (frontend/components/server-detail-app.tsx) as an   *)
(* admin sees it: tabs that depend on what the host has, loads, logs that      *)
(* can be reloaded on a timer, operations that are confirmed and may have to   *)
(* be repeated with a sudo password. All of them share one `busy` slot.       *)
(*                                                                          *)
(* Every request is a task from the moment it is sent to the end of the        *)
(* async function that sent it: `busy` is cleared there, whoever set it. The   *)
(* buttons look at `busy`, but not all of them, and neither does the code      *)
(* after an `await confirm(...)`. Answers come in any order.                  *)
(***************************************************************************)
EXTENDS Integers, FiniteSets

CONSTANTS Ops,          \* operations on the host, as [kind, on] records
          Sources,      \* logs that can be opened, as [kind, on] records
          MaxTasks,     \* bound: requests sent in the life of the page
          None

OpKinds == {"containerRestart", "containerRemove", "imageRemove", "serviceRestart",
            "tomcatRestart", "tomcatStart", "metricsInstall", "metricsUninstall",
            "logShipping"}
SourceKinds == {"container", "env", "tomcat", "service", "onDemand", "database"}

PageAssumption == /\ \A o \in Ops : o.kind \in OpKinds
                  /\ \A s \in Sources : s.kind \in SourceKinds
                  /\ None \notin Ops \cup Sources
                  /\ MaxTasks \in Nat

VARIABLES
  tab,       \* the tab that is selected
  server,    \* the last snapshot of the server
  probe,     \* tomcat: what the live probe found, "none" before one
  busy,      \* busy # ""
  tasks,     \* async functions that have not ended
  sent,      \* requests sent so far
  dialog,    \* the operation the confirm dialog asks about
  sudo,      \* pendingSudo
  title,     \* selected: what the log pane says it shows
  lines,     \* logs: the source whose lines it shows
  refresher, \* logRefresher: the source that a refresh runs again
  auto,      \* logsAuto # 0
  loaded,    \* what was loaded once by opening it
  agreed     \* observed only: operations the operator agreed to

pane == <<title, lines, refresher, auto>>
vars == <<tab, server, probe, busy, tasks, sent, dialog, sudo, pane, loaded,
          agreed>>

Optional == {"tomcat", "containers", "databaseLogs"}
Always   == {"overview", "storage", "services", "monitoring", "logs"}

\* has: what the discovered services say; rows: whether tomcat rows came along.
Snapshots == [has : SUBSET Optional, rows : BOOLEAN, active : BOOLEAN]

-----------------------------------------------------------------------------
(* What the render derives.                                                  *)

hasTomcat(srv, prb) ==
  (IF prb = "none" THEN srv.rows ELSE prb = "some") \/ "tomcat" \in srv.has

Offered(srv, prb) ==
  Always \cup (srv.has \ {"tomcat"}) \cup IF hasTomcat(srv, prb) THEN {"tomcat"} ELSE {}

\* Among others, the tab that is shown is offered.
TypeOK ==
  /\ tab \in Offered(server, probe)
  /\ server \in Snapshots /\ probe \in {"none", "empty", "some"}
  /\ {busy, auto} \subseteq BOOLEAN
  /\ \A t \in tasks : t.id \in 1 .. sent
  /\ dialog \in Ops \cup {None} /\ sudo \in Ops \cup {None}
  /\ {title, lines, refresher} \subseteq Sources \cup {None}
  /\ loaded \subseteq {"containers", "images", "monitoring"}
  /\ agreed \subseteq Ops

\* Mutant: a tab is kept until another is picked.
RenderedKept(t, srv, prb) == t

\* The effect that leaves a tab which is not offered any more.
Rendered(t, srv, prb) == IF t \in Offered(srv, prb) THEN t ELSE "overview"

Shows(t, srv, prb) ==
  /\ server' = srv /\ probe' = prb /\ tab' = Rendered(t, srv, prb)

\* The body below the tab strip is not rendered for an inactive server.
At(tabs) == server.active /\ tab \in tabs

-----------------------------------------------------------------------------
(* Tasks.                                                                    *)

Task(kind, what, clears) ==
  [id |-> sent + 1, kind |-> kind, what |-> what, clears |-> clears]

\* A task that takes the slot, and one that does not look at it.
Start(kind, what) == /\ sent < MaxTasks
                     /\ sent' = sent + 1
                     /\ tasks' = tasks \cup {Task(kind, what, TRUE)}
                     /\ busy' = TRUE

StartQuiet(kind, what) == /\ sent < MaxTasks
                          /\ sent' = sent + 1
                          /\ tasks' = tasks \cup {Task(kind, what, FALSE)}
                          /\ UNCHANGED busy

\* The finally of an async function.
Ends(t) == /\ tasks' = tasks \ {t}
           /\ busy' = IF t.clears THEN FALSE ELSE busy

\* The function goes on with a load of its own, which takes the slot again
\* unless it is one of those that never look at it.
GoesOn(t, kind) ==
  /\ tasks' = (tasks \ {t}) \cup {[t EXCEPT !.kind = kind, !.what = None]}
  /\ busy' = IF kind \in {"server", "monitoring"} THEN busy ELSE TRUE

Init ==
  /\ server \in Snapshots /\ probe = "none" /\ tab = "overview"
  /\ busy = FALSE /\ tasks = {} /\ sent = 0
  /\ dialog = None /\ sudo = None
  /\ title = None /\ lines = None /\ refresher = None /\ auto = FALSE
  /\ loaded = {} /\ agreed = {}

-----------------------------------------------------------------------------
(* The handlers, in the order of the source: what each does up to its first     *)
(* await on the host. The panels below say where each is offered.              *)

Plain == UNCHANGED <<dialog, pane, loaded>>

refreshServerVitals == Start("vitals", None) /\ Plain
assignFolder        == StartQuiet("folder", None) /\ Plain
reactivateServer    == Start("reactivate", None) /\ Plain
runDiscovery        == Start("discovery", None) /\ Plain
loadContainers      == Start("containers", None) /\ Plain
loadTomcat          == Start("tomcat", None) /\ Plain
saveDetails         == StartQuiet("edit", None) /\ Plain
saveCredentials     == StartQuiet("credentials", None) /\ Plain

loadImages == /\ Start("images", None)
              /\ loaded' = loaded \cup {"images"}
              /\ UNCHANGED <<dialog, pane>>

\* What opening Containers or Monitoring does, the first time.
AutoLoad(t) == /\ IF t = "containers" THEN Start(t, None) ELSE StartQuiet(t, None)
               /\ loaded' = loaded \cup {t}
               /\ UNCHANGED <<dialog, pane>>

\* A log is asked for: the title it shows by then, and what a refresh will run.
Reads(s, shown, again) ==
  /\ Start("log", s)
  /\ title' = shown /\ refresher' = again
  /\ UNCHANGED <<dialog, lines, auto, loaded>>

\* Three loaders name their source before the await, three after it; the
\* container's .env is the one that sets no refresher.
loadContainerLogs(s)   == s.kind = "container" /\ Reads(s, s, s)
loadContainerEnv(s)    == s.kind = "env"       /\ Reads(s, s, refresher)
loadTomcatLog(s)       == s.kind = "tomcat"    /\ Reads(s, title, s)
loadServiceUnitLogs(s) == s.kind = "service"   /\ Reads(s, title, s)
loadOnDemandLog(s)     == s.kind = "onDemand"  /\ Reads(s, title, s)
loadDbLogs(s)          == s.kind = "database"  /\ Reads(s, s, s)

\* The closure in logRefresher.
RunRefresher ==
  /\ refresher # None
  /\ \/ loadContainerLogs(refresher) \/ loadTomcatLog(refresher)
     \/ loadServiceUnitLogs(refresher) \/ loadOnDemandLog(refresher)
     \/ loadDbLogs(refresher)

\* An operation is asked about first; starting a Tomcat (a restart stands for a
\* stop) and installing the agent are sent at once.
NeedsConfirm(o) == o.kind \notin {"tomcatStart", "metricsInstall"}

Asks(o) ==
  /\ IF NeedsConfirm(o)
     THEN dialog' = o /\ UNCHANGED <<sent, tasks, busy>>
     ELSE Start("op", o) /\ UNCHANGED dialog
  /\ UNCHANGED <<pane, loaded>>

restartSelectedContainer(o) == o.kind = "containerRestart" /\ Asks(o)
removeSelectedContainer(o)  == o.kind = "containerRemove" /\ Asks(o)
removeSelectedImage(o)      == o.kind = "imageRemove" /\ Asks(o)
restartSelectedService(o)   == o.kind = "serviceRestart" /\ Asks(o)
runTomcatAction(o)          == o.kind \in {"tomcatRestart", "tomcatStart"} /\ Asks(o)
installMetrics(o)           == o.kind = "metricsInstall" /\ Asks(o)
uninstallMetrics(o)         == o.kind = "metricsUninstall" /\ Asks(o)
saveLogShipping(o)          == o.kind = "logShipping" /\ Asks(o)

\* The function goes on after `await confirm(...)`: nothing looks at the slot or
\* at the page again.
Confirmed ==
  /\ dialog # None
  /\ Start("op", dialog)
  /\ agreed' = agreed \cup {dialog}
  /\ dialog' = None
  /\ UNCHANGED <<sudo, pane, loaded>>

Cancelled ==
  /\ dialog # None
  /\ dialog' = None
  /\ UNCHANGED <<sent, tasks, busy, sudo, pane, loaded, agreed>>

\* Mutant: the retry knows the instance and forgets the action.
RetryOfInstance(o) ==
  IF o.kind = "tomcatStart" THEN [o EXCEPT !.kind = "tomcatRestart"] ELSE o

RetryOf(o) == o

submitSudoPassword == Start("op", RetryOf(sudo)) /\ UNCHANGED sudo
cancelSudo         == sudo' = None /\ UNCHANGED <<sent, tasks, busy>>

-----------------------------------------------------------------------------
(* The panels: which handler is offered where, and which waits for the slot.    *)

TabStrip ==
  /\ server.active
  /\ \E t \in Offered(server, probe) :
       /\ tab' = t
       /\ \/ t \in {"containers", "monitoring"} \ loaded /\ AutoLoad(t)
          \/ /\ t \notin {"containers", "monitoring"} \ loaded
             /\ UNCHANGED <<sent, tasks, busy, dialog, pane, loaded>>
  /\ UNCHANGED <<sudo, agreed>>

OverviewTab ==
  /\ At({"overview"})
  /\ \/ ~busy /\ refreshServerVitals
     \/ (\A t \in tasks : t.kind # "folder") /\ assignFolder

\* "Logs" of a row does not wait for the slot, here and in the next two tabs.
ServicesTab ==
  /\ At({"services"})
  /\ \/ \E s \in Sources : loadServiceUnitLogs(s)
     \/ ~busy /\ \E o \in Ops : restartSelectedService(o)

TomcatTab ==
  /\ At({"tomcat"}) /\ ~busy
  /\ \/ loadTomcat
     \/ \E s \in Sources : loadTomcatLog(s)
     \/ \E o \in Ops : runTomcatAction(o)

\* The first look at the images loads them whatever else is under way.
ContainersTab ==
  /\ At({"containers"})
  /\ \/ "images" \notin loaded /\ loadImages
     \/ ~busy /\ (loadImages \/ loadContainers)
     \/ \E s \in Sources : loadContainerLogs(s) \/ (~busy /\ loadContainerEnv(s))
     \/ ~busy /\ \E o \in Ops : \/ restartSelectedContainer(o) \/ removeSelectedContainer(o)
                              \/ removeSelectedImage(o)

DatabaseLogsTab == At({"databaseLogs"}) /\ \E s \in Sources : loadDbLogs(s)

MonitoringTab ==
  /\ At({"monitoring"}) /\ ~busy
  /\ \/ loadContainers
     \/ \E o \in Ops : installMetrics(o) \/ uninstallMetrics(o) \/ saveLogShipping(o)

\* Fetch waits for the slot; Enter in the field beside it does not.
LogsTab ==
  /\ At({"logs"})
  /\ (\E s \in Sources : loadOnDemandLog(s)) \/ (~busy /\ RunRefresher)

\* The timer runs wherever the operator is, and on an inactive server too.
AutoRefresh == auto /\ ~busy /\ RunRefresher

ActionsMenu == ~busy /\ server.active /\ runDiscovery

InactiveBanner == ~busy /\ ~server.active /\ reactivateServer

\* A dialog that was closed while it saved can be opened again, and looks only
\* at its own flag; the credentials look at the slot as well.
EditServerDialog  == saveDetails
CredentialsDialog == ~busy /\ saveCredentials

SudoForm ==
  /\ sudo # None
  /\ (~busy /\ submitSudoPassword) \/ cancelSudo
  /\ UNCHANGED <<dialog, pane, loaded, agreed>>

SetAuto ==
  /\ At({"logs"}) /\ refresher # None
  /\ auto' = ~auto
  /\ UNCHANGED <<busy, tasks, sent, dialog, sudo, title, lines, refresher, loaded,
                 agreed>>

-----------------------------------------------------------------------------
(* The answers.                                                              *)

\* A log that came is shown, and named if it was not before.
Eager == {"container", "env", "database"}

LogAnswered(t, ok) ==
  /\ t.kind = "log"
  /\ Ends(t)
  /\ IF ok THEN /\ lines' = t.what
                /\ title' = IF t.what.kind \in Eager THEN title ELSE t.what
                /\ tab' = "logs"
           ELSE UNCHANGED <<lines, title, tab>>
  /\ UNCHANGED <<server, probe, sent, dialog, sudo, refresher, auto, loaded, agreed>>

\* A load follows an operation that worked; the containers and the images are
\* loaded again after one that the host refused as well.
MayNeedSudo(o) == o.kind \in {"tomcatRestart", "tomcatStart", "serviceRestart",
                              "metricsInstall"}
LoadAfter(o) == CASE o.kind \in {"containerRestart", "containerRemove"} -> "containers"
                  [] o.kind = "imageRemove" -> "images"
                  [] o.kind = "serviceRestart" -> "server"
                  [] o.kind \in {"tomcatRestart", "tomcatStart"} -> "tomcat"
                  [] OTHER -> "monitoring"

OpAnswered(t, outcome) ==
  /\ t.kind = "op"
  /\ outcome = "needs" => MayNeedSudo(t.what)
  /\ CASE outcome = "needs" -> sudo' = t.what
       [] outcome = "lost" -> UNCHANGED sudo
       [] OTHER -> sudo' = IF MayNeedSudo(t.what) THEN None ELSE sudo
  /\ IF \/ outcome = "ok"
        \/ outcome = "refused" /\ LoadAfter(t.what) \in {"containers", "images"}
     THEN GoesOn(t, LoadAfter(t.what)) ELSE Ends(t)
  /\ UNCHANGED <<tab, server, probe, sent, dialog, pane, loaded, agreed>>

\* An answer that brings a snapshot, as the server is by then.
ServerAnswered(t) ==
  /\ t.kind \in {"server", "vitals", "reactivate", "edit", "folder"}
  /\ \E srv \in Snapshots : /\ t.kind = "reactivate" => srv.active
                            /\ Shows(tab, srv, probe)
  /\ Ends(t)
  /\ UNCHANGED <<title, lines>>

\* Discovery forgets the live probe, and both reload the server.
ServerReloads(t) ==
  /\ t.kind \in {"discovery", "credentials"}
  /\ Shows(tab, server, IF t.kind = "discovery" THEN "none" ELSE probe)
  /\ GoesOn(t, "server")
  /\ UNCHANGED <<title, lines>>

TomcatAnswered(t) ==
  /\ t.kind = "tomcat"
  /\ \E found \in {"empty", "some"} : Shows(tab, server, found)
  /\ Ends(t)
  /\ UNCHANGED <<title, lines>>

\* The containers take the log pane for their own; nothing else does.
ListAnswered(t) ==
  /\ t.kind \in {"containers", "images", "monitoring"}
  /\ Ends(t)
  /\ IF t.kind = "containers"
     THEN /\ lines' = None
          /\ title' \in {s \in Sources : s.kind = "container"} \cup {None}
     ELSE UNCHANGED <<title, lines>>
  /\ UNCHANGED <<tab, server, probe>>

LoadAnswered(t) ==
  /\ ServerAnswered(t) \/ ServerReloads(t) \/ TomcatAnswered(t) \/ ListAnswered(t)
  /\ UNCHANGED <<sent, dialog, sudo, refresher, auto, loaded, agreed>>

LoadFails(t) ==
  /\ t.kind \notin {"op", "log"}
  /\ Ends(t)
  /\ UNCHANGED <<tab, server, probe, sent, dialog, sudo, pane, loaded, agreed>>

-----------------------------------------------------------------------------
Panels ==
  \/ OverviewTab \/ ServicesTab \/ TomcatTab \/ ContainersTab \/ DatabaseLogsTab
  \/ MonitoringTab \/ LogsTab \/ AutoRefresh
  \/ ActionsMenu \/ InactiveBanner \/ EditServerDialog \/ CredentialsDialog

Operator ==
  \/ TabStrip /\ UNCHANGED <<server, probe>>
  \/ Panels /\ UNCHANGED <<tab, server, probe, sudo, agreed>>
  \/ (SudoForm \/ SetAuto \/ Confirmed \/ Cancelled) /\ UNCHANGED <<tab, server, probe>>

Answers(t) ==
  \/ LoadAnswered(t) \/ LoadFails(t)
  \/ \E ok \in BOOLEAN : LogAnswered(t, ok)
  \/ \E outcome \in {"ok", "refused", "needs", "lost"} : OpAnswered(t, outcome)

Next == Operator \/ \E t \in tasks : Answers(t)

Spec == Init /\ [][Next]_vars

-----------------------------------------------------------------------------
(* Properties.                                                               *)

\* The operator agreed to whatever is done to the host that drops connections
\* or cannot be undone, and to each by name: also by way of a sudo prompt that
\* was made long before, and of answers that replace one prompt by another.
OnlyWhatWasAgreed ==
  /\ \A t \in tasks : t.kind = "op" /\ NeedsConfirm(t.what) => t.what \in agreed
  /\ sudo # None /\ NeedsConfirm(sudo) => sudo \in agreed

\* The page never greys out for good: while the slot is taken something that
\* will clear it is under way, although any task clears what another has set.
BusyHasATask == busy => \E t \in tasks : t.clears
=============================================================================
