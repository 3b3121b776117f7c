----------------------------- MODULE MetricCharts -----------------------------
(***************************************************************************)
(* A chart over Prometheus, on either of its two pages: the Monitoring tab of a  *)
(* server (ServerMonitoringDrilldown and ServerChart in frontend/components/     *)
(* server-detail-app.tsx) and the monitoring page (MonitoringPage, MetricsTab    *)
(* and MetricChart in frontend/components/monitoring-page.tsx). It asks again      *)
(* whenever the range or the refresh key changed, without waiting for the answer   *)
(* before. The effect of ServerChart has a cleanup that drops that answer;         *)
(* MetricChart shows whatever answer comes last. Charts do not know of one        *)
(* another, so there is one.                                                  *)
(***************************************************************************)
EXTENDS Integers

CONSTANTS Ranges,      \* the time ranges
          First,       \* the range of a page that was just opened
          MaxRequests, \* bound: queries sent
          None

ChartAssumption == First \in Ranges /\ MaxRequests \in Nat

VARIABLES
  page,     \* "server" or "monitoring"
  enabled,  \* the tabs of the monitoring page whose backend is configured
  tab,      \* its tab
  range,    \* the range of the pills
  open,     \* the charts are not folded away
  data,     \* the query whose lines are drawn, or None
  loading, failed,
  flying,   \* queries whose answer will be looked at
  sent      \* queries sent so far

where == <<page, enabled>>
view  == <<tab, range, open>>
chart == <<data, loading, failed>>
vars  == <<where, view, chart, flying, sent>>

Tabs == {"metrics", "alerts", "logs"}

TypeOK ==
  /\ page \in {"server", "monitoring"} /\ enabled \subseteq Tabs /\ tab \in enabled
  /\ range \in Ranges /\ {open, loading, failed} \subseteq BOOLEAN
  /\ data = None \/ data \in [id : 1 .. sent, range : Ranges]
  /\ flying \subseteq [id : 1 .. sent, range : Ranges]

-----------------------------------------------------------------------------
Shows(t, o) == o /\ (page = "server" \/ t = "metrics")
Mounted == Shows(tab, open)

\* Mutant: the effect has no cleanup.
AwaitedStill == flying

\* The answers still awaited when the chart asks again.
Awaited == IF page = "server" THEN {} ELSE flying

Asks(r) == /\ sent < MaxRequests
           /\ sent' = sent + 1
           /\ flying' = (IF Mounted THEN Awaited ELSE {}) \cup {[id |-> sent + 1, range |-> r]}
           /\ loading' = TRUE /\ failed' = FALSE
           /\ data' = IF Mounted THEN data ELSE None

\* What a change of the page does to the chart: it asks, on its first render
\* from nothing, or is gone with the answers it awaits.
Chart(t, r, o) ==
  /\ tab' = t /\ range' = r /\ open' = o
  /\ IF Shows(t, o) THEN Asks(r) ELSE flying' = {} /\ UNCHANGED <<chart, sent>>
  /\ UNCHANGED where

Init ==
  /\ page \in {"server", "monitoring"}
  /\ enabled \in (SUBSET Tabs) \ {{}}
  /\ page = "server" => enabled = {"metrics"}
  /\ tab = CASE "metrics" \in enabled -> "metrics"
             [] "metrics" \notin enabled /\ "alerts" \in enabled -> "alerts"
             [] OTHER -> "logs"
  /\ range = First /\ open = TRUE
  /\ data = None /\ failed = FALSE /\ loading = Mounted
  /\ sent = IF Mounted THEN 1 ELSE 0
  /\ flying = IF Mounted THEN {[id |-> 1, range |-> First]} ELSE {}

-----------------------------------------------------------------------------
\* A pill asks again also when it is the range already chosen.
PickRange(r) == tab = "metrics" /\ Chart(tab, r, open)

Refresh == Mounted /\ Chart(tab, range, open)

Fold == tab = "metrics" /\ Chart(tab, range, ~open)

\* The Graphs of the metrics tab are unfolded whenever it is shown.
SelectTab(t) ==
  /\ page = "monitoring" /\ t \in enabled /\ t # tab
  /\ Chart(t, range, TRUE)

\* An answer that works leaves an error that an earlier one put there.
Answered(q, ok) ==
  /\ loading' = FALSE
  /\ IF ok THEN data' = q /\ UNCHANGED failed ELSE data' = None /\ failed' = TRUE
  /\ flying' = flying \ {q}
  /\ UNCHANGED <<where, view, sent>>

Next ==
  \/ Refresh \/ Fold
  \/ \E r \in Ranges : PickRange(r)
  \/ \E t \in Tabs : SelectTab(t)
  \/ \E q \in flying, ok \in BOOLEAN : Answered(q, ok)

Spec == Init /\ [][Next]_vars

-----------------------------------------------------------------------------
(* Properties.                                                               *)

\* A chart of the server's page that is not loading shows what was asked last, of
\* the range that is chosen, or the error of that query: an answer overtaken by a
\* click on another range never comes back over it.
ChartIsOfItsRange ==
  page = "server" /\ Mounted /\ ~loading =>
    failed \/ data = [id |-> sent, range |-> range]

\* A chart that shows a spinner, on either page, awaits an answer.
SpinnerHasAQuery == Mounted /\ loading => flying # {}
=============================================================================
