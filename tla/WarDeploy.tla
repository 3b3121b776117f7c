------------------------------ MODULE WarDeploy ------------------------------
(***************************************************************************)
(* The WAR deploy form of the Tomcat tab (frontend/components/               *)
(* war-deploy-panel.tsx): choose an instance, a file and a name, confirm an   *)
(* overwrite, give a sudo password, restart the instance.                    *)
(*                                                                          *)
(* The instances and what is deployed on them come from the page and are as   *)
(* old as its last probe; a refresh may arrive at any time and re-points the  *)
(* form. Leaving the tab drops the form, but not the request it has sent.     *)
(* A webapp stands for a .war and for the directory it was exploded to: both  *)
(* make the form ask before it deploys.                                      *)
(***************************************************************************)
EXTENDS Integers, FiniteSets

CONSTANTS Instances,    \* Tomcat instances of the host
          Names,        \* target filenames
          BadNames,     \* those that filenameProblem objects to
          MaxRequests,  \* bound: requests sent to the host
          None

DeployAssumption == /\ BadNames \subseteq Names
                    /\ None \notin Instances \cup Names
                    /\ MaxRequests \in Nat

VARIABLES
  onHost,   \* what is deployed on each instance
  ran,      \* observed only: WARs an instance was restarted with
  flying,   \* requests not answered yet
  sent,     \* requests sent so far
  listed,   \* the instances the page has probed
  webapps,  \* what that probe found deployed on each
  chosen,   \* instanceName
  file,     \* the name of the file chosen, or None
  override, \* filenameOverride, or None
  restart,  \* the checkbox
  busy,     \* "", "deploy" or "restart"
  asking,   \* awaitingConfirm
  sudo,     \* pendingSudo
  result,   \* the banner of the last deploy that worked, or NoResult
  agreed,   \* observed only: the overwrites the operator agreed to
  unasked   \* observed only: a listed webapp was overwritten unasked

host  == <<onHost, ran>>
probe == <<listed, webapps>>
form  == <<chosen, file, override, restart, asking, sudo, result>>
vars  == <<host, flying, sent, probe, form, busy, agreed, unasked>>

NoSudo   == [kind |-> "none", instance |-> None]
NoResult == [instance |-> None, name |-> None, restarted |-> FALSE]

TypeOK ==
  /\ onHost \in [Instances -> SUBSET Names] /\ ran \subseteq Instances \X Names
  /\ sent \in 0 .. MaxRequests
  /\ listed \in SUBSET Instances /\ webapps \in [Instances -> SUBSET Names]
  /\ chosen \in Instances
  /\ {file, override} \subseteq Names \cup {None}
  /\ {restart, asking, unasked} \subseteq BOOLEAN
  /\ busy \in {"", "deploy", "restart"}
  /\ sudo.kind \in {"none", "deploy", "restart"}
  /\ agreed \subseteq Instances \X Names

-----------------------------------------------------------------------------
(* What the render derives.                                                  *)

targetName == IF override # None THEN override ELSE file

collision == targetName \in webapps[chosen]

\* The submit button, and with it Enter in the form.
disabled == busy # "" \/ file = None

\* A mounted form is given at least one instance, and points at one of them.
Fresh(names) ==
  /\ listed' = names
  /\ chosen' \in names
  /\ webapps' = onHost
  /\ file' = None /\ override' = None /\ restart' = FALSE
  /\ busy' = "" /\ asking' = FALSE /\ sudo' = NoSudo /\ result' = NoResult
  /\ agreed' = {}

Init ==
  /\ onHost \in [Instances -> SUBSET (Names \ BadNames)] /\ ran = {}
  /\ flying = {} /\ sent = 0
  /\ listed = Instances /\ webapps = onHost
  /\ chosen \in Instances
  /\ file = None /\ override = None /\ restart = FALSE
  /\ busy = "" /\ asking = FALSE /\ sudo = NoSudo /\ result = NoResult
  /\ agreed = {} /\ unasked = FALSE

-----------------------------------------------------------------------------
(* Requests.                                                                 *)

Request(kind, instance, name, wantRestart) ==
  [id |-> sent + 1, kind |-> kind, instance |-> instance, name |-> name,
   restart |-> wantRestart, mine |-> TRUE, state |-> "sent",
   ok |-> FALSE, needs |-> FALSE, restarted |-> FALSE]

Send(r) == /\ sent < MaxRequests
           /\ sent' = sent + 1 /\ flying' = flying \cup {r}
           /\ busy' = r.kind

\* runDeploy up to its await: the fields are read once, here.
RunDeploy(consent) ==
  /\ file # None
  /\ Send(Request("deploy", chosen, targetName, restart))
  /\ asking' = FALSE
  /\ agreed' = agreed \cup consent
  /\ unasked' = (unasked \/ (collision /\ <<chosen, targetName>> \notin agreed'))

\* Mutant: the restart goes to the instance the form points at by now.
RestartTargetChosen == chosen

RestartTarget == IF sudo.kind = "restart" THEN sudo.instance ELSE chosen

RunRestart ==
  /\ Send(Request("restart", RestartTarget, None, FALSE))
  /\ UNCHANGED <<asking, agreed, unasked>>

-----------------------------------------------------------------------------
(* What the operator does.                                                   *)

PickFile(n) ==
  /\ busy = ""
  /\ file' = n
  /\ result' = NoResult /\ asking' = FALSE /\ sudo' = NoSudo
  /\ UNCHANGED <<host, flying, sent, probe, chosen, override, restart, busy,
                 agreed, unasked>>

ChooseInstance(i) ==
  /\ busy = "" /\ i \in listed
  /\ chosen' = i
  /\ asking' = FALSE /\ result' = NoResult /\ sudo' = NoSudo
  /\ UNCHANGED <<host, flying, sent, probe, file, override, restart, busy,
                 agreed, unasked>>

\* Typing a name keeps a sudo prompt that was made for another name.
TypeFilename(n) ==
  /\ busy = ""
  /\ override' = n /\ asking' = FALSE
  /\ UNCHANGED <<host, flying, sent, probe, chosen, file, restart, busy, sudo,
                 result, agreed, unasked>>

ToggleRestart ==
  /\ busy = ""
  /\ restart' = ~restart
  /\ UNCHANGED <<host, flying, sent, probe, chosen, file, override, busy,
                 asking, sudo, result, agreed, unasked>>

\* A name that will not do is refused, a collision asks once, the rest is sent.
Begin ==
  /\ ~disabled
  /\ sudo' = NoSudo /\ result' = NoResult
  /\ IF targetName \in BadNames
     THEN UNCHANGED <<sent, flying, busy, asking, agreed, unasked>>
     ELSE IF collision /\ ~asking
     THEN asking' = TRUE /\ UNCHANGED <<sent, flying, busy, agreed, unasked>>
     ELSE RunDeploy(IF asking THEN {<<chosen, targetName>>} ELSE {})
  /\ UNCHANGED <<host, probe, chosen, file, override, restart>>

\* "Overwrite and deploy", in the box that names the file to be replaced.
Overwrite ==
  /\ asking /\ busy = ""
  /\ RunDeploy({<<chosen, targetName>>})
  /\ UNCHANGED <<host, probe, chosen, file, override, restart, sudo, result>>

CancelOverwrite ==
  /\ asking /\ busy = ""
  /\ asking' = FALSE
  /\ UNCHANGED <<host, flying, sent, probe, chosen, file, override, restart,
                 busy, sudo, result, agreed, unasked>>

SubmitSudo ==
  /\ busy = ""
  /\ \/ sudo.kind = "deploy" /\ RunDeploy({})
     \/ sudo.kind = "restart" /\ RunRestart
  /\ UNCHANGED <<host, probe, chosen, file, override, restart, sudo, result>>

CancelSudo ==
  /\ busy = "" /\ sudo # NoSudo
  /\ sudo' = NoSudo
  /\ UNCHANGED <<host, flying, sent, probe, chosen, file, override, restart,
                 busy, asking, result, agreed, unasked>>

-----------------------------------------------------------------------------
(* The host.                                                                 *)

Served(r, ok, needs, restarted) ==
  flying' = (flying \ {r}) \cup {[r EXCEPT !.state = "served", !.ok = ok,
                                   !.needs = needs, !.restarted = restarted]}

Lands(r)    == onHost' = [onHost EXCEPT ![r.instance] = @ \cup {r.name}]
Restarts(i) == ran' = ran \cup ({i} \X onHost'[i])

\* Nothing is written without the password the directory needs; a failure may
\* come after the move, from the chown that follows it.
ServeDeploy(r) ==
  \/ Served(r, FALSE, TRUE, FALSE) /\ UNCHANGED <<onHost, ran>>
  \/ Served(r, FALSE, FALSE, FALSE) /\ (Lands(r) \/ UNCHANGED onHost) /\ UNCHANGED ran
  \/ ~r.restart /\ Served(r, TRUE, FALSE, FALSE) /\ Lands(r) /\ UNCHANGED ran
  \/ r.restart /\ Served(r, TRUE, FALSE, TRUE) /\ Lands(r) /\ Restarts(r.instance)
  \/ /\ r.restart /\ Lands(r) /\ UNCHANGED ran
     /\ \E needs \in BOOLEAN : Served(r, TRUE, needs, FALSE)

ServeRestart(r) ==
  \/ Served(r, TRUE, FALSE, TRUE) /\ UNCHANGED onHost /\ Restarts(r.instance)
  \/ \E needs \in BOOLEAN : Served(r, FALSE, needs, FALSE) /\ UNCHANGED <<onHost, ran>>

HostServes(r) ==
  /\ r.state = "sent"
  /\ \/ r.kind = "deploy" /\ ServeDeploy(r)
     \/ r.kind = "restart" /\ ServeRestart(r)
  /\ UNCHANGED <<sent, probe, form, busy, agreed, unasked>>

-----------------------------------------------------------------------------
(* What comes back.                                                          *)

\* resetChoice, once nothing of the deploy is left to do.
ResetChoice == file' = None /\ override' = None /\ asking' = FALSE
KeepChoice  == UNCHANGED <<file, override, asking>>

DeployOutcome(r, lost) ==
  IF lost THEN "failed"
  ELSE IF ~r.ok THEN IF r.needs THEN "denied" ELSE "failed"
  ELSE IF r.restart /\ ~r.restarted /\ r.needs THEN "half" ELSE "done"

BannerOf(r) == [instance |-> r.instance, name |-> r.name, restarted |-> r.restarted]

DeployAnswered(r, lost) ==
  LET outcome == DeployOutcome(r, lost)
  IN /\ r.kind = "deploy"
     /\ result' = IF outcome \in {"half", "done"} THEN BannerOf(r) ELSE NoResult
     /\ sudo' = CASE outcome = "denied" -> [kind |-> "deploy", instance |-> None]
                  [] outcome = "half" -> [kind |-> "restart", instance |-> r.instance]
                  [] OTHER -> NoSudo
     /\ IF outcome = "done" THEN ResetChoice ELSE KeepChoice

\* A lost answer leaves the prompt of the restart where it is.
RestartAnswered(r, lost) ==
  /\ r.kind = "restart"
  /\ \/ lost /\ UNCHANGED <<sudo, result>> /\ KeepChoice
     \/ ~lost /\ r.needs /\ sudo' = [kind |-> "restart", instance |-> r.instance]
        /\ UNCHANGED result /\ KeepChoice
     \/ ~lost /\ ~r.needs /\ ~r.ok /\ sudo' = NoSudo /\ UNCHANGED result /\ KeepChoice
     \/ /\ ~lost /\ r.ok /\ sudo' = NoSudo /\ ResetChoice
        /\ result' = IF result = NoResult THEN NoResult
                     ELSE [result EXCEPT !.restarted = TRUE]

Answered(r) ==
  /\ r.state = "served" /\ flying' = flying \ {r}
  /\ IF r.mine
     THEN /\ \E lost \in BOOLEAN : DeployAnswered(r, lost) \/ RestartAnswered(r, lost)
          /\ busy' = ""
          /\ UNCHANGED <<chosen, restart>>
     ELSE UNCHANGED <<form, busy>>
  /\ UNCHANGED <<host, sent, probe, agreed, unasked>>

\* A probe of the page arrives, its own or the one onDeployed asks for. The
\* effect re-points the form where its instance is gone; all else stays.
RefreshInstances ==
  /\ listed' \in (SUBSET Instances) \ {{}}
  /\ webapps' = onHost
  /\ IF chosen \in listed' THEN UNCHANGED chosen ELSE chosen' \in listed'
  /\ UNCHANGED <<host, flying, sent, file, override, restart, busy, asking,
                 sudo, result, agreed, unasked>>

\* Another tab and back, or a probe without instances and one with some.
Remount ==
  /\ \E names \in (SUBSET Instances) \ {{}} : Fresh(names)
  /\ flying' = {[r EXCEPT !.mine = FALSE] : r \in flying}
  /\ UNCHANGED <<host, sent, unasked>>

-----------------------------------------------------------------------------
(* The parts of the panel.                                                   *)

DeployForm ==
  \/ \E n \in Names \cup {None} : PickFile(n) \/ TypeFilename(n)
  \/ \E i \in Instances : ChooseInstance(i)
  \/ ToggleRestart \/ Begin

OverwriteBox == Overwrite \/ CancelOverwrite
SudoBox      == SubmitSudo \/ CancelSudo

Operator == DeployForm \/ OverwriteBox \/ SudoBox

Outside ==
  \/ \E r \in flying : HostServes(r) \/ Answered(r)
  \/ RefreshInstances \/ Remount

Next == Operator \/ Outside

Spec == Init /\ [][Next]_vars

-----------------------------------------------------------------------------
(* Properties.                                                               *)

\* What the success banner says is so: the WAR is on the instance it names,
\* and where it says "restarted" that instance was restarted with it.
DeployBannerIsTrue ==
  result # NoResult =>
    /\ result.name \in onHost[result.instance]
    /\ result.restarted => <<result.instance, result.name>> \in ran

\* "Retry the restart alone": a prompt for the restart stands for a WAR that is
\* in place on the very instance, whatever the form was re-pointed at since.
RestartPromptIsEarned ==
  sudo.kind = "restart" => /\ result # NoResult /\ result.instance = sudo.instance
                           /\ result.name \in onHost[sudo.instance]

\* "If it is already there, this is a replacement. The UI asks you to confirm"
\* (docs/TomcatDeployment.md:148): nothing that the list shows is overwritten
\* before the operator agreed to that overwrite.
OverwriteIsConfirmed == ~unasked
=============================================================================
