------------------------------ MODULE ServerPage ------------------------------
(***************************************************************************)
(* The page of one server: the page itself, the WAR deploy panel in          *)
(* its Tomcat tab, the shell workspace and the file panel it opens. They share  *)
(* no state but the server's identity, so one of them moves in a behaviour and   *)
(* the others stay where they start.                                          *)
(***************************************************************************)
EXTENDS ShellWorkspace

CONSTANTS Ops, Sources, Instances, Names, BadNames,
          Home, Entries, Dirs, Parent, Shallow, HomeDirs, None,
          MaxTasks, MaxDeploys, MaxListings

VARIABLES part,
  tab, server, probe, busy, tasks, sent, dialog, sudo, title, lines, refresher,
  auto, loaded, agreed,
  host_, ran, warFlying, warSent, listed, webapps, chosen, file, override,
  restart, warBusy, asking, warSudo, result, warAgreed, unasked,
  disk, flying, asked, ticket, listing, pending, failure, menu, confirming,
  aimed

detail == <<tab, server, probe, busy, tasks, sent, dialog, sudo, title, lines,
            refresher, auto, loaded, agreed>>
war    == <<host_, ran, warFlying, warSent, listed, webapps, chosen, file, override,
            restart, warBusy, asking, warSudo, result, warAgreed, unasked>>
sftp   == <<disk, flying, asked, ticket, listing, pending, failure, menu,
            confirming, aimed>>

Detail == INSTANCE ServerDetail

War == INSTANCE WarDeploy WITH
  MaxRequests <- MaxDeploys, onHost <- host_, flying <- warFlying, sent <- warSent,
  busy <- warBusy, sudo <- warSudo, agreed <- warAgreed

Sftp == INSTANCE SftpPanel WITH MaxRequests <- MaxListings, onHost <- disk, sent <- asked

ASSUME PageAssumption ==
  Detail!PageAssumption /\ War!DeployAssumption /\ Sftp!SftpAssumption

PageInit ==
  /\ part \in {"detail", "war", "shell", "sftp"}
  /\ Detail!Init /\ War!Init /\ Init /\ Sftp!Init
  /\ part # "detail" => server = [has |-> {}, rows |-> FALSE, active |-> TRUE]
  /\ part # "war" => /\ host_ = [i \in Instances |-> {}]
                      /\ chosen = CHOOSE i \in Instances : TRUE
  /\ part # "sftp" => disk = {}

PageNext ==
  /\ UNCHANGED part
  /\ \/ part = "detail" /\ Detail!Next /\ UNCHANGED <<war, vars, sftp>>
     \/ part = "war" /\ War!Next /\ UNCHANGED <<detail, vars, sftp>>
     \/ part = "shell" /\ Next /\ UNCHANGED <<detail, war, sftp>>
     \/ part = "sftp" /\ Sftp!Next /\ UNCHANGED <<detail, war, vars>>

PageSpec == PageInit /\ [][PageNext]_<<part, detail, war, vars, sftp>>

-----------------------------------------------------------------------------
(* The properties of the parts; those of ShellWorkspace are its own.         *)

\* Every part keeps its types; the page of the server shows a tab it offers.
TypesOK == CASE part = "detail" -> Detail!TypeOK
             [] part = "war" -> War!TypeOK
             [] part = "shell" -> TypeOK
             [] part = "sftp" -> Sftp!TypeOK

\* The operator agreed to every operation that is sent (ServerDetail).
OnlyWhatWasAgreed == Detail!OnlyWhatWasAgreed

\* Neither the page nor its file panel is greyed out for good (ServerDetail,
\* SftpPanel).
NothingSpinsForEver == Detail!BusyHasATask /\ Sftp!SpinnerHasARequest

\* What the deploy panel says was deployed and restarted is what was, and a
\* restart is only asked for after a deploy that worked (WarDeploy).
DeployBannerIsTrue == War!DeployBannerIsTrue /\ War!RestartPromptIsEarned

\* An older listing never replaces a newer one (SftpPanel).
NewestListingWins == Sftp!NewestListingWins
=============================================================================
