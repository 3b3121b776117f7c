------------------------------- MODULE MCHandlers ------------------------------
(***************************************************************************)
(* Requests on what the operators register, for TLC: database connections with   *)
(* their tunnels (DbTunnels) and servers (ServerInventory), two in flight, and     *)
(* groups (FolderTree), one at a time. They share nothing, so one of them moves    *)
(* in a behaviour and the others stay where they start.                        *)
(***************************************************************************)
EXTENDS DbTunnels, TLC

CONSTANTS Hosts, Addresses, GroupNames, Unassigned, MaxRow, MaxRows,
          Names, MaxGroup

VARIABLES table, servers, groups, requests, folders, parent, name, srvFolder, req

rowVars    == <<servers, groups, requests>>
folderVars == <<folders, parent, name, srvFolder, req>>

Row == INSTANCE ServerInventory WITH MaxId <- MaxRow, rows <- servers, req <- requests

Groups == INSTANCE FolderTree WITH
  MaxId <- MaxGroup, FoldedNames <- Names, Servers <- {}, Workers <- {"serial"}

ASSUME RowsAssumption == Row!InventoryAssumption
ASSUME GroupsAssumption == Groups!MaxIdAssumption /\ Groups!NamesAssumption

\* Of the connections' rows one case is enough where the tunnels stand still.
HandlersInit ==
  /\ table \in {"tunnels", "servers", "folders"}
  /\ Init /\ Row!Init /\ Groups!Init
  /\ table # "tunnels" => \A c \in Conns : rows[c] = [inline |-> config, cfg |-> FALSE]

HandlersNext ==
  /\ UNCHANGED table
  /\ \/ table = "tunnels" /\ Next /\ UNCHANGED <<rowVars, folderVars>>
     \/ table = "servers" /\ Row!Next /\ UNCHANGED <<vars, folderVars>>
     \/ table = "folders" /\ Groups!Next /\ UNCHANGED <<vars, rowVars>>

HandlersSpec == HandlersInit /\ [][HandlersNext]_<<table, vars, rowVars, folderVars>>

\* Handlers, connections, routes and ports are interchangeable; so are hosts and
\* addresses, for which the cfg takes the same model values.
Interchangeable ==
  Permutations(Workers) \cup Permutations(Conns) \cup Permutations(Routes) \cup Permutations(Ports)

-----------------------------------------------------------------------------
(* The properties of ServerInventory and FolderTree; those of DbTunnels are its  *)
(* own.                                                                     *)

\* Only POST /servers makes two servers share an address (ServerInventory).
OnlyCreateSharesAddress == Row!OnlyCreateSharesAddress

\* Only regrouping makes namesakes within a group (ServerInventory).
OnlyRegroupingMakesNamesakes == Row!OnlyRegroupingMakesNamesakes

\* Importing a file again keeps no row (ServerInventory).
RerunKeepsNothing == Row!RerunKeepsNothing

\* The groups are a forest (FolderTree).
Acyclic == Groups!Acyclic

\* Only a delete makes namesakes of siblings (FolderTree).
OnlyDeleteMakesTwins == Groups!OnlyDeleteMakesTwins

\* A delete keeps the rest of the hierarchy (FolderTree).
DeleteKeepsAncestry == Groups!DeleteKeepsAncestry

\* The table refines the abstract forest (FolderTree).
ImplementsHierarchy == Groups!ImplementsHierarchy
===============================================================================
