------------------------------- MODULE MCTables -------------------------------
(***************************************************************************)
(* Requests in flight on two parts of the database, for TLC: the groups           *)
(* (FolderTree) and the gateway's events and counts (GatewayIngest). They share    *)
(* nothing, so one of them moves in a behaviour and the other stays where it       *)
(* starts.                                                                    *)
(***************************************************************************)
EXTENDS FolderTree, TLC

CONSTANTS Sources, Malformed, PerMinute, EventTicks, RollupTicks, MaxRequests,
          MaxTime, MaxRetries

VARIABLES table, now, log, queued, acked, retries, handler, events, rollups, swept,
          inserted, raced

gatewayVars == <<now, log, queued, acked, retries, handler, events, rollups, swept,
                 inserted, raced>>

Gateway == INSTANCE GatewayIngest

ASSUME TablesAssumption == Gateway!GatewayAssumption

TablesInit == table \in {"folders", "gateway"} /\ Init /\ Gateway!Init

TablesNext ==
  /\ UNCHANGED table
  /\ \/ table = "folders" /\ Next /\ UNCHANGED gatewayVars
     \/ table = "gateway" /\ Gateway!Next /\ UNCHANGED vars

TablesSpec == TablesInit /\ [][TablesNext]_<<table, vars, gatewayVars>>

\* Threads are interchangeable.
Interchangeable == Permutations(Workers)

-----------------------------------------------------------------------------
(* The properties of GatewayIngest; those of FolderTree are its own.          *)

\* A request Kong has a 200 for is stored (GatewayIngest).
AckedIsStored == Gateway!AckedIsStored

\* The counts of a bucket are those of its events, unless two handlers raced for
\* it (GatewayIngest).
CountsAreExact == Gateway!CountsAreExact
=============================================================================
