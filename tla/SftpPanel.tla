------------------------------ MODULE SftpPanel ------------------------------
(***************************************************************************)
(* The file pane of the shell workspace (frontend/components/                *)
(* sftp-panel.tsx): a listing, transfers and deletes on one host, over        *)
(* requests that are answered late, in any order, or not at all.             *)
(*                                                                          *)
(* The pane has one `pending` slot that greys its buttons out while a         *)
(* request is under way - the path field is the one control that does not    *)
(* look at it - and one ticket counter that lets only the newest listing in.  *)
(* A request is served by the host first and answered later; its answer may  *)
(* get lost after it took effect.                                            *)
(***************************************************************************)
EXTENDS Integers, FiniteSets

CONSTANTS Home,         \* the directory an empty path stands for
          Entries,      \* everything below it
          Dirs,         \* the entries that are directories
          Parent,       \* the directory each entry is in
          Shallow,      \* entries with a path of fewer than two components
          HomeDirs,     \* the home directory, where it is listed as an entry
          MaxRequests,  \* bound: requests the operator makes the pane send
          None

SftpAssumption ==
  /\ Home \notin Entries /\ None \notin Entries \cup {Home}
  /\ Dirs \subseteq Entries
  /\ Shallow \subseteq Entries /\ HomeDirs \subseteq Dirs
  /\ Parent \in [Entries -> Dirs \cup {Home}]
  /\ MaxRequests \in Nat \ {0}

VARIABLES
  onHost,     \* the entries that exist on the host
  flying,     \* requests not answered yet
  sent,       \* requests sent so far
  ticket,     \* ticketRef.current
  listing,    \* the directory shown and the rows it had, or None
  pending,    \* the pending slot
  failure,    \* the banner: the action that failed, and the kind it was given
  menu,       \* the row whose menu is open
  confirming, \* the delete dialog
  aimed       \* observed only: the target of the newest load

pane == <<listing, pending, failure, menu, confirming>>
vars == <<onHost, flying, sent, ticket, pane, aimed>>

Places    == Dirs \cup {Home}
Actions   == {"list", "download", "upload", "delete"}
Nowhere   == [path |-> None, rows |-> {}]
NoFailure == [action |-> "none", kind |-> "none"]
NoDialog  == [entry |-> None, escalated |-> FALSE, typed |-> FALSE]

TypeOK ==
  /\ onHost \subseteq Entries
  /\ sent \in 1 .. 2 * MaxRequests /\ ticket \in 1 .. sent
  /\ listing.path \in Places \cup {None} /\ listing.rows \subseteq Entries
  /\ pending \in Actions \cup {"none"}
  /\ menu \in Entries \cup {None}
  /\ confirming.entry \in Entries \cup {None}
  /\ \A r \in flying : r.op \in Actions /\ r.id \in 1 .. sent
  /\ aimed \in Places

-----------------------------------------------------------------------------
(* The host, as backend/app/services/ssh_ops.py serves it.                   *)

\* Every entry below d; two levels are enough for the instances, and a link
\* is an entry like any other, never followed.
Below(d) ==
  LET children == {e \in Entries : Parent[e] = d}
  IN children \cup {e \in Entries : Parent[e] \in children}

RowsOf(p) == {e \in onHost : Parent[e] = p}

\* classify: the words of a refusal decide its kind, the most specific first.
\* The guard's own text also says "recursive", so it has to be asked for first.
WordsOf(reason) ==
  CASE reason = "populated" -> {"recursive", "directory"}
    [] reason = "guard"     -> {"refusing", "recursive", "too broad"}
    [] reason = "gone"      -> {"no such file"}
    [] reason = "denied"    -> {"permission denied"}
    [] OTHER                -> {"unable to connect"}

Classify(reason) ==
  LET words == WordsOf(reason)
  IN CASE words \cap {"refusing", "too broad"} # {} -> "refused"
       [] "recursive" \in words                   -> "needsrecursive"
       [] "no such file" \in words                -> "missing"
       [] "permission denied" \in words           -> "denied"
       [] OTHER                                   -> "offline"

\* What a delete does and answers: the removed entries and "" or a refusal.
\* A recursive delete stops at the first entry it may not remove, and what it
\* removed before that stays removed.
DeleteOutcomes(e, recursive) ==
  LET tree == (Below(e) \cap onHost) \cup {e}
  IN IF e \notin onHost THEN {<<{}, "gone">>}
     ELSE IF recursive /\ e \in Shallow \cup HomeDirs THEN {<<{}, "guard">>}
     ELSE IF e \notin Dirs \/ tree = {e} THEN {<<{e}, "">>, <<{}, "denied">>}
     ELSE IF ~recursive THEN {<<{}, "populated">>}
     ELSE {<<tree, "">>} \cup {<<part, "denied">> : part \in SUBSET (tree \ {e})}

Serve(r, removed, reason, rows) ==
  /\ onHost' = onHost \ removed
  /\ flying' = (flying \ {r}) \cup
               {[r EXCEPT !.state = "served", !.reason = reason,
                          !.rows = rows]}
  /\ UNCHANGED <<sent, ticket, pane, aimed>>

\* The host serves a request: a listing, a transfer or a delete.
HostServes(r) ==
  /\ r.state = "sent"
  /\ \/ r.op = "list" /\ r.entry \in onHost \cup {Home}
        /\ Serve(r, {}, "", RowsOf(r.entry))
     \/ r.op = "list" /\ r.entry \notin onHost \cup {Home} /\ Serve(r, {}, "gone", {})
     \/ /\ r.op \in {"upload", "download"}
        /\ \E reason \in {"", "denied"} : Serve(r, {}, reason, {})
     \/ r.op = "delete" /\ \E out \in DeleteOutcomes(r.entry, r.recursive) :
                             Serve(r, out[1], out[2], {})

\* Somebody else fills or creates something on the host, at any time.
HostChanges(e) ==
  /\ e \notin onHost /\ Parent[e] \in onHost \cup {Home}
  /\ onHost' = onHost \cup {e}
  /\ UNCHANGED <<flying, sent, ticket, pane, aimed>>

-----------------------------------------------------------------------------
(* Requests.                                                                 *)

Request(op, e, recursive, tick) ==
  [id |-> sent + 1, op |-> op, entry |-> e, recursive |-> recursive,
   ticket |-> tick, state |-> "sent", reason |-> "",
   rows |-> {}, back |-> listing.path]

\* load: a new ticket, the slot, no banner, and the request.
Load(p, others) ==
  /\ sent' = sent + 1 /\ ticket' = ticket + 1
  /\ flying' = others \cup {Request("list", p, FALSE, ticket + 1)}
  /\ pending' = "list" /\ failure' = NoFailure /\ aimed' = p

\* A transfer or a delete is sent from a pane that shows nothing pending.
Send(op, e, recursive) ==
  /\ sent < MaxRequests /\ pending = "none"
  /\ sent' = sent + 1
  /\ flying' = flying \cup {Request(op, e, recursive, 0)}
  /\ pending' = op /\ failure' = NoFailure
  /\ UNCHANGED <<onHost, ticket, listing, aimed>>

Init ==
  /\ onHost \in SUBSET Entries
  /\ \A e \in onHost : Parent[e] \in onHost \cup {Home}
  /\ sent = 1 /\ ticket = 1
  /\ flying = {[id |-> 1, op |-> "list", entry |-> Home, recursive |-> FALSE,
                ticket |-> 1, state |-> "sent", reason |-> "",
                rows |-> {}, back |-> None]}
  /\ listing = Nowhere /\ pending = "list" /\ failure = NoFailure
  /\ menu = None /\ confirming = NoDialog
  /\ aimed = Home

-----------------------------------------------------------------------------
(* What the operator does.                                                   *)

\* Every button that lists a directory waits for the slot.
Navigate(p) ==
  /\ pending = "none" /\ sent < MaxRequests
  /\ Load(p, flying)
  /\ UNCHANGED <<onHost, listing, menu, confirming>>

\* The path field: any path, whatever is pending.
SubmitPath(p) ==
  /\ sent < MaxRequests
  /\ Load(p, flying)
  /\ UNCHANGED <<onHost, listing, menu, confirming>>

\* Retry of a listing; every other banner is only dismissed.
RetryFailure ==
  /\ failure.action # "none" /\ pending = "none"
  /\ IF failure.action = "list"
     THEN sent < MaxRequests /\ Load(aimed, flying)
     ELSE failure' = NoFailure /\ UNCHANGED <<sent, ticket, flying, pending, aimed>>
  /\ UNCHANGED <<onHost, listing, menu, confirming>>

\* A file row, the link's own button, or Download in the menu.
Download(e) ==
  /\ e \in listing.rows \ Dirs
  /\ Send("download", e, FALSE)
  /\ menu' = None
  /\ UNCHANGED confirming

\* Offered once a directory is listed; the file goes to that directory.
Upload ==
  /\ listing.path # None
  /\ Send("upload", listing.path, FALSE)
  /\ UNCHANGED <<menu, confirming>>

\* By right click or by the row's button.
OpenMenu(e) ==
  /\ e \in listing.rows
  /\ menu' = e
  /\ UNCHANGED <<onHost, flying, sent, ticket, listing, pending, failure,
                 confirming, aimed>>

\* Escape, a click elsewhere, scrolling, or "Copy path".
CloseMenu ==
  /\ menu # None
  /\ menu' = None
  /\ \E f \in {failure, NoFailure} : failure' = f
  /\ UNCHANGED <<onHost, flying, sent, ticket, listing, pending,
                 confirming, aimed>>

AskDelete ==
  /\ menu # None /\ pending = "none"
  /\ confirming' = [entry |-> menu, escalated |-> FALSE, typed |-> FALSE]
  /\ menu' = None /\ failure' = NoFailure
  /\ UNCHANGED <<onHost, flying, sent, ticket, listing, pending, aimed>>

\* Cancel, Escape and the backdrop: never while a delete is under way.
CancelDelete ==
  /\ confirming.entry # None /\ pending # "delete"
  /\ confirming' = NoDialog
  /\ UNCHANGED <<onHost, flying, sent, ticket, listing, pending, failure, menu,
                 aimed>>

\* The field for the directory's name; only the escalated dialog has it.
TypeName ==
  /\ confirming.escalated /\ confirming.entry \notin Shallow
  /\ pending # "delete"
  /\ confirming' = [confirming EXCEPT !.typed = TRUE]
  /\ UNCHANGED <<onHost, flying, sent, ticket, listing, pending, failure, menu,
                 aimed>>

\* The button sends the recursive form in the escalated dialog only.
RunDelete ==
  /\ confirming.entry # None
  /\ confirming.escalated => confirming.typed /\ confirming.entry \notin Shallow
  /\ Send("delete", confirming.entry, confirming.escalated)
  /\ UNCHANGED <<menu, confirming>>

-----------------------------------------------------------------------------
(* What comes back.                                                          *)

\* The reason of the answer; a lost answer reads as a connection failure.
Reasons(r) == {r.reason, "lost"}

\* Mutant: every listing that arrives is shown.
LandsAnyTicket(r) == TRUE

Lands(r) == r.ticket = ticket

ListAnswered(r, reason) ==
  /\ r.op = "list"
  /\ flying' = flying \ {r}
  /\ IF Lands(r)
     THEN /\ pending' = "none"
          /\ IF reason = ""
             THEN /\ listing' = [path |-> r.entry, rows |-> r.rows]
                  /\ menu' = None /\ UNCHANGED failure
             ELSE /\ failure' = [action |-> "list", kind |-> Classify(reason)]
                  /\ UNCHANGED <<listing, menu>>
     ELSE UNCHANGED <<listing, menu, pending, failure>>
  /\ UNCHANGED <<onHost, sent, ticket, confirming, aimed>>

\* A transfer that worked shows its directory again, if it was an upload.
TransferAnswered(r, reason) ==
  /\ r.op \in {"upload", "download"}
  /\ IF reason = "" /\ r.op = "upload"
     THEN Load(r.back, flying \ {r})
     ELSE /\ flying' = flying \ {r} /\ pending' = "none"
          /\ failure' = IF reason = "" THEN failure
                        ELSE [action |-> r.op, kind |-> Classify(reason)]
          /\ UNCHANGED <<sent, ticket, aimed>>
  /\ UNCHANGED <<onHost, listing, menu, confirming>>

\* A first attempt on a directory that turns out populated escalates whatever
\* dialog is open; every other outcome closes it and frees the slot.
Escalates(r, reason) ==
  ~r.recursive /\ r.entry \in Dirs /\ Classify(reason) = "needsrecursive"

DeleteWorked(r, reason) ==
  /\ r.op = "delete" /\ reason = ""
  /\ confirming' = NoDialog
  /\ Load(r.back, flying \ {r})
  /\ UNCHANGED <<onHost, listing, menu>>

\* Mutant: the slot is freed only where the dialog closes.
FreedUnlessEscalating(r, reason) == IF Escalates(r, reason) THEN pending ELSE "none"

Freed(r, reason) == "none"

DeleteFailed(r, reason) ==
  /\ r.op = "delete" /\ reason # ""
  /\ flying' = flying \ {r}
  /\ pending' = Freed(r, reason)
  /\ IF Escalates(r, reason)
     THEN /\ confirming' = IF confirming.entry = None THEN NoDialog
                           ELSE [confirming EXCEPT !.escalated = TRUE, !.typed = FALSE]
          /\ UNCHANGED failure
     ELSE /\ confirming' = NoDialog
          /\ failure' = [action |-> "delete", kind |-> Classify(reason)]
  /\ UNCHANGED <<onHost, sent, ticket, listing, menu, aimed>>

Answered(r) ==
  /\ r.state = "served"
  /\ \E reason \in Reasons(r) :
       \/ ListAnswered(r, reason) \/ TransferAnswered(r, reason)
       \/ DeleteWorked(r, reason) \/ DeleteFailed(r, reason)

-----------------------------------------------------------------------------
(* The parts of the pane, and what each offers.                              *)

ShownPlace == IF listing.path = None THEN Home ELSE listing.path
Up         == {Parent[d] : d \in {listing.path} \cap Dirs}

Header    == Navigate(ShownPlace)
PlacesBar == (\E p \in {Home} \cup Up : Navigate(p)) \/ \E p \in Places : SubmitPath(p)
UploadRow == Upload

\* Besides Retry or Dismiss: the home directory where a listing failed, the
\* directory shown where a delete did.
FailureBanner ==
  \/ RetryFailure
  \/ failure.action = "list" /\ Navigate(Home)
  \/ failure.action = "delete" /\ Navigate(ShownPlace)

\* The rows of the directory shown, ".." first.
Rows == \/ \E p \in Up \cup (listing.rows \cap Dirs) : Navigate(p)
        \/ \E e \in listing.rows : Download(e) \/ OpenMenu(e)

RowMenu      == (menu # None /\ Download(menu)) \/ AskDelete \/ CloseMenu
DeleteDialog == CancelDelete \/ TypeName \/ RunDelete

Operator == Header \/ PlacesBar \/ UploadRow \/ FailureBanner \/ Rows \/ RowMenu \/ DeleteDialog

Outside ==
  \/ \E r \in flying : HostServes(r) \/ Answered(r)
  \/ \E e \in Entries : HostChanges(e)

Next == Operator \/ Outside

Spec == Init /\ [][Next]_vars

-----------------------------------------------------------------------------
(* Properties.                                                               *)

\* "Navigating twice quickly must not let the slower response win": whatever
\* arrives in whatever order, a listing that appears is the newest one asked for.
NewestListingWins == [][listing' # listing => listing'.path = aimed]_vars

\* The pane never greys out for good: what the slot names is still under way,
\* although answers of other requests clear and set the same slot.
SpinnerHasARequest ==
  pending # "none" =>
    \E r \in flying : r.op = pending /\ (r.op = "list" => r.ticket = ticket)
=============================================================================
