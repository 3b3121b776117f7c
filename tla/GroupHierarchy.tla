---------------------------- MODULE GroupHierarchy ----------------------------
(***************************************************************************)
(* What the group tree promises its readers, without rows or ids to point  *)
(* at: each group has a set of groups above it.  FolderTree implements it. *)
(***************************************************************************)
CONSTANTS Ids, None

VARIABLE above     \* for each group that exists, the groups it is inside of

groups == DOMAIN above

\* The groups above one that sits directly inside p.
Inside(p) == IF p = None THEN {} ELSE {p} \cup above[p]

Create(f, p) ==
  /\ f \notin groups
  /\ above' = [g \in groups \cup {f} |-> IF g = f THEN Inside(p) ELSE above[g]]

\* f moves below p with everything inside it; p is not f and not inside f.
Move(f, p) ==
  /\ f \in groups
  /\ f # p /\ f \notin Inside(p)
  /\ above' = [g \in groups |->
                 IF g = f THEN Inside(p)
                 ELSE IF f \in above[g] THEN (above[g] \ above[f]) \cup Inside(p)
                 ELSE above[g]]

\* f goes; what was inside it stays inside whatever f was inside of.
Dissolve(f) ==
  /\ f \in groups
  /\ above' = [g \in groups \ {f} |-> above[g] \ {f}]

Init == above = [g \in {} |-> {}]

Next ==
  \/ \E f \in Ids, p \in groups \cup {None} : Create(f, p) \/ Move(f, p)
  \/ \E f \in Ids : Dissolve(f)

Spec == Init /\ [][Next]_above
===============================================================================
