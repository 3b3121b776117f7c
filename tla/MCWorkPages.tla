----------------------------- MODULE MCWorkPages ------------------------------
(* The log lines for the model checker: six of four nanoseconds, of which one     *)
(* query selects all and the other three, in a window of all and one of some.     *)
EXTENDS WorkPages

NsOf == <<1, 2, 2, 3, 3, 4>>
Selected == [q \in {"all", "some"} |-> IF q = "all" THEN 1 .. 6 ELSE {1, 2, 4}]
TwoWindows == {[start |-> 1, end |-> 5], [start |-> 2, end |-> 4]}
=============================================================================
