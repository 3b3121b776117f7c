----------------------------- MODULE MCWarDeploy -----------------------------
(* The deploy panel alone: one instance on which the second name is taken.   *)
EXTENDS WarDeploy

=============================================================================
