----------------------------- MODULE MCServerPage -----------------------------
(* What the page works on, for the model checker: every operation and every log      *)
(* source once; in the home directory a (with f) and b (with g), the latter an        *)
(* account's home.                                                              *)
EXTENDS ServerPage

CONSTANTS a, b, f, g

EveryOp == [kind : {"containerRestart", "containerRemove", "imageRemove", "serviceRestart",
                    "tomcatRestart", "tomcatStart", "metricsInstall", "metricsUninstall",
                    "logShipping"}, on : {"x"}]
EverySource == [kind : {"container", "env", "tomcat", "service", "onDemand", "database"},
                on : {"x"}]

ParentOf == [e \in {a, b, f, g} |-> IF e = f THEN a ELSE IF e = g THEN b ELSE Home]
=============================================================================
