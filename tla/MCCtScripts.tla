---------------------------- MODULE MCCtScripts ----------------------------
(* Small instances of CtScripts for TLC.                                    *)
EXTENDS CtScripts

\* Bound: the deployments and the flows are among the first three starts.
EarlyWriters ==
    starts' = starts \/ starts' <= 3 \/ proc'.script \notin {"deploy", "flow"}
=============================================================================
