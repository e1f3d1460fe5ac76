---------------------------- MODULE MCGoalTotal ----------------------------
(* Small instances of GoalTotal for TLC.                                    *)
EXTENDS GoalTotal

\* The prover page over the live RPC, and the script over an index with holes.
PageAndScript ==
    {[index |-> "current", rereads |-> TRUE], [index |-> "forgetful", rereads |-> FALSE]}

\* The prover page over an index that lags.
PageLagging == {[index |-> "lagging", rereads |-> TRUE]}
=============================================================================
