--------------------------- MODULE MCEventsPaging ---------------------------
(* Small instances of EventsPaging for TLC.                                 *)
EXTENDS EventsPaging

\* The wallet over an index that grows at its end, and the prover page in the
\* purge demo over an index whose rows appear in any order.
WalletAndPage ==
    {[pageSize |-> 1, maxPages |-> 3, atCap |-> "capped", attempts |-> 2,
      startLedger |-> 1, window |-> 0, appendOnly |-> TRUE],
     [pageSize |-> 2, maxPages |-> 2, atCap |-> "failed", attempts |-> 1,
      startLedger |-> 2, window |-> 2, appendOnly |-> FALSE]}
=============================================================================
