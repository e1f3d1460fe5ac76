-------------------------- MODULE MCMemoryService --------------------------
(* Small instances of MemoryService for TLC.                                *)
EXTENDS MemoryService

CONSTANT t1

OneTask == {t1}

\* An explicit ledger that the chain has not closed when the service starts.
FutureOnly == {[mode |-> "ledger", ledger |-> 2]}

\* The wallet, which relies on the order of the table, and the prover page in the
\* purge demo, which does too but declares a floor.
WalletAndPage ==
    {[pageSize |-> 1, maxPages |-> 2, atCap |-> "capped", attempts |-> 2,
      startLedger |-> 1, window |-> 0, appendOnly |-> TRUE],
     [pageSize |-> 2, maxPages |-> 2, atCap |-> "failed", attempts |-> 1,
      startLedger |-> 1, window |-> 1, appendOnly |-> TRUE]}
=============================================================================
