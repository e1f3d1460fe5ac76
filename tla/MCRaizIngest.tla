---------------------------- MODULE MCRaizIngest ----------------------------
(* Small instances of RaizIngest for TLC.                                   *)
EXTENDS RaizIngest

CONSTANT t1

OneTask == {t1}

HeadSpec == [mode |-> "head", ledger |-> None]
OldestSpec == [mode |-> "oldest", ledger |-> None]
LedgerSpec(n) == [mode |-> "ledger", ledger |-> n]

\* Every kind of spec: one explicit ledger that gets too old, and one the chain
\* has not closed yet.
FutureSpecs == {HeadSpec, OldestSpec, LedgerSpec(1), LedgerSpec(3)}
OldestOnly == {OldestSpec}
=============================================================================
