---------------------------- MODULE MCWalletOps ----------------------------
(* Small instances of WalletOps for TLC.                                    *)
EXTENDS WalletOps

Account0 ==
    [registered |-> FALSE, spend |-> 0, recv |-> 0, rev |-> 0, seq |-> 0,
     landed |-> <<>>]

\* An account never used, and one with a balance of both kinds.
NewAndFunded ==
    {Account0, [Account0 EXCEPT !.registered = TRUE, !.spend = 2, !.recv = 1]}
=============================================================================
