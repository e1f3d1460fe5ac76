--------------------------- MODULE ChainPositions ---------------------------
(***************************************************************************)
(* Positions in the event stream of one contract, as the Soroban RPC       *)
(* numbers them.  An event id is "TOID-eventIndex" with the ledger in the  *)
(* high bits of the TOID, zero padded, so that the lexicographic order of  *)
(* the text is the emission order; a pagination cursor has the same form   *)
(* (raiz-memory/src/rpc.rs:3-24, 110-116; tests.rs event_id, cursor_at).   *)
(* A position keeps the two parts the program tells apart: the ledger, and *)
(* the place inside it.                                                    *)
(***************************************************************************)
EXTENDS Integers, FiniteSets

Position == [ledger : Nat, index : Nat]

\* The order of event ids and cursors (ORDER BY id, id > cursor).
Before(p, q) ==
    \/ p.ledger < q.ledger
    \/ p.ledger = q.ledger /\ p.index < q.index

AtOrBefore(p, q) == p = q \/ Before(p, q)

\* e is the first (last) position of the set S.
IsFirst(e, S) == e \in S /\ \A f \in S : AtOrBefore(e, f)
IsLast(e, S)  == e \in S /\ \A f \in S : AtOrBefore(f, e)

\* p is the first n positions of the set S, or all of it when S is smaller
\* (ORDER BY id ASC LIMIT n).
IsFirstN(p, S, n) ==
    /\ p \subseteq S
    /\ Cardinality(p) <= n
    /\ Cardinality(p) < n => p = S
    /\ \A e \in p, f \in S : Before(f, e) => f \in p
=============================================================================
