---------------------------- MODULE DurableIndex ----------------------------
(***************************************************************************)
(* What Raiz Memory promises of one contract, free of polls, pages, clamps *)
(* and crashes.  The chain emits events; the index stores some of them,    *)
(* declares where its history begins, and covers a growing prefix of the   *)
(* stream.  Three promises are in the actions' guards: an event that was   *)
(* stored is never dropped, the beginning is never moved once something is *)
(* covered, and a position is covered only when every event from the       *)
(* beginning up to it is stored.                                           *)
(***************************************************************************)
EXTENDS ChainPositions

CONSTANT None

VARIABLES
    log,      \* every event the contract has emitted
    held,     \* the events the index stores
    begins,   \* the ledger its history begins at, or None
    upto      \* the position it covers, or None

dvars == <<log, held, begins, upto>>

Complete(b, q) ==
    \A e \in log : e.ledger >= b /\ AtOrBefore(e, q) => e \in held

DInit ==
    /\ log = {}
    /\ held = {}
    /\ begins = None
    /\ upto = None

\* The chain only emits events after the positions that were covered.
Emit ==
    /\ log \subseteq log'
    /\ upto # None => \A e \in log' \ log : Before(upto, e)
    /\ UNCHANGED <<held, begins, upto>>

Store ==
    /\ \E e \in log : held' = held \union {e}
    /\ UNCHANGED <<log, begins, upto>>

Begin ==
    /\ upto = None
    /\ begins' # None
    /\ UNCHANGED <<log, held, upto>>

Cover ==
    /\ begins # None
    /\ upto' # None
    /\ upto # None => Before(upto, upto')
    /\ Complete(begins, upto')
    /\ UNCHANGED <<log, held, begins>>

DNext == Emit \/ Store \/ Begin \/ Cover

DSpec == DInit /\ [][DNext]_dvars
=============================================================================
