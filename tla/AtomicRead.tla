----------------------------- MODULE AtomicRead -----------------------------
(***************************************************************************)
(* What a client that reads a contract's history through GET /events is    *)
(* promised, free of pages, cursors, queries and retries.  A table grows;  *)
(* a read is called, looks at the table, and ends.  When the table grows   *)
(* at its end and the read declares no floor (exact), the read returns the *)
(* whole table of one moment between its call and its end, or is cut short *)
(* and returns a beginning of it.  Otherwise it misses no event that the   *)
(* table held at the call, from some floor on, and declares that floor or  *)
(* none.                                                                   *)
(***************************************************************************)
EXTENDS ChainPositions

VARIABLES
    table,   \* the events of the contract that the read asks for
    exact,   \* the table grows at its end and the read declares no floor
    phase,   \* of the read: not called, open, or how it ended
    base,    \* table at the call
    seen,    \* table at the latest look
    result   \* what it returned, from which ledger on, and from which on it says

avars == <<table, exact, phase, base, seen, result>>

NoResult == [events |-> {}, from |-> 0, says |-> 0]

AInit ==
    /\ table = {}
    /\ exact \in BOOLEAN
    /\ phase = "idle"
    /\ base = {}
    /\ seen = {}
    /\ result = NoResult

Grow ==
    /\ table \subseteq table'
    /\ exact => \A e \in table' \ table, f \in table : Before(f, e)
    /\ UNCHANGED <<exact, phase, base, seen, result>>

Call ==
    /\ phase # "open"
    /\ phase' = "open"
    /\ base' = table
    /\ seen' = {}
    /\ result' = NoResult
    /\ UNCHANGED <<table, exact>>

Look ==
    /\ phase = "open"
    /\ seen' = table
    /\ UNCHANGED <<table, exact, phase, base, result>>

\* The read ends as how says; it holds nothing the table does not.
End(how) ==
    /\ phase = "open"
    /\ phase' = how
    /\ result'.events \subseteq table
    /\ result'.says \in {0, result'.from}
    /\ UNCHANGED <<table, exact, base, seen>>

Return ==
    /\ End("done")
    /\ \A e \in base : e.ledger >= result'.from => e \in result'.events
    /\ exact => result' = [events |-> seen, from |-> 0, says |-> 0]

\* What a read cut short lacks is newer than all it returned.
Cut ==
    /\ End("capped")
    /\ exact => \A e \in table \ result'.events, f \in result'.events : Before(f, e)

GiveUp ==
    /\ End("failed")
    /\ result' = NoResult

ANext == Grow \/ Call \/ Look \/ Return \/ Cut \/ GiveUp

ASpec == AInit /\ [][ANext]_avars
=============================================================================
