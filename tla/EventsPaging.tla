---------------------------- MODULE EventsPaging ----------------------------
(***************************************************************************)
(* A client reads the history of one contract through GET /events while    *)
(* the ingestor keeps storing.  The server answers one page per request,   *)
(* with two or three SQL queries that other statements interleave with     *)
(* (raiz-memory main.rs events, db.rs events and latest_ledger); the       *)
(* client follows the cursor (EventsClient.allEvents in the wallet,        *)
(* fetchEventsFromUrl in the prover page).                                 *)
(*                                                                         *)
(* The page is a set of positions: ORDER BY id makes its order that of     *)
(* Before.  atStart and atRows are history variables: the table when the   *)
(* read began and when the rows of its latest page were selected; so is    *)
(* the field forgot of read: the highest floor a page of it was selected   *)
(* under, of which the client sees only the last one.                      *)
(***************************************************************************)
EXTENDS ChainPositions

CONSTANTS
    Clients,          \* the clients, each with the request it makes
    MaxLedger,        \* bound: ledgers with events
    EventsPerLedger   \* bound: events of the contract in one ledger

ASSUME PagingAssumption ==
    /\ Clients \subseteq
          [pageSize : Nat \ {0}, maxPages : Nat \ {0}, atCap : {"capped", "failed"},
           attempts : Nat \ {0}, startLedger : Nat, window : Nat,
           appendOnly : BOOLEAN]
    /\ MaxLedger \in Nat /\ EventsPerLedger \in Nat

VARIABLES
    stored,   \* rows of the contract in table events
    others,   \* MAX(ledger) over the rows of the other contracts
    read,     \* local variables of the client's loop
    req,      \* local variables of the request the server is answering
    atStart,  \* stored when the read began
    atRows,   \* stored when the latest page was selected
    client    \* the client, chosen once

vars == <<stored, others, read, req, atStart, atRows, client>>

\* Rows per request (200), at least 1, at most 1000.
PageSize == client.pageSize

\* Pages one read follows, 25 in the wallet and 501 in the prover page, and what
\* becomes of the read then: the wallet returns what it has, the page throws.
MaxPages == client.maxPages
AtCap == client.atCap

\* Tries per request: 3 in the wallet, 1 in the page.
Attempts == client.attempts

\* startLedger of the first request.
StartLedger == client.startLedger

\* RETENTION_SIMULATION_LEDGERS when the request opts into the purge demo, or 0.
Window == client.window

\* The ingestor only stores after what it has stored (StoresInOrder).
AppendOnly == client.appendOnly

NoCursor == [ledger |-> 0, index |-> 0]

\* latest_ledger: MAX(ledger) over every contract, 0 of an empty table.
LatestLedger(l) ==
    /\ \A e \in stored : e.ledger <= l
    /\ others <= l
    /\ l = others \/ \E e \in stored : e.ledger = l

IdleRead ==
    [pc |-> "idle", cursor |-> NoCursor, pages |-> 0, tries |-> 0,
     got |-> {}, latest |-> 0, oldest |-> 0, forgot |-> 0]

NoRequest == [pc |-> "none", floor |-> 0, page |-> {}, latest |-> 0]

Init ==
    /\ stored = {}
    /\ others = 0
    /\ read = IdleRead
    /\ req = NoRequest
    /\ atStart = {}
    /\ atRows = {}
    /\ client \in Clients

-----------------------------------------------------------------------------
(* The ingestor                                                             *)

\* insert_event for this contract.
Store ==
    /\ \E e \in [ledger : 1..MaxLedger, index : 1..EventsPerLedger] :
          /\ e \notin stored
          /\ AppendOnly => \A f \in stored : Before(f, e)
          /\ stored' = stored \union {e}
    /\ UNCHANGED <<others, read, req, atStart, atRows, client>>

\* insert_event for another contract.
StoreOther ==
    /\ others < MaxLedger
    /\ others' = others + 1
    /\ UNCHANGED <<stored, read, req, atStart, atRows, client>>

-----------------------------------------------------------------------------
(* The server: one request, query by query                                  *)

\* Purge demo: latest_ledger fixes the floor of this request; when that query
\* fails its answer counts as 0, and the request goes on without a floor.
ReadFloor ==
    /\ req.pc = "floor"
    /\ \E l \in 0..MaxLedger :
          /\ LatestLedger(l) \/ l = 0
          /\ req' = [req EXCEPT !.pc = "rows",
                        !.floor = IF l - Window + 1 > 0 THEN l - Window + 1 ELSE 0]
    /\ UNCHANGED <<stored, others, read, atStart, atRows, client>>

\* Mutant: the cursor is compared by its ledger.
AfterCursorLedger(e, c) == e.ledger > c.ledger

\* Mutant: id >= cursor.
FromCursor(e, c) == AtOrBefore(c, e)

\* id > cursor.
AfterCursor(e, c) == Before(c, e)

\* The WHERE clause of the rows: startLedger counts only without a cursor.
Selected(e) ==
    /\ e.ledger >= req.floor
    /\ IF read.cursor = NoCursor THEN e.ledger >= StartLedger
       ELSE AfterCursor(e, read.cursor)

ReadRows ==
    /\ req.pc = "rows"
    /\ \E p \in SUBSET stored :
          /\ IsFirstN(p, {e \in stored : Selected(e)}, PageSize)
          /\ req' = [req EXCEPT !.pc = "latest", !.page = p]
    /\ atRows' = stored
    /\ UNCHANGED <<stored, others, read, atStart, client>>

ReadLatest ==
    /\ req.pc = "latest"
    /\ \E l \in 0..MaxLedger :
          /\ LatestLedger(l)
          /\ req' = [req EXCEPT !.pc = "reply", !.latest = l]
    /\ UNCHANGED <<stored, others, read, atStart, atRows, client>>

-----------------------------------------------------------------------------
(* The client                                                               *)

Ended == {"done", "capped", "failed"}

\* allEvents is called: the first request has no cursor.
Begin ==
    /\ read.pc \in {"idle"} \union Ended
    /\ read' = [IdleRead EXCEPT !.pc = "ask"]
    /\ req' = NoRequest
    /\ atStart' = stored
    /\ atRows' = {}
    /\ UNCHANGED <<stored, others, client>>

\* Mutant: every try counts as the first.
FirstTry == 1

NextTry == read.tries + 1

Ask ==
    /\ read.pc = "ask"
    /\ read' = [read EXCEPT !.pc = "wait", !.tries = NextTry]
    /\ req' = [NoRequest EXCEPT !.pc = IF Window > 0 THEN "floor" ELSE "rows"]
    /\ UNCHANGED <<stored, others, atStart, atRows, client>>

\* Mutant: a full page is taken for the last one.
ExhaustedEarly == Cardinality(req.page) <= PageSize

\* A page shorter than asked for ends the read.
Exhausted == Cardinality(req.page) < PageSize

Capped == read.pages + 1 = MaxPages

\* Mutant: the latest ledger of the first page is kept.
FirstLatest == IF read.pages = 0 THEN req.latest ELSE read.latest

ReplyLatest == req.latest

\* The highest floor of the pages so far.
Forgotten == IF req.floor > read.forgot THEN req.floor ELSE read.forgot

\* A page arrives: keep its events, and end or ask for the next one.
Accept ==
    /\ read.pc = "wait"
    /\ req.pc = "reply"
    /\ \E c \in req.page \union {read.cursor} :
          /\ IF req.page = {} THEN c = read.cursor ELSE IsLast(c, req.page)
          /\ read' =
               [pc |-> IF Exhausted THEN "done" ELSE IF Capped THEN AtCap ELSE "ask",
                cursor |-> c, pages |-> read.pages + 1, tries |-> 0,
                got |-> read.got \union req.page,
                latest |-> ReplyLatest, oldest |-> req.floor,
                forgot |-> Forgotten]
    /\ req' = NoRequest
    /\ UNCHANGED <<stored, others, atStart, atRows, client>>

MayRetry == read.tries < Attempts

\* A try fails in transport or with a 5xx or 429, before or after the server
\* has run any of its queries: it is sent again while tries are left.
TryFails ==
    /\ read.pc = "wait"
    /\ read' = [read EXCEPT !.pc = IF MayRetry THEN "ask" ELSE "failed",
                            !.tries = IF MayRetry THEN read.tries ELSE 0]
    /\ req' = NoRequest
    /\ UNCHANGED <<stored, others, atStart, atRows, client>>

\* Another 4xx, or a body that says error, is final.
Refused ==
    /\ read.pc = "wait"
    /\ read' = [read EXCEPT !.pc = "failed", !.tries = 0]
    /\ req' = NoRequest
    /\ UNCHANGED <<stored, others, atStart, atRows, client>>

Serve == ReadFloor \/ ReadRows \/ ReadLatest
Follow == Ask \/ Accept

Next == Store \/ StoreOther \/ Serve \/ Begin \/ Follow \/ TryFails \/ Refused

Spec == Init /\ [][Next]_vars

\* The server answers and the client's coroutine goes on; nothing obliges a
\* read to begin, an event to arrive, or a request to succeed.
FairSpec == Spec /\ WF_vars(Serve) /\ WF_vars(Follow)

-----------------------------------------------------------------------------
(* Properties                                                               *)

\* Types of the table, the client's and the server's local variables; no read
\* follows more pages, and no request is tried more often, than its bound.
TypeOK ==
    /\ stored \subseteq Position
    /\ others \in Nat
    /\ read \in [pc : {"idle", "ask", "wait"} \union Ended,
                 cursor : Position, pages : 0..MaxPages, tries : 0..Attempts,
                 got : SUBSET Position, latest : Nat, oldest : Nat,
                 forgot : Nat]
    /\ req \in [pc : {"none", "floor", "rows", "latest", "reply"},
                floor : Nat, page : SUBSET Position, latest : Nat]
    /\ atStart \subseteq stored
    /\ atRows \subseteq stored
    /\ client \in Clients

Wanted(S) == {e \in S : e.ledger >= StartLedger}

\* A read that ends normally misses nothing but what the purge demo hid: every
\* event the index held when the read began, from startLedger and the highest
\* floor of its pages on, is in it, and it holds nothing the index does not,
\* whatever was stored, retried or refused between its pages.  The floor it
\* declares, that of its last page, is that highest one or 0: the client is told
\* all that was hidden unless the floor query of the last page failed.
NothingLost ==
    read.pc = "done" =>
        /\ {e \in Wanted(atStart) : e.ledger >= read.forgot} \subseteq read.got
        /\ read.got \subseteq Wanted(stored)
        /\ read.oldest \in {0, read.forgot}

\* When the index grows at its end and no floor is declared, a read of many pages
\* is worth one atomic read: it returns exactly the table at the moment its last
\* page was selected.
SnapshotRead ==
    AppendOnly /\ Window = 0 /\ read.pc = "done" => read.got = Wanted(atRows)

\* Under the same condition a read cut short by the page cap returns a prefix:
\* what is missing is newer than everything returned.
CutAtTheEnd ==
    AppendOnly /\ Window = 0 /\ read.pc = "capped" =>
        \A e \in Wanted(stored) \ read.got : \A f \in read.got : Before(f, e)

\* What the read has returned, from which ledger on, and from which on it says.
Answer ==
    [events |-> IF read.pc \in {"done", "capped"} THEN read.got ELSE {},
     from   |-> IF read.pc \in {"done", "capped"} THEN read.forgot ELSE 0,
     says   |-> IF read.pc \in {"done", "capped"} THEN read.oldest ELSE 0]

OneRead ==
    INSTANCE AtomicRead WITH
        table  <- Wanted(stored),
        exact  <- AppendOnly /\ Window = 0,
        phase  <- IF read.pc \in {"ask", "wait"} THEN "open" ELSE read.pc,
        base   <- Wanted(atStart),
        seen   <- Wanted(atRows),
        result <- Answer

\* Seen from outside a read of many pages, each of several queries, with its
\* retries and refusals, is one look at the table between its call and its end,
\* or ends short of its newest part, or returns nothing.
ReadsAtomically == OneRead!ASpec

\* Pages come in order and do not overlap.
PagesAscend ==
    read.pc = "wait" /\ req.pc = "reply" =>
        \A e \in req.page, f \in read.got : Before(f, e)

\* latestLedger of a read is never older than an event of the read: the rows
\* are selected before the MAX.
LatestCovers ==
    read.pc \in {"done", "capped"} => \A e \in read.got : e.ledger <= read.latest

\* Every read that begins ends, however many requests fail and however fast
\* the index grows.
ReadReturns == read.pc = "ask" ~> read.pc \in Ended
=============================================================================
