--------------------------- MODULE MemoryService ---------------------------
(***************************************************************************)
(* Raiz Memory as it runs: one process holds the ingestor of a contract    *)
(* and the server that answers GET /events, over one SQLite pool           *)
(* (raiz-memory/src/main.rs).  RaizIngest and EventsPaging share the table *)
(* events and nothing else; what RaizIngest stores is what EventsPaging    *)
(* calls stored.  When the process stops, ticks and requests stop with it. *)
(***************************************************************************)
EXTENDS RaizIngest

CONSTANT Clients

VARIABLES others, read, req, atStart, atRows, client

Reader == INSTANCE EventsPaging WITH stored <- events

readVars == <<others, read, req, atStart, atRows, client>>

ServiceInit == Init /\ Reader!Init

\* The chain and the ingestor go on: no request sees it but through the table.
Ingest ==
    /\ \/ \E n \in 0..EventsPerLedger : CloseLedger(n)
       \/ \E t \in Tasks : TickStep(t) \/ TickFails(t)
    /\ UNCHANGED readVars

\* The server answers, the client follows, another contract is stored.
Read ==
    /\ \/ Reader!StoreOther \/ Reader!Serve \/ Reader!Begin
       \/ Reader!Follow \/ Reader!TryFails \/ Reader!Refused
    /\ UNCHANGED vars

\* The process stops and is started again: the request it was answering fails.
Stop ==
    /\ Restart
    /\ IF read.pc = "wait" THEN Reader!TryFails ELSE UNCHANGED readVars

ServiceNext == Ingest \/ Read \/ Stop

ServiceSpec == ServiceInit /\ [][ServiceNext]_<<vars, readVars>>

-----------------------------------------------------------------------------
(* Property                                                                 *)

\* The table that a client pages through behaves as EventsPaging assumes of it,
\* whatever the ingestor goes through: all that is proved of a paged read there
\* (PagingIsOneRead) is proved of a client of the running service.
Pages == Reader!Spec
=============================================================================
