----------------------------- MODULE RaizIngest -----------------------------
(***************************************************************************)
(* The ingestor of Raiz Memory for one contract: the loop of               *)
(* raiz-memory/src/ingest.rs over the three tables of db.rs, with the      *)
(* first-run decision of backfill.rs and the RPC calls of rpc.rs.          *)
(*                                                                         *)
(* One step is one RPC round trip or one SQL statement, because the code   *)
(* awaits at each of them: the chain may close a ledger, the call may      *)
(* fail, and the process may stop between any two.  The events table is a  *)
(* set (INSERT OR IGNORE on the event id), the cursors row is cursor and   *)
(* lastLedger, the backfill_marks row is mark; what the tick holds in      *)
(* local variables is tick[t], lost when the tick ends or the process      *)
(* stops.  Tasks is the set of ingestor tasks main.rs spawned for this     *)
(* contract id: one, unless CONTRACT_IDS names the id twice.               *)
(***************************************************************************)
EXTENDS ChainPositions

CONSTANTS
    Tasks,            \* ingestor tasks spawned for this contract id
    StartSpecs,       \* the start specs an operator may configure
    Retention,        \* ledgers the RPC retains (120960 on testnet)
    ScanSpan,         \* ledgers one getEvents call scans (about 10000)
    PageLimit,        \* PAGE_LIMIT (100)
    EventsPerLedger,  \* bound: events of the contract in one ledger
    LastIndex,        \* event index of an end-of-scan cursor (4294967295)
    CursorStyle,      \* "toid": cursors decode to a ledger; "opaque": they
                      \* do not; "none": the RPC returns no cursor
    MaxClampRetries,  \* MAX_CLAMP_RETRIES (3)
    MaxLedger,        \* bound: ledgers the chain closes
    MaxFailures,      \* bound: failed calls and process restarts
    None

VARIABLES
    head,        \* latest closed ledger
    log,         \* positions of every event the contract has emitted
    events,      \* table events: positions stored
    cursor,      \* cursors.cursor, None when the row is absent
    lastLedger,  \* cursors.last_ledger, 0 when the row is absent
    mark,        \* table backfill_marks: the row, or None
    startSpec,   \* the start spec the running process was configured with
    tick,        \* the local variables of each task
    failures     \* failures and restarts so far, capped by MaxFailures

vars == <<head, log, events, cursor, lastLedger, mark, startSpec, tick, failures>>
database == <<events, cursor, lastLedger, mark>>
chain    == <<head, log>>

-----------------------------------------------------------------------------
(* Start specs and plans (backfill.rs)                                      *)

\* ledger is the explicit ledger of a "ledger" spec, None for the sentinels.
StartSpecType ==
    [mode : {"head", "oldest"}, ledger : {None}]
        \union [mode : {"ledger"}, ledger : Nat \ {0}]

PlanType ==
    [mode : {"head", "oldest", "ledger"}, requested : Nat \union {None},
     effective : Nat, rpcOldest : Nat, clamped : BOOLEAN, unreachable : Nat]

ASSUME ConstantsAssumption ==
    /\ StartSpecs \subseteq StartSpecType
    /\ Retention \in Nat \ {0}
    /\ ScanSpan \in Nat \ {0}
    /\ PageLimit \in Nat \ {0}
    /\ EventsPerLedger \in Nat
    /\ LastIndex \in Nat /\ LastIndex > EventsPerLedger
    /\ CursorStyle \in {"toid", "opaque", "none"}
    /\ MaxClampRetries \in Nat
    /\ MaxLedger \in Nat /\ MaxFailures \in Nat

ASSUME NoneAssumption ==
    /\ None \notin Position
    /\ None \notin Nat
    /\ None \notin PlanType

\* Only an explicit ledger older than the window is raised to its floor;
\* requested, clamped and unreachable say what was asked and what was lost.
Clamps(s, oldest) == s.mode = "ledger" /\ s.ledger < oldest

EffectiveStart(s, oldest, latest) ==
    IF s.mode = "head" THEN latest
    ELSE IF s.mode = "oldest" \/ Clamps(s, oldest) THEN oldest ELSE s.ledger

Plan(s, oldest, latest) ==
    [mode |-> s.mode, requested |-> s.ledger,
     effective |-> EffectiveStart(s, oldest, latest), rpcOldest |-> oldest,
     clamped |-> Clamps(s, oldest),
     unreachable |-> IF Clamps(s, oldest) THEN oldest - s.ledger ELSE 0]

Predates(m, oldest) == m.requested # None /\ m.requested < oldest

\* Mutant: the counts of the first clamp are kept when the floor moves on.
ReclampedKeepingCounts(m, oldest) ==
    [m EXCEPT !.effective = oldest, !.rpcOldest = oldest]

\* The UPDATE of reclamp_backfill_mark.
Reclamped(m, oldest) ==
    [mode |-> m.mode, requested |-> m.requested,
     effective |-> oldest, rpcOldest |-> oldest,
     clamped |-> Predates(m, oldest) \/ m.clamped,
     unreachable |-> IF Predates(m, oldest) THEN oldest - m.requested
                     ELSE m.unreachable]

-----------------------------------------------------------------------------
(* The RPC node, external: a window of Retention ledgers below the head.    *)

Oldest == IF head > Retention THEN head - Retention + 1 ELSE 1

EndOf(l) == [ledger |-> l, index |-> LastIndex]

CloseLedger(n) ==
    /\ head < MaxLedger
    /\ head' = head + 1
    /\ log' = log \union [ledger : {head + 1}, index : 1..n]
    /\ UNCHANGED <<database, startSpec, tick, failures>>

\* What a getEvents call of task t asks for: the cursor when it has one, else
\* its start ledger.
From(t) == IF tick[t].cur = None THEN tick[t].start ELSE tick[t].cur.ledger
InRange(t) == Oldest <= From(t) /\ From(t) <= head
ScanEnd(t) ==
    IF From(t) + ScanSpan - 1 < head THEN From(t) + ScanSpan - 1 ELSE head

Matching(t) ==
    {e \in log : /\ From(t) <= e.ledger
                 /\ e.ledger <= ScanEnd(t)
                 /\ tick[t].cur # None => Before(tick[t].cur, e)}

\* p is the page of task t: the first PageLimit matching events.
Full(p) == Cardinality(p) = PageLimit
IsPage(p, t) ==
    /\ Cardinality(p) <= PageLimit
    /\ ~Full(p) => p = Matching(t)
    /\ \A e \in p, f \in Matching(t) : Before(f, e) => f \in p

\* A full page's cursor is its last event; otherwise it is the end of the
\* scan, returned even when no event matched.
IsNext(c, p, t) ==
    IF CursorStyle = "none" THEN c = None
    ELSE IF Full(p) THEN IsLast(c, p) ELSE c = EndOf(ScanEnd(t))

\* The ledger of the page's last event, 0 of an empty page.
IsLastLedger(l, p) ==
    IF p = {} THEN l = 0 ELSE \E e \in p : IsLast(e, p) /\ l = e.ledger

-----------------------------------------------------------------------------
(* One tick of the loop (ingest.rs)                                         *)

IdleTick ==
    [pc |-> "idle", start |-> 0, cur |-> None, retries |-> 0, plan |-> None,
     todo |-> {}, full |-> FALSE, last |-> 0, next |-> None, latest |-> 0]

Init ==
    /\ head = 1
    /\ log = {}
    /\ events = {}
    /\ cursor = None
    /\ lastLedger = 0
    /\ mark = None
    /\ startSpec \in StartSpecs
    /\ tick = [t \in Tasks |-> IdleTick]
    /\ failures = 0

\* Mutant: every tick takes the first-run path.
AlwaysFirstRun == TRUE

FirstRun == cursor = None /\ lastLedger = 0

\* Mutant: a tick resumes by ledger, forgetting the stored cursor.
ResumeByLedger == None

ResumeCursor == cursor

\* The poll timer fires: db::get_cursor, and the choice of where to start.
StartTick(t) ==
    /\ tick[t].pc = "idle"
    /\ tick' = [tick EXCEPT ![t] =
                  [IdleTick EXCEPT !.pc = IF FirstRun THEN "resolve" ELSE "fetch",
                                   !.cur = ResumeCursor,
                                   !.start = lastLedger]]
    /\ UNCHANGED <<chain, database, startSpec, failures>>

\* backfill::resolve: one answer of the RPC fixes floor and head, that of getHealth
\* or, when it carries no range, that of the getEvents call ledger_range tries next.
Resolve(t) ==
    /\ tick[t].pc = "resolve"
    /\ tick' = [tick EXCEPT ![t] =
                  [@ EXCEPT !.pc = "mark", !.plan = Plan(startSpec, Oldest, head)]]
    /\ UNCHANGED <<chain, database, startSpec, failures>>

\* db::record_backfill_mark, an upsert.
RecordMark(t) ==
    /\ tick[t].pc = "mark"
    /\ mark' = tick[t].plan
    /\ tick' = [tick EXCEPT ![t] =
                  [@ EXCEPT !.pc = "fetch", !.start = tick[t].plan.effective,
                            !.plan = None]]
    /\ UNCHANGED <<chain, events, cursor, lastLedger, startSpec, failures>>

\* get_events answers a page.
FetchPage(t) ==
    /\ tick[t].pc = "fetch"
    /\ InRange(t)
    /\ \E p \in SUBSET Matching(t) :
       \E c \in p \union {EndOf(ScanEnd(t)), None}, l \in 0..head :
            /\ IsPage(p, t)
            /\ IsNext(c, p, t)
            /\ IsLastLedger(l, p)
            /\ tick' = [tick EXCEPT ![t] =
                          [@ EXCEPT !.pc = "insert", !.todo = p, !.full = Full(p),
                                    !.last = l, !.next = c, !.latest = head]]
    /\ UNCHANGED <<chain, database, startSpec, failures>>

\* Mutant: run returns on an error instead of backing off and polling again.
AfterErrorReturn == [IdleTick EXCEPT !.pc = "stopped"]

\* run catches the error of a tick, sleeps, and polls again.
AfterError == IdleTick

MayReclamp(t) == tick[t].cur = None /\ tick[t].retries < MaxClampRetries

\* get_events is refused with the ledger range: start over from its floor, but
\* only while starting by ledger and for MaxClampRetries times.
FetchOutOfRange(t) ==
    /\ tick[t].pc = "fetch"
    /\ ~InRange(t)
    /\ tick' = [tick EXCEPT ![t] =
                  IF MayReclamp(t)
                  THEN [@ EXCEPT !.pc = "reclamp", !.start = Oldest,
                                 !.retries = tick[t].retries + 1]
                  ELSE AfterError]
    /\ UNCHANGED <<chain, database, startSpec, failures>>

\* db::reclamp_backfill_mark.
Reclamp(t) ==
    /\ tick[t].pc = "reclamp"
    /\ mark' = Reclamped(mark, tick[t].start)
    /\ tick' = [tick EXCEPT ![t] = [@ EXCEPT !.pc = "fetch"]]
    /\ UNCHANGED <<chain, events, cursor, lastLedger, startSpec, failures>>

\* Mutant: the events of a page are inserted from the last one.
InsertLastFirst(t) ==
    /\ tick[t].pc = "insert"
    /\ \E e \in tick[t].todo :
         /\ IsLast(e, tick[t].todo)
         /\ events' = events \union {e}
         /\ tick' = [tick EXCEPT ![t] = [@ EXCEPT !.todo = tick[t].todo \ {e}]]
    /\ UNCHANGED <<chain, cursor, lastLedger, mark, startSpec, failures>>

\* db::insert_event, in page order.
InsertEvent(t) ==
    /\ tick[t].pc = "insert"
    /\ \E e \in tick[t].todo :
         /\ IsFirst(e, tick[t].todo)
         /\ events' = events \union {e}
         /\ tick' = [tick EXCEPT ![t] = [@ EXCEPT !.todo = tick[t].todo \ {e}]]
    /\ UNCHANGED <<chain, cursor, lastLedger, mark, startSpec, failures>>

\* Mutant: the cursor is written as soon as the page arrives.
PageStoredEarly(t) == TRUE

PageStored(t) == tick[t].todo = {}

Decodes(t) == CursorStyle = "toid" /\ tick[t].next # None

\* Mutant: the chain head is reported as the scanned position.
ScannedHead(t) == tick[t].latest

\* Mutant: an empty page is taken to have scanned nothing.
LastEventLedger(t) == tick[t].last

\* How far the page scanned: the cursor's ledger, else the last event's.
ScannedThrough(t) == IF Decodes(t) THEN tick[t].next.ledger ELSE tick[t].last

CaughtUp(t) ==
    IF Decodes(t) THEN tick[t].next.ledger >= tick[t].latest
    ELSE ~tick[t].full

\* db::set_cursor once the page is stored, then: poll again or next page.
FinishPage(t) ==
    /\ tick[t].pc = "insert"
    /\ PageStored(t)
    /\ IF tick[t].next = None THEN UNCHANGED <<cursor, lastLedger>>
       ELSE /\ cursor' = tick[t].next
            /\ lastLedger' = IF ScannedThrough(t) > 1 THEN ScannedThrough(t) ELSE 1
    /\ tick' = [tick EXCEPT ![t] =
                  IF CaughtUp(t) \/ tick[t].next = tick[t].cur THEN IdleTick
                  ELSE [@ EXCEPT !.pc = "fetch", !.cur = tick[t].next,
                                 !.todo = {}, !.full = FALSE, !.last = 0,
                                 !.next = None, !.latest = 0]]
    /\ UNCHANGED <<chain, events, mark, startSpec, failures>>

\* A call or a statement of the tick fails.
TickFails(t) ==
    /\ tick[t].pc \notin {"idle", "stopped"}
    /\ failures < MaxFailures
    /\ failures' = failures + 1
    /\ tick' = [tick EXCEPT ![t] = AfterError]
    /\ UNCHANGED <<chain, database, startSpec>>

\* The process stops anywhere and is started again, perhaps reconfigured.
Restart ==
    /\ failures < MaxFailures
    /\ failures' = failures + 1
    /\ startSpec' \in StartSpecs
    /\ tick' = [t \in Tasks |-> IdleTick]
    /\ UNCHANGED <<chain, database>>

\* What the RPC answers, and what the process does by itself.
Answered(t) == Resolve(t) \/ FetchPage(t) \/ FetchOutOfRange(t)
OwnStep(t) ==
    StartTick(t) \/ RecordMark(t) \/ Reclamp(t) \/ InsertEvent(t) \/ FinishPage(t)

TickStep(t) == Answered(t) \/ OwnStep(t)

Next ==
    \/ \E n \in 0..EventsPerLedger : CloseLedger(n)
    \/ \E t \in Tasks : TickStep(t) \/ TickFails(t)
    \/ Restart

Spec == Init /\ [][Next]_vars

\* tokio keeps polling every task that is ready, and run never returns.  A task that
\* waits for the RPC is not ready until an answer comes, and nothing obliges one to:
\* the HTTP client has no timeout.
FairSpec == Spec /\ \A t \in Tasks : WF_vars(OwnStep(t))

-----------------------------------------------------------------------------
(* Properties                                                               *)

TickType ==
    [pc : {"idle", "resolve", "mark", "fetch", "reclamp", "insert"},
     start : Nat, cur : Position \union {None}, retries : Nat,
     plan : PlanType \union {None}, todo : SUBSET Position,
     full : BOOLEAN, last : Nat, next : Position \union {None}, latest : Nat]

\* Types of the tables, the chain and the local variables of a tick.
TypeOK ==
    /\ head \in Nat \ {0}
    /\ log \subseteq Position
    /\ events \subseteq log
    /\ cursor \in Position \union {None}
    /\ lastLedger \in Nat
    /\ mark \in PlanType \union {None}
    /\ startSpec \in StartSpecs
    /\ tick \in [Tasks -> TickType]
    /\ failures \in Nat

\* No silent hole: every event the contract emitted from the ledger history is
\* said to begin at up to the stored cursor is in the events table, whatever
\* was pruned, refused, retried or interrupted meanwhile.
HeldThroughCursor ==
    cursor # None =>
        \A e \in log :
            e.ledger >= mark.effective /\ AtOrBefore(e, cursor) => e \in events

\* The coverage report is a lower bound in whole ledgers: every event in a
\* ledger below scannedThroughLedger and not before historyBeginsAtLedger is
\* stored.
ScannedLedgersHeld ==
    cursor # None =>
        \A e \in log :
            mark.effective <= e.ledger /\ e.ledger < lastLedger => e \in events

\* The backfill object adds up: clamped says the history begins later than
\* requested, and unreachable is exactly how much later.
HonestClamp ==
    mark # None =>
        /\ mark.clamped <=> (mark.requested # None /\ mark.requested < mark.effective)
        /\ mark.unreachable =
             IF mark.clamped THEN mark.effective - mark.requested ELSE 0

\* Once a cursor is stored the backfill mark is frozen, across restarts and
\* new configurations.
MarkFrozen == [][cursor # None => mark' = mark]_vars

\* A stored cursor only moves forward, across restarts and retries.
CursorOnlyAdvances ==
    [][cursor # None => cursor' # None /\ AtOrBefore(cursor, cursor')]_vars

\* The scanned position that /coverage reports never recedes.
ScannedNeverRecedes == [][lastLedger' >= lastLedger]_vars

\* While the start spec is not reconfigured, the table only grows at its end,
\* through interrupted pages, retries and re-clamps: what a reader that follows
\* event ids relies on (EventsPaging, AppendOnly).
StoresInOrder ==
    [][\A e \in events' \ events, f \in events : Before(f, e)]_vars

\* The stored cursor has fallen behind the RPC's window: the RPC refuses it,
\* and nothing moves it.
Stranded == cursor # None /\ cursor.ledger < Oldest

\* Some task is not waiting for the RPC.
NotAllWaiting == \E t \in Tasks : tick[t].pc \notin {"resolve", "fetch"}

\* Every event the contract emits at or after the beginning of its history is
\* eventually stored, unless the cursor is left behind by the RPC's window;
\* and a contract gets a cursor.  That is so as long as no request waits for ever:
\* each is answered or breaks off in the end, which the code leaves to the RPC.
EventuallyCovered ==
    []<>NotAllWaiting =>
    /\ <>(cursor # None)
    /\ \A p \in [ledger : 1..MaxLedger, index : 1..EventsPerLedger] :
          (p \in log /\ cursor # None /\ p.ledger >= mark.effective)
              ~> (p \in events \/ Stranded)

\* The ingestor implements the index it promises to be.
Durable == INSTANCE DurableIndex WITH
    held <- events,
    begins <- IF mark = None THEN None ELSE mark.effective,
    upto <- cursor
DurableSpec == Durable!DSpec

-----------------------------------------------------------------------------
(* Statements of the repository that the code does not keep                 *)

\* "the index can never overstate how much history it holds"
\* (backfill.rs:156): what is reported as scanned through is held.
NeverOverstates ==
    cursor # None =>
        \A e \in log :
            mark.effective <= e.ledger /\ e.ledger <= lastLedger => e \in events
=============================================================================
