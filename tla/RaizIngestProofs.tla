-------------------------- MODULE RaizIngestProofs --------------------------
(***************************************************************************)
(* Proofs about RaizIngest, for every retention window, scan span, page    *)
(* size, chain and failure bound.                                          *)
(*                                                                         *)
(* TypeInv is inductive for any number of ingestor tasks.  The safety      *)
(* properties need that one task writes the rows of the contract           *)
(* (SingleTask): a second one drags the stored cursor back.                *)
(*                                                                         *)
(* The last section puts the reader beside the ingestor (MemoryService).   *)
(***************************************************************************)
EXTENDS MemoryService, TLAPS

\* What a tick may rely on at each of its steps, types apart.
LocalsOK(t) ==
    /\ tick[t].pc = "mark" => tick[t].plan # None
    /\ tick[t].pc \in {"fetch", "reclamp", "insert"} => mark # None
    /\ tick[t].todo \subseteq log

TypeInv ==
    /\ TypeOK
    /\ cursor = None => lastLedger = 0
    /\ cursor # None => mark # None
    /\ \A t \in Tasks : LocalsOK(t)

SingleTask == \A t, u \in Tasks : t = u

-----------------------------------------------------------------------------

\* The RPC window has a first ledger.
LEMMA OldestType ==
    ASSUME TypeOK
    PROVE  Oldest \in Nat \ {0} /\ Oldest <= head
BY ConstantsAssumption DEF TypeOK, Oldest

\* resolve yields a plan.
LEMMA PlanTyped ==
    ASSUME TypeOK
    PROVE  Plan(startSpec, Oldest, head) \in PlanType
<1>1. startSpec \in StartSpecType
  BY ConstantsAssumption DEF TypeOK
<1>2. Oldest \in Nat /\ head \in Nat
  BY OldestType DEF TypeOK
<1>3. CASE startSpec.mode = "ledger"
  <2>1. startSpec.ledger \in Nat
    BY <1>1, <1>3 DEF StartSpecType
  <2> QED BY <1>1, <1>2, <1>3, <2>1 DEF Plan, PlanType, EffectiveStart, Clamps, StartSpecType
<1>4. CASE startSpec.mode # "ledger"
  BY <1>1, <1>2, <1>4 DEF Plan, PlanType, EffectiveStart, Clamps, StartSpecType
<1> QED BY <1>3, <1>4

\* So does a re-clamp.
LEMMA ReclampedTyped ==
    ASSUME NEW m \in PlanType, NEW oldest \in Nat
    PROVE  Reclamped(m, oldest) \in PlanType
<1>1. Predates(m, oldest) => oldest - m.requested \in Nat
  BY DEF Predates, PlanType
<1>2. (Predates(m, oldest) \/ m.clamped) \in BOOLEAN
  OBVIOUS
<1> QED BY <1>1, <1>2 DEF Reclamped, PlanType

\* A page ends at a position.
LEMMA EndOfTyped ==
    ASSUME NEW l \in Nat
    PROVE  EndOf(l) \in Position
BY ConstantsAssumption DEF EndOf, Position

\* So does a scan.
LEMMA ScanEndTyped ==
    ASSUME TypeOK, NEW t \in Tasks, InRange(t)
    PROVE  /\ From(t) \in Nat
           /\ ScanEnd(t) \in Nat
           /\ From(t) <= ScanEnd(t)
           /\ ScanEnd(t) <= head
<1>1. From(t) \in Nat
  BY DEF TypeOK, TickType, From, Position
<1>2. head \in Nat /\ From(t) <= head
  BY OldestType DEF TypeOK, InRange
<1> QED BY <1>1, <1>2, ConstantsAssumption DEF ScanEnd

\* A step replaces the locals of one task by r; the others keep what they
\* rely on, because no step drops an event of the log or deletes the mark.
LEMMA LocalsUpdate ==
    ASSUME TypeInv, NEW t \in Tasks, NEW r \in TickType,
           tick' = [tick EXCEPT ![t] = r],
           log \subseteq log',
           mark # None => mark' # None,
           r.pc = "mark" => r.plan # None,
           r.pc \in {"fetch", "reclamp", "insert"} => mark' # None,
           r.todo \subseteq log'
    PROVE  /\ tick' \in [Tasks -> TickType]
           /\ \A u \in Tasks : LocalsOK(u)'
<1>1. tick \in [Tasks -> TickType]
  BY DEF TypeInv, TypeOK
<1>2. tick' \in [Tasks -> TickType] /\ tick'[t] = r
  BY <1>1
<1>3. LocalsOK(t)'
  BY <1>2 DEF LocalsOK
<1>4. ASSUME NEW u \in Tasks, u # t
      PROVE  LocalsOK(u)'
  <2>1. tick'[u] = tick[u]
    BY <1>1, <1>4
  <2>2. LocalsOK(u)
    BY DEF TypeInv
  <2> QED BY <2>1, <2>2 DEF LocalsOK
<1> QED BY <1>2, <1>3, <1>4

\* TypeInv is inductive, whatever the number of tasks.
LEMMA TypeInductive == TypeInv /\ [Next]_vars => TypeInv'
<1> SUFFICES ASSUME TypeInv, [Next]_vars
             PROVE  TypeInv'
  OBVIOUS
<1>0. /\ TypeOK
      /\ cursor = None => lastLedger = 0
      /\ cursor # None => mark # None
      /\ \A t \in Tasks : LocalsOK(t) /\ tick[t] \in TickType
      /\ Oldest \in Nat
  BY OldestType DEF TypeInv, TypeOK
<1>1. ASSUME NEW n \in 0..EventsPerLedger, CloseLedger(n)
      PROVE  TypeInv'
  <2>1. [ledger : {head + 1}, index : 1..n] \subseteq Position
    BY <1>0 DEF TypeOK, Position
  <2> QED BY <1>0, <1>1, <2>1 DEF CloseLedger, database, TypeOK, LocalsOK, TypeInv
<1>2. ASSUME NEW t \in Tasks, StartTick(t)
      PROVE  TypeInv'
  <2> DEFINE r == [IdleTick EXCEPT !.pc = IF FirstRun THEN "resolve" ELSE "fetch",
                                   !.cur = ResumeCursor, !.start = lastLedger]
  <2>1. r \in TickType /\ r.todo = {} /\ r.cur = cursor
        /\ r.pc = IF FirstRun THEN "resolve" ELSE "fetch"
    BY <1>0 DEF TypeOK, TickType, IdleTick, ResumeCursor
  <2>2. r.pc = "fetch" => cursor # None
    BY <1>0, <2>1 DEF FirstRun
  <2>3. UNCHANGED <<chain, database, startSpec, failures>>
        /\ tick' = [tick EXCEPT ![t] = r]
    BY <1>2 DEF StartTick
  <2> HIDE DEF r
  <2>4. tick' \in [Tasks -> TickType] /\ \A u \in Tasks : LocalsOK(u)'
    BY <1>0, <2>1, <2>2, <2>3, LocalsUpdate DEF chain, database
  <2> QED BY <1>0, <2>3, <2>4 DEF chain, database, TypeOK, TypeInv
<1>3. ASSUME NEW t \in Tasks, Resolve(t)
      PROVE  TypeInv'
  <2> DEFINE pl == Plan(startSpec, Oldest, head)
             r  == [tick[t] EXCEPT !.pc = "mark", !.plan = pl]
  <2>1. pl \in PlanType /\ pl # None
    BY <1>0, PlanTyped, NoneAssumption
  <2> HIDE DEF pl
  <2>2. r \in TickType /\ r.pc = "mark" /\ r.plan = pl /\ r.todo = tick[t].todo
    BY <1>0, <2>1 DEF TickType
  <2>3. UNCHANGED <<chain, database, startSpec, failures>>
        /\ tick' = [tick EXCEPT ![t] = r]
    BY <1>3 DEF Resolve, pl
  <2> HIDE DEF r
  <2>4. tick' \in [Tasks -> TickType] /\ \A u \in Tasks : LocalsOK(u)'
    BY <1>0, <2>1, <2>2, <2>3, LocalsUpdate DEF chain, database, LocalsOK
  <2> QED BY <1>0, <2>3, <2>4 DEF chain, database, TypeOK, TypeInv
<1>4. ASSUME NEW t \in Tasks, RecordMark(t)
      PROVE  TypeInv'
  <2> DEFINE r == [tick[t] EXCEPT !.pc = "fetch", !.start = tick[t].plan.effective,
                                  !.plan = None]
  <2>1. tick[t].plan \in PlanType /\ mark' = tick[t].plan /\ mark' # None
    BY <1>0, <1>4, NoneAssumption DEF RecordMark, LocalsOK, TickType
  <2>2. tick[t].plan.effective \in Nat
    BY <2>1 DEF PlanType
  <2>3. r \in TickType /\ r.pc = "fetch" /\ r.todo = tick[t].todo
    BY <1>0, <2>2 DEF TickType
  <2>4. UNCHANGED <<chain, events, cursor, lastLedger, startSpec, failures>>
        /\ tick' = [tick EXCEPT ![t] = r]
    BY <1>4 DEF RecordMark
  <2> HIDE DEF r
  <2>5. tick' \in [Tasks -> TickType] /\ \A u \in Tasks : LocalsOK(u)'
    BY <1>0, <2>1, <2>3, <2>4, LocalsUpdate DEF chain, LocalsOK
  <2> QED BY <1>0, <2>1, <2>4, <2>5 DEF chain, TypeOK, TypeInv
<1>5. ASSUME NEW t \in Tasks, FetchPage(t)
      PROVE  TypeInv'
  <2>1. PICK p \in SUBSET Matching(t) :
          \E c \in p \union {EndOf(ScanEnd(t)), None}, l \in 0..head :
             tick' = [tick EXCEPT ![t] =
                        [tick[t] EXCEPT !.pc = "insert", !.todo = p, !.full = Full(p),
                                        !.last = l, !.next = c, !.latest = head]]
    BY <1>5 DEF FetchPage
  <2>2. PICK c \in p \union {EndOf(ScanEnd(t)), None}, l \in 0..head :
             tick' = [tick EXCEPT ![t] =
                        [tick[t] EXCEPT !.pc = "insert", !.todo = p, !.full = Full(p),
                                        !.last = l, !.next = c, !.latest = head]]
    BY <2>1
  <2> DEFINE f == Full(p)
             r == [tick[t] EXCEPT !.pc = "insert", !.todo = p, !.full = f,
                                  !.last = l, !.next = c, !.latest = head]
  <2>3. tick' = [tick EXCEPT ![t] = r]
    BY <2>2
  <2>4. f \in BOOLEAN
    BY DEF Full
  <2> HIDE DEF f
  <2>5. p \subseteq log /\ p \subseteq Position
    BY <1>0 DEF Matching, TypeOK
  <2>6. c \in Position \union {None} /\ l \in Nat /\ head \in Nat
    BY <2>5, <1>0, <1>5, ScanEndTyped, EndOfTyped DEF FetchPage, TypeOK
  <2>7. r \in TickType /\ r.pc = "insert" /\ r.todo = p /\ r.cur = tick[t].cur
    BY <1>0, <2>4, <2>5, <2>6 DEF TickType
  <2> HIDE DEF r
  <2>8. UNCHANGED <<chain, database, startSpec, failures>> /\ tick[t].pc = "fetch"
    BY <1>5 DEF FetchPage
  <2>9. tick' \in [Tasks -> TickType] /\ \A u \in Tasks : LocalsOK(u)'
    BY <1>0, <2>3, <2>5, <2>7, <2>8, LocalsUpdate DEF chain, database, LocalsOK
  <2> QED BY <1>0, <2>8, <2>9 DEF chain, database, TypeOK, TypeInv
<1>6. ASSUME NEW t \in Tasks, FetchOutOfRange(t)
      PROVE  TypeInv'
  <2> DEFINE q == [tick[t] EXCEPT !.pc = "reclamp", !.start = Oldest,
                                  !.retries = tick[t].retries + 1]
             r == IF MayReclamp(t) THEN q ELSE AfterError
  <2>0. tick[t].retries + 1 \in Nat
    BY <1>0 DEF TickType
  <2>1. q \in TickType /\ q.pc = "reclamp" /\ q.todo = tick[t].todo
    BY <1>0, <2>0 DEF TickType
  <2>2. AfterError \in TickType /\ AfterError.pc = "idle" /\ AfterError.todo = {}
    BY DEF AfterError, IdleTick, TickType
  <2>3. /\ UNCHANGED <<chain, database, startSpec, failures>>
        /\ tick' = [tick EXCEPT ![t] = r]
        /\ tick[t].pc = "fetch"
    BY <1>6 DEF FetchOutOfRange
  <2>4. MayReclamp(t) => mark # None
    BY <1>0, <2>3 DEF MayReclamp, LocalsOK
  <2> HIDE DEF q
  <2>5. CASE MayReclamp(t)
    <3>1. tick' \in [Tasks -> TickType] /\ \A u \in Tasks : LocalsOK(u)'
      BY <1>0, <2>1, <2>3, <2>4, <2>5, LocalsUpdate DEF chain, database, LocalsOK
    <3> QED BY <1>0, <2>3, <3>1 DEF chain, database, TypeOK, TypeInv
  <2>6. CASE ~MayReclamp(t)
    <3>1. tick' \in [Tasks -> TickType] /\ \A u \in Tasks : LocalsOK(u)'
      BY <2>2, <2>3, <2>6, LocalsUpdate DEF chain, database
    <3> QED BY <1>0, <2>3, <3>1 DEF chain, database, TypeOK, TypeInv
  <2> QED BY <2>5, <2>6
<1>7. ASSUME NEW t \in Tasks, Reclamp(t)
      PROVE  TypeInv'
  <2> DEFINE r == [tick[t] EXCEPT !.pc = "fetch"]
  <2>1. mark \in PlanType /\ tick[t].start \in Nat
    BY <1>0, <1>7 DEF Reclamp, LocalsOK, TypeOK, TickType
  <2>2. mark' \in PlanType /\ mark' # None
    BY <1>7, <2>1, ReclampedTyped, NoneAssumption DEF Reclamp
  <2>3. r \in TickType /\ r.pc = "fetch" /\ r.todo = tick[t].todo
    BY <1>0 DEF TickType
  <2>4. UNCHANGED <<chain, events, cursor, lastLedger, startSpec, failures>>
        /\ tick' = [tick EXCEPT ![t] = r]
    BY <1>7 DEF Reclamp
  <2> HIDE DEF r
  <2>5. tick' \in [Tasks -> TickType] /\ \A u \in Tasks : LocalsOK(u)'
    BY <1>0, <2>2, <2>3, <2>4, LocalsUpdate DEF chain, LocalsOK
  <2> QED BY <1>0, <2>2, <2>4, <2>5 DEF chain, TypeOK, TypeInv
<1>8. ASSUME NEW t \in Tasks, InsertEvent(t)
      PROVE  TypeInv'
  <2>1. PICK e \in tick[t].todo :
          /\ events' = events \union {e}
          /\ tick' = [tick EXCEPT ![t] = [tick[t] EXCEPT !.todo = tick[t].todo \ {e}]]
    BY <1>8 DEF InsertEvent
  <2> DEFINE r == [tick[t] EXCEPT !.todo = tick[t].todo \ {e}]
  <2>2. r \in TickType /\ r.pc = tick[t].pc /\ r.cur = tick[t].cur
        /\ r.plan = tick[t].plan /\ r.todo = tick[t].todo \ {e}
    BY <1>0 DEF TickType
  <2>3. tick[t].todo \subseteq log /\ events' \subseteq log
    BY <1>0, <2>1 DEF LocalsOK, TypeOK
  <2>4. UNCHANGED <<chain, cursor, lastLedger, mark, startSpec, failures>>
        /\ tick' = [tick EXCEPT ![t] = r]
    BY <1>8, <2>1 DEF InsertEvent
  <2> HIDE DEF r
  <2>5. tick' \in [Tasks -> TickType] /\ \A u \in Tasks : LocalsOK(u)'
    BY <1>0, <2>2, <2>3, <2>4, LocalsUpdate DEF chain, LocalsOK
  <2> QED BY <1>0, <2>3, <2>4, <2>5 DEF chain, TypeOK, TypeInv
<1>9. ASSUME NEW t \in Tasks, FinishPage(t)
      PROVE  TypeInv'
  <2> DEFINE q == [tick[t] EXCEPT !.pc = "fetch", !.cur = tick[t].next,
                                  !.todo = {}, !.full = FALSE, !.last = 0,
                                  !.next = None, !.latest = 0]
             done == CaughtUp(t) \/ tick[t].next = tick[t].cur
             r == IF done THEN IdleTick ELSE q
  <2>1. ScannedThrough(t) \in Nat
    BY <1>0 DEF ScannedThrough, Decodes, TickType, Position
  <2>2. /\ cursor' \in Position \union {None}
        /\ lastLedger' \in Nat
        /\ cursor' = None => lastLedger' = 0
    BY <1>0, <1>9, <2>1 DEF FinishPage, TypeOK, TickType
  <2>3. q \in TickType /\ q.pc = "fetch" /\ q.todo = {} /\ q.cur = tick[t].next
    BY <1>0 DEF TickType
  <2>4. IdleTick \in TickType /\ IdleTick.pc = "idle" /\ IdleTick.todo = {}
    BY DEF IdleTick, TickType
  <2>5. /\ UNCHANGED <<chain, events, mark, startSpec, failures>>
        /\ tick' = [tick EXCEPT ![t] = r]
        /\ tick[t].pc = "insert"
    BY <1>9 DEF FinishPage
  <2>6. mark # None
    BY <1>0, <2>5 DEF LocalsOK
  <2> HIDE DEF q, done
  <2>7. CASE done
    <3>1. tick' \in [Tasks -> TickType] /\ \A u \in Tasks : LocalsOK(u)'
      BY <2>4, <2>5, <2>7, LocalsUpdate DEF chain
    <3> QED BY <1>0, <2>2, <2>5, <2>6, <3>1 DEF chain, TypeOK, TypeInv
  <2>8. CASE ~done
    <3>1. tick' \in [Tasks -> TickType] /\ \A u \in Tasks : LocalsOK(u)'
      BY <2>3, <2>5, <2>6, <2>8, LocalsUpdate DEF chain
    <3> QED BY <1>0, <2>2, <2>5, <2>6, <3>1 DEF chain, TypeOK, TypeInv
  <2> QED BY <2>7, <2>8
<1>10. ASSUME NEW t \in Tasks, TickFails(t)
       PROVE  TypeInv'
  <2>1. AfterError \in TickType /\ AfterError.pc = "idle" /\ AfterError.todo = {}
    BY DEF AfterError, IdleTick, TickType
  <2>2. /\ UNCHANGED <<chain, database, startSpec>> /\ failures' \in Nat
        /\ tick' = [tick EXCEPT ![t] = AfterError]
    BY <1>0, <1>10 DEF TickFails, TypeOK
  <2>3. tick' \in [Tasks -> TickType] /\ \A u \in Tasks : LocalsOK(u)'
    BY <2>1, <2>2, LocalsUpdate DEF chain, database
  <2> QED BY <1>0, <2>2, <2>3 DEF chain, database, TypeOK, TypeInv
<1>11. CASE Restart
  BY <1>0, <1>11 DEF Restart, IdleTick, chain, database, TypeOK, LocalsOK, TickType, TypeInv
<1>12. CASE UNCHANGED vars
  BY <1>0, <1>12 DEF vars, TypeOK, LocalsOK, TypeInv
<1> QED
  BY <1>1, <1>2, <1>3, <1>4, <1>5, <1>6, <1>7, <1>8, <1>9, <1>10, <1>11, <1>12
  DEF Next, TickStep, Answered, OwnStep

\* Type correctness, for any number of tasks: the rows of the three tables and
\* the locals of every tick have their types, and only events of the log are
\* ever stored (ingest.rs, db.rs).
THEOREM TypeCorrect == Spec => []TypeOK
<1>1. Init => TypeInv
  BY ConstantsAssumption DEF Init, TypeInv, TypeOK, LocalsOK, IdleTick, TickType
<1>2. TypeInv => TypeOK
  BY DEF TypeInv
<1> QED BY <1>1, <1>2, TypeInductive, PTL DEF Spec

-----------------------------------------------------------------------------
(* No silent hole                                                           *)

\* What the page being stored promises about the cursor it will write.
NextOK(t) ==
    /\ CursorStyle # "none"
    /\ tick[t].next.ledger <= head
    /\ tick[t].next.index <= LastIndex
    /\ cursor # None => AtOrBefore(cursor, tick[t].next)
    /\ \A e \in log :
          /\ IF cursor = None THEN e.ledger >= mark.effective ELSE Before(cursor, e)
          /\ AtOrBefore(e, tick[t].next)
          => e \in events \union tick[t].todo

TickOK(t) ==
    /\ tick[t].pc \in {"resolve", "mark", "reclamp"} => cursor = None
    /\ tick[t].pc # "idle" => tick[t].cur = cursor
    /\ tick[t].pc \in {"fetch", "insert"} /\ cursor = None =>
          tick[t].start = mark.effective
    /\ tick[t].pc = "insert" =>
          IF tick[t].next = None THEN cursor = None ELSE NextOK(t)

\* HeldThroughCursor alone is not inductive: writing a cursor preserves it only
\* because the page it belongs to starts where the last one ended (or where
\* the mark says) and is stored, and a new ledger only because neither the
\* cursor nor the page in hand reaches past the head.
HoleFree ==
    /\ TypeInv
    /\ \A e \in log : e.ledger <= head /\ e.index <= LastIndex
    /\ cursor # None => /\ CursorStyle # "none"
                        /\ cursor.ledger <= head
                        /\ cursor.index <= LastIndex
    /\ HeldThroughCursor
    /\ \A t \in Tasks : TickOK(t)

\* The answer of the RPC: nothing between where the page starts and its cursor
\* is left out of the page, whether the page was cut at PageLimit or the scan
\* reached its end.
LEMMA PageComplete ==
    ASSUME TypeOK, NEW t \in Tasks, InRange(t),
           \A e \in log : e.index <= LastIndex,
           tick[t].cur # None => tick[t].cur.index <= LastIndex,
           NEW p \in SUBSET Matching(t), IsPage(p, t),
           NEW c \in Position, IsNext(c, p, t)
    PROVE  /\ c.ledger <= head
           /\ c.index <= LastIndex
           /\ tick[t].cur # None => AtOrBefore(tick[t].cur, c)
           /\ \A e \in log :
                 /\ IF tick[t].cur = None THEN e.ledger >= From(t)
                                          ELSE Before(tick[t].cur, e)
                 /\ AtOrBefore(e, c)
                 => e \in p
<1>0. /\ log \subseteq Position
      /\ tick[t].cur \in Position \union {None}
      /\ From(t) \in Nat /\ ScanEnd(t) \in Nat /\ head \in Nat
      /\ From(t) <= ScanEnd(t) /\ ScanEnd(t) <= head
      /\ tick[t].cur # None => From(t) = tick[t].cur.ledger
  BY ScanEndTyped DEF TypeOK, TickType, From
<1>1. CursorStyle # "none"
  BY NoneAssumption DEF IsNext
<1>2. CASE Full(p)
  <2>1. c \in p /\ \A e \in p : AtOrBefore(e, c)
    BY <1>1, <1>2 DEF IsNext, IsLast
  <2>2. c \in log /\ From(t) <= c.ledger /\ c.ledger <= ScanEnd(t)
        /\ (tick[t].cur # None => Before(tick[t].cur, c))
    BY <2>1 DEF Matching
  <2>3. ASSUME NEW e \in log, AtOrBefore(e, c),
               IF tick[t].cur = None THEN e.ledger >= From(t)
                                     ELSE Before(tick[t].cur, e)
        PROVE  e \in p
    <3>1. e.ledger <= c.ledger /\ e.ledger >= From(t)
      BY <1>0, <2>2, <2>3 DEF AtOrBefore, Before, Position
    <3>2. e \in Matching(t)
      BY <1>0, <2>2, <2>3, <3>1 DEF Matching, Position
    <3> QED BY <2>1, <2>3, <3>2 DEF IsPage, AtOrBefore
  <2> QED BY <1>0, <2>2, <2>3 DEF AtOrBefore, Position
<1>3. CASE ~Full(p)
  <2>1. p = Matching(t) /\ c.ledger = ScanEnd(t) /\ c.index = LastIndex
    BY <1>1, <1>3 DEF IsPage, IsNext, EndOf
  <2>2. ASSUME NEW e \in log, AtOrBefore(e, c),
               IF tick[t].cur = None THEN e.ledger >= From(t)
                                     ELSE Before(tick[t].cur, e)
        PROVE  e \in p
    <3>1. e.ledger <= c.ledger /\ e.ledger >= From(t)
      BY <1>0, <2>1, <2>2 DEF AtOrBefore, Before, Position
    <3> QED BY <1>0, <2>1, <2>2, <3>1 DEF Matching, Position
  <2>3. tick[t].cur # None => AtOrBefore(tick[t].cur, c)
    BY <1>0, <2>1, ConstantsAssumption DEF AtOrBefore, Before, Position
  <2> QED BY <1>0, <2>1, <2>2, <2>3, ConstantsAssumption
<1> QED BY <1>2, <1>3

\* A closed ledger puts its events after everything scanned so far.
LEMMA NewEventsAfter ==
    ASSUME TypeOK, NEW n \in 0..EventsPerLedger, CloseLedger(n),
           NEW q \in Position, q.ledger <= head,
           NEW e \in log', AtOrBefore(e, q)
    PROVE  e \in log
BY DEF TypeOK, CloseLedger, Position, AtOrBefore, Before

\* Every step, with one task per contract.
LEMMA HoleFreeInductive ==
    ASSUME SingleTask, HoleFree, [Next]_vars
    PROVE  HoleFree'
<1>0. /\ TypeInv /\ TypeInv' /\ TypeOK
      /\ \A t \in Tasks : TickOK(t) /\ LocalsOK(t) /\ tick[t] \in TickType
      /\ tick \in [Tasks -> TickType]
      /\ \A t, u \in Tasks : t = u
      /\ cursor \in Position \union {None}
      /\ log \subseteq Position
  BY TypeInductive DEF HoleFree, TypeInv, TypeOK, SingleTask
<1>1. ASSUME NEW n \in 0..EventsPerLedger, CloseLedger(n)
      PROVE  HoleFree'
  <2>1. /\ head \in Nat /\ head' = head + 1
        /\ UNCHANGED <<events, cursor, lastLedger, mark, tick>>
        /\ log \subseteq log'
    BY <1>0, <1>1 DEF CloseLedger, database, TypeOK
  <2>2. \A e \in log' : e.ledger <= head' /\ e.index <= LastIndex
    BY <1>0, <1>1, ConstantsAssumption DEF CloseLedger, HoleFree, TypeOK, Position
  <2>3. cursor' # None => /\ CursorStyle # "none"
                          /\ cursor'.ledger <= head'
                          /\ cursor'.index <= LastIndex
    BY <1>0, <2>1 DEF HoleFree, Position
  <2>4. HeldThroughCursor'
    <3> SUFFICES ASSUME cursor # None, NEW e \in log',
                        e.ledger >= mark.effective, AtOrBefore(e, cursor)
                 PROVE  e \in events
      BY <2>1 DEF HeldThroughCursor
    <3>1. e \in log
      BY <1>0, <1>1, NewEventsAfter DEF HoleFree
    <3> QED BY <3>1 DEF HoleFree, HeldThroughCursor
  <2>5. ASSUME NEW t \in Tasks
        PROVE  TickOK(t)'
    <3>1. TickOK(t) /\ tick[t].next \in Position \union {None}
      BY <1>0 DEF TickType
    <3>2. ASSUME tick[t].pc = "insert", tick[t].next # None
          PROVE  NextOK(t)'
      <4>1. NextOK(t)
        BY <3>1, <3>2 DEF TickOK
      <4>2. ASSUME NEW e \in log', AtOrBefore(e, tick[t].next)
            PROVE  e \in log
        BY <1>0, <1>1, <3>1, <3>2, <4>1, <4>2, NewEventsAfter DEF NextOK
      <4> QED BY <2>1, <3>1, <3>2, <4>1, <4>2 DEF NextOK, Position
    <3> QED BY <2>1, <3>1, <3>2 DEF TickOK
  <2> QED BY <1>0, <2>2, <2>3, <2>4, <2>5 DEF HoleFree
<1>2. ASSUME NEW t \in Tasks, StartTick(t)
      PROVE  HoleFree'
  <2>1. UNCHANGED <<head, log, events, cursor, lastLedger, mark>>
    BY <1>2 DEF StartTick, chain, database
  <2>2. /\ tick'[t].pc = IF FirstRun THEN "resolve" ELSE "fetch"
        /\ tick'[t].cur = cursor
    BY <1>0, <1>2 DEF StartTick, IdleTick, ResumeCursor
  <2>3. TickOK(t)'
    BY <1>0, <2>1, <2>2 DEF TickOK, FirstRun, TypeInv
  <2> QED BY <1>0, <2>1, <2>3 DEF HoleFree, HeldThroughCursor
<1>3. ASSUME NEW t \in Tasks, Resolve(t)
      PROVE  HoleFree'
  <2>1. /\ UNCHANGED <<head, log, events, cursor, lastLedger, mark>>
        /\ cursor = None /\ tick[t].cur = cursor
    BY <1>0, <1>3 DEF Resolve, chain, database, TickOK
  <2>2. tick'[t].pc = "mark" /\ tick'[t].cur = tick[t].cur
    BY <1>0, <1>3 DEF Resolve, TickType
  <2>3. TickOK(t)'
    BY <2>1, <2>2 DEF TickOK
  <2> QED BY <1>0, <2>1, <2>3 DEF HoleFree, HeldThroughCursor
<1>4. ASSUME NEW t \in Tasks, RecordMark(t)
      PROVE  HoleFree'
  <2>1. UNCHANGED <<head, log, events, cursor, lastLedger>> /\ cursor = None
    BY <1>0, <1>4 DEF RecordMark, chain, TickOK
  <2>2. /\ tick'[t].pc = "fetch"
        /\ tick'[t].start = mark'.effective
        /\ tick'[t].cur = tick[t].cur
    BY <1>0, <1>4 DEF RecordMark, TickType
  <2>3. tick[t].cur = cursor
    BY <1>0, <1>4 DEF RecordMark, TickOK
  <2>4. TickOK(t)'
    BY <2>1, <2>2, <2>3 DEF TickOK
  <2> QED BY <1>0, <2>1, <2>4 DEF HoleFree, HeldThroughCursor
<1>5. ASSUME NEW t \in Tasks, FetchPage(t)
      PROVE  HoleFree'
  <2>1. PICK p \in SUBSET Matching(t) :
          \E c \in p \union {EndOf(ScanEnd(t)), None}, l \in 0..head :
             /\ IsPage(p, t) /\ IsNext(c, p, t)
             /\ tick' = [tick EXCEPT ![t] =
                        [tick[t] EXCEPT !.pc = "insert", !.todo = p, !.full = Full(p),
                                        !.last = l, !.next = c, !.latest = head]]
    BY <1>5 DEF FetchPage
  <2>2. PICK c \in p \union {EndOf(ScanEnd(t)), None}, l \in 0..head :
             /\ IsPage(p, t) /\ IsNext(c, p, t)
             /\ tick' = [tick EXCEPT ![t] =
                        [tick[t] EXCEPT !.pc = "insert", !.todo = p, !.full = Full(p),
                                        !.last = l, !.next = c, !.latest = head]]
    BY <2>1
  <2>3. /\ UNCHANGED <<head, log, events, cursor, lastLedger, mark>>
        /\ tick[t].pc = "fetch" /\ InRange(t) /\ tick[t].cur = cursor
        /\ cursor = None => tick[t].start = mark.effective
    BY <1>0, <1>5 DEF FetchPage, chain, database, TickOK
  <2>4. /\ tick'[t].pc = "insert" /\ tick'[t].todo = p /\ tick'[t].next = c
        /\ tick'[t].cur = tick[t].cur /\ tick'[t].start = tick[t].start
    BY <1>0, <2>2 DEF TickType
  <2>5. ASSUME c # None
        PROVE  NextOK(t)'
    <3>1. c \in Position
      BY <1>0, <2>2, <2>3, <2>5, ScanEndTyped, EndOfTyped DEF Matching
    <3>2. /\ c.ledger <= head
          /\ c.index <= LastIndex
          /\ tick[t].cur # None => AtOrBefore(tick[t].cur, c)
          /\ \A e \in log :
                 /\ IF tick[t].cur = None THEN e.ledger >= From(t)
                                          ELSE Before(tick[t].cur, e)
                 /\ AtOrBefore(e, c)
                 => e \in p
      BY <1>0, <2>2, <2>3, <3>1, PageComplete DEF HoleFree
    <3>3. cursor = None => From(t) = mark.effective
      BY <2>3 DEF From
    <3>4. CursorStyle # "none"
      BY <2>2, <2>5 DEF IsNext
    <3> QED BY <2>3, <2>4, <3>2, <3>3, <3>4 DEF NextOK
  <2>7. c = None => cursor = None
    <3>1. p \subseteq Position /\ EndOf(ScanEnd(t)) \in Position
      BY <1>0, <2>3, ScanEndTyped, EndOfTyped DEF Matching
    <3>2. c = None => CursorStyle = "none"
      BY <2>2, <3>1, NoneAssumption DEF IsNext, IsLast
    <3> QED BY <3>2 DEF HoleFree
  <2>6. TickOK(t)'
    BY <2>3, <2>4, <2>5, <2>7 DEF TickOK
  <2> QED BY <1>0, <2>3, <2>6 DEF HoleFree, HeldThroughCursor
<1>6. ASSUME NEW t \in Tasks, FetchOutOfRange(t)
      PROVE  HoleFree'
  <2>1. /\ UNCHANGED <<head, log, events, cursor, lastLedger, mark>>
        /\ tick[t].cur = cursor
    BY <1>0, <1>6 DEF FetchOutOfRange, chain, database, TickOK
  <2>2. IF MayReclamp(t) THEN tick'[t].pc = "reclamp" /\ tick'[t].cur = tick[t].cur
                         ELSE tick'[t].pc = "idle"
    BY <1>0, <1>6 DEF FetchOutOfRange, AfterError, IdleTick, TickType
  <2>3. TickOK(t)'
    BY <2>1, <2>2 DEF TickOK, MayReclamp
  <2> QED BY <1>0, <2>1, <2>3 DEF HoleFree, HeldThroughCursor
<1>7. ASSUME NEW t \in Tasks, Reclamp(t)
      PROVE  HoleFree'
  <2>1. /\ UNCHANGED <<head, log, events, cursor, lastLedger>> /\ cursor = None
        /\ tick[t].cur = cursor /\ mark'.effective = tick[t].start
    BY <1>0, <1>7 DEF Reclamp, chain, TickOK, Reclamped
  <2>2. /\ tick'[t].pc = "fetch" /\ tick'[t].cur = tick[t].cur
        /\ tick'[t].start = tick[t].start
    BY <1>0, <1>7 DEF Reclamp, TickType
  <2>3. TickOK(t)'
    BY <2>1, <2>2 DEF TickOK
  <2> QED BY <1>0, <2>1, <2>3 DEF HoleFree, HeldThroughCursor
<1>8. ASSUME NEW t \in Tasks, InsertEvent(t)
      PROVE  HoleFree'
  <2>1. PICK e \in tick[t].todo :
          /\ events' = events \union {e}
          /\ tick' = [tick EXCEPT ![t] = [tick[t] EXCEPT !.todo = tick[t].todo \ {e}]]
    BY <1>8 DEF InsertEvent
  <2>2. UNCHANGED <<head, log, cursor, lastLedger, mark>>
    BY <1>8 DEF InsertEvent, chain
  <2>3. /\ tick'[t].pc = tick[t].pc /\ tick'[t].cur = tick[t].cur
        /\ tick'[t].start = tick[t].start /\ tick'[t].next = tick[t].next
        /\ tick'[t].todo = tick[t].todo \ {e}
    BY <1>0, <2>1 DEF TickType
  <2>4. NextOK(t) => NextOK(t)'
    BY <2>1, <2>2, <2>3 DEF NextOK
  <2>5. TickOK(t)'
    BY <1>0, <2>2, <2>3, <2>4 DEF TickOK
  <2>6. HeldThroughCursor'
    BY <2>1, <2>2 DEF HoleFree, HeldThroughCursor
  <2> QED BY <1>0, <2>2, <2>5, <2>6 DEF HoleFree
<1>9. ASSUME NEW t \in Tasks, FinishPage(t)
      PROVE  HoleFree'
  <2>1. /\ UNCHANGED <<head, log, events, mark>>
        /\ tick[t].pc = "insert" /\ tick[t].todo = {}
        /\ tick[t].cur = cursor
        /\ tick[t].next # None => NextOK(t)
        /\ cursor' = IF tick[t].next = None THEN cursor ELSE tick[t].next
    BY <1>0, <1>9 DEF FinishPage, PageStored, chain, TickOK
  <2>2. \/ tick'[t].pc = "idle"
        \/ /\ tick'[t].pc = "fetch" /\ tick'[t].cur = tick[t].next
           /\ tick[t].next # tick[t].cur
    BY <1>0, <1>9 DEF FinishPage, IdleTick, TickType
  <2>3. cursor' # None => /\ CursorStyle # "none"
                          /\ cursor'.ledger <= head
                          /\ cursor'.index <= LastIndex
    BY <2>1 DEF HoleFree, NextOK
  <2>4. HeldThroughCursor'
    <3> SUFFICES ASSUME tick[t].next # None, NEW e \in log,
                        e.ledger >= mark.effective, AtOrBefore(e, tick[t].next)
                 PROVE  e \in events
      BY <2>1 DEF HoleFree, HeldThroughCursor
    <3>1. CASE cursor = None
      BY <2>1, <3>1 DEF NextOK
    <3>2. CASE cursor # None
      <4>1. AtOrBefore(e, cursor) \/ Before(cursor, e)
        BY <1>0, <3>2 DEF AtOrBefore, Before, Position
      <4> QED BY <2>1, <3>2, <4>1 DEF NextOK, HoleFree, HeldThroughCursor
    <3> QED BY <3>1, <3>2
  <2>5. tick[t].next = None => cursor = None
    BY <1>0, <2>1 DEF TickOK
  <2>6. TickOK(t)'
    BY <2>1, <2>2, <2>5 DEF TickOK
  <2> QED BY <1>0, <2>1, <2>3, <2>4, <2>6 DEF HoleFree
<1>10. ASSUME NEW t \in Tasks, TickFails(t)
       PROVE  HoleFree'
  <2>1. UNCHANGED <<head, log, events, cursor, lastLedger, mark>>
    BY <1>10 DEF TickFails, chain, database
  <2>2. tick'[t].pc = "idle"
    BY <1>0, <1>10 DEF TickFails, AfterError, IdleTick
  <2>3. TickOK(t)'
    BY <2>2 DEF TickOK
  <2> QED BY <1>0, <2>1, <2>3 DEF HoleFree, HeldThroughCursor
<1>11. CASE Restart
  <2>1. UNCHANGED <<head, log, events, cursor, lastLedger, mark>>
    BY <1>11 DEF Restart, chain, database
  <2>2. \A t \in Tasks : TickOK(t)'
    BY <1>11 DEF Restart, IdleTick, TickOK
  <2> QED BY <1>0, <2>1, <2>2 DEF HoleFree, HeldThroughCursor
<1>12. CASE UNCHANGED vars
  BY <1>0, <1>12 DEF vars, HoleFree, TickOK, NextOK, HeldThroughCursor
<1> QED
  BY <1>1, <1>2, <1>3, <1>4, <1>5, <1>6, <1>7, <1>8, <1>9, <1>10, <1>11, <1>12
  DEF Next, TickStep, Answered, OwnStep


\* HoleFree is invariant.
LEMMA AlwaysHoleFree ==
    ASSUME SingleTask
    PROVE  Spec => []HoleFree
<1>1. Init => HoleFree
  BY ConstantsAssumption
  DEF Init, HoleFree, TypeInv, TypeOK, LocalsOK, IdleTick, TickType, TickOK, HeldThroughCursor
<1>2. HoleFree /\ [Next]_vars => HoleFree'
  BY HoleFreeInductive
<1> QED BY <1>1, <1>2, PTL DEF Spec

\* No silent hole, for one ingestor task: whatever the RPC pruned or refused,
\* wherever a tick failed or the process was restarted and reconfigured, every
\* event from historyBeginsAtLedger up to the stored cursor is stored
\* (ingest.rs:59-144).
THEOREM NoSilentHole == SingleTask => (Spec => []HeldThroughCursor)
<1> SUFFICES ASSUME SingleTask PROVE Spec => []HeldThroughCursor
  OBVIOUS
<1>1. HoleFree => HeldThroughCursor
  BY DEF HoleFree
<1> QED BY <1>1, AlwaysHoleFree, PTL

-----------------------------------------------------------------------------
(* What a step does to the rows once a cursor is stored                     *)

\* A step that changes the cursor moves it forward.
LEMMA CursorStep ==
    ASSUME SingleTask, HoleFree, [Next]_vars, cursor # None
    PROVE  /\ mark' = mark
           /\ cursor' # None
           /\ AtOrBefore(cursor, cursor')
<1>0. \A t \in Tasks : TickOK(t)
  BY DEF HoleFree
<1>1. ASSUME NEW t \in Tasks, RecordMark(t) \/ Reclamp(t)
      PROVE  FALSE
  BY <1>0, <1>1 DEF RecordMark, Reclamp, TickOK
<1>2. ASSUME NEW t \in Tasks, FinishPage(t)
      PROVE  /\ mark' = mark
             /\ cursor' # None
             /\ AtOrBefore(cursor, cursor')
  <2>1. CASE tick[t].next = None
    BY <1>2, <2>1 DEF FinishPage, AtOrBefore
  <2>2. CASE tick[t].next # None
    <3>1. NextOK(t)
      BY <1>0, <1>2, <2>2 DEF FinishPage, TickOK
    <3> QED BY <1>2, <2>2, <3>1 DEF FinishPage, NextOK
  <2> QED BY <2>1, <2>2
<1>3. CASE UNCHANGED <<cursor, mark>>
  BY <1>3 DEF AtOrBefore
<1> QED
  BY <1>1, <1>2, <1>3
  DEF Next, TickStep, Answered, OwnStep, CloseLedger, StartTick, Resolve, FetchPage, FetchOutOfRange,
      InsertEvent, TickFails, Restart, chain, database, vars

\* With one ingestor task, nothing revises the backfill mark once a cursor is
\* stored: not a restart, not another start spec (ingest.rs:46-55,
\* db.rs:92-97).
THEOREM MarkStaysFrozen == SingleTask => (Spec => MarkFrozen)
<1> SUFFICES ASSUME SingleTask PROVE Spec => MarkFrozen
  OBVIOUS
<1>1. HoleFree /\ [Next]_vars => [cursor # None => mark' = mark]_vars
  BY CursorStep
<1> QED BY <1>1, AlwaysHoleFree, PTL DEF Spec, MarkFrozen

\* With one ingestor task, the stored cursor never moves back (ingest.rs:125,
\* db.rs:81-90: the upsert itself would overwrite it with anything).
THEOREM CursorNeverRewinds == SingleTask => (Spec => CursorOnlyAdvances)
<1> SUFFICES ASSUME SingleTask PROVE Spec => CursorOnlyAdvances
  OBVIOUS
<1>1. HoleFree /\ [Next]_vars
        => [cursor # None => cursor' # None /\ AtOrBefore(cursor, cursor')]_vars
  BY CursorStep
<1> QED BY <1>1, AlwaysHoleFree, PTL DEF Spec, CursorOnlyAdvances

-----------------------------------------------------------------------------
(* The ingestor implements the durable index                                *)

\* A step is one of DurableIndex or changes nothing that it sees.
LEMMA RefinementStep ==
    ASSUME SingleTask, HoleFree, HoleFree', [Next]_vars
    PROVE  Durable!DNext \/ UNCHANGED Durable!dvars
<1>0. /\ \A t \in Tasks : TickOK(t) /\ LocalsOK(t) /\ tick[t] \in TickType
      /\ cursor \in Position \union {None}
      /\ cursor' \in Position \union {None}
      /\ mark \in PlanType \union {None}
      /\ mark' \in PlanType \union {None}
      /\ cursor # None => mark # None
      /\ TypeOK
  BY DEF HoleFree, TypeInv, TypeOK
<1> DEFINE begins == IF mark = None THEN None ELSE mark.effective
<1>1. mark # None => begins # None /\ begins = mark.effective
  BY <1>0, NoneAssumption DEF PlanType
<1>2. mark' # None => begins' # None
  BY <1>0, NoneAssumption DEF PlanType
<1>3. ASSUME NEW n \in 0..EventsPerLedger, CloseLedger(n)
      PROVE  Durable!Emit
  <2>1. UNCHANGED <<events, cursor, mark>> /\ log \subseteq log'
    BY <1>3 DEF CloseLedger, database
  <2>2. cursor # None => \A e \in log' \ log : Before(cursor, e)
    BY <1>0, <1>3 DEF CloseLedger, HoleFree, Before, TypeOK, Position
  <2> QED BY <2>1, <2>2 DEF Durable!Emit, Durable!Before, Before
<1>4. ASSUME NEW t \in Tasks, RecordMark(t) \/ Reclamp(t)
      PROVE  Durable!Begin
  <2>1. cursor = None /\ UNCHANGED <<log, events, cursor>>
    BY <1>0, <1>4 DEF RecordMark, Reclamp, chain, TickOK
  <2>2. mark' # None
    BY <1>0, <1>4, ReclampedTyped, NoneAssumption
    DEF RecordMark, Reclamp, LocalsOK, TickType
  <2> QED BY <1>2, <2>1, <2>2 DEF Durable!Begin
<1>5. ASSUME NEW t \in Tasks, InsertEvent(t)
      PROVE  Durable!Store
  <2>1. PICK e \in tick[t].todo : events' = events \union {e}
    BY <1>5 DEF InsertEvent
  <2>2. e \in log /\ UNCHANGED <<log, cursor, mark>>
    BY <1>0, <1>5, <2>1 DEF LocalsOK, InsertEvent, chain
  <2> QED BY <2>1, <2>2 DEF Durable!Store
<1>6. ASSUME NEW t \in Tasks, FinishPage(t)
      PROVE  Durable!Cover \/ UNCHANGED Durable!dvars
  <2>1. UNCHANGED <<log, events, mark>> /\ tick[t].pc = "insert"
    BY <1>6 DEF FinishPage, chain
  <2>2. mark # None
    BY <1>0, <2>1 DEF LocalsOK
  <2>3. CASE cursor' = cursor
    BY <2>1, <2>3 DEF Durable!dvars
  <2>4. CASE cursor' # cursor
    <3>1. cursor' # None
      BY <1>6, <2>4 DEF FinishPage
    <3>2. cursor # None => Before(cursor, cursor')
      BY <2>4, CursorStep DEF AtOrBefore
    <3>3. \A e \in log : e.ledger >= begins /\ AtOrBefore(e, cursor') => e \in events
      BY <1>1, <2>1, <2>2, <3>1 DEF HoleFree, HeldThroughCursor
    <3> QED BY <1>1, <2>1, <2>2, <3>1, <3>2, <3>3
        DEF Durable!Cover, Durable!Complete, Durable!AtOrBefore, Durable!Before,
            AtOrBefore, Before
  <2> QED BY <2>3, <2>4
<1>7. CASE UNCHANGED <<log, events, mark, cursor>>
  BY <1>7 DEF Durable!dvars
<1> QED
  BY <1>3, <1>4, <1>5, <1>6, <1>7
  DEF Next, TickStep, Answered, OwnStep, StartTick, Resolve, FetchPage, FetchOutOfRange, TickFails,
      Restart, chain, database, vars, Durable!DNext

\* One ingestor task implements DurableIndex: what is stored stays stored, the
\* beginning stays put once something is covered, and coverage only grows over
\* events that are stored.
THEOREM ImplementsDurableIndex == SingleTask => (Spec => DurableSpec)
<1> SUFFICES ASSUME SingleTask PROVE Spec => DurableSpec
  OBVIOUS
<1>1. Init => Durable!DInit
  BY DEF Init, Durable!DInit
<1>2. HoleFree /\ HoleFree' /\ [Next]_vars => [Durable!DNext]_(Durable!dvars)
  BY RefinementStep
<1> QED BY <1>1, <1>2, AlwaysHoleFree, PTL DEF Spec, DurableSpec, Durable!DSpec

-----------------------------------------------------------------------------
(* The numbers of the backfill object                                       *)

Honest(m) ==
    /\ m.clamped <=> (m.requested # None /\ m.requested < m.effective)
    /\ m.unreachable = IF m.clamped THEN m.effective - m.requested ELSE 0
    /\ m.clamped => m.effective = m.rpcOldest
    /\ m.rpcOldest <= Oldest

\* HonestClamp is preserved by a re-clamp only because the floor it re-clamps
\* to is not older than the one of the mark: a clamped mark stays clamped.
ClampInv ==
    /\ HoleFree
    /\ mark # None => Honest(mark)
    /\ \A t \in Tasks :
          /\ tick[t].pc = "mark" => Honest(tick[t].plan)
          /\ tick[t].pc = "reclamp" =>
                mark.rpcOldest <= tick[t].start /\ tick[t].start <= Oldest

\* The counts of a plan describe the distance it was moved.
LEMMA PlanHonest ==
    ASSUME TypeOK
    PROVE  Honest(Plan(startSpec, Oldest, head))
<1> DEFINE s == startSpec
           r == Plan(s, Oldest, head)
<1>1. /\ s.mode = "ledger" => s.ledger \in Nat
      /\ s.mode # "ledger" => s.ledger = None
      /\ Oldest \in Nat
  <2>1. s \in StartSpecType
    BY ConstantsAssumption DEF TypeOK
  <2>2. s.mode = "ledger" => s.ledger \in Nat
    BY <2>1 DEF StartSpecType
  <2>3. s.mode # "ledger" => s.ledger = None
    BY <2>1 DEF StartSpecType
  <2> QED BY <2>2, <2>3, OldestType
<1>2. /\ r.requested = s.ledger
      /\ r.effective = EffectiveStart(s, Oldest, head)
      /\ r.rpcOldest = Oldest
      /\ r.clamped = Clamps(s, Oldest)
      /\ r.unreachable = IF Clamps(s, Oldest) THEN Oldest - s.ledger ELSE 0
  BY DEF Plan
<1>3. Clamps(s, Oldest) \in BOOLEAN
  BY DEF Clamps
<1>4. Clamps(s, Oldest) => r.effective = Oldest
  BY <1>2 DEF EffectiveStart, Clamps
<1>5. Clamps(s, Oldest) <=> r.requested # None /\ r.requested < r.effective
  <2>1. CASE Clamps(s, Oldest)
    BY <1>1, <1>2, <1>4, <2>1, NoneAssumption DEF Clamps
  <2>2. CASE ~Clamps(s, Oldest) /\ s.mode = "ledger"
    <3>1. r.effective = s.ledger
      BY <1>2, <2>2 DEF EffectiveStart
    <3> QED BY <1>1, <1>2, <2>2, <3>1
  <2>3. CASE ~Clamps(s, Oldest) /\ s.mode # "ledger"
    BY <1>1, <1>2, <2>3
  <2> QED BY <2>1, <2>2, <2>3
<1>6. r.unreachable = IF r.clamped THEN r.effective - r.requested ELSE 0
  <2>1. CASE Clamps(s, Oldest)
    BY <1>2, <1>4, <2>1
  <2>2. CASE ~Clamps(s, Oldest)
    BY <1>2, <2>2
  <2> QED BY <2>1, <2>2
<1>7. r.clamped <=> r.requested # None /\ r.requested < r.effective
  BY <1>2, <1>3, <1>5
<1>8. (r.clamped => r.effective = r.rpcOldest) /\ r.rpcOldest <= Oldest
  BY <1>1, <1>2, <1>4
<1> HIDE DEF r
<1>9. Honest(r)
  BY <1>6, <1>7, <1>8 DEF Honest
<1> QED BY <1>9 DEF r

\* They still do after a re-clamp.
LEMMA ReclampedHonest ==
    ASSUME NEW m \in PlanType, Honest(m), NEW oldest \in Nat,
           m.rpcOldest <= oldest, oldest <= Oldest, Oldest \in Nat
    PROVE  Honest(Reclamped(m, oldest))
<1> DEFINE r == Reclamped(m, oldest)
<1>1. /\ r.requested = m.requested
      /\ r.effective = oldest
      /\ r.rpcOldest = oldest
      /\ r.clamped = (Predates(m, oldest) \/ m.clamped)
      /\ r.unreachable = IF Predates(m, oldest) THEN oldest - m.requested
                         ELSE m.unreachable
  BY DEF Reclamped
<1>2. /\ m.requested \in Nat \union {None}
      /\ m.effective \in Nat
      /\ m.clamped \in BOOLEAN
  BY DEF PlanType
<1>3. m.clamped => Predates(m, oldest)
  <2> SUFFICES ASSUME m.clamped PROVE Predates(m, oldest)
    OBVIOUS
  <2>1. m.requested # None /\ m.requested < m.effective /\ m.effective = m.rpcOldest
    BY DEF Honest
  <2> QED BY <1>2, <2>1 DEF Predates
<1>4. r.clamped <=> Predates(m, oldest)
  BY <1>1, <1>2, <1>3
<1>5. Predates(m, oldest) <=> r.requested # None /\ r.requested < r.effective
  BY <1>1 DEF Predates
<1>6. ~Predates(m, oldest) => m.unreachable = 0
  BY <1>3 DEF Honest
<1>7. r.unreachable = IF r.clamped THEN r.effective - r.requested ELSE 0
  <2>1. CASE Predates(m, oldest)
    BY <1>1, <1>4, <2>1
  <2>2. CASE ~Predates(m, oldest)
    BY <1>1, <1>4, <1>6, <2>2
  <2> QED BY <2>1, <2>2
<1> HIDE DEF r
<1>8. Honest(r)
  BY <1>1, <1>4, <1>5, <1>7 DEF Honest
<1> QED BY <1>8 DEF r

\* The first ledger of the window only rises.
LEMMA OldestMoves ==
    ASSUME TypeOK, TypeOK', [Next]_vars
    PROVE  Oldest \in Nat /\ Oldest' \in Nat /\ Oldest <= Oldest'
<1>1. head \in Nat /\ (head' = head \/ head' = head + 1)
  BY DEF TypeOK, Next, TickStep, Answered, OwnStep, CloseLedger, StartTick, Resolve, RecordMark,
     FetchPage, FetchOutOfRange, Reclamp, InsertEvent, FinishPage, TickFails,
     Restart, chain, vars
<1> QED BY <1>1, ConstantsAssumption DEF Oldest

\* Every step, with one task per contract.
LEMMA ClampInductive ==
    ASSUME SingleTask, ClampInv, [Next]_vars
    PROVE  ClampInv'
<1>0. /\ HoleFree /\ HoleFree' /\ TypeOK /\ TypeOK'
      /\ \A t \in Tasks : TickOK(t) /\ LocalsOK(t) /\ tick[t] \in TickType
      /\ tick \in [Tasks -> TickType]
      /\ \A t, u \in Tasks : t = u
      /\ mark \in PlanType \union {None}
  BY HoleFreeInductive DEF ClampInv, HoleFree, TypeInv, TypeOK, SingleTask
<1>o. Oldest \in Nat /\ Oldest' \in Nat /\ Oldest <= Oldest'
  BY <1>0, OldestMoves
<1>1. ASSUME NEW m \in PlanType, Honest(m)
      PROVE  Honest(m)'
  BY <1>o, <1>1 DEF Honest, PlanType
<1>2. CASE UNCHANGED <<mark, tick>>
  <2>1. ASSUME NEW t \in Tasks, tick[t].pc = "mark"
        PROVE  Honest(tick[t].plan)'
    <3>1. tick[t].plan \in PlanType /\ Honest(tick[t].plan)
      BY <1>0, <2>1 DEF LocalsOK, TickType, ClampInv
    <3> QED BY <1>2, <1>o, <3>1 DEF Honest, PlanType
  <2>2. ASSUME NEW t \in Tasks, tick[t].pc = "reclamp"
        PROVE  tick[t].start <= Oldest'
    BY <1>0, <1>o, <2>2 DEF ClampInv, TickType
  <2>3. mark # None => Honest(mark)'
    BY <1>0, <1>1, <1>2, <1>o DEF ClampInv, Honest, PlanType
  <2> QED BY <1>0, <1>2, <2>1, <2>2, <2>3 DEF ClampInv
<1>3. ASSUME mark' = mark, NEW t \in Tasks, tick'[t].pc \notin {"mark", "reclamp"}
      PROVE  ClampInv'
  <2>1. mark # None => Honest(mark)'
    BY <1>0, <1>3, <1>o DEF ClampInv, Honest, PlanType
  <2> QED BY <1>0, <1>3, <2>1 DEF ClampInv
<1>4. ASSUME NEW t \in Tasks, StartTick(t) \/ FetchPage(t) \/ InsertEvent(t)
                              \/ FinishPage(t) \/ TickFails(t)
      PROVE  ClampInv'
  <2>1. mark' = mark
    BY <1>4 DEF StartTick, FetchPage, InsertEvent, FinishPage, TickFails, database
  <2>2. tick'[t].pc \notin {"mark", "reclamp"}
    <3>0. tick \in [Tasks -> TickType]
      BY <1>0
    <3>1. CASE StartTick(t)
      BY <3>0, <3>1 DEF StartTick, IdleTick
    <3>2. CASE FetchPage(t)
      <4>1. PICK p \in SUBSET Matching(t) :
              \E c \in p \union {EndOf(ScanEnd(t)), None}, l \in 0..head :
                 tick' = [tick EXCEPT ![t] =
                           [@ EXCEPT !.pc = "insert", !.todo = p, !.full = Full(p),
                                     !.last = l, !.next = c, !.latest = head]]
        BY <3>2 DEF FetchPage
      <4>2. PICK c \in p \union {EndOf(ScanEnd(t)), None}, l \in 0..head :
                 tick' = [tick EXCEPT ![t] =
                           [@ EXCEPT !.pc = "insert", !.todo = p, !.full = Full(p),
                                     !.last = l, !.next = c, !.latest = head]]
        BY <4>1
      <4>3. tick'[t].pc = "insert"
        BY <3>0, <4>2 DEF TickType
      <4> QED BY <4>3
    <3>3. CASE InsertEvent(t)
      <4>1. PICK e \in tick[t].todo :
              tick' = [tick EXCEPT ![t] = [@ EXCEPT !.todo = tick[t].todo \ {e}]]
        BY <3>3 DEF InsertEvent
      <4>2. tick'[t].pc = tick[t].pc /\ tick[t].pc = "insert"
        BY <3>0, <3>3, <4>1 DEF InsertEvent, TickType
      <4> QED BY <4>2
    <3>4. CASE FinishPage(t)
      BY <3>0, <3>4 DEF FinishPage, IdleTick, TickType
    <3>5. CASE TickFails(t)
      BY <3>0, <3>5 DEF TickFails, AfterError, IdleTick
    <3> QED BY <1>4, <3>1, <3>2, <3>3, <3>4, <3>5
  <2> QED BY <1>3, <2>1, <2>2
<1>5. ASSUME NEW t \in Tasks, Resolve(t)
      PROVE  ClampInv'
  <2>1. mark' = mark /\ Oldest' = Oldest
    BY <1>5 DEF Resolve, database, chain, Oldest
  <2>2. tick'[t].pc = "mark" /\ tick'[t].plan = Plan(startSpec, Oldest, head)
    BY <1>0, <1>5 DEF Resolve, TickType
  <2>3. Honest(tick[t].plan)'
    BY <1>0, <2>1, <2>2, PlanHonest DEF Honest
  <2>4. mark # None => Honest(mark)'
    BY <2>1 DEF ClampInv, Honest
  <2> QED BY <1>0, <2>1, <2>2, <2>3, <2>4 DEF ClampInv
<1>6. ASSUME NEW t \in Tasks, RecordMark(t)
      PROVE  ClampInv'
  <2>1. mark' = tick[t].plan /\ Oldest' = Oldest /\ Honest(tick[t].plan)
    BY <1>6 DEF RecordMark, chain, Oldest, ClampInv
  <2>2. tick'[t].pc = "fetch"
    BY <1>0, <1>6 DEF RecordMark, TickType
  <2>3. Honest(mark)'
    BY <2>1 DEF Honest
  <2> QED BY <1>0, <2>2, <2>3 DEF ClampInv
<1>7. ASSUME NEW t \in Tasks, FetchOutOfRange(t)
      PROVE  ClampInv'
  <2>1. mark' = mark /\ Oldest' = Oldest /\ mark # None
    BY <1>0, <1>7 DEF FetchOutOfRange, database, chain, Oldest, LocalsOK
  <2>2. \/ tick'[t].pc = "idle"
        \/ tick'[t].pc = "reclamp" /\ tick'[t].start = Oldest
    BY <1>0, <1>7 DEF FetchOutOfRange, AfterError, IdleTick, TickType
  <2>3. Honest(mark)' /\ mark.rpcOldest <= Oldest
    BY <2>1 DEF ClampInv, Honest
  <2> QED BY <1>0, <1>o, <2>1, <2>2, <2>3 DEF ClampInv
<1>8. ASSUME NEW t \in Tasks, Reclamp(t)
      PROVE  ClampInv'
  <2>1. /\ mark' = Reclamped(mark, tick[t].start) /\ Oldest' = Oldest
        /\ mark \in PlanType /\ Honest(mark)
        /\ tick[t].start \in Nat
        /\ mark.rpcOldest <= tick[t].start /\ tick[t].start <= Oldest
    BY <1>0, <1>8 DEF Reclamp, chain, Oldest, ClampInv, LocalsOK, TickType
  <2>2. Honest(Reclamped(mark, tick[t].start))
    BY <1>o, <2>1, ReclampedHonest
  <2>3. Honest(mark)'
    BY <2>1, <2>2 DEF Honest
  <2>4. tick'[t].pc = "fetch"
    BY <1>0, <1>8 DEF Reclamp, TickType
  <2> QED BY <1>0, <2>3, <2>4 DEF ClampInv
<1>9. CASE Restart
  <2>1. mark' = mark /\ Oldest' = Oldest /\ \A t \in Tasks : tick'[t].pc = "idle"
    BY <1>9 DEF Restart, database, chain, Oldest, IdleTick
  <2>2. mark # None => Honest(mark)'
    BY <2>1 DEF ClampInv, Honest
  <2> QED BY <1>0, <2>1, <2>2 DEF ClampInv
<1> QED
  BY <1>2, <1>4, <1>5, <1>6, <1>7, <1>8, <1>9
  DEF Next, TickStep, Answered, OwnStep, CloseLedger, database, vars

\* With one ingestor task the backfill object adds up: clamped and unreachable
\* always describe the distance between the ledger requested and the one
\* history begins at, however often the floor moved (backfill.rs:174-185,
\* db.rs:129-155).
THEOREM ClampIsHonest == SingleTask => (Spec => []HonestClamp)
<1> SUFFICES ASSUME SingleTask PROVE Spec => []HonestClamp
  OBVIOUS
<1>1. Init => ClampInv
  <2>1. Init => HoleFree
    BY ConstantsAssumption
    DEF Init, HoleFree, TypeInv, TypeOK, LocalsOK, IdleTick, TickType, TickOK, HeldThroughCursor
  <2> QED BY <2>1 DEF Init, ClampInv, IdleTick
<1>2. ClampInv /\ [Next]_vars => ClampInv'
  BY ClampInductive
<1>3. ClampInv => HonestClamp
  BY DEF ClampInv, Honest, HonestClamp
<1> QED BY <1>1, <1>2, <1>3, PTL DEF Spec
-----------------------------------------------------------------------------
(* The scanned position                                                     *)

\* What the page being stored will report as scanned is not past its cursor.
ScanOK(t) ==
    tick[t].pc = "insert" /\ tick[t].next # None =>
        tick[t].last <= tick[t].next.ledger

\* lastLedger is at most the cursor's ledger (or the 1 that stands for nothing
\* scanned), and just that when cursors decode: that is what carries "no hole
\* up to the cursor" over to the position in whole ledgers.
ScanInv ==
    /\ TypeInv
    /\ \A e \in log : e.ledger >= 1
    /\ cursor # None => lastLedger <= 1 \/ lastLedger <= cursor.ledger
    /\ cursor # None /\ CursorStyle = "toid" =>
          lastLedger = IF cursor.ledger > 1 THEN cursor.ledger ELSE 1
    /\ \A t \in Tasks : ScanOK(t)

\* The last event of a page is not past the cursor that comes with it.
LEMMA PageWithinScan ==
    ASSUME TypeOK, NEW t \in Tasks, InRange(t),
           NEW p \in SUBSET Matching(t), IsPage(p, t),
           NEW c \in Position, IsNext(c, p, t),
           NEW l \in Nat, IsLastLedger(l, p)
    PROVE  l <= c.ledger
<1>0. /\ p \subseteq Position
      /\ ScanEnd(t) \in Nat
      /\ \A e \in p : e.ledger <= ScanEnd(t)
  BY ScanEndTyped DEF Matching, TypeOK
<1>1. CursorStyle # "none"
  BY NoneAssumption DEF IsNext
<1>2. c.ledger \in Nat
  BY DEF Position
<1>3. CASE p = {}
  BY <1>2, <1>3 DEF IsLastLedger
<1>4. CASE p # {}
  <2>1. PICK e \in p : l = e.ledger
    BY <1>4 DEF IsLastLedger
  <2>2. CASE Full(p)
    <3>1. AtOrBefore(e, c)
      BY <1>1, <2>2 DEF IsNext, IsLast
    <3> QED BY <1>0, <2>1, <3>1 DEF AtOrBefore, Before, Position
  <2>3. CASE ~Full(p)
    BY <1>0, <1>1, <2>1, <2>3 DEF IsNext, EndOf
  <2> QED BY <2>2, <2>3
<1> QED BY <1>3, <1>4

\* Every step, for any number of tasks.
LEMMA ScanInductive == ScanInv /\ [Next]_vars => ScanInv'
<1> SUFFICES ASSUME ScanInv, [Next]_vars
             PROVE  ScanInv'
  OBVIOUS
<1>0. /\ TypeInv /\ TypeInv' /\ TypeOK
      /\ tick \in [Tasks -> TickType]
      /\ \A t \in Tasks : ScanOK(t) /\ tick[t] \in TickType
      /\ log \subseteq Position /\ head \in Nat \ {0}
      /\ cursor \in Position \union {None}
  BY TypeInductive DEF ScanInv, TypeInv, TypeOK
<1>1. ASSUME NEW n \in 0..EventsPerLedger, CloseLedger(n)
      PROVE  ScanInv'
  <2>1. UNCHANGED <<cursor, lastLedger, tick>>
    BY <1>1 DEF CloseLedger, database
  <2>2. \A e \in log' : e.ledger >= 1
    BY <1>0, <1>1 DEF CloseLedger, ScanInv
  <2> QED BY <1>0, <2>1, <2>2 DEF ScanInv, ScanOK
<1>2. ASSUME UNCHANGED <<log, cursor, lastLedger>>, NEW t \in Tasks,
             tick'[t].pc # "insert" \/ tick'[t].next = None,
             \A u \in Tasks \ {t} : tick'[u] = tick[u]
      PROVE  ScanInv'
  BY <1>0, <1>2 DEF ScanInv, ScanOK
<1>3. ASSUME NEW t \in Tasks, StartTick(t) \/ Resolve(t) \/ RecordMark(t)
                              \/ FetchOutOfRange(t) \/ Reclamp(t) \/ TickFails(t)
      PROVE  ScanInv'
  <2>1. UNCHANGED <<log, cursor, lastLedger>>
    BY <1>3 DEF StartTick, Resolve, RecordMark, FetchOutOfRange, Reclamp, TickFails,
                chain, database
  <2>2. \A u \in Tasks \ {t} : tick'[u] = tick[u]
    BY <1>0, <1>3 DEF StartTick, Resolve, RecordMark, FetchOutOfRange, Reclamp, TickFails
  <2>3. tick'[t].pc # "insert"
    <3>1. CASE StartTick(t)
      BY <1>0, <3>1 DEF StartTick, IdleTick
    <3>2. CASE Resolve(t)
      BY <1>0, <3>2 DEF Resolve, TickType
    <3>5. CASE RecordMark(t)
      BY <1>0, <3>5 DEF RecordMark, TickType
    <3>6. CASE Reclamp(t)
      BY <1>0, <3>6 DEF Reclamp, TickType
    <3>3. CASE FetchOutOfRange(t)
      BY <1>0, <3>3 DEF FetchOutOfRange, AfterError, IdleTick, TickType
    <3>4. CASE TickFails(t)
      BY <1>0, <3>4 DEF TickFails, AfterError, IdleTick
    <3> QED BY <1>3, <3>1, <3>2, <3>3, <3>4, <3>5, <3>6
  <2> QED BY <1>2, <2>1, <2>2, <2>3
<1>4. ASSUME NEW t \in Tasks, FetchPage(t)
      PROVE  ScanInv'
  <2>1. PICK p \in SUBSET Matching(t) :
          \E c \in p \union {EndOf(ScanEnd(t)), None}, l \in 0..head :
             /\ IsPage(p, t) /\ IsNext(c, p, t) /\ IsLastLedger(l, p)
             /\ tick' = [tick EXCEPT ![t] =
                          [tick[t] EXCEPT !.pc = "insert", !.todo = p, !.full = Full(p),
                                          !.last = l, !.next = c, !.latest = head]]
    BY <1>4 DEF FetchPage
  <2>2. PICK c \in p \union {EndOf(ScanEnd(t)), None}, l \in 0..head :
             /\ IsPage(p, t) /\ IsNext(c, p, t) /\ IsLastLedger(l, p)
             /\ tick' = [tick EXCEPT ![t] =
                          [tick[t] EXCEPT !.pc = "insert", !.todo = p, !.full = Full(p),
                                          !.last = l, !.next = c, !.latest = head]]
    BY <2>1
  <2>3. tick'[t].last = l /\ tick'[t].next = c
        /\ \A u \in Tasks \ {t} : tick'[u] = tick[u]
    BY <1>0, <2>2 DEF TickType
  <2>4. c # None => c \in Position
    BY <1>0, <1>4, ScanEndTyped, EndOfTyped DEF FetchPage, Matching
  <2>5. c # None => l <= c.ledger
    BY <1>0, <1>4, <2>2, <2>4, PageWithinScan DEF FetchPage
  <2>6. UNCHANGED <<log, cursor, lastLedger>>
    BY <1>4 DEF FetchPage, chain, database
  <2> QED BY <1>0, <2>3, <2>5, <2>6 DEF ScanInv, ScanOK
<1>5. ASSUME NEW t \in Tasks, InsertEvent(t)
      PROVE  ScanInv'
  <2>1. PICK e \in tick[t].todo :
          tick' = [tick EXCEPT ![t] = [tick[t] EXCEPT !.todo = tick[t].todo \ {e}]]
    BY <1>5 DEF InsertEvent
  <2>2. /\ tick'[t].pc = tick[t].pc
        /\ tick'[t].last = tick[t].last
        /\ tick'[t].next = tick[t].next
        /\ \A u \in Tasks \ {t} : tick'[u] = tick[u]
    BY <1>0, <2>1 DEF TickType
  <2>3. UNCHANGED <<log, cursor, lastLedger>>
    BY <1>5 DEF InsertEvent, chain
  <2> QED BY <1>0, <2>2, <2>3 DEF ScanInv, ScanOK
<1>6. ASSUME NEW t \in Tasks, FinishPage(t)
      PROVE  ScanInv'
  <2>1. /\ log' = log
        /\ \A u \in Tasks \ {t} : tick'[u] = tick[u]
        /\ tick'[t].pc # "insert"
    BY <1>0, <1>6 DEF FinishPage, chain, IdleTick, TickType
  <2>2. CASE tick[t].next = None
    BY <1>2, <1>6, <2>1, <2>2 DEF FinishPage
  <2>3. CASE tick[t].next # None
    <3> DEFINE s == ScannedThrough(t)
    <3>1. /\ cursor' = tick[t].next
          /\ lastLedger' = IF s > 1 THEN s ELSE 1
      BY <1>6, <2>3 DEF FinishPage
    <3>2. tick[t].next.ledger \in Nat /\ tick[t].last \in Nat
      BY <1>0, <2>3 DEF TickType, Position
    <3>3. s \in Nat /\ s <= tick[t].next.ledger
      BY <1>0, <1>6, <2>3, <3>2 DEF ScannedThrough, ScanOK, FinishPage
    <3>4. CursorStyle = "toid" => s = tick[t].next.ledger
      BY <2>3 DEF ScannedThrough, Decodes
    <3> HIDE DEF s
    <3>5. lastLedger' <= 1 \/ lastLedger' <= cursor'.ledger
      BY <3>1, <3>2, <3>3
    <3>6. CursorStyle = "toid" =>
             lastLedger' = IF cursor'.ledger > 1 THEN cursor'.ledger ELSE 1
      BY <3>1, <3>4
    <3> QED BY <1>0, <2>1, <3>5, <3>6 DEF ScanInv, ScanOK
  <2> QED BY <2>2, <2>3
<1>7. CASE Restart
  BY <1>0, <1>7 DEF Restart, IdleTick, chain, database, ScanInv, ScanOK
<1>8. CASE UNCHANGED vars
  BY <1>0, <1>8 DEF vars, ScanInv, ScanOK
<1> QED
  BY <1>1, <1>3, <1>4, <1>5, <1>6, <1>7, <1>8 DEF Next, TickStep, Answered, OwnStep

\* The invariant in every behaviour.
LEMMA AlwaysScanInv == Spec => []ScanInv
<1>1. Init => ScanInv
  BY ConstantsAssumption
  DEF Init, ScanInv, ScanOK, TypeInv, TypeOK, LocalsOK, IdleTick, TickType
<1> QED BY <1>1, ScanInductive, PTL DEF Spec

\* With one ingestor task, scannedThroughLedger never claims a whole ledger of
\* which an event is missing, in whatever form the RPC returns its cursors and
\* however its pages end (ingest.rs:125-135, db.rs:81-90).
THEOREM CoverageIsLowerBound == SingleTask => (Spec => []ScannedLedgersHeld)
<1> SUFFICES ASSUME SingleTask PROVE Spec => []ScannedLedgersHeld
  OBVIOUS
<1>1. HoleFree /\ ScanInv => ScannedLedgersHeld
  <2> SUFFICES ASSUME HoleFree, ScanInv, cursor # None, NEW e \in log,
                      mark.effective <= e.ledger, e.ledger < lastLedger
               PROVE  e \in events
    BY DEF ScannedLedgersHeld
  <2>1. /\ e \in Position /\ e.ledger >= 1
        /\ cursor \in Position
        /\ lastLedger \in Nat
        /\ mark \in PlanType
    BY DEF ScanInv, TypeInv, TypeOK
  <2>2. mark.effective \in Nat
    BY <2>1 DEF PlanType
  <2>3. e.ledger < cursor.ledger
    BY <2>1 DEF ScanInv, Position
  <2> QED BY <2>1, <2>2, <2>3 DEF HoleFree, HeldThroughCursor, AtOrBefore, Before, Position
<1> QED BY <1>1, AlwaysHoleFree, AlwaysScanInv, PTL

\* With one ingestor task and cursors that decode, what /coverage reports as
\* scanned never recedes. Cursors that do not decode need not keep this: an empty
\* page then writes 1 (ingest.rs:117-125).
THEOREM ScanNeverRecedes ==
    SingleTask /\ CursorStyle = "toid" => (Spec => ScannedNeverRecedes)
<1> SUFFICES ASSUME SingleTask, CursorStyle = "toid" PROVE Spec => ScannedNeverRecedes
  OBVIOUS
<1>1. HoleFree /\ ScanInv /\ ScanInv' /\ [Next]_vars => [lastLedger' >= lastLedger]_vars
  <2> SUFFICES ASSUME HoleFree, ScanInv, ScanInv', [Next]_vars
               PROVE  lastLedger' >= lastLedger
    OBVIOUS
  <2>1. /\ lastLedger \in Nat /\ lastLedger' \in Nat
        /\ cursor \in Position \union {None} /\ cursor' \in Position \union {None}
        /\ cursor = None => lastLedger = 0
    BY DEF ScanInv, TypeInv, TypeOK
  <2>2. CASE cursor = None
    BY <2>1, <2>2
  <2>3. CASE cursor # None
    <3>1. cursor' # None /\ AtOrBefore(cursor, cursor')
      BY <2>3, CursorStep
    <3>2. cursor.ledger \in Nat /\ cursor'.ledger \in Nat /\ cursor.ledger <= cursor'.ledger
      BY <2>1, <2>3, <3>1 DEF AtOrBefore, Before, Position
    <3>3. /\ lastLedger = IF cursor.ledger > 1 THEN cursor.ledger ELSE 1
          /\ lastLedger' = IF cursor'.ledger > 1 THEN cursor'.ledger ELSE 1
      BY <2>3, <3>1 DEF ScanInv
    <3> QED BY <3>2, <3>3
  <2> QED BY <2>2, <2>3
<1> QED BY <1>1, AlwaysHoleFree, AlwaysScanInv, PTL DEF Spec, ScannedNeverRecedes
-----------------------------------------------------------------------------
(* The table grows at its end                                               *)

OneSpec == \A r, s \in StartSpecs : r = s

\* From the ledger l on (after the stored cursor), what is stored has no gap
\* below it: a row still missing comes after every row there is.
ClosedFrom(l) ==
    \A f \in events, e \in log : e.ledger >= l /\ Before(e, f) => e \in events

ClosedAfter ==
    \A f \in events, e \in log : Before(cursor, e) /\ Before(e, f) => e \in events

\* The lowest ledger a first run that began now would read from: a start ledger
\* ahead of the head is refused and re-clamped to the floor.
FutureStart ==
    IF startSpec.mode = "head" THEN head
    ELSE IF startSpec.mode = "oldest" \/ startSpec.ledger > head
            \/ startSpec.ledger < Oldest
         THEN Oldest ELSE startSpec.ledger

MayStart(l) ==
    l <= FutureStart \/ (startSpec.mode = "ledger" /\ l = startSpec.ledger)

InBase(t, e) ==
    IF cursor = None THEN e.ledger >= tick[t].start ELSE Before(cursor, e)

\* The page in hand continues what is stored, and a first run that fails reads
\* again from no lower than where this one began.
OrderOK(t) ==
    /\ tick[t].pc = "mark" =>
          ClosedFrom(tick[t].plan.effective) /\ MayStart(tick[t].plan.effective)
    /\ tick[t].pc \in {"fetch", "reclamp", "insert"} /\ cursor = None =>
          ClosedFrom(tick[t].start) /\ MayStart(tick[t].start)
    /\ tick[t].pc = "insert" =>
          /\ cursor = None =>
                /\ tick[t].start <= head
                /\ tick[t].next # None => tick[t].start <= tick[t].next.ledger
          /\ \A e \in tick[t].todo :
                /\ InBase(t, e)
                /\ \A f \in log : InBase(t, f) /\ Before(f, e) =>
                                     f \in events \union tick[t].todo

\* StoresInOrder needs to know where the next tick will read from, through any
\* number of failed first runs, and that nothing is missing below what is
\* stored from there on.
OrderInv ==
    /\ HoleFree
    /\ IF cursor = None THEN ClosedFrom(FutureStart) ELSE ClosedAfter
    /\ \A t \in Tasks : OrderOK(t)

\* What has no gap from a ledger on has none from a later one on.
LEMMA ClosedFromLater ==
    ASSUME log \subseteq Position, NEW a \in Nat, NEW b \in Nat, a <= b, ClosedFrom(a)
    PROVE  ClosedFrom(b)
BY DEF ClosedFrom, Position

\* A first run starts at a ledger there is.
LEMMA FutureTyped ==
    ASSUME TypeOK
    PROVE  /\ FutureStart \in Nat
           /\ FutureStart <= head
           /\ startSpec.mode \in {"head", "oldest", "ledger"}
           /\ startSpec.mode = "ledger" => startSpec.ledger \in Nat
<1>1. /\ startSpec.mode \in {"head", "oldest", "ledger"}
      /\ startSpec.mode = "ledger" => startSpec.ledger \in Nat
  BY ConstantsAssumption DEF TypeOK, StartSpecType
<1>2. head \in Nat /\ Oldest \in Nat /\ Oldest <= head
  BY OldestType DEF TypeOK
<1> QED BY <1>1, <1>2 DEF FutureStart

\* While the configuration stays, that ledger only rises.
LEMMA FutureMoves ==
    ASSUME OneSpec, TypeOK, TypeOK', [Next]_vars
    PROVE  /\ startSpec' = startSpec
           /\ FutureStart \in Nat /\ FutureStart' \in Nat
           /\ FutureStart <= FutureStart'
           /\ \A l \in Nat : MayStart(l) => MayStart(l)'
<1>1. startSpec' = startSpec
  BY DEF OneSpec, TypeOK, Next, TickStep, Answered, OwnStep, CloseLedger, StartTick, Resolve, RecordMark,
     FetchPage, FetchOutOfRange, Reclamp, InsertEvent, FinishPage, TickFails,
     Restart, chain, vars
<1>2. head \in Nat \ {0} /\ (head' = head \/ head' = head + 1)
  BY DEF TypeOK, Next, TickStep, Answered, OwnStep, CloseLedger, StartTick, Resolve, RecordMark,
     FetchPage, FetchOutOfRange, Reclamp, InsertEvent, FinishPage, TickFails,
     Restart, chain, vars
<1>3. /\ Oldest \in Nat /\ Oldest' \in Nat /\ Oldest <= Oldest'
      /\ Oldest <= head /\ Oldest' <= head'
  <2>1. Oldest \in Nat /\ Oldest' \in Nat /\ Oldest <= Oldest'
    BY OldestMoves
  <2>2. Oldest <= head /\ Oldest' <= head'
    BY <1>2, ConstantsAssumption DEF Oldest
  <2> QED BY <2>1, <2>2
<1>4. /\ startSpec.mode \in {"head", "oldest", "ledger"}
      /\ startSpec.mode = "ledger" => startSpec.ledger \in Nat
      /\ FutureStart \in Nat
  BY FutureTyped
<1>5. FutureStart' \in Nat /\ FutureStart <= FutureStart'
  <2>1. CASE startSpec.mode = "head"
    BY <1>1, <1>2, <2>1 DEF FutureStart
  <2>2. CASE startSpec.mode = "oldest"
    BY <1>1, <1>3, <2>2 DEF FutureStart
  <2>3. CASE startSpec.mode = "ledger"
    BY <1>1, <1>2, <1>3, <1>4, <2>3 DEF FutureStart
  <2> QED BY <1>4, <2>1, <2>2, <2>3
<1>6. ASSUME NEW l \in Nat, MayStart(l)
      PROVE  MayStart(l)'
  BY <1>1, <1>4, <1>5, <1>6 DEF MayStart
<1> QED BY <1>1, <1>4, <1>5, <1>6

\* A start that the RPC serves is not above where a later first run starts.
LEMMA StartServed ==
    ASSUME TypeOK, NEW l \in Nat, l <= head, MayStart(l)
    PROVE  l <= FutureStart
<1>1. Oldest \in Nat /\ head \in Nat
  BY OldestType DEF TypeOK
<1> QED BY <1>1, FutureTyped DEF MayStart, FutureStart

\* Where a plan starts, and where a refused start is moved to, nothing is missing.
LEMMA PlanStarts ==
    ASSUME TypeOK, ClosedFrom(FutureStart)
    PROVE  LET l == Plan(startSpec, Oldest, head).effective
           IN  l \in Nat /\ ClosedFrom(l) /\ MayStart(l)
<1> DEFINE l == Plan(startSpec, Oldest, head).effective
<1>1. l = EffectiveStart(startSpec, Oldest, head)
  BY DEF Plan
<1>2. Oldest \in Nat /\ head \in Nat /\ Oldest <= head
  BY OldestType DEF TypeOK
<1>3. l \in Nat /\ FutureStart <= l /\ MayStart(l)
  BY <1>1, <1>2, FutureTyped DEF EffectiveStart, Clamps, FutureStart, MayStart
<1>4. ClosedFrom(l)
  <2> HIDE DEF l
  <2> QED BY <1>3, FutureTyped, ClosedFromLater DEF TypeOK
<1> QED BY <1>3, <1>4
\* The start of a page, while a task reads, stays closed when the page's next
\* event is stored; and that event comes after every stored one, or is one.
LEMMA InsertInOrder ==
    ASSUME TypeOK, NEW t \in Tasks, tick[t].todo \subseteq log,
           NEW e \in tick[t].todo, IsFirst(e, tick[t].todo), InBase(t, e),
           IF cursor = None THEN ClosedFrom(tick[t].start) ELSE ClosedAfter,
           \A f \in log : InBase(t, f) /\ Before(f, e) => f \in events \union tick[t].todo
    PROVE  /\ \A f \in log : InBase(t, f) /\ Before(f, e) => f \in events
           /\ e \notin events => \A f \in events : Before(f, e)
<1>0. /\ log \subseteq Position /\ events \subseteq log
      /\ e \in log /\ e \in Position
      /\ cursor \in Position \union {None}
      /\ tick[t].start \in Nat
  BY DEF TypeOK, TickType
<1>1. ASSUME NEW f \in log, InBase(t, f), Before(f, e)
      PROVE  f \in events
  <2>1. f \notin tick[t].todo
    BY <1>0, <1>1 DEF IsFirst, AtOrBefore, Before, Position
  <2> QED BY <1>1, <2>1
<1>2. ASSUME e \notin events, NEW f \in events
      PROVE  Before(f, e)
  <2>1. f \in Position /\ f # e
    BY <1>0, <1>2
  <2>2. ~Before(e, f)
    <3>1. CASE cursor = None
      BY <1>0, <1>2, <3>1 DEF ClosedFrom, InBase
    <3>2. CASE cursor # None
      BY <1>0, <1>2, <3>2 DEF ClosedAfter, InBase
    <3> QED BY <3>1, <3>2
  <2> QED BY <1>0, <2>1, <2>2 DEF Before, Position
<1> QED BY <1>1, <1>2

\* A step that leaves the tables, the chain and the configuration alone.
LEMMA OrderQuiet ==
    ASSUME SingleTask, OrderInv, HoleFree', NEW t \in Tasks,
           UNCHANGED <<head, log, events, cursor, startSpec>>, OrderOK(t)'
    PROVE  OrderInv'
<1>1. \A u \in Tasks : OrderOK(u)'
  BY DEF SingleTask
<1>2. IF cursor' = None THEN ClosedFrom(FutureStart)' ELSE ClosedAfter'
  BY DEF OrderInv, ClosedFrom, ClosedAfter, FutureStart, Oldest
<1> QED BY <1>1, <1>2 DEF OrderInv

\* Every step, with one task and one configuration.
LEMMA OrderInductive ==
    ASSUME SingleTask, OneSpec, OrderInv, [Next]_vars
    PROVE  OrderInv'
<1>0. /\ HoleFree /\ HoleFree' /\ TypeOK /\ TypeOK' /\ TypeInv
      /\ \A t \in Tasks : TickOK(t) /\ LocalsOK(t) /\ OrderOK(t) /\ tick[t] \in TickType
      /\ tick \in [Tasks -> TickType]
      /\ \A t, u \in Tasks : t = u
      /\ cursor \in Position \union {None}
      /\ log \subseteq Position /\ events \subseteq log /\ head \in Nat
      /\ \A e \in log : e.ledger <= head
  BY HoleFreeInductive DEF OrderInv, HoleFree, TypeInv, TypeOK, SingleTask
<1>f. /\ startSpec' = startSpec
      /\ FutureStart \in Nat /\ FutureStart' \in Nat
      /\ FutureStart <= FutureStart'
      /\ \A l \in Nat : MayStart(l) => MayStart(l)'
  BY <1>0, FutureMoves
<1>1. ASSUME NEW n \in 0..EventsPerLedger, CloseLedger(n)
      PROVE  OrderInv'
  <2>1. /\ head' = head + 1 /\ log \subseteq log'
        /\ UNCHANGED <<events, cursor, mark, tick>>
        /\ \A e \in log' \ log : e.ledger = head + 1
    BY <1>1 DEF CloseLedger, database
  <2>2. ASSUME NEW l \in Nat, ClosedFrom(l)
        PROVE  ClosedFrom(l)'
    <3> SUFFICES ASSUME NEW f \in events, NEW e \in log', e.ledger >= l, Before(e, f)
                 PROVE  e \in events
      BY <2>1 DEF ClosedFrom
    <3>1. e \in log
      BY <1>0, <2>1 DEF Before, Position
    <3> QED BY <2>2, <3>1 DEF ClosedFrom
  <2>3. ASSUME cursor = None
        PROVE  ClosedFrom(FutureStart)'
    <3>1. ClosedFrom(FutureStart)
      BY <2>3 DEF OrderInv
    <3>2. \A f \in events, e \in log : e.ledger >= FutureStart /\ Before(e, f) => e \in events
      BY <3>1 DEF ClosedFrom
    <3> SUFFICES ASSUME NEW f \in events, NEW e \in log', e.ledger >= FutureStart', Before(e, f)
                 PROVE  e \in events
      BY <2>1 DEF ClosedFrom
    <3>3. e \in log
      BY <1>0, <2>1 DEF Before, Position
    <3> QED BY <1>0, <1>f, <3>2, <3>3 DEF Position
  <2>4. ASSUME cursor # None
        PROVE  ClosedAfter'
    <3>1. ClosedAfter
      BY <2>4 DEF OrderInv
    <3> SUFFICES ASSUME NEW f \in events, NEW e \in log', Before(cursor, e), Before(e, f)
                 PROVE  e \in events
      BY <2>1 DEF ClosedAfter
    <3>2. e \in log
      BY <1>0, <2>1 DEF Before, Position
    <3> QED BY <3>1, <3>2 DEF ClosedAfter
  <2>5. ASSUME NEW t \in Tasks
        PROVE  OrderOK(t)'
    <3>1. tick[t].pc = "mark" => tick[t].plan.effective \in Nat
      BY <1>0, NoneAssumption DEF LocalsOK, TickType, PlanType
    <3>2. tick[t].start \in Nat /\ tick[t].todo \subseteq log /\ OrderOK(t)
      BY <1>0 DEF LocalsOK, TickType
    <3>3. tick[t].pc = "mark" =>
             (ClosedFrom(tick[t].plan.effective) /\ MayStart(tick[t].plan.effective))'
      BY <1>f, <2>1, <2>2, <3>1, <3>2 DEF OrderOK, ClosedFrom, MayStart
    <3>4. tick[t].pc \in {"fetch", "reclamp", "insert"} /\ cursor = None =>
             (ClosedFrom(tick[t].start) /\ MayStart(tick[t].start))'
      BY <1>f, <2>1, <2>2, <3>2 DEF OrderOK, ClosedFrom, MayStart
    <3>5. ASSUME tick[t].pc = "insert", NEW e \in tick[t].todo
          PROVE  /\ InBase(t, e)'
                 /\ \A f \in log' : InBase(t, f)' /\ Before(f, e) =>
                                      f \in events \union tick[t].todo
      <4>1. /\ InBase(t, e)
            /\ \A f \in log : InBase(t, f) /\ Before(f, e) =>
                                 f \in events \union tick[t].todo
        BY <3>2, <3>5 DEF OrderOK
      <4>2. \A f \in log' : Before(f, e) => f \in log
        BY <1>0, <2>1, <3>2 DEF Before, Position
      <4> QED BY <2>1, <4>1, <4>2 DEF InBase
    <3>6. tick[t].start <= head => tick[t].start <= head'
      BY <1>0, <2>1, <3>2
    <3> QED BY <2>1, <3>2, <3>3, <3>4, <3>5, <3>6 DEF OrderOK
  <2> QED BY <1>0, <2>1, <2>3, <2>4, <2>5 DEF OrderInv
<1>2. ASSUME NEW t \in Tasks, UNCHANGED <<head, log, events, cursor, startSpec>>,
             tick'[t].pc \in {"idle", "resolve"}
                \/ (tick'[t].pc = "fetch" /\ cursor # None)
      PROVE  OrderInv'
  <2>1. OrderOK(t)'
    BY <1>2 DEF OrderOK
  <2> QED BY <1>0, <1>2, <2>1, OrderQuiet
<1>3. ASSUME NEW t \in Tasks, UNCHANGED <<head, log, events, cursor, startSpec>>,
             tick'[t].pc \in {"fetch", "reclamp"}, NEW l \in Nat, tick'[t].start = l,
             ClosedFrom(l), MayStart(l)
      PROVE  OrderInv'
  <2>1. ClosedFrom(l)' /\ MayStart(l)'
    BY <1>3 DEF ClosedFrom, MayStart, FutureStart, Oldest
  <2>2. OrderOK(t)'
    BY <1>3, <2>1 DEF OrderOK, ClosedFrom, MayStart
  <2> QED BY <1>0, <1>3, <2>2, OrderQuiet
<1>4. ASSUME NEW t \in Tasks, StartTick(t) \/ TickFails(t)
      PROVE  OrderInv'
  <2>1. UNCHANGED <<head, log, events, cursor, startSpec>>
    BY <1>4 DEF StartTick, TickFails, chain, database
  <2>2. \/ tick'[t].pc \in {"idle", "resolve"}
        \/ tick'[t].pc = "fetch" /\ cursor # None
    <3>1. CASE StartTick(t)
      BY <1>0, <3>1 DEF StartTick, IdleTick, FirstRun, TypeInv
    <3>2. CASE TickFails(t)
      BY <1>0, <3>2 DEF TickFails, IdleTick, AfterError
    <3> QED BY <1>4, <3>1, <3>2
  <2> QED BY <1>2, <2>1, <2>2
<1>5. ASSUME NEW t \in Tasks, Resolve(t)
      PROVE  OrderInv'
  <2> DEFINE pl == Plan(startSpec, Oldest, head)
             l  == pl.effective
  <2>1. UNCHANGED <<head, log, events, cursor, startSpec>> /\ cursor = None
    BY <1>0, <1>5 DEF Resolve, chain, database, TickOK
  <2>2. l \in Nat /\ ClosedFrom(l) /\ MayStart(l)
    BY <1>0, <2>1, PlanStarts DEF OrderInv
  <2>3. tick'[t].pc = "mark" /\ tick'[t].plan = pl
    BY <1>0, <1>5 DEF Resolve, TickType
  <2> HIDE DEF pl
  <2>4. tick'[t].plan.effective = l
    BY <2>3
  <2> HIDE DEF l
  <2>5. \A f \in events', e \in log' : e.ledger >= l /\ Before(e, f) => e \in events'
    BY <2>1, <2>2 DEF ClosedFrom
  <2>6. l <= FutureStart' \/ (startSpec'.mode = "ledger" /\ l = startSpec'.ledger)
    BY <2>1, <2>2 DEF MayStart, FutureStart, Oldest
  <2>7. OrderOK(t)'
    BY <2>3, <2>4, <2>5, <2>6 DEF OrderOK, ClosedFrom, MayStart
  <2> QED BY <1>0, <2>1, <2>7, OrderQuiet
<1>6. ASSUME NEW t \in Tasks, RecordMark(t)
      PROVE  OrderInv'
  <2>1. /\ UNCHANGED <<head, log, events, cursor, startSpec>>
        /\ tick'[t].pc = "fetch" /\ tick'[t].start = tick[t].plan.effective
    BY <1>0, <1>6 DEF RecordMark, chain, TickType
  <2>2. tick[t].plan.effective \in Nat
    BY <1>0, <1>6 DEF RecordMark, LocalsOK, TickType, PlanType
  <2>3. ClosedFrom(tick[t].plan.effective) /\ MayStart(tick[t].plan.effective)
    BY <1>0, <1>6 DEF RecordMark, OrderOK
  <2> QED BY <1>3, <2>1, <2>2, <2>3
<1>7. ASSUME NEW t \in Tasks, Reclamp(t)
      PROVE  OrderInv'
  <2>1. /\ UNCHANGED <<head, log, events, cursor, startSpec>>
        /\ tick'[t].pc = "fetch" /\ tick'[t].start = tick[t].start
        /\ tick[t].start \in Nat
    BY <1>0, <1>7 DEF Reclamp, chain, TickType
  <2>2. ClosedFrom(tick[t].start) /\ MayStart(tick[t].start)
    BY <1>0, <1>7 DEF Reclamp, OrderOK, TickOK
  <2> QED BY <1>3, <2>1, <2>2
<1>8. ASSUME NEW t \in Tasks, FetchOutOfRange(t)
      PROVE  OrderInv'
  <2>1. UNCHANGED <<head, log, events, cursor, startSpec>>
    BY <1>8 DEF FetchOutOfRange, chain, database
  <2>2. CASE ~MayReclamp(t)
    <3>1. tick'[t].pc = "idle"
      BY <1>0, <1>8, <2>2 DEF FetchOutOfRange, AfterError, IdleTick
    <3> QED BY <1>2, <2>1, <3>1
  <2>3. CASE MayReclamp(t)
    <3>1. tick'[t].pc = "reclamp" /\ tick'[t].start = Oldest
      BY <1>0, <1>8, <2>3 DEF FetchOutOfRange, TickType
    <3>2. cursor = None /\ tick[t].cur = None
      BY <1>0, <1>8, <2>3 DEF FetchOutOfRange, MayReclamp, TickOK
    <3>3. /\ tick[t].start \in Nat
          /\ ClosedFrom(tick[t].start) /\ MayStart(tick[t].start)
          /\ tick[t].start < Oldest \/ tick[t].start > head
      BY <1>0, <1>8, <3>2, OldestType
      DEF FetchOutOfRange, OrderOK, InRange, From, TickType
    <3>4. Oldest \in Nat /\ Oldest <= FutureStart
      BY <1>0, OldestType, FutureTyped DEF FutureStart
    <3>5. ClosedFrom(Oldest)
      <4>1. CASE tick[t].start < Oldest
        BY <1>0, <3>3, <3>4, <4>1, ClosedFromLater
      <4>2. CASE tick[t].start > head
        <5>1. FutureStart = Oldest
          BY <1>0, <3>3, <4>2, FutureTyped DEF MayStart, FutureStart
        <5> QED BY <3>2, <5>1 DEF OrderInv
      <4> QED BY <3>3, <4>1, <4>2
    <3> QED BY <1>3, <2>1, <3>1, <3>4, <3>5 DEF MayStart
  <2> QED BY <2>2, <2>3
<1>9. ASSUME NEW t \in Tasks, FetchPage(t)
      PROVE  OrderInv'
  <2>1. PICK p \in SUBSET Matching(t) :
          \E c \in p \union {EndOf(ScanEnd(t)), None}, l \in 0..head :
             /\ IsPage(p, t) /\ IsNext(c, p, t)
             /\ tick' = [tick EXCEPT ![t] =
                          [tick[t] EXCEPT !.pc = "insert", !.todo = p, !.full = Full(p),
                                          !.last = l, !.next = c, !.latest = head]]
    BY <1>9 DEF FetchPage
  <2>2. PICK c \in p \union {EndOf(ScanEnd(t)), None}, l \in 0..head :
             /\ IsPage(p, t) /\ IsNext(c, p, t)
             /\ tick' = [tick EXCEPT ![t] =
                          [tick[t] EXCEPT !.pc = "insert", !.todo = p, !.full = Full(p),
                                          !.last = l, !.next = c, !.latest = head]]
    BY <2>1
  <2>3. /\ tick'[t].pc = "insert" /\ tick'[t].todo = p /\ tick'[t].next = c
        /\ tick'[t].start = tick[t].start
    BY <1>0, <2>2 DEF TickType
  <2>4. /\ UNCHANGED <<head, log, events, cursor, startSpec>>
        /\ tick[t].pc = "fetch" /\ tick[t].cur = cursor /\ InRange(t)
        /\ tick[t].start \in Nat
    BY <1>0, <1>9 DEF FetchPage, chain, database, TickOK, TickType
  <2>5. /\ From(t) \in Nat /\ ScanEnd(t) \in Nat /\ From(t) <= ScanEnd(t)
        /\ From(t) = IF cursor = None THEN tick[t].start ELSE cursor.ledger
    BY <1>0, <2>4, ScanEndTyped DEF From
  <2>6. ASSUME cursor = None
        PROVE  /\ ClosedFrom(tick[t].start) /\ MayStart(tick[t].start)
               /\ tick[t].start <= head
               /\ c # None => tick[t].start <= c.ledger
    <3>1. ClosedFrom(tick[t].start) /\ MayStart(tick[t].start)
      BY <1>0, <2>4, <2>6 DEF OrderOK
    <3>2. tick[t].start <= head
      BY <2>4, <2>5, <2>6 DEF InRange
    <3>3. c # None => tick[t].start <= c.ledger
      BY <2>5, <2>6 DEF Matching, EndOf
    <3> QED BY <3>1, <3>2, <3>3
  <2>7. ASSUME NEW e \in p
        PROVE  InBase(t, e)
    BY <2>4, <2>5, <2>7 DEF Matching, InBase
  <2>8. ASSUME NEW e \in p, NEW f \in log, InBase(t, f), Before(f, e)
        PROVE  f \in p
    <3>1. e \in Position /\ e.ledger <= ScanEnd(t) /\ f \in Position
      BY <1>0 DEF Matching
    <3>2. f.ledger <= ScanEnd(t)
      BY <2>5, <2>8, <3>1 DEF Before, Position
    <3>3. From(t) <= f.ledger /\ (cursor # None => Before(cursor, f))
      BY <1>0, <2>4, <2>5, <2>8, <3>1 DEF InBase, Before, Position
    <3>4. f \in Matching(t)
      BY <2>4, <3>2, <3>3 DEF Matching
    <3> QED BY <2>2, <2>8, <3>4 DEF IsPage
  <2>9. cursor = None => (ClosedFrom(tick[t].start) /\ MayStart(tick[t].start))'
    BY <2>3, <2>4, <2>6 DEF ClosedFrom, MayStart, FutureStart, Oldest
  <2>10. \A e \in p : /\ InBase(t, e)'
                      /\ \A f \in log : InBase(t, f)' /\ Before(f, e) => f \in p
    BY <2>3, <2>4, <2>7, <2>8 DEF InBase
  <2>11. OrderOK(t)'
    BY <2>3, <2>4, <2>6, <2>9, <2>10 DEF OrderOK
  <2> QED BY <1>0, <2>4, <2>11, OrderQuiet
<1>10. ASSUME NEW t \in Tasks, InsertEvent(t)
       PROVE  OrderInv'
  <2>1. PICK e \in tick[t].todo :
          /\ IsFirst(e, tick[t].todo)
          /\ events' = events \union {e}
          /\ tick' = [tick EXCEPT ![t] = [tick[t] EXCEPT !.todo = tick[t].todo \ {e}]]
    BY <1>10 DEF InsertEvent
  <2>2. /\ UNCHANGED <<head, log, cursor, startSpec>> /\ tick[t].pc = "insert"
        /\ tick'[t] = [tick[t] EXCEPT !.todo = tick[t].todo \ {e}]
        /\ tick[t].todo \subseteq log
        /\ tick[t].start \in Nat
    BY <1>0, <1>10, <2>1 DEF InsertEvent, chain, LocalsOK, TickType
  <2>3. /\ tick'[t].pc = "insert" /\ tick'[t].todo = tick[t].todo \ {e}
        /\ tick'[t].start = tick[t].start /\ tick'[t].next = tick[t].next
    BY <1>0, <2>2 DEF TickType
  <2>4. OrderOK(t)
    BY <1>0
  <2>5. IF cursor = None THEN ClosedFrom(tick[t].start) ELSE ClosedAfter
    BY <2>2, <2>4 DEF OrderOK, OrderInv
  <2>6. \A f \in log : InBase(t, f) /\ Before(f, e) => f \in events
    BY <1>0, <2>1, <2>2, <2>4, <2>5, InsertInOrder DEF OrderOK
  <2>7. ASSUME cursor = None
        PROVE  /\ ClosedFrom(tick[t].start)' /\ ClosedFrom(FutureStart)'
               /\ MayStart(tick[t].start)'
    <3>1. \A f \in events', g \in log : g.ledger >= tick[t].start /\ Before(g, f) => g \in events'
      BY <2>1, <2>5, <2>6, <2>7 DEF ClosedFrom, InBase
    <3>2. MayStart(tick[t].start) /\ tick[t].start <= FutureStart /\ FutureStart' = FutureStart
      BY <1>0, <2>2, <2>4, <2>7, StartServed DEF OrderOK, FutureStart, Oldest
    <3>3. \A g \in log : g.ledger >= FutureStart => g.ledger >= tick[t].start
      BY <1>0, <1>f, <2>2, <3>2 DEF Position
    <3> QED BY <2>2, <2>3, <3>1, <3>2, <3>3 DEF ClosedFrom, MayStart
  <2>8. ASSUME cursor # None
        PROVE  ClosedAfter'
    BY <2>1, <2>2, <2>5, <2>6, <2>8 DEF ClosedAfter, InBase
  <2>9. \A g \in tick'[t].todo :
           /\ InBase(t, g)'
           /\ \A f \in log : InBase(t, f)' /\ Before(f, g) => f \in events' \union tick'[t].todo
    BY <2>1, <2>2, <2>3, <2>4 DEF OrderOK, InBase
  <2>10. OrderOK(t)'
    BY <2>2, <2>3, <2>4, <2>7, <2>9 DEF OrderOK
  <2> QED BY <1>0, <2>2, <2>7, <2>8, <2>10 DEF OrderInv
<1>11. ASSUME NEW t \in Tasks, FinishPage(t)
       PROVE  OrderInv'
  <2>1. UNCHANGED <<head, log, events, startSpec>> /\ tick[t].pc = "insert"
    BY <1>11 DEF FinishPage, chain
  <2>2. CASE tick[t].next = None
    <3>1. cursor' = cursor /\ tick[t].cur = None /\ tick'[t].pc = "idle"
      BY <1>0, <1>11, <2>1, <2>2 DEF FinishPage, TickOK, IdleTick
    <3> QED BY <1>2, <2>1, <3>1
  <2>3. CASE tick[t].next # None
    <3>1. /\ cursor' = tick[t].next /\ cursor' \in Position
          /\ tick'[t].pc \in {"idle", "fetch"}
      BY <1>0, <1>11, <2>3 DEF FinishPage, IdleTick, TickType
    <3>2. NextOK(t) /\ OrderOK(t) /\ tick[t].start \in Nat
      BY <1>0, <2>1, <2>3 DEF TickOK, TickType
    <3>3. ClosedAfter'
      <4> SUFFICES ASSUME NEW f \in events, NEW e \in log,
                          Before(tick[t].next, e), Before(e, f)
                   PROVE  e \in events
        BY <2>1, <3>1 DEF ClosedAfter
      <4>0. /\ e \in Position /\ tick[t].next \in Position
        BY <1>0, <3>1
      <4>1. CASE cursor = None
        <5>1. ClosedFrom(tick[t].start) /\ tick[t].start <= tick[t].next.ledger
          BY <2>1, <2>3, <3>2, <4>1 DEF OrderOK
        <5>2. e.ledger >= tick[t].start
          BY <3>2, <4>0, <5>1 DEF Before, Position
        <5> QED BY <5>1, <5>2 DEF ClosedFrom
      <4>2. CASE cursor # None
        <5>1. Before(cursor, e)
          BY <1>0, <3>2, <4>0, <4>2 DEF NextOK, AtOrBefore, Before, Position
        <5> QED BY <4>2, <5>1 DEF OrderInv, ClosedAfter
      <4> QED BY <4>1, <4>2
    <3>4. cursor' # None
      BY <2>3, <3>1
    <3>5. OrderOK(t)'
      BY <3>1, <3>4 DEF OrderOK
    <3> QED BY <1>0, <3>3, <3>4, <3>5 DEF OrderInv
  <2> QED BY <2>2, <2>3
<1>12. CASE Restart
  <2>1. UNCHANGED <<head, log, events, cursor>> /\ \A t \in Tasks : tick'[t].pc = "idle"
    BY <1>12 DEF Restart, chain, database, IdleTick
  <2>2. IF cursor' = None THEN ClosedFrom(FutureStart)' ELSE ClosedAfter'
    BY <1>f, <2>1 DEF OrderInv, ClosedFrom, ClosedAfter, FutureStart, Oldest
  <2>3. \A t \in Tasks : OrderOK(t)'
    BY <2>1 DEF OrderOK
  <2> QED BY <1>0, <2>2, <2>3 DEF OrderInv
<1>13. CASE UNCHANGED vars
  BY <1>0, <1>13 DEF vars, OrderInv, OrderOK, ClosedFrom, ClosedAfter, MayStart,
     FutureStart, Oldest, InBase
<1> QED
  BY <1>1, <1>4, <1>5, <1>6, <1>7, <1>8, <1>9, <1>10, <1>11, <1>12, <1>13
  DEF Next, TickStep, Answered, OwnStep

\* With one ingestor task and one configuration, the table only grows at its end,
\* through pages cut short, re-clamps, failures and restarts: what a reader that
\* follows event ids relies on (ingest.rs:81-114; EventsPaging, AppendOnly).
THEOREM TableGrowsAtItsEnd == SingleTask /\ OneSpec => (Spec => StoresInOrder)
<1> SUFFICES ASSUME SingleTask, OneSpec PROVE Spec => StoresInOrder
  OBVIOUS
<1>1. Init => OrderInv
  <2>1. Init => HoleFree
    BY ConstantsAssumption
    DEF Init, HoleFree, TypeInv, TypeOK, LocalsOK, IdleTick, TickType, TickOK, HeldThroughCursor
  <2> QED BY <2>1 DEF Init, OrderInv, OrderOK, ClosedFrom, IdleTick
<1>2. OrderInv /\ [Next]_vars => OrderInv'
  BY OrderInductive
<1>3. OrderInv /\ [Next]_vars
        => [\A e \in events' \ events, f \in events : Before(f, e)]_vars
  <2> SUFFICES ASSUME OrderInv, Next, NEW e \in events' \ events, NEW f \in events
               PROVE  Before(f, e)
    OBVIOUS
  <2>1. PICK t \in Tasks : InsertEvent(t)
    BY DEF Next, TickStep, Answered, OwnStep, CloseLedger, StartTick, Resolve, RecordMark, FetchPage,
       FetchOutOfRange, Reclamp, FinishPage, TickFails, Restart, database
  <2>2. e \in tick[t].todo /\ IsFirst(e, tick[t].todo) /\ tick[t].pc = "insert"
    BY <2>1 DEF InsertEvent
  <2>3. /\ OrderOK(t) /\ TypeOK /\ tick[t].todo \subseteq log
        /\ IF cursor = None THEN ClosedFrom(FutureStart) ELSE ClosedAfter
    BY DEF OrderInv, HoleFree, TypeInv, LocalsOK
  <2>4. IF cursor = None THEN ClosedFrom(tick[t].start) ELSE ClosedAfter
    BY <2>2, <2>3 DEF OrderOK
  <2> QED BY <2>2, <2>3, <2>4, InsertInOrder DEF OrderOK
<1> QED BY <1>1, <1>2, <1>3, PTL DEF Spec, StoresInOrder
-----------------------------------------------------------------------------
(* The service                                                              *)

\* The chain stays within its bounds, and the client is the one chosen.
InBounds ==
    /\ log \subseteq [ledger : 1..MaxLedger, index : 1..EventsPerLedger]
    /\ client \in Clients

\* No client relies on the order in which the ingestor stores.
NoneRelies == \A c \in Clients : ~c.appendOnly

\* The ingestor does not see the reader.
LEMMA ServiceIngests ==
    /\ ServiceInit => Init
    /\ [ServiceNext]_<<vars, readVars>> => [Next]_vars
<1>1. ServiceNext => [Next]_vars
  BY DEF ServiceNext, Ingest, Read, Stop, Next
<1> QED
  BY <1>1 DEF ServiceInit

\* The bounds hold.
LEMMA BoundsHold ==
    /\ ServiceInit => InBounds
    /\ InBounds /\ TypeOK /\ [ServiceNext]_<<vars, readVars>> => InBounds'
<1>1. ServiceInit => InBounds
  BY DEF ServiceInit, Init, InBounds, Reader!Init
<1>2. ASSUME [ServiceNext]_<<vars, readVars>>
      PROVE  client' = client
  BY <1>2 DEF ServiceNext, Ingest, Read, Stop, readVars, Reader!StoreOther, Reader!Serve,
     Reader!ReadFloor, Reader!ReadRows, Reader!ReadLatest, Reader!Begin, Reader!Follow,
     Reader!Ask, Reader!Accept, Reader!TryFails, Reader!Refused
<1>3. ASSUME InBounds, TypeOK, [Next]_vars
      PROVE  log' \subseteq [ledger : 1..MaxLedger, index : 1..EventsPerLedger]
  <2>1. CASE log' = log
    BY <1>3, <2>1 DEF InBounds
  <2>2. ASSUME NEW n \in 0..EventsPerLedger, CloseLedger(n)
        PROVE  log' \subseteq [ledger : 1..MaxLedger, index : 1..EventsPerLedger]
    <3>1. head + 1 \in 1..MaxLedger /\ 1..n \subseteq 1..EventsPerLedger
      BY <1>3, <2>2, ConstantsAssumption DEF CloseLedger, TypeOK
    <3> QED
      BY <1>3, <2>2, <3>1 DEF CloseLedger, InBounds
  <2> QED
    BY <1>3, <2>1, <2>2 DEF Next, TickStep, Answered, OwnStep, StartTick, Resolve, RecordMark, FetchPage,
       FetchOutOfRange, Reclamp, InsertEvent, FinishPage, TickFails, Restart, chain, vars
<1> QED
  BY <1>1, <1>2, <1>3, ServiceIngests DEF InBounds

\* The ingestor's steps are, for the reader, the storing of an event or nothing.
LEMMA IngestStores ==
    ASSUME TypeOK, TypeOK', InBounds, InBounds', Next, UNCHANGED readVars,
           client.appendOnly => \A e \in events' \ events, f \in events : Before(f, e)
    PROVE  Reader!Store \/ UNCHANGED Reader!vars
<1>1. CASE events' = events
  BY <1>1 DEF Reader!vars, readVars
<1>2. CASE events' # events
  <2>1. PICK t \in Tasks : InsertEvent(t)
    BY <1>2 DEF Next, TickStep, Answered, OwnStep, CloseLedger, StartTick, Resolve, RecordMark, FetchPage,
       FetchOutOfRange, Reclamp, FinishPage, TickFails, Restart, database
  <2>2. PICK e : events' = events \union {e}
    BY <2>1 DEF InsertEvent
  <2>3. e \notin events /\ e \in [ledger : 1..MaxLedger, index : 1..EventsPerLedger]
    BY <1>2, <2>2 DEF TypeOK, InBounds
  <2>4. client.appendOnly => \A f \in events : Before(f, e)
    BY <2>2, <2>3
  <2> QED
    BY <2>2, <2>3, <2>4
    DEF Reader!Store, Reader!AppendOnly, Reader!Before, Before, readVars
<1> QED
  BY <1>1, <1>2

\* Every step of the service is a step of the reader's specification.
LEMMA ServiceStep ==
    ASSUME TypeOK, TypeOK', InBounds, InBounds', [ServiceNext]_<<vars, readVars>>,
           client.appendOnly => \A e \in events' \ events, f \in events : Before(f, e)
    PROVE  [Reader!Next]_(Reader!vars)
<1>1. CASE Ingest
  <2>1. Next /\ UNCHANGED readVars
    BY <1>1 DEF Ingest, Next
  <2> QED
    BY <2>1, IngestStores DEF Reader!Next
<1>2. CASE Read
  BY <1>2 DEF Read, Reader!Next
<1>3. CASE Stop
  <2>1. events' = events
    BY <1>3 DEF Stop, Restart, database
  <2> QED
    BY <1>3, <2>1 DEF Stop, Reader!Next, Reader!vars, readVars
<1>4. CASE UNCHANGED <<vars, readVars>>
  BY <1>4 DEF vars, readVars, Reader!vars
<1> QED
  BY <1>1, <1>2, <1>3, <1>4 DEF ServiceNext

\* While one process with one configuration runs one ingestor for the contract, its table
\* grows as EventsPaging assumes, through every failure, re-clamp and restart; and
\* whatever runs, it grows as a client that does not rely on the order assumes.
THEOREM ServiceServesPages ==
    (SingleTask /\ OneSpec) \/ NoneRelies => (ServiceSpec => Pages)
<1> SUFFICES ASSUME (SingleTask /\ OneSpec) \/ NoneRelies
             PROVE  ServiceSpec => Pages
  OBVIOUS
<1>1. ServiceSpec => Spec
  BY ServiceIngests, PTL DEF ServiceSpec, Spec
<1>2. ServiceSpec => []TypeOK
  BY <1>1, TypeCorrect, PTL
<1>3. ServiceSpec => []InBounds
  BY <1>2, BoundsHold, PTL DEF ServiceSpec
<1>4. ServiceInit => Reader!Init
  BY DEF ServiceInit
<1>5. CASE SingleTask /\ OneSpec
  <2>1. ServiceSpec => StoresInOrder
    BY <1>1, <1>5, TableGrowsAtItsEnd
  <2>2. /\ TypeOK /\ TypeOK' /\ InBounds /\ InBounds' /\ [ServiceNext]_<<vars, readVars>>
        /\ [\A e \in events' \ events, f \in events : Before(f, e)]_vars
        => [Reader!Next]_(Reader!vars)
    BY ServiceStep DEF vars
  <2> QED
    BY <1>2, <1>3, <1>4, <2>1, <2>2, PTL
    DEF ServiceSpec, StoresInOrder, Pages, Reader!Spec
<1>6. CASE NoneRelies
  <2>1. /\ TypeOK /\ TypeOK' /\ InBounds /\ InBounds' /\ [ServiceNext]_<<vars, readVars>>
        => [Reader!Next]_(Reader!vars)
    BY <1>6, ServiceStep DEF NoneRelies, InBounds
  <2> QED
    BY <1>2, <1>3, <1>4, <2>1, PTL DEF ServiceSpec, Pages, Reader!Spec
<1> QED
  BY <1>5, <1>6
=============================================================================
