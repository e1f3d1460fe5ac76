------------------------- MODULE EventsPagingProofs -------------------------
(***************************************************************************)
(* What a paged read is worth, for every page size, page cap, number of    *)
(* tries, start ledger and retention window, whatever is stored between    *)
(* two queries of the server.  The inductive invariant says what a read    *)
(* has left behind its cursor.                                             *)
(***************************************************************************)
EXTENDS EventsPaging, TLAPS

Serving == {"latest", "reply"}

\* Tries and pages left.
Counted ==
    /\ read.pc = "ask" => read.tries < Attempts
    /\ read.pc \in {"ask", "wait"} => read.pages < MaxPages

Rows == [ledger : Nat \ {0}, index : Nat]

\* What the read holds is in the index, at or before the cursor.
Collected ==
    /\ stored \subseteq Rows
    /\ req.pc # "none" => read.pc = "wait"
    /\ read.got \subseteq Wanted(stored)
    /\ read.cursor = NoCursor => read.got = {}
    /\ read.cursor # NoCursor => read.cursor \in read.got
    /\ \A f \in read.got : AtOrBefore(f, read.cursor)

Floor(l) == IF l - Window + 1 > 0 THEN l - Window + 1 ELSE 0

\* No floor is above the one that the next request gets when its query succeeds:
\* MAX(ledger) grows.
Fits(f) ==
    /\ Window = 0 => f = 0
    /\ \A l \in Nat : others <= l /\ (\A e \in stored : e.ledger <= l) => f <= Floor(l)

FloorsRise ==
    /\ req.pc = "floor" => Window > 0
    /\ Fits(read.forgot)
    /\ read.oldest \in {0, read.forgot}
    /\ req.pc \in {"rows"} \union Serving =>
          Fits(req.floor) /\ (req.floor = 0 \/ read.forgot <= req.floor)

\* Nothing wanted is left behind the cursor, but what a floor excluded or what was
\* stored there since.
Behind ==
    /\ \A e \in Wanted(atStart) :
          read.cursor # NoCursor /\ AtOrBefore(e, read.cursor) =>
             e \in read.got \/ e.ledger < read.forgot
    /\ AppendOnly /\ Window = 0 =>
          \A e \in Wanted(stored) :
             read.cursor # NoCursor /\ AtOrBefore(e, read.cursor) => e \in read.got

\* The page is the first rows after the cursor of the table it was selected from.
Selecting ==
    req.pc \in Serving =>
        /\ atStart \subseteq atRows /\ read.got \subseteq atRows
        /\ IsFirstN(req.page, {e \in atRows : Selected(e)}, PageSize)
        /\ AppendOnly => \A e \in stored \ atRows, f \in atRows : Before(f, e)
        /\ req.pc = "reply" =>
              \A e \in read.got \union req.page : e.ledger <= req.latest

\* What a read that ended returned.
Returned ==
    /\ read.pc = "done" =>
          {e \in Wanted(atStart) : e.ledger >= read.forgot} \subseteq read.got
    /\ SnapshotRead
    /\ LatestCovers

Inv == Counted /\ Collected /\ FloorsRise /\ Behind /\ Selecting /\ Returned

-----------------------------------------------------------------------------
(* The order of positions                                                   *)

\* Before is a strict total order of positions.
LEMMA PositionOrder ==
    /\ \A p, q, r \in Position : Before(p, q) /\ Before(q, r) => Before(p, r)
    /\ \A p \in Position : ~Before(p, p)
    /\ \A p, q \in Position : Before(p, q) \/ p = q \/ Before(q, p)
<1>1. \A p, q \in Position : p.ledger = q.ledger /\ p.index = q.index => p = q
  BY DEF Position
<1> QED
  BY <1>1 DEF Position, Before

\* The numbers a client brings have the types assumed of them.
LEMMA ClientTyped ==
    ASSUME client \in Clients
    PROVE  /\ PageSize \in Nat \ {0} /\ MaxPages \in Nat \ {0} /\ Attempts \in Nat \ {0}
           /\ StartLedger \in Nat /\ Window \in Nat /\ AppendOnly \in BOOLEAN
           /\ AtCap \in {"capped", "failed"}
  BY PagingAssumption
  DEF PageSize, MaxPages, Attempts, StartLedger, Window, AppendOnly, AtCap

-----------------------------------------------------------------------------
(* Types                                                                    *)

\* So do the records of a read and of a request that are reset.
LEMMA IdleTyped ==
    ASSUME client \in Clients
    PROVE  /\ IdleRead \in [pc : {"idle", "ask", "wait"} \union Ended,
                            cursor : Position, pages : 0..MaxPages,
                            tries : 0..Attempts, got : SUBSET Position,
                            latest : Nat, oldest : Nat, forgot : Nat]
           /\ NoRequest \in [pc : {"none", "floor", "rows", "latest", "reply"},
                             floor : Nat, page : SUBSET Position, latest : Nat]
  BY ClientTyped DEF IdleRead, NoRequest, NoCursor, Position, Ended

\* The invariant holds before the first read.
LEMMA InitInv == Init => TypeOK /\ Inv
<1> SUFFICES ASSUME Init PROVE TypeOK /\ Inv
  OBVIOUS
<1>1. TypeOK
  BY IdleTyped DEF Init, TypeOK
<1>2. Counted
  BY DEF Init, Counted, IdleRead
<1>3. Collected
  BY DEF Init, Collected, IdleRead, NoRequest
<1>4. FloorsRise
  <2>1. Window \in Nat
    BY ClientTyped DEF Init
  <2>2. \A l \in Nat : 0 <= Floor(l)
    BY <2>1 DEF Floor
  <2> QED
    BY <2>2 DEF Init, FloorsRise, Fits, IdleRead, NoRequest, Serving
<1>5. Behind /\ Selecting /\ Returned
  BY DEF Init, Behind, Selecting, Returned, SnapshotRead, LatestCovers, IdleRead,
     NoRequest, Serving, Wanted
<1> QED
  BY <1>1, <1>2, <1>3, <1>4, <1>5 DEF Inv

-----------------------------------------------------------------------------
(* The steps                                                                *)

\* The ingestor stores: only the table and MAX(ledger) grow.
LEMMA StoreInv ==
    ASSUME TypeOK, Inv, Store \/ StoreOther
    PROVE  TypeOK' /\ Inv'
<1>0. UNCHANGED <<read, req, atStart, atRows, client>>
  BY DEF Store, StoreOther
<1>1. /\ stored \subseteq stored' /\ stored' \subseteq Rows /\ others <= others'
      /\ others' \in Nat
  <2>1. CASE Store
    BY <2>1 DEF Store, TypeOK, Inv, Collected, Rows
  <2>2. CASE StoreOther
    BY <2>2 DEF StoreOther, TypeOK, Inv, Collected
  <2> QED
    BY <2>1, <2>2
<1>2. TypeOK'
  <2>1. Rows \subseteq Position
    BY DEF Rows, Position
  <2> QED
    BY <1>0, <1>1, <2>1 DEF TypeOK, Position, MaxPages, Attempts
<1>3. AppendOnly => \A e \in stored' \ stored, f \in stored : Before(f, e)
  BY DEF Store, StoreOther
<1>4. Counted'
  BY <1>0 DEF Inv, Counted, MaxPages, Attempts
<1>5. Collected'
  BY <1>0, <1>1 DEF Inv, Collected, Wanted, StartLedger
<1>6. FloorsRise'
  <2>1. \A l \in Nat : others' <= l => others <= l
    BY <1>1 DEF TypeOK
  <2>2. Fits(read.forgot)'
    BY <1>0, <1>1, <2>1 DEF Inv, FloorsRise, Fits, Floor, Window
  <2>3. Fits(req.floor) => Fits(req.floor)'
    BY <1>0, <1>1, <2>1 DEF Fits, Floor, Window
  <2> QED
    BY <1>0, <2>2, <2>3 DEF Inv, FloorsRise, Serving, Window
<1>7. Behind'
  <2>1. ASSUME AppendOnly, Window = 0, NEW e \in Wanted(stored'),
               read.cursor # NoCursor, AtOrBefore(e, read.cursor)
        PROVE  e \in read.got
    <3>1. read.cursor \in stored /\ stored \subseteq Position /\ e \in Position
      BY <1>1, <2>1 DEF Inv, Collected, TypeOK, Wanted, Rows, Position
    <3>2. e \in stored
      <4>1. ASSUME e \notin stored PROVE FALSE
        <5>1. Before(read.cursor, e) /\ read.cursor \in Position
          BY <1>3, <2>1, <3>1, <4>1 DEF Wanted
        <5> QED
          BY <2>1, <3>1, <5>1, PositionOrder DEF AtOrBefore
      <4> QED
        BY <4>1
    <3> QED
      BY <2>1, <3>2 DEF Inv, Behind, Wanted
  <2> QED
    BY <1>0, <2>1 DEF Inv, Behind, Wanted, StartLedger, AppendOnly, Window
<1>8. Selecting'
  <2>1. req.pc \in Serving /\ AppendOnly =>
           \A e \in stored' \ atRows, f \in atRows : Before(f, e)
    BY <1>1, <1>3 DEF Inv, Selecting, TypeOK
  <2> QED
    BY <1>0, <2>1 DEF Inv, Selecting, Selected, StartLedger, PageSize, AppendOnly
<1>9. Returned'
  BY <1>0 DEF Inv, Returned, SnapshotRead, LatestCovers, Wanted, StartLedger,
     AppendOnly, Window
<1> QED
  BY <1>2, <1>4, <1>5, <1>6, <1>7, <1>8, <1>9 DEF Inv

\* The server's queries: only the request moves.
LEMMA ServeInv ==
    ASSUME TypeOK, Inv, Serve
    PROVE  TypeOK' /\ Inv'
<1>0. /\ UNCHANGED <<stored, others, read, atStart, client>>
      /\ req.pc # "none" /\ read.pc = "wait"
  BY DEF Serve, ReadFloor, ReadRows, ReadLatest, Inv, Collected
<1>a. Window \in Nat /\ PageSize \in Nat /\ MaxLedger \in Nat
  BY ClientTyped, PagingAssumption DEF TypeOK
<1>1. TypeOK'
  <2>1. ReadFloor => req' \in [pc : {"none", "floor", "rows", "latest", "reply"},
                               floor : Nat, page : SUBSET Position, latest : Nat]
    <3> SUFFICES ASSUME ReadFloor
                 PROVE  req' \in [pc : {"none", "floor", "rows", "latest", "reply"},
                                  floor : Nat, page : SUBSET Position, latest : Nat]
      OBVIOUS
    <3>1. PICK l \in 0..MaxLedger : req' = [req EXCEPT !.pc = "rows", !.floor = Floor(l)]
      BY DEF ReadFloor, Floor
    <3>2. Floor(l) \in Nat
      BY <1>a, <3>1 DEF Floor
    <3> QED
      BY <3>1, <3>2 DEF TypeOK
  <2>2. ReadRows => req' \in [pc : {"none", "floor", "rows", "latest", "reply"},
                              floor : Nat, page : SUBSET Position, latest : Nat]
    BY DEF ReadRows, TypeOK
  <2>3. ReadLatest => req' \in [pc : {"none", "floor", "rows", "latest", "reply"},
                                floor : Nat, page : SUBSET Position, latest : Nat]
    <3> SUFFICES ASSUME ReadLatest
                 PROVE  req' \in [pc : {"none", "floor", "rows", "latest", "reply"},
                                  floor : Nat, page : SUBSET Position, latest : Nat]
      OBVIOUS
    <3>1. PICK l \in 0..MaxLedger : req' = [req EXCEPT !.pc = "reply", !.latest = l]
      BY DEF ReadLatest
    <3>2. l \in Nat
      BY <1>a, <3>1
    <3> QED
      BY <3>1, <3>2 DEF TypeOK
  <2>4. atRows' \subseteq stored
    BY DEF Serve, ReadFloor, ReadRows, ReadLatest, TypeOK
  <2> QED
    BY <1>0, <2>1, <2>2, <2>3, <2>4 DEF Serve, TypeOK, MaxPages, Attempts
<1>2. Counted' /\ Collected'
  <2>1. read' = read /\ stored' = stored /\ client' = client
    BY <1>0
  <2> QED
    BY <1>0, <2>1 DEF Inv, Counted, Collected, Wanted, StartLedger, MaxPages, Attempts
<1>3. \A f : Fits(f) => Fits(f)'
  BY <1>0 DEF Fits, Floor, Window
<1>4. FloorsRise'
  <2>0. /\ Fits(read.forgot)' /\ read.oldest' \in {0, read.forgot'}
        /\ read' = read /\ client' = client
    BY <1>0, <1>3 DEF Inv, FloorsRise
  <2>1. CASE ReadFloor
    <3>1. PICK l \in 0..MaxLedger :
             /\ LatestLedger(l) \/ l = 0
             /\ req' = [req EXCEPT !.pc = "rows", !.floor = Floor(l)]
      BY <2>1 DEF ReadFloor, Floor
    <3>2. req'.floor = Floor(l) /\ req'.pc = "rows"
      BY <3>1 DEF TypeOK
    <3>3. Window > 0 /\ l \in Nat
      BY <1>a, <2>1, <3>1 DEF ReadFloor, Inv, FloorsRise
    <3>4. Fits(Floor(l)) /\ (Floor(l) = 0 \/ read.forgot <= Floor(l))
      <4>1. CASE LatestLedger(l)
        <5>1. others <= l /\ \A e \in stored : e.ledger <= l
          BY <4>1 DEF LatestLedger
        <5>2. read.forgot <= Floor(l)
          BY <3>3, <5>1 DEF Inv, FloorsRise, Fits
        <5>3. ASSUME NEW k \in Nat, others <= k, \A e \in stored : e.ledger <= k
              PROVE  Floor(l) <= Floor(k)
          <6>1. l <= k
            BY <4>1, <5>3 DEF LatestLedger
          <6> QED
            BY <1>a, <3>3, <5>3, <6>1 DEF Floor
        <5> QED
          BY <3>3, <5>2, <5>3 DEF Fits
      <4>2. CASE l = 0
        <5>1. Floor(l) = 0 /\ \A k \in Nat : 0 <= Floor(k)
          BY <1>a, <3>3, <4>2 DEF Floor
        <5> QED
          BY <3>3, <5>1 DEF Fits
      <4> QED
        BY <3>1, <4>1, <4>2
    <3>5. Fits(req.floor)' /\ (req'.floor = 0 \/ read'.forgot <= req'.floor)
      <4>1. Fits(Floor(l)) => Fits(req'.floor)
        BY <3>2
      <4>2. Fits(req.floor)' <=> Fits(req'.floor)
        BY <1>0 DEF Fits, Floor, Window
      <4> QED
        BY <2>0, <3>2, <3>4, <4>1, <4>2
    <3> QED
      BY <2>0, <3>2, <3>5 DEF FloorsRise
  <2>2. CASE ReadRows \/ ReadLatest
    <3>1. /\ req.pc \in {"rows", "latest"} /\ req'.floor = req.floor
          /\ req'.pc \in {"latest", "reply"}
      BY <2>2 DEF ReadRows, ReadLatest, TypeOK
    <3>2. Fits(req.floor) /\ (req.floor = 0 \/ read.forgot <= req.floor)
      BY <3>1 DEF Inv, FloorsRise, Serving
    <3>3. Fits(req.floor)'
      BY <1>0, <3>1, <3>2 DEF Fits, Floor, Window
    <3> QED
      BY <2>0, <3>1, <3>2, <3>3 DEF FloorsRise
  <2> QED
    BY <2>1, <2>2 DEF Serve
<1>5. Behind' /\ Returned'
  <2>1. Behind'
    BY <1>0 DEF Inv, Behind, Wanted, StartLedger, AppendOnly, Window
  <2>2. Returned'
    BY <1>0 DEF Inv, Returned, SnapshotRead, LatestCovers
  <2> QED
    BY <2>1, <2>2
<1>6. Selecting'
  <2>1. CASE ReadFloor
    <3>1. req'.pc = "rows"
      BY <2>1 DEF ReadFloor, TypeOK
    <3> QED
      BY <3>1 DEF Selecting, Serving
  <2>2. CASE ReadRows
    <3>1. PICK p \in SUBSET stored :
             /\ IsFirstN(p, {e \in stored : Selected(e)}, PageSize)
             /\ req' = [req EXCEPT !.pc = "latest", !.page = p]
      BY <2>2 DEF ReadRows
    <3>2. /\ req'.pc = "latest" /\ req'.page = p /\ req'.floor = req.floor
          /\ atRows' = stored
      BY <2>2, <3>1 DEF ReadRows, TypeOK
    <3>3. {e \in stored : Selected(e)} = {e \in atRows' : Selected(e)'}
      BY <1>0, <3>2 DEF Selected, StartLedger
    <3>4. IsFirstN(req'.page, {e \in atRows' : Selected(e)'}, PageSize')
      BY <1>0, <3>1, <3>2, <3>3 DEF PageSize
    <3>5. read.got \subseteq stored /\ atStart \subseteq stored
      BY DEF Inv, Collected, Wanted, TypeOK
    <3> QED
      BY <1>0, <3>2, <3>4, <3>5 DEF Selecting, Serving
  <2>3. CASE ReadLatest
    <3>1. PICK l \in 0..MaxLedger :
             LatestLedger(l) /\ req' = [req EXCEPT !.pc = "reply", !.latest = l]
      BY <2>3 DEF ReadLatest
    <3>2. /\ req'.pc = "reply" /\ req'.page = req.page /\ req'.floor = req.floor
          /\ req'.latest = l /\ req.pc = "latest" /\ atRows' = atRows
      BY <2>3, <3>1 DEF ReadLatest, TypeOK
    <3>3. /\ atStart \subseteq atRows /\ read.got \subseteq atRows
          /\ IsFirstN(req.page, {e \in atRows : Selected(e)}, PageSize)
          /\ AppendOnly => \A e \in stored \ atRows, f \in atRows : Before(f, e)
      BY <3>2 DEF Inv, Selecting, Serving
    <3>4. {e \in atRows : Selected(e)} = {e \in atRows' : Selected(e)'}
      BY <1>0, <3>2 DEF Selected, StartLedger
    <3>5. \A e \in read.got \union req.page : e.ledger <= l
      BY <3>1, <3>3 DEF IsFirstN, LatestLedger, TypeOK
    <3>6. IsFirstN(req'.page, {e \in atRows' : Selected(e)'}, PageSize')
      BY <1>0, <3>2, <3>3, <3>4 DEF PageSize
    <3> QED
      BY <1>0, <3>2, <3>3, <3>5, <3>6 DEF Selecting, AppendOnly
  <2> QED
    BY <2>1, <2>2, <2>3 DEF Serve
<1> QED
  BY <1>1, <1>2, <1>4, <1>5, <1>6 DEF Inv

\* Steps that leave no request to answer, and what the read holds as it is.
LEMMA AskInv ==
    ASSUME TypeOK, Inv, Begin \/ Ask \/ TryFails \/ Refused
    PROVE  TypeOK' /\ Inv'
<1>0. UNCHANGED <<stored, others, client>>
  BY DEF Begin, Ask, TryFails, Refused
<1>a. Window \in Nat /\ Attempts \in Nat \ {0} /\ MaxPages \in Nat \ {0}
  BY ClientTyped DEF TypeOK
<1>1. CASE Begin
  <2>1. /\ read'.pc = "ask" /\ read'.cursor = NoCursor /\ read'.pages = 0
        /\ read'.tries = 0 /\ read'.got = {} /\ read'.oldest = 0
        /\ read'.forgot = 0
        /\ req'.pc = "none" /\ atStart' = stored /\ atRows' = {}
    BY <1>1 DEF Begin, IdleRead, NoRequest
  <2>2. TypeOK'
    <3>1. read' \in [pc : {"idle", "ask", "wait"} \union Ended,
                     cursor : Position, pages : 0..MaxPages, tries : 0..Attempts,
                     got : SUBSET Position, latest : Nat, oldest : Nat, forgot : Nat]
      BY <1>1, IdleTyped DEF Begin, TypeOK
    <3>2. req' \in [pc : {"none", "floor", "rows", "latest", "reply"},
                    floor : Nat, page : SUBSET Position, latest : Nat]
      BY <1>1, IdleTyped DEF Begin, TypeOK
    <3> QED
      BY <1>0, <2>1, <3>1, <3>2 DEF TypeOK, MaxPages, Attempts
  <2>3. Counted' /\ Collected'
    BY <1>0, <1>a, <2>1 DEF Inv, Counted, Collected, Wanted, StartLedger, MaxPages,
       Attempts
  <2>4. FloorsRise'
    <3>1. \A k \in Nat : 0 <= Floor(k)
      BY <1>a DEF Floor
    <3>2. Fits(0)
      BY <3>1 DEF Fits
    <3>3. Fits(read.forgot)'
      BY <1>0, <2>1, <3>2 DEF Fits, Floor, Window
    <3> QED
      BY <2>1, <3>3 DEF FloorsRise, Serving
  <2>5. Behind' /\ Selecting' /\ Returned'
    BY <2>1 DEF Behind, Selecting, Returned, SnapshotRead, LatestCovers, Serving
  <2> QED
    BY <2>2, <2>3, <2>4, <2>5 DEF Inv
<1>2. CASE Ask \/ TryFails \/ Refused
  <2>0. UNCHANGED <<atStart, atRows>> /\ read.pc \in {"ask", "wait"}
    BY <1>2 DEF Ask, TryFails, Refused
  <2>1. /\ read'.cursor = read.cursor /\ read'.pages = read.pages
        /\ read'.got = read.got /\ read'.latest = read.latest
        /\ read'.oldest = read.oldest /\ read'.forgot = read.forgot
    BY <1>2 DEF Ask, TryFails, Refused, TypeOK
  <2>2. /\ read'.pc \in {"ask", "wait", "failed"} /\ read'.tries \in 0..Attempts
        /\ read'.pc = "ask" => read'.tries < Attempts
    <3>1. CASE Ask
      <4>1. read'.pc = "wait" /\ read'.tries = read.tries + 1
        BY <3>1 DEF Ask, NextTry, TypeOK
      <4>2. read.tries \in 0..Attempts /\ read.tries < Attempts
        BY <3>1 DEF Ask, Inv, Counted, TypeOK
      <4> QED
        BY <1>a, <4>1, <4>2
    <3>2. CASE TryFails \/ Refused
      <4>1. read'.pc \in {"ask", "failed"} /\ read'.tries \in {read.tries, 0}
        BY <3>2 DEF TryFails, Refused, TypeOK
      <4>2. read'.pc = "ask" => read'.tries = read.tries /\ read.tries < Attempts
        BY <3>2 DEF TryFails, Refused, MayRetry, TypeOK
      <4>3. read.tries \in 0..Attempts
        BY DEF TypeOK
      <4> QED
        BY <1>a, <4>1, <4>2, <4>3
    <3> QED
      BY <1>2, <3>1, <3>2
  <2>3. /\ req'.pc \in {"none", "floor", "rows"} /\ req'.floor = 0
        /\ req'.pc # "none" => read'.pc = "wait"
        /\ req'.pc = "floor" => Window > 0
        /\ req'.pc = "rows" => Window = 0
    <3>1. CASE Ask
      <4>1. /\ read'.pc = "wait" /\ req'.floor = 0
            /\ req'.pc = IF Window > 0 THEN "floor" ELSE "rows"
        BY <3>1 DEF Ask, NoRequest, TypeOK
      <4> QED
        BY <1>a, <4>1
    <3>2. CASE TryFails \/ Refused
      BY <3>2 DEF TryFails, Refused, NoRequest
    <3> QED
      BY <1>2, <3>1, <3>2
  <2>4. TypeOK'
    <3>1. read' \in [pc : {"idle", "ask", "wait"} \union Ended,
                     cursor : Position, pages : 0..MaxPages, tries : 0..Attempts,
                     got : SUBSET Position, latest : Nat, oldest : Nat, forgot : Nat]
      <4>1. /\ DOMAIN read' = DOMAIN read
            /\ read' = [read EXCEPT !.pc = read'.pc, !.tries = read'.tries]
        BY <1>2 DEF Ask, TryFails, Refused, TypeOK
      <4>2. read'.pc \in {"idle", "ask", "wait"} \union Ended
        BY <2>2 DEF Ended
      <4> QED
        BY <2>2, <4>1, <4>2 DEF TypeOK
    <3>2. req' \in [pc : {"none", "floor", "rows", "latest", "reply"},
                    floor : Nat, page : SUBSET Position, latest : Nat]
      <4>1. NoRequest \in [pc : {"none", "floor", "rows", "latest", "reply"},
                           floor : Nat, page : SUBSET Position, latest : Nat]
        BY IdleTyped DEF TypeOK
      <4>2. req' = [NoRequest EXCEPT !.pc = req'.pc]
        BY <1>2 DEF Ask, TryFails, Refused, NoRequest
      <4> QED
        BY <2>3, <4>1, <4>2
    <3> QED
      BY <1>0, <2>0, <3>1, <3>2 DEF TypeOK, MaxPages, Attempts
  <2>5. Counted' /\ Collected'
    <3>1. Counted'
      BY <1>0, <2>0, <2>1, <2>2 DEF Inv, Counted, MaxPages, Attempts
    <3>2. Collected'
      BY <1>0, <2>1, <2>3 DEF Inv, Collected, Wanted, StartLedger
    <3> QED
      BY <3>1, <3>2
  <2>6. FloorsRise'
    <3>1. Fits(read.forgot) /\ read.forgot \in Nat /\ read.oldest \in {0, read.forgot}
      BY DEF Inv, FloorsRise, TypeOK
    <3>2. Fits(read.forgot)'
      BY <1>0, <2>1, <3>1 DEF Fits, Floor, Window
    <3>3. ASSUME req'.pc = "rows" PROVE Fits(req.floor)' /\ req'.floor = 0
      <4>1. Window = 0 /\ req'.floor = 0
        BY <2>3, <3>3
      <4>2. read.forgot = 0
        BY <3>1, <4>1 DEF Fits
      <4>3. Fits(0)
        BY <3>1, <4>2
      <4> QED
        BY <1>0, <4>1, <4>3 DEF Fits, Floor, Window
    <3> QED
      BY <1>0, <2>1, <2>3, <3>1, <3>2, <3>3 DEF FloorsRise, Serving, Window
  <2>7. Behind' /\ Selecting' /\ Returned'
    <3>1. Behind'
      BY <1>0, <2>0, <2>1 DEF Inv, Behind, Wanted, StartLedger, AppendOnly, Window
    <3>2. Selecting' /\ Returned'
      BY <2>2, <2>3 DEF Selecting, Returned, SnapshotRead, LatestCovers, Serving
    <3> QED
      BY <3>1, <3>2
  <2> QED
    BY <2>4, <2>5, <2>6, <2>7 DEF Inv
<1> QED
  BY <1>1, <1>2

\* A page arrives.
LEMMA AcceptInv ==
    ASSUME TypeOK, Inv, Accept
    PROVE  TypeOK' /\ Inv'
<1> DEFINE Open == {e \in atRows : Selected(e)}
<1>a. /\ Window \in Nat /\ MaxPages \in Nat \ {0} /\ StartLedger \in Nat
      /\ PageSize \in Nat /\ AtCap \in {"capped", "failed"} /\ Attempts \in Nat \ {0}
      /\ AppendOnly \in BOOLEAN
  BY ClientTyped DEF TypeOK
<1>0. /\ UNCHANGED <<stored, others, atStart, atRows, client>>
      /\ read.pc = "wait" /\ req.pc = "reply" /\ req' = NoRequest
  BY DEF Accept
<1>b. PICK c \in req.page \union {read.cursor} :
         /\ IF req.page = {} THEN c = read.cursor ELSE IsLast(c, req.page)
         /\ read' =
              [pc |-> IF Exhausted THEN "done" ELSE IF Capped THEN AtCap ELSE "ask",
               cursor |-> c, pages |-> read.pages + 1, tries |-> 0,
               got |-> read.got \union req.page,
               latest |-> ReplyLatest, oldest |-> req.floor,
               forgot |-> Forgotten]
  BY DEF Accept
<1>c. /\ read'.pc = IF Exhausted THEN "done" ELSE IF Capped THEN AtCap ELSE "ask"
      /\ read'.cursor = c /\ read'.pages = read.pages + 1 /\ read'.tries = 0
      /\ read'.got = read.got \union req.page /\ read'.latest = req.latest
      /\ read'.oldest = req.floor /\ read'.forgot = Forgotten /\ req'.pc = "none"
  BY <1>0, <1>b DEF ReplyLatest, NoRequest
<1>d. /\ atStart \subseteq atRows /\ read.got \subseteq atRows
      /\ atRows \subseteq stored /\ stored \subseteq Position
      /\ IsFirstN(req.page, Open, PageSize)
      /\ AppendOnly => \A e \in stored \ atRows, f \in atRows : Before(f, e)
      /\ \A e \in read.got \union req.page : e.ledger <= req.latest
      /\ Fits(req.floor) /\ (req.floor = 0 \/ read.forgot <= req.floor)
      /\ req.floor \in Nat /\ read.forgot \in Nat /\ Fits(read.forgot)
  BY <1>0 DEF Inv, Selecting, FloorsRise, Serving, TypeOK
\* What the pages so far have left out grows, and is what this one declares, if anything.
<1>k. /\ Forgotten \in Nat /\ req.floor <= Forgotten /\ read.forgot <= Forgotten
      /\ Fits(Forgotten) /\ req.floor \in {0, Forgotten}
  BY <1>d DEF Forgotten
<1>e. /\ req.page \subseteq Open
      /\ \A e \in req.page, f \in Open : Before(f, e) => f \in req.page
      /\ Exhausted => req.page = Open
  BY <1>d DEF IsFirstN, Exhausted
<1>f. /\ read.cursor \in Position /\ c \in Position
      /\ read.cursor # NoCursor => read.cursor \in read.got
      /\ read.cursor = NoCursor => read.got = {}
      /\ \A f \in read.got : AtOrBefore(f, read.cursor)
      /\ read.got \subseteq Wanted(stored) /\ stored \subseteq Rows
  BY <1>b DEF Inv, Collected, TypeOK
<1>g. \A e \in req.page : e \in Wanted(stored)
  <2>1. ASSUME NEW e \in req.page, read.cursor # NoCursor PROVE e.ledger >= StartLedger
    <3>1. Before(read.cursor, e) /\ e \in Position
      BY <1>d, <1>e, <2>1 DEF Selected, AfterCursor
    <3>2. read.cursor.ledger >= StartLedger
      BY <1>f, <2>1 DEF Wanted
    <3> QED
      BY <1>a, <1>f, <3>1, <3>2 DEF Before, Position
  <2>2. ASSUME NEW e \in req.page, read.cursor = NoCursor PROVE e.ledger >= StartLedger
    BY <1>e, <2>2 DEF Selected
  <2> QED
    BY <1>d, <1>e, <2>1, <2>2 DEF Wanted
<1>h. \A e \in req.page : AtOrBefore(e, c) /\ (read.cursor = NoCursor \/ Before(read.cursor, e))
  BY <1>b, <1>e DEF IsLast, Selected, AfterCursor
\* What lies at or before the new cursor lay so before the old one, is in the page, or
\* was not selected.
<1>i. ASSUME NEW e \in Wanted(atRows), c # NoCursor, AtOrBefore(e, c), e.ledger >= req.floor
      PROVE  \/ read.cursor # NoCursor /\ AtOrBefore(e, read.cursor)
             \/ e \in req.page
  <2>1. CASE read.cursor # NoCursor /\ AtOrBefore(e, read.cursor)
    BY <2>1
  <2>2. CASE ~(read.cursor # NoCursor /\ AtOrBefore(e, read.cursor))
    <3>1. e \in Position
      BY <1>d, <1>i DEF Wanted
    <3>2. e \in Open
      <4>1. read.cursor # NoCursor => Before(read.cursor, e)
        BY <1>f, <2>2, <3>1, PositionOrder DEF AtOrBefore
      <4> QED
        BY <1>i, <4>1 DEF Selected, AfterCursor, Wanted
    <3>3. req.page # {} /\ c \in req.page
      BY <1>b, <1>i, <2>2 DEF IsLast
    <3> QED
      BY <1>e, <1>i, <3>2, <3>3 DEF AtOrBefore
  <2> QED
    BY <2>1, <2>2
\* Nor does a page that ends the read leave anything out.
<1>j. ASSUME NEW e \in Wanted(atRows), Exhausted, e.ledger >= req.floor
      PROVE  \/ read.cursor # NoCursor /\ AtOrBefore(e, read.cursor)
             \/ e \in req.page
  <2>1. e \in Position
    BY <1>d, <1>j DEF Wanted
  <2>2. CASE read.cursor = NoCursor
    BY <1>e, <1>j, <2>2 DEF Selected, Wanted
  <2>3. CASE read.cursor # NoCursor /\ Before(read.cursor, e)
    BY <1>e, <1>j, <2>3 DEF Selected, AfterCursor, Wanted
  <2> QED
    BY <1>f, <2>1, <2>2, <2>3, PositionOrder DEF AtOrBefore
<1>1. TypeOK'
  <2>1. read.pages + 1 \in 0..MaxPages
    BY <1>0, <1>a DEF Inv, Counted, TypeOK
  <2>2. req.page \subseteq Position /\ req.latest \in Nat /\ read.got \subseteq Position
    BY DEF TypeOK
  <2>3. (IF Exhausted THEN "done" ELSE IF Capped THEN AtCap ELSE "ask")
           \in {"idle", "ask", "wait"} \union Ended
    BY <1>a DEF Ended
  <2>4. read' \in [pc : {"idle", "ask", "wait"} \union Ended,
                   cursor : Position, pages : 0..MaxPages, tries : 0..Attempts,
                   got : SUBSET Position, latest : Nat, oldest : Nat, forgot : Nat]
    BY <1>a, <1>b, <1>d, <1>f, <1>k, <2>1, <2>2, <2>3 DEF ReplyLatest
  <2>5. req' \in [pc : {"none", "floor", "rows", "latest", "reply"},
                  floor : Nat, page : SUBSET Position, latest : Nat]
    BY <1>0, IdleTyped DEF TypeOK
  <2> QED
    BY <1>0, <2>4, <2>5 DEF TypeOK, MaxPages, Attempts
<1>2. Counted'
  <2>1. ASSUME read'.pc = "ask" PROVE read.pages + 1 # MaxPages
    BY <1>a, <1>c, <2>1 DEF Capped
  <2>2. read.pages < MaxPages /\ read.pages \in Nat
    BY <1>0 DEF Inv, Counted, TypeOK
  <2>3. read'.pc # "wait"
    BY <1>a, <1>c
  <2>4. MaxPages' = MaxPages /\ Attempts' = Attempts
    BY <1>0 DEF MaxPages, Attempts
  <2> QED
    BY <1>a, <1>c, <2>1, <2>2, <2>3, <2>4 DEF Counted
<1>3. Collected'
  <2>1. read'.got \subseteq Wanted(stored)
    BY <1>c, <1>f, <1>g
  <2>2. c = NoCursor => read'.got = {}
    <3>1. NoCursor \notin stored
      BY <1>f DEF NoCursor, Rows
    <3>2. req.page \subseteq stored
      BY <1>d, <1>e
    <3> QED
      BY <1>b, <1>c, <1>f, <3>1, <3>2 DEF IsLast
  <2>3. c # NoCursor => c \in read'.got
    BY <1>b, <1>c, <1>f DEF IsLast
  <2>4. ASSUME NEW f \in read'.got PROVE AtOrBefore(f, c)
    <3>1. CASE f \in req.page
      BY <1>h, <3>1
    <3>2. CASE f \in read.got /\ req.page = {}
      BY <1>b, <1>f, <3>2
    <3>3. CASE f \in read.got /\ req.page # {}
      <4>1. Before(read.cursor, c) /\ AtOrBefore(f, read.cursor) /\ f \in Position
        BY <1>b, <1>d, <1>f, <1>h, <3>3 DEF IsLast
      <4> QED
        BY <1>f, <4>1, PositionOrder DEF AtOrBefore
    <3> QED
      BY <1>c, <2>4, <3>1, <3>2, <3>3
  <2> QED
    BY <1>0, <1>c, <1>f, <2>1, <2>2, <2>3, <2>4 DEF Collected, Wanted, StartLedger
<1>4. FloorsRise'
  <2>1. Fits(read.forgot)'
    BY <1>0, <1>c, <1>k DEF Fits, Floor, Window
  <2> QED
    BY <1>c, <1>k, <2>1 DEF FloorsRise, Serving
<1>5. ASSUME AppendOnly, Window = 0, NEW e \in Wanted(stored), c # NoCursor, AtOrBefore(e, c)
      PROVE  e \in read'.got
  <2>1. e \in Position /\ e.ledger >= req.floor
    BY <1>5, <1>d DEF Wanted, Fits, Position
  <2>2. c \in atRows
    BY <1>5, <1>b, <1>d, <1>e, <1>f DEF IsLast
  <2>3. e \in Wanted(atRows)
    <3>1. ~Before(c, e)
      BY <1>5, <1>f, <2>1, PositionOrder DEF AtOrBefore
    <3> QED
      BY <1>5, <1>d, <2>2, <3>1 DEF Wanted
  <2>4. read.cursor # NoCursor /\ AtOrBefore(e, read.cursor) => e \in read.got
    BY <1>5 DEF Inv, Behind
  <2> QED
    BY <1>5, <1>c, <1>i, <2>1, <2>3, <2>4
<1>6. ASSUME NEW e \in Wanted(atStart), e.ledger >= Forgotten,
             read.cursor # NoCursor, AtOrBefore(e, read.cursor)
      PROVE  e \in read.got
  <2>1. e \in read.got \/ e.ledger < read.forgot
    BY <1>6 DEF Inv, Behind
  <2>2. e.ledger \in Nat
    BY <1>6, <1>d DEF Wanted, Position
  <2> QED
    BY <1>6, <1>d, <1>k, <2>1, <2>2
<1>7. Behind'
  <2>1. ASSUME NEW e \in Wanted(atStart), c # NoCursor, AtOrBefore(e, c)
        PROVE  e \in read'.got \/ e.ledger < Forgotten
    <3>1. e \in Wanted(atRows) /\ e.ledger \in Nat
      BY <1>d, <2>1 DEF Wanted, Position
    <3>2. CASE e.ledger >= Forgotten
      <4>1. e.ledger >= req.floor
        BY <1>d, <1>k, <3>1, <3>2
      <4> QED
        BY <1>6, <1>c, <1>i, <2>1, <3>1, <3>2, <4>1
    <3> QED
      BY <1>k, <3>1, <3>2
  <2> QED
    BY <1>0, <1>5, <1>c, <2>1 DEF Behind, Wanted, StartLedger, AppendOnly, Window
<1>8. Selecting'
  BY <1>c DEF Selecting, Serving
<1>9. Returned'
  <2>1. ASSUME read'.pc = "done" PROVE Exhausted
    BY <1>a, <1>c, <2>1
  <2>2. ASSUME Exhausted, NEW e \in Wanted(atStart), e.ledger >= Forgotten
        PROVE  e \in read'.got
    <3>1. e \in Wanted(atRows) /\ e.ledger >= req.floor
      BY <1>d, <1>k, <2>2 DEF Wanted, Position
    <3> QED
      BY <1>6, <1>c, <1>j, <2>2, <3>1
  <2>3. ASSUME Exhausted, AppendOnly, Window = 0 PROVE read'.got = Wanted(atRows)
    <3>1. read'.got \subseteq Wanted(atRows)
      BY <1>c, <1>d, <1>e, <1>f, <1>g DEF Wanted
    <3>2. ASSUME NEW e \in Wanted(atRows) PROVE e \in read'.got
      <4>1. e \in Wanted(stored) /\ e.ledger >= req.floor
        BY <1>d, <2>3, <3>2 DEF Wanted, Fits, Position
      <4>2. read.cursor # NoCursor /\ AtOrBefore(e, read.cursor) => e \in read.got
        BY <2>3, <4>1 DEF Inv, Behind
      <4> QED
        BY <1>c, <1>j, <2>3, <3>2, <4>1, <4>2
    <3> QED
      BY <3>1, <3>2
  <2>4. \A e \in read'.got : e.ledger <= read'.latest
    BY <1>c, <1>d
  <2>5. read'.pc = "done" =>
           {e \in Wanted(atStart)' : e.ledger >= read'.forgot} \subseteq read'.got
    BY <1>0, <1>c, <2>1, <2>2 DEF Wanted, StartLedger
  <2>6. SnapshotRead'
    BY <1>0, <2>1, <2>3 DEF SnapshotRead, Wanted, StartLedger, AppendOnly, Window
  <2>7. LatestCovers'
    BY <2>4 DEF LatestCovers
  <2> QED
    BY <2>5, <2>6, <2>7 DEF Returned
<1> QED
  BY <1>1, <1>2, <1>3, <1>4, <1>7, <1>8, <1>9 DEF Inv

\* A step that changes nothing.
LEMMA StutterInv ==
    ASSUME TypeOK, Inv, UNCHANGED vars
    PROVE  TypeOK' /\ Inv'
<1>0. UNCHANGED <<stored, others, read, req, atStart, atRows, client>>
  BY DEF vars
<1>1. TypeOK'
  BY <1>0 DEF TypeOK, MaxPages, Attempts
<1>2. Counted' /\ Collected'
  BY <1>0 DEF Inv, Counted, Collected, Wanted, StartLedger, MaxPages, Attempts
<1>3. FloorsRise'
  BY <1>0 DEF Inv, FloorsRise, Fits, Floor, Window
<1>4. Behind' /\ Returned'
  BY <1>0 DEF Inv, Behind, Returned, SnapshotRead, LatestCovers, Wanted, StartLedger,
     AppendOnly, Window
<1>5. Selecting'
  BY <1>0 DEF Inv, Selecting, Selected, StartLedger, PageSize, AppendOnly
<1> QED
  BY <1>1, <1>2, <1>3, <1>4, <1>5 DEF Inv

-----------------------------------------------------------------------------
(* The theorems                                                             *)

\* Every step keeps the invariant.
LEMMA StepInv == TypeOK /\ Inv /\ [Next]_vars => TypeOK' /\ Inv'
  BY StoreInv, ServeInv, AskInv, AcceptInv, StutterInv DEF Next, Follow

\* The variables keep their types, and no read follows more pages or tries a request
\* more often than its bound, in every behaviour of server, client and ingestor.
THEOREM TypesHold == Spec => [](TypeOK /\ Inv)
  BY InitInv, StepInv, PTL DEF Spec

\* A paged read of GET /events that ends normally (EventsClient.allEvents,
\* fetchEventsFromUrl) holds every event wanted that the index held when it began,
\* from the highest floor of its pages on, and none that the index does not; it declares
\* that floor, or none.
THEOREM ReadLosesNothing == Spec => []NothingLost
<1>1. TypeOK /\ Inv => NothingLost
  BY DEF Inv, Returned, Collected, FloorsRise, NothingLost
<1> QED
  BY <1>1, TypesHold, PTL

\* Over an index that grows at its end, the read is one snapshot.
THEOREM ReadIsSnapshot == Spec => []SnapshotRead
<1>1. TypeOK /\ Inv => SnapshotRead
  BY DEF Inv, Returned
<1> QED
  BY <1>1, TypesHold, PTL

\* All that a read cut short holds is at or before its cursor, and it lacks nothing there.
LEMMA CutOrdered == TypeOK /\ Inv => CutAtTheEnd
<1> SUFFICES ASSUME TypeOK, Inv, AppendOnly, Window = 0, read.pc = "capped",
                    NEW e \in Wanted(stored) \ read.got, NEW f \in read.got
             PROVE  Before(f, e)
  BY DEF CutAtTheEnd
<1>1. /\ read.cursor # NoCursor /\ AtOrBefore(f, read.cursor)
      /\ e \in Position /\ f \in Position /\ read.cursor \in Position
  BY DEF Inv, Collected, TypeOK, Wanted
<1>2. ~AtOrBefore(e, read.cursor)
  BY <1>1 DEF Inv, Behind
<1> QED
  BY <1>1, <1>2, PositionOrder DEF AtOrBefore

\* The page cap cuts a read at its end only.
THEOREM CapCutsTheEnd == Spec => []CutAtTheEnd
  BY CutOrdered, TypesHold, PTL

\* The page a reply carries lies after everything the read holds.
THEOREM PagesDoNotOverlap == Spec => []PagesAscend
<1>1. TypeOK /\ Inv => PagesAscend
  <2> SUFFICES ASSUME TypeOK, Inv, read.pc = "wait", req.pc = "reply",
                      NEW e \in req.page, NEW f \in read.got
               PROVE  Before(f, e)
    BY DEF PagesAscend
  <2>1. /\ read.cursor # NoCursor /\ AtOrBefore(f, read.cursor)
        /\ e \in Position /\ f \in Position /\ read.cursor \in Position
    BY DEF Inv, Collected, TypeOK
  <2>2. Before(read.cursor, e)
    BY <2>1 DEF Inv, Selecting, Serving, IsFirstN, Selected, AfterCursor
  <2> QED
    BY <2>1, <2>2, PositionOrder DEF AtOrBefore
<1> QED
  BY <1>1, TypesHold, PTL

\* latestLedger is no older than any event beside it.
THEOREM LatestLedgerCovers == Spec => []LatestCovers
<1>1. TypeOK /\ Inv => LatestCovers
  BY DEF Inv, Returned
<1> QED
  BY <1>1, TypesHold, PTL

-----------------------------------------------------------------------------
(* One read                                                                 *)

\* What the abstract read is made of besides the tables it looks at.
Phase == IF read.pc \in {"ask", "wait"} THEN "open" ELSE read.pc
Exact == AppendOnly /\ Window = 0

\* While the client is the same, so is what it asks for and what it relies on.
LEMMA ClientSame ==
    ASSUME client' = client
    PROVE  /\ Exact' = Exact
           /\ Wanted(stored)' = {e \in stored' : e.ledger >= StartLedger}
           /\ Wanted(atStart)' = {e \in atStart' : e.ledger >= StartLedger}
           /\ Wanted(atRows)' = {e \in atRows' : e.ledger >= StartLedger}
  BY DEF Exact, AppendOnly, Window, StartLedger, Wanted

\* Before the first read the abstract read is not called either.
LEMMA InitRefines == Init => OneRead!AInit
<1> SUFFICES ASSUME Init PROVE OneRead!AInit
  OBVIOUS
<1>1. (AppendOnly /\ Window = 0) \in BOOLEAN
  OBVIOUS
<1>2. Answer = [events |-> {}, from |-> 0, says |-> 0]
  BY DEF Init, IdleRead, Answer
<1> QED
  BY <1>1, <1>2 DEF Init, IdleRead, OneRead!AInit, OneRead!NoResult, Wanted

\* What the ingestor stores is a growth of the table, or of what no read asks for.
LEMMA StoreRefines ==
    ASSUME Store
    PROVE  OneRead!Grow
<1>1. PICK e : /\ AppendOnly => \A f \in stored : Before(f, e)
               /\ stored' = stored \union {e}
               /\ UNCHANGED <<read, atStart, atRows, client>>
  BY DEF Store
<1>2. Answer' = Answer /\ Phase' = Phase
  BY <1>1 DEF Answer, Phase
<1>3. /\ Wanted(stored) \subseteq Wanted(stored)' /\ Wanted(stored) \subseteq stored
      /\ \A f \in Wanted(stored)' \ Wanted(stored) : f = e
  BY <1>1, ClientSame DEF Wanted
<1>4. Exact => \A g \in Wanted(stored)' \ Wanted(stored), f \in Wanted(stored) : Before(f, g)
  BY <1>1, <1>3 DEF Exact
<1>5. /\ Wanted(atStart)' = Wanted(atStart) /\ Wanted(atRows)' = Wanted(atRows)
      /\ Exact' = Exact
  BY <1>1, ClientSame DEF Wanted
<1> QED
  BY <1>2, <1>3, <1>4, <1>5 DEF OneRead!Grow, OneRead!Before, Before, Exact, Phase

\* A call, and a query of the rows.
LEMMA CallRefines ==
    ASSUME TypeOK, Begin
    PROVE  OneRead!Call
<1>1. /\ read.pc \in {"idle"} \union Ended /\ read' = [IdleRead EXCEPT !.pc = "ask"]
      /\ atStart' = stored /\ atRows' = {} /\ UNCHANGED <<stored, client>>
  BY DEF Begin
<1>2. read'.pc = "ask"
  BY <1>1 DEF IdleRead
<1>3. /\ Wanted(stored)' = Wanted(stored) /\ Wanted(atStart)' = Wanted(stored)
      /\ Wanted(atRows)' = {} /\ Exact' = Exact
  BY <1>1, ClientSame DEF Wanted
<1>4. Answer' = [events |-> {}, from |-> 0, says |-> 0] /\ Phase # "open" /\ Phase' = "open"
  BY <1>1, <1>2 DEF Answer, Phase, Ended
<1> QED
  BY <1>3, <1>4 DEF OneRead!Call, OneRead!NoResult, Exact, Phase

LEMMA RowsRefine ==
    ASSUME Inv, ReadRows
    PROVE  OneRead!Look
<1>1. /\ read.pc = "wait" /\ atRows' = stored /\ UNCHANGED <<stored, read, atStart, client>>
  BY DEF ReadRows, Inv, Collected
<1>2. /\ Wanted(stored)' = Wanted(stored) /\ Wanted(atStart)' = Wanted(atStart)
      /\ Wanted(atRows)' = Wanted(stored) /\ Exact' = Exact
  BY <1>1, ClientSame DEF Wanted
<1>3. Answer' = Answer /\ Phase' = Phase /\ Phase = "open"
  BY <1>1 DEF Answer, Phase
<1> QED
  BY <1>2, <1>3 DEF OneRead!Look, Exact, Phase

\* A page ends the read, or leaves it open.
LEMMA AcceptRefines ==
    ASSUME TypeOK, Inv, TypeOK', Inv', Accept
    PROVE  OneRead!ANext \/ UNCHANGED OneRead!avars
<1>1. /\ read.pc = "wait" /\ read'.pc \in {"ask", "done", "capped", "failed"}
      /\ UNCHANGED <<stored, atStart, atRows, client>>
  <2>1. AtCap \in {"capped", "failed"}
    BY ClientTyped DEF TypeOK
  <2> QED
    BY <2>1 DEF Accept
<1>2. /\ Wanted(stored)' = Wanted(stored) /\ Wanted(atStart)' = Wanted(atStart)
      /\ Wanted(atRows)' = Wanted(atRows) /\ Exact' = Exact /\ Phase = "open"
  BY <1>1, ClientSame DEF Wanted, Phase
<1>3. read'.got \subseteq Wanted(stored)' /\ read'.oldest \in {0, read'.forgot}
  BY DEF Inv, Collected, FloorsRise
<1>4. CASE read'.pc = "ask"
  <2>1. Answer' = Answer /\ Phase' = Phase
    BY <1>1, <1>4 DEF Answer, Phase
  <2> QED
    BY <1>2, <2>1 DEF OneRead!avars, Exact, Phase
<1>5. CASE read'.pc = "failed"
  <2>1. Answer' = OneRead!NoResult /\ Phase' = "failed"
    BY <1>5 DEF Answer, Phase, OneRead!NoResult
  <2>2. Answer'.events \subseteq Wanted(stored) /\ Answer'.says = 0
    BY <2>1 DEF OneRead!NoResult
  <2> QED
    BY <1>2, <2>1, <2>2 DEF OneRead!ANext, OneRead!GiveUp, OneRead!End, Exact, Phase
<1>6. CASE read'.pc = "done"
  <2>1. /\ Answer' = [events |-> read'.got, from |-> read'.forgot,
                       says |-> read'.oldest]
        /\ Phase' = "done"
    BY <1>6 DEF Answer, Phase
  <2>2. \A e \in Wanted(atStart) : e.ledger >= read'.forgot => e \in read'.got
    BY <1>2, <1>6 DEF Inv, Returned
  <2>3. ASSUME Exact PROVE read'.got = Wanted(atRows) /\ read'.forgot = 0 /\ read'.oldest = 0
    <3>1. AppendOnly' /\ Window' = 0
      BY <1>1, <2>3 DEF Exact, AppendOnly, Window
    <3> QED
      BY <1>2, <1>6, <3>1 DEF Inv, Returned, SnapshotRead, FloorsRise, Fits
  <2>4. OneRead!Return
    BY <1>2, <1>3, <2>1, <2>2, <2>3 DEF OneRead!Return, OneRead!End, Exact, Phase
  <2> QED
    BY <2>4 DEF OneRead!ANext
<1>7. CASE read'.pc = "capped"
  <2>1. /\ Answer' = [events |-> read'.got, from |-> read'.forgot,
                       says |-> read'.oldest]
        /\ Phase' = "capped"
    BY <1>7 DEF Answer, Phase
  <2>2. ASSUME Exact
        PROVE  \A e \in Wanted(stored) \ read'.got, f \in read'.got : Before(f, e)
    <3>1. AppendOnly' /\ Window' = 0
      BY <1>1, <2>2 DEF Exact, AppendOnly, Window
    <3>2. CutAtTheEnd'
      BY CutOrdered, PTL
    <3> QED
      BY <1>2, <1>7, <3>1, <3>2 DEF CutAtTheEnd
  <2>3. OneRead!Cut
    BY <1>2, <1>3, <2>1, <2>2
    DEF OneRead!Cut, OneRead!End, OneRead!Before, Before, Exact, Phase
  <2> QED
    BY <2>3 DEF OneRead!ANext
<1> QED
  BY <1>1, <1>4, <1>5, <1>6, <1>7

\* A request fails: it is sent again, or the read gives up.
LEMMA FailureRefines ==
    ASSUME TypeOK, TryFails \/ Refused
    PROVE  OneRead!ANext \/ UNCHANGED OneRead!avars
<1>1. /\ read.pc = "wait" /\ read'.pc \in {"ask", "failed"}
      /\ UNCHANGED <<stored, atStart, atRows, client>>
  BY DEF TryFails, Refused, TypeOK
<1>2. /\ Wanted(stored)' = Wanted(stored) /\ Wanted(atStart)' = Wanted(atStart)
      /\ Wanted(atRows)' = Wanted(atRows) /\ Exact' = Exact /\ Phase = "open"
  BY <1>1, ClientSame DEF Wanted, Phase
<1>3. Answer' = OneRead!NoResult /\ Answer = OneRead!NoResult
  BY <1>1 DEF Answer, OneRead!NoResult
<1>4. CASE read'.pc = "ask"
  <2>1. Phase' = Phase
    BY <1>1, <1>4 DEF Phase
  <2> QED
    BY <1>2, <1>3, <2>1 DEF OneRead!avars, Exact, Phase
<1>5. CASE read'.pc = "failed"
  <2>1. /\ Phase' = "failed" /\ Answer'.events \subseteq Wanted(stored)
        /\ Answer'.says = 0
    BY <1>3, <1>5 DEF Phase, OneRead!NoResult
  <2> QED
    BY <1>2, <1>3, <2>1 DEF OneRead!ANext, OneRead!GiveUp, OneRead!End, Exact, Phase
<1> QED
  BY <1>1, <1>4, <1>5

\* The other contracts, the other two queries and a new request are not seen.
LEMMA QuietRefines ==
    ASSUME TypeOK, StoreOther \/ ReadFloor \/ ReadLatest \/ Ask \/ UNCHANGED vars
    PROVE  UNCHANGED OneRead!avars
<1>1. UNCHANGED <<stored, atStart, atRows, client>>
  BY DEF StoreOther, ReadFloor, ReadLatest, Ask, vars
<1>2. \/ read' = read
      \/ read.pc = "ask" /\ read'.pc = "wait"
  BY DEF StoreOther, ReadFloor, ReadLatest, Ask, vars, TypeOK
<1>3. Answer' = Answer /\ Phase' = Phase
  BY <1>2 DEF Answer, Phase
<1>4. /\ Wanted(stored)' = Wanted(stored) /\ Wanted(atStart)' = Wanted(atStart)
      /\ Wanted(atRows)' = Wanted(atRows) /\ Exact' = Exact
  BY <1>1, ClientSame DEF Wanted
<1> QED
  BY <1>3, <1>4 DEF OneRead!avars, Exact, Phase

\* Whatever the page size, the page cap, the tries and the floor, a read of many pages,
\* each of several queries between which the table grows and requests fail, implements
\* one look at the table between the call of the read and its end.
THEOREM PagingIsOneRead == Spec => ReadsAtomically
<1>1. TypeOK /\ Inv /\ TypeOK' /\ Inv' /\ [Next]_vars => [OneRead!ANext]_OneRead!avars
  BY StoreRefines, CallRefines, RowsRefine, AcceptRefines, FailureRefines, QuietRefines
  DEF Next, Serve, Follow, OneRead!ANext
<1>2. Spec => [](TypeOK /\ Inv)
  BY TypesHold
<1> QED
  BY InitRefines, <1>1, <1>2, PTL DEF Spec, ReadsAtomically, OneRead!ASpec
=============================================================================
