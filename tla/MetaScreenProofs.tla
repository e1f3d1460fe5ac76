-------------------------- MODULE MetaScreenProofs --------------------------
(***************************************************************************)
(* The goal screen at rest shows the timeline of the chosen source,        *)
(* complete up to the page cap and what that source forgot, for any        *)
(* sources, any page cap, any number of loads and histories of any length. *)
(* The inductive invariant has three parts: only the last load is          *)
(* uncancelled and reads the chosen source (Current), what a load has read *)
(* so far lacks only what lies past the cap or was forgotten (Gathered),   *)
(* and so does what is shown (Complete, a definition of MetaScreen).       *)
(***************************************************************************)
EXTENDS MetaScreen, FiniteSetTheorems, TLAPS

Event == [contract : {"ct", "meta"}, ours : BOOLEAN]
Load == 1..MaxLoads

LoadType ==
    [pc : {"none", "ct", "meta", "cancelled"}, src : Sources \union {None},
     auto : BOOLEAN, since : Nat, ct : SUBSET Nat, floor : Nat \union {None}]

UiType ==
    [busy : BOOLEAN, error : {None, "failed", "cancelled"}, source : Sources,
     shown : Sources \union {None}, entries : SUBSET Nat,
     oldest : Nat \union {None}, since : Nat]

Typed ==
    /\ history \in Seq(Event)
    /\ store \in Sources
    /\ ui \in UiType
    /\ loads \in [Load -> LoadType]
    /\ count \in Load

\* The label and the data are of the chosen source once nothing is loading it; only
\* the last load may still show what it reads.
Current ==
    /\ \A j \in Load : loads[j].pc \in Reading => j = count /\ loads[j].src = store
    /\ ui.source = store
    /\ ~ui.busy /\ ui.error = None => ui.shown = store

\* A load under way holds the events of the CT wrapper it found, up to the cap and
\* but for what its source forgot.
Gathered ==
    \A j \in Load :
        /\ loads[j].pc \in Reading => loads[j].since <= Len(history)
        /\ loads[j].pc = "meta" =>
              /\ loads[j].ct \subseteq 1..Len(history)
              /\ loads[j].floor = None <=> loads[j].src \notin Forgetful
              /\ \A l \in 1..loads[j].since :
                    history[l].contract = "ct" /\ BeforeCap(l)
                    /\ NotForgotten(l, loads[j].floor)
                    => l \in loads[j].ct

\* What is shown is of the past.
Shown == ui.entries \subseteq 1..Len(history) /\ ui.since <= Len(history) /\ Complete

Inv == Typed /\ Current /\ Gathered /\ Shown

-----------------------------------------------------------------------------
(* What one read returns                                                    *)

\* A read lacks no event of its contract that is among the first MaxEvents and not
\* older than the ledger it is served from.
LEMMA ReadHolds ==
    ASSUME history \in Seq(Event), NEW c, NEW from, NEW older,
           NEW l \in 1..Len(history), history[l].contract = c, BeforeCap(l), l >= from
    PROVE  l \in AllEvents(c, from, older)
<1> DEFINE S == {k \in 1..Len(history) :
                    history[k].contract = c /\ (k >= from \/ k \in older)}
           Below == {k \in S : k < l}
           Before == {k \in 1..(l - 1) : history[k].contract = history[l].contract}
<1>1. Len(history) \in Nat /\ l \in Nat
  OBVIOUS
<1>2. Below \subseteq Before
  BY <1>1
<1>3. IsFiniteSet(Before) /\ Cardinality(Before) \in Nat
  <2>1. IsFiniteSet(1..(l - 1))
    BY <1>1, FS_Interval
  <2> QED
    BY <2>1, FS_Subset, FS_CardinalityType
<1>4. Cardinality(Below) <= Cardinality(Before) /\ Cardinality(Below) \in Nat
  BY <1>2, <1>3, FS_Subset, FS_CardinalityType
<1>5. Cardinality(Below) < MaxEvents
  BY <1>3, <1>4, MetaAssumption DEF BeforeCap
<1> QED
  BY <1>5 DEF AllEvents, WithinCap

\* What is not forgotten is not older than the ledger the read is served from.
LEMMA ServedAbove ==
    ASSUME history \in Seq(Event), NEW s \in Sources, NEW from \in ServedFrom(s),
           NEW oldest \in Declared(s, from), NEW first \in Nat \union {None},
           first = None <=> s \notin Forgetful, NEW l \in 1..Len(history)
    PROVE  /\ NotForgotten(l, oldest) => l >= from
           /\ history[l].contract # "ct" /\ NotForgotten(l, first) => l >= from
<1> USE MetaAssumption
<1>1. Len(history) \in Nat /\ Floor \in Nat
  BY DEF Floor
<1>2. from \in Nat /\ from <= Floor /\ (s \notin Forgetful => from = 0)
  BY <1>1 DEF ServedFrom
<1>3. IF s \in Forgetful THEN oldest \in {0, from} ELSE oldest = None
  BY DEF Declared
<1>4. NotForgotten(l, oldest) => l >= from
  BY <1>1, <1>2, <1>3 DEF NotForgotten
<1>5. history[l].contract # "ct" /\ NotForgotten(l, first) => l >= from
  BY <1>1, <1>2 DEF NotForgotten
<1> QED
  BY <1>4, <1>5

\* The ledgers a read returns are of its history.
LEMMA ReadOfHistory ==
    \A c, from, older : AllEvents(c, from, older) \subseteq 1..Len(history)
  BY DEF AllEvents, WithinCap

-----------------------------------------------------------------------------
(* The steps                                                                *)

\* The screen starts with a load and nothing to show.
LEMMA InitInv == Init => Inv
<1> SUFFICES ASSUME Init PROVE Inv
  OBVIOUS
<1> USE MetaAssumption
<1>1. Len(history) = 0 /\ history \in Seq(Event)
  BY DEF Init
<1>2. Typed
  <2>1. NewLoad(store, TRUE) \in LoadType /\ NoLoad \in LoadType
    <3>1. store \in Sources /\ Len(history) \in Nat
      BY <1>1 DEF Init
    <3> QED
      BY <3>1 DEF NewLoad, NoLoad, LoadType
  <2>2. loads \in [Load -> LoadType] /\ count \in Load
    <3>1. \A x, y \in LoadType : [j \in Load |-> IF j = 1 THEN x ELSE y] \in [Load -> LoadType]
      OBVIOUS
    <3>2. loads = [j \in Load |-> IF j = 1 THEN NewLoad(store, TRUE) ELSE NoLoad]
      BY DEF Init, Load
    <3>3. count = 1 /\ 1 \in Load
      BY DEF Init, Load
    <3> QED
      BY <2>1, <3>1, <3>2, <3>3, Zenon
  <2>3. ui \in UiType
    BY DEF Init, UiType
  <2> QED
    BY <1>1, <2>2, <2>3 DEF Init, Typed
<1>3. Current
  BY DEF Init, Current, NewLoad, NoLoad, Reading, Load
<1>4. Gathered
  BY <1>1 DEF Init, Gathered, NewLoad, NoLoad, Reading, Load
<1>5. Shown
  BY <1>1 DEF Init, Shown, Complete
<1> QED
  BY <1>2, <1>3, <1>4, <1>5 DEF Inv

\* Whatever chooses the source launches a load of it and cancels the one before.
LEMMA LaunchInv ==
    ASSUME Inv, NEW s \in Sources, NEW auto \in BOOLEAN, Launch(s, auto),
           store' = s, history' = history
    PROVE  Inv'
<1> USE MetaAssumption DEF Inv
<1>1. count' = count + 1 /\ count' \in Load
  BY DEF Launch, Typed, Load
<1>2. /\ loads' \in [Load -> LoadType]
      /\ loads'[count'] = NewLoad(s, auto)
      /\ \A j \in Load : j # count' =>
            loads'[j] \in {loads[j], CancelLoad(j)} /\ loads'[j].pc \notin Reading
  <2>1. loads' = [j \in Load |->
                    IF j = count' THEN NewLoad(s, auto)
                    ELSE IF j = count THEN CancelLoad(j) ELSE loads[j]]
    BY <1>1 DEF Launch, Load
  <2>2. Len(history) \in Nat
    BY DEF Typed
  <2>3. NewLoad(s, auto) \in LoadType
    BY <2>2 DEF NewLoad, NoLoad, LoadType
  <2>4. \A j \in Load : CancelLoad(j) \in LoadType /\ CancelLoad(j).pc \notin Reading
    BY DEF CancelLoad, NoLoad, LoadType, Typed, Reading
  <2> QED
    BY <1>1, <2>1, <2>3, <2>4 DEF Typed, Current
<1>3. /\ ui' \in UiType
      /\ ui'.busy /\ ui'.source = s /\ ui'.entries = ui.entries
      /\ ui'.oldest = ui.oldest /\ ui'.since = ui.since
  BY DEF Launch, Typed, UiType
<1>4. Typed'
  BY <1>1, <1>2, <1>3 DEF Typed
<1>5. Current'
  <2>1. NewLoad(s, auto).src = s
    BY DEF NewLoad, NoLoad
  <2>2. \A j \in Load : loads'[j].pc \in Reading => j = count' /\ loads'[j].src = store'
    BY <1>2, <2>1
  <2> QED
    BY <1>3, <2>2 DEF Current
<1>6. Gathered'
  <2>1. Len(history) \in Nat
    BY DEF Typed
  <2>2. NewLoad(s, auto).pc = "ct" /\ NewLoad(s, auto).since = Len(history)
    BY DEF NewLoad, NoLoad
  <2> QED
    BY <1>1, <1>2, <2>1, <2>2
    DEF Gathered, Reading, CancelLoad, NoLoad, BeforeCap, NotForgotten, Floor
<1>7. Shown'
  BY <1>3 DEF Shown, Complete, BeforeCap, NotForgotten, Floor
<1> QED
  BY <1>4, <1>5, <1>6, <1>7

\* A new event is newer than everything read or shown.
LEMMA EmitInv ==
    ASSUME Inv, Emit
    PROVE  Inv'
<1> USE MetaAssumption DEF Inv
<1>1. PICK e \in Event : history' = Append(history, e)
  BY DEF Emit, Event
<1>2. /\ history' \in Seq(Event) /\ Len(history) \in Nat
      /\ Len(history') = Len(history) + 1
      /\ \A l \in 1..Len(history) : history'[l] = history[l]
  BY <1>1 DEF Typed
<1>3. UNCHANGED <<store, ui, loads, count>>
  BY DEF Emit
<1>4. Typed'
  BY <1>2, <1>3 DEF Typed
<1>5. Current'
  BY <1>3 DEF Current
\* No event becomes readable that was not: the floor rises, and the order stays.
<1>a. ASSUME NEW l \in 1..Len(history)
      PROVE  BeforeCap(l)' <=> BeforeCap(l)
  <2>1. \A k \in 1..(l - 1) : history'[k] = history[k]
    BY <1>2
  <2>2. {k \in 1..(l - 1) : history'[k].contract = history'[l].contract}
           = {k \in 1..(l - 1) : history[k].contract = history[l].contract}
    BY <1>2, <2>1
  <2> QED
    BY <2>2 DEF BeforeCap
<1>6. Gathered'
  <2> SUFFICES ASSUME NEW j \in Load
               PROVE  /\ loads[j].pc \in Reading => loads[j].since <= Len(history')
                      /\ loads[j].pc = "meta" =>
                            /\ loads[j].ct \subseteq 1..Len(history')
                            /\ loads[j].floor = None <=> loads[j].src \notin Forgetful
                            /\ \A l \in 1..loads[j].since :
                                  history'[l].contract = "ct" /\ BeforeCap(l)'
                                  /\ NotForgotten(l, loads[j].floor)'
                                  => l \in loads[j].ct
    BY <1>3 DEF Gathered, NotForgotten, Floor
  <2>1. loads[j].since \in Nat
    BY DEF Typed, LoadType
  <2>2. CASE loads[j].pc \notin Reading
    BY <2>2 DEF Reading
  <2>3. CASE loads[j].pc \in Reading
    <3>1. loads[j].since <= Len(history)
      BY <2>3 DEF Gathered
    <3>2. \A l \in 1..loads[j].since : l \in 1..Len(history) /\ history'[l] = history[l]
      BY <1>2, <2>1, <3>1
    <3>3. \A l \in 1..loads[j].since :
             /\ BeforeCap(l)' => BeforeCap(l)
             /\ NotForgotten(l, loads[j].floor)' => NotForgotten(l, loads[j].floor)
      <4> TAKE l \in 1..loads[j].since
      <4>1. l \in 1..Len(history) /\ loads' = loads
        BY <1>3, <3>2
      <4>2. BeforeCap(l)' <=> BeforeCap(l)
        BY <1>a, <4>1
      <4>3. NotForgotten(l, loads[j].floor)' => NotForgotten(l, loads[j].floor)
        BY <1>2, <4>1 DEF NotForgotten, Floor
      <4> QED
        BY <4>2, <4>3
    <3> QED
      BY <1>2, <2>1, <3>1, <3>2, <3>3 DEF Gathered
  <2> QED
    BY <2>2, <2>3
<1>7. Shown'
  <2>1. ui.since \in Nat /\ ui.since <= Len(history) /\ ui.entries \subseteq 1..Len(history)
    BY DEF Typed, UiType, Shown
  <2>2. \A l \in (1..ui.since) \union ui.entries : history'[l] = history[l]
    BY <1>2, <2>1
  <2>3. ui.entries \subseteq 1..Len(history') /\ ui.since <= Len(history')
    BY <1>2, <2>1
  <2>4. \A l \in 1..ui.since :
           /\ BeforeCap(l)' => BeforeCap(l)
           /\ NotForgotten(l, ui.oldest)' => NotForgotten(l, ui.oldest)
    <3> TAKE l \in 1..ui.since
    <3>1. l \in 1..Len(history) /\ ui' = ui
      BY <1>2, <1>3, <2>1
    <3>2. BeforeCap(l)' <=> BeforeCap(l)
      BY <1>a, <3>1
    <3>3. NotForgotten(l, ui.oldest)' => NotForgotten(l, ui.oldest)
      BY <1>2, <3>1 DEF NotForgotten, Floor
    <3> QED
      BY <3>2, <3>3
  <2> QED
    BY <1>3, <2>2, <2>3, <2>4 DEF Shown, Complete
<1> QED
  BY <1>4, <1>5, <1>6, <1>7

\* A load that goes on, ends or fails leaves the others alone.
LEMMA LoadInv ==
    ASSUME Inv, NEW j \in Load, LoadStep(j)
    PROVE  Inv'
<1> USE MetaAssumption DEF Inv
<1>1. CASE CtRead(j)
  <2>1. /\ loads[j].pc = "ct" /\ UNCHANGED <<history, store, ui, count>>
        /\ loads[j] \in LoadType /\ Len(history) \in Nat
        /\ loads[j].src \in Sources
    BY <1>1 DEF CtRead, Typed, Current, Reading, Load, LoadType
  <2>2. PICK from \in ServedFrom(loads[j].src), older \in SUBSET (1..Len(history)) :
           \E oldest \in Declared(loads[j].src, from) :
              loads' = [loads EXCEPT ![j].pc = "meta",
                                     ![j].ct = AllEvents("ct", from, older),
                                     ![j].floor = oldest]
    BY <1>1 DEF CtRead
  <2>a. PICK oldest \in Declared(loads[j].src, from) :
           loads' = [loads EXCEPT ![j].pc = "meta",
                                  ![j].ct = AllEvents("ct", from, older),
                                  ![j].floor = oldest]
    BY <2>2
  <2>b. /\ oldest \in Nat \union {None}
        /\ oldest = None <=> loads[j].src \notin Forgetful
        /\ \A l \in 1..Len(history) : NotForgotten(l, oldest) => l >= from
    <3>1. /\ oldest \in Nat \union {None}
          /\ oldest = None <=> loads[j].src \notin Forgetful
      BY <2>1 DEF Declared, ServedFrom, Floor
    <3>2. \A l \in 1..Len(history) : NotForgotten(l, oldest) => l >= from
      BY <2>1, <3>1, ServedAbove DEF Typed
    <3> QED
      BY <3>1, <3>2
  <2>3. /\ loads'[j].pc = "meta" /\ loads'[j].src = loads[j].src
        /\ loads'[j].since = loads[j].since
        /\ loads'[j].ct = AllEvents("ct", from, older)
        /\ loads'[j].floor = oldest
        /\ loads' \in [Load -> LoadType]
        /\ \A i \in Load : i # j => loads'[i] = loads[i]
    <3>1. AllEvents("ct", from, older) \in SUBSET Nat
      BY <2>1, ReadOfHistory
    <3>2. /\ loads'[j] = [loads[j] EXCEPT !.pc = "meta",
                              !.ct = AllEvents("ct", from, older), !.floor = oldest]
          /\ \A i \in Load : i # j => loads'[i] = loads[i]
          /\ loads' = [i \in Load |-> loads'[i]]
      BY <2>a DEF Typed
    <3>3. /\ loads'[j] \in LoadType
          /\ loads'[j].pc = "meta" /\ loads'[j].src = loads[j].src
          /\ loads'[j].since = loads[j].since
          /\ loads'[j].ct = AllEvents("ct", from, older)
          /\ loads'[j].floor = oldest
      BY <2>1, <2>b, <3>1, <3>2 DEF LoadType
    <3>4. \A i \in Load : loads'[i] \in LoadType
      BY <3>2, <3>3 DEF Typed
    <3> QED
      BY <3>2, <3>3, <3>4
  <2>4. Typed' /\ Shown'
    BY <2>1, <2>3 DEF Typed, Shown, Complete, BeforeCap, NotForgotten, Floor
  <2>5. \A i \in Load : loads'[i].pc \in Reading =>
           loads[i].pc \in Reading /\ loads'[i].src = loads[i].src
    BY <2>1, <2>3 DEF Reading
  <2>6. Current'
    BY <2>1, <2>5 DEF Current, Reading, Load
  <2>7. loads[j].since <= Len(history) /\ loads[j].since \in Nat
    BY <2>1 DEF Gathered, Reading, LoadType
  <2>8. \A l \in 1..loads[j].since :
           history[l].contract = "ct" /\ BeforeCap(l) /\ NotForgotten(l, oldest)
           => l \in AllEvents("ct", from, older)
    <3> SUFFICES ASSUME NEW l \in 1..loads[j].since, history[l].contract = "ct",
                        BeforeCap(l), NotForgotten(l, oldest)
                 PROVE  l \in AllEvents("ct", from, older)
      OBVIOUS
    <3>1. l \in 1..Len(history)
      BY <2>1, <2>7
    <3>2. l >= from
      BY <2>b, <3>1
    <3> QED
      BY <3>1, <3>2, ReadHolds DEF Typed
  <2>9. Gathered'
    <3> SUFFICES ASSUME NEW i \in Load
                 PROVE  /\ loads'[i].pc \in Reading => loads'[i].since <= Len(history')
                        /\ loads'[i].pc = "meta" =>
                              /\ loads'[i].ct \subseteq 1..Len(history')
                              /\ loads'[i].floor = None <=> loads'[i].src \notin Forgetful
                              /\ \A l \in 1..loads'[i].since :
                                    history[l].contract = "ct" /\ BeforeCap(l)
                                    /\ NotForgotten(l, loads'[i].floor)
                                    => l \in loads'[i].ct
      BY <2>1 DEF Gathered, Reading, Load, BeforeCap, NotForgotten, Floor
    <3>1. CASE i = j
      BY <2>1, <2>b, <2>3, <2>7, <2>8, <3>1, ReadOfHistory
    <3>2. CASE i # j
      BY <2>1, <2>3, <3>2 DEF Gathered
    <3> QED
      BY <3>1, <3>2
  <2> QED
    BY <2>4, <2>9, <2>6
<1>2. ASSUME End(j), UNCHANGED <<history, store, count>>
      PROVE  /\ loads' \in [Load -> LoadType]
             /\ \A i \in Load : loads'[i].pc \in Reading => loads'[i] = loads[i]
             /\ Gathered'
  <2>1. loads' \in [Load -> LoadType]
        /\ \A i \in Load : loads'[i].pc \in Reading => loads'[i] = loads[i]
    BY <1>2 DEF End, NoLoad, Typed, LoadType, Reading
  <2> QED
    BY <1>2, <2>1 DEF Gathered, Reading, BeforeCap, NotForgotten, Floor
<1>3. CASE LoadSucceeds(j)
  <2>1. /\ loads[j].pc = "meta" /\ End(j) /\ UNCHANGED <<history, store, count>>
    BY <1>3 DEF LoadSucceeds
  <2>2. /\ Len(history) \in Nat /\ loads[j] \in LoadType
        /\ loads[j].src = store /\ store \in Sources
        /\ loads[j].since \in Nat /\ loads[j].since <= Len(history)
        /\ loads[j].ct \subseteq 1..Len(history)
        /\ loads[j].floor \in Nat \union {None}
        /\ loads[j].floor = None <=> store \notin Forgetful
        /\ \A l \in 1..loads[j].since :
              history[l].contract = "ct" /\ BeforeCap(l)
              /\ NotForgotten(l, loads[j].floor)
              => l \in loads[j].ct
    BY <2>1 DEF Typed, Current, Gathered, Reading, LoadType
  <2>a. PICK from \in ServedFrom(store), older \in SUBSET (1..Len(history)) :
           \E oldest \in Declared(store, from) :
              ui' = [busy |-> FALSE, error |-> None, source |-> store, shown |-> store,
                     entries |-> Kept(loads[j].ct \union AllEvents("meta", from, older)),
                     oldest |-> DeclaredFloor(loads[j].floor, oldest),
                     since |-> loads[j].since]
    BY <1>3, <2>2 DEF LoadSucceeds
  <2>b. PICK oldest \in Declared(store, from) :
           ui' = [busy |-> FALSE, error |-> None, source |-> store, shown |-> store,
                  entries |-> Kept(loads[j].ct \union AllEvents("meta", from, older)),
                  oldest |-> DeclaredFloor(loads[j].floor, oldest),
                  since |-> loads[j].since]
    BY <2>a
  <2>3. AllEvents("meta", from, older) \subseteq 1..Len(history)
    BY ReadOfHistory
  <2>4. DeclaredFloor(loads[j].floor, oldest) = loads[j].floor
    BY <2>2 DEF DeclaredFloor, Declared
  <2>5. /\ ui'.entries \subseteq 1..Len(history)
        /\ \A l \in ui'.entries : history[l].ours
    BY <2>b, <2>2, <2>3 DEF Kept
  <2>6. ui' \in UiType /\ ui'.source = store /\ ui'.shown = store
    <3>1. ui'.entries \in SUBSET Nat
      BY <2>2, <2>5
    <3> QED
      BY <2>b, <2>2, <2>4, <3>1 DEF UiType
  <2>7. ASSUME NEW l \in 1..loads[j].since, history[l].ours, BeforeCap(l),
               NotForgotten(l, loads[j].floor)
        PROVE  l \in loads[j].ct \union AllEvents("meta", from, older)
    <3>1. history[l].contract \in {"ct", "meta"} /\ l \in 1..Len(history)
      <4>1. l \in 1..Len(history)
        BY <2>2
      <4>2. history[l] \in Event
        BY <4>1 DEF Typed
      <4> QED
        BY <4>1, <4>2 DEF Event
    <3>2. CASE history[l].contract = "ct"
      BY <2>2, <2>7, <3>2
    <3>3. CASE history[l].contract = "meta"
      <4>1. history[l].contract # "ct"
        BY <3>3
      <4>2. l >= from
        BY <2>2, <2>7, <3>1, <4>1, ServedAbove DEF Typed
      <4> QED
        BY <2>7, <3>1, <3>3, <4>2, ReadHolds DEF Typed
    <3> QED
      BY <3>1, <3>2, <3>3
  <2>8. Shown'
    <3>1. /\ history' = history /\ ui'.since = loads[j].since
          /\ ui'.oldest = loads[j].floor
          /\ ui'.entries = Kept(loads[j].ct \union AllEvents("meta", from, older))
      BY <2>1, <2>4, <2>b
    <3>2. \A l \in 1..loads[j].since :
             history[l].ours /\ BeforeCap(l) /\ NotForgotten(l, loads[j].floor)
             => l \in ui'.entries
      BY <2>7, <3>1 DEF Kept
    <3>3. \A l \in 1..loads[j].since :
             /\ BeforeCap(l)' <=> BeforeCap(l)
             /\ NotForgotten(l, ui.oldest)' <=> NotForgotten(l, loads[j].floor)
      BY <3>1 DEF BeforeCap, NotForgotten, Floor
    <3> QED
      BY <2>2, <2>5, <3>1, <3>2, <3>3 DEF Shown, Complete
  <2>9. Current'
    BY <1>2, <2>1, <2>6 DEF Current
  <2> QED
    BY <1>2, <2>1, <2>6, <2>8, <2>9 DEF Typed
<1>4. CASE LoadFails(j) \/ LoadCancelled(j)
  <2>1. PICK e \in {"failed", "cancelled"} :
           /\ End(j) /\ UNCHANGED <<history, store, count>>
           /\ ui' = [ui EXCEPT !.busy = FALSE, !.error = e]
    BY <1>4 DEF LoadFails, LoadCancelled, NotBusy
  <2>2. /\ ui' \in UiType /\ ui'.source = ui.source /\ ui'.error # None
        /\ ui'.entries = ui.entries /\ ui'.oldest = ui.oldest /\ ui'.since = ui.since
    BY <2>1 DEF Typed, UiType
  <2>3. Typed' /\ Current'
    BY <1>2, <2>1, <2>2 DEF Typed, Current
  <2>4. Shown'
    BY <2>1, <2>2 DEF Shown, Complete, BeforeCap, NotForgotten, Floor
  <2> QED
    BY <1>2, <2>1, <2>3, <2>4
<1> QED
  BY <1>1, <1>3, <1>4 DEF LoadStep

\* Every step keeps the invariant.
LEMMA NextInv == Inv /\ [Next]_vars => Inv'
<1> SUFFICES ASSUME Inv, [Next]_vars PROVE Inv'
  OBVIOUS
<1>1. CASE Emit
  BY <1>1, EmitInv
<1>2. ASSUME NEW s \in Sources, SelectSource(s) \/ SetBaseUrl(s) PROVE Inv'
  BY <1>2, LaunchInv DEF SelectSource, SetBaseUrl
<1>3. CASE Refresh
  BY <1>3, LaunchInv DEF Refresh, Inv, Typed
<1>4. ASSUME NEW j \in Load, LoadStep(j) PROVE Inv'
  BY <1>4, LoadInv
<1>5. CASE VerifyTotal \/ TotalStep \/ TotalCancelledLate \/ UNCHANGED vars
  <2>1. UNCHANGED <<history, store, ui, loads, count>>
    BY <1>5 DEF VerifyTotal, TotalStep, TotalAnswers, TotalFails, TotalCancelledLate, vars
  <2> QED
    BY <2>1 DEF Inv, Typed, Current, Gathered, Shown, Complete, BeforeCap, NotForgotten,
       Floor
<1> QED
  BY <1>1, <1>2, <1>3, <1>4, <1>5 DEF Next, Load

\* Whatever is chosen, cancelled, late or failed, and however the histories and the
\* floors move between the two reads of a load, a screen at rest shows the timeline of
\* the chosen source, complete up to the page cap (EventsClient.kt, allEvents) and to
\* what that source forgot (MetaViewModel.kt, refresh).
THEOREM ScreenShowsItsSource == Spec => []TimelineOfSource
<1>1. Init => Inv
  BY InitInv
<1>2. Inv /\ [Next]_vars => Inv'
  BY NextInv
<1>3. Inv => TimelineOfSource
  BY DEF Inv, Current, Shown, TimelineOfSource
<1> QED
  BY <1>1, <1>2, <1>3, PTL DEF Spec
=============================================================================
