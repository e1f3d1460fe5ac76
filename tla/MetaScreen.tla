----------------------------- MODULE MetaScreen -----------------------------
(***************************************************************************)
(* MetaViewModel.kt: the public goal screen.  Two coroutines feed it: the  *)
(* load of the timeline and the verification of the total.  The main       *)
(* thread runs everything here, one callback at a time; the calls they     *)
(* wait for end on other threads, in any order.                            *)
(*                                                                         *)
(* Cancelling a load does not stop the blocking HTTP call it waits for:    *)
(* its coroutine goes on when that call is over, with a                    *)
(* CancellationException, and catch (e: Exception) takes it for a failed   *)
(* load.  A cancelled verification waits in cancellable calls only: its    *)
(* catch runs inside cancel(), before verifyTotal writes its own state,    *)
(* and leaves no trace; unless its answer was posted to the main thread    *)
(* already: then its catch runs when that message does.                    *)
(*                                                                         *)
(* A load reads the histories of two contracts, one after the other, while *)
(* both grow, and GoalTimeline.build keeps what is of the goal.  One read  *)
(* of one history is a step and returns what a read of many pages may      *)
(* (EventsPagingProofs, PagingIsOneRead): all of it, the first MaxEvents   *)
(* events when the page cap cuts it, and in the purge demo all from some   *)
(* floor on, with some of what is older when a floor query failed.  The    *)
(* events are numbered by their ledgers.                                   *)
(***************************************************************************)
EXTENDS Integers, Sequences, FiniteSets

CONSTANTS
    Sources,     \* event sources the user can choose
    Forgetful,   \* those that ask for the retention simulation
    Window,      \* RETENTION_SIMULATION_LEDGERS
    MaxEvents,   \* events allEvents returns at most: 25 pages of 200
    MaxLoads,    \* bound: loads of the timeline
    MaxLedger,   \* bound: events on chain
    None

ASSUME MetaAssumption ==
    /\ Sources # {} /\ Forgetful \subseteq Sources
    /\ None \notin Sources \union Nat \union {"failed", "cancelled"}
    /\ Window \in Nat \ {0} /\ MaxEvents \in Nat \ {0}
    /\ MaxLoads \in Nat \ {0} /\ MaxLedger \in Nat

VARIABLES
    history,  \* the indexed events of the CT wrapper and of goal_meta
    store,    \* EventSourceStore.value
    ui,       \* MetaUiState without the total
    total,    \* MetaUiState.total
    loads,    \* the load coroutines; loadJob is loads[count]
    count,    \* loads launched
    run       \* the coroutine of totalJob, and a cancelled one yet to run its catch

vars == <<history, store, ui, total, loads, count, run>>

Idle == [kind |-> "idle", src |-> None]
NoLoad ==
    [pc |-> "none", src |-> None, auto |-> FALSE, since |-> 0, ct |-> {}, floor |-> None]
NewLoad(s, auto) ==
    [NoLoad EXCEPT !.pc = "ct", !.src = s, !.auto = auto, !.since = Len(history)]
Reading == {"ct", "meta"}
NoRun == [running |-> FALSE, src |-> None, late |-> FALSE]

-----------------------------------------------------------------------------
(* refresh and verifyTotal, as the callbacks below call them                *)

\* Mutant: the load in flight is left alone.
LeaveLoad(j) == loads[j]

\* loadJob?.cancel()
CancelLoad(j) ==
    IF loads[j].pc \in Reading THEN [NoLoad EXCEPT !.pc = "cancelled"] ELSE loads[j]

\* refresh: cancel the load in flight and launch one that reads s.
Launch(s, auto) ==
    /\ count < MaxLoads
    /\ count' = count + 1
    /\ loads' = [j \in 1..MaxLoads |->
                    IF j = count + 1 THEN NewLoad(s, auto)
                    ELSE IF j = count THEN CancelLoad(j) ELSE loads[j]]
    /\ ui' = [ui EXCEPT !.busy = TRUE, !.error = None, !.source = s]

\* verifyTotal, unless a verification is running.  One that a change of source left
\* running is cancelled; its answer may be in the main thread's queue already.
StartTotal ==
    IF total.kind = "running" THEN UNCHANGED <<total, run>>
    ELSE /\ total' = [Idle EXCEPT !.kind = "running"]
         /\ \E late \in {run.late} \union {run.running} :
               run' = [running |-> TRUE, src |-> store, late |-> late]

Init ==
    /\ history = <<>>
    /\ store \in Sources
    /\ ui = [busy |-> TRUE, error |-> None, source |-> store, shown |-> None,
             entries |-> {}, oldest |-> None, since |-> 0]
    /\ total = Idle
    /\ loads = [j \in 1..MaxLoads |->
                   IF j = 1 THEN NewLoad(store, TRUE) ELSE NoLoad]
    /\ count = 1
    /\ run = NoRun

-----------------------------------------------------------------------------
(* The chain and the index                                                  *)

\* The CT wrapper or goal_meta emits an event, about the goal of this screen or not.
Emit ==
    /\ Len(history) < MaxLedger
    /\ \E contract \in {"ct", "meta"}, ours \in BOOLEAN :
          history' = Append(history, [contract |-> contract, ours |-> ours])
    /\ UNCHANGED <<store, ui, total, loads, count, run>>

\* The floor of the purge demo, of a request whose floor query succeeds.
Floor == IF Len(history) >= Window THEN Len(history) - Window + 1 ELSE 0

\* The ledger a read of s returns everything from: at most the floor, which rises
\* while the read goes on.
ServedFrom(s) == IF s \in Forgetful THEN 0..Floor ELSE {0}

\* oldestLedger of the read: that ledger, or 0 when the last floor query failed;
\* only a forgetful source declares one.
Declared(s, from) == IF s \in Forgetful THEN {0, from} ELSE {None}

\* What the page cap leaves of a read that selects the ledgers S.
WithinCap(S) == {l \in S : Cardinality({k \in S : k < l}) < MaxEvents}

\* allEvents: the ledgers of a contract's events from one ledger on, and those of
\* the older ones that pages without a floor returned.
AllEvents(contract, from, older) ==
    WithinCap({l \in 1..Len(history) :
                  history[l].contract = contract /\ (l >= from \/ l \in older)})

-----------------------------------------------------------------------------
(* The user                                                                 *)

\* A preset is chosen: reload and verify again.
SelectSource(s) ==
    /\ store' = s
    /\ total' = Idle
    /\ Launch(s, TRUE)
    /\ UNCHANGED <<history, run>>

\* The base URL is edited: reload, but do not spend a verification.
SetBaseUrl(s) ==
    /\ store' = s
    /\ total' = Idle
    /\ Launch(s, FALSE)
    /\ UNCHANGED <<history, run>>

Refresh ==
    /\ Launch(store, TRUE)
    /\ UNCHANGED <<history, store, total, run>>

VerifyTotal ==
    /\ StartTotal
    /\ UNCHANGED <<history, store, ui, loads, count>>

-----------------------------------------------------------------------------
(* The load                                                                 *)

\* The coroutine is over.
End(j) == loads' = [loads EXCEPT ![j] = NoLoad]

\* The events of the CT wrapper arrive.
CtRead(j) ==
    /\ loads[j].pc = "ct"
    /\ \E from \in ServedFrom(loads[j].src), older \in SUBSET (1..Len(history)) :
          \E oldest \in Declared(loads[j].src, from) :
             loads' = [loads EXCEPT ![j].pc = "meta",
                                    ![j].ct = AllEvents("ct", from, older),
                                    ![j].floor = oldest]
    /\ UNCHANGED <<history, store, ui, total, count, run>>

\* GoalTimeline.build: transfers to and merges by the goal's account, the creation
\* and the harvests of the goal's id.
Kept(ledgers) == {l \in ledgers : history[l].ours}

\* oldestLedger of the timeline: ct's, or else meta's.
DeclaredFloor(first, second) == IF first # None THEN first ELSE second

\* The events of goal_meta arrive too: show both, then verify if asked to.
LoadSucceeds(j) ==
    /\ loads[j].pc = "meta"
    /\ End(j)
    /\ LET src == loads[j].src IN
         \E from \in ServedFrom(src), older \in SUBSET (1..Len(history)) :
            \E oldest \in Declared(src, from) :
               ui' = [busy |-> FALSE, error |-> None, source |-> src, shown |-> src,
                      entries |-> Kept(loads[j].ct \union AllEvents("meta", from, older)),
                      oldest |-> DeclaredFloor(loads[j].floor, oldest),
                      since |-> loads[j].since]
    /\ IF loads[j].auto THEN StartTotal ELSE UNCHANGED <<total, run>>
    /\ UNCHANGED <<history, store, count>>

\* Mutant: the failure of a load leaves the spinner on.
StillBusy == ui.busy

NotBusy == FALSE

LoadFails(j) ==
    /\ loads[j].pc \in Reading
    /\ End(j)
    /\ ui' = [ui EXCEPT !.busy = NotBusy, !.error = "failed"]
    /\ UNCHANGED <<history, store, total, count, run>>

\* The call a cancelled load was waiting for is over.
LoadCancelled(j) ==
    /\ loads[j].pc = "cancelled"
    /\ End(j)
    /\ ui' = [ui EXCEPT !.busy = FALSE, !.error = "cancelled"]
    /\ UNCHANGED <<history, store, total, count, run>>

-----------------------------------------------------------------------------
(* The verification: bridge.goalTotal answers or throws                     *)

\* Mutant: an exception of the bridge is only logged.
FailureIgnored == total

FailureShown == [Idle EXCEPT !.kind = "failed"]

\* applyTotal.
TotalAnswers ==
    /\ run.running
    /\ run' = [NoRun EXCEPT !.late = run.late]
    /\ \E kind \in {"verified", "unverified"} :
          total' = [kind |-> kind, src |-> run.src]
    /\ UNCHANGED <<history, store, ui, loads, count>>

TotalFails ==
    /\ run.running
    /\ run' = [NoRun EXCEPT !.late = run.late]
    /\ total' = FailureShown
    /\ UNCHANGED <<history, store, ui, loads, count>>

\* A cancelled verification whose answer was posted: its catch writes over the
\* state of the one that replaced it.
TotalCancelledLate ==
    /\ run.late
    /\ run' = [run EXCEPT !.late = FALSE]
    /\ total' = FailureShown
    /\ UNCHANGED <<history, store, ui, loads, count>>

LoadStep(j) == CtRead(j) \/ LoadSucceeds(j) \/ LoadFails(j) \/ LoadCancelled(j)
TotalStep == TotalAnswers \/ TotalFails

Next ==
    \/ Emit
    \/ \E s \in Sources : SelectSource(s) \/ SetBaseUrl(s)
    \/ Refresh
    \/ VerifyTotal
    \/ \E j \in 1..MaxLoads : LoadStep(j)
    \/ TotalStep
    \/ TotalCancelledLate

Spec == Init /\ [][Next]_vars

\* HTTP calls have timeouts and bounded retries (EventsPaging, ReadReturns) and
\* every call of the bridge ends (ProverBridge, EveryCallEnds).
FairSpec ==
    /\ Spec
    /\ \A j \in 1..MaxLoads : WF_vars(LoadStep(j))
    /\ WF_vars(TotalStep)

-----------------------------------------------------------------------------
(* Properties                                                               *)

\* The event of ledger l is one of the first MaxEvents of its contract.
BeforeCap(l) ==
    Cardinality({k \in 1..(l - 1) : history[k].contract = history[l].contract}) < MaxEvents

\* No floor hides it: there is none, it is within the window still, or it is an
\* event of the CT wrapper from the declared floor on.  0 declares nothing.
NotForgotten(l, oldest) ==
    \/ oldest = None
    \/ l >= Floor
    \/ history[l].contract = "ct" /\ oldest \in 1..l

\* The timeline holds nothing that is not of the goal, and of what the index held
\* when the load began it lacks nothing but what lies past the page cap, which is
\* newer than all that was read, and what the purge demo forgot.
Complete ==
    /\ \A l \in ui.entries : history[l].ours
    /\ \A l \in 1..ui.since :
          history[l].ours /\ BeforeCap(l) /\ NotForgotten(l, ui.oldest) => l \in ui.entries

\* As soon as the screen neither loads nor reports an error, the timeline on it is
\* the one of the source that is chosen, complete up to the page cap, of which the
\* screen says nothing: no load of another source, slow or late, can replace it, the
\* label agrees with the data, and the two reads are put together without loss
\* however the histories and the floors move between them.
TimelineOfSource ==
    ~ui.busy /\ ui.error = None => ui.shown = store /\ ui.source = store /\ Complete

\* The spinner stops.
SpinnerStops == ui.busy ~> ~ui.busy

\* A verification gets to a result, an error or a source change: the screen
\* never shows it running for ever.
TotalSettles == total.kind = "running" ~> total.kind # "running"

\* "A source change invalidates the total: it was computed from the other
\* source's events and saying otherwise would be a lie."
\* (MetaViewModel.kt:122-123)
TotalOfSource == total.kind = "verified" => total.src = store
=============================================================================
