---------------------------- MODULE ProverBridge ----------------------------
(***************************************************************************)
(* ProverWebViewBridge.kt: coroutines of the app call functions of a       *)
(* headless WebView page.  A mutex admits one call; its JavaScript is      *)
(* posted to the main thread, runs in the page, may fetch event pages      *)
(* through the bridge's proxy, and answers on the WebView's bridge thread, *)
(* tagged with the request id.  A call also ends by timeout or when its    *)
(* coroutine is cancelled, but the page cannot be interrupted: its         *)
(* JavaScript runs on and answers late.                                    *)
(*                                                                         *)
(* A request id is drawn under the mutex, once per call, so the call       *)
(* itself stands for it.                                                   *)
(***************************************************************************)
EXTENDS FiniteSets

CONSTANTS
    Calls,    \* calls of runProverCall, each made once
    Totals,   \* those that are goalTotal; the others fetch no events
    Source,   \* eventsSourceUrl of each goalTotal, None for the public RPC
    None

ASSUME BridgeAssumption ==
    /\ IsFiniteSet(Calls)
    /\ Totals \subseteq Calls
    /\ Totals = DOMAIN Source
    /\ None \notin Calls

VARIABLES
    ready,      \* the deferred ready: "pending", "ok" or "failed"
    holder,     \* proofMutex: the call that holds it, or None
    call,       \* where the coroutine of each call is
    pending,    \* the request the callbacks look for, or None
    upstream,   \* eventsUpstream
    answer,     \* the deferred of each call, None until completed
    js,         \* the JavaScript of each call
    bridge      \* "up", "destroying" (destroy has failed the call), "down"

vars == <<ready, holder, call, pending, upstream, answer, js, bridge>>
page == <<js, answer>>

Ended == {"returned", "failed"}

NoScript == [pc |-> "none", read |-> {}, seen |-> None, ok |-> FALSE]

Init ==
    /\ ready = "pending"
    /\ holder = None
    /\ call = [c \in Calls |-> "new"]
    /\ pending = None
    /\ upstream = None
    /\ answer = [c \in Calls |-> None]
    /\ js = [c \in Calls |-> NoScript]
    /\ bridge = "up"

-----------------------------------------------------------------------------
(* The page's readiness                                                     *)

\* onProverReady, or the probe of onPageFinished.
BecomeReady ==
    /\ ready = "pending" /\ bridge # "down"
    /\ ready' = "ok"
    /\ UNCHANGED <<holder, call, pending, upstream, page, bridge>>

\* onProverInitError, or the main frame fails to load.
InitFails ==
    /\ ready = "pending" /\ bridge # "down"
    /\ ready' = "failed"
    /\ UNCHANGED <<holder, call, pending, upstream, page, bridge>>

-----------------------------------------------------------------------------
(* runProverCall                                                            *)

\* Mutant: the proxy is pointed at the source before the mutex is taken.
UpstreamOnArrival(c) == IF c \in Totals THEN Source[c] ELSE upstream

UpstreamWhenQueued(c) == upstream

Arrive(c) ==
    /\ call[c] = "new"
    /\ call' = [call EXCEPT ![c] = "queued"]
    /\ upstream' = UpstreamWhenQueued(c)
    /\ UNCHANGED <<ready, holder, pending, page, bridge>>

Acquire(c) ==
    /\ call[c] = "queued"
    /\ holder = None
    /\ holder' = c
    /\ call' = [call EXCEPT ![c] = "holding"]
    /\ UNCHANGED <<ready, pending, upstream, page, bridge>>

\* Mutant: the mutex is not released.
HolderKept(c) == holder

\* Mutant: a call that gives up unlocks even when it was still queued.
AlwaysUnlock(c) == None

HolderAfter(c) == IF holder = c THEN None ELSE holder

\* Mutant: pending is not reset.
PendingKept(c) == pending

PendingAfter(c) == IF call[c] = "awaiting" THEN None ELSE pending

\* The call ends: finally, and the end of withLock.
End(c, how) ==
    /\ call' = [call EXCEPT ![c] = how]
    /\ pending' = PendingAfter(c)
    /\ holder' = HolderAfter(c)

\* awaitReady throws: init failed, or no signal within its timeout.
NotReady(c) ==
    /\ call[c] = "holding"
    /\ ready # "ok"
    /\ End(c, "failed")
    /\ UNCHANGED <<ready, upstream, page, bridge>>

\* The id is drawn, pending set, the source chosen and the script posted.
Dispatch(c) ==
    /\ call[c] = "holding"
    /\ ready = "ok"
    /\ call' = [call EXCEPT ![c] = "awaiting"]
    /\ pending' = c
    /\ upstream' = IF c \in Totals THEN Source[c] ELSE upstream
    /\ js' = [js EXCEPT ![c].pc = "posted"]
    /\ UNCHANGED <<ready, holder, answer, bridge>>

\* deferred.await returns or throws what the page answered.
Return(c) ==
    /\ call[c] = "awaiting"
    /\ answer[c] # None
    /\ End(c, IF answer[c].ok THEN "returned" ELSE "failed")
    /\ UNCHANGED <<ready, upstream, page, bridge>>

\* The timer may beat an answer that is already there.
Timeout(c) ==
    /\ call[c] = "awaiting"
    /\ End(c, "failed")
    /\ UNCHANGED <<ready, upstream, page, bridge>>

\* The coroutine of the caller is cancelled while it is suspended.
Cancel(c) ==
    /\ call[c] \in {"queued", "holding", "awaiting"}
    /\ End(c, "failed")
    /\ UNCHANGED <<ready, upstream, page, bridge>>

-----------------------------------------------------------------------------
(* The page                                                                 *)

\* The main thread evaluates the script; after destroy the WebView ignores it.
Evaluate(c) ==
    /\ js[c].pc = "posted"
    /\ bridge # "down"
    /\ js' = [js EXCEPT ![c].pc = "running"]
    /\ UNCHANGED <<ready, holder, call, pending, upstream, answer, bridge>>

\* goalTotal fetches a page of events and proxyEvents forwards it to the
\* upstream of that moment; without one it answers 503.
FetchEvents(c) ==
    /\ js[c].pc = "running"
    /\ bridge # "down"
    /\ c \in Totals /\ Source[c] # None
    /\ js' = [js EXCEPT ![c].read = js[c].read \union {upstream}]
    /\ UNCHANGED <<ready, holder, call, pending, upstream, answer, bridge>>

\* The promise settles: onProofReady or onProofError reads pending.  A page
\* that was not served makes goalTotal throw.
Answer(c) ==
    /\ js[c].pc = "running"
    /\ bridge # "down"
    /\ \E ok \in BOOLEAN :
         /\ ok => None \notin js[c].read
         /\ js' = [js EXCEPT ![c] = [@ EXCEPT !.pc = "answering", !.seen = pending,
                                              !.ok = ok]]
    /\ UNCHANGED <<ready, holder, call, pending, upstream, answer, bridge>>

\* Mutant: the id of the answer is not compared with the pending request.
AnyPending(c) == js[c].seen # None

Matches(c) == js[c].seen = c

\* The callback completes the deferred of the request it saw, or is ignored.
Complete(c) ==
    /\ js[c].pc = "answering"
    /\ js' = [js EXCEPT ![c].pc = "settled"]
    /\ IF Matches(c) /\ answer[js[c].seen] = None
       THEN answer' = [answer EXCEPT ![js[c].seen] =
                          [from |-> c, ok |-> js[c].ok, read |-> js[c].read]]
       ELSE UNCHANGED answer
    /\ UNCHANGED <<ready, holder, call, pending, upstream, bridge>>

-----------------------------------------------------------------------------
(* destroy, on the main thread while calls run on other dispatchers         *)

\* pending?.deferred?.completeExceptionally
FailPending ==
    /\ bridge = "up"
    /\ bridge' = "destroying"
    /\ answer' = IF pending = None \/ answer[pending] # None THEN answer
                 ELSE [answer EXCEPT ![pending] =
                          [from |-> pending, ok |-> FALSE, read |-> {}]]
    /\ UNCHANGED <<ready, holder, call, pending, upstream, js>>

Destroy ==
    /\ bridge = "destroying"
    /\ bridge' = "down"
    /\ pending' = None
    /\ UNCHANGED <<ready, holder, call, upstream, page>>

-----------------------------------------------------------------------------

CallStep(c) ==
    \/ Acquire(c)
    \/ NotReady(c)
    \/ Dispatch(c)
    \/ Return(c)
    \/ Timeout(c)

Next ==
    \/ BecomeReady
    \/ InitFails
    \/ \E c \in Calls :
          \/ Arrive(c)
          \/ CallStep(c)
          \/ Cancel(c)
          \/ Evaluate(c)
          \/ FetchEvents(c)
          \/ Answer(c)
          \/ Complete(c)
    \/ FailPending
    \/ Destroy

Spec == Init /\ [][Next]_vars

\* Coroutines are scheduled and their timers fire; nothing is assumed of the
\* page, which may never answer.
FairSpec == Spec /\ \A c \in Calls : WF_vars(CallStep(c))

-----------------------------------------------------------------------------
(* Properties                                                               *)

AnswerType ==
    [from : Calls, ok : BOOLEAN, read : SUBSET ({Source[c] : c \in Totals} \union {None})]

Types ==
    /\ ready \in {"pending", "ok", "failed"}
    /\ holder \in Calls \union {None}
    /\ call \in [Calls -> {"new", "queued", "holding", "awaiting"} \union Ended]
    /\ pending \in Calls \union {None}
    /\ upstream \in {Source[c] : c \in Totals} \union {None}
    /\ answer \in [Calls -> AnswerType \union {None}]
    /\ js \in [Calls ->
                 [pc : {"none", "posted", "running", "answering", "settled"},
                  read : SUBSET ({Source[c] : c \in Totals} \union {None}),
                  seen : Calls \union {None}, ok : BOOLEAN]]
    /\ bridge \in {"up", "destroying", "down"}

OneHolder == \A c \in Calls : call[c] \in {"holding", "awaiting"} => holder = c

\* Types of the bridge's fields, the calls and the page's scripts; and a call
\* is past the lock only while the mutex is its own.
TypeOK == Types /\ OneHolder

\* A call never gets the answer of another one: late answers of calls that
\* timed out or were cancelled, and of calls running when the bridge was
\* destroyed, go nowhere.
OwnAnswer == \A c \in Calls : answer[c] # None => answer[c].from = c

\* A goalTotal that succeeds has read every page from the source it was asked
\* to read, whatever other calls came, timed out or were cancelled meanwhile.
OwnSource ==
    \A c \in Totals :
        call[c] = "returned" /\ Source[c] # None => answer[c].read \subseteq {Source[c]}

\* A pending request, while there is one, is that of the call that holds the mutex
\* and waits: no call that ended by timeout, failure or destroy leaves its own behind.
PendingIsCurrent == pending # None => holder = pending /\ call[pending] = "awaiting"

\* Every call ends, also when the page never gets ready or never answers and
\* when the bridge is destroyed before the call's turn.
EveryCallEnds == \A c \in Calls : call[c] = "queued" ~> call[c] \in Ended
=============================================================================
