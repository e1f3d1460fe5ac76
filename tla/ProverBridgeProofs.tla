------------------------- MODULE ProverBridgeProofs -------------------------
(***************************************************************************)
(* The bridge's promises for every set of calls and sources.  Safe is the  *)
(* inductive invariant: it adds to the properties who may hold the mutex,  *)
(* that a script only exists once its call is dispatched, and that the     *)
(* proxy points at the source of the call that waits.                      *)
(***************************************************************************)
EXTENDS ProverBridge, TLAPS

Origins == {Source[c] : c \in Totals} \union {None}

ScriptType ==
    [pc : {"none", "posted", "running", "answering", "settled"},
     read : SUBSET Origins, seen : Calls \union {None}, ok : BOOLEAN]

CallType == {"new", "queued", "holding", "awaiting", "returned", "failed"}

\* Types with its sets named.
Typed ==
    /\ holder \in Calls \union {None}
    /\ call \in [Calls -> CallType]
    /\ pending \in Calls \union {None}
    /\ upstream \in Origins
    /\ answer \in [Calls -> AnswerType \union {None}]
    /\ js \in [Calls -> ScriptType]

\* Before its dispatch a call has no script and no answer.
Fresh ==
    \A c \in Calls : call[c] \in {"new", "queued", "holding"} =>
        /\ js[c] = NoScript
        /\ answer[c] = None

\* What the script of a waiting goalTotal has read, and what a finished one
\* was answered, comes from its own source.
Sourced ==
    \A c \in Totals : Source[c] # None =>
        /\ call[c] = "awaiting" => upstream = Source[c] /\ js[c].read \subseteq {Source[c]}
        /\ call[c] = "returned" => answer[c] # None
        /\ call[c] \in {"awaiting", "returned"} /\ answer[c] # None =>
               answer[c].read \subseteq {Source[c]}

Safe ==
    /\ Types
    /\ OneHolder
    /\ PendingIsCurrent
    /\ OwnAnswer
    /\ Fresh
    /\ Sourced

\* The full types contain the names of the places.
LEMMA TypeNames == Types => Typed
  BY DEF Types, Typed, Origins, ScriptType, CallType, Ended

\* No call has been made at the start.
LEMMA InitSafe == Init => Safe
<1> SUFFICES ASSUME Init PROVE Safe
  OBVIOUS
<1>1. Types
  BY DEF Init, Types, NoScript
<1> QED
  BY <1>1, BridgeAssumption
  DEF Init, Safe, OneHolder, PendingIsCurrent, OwnAnswer, Fresh, Sourced, NoScript

\* The types survive a step.
LEMMA TypeStep ==
    ASSUME Types, Next
    PROVE  Types'
<1>0. Typed
  BY TypeNames
<1> USE BridgeAssumption
<1>1. ASSUME BecomeReady PROVE Types'
  BY <1>0, <1>1 DEF BecomeReady, page, Types, Typed, Origins, ScriptType, CallType, AnswerType, Ended
<1>2. ASSUME InitFails PROVE Types'
  BY <1>0, <1>2 DEF InitFails, page, Types, Typed, Origins, ScriptType, CallType, AnswerType, Ended
<1>3. ASSUME NEW c \in Calls, Arrive(c) PROVE Types'
  BY <1>0, <1>3 DEF Arrive, UpstreamWhenQueued, page, Types, Typed, Origins, ScriptType, CallType, AnswerType, Ended
<1>4. ASSUME NEW c \in Calls, Acquire(c) PROVE Types'
  BY <1>0, <1>4 DEF Acquire, page, Types, Typed, Origins, ScriptType, CallType, AnswerType, Ended
<1>5. ASSUME NEW c \in Calls, NotReady(c) PROVE Types'
  BY <1>0, <1>5 DEF NotReady, End, HolderAfter, PendingAfter, page, Types, Typed, Origins, ScriptType, CallType, AnswerType, Ended
<1>6. ASSUME NEW c \in Calls, Dispatch(c) PROVE Types'
  BY <1>0, <1>6 DEF Dispatch, Types, Typed, Origins, ScriptType, CallType, AnswerType, Ended
<1>7. ASSUME NEW c \in Calls, Return(c) PROVE Types'
  BY <1>0, <1>7 DEF Return, End, HolderAfter, PendingAfter, page, Types, Typed, Origins, ScriptType, CallType, AnswerType, Ended
<1>8. ASSUME NEW c \in Calls, Timeout(c) PROVE Types'
  BY <1>0, <1>8 DEF Timeout, End, HolderAfter, PendingAfter, page, Types, Typed, Origins, ScriptType, CallType, AnswerType, Ended
<1>9. ASSUME NEW c \in Calls, Cancel(c) PROVE Types'
  BY <1>0, <1>9 DEF Cancel, End, HolderAfter, PendingAfter, page, Types, Typed, Origins, ScriptType, CallType, AnswerType, Ended
<1>10. ASSUME NEW c \in Calls, Evaluate(c) PROVE Types'
  BY <1>0, <1>10 DEF Evaluate, Types, Typed, Origins, ScriptType, CallType, AnswerType, Ended
<1>11. ASSUME NEW c \in Calls, FetchEvents(c) PROVE Types'
  BY <1>0, <1>11 DEF FetchEvents, Types, Typed, Origins, ScriptType, CallType, AnswerType, Ended
<1>12. ASSUME NEW c \in Calls, Answer(c) PROVE Types'
  <2>1. PICK ok \in BOOLEAN :
          js' = [js EXCEPT ![c] = [@ EXCEPT !.pc = "answering", !.seen = pending,
                                            !.ok = ok]]
    BY <1>12 DEF Answer
  <2>2. js' \in [Calls -> ScriptType]
    BY <1>0, <2>1 DEF Typed, ScriptType
  <2> QED
    BY <1>0, <1>12, <2>2 DEF Answer, Types, Typed, Origins, ScriptType, CallType, Ended
<1>13. ASSUME NEW c \in Calls, Complete(c) PROVE Types'
  BY <1>0, <1>13 DEF Complete, Matches, Types, Typed, Origins, ScriptType, CallType, AnswerType, Ended
<1>14. ASSUME FailPending PROVE Types'
  BY <1>0, <1>14 DEF FailPending, Types, Typed, Origins, ScriptType, CallType, AnswerType, Ended
<1>15. ASSUME Destroy PROVE Types'
  BY <1>0, <1>15 DEF Destroy, page, Types, Typed, Origins, ScriptType, CallType, AnswerType, Ended
<1> QED BY <1>1, <1>2, <1>3, <1>4, <1>5, <1>6, <1>7, <1>8, <1>9, <1>10, <1>11, <1>12, <1>13, <1>14, <1>15 DEF Next, CallStep

-----------------------------------------------------------------------------

\* The mutex and the pending request move together.
LEMMA MutexStep ==
    ASSUME Typed, OneHolder, PendingIsCurrent, Next
    PROVE  OneHolder' /\ PendingIsCurrent'
<1> USE BridgeAssumption DEF Typed, CallType, OneHolder, PendingIsCurrent
<1>1. CASE UNCHANGED <<holder, call, pending>>
  BY <1>1
<1>2. ASSUME NEW c \in Calls, Arrive(c) PROVE OneHolder' /\ PendingIsCurrent'
  BY <1>2 DEF Arrive
<1>3. ASSUME NEW c \in Calls, Acquire(c) PROVE OneHolder' /\ PendingIsCurrent'
  BY <1>3 DEF Acquire
<1>4. ASSUME NEW c \in Calls, Dispatch(c) PROVE OneHolder' /\ PendingIsCurrent'
  BY <1>4 DEF Dispatch
<1>5. ASSUME NEW c \in Calls, NEW how \in Ended, End(c, how),
             call[c] \in {"queued", "holding", "awaiting"}
      PROVE  OneHolder' /\ PendingIsCurrent'
  <2>1. call' = [call EXCEPT ![c] = how] /\ how \notin {"holding", "awaiting"}
    BY <1>5 DEF End, Ended
  <2>2. holder' = IF holder = c THEN None ELSE holder
    BY <1>5 DEF End, HolderAfter
  <2>3. pending' = IF call[c] = "awaiting" THEN None ELSE pending
    BY <1>5 DEF End, PendingAfter
  <2>4. OneHolder'
    BY <2>1, <2>2
  <2>5. PendingIsCurrent'
    BY <1>5, <2>1, <2>2, <2>3
  <2> QED BY <2>4, <2>5
<1>6. CASE Destroy
  BY <1>6 DEF Destroy
<1> QED
  BY <1>1, <1>2, <1>3, <1>4, <1>5, <1>6
  DEF Next, CallStep, BecomeReady, InitFails, NotReady, Return, Timeout, Cancel,
      Evaluate, FetchEvents, Answer, Complete, FailPending, Ended

\* An answer only completes the deferred of the request it answers.
LEMMA AnswerStep ==
    ASSUME Typed, OwnAnswer, Next
    PROVE  OwnAnswer'
<1> USE BridgeAssumption DEF Typed, OwnAnswer
<1>1. CASE UNCHANGED answer
  BY <1>1
<1>2. ASSUME NEW c \in Calls, Complete(c) PROVE OwnAnswer'
  BY <1>2 DEF Complete, Matches
<1>3. CASE FailPending
  BY <1>3 DEF FailPending
<1> QED
  BY <1>1, <1>2, <1>3
  DEF Next, CallStep, BecomeReady, InitFails, Arrive, Acquire, NotReady, Dispatch,
      Return, Timeout, Cancel, Evaluate, FetchEvents, Answer, Destroy, page

\* Scripts and answers belong to calls that were dispatched.
LEMMA FreshStep ==
    ASSUME Typed, PendingIsCurrent, Fresh, Next
    PROVE  Fresh'
<1> USE BridgeAssumption DEF Typed, CallType, Fresh
<1>1. CASE UNCHANGED page /\ \A d \in Calls :
               call'[d] \in {"new", "queued", "holding"} =>
                   call[d] \in {"new", "queued", "holding"}
  BY <1>1 DEF page
<1>2. ASSUME NEW c \in Calls, Dispatch(c) PROVE Fresh'
  BY <1>2 DEF Dispatch
<1>3. ASSUME NEW c \in Calls, js[c].pc # "none", UNCHANGED call,
             \A d \in Calls : d # c => js'[d] = js[d] /\ answer'[d] = answer[d]
      PROVE  Fresh'
  <2>1. call[c] \notin {"new", "queued", "holding"}
    BY <1>3 DEF NoScript
  <2>2. ASSUME NEW d \in Calls, call[d] \in {"new", "queued", "holding"}
        PROVE  js'[d] = NoScript /\ answer'[d] = None
    <3>1. d # c
      BY <2>1, <2>2
    <3> QED BY <1>3, <2>2, <3>1
  <2> QED BY <1>3, <2>2
<1>4. CASE FailPending
  <2>1. \A d \in Calls : call[d] # "awaiting" => answer'[d] = answer[d]
    BY <1>4 DEF FailPending, PendingIsCurrent
  <2> QED BY <1>4, <2>1 DEF FailPending
<1>5. ASSUME NEW c \in Calls, NEW how \in Ended, End(c, how), UNCHANGED page
      PROVE  Fresh'
  BY <1>1, <1>5 DEF End, Ended
<1>6. ASSUME NEW c \in Calls, Arrive(c) \/ Acquire(c) PROVE Fresh'
  BY <1>1, <1>6 DEF Arrive, Acquire
<1>7. ASSUME NEW c \in Calls, Evaluate(c) \/ FetchEvents(c) \/ Answer(c) \/ Complete(c)
      PROVE  Fresh'
  <2>1. js[c].pc # "none" /\ UNCHANGED call
    BY <1>7 DEF Evaluate, FetchEvents, Answer, Complete
  <2>2. \A d \in Calls : d # c => js'[d] = js[d]
    BY <1>7 DEF Evaluate, FetchEvents, Answer, Complete
  <2>3. \A d \in Calls : d # c => answer'[d] = answer[d]
    BY <1>7 DEF Evaluate, FetchEvents, Answer, Complete, Matches
  <2> QED BY <1>3, <2>1, <2>2, <2>3
<1>8. CASE BecomeReady \/ InitFails \/ Destroy
  BY <1>1, <1>8 DEF BecomeReady, InitFails, Destroy
<1> QED
  BY <1>2, <1>4, <1>5, <1>6, <1>7, <1>8
  DEF Next, CallStep, NotReady, Return, Timeout, Cancel, Ended

\* The proxy follows the waiting call, so what its script reads is its own.
LEMMA SourceStep ==
    ASSUME Typed, OneHolder, PendingIsCurrent, Fresh, Sourced, Next
    PROVE  Sourced'
<1> USE BridgeAssumption DEF Typed, CallType, Sourced
<1>1. ASSUME UNCHANGED <<js, answer, upstream>>,
             \A d \in Calls :
               /\ call'[d] = "awaiting" => call[d] = "awaiting"
               /\ call'[d] = "returned" =>
                      call[d] = "returned" \/ (call[d] = "awaiting" /\ answer[d] # None)
      PROVE  Sourced'
  BY <1>1 DEF page
<1>2. ASSUME NEW c \in Calls, Dispatch(c) PROVE Sourced'
  <2>1. \A d \in Calls : call[d] # "awaiting"
    BY <1>2 DEF Dispatch, OneHolder
  <2>2. /\ call' = [call EXCEPT ![c] = "awaiting"]
        /\ c \in Totals => upstream' = Source[c]
        /\ js' = [js EXCEPT ![c].pc = "posted"]
        /\ answer' = answer /\ answer[c] = None /\ js[c].read = {}
    BY <1>2 DEF Dispatch, Fresh, NoScript
  <2>3. js'[c].read = {}
    BY <2>2 DEF ScriptType
  <2> QED BY <2>1, <2>2, <2>3
<1>3. ASSUME NEW c \in Calls, Evaluate(c) \/ Answer(c) PROVE Sourced'
  <2>1. CASE Evaluate(c)
    <3>1. \A d \in Calls : js'[d].read = js[d].read
      BY <2>1 DEF Evaluate, ScriptType
    <3> QED BY <2>1, <3>1 DEF Evaluate
  <2>2. CASE Answer(c)
    <3>1. PICK ok \in BOOLEAN :
            js' = [js EXCEPT ![c] = [@ EXCEPT !.pc = "answering", !.seen = pending,
                                              !.ok = ok]]
      BY <2>2 DEF Answer
    <3>2. \A d \in Calls : js'[d].read = js[d].read
      BY <3>1 DEF ScriptType
    <3> QED BY <2>2, <3>2 DEF Answer
  <2> QED BY <1>3, <2>1, <2>2
<1>4. ASSUME NEW c \in Calls, FetchEvents(c) PROVE Sourced'
  <2>1. js'[c].read = js[c].read \union {upstream}
    BY <1>4 DEF FetchEvents, ScriptType
  <2>2. \A d \in Calls : d # c => js'[d] = js[d]
    BY <1>4 DEF FetchEvents
  <2> QED BY <1>4, <2>1, <2>2 DEF FetchEvents
<1>5. ASSUME NEW c \in Calls, Complete(c) PROVE Sourced'
  <2>1. \A d \in Calls : js'[d].read = js[d].read
    BY <1>5 DEF Complete, ScriptType
  <2>2. \/ answer' = answer
        \/ /\ answer[c] = None
           /\ answer' = [answer EXCEPT ![c] =
                             [from |-> c, ok |-> js[c].ok, read |-> js[c].read]]
    BY <1>5 DEF Complete, Matches
  <2>3. UNCHANGED <<call, upstream>>
    BY <1>5 DEF Complete
  <2> QED BY <2>1, <2>2, <2>3
<1>6. CASE FailPending
  <2>1. UNCHANGED <<call, upstream, js>>
    BY <1>6 DEF FailPending
  <2>2. CASE answer' = answer
    BY <2>1, <2>2
  <2>3. CASE /\ pending # None /\ answer[pending] = None
             /\ answer' = [answer EXCEPT ![pending] =
                              [from |-> pending, ok |-> FALSE, read |-> {}]]
    <3>1. pending \in Calls /\ answer'[pending].read = {} /\ call[pending] = "awaiting"
      BY <2>3 DEF PendingIsCurrent
    <3>2. \A d \in Calls : d # pending => answer'[d] = answer[d]
      BY <2>3
    <3> QED BY <2>1, <3>1, <3>2
  <2> QED BY <1>6, <2>2, <2>3 DEF FailPending
<1>7. ASSUME NEW c \in Calls, NotReady(c) \/ Return(c) \/ Timeout(c) \/ Cancel(c)
      PROVE  Sourced'
  <2>1. UNCHANGED <<js, answer, upstream>>
    BY <1>7 DEF NotReady, Return, Timeout, Cancel, page
  <2>2. \/ call' = [call EXCEPT ![c] = "failed"]
        \/ /\ call' = [call EXCEPT ![c] = "returned"]
           /\ call[c] = "awaiting" /\ answer[c] # None
    BY <1>7 DEF NotReady, Return, Timeout, Cancel, End
  <2>3. \A d \in Calls :
          /\ call'[d] = "awaiting" => call[d] = "awaiting"
          /\ call'[d] = "returned" =>
                 call[d] = "returned" \/ (call[d] = "awaiting" /\ answer[d] # None)
    BY <2>2
  <2> QED BY <1>1, <2>1, <2>3
<1>8. ASSUME NEW c \in Calls, Arrive(c) \/ Acquire(c) PROVE Sourced'
  <2>1. UNCHANGED <<js, answer, upstream>>
    BY <1>8 DEF Arrive, Acquire, UpstreamWhenQueued, page
  <2>2. \A d \in Calls : call'[d] \in {"awaiting", "returned"} => call'[d] = call[d]
    BY <1>8 DEF Arrive, Acquire
  <2> QED BY <1>1, <2>1, <2>2
<1>9. CASE BecomeReady \/ InitFails \/ Destroy
  <2>1. UNCHANGED <<js, answer, upstream>> /\ call' = call
    BY <1>9 DEF BecomeReady, InitFails, Destroy, page
  <2> QED BY <1>1, <2>1
<1> QED
  BY <1>2, <1>3, <1>4, <1>5, <1>6, <1>7, <1>8, <1>9 DEF Next, CallStep

-----------------------------------------------------------------------------

\* Every step of a call, of a script and of destroy.
LEMMA SafeInductive == Safe /\ [Next]_vars => Safe'
<1> SUFFICES ASSUME Safe, [Next]_vars PROVE Safe'
  OBVIOUS
<1>1. CASE Next
  BY <1>1, TypeNames, TypeStep, MutexStep, AnswerStep, FreshStep, SourceStep DEF Safe
<1>2. CASE UNCHANGED vars
  BY <1>2 DEF vars, page, Safe, Types, OneHolder, PendingIsCurrent, OwnAnswer, Fresh, Sourced
<1> QED BY <1>1, <1>2

\* Safe is invariant.
LEMMA AlwaysSafe == Spec => []Safe
  BY InitSafe, SafeInductive, PTL DEF Spec

\* The bridge's state is typed and the mutex excludes: no two calls are past
\* the lock at once (ProverWebViewBridge.kt:373-393).
THEOREM TypeCorrect == Spec => []TypeOK
<1>1. Safe => TypeOK
  BY DEF Safe, TypeOK
<1> QED BY <1>1, AlwaysSafe, PTL

\* No call ever gets the answer of another one, for any number of calls, late
\* answers, timeouts, cancellations and a destroy at any moment
\* (ProverWebViewBridge.kt:414-440).
THEOREM AnswersAreOwn == Spec => []OwnAnswer
<1>1. Safe => OwnAnswer
  BY DEF Safe
<1> QED BY <1>1, AlwaysSafe, PTL

\* A pending request, while there is one, is that of the call that holds the mutex
\* and waits (ProverWebViewBridge.kt:373-393).
THEOREM PendingStaysCurrent == Spec => []PendingIsCurrent
<1>1. Safe => PendingIsCurrent
  BY DEF Safe
<1> QED BY <1>1, AlwaysSafe, PTL

\* A total that is returned was computed from events of the source its caller
\* asked for (ProverWebViewBridge.kt:289-292).
THEOREM TotalsReadTheirSource == Spec => []OwnSource
<1>1. Safe => OwnSource
  BY BridgeAssumption DEF Safe, Sourced, OwnSource
<1> QED BY <1>1, AlwaysSafe, PTL
=============================================================================
