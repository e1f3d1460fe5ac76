------------------------------ MODULE WalletOps ------------------------------
(***************************************************************************)
(* "Mi Sobre": SobreViewModel.kt runs one operation of CtWallet.kt at a    *)
(* time.  An operation is prepared by a script of the prover page, signed, *)
(* sent (SorobanRpc.kt sends again when the answer is lost) and polled     *)
(* for, and the balance is read again when it is confirmed.  Calls of the  *)
(* page go through the bridge one after the other.  The poll gives up      *)
(* while the transaction may still land; the user may then press again,    *)
(* and the app may be killed at any time.                                  *)
(***************************************************************************)
EXTENDS ProverPage

CONSTANTS
    Tries,    \* tries of sendTransaction (4)
    Reads,    \* refreshes of the balance that may be under way at once
    Chains    \* accounts the app may be opened on

ASSUME WalletAssumption ==
    /\ Tries \in Nat \ {0} /\ Reads # {} /\ "op" \notin Reads
    /\ Chains \subseteq [registered : BOOLEAN, spend : Nat, recv : Nat, rev : Nat,
                         seq : Nat, landed : {<<>>}]

VARIABLES
    ui,       \* OpUiState: "idle", "running", "ok" or "failed"
    op,       \* opJob: [n, kind, pc, tries]
    presses,  \* buttons pressed so far
    queue,    \* calls at the bridge's mutex, the one that holds it first
    read,     \* refreshStatus coroutines, and what they have read
    shown,    \* the balance on screen: [loading, error, asOf, registered]
    net,      \* transactions the network has and has not applied
    result    \* what getTransaction says of each press's transaction

wallet == <<ui, op, presses, queue, read, shown>>
vars == <<chain, page, wallet, net, result>>

NoOp == [n |-> 0, kind |-> "", pc |-> "none", tries |-> 1]
NoRead == [pc |-> "none", asOf |-> 0, registered |-> "unknown"]
NothingShown ==
    [loading |-> FALSE, error |-> FALSE, asOf |-> 0, registered |-> "unknown"]

Init ==
    /\ chain \in Chains
    /\ asset = NoAssets /\ fetches = NoFetches /\ built = NoBackends
    /\ script = NoScripts
    /\ ui = "idle" /\ op = NoOp /\ presses = 0
    /\ queue = <<>> /\ read = [r \in Reads |-> NoRead] /\ shown = NothingShown
    /\ net = {} /\ result = [n \in Press |-> "none"]

\* How many transactions have landed: the age of a balance.
Version == Len(chain.landed)

-----------------------------------------------------------------------------
(* refreshStatus                                                            *)

\* Mutant: a read does not wait for the bridge.
TurnAnytime(c) == TRUE

Turn(c) == queue # <<>> /\ Head(queue) = c

\* Who holds the mutex leaves it; who does not has nothing to leave.
Done(c) == IF queue # <<>> /\ Head(queue) = c THEN Tail(queue) ELSE queue

Queued(r) ==
    /\ read[r].pc = "none"
    /\ read' = [read EXCEPT ![r].pc = "queued"]
    /\ shown' = [shown EXCEPT !.loading = TRUE, !.error = FALSE]

Refresh(r) ==
    /\ ui # "running"
    /\ Queued(r)
    /\ queue' = Append(queue, r)
    /\ UNCHANGED <<chain, page, ui, op, presses, net, result>>

\* status: registered, and the balance from the events.
StatusRead(r) ==
    /\ read[r].pc = "queued" /\ Turn(r)
    /\ read' = [read EXCEPT ![r] =
          [pc |-> "answered", asOf |-> Version,
           registered |-> IF chain.registered THEN "yes" ELSE "no"]]
    /\ UNCHANGED <<chain, page, ui, op, presses, queue, shown, net, result>>

StatusShown(r) ==
    /\ read[r].pc = "answered"
    /\ read' = [read EXCEPT ![r] = NoRead]
    /\ queue' = Done(r)
    /\ shown' = [loading |-> FALSE, error |-> FALSE, asOf |-> read[r].asOf,
                 registered |-> read[r].registered]
    /\ UNCHANGED <<chain, page, ui, op, presses, net, result>>

\* It throws, or times out.
StatusFails(r) ==
    /\ read[r].pc \in {"queued", "answered"} /\ Turn(r)
    /\ read' = [read EXCEPT ![r] = NoRead]
    /\ queue' = Done(r)
    /\ shown' = [shown EXCEPT !.loading = FALSE, !.error = TRUE]
    /\ UNCHANGED <<chain, page, ui, op, presses, net, result>>

ReadStep(r) == StatusRead(r) \/ StatusShown(r) \/ StatusFails(r)

-----------------------------------------------------------------------------
(* run: one operation                                                       *)

\* The buttons the screen offers.
Offered(kind) ==
    CASE kind = "register" -> shown.registered = "no"
      [] kind = "deposit" -> TRUE
      [] OTHER -> shown.registered # "no"

\* register and deposit make sure that the account has funds first.
PressButton(kind) ==
    /\ ui # "running" /\ presses < MaxPresses
    /\ Offered(kind)
    /\ presses' = presses + 1
    /\ ui' = "running"
    /\ op' = [n |-> presses + 1, kind |-> kind, tries |-> 1,
              pc |-> IF kind \in {"register", "deposit"} THEN "fund" ELSE "queued"]
    /\ queue' = IF kind \in {"register", "deposit"} THEN queue
                ELSE Append(queue, "op")
    /\ UNCHANGED <<chain, page, read, shown, net, result>>

\* The coroutine ends with an exception.
Failed ==
    /\ ui' = "failed"
    /\ op' = [op EXCEPT !.pc = "none"]
    /\ queue' = Done("op")
    /\ UNCHANGED <<chain, page, presses, read, shown, net, result>>

\* It ends well, and the balance is read again.
Succeeds ==
    /\ ui' = "ok"
    /\ op' = [op EXCEPT !.pc = "none"]
    /\ \E r \in Reads : Queued(r) /\ queue' = Append(Done("op"), r)
    /\ UNCHANGED <<chain, page, presses, net, result>>

Funded ==
    /\ op.pc = "fund"
    /\ op' = [op EXCEPT !.pc = "queued"]
    /\ queue' = Append(queue, "op")
    /\ UNCHANGED <<chain, page, ui, presses, read, shown, net, result>>

\* Friendbot fails four times, the page never was ready, or the call of the page
\* times out: its script runs on.
CannotPrepare ==
    /\ op.pc = "fund" \/ (op.pc \in {"queued", "preparing"} /\ Turn("op"))
    /\ Failed

Dispatched ==
    /\ op.pc = "queued" /\ Turn("op")
    /\ op' = [op EXCEPT !.pc = "preparing"]
    /\ script' = [script EXCEPT ![op.n] = Begun(op.kind)]
    /\ UNCHANGED <<chain, asset, fetches, built, ui, presses, queue, read, shown,
                   net, result>>

\* The script answers: a transaction to sign and send, nothing to do, or an error.
Prepared ==
    /\ op.pc = "preparing"
    /\ \/ /\ At(op.n, "ready")
          /\ op' = [op EXCEPT !.pc = "send"]
          /\ queue' = Done("op")
          /\ UNCHANGED <<chain, page, ui, presses, read, shown, net, result>>
       \/ At(op.n, "already") /\ Succeeds
       \/ At(op.n, "error") /\ Failed

-----------------------------------------------------------------------------
(* sendTransaction and pollUntilComplete                                    *)

Tx(seq) ==
    [n |-> op.n, kind |-> op.kind, rev |-> script[op.n].rev, seq |-> seq,
     seen |-> script[op.n].seen]

\* Mutant: what is sent again is built again.
EnvelopeRebuilt ==
    Tx(IF op.tries = 1 THEN script[op.n].seq ELSE chain.seq + 1)

\* The envelope is signed once, and every try sends the same.
Envelope == Tx(script[op.n].seq)

InTurn(t) == t.seq = chain.seq + 1

SendAgain ==
    \/ /\ op.tries < Tries
       /\ op' = [op EXCEPT !.tries = @ + 1]
       /\ UNCHANGED <<ui, presses, queue, read, shown>>
    \/ /\ op.tries = Tries
       /\ ui' = "failed"
       /\ op' = [op EXCEPT !.pc = "none"]
       /\ UNCHANGED <<presses, queue, read, shown>>

\* The RPC takes it, PENDING, or knows it already, DUPLICATE; its answer may be lost.
SendTaken(answered) ==
    /\ op.pc = "send"
    /\ InTurn(Envelope) \/ result[op.n] # "none"
    /\ net' = IF InTurn(Envelope) THEN net \union {Envelope} ELSE net
    /\ IF answered
       THEN op' = [op EXCEPT !.pc = "poll"] /\ UNCHANGED <<ui, presses, queue, read, shown>>
       ELSE SendAgain
    /\ UNCHANGED <<chain, page, result>>

\* The request never arrives.
SendLost ==
    /\ op.pc = "send"
    /\ SendAgain
    /\ UNCHANGED <<chain, page, net, result>>

\* ERROR or TRY_AGAIN_LATER, or a JSON-RPC error: not retried.
SendRefused == op.pc = "send" /\ Failed

\* Mutant: a poll that ends without a verdict is taken for success.
ConfirmedUnlessFailed == result[op.n] # "failed"

Confirmed == result[op.n] = "success"

PollConfirms == op.pc = "poll" /\ Confirmed /\ Succeeds

\* Mutant: the poll has no deadline.
GivesUpNever == FALSE

\* At the deadline, or when getTransaction fails four times.
GivesUp == TRUE

PollFails ==
    /\ op.pc = "poll"
    /\ result[op.n] = "failed" \/ GivesUp
    /\ Failed

OpStep ==
    \/ Funded \/ CannotPrepare \/ Dispatched \/ Prepared
    \/ \E answered \in BOOLEAN : SendTaken(answered)
    \/ SendLost \/ SendRefused \/ PollConfirms \/ PollFails

-----------------------------------------------------------------------------
(* The network                                                              *)

After(t) ==
    CASE t.kind = "register" -> [chain EXCEPT !.registered = TRUE]
      [] t.kind = "deposit" -> [chain EXCEPT !.recv = @ + 1]
      [] t.kind = "merge" ->
            IF chain.recv = 0 THEN chain
            ELSE [chain EXCEPT !.spend = @ + chain.recv, !.recv = 0, !.rev = @ + 1]
      [] t.kind = "transfer" -> [chain EXCEPT !.spend = @ - 1, !.rev = @ + 1]

\* A transaction is applied, as a success or as a failure.
Land(t) ==
    /\ t \in net /\ InTurn(t)
    /\ net' = net \ {t}
    /\ chain' = [(IF Accepts(t) THEN After(t) ELSE chain) EXCEPT
                   !.seq = t.seq,
                   !.landed = IF Accepts(t) THEN Append(@, [n |-> t.n, seen |-> t.seen])
                              ELSE @]
    /\ result' = [result EXCEPT ![t.n] = IF Accepts(t) THEN "success" ELSE "failed"]
    /\ UNCHANGED <<page, wallet>>

\* Its time bounds, 180 s, pass; or its turn has.
Expire(t) ==
    /\ t \in net
    /\ net' = net \ {t}
    /\ UNCHANGED <<chain, page, wallet, result>>

\* The app is killed and opened again.
Restart ==
    /\ asset' = NoAssets /\ fetches' = NoFetches /\ built' = NoBackends
    /\ script' = NoScripts
    /\ ui' = "idle" /\ op' = NoOp
    /\ queue' = <<>> /\ read' = [r \in Reads |-> NoRead] /\ shown' = NothingShown
    /\ UNCHANGED <<chain, presses, net, result>>

Next ==
    \/ \E r \in Reads : Refresh(r) \/ ReadStep(r)
    \/ \E kind \in {"register", "deposit", "merge", "transfer"} : PressButton(kind)
    \/ OpStep
    \/ /\ \/ \E n \in Press : ScriptStep(n)
          \/ \E a \in Asset : Arrives(a)
       /\ UNCHANGED <<wallet, net, result>>
    \/ \E t \in net : Land(t) \/ Expire(t)
    \/ Restart

Spec == Init /\ [][Next]_vars

\* Dispatchers run, requests and calls of the page time out.
FairSpec == Spec /\ WF_vars(OpStep) /\ WF_vars(\E r \in Reads : ReadStep(r))

-----------------------------------------------------------------------------
(* What a press of a button promises                                        *)

Landed(n) == \E i \in DOMAIN chain.landed : chain.landed[i].n = n

\* One press moves money at most once, however often its transaction is sent: an
\* answer lost after the RPC took it, a DUPLICATE, a landing between two tries.
PressLandsOnce ==
    \A i, j \in DOMAIN chain.landed : chain.landed[i].n = chain.landed[j].n => i = j

\* What is shown as done was applied on chain (or there was nothing to do): lost
\* answers, late landings and polls given up never make an Ok.
OkIsOnChain ==
    ui = "ok" => Landed(op.n) \/ (op.kind = "register" /\ chain.registered)

\* A press after one that was shown as failed moves money a second time only if
\* the first had landed before the second was built: what the network still holds
\* of the first cannot be applied beside the second.
SecondSawFirst ==
    \A i, j \in DOMAIN chain.landed : i < j => i <= chain.landed[j].seen

\* After an operation shown as done, a balance shown without a spinner or an error
\* is one read after it: no refresh that began earlier comes back over it.
FreshAfterOk ==
    ui = "ok" /\ Landed(op.n) /\ ~shown.loading /\ ~shown.error =>
        \E i \in 1..shown.asOf : chain.landed[i].n = op.n

\* Every operation ends: no lost call, dead page or silent network keeps the
\* buttons disabled.
OpEnds == ui = "running" ~> ui # "running"
=============================================================================
