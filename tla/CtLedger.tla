------------------------------ MODULE CtLedger ------------------------------
(***************************************************************************)
(* What the command-line scripts share (scripts/ct-flow/_shared.mjs and    *)
(* scripts/receipt/_vendor.mjs): the files they leave for each other, the  *)
(* testnet they submit to, and the retry around every network call.        *)
(*                                                                         *)
(* One script runs at a time, started by an operator, and may be killed    *)
(* between any two awaits or inside the writing of a file; what it         *)
(* submitted stays behind.  A sequence number lets at most one of the      *)
(* transactions in flight from a source land: the landing of one is the    *)
(* end of the others.  A start has a number; the keys it makes and the     *)
(* contracts it deploys are named by it.                                   *)
(***************************************************************************)
EXTENDS Integers, FiniteSets

CONSTANTS
    None,
    Tries,           \* tries of a network call of ct-flow (4)
    ReceiptTries,    \* tries of a network call of the receipt scripts (3)
    Vks,             \* verification keys a verifier needs (6)
    DepositAmount,   \* in units of one transfer (4 = 100 XLM / 25 XLM)
    TransferAmount,
    MaxStarts,       \* bound: scripts started
    MaxGifts         \* bound: contributions from the app

ASSUME ScriptsAssumption ==
    /\ Tries \in Nat \ {0} /\ ReceiptTries \in Nat \ {0}
    /\ DepositAmount \in Nat /\ TransferAmount \in Nat
    /\ 0 < TransferAmount /\ TransferAmount <= DepositAmount
    /\ Vks \in Nat \ {0}
    /\ MaxStarts \in Nat /\ MaxGifts \in Nat
    /\ None \notin {"deploy", "flow", "audit", "visibility", "make", "verify"}

VARIABLES
    env,        \* .env.deploy: the secret under each name, 0 when absent
    record,     \* deployment.json: [token, before]
    runLog,     \* run-log.json: [token, account, goal, steps]
    receipt,    \* receipt.json: [token, key, at]
    contracts,  \* deployed instances: tokens, registered vks, auditor keys,
                \* and the latest token with events that the RPC has forgotten
    acct,       \* confidential accounts of each token
    flight,     \* transactions submitted and neither landed nor expired
    proc,       \* the running script's local variables
    starts,     \* scripts started so far
    history     \* history: [outdated, torn, gifts]

files == <<env, record, runLog, receipt>>
network == <<contracts, acct, flight>>
vars == <<env, record, runLog, receipt, contracts, acct, flight, proc, starts,
          history>>

Secret == {"deployer", "marta", "goal", "auditor0", "goalView", "verifier"}
Person == {"marta", "goal"}
Start == 1..MaxStarts

\* What an operator may put under RECEIPT_VERIFIER_SECRET_HEX: a key of their own,
\* or the name with nothing after it.
OwnKey == MaxStarts + 1
Blank == MaxStarts + 2

\* spend, recv: what the two commitments of an account hold; rev: the number of its
\* spendable one; gift: of recv, what the app paid in; sent: transfers it made.
NoAccount == [key |-> 0, spend |-> 0, recv |-> 0, rev |-> 0, gift |-> 0, sent |-> 0]

\* outdated: a flow has started since the run log was written, or its secrets were
\* lost; torn: the start that lost the secrets last; gifts: the app's contributions.
NoHistory == [outdated |-> FALSE, torn |-> 0, gifts |-> 0]

\* Local variables of the scripts.  tries, sent: of the call it waits in; token,
\* before: of the deployment it makes or uses; vk: registered by a deploy;
\* steps, differs: the log of a flow, and whose account was not as synced; marta,
\* goal: the accounts as last synced; key: the verifier's, for a receipt.  paid:
\* history, the flow's transfers that took effect.
NoProc ==
    [script |-> None, pc |-> "", outcome |-> "", tries |-> 1, sent |-> "no",
     env |-> [s \in Secret |-> 0], token |-> 0, before |-> {}, vk |-> 0,
     steps |-> {}, marta |-> NoAccount, goal |-> NoAccount, differs |-> {},
     key |-> 0, paid |-> 0]

-----------------------------------------------------------------------------
(* The files                                                                *)

\* Mutant: the file is written from what the script had loaded.
SaveEnvStale(update) == update

\* saveEnvDeploy: what the file holds, then the update over it.
SaveEnv(update) == [s \in Secret |-> IF update[s] # 0 THEN update[s] ELSE env[s]]

\* ensureKeypair, ensureScalar: a name that has a secret keeps it.
Ensure(e, names) ==
    [s \in Secret |-> IF s \in names /\ e[s] = 0 THEN starts + 1 ELSE e[s]]

-----------------------------------------------------------------------------
(* The running script                                                       *)

Running(script, pc) == proc.script = script /\ proc.pc = pc

\* The RPC still has the events of the script's token.
Replayable == contracts.forgotten < proc.token

\* The process ends; nothing it has in flight is waited for any more.
Left == {[t EXCEPT !.by = "gone"] : t \in flight}

Ends(outcome) ==
    /\ proc' = [NoProc EXCEPT !.pc = proc.script, !.outcome = outcome]
    /\ flight' = Left

\* A call is answered: on to the next one.
Proceed(p, pc) == proc' = [p EXCEPT !.pc = pc, !.tries = 1, !.sent = "no"]

\* What the lost try submitted may still land, unseen.
Abandoned ==
    {[t EXCEPT !.by = IF t.by = "mine" THEN "lost" ELSE t.by] : t \in flight}

\* retry: a try that throws is followed by another, of the same function, until
\* there are none left and the script dies.
Again(limit) ==
    IF proc.tries < limit
    THEN /\ proc' = [proc EXCEPT !.tries = @ + 1, !.sent = "no"]
         /\ flight' = Abandoned
    ELSE Ends("failed")

-----------------------------------------------------------------------------
(* The testnet                                                              *)

Account(t) == acct[t.token][t.src]

\* What the wrapper accepts: at simulation, and again when it lands.
Valid(t) ==
    CASE t.kind = "register" -> Account(t).key = 0
      [] t.kind \in {"deposit", "merge"} -> Account(t).key # 0
      [] t.kind = "transfer" ->
            /\ Account(t).key # 0 /\ acct[t.token]["goal"].key # 0
            /\ Account(t).rev = t.arg /\ Account(t).spend >= TransferAmount

\* Accounts after it.  A new spendable commitment gets a new rev.
Merged(a) ==
    IF a.recv = 0 THEN a
    ELSE [a EXCEPT !.spend = @ + a.recv, !.recv = 0, !.rev = @ + 1, !.gift = 0]
Debited(a) ==
    [a EXCEPT !.spend = @ - TransferAmount, !.rev = @ + 1, !.sent = @ + 1]
Credited(a, amount) == [a EXCEPT !.recv = @ + amount]
Given(a, amount) == [a EXCEPT !.recv = @ + amount, !.gift = @ + amount]

After(t) ==
    CASE t.kind = "register" ->
            [acct EXCEPT ![t.token][t.src] = [@ EXCEPT !.key = t.arg]]
      [] t.kind = "deposit" ->
            [acct EXCEPT ![t.token][t.src] = Credited(@, DepositAmount)]
      [] t.kind = "merge" -> [acct EXCEPT ![t.token][t.src] = Merged(@)]
      [] t.kind = "transfer" ->
            [acct EXCEPT ![t.token][t.src] = Debited(@),
                         ![t.token]["goal"] = Credited(@, TransferAmount)]

\* A transaction in flight lands, as a success or as a failure; its source's
\* sequence number moves on.
Land(t) ==
    /\ t \in flight
    /\ flight' = {u \in flight : u.src # t.src}
    /\ acct' = IF Valid(t) THEN After(t) ELSE acct
    /\ proc' = IF t.by = "gone" THEN proc
               ELSE [proc EXCEPT
                       !.sent = IF t.by = "lost" THEN @
                                ELSE IF Valid(t) THEN "ok" ELSE "refused",
                       !.paid = IF Valid(t) /\ t.kind = "transfer" THEN @ + 1
                                ELSE @]
    /\ UNCHANGED <<env, record, runLog, receipt, contracts, starts, history>>

\* Its time bounds pass.
Expire(t) ==
    /\ t \in flight
    /\ flight' = flight \ {t}
    /\ UNCHANGED <<env, record, runLog, receipt, contracts, acct, proc, starts,
                   history>>

\* Somebody with the app contributes to the goal of the recorded deployment: its
\* TOKEN and GOAL_ACCOUNT are the scripts' own.
Contribute ==
    /\ record # None /\ acct[record.token]["goal"].key # 0
    /\ history.gifts < MaxGifts
    /\ acct' = [acct EXCEPT ![record.token]["goal"] = Given(@, TransferAmount)]
    /\ history' = [history EXCEPT !.gifts = @ + 1]
    /\ UNCHANGED <<files, contracts, flight, proc, starts>>

\* An RPC keeps the events of about 7 days.
Forget ==
    /\ record # None /\ contracts.forgotten < record.token
    /\ contracts' = [contracts EXCEPT !.forgotten = record.token]
    /\ UNCHANGED <<files, acct, flight, proc, starts, history>>
=============================================================================
