------------------------------ MODULE CtScripts ------------------------------
(***************************************************************************)
(* The scripts around one testnet and one set of files: an operator starts *)
(* them one at a time, in any order, kills them at will, and may put a     *)
(* verifier's key into .env.deploy beside them.  Meanwhile the app pays    *)
(* the same goal, and the RPC forgets old events.                          *)
(***************************************************************************)
EXTENDS CtDeploy, CtFlow, CtReaders

Init ==
    /\ env = [s \in Secret |-> 0]
    /\ record = None /\ runLog = None /\ receipt = None
    /\ contracts = [tokens |-> {}, vks |-> [n \in Start |-> {}],
                    keys |-> [n \in Start |-> [id \in {0, 1} |-> 0]],
                    forgotten |-> 0]
    /\ acct = [n \in Start |-> [who \in Person |-> NoAccount]]
    /\ flight = {}
    /\ proc = NoProc
    /\ starts = 0
    /\ history = NoHistory

\* The operator's own verifier key: the scripts read it and never set it.
VerifierKeyAdded ==
    /\ env["verifier"] = 0
    /\ \E key \in {OwnKey, Blank} : env' = [env EXCEPT !["verifier"] = key]
    /\ UNCHANGED <<record, runLog, receipt, network, proc, starts, history>>

\* The process is killed.
Crash ==
    /\ proc.script # None
    /\ Ends("crashed")
    /\ UNCHANGED <<files, contracts, acct, starts, history>>

\* writeFileSync empties a file before it writes it: a script killed in between
\* leaves it empty.  Of .env.deploy every secret is gone.  The next start makes new
\* ones, and with them new accounts: those of the lost addresses stay on chain, out
\* of everyone's reach, and are not followed any further.
SecretsTorn ==
    /\ \/ /\ proc.script = None /\ starts < MaxStarts
          /\ starts' = starts + 1
       \/ (AtDeploy("key0") \/ AtDeploy("key1")) /\ UNCHANGED starts
    /\ env' = [s \in Secret |-> 0]
    /\ acct' = [n \in Start |-> [who \in Person |-> NoAccount]]
    /\ flight' = {}
    /\ history' = [history EXCEPT !.outdated = TRUE, !.torn = starts']
    /\ proc' = [NoProc EXCEPT !.outcome = "crashed"]
    /\ UNCHANGED <<record, runLog, receipt, contracts>>

\* The other three are JSON, which an empty file is not: for the scripts that parse
\* it the file is no better than none.
RecordTorn ==
    /\ AtDeploy("record")
    /\ record' = None
    /\ Ends("crashed")
    /\ UNCHANGED <<env, runLog, receipt, contracts, acct, starts, history>>

LogTorn ==
    /\ AtFlow("log")
    /\ runLog' = None
    /\ Ends("crashed")
    /\ UNCHANGED <<env, record, receipt, contracts, acct, starts, history>>

ReceiptTorn ==
    /\ Running("make", "fetch") /\ Disclosable
    /\ receipt' = None
    /\ Ends("crashed")
    /\ UNCHANGED <<env, record, runLog, contracts, acct, starts, history>>

Torn == SecretsTorn \/ RecordTorn \/ LogTorn \/ ReceiptTorn

Step == DeployStep \/ FlowStep \/ ReaderStep
TryFails == DeployTryFails \/ FlowTryFails \/ ReaderTryFails
Chain == \E t \in flight : Land(t) \/ Expire(t)

Next ==
    \/ DeployStart \/ FlowStart \/ ReaderStarts
    \/ Step \/ TryFails \/ Crash \/ Torn \/ Chain \/ VerifierKeyAdded
    \/ Contribute \/ Forget

Spec == Init /\ [][Next]_vars

-----------------------------------------------------------------------------
(* What the files and the chain promise each other                         *)

AuditorOf == [id \in {0, 1} |-> AuditorSecret[id + 1]]

\* No secret, once in .env.deploy, is lost or replaced but by the one interrupted
\* write that empties the file: not by a script that holds an older reading of it
\* (ensureKeypair, saveEnvDeploy), not by a crash elsewhere, not by an edit beside a
\* running script.  The keys of an account and the view key of a goal live nowhere
\* else.
SecretsKept ==
    [][\A s \in Secret :
          env[s] # 0 => \/ env'[s] = env[s]
                        \/ env'[s] = 0 /\ history'.torn # history.torn]_vars

\* Made since the last interrupted write of .env.deploy, and on file in it.
OnFile(key, s) == key > history.torn => key = env[s]

\* Every key on chain that was made since the file of the secrets was last emptied
\* by an interrupted write has its secret on file: whatever is deployed, whoever is
\* registered, and wherever else a script died, no account and no auditor channel is
\* left that nobody can open.  ("persist before any network call so a crash loses
\* nothing", deploy.mjs, is true of every crash but the one in the persisting.)
KeysOnFile ==
    /\ \A n \in Start, who \in Person : OnFile(acct[n][who].key, who)
    /\ \A n \in Start, id \in {0, 1} : OnFile(contracts.keys[n][id], AuditorOf[id])

\* deployment.json names a finished instance: its token is deployed, every
\* verification key and both auditor keys are registered, and deployedAtLedger,
\* where every replay of events starts, is not later than the token.
RecordReady ==
    record # None =>
        /\ record.token \in contracts.tokens
        /\ record.token \notin record.before
        /\ contracts.vks[record.token] = 1..Vks
        /\ \A id \in {0, 1} : contracts.keys[record.token][id] # 0

\* However often its confirmation is lost and the submission retried, a run of the
\* flow pays the goal at most once: the proof is made before the retry, and is
\* spent by the first landing.
TransferOnce == proc.paid <= 1

\* verifyAgainstChain fails a run for one reason only: somebody with the app paid the
\* goal between the last sync and the comparison.  Marta's account, and the goal's but
\* for that, are what the engines synced last, though earlier tries and earlier runs
\* that died left transactions that may land at any time.
VerifiesAtRest ==
    Running("flow", "log") /\ Replayable =>
        /\ "marta" \notin proc.differs
        /\ "goal" \in proc.differs => acct[proc.token]["goal"].gift # proc.goal.gift

\* The readers disagree with the run log only for a reason: a later flow, a
\* deployment the log is not of, secrets lost since the deployment, events that the
\* RPC has forgotten, or a contribution of the app that the goal has not merged.
\* Otherwise audit.mjs adds up what the goal's own state held, with both auditor
\* channels open, and visibility.mjs finds its steps.
ReadersAgree ==
    /\ proc.pc \in {"audit", "visibility"}
    /\ proc.outcome \in {"mismatch", "no_transfer", "no_step"}
    => \/ record.token # runLog.token \/ history.outdated
       \/ record.token <= history.torn \/ record.token <= contracts.forgotten
       \/ acct[record.token]["goal"].gift # 0

\* verify-receipt.mjs rejects a receipt of the recorded token for three reasons only:
\* the RPC has forgotten its event, the verifier's key that it was sealed to was lost
\* since, or it was sealed to the demo key and there is something under the
\* verifier's name, be it a key or the bare name, and be it older than the receipt or
\* not.  New flows, new keys of others and lost calls never spoil it.
ReceiptOpens ==
    proc.pc = "verify" /\ proc.outcome = "rejected" =>
        \/ receipt.token <= contracts.forgotten
        \/ receipt.key # 0 /\ receipt.at < history.torn
        \/ receipt.key = 0 /\ env["verifier"] # 0

\* While no key of the verifier's own is configured, a receipt sealed to the demo
\* key opens for as long as the RPC has its event: verify-receipt.mjs and
\* make-receipt.mjs fall back to the same key ("otherwise the published demo key
\* keeps the committed receipt runnable").
DemoKeyOpens ==
    /\ proc.pc = "verify" /\ proc.outcome = "rejected" /\ receipt.key = 0
    /\ contracts.forgotten < receipt.token
    => env["verifier"] = OwnKey
=============================================================================
