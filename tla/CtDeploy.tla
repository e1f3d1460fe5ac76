------------------------------ MODULE CtDeploy ------------------------------
(***************************************************************************)
(* scripts/ct-flow/deploy.mjs: a fresh instance of the confidential token  *)
(* stack, and the record of it that every other script starts from.        *)
(*                                                                         *)
(* The record's deployedAtLedger is a point of the chain's history: the    *)
(* tokens that existed at that ledger.                                     *)
(***************************************************************************)
EXTENDS CtLedger

\* The auditor ids, with the name of the secret of each.
AuditorSecret == <<"auditor0", "goalView">>

AtDeploy(pc) == Running("deploy", pc)

\* main, up to its first await: the deployer's key is saved before any use.
DeployStart ==
    /\ proc.script = None /\ starts < MaxStarts
    /\ starts' = starts + 1
    /\ LET e == Ensure(env, {"deployer"}) IN
          /\ env' = SaveEnv(e)
          /\ proc' = [NoProc EXCEPT !.script = "deploy", !.pc = "fund", !.env = e]
    /\ UNCHANGED <<record, runLog, receipt, contracts, acct, flight, history>>

Funded ==
    /\ AtDeploy("fund")
    /\ Proceed(proc, "verifier")
    /\ UNCHANGED <<files, network, starts, history>>

\* The stellar CLI deploys, waits, and prints the id of the instance; when its
\* answer is lost the instance stays behind and nothing ever names it.
VerifierDeployed ==
    /\ AtDeploy("verifier")
    /\ Proceed(proc, "auditor")
    /\ UNCHANGED <<files, network, starts, history>>

AuditorDeployed ==
    /\ AtDeploy("auditor")
    /\ Proceed(proc, "ledger")
    /\ UNCHANGED <<files, network, starts, history>>

LedgerRead ==
    /\ AtDeploy("ledger")
    /\ Proceed([proc EXCEPT !.before = contracts.tokens], "token")
    /\ UNCHANGED <<files, network, starts, history>>

TokenDeployed ==
    /\ AtDeploy("token")
    /\ contracts' = [contracts EXCEPT !.tokens = @ \union {starts}]
    /\ Proceed([proc EXCEPT !.token = starts], "vk")
    /\ UNCHANGED <<files, acct, flight, starts, history>>

\* client.invoke: the registration takes effect whether or not its answer
\* arrives.  Registering the same again may be refused.
VkRegistered(answered) ==
    /\ AtDeploy("vk")
    /\ contracts' = [contracts EXCEPT !.vks[starts] = @ \union {proc.vk + 1}]
    /\ IF answered
       THEN /\ Proceed([proc EXCEPT !.vk = @ + 1],
                       IF proc.vk + 1 = Vks THEN "key0" ELSE "vk")
            /\ UNCHANGED flight
       ELSE Again(Tries)
    /\ UNCHANGED <<files, acct, starts, history>>

\* Mutant: every deployment draws its auditor keys afresh.
AuditorKeyNew(e, s) == [e EXCEPT ![s] = starts]

\* env[envKey] ? ... : randomScalar().
AuditorKey(e, s) == [e EXCEPT ![s] = IF @ # 0 THEN @ ELSE starts]

\* The head of the loop over the two auditor ids: the secret is kept or made,
\* and saved before its point is registered.
AuditorKeyChosen(id) ==
    /\ AtDeploy(IF id = 0 THEN "key0" ELSE "key1")
    /\ LET e == AuditorKey(proc.env, AuditorSecret[id + 1]) IN
          /\ env' = SaveEnv(e)
          /\ Proceed([proc EXCEPT !.env = e], IF id = 0 THEN "reg0" ELSE "reg1")
    /\ UNCHANGED <<record, runLog, receipt, network, starts, history>>

AuditorKeyRegistered(id, answered) ==
    /\ AtDeploy(IF id = 0 THEN "reg0" ELSE "reg1")
    /\ contracts' = [contracts EXCEPT
                       !.keys[starts][id] = proc.env[AuditorSecret[id + 1]]]
    /\ IF answered
       THEN Proceed(proc, IF id = 0 THEN "key1" ELSE "record") /\ UNCHANGED flight
       ELSE Again(Tries)
    /\ UNCHANGED <<files, acct, starts, history>>

\* Mutant: the ledger is read when the record is written.
RecordedLate == [token |-> proc.token, before |-> contracts.tokens]

Recorded == [token |-> proc.token, before |-> proc.before]

\* saveDeploymentJson, last.
RecordSaved ==
    /\ AtDeploy("record")
    /\ record' = Recorded
    /\ Ends("done")
    /\ UNCHANGED <<env, runLog, receipt, contracts, acct, starts, history>>

\* A call fails before it has any effect.
DeployTryFails ==
    /\ \E pc \in {"fund", "verifier", "auditor", "ledger", "token", "vk", "reg0",
                  "reg1"} : AtDeploy(pc)
    /\ Again(Tries)
    /\ UNCHANGED <<files, contracts, acct, starts, history>>

DeployStep ==
    \/ Funded \/ VerifierDeployed \/ AuditorDeployed \/ LedgerRead
    \/ TokenDeployed
    \/ \E answered \in BOOLEAN : VkRegistered(answered)
    \/ \E id \in {0, 1} : AuditorKeyChosen(id)
    \/ \E id \in {0, 1}, answered \in BOOLEAN : AuditorKeyRegistered(id, answered)
    \/ RecordSaved
=============================================================================
