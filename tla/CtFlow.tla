------------------------------- MODULE CtFlow -------------------------------
(***************************************************************************)
(* scripts/ct-flow/flow.mjs: one confidential cycle from the command line. *)
(* Marta and the goal register, Marta deposits, merges and transfers, the  *)
(* goal merges; the balances decrypted at the end are compared with the    *)
(* chain and written to the run log.  pc names the call the script awaits. *)
(***************************************************************************)
EXTENDS CtLedger

AtFlow(pc) == Running("flow", pc)

\* The submitting calls: who signs and what is invoked.  A transfer is bound to
\* the spendable commitment its proof was made over, once, before the retry.
Tx(src, kind, arg) ==
    [src |-> src, kind |-> kind, arg |-> arg, token |-> proc.token, by |-> "mine"]

Submitted ==
    [regMarta |-> Tx("marta", "register", proc.env["marta"]),
     regGoal |-> Tx("goal", "register", proc.env["goal"]),
     deposit |-> Tx("marta", "deposit", 0),
     mergeMarta |-> Tx("marta", "merge", 0),
     transfer |-> Tx("marta", "transfer", proc.marta.rev),
     mergeGoal |-> Tx("goal", "merge", 0)]

\* Mutant: the goal's state is synced before its merge.
Next1SyncFirst ==
    [fund |-> "keys", keys |-> "askMarta", regMarta |-> "askGoal",
     regGoal |-> "deposit", deposit |-> "mergeMarta", mergeMarta |-> "syncMarta",
     syncMarta |-> "transfer", transfer |-> "syncGoal", syncGoal |-> "lastMarta",
     lastMarta |-> "lastGoal", lastGoal |-> "mergeGoal",
     mergeGoal |-> "verifyMarta", verifyMarta |-> "verifyGoal",
     verifyGoal |-> "log"]

\* Mutant: the goal does not merge.
Next1NoHarvest ==
    [fund |-> "keys", keys |-> "askMarta", regMarta |-> "askGoal",
     regGoal |-> "deposit", deposit |-> "mergeMarta", mergeMarta |-> "syncMarta",
     syncMarta |-> "transfer", transfer |-> "syncGoal", syncGoal |-> "lastMarta",
     mergeGoal |-> "lastMarta", lastMarta |-> "lastGoal",
     lastGoal |-> "verifyMarta", verifyMarta |-> "verifyGoal",
     verifyGoal |-> "log"]

\* The order of the calls.
Next1 ==
    [fund |-> "keys", keys |-> "askMarta", regMarta |-> "askGoal",
     regGoal |-> "deposit", deposit |-> "mergeMarta", mergeMarta |-> "syncMarta",
     syncMarta |-> "transfer", transfer |-> "syncGoal", syncGoal |-> "mergeGoal",
     mergeGoal |-> "lastMarta", lastMarta |-> "lastGoal",
     lastGoal |-> "verifyMarta", verifyMarta |-> "verifyGoal",
     verifyGoal |-> "log"]

\* main, up to its first await: keys are kept or made, and saved before use.
\* Without a deployment record it throws at once.
FlowStart ==
    /\ proc.script = None /\ starts < MaxStarts
    /\ record # None
    /\ starts' = starts + 1
    /\ LET e == Ensure(env, Person) IN
          /\ env' = SaveEnv(e)
          /\ proc' = [NoProc EXCEPT !.script = "flow", !.pc = "fund", !.env = e,
                                    !.token = record.token]
    /\ history' = [history EXCEPT !.outdated = TRUE]
    /\ UNCHANGED <<record, runLog, receipt, network>>

\* friendbotFund, the auditor keys, and the sync that only prints.
FlowCall ==
    /\ \E pc \in {"fund", "keys", "syncGoal"} :
          AtFlow(pc) /\ Proceed(proc, Next1[pc])
    /\ UNCHANGED <<files, network, starts, history>>

\* isRegistered: the account is registered once, or skipped.
Asked(who) ==
    /\ AtFlow(IF who = "marta" THEN "askMarta" ELSE "askGoal")
    /\ Proceed(proc, CASE acct[proc.token][who].key = 0 /\ who = "marta" -> "regMarta"
                       [] acct[proc.token][who].key = 0 /\ who = "goal" -> "regGoal"
                       [] acct[proc.token][who].key # 0 /\ who = "marta" -> "askGoal"
                       [] OTHER -> "deposit")
    /\ UNCHANGED <<files, network, starts, history>>

\* Mutant: the witness is built again for every try.
SubmittedFresh(pc) ==
    IF pc = "transfer" THEN Tx("marta", "transfer", acct[proc.token]["marta"].rev)
    ELSE Submitted[pc]

SubmittedAt(pc) == Submitted[pc]

\* A try of a submission: build, simulate, assemble, sign, send.
Submit(pc) ==
    /\ AtFlow(pc) /\ proc.sent = "no"
    /\ Valid(SubmittedAt(pc))
    /\ flight' = flight \union {SubmittedAt(pc)}
    /\ proc' = [proc EXCEPT !.sent = "waiting"]
    /\ UNCHANGED <<files, contracts, acct, starts, history>>

\* The poll sees it succeed, and step() logs its hash.
Confirm(pc) ==
    /\ AtFlow(pc) /\ proc.sent = "ok"
    /\ Proceed([proc EXCEPT !.steps = @ \union {pc}], Next1[pc])
    /\ UNCHANGED <<files, network, starts, history>>

\* What StateEngine.sync makes of the events: the account as they leave it, or
\* nothing of it when the RPC has forgotten the first of them.
Replayed(who) ==
    {acct[proc.token][who]} \union (IF Replayable THEN {} ELSE {NoAccount})

Synced(who) ==
    /\ \E pc \in {"syncMarta", "lastMarta", "lastGoal"} :
          /\ AtFlow(pc)
          /\ who = IF pc = "lastGoal" THEN "goal" ELSE "marta"
          /\ \E a \in Replayed(who) : Proceed([proc EXCEPT ![who] = a], Next1[pc])
    /\ UNCHANGED <<files, network, starts, history>>

\* Both commitments of an account.
Commitments(a) == <<a.spend, a.rev, a.recv>>

\* verifyAgainstChain: the synced state, committed again, against the chain.
Differing(who) ==
    IF Commitments(proc[who]) = Commitments(acct[proc.token][who])
    THEN proc.differs ELSE proc.differs \union {who}

Verified(who) ==
    /\ \E pc \in {"verifyMarta", "verifyGoal"} :
          /\ AtFlow(pc)
          /\ who = IF pc = "verifyGoal" THEN "goal" ELSE "marta"
          /\ Proceed([proc EXCEPT !.differs = Differing(who)], Next1[pc])
    /\ UNCHANGED <<files, network, starts, history>>

\* The run log is written, and only then a mismatch throws.
LogWritten ==
    /\ AtFlow("log")
    /\ runLog' = [token |-> proc.token, account |-> proc.env["goal"],
                  goal |-> proc.goal.spend, steps |-> proc.steps]
    /\ history' = [history EXCEPT !.outdated = FALSE]
    /\ Ends(IF proc.differs = {} THEN "done" ELSE "mismatch")
    /\ UNCHANGED <<env, record, receipt, contracts, acct, starts>>

\* A try throws: refused at simulation or on chain, lost on the way there or
\* back, or not confirmed in time.
FlowTryFails ==
    /\ proc.script = "flow" /\ proc.pc \in DOMAIN Next1 \union {"askMarta", "askGoal"}
    /\ Again(Tries)
    /\ UNCHANGED <<files, contracts, acct, starts, history>>

FlowStep ==
    \/ FlowCall
    \/ \E who \in Person : Asked(who) \/ Synced(who) \/ Verified(who)
    \/ \E pc \in DOMAIN Submitted : Submit(pc) \/ Confirm(pc)
    \/ LogWritten
=============================================================================
