------------------------------ MODULE CtReaders ------------------------------
(***************************************************************************)
(* The scripts that read what deploy.mjs and flow.mjs left: audit.mjs and  *)
(* visibility.mjs (scripts/ct-flow), make-receipt.mjs and                  *)
(* verify-receipt.mjs (scripts/receipt).  Nothing they do reaches the      *)
(* chain.                                                                  *)
(***************************************************************************)
EXTENDS CtLedger

\* A reader loads its files, up to its first await.
ReaderStart(script, p) ==
    /\ proc.script = None /\ starts < MaxStarts
    /\ starts' = starts + 1
    /\ proc' = [p EXCEPT !.script = script, !.pc = "fetch"]
    /\ UNCHANGED <<files, network, history>>

\* The script ends, of itself.
ReaderEnds(outcome) ==
    /\ Ends(outcome)
    /\ UNCHANGED <<files, contracts, acct, starts, history>>

\* What was paid to the goal, by whomever.
Received(token) == acct[token]["goal"].spend + acct[token]["goal"].recv

-----------------------------------------------------------------------------
(* audit.mjs: the goal's total from the events and the view key             *)

\* The events are those of the recorded token, the goal is the run log's.
AuditStart ==
    /\ record # None /\ runLog # None
    /\ env["goalView"] # 0 /\ env["auditor0"] # 0
    /\ ReaderStart("audit", [NoProc EXCEPT !.token = record.token, !.env = env])

\* The recipient channel opens with the key the token's auditor has under id 1,
\* the sender channel with the one under id 0.
Opens(secret, id) == contracts.keys[proc.token][id] = proc.env[secret]

\* "MATCH": what the view key adds up is what the owner's own state held.
AuditMatches == Opens("goalView", 1) /\ Received(proc.token) = runLog.goal

Audited ==
    IF Received(proc.token) = 0 THEN "no_transfer"
    ELSE IF AuditMatches /\ Opens("auditor0", 0) THEN "match" ELSE "mismatch"

\* Of events that are gone, or of a goal whose address is not the one on file any
\* more, it may conclude anything.
AuditConcludes ==
    /\ Running("audit", "fetch")
    /\ \/ ReaderEnds(Audited)
       \/ /\ ~Replayable \/ proc.env["goal"] # runLog.account
          /\ \E o \in {"no_transfer", "match", "mismatch"} : ReaderEnds(o)

-----------------------------------------------------------------------------
(* visibility.mjs: the two transactions of the run log, as an explorer sees *)

VisibilityStart ==
    /\ record # None /\ runLog # None
    /\ ReaderStart("visibility", NoProc)

Logged == {"deposit", "transfer"} \subseteq runLog.steps

VisibilityConcludes ==
    /\ Running("visibility", "fetch")
    /\ ReaderEnds(IF Logged THEN "match" ELSE "no_step")

-----------------------------------------------------------------------------
(* The receipts                                                             *)

\* RECEIPT_VERIFIER_SECRET_HEX when it is set and not empty, or else the
\* published demo key, 0.
SealingKey == IF env["verifier"] = Blank THEN 0 ELSE env["verifier"]

\* Mutant: the published demo key wins over the verifier's own.
OpeningKeyDemo == 0

\* verify-receipt.mjs falls back with ??, which lets an empty value through.
OpeningKey == env["verifier"]

MakeStart ==
    /\ record # None /\ env["marta"] # 0
    /\ ReaderStart("make", [NoProc EXCEPT !.token = record.token, !.env = env,
                                          !.key = SealingKey])

\* A transfer of Marta's is among the recorded token's events, and her ephemeral
\* key fits it.
Disclosable ==
    /\ acct[proc.token]["marta"].sent > 0
    /\ proc.env["marta"] = acct[proc.token]["marta"].key

\* The disclosure is proved and sealed to the verifier's key.
ReceiptMade ==
    /\ Running("make", "fetch")
    /\ Disclosable
    /\ receipt' = [token |-> proc.token, key |-> proc.key, at |-> starts]
    /\ Ends("done")
    /\ UNCHANGED <<env, record, runLog, contracts, acct, starts, history>>

\* The transaction named is not found, is another's or is no transfer.
NoReceipt == Running("make", "fetch") /\ ReaderEnds("refused")

\* A receipt of another token is refused before anything is asked.
VerifyStart ==
    /\ receipt # None /\ record # None
    /\ receipt.token = record.token
    /\ ReaderStart("verify", [NoProc EXCEPT !.token = record.token,
                                            !.key = OpeningKey])

\* verifyDisclosure: the seal opens.  The event that the receipt is of stays on
\* chain, but the RPC asked for it may have forgotten it.
Discloses == proc.key = receipt.key

Verdict ==
    /\ Running("verify", "fetch")
    /\ \/ Discloses /\ ReaderEnds("verified")
       \/ (~Discloses \/ ~Replayable) /\ ReaderEnds("rejected")

-----------------------------------------------------------------------------

\* A try of a network call throws: ct-flow and the receipts differ in the
\* number of tries.  A rejection of the protocol is not such a failure: fatalIf.
ReaderTryFails ==
    /\ \/ \E s \in {"audit", "visibility"} : Running(s, "fetch") /\ Again(Tries)
       \/ \E s \in {"make", "verify"} : Running(s, "fetch") /\ Again(ReceiptTries)
    /\ UNCHANGED <<files, contracts, acct, starts, history>>

ReaderStep ==
    \/ AuditConcludes \/ VisibilityConcludes \/ ReceiptMade \/ NoReceipt \/ Verdict

ReaderStarts ==
    \/ AuditStart \/ VisibilityStart \/ MakeStart \/ VerifyStart
=============================================================================
