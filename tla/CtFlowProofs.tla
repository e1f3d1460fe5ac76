---------------------------- MODULE CtFlowProofs ----------------------------
(***************************************************************************)
(* Submitting: one run of the flow pays the goal at most once, and finds   *)
(* the chain as it synced it, though every confirmation may be lost and    *)
(* every lost submission may land later.                                   *)
(* Sealed, Reported, Reading: what the readers conclude of it.  A receipt  *)
(* opens, the audit matches the run log, and visibility.mjs finds its      *)
(* steps, unless the files say why not.                                    *)
(***************************************************************************)
EXTENDS CtFilesProofs

\* An account is what was synced, but for what the app has given it since.
Since(synced, a) ==
    /\ synced.spend = a.spend /\ synced.rev = a.rev /\ synced.gift <= a.gift
    /\ synced.gift = a.gift => synced.recv = a.recv

\* What the comparisons of a flow that has come to pc find, and have found.
Compared(p, pc) ==
    contracts.forgotten < p.token =>
        /\ pc \in LastPc \ {"lastMarta"} => p.marta = acct[p.token]["marta"]
        /\ pc \in LastPc \ {"lastMarta", "lastGoal"} =>
              Since(p.goal, acct[p.token]["goal"])
        /\ "marta" \notin p.differs
        /\ "goal" \in p.differs =>
              pc = "log" /\ p.goal.gift < acct[p.token]["goal"].gift

\* The transactions of a running flow.  A source's sequence number leaves nothing
\* of it in flight once a submission of its own has landed; so nothing is left at
\* the end, and a transfer's proof is spent by the first landing.
Flowing ==
    /\ \A t \in flight : t.by # "gone" => t.token = proc.token
    /\ \A t \in flight : t.by = "mine" =>
          /\ proc.pc \in SubmitPc /\ proc.sent = "waiting" /\ t.src = Source(proc.pc)
          /\ proc.pc = "transfer" => t.kind = "transfer"
          /\ proc.pc = "mergeGoal" => t.kind = "merge"
    /\ proc.sent # "no" => proc.pc \in SubmitPc
    /\ proc.sent = "ok" => \A t \in flight : t.src # Source(proc.pc)
    /\ \A t \in flight : t.by # "gone" /\ t.kind = "transfer" =>
          proc.pc = "transfer" /\ t.arg = proc.marta.rev
    /\ proc.pc \in EarlyPc => proc.paid = 0
    /\ proc.paid <= 1
    /\ proc.pc = "transfer" /\ proc.paid = 1 =>
          proc.marta.rev < acct[proc.token]["marta"].rev
    /\ proc.pc \in {"syncGoal", "mergeGoal"} => \A t \in flight : t.src # "marta"
    /\ proc.pc \in LastPc => flight = {}
    /\ Compared(proc, proc.pc)

Submitting ==
    /\ proc.script # "flow" => proc.paid = 0 /\ \A t \in flight : t.by = "gone"
    /\ proc.script = "flow" => Flowing

-----------------------------------------------------------------------------
(* The fields of proc after each kind of step                               *)

\* Proceed changes the place, the try and the confirmation only.
LEMMA ProceedFields ==
    ASSUME NEW p \in ProcType, NEW pc \in Pc, Proceed(p, pc)
    PROVE  /\ proc'.script = p.script /\ proc'.pc = pc /\ proc'.sent = "no"
           /\ proc'.token = p.token /\ proc'.paid = p.paid
           /\ proc'.marta = p.marta /\ proc'.goal = p.goal
           /\ proc'.differs = p.differs /\ proc'.steps = p.steps
           /\ proc'.env = p.env /\ proc'.key = p.key
  BY DEF Proceed, ProcType

\* Ends leaves no script running.
LEMMA EndsFields ==
    ASSUME Typed, NEW o \in Outcome, proc.script # None, Ends(o)
    PROVE  /\ proc'.script = None /\ proc'.pc = proc.script /\ proc'.outcome = o
           /\ proc'.paid = 0
           /\ \A t \in flight' : t.by = "gone"
<1>1. proc' = [NoProc EXCEPT !.pc = proc.script, !.outcome = o]
  BY DEF Ends
<1>2. \A u \in flight : [u EXCEPT !.by = "gone"].by = "gone"
  BY DEF Typed, TxType
<1>3. \A t \in flight' : t.by = "gone"
  BY <1>2 DEF Ends, Left
<1>4. NoProc.script = None /\ NoProc.paid = 0
  BY DEF NoProc
<1>5. /\ proc'.script = NoProc.script /\ proc'.pc = proc.script
      /\ proc'.outcome = o /\ proc'.paid = NoProc.paid
  BY <1>1, NoProcTyped DEF ProcType
<1> QED
  BY <1>3, <1>4, <1>5

\* Again stays at the place, or ends the script.
LEMMA AgainFields ==
    ASSUME Typed, NEW limit \in Nat, proc.script # None, Again(limit)
    PROVE  \/ Ends("failed")
           \/ /\ proc'.script = proc.script /\ proc'.pc = proc.pc /\ proc'.sent = "no"
              /\ proc'.token = proc.token /\ proc'.paid = proc.paid
              /\ proc'.marta = proc.marta /\ proc'.goal = proc.goal
              /\ proc'.differs = proc.differs /\ proc'.steps = proc.steps
              /\ proc'.env = proc.env /\ proc'.key = proc.key
              /\ \A t \in flight' : \E u \in flight :
                    /\ t.src = u.src /\ t.kind = u.kind /\ t.arg = u.arg
                    /\ t.token = u.token /\ t.by # "mine"
                    /\ (t.by = "gone") <=> (u.by = "gone")
<1>1. CASE proc.tries < limit
  <2>1. proc' = [proc EXCEPT !.tries = @ + 1, !.sent = "no"] /\ flight' = Abandoned
    BY <1>1 DEF Again
  <2>2. \A u \in flight :
           LET t == [u EXCEPT !.by = IF u.by = "mine" THEN "lost" ELSE u.by] IN
              /\ t.src = u.src /\ t.kind = u.kind /\ t.arg = u.arg
              /\ t.token = u.token /\ t.by # "mine"
              /\ (t.by = "gone") <=> (u.by = "gone")
    BY DEF Typed, TxType
  <2>3. ASSUME NEW t \in flight'
        PROVE  \E u \in flight :
                    /\ t.src = u.src /\ t.kind = u.kind /\ t.arg = u.arg
                    /\ t.token = u.token /\ t.by # "mine"
                    /\ (t.by = "gone") <=> (u.by = "gone")
    <3>1. PICK u \in flight :
             t = [u EXCEPT !.by = IF u.by = "mine" THEN "lost" ELSE u.by]
      BY <2>1, <2>3 DEF Abandoned
    <3> QED
      BY <2>2, <3>1
  <2>4. proc \in ProcType
    BY DEF Typed
  <2>5. /\ proc'.script = proc.script /\ proc'.pc = proc.pc /\ proc'.sent = "no"
        /\ proc'.token = proc.token /\ proc'.paid = proc.paid
        /\ proc'.marta = proc.marta /\ proc'.goal = proc.goal
        /\ proc'.differs = proc.differs /\ proc'.steps = proc.steps
        /\ proc'.env = proc.env /\ proc'.key = proc.key
    BY <2>1, <2>4 DEF ProcType
  <2> QED
    BY <2>3, <2>5
<1>2. CASE ~(proc.tries < limit)
  BY <1>2 DEF Again
<1> QED
  BY <1>1, <1>2

-----------------------------------------------------------------------------
(* Submitting                                                               *)

\* Nothing is in flight at the start.
LEMMA InitSubmitting == Init => Submitting
<1> SUFFICES ASSUME Init PROVE Submitting
  OBVIOUS
<1>1. proc.script = None /\ proc.pc = "" /\ proc.paid = 0 /\ flight = {}
  BY DEF Init, NoProc
<1> QED
  BY <1>1, ScriptsAssumption DEF Submitting

\* When a script ends, what it submitted is nobody's.
LEMMA EndsSubmitting ==
    ASSUME Typed, NEW o \in Outcome, proc.script # None, Ends(o)
    PROVE  Submitting'
  BY EndsFields, ScriptsAssumption DEF Submitting

\* A step of another script, whose submissions, if any, are another run's.
LEMMA OtherSubmitting ==
    ASSUME Typed, Submitting, proc.script # "flow",
           proc'.script \notin {"flow", None} \/ proc' = proc,
           proc'.paid = 0, \A t \in flight' : t.by = "gone"
    PROVE  Submitting'
  BY DEF Submitting

\* A try given up leaves its transaction in flight.
LEMMA AgainSubmitting ==
    ASSUME Typed, Submitting, NEW limit \in Nat, proc.script # None, Again(limit),
           acct' = acct, proc.script = "flow" => contracts' = contracts
    PROVE  Submitting'
<1>1. CASE Ends("failed")
  BY <1>1, EndsSubmitting DEF Outcome
<1>2. CASE ~Ends("failed")
  <2>1. /\ proc'.script = proc.script /\ proc'.pc = proc.pc /\ proc'.sent = "no"
        /\ proc'.token = proc.token /\ proc'.paid = proc.paid
        /\ proc'.marta = proc.marta /\ proc'.goal = proc.goal
        /\ proc'.differs = proc.differs
    BY <1>2, AgainFields
  <2>2. \A t \in flight' : \E u \in flight :
           /\ t.src = u.src /\ t.kind = u.kind /\ t.arg = u.arg
           /\ t.token = u.token /\ t.by # "mine"
           /\ (t.by = "gone") <=> (u.by = "gone")
    BY <1>2, AgainFields
  <2>3. flight = {} => flight' = {}
    BY <2>2
  <2>4. CASE proc.script = "flow"
    <3>1. Flowing
      BY <2>4 DEF Submitting
    <3>a. Compared(proc, proc.pc)'
      BY <2>1, <2>4, <3>1 DEF Flowing, Compared, Since
    <3>2. Flowing'
      BY <2>1, <2>2, <2>3, <3>1, <3>a DEF Flowing
    <3> QED
      BY <2>1, <2>4, <3>2, ScriptsAssumption DEF Submitting
  <2>5. CASE proc.script # "flow"
    BY <2>1, <2>2, <2>5 DEF Submitting
  <2> QED
    BY <2>4, <2>5
<1> QED
  BY <1>1, <1>2

\* A deployment and the readers submit nothing that counts as a flow's.
LEMMA ElseSubmitting ==
    ASSUME Typed, Submitting,
           \/ DeployStart \/ DeployStep \/ DeployTryFails
           \/ ReaderStarts \/ ReaderStep \/ ReaderTryFails
    PROVE  Submitting'
<1> USE DEF Running, AtDeploy
<1>0. /\ Typed' /\ proc' \in ProcType /\ proc \in ProcType
      /\ NoProc \in ProcType /\ NoProc.paid = 0
  BY DeployTyped, ReaderTyped, NoProcTyped DEF Typed, NoProc
<1>1. ASSUME DeployStart PROVE Submitting'
  <2>1. proc'.script = "deploy" /\ proc'.paid = 0
    BY <1>0, <1>1 DEF DeployStart, ProcType
  <2>2. proc.script # "flow" /\ flight' = flight
    BY <1>1, ScriptsAssumption DEF DeployStart
  <2> QED
    BY <2>1, <2>2, OtherSubmitting, ScriptsAssumption DEF Submitting
<1>2. ASSUME NEW p \in ProcType, p.script = "deploy", p.paid = 0, NEW pc \in Pc,
             Proceed(p, pc), flight' = flight, proc.script = "deploy"
      PROVE  Submitting'
  <2>1. proc'.script = "deploy" /\ proc'.paid = 0
    BY <1>2, ProceedFields
  <2> QED
    BY <1>2, <2>1, OtherSubmitting, ScriptsAssumption DEF Submitting
<1>3. ASSUME Funded \/ VerifierDeployed \/ AuditorDeployed \/ LedgerRead
             \/ TokenDeployed
      PROVE  Submitting'
  <2>1. PICK p \in ProcType, pc \in Pc :
           Proceed(p, pc) /\ p.script = "deploy" /\ p.paid = proc.paid
    <3>1. [proc EXCEPT !.before = contracts.tokens] \in ProcType
      BY <1>0 DEF Typed, ContractsType, ProcType
    <3>2. TokenDeployed => [proc EXCEPT !.token = starts] \in ProcType
      BY <1>0, ScriptsAssumption DEF TokenDeployed, Typed, Placed, ProcType
    <3> QED
      BY <1>0, <1>3, <3>1, <3>2
      DEF Funded, VerifierDeployed, AuditorDeployed, LedgerRead, TokenDeployed,
          Pc, DeployPc, ProcType
  <2>2. proc.paid = 0 /\ flight' = flight /\ proc.script = "deploy"
    BY <1>3
    DEF Funded, VerifierDeployed, AuditorDeployed, LedgerRead, TokenDeployed,
        network, Submitting
  <2> QED
    BY <1>2, <2>1, <2>2
<1>4. ASSUME NEW limit \in Nat, Again(limit), proc.script \notin {None, "flow"}, acct' = acct
      PROVE  Submitting'
  BY <1>4, AgainSubmitting
<1>5. ASSUME NEW answered \in BOOLEAN, VkRegistered(answered) PROVE Submitting'
  <2>1. CASE answered
    <3> DEFINE v == proc.vk + 1
               p == [proc EXCEPT !.vk = v]
               pc == IF v = Vks THEN "key0" ELSE "vk"
    <3>1. Proceed(p, pc) /\ flight' = flight /\ pc \in Pc
      BY <1>5, <2>1 DEF VkRegistered, Pc, DeployPc
    <3>2. v \in Nat
      BY <1>0 DEF ProcType
    <3> HIDE DEF v, pc
    <3>3. p \in ProcType /\ p.script = "deploy" /\ p.paid = 0
      BY <1>0, <1>5, <3>2 DEF VkRegistered, ProcType, Submitting
    <3> HIDE DEF p
    <3> QED
      BY <1>2, <1>5, <3>1, <3>3 DEF VkRegistered
  <2>2. CASE ~answered
    BY <1>4, <1>5, <2>2, ScriptsAssumption DEF VkRegistered
  <2> QED
    BY <2>1, <2>2
<1>6. ASSUME NEW id \in {0, 1}, AuditorKeyChosen(id) PROVE Submitting'
  <2>1. proc'.script = "deploy" /\ proc'.paid = proc.paid
    BY <1>0, <1>6 DEF AuditorKeyChosen, Proceed, ProcType
  <2>2. proc.paid = 0 /\ proc.script = "deploy" /\ flight' = flight
    BY <1>6 DEF AuditorKeyChosen, network, Submitting
  <2> QED
    BY <2>1, <2>2, OtherSubmitting, ScriptsAssumption DEF Submitting
<1>7. ASSUME NEW id \in {0, 1}, NEW answered \in BOOLEAN,
             AuditorKeyRegistered(id, answered)
      PROVE  Submitting'
  <2>1. CASE answered
    <3>1. proc.paid = 0 /\ proc.script = "deploy" /\ flight' = flight
      BY <1>7, <2>1 DEF AuditorKeyRegistered, Submitting
    <3>2. Proceed(proc, IF id = 0 THEN "key1" ELSE "record")
      BY <1>7, <2>1 DEF AuditorKeyRegistered
    <3> QED
      BY <1>0, <1>2, <3>1, <3>2 DEF Pc, DeployPc
  <2>2. CASE ~answered
    BY <1>4, <1>7, <2>2, ScriptsAssumption DEF AuditorKeyRegistered
  <2> QED
    BY <2>1, <2>2
<1>8. ASSUME RecordSaved PROVE Submitting'
  BY <1>8, EndsSubmitting, ScriptsAssumption DEF RecordSaved, Outcome
<1>9. ASSUME DeployTryFails PROVE Submitting'
  BY <1>4, <1>9, ScriptsAssumption DEF DeployTryFails
<1>10. ASSUME ReaderStarts PROVE Submitting'
  <2>1. PICK script \in ScriptName \ {"deploy", "flow"}, p \in ProcType :
           ReaderStart(script, p) /\ p.paid = 0
    <3>1. [NoProc EXCEPT !.token = record.token, !.env = env].paid = 0
      BY <1>0 DEF ProcType
    <3>2. record # None => [NoProc EXCEPT !.token = record.token, !.env = env] \in ProcType
      BY <1>0 DEF Typed, ProcType
    <3>3. SealingKey \in Nat /\ OpeningKey \in Nat
      BY DEF SealingKey, OpeningKey, Typed, Secret
    <3>4. record # None =>
             LET p == [NoProc EXCEPT !.token = record.token, !.env = env,
                                     !.key = SealingKey]
             IN  p \in ProcType /\ p.paid = 0
      BY <1>0, <3>3 DEF Typed, ProcType
    <3>5. record # None =>
             LET p == [NoProc EXCEPT !.token = record.token, !.key = OpeningKey]
             IN  p \in ProcType /\ p.paid = 0
      BY <1>0, <3>3 DEF Typed, ProcType
    <3> QED
      BY <1>0, <1>10, <3>1, <3>2, <3>4, <3>5
      DEF ReaderStarts, AuditStart, VisibilityStart, MakeStart, VerifyStart, ScriptName
  <2>2. proc' = [p EXCEPT !.script = script, !.pc = "fetch"]
    BY <2>1 DEF ReaderStart
  <2>3. proc'.script = script /\ proc'.paid = 0
    BY <2>1, <2>2 DEF ProcType
  <2>4. flight' = flight /\ proc.script # "flow"
    BY <2>1, ScriptsAssumption DEF ReaderStart, network
  <2> QED
    BY <2>1, <2>3, <2>4, OtherSubmitting, ScriptsAssumption DEF Submitting, ScriptName
<1>11. ASSUME ReaderStep PROVE Submitting'
  <2>1. PICK o \in Outcome : Ends(o)
    BY <1>11
    DEF ReaderStep, AuditConcludes, Audited, VisibilityConcludes, ReceiptMade, NoReceipt,
        Verdict, ReaderEnds, Outcome
  <2>2. proc.script \notin {None, "flow"}
    BY <1>11, ScriptsAssumption
    DEF ReaderStep, AuditConcludes, VisibilityConcludes, ReceiptMade, NoReceipt, Verdict
  <2> QED
    BY <2>1, <2>2, EndsSubmitting
<1>12. ASSUME ReaderTryFails PROVE Submitting'
  <2>1. PICK limit \in Nat : Again(limit)
    BY <1>12, ScriptsAssumption DEF ReaderTryFails
  <2>2. proc.script \notin {None, "flow"} /\ acct' = acct
    BY <1>12, ScriptsAssumption DEF ReaderTryFails
  <2> QED
    BY <1>4, <2>1, <2>2
<1> QED
  BY <1>1, <1>3, <1>5, <1>6, <1>7, <1>8, <1>9, <1>10, <1>11, <1>12 DEF DeployStep

\* Where a flow goes on to, from each of its places.
LEMMA NextWhere ==
    /\ \A pc \in DOMAIN Next1 : Next1[pc] \in EarlyPc => pc \in EarlyPc
    /\ \A pc \in DOMAIN Next1 : Next1[pc] = "transfer" <=> pc = "syncMarta"
    /\ \A pc \in DOMAIN Next1 :
          Next1[pc] \in {"syncGoal", "mergeGoal"} => pc \in {"transfer", "syncGoal"}
    /\ \A pc \in DOMAIN Next1 :
          Next1[pc] \in LastPc => pc \in LastPc \union {"mergeGoal"}
    /\ \A pc \in DOMAIN Next1 :
          /\ Next1[pc] = "lastMarta" <=> pc = "mergeGoal"
          /\ Next1[pc] = "lastGoal" <=> pc = "lastMarta"
  BY DEF Next1, EarlyPc, LastPc

\* A flow goes on to its next place, with nothing of its own unanswered.
LEMMA MoveSubmitting ==
    ASSUME Typed, Flowing, NEW p \in ProcType, NEW pc \in FlowPc,
           p.script = "flow", p.token = proc.token, p.paid = proc.paid,
           Proceed(p, pc), acct' = acct, flight' = flight, contracts' = contracts,
           \A t \in flight : t.by # "mine",
           \A t \in flight : t.by # "gone" => t.kind # "transfer",
           pc \in EarlyPc => proc.pc \in EarlyPc,
           pc = "transfer" => proc.paid = 0,
           pc \in {"syncGoal", "mergeGoal"} => \A t \in flight : t.src # "marta",
           pc \in LastPc => flight = {}, Compared(p, pc)
    PROVE  Submitting'
<1>1. /\ proc'.script = "flow" /\ proc'.pc = pc /\ proc'.sent = "no"
      /\ proc'.token = proc.token /\ proc'.paid = proc.paid
      /\ proc'.marta = p.marta /\ proc'.goal = p.goal /\ proc'.differs = p.differs
  BY ProceedFields DEF Pc
<1>a. Compared(proc, proc.pc)'
  BY <1>1 DEF Compared, Since
<1>2. Flowing'
  BY <1>1, <1>a DEF Flowing
<1> QED
  BY <1>1, <1>2, ScriptsAssumption DEF Submitting

\* Each step of flow.
LEMMA FlowSubmitting ==
    ASSUME Typed, Submitting, FlowStart \/ FlowStep \/ FlowTryFails
    PROVE  Submitting'
<1> USE DEF Running, AtFlow
<1>0. /\ proc \in ProcType /\ proc' \in ProcType /\ flight \subseteq TxType
      /\ acct \in [Start -> [Person -> AccountType]] /\ Person = {"marta", "goal"}
      /\ \A t \in flight : t.kind = "transfer" => t.src = "marta"
      /\ proc.script = "flow" => proc.token \in Start
  BY FlowTyped DEF Typed, Person, Placed
<1>1. ASSUME FlowStart PROVE Submitting'
  <2>1. proc.script # "flow" /\ flight' = flight
    BY <1>1, ScriptsAssumption DEF FlowStart, network
  <2>2. /\ proc'.script = "flow" /\ proc'.pc = "fund" /\ proc'.sent = "no"
        /\ proc'.paid = 0 /\ proc'.differs = {}
    <3>1. NoProc.sent = "no" /\ NoProc.paid = 0 /\ NoProc.differs = {}
      BY DEF NoProc
    <3> QED
      BY <1>1, <3>1, NoProcTyped DEF FlowStart, ProcType
  <2>3. \A t \in flight' : t.by = "gone"
    BY <2>1 DEF Submitting
  <2>4. Flowing'
    BY <2>2, <2>3 DEF Flowing, Compared, EarlyPc, LastPc, SubmitPc
  <2> QED
    BY <2>2, <2>4, ScriptsAssumption DEF Submitting
<1>2. ASSUME proc.script = "flow", proc.pc \notin SubmitPc
      PROVE  /\ Flowing
             /\ \A t \in flight : t.by # "mine"
             /\ \A t \in flight : t.by # "gone" => t.kind # "transfer"
  BY <1>2 DEF Submitting, Flowing, SubmitPc
<1>3. ASSUME FlowCall PROVE Submitting'
  <2>1. PICK pc \in {"fund", "keys", "syncGoal"} : AtFlow(pc) /\ Proceed(proc, Next1[pc])
    BY <1>3 DEF FlowCall
  <2>2. pc \in DOMAIN Next1 /\ Next1[pc] \in FlowPc /\ pc \notin SubmitPc
    BY NextPlace DEF Next1, SubmitPc
  <2>3. Next1[pc] \in EarlyPc \union {"mergeGoal"}
        /\ (Next1[pc] = "mergeGoal" => pc = "syncGoal")
    BY DEF Next1, EarlyPc
  <2>4. Next1[pc] \in EarlyPc => pc \in EarlyPc
    BY <2>2, NextWhere
  <2>5. /\ Next1[pc] # "transfer" /\ Next1[pc] \notin LastPc
        /\ "mergeGoal" \notin EarlyPc /\ Next1[pc] # "syncGoal"
    BY <2>3 DEF EarlyPc, LastPc
  <2>6. Flowing /\ acct' = acct /\ flight' = flight /\ contracts' = contracts
    BY <1>2, <1>3, <2>1, <2>2 DEF FlowCall, network, Flowing
  <2>9. Compared(proc, Next1[pc])
    BY <2>1, <2>5, <2>6 DEF Flowing, Compared, LastPc
  <2>7. Next1[pc] = "mergeGoal" => \A t \in flight : t.src # "marta"
    BY <2>1, <2>3, <2>6 DEF Flowing
  <2>8. /\ \A t \in flight : t.by # "mine"
        /\ \A t \in flight : t.by # "gone" => t.kind # "transfer"
    BY <1>2, <2>1, <2>2
  <2> QED
    BY <1>0, <2>1, <2>2, <2>4, <2>5, <2>6, <2>7, <2>8, <2>9, MoveSubmitting
<1>4. ASSUME NEW who \in Person, Asked(who) PROVE Submitting'
  <2>1. PICK pc \in {"regMarta", "regGoal", "askGoal", "deposit"} : Proceed(proc, pc)
    BY <1>4 DEF Asked, Person
  <2>2. proc.script = "flow" /\ proc.pc \in {"askMarta", "askGoal"}
    BY <1>4 DEF Asked
  <2>3. proc.pc \notin SubmitPc /\ proc.pc \in EarlyPc /\ pc \in EarlyPc /\ pc \in FlowPc
        /\ pc # "transfer" /\ pc \notin {"syncGoal", "mergeGoal"} /\ pc \notin LastPc
    BY <2>2 DEF SubmitPc, EarlyPc, FlowPc, LastPc
  <2>4. Flowing /\ acct' = acct /\ flight' = flight /\ contracts' = contracts
    BY <1>2, <1>4, <2>2, <2>3 DEF Asked, network, Flowing
  <2>5. Compared(proc, pc)
    BY <2>2, <2>3, <2>4 DEF Flowing, Compared
  <2> QED
    BY <1>0, <1>2, <2>1, <2>2, <2>3, <2>4, <2>5, MoveSubmitting
<1>5. ASSUME NEW pc \in DOMAIN Submitted, Submit(pc) PROVE Submitting'
  <2> DEFINE u == SubmittedAt(pc)
  <2>1. /\ proc.script = "flow" /\ proc.pc = pc /\ proc.sent = "no" /\ pc \in SubmitPc
        /\ flight' = flight \union {u} /\ acct' = acct /\ contracts' = contracts
        /\ proc' = [proc EXCEPT !.sent = "waiting"]
    BY <1>5, NextPlace DEF Submit
  <2>2. /\ u.src = Source(pc) /\ u.by = "mine" /\ u.token = proc.token
        /\ u.kind = "transfer" => pc = "transfer" /\ u.arg = proc.marta.rev
        /\ pc = "transfer" => u.kind = "transfer"
        /\ pc = "mergeGoal" => u.kind = "merge"
    BY <2>1, TxTyped
  <2> HIDE DEF u
  <2>3. /\ proc'.script = "flow" /\ proc'.pc = pc /\ proc'.sent = "waiting"
        /\ proc'.token = proc.token /\ proc'.paid = proc.paid
        /\ proc'.marta = proc.marta /\ proc'.goal = proc.goal
        /\ proc'.differs = proc.differs
    BY <1>0, <2>1 DEF ProcType
  <2>4. pc \notin LastPc /\ pc # "syncGoal" /\ (pc = "mergeGoal" => Source(pc) # "marta")
    BY <2>1 DEF SubmitPc, LastPc, Source
  <2>5. Flowing
    BY <2>1 DEF Submitting
  <2>a. Compared(proc, proc.pc)'
    BY <2>1, <2>3, <2>5 DEF Flowing, Compared, Since
  <2>6. Flowing'
    BY <2>1, <2>2, <2>3, <2>4, <2>5, <2>a DEF Flowing
  <2> QED
    BY <2>3, <2>6, ScriptsAssumption DEF Submitting
<1>6. ASSUME NEW pc \in DOMAIN Submitted, Confirm(pc) PROVE Submitting'
  <2> DEFINE p == [proc EXCEPT !.steps = @ \union {pc}]
             nx == Next1[pc]
  <2>1. /\ proc.script = "flow" /\ proc.pc = pc /\ proc.sent = "ok" /\ pc \in SubmitPc
        /\ flight' = flight /\ acct' = acct /\ contracts' = contracts /\ Proceed(p, nx)
    BY <1>6, NextPlace DEF Confirm, network
  <2>2. /\ p \in ProcType /\ p.script = "flow" /\ p.token = proc.token
        /\ p.paid = proc.paid /\ p.marta = proc.marta /\ p.goal = proc.goal
        /\ p.differs = proc.differs
    BY <1>0, <2>1, NextPlace DEF ProcType
  <2> HIDE DEF p
  <2>3. Flowing
    BY <2>1 DEF Submitting, Flowing
  <2>4. nx \in FlowPc /\ pc \in DOMAIN Next1
    BY <2>1, NextPlace
  <2>5. \A t \in flight : t.src # Source(pc) /\ t.by # "mine"
    BY <2>1, <2>3 DEF Flowing
  <2>6. \A t \in flight : t.by # "gone" => t.kind # "transfer"
    <3>1. Source("transfer") = "marta"
      BY DEF Source
    <3> QED
      BY <1>0, <2>1, <2>3, <2>5, <3>1 DEF Flowing
  <2>7. /\ nx \in EarlyPc => pc \in EarlyPc
        /\ nx # "transfer"
        /\ nx \in {"syncGoal", "mergeGoal"} => pc = "transfer"
        /\ nx \in LastPc => pc = "mergeGoal" /\ nx = "lastMarta"
    BY <2>1 DEF Next1, SubmitPc, EarlyPc, LastPc
  <2>8. nx \in {"syncGoal", "mergeGoal"} => \A t \in flight : t.src # "marta"
    BY <2>5, <2>7 DEF Source
  <2>9. nx \in LastPc => flight = {}
    <3>1. pc = "mergeGoal" => \A t \in flight : t.src # "marta" /\ t.src # "goal"
      BY <2>1, <2>3, <2>5 DEF Flowing, Source
    <3>2. \A t \in flight : t.src \in {"marta", "goal"}
      BY <1>0 DEF TxType
    <3> QED
      BY <2>7, <3>1, <3>2
  <2>10. Compared(p, nx)
    BY <2>1, <2>2, <2>3, <2>7 DEF Flowing, Compared, SubmitPc
  <2> HIDE DEF nx
  <2> QED
    BY <1>0, <2>1, <2>2, <2>3, <2>4, <2>5, <2>6, <2>7, <2>8, <2>9, <2>10, MoveSubmitting
<1>7. ASSUME NEW who \in Person, Synced(who) PROVE Submitting'
  <2>1. PICK pc \in {"syncMarta", "lastMarta", "lastGoal"} :
          /\ AtFlow(pc)
          /\ who = IF pc = "lastGoal" THEN "goal" ELSE "marta"
          /\ \E a \in Replayed(who) : Proceed([proc EXCEPT ![who] = a], Next1[pc])
    BY <1>7 DEF Synced
  <2>a. PICK a \in Replayed(who) : Proceed([proc EXCEPT ![who] = a], Next1[pc])
    BY <2>1
  <2> DEFINE p == [proc EXCEPT ![who] = a]
             nx == Next1[pc]
  <2>2. a \in AccountType /\ (Replayable => a = acct[proc.token][who])
    BY <1>0, <2>1, NoProcTyped DEF Replayed
  <2>3. Proceed(p, nx) /\ acct' = acct /\ flight' = flight /\ contracts' = contracts
    BY <1>7, <2>a DEF Synced, network
  <2>4. nx = CASE pc = "syncMarta" -> "transfer" [] pc = "lastMarta" -> "lastGoal"
               [] OTHER -> "verifyMarta"
    BY DEF Next1
  <2>5. Flowing /\ proc.pc = pc
        /\ (\A t \in flight : t.by # "mine")
        /\ (\A t \in flight : t.by # "gone" => t.kind # "transfer")
    BY <1>2, <2>1 DEF SubmitPc, Flowing
  <2>6. who = "marta" => p.marta = a /\ p.goal = proc.goal
    BY <1>0 DEF ProcType
  <2>7. who = "goal" => p.goal = a /\ p.marta = proc.marta
    BY <1>0 DEF ProcType
  <2>8. /\ p \in ProcType /\ p.script = "flow" /\ p.token = proc.token
        /\ p.paid = proc.paid /\ p.differs = proc.differs
    BY <1>0, <2>1, <2>2, <2>5 DEF ProcType
  <2> HIDE DEF p, nx
  <2>9. nx \in FlowPc /\ nx \notin EarlyPc /\ nx \notin {"syncGoal", "mergeGoal"}
        /\ nx # "lastMarta" /\ (nx \in LastPc => pc \in {"lastMarta", "lastGoal"})
        /\ (nx = "transfer" => pc = "syncMarta") /\ "syncMarta" \in EarlyPc
        /\ (nx = "lastGoal" => who = "marta")
        /\ (nx \in LastPc \ {"lastGoal"} => who = "goal" /\ pc = "lastGoal")
        /\ nx # "log" /\ pc # "log" /\ {"lastMarta", "lastGoal"} \subseteq LastPc
    BY <2>1, <2>4 DEF FlowPc, EarlyPc, LastPc
  <2>10. /\ nx = "transfer" => proc.paid = 0
         /\ nx \in LastPc => flight = {}
    BY <2>5, <2>9 DEF Flowing
  <2>11. Compared(p, nx)
    <3>1. SUFFICES ASSUME Replayable PROVE Compared(p, nx)
      BY <2>8 DEF Compared, Replayable
    <3>2. a = acct[proc.token][who] /\ a.gift \in Nat
      BY <2>2, <3>1 DEF AccountType
    <3>3. /\ pc = "lastGoal" => proc.marta = acct[proc.token]["marta"]
          /\ proc.differs \intersect {"marta", "goal"} = {}
      BY <2>5, <2>9, <3>1 DEF Flowing, Compared, Replayable
    <3> QED
      BY <2>6, <2>7, <2>8, <2>9, <3>2, <3>3 DEF Compared, Since
  <2> QED
    BY <1>0, <2>3, <2>5, <2>8, <2>9, <2>10, <2>11, MoveSubmitting
<1>8. ASSUME NEW who \in Person, Verified(who) PROVE Submitting'
  <2>1. PICK pc \in {"verifyMarta", "verifyGoal"} :
          /\ AtFlow(pc)
          /\ who = IF pc = "verifyGoal" THEN "goal" ELSE "marta"
          /\ Proceed([proc EXCEPT !.differs = Differing(who)], Next1[pc])
    BY <1>8 DEF Verified
  <2> DEFINE b == Differing(who)
             p == [proc EXCEPT !.differs = b]
             nx == Next1[pc]
  <2>2. Proceed(p, nx) /\ acct' = acct /\ flight' = flight /\ contracts' = contracts
    BY <1>8, <2>1 DEF Verified, network
  <2>3. pc \notin SubmitPc /\ proc.script = "flow" /\ proc.pc = pc
        /\ pc \in LastPc \ {"lastMarta", "lastGoal"}
    BY <2>1 DEF SubmitPc, LastPc
  <2>4. /\ Flowing /\ flight = {}
        /\ Replayable => /\ proc.marta = acct[proc.token]["marta"]
                         /\ Since(proc.goal, acct[proc.token]["goal"])
                         /\ proc.differs \intersect {"marta", "goal"} = {}
    BY <1>2, <2>1, <2>3 DEF Flowing, Compared, Replayable
  <2>5. /\ b \in SUBSET Person
        /\ Replayable =>
              /\ "marta" \notin b
              /\ "goal" \in b =>
                    who = "goal" /\ proc.goal.gift < acct[proc.token]["goal"].gift
    <3>1. b \in SUBSET Person
      BY <1>0 DEF Differing, ProcType
    <3>2. /\ proc.goal.gift \in Nat
          /\ acct[proc.token]["goal"].gift \in Nat
      BY <1>0, <2>3 DEF ProcType, AccountType
    <3> QED
      BY <1>0, <2>4, <3>1, <3>2 DEF Differing, Commitments, Since
  <2> HIDE DEF b
  <2>6. /\ p \in ProcType /\ p.script = "flow" /\ p.token = proc.token
        /\ p.paid = proc.paid /\ p.differs = b /\ p.marta = proc.marta
        /\ p.goal = proc.goal
    BY <1>0, <2>3, <2>5 DEF ProcType
  <2>7. nx \in {"verifyGoal", "log"} /\ (who = "goal" => nx = "log")
    BY <2>1 DEF Next1
  <2> HIDE DEF p, nx
  <2>9. Compared(p, nx)
    BY <2>4, <2>5, <2>6, <2>7 DEF Compared, Replayable
  <2>8. nx \in FlowPc /\ nx \notin EarlyPc /\ nx # "transfer"
    BY <2>7 DEF FlowPc, EarlyPc, LastPc
  <2> QED
    BY <2>2, <2>4, <2>6, <2>7, <2>8, <2>9, MoveSubmitting
<1>9. ASSUME LogWritten PROVE Submitting'
  <2>1. PICK o \in Outcome : Ends(o)
    BY <1>9 DEF LogWritten, Outcome
  <2> QED
    BY <1>9, <2>1, EndsSubmitting, ScriptsAssumption DEF LogWritten
<1>10. ASSUME FlowTryFails PROVE Submitting'
  BY <1>10, AgainSubmitting, ScriptsAssumption DEF FlowTryFails, files
<1> QED
  BY <1>1, <1>3, <1>4, <1>5, <1>6, <1>7, <1>8, <1>9, <1>10 DEF FlowStep

\* A landing never takes the number of an account's commitment back.
LEMMA RevGrows ==
    ASSUME Typed, NEW t \in flight, Valid(t)
    PROVE  /\ \A n \in Start, who \in Person : acct[n][who].rev <= After(t)[n][who].rev
           /\ t.kind = "transfer" =>
                 acct[t.token]["marta"].rev < After(t)[t.token]["marta"].rev
<1>1. /\ t.token \in Start /\ t.src \in Person /\ t.arg \in Nat /\ t.kind \in Kind
      /\ "goal" \in Person /\ "marta" \in Person
      /\ acct \in [Start -> [Person -> AccountType]]
      /\ t.kind \in {"deposit", "transfer"} => t.src = "marta"
  BY DEF Typed, TxType, Person
<1>2. \A a \in AccountType :
         /\ a.rev \in Nat
         /\ Merged(a).rev \in {a.rev, a.rev + 1}
         /\ Debited(a).rev = a.rev + 1
         /\ \A n \in Nat : Credited(a, n).rev = a.rev
  BY DEF Merged, Debited, Credited, AccountType
<1>3. \A n \in Start, who \in Person : acct[n][who].rev \in Nat
  BY <1>1, <1>2
<1>4. CASE t.kind = "register"
  <2> DEFINE a == [acct[t.token][t.src] EXCEPT !.key = t.arg]
  <2>1. a.rev = acct[t.token][t.src].rev
    BY <1>1 DEF AccountType
  <2>2. After(t) = [acct EXCEPT ![t.token][t.src] = a]
    BY <1>1, <1>4 DEF After
  <2> HIDE DEF a
  <2> QED
    BY <1>1, <1>3, <1>4, <2>1, <2>2
<1>5. CASE t.kind = "deposit"
  <2> DEFINE a == Credited(acct[t.token][t.src], DepositAmount)
  <2>1. a.rev = acct[t.token][t.src].rev
    BY <1>1, <1>2, ScriptsAssumption
  <2>2. After(t) = [acct EXCEPT ![t.token][t.src] = a]
    BY <1>1, <1>5 DEF After
  <2> HIDE DEF a
  <2> QED
    BY <1>1, <1>3, <1>5, <2>1, <2>2
<1>6. CASE t.kind = "merge"
  <2> DEFINE a == Merged(acct[t.token][t.src])
  <2>1. acct[t.token][t.src].rev <= a.rev
    BY <1>1, <1>2
  <2>2. After(t) = [acct EXCEPT ![t.token][t.src] = a]
    BY <1>1, <1>6 DEF After
  <2> HIDE DEF a
  <2> QED
    BY <1>1, <1>3, <1>6, <2>1, <2>2
<1>7. CASE t.kind = "transfer"
  <2> DEFINE a == Debited(acct[t.token]["marta"])
             b == Credited(acct[t.token]["goal"], TransferAmount)
  <2>1. /\ a.rev = acct[t.token]["marta"].rev + 1
        /\ b.rev = acct[t.token]["goal"].rev
    BY <1>1, <1>2, ScriptsAssumption
  <2>2. After(t) = [acct EXCEPT ![t.token]["marta"] = a, ![t.token]["goal"] = b]
    BY <1>1, <1>7 DEF After
  <2> HIDE DEF a, b
  <2>3. After(t)[t.token]["marta"] = a /\ After(t)[t.token]["goal"] = b
    BY <1>1, <2>2
  <2>4. \A n \in Start, who \in Person :
           n # t.token \/ who \notin {"marta", "goal"} => After(t)[n][who] = acct[n][who]
    BY <1>1, <2>2
  <2> QED
    BY <1>1, <1>3, <2>1, <2>3, <2>4
<1> QED
  BY <1>1, <1>4, <1>5, <1>6, <1>7 DEF Kind

\* A transaction lands or expires.
LEMMA LandSubmitting ==
    ASSUME Typed, Submitting, NEW t \in flight, Land(t)
    PROVE  Submitting'
<1>0. /\ proc \in ProcType /\ t \in TxType /\ proc.paid \in Nat
      /\ t.kind = "transfer" => t.src = "marta"
      /\ acct \in [Start -> [Person -> AccountType]] /\ "marta" \in Person
      /\ proc.script = "flow" => proc.token \in Start
  BY DEF Typed, Person, Placed, ProcType
<1>1. flight' = {u \in flight : u.src # t.src} /\ contracts' = contracts
  BY DEF Land
<1>2. acct' \in [Start -> [Person -> AccountType]]
  BY AfterTyped DEF Land, Typed
<1>3. /\ \A n \in Start, who \in Person :
            acct[n][who].rev \in Nat /\ acct'[n][who].rev \in Nat
      /\ proc.marta.rev \in Nat
  BY <1>0, <1>2 DEF AccountType, ProcType
<1>4. CASE t.by = "gone"
  <2>1. proc' = proc
    BY <1>4 DEF Land
  <2>2. CASE proc.script = "flow"
    <3>1. Flowing
      BY <2>2 DEF Submitting
    <3>2. acct[proc.token]["marta"].rev <= acct'[proc.token]["marta"].rev
      BY <1>0, <2>2, RevGrows DEF Land, AccountType
    <3>3. acct[proc.token]["marta"].rev \in Nat /\ acct'[proc.token]["marta"].rev \in Nat
          /\ proc.marta.rev \in Nat
      BY <1>0, <1>3, <2>2
    <3>4. proc.pc \notin LastPc
      BY <3>1 DEF Flowing
    <3>5. proc.pc = "transfer" /\ proc.paid = 1 =>
             proc.marta.rev < acct'[proc.token]["marta"].rev
      BY <3>1, <3>2, <3>3 DEF Flowing
    <3>a. Compared(proc, proc.pc)'
      BY <1>1, <2>1, <3>1, <3>4 DEF Flowing, Compared, LastPc
    <3>6. Flowing'
      BY <1>1, <2>1, <3>1, <3>4, <3>5, <3>a DEF Flowing
    <3> QED
      BY <2>1, <2>2, <3>6, ScriptsAssumption DEF Submitting
  <2>3. CASE proc.script # "flow"
    BY <1>1, <2>1, <2>3 DEF Submitting
  <2> QED
    BY <2>2, <2>3
<1>5. CASE t.by # "gone"
  <2> DEFINE sent == IF t.by = "lost" THEN proc.sent
                     ELSE IF Valid(t) THEN "ok" ELSE "refused"
             paid == IF Valid(t) /\ t.kind = "transfer" THEN proc.paid + 1
                     ELSE proc.paid
  <2>1. proc.script = "flow" /\ Flowing
    BY <1>5 DEF Submitting
  <2>2. proc' = [proc EXCEPT !.sent = sent, !.paid = paid]
    BY <1>5 DEF Land
  <2>3. t.by # "lost" => t.by = "mine" /\ proc.pc \in SubmitPc /\ t.src = Source(proc.pc)
    BY <1>0, <1>5, <2>1 DEF TxType, Flowing
  <2>4. sent \in {proc.sent, "ok", "refused"} /\ (sent # proc.sent => t.by = "mine")
    BY <1>0, <1>5 DEF TxType
  <2>5. /\ paid # proc.paid =>
              proc.pc = "transfer" /\ proc.paid = 0 /\ paid = 1 /\ Valid(t)
              /\ t.kind = "transfer" /\ t.token = proc.token
        /\ paid \in Nat
    <3>1. CASE Valid(t) /\ t.kind = "transfer"
      <4>1. proc.pc = "transfer" /\ t.arg = proc.marta.rev /\ t.token = proc.token
        BY <1>5, <2>1, <3>1 DEF Flowing
      <4>2. acct[proc.token]["marta"].rev = proc.marta.rev
        BY <1>0, <3>1, <4>1 DEF Valid, Account
      <4>3. proc.paid # 1
        <5>1. proc.marta.rev \in Nat
          BY <1>0 DEF ProcType, AccountType
        <5> QED
          BY <2>1, <4>1, <4>2, <5>1 DEF Flowing
      <4> QED
        BY <1>0, <2>1, <3>1, <4>1, <4>3 DEF Flowing
    <3>2. CASE ~(Valid(t) /\ t.kind = "transfer")
      BY <1>0, <3>2
    <3> QED
      BY <3>1, <3>2
  <2> HIDE DEF sent, paid
  <2>6. /\ proc'.script = "flow" /\ proc'.pc = proc.pc /\ proc'.sent = sent
        /\ proc'.token = proc.token /\ proc'.paid = paid
        /\ proc'.marta = proc.marta /\ proc'.goal = proc.goal
        /\ proc'.differs = proc.differs
    BY <1>0, <2>1, <2>2 DEF ProcType
  <2>7. /\ acct[proc.token]["marta"].rev \in Nat /\ acct'[proc.token]["marta"].rev \in Nat
        /\ proc.marta.rev \in Nat
    BY <1>0, <1>3, <2>1
  <2>8. acct[proc.token]["marta"].rev <= acct'[proc.token]["marta"].rev
    BY <1>0, <2>1, <2>7, RevGrows DEF Land
  <2>9. proc.pc = "transfer" /\ paid = 1 =>
           proc.marta.rev < acct'[proc.token]["marta"].rev
    <3>1. CASE paid = proc.paid
      BY <2>1, <2>7, <2>8, <3>1 DEF Flowing
    <3>2. CASE paid # proc.paid
      <4>1. Valid(t) /\ t.kind = "transfer" /\ t.token = proc.token
        BY <2>5, <3>2
      <4>2. acct[proc.token]["marta"].rev = proc.marta.rev
        BY <1>0, <1>5, <2>1, <4>1 DEF Valid, Account, Flowing
      <4>3. acct' = After(t)
        BY <4>1 DEF Land
      <4> QED
        BY <1>0, <4>1, <4>2, <4>3, RevGrows
    <3> QED
      BY <3>1, <3>2
  <2>10. proc.pc \notin LastPc
    BY <2>1 DEF Flowing
  <2>11. /\ \A u \in flight' : u.by = "mine" => proc.sent = "waiting" /\ sent = "waiting"
         /\ sent = "ok" => \A u \in flight' : u.src # Source(proc.pc)
         /\ sent # "no" => proc.pc \in SubmitPc
    BY <1>1, <2>1, <2>3, <2>4 DEF Flowing
  <2>12. "transfer" \notin EarlyPc
    BY DEF EarlyPc
  <2>13. /\ proc.pc \in EarlyPc => paid = 0
         /\ paid <= 1
    BY <1>0, <2>1, <2>5, <2>12 DEF Flowing
  <2>a. Compared(proc, proc.pc)'
    BY <1>1, <2>1, <2>6, <2>10 DEF Flowing, Compared, LastPc
  <2>14. Flowing'
    BY <1>1, <2>1, <2>6, <2>9, <2>10, <2>11, <2>13, <2>a DEF Flowing
  <2> QED
    BY <2>6, <2>14, ScriptsAssumption DEF Submitting
<1> QED
  BY <1>4, <1>5

\* A contribution of the app's adds to what a goal has been given, and no more.
LEMMA GivenWhat ==
    ASSUME Typed, Contribute
    PROVE  \A n \in Start :
              /\ acct'[n]["marta"] = acct[n]["marta"]
              /\ LET a == acct[n]["goal"]
                     b == acct'[n]["goal"]
                 IN  /\ a.gift \in Nat
                     /\ b = a \/ a.gift < b.gift
                     /\ b.spend = a.spend /\ b.rev = a.rev /\ b.gift \in Nat
                     /\ b.key = a.key /\ b.recv - b.gift = a.recv - a.gift
                     /\ a.recv \in Nat /\ b.recv \in Nat
<1> DEFINE a == acct[record.token]["goal"]
           b == Given(a, TransferAmount)
<1>1. /\ record.token \in Start /\ a \in AccountType
      /\ TransferAmount \in Nat /\ 0 < TransferAmount
      /\ acct' = [acct EXCEPT ![record.token]["goal"] = b]
  BY ScriptsAssumption DEF Contribute, Typed, Person
<1>2. /\ b.spend = a.spend /\ b.rev = a.rev /\ b.key = a.key
      /\ b.gift = a.gift + TransferAmount /\ b.recv = a.recv + TransferAmount
      /\ a.gift \in Nat /\ a.recv \in Nat
  BY <1>1 DEF Given, AccountType
<1>3. \A n \in Start : acct[n]["goal"].gift \in Nat /\ acct[n]["goal"].recv \in Nat
  BY DEF Typed, AccountType, Person
<1>4. \A n \in Start :
         /\ acct'[n]["marta"] = acct[n]["marta"]
         /\ acct'[n]["goal"] = IF n = record.token THEN b ELSE acct[n]["goal"]
  BY <1>1 DEF Typed, Person
<1> HIDE DEF a, b
<1>5. acct[record.token]["goal"] = a
  BY DEF a
<1> QED
  BY <1>1, <1>2, <1>3, <1>4, <1>5

\* Every step.
LEMMA SubmittingStep == Typed /\ Submitting /\ [Next]_vars => Submitting'
<1> SUFFICES ASSUME Typed, Submitting, [Next]_vars PROVE Submitting'
  OBVIOUS
<1>1. ASSUME NEW t \in flight, Expire(t) PROVE Submitting'
  <2>1. /\ flight' \subseteq flight /\ UNCHANGED <<proc, acct, contracts>>
        /\ (flight = {} => flight' = {})
    BY <1>1 DEF Expire
  <2>2. Flowing => Flowing'
    BY <2>1 DEF Flowing, Compared, Since
  <2> QED
    BY <2>1, <2>2 DEF Submitting
<1>2. ASSUME Crash \/ RecordTorn \/ LogTorn \/ ReceiptTorn PROVE Submitting'
  BY <1>2, EndsSubmitting, ScriptsAssumption
  DEF Crash, RecordTorn, LogTorn, ReceiptTorn, AtDeploy, AtFlow, Running, Outcome
<1>3. CASE VerifierKeyAdded \/ UNCHANGED vars
  <2>1. UNCHANGED <<proc, acct, flight, contracts>>
    BY <1>3 DEF VerifierKeyAdded, network, vars
  <2>2. Flowing => Flowing'
    BY <2>1 DEF Flowing, Compared, Since
  <2> QED
    BY <2>1, <2>2 DEF Submitting
<1>4. ASSUME SecretsTorn PROVE Submitting'
  <2>1. proc'.script = None /\ proc'.paid = 0 /\ flight' = {}
    BY <1>4 DEF SecretsTorn, NoProc
  <2> QED
    BY <2>1, ScriptsAssumption DEF Submitting
<1>5. ASSUME Contribute PROVE Submitting'
  <2>1. UNCHANGED <<proc, flight, contracts>>
    BY <1>5 DEF Contribute
  <2>2. \A n \in Start :
           /\ acct'[n]["marta"] = acct[n]["marta"]
           /\ LET a == acct[n]["goal"]
                  b == acct'[n]["goal"]
              IN  /\ a.gift \in Nat
                  /\ b = a \/ a.gift < b.gift
                  /\ b.spend = a.spend /\ b.rev = a.rev /\ b.gift \in Nat
    BY <1>5, GivenWhat
  <2>3. ASSUME proc.script = "flow", Flowing PROVE Flowing'
    <3>1. proc.token \in Start /\ proc.goal.gift \in Nat
      BY <2>3 DEF Typed, Placed, ProcType, AccountType
    <3>2. acct'[proc.token]["marta"] = acct[proc.token]["marta"]
      BY <2>2, <3>1
    <3> DEFINE a == acct[proc.token]["goal"]
               b == acct'[proc.token]["goal"]
    <3>a. /\ a.gift \in Nat /\ b.gift \in Nat
          /\ b = a \/ a.gift < b.gift
          /\ b.spend = a.spend /\ b.rev = a.rev
      BY <2>2, <3>1
    <3> HIDE DEF a, b
    <3>b. Since(proc.goal, a) => Since(proc.goal, b)
      BY <3>1, <3>a DEF Since
    <3>c. proc.goal.gift < a.gift => proc.goal.gift < b.gift
      BY <3>1, <3>a
    <3> USE DEF a, b
    <3>3. Since(proc.goal, acct[proc.token]["goal"])
             => Since(proc.goal, acct'[proc.token]["goal"])
      BY <3>b
    <3>4. proc.goal.gift < acct[proc.token]["goal"].gift
             => proc.goal.gift < acct'[proc.token]["goal"].gift
      BY <3>c
    <3>5. Compared(proc, proc.pc)'
      BY <2>1, <2>3, <3>2, <3>3, <3>4 DEF Flowing, Compared, Since
    <3> QED
      BY <2>1, <2>3, <3>2, <3>5 DEF Flowing
  <2> QED
    BY <2>1, <2>3 DEF Submitting
<1>6. ASSUME Forget PROVE Submitting'
  <2>1. UNCHANGED <<proc, acct, flight>> /\ contracts.forgotten < contracts'.forgotten
    BY <1>6 DEF Forget, Typed, ContractsType
  <2>2. contracts.forgotten \in Int /\ contracts'.forgotten \in Int
    BY <1>6, TypedStep DEF Next, Typed, ContractsType
  <2>3. ASSUME Flowing, proc.token \in Int PROVE Flowing'
    <3>1. contracts'.forgotten < proc.token => contracts.forgotten < proc.token
      BY <2>1, <2>2, <2>3
    <3>2. Compared(proc, proc.pc)'
      BY <2>1, <2>3, <3>1 DEF Flowing, Compared, Since
    <3> QED
      BY <2>1, <2>3, <3>2 DEF Flowing
  <2>4. proc.token \in Int
    BY ScriptsAssumption DEF Typed, ProcType, Start
  <2> QED
    BY <2>1, <2>3, <2>4 DEF Submitting
<1> QED
  BY <1>1, <1>2, <1>3, <1>4, <1>5, <1>6, ElseSubmitting, FlowSubmitting, LandSubmitting
  DEF Next, Step, TryFails, Torn, Chain

\* Submitting is invariant.
LEMMA AlwaysSubmitting == Spec => []Submitting
<1>1. Init => Submitting
  BY InitSubmitting
<1>2. Typed /\ Submitting /\ [Next]_vars => Submitting'
  BY SubmittingStep
<1> QED
  BY <1>1, <1>2, AlwaysTyped, PTL DEF Spec

\* One run of flow.mjs pays at most once, however often retry() submits: the proof
\* is made before the retry and bound to the balance it spends.
THEOREM PaysOnce == Spec => []TransferOnce
<1>1. Submitting => TransferOnce
  BY DEF Submitting, Flowing, TransferOnce
<1> QED
  BY <1>1, AlwaysSubmitting, PTL

\* verifyAgainstChain finds the chain as the engines synced it, but for what the app
\* has paid the goal since, whatever earlier runs and lost tries left in flight:
\* nothing of either source is left by then.
THEOREM ComparesAtRest == Spec => []VerifiesAtRest
<1>1. Typed /\ Submitting => VerifiesAtRest
  <2> SUFFICES ASSUME Typed, Submitting, Running("flow", "log"), Replayable
               PROVE  /\ "marta" \notin proc.differs
                      /\ "goal" \in proc.differs =>
                            acct[proc.token]["goal"].gift # proc.goal.gift
    BY DEF VerifiesAtRest
  <2>1. Flowing /\ proc.goal.gift \in Nat /\ proc.token \in Start
    BY DEF Submitting, Running, Typed, Placed, ProcType, AccountType
  <2>2. acct[proc.token]["goal"].gift \in Nat
    BY <2>1 DEF Typed, AccountType, Person
  <2> QED
    BY <2>1, <2>2 DEF Flowing, Compared, Replayable
<1> QED
  BY <1>1, AlwaysTyped, AlwaysSubmitting, PTL

-----------------------------------------------------------------------------
(* What the readers conclude                                                *)

\* A receipt is sealed to the demo key or to the key on file, unless that was lost
\* since.  A verification under way holds the key on file, or the demo key if the
\* operator's was put there after it started.
Sealed ==
    /\ receipt # None =>
          /\ receipt.at <= starts /\ (proc.script # None => receipt.at < starts)
          /\ receipt.key \in {0, env["verifier"]} \/ receipt.at < history.torn
    /\ proc.script = "make" => proc.key \in {0, env["verifier"]}
    /\ proc.script = "verify" =>
          /\ receipt # None /\ proc.token = receipt.token
          /\ \/ proc.key = env["verifier"]
             \/ proc.key = 0 /\ (receipt.key = 0 \/ receipt.at < history.torn)
    /\ proc.pc = "verify" /\ proc.outcome = "rejected" => receipt # None
    /\ ReceiptOpens

\* Where a flow has logged its deposit, and where its transfer.
DepositedPc == {"mergeMarta", "syncMarta", "transfer", "syncGoal", "mergeGoal"}
               \union LastPc
PaidPc == {"syncGoal", "mergeGoal"} \union LastPc

\* All that the goal has not merged came from the app.
Harvested(token) == acct[token]["goal"].recv <= acct[token]["goal"].gift

\* A flow that went on has seen its deposit, its transfer and the goal's merge.
FlowSeen ==
    /\ history.outdated /\ proc.env["goal"] # 0
    /\ proc.pc \in DepositedPc => "deposit" \in proc.steps
    /\ proc.pc \in PaidPc => "transfer" \in proc.steps
    /\ proc.pc \in PaidPc \/ (proc.pc = "transfer" /\ proc.sent = "ok") =>
          Received(proc.token) > 0
    /\ proc.pc \in LastPc \/ (proc.pc = "mergeGoal" /\ proc.sent = "ok") =>
          Harvested(proc.token) /\ acct[proc.token]["goal"].spend > 0

\* Until another flow starts or the secrets are lost, the goal of the run log is the
\* one on file, and holds what the log says besides what the app has paid it since;
\* if only the flow could read its events.
LogTrue ==
    ~history.outdated =>
        /\ flight = {}
        /\ runLog # None =>
              /\ runLog.account = env["goal"] /\ runLog.account # 0
              /\ {"deposit", "transfer"} \subseteq runLog.steps
              /\ contracts.forgotten < runLog.token =>
                    /\ runLog.goal > 0 /\ Harvested(runLog.token)
                    /\ acct[runLog.token]["goal"].spend = runLog.goal

Reported == (proc.script = "flow" => FlowSeen) /\ LogTrue

Disagrees == proc.outcome \in {"mismatch", "no_transfer", "no_step"}

\* What a reader under way has loaded is still in the files.
Reading ==
    /\ proc.script \in {"audit", "visibility"} => record # None /\ runLog # None
    /\ proc.pc \in {"audit", "visibility"} /\ Disagrees => record # None /\ runLog # None
    /\ proc.script = "audit" =>
          /\ proc.token = record.token
          /\ ~history.outdated => proc.env["goal"] = runLog.account
          /\ \A id \in {0, 1} :
                /\ env[AuditorOf[id]] # 0
                /\ proc.env[AuditorOf[id]] = env[AuditorOf[id]]
    /\ ReadersAgree

-----------------------------------------------------------------------------
(* Steps by what they move                                                  *)

Stays ==
    /\ proc'.script = proc.script /\ proc'.pc = proc.pc /\ proc'.outcome = proc.outcome
    /\ proc'.token = proc.token /\ proc'.env = proc.env /\ proc'.key = proc.key

\* The script stays where it is, or is not a reader, or ends without a verdict,
\* or is a reader that starts or concludes.
LEMMA Shapes ==
    ASSUME Typed, [Next]_vars
    PROVE  \/ Stays
           \/ proc'.script \in {"deploy", "flow"}
           \/ proc'.script = None /\ proc'.pc \in {"deploy", "flow"}
           \/ proc'.script = None /\ proc'.outcome \in {"failed", "crashed"}
           \/ ReaderStarts \/ ReaderStep
<1>0. proc \in ProcType /\ NoProc \in ProcType
  BY NoProcTyped DEF Typed
<1>1. ASSUME NEW limit \in Nat, Again(limit), proc.script # None
      PROVE  Stays \/ (proc'.script = None /\ proc'.outcome = "failed")
  <2>1. CASE proc.tries < limit
    BY <1>0, <1>1, <2>1 DEF Again, ProcType, Stays
  <2>2. CASE ~(proc.tries < limit)
    BY <1>1, <2>2, EndsFields DEF Again, Outcome
  <2> QED
    BY <2>1, <2>2
<1>2. CASE DeployStart \/ FlowStart
  BY <1>0, <1>2 DEF DeployStart, FlowStart, ProcType
<1>3. CASE DeployStep
  <2> USE DEF AtDeploy, Running
  <2>1. CASE \/ Funded \/ VerifierDeployed \/ AuditorDeployed \/ LedgerRead
             \/ TokenDeployed
             \/ \E id \in {0, 1} : AuditorKeyChosen(id)
    BY <1>0, <2>1
    DEF Funded, VerifierDeployed, AuditorDeployed, LedgerRead, TokenDeployed,
        AuditorKeyChosen, Proceed, ProcType
  <2>2. ASSUME NEW answered \in BOOLEAN, VkRegistered(answered)
        PROVE  \/ Stays \/ proc'.script = "deploy"
               \/ proc'.script = None /\ proc'.outcome = "failed"
    <3>1. CASE answered
      BY <1>0, <2>2, <3>1 DEF VkRegistered, Proceed, ProcType
    <3>2. CASE ~answered
      BY <1>1, <2>2, <3>2, ScriptsAssumption DEF VkRegistered
    <3> QED
      BY <3>1, <3>2
  <2>3. ASSUME NEW id \in {0, 1}, NEW answered \in BOOLEAN,
               AuditorKeyRegistered(id, answered)
        PROVE  \/ Stays \/ proc'.script = "deploy"
               \/ proc'.script = None /\ proc'.outcome = "failed"
    <3>1. CASE answered
      BY <1>0, <2>3, <3>1 DEF AuditorKeyRegistered, Proceed, ProcType
    <3>2. CASE ~answered
      BY <1>1, <2>3, <3>2, ScriptsAssumption DEF AuditorKeyRegistered
    <3> QED
      BY <3>1, <3>2
  <2>4. ASSUME RecordSaved PROVE proc'.script = None /\ proc'.pc = "deploy"
    BY <2>4, EndsFields, ScriptsAssumption DEF RecordSaved, Outcome
  <2> QED
    BY <1>3, <2>1, <2>2, <2>3, <2>4 DEF DeployStep
<1>4. CASE FlowStep
  <2> USE DEF AtFlow, Running
  <2>1. CASE \/ FlowCall
             \/ \E who \in Person : Asked(who) \/ Synced(who) \/ Verified(who)
    <3>1. CASE FlowCall
      BY <1>0, <3>1 DEF FlowCall, Proceed, ProcType
    <3>2. CASE \E who \in Person : Asked(who)
      BY <1>0, <3>2 DEF Asked, Proceed, ProcType
    <3>3. CASE \E who \in Person : Synced(who)
      BY <1>0, <3>3 DEF Synced, Person, Proceed, ProcType
    <3>4. CASE \E who \in Person : Verified(who)
      BY <1>0, <3>4 DEF Verified, Proceed, ProcType
    <3> QED
      BY <2>1, <3>1, <3>2, <3>3, <3>4
  <2>2. CASE \E pc \in DOMAIN Submitted : Submit(pc) \/ Confirm(pc)
    BY <1>0, <2>2 DEF Submit, Confirm, Proceed, ProcType
  <2>3. CASE LogWritten
    <3>1. PICK o \in Outcome : Ends(o)
      BY <2>3 DEF LogWritten, Outcome
    <3> QED
      BY <2>3, <3>1, EndsFields, ScriptsAssumption DEF LogWritten
  <2> QED
    BY <1>4, <2>1, <2>2, <2>3 DEF FlowStep
<1>5. CASE TryFails
  <2>1. PICK limit \in Nat : Again(limit)
    BY <1>5, ScriptsAssumption
    DEF TryFails, DeployTryFails, FlowTryFails, ReaderTryFails
  <2>2. proc.script # None
    BY <1>5, ScriptsAssumption
    DEF TryFails, DeployTryFails, FlowTryFails, ReaderTryFails, AtDeploy, Running
  <2> QED
    BY <1>1, <2>1, <2>2
<1>6. CASE Crash \/ RecordTorn \/ LogTorn \/ ReceiptTorn
  BY <1>6, EndsFields, ScriptsAssumption
  DEF Crash, RecordTorn, LogTorn, ReceiptTorn, AtDeploy, AtFlow, Running, Outcome
<1>9. CASE SecretsTorn
  BY <1>0, <1>9 DEF SecretsTorn, NoProc
<1>7. CASE VerifierKeyAdded \/ Contribute \/ Forget \/ (\E t \in flight : Expire(t))
           \/ UNCHANGED vars
  <2>1. proc' = proc
    BY <1>7 DEF VerifierKeyAdded, Contribute, Forget, Expire, vars
  <2> QED
    BY <2>1 DEF Stays
<1>8. ASSUME NEW t \in flight, Land(t) PROVE Stays
  <2>1. PICK sent, paid : proc' = [proc EXCEPT !.sent = sent, !.paid = paid]
    BY <1>8, LandTyped
  <2> QED
    BY <1>0, <2>1 DEF ProcType, Stays
<1> QED
  BY <1>2, <1>3, <1>4, <1>5, <1>6, <1>7, <1>8, <1>9 DEF Next, Step, Torn, Chain

\* Which action writes what.
LEMMA Frames ==
    ASSUME Typed, [Next]_vars
    PROVE  /\ receipt' = receipt \/ ReceiptMade \/ ReceiptTorn
           /\ record' = record \/ RecordSaved \/ RecordTorn
           /\ runLog' = runLog \/ LogWritten \/ LogTorn
           /\ \/ history'.outdated = history.outdated
              \/ FlowStart \/ LogWritten \/ SecretsTorn
           /\ history'.torn = history.torn \/ SecretsTorn
           /\ acct' = acct \/ (\E t \in flight : Land(t)) \/ Contribute \/ SecretsTorn
<1>0. history \in [outdated : BOOLEAN, torn : 0..MaxStarts, gifts : Nat]
  BY DEF Typed
<1>1. CASE DeployStart \/ DeployStep \/ DeployTryFails
  BY <1>1
  DEF DeployStart, DeployStep, DeployTryFails, Funded, VerifierDeployed,
      AuditorDeployed, LedgerRead, TokenDeployed, VkRegistered, AuditorKeyChosen,
      AuditorKeyRegistered, RecordSaved, files, network
<1>2. CASE FlowStart \/ FlowStep \/ FlowTryFails
  BY <1>0, <1>2
  DEF FlowStart, FlowStep, FlowTryFails, FlowCall, Asked, Submit, Confirm,
      Synced, Verified, LogWritten, files, network
<1>3. CASE ReaderStarts \/ ReaderStep \/ ReaderTryFails
  BY <1>3
  DEF Audited, ReaderStarts, ReaderStep, ReaderTryFails, AuditStart, VisibilityStart,
      MakeStart, VerifyStart, ReaderStart, AuditConcludes, VisibilityConcludes,
      ReceiptMade, NoReceipt, Verdict, ReaderEnds, files, network
<1>4. CASE Crash \/ Torn \/ Chain \/ VerifierKeyAdded \/ UNCHANGED vars
  BY <1>4
  DEF Crash, Torn, SecretsTorn, RecordTorn, LogTorn, ReceiptTorn, Chain, Land, Expire,
      VerifierKeyAdded, vars, files, network
<1>5. CASE Contribute \/ Forget
  BY <1>0, <1>5 DEF Contribute, Forget, files
<1> QED
  BY <1>1, <1>2, <1>3, <1>4, <1>5 DEF Next, Step, TryFails

\* Starts are counted: a script that runs now was running, or started now.
LEMMA Counted ==
    ASSUME [Next]_vars
    PROVE  \/ starts' = starts /\ (proc.script # None \/ proc'.script = proc.script)
           \/ starts' = starts + 1 /\ proc.script = None
<1>1. CASE DeployStart \/ FlowStart \/ ReaderStarts
  BY <1>1
  DEF DeployStart, FlowStart, ReaderStarts, AuditStart, VisibilityStart,
      MakeStart, VerifyStart, ReaderStart
<1>2. CASE DeployStep \/ DeployTryFails
  BY <1>2, ScriptsAssumption
  DEF DeployStep, DeployTryFails, Funded, VerifierDeployed, AuditorDeployed,
      LedgerRead, TokenDeployed, VkRegistered, AuditorKeyChosen,
      AuditorKeyRegistered, RecordSaved, AtDeploy, Running
<1>3. CASE FlowStep \/ FlowTryFails
  BY <1>3, ScriptsAssumption
  DEF FlowStep, FlowTryFails, FlowCall, Asked, Submit, Confirm,
      Synced, Verified, LogWritten, AtFlow, Running
<1>4. CASE ReaderStep \/ ReaderTryFails
  BY <1>4, ScriptsAssumption
  DEF ReaderStep, ReaderTryFails, AuditConcludes, VisibilityConcludes,
      ReceiptMade, NoReceipt, Verdict, ReaderEnds, Running
<1>5. CASE Crash \/ Torn
  BY <1>5, ScriptsAssumption
  DEF Crash, Torn, SecretsTorn, RecordTorn, LogTorn, ReceiptTorn, AtDeploy, AtFlow,
      Running
<1>6. CASE VerifierKeyAdded \/ Contribute \/ Forget \/ UNCHANGED vars
  BY <1>6 DEF VerifierKeyAdded, Contribute, Forget, vars
<1>7. CASE \E t \in flight : Expire(t)
  BY <1>7 DEF Expire
<1>8. ASSUME NEW t \in flight, Land(t)
      PROVE  starts' = starts /\ (proc.script # None \/ proc'.script = proc.script)
  BY <1>8 DEF Land
<1> QED
  BY <1>1, <1>2, <1>3, <1>4, <1>5, <1>6, <1>7, <1>8 DEF Next, Step, TryFails, Chain

\* The RPC does not recover what it has forgotten.
LEMMA ForgottenGrows ==
    ASSUME Typed, [Next]_vars
    PROVE  /\ contracts.forgotten \in Nat /\ contracts'.forgotten \in Nat
           /\ contracts.forgotten <= contracts'.forgotten
<1>0. contracts.forgotten \in Nat /\ contracts \in ContractsType
  BY DEF Typed, ContractsType
<1>1. CASE contracts'.forgotten = contracts.forgotten
  BY <1>0, <1>1
<1>2. CASE DeployStart \/ DeployStep \/ DeployTryFails
  <2>1. contracts'.forgotten = contracts.forgotten
    BY <1>0, <1>2
    DEF DeployStart, DeployStep, DeployTryFails, Funded, VerifierDeployed,
        AuditorDeployed, LedgerRead, TokenDeployed, VkRegistered, AuditorKeyChosen,
        AuditorKeyRegistered, RecordSaved, network, ContractsType
  <2> QED
    BY <1>1, <2>1
<1>3. CASE FlowStart \/ FlowStep \/ FlowTryFails
  <2>1. contracts' = contracts
    BY <1>3
    DEF FlowStart, FlowStep, FlowTryFails, FlowCall, Asked, Submit, Confirm,
        Synced, Verified, LogWritten, network
  <2> QED
    BY <1>1, <2>1
<1>4. CASE ReaderStarts \/ ReaderStep \/ ReaderTryFails
  <2>1. contracts' = contracts
    BY <1>4
    DEF ReaderStarts, ReaderStep, ReaderTryFails, AuditStart, VisibilityStart,
        MakeStart, VerifyStart, ReaderStart, AuditConcludes, VisibilityConcludes,
        ReceiptMade, NoReceipt, Verdict, ReaderEnds, network
  <2> QED
    BY <1>1, <2>1
<1>5. CASE Crash \/ Torn \/ Chain \/ VerifierKeyAdded \/ Contribute \/ UNCHANGED vars
  <2>1. contracts' = contracts
    BY <1>5
    DEF Crash, Torn, SecretsTorn, RecordTorn, LogTorn, ReceiptTorn, Chain, Land,
        Expire, VerifierKeyAdded, Contribute, vars, network
  <2> QED
    BY <1>1, <2>1
<1>6. CASE Forget
  <2>1. record.token \in Nat /\ contracts'.forgotten = record.token
    BY <1>0, <1>6, ScriptsAssumption DEF Forget, Typed, ContractsType, Start
  <2> QED
    BY <1>0, <1>6, <2>1 DEF Forget
<1> QED
  BY <1>2, <1>3, <1>4, <1>5, <1>6 DEF Next, Step, TryFails

\* Only the operator touches the verifier's key.
LEMMA VerifierKept ==
    ASSUME Typed, Held, [Next]_vars, ~VerifierKeyAdded, ~SecretsTorn
    PROVE  env'["verifier"] = env["verifier"]
<1>0. env \in [Secret -> Nat] /\ "verifier" \in Secret
  BY DEF Typed, Secret
<1>1. CASE env' = env
  BY <1>1
<1>2. ASSUME NEW names, "verifier" \notin names, env' = SaveEnv(Ensure(env, names))
      PROVE  env'["verifier"] = env["verifier"]
  BY <1>0, <1>2 DEF SaveEnv, Ensure
<1>3. CASE DeployStart \/ FlowStart
  BY <1>2, <1>3 DEF DeployStart, FlowStart, Person
<1>4. ASSUME NEW id \in {0, 1}, AuditorKeyChosen(id)
      PROVE  env'["verifier"] = env["verifier"]
  <2>1. env' = SaveEnv(AuditorKey(proc.env, AuditorSecret[id + 1]))
    BY <1>4 DEF AuditorKeyChosen
  <2>2. AuditorSecret[id + 1] # "verifier"
    BY DEF AuditorSecret
  <2>3. proc.env["verifier"] \in {0, env["verifier"]} /\ proc.env \in [Secret -> Nat]
    BY <1>4 DEF AuditorKeyChosen, AtDeploy, Running, Held, Typed, ProcType
  <2>4. AuditorKey(proc.env, AuditorSecret[id + 1])["verifier"] = proc.env["verifier"]
    BY <1>0, <2>2, <2>3 DEF AuditorKey
  <2> QED
    BY <1>0, <2>1, <2>3, <2>4 DEF SaveEnv
<1>5. CASE DeployStep \/ DeployTryFails
  BY <1>1, <1>4, <1>5
  DEF DeployStep, DeployTryFails, Funded, VerifierDeployed,
      AuditorDeployed, LedgerRead, TokenDeployed, VkRegistered,
      AuditorKeyRegistered, RecordSaved, files
<1>6. CASE FlowStep \/ FlowTryFails
  BY <1>1, <1>6
  DEF FlowStep, FlowTryFails, FlowCall, Asked, Submit, Confirm,
      Synced, Verified, LogWritten, files
<1>7. CASE ReaderStarts \/ ReaderStep \/ ReaderTryFails
  BY <1>1, <1>7
  DEF ReaderStarts, ReaderStep, ReaderTryFails, AuditStart, VisibilityStart,
      MakeStart, VerifyStart, ReaderStart, AuditConcludes, VisibilityConcludes,
      ReceiptMade, NoReceipt, Verdict, ReaderEnds, files
<1>8. CASE Crash \/ RecordTorn \/ LogTorn \/ ReceiptTorn \/ Chain \/ Contribute
           \/ Forget \/ UNCHANGED vars
  BY <1>1, <1>8
  DEF Crash, RecordTorn, LogTorn, ReceiptTorn, Chain, Land, Expire, Contribute,
      Forget, vars, files
<1> QED
  BY <1>3, <1>5, <1>6, <1>7, <1>8 DEF Next, Step, TryFails, Torn

\* What a landing does to the goal's account: it is only ever credited.
LEMMA GoalAfter ==
    ASSUME Typed, NEW t \in flight, Valid(t)
    PROVE  /\ \A n \in Start :
                 acct[n]["goal"].spend + acct[n]["goal"].recv
                 <= After(t)[n]["goal"].spend + After(t)[n]["goal"].recv
           /\ t.kind = "transfer" =>
                 0 < After(t)[t.token]["goal"].spend + After(t)[t.token]["goal"].recv
           /\ t.kind = "merge" /\ t.src = "goal" => After(t)[t.token]["goal"].recv = 0
<1>1. /\ t.token \in Start /\ t.src \in Person /\ t.arg \in Nat /\ t.kind \in Kind
      /\ "goal" \in Person /\ "marta" \in Person
      /\ acct \in [Start -> [Person -> AccountType]]
      /\ t.kind \in {"deposit", "transfer"} => t.src = "marta"
  BY DEF Typed, TxType, Person
<1>2. \A n \in Start, who \in Person :
         acct[n][who].spend \in Nat /\ acct[n][who].recv \in Nat
  BY <1>1 DEF AccountType
<1>3. CASE t.kind = "register"
  <2> DEFINE a == [acct[t.token][t.src] EXCEPT !.key = t.arg]
  <2>1. a.spend = acct[t.token][t.src].spend /\ a.recv = acct[t.token][t.src].recv
    BY <1>1 DEF AccountType
  <2>2. After(t) = [acct EXCEPT ![t.token][t.src] = a]
    BY <1>1, <1>3 DEF After
  <2> HIDE DEF a
  <2> QED
    BY <1>1, <1>2, <1>3, <2>1, <2>2
<1>4. CASE t.kind = "deposit"
  <2>1. \A n \in Start : After(t)[n]["goal"] = acct[n]["goal"]
    BY <1>1, <1>4 DEF After
  <2> QED
    BY <1>1, <1>2, <1>4, <2>1
<1>5. CASE t.kind = "merge"
  <2> DEFINE b == acct[t.token][t.src]
             a == Merged(b)
  <2>1. b \in AccountType
    BY <1>1
  <2>2. a.spend + a.recv = b.spend + b.recv /\ a.recv = 0
    BY <2>1 DEF Merged, AccountType
  <2>3. After(t) = [acct EXCEPT ![t.token][t.src] = a]
    BY <1>1, <1>5 DEF After
  <2> HIDE DEF a
  <2> QED
    BY <1>1, <1>2, <1>5, <2>2, <2>3
<1>6. CASE t.kind = "transfer"
  <2> DEFINE b == acct[t.token]["goal"]
             a == Credited(b, TransferAmount)
             c == Debited(acct[t.token]["marta"])
  <2>1. b \in AccountType
    BY <1>1
  <2>2. a.spend = b.spend /\ a.recv = b.recv + TransferAmount
    BY <2>1 DEF Credited, AccountType
  <2>3. After(t) = [acct EXCEPT ![t.token]["marta"] = c, ![t.token]["goal"] = a]
    BY <1>1, <1>6 DEF After
  <2> HIDE DEF a, c
  <2>4. After(t)[t.token]["goal"] = a
    BY <1>1, <2>3
  <2>5. \A n \in Start : n # t.token => After(t)[n]["goal"] = acct[n]["goal"]
    BY <1>1, <2>3
  <2>6. b.spend \in Nat /\ b.recv \in Nat
    BY <2>1 DEF AccountType
  <2> HIDE DEF b
  <2>7. 0 < a.spend + a.recv /\ b.spend + b.recv <= a.spend + a.recv
    BY <2>2, <2>6, ScriptsAssumption
  <2> QED
    BY <1>1, <1>2, <1>6, <2>4, <2>5, <2>7 DEF b
<1> QED
  BY <1>1, <1>3, <1>4, <1>5, <1>6 DEF Kind

\* What the goal received never shrinks.
LEMMA ReceivedGrows ==
    ASSUME Typed, [Next]_vars, ~SecretsTorn
    PROVE  \A n \in Start :
              /\ Received(n) \in Nat
              /\ Received(n) <= acct'[n]["goal"].spend + acct'[n]["goal"].recv
<1>1. \A n \in Start : acct[n]["goal"].spend \in Nat /\ acct[n]["goal"].recv \in Nat
  BY DEF Typed, AccountType, Person
<1>2. CASE acct' = acct
  BY <1>1, <1>2 DEF Received
<1>3. ASSUME NEW t \in flight, Land(t)
      PROVE  \A n \in Start :
                Received(n) <= acct'[n]["goal"].spend + acct'[n]["goal"].recv
  BY <1>1, <1>3, GoalAfter DEF Land, Received
<1>4. ASSUME Contribute
      PROVE  \A n \in Start :
                Received(n) <= acct'[n]["goal"].spend + acct'[n]["goal"].recv
  <2> SUFFICES ASSUME NEW n \in Start
               PROVE  Received(n) <= acct'[n]["goal"].spend + acct'[n]["goal"].recv
    OBVIOUS
  <2> DEFINE a == acct[n]["goal"]
             b == acct'[n]["goal"]
  <2>1. /\ a.gift \in Nat /\ b.gift \in Nat /\ a.recv \in Nat /\ b.recv \in Nat
        /\ b = a \/ a.gift < b.gift
        /\ b.spend = a.spend /\ b.recv - b.gift = a.recv - a.gift
        /\ a.spend \in Nat
    BY <1>1, <1>4, GivenWhat
  <2> HIDE DEF a, b
  <2>2. a.recv <= b.recv
    BY <2>1
  <2>3. a.spend + a.recv <= b.spend + b.recv
    BY <2>1, <2>2
  <2> QED
    BY <2>3 DEF Received, a, b
<1> QED
  BY <1>1, <1>2, <1>3, <1>4, Frames DEF Received

-----------------------------------------------------------------------------
(* Sealed                                                                   *)

\* There is no receipt at the start.
LEMMA InitSealed == Init => Sealed
<1> SUFFICES ASSUME Init PROVE Sealed
  OBVIOUS
<1>1. proc.script = None /\ proc.pc = "" /\ receipt = None
  BY DEF Init, NoProc
<1> QED
  BY <1>1, ScriptsAssumption DEF Sealed, ReceiptOpens

\* Only make-receipt seals one.
LEMMA SealedStep == Typed /\ Typed' /\ Held /\ Numbered /\ Sealed /\ [Next]_vars => Sealed'
<1> SUFFICES ASSUME Typed, Typed', Held, Numbered, Sealed, [Next]_vars PROVE Sealed'
  OBVIOUS
<1> USE DEF Running
<1>0. /\ proc \in ProcType /\ NoProc \in ProcType /\ env \in [Secret -> Nat]
      /\ receipt # None => receipt.token \in Start /\ receipt.at \in Nat
      /\ "verifier" \in Secret /\ starts \in Nat /\ history.torn \in Nat
      /\ starts' \in Nat /\ history'.torn \in Nat
      /\ history \in [outdated : BOOLEAN, torn : 0..MaxStarts, gifts : Nat]
  BY NoProcTyped, ScriptsAssumption DEF Typed, Secret
<1>1. proc' \in ProcType /\ Placed'
  BY DEF Typed
<1>2. ASSUME SecretsTorn PROVE Sealed'
  <2>1. /\ proc'.script = None /\ proc'.pc # "verify" /\ receipt' = receipt
        /\ history'.torn = starts' /\ starts' \in {starts, starts + 1}
        /\ starts' = starts => proc.script # None
    <3>1. proc.script = "deploy" => proc.script # None
      BY ScriptsAssumption
    <3>2. NoProc.script = None /\ NoProc.pc # "verify"
      BY Zenon DEF NoProc
    <3> QED
      BY <1>0, <1>2, <3>1, <3>2 DEF SecretsTorn, AtDeploy, ProcType
  <2>2. receipt # None => receipt.at < history'.torn
    BY <1>0, <2>1 DEF Sealed
  <2> QED
    BY <1>0, <2>1, <2>2, ScriptsAssumption DEF Sealed, ReceiptOpens
<1> SUFFICES ASSUME ~SecretsTorn PROVE Sealed'
  BY <1>2
<1>3. /\ env["verifier"] # 0 => env'["verifier"] = env["verifier"]
      /\ env'["verifier"] # env["verifier"] => VerifierKeyAdded
      /\ history'.torn = history.torn
  BY <1>0, KeptStep, VerifierKept, Frames
<1>4. receipt # None /\ receipt' = receipt =>
         /\ receipt.at <= starts' /\ (proc'.script # None => receipt.at < starts')
         /\ receipt.key \in {0, env'["verifier"]} \/ receipt.at < history'.torn
  BY <1>0, <1>3, Counted DEF Sealed
\* A script that is no reader, or that ends without a verdict.
<1>5. ASSUME receipt' \in {receipt, None}, proc'.script \notin {"make", "verify"},
             ~(proc'.pc = "verify" /\ proc'.outcome = "rejected")
      PROVE  Sealed'
  BY <1>4, <1>5 DEF Sealed, ReceiptOpens
<1>6. ASSUME Stays, receipt' = receipt PROVE Sealed'
  <2>1. /\ proc'.script = "make" => proc'.key \in {0, env'["verifier"]}
        /\ proc'.script = "verify" =>
              /\ receipt' # None /\ proc'.token = receipt'.token
              /\ \/ proc'.key = env'["verifier"]
                 \/ proc'.key = 0 /\ (receipt'.key = 0 \/ receipt'.at < history'.torn)
    <3>1. CASE env'["verifier"] = env["verifier"]
      BY <1>3, <1>6, <3>1 DEF Sealed, Stays
    <3>2. CASE env["verifier"] = 0 /\ proc.script = "make"
      BY <1>6, <3>2 DEF Sealed, Stays
    <3>3. CASE env["verifier"] = 0 /\ proc.script = "verify"
      BY <1>3, <1>6, <3>3 DEF Sealed, Stays
    <3> QED
      BY <1>3, <1>6, <3>1, <3>2, <3>3 DEF Stays
  <2>2. ReceiptOpens'
    <3>1. SUFFICES ASSUME proc.pc = "verify", proc.outcome = "rejected"
                   PROVE  ReceiptOpens'
      BY <1>6 DEF ReceiptOpens, Stays
    <3>2. CASE receipt.token <= contracts.forgotten
      <4>1. receipt.token <= contracts'.forgotten
        <5>1. receipt.token \in Nat \/ receipt = None
          BY <1>0, ScriptsAssumption DEF Start
        <5>2. receipt # None
          BY <3>1 DEF Sealed
        <5> QED
          BY <3>2, <5>1, <5>2, ForgottenGrows
      <4> QED
        BY <1>6, <4>1 DEF ReceiptOpens
    <3>3. CASE ~(receipt.token <= contracts.forgotten)
      BY <1>3, <1>6, <3>1, <3>3 DEF Sealed, ReceiptOpens
    <3> QED
      BY <3>2, <3>3
  <2>3. proc'.pc = "verify" /\ proc'.outcome = "rejected" => receipt' # None
    BY <1>6 DEF Sealed, Stays
  <2> QED
    BY <1>4, <1>6, <2>1, <2>2, <2>3 DEF Sealed
<1>7. ASSUME ReaderStarts PROVE Sealed'
  <2>1. env' = env /\ receipt' = receipt
    BY <1>7
    DEF ReaderStarts, AuditStart, VisibilityStart, MakeStart, VerifyStart,
        ReaderStart, files
  <2>2. proc'.pc = "fetch"
    BY <1>0, <1>7
    DEF ReaderStarts, AuditStart, VisibilityStart, MakeStart, VerifyStart,
        ReaderStart, ProcType
  <2>3. /\ MakeStart => proc'.script = "make" /\ proc'.key = SealingKey
        /\ VerifyStart =>
              /\ proc'.script = "verify" /\ proc'.key = OpeningKey
              /\ receipt # None /\ proc'.token = record.token
              /\ receipt.token = record.token
        /\ AuditStart \/ VisibilityStart => proc'.script \in {"audit", "visibility"}
    BY <1>0
    DEF AuditStart, VisibilityStart, MakeStart, VerifyStart, ReaderStart, ProcType
  <2>4. SealingKey \in {0, env["verifier"]} /\ OpeningKey = env["verifier"]
    BY DEF SealingKey, OpeningKey
  <2>5. ReceiptOpens'
    BY <2>2 DEF ReceiptOpens
  <2> QED
    BY <1>4, <1>7, <2>1, <2>2, <2>3, <2>4, <2>5 DEF ReaderStarts, Sealed
<1>8. ASSUME ReceiptMade PROVE Sealed'
  <2>1. proc'.script = None /\ proc'.outcome = "done"
    BY <1>8, EndsFields, ScriptsAssumption DEF ReceiptMade, Outcome
  <2>2. receipt' = [token |-> proc.token, key |-> proc.key, at |-> starts]
        /\ env' = env /\ starts' = starts
    BY <1>8 DEF ReceiptMade
  <2>3. proc.key \in {0, env["verifier"]}
    BY <1>8 DEF ReceiptMade, Sealed
  <2> QED
    BY <1>0, <2>1, <2>2, <2>3, ScriptsAssumption DEF Sealed, ReceiptOpens
<1>9. ASSUME Verdict PROVE Sealed'
  <2>1. PICK o \in {"verified", "rejected"} :
           /\ ReaderEnds(o)
           /\ o = "rejected" => ~Discloses \/ ~Replayable
    BY <1>9 DEF Verdict
  <2>2. /\ Ends(o) /\ proc.script = "verify" /\ env' = env /\ receipt' = receipt
        /\ contracts' = contracts
    BY <1>9, <2>1 DEF Verdict, ReaderEnds, files
  <2>3. proc'.script = None /\ proc'.outcome = o
    BY <2>2, EndsFields, ScriptsAssumption DEF Outcome
  <2>4. receipt # None /\ proc.token = receipt.token /\ receipt.token \in Nat
        /\ contracts.forgotten \in Nat
    BY <1>0, <2>2, ScriptsAssumption, ForgottenGrows DEF Sealed, Start
  <2>5. ~Replayable => receipt.token <= contracts.forgotten
    BY <2>4 DEF Replayable
  <2>6. ~Discloses => \/ receipt.key # 0 /\ receipt.at < history.torn
                      \/ receipt.key = 0 /\ env["verifier"] # 0
    BY <2>2, <2>4 DEF Discloses, Sealed
  <2>7. ReceiptOpens'
    BY <1>3, <2>1, <2>2, <2>3, <2>5, <2>6 DEF ReceiptOpens
  <2> QED
    BY <1>4, <2>2, <2>3, <2>7, ScriptsAssumption DEF Sealed
<1>10. ASSUME AuditConcludes \/ VisibilityConcludes \/ NoReceipt PROVE Sealed'
  <2>1. PICK o \in Outcome : Ends(o) /\ o # "rejected" /\ receipt' = receipt
    BY <1>10
    DEF AuditConcludes, Audited, VisibilityConcludes, NoReceipt, ReaderEnds, files,
        Outcome
  <2>2. proc.script # None
    BY <1>10, ScriptsAssumption DEF AuditConcludes, VisibilityConcludes, NoReceipt
  <2> QED
    BY <1>5, <2>1, <2>2, EndsFields, ScriptsAssumption
<1>11. ASSUME receipt' \in {receipt, None},
              \/ proc'.script \in {"deploy", "flow"}
              \/ proc'.script = None /\ proc'.pc \in {"deploy", "flow"}
              \/ proc'.script = None /\ proc'.outcome \in {"failed", "crashed"}
       PROVE  Sealed'
  <2>1. proc'.script \in {"deploy", "flow"} => proc'.pc # "verify"
    BY <1>1 DEF Placed, DeployPc, FlowPc, EarlyPc, LastPc
  <2> QED
    BY <1>5, <1>11, <2>1, ScriptsAssumption
<1>12. ASSUME ReceiptTorn PROVE Sealed'
  <2>1. proc'.script = None /\ proc'.outcome = "crashed" /\ receipt' = None
    BY <1>12, EndsFields, ScriptsAssumption DEF ReceiptTorn, Outcome
  <2> QED
    BY <1>11, <2>1
<1> QED
  BY <1>6, <1>7, <1>8, <1>9, <1>10, <1>11, <1>12, Shapes, Frames DEF ReaderStep

\* Sealed is invariant.
LEMMA AlwaysSealed == Spec => []Sealed
<1>1. Init => Sealed
  BY InitSealed
<1>2. Typed /\ Typed' /\ Held /\ Numbered /\ Sealed /\ [Next]_vars => Sealed'
  BY SealedStep
<1> QED
  BY <1>1, <1>2, AlwaysTyped, AlwaysHeld, PTL DEF Spec

\* A receipt of the recorded token is rejected only when its event is forgotten, the
\* verifier's key that it was sealed to was lost, or it was sealed to the demo key and
\* something is under the verifier's name (make-receipt.mjs, verify-receipt.mjs).
THEOREM ReceiptsOpen == Spec => []ReceiptOpens
<1>1. Sealed => ReceiptOpens
  BY DEF Sealed
<1> QED
  BY <1>1, AlwaysSealed, PTL

-----------------------------------------------------------------------------
(* Reported                                                                 *)

\* There is no run log at the start.
LEMMA InitReported == Init => Reported
<1> SUFFICES ASSUME Init PROVE Reported
  OBVIOUS
<1>1. proc.script = None /\ runLog = None /\ flight = {}
  BY DEF Init, NoProc
<1> QED
  BY <1>1, ScriptsAssumption DEF Reported, LogTrue

\* The flow goes on.
LEMMA MovesSeen ==
    ASSUME Typed, FlowSeen, NEW p \in ProcType, NEW pc \in FlowPc, Proceed(p, pc),
           p.token = proc.token, proc.steps \subseteq p.steps, p.env = proc.env,
           history' = history, acct' = acct,
           pc \in DepositedPc => proc.pc \in DepositedPc \/ "deposit" \in p.steps,
           pc \in PaidPc => proc.pc \in PaidPc \/ ("transfer" \in p.steps
                            /\ proc.pc = "transfer" /\ proc.sent = "ok"),
           pc \in LastPc => proc.pc \in LastPc
                            \/ (proc.pc = "mergeGoal" /\ proc.sent = "ok")
    PROVE  FlowSeen'
<1>1. /\ proc'.pc = pc /\ proc'.sent = "no" /\ proc'.token = proc.token
      /\ proc'.steps = p.steps /\ proc'.env = proc.env
  BY ProceedFields DEF Pc
<1>2. /\ pc \in LastPc => /\ Harvested(proc.token)
                          /\ acct[proc.token]["goal"].spend > 0
      /\ pc = "mergeGoal" => pc \notin LastPc
  BY DEF FlowSeen, LastPc
<1>3. pc \in PaidPc => Received(proc.token) > 0
  BY DEF FlowSeen
<1> QED
  BY <1>1, <1>2, <1>3 DEF FlowSeen, Received, Harvested

\* What a flow has seen of the chain stays true while it runs.
LEMMA FlowSeenStep ==
    ASSUME Typed, Submitting, Reported, FlowStart \/ FlowStep \/ FlowTryFails
    PROVE  proc'.script = "flow" => FlowSeen'
<1> USE DEF AtFlow, Running
<1>0. /\ proc \in ProcType /\ NoProc \in ProcType
      /\ proc.script = "flow" => proc.token \in Start /\ FlowSeen /\ Flowing
      /\ acct \in [Start -> [Person -> AccountType]]
  BY NoProcTyped DEF Typed, Placed, Reported, Submitting
<1>1. CASE FlowStart
  <2> DEFINE e == Ensure(env, Person)
  <2>1. /\ proc'.pc = "fund" /\ history'.outdated /\ proc'.env = e
    <3>1. e \in [Secret -> Nat]
      BY EnsureTyped DEF Typed
    <3> QED
      BY <1>0, <1>1, <3>1 DEF FlowStart, ProcType, Typed
  <2>2. e["goal"] # 0
    BY DEF Ensure, Person, Secret, Typed
  <2> HIDE DEF e
  <2> QED
    BY <2>1, <2>2 DEF FlowSeen, DepositedPc, PaidPc, LastPc
<1>2. CASE FlowCall
  <2>1. PICK pc \in {"fund", "keys", "syncGoal"} : AtFlow(pc) /\ Proceed(proc, Next1[pc])
    BY <1>2 DEF FlowCall
  <2>2. Next1[pc] = IF pc = "fund" THEN "keys" ELSE IF pc = "keys" THEN "askMarta"
                    ELSE "mergeGoal"
    BY DEF Next1
  <2> QED
    BY <1>0, <1>2, <2>1, <2>2, MovesSeen
    DEF FlowCall, network, FlowPc, EarlyPc, DepositedPc, PaidPc, LastPc
<1>3. ASSUME NEW who \in Person, Asked(who) PROVE FlowSeen'
  <2>1. PICK pc \in {"regMarta", "regGoal", "askGoal", "deposit"} : Proceed(proc, pc)
    BY <1>3 DEF Asked, Person
  <2> QED
    BY <1>0, <1>3, <2>1, MovesSeen
    DEF Asked, network, FlowPc, EarlyPc, DepositedPc, PaidPc, LastPc
<1>4. ASSUME NEW pc \in DOMAIN Submitted, Submit(pc) PROVE FlowSeen'
  <2>1. /\ proc'.pc = proc.pc /\ proc'.token = proc.token /\ proc'.steps = proc.steps
        /\ proc'.sent = "waiting" /\ proc'.env = proc.env
    BY <1>0, <1>4 DEF Submit, ProcType
  <2> QED
    BY <1>0, <1>4, <2>1 DEF Submit, FlowSeen, Received, Harvested
<1>5. ASSUME NEW pc \in DOMAIN Submitted, Confirm(pc) PROVE FlowSeen'
  <2> DEFINE p == [proc EXCEPT !.steps = @ \union {pc}]
             nx == Next1[pc]
  <2>1. /\ proc.script = "flow" /\ proc.pc = pc /\ proc.sent = "ok" /\ pc \in SubmitPc
        /\ acct' = acct /\ history' = history /\ Proceed(p, nx)
    BY <1>5, NextPlace DEF Confirm, network
  <2>2. /\ p \in ProcType /\ p.token = proc.token /\ p.steps = proc.steps \union {pc}
        /\ p.env = proc.env
    BY <1>0, <2>1, NextPlace DEF ProcType
  <2> HIDE DEF p
  <2>3. /\ nx \in FlowPc
        /\ nx \in DepositedPc => pc \in DepositedPc \/ pc = "deposit"
        /\ nx \in PaidPc => pc \in PaidPc \/ pc = "transfer"
        /\ nx \in LastPc => pc = "mergeGoal"
    BY <2>1 DEF Next1, SubmitPc, FlowPc, EarlyPc, DepositedPc, PaidPc, LastPc
  <2> HIDE DEF nx
  <2> QED
    BY <1>0, <2>1, <2>2, <2>3, MovesSeen
<1>6. ASSUME NEW who \in Person, Synced(who) PROVE FlowSeen'
  <2>1. PICK pc \in {"syncMarta", "lastMarta", "lastGoal"} :
          /\ AtFlow(pc)
          /\ \E a \in Replayed(who) : Proceed([proc EXCEPT ![who] = a], Next1[pc])
    BY <1>6 DEF Synced
  <2>a. PICK a \in Replayed(who) : Proceed([proc EXCEPT ![who] = a], Next1[pc])
    BY <2>1
  <2> DEFINE p == [proc EXCEPT ![who] = a]
  <2>2. a \in AccountType
    BY <1>0, <2>1, NoProcTyped DEF Replayed
  <2>3. /\ p \in ProcType /\ p.token = proc.token /\ p.steps = proc.steps
        /\ p.env = proc.env
    BY <1>0, <2>2 DEF ProcType, Person
  <2>4. Proceed(p, Next1[pc])
    BY <2>a
  <2> HIDE DEF p
  <2>5. Next1[pc] = IF pc = "syncMarta" THEN "transfer"
                    ELSE IF pc = "lastMarta" THEN "lastGoal" ELSE "verifyMarta"
    BY DEF Next1
  <2> QED
    BY <1>0, <1>6, <2>1, <2>3, <2>4, <2>5, MovesSeen
    DEF Synced, network, FlowPc, DepositedPc, PaidPc, LastPc
<1>7. ASSUME NEW who \in Person, Verified(who) PROVE FlowSeen'
  <2>1. PICK pc \in {"verifyMarta", "verifyGoal"} :
          /\ AtFlow(pc)
          /\ Proceed([proc EXCEPT !.differs = Differing(who)], Next1[pc])
    BY <1>7 DEF Verified
  <2> DEFINE b == Differing(who)
             p == [proc EXCEPT !.differs = b]
  <2>2. b \in SUBSET Person
    BY <1>0 DEF Differing, ProcType
  <2> HIDE DEF b
  <2>3. /\ p \in ProcType /\ p.token = proc.token /\ p.steps = proc.steps
        /\ p.env = proc.env
    BY <1>0, <2>2 DEF ProcType
  <2>4. Proceed(p, Next1[pc])
    BY <2>1 DEF b
  <2> HIDE DEF p
  <2>5. Next1[pc] \in {"verifyGoal", "log"}
    BY DEF Next1
  <2> QED
    BY <1>0, <1>7, <2>1, <2>3, <2>4, <2>5, MovesSeen
    DEF Verified, network, FlowPc, DepositedPc, PaidPc, LastPc
<1>8. CASE LogWritten
  <2>1. PICK o \in Outcome : Ends(o)
    BY <1>8 DEF LogWritten, Outcome
  <2> QED
    BY <1>8, <2>1, EndsFields, ScriptsAssumption DEF LogWritten
<1>9. CASE FlowTryFails
  <2>1. proc.script = "flow" /\ acct' = acct /\ history' = history /\ Again(Tries)
    BY <1>9 DEF FlowTryFails
  <2>2. CASE Ends("failed")
    BY <2>1, <2>2, EndsFields, ScriptsAssumption DEF Outcome
  <2>3. CASE ~Ends("failed")
    <3>1. /\ proc'.pc = proc.pc /\ proc'.sent = "no" /\ proc'.token = proc.token
          /\ proc'.steps = proc.steps /\ proc'.env = proc.env
      BY <2>1, <2>3, AgainFields, ScriptsAssumption
    <3> QED
      BY <1>0, <2>1, <3>1 DEF FlowSeen, Received, Harvested
  <2> QED
    BY <2>2, <2>3
<1> QED
  BY <1>1, <1>2, <1>3, <1>4, <1>5, <1>6, <1>7, <1>8, <1>9 DEF FlowStep

\* A landing, while a flow runs.
LEMMA LandSeen ==
    ASSUME Typed, Submitting, FlowSeen, proc.script = "flow",
           NEW t \in flight, Land(t), [Next]_vars
    PROVE  FlowSeen'
<1>0. /\ Flowing /\ proc.token \in Start /\ t \in TxType /\ proc \in ProcType
      /\ proc.pc \notin LastPc
  BY DEF Submitting, Typed, Placed, Flowing
<1>1. /\ proc'.pc = proc.pc /\ proc'.token = proc.token /\ proc'.steps = proc.steps
      /\ history' = history /\ proc'.env = proc.env
  <2>1. PICK sent, paid : proc' = [proc EXCEPT !.sent = sent, !.paid = paid]
    BY LandTyped
  <2> QED
    BY <1>0, <2>1 DEF Land, ProcType
<1>2. proc'.sent = "ok" => proc.sent = "ok" \/ (t.by = "mine" /\ Valid(t))
  BY <1>0 DEF Land, ProcType, TxType
<1>3. t.by = "mine" => t.token = proc.token /\ t.src = Source(proc.pc)
                       /\ (proc.pc = "transfer" => t.kind = "transfer")
                       /\ (proc.pc = "mergeGoal" => t.kind = "merge")
  BY <1>0 DEF Flowing
<1>4. proc.pc = "mergeGoal" /\ proc.sent = "ok" => FALSE
  <2> SUFFICES ASSUME proc.pc = "mergeGoal", proc.sent = "ok" PROVE FALSE
    OBVIOUS
  <2>1. t.src # "marta" /\ t.src # "goal"
    BY <1>0 DEF Flowing, Source
  <2> QED
    BY <1>0, <2>1 DEF TxType, Person
<1>5. /\ Received(proc.token) \in Nat
      /\ Received(proc.token)
         <= acct'[proc.token]["goal"].spend + acct'[proc.token]["goal"].recv
  <2>1. ~SecretsTorn
    BY <1>0, ScriptsAssumption DEF SecretsTorn, AtDeploy, Running
  <2> QED
    BY <1>0, <2>1, ReceivedGrows
<1>6. acct'[proc.token]["goal"].spend + acct'[proc.token]["goal"].recv \in Nat
  <2>1. acct' \in [Start -> [Person -> AccountType]]
    BY AfterTyped DEF Land, Typed
  <2> QED
    BY <1>0, <2>1 DEF AccountType, Person
<1>7. proc.pc \in PaidPc \/ (proc.pc = "transfer" /\ proc'.sent = "ok") =>
         acct'[proc.token]["goal"].spend + acct'[proc.token]["goal"].recv > 0
  <2>1. CASE proc.pc \in PaidPc \/ (proc.pc = "transfer" /\ proc.sent = "ok")
    BY <1>5, <1>6, <2>1 DEF FlowSeen
  <2>2. CASE proc.pc = "transfer" /\ proc'.sent = "ok" /\ proc.sent # "ok"
    <3>1. Valid(t) /\ t.kind = "transfer" /\ t.token = proc.token /\ acct' = After(t)
      BY <1>2, <1>3, <2>2 DEF Land
    <3> QED
      BY <3>1, GoalAfter
  <2> QED
    BY <2>1, <2>2
<1>8. proc.pc = "mergeGoal" /\ proc'.sent = "ok" =>
         /\ acct'[proc.token]["goal"].recv <= acct'[proc.token]["goal"].gift
         /\ acct'[proc.token]["goal"].spend > 0
  <2> SUFFICES ASSUME proc.pc = "mergeGoal", proc'.sent = "ok"
               PROVE  /\ acct'[proc.token]["goal"].recv <= acct'[proc.token]["goal"].gift
                      /\ acct'[proc.token]["goal"].spend > 0
    OBVIOUS
  <2>1. Valid(t) /\ t.kind = "merge" /\ t.token = proc.token /\ acct' = After(t)
        /\ t.src = "goal"
    BY <1>2, <1>3, <1>4 DEF Land, Source
  <2>2. acct'[proc.token]["goal"].recv = 0
    BY <2>1, GoalAfter
  <2>3. acct'[proc.token]["goal"] \in AccountType
    BY <1>0, AfterTyped DEF Land, Typed, Person
  <2>4. acct'[proc.token]["goal"].spend \in Nat /\ acct'[proc.token]["goal"].gift \in Nat
    BY <2>3 DEF AccountType
  <2>5. "mergeGoal" \in PaidPc
    BY DEF PaidPc
  <2> QED
    BY <1>7, <2>2, <2>4, <2>5
<1> QED
  BY <1>0, <1>1, <1>7, <1>8 DEF FlowSeen, Received, Harvested

\* A contribution of the app's, while a flow runs.
LEMMA GiftSeen ==
    ASSUME Typed, FlowSeen, proc.script = "flow", Contribute, [Next]_vars
    PROVE  FlowSeen'
<1>1. proc.token \in Start /\ proc' = proc /\ history'.outdated = history.outdated
  BY DEF Typed, Placed, Contribute
<1> DEFINE a == acct[proc.token]["goal"]
           b == acct'[proc.token]["goal"]
<1>2. a \in AccountType
  BY <1>1 DEF Typed, Person
<1>3. /\ a.gift \in Nat /\ b.gift \in Nat /\ a.recv \in Nat /\ b.recv \in Nat
      /\ b = a \/ a.gift < b.gift
      /\ b.spend = a.spend /\ b.recv - b.gift = a.recv - a.gift
  BY <1>1, GivenWhat
<1>4. a.spend \in Nat
  BY <1>2 DEF AccountType
<1> HIDE DEF a, b
<1>5. /\ a.spend + a.recv > 0 => b.spend + b.recv > 0
      /\ a.recv <= a.gift => b.recv <= b.gift
  BY <1>3, <1>4
<1> USE DEF a, b
<1>6. /\ Received(proc.token) > 0 =>
            acct'[proc.token]["goal"].spend + acct'[proc.token]["goal"].recv > 0
      /\ Harvested(proc.token) =>
            acct'[proc.token]["goal"].recv <= acct'[proc.token]["goal"].gift
      /\ acct'[proc.token]["goal"].spend = acct[proc.token]["goal"].spend
  BY <1>3, <1>5 DEF Received, Harvested
<1> QED
  BY <1>1, <1>6 DEF FlowSeen, Received, Harvested

\* The other scripts start no flow.
LEMMA ElseWho ==
    ASSUME Typed,
           \/ DeployStart \/ DeployStep \/ DeployTryFails
           \/ ReaderStarts \/ ReaderStep \/ ReaderTryFails
    PROVE  proc'.script # "flow"
<1> USE DEF AtDeploy, Running
<1>0. proc \in ProcType /\ NoProc \in ProcType
  BY NoProcTyped DEF Typed
<1>1. ASSUME NEW limit \in Nat, Again(limit), proc.script \notin {None, "flow"}
      PROVE  proc'.script # "flow"
  BY <1>1, AgainEcho, ScriptsAssumption
<1>2. CASE DeployStart
  BY <1>0, <1>2 DEF DeployStart, ProcType
<1>3. CASE \/ Funded \/ VerifierDeployed \/ AuditorDeployed \/ LedgerRead
           \/ TokenDeployed
           \/ \E id \in {0, 1} : AuditorKeyChosen(id)
  BY <1>0, <1>3
  DEF Funded, VerifierDeployed, AuditorDeployed, LedgerRead, TokenDeployed,
      AuditorKeyChosen, Proceed, ProcType
<1>4. ASSUME NEW answered \in BOOLEAN, VkRegistered(answered)
      PROVE  proc'.script # "flow"
  <2>1. CASE answered
    BY <1>0, <1>4, <2>1 DEF VkRegistered, Proceed, ProcType
  <2>2. CASE ~answered
    BY <1>1, <1>4, <2>2, ScriptsAssumption DEF VkRegistered
  <2> QED
    BY <2>1, <2>2
<1>5. ASSUME NEW id \in {0, 1}, NEW answered \in BOOLEAN,
             AuditorKeyRegistered(id, answered)
      PROVE  proc'.script # "flow"
  <2>1. CASE answered
    BY <1>0, <1>5, <2>1 DEF AuditorKeyRegistered, Proceed, ProcType
  <2>2. CASE ~answered
    BY <1>1, <1>5, <2>2, ScriptsAssumption DEF AuditorKeyRegistered
  <2> QED
    BY <2>1, <2>2
<1>6. CASE RecordSaved
  BY <1>6, EndsFields, ScriptsAssumption DEF RecordSaved, Outcome
<1>7. CASE DeployTryFails
  BY <1>1, <1>7, ScriptsAssumption DEF DeployTryFails
<1>8. CASE ReaderStarts
  BY <1>0, <1>8
  DEF ReaderStarts, AuditStart, VisibilityStart, MakeStart, VerifyStart,
      ReaderStart, ProcType
<1>9. CASE ReaderStep
  <2>1. PICK o \in Outcome : Ends(o)
    BY <1>9
    DEF ReaderStep, AuditConcludes, Audited, VisibilityConcludes, ReceiptMade, NoReceipt,
        Verdict, ReaderEnds, Outcome
  <2>2. proc.script # None
    BY <1>9, ScriptsAssumption
    DEF ReaderStep, AuditConcludes, VisibilityConcludes, ReceiptMade, NoReceipt, Verdict
  <2> QED
    BY <2>1, <2>2, EndsFields, ScriptsAssumption
<1>10. CASE ReaderTryFails
  <2>1. PICK limit \in Nat : Again(limit)
    BY <1>10, ScriptsAssumption DEF ReaderTryFails
  <2>2. proc.script \notin {None, "flow"}
    BY <1>10, ScriptsAssumption DEF ReaderTryFails
  <2> QED
    BY <1>1, <2>1, <2>2
<1> QED
  BY <1>2, <1>3, <1>4, <1>5, <1>6, <1>7, <1>8, <1>9, <1>10 DEF DeployStep

\* Only a flow submits.
LEMMA QuietFlight ==
    ASSUME [Next]_vars, flight = {}
    PROVE  flight' = {} \/ proc.script = "flow"
<1>1. Left = {} /\ Abandoned = {}
  BY DEF Left, Abandoned
<1>2. CASE DeployStart \/ DeployStep \/ DeployTryFails
  BY <1>1, <1>2
  DEF DeployStart, DeployStep, DeployTryFails, Funded, VerifierDeployed,
      AuditorDeployed, LedgerRead, TokenDeployed, VkRegistered, AuditorKeyChosen,
      AuditorKeyRegistered, RecordSaved, network, Again, Ends
<1>3. CASE FlowStart \/ FlowStep \/ FlowTryFails
  BY <1>3
  DEF FlowStart, FlowStep, FlowTryFails, FlowCall, Asked, Submit, Confirm,
      Synced, Verified, LogWritten, network, AtFlow, Running
<1>4. CASE ReaderStarts \/ ReaderStep \/ ReaderTryFails
  BY <1>1, <1>4
  DEF ReaderStarts, ReaderStep, ReaderTryFails, AuditStart, VisibilityStart,
      MakeStart, VerifyStart, ReaderStart, AuditConcludes, VisibilityConcludes,
      ReceiptMade, NoReceipt, Verdict, ReaderEnds, network, Again, Ends
<1>5. CASE Crash \/ Torn \/ Chain \/ VerifierKeyAdded \/ Contribute \/ Forget
           \/ UNCHANGED vars
  BY <1>1, <1>5
  DEF Crash, Torn, SecretsTorn, RecordTorn, LogTorn, ReceiptTorn, Chain, Land, Expire,
      VerifierKeyAdded, Contribute, Forget, vars, network, Ends
<1> QED
  BY <1>2, <1>3, <1>4, <1>5 DEF Next, Step, TryFails

\* The log is written from what the flow has seen, and later steps leave that true.
LEMMA ReportedStep ==
    Typed /\ Typed' /\ Held /\ Submitting /\ Reported /\ [Next]_vars => Reported'
<1> SUFFICES ASSUME Typed, Typed', Held, Submitting, Reported, [Next]_vars PROVE Reported'
  OBVIOUS
<1>1. proc'.script = "flow" => FlowSeen'
  <2>1. CASE FlowStart \/ FlowStep \/ FlowTryFails
    BY <2>1, FlowSeenStep
  <2>2. ASSUME NEW t \in flight, Land(t), proc'.script = "flow" PROVE FlowSeen'
    <3>1. proc.script = "flow"
      BY <2>2, LandTyped DEF Typed, ProcType
    <3> QED
      BY <2>2, <3>1, LandSeen DEF Reported
  <2>3. CASE VerifierKeyAdded \/ Forget \/ (\E t \in flight : Expire(t))
             \/ UNCHANGED vars
    <3>1. UNCHANGED <<proc, acct, history>>
      BY <2>3 DEF VerifierKeyAdded, Forget, Expire, vars, network
    <3> QED
      BY <3>1 DEF Reported, FlowSeen, Received, Harvested
  <2>6. CASE Contribute
    <3>1. proc' = proc
      BY <2>6 DEF Contribute
    <3> QED
      BY <2>6, <3>1, GiftSeen DEF Reported
  <2>4. CASE Crash \/ Torn
    <3>1. CASE SecretsTorn
      BY <3>1, NoProcTyped, ScriptsAssumption DEF SecretsTorn, ProcType, NoProc
    <3>2. CASE Crash \/ RecordTorn \/ LogTorn \/ ReceiptTorn
      BY <3>2, EndsFields, ScriptsAssumption
      DEF Crash, RecordTorn, LogTorn, ReceiptTorn, AtDeploy, AtFlow, Running, Outcome
    <3> QED
      BY <2>4, <3>1, <3>2 DEF Torn
  <2>5. CASE DeployStart \/ DeployStep \/ DeployTryFails
             \/ ReaderStarts \/ ReaderStep \/ ReaderTryFails
    <3>1. proc'.script # "flow"
      BY <2>5, ElseWho
    <3> QED
      BY <3>1
  <2> QED
    BY <2>1, <2>2, <2>3, <2>4, <2>5, <2>6 DEF Next, Step, TryFails, Chain
<1>2. LogTrue'
  <2>0. history.outdated \in BOOLEAN /\ history'.outdated \in BOOLEAN
    BY DEF Typed
  <2>1. CASE LogWritten
    <3>1. proc.script = "flow" /\ proc.pc = "log" /\ Flowing /\ FlowSeen
          /\ proc.token \in Start
      BY <2>1 DEF LogWritten, AtFlow, Running, Submitting, Reported, Typed, Placed
    <3>2. "log" \in LastPc \ {"lastMarta", "lastGoal"} /\ "log" \in PaidPc
          /\ "log" \in DepositedPc
      BY DEF LastPc, PaidPc, DepositedPc
    <3>3. /\ flight = {} /\ Harvested(proc.token)
          /\ acct[proc.token]["goal"].spend > 0
          /\ contracts.forgotten < proc.token =>
                Since(proc.goal, acct[proc.token]["goal"])
      BY <3>1, <3>2 DEF Flowing, Compared, FlowSeen
    <3>4. flight' = {} /\ acct' = acct /\ contracts' = contracts /\ env' = env
      BY <2>1, <3>3 DEF LogWritten, Ends, Left
    <3>5. runLog' = [token |-> proc.token, account |-> proc.env["goal"],
                     goal |-> proc.goal.spend, steps |-> proc.steps]
      BY <2>1 DEF LogWritten
    <3>6. /\ {"deposit", "transfer"} \subseteq proc.steps
          /\ proc.env["goal"] = env["goal"] /\ proc.env["goal"] # 0
      BY <3>1, <3>2 DEF FlowSeen, Held, Secret
    <3>7. /\ runLog'.token = proc.token /\ runLog'.account = proc.env["goal"]
          /\ runLog'.goal = proc.goal.spend /\ runLog'.steps = proc.steps
      BY <3>5
    <3> QED
      BY <3>3, <3>4, <3>6, <3>7 DEF LogTrue, Since, Harvested
  <2>2. CASE history'.outdated
    BY <2>2 DEF LogTrue
  <2>3. CASE ~LogWritten /\ ~history'.outdated
    <3>1. ~FlowStart /\ ~SecretsTorn
      BY <2>3 DEF FlowStart, SecretsTorn, Typed
    <3>2. ~history.outdated
      BY <2>0, <2>3, <3>1, Frames
    <3>3. proc.script # "flow" /\ flight = {}
      BY <3>2 DEF Reported, FlowSeen, LogTrue
    <3>4. flight' = {} /\ (acct' = acct \/ Contribute)
      BY <3>1, <3>3, QuietFlight, Frames
    <3>5. runLog' = runLog \/ runLog' = None
      BY <2>3, Frames DEF LogTorn
    <3>6. CASE runLog' = None
      BY <3>4, <3>6 DEF LogTrue
    <3>7. CASE runLog' = runLog /\ runLog # None
      <4>1. /\ runLog.account = env["goal"] /\ runLog.account # 0
            /\ {"deposit", "transfer"} \subseteq runLog.steps
            /\ runLog.token \in Start
        BY <3>2, <3>7 DEF Reported, LogTrue, Typed
      <4>2. env'["goal"] = env["goal"]
        BY <3>1, <4>1, KeptStep DEF Secret
      <4>3. ASSUME contracts'.forgotten < runLog.token
            PROVE  /\ runLog.goal > 0
                   /\ acct'[runLog.token]["goal"].recv <= acct'[runLog.token]["goal"].gift
                   /\ acct'[runLog.token]["goal"].spend = runLog.goal
        <5>1. runLog.token \in Nat
          BY <4>1, ScriptsAssumption DEF Start
        <5>2. contracts.forgotten < runLog.token
          BY <4>3, <5>1, ForgottenGrows
        <5>3. /\ runLog.goal > 0 /\ Harvested(runLog.token)
              /\ acct[runLog.token]["goal"].spend = runLog.goal
          BY <3>2, <3>7, <5>2 DEF Reported, LogTrue
        <5>4. CASE acct' = acct
          BY <5>3, <5>4 DEF Harvested
        <5>5. CASE Contribute
          <6> DEFINE a == acct[runLog.token]["goal"]
                     b == acct'[runLog.token]["goal"]
          <6>1. /\ a.gift \in Nat /\ b.gift \in Nat /\ a.recv \in Nat /\ b.recv \in Nat
                /\ b.spend = a.spend /\ b.recv - b.gift = a.recv - a.gift
            BY <4>1, <5>5, GivenWhat
          <6>2. a.recv <= a.gift
            BY <5>3 DEF Harvested
          <6> HIDE DEF a, b
          <6>3. b.recv <= b.gift
            BY <6>1, <6>2
          <6> USE DEF a, b
          <6> QED
            BY <5>3, <6>1, <6>3
        <5> QED
          BY <3>4, <5>4, <5>5
      <4> QED
        BY <3>4, <3>7, <4>1, <4>2, <4>3 DEF LogTrue, Harvested
    <3> QED
      BY <3>5, <3>6, <3>7
  <2> QED
    BY <2>1, <2>2, <2>3
<1> QED
  BY <1>1, <1>2 DEF Reported

\* Reported is invariant.
LEMMA AlwaysReported == Spec => []Reported
<1>1. Init => Reported
  BY InitReported
<1>2. Typed /\ Typed' /\ Held /\ Submitting /\ Reported /\ [Next]_vars => Reported'
  BY ReportedStep
<1> QED
  BY <1>1, <1>2, AlwaysTyped, AlwaysHeld, AlwaysSubmitting, PTL DEF Spec

-----------------------------------------------------------------------------
(* Reading                                                                  *)

\* Nobody reads at the start.
LEMMA InitReading == Init => Reading
<1> SUFFICES ASSUME Init PROVE Reading
  OBVIOUS
<1>1. proc.script = None /\ proc.pc = ""
  BY DEF Init, NoProc
<1> QED
  BY <1>1, ScriptsAssumption DEF Reading, Disagrees, ReadersAgree

\* The two channels open with the keys of the record's token.
LEMMA ChannelsOpen ==
    ASSUME Typed, Held, Numbered, Deployed, Reading, proc.script = "audit",
           history.torn < record.token
    PROVE  Opens("goalView", 1) /\ Opens("auditor0", 0)
<1>1. record # None /\ proc.token = record.token /\ record.token \in Start
  BY DEF Reading, Typed
<1>2. AuditorOf[0] = "auditor0" /\ AuditorOf[1] = "goalView"
  BY DEF AuditorOf, AuditorSecret
<1>3. \A id \in {0, 1} : contracts.keys[record.token][id] # 0
  BY <1>1 DEF Deployed, RecordReady
<1>4. \A id \in {0, 1} : contracts.keys[record.token][id] = env[AuditorOf[id]]
  BY <1>1, <1>3 DEF Held, KeysHeld, OnFile, Numbered
<1> QED
  BY <1>1, <1>2, <1>4 DEF Reading, Opens

\* What a reader has loaded stays in the files: one script runs at a time.
LEMMA ReadingStep ==
    /\ Typed /\ Typed' /\ Held /\ Numbered /\ Deployed /\ Reported /\ Reading
    /\ [Next]_vars
    => Reading'
<1> SUFFICES ASSUME Typed, Typed', Held, Numbered, Deployed, Reported, Reading,
                    [Next]_vars
             PROVE  Reading'
  OBVIOUS
<1> USE DEF Running
<1>0. /\ proc \in ProcType /\ NoProc \in ProcType
      /\ \A id \in {0, 1} : AuditorOf[id] \in Secret
  BY NoProcTyped DEF Typed, AuditorOf, AuditorSecret, Secret
<1>1. proc' \in ProcType /\ Placed'
  BY DEF Typed
<1>2. ASSUME proc'.script \notin {"audit", "visibility"},
             \/ proc'.pc \notin {"audit", "visibility"}
             \/ proc'.outcome \notin {"mismatch", "no_transfer", "no_step"}
      PROVE  Reading'
  BY <1>2 DEF Reading, Disagrees, ReadersAgree
<1>3. ASSUME Stays PROVE Reading'
  <2>1. CASE FlowStart \/ LogWritten \/ LogTorn \/ RecordSaved \/ RecordTorn \/ SecretsTorn
    <3>1. proc'.script \notin {"audit", "visibility"}
          /\ proc'.pc \notin {"audit", "visibility"}
      <4>1. CASE FlowStart
        BY <1>0, <4>1 DEF FlowStart, ProcType
      <4>2. CASE LogWritten \/ LogTorn
        <5>1. PICK o \in Outcome : Ends(o)
          BY <4>2 DEF LogWritten, LogTorn, Outcome
        <5> QED
          BY <4>2, <5>1, EndsFields, ScriptsAssumption DEF LogWritten, LogTorn, AtFlow
      <4>3. CASE RecordSaved \/ RecordTorn
        BY <4>3, EndsFields, ScriptsAssumption
        DEF RecordSaved, RecordTorn, AtDeploy, Outcome
      <4>4. CASE SecretsTorn
        <5>1. NoProc.script = None /\ NoProc.pc \notin {"audit", "visibility"}
          BY Zenon DEF NoProc
        <5> QED
          BY <1>0, <4>4, <5>1, ScriptsAssumption DEF SecretsTorn, ProcType
      <4> QED
        BY <2>1, <4>1, <4>2, <4>3, <4>4
    <3> QED
      BY <1>2, <3>1
  <2>2. CASE ~(\/ FlowStart \/ LogWritten \/ LogTorn \/ RecordSaved \/ RecordTorn
               \/ SecretsTorn)
    <3>1. /\ record' = record /\ runLog' = runLog
          /\ history'.outdated = history.outdated /\ history'.torn = history.torn
          /\ acct' = acct \/ Contribute \/ \E t \in flight : Land(t)
      BY <2>2, Frames
    <3>2. \A id \in {0, 1} :
             env[AuditorOf[id]] # 0 => env'[AuditorOf[id]] = env[AuditorOf[id]]
      BY <1>0, <2>2, KeptStep
    <3>3. ReadersAgree'
      <4> SUFFICES ASSUME proc.pc \in {"audit", "visibility"},
                          proc.outcome \in {"mismatch", "no_transfer", "no_step"},
                          record.token = runLog.token, ~history.outdated,
                          ~(record.token <= history.torn),
                          ~(record.token <= contracts'.forgotten)
                   PROVE  acct'[record.token]["goal"].gift # 0
        BY <1>3, <3>1 DEF ReadersAgree, Stays
      <4>0. record # None
        BY DEF Reading, Disagrees
      <4>1. record.token \in Start /\ flight = {}
        <5>1. record.token \in Start
          BY <4>0 DEF Typed
        <5>2. flight = {}
          BY DEF Reported, LogTrue
        <5> QED
          BY <5>1, <5>2
      <4>2. record.token \in Nat
        BY <4>1, ScriptsAssumption DEF Start
      <4>3. ~(record.token <= contracts.forgotten)
        BY <4>2, ForgottenGrows
      <4>4. acct[record.token]["goal"].gift # 0
        BY <4>3 DEF Reading, Disagrees, ReadersAgree
      <4>5. CASE Contribute
        <5> DEFINE a == acct[record.token]["goal"]
                   b == acct'[record.token]["goal"]
        <5>1. /\ a.gift \in Nat /\ b.gift \in Nat
              /\ b = a \/ a.gift < b.gift
          BY <4>1, <4>5, GivenWhat DEF a, b
        <5> HIDE DEF a, b
        <5>2. a.gift # 0 => b.gift # 0
          BY <5>1
        <5> QED
          BY <4>4, <5>2 DEF a, b
      <4> QED
        BY <3>1, <4>1, <4>4, <4>5
    <3> QED
      BY <1>3, <3>1, <3>2, <3>3 DEF Reading, Disagrees, Stays
  <2> QED
    BY <2>1, <2>2
<1>4. ASSUME ReaderStarts PROVE Reading'
  <2>1. env' = env /\ record' = record /\ runLog' = runLog
    BY <1>4
    DEF ReaderStarts, AuditStart, VisibilityStart, MakeStart, VerifyStart,
        ReaderStart, files
  <2>2. proc'.pc = "fetch"
    BY <1>0, <1>4
    DEF ReaderStarts, AuditStart, VisibilityStart, MakeStart, VerifyStart,
        ReaderStart, ProcType
  <2>3. /\ AuditStart => /\ proc'.script = "audit" /\ proc'.token = record.token
                         /\ proc'.env = env /\ record # None /\ runLog # None
                         /\ env["goalView"] # 0 /\ env["auditor0"] # 0
        /\ VisibilityStart =>
              proc'.script = "visibility" /\ record # None /\ runLog # None
        /\ MakeStart \/ VerifyStart => proc'.script \in {"make", "verify"}
    BY <1>0
    DEF AuditStart, VisibilityStart, MakeStart, VerifyStart, ReaderStart, ProcType
  <2>4. AuditorOf[0] = "auditor0" /\ AuditorOf[1] = "goalView"
    BY DEF AuditorOf, AuditorSecret
  <2>5. ReadersAgree'
    BY <2>2 DEF ReadersAgree
  <2>6. history' = history
    BY <1>4
    DEF ReaderStarts, AuditStart, VisibilityStart, MakeStart, VerifyStart, ReaderStart
  <2>7. AuditStart => (~history.outdated => env["goal"] = runLog.account)
    BY <2>3 DEF Reported, LogTrue
  <2> QED
    BY <1>4, <2>1, <2>2, <2>3, <2>4, <2>5, <2>6, <2>7 DEF ReaderStarts, Reading
<1>5. ASSUME AuditConcludes PROVE Reading'
  <2>1. PICK o \in {"no_transfer", "match", "mismatch"} :
           /\ ReaderEnds(o)
           /\ o = Audited \/ ~Replayable \/ proc.env["goal"] # runLog.account
    BY <1>5 DEF AuditConcludes, Audited
  <2>2. /\ Ends(o) /\ proc.script = "audit" /\ record' = record /\ runLog' = runLog
        /\ UNCHANGED <<history, contracts, acct>>
    BY <1>5, <2>1 DEF AuditConcludes, ReaderEnds, files
  <2>3. proc'.script = None /\ proc'.outcome = o
    BY <2>2, EndsFields, ScriptsAssumption DEF Outcome
  <2>4. /\ record # None /\ runLog # None /\ proc.token = record.token
        /\ record.token \in Nat /\ record.token \in Start
        /\ history.torn \in Nat /\ contracts.forgotten \in Nat
    <3>1. record # None /\ runLog # None /\ proc.token = record.token
      BY <2>2 DEF Reading
    <3>2. record.token \in Start /\ history.torn \in 0..MaxStarts
      BY <3>1 DEF Typed
    <3> QED
      BY <3>1, <3>2, ScriptsAssumption, ForgottenGrows DEF Start
  <2>5. ASSUME o # "match", record.token = runLog.token, ~history.outdated,
               history.torn < record.token, contracts.forgotten < record.token
        PROVE  acct[record.token]["goal"].gift # 0
    <3>1. proc.env["goal"] = runLog.account /\ Replayable
      BY <2>2, <2>4, <2>5 DEF Reading, Replayable
    <3>2. o = Audited
      BY <2>1, <3>1
    <3>3. Opens("goalView", 1) /\ Opens("auditor0", 0)
      BY <2>2, <2>5, ChannelsOpen
    <3>4. Received(proc.token) = 0 \/ Received(proc.token) # runLog.goal
      BY <2>5, <3>2, <3>3 DEF Audited, AuditMatches
    <3> DEFINE a == acct[record.token]["goal"]
    <3>5. runLog.goal > 0 /\ Harvested(record.token) /\ a.spend = runLog.goal
      BY <2>4, <2>5 DEF Reported, LogTrue
    <3>6. a \in AccountType
      BY <2>4 DEF Typed, Person
    <3>7. a.recv \in Nat /\ a.spend \in Nat /\ a.gift \in Nat
      BY <3>6 DEF AccountType
    <3>8. a.recv <= a.gift /\ Received(proc.token) = a.spend + a.recv
      BY <2>4, <3>5 DEF Harvested, Received
    <3> HIDE DEF a
    <3>9. a.gift # 0
      BY <3>4, <3>5, <3>7, <3>8
    <3> QED
      BY <3>9 DEF a
  <2>6. ReadersAgree'
    BY <2>2, <2>3, <2>4, <2>5 DEF ReadersAgree
  <2> QED
    BY <2>2, <2>3, <2>4, <2>6, ScriptsAssumption DEF Reading
<1>6. ASSUME VisibilityConcludes PROVE Reading'
  <2> DEFINE o == IF Logged THEN "match" ELSE "no_step"
  <2>1. /\ Ends(o) /\ proc.script = "visibility" /\ record' = record
        /\ runLog' = runLog /\ UNCHANGED <<history, contracts, acct>>
    BY <1>6 DEF VisibilityConcludes, ReaderEnds, files
  <2>2. proc'.script = None /\ proc'.outcome = o
    BY <2>1, EndsFields, ScriptsAssumption DEF Outcome
  <2>3. ~Logged => history.outdated
    BY <2>1 DEF Reading, Reported, LogTrue, Logged
  <2> QED
    BY <2>1, <2>2, <2>3, ScriptsAssumption DEF Reading, Disagrees, ReadersAgree
<1>7. ASSUME ReceiptMade \/ NoReceipt \/ Verdict PROVE Reading'
  <2>1. PICK o \in Outcome :
           Ends(o) /\ o \notin {"mismatch", "no_transfer", "no_step"}
    BY <1>7 DEF ReceiptMade, NoReceipt, Verdict, ReaderEnds, Outcome
  <2>2. proc.script # None
    BY <1>7, ScriptsAssumption DEF ReceiptMade, NoReceipt, Verdict
  <2> QED
    BY <1>2, <2>1, <2>2, EndsFields, ScriptsAssumption
<1>8. ASSUME \/ proc'.script \in {"deploy", "flow"}
             \/ proc'.script = None /\ proc'.pc \in {"deploy", "flow"}
             \/ proc'.script = None /\ proc'.outcome \in {"failed", "crashed"}
      PROVE  Reading'
  <2>1. proc'.script \in {"deploy", "flow"} => proc'.pc \notin {"audit", "visibility"}
    BY <1>1 DEF Placed, DeployPc, FlowPc, EarlyPc, LastPc
  <2> QED
    BY <1>2, <1>8, <2>1, ScriptsAssumption
<1> QED
  BY <1>3, <1>4, <1>5, <1>6, <1>7, <1>8, Shapes DEF ReaderStep

\* The readers disagree with the run log only when another flow has started since it
\* was written, the record is of another token or older than the secrets, its events
\* are forgotten, or the app has paid the goal since (audit.mjs, visibility.mjs).
THEOREM ReadersAlwaysAgree == Spec => []ReadersAgree
<1>1. Init => Reading
  BY InitReading
<1>2. /\ Typed /\ Typed' /\ Held /\ Numbered /\ Deployed /\ Reported /\ Reading
      /\ [Next]_vars
      => Reading'
  BY ReadingStep
<1>3. Reading => ReadersAgree
  BY DEF Reading
<1> QED
  BY <1>1, <1>2, <1>3, AlwaysTyped, AlwaysHeld, AlwaysDeployed, AlwaysReported, PTL
  DEF Spec
=============================================================================
