-------------------------- MODULE CtFilesProofs --------------------------
(***************************************************************************)
(* What the scripts promise each other, for any number of starts, tries,   *)
(* verification keys and amounts.  The inductive invariant is in layers,   *)
(* each proved with the help of the ones before it.  This module holds the *)
(* types and places of the scripts, on which the others rest, and what the *)
(* files promise: no secret is lost, none on chain is without its own on   *)
(* file, and deployment.json names a finished instance.                    *)
(*                                                                         *)
(*   Typed       here                                                      *)
(*   Held        here: every key in use is the one on file                 *)
(*   Deployed    here: how far the running deployment has come             *)
(*   Submitting  CtFlowProofs: what may be in flight where in a flow       *)
(*   Sealed      CtFlowProofs: whose key a receipt is sealed to            *)
(*   Reported    CtFlowProofs: what the run log says of the chain          *)
(*   Reading     CtFlowProofs: what a script that reads has read           *)
(***************************************************************************)
EXTENDS CtScripts, TLAPS

ScriptName == {"deploy", "flow", "audit", "visibility", "make", "verify"}
DeployPc == {"fund", "verifier", "auditor", "ledger", "token", "vk", "key0",
             "reg0", "key1", "reg1", "record"}
TokenPc == {"vk", "key0", "reg0", "key1", "reg1", "record"}
EarlyPc == {"fund", "keys", "askMarta", "regMarta", "askGoal", "regGoal",
            "deposit", "mergeMarta", "syncMarta"}
LastPc == {"lastMarta", "lastGoal", "verifyMarta", "verifyGoal", "log"}
FlowPc == EarlyPc \union {"transfer", "syncGoal", "mergeGoal"} \union LastPc
Pc == DeployPc \union FlowPc \union ScriptName \union {"", "fetch"}
Outcome == {"", "done", "failed", "crashed", "mismatch", "match", "no_transfer",
            "no_step", "refused", "verified", "rejected"}
Kind == {"register", "deposit", "merge", "transfer"}

AccountType ==
    [key : Nat, spend : Nat, recv : Nat, rev : Nat, gift : Nat, sent : Nat]

ContractsType ==
    [tokens : SUBSET Start, vks : [Start -> SUBSET Nat],
     keys : [Start -> [{0, 1} -> Nat]], forgotten : 0..MaxStarts]

TxType ==
    [src : Person, kind : Kind, arg : Nat, token : Start,
     by : {"mine", "lost", "gone"}]

ProcType ==
    [script : ScriptName \union {None}, pc : Pc, outcome : Outcome,
     tries : Nat, sent : {"no", "waiting", "ok", "refused"},
     env : [Secret -> Nat], token : {0} \union Start, before : SUBSET Start,
     vk : Nat, steps : SUBSET FlowPc, marta : AccountType, goal : AccountType,
     differs : SUBSET Person, key : Nat, paid : Nat]

\* Where the running script can be, and the token it has by then.
Placed ==
    /\ proc.script # None => starts \in Start
    /\ proc.script = None => proc.pc \in ScriptName \union {""}
    /\ proc.script = "deploy" => proc.pc \in DeployPc
    /\ proc.script = "flow" => proc.pc \in FlowPc /\ proc.token \in Start
    /\ proc.script \in ScriptName \ {"deploy", "flow"} => proc.pc = "fetch"
    /\ proc.script \in {"audit", "make", "verify"} => proc.token \in Start
    /\ proc.script = "deploy" /\ proc.pc \in TokenPc => proc.token \in Start

Typed ==
    /\ env \in [Secret -> Nat]
    /\ record \in {None} \union [token : Start, before : SUBSET Start]
    /\ runLog \in {None} \union
          [token : Start, account : Nat, goal : Nat, steps : SUBSET FlowPc]
    /\ receipt \in {None} \union [token : Start, key : Nat, at : 0..MaxStarts]
    /\ contracts \in ContractsType
    /\ acct \in [Start -> [Person -> AccountType]]
    /\ flight \subseteq TxType
    /\ \A t \in flight : t.kind \in {"deposit", "transfer"} => t.src = "marta"
    /\ proc \in ProcType
    /\ starts \in 0..MaxStarts
    /\ history \in [outdated : BOOLEAN, torn : 0..MaxStarts, gifts : Nat]
    /\ Placed

\* Who submits, of the two, at each place of a flow that submits.
Source(pc) == IF pc \in {"regGoal", "mergeGoal"} THEN "goal" ELSE "marta"
SubmitPc == {"regMarta", "regGoal", "deposit", "mergeMarta", "transfer", "mergeGoal"}

-----------------------------------------------------------------------------
(* Typed                                                                    *)

FlightTyped ==
    /\ flight \subseteq TxType
    /\ \A t \in flight : t.kind \in {"deposit", "transfer"} => t.src = "marta"

\* The locals of no script are typed.
LEMMA NoProcTyped == NoProc \in ProcType /\ NoAccount \in AccountType
  BY DEF NoProc, ProcType, NoAccount, AccountType, Pc, Outcome

\* The initial files and network are typed.
LEMMA InitTyped == Init => Typed
<1> SUFFICES ASSUME Init PROVE Typed
  OBVIOUS
<1>1. proc \in ProcType
  BY NoProcTyped DEF Init
<1>2. Placed
  BY ScriptsAssumption DEF Init, Placed, NoProc, ScriptName, AtDeploy, Running
<1>3. acct \in [Start -> [Person -> AccountType]]
  BY DEF Init, NoAccount, AccountType
<1>4. env \in [Secret -> Nat] /\ starts \in 0..MaxStarts
  BY ScriptsAssumption DEF Init
<1>5. contracts \in ContractsType
  BY ScriptsAssumption DEF Init, ContractsType
<1>6. history \in [outdated : BOOLEAN, torn : 0..MaxStarts, gifts : Nat]
  BY ScriptsAssumption DEF Init, NoHistory
<1> QED
  BY <1>1, <1>2, <1>3, <1>4, <1>5, <1>6 DEF Init, Typed

\* The end of a script, by itself or not.
LEMMA EndsTyped ==
    ASSUME Typed, NEW o \in Outcome, proc.script # None, Ends(o)
    PROVE  /\ proc' \in ProcType /\ FlightTyped'
           /\ proc'.script = None /\ proc'.pc \in ScriptName
           /\ flight' = Left
<1>1. proc' \in ProcType
  <2> DEFINE pc == proc.script
  <2>1. pc \in Pc
    BY DEF Typed, ProcType, Pc
  <2>2. proc' = [NoProc EXCEPT !.pc = pc, !.outcome = o]
    BY DEF Ends
  <2> HIDE DEF pc
  <2> QED
    BY <2>1, <2>2, NoProcTyped DEF ProcType
<1>2. FlightTyped'
  <2> SUFFICES ASSUME NEW t \in flight PROVE
            /\ [t EXCEPT !.by = "gone"] \in TxType
            /\ t.kind \in {"deposit", "transfer"} => t.src = "marta"
    BY DEF Ends, Left, FlightTyped, Typed, TxType
  <2> QED
    BY DEF Typed, TxType
<1> QED
  BY <1>1, <1>2 DEF Ends, Typed, ProcType, NoProc

\* A try that fails.
LEMMA AgainTyped ==
    ASSUME Typed, NEW limit \in Nat, proc.script # None, Again(limit)
    PROVE  /\ proc' \in ProcType /\ FlightTyped'
           /\ \/ /\ proc' = [proc EXCEPT !.tries = @ + 1, !.sent = "no"]
                 /\ flight' = Abandoned
              \/ /\ proc'.script = None /\ proc'.pc \in ScriptName
                 /\ Ends("failed") /\ flight' = Left
<1>1. CASE proc.tries < limit
  <2> DEFINE n == proc.tries + 1
  <2>1. proc' \in ProcType
    <3>1. n \in Nat /\ proc' = [proc EXCEPT !.tries = n, !.sent = "no"]
      BY <1>1 DEF Again, Typed, ProcType
    <3> HIDE DEF n
    <3> QED
      BY <3>1 DEF Typed, ProcType
  <2>2. FlightTyped'
    <3>1. ASSUME NEW t \in flight PROVE
            /\ [t EXCEPT !.by = IF t.by = "mine" THEN "lost" ELSE t.by] \in TxType
            /\ t.kind \in {"deposit", "transfer"} => t.src = "marta"
      BY DEF Typed, TxType
    <3> QED
      BY <1>1, <3>1 DEF Again, Abandoned, FlightTyped, TxType
  <2> QED
    BY <1>1, <2>1, <2>2 DEF Again
<1>2. CASE ~(proc.tries < limit)
  BY <1>2, EndsTyped DEF Again, Outcome
<1> QED
  BY <1>1, <1>2

\* A call that is answered.
LEMMA ProceedTyped ==
    ASSUME NEW p \in ProcType, NEW pc \in Pc, Proceed(p, pc)
    PROVE  proc' \in ProcType
  BY DEF Proceed, ProcType

\* ensureKeypair and ensureScalar keep the file of secrets typed.
LEMMA EnsureTyped ==
    ASSUME Typed, NEW names
    PROVE  /\ Ensure(env, names) \in [Secret -> Nat]
           /\ SaveEnv(Ensure(env, names)) = Ensure(env, names)
<1>1. Ensure(env, names) \in [Secret -> Nat]
  BY ScriptsAssumption DEF Ensure, Typed
<1> QED
  BY <1>1 DEF Ensure, SaveEnv, Typed

\* A script that starts.
LEMMA StartTyped ==
    ASSUME Typed, proc.script = None, starts < MaxStarts, starts' = starts + 1
    PROVE  starts' \in 0..MaxStarts /\ starts' \in Start
  BY ScriptsAssumption DEF Typed, Start

Rest == <<env, record, runLog, receipt, contracts, acct, flight, starts, history>>

\* A step that moves nothing but the script.
LEMMA OnlyProcTyped ==
    ASSUME Typed, UNCHANGED Rest, proc' \in ProcType, Placed'
    PROVE  Typed'
  BY DEF Typed, Rest

\* Each step of deploy keeps the types.
LEMMA DeployTyped ==
    ASSUME Typed, DeployStart \/ DeployStep \/ DeployTryFails
    PROVE  Typed'
<1> USE DEF AtDeploy, Running
<1>0. proc \in ProcType /\ Placed
  BY DEF Typed
<1>1. ASSUME DeployStart PROVE Typed'
  <2> DEFINE e == Ensure(env, {"deployer"})
  <2>1. e \in [Secret -> Nat] /\ env' = e
    BY <1>1, EnsureTyped DEF DeployStart
  <2>2. proc' = [NoProc EXCEPT !.script = "deploy", !.pc = "fund", !.env = e]
    BY <1>1 DEF DeployStart
  <2> HIDE DEF e
  <2>3. proc' \in ProcType
    BY <2>1, <2>2, NoProcTyped DEF ProcType, ScriptName, Pc, FlowPc, EarlyPc
  <2>4. starts' \in 0..MaxStarts /\ starts' \in Start
    BY <1>1, StartTyped DEF DeployStart
  <2>5. proc'.script = "deploy" /\ proc'.pc = "fund"
    BY <2>2, NoProcTyped DEF ProcType
  <2>6. Placed'
    BY <2>4, <2>5, ScriptsAssumption DEF Placed, DeployPc, TokenPc, ScriptName
  <2> QED
    BY <1>1, <2>1, <2>3, <2>4, <2>6 DEF DeployStart, Typed
<1>2. ASSUME NEW pc1 \in DeployPc, Proceed(proc, pc1), UNCHANGED Rest,
             proc.script = "deploy", pc1 \in TokenPc => proc.token \in Start
      PROVE  Typed'
  <2>1. proc' \in ProcType
    BY <1>0, <1>2, ProceedTyped DEF Pc
  <2>2. proc'.script = "deploy" /\ proc'.pc = pc1 /\ proc'.token = proc.token
    BY <1>0, <1>2 DEF Proceed, ProcType
  <2>3. Placed'
    BY <1>0, <1>2, <2>2, ScriptsAssumption DEF Placed, ScriptName, Rest
  <2> QED
    BY <1>2, <2>1, <2>3, OnlyProcTyped
<1>3. ASSUME Funded \/ VerifierDeployed \/ AuditorDeployed PROVE Typed'
  BY <1>2, <1>3
  DEF Funded, VerifierDeployed, AuditorDeployed, DeployPc, TokenPc, files, network, Rest
<1>4. ASSUME LedgerRead PROVE Typed'
  <2> DEFINE p == [proc EXCEPT !.before = contracts.tokens]
  <2>1. p \in ProcType /\ p.script = "deploy"
    BY <1>0, <1>4 DEF LedgerRead, Typed, ProcType, ContractsType
  <2>2. Proceed(p, "token") /\ UNCHANGED Rest
    BY <1>4 DEF LedgerRead, files, network, Rest
  <2> HIDE DEF p
  <2>3. proc' \in ProcType
    BY <2>1, <2>2, ProceedTyped DEF Pc, DeployPc
  <2>4. proc'.script = "deploy" /\ proc'.pc = "token"
    BY <2>1, <2>2 DEF Proceed, ProcType
  <2>5. Placed'
    BY <1>0, <1>4, <2>2, <2>4, ScriptsAssumption
    DEF LedgerRead, Placed, ScriptName, DeployPc, TokenPc, Rest
  <2> QED
    BY <2>2, <2>3, <2>5, OnlyProcTyped
<1>5. ASSUME TokenDeployed PROVE Typed'
  <2> DEFINE p == [proc EXCEPT !.token = starts]
  <2>0. starts \in Start
    BY <1>0, <1>5, ScriptsAssumption DEF TokenDeployed, Placed
  <2>1. p \in ProcType /\ p.script = "deploy" /\ p.token = starts
    BY <1>0, <1>5, <2>0 DEF TokenDeployed, ProcType
  <2>2. Proceed(p, "vk")
    BY <1>5 DEF TokenDeployed
  <2> HIDE DEF p
  <2>3. proc' \in ProcType
    BY <2>1, <2>2, ProceedTyped DEF Pc, DeployPc
  <2>4. proc'.script = "deploy" /\ proc'.pc = "vk" /\ proc'.token = starts
    BY <2>1, <2>2 DEF Proceed, ProcType
  <2>5. Placed'
    BY <1>0, <1>5, <2>0, <2>4, ScriptsAssumption
    DEF TokenDeployed, Placed, ScriptName, DeployPc
  <2>6. contracts' \in ContractsType
    BY <1>5, <2>0 DEF TokenDeployed, Typed, ContractsType
  <2> QED
    BY <1>5, <2>3, <2>5, <2>6 DEF TokenDeployed, files, Typed
<1>6. ASSUME NEW limit \in Nat, proc.script = "deploy", Again(limit), starts' = starts
      PROVE  proc' \in ProcType /\ FlightTyped' /\ Placed'
  <2>1. proc.script # None
    BY <1>6, ScriptsAssumption
  <2>2. CASE proc' = [proc EXCEPT !.tries = @ + 1, !.sent = "no"]
    <3>1. /\ proc'.script = proc.script /\ proc'.pc = proc.pc
          /\ proc'.token = proc.token
      BY <1>0, <2>2 DEF ProcType
    <3>2. Placed'
      BY <1>0, <1>6, <3>1, ScriptsAssumption DEF Placed, ScriptName
    <3> QED
      BY <1>6, <2>1, <3>2, AgainTyped
  <2>3. CASE proc'.script = None /\ proc'.pc \in ScriptName
    <3>1. Placed'
      BY <2>3, ScriptsAssumption DEF Placed, ScriptName
    <3> QED
      BY <1>6, <2>1, <3>1, AgainTyped
  <2> QED
    BY <1>6, <2>1, <2>2, <2>3, AgainTyped
<1>7. ASSUME NEW answered \in BOOLEAN, VkRegistered(answered) PROVE Typed'
  <2>1. contracts' \in ContractsType
    <3> DEFINE n == proc.vk + 1
    <3>1. n \in Nat /\ contracts' = [contracts EXCEPT !.vks[starts] = @ \union {n}]
      BY <1>0, <1>7 DEF VkRegistered, ProcType
    <3> HIDE DEF n
    <3> QED
      BY <3>1 DEF Typed, ContractsType
  <2>2. CASE answered
    <3> DEFINE n == proc.vk + 1
               p == [proc EXCEPT !.vk = n]
               pc1 == IF n = Vks THEN "key0" ELSE "vk"
    <3>1. n \in Nat /\ Proceed(p, pc1)
      BY <1>0, <1>7, <2>2 DEF VkRegistered, ProcType
    <3>2. pc1 \in {"key0", "vk"}
      OBVIOUS
    <3> HIDE DEF n, pc1
    <3>3. p \in ProcType /\ p.script = proc.script /\ p.token = proc.token
      BY <1>0, <3>1 DEF ProcType
    <3> HIDE DEF p
    <3>4. proc' \in ProcType
      BY <3>1, <3>2, <3>3, ProceedTyped DEF Pc, DeployPc
    <3>5. proc'.script = "deploy" /\ proc'.pc = pc1 /\ proc'.token = proc.token
      BY <1>7, <3>1, <3>3 DEF VkRegistered, Proceed, ProcType
    <3>6. Placed'
      BY <1>0, <1>7, <3>2, <3>5, ScriptsAssumption
      DEF VkRegistered, Placed, ScriptName, DeployPc, TokenPc
    <3> QED
      BY <1>7, <2>1, <2>2, <3>4, <3>6 DEF VkRegistered, files, Typed
  <2>3. CASE ~answered
    <3>1. proc' \in ProcType /\ FlightTyped' /\ Placed'
      BY <1>6, <1>7, <2>3, ScriptsAssumption DEF VkRegistered
    <3> QED
      BY <1>7, <2>1, <3>1 DEF VkRegistered, files, Typed, FlightTyped
  <2> QED
    BY <2>2, <2>3
<1>8. ASSUME NEW id \in {0, 1}, AuditorKeyChosen(id) PROVE Typed'
  <2> DEFINE e == AuditorKey(proc.env, AuditorSecret[id + 1])
             p == [proc EXCEPT !.env = e]
             pc1 == IF id = 0 THEN "reg0" ELSE "reg1"
  <2>1. e \in [Secret -> Nat]
    BY <1>0 DEF AuditorKey, AuditorSecret, Typed, ProcType, Secret
  <2>2. env' = SaveEnv(e) /\ Proceed(p, pc1)
    BY <1>8 DEF AuditorKeyChosen
  <2>3. pc1 \in {"reg0", "reg1"}
    OBVIOUS
  <2> HIDE DEF e, pc1
  <2>4. env' \in [Secret -> Nat]
    BY <2>1, <2>2 DEF SaveEnv, Typed
  <2>5. p \in ProcType /\ p.script = proc.script /\ p.token = proc.token
    BY <1>0, <2>1 DEF ProcType
  <2> HIDE DEF p
  <2>6. proc' \in ProcType
    BY <2>2, <2>3, <2>5, ProceedTyped DEF Pc, DeployPc
  <2>7. proc'.script = "deploy" /\ proc'.pc = pc1 /\ proc'.token = proc.token
    BY <1>8, <2>2, <2>5 DEF AuditorKeyChosen, Proceed, ProcType
  <2>8. Placed'
    BY <1>0, <1>8, <2>3, <2>7, ScriptsAssumption
    DEF AuditorKeyChosen, Placed, ScriptName, DeployPc, TokenPc
  <2> QED
    BY <1>8, <2>4, <2>6, <2>8 DEF AuditorKeyChosen, network, Typed
<1>9. ASSUME NEW id \in {0, 1}, NEW answered \in BOOLEAN,
             AuditorKeyRegistered(id, answered)
      PROVE  Typed'
  <2>0. AuditorSecret[id + 1] \in Secret
    BY DEF AuditorSecret, Secret
  <2>1. contracts' \in ContractsType
    BY <1>0, <1>9, <2>0 DEF AuditorKeyRegistered, Typed, ProcType, ContractsType
  <2>2. CASE answered
    <3> DEFINE pc1 == IF id = 0 THEN "key1" ELSE "record"
    <3>1. Proceed(proc, pc1)
      BY <1>9, <2>2 DEF AuditorKeyRegistered
    <3>2. pc1 \in {"key1", "record"}
      OBVIOUS
    <3> HIDE DEF pc1
    <3>3. proc' \in ProcType
      BY <1>0, <3>1, <3>2, ProceedTyped DEF Pc, DeployPc
    <3>4. proc'.script = "deploy" /\ proc'.pc = pc1 /\ proc'.token = proc.token
      BY <1>0, <1>9, <3>1 DEF AuditorKeyRegistered, Proceed, ProcType
    <3>5. Placed'
      BY <1>0, <1>9, <3>2, <3>4, ScriptsAssumption
      DEF AuditorKeyRegistered, Placed, ScriptName, DeployPc, TokenPc
    <3> QED
      BY <1>9, <2>1, <2>2, <3>3, <3>5 DEF AuditorKeyRegistered, files, Typed
  <2>3. CASE ~answered
    <3>1. proc' \in ProcType /\ FlightTyped' /\ Placed'
      BY <1>6, <1>9, <2>3, ScriptsAssumption DEF AuditorKeyRegistered
    <3> QED
      BY <1>9, <2>1, <3>1 DEF AuditorKeyRegistered, files, Typed, FlightTyped
  <2> QED
    BY <2>2, <2>3
<1>10. ASSUME RecordSaved PROVE Typed'
  <2>1. proc.script # None /\ Ends("done")
    BY <1>10, ScriptsAssumption DEF RecordSaved
  <2>2. proc' \in ProcType /\ FlightTyped' /\ proc'.script = None /\ proc'.pc \in ScriptName
    BY <2>1, EndsTyped DEF Outcome
  <2>3. Placed'
    BY <2>2, ScriptsAssumption DEF Placed, ScriptName
  <2>4. record' \in [token : Start, before : SUBSET Start]
    BY <1>0, <1>10 DEF RecordSaved, Recorded, Placed, TokenPc, ProcType
  <2> QED
    BY <1>10, <2>2, <2>3, <2>4 DEF RecordSaved, Typed, FlightTyped
<1>11. ASSUME DeployTryFails PROVE Typed'
  <2>1. proc' \in ProcType /\ FlightTyped' /\ Placed'
    BY <1>6, <1>11, ScriptsAssumption DEF DeployTryFails
  <2> QED
    BY <1>11, <2>1 DEF DeployTryFails, files, Typed, FlightTyped
<1> QED
  BY <1>1, <1>3, <1>4, <1>5, <1>7, <1>8, <1>9, <1>10, <1>11 DEF DeployStep

\* What a flow submits is a transaction.
LEMMA TxTyped ==
    ASSUME Typed, proc.script = "flow"
    PROVE  \A pc \in SubmitPc :
             /\ SubmittedAt(pc) \in TxType
             /\ SubmittedAt(pc).kind \in {"deposit", "transfer"} =>
                   SubmittedAt(pc).src = "marta"
             /\ SubmittedAt(pc).src = Source(pc)
             /\ SubmittedAt(pc).by = "mine" /\ SubmittedAt(pc).token = proc.token
             /\ SubmittedAt(pc).kind = "transfer" =>
                   pc = "transfer" /\ SubmittedAt(pc).arg = proc.marta.rev
             /\ pc = "transfer" => SubmittedAt(pc).kind = "transfer"
             /\ pc = "mergeGoal" => SubmittedAt(pc).kind = "merge"
             /\ SubmittedAt(pc).kind = "register" =>
                   SubmittedAt(pc).arg = proc.env[SubmittedAt(pc).src]
<1>1. /\ proc.token \in Start /\ proc.marta.rev \in Nat
      /\ proc.env["marta"] \in Nat /\ proc.env["goal"] \in Nat
  BY DEF Typed, Placed, ProcType, AccountType, Secret
<1> QED
  BY <1>1 DEF SubmitPc, SubmittedAt, Submitted, Tx, TxType, Person, Kind, Source

\* The order of a flow's calls never leaves its places.
LEMMA NextPlace ==
    /\ \A pc \in DOMAIN Next1 : Next1[pc] \in FlowPc
    /\ DOMAIN Next1 \subseteq FlowPc
    /\ SubmitPc \subseteq DOMAIN Next1 /\ DOMAIN Submitted = SubmitPc
  BY DEF Next1, FlowPc, EarlyPc, LastPc, SubmitPc, Submitted

\* Each step of flow keeps the types.
LEMMA FlowTyped ==
    ASSUME Typed, FlowStart \/ FlowStep \/ FlowTryFails
    PROVE  Typed'
<1> USE DEF AtFlow, Running
<1>0. proc \in ProcType /\ Placed
  BY DEF Typed
<1>1. ASSUME FlowStart PROVE Typed'
  <2> DEFINE e == Ensure(env, Person)
  <2>1. e \in [Secret -> Nat] /\ env' = e
    BY <1>1, EnsureTyped DEF FlowStart
  <2>2. proc' = [NoProc EXCEPT !.script = "flow", !.pc = "fund", !.env = e,
                               !.token = record.token]
    BY <1>1 DEF FlowStart
  <2>3. record.token \in Start
    BY <1>1 DEF FlowStart, Typed
  <2> HIDE DEF e
  <2>4. proc' \in ProcType
    BY <2>1, <2>2, <2>3, NoProcTyped DEF ProcType, ScriptName, Pc, FlowPc, EarlyPc
  <2>5. starts' \in 0..MaxStarts /\ starts' \in Start
    BY <1>1, StartTyped DEF FlowStart
  <2>6. proc'.script = "flow" /\ proc'.pc = "fund" /\ proc'.token \in Start
    BY <2>2, <2>3, NoProcTyped DEF ProcType
  <2>7. Placed'
    BY <2>5, <2>6, ScriptsAssumption DEF Placed, FlowPc, EarlyPc, ScriptName
  <2>8. history' \in [outdated : BOOLEAN, torn : 0..MaxStarts, gifts : Nat]
    BY <1>1 DEF FlowStart, Typed
  <2> QED
    BY <1>1, <2>1, <2>4, <2>5, <2>7, <2>8 DEF FlowStart, network, Typed
<1>2. ASSUME NEW p \in ProcType, NEW pc1 \in FlowPc, Proceed(p, pc1),
             UNCHANGED Rest, proc.script = "flow", p.script = "flow",
             p.token = proc.token
      PROVE  Typed'
  <2>1. proc' \in ProcType
    BY <1>2, ProceedTyped DEF Pc
  <2>2. proc'.script = "flow" /\ proc'.pc = pc1 /\ proc'.token = proc.token
    BY <1>2 DEF Proceed, ProcType
  <2>3. Placed'
    BY <1>0, <1>2, <2>2, ScriptsAssumption DEF Placed, ScriptName, Rest
  <2> QED
    BY <1>2, <2>1, <2>3, OnlyProcTyped
<1>3. ASSUME FlowCall PROVE Typed'
  <2>1. PICK pc \in {"fund", "keys", "syncGoal"} : AtFlow(pc) /\ Proceed(proc, Next1[pc])
    BY <1>3 DEF FlowCall
  <2>2. Next1[pc] \in FlowPc
    BY NextPlace DEF Next1
  <2> QED
    BY <1>0, <1>2, <1>3, <2>1, <2>2 DEF FlowCall, files, network, Rest
<1>4. ASSUME NEW who \in Person, Asked(who) PROVE Typed'
  <2>1. PICK pc1 \in {"regMarta", "regGoal", "askGoal", "deposit"} : Proceed(proc, pc1)
    BY <1>4 DEF Asked, Person
  <2>2. pc1 \in FlowPc
    BY DEF FlowPc, EarlyPc
  <2> QED
    BY <1>0, <1>2, <1>4, <2>1, <2>2 DEF Asked, files, network, Rest
<1>5. ASSUME NEW pc \in DOMAIN Submitted, Submit(pc) PROVE Typed'
  <2>1. SubmittedAt(pc) \in TxType
        /\ (SubmittedAt(pc).kind \in {"deposit", "transfer"} =>
               SubmittedAt(pc).src = "marta")
    BY <1>5, NextPlace, TxTyped DEF Submit
  <2>2. proc' \in ProcType
    BY <1>0, <1>5 DEF Submit, ProcType
  <2>3. /\ proc'.script = proc.script /\ proc'.pc = proc.pc
        /\ proc'.token = proc.token
    BY <1>0, <1>5 DEF Submit, ProcType
  <2>4. Placed'
    BY <1>0, <1>5, <2>3, ScriptsAssumption DEF Submit, Placed, ScriptName
  <2> QED
    BY <1>5, <2>1, <2>2, <2>4 DEF Submit, files, Typed
<1>6. ASSUME NEW pc \in DOMAIN Submitted, Confirm(pc) PROVE Typed'
  <2> DEFINE p == [proc EXCEPT !.steps = @ \union {pc}]
  <2>1. p \in ProcType /\ p.script = proc.script /\ p.token = proc.token
    BY <1>0, NextPlace DEF ProcType
  <2>2. Proceed(p, Next1[pc]) /\ Next1[pc] \in FlowPc
    BY <1>6, NextPlace DEF Confirm
  <2> HIDE DEF p
  <2> QED
    BY <1>2, <1>6, <2>1, <2>2 DEF Confirm, files, network, Rest
<1>7. ASSUME NEW who \in Person, Synced(who) PROVE Typed'
  <2>1. PICK pc \in {"syncMarta", "lastMarta", "lastGoal"} :
          /\ AtFlow(pc)
          /\ \E a \in Replayed(who) : Proceed([proc EXCEPT ![who] = a], Next1[pc])
    BY <1>7 DEF Synced
  <2>a. PICK a \in Replayed(who) : Proceed([proc EXCEPT ![who] = a], Next1[pc])
    BY <2>1
  <2> DEFINE p == [proc EXCEPT ![who] = a]
  <2>2. a \in AccountType
    <3>1. proc.token \in Start
      BY <1>0, <2>1 DEF Placed
    <3> QED
      BY <3>1, NoProcTyped DEF Typed, Replayed
  <2>3. p \in ProcType /\ p.script = proc.script /\ p.token = proc.token
    BY <1>0, <2>2 DEF ProcType, Person
  <2>4. Proceed(p, Next1[pc]) /\ Next1[pc] \in FlowPc
    BY <2>1, <2>a, NextPlace DEF Next1
  <2> HIDE DEF p
  <2> QED
    BY <1>2, <1>7, <2>1, <2>3, <2>4 DEF Synced, files, network, Rest
<1>8. ASSUME NEW who \in Person, Verified(who) PROVE Typed'
  <2>1. PICK pc \in {"verifyMarta", "verifyGoal"} :
          /\ AtFlow(pc)
          /\ Proceed([proc EXCEPT !.differs = Differing(who)], Next1[pc])
    BY <1>8 DEF Verified
  <2> DEFINE b == Differing(who)
             p == [proc EXCEPT !.differs = b]
  <2>2. b \in SUBSET Person
    BY <1>0 DEF ProcType, Differing
  <2> HIDE DEF b
  <2>3. p \in ProcType /\ p.script = proc.script /\ p.token = proc.token
    BY <1>0, <2>2 DEF ProcType
  <2>4. Proceed(p, Next1[pc]) /\ Next1[pc] \in FlowPc
    BY <2>1, NextPlace DEF Next1, b
  <2> HIDE DEF p
  <2> QED
    BY <1>2, <1>8, <2>1, <2>3, <2>4 DEF Verified, files, network, Rest
<1>9. ASSUME LogWritten PROVE Typed'
  <2> DEFINE o == IF proc.differs = {} THEN "done" ELSE "mismatch"
  <2>1. proc.script # None /\ Ends(o) /\ o \in Outcome
    BY <1>9, ScriptsAssumption DEF LogWritten, Outcome
  <2>2. proc' \in ProcType /\ FlightTyped' /\ proc'.script = None /\ proc'.pc \in ScriptName
    BY <2>1, EndsTyped
  <2>3. Placed'
    BY <2>2, ScriptsAssumption DEF Placed, ScriptName
  <2>4. runLog' \in [token : Start, account : Nat, goal : Nat, steps : SUBSET FlowPc]
    BY <1>0, <1>9 DEF LogWritten, Placed, ProcType, AccountType, Secret
  <2>5. history' \in [outdated : BOOLEAN, torn : 0..MaxStarts, gifts : Nat]
    BY <1>9 DEF LogWritten, Typed
  <2> QED
    BY <1>9, <2>2, <2>3, <2>4, <2>5 DEF LogWritten, Typed, FlightTyped
<1>10. ASSUME FlowTryFails PROVE Typed'
  <2>1. proc.script # None /\ proc.script = "flow" /\ Again(Tries) /\ Tries \in Nat
    BY <1>10, ScriptsAssumption DEF FlowTryFails
  <2>2. ASSUME proc' = [proc EXCEPT !.tries = @ + 1, !.sent = "no"] PROVE Placed'
    <3>1. /\ proc'.script = proc.script /\ proc'.pc = proc.pc
          /\ proc'.token = proc.token
      BY <1>0, <2>2 DEF ProcType
    <3> QED
      BY <1>0, <1>10, <2>1, <3>1, ScriptsAssumption DEF FlowTryFails, Placed, ScriptName
  <2>3. ASSUME proc'.script = None, proc'.pc \in ScriptName PROVE Placed'
    BY <2>3, ScriptsAssumption DEF Placed, ScriptName
  <2>4. proc' \in ProcType /\ FlightTyped' /\ Placed'
    BY <2>1, <2>2, <2>3, AgainTyped
  <2> QED
    BY <1>10, <2>4 DEF FlowTryFails, files, Typed, FlightTyped
<1> QED
  BY <1>1, <1>3, <1>4, <1>5, <1>6, <1>7, <1>8, <1>9, <1>10 DEF FlowStep

\* Each step of the scripts that read keeps the types.
LEMMA ReaderTyped ==
    ASSUME Typed, ReaderStarts \/ ReaderStep \/ ReaderTryFails
    PROVE  Typed'
<1> USE DEF Running
<1>0. proc \in ProcType /\ Placed
  BY DEF Typed
<1>1. ASSUME NEW script \in ScriptName \ {"deploy", "flow"}, NEW p \in ProcType,
             ReaderStart(script, p),
             script \in {"audit", "make", "verify"} => p.token \in Start
      PROVE  Typed'
  <2>1. proc' = [p EXCEPT !.script = script, !.pc = "fetch"]
    BY <1>1 DEF ReaderStart
  <2>2. proc' \in ProcType
    BY <1>1, <2>1 DEF ProcType, Pc
  <2>3. /\ proc'.script = script /\ proc'.pc = "fetch"
        /\ proc'.token = p.token
    BY <1>1, <2>1 DEF ProcType
  <2>4. starts' \in 0..MaxStarts /\ starts' \in Start
    BY <1>1, StartTyped DEF ReaderStart
  <2>5. Placed'
    BY <1>1, <2>3, <2>4, ScriptsAssumption DEF Placed, ScriptName
  <2> QED
    BY <1>1, <2>2, <2>4, <2>5 DEF ReaderStart, files, network, Typed
<1>2. ASSUME AuditStart PROVE Typed'
  <2> DEFINE p == [NoProc EXCEPT !.token = record.token, !.env = env]
  <2>1. p \in ProcType /\ p.token \in Start
    BY <1>2, NoProcTyped DEF AuditStart, Typed, ProcType
  <2>2. ReaderStart("audit", p)
    BY <1>2 DEF AuditStart
  <2> HIDE DEF p
  <2> QED
    BY <1>1, <2>1, <2>2 DEF ScriptName
<1>3. ASSUME VisibilityStart PROVE Typed'
  BY <1>1, <1>3, NoProcTyped DEF VisibilityStart, ScriptName
<1>4. ASSUME MakeStart PROVE Typed'
  <2> DEFINE k == SealingKey
             p == [NoProc EXCEPT !.token = record.token, !.env = env, !.key = k]
  <2>1. k \in Nat
    BY DEF SealingKey, Typed, Secret
  <2>2. ReaderStart("make", p)
    BY <1>4 DEF MakeStart
  <2> HIDE DEF k
  <2>3. p \in ProcType /\ p.token \in Start
    BY <1>4, <2>1, NoProcTyped DEF MakeStart, Typed, ProcType
  <2> HIDE DEF p
  <2> QED
    BY <1>1, <2>2, <2>3 DEF ScriptName
<1>5. ASSUME VerifyStart PROVE Typed'
  <2> DEFINE k == OpeningKey
             p == [NoProc EXCEPT !.token = record.token, !.key = k]
  <2>1. k \in Nat
    BY DEF OpeningKey, Typed, Secret
  <2>2. ReaderStart("verify", p)
    BY <1>5 DEF VerifyStart
  <2> HIDE DEF k
  <2>3. p \in ProcType /\ p.token \in Start
    BY <1>5, <2>1, NoProcTyped DEF VerifyStart, Typed, ProcType
  <2> HIDE DEF p
  <2> QED
    BY <1>1, <2>2, <2>3 DEF ScriptName
<1>6. ASSUME NEW o \in Outcome, proc.script # None, Ends(o)
      PROVE  proc' \in ProcType /\ FlightTyped' /\ Placed'
  <2>1. /\ proc' \in ProcType /\ FlightTyped'
        /\ proc'.script = None /\ proc'.pc \in ScriptName
    BY <1>6, EndsTyped
  <2>2. Placed'
    BY <2>1, ScriptsAssumption DEF Placed, ScriptName
  <2> QED
    BY <2>1, <2>2
<1>7. ASSUME AuditConcludes \/ VisibilityConcludes \/ NoReceipt \/ Verdict PROVE Typed'
  <2>1. PICK o \in Outcome : ReaderEnds(o) /\ proc.script # None
    BY <1>7, ScriptsAssumption
    DEF AuditConcludes, Audited, VisibilityConcludes, NoReceipt, Verdict, Outcome
  <2> QED
    BY <1>6, <2>1 DEF ReaderEnds, files, Typed, FlightTyped
<1>8. ASSUME ReceiptMade PROVE Typed'
  <2>1. proc' \in ProcType /\ FlightTyped' /\ Placed'
    BY <1>6, <1>8, ScriptsAssumption DEF ReceiptMade, Outcome
  <2>2. receipt' \in [token : Start, key : Nat, at : 0..MaxStarts]
    BY <1>0, <1>8 DEF ReceiptMade, Placed, ProcType, Typed
  <2> QED
    BY <1>8, <2>1, <2>2 DEF ReceiptMade, Typed, FlightTyped
<1>9. ASSUME ReaderTryFails PROVE Typed'
  <2>1. PICK limit \in Nat : Again(limit)
    BY <1>9, ScriptsAssumption DEF ReaderTryFails
  <2>2. proc.script \in ScriptName \ {"deploy", "flow"} /\ proc.script # None
    BY <1>9, ScriptsAssumption DEF ReaderTryFails, ScriptName
  <2>3. ASSUME proc' = [proc EXCEPT !.tries = @ + 1, !.sent = "no"] PROVE Placed'
    <3>1. /\ proc'.script = proc.script /\ proc'.pc = proc.pc
          /\ proc'.token = proc.token
      BY <1>0, <2>3 DEF ProcType
    <3> QED
      BY <1>0, <1>9, <2>2, <3>1, ScriptsAssumption DEF ReaderTryFails, Placed, ScriptName
  <2>4. ASSUME proc'.script = None, proc'.pc \in ScriptName PROVE Placed'
    BY <2>4, ScriptsAssumption DEF Placed, ScriptName
  <2>5. proc' \in ProcType /\ FlightTyped' /\ Placed'
    BY <2>1, <2>2, <2>3, <2>4, AgainTyped
  <2> QED
    BY <1>9, <2>5 DEF ReaderTryFails, files, Typed, FlightTyped
<1> QED
  BY <1>2, <1>3, <1>4, <1>5, <1>7, <1>8, <1>9 DEF ReaderStarts, ReaderStep

\* What landing does to the accounts.
LEMMA AccountTyped ==
    ASSUME NEW a \in AccountType
    PROVE  /\ Merged(a) \in AccountType
           /\ a.spend >= TransferAmount => Debited(a) \in AccountType
           /\ \A n \in Nat : Credited(a, n) \in AccountType /\ Given(a, n) \in AccountType
<1>1. Merged(a) \in AccountType
  <2> DEFINE n == a.spend + a.recv
             m == a.rev + 1
  <2>1. n \in Nat /\ m \in Nat
    BY DEF AccountType
  <2>2. \/ Merged(a) = a
        \/ Merged(a) = [a EXCEPT !.spend = n, !.recv = 0, !.rev = m, !.gift = 0]
    BY DEF Merged
  <2> HIDE DEF n, m
  <2>3. [a EXCEPT !.spend = n, !.recv = 0, !.rev = m, !.gift = 0] \in AccountType
    BY <2>1 DEF AccountType
  <2> QED
    BY <2>2, <2>3
<1>2. ASSUME a.spend >= TransferAmount PROVE Debited(a) \in AccountType
  <2> DEFINE n == a.spend - TransferAmount
             m == a.rev + 1
             k == a.sent + 1
  <2>1. n \in Nat /\ m \in Nat /\ k \in Nat
    BY <1>2, ScriptsAssumption DEF AccountType
  <2>2. Debited(a) = [a EXCEPT !.spend = n, !.rev = m, !.sent = k]
    BY DEF Debited
  <2> HIDE DEF n, m, k
  <2> QED
    BY <2>1, <2>2 DEF AccountType
<1>3. ASSUME NEW n \in Nat PROVE Credited(a, n) \in AccountType
  <2> DEFINE m == a.recv + n
  <2>1. m \in Nat /\ Credited(a, n) = [a EXCEPT !.recv = m]
    BY DEF AccountType, Credited
  <2> HIDE DEF m
  <2> QED
    BY <2>1 DEF AccountType
<1>4. ASSUME NEW n \in Nat PROVE Given(a, n) \in AccountType
  <2> DEFINE m == a.recv + n
             g == a.gift + n
  <2>1. m \in Nat /\ g \in Nat /\ Given(a, n) = [a EXCEPT !.recv = m, !.gift = g]
    BY DEF AccountType, Given
  <2> HIDE DEF m, g
  <2> QED
    BY <2>1 DEF AccountType
<1> QED
  BY <1>1, <1>2, <1>3, <1>4

\* A transaction that lands leaves accounts typed.
LEMMA AfterTyped ==
    ASSUME Typed, NEW t \in flight, Valid(t)
    PROVE  After(t) \in [Start -> [Person -> AccountType]]
<1>1. /\ t.token \in Start /\ t.src \in Person /\ t.arg \in Nat /\ t.kind \in Kind
      /\ "goal" \in Person
      /\ acct \in [Start -> [Person -> AccountType]]
      /\ t.kind \in {"deposit", "transfer"} => t.src = "marta"
  BY DEF Typed, TxType, Person
<1>2. Account(t) \in AccountType /\ acct[t.token]["goal"] \in AccountType
  BY <1>1 DEF Account
<1>3. [Account(t) EXCEPT !.key = t.arg] \in AccountType
  BY <1>1, <1>2 DEF AccountType
<1>4. /\ Merged(Account(t)) \in AccountType
      /\ t.kind = "transfer" => Debited(Account(t)) \in AccountType
      /\ Credited(Account(t), DepositAmount) \in AccountType
      /\ Credited(acct[t.token]["goal"], TransferAmount) \in AccountType
  BY <1>2, AccountTyped, ScriptsAssumption DEF Valid
<1>5. CASE t.kind = "register"
  BY <1>1, <1>3, <1>5 DEF After, Account
<1>6. CASE t.kind = "deposit"
  BY <1>1, <1>4, <1>6 DEF After, Account
<1>7. CASE t.kind = "merge"
  BY <1>1, <1>4, <1>7 DEF After, Account
<1>8. CASE t.kind = "transfer"
  BY <1>1, <1>4, <1>8 DEF After, Account
<1> QED
  BY <1>1, <1>5, <1>6, <1>7, <1>8 DEF Kind

\* The chain moves no local variable but these.
LEMMA LandTyped ==
    ASSUME Typed, NEW t \in flight, Land(t)
    PROVE  /\ Typed'
           /\ \E sent \in {"no", "waiting", "ok", "refused"}, paid \in Nat :
                 proc' = [proc EXCEPT !.sent = sent, !.paid = paid]
<1>0. proc \in ProcType /\ Placed
  BY DEF Typed
<1>1. acct' \in [Start -> [Person -> AccountType]]
  BY AfterTyped DEF Land, Typed
<1>2. \E sent \in {"no", "waiting", "ok", "refused"}, paid \in Nat :
         proc' = [proc EXCEPT !.sent = sent, !.paid = paid]
  <2> DEFINE sent == IF t.by = "lost" THEN proc.sent
                     ELSE IF Valid(t) THEN "ok" ELSE "refused"
             paid == IF Valid(t) /\ t.kind = "transfer" THEN proc.paid + 1
                     ELSE proc.paid
  <2>1. sent \in {"no", "waiting", "ok", "refused"} /\ paid \in Nat
    BY <1>0 DEF ProcType
  <2>2. CASE t.by = "gone"
    <3>1. proc' = [proc EXCEPT !.sent = proc.sent, !.paid = proc.paid]
      BY <1>0, <2>2 DEF Land, ProcType
    <3> QED
      BY <1>0, <3>1 DEF ProcType
  <2>3. CASE t.by # "gone"
    <3>1. proc' = [proc EXCEPT !.sent = sent, !.paid = paid]
      BY <2>3 DEF Land
    <3> HIDE DEF sent, paid
    <3> QED
      BY <2>1, <3>1
  <2> QED
    BY <2>2, <2>3
<1>3. PICK sent \in {"no", "waiting", "ok", "refused"}, paid \in Nat :
         proc' = [proc EXCEPT !.sent = sent, !.paid = paid]
  BY <1>2
<1>4. proc' \in ProcType
  BY <1>0, <1>3 DEF ProcType
<1>5. /\ proc'.script = proc.script /\ proc'.pc = proc.pc
      /\ proc'.token = proc.token
  BY <1>0, <1>3 DEF ProcType
<1>6. Placed'
  BY <1>0, <1>5 DEF Land, Placed
<1> QED
  BY <1>1, <1>2, <1>4, <1>6 DEF Land, Typed

\* Every step keeps the types.
LEMMA TypedStep == Typed /\ [Next]_vars => Typed'
<1> SUFFICES ASSUME Typed, [Next]_vars PROVE Typed'
  OBVIOUS
<1>1. ASSUME NEW t \in flight, Expire(t) PROVE Typed'
  BY <1>1 DEF Expire, Typed, Placed
<1>2. ASSUME Crash PROVE Typed'
  <2>1. /\ proc' \in ProcType /\ FlightTyped'
        /\ proc'.script = None /\ proc'.pc \in ScriptName
    BY <1>2, EndsTyped DEF Crash, Outcome
  <2>2. Placed'
    BY <2>1, ScriptsAssumption DEF Placed, ScriptName
  <2> QED
    BY <1>2, <2>1, <2>2 DEF Crash, files, Typed, FlightTyped
<1>3. ASSUME VerifierKeyAdded PROVE Typed'
  <2>1. PICK key \in {OwnKey, Blank} : env' = [env EXCEPT !["verifier"] = key]
    BY <1>3 DEF VerifierKeyAdded
  <2>2. key \in Nat
    BY ScriptsAssumption DEF OwnKey, Blank
  <2>3. env' \in [Secret -> Nat]
    BY <2>1, <2>2 DEF Typed
  <2> QED
    BY <1>3, <2>3 DEF VerifierKeyAdded, network, Typed, Placed
<1>4. CASE UNCHANGED vars
  BY <1>4 DEF vars, Typed, Placed
<1>5. ASSUME SecretsTorn PROVE Typed'
  <2>1. starts' \in 0..MaxStarts
    BY <1>5, ScriptsAssumption DEF SecretsTorn, Typed
  <2>2. history' \in [outdated : BOOLEAN, torn : 0..MaxStarts, gifts : Nat]
    BY <1>5, <2>1 DEF SecretsTorn, Typed
  <2>3. env' \in [Secret -> Nat] /\ acct' \in [Start -> [Person -> AccountType]]
    BY <1>5, NoProcTyped DEF SecretsTorn
  <2>4. /\ proc' \in ProcType
        /\ proc'.script = None /\ proc'.pc = ""
    BY <1>5, NoProcTyped DEF SecretsTorn, ProcType, NoProc, Outcome
  <2>5. Placed'
    BY <2>4, ScriptsAssumption DEF Placed, ScriptName
  <2> QED
    BY <1>5, <2>1, <2>2, <2>3, <2>4, <2>5 DEF SecretsTorn, Typed
<1>6. ASSUME RecordTorn \/ LogTorn \/ ReceiptTorn PROVE Typed'
  <2>1. /\ proc' \in ProcType /\ FlightTyped'
        /\ proc'.script = None /\ proc'.pc \in ScriptName
    BY <1>6, EndsTyped, ScriptsAssumption
    DEF RecordTorn, LogTorn, ReceiptTorn, AtDeploy, AtFlow, Running, Outcome
  <2>2. Placed'
    BY <2>1, ScriptsAssumption DEF Placed, ScriptName
  <2> QED
    BY <1>6, <2>1, <2>2 DEF RecordTorn, LogTorn, ReceiptTorn, Typed, FlightTyped
<1>7. ASSUME Contribute PROVE Typed'
  <2>1. history' \in [outdated : BOOLEAN, torn : 0..MaxStarts, gifts : Nat]
    <3> DEFINE n == history.gifts + 1
    <3>1. n \in Nat /\ history' = [history EXCEPT !.gifts = n]
      BY <1>7 DEF Contribute, Typed
    <3> HIDE DEF n
    <3> QED
      BY <3>1 DEF Typed
  <2>2. acct' \in [Start -> [Person -> AccountType]]
    <3>1. record.token \in Start /\ "goal" \in Person
      BY <1>7 DEF Contribute, Typed, Person
    <3>2. acct[record.token]["goal"] \in AccountType /\ TransferAmount \in Nat
      BY <3>1, ScriptsAssumption DEF Typed
    <3>3. Given(acct[record.token]["goal"], TransferAmount) \in AccountType
      BY <3>2, AccountTyped
    <3> QED
      BY <1>7, <3>1, <3>3 DEF Contribute, Typed
  <2> QED
    BY <1>7, <2>1, <2>2 DEF Contribute, files, Typed, Placed
<1>8. ASSUME Forget PROVE Typed'
  <2>1. record.token \in 0..MaxStarts
    BY <1>8, ScriptsAssumption DEF Forget, Typed, Start
  <2>2. contracts' \in ContractsType
    BY <1>8, <2>1 DEF Forget, Typed, ContractsType
  <2> QED
    BY <1>8, <2>2 DEF Forget, files, Typed, Placed
<1> QED
  BY <1>1, <1>2, <1>3, <1>4, <1>5, <1>6, <1>7, <1>8,
     DeployTyped, FlowTyped, ReaderTyped, LandTyped
  DEF Next, Step, TryFails, Torn, Chain

\* Typed is invariant.
LEMMA AlwaysTyped == Spec => []Typed
  BY InitTyped, TypedStep, PTL DEF Spec
-----------------------------------------------------------------------------
(* The secrets of the scripts                                              *)

\* Every account has the key on file; every auditor channel of a later deployment
\* than the last interrupted write has.
KeysHeld ==
    /\ \A n \in Start, who \in Person :
          acct[n][who].key # 0 => acct[n][who].key = env[who]
    /\ \A n \in Start, id \in {0, 1} :
          OnFile(contracts.keys[n][id], AuditorOf[id])

\* A script that saves to .env.deploy holds what is in it, but for a verifier's
\* key put there beside it; a registration in flight carries the key on file.
Held ==
    /\ proc.script \in {"deploy", "flow"} =>
          /\ \A s \in Secret \ {"verifier"} : proc.env[s] = env[s]
          /\ proc.env["verifier"] \in {0, env["verifier"]}
    /\ \A t \in flight : t.kind = "register" /\ t.arg # 0 => t.arg = env[t.src]
    /\ KeysHeld

\* A secret is named by the start that made it, and a channel's key by its secret:
\* none is of a start to come, and none on file is of a start before the last
\* interrupted write.  A script that runs is of a later start than that.
Numbered ==
    /\ history.torn <= starts
    /\ proc.script # None => history.torn < starts
    /\ \A s \in Secret \ {"verifier"} :
          env[s] # 0 => history.torn < env[s] /\ env[s] <= starts
    /\ \A n \in Start, id \in {0, 1} :
          /\ contracts.keys[n][id] <= starts
          /\ n > starts => contracts.keys[n][id] = 0
          /\ n > history.torn /\ contracts.keys[n][id] # 0
                => contracts.keys[n][id] > history.torn

-----------------------------------------------------------------------------

\* Nothing is in flight but what was, whoever waits for it now.
Echo ==
    \A t \in flight' : \E u \in flight :
        /\ t.src = u.src /\ t.kind = u.kind /\ t.arg = u.arg /\ t.token = u.token
        /\ t.by \in {u.by, "gone", "lost"}

\* A script ends: what it had in flight is of no one's.
LEMMA EndsEcho ==
    ASSUME Typed, NEW o \in Outcome, proc.script # None, Ends(o)
    PROVE  Echo /\ proc'.script = None
<1>1. \A u \in flight :
         LET t == [u EXCEPT !.by = "gone"] IN
            /\ t.src = u.src /\ t.kind = u.kind /\ t.arg = u.arg
            /\ t.token = u.token /\ t.by = "gone"
  BY DEF Typed, TxType
<1> QED
  BY <1>1, EndsTyped DEF Ends, Left, Echo

\* A try fails: what it had in flight may still land.
LEMMA AgainEcho ==
    ASSUME Typed, NEW limit \in Nat, proc.script # None, Again(limit)
    PROVE  /\ Echo
           /\ proc'.script \in {None, proc.script}
           /\ proc'.script # None => proc'.env = proc.env
<1>1. \A u \in flight :
         LET t == [u EXCEPT !.by = IF u.by = "mine" THEN "lost" ELSE u.by] IN
            /\ t.src = u.src /\ t.kind = u.kind /\ t.arg = u.arg
            /\ t.token = u.token /\ t.by \in {u.by, "gone", "lost"}
  BY DEF Typed, TxType
<1>2. CASE proc.tries < limit
  <2>1. Echo
    <3> SUFFICES ASSUME NEW t \in flight'
                 PROVE  \E u \in flight :
                           /\ t.src = u.src /\ t.kind = u.kind /\ t.arg = u.arg
                           /\ t.token = u.token /\ t.by \in {u.by, "gone", "lost"}
      BY DEF Echo
    <3>1. PICK u \in flight :
             t = [u EXCEPT !.by = IF u.by = "mine" THEN "lost" ELSE u.by]
      BY <1>2 DEF Again, Abandoned
    <3> QED
      BY <1>1, <3>1
  <2>2. proc'.script = proc.script /\ proc'.env = proc.env
    BY <1>2 DEF Again, Typed, ProcType
  <2> QED
    BY <2>1, <2>2
<1>3. CASE ~(proc.tries < limit)
  BY <1>3, EndsEcho DEF Again, Outcome
<1> QED
  BY <1>2, <1>3

-----------------------------------------------------------------------------
(* Held                                                                     *)

\* Nothing is on chain, and nothing runs, at the start.
LEMMA InitHeld == Init => Held
<1> SUFFICES ASSUME Init PROVE Held
  OBVIOUS
<1>1. proc.script = None /\ flight = {}
  BY DEF Init, NoProc
<1>2. KeysHeld
  BY DEF Init, KeysHeld, OnFile, NoAccount, NoHistory
<1> QED
  BY <1>1, <1>2, ScriptsAssumption DEF Held

\* A step that leaves the secrets and the keys alone.
LEMMA QuietHeld ==
    ASSUME Typed, Held, env' = env, contracts'.keys = contracts.keys, acct' = acct,
           Echo, history'.torn = history.torn,
           \/ proc'.script \notin {"deploy", "flow"}
           \/ proc.script \in {"deploy", "flow"} /\ proc'.env = proc.env
    PROVE  Held'
  BY DEF Held, KeysHeld, OnFile, Echo

\* Saving what the script holds is saving what the file holds already, but for
\* the secrets it lacks.
LEMMA SaveHeld ==
    ASSUME Typed, NEW e \in [Secret -> Nat],
           \A s \in Secret \ {"verifier"} : env[s] # 0 => e[s] = env[s],
           e["verifier"] \in {0, env["verifier"]}
    PROVE  /\ SaveEnv(e) \in [Secret -> Nat]
           /\ \A s \in Secret : env[s] # 0 => SaveEnv(e)[s] = env[s]
           /\ \A s \in Secret \ {"verifier"} : SaveEnv(e)[s] = e[s]
           /\ SaveEnv(e)["verifier"] = env["verifier"]
<1>1. env \in [Secret -> Nat]
  BY DEF Typed
<1> QED
  BY <1>1 DEF SaveEnv, Secret

\* A secret that is kept or made, and saved.
LEMMA AddHeld ==
    ASSUME Typed, Held, NEW e \in [Secret -> Nat],
           \A s \in Secret \ {"verifier"} : env[s] # 0 => e[s] = env[s],
           e["verifier"] \in {0, env["verifier"]},
           env' = SaveEnv(e), contracts' = contracts, acct' = acct, flight' = flight,
           history'.torn = history.torn, proc'.env = e
    PROVE  Held'
<1>1. /\ \A s \in Secret \ {"verifier"} : env'[s] = e[s]
      /\ env'["verifier"] = env["verifier"]
      /\ \A s \in Secret : env[s] # 0 => env'[s] = env[s]
  BY SaveHeld
<1>2. \A t \in flight : t.arg # 0 /\ t.kind = "register" =>
         t.arg = env[t.src] /\ t.src \in Secret
  BY DEF Held, Typed, TxType, Person, Secret
<1>3. KeysHeld'
  <2>1. Person \subseteq Secret /\ \A id \in {0, 1} : AuditorOf[id] \in Secret
    BY DEF Person, Secret, AuditorOf, AuditorSecret
  <2>2. ASSUME NEW key \in Nat, NEW s \in Secret, key > history.torn, key = env[s]
        PROVE  key = env'[s]
    BY <1>1, <2>2 DEF Typed
  <2>3. \A n \in Start, id \in {0, 1} : contracts.keys[n][id] \in Nat
    BY DEF Typed, ContractsType
  <2> QED
    BY <1>1, <2>1, <2>2, <2>3 DEF Held, KeysHeld, OnFile
<1> QED
  BY <1>1, <1>2, <1>3 DEF Held

\* Each step of deploy: a key goes on chain only after its secret is on file.
LEMMA DeployHeld ==
    ASSUME Typed, Held, DeployStart \/ DeployStep \/ DeployTryFails
    PROVE  Held'
<1> USE DEF AtDeploy, Running
<1>0. proc \in ProcType /\ Placed /\ env \in [Secret -> Nat]
  BY DEF Typed
<1>1. ASSUME DeployStart PROVE Held'
  <2> DEFINE e == Ensure(env, {"deployer"})
  <2>1. e \in [Secret -> Nat] /\ env' = SaveEnv(e)
    BY <1>1, EnsureTyped DEF DeployStart
  <2>2. /\ \A s \in Secret : env[s] # 0 => e[s] = env[s]
        /\ e["verifier"] = env["verifier"]
    BY <1>0 DEF Ensure, Secret
  <2>3. proc' = [NoProc EXCEPT !.script = "deploy", !.pc = "fund", !.env = e]
    BY <1>1 DEF DeployStart
  <2> HIDE DEF e
  <2>4. proc'.env = e
    BY <2>3, NoProcTyped DEF ProcType
  <2> QED
    BY <1>1, <2>1, <2>2, <2>4, AddHeld DEF DeployStart
<1>2. ASSUME proc' \in ProcType, proc'.env = proc.env, proc.script = "deploy",
             env' = env, contracts'.keys = contracts.keys,
             UNCHANGED <<acct, flight, history>>
      PROVE  Held'
  <2>1. Echo
    BY <1>2 DEF Echo
  <2> QED
    BY <1>2, <2>1, QuietHeld
<1>3. ASSUME Funded \/ VerifierDeployed \/ AuditorDeployed \/ LedgerRead PROVE Held'
  <2>1. proc'.env = proc.env
    BY <1>0, <1>3
    DEF Funded, VerifierDeployed, AuditorDeployed, LedgerRead, Proceed, ProcType
  <2> QED
    BY <1>2, <1>3, <2>1, DeployTyped
    DEF Funded, VerifierDeployed, AuditorDeployed, LedgerRead, DeployStep, Typed,
        files, network
<1>4. ASSUME TokenDeployed PROVE Held'
  <2>1. proc'.env = proc.env
    BY <1>0, <1>4 DEF TokenDeployed, Proceed, ProcType
  <2>2. contracts'.keys = contracts.keys
    BY <1>4 DEF TokenDeployed, Typed, ContractsType
  <2> QED
    BY <1>2, <1>4, <2>1, <2>2, DeployTyped DEF TokenDeployed, DeployStep, Typed, files
<1>5. ASSUME NEW limit \in Nat, Again(limit), proc.script = "deploy", env' = env,
             contracts'.keys = contracts.keys, acct' = acct, history' = history
      PROVE  Held'
  <2>1. proc.script # None
    BY <1>5, ScriptsAssumption
  <2> QED
    BY <1>5, <2>1, AgainEcho, QuietHeld, ScriptsAssumption
<1>6. ASSUME NEW answered \in BOOLEAN, VkRegistered(answered) PROVE Held'
  <2>1. contracts'.keys = contracts.keys
    BY <1>6 DEF VkRegistered, Typed, ContractsType
  <2>2. CASE answered
    <3>1. proc'.env = proc.env
      BY <1>0, <1>6, <2>2 DEF VkRegistered, Proceed, ProcType
    <3> QED
      BY <1>2, <1>6, <2>1, <2>2, <3>1, DeployTyped
      DEF VkRegistered, DeployStep, Typed, files
  <2>3. CASE ~answered
    BY <1>5, <1>6, <2>1, <2>3, ScriptsAssumption DEF VkRegistered, files
  <2> QED
    BY <2>2, <2>3
<1>7. ASSUME NEW id \in {0, 1}, AuditorKeyChosen(id) PROVE Held'
  <2> DEFINE s == AuditorSecret[id + 1]
             e == AuditorKey(proc.env, s)
             pc1 == IF id = 0 THEN "reg0" ELSE "reg1"
  <2>1. s \in Secret /\ s # "verifier" /\ starts \in Nat
    BY DEF AuditorSecret, Secret, Typed
  <2>2. env' = SaveEnv(e) /\ Proceed([proc EXCEPT !.env = e], pc1)
    BY <1>7 DEF AuditorKeyChosen
  <2> HIDE DEF s
  <2>3. e \in [Secret -> Nat]
    BY <1>0, <2>1 DEF AuditorKey, ProcType
  <2>4. /\ \A x \in Secret \ {"verifier"} : env[x] # 0 => e[x] = env[x]
        /\ e["verifier"] \in {0, env["verifier"]}
    BY <1>0, <1>7, <2>1 DEF AuditorKeyChosen, AuditorKey, Held, ProcType, Secret
  <2> HIDE DEF e
  <2>5. proc'.env = e
    BY <1>0, <2>2, <2>3 DEF Proceed, ProcType
  <2> QED
    BY <1>7, <2>2, <2>3, <2>4, <2>5, AddHeld DEF AuditorKeyChosen, network
<1>8. ASSUME NEW id \in {0, 1}, NEW answered \in BOOLEAN,
             AuditorKeyRegistered(id, answered)
      PROVE  Held'
  <2>1. env' = env /\ acct' = acct
    BY <1>8 DEF AuditorKeyRegistered, files
  <2>2. AuditorSecret[id + 1] \in Secret \ {"verifier"} /\ AuditorOf[id] = AuditorSecret[id + 1]
    BY DEF AuditorSecret, Secret, AuditorOf
  <2>3. contracts' = [contracts EXCEPT !.keys[starts][id] = env[AuditorOf[id]]]
    BY <1>8, <2>2 DEF AuditorKeyRegistered, Held
  <2>4. KeysHeld'
    BY <1>8, <2>1, <2>3 DEF AuditorKeyRegistered, Held, KeysHeld, OnFile, Typed, ContractsType
  <2>5. CASE answered
    <3>1. proc'.env = proc.env /\ flight' = flight
      BY <1>0, <1>8, <2>5 DEF AuditorKeyRegistered, Proceed, ProcType
    <3> QED
      BY <1>8, <2>1, <2>4, <3>1 DEF AuditorKeyRegistered, Held
  <2>6. CASE ~answered
    <3>1. Echo /\ proc'.script \in {None, "deploy"} /\ (proc'.script # None => proc'.env = proc.env)
      BY <1>8, <2>6, AgainEcho, ScriptsAssumption DEF AuditorKeyRegistered
    <3> QED
      BY <1>8, <2>1, <2>4, <3>1, ScriptsAssumption DEF AuditorKeyRegistered, Held, Echo
  <2> QED
    BY <2>5, <2>6
<1>9. ASSUME RecordSaved PROVE Held'
  <2>1. Echo /\ proc'.script = None
    BY <1>9, EndsEcho, ScriptsAssumption DEF RecordSaved, Outcome
  <2> QED
    BY <1>9, <2>1, QuietHeld, ScriptsAssumption DEF RecordSaved
<1>10. ASSUME DeployTryFails PROVE Held'
  BY <1>5, <1>10, ScriptsAssumption DEF DeployTryFails, files
<1> QED
  BY <1>1, <1>3, <1>4, <1>6, <1>7, <1>8, <1>9, <1>10 DEF DeployStep

\* Each step of flow: the accounts it registers have the keys it saved.
LEMMA FlowHeld ==
    ASSUME Typed, Held, FlowStart \/ FlowStep \/ FlowTryFails
    PROVE  Held'
<1> USE DEF AtFlow, Running
<1>0. proc \in ProcType /\ Placed /\ env \in [Secret -> Nat]
  BY DEF Typed
<1>1. ASSUME FlowStart PROVE Held'
  <2> DEFINE e == Ensure(env, Person)
  <2>1. e \in [Secret -> Nat] /\ env' = SaveEnv(e)
    BY <1>1, EnsureTyped DEF FlowStart
  <2>2. /\ \A s \in Secret : env[s] # 0 => e[s] = env[s]
        /\ e["verifier"] = env["verifier"]
    BY <1>0 DEF Ensure, Secret, Person
  <2>3. proc' = [NoProc EXCEPT !.script = "flow", !.pc = "fund", !.env = e,
                               !.token = record.token]
    BY <1>1 DEF FlowStart
  <2> HIDE DEF e
  <2>4. proc'.env = e
    BY <2>3, NoProcTyped DEF ProcType
  <2>5. history'.torn = history.torn
    BY <1>1 DEF FlowStart, Typed
  <2> QED
    BY <1>1, <2>1, <2>2, <2>4, <2>5, AddHeld DEF FlowStart, network
<1>2. ASSUME NEW p \in ProcType, p.env = proc.env, NEW pc, Proceed(p, pc),
             proc.script = "flow", UNCHANGED Rest
      PROVE  Held'
  <2>1. proc'.env = proc.env
    BY <1>2 DEF Proceed, ProcType
  <2>2. Echo
    BY <1>2 DEF Echo, Rest
  <2> QED
    BY <1>2, <2>1, <2>2, QuietHeld DEF Rest
<1>3. ASSUME FlowCall PROVE Held'
  BY <1>0, <1>2, <1>3 DEF FlowCall, files, network, Rest
<1>4. ASSUME NEW who \in Person, Asked(who) PROVE Held'
  <2>1. PICK pc : Proceed(proc, pc)
    BY <1>4 DEF Asked
  <2> QED
    BY <1>0, <1>2, <1>4, <2>1 DEF Asked, files, network, Rest
<1>5. ASSUME NEW pc \in DOMAIN Submitted, Submit(pc) PROVE Held'
  <2> DEFINE u == SubmittedAt(pc)
  <2>1. u \in TxType /\ (u.kind = "register" => u.arg = proc.env[u.src])
    BY <1>5, NextPlace, TxTyped DEF Submit
  <2>2. flight' = flight \union {u}
    BY <1>5 DEF Submit
  <2> HIDE DEF u
  <2>3. proc'.env = proc.env /\ proc'.script = "flow"
    BY <1>0, <1>5 DEF Submit, ProcType
  <2>4. u.kind = "register" => u.arg = env[u.src]
    <3>1. u.src \in Secret \ {"verifier"}
      BY <2>1 DEF TxType, Person, Secret
    <3> QED
      BY <1>5, <2>1, <3>1 DEF Submit, Held
  <2>5. env' = env /\ contracts' = contracts /\ acct' = acct
    BY <1>5 DEF Submit, files
  <2> QED
    BY <1>5, <2>2, <2>3, <2>4, <2>5 DEF Submit, Held, KeysHeld, OnFile
<1>6. ASSUME NEW pc \in DOMAIN Submitted, Confirm(pc) PROVE Held'
  <2> DEFINE p == [proc EXCEPT !.steps = @ \union {pc}]
  <2>1. p \in ProcType /\ p.env = proc.env
    BY <1>0, NextPlace DEF ProcType
  <2> QED
    BY <1>2, <1>6, <2>1 DEF Confirm, files, network, Rest
<1>7. ASSUME NEW who \in Person, Synced(who) PROVE Held'
  <2>1. proc'.env = proc.env
    BY <1>0, <1>7 DEF Synced, Proceed, ProcType, Person
  <2>2. Echo
    BY <1>7 DEF Synced, network, Echo
  <2> QED
    BY <1>7, <2>1, <2>2, QuietHeld DEF Synced, files, network
<1>8. ASSUME NEW who \in Person, Verified(who) PROVE Held'
  <2>1. proc'.env = proc.env
    BY <1>0, <1>8 DEF Verified, Proceed, ProcType
  <2>2. Echo
    BY <1>8 DEF Verified, network, Echo
  <2> QED
    BY <1>8, <2>1, <2>2, QuietHeld DEF Verified, files, network
<1>9. ASSUME LogWritten PROVE Held'
  <2>1. PICK o \in Outcome : Ends(o)
    BY <1>9 DEF LogWritten, Outcome
  <2>2. Echo /\ proc'.script = None
    BY <1>9, <2>1, EndsEcho, ScriptsAssumption DEF LogWritten
  <2>3. history'.torn = history.torn
    BY <1>9 DEF LogWritten, Typed
  <2> QED
    BY <1>9, <2>2, <2>3, QuietHeld, ScriptsAssumption DEF LogWritten
<1>10. ASSUME FlowTryFails PROVE Held'
  <2>1. Echo /\ proc'.script \in {None, "flow"} /\ (proc'.script # None => proc'.env = proc.env)
    BY <1>10, AgainEcho, ScriptsAssumption DEF FlowTryFails
  <2> QED
    BY <1>10, <2>1, QuietHeld, ScriptsAssumption DEF FlowTryFails, files
<1> QED
  BY <1>1, <1>3, <1>4, <1>5, <1>6, <1>7, <1>8, <1>9, <1>10 DEF FlowStep

\* The scripts that read write no key.
LEMMA ReaderHeld ==
    ASSUME Typed, Held, ReaderStarts \/ ReaderStep \/ ReaderTryFails
    PROVE  Held'
<1> USE DEF Running
<1>1. ASSUME proc'.script \notin {"deploy", "flow"}, Echo,
             UNCHANGED <<env, contracts, acct, history>>
      PROVE  Held'
  BY <1>1, QuietHeld
<1>2. ASSUME ReaderStarts PROVE Held'
  <2>1. PICK script, p : script \in ScriptName \ {"deploy", "flow"} /\ ReaderStart(script, p)
    BY <1>2 DEF ReaderStarts, AuditStart, VisibilityStart, MakeStart, VerifyStart, ScriptName
  <2>2. proc' \in ProcType
    BY <1>2, ReaderTyped DEF Typed
  <2>3. proc' = [p EXCEPT !.script = script, !.pc = "fetch"]
    BY <2>1 DEF ReaderStart
  <2>4. proc'.script \notin {"deploy", "flow"}
    <3>1. proc'.pc = "fetch"
      BY <2>2, <2>3 DEF ProcType
    <3>2. Typed'
      BY <1>2, ReaderTyped
    <3> QED
      BY <3>1, <3>2 DEF Typed, Placed, DeployPc, FlowPc, EarlyPc, LastPc
  <2> QED
    BY <1>1, <2>1, <2>4 DEF ReaderStart, files, network, Echo
<1>3. ASSUME ReaderStep PROVE Held'
  <2>1. PICK o \in Outcome : Ends(o) /\ UNCHANGED <<env, contracts, acct, history>>
    BY <1>3
    DEF ReaderStep, AuditConcludes, Audited, VisibilityConcludes, ReceiptMade, NoReceipt,
        Verdict, ReaderEnds, files, Outcome
  <2>2. proc.script # None
    BY <1>3, ScriptsAssumption
    DEF ReaderStep, AuditConcludes, VisibilityConcludes, ReceiptMade, NoReceipt, Verdict
  <2> QED
    BY <1>1, <2>1, <2>2, EndsEcho, ScriptsAssumption
<1>4. ASSUME ReaderTryFails PROVE Held'
  <2>1. PICK limit \in Nat : Again(limit)
    BY <1>4, ScriptsAssumption DEF ReaderTryFails
  <2>2. proc.script \in ScriptName \ {"deploy", "flow"} /\ proc.script # None
    BY <1>4, ScriptsAssumption DEF ReaderTryFails, ScriptName
  <2> QED
    BY <1>1, <1>4, <2>1, <2>2, AgainEcho, ScriptsAssumption DEF ReaderTryFails, files
<1> QED
  BY <1>2, <1>3, <1>4

\* What a landing does to the key of an account.
LEMMA AfterKey ==
    ASSUME Typed, NEW t \in flight, Valid(t)
    PROVE  \A n \in Start, who \in Person :
              \/ After(t)[n][who].key = acct[n][who].key
              \/ t.kind = "register" /\ who = t.src /\ After(t)[n][who].key = t.arg
<1>1. /\ t.token \in Start /\ t.src \in Person /\ t.arg \in Nat /\ t.kind \in Kind
      /\ "goal" \in Person
      /\ acct \in [Start -> [Person -> AccountType]]
      /\ t.kind \in {"deposit", "transfer"} => t.src = "marta"
  BY DEF Typed, TxType, Person
<1>2. \A a \in AccountType : Merged(a).key = a.key /\ Debited(a).key = a.key
                             /\ \A n \in Nat : Credited(a, n).key = a.key
  BY DEF Merged, Debited, Credited, AccountType
<1>3. DepositAmount \in Nat /\ TransferAmount \in Nat
  BY ScriptsAssumption
<1>4. CASE t.kind = "register"
  BY <1>1, <1>4 DEF After, AccountType
<1>5. CASE t.kind = "deposit"
  <2> DEFINE a == Credited(acct[t.token][t.src], DepositAmount)
  <2>1. a.key = acct[t.token][t.src].key
    BY <1>1, <1>2, <1>3
  <2>2. After(t) = [acct EXCEPT ![t.token][t.src] = a]
    BY <1>1, <1>5 DEF After
  <2> HIDE DEF a
  <2> QED
    BY <1>1, <2>1, <2>2
<1>6. CASE t.kind = "merge"
  <2> DEFINE a == Merged(acct[t.token][t.src])
  <2>1. a.key = acct[t.token][t.src].key
    BY <1>1, <1>2
  <2>2. After(t) = [acct EXCEPT ![t.token][t.src] = a]
    BY <1>1, <1>6 DEF After
  <2> HIDE DEF a
  <2> QED
    BY <1>1, <2>1, <2>2
<1>7. CASE t.kind = "transfer"
  <2> DEFINE a == Debited(acct[t.token]["marta"])
             b == Credited(acct[t.token]["goal"], TransferAmount)
  <2>1. a.key = acct[t.token]["marta"].key /\ b.key = acct[t.token]["goal"].key
    BY <1>1, <1>2, <1>3, <1>7
  <2>2. After(t) = [acct EXCEPT ![t.token]["marta"] = a, ![t.token]["goal"] = b]
    BY <1>1, <1>7 DEF After
  <2> HIDE DEF a, b
  <2> QED
    BY <1>1, <1>7, <2>1, <2>2
<1> QED
  BY <1>1, <1>4, <1>5, <1>6, <1>7 DEF Kind

\* A transaction that lands registers the key its sender has on file.
LEMMA LandHeld ==
    ASSUME Typed, Held, NEW t \in flight, Land(t)
    PROVE  Held'
<1>1. proc'.script = proc.script /\ proc'.env = proc.env
  BY LandTyped DEF Typed, ProcType
<1>2. /\ env' = env /\ contracts' = contracts /\ history' = history
      /\ flight' \subseteq flight
  BY DEF Land
<1>3. \A n \in Start, who \in Person : acct'[n][who].key # 0 => acct'[n][who].key = env[who]
  <2>1. CASE Valid(t)
    BY <2>1, AfterKey DEF Land, Held, KeysHeld, OnFile
  <2>2. CASE ~Valid(t)
    BY <2>2 DEF Land, Held, KeysHeld, OnFile
  <2> QED
    BY <2>1, <2>2
<1> QED
  BY <1>1, <1>2, <1>3 DEF Held, KeysHeld, OnFile

\* Every step.
LEMMA HeldStep == Typed /\ Held /\ Numbered /\ [Next]_vars => Held'
<1> SUFFICES ASSUME Typed, Held, Numbered, [Next]_vars PROVE Held'
  OBVIOUS
<1>1. ASSUME NEW t \in flight, Expire(t) PROVE Held'
  BY <1>1 DEF Expire, Held, KeysHeld, OnFile
<1>2. ASSUME Crash PROVE Held'
  BY <1>2, EndsEcho, QuietHeld, ScriptsAssumption DEF Crash, files, Outcome
<1>3. ASSUME VerifierKeyAdded PROVE Held'
  <2>1. PICK key : env["verifier"] = 0 /\ env' = [env EXCEPT !["verifier"] = key]
    BY <1>3 DEF VerifierKeyAdded
  <2>2. \A s \in Secret \ {"verifier"} : env'[s] = env[s]
    BY <2>1 DEF Typed
  <2>3. Person \subseteq Secret \ {"verifier"}
        /\ \A id \in {0, 1} : AuditorOf[id] \in Secret \ {"verifier"}
    BY DEF Person, Secret, AuditorOf, AuditorSecret
  <2>4. \A t \in flight : t.src \in Secret \ {"verifier"}
    BY <2>3 DEF Typed, TxType
  <2> QED
    BY <1>3, <2>1, <2>2, <2>3, <2>4 DEF VerifierKeyAdded, network, Held, KeysHeld, OnFile
<1>4. CASE UNCHANGED vars
  BY <1>4 DEF vars, Held, KeysHeld, OnFile
<1>5. ASSUME SecretsTorn PROVE Held'
  <2>1. proc'.script = None
    BY <1>5, NoProcTyped DEF SecretsTorn, NoProc
  <2>2. \A n \in Start, who \in Person : acct'[n][who].key = 0
    BY <1>5 DEF SecretsTorn, NoAccount
  <2>3. history'.torn = starts' /\ starts' \in Nat /\ starts <= starts'
    BY <1>5, ScriptsAssumption DEF SecretsTorn, Typed
  <2>4. \A n \in Start, id \in {0, 1} :
           contracts'.keys[n][id] = contracts.keys[n][id] /\ contracts.keys[n][id] <= starts
    BY <1>5 DEF SecretsTorn, Numbered
  <2>5. \A n \in Start, id \in {0, 1} : contracts.keys[n][id] \in Nat /\ starts \in Nat
    BY DEF Typed, ContractsType
  <2>6. \A n \in Start, id \in {0, 1} : ~(contracts'.keys[n][id] > history'.torn)
    BY <2>3, <2>4, <2>5
  <2> QED
    BY <1>5, <2>1, <2>2, <2>6, ScriptsAssumption DEF SecretsTorn, Held, KeysHeld, OnFile
<1>6. ASSUME RecordTorn \/ LogTorn \/ ReceiptTorn PROVE Held'
  <2>1. Echo /\ proc'.script = None
    BY <1>6, EndsEcho, ScriptsAssumption
    DEF RecordTorn, LogTorn, ReceiptTorn, AtDeploy, AtFlow, Running, Outcome
  <2> QED
    BY <1>6, <2>1, QuietHeld, ScriptsAssumption DEF RecordTorn, LogTorn, ReceiptTorn
<1>7. ASSUME Contribute PROVE Held'
  <2>1. \A n \in Start, who \in Person : acct'[n][who].key = acct[n][who].key
    <3> DEFINE a == Given(acct[record.token]["goal"], TransferAmount)
    <3>1. record.token \in Start /\ acct[record.token]["goal"] \in AccountType
      BY <1>7 DEF Contribute, Typed, Person
    <3>2. a.key = acct[record.token]["goal"].key
      BY <3>1 DEF Given, AccountType
    <3>3. acct' = [acct EXCEPT ![record.token]["goal"] = a]
      BY <1>7 DEF Contribute
    <3> HIDE DEF a
    <3> QED
      BY <3>1, <3>2, <3>3 DEF Typed
  <2>2. history'.torn = history.torn
    BY <1>7 DEF Contribute, Typed
  <2> QED
    BY <1>7, <2>1, <2>2 DEF Contribute, files, Held, KeysHeld, OnFile
<1>8. ASSUME Forget PROVE Held'
  <2>1. contracts'.keys = contracts.keys
    BY <1>8 DEF Forget, Typed, ContractsType
  <2>2. Echo
    BY <1>8 DEF Forget, Echo
  <2> QED
    BY <1>8, <2>1, <2>2 DEF Forget, files, Held, KeysHeld, OnFile
<1> QED
  BY <1>1, <1>2, <1>3, <1>4, <1>5, <1>6, <1>7, <1>8,
     DeployHeld, FlowHeld, ReaderHeld, LandHeld
  DEF Next, Step, TryFails, Torn, Chain

\* A step that makes no secret and registers no key of a channel.
LEMMA QuietNumbered ==
    ASSUME Typed, Typed', Numbered, env' = env, contracts'.keys = contracts.keys,
           history'.torn = history.torn,
           \/ starts' = starts /\ (proc'.script = None \/ proc.script # None)
           \/ starts' = starts + 1
    PROVE  Numbered'
<1>1. /\ history.torn \in Nat /\ starts \in Nat /\ env \in [Secret -> Nat]
      /\ \A n \in Start : n \in Nat
      /\ \A n \in Start, id \in {0, 1} : contracts.keys[n][id] \in Nat
  BY ScriptsAssumption DEF Typed, ContractsType, Start
<1> QED
  BY <1>1 DEF Numbered

\* A step that makes secrets, and registers none.
LEMMA AddNumbered ==
    ASSUME Typed, Typed', Numbered, contracts' = contracts,
           history'.torn = history.torn,
           (starts' = starts /\ proc.script # None) \/ starts' = starts + 1,
           \A s \in Secret \ {"verifier"} : env'[s] \in {env[s], starts'}
    PROVE  Numbered'
<1>1. /\ history.torn \in Nat /\ starts \in Nat /\ env \in [Secret -> Nat]
      /\ \A n \in Start : n \in Nat
      /\ \A n \in Start, id \in {0, 1} : contracts.keys[n][id] \in Nat
  BY ScriptsAssumption DEF Typed, ContractsType, Start
<1>2. history.torn < starts' /\ starts <= starts'
  BY <1>1 DEF Numbered
<1> QED
  BY <1>1, <1>2 DEF Numbered

\* Every step.
LEMMA NumberedStep == Typed /\ Held /\ Numbered /\ [Next]_vars => Numbered'
<1> SUFFICES ASSUME Typed, Held, Numbered, [Next]_vars PROVE Numbered'
  OBVIOUS
<1>0. Typed'
  BY TypedStep
<1>1. ASSUME UNCHANGED <<env, contracts, history, starts>>,
             proc'.script = None \/ proc.script # None
      PROVE  Numbered'
  BY <1>0, <1>1, QuietNumbered
<1>2. ASSUME DeployStart \/ FlowStart PROVE Numbered'
  <2>1. PICK names : env' = SaveEnv(Ensure(env, names))
    BY <1>2 DEF DeployStart, FlowStart
  <2>2. \A s \in Secret : env'[s] \in {env[s], starts + 1}
    BY <2>1, EnsureTyped DEF Ensure
  <2>3. history'.torn = history.torn /\ starts' = starts + 1 /\ contracts' = contracts
    BY <1>2 DEF DeployStart, FlowStart, network, Typed
  <2> QED
    BY <1>0, <2>2, <2>3, AddNumbered
<1>3. ASSUME ReaderStarts PROVE Numbered'
  BY <1>0, <1>3, QuietNumbered
  DEF ReaderStarts, AuditStart, VisibilityStart, MakeStart, VerifyStart, ReaderStart,
      files, network
<1>4. ASSUME NEW id \in {0, 1}, AuditorKeyChosen(id) PROVE Numbered'
  <2>1. /\ env' = SaveEnv(AuditorKey(proc.env, AuditorSecret[id + 1]))
        /\ proc.script = "deploy"
        /\ UNCHANGED <<contracts, history, starts>>
    BY <1>4 DEF AuditorKeyChosen, AtDeploy, Running, network
  <2>2. /\ \A s \in Secret \ {"verifier"} : proc.env[s] = env[s]
        /\ proc.env \in [Secret -> Nat] /\ env \in [Secret -> Nat]
        /\ AuditorSecret[id + 1] \in Secret
    BY <2>1 DEF Held, Typed, ProcType, AuditorSecret, Secret
  <2>3. \A s \in Secret \ {"verifier"} : env'[s] \in {env[s], starts}
    BY <2>1, <2>2 DEF SaveEnv, AuditorKey
  <2> QED
    BY <1>0, <2>1, <2>3, AddNumbered, ScriptsAssumption
<1>5. ASSUME NEW id \in {0, 1}, NEW answered \in BOOLEAN,
             AuditorKeyRegistered(id, answered)
      PROVE  Numbered'
  <2> DEFINE s == AuditorSecret[id + 1]
  <2>1. s \in Secret \ {"verifier"}
    BY DEF AuditorSecret, Secret
  <2>2. /\ contracts' = [contracts EXCEPT !.keys[starts][id] = env[s]]
        /\ proc.script = "deploy" /\ proc.script # None
        /\ UNCHANGED <<env, history, starts>>
    BY <1>5, <2>1, ScriptsAssumption
    DEF AuditorKeyRegistered, AtDeploy, Running, Held, files
  <2> HIDE DEF s
  <2>a. starts \in Start /\ \A n \in Start : n \in Nat
    <3>1. starts \in Start
      BY <2>2 DEF Typed, Placed
    <3> QED
      BY <3>1 DEF Start
  <2>b. history.torn \in Nat /\ env \in [Secret -> Nat]
    BY ScriptsAssumption DEF Typed
  <2>c. \A n \in Start, i \in {0, 1} : contracts.keys[n][i] \in Nat
    BY DEF Typed, ContractsType
  <2>3. /\ history.torn \in Nat /\ starts \in Start /\ env \in [Secret -> Nat]
        /\ \A n \in Start : n \in Nat
        /\ \A n \in Start, i \in {0, 1} : contracts.keys[n][i] \in Nat
    BY <2>a, <2>b, <2>c
  <2>4. \A n \in Start, i \in {0, 1} :
           contracts'.keys[n][i] = IF n = starts /\ i = id THEN env[s]
                                   ELSE contracts.keys[n][i]
    BY <2>2, <2>3 DEF Typed, ContractsType
  <2>5. /\ env[s] \in Nat /\ env[s] <= starts
        /\ env[s] # 0 => env[s] > history.torn
    BY <2>1, <2>3 DEF Numbered
  <2>6. ASSUME NEW n \in Start, NEW i \in {0, 1}
        PROVE  /\ contracts'.keys[n][i] <= starts
               /\ n > starts => contracts'.keys[n][i] = 0
               /\ n > history.torn /\ contracts'.keys[n][i] # 0
                     => contracts'.keys[n][i] > history.torn
    BY <2>3, <2>4, <2>5 DEF Numbered
  <2> QED
    BY <2>2, <2>6 DEF Numbered
<1>6. ASSUME VerifierKeyAdded PROVE Numbered'
  <2>1. \A s \in Secret \ {"verifier"} : env'[s] = env[s]
    BY <1>6 DEF VerifierKeyAdded, Typed
  <2> QED
    BY <1>6, <2>1 DEF VerifierKeyAdded, network, Numbered
<1>7. ASSUME SecretsTorn PROVE Numbered'
  <2>1. /\ history'.torn = starts' /\ starts' \in Nat /\ starts <= starts'
        /\ proc'.script = None /\ contracts' = contracts
        /\ \A s \in Secret : env'[s] = 0
    <3>1. history'.torn = starts' /\ starts' \in Nat /\ starts <= starts'
      BY <1>7, ScriptsAssumption DEF SecretsTorn, Typed
    <3>2. proc'.script = None
      BY <1>7 DEF SecretsTorn, NoProc
    <3> QED
      BY <1>7, <3>1, <3>2 DEF SecretsTorn
  <2>2. /\ starts \in Nat /\ \A n \in Start : n \in Nat
        /\ \A n \in Start, id \in {0, 1} : contracts.keys[n][id] \in Nat
    BY ScriptsAssumption DEF Typed, ContractsType, Start
  <2>3. \A n \in Start, id \in {0, 1} :
          /\ contracts.keys[n][id] <= starts'
          /\ n > starts' => contracts.keys[n][id] = 0
    BY <2>1, <2>2 DEF Numbered
  <2> QED
    BY <2>1, <2>2, <2>3 DEF Numbered
<1>8. ASSUME Contribute \/ Forget PROVE Numbered'
  <2>1. /\ contracts'.keys = contracts.keys /\ history'.torn = history.torn
        /\ UNCHANGED <<env, starts, proc>>
    BY <1>8 DEF Contribute, Forget, files, Typed, ContractsType
  <2> QED
    BY <2>1 DEF Numbered
<1>9. ASSUME NEW t \in flight, Land(t) \/ Expire(t) PROVE Numbered'
  <2>1. proc'.script = proc.script
    BY <1>9, LandTyped DEF Expire, Typed, ProcType
  <2> QED
    BY <1>9, <2>1 DEF Land, Expire, Numbered
<1>10. ASSUME Funded \/ VerifierDeployed \/ AuditorDeployed \/ LedgerRead
              \/ TokenDeployed \/ (\E answered \in BOOLEAN : VkRegistered(answered))
              \/ RecordSaved \/ DeployTryFails
       PROVE  Numbered'
  <2>1. /\ proc.script = "deploy" /\ proc.script # None
        /\ contracts'.keys = contracts.keys
        /\ UNCHANGED <<env, history, starts>>
    BY <1>10, ScriptsAssumption
    DEF Funded, VerifierDeployed, AuditorDeployed, LedgerRead, TokenDeployed,
        VkRegistered, RecordSaved, DeployTryFails, AtDeploy, Running, files, network,
        Typed, ContractsType
  <2> QED
    BY <1>0, <2>1, QuietNumbered
<1>11. ASSUME FlowStep \/ FlowTryFails \/ LogTorn PROVE Numbered'
  <2>1. /\ proc.script = "flow" /\ proc.script # None
        /\ UNCHANGED <<env, contracts, starts>> /\ history'.torn = history.torn
    BY <1>11, ScriptsAssumption
    DEF FlowStep, FlowTryFails, LogTorn, FlowCall, Asked, Submit, Confirm, Synced,
        Verified, LogWritten, AtFlow, Running, files, network, Typed
  <2> QED
    BY <1>0, <2>1, QuietNumbered
<1>12. ASSUME ReaderStep \/ ReaderTryFails \/ RecordTorn \/ ReceiptTorn \/ Crash
       PROVE  Numbered'
  <2>1. proc.script # None /\ UNCHANGED <<env, contracts, history, starts>>
    BY <1>12, ScriptsAssumption
    DEF ReaderStep, AuditConcludes, VisibilityConcludes, ReceiptMade, NoReceipt, Verdict,
        ReaderEnds, ReaderTryFails, RecordTorn, ReceiptTorn, Crash, AtDeploy, Running,
        files
  <2> QED
    BY <1>1, <2>1
<1>13. CASE UNCHANGED vars
  BY <1>13 DEF vars, Numbered
<1> QED
  BY <1>2, <1>3, <1>4, <1>5, <1>6, <1>7, <1>8, <1>9, <1>10, <1>11, <1>12, <1>13
  DEF Next, Step, TryFails, Torn, Chain, DeployStep

\* Held and Numbered are invariant.
LEMMA AlwaysHeld == Spec => [](Held /\ Numbered)
<1>1. Init => Held /\ Numbered
  <2> SUFFICES ASSUME Init PROVE Held /\ Numbered
    OBVIOUS
  <2>1. history.torn = 0 /\ starts = 0 /\ proc.script = None
    BY DEF Init, NoHistory, NoProc
  <2>2. /\ \A s \in Secret : env[s] = 0
        /\ \A n \in Start, id \in {0, 1} : contracts.keys[n][id] = 0
    BY DEF Init
  <2> QED
    BY <2>1, <2>2, InitHeld DEF Numbered
<1>2. Typed /\ Held /\ Numbered /\ [Next]_vars => (Held /\ Numbered)'
  BY HeldStep, NumberedStep
<1> QED
  BY <1>1, <1>2, AlwaysTyped, PTL DEF Spec

\* Whatever is registered on chain, and was made since the last interrupted write of
\* .env.deploy, has its secret on file, wherever else a script died (deploy.mjs and
\* flow.mjs save a key before any use of it).
THEOREM KeysAlwaysOnFile == Spec => []KeysOnFile
<1>1. Typed /\ Held => KeysOnFile
  <2> SUFFICES ASSUME Typed, Held PROVE KeysOnFile
    OBVIOUS
  <2>1. history.torn \in Nat /\ \A n \in Start, who \in Person : acct[n][who].key \in Nat
    BY DEF Typed, AccountType
  <2> QED
    BY <2>1 DEF Held, KeysHeld, KeysOnFile, OnFile
<1> QED
  BY <1>1, AlwaysTyped, AlwaysHeld, PTL

-----------------------------------------------------------------------------
(* SecretsKept                                                              *)

\* No step replaces a secret on file, and only an interrupted write loses it.
LEMMA KeptStep ==
    ASSUME Typed, Held, [Next]_vars, ~SecretsTorn
    PROVE  \A s \in Secret : env[s] # 0 => env'[s] = env[s]
<1>0. proc \in ProcType /\ env \in [Secret -> Nat] /\ starts \in Nat
  BY DEF Typed
<1>1. CASE env' = env
  BY <1>1
<1>2. ASSUME VerifierKeyAdded PROVE \A s \in Secret : env[s] # 0 => env'[s] = env[s]
  BY <1>0, <1>2 DEF VerifierKeyAdded
<1>3. ASSUME NEW names, env' = SaveEnv(Ensure(env, names))
      PROVE  \A s \in Secret : env[s] # 0 => env'[s] = env[s]
  BY <1>0, <1>3 DEF SaveEnv, Ensure
<1>4. ASSUME NEW id \in {0, 1}, AuditorKeyChosen(id)
      PROVE  \A s \in Secret : env[s] # 0 => env'[s] = env[s]
  <2>1. env' = SaveEnv(AuditorKey(proc.env, AuditorSecret[id + 1]))
    BY <1>4 DEF AuditorKeyChosen
  <2>2. AuditorSecret[id + 1] \in Secret \ {"verifier"}
    BY DEF AuditorSecret, Secret
  <2>3. /\ \A s \in Secret \ {"verifier"} : proc.env[s] = env[s]
        /\ proc.env["verifier"] \in {0, env["verifier"]}
        /\ proc.env \in [Secret -> Nat]
    BY <1>0, <1>4 DEF AuditorKeyChosen, AtDeploy, Running, Held, ProcType
  <2> QED
    BY <1>0, <2>1, <2>2, <2>3 DEF SaveEnv, AuditorKey
<1>5. CASE DeployStart \/ DeployStep \/ DeployTryFails
  BY <1>1, <1>3, <1>4, <1>5
  DEF DeployStart, DeployStep, DeployTryFails, Funded, VerifierDeployed,
      AuditorDeployed, LedgerRead, TokenDeployed, VkRegistered,
      AuditorKeyRegistered, RecordSaved, files
<1>6. CASE FlowStart \/ FlowStep \/ FlowTryFails
  BY <1>1, <1>3, <1>6
  DEF FlowStart, FlowStep, FlowTryFails, FlowCall, Asked, Submit, Confirm,
      Synced, Verified, LogWritten, files
<1>7. CASE ReaderStarts \/ ReaderStep \/ ReaderTryFails
  BY <1>1, <1>7
  DEF ReaderStarts, ReaderStep, ReaderTryFails, AuditStart, VisibilityStart,
      MakeStart, VerifyStart, ReaderStart, AuditConcludes, VisibilityConcludes,
      ReceiptMade, NoReceipt, Verdict, ReaderEnds, files
<1>8. CASE Crash \/ Chain \/ RecordTorn \/ LogTorn \/ ReceiptTorn \/ Contribute
           \/ Forget \/ UNCHANGED vars
  BY <1>1, <1>8
  DEF Crash, Chain, Land, Expire, RecordTorn, LogTorn, ReceiptTorn, Contribute, Forget,
      vars, files
<1> QED
  BY <1>2, <1>5, <1>6, <1>7, <1>8 DEF Next, Step, TryFails, Torn

\* An interrupted write is of a script that started after the one before it.
LEMMA TornAnew ==
    ASSUME Typed, Numbered, SecretsTorn
    PROVE  history'.torn # history.torn /\ \A s \in Secret : env'[s] = 0
<1>1. history'.torn = starts' /\ starts \in Nat /\ history.torn \in Nat
  BY DEF SecretsTorn, Typed
<1>2. CASE starts' = starts + 1
  BY <1>1, <1>2 DEF Numbered, SecretsTorn
<1>3. CASE starts' = starts /\ proc.script = "deploy"
  BY <1>1, <1>3, ScriptsAssumption DEF Numbered, SecretsTorn
<1> QED
  BY <1>2, <1>3 DEF SecretsTorn, AtDeploy, Running

\* No script and no edit beside a running script loses a secret, and no crash but one
\* in the writing: saveEnvDeploy writes what the script holds over what the file holds
\* by then.
THEOREM SecretsAlwaysKept == Spec => SecretsKept
<1>1. Typed /\ Held /\ Numbered /\ [Next]_vars =>
         [\A s \in Secret :
             env[s] # 0 => \/ env'[s] = env[s]
                           \/ env'[s] = 0 /\ history'.torn # history.torn]_vars
  BY KeptStep, TornAnew
<1> QED
  BY <1>1, AlwaysTyped, AlwaysHeld, PTL DEF Spec, SecretsKept
-----------------------------------------------------------------------------
(* deployment.json                                                         *)

\* A deployment works on an instance of its own and registers in order.
Deployed ==
    /\ \A n \in Start : n > starts =>
          n \notin contracts.tokens /\ contracts.vks[n] = {}
    /\ record # None => record.token <= starts
    /\ proc.script = "deploy" =>
          /\ record # None => record.token < starts
          /\ starts \notin proc.before
          /\ proc.pc \in {"fund", "verifier", "auditor", "ledger", "token"} =>
                starts \notin contracts.tokens /\ contracts.vks[starts] = {}
          /\ proc.pc \in {"fund", "verifier", "auditor", "ledger", "token", "vk"} =>
                proc.vk < Vks
          /\ proc.pc \in {"fund", "verifier", "auditor", "ledger", "token"} =>
                proc.vk = 0
          /\ proc.pc \in TokenPc => proc.token = starts /\ starts \in contracts.tokens
          /\ proc.pc = "vk" =>
                contracts.vks[starts] \in {1..proc.vk, 1..(proc.vk + 1)}
          /\ proc.pc \in {"key0", "reg0", "key1", "reg1", "record"} =>
                contracts.vks[starts] = 1..Vks
          /\ proc.pc = "reg0" => proc.env["auditor0"] # 0
          /\ proc.pc = "reg1" => proc.env["goalView"] # 0
          /\ proc.pc \in {"key1", "reg1", "record"} => contracts.keys[starts][0] # 0
          /\ proc.pc = "record" => contracts.keys[starts][1] # 0
    /\ RecordReady

-----------------------------------------------------------------------------

\* Nothing is recorded at the start.
LEMMA InitDeployed == Init => Deployed
<1> SUFFICES ASSUME Init PROVE Deployed
  OBVIOUS
<1>1. proc.script = None /\ record = None
  BY DEF Init, NoProc
<1>2. \A n \in Start : n \notin contracts.tokens /\ contracts.vks[n] = {}
  BY DEF Init
<1> QED
  BY <1>1, <1>2, ScriptsAssumption DEF Deployed, RecordReady

\* Nothing is deployed or registered with the auditor.
SameDeployed ==
    /\ contracts'.tokens = contracts.tokens /\ contracts'.vks = contracts.vks
    /\ contracts'.keys = contracts.keys

\* No deployment under way after the step, and nothing deployed by it.
LEMMA NoneDeploys ==
    ASSUME Typed, Typed', Deployed, SameDeployed, record' \in {record, None},
           starts' \in {starts, starts + 1}, proc'.script # "deploy"
    PROVE  Deployed'
<1>1. starts \in Nat /\ starts <= starts' /\ starts' \in Nat /\ Start \subseteq Nat
  BY DEF Typed, Start
<1>2. record # None => record.token \in Start
  BY DEF Typed
<1>3. RecordReady'
  BY DEF Deployed, RecordReady, SameDeployed
<1>4. \A n \in Start : n > starts' => n \notin contracts'.tokens /\ contracts'.vks[n] = {}
  BY <1>1 DEF Deployed, SameDeployed
<1>5. record' # None => record'.token <= starts'
  <2>1. record # None => record.token <= starts
    BY DEF Deployed
  <2>2. record # None => record.token \in Nat
    BY <1>1, <1>2
  <2> QED
    BY <1>1, <2>1, <2>2
<1> QED
  BY <1>3, <1>4, <1>5 DEF Deployed

\* The deployment stays where it was.
LEMMA StillDeploys ==
    ASSUME Typed, Deployed, SameDeployed, record' = record, starts' = starts,
           proc'.script = proc.script, proc'.pc = proc.pc, proc'.env = proc.env,
           proc'.token = proc.token, proc'.before = proc.before, proc'.vk = proc.vk
    PROVE  Deployed'
  BY DEF Deployed, RecordReady, SameDeployed

\* Each step of deploy brings the deployment one place further.
LEMMA DeployDeployed ==
    ASSUME Typed, Held, Deployed, DeployStart \/ DeployStep \/ DeployTryFails
    PROVE  Deployed'
<1> USE DEF AtDeploy, Running
<1>a. Typed'
  BY DeployTyped
<1>0. /\ proc \in ProcType /\ Placed
      /\ starts \in Nat /\ Start \subseteq Nat /\ Vks \in Nat \ {0}
      /\ contracts \in [tokens : SUBSET Start, vks : [Start -> SUBSET Nat],
                        keys : [Start -> [{0, 1} -> Nat]], forgotten : 0..MaxStarts]
  BY ScriptsAssumption DEF Typed, Start, ContractsType
<1>1. ASSUME DeployStart PROVE Deployed'
  <2> DEFINE e == Ensure(env, {"deployer"})
  <2>1. e \in [Secret -> Nat]
    BY EnsureTyped
  <2>2. proc' = [NoProc EXCEPT !.script = "deploy", !.pc = "fund", !.env = e]
    BY <1>1 DEF DeployStart
  <2> HIDE DEF e
  <2>3. /\ proc'.script = "deploy" /\ proc'.pc = "fund" /\ proc'.before = {}
        /\ proc'.vk = 0
    BY <2>2, NoProcTyped DEF ProcType, NoProc
  <2>4. /\ starts' = starts + 1 /\ starts' \in Start /\ contracts' = contracts
        /\ record' = record
    BY <1>1, StartTyped DEF DeployStart
  <2>5. record # None => record.token \in Nat
    BY <1>0 DEF Typed
  <2> QED
    BY <1>0, <2>3, <2>4, <2>5 DEF Deployed, RecordReady, TokenPc
<1>2. ASSUME DeployStep \/ DeployTryFails
      PROVE  /\ proc.script = "deploy" /\ starts \in Start /\ starts' = starts
             /\ record # None =>
                   record.token \in Start /\ record.token < starts
  BY <1>0, <1>2, ScriptsAssumption
  DEF DeployStep, DeployTryFails, Funded, VerifierDeployed, AuditorDeployed,
      LedgerRead, TokenDeployed, VkRegistered, AuditorKeyChosen,
      AuditorKeyRegistered, RecordSaved, Placed, Typed, Deployed
<1>3. ASSUME NEW pc1, Proceed(proc, pc1)
      PROVE  /\ proc'.script = proc.script /\ proc'.pc = pc1 /\ proc'.env = proc.env
             /\ proc'.token = proc.token /\ proc'.before = proc.before
             /\ proc'.vk = proc.vk
  BY <1>0, <1>3 DEF Proceed, ProcType
<1>4. ASSUME Funded \/ VerifierDeployed \/ AuditorDeployed PROVE Deployed'
  BY <1>2, <1>3, <1>4
  DEF DeployStep, Funded, VerifierDeployed, AuditorDeployed, files, network,
      Deployed, RecordReady, TokenPc
<1>5. ASSUME LedgerRead PROVE Deployed'
  <2>1. /\ proc'.script = "deploy" /\ proc'.pc = "token"
        /\ proc'.before = contracts.tokens /\ proc'.vk = proc.vk
    BY <1>0, <1>5 DEF LedgerRead, Proceed, ProcType
  <2> QED
    BY <1>2, <1>5, <2>1
    DEF DeployStep, LedgerRead, files, network, Deployed, RecordReady, TokenPc
<1>6. ASSUME TokenDeployed PROVE Deployed'
  <2>1. /\ proc'.script = "deploy" /\ proc'.pc = "vk" /\ proc'.token = starts
        /\ proc'.before = proc.before /\ proc'.vk = proc.vk
    BY <1>0, <1>6 DEF TokenDeployed, Proceed, ProcType
  <2>2. /\ contracts'.tokens = contracts.tokens \union {starts}
        /\ contracts'.vks = contracts.vks /\ contracts'.keys = contracts.keys
    BY <1>0, <1>6 DEF TokenDeployed
  <2>3. proc.vk = 0 /\ contracts.vks[starts] = {} /\ proc.vk < Vks
    BY <1>6 DEF TokenDeployed, Deployed
  <2> QED
    BY <1>0, <1>2, <1>6, <2>1, <2>2, <2>3
    DEF DeployStep, TokenDeployed, files, Deployed, RecordReady, TokenPc
\* What a registration in its place leaves, whether or not it is answered.
<1>7. ASSUME NEW limit \in Nat, Again(limit), proc.script = "deploy"
      PROVE  \/ /\ proc'.script = proc.script /\ proc'.pc = proc.pc
                /\ proc'.env = proc.env /\ proc'.token = proc.token
                /\ proc'.before = proc.before /\ proc'.vk = proc.vk
             \/ proc'.script = None
  <2>1. proc.script # None
    BY <1>7, ScriptsAssumption
  <2> QED
    BY <1>0, <1>7, <2>1, AgainTyped DEF ProcType
<1>8. ASSUME NEW answered \in BOOLEAN, VkRegistered(answered) PROVE Deployed'
  <2> DEFINE vks == contracts.vks[starts] \union {proc.vk + 1}
             v == proc.vk + 1
  <2>1. /\ contracts'.vks = [contracts.vks EXCEPT ![starts] = vks]
        /\ contracts'.tokens = contracts.tokens /\ contracts'.keys = contracts.keys
        /\ record' = record /\ starts' = starts
    BY <1>0, <1>8 DEF VkRegistered, files
  <2>2. /\ proc.pc = "vk" /\ proc.script = "deploy" /\ proc.vk < Vks /\ proc.vk \in Nat
        /\ contracts.vks[starts] \in {1..proc.vk, 1..(proc.vk + 1)}
        /\ starts \in Start
    BY <1>0, <1>2, <1>8 DEF VkRegistered, Deployed, ProcType, DeployStep
  <2>3. vks = 1..v /\ v \in Nat /\ v <= Vks
    BY <1>0, <2>2
  <2> HIDE DEF vks, v
  <2>4. /\ contracts'.vks[starts] = 1..v
        /\ \A n \in Start : n # starts => contracts'.vks[n] = contracts.vks[n]
    BY <1>0, <2>1, <2>2, <2>3
  <2>5. CASE answered
    <3>1. Proceed([proc EXCEPT !.vk = v], IF v = Vks THEN "key0" ELSE "vk")
      BY <1>8, <2>5 DEF VkRegistered, v
    <3>2. /\ proc'.script = "deploy" /\ proc'.pc = (IF v = Vks THEN "key0" ELSE "vk")
          /\ proc'.token = proc.token /\ proc'.before = proc.before /\ proc'.vk = v
      BY <1>0, <2>2, <3>1 DEF Proceed, ProcType
    <3> QED
      BY <1>0, <1>2, <1>8, <2>1, <2>2, <2>3, <2>4, <3>2
      DEF DeployStep, Deployed, RecordReady, TokenPc
  <2>6. CASE ~answered
    <3>1. \/ /\ proc'.script = proc.script /\ proc'.pc = proc.pc
             /\ proc'.env = proc.env /\ proc'.token = proc.token
             /\ proc'.before = proc.before /\ proc'.vk = proc.vk
          \/ proc'.script = None
      BY <1>7, <1>8, <2>2, <2>6, ScriptsAssumption DEF VkRegistered
    <3>2. 1..v = 1..(proc.vk + 1)
      BY DEF v
    <3> QED
      BY <1>0, <1>2, <1>8, <2>1, <2>2, <2>3, <2>4, <3>1, <3>2, ScriptsAssumption
      DEF DeployStep, Deployed, RecordReady, TokenPc
  <2> QED
    BY <2>5, <2>6
<1>9. ASSUME NEW id \in {0, 1}, AuditorKeyChosen(id) PROVE Deployed'
  <2> DEFINE s == AuditorSecret[id + 1]
             e == AuditorKey(proc.env, s)
             pc1 == IF id = 0 THEN "reg0" ELSE "reg1"
  <2>1. s \in Secret /\ s = (IF id = 0 THEN "auditor0" ELSE "goalView")
    BY DEF AuditorSecret, Secret
  <2>2. Proceed([proc EXCEPT !.env = e], pc1)
    BY <1>9 DEF AuditorKeyChosen
  <2>3. starts # 0 /\ starts \in Nat
    BY <1>0, <1>2, <1>9 DEF DeployStep, Start
  <2> HIDE DEF s
  <2>4. e \in [Secret -> Nat] /\ e[s] # 0
    BY <1>0, <2>1, <2>3 DEF AuditorKey, ProcType
  <2> HIDE DEF e
  <2>5. /\ proc'.script = "deploy" /\ proc'.pc = pc1 /\ proc'.env = e
        /\ proc'.token = proc.token /\ proc'.before = proc.before
        /\ proc'.vk = proc.vk
    BY <1>0, <1>9, <2>2 DEF AuditorKeyChosen, Proceed, ProcType
  <2> QED
    BY <1>2, <1>9, <2>1, <2>4, <2>5
    DEF DeployStep, AuditorKeyChosen, network, Deployed, RecordReady, TokenPc
<1>10. ASSUME NEW id \in {0, 1}, NEW answered \in BOOLEAN,
              AuditorKeyRegistered(id, answered)
       PROVE  Deployed'
  <2> DEFINE k == proc.env[AuditorSecret[id + 1]]
  <2>1. k # 0 /\ proc.script = "deploy" /\ starts \in Start
    BY <1>2, <1>10 DEF AuditorKeyRegistered, Deployed, AuditorSecret, DeployStep
  <2>2. contracts' = [contracts EXCEPT !.keys[starts][id] = k]
    BY <1>10 DEF AuditorKeyRegistered
  <2> HIDE DEF k
  <2>3. /\ contracts'.tokens = contracts.tokens /\ contracts'.vks = contracts.vks
        /\ contracts'.keys[starts][id] # 0
        /\ \A n \in Start, x \in {0, 1} :
              n # starts \/ x # id => contracts'.keys[n][x] = contracts.keys[n][x]
    BY <1>0, <2>1, <2>2
  <2>4. /\ proc.pc = (IF id = 0 THEN "reg0" ELSE "reg1")
        /\ record' = record /\ starts' = starts
    BY <1>10 DEF AuditorKeyRegistered, files
  <2>5. CASE answered
    <3>1. Proceed(proc, IF id = 0 THEN "key1" ELSE "record")
      BY <1>10, <2>5 DEF AuditorKeyRegistered
    <3> QED
      BY <1>2, <1>3, <1>10, <2>1, <2>3, <2>4, <3>1
      DEF DeployStep, Deployed, RecordReady, TokenPc
  <2>6. CASE ~answered
    <3>1. \/ /\ proc'.script = proc.script /\ proc'.pc = proc.pc
             /\ proc'.env = proc.env /\ proc'.token = proc.token
             /\ proc'.before = proc.before /\ proc'.vk = proc.vk
          \/ proc'.script = None
      BY <1>7, <1>10, <2>1, <2>6, ScriptsAssumption DEF AuditorKeyRegistered
    <3> QED
      BY <1>2, <1>10, <2>1, <2>3, <2>4, <3>1, ScriptsAssumption
      DEF DeployStep, Deployed, RecordReady, TokenPc
  <2> QED
    BY <2>5, <2>6
<1>11. ASSUME RecordSaved PROVE Deployed'
  <2>1. proc'.script = None
    BY <1>11, EndsTyped, ScriptsAssumption DEF RecordSaved, Outcome
  <2>2. /\ record' = [token |-> proc.token, before |-> proc.before]
        /\ contracts' = contracts
    BY <1>11 DEF RecordSaved, Recorded
  <2>3. record'.token = starts /\ record'.before = proc.before
    BY <1>11, <2>2 DEF RecordSaved, Deployed, TokenPc
  <2>4. RecordReady'
    BY <1>2, <1>11, <2>2, <2>3 DEF RecordSaved, DeployStep, Deployed, RecordReady, TokenPc
  <2> QED
    BY <1>0, <1>2, <1>11, <2>1, <2>2, <2>3, <2>4, ScriptsAssumption
    DEF DeployStep, Deployed
<1>12. ASSUME DeployTryFails PROVE Deployed'
  <2>1. proc'.script = None => Deployed'
    BY <1>a, <1>2, <1>12, NoneDeploys, ScriptsAssumption
    DEF DeployTryFails, files, SameDeployed
  <2> QED
    BY <1>2, <1>7, <1>12, <2>1, StillDeploys, ScriptsAssumption
    DEF DeployTryFails, files, SameDeployed
<1> QED
  BY <1>1, <1>4, <1>5, <1>6, <1>8, <1>9, <1>10, <1>11, <1>12 DEF DeployStep

\* The other scripts deploy nothing and record nothing.
LEMMA OtherDeployed ==
    ASSUME Typed, Deployed,
           \/ FlowStart \/ FlowStep \/ FlowTryFails
           \/ ReaderStarts \/ ReaderStep \/ ReaderTryFails
    PROVE  Deployed'
<1> USE DEF Running, AtFlow
<1>0. Typed' /\ proc' \in ProcType
  BY FlowTyped, ReaderTyped DEF Typed
<1>1. /\ contracts' = contracts /\ record' = record
      /\ starts' \in {starts, starts + 1}
  BY DEF FlowStart, FlowStep, FlowTryFails, FlowCall, Asked, Submit, Confirm,
      Synced, Verified, LogWritten, ReaderStarts, ReaderStep, ReaderTryFails,
      AuditStart, VisibilityStart, MakeStart, VerifyStart, ReaderStart,
      AuditConcludes, VisibilityConcludes, ReceiptMade, NoReceipt, Verdict,
      ReaderEnds, files, network
<1>2. proc'.script # "deploy"
  <2>1. CASE FlowStart
    BY <1>0, <2>1, NoProcTyped DEF FlowStart, ProcType
  <2>2. CASE FlowCall \/ \E who \in Person : Asked(who)
    BY <2>2 DEF FlowCall, Asked, Proceed, Typed, ProcType
  <2>3. CASE \E who \in Person : Synced(who)
    BY <2>3 DEF Synced, Proceed, Person, Typed, ProcType
  <2>4. CASE \E who \in Person : Verified(who)
    BY <2>4 DEF Verified, Proceed, Typed, ProcType
  <2>5. CASE \E pc \in DOMAIN Submitted : Submit(pc) \/ Confirm(pc)
    BY <2>5 DEF Submit, Confirm, Proceed, Typed, ProcType
  <2>6. CASE LogWritten
    <3>1. PICK o \in Outcome : Ends(o)
      BY <2>6 DEF LogWritten, Outcome
    <3> QED
      BY <2>6, <3>1, EndsTyped, ScriptsAssumption DEF LogWritten
  <2>7. CASE FlowTryFails
    BY <2>7, AgainEcho, ScriptsAssumption DEF FlowTryFails
  <2>8. CASE ReaderStarts
    <3>1. PICK script, p :
             /\ script \in ScriptName \ {"deploy", "flow"}
             /\ proc' = [p EXCEPT !.script = script, !.pc = "fetch"]
      BY <2>8
      DEF ReaderStarts, AuditStart, VisibilityStart, MakeStart, VerifyStart,
          ReaderStart, ScriptName
    <3>2. proc'.pc = "fetch"
      BY <1>0, <3>1 DEF ProcType
    <3> QED
      BY <1>0, <3>2 DEF Typed, Placed, DeployPc
  <2>9. CASE ReaderStep
    <3>1. PICK o \in Outcome : Ends(o)
      BY <2>9
      DEF ReaderStep, AuditConcludes, Audited, VisibilityConcludes, ReceiptMade,
          NoReceipt, Verdict, ReaderEnds, Outcome
    <3>2. proc.script # None
      BY <2>9, ScriptsAssumption
      DEF ReaderStep, AuditConcludes, VisibilityConcludes, ReceiptMade, NoReceipt,
          Verdict
    <3> QED
      BY <3>1, <3>2, EndsTyped, ScriptsAssumption
  <2>10. CASE ReaderTryFails
    <3>1. PICK limit \in Nat : Again(limit)
      BY <2>10, ScriptsAssumption DEF ReaderTryFails
    <3>2. proc.script \in ScriptName \ {"deploy", "flow"} /\ proc.script # None
      BY <2>10, ScriptsAssumption DEF ReaderTryFails, ScriptName
    <3> QED
      BY <3>1, <3>2, AgainEcho, ScriptsAssumption
  <2> QED
    BY <2>1, <2>2, <2>3, <2>4, <2>5, <2>6, <2>7, <2>8, <2>9, <2>10 DEF FlowStep
<1> QED
  BY <1>0, <1>1, <1>2, NoneDeploys DEF SameDeployed

\* Every step: only deploy writes contracts and record.
LEMMA DeployedStep == Typed /\ Held /\ Deployed /\ [Next]_vars => Deployed'
<1> SUFFICES ASSUME Typed, Held, Deployed, [Next]_vars PROVE Deployed'
  OBVIOUS
<1>1. ASSUME NEW t \in flight, Land(t) PROVE Deployed'
  <2>1. /\ proc'.script = proc.script /\ proc'.pc = proc.pc /\ proc'.env = proc.env
        /\ proc'.token = proc.token /\ proc'.before = proc.before
        /\ proc'.vk = proc.vk
    <3>1. PICK sent, paid : proc' = [proc EXCEPT !.sent = sent, !.paid = paid]
      BY <1>1, LandTyped
    <3> QED
      BY <3>1 DEF Typed, ProcType
  <2> QED
    BY <1>1, <2>1, StillDeploys DEF Land, SameDeployed
<1>2. CASE VerifierKeyAdded \/ (\E t \in flight : Expire(t)) \/ UNCHANGED vars
  <2>1. UNCHANGED <<contracts, record, starts, proc>>
    BY <1>2 DEF VerifierKeyAdded, Expire, vars, network
  <2> QED
    BY <2>1, StillDeploys DEF SameDeployed
<1>3. ASSUME Crash \/ RecordTorn \/ LogTorn \/ ReceiptTorn PROVE Deployed'
  <2>1. proc'.script = None
    BY <1>3, EndsTyped, ScriptsAssumption
    DEF Crash, RecordTorn, LogTorn, ReceiptTorn, AtDeploy, AtFlow, Running, Outcome
  <2> QED
    BY <1>3, <2>1, TypedStep, NoneDeploys, ScriptsAssumption
    DEF Crash, RecordTorn, LogTorn, ReceiptTorn, files, SameDeployed
<1>4. ASSUME SecretsTorn PROVE Deployed'
  <2>1. proc'.script = None
    BY <1>4 DEF SecretsTorn, NoProc
  <2> QED
    BY <1>4, <2>1, TypedStep, NoneDeploys, ScriptsAssumption DEF SecretsTorn, SameDeployed
<1>5. ASSUME Contribute \/ Forget PROVE Deployed'
  <2>1. SameDeployed /\ UNCHANGED <<record, starts, proc>>
    BY <1>5 DEF Contribute, Forget, files, SameDeployed, Typed, ContractsType
  <2> QED
    BY <2>1, StillDeploys
<1> QED
  BY <1>1, <1>2, <1>3, <1>4, <1>5, DeployDeployed, OtherDeployed
  DEF Next, Step, TryFails, Torn, Chain

\* Deployed is invariant.
LEMMA AlwaysDeployed == Spec => []Deployed
<1>1. Init => Deployed
  BY InitDeployed
<1>2. Typed /\ Held /\ Deployed /\ [Next]_vars => Deployed'
  BY DeployedStep
<1> QED
  BY <1>1, <1>2, AlwaysTyped, AlwaysHeld, PTL DEF Spec

\* deployment.json is written last, and only of an instance that has its token,
\* every verification key and both auditor keys (deploy.mjs, main).
THEOREM RecordAlwaysReady == Spec => []RecordReady
<1>1. Deployed => RecordReady
  BY DEF Deployed
<1> QED
  BY <1>1, AlwaysDeployed, PTL
=============================================================================
