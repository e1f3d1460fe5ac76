-------------------------- MODULE WalletOpsProofs --------------------------
(***************************************************************************)
(* What a press of a button promises, for any number of presses, tries and *)
(* refreshes and any account: it lands at most once, what is shown as done *)
(* is on chain, and a later press that lands was built after it.  All of   *)
(* it rests on the sequence number: a transaction that may still land      *)
(* carries the next one of the account, and so was built after everything  *)
(* that has landed (Timely); and what is sent again is the same.           *)
(***************************************************************************)
EXTENDS WalletOps, TLAPS

Kind == {"register", "deposit", "merge", "transfer"}
PcType == {"read", "wasm", "register", "transfer", "bb", "account", "simulate",
           "ready", "none", "already", "error"}

ChainType ==
    [registered : BOOLEAN, spend : Int, recv : Nat, rev : Nat, seq : Nat,
     landed : Seq([n : Press, seen : Nat])]
ScriptType ==
    [kind : Kind \union {""}, pc : PcType, rev : Nat, seq : Nat,
     asked : SUBSET Asset, seen : Nat]
OpType ==
    [n : 0..MaxPresses, kind : Kind \union {""}, tries : Nat,
     pc : {"none", "fund", "queued", "preparing", "send", "poll"}]
TxType == [n : Press, kind : Kind, rev : Nat, seq : Nat, seen : Nat]

Typed ==
    /\ chain \in ChainType
    /\ script \in [Press -> ScriptType]
    /\ asset \in [Asset -> {"absent", "loading", "ok", "broken"}]
    /\ fetches \in [Asset -> Nat]
    /\ op \in OpType
    /\ presses \in 0..MaxPresses
    /\ net \subseteq TxType
    /\ result \in [Press -> {"none", "success", "failed"}]

\* The awaits of a script of a kind.
Places(kind) == {Awaits(kind)[i] : i \in 1..Len(Awaits(kind))}

\* A transaction in turn was built when everything that has landed had.
Timely(t) ==
    /\ t.seq <= chain.seq + 1
    /\ t.seq = chain.seq + 1 => t.seen = Len(chain.landed)

\* Where a script is, and what it has found.
Placed ==
    \A n \in Press :
        /\ script[n].pc \in Places(script[n].kind) \union {"none", "already", "error"}
        /\ script[n].pc = "already" => script[n].kind = "register" /\ chain.registered
        /\ Timely(script[n])

\* The operation is of the last press, and signs what its own script has built.
Acting ==
    /\ op.pc # "none" => op.n = presses /\ op.n \in Press /\ op.kind \in Kind
    /\ op.pc \in {"preparing", "send", "poll"} => script[op.n].kind = op.kind
    /\ op.pc \in {"send", "poll"} => script[op.n].pc = "ready"

\* A press has one transaction, which its landing puts out of turn.
Sent ==
    /\ \A t \in net : t.n <= presses /\ Timely(t)
    /\ \A i \in DOMAIN chain.landed : chain.landed[i].n <= presses
    /\ \A t, u \in net : t.n = u.n => t = u
    /\ \A t \in net : Landed(t.n) => t.seq <= chain.seq
    /\ op.pc \in {"fund", "queued", "preparing"} =>
          ~Landed(op.n) /\ \A t \in net : t.n # op.n
    /\ op.pc \in {"send", "poll"} =>
          /\ \A t \in net : t.n = op.n => t = Envelope
          /\ Landed(op.n) => script[op.n].seq <= chain.seq
    /\ \A n \in Press : result[n] = "success" => Landed(n)

\* A load that has not begun has not been counted.
Fetched == \A a \in Asset : fetches[a] <= 1 /\ (asset[a] = "absent" => fetches[a] = 0)

Inv ==
    /\ Typed /\ Placed /\ Acting /\ Sent /\ Fetched
    /\ PressLandsOnce /\ OkIsOnChain /\ SecondSawFirst

-----------------------------------------------------------------------------

\* The app is opened on an account and nothing has been pressed.
LEMMA InitInv == Init => Inv
<1> SUFFICES ASSUME Init PROVE Inv
  OBVIOUS
<1> USE PressesAssumption, WalletAssumption
<1>1. /\ chain \in ChainType /\ chain.landed = <<>> /\ chain.seq \in Nat
  <2>1. chain \in [registered : BOOLEAN, spend : Nat, recv : Nat, rev : Nat,
                    seq : Nat, landed : {<<>>}]
    BY DEF Init
  <2>2. <<>> \in Seq([n : Press, seen : Nat])
    OBVIOUS
  <2>3. /\ chain = [registered |-> chain.registered, spend |-> chain.spend,
                    recv |-> chain.recv, rev |-> chain.rev, seq |-> chain.seq,
                    landed |-> chain.landed]
        /\ chain.registered \in BOOLEAN /\ chain.spend \in Nat /\ chain.recv \in Nat
        /\ chain.rev \in Nat /\ chain.seq \in Nat /\ chain.landed = <<>>
    BY <2>1
  <2>4. chain.spend \in Int
    BY <2>3
  <2>5. chain.landed \in Seq([n : Press, seen : Nat])
    BY <2>2, <2>3
  <2> QED
    BY <2>3, <2>4, <2>5 DEF ChainType
<1>2. NoScript \in ScriptType
  BY DEF NoScript, ScriptType, PcType
<1>3. script \in [Press -> ScriptType] /\ \A n \in Press : script[n] = NoScript
  BY <1>2 DEF Init, NoScripts
<1>4. op = NoOp /\ presses = 0 /\ net = {} /\ ui = "idle"
  BY DEF Init
<1>5. Typed
  <2>1. NoOp \in OpType
    BY DEF NoOp, OpType
  <2>2. /\ asset \in [Asset -> {"absent", "loading", "ok", "broken"}]
        /\ fetches \in [Asset -> Nat]
        /\ result \in [Press -> {"none", "success", "failed"}]
    BY DEF Init, NoAssets, NoFetches
  <2> QED
    BY <1>1, <1>3, <1>4, <2>1, <2>2 DEF Typed
<1>6. Placed
  <2>1. NoScript.pc = "none" /\ NoScript.seq = 0
    BY DEF NoScript
  <2> QED
    BY <1>1, <1>3, <2>1 DEF Placed, Timely
<1>7. Acting
  BY <1>4 DEF Acting, NoOp
<1>8. DOMAIN chain.landed = {}
  BY <1>1
<1>9. Sent
  <2>1. \A n \in Press : result[n] = "none"
    BY DEF Init
  <2> QED
    BY <1>4, <1>8, <2>1 DEF Sent, NoOp
<1>10. Fetched
  BY DEF Init, Fetched, NoAssets, NoFetches
<1>11. PressLandsOnce /\ OkIsOnChain /\ SecondSawFirst
  BY <1>4, <1>8 DEF PressLandsOnce, OkIsOnChain, SecondSawFirst
<1> QED
  BY <1>5, <1>6, <1>7, <1>9, <1>10, <1>11 DEF Inv

\* The awaits are places.
LEMMA PlacesTyped ==
    ASSUME NEW kind
    PROVE  /\ Awaits(kind) \in Seq(PcType) /\ Len(Awaits(kind)) >= 3
           /\ Awaits(kind)[Len(Awaits(kind))] = "ready"
           /\ Places(kind) \subseteq PcType
<1>1. /\ Awaits(kind) \in Seq(PcType) /\ Len(Awaits(kind)) >= 3
      /\ Awaits(kind)[Len(Awaits(kind))] = "ready"
  <2>1. CASE kind = "register"
    <3>1. Awaits(kind) = <<"read", "wasm", "register", "bb", "account", "simulate",
                           "ready">>
      BY <2>1 DEF Awaits
    <3> QED
      BY <3>1 DEF PcType
  <2>2. CASE kind = "transfer"
    <3>1. Awaits(kind) = <<"read", "wasm", "transfer", "bb", "account", "simulate",
                           "ready">>
      BY <2>2 DEF Awaits
    <3> QED
      BY <3>1 DEF PcType
  <2>3. CASE kind \notin {"register", "transfer"}
    <3>1. Awaits(kind) = <<"account", "simulate", "ready">>
      BY <2>3 DEF Awaits
    <3> QED
      BY <3>1 DEF PcType
  <2> QED
    BY <2>1, <2>2, <2>3
<1> QED
  BY <1>1 DEF Places

\* The await after one that is not the last is a place of the same script.
LEMMA FollowingPlace ==
    ASSUME NEW n \in Press, script[n].pc \in Places(script[n].kind),
           script[n].pc # "ready"
    PROVE  Following(n) \in Places(script[n].kind)
<1> DEFINE path == Awaits(script[n].kind)
           at == CHOOSE i \in 1..Len(path) : path[i] = script[n].pc
<1>1. path \in Seq(PcType) /\ path[Len(path)] = "ready"
  BY PlacesTyped
<1>2. at \in 1..Len(path) /\ path[at] = script[n].pc
  BY DEF Places
<1>3. at + 1 \in 1..Len(path)
  BY <1>1, <1>2
<1>4. Following(n) = path[at + 1]
  BY DEF Following
<1> QED
  BY <1>3, <1>4 DEF Places
\* A step of a script changes no other, never one that is ready, and what it builds
\* is in turn and knows of all that has landed.
LEMMA ScriptEffect ==
    ASSUME Inv, NEW n \in Press, ScriptStep(n)
    PROVE  /\ chain' = chain /\ script' \in [Press -> ScriptType]
           /\ script[n].pc # "ready" /\ script'[n].kind = script[n].kind
           /\ \A m \in Press : m # n => script'[m] = script[m]
           /\ Timely(script'[n])
           /\ \/ script'[n].pc \in Places(script[n].kind) \union {"error"}
              \/ /\ script'[n].pc = "already"
                 /\ script[n].kind = "register" /\ chain.registered
<1> USE DEF Inv
<1>1. /\ script[n] \in ScriptType /\ chain.rev \in Nat /\ chain.seq \in Nat
      /\ chain.landed \in Seq([n : Press, seen : Nat]) /\ Timely(script[n])
      /\ script \in [Press -> ScriptType]
  BY DEF Typed, ChainType, Placed
<1>2. script[n].pc \notin {"none", "already", "error"} =>
          script[n].pc \in Places(script[n].kind)
  BY DEF Placed
<1>3. Places(script[n].kind) \subseteq PcType
  BY PlacesTyped
<1>4. ASSUME NEW pc \in Places(script[n].kind) \union {"error", "already"}, Goto(n, pc)
      PROVE  /\ script' \in [Press -> ScriptType]
             /\ script'[n].kind = script[n].kind /\ script'[n].pc = pc
             /\ \A m \in Press : m # n => script'[m] = script[m]
             /\ script'[n].seq = script[n].seq /\ script'[n].seen = script[n].seen
  <2>1. pc \in PcType
    BY <1>3 DEF PcType
  <2> QED
    BY <1>1, <1>4, <2>1 DEF Goto, ScriptType
<1>5. ASSUME chain' = chain, NEW pc \in Places(script[n].kind) \union {"error"},
             Goto(n, pc), script[n].pc # "ready"
      PROVE  /\ chain' = chain /\ script' \in [Press -> ScriptType]
             /\ script[n].pc # "ready" /\ script'[n].kind = script[n].kind
             /\ \A m \in Press : m # n => script'[m] = script[m]
             /\ Timely(script'[n])
             /\ script'[n].pc \in Places(script[n].kind) \union {"error"}
  BY <1>1, <1>4, <1>5 DEF Timely
<1>6. CASE Read(n)
  <2>1. script[n].pc = "read" /\ chain' = chain
    BY <1>6 DEF Read, At
  <2>2. Following(n) \in Places(script[n].kind)
    BY <1>2, <2>1, FollowingPlace
  <2>3. CASE script[n].kind = "register" /\ chain.registered
    BY <1>1, <1>4, <1>6, <2>1, <2>3 DEF Read, Timely
  <2>4. CASE script[n].kind = "register" /\ ~chain.registered
    BY <1>5, <1>6, <2>1, <2>2, <2>4 DEF Read
  <2>5. CASE script[n].kind # "register"
    <3>1. PICK pc \in {Following(n), "error"} :
             script' = [script EXCEPT ![n].pc = pc, ![n].rev = chain.rev]
      BY <1>6, <2>5 DEF Read
    <3>2. pc \in PcType /\ pc \in Places(script[n].kind) \union {"error"}
      BY <1>3, <2>2, <3>1 DEF PcType
    <3>3. /\ script' \in [Press -> ScriptType]
          /\ script'[n].kind = script[n].kind /\ script'[n].pc = pc
          /\ script'[n].seq = script[n].seq /\ script'[n].seen = script[n].seen
          /\ \A m \in Press : m # n => script'[m] = script[m]
      BY <1>1, <3>1, <3>2 DEF ScriptType
    <3> QED
      BY <1>1, <2>1, <3>2, <3>3 DEF Timely
  <2> QED
    BY <2>3, <2>4, <2>5
<1>7. CASE Account(n)
  <2>1. script[n].pc = "account" /\ chain' = chain
    BY <1>7 DEF Account, At
  <2>2. Following(n) \in Places(script[n].kind) /\ Following(n) \in PcType
    BY <1>2, <1>3, <2>1, FollowingPlace
  <2>3. script' = [script EXCEPT ![n].pc = Following(n), ![n].seq = chain.seq + 1,
                                 ![n].seen = Len(chain.landed)]
    BY <1>7 DEF Account, NextSeq
  <2>4. chain.seq + 1 \in Nat /\ Len(chain.landed) \in Nat
    BY <1>1
  <2>5. /\ script' \in [Press -> ScriptType]
        /\ script'[n].kind = script[n].kind /\ script'[n].pc = Following(n)
        /\ script'[n].seq = chain.seq + 1 /\ script'[n].seen = Len(chain.landed)
        /\ \A m \in Press : m # n => script'[m] = script[m]
    BY <1>1, <2>2, <2>3, <2>4 DEF ScriptType
  <2> QED
    BY <1>1, <2>1, <2>2, <2>5 DEF Timely
<1>8. CASE Simulate(n)
  <2>1. script[n].pc = "simulate" /\ chain' = chain
    BY <1>8 DEF Simulate, At
  <2>2. Following(n) \in Places(script[n].kind)
    BY <1>2, <2>1, FollowingPlace
  <2> QED
    BY <1>5, <1>8, <2>1, <2>2 DEF Simulate
<1>9. CASE Rejects(n)
  BY <1>5, <1>9 DEF Rejects, At
<1>10. ASSUME NEW a \in Asset, Resume(n, a)
       PROVE  /\ chain' = chain /\ script' \in [Press -> ScriptType]
              /\ script[n].pc # "ready" /\ script'[n].kind = script[n].kind
              /\ \A m \in Press : m # n => script'[m] = script[m]
              /\ Timely(script'[n])
              /\ script'[n].pc \in Places(script[n].kind) \union {"error"}
  <2>1. script[n].pc = a /\ chain' = chain /\ a \in {"wasm", "bb", "register", "transfer"}
    BY <1>10 DEF Resume, At, Asset, Proof
  <2>2. Following(n) \in Places(script[n].kind)
    BY <1>2, <2>1, FollowingPlace
  <2> QED
    BY <1>5, <1>10, <2>1, <2>2 DEF Resume
<1>11. ASSUME NEW a \in Asset, Ask(n, a)
       PROVE  /\ chain' = chain /\ script' \in [Press -> ScriptType]
              /\ script[n].pc # "ready" /\ script'[n].kind = script[n].kind
              /\ \A m \in Press : m # n => script'[m] = script[m]
              /\ Timely(script'[n])
              /\ script'[n].pc \in Places(script[n].kind) \union {"error"}
  <2>1. script[n].pc = a /\ chain' = chain /\ a \in {"wasm", "bb", "register", "transfer"}
    BY <1>11 DEF Ask, At, Asset, Proof
  <2>2. script' = [script EXCEPT ![n].asked = @ \union {a}]
    BY <1>11 DEF Ask
  <2>3. /\ script' \in [Press -> ScriptType]
        /\ script'[n].kind = script[n].kind /\ script'[n].pc = script[n].pc
        /\ script'[n].seq = script[n].seq /\ script'[n].seen = script[n].seen
        /\ \A m \in Press : m # n => script'[m] = script[m]
    BY <1>1, <2>2 DEF ScriptType
  <2> QED
    BY <1>1, <1>2, <2>1, <2>3 DEF Timely
<1>12. CASE Warm(n)
  <2>1. script[n].pc = "bb" /\ chain' = chain
    BY <1>12 DEF Warm, At
  <2>2. Following(n) \in Places(script[n].kind)
    BY <1>2, <2>1, FollowingPlace
  <2> QED
    BY <1>5, <1>12, <2>1, <2>2 DEF Warm
<1> QED
  BY <1>6, <1>7, <1>8, <1>9, <1>10, <1>11, <1>12 DEF ScriptStep
\* The page works on its scripts and its caches, and on nothing of the wallet.
LEMMA PageInv ==
    ASSUME Inv, UNCHANGED <<wallet, net, result>>,
           (\E n \in Press : ScriptStep(n)) \/ (\E a \in Asset : Arrives(a))
    PROVE  Inv'
<1> USE DEF Inv
<1>1. chain' = chain /\ UNCHANGED <<op, presses, ui, net, result>>
  BY ScriptEffect DEF Arrives, wallet
<1>2. /\ asset' \in [Asset -> {"absent", "loading", "ok", "broken"}]
      /\ fetches' \in [Asset -> Nat] /\ Fetched'
  <2>1. ASSUME NEW a \in Asset, Arrives(a)
        PROVE  /\ asset' \in [Asset -> {"absent", "loading", "ok", "broken"}]
               /\ fetches' \in [Asset -> Nat] /\ Fetched'
    BY <2>1 DEF Arrives, Typed, Fetched
  <2>2. ASSUME NEW n \in Press, NEW a \in Asset, Ask(n, a)
        PROVE  /\ asset' \in [Asset -> {"absent", "loading", "ok", "broken"}]
               /\ fetches' \in [Asset -> Nat] /\ Fetched'
    BY <2>2 DEF Ask, Cached, Typed, Fetched
  <2>3. CASE UNCHANGED <<asset, fetches>>
    BY <2>3 DEF Typed, Fetched
  <2> QED
    BY <2>1, <2>2, <2>3 DEF ScriptStep, Read, Warm, Account, Simulate, Rejects, Resume
<1>3. /\ script' \in [Press -> ScriptType]
      /\ \A m \in Press :
            /\ script'[m].kind = script[m].kind /\ Timely(script'[m])
            /\ script[m].pc = "ready" => script'[m] = script[m]
            /\ \/ script'[m] = script[m]
               \/ script'[m].pc \in Places(script[m].kind) \union {"error"}
               \/ /\ script'[m].pc = "already"
                  /\ script[m].kind = "register" /\ chain.registered
  <2>1. ASSUME NEW a \in Asset, Arrives(a) PROVE script' = script
    BY <2>1 DEF Arrives
  <2>2. \A m \in Press : Timely(script[m])
    BY DEF Placed
  <2> QED
    BY <2>1, <2>2, ScriptEffect DEF Typed
<1>4. Typed'
  BY <1>1, <1>2, <1>3 DEF Typed
<1>5. Placed'
  <2> SUFFICES ASSUME NEW n \in Press
               PROVE  /\ script'[n].pc \in Places(script'[n].kind)
                                           \union {"none", "already", "error"}
                      /\ script'[n].pc = "already" =>
                            script'[n].kind = "register" /\ chain.registered
                      /\ Timely(script'[n])
    BY <1>1 DEF Placed, Timely
  <2>1. "already" \notin Places(script[n].kind)
    BY DEF Places, Awaits
  <2> QED
    BY <1>3, <2>1 DEF Placed
<1>6. Acting'
  BY <1>1, <1>3 DEF Acting
<1>7. Sent'
  <2>1. op.pc \in {"send", "poll"} => script'[op.n] = script[op.n]
    BY <1>3 DEF Acting
  <2> QED
    BY <1>1, <2>1 DEF Sent, Timely, Landed, Envelope, Tx
<1>8. PressLandsOnce' /\ OkIsOnChain' /\ SecondSawFirst'
  BY <1>1 DEF PressLandsOnce, OkIsOnChain, SecondSawFirst, Landed
<1> QED
  BY <1>2, <1>4, <1>5, <1>6, <1>7, <1>8

\* The operation goes on or ends; at most its own transaction is sent, in turn.
LEMMA OperationInv ==
    ASSUME Inv, UNCHANGED <<chain, page, presses, result>>,
           op' \in OpType, op'.n = op.n, op'.kind = op.kind,
           \/ op'.pc \in {"none", op.pc}
           \/ op.pc = "fund" /\ op'.pc = "queued"
           \/ op.pc = "preparing" /\ op'.pc = "send" /\ script[op.n].pc = "ready"
           \/ op.pc = "send" /\ op'.pc = "poll",
           \/ net' = net
           \/ op.pc = "send" /\ InTurn(Envelope) /\ net' = net \union {Envelope},
           ui' = "ok" =>
              ui = "ok" \/ Landed(op.n) \/ (op.kind = "register" /\ chain.registered)
    PROVE  Inv'
<1> USE DEF Inv
<1>1. chain' = chain /\ UNCHANGED <<asset, fetches, script, presses, result>>
  BY DEF page
<1>2. op.pc = "send" =>
         /\ Envelope \in TxType /\ Envelope.n = op.n /\ Envelope.seq = script[op.n].seq
         /\ Timely(Envelope) /\ op.n = presses
  BY DEF Acting, Placed, Typed, ScriptType, TxType, Envelope, Tx, Timely
<1>3. Envelope' = Envelope
  BY <1>1 DEF Envelope, Tx
<1>4. Typed'
  BY <1>1, <1>2 DEF Typed
<1>5. Placed' /\ Acting' /\ Fetched'
  BY <1>1 DEF Placed, Timely, Acting, Fetched
<1>6. PressLandsOnce' /\ SecondSawFirst'
  BY <1>1 DEF PressLandsOnce, SecondSawFirst
<1>7. OkIsOnChain'
  BY <1>1 DEF OkIsOnChain, Landed
<1>8. Sent'
  <2>1. CASE net' = net
    BY <1>1, <1>3, <2>1 DEF Sent, Timely, Landed
  <2>2. CASE op.pc = "send" /\ InTurn(Envelope) /\ net' = net \union {Envelope}
    <3>1. /\ Envelope.n = op.n /\ Envelope.seq = chain.seq + 1 /\ Timely(Envelope)
          /\ op.n = presses /\ script[op.n].seq = Envelope.seq
      BY <1>2, <2>2 DEF InTurn
    <3>2. ~Landed(op.n)
      BY <2>2, <3>1 DEF Sent, Typed, ChainType
    <3>3. \A t \in net : t.n = op.n => t = Envelope
      BY <2>2 DEF Sent
    <3>4. presses <= presses
      BY DEF Typed
    <3>5. \A t \in net' : t.n <= presses /\ Timely(t)
      BY <2>2, <3>1, <3>4 DEF Sent
    <3>6. \A t, u \in net' : t.n = u.n => t = u
      BY <2>2, <3>1, <3>3 DEF Sent
    <3>7. \A t \in net' : Landed(t.n) => t.seq <= chain.seq
      BY <2>2, <3>1, <3>2 DEF Sent
    <3>8. \A t \in net' : t.n = op.n => t = Envelope
      BY <2>2, <3>3
    <3> QED
      BY <1>1, <1>3, <2>2, <3>2, <3>5, <3>6, <3>7, <3>8 DEF Sent, Timely, Landed
  <2> QED
    BY <2>1, <2>2
<1> QED
  BY <1>4, <1>5, <1>6, <1>7, <1>8
\* A press is new: nothing of it is in the network or on chain.
LEMMA PressInv ==
    ASSUME Inv, NEW kind \in Kind, PressButton(kind)
    PROVE  Inv'
<1> USE DEF Inv
<1>1. /\ UNCHANGED <<chain, asset, fetches, script, net, result>>
      /\ presses' = presses + 1 /\ presses < MaxPresses /\ ui' = "running"
      /\ op'.n = presses + 1 /\ op'.kind = kind /\ op'.pc \in {"fund", "queued"}
      /\ op' \in OpType
  <2>1. presses \in Nat /\ presses < MaxPresses /\ MaxPresses \in Nat
    <3>1. presses \in 0..MaxPresses /\ MaxPresses \in Nat
      BY PressesAssumption DEF Typed
    <3>2. presses < MaxPresses
      BY DEF PressButton
    <3> QED
      BY <3>1, <3>2
  <2>2. presses + 1 \in 0..MaxPresses /\ kind \in Kind \union {""} /\ 1 \in Nat
    <3>1. presses + 1 \in 0..MaxPresses
      BY <2>1
    <3> QED
      BY <3>1
  <2>3. PICK pc \in {"fund", "queued"} :
           op' = [n |-> presses + 1, kind |-> kind, tries |-> 1, pc |-> pc]
    BY DEF PressButton
  <2>4. /\ op'.n = presses + 1 /\ op'.kind = kind /\ op'.pc \in {"fund", "queued"}
        /\ op' \in OpType
    BY <2>2, <2>3 DEF OpType
  <2> QED
    BY <2>1, <2>4 DEF PressButton, page
<1>2. presses' \in Press /\ presses \in Nat
  BY <1>1, PressesAssumption DEF Typed, Press
<1>3. Typed'
  BY <1>1, <1>2 DEF Typed, Press
<1>4. Placed' /\ Acting' /\ Fetched'
  BY <1>1, <1>2 DEF Placed, Timely, Acting, Fetched
<1>5. Sent'
  <2>1. /\ \A t \in net : t.n \in Nat /\ t.n <= presses
        /\ \A i \in DOMAIN chain.landed :
              chain.landed[i].n \in Nat /\ chain.landed[i].n <= presses
    <3> DEFINE L == [n : Press, seen : Nat]
    <3>0. chain.landed \in Seq(L)
      BY DEF Typed, ChainType
    <3> HIDE DEF L
    <3>1. \A i \in DOMAIN chain.landed : chain.landed[i] \in L
      BY <3>0
    <3> USE DEF L
    <3>2. \A n \in Press : n \in Nat
      BY DEF Press
    <3> QED
      BY <3>1, <3>2 DEF Sent, Typed, TxType
  <2>2. ~Landed(op'.n) /\ \A t \in net : t.n # op'.n
    BY <1>1, <1>2, <2>1 DEF Landed
  <2>3. /\ \A t \in net : t.n <= presses'
        /\ \A i \in DOMAIN chain.landed : chain.landed[i].n <= presses'
    BY <1>1, <1>2, <2>1
  <2> QED
    BY <1>1, <2>2, <2>3 DEF Sent, Timely, Landed
<1>6. PressLandsOnce' /\ SecondSawFirst' /\ OkIsOnChain'
  BY <1>1 DEF PressLandsOnce, SecondSawFirst, OkIsOnChain
<1> QED
  BY <1>3, <1>4, <1>5, <1>6

\* The call of the page starts a script of the press.
LEMMA DispatchedInv ==
    ASSUME Inv, Dispatched
    PROVE  Inv'
<1> USE DEF Inv
<1>1. /\ UNCHANGED <<chain, asset, fetches, ui, presses, net, result>>
      /\ op.pc = "queued" /\ op' = [op EXCEPT !.pc = "preparing"]
      /\ script' = [script EXCEPT ![op.n] = Begun(op.kind)]
  BY DEF Dispatched
<1>2. /\ op.n \in Press /\ op.kind \in Kind /\ op.n = presses
      /\ chain.seq \in Nat
  BY <1>1 DEF Acting, Typed, ChainType
<1>3. /\ op' \in OpType /\ op'.n = op.n /\ op'.kind = op.kind /\ op'.pc = "preparing"
  BY <1>1 DEF Typed, OpType
<1>4. /\ Begun(op.kind) \in ScriptType /\ Begun(op.kind).kind = op.kind
      /\ Begun(op.kind).seq = 0
      /\ Begun(op.kind).pc \in Places(op.kind) /\ Begun(op.kind).pc # "already"
  <2>1. Awaits(op.kind)[1] \in Places(op.kind) /\ Awaits(op.kind)[1] \in PcType
    BY PlacesTyped DEF Places
  <2>2. Awaits(op.kind)[1] # "already"
    BY DEF Awaits
  <2> QED
    BY <1>2, <2>1, <2>2 DEF Begun, NoScript, ScriptType
<1>5. /\ script' \in [Press -> ScriptType] /\ script'[op.n] = Begun(op.kind)
      /\ \A m \in Press : m # op.n => script'[m] = script[m]
  BY <1>1, <1>2, <1>4 DEF Typed
<1>6. Typed'
  BY <1>1, <1>3, <1>5 DEF Typed
<1>7. Placed'
  <2>1. Timely(Begun(op.kind))
    BY <1>2, <1>4 DEF Timely
  <2> QED
    BY <1>1, <1>4, <1>5, <2>1 DEF Placed, Timely
<1>8. Acting' /\ Fetched'
  BY <1>1, <1>2, <1>3, <1>4, <1>5 DEF Acting, Fetched
<1>9. Sent'
  BY <1>1, <1>3 DEF Sent, Timely, Landed
<1>10. PressLandsOnce' /\ SecondSawFirst' /\ OkIsOnChain'
  BY <1>1, <1>3 DEF PressLandsOnce, SecondSawFirst, OkIsOnChain, Landed
<1> QED
  BY <1>6, <1>7, <1>8, <1>9, <1>10

\* What lands was in turn, so nothing of its press had landed, and it knew of all
\* that had; what else was in turn is so no more.
LEMMA LandInv ==
    ASSUME Inv, NEW t \in net, Land(t)
    PROVE  Inv'
<1> USE DEF Inv
<1> DEFINE entry == [n |-> t.n, seen |-> t.seen]
<1>1. /\ t \in TxType /\ t.n \in Press /\ t.seq \in Nat /\ t.seen \in Nat
      /\ chain \in ChainType /\ chain.seq \in Nat
      /\ chain.landed \in Seq([n : Press, seen : Nat]) /\ Len(chain.landed) \in Nat
      /\ entry \in [n : Press, seen : Nat]
  BY DEF Typed, TxType, ChainType
<1>2. /\ t.seq = chain.seq + 1 /\ t.seen = Len(chain.landed) /\ t.n <= presses
      /\ ~Landed(t.n)
  BY <1>1 DEF Land, InTurn, Sent, Timely
<1>3. /\ UNCHANGED <<asset, fetches, script, ui, op, presses>>
      /\ net' = net \ {t}
      /\ result' = [result EXCEPT ![t.n] = IF Accepts(t) THEN "success" ELSE "failed"]
  BY DEF Land, page, wallet
<1>4. /\ chain' \in ChainType /\ chain'.seq = chain.seq + 1
      /\ chain'.landed = IF Accepts(t) THEN Append(chain.landed, entry) ELSE chain.landed
      /\ chain.registered => chain'.registered
  <2>1. /\ After(t) \in ChainType
        /\ chain.registered => After(t).registered
        /\ After(t).landed = chain.landed
    <3> SUFFICES /\ After(t) \in ChainType
                 /\ After(t).registered \in {chain.registered, TRUE}
                 /\ After(t).landed = chain.landed
      BY <1>1 DEF ChainType
    <3>1. CASE t.kind = "register"
      BY <1>1, <3>1 DEF After, ChainType
    <3>2. CASE t.kind = "deposit"
      <4>1. After(t) = [chain EXCEPT !.recv = @ + 1]
        BY <3>2 DEF After
      <4>2. chain.recv + 1 \in Nat
        BY <1>1 DEF ChainType
      <4> QED
        BY <1>1, <4>1, <4>2 DEF ChainType
    <3>3. CASE t.kind = "merge"
      <4>1. CASE chain.recv = 0
        BY <1>1, <3>3, <4>1 DEF After, ChainType
      <4>2. CASE chain.recv # 0
        <5>1. After(t) = [chain EXCEPT !.spend = @ + chain.recv, !.recv = 0,
                                       !.rev = @ + 1]
          BY <3>3, <4>2 DEF After
        <5>2. /\ chain.spend + chain.recv \in Int /\ chain.rev + 1 \in Nat
              /\ 0 \in Nat
          BY <1>1 DEF ChainType
        <5> QED
          BY <1>1, <5>1, <5>2 DEF ChainType
      <4> QED
        BY <4>1, <4>2
    <3>4. CASE t.kind = "transfer"
      <4>1. After(t) = [chain EXCEPT !.spend = @ - 1, !.rev = @ + 1]
        BY <3>4 DEF After
      <4>2. chain.spend - 1 \in Int /\ chain.rev + 1 \in Nat
        BY <1>1 DEF ChainType
      <4> QED
        BY <1>1, <4>1, <4>2 DEF ChainType
    <3> QED
      BY <1>1, <3>1, <3>2, <3>3, <3>4 DEF TxType, Kind
  <2>2. PICK c \in ChainType :
           /\ c.landed = chain.landed
           /\ chain.registered => c.registered
           /\ chain' = [c EXCEPT !.seq = t.seq,
                          !.landed = IF Accepts(t) THEN Append(@, entry) ELSE @]
    BY <1>1, <2>1 DEF Land
  <2>3. Append(chain.landed, entry) \in Seq([n : Press, seen : Nat])
    BY <1>1
  <2> QED
    BY <1>1, <1>2, <2>2, <2>3 DEF ChainType
<1>5. Typed'
  BY <1>1, <1>3, <1>4 DEF Typed
<1>6. \A u : u.seq \in Nat /\ Timely(u) => Timely(u)' /\ u.seq <= chain'.seq
  BY <1>1, <1>4 DEF Timely
<1>7. Placed'
  BY <1>3, <1>4, <1>6 DEF Placed, Typed, ScriptType
<1>8. Acting' /\ Fetched'
  BY <1>3 DEF Acting, Fetched
<1>9. \A i \in DOMAIN chain'.landed :
          \/ i \in DOMAIN chain.landed /\ chain'.landed[i] = chain.landed[i]
          \/ i = Len(chain.landed) + 1 /\ chain'.landed[i] = entry
  BY <1>1, <1>4
<1>10. /\ DOMAIN chain.landed = 1..Len(chain.landed)
       /\ \A i \in DOMAIN chain.landed :
             i \in DOMAIN chain'.landed /\ chain'.landed[i] = chain.landed[i]
       /\ Accepts(t) => /\ Len(chain.landed) + 1 \in DOMAIN chain'.landed
                        /\ chain'.landed[Len(chain.landed) + 1] = entry
  BY <1>1, <1>4
<1>11. \A n : Landed(n) => Landed(n)'
  BY <1>10 DEF Landed
<1>12. \A n : Landed(n)' => Landed(n) \/ n = t.n
  BY <1>9 DEF Landed
<1>13. PressLandsOnce'
  <2> SUFFICES ASSUME NEW i \in DOMAIN chain'.landed, NEW j \in DOMAIN chain'.landed,
                      chain'.landed[i].n = chain'.landed[j].n
               PROVE  i = j
    BY DEF PressLandsOnce
  <2> QED
    BY <1>2, <1>9 DEF PressLandsOnce, Landed
<1>14. SecondSawFirst'
  <2> SUFFICES ASSUME NEW i \in DOMAIN chain'.landed, NEW j \in DOMAIN chain'.landed,
                      i < j
               PROVE  i <= chain'.landed[j].seen
    BY DEF SecondSawFirst
  <2>1. CASE j \in DOMAIN chain.landed
    <3>1. i \in DOMAIN chain.landed
      BY <1>1, <1>9, <1>10, <2>1
    <3> QED
      BY <1>10, <2>1, <3>1 DEF SecondSawFirst
  <2>2. CASE j \notin DOMAIN chain.landed
    <3>1. j = Len(chain.landed) + 1 /\ chain'.landed[j] = entry
      BY <1>9, <2>2
    <3>2. i \in DOMAIN chain.landed
      BY <1>9, <3>1
    <3> QED
      BY <1>1, <1>2, <1>10, <3>1, <3>2
  <2> QED
    BY <2>1, <2>2
<1>15. OkIsOnChain'
  BY <1>3, <1>4, <1>11 DEF OkIsOnChain
<1>16. Sent'
  <2>1. \A u \in net' : u.n # t.n
    BY <1>3 DEF Sent
  <2>2. \A u \in net' : u.n <= presses /\ Timely(u)' /\ u.seq <= chain'.seq
    BY <1>3, <1>6 DEF Sent, Typed, TxType
  <2>3. \A i \in DOMAIN chain'.landed : chain'.landed[i].n <= presses
    BY <1>2, <1>9 DEF Sent
  <2>4. op.pc \in {"fund", "queued", "preparing"} =>
           ~Landed(op.n)' /\ \A u \in net' : u.n # op.n
    BY <1>3, <1>12 DEF Sent
  <2>5. op.pc \in {"send", "poll"} =>
           /\ \A u \in net' : u.n = op.n => u = Envelope
           /\ script[op.n].seq <= chain'.seq
    BY <1>3, <1>6 DEF Sent, Acting, Placed, Typed, ScriptType
  <2>6. \A n \in Press : result'[n] = "success" => Landed(n)'
    <3> SUFFICES ASSUME NEW n \in Press, result'[n] = "success" PROVE Landed(n)'
      OBVIOUS
    <3>1. CASE n = t.n
      <4>1. Accepts(t)
        BY <1>1, <1>3, <3>1 DEF Typed
      <4> QED
        BY <1>10, <3>1, <4>1 DEF Landed
    <3>2. CASE n # t.n
      BY <1>1, <1>3, <1>11, <3>2 DEF Sent, Typed
    <3> QED
      BY <3>1, <3>2
  <2>7. Envelope' = Envelope
    BY <1>3 DEF Envelope, Tx
  <2>8. \A u, v \in net' : u.n = v.n => u = v
    BY <1>3 DEF Sent
  <2> QED
    BY <1>3, <2>2, <2>3, <2>4, <2>5, <2>6, <2>7, <2>8 DEF Sent
<1> QED
  BY <1>5, <1>7, <1>8, <1>13, <1>14, <1>15, <1>16
\* A transaction that expires is only gone.
LEMMA ExpireInv ==
    ASSUME Inv, NEW t \in net, Expire(t)
    PROVE  Inv'
<1> USE DEF Inv
<1>1. /\ UNCHANGED <<chain, asset, fetches, script, ui, op, presses, result>>
      /\ net' = net \ {t}
  BY DEF Expire, page, wallet
<1>2. Typed' /\ Placed' /\ Acting' /\ Fetched'
  BY <1>1 DEF Typed, Placed, Timely, Acting, Fetched
<1>3. Envelope' = Envelope
  BY <1>1 DEF Envelope, Tx
<1>4. Sent'
  BY <1>1, <1>3 DEF Sent, Timely, Landed
<1>5. PressLandsOnce' /\ SecondSawFirst' /\ OkIsOnChain'
  BY <1>1 DEF PressLandsOnce, SecondSawFirst, OkIsOnChain, Landed
<1> QED
  BY <1>2, <1>4, <1>5

\* A restart forgets all but the network, the chain and the number of presses.
LEMMA RestartInv ==
    ASSUME Inv, Restart
    PROVE  Inv'
<1> USE DEF Inv
<1>1. /\ UNCHANGED <<chain, presses, net, result>>
      /\ asset' = NoAssets /\ fetches' = NoFetches /\ script' = NoScripts
      /\ ui' = "idle" /\ op' = NoOp
  BY DEF Restart
<1>2. NoScript \in ScriptType /\ NoScript.pc = "none" /\ NoScript.seq = 0
  BY DEF NoScript, ScriptType, PcType
<1>3. script' \in [Press -> ScriptType] /\ \A n \in Press : script'[n] = NoScript
  BY <1>1, <1>2 DEF NoScripts
<1>4. NoOp \in OpType /\ NoOp.pc = "none"
  BY PressesAssumption DEF NoOp, OpType
<1>5. /\ asset' \in [Asset -> {"absent", "loading", "ok", "broken"}]
      /\ fetches' \in [Asset -> Nat] /\ Fetched'
  BY <1>1 DEF NoAssets, NoFetches, Fetched
<1>6. Typed'
  BY <1>1, <1>3, <1>4, <1>5 DEF Typed
<1>7. Placed'
  <2>1. chain.seq \in Nat
    BY DEF Typed, ChainType
  <2> QED
    BY <1>1, <1>2, <1>3, <2>1 DEF Placed, Timely
<1>8. Acting'
  BY <1>1, <1>4 DEF Acting
<1>9. Sent'
  BY <1>1, <1>4 DEF Sent, Timely, Landed
<1>10. PressLandsOnce' /\ SecondSawFirst' /\ OkIsOnChain'
  BY <1>1 DEF PressLandsOnce, SecondSawFirst, OkIsOnChain
<1> QED
  BY <1>5, <1>6, <1>7, <1>8, <1>9, <1>10

\* Every step of the operation is one of those above.
LEMMA OpInv ==
    ASSUME Inv, OpStep
    PROVE  Inv'
<1> USE DEF Inv
<1>1. op \in OpType
  BY DEF Typed
<1>2. CASE Failed
  <2>1. /\ op' = [op EXCEPT !.pc = "none"] /\ ui' = "failed" /\ net' = net
        /\ UNCHANGED <<chain, page, presses, result>>
    BY <1>2 DEF Failed
  <2>2. op' \in OpType /\ op'.n = op.n /\ op'.kind = op.kind /\ op'.pc = "none"
    BY <1>1, <2>1 DEF OpType
  <2> QED
    BY <2>1, <2>2, OperationInv
<1>3. ASSUME Succeeds,
             Landed(op.n) \/ (op.kind = "register" /\ chain.registered)
      PROVE  Inv'
  <2>1. /\ op' = [op EXCEPT !.pc = "none"] /\ net' = net
        /\ UNCHANGED <<chain, page, presses, result>>
    BY <1>3 DEF Succeeds
  <2>2. op' \in OpType /\ op'.n = op.n /\ op'.kind = op.kind /\ op'.pc = "none"
    BY <1>1, <2>1 DEF OpType
  <2> QED
    BY <1>3, <2>1, <2>2, OperationInv
<1>4. CASE Funded
  <2>1. /\ op.pc = "fund" /\ op' = [op EXCEPT !.pc = "queued"] /\ ui' = ui /\ net' = net
        /\ UNCHANGED <<chain, page, presses, result>>
    BY <1>4 DEF Funded
  <2>2. op' \in OpType /\ op'.n = op.n /\ op'.kind = op.kind /\ op'.pc = "queued"
    BY <1>1, <2>1 DEF OpType
  <2> QED
    BY <2>1, <2>2, OperationInv
<1>5. CASE Prepared
  <2>1. op.pc = "preparing" /\ op.n \in Press /\ script[op.n].kind = op.kind
    BY <1>5 DEF Prepared, Acting
  <2>2. CASE At(op.n, "ready") /\ op' = [op EXCEPT !.pc = "send"]
             /\ UNCHANGED <<chain, page, ui, presses, net, result>>
    <3>1. op' \in OpType /\ op'.n = op.n /\ op'.kind = op.kind /\ op'.pc = "send"
      BY <1>1, <2>2 DEF OpType
    <3> QED
      BY <2>1, <2>2, <3>1, OperationInv DEF At
  <2>3. CASE At(op.n, "already") /\ Succeeds
    BY <1>3, <2>1, <2>3 DEF At, Placed
  <2>4. CASE Failed
    BY <1>2, <2>4
  <2> QED
    BY <1>5, <2>2, <2>3, <2>4 DEF Prepared
<1>6. ASSUME SendAgain, op.pc = "send", UNCHANGED <<chain, page, result>>,
             net' = net \/ (InTurn(Envelope) /\ net' = net \union {Envelope})
      PROVE  Inv'
  <2>1. op.tries + 1 \in Nat
    <3>1. op.tries \in Nat
      BY <1>1 DEF OpType
    <3> QED
      BY <3>1
  <2>2. op' \in OpType /\ op'.n = op.n /\ op'.kind = op.kind /\ op'.pc \in {"send", "none"}
    <3>1. CASE op' = [op EXCEPT !.tries = @ + 1]
      BY <1>1, <1>6, <2>1, <3>1 DEF OpType
    <3>2. CASE op' = [op EXCEPT !.pc = "none"]
      BY <1>1, <3>2 DEF OpType
    <3> QED
      BY <1>6, <3>1, <3>2 DEF SendAgain
  <2>3. presses' = presses /\ (ui' = ui \/ ui' = "failed")
    BY <1>6 DEF SendAgain
  <2> QED
    BY <1>6, <2>2, <2>3, OperationInv
<1>7. ASSUME NEW answered \in BOOLEAN, SendTaken(answered) PROVE Inv'
  <2>1. /\ op.pc = "send" /\ UNCHANGED <<chain, page, result>>
        /\ net' = net \/ (InTurn(Envelope) /\ net' = net \union {Envelope})
    BY <1>7 DEF SendTaken
  <2>2. CASE answered
    <3>1. op' = [op EXCEPT !.pc = "poll"] /\ UNCHANGED <<ui, presses>>
      BY <1>7, <2>2 DEF SendTaken
    <3>2. op' \in OpType /\ op'.n = op.n /\ op'.kind = op.kind /\ op'.pc = "poll"
      BY <1>1, <3>1 DEF OpType
    <3> QED
      BY <2>1, <3>1, <3>2, OperationInv
  <2>3. CASE ~answered
    BY <1>6, <1>7, <2>1, <2>3 DEF SendTaken
  <2> QED
    BY <2>2, <2>3
<1>8. CASE SendLost
  BY <1>6, <1>8 DEF SendLost
<1>9. CASE PollConfirms
  <2>1. op.pc = "poll" /\ Succeeds /\ result[op.n] = "success" /\ op.n \in Press
    BY <1>9 DEF PollConfirms, Confirmed, Acting
  <2> QED
    BY <1>3, <2>1 DEF Sent
<1> QED
  BY <1>2, <1>4, <1>5, <1>7, <1>8, <1>9, DispatchedInv
  DEF OpStep, CannotPrepare, SendRefused, PollFails

\* Every step keeps the invariant.
LEMMA NextInv == Inv /\ [Next]_vars => Inv'
<1> SUFFICES ASSUME Inv, [Next]_vars PROVE Inv'
  OBVIOUS
<1>1. ASSUME UNCHANGED <<chain, page, op, presses, net, result>>, ui' = ui
      PROVE  Inv'
  <2>1. op' \in OpType
    BY <1>1 DEF Inv, Typed
  <2> QED
    BY <1>1, <2>1, OperationInv
<1>2. ASSUME NEW r \in Reads, Refresh(r) \/ ReadStep(r) PROVE Inv'
  BY <1>1, <1>2 DEF Refresh, ReadStep, StatusRead, StatusShown, StatusFails
<1>3. ASSUME NEW kind \in Kind, PressButton(kind) PROVE Inv'
  BY <1>3, PressInv
<1>4. CASE OpStep
  BY <1>4, OpInv
<1>5. CASE /\ \/ \E n \in Press : ScriptStep(n)
              \/ \E a \in Asset : Arrives(a)
           /\ UNCHANGED <<wallet, net, result>>
  BY <1>5, PageInv
<1>6. ASSUME NEW t \in net, Land(t) \/ Expire(t) PROVE Inv'
  BY <1>6, LandInv, ExpireInv
<1>7. CASE Restart
  BY <1>7, RestartInv
<1>8. CASE UNCHANGED vars
  BY <1>1, <1>8 DEF vars, wallet
<1> QED
  BY <1>2, <1>3, <1>4, <1>5, <1>6, <1>7, <1>8 DEF Next, Kind

\* Inv is invariant.
LEMMA AlwaysInv == Spec => []Inv
<1>1. Init => Inv
  BY InitInv
<1>2. Inv /\ [Next]_vars => Inv'
  BY NextInv
<1> QED
  BY <1>1, <1>2, PTL DEF Spec

\* However often a transaction is sent, and whatever lands late, a press of a button
\* lands at most once (SorobanRpc.kt, sendTransaction; SobreViewModel.kt, run).
THEOREM PressAlwaysLandsOnce == Spec => []PressLandsOnce
<1>1. Inv => PressLandsOnce
  BY DEF Inv
<1> QED
  BY <1>1, AlwaysInv, PTL

\* What the screen shows as done is on chain (pollUntilComplete's verdict).
THEOREM OkIsAlwaysOnChain == Spec => []OkIsOnChain
<1>1. Inv => OkIsOnChain
  BY DEF Inv
<1> QED
  BY <1>1, AlwaysInv, PTL

\* A transaction lands only when everything that landed before it had landed before
\* it was built: no two presses are ever applied beside each other.
THEOREM SecondAlwaysSawFirst == Spec => []SecondSawFirst
<1>1. Inv => SecondSawFirst
  BY DEF Inv
<1> QED
  BY <1>1, AlwaysInv, PTL

\* However many scripts outlive their calls, the page starts the load of the wasm, of
\* bb.js and of each circuit once between two restarts, because it caches promises
\* (raiz-shim.js, ensureNoirWasm, loadBb and loadCircuit; not the backends).
THEOREM AssetsLoadOnce == Spec => []LoadedOnce
<1>1. Inv => LoadedOnce
  BY DEF Inv, Fetched, LoadedOnce
<1> QED
  BY <1>1, AlwaysInv, PTL

-----------------------------------------------------------------------------
(* The balance that is shown after an operation                             *)

\* The bridge's mutex: the callers in line, each once.
Caller == Reads \union {"op"}
Line(q) == {q[i] : i \in 1..Len(q)}
Once(q) == \A i, j \in 1..Len(q) : q[i] = q[j] => i = j
ReadType ==
    [pc : {"none", "queued", "answered"}, asOf : Nat,
     registered : {"unknown", "yes", "no"}]
ShownType ==
    [loading : BOOLEAN, error : BOOLEAN, asOf : Nat,
     registered : {"unknown", "yes", "no"}]

\* A read is in line from its start to its end; an operation while it is
\* prepared, behind the reads it found.  No read starts while an operation runs,
\* so that none is left when it prepares.
Mutex ==
    /\ queue \in Seq(Caller) /\ Once(queue)
    /\ read \in [Reads -> ReadType] /\ shown \in ShownType
    /\ \A r \in Reads : r \in Line(queue) <=> read[r].pc # "none"
    /\ "op" \in Line(queue) <=> op.pc \in {"queued", "preparing"}
    /\ \A r \in Reads : read[r].pc = "answered" => Turn(r)
    /\ op.pc = "queued" => queue[Len(queue)] = "op"
    /\ op.pc \in {"preparing", "send", "poll"} =>
          \A r \in Reads : read[r].pc = "none"
    /\ ui = "running" <=> op.pc # "none"

\* What an operation shown as done has put on chain is in all that is read after
\* it; what has put nothing there never will.
Current ==
    ui = "ok" =>
        \/ /\ ~Landed(op.n)
           /\ \A t \in net : t.n # op.n
        \/ \E i \in DOMAIN chain.landed :
              /\ chain.landed[i].n = op.n
              /\ \A r \in Reads : read[r].pc = "answered" => i <= read[r].asOf
              /\ ~shown.loading /\ ~shown.error => i <= shown.asOf

\* A caller that joins the line is its last.
LEMMA Joins ==
    ASSUME NEW q \in Seq(Caller), NEW c \in Caller, Once(q), c \notin Line(q)
    PROVE  /\ Append(q, c) \in Seq(Caller) /\ Once(Append(q, c))
           /\ Line(Append(q, c)) = Line(q) \union {c}
           /\ Append(q, c)[Len(Append(q, c))] = c
           /\ Append(q, c) # <<>>
           /\ q # <<>> => Head(Append(q, c)) = Head(q)
<1> DEFINE p == Append(q, c)
<1>1. /\ p \in Seq(Caller) /\ Len(p) = Len(q) + 1 /\ Len(q) \in Nat
      /\ \A i \in 1..Len(q) : p[i] = q[i]
      /\ p[Len(q) + 1] = c
  OBVIOUS
<1>2. \A i \in 1..Len(q) : q[i] # c
  BY DEF Line
<1> HIDE DEF p
<1>3. Once(p)
  BY <1>1, <1>2 DEF Once
<1>4. Line(p) = Line(q) \union {c}
  <2>1. \A i \in 1..Len(p) : i \in 1..Len(q) \/ i = Len(q) + 1
    BY <1>1
  <2>2. \A i \in 1..Len(q) + 1 : i \in 1..Len(p)
    BY <1>1
  <2>3. \A i \in 1..Len(q) : i \in 1..Len(q) + 1
    BY <1>1
  <2>4. Len(q) + 1 \in 1..Len(q) + 1
    BY <1>1
  <2> QED BY <1>1, <2>1, <2>2, <2>3, <2>4 DEF Line
<1>5. p # <<>> /\ (q # <<>> => Head(p) = Head(q))
  <2>1. \A x \in Seq(Caller) : (x = <<>> <=> Len(x) = 0) /\ (x # <<>> => Head(x) = x[1])
    OBVIOUS
  <2>2. Len(q) # 0 => 1 \in 1..Len(q)
    BY <1>1
  <2> QED BY <1>1, <2>1, <2>2
<1> QED BY <1>1, <1>3, <1>4, <1>5 DEF p

\* A caller that is done leaves the line to the others.
LEMMA Leaves ==
    ASSUME queue \in Seq(Caller), Once(queue),
           NEW c, Turn(c) \/ c \notin Line(queue)
    PROVE  /\ Done(c) \in Seq(Caller) /\ Once(Done(c))
           /\ Line(Done(c)) = Line(queue) \ {c}
           /\ Done(c) # <<>> => Done(c)[Len(Done(c))] = queue[Len(queue)]
           /\ c \notin Line(queue) => Done(c) = queue
<1>1. CASE Turn(c)
  <2> DEFINE p == Tail(queue)
  <2>1. /\ Done(c) = p /\ queue # <<>> /\ Head(queue) = c
    BY <1>1 DEF Turn, Done
  <2>2. /\ p \in Seq(Caller) /\ Len(queue) \in Nat /\ Len(p) = Len(queue) - 1
        /\ \A i \in 1..Len(p) : p[i] = queue[i + 1]
        /\ queue[1] = c /\ Len(queue) >= 1
    BY <2>1
  <2> HIDE DEF p
  <2>3. Once(p)
    BY <2>2 DEF Once
  <2>4. Line(p) = Line(queue) \ {c}
    <3>1. \A i \in 1..Len(p) : i + 1 \in 1..Len(queue) /\ queue[i + 1] # c
      BY <2>2 DEF Once
    <3>2. \A i \in 1..Len(queue) : i # 1 => i - 1 \in 1..Len(p) /\ p[i - 1] = queue[i]
      BY <2>2
    <3>3. ASSUME NEW d \in Line(p)
          PROVE  d \in Line(queue) \ {c}
      <4>1. PICK i \in 1..Len(p) : d = p[i]
        BY DEF Line
      <4>2. i + 1 \in 1..Len(queue) /\ d = queue[i + 1] /\ d # c
        BY <2>2, <3>1, <4>1
      <4> QED BY <4>2 DEF Line
    <3>4. ASSUME NEW d \in Line(queue), d # c
          PROVE  d \in Line(p)
      <4>1. PICK i \in 1..Len(queue) : d = queue[i]
        BY DEF Line
      <4>2. i - 1 \in 1..Len(p) /\ d = p[i - 1]
        BY <2>2, <3>2, <3>4, <4>1
      <4> QED BY <4>2 DEF Line
    <3> QED BY <3>3, <3>4
  <2>5. p # <<>> => p[Len(p)] = queue[Len(queue)]
    <3>1. p # <<>> => Len(p) \in 1..Len(p)
      BY <2>2
    <3> QED BY <2>2, <3>1
  <2>6. c \in Line(queue)
    BY <2>2 DEF Line
  <2> QED BY <2>1, <2>2, <2>3, <2>4, <2>5, <2>6
<1>2. CASE c \notin Line(queue)
  <2>1. queue # <<>> => Head(queue) \in Line(queue)
    <3> SUFFICES ASSUME queue # <<>>
        PROVE  Head(queue) \in Line(queue)
      OBVIOUS
    <3>1. 1 \in 1..Len(queue) /\ Head(queue) = queue[1]
      OBVIOUS
    <3> QED BY <3>1 DEF Line
  <2>2. Done(c) = queue
    BY <1>2, <2>1 DEF Done
  <2> QED BY <1>2, <2>2
<1> QED BY <1>1, <1>2

\* When the operation has its turn at the bridge, nobody is behind it.
LEMMA AloneInLine ==
    ASSUME Mutex, op.pc = "queued", Turn("op")
    PROVE  \A r \in Reads : read[r].pc = "none"
<1>1. /\ queue \in Seq(Caller) /\ Once(queue) /\ queue # <<>> /\ Head(queue) = "op"
      /\ queue[Len(queue)] = "op"
  BY DEF Mutex, Turn
<1>2. Len(queue) \in Nat /\ Len(queue) # 0 /\ queue[1] = "op"
  BY <1>1
<1>3. 1 \in 1..Len(queue) /\ Len(queue) \in 1..Len(queue)
  BY <1>2
<1>4. Len(queue) = 1
  BY <1>1, <1>2, <1>3 DEF Once
<1>5. Line(queue) = {"op"}
  BY <1>2, <1>4 DEF Line
<1>6. "op" \notin Reads
  BY WalletAssumption
<1> QED BY <1>5, <1>6 DEF Mutex, ReadType

\* A step that leaves the line, the reads and the screen alone.
LEMMA MutexKept ==
    ASSUME Mutex, UNCHANGED <<queue, read, shown>>,
           op'.pc \in {"queued", "preparing"} <=> op.pc \in {"queued", "preparing"},
           op'.pc = "queued" => op.pc = "queued",
           op'.pc \in {"preparing", "send", "poll"} =>
              \A r \in Reads : read[r].pc = "none",
           ui' = "running" <=> op'.pc # "none"
    PROVE  Mutex'
BY DEF Mutex, Turn

\* A refresh of the screen joins the line.
LEMMA JoinsMutex ==
    ASSUME Mutex, NEW r \in Reads, NEW q \in Seq(Caller),
           Queued(r), Once(q), Line(q) = Line(queue) \ {"op"},
           q = queue \/ \A s \in Reads : read[s].pc = "none",
           queue' = Append(q, r), op'.pc = "none", ui' # "running"
    PROVE  Mutex'
<1>1. /\ read[r].pc = "none" /\ read' = [read EXCEPT ![r].pc = "queued"]
      /\ shown' = [shown EXCEPT !.loading = TRUE, !.error = FALSE]
      /\ read \in [Reads -> ReadType] /\ shown \in ShownType
  BY DEF Queued, Mutex
<1>2. r \in Caller /\ r \notin Line(q)
  BY <1>1 DEF Caller, Mutex
<1>3. /\ queue' \in Seq(Caller) /\ Once(queue') /\ Line(queue') = Line(q) \union {r}
      /\ queue' # <<>> /\ (q # <<>> => Head(queue') = Head(q))
  BY <1>2, Joins
<1>4. /\ read' \in [Reads -> ReadType] /\ read'[r].pc = "queued"
      /\ \A s \in Reads : s # r => read'[s] = read[s]
  BY <1>1 DEF ReadType
<1>5. shown' \in ShownType
  BY <1>1 DEF ShownType
<1>6. "op" \notin Reads
  BY WalletAssumption
<1>7. \A s \in Reads : s \in Line(queue') <=> read'[s].pc # "none"
  BY <1>3, <1>4, <1>6 DEF Mutex
<1>8. "op" \notin Line(queue')
  BY <1>3, <1>6
<1>9. ASSUME NEW s \in Reads, read'[s].pc = "answered"
      PROVE  Turn(s)'
  <2>1. s # r /\ read[s].pc = "answered"
    BY <1>4, <1>9
  <2>2. q = queue /\ Turn(s)
    BY <2>1 DEF Mutex
  <2> QED BY <1>3, <2>2 DEF Turn
<1> QED BY <1>3, <1>4, <1>5, <1>7, <1>8, <1>9 DEF Mutex

\* A read that is shown, or fails, leaves the line.
LEMMA ReadLeavesMutex ==
    ASSUME Mutex, NEW r \in Reads, Turn(r), UNCHANGED <<op, ui>>,
           read' = [read EXCEPT ![r] = NoRead], queue' = Done(r), shown' \in ShownType
    PROVE  Mutex'
<1>1. /\ read' \in [Reads -> ReadType] /\ read'[r].pc = "none"
      /\ \A s \in Reads : s # r => read'[s] = read[s]
  BY DEF Mutex, NoRead, ReadType
<1>2. /\ queue' \in Seq(Caller) /\ Once(queue') /\ Line(queue') = Line(queue) \ {r}
      /\ queue' # <<>> => queue'[Len(queue')] = queue[Len(queue)]
  BY Leaves DEF Mutex
<1>3. "op" \notin Reads
  BY WalletAssumption
<1>4. \A s \in Reads : read'[s].pc # "answered"
  BY <1>1 DEF Mutex, Turn
<1>5. op.pc = "queued" => queue' # <<>>
  <2>1. "op" \in Line(queue) => "op" \in Line(queue')
    BY <1>2, <1>3
  <2>2. queue' = <<>> => Line(queue') = {}
    BY DEF Line
  <2> QED BY <2>1, <2>2 DEF Mutex
<1>6. \A s \in Reads : s \in Line(queue') <=> read'[s].pc # "none"
  BY <1>1, <1>2 DEF Mutex
<1>7. "op" \in Line(queue') <=> op.pc \in {"queued", "preparing"}
  BY <1>2, <1>3 DEF Mutex
<1>8. op.pc \in {"preparing", "send", "poll"} => \A s \in Reads : read'[s].pc = "none"
  BY <1>1 DEF Mutex
<1>9. (ui' = "running" <=> op'.pc # "none") /\ (op.pc = "queued" => queue'[Len(queue')] = "op")
  BY <1>2, <1>5 DEF Mutex
<1> QED BY <1>1, <1>2, <1>4, <1>6, <1>7, <1>8, <1>9 DEF Mutex

\* The operation joins the line behind the reads.
LEMMA OpJoinsMutex ==
    ASSUME Mutex, UNCHANGED <<read, shown>>, op.pc \in {"none", "fund"},
           queue' = Append(queue, "op"), op'.pc = "queued", ui' = "running"
    PROVE  Mutex'
<1>1. "op" \in Caller /\ "op" \notin Line(queue) /\ "op" \notin Reads
  BY WalletAssumption DEF Caller, Mutex
<1>2. /\ queue' \in Seq(Caller) /\ Once(queue') /\ Line(queue') = Line(queue) \union {"op"}
      /\ queue' # <<>> /\ (queue # <<>> => Head(queue') = Head(queue))
      /\ queue'[Len(queue')] = "op"
  BY <1>1, Joins DEF Mutex
<1>3. \A s \in Reads : read[s].pc = "answered" => Turn(s)'
  BY <1>2 DEF Mutex, Turn
<1>4. \A s \in Reads : s \in Line(queue') <=> read[s].pc # "none"
  BY <1>1, <1>2 DEF Mutex
<1> QED BY <1>2, <1>3, <1>4 DEF Mutex

\* The operation leaves the line when it is prepared, or fails at any place.
LEMMA OpLeavesMutex ==
    ASSUME Mutex, UNCHANGED <<read, shown>>, queue' = Done("op"),
           op.pc \in {"queued", "preparing"} => Turn("op"),
           \/ op'.pc = "none" /\ ui' # "running"
           \/ op.pc = "preparing" /\ op'.pc = "send" /\ ui' = "running"
    PROVE  Mutex'
<1>1. Turn("op") \/ "op" \notin Line(queue)
  BY DEF Mutex
<1>2. /\ queue' \in Seq(Caller) /\ Once(queue') /\ Line(queue') = Line(queue) \ {"op"}
      /\ "op" \notin Line(queue) => queue' = queue
  BY <1>1, Leaves DEF Mutex
<1>3. "op" \notin Reads
  BY WalletAssumption
<1>4. ASSUME NEW s \in Reads, read[s].pc = "answered"
      PROVE  Turn(s)'
  <2>1. Turn(s)
    BY <1>4 DEF Mutex
  <2>2. ~Turn("op")
    BY <1>3, <2>1 DEF Turn
  <2>3. queue' = queue
    BY <1>1, <1>2, <2>2
  <2> QED BY <2>1, <2>3 DEF Turn
<1>5. \A s \in Reads : s \in Line(queue') <=> read[s].pc # "none"
  BY <1>2, <1>3 DEF Mutex
<1> QED BY <1>2, <1>4, <1>5 DEF Mutex

\* Refreshes of the screen, at each of their steps.
LEMMA ReadMutex ==
    ASSUME Typed, Mutex, NEW r \in Reads, Refresh(r) \/ ReadStep(r)
    PROVE  Mutex'
<1>1. CASE Refresh(r)
  <2>1. /\ Queued(r) /\ queue' = Append(queue, r) /\ op' = op /\ ui' = ui
        /\ ui # "running"
    BY <1>1 DEF Refresh
  <2>2. /\ op.pc = "none" /\ queue \in Seq(Caller) /\ Once(queue)
        /\ "op" \notin Line(queue)
    BY <2>1 DEF Mutex
  <2>3. Line(queue) = Line(queue) \ {"op"}
    BY <2>2
  <2> QED BY <2>1, <2>2, <2>3, JoinsMutex
<1>2. CASE StatusRead(r)
  <2> DEFINE status == IF chain.registered THEN "yes" ELSE "no"
  <2>1. /\ read[r].pc = "queued" /\ Turn(r)
        /\ read' = [read EXCEPT ![r] =
              [pc |-> "answered", asOf |-> Version, registered |-> status]]
        /\ UNCHANGED <<ui, op, queue, shown>>
    BY <1>2 DEF StatusRead
  <2>2. status \in {"yes", "no"}
    OBVIOUS
  <2>3. Version \in Nat
    <3>1. chain.landed \in Seq([n : Press, seen : Nat])
      BY DEF Typed, ChainType
    <3> QED BY <3>1 DEF Version
  <2> HIDE DEF status
  <2>4. /\ read' \in [Reads -> ReadType] /\ read'[r].pc = "answered"
        /\ \A s \in Reads : s # r => read'[s] = read[s]
    BY <2>1, <2>2, <2>3 DEF Mutex, ReadType
  <2>5. \A s \in Reads : read'[s].pc = "answered" => Turn(s)'
    BY <2>1, <2>4 DEF Mutex, Turn
  <2>6. \A s \in Reads : read'[s].pc = "none" <=> read[s].pc = "none"
    BY <2>1, <2>4
  <2> QED BY <2>1, <2>4, <2>5, <2>6 DEF Mutex
<1>3. CASE StatusShown(r)
  <2>1. /\ read[r].pc = "answered" /\ read' = [read EXCEPT ![r] = NoRead]
        /\ queue' = Done(r) /\ UNCHANGED <<op, ui>>
        /\ shown' = [loading |-> FALSE, error |-> FALSE, asOf |-> read[r].asOf,
                     registered |-> read[r].registered]
    BY <1>3 DEF StatusShown
  <2>2. Turn(r)
    BY <2>1 DEF Mutex
  <2>3. shown' \in ShownType
    <3>1. read[r] \in ReadType
      BY DEF Mutex
    <3> QED BY <2>1, <3>1 DEF ReadType, ShownType
  <2> QED BY <2>1, <2>2, <2>3, ReadLeavesMutex
<1>4. CASE StatusFails(r)
  <2>1. /\ Turn(r) /\ read' = [read EXCEPT ![r] = NoRead]
        /\ queue' = Done(r) /\ UNCHANGED <<op, ui>>
        /\ shown' = [shown EXCEPT !.loading = FALSE, !.error = TRUE]
    BY <1>4 DEF StatusFails
  <2>2. shown' \in ShownType
    BY <2>1 DEF Mutex, ShownType
  <2> QED BY <2>1, <2>2, ReadLeavesMutex
<1> QED BY <1>1, <1>2, <1>3, <1>4 DEF ReadStep

\* The operation, at each of its steps.
LEMMA OpMutex ==
    ASSUME Typed, Mutex, OpStep
    PROVE  Mutex'
<1>0. op = [n |-> op.n, kind |-> op.kind, tries |-> op.tries, pc |-> op.pc]
  BY DEF Typed, OpType
<1>1. ASSUME Failed, op.pc \in {"queued", "preparing"} => Turn("op")
      PROVE  Mutex'
  <2>1. op'.pc = "none" /\ ui' # "running" /\ queue' = Done("op")
        /\ UNCHANGED <<read, shown>>
    BY <1>0, <1>1 DEF Failed
  <2> QED BY <1>1, <2>1, OpLeavesMutex
<1>2. op.pc = "preparing" => Turn("op")
  <2> SUFFICES ASSUME op.pc = "preparing"
      PROVE  Turn("op")
    OBVIOUS
  <2>1. "op" \in Line(queue) /\ \A c \in Line(queue) : c \notin Reads
    BY DEF Mutex
  <2>2. queue \in Seq(Caller)
    BY DEF Mutex
  <2>3. queue # <<>> /\ 1 \in 1..Len(queue)
    BY <2>1, <2>2 DEF Line
  <2>4. queue[1] \in Line(queue) /\ queue[1] \in Caller
    BY <2>2, <2>3 DEF Line
  <2> QED BY <2>1, <2>2, <2>3, <2>4 DEF Turn, Caller
<1>3. ASSUME Succeeds, op.pc \in {"preparing", "poll"}
      PROVE  Mutex'
  <2>1. PICK r \in Reads : Queued(r) /\ queue' = Append(Done("op"), r)
    BY <1>3 DEF Succeeds
  <2>2. op'.pc = "none" /\ ui' # "running"
    BY <1>0, <1>3 DEF Succeeds
  <2>3. Turn("op") \/ "op" \notin Line(queue)
    BY <1>2, <1>3 DEF Mutex
  <2>4. /\ Done("op") \in Seq(Caller) /\ Once(Done("op"))
        /\ Line(Done("op")) = Line(queue) \ {"op"}
    BY <2>3, Leaves DEF Mutex
  <2>5. \A s \in Reads : read[s].pc = "none"
    BY <1>3 DEF Mutex
  <2> QED BY <2>1, <2>2, <2>4, <2>5, JoinsMutex
<1>4. ASSUME op.pc = "send", op'.pc \in {"send", "poll"}, ui' = ui,
             UNCHANGED <<queue, read, shown>>
      PROVE  Mutex'
  BY <1>4, MutexKept DEF Mutex
<1>5. ASSUME op.pc = "send", SendAgain
      PROVE  Mutex'
  <2>1. UNCHANGED <<queue, read, shown>>
    BY <1>5 DEF SendAgain
  <2>2. \/ op'.pc = "send" /\ ui' = ui
        \/ op'.pc = "none" /\ ui' = "failed"
    BY <1>0, <1>5 DEF SendAgain
  <2>3. CASE op'.pc = "send" /\ ui' = ui
    BY <1>4, <1>5, <2>1, <2>3
  <2>4. CASE op'.pc = "none" /\ ui' = "failed"
    BY <1>5, <2>1, <2>4, MutexKept
  <2> QED BY <2>2, <2>3, <2>4
<1>6. CASE Funded
  <2>1. op.pc = "fund" /\ op'.pc = "queued" /\ queue' = Append(queue, "op")
        /\ UNCHANGED <<ui, read, shown>>
    BY <1>0, <1>6 DEF Funded
  <2>2. ui = "running"
    BY <2>1 DEF Mutex
  <2> QED BY <2>1, <2>2, OpJoinsMutex
<1>7. CASE CannotPrepare
  <2>1. Failed /\ (op.pc \in {"queued", "preparing"} => Turn("op"))
    BY <1>7 DEF CannotPrepare
  <2> QED BY <1>1, <2>1
<1>8. CASE Dispatched
  <2>1. op.pc = "queued" /\ Turn("op") /\ op'.pc = "preparing"
        /\ UNCHANGED <<ui, queue, read, shown>>
    BY <1>0, <1>8 DEF Dispatched
  <2>2. \A r \in Reads : read[r].pc = "none"
    BY <2>1, AloneInLine
  <2>3. ui = "running"
    BY <2>1 DEF Mutex
  <2> QED BY <2>1, <2>2, <2>3, MutexKept
<1>9. CASE Prepared
  <2>1. op.pc = "preparing"
    BY <1>9 DEF Prepared
  <2>2. CASE /\ op' = [op EXCEPT !.pc = "send"] /\ queue' = Done("op")
             /\ UNCHANGED <<ui, read, shown>>
    <3>1. op'.pc = "send"
      BY <1>0, <2>2
    <3>2. ui = "running"
      BY <2>1 DEF Mutex
    <3> QED BY <1>2, <2>1, <2>2, <3>1, <3>2, OpLeavesMutex
  <2>3. CASE Succeeds
    BY <1>3, <2>1, <2>3
  <2>4. CASE Failed
    BY <1>1, <1>2, <2>1, <2>4
  <2> QED BY <1>9, <2>2, <2>3, <2>4 DEF Prepared
<1>10. ASSUME NEW answered \in BOOLEAN, SendTaken(answered)
       PROVE  Mutex'
  <2>1. op.pc = "send"
    BY <1>10 DEF SendTaken
  <2>2. CASE answered
    <3>1. op'.pc = "poll" /\ UNCHANGED <<ui, queue, read, shown>>
      BY <1>0, <1>10, <2>2 DEF SendTaken
    <3> QED BY <1>4, <2>1, <3>1
  <2>3. CASE ~answered
    BY <1>5, <1>10, <2>1, <2>3 DEF SendTaken
  <2> QED BY <2>2, <2>3
<1>11. CASE SendLost
  BY <1>5, <1>11 DEF SendLost
<1>12. CASE SendRefused
  BY <1>1, <1>12 DEF SendRefused
<1>13. CASE PollConfirms
  BY <1>3, <1>13 DEF PollConfirms
<1>14. CASE PollFails
  BY <1>1, <1>14 DEF PollFails
<1> QED BY <1>6, <1>7, <1>8, <1>9, <1>10, <1>11, <1>12, <1>13, <1>14 DEF OpStep

\* Every step keeps the line in order.
LEMMA MutexStep == Typed /\ Mutex /\ [Next]_vars => Mutex'
<1> SUFFICES ASSUME Typed, Mutex, [Next]_vars
    PROVE  Mutex'
  OBVIOUS
<1>1. ASSUME NEW r \in Reads, Refresh(r) \/ ReadStep(r)
      PROVE  Mutex'
  BY <1>1, ReadMutex
<1>2. ASSUME NEW kind \in Kind, PressButton(kind)
      PROVE  Mutex'
  <2>1. op.pc = "none"
    BY <1>2 DEF PressButton, Mutex
  <2>2. CASE kind \in {"register", "deposit"}
    <3>1. op'.pc = "fund" /\ ui' = "running" /\ UNCHANGED <<queue, read, shown>>
      BY <1>2, <2>2 DEF PressButton
    <3> QED BY <2>1, <3>1, MutexKept
  <2>3. CASE kind \notin {"register", "deposit"}
    <3>1. op'.pc = "queued" /\ ui' = "running" /\ UNCHANGED <<read, shown>>
          /\ queue' = Append(queue, "op")
      BY <1>2, <2>3 DEF PressButton
    <3> QED BY <2>1, <3>1, OpJoinsMutex
  <2> QED BY <2>2, <2>3
<1>3. CASE OpStep
  BY <1>3, OpMutex
<1>4. ASSUME UNCHANGED wallet
      PROVE  Mutex'
  BY <1>4 DEF wallet, Mutex, Turn
<1>5. CASE Restart
  <2>1. /\ ui' = "idle" /\ op' = NoOp /\ queue' = <<>> /\ shown' = NothingShown
        /\ read' = [r \in Reads |-> NoRead]
    BY <1>5 DEF Restart
  <2>2. /\ NoRead \in ReadType /\ NoRead.pc = "none" /\ NothingShown \in ShownType
        /\ NoOp.pc = "none"
    BY DEF NoRead, ReadType, NothingShown, ShownType, NoOp
  <2>3. queue' \in Seq(Caller) /\ Once(queue') /\ Line(queue') = {}
    BY <2>1 DEF Once, Line
  <2> QED BY <2>1, <2>2, <2>3 DEF Mutex
<1> QED BY <1>1, <1>2, <1>3, <1>4, <1>5 DEF Next, Kind, Land, Expire, vars

\* Nobody is in line at the start.
LEMMA InitMutex == Init => Mutex
<1> SUFFICES ASSUME Init
    PROVE  Mutex
  OBVIOUS
<1>1. /\ ui = "idle" /\ op = NoOp /\ queue = <<>> /\ shown = NothingShown
      /\ read = [r \in Reads |-> NoRead]
  BY DEF Init
<1>2. /\ NoRead \in ReadType /\ NoRead.pc = "none" /\ NothingShown \in ShownType
      /\ NoOp.pc = "none"
  BY DEF NoRead, ReadType, NothingShown, ShownType, NoOp
<1>3. queue \in Seq(Caller) /\ Once(queue) /\ Line(queue) = {}
  BY <1>1 DEF Once, Line
<1> QED BY <1>1, <1>2, <1>3 DEF Mutex

\* What is read after the operation has landed is current, and no read that began
\* before it is left when it ends.
LEMMA CurrentStep == Inv /\ Mutex /\ Current /\ [Next]_vars => Current'
<1> SUFFICES ASSUME Inv, Mutex, Current, [Next]_vars, ui' = "ok"
    PROVE  Current'
  BY DEF Current
<1>0. /\ chain.landed \in Seq([n : Press, seen : Nat]) /\ Len(chain.landed) \in Nat
      /\ op = [n |-> op.n, kind |-> op.kind, tries |-> op.tries, pc |-> op.pc]
  <2>1. chain.landed \in Seq([n : Press, seen : Nat])
    BY DEF Inv, Typed, ChainType
  <2>2. op \in OpType
    BY DEF Inv, Typed
  <2>3. op = [n |-> op.n, kind |-> op.kind, tries |-> op.tries, pc |-> op.pc]
    BY <2>2 DEF OpType
  <2> QED BY <2>1, <2>3
<1>1. ASSUME Succeeds, chain' = chain, net' = net, op.pc \in {"preparing", "poll"},
             Landed(op.n) \/ \A t \in net : t.n # op.n
      PROVE  Current'
  <2>1. PICK r \in Reads : Queued(r)
    BY <1>1 DEF Succeeds
  <2>2. op'.n = op.n
    BY <1>0, <1>1 DEF Succeeds
  <2>3. \A s \in Reads : read[s].pc = "none"
    BY <1>1 DEF Mutex
  <2>4. shown'.loading /\ \A s \in Reads : read'[s].pc # "answered"
    BY <2>1, <2>3 DEF Queued, Mutex, ReadType, ShownType
  <2>5. CASE Landed(op.n)
    BY <1>1, <2>2, <2>4, <2>5 DEF Landed, Current
  <2>6. CASE ~Landed(op.n)
    BY <1>1, <2>2, <2>6 DEF Landed, Current
  <2> QED BY <2>5, <2>6
<1>2. ASSUME NEW r \in Reads, Refresh(r) \/ ReadStep(r)
      PROVE  Current'
  <2>0. UNCHANGED <<chain, op, net, ui>>
    BY <1>2 DEF Refresh, ReadStep, StatusRead, StatusShown, StatusFails
  <2>1. CASE ~Landed(op.n)
    BY <2>0, <2>1 DEF Current, Landed
  <2>2. CASE Landed(op.n)
    <3>1. PICK i \in DOMAIN chain.landed :
              /\ chain.landed[i].n = op.n
              /\ \A s \in Reads : read[s].pc = "answered" => i <= read[s].asOf
              /\ ~shown.loading /\ ~shown.error => i <= shown.asOf
      BY <2>0, <2>2 DEF Current
    <3>2. SUFFICES
              /\ \A s \in Reads : read'[s].pc = "answered" => i <= read'[s].asOf
              /\ ~shown'.loading /\ ~shown'.error => i <= shown'.asOf
      BY <2>0, <3>1 DEF Current
    <3>3. CASE Refresh(r)
      BY <3>1, <3>3 DEF Refresh, Queued, Mutex, ReadType, ShownType
    <3>4. CASE StatusRead(r)
      <4>1. i <= Version
        BY <1>0 DEF Version
      <4> QED BY <3>1, <3>4, <4>1 DEF StatusRead, Mutex
    <3>5. CASE StatusShown(r)
      BY <3>1, <3>5 DEF StatusShown, Mutex, NoRead
    <3>6. CASE StatusFails(r)
      BY <3>1, <3>6 DEF StatusFails, Mutex, NoRead, ShownType
    <3> QED BY <1>2, <3>3, <3>4, <3>5, <3>6 DEF ReadStep
  <2> QED BY <2>1, <2>2
<1>3. CASE OpStep
  <2>1. \/ PollConfirms
        \/ op.pc = "preparing" /\ At(op.n, "already") /\ Succeeds
    <3>1. op.pc # "none" => ui = "running"
      BY DEF Mutex
    <3> QED BY <1>3, <3>1 DEF OpStep, Funded, CannotPrepare, Dispatched, Prepared, Failed,
              SendTaken, SendLost, SendRefused, SendAgain, PollFails
  <2>2. CASE PollConfirms
    <3>1. op.pc = "poll" /\ Succeeds /\ result[op.n] = "success" /\ op.n \in Press
      BY <2>2 DEF PollConfirms, Confirmed, Inv, Acting
    <3>2. Landed(op.n) /\ chain' = chain /\ net' = net
      BY <3>1 DEF Inv, Sent, Succeeds
    <3> QED BY <1>1, <3>1, <3>2
  <2>3. CASE op.pc = "preparing" /\ Succeeds
    <3>1. \A t \in net : t.n # op.n
      BY <2>3 DEF Inv, Sent
    <3>2. chain' = chain /\ net' = net
      BY <2>3 DEF Succeeds
    <3> QED BY <1>1, <2>3, <3>1, <3>2
  <2> QED BY <2>1, <2>2, <2>3
<1>4. ASSUME NEW kind \in Kind, PressButton(kind)
      PROVE  FALSE
  BY <1>4 DEF PressButton
<1>5. ASSUME UNCHANGED wallet, chain'.landed = chain.landed, net' \subseteq net
      PROVE  Current'
  BY <1>5 DEF wallet, Current, Landed
<1>6. ASSUME NEW n \in Press, ScriptStep(n), UNCHANGED <<wallet, net>>
      PROVE  Current'
  BY <1>5, <1>6, ScriptEffect
<1>7. ASSUME NEW a \in Asset, Arrives(a), UNCHANGED <<wallet, net>>
      PROVE  Current'
  BY <1>5, <1>7 DEF Arrives
<1>8. ASSUME NEW t \in net, Expire(t)
      PROVE  Current'
  BY <1>5, <1>8 DEF Expire
<1>9. ASSUME NEW t \in net, Land(t)
      PROVE  Current'
  <2> DEFINE entry == [n |-> t.n, seen |-> t.seen]
  <2>1. /\ UNCHANGED wallet /\ net' = net \ {t}
        /\ chain' = [(IF Accepts(t) THEN After(t) ELSE chain) EXCEPT
                       !.seq = t.seq,
                       !.landed = IF Accepts(t) THEN Append(@, entry) ELSE @]
    BY <1>9 DEF Land
  <2>2. chain'.landed \in {chain.landed, Append(chain.landed, entry)}
    <3>1. After(t).landed = chain.landed /\ DOMAIN After(t) = DOMAIN chain
      BY DEF After, Inv, Typed, TxType, Kind, ChainType
    <3>2. "landed" \in DOMAIN chain
      BY DEF Inv, Typed, ChainType
    <3> QED BY <2>1, <3>1, <3>2
  <2>3. entry \in [n : Press, seen : Nat]
    BY DEF Inv, Typed, TxType
  <2> HIDE DEF entry
  <2>4. /\ \A i \in DOMAIN chain.landed :
              i \in DOMAIN chain'.landed /\ chain'.landed[i] = chain.landed[i]
        /\ \A i \in DOMAIN chain'.landed :
              \/ i \in DOMAIN chain.landed /\ chain'.landed[i] = chain.landed[i]
              \/ chain'.landed[i] = entry
    <3> DEFINE old == chain.landed
               new == chain'.landed
               R == [n : Press, seen : Nat]
    <3>1. old \in Seq(R) /\ entry \in R /\ new \in {old, Append(old, entry)}
      BY <1>0, <2>2, <2>3
    <3> HIDE DEF old, new, R
    <3>2. /\ \A i \in DOMAIN old : i \in DOMAIN new /\ new[i] = old[i]
          /\ \A i \in DOMAIN new :
                (i \in DOMAIN old /\ new[i] = old[i]) \/ new[i] = entry
      <4>1. CASE new = old
        BY <4>1
      <4>2. CASE new = Append(old, entry)
        <5>1. /\ DOMAIN old = 1..Len(old) /\ DOMAIN new = 1..Len(old) + 1
              /\ Len(old) \in Nat
              /\ \A i \in 1..Len(old) : new[i] = old[i]
              /\ new[Len(old) + 1] = entry
          BY <3>1, <4>2
        <5> QED BY <5>1
      <4> QED BY <3>1, <4>1, <4>2
    <3> QED BY <3>2 DEF old, new
  <2>5. ui = "ok" /\ UNCHANGED <<op, read, shown>>
    BY <2>1 DEF wallet
  <2>6. CASE \E i \in DOMAIN chain.landed :
              /\ chain.landed[i].n = op.n
              /\ \A r \in Reads : read[r].pc = "answered" => i <= read[r].asOf
              /\ ~shown.loading /\ ~shown.error => i <= shown.asOf
    BY <2>4, <2>5, <2>6 DEF Current
  <2>7. CASE ~Landed(op.n) /\ \A u \in net : u.n # op.n
    <3>1. t.n # op.n
      BY <2>7
    <3>2. entry.n = t.n
      BY DEF entry
    <3>3. ~Landed(op.n)'
      BY <2>4, <2>5, <2>7, <3>1, <3>2 DEF Landed
    <3> QED BY <2>1, <2>5, <2>7, <3>3 DEF Current
  <2> QED BY <2>5, <2>6, <2>7 DEF Current
<1>10. CASE Restart
  BY <1>10 DEF Restart
<1>11. CASE UNCHANGED vars
  BY <1>5, <1>11 DEF vars
<1> QED BY <1>2, <1>3, <1>4, <1>6, <1>7, <1>8, <1>9, <1>10, <1>11 DEF Next, Kind

\* After an operation shown as done, no refresh that began before it comes back over
\* the balance (SobreViewModel.kt, run and refreshStatus; the bridge's mutex).
THEOREM AlwaysFreshAfterOk == Spec => []FreshAfterOk
<1>1. Init => Current
  BY DEF Init, Current
<1>2. Inv => Typed
  BY DEF Inv
<1>3. Inv /\ Mutex /\ Current => FreshAfterOk
  <2> SUFFICES ASSUME Inv, Mutex, Current, ui = "ok", Landed(op.n), ~shown.loading,
                      ~shown.error
      PROVE  \E i \in 1..shown.asOf : chain.landed[i].n = op.n
    BY DEF FreshAfterOk
  <2>1. PICK i \in DOMAIN chain.landed : chain.landed[i].n = op.n /\ i <= shown.asOf
    BY DEF Current
  <2>2. DOMAIN chain.landed = 1..Len(chain.landed) /\ shown.asOf \in Nat
    BY DEF Inv, Typed, ChainType, Mutex, ShownType
  <2> QED BY <2>1, <2>2
<1> QED
  BY <1>1, <1>2, <1>3, InitMutex, MutexStep, CurrentStep, AlwaysInv, PTL DEF Spec
=============================================================================
