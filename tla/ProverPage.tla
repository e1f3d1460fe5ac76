----------------------------- MODULE ProverPage -----------------------------
(***************************************************************************)
(* The page of raiz-shim.js as the wallet uses it: the script of one       *)
(* prepare call reads the account, loads what proving needs into caches    *)
(* shared by all scripts, proves, and builds a transaction against the     *)
(* account's next sequence number.  Nothing can interrupt a script: when   *)
(* its caller has timed out it runs on beside the scripts that follow.     *)
(* Scripts are named by the press of a button that they serve.             *)
(***************************************************************************)
EXTENDS Integers, FiniteSets, Sequences

CONSTANT
    MaxPresses   \* bound: buttons pressed

ASSUME PressesAssumption == MaxPresses \in Nat \ {0}

VARIABLES
    chain,     \* the confidential account: registered, spend, recv, rev, its
               \* sequence number seq; landed is history, the presses in order
    asset,     \* what is cached: "absent", "loading", "ok" or "broken"
    fetches,   \* history: loads of each asset that the page has started
    built,     \* backends built of each kind; backends holds the last one
    script     \* the script of each press

page == <<asset, fetches, built, script>>

Press == 1..MaxPresses
Proof == {"register", "transfer"}
Asset == {"wasm", "bb"} \union Proof

\* rev: the spendable commitment the proof is made over; seq: the sequence number
\* of the transaction built; asked: the assets awaited; seen: history, how many
\* transactions had landed when that number was read.
NoScript ==
    [kind |-> "", pc |-> "none", rev |-> 0, seq |-> 0, asked |-> {}, seen |-> 0]

NoAssets == [a \in Asset |-> "absent"]
NoFetches == [a \in Asset |-> 0]
NoBackends == [kind \in Proof |-> 0]
NoScripts == [n \in Press |-> NoScript]

-----------------------------------------------------------------------------
(* What the wrapper accepts, at simulation and when a transaction lands     *)

Accepts(t) ==
    CASE t.kind = "register" -> ~chain.registered
      [] t.kind \in {"deposit", "merge"} -> chain.registered
      [] t.kind = "transfer" ->
            chain.registered /\ t.rev = chain.rev /\ chain.spend > 0

-----------------------------------------------------------------------------
(* The script of a press                                                    *)

\* What a script does, one await after the other.
Awaits(kind) ==
    CASE kind = "register" -> <<"read", "wasm", "register", "bb", "account",
                                "simulate", "ready">>
      [] kind = "transfer" -> <<"read", "wasm", "transfer", "bb", "account",
                                "simulate", "ready">>
      [] OTHER -> <<"account", "simulate", "ready">>

\* The await after the one the script is in.
Following(n) ==
    LET path == Awaits(script[n].kind) IN
    path[(CHOOSE i \in 1..Len(path) : path[i] = script[n].pc) + 1]

At(n, pc) == script[n].pc = pc

Goto(n, pc) == script' = [script EXCEPT ![n].pc = pc]

Begun(kind) == [NoScript EXCEPT !.kind = kind, !.pc = Awaits(kind)[1]]

\* isRegistered, or the replay of events and the balance it leaves.
Read(n) ==
    /\ At(n, "read")
    /\ IF script[n].kind = "register"
       THEN Goto(n, IF chain.registered THEN "already" ELSE Following(n))
       ELSE script' = [script EXCEPT
              ![n].pc = IF chain.spend > 0 /\ chain.registered THEN Following(n)
                        ELSE "error",
              ![n].rev = chain.rev]
    /\ UNCHANGED <<chain, asset, fetches, built>>

\* Mutant: an asset is cached when it has arrived.
CachedOnArrival(a) == asset[a] \in {"ok", "broken"}

\* The promise is cached, not what it resolves to.
Cached(a) == asset[a] # "absent"

\* getBackend, which is asked for after the circuit ran: one that is there is used.
Warm(n) ==
    /\ At(n, "bb") /\ "bb" \notin script[n].asked
    /\ built[script[n].kind] > 0
    /\ Goto(n, Following(n))
    /\ UNCHANGED <<chain, asset, fetches, built>>

Ask(n, a) ==
    /\ At(n, a) /\ a \notin script[n].asked
    /\ a = "bb" => built[script[n].kind] = 0
    /\ script' = [script EXCEPT ![n].asked = @ \union {a}]
    /\ IF Cached(a) THEN UNCHANGED <<asset, fetches>>
       ELSE /\ asset' = [asset EXCEPT ![a] = "loading"]
            /\ fetches' = [fetches EXCEPT ![a] = @ + 1]
    /\ UNCHANGED <<chain, built>>

Arrives(a) ==
    /\ asset[a] = "loading"
    /\ \E how \in {"ok", "broken"} : asset' = [asset EXCEPT ![a] = how]
    /\ UNCHANGED <<chain, fetches, built, script>>

\* A rejected promise stays cached, and rejects every script that awaits it.  A
\* script that awaited bb.js builds its backend now, without looking again whether
\* another that awaited it too has built one.
Resume(n, a) ==
    /\ At(n, a) /\ a \in script[n].asked
    /\ asset[a] \in {"ok", "broken"}
    /\ Goto(n, IF asset[a] = "ok" THEN Following(n) ELSE "error")
    /\ built' = IF a = "bb" /\ asset[a] = "ok"
                THEN [built EXCEPT ![script[n].kind] = @ + 1] ELSE built
    /\ UNCHANGED <<chain, asset, fetches>>

\* Mutant: the sequence number is counted on from the one built before.
NextSeqCounted(n) ==
    1 + (CHOOSE s \in {chain.seq} \union {script[m].seq : m \in Press} :
            \A m \in Press : s >= script[m].seq /\ s >= chain.seq)

\* getAccount, for every transaction.
NextSeq(n) == chain.seq + 1

Account(n) ==
    /\ At(n, "account")
    /\ script' = [script EXCEPT ![n].pc = Following(n), ![n].seq = NextSeq(n),
                                ![n].seen = Len(chain.landed)]
    /\ UNCHANGED <<chain, asset, fetches, built>>

Simulate(n) ==
    /\ At(n, "simulate")
    /\ Goto(n, IF Accepts(script[n]) THEN Following(n) ELSE "error")
    /\ UNCHANGED <<chain, asset, fetches, built>>

\* Any await may reject: of these, noir.execute before the backend is asked for,
\* and generateProof before the account.
Rejects(n) ==
    /\ \/ \E pc \in {"read", "account", "simulate"} : At(n, pc)
       \/ At(n, "bb") /\ "bb" \notin script[n].asked
    /\ Goto(n, "error")
    /\ UNCHANGED <<chain, asset, fetches, built>>

ScriptStep(n) ==
    \/ Read(n) \/ Warm(n) \/ Account(n) \/ Simulate(n) \/ Rejects(n)
    \/ \E a \in Asset : Ask(n, a) \/ Resume(n, a)

Answered(n) == script[n].pc \in {"ready", "already", "error"}

\* However many scripts run at once, the wasm, bb.js and each circuit are loaded
\* once: a load begun for a proof that was given up serves the ones that follow, for
\* what is cached is its promise.  The backends, under the same heading ("lazy
\* singletons"), are not so: getBackend looks before its await and sets after it, and
\* two scripts that await bb.js together build one each.
LoadedOnce == \A a \in Asset : fetches[a] <= 1
=============================================================================
