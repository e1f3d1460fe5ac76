------------------------------ MODULE GoalTotal ------------------------------
(***************************************************************************)
(* goalTotal of the prover page, and scripts/verify-goal-total, which it   *)
(* ports: the goal's balance is reconstructed from the events of an index, *)
(* opened with the published view key, and compared with the Pedersen      *)
(* commitments the chain holds.  The chain moves between the reads, and    *)
(* the index may lag behind it or have forgotten its beginning.            *)
(*                                                                         *)
(* A commitment is binding, so it is the pair (v, r) it opens to.  The     *)
(* randomness r is a sum of independent terms: the set of the ids of its   *)
(* events, and -id for the owner's randomness of outflow id.  The log      *)
(* holds only the events that touch the goal.                              *)
(***************************************************************************)
EXTENDS Integers, Sequences

CONSTANTS
    Uses,       \* who verifies with what event source: [index, rereads]
    MaxEvents,  \* bound: events that touch the goal
    MaxAmount   \* bound: stroops of one event

ASSUME TotalAssumption ==
    /\ Uses \subseteq [index : {"current", "lagging", "forgetful"},
                       rereads : BOOLEAN]
    /\ MaxEvents \in Nat /\ MaxAmount \in Nat

VARIABLES
    log,      \* the goal's events on chain
    past,     \* the goal's two commitments on chain, as a history: past[n + 1]
              \* is what they were when the log had n events
    run,      \* local variables of goalTotal
    use       \* the verifier and its event source, chosen once

vars == <<log, past, run, use>>

\* The commitments the contract holds, and the goal's total after n events.
chain == past[Len(log) + 1]
Worth(n) == past[n + 1].spend.v + past[n + 1].recv.v

\* The event source: "current" serves the whole log, "lagging" a prefix of it,
\* "forgetful" any segment.
Index == use.index

\* TRUE of goalTotal; the script reads the commitments once.
Rereads == use.rereads

Zero == [v |-> 0, r |-> {}]
Sum(a, b) == [v |-> a.v + b.v, r |-> a.r \union b.r]

NoOpenings == [spend |-> Zero, recv |-> Zero, provable |-> TRUE, listed |-> {}]

NoRun ==
    [pc |-> "idle", keys |-> FALSE, acc |-> [spend |-> Zero, recv |-> Zero],
     began |-> 0, at |-> 0, first |-> 1, last |-> 0, next |-> 1,
     open |-> NoOpenings, verified |-> FALSE, ledger |-> 0]

Init ==
    /\ log = <<>>
    /\ past = << [spend |-> Zero, recv |-> Zero] >>
    /\ run = NoRun
    /\ use \in Uses

-----------------------------------------------------------------------------
(* The CT wrapper                                                           *)

Commit(spend, recv, kind, v, left) ==
    /\ Len(log) < MaxEvents
    /\ log' = Append(log, [id |-> Len(log) + 1, kind |-> kind, v |-> v, left |-> left])
    /\ past' = Append(past, [spend |-> spend, recv |-> recv])
    /\ UNCHANGED <<run, use>>

\* Public XLM comes in: no randomness.
Deposit ==
    \E v \in 1..MaxAmount :
        Commit(chain.spend, Sum(chain.recv, [v |-> v, r |-> {}]), "deposit", v, 0)

\* A confidential contribution comes in.
Transfer ==
    \E v \in 1..MaxAmount :
        Commit(chain.spend, Sum(chain.recv, [v |-> v, r |-> {Len(log) + 1}]),
               "transfer", v, 0)

Merge == Commit(Sum(chain.spend, chain.recv), Zero, "merge", 0, 0)

\* The goal's owner sends or withdraws: the rest is committed afresh.
Outflow ==
    \E v \in 1..MaxAmount :
        /\ v <= chain.spend.v
        /\ Commit([v |-> chain.spend.v - v, r |-> {-(Len(log) + 1)}], chain.recv,
                  "outflow", v, chain.spend.v - v)

-----------------------------------------------------------------------------
(* The replay                                                               *)

Opening(e) == [v |-> e.v, r |-> IF e.kind = "transfer" THEN {e.id} ELSE {}]

Credited(o, e) ==
    [o EXCEPT !.recv = Sum(o.recv, Opening(e)), !.listed = o.listed \union {e.id}]

Merged(o) == [o EXCEPT !.spend = Sum(o.spend, o.recv), !.recv = Zero]

\* Mutant: an outflow only ends the point verification.
SpentUntracked(o, e) == [o EXCEPT !.provable = FALSE]

\* The value left decrypts, its new randomness does not.
Spent(o, e) ==
    [o EXCEPT !.spend = [v |-> e.left, r |-> o.spend.r], !.provable = FALSE]

Replayed(o, e) ==
    CASE e.kind \in {"deposit", "transfer"} -> Credited(o, e)
      [] e.kind = "merge" -> Merged(o)
      [] e.kind = "outflow" -> Spent(o, e)

\* The segments of the log the index may serve.  A read of several pages from a purge
\* demo whose floor moves between them may also keep rows on both sides of a hole
\* (EventsPaging); such a selection is not among them.
Served(first, last) ==
    /\ first \in 1..Len(log) + 1 /\ last \in 0..Len(log)
    /\ Index # "forgetful" => first = 1
    /\ Index = "current" => last = Len(log)

-----------------------------------------------------------------------------
(* The verification                                                         *)

\* Mutant: only the values are compared.
SameValue(a, b) == a.v = b.v

SamePoint(a, b) == a = b

SpendOk == run.open.provable /\ SamePoint(run.open.spend, run.acc.spend)
RecvOk == SamePoint(run.open.recv, run.acc.recv)

\* A commitment that is compared does not match.
Mismatch == (run.open.provable /\ ~SpendOk) \/ ~RecvOk

\* The call, and the checks of the published key against two registries.
CheckKeys ==
    /\ run.pc \in {"idle", "done", "failed"}
    /\ \E keys \in BOOLEAN : run' = [NoRun EXCEPT !.pc = "commitments", !.keys = keys]
    /\ UNCHANGED <<log, past, use>>

\* The commitments are read before the events, on purpose.
ReadCommitments ==
    /\ run.pc = "commitments"
    /\ run' = [run EXCEPT !.pc = "events", !.acc = chain, !.began = Len(log),
                          !.at = Len(log)]
    /\ UNCHANGED <<log, past, use>>

\* One read of the index (EventsPaging, ReadsAtomically).
ReadEvents ==
    /\ run.pc = "events"
    /\ \E first \in 1..Len(log) + 1, last \in 0..Len(log) :
          /\ Served(first, last)
          /\ run' = IF first > last THEN [run EXCEPT !.pc = "failed"]
                    ELSE [run EXCEPT !.pc = "replay", !.first = first, !.last = last,
                             !.next = first]
    /\ UNCHANGED <<log, past, use>>

\* The body of the loop over the events that were read.
ReplayEvent ==
    /\ run.pc = "replay" /\ run.next <= run.last
    /\ run' = [run EXCEPT !.open = Replayed(run.open, log[run.next]),
                          !.next = run.next + 1]
    /\ UNCHANGED <<log, past, use>>

\* Mutant: the second reading of the commitments is left out.
NeverAgain == FALSE

ReadAgain == Rereads /\ Mismatch

Compare ==
    /\ run.pc = "replay" /\ run.next > run.last
    /\ run' = [run EXCEPT !.pc = IF ReadAgain THEN "reread" ELSE "ledger"]
    /\ UNCHANGED <<log, past, use>>

Reread ==
    /\ run.pc = "reread"
    /\ run' = [run EXCEPT !.pc = "ledger", !.acc = chain, !.at = Len(log)]
    /\ UNCHANGED <<log, past, use>>

\* verified: every check that ran passed.  The ledger it is reported for is
\* read last.
Conclude ==
    /\ run.pc = "ledger"
    /\ run' = [run EXCEPT !.pc = "done", !.verified = run.keys /\ ~Mismatch,
                          !.ledger = Len(log)]
    /\ UNCHANGED <<log, past, use>>

\* A call throws.
Fail ==
    /\ run.pc \notin {"idle", "done", "failed"}
    /\ run' = [run EXCEPT !.pc = "failed"]
    /\ UNCHANGED <<log, past, use>>

Next ==
    \/ Deposit \/ Transfer \/ Merge \/ Outflow
    \/ CheckKeys \/ ReadCommitments \/ ReadEvents \/ ReplayEvent
    \/ Compare \/ Reread \/ Conclude \/ Fail

Spec == Init /\ [][Next]_vars

-----------------------------------------------------------------------------
(* Properties                                                               *)

Total == run.open.spend.v + run.open.recv.v
Verified == run.pc = "done" /\ run.verified

\* A total shown as verified was the goal's total at some moment of the
\* verification: always with an index that is up to date, and with any index
\* while both commitments can be compared.
TotalWasTrue ==
    Verified /\ (run.open.provable \/ Index = "current") =>
        \E n \in run.began..run.ledger : Total = Worth(n)

\* One transaction landing in the middle is healed by the second reading: with
\* an index up to date and the right key a verification only comes out false
\* when two transactions landed during it.
OneLandingHeals ==
    /\ Rereads /\ Index = "current"
    /\ run.pc = "done" /\ run.keys /\ ~run.verified
    => run.at - run.began >= 2

AllReceived == {n \in 1..run.at : log[n].kind \in {"deposit", "transfer"}}

\* When nothing lands during a verification, a history with a hole does not
\* match while both commitments are compared: the contributions listed beside
\* a verified total are all the goal received.
WholeHistory ==
    Verified /\ run.open.provable /\ run.began = run.ledger =>
        run.open.listed = AllReceived

\* "a partial history can never be made to match" (MetaViewModel.kt:306-307),
\* of what is shown as verified: the goal had this total at some moment of the
\* verification, whatever the index.
PartialNeverMatches ==
    Verified => \E n \in run.began..run.ledger : Total = Worth(n)
=============================================================================
