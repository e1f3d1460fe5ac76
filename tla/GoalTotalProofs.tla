-------------------------- MODULE GoalTotalProofs --------------------------
(***************************************************************************)
(* What a verified total says, for any history, amounts, verifiers and     *)
(* indexes.  The loop over the events is a step per event, so that what it *)
(* computes is an invariant (Opened): replaying a prefix of the history    *)
(* yields what the contract held after it, and replaying a segment yields  *)
(* what the goal gained over it.  The rest is what the order of the reads  *)
(* leaves of that (Reading).                                               *)
(***************************************************************************)
EXTENDS GoalTotal, TLAPS

Event ==
    [id : Nat, kind : {"deposit", "transfer", "merge", "outflow"}, v : Nat, left : Nat]
Point == [v : Nat, r : SUBSET Int]
Commitments == [spend : Point, recv : Point]
Openings == [spend : Point, recv : Point, provable : BOOLEAN, listed : SUBSET Nat]
RunType ==
    [pc : {"idle", "commitments", "events", "replay", "reread", "ledger", "done",
           "failed"},
     keys : BOOLEAN, acc : Commitments, began : Nat, at : Nat, first : Nat,
     last : Nat, next : Nat, open : Openings, verified : BOOLEAN, ledger : Nat]

Typed ==
    /\ log \in Seq(Event)
    /\ past \in Seq(Commitments) /\ Len(past) = Len(log) + 1
    /\ run \in RunType
    /\ use \in Uses

Received(i) == log[i].kind \in {"deposit", "transfer"}

\* What an event of the goal does to its commitments.
Follows(c, e, d) ==
    \/ /\ e.kind \in {"deposit", "transfer"} /\ e.v > 0
       /\ d.spend = c.spend /\ d.recv = Sum(c.recv, Opening(e))
    \/ /\ e.kind = "merge"
       /\ d.spend = Sum(c.spend, c.recv) /\ d.recv = Zero
    \/ /\ e.kind = "outflow"
       /\ d.spend = [v |-> e.left, r |-> {-e.id}] /\ d.recv = c.recv

Chained ==
    /\ past[1] = [spend |-> Zero, recv |-> Zero]
    /\ \A n \in 1..Len(log) : log[n].id = n /\ Follows(past[n], log[n], past[n + 1])

NoOutflow(i, j) == \A n \in i..j : log[n].kind # "outflow"

\* The owner's randomness never leaves the spendable commitment, and between
\* outflows the total only grows, with every contribution.
Grows ==
    /\ \A n \in 0..Len(log) :
          ~NoOutflow(1, n) => \E x \in past[n + 1].spend.r : x < 0
    /\ \A i, j \in 0..Len(log) : i <= j /\ NoOutflow(i + 1, j) =>
          /\ Worth(i) <= Worth(j)
          /\ (\E n \in i + 1..j : Received(n)) => Worth(i) < Worth(j)

\* What the replay holds when it has come to run.next.
Opened ==
    run.pc \in {"replay", "reread", "ledger", "done"} =>
        /\ run.first \in 1..run.next /\ run.next <= run.last + 1 /\ run.last <= Len(log)
        /\ run.first = 1 =>
              /\ run.open.spend.v = past[run.next].spend.v
              /\ run.open.recv = past[run.next].recv
              /\ run.open.provable => run.open.spend = past[run.next].spend
        /\ run.open.listed = {n \in run.first..run.next - 1 : Received(n)}
        /\ run.open.spend.r \subseteq Nat /\ run.open.recv.r \subseteq Nat
        /\ run.open.provable => NoOutflow(run.first, run.next - 1)
        /\ NoOutflow(run.first, run.next - 1) =>
              Worth(run.first - 1) + Total = Worth(run.next - 1)

\* What the reads of a verification, in their order, know of the chain.
Reading ==
    /\ run.pc \in {"events", "replay", "reread", "ledger", "done"} =>
          /\ run.began <= run.at /\ run.at <= Len(log)
          /\ run.acc = past[run.at + 1]
          /\ run.pc \in {"events", "replay", "reread"} => run.at = run.began
    /\ run.pc \in {"commitments", "events"} => run.open = NoOpenings
    /\ run.pc \in {"replay", "reread", "ledger", "done"} /\ Index = "current" =>
          run.first = 1 /\ run.began <= run.last
    /\ run.pc \in {"reread", "ledger", "done"} => run.next = run.last + 1
    /\ run.pc = "reread" => Mismatch
    /\ run.pc \in {"ledger", "done"} /\ Mismatch /\ Rereads /\ Index = "current" =>
          run.began < run.last /\ run.last < run.at
    /\ run.pc = "done" =>
          /\ run.at <= run.ledger /\ run.last <= run.ledger
          /\ run.verified <=> run.keys /\ ~Mismatch

Inv == Typed /\ Chained /\ Grows /\ Opened /\ Reading

-----------------------------------------------------------------------------

\* A sum of openings is one, and Zero is.
LEMMA SumTyped ==
    /\ Zero \in Point
    /\ \A a, b \in Point : Sum(a, b) \in Point
BY DEF Point, Zero, Sum

\* The contract holds two commitments.
LEMMA ChainTyped ==
    ASSUME Typed
    PROVE  /\ Len(log) \in Nat /\ chain \in Commitments
           /\ chain.spend \in Point /\ chain.recv \in Point
           /\ \A n \in 0..Len(log) : past[n + 1] \in Commitments /\ Worth(n) \in Nat
<1>1. /\ Len(log) \in Nat /\ Len(past) = Len(log) + 1
      /\ \A n \in 1..Len(past) : past[n] \in Commitments
  BY DEF Typed
<1>2. \A n \in 0..Len(log) : past[n + 1] \in Commitments
  BY <1>1
<1>3. chain \in Commitments
  BY <1>1, <1>2 DEF chain
<1>4. \A n \in 0..Len(log) : Worth(n) \in Nat
  BY <1>2 DEF Worth, Commitments, Point
<1> QED BY <1>1, <1>2, <1>3, <1>4 DEF Commitments

\* Whatever the contract does, the history gets an event and what it leads to.
LEMMA CommitFollows ==
    ASSUME Typed, Deposit \/ Transfer \/ Merge \/ Outflow
    PROVE  \E e \in Event, c \in Commitments :
              /\ log' = Append(log, e) /\ past' = Append(past, c)
              /\ e.id = Len(log) + 1 /\ Follows(chain, e, c)
              /\ UNCHANGED <<run, use>>
<1> DEFINE id == Len(log) + 1
<1>t. Len(log) \in Nat /\ chain.spend \in Point /\ chain.recv \in Point
  BY ChainTyped
<1>u. id \in Nat /\ chain.spend.v \in Nat
  BY <1>t DEF Point
<1>0. /\ Len(log) \in Nat /\ id \in Nat
      /\ chain.spend \in Point /\ chain.recv \in Point
      /\ chain.spend.v \in Nat
      /\ Zero \in Point /\ \A a, b \in Point : Sum(a, b) \in Point
  BY <1>t, <1>u, SumTyped
<1>1. ASSUME NEW spend \in Point, NEW recv \in Point,
             NEW kind \in {"deposit", "transfer", "merge", "outflow"},
             NEW v \in Nat, NEW left \in Nat, Commit(spend, recv, kind, v, left),
             Follows(chain, [id |-> id, kind |-> kind, v |-> v, left |-> left],
                     [spend |-> spend, recv |-> recv])
      PROVE  \E e \in Event, c \in Commitments :
                /\ log' = Append(log, e) /\ past' = Append(past, c)
                /\ e.id = Len(log) + 1 /\ Follows(chain, e, c)
                /\ UNCHANGED <<run, use>>
  <2> DEFINE e == [id |-> id, kind |-> kind, v |-> v, left |-> left]
             c == [spend |-> spend, recv |-> recv]
  <2>1. e \in Event /\ c \in Commitments /\ e.id = Len(log) + 1
    BY <1>0 DEF Event, Commitments
  <2>2. /\ log' = Append(log, e) /\ past' = Append(past, c)
        /\ UNCHANGED <<run, use>>
    BY <1>1 DEF Commit
  <2> QED BY <1>1, <2>1, <2>2
<1>2. CASE Deposit
  <2>1. PICK v \in 1..MaxAmount :
          Commit(chain.spend, Sum(chain.recv, [v |-> v, r |-> {}]), "deposit", v, 0)
    BY <1>2 DEF Deposit
  <2>2. v \in Nat /\ v > 0
    BY TotalAssumption
  <2>3. [v |-> v, r |-> {}] \in Point
    BY <2>2 DEF Point
  <2>4. Follows(chain, [id |-> id, kind |-> "deposit", v |-> v, left |-> 0],
                [spend |-> chain.spend, recv |-> Sum(chain.recv, [v |-> v, r |-> {}])])
    BY <2>2 DEF Follows, Opening
  <2> HIDE DEF id
  <2> QED BY <1>0, <1>1, <2>1, <2>2, <2>3, <2>4
<1>3. CASE Transfer
  <2>1. PICK v \in 1..MaxAmount :
          Commit(chain.spend, Sum(chain.recv, [v |-> v, r |-> {id}]), "transfer", v, 0)
    BY <1>3 DEF Transfer
  <2>2. v \in Nat /\ v > 0
    BY TotalAssumption
  <2>3. [v |-> v, r |-> {id}] \in Point
    BY <1>0, <2>2 DEF Point
  <2>4. Follows(chain, [id |-> id, kind |-> "transfer", v |-> v, left |-> 0],
                [spend |-> chain.spend, recv |-> Sum(chain.recv, [v |-> v, r |-> {id}])])
    BY <2>2 DEF Follows, Opening
  <2> HIDE DEF id
  <2> QED BY <1>0, <1>1, <2>1, <2>2, <2>3, <2>4
<1>4. CASE Merge
  <2>1. Commit(Sum(chain.spend, chain.recv), Zero, "merge", 0, 0)
    BY <1>4 DEF Merge
  <2>2. Follows(chain, [id |-> id, kind |-> "merge", v |-> 0, left |-> 0],
                [spend |-> Sum(chain.spend, chain.recv), recv |-> Zero])
    BY DEF Follows
  <2> HIDE DEF id
  <2> QED BY <1>0, <1>1, <2>1, <2>2
<1>5. CASE Outflow
  <2>1. PICK v \in 1..MaxAmount :
          /\ v <= chain.spend.v
          /\ Commit([v |-> chain.spend.v - v, r |-> {-id}], chain.recv,
                    "outflow", v, chain.spend.v - v)
    BY <1>5 DEF Outflow
  <2>2. v \in Nat /\ chain.spend.v - v \in Nat
    BY <1>0, <2>1, TotalAssumption
  <2>3. [v |-> chain.spend.v - v, r |-> {-id}] \in Point
    BY <1>0, <2>2 DEF Point
  <2>4. Follows(chain, [id |-> id, kind |-> "outflow", v |-> v,
                        left |-> chain.spend.v - v],
                [spend |-> [v |-> chain.spend.v - v, r |-> {-id}], recv |-> chain.recv])
    BY DEF Follows
  <2> HIDE DEF id
  <2> QED BY <1>0, <1>1, <2>1, <2>2, <2>3, <2>4
<1> QED BY <1>2, <1>3, <1>4, <1>5

\* An event changes the total by what it brings in; an outflow is the only one
\* that lowers it, and the only one that takes the owner's randomness away.
LEMMA FollowsWorth ==
    ASSUME NEW c \in Commitments, NEW e \in Event, NEW d \in Commitments,
           Follows(c, e, d), e.id > 0
    PROVE  /\ e.kind # "outflow" =>
                 d.spend.v + d.recv.v = c.spend.v + c.recv.v
                    + (IF e.kind \in {"deposit", "transfer"} THEN e.v ELSE 0)
           /\ e.kind \in {"deposit", "transfer"} => e.v > 0
           /\ e.kind = "outflow" \/ (\E x \in c.spend.r : x < 0) =>
                 \E x \in d.spend.r : x < 0
<1>0. /\ c.spend.v \in Nat /\ c.recv.v \in Nat /\ c.spend.r \in SUBSET Int
      /\ e.v \in Nat /\ e.id \in Nat
  BY DEF Commitments, Point, Event
<1>1. CASE e.kind \in {"deposit", "transfer"}
  BY <1>0, <1>1 DEF Follows, Sum, Opening
<1>2. CASE e.kind = "merge"
  BY <1>0, <1>2 DEF Follows, Sum, Zero
<1>3. CASE e.kind = "outflow"
  <2>1. d.spend.r = {-e.id}
    BY <1>3 DEF Follows
  <2>2. -e.id \in d.spend.r /\ -e.id < 0
    BY <1>0, <2>1
  <2> QED BY <1>3, <2>2
<1> QED BY <1>1, <1>2, <1>3 DEF Event

\* The history after a commit: the old part of it stays, and the event that
\* joins follows from the commitments it found.
LEMMA CommitAppends ==
    ASSUME Typed, Deposit \/ Transfer \/ Merge \/ Outflow
    PROVE  /\ Typed' /\ Len(log)' = Len(log) + 1
           /\ \A n \in 1..Len(log) : log'[n] = log[n]
           /\ \A n \in 1..Len(log) + 1 : past'[n] = past[n]
           /\ log'[Len(log) + 1].id = Len(log) + 1
           /\ Follows(past'[Len(log) + 1], log'[Len(log) + 1], past'[Len(log) + 2])
           /\ UNCHANGED <<run, use>>
<1>1. PICK e \in Event, c \in Commitments :
              /\ log' = Append(log, e) /\ past' = Append(past, c)
              /\ e.id = Len(log) + 1 /\ Follows(chain, e, c)
              /\ UNCHANGED <<run, use>>
  BY CommitFollows
<1>2. /\ log \in Seq(Event) /\ past \in Seq(Commitments)
      /\ Len(past) = Len(log) + 1 /\ Len(log) \in Nat
  BY DEF Typed
<1>3. /\ log' \in Seq(Event) /\ Len(log') = Len(log) + 1
      /\ \A n \in 1..Len(log) : log'[n] = log[n]
      /\ log'[Len(log) + 1] = e
  BY <1>1, <1>2
<1>4. /\ past' \in Seq(Commitments) /\ Len(past') = Len(log) + 2
      /\ \A n \in 1..Len(log) + 1 : past'[n] = past[n]
      /\ past'[Len(log) + 2] = c
  BY <1>1, <1>2
<1>5. past'[Len(log) + 1] = chain
  BY <1>2, <1>4 DEF chain
<1>6. Typed'
  BY <1>1, <1>3, <1>4 DEF Typed
<1> QED BY <1>1, <1>3, <1>4, <1>5, <1>6

\* A commit keeps what the history says of itself.
LEMMA CommitGrows ==
    ASSUME Typed, Chained, Grows, Deposit \/ Transfer \/ Merge \/ Outflow
    PROVE  Chained' /\ Grows'
<1>0. PICK L, e : L \in Nat /\ L = Len(log) /\ e = log'[L + 1]
  BY ChainTyped
<1>1. /\ Typed' /\ Len(log') = L + 1 /\ L \in Nat
      /\ \A n \in 1..L : log'[n] = log[n]
      /\ \A n \in 1..L + 1 : past'[n] = past[n]
      /\ L = Len(log) /\ e = log'[L + 1]
      /\ e.id = L + 1 /\ Follows(past'[L + 1], e, past'[L + 2])
  BY <1>0, CommitAppends
<1>2. /\ e \in Event
      /\ \A n \in 0..L + 1 : past'[n + 1] \in Commitments /\ Worth(n)' \in Nat
  <2>1. log' \in Seq(Event) /\ past' \in Seq(Commitments)
        /\ Len(log') = L + 1 /\ Len(past') = L + 2
    BY <1>1 DEF Typed
  <2>2. \A n \in 0..L + 1 : past'[n + 1] \in Commitments
    BY <1>1, <2>1
  <2>3. \A n \in 0..L + 1 : Worth(n)' \in Nat
    BY <2>2 DEF Worth, Commitments, Point
  <2> QED BY <1>1, <2>1, <2>2, <2>3
<1>3. \A n \in 0..L : Worth(n)' = Worth(n) /\ Worth(n) \in Nat
  <2>1. \A n \in 0..L : Worth(n) \in Nat
    BY <1>1, ChainTyped
  <2>2. ASSUME NEW n \in 0..L
        PROVE  Worth(n)' = Worth(n)
    <3>1. past'[n + 1] = past[n + 1]
      BY <1>1
    <3> QED BY <3>1 DEF Worth
  <2> QED BY <2>1, <2>2
<1>4. /\ e.kind # "outflow" =>
            /\ Worth(L) <= Worth(L + 1)'
            /\ e.kind \in {"deposit", "transfer"} => Worth(L) < Worth(L + 1)'
      /\ e.kind = "outflow" \/ (\E x \in past[L + 1].spend.r : x < 0) =>
            \E x \in past'[L + 2].spend.r : x < 0
  <2>1. past'[L + 1] = past[L + 1] /\ past[L + 1] \in Commitments
        /\ past'[L + 2] \in Commitments
    <3>1. past'[L + 1] = past[L + 1] /\ past'[L + 1] \in Commitments
      BY <1>1, <1>2
    <3>2. L + 1 \in 0..L + 1 /\ (L + 1) + 1 = L + 2
      BY <1>1
    <3>3. past'[L + 2] \in Commitments
      BY <1>2, <3>2
    <3> QED BY <3>1, <3>3
  <2>2. Follows(past[L + 1], e, past'[L + 2]) /\ e.id > 0
    BY <1>1, <2>1
  <2>3. e.v \in Nat
    BY <1>2 DEF Event
  <2>4. /\ Worth(L) = past[L + 1].spend.v + past[L + 1].recv.v
        /\ Worth(L + 1)' = past'[L + 2].spend.v + past'[L + 2].recv.v
    BY <1>1 DEF Worth
  <2>5. Worth(L) \in Nat /\ Worth(L + 1)' \in Nat
    BY <1>1, <1>2, <1>3
  <2>6. /\ e.kind # "outflow" =>
                 past'[L + 2].spend.v + past'[L + 2].recv.v
                    = past[L + 1].spend.v + past[L + 1].recv.v
                    + (IF e.kind \in {"deposit", "transfer"} THEN e.v ELSE 0)
        /\ e.kind \in {"deposit", "transfer"} => e.v > 0
        /\ e.kind = "outflow" \/ (\E x \in past[L + 1].spend.r : x < 0) =>
                 \E x \in past'[L + 2].spend.r : x < 0
    BY <1>2, <2>1, <2>2, FollowsWorth
  <2> QED BY <2>3, <2>4, <2>5, <2>6
<1>5. Chained'
  <2>1. past'[1] = [spend |-> Zero, recv |-> Zero]
    BY <1>1 DEF Chained
  <2>2. ASSUME NEW n \in 1..L + 1
        PROVE  log'[n].id = n /\ Follows(past'[n], log'[n], past'[n + 1])
    <3>1. CASE n \in 1..L
      BY <1>1, <3>1 DEF Chained
    <3>2. CASE n = L + 1
      <4>1. n + 1 = L + 2
        BY <1>1, <3>2
      <4> QED BY <1>1, <3>2, <4>1
    <3> QED BY <1>1, <3>1, <3>2
  <2>3. Len(log') = L + 1
    BY <1>1
  <2> QED BY <2>1, <2>2, <2>3 DEF Chained, Follows, Opening, Sum, Zero
<1>6. ASSUME NEW n \in 0..L + 1, ~NoOutflow(1, n)'
      PROVE  \E x \in past'[n + 1].spend.r : x < 0
  <2>1. PICK k \in 1..n : log'[k].kind = "outflow"
    BY <1>6 DEF NoOutflow
  <2>2. CASE n \in 0..L
    <3>1. log[k].kind = "outflow"
      BY <1>1, <2>1, <2>2
    <3>2. ~NoOutflow(1, n)
      BY <3>1 DEF NoOutflow
    <3>3. past'[n + 1] = past[n + 1]
      BY <1>1, <2>2
    <3> QED BY <1>1, <2>2, <3>2, <3>3 DEF Grows
  <2>3. CASE n = L + 1
    <3>1. CASE k = L + 1
      BY <1>1, <1>4, <2>1, <2>3, <3>1
    <3>2. CASE k \in 1..L
      <4>1. ~NoOutflow(1, L)
        BY <1>1, <2>1, <3>2 DEF NoOutflow
      <4>2. \E x \in past[L + 1].spend.r : x < 0
        BY <1>1, <4>1 DEF Grows
      <4> QED BY <1>1, <1>4, <2>3, <4>2
    <3> QED BY <1>1, <2>3, <3>1, <3>2
  <2> QED BY <1>1, <2>2, <2>3
<1>7. ASSUME NEW i \in 0..L + 1, NEW j \in 0..L + 1, i <= j, NoOutflow(i + 1, j)'
      PROVE  /\ Worth(i)' <= Worth(j)'
             /\ (\E n \in i + 1..j : Received(n)') => Worth(i)' < Worth(j)'
  <2>1. CASE j \in 0..L
    <3>1. \A n \in i + 1..j : log'[n] = log[n]
      BY <1>1, <2>1
    <3>2. NoOutflow(i + 1, j)
      BY <1>7, <3>1 DEF NoOutflow
    <3>3. \A n \in i + 1..j : Received(n)' <=> Received(n)
      BY <3>1 DEF Received
    <3>4. i \in 0..L /\ Worth(i)' = Worth(i) /\ Worth(j)' = Worth(j)
      BY <1>1, <1>3, <1>7, <2>1
    <3> QED BY <1>1, <1>7, <2>1, <3>2, <3>3, <3>4 DEF Grows
  <2>2. CASE j = L + 1 /\ i = L + 1
    BY <1>1, <1>2, <2>2
  <2>3. CASE j = L + 1 /\ i \in 0..L
    <3>1. e.kind # "outflow"
      BY <1>1, <1>7, <2>3 DEF NoOutflow
    <3>2. NoOutflow(i + 1, L)
      BY <1>1, <1>7, <2>3 DEF NoOutflow
    <3>3. /\ Worth(i) <= Worth(L)
          /\ (\E n \in i + 1..L : Received(n)) => Worth(i) < Worth(L)
      BY <1>1, <2>3, <3>2 DEF Grows
    <3>4. /\ Worth(L) <= Worth(L + 1)'
          /\ Received(L + 1)' => Worth(L) < Worth(L + 1)'
      BY <1>1, <1>4, <3>1 DEF Received
    <3>5. \A n \in 1..L : Received(n)' <=> Received(n)
      BY <1>1 DEF Received
    <3>6. /\ Worth(i)' = Worth(i) /\ Worth(i) \in Nat /\ Worth(L) \in Nat
          /\ Worth(L + 1)' \in Nat
      BY <1>1, <1>2, <1>3, <2>3
    <3>7. \A n \in i + 1..L + 1 : n = L + 1 \/ n \in i + 1..L
      BY <1>1, <2>3
    <3>8. \A n \in i + 1..L : n \in 1..L
      BY <1>1, <2>3
    <3>9. Worth(i)' <= Worth(L + 1)'
      BY <3>3, <3>4, <3>6
    <3>10. ASSUME NEW n \in i + 1..L + 1, Received(n)'
           PROVE  Worth(i)' < Worth(L + 1)'
      <4>1. CASE n = L + 1
        BY <3>3, <3>4, <3>6, <3>10, <4>1
      <4>2. CASE n \in i + 1..L
        <5>1. Received(n)
          BY <3>5, <3>8, <3>10, <4>2
        <5> QED BY <3>3, <3>4, <3>6, <4>2, <5>1
      <4> QED BY <3>7, <4>1, <4>2
    <3>11. (\E n \in i + 1..L + 1 : Received(n)') => Worth(i)' < Worth(L + 1)'
      BY <3>10
    <3> QED BY <2>3, <3>9, <3>11
  <2> QED BY <1>1, <1>7, <2>1, <2>2, <2>3
<1>8. Grows'
  BY <1>1, <1>6, <1>7 DEF Grows
<1> QED BY <1>5, <1>8

\* A commit leaves a verification what it knows: it was about the old part.
LEMMA CommitKeeps ==
    ASSUME Inv, Deposit \/ Transfer \/ Merge \/ Outflow
    PROVE  Inv'
<1>0. PICK L \in Nat : L = Len(log)
  BY ChainTyped DEF Inv
<1>1. /\ Typed' /\ L = Len(log) /\ Len(log') = L + 1
      /\ \A n \in 1..L : log'[n] = log[n]
      /\ \A n \in 1..L + 1 : past'[n] = past[n]
      /\ run' = run /\ use' = use
  BY <1>0, CommitAppends DEF Inv
<1>2. Chained' /\ Grows'
  BY CommitGrows DEF Inv
<1>3. run.began \in Nat /\ run.at \in Nat /\ run.first \in Nat /\ run.last \in Nat
      /\ run.next \in Nat /\ run.ledger \in Nat
  BY DEF Inv, Typed, RunType
<1>4. Opened'
  <2>1. SUFFICES ASSUME run.pc \in {"replay", "reread", "ledger", "done"}
        PROVE  Opened'
    BY <1>1 DEF Opened
  <2>2. run.first \in 1..run.next /\ run.next <= run.last + 1 /\ run.last <= L
    BY <1>1, <2>1 DEF Inv, Opened
  <2>3. past'[run.next] = past[run.next]
    BY <1>1, <1>3, <2>2
  <2>4. Worth(run.first - 1)' = Worth(run.first - 1)
        /\ Worth(run.next - 1)' = Worth(run.next - 1)
    <3>1. run.first - 1 + 1 \in 1..L + 1 /\ run.next - 1 + 1 \in 1..L + 1
      BY <1>0, <1>3, <2>2
    <3>2. past'[run.first - 1 + 1] = past[run.first - 1 + 1]
          /\ past'[run.next - 1 + 1] = past[run.next - 1 + 1]
      BY <1>1, <3>1
    <3> QED BY <1>1, <3>2 DEF Worth
  <2>5. \A n \in run.first..run.next - 1 : log'[n] = log[n]
    BY <1>1, <1>3, <2>2
  <2>6. /\ NoOutflow(run.first, run.next - 1)' <=> NoOutflow(run.first, run.next - 1)
        /\ {n \in run.first..run.next - 1 : Received(n)}'
              = {n \in run.first..run.next - 1 : Received(n)}
    BY <1>1, <2>5 DEF NoOutflow, Received
  <2>7. Total' = Total
    BY <1>1 DEF Total
  <2>8. run.last <= Len(log')
    BY <1>1, <1>3, <2>2
  <2> QED BY <1>1, <2>1, <2>2, <2>3, <2>4, <2>6, <2>7, <2>8 DEF Inv, Opened
<1>5. Reading'
  <2>1. Mismatch' <=> Mismatch
    BY <1>1 DEF Mismatch, SpendOk, RecvOk, SamePoint
  <2>2. ASSUME run.pc \in {"events", "replay", "reread", "ledger", "done"}
        PROVE  run.at <= Len(log') /\ run.acc = past'[run.at + 1]
    <3>1. run.at <= L /\ run.acc = past[run.at + 1]
      BY <1>1, <2>2 DEF Inv, Reading
    <3>2. run.at + 1 \in 1..L + 1 /\ run.at <= L + 1
      BY <1>0, <1>3, <3>1
    <3>3. past'[run.at + 1] = past[run.at + 1]
      BY <1>1, <3>2
    <3> QED BY <1>1, <3>1, <3>2, <3>3
  <2> QED BY <1>1, <2>1, <2>2 DEF Inv, Reading, Index, Rereads
<1> QED BY <1>1, <1>2, <1>4, <1>5 DEF Inv

\* The replay of an event does to the openings what the contract did to the
\* commitments, except for the owner's randomness, which it cannot know.
LEMMA ReplayedFollows ==
    ASSUME NEW o \in Openings, NEW e \in Event, NEW c \in Commitments,
           NEW d \in Commitments, Follows(c, e, d),
           o.spend.r \subseteq Nat, o.recv.r \subseteq Nat
    PROVE  LET p == Replayed(o, e) IN
           /\ p \in Openings
           /\ o.spend.v = c.spend.v /\ o.recv = c.recv =>
                 /\ p.spend.v = d.spend.v /\ p.recv = d.recv
                 /\ p.provable /\ o.spend = c.spend => p.spend = d.spend
           /\ p.provable => o.provable /\ e.kind # "outflow"
           /\ p.listed = o.listed \union
                 (IF e.kind \in {"deposit", "transfer"} THEN {e.id} ELSE {})
           /\ p.spend.r \subseteq Nat /\ p.recv.r \subseteq Nat
           /\ e.kind # "outflow" =>
                 p.spend.v + p.recv.v + c.spend.v + c.recv.v
                    = o.spend.v + o.recv.v + d.spend.v + d.recv.v
<1> DEFINE p == Replayed(o, e)
<1>0. /\ o.spend \in Point /\ o.recv \in Point /\ o.provable \in BOOLEAN
      /\ o.listed \subseteq Nat /\ o = [spend |-> o.spend, recv |-> o.recv,
                                       provable |-> o.provable, listed |-> o.listed]
      /\ c.spend \in Point /\ c.recv \in Point
      /\ e.id \in Nat /\ e.v \in Nat /\ e.left \in Nat
  BY DEF Openings, Commitments, Event
<1>1. CASE e.kind \in {"deposit", "transfer"}
  <2>1. /\ p = [spend |-> o.spend, recv |-> Sum(o.recv, Opening(e)),
                 provable |-> o.provable, listed |-> o.listed \union {e.id}]
        /\ d.spend = c.spend /\ d.recv = Sum(c.recv, Opening(e))
    BY <1>0, <1>1 DEF Replayed, Credited, Follows, Openings
  <2>2. Opening(e) \in Point /\ Opening(e).v = e.v /\ Opening(e).r \subseteq Nat
    BY <1>0 DEF Opening, Point
  <2>3. /\ Sum(o.recv, Opening(e)) \in Point
        /\ Sum(o.recv, Opening(e)).v = o.recv.v + e.v
        /\ Sum(c.recv, Opening(e)).v = c.recv.v + e.v
        /\ Sum(o.recv, Opening(e)).r \subseteq Nat
    BY <1>0, <2>2, SumTyped DEF Sum
  <2>4. o.spend.v \in Nat /\ o.recv.v \in Nat /\ c.spend.v \in Nat /\ c.recv.v \in Nat
    BY <1>0 DEF Point
  <2>5. p \in Openings
    BY <1>0, <2>1, <2>3 DEF Openings
  <2> HIDE DEF p
  <2>7. p.spend = o.spend /\ p.recv = Sum(o.recv, Opening(e)) /\ p.provable = o.provable
        /\ p.listed = o.listed \union {e.id}
    BY <2>1
  <2>8. p.recv.v = o.recv.v + e.v /\ d.recv.v = c.recv.v + e.v
        /\ p.spend.v = o.spend.v /\ d.spend.v = c.spend.v
    BY <2>1, <2>3, <2>7
  <2>6. p.spend.v + p.recv.v + c.spend.v + c.recv.v
           = o.spend.v + o.recv.v + d.spend.v + d.recv.v
    BY <1>0, <2>4, <2>8
  <2> QED BY <1>1, <2>1, <2>3, <2>5, <2>6, <2>7 DEF p
<1>2. CASE e.kind = "merge"
  <2>1. /\ p = [spend |-> Sum(o.spend, o.recv), recv |-> Zero,
                 provable |-> o.provable, listed |-> o.listed]
        /\ d.spend = Sum(c.spend, c.recv) /\ d.recv = Zero
    BY <1>0, <1>2 DEF Replayed, Merged, Follows, Openings
  <2>2. /\ Sum(o.spend, o.recv) \in Point
        /\ Sum(o.spend, o.recv).v = o.spend.v + o.recv.v
        /\ Sum(c.spend, c.recv).v = c.spend.v + c.recv.v
        /\ Sum(o.spend, o.recv).r \subseteq Nat
        /\ Zero \in Point /\ Zero.v = 0 /\ Zero.r \subseteq Nat
    BY <1>0, SumTyped DEF Sum, Zero
  <2>3. o.spend.v = c.spend.v /\ o.recv = c.recv =>
           Sum(o.spend, o.recv).v = Sum(c.spend, c.recv).v
    BY <2>2
  <2>4. o.spend.v \in Nat /\ o.recv.v \in Nat /\ c.spend.v \in Nat /\ c.recv.v \in Nat
    BY <1>0 DEF Point
  <2>5. p \in Openings
    BY <1>0, <2>1, <2>2 DEF Openings
  <2> HIDE DEF p
  <2>6. p.spend.v + p.recv.v + c.spend.v + c.recv.v
           = o.spend.v + o.recv.v + d.spend.v + d.recv.v
    BY <2>1, <2>2, <2>4
  <2>7. p.spend = Sum(o.spend, o.recv) /\ p.recv = Zero /\ p.provable = o.provable
        /\ p.listed = o.listed
    BY <2>1
  <2> QED BY <1>2, <2>1, <2>2, <2>3, <2>5, <2>6, <2>7 DEF p
<1>3. CASE e.kind = "outflow"
  <2>1. /\ p = [spend |-> [v |-> e.left, r |-> o.spend.r], recv |-> o.recv,
                 provable |-> FALSE, listed |-> o.listed]
        /\ d.spend = [v |-> e.left, r |-> {-e.id}] /\ d.recv = c.recv
    BY <1>0, <1>3 DEF Replayed, Spent, Follows, Openings
  <2>2. [v |-> e.left, r |-> o.spend.r] \in Point
    BY <1>0 DEF Point
  <2>3. p \in Openings
    BY <1>0, <2>1, <2>2 DEF Openings
  <2> HIDE DEF p
  <2>4. p.spend.v = e.left /\ p.spend.r = o.spend.r /\ p.recv = o.recv
        /\ p.provable = FALSE /\ p.listed = o.listed
    BY <2>1
  <2> QED BY <1>3, <2>1, <2>3, <2>4 DEF p
<1> QED BY <1>1, <1>2, <1>3 DEF Event

\* The replay of one event carries what the replay holds over to the next.
LEMMA ReplayKeeps ==
    ASSUME Inv, ReplayEvent
    PROVE  Inv'
<1> DEFINE k == run.next
           o == run.open
           p == Replayed(o, log[k])
<1>1. /\ run.pc = "replay" /\ k <= run.last
      /\ run' = [run EXCEPT !.open = p, !.next = k + 1]
      /\ log' = log /\ past' = past /\ use' = use
  BY DEF ReplayEvent
<1>2. /\ run \in RunType /\ o \in Openings /\ k \in Nat /\ run.first \in Nat
      /\ run.last \in Nat /\ Len(log) \in Nat /\ log \in Seq(Event)
      /\ Len(past) = Len(log) + 1
  BY DEF Inv, Typed, RunType
<1>3. /\ run.first \in 1..k /\ k <= run.last + 1 /\ run.last <= Len(log)
      /\ run.first = 1 =>
            /\ o.spend.v = past[k].spend.v
            /\ o.recv = past[k].recv
            /\ o.provable => o.spend = past[k].spend
      /\ o.listed = {n \in run.first..k - 1 : Received(n)}
      /\ o.spend.r \subseteq Nat /\ o.recv.r \subseteq Nat
      /\ o.provable => NoOutflow(run.first, k - 1)
      /\ NoOutflow(run.first, k - 1) => Worth(run.first - 1) + Total = Worth(k - 1)
  BY <1>1 DEF Inv, Opened
<1>4. k \in 1..Len(log) /\ log[k] \in Event /\ log[k].id = k
      /\ Follows(past[k], log[k], past[k + 1])
  <2>1. k \in 1..Len(log)
    BY <1>1, <1>2, <1>3
  <2> QED BY <1>2, <2>1 DEF Inv, Chained
<1>5. past[k] \in Commitments /\ past[k + 1] \in Commitments
  <2>1. \A n \in 0..Len(log) : past[n + 1] \in Commitments
    BY ChainTyped DEF Inv
  <2>2. k - 1 \in 0..Len(log) /\ k \in 0..Len(log) /\ (k - 1) + 1 = k
    BY <1>2, <1>4
  <2> QED BY <2>1, <2>2
<1>6. /\ p \in Openings
      /\ o.spend.v = past[k].spend.v /\ o.recv = past[k].recv =>
            /\ p.spend.v = past[k + 1].spend.v /\ p.recv = past[k + 1].recv
            /\ p.provable /\ o.spend = past[k].spend => p.spend = past[k + 1].spend
      /\ p.provable => o.provable /\ log[k].kind # "outflow"
      /\ p.listed = o.listed \union (IF Received(k) THEN {k} ELSE {})
      /\ p.spend.r \subseteq Nat /\ p.recv.r \subseteq Nat
      /\ log[k].kind # "outflow" =>
            p.spend.v + p.recv.v + past[k].spend.v + past[k].recv.v
               = o.spend.v + o.recv.v + past[k + 1].spend.v + past[k + 1].recv.v
  <2> DEFINE e == log[k]
             c == past[k]
             d == past[k + 1]
  <2>1. /\ o \in Openings /\ e \in Event /\ c \in Commitments /\ d \in Commitments
        /\ Follows(c, e, d) /\ o.spend.r \subseteq Nat /\ o.recv.r \subseteq Nat
    BY <1>2, <1>3, <1>4, <1>5
  <2>2. p = Replayed(o, e) /\ e.id = k /\ c = past[k] /\ d = past[k + 1]
        /\ (Received(k) <=> e.kind \in {"deposit", "transfer"}) /\ e = log[k]
    BY <1>4 DEF Received
  <2> HIDE DEF k, o, p, e, c, d
  <2>3. /\ p \in Openings
        /\ o.spend.v = c.spend.v /\ o.recv = c.recv =>
              /\ p.spend.v = d.spend.v /\ p.recv = d.recv
              /\ p.provable /\ o.spend = c.spend => p.spend = d.spend
        /\ p.provable => o.provable /\ e.kind # "outflow"
        /\ p.listed = o.listed \union
              (IF e.kind \in {"deposit", "transfer"} THEN {e.id} ELSE {})
        /\ p.spend.r \subseteq Nat /\ p.recv.r \subseteq Nat
        /\ e.kind # "outflow" =>
              p.spend.v + p.recv.v + c.spend.v + c.recv.v
                 = o.spend.v + o.recv.v + d.spend.v + d.recv.v
    BY <2>1, <2>2, ReplayedFollows
  <2> QED BY <2>2, <2>3
<1> HIDE DEF p, k, o
<1>7. /\ run'.open = p /\ run'.next = k + 1 /\ run'.pc = "replay"
      /\ run'.first = run.first /\ run'.last = run.last /\ run'.began = run.began
      /\ run'.at = run.at /\ run'.acc = run.acc
  BY <1>1, <1>2 DEF RunType
<1>8. Typed'
  <2>1. run' \in RunType
    <3>1. p \in Openings /\ k + 1 \in Nat /\ run \in RunType
      BY <1>2, <1>6
    <3>2. run' = [run EXCEPT !.open = p, !.next = k + 1]
      BY <1>1
    <3> QED BY <3>1, <3>2 DEF RunType
  <2> QED BY <1>1, <2>1 DEF Inv, Typed
<1>9. Chained' /\ Grows'
  <2>1. \A n : Worth(n)' = Worth(n)
    BY <1>1 DEF Worth
  <2>2. \A i, j : NoOutflow(i, j)' <=> NoOutflow(i, j)
    BY <1>1 DEF NoOutflow
  <2>3. \A n : Received(n)' <=> Received(n)
    BY <1>1 DEF Received
  <2> QED BY <1>1, <2>1, <2>2, <2>3 DEF Inv, Chained, Grows, Follows, Opening, Sum, Zero
<1>10. Opened'
  <2>1. run.first \in 1..k + 1 /\ k + 1 <= run.last + 1
    BY <1>1, <1>2, <1>3
  <2>2. run.first = 1 =>
              /\ p.spend.v = past[k + 1].spend.v
              /\ p.recv = past[k + 1].recv
              /\ p.provable => p.spend = past[k + 1].spend
    BY <1>3, <1>6
  <2>3. p.listed = {n \in run.first..k : Received(n)}
    BY <1>2, <1>3, <1>6
  <2>4. NoOutflow(run.first, k) <=>
          NoOutflow(run.first, k - 1) /\ log[k].kind # "outflow"
    BY <1>2, <1>3 DEF NoOutflow
  <2>5. ASSUME NoOutflow(run.first, k)
        PROVE  Worth(run.first - 1) + (p.spend.v + p.recv.v) = Worth(k)
    <3>1. Worth(run.first - 1) + (o.spend.v + o.recv.v) = Worth(k - 1)
      BY <1>3, <2>4, <2>5 DEF Total, o
    <3>2. /\ p.spend.v + p.recv.v + past[k].spend.v + past[k].recv.v
               = o.spend.v + o.recv.v + past[k + 1].spend.v + past[k + 1].recv.v
      BY <1>6, <2>4, <2>5
    <3>3. Worth(k) = past[k + 1].spend.v + past[k + 1].recv.v
          /\ Worth(k - 1) = past[k].spend.v + past[k].recv.v
      <4>1. (k - 1) + 1 = k
        BY <1>2
      <4> QED BY <4>1 DEF Worth
    <3>4. /\ p.spend.v \in Nat /\ p.recv.v \in Nat /\ o.spend.v \in Nat
          /\ o.recv.v \in Nat
      BY <1>2, <1>6 DEF Openings, Point
    <3>5. /\ past[k].spend.v \in Nat /\ past[k].recv.v \in Nat
          /\ past[k + 1].spend.v \in Nat /\ past[k + 1].recv.v \in Nat
      BY <1>5 DEF Commitments, Point
    <3>6. Worth(run.first - 1) \in Nat
      <4>1. run.first - 1 \in 0..Len(log)
        BY <1>2, <1>3, <1>4
      <4> QED BY <4>1, ChainTyped DEF Inv
    <3> QED BY <3>1, <3>2, <3>3, <3>4, <3>5, <3>6
  <2>6. \A n : (Worth(n)' = Worth(n)) /\ (Received(n)' <=> Received(n))
    BY <1>1 DEF Worth, Received
  <2>7. \A i, j : NoOutflow(i, j)' <=> NoOutflow(i, j)
    BY <1>1 DEF NoOutflow
  <2>8. (run.next - 1)' = k /\ (run.first - 1)' = run.first - 1
    BY <1>2, <1>7
  <2>9. p.provable => NoOutflow(run.first, k)
    BY <1>3, <1>6, <2>4
  <2>10. NoOutflow(run.first, run.next - 1)' <=> NoOutflow(run.first, k)
    BY <1>1, <1>7, <2>8 DEF NoOutflow
  <2>11. NoOutflow(run.first, k) => (Worth(run.first - 1) + Total = Worth(run.next - 1))'
    <3>1. Worth(run.first - 1)' = Worth(run.first - 1) /\ Worth(run.next - 1)' = Worth(k)
      BY <1>1, <1>7, <2>8 DEF Worth
    <3>2. Total' = p.spend.v + p.recv.v
      BY <1>7 DEF Total
    <3> QED BY <2>5, <3>1, <3>2
  <2>12. {n \in run.first..run.next - 1 : Received(n)}'
            = {n \in run.first..k : Received(n)}
    BY <1>1, <1>7, <2>8 DEF Received
  <2> QED BY <1>1, <1>3, <1>6, <1>7, <2>1, <2>2, <2>3, <2>9, <2>10, <2>11, <2>12
          DEF Opened
<1>11. Reading'
  BY <1>1, <1>7 DEF Inv, Reading, Index, Rereads
<1> QED BY <1>8, <1>9, <1>10, <1>11 DEF Inv

\* A step of a verification that leaves the chain alone keeps its history.
LEMMA ChainUnchanged ==
    ASSUME Inv, UNCHANGED <<log, past, use>>
    PROVE  /\ Chained' /\ Grows'
           /\ run' \in RunType => Typed'
           /\ Len(log)' = Len(log) /\ chain' = chain
           /\ Index' = Index /\ (Rereads' <=> Rereads)
<1>1. \A n : Worth(n)' = Worth(n)
  BY DEF Worth
<1>2. \A i, j : NoOutflow(i, j)' <=> NoOutflow(i, j)
  BY DEF NoOutflow
<1>3. \A n : Received(n)' <=> Received(n)
  BY DEF Received
<1>4. Chained' /\ Grows'
  BY <1>1, <1>2, <1>3 DEF Inv, Chained, Grows, Follows, Opening, Sum, Zero
<1>5. run' \in RunType => Typed'
  BY DEF Inv, Typed
<1>6. Len(log)' = Len(log) /\ chain' = chain /\ Index' = Index /\ (Rereads' <=> Rereads)
  BY DEF chain, Index, Rereads
<1> QED BY <1>4, <1>5, <1>6

\* What was replayed stays, when a step changes none of it.
LEMMA OpenedKept ==
    ASSUME Inv, UNCHANGED <<log, past, use>>,
           run.pc \in {"replay", "reread", "ledger"},
           run'.first = run.first, run'.last = run.last, run'.next = run.next,
           run'.open = run.open
    PROVE  Opened'
<1>1. /\ run.first \in 1..run.next /\ run.next <= run.last + 1 /\ run.last <= Len(log)
      /\ run.first = 1 =>
              /\ run.open.spend.v = past[run.next].spend.v
              /\ run.open.recv = past[run.next].recv
              /\ run.open.provable => run.open.spend = past[run.next].spend
      /\ run.open.listed = {n \in run.first..run.next - 1 : Received(n)}
      /\ run.open.spend.r \subseteq Nat /\ run.open.recv.r \subseteq Nat
      /\ run.open.provable => NoOutflow(run.first, run.next - 1)
      /\ NoOutflow(run.first, run.next - 1) =>
              Worth(run.first - 1) + Total = Worth(run.next - 1)
  BY DEF Inv, Opened
<1>2. /\ NoOutflow(run.first, run.next - 1)' <=> NoOutflow(run.first, run.next - 1)
      /\ {n \in run.first..run.next - 1 : Received(n)}'
            = {n \in run.first..run.next - 1 : Received(n)}
      /\ Worth(run.first - 1)' = Worth(run.first - 1)
      /\ Worth(run.next - 1)' = Worth(run.next - 1)
      /\ Total' = Total
  BY DEF NoOutflow, Received, Worth, Total
<1> QED BY <1>1, <1>2 DEF Opened

\* A verification starts with nothing replayed, and may fail anywhere.
LEMMA StartKeeps ==
    ASSUME Inv, CheckKeys \/ ReadCommitments \/ Fail
    PROVE  Inv'
<1>0. /\ UNCHANGED <<log, past, use>> /\ run \in RunType
  BY DEF Inv, Typed, CheckKeys, ReadCommitments, Fail
<1>1. CASE CheckKeys
  <2>1. PICK keys \in BOOLEAN : run' = [NoRun EXCEPT !.pc = "commitments", !.keys = keys]
    BY <1>1 DEF CheckKeys
  <2>2. run'.pc = "commitments" /\ run'.open = NoOpenings
    BY <2>1 DEF NoRun
  <2>3. run' \in RunType
    <3>1. [spend |-> Zero, recv |-> Zero] \in Commitments /\ NoOpenings \in Openings
      BY SumTyped DEF Commitments, Openings, NoOpenings
    <3> QED BY <2>1, <3>1 DEF NoRun, RunType
  <2> QED BY <1>0, <2>2, <2>3, ChainUnchanged DEF Inv, Opened, Reading
<1>2. CASE ReadCommitments
  <2>1. /\ run.pc = "commitments"
        /\ run' = [run EXCEPT !.pc = "events", !.acc = chain, !.began = Len(log),
                               !.at = Len(log)]
    BY <1>2 DEF ReadCommitments
  <2>2. Len(log) \in Nat /\ chain \in Commitments
    BY ChainTyped DEF Inv
  <2>3. run' \in RunType /\ run'.pc = "events" /\ run'.open = run.open
        /\ run'.acc = chain /\ run'.began = Len(log) /\ run'.at = Len(log)
    BY <1>0, <2>1, <2>2 DEF RunType
  <2>4. Reading'
    <3>1. run'.acc = past[run'.at + 1]
      BY <2>3 DEF chain
    <3> QED BY <1>0, <2>1, <2>2, <2>3, <3>1 DEF Inv, Reading
  <2>5. Opened'
    BY <2>3 DEF Opened
  <2> QED BY <1>0, <2>3, <2>4, <2>5, ChainUnchanged DEF Inv
<1>3. CASE Fail
  <2>1. run' = [run EXCEPT !.pc = "failed"]
    BY <1>3 DEF Fail
  <2>2. run' \in RunType /\ run'.pc = "failed"
    BY <1>0, <2>1 DEF RunType
  <2> QED BY <1>0, <2>2, ChainUnchanged DEF Inv, Opened, Reading
<1> QED BY <1>1, <1>2, <1>3

\* The loop starts before the first event that was read, with nothing opened.
LEMMA EventsKeep ==
    ASSUME Inv, ReadEvents
    PROVE  Inv'
<1>1. PICK first \in 1..Len(log) + 1, last \in 0..Len(log) :
          /\ Served(first, last)
          /\ run' = IF first > last THEN [run EXCEPT !.pc = "failed"]
                    ELSE [run EXCEPT !.pc = "replay", !.first = first, !.last = last,
                             !.next = first]
  BY DEF ReadEvents
<1>2. /\ run.pc = "events" /\ UNCHANGED <<log, past, use>> /\ run \in RunType
      /\ Len(log) \in Nat
  BY ChainTyped DEF ReadEvents, Inv, Typed
<1>3. CASE first > last
  <2>1. run' \in RunType /\ run'.pc = "failed"
    BY <1>1, <1>2, <1>3 DEF RunType
  <2> QED BY <1>2, <2>1, ChainUnchanged DEF Inv, Opened, Reading
<1>4. CASE first <= last
  <2>1. run' = [run EXCEPT !.pc = "replay", !.first = first, !.last = last,
                           !.next = first]
    BY <1>1, <1>2, <1>4
  <2>2. /\ run' \in RunType /\ run'.pc = "replay" /\ run'.first = first
        /\ run'.last = last /\ run'.next = first /\ run'.open = run.open
        /\ run'.began = run.began /\ run'.at = run.at /\ run'.acc = run.acc
    <3>1. first \in Nat /\ last \in Nat /\ run \in RunType
      BY <1>2
    <3>2. run' \in RunType
      BY <2>1, <3>1 DEF RunType
    <3> QED BY <2>1, <3>1, <3>2 DEF RunType
  <2>3. /\ run.open = NoOpenings /\ run.began <= run.at /\ run.at <= Len(log)
        /\ run.acc = past[run.at + 1] /\ run.at = run.began
        /\ run.began \in Nat
    BY <1>2 DEF Inv, Reading, RunType
  <2>4. Index = "current" => first = 1 /\ last = Len(log)
    BY <1>1 DEF Served
  <2>5. Reading'
    BY <1>2, <2>2, <2>3, <2>4 DEF Reading, Index
  <2>6. Opened'
    <3>1. first \in 1..first /\ first <= last + 1 /\ last <= Len(log)
      BY <1>2, <1>4
    <3>2. past[1] = [spend |-> Zero, recv |-> Zero]
      BY DEF Inv, Chained
    <3>3. {n \in first..first - 1 : Received(n)} = {}
      BY <1>2
    <3>4. Worth(first - 1) \in Nat
      <4>1. first - 1 \in 0..Len(log)
        BY <1>2, <1>4
      <4> QED BY <4>1, ChainTyped DEF Inv
    <3>5. \A n : n \notin first..first - 1
      BY <1>2
    <3>6. NoOutflow(run.first, run.next - 1)'
      BY <2>2, <3>5 DEF NoOutflow
    <3>7. {n \in run.first..run.next - 1 : Received(n)}' = {}
      BY <2>2, <3>5
    <3>8. (Worth(run.first - 1) + Total = Worth(run.next - 1))'
      <4>1. Total' = 0
        BY <2>2, <2>3 DEF Total, NoOpenings, Zero
      <4>2. Worth(run.first - 1)' = Worth(first - 1)
            /\ Worth(run.next - 1)' = Worth(first - 1)
        BY <1>2, <2>2 DEF Worth
      <4> QED BY <3>4, <4>1, <4>2
    <3>9. /\ run'.first \in 1..run'.next /\ run'.next <= run'.last + 1
          /\ run'.last <= Len(log')
      BY <1>2, <2>2, <3>1
    <3>10. run'.first = 1 =>
              /\ run'.open.spend.v = past'[run'.next].spend.v
              /\ run'.open.recv = past'[run'.next].recv
              /\ run'.open.provable => run'.open.spend = past'[run'.next].spend
      BY <1>2, <2>2, <2>3, <3>2 DEF NoOpenings
    <3>11. /\ run'.open.listed = {} /\ run'.open.spend.r \subseteq Nat
           /\ run'.open.recv.r \subseteq Nat
      BY <2>2, <2>3 DEF NoOpenings, Zero
    <3> QED BY <3>6, <3>7, <3>8, <3>9, <3>10, <3>11 DEF Opened
  <2> QED BY <1>2, <2>2, <2>5, <2>6, ChainUnchanged DEF Inv
<1> QED BY <1>2, <1>3, <1>4

\* With an index up to date, what was replayed matches the commitments of the
\* moment of its last event.
LEMMA LastMatches ==
    ASSUME Inv, run.pc \in {"replay", "reread", "ledger", "done"}, run.first = 1,
           run.next = run.last + 1, run.acc = past[run.last + 1]
    PROVE  ~Mismatch
<1>1. /\ run.open.recv = past[run.next].recv
      /\ run.open.provable => run.open.spend = past[run.next].spend
  BY DEF Inv, Opened
<1> QED BY <1>1 DEF Mismatch, SpendOk, RecvOk, SamePoint

\* The verdict, and the second reading, of the commitments.
LEMMA VerdictKeeps ==
    ASSUME Inv, Compare \/ Reread \/ Conclude
    PROVE  Inv'
<1>0. /\ UNCHANGED <<log, past, use>> /\ run \in RunType
      /\ run.pc \in {"replay", "reread", "ledger"}
      /\ Len(log) \in Nat /\ chain \in Commitments
  BY ChainTyped DEF Inv, Typed, Compare, Reread, Conclude
<1>1. /\ run.began \in Nat /\ run.at \in Nat /\ run.first \in Nat
      /\ run.last \in Nat /\ run.next \in Nat
  BY <1>0 DEF RunType
<1>2. /\ run.next <= run.last + 1 /\ run.last <= Len(log)
  BY <1>0 DEF Inv, Opened
<1>3. /\ run.began <= run.at /\ run.at <= Len(log) /\ run.acc = past[run.at + 1]
      /\ run.pc \in {"replay", "reread"} => run.at = run.began
      /\ Index = "current" => run.first = 1 /\ run.began <= run.last
  BY <1>0 DEF Inv, Reading
<1>4. CASE Compare
  <2>1. /\ run.pc = "replay" /\ run.next > run.last
        /\ run' = [run EXCEPT !.pc = IF ReadAgain THEN "reread" ELSE "ledger"]
    BY <1>4 DEF Compare
  <2>2. /\ run' \in RunType
        /\ run'.pc = (IF ReadAgain THEN "reread" ELSE "ledger")
        /\ run'.first = run.first /\ run'.last = run.last /\ run'.next = run.next
        /\ run'.open = run.open /\ run'.began = run.began /\ run'.at = run.at
        /\ run'.acc = run.acc
    BY <1>0, <2>1 DEF RunType
  <2>3. Mismatch' <=> Mismatch
    BY <2>2 DEF Mismatch, SpendOk, RecvOk, SamePoint
  <2>4. run.next = run.last + 1
    BY <1>1, <1>2, <2>1
  <2>5. Reading'
    <3>1. CASE ReadAgain
      <4>1. run'.pc = "reread" /\ Mismatch
        BY <2>2, <3>1 DEF ReadAgain
      <4> QED BY <1>0, <1>3, <2>1, <2>2, <2>3, <2>4, <4>1, ChainUnchanged DEF Reading
    <3>2. CASE ~ReadAgain
      <4>1. run'.pc = "ledger" /\ ~(Rereads /\ Mismatch)
        BY <2>2, <3>2 DEF ReadAgain
      <4> QED BY <1>0, <1>3, <2>1, <2>2, <2>3, <2>4, <4>1, ChainUnchanged DEF Reading
    <3> QED BY <3>1, <3>2
  <2>6. Opened'
    BY <1>0, <2>2, OpenedKept
  <2> QED BY <1>0, <2>2, <2>5, <2>6, ChainUnchanged DEF Inv
<1>5. CASE Reread
  <2>1. /\ run.pc = "reread"
        /\ run' = [run EXCEPT !.pc = "ledger", !.acc = chain, !.at = Len(log)]
    BY <1>5 DEF Reread
  <2>2. /\ run' \in RunType /\ run'.pc = "ledger"
        /\ run'.first = run.first /\ run'.last = run.last /\ run'.next = run.next
        /\ run'.open = run.open /\ run'.began = run.began /\ run'.at = Len(log)
        /\ run'.acc = chain
    BY <1>0, <2>1 DEF RunType
  <2>3. run.next = run.last + 1 /\ Mismatch
    BY <2>1 DEF Inv, Reading
  <2>4. Opened'
    BY <1>0, <2>2, OpenedKept
  <2>5. ASSUME Mismatch', Index = "current"
        PROVE  run.began < run.last /\ run.last < Len(log)
    <3>1. run.last # run.began
      BY <1>0, <1>3, <2>1, <2>3, <2>5, LastMatches
    <3>2. run.last # Len(log)
      <4>1. SUFFICES ASSUME run.last = Len(log)
            PROVE  FALSE
        OBVIOUS
      <4>2. /\ run.open.recv = past[run.next].recv
            /\ run.open.provable => run.open.spend = past[run.next].spend
        BY <1>0, <1>3, <2>5 DEF Inv, Opened
      <4>3. chain = past[run.next]
        BY <2>3, <4>1 DEF chain
      <4> QED BY <2>2, <2>5, <4>2, <4>3 DEF Mismatch, SpendOk, RecvOk, SamePoint
    <3> QED BY <1>0, <1>1, <1>2, <1>3, <2>5, <3>1, <3>2
  <2>6. Reading'
    <3>1. run'.acc = past'[run'.at + 1] /\ run'.at <= Len(log') /\ run'.began <= run'.at
      BY <1>0, <1>1, <1>3, <2>2 DEF chain
    <3> QED BY <1>0, <1>3, <2>2, <2>3, <2>5, <3>1, ChainUnchanged DEF Reading
  <2> QED BY <1>0, <2>2, <2>4, <2>6, ChainUnchanged DEF Inv
<1>6. CASE Conclude
  <2>1. /\ run.pc = "ledger"
        /\ run' = [run EXCEPT !.pc = "done", !.verified = run.keys /\ ~Mismatch,
                              !.ledger = Len(log)]
    BY <1>6 DEF Conclude
  <2>2. /\ run'.pc = "done"
        /\ run'.first = run.first /\ run'.last = run.last /\ run'.next = run.next
        /\ run'.open = run.open /\ run'.began = run.began /\ run'.at = run.at
        /\ run'.acc = run.acc /\ run'.keys = run.keys /\ run'.ledger = Len(log)
        /\ run'.verified = (run.keys /\ ~Mismatch)
    BY <1>0, <2>1 DEF RunType
  <2>3. run' \in RunType
    <3>1. (run.keys /\ ~Mismatch) \in BOOLEAN
      OBVIOUS
    <3> DEFINE verdict == run.keys /\ ~Mismatch
    <3>2. run' = [run EXCEPT !.pc = "done", !.verified = verdict, !.ledger = Len(log)]
      BY <2>1
    <3> HIDE DEF verdict
    <3>3. verdict \in BOOLEAN
      BY <3>1 DEF verdict
    <3> QED BY <1>0, <3>2, <3>3 DEF RunType
  <2>4. Mismatch' <=> Mismatch
    BY <2>2 DEF Mismatch, SpendOk, RecvOk, SamePoint
  <2>5. run.next = run.last + 1
        /\ (Mismatch /\ Rereads /\ Index = "current" =>
              run.began < run.last /\ run.last < run.at)
    BY <2>1 DEF Inv, Reading
  <2>6. Opened'
    BY <1>0, <2>2, OpenedKept
  <2>7. Reading'
    BY <1>0, <1>2, <1>3, <2>2, <2>4, <2>5, ChainUnchanged DEF Reading
  <2> QED BY <1>0, <2>3, <2>6, <2>7, ChainUnchanged DEF Inv
<1> QED BY <1>4, <1>5, <1>6

\* Every step of the chain and of a verification keeps the invariant.
LEMMA NextInv == Inv /\ [Next]_vars => Inv'
<1> SUFFICES ASSUME Inv, [Next]_vars
    PROVE  Inv'
  OBVIOUS
<1>1. CASE Deposit \/ Transfer \/ Merge \/ Outflow
  BY <1>1, CommitKeeps
<1>2. CASE CheckKeys \/ ReadCommitments \/ Fail
  BY <1>2, StartKeeps
<1>3. CASE ReadEvents
  BY <1>3, EventsKeep
<1>4. CASE ReplayEvent
  BY <1>4, ReplayKeeps
<1>5. CASE Compare \/ Reread \/ Conclude
  BY <1>5, VerdictKeeps
<1>6. CASE UNCHANGED vars
  <2>1. UNCHANGED <<log, past, use>> /\ run' = run /\ run \in RunType
    BY <1>6 DEF vars, Inv, Typed
  <2>2. Chained' /\ Grows' /\ Typed'
    BY <2>1, ChainUnchanged
  <2>3. /\ \A n : (Worth(n)' = Worth(n)) /\ (Received(n)' <=> Received(n))
        /\ \A i, j : NoOutflow(i, j)' <=> NoOutflow(i, j)
    BY <2>1 DEF Worth, Received, NoOutflow
  <2>4. Opened'
    BY <2>1, <2>3 DEF Inv, Opened, Total
  <2>5. Reading'
    BY <2>1 DEF Inv, Reading, Mismatch, SpendOk, RecvOk, SamePoint, Index, Rereads
  <2> QED BY <2>2, <2>4, <2>5 DEF Inv
<1> QED BY <1>1, <1>2, <1>3, <1>4, <1>5, <1>6 DEF Next

\* A goal starts empty, and nobody is verifying it.
LEMMA InitInv == Init => Inv
<1> SUFFICES ASSUME Init
    PROVE  Inv
  OBVIOUS
<1> DEFINE none == [spend |-> Zero, recv |-> Zero]
<1>0. none \in Commitments /\ NoOpenings \in Openings
  BY SumTyped DEF Commitments, Openings, NoOpenings
<1>1. log = <<>> /\ past = <<none>> /\ run = NoRun /\ use \in Uses /\ Len(log) = 0
  BY DEF Init
<1>2. past \in Seq(Commitments) /\ Len(past) = 1 /\ past[1] = none
  <2> HIDE DEF none
  <2> QED BY <1>0, <1>1
<1>3. run \in RunType /\ run.pc = "idle"
  BY <1>0, <1>1 DEF NoRun, RunType
<1>4. Typed
  BY <1>1, <1>2, <1>3 DEF Typed
<1>5. Chained
  BY <1>1, <1>2 DEF Chained
<1>6. Grows
  <2>1. \A n \in 0..0 : n = 0
    OBVIOUS
  <2>2. NoOutflow(1, 0)
    BY DEF NoOutflow
  <2>3. Worth(0) \in Nat
    BY <1>1, <1>4, ChainTyped
  <2>4. \A n : n \notin 0 + 1..0
    OBVIOUS
  <2> QED BY <1>1, <2>1, <2>2, <2>3, <2>4 DEF Grows
<1>7. Opened /\ Reading
  BY <1>3 DEF Opened, Reading
<1> QED BY <1>4, <1>5, <1>6, <1>7 DEF Inv

\* The invariant of the chain's history, the replay and the verification's
\* reads (raiz-shim.js:771-933) holds in every state.
THEOREM AlwaysInv == Spec => []Inv
<1>1. Init => Inv
  BY InitInv
<1>2. Inv /\ [Next]_vars => Inv'
  BY NextInv
<1> QED BY <1>1, <1>2, PTL DEF Spec

\* What a finished verification knows, in the terms of its reads: what it
\* opened is the chain of its last event, and its verdict is the comparison
\* with the chain of its last reading.
LEMMA DoneKnows ==
    ASSUME Inv, run.pc = "done"
    PROVE  /\ run.began \in Nat /\ run.at \in Nat /\ run.last \in Nat
           /\ run.ledger \in Nat /\ run.first \in Nat
           /\ run.began <= run.at /\ run.at <= run.ledger /\ run.last <= run.ledger
           /\ run.at <= Len(log) /\ run.last <= Len(log)
           /\ run.first \in 1..run.last + 1
           /\ run.next = run.last + 1
           /\ Index = "current" =>
                 /\ run.first = 1 /\ run.began <= run.last
                 /\ Total = Worth(run.last)
           /\ run.verified <=> run.keys /\ ~Mismatch
           /\ run.open.provable /\ ~Mismatch =>
                 run.open.spend = past[run.at + 1].spend /\ Total = Worth(run.at)
<1>1. /\ run.began \in Nat /\ run.at \in Nat /\ run.last \in Nat
      /\ run.ledger \in Nat /\ run.first \in Nat
  BY DEF Inv, Typed, RunType
<1>2. /\ run.began <= run.at /\ run.at <= run.ledger /\ run.last <= run.ledger
      /\ run.at <= Len(log) /\ run.acc = past[run.at + 1]
      /\ run.next = run.last + 1
      /\ Index = "current" => run.first = 1 /\ run.began <= run.last
      /\ run.verified <=> run.keys /\ ~Mismatch
  BY DEF Inv, Reading
<1>3. run.last <= Len(log) /\ run.first \in 1..run.last + 1
  BY <1>2 DEF Inv, Opened
<1>4. ASSUME Index = "current"
      PROVE  Total = Worth(run.last)
  <2>1. run.open.spend.v = past[run.last + 1].spend.v
        /\ run.open.recv = past[run.last + 1].recv
    BY <1>2, <1>4 DEF Inv, Opened
  <2> QED BY <2>1 DEF Total, Worth
<1>5. ASSUME run.open.provable, ~Mismatch
      PROVE  run.open.spend = past[run.at + 1].spend /\ Total = Worth(run.at)
  BY <1>2, <1>5 DEF Mismatch, SpendOk, RecvOk, SamePoint, Total, Worth
<1> QED BY <1>1, <1>2, <1>3, <1>4, <1>5

\* A total shown as verified was the goal's total at some moment of the
\* verification (raiz-shim.js:818-905: commitments, then events, then the
\* ledger), with an index up to date or while both commitments are compared.
THEOREM VerifiedTotalWasTrue == Spec => []TotalWasTrue
<1>1. Inv => TotalWasTrue
  <2> SUFFICES ASSUME Inv, Verified, run.open.provable \/ Index = "current"
      PROVE  \E n \in run.began..run.ledger : Total = Worth(n)
    BY DEF TotalWasTrue
  <2>0. run.pc = "done" /\ run.verified
    BY DEF Verified
  <2>1. CASE run.open.provable
    <3>1. run.at \in run.began..run.ledger /\ Total = Worth(run.at)
      BY <2>0, <2>1, DoneKnows
    <3> QED BY <3>1
  <2>2. CASE Index = "current"
    <3>1. run.last \in run.began..run.ledger /\ Total = Worth(run.last)
      BY <2>0, <2>2, DoneKnows
    <3> QED BY <3>1
  <2> QED BY <2>1, <2>2
<1> QED BY <1>1, AlwaysInv, PTL

\* With the right key and an index up to date, goalTotal, which reads the
\* commitments again on a mismatch (raiz-shim.js:868-893), only comes out false
\* when at least two transactions landed during it.
THEOREM SecondReadingHeals == Spec => []OneLandingHeals
<1>1. Inv => OneLandingHeals
  <2> SUFFICES ASSUME Inv, Rereads, Index = "current", run.pc = "done", run.keys,
                      ~run.verified
      PROVE  run.at - run.began >= 2
    BY DEF OneLandingHeals
  <2>1. Mismatch
    BY DoneKnows
  <2>2. run.began < run.last /\ run.last < run.at
    BY <2>1 DEF Inv, Reading
  <2> QED BY <2>2, DoneKnows
<1> QED BY <1>1, AlwaysInv, PTL

\* When nothing lands during a verification, the contributions listed beside a
\* total whose two commitments were compared are all the goal ever received,
\* whatever segment of the history the index served (raiz-shim.js:823-905).
THEOREM VerifiedHistoryIsWhole == Spec => []WholeHistory
<1>1. Inv => WholeHistory
  <2> SUFFICES ASSUME Inv, Verified, run.open.provable, run.began = run.ledger
      PROVE  run.open.listed = AllReceived
    BY DEF WholeHistory
  <2>0. run.pc = "done" /\ run.verified
    BY DEF Verified
  <2>1. /\ run.at \in Nat /\ run.last \in Nat /\ run.first \in Nat
        /\ run.last <= run.at /\ run.at <= Len(log)
        /\ run.first \in 1..run.last + 1 /\ run.next = run.last + 1
        /\ run.open.spend = past[run.at + 1].spend /\ Total = Worth(run.at)
        /\ Len(log) \in Nat
    BY <2>0, DoneKnows, ChainTyped DEF Inv
  <2>2. /\ run.open.listed = {n \in run.first..run.last : Received(n)}
        /\ run.open.spend.r \subseteq Nat
        /\ NoOutflow(run.first, run.last) =>
              Worth(run.first - 1) + Total = Worth(run.last)
    BY <2>0, <2>1 DEF Inv, Opened
  <2>3. NoOutflow(1, run.at)
    <3>1. ~ \E x \in past[run.at + 1].spend.r : x < 0
      BY <2>1, <2>2
    <3> QED BY <2>1, <3>1 DEF Inv, Grows
  <2>4. /\ NoOutflow(0 + 1, run.first - 1) /\ NoOutflow(run.first, run.last)
        /\ NoOutflow(run.last + 1, run.at)
    BY <2>1, <2>3 DEF NoOutflow
  <2>5. /\ 0 \in 0..Len(log) /\ run.first - 1 \in 0..Len(log)
        /\ run.last \in 0..Len(log) /\ run.at \in 0..Len(log)
        /\ 0 <= run.first - 1
    BY <2>1
  <2>6. /\ Worth(0) \in Nat /\ Worth(run.first - 1) \in Nat
        /\ Worth(run.last) \in Nat /\ Worth(run.at) \in Nat
    BY <2>5, ChainTyped DEF Inv
  <2>7. /\ Worth(run.last) <= Worth(run.at)
        /\ (\E n \in run.last + 1..run.at : Received(n)) =>
              Worth(run.last) < Worth(run.at)
    BY <2>1, <2>4, <2>5 DEF Inv, Grows
  <2>8. (\E n \in 0 + 1..run.first - 1 : Received(n)) =>
              Worth(0) < Worth(run.first - 1)
    BY <2>4, <2>5 DEF Inv, Grows
  <2>9. Worth(run.first - 1) + Worth(run.at) = Worth(run.last)
    BY <2>1, <2>2, <2>4
  <2>10. Worth(run.first - 1) = 0 /\ Worth(run.last) = Worth(run.at)
    BY <2>6, <2>7, <2>9
  <2>11. \A n \in 1..run.at : Received(n) => n \in run.first..run.last
    <3> SUFFICES ASSUME NEW n \in 1..run.at, Received(n), n \notin run.first..run.last
        PROVE  FALSE
      OBVIOUS
    <3>1. CASE n < run.first
      <4>1. n \in 0 + 1..run.first - 1
        BY <2>1, <3>1
      <4> QED BY <2>6, <2>8, <2>10, <4>1
    <3>2. CASE n > run.last
      <4>1. n \in run.last + 1..run.at
        BY <2>1, <3>2
      <4> QED BY <2>6, <2>7, <2>10, <4>1
    <3> QED BY <2>1, <3>1, <3>2
  <2>12. \A n \in run.first..run.last : n \in 1..run.at
    BY <2>1
  <2> QED BY <2>2, <2>11, <2>12 DEF AllReceived, Received
<1> QED BY <1>1, AlwaysInv, PTL
=============================================================================
