# A TLA+ verification of the RAÍZ confidential stack

This directory specifies and checks the parts of the repository that carry its own logic: the indexer that
must not forget (Raiz Memory), the clients that page through it, the bridge between the app and the proving
WebView, the public goal screen, the computation of the one number the app may not fake (the verified
total), the wallet's operations on the confidential token, and the command-line scripts that deploy the
token, run a confidential cycle, audit it and write receipts. Paths below are relative to `src/`; Kotlin
paths to `wallet/app/src/main/java/xyz/raiz/sobre/`.

To use it: `tlc -config <cfg> <MC module>` for a run, `tlapm <...Proofs.tla>` for the proofs. `PROJECT.json`
lists the runs with their properties, the lines each definition stands for, the findings, the hazards and the
theorems.

## 1. The system and its parts

| Part | State | Operations | Hard behaviour | What makes it correct |
|---|---|---|---|---|
| Raiz Memory ingestor: `raiz-memory/src/{ingest,backfill,rpc}.rs`, writes in `db.rs` | tables `events`, `cursors`, `backfill_marks`; locals of a tick | poll tick: decide the start, record the mark, fetch a page, re-clamp, insert, store the cursor; error and restart | every await lets the chain move, a call fail or the process stop; the RPC's window slides; retries and re-clamps; duplicate tasks | no silent hole up to the cursor; honest beginning and clamp; nothing rewinds; every event eventually stored |
| Raiz Memory read API: `main.rs`, reads in `db.rs` | the same tables, read | `/events`, `/coverage`, `/health` | rows and latest ledger in separate queries; the floor of the purge demo moves, and is none when its query fails | a read of many pages loses nothing |
| Paging clients: `data/EventsClient.kt`, `fetchEventsFromUrl` in `raiz-shim.js` | cursor, pages, tries | follow the cursor; retry; stop at a cap | the table grows between pages; failures after the server answered | equivalent to one atomic read; terminates |
| Prover bridge: `prover/ProverWebViewBridge.kt` | `ready`, `proofMutex`, `pending`, `eventsUpstream`, deferreds | a prover call, its callbacks, timeout, cancellation, the events proxy, `destroy` | four kinds of threads; page scripts outlive their calls | each call gets its own answer, from its own source, and ends |
| Verified total: `goalTotal` in `assets/prover/raiz-shim.js`, `scripts/verify-goal-total` | openings of two commitments | read commitments, replay events, compare, re-read | the chain moves between reads; the index lags or forgets | a total shown as verified was the total |
| Public goal screen: `ui/meta/MetaViewModel.kt`, `data/EventSourceStore.kt` | UI state, two jobs, the chosen source | load (two histories), verify, change source, refresh | blocking calls outlive cancellation; two coroutines write one state; histories and floors move between the two reads | the screen shows the complete timeline of the chosen source; spinners stop |
| Wallet operations: `ui/sobre/SobreViewModel.kt`, `wallet/{CtWallet,SorobanRpc,StellarAccount}.kt` | `OpUiState`, `opJob`, the balance shown | register, deposit, merge, transfer: fund, prepare, sign, send, poll, refresh | a poll gives up while the transaction may still land; sends are repeated; refreshes run beside an operation; the app is killed | a press lands once; what is shown as done is on chain; the buttons come back |
| Prover page: `assets/prover/raiz-shim.js` | cached promises of wasm, bb.js and circuits; the backends | `prepareRegister`, `prepareDeposit`, `prepareMerge`, `prepareTransfer`, `status` | a script outlives its call and runs beside the next one | one load of the wasm, bb.js and each circuit; a witness of the balance that was read |
| CT flow scripts: `scripts/ct-flow/{deploy,flow,audit,visibility,_shared}.mjs` | `.env.deploy`, `deployment.json`, `run-log.json`; the testnet | deploy a token stack; register, deposit, merge, transfer, merge; audit; show | every call is retried; a lost confirmation repeats a submission; killed anywhere, inside the writing of a file too; late landings; the app pays the same goal | no secret lost but by an interrupted write; the record names a finished instance; a flow pays once; readers disagree with the chain only for a reason |
| Receipts: `scripts/receipt/*.mjs` | `receipt.json` | make, verify | files of other deployments, flows and keys; events the RPC forgets | a receipt opens with the key it was made for |
| `contracts/goal-meta` | goals, account guard, counter, TTLs | create, read, record a harvest | entries expire separately | one goal per account |
| `GoalTimeline`, `ScVal` | none | build a timeline from events | ordering, filtering, truncation | pure function of its input |
| `goal-flow.sh`, web page, bench, build tools, Compose screens, key storage | a file or nothing | one-shot programs, rendering, accessors | - | - |

How they interact. The **ingestor** pulls events of each contract from the Soroban RPC (external) into SQLite;
the **read API** serves them page by page to the wallet and, through the bridge's same-origin **proxy**, to the
script of `goalTotal` in the page. The **goal screen** starts a load (paging client, twice) and a verification
(bridge call); `goalTotal` also reads commitments from the CT wrapper (external). The **wallet** prepares every
transaction in the page, through the same bridge, and sends and polls it itself. All prover and chain calls of the app
share the bridge's mutex. The **scripts** share four files
and the testnet with each other, and the recorded token and goal account with the app, which pays into them (`CtConfig.kt:16-25`,
`CtWallet.transferToGoal`). Shared state is
therefore: the SQLite tables (ingestor and API), `pending` and `eventsUpstream` (callers, callbacks and the proxy), the
page's caches (scripts of past and present calls), each screen's state (two coroutines), an account's sequence number
and balance (whoever submits for it), the goal's balance (anyone may pay it), and the scripts' files.

## 2. Modules

```
ChainPositions        order of event ids and cursors; the first n rows
  DurableIndex        abstract: what an index promises
  RaizIngest          the ingestor          refines DurableIndex   <- RaizIngestProofs
  AtomicRead          abstract: what a read is worth
  EventsPaging        one read through /events  refines AtomicRead  <- EventsPagingProofs
    MemoryService     RaizIngest and EventsPaging over one table   (proved about in RaizIngestProofs)
ProverBridge          the WebView bridge                           <- ProverBridgeProofs
GoalTotal             the verified total                           <- GoalTotalProofs
MetaScreen            the goal screen                              <- MetaScreenProofs
ProverPage            the page: scripts, caches
  WalletOps           the wallet around it                         <- WalletOpsProofs
CtLedger              the scripts' files, retry and testnet
  CtDeploy CtFlow CtReaders    one module per kind of script
    CtScripts         an operator starting and killing them
                        <- CtFilesProofs <- CtFlowProofs
MC*                   instances for TLC
```

Three compositions are explicit: `WalletOps` runs around the variables of `ProverPage`; `CtScripts` lets the actions of
`CtDeploy`, `CtFlow` and `CtReaders` take turns over the state of `CtLedger`; and `MemoryService` puts the ingestor and the server
over one table and stops them together. `EventsPaging` assumes (`AppendOnly`) that its table grows at its end, and `Pages` says
that in `MemoryService` it does. The others are by assumption and guarantee, each named where it is used. `GoalTotal` and
`MetaScreen` take the events of an index in one step, which `EventsPaging` guarantees (`ReadsAtomically`, proved). `MetaScreen` lets its fair calls end, which `EventsPaging` (`ReadReturns`) and
`ProverBridge` (`EveryCallEnds`) guarantee. `WalletOps` takes from `ProverBridge` that calls go one at a time and that an
answer is the call's own (`OwnAnswer`, proved).

### RaizIngest

One step is one RPC round trip or one SQL statement, because the code awaits at each. `StartTick` is
`get_cursor`; `Resolve` and `RecordMark` are the first-run branch (`Resolve` is the answer that fixes floor and head: that of
`getHealth`, or of the `getEvents` call that `ledger_range` falls back to); `FetchPage` and `FetchOutOfRange` the two
answers of `get_events`; `Reclamp`, `InsertEvent`, `FinishPage` the statements that follow; `TickFails` the error
path of `run`; `Restart` a stop of the process with a possible change of `BACKFILL_FROM_LEDGER`. The tables are
`events` (a set: `INSERT OR IGNORE`), `cursor`/`lastLedger` and `mark`; locals are `tick[t]`. The RPC is external:
a window of `Retention` ledgers, pages limited by `PageLimit` and by `ScanSpan` ledgers per call, and a cursor at
the last event of a full page or else at the end of the scan. `CursorStyle` says whether that cursor decodes.

`DurableIndex` is what Raiz Memory sells, without polls and pages: stored events stay, the beginning is fixed once
something is covered, and a position is covered only if everything from the beginning to it is held. The refinement
maps `held` to `events`, `begins` to `mark.effective` and `upto` to `cursor`.

### EventsPaging

A read follows the cursor while `Store` adds rows between any two queries. `ReadFloor`, `ReadRows` and `ReadLatest`
are the queries of one request; `Accept` is the arrival of a page; `TryFails` and `Refused` the two kinds of errors of
`EventsClient.retrying` (the page script gives up at the first: `attempts = 1`); `AtCap` is the silent return of
`allEvents` or the exception of the script. A client of the API is a record of its parameters, and one run has a client
of each kind. The purge demo is `window > 0`: its floor is computed anew for
every request, and a request whose floor query fails is served without one (`main.rs:144`, `unwrap_or(0)`) and declares 0. `forgot` is the
highest floor that took rows from the read.

`AtomicRead` is the same read without pages, queries, cursors and retries: it is called, looks at the table, and returns the table
as it was at its last look, or a beginning of it, or nothing. The refinement maps the look to `ReadRows`: the rows of the
last page are the moment at which the read of many pages takes place.

### MemoryService

`Ingest` is a step of the chain or of the ingestor and leaves the reader alone; `Read` is a step of the server or of a client and
leaves the ingestor alone; they share `events`. `Stop` is a restart of the process, which also fails the request being
answered.

### ProverBridge

A call goes new -> queued -> holding -> awaiting -> returned or failed (`Arrive`, `Acquire`, `Dispatch`, `Return`;
`NotReady`, `Timeout`, `Cancel`). Its script is an actor of its own that nothing can stop: `Evaluate`, `FetchEvents`
(through the proxy, which reads `eventsUpstream` at that moment), `Answer` (the callback reads `pending`), `Complete`
(it completes the deferred it saw). The two halves of the callback, and of `destroy`, are separate steps because they
run on different threads from the callers.

### GoalTotal

The chain (external: the CT wrapper) appends events and changes two commitments. A Pedersen commitment is binding,
so it *is* the pair it opens to, with randomness as a set of independent terms: one per contribution, and one only
the owner knows per outflow. `past` is the history of the two commitments, `chain` its last entry. `CheckKeys`,
`ReadCommitments`, `ReadEvents`, `Compare`, `Reread`, `Conclude` are the reads of `goalTotal` in the order of the code, and
`ReplayEvent` is the body of its loop, one event a step. `index` says what the source serves, and `rereads = FALSE` is
the command-line script, which has no second reading.

### MetaScreen

`loads[j]` are the load coroutines, `run` the verification, `ui` and `total` the state shown. A load is two reads
(`CtRead`, then the second one in `LoadSucceeds`) of two histories that `Emit` extends at any time; what
`GoalTimeline.build` keeps of them is `Kept`, and the floor it declares is that of the first read, or else of the second.
A forgetful source serves only the last `Window` ledgers and declares its floor, or serves all and declares none when its floor query
fails. A read of one history is one step, and silently lacks what lies past the cap of 25 pages (`WithinCap`). A cancelled load stays until its HTTP
call is over (`LoadCancelled`), because the call blocks and `catch (e: Exception)` takes the cancellation.

### ProverPage and WalletOps

A press of a button has a number, and a script of the page of that number. `Awaits` lists the script's awaits in order:
`Read` (the state replayed from the events), the assets a proof needs (`Ask`, `Arrives`, `Resume`: the promise is cached, so
a second script waits for the load of the first; the backends, which `getBackend` looks for before it awaits bb.js and sets after, are
not, and `built` counts how many of them scripts beside each other build), `Account` (the sequence number), `Simulate`. Nothing interrupts a script: when
its call times out it goes on, beside the script of the next press. `WalletOps` adds the app: `PressButton` (disabled while
an operation runs), `Funded`, `Dispatched` and `Prepared` (the call of the bridge, queued behind the refreshes),
`SendTaken`, `SendLost` and `SendRefused` (`sendTransaction` repeats a call that threw, with the same envelope),
`PollConfirms` and `PollFails` (120 s against an envelope valid for 180 s), the refreshes (`StatusRead`, `StatusShown`,
`StatusFails`) and `Restart`. The network applies an envelope only in the turn of its sequence number (`Land`), at any time
before its bounds pass (`Expire`).

### CtLedger, CtDeploy, CtFlow, CtReaders, CtScripts

One script runs at a time, as an operator would have it; `proc` holds its locals, and `proc.pc` the call it awaits. A step
is the answer of one call and all that follows it up to the next. A call is lost on its way (`DeployTryFails`, `FlowTryFails`,
`ReaderTryFails`), or takes effect and loses its answer (`VkRegistered(FALSE)`, `AuditorKeyRegistered(.., FALSE)`, a
`Submit` whose try fails), and `Again` tries it again or ends the script. What a lost try or a dead script submitted stays in `flight`, and lands or
expires at any time; a landing uses up the sequence number, so the others of that account are gone. `Crash` kills the
script between any two awaits, and `Torn` inside `writeFileSync`, which empties a file before it writes it: `SecretsTorn` loses every secret
(the accounts of the lost addresses stay on chain, out of reach, and are not followed further), the others lose their JSON file.
`Contribute` is the app paying the recorded goal, which the goal holds as `gift` until it merges, and `Forget` the RPC dropping the events
of the recorded token. Secrets, keys and tokens are named by the start that made them. A proof of a transfer is bound to
the spendable commitment it was made over (`rev`), and is made once, before its retries, as `flow.mjs` does. The record's
`deployedAtLedger` is the set of tokens there were at that ledger. `VerifierKeyAdded` is the operator editing `.env.deploy` beside
a running script, with a key or with nothing after the name.

## 3. What each run checks

Every property of a passing run has a mutant: a plausible bug of the code that the run finds.

| Run | Shows |
|---|---|
| `ingest` | `HeldThroughCursor`: no event between the recorded beginning and the cursor is missing, whatever was pruned, refused, retried or interrupted. `ScannedLedgersHeld`: the coverage report is a lower bound. `HonestClamp`: `clamped` and `unreachable` add up. `MarkFrozen`, `CursorOnlyAdvances`, `ScannedNeverRecedes`: nothing rewinds. `DurableSpec`: the refinement. `EventuallyCovered`, as long as no request waits for ever and unless the cursor is stranded behind the RPC's window: the code has no way out of either. |
| `paging` | the wallet over a growing table and the prover page over the purge demo, whose floor moves between pages, or is not found, while rows appear in any order: `NothingLost` (what a read lacks is below the highest floor of its pages, and it declares that floor or none), `CutAtTheEnd`, `PagesAscend`, `LatestCovers`; `ReadsAtomically`: the refinement of `AtomicRead`; `ReadReturns`: no endless read. |
| `service` | `Pages`: the table that the ingestor fills, with every page cut short, re-clamp, failure and restart, is the one `EventsPaging` assumes, also when the process stops under a request. |
| `bridge` | `OwnAnswer`, `OwnSource`, `PendingIsCurrent`; `EveryCallEnds`: the mutex always comes back. |
| `meta_screen` | `TimelineOfSource`: a screen at rest shows the timeline of the chosen source, lacking only what lies past the page cap and what the source forgot, though it is put together from two reads of moving histories; `SpinnerStops`, `TotalSettles`. |
| `total` | for the page, `TotalWasTrue` and `OneLandingHeals`: the order of the reads and the re-read make a false alarm need two transactions in one verification. For the command-line script, which reads the commitments once, `WholeHistory`: a hole in the history never verifies while both commitments are compared and nothing lands. |
| `wallet_ops` | `PressLandsOnce`, `OkIsOnChain`; `SecondSawFirst`: two payments are never in flight beside each other; `FreshAfterOk`: no older refresh comes back over the balance after an operation; `LoadedOnce`: wasm, bb.js and circuits, not the backends; `OpEnds`. |
| `scripts_files` | `SecretsKept` and `KeysOnFile`: wherever a script dies, except inside the write of `.env.deploy`, no key on chain is without its secret; `RecordReady`; `TransferOnce`; `VerifiesAtRest`: what earlier tries left in flight never makes the final comparison fail, only a contribution of the app does; `ReadersAgree`, `ReceiptOpens`: the readers say no only for one of the reasons listed (a later flow or deployment, lost secrets, forgotten events, an unmerged contribution; for a receipt also the demo key when the verifier's name is set). |

### Disagreements between the code and what it says

Each is a run that TLC must find violated; `PROJECT.json` quotes the sentence.

| Run | Disagreement |
|---|---|
| `ingest_overstates` | a page that ends inside a ledger reports the whole ledger as scanned. |
| `meta_source` | a verification that outlives a source change is shown under the new source. |
| `total_matches` | after an outflow the spendable commitment is skipped, and a lagging index yields a "verified" total that is out of date. |
| `scripts_demo` | `RECEIPT_VERIFIER_SECRET_HEX=` with nothing after it is no key to `make-receipt.mjs` and a key to `verify-receipt.mjs`: a receipt sealed to the demo key is refused. |

Other states that the models, or the reading of the code behind them, turned up, and that a reader of the code should
know of. No run states them:

- a first run interrupted after its inserts moves `historyBeginsAtLedger` past events the index holds;
- a start ledger ahead of the head is re-clamped down to the oldest ledger, before what was asked for;
- a contract listed twice in `CONTRACT_IDS` gets two tasks, and the slower one drags the stored cursor back;
- in the purge demo a read reports the floor of its last page, above events of its first; and once a floor query fails it reports none (0),
  although earlier pages left rows out: "the real RPC, which declares its retention floor" (`main.rs:158`) would not, and
  `EventSourceStore.kt:18` promises the user the same;
- an RPC that never answers a request stops the tail for good: the client of `rpc.rs:120` has no timeout;
- "persist before any network call so a crash loses nothing" (`deploy.mjs:82`) does not hold of a crash in the persisting:
  `_shared.mjs:152` empties `.env.deploy` before it writes it, and every secret goes;
- a contribution from the app between the last sync and the comparison fails a run of `flow.mjs` ("local state does not match on-chain
  commitments"), and one after it makes `audit.mjs` print `MATCH: false`, with nothing wrong in either;
- two scripts that await bb.js together build a backend each, under the heading "lazy singletons" (`raiz-shim.js:135`);
- a timeout gives the mutex back while the script of the call runs on, so two scripts run in the page at once;
- a replaced load reports its `CancellationException` as an error over the load that succeeded;
- a reload that ends during a verification leaves the older total beside the newer timeline;
- a timeline's latest ledger is the larger of its two reads' (`MetaViewModel.kt:178`), so "Cubre ... hasta el" of
  `MetaScreen.kt:421-422` can name a ledger whose confidential events were not read; its floor is that of the first read;
- a deposit that lands during a verification stands in for a forgotten one of the same amount;
- the ledger shown beside the total is read after the commitments it should date;
- a payment whose poll gave up may have landed: pressing again pays a second time (never while the first is in flight);
- a rejected promise stays in the page's caches: one failed fetch fails every later proof until the page is loaded again;
- `flow.mjs:134` submits a deposit again when its confirmation is lost after it landed: the account holds two;
- `goal-flow.sh`, after the contract's error for an account that has a goal, looks the goal up by searching for the account in an output that
  also prints the admin: with the deployer as account it can pick another goal of that admin.

## 4. Bounds

- `RaizIngest`: four ledgers of at most two events, a window and a scan of two ledgers, pages of one event, two re-clamps,
  a failure or restart. Four ledgers with a window of two make the floor pass a stored cursor and a start ledger; a page smaller
  than a ledger makes a cursor end inside one; the failure can hit any call of a first run, of a re-clamp or of a tail, and the
  proofs are for any number of them. Specs cover the head, the oldest, a pruned ledger and one not closed yet. The cursors are
  those that decode, the form the live RPC answers; the proofs cover the others.
- `MemoryService`: three ledgers of two events, pages of two, a failure or restart, and one spec, a ledger the chain has not closed,
  since an index that is reconfigured before its first cursor need not grow at its end. The clients are the wallet and the purge
  demo, with pages of one and two rows, two pages at most.
- `EventsPaging`: three ledgers of two events. The wallet reads pages of one row, three at most, two tries each: reads that
  are cut, exactly full, retried after an answered request, and outrun by the index. The page reads pages of two rows, two
  at most, over a window of two ledgers.
- `ProverBridge`: two totals from different sources and a call that fetches nothing; each call is made once. A third
  total would repeat the roles of the first two.
- `MetaScreen`: two sources of which one forgets all but the last ledger, two events, reads of one event at most, two loads (three in
  `meta_source`): a load can be replaced by one of another source, be cut by the cap, or lose its floor, and an event can come, or a floor
  rise, before, between and after the two reads.
- `GoalTotal`: five events of one stroop (`total`), four of one or two (`total_matches`): contribution, merge, outflow, and two
  landings around them. Amounts only meet each other in sums, and the proofs are for any.
- `WalletOps`: two presses, two tries of a send, two refreshes, one account that is new and one that has a balance. Two presses are
  what it takes for an operation to meet what an earlier one left behind: script, cache, envelope or refresh.
- `CtScripts`: five starts of any script, of which deployments and flows are among the first three (`EarlyWriters`), and one contribution of
  the app: deploy, flow, a second flow or deployment, a receipt and its verification is the longest story the properties tell apart.
  A receipt needs two starts, which is what the last two are for; a write of the files may be interrupted at any start. Two tries of a call, two verification keys for six, a deposit of two transfers for four: what a second flow finds
  left over is then still enough for a transfer.

`MaxLedger`, `MaxFailures`, `EventsPerLedger`, `MaxLoads`, `MaxEvents` of `GoalTotal` (in `MetaScreen` it is the page cap), `MaxAmount`, `MaxPresses`, `MaxStarts` and `MaxGifts` are bounds that the
code does not have; they only appear in guards of the environment. `CHECK_DEADLOCK FALSE` stands in the runs whose calls, loads,
presses or starts are used up.

## 5. Fairness

- `RaizIngest`: weak fairness of what a task does by itself (`OwnStep`). `run` never returns and tokio polls ready tasks. The answers of the
  RPC (`Answered`) are not fair: the HTTP client has no timeout (`rpc.rs:120`), so a request may wait for ever. `EventuallyCovered` is
  therefore stated under the condition that the task never does (`[]<>NotAllWaiting`). Failures and restarts are not fair, and bounded.
- `EventsPaging`: the server answers and the client's coroutine goes on. Both sides of the HTTP call have timeouts, so a
  request ends; that it ends well is not assumed.
- `ProverBridge`: coroutines are scheduled and `withTimeout` fires. Nothing is assumed of the page.
- `MetaScreen`: loads and verifications end, by the two properties above. Nothing obliges the user or the chain.
- `WalletOps`: the operation's coroutine and the refreshes go on: a call of the bridge ends (`withTimeout`), sends have a number of tries, and
  the poll a deadline. Nothing is assumed of the page, of the network, or of a transaction's landing.

`GoalTotal` and `CtScripts` have no liveness: every step of them may throw, and a script ends when its tries do.

## 6. Proofs

TLAPS checks these for every value of the constants, from the named assumptions `ConstantsAssumption`,
`NoneAssumption`, `PagingAssumption`, `BridgeAssumption`, `MetaAssumption`, `TotalAssumption`, `PressesAssumption`,
`WalletAssumption` and `ScriptsAssumption`.

`RaizIngestProofs`:

- `TypeCorrect`, for any set of tasks. The inductive invariant `TypeInv` adds what the code knows at each point of a
  tick: a tick without a cursor that fetches has a mark and a start ledger.
- `NoSilentHole`, `MarkStaysFrozen`, `CursorNeverRewinds`, `ImplementsDurableIndex`, `ClampIsHonest`, for one task
  (`SingleTask`: two tasks on one row read the same cursor, and the slower one writes an older one back). `HoleFree` strengthens
  `HeldThroughCursor` with what the page in hand owes: everything up to the next cursor is stored or still to be inserted,
  which is what `set_cursor` relies on. The argument rests on two facts of the RPC: a page is the complete start of the
  matching events (`PageComplete`), and new events come after everything scanned (`NewEventsAfter`). `ClampInv` adds that
  floors only rise between a clamp and the re-clamp.
- The refinement maps every step to a step of `DurableIndex` or to a stutter (`RefinementStep`).
- `CoverageIsLowerBound`, whatever the form of the RPC's cursors, and `ScanNeverRecedes`, for cursors that decode. `ScanInv` adds to
  `HoleFree` that the ledger reported is never past the cursor's, nor a page's last event past the page's cursor.
- `TableGrowsAtItsEnd` (`StoresInOrder`), for one task and one start spec (`OneSpec`), which is what `EventsPaging` assumes. `OrderInv` follows the
  ledger a first run that began now would read from: from there on, what is stored has no gap below it (`ClosedFrom`). That ledger
  only rises, though a start ahead of the head is re-clamped down: until the head reaches it, the ledger that counts is the floor.
- `ServiceServesPages`: under the same two conditions, or for clients that do not rely on the order, every behaviour of
  `MemoryService` is one of `EventsPaging` for its clients. A step of the ingestor is an event stored at the end or nothing a reader
  sees; the hypothesis on order comes from `TableGrowsAtItsEnd`. So what `EventsPagingProofs` proves of every table holds of
  this one: by `PagingIsOneRead`, a wallet that pages through a service that fails and restarts is promised one atomic
  read. (The last inference is the substitution of `events` for `stored`; tlapm cannot cite a theorem of an instance.)

`EventsPagingProofs`, for any page size, cap, number of tries, start ledger and window: `ReadLosesNothing`, `ReadIsSnapshot`,
`CapCutsTheEnd`, `PagesDoNotOverlap`, `LatestLedgerCovers`, and `PagingIsOneRead`, the refinement of `AtomicRead`. The inductive invariant says what the read knows between two
queries: the cursor is the last row of the last full page, everything wanted behind it is held, and the page in hand is the first
rows after the cursor of the table it was selected from. Of the purge demo it says that what is missing behind the cursor is below `forgot`,
that no floor is above the one the next successful query finds (`Fits`: the latest ledger only grows), and that the read declares
`forgot` or 0 (`FloorsRise`). A failed try throws the page away and keeps the cursor, so it
keeps the invariant; a table that grows at its end cannot put a row behind the cursor, which is the step from
"nothing that was there is missing" to "equal to the table".

`ProverBridgeProofs`, for any number of calls, totals and sources: `TypeCorrect` (with mutual exclusion), `AnswersAreOwn`,
`PendingStaysCurrent`, `TotalsReadTheirSource`. `Safe` adds `Fresh` (a call has no script and no answer before its dispatch)
and `Sourced` (while a total waits, the proxy points to its source): it is the mutex that makes the single field
`eventsUpstream` safe, since only the call that holds it may set it, and a call that has left is never returned.

The Ct proofs, for any number of starts, tries and verification keys and any amounts, in layers that each cite the one before:

- `CtFilesProofs`: every state is typed; what the running script has loaded of `.env.deploy`, and every key it has in flight,
  is what the file holds (`Held`), and keys are numbered by the starts that made them, so that those of before the last interrupted write are told
  from those of after it (`Numbered`); hence `KeysAlwaysOnFile` and `SecretsAlwaysKept` (saving before the first use, and merging over what
  the file holds, are the two facts they rest on; the one exception, which the statements name, is the interrupted write itself); what a deployment has registered at each point of it, hence `RecordAlwaysReady`.
- `CtFlowProofs`, of a flow: the transfers a run has in flight are all bound to one `rev`, and a landing moves `rev` on: `PaysOnce`.
  A confirmed submission has used up its sequence number, so nothing of its source is left in flight, of earlier tries or
  of runs that died; by the time the flow compares, both its accounts have had one. So Marta's account is as it was synced, and the goal's is but for what the app
  has paid it since (`Compared`). Hence `ComparesAtRest`, the least obvious of these results.
- `CtFlowProofs`, of the readers: `ReadersAlwaysAgree`, which needs that a run log records what the goal held at its end and that only a flow
  changes what it spends (`LogTrue`), while whatever else it has received came from the app (`Harvested`); `ReceiptsOpen`, which needs that a
  receipt's key is on file unless it was sealed before the secrets were lost (`Sealed`).

`GoalTotalProofs`, for any history, amounts, verifiers and indexes: `VerifiedTotalWasTrue`, `SecondReadingHeals`,
`VerifiedHistoryIsWhole`. The invariant has three parts. Of the chain (`Grows`): a commitment that an outflow has touched keeps a
random term only the owner knows, and between outflows the total only rises, with every contribution. Of the loop (`Opened`): what it
has opened of a prefix of the history is what the contract held after it, and what it has opened of any segment without outflows
is what the goal gained over it; this is an invariant because the loop is a step per event. Of the reads (`Reading`): their order,
commitments before events before the ledger. Then a total whose two commitments match was the goal's at the last reading of them; one
from an index up to date was its total at the last event; with both, a mismatch needs a landing before the events and another after.
And a history with a hole cannot match at rest: matching the spendable commitment excludes outflows (`Grows`), so a contribution outside
the segment that was served would have made the goal's total larger than the segment's.

`MetaScreenProofs`, for any sources, any number of loads and histories of any length: `ScreenShowsItsSource`. The invariant follows a
load through its two reads: only the last load may still show what it reads, and it reads the chosen source (`Current`); what a
load holds between its reads lacks only what lies past the cap or was forgotten (`Gathered`), and so does what is shown (`Complete`). A load that was
replaced never shows what it reads, which is why a late answer cannot put another source's history on the screen.

`WalletOpsProofs`, for any number of presses, tries and refreshes and any account: `PressAlwaysLandsOnce`, `OkIsAlwaysOnChain`,
`SecondAlwaysSawFirst`, `AssetsLoadOnce`. The argument is the sequence number. A transaction whose number is still the next one was
built when everything that has landed had (`Timely`), and this holds of the scripts of the page as well as of what the network
holds; one press has one envelope, which its landing puts out of turn (`Sent`); and an operation signs only what its own script has
built (`Acting`), which is what makes a script that outlives its call harmless. `AlwaysFreshAfterOk` is about the bridge's queue
instead (`Mutex`): an operation joins it behind the refreshes it found, and none begins while it runs, so when it is prepared no read
is left; what is read after it ends is of a chain that has its transaction (`Current`).

Only model-checked: liveness (ENABLED, and with it fairness, is out of these provers' reach): `EventuallyCovered`, `ReadReturns`,
`EveryCallEnds`, `SpinnerStops`, `TotalSettles` and `OpEnds`. Every safety property of a passing run is a theorem.

## 7. Not modelled

- Verified totals over a purge demo whose floor moved between the pages of the read, which may leave rows on both sides of a hole:
  `GoalTotal` serves contiguous segments of a history.
- What becomes of the accounts whose secrets an interrupted write of `.env.deploy` has lost.
- The cryptography (a commitment is the pair it opens to; a proof is bound to the commitment it was made over), XDR and JSON, texts,
  rendering, logging, real time (a timer is a step that may always happen).
- `contracts/goal-meta`: two entry points that change state, each one atomic transaction; what is hard in it, the expiry of its
  entries, is the host's doing. `MetaScreen` takes its events as external.
- The parser of the start configuration: pure, with a test for every form; its results are the constant set of start specs.
- The coverage report's gap detection: SQL aggregates. What it promises of the scanned position is `ScannedLedgersHeld` and
  `NeverOverstates`.
- The order of the rows of `GoalTimeline`, their texts, and `ScVal`: pure functions with fixture tests.
- Key storage: two get-or-create accessors. The Compose screens render the states modelled elsewhere.
- The prover page's `withdraw`, `generate` and self-test entries, which the wallet does not call.
- `goal-flow.sh`, the web page, the prover bench and the build tools.

The RPC, the CT wrapper, the stellar CLI and the network are external and modelled from how the code uses them. SQLite
statements are atomic; rows are never deleted (no statement of the code does).

## 8. Plan

Done: the modules of section 2 and the proofs of section 6. What remains, in this order:

1. Runs for the states listed at the end of section 3, each against the sentence of the repository it contradicts, and an
   age for what `MetaScreen` shows.
2. `GoalMeta`: the contract with its TTLs; one goal per account while nothing has expired.
3. `Coverage` and `StartConfig`: gap detection, and the parser, as operators against reference definitions.
