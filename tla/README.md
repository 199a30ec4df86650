# Aigarth Cloud in TLA+

Formal models of the services in this repository, checked with TLC, and theorems
about them proved with TLAPS. Every definition is read off the source; the lines
it stands for are in `PROJECT.json` under `map`.

## 1. The system

Aigarth Cloud is a monorepo of TypeScript services (Fastify, Drizzle, PostgreSQL)
that call each other over HTTP with a shared internal token. Each service is one
Node.js process. Database transactions are rare (the economy service opens one to insert a
payout run and one to replace a share list, the identity service one): everywhere else one
SQL statement is one atomic step and anything may happen between two `await`s. Timers are `setInterval` callbacks that are not awaited, so
two runs of the same job can overlap.

| Component | State it keeps | Operations | Hard parts | What makes it correct |
|---|---|---|---|---|
| **Work Runtime** `services/work` | `work_items`, `workers`, `work_results`, `work_audit` | submit, cancel, dispute an item; register, heartbeat a worker; submit results; scheduler tick; manual assignment; bill | overlapping ticks, stale reads, late and duplicate answers, crash between two statements, timeout of the billing call | a verdict stands on enough answers; capacity respected; no item forgotten; only verdicts billed |
| **Node presale** `services/compute` (`node-reservations.ts`, `escrow.ts`, `qearn-lock.ts`) | reservations, escrow ledger, yield locks, price rows | create, fund, open window, confirm, release, two auto-release sweeps | races of fund, release and confirm; window expiry; rate changes between funding and refund | a unit is held under a booked hash only, and a hash counts once as a deposit and once as a balance; credits are backed by debits |
| **Compute** (rest; not modelled) | reservations, jobs, clusters | create, run, monitor jobs | monitor versus cancel | jobs reach one terminal state |
| **Training pipeline** `services/training` (`job-runner.ts`, `jobs.ts`, `computeBridge.ts`) | `training_jobs`, the process's map of running jobs, the compute jobs at the compute service | submit, cancel a job; tick of the runner: claim, submit compute, poll, finish, publish; stop and restart | overlapping ticks, updates by id after a stale read, errors in mid-job, jobs in hand at a stop | one job at a time; one compute job per job; success is earned; an outcome stays; every job ends |
| **Marketplace** (not modelled) `services/marketplace` | listings, auctions, bids, offers | list, bid, settle, accept an offer | two bids or accepts at once, auction end versus bid | one winner, the highest bid |
| **Economy payouts** `services/economy` (`contributors.ts`, `splits.ts`, `payouts.ts`) | contributor shares, payout runs, recipients; the transfers made | set a share, replace the list, assemble a run, settle a run | racing and repeated settlements, lost replies of the transfer service, changing wallets, rounding | each recipient paid once, no more than the revenue, at the address on record; a settled run has paid all |
| **Billing** (not modelled) `services/billing` | credits, invoices, payments, subscriptions | charge, invoice, settle | repeated payment notices, usage events | balances never negative; each payment credited once |
| **ANN** (not modelled) `services/ann` | networks, versions, proposals, outcomes, deployments | vote, execute, retrain, route | vote versus close, version switch | a proposal executes once with its quorum |
| **Qubic** (not modelled) `services/qubic` | wallets, stakes, treasury proposals, watched transactions | stake, approve, execute, confirm | M-of-N approvals at once, reorged or repeated ticks | no spend below M approvals |
| **Aigarth pool** `packages/aigarthpool` (`simulator.ts`) | positions, owed rewards, totals, per-epoch counts, signers, pending transfer and signer change, pause | stake, extend, unlock, claim, set splits; deploy, submit, approve and execute a transfer or a signer change, pause; advance epochs | integer division, epoch boundary, approvals that outlive a change of signers, expiry | value is neither created nor lost; caps hold; governance cannot lock itself; nothing happens without a quorum |
| **Trinary, oc-processor** (not modelled) `packages/` | none / breaker, limiter windows | consensus of trits; call guard | half-open state, window edge | consensus symmetric; limiter never exceeds its limit |
| **Identity, gateway, tissue, dataset** (not modelled) | users, sessions, API keys, rows | CRUD, rate limit | limiter window | limit respected |
| SDK, UI, web applications, scripts, infrastructure | – | – | – | not modelled: no shared protocol state |

The Work Runtime interacts with Billing (one POST per verified item) and with external
workers (HTTP). The training pipeline drives the compute service and publishes to the ANN
service; a payout asks the identity service for wallets and the qubic service for transfers. The presale
interacts with the Qubic network through the deposit transaction it is told about.

## 2. Plan

1. `WorkRuntime`, its abstract promise `WorkPromise`, the refinement and the proofs. *Done.*
2. `NodePresale`: reservation state machine, escrow ledger and yield lock, and the proofs.
   *Done*, without amounts. Next: amounts, and an abstract ledger in which each deposit is
   held and then settled, to state how far the code is from settling it once.
3. `AigarthPool` and the proofs (`AigarthPoolProofs`; `AigarthPoolTotals` for what compares
   sums). *Done.*
4. `EconomyPayouts`, its abstract promise `PayoutPromise`, the refinement and the proofs
   (`EconomyPayoutsProofs`; `EconomyPayoutsRevenue` for the sums). *Done*, without the Qearn
   locks and their watcher.
5. `TrainingPipeline` with the compute jobs it drives, and the proofs. *Done*, without the
   retrain cron.
6. Left, in this order: marketplace auctions and offers; billing credits, invoices and
   payments; ANN governance and version router; the Qubic treasury and its monitor; the
   rest of the compute service; rate limiters and the circuit breaker; the economy locks.

Modules avoid RECURSIVE operators, so all of them can be proved about. Each gets one
type invariant, the safety properties its hazards call for, and a proof module. `SumLemmas`
holds what both modules about sums need: a sum over a finite set when one term changes, when
the set grows or shrinks, and the bound of a sum by the terms'.

## 3. Work Runtime

### Modules

| Module | Content |
|---|---|
| `WorkRuntime` | tables, processes, one action per SQL statement that matters, properties |
| `WorkPromise` | what a payer is promised: answers are accepted once and never lost, a verdict stands on enough of them, only decided items are charged |
| `WorkRefinement` | the mapping from `WorkRuntime` to `WorkPromise` |
| `WorkRuntimeProofs` | the theorems |
| `MCWork*` | instances for TLC |

### State

`item`, `worker`, `result`, `audit` are the four tables. A row of `result` is one
claim: `free` rows have not been inserted yet and an `expired` row no process refers
to may stand for a new insert, which bounds the table without bounding the run. `lease`
says whether `lease_expires_at` is past; `beat` is the age of the last heartbeat
(`never` is SQL NULL, which the offline sweep does not match). Reputation is an
integer number of tenths. `age` is the order of creation, the only thing the queue
looks at.

`tick` holds the timer callbacks in flight and `hand` the HTTP requests in flight,
each with its program counter and the local variables it carries over an `await`. `bill`
holds the billings: a route starts `billVerifiedWorkItem` with `void` (`routes/items.ts:198`,
`routes/workers.ts:139`), so a billing is a process of its own that outlives its request, and
requests that come one after the other may leave several behind. `overlaps` is history: per
item, the billings that began while another of the item was under way.
`ledger` counts the usage events the billing service accepted: that service has no
such route in this repository, so it is external. `faults` counts injected faults.

### Actions

A tick runs `TickExpire` (the UPDATE ... RETURNING), then for each expired row
`TickRequeue`, `TickReckon`, `TickPunish`, then `TickList`, and for each listed item
`TickLook` (read the active workers), `TickPick` (count claims, choose the best score),
`TickClaim`, `TickRun`, and last `TickSweep` (`markStaleWorkersOffline`). The age bonus
of the score is the same for all workers of one item and is left out.

A result request runs `ResultRequest`, `StoreResult`, `CountSubmissions`, `ReadPrimary`,
`WriteVerified`, `Reckon`/`Punish` for each minority answer, or `WriteDisputed`; the last write of
a verified answer starts a billing (`Billing`) and ends the request. The billing then runs
`BillItem`, `BillAudit`, `PostUsage`/`PostTimesOut`, `LogBilling`. Cancel and dispute are a read
and a write; a heartbeat is a read and two writes; manual assignment is a read, an insert and an
update. Registration and submission are single inserts. `LeaseLapses` and `BeatGrowsStale` are the
clock. `TickFault`, `HandFault`, `BillFault` and `Crash` are a statement that throws in a tick
(caught by the loop, the sweep still runs), in a handler, in a billing (caught by the route, which
only logs it), and a restart of the process.

A read that ends a request without a write (not found, wrong status) is not an action:
it changes nothing. Activity-log writes are left out except the billing record, which
billing reads back.

### Runs

| Run | Instance | Shows |
|---|---|---|
| `work_verdict` | one item, 3 replicas, 3 workers, 3 hashes, 2 requests, 1 tick | majority, plurality and dispute, racing verifications, cancel and dispute: `TypeOK`, `VerdictHasQuorum`, `KeepsPromise` |
| `work_leases` | one item, 1 replica, 1 worker of capacity 1, 2 ticks, 1 request, 2 billings, 1 fault, manual assignment | overlapping ticks, crash at any step, a second answer after the verdict, two billings of the item at once although requests come one by one, lost billing reply: `VerdictHasQuorum`, `SchedulerCap`, `ChargesBounded`, `DecayIsFinal`, `KeepsPromise` |
| `work_single` | two items, 1 replica, 1 worker of capacity 2, 1 tick, heartbeats | the documented deployment: `OneClaim`, `NoOrphan`, and under fairness `LapsedIsSwept`, `QueueServed` |
| `work_billed_once` | one item, 2 requests | **violated**: "exactly once per work item" (`accountant.ts:10`) |
| `work_reopened` | one item, 2 requests, cancellation | **violated**: "a verified work item cannot be re-opened" (`verifier.ts:213`) |
| `work_settles` | one item, the default 3 replicas, 3 honest workers, no lapse | **violated**: three honest workers agree and the item is verified (`verifier.ts:22`) |

The instances are small because a race here is between two processes over one row. Three replicas
and three hashes are what a majority, a plurality and a dispute need; two ticks are what an
overlap needs, and one replica makes the second claim they can lease a second verification; two
billings are what a race for the audit needs; two items are what the order of the queue needs;
capacity 1 and 2 reach both sides of the limit; `InitRep` 1 and `Decay` 1 take a worker through
the floor and to zero in one penalty and to the `Math.max(0, ...)` in a second. `Rows`, `Billers`,
`MaxAnswers`, `MaxFaults` and `Ops` are bounds of the instance: rows in use at once, billings in
flight at once (a verdict waits for a free one), answers per item, faults per run, routes the
environment calls. Workers, hashes, ticks, requests and billings are symmetric in the safety runs;
the liveness run uses no symmetry.
Deadlock checking is off because a finite set of rows and items can be used up, after
which an idle system is right.

### Fairness

`FairSpec` assumes weak fairness of each tick's next step (`setInterval` fires for as long as the
process lives, and a tick that has begun awaits only the database) and of each request's and each
billing's next step once it has begun. Nothing is assumed of workers, clients, the clock or the
network. `HonestSpec` of `MCWorkSettles` adds that workers register and answer and no lease
lapses, the circumstances of the case quoted from `verifier.ts`.

### What the violations mean

* *Billed twice.* `billVerifiedWorkItem` looks for its audit row before the POST and
  writes it after, and two result requests for one claim both pass the check on `claimed`. One
  request at a time is no cure, as a billing outlives its request.
* *Re-opened.* Every status write names the item by id alone. One prepared before the
  verdict (a tick about to set `running`, a cancellation, a dispute) lands after it.
* *Never settles.* A tick leases queued items and makes them `running`; only one claim is
  ever made, so an item that wants three answers gets one.

### Proofs

`WorkRuntimeProofs` proves, for all values of the constants (any number of items, workers,
ticks, requests and rows), from the named assumptions in `WorkRuntime` (finite sets of
rows, items, ticks and billings, at least one tick, `None` a value of its own, replicas positive):

* `TypeCorrect`: `Spec => []TypeOK`. `TypeOK` alone is not inductive: a step that follows a
  row, worker or item held in a local variable needs to know that it exists. `WellFormed`
  adds what each local points to at each program counter. The delicate case is reuse of an
  expired row: no process may still hold its id (`Spare`).
* `VerdictsHaveQuorum`: `Spec => []VerdictHasQuorum`. The invariant covers the verifiers
  under way as well as the decided items; that part (`Backed`) is what makes it inductive.
  It rests on `AnswerKept` (a submitted row stays submitted for its item and worker),
  `VerdictWritten` (one statement writes the verdict columns) and `HandsStayBacked`.
* `CapHolds`: `Spec => []SchedulerCap`, by counting claims and ticks about to insert one.
* `DecayStaysFinal`: `Spec => DecayIsFinal`. A penalty is computed from a reputation of at
  most `InitRep`, however stale.
* `ChargesAreBounded`: `Spec => []ChargesBounded`, for any number of requests and any finite
  number of billings in flight. The audit is read before the POST and written after, so it cannot
  keep an item from being charged twice; the theorem says how far off it can be: one charge, one
  more for each billing that began beside another of the item, one more for each fault. The
  invariant `BillInv` counts, per item, the billings that may still charge it (`Risk`: those about
  to POST, and as long as the audit has no record of the item those on their way there) against
  that bound, and says that without a record and without a billing under way the first charge has
  been paid for by an overlap or a fault. `BillSum` is the arithmetic, `ItemBilled` what each step
  does to one item.
* `PromiseKept`: `Spec => KeepsPromise`, each step maps to a step of `WorkPromise` or to a
  stutter, with `VerdictHasQuorum` as the invariant.

* `OneLeaseAtATime` and `RunningIsRemembered`: `OneClaim` and `NoOrphan` hold until the first
  fault when there is one tick and no manual assignment, for any number of items, replicas,
  workers and requests, with cancellations and disputes, which is more than the run has. The
  inductive invariant `SoleInv` says that an item in the queue has no live claim but the one the
  tick has just inserted for it (`Sole`), that neither the items the tick has listed nor those of
  the rows it has expired have one (`InOrder`), that a running item has a claim, an answer or
  such an expired row (`Remembered`), and that no request is inside a manual assignment
  (`HandsPlain`). Each of the three conditions is needed: with a second tick, with manual assignment, or after one
  fault, TLC violates both properties in small instances.

Only model-checked: the liveness properties, which are out of the prover's reach (fairness,
ENABLED).

### Left out

The challenger worker (a stub), the algorithm registry (read only), list and get routes,
signature checks, request validation, and a second registration of a known worker id
(refused by the unique key). A batch of results is the sequence of result requests it
loops over.

## 4. Node presale

### State

`res` is the reservation table: status, the hashes of the two payments, the yield opt-in,
whether the row is older than a day, and whether the confirm window is open or closed.
`escrow` is the set of ledger entries, a set because the unique index on the hash refuses
a second entry of a hash. `lock` is the yield lock, at most one per reservation. `hand` holds the
requests in flight with what each carries over an `await`: the row it read at the start
(reservation, opt-in, whether the hash was already there), what it is paying, the yield it
released, the key of its refund, and the reservations a sweep has yet to release.

### Actions

| Code | Actions |
|---|---|
| `createNodeReservation` | `CreateNodeReservation` |
| `fundNodeReservation` | `FundRead`, `CancelStale` for a stale row, `DebitLookUp`, `DebitInsert` or `Refuse`, `Hold`, `LockDeposit`, `StampLock`, `OptOut` |
| list and get | `ListRead`, `CancelStale` |
| `openConfirmWindow` | `OpenRead`, `OpenWrite` |
| `confirmNodeReservation` | `ConfirmRead`, `UnlockRead`, `UnlockWrite`, `DebitLookUp`, `DebitInsert` or `Refuse`, `CreditLookUp`, `CreditInsert`, `Confirm` |
| `releaseNodeReservation` | `ReleaseRead`, `RefundLookUp`, `RefundInsert`, `Free` |
| `autoReleaseExpiredConfirmWindows` | `SweepRead`, `SweepWrite` |

`GrowsOld` and `WindowCloses` are the clock; `HandFault` is a statement that throws (an
error of the lock is caught, any other ends the request) and `Crash` a restart. A request
that is turned down by its first read changes nothing and is not an action. `StampLock`
writes a column nothing reads, so it only takes a step.

The branch of `fundNodeReservation` for a hash the row already names is unreachable: the
status check before it refuses every row with a hash. So is the penalty of
`releaseNodeReservation`: a confirmed reservation is refused earlier.

Any hash may be quoted for any reservation, as its deposit or as its balance, and again later:
the service does not look transactions up on the chain. The ledger's lookup compares the hash and
the direction of the entry and neither its reservation nor its purpose (`escrow.ts:86-94`; `Stands`),
so a hash that stands there is taken for paid and nothing new is booked. What stops its reuse
are the two unique indexes of the reservation table (`schema.ts:310-315`; `ReserveTaken`,
`ConfirmTaken`), which fail the status write of a second reservation that names the same deposit,
or the same balance.

`Overrides` are the balances confirmed with a `yieldCreditQubic` of the client's own, which the
code prefers to the released yield. Amounts and rates are left out: a refund is positive at any
real rate.

### Runs

| Run | Instance | Shows |
|---|---|---|
| `presale` | two reservations, 2 hashes for any payment (one overriding), 2 requests, 1 fault, within `Fits` | `TypeOK`, `HeldIsPaid`, `CreditsBacked` |
| `presale_lifecycle` | one reservation, 2 hashes, 2 requests, no fault | **violated**: "the state machine is enforced server-side" (`node-reservations.ts:11`) |
| `presale_refund` | one reservation, 2 hashes, 1 request, no fault | **violated**: "Auto-release with the standard 5% penalty" (`phase-24-hardware-presale.md:243`) |

Two reservations are what quoting another's hash needs, two hashes what funding or confirming
twice needs, two requests what a race needs. The three at once are too many states for a
quick run, so `BoundedSpec` of `MCNodePresale` bounds it by `Fits`: as long as one reservation
has been made, two requests race and one fault may strike; once there are two, requests come one
at a time and without a fault. A race over two reservations is left to the proofs, which have no
bound; the requests that write more than one reservation, the sweeps, treat each alone. `Millis`
is one value of the clock, so that two refunds of a reservation share their key; with different
keys both are booked, which breaks nothing that is claimed. `MaxFaults` bounds faults. There is
no liveness property: nothing in this code runs by itself, even the sweep is a route that an
operator calls. Deadlock checking is off: a released reservation is the end.

* *Lifecycle.* The sweep of stale rows in a funding request releases the row, then the
  request checks the row it had read and holds it. Every other status write, too, names
  the row by id alone, so the race of any two requests can do the same.
* *Refund.* The auto-release sets the status and books nothing.

### Proofs

`NodePresaleProofs` proves `PresaleTypeCorrect`, `HoldingIsPaid` and `CreditsAreBacked`
(`Spec => []TypeOK`, `[]HeldIsPaid`, `[]CreditsBacked`) for any sets of reservations,
hashes, requests and clock values and any number of faults, from `OverridesAssumption`,
`NoneAssumption` and `FaultsAssumption`. Nothing is assumed of what users quote. Although statuses
are overwritten freely, the properties hold because what they rest on only grows: a booked
hash stays booked, a paid deposit paid, a released lock released (`Kept`). The inductive
invariant `IInv` adds to the two properties `RowsPaid` (what each row's status and hashes
rest on), `Unshared` (no two rows name one hash for the same payment, which the unique indexes
establish at every status write) and `HandsRemember`, what a request at each step may
rely on when it writes later. `MemoryKept` says that no step of another request takes that away;
one lemma per group of actions does the rest.

### Left out and worth knowing

Amounts, rates and prices. What the code does and a comment or a name suggests otherwise of:

* a reservation may be confirmed with the hash of its own deposit, or funded with the hash that
  another's balance was booked under: `debitEscrow` returns the entry that is there and the status
  is written with nothing booked. `node-reservations.ts:357-359` counts on the unique index, which knows
  deposits and balances apart; `HeldIsPaid` says what is left: a hash counts for one deposit and
  one balance at most, and every unit held or confirmed names a hash that is booked;
* a request that the index fails has booked its debit, or found another's, by then;
* two refunds of one deposit are booked when two releases carry different keys (`Date.now()`, 683);
* a lock whose creation is reported as failed may exist: the reservation is opted out of the
  yield (412) and the lock stays open.

## 5. Aigarth pool

### State

`positions` are a user's stakes, oldest first; `owed` the entry per user and ANN that an
unlock leaves to be claimed; `recent` what a user has staked in the epoch of the last call;
`totals` the counters the pool reports; `gov`, `transfer` and `change` the signers, the
pending treasury transfer and the pending signer change. `paid` and `lost` are history
variables: what claims have returned, and what was unclaimed in an entry that a later
unlock of the same user and ANN overwrote (`simulator.ts:264`). `repeats` counts removals
that executed signer changes had listed twice, and `rotated` marks a transfer that was
pending while the signers changed.

No procedure awaits anything, so each is one action.

### Actions

| Code | Actions |
|---|---|
| `stakeForAnn` | `StakeForAnn`; `StakeRefused`, a refused call that has restarted the count of the epoch (179–182) |
| `extendLock`, `unlock`, `claimRewards`, `setAnnSplits` | `ExtendLock`, `Unlock`, `ClaimRewards`, `SetAnnSplits` |
| `initGovernance` | `InitGovernance` |
| treasury transfer: submit, approve, execute | `SubmitTreasuryTransfer`, `ApproveTreasuryTransfer`, `ExecuteTreasuryTransfer` (too late, it only clears) |
| signer change: submit, approve, execute | `SubmitSignerChange`, `ApproveSignerChange`, `ExecuteSignerChange`, `DropExpiredChange` |
| `pause`, `unpause` | `TogglePause` |
| `advanceEpochs` | `AdvanceEpochs` |

`computeYield` and `applySplits` are the integer arithmetic of the code; the yield is that
of the weeks first asked for, whether the lock was extended or not.

### Run

`aigarth_pool`: one user, one ANN, three identities of which two may sign, signer changes
that add, remove, and replace with a removal listed twice. It checks `TypeOK`,
`ThresholdReachable` (governance never locks itself out), `SignerCap`, `TotalsAgree`,
`EpochCap`, `ValueKept` (all that was staked and earned is locked, owed, split off, paid or
overwritten), `QuorumActs` and `FullTerm`.

Two signers and a threshold of two are the least for which one approval is not a quorum;
a third identity is what a replacement needs. Two stakes by one user reach
the overwritten entry, the caps per epoch and per user, and the choice of the oldest
position. `MaxEpoch` 1 with locks of one and two epochs and an operation's life of
0 epochs puts every call on either side of its boundary. Stakes of 1300 and 3900 earn 1, 2, 3
or 6, of which the parts of creator and treasury round to nothing or not. There is no
liveness property: every step is somebody's call.

### Proofs

`AigarthPoolProofs` proves `TypeCorrect`, `GovernanceNeverLocked` (`ThresholdReachable`),
`SignersNearCap` (`SignerCap`), `QuorumBehindEveryChange` (`QuorumActs`) and
`YieldIsForTheTerm` (`FullTerm`) for any sets of users, identities, changes and limits, from
the assumptions in `AigarthPool` (finitely many identities; shares that sum to at most 10000).
The inductive invariant `IInv` adds `ChangeFits` (a pending change was allowed for the signers
of now, which only its own execution changes), `TransferCounted` (approvals are counted once
each and, until a rotation, are those of signers) and `LocksHeld` (a lock ends no earlier than
the weeks it was opened for).

`AigarthPoolTotals` proves the three properties about sums, `TotalsAreOpenPositions`
(`TotalsAgree`), `CapPerEpoch` (`EpochCap`) and `NoValueAppears` (`ValueKept`), for finitely many
users, ANNs and any amounts. Their invariant `AccountInv` adds `CountKept`: what
`recent` counts for the current epoch is what the user's positions of this epoch sum to. Each call changes one user's
positions at one index, and the lemmas of `SumLemmas` turn that into the change of the sums.
Nothing of this component is only model-checked.

### Left out and worth knowing

Events, nonces (a caller states the pending one or is refused), queries and the tests'
`reset()`. The comment at 107–114 says a paused pool rejects governance too; the code lets
governance through, and so does the model. Approvals of identities that were removed
meanwhile still count for a pending transfer (430, 536).

## 6. Economy payouts

### State

`share`, `run` and `recip` are the tables; `sent` is what the Qubic network did, which no
table of this service tells with certainty. `hand` holds the requests in flight with their
local variables: the shares read, the status read, the list of recipients with the wallet
looked up, and who is still to be looked up, written and paid.

`past` is history. It names the cases in which the promises of the code are known not to
hold, so that each property says exactly when it does: periods two assemblies overlapped
on (`doubled`), runs two settlements overlapped on (`raced`), runs with a transfer that was
made and not recorded (`lost`), settlements cut short (`dropped`), and confirmed rows given
a new address (`moved`).

`Owner` gives each wallet one user, although `wallet_links` is unique only by user and address,
so that two users may verify the same address; which of them it is looked up for changes no
payment.

### Actions

| Code | Actions |
|---|---|
| `upsertShare`, `replaceShares` | `UpsertShare`, `ReplaceShares` |
| `assemblePayout` | `AssembleRead`, `ReadShares` with `applySplit`, `InsertRun` (one transaction) |
| `settleRun` | `SettleRead`, `Mark`, `ListRecipients`, then `Resolve` for each lookup, `Persist` for each new address, `Skip`, or `Transfer`/`TransferFails` and `Confirm`/`Fail` for each recipient, `Reread`, `Finish` |
| a statement that throws, a crash | `HandFault` |

The transfer is external: the qubic service of this repository has no
`/v1/qubic/wallets/transfer` route, which `settlement.ts:56` posts to. Wallets are verified and
revoked at the identity service at any time, so a lookup may answer any wallet of the user
or none. Lookups run one after another, in the order of the list in the code and in any order in
the model: they touch only local variables.

`PayoutPromise` is the service without requests, row statuses, wallets on record or retries: it
knows which runs there are, what each recipient is due, at which addresses they were paid, and
which runs are closed. `PayoutRefinement` maps the tables to it: the run's row is `opened`, the
amounts of its recipients are `due`, `sent` is `paid`, "settled" is `closed`, and a run is `loose`
once two settlements of it overlapped or a transfer of it was made and not recorded. A run that
is not loose pays each recipient at most once and never after it closed, and once closed it stays
so; a loose one may pay again and open again, but like any other it pays only who is due
something, only at a wallet of their own, never changes an amount, and closes only when
all have been paid.

### Run

`economy_payouts`: two contributors, the first with two wallets, one period, two runs, two
requests at a time, three calls, one fault, revenues that round to nothing and not. It checks
`TypeOK`, `OneRunPerPeriod`, `SettledIsPaid`, `PaidOnce`, `WithinRevenue`, `AddressIsPaid`, the
refinement `KeepsPromise`, and under fairness `SettlingEnds`.

Two requests are what a race needs, three calls what an assembly and two settlements, or a
partial settlement retried, need; the second wallet is what a moved address needs; one fault
is enough for a lost reply or a crash at any step. Fairness is weak fairness of each
settlement's next step: the request awaits the database and HTTP answers, and what
throws is a fault. Nothing is assumed of callers.

### Proofs

`EconomyPayoutsProofs` proves `TypeCorrect`, `SettledRunsPaid` (`SettledIsPaid`),
`RetriesPayOnce` (`PaidOnce`), `PeriodsPayOnce` (`OneRunPerPeriod`) and `ConfirmedAddressPaid`
(`AddressIsPaid`) for any users, wallets, periods, runs, requests, calls and faults. `Base`
(types; every row of a settled run paid or zero; what each request has read is still true
of what only it may change) carries the first two. Each of the others adds an
invariant of its own: `OneInv` (`Alone`: one assembly and no run, or no assembly), `OnceInv`
(`Orderly`: a run has one settlement, and for each recipient the row tells whether a transfer
was made, except for the one in hand), `AddrInv` (`Traced`: an address in memory or in a
confirmed row was paid).

`PayoutsKeepPromise` is the refinement, `Spec => KeepsPromise`. Each step is matched to one of
`PayoutPromise` or to a stutter: the insert opens a run, a transfer, recorded or not, pays, the
last write of a settlement closes the run or, over a racing settlement's "settled", opens it again,
a racing `SettleRead` loosens it, and nothing else shows. That a payment was not made before
and that the run is not closed comes from `OnceInv`; that the address belongs to the
recipient from `OwnInv`: the wallets on record and in the memory of every request are their
users', which the lookups establish and every later write keeps.

`EconomyPayoutsRevenue` proves `PayoutsWithinRevenue` (`WithinRevenue`). Its invariant
`FitsInv` bounds the fee and all amounts by the revenue for each run and for each assembly that
is about to insert one: parts of at most 10000 basis points, each rounded down, sum to at most the
net amount. With `OnceInv` nobody is sent an amount twice, so what was sent is part of that sum.

Only model-checked: `SettlingEnds` (fairness).

### Left out and worth knowing

Qearn locks and their watcher, the bundles and list routes. The branch for a run without
recipients (130–138) is unreachable. What the code does and a comment says otherwise of:

* two settlements both pass the status read, and nobody looks whether the conditional UPDATE
  matched, although 197–201 says the second "bails" (`raced`);
* a confirmed row's address is overwritten by a later settlement, although 214–215 says it is
  what was paid (`moved`);
* a recipient whose lookup answers nothing keeps, and is paid at, an earlier address, although
  237–240 says the row is skipped;
* `contributors.ts:9` says the sum of shares is enforced when they are written; it is only
  enforced, as at most 10000, when a run is assembled (`splits.ts:94`).

## 7. Training pipeline

### State

`status` and `computeJobId` are the columns of `training_jobs` that decide anything, `running`
the process's map of jobs, `compute` the jobs the compute service has, in the order they were
submitted. A runner in `hand` is one call of `tick` and the `runJob` it starts, with its
program counter, its job, its compute job and whether it was told to abort. The database
survives `Restart`; `running`, `hand` and half-done cancels do not.

`past` is history, as above: whether a tick began before the one before had entered its job in
the map (`overlapped`), jobs cancelled between a runner's look at the row and its write
(`raced`), jobs cancelled when they no longer could be (`late`), jobs failed after they had
succeeded (`undone`), jobs a runner left unfinished (`stranded`) or left with a compute job
that runs on (`leaked`).

### Actions

| Code | Actions |
|---|---|
| `submitJob`, `cancelJob` | `submitJob`; `CancelRead`, `CancelWrite` |
| `tick`, `claimNextQueuedJob` | `Tick`, `Select`, `Claim`, `Begin` |
| `runJob` to the compute job | `Submit`, `setComputeJobId` |
| `runTrainingJob` | `Check`, `markRunning`, then in a loop `Poll`, `pollComputeJob`; `releaseCompute`, `markSucceeded`, `markFailed` |
| after success | `Publish` (audit, row, version of the ANN) |
| errors | `Throws`: what each `catch` does with a statement or request that throws at that point |
| `stopWorker`, process restart | `stopWorker`, `Restart` |
| compute service | `ComputeEnds`, external, from the stub `clients/compute.ts` |

### Run

`training_pipeline`: two jobs, two runners, one cancel, one fault (a statement or request that
throws, a tick that overtakes another, a stop or a crash). It checks `TypeOK`, `OneAtATime`,
`OneComputeJob`, `SuccessIsComputed`, `ComputeReleased`, `CancelHolds`, `OutcomeStays`, and
under fairness `JobsEnd`.

Two runners are what an overlap needs, two jobs what "oldest first" and a map with another's
entry need. One fault reaches every `catch`; two add chains of errors, which the proofs cover
for the safety properties. Fairness: the timer fires, what a runner awaits is answered, and
a compute job ends. Deadlock checking is off because a stopped process may stay stopped.

### Proofs

`TrainingPipelineProofs` proves every safety property of the run, for any jobs, runners,
cancels and faults: `TypeCorrect`, `SuccessEarned` (`SuccessIsComputed`), `CancelledStays`
(`CancelHolds`), `OneJobAtATime` (`OneAtATime`), `OneComputeEach` (`OneComputeJob`),
`OutcomesStay` (`OutcomeStays`) and `NoComputeForgotten` (`ComputeReleased`).

`Base` says that the compute job of a row, and the one a runner polls, was submitted for that
very job; that is all `SuccessIsComputed` needs, whatever races. `CancelInv` adds that a runner
between look and write sees no cancelled row that is not `raced`. The others hold only
while ticks do not overlap and build on `OneInv`: all runners but one are idle, and a runner
past its entry is in the map or the process is stopping. On it rest `CompInv` (a
job that is queued, or about to be submitted, has no compute job; no two compute jobs are of
one job), `OutInv` (a runner that may still write works on a job without an outcome) and
`RelInv` (a running compute job is held or leaked; a runner that ends has closed its own).
The lemmas `StepTable`, `ThrowsTable` and `NextTable` state once what each step does to the
parts these invariants are about.

Only model-checked: `JobsEnd` (fairness).

### Left out and worth knowing

Progress events, recipes, the retrain cron and `retrainTrigger` (a POST on a timer), list
routes. With the stub of the ANN service, an ANN that was never created is not found and
publishing is skipped; with the HTTP client it always throws (the size is sent as a number, the
schema wants a string), so `Publish` either succeeds or throws. What the code does and a
comment says otherwise of:

* `jobs.ts:247–249` says select-then-update is enough because there is one worker; ticks
  overlap, because `running.set` comes after the awaited claim (`job-runner.ts:69`, `82`);
* `jobs.ts:196–198` says only queued and preparing jobs are cancelled; the UPDATE names the row
  by id alone, so a cancel may overwrite `running` or `succeeded` (`late`), and claiming or
  finishing a job may overwrite `cancelled` (`raced`);
* a job that was cancelled before the first poll, or ends with an error in mid-job, keeps its
  compute job (`leaked`);
* an error after `markSucceeded` (audit, publishing) turns success into failure
  (`job-runner.ts:120–126`; `undone`);
* jobs in hand at a stop or crash stay `preparing` or `running`: no start looks for
  them (`stranded`).

## 8. Not modelled

The inventory lists what is left; `components` in `PROJECT.json` gives the reason for each. In
short: marketplace, billing, ANN, Qubic and the rest of the compute service have protocols of their
own and are next in the plan; tissue, dataset and most of the identity service write one row per
request; the C++ contract is not deployed by this code, and its TypeScript simulator is
modelled; web applications, SDK, UI, scripts and infrastructure share no protocol state. Most
of the repository's lines are of that last kind.

Liveness is model-checked only: fairness and ENABLED are beyond the prover. Sums are folds,
which the library's induction theorems do not reach; `SumLemmas` proves what is needed of
them by taking a smallest set for which the claim fails.

## 9. Reading the checks

`runs` in `PROJECT.json` names each TLC run with its module and configuration; `mutants`
gives for every property a plausible bug in a mapped definition that makes TLC find it
violated (the mutated operators stand beside the definitions they alter); `hazards`
lists what the code is exposed to and which property would notice.
