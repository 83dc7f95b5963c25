# A TLA+ model of distledger

distledger is a Go library that keeps the books of a distribution program:
which agent earns a commission on a paid order, when the commission becomes
withdrawable, what a refund takes back, and how a withdrawal is paid out. This
directory holds a specification of its ledger kernel, of the two stores below it
and of its self check, the TLC configurations that check them on small
instances, and TLAPS proofs of its bookkeeping theorems.

Every definition names the code it stands for in the `map` of `PROJECT.json`;
file names below are relative to `src/`.

## 1. The system

| Component | State | Operations | Interaction |
|---|---|---|---|
| Relations (`ledger.go`) | agents with parent, depth, status; one binding row per buyer | `BindAgent`, `BindBuyer` | accrual reads both |
| Accrual (`accrual.go`) | commission rows, accounts, ledger | `OnOrderPaid` | one transaction: a row, a credit and an entry per item and layer |
| Settlement (`settle.go`) | the rows' dates and states | `OnOrderReceived`, `Maintain` | a scan, then one transaction per tenant and batch |
| Refunds (`reversal.go`) | vouchers, reversal rows | `OnOrderRefunded` | debits the bucket the row's state names |
| Risk control (`risk.go`, `state.go`) | row states | `FreezeCommission`, `UnfreezeCommission`, `VoidCommission` | competes with settlement and refunds for the same rows |
| Payouts (`payout.go`, `withdraw.go`) | withdrawal rows | `RequestWithdraw`, `ApproveWithdraw`, `RejectWithdraw`, `PayWithdraw`, `MarkWithdrawPaid` | calls an external channel between two transactions |
| Books (`model.go`, `money.go`) | six account columns, an append-only ledger | `IncrementAccount`, `AppendLedger` | every component posts here |
| Store (`store.go`, `store/memory`) | maps of rows, a key index per table, ordered indexes, one lock, an undo log | `View`, `Update`, four appends, four puts, three changes of a commission, one of a withdrawal, `Close` | writes in place; a failed `Update` leaves no trace |
| SQL store (`store/sql`, dialects) | tables with unique keys | the same port, with a retry loop | transactions interleave statement by statement |
| SelfCheck (`selfcheck.go`, `store/sql/reconcile.go`) | none | `SelfCheck` | recomputes invariants I1 to I4 |

What is hard to test in it:

* **Interleavings.** A refund, a receipt, a freeze, a void and a heartbeat meet
  on one row, and where the money is depends on the state the row has at that
  moment. A payout reads the row, calls the channel and records the outcome in
  three steps, with other calls, operators and crashes between them.
* **Failure half-way.** Accrual, refund and settlement write several rows
  before a later one is refused. A crash can hit any transaction, or come
  between a transfer and its record.
* **Delivery.** Payment, receipt and refund events are repeated, late and out of
  order. The channel's answer can be lost after the money has left.
* **Bounds and arithmetic.** The limits of one `Maintain` call, rounding in
  instalments and over line items, the allocation cap, an account at the edge
  of its integer.
* **Concurrent SQL transactions.** An operation reads rows, and acts on what it
  read after other transactions have committed. What stops it is a unique key, a
  version or a guard in the `WHERE` clause, and the code answers a lost race by
  skipping it, returning an error or going round again.
* **In-place writes with an undo log.** The memory store changes maps, appended
  indexes and sorted indexes directly, and has to undo all of them.
* **The debt policy.** With `AllowNegative`, a guard that looks at every bucket
  of an account meets a bucket that is legally negative.

`PROJECT.json` lists each hazard at its line, with the property that covers it
or a note why none does yet.

What makes each part correct: an account is the sum of its ledger; buckets and
rows agree (nothing settled or clawed back twice); refunds in instalments equal
one refund of the total; the cap holds whatever the rate source answers;
promised dates do not move; due money settles; a withdrawal has one outcome;
money called paid has left; the relation tree stays a tree; an order goes to
whoever owned the customer when it was paid. Of a store: a transaction happens
as a whole or not at all, and an index says what the rows say. Of the self
check: it is silent on sound books and speaks up on broken ones.

## 2. Modules

| Module | What it models |
|---|---|
| `Money` | fixed-width amounts, multiply-divide with the three rounding modes, rates in basis points |
| `Books` | accounts and ledger entries: `Post` is one `IncrementAccount` with its `AppendLedger`, `Accepts` its guard |
| `Commissions` | the commission engine: accrual, receipt, refund, risk control, `Maintain` |
| `Payouts` | withdrawals, their review, the payout call and the channel |
| `Kernel` | engine and payouts over one store, with crashes |
| `Relations` | agents, bindings, attribution of orders |
| `SelfCheck` | the four invariants of the self check as sets of reported violations, over an image of the rows, and the candidate filter of the SQL aggregate query |
| `SqlStore` | a database that runs several transactions at once, and the SQL store's statements, `IncrementAccount` and retry loop on it |
| `SqlLedger` | the ledger's operations as SQL transactions |
| `StoreSpec` | what the Store port promises: the abstract specification of a store |
| `MemoryStore` | the in-memory store with its indexes and undo log; implements `StoreSpec` |
| `DueHeap` | `DueWork` of the in-memory store: the walk over all tenants and its bounded heap |
| `SumProofs` | lemmas on sums over finite sets |
| `CommissionsProofs`, `ReconcileProofs` | lemmas on deltas and entries, theorems about `Commissions` |
| `KernelProofs` | theorems about `Kernel` and `SelfCheck` |
| `RelationsProofs`, `MemoryStoreProofs` | theorems about `Relations`, `MemoryStore` and `DueHeap` |
| `SqlProofs`, `SqlBooksProofs` | theorems about `SqlLedger`: its rows and decisions, its money |
| `MCCommissions`, `MCKernel`, `MCRelations`, `MCSql`, `MCMemory` | the instances TLC checks |

**Transactions.** `Store.Update` holds one lock and undoes every write when its
closure fails. An operation that writes one row per loop iteration takes the
lock (`tx`), saves what a failure must restore (`undo`) and then performs the
loop one iteration per step on the live rows, ending in `Commit` or `Rollback`.
Invariants therefore hold between the writes of a transaction too, except
`RefundsProportional`, which is about committed refunds only. Operations that
write one row, or several that do not depend on each other, are single steps. A
call that is refused, or answered without a write, changes nothing and is not a
step.

**Actions and code.** `OnOrderPaid` begins an accrual; `AccrueLayer`,
`SkipLayer`, `NextBase` and `AbortAccrual` are the loop of `accrueBase`.
`OnOrderRefunded` begins a refund; `RefundItem` writes a voucher and takes on an
item's layers, `ReverseLayer`, `KeepLayer` and `AbortRefund` are `reverseItem`,
and `ClawBack` is `clawBack` with `debitBucket`, shared with `VoidCommission`.
`Maintain` is `MaintainStart` (reads the clock once), `MaintainScan`,
`MaintainTenant` (one batch), `SettleOne`, `AbortBatch`, `CommitBatch`,
`TenantRoundsSpent` and `RoundEnds`; its progress is the variable `beat`.
`PayWithdraw` is three steps of a worker: the read, the answer of the channel
(`ChannelPays`, `ChannelFails`) and the record (`SettlePayout`,
`SettlePayoutNothing`, `RecordPayoutFailure`).

**The SQL store.** `Store.Update` sets no isolation level, so a transaction runs
at its engine's default, and `engine` chooses between the two that matter: on
PostgreSQL a `SELECT` sees what is committed when it runs, on MySQL what was
committed at the transaction's first `SELECT`; on both an `UPDATE` works on the
current row and waits for its lock. A row id is a table and a unique key; `rows`
are committed, `dirty` is written but not committed and thereby locked. A step is
one statement: `OnOrderPaid`, `OnOrderReceived`, `MaintainTenant`,
`OnOrderRefunded`, `VoidCommission`, `SetRisk`, `RequestWithdraw`,
`DecideWithdraw` and `SelfCheck` open a call's transaction with its first read,
`AccrueBase`, `SetCommissionAvailableAt`, `SettleOne`, `CumulativeRefunds`,
`AppendRefund`, `ClawBack`, `SetCommissionReversedAmount`, `TransitionRisk`,
`AppendWithdrawal` and `TransitionWithdrawal` are its loop, and `UpdateAccount`,
`LookupAccount`, `InsertAccount` are the two passes of `IncrementAccount`.
`Refused` is what each operation makes of an increment that failed. The engine
may give up any transaction while another is open (`Retry`), which over-
approximates deadlocks, lock timeouts and gap locks. Locks, snapshots and unique
indexes belong to the database and are marked external. Who earns what is a
constant (`Plan`), dates are reduced to whether there is one, and the three
reserved states of a withdrawal are one. A row's idempotency key stands for its
id, so an increment's overflow, which the database refuses, does not occur.

**The memory store.** `AppendRow` is the four appends, `Put` the four puts,
`Amend` the two changes no index depends on. `undo` holds, as in the code, the
first old value of a key, the old length of an appended index, and for a sorted
index nothing, a length or a copy. The committed contents are not stored
anywhere: the refinement mapping of `ImplementsStore` computes them by applying
the undo log to the data, so the step that publishes them is `Commit` and
`Rollback` is correct exactly if what it computes never changed meanwhile.

**The self check.** A check reads an image of the store. `NoFalseAlarm` gives it
the rows of the running system, `CorruptionFound` the same rows after somebody
tampered with them in one of these ways (`Tampered`): a column of an account is
one off; a bucket and the delta of one of its entries are both one too high; a
ledger entry, a commission or an open withdrawal is missing; the accumulator of
an accrual is one too high; an open withdrawal is marked paid or rejected and
nothing else. It claims nothing of other damage, and section 5 names some that
the four checks do not see.

**Abstractions.** Ids are positions in a sequence. An idempotency key is the
tuple of things it is built from. The rate source answers any member of
`Rates`, so that overrides and changing rules are included. In `Commissions`
the attributed agent and the uplines are constants and an agent above level 1
may always turn out ineligible; who they are is the subject of `Relations`.
It may also fail (`RateSourceFails`), which rolls the accrual back.
Field validation, error texts, logging and formatting are left out. Of the
channels in `payout.go`, `MockChannel` declines when told to, and
`ManualChannel` answers "paid" without moving anything: its answer stands for a
transfer a person made and is taken to be true. A payment provider behind a
channel is assumed to honour the idempotency key it is given (`transfers` is a
set) and nothing else; its answer may be lost (`LostAnswers`). The order system
(`Pay`) is external. Refund totals (`RefundTarget`) are added exactly; the code
adds two `int64` unchecked, which differs only for a base above half their range.

## 3. Runs

All runs check for deadlock as well.

| Run | Instance | What it shows |
|---|---|---|
| `instalments` | one item of 7 units, two layers, rates that overflow the cap or an account of width 4, two refund keys, three kinds of refund | no money lost or doubled under any interleaving; refunds in instalments equal one refund; the cap holds; nothing wraps; dates and history are kept |
| `tenants` | two tenants, three rows, two settlements per call, one round per tenant | the work budget is charged exactly; every due row settles in the end |
| `kernel` | one order, two requests, one payout worker, refunds of settled money, lost answers, one crash, debts refused | the money is where the rows say; entries and balances agree; a refund whose clawback is refused leaves no voucher; the self check finds each tampering listed in section 2, and its narrowed form reports the same as the full one |
| `payouts` | one order of two items, a refund spread over both, one request, two payout workers, lost answers, one crash, debts allowed, fairness | through debts, refused batches and refused payout records: reserved and paid money agrees with the withdrawals; one outcome per withdrawal; paid means transferred; shares of a refund never exceed it; the self check raises no false alarm, and a permitted debt is none; a confirmed payout gets recorded unless its agent is in debt |
| `relations` | four users, one of whom buys, two statuses, expiring bindings dated freely | the tree stays grounded and paid orders stay on it; by the dates the bindings carry, a buyer has one owner at a time and its orders go to that owner |
| `sql` | both engines, two connections, one retry, six scenarios of three to eight calls | books balance, the money is where the rows say, nothing is earned or decided twice, no overdraft, first bookings may race, a self check with a snapshot stays silent, every call returns |
| `memory` | six rows of all tables in two tenants, two dates, five writes kept | data and indexes agree after any writes and roll-backs; both readers of the due index are exact at every limit; the store implements `StoreSpec` |

Five runs are expected to fail, and TLC's counterexample is the result:

| Run | Property | What happens |
|---|---|---|
| `payreject` | `ReturnedNotTransferred` | two payout calls are at the channel (no payment is reported by hand, `ThroughChannel`): one fails and records it, the withdrawal is rejected and the money returned, and then the channel pays the other call. What that call does next is read from the code: `settlePayout` finds nothing outstanding and answers without an error |
| `latebinding` | `AttributedAtPayment` | an order is paid, its buyer is bound afterwards with a date before the payment, and the order is booked for the agent, against the second contract in `README.md` |
| `blocked` | `OthersSettle` | an earning smaller than its agent's debt is refused by the account guard in every heartbeat, and the due rows of the tenant's other agents are rolled back with it for ever |
| `lostrefund` | `RefundsAddUp` | two different refunds of equal amount race on a SQL store, reach the same target from the same total, and the second is taken for a replay of the first after its voucher was written |
| `lostreceipt` | `ReceiptTaken` | a receipt loses the version check to a freeze and is skipped as if another delivery had handled it; the commission has no date |

Further disagreements between code and text that the model shows without a run
of their own, with the change that shows them:

* Without its exception for an agent in debt, `PayoutsRecorded` fails in the
  `payouts` run: a debt that arises while a payout is at the channel makes the
  guard refuse to record the payment (`payout.go:531`), and nothing records it
  later. ADR-042 names the refusal as a cost of `AllowNegative`, so it is an
  exception and not a finding.
* With the two agents of `MC_Blocked.cfg` in two tenants and
  `MaintainWorkBatch = 1`, `OthersSettle` still fails: the stuck row fills the
  scan.
* With `AllowNegative = TRUE` on MySQL, `SqlMoneyBacked` fails in a scenario
  where a heartbeat settles a second order while a refund drives the balance
  negative: the guard refuses on a balance newer than the snapshot, which
  `IncrementAccount` reports as a conflict, and `maintainTenant` skips the
  conflict after the row was marked settled (`settle.go:333`).
* On PostgreSQL a self check at READ COMMITTED can raise a false alarm, because
  every page is a snapshot of its own; without the condition on the engine,
  `SnapshotCheckClean` fails.
* Three equal items of base 2 and a refund of 5 are distributed as 1, 1 and 2:
  the last item's remainder is cut to its base (`reversal.go:266`), though the
  comment says the total is met exactly.
* A payment event that arrives after the buyer was rebound finds the new binding
  only, and the order is attributed to nobody (`ledger.go:321`).

Two more are plain to see. `Binding.ReboundFrom` copies an `ID` that no store
assigns (`ledger.go:327`), so it is always 0. The comment on `AgentDisabled`
(`model.go:52`) says the chain is truncated there, while `accrueBase` passes over
the agent (as ADR-019 decided).

**Bounds and why they suffice.** Amounts are a few units, chosen so that
halves, remainders and the cap truncate (7 and 50 %, 2+3+2 and 4). Two refund
keys give replay, second instalment and order of arrival; a third repeats them.
Two layers show truncation of the later one. The clock has two moments because
a date is before, at or after now. Batch, scan, round and budget limits are 1 to
4 rows, so that each is hit. Two workers are what the three steps of a payout
need to race, one crash what recovery needs; two requests compete for one
balance. With items of 8 and 2 at 50 %, a withdrawal of 4 and a refund of 5, the
balance goes to -2 while the second item's earning of 1 is still frozen, which
is what it takes to refuse a batch and a payout record. Four users reach the depth limit (three levels) and try to exceed it. The SQL
races need two transactions open at a time, and one retry shows the state an
attempt leaves to the next; each scenario pairs the operations that write the
same rows, and its `after` sets order only calls of which one needs the other's
result. Three ids, two tenants and two dates make every insertion into a sorted
index happen at its end and in its middle, in either order within a transaction,
and give a heap of two a third candidate. `MaxTime`, `MaxCrashes`, `MaxRetries`,
`MaxId`, `MaxWrites` and the finite sets of keys are the only caps; each is a
constant.

**Fairness.** A transaction that holds the lock runs to its end (weak). The
heartbeat is called again and again and a waiting call gets the lock (strong: Go's
`RWMutex` does not starve a writer, and `README.md` asks integrators to schedule
`Maintain`). A payout call whose channel has answered goes on to record the
answer (strong, for the same reason). On the SQL store only the progress of the
whole is assumed: while a call has not returned, some statement runs or some
transaction is given up (weak, `FairSqlSpec`), which is what a database and
running callers give. Nothing is assumed of events, operators,
the channel or the clock. `DueSettles` is conditional on operators not freezing
and unfreezing rows for ever, `PayoutsRecorded` on the process not dying any
more and the agent not being in debt.

## 4. Proofs

The theorems hold for all orders, baskets, agents, uplines, rates, rules, limits,
widths, keys, workers and numbers of crashes that satisfy the named assumptions
(`EngineAssumption`, `MaxMoneyAssumption`, `RoundingAssumption`,
`PayoutsAssumption`, `MaxCrashesAssumption`, `RelationsAssumption`,
`MemoryAssumption`, `SqlAssumption`, `SqlLedgerAssumption`), and TLC evaluates
these assumptions in every run. The last two say that calls are finitely many
and well-formed requests, and that an order's plan names an agent once and pays
no layer more than the order's base.

| Module | Theorem | Property | Inductive invariant |
|---|---|---|---|
| `CommissionsProofs` | `EngineTypeCorrect` | `EngineTypeOK` | itself |
| | `EngineBooksBalance`, `EngineBalancesSound` | `BooksBalance`, `BalancesSound` | `BooksInv` |
| `ReconcileProofs` | `EngineReversalsReconcile`, `EngineMoneyBacked` | `ReversalsReconcile`, `MoneyBacked` | `ReconcileInv` |
| | `EngineHistoryKept`, `EngineSettlementDateKept` | `HistoryKept`, `SettlementDateKept` (actions) | `HistoryInv`, `DateInv`: live rows extend the snapshot |
| | `EngineBudgetCharged` | `BudgetCharged` (action) | `DateInv`, `BudgetInv`: the open batch's counter |
| | `EngineAllocationCapped`, `EngineRefundNotExceeded` | `AllocationCapped`, `RefundNotExceeded` | `CapInv` |
| | `EngineRefundsProportional` | `RefundsProportional` | `RefundInv` |
| `KernelProofs` | `KernelTypeCorrect` | `KernelTypeOK` | itself |
| | `KernelBooksBalance`, `KernelBalancesSound`, `KernelMoneyBacked` | as above, with payouts and crashes | `MoneyInv` |
| | `KernelWithdrawalsReconcile`, `KernelOneOutcome` | `WithdrawalsReconcile`, `OneOutcome` | `PayoutsInv` |
| | `KernelPaidWasTransferred` | `PaidWasTransferred` | `TransferInv` |
| | `KernelNarrowingComplete` | `NarrowingComplete` | none: true of every image |
| | `KernelNoFalseAlarm` | `NoFalseAlarm` | `CheckInv` |
| | `KernelCorruptionFound` | `CorruptionFound` | `CheckInv` |
| `RelationsProofs` | `RelationsTypeCorrect`, `AgentsGrounded` | `RelationsTypeOK`, `Grounded` | themselves, together |
| | `OrdersPaidAlongTree` | `PaidAlongTree` | `TreeInv` |
| | `CustomersHaveOneOwner`, `OrdersBookedForOwner` | `OneOwnerAtATime`, `BookedForOwner` | `OwnerInv` |
| `MemoryStoreProofs` | `MemTypeCorrect`, `MemIndexesAgree` | `MemTypeOK`, `IndexesAgree` | `MemInv` |
| | `MemDueExact` | `DueExact` | `MemInv` |
| | `MemDueWorkExact` | `DueWorkExact` | `MemInv`, `TenantsKnown` |
| | `MemImplementsStore` | `ImplementsStore` (refinement of `StoreSpec`) | `MemInv` |
| `SqlProofs` | `SqlRowsWellFormed` | `SqlTypeOK` | `TypeInv`, `PoolOK` |
| | `ConcurrentNoOverdraft`, `ConcurrentFirstBookings` | `SqlNoOverdraft`, `FirstBookingAccepted` | `SolventInv` |
| | `ConcurrentOneOutcome` | `DecidedOnce` | `DecidedInv` |
| `SqlBooksProofs` | `ConcurrentMoneyBacked` (debts refused), `ConcurrentReversalsReconcile` | `SqlMoneyBacked`, `SqlReversalsReconcile` | `TallyInv` |
| | `ConcurrentBooksBalance` | `SqlBooksBalance` | `BooksInv` |
| | `ConcurrentSnapshotCheck` | `SnapshotCheckClean` | `HeldInv`, `CheckInv` |
| | `ConcurrentEarnedOnce` | `SqlEarnedOnce` | `EarnedInv` |

**The snapshot.** None of the properties of rows and books is inductive as it
stands: a roll-back or a crash puts back `undo`, of which they say nothing. Each
inductive invariant therefore states its predicate twice, of the live tables and,
while a transaction is open, of the snapshot, and the predicates take the tables
as parameters. `StoreStep` (`CommissionsProofs`) reduces every step of the engine
to five kinds: nothing written, one write (`Writes`), begin, commit, roll-back.
A new invariant needs a proof for the writes only. `PayoutEffect` and
`CrashEffect` (`KernelProofs`) do the same for the rest of the kernel.

**Sums.** `SumFunctionOnSet` is a fold over a recursive function, and the library's
induction theorems cannot be instantiated here. `SumProofs` proves what is
needed from the definition by minimal counterexamples instead: a family of
subsets of a finite set that is not empty has a minimal member
(`MinimalSubset`), so a smallest set on which a law fails would be one element
larger than a set on which it holds. The results are `SumStep` (the sum changes
by what the changed element changes), `SumKept`, `SumScaled` and `SumSupport`,
and every comparison of balances with rows rests on them. `MaxIn` and `MinIn`
come from the same argument.

**Books.** `Sound` is kept by `PostSound`: a movement whose account delta and
ledger delta agree and that `Accepts` let through keeps the chain of balances.
The unguarded credit of an accrual is harmless because it only adds, the
unguarded debit because it touches the withdrawable bucket alone.

**Rows and money.** `Reconciled` relates each row to the reversal rows that name
it and each account to the sums over its agent's rows. It needs what the
properties do not say: an accrual reverses nothing, a reversal row is "reversed"
and points at a row that exists. A clawback then changes two rows, one of which
counts for nothing but the sum of reversals (`ClawBackReconciles`).

**Instalments.** During a refund the rows of one item lag behind its voucher.
`RefundInv` says how: rows still to do (`Behind`) are at the floor of a smaller
total, all others at the floor of the present one, and the snapshot is
proportional throughout, which is what an aborted refund returns to. That a
retry of the same target is refused only when it was reached needs
`TargetsReached`. The cap needs the allocation so far to equal the open
transaction's counter (`PaidSoFar`).

**History.** While a transaction is open the live tables extend the snapshot,
vouchers included (`VouchersStay`), and no step but `Commit` changes what is
committed.

**Budget.** Of an open batch, `BudgetInv` says that its counter is the number of
rows settled on the live table and not in the snapshot, that the rows still to do
are settled in neither, and that both together stay within the budget. The last
holds at the start because at most `limit` rows of a set are among its earliest
(`EarliestBounded`: the number of rows due before it tells each one from the
others). In every other transaction no row is newly settled.

**Withdrawals.** `Agrees` states the reserved and withdrawn sums and, for each
withdrawal, which entries its agent's ledger has; also that no entry exists for a
withdrawal not yet requested, or the next request might find one. `TransferInv`
adds that a call the channel has confirmed works on a transferred withdrawal.

**Self check.** `CheckInv` is the conjunction of the invariants above and
`Checkable`: accounts are the sums of their deltas, entries about commissions and
rows name each other, the total an agent lost is the sum of its reversal rows,
and these reverse accruals. Each of the four checks then has a lemma that its
set of violations is empty (`ConservationHolds`, `AllocationHolds`,
`ReversalsHold`, `WithdrawalsHold`). `PathsAgree` shows for any image, with
nothing assumed of it, that an account which is no candidate has no violation.
The same agreement makes the check speak up: a sum that was equal no longer is
when one of its terms is changed, and an entry whose row is gone points nowhere.
That a lost entry always changes a sum needs one fact more, that every entry
moves money (`EntriesMove`), so it is part of `Checkable`; one lemma for each way
of tampering in `Tampered` (`WrongColumnFound` to `WrongAccumulatorFound`) names
the check that reports it.

**Relations.** The depth of an agent is that of its upline plus one, and uplines
are never changed, so a booked chain stays a chain. Of bindings, each successor
begins when its predecessor ends or later (`Succession`), from which disjointness
follows for every pair. Both are about the dates the bindings carry; when they
were written is the `latebinding` run.

**In-memory store.** Here a transaction has no snapshot: it writes the live
tables and notes in `undo` what it overwrote. `MemInv` states the agreement of
maps, unique keys, group indexes and sorted slices twice, of the live tables
(`LiveOK`) and of the tables a roll-back would leave (`BackOK`), and that each
undo record is of a form its restore function can use (`UndoOK`). The heart is
`BackKept`: no write changes what a roll-back would leave, whichever way the
slice was noted before (by length after appends, by copy after an insertion or
a removal). With that a write step is a `WriteTx` of the port, whose committed
tables are mapped to the tables a roll-back would leave, and `Rollback` is
`RollbackTx`. That a slice stays sorted and duplicate-free rests on
`InsertSorted` and `RemoveSorted`, which use of the binary search only that the
place found has only smaller entries before it and a larger one, or none, at it.
`DueExact` follows from the same agreement. Because the index is sorted by
tenant, date and id, the two searches enclose exactly the tenant's due entries
(`DuePlace`), those of them that agree with their row are the due commissions
(`SeenIsDue`), and the scan, a recursive function over positions, holds the first
`limit` of those it has passed, or all (`ScanFinds`, by a minimal counterexample).

**The heap of `DueWork`.** The loops are functions of the number of rounds done;
`LoopHistory` says that such a function exists and `CountingUp` carries a fact
through its rounds, so each loop needs only a fact about one round. A sift
(`SinkingKept`): from its start on, only the sinking entry may be better than what
is below it, and the entry's parent is not better than the entry's children; after
as many swaps as there are places the entry rests (`SiftDownMeans`). `Heapify`
turns the places into heaps from the last parent to the root (`HeapifyMeans`), and
the root of a heap is a worst entry (`RootIsWorst`). The walk (`Keeps`,
`OfferMeans`): the heap holds all candidates while it has room, a full one is a
heap, and nothing it left out is better than anything it holds. Besides `MemInv`
this needs that no row, and no row a roll-back restores, belongs to a tenant
nobody writes for (`TenantsKnown`). The sort gives each entry the place of its
rank; the ranks are an injection into as many places (`InOrderMeans`).

**SQL store.** Statements of different calls interleave, so every invariant is
stated of the committed rows and, call by call, of the rows a call has written
and not committed. `StepCases` reduces a step to three kinds: nothing relevant
changes, one call acts inside its own transaction (`Acts`), or it commits
(`Commits`); a row written by one call is locked for the others, so the writes of
two calls never overlap. `StepEffect` says what each statement does in terms of
the committed rows, the call's own writes and the call, whatever the others do.
An invariant then needs a proof for one call over rows that hold still, and a
lemma that it survives the commit of another call. What makes the latter true is
that rows only grow (`Grows`): a versioned row is replaced by one of a higher
version, so a copy that was read still is the row when its version matches
(`Uncontended`).

* *Overdrafts.* `SolventInv`: what an increment without a guard takes is taken from
  a bucket that may go negative, one with a guard reads the row it updates. A first
  credit that collides goes into its second pass with the row there.
* *Decisions.* `DecidedInv`: a call books the entry of its decision first, and the
  state after it matches a reserved row or rolls both back.
* *Money.* `TallyInv` keeps, for each agent and bucket and for each commission, the
  sum of all rows with signs (`Weight`) at zero. Inside a transaction the sum is
  off by what the call `Owes`: the increment it is about to make, the accumulator
  it is about to raise, the state it is about to write. Each statement changes one
  row and what is owed by the same amount. It is proved where debts are refused;
  with debts allowed the property fails (section 3).
* *Books.* `BooksInv`: while a call has written an agent's account, its lock keeps
  others from appending entries for that agent; the balance of the entries lags
  behind the account by the delta of the entry still to be written (`BooksDue`).
* *Self check on a snapshot.* A withdrawal and the entry of its reservation are
  committed together (`HeldInv`), and in a snapshot all sums are zero, because it
  is a state the committed rows were in.
* *Payments.* `EarnedInv`: what a payment has left to do is the rest of the plan
  (`PlanRest`), and it has either inserted every layer so far or found every layer
  committed. It therefore commits the whole plan or nothing, and a second delivery
  that finds the first layer finds them all.

Only model-checked: all liveness (`DueSettles`, `PayoutsRecorded`, `CallsReturn`).
`SqlMoneyBacked` is proved, and true, with debts refused only.

## 5. What is not modelled

* `PutAgent`, `PutBinding` and `PutAccount` of the SQL store (registration there
  is a version check per row, as in memory), SQLite (one writer at a time, which
  is the store of `Commissions`), gap locks and the choice of deadlock victims.
* The page limit of the reconciliation query: 1000 permitted debtors would hide
  a broken account behind them. Paging elsewhere is a plain walk.
* A panic inside a transaction of the memory store, which is not rolled back.
* What the self check does not look at, so that `CorruptionFound` does not ask
  for it: the frozen bucket against the pending rows, hence a commission marked
  settled without its money or the money moved without the state
  (`settle.go:379`); a withdrawal row lost after it was closed; a lost refund
  voucher.
* Two concurrent deliveries of one payment under different `IdemKey` values.
* Dialects, DDL, migration and SQL text; parsing and formatting of amounts;
  event validation; examples and the integration harness. They keep no ledger
  state.

## 6. Plan

Done: the kernel, relations, both stores and the self check as models, and the
proofs of section 4, which cover every invariant the runs check. Left: concurrent
deliveries of one payment under different `IdemKey` values.
