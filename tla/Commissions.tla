---------------------------- MODULE Commissions ----------------------------
(***************************************************************************)
(* The commission engine: accrual (accrual.go), receipt and settlement     *)
(* (settle.go), clawback by refund (reversal.go) and risk control          *)
(* (risk.go), over a store whose Update runs one transaction at a time and *)
(* undoes every write when the transaction fails (store/memory).           *)
(*                                                                         *)
(* An operation that writes one row per loop iteration is a transaction    *)
(* here too: it takes the store's lock (tx), performs the loop one         *)
(* iteration per step on the live rows, and then either commits or puts    *)
(* back what the rows were when it began (undo).  Nobody else reads or     *)
(* writes the store in between.  An operation that writes at most one row, *)
(* or whose writes do not depend on each other, is a single step.  A call  *)
(* the code refuses, or answers without writing, changes nothing and so is *)
(* no step at all.                                                         *)
(***************************************************************************)
EXTENDS Books, FiniteSets, FiniteSetsExt

CONSTANTS
  Orders,             \* order keys
  TenantOf,           \* TenantOf[o]: the tenant an order belongs to
  Basket,             \* Basket[o]: the commission base of each line item of o
  NoAgent,            \* "no such agent": the end of a relation chain
  Referrer,           \* Referrer[o]: the agent order o is attributed to
  Upline,             \* Upline[k]: the parent of agent k
  Levels,             \* Rules.Levels
  Rates,              \* what RateSource.ResolveRate may answer, in basis points
  RateSourceFails,    \* ResolveRate may answer with an error
  MaxAllocatableBP,   \* Rules.MaxAllocatableBP
  FreezeWindows,      \* the values Rules.FreezeDays takes over time
  AllowNegative,      \* Rules.AllowNegative, the debt policy
  RefundKeys,         \* idempotency keys of refund events
  RefundEvents,       \* what a refund event may ask for
  ReceiptTimes,       \* the ReceivedAt of receipt events
  MaxTime,            \* bound: the clock stops here
  MaintainBatch, MaintainWorkBatch, MaxMaintainRounds, MaxSettlePerMaintain

ASSUME EngineAssumption ==
  /\ TenantOf \in [Orders -> Nat]
  /\ Basket \in [Orders -> Seq(Nat \ {0})]
  /\ NoAgent \notin Agents
  /\ Referrer \in [Orders -> Agents \cup {NoAgent}]
  /\ Upline \in [Agents -> Agents \cup {NoAgent}]
  /\ Levels \in Nat \ {0}
  /\ Rates \subseteq 0 .. RateScale
  /\ RateSourceFails \in BOOLEAN
  /\ MaxAllocatableBP \in 0 .. RateScale
  /\ FreezeWindows \subseteq Nat
  /\ AllowNegative \in BOOLEAN
  /\ \A ev \in RefundEvents :
       /\ ev.kind \in {"full", "items", "amount"}
       /\ ev.kind = "items" => \A i \in DOMAIN ev.items : ev.items[i] \in Nat \ {0}
       /\ ev.kind = "amount" => ev.amount \in Nat \ {0}
  /\ ReceiptTimes \subseteq Nat
  /\ MaxTime \in Nat
  /\ MaintainBatch \in Nat \ {0}
  /\ MaintainWorkBatch \in Nat \ {0}
  /\ MaxMaintainRounds \in Nat \ {0}
  /\ MaxSettlePerMaintain \in Nat \ {0}

Tenants == {TenantOf[o] : o \in Orders}

(* Line items are numbered in the order of their ids.                      *)
AllItems == UNION {DOMAIN Basket[o] : o \in Orders}

VARIABLES
  commissions,        \* the commission rows, in the order of their ids
  vouchers,           \* the refund vouchers
  clock,              \* the injected clock
  tx,                 \* the transaction that holds the store's lock
  undo,               \* what it restores when it fails
  beat                \* the Maintain call in progress

storeVars == <<accounts, ledger, commissions, vouchers>>
engineVars == <<accounts, ledger, commissions, vouchers, clock, tx, undo, beat>>

-----------------------------------------------------------------------------
(***************************************************************************)
(* Rows                                                                    *)
(***************************************************************************)

CommissionStates == {"pending", "settled", "reversed", "frozen", "void"}

CommissionTransitions ==
  [pending  |-> {"settled", "reversed", "frozen", "void"},
   settled  |-> {"reversed"},
   frozen   |-> {"pending", "void", "reversed"},
   reversed |-> {},
   void     |-> {}]

Terminal(s) == s \in {"reversed", "void"}

Unset == -1           \* a zero AvailableAt: the order was not received yet

Commission ==
  [order : Orders, item : Nat, agent : Agents, layer : Nat,
   base : Nat \ {0}, amount : Int, state : CommissionStates,
   freezeDays : Nat, availableAt : Int, reversed : Nat,
   reverseOf : Nat,   \* on a reversal record, the id of the row it reverses
   target : Nat]      \* on a reversal record, the total its idempotency key names

Outstanding(c) == c.amount - c.reversed

FullyReversed(c) == c.amount > 0 /\ c.reversed >= c.amount

DueAt(c, at) == c.availableAt # Unset /\ c.availableAt <= at

Voucher ==
  [order : Orders, item : Nat, key : RefundKeys,
   amount : Nat \ {0}, cumulative : Nat]

(* Ids of the positive rows of an order (groupAccrualsByItem).             *)
Accruals(o) ==
  {c \in DOMAIN commissions : commissions[c].order = o /\ commissions[c].amount > 0}

AccrualItems(o) == {commissions[c].item : c \in Accruals(o)}

AccrualsOf(o, i) == {c \in Accruals(o) : commissions[c].item = i}

(* baseOf: every layer of an item carries the base of the one accrual.     *)
BaseOf(o, i) == commissions[CHOOSE c \in AccrualsOf(o, i) : TRUE].base

-----------------------------------------------------------------------------
(***************************************************************************)
(* Transactions (Store.Update)                                             *)
(***************************************************************************)

Idle == [op |-> "none"]

NoUndo == << >>

Unlocked == tx = Idle

Begin(t) ==
  /\ Unlocked
  /\ tx' = t
  /\ undo' = [accounts |-> accounts, ledger |-> ledger,
              commissions |-> commissions, vouchers |-> vouchers]
  /\ UNCHANGED storeVars

CommitKeepingUndo ==  \* mutant: the undo log is not dropped
  /\ tx' = Idle
  /\ UNCHANGED <<storeVars, undo>>

Commit ==
  /\ tx' = Idle
  /\ undo' = NoUndo
  /\ UNCHANGED storeVars

RollbackOfBooks ==  \* mutant: the rows are forgotten
  /\ tx' = Idle
  /\ undo' = NoUndo
  /\ accounts' = undo.accounts
  /\ ledger' = undo.ledger
  /\ UNCHANGED <<commissions, vouchers>>

RollbackOfRows ==  \* mutant: the vouchers of the failed refund stay
  /\ tx' = Idle
  /\ undo' = NoUndo
  /\ accounts' = undo.accounts
  /\ ledger' = undo.ledger
  /\ commissions' = undo.commissions
  /\ UNCHANGED vouchers

Rollback ==
  /\ tx' = Idle
  /\ undo' = NoUndo
  /\ accounts' = undo.accounts
  /\ ledger' = undo.ledger
  /\ commissions' = undo.commissions
  /\ vouchers' = undo.vouchers

-----------------------------------------------------------------------------
(***************************************************************************)
(* OnOrderPaid                                                             *)
(***************************************************************************)

(* The event is applied when the order has no commission yet (otherwise it *)
(* is a replay), the buyer is attributed and the level-1 agent is          *)
(* eligible.                                                               *)
OnOrderPaid(o) ==
  /\ \A c \in DOMAIN commissions : commissions[c].order # o
  /\ Referrer[o] # NoAgent
  /\ \E days \in FreezeWindows :
       Begin([op |-> "paid", order |-> o, freezeDays |-> days,
              item |-> 1, layer |-> 1, agent |-> Referrer[o], allocated |-> 0])
  /\ UNCHANGED <<clock, beat>>

(* The upline of the current layer is next, whether or not this layer got  *)
(* a commission.                                                           *)
NextLayer(amount) ==
  tx' = [tx EXCEPT !.layer = @ + 1, !.agent = Upline[tx.agent],
                   !.allocated = @ + amount]

AtLayer ==
  /\ tx.op = "paid"
  /\ tx.item <= Len(Basket[tx.order])
  /\ tx.layer <= Levels
  /\ tx.agent # NoAgent

LayerAmountAlone(rate) ==  \* mutant: what other layers got is not counted
  LET base == Basket[tx.order][tx.item]
      capAmount == ApplyRate(base, MaxAllocatableBP, "down")
      amount == ApplyRate(base, rate, Rounding)
  IN  IF amount > capAmount THEN capAmount ELSE amount

(* What layer's agent is due at a rate: the rate's share of the base,      *)
(* truncated to what is left of the allocation cap.                        *)
LayerAmount(rate) ==
  LET base == Basket[tx.order][tx.item]
      capAmount == ApplyRate(base, MaxAllocatableBP, "down")
      amount == ApplyRate(base, rate, Rounding)
      remaining == capAmount - tx.allocated
  IN  IF amount > remaining THEN remaining ELSE amount

NewCommission(amount) ==
  [order |-> tx.order, item |-> tx.item, agent |-> tx.agent, layer |-> tx.layer,
   base |-> Basket[tx.order][tx.item], amount |-> amount, state |-> "pending",
   freezeDays |-> tx.freezeDays, availableAt |-> Unset, reversed |-> 0,
   reverseOf |-> 0, target |-> 0]

AccrualDelta(amount) ==
  [NoDelta EXCEPT !["frozen"] = amount, !["totalEarned"] = amount]

(* accrueBase, one layer: an eligible agent with a positive amount gets a  *)
(* commission row, a credit to the frozen bucket and a ledger entry.       *)
AccrueLayer(rate) ==
  LET amount == LayerAmount(rate)
  IN  /\ AtLayer
      /\ amount > 0
      /\ Accepts(tx.agent, AccrualDelta(amount), FALSE)
      /\ commissions' = Append(commissions, NewCommission(amount))
      /\ Post(tx.agent, AccrualDelta(amount), "accrue", Len(commissions) + 1,
              [NoMoves EXCEPT !["frozen"] = amount])
      /\ NextLayer(amount)
      /\ UNCHANGED <<vouchers, undo, clock, beat>>

(* An agent above level 1 that is not eligible, or an amount of zero, gets *)
(* nothing and the chain goes on.                                          *)
SkipLayer ==
  /\ AtLayer
  /\ tx.layer > 1 \/ \E rate \in Rates : LayerAmount(rate) <= 0
  /\ NextLayer(0)
  /\ UNCHANGED <<storeVars, undo, clock, beat>>

(* The rate source answers with an error, or the credit overflows the      *)
(* account: the whole order is rolled back.                                *)
AbortAccrual(rate) ==
  LET amount == LayerAmount(rate)
  IN  /\ AtLayer
      /\ \/ RateSourceFails
         \/ amount > 0 /\ ~Accepts(tx.agent, AccrualDelta(amount), FALSE)
      /\ Rollback
      /\ UNCHANGED <<clock, beat>>

(* The chain of this line item is done: on to the next item, with a fresh  *)
(* allowance, or commit.                                                   *)
NextBase ==
  /\ tx.op = "paid"
  /\ ~AtLayer
  /\ IF tx.item < Len(Basket[tx.order])
       THEN /\ tx' = [tx EXCEPT !.item = @ + 1, !.layer = 1,
                                !.agent = Referrer[tx.order], !.allocated = 0]
            /\ UNCHANGED <<storeVars, undo>>
       ELSE Commit
  /\ UNCHANGED <<clock, beat>>

-----------------------------------------------------------------------------
(***************************************************************************)
(* OnOrderReceived                                                         *)
(***************************************************************************)

AwaitsAnyReceipt(c) == c.state \in {"pending", "frozen"}  \* mutant: dates are overwritten

AwaitsReceipt(c) == c.state \in {"pending", "frozen"} /\ c.availableAt = Unset

(* The settlement date of every row still waiting for one is fixed; a row  *)
(* that has one keeps it.                                                  *)
OnOrderReceived(o, at) ==
  /\ Unlocked
  /\ \E c \in Accruals(o) : AwaitsReceipt(commissions[c])
  /\ commissions' =
       [c \in DOMAIN commissions |->
          IF commissions[c].order = o /\ AwaitsReceipt(commissions[c])
            THEN [commissions[c] EXCEPT !.availableAt = at + commissions[c].freezeDays]
            ELSE commissions[c]]
  /\ UNCHANGED <<accounts, ledger, vouchers, clock, tx, undo, beat>>

-----------------------------------------------------------------------------
(***************************************************************************)
(* Clawback, shared by refunds and by voiding (clawBack, debitBucket)      *)
(***************************************************************************)

(* The money of a commission not yet settled is in the frozen bucket.      *)
ReversalBucket(s) == IF s = "settled" THEN "available" ELSE "frozen"

DebitTotals(bucket, amount) == [NoDelta EXCEPT !["totalReversed"] = amount]  \* mutant

DebitDelta(bucket, amount) ==
  [NoDelta EXCEPT ![bucket] = -amount, !["totalReversed"] = amount]

(* The guarded debit is tried first; when it fails for lack of money, only *)
(* the withdrawable bucket may be debited without the guard, and only      *)
(* where the rules allow a debt.                                           *)
Debitable(k, bucket, amount) ==
  \/ Accepts(k, DebitDelta(bucket, amount), TRUE)
  \/ /\ AllowNegative
     /\ bucket = "available"
     /\ Accepts(k, DebitDelta(bucket, amount), FALSE)

(* The idempotency key of a reversal names the row and the total reached.  *)
ReversalExists(c, target) ==
  \E r \in DOMAIN commissions :
    commissions[r].reverseOf = c /\ commissions[r].target = target

ReversalRecordOfTotal(c, target) ==  \* mutant: the total instead of the increment
  [commissions[c] EXCEPT
     !.amount = -target, !.state = "reversed",
     !.freezeDays = 0, !.availableAt = Unset, !.reversed = 0,
     !.reverseOf = c, !.target = target]

ReversalRecord(c, target) ==
  LET row == commissions[c]
  IN  [order |-> row.order, item |-> row.item, agent |-> row.agent,
       layer |-> row.layer, base |-> row.base, amount |-> row.reversed - target,
       state |-> "reversed", freezeDays |-> 0, availableAt |-> Unset,
       reversed |-> 0, reverseOf |-> c, target |-> target]

ClawBackInPlace(c, target, terminal, biz) ==  \* mutant: the accrual is overwritten
  LET row == commissions[c]
      delta == target - row.reversed
      bucket == ReversalBucket(row.state)
  IN  /\ commissions' =
           [commissions EXCEPT ![c].amount = @ - delta,
              ![c].state = IF target >= row.amount THEN terminal ELSE @]
      /\ Post(row.agent, DebitDelta(bucket, delta), biz, c,
              [NoMoves EXCEPT ![bucket] = -delta])

(* Raise the reversed total of row c to target: append the negative row,   *)
(* move the accumulator, end the row when nothing is left of it, debit the *)
(* bucket its state before the clawback says the money is in, and record   *)
(* the movement.                                                           *)
ClawBack(c, target, terminal, biz) ==
  LET row == commissions[c]
      delta == target - row.reversed
      bucket == ReversalBucket(row.state)
  IN  /\ commissions' =
           Append([commissions EXCEPT
                     ![c].reversed = target,
                     ![c].state = IF target >= row.amount THEN terminal ELSE @],
                  ReversalRecord(c, target))
      /\ Post(row.agent, DebitDelta(bucket, delta), biz, Len(commissions) + 1,
              [NoMoves EXCEPT ![bucket] = -delta])

CanClawBack(c, target) ==
  Debitable(commissions[c].agent, ReversalBucket(commissions[c].state),
            target - commissions[c].reversed)

-----------------------------------------------------------------------------
(***************************************************************************)
(* OnOrderRefunded                                                         *)
(***************************************************************************)

(* An event that names line items must name accrual items of the order,    *)
(* each with at most its base.                                             *)
ValidRefund(o, ev) ==
  ev.kind = "items" =>
    \A i \in DOMAIN ev.items :
      i \in AccrualItems(o) /\ ev.items[i] <= BaseOf(o, i)

ClampShare(x, base) == IF x \in 0 .. base THEN x ELSE IF x < 0 THEN 0 ELSE base

OrderBase(o) ==
  SumFunctionOnSet([i \in AccrualItems(o) |-> BaseOf(o, i)], AccrualItems(o))

LastItem(o) == Max(AccrualItems(o))

(* An item's part of a whole-order amount goes by its base, rounded down.  *)
Portion(o, i, amount) ==
  ClampShare(MulDiv(amount, BaseOf(o, i), OrderBase(o), "down"), BaseOf(o, i))

RemainderWhole(o, amount) == amount  \* mutant: what the others took is forgotten

(* What the items before the last one left of it.                          *)
Remainder(o, amount) ==
  amount - SumFunctionOnSet([i \in AccrualItems(o) |-> Portion(o, i, amount)],
                            AccrualItems(o) \ {LastItem(o)})

(* refundShares: how one refund is spread over the accrual items.  Of a    *)
(* whole-order amount the last item takes what the others left; no share   *)
(* exceeds its base.                                                       *)
RefundShares(o, ev) ==
  [i \in AllItems |->
     IF i \notin AccrualItems(o)
       THEN 0
       ELSE CASE ev.kind = "full"   -> BaseOf(o, i)
              [] ev.kind = "items"  -> IF i \in DOMAIN ev.items THEN ev.items[i] ELSE 0
              [] ev.kind = "amount" ->
                   IF i = LastItem(o)
                     THEN ClampShare(Remainder(o, ev.amount), BaseOf(o, i))
                     ELSE Portion(o, i, ev.amount)]

OnOrderRefunded(o, key, ev) ==
  /\ Accruals(o) # {}
  /\ ValidRefund(o, ev)
  /\ Begin([op |-> "refund", order |-> o, key |-> key,
            shares |-> RefundShares(o, ev), items |-> AccrualItems(o),
            item |-> 0, target |-> 0, todo |-> {}])
  /\ UNCHANGED <<clock, beat>>

(* cumulativeRefunds: the largest running total among an item's vouchers.  *)
Cumulatives(o, i) ==
  {0} \cup {v.cumulative : v \in {w \in vouchers : w.order = o /\ w.item = i}}

Vouched(o, i, key) ==
  \E v \in vouchers : v.order = o /\ v.item = i /\ v.key = key

NextItem(i) == i \in tx.items /\ \A j \in tx.items : i <= j

(* The sum is exact here; the code adds two int64 without a check.         *)
RefundTarget(o, i, cum) ==
  IF cum + tx.shares[i] > BaseOf(o, i) THEN BaseOf(o, i) ELSE cum + tx.shares[i]

(* The next item in order: its voucher is written, and its layers are      *)
(* taken on, unless it is refunded to its base already or this instalment  *)
(* of it has been applied before.                                          *)
RefundItem(i) ==
  /\ tx.op = "refund"
  /\ tx.todo = {}
  /\ NextItem(i)
  /\ \E cum \in Cumulatives(tx.order, i) :
       LET target == RefundTarget(tx.order, i, cum)
       IN  /\ \A x \in Cumulatives(tx.order, i) : x <= cum
           /\ IF target > cum /\ ~Vouched(tx.order, i, tx.key)
                THEN /\ vouchers' = vouchers \cup
                          {[order |-> tx.order, item |-> i, key |-> tx.key,
                            amount |-> tx.shares[i], cumulative |-> target]}
                     /\ tx' = [tx EXCEPT !.items = @ \ {i}, !.item = i,
                                         !.target = target,
                                         !.todo = AccrualsOf(tx.order, i)]
                ELSE /\ tx' = [tx EXCEPT !.items = @ \ {i}]
                     /\ UNCHANGED vouchers
  /\ UNCHANGED <<accounts, ledger, commissions, undo, clock, beat>>

WantReversedRounded(c) ==  \* mutant: rounded in the platform's favour
  MulDiv(commissions[c].amount, tx.target, commissions[c].base, "half-up")

(* reversalDelta: the total this row should have been reversed by, once    *)
(* tx.target of the item's base has been refunded.                         *)
WantReversed(c) ==
  LET want == MulDiv(commissions[c].amount, tx.target, commissions[c].base, "down")
  IN  IF want > commissions[c].amount THEN commissions[c].amount ELSE want

NextToReverse(c) ==
  /\ tx.op = "refund"
  /\ c \in tx.todo
  /\ \A d \in tx.todo : commissions[c].layer <= commissions[d].layer

NeedsReversal(c) ==
  /\ ~Terminal(commissions[c].state)
  /\ WantReversed(c) > commissions[c].reversed
  /\ ~ReversalExists(c, WantReversed(c))

ReverseLayer(c) ==
  /\ NextToReverse(c)
  /\ NeedsReversal(c)
  /\ CanClawBack(c, WantReversed(c))
  /\ ClawBack(c, WantReversed(c), "reversed", "reverse")
  /\ tx' = [tx EXCEPT !.todo = @ \ {c}]
  /\ UNCHANGED <<vouchers, undo, clock, beat>>

KeepLayer(c) ==
  /\ NextToReverse(c)
  /\ ~NeedsReversal(c)
  /\ tx' = [tx EXCEPT !.todo = @ \ {c}]
  /\ UNCHANGED <<storeVars, undo, clock, beat>>

(* The account cannot cover the clawback: the whole refund is refused.     *)
AbortRefund(c) ==
  /\ NextToReverse(c)
  /\ NeedsReversal(c)
  /\ ~CanClawBack(c, WantReversed(c))
  /\ Rollback
  /\ UNCHANGED <<clock, beat>>

CommitRefund ==
  /\ tx.op = "refund"
  /\ tx.items = {}
  /\ tx.todo = {}
  /\ Commit
  /\ UNCHANGED <<clock, beat>>

-----------------------------------------------------------------------------
(***************************************************************************)
(* Risk control                                                            *)
(***************************************************************************)

(* TransitionCommission of a row nobody changed since it was read.         *)
Transition(c, from, to) ==
  /\ commissions[c].state = from
  /\ to \in CommissionTransitions[from]
  /\ commissions' = [commissions EXCEPT ![c].state = to]

FreezeCommission(c) ==
  /\ Unlocked
  /\ Transition(c, "pending", "frozen")
  /\ UNCHANGED <<accounts, ledger, vouchers, clock, tx, undo, beat>>

UnfreezeCommission(c) ==
  /\ Unlocked
  /\ Transition(c, "frozen", "pending")
  /\ UNCHANGED <<accounts, ledger, vouchers, clock, tx, undo, beat>>

(* The whole outstanding amount is forfeited.                              *)
VoidCommission(c) ==
  /\ Unlocked
  /\ commissions[c].state \in {"pending", "frozen"}
  /\ Outstanding(commissions[c]) > 0
  /\ ~ReversalExists(c, commissions[c].amount)
  /\ CanClawBack(c, commissions[c].amount)
  /\ ClawBack(c, commissions[c].amount, "void", "void")
  /\ UNCHANGED <<vouchers, clock, tx, undo, beat>>

-----------------------------------------------------------------------------
(***************************************************************************)
(* Maintain: the heartbeat that settles what is due                        *)
(***************************************************************************)

NoBeat == [phase |-> "idle", now |-> 0, round |-> 0, tenants |-> {},
           tenantRound |-> 0, budget |-> 0, progressed |-> FALSE]

Due(at) ==
  {c \in DOMAIN commissions :
     commissions[c].state = "pending" /\ DueAt(commissions[c], at)}

DueBefore(c, d) ==
  \/ commissions[c].availableAt < commissions[d].availableAt
  \/ commissions[c].availableAt = commissions[d].availableAt /\ c < d

(* The first rows of a set, in the order they fall due.                    *)
Earliest(S, limit) == {c \in S : Cardinality({d \in S : DueBefore(d, c)}) < limit}

(* Reader.DueWork: the earliest due rows of all tenants together.          *)
DueWork(at) == Earliest(Due(at), MaintainWorkBatch)

DueCommissionsBefore(t, at, limit) ==  \* mutant: strictly before now
  Earliest({c \in Due(at) : /\ TenantOf[commissions[c].order] = t
                            /\ commissions[c].availableAt < at}, limit)

(* Reader.DueCommissions: the earliest due rows of one tenant.             *)
DueCommissions(t, at, limit) ==
  Earliest({c \in Due(at) : TenantOf[commissions[c].order] = t}, limit)

(* The call reads the clock once; every round works with that time.        *)
MaintainStart ==
  /\ beat.phase = "idle"
  /\ beat' = [NoBeat EXCEPT !.phase = "scan", !.now = clock,
                            !.budget = MaxSettlePerMaintain]
  /\ UNCHANGED <<storeVars, clock, tx, undo>>

(* dueWork and groupByTenant: a read of its own that finds which tenants   *)
(* have work; the call ends when none has, or after its last round.        *)
MaintainScan ==
  /\ Unlocked
  /\ beat.phase = "scan"
  /\ beat' =
       IF beat.round = MaxMaintainRounds \/ beat.budget = 0 \/ DueWork(beat.now) = {}
         THEN NoBeat
         ELSE [beat EXCEPT !.phase = "tenants", !.progressed = FALSE,
                 !.tenants = {TenantOf[commissions[c].order] : c \in DueWork(beat.now)}]
  /\ UNCHANGED <<storeVars, clock, tx, undo>>

(* The tenant at hand: the tenants of a round are taken in order.          *)
Serves(t) == t \in beat.tenants /\ \A u \in beat.tenants : t <= u

PermitsBatch == MaintainBatch  \* mutant: the read is not bounded by the budget

Permits == IF beat.budget < MaintainBatch THEN beat.budget ELSE MaintainBatch

(* One batch of a tenant is one transaction.  A row with nothing left to   *)
(* settle would be a corrupt record: it is passed over (quarantined).      *)
MaintainTenant(t) ==
  /\ beat.phase = "tenants"
  /\ Serves(t)
  /\ beat.budget > 0
  /\ beat.tenantRound < MaxMaintainRounds
  /\ Begin([op |-> "settle", count |-> 0,
            todo |-> {c \in DueCommissions(t, beat.now, Permits) :
                        Outstanding(commissions[c]) > 0}])
  /\ UNCHANGED <<clock, beat>>

NextToSettle(c) ==
  /\ tx.op = "settle"
  /\ c \in tx.todo
  /\ \A d \in tx.todo \ {c} : DueBefore(c, d)

SettleDelta(amount) == MoveDelta("frozen", "available", amount)

(* settleOne: what is outstanding of the row becomes withdrawable.         *)
SettleOne(c) ==
  LET amount == Outstanding(commissions[c])
  IN  /\ NextToSettle(c)
      /\ Accepts(commissions[c].agent, SettleDelta(amount), TRUE)
      /\ Transition(c, "pending", "settled")
      /\ Post(commissions[c].agent, SettleDelta(amount), "settle", c,
              Moves("frozen", "available", amount))
      /\ tx' = [tx EXCEPT !.todo = @ \ {c}, !.count = @ + 1]
      /\ UNCHANGED <<vouchers, undo, clock, beat>>

NextTenant == [beat EXCEPT !.tenants = {t \in @ : ~Serves(t)}, !.tenantRound = 0]

(* One row of the batch is refused: the batch is rolled back, the tenant   *)
(* is reported as failed and the next one gets its turn.                   *)
AbortBatch(c) ==
  /\ NextToSettle(c)
  /\ ~Accepts(commissions[c].agent, SettleDelta(Outstanding(commissions[c])), TRUE)
  /\ Rollback
  /\ beat' = NextTenant
  /\ UNCHANGED clock

(* The batch commits and is charged to the budget; a batch without         *)
(* progress ends the tenant's turn.                                        *)
CommitBatch ==
  /\ tx.op = "settle"
  /\ tx.todo = {}
  /\ beat' = IF tx.count = 0
               THEN NextTenant
               ELSE [beat EXCEPT !.tenantRound = @ + 1, !.progressed = TRUE,
                       !.budget = IF @ < tx.count THEN 0 ELSE @ - tx.count]
  /\ Commit
  /\ UNCHANGED clock

(* maintainTenant used up its rounds.                                      *)
TenantRoundsSpent ==
  /\ Unlocked
  /\ beat.phase = "tenants"
  /\ beat.tenants # {}
  /\ beat.budget > 0
  /\ beat.tenantRound = MaxMaintainRounds
  /\ beat' = NextTenant
  /\ UNCHANGED <<storeVars, clock, tx, undo>>

(* All tenants had their turn, or the budget is spent: scan again if any   *)
(* tenant progressed, otherwise every remaining row is stuck.              *)
RoundEnds ==
  /\ Unlocked
  /\ beat.phase = "tenants"
  /\ beat.tenants = {} \/ beat.budget = 0
  /\ beat' = IF beat.progressed
               THEN [beat EXCEPT !.phase = "scan", !.round = @ + 1,
                                 !.tenants = {}, !.tenantRound = 0]
               ELSE NoBeat
  /\ UNCHANGED <<storeVars, clock, tx, undo>>

-----------------------------------------------------------------------------

Tick ==
  /\ clock < MaxTime
  /\ clock' = clock + 1
  /\ UNCHANGED <<storeVars, tx, undo, beat>>

EngineInit ==
  /\ BooksInit
  /\ commissions = << >>
  /\ vouchers = {}
  /\ clock = 0
  /\ tx = Idle
  /\ undo = NoUndo
  /\ beat = NoBeat

(* The steps of a transaction that holds the lock.                         *)
TxStep ==
  \/ \E rate \in Rates : AccrueLayer(rate) \/ AbortAccrual(rate)
  \/ SkipLayer
  \/ NextBase
  \/ \E i \in AllItems : RefundItem(i)
  \/ \E c \in DOMAIN commissions :
       \/ ReverseLayer(c)
       \/ KeepLayer(c)
       \/ AbortRefund(c)
       \/ SettleOne(c)
       \/ AbortBatch(c)
  \/ CommitRefund
  \/ CommitBatch

(* The heartbeat between its transactions.                                 *)
BeatStep ==
  \/ MaintainStart
  \/ MaintainScan
  \/ \E t \in Tenants : MaintainTenant(t)
  \/ TenantRoundsSpent
  \/ RoundEnds

(* Events of the business system and decisions of its operators.           *)
Events ==
  \/ \E o \in Orders :
       \/ OnOrderPaid(o)
       \/ \E at \in ReceiptTimes : OnOrderReceived(o, at)
       \/ \E key \in RefundKeys, ev \in RefundEvents : OnOrderRefunded(o, key, ev)
  \/ \E c \in DOMAIN commissions :
       FreezeCommission(c) \/ UnfreezeCommission(c) \/ VoidCommission(c)

EngineNext == TxStep \/ BeatStep \/ Events \/ Tick

EngineSpec == EngineInit /\ [][EngineNext]_engineVars

(* A transaction runs to its end once it has the lock; the scheduler calls *)
(* Maintain again and again, and a call goes on; a waiting call does get   *)
(* the lock although others take it in between (Go's RWMutex does not      *)
(* starve a writer, and neither does a row lock queue).                    *)
EngineFairness ==
  /\ WF_engineVars(TxStep)
  /\ SF_engineVars(BeatStep)

FairEngineSpec == EngineSpec /\ EngineFairness

-----------------------------------------------------------------------------
(***************************************************************************)
(* Properties                                                              *)
(***************************************************************************)

PaidTx == [op : {"paid"}, order : Orders, freezeDays : Nat, item : Nat \ {0}, layer : Nat,
           agent : Agents \cup {NoAgent}, allocated : Int]

RefundTx == [op : {"refund"}, order : Orders, key : RefundKeys,
             shares : [AllItems -> Nat],
             items : SUBSET Nat, item : Nat, target : Nat, todo : SUBSET Nat]

SettleTx == [op : {"settle"}, count : Nat, todo : SUBSET Nat]

Beat == [phase : {"idle", "scan", "tenants"}, now : Nat, round : Nat,
         tenants : SUBSET Nat, tenantRound : Nat, budget : Nat,
         progressed : BOOLEAN]

StoreTypeOK(acc, led, coms, vous) ==
  /\ BooksTypeOK(acc, led)
  /\ coms \in Seq(Commission)
  /\ vous \subseteq Voucher

(* No transaction is open, or one is and it can be undone; a refund works  *)
(* on line items that have accruals.                                       *)
TxTypeOK ==
  \/ tx = Idle /\ undo = NoUndo
  \/ /\ tx \in PaidTx \cup RefundTx \cup SettleTx
     /\ StoreTypeOK(undo.accounts, undo.ledger, undo.commissions, undo.vouchers)
     /\ tx.op = "refund" => tx.items \subseteq AccrualItems(tx.order)

(* Every row, every transaction record and every snapshot has the shape    *)
(* the engine gives it.                                                    *)
EngineTypeOK ==
  /\ StoreTypeOK(accounts, ledger, commissions, vouchers)
  /\ TxTypeOK
  /\ clock \in 0 .. MaxTime
  /\ beat \in Beat

Rows(k, states) ==
  {c \in DOMAIN commissions :
     /\ commissions[c].agent = k
     /\ commissions[c].amount > 0
     /\ commissions[c].state \in states}

OutstandingOf(k, states) ==
  SumFunctionOnSet([c \in DOMAIN commissions |-> Outstanding(commissions[c])],
                   Rows(k, states))

(* The frozen bucket holds exactly what is outstanding of the agent's      *)
(* unsettled commissions; the other buckets together hold exactly what is  *)
(* outstanding of the settled ones, whatever was withdrawn of it and       *)
(* however settlement, freezing, refunds and voiding interleave: no cent   *)
(* is settled twice, clawed back twice or left behind (settleOne,          *)
(* clawBack, creditAccrual).                                               *)
MoneyBacked ==
  \A k \in Agents :
    /\ accounts[k]["frozen"] = OutstandingOf(k, {"pending", "frozen"})
    /\ accounts[k]["available"] + accounts[k]["withdrawing"] + accounts[k]["withdrawn"]
         = OutstandingOf(k, {"settled"})

(* The account of every agent is the sum of its ledger at every point of   *)
(* its history (SelfCheck I1).                                             *)
BooksBalance == LedgerChain(accounts, ledger)

ReversedBy(c) ==
  SumFunctionOnSet([r \in DOMAIN commissions |-> -commissions[r].amount],
                   {r \in DOMAIN commissions : commissions[r].reverseOf = c})

(* SelfCheck I3: a row's accumulator is the sum of the reversal rows that  *)
(* point at it, never more than was accrued, the row is in a final state   *)
(* exactly when nothing is left of it, and the account's gross totals are  *)
(* the roll-up of the agent's rows.                                        *)
ReversalsReconcile ==
  /\ \A c \in DOMAIN commissions :
       commissions[c].amount > 0 =>
         /\ commissions[c].reversed = ReversedBy(c)
         /\ commissions[c].reversed <= commissions[c].amount
         /\ FullyReversed(commissions[c]) <=> Terminal(commissions[c].state)
  /\ \A k \in Agents :
       LET mine == Rows(k, CommissionStates)
       IN  /\ accounts[k]["totalEarned"] =
                SumFunctionOnSet([c \in DOMAIN commissions |-> commissions[c].amount], mine)
           /\ accounts[k]["totalReversed"] =
                SumFunctionOnSet([c \in DOMAIN commissions |-> commissions[c].reversed], mine)

Refunded(o, i) == Max(Cumulatives(o, i))

(* Instalments do not matter: once refunds totalling R of an item's base B *)
(* have been vouched for, exactly the floor of amount * R / B of every     *)
(* commission on it has been reversed, as one refund of R would have done, *)
(* whatever happened in between; only a voided commission is exempt        *)
(* (reversalDelta).                                                        *)
RefundsProportional ==
  Unlocked =>
    \A c \in DOMAIN commissions :
      commissions[c].amount > 0 /\ commissions[c].state # "void" =>
        commissions[c].reversed =
          (commissions[c].amount * Refunded(commissions[c].order, commissions[c].item))
            \div commissions[c].base

(* SelfCheck I2: the layers of one line item together never get more than  *)
(* the cap allows, whatever the rate source answers (accrueBase).          *)
AllocationCapped ==
  \A o \in Orders : \A i \in AccrualItems(o) :
    SumFunctionOnSet([c \in DOMAIN commissions |-> commissions[c].amount], AccrualsOf(o, i))
      <= ApplyRate(BaseOf(o, i), MaxAllocatableBP, "down")

(* No bucket but the withdrawable one is ever negative, and that one only  *)
(* under the debt policy (debitBucket); no column leaves the machine       *)
(* integer's range (AccountDelta.Apply).                                   *)
BalancesSound == NoUnallowedDebt(accounts, AllowNegative) /\ WithinWidth(accounts)

(* A commission settles only when its promised date has come, and the date *)
(* never moves once it is fixed: a replayed receipt does not pull it       *)
(* forward, a later change of the freeze window does not push it back      *)
(* (OnOrderReceived, Maintain).                                            *)
SettlementDateKept ==
  [][\A c \in DOMAIN commissions \cap DOMAIN commissions' :
       /\ commissions[c].state # "settled" /\ commissions'[c].state = "settled"
            => commissions[c].availableAt \in 0 .. clock
       /\ commissions[c].availableAt # Unset
            => commissions'[c].availableAt = commissions[c].availableAt]_engineVars

CommittedLedger == IF Unlocked THEN ledger ELSE undo.ledger

CommittedRows == IF Unlocked THEN commissions ELSE undo.commissions

CommittedVouchers == IF Unlocked THEN vouchers ELSE undo.vouchers

SameFinancials(r, s) ==
  /\ <<r.order, r.item, r.agent, r.layer, r.base, r.amount, r.freezeDays>>
       = <<s.order, s.item, s.agent, s.layer, s.base, s.amount, s.freezeDays>>
  /\ r.reversed <= s.reversed
  /\ Terminal(r.state) => s.state = r.state

(* What was once committed is history: no ledger entry is ever changed or  *)
(* removed, no commission row disappears or changes its financial fields,  *)
(* its reversed total never shrinks and a final state is final, and no     *)
(* refund voucher goes or changes, also when a transaction fails half-way  *)
(* (Store.Update, ADR-004).                                                *)
HistoryKept ==
  [][/\ \A k \in Agents :
          /\ Len(CommittedLedger[k]) <= Len(CommittedLedger'[k])
          /\ \A i \in DOMAIN CommittedLedger[k] :
               CommittedLedger'[k][i] = CommittedLedger[k][i]
     /\ Len(CommittedRows) <= Len(CommittedRows')
     /\ \A c \in DOMAIN CommittedRows :
          SameFinancials(CommittedRows[c], CommittedRows'[c])
     /\ CommittedVouchers \subseteq CommittedVouchers']_engineVars

NewlySettled ==
  {c \in DOMAIN CommittedRows' :
     /\ CommittedRows'[c].state = "settled"
     /\ c \in DOMAIN CommittedRows => CommittedRows[c].state # "settled"}

(* The work budget of a Maintain call is charged for exactly the           *)
(* commissions it settles, when their batch commits and never for a batch  *)
(* that was rolled back, so that one call never settles more than          *)
(* MaxSettlePerMaintain of them, over however many tenants and rounds      *)
(* (workBudget).                                                           *)
BudgetCharged ==
  [][Cardinality(NewlySettled) =
       (IF beat.phase = "tenants" /\ beat'.phase = "tenants"
          THEN beat.budget - beat'.budget
          ELSE 0)]_engineVars

Freezes ==
  \E c \in DOMAIN commissions \cap DOMAIN commissions' :
    commissions[c].state = "pending" /\ commissions'[c].state = "frozen"

(* Nothing that is due stays due for ever: once the operators have stopped *)
(* freezing rows, the heartbeat settles every pending commission whose     *)
(* date has come, whatever the tenant's other rows and the other tenants   *)
(* do, unless a refund takes it out first (Maintain; its budget, its       *)
(* rounds and its bounded scan only postpone).                             *)
DueSettles ==
  <>[][~Freezes]_engineVars =>
    \A o \in Orders : \A i \in AllItems :
      LET Waiting == \E c \in Due(clock) :
                       commissions[c].order = o /\ commissions[c].item = i
      IN  Waiting ~> ~Waiting

Distributed(o, ev) ==
  SumFunctionOnSet(RefundShares(o, ev), AccrualItems(o))

(* A whole-order refund never claws back for more than was refunded, and   *)
(* no item for more than its base (refundShares).                          *)
RefundNotExceeded ==
  \A o \in Orders : \A ev \in RefundEvents :
    ev.kind = "amount" /\ Accruals(o) # {} =>
      /\ Distributed(o, ev) <= ev.amount
      /\ \A i \in AccrualItems(o) : RefundShares(o, ev)[i] <= BaseOf(o, i)

=============================================================================
