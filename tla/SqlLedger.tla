----------------------------- MODULE SqlLedger -----------------------------
(***************************************************************************)
(* The ledger's operations as the transactions they run on the SQL store,  *)
(* statement by statement.  The module Commissions describes the same      *)
(* operations over a store that runs one transaction at a time; here calls *)
(* interleave, so every value an operation read may be stale when it uses  *)
(* it, and a write it lost (a version conflict, a duplicate key) is        *)
(* answered the way the code answers it: skipped, ignored or returned.     *)
(*                                                                         *)
(* Who earns what of an order is a constant (Plan); dates are reduced to   *)
(* "has a settlement date", and every date has passed.  A commission row   *)
(* is named by its idempotency key.                                        *)
(***************************************************************************)
EXTENDS SqlStore

CONSTANTS
  Orders,         \* order keys
  Base,           \* Base[o]: the commission base of order o
  Plan,           \* Plan[o]: the agents order o pays, layer by layer
  AllowNegative   \* Rules.AllowNegative, the debt policy

(* What a caller can ask for.  Nothing is known of the keys it names.      *)
WellFormed(req) ==
  /\ req.op \in {"paid", "received", "maintain", "refunded", "void", "risk",
                 "withdraw", "payout", "reject", "check"}
  /\ req.op \in {"paid", "received", "refunded"} => req.order \in Orders
  /\ req.op = "withdraw" => req.agent \in Agents
  /\ req.op \in {"refunded", "withdraw"} => req.amount \in Nat \ {0}
  /\ req.op = "risk" =>
       <<req.from, req.to>> \in {<<"pending", "frozen">>, <<"frozen", "pending">>}

(* An agent is on one layer of an order at most: a chain has no cycle.     *)
ASSUME SqlLedgerAssumption ==
  /\ Base \in [Orders -> Nat \ {0}]
  /\ Plan \in [Orders -> Seq([agent : Agents, amount : Nat \ {0}])]
  /\ \A o \in Orders : \A i, j \in DOMAIN Plan[o] :
       /\ Plan[o][i].amount <= Base[o]
       /\ i # j => Plan[o][i].agent # Plan[o][j].agent
  /\ AllowNegative \in BOOLEAN
  /\ \A s \in Scenarios : \A t \in DOMAIN s : WellFormed(s[t])

Req(t) == call[t].req

Head1(t) == call[t].todo[1]

(* The loop of the operation goes on behind its current row.               *)
Skip(t) == [call[t] EXCEPT !.todo = Tail(@)]
SkipTo(t, pc) == [call[t] EXCEPT !.pc = pc, !.todo = Tail(@), !.inc = NoInc]

Increment(t, key, delta, guard, biz, ref) ==
  [call[t] EXCEPT !.pc = "update",
     !.inc = [key |-> key, delta |-> delta, guard |-> guard, second |-> FALSE,
              biz |-> biz, ref |-> ref]]

AccrualKey(o, k) == <<"accrue", o, k>>
ReversalKey(o, k, target) == <<"reverse", o, k, target>>

Accruals(o, f) ==
  {id \in RowsOf("commission", f) : id[2][1] = "accrue" /\ id[2][2] = o}

Reversals(o, k, f) ==
  {id \in RowsOf("commission", f) :
     id[2][1] = "reverse" /\ id[2][2] = o /\ id[2][3] = k}

AllCommissions(o, f) == {id \in RowsOf("commission", f) : id[2][2] = o}

(* A commission row as it was read, with its id.                           *)
Copies(ids, f) == {[id |-> id, row |-> f[id]] : id \in ids}

(* The orders in which a query sorted by layer may return rows.            *)
ByLayer(S) ==
  {s \in SetToSeqs(S) :
     \A i, j \in DOMAIN s : i < j => s[i].row.layer <= s[j].row.layer}

Outstanding(row) == row.amount - row.reversed

-----------------------------------------------------------------------------
(***************************************************************************)
(* OnOrderPaid                                                             *)
(***************************************************************************)

OnOrderPaid(t) ==
  LET o == Req(t).order
  IN  /\ Req(t).op = "paid"
      /\ Begins(t)
      /\ IF AllCommissions(o, rows) # {}
         THEN Answer(t, "replayed")
         ELSE /\ Go(t, Opened(t, "accrue",
                     [i \in DOMAIN Plan[o] |->
                        [layer |-> i, agent |-> Plan[o][i].agent,
                         amount |-> Plan[o][i].amount]]))
              /\ UNCHANGED <<engine, rows, dirty>>

AccrueBaseCreditingAgain(t) ==  \* mutant: a duplicate is credited as well
  LET o == Req(t).order
      x == Head1(t)
      row == [layer |-> x.layer, agent |-> x.agent, amount |-> x.amount,
              reversed |-> 0, state |-> "pending", dated |-> FALSE, version |-> 1]
      credit == Increment(t, x.agent,
                  [NoDelta EXCEPT !["frozen"] = x.amount, !["totalEarned"] = x.amount],
                  FALSE, "accrue", AccrualKey(o, x.agent))
  IN  /\ call[t].pc = "accrue"
      /\ call[t].todo # << >>
      /\ Insert(t, <<"commission", AccrualKey(o, x.agent)>>, row, credit, credit)

(* One layer of accrueBase: AppendCommission and, unless the row was there *)
(* already, creditAccrual.                                                 *)
AccrueBase(t) ==
  LET o == Req(t).order
      x == Head1(t)
      row == [layer |-> x.layer, agent |-> x.agent, amount |-> x.amount,
              reversed |-> 0, state |-> "pending", dated |-> FALSE, version |-> 1]
      credit == Increment(t, x.agent,
                  [NoDelta EXCEPT !["frozen"] = x.amount, !["totalEarned"] = x.amount],
                  FALSE, "accrue", AccrualKey(o, x.agent))
  IN  /\ call[t].pc = "accrue"
      /\ call[t].todo # << >>
      /\ Insert(t, <<"commission", AccrualKey(o, x.agent)>>, row, credit, Skip(t))

-----------------------------------------------------------------------------
(***************************************************************************)
(* OnOrderReceived                                                         *)
(***************************************************************************)

OnOrderReceived(t) ==
  LET o == Req(t).order
      open == {id \in Accruals(o, rows) :
                 rows[id].state \in {"pending", "frozen"} /\ ~rows[id].dated}
  IN  /\ Req(t).op = "received"
      /\ Begins(t)
      /\ IF open = {}
         THEN Answer(t, "skipped")
         ELSE \E s \in ByLayer(Copies(open, rows)) :
                /\ Go(t, Opened(t, "date", s))
                /\ UNCHANGED <<engine, rows, dirty>>

(* First writer wins, and a row whose version has moved is skipped as if   *)
(* another delivery had dated it.                                          *)
SetCommissionAvailableAt(t) ==
  LET x == Head1(t)
      cur == Current(t, x.id)
  IN  /\ call[t].pc = "date"
      /\ call[t].todo # << >>
      /\ UpdateRow(t, x.id, ~cur.dated /\ cur.version = x.row.version,
                   [cur EXCEPT !.dated = TRUE, !.version = @ + 1],
                   Skip(t), Skip(t))

-----------------------------------------------------------------------------
(***************************************************************************)
(* Maintain, one batch of one tenant                                       *)
(***************************************************************************)

(* DueCommissions orders by date and id; the ids of rows depend on the     *)
(* order they were inserted in, so any order is possible.                  *)
MaintainTenant(t) ==
  LET due == {id \in RowsOf("commission", rows) :
                /\ id[2][1] = "accrue"
                /\ rows[id].state = "pending" /\ rows[id].dated}
  IN  /\ Req(t).op = "maintain"
      /\ Begins(t)
      /\ IF due = {}
         THEN Answer(t, "skipped")
         ELSE \E s \in SetToSeqs(Copies(due, rows)) :
                /\ Go(t, Opened(t, "settle", s))
                /\ UNCHANGED <<engine, rows, dirty>>

SettleOneAnyVersion(t) ==  \* mutant: the compare-and-swap without the version
  LET x == Head1(t)
      cur == Current(t, x.id)
      out == Outstanding(x.row)
  IN  /\ call[t].pc = "settle"
      /\ call[t].todo # << >>
      /\ UpdateRow(t, x.id, cur.state = "pending",
                   [cur EXCEPT !.state = "settled", !.version = @ + 1],
                   Increment(t, x.row.agent, MoveDelta("frozen", "available", out),
                             TRUE, "settle", x.id[2]),
                   Skip(t))

(* settleOne: TransitionCommission compares state and version; a row that  *)
(* has moved is skipped.                                                   *)
SettleOne(t) ==
  LET x == Head1(t)
      cur == Current(t, x.id)
      out == Outstanding(x.row)
  IN  /\ call[t].pc = "settle"
      /\ call[t].todo # << >>
      /\ UpdateRow(t, x.id, cur.state = "pending" /\ cur.version = x.row.version,
                   [cur EXCEPT !.state = "settled", !.version = @ + 1],
                   Increment(t, x.row.agent, MoveDelta("frozen", "available", out),
                             TRUE, "settle", x.id[2]),
                   Skip(t))

-----------------------------------------------------------------------------
(***************************************************************************)
(* OnOrderRefunded and VoidCommission                                      *)
(***************************************************************************)

OnOrderRefunded(t) ==
  LET o == Req(t).order
  IN  /\ Req(t).op = "refunded"
      /\ Begins(t)
      /\ IF AllCommissions(o, rows) = {}
         THEN Answer(t, "skipped")
         ELSE \E s \in ByLayer(Copies(Accruals(o, rows), rows)) :
                /\ Go(t, Opened(t, "vouchers", s))
                /\ UNCHANGED <<engine, rows, dirty>>

Vouchers(o, f) == {id \in RowsOf("refund", f) : id[2][1] = o}

Cumulative(o, f) == Max({0} \cup {f[id].cumulative : id \in Vouchers(o, f)})

(* reversalDelta: what a commission must have been reversed by, in total.  *)
WantReversed(row, target, base) == (row.amount * target) \div base

(* cumulativeRefunds is a SELECT of its own.                               *)
CumulativeRefunds(t) ==
  LET o == Req(t).order
      cum == Cumulative(o, View(t))
      target == Min({cum + Req(t).amount, Base[o]})
  IN  /\ call[t].pc = "vouchers"
      /\ IF target <= cum
         THEN Answer(t, "ok")
         ELSE /\ Go(t, [call[t] EXCEPT !.pc = "voucher", !.sum = target])
              /\ UNCHANGED <<engine, rows, dirty>>

(* AppendRefund; a voucher that is there already ends the call.  The rows  *)
(* reverseItem will pass over, judged by what was read, are left out.      *)
AppendRefund(t) ==
  LET o == Req(t).order
      target == call[t].sum
      left == {x \in Range(call[t].todo) :
                 /\ x.row.state \notin {"reversed", "void"}
                 /\ WantReversed(x.row, target, Base[o]) > x.row.reversed}
  IN  /\ call[t].pc = "voucher"
      /\ \E s \in ByLayer(left) :
           Insert(t, <<"refund", <<o, Req(t).key>>>>,
                  [amount |-> Req(t).amount, cumulative |-> target],
                  [call[t] EXCEPT !.pc = "claw", !.todo = s],
                  [call[t] EXCEPT !.pc = "claw", !.todo = << >>])

VoidCommission(t) ==
  LET id == <<"commission", Req(t).key>>
  IN  /\ Req(t).op = "void"
      /\ Begins(t)
      /\ IF id \in DOMAIN rows /\ rows[id].state \in {"pending", "frozen"}
         THEN /\ Go(t, Opened(t, "claw", <<[id |-> id, row |-> rows[id]]>>))
              /\ UNCHANGED <<engine, rows, dirty>>
         ELSE Answer(t, "refused")

(* A void forfeits what is left, a refund what the cumulative refund asks. *)
Target(t, row) ==
  IF Req(t).op = "void" THEN row.amount
  ELSE WantReversed(row, call[t].sum, Base[Req(t).order])

Terminal(t) == IF Req(t).op = "void" THEN "void" ELSE "reversed"

ClawBackOfTotal(t) ==  \* mutant: the reversal row carries the total
  LET x == Head1(t)
      target == Target(t, x.row)
      key == ReversalKey(x.id[2][2], x.row.agent, target)
  IN  /\ call[t].pc = "claw"
      /\ call[t].todo # << >>
      /\ Insert(t, <<"commission", key>>,
                [layer |-> x.row.layer, agent |-> x.row.agent, amount |-> -target,
                 state |-> "reversed"],
                At(t, "accumulate"), Skip(t))

(* clawBack appends the reversal row first.  Its key names the total       *)
(* reached, and a key that is there means "already applied".               *)
ClawBack(t) ==
  LET x == Head1(t)
      target == Target(t, x.row)
      key == ReversalKey(x.id[2][2], x.row.agent, target)
  IN  /\ call[t].pc = "claw"
      /\ call[t].todo # << >>
      /\ Insert(t, <<"commission", key>>,
                [layer |-> x.row.layer, agent |-> x.row.agent,
                 amount |-> x.row.reversed - target, state |-> "reversed"],
                At(t, "accumulate"), Skip(t))

ReversalBucket(state) == IF state = "settled" THEN "available" ELSE "frozen"

(* SetCommissionReversedAmount compares the version; a fully reversed row  *)
(* moves to its terminal state under the same lock.  That a mismatch is    *)
(* answered without an error where the row has the target already cannot   *)
(* be reached from here: the call that brought it there inserted the       *)
(* reversal row whose key names the target, and ClawBack stops at it.      *)
ReversedRow(cur, t, x, target) ==
  [hit |-> cur.version = x.row.version /\ target <= cur.amount,
   row |-> [cur EXCEPT !.reversed = target, !.version = @ + 1,
                       !.state = IF target = cur.amount THEN Terminal(t) ELSE @]]

SetCommissionReversedAmount(t) ==
  LET x == Head1(t)
      target == Target(t, x.row)
      to == ReversedRow(Current(t, x.id), t, x, target)
      delta == [NoDelta EXCEPT ![ReversalBucket(x.row.state)] = x.row.reversed - target,
                               !["totalReversed"] = target - x.row.reversed]
      debit == Increment(t, x.row.agent, delta, TRUE,
                         IF Req(t).op = "void" THEN "void" ELSE "reverse",
                         ReversalKey(x.id[2][2], x.row.agent, target))
  IN  /\ call[t].pc = "accumulate"
      /\ \/ /\ ~UpdateWaits(t, x.id)
            /\ to.hit
            /\ UpdateRow(t, x.id, TRUE, to.row, debit, debit)
         \/ /\ ~UpdateWaits(t, x.id)
            /\ ~to.hit
            /\ FailWith(t, "conflict")

-----------------------------------------------------------------------------
(***************************************************************************)
(* FreezeCommission and UnfreezeCommission                                 *)
(***************************************************************************)

SetRisk(t) ==
  LET id == <<"commission", Req(t).key>>
  IN  /\ Req(t).op = "risk"
      /\ Begins(t)
      /\ IF id \in DOMAIN rows /\ rows[id].state = Req(t).from
         THEN /\ Go(t, Opened(t, "risk", <<[id |-> id, row |-> rows[id]]>>))
              /\ UNCHANGED <<engine, rows, dirty>>
         ELSE Answer(t, "refused")

TransitionRisk(t) ==
  LET x == Head1(t)
      cur == Current(t, x.id)
      hit == cur.state = Req(t).from /\ cur.version = x.row.version
  IN  /\ call[t].pc = "risk"
      /\ call[t].todo # << >>
      /\ ~UpdateWaits(t, x.id)
      /\ IF hit
         THEN UpdateRow(t, x.id, TRUE,
                [cur EXCEPT !.state = Req(t).to, !.version = @ + 1],
                Skip(t), Skip(t))
         ELSE FailWith(t, "conflict")

-----------------------------------------------------------------------------
(***************************************************************************)
(* Withdrawals: RequestWithdraw, and the two decisions that move the       *)
(* reserved money, settlePayout and RejectWithdraw.  Applied, approved and *)
(* pay_failed are one state here, "reserved"; the module Payouts tells     *)
(* them apart.                                                             *)
(***************************************************************************)

RequestWithdraw(t) ==
  /\ Req(t).op = "withdraw"
  /\ Begins(t)
  /\ IF <<"withdrawal", Req(t).key>> \in DOMAIN rows
     THEN Answer(t, "existed")
     ELSE /\ Go(t, Opened(t, "reserve", <<[hold |-> Req(t).key]>>))
          /\ UNCHANGED <<engine, rows, dirty>>

(* AppendWithdrawal.  The loser of a race reads the winner's row back,     *)
(* and finds it only if its SELECT sees what was committed meanwhile.      *)
AppendWithdrawal(t) ==
  LET id == <<"withdrawal", Req(t).key>>
      k == Req(t).agent
      n == Req(t).amount
  IN  /\ call[t].pc = "reserve"
      /\ call[t].todo # << >>
      /\ IF Exists(id) /\ ~InsertWaits(t, id)
         THEN FailWith(t, IF id \in DOMAIN View(t) THEN "existed" ELSE "notfound")
         ELSE Insert(t, id, [agent |-> k, amount |-> n, state |-> "reserved", version |-> 1],
                Increment(t, k, MoveDelta("available", "withdrawing", n), TRUE,
                          "withdraw_hold", Req(t).key),
                call[t])

(* Both decisions move the money and write the entry first, then advance   *)
(* the state.                                                              *)
DecideWithdraw(t) ==
  LET id == <<"withdrawal", Req(t).key>>
      paid == Req(t).op = "payout"
  IN  /\ Req(t).op \in {"payout", "reject"}
      /\ Begins(t)
      /\ IF id \in DOMAIN rows /\ rows[id].state = "reserved"
         THEN /\ Go(t, [Opened(t, "update", <<[id |-> id, row |-> rows[id]]>>) EXCEPT
                   !.inc = Increment(t, rows[id].agent,
                             MoveDelta("withdrawing", IF paid THEN "withdrawn" ELSE "available",
                                       rows[id].amount), TRUE,
                             IF paid THEN "withdraw_paid" ELSE "withdraw_refund",
                             Req(t).key).inc])
              /\ UNCHANGED <<engine, rows, dirty>>
         ELSE Answer(t, "refused")

TransitionAnyWithdrawal(t) ==  \* mutant: the state moves whatever it was
  LET x == Head1(t)
      cur == Current(t, x.id)
  IN  /\ call[t].pc = "decide"
      /\ ~UpdateWaits(t, x.id)
      /\ UpdateRow(t, x.id, TRUE,
           [cur EXCEPT !.state = IF Req(t).op = "payout" THEN "paid" ELSE "rejected",
                       !.version = @ + 1],
           SkipTo(t, "decided"), call[t])

TransitionWithdrawal(t) ==
  LET x == Head1(t)
      cur == Current(t, x.id)
      hit == cur.state = "reserved" /\ cur.version = x.row.version
  IN  /\ call[t].pc = "decide"
      /\ ~UpdateWaits(t, x.id)
      /\ IF hit
         THEN UpdateRow(t, x.id, TRUE,
                [cur EXCEPT !.state = IF Req(t).op = "payout" THEN "paid" ELSE "rejected",
                            !.version = @ + 1],
                SkipTo(t, "decided"), call[t])
         ELSE FailWith(t, "conflict")

-----------------------------------------------------------------------------
(***************************************************************************)
(* SelfCheck's I4 on a live database: three SELECTs of one View.           *)
(***************************************************************************)

SelfCheck(t) ==
  /\ Req(t).op = "check"
  /\ Begins(t)
  /\ Go(t, Opened(t, "withdrawals",
         <<[held |-> {rows[id].ref : id \in {x \in RowsOf("ledger", rows) :
                                               rows[x].biz = "withdraw_hold"}}]>>))
  /\ UNCHANGED <<engine, rows, dirty>>

CheckWithdrawals(t) ==
  LET seen == View(t)
      ids == RowsOf("withdrawal", seen)
      held == Head1(t).held
      reserved == {id \in ids : seen[id].state = "reserved"}
  IN  /\ call[t].pc = "withdrawals"
      /\ IF \E id \in ids : id[2] \notin held
         THEN Answer(t, "alarm")
         ELSE /\ Go(t, [call[t] EXCEPT !.pc = "ledger",
                   !.todo = <<[reserved |-> [k \in Agents |-> SumFunctionOnSet(
                      [id \in ids |-> seen[id].amount],
                      {id \in reserved : seen[id].agent = k})]]>>])
              /\ UNCHANGED <<engine, rows, dirty>>

CheckReserved(t) ==
  LET seen == View(t)
      agree == \A k \in Agents :
                 <<"account", k>> \in DOMAIN seen =>
                   seen[<<"account", k>>]["withdrawing"] = Head1(t).reserved[k]
  IN  /\ call[t].pc = "ledger"
      /\ Answer(t, IF agree THEN "clean" ELSE "alarm")

-----------------------------------------------------------------------------
(* What an operation makes of an increment that failed.  A clawback of     *)
(* settled money may go through as a debt; a settlement batch skips a      *)
(* conflict and goes on; everything else returns the error.                *)
Refused(t) ==
  LET why == IncrementError(t)
      debtAllowed == /\ why = "insufficient" /\ AllowNegative
                     /\ Req(t).op \in {"refunded", "void"}
                     /\ ReversalBucket(Head1(t).row.state) = "available"
  IN  /\ why # "none"
      /\ IF debtAllowed
         THEN /\ Go(t, [call[t] EXCEPT !.pc = "update", !.inc.guard = FALSE,
                                       !.inc.second = FALSE])
              /\ UNCHANGED <<engine, rows, dirty>>
         ELSE IF why = "conflict" /\ Req(t).op = "maintain"
         THEN Go(t, SkipTo(t, "settle")) /\ UNCHANGED <<engine, rows, dirty>>
         ELSE FailWith(t, why)

LoopOf(t) ==
  CASE Req(t).op = "paid" -> "accrue"
    [] Req(t).op = "maintain" -> "settle"
    [] Req(t).op \in {"refunded", "void"} -> "claw"
    [] Req(t).op = "withdraw" -> "reserve"
    [] OTHER -> "decide"

(* After the ledger entry a decision still has to advance the state.       *)
Booked(t) ==
  AppendLedger(t, IF LoopOf(t) = "decide" THEN At(t, "decide") ELSE SkipTo(t, LoopOf(t)))

Statement(t) ==
  \/ OnOrderPaid(t) \/ AccrueBase(t)
  \/ OnOrderReceived(t) \/ SetCommissionAvailableAt(t)
  \/ MaintainTenant(t) \/ SettleOne(t)
  \/ OnOrderRefunded(t) \/ CumulativeRefunds(t) \/ AppendRefund(t)
  \/ VoidCommission(t) \/ ClawBack(t) \/ SetCommissionReversedAmount(t)
  \/ SetRisk(t) \/ TransitionRisk(t)
  \/ RequestWithdraw(t) \/ AppendWithdrawal(t)
  \/ DecideWithdraw(t) \/ TransitionWithdrawal(t)
  \/ SelfCheck(t) \/ CheckWithdrawals(t) \/ CheckReserved(t)
  \/ UpdateAccount(t) \/ LookupAccount(t) \/ InsertAccount(t) \/ Refused(t)
  \/ Booked(t)
  \/ Commit(t)

Finished == \A t \in Calls : call[t].pc = "done"

SqlNext ==
  \/ \E t \in Calls : Statement(t) \/ Retry(t)
  \/ Finished /\ UNCHANGED sqlVars

SqlSpec == SqlInit /\ [][SqlNext]_sqlVars

(* The callers make their calls and the database keeps executing: while a  *)
(* call has not returned some statement runs or some transaction is given  *)
(* up.  Nothing is assumed about which.                                    *)
FairSqlSpec == SqlSpec /\ WF_sqlVars(\E t \in Calls : Statement(t) \/ Retry(t))

-----------------------------------------------------------------------------
(***************************************************************************)
(* Properties of the committed rows                                        *)
(***************************************************************************)

AccrualsOf(k) ==
  {id \in RowsOf("commission", rows) : id[2][1] = "accrue" /\ rows[id].agent = k}

SumOutstanding(k, states) ==
  SumFunctionOnSet([id \in AccrualsOf(k) |-> Outstanding(rows[id])],
                   {id \in AccrualsOf(k) : rows[id].state \in states})

(* What the plan of an order gives an agent.                               *)
Planned(o, k) ==
  SumFunctionOnSet([i \in DOMAIN Plan[o] |-> Plan[o][i].amount],
                   {i \in DOMAIN Plan[o] : Plan[o][i].agent = k})

(* The rows are well formed, every uncommitted row belongs to an open      *)
(* transaction, and no more transactions are open than the pool has.       *)
SqlTypeOK ==
  /\ engine \in Engines
  /\ \A id \in RowsOf("account", rows) : rows[id] \in Account
  /\ \A id \in RowsOf("commission", rows) :
       id[2][1] = "accrue" =>
         /\ rows[id].reversed \in 0 .. rows[id].amount
         /\ rows[id].state \in {"pending", "frozen", "settled", "reversed", "void"}
         /\ rows[id].version \in Nat \ {0}
  /\ \A id \in DOMAIN dirty : Open(dirty[id].by)
  /\ Cardinality({t \in Calls : Open(t)}) <= MaxOpen
  /\ \A t \in Calls : call[t].tries \in 0 .. MaxRetries

(* However calls interleave, each account is the sum of its ledger entries *)
(* in the order of their ids, and the last entry has its balances (I1 of   *)
(* SelfCheck on a SQL store): two transactions never build on the same     *)
(* balance (store/sql/write.go, IncrementAccount).                         *)
SqlBooksBalance ==
  \A k \in Agents : \A b \in Buckets :
    LET entries == CommittedLedger(k)
        Balance(ids) == IF ids = {} THEN 0 ELSE entries[Max(ids)].after[b]
    IN  /\ \A n \in DOMAIN entries :
             entries[n].after[b] =
               Balance({m \in DOMAIN entries : m < n}) + entries[n].delta[b]
        /\ CommittedAccount(k)[b] = Balance(DOMAIN entries)

(* However calls interleave, the frozen bucket is exactly what is          *)
(* outstanding on unsettled commissions and the other buckets what is      *)
(* outstanding on settled ones: no commission is settled, reversed or      *)
(* voided on the strength of a row that another call changed meanwhile.    *)
SqlMoneyBacked ==
  \A k \in Agents :
    LET a == CommittedAccount(k)
    IN  /\ a["frozen"] = SumOutstanding(k, {"pending", "frozen"})
        /\ a["available"] + a["withdrawing"] + a["withdrawn"]
             = SumOutstanding(k, {"settled"})

(* The accumulator of a commission is the sum of its reversal rows (I3),   *)
(* although the row is appended before the accumulator is compared.        *)
SqlReversalsReconcile ==
  \A id \in RowsOf("commission", rows) :
    id[2][1] = "accrue" =>
      rows[id].reversed =
        SumFunctionOnSet([r \in RowsOf("commission", rows) |-> -rows[r].amount],
                         Reversals(id[2][2], id[2][3], rows))

(* Racing deliveries of one payment, and a delivery that is retried after  *)
(* its transaction was given up, credit every layer once: an agent's       *)
(* lifetime earnings are what the plans of the accrued orders give.        *)
SqlEarnedOnce ==
  \A k \in Agents :
    CommittedAccount(k)["totalEarned"] =
      SumFunctionOnSet([o \in Orders |-> Planned(o, k)],
                       {o \in Orders : Accruals(o, rows) # {}})

(* The first bookings of an account may race each other without any of     *)
(* them failing (docs/fault-reviews, the first-create race): a payment     *)
(* event is never answered with a conflict.                                *)
FirstBookingAccepted ==
  \A t \in Calls : Req(t).op = "paid" => call[t].result # "conflict"

(* Two withdrawals, or a withdrawal and a clawback, never spend the same   *)
(* money: the guard is part of the UPDATE, so no bucket is ever committed  *)
(* below zero unless the rules allow the debt.                             *)
SqlNoOverdraft ==
  NoUnallowedDebt([k \in Agents |-> CommittedAccount(k)], AllowNegative)

(* A payout record and a rejection of one withdrawal that race each other  *)
(* have one winner: the state has its ledger entry and no other outcome    *)
(* has one.                                                                *)
DecidedOnce ==
  \A id \in RowsOf("withdrawal", rows) :
    {rows[e].biz : e \in {x \in RowsOf("ledger", rows) :
                            /\ rows[x].biz \in {"withdraw_paid", "withdraw_refund"}
                            /\ rows[x].ref = id[2]}}
      = CASE rows[id].state = "paid" -> {"withdraw_paid"}
          [] rows[id].state = "rejected" -> {"withdraw_refund"}
          [] OTHER -> {}

(* SelfCheck reads its pages from one snapshot where the engine gives a    *)
(* transaction one: operations that commit between two pages raise no      *)
(* false alarm.                                                            *)
SnapshotCheckClean ==
  engine = "mysql" => \A t \in Calls : call[t].result # "alarm"

(* Every call returns, in whatever order locks are taken: two transactions *)
(* that wait for each other are not stuck, and neither the two passes of   *)
(* IncrementAccount nor the attempts of Update go round for ever.          *)
CallsReturn == <>Finished

(* reversal.go: refunds may arrive in any order and in any number of       *)
(* instalments.  The refunds recorded for an order add up to the total     *)
(* clawed back for, up to the base.                                        *)
RefundsAddUp ==
  \A o \in Orders :
    Cumulative(o, rows) =
      Min({Base[o], SumFunctionOnSet([id \in Vouchers(o, rows) |-> rows[id].amount],
                                     Vouchers(o, rows))})

(* settle.go: a receipt fixes the settlement time of pending commissions;  *)
(* one that is skipped was handled by another delivery.  Once a receipt    *)
(* was accepted, no unsettled commission of the order is without a date.   *)
ReceiptTaken ==
  \A t \in Calls :
    Req(t).op = "received" /\ call[t].result = "ok" =>
      \A id \in Accruals(Req(t).order, rows) :
        rows[id].state \in {"pending", "frozen"} => rows[id].dated

=============================================================================
