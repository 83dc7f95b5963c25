------------------------------- MODULE MCSql -------------------------------
(***************************************************************************)
(* Small instances of the ledger on a SQL store.  A request says which     *)
(* calls have returned before it is made (after); all others may overlap   *)
(* with it.                                                                *)
(***************************************************************************)
EXTENDS SqlLedger

CONSTANTS a1, a2, o1, o2, o3

q1 == <<"withdraw", 1>>
q2 == <<"withdraw", 2>>

ThreeOrders == {o1, o2, o3}

(* Two orders pay the same two agents in opposite layer order, so that     *)
(* their transactions can deadlock on the accounts; one pays one agent.    *)
SmallPlans ==
  (o1 :> <<[agent |-> a1, amount |-> 2], [agent |-> a2, amount |-> 1]>>) @@
  (o2 :> <<[agent |-> a2, amount |-> 1], [agent |-> a1, amount |-> 1]>>) @@
  (o3 :> <<[agent |-> a1, amount |-> 2]>>)
SmallBases == (o1 :> 4) @@ (o2 :> 4) @@ (o3 :> 4)

Paid(o, S) == [op |-> "paid", order |-> o, after |-> S]
Received(o, S) == [op |-> "received", order |-> o, after |-> S]
Refunded(o, key, amount, S) ==
  [op |-> "refunded", order |-> o, key |-> key, amount |-> amount, after |-> S]
Void(o, k, S) == [op |-> "void", key |-> AccrualKey(o, k), after |-> S]
Freeze(o, k, S) ==
  [op |-> "risk", key |-> AccrualKey(o, k), from |-> "pending", to |-> "frozen",
   after |-> S]
Withdraw(key, k, n, S) ==
  [op |-> "withdraw", key |-> key, agent |-> k, amount |-> n, after |-> S]
Payout(key, S) == [op |-> "payout", key |-> key, after |-> S]
Reject(key, S) == [op |-> "reject", key |-> key, after |-> S]
Maintain(S) == [op |-> "maintain", after |-> S]
Check(S) == [op |-> "check", after |-> S]

(* A payment delivered twice, and another that books the same agents.      *)
Payments == <<Paid(o1, {}), Paid(o1, {}), Paid(o2, {})>>

(* A refund delivered twice while its order is received and settled.       *)
Refunds ==
  <<Paid(o1, {}), Received(o1, {1}), Refunded(o1, "r1", 2, {1}),
    Refunded(o1, "r1", 2, {2}), Maintain({2})>>

(* Two settlement batches and a refund.                                    *)
Batches ==
  <<Paid(o3, {}), Received(o3, {1}), Maintain({2}), Maintain({2}),
    Refunded(o3, "r1", 2, {2})>>

(* Risk control against a settlement batch and a refund, with other money  *)
(* in the account.                                                         *)
Risk ==
  <<Paid(o2, {}), Paid(o3, {1}), Received(o3, {2}), Maintain({3}),
    Freeze(o3, a1, {3}), Void(o3, a1, {3}), Refunded(o3, "r1", 2, {3})>>

(* A withdrawal requested twice, another that competes for the money and a *)
(* refund of the settled commission.                                       *)
Withdrawals ==
  <<Paid(o3, {}), Received(o3, {1}), Maintain({2}),
    Withdraw(q1, a1, 2, {3}), Withdraw(q1, a1, 2, {3}),
    Withdraw(q2, a1, 1, {3}), Refunded(o3, "r1", 2, {3})>>

(* A payout record and a rejection of one withdrawal, while another is     *)
(* reserved, and a check.                                                  *)
Decisions ==
  <<Paid(o3, {}), Received(o3, {1}), Maintain({2}),
    Withdraw(q2, a1, 1, {3}), Withdraw(q1, a1, 1, {4}),
    Payout(q1, {4}), Reject(q1, {4}), Check({3})>>

RaceScenarios == {Payments, Refunds, Batches, Risk, Withdrawals, Decisions}

(* Two different refunds of one order.                                     *)
RefundScenarios == {<<Paid(o3, {}), Refunded(o3, "r1", 2, {1}), Refunded(o3, "r2", 2, {1})>>}

(* The receipt of an order while risk control looks at one of its rows.    *)
ReceiptScenarios == {<<Paid(o3, {}), Received(o3, {1}), Freeze(o3, a1, {1})>>}
=============================================================================
