------------------------------ MODULE MCKernel ------------------------------
(***************************************************************************)
(* Small instances of the whole ledger and its self check.                 *)
(***************************************************************************)
EXTENDS SelfCheck

CONSTANTS k1, k2, o1, o2, r1, q1, q2, p1, p2, none

FullRefund == [kind |-> "full"]
AmountRefund(a) == [kind |-> "amount", amount |-> a]
ItemsRefund(f) == [kind |-> "items", items |-> f]

Solo == [k \in {k1} |-> none]

OneOrder == {o1}
OneTenant == [o \in OneOrder |-> 1]
OneReferrer == [o \in OneOrder |-> k1]
OneBasket == [o \in OneOrder |-> <<8>>]
PartRefunds == {FullRefund, AmountRefund(5)}

(* Payouts: two line items of which the second earns less than a refund    *)
(* that is spread over both takes back from the first.                     *)
DebtBasket == [o \in OneOrder |-> <<8, 2>>]
SpreadRefund == {AmountRefund(5)}

(* PayReject: every payment is made by a payout call through the channel,  *)
(* none is reported by an operator (MarkWithdrawPaid).                     *)
ThroughChannel ==
  \A p \in Workers : calls'[p].pc = "paid" => calls[p].pc \in {"calling", "paid"}

ChannelSpec == KernelInit /\ [][KernelNext /\ ThroughChannel]_kernelVars

(* Blocked: beside the debtor, an agent of the same tenant with an order   *)
(* of its own.                                                             *)
Pair == [k \in {k1, k2} |-> none]
TwoOrders == {o1, o2}
SameTenant == [o \in TwoOrders |-> 1]
TwoReferrers == [o \in TwoOrders |-> IF o = o1 THEN k1 ELSE k2]
TwoBaskets == [o \in TwoOrders |-> IF o = o1 THEN <<4, 2>> ELSE <<2>>]
FirstItemRefund == {ItemsRefund([i \in {1} |-> 4])}
=============================================================================
