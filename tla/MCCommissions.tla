--------------------------- MODULE MCCommissions ---------------------------
(***************************************************************************)
(* Small instances of the commission engine.                               *)
(***************************************************************************)
EXTENDS Commissions

CONSTANTS k1, k2, o1, o2, r1, r2, none

FullRefund == [kind |-> "full"]
AmountRefund(a) == [kind |-> "amount", amount |-> a]
ItemsRefund(f) == [kind |-> "items", items |-> f]

Chain == [k \in {k1, k2} |-> IF k = k2 THEN k1 ELSE none]
Alone == [k \in {k1, k2} |-> none]

OneOrder == {o1}
OneTenant == [o \in OneOrder |-> 1]
OneReferrer == [o \in OneOrder |-> k2]

(* Instalments: one line item, an agent and its upline, and two refunds.   *)
InstalmentBasket == [o \in OneOrder |-> <<7>>]
InstalmentRefunds ==
  {FullRefund, AmountRefund(2), ItemsRefund([i \in {1} |-> 3])}

(* Tenants: two orders of two tenants; once the first tenant was served,   *)
(* the second one has more rows than the budget of the call allows.        *)
TwoOrders == {o1, o2}
TwoTenants == [o \in TwoOrders |-> IF o = o1 THEN 2 ELSE 1]
TwoReferrers == [o \in TwoOrders |-> IF o = o1 THEN k1 ELSE k2]
TwoBaskets == [o \in TwoOrders |-> IF o = o1 THEN <<4, 4>> ELSE <<4>>]
NoRefunds == {}
=============================================================================
