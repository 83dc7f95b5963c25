------------------------------ MODULE MCMemory ------------------------------
(***************************************************************************)
(* A small instance of the in-memory store: two tenants and two dates, so  *)
(* that the settlement index is written at its end and in its middle.      *)
(***************************************************************************)
EXTENDS DueHeap

Row(table, tenant, user, state, at) ==
  [table |-> table, tenant |-> tenant, order |-> 1, user |-> user,
   state |-> state, at |-> at, rest |-> 0]

(* Three commissions, dated on receipt or at once, and one row of every    *)
(* other table.                                                            *)
SmallRows ==
  {Row("commission", 1, 1, "pending", 2), Row("commission", 1, 2, "pending", 0),
   Row("commission", 2, 1, "pending", 1), 
   Row("refund", 1, 0, "none", 0), Row("withdrawal", 1, 1, "applied", 0),
   Row("ledger", 1, 1, "none", 0)}

SmallPutKeys ==
  {[table |-> "account", tenant |-> 1, user |-> 1],
   [table |-> "account", tenant |-> 1, user |-> 2],
   [table |-> "agent", tenant |-> 1, user |-> 1]}
=============================================================================
