----------------------------- MODULE StoreSpec -----------------------------
(***************************************************************************)
(* What the Store port promises the ledger (store.go): a transaction works *)
(* on its own copy of what is committed, reads its own writes, and either  *)
(* all of it becomes visible or none of it.  Inside a transaction rows are *)
(* appended under ascending ids and unique keys and are never removed, a   *)
(* settlement date is written once, and a row that has left the states     *)
(* waiting for settlement does not come back to them.                      *)
(*                                                                         *)
(* The contents of a store are its rows, by id, and its put values (agents,*)
(* bindings, accounts), by key.  How a store keeps and finds them is its   *)
(* own business.                                                           *)
(***************************************************************************)
EXTENDS Integers

CONSTANTS
  KeyOf(_),       \* the idempotency key of a row
  HasKey(_)       \* whether a row has one; ledger entries have none

VARIABLES
  committed,      \* what another transaction would see
  working,        \* what the open transaction sees
  phase           \* "free", "open" or "closed"

storeVars == <<committed, working, phase>>

Waits(row) == row.state \in {"pending", "frozen"}

UniqueKeys(c) ==
  \A i, j \in DOMAIN c.rows :
    /\ HasKey(c.rows[i]) /\ HasKey(c.rows[j])
    /\ KeyOf(c.rows[i]) = KeyOf(c.rows[j])
    => i = j

(* What a row is about never changes.                                      *)
Subject(r) == <<r.table, r.tenant, r.order, r.user>>

LegalWrite(c, n) ==
  /\ DOMAIN c.rows \subseteq DOMAIN n.rows
  /\ \A id \in DOMAIN c.rows :
       /\ Subject(n.rows[id]) = Subject(c.rows[id])
       /\ c.rows[id].at # 0 => n.rows[id].at = c.rows[id].at
       /\ Waits(n.rows[id]) => Waits(c.rows[id])
  /\ \A id \in DOMAIN c.rows, new \in DOMAIN n.rows \ DOMAIN c.rows : id < new
  /\ DOMAIN c.puts \subseteq DOMAIN n.puts
  /\ UniqueKeys(n)

StoreInit ==
  /\ committed = [rows |-> << >>, puts |-> << >>]
  /\ working = committed
  /\ phase = "free"

BeginTx ==
  /\ phase = "free" /\ phase' = "open"
  /\ UNCHANGED <<committed, working>>

WriteTx ==
  /\ phase = "open" /\ phase' = "open"
  /\ LegalWrite(working, working')
  /\ UNCHANGED committed

CommitTx ==
  /\ phase = "open" /\ phase' = "free"
  /\ committed' = working
  /\ UNCHANGED working

RollbackTx ==
  /\ phase = "open" /\ phase' = "free"
  /\ working' = committed
  /\ UNCHANGED committed

CloseStore ==
  /\ phase # "open" /\ phase' = "closed"
  /\ UNCHANGED <<committed, working>>

StoreNext == BeginTx \/ WriteTx \/ CommitTx \/ RollbackTx \/ CloseStore

Spec == StoreInit /\ [][StoreNext]_storeVars
=============================================================================
