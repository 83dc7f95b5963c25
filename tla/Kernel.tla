------------------------------- MODULE Kernel -------------------------------
(***************************************************************************)
(* The whole ledger: the commission engine and the payouts over one store. *)
(* They meet in the accounts.  Settlement fills the withdrawable bucket    *)
(* that requests reserve from, and a refund claws settled money back from  *)
(* the same bucket, whether or not it has been withdrawn meanwhile.        *)
(***************************************************************************)
EXTENDS Commissions, Payouts

CONSTANT MaxCrashes   \* bound: how often the process may die

ASSUME MaxCrashesAssumption == MaxCrashes \in Nat

VARIABLE crashes

kernelVars == <<accounts, ledger, commissions, vouchers, clock, tx, undo, beat,
                withdrawals, calls, transfers, crashes>>

KernelInit ==
  /\ EngineInit
  /\ PayoutsInit
  /\ crashes = 0

EngineStep == EngineNext /\ UNCHANGED <<payoutVars, crashes>>

(* A payout step that reads or writes the store waits for the transaction  *)
(* in progress.                                                            *)
PayoutStep ==
  /\ \/ Unlocked /\ PayoutStoreStep
     \/ ChannelStep
  /\ UNCHANGED <<commissions, vouchers, clock, tx, undo, beat, crashes>>

(* The process dies: the store undoes the transaction that did not commit, *)
(* and the heartbeat and the payout calls are gone; what the channel did   *)
(* is not.                                                                 *)
Crash ==
  /\ crashes < MaxCrashes
  /\ crashes' = crashes + 1
  /\ IF Unlocked THEN UNCHANGED <<storeVars, tx, undo>> ELSE Rollback
  /\ beat' = NoBeat
  /\ calls' = [p \in Workers |-> NoCall]
  /\ UNCHANGED <<withdrawals, transfers, clock>>

KernelNext == EngineStep \/ PayoutStep \/ Crash

KernelSpec == KernelInit /\ [][KernelNext]_kernelVars

(* The engine's fairness, and a payout call that the channel has answered  *)
(* goes on to record the answer.                                           *)
KernelFairness ==
  /\ WF_kernelVars(TxStep /\ UNCHANGED <<payoutVars, crashes>>)
  /\ SF_kernelVars(BeatStep /\ UNCHANGED <<payoutVars, crashes>>)
  /\ \A p \in Workers :
       SF_kernelVars(Unlocked /\ RecordStep(p)
                     /\ UNCHANGED <<commissions, vouchers, clock, tx, undo, beat, crashes>>)

FairKernelSpec == KernelSpec /\ KernelFairness

-----------------------------------------------------------------------------
(***************************************************************************)
(* Properties                                                              *)
(***************************************************************************)

(* The engine's and the payouts' types together.                           *)
KernelTypeOK ==
  /\ EngineTypeOK
  /\ PayoutsTypeOK
  /\ crashes \in 0 .. MaxCrashes

InDebt(k) == accounts[k]["available"] < 0

(* Once a payout call has the channel's word that the money left, the      *)
(* withdrawal ends up in a final state, also when an earlier payout of it  *)
(* had failed, unless the process dies on the way or its agent is in debt  *)
(* by then: the guard of settlePayout looks at every bucket, and refuses   *)
(* to record a payment made to a debtor.  No other refund, settlement or   *)
(* call that comes between keeps a payment out of the books.               *)
PayoutsRecorded ==
  \A p \in Workers : \A w \in 1 .. Cardinality(RequestKeys) :
    calls[p].pc = "paid" /\ calls[p].w = w /\ crashes = MaxCrashes
      ~> /\ w \in DOMAIN withdrawals
         /\ \/ withdrawals[w].state \in {"paid", "rejected"}
            \/ InDebt(withdrawals[w].agent)

DueOf(k) == {c \in Due(clock) : commissions[c].agent = k}

(* What Maintain says of its blast radius: a row that cannot be settled    *)
(* does not freeze every agent's payout.  An agent that owes nothing gets  *)
(* what is due to it, whatever the rows of the tenant's other agents are.  *)
OthersSettle ==
  <>[][~Freezes]_kernelVars =>
    \A k \in Agents :
      LET Waits == DueOf(k) # {} /\ ~InDebt(k)
      IN  Waits ~> ~Waits

=============================================================================
