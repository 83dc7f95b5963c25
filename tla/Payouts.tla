------------------------------ MODULE Payouts ------------------------------
(***************************************************************************)
(* Withdrawals and their payout (payout.go, withdraw.go).                  *)
(*                                                                         *)
(* A request reserves the money, a review approves or rejects it, and a    *)
(* payout is a call that reads the withdrawal, asks the channel to move    *)
(* the money and records the outcome, in that order and not in one         *)
(* transaction: between its three steps other calls, operators and crashes *)
(* may come.  A worker is a goroutine that makes such calls.  Every step   *)
(* that writes is one transaction; the module that composes this one with  *)
(* the engine lets it run only while no other transaction is open.         *)
(***************************************************************************)
EXTENDS Books, FiniteSets, FiniteSetsExt

CONSTANTS
  RequestKeys,        \* idempotency keys of requests, qualified by the tenant
  WithdrawAmounts,    \* the amounts agents ask for
  MinWithdraw,        \* Rules.MinWithdraw
  FeeRateBP,          \* Rules.FeeRateBP
  Workers,            \* concurrent payout calls
  LostAnswers         \* the channel's answer may be lost after it has paid

ASSUME PayoutsAssumption ==
  /\ WithdrawAmounts \subseteq Nat \ {0}
  /\ MinWithdraw \in Nat
  /\ FeeRateBP \in 0 .. RateScale
  /\ LostAnswers \in BOOLEAN

VARIABLES
  withdrawals,        \* the withdrawal rows, in the order of their ids
  calls,              \* calls[p]: the payout call worker p is in
  transfers           \* the withdrawals whose money has left the platform

payoutVars == <<withdrawals, calls, transfers>>

-----------------------------------------------------------------------------
(***************************************************************************)
(* Rows                                                                    *)
(***************************************************************************)

WithdrawalStates == {"applied", "approved", "rejected", "pay_failed", "paid"}

WithdrawalTransitions ==
  [applied    |-> {"approved", "rejected"},
   approved   |-> {"paid", "pay_failed"},
   pay_failed |-> {"paid", "rejected"},
   paid       |-> {},
   rejected   |-> {}]

ReservedUntilFailed(s) == s \in {"applied", "approved"}  \* mutant: a failed payout forgotten

Reserved(s) == s \in {"applied", "approved", "pay_failed"}

Payable(s) == s \in {"approved", "pay_failed"}

Withdrawal ==
  [key : RequestKeys, agent : Agents, amount : Nat \ {0}, fee : Nat,
   state : WithdrawalStates]

HeldNet(w) ==  \* mutant: the net amount instead of the gross
  IF Reserved(w.state) THEN w.amount - w.fee ELSE 0

(* Withdrawal.Outstanding: what it still holds in the reserved bucket.     *)
Held(w) == IF Reserved(w.state) THEN w.amount ELSE 0

TransitionAnyway(w, to) ==  \* mutant: the transition table is not consulted
  withdrawals' = [withdrawals EXCEPT ![w].state = to]

(* TransitionWithdrawal of a row nobody changed since it was read.         *)
TransitionWithdrawal(w, to) ==
  /\ to \in WithdrawalTransitions[withdrawals[w].state]
  /\ withdrawals' = [withdrawals EXCEPT ![w].state = to]

-----------------------------------------------------------------------------
(***************************************************************************)
(* Request and review                                                      *)
(***************************************************************************)

WithdrawFee(amount) == ApplyRate(amount, FeeRateBP, Rounding)

(* A request is applied unless its key was used before (a replay), it is   *)
(* below the minimum, the fee leaves nothing, or the balance is too small. *)
RequestWithdraw(k, key, amount) ==
  /\ amount >= MinWithdraw
  /\ WithdrawFee(amount) < amount
  /\ \A w \in DOMAIN withdrawals : withdrawals[w].key # key
  /\ Accepts(k, MoveDelta("available", "withdrawing", amount), TRUE)
  /\ withdrawals' = Append(withdrawals,
       [key |-> key, agent |-> k, amount |-> amount,
        fee |-> WithdrawFee(amount), state |-> "applied"])
  /\ Post(k, MoveDelta("available", "withdrawing", amount), "withdraw_hold",
          Len(withdrawals) + 1, Moves("available", "withdrawing", amount))
  /\ UNCHANGED <<calls, transfers>>

ApproveWithdraw(w) ==
  /\ withdrawals[w].state = "applied"
  /\ TransitionWithdrawal(w, "approved")
  /\ UNCHANGED <<accounts, ledger, calls, transfers>>

(* The reserved money goes back (releaseReservation) and the row is        *)
(* closed; from "approved" the second is illegal, so the call fails as a   *)
(* whole.                                                                  *)
RejectWithdraw(w) ==
  LET k == withdrawals[w].agent
      amount == Held(withdrawals[w])
  IN  /\ Reserved(withdrawals[w].state)
      /\ Accepts(k, MoveDelta("withdrawing", "available", amount), TRUE)
      /\ Post(k, MoveDelta("withdrawing", "available", amount), "withdraw_refund",
              w, Moves("withdrawing", "available", amount))
      /\ TransitionWithdrawal(w, "rejected")
      /\ UNCHANGED <<calls, transfers>>

-----------------------------------------------------------------------------
(***************************************************************************)
(* Payout                                                                  *)
(***************************************************************************)

NoCall == [pc |-> "idle", w |-> 0]

PayWithdrawUnheard(p, w) ==  \* mutant: the channel's answer is not awaited
  /\ calls[p] = NoCall
  /\ Payable(withdrawals[w].state)
  /\ calls' = [calls EXCEPT ![p] = [pc |-> "paid", w |-> w]]
  /\ UNCHANGED <<accounts, ledger, withdrawals, transfers>>

(* PayWithdraw reads the withdrawal and calls the channel.                 *)
PayWithdraw(p, w) ==
  /\ calls[p] = NoCall
  /\ Payable(withdrawals[w].state)
  /\ calls' = [calls EXCEPT ![p] = [pc |-> "calling", w |-> w]]
  /\ UNCHANGED <<accounts, ledger, withdrawals, transfers>>

(* PayoutChannel.Pay answers that the money has left.  It must honour the  *)
(* withdrawal's key: asked again, it reports the transfer it made before.  *)
(* ManualChannel moves nothing itself: its answer stands for a transfer a  *)
(* person made, and is taken to be true.                                   *)
ChannelPays(p) ==
  /\ calls[p].pc = "calling"
  /\ calls' = [calls EXCEPT ![p].pc = "paid"]
  /\ transfers' = transfers \cup {calls[p].w}
  /\ UNCHANGED <<accounts, ledger, withdrawals>>

(* The channel declines, as MockChannel does when told to, cannot be       *)
(* reached, or its answer gets lost.                                       *)
ChannelFails(p) ==
  /\ calls[p].pc = "calling"
  /\ calls' = [calls EXCEPT ![p].pc = "failed"]
  /\ \/ UNCHANGED transfers
     \/ LostAnswers /\ transfers' = transfers \cup {calls[p].w}
  /\ UNCHANGED <<accounts, ledger, withdrawals>>

(* MarkWithdrawPaid: an operator who made the transfer by hand reports it. *)
MarkWithdrawPaid(p, w) ==
  /\ calls[p] = NoCall
  /\ Payable(withdrawals[w].state)
  /\ calls' = [calls EXCEPT ![p] = [pc |-> "paid", w |-> w]]
  /\ transfers' = transfers \cup {w}
  /\ UNCHANGED <<accounts, ledger, withdrawals>>

Return(p) == calls' = [calls EXCEPT ![p] = NoCall]

Recordable(w) ==
  Accepts(withdrawals[w].agent,
          MoveDelta("withdrawing", "withdrawn", Held(withdrawals[w])), TRUE)

(* settlePayout: the live row is read again; while it holds money, the     *)
(* money moves on and the row is closed.                                   *)
SettlePayout(p) ==
  LET w == calls[p].w
      k == withdrawals[w].agent
      amount == Held(withdrawals[w])
  IN  /\ calls[p].pc = "paid"
      /\ amount > 0
      /\ Recordable(w)
      /\ Post(k, MoveDelta("withdrawing", "withdrawn", amount), "withdraw_paid",
              w, Moves("withdrawing", "withdrawn", amount))
      /\ TransitionWithdrawal(w, "paid")
      /\ Return(p)
      /\ UNCHANGED transfers

(* The row no longer holds money (paid or rejected meanwhile), which the   *)
(* call answers with the row and no error, or the guarded move is refused. *)
SettlePayoutNothing(p) ==
  /\ calls[p].pc = "paid"
  /\ \/ Held(withdrawals[calls[p].w]) = 0
     \/ ~Recordable(calls[p].w)
  /\ Return(p)
  /\ UNCHANGED <<accounts, ledger, withdrawals, transfers>>

(* recordPayoutFailure, of the live row; an illegal transition fails.      *)
RecordPayoutFailure(p) ==
  LET w == calls[p].w
  IN  /\ calls[p].pc = "failed"
      /\ \/ TransitionWithdrawal(w, "pay_failed")
         \/ /\ "pay_failed" \notin WithdrawalTransitions[withdrawals[w].state]
            /\ UNCHANGED withdrawals
      /\ Return(p)
      /\ UNCHANGED <<accounts, ledger, transfers>>

-----------------------------------------------------------------------------

PayoutsInit ==
  /\ withdrawals = << >>
  /\ calls = [p \in Workers |-> NoCall]
  /\ transfers = {}

(* What a call that was answered by the channel does next.                 *)
RecordStep(p) == SettlePayout(p) \/ SettlePayoutNothing(p) \/ RecordPayoutFailure(p)

(* Steps that open a transaction or read the store.                        *)
PayoutStoreStep ==
  \/ \E k \in Agents, key \in RequestKeys, amount \in WithdrawAmounts :
       RequestWithdraw(k, key, amount)
  \/ \E w \in DOMAIN withdrawals :
       \/ ApproveWithdraw(w)
       \/ RejectWithdraw(w)
       \/ \E p \in Workers : PayWithdraw(p, w) \/ MarkWithdrawPaid(p, w)
  \/ \E p \in Workers : RecordStep(p)

(* Steps of the channel.                                                   *)
ChannelStep == \E p \in Workers : ChannelPays(p) \/ ChannelFails(p)

-----------------------------------------------------------------------------
(***************************************************************************)
(* Properties                                                              *)
(***************************************************************************)

Call == [pc : {"idle", "calling", "paid", "failed"}, w : Nat]

(* Rows and calls have the shape the code gives them, and a call works on  *)
(* a row that exists.                                                      *)
PayoutsTypeOK ==
  /\ withdrawals \in Seq(Withdrawal)
  /\ calls \in [Workers -> Call]
  /\ \A p \in Workers : calls[p] = NoCall \/ calls[p].w \in DOMAIN withdrawals
  /\ transfers \subseteq DOMAIN withdrawals

WithdrawalsOf(k, states) ==
  {w \in DOMAIN withdrawals :
     withdrawals[w].agent = k /\ withdrawals[w].state \in states}

AmountOf(ws) ==
  SumFunctionOnSet([w \in DOMAIN withdrawals |-> withdrawals[w].amount], ws)

(* SelfCheck I4: the reserved bucket is the sum of the withdrawals that    *)
(* are still open and the withdrawn bucket the sum of the paid ones,       *)
(* however requests, reviews, retries and concurrent payout calls          *)
(* interleave (releaseReservation, settlePayout).                          *)
WithdrawalsReconcile ==
  \A k \in Agents :
    /\ accounts[k]["withdrawing"] =
         AmountOf(WithdrawalsOf(k, {"applied", "approved", "pay_failed"}))
    /\ accounts[k]["withdrawn"] = AmountOf(WithdrawalsOf(k, {"paid"}))

EntriesFor(w, biz) ==
  {i \in DOMAIN ledger[withdrawals[w].agent] :
     /\ ledger[withdrawals[w].agent][i].ref = w
     /\ ledger[withdrawals[w].agent][i].biz = biz}

(* Every withdrawal was reserved once and has at most one outcome in the   *)
(* books, the one its state names: two racing payout calls, or a payout    *)
(* and a rejection, never both move its money.                             *)
OneOutcome ==
  \A w \in DOMAIN withdrawals :
    /\ Cardinality(EntriesFor(w, "withdraw_hold")) = 1
    /\ Cardinality(EntriesFor(w, "withdraw_paid")) =
         (IF withdrawals[w].state = "paid" THEN 1 ELSE 0)
    /\ Cardinality(EntriesFor(w, "withdraw_refund")) =
         (IF withdrawals[w].state = "rejected" THEN 1 ELSE 0)

(* Money the books call paid did leave, and it left only for withdrawals   *)
(* somebody had reviewed: a failed call never counts as a payment.  What   *)
(* the channel, or the person behind ManualChannel, reports is believed.   *)
PaidWasTransferred ==
  \A w \in DOMAIN withdrawals :
    /\ withdrawals[w].state = "paid" => w \in transfers
    /\ w \in transfers => withdrawals[w].state # "applied"

(* What Reserved promises: money that was given back to the agent had not  *)
(* left the platform.                                                      *)
ReturnedNotTransferred ==
  \A w \in DOMAIN withdrawals :
    withdrawals[w].state = "rejected" => w \notin transfers

=============================================================================
