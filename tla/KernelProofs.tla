---------------------------- MODULE KernelProofs ----------------------------
(***************************************************************************)
(* Invariance proofs about the whole ledger: the engine, the payouts and   *)
(* crashes over one store, for any number of agents, orders, withdrawals,  *)
(* payout workers and crashes.  Then its self check, which never cries     *)
(* wolf and never misses one of the tamperings SelfCheck lists, for a      *)
(* store of any size and any history; what a reconciling store leaves to   *)
(* its query is what a check row by row would find.                        *)
(***************************************************************************)
EXTENDS SelfCheck, ReconcileProofs

-----------------------------------------------------------------------------
(***************************************************************************)
(* Types                                                                   *)
(***************************************************************************)

(* A fee is a natural number.                                              *)
LEMMA WithdrawFeeType ==
  ASSUME NEW amount \in Nat
  PROVE  WithdrawFee(amount) \in Nat
<1> DEFINE p == amount * FeeRateBP
<1>1. FeeRateBP \in Nat /\ p \in Nat
  BY PayoutsAssumption DEF RateScale
<1>2. Abs(amount) = amount /\ Abs(FeeRateBP) = FeeRateBP
  BY <1>1 DEF Abs
<1>3. p \div RateScale \in Nat /\ p % RateScale \in Nat
  BY <1>1, SMTT(30) DEF RateScale
<1> DEFINE q == MulDivAbs(amount, FeeRateBP, RateScale, Rounding)
<1>4. q \in Nat
  BY <1>3 DEF MulDivAbs
<1>5. WithdrawFee(amount) = IF (amount < 0) # (FeeRateBP < 0) THEN -q ELSE q
  BY <1>2 DEF WithdrawFee, ApplyRate, MulDiv
<1>6. (amount < 0) = FALSE /\ (FeeRateBP < 0) = FALSE
  BY <1>1
<1> HIDE DEF q
<1> QED
  BY <1>4, <1>5, <1>6

(* What a transition leaves of the withdrawals: the row in its new state,  *)
(* which its old state allows, and every other row as it was.              *)
LEMMA WithdrawalRows ==
  ASSUME withdrawals \in Seq(Withdrawal), NEW w \in DOMAIN withdrawals,
         NEW to \in WithdrawalStates, TransitionWithdrawal(w, to)
  PROVE  /\ withdrawals' \in Seq(Withdrawal)
         /\ DOMAIN withdrawals' = DOMAIN withdrawals
         /\ \A v \in DOMAIN withdrawals \ {w} : withdrawals'[v] = withdrawals[v]
         /\ withdrawals'[w].agent = withdrawals[w].agent
         /\ withdrawals'[w].amount = withdrawals[w].amount
         /\ withdrawals'[w].state = to
         /\ to \in WithdrawalTransitions[withdrawals[w].state]
<1> DEFINE row == [withdrawals[w] EXCEPT !.state = to]
<1>1. withdrawals[w] \in Withdrawal
  OBVIOUS
<1>2. /\ row \in Withdrawal /\ row.agent = withdrawals[w].agent
      /\ row.amount = withdrawals[w].amount /\ row.state = to
  BY <1>1 DEF Withdrawal
<1>3. /\ withdrawals' = [withdrawals EXCEPT ![w] = row]
      /\ to \in WithdrawalTransitions[withdrawals[w].state]
  BY DEF TransitionWithdrawal
<1> HIDE DEF row
<1>4. withdrawals' \in Seq(Withdrawal)
  BY <1>2, <1>3, RowsType
<1>5. /\ DOMAIN withdrawals' = DOMAIN withdrawals /\ withdrawals'[w] = row
      /\ \A v \in DOMAIN withdrawals \ {w} : withdrawals'[v] = withdrawals[v]
  BY <1>3
<1> QED
  BY <1>2, <1>3, <1>4, <1>5

(* What a request leaves of the withdrawals: one row more.                 *)
LEMMA RequestRows ==
  ASSUME PayoutsTypeOK, NEW k \in Agents, NEW key \in RequestKeys,
         NEW amount \in WithdrawAmounts, RequestWithdraw(k, key, amount)
  PROVE  /\ withdrawals' \in Seq(Withdrawal) /\ Len(withdrawals) \in Nat
         /\ DOMAIN withdrawals = 1 .. Len(withdrawals)
         /\ DOMAIN withdrawals' = DOMAIN withdrawals \cup {Len(withdrawals) + 1}
         /\ Len(withdrawals) + 1 \notin DOMAIN withdrawals
         /\ \A v \in DOMAIN withdrawals : withdrawals'[v] = withdrawals[v]
         /\ withdrawals'[Len(withdrawals) + 1].agent = k
         /\ withdrawals'[Len(withdrawals) + 1].amount = amount
         /\ withdrawals'[Len(withdrawals) + 1].state = "applied"
<1> DEFINE row == [key |-> key, agent |-> k, amount |-> amount,
                   fee |-> WithdrawFee(amount), state |-> "applied"]
<1>1. withdrawals' = Append(withdrawals, row) /\ withdrawals \in Seq(Withdrawal)
  BY DEF RequestWithdraw, PayoutsTypeOK
<1>2. amount \in Nat \ {0} /\ WithdrawFee(amount) \in Nat
  BY WithdrawFeeType, PayoutsAssumption
<1>3. row \in Withdrawal /\ row.agent = k /\ row.amount = amount /\ row.state = "applied"
  BY <1>2 DEF Withdrawal, WithdrawalStates
<1> HIDE DEF row
<1> QED
  BY <1>1, <1>3

(* The row a call works on exists.                                         *)
LEMMA CallType ==
  ASSUME PayoutsTypeOK, NEW p \in Workers, calls[p].pc # "idle"
  PROVE  /\ calls[p].w \in DOMAIN withdrawals
         /\ calls[p] \in Call
         /\ withdrawals[calls[p].w] \in Withdrawal
         /\ withdrawals[calls[p].w].agent \in Agents
<1>1. calls[p] \in Call /\ calls[p] # NoCall
  BY DEF PayoutsTypeOK, NoCall
<1>2. calls[p].w \in DOMAIN withdrawals /\ withdrawals \in Seq(Withdrawal)
  BY <1>1 DEF PayoutsTypeOK
<1>3. withdrawals[calls[p].w] \in Withdrawal
  BY <1>2
<1> QED
  BY <1>1, <1>2, <1>3 DEF Withdrawal


(* A request or a review keeps the payouts well-typed.                     *)
LEMMA ReviewType ==
  ASSUME PayoutsTypeOK,
         \/ \E k \in Agents, key \in RequestKeys, amount \in WithdrawAmounts :
              RequestWithdraw(k, key, amount)
         \/ \E w \in DOMAIN withdrawals : ApproveWithdraw(w) \/ RejectWithdraw(w)
  PROVE  PayoutsTypeOK'
<1>1. UNCHANGED <<calls, transfers>>
  BY DEF RequestWithdraw, ApproveWithdraw, RejectWithdraw
<1>2. withdrawals' \in Seq(Withdrawal) /\ DOMAIN withdrawals \subseteq DOMAIN withdrawals'
  <2>1. ASSUME NEW k \in Agents, NEW key \in RequestKeys, NEW amount \in WithdrawAmounts,
               RequestWithdraw(k, key, amount)
        PROVE  withdrawals' \in Seq(Withdrawal) /\ DOMAIN withdrawals \subseteq DOMAIN withdrawals'
    BY <2>1, RequestRows
  <2>2. ASSUME NEW w \in DOMAIN withdrawals, ApproveWithdraw(w) \/ RejectWithdraw(w)
        PROVE  withdrawals' \in Seq(Withdrawal) /\ DOMAIN withdrawals \subseteq DOMAIN withdrawals'
    <3>1. TransitionWithdrawal(w, "approved") \/ TransitionWithdrawal(w, "rejected")
      BY <2>2 DEF ApproveWithdraw, RejectWithdraw
    <3> QED
      BY <3>1, WithdrawalRows DEF PayoutsTypeOK, WithdrawalStates
  <2> QED
    BY <2>1, <2>2
<1> QED
  BY <1>1, <1>2 DEF PayoutsTypeOK

(* So do the steps of a payout call.                                       *)
LEMMA CallStepType ==
  ASSUME PayoutsTypeOK, NEW p \in Workers,
         \/ \E w \in DOMAIN withdrawals : PayWithdraw(p, w) \/ MarkWithdrawPaid(p, w)
         \/ RecordStep(p)
         \/ ChannelPays(p) \/ ChannelFails(p)
  PROVE  PayoutsTypeOK'
<1> DEFINE Goal == /\ withdrawals' \in Seq(Withdrawal)
                   /\ DOMAIN withdrawals' = DOMAIN withdrawals
                   /\ transfers' \subseteq DOMAIN withdrawals
                   /\ \E call \in Call : /\ calls' = [calls EXCEPT ![p] = call]
                                         /\ call = NoCall \/ call.w \in DOMAIN withdrawals
<1>0. /\ withdrawals \in Seq(Withdrawal) /\ transfers \subseteq DOMAIN withdrawals
      /\ calls \in [Workers -> Call]
  BY DEF PayoutsTypeOK
<1>1. NoCall \in Call /\ \A w \in DOMAIN withdrawals : w \in Nat
  BY <1>0 DEF NoCall, Call
<1>2. ASSUME NEW w \in DOMAIN withdrawals, PayWithdraw(p, w) \/ MarkWithdrawPaid(p, w)
      PROVE  Goal
  <2>1. PICK pc \in {"calling", "paid"} : calls' = [calls EXCEPT ![p] = [pc |-> pc, w |-> w]]
    BY <1>2 DEF PayWithdraw, MarkWithdrawPaid
  <2> DEFINE call == [pc |-> pc, w |-> w]
  <2>2. call \in Call /\ call.w = w /\ calls' = [calls EXCEPT ![p] = call]
    BY <1>1, <2>1 DEF Call
  <2>3. UNCHANGED withdrawals /\ transfers' \subseteq DOMAIN withdrawals
    BY <1>0, <1>2 DEF PayWithdraw, MarkWithdrawPaid
  <2> HIDE DEF call
  <2> QED
    BY <1>0, <2>2, <2>3
<1>3. ASSUME RecordStep(p)
      PROVE  Goal
  <2>1. calls' = [calls EXCEPT ![p] = NoCall] /\ UNCHANGED transfers
    BY <1>3 DEF RecordStep, SettlePayout, SettlePayoutNothing, RecordPayoutFailure, Return
  <2>2. calls[p].w \in DOMAIN withdrawals
    BY <1>3, CallType DEF RecordStep, SettlePayout, SettlePayoutNothing, RecordPayoutFailure
  <2>3. \/ TransitionWithdrawal(calls[p].w, "paid") \/ TransitionWithdrawal(calls[p].w, "pay_failed")
        \/ UNCHANGED withdrawals
    BY <1>3 DEF RecordStep, SettlePayout, SettlePayoutNothing, RecordPayoutFailure
  <2>4. withdrawals' \in Seq(Withdrawal) /\ DOMAIN withdrawals' = DOMAIN withdrawals
    BY <1>0, <2>2, <2>3, WithdrawalRows DEF WithdrawalStates
  <2> QED
    BY <1>0, <1>1, <2>1, <2>4
<1>4. ASSUME ChannelPays(p) \/ ChannelFails(p)
      PROVE  Goal
  <2>1. /\ calls[p].w \in DOMAIN withdrawals /\ calls[p] \in Call
        /\ UNCHANGED withdrawals
        /\ transfers' = transfers \/ transfers' = transfers \cup {calls[p].w}
    BY <1>4, CallType DEF ChannelPays, ChannelFails
  <2>2. PICK pc \in {"paid", "failed"} : calls' = [calls EXCEPT ![p].pc = pc]
    BY <1>4 DEF ChannelPays, ChannelFails
  <2> DEFINE call == [calls[p] EXCEPT !.pc = pc]
  <2>3. call \in Call /\ call.w = calls[p].w /\ calls' = [calls EXCEPT ![p] = call]
    BY <2>1, <2>2 DEF Call
  <2> HIDE DEF call
  <2> QED
    BY <1>0, <2>1, <2>2, <2>3
<1> HIDE DEF Goal
<1>5. Goal
  BY <1>2, <1>3, <1>4
<1> USE DEF Goal
<1>6. PICK call \in Call : /\ calls' = [calls EXCEPT ![p] = call]
                           /\ call = NoCall \/ call.w \in DOMAIN withdrawals
  BY <1>5
<1>7. /\ calls' \in [Workers -> Call] /\ calls'[p] = call
      /\ \A q \in Workers \ {p} : calls'[q] = calls[q]
  BY <1>0, <1>6
<1>8. \A q \in Workers : calls'[q] = NoCall \/ calls'[q].w \in DOMAIN withdrawals
  BY <1>6, <1>7 DEF PayoutsTypeOK
<1> QED
  BY <1>5, <1>7, <1>8 DEF PayoutsTypeOK

(* A step of the ledger is a step of the engine, of the payouts, or a      *)
(* crash.                                                                  *)
LEMMA KernelStep ==
  ASSUME [KernelNext]_kernelVars
  PROVE  \/ [EngineNext]_engineVars /\ UNCHANGED <<payoutVars, crashes>>
         \/ PayoutStep
         \/ Crash
  BY DEF KernelNext, kernelVars, engineVars, storeVars, booksVars, payoutVars, EngineStep

(* What a payout step does to the store: nothing, or one of four writes,   *)
(* and then no transaction is open.                                        *)
PayoutWrites ==
  \/ \E k \in Agents, key \in RequestKeys, amount \in WithdrawAmounts :
       RequestWithdraw(k, key, amount)
  \/ \E w \in DOMAIN withdrawals :
       \/ ApproveWithdraw(w)
       \/ RejectWithdraw(w)
       \/ /\ TransitionWithdrawal(w, "pay_failed")
          /\ UNCHANGED <<accounts, ledger>>
  \/ \E p \in Workers : SettlePayout(p)

(* Every payout step has one of these effects and keeps the payouts typed. *)
LEMMA PayoutEffect ==
  ASSUME KernelTypeOK, PayoutStep
  PROVE  /\ PayoutsTypeOK'
         /\ UNCHANGED <<commissions, vouchers, clock, tx, undo, beat, crashes>>
         /\ UNCHANGED <<accounts, ledger, withdrawals>> \/ (Unlocked /\ PayoutWrites)
<1>0. PayoutsTypeOK /\ UNCHANGED <<commissions, vouchers, clock, tx, undo, beat, crashes>>
  BY DEF PayoutStep, KernelTypeOK
<1> DEFINE Goal == /\ PayoutsTypeOK'
                   /\ UNCHANGED <<accounts, ledger, withdrawals>> \/ (Unlocked /\ PayoutWrites)
<1>1. ASSUME ChannelStep
      PROVE  Goal
  <2> PICK p \in Workers : ChannelPays(p) \/ ChannelFails(p)
    BY <1>1 DEF ChannelStep
  <2> QED
    BY <1>0, CallStepType DEF ChannelPays, ChannelFails
<1>2. ASSUME Unlocked,
             \/ \E k \in Agents, key \in RequestKeys, amount \in WithdrawAmounts :
                  RequestWithdraw(k, key, amount)
             \/ \E w \in DOMAIN withdrawals : ApproveWithdraw(w) \/ RejectWithdraw(w)
      PROVE  Goal
  <2>1. PayoutsTypeOK'
    BY <1>0, <1>2, ReviewType
  <2> QED
    BY <1>2, <2>1 DEF PayoutWrites
<1>3. ASSUME NEW w \in DOMAIN withdrawals, NEW p \in Workers,
             PayWithdraw(p, w) \/ MarkWithdrawPaid(p, w)
      PROVE  Goal
  <2>1. PayoutsTypeOK'
    BY <1>0, <1>3, CallStepType
  <2> QED
    BY <1>3, <2>1 DEF PayWithdraw, MarkWithdrawPaid
<1>4. ASSUME Unlocked, NEW p \in Workers, RecordStep(p)
      PROVE  Goal
  <2>1. PayoutsTypeOK'
    BY <1>0, <1>4, CallStepType
  <2>2. CASE SettlePayout(p)
    BY <1>4, <2>1, <2>2 DEF PayoutWrites
  <2>3. CASE SettlePayoutNothing(p)
    BY <2>1, <2>3 DEF SettlePayoutNothing
  <2>4. CASE RecordPayoutFailure(p)
    <3>1. calls[p].w \in DOMAIN withdrawals
      BY <1>0, <2>4, CallType DEF RecordPayoutFailure
    <3>2. /\ UNCHANGED <<accounts, ledger>>
          /\ TransitionWithdrawal(calls[p].w, "pay_failed") \/ UNCHANGED withdrawals
      BY <2>4 DEF RecordPayoutFailure
    <3>3. CASE TransitionWithdrawal(calls[p].w, "pay_failed")
      BY <1>4, <2>1, <3>1, <3>2, <3>3 DEF PayoutWrites
    <3> QED
      BY <2>1, <3>2, <3>3
  <2> QED
    BY <1>4, <2>2, <2>3, <2>4 DEF RecordStep
<1> HIDE DEF Goal
<1>5. ASSUME Unlocked /\ PayoutStoreStep
      PROVE  Goal
  BY <1>2, <1>3, <1>4, <1>5 DEF PayoutStoreStep
<1>6. Goal
  BY <1>1, <1>5 DEF PayoutStep
<1> QED
  BY <1>0, <1>6 DEF Goal

(* A crash does to the store what a failed transaction does, or nothing.   *)
LEMMA CrashEffect ==
  ASSUME KernelTypeOK, Crash
  PROVE  /\ KernelTypeOK'
         /\ UNCHANGED <<withdrawals, transfers>> /\ calls' = [p \in Workers |-> NoCall]
         /\ \/ UNCHANGED <<accounts, ledger, commissions, undo>> /\ (Unlocked' <=> Unlocked)
            \/ ~Unlocked /\ Rollback
<1>0. EngineTypeOK /\ PayoutsTypeOK /\ crashes \in 0 .. MaxCrashes
  BY DEF KernelTypeOK
<1>1. beat' \in Beat /\ UNCHANGED <<clock, withdrawals, transfers>>
  BY DEF Crash, NoBeat, Beat
<1>2. calls' = [p \in Workers |-> NoCall] /\ NoCall \in Call
  BY DEF Crash, NoCall, Call
<1>3. PayoutsTypeOK'
  BY <1>0, <1>1, <1>2 DEF PayoutsTypeOK
<1>4. crashes' \in 0 .. MaxCrashes
  BY <1>0, MaxCrashesAssumption DEF Crash
<1>5. CASE Unlocked
  <2>1. UNCHANGED <<accounts, ledger, commissions, vouchers, tx, undo>>
    BY <1>5 DEF Crash, storeVars
  <2>2. StoreOK'
    BY <1>0, <2>1, StoreUnchanged DEF storeVars
  <2>3. EngineTypeOK'
    BY <1>0, <1>1, <1>5, <2>1, <2>2, PlainStep DEF EngineTypeOK
  <2> QED
    BY <1>1, <1>2, <1>3, <1>4, <2>1, <2>3 DEF KernelTypeOK, Unlocked
<1>6. CASE ~Unlocked
  <2>1. Rollback /\ tx.op \in {"paid", "refund", "settle"}
    BY <1>0, <1>6, OpenTx DEF Crash
  <2>2. EngineTypeOK'
    BY <1>0, <1>1, <2>1, RollbackType
  <2> QED
    BY <1>1, <1>2, <1>3, <1>4, <1>6, <2>1, <2>2 DEF KernelTypeOK
<1> QED
  BY <1>5, <1>6

(* The writes of the payouts, one by one, with what the state of the row   *)
(* was before them.                                                        *)
Moved(k, from, to, amount, biz, w) ==
  /\ Accepts(k, MoveDelta(from, to, amount), TRUE)
  /\ Post(k, MoveDelta(from, to, amount), biz, w, Moves(from, to, amount))

(* A write is a request, a change of state among the open ones, a rejection *)
(* or a recorded payout.                                                   *)
LEMMA PayoutCases ==
  ASSUME PayoutsTypeOK, PayoutWrites
  PROVE  \/ \E k \in Agents, key \in RequestKeys, amount \in WithdrawAmounts :
              /\ RequestWithdraw(k, key, amount)
              /\ Moved(k, "available", "withdrawing", amount, "withdraw_hold", Len(withdrawals) + 1)
         \/ \E w \in DOMAIN withdrawals, to \in {"approved", "pay_failed"} :
              /\ TransitionWithdrawal(w, to)
              /\ Reserved(withdrawals[w].state)
              /\ UNCHANGED <<accounts, ledger>>
         \/ \E w \in DOMAIN withdrawals :
              /\ TransitionWithdrawal(w, "rejected")
              /\ Reserved(withdrawals[w].state)
              /\ Moved(withdrawals[w].agent, "withdrawing", "available",
                       withdrawals[w].amount, "withdraw_refund", w)
         \/ \E w \in DOMAIN withdrawals :
              /\ TransitionWithdrawal(w, "paid")
              /\ Reserved(withdrawals[w].state)
              /\ Moved(withdrawals[w].agent, "withdrawing", "withdrawn",
                       withdrawals[w].amount, "withdraw_paid", w)
<1>1. ASSUME NEW w \in DOMAIN withdrawals, NEW to, TransitionWithdrawal(w, to)
      PROVE  to \in {"approved", "pay_failed"} => Reserved(withdrawals[w].state)
  <2>1. withdrawals[w] \in Withdrawal
    BY DEF PayoutsTypeOK
  <2>2. withdrawals[w].state \in WithdrawalStates
    BY <2>1 DEF Withdrawal
  <2> QED
    BY <1>1, <2>2 DEF TransitionWithdrawal, WithdrawalTransitions, WithdrawalStates, Reserved
<1>2. ASSUME NEW k \in Agents, NEW key \in RequestKeys, NEW amount \in WithdrawAmounts,
             RequestWithdraw(k, key, amount)
      PROVE  Moved(k, "available", "withdrawing", amount, "withdraw_hold", Len(withdrawals) + 1)
  BY <1>2 DEF RequestWithdraw, Moved
<1>3. ASSUME NEW w \in DOMAIN withdrawals, RejectWithdraw(w)
      PROVE  /\ TransitionWithdrawal(w, "rejected")
             /\ Reserved(withdrawals[w].state)
             /\ Moved(withdrawals[w].agent, "withdrawing", "available",
                      withdrawals[w].amount, "withdraw_refund", w)
  BY <1>3 DEF RejectWithdraw, Moved, Held
<1>4. ASSUME NEW p \in Workers, SettlePayout(p)
      PROVE  \E w \in DOMAIN withdrawals :
               /\ TransitionWithdrawal(w, "paid")
               /\ Reserved(withdrawals[w].state)
               /\ Moved(withdrawals[w].agent, "withdrawing", "withdrawn",
                        withdrawals[w].amount, "withdraw_paid", w)
  <2> DEFINE w == calls[p].w
  <2>1. w \in DOMAIN withdrawals
    BY <1>4, CallType DEF SettlePayout
  <2>2. Reserved(withdrawals[w].state) /\ Held(withdrawals[w]) = withdrawals[w].amount
    BY <1>4 DEF SettlePayout, Held
  <2>3. /\ TransitionWithdrawal(w, "paid")
        /\ Moved(withdrawals[w].agent, "withdrawing", "withdrawn",
                 withdrawals[w].amount, "withdraw_paid", w)
    BY <1>4, <2>2 DEF SettlePayout, Recordable, Moved
  <2> QED
    BY <2>1, <2>2, <2>3
<1>5. ASSUME NEW w \in DOMAIN withdrawals, ApproveWithdraw(w)
      PROVE  TransitionWithdrawal(w, "approved") /\ UNCHANGED <<accounts, ledger>>
  BY <1>5 DEF ApproveWithdraw
<1> QED
  BY <1>1, <1>2, <1>3, <1>4, <1>5 DEF PayoutWrites

(* Every write of the payouts is a guarded move between the three buckets  *)
(* of settled money, or moves nothing.                                     *)
LEMMA PayoutMoves ==
  ASSUME PayoutsTypeOK, PayoutWrites
  PROVE  \/ UNCHANGED <<accounts, ledger>>
         \/ \E k \in Agents, from \in {"available", "withdrawing"},
               to \in {"available", "withdrawing", "withdrawn"}, amount \in Nat,
               biz \in BizTypes, w \in Nat :
               from # to /\ Moved(k, from, to, amount, biz, w)
<1>1. \A w \in DOMAIN withdrawals :
        withdrawals[w].agent \in Agents /\ withdrawals[w].amount \in Nat /\ w \in Nat
  <2> SUFFICES ASSUME NEW w \in DOMAIN withdrawals
               PROVE  withdrawals[w].agent \in Agents /\ withdrawals[w].amount \in Nat /\ w \in Nat
    OBVIOUS
  <2>1. withdrawals[w] \in Withdrawal /\ w \in Nat
    BY DEF PayoutsTypeOK
  <2> QED
    BY <2>1 DEF Withdrawal
<1>2. Len(withdrawals) + 1 \in Nat /\ \A amount \in WithdrawAmounts : amount \in Nat
  BY PayoutsAssumption DEF PayoutsTypeOK
<1>3. {"withdraw_hold", "withdraw_refund", "withdraw_paid"} \subseteq BizTypes
  BY DEF BizTypes
<1> QED
  BY <1>1, <1>2, <1>3, PayoutCases

-----------------------------------------------------------------------------
(***************************************************************************)
(* Type correctness                                                        *)
(***************************************************************************)

(* A movement between buckets keeps the shape of the books.                *)
LEMMA MovedType ==
  ASSUME BooksTypeOK(accounts, ledger), NEW k \in Agents,
         NEW from \in Buckets, NEW to \in Buckets, NEW amount \in Nat,
         NEW biz \in BizTypes, NEW w \in Nat, Moved(k, from, to, amount, biz, w)
  PROVE  BooksTypeOK(accounts, ledger)'
<1>1. MoveDelta(from, to, amount) \in Delta /\ Moves(from, to, amount) \in BucketMoves
  BY MoveType
<1> QED
  BY <1>1, PostType DEF Moved

(* Every step of the whole ledger keeps its types.                         *)
LEMMA KernelNextType ==
  ASSUME KernelTypeOK, [KernelNext]_kernelVars
  PROVE  KernelTypeOK'
<1>0. EngineTypeOK /\ PayoutsTypeOK /\ crashes \in 0 .. MaxCrashes
  BY DEF KernelTypeOK
<1>1. CASE [EngineNext]_engineVars /\ UNCHANGED <<payoutVars, crashes>>
  <2>1. EngineTypeOK'
    BY <1>0, <1>1, EngineNextType
  <2> QED
    BY <1>0, <1>1, <2>1 DEF KernelTypeOK, PayoutsTypeOK, payoutVars
<1>2. CASE PayoutStep
  <2>1. /\ PayoutsTypeOK' /\ UNCHANGED <<commissions, vouchers, clock, tx, undo, beat, crashes>>
        /\ UNCHANGED <<accounts, ledger>> \/ PayoutWrites
    BY <1>2, PayoutEffect
  <2>2. BooksTypeOK(accounts, ledger)
    BY <1>0 DEF EngineTypeOK, StoreTypeOK
  <2>3. BooksTypeOK(accounts, ledger)'
    <3>1. CASE UNCHANGED <<accounts, ledger>>
      BY <2>2, <3>1 DEF BooksTypeOK
    <3>2. CASE PayoutWrites
      BY <1>0, <2>2, <3>1, <3>2, PayoutMoves, MovedType, ColumnNames
    <3> QED
      BY <2>1, <3>1, <3>2
  <2>4. EngineTypeOK'
    BY <1>0, <2>1, <2>3
       DEF EngineTypeOK, StoreTypeOK, TxTypeOK, AccrualItems, Accruals, BooksTypeOK
  <2> QED
    BY <1>0, <2>1, <2>4 DEF KernelTypeOK
<1>3. CASE Crash
  BY <1>3, CrashEffect
<1> QED
  BY <1>1, <1>2, <1>3, KernelStep

(* The whole ledger starts well-typed.                                     *)
LEMMA KernelInitType == KernelInit => KernelTypeOK
  BY EngineInitType, MaxCrashesAssumption
     DEF KernelInit, KernelTypeOK, PayoutsInit, PayoutsTypeOK, Call, NoCall

(* The whole ledger is type-correct, for any agents, orders, withdrawals,  *)
(* payout workers and crashes: every row and every call keeps its shape,   *)
(* and a payout call always works on a row that exists.                    *)
THEOREM KernelTypeCorrect == KernelSpec => []KernelTypeOK
<1>1. KernelTypeOK /\ [KernelNext]_kernelVars => KernelTypeOK'
  BY KernelNextType
<1> QED
  BY <1>1, KernelInitType, PTL DEF KernelSpec

-----------------------------------------------------------------------------
(***************************************************************************)
(* The books balance and are backed while payouts, retries and crashes go  *)
(* on.                                                                     *)
(***************************************************************************)

MoneyInv ==
  /\ KernelTypeOK
  /\ BooksInv
  /\ ReconcileInv

(* A guarded move keeps the books sound.                                   *)
LEMMA MovedSound ==
  ASSUME BooksTypeOK(accounts, ledger), Sound(accounts, ledger), NEW k \in Agents,
         NEW from \in Buckets, NEW to \in Buckets, NEW amount \in Nat,
         NEW biz \in BizTypes, NEW w \in Nat, Moved(k, from, to, amount, biz, w)
  PROVE  Sound(accounts, ledger)'
<1> DEFINE d == MoveDelta(from, to, amount)
           moves == Moves(from, to, amount)
<1>1. d \in Delta /\ moves \in BucketMoves /\ \A b \in Buckets : d[b] = moves[b]
  BY MoveType
<1>2. Accepts(k, d, TRUE) /\ Post(k, d, biz, w, moves)
  BY DEF Moved
<1> HIDE DEF d, moves
<1> QED
  BY <1>1, <1>2, PostSound

(* A move among the buckets of settled money leaves their sum.             *)
LEMMA MovedReconciles ==
  ASSUME BooksTypeOK(accounts, ledger), Reconciled(accounts, commissions),
         UNCHANGED commissions, NEW k \in Agents,
         NEW from \in {"available", "withdrawing"},
         NEW to \in {"available", "withdrawing", "withdrawn"}, from # to,
         NEW amount \in Nat, NEW biz, NEW w, Moved(k, from, to, amount, biz, w)
  PROVE  Reconciled(accounts, commissions)'
<1> DEFINE d == MoveDelta(from, to, amount)
<1>1. d \in Delta
  BY MoveType, ColumnNames
<1>2. \A c \in Columns : d[c] = IF c = from THEN -amount ELSE IF c = to THEN amount ELSE 0
  BY ColumnNames DEF MoveDelta, NoDelta
<1>3. \A j \in Agents : \A c \in Columns :
        /\ accounts[j][c] \in Int
        /\ accounts'[j][c] = IF j = k THEN accounts[j][c] + d[c] ELSE accounts[j][c]
  BY <1>1, PostColumns DEF Moved
<1> HIDE DEF d
<1>4. ASSUME NEW j \in Agents
      PROVE  AccountReconciles(accounts', commissions', j)
  <2>1. AccountReconciles(accounts, commissions, j)
    BY DEF Reconciled
  <2>2. \A c \in Columns : accounts[j][c] \in Int
    BY <1>3
  <2>3. \A c \in Columns : accounts'[j][c] = accounts[j][c] +
          (IF j = k THEN IF c = from THEN -amount ELSE IF c = to THEN amount ELSE 0 ELSE 0)
    BY <1>2, <1>3
  <2>4. \A c \in {"frozen", "totalEarned", "totalReversed"} : accounts'[j][c] = accounts[j][c]
    BY <2>2, <2>3, ColumnNames
  <2>5. accounts'[j]["available"] + accounts'[j]["withdrawing"] + accounts'[j]["withdrawn"]
          = accounts[j]["available"] + accounts[j]["withdrawing"] + accounts[j]["withdrawn"]
    BY <2>2, <2>3, ColumnNames
  <2> QED
    BY <2>1, <2>4, <2>5 DEF AccountReconciles
<1> QED
  BY <1>4 DEF Reconciled

(* Every step of the whole ledger keeps the books sound and backed.        *)
LEMMA KernelNextMoney ==
  ASSUME MoneyInv, [KernelNext]_kernelVars
  PROVE  MoneyInv'
<1>0. /\ KernelTypeOK /\ KernelTypeOK' /\ EngineTypeOK /\ EngineTypeOK' /\ PayoutsTypeOK
      /\ BooksInv /\ ReconcileInv /\ BooksTypeOK(accounts, ledger)
  BY KernelNextType DEF MoneyInv, KernelTypeOK, EngineTypeOK, StoreTypeOK
<1>1. CASE [EngineNext]_engineVars
  BY <1>0, <1>1, EngineNextSound, EngineNextReconciles DEF MoneyInv
<1>2. ASSUME NEW a, NEW b, NEW e, NEW f, Reconciled(a, b), e = a, f = b
      PROVE  Reconciled(e, f)
  BY <1>2
<1>3. CASE PayoutStep
  <2>1. /\ UNCHANGED <<commissions, tx, undo>>
        /\ UNCHANGED <<accounts, ledger>> \/ PayoutWrites
    BY <1>0, <1>3, PayoutEffect
  <2>2. Sound(accounts, ledger)' /\ Reconciled(accounts, commissions)'
    <3>1. CASE UNCHANGED <<accounts, ledger>>
      BY <1>0, <1>2, <2>1, <3>1, SoundUnchanged DEF BooksInv, ReconcileInv
    <3>2. CASE PayoutWrites
      <4>1. ASSUME NEW k \in Agents, NEW from \in {"available", "withdrawing"},
                   NEW to \in {"available", "withdrawing", "withdrawn"}, NEW amount \in Nat,
                   NEW biz \in BizTypes, NEW w \in Nat,
                   from # to, Moved(k, from, to, amount, biz, w)
            PROVE  Sound(accounts, ledger)' /\ Reconciled(accounts, commissions)'
        <5>1. from \in Buckets /\ to \in Buckets
          BY ColumnNames
        <5>2. Sound(accounts, ledger)'
          BY <1>0, <4>1, <5>1, MovedSound DEF BooksInv
        <5>3. Reconciled(accounts, commissions)'
          BY <1>0, <2>1, <4>1, MovedReconciles DEF ReconcileInv
        <5> QED
          BY <5>2, <5>3
      <4> QED
        BY <1>0, <3>1, <3>2, <4>1, PayoutMoves
    <3> QED
      BY <2>1, <3>1, <3>2
  <2>3. Unlocked' <=> Unlocked
    BY <2>1 DEF Unlocked
  <2>4. Unlocked' \/ Sound(undo.accounts, undo.ledger)'
    BY <1>0, <2>1, <2>3, UndoKept
  <2>5. Unlocked' \/ Reconciled(undo.accounts, undo.commissions)'
    BY <1>0, <1>2, <2>1, <2>3 DEF ReconcileInv
  <2> QED
    BY <1>0, <2>2, <2>4, <2>5 DEF MoneyInv, BooksInv, ReconcileInv
<1>4. CASE Crash
  <2>1. \/ UNCHANGED <<accounts, ledger, commissions, undo>> /\ (Unlocked' <=> Unlocked)
        \/ ~Unlocked /\ Rollback
    BY <1>0, <1>4, CrashEffect
  <2>2. CASE UNCHANGED <<accounts, ledger, commissions, undo>> /\ (Unlocked' <=> Unlocked)
    BY <1>0, <1>2, <2>2, SoundUnchanged, UndoKept DEF MoneyInv, BooksInv, ReconcileInv
  <2>3. CASE ~Unlocked /\ Rollback
    <3>1. Sound(accounts, ledger)' /\ Unlocked'
      BY <1>0, <2>3, RollbackSound
    <3>2. Reconciled(accounts, commissions)'
      BY <1>0, <1>2, <2>3 DEF Rollback, ReconcileInv
    <3> QED
      BY <1>0, <3>1, <3>2 DEF MoneyInv, BooksInv, ReconcileInv
  <2> QED
    BY <2>1, <2>2, <2>3
<1> QED
  BY <1>1, <1>3, <1>4, KernelStep

(* The books stay sound and backed along every behaviour.                  *)
LEMMA KernelMoneyInvariant == KernelSpec => []MoneyInv
<1>1. KernelInit => MoneyInv
  BY KernelInitType, EngineInitType, EngineInitSound, EngineInitReconciles
     DEF MoneyInv, BooksInv, ReconcileInv, KernelInit, EngineInit, Unlocked
<1>2. MoneyInv /\ [KernelNext]_kernelVars => MoneyInv'
  BY KernelNextMoney
<1> QED
  BY <1>1, <1>2, PTL DEF KernelSpec

(* The account of every agent is the sum of its ledger at every point of   *)
(* its history, also while requests, reviews, payouts and their failures   *)
(* post to the same accounts and the process dies in between               *)
(* (IncrementAccount, AppendLedger).                                       *)
THEOREM KernelBooksBalance == KernelSpec => []BooksBalance
<1>1. MoneyInv => BooksBalance
  BY DEF MoneyInv, BooksInv, Sound, BooksBalance
<1> QED
  BY <1>1, KernelMoneyInvariant, PTL

(* No withdrawal ever overdraws a bucket, and a refund makes a debt only   *)
(* where the policy allows one, whatever was withdrawn meanwhile           *)
(* (debitBucket, AccountDelta.Apply).                                      *)
THEOREM KernelBalancesSound == KernelSpec => []BalancesSound
<1>1. MoneyInv => BalancesSound
  BY DEF MoneyInv, BooksInv, Sound, BalancesSound
<1> QED
  BY <1>1, KernelMoneyInvariant, PTL

(* What agents can withdraw, have reserved and have been paid is, together *)
(* and to the cent, what is outstanding of their settled commissions, and  *)
(* the frozen bucket what is outstanding of the others.                    *)
THEOREM KernelMoneyBacked == KernelSpec => []MoneyBacked
<1>1. MoneyInv => MoneyBacked
  BY ReconciledMeans DEF MoneyInv, ReconcileInv, EngineTypeOK, StoreTypeOK
<1> QED
  BY <1>1, KernelMoneyInvariant, PTL

-----------------------------------------------------------------------------
(***************************************************************************)
(* The payouts agree with the books.  As for the engine, the snapshot of   *)
(* an open transaction has to agree as well, because a crash restores it   *)
(* while the withdrawals stay.                                             *)
(***************************************************************************)

OpenStates == {"applied", "approved", "pay_failed"}

PayoutBiz == {"withdraw_hold", "withdraw_paid", "withdraw_refund"}

(* The sums of a table of withdrawals, as functions of the table.          *)
RequestsIn(ws, k, states) ==
  {w \in DOMAIN ws : ws[w].agent = k /\ ws[w].state \in states}

AmountsIn(ws) == [w \in DOMAIN ws |-> ws[w].amount]

AmountIn(ws, k, states) == SumFunctionOnSet(AmountsIn(ws), RequestsIn(ws, k, states))

WithdrawalsBacked(acc, ws) ==
  \A k \in Agents :
    /\ acc[k]["withdrawing"] = AmountIn(ws, k, OpenStates)
    /\ acc[k]["withdrawn"] = AmountIn(ws, k, {"paid"})

(* The entries of agent k's ledger that concern withdrawal w.              *)
Booked(led, k, w, biz) ==
  {i \in DOMAIN led[k] : led[k][i].ref = w /\ led[k][i].biz = biz}

Single(S) == \E x : S = {x}

OnceIf(P, S) == IF P THEN Single(S) ELSE S = {}

OutcomeOf(led, row, w) ==
  /\ Single(Booked(led, row.agent, w, "withdraw_hold"))
  /\ OnceIf(row.state = "paid", Booked(led, row.agent, w, "withdraw_paid"))
  /\ OnceIf(row.state = "rejected", Booked(led, row.agent, w, "withdraw_refund"))

(* No entry concerns a withdrawal that was never requested.                *)
NoneAhead(led, ws) ==
  \A k \in Agents, w \in Nat \ DOMAIN ws, biz \in PayoutBiz : Booked(led, k, w, biz) = {}

Outcomes(led, ws) ==
  /\ \A w \in DOMAIN ws : OutcomeOf(led, ws[w], w)
  /\ NoneAhead(led, ws)

Agrees(acc, led, ws) == WithdrawalsBacked(acc, ws) /\ Outcomes(led, ws)

(* A movement adds one entry, to its own account's ledger.                 *)
LEMMA PostBooked ==
  ASSUME BooksTypeOK(accounts, ledger),
         NEW k \in Agents, NEW d, NEW biz, NEW ref, NEW moves,
         Post(k, d, biz, ref, moves)
  PROVE  \A j \in Agents : \A w, b :
           /\ ~(j = k /\ w = ref /\ b = biz) => Booked(ledger', j, w, b) = Booked(ledger, j, w, b)
           /\ Booked(ledger, k, ref, biz) = {} => Single(Booked(ledger', k, ref, biz))
<1> DEFINE entry == NewLedgerEntry(biz, ref, Apply(accounts[k], d), moves)
           n == Len(ledger[k]) + 1
<1>1. ledger' = [ledger EXCEPT ![k] = Append(ledger[k], entry)]
  BY DEF Post
<1>2. entry.biz = biz /\ entry.ref = ref
  BY DEF NewLedgerEntry
<1> HIDE DEF entry
<1>3. ledger \in [Agents -> Seq(Entry)] /\ ledger[k] \in Seq(Entry)
  BY DEF BooksTypeOK
<1>4. ledger'[k] = Append(ledger[k], entry)
  BY <1>1, <1>3
<1>5. /\ DOMAIN ledger'[k] = DOMAIN ledger[k] \cup {n} /\ ledger'[k][n] = entry
      /\ n \notin DOMAIN ledger[k]
      /\ \A i \in DOMAIN ledger[k] : ledger'[k][i] = ledger[k][i]
  BY <1>3, <1>4
<1>6. \A j \in Agents \ {k} : ledger'[j] = ledger[j]
  BY <1>1, <1>3
<1> HIDE DEF n
<1>7. ASSUME NEW j \in Agents, NEW w, NEW b, ~(j = k /\ w = ref /\ b = biz)
      PROVE  Booked(ledger', j, w, b) = Booked(ledger, j, w, b)
  <2>1. CASE j # k
    BY <1>6, <2>1 DEF Booked
  <2>2. CASE j = k
    <3>1. ~(ledger'[k][n].ref = w /\ ledger'[k][n].biz = b)
      BY <1>2, <1>5, <1>7, <2>2
    <3> QED
      BY <1>5, <2>2, <3>1 DEF Booked
  <2> QED
    BY <2>1, <2>2
<1>8. ASSUME Booked(ledger, k, ref, biz) = {}
      PROVE  Single(Booked(ledger', k, ref, biz))
  <2>1. Booked(ledger', k, ref, biz) = {n}
    BY <1>2, <1>5, <1>8 DEF Booked
  <2> QED
    BY <2>1 DEF Single
<1> QED
  BY <1>7, <1>8

(* The engine never moves reserved or withdrawn money and never books a    *)
(* payout entry.                                                           *)
LEMMA WritesElsewhere ==
  ASSUME EngineTypeOK, Writes
  PROVE  /\ \A k \in Agents : /\ accounts'[k]["withdrawing"] = accounts[k]["withdrawing"]
                              /\ accounts'[k]["withdrawn"] = accounts[k]["withdrawn"]
         /\ \A k \in Agents : \A w : \A b \in PayoutBiz :
              Booked(ledger', k, w, b) = Booked(ledger, k, w, b)
<1> DEFINE Goal ==
         /\ \A k \in Agents : /\ accounts'[k]["withdrawing"] = accounts[k]["withdrawing"]
                              /\ accounts'[k]["withdrawn"] = accounts[k]["withdrawn"]
         /\ \A k \in Agents : \A w : \A b \in PayoutBiz :
              Booked(ledger', k, w, b) = Booked(ledger, k, w, b)
<1>0. BooksTypeOK(accounts, ledger) /\ commissions \in Seq(Commission)
  BY DEF EngineTypeOK, StoreTypeOK
<1>1. ASSUME NEW k \in Agents, NEW d \in Delta, NEW biz, NEW ref, NEW moves,
             biz \notin PayoutBiz, d["withdrawing"] = 0, d["withdrawn"] = 0,
             Post(k, d, biz, ref, moves)
      PROVE  Goal
  <2>1. \A j \in Agents : \A c \in Columns :
          /\ accounts[j][c] \in Int
          /\ accounts'[j][c] = IF j = k THEN accounts[j][c] + d[c] ELSE accounts[j][c]
    BY <1>0, <1>1, PostColumns
  <2>2. \A j \in Agents : /\ accounts'[j]["withdrawing"] = accounts[j]["withdrawing"]
                          /\ accounts'[j]["withdrawn"] = accounts[j]["withdrawn"]
    BY <1>1, <2>1, ColumnNames
  <2>3. \A j \in Agents : \A w : \A b \in PayoutBiz :
          Booked(ledger', j, w, b) = Booked(ledger, j, w, b)
    BY <1>0, <1>1, PostBooked
  <2> QED
    BY <2>2, <2>3
<1>2. ASSUME UNCHANGED <<accounts, ledger>>
      PROVE  Goal
  BY <1>2
<1> HIDE DEF Goal
<1>3. ASSUME NEW rate \in Rates, AccrueLayer(rate)
      PROVE  Goal
  <2> DEFINE amount == LayerAmount(rate)
             d == AccrualDelta(amount)
             ref == Len(commissions) + 1
             moves == [NoMoves EXCEPT !["frozen"] = amount]
  <2>1. AtLayer /\ Post(tx.agent, d, "accrue", ref, moves)
    BY <1>3 DEF AccrueLayer
  <2>2. amount \in Int /\ tx.agent \in Agents
    BY <2>1, <1>3, AtLayerType
  <2> HIDE DEF amount
  <2>3. d["withdrawing"] = 0 /\ d["withdrawn"] = 0 /\ "accrue" \notin PayoutBiz
    BY ColumnNames DEF AccrualDelta, NoDelta, PayoutBiz
  <2>4. d \in Delta
    BY <2>2, AccrualDeltaType
  <2> HIDE DEF d, ref, moves
  <2> QED
    BY <1>1, <2>1, <2>2, <2>3, <2>4
<1>4. ASSUME NEW c \in DOMAIN commissions, NEW target \in Int, NEW terminal,
             NEW biz \in {"reverse", "void"}, ClawBack(c, target, terminal, biz)
      PROVE  Goal
  <2> DEFINE delta == target - commissions[c].reversed
             bucket == ReversalBucket(commissions[c].state)
             k == commissions[c].agent
             d == DebitDelta(bucket, delta)
             ref == Len(commissions) + 1
             moves == [NoMoves EXCEPT ![bucket] = -delta]
  <2>1. Post(k, d, biz, ref, moves)
    BY <1>4 DEF ClawBack
  <2>2. k \in Agents /\ delta \in Int /\ bucket \in {"frozen", "available"}
    BY <1>0, TableTypes DEF ReversalBucket
  <2> HIDE DEF delta, bucket, k
  <2>3. d["withdrawing"] = 0 /\ d["withdrawn"] = 0 /\ biz \notin PayoutBiz
    BY <2>2, ColumnNames DEF DebitDelta, NoDelta, PayoutBiz
  <2>4. d \in Delta
    BY <2>2, ColumnNames, DebitType
  <2> HIDE DEF d, ref, moves
  <2> QED
    BY <1>1, <2>1, <2>2, <2>3, <2>4
<1>5. ASSUME NEW c \in DOMAIN commissions, SettleOne(c)
      PROVE  Goal
  <2> DEFINE amount == Outstanding(commissions[c])
             k == commissions[c].agent
             d == MoveDelta("frozen", "available", amount)
             moves == Moves("frozen", "available", amount)
  <2>1. Post(k, d, "settle", c, moves)
    BY <1>5 DEF SettleOne, SettleDelta
  <2>2. k \in Agents /\ amount \in Int
    BY <1>0, TableTypes DEF Outstanding
  <2> HIDE DEF amount, k
  <2>3. d["withdrawing"] = 0 /\ d["withdrawn"] = 0 /\ "settle" \notin PayoutBiz
    BY ColumnNames DEF MoveDelta, NoDelta, PayoutBiz
  <2>4. d \in Delta
    BY <2>2, MoveType, ColumnNames
  <2> HIDE DEF d, moves
  <2> QED
    BY <1>1, <2>1, <2>2, <2>3, <2>4
<1>6. ASSUME NEW c \in DOMAIN commissions, ReverseLayer(c)
      PROVE  Goal
  <2>1. /\ tx.op = "refund" /\ NeedsReversal(c)
        /\ ClawBack(c, WantReversed(c), "reversed", "reverse")
    BY <1>6 DEF ReverseLayer, NextToReverse
  <2>2. WantReversed(c) \in Int
    BY <1>0, <2>1, TableTypes, WantReversedType DEF NeedsReversal
  <2> QED
    BY <1>4, <2>1, <2>2
<1>7. ASSUME NEW c \in DOMAIN commissions, VoidCommission(c)
      PROVE  Goal
  <2>1. ClawBack(c, commissions[c].amount, "void", "void") /\ commissions[c].amount \in Int
    BY <1>0, <1>7, TableTypes DEF VoidCommission
  <2> QED
    BY <1>4, <2>1
<1>8. ASSUME NEW c \in DOMAIN commissions, FreezeCommission(c) \/ UnfreezeCommission(c)
      PROVE  Goal
  BY <1>2, <1>8 DEF FreezeCommission, UnfreezeCommission
<1>9. ASSUME NEW o \in Orders, NEW at \in ReceiptTimes, OnOrderReceived(o, at)
      PROVE  Goal
  BY <1>2, <1>9 DEF OnOrderReceived
<1>10. Goal
  BY <1>3, <1>5, <1>6, <1>7, <1>8, <1>9 DEF Writes
<1> QED
  BY <1>10 DEF Goal

(* A table B of withdrawals that is A but for row w: every sum changes by  *)
(* the part of w.                                                          *)
LEMMA AmountStep ==
  ASSUME NEW A \in Seq(Withdrawal), NEW B \in Seq(Withdrawal), NEW w,
         DOMAIN A \ {w} = DOMAIN B \ {w},
         \A v \in DOMAIN A \ {w} : B[v] = A[v],
         NEW k, NEW states
  PROVE  /\ AmountIn(A, k, states) \in Int
         /\ AmountIn(B, k, states) = AmountIn(A, k, states)
              - (IF w \in RequestsIn(A, k, states) THEN A[w].amount ELSE 0)
              + (IF w \in RequestsIn(B, k, states) THEN B[w].amount ELSE 0)
<1> DEFINE f == AmountsIn(A)
           g == AmountsIn(B)
           S == RequestsIn(A, k, states)
           T == RequestsIn(B, k, states)
<1>1. /\ S \subseteq DOMAIN A /\ T \subseteq DOMAIN B
      /\ S \ {w} = T \ {w}
  BY DEF RequestsIn
<1>2. IsFiniteSet(S)
  <2>1. IsFiniteSet(DOMAIN A)
    BY FS_Interval
  <2> QED
    BY <1>1, <2>1, FS_Subset
<1>3. ASSUME NEW ws \in Seq(Withdrawal), NEW v \in DOMAIN ws
      PROVE  AmountsIn(ws)[v] = ws[v].amount /\ AmountsIn(ws)[v] \in Int
  <2>1. ws[v] \in Withdrawal
    OBVIOUS
  <2> QED
    BY <2>1 DEF Withdrawal, AmountsIn
<1>4. /\ \A v \in S : f[v] = A[v].amount /\ f[v] \in Int
      /\ \A v \in T : g[v] = B[v].amount /\ g[v] \in Int
  BY <1>1, <1>3
<1>5. \A v \in S \ {w} : f[v] = g[v]
  BY <1>1, <1>4
<1> HIDE DEF f, g, S, T
<1>6. SumFunctionOnSet(g, T) = SumFunctionOnSet(f, S) - (IF w \in S THEN f[w] ELSE 0)
                                                      + (IF w \in T THEN g[w] ELSE 0)
  BY <1>1, <1>2, <1>4, <1>5, SumStep
<1>7. SumFunctionOnSet(f, S) \in Int
  BY <1>2, <1>4, SumIsInt
<1> QED
  BY <1>4, <1>6, <1>7 DEF S, T, f, g, AmountIn

(* Books whose payout columns and payout entries were left alone agree     *)
(* with the withdrawals as before.                                         *)
LEMMA AgreesKept ==
  ASSUME NEW ws \in Seq(Withdrawal), NEW acc, NEW led, NEW bcc, NEW bed, Agrees(acc, led, ws),
         \A k \in Agents : /\ bcc[k]["withdrawing"] = acc[k]["withdrawing"]
                           /\ bcc[k]["withdrawn"] = acc[k]["withdrawn"],
         \A k \in Agents : \A w : \A b \in PayoutBiz :
           Booked(bed, k, w, b) = Booked(led, k, w, b)
  PROVE  Agrees(bcc, bed, ws)
<1>1. ASSUME NEW w \in DOMAIN ws
      PROVE  OutcomeOf(bed, ws[w], w)
  <2>1. OutcomeOf(led, ws[w], w)
    BY DEF Agrees, Outcomes
  <2>2. ws[w] \in Withdrawal
    OBVIOUS
  <2>3. ws[w].agent \in Agents
    BY <2>2 DEF Withdrawal
  <2> QED
    BY <2>1, <2>3 DEF OutcomeOf, PayoutBiz
<1>2. NoneAhead(bed, ws)
  BY DEF Agrees, Outcomes, NoneAhead
<1>3. WithdrawalsBacked(bcc, ws)
  BY DEF Agrees, WithdrawalsBacked
<1> QED
  BY <1>1, <1>2, <1>3 DEF Agrees, Outcomes

(* The columns after a move.                                               *)
LEMMA MovedColumns ==
  ASSUME BooksTypeOK(accounts, ledger), NEW k \in Agents,
         NEW from \in {"available", "withdrawing"},
         NEW to \in {"available", "withdrawing", "withdrawn"}, from # to,
         NEW amount \in Nat, NEW biz, NEW w, Moved(k, from, to, amount, biz, w)
  PROVE  \A j \in Agents : \A c \in {"available", "withdrawing", "withdrawn"} :
           /\ accounts[j][c] \in Int
           /\ accounts'[j][c] = accounts[j][c] +
                (IF j = k THEN IF c = from THEN -amount ELSE IF c = to THEN amount ELSE 0 ELSE 0)
<1> DEFINE d == MoveDelta(from, to, amount)
<1>1. d \in Delta
  BY MoveType, ColumnNames
<1>2. \A c \in Columns : d[c] = IF c = from THEN -amount ELSE IF c = to THEN amount ELSE 0
  BY ColumnNames DEF MoveDelta, NoDelta
<1>3. \A j \in Agents : \A c \in Columns :
        /\ accounts[j][c] \in Int
        /\ accounts'[j][c] = IF j = k THEN accounts[j][c] + d[c] ELSE accounts[j][c]
  BY <1>1, PostColumns DEF Moved
<1> HIDE DEF d
<1> QED
  BY <1>2, <1>3, ColumnNames

(* A request: the amount joins the reserved bucket with its row.           *)
LEMMA RequestAgrees ==
  ASSUME KernelTypeOK, Agrees(accounts, ledger, withdrawals),
         NEW k \in Agents, NEW key \in RequestKeys, NEW amount \in WithdrawAmounts,
         RequestWithdraw(k, key, amount),
         Moved(k, "available", "withdrawing", amount, "withdraw_hold", Len(withdrawals) + 1)
  PROVE  Agrees(accounts', ledger', withdrawals')
<1> DEFINE A == withdrawals
           B == withdrawals'
           x == Len(withdrawals) + 1
<1>0. BooksTypeOK(accounts, ledger) /\ A \in Seq(Withdrawal) /\ PayoutsTypeOK /\ amount \in Nat
  BY PayoutsAssumption DEF KernelTypeOK, EngineTypeOK, StoreTypeOK, PayoutsTypeOK
<1>1. /\ B \in Seq(Withdrawal) /\ x \in Nat
      /\ DOMAIN B = DOMAIN A \cup {x} /\ x \notin DOMAIN A
      /\ \A v \in DOMAIN A : B[v] = A[v]
      /\ B[x].agent = k /\ B[x].amount = amount /\ B[x].state = "applied"
  <2>1. Len(withdrawals) \in Nat
    BY <1>0
  <2>2. x \in Nat
    BY <2>1
  <2> HIDE DEF x
  <2> QED
    BY <1>0, <2>2, RequestRows DEF x
<1>2. \A j \in Agents : \A w, b :
        /\ ~(j = k /\ w = x /\ b = "withdraw_hold") => Booked(ledger', j, w, b) = Booked(ledger, j, w, b)
        /\ Booked(ledger, k, x, "withdraw_hold") = {} => Single(Booked(ledger', k, x, "withdraw_hold"))
  BY <1>0, PostBooked DEF Moved
<1>3. \A j \in Agents : /\ accounts'[j]["withdrawing"] = accounts[j]["withdrawing"]
                                                          + (IF j = k THEN amount ELSE 0)
                        /\ accounts'[j]["withdrawn"] = accounts[j]["withdrawn"] + 0
                        /\ accounts[j]["withdrawing"] \in Int /\ accounts[j]["withdrawn"] \in Int
  BY <1>0, MovedColumns
<1> HIDE DEF x, B
<1>4. ASSUME NEW j \in Agents
      PROVE  /\ AmountIn(B, j, OpenStates) = AmountIn(A, j, OpenStates) - 0
                                                + (IF j = k THEN amount ELSE 0)
             /\ AmountIn(B, j, {"paid"}) = AmountIn(A, j, {"paid"}) - 0 + 0
  <2>1. /\ x \notin RequestsIn(A, j, OpenStates) /\ x \notin RequestsIn(A, j, {"paid"})
        /\ x \notin RequestsIn(B, j, {"paid"})
        /\ x \in RequestsIn(B, j, OpenStates) <=> j = k
    BY <1>1 DEF RequestsIn, OpenStates
  <2>2. DOMAIN A \ {x} = DOMAIN B \ {x} /\ \A v \in DOMAIN A \ {x} : B[v] = A[v]
    BY <1>1
  <2>3. \A ss : AmountIn(B, j, ss) = AmountIn(A, j, ss)
              - (IF x \in RequestsIn(A, j, ss) THEN A[x].amount ELSE 0)
              + (IF x \in RequestsIn(B, j, ss) THEN B[x].amount ELSE 0)
    BY <1>0, <1>1, <2>2, AmountStep
  <2> QED
    BY <1>1, <2>1, <2>3
<1>5. WithdrawalsBacked(accounts', B)
  BY <1>0, <1>3, <1>4 DEF Agrees, WithdrawalsBacked
<1>6. NoneAhead(ledger, A) /\ \A w \in DOMAIN A : OutcomeOf(ledger, A[w], w)
  BY DEF Agrees, Outcomes
<1>7. \A j \in Agents, b \in PayoutBiz : Booked(ledger, j, x, b) = {}
  BY <1>1, <1>6 DEF NoneAhead
<1>8. ASSUME NEW w \in DOMAIN B
      PROVE  OutcomeOf(ledger', B[w], w)
  <2>1. CASE w = x
    <3>1. Single(Booked(ledger', k, x, "withdraw_hold"))
      BY <1>2, <1>7 DEF PayoutBiz
    <3>2. Booked(ledger', k, x, "withdraw_paid") = {} /\ Booked(ledger', k, x, "withdraw_refund") = {}
      BY <1>2, <1>7 DEF PayoutBiz
    <3> QED
      BY <1>1, <2>1, <3>1, <3>2 DEF OutcomeOf, OnceIf
  <2>2. CASE w # x
    <3>1. w \in DOMAIN A /\ B[w] = A[w] /\ B[w] \in Withdrawal
      BY <1>0, <1>1, <2>2
    <3>2. B[w].agent \in Agents
      BY <3>1 DEF Withdrawal
    <3>3. \A b : Booked(ledger', B[w].agent, w, b) = Booked(ledger, B[w].agent, w, b)
      BY <1>2, <2>2, <3>2
    <3> QED
      BY <1>6, <3>1, <3>3 DEF OutcomeOf
  <2> QED
    BY <2>1, <2>2
<1>9. NoneAhead(ledger', B)
  BY <1>1, <1>2, <1>6 DEF NoneAhead
<1> QED
  BY <1>5, <1>8, <1>9 DEF Agrees, Outcomes, B

(* A review or a failed payout that moves no money keeps the row open.     *)
LEMMA OpenAgrees ==
  ASSUME KernelTypeOK, Agrees(accounts, ledger, withdrawals),
         NEW w \in DOMAIN withdrawals, NEW to \in {"approved", "pay_failed"},
         TransitionWithdrawal(w, to), Reserved(withdrawals[w].state),
         UNCHANGED <<accounts, ledger>>
  PROVE  Agrees(accounts', ledger', withdrawals')
<1> DEFINE A == withdrawals
           B == withdrawals'
<1>0. A \in Seq(Withdrawal) /\ PayoutsTypeOK
  BY DEF KernelTypeOK, PayoutsTypeOK
<1>1. /\ B \in Seq(Withdrawal) /\ DOMAIN B = DOMAIN A
      /\ \A v \in DOMAIN A \ {w} : B[v] = A[v]
      /\ B[w].agent = A[w].agent /\ B[w].amount = A[w].amount /\ B[w].state = to
  BY <1>0, WithdrawalRows DEF WithdrawalStates
<1> HIDE DEF A, B
<1>2. \A v \in DOMAIN A : /\ B[v].agent = A[v].agent /\ B[v].amount = A[v].amount
                          /\ (B[v].state \in OpenStates <=> A[v].state \in OpenStates)
                          /\ (B[v].state = "paid" <=> A[v].state = "paid")
                          /\ (B[v].state = "rejected" <=> A[v].state = "rejected")
  BY <1>1 DEF OpenStates, Reserved, A
<1>3. /\ AmountsIn(B) = AmountsIn(A)
      /\ \A k : /\ RequestsIn(B, k, OpenStates) = RequestsIn(A, k, OpenStates)
                /\ RequestsIn(B, k, {"paid"}) = RequestsIn(A, k, {"paid"})
  BY <1>1, <1>2 DEF AmountsIn, RequestsIn
<1>4. WithdrawalsBacked(accounts', B)
  BY <1>3 DEF Agrees, WithdrawalsBacked, AmountIn, A
<1>5. \A v \in DOMAIN B : OutcomeOf(ledger', B[v], v)
  BY <1>1, <1>2 DEF Agrees, Outcomes, OutcomeOf, A
<1>6. NoneAhead(ledger', B)
  BY <1>1 DEF Agrees, Outcomes, NoneAhead, A
<1> QED
  BY <1>4, <1>5, <1>6 DEF Agrees, Outcomes, B

(* A rejection or a recorded payout closes the row and moves its money out *)
(* of the reserved bucket, once.                                           *)
LEMMA ClosedAgrees ==
  ASSUME KernelTypeOK, Agrees(accounts, ledger, withdrawals),
         NEW w \in DOMAIN withdrawals, NEW to \in {"paid", "rejected"}, NEW bucket, NEW biz,
         \/ to = "paid" /\ bucket = "withdrawn" /\ biz = "withdraw_paid"
         \/ to = "rejected" /\ bucket = "available" /\ biz = "withdraw_refund",
         TransitionWithdrawal(w, to), Reserved(withdrawals[w].state),
         Moved(withdrawals[w].agent, "withdrawing", bucket, withdrawals[w].amount, biz, w)
  PROVE  Agrees(accounts', ledger', withdrawals')
<1> DEFINE A == withdrawals
           B == withdrawals'
           k == withdrawals[w].agent
           amount == withdrawals[w].amount
<1>0. BooksTypeOK(accounts, ledger) /\ A \in Seq(Withdrawal) /\ PayoutsTypeOK
  BY DEF KernelTypeOK, EngineTypeOK, StoreTypeOK, PayoutsTypeOK
<1>1. /\ B \in Seq(Withdrawal) /\ DOMAIN B = DOMAIN A
      /\ \A v \in DOMAIN A \ {w} : B[v] = A[v]
      /\ B[w].agent = k /\ B[w].amount = amount /\ B[w].state = to
  BY <1>0, WithdrawalRows DEF WithdrawalStates
<1>2. A[w].agent = k /\ A[w].amount = amount /\ A[w].state \in OpenStates
  BY DEF Reserved, OpenStates
<1>3. k \in Agents /\ amount \in Nat
  <2>1. withdrawals[w] \in Withdrawal
    BY <1>0
  <2> QED
    BY <2>1 DEF Withdrawal
<1>4. Moved(k, "withdrawing", bucket, amount, biz, w)
  OBVIOUS
<1>5. w \in DOMAIN A
  OBVIOUS
<1> HIDE DEF A, B, k, amount
<1>6. \A j \in Agents : \A v, b :
        /\ ~(j = k /\ v = w /\ b = biz) => Booked(ledger', j, v, b) = Booked(ledger, j, v, b)
        /\ Booked(ledger, k, w, biz) = {} => Single(Booked(ledger', k, w, biz))
  BY <1>0, <1>3, <1>4, PostBooked DEF Moved
<1>7. \A j \in Agents :
        /\ accounts'[j]["withdrawing"] = accounts[j]["withdrawing"]
                                          - (IF j = k THEN amount ELSE 0)
        /\ accounts'[j]["withdrawn"] = accounts[j]["withdrawn"]
                                        + (IF j = k /\ to = "paid" THEN amount ELSE 0)
        /\ accounts[j]["withdrawing"] \in Int /\ accounts[j]["withdrawn"] \in Int
  <2>1. bucket \in {"available", "withdrawing", "withdrawn"} /\ bucket # "withdrawing"
    OBVIOUS
  <2>2. \A j \in Agents : \A c \in {"available", "withdrawing", "withdrawn"} :
          /\ accounts[j][c] \in Int
          /\ accounts'[j][c] = accounts[j][c] +
               (IF j = k THEN IF c = "withdrawing" THEN -amount
                              ELSE IF c = bucket THEN amount ELSE 0
                ELSE 0)
    BY <1>0, <1>3, <1>4, <2>1, MovedColumns
  <2> QED
    BY <1>3, <2>2
<1>8. ASSUME NEW j \in Agents
      PROVE  /\ AmountIn(B, j, OpenStates) = AmountIn(A, j, OpenStates)
                                                - (IF j = k THEN amount ELSE 0) + 0
             /\ AmountIn(B, j, {"paid"}) = AmountIn(A, j, {"paid"})
                                                - 0 + (IF j = k /\ to = "paid" THEN amount ELSE 0)
             /\ AmountIn(A, j, OpenStates) \in Int /\ AmountIn(A, j, {"paid"}) \in Int
  <2>1. /\ w \in RequestsIn(A, j, OpenStates) <=> j = k
        /\ w \notin RequestsIn(A, j, {"paid"})
        /\ w \notin RequestsIn(B, j, OpenStates)
        /\ w \in RequestsIn(B, j, {"paid"}) <=> j = k /\ to = "paid"
    BY <1>1, <1>2, <1>5 DEF RequestsIn, OpenStates
  <2>2. DOMAIN A \ {w} = DOMAIN B \ {w}
    BY <1>1
  <2>3. \A ss : /\ AmountIn(A, j, ss) \in Int
                /\ AmountIn(B, j, ss) = AmountIn(A, j, ss)
                     - (IF w \in RequestsIn(A, j, ss) THEN A[w].amount ELSE 0)
                     + (IF w \in RequestsIn(B, j, ss) THEN B[w].amount ELSE 0)
    BY <1>0, <1>1, <2>2, AmountStep DEF A
  <2> QED
    BY <1>1, <1>2, <2>1, <2>3
<1>9. WithdrawalsBacked(accounts, A)
  BY DEF Agrees, A
<1>10. WithdrawalsBacked(accounts', B)
  BY <1>3, <1>7, <1>8, <1>9 DEF WithdrawalsBacked
<1>11. NoneAhead(ledger, A) /\ \A v \in DOMAIN A : OutcomeOf(ledger, A[v], v)
  BY DEF Agrees, Outcomes, A
<1>12. ASSUME NEW v \in DOMAIN B
       PROVE  OutcomeOf(ledger', B[v], v)
  <2>1. CASE v = w
    <3>1. /\ Single(Booked(ledger, k, w, "withdraw_hold"))
          /\ Booked(ledger, k, w, "withdraw_paid") = {}
          /\ Booked(ledger, k, w, "withdraw_refund") = {}
      BY <1>2, <1>5, <1>11 DEF OutcomeOf, OnceIf, OpenStates
    <3>2. \A b : b # biz => Booked(ledger', k, w, b) = Booked(ledger, k, w, b)
      BY <1>3, <1>6
    <3>3. Single(Booked(ledger', k, w, biz))
      BY <1>3, <1>6, <3>1
    <3> QED
      BY <1>1, <2>1, <3>1, <3>2, <3>3 DEF OutcomeOf, OnceIf
  <2>2. CASE v # w
    <3>1. v \in DOMAIN A /\ B[v] = A[v] /\ B[v] \in Withdrawal
      BY <1>1, <2>2
    <3>2. B[v].agent \in Agents
      BY <3>1 DEF Withdrawal
    <3>3. \A b : Booked(ledger', B[v].agent, v, b) = Booked(ledger, B[v].agent, v, b)
      BY <1>6, <2>2, <3>2
    <3> QED
      BY <1>11, <3>1, <3>3 DEF OutcomeOf
  <2> QED
    BY <2>1, <2>2
<1>13. NoneAhead(ledger', B)
  BY <1>1, <1>5, <1>6, <1>11 DEF NoneAhead
<1> QED
  BY <1>10, <1>12, <1>13 DEF Agrees, Outcomes, B

(* Every write of the payouts keeps the withdrawals and the books in       *)
(* agreement.                                                              *)
LEMMA PayoutWritesAgree ==
  ASSUME KernelTypeOK, Agrees(accounts, ledger, withdrawals), PayoutWrites
  PROVE  Agrees(accounts', ledger', withdrawals')
<1>0. PayoutsTypeOK
  BY DEF KernelTypeOK
<1>1. ASSUME NEW w \in DOMAIN withdrawals,
             TransitionWithdrawal(w, "rejected"), Reserved(withdrawals[w].state),
             Moved(withdrawals[w].agent, "withdrawing", "available",
                   withdrawals[w].amount, "withdraw_refund", w)
      PROVE  Agrees(accounts', ledger', withdrawals')
  BY <1>1, ClosedAgrees
<1>2. ASSUME NEW w \in DOMAIN withdrawals,
             TransitionWithdrawal(w, "paid"), Reserved(withdrawals[w].state),
             Moved(withdrawals[w].agent, "withdrawing", "withdrawn",
                   withdrawals[w].amount, "withdraw_paid", w)
      PROVE  Agrees(accounts', ledger', withdrawals')
  BY <1>2, ClosedAgrees
<1> QED
  BY <1>0, <1>1, <1>2, PayoutCases, RequestAgrees, OpenAgrees

(* The invariant: the books of an open transaction and those it would be   *)
(* rolled back to both agree with the withdrawals.                         *)
PayoutsInv ==
  /\ KernelTypeOK
  /\ Agrees(accounts, ledger, withdrawals)
  /\ Unlocked \/ Agrees(undo.accounts, undo.ledger, withdrawals)

(* Every step of the whole ledger keeps both agreements.                   *)
LEMMA KernelNextAgrees ==
  ASSUME PayoutsInv, [KernelNext]_kernelVars
  PROVE  PayoutsInv'
<1> DEFINE Goal == /\ Agrees(accounts, ledger, withdrawals)'
                   /\ Unlocked' \/ Agrees(undo.accounts, undo.ledger, withdrawals)'
<1>0. /\ KernelTypeOK /\ KernelTypeOK' /\ EngineTypeOK /\ withdrawals \in Seq(Withdrawal)
      /\ Agrees(accounts, ledger, withdrawals)
      /\ Unlocked \/ Agrees(undo.accounts, undo.ledger, withdrawals)
  BY KernelNextType DEF PayoutsInv, KernelTypeOK, PayoutsTypeOK
<1> SUFFICES Goal
  BY <1>0 DEF PayoutsInv
<1>1. ASSUME NEW a, NEW b, NEW c, NEW e, NEW f, NEW g, Agrees(a, b, c), e = a, f = b, g = c
      PROVE  Agrees(e, f, g)
  BY <1>1
<1>2. ASSUME UNCHANGED <<accounts, ledger, undo, withdrawals>>, Unlocked' <=> Unlocked
      PROVE  Goal
  BY <1>0, <1>1, <1>2
<1>3. ASSUME ~Unlocked, Rollback, UNCHANGED withdrawals
      PROVE  Goal
  BY <1>0, <1>1, <1>3 DEF Rollback, Unlocked
<1>4. ASSUME [EngineNext]_engineVars, UNCHANGED withdrawals
      PROVE  Goal
  <2>1. CASE Writes /\ UNCHANGED undo /\ (Unlocked' <=> Unlocked)
    <3>1. Agrees(accounts', ledger', withdrawals)
      BY <1>0, <2>1, WritesElsewhere, AgreesKept
    <3> QED
      BY <1>0, <1>1, <1>4, <2>1, <3>1
  <2>2. ASSUME NEW t, Begin(t)
        PROVE  Goal
    BY <1>0, <1>1, <1>4, <2>2 DEF Begin, storeVars
  <2>3. CASE Commit
    BY <1>0, <1>1, <1>4, <2>3 DEF Commit, storeVars, Unlocked
  <2> HIDE DEF Goal
  <2> QED
    BY <1>0, <1>2, <1>3, <1>4, <2>1, <2>2, <2>3, StoreStep
<1>5. CASE PayoutStep
  <2>1. /\ UNCHANGED <<tx, undo>>
        /\ UNCHANGED <<accounts, ledger, withdrawals>> \/ (Unlocked /\ PayoutWrites)
    BY <1>0, <1>5, PayoutEffect
  <2>2. Unlocked' <=> Unlocked
    BY <2>1 DEF Unlocked
  <2>3. CASE Unlocked /\ PayoutWrites
    <3>1. Agrees(accounts', ledger', withdrawals')
      BY <1>0, <2>3, PayoutWritesAgree
    <3> QED
      BY <2>2, <2>3, <3>1
  <2> HIDE DEF Goal
  <2> QED
    BY <1>2, <2>1, <2>2, <2>3
<1>6. CASE Crash
  <2>1. /\ UNCHANGED withdrawals
        /\ \/ UNCHANGED <<accounts, ledger, commissions, undo>> /\ (Unlocked' <=> Unlocked)
           \/ ~Unlocked /\ Rollback
    BY <1>0, <1>6, CrashEffect
  <2> HIDE DEF Goal
  <2> QED
    BY <1>2, <1>3, <2>1
<1> HIDE DEF Goal
<1> QED
  BY <1>4, <1>5, <1>6, KernelStep DEF payoutVars

(* An empty ledger agrees with no withdrawals.                             *)
LEMMA KernelInitAgrees == KernelInit => PayoutsInv
<1> SUFFICES ASSUME KernelInit PROVE PayoutsInv
  OBVIOUS
<1>1. /\ withdrawals = << >> /\ Unlocked
      /\ \A k \in Agents : accounts[k] = EmptyAccount /\ ledger[k] = << >>
  BY DEF KernelInit, PayoutsInit, EngineInit, BooksInit, Unlocked
<1>2. KernelTypeOK
  BY KernelInitType
<1>3. \A k, ss : RequestsIn(withdrawals, k, ss) = {}
  BY <1>1 DEF RequestsIn
<1>4. \A k, ss : AmountIn(withdrawals, k, ss) = 0
  BY <1>3, SumOfNone DEF AmountIn
<1>5. \A k \in Agents : accounts[k]["withdrawing"] = 0 /\ accounts[k]["withdrawn"] = 0
  BY <1>1, ColumnNames DEF EmptyAccount
<1>6. Outcomes(ledger, withdrawals)
  BY <1>1 DEF Outcomes, NoneAhead, Booked
<1> QED
  BY <1>1, <1>2, <1>4, <1>5, <1>6 DEF PayoutsInv, Agrees, WithdrawalsBacked

(* The agreement holds along every behaviour.                              *)
LEMMA KernelPayoutsInvariant == KernelSpec => []PayoutsInv
<1>1. PayoutsInv /\ [KernelNext]_kernelVars => PayoutsInv'
  BY KernelNextAgrees
<1> QED
  BY <1>1, KernelInitAgrees, PTL DEF KernelSpec

(* SelfCheck's I4: the reserved bucket is the sum of the open withdrawals  *)
(* and the withdrawn bucket that of the paid ones, for any number of       *)
(* withdrawals, payout workers, retries and crashes, and whatever refunds  *)
(* and settlements do to the account meanwhile (releaseReservation,        *)
(* settlePayout).                                                          *)
THEOREM KernelWithdrawalsReconcile == KernelSpec => []WithdrawalsReconcile
<1>1. PayoutsInv => WithdrawalsReconcile
  <2> SUFFICES ASSUME PayoutsInv PROVE WithdrawalsReconcile
    OBVIOUS
  <2>1. \A k, ss : AmountIn(withdrawals, k, ss) = AmountOf(WithdrawalsOf(k, ss))
    BY DEF AmountIn, AmountsIn, RequestsIn, AmountOf, WithdrawalsOf
  <2> QED
    BY <2>1 DEF PayoutsInv, Agrees, WithdrawalsBacked, OpenStates, WithdrawalsReconcile
<1> QED
  BY <1>1, KernelPayoutsInvariant, PTL

(* Every withdrawal was reserved exactly once and has at most one outcome  *)
(* in the books, the one its state names, whichever payout calls,          *)
(* rejections and crashes race (settlePayout, RejectWithdraw).             *)
THEOREM KernelOneOutcome == KernelSpec => []OneOutcome
<1>1. \A S : Single(S) => Cardinality(S) = 1
  BY FS_Singleton DEF Single
<1>2. Cardinality({}) = 0
  BY FS_EmptySet
<1>3. PayoutsInv => OneOutcome
  <2> SUFFICES ASSUME PayoutsInv, NEW w \in DOMAIN withdrawals
               PROVE  /\ Cardinality(EntriesFor(w, "withdraw_hold")) = 1
                      /\ Cardinality(EntriesFor(w, "withdraw_paid")) =
                           (IF withdrawals[w].state = "paid" THEN 1 ELSE 0)
                      /\ Cardinality(EntriesFor(w, "withdraw_refund")) =
                           (IF withdrawals[w].state = "rejected" THEN 1 ELSE 0)
    BY DEF OneOutcome
  <2>1. \A b : EntriesFor(w, b) = Booked(ledger, withdrawals[w].agent, w, b)
    BY DEF EntriesFor, Booked
  <2>2. OutcomeOf(ledger, withdrawals[w], w)
    BY DEF PayoutsInv, Agrees, Outcomes
  <2> QED
    BY <1>1, <1>2, <2>1, <2>2 DEF OutcomeOf, OnceIf
<1> QED
  BY <1>3, KernelPayoutsInvariant, PTL

-----------------------------------------------------------------------------
(***************************************************************************)
(* Money the books call paid has left the platform.  A call that has the   *)
(* channel's word works on a transferred row, and no call is ever made for *)
(* a row nobody has approved.                                              *)
(***************************************************************************)

TransferInv ==
  /\ KernelTypeOK
  /\ PaidWasTransferred
  /\ \A p \in Workers :
       calls[p].pc # "idle" =>
         /\ withdrawals[calls[p].w].state # "applied"
         /\ calls[p].pc = "paid" => calls[p].w \in transfers

(* Every step keeps the calls honest.                                      *)
LEMMA KernelNextTransfers ==
  ASSUME TransferInv, [KernelNext]_kernelVars
  PROVE  TransferInv'
<1> DEFINE CallOK(p) == calls[p].pc # "idle" =>
                          /\ withdrawals[calls[p].w].state # "applied"
                          /\ calls[p].pc = "paid" => calls[p].w \in transfers
           Goal == PaidWasTransferred' /\ \A p \in Workers : CallOK(p)'
<1>0. /\ KernelTypeOK /\ KernelTypeOK' /\ PayoutsTypeOK /\ PayoutsTypeOK'
      /\ withdrawals \in Seq(Withdrawal) /\ calls \in [Workers -> Call]
      /\ transfers \subseteq DOMAIN withdrawals
      /\ PaidWasTransferred /\ \A p \in Workers : CallOK(p)
      /\ \A p \in Workers : calls[p].pc # "idle" => calls[p].w \in DOMAIN withdrawals
  BY KernelNextType, CallType DEF TransferInv, KernelTypeOK, PayoutsTypeOK
<1> SUFFICES Goal
  BY <1>0 DEF TransferInv
<1>1. ASSUME UNCHANGED <<withdrawals, transfers>>, \A p \in Workers : calls'[p] \in {calls[p], NoCall}
      PROVE  Goal
  BY <1>0, <1>1 DEF PaidWasTransferred, NoCall
<1>2. CASE PayoutStep
  <2>1. ASSUME NEW k \in Agents, NEW key \in RequestKeys, NEW amount \in WithdrawAmounts,
               RequestWithdraw(k, key, amount)
        PROVE  Goal
    <3>1. UNCHANGED <<calls, transfers>>
      BY <2>1 DEF RequestWithdraw
    <3>2. /\ DOMAIN withdrawals' = DOMAIN withdrawals \cup {Len(withdrawals) + 1}
          /\ Len(withdrawals) + 1 \notin DOMAIN withdrawals
          /\ \A v \in DOMAIN withdrawals : withdrawals'[v] = withdrawals[v]
          /\ withdrawals'[Len(withdrawals) + 1].state = "applied"
      BY <1>0, <2>1, RequestRows
    <3> QED
      BY <1>0, <3>1, <3>2 DEF PaidWasTransferred
  <2>2. ASSUME NEW w \in DOMAIN withdrawals, NEW to \in {"approved", "rejected", "pay_failed", "paid"},
               TransitionWithdrawal(w, to), UNCHANGED transfers,
               to = "paid" => w \in transfers,
               \A p \in Workers : calls'[p] \in {calls[p], NoCall}
        PROVE  Goal
    <3>1. /\ DOMAIN withdrawals' = DOMAIN withdrawals
          /\ \A v \in DOMAIN withdrawals \ {w} : withdrawals'[v] = withdrawals[v]
          /\ withdrawals'[w].state = to
      BY <1>0, <2>2, WithdrawalRows DEF WithdrawalStates
    <3> QED
      BY <1>0, <2>2, <3>1 DEF PaidWasTransferred, NoCall
  <2>3. ASSUME NEW w \in DOMAIN withdrawals, ApproveWithdraw(w) \/ RejectWithdraw(w)
        PROVE  Goal
    <3>1. /\ UNCHANGED <<calls, transfers>>
          /\ TransitionWithdrawal(w, "approved") \/ TransitionWithdrawal(w, "rejected")
      BY <2>3 DEF ApproveWithdraw, RejectWithdraw
    <3> QED
      BY <2>2, <3>1
  <2>4. ASSUME NEW p \in Workers, NEW w \in DOMAIN withdrawals, NEW pc \in {"calling", "paid", "failed"},
               UNCHANGED withdrawals, withdrawals[w].state # "applied",
               calls'[p].pc = pc, calls'[p].w = w,
               \A q \in Workers \ {p} : calls'[q] = calls[q],
               transfers \subseteq transfers', transfers' \subseteq transfers \cup {w},
               pc = "paid" => w \in transfers'
        PROVE  Goal
    <3>1. \A q \in Workers : CallOK(q)'
      BY <1>0, <2>4
    <3> QED
      BY <1>0, <2>4, <3>1 DEF PaidWasTransferred
  <2>5. ASSUME NEW p \in Workers, NEW w \in DOMAIN withdrawals,
               PayWithdraw(p, w) \/ MarkWithdrawPaid(p, w)
        PROVE  Goal
    <3>1. /\ UNCHANGED withdrawals /\ withdrawals[w].state # "applied"
      BY <2>5 DEF PayWithdraw, MarkWithdrawPaid, Payable
    <3>2. PICK pc \in {"calling", "paid"} :
            /\ calls' = [calls EXCEPT ![p] = [pc |-> pc, w |-> w]]
            /\ transfers \subseteq transfers' /\ transfers' \subseteq transfers \cup {w}
            /\ pc = "paid" => w \in transfers'
      BY <2>5 DEF PayWithdraw, MarkWithdrawPaid
    <3>3. /\ calls'[p].pc = pc /\ calls'[p].w = w
          /\ \A q \in Workers \ {p} : calls'[q] = calls[q]
      BY <1>0, <3>2
    <3> QED
      BY <2>4, <3>1, <3>2, <3>3
  <2>6. ASSUME NEW p \in Workers, ChannelPays(p) \/ ChannelFails(p)
        PROVE  Goal
    <3>1. /\ UNCHANGED withdrawals /\ calls[p].pc # "idle"
          /\ calls[p].w \in DOMAIN withdrawals /\ calls[p] \in Call
          /\ withdrawals[calls[p].w].state # "applied"
      BY <1>0, <2>6 DEF ChannelPays, ChannelFails
    <3>2. PICK pc \in {"paid", "failed"} :
            /\ calls' = [calls EXCEPT ![p].pc = pc]
            /\ transfers \subseteq transfers' /\ transfers' \subseteq transfers \cup {calls[p].w}
            /\ pc = "paid" => calls[p].w \in transfers'
      BY <2>6 DEF ChannelPays, ChannelFails
    <3>3. [calls[p] EXCEPT !.pc = pc].pc = pc /\ [calls[p] EXCEPT !.pc = pc].w = calls[p].w
      BY <3>1 DEF Call
    <3>4. /\ calls'[p].pc = pc /\ calls'[p].w = calls[p].w
          /\ \A q \in Workers \ {p} : calls'[q] = calls[q]
      BY <1>0, <3>2, <3>3
    <3> QED
      BY <2>4, <3>1, <3>2, <3>4
  <2>7. ASSUME NEW p \in Workers, RecordStep(p)
        PROVE  Goal
    <3>1. UNCHANGED transfers /\ calls' = [calls EXCEPT ![p] = NoCall]
      BY <2>7 DEF RecordStep, SettlePayout, SettlePayoutNothing, RecordPayoutFailure, Return
    <3>2. \A q \in Workers : calls'[q] \in {calls[q], NoCall}
      BY <1>0, <3>1
    <3>3. calls[p].pc # "idle" /\ calls[p].w \in DOMAIN withdrawals
      BY <1>0, <2>7 DEF RecordStep, SettlePayout, SettlePayoutNothing, RecordPayoutFailure
    <3>4. CASE SettlePayout(p)
      <4>1. TransitionWithdrawal(calls[p].w, "paid") /\ calls[p].pc = "paid"
        BY <3>4 DEF SettlePayout
      <4> QED
        BY <1>0, <2>2, <3>1, <3>2, <3>3, <4>1
    <3>5. CASE SettlePayoutNothing(p)
      BY <1>1, <3>1, <3>2, <3>5 DEF SettlePayoutNothing
    <3>6. CASE RecordPayoutFailure(p)
      <4>1. TransitionWithdrawal(calls[p].w, "pay_failed") \/ UNCHANGED withdrawals
        BY <3>6 DEF RecordPayoutFailure
      <4> QED
        BY <1>1, <2>2, <3>1, <3>2, <3>3, <4>1
    <3> HIDE DEF Goal
    <3> QED
      BY <2>7, <3>4, <3>5, <3>6 DEF RecordStep
  <2>8. (Unlocked /\ PayoutStoreStep) \/ ChannelStep
    BY <1>2 DEF PayoutStep
  <2> HIDE DEF Goal
  <2> QED
    BY <2>1, <2>3, <2>5, <2>6, <2>7, <2>8 DEF PayoutStoreStep, ChannelStep
<1>3. CASE Crash
  <2>1. UNCHANGED <<withdrawals, transfers>> /\ calls' = [p \in Workers |-> NoCall]
    BY <1>0, <1>3, CrashEffect
  <2> QED
    BY <1>1, <2>1
<1>4. CASE UNCHANGED payoutVars
  BY <1>1, <1>4 DEF payoutVars
<1> HIDE DEF Goal
<1> QED
  BY <1>2, <1>3, <1>4, KernelStep

(* Money the books call paid did leave the platform, and only withdrawals  *)
(* somebody reviewed are ever transferred, whatever answers get lost and   *)
(* whichever calls die with the process (PayWithdraw, settlePayout).       *)
THEOREM KernelPaidWasTransferred == KernelSpec => []PaidWasTransferred
<1>1. KernelInit => TransferInv
  <2> SUFFICES ASSUME KernelInit PROVE TransferInv
    OBVIOUS
  <2>1. KernelTypeOK
    BY KernelInitAgrees DEF PayoutsInv
  <2> QED
    BY <2>1 DEF KernelInit, PayoutsInit, TransferInv, PaidWasTransferred, NoCall
<1>2. TransferInv /\ [KernelNext]_kernelVars => TransferInv'
  BY KernelNextTransfers
<1>3. TransferInv => PaidWasTransferred
  BY DEF TransferInv
<1> QED
  BY <1>1, <1>2, <1>3, PTL DEF KernelSpec

-----------------------------------------------------------------------------
(***************************************************************************)
(* I1, by either path                                                      *)
(***************************************************************************)

(* What I1 asks of an account.                                             *)
Conserved(img, k) ==
  \A b \in Buckets :
    /\ ~(img.accounts[k][b] < 0 /\ ~PermitsDebt(b))
    /\ img.ledger[k] = << >> => img.accounts[k][b] = 0
    /\ img.ledger[k] # << >> =>
         /\ SummedDeltas(img, k)[b] = img.accounts[k][b]
         /\ LastEntry(img.ledger[k]).after[b] = img.accounts[k][b]

(* The judgement reports nothing exactly then.                             *)
LEMMA JudgementMeans ==
  ASSUME NEW img, NEW k
  PROVE  AccountConservationViolations(img, k) = {} <=> Conserved(img, k)
<1> DEFINE acct == img.accounts[k]
           L == img.ledger[k]
           sums == SummedDeltas(img, k)
           Negative == {<<"negative", k, b>> : b \in {x \in Buckets : acct[x] < 0 /\ ~PermitsDebt(x)}}
           Orphan == {<<"no entries", k, b>> : b \in {x \in Buckets : acct[x] # 0}}
           Off == {<<"sum", k, b>> : b \in {x \in Buckets : sums[x] # acct[x]}}
           Ends == {<<"tail", k, b>> : b \in {x \in Buckets : LastEntry(L).after[x] # acct[x]}}
<1>1. AccountConservationViolations(img, k)
        = Negative \cup (IF L = << >> THEN Orphan ELSE Off \cup Ends)
  BY DEF AccountConservationViolations
<1>2. Negative = {} <=> \A b \in Buckets : ~(acct[b] < 0 /\ ~PermitsDebt(b))
  OBVIOUS
<1>3. Orphan = {} <=> \A b \in Buckets : acct[b] = 0
  OBVIOUS
<1>4. Off = {} <=> \A b \in Buckets : sums[b] = acct[b]
  OBVIOUS
<1>5. Ends = {} <=> \A b \in Buckets : LastEntry(L).after[b] = acct[b]
  OBVIOUS
<1>6. Conserved(img, k) <=>
        /\ \A b \in Buckets : ~(acct[b] < 0 /\ ~PermitsDebt(b))
        /\ L = << >> => \A b \in Buckets : acct[b] = 0
        /\ L # << >> => \A b \in Buckets : sums[b] = acct[b] /\ LastEntry(L).after[b] = acct[b]
  BY DEF Conserved
<1> HIDE DEF Negative, Orphan, Off, Ends, acct, L, sums
<1> QED
  BY <1>1, <1>2, <1>3, <1>4, <1>5, <1>6

(* An account the query does not let through is conserved.                 *)
LEMMA NoCandidateConserved ==
  ASSUME NEW img, NEW k \in Agents, k \notin Candidates(img)
  PROVE  Conserved(img, k)
<1>1. \A b \in Buckets :
        /\ img.accounts[k][b] = SummedDeltas(img, k)[b]
        /\ img.ledger[k] # << >> => LastEntry(img.ledger[k]).after[b] = img.accounts[k][b]
        /\ ~(img.accounts[k][b] < 0)
  BY DEF Candidates
<1>2. ASSUME img.ledger[k] = << >>, NEW b \in Buckets
      PROVE  SummedDeltas(img, k)[b] = 0
  <2> DEFINE L == img.ledger[k]
             f == [i \in DOMAIN L |-> L[i].delta[b]]
  <2>1. SummedDeltas(img, k)[b] = SumFunctionOnSet(f, DOMAIN L)
    BY DEF SummedDeltas
  <2>2. DOMAIN L = {}
    BY <1>2
  <2> HIDE DEF f, L
  <2> QED
    BY <2>1, <2>2, SumOfNone
<1> QED
  BY <1>1, <1>2 DEF Conserved

(* For every image of a store, sound or not, both paths report the same.   *)
LEMMA PathsAgree ==
  ASSUME NEW img
  PROVE  CheckLedgerConservationReconciled(img) = CheckLedgerConservation(img)
<1> DEFINE V(k) == AccountConservationViolations(img, k)
<1>1. CheckLedgerConservation(img) = UNION {V(k) : k \in Agents}
  BY DEF CheckLedgerConservation
<1>2. CheckLedgerConservationReconciled(img) = UNION {V(k) : k \in Candidates(img)}
  BY DEF CheckLedgerConservationReconciled
<1>3. Candidates(img) \subseteq Agents
  BY DEF Candidates
<1>4. \A k \in Agents \ Candidates(img) : V(k) = {}
  BY NoCandidateConserved, JudgementMeans
<1> HIDE DEF V
<1> QED
  BY <1>1, <1>2, <1>3, <1>4

(* The aggregate query of a reconciling store never hides an account that  *)
(* is broken: whatever is written to the tables, tampered with or not, the *)
(* check of its candidates finds what a check of all finds                 *)
(* (ReconcileAccounts).                                                    *)
THEOREM KernelNarrowingComplete == KernelSpec => []NarrowingComplete
<1>1. NarrowingComplete
  BY PathsAgree DEF NarrowingComplete
<1> QED
  BY <1>1, PTL

-----------------------------------------------------------------------------
(***************************************************************************)
(* What the checks compare, and that every write keeps it                  *)
(***************************************************************************)

(* Every account is the sum of the deltas of its entries.                  *)
Deltas(L, b) == [i \in DOMAIN L |-> L[i].delta[b]]

SumsUp(acc, led) ==
  \A k \in Agents : \A b \in Buckets :
    acc[k][b] = SumFunctionOnSet(Deltas(led[k], b), DOMAIN led[k])

(* Entry i of agent k is about commission c.                               *)
About(led, k, i, c) == led[k][i].biz \in CommissionRefs /\ led[k][i].ref = c

(* Entries about commissions name rows that exist, and every row has one.  *)
RefsMatch(led, coms) ==
  /\ \A k \in Agents : \A i \in DOMAIN led[k] :
       led[k][i].biz \in CommissionRefs => led[k][i].ref \in DOMAIN coms
  /\ \A c \in DOMAIN coms : \E k \in Agents : \E i \in DOMAIN led[k] : About(led, k, i, c)

(* What an agent's reversal rows take away.                                *)
LossRows(coms, k) == {r \in DOMAIN coms : coms[r].amount < 0 /\ coms[r].agent = k}

Loss(coms, k) == SumFunctionOnSet(Negated(coms), LossRows(coms, k))

LossesMatch(acc, coms) == \A k \in Agents : acc[k]["totalReversed"] = Loss(coms, k)

(* A reversal row reverses an accrual.                                     *)
Linked(coms) ==
  \A r \in DOMAIN coms : coms[r].amount < 0 =>
    coms[r].reverseOf \in DOMAIN coms /\ coms[coms[r].reverseOf].amount > 0

(* Every entry moves some bucket, so that losing one shows in the sums.    *)
MovesMoney(delta) == \E b \in Buckets : delta[b] # 0

EntriesMove(led) ==
  \A k \in Agents : \A i \in DOMAIN led[k] : MovesMoney(led[k][i].delta)

(* What the self check compares beyond the other invariants.               *)
Checkable(acc, led, coms) ==
  /\ SumsUp(acc, led)
  /\ EntriesMove(led)
  /\ RefsMatch(led, coms)
  /\ LossesMatch(acc, coms)
  /\ Linked(coms)

(* A movement adds one entry, with its deltas, to its own ledger.          *)
LEMMA PostEntry ==
  ASSUME BooksTypeOK(accounts, ledger),
         NEW k \in Agents, NEW d, NEW biz, NEW ref, NEW moves,
         Post(k, d, biz, ref, moves)
  PROVE  LET n == Len(ledger[k]) + 1
         IN  /\ DOMAIN ledger'[k] = DOMAIN ledger[k] \cup {n} /\ n \notin DOMAIN ledger[k]
             /\ ledger'[k][n].biz = biz /\ ledger'[k][n].ref = ref
             /\ ledger'[k][n].delta = moves
             /\ \A i \in DOMAIN ledger[k] : ledger'[k][i] = ledger[k][i]
             /\ \A j \in Agents \ {k} : ledger'[j] = ledger[j]
             /\ IsFiniteSet(DOMAIN ledger[k])
<1> DEFINE entry == NewLedgerEntry(biz, ref, Apply(accounts[k], d), moves)
           n == Len(ledger[k]) + 1
<1>1. ledger' = [ledger EXCEPT ![k] = Append(ledger[k], entry)]
  BY DEF Post
<1>2. entry.biz = biz /\ entry.ref = ref /\ entry.delta = moves
  BY DEF NewLedgerEntry
<1> HIDE DEF entry
<1>3. ledger \in [Agents -> Seq(Entry)] /\ ledger[k] \in Seq(Entry)
  BY DEF BooksTypeOK
<1>4. ledger'[k] = Append(ledger[k], entry)
  BY <1>1, <1>3
<1>5. /\ DOMAIN ledger'[k] = DOMAIN ledger[k] \cup {n} /\ ledger'[k][n] = entry
      /\ n \notin DOMAIN ledger[k]
      /\ \A i \in DOMAIN ledger[k] : ledger'[k][i] = ledger[k][i]
  BY <1>3, <1>4
<1>6. \A j \in Agents \ {k} : ledger'[j] = ledger[j]
  BY <1>1, <1>3
<1>7. IsFiniteSet(DOMAIN ledger[k])
  <2>1. DOMAIN ledger[k] = 1 .. Len(ledger[k]) /\ Len(ledger[k]) \in Nat
    BY <1>3
  <2>2. 1 \in Int /\ Len(ledger[k]) \in Int
    BY <2>1
  <2>3. IsFiniteSet(1 .. Len(ledger[k]))
    BY <2>2, FS_Interval
  <2> QED
    BY <2>1, <2>3
<1> HIDE DEF n
<1>8. /\ ledger'[k][n].biz = biz /\ ledger'[k][n].ref = ref
      /\ ledger'[k][n].delta = moves
  BY <1>2, <1>5
<1> QED
  BY <1>5, <1>6, <1>7, <1>8 DEF n

(* A movement whose account delta and entry agree keeps the sums.          *)
LEMMA PostSums ==
  ASSUME BooksTypeOK(accounts, ledger), SumsUp(accounts, ledger),
         NEW k \in Agents, NEW d \in Delta, NEW biz, NEW ref, NEW moves \in BucketMoves,
         \A b \in Buckets : d[b] = moves[b],
         Post(k, d, biz, ref, moves)
  PROVE  SumsUp(accounts', ledger')
<1> SUFFICES ASSUME NEW j \in Agents, NEW b \in Buckets
             PROVE  accounts'[j][b] = SumFunctionOnSet(Deltas(ledger'[j], b), DOMAIN ledger'[j])
  BY DEF SumsUp
<1>1. /\ accounts[j][b] \in Int
      /\ accounts'[j][b] = IF j = k THEN accounts[j][b] + d[b] ELSE accounts[j][b]
  BY PostColumns DEF Columns
<1>2. accounts[j][b] = SumFunctionOnSet(Deltas(ledger[j], b), DOMAIN ledger[j])
  BY DEF SumsUp
<1>3. CASE j # k
  <2>1. ledger'[j] = ledger[j]
    BY <1>3, PostEntry
  <2> QED
    BY <1>1, <1>2, <1>3, <2>1
<1>4. CASE j = k
  <2> DEFINE n == Len(ledger[k]) + 1
             A == ledger[k]
             B == ledger'[k]
             f == Deltas(A, b)
             g == Deltas(B, b)
  <2>1. /\ DOMAIN B = DOMAIN A \cup {n} /\ n \notin DOMAIN A
        /\ B[n].delta = moves
        /\ \A i \in DOMAIN A : B[i] = A[i]
        /\ IsFiniteSet(DOMAIN A)
    BY PostEntry
  <2>2. A \in Seq(Entry)
    BY DEF BooksTypeOK
  <2>3. \A i \in DOMAIN A : A[i].delta[b] \in Int
    <3>1. ASSUME NEW i \in DOMAIN A
          PROVE  A[i] \in Entry
      BY <2>2, <3>1
    <3>2. \A e \in Entry : e.delta \in [Buckets -> Int]
      BY DEF Entry
    <3> QED
      BY <3>1, <3>2
  <2>4. moves[b] \in Int /\ moves[b] = d[b]
    BY DEF BucketMoves
  <2> HIDE DEF A, B, n
  <2>5. \A i \in DOMAIN A : f[i] = A[i].delta[b]
    BY DEF Deltas
  <2>6. \A i \in DOMAIN B : g[i] = B[i].delta[b]
    BY DEF Deltas
  <2> HIDE DEF f, g
  <2>7. \A i \in DOMAIN A : f[i] \in Int /\ f[i] = g[i]
    BY <2>1, <2>3, <2>5, <2>6
  <2>8. g[n] = moves[b]
    BY <2>1, <2>6
  <2>9. \A i \in DOMAIN B : g[i] \in Int
    BY <2>1, <2>4, <2>7, <2>8
  <2>10. DOMAIN A \ {n} = DOMAIN B \ {n}
    BY <2>1
  <2>11. SumFunctionOnSet(g, DOMAIN B) = SumFunctionOnSet(f, DOMAIN A)
             - (IF n \in DOMAIN A THEN f[n] ELSE 0) + (IF n \in DOMAIN B THEN g[n] ELSE 0)
    BY <2>1, <2>7, <2>9, <2>10, SumStep
  <2>12. SumFunctionOnSet(f, DOMAIN A) = accounts[k][b]
    BY <1>2, <1>4 DEF f, A
  <2>13. SumFunctionOnSet(g, DOMAIN B) = accounts[k][b] + d[b]
    BY <1>1, <1>4, <2>1, <2>4, <2>8, <2>11, <2>12
  <2> QED
    BY <1>1, <1>4, <2>13 DEF g, B
<1> QED
  BY <1>3, <1>4

(* A movement of money adds an entry that moves some.                      *)
LEMMA PostMoves ==
  ASSUME BooksTypeOK(accounts, ledger), EntriesMove(ledger),
         NEW k \in Agents, NEW d, NEW biz, NEW ref, NEW moves, MovesMoney(moves),
         Post(k, d, biz, ref, moves)
  PROVE  EntriesMove(ledger')
<1> DEFINE n == Len(ledger[k]) + 1
<1>1. /\ DOMAIN ledger'[k] = DOMAIN ledger[k] \cup {n}
      /\ ledger'[k][n].delta = moves
      /\ \A i \in DOMAIN ledger[k] : ledger'[k][i] = ledger[k][i]
      /\ \A j \in Agents \ {k} : ledger'[j] = ledger[j]
  BY PostEntry
<1> HIDE DEF n
<1> SUFFICES ASSUME NEW j \in Agents, NEW i \in DOMAIN ledger'[j]
             PROVE  MovesMoney(ledger'[j][i].delta)
  BY DEF EntriesMove
<1>2. CASE j = k /\ i = n
  BY <1>1, <1>2
<1>3. CASE ~(j = k /\ i = n)
  <2>1. i \in DOMAIN ledger[j] /\ ledger'[j][i] = ledger[j][i]
    BY <1>1, <1>3
  <2>2. MovesMoney(ledger[j][i].delta)
    BY <2>1 DEF EntriesMove
  <2> QED
    BY <2>1, <2>2
<1> QED
  BY <1>2, <1>3

(* What makes an entry move money: one bucket changes by an amount.        *)
LEMMA AmountMoves ==
  ASSUME NEW moves, NEW b \in Buckets, NEW amount \in Int, amount # 0,
         moves[b] = amount \/ moves[b] = -amount
  PROVE  MovesMoney(moves)
<1>1. moves[b] # 0
  OBVIOUS
<1> QED
  BY <1>1 DEF MovesMoney

(* A movement that is about the row appended with it, or about no row and  *)
(* none is appended, keeps entries and rows pointing at each other.        *)
LEMMA PostRefs ==
  ASSUME BooksTypeOK(accounts, ledger), NEW A, NEW B, RefsMatch(ledger, A),
         NEW k \in Agents, NEW d, NEW biz, NEW ref, NEW moves,
         Post(k, d, biz, ref, moves),
         IF biz \in CommissionRefs THEN DOMAIN B = DOMAIN A \cup {ref} ELSE DOMAIN B = DOMAIN A
  PROVE  RefsMatch(ledger', B)
<1> DEFINE n == Len(ledger[k]) + 1
<1>1. /\ DOMAIN ledger'[k] = DOMAIN ledger[k] \cup {n} /\ n \notin DOMAIN ledger[k]
      /\ ledger'[k][n].biz = biz /\ ledger'[k][n].ref = ref
      /\ \A i \in DOMAIN ledger[k] : ledger'[k][i] = ledger[k][i]
      /\ \A j \in Agents \ {k} : ledger'[j] = ledger[j]
  BY PostEntry
<1> HIDE DEF n
<1>2. /\ DOMAIN A \subseteq DOMAIN B
      /\ \A j \in Agents : \A i \in DOMAIN ledger[j] :
           i \in DOMAIN ledger'[j] /\ ledger'[j][i] = ledger[j][i]
  BY <1>1
<1>3. ASSUME NEW j \in Agents, NEW i \in DOMAIN ledger'[j], ledger'[j][i].biz \in CommissionRefs
      PROVE  ledger'[j][i].ref \in DOMAIN B
  <2>1. CASE i \in DOMAIN ledger[j]
    BY <1>2, <1>3, <2>1 DEF RefsMatch
  <2>2. CASE i \notin DOMAIN ledger[j]
    <3>1. j = k /\ i = n
      BY <1>1, <2>2
    <3> QED
      BY <1>1, <1>3, <3>1
  <2> QED
    BY <2>1, <2>2
<1>4. ASSUME NEW c \in DOMAIN B
      PROVE  \E j \in Agents : \E i \in DOMAIN ledger'[j] : About(ledger', j, i, c)
  <2>1. CASE c \in DOMAIN A
    <3>1. PICK j \in Agents : \E i \in DOMAIN ledger[j] : About(ledger, j, i, c)
      BY <2>1 DEF RefsMatch
    <3>2. PICK i \in DOMAIN ledger[j] : About(ledger, j, i, c)
      BY <3>1
    <3>3. About(ledger', j, i, c) /\ i \in DOMAIN ledger'[j]
      BY <1>2, <3>2 DEF About
    <3> QED
      BY <3>3
  <2>2. CASE c \notin DOMAIN A
    <3>1. c = ref /\ biz \in CommissionRefs
      BY <2>2
    <3>2. About(ledger', k, n, c) /\ n \in DOMAIN ledger'[k]
      BY <1>1, <3>1 DEF About
    <3> QED
      BY <3>2
  <2> QED
    BY <2>1, <2>2
<1> QED
  BY <1>3, <1>4 DEF RefsMatch

(* Losses of a table and of the same table with a row appended.            *)
LEMMA LossStep ==
  ASSUME NEW A \in Seq(Commission), NEW B \in Seq(Commission), NEW x,
         x \notin DOMAIN A, DOMAIN A \subseteq DOMAIN B, DOMAIN B \subseteq DOMAIN A \cup {x},
         \A y \in DOMAIN A : A[y].amount = B[y].amount /\ A[y].agent = B[y].agent,
         NEW k
  PROVE  /\ Loss(A, k) \in Int
         /\ Loss(B, k) = Loss(A, k) + Part(Negated(B), LossRows(B, k), x)
<1> DEFINE f == Negated(A)
           g == Negated(B)
           S == LossRows(A, k)
           T == LossRows(B, k)
<1>1. /\ \A c \in DOMAIN A : f[c] = -A[c].amount /\ f[c] \in Int
      /\ \A c \in DOMAIN B : g[c] = -B[c].amount /\ g[c] \in Int
  BY TableTypes
<1>2. IsFiniteSet(S)
  <2>1. DOMAIN A = 1 .. Len(A) /\ Len(A) \in Nat
    BY TableTypes
  <2>2. IsFiniteSet(DOMAIN A)
    BY <2>1, FS_Interval
  <2>3. S \subseteq DOMAIN A
    BY DEF LossRows
  <2> QED
    BY <2>2, <2>3, FS_Subset
<1>3. S \ {x} = T \ {x} /\ x \notin S
  BY DEF LossRows
<1>4. S \subseteq DOMAIN A /\ T \subseteq DOMAIN B
  BY DEF LossRows
<1> HIDE DEF f, g, S, T
<1>5. \A y \in S \ {x} : f[y] = g[y]
  BY <1>1, <1>3, <1>4
<1>6. (\A y \in S : f[y] \in Int) /\ (\A y \in T : g[y] \in Int)
  BY <1>1, <1>4
<1>7. SumFunctionOnSet(g, T) = SumFunctionOnSet(f, S)
          - (IF x \in S THEN f[x] ELSE 0) + (IF x \in T THEN g[x] ELSE 0)
  BY <1>2, <1>3, <1>5, <1>6, SumStep
<1>8. SumFunctionOnSet(f, S) \in Int
  BY <1>2, <1>6, SumIsInt
<1>9. Part(g, T, x) \in Int /\ Part(g, T, x) = IF x \in T THEN g[x] ELSE 0
  BY <1>6 DEF Part
<1>10. SumFunctionOnSet(g, T) = SumFunctionOnSet(f, S) + Part(g, T, x)
  BY <1>3, <1>7, <1>8, <1>9
<1> QED
  BY <1>8, <1>10 DEF f, g, S, T, Loss

(* What a write may do to the rows and the books so that the self check    *)
(* can still compare them: rows keep agent, amount and what they reverse,  *)
(* and a row is appended exactly with the entry that is about it.          *)
LEMMA CheckableStep ==
  ASSUME BooksTypeOK(accounts, ledger),
         NEW A \in Seq(Commission), NEW B \in Seq(Commission), Checkable(accounts, ledger, A),
         NEW k \in Agents, NEW d \in Delta, NEW biz, NEW ref, NEW moves \in BucketMoves,
         \A b \in Buckets : d[b] = moves[b],
         MovesMoney(moves), Post(k, d, biz, ref, moves),
         \A y \in DOMAIN A : /\ A[y].amount = B[y].amount /\ A[y].agent = B[y].agent
                             /\ A[y].reverseOf = B[y].reverseOf,
         \/ /\ biz \notin CommissionRefs
            /\ DOMAIN B = DOMAIN A
            /\ d["totalReversed"] = 0
         \/ /\ biz \in CommissionRefs
            /\ ref \notin DOMAIN A
            /\ DOMAIN B = DOMAIN A \cup {ref}
            /\ \/ B[ref].amount > 0 /\ d["totalReversed"] = 0
               \/ /\ B[ref].amount < 0
                  /\ B[ref].agent = k
                  /\ d["totalReversed"] = -B[ref].amount
                  /\ B[ref].reverseOf \in DOMAIN A
                  /\ A[B[ref].reverseOf].amount > 0
  PROVE  Checkable(accounts', ledger', B)
<1>0. /\ SumsUp(accounts, ledger) /\ EntriesMove(ledger) /\ RefsMatch(ledger, A)
      /\ LossesMatch(accounts, A) /\ Linked(A)
  BY DEF Checkable
<1>1. SumsUp(accounts', ledger')
  BY <1>0, PostSums
<1>6. EntriesMove(ledger')
  BY <1>0, PostMoves
<1>2. RefsMatch(ledger', B)
  <2>1. IF biz \in CommissionRefs THEN DOMAIN B = DOMAIN A \cup {ref} ELSE DOMAIN B = DOMAIN A
    OBVIOUS
  <2> QED
    BY <1>0, <2>1, PostRefs
<1>3. PICK x : /\ x \notin DOMAIN A /\ DOMAIN A \subseteq DOMAIN B
               /\ DOMAIN B \subseteq DOMAIN A \cup {x}
               /\ (biz \in CommissionRefs => x = ref)
  <2>1. CASE biz \in CommissionRefs
    BY <2>1
  <2>2. CASE biz \notin CommissionRefs
    <3>1. -1 \notin DOMAIN A
      <4>1. DOMAIN A = 1 .. Len(A) /\ Len(A) \in Nat
        BY TableTypes
      <4> QED
        BY <4>1
    <3> QED
      BY <2>2, <3>1
  <2> QED
    BY <2>1, <2>2
<1>4. LossesMatch(accounts', B)
  <2> SUFFICES ASSUME NEW j \in Agents PROVE accounts'[j]["totalReversed"] = Loss(B, j)
    BY DEF LossesMatch
  <2>1. accounts'[j]["totalReversed"] =
          IF j = k THEN accounts[j]["totalReversed"] + d["totalReversed"]
                   ELSE accounts[j]["totalReversed"]
    BY PostColumns, ColumnNames
  <2>2. accounts[j]["totalReversed"] = Loss(A, j)
    BY <1>0 DEF LossesMatch
  <2>3. /\ Loss(A, j) \in Int
        /\ Loss(B, j) = Loss(A, j) + Part(Negated(B), LossRows(B, j), x)
    BY <1>3, LossStep
  <2>4. /\ x \in LossRows(B, j) <=> x \in DOMAIN B /\ B[x].amount < 0 /\ B[x].agent = j
        /\ x \in DOMAIN B => Negated(B)[x] = -B[x].amount
    BY DEF LossRows, Negated
  <2>5. Part(Negated(B), LossRows(B, j), x) = IF j = k THEN d["totalReversed"] ELSE 0
    <3>1. CASE biz \notin CommissionRefs
      <4>1. x \notin DOMAIN B /\ d["totalReversed"] = 0
        BY <1>3, <3>1
      <4> QED
        BY <2>4, <4>1 DEF Part
    <3>2. CASE biz \in CommissionRefs
      <4>1. x = ref /\ x \in DOMAIN B /\ B[x].amount \in Int
        BY <1>3, <3>2, TableTypes
      <4>2. CASE B[ref].amount > 0 /\ d["totalReversed"] = 0
        BY <2>4, <4>1, <4>2 DEF Part
      <4>3. CASE B[ref].amount < 0 /\ B[ref].agent = k /\ d["totalReversed"] = -B[ref].amount
        BY <2>4, <4>1, <4>3 DEF Part
      <4> QED
        BY <3>2, <4>2, <4>3
    <3> QED
      BY <3>1, <3>2
  <2> HIDE DEF Delta
  <2> QED
    BY <2>1, <2>2, <2>3, <2>5
<1>5. Linked(B)
  <2> SUFFICES ASSUME NEW r \in DOMAIN B, B[r].amount < 0
               PROVE  B[r].reverseOf \in DOMAIN B /\ B[B[r].reverseOf].amount > 0
    BY DEF Linked
  <2>1. CASE r \in DOMAIN A
    <3>1. A[r].reverseOf \in DOMAIN A /\ A[A[r].reverseOf].amount > 0
      BY <1>0, <2>1 DEF Linked
    <3> QED
      BY <1>3, <2>1, <3>1
  <2>2. CASE r \notin DOMAIN A
    <3>1. r = ref /\ biz \in CommissionRefs /\ B[ref].amount \in Int
      BY <2>2, TableTypes
    <3>2. B[ref].reverseOf \in DOMAIN A /\ A[B[ref].reverseOf].amount > 0
      BY <3>1
    <3> QED
      BY <1>3, <3>1, <3>2
  <2> QED
    BY <2>1, <2>2
<1> QED
  BY <1>1, <1>2, <1>4, <1>5, <1>6 DEF Checkable

(* Writes that move no money leave all of it alone.                        *)
LEMMA CheckableKept ==
  ASSUME NEW acc, NEW led, NEW A \in Seq(Commission), NEW B \in Seq(Commission),
         Checkable(acc, led, A), DOMAIN B = DOMAIN A,
         \A y \in DOMAIN A : /\ A[y].amount = B[y].amount /\ A[y].agent = B[y].agent
                             /\ A[y].reverseOf = B[y].reverseOf
  PROVE  Checkable(acc, led, B)
<1>1. \A k : Loss(B, k) = Loss(A, k)
  <2> TAKE k
  <2>1. -1 \notin DOMAIN A /\ -1 \notin LossRows(B, k)
    <3>1. DOMAIN A = 1 .. Len(A) /\ Len(A) \in Nat
      BY TableTypes
    <3> QED
      BY <3>1 DEF LossRows
  <2>2. Loss(A, k) \in Int /\ Loss(B, k) = Loss(A, k) + Part(Negated(B), LossRows(B, k), -1)
    BY <2>1, LossStep
  <2>3. Part(Negated(B), LossRows(B, k), -1) = 0
    BY <2>1 DEF Part
  <2> QED
    BY <2>2, <2>3
<1>2. LossesMatch(acc, B)
  BY <1>1 DEF Checkable, LossesMatch
<1>3. RefsMatch(led, B)
  BY DEF Checkable, RefsMatch
<1>4. Linked(B)
  BY DEF Checkable, Linked
<1> QED
  BY <1>2, <1>3, <1>4 DEF Checkable

(* An accrual books a positive row.                                        *)
LEMMA AccrueCheckable ==
  ASSUME EngineTypeOK, Checkable(accounts, ledger, commissions),
         NEW rate \in Rates, AccrueLayer(rate)
  PROVE  Checkable(accounts', ledger', commissions')
<1> DEFINE amount == LayerAmount(rate)
           d == AccrualDelta(amount)
           row == NewCommission(amount)
           A == commissions
           B == commissions'
           x == Len(commissions) + 1
           agent == tx.agent
           moves == [NoMoves EXCEPT !["frozen"] = amount]
<1>1. /\ AtLayer /\ amount > 0
      /\ Post(agent, d, "accrue", x, moves)
      /\ B = Append(A, row)
  BY DEF AccrueLayer
<1>2. /\ amount \in Int /\ agent \in Agents /\ row \in Commission
      /\ A \in Seq(Commission) /\ BooksTypeOK(accounts, ledger)
  BY <1>1, AtLayerType, NewCommissionType DEF EngineTypeOK, StoreTypeOK
<1>3. row.amount = amount
  BY DEF NewCommission
<1>4. d["totalReversed"] = 0
  BY ColumnNames DEF AccrualDelta, NoDelta
<1>5. d \in Delta /\ moves \in BucketMoves /\ \A b \in Buckets : d[b] = moves[b]
  BY <1>2, AccrualDeltaType
<1>11. "frozen" \in Buckets /\ moves["frozen"] = amount
  BY DEF NoMoves, Buckets
<1> HIDE DEF amount, d, row, agent, moves
<1>12. MovesMoney(moves)
  BY <1>1, <1>2, <1>11, AmountMoves
<1>6. /\ B \in Seq(Commission) /\ DOMAIN B = DOMAIN A \cup {x}
      /\ x \notin DOMAIN A /\ B[x] = row
      /\ \A y \in DOMAIN A : B[y] = A[y]
  BY <1>1, <1>2
<1>7. Checkable(accounts, ledger, A)
  OBVIOUS
<1> HIDE DEF A, B, x
<1>8. "accrue" \in CommissionRefs
  BY DEF CommissionRefs
<1>9. B[x].amount > 0
  BY <1>1, <1>3, <1>6
<1>10. Checkable(accounts', ledger', B)
  BY <1>1, <1>2, <1>4, <1>5, <1>6, <1>7, <1>8, <1>9, <1>12, CheckableStep
<1> QED
  BY <1>10 DEF B

(* A clawback books a negative row that points at an accrual, with its     *)
(* amount in the account's total.                                          *)
LEMMA ClawBackCheckable ==
  ASSUME EngineTypeOK, Checkable(accounts, ledger, commissions),
         NEW c \in DOMAIN commissions, NEW target \in Nat,
         NEW terminal \in {"reversed", "void"}, NEW biz \in {"reverse", "void"},
         commissions[c].reversed < target, target <= commissions[c].amount,
         ClawBack(c, target, terminal, biz)
  PROVE  Checkable(accounts', ledger', commissions')
<1> DEFINE A == commissions
           B == commissions'
           x == Len(commissions) + 1
           delta == target - commissions[c].reversed
           bucket == ReversalBucket(commissions[c].state)
           k == commissions[c].agent
           d == DebitDelta(bucket, delta)
           moves == [NoMoves EXCEPT ![bucket] = -delta]
<1>1. Post(k, d, biz, x, moves)
  BY DEF ClawBack
<1>2. /\ A \in Seq(Commission) /\ B \in Seq(Commission)
      /\ DOMAIN B = DOMAIN A \cup {x} /\ x \notin DOMAIN A
      /\ \A y \in DOMAIN A \ {c} : B[y] = A[y]
      /\ SameAccrual(A[c], B[c])
      /\ B[x] = ReversalRecord(c, target)
  BY ClawBackRows, ZenonT(60)
<1>3. /\ A[c].amount \in Int /\ A[c].reversed \in Nat /\ k \in Agents /\ c \in DOMAIN A
      /\ BooksTypeOK(accounts, ledger)
  BY TableTypes DEF EngineTypeOK, StoreTypeOK
<1>4. delta \in Int /\ delta > 0 /\ A[c].amount > 0 /\ bucket \in Buckets
  BY <1>3, ReversalBucketType
<1>5. /\ B[x].amount = A[c].reversed - target /\ B[x].agent = k /\ B[x].reverseOf = c
  BY <1>2 DEF ReversalRecord
<1>6. d["totalReversed"] = delta
  <2>1. bucket # "totalReversed"
    BY <1>4, ColumnNames
  <2> HIDE DEF delta, bucket
  <2> QED
    BY <2>1, ColumnNames DEF DebitDelta, NoDelta
<1>7. d \in Delta /\ moves \in BucketMoves /\ \A b \in Buckets : d[b] = moves[b]
  <2> HIDE DEF delta, bucket
  <2> QED
    BY <1>4, DebitType
<1>8. d["totalReversed"] = -B[x].amount /\ B[x].amount < 0
  <2>1. delta = target - A[c].reversed
    OBVIOUS
  <2> HIDE DEF d, delta, A, B, x
  <2> QED
    BY <1>3, <1>4, <1>5, <1>6, <2>1
<1>9. Checkable(accounts, ledger, A)
  OBVIOUS
<1>10. biz \in CommissionRefs
  BY DEF CommissionRefs
<1>14. MovesMoney(moves)
  <2>1. moves[bucket] = -delta
    BY <1>4 DEF NoMoves
  <2> HIDE DEF moves, bucket, delta
  <2> QED
    BY <1>4, <2>1, AmountMoves
<1> HIDE DEF A, B, x, d, moves, k, delta, bucket
<1>11. \A y \in DOMAIN A : /\ A[y].amount = B[y].amount /\ A[y].agent = B[y].agent
                           /\ A[y].reverseOf = B[y].reverseOf
  BY <1>2 DEF SameAccrual
<1>12. B[x].reverseOf \in DOMAIN A /\ A[B[x].reverseOf].amount > 0
  BY <1>3, <1>4, <1>5
<1>13. Checkable(accounts', ledger', B)
  BY <1>1, <1>2, <1>3, <1>5, <1>7, <1>8, <1>9, <1>10, <1>11, <1>12, <1>14, CheckableStep
<1> QED
  BY <1>13 DEF B

(* Refunds and voids claw back what is outstanding, or less.               *)
LEMMA ClawBacks ==
  ASSUME EngineTypeOK, NEW c \in DOMAIN commissions, ReverseLayer(c) \/ VoidCommission(c)
  PROVE  \E target \in Nat, terminal \in {"reversed", "void"}, biz \in {"reverse", "void"} :
           /\ commissions[c].reversed < target
           /\ target <= commissions[c].amount
           /\ ClawBack(c, target, terminal, biz)
<1>1. commissions[c].amount \in Int /\ commissions[c].reversed \in Nat
  BY TableTypes DEF EngineTypeOK, StoreTypeOK
<1>2. CASE VoidCommission(c)
  <2>1. /\ Outstanding(commissions[c]) > 0
        /\ ClawBack(c, commissions[c].amount, "void", "void")
    BY <1>2 DEF VoidCommission
  <2>2. commissions[c].amount \in Nat /\ commissions[c].reversed < commissions[c].amount
    BY <1>1, <2>1 DEF Outstanding
  <2>3. commissions[c].amount <= commissions[c].amount
    BY <1>1
  <2> QED
    BY <2>1, <2>2, <2>3
<1>3. CASE ReverseLayer(c)
  <2> DEFINE want == WantReversed(c)
             due == MulDiv(commissions[c].amount, tx.target, commissions[c].base, "down")
  <2>1. /\ tx.op = "refund" /\ want > commissions[c].reversed
        /\ ClawBack(c, want, "reversed", "reverse")
    BY <1>3 DEF ReverseLayer, NextToReverse, NeedsReversal
  <2>2. want \in Int /\ due \in Int
    BY <2>1, WantReversedType
  <2>3. want = IF due > commissions[c].amount THEN commissions[c].amount ELSE due
    BY DEF WantReversed
  <2> HIDE DEF want, due
  <2>4. want \in Nat /\ commissions[c].reversed < want /\ want <= commissions[c].amount
    BY <1>1, <2>1, <2>2, <2>3
  <2> QED
    BY <2>1, <2>4
<1> QED
  BY <1>2, <1>3

(* Settlement moves the money of a row, which is outstanding because the   *)
(* row is pending, and books no row.                                       *)
LEMMA SettleCheckable ==
  ASSUME EngineTypeOK, Checkable(accounts, ledger, commissions),
         Reconciled(accounts, commissions),
         NEW c \in DOMAIN commissions, SettleOne(c)
  PROVE  Checkable(accounts', ledger', commissions')
<1> DEFINE A == commissions
           B == commissions'
           row == commissions[c]
           amount == Outstanding(row)
           k == row.agent
           d == SettleDelta(amount)
           moves == Moves("frozen", "available", amount)
<1>1. Transition(c, "pending", "settled") /\ Post(k, d, "settle", c, moves)
  BY DEF SettleOne
<1>2. /\ A \in Seq(Commission) /\ B \in Seq(Commission) /\ DOMAIN B = DOMAIN A
      /\ \A y \in DOMAIN A \ {c} : B[y] = A[y]
      /\ SameAccrual(A[c], B[c])
  BY <1>1, TransitionRows DEF CommissionStates
<1>3. BooksTypeOK(accounts, ledger)
  BY DEF EngineTypeOK, StoreTypeOK
<1>4. amount \in Int /\ k \in Agents
  BY <1>2, TableTypes DEF Outstanding
<1>12. amount > 0
  <2>1. row.amount \in Int /\ row.reversed \in Nat /\ row.state = "pending"
    BY <1>1, <1>2, TableTypes DEF Transition
  <2>2. RowReconciles(commissions, c)
    BY DEF Reconciled
  <2>3. /\ row.amount > 0 /\ row.reversed <= row.amount
        /\ row.reversed # row.amount
    BY <2>1, <2>2 DEF RowReconciles, Terminal
  <2> QED
    BY <2>1, <2>3 DEF Outstanding
<1>13. "frozen" \in Buckets /\ "available" \in Buckets
  BY DEF Buckets
<1> HIDE DEF amount, k
<1>14. MovesMoney(moves)
  <2>1. moves["available"] = amount
    BY <1>13 DEF Moves, NoMoves
  <2> HIDE DEF moves
  <2> QED
    BY <1>4, <1>12, <1>13, <2>1, AmountMoves
<1>5. d = MoveDelta("frozen", "available", amount)
  BY DEF SettleDelta
<1>6. d \in Delta /\ moves \in BucketMoves /\ \A b \in Buckets : d[b] = moves[b]
  BY <1>4, <1>5, MoveType, ColumnNames
<1>7. d["totalReversed"] = 0
  BY <1>5, ColumnNames DEF MoveDelta, NoDelta
<1>8. "settle" \notin CommissionRefs
  BY DEF CommissionRefs
<1>9. Checkable(accounts, ledger, A)
  OBVIOUS
<1> HIDE DEF A, B, d, moves
<1>10. \A y \in DOMAIN A : /\ A[y].amount = B[y].amount /\ A[y].agent = B[y].agent
                           /\ A[y].reverseOf = B[y].reverseOf
  BY <1>2 DEF SameAccrual
<1>11. Checkable(accounts', ledger', B)
  BY <1>1, <1>2, <1>3, <1>4, <1>6, <1>7, <1>8, <1>9, <1>10, <1>14, CheckableStep
<1> QED
  BY <1>11 DEF B

(* Every write of the engine leaves what the self check can compare.       *)
LEMMA WritesCheckable ==
  ASSUME EngineTypeOK, Checkable(accounts, ledger, commissions),
         Reconciled(accounts, commissions), Writes
  PROVE  Checkable(accounts', ledger', commissions')
<1> DEFINE Goal == Checkable(accounts', ledger', commissions')
<1> SUFFICES Goal
  OBVIOUS
<1>1. ASSUME NEW o \in Orders, NEW at \in ReceiptTimes, OnOrderReceived(o, at)
      PROVE  Goal
  <2>1. /\ commissions \in Seq(Commission) /\ commissions' \in Seq(Commission)
        /\ UNCHANGED <<accounts, ledger>> /\ DOMAIN commissions' = DOMAIN commissions
    BY <1>1, OnOrderReceivedType DEF EngineTypeOK, StoreTypeOK, OnOrderReceived
  <2>2. \A y \in DOMAIN commissions :
          /\ commissions[y].amount = commissions'[y].amount
          /\ commissions[y].agent = commissions'[y].agent
          /\ commissions[y].reverseOf = commissions'[y].reverseOf
    BY <1>1, ReceivedRow
  <2>3. Checkable(accounts, ledger, commissions')
    BY <2>1, <2>2, CheckableKept
  <2> QED
    BY <2>1, <2>3
<1>2. ASSUME NEW c \in DOMAIN commissions, FreezeCommission(c) \/ UnfreezeCommission(c)
      PROVE  Goal
  <2>1. /\ UNCHANGED <<accounts, ledger>>
        /\ \E from, to \in CommissionStates : Transition(c, from, to)
    BY <1>2 DEF FreezeCommission, UnfreezeCommission, CommissionStates
  <2>2. /\ commissions \in Seq(Commission) /\ commissions' \in Seq(Commission)
        /\ DOMAIN commissions' = DOMAIN commissions
        /\ \A y \in DOMAIN commissions \ {c} : commissions'[y] = commissions[y]
        /\ SameAccrual(commissions[c], commissions'[c])
    BY <2>1, TransitionRows
  <2>3. \A y \in DOMAIN commissions :
          /\ commissions[y].amount = commissions'[y].amount
          /\ commissions[y].agent = commissions'[y].agent
          /\ commissions[y].reverseOf = commissions'[y].reverseOf
    BY <2>2 DEF SameAccrual
  <2>4. Checkable(accounts, ledger, commissions')
    BY <2>2, <2>3, CheckableKept
  <2> QED
    BY <2>1, <2>4
<1>3. ASSUME NEW c \in DOMAIN commissions, ReverseLayer(c) \/ VoidCommission(c)
      PROVE  Goal
  BY <1>3, ClawBacks, ClawBackCheckable
<1> HIDE DEF Goal
<1>4. \A rate \in Rates : AccrueLayer(rate) => Goal
  BY AccrueCheckable DEF Goal
<1>5. \A c \in DOMAIN commissions : SettleOne(c) => Goal
  BY SettleCheckable DEF Goal
<1> QED
  BY <1>1, <1>2, <1>3, <1>4, <1>5 DEF Writes

(* So do the movements of a withdrawal.                                    *)
LEMMA MovedCheckable ==
  ASSUME EngineTypeOK, Checkable(accounts, ledger, commissions), NEW k \in Agents,
         NEW from \in Buckets, NEW to \in Buckets, NEW amount \in Nat \ {0},
         NEW biz \in PayoutBiz, NEW w, Moved(k, from, to, amount, biz, w)
  PROVE  Checkable(accounts', ledger', commissions)
<1> DEFINE d == MoveDelta(from, to, amount)
           moves == Moves(from, to, amount)
<1>1. Post(k, d, biz, w, moves)
  BY DEF Moved
<1>2. BooksTypeOK(accounts, ledger) /\ commissions \in Seq(Commission)
  BY DEF EngineTypeOK, StoreTypeOK
<1>3. d \in Delta /\ moves \in BucketMoves /\ \A b \in Buckets : d[b] = moves[b]
  BY MoveType
<1>4. d["totalReversed"] = 0
  BY ColumnNames DEF MoveDelta, NoDelta
<1>5. biz \notin CommissionRefs
  BY DEF CommissionRefs, PayoutBiz
<1>6. MovesMoney(moves)
  <2>1. moves[to] = amount
    BY DEF Moves, NoMoves
  <2> HIDE DEF moves
  <2> QED
    BY <2>1, AmountMoves
<1> HIDE DEF d, moves
<1> QED
  BY <1>1, <1>2, <1>3, <1>4, <1>5, <1>6, CheckableStep

(* Requesting, paying and returning a withdrawal are such movements, and the *)
(* review of one moves nothing.                                            *)
LEMMA PayoutCheckable ==
  ASSUME KernelTypeOK, Checkable(accounts, ledger, commissions), PayoutWrites
  PROVE  Checkable(accounts', ledger', commissions)
<1> DEFINE Goal == Checkable(accounts', ledger', commissions)
<1>0. EngineTypeOK /\ PayoutsTypeOK /\ withdrawals \in Seq(Withdrawal)
  BY DEF KernelTypeOK, PayoutsTypeOK
<1>1. \A w \in DOMAIN withdrawals :
        withdrawals[w].agent \in Agents /\ withdrawals[w].amount \in Nat \ {0}
  <2>1. \A w \in DOMAIN withdrawals : withdrawals[w] \in Withdrawal
    BY <1>0
  <2>2. \A row \in Withdrawal : row.agent \in Agents /\ row.amount \in Nat \ {0}
    BY DEF Withdrawal
  <2> QED
    BY <2>1, <2>2
<1>2. WithdrawAmounts \subseteq Nat \ {0}
  BY PayoutsAssumption
<1>3. UNCHANGED <<accounts, ledger>> => Goal
  OBVIOUS
<1>4. \A k \in Agents, from \in Buckets, to \in Buckets, amount \in Nat \ {0}, biz \in PayoutBiz :
        \A w : Moved(k, from, to, amount, biz, w) => Goal
  BY <1>0, MovedCheckable
<1>5. {"available", "withdrawing", "withdrawn"} \subseteq Buckets
      /\ PayoutBiz = {"withdraw_hold", "withdraw_paid", "withdraw_refund"}
  BY DEF Buckets, PayoutBiz
<1> HIDE DEF Goal
<1> SUFFICES Goal
  BY DEF Goal
<1> QED
  BY <1>0, <1>1, <1>2, <1>3, <1>4, <1>5, PayoutCases

-----------------------------------------------------------------------------
(***************************************************************************)
(* The inductive invariant                                                 *)
(***************************************************************************)

(* The rows and the books together satisfy what the four checks compare,   *)
(* and so does the snapshot of a transaction in progress.                  *)
CheckInv ==
  /\ MoneyInv
  /\ PayoutsInv
  /\ CapInv
  /\ Checkable(accounts, ledger, commissions)
  /\ Unlocked \/ Checkable(undo.accounts, undo.ledger, undo.commissions)

(* Payouts write no commission, and a crash puts back rows that were       *)
(* capped.                                                                 *)
LEMMA KernelNextCapped ==
  ASSUME KernelTypeOK, KernelTypeOK', CapInv, [KernelNext]_kernelVars
  PROVE  CapInv'
<1>0. /\ EngineTypeOK /\ EngineTypeOK' /\ Capped(commissions) /\ PaidSoFar
      /\ Unlocked \/ Capped(undo.commissions)
  BY DEF CapInv, KernelTypeOK
<1>1. CASE [EngineNext]_engineVars
  BY <1>1, EngineNextCapped
<1>2. CASE PayoutStep
  <2>1. UNCHANGED <<commissions, tx, undo>>
    BY <1>2, PayoutEffect
  <2>2. Capped(commissions)'
    BY <1>0, <2>1
  <2>3. PaidSoFar'
    BY <1>0, <2>1 DEF PaidSoFar
  <2>4. Unlocked' \/ Capped(undo.commissions)'
    BY <1>0, <2>1 DEF Unlocked
  <2> QED
    BY <1>0, <2>2, <2>3, <2>4 DEF CapInv
<1>3. CASE Crash
  <2>1. tx' = Idle /\ (commissions' = commissions \/ (~Unlocked /\ commissions' = undo.commissions))
    BY <1>3 DEF Crash, Rollback, storeVars, Unlocked
  <2>2. Capped(commissions)'
    BY <1>0, <2>1
  <2>3. PaidSoFar'
    BY <2>1 DEF PaidSoFar, Idle
  <2>4. Unlocked'
    BY <2>1 DEF Unlocked
  <2> QED
    BY <1>0, <2>2, <2>3, <2>4 DEF CapInv
<1> QED
  BY <1>1, <1>2, <1>3, KernelStep

(* Every step of the system keeps the rows checkable: a write keeps the    *)
(* live rows so, a failure or a crash puts the snapshot back.              *)
LEMMA KernelNextCheckable ==
  ASSUME CheckInv, [KernelNext]_kernelVars
  PROVE  CheckInv'
<1> DEFINE Goal == /\ Checkable(accounts, ledger, commissions)'
                   /\ Unlocked' \/ Checkable(undo.accounts, undo.ledger, undo.commissions)'
<1>0. /\ KernelTypeOK /\ EngineTypeOK
      /\ Checkable(accounts, ledger, commissions)
      /\ Reconciled(accounts, commissions)
      /\ Unlocked \/ Checkable(undo.accounts, undo.ledger, undo.commissions)
  BY DEF CheckInv, MoneyInv, KernelTypeOK, ReconcileInv
<1>a. MoneyInv' /\ PayoutsInv' /\ KernelTypeOK'
  BY KernelNextMoney, KernelNextAgrees DEF CheckInv, MoneyInv
<1>b. CapInv'
  BY <1>0, <1>a, KernelNextCapped DEF CheckInv
<1> SUFFICES Goal
  BY <1>a, <1>b DEF CheckInv
<1>1. ASSUME NEW a, NEW b, NEW c, NEW e, NEW f, NEW g, Checkable(a, b, c), e = a, f = b, g = c
      PROVE  Checkable(e, f, g)
  BY <1>1
<1>2. ASSUME UNCHANGED <<accounts, ledger, commissions, undo>>, Unlocked' <=> Unlocked
      PROVE  Goal
  BY <1>0, <1>1, <1>2
<1>3. ASSUME ~Unlocked, Rollback
      PROVE  Goal
  BY <1>0, <1>1, <1>3 DEF Rollback, Unlocked
<1>4. CASE [EngineNext]_engineVars
  <2>1. CASE Writes /\ UNCHANGED undo /\ (Unlocked' <=> Unlocked)
    <3>1. Checkable(accounts', ledger', commissions')
      BY <1>0, <2>1, WritesCheckable
    <3> QED
      BY <1>0, <1>1, <2>1, <3>1
  <2>2. ASSUME NEW t, Begin(t)
        PROVE  Goal
    BY <1>0, <1>1, <2>2 DEF Begin, storeVars
  <2>3. CASE Commit
    BY <1>0, <1>1, <2>3 DEF Commit, storeVars, Unlocked
  <2> HIDE DEF Goal
  <2> QED
    BY <1>0, <1>2, <1>3, <1>4, <2>1, <2>2, <2>3, StoreStep
<1>5. CASE PayoutStep
  <2>1. /\ UNCHANGED <<commissions, tx, undo>>
        /\ UNCHANGED <<accounts, ledger>> \/ (Unlocked /\ PayoutWrites)
    BY <1>0, <1>5, PayoutEffect
  <2>2. Unlocked' <=> Unlocked
    BY <2>1 DEF Unlocked
  <2>3. CASE Unlocked /\ PayoutWrites
    <3>1. Checkable(accounts', ledger', commissions)
      BY <1>0, <2>3, PayoutCheckable
    <3> QED
      BY <1>1, <2>1, <2>2, <2>3, <3>1
  <2> HIDE DEF Goal
  <2> QED
    BY <1>2, <2>1, <2>2, <2>3
<1>6. CASE Crash
  <2>1. \/ UNCHANGED <<accounts, ledger, commissions, undo>> /\ (Unlocked' <=> Unlocked)
        \/ ~Unlocked /\ Rollback
    BY <1>0, <1>6, CrashEffect
  <2> HIDE DEF Goal
  <2> QED
    BY <1>2, <1>3, <2>1
<1> HIDE DEF Goal
<1> QED
  BY <1>4, <1>5, <1>6, KernelStep

(* No rows and no entries compare.                                         *)
LEMMA KernelInitCheckable == KernelInit => CheckInv
<1> SUFFICES ASSUME KernelInit PROVE CheckInv
  OBVIOUS
<1>1. /\ commissions = << >> /\ Unlocked /\ EngineInit
      /\ \A k \in Agents : accounts[k] = EmptyAccount /\ ledger[k] = << >>
  BY DEF KernelInit, EngineInit, BooksInit, Unlocked
<1>2. MoneyInv
  BY KernelInitType, EngineInitType, EngineInitSound, EngineInitReconciles
     DEF MoneyInv, BooksInv, ReconcileInv, KernelInit, EngineInit, Unlocked
<1>3. PayoutsInv /\ CapInv
  BY <1>1, KernelInitAgrees, EngineInitCapped
<1>4. \A k \in Agents : \A c \in Columns : accounts[k][c] = 0
  BY <1>1 DEF EmptyAccount
<1>5. SumsUp(accounts, ledger)
  <2>1. \A k \in Agents : DOMAIN ledger[k] = {}
    BY <1>1
  <2> QED
    BY <1>4, <2>1, SumOfNone DEF SumsUp, Columns
<1>6. RefsMatch(ledger, commissions)
  BY <1>1 DEF RefsMatch
<1>7. LossesMatch(accounts, commissions)
  <2>1. \A k : LossRows(commissions, k) = {}
    BY <1>1 DEF LossRows
  <2> QED
    BY <1>4, <2>1, ColumnNames, SumOfNone DEF LossesMatch, Loss
<1>8. Linked(commissions)
  BY <1>1 DEF Linked
<1>9. EntriesMove(ledger)
  BY <1>1 DEF EntriesMove
<1> QED
  BY <1>1, <1>2, <1>3, <1>5, <1>6, <1>7, <1>8, <1>9 DEF CheckInv, Checkable

(* The rows stay checkable along every behaviour.                          *)
LEMMA KernelCheckInvariant == KernelSpec => []CheckInv
<1>1. CheckInv /\ [KernelNext]_kernelVars => CheckInv'
  BY KernelNextCheckable
<1> QED
  BY <1>1, KernelInitCheckable, PTL DEF KernelSpec

-----------------------------------------------------------------------------
(***************************************************************************)
(* The four checks                                                         *)
(***************************************************************************)

(* Which rows the entries of an image name.                                *)
LEMMA RefsMeans ==
  ASSUME NEW img, NEW biz, NEW c
  PROVE  c \in RefsOf(img, biz) <=>
           \E k \in Agents : \E i \in DOMAIN img.ledger[k] :
             img.ledger[k][i].biz \in biz /\ img.ledger[k][i].ref = c
BY DEF RefsOf, Entries

(* The image is the tables.                                                *)
LEMMA ImageTables ==
  /\ StoreImage.accounts = accounts /\ StoreImage.ledger = ledger
  /\ StoreImage.commissions = commissions /\ StoreImage.withdrawals = withdrawals
BY DEF StoreImage

(* I1: the books balance.                                                  *)
LEMMA ConservationHolds ==
  ASSUME BooksTypeOK(accounts, ledger), Sound(accounts, ledger), SumsUp(accounts, ledger)
  PROVE  CheckLedgerConservation(StoreImage) = {}
<1>1. ASSUME NEW k \in Agents
      PROVE  Conserved(StoreImage, k)
  <2> DEFINE L == ledger[k]
  <2>0. L \in Seq(Entry) /\ Len(L) \in Nat
    BY DEF BooksTypeOK
  <2>1. \A b \in Buckets : ~(accounts[k][b] < 0 /\ ~PermitsDebt(b))
    BY EngineAssumption DEF Sound, NoUnallowedDebt, NegativeBuckets, PermitsDebt
  <2>2. \A b \in Buckets : accounts[k][b] = BalanceBefore(L, Len(L) + 1, b)
    BY DEF Sound, LedgerChain
  <2>3. ASSUME L = << >>, NEW b \in Buckets
        PROVE  accounts[k][b] = 0
    BY <2>2, <2>3 DEF BalanceBefore
  <2>4. ASSUME L # << >>, NEW b \in Buckets
        PROVE  LastEntry(L).after[b] = accounts[k][b]
    <3>1. Len(L) + 1 # 1 /\ (Len(L) + 1) - 1 = Len(L)
      BY <2>0, <2>4
    <3> HIDE DEF L
    <3> QED
      BY <2>2, <3>1 DEF BalanceBefore, LastEntry
  <2>5. ASSUME NEW b \in Buckets
        PROVE  SummedDeltas(StoreImage, k)[b] = accounts[k][b]
    BY ImageTables DEF SummedDeltas, SumsUp, Deltas
  <2> QED
    BY <2>1, <2>3, <2>4, <2>5, ImageTables DEF Conserved
<1>2. \A k \in Agents : AccountConservationViolations(StoreImage, k) = {}
  BY <1>1, JudgementMeans
<1> QED
  BY <1>2 DEF CheckLedgerConservation

(* I2: entries and rows name each other, and the cap holds.                *)
LEMMA AllocationHolds ==
  ASSUME EngineTypeOK, Capped(commissions), RefsMatch(ledger, commissions)
  PROVE  CheckAllocationCap(StoreImage) = {}
<1> DEFINE img == StoreImage
           refs == RefsOf(img, CommissionRefs)
           known == DOMAIN img.commissions
           Item(c) == <<img.commissions[c].order, img.commissions[c].item>>
           Group(g) == {c \in AccrualRows(img) : Item(c) = g}
           Share(g) == SumFunctionOnSet([c \in known |-> img.commissions[c].amount], Group(g))
           Limit(g) == ApplyRate(img.commissions[Min(Group(g))].base, MaxAllocatableBP, "down")
           Over == {h \in {Item(c) : c \in AccrualRows(img)} : Share(h) > Limit(h)}
<1>1. CheckAllocationCap(img) =
        {<<"no entry", c>> : c \in known \ refs}
          \cup {<<"missing commission", r>> : r \in refs \ known}
          \cup {<<"over the cap", g>> : g \in Over}
  BY DEF CheckAllocationCap
<1>2. known = DOMAIN commissions /\ img.ledger = ledger /\ img.commissions = commissions
  BY ImageTables
<1>3. refs = known
  <2>1. \A c : c \in refs <=>
           \E k \in Agents : \E i \in DOMAIN ledger[k] :
             ledger[k][i].biz \in CommissionRefs /\ ledger[k][i].ref = c
    BY <1>2, RefsMeans
  <2>2. \A c : c \in refs <=> c \in known
    BY <1>2, <2>1 DEF RefsMatch, About
  <2> QED
    BY <2>2
<1>4. ASSUME NEW c \in AccrualRows(img)
      PROVE  ~(Share(Item(c)) > Limit(Item(c)))
  <2> DEFINE o == commissions[c].order
             i == commissions[c].item
             g == Item(c)
             S == Group(g)
  <2>1. c \in DOMAIN commissions /\ commissions[c].amount > 0 /\ commissions \in Seq(Commission)
    BY <1>2 DEF AccrualRows, EngineTypeOK, StoreTypeOK
  <2>2. o \in Orders /\ i \in DOMAIN Basket[o]
    <3>1. commissions[c] \in Commission
      BY <2>1, TableTypes
    <3>2. o \in Orders
      BY <3>1 DEF Commission
    <3> QED
      BY <2>1, <3>2 DEF Capped, Based
  <2>3. S = ItemRows(commissions, o, i)
    BY <1>2 DEF ItemRows, AccrualRows
  <2>4. c \in S
    BY <2>1, <2>3 DEF ItemRows
  <2>5. Share(g) = Allocated(commissions, o, i)
    BY <1>2, <2>3 DEF Allocated, Amounts
  <2>6. Min(S) \in S
    <3>1. IsFiniteSet(S)
      BY <2>1, <2>3, ItemRowsType
    <3>2. DOMAIN commissions \subseteq Int
      BY <2>1, TableTypes
    <3>3. S \subseteq Int
      BY <2>3, <3>2 DEF ItemRows
    <3> HIDE DEF S
    <3> QED
      BY <2>4, <3>1, <3>3, MinIn
  <2>7. commissions[Min(S)].base = Basket[o][i]
    <3> DEFINE m == Min(S)
    <3>1. m \in ItemRows(commissions, o, i)
      BY <2>3, <2>6
    <3> HIDE DEF m, S, g
    <3>2. /\ m \in DOMAIN commissions /\ commissions[m].amount > 0
          /\ commissions[m].order = o /\ commissions[m].item = i
      BY <3>1 DEF ItemRows
    <3>3. commissions[m].base = Basket[o][i]
      BY <3>2 DEF Capped, Based
    <3> QED
      BY <3>3 DEF m
  <2>8. Limit(g) = CapOf(o, i)
    BY <1>2, <2>7 DEF CapOf
  <2>9. Allocated(commissions, o, i) <= CapOf(o, i)
    BY <2>2, <2>3, <2>4 DEF Capped
  <2>10. Allocated(commissions, o, i) \in Int /\ CapOf(o, i) \in Int
    <3>1. Basket[o][i] \in Int /\ MaxAllocatableBP \in Int
      BY <2>2, EngineAssumption
    <3> QED
      BY <2>1, <3>1, ItemRowsType, ApplyRateType DEF CapOf
  <2> HIDE DEF g, o, i
  <2>11. ~(Share(g) > Limit(g))
    BY <2>5, <2>8, <2>9, <2>10
  <2> QED
    BY <2>11 DEF g
<1>5. Over = {}
  <2> HIDE DEF img, Share, Limit, Item
  <2> QED
    BY <1>4
<1> HIDE DEF img, refs, known, Over
<1>6. CheckAllocationCap(img) = {}
  BY <1>1, <1>3, <1>5
<1> QED
  BY <1>6 DEF img

(* I3: the accumulators are the sums of the reversal rows, and the         *)
(* accounts' totals those of an agent's rows.                              *)
LEMMA ReversalsHold ==
  ASSUME EngineTypeOK, Reconciled(accounts, commissions),
         LossesMatch(accounts, commissions), Linked(commissions)
  PROVE  CheckReversalReconciliation(StoreImage) = {}
<1> DEFINE img == StoreImage
           row(c) == img.commissions[c]
           touched == {c \in AccrualRows(img) : row(c).reversed # 0}
           linked == LinkedReversals(img)
           ReversalSum(rs) == SumFunctionOnSet([r \in DOMAIN img.commissions |-> -row(r).amount], rs)
           ReversedOf(c) == ReversalSum({r \in linked : row(r).reverseOf = c})
           EarnedBy(k) == SumFunctionOnSet([c \in DOMAIN img.commissions |-> row(c).amount],
                                           {c \in AccrualRows(img) : row(c).agent = k})
           LostBy(k) == ReversalSum({r \in linked : row(r).agent = k})
           ids == touched \cup {row(r).reverseOf : r \in linked}
           OutOfRange == {x \in touched : row(x).reversed \notin 0 .. row(x).amount}
           WrongState == {x \in touched : FullyReversed(row(x)) # Terminal(row(x).state)}
           Unlinked == ReversalRows(img) \ linked
           WrongSum == {x \in ids : row(x).reversed # ReversedOf(x)}
           Exceeds == {x \in ids : ReversedOf(x) > row(x).amount}
           WrongEarned == {x \in Agents : img.accounts[x]["totalEarned"] # EarnedBy(x)}
           WrongLost == {x \in Agents : img.accounts[x]["totalReversed"] # LostBy(x)}
<1>1. CheckReversalReconciliation(img) =
        {<<"range", c>> : c \in OutOfRange}
          \cup {<<"state", c>> : c \in WrongState}
          \cup {<<"unlinked reversal", r>> : r \in Unlinked}
          \cup {<<"accumulator", c>> : c \in WrongSum}
          \cup {<<"exceeds", c>> : c \in Exceeds}
          \cup {<<"total earned", k>> : k \in WrongEarned}
          \cup {<<"total reversed", k>> : k \in WrongLost}
  BY DEF CheckReversalReconciliation
<1>2. img.commissions = commissions /\ img.accounts = accounts
  BY ImageTables
<1>3. commissions \in Seq(Commission)
  BY DEF EngineTypeOK, StoreTypeOK
<1>4. \A c \in DOMAIN commissions :
        /\ commissions[c].amount \in Int /\ commissions[c].reversed \in Nat
        /\ commissions[c].state \in CommissionStates
        /\ RowReconciles(commissions, c)
  BY <1>3, TableTypes DEF Reconciled
<1>5. /\ AccrualRows(img) = {c \in DOMAIN commissions : commissions[c].amount > 0}
      /\ ReversalRows(img) = {c \in DOMAIN commissions : commissions[c].amount < 0}
  <2>1. \A c \in DOMAIN commissions : commissions[c].amount > 0 \/ commissions[c].amount < 0
    BY <1>4 DEF RowReconciles
  <2> QED
    BY <1>2, <1>4, <2>1 DEF AccrualRows, ReversalRows
<1>6. linked = ReversalRows(img)
  BY <1>2, <1>5 DEF LinkedReversals, Linked
<1>7. \A c \in AccrualRows(img) :
        /\ row(c).amount > 0 /\ row(c).reverseOf = 0
        /\ row(c).reversed = ReversedIn(commissions, c)
        /\ row(c).reversed <= row(c).amount
        /\ row(c).reversed = row(c).amount <=> Terminal(row(c).state)
  BY <1>2, <1>4, <1>5 DEF RowReconciles
<1>8. \A c \in ids : c \in AccrualRows(img)
  BY <1>2, <1>5, <1>6 DEF Linked
<1>9. \A c \in AccrualRows(img) : ReversedOf(c) = row(c).reversed
  <2> TAKE c \in AccrualRows(img)
  <2>1. c \in DOMAIN commissions /\ c # 0
    <3>1. DOMAIN commissions = 1 .. Len(commissions) /\ Len(commissions) \in Nat
      BY <1>3, TableTypes
    <3> QED
      BY <1>5, <3>1
  <2>2. {r \in linked : row(r).reverseOf = c} = RowsReversing(commissions, c)
    <3>1. \A r \in DOMAIN commissions : commissions[r].reverseOf = c => r \in ReversalRows(img)
      <4>1. \A r \in DOMAIN commissions : commissions[r].amount > 0 => commissions[r].reverseOf = 0
        BY <1>2, <1>5, <1>7
      <4>2. \A r \in DOMAIN commissions : commissions[r].amount > 0 \/ commissions[r].amount < 0
        BY <1>4 DEF RowReconciles
      <4> QED
        BY <1>5, <2>1, <4>1, <4>2
    <3> HIDE DEF img
    <3> QED
      BY <1>2, <1>5, <1>6, <3>1 DEF RowsReversing
  <2>3. [r \in DOMAIN img.commissions |-> -row(r).amount] = Negated(commissions)
    BY <1>2 DEF Negated
  <2>4. ReversedOf(c) = ReversedIn(commissions, c)
    BY <2>2, <2>3 DEF ReversedIn
  <2> QED
    BY <1>7, <2>4
<1>10. OutOfRange = {}
  BY <1>2, <1>4, <1>5, <1>7
<1>11. WrongState = {}
  <2>1. \A c \in AccrualRows(img) : FullyReversed(row(c)) <=> Terminal(row(c).state)
    BY <1>2, <1>4, <1>5, <1>7 DEF FullyReversed
  <2> QED
    BY <2>1 DEF FullyReversed, Terminal
<1>12. Unlinked = {}
  BY <1>6
<1>13. WrongSum = {}
  BY <1>8, <1>9
<1>14. Exceeds = {}
  <2>1. \A c \in AccrualRows(img) : ~(ReversedOf(c) > row(c).amount)
    <3> TAKE c \in AccrualRows(img)
    <3>1. ReversedOf(c) = row(c).reversed /\ row(c).reversed <= row(c).amount
      BY <1>7, <1>9
    <3>2. row(c).reversed \in Int /\ row(c).amount \in Int
      BY <1>2, <1>4, <1>5
    <3> HIDE DEF ReversedOf, row
    <3> QED
      BY <3>1, <3>2
  <2> HIDE DEF ReversedOf, row, img, ids
  <2> QED
    BY <1>8, <2>1
<1>15. WrongEarned = {}
  <2> SUFFICES ASSUME NEW k \in Agents PROVE accounts[k]["totalEarned"] = EarnedBy(k)
    BY <1>2
  <2>1. {c \in AccrualRows(img) : row(c).agent = k} = RowsOf(commissions, k, CommissionStates)
    BY <1>2, <1>4, <1>5 DEF RowsOf
  <2>2. [c \in DOMAIN img.commissions |-> row(c).amount] = Amounts(commissions)
    BY <1>2 DEF Amounts
  <2>3. accounts[k]["totalEarned"] = Earned(commissions, k)
    BY DEF Reconciled, AccountReconciles
  <2> QED
    BY <2>1, <2>2, <2>3 DEF Earned
<1>16. WrongLost = {}
  <2> SUFFICES ASSUME NEW k \in Agents PROVE accounts[k]["totalReversed"] = LostBy(k)
    BY <1>2
  <2>1. {r \in linked : row(r).agent = k} = LossRows(commissions, k)
    BY <1>2, <1>5, <1>6 DEF LossRows
  <2>2. [r \in DOMAIN img.commissions |-> -row(r).amount] = Negated(commissions)
    BY <1>2 DEF Negated
  <2>3. accounts[k]["totalReversed"] = Loss(commissions, k)
    BY DEF LossesMatch
  <2> QED
    BY <2>1, <2>2, <2>3 DEF Loss
<1> HIDE DEF img, OutOfRange, WrongState, Unlinked, WrongSum, Exceeds, WrongEarned, WrongLost
<1>17. CheckReversalReconciliation(img) = {}
  BY <1>1, <1>10, <1>11, <1>12, <1>13, <1>14, <1>15, <1>16
<1> QED
  BY <1>17 DEF img

(* I4: every withdrawal has the entries its state asks for, and the        *)
(* reserved bucket is what the open ones hold.                             *)
LEMMA WithdrawalsHold ==
  ASSUME PayoutsTypeOK, Agrees(accounts, ledger, withdrawals)
  PROVE  CheckWithdrawalReconciliation(StoreImage) = {}
<1> DEFINE img == StoreImage
           row(w) == img.withdrawals[w]
           Lacks(biz, ws) == ws \ RefsOf(img, {biz})
           InState(s) == {w \in DOMAIN img.withdrawals : row(w).state = s}
           ReservedBy(k) == SumFunctionOnSet([w \in DOMAIN img.withdrawals |-> Held(row(w))],
                                             {w \in DOMAIN img.withdrawals : row(w).agent = k})
           Unreserved == Lacks("withdraw_hold", DOMAIN img.withdrawals)
           Unpaid == Lacks("withdraw_paid", InState("paid"))
           Unreturned == Lacks("withdraw_refund", InState("rejected"))
           WrongReserve == {x \in Agents : img.accounts[x]["withdrawing"] # ReservedBy(x)}
<1>1. CheckWithdrawalReconciliation(img) =
        {<<"no hold", w>> : w \in Unreserved}
          \cup {<<"never moved", w>> : w \in Unpaid}
          \cup {<<"never came back", w>> : w \in Unreturned}
          \cup {<<"reserved", k>> : k \in WrongReserve}
  BY DEF CheckWithdrawalReconciliation
<1>2. img.withdrawals = withdrawals /\ img.accounts = accounts /\ img.ledger = ledger
  BY ImageTables
<1>3. withdrawals \in Seq(Withdrawal)
  BY DEF PayoutsTypeOK
<1>4. \A w \in DOMAIN withdrawals :
        /\ withdrawals[w].agent \in Agents /\ withdrawals[w].amount \in Nat
        /\ withdrawals[w].state \in WithdrawalStates
  <2>1. \A w \in DOMAIN withdrawals : withdrawals[w] \in Withdrawal
    BY <1>3
  <2>2. \A r \in Withdrawal : r.agent \in Agents /\ r.amount \in Nat /\ r.state \in WithdrawalStates
    BY DEF Withdrawal
  <2> QED
    BY <2>1, <2>2
<1>5. ASSUME NEW w \in DOMAIN withdrawals, NEW biz,
             Single(Booked(ledger, withdrawals[w].agent, w, biz))
      PROVE  w \in RefsOf(img, {biz})
  <2>1. PICK i : i \in Booked(ledger, withdrawals[w].agent, w, biz)
    BY <1>5 DEF Single
  <2>2. /\ i \in DOMAIN ledger[withdrawals[w].agent]
        /\ ledger[withdrawals[w].agent][i].ref = w
        /\ ledger[withdrawals[w].agent][i].biz = biz
    BY <2>1 DEF Booked
  <2> QED
    BY <1>2, <1>4, <2>2, RefsMeans
<1>6. \A w \in DOMAIN withdrawals :
        /\ Single(Booked(ledger, withdrawals[w].agent, w, "withdraw_hold"))
        /\ withdrawals[w].state = "paid" =>
             Single(Booked(ledger, withdrawals[w].agent, w, "withdraw_paid"))
        /\ withdrawals[w].state = "rejected" =>
             Single(Booked(ledger, withdrawals[w].agent, w, "withdraw_refund"))
  BY DEF Agrees, Outcomes, OutcomeOf, OnceIf
<1>7. Unreserved = {} /\ Unpaid = {} /\ Unreturned = {}
  <2> HIDE DEF img
  <2> QED
    BY <1>2, <1>5, <1>6
<1>8. WrongReserve = {}
  <2> SUFFICES ASSUME NEW k \in Agents PROVE accounts[k]["withdrawing"] = ReservedBy(k)
    BY <1>2
  <2> DEFINE S == {w \in DOMAIN withdrawals : withdrawals[w].agent = k}
             T == RequestsIn(withdrawals, k, OpenStates)
             f == [w \in DOMAIN withdrawals |-> Held(withdrawals[w])]
             g == AmountsIn(withdrawals)
  <2>1. ReservedBy(k) = SumFunctionOnSet(f, S)
    BY <1>2
  <2>2. accounts[k]["withdrawing"] = SumFunctionOnSet(g, T)
    BY DEF Agrees, WithdrawalsBacked, AmountIn
  <2>3. T \subseteq S /\ S \subseteq DOMAIN withdrawals
    BY DEF RequestsIn
  <2>4. IsFiniteSet(S)
    <3>1. DOMAIN withdrawals = 1 .. Len(withdrawals) /\ Len(withdrawals) \in Nat
      BY <1>3
    <3>2. IsFiniteSet(DOMAIN withdrawals)
      BY <3>1, FS_Interval
    <3> QED
      BY <2>3, <3>2, FS_Subset
  <2>5. \A w \in S : f[w] \in Int
    BY <1>4, <2>3 DEF Held
  <2>6. \A w \in S \ T : f[w] = 0
    BY <1>4 DEF Held, Reserved, RequestsIn, OpenStates
  <2>7. \A w \in T : f[w] = g[w]
    BY DEF Held, Reserved, RequestsIn, OpenStates, AmountsIn
  <2>8. IsFiniteSet(T)
    BY <2>3, <2>4, FS_Subset
  <2> HIDE DEF f, g, S, T, ReservedBy
  <2>9. SumFunctionOnSet(f, S) = SumFunctionOnSet(f, T)
    BY <2>3, <2>4, <2>5, <2>6, SumSupport
  <2>10. SumFunctionOnSet(g, T) = SumFunctionOnSet(f, T)
    BY <2>7, <2>8, SumKept
  <2> QED
    BY <2>1, <2>2, <2>9, <2>10
<1> HIDE DEF img, Unreserved, Unpaid, Unreturned, WrongReserve
<1>9. CheckWithdrawalReconciliation(img) = {}
  BY <1>1, <1>7, <1>8
<1> QED
  BY <1>9 DEF img

(* An image of such a store passes all four.                               *)
LEMMA CheckInvReports == ASSUME CheckInv PROVE ReportOK(StoreImage)
<1>1. /\ EngineTypeOK /\ PayoutsTypeOK /\ BooksTypeOK(accounts, ledger)
      /\ Sound(accounts, ledger) /\ Reconciled(accounts, commissions)
      /\ Capped(commissions) /\ Agrees(accounts, ledger, withdrawals)
      /\ SumsUp(accounts, ledger) /\ RefsMatch(ledger, commissions)
      /\ LossesMatch(accounts, commissions) /\ Linked(commissions)
  BY DEF CheckInv, MoneyInv, KernelTypeOK, BooksInv, ReconcileInv, PayoutsInv, CapInv,
         Checkable, EngineTypeOK, StoreTypeOK
<1> QED
  BY <1>1, ConservationHolds, AllocationHolds, ReversalsHold, WithdrawalsHold DEF ReportOK

(* The self check never cries wolf: whatever operations, refusals, roll-   *)
(* backs, races of payout calls and crashes came before, for any number of *)
(* orders, agents and withdrawals and under either debt policy, all four   *)
(* of its invariants hold of the rows it reads (SelfCheck).                *)
THEOREM KernelNoFalseAlarm == KernelSpec => []NoFalseAlarm
<1>1. CheckInv => NoFalseAlarm
  BY CheckInvReports DEF NoFalseAlarm
<1> QED
  BY <1>1, KernelCheckInvariant, PTL

-----------------------------------------------------------------------------
(***************************************************************************)
(* What a report that says OK vouches for                                  *)
(***************************************************************************)

(* The sums the checks take of an image's rows.                            *)
ImageEarned(img, k) ==
  SumFunctionOnSet([c \in DOMAIN img.commissions |-> img.commissions[c].amount],
                   {c \in AccrualRows(img) : img.commissions[c].agent = k})

ImageReversals(img, rs) ==
  SumFunctionOnSet([r \in DOMAIN img.commissions |-> -img.commissions[r].amount], rs)

ImageLost(img, k) ==
  ImageReversals(img, {r \in LinkedReversals(img) : img.commissions[r].agent = k})

ReversalsOf(img, c) == {r \in LinkedReversals(img) : img.commissions[r].reverseOf = c}

ImageReserved(img, k) ==
  SumFunctionOnSet([w \in DOMAIN img.withdrawals |-> Held(img.withdrawals[w])],
                   {w \in DOMAIN img.withdrawals : img.withdrawals[w].agent = k})

(* Rows whose accumulator is compared with the reversal rows.              *)
Compared(img, c) ==
  \/ c \in AccrualRows(img) /\ img.commissions[c].reversed # 0
  \/ ReversalsOf(img, c) # {}

(* What the four checks compare, where they find nothing.                  *)
Matches(img) ==
  /\ \A k \in Agents : Conserved(img, k)
  /\ \A r \in RefsOf(img, CommissionRefs) : r \in DOMAIN img.commissions
  /\ \A k \in Agents : /\ img.accounts[k]["totalEarned"] = ImageEarned(img, k)
                       /\ img.accounts[k]["totalReversed"] = ImageLost(img, k)
                       /\ img.accounts[k]["withdrawing"] = ImageReserved(img, k)
  /\ \A c : Compared(img, c) =>
              img.commissions[c].reversed = ImageReversals(img, ReversalsOf(img, c))

(* Where the report says OK, all of that matches.                           *)
LEMMA ReportMatches == ASSUME NEW img, ReportOK(img) PROVE Matches(img)
<1>1. \A k \in Agents : Conserved(img, k)
  BY JudgementMeans DEF ReportOK, CheckLedgerConservation
<1>2. \A r \in RefsOf(img, CommissionRefs) : r \in DOMAIN img.commissions
  <2>1. ASSUME NEW r \in RefsOf(img, CommissionRefs), r \notin DOMAIN img.commissions
        PROVE  FALSE
    <3>1. <<"missing commission", r>> \in CheckAllocationCap(img)
      BY <2>1 DEF CheckAllocationCap
    <3> QED
      BY <3>1 DEF ReportOK
  <2> QED
    BY <2>1
<1>3. ASSUME NEW k \in Agents
      PROVE  /\ img.accounts[k]["totalEarned"] = ImageEarned(img, k)
             /\ img.accounts[k]["totalReversed"] = ImageLost(img, k)
  <2>1. img.accounts[k]["totalEarned"] # ImageEarned(img, k)
          => <<"total earned", k>> \in CheckReversalReconciliation(img)
    BY DEF CheckReversalReconciliation, ImageEarned
  <2>2. img.accounts[k]["totalReversed"] # ImageLost(img, k)
          => <<"total reversed", k>> \in CheckReversalReconciliation(img)
    BY DEF CheckReversalReconciliation, ImageLost, ImageReversals
  <2> QED
    BY <2>1, <2>2 DEF ReportOK
<1>4. ASSUME NEW k \in Agents
      PROVE  img.accounts[k]["withdrawing"] = ImageReserved(img, k)
  <2>1. img.accounts[k]["withdrawing"] # ImageReserved(img, k)
          => <<"reserved", k>> \in CheckWithdrawalReconciliation(img)
    BY DEF CheckWithdrawalReconciliation, ImageReserved
  <2> QED
    BY <2>1 DEF ReportOK
<1>5. ASSUME NEW c, Compared(img, c)
      PROVE  img.commissions[c].reversed = ImageReversals(img, ReversalsOf(img, c))
  <2>1. img.commissions[c].reversed # ImageReversals(img, ReversalsOf(img, c))
          => <<"accumulator", c>> \in CheckReversalReconciliation(img)
    BY <1>5 DEF CheckReversalReconciliation, Compared, ImageReversals, ReversalsOf
  <2> QED
    BY <2>1 DEF ReportOK
<1> QED
  BY <1>1, <1>2, <1>3, <1>4, <1>5 DEF Matches

-----------------------------------------------------------------------------
(***************************************************************************)
(* A single wrong or missing row is reported                               *)
(***************************************************************************)

(* What the checks rely on in an untampered store.                         *)
CheckableRows ==
  /\ EngineTypeOK /\ PayoutsTypeOK /\ BooksTypeOK(accounts, ledger)
  /\ Checkable(accounts, ledger, commissions)
  /\ Matches(StoreImage)

(* The values of accounts and entries are whole numbers.                   *)
LEMMA BookValues ==
  ASSUME BooksTypeOK(accounts, ledger), NEW k \in Agents
  PROVE  /\ \A c \in Columns : accounts[k][c] \in Int
         /\ ledger[k] \in Seq(Entry) /\ Len(ledger[k]) \in Nat
         /\ DOMAIN ledger[k] = 1 .. Len(ledger[k])
         /\ \A i \in DOMAIN ledger[k] : \A b \in Buckets : ledger[k][i].delta[b] \in Int
<1>1. accounts[k] \in Account /\ ledger[k] \in Seq(Entry)
  BY DEF BooksTypeOK
<1>2. \A c \in Columns : accounts[k][c] \in Int
  BY <1>1 DEF Account
<1>3. \A i \in DOMAIN ledger[k] : ledger[k][i] \in Entry
  BY <1>1
<1>4. \A e \in Entry : \A b \in Buckets : e.delta[b] \in Int
  BY DEF Entry
<1> QED
  BY <1>1, <1>2, <1>3, <1>4

(* What I1 compares an account's bucket with, where its ledger is intact.  *)
LEMMA IntactLedger ==
  ASSUME CheckableRows, NEW img, Matches(img), NEW k \in Agents, NEW b \in Buckets,
         img.ledger[k] = ledger[k]
  PROVE  img.accounts[k][b] = accounts[k][b]
<1>1. Conserved(img, k) /\ Conserved(StoreImage, k)
  BY DEF CheckableRows, Matches
<1>2. SummedDeltas(img, k)[b] = SummedDeltas(StoreImage, k)[b]
  BY ImageTables DEF SummedDeltas
<1>3. CASE ledger[k] = << >>
  BY <1>1, <1>3, ImageTables DEF Conserved
<1>4. CASE ledger[k] # << >>
  BY <1>1, <1>2, <1>4, ImageTables DEF Conserved
<1> QED
  BY <1>3, <1>4

(* A column that is off shows in the ledger or in the rows.                *)
LEMMA WrongColumnFound ==
  ASSUME CheckableRows, NEW img, NEW k \in Agents, NEW col \in Columns,
         img.ledger = ledger, img.commissions = commissions,
         img.accounts[k][col] # accounts[k][col]
  PROVE  ~ReportOK(img)
<1> SUFFICES ASSUME ReportOK(img) PROVE FALSE
  OBVIOUS
<1>1. Matches(img)
  BY ReportMatches
<1>2. CASE col \in Buckets
  BY <1>1, <1>2, IntactLedger
<1>3. CASE col \in Totals
  <2>1. /\ ImageEarned(img, k) = ImageEarned(StoreImage, k)
        /\ ImageLost(img, k) = ImageLost(StoreImage, k)
    BY ImageTables
       DEF ImageEarned, ImageLost, ImageReversals, LinkedReversals, ReversalRows, AccrualRows
  <2>2. /\ img.accounts[k]["totalEarned"] = accounts[k]["totalEarned"]
        /\ img.accounts[k]["totalReversed"] = accounts[k]["totalReversed"]
    BY <1>1, <2>1, ImageTables DEF CheckableRows, Matches
  <2> QED
    BY <1>3, <2>2 DEF Totals
<1> QED
  BY <1>2, <1>3 DEF Columns

(* An account and the delta of one of its entries off together show in the *)
(* balances of its last entry.                                             *)
LEMMA WrongDeltaFound ==
  ASSUME CheckableRows, NEW img, NEW k \in Agents, NEW b \in Buckets,
         ledger[k] # << >>, img.ledger[k] # << >>,
         LastEntry(img.ledger[k]).after = LastEntry(ledger[k]).after,
         img.accounts[k][b] # accounts[k][b]
  PROVE  ~ReportOK(img)
<1> SUFFICES ASSUME ReportOK(img) PROVE FALSE
  OBVIOUS
<1>1. Conserved(img, k) /\ Conserved(StoreImage, k)
  BY ReportMatches DEF CheckableRows, Matches
<1>2. LastEntry(img.ledger[k]).after[b] = img.accounts[k][b]
  BY <1>1 DEF Conserved
<1>3. LastEntry(ledger[k]).after[b] = accounts[k][b]
  BY <1>1, ImageTables DEF Conserved
<1> QED
  BY <1>2, <1>3

(* A list without its i-th element, element by element.                    *)
LEMMA WithoutEntryRows ==
  ASSUME NEW L \in Seq(Entry), NEW i \in DOMAIN L
  PROVE  /\ DOMAIN L = 1 .. Len(L) /\ Len(L) \in Nat
         /\ DOMAIN WithoutEntry(L, i) = 1 .. Len(L) - 1
         /\ \A j \in 1 .. Len(L) - 1 :
              WithoutEntry(L, i)[j] = L[IF j < i THEN j ELSE j + 1]
<1> DEFINE n == Len(L)
           A == SubSeq(L, 1, i - 1)
           B == SubSeq(L, i + 1, n)
<1>1. /\ DOMAIN L = 1 .. n /\ n \in Nat /\ i \in 1 .. n
      /\ \A j \in 1 .. n : L[j] \in Entry
  OBVIOUS
<1>2. /\ A \in Seq(Entry) /\ Len(A) = i - 1
      /\ \A j \in 1 .. i - 1 : A[j] = L[j]
  BY <1>1
<1>3. /\ B \in Seq(Entry) /\ Len(B) = n - i
      /\ \A j \in 1 .. n - i : B[j] = L[i + j]
  <2>1. /\ i + 1 \in Int /\ n \in Int
        /\ \A j \in i + 1 .. n : L[j] \in Entry
    BY <1>1
  <2> HIDE DEF n
  <2>2. /\ B \in Seq(Entry)
        /\ Len(B) = IF i + 1 <= n THEN n - (i + 1) + 1 ELSE 0
        /\ \A j \in 1 .. n - (i + 1) + 1 : B[j] = L[(i + 1) + j - 1]
    BY <2>1, SubSeqProperties
  <2>3. n - (i + 1) + 1 = n - i /\ \A j \in Int : (i + 1) + j - 1 = i + j
    BY <1>1
  <2> HIDE DEF B
  <2>4. Len(B) = n - i
    BY <1>1, <2>2
  <2>5. \A j \in 1 .. n - i : B[j] = L[i + j]
    <3> TAKE j \in 1 .. n - i
    <3>1. j \in Int /\ j \in 1 .. n - (i + 1) + 1
      BY <2>3
    <3>2. B[j] = L[(i + 1) + j - 1] /\ (i + 1) + j - 1 = i + j
      BY <2>2, <2>3, <3>1
    <3> QED
      BY <3>2
  <2> QED
    BY <2>2, <2>4, <2>5
<1>4. WithoutEntry(L, i) = A \o B
  BY DEF WithoutEntry
<1> HIDE DEF A, B, n
<1>5. /\ A \o B \in Seq(Entry) /\ Len(A \o B) = n - 1
      /\ \A j \in 1 .. i - 1 : (A \o B)[j] = L[j]
      /\ \A j \in i .. n - 1 : (A \o B)[j] = L[j + 1]
  <2>1. Len(A \o B) = Len(A) + Len(B) /\ A \o B \in Seq(Entry)
    BY <1>2, <1>3, ConcatProperties
  <2>2. \A j \in 1 .. Len(A) + Len(B) :
          (A \o B)[j] = IF j <= Len(A) THEN A[j] ELSE B[j - Len(A)]
    BY <1>2, <1>3
  <2>3. ASSUME NEW j \in i .. n - 1
        PROVE  (A \o B)[j] = L[j + 1]
    <3>1. /\ j - (i - 1) \in 1 .. n - i /\ i + (j - (i - 1)) = j + 1
          /\ j \in 1 .. Len(A) + Len(B) /\ ~(j <= i - 1)
      BY <1>1, <1>2, <1>3
    <3>2. B[j - (i - 1)] = L[j + 1]
      BY <1>3, <3>1
    <3> QED
      BY <1>2, <2>2, <3>1, <3>2
  <2>4. ASSUME NEW j \in 1 .. i - 1
        PROVE  (A \o B)[j] = L[j]
    <3>1. j \in 1 .. Len(A) + Len(B) /\ j <= i - 1
      BY <1>1, <1>2, <1>3
    <3> QED
      BY <1>2, <2>2, <2>4, <3>1
  <2>5. Len(A) + Len(B) = n - 1
    BY <1>1, <1>2, <1>3
  <2> QED
    BY <2>1, <2>3, <2>4, <2>5
<1>6. DOMAIN (A \o B) = 1 .. n - 1
  BY <1>5
<1>7. \A j \in 1 .. n - 1 : (A \o B)[j] = L[IF j < i THEN j ELSE j + 1]
  <2> TAKE j \in 1 .. n - 1
  <2>1. CASE j < i
    <3>1. j \in 1 .. i - 1
      BY <1>1, <2>1
    <3> QED
      BY <1>5, <2>1, <3>1
  <2>2. CASE ~(j < i)
    <3>1. j \in i .. n - 1
      BY <1>1, <2>2
    <3> QED
      BY <1>5, <2>2, <3>1
  <2> QED
    BY <2>1, <2>2
<1> QED
  BY <1>1, <1>4, <1>6, <1>7 DEF n

(* A lost entry takes its deltas out of the sum.                           *)
LEMMA WithoutEntrySum ==
  ASSUME NEW L \in Seq(Entry), NEW i \in DOMAIN L, NEW b,
         \A j \in DOMAIN L : L[j].delta[b] \in Int
  PROVE  SumFunctionOnSet(Deltas(WithoutEntry(L, i), b), DOMAIN WithoutEntry(L, i))
           = SumFunctionOnSet(Deltas(L, b), DOMAIN L) - L[i].delta[b]
<1> DEFINE n == Len(L)
           M == WithoutEntry(L, i)
           S == 1 .. n - 1
           T == 1 .. n
           f == Deltas(L, b)
           g == Deltas(M, b)
           m == [j \in S |-> IF j < i THEN j ELSE j + 1]
<1>1. /\ DOMAIN L = T /\ n \in Nat /\ DOMAIN M = S
      /\ \A j \in S : M[j] = L[IF j < i THEN j ELSE j + 1]
  BY WithoutEntryRows
<1>2. i \in T
  BY <1>1
<1>3. \A j \in S : m[j] = (IF j < i THEN j ELSE j + 1) /\ M[j] = L[m[j]]
  BY <1>1
<1>4. \A j \in T : f[j] = L[j].delta[b] /\ f[j] \in Int
  BY <1>1 DEF Deltas
<1>5. \A j \in S : g[j] = M[j].delta[b]
  BY <1>1 DEF Deltas
<1> HIDE DEF n, M, f, g, m
<1>6. \A j \in S : m[j] \in T /\ m[j] # i
  BY <1>1, <1>2, <1>3
<1>7. \A x, y \in S : m[x] = m[y] => x = y
  BY <1>1, <1>2, <1>3
<1>8. \A x \in T \ {i} : \E j \in S : m[j] = x
  <2> TAKE x \in T \ {i}
  <2>1. CASE x < i
    <3>1. x \in S /\ m[x] = x
      BY <1>1, <1>2, <1>3, <2>1
    <3> QED
      BY <3>1
  <2>2. CASE x > i
    <3>1. x - 1 \in S /\ m[x - 1] = x
      BY <1>1, <1>2, <1>3, <2>2
    <3> QED
      BY <3>1
  <2> QED
    BY <1>1, <1>2, <2>1, <2>2
<1>9. {m[j] : j \in S} = T \ {i}
  <2> HIDE DEF S, T
  <2> QED
    BY <1>6, <1>8
<1>10. IsFiniteSet(S) /\ IsFiniteSet(T)
  BY <1>1, FS_Interval
<1>11. \A j \in S : g[j] \in Int /\ f[m[j]] = g[j]
  <2> HIDE DEF S, T
  <2> QED
    BY <1>3, <1>4, <1>5, <1>6
<1> HIDE DEF S, T
<1>12. SumFunctionOnSet(f, T \ {i}) = SumFunctionOnSet(g, S)
  <2>1. SumFunctionOnSet(f, {m[x] : x \in S}) = SumFunctionOnSet(g, S)
    BY <1>7, <1>10, <1>11, SumRenamed
  <2>2. {m[x] : x \in S} = T \ {i}
    BY <1>9
  <2> QED
    BY <2>1, <2>2
<1>13. SumFunctionOnSet(f, T \ {i}) = SumFunctionOnSet(f, T) - f[i]
  <2> DEFINE R == T \ {i}
  <2>1. T \ {i} = R \ {i} /\ i \notin R /\ R \subseteq T
    OBVIOUS
  <2> HIDE DEF R
  <2>2. SumFunctionOnSet(f, R) = SumFunctionOnSet(f, T) - (IF i \in T THEN f[i] ELSE 0)
                                   + (IF i \in R THEN f[i] ELSE 0)
    BY <1>4, <1>10, <2>1, SumStep
  <2>3. SumFunctionOnSet(f, T) \in Int /\ f[i] \in Int
    BY <1>2, <1>4, <1>10, SumIsInt
  <2>4. SumFunctionOnSet(f, R) = SumFunctionOnSet(f, T) - f[i]
    BY <1>2, <2>1, <2>2, <2>3
  <2> QED
    BY <2>4 DEF R
<1>14. SumFunctionOnSet(g, DOMAIN M) = SumFunctionOnSet(f, DOMAIN L) - L[i].delta[b]
  BY <1>1, <1>2, <1>4, <1>12, <1>13
<1> QED
  BY <1>14 DEF M, f, g

(* An entry that is lost leaves the account without its deltas.            *)
LEMMA LostEntryFound ==
  ASSUME CheckableRows, NEW img, NEW k \in Agents, NEW i \in DOMAIN ledger[k],
         img.accounts = accounts, img.ledger[k] = WithoutEntry(ledger[k], i)
  PROVE  ~ReportOK(img)
<1> DEFINE L == ledger[k]
           M == WithoutEntry(L, i)
<1> SUFFICES ASSUME ReportOK(img) PROVE FALSE
  OBVIOUS
<1>0. /\ L \in Seq(Entry) /\ Len(L) \in Nat /\ i \in DOMAIN L
      /\ \A c \in Columns : accounts[k][c] \in Int
      /\ \A j \in DOMAIN L : \A b \in Buckets : L[j].delta[b] \in Int
  BY BookValues DEF CheckableRows
<1>1. PICK b \in Buckets : L[i].delta[b] # 0
  BY DEF CheckableRows, Checkable, EntriesMove, MovesMoney
<1>2. accounts[k][b] = SumFunctionOnSet(Deltas(L, b), DOMAIN L)
  BY DEF CheckableRows, Checkable, SumsUp
<1>3. SumFunctionOnSet(Deltas(M, b), DOMAIN M)
        = SumFunctionOnSet(Deltas(L, b), DOMAIN L) - L[i].delta[b]
  BY <1>0, WithoutEntrySum
<1>4. accounts[k][b] \in Int /\ L[i].delta[b] \in Int
  BY <1>0 DEF Columns
<1>5. SumFunctionOnSet(Deltas(M, b), DOMAIN M) # accounts[k][b]
  <2> HIDE DEF L, M
  <2> QED
    BY <1>1, <1>2, <1>3, <1>4
<1>6. Conserved(img, k)
  BY ReportMatches DEF Matches
<1>7. CASE M = << >>
  <2>1. DOMAIN M = {}
    BY <1>7
  <2>2. SumFunctionOnSet(Deltas(M, b), DOMAIN M) = 0
    BY <2>1, SumOfNone
  <2>3. accounts[k][b] = 0
    BY <1>6, <1>7 DEF Conserved
  <2> QED
    BY <1>5, <2>2, <2>3
<1>8. CASE M # << >>
  <2>1. SummedDeltas(img, k)[b] = accounts[k][b]
    BY <1>6, <1>8 DEF Conserved
  <2>2. SummedDeltas(img, k)[b] = SumFunctionOnSet(Deltas(M, b), DOMAIN M)
    BY DEF SummedDeltas, Deltas
  <2> QED
    BY <1>5, <2>1, <2>2
<1> QED
  BY <1>7, <1>8

(* The entries about a commission name a row that is missing.              *)
LEMMA LostCommissionFound ==
  ASSUME CheckableRows, NEW img, NEW c \in DOMAIN commissions,
         img.ledger = ledger, c \notin DOMAIN img.commissions
  PROVE  ~ReportOK(img)
<1> SUFFICES ASSUME ReportOK(img) PROVE FALSE
  OBVIOUS
<1>1. PICK k \in Agents : \E i \in DOMAIN ledger[k] : About(ledger, k, i, c)
  BY DEF CheckableRows, Checkable, RefsMatch
<1>2. PICK i \in DOMAIN ledger[k] : About(ledger, k, i, c)
  BY <1>1
<1>3. c \in RefsOf(img, CommissionRefs)
  BY <1>2, RefsMeans DEF About
<1> QED
  BY <1>3, ReportMatches DEF Matches

(* A withdrawal that no longer holds its money leaves more in the reserved *)
(* bucket than the others hold.                                            *)
LEMMA ReleasedWithdrawalFound ==
  ASSUME CheckableRows, NEW img, NEW w \in DOMAIN withdrawals,
         Reserved(withdrawals[w].state),
         img.accounts = accounts,
         DOMAIN img.withdrawals \subseteq DOMAIN withdrawals,
         \A x \in DOMAIN withdrawals \ {w} :
           x \in DOMAIN img.withdrawals /\ img.withdrawals[x] = withdrawals[x],
         w \in DOMAIN img.withdrawals =>
           /\ img.withdrawals[w].agent = withdrawals[w].agent
           /\ ~Reserved(img.withdrawals[w].state)
  PROVE  ~ReportOK(img)
<1> DEFINE k == withdrawals[w].agent
           A == DOMAIN withdrawals
           B == DOMAIN img.withdrawals
           S == {x \in A : withdrawals[x].agent = k}
           T == {x \in B : img.withdrawals[x].agent = k}
           f == [x \in A |-> Held(withdrawals[x])]
           g == [x \in B |-> Held(img.withdrawals[x])]
<1> SUFFICES ASSUME ReportOK(img) PROVE FALSE
  OBVIOUS
<1>1. withdrawals \in Seq(Withdrawal)
  BY DEF CheckableRows, PayoutsTypeOK
<1>2. \A x \in A : withdrawals[x].agent \in Agents /\ withdrawals[x].amount \in Nat \ {0}
  <2>1. \A x \in A : withdrawals[x] \in Withdrawal
    BY <1>1
  <2>2. \A r \in Withdrawal : r.agent \in Agents /\ r.amount \in Nat \ {0}
    BY DEF Withdrawal
  <2> QED
    BY <2>1, <2>2
<1>3. k \in Agents /\ w \in S
  BY <1>2
<1>4. accounts[k]["withdrawing"] = SumFunctionOnSet(f, S)
  BY <1>3, ImageTables DEF CheckableRows, Matches, ImageReserved
<1>5. accounts[k]["withdrawing"] = SumFunctionOnSet(g, T)
  BY <1>3, ReportMatches DEF Matches, ImageReserved
<1>6. IsFiniteSet(S)
  <2>1. A = 1 .. Len(withdrawals) /\ Len(withdrawals) \in Nat
    BY <1>1
  <2>2. IsFiniteSet(A)
    BY <2>1, FS_Interval
  <2>3. S \subseteq A
    OBVIOUS
  <2> QED
    BY <2>2, <2>3, FS_Subset
<1>7. \A x \in A : f[x] = Held(withdrawals[x]) /\ f[x] \in Int
  BY <1>2 DEF Held
<1>8. \A x \in B : g[x] = Held(img.withdrawals[x])
  OBVIOUS
<1>9. f[w] > 0
  BY <1>2, <1>7 DEF Held
<1>10. w \in T => g[w] = 0
  BY <1>8 DEF Held
<1>11. S \ {w} = T \ {w}
  OBVIOUS
<1>12. /\ S \subseteq A /\ T \subseteq B
       /\ \A x \in A \ {w} : x \in B /\ img.withdrawals[x] = withdrawals[x]
  OBVIOUS
<1> HIDE DEF f, g, S, T, A, B, k
<1>13. \A y \in S \ {w} : f[y] = g[y]
  BY <1>7, <1>8, <1>12
<1>14. \A y \in S : f[y] \in Int
  BY <1>7, <1>12
<1>15. \A y \in T : g[y] \in Int
  <2> TAKE y \in T
  <2>1. CASE y = w
    BY <1>10, <2>1
  <2>2. CASE y # w
    BY <1>11, <1>13, <1>14, <2>2
  <2> QED
    BY <2>1, <2>2
<1>16. SumFunctionOnSet(g, T) = SumFunctionOnSet(f, S) - (IF w \in S THEN f[w] ELSE 0)
                                  + (IF w \in T THEN g[w] ELSE 0)
  BY <1>6, <1>11, <1>13, <1>14, <1>15, SumStep
<1>17. SumFunctionOnSet(f, S) \in Int /\ f[w] \in Int
  BY <1>3, <1>6, <1>14, SumIsInt
<1>18. SumFunctionOnSet(g, T) = SumFunctionOnSet(f, S) - f[w]
  BY <1>3, <1>10, <1>16, <1>17
<1> QED
  BY <1>4, <1>5, <1>9, <1>17, <1>18

(* An accumulator that is off differs from the reversal rows of its row.   *)
LEMMA WrongAccumulatorFound ==
  ASSUME CheckableRows, NEW img, NEW c \in DOMAIN commissions, commissions[c].amount > 0,
         img.commissions = [commissions EXCEPT ![c].reversed = @ + 1]
  PROVE  ~ReportOK(img)
<1> SUFFICES ASSUME ReportOK(img) PROVE FALSE
  OBVIOUS
<1> DEFINE A == commissions
           B == img.commissions
<1>1. /\ DOMAIN B = DOMAIN A
      /\ \A x \in DOMAIN A : /\ B[x].amount = A[x].amount
                             /\ B[x].reverseOf = A[x].reverseOf
      /\ A[c].reversed \in Nat /\ B[c].reversed = A[c].reversed + 1
  <2>1. A \in Seq(Commission)
    BY DEF CheckableRows, EngineTypeOK, StoreTypeOK
  <2>2. A[c] \in Commission /\ A[c].reversed \in Nat
    BY <2>1, TableTypes
  <2>3. DOMAIN B = DOMAIN A /\ \A x \in DOMAIN A \ {c} : B[x] = A[x]
    OBVIOUS
  <2>4. B[c] = [A[c] EXCEPT !.reversed = A[c].reversed + 1]
    OBVIOUS
  <2>5. /\ B[c].amount = A[c].amount /\ B[c].reverseOf = A[c].reverseOf
        /\ B[c].reversed = A[c].reversed + 1
    BY <2>2, <2>4 DEF Commission
  <2> QED
    BY <2>2, <2>3, <2>5
<1>2. StoreImage.commissions = A
  BY ImageTables
<1> HIDE DEF A, B
<1>3. AccrualRows(img) = AccrualRows(StoreImage)
  BY <1>1, <1>2 DEF AccrualRows, B
<1>4. LinkedReversals(img) = LinkedReversals(StoreImage)
  BY <1>1, <1>2, <1>3 DEF LinkedReversals, ReversalRows, B
<1>5. ReversalsOf(img, c) = ReversalsOf(StoreImage, c)
  <2>1. LinkedReversals(img) \subseteq DOMAIN A
    BY <1>2, <1>4 DEF LinkedReversals, ReversalRows
  <2> QED
    BY <1>1, <1>2, <1>4, <2>1 DEF ReversalsOf, B
<1>6. \A rs : ImageReversals(img, rs) = ImageReversals(StoreImage, rs)
  <2>1. [r \in DOMAIN B |-> -B[r].amount] = [r \in DOMAIN A |-> -A[r].amount]
    BY <1>1
  <2> QED
    BY <1>2, <2>1 DEF ImageReversals, B
<1>7. ImageReversals(StoreImage, ReversalsOf(StoreImage, c)) = A[c].reversed
  <2>1. CASE Compared(StoreImage, c)
    BY <1>2, <2>1 DEF CheckableRows, Matches
  <2>2. CASE ~Compared(StoreImage, c)
    <3>1. ReversalsOf(StoreImage, c) = {} /\ A[c].reversed = 0
      BY <1>2, <2>2 DEF Compared, AccrualRows, A
    <3> QED
      BY <3>1, SumOfNone DEF ImageReversals
  <2> QED
    BY <2>1, <2>2
<1>8. Compared(img, c)
  <2>1. c \in AccrualRows(img)
    BY <1>2, <1>3 DEF AccrualRows, A
  <2>2. B[c].reversed # 0
    BY <1>1
  <2> QED
    BY <2>1, <2>2 DEF Compared, B
<1>9. B[c].reversed = ImageReversals(img, ReversalsOf(img, c))
  BY <1>8, ReportMatches DEF Matches, B
<1>10. B[c].reversed = A[c].reversed
  BY <1>5, <1>6, <1>7, <1>9
<1> QED
  BY <1>1, <1>10

(* A tampered account or entry.                                            *)
LEMMA WrongAccountsFound ==
  ASSUME CheckableRows, NEW img \in WrongAccounts
  PROVE  ~ReportOK(img)
<1>1. ASSUME NEW k \in Agents, NEW col \in Columns, NEW d \in {-1, 1},
             img = ColumnOff(k, col, d)
      PROVE  ~ReportOK(img)
  <2>1. /\ img.accounts = [accounts EXCEPT ![k][col] = @ + d]
        /\ img.ledger = ledger /\ img.commissions = commissions
    BY <1>1 DEF StoreImage, ColumnOff
  <2>2. accounts \in [Agents -> Account] /\ accounts[k] \in Account /\ accounts[k][col] \in Int
    BY BookValues DEF CheckableRows, BooksTypeOK
  <2>3. img.accounts[k][col] = accounts[k][col] + d
    BY <2>1, <2>2 DEF Account
  <2>4. img.accounts[k][col] # accounts[k][col]
    BY <2>2, <2>3
  <2> QED
    BY <2>1, <2>4, WrongColumnFound
<1>2. ASSUME NEW k \in Agents, NEW i \in DOMAIN ledger[k], NEW b \in Buckets,
             img = DeltaOff(k, i, b)
      PROVE  ~ReportOK(img)
  <2>1. /\ img.accounts = [accounts EXCEPT ![k][b] = @ + 1]
        /\ img.ledger = [ledger EXCEPT ![k][i].delta[b] = @ + 1]
    BY <1>2 DEF StoreImage, DeltaOff
  <2>2. /\ accounts \in [Agents -> Account] /\ accounts[k] \in Account
        /\ b \in Columns /\ accounts[k][b] \in Int
        /\ ledger \in [Agents -> Seq(Entry)] /\ ledger[k] \in Seq(Entry)
        /\ Len(ledger[k]) \in Nat /\ DOMAIN ledger[k] = 1 .. Len(ledger[k])
    BY BookValues DEF CheckableRows, BooksTypeOK, Columns
  <2>3. img.accounts[k][b] # accounts[k][b]
    <3>1. img.accounts[k][b] = accounts[k][b] + 1
      BY <2>1, <2>2 DEF Account
    <3> QED
      BY <2>2, <3>1
  <2> DEFINE L == ledger[k]
             M == img.ledger[k]
             n == Len(L)
             e == [L[i] EXCEPT !.delta[b] = @ + 1]
  <2>4. M = [L EXCEPT ![i] = e]
    BY <2>1, <2>2
  <2>5. e.after = L[i].after
    <3>1. L[i] \in Entry
      BY <2>2
    <3> QED
      BY <3>1 DEF Entry
  <2>6. L \in Seq(Entry) /\ n \in Nat /\ i \in 1 .. n /\ DOMAIN L = 1 .. n
    BY <2>2
  <2> HIDE DEF e, L
  <2>7. Len(M) = n /\ DOMAIN M = 1 .. n
    BY <2>4, <2>6
  <2>8. \A j \in 1 .. n : M[j].after = L[j].after
    BY <2>4, <2>5, <2>6
  <2>9. n \in 1 .. n /\ L # << >> /\ M # << >>
    BY <2>6, <2>7
  <2>10. LastEntry(M).after = LastEntry(L).after
    BY <2>7, <2>8, <2>9 DEF LastEntry
  <2> HIDE DEF M, n
  <2>11. /\ ledger[k] # << >> /\ img.ledger[k] # << >>
         /\ LastEntry(img.ledger[k]).after = LastEntry(ledger[k]).after
    BY <2>9, <2>10 DEF L, M
  <2> QED
    BY <2>3, <2>11, WrongDeltaFound
<1>3. \/ \E k \in Agents, col \in Columns, d \in {-1, 1} : img = ColumnOff(k, col, d)
      \/ \E k \in Agents : \E i \in DOMAIN ledger[k], b \in Buckets : img = DeltaOff(k, i, b)
  BY DEF WrongAccounts
<1> QED
  BY <1>1, <1>2, <1>3

(* A lost row.                                                             *)
LEMMA LostRowsFound ==
  ASSUME CheckableRows, NEW img \in LostRows
  PROVE  ~ReportOK(img)
<1>1. ASSUME NEW k \in Agents, NEW i \in DOMAIN ledger[k],
             img = EntryLost(k, i)
      PROVE  ~ReportOK(img)
  <2>1. img.accounts = accounts /\ img.ledger = [ledger EXCEPT ![k] = WithoutEntry(@, i)]
    BY <1>1 DEF StoreImage, EntryLost
  <2>2. DOMAIN ledger = Agents
    BY DEF CheckableRows, BooksTypeOK
  <2>3. img.ledger[k] = WithoutEntry(ledger[k], i)
    BY <2>1, <2>2
  <2> QED
    BY <2>1, <2>3, LostEntryFound
<1>2. ASSUME NEW c \in DOMAIN commissions, img = CommissionLost(c)
      PROVE  ~ReportOK(img)
  <2>1. img.ledger = ledger /\ img.commissions = Without(commissions, c)
    BY <1>2 DEF StoreImage, CommissionLost
  <2>2. c \notin DOMAIN img.commissions
    BY <2>1 DEF Without
  <2> QED
    BY <2>1, <2>2, LostCommissionFound
<1>3. ASSUME NEW w \in OpenWithdrawals, img = WithdrawalLost(w)
      PROVE  ~ReportOK(img)
  <2>1. img.accounts = accounts /\ img.withdrawals = Without(withdrawals, w)
    BY <1>3 DEF StoreImage, WithdrawalLost
  <2>2. /\ DOMAIN img.withdrawals = DOMAIN withdrawals \ {w}
        /\ \A x \in DOMAIN withdrawals \ {w} : img.withdrawals[x] = withdrawals[x]
    BY <2>1 DEF Without
  <2>3. w \in DOMAIN withdrawals /\ Reserved(withdrawals[w].state)
    BY <1>3 DEF OpenWithdrawals, Reserved
  <2> QED
    BY <2>1, <2>2, <2>3, ReleasedWithdrawalFound
<1>4. \/ \E k \in Agents : \E i \in DOMAIN ledger[k] : img = EntryLost(k, i)
      \/ \E c \in DOMAIN commissions : img = CommissionLost(c)
      \/ \E w \in OpenWithdrawals : img = WithdrawalLost(w)
  BY DEF LostRows
<1> QED
  BY <1>1, <1>2, <1>3, <1>4

(* A row that claims what did not happen.                                  *)
LEMMA WrongRowsFound ==
  ASSUME CheckableRows, NEW img \in WrongRows
  PROVE  ~ReportOK(img)
<1>1. ASSUME NEW c \in DOMAIN commissions, commissions[c].amount > 0, img = AccumulatorOff(c)
      PROVE  ~ReportOK(img)
  <2>1. img.commissions = [commissions EXCEPT ![c].reversed = @ + 1]
    BY <1>1 DEF StoreImage, AccumulatorOff
  <2> QED
    BY <1>1, <2>1, WrongAccumulatorFound
<1>2. ASSUME NEW w \in OpenWithdrawals, NEW s \in {"paid", "rejected"},
             img = ClosedUnpaid(w, s)
      PROVE  ~ReportOK(img)
  <2>0. w \in DOMAIN withdrawals
    BY DEF OpenWithdrawals
  <2>1. img.accounts = accounts /\ img.withdrawals = [withdrawals EXCEPT ![w].state = s]
    BY <1>2 DEF StoreImage, ClosedUnpaid
  <2>2. withdrawals[w] \in Withdrawal
    BY <2>0 DEF CheckableRows, PayoutsTypeOK
  <2>3. /\ DOMAIN img.withdrawals = DOMAIN withdrawals
        /\ \A x \in DOMAIN withdrawals \ {w} : img.withdrawals[x] = withdrawals[x]
    BY <2>0, <2>1
  <2>4. img.withdrawals[w] = [withdrawals[w] EXCEPT !.state = s]
    BY <2>0, <2>1
  <2>5. img.withdrawals[w].agent = withdrawals[w].agent /\ img.withdrawals[w].state = s
    BY <2>2, <2>4 DEF Withdrawal
  <2>6. Reserved(withdrawals[w].state) /\ ~Reserved(s)
    BY <1>2 DEF OpenWithdrawals, Reserved
  <2> QED
    BY <2>0, <2>1, <2>3, <2>5, <2>6, ReleasedWithdrawalFound
<1> QED
  BY <1>1, <1>2 DEF WrongRows

(* For a store of any size and any history, at least one of the four       *)
(* invariants reports each tampering that Tampered lists (SelfCheck): a    *)
(* column that is one off; a bucket and the delta of an entry both one too *)
(* high; a missing ledger entry, commission or open withdrawal; an         *)
(* accumulator one too high; an open withdrawal marked paid or rejected    *)
(* and nothing else.                                                       *)
THEOREM KernelCorruptionFound == KernelSpec => []CorruptionFound
<1>1. CheckInv => CorruptionFound
  <2> SUFFICES ASSUME CheckInv, NEW img \in Tampered PROVE ~ReportOK(img)
    BY DEF CorruptionFound
  <2>1. CheckableRows
    <3>1. ReportOK(StoreImage)
      BY CheckInvReports
    <3>2. Matches(StoreImage)
      BY <3>1, ReportMatches
    <3> QED
      BY <3>2 DEF CheckableRows, CheckInv, MoneyInv, KernelTypeOK, EngineTypeOK, StoreTypeOK
  <2> QED
    BY <2>1, WrongAccountsFound, LostRowsFound, WrongRowsFound DEF Tampered
<1> QED
  BY <1>1, KernelCheckInvariant, PTL

=============================================================================
