------------------------- MODULE CommissionsProofs -------------------------
(***************************************************************************)
(* Invariance proofs about the commission engine, for any orders, agents,  *)
(* rates, refunds and work bounds.                                         *)
(***************************************************************************)
EXTENDS Commissions, SequenceTheorems, SumProofs

-----------------------------------------------------------------------------
(***************************************************************************)
(* What one movement of money (Post) does to the books, for any number of  *)
(* accounts and any amounts                                                *)
(***************************************************************************)

(* A delta is one whole number per column; the ledger's deltas are one per *)
(* bucket.                                                                 *)
Delta == [Columns -> Int]

BucketMoves == [Buckets -> Int]

(* The empty delta and the empty move.                                     *)
LEMMA NoDeltaType == NoDelta \in Delta /\ NoMoves \in BucketMoves
  BY DEF NoDelta, Delta, NoMoves, BucketMoves

(* A move between two buckets, as a delta and as ledger deltas.            *)
LEMMA MoveType ==
  ASSUME NEW from \in Buckets, NEW to \in Buckets, NEW amount \in Int
  PROVE  /\ MoveDelta(from, to, amount) \in Delta
         /\ Moves(from, to, amount) \in BucketMoves
         /\ \A b \in Buckets : MoveDelta(from, to, amount)[b] = Moves(from, to, amount)[b]
  BY DEF MoveDelta, Moves, NoDelta, NoMoves, Delta, BucketMoves, Columns

(* Applying a delta to an account gives an account.                        *)
LEMMA ApplyType ==
  ASSUME NEW a \in Account, NEW d \in Delta
  PROVE  /\ Apply(a, d) \in Account
         /\ \A c \in Columns : Apply(a, d)[c] = a[c] + d[c]
  BY DEF Apply, Account, Delta

(* The entry of a movement is a ledger entry.                              *)
LEMMA EntryType ==
  ASSUME NEW biz \in BizTypes, NEW ref \in Nat,
         NEW saved \in Account, NEW moves \in BucketMoves
  PROVE  /\ NewLedgerEntry(biz, ref, saved, moves) \in Entry
         /\ \A b \in Buckets :
              /\ NewLedgerEntry(biz, ref, saved, moves).after[b] = saved[b]
              /\ NewLedgerEntry(biz, ref, saved, moves).delta[b] = moves[b]
  BY DEF NewLedgerEntry, Entry, Account, BucketMoves, Columns

(* A movement keeps the books well-typed: the account is an account and    *)
(* the ledger a sequence of entries (IncrementAccount, AppendLedger).      *)
LEMMA PostType ==
  ASSUME BooksTypeOK(accounts, ledger),
         NEW k \in Agents, NEW d \in Delta, NEW biz \in BizTypes, NEW ref \in Nat,
         NEW moves \in BucketMoves,
         Post(k, d, biz, ref, moves)
  PROVE  BooksTypeOK(accounts, ledger)'
<1> DEFINE saved == Apply(accounts[k], d)
           entry == NewLedgerEntry(biz, ref, saved, moves)
<1>1. accounts[k] \in Account /\ ledger[k] \in Seq(Entry)
  BY DEF BooksTypeOK
<1>2. saved \in Account
  BY <1>1, ApplyType
<1>3. entry \in Entry
  BY <1>2, EntryType
<1>4. /\ accounts' = [accounts EXCEPT ![k] = saved]
      /\ ledger' = [ledger EXCEPT ![k] = Append(ledger[k], entry)]
  BY DEF Post
<1>5. Append(ledger[k], entry) \in Seq(Entry)
  BY <1>1, <1>3
<1> HIDE DEF saved, entry
<1> QED
  BY <1>2, <1>4, <1>5 DEF BooksTypeOK

(* A movement adds its delta to the columns of its own account only.       *)
LEMMA PostColumns ==
  ASSUME BooksTypeOK(accounts, ledger),
         NEW k \in Agents, NEW d \in Delta, NEW biz, NEW ref, NEW moves,
         Post(k, d, biz, ref, moves)
  PROVE  \A j \in Agents : \A c \in Columns :
           /\ accounts[j][c] \in Int
           /\ accounts'[j][c] = IF j = k THEN accounts[j][c] + d[c] ELSE accounts[j][c]
<1> DEFINE saved == Apply(accounts[k], d)
<1>1. accounts' = [accounts EXCEPT ![k] = saved] /\ accounts \in [Agents -> Account]
  BY DEF Post, BooksTypeOK
<1>2. \A j \in Agents : accounts[j] \in Account
  BY <1>1
<1>3. \A c \in Columns : saved[c] = accounts[k][c] + d[c]
  BY <1>2, ApplyType
<1> HIDE DEF saved
<1> QED
  BY <1>1, <1>2, <1>3 DEF Account

(* A movement whose ledger deltas are those of the account delta keeps     *)
(* every account equal to the sum of its ledger, entry by entry (I1).      *)
LEMMA PostChain ==
  ASSUME BooksTypeOK(accounts, ledger), LedgerChain(accounts, ledger),
         NEW k \in Agents, NEW d \in Delta, NEW biz \in BizTypes, NEW ref \in Nat,
         NEW moves \in BucketMoves,
         \A b \in Buckets : d[b] = moves[b],
         Post(k, d, biz, ref, moves)
  PROVE  LedgerChain(accounts, ledger)'
<1> DEFINE saved == Apply(accounts[k], d)
           entry == NewLedgerEntry(biz, ref, saved, moves)
           L == ledger[k]
           M == ledger'[k]
<1>1. accounts[k] \in Account /\ L \in Seq(Entry)
  BY DEF BooksTypeOK
<1>2. saved \in Account /\ \A b \in Buckets : saved[b] = accounts[k][b] + moves[b]
  BY <1>1, ApplyType DEF Columns
<1>3. /\ entry \in Entry
      /\ \A b \in Buckets : entry.after[b] = saved[b] /\ entry.delta[b] = moves[b]
  BY <1>2, EntryType
<1>4. /\ accounts' = [accounts EXCEPT ![k] = saved]
      /\ ledger' = [ledger EXCEPT ![k] = Append(L, entry)]
  BY DEF Post
<1> HIDE DEF saved, entry
<1>5. M = Append(L, entry) /\ accounts'[k] = saved
  BY <1>4 DEF BooksTypeOK
<1>6. /\ Len(M) = Len(L) + 1
      /\ Len(L) \in Nat
      /\ M[Len(L) + 1] = entry
      /\ \A i \in 1 .. Len(L) : M[i] = L[i]
  BY <1>1, <1>3, <1>5
<1> HIDE DEF L, M
<1>7. ASSUME NEW b \in Buckets, NEW i \in 1 .. Len(M)
      PROVE  M[i].after[b] = BalanceBefore(M, i, b) + M[i].delta[b]
  <2>1. \A j \in 1 .. Len(L) : L[j].after[b] = BalanceBefore(L, j, b) + L[j].delta[b]
    BY DEF LedgerChain, L
  <2>2. accounts[k][b] = BalanceBefore(L, Len(L) + 1, b)
    BY DEF LedgerChain, L
  <2>3. BalanceBefore(M, i, b) = BalanceBefore(L, i, b)
    BY <1>6 DEF BalanceBefore
  <2>4. CASE i \in 1 .. Len(L)
    BY <1>6, <2>1, <2>3, <2>4
  <2>5. CASE i = Len(L) + 1
    <3>1. M[i].after[b] = saved[b] /\ M[i].delta[b] = moves[b]
      BY <1>3, <1>6, <2>5
    <3> QED
      BY <1>2, <2>2, <2>3, <2>5, <3>1
  <2> QED
    BY <1>6, <2>4, <2>5
<1>8. ASSUME NEW b \in Buckets
      PROVE  accounts'[k][b] = BalanceBefore(M, Len(M) + 1, b)
  BY <1>3, <1>5, <1>6 DEF BalanceBefore
<1>9. ASSUME NEW j \in Agents, j # k
      PROVE  accounts'[j] = accounts[j] /\ ledger'[j] = ledger[j]
  BY <1>4, <1>9 DEF BooksTypeOK
<1> DEFINE Chained(acc, led, j, b) ==
             /\ \A i \in 1 .. Len(led[j]) :
                  led[j][i].after[b] = BalanceBefore(led[j], i, b) + led[j][i].delta[b]
             /\ acc[j][b] = BalanceBefore(led[j], Len(led[j]) + 1, b)
<1>10. \A b \in Buckets : Chained(accounts', ledger', k, b)
  BY <1>7, <1>8 DEF M
<1>11. \A j \in Agents \ {k} : \A b \in Buckets : Chained(accounts', ledger', j, b)
  <2> SUFFICES ASSUME NEW j \in Agents, j # k, NEW b \in Buckets
               PROVE  Chained(accounts', ledger', j, b)
    OBVIOUS
  <2>1. Chained(accounts, ledger, j, b)
    BY DEF LedgerChain
  <2> QED
    BY <1>9, <2>1
<1> QED
  BY <1>10, <1>11 DEF LedgerChain

(* A movement IncrementAccount accepts leaves every column within the      *)
(* machine integer.                                                        *)
LEMMA PostWidth ==
  ASSUME BooksTypeOK(accounts, ledger), WithinWidth(accounts),
         NEW k \in Agents, NEW d, NEW biz, NEW ref, NEW moves, NEW guard,
         Accepts(k, d, guard), Post(k, d, biz, ref, moves)
  PROVE  WithinWidth(accounts)'
<1>1. accounts' = [accounts EXCEPT ![k] = Apply(accounts[k], d)]
  BY DEF Post
<1>2. ~Overflows(Apply(accounts[k], d))
  BY DEF Accepts
<1> QED
  BY <1>1, <1>2 DEF WithinWidth, BooksTypeOK

(* A guarded movement leaves no negative bucket in the account it changes, *)
(* so it never creates a debt.                                             *)
LEMMA PostGuarded ==
  ASSUME BooksTypeOK(accounts, ledger),
         NEW debtAllowed, NoUnallowedDebt(accounts, debtAllowed),
         NEW k \in Agents, NEW d, NEW biz, NEW ref, NEW moves,
         Accepts(k, d, TRUE), Post(k, d, biz, ref, moves)
  PROVE  NoUnallowedDebt(accounts, debtAllowed)'
<1>1. accounts' = [accounts EXCEPT ![k] = Apply(accounts[k], d)]
  BY DEF Post
<1>2. NegativeBuckets(Apply(accounts[k], d)) = {}
  BY DEF Accepts
<1> QED
  BY <1>1, <1>2 DEF NoUnallowedDebt, BooksTypeOK

(* An unguarded movement creates no debt either, as long as it only adds,  *)
(* or takes from the withdrawable bucket where a debt is allowed.          *)
LEMMA PostUnguarded ==
  ASSUME BooksTypeOK(accounts, ledger),
         NEW debtAllowed, NoUnallowedDebt(accounts, debtAllowed),
         NEW k \in Agents, NEW d \in Delta, NEW biz, NEW ref, NEW moves,
         \A b \in Buckets : d[b] >= 0 \/ (debtAllowed /\ b = "available"),
         Post(k, d, biz, ref, moves)
  PROVE  NoUnallowedDebt(accounts, debtAllowed)'
<1> DEFINE allowed == IF debtAllowed THEN {"available"} ELSE {}
           saved == Apply(accounts[k], d)
<1>1. accounts' = [accounts EXCEPT ![k] = saved]
  BY DEF Post
<1>2. accounts[k] \in Account /\ NegativeBuckets(accounts[k]) \subseteq allowed
  BY DEF BooksTypeOK, NoUnallowedDebt
<1>3. saved \in Account /\ \A b \in Buckets : saved[b] = accounts[k][b] + d[b]
  BY <1>2, ApplyType DEF Columns
<1> HIDE DEF saved
<1>4. ASSUME NEW b \in Buckets, saved[b] < 0, b \notin allowed
      PROVE  FALSE
  <2>1. d[b] >= 0
    BY <1>4
  <2>2. accounts[k][b] \in Int /\ d[b] \in Int
    BY <1>2 DEF Account, Delta, Columns
  <2>3. accounts[k][b] < 0
    BY <1>3, <1>4, <2>1, <2>2
  <2> QED
    BY <1>2, <1>4, <2>3 DEF NegativeBuckets
<1>5. NegativeBuckets(saved) \subseteq allowed
  BY <1>4 DEF NegativeBuckets
<1> QED
  BY <1>1, <1>5 DEF NoUnallowedDebt, BooksTypeOK

-----------------------------------------------------------------------------
(***************************************************************************)
(* Arithmetic                                                              *)
(***************************************************************************)

(* A quotient is an integer in every rounding mode.                        *)
LEMMA MulDivType ==
  ASSUME NEW m \in Int, NEW n \in Int, NEW d \in Nat \ {0}, NEW mode
  PROVE  MulDiv(m, n, d, mode) \in Int
<1> DEFINE a == Abs(m)
           b == Abs(n)
<1>1. a \in Nat /\ b \in Nat
  BY DEF Abs
<1> HIDE DEF a, b
<1>2. a * b \in Nat
  BY <1>1
<1> DEFINE p == a * b
<1>3. p \div d \in Int /\ p % d \in Int
  BY <1>2, SMTT(30)
<1>4. MulDivAbs(a, b, d, mode) \in Int
  BY <1>3 DEF MulDivAbs
<1> QED
  BY <1>4 DEF MulDiv, a, b

(* A rate of a whole amount is a whole amount.                             *)
LEMMA ApplyRateType ==
  ASSUME NEW m \in Int, NEW r \in Int, NEW mode
  PROVE  ApplyRate(m, r, mode) \in Int
  BY MulDivType DEF ApplyRate, RateScale

-----------------------------------------------------------------------------
(***************************************************************************)
(* Rows                                                                    *)
(***************************************************************************)

(* Rates and the cap are basis points.                                     *)
LEMMA RatesType == Rates \subseteq Int /\ MaxAllocatableBP \in Int
<1>1. Rates \subseteq 0 .. RateScale /\ MaxAllocatableBP \in 0 .. RateScale
  BY EngineAssumption, Zenon
<1>2. RateScale \in Nat
  BY DEF RateScale
<1> QED
  BY <1>1, <1>2

(* Line items are numbers.                                                 *)
LEMMA ItemsType == AllItems \subseteq Nat
  BY EngineAssumption DEF AllItems

(* Changing a row in place, and appending one.                             *)
LEMMA RowsType ==
  ASSUME NEW T, NEW S \in Seq(T), NEW r \in T
  PROVE  /\ DOMAIN S \subseteq Nat
         /\ Append(S, r) \in Seq(T)
         /\ \A c \in DOMAIN S : [S EXCEPT ![c] = r] \in Seq(T)
  BY ExceptSeq

(* What the items, the bases and the running totals of an order are.       *)
LEMMA AccrualsType ==
  ASSUME commissions \in Seq(Commission), NEW o \in Orders
  PROVE  /\ Accruals(o) \subseteq DOMAIN commissions
         /\ AccrualItems(o) \subseteq Nat
         /\ \A i : AccrualsOf(o, i) \subseteq DOMAIN commissions
         /\ \A i : AccrualsOf(o, i) # {} => BaseOf(o, i) \in Nat \ {0}
         /\ \A i \in AccrualItems(o) : AccrualsOf(o, i) # {}
<1>1. \A c \in DOMAIN commissions : commissions[c] \in Commission
  OBVIOUS
<1>2. /\ Accruals(o) \subseteq DOMAIN commissions
      /\ \A i : AccrualsOf(o, i) \subseteq DOMAIN commissions
  BY DEF Accruals, AccrualsOf
<1>3. AccrualItems(o) \subseteq Nat
  BY <1>1, <1>2 DEF AccrualItems, Commission
<1>4. ASSUME NEW i, AccrualsOf(o, i) # {}
      PROVE  BaseOf(o, i) \in Nat \ {0}
  <2>1. (CHOOSE c \in AccrualsOf(o, i) : TRUE) \in DOMAIN commissions
    BY <1>2, <1>4
  <2> QED
    BY <1>1, <2>1 DEF BaseOf, Commission
<1>5. \A i \in AccrualItems(o) : AccrualsOf(o, i) # {}
  BY DEF AccrualItems, AccrualsOf
<1> QED
  BY <1>2, <1>3, <1>4, <1>5

(* However a refund is spread, every item's share is a natural number.     *)
LEMMA RefundSharesType ==
  ASSUME commissions \in Seq(Commission), NEW o \in Orders, NEW ev \in RefundEvents
  PROVE  RefundShares(o, ev) \in [AllItems -> Nat]
<1> DEFINE share == RefundShares(o, ev)
<1> SUFFICES ASSUME NEW i \in AllItems
             PROVE  share[i] \in Nat
  BY DEF RefundShares
<1>1. ASSUME NEW x, NEW base \in Nat
      PROVE  ClampShare(x, base) \in Nat
  BY DEF ClampShare
<1>2. i \in AccrualItems(o) => BaseOf(o, i) \in Nat
  BY AccrualsType
<1>3. /\ ev.kind \in {"full", "items", "amount"}
      /\ ev.kind = "items" => \A j \in DOMAIN ev.items : ev.items[j] \in Nat
  BY EngineAssumption
<1>4. CASE i \notin AccrualItems(o)
  BY <1>4 DEF RefundShares
<1>5. CASE i \in AccrualItems(o) /\ ev.kind = "full"
  BY <1>2, <1>5 DEF RefundShares
<1>6. CASE i \in AccrualItems(o) /\ ev.kind = "items"
  BY <1>3, <1>6 DEF RefundShares
<1>7. CASE i \in AccrualItems(o) /\ ev.kind = "amount"
  <2>1. Portion(o, i, ev.amount) \in Nat
    BY <1>1, <1>2, <1>7 DEF Portion
  <2>2. ClampShare(Remainder(o, ev.amount), BaseOf(o, i)) \in Nat
    BY <1>1, <1>2, <1>7
  <2> QED
    BY <1>7, <2>1, <2>2 DEF RefundShares
<1> QED
  BY <1>3, <1>4, <1>5, <1>6, <1>7

-----------------------------------------------------------------------------
(***************************************************************************)
(* Transactions                                                            *)
(***************************************************************************)

StoreOK == StoreTypeOK(accounts, ledger, commissions, vouchers)

(* The op field tells the three kinds of transaction apart.                *)
LEMMA TxKinds ==
  ASSUME EngineTypeOK
  PROVE  /\ tx.op = "paid" => tx \in PaidTx
         /\ tx.op = "refund" => tx \in RefundTx
         /\ tx.op = "settle" => tx \in SettleTx
         /\ tx.op \in {"paid", "refund", "settle"} =>
              StoreTypeOK(undo.accounts, undo.ledger, undo.commissions, undo.vouchers)
         /\ tx.op = "refund" => tx.items \subseteq AccrualItems(tx.order)
  BY DEF EngineTypeOK, TxTypeOK, Idle, PaidTx, RefundTx, SettleTx

(* Opening a transaction.                                                  *)
LEMMA BeginType ==
  ASSUME EngineTypeOK, NEW t \in PaidTx \cup RefundTx \cup SettleTx,
         t.op = "refund" => t.items \subseteq AccrualItems(t.order),
         Begin(t), UNCHANGED clock, beat' \in Beat
  PROVE  EngineTypeOK'
<1>1. /\ tx' = t
      /\ undo'.accounts = accounts /\ undo'.ledger = ledger
      /\ undo'.commissions = commissions /\ undo'.vouchers = vouchers
      /\ UNCHANGED <<accounts, ledger, commissions, vouchers>>
  BY DEF Begin, storeVars
<1>2. StoreOK'
  BY <1>1 DEF EngineTypeOK, StoreOK, StoreTypeOK, BooksTypeOK
<1>3. StoreTypeOK(undo.accounts, undo.ledger, undo.commissions, undo.vouchers)'
  BY <1>1 DEF EngineTypeOK, StoreTypeOK, BooksTypeOK
<1>4. t.op = "refund" => t.items \subseteq AccrualItems(t.order)'
  BY <1>1 DEF AccrualItems, Accruals
<1>5. TxTypeOK'
  BY <1>1, <1>3, <1>4 DEF TxTypeOK
<1> QED
  BY <1>2, <1>5 DEF EngineTypeOK, StoreOK

(* Committing a transaction.                                               *)
LEMMA CommitType ==
  ASSUME EngineTypeOK, Commit, UNCHANGED clock, beat' \in Beat
  PROVE  EngineTypeOK'
  BY DEF EngineTypeOK, Commit, storeVars, TxTypeOK, StoreTypeOK, BooksTypeOK

(* Undoing a transaction.                                                  *)
LEMMA RollbackType ==
  ASSUME EngineTypeOK, tx.op \in {"paid", "refund", "settle"},
         Rollback, UNCHANGED clock, beat' \in Beat
  PROVE  EngineTypeOK'
<1>1. StoreTypeOK(undo.accounts, undo.ledger, undo.commissions, undo.vouchers)
  BY TxKinds
<1>2. StoreOK'
  BY <1>1 DEF Rollback, StoreOK, StoreTypeOK, BooksTypeOK
<1> QED
  BY <1>2 DEF EngineTypeOK, Rollback, TxTypeOK, StoreOK

(* A step inside a transaction.                                            *)
LEMMA TxContinues ==
  ASSUME EngineTypeOK, tx.op \in {"paid", "refund", "settle"}, StoreOK',
         tx' \in PaidTx \cup RefundTx \cup SettleTx,
         (tx.op = "refund" => tx.items \subseteq AccrualItems(tx.order))',
         UNCHANGED <<undo, clock, beat>>
  PROVE  EngineTypeOK'
<1>1. StoreTypeOK(undo.accounts, undo.ledger, undo.commissions, undo.vouchers)'
  BY TxKinds DEF StoreTypeOK, BooksTypeOK
<1>2. TxTypeOK'
  BY <1>1 DEF TxTypeOK
<1> QED
  BY <1>2 DEF EngineTypeOK, StoreOK

(* A step that opens no transaction and belongs to none.                   *)
LEMMA PlainStep ==
  ASSUME EngineTypeOK, Unlocked, StoreOK', UNCHANGED <<tx, undo>>,
         clock' \in 0 .. MaxTime, beat' \in Beat
  PROVE  EngineTypeOK'
<1>1. tx = Idle /\ undo = NoUndo
  BY DEF EngineTypeOK, TxTypeOK, Unlocked, Idle, PaidTx, RefundTx, SettleTx
<1> QED
  BY <1>1 DEF EngineTypeOK, TxTypeOK, StoreOK

-----------------------------------------------------------------------------
(***************************************************************************)
(* Type correctness, action by action                                      *)
(***************************************************************************)

(* Accrual begins with the shape of a transaction.                         *)
LEMMA OnOrderPaidType ==
  ASSUME EngineTypeOK, NEW o \in Orders, OnOrderPaid(o)
  PROVE  EngineTypeOK'
<1>1. PICK days \in FreezeWindows :
        Begin([op |-> "paid", order |-> o, freezeDays |-> days,
               item |-> 1, layer |-> 1, agent |-> Referrer[o], allocated |-> 0])
  BY DEF OnOrderPaid
<1> DEFINE t == [op |-> "paid", order |-> o, freezeDays |-> days,
                 item |-> 1, layer |-> 1, agent |-> Referrer[o], allocated |-> 0]
<1>2. t \in PaidTx /\ t.op # "refund"
  BY EngineAssumption DEF PaidTx
<1>3. UNCHANGED clock /\ beat' \in Beat
  BY DEF OnOrderPaid, EngineTypeOK
<1> HIDE DEF t
<1>4. Begin(t)
  BY <1>1 DEF t
<1> QED
  BY <1>2, <1>3, <1>4, BeginType

(* At a layer, the layer's agent is an account and the line item exists.   *)
LEMMA AtLayerType ==
  ASSUME EngineTypeOK, AtLayer
  PROVE  /\ tx \in PaidTx
         /\ tx.agent \in Agents
         /\ Basket[tx.order][tx.item] \in Nat \ {0}
         /\ \A rate \in Rates : LayerAmount(rate) \in Int
<1>1. tx \in PaidTx /\ tx.agent \in Agents
  BY TxKinds DEF AtLayer, PaidTx
<1>2. tx.item \in 1 .. Len(Basket[tx.order]) /\ Basket[tx.order] \in Seq(Nat \ {0})
  BY <1>1, EngineAssumption DEF AtLayer, PaidTx
<1>3. Basket[tx.order][tx.item] \in Nat \ {0}
  BY <1>2
<1>4. ASSUME NEW rate \in Rates
      PROVE  LayerAmount(rate) \in Int
  <2>1. rate \in Int /\ MaxAllocatableBP \in Int /\ tx.allocated \in Int
    <3>1. tx.allocated \in Int
      BY <1>1 DEF PaidTx
    <3> QED
      BY <3>1, RatesType
  <2> DEFINE base == Basket[tx.order][tx.item]
  <2>2. base \in Int
    BY <1>3
  <2> HIDE DEF base
  <2>3. /\ ApplyRate(base, MaxAllocatableBP, "down") \in Int
        /\ ApplyRate(base, rate, Rounding) \in Int
    BY <2>1, <2>2, ApplyRateType
  <2> QED
    BY <2>1, <2>3 DEF LayerAmount, base
<1> QED
  BY <1>1, <1>3, <1>4

(* The accrual moves on to the next layer.                                 *)
LEMMA NextLayerType ==
  ASSUME EngineTypeOK, AtLayer, NEW amount \in Int, NextLayer(amount)
  PROVE  tx' \in PaidTx /\ tx'.op = "paid"
<1>1. tx \in PaidTx /\ Upline[tx.agent] \in Agents \cup {NoAgent}
  BY AtLayerType, EngineAssumption
<1>2. tx' = [tx EXCEPT !.layer = tx.layer + 1, !.agent = Upline[tx.agent],
                       !.allocated = tx.allocated + amount]
  BY <1>1 DEF NextLayer, PaidTx
<1>3. tx.layer + 1 \in Nat /\ tx.allocated + amount \in Int
  BY <1>1 DEF PaidTx
<1> QED
  BY <1>1, <1>2, <1>3 DEF PaidTx

(* The row an accrual writes.                                              *)
LEMMA NewCommissionType ==
  ASSUME EngineTypeOK, AtLayer, NEW amount \in Int
  PROVE  NewCommission(amount) \in Commission
<1>1. /\ tx.order \in Orders /\ tx.item \in Nat /\ tx.layer \in Nat
      /\ tx.freezeDays \in Nat
  BY AtLayerType DEF PaidTx
<1>2. tx.agent \in Agents /\ Basket[tx.order][tx.item] \in Nat \ {0}
  BY AtLayerType
<1> QED
  BY <1>1, <1>2 DEF NewCommission, Commission, CommissionStates, Unset

(* The delta of an accrual.                                                *)
LEMMA AccrualDeltaType ==
  ASSUME NEW amount \in Int
  PROVE  /\ AccrualDelta(amount) \in Delta
         /\ [NoMoves EXCEPT !["frozen"] = amount] \in BucketMoves
         /\ \A b \in Buckets : AccrualDelta(amount)[b] = [NoMoves EXCEPT !["frozen"] = amount][b]
  BY DEF AccrualDelta, Delta, NoDelta, NoMoves, BucketMoves, Columns, Buckets, Totals

(* A layer gets its commission.                                            *)
LEMMA AccrueLayerType ==
  ASSUME EngineTypeOK, NEW rate \in Rates, AccrueLayer(rate)
  PROVE  EngineTypeOK'
<1> DEFINE amount == LayerAmount(rate)
<1>1. AtLayer /\ NextLayer(amount) /\ UNCHANGED <<vouchers, undo, clock, beat>>
  BY DEF AccrueLayer
<1>2. amount \in Int
  BY <1>1, AtLayerType
<1>3. /\ Post(tx.agent, AccrualDelta(amount), "accrue", Len(commissions) + 1,
              [NoMoves EXCEPT !["frozen"] = amount])
      /\ commissions' = Append(commissions, NewCommission(amount))
  BY DEF AccrueLayer
<1> HIDE DEF amount
<1>4. commissions \in Seq(Commission) /\ BooksTypeOK(accounts, ledger) /\ vouchers \subseteq Voucher
  BY DEF EngineTypeOK, StoreTypeOK
<1>5. commissions' \in Seq(Commission)
  BY <1>1, <1>2, <1>3, <1>4, NewCommissionType, RowsType
<1>6. BooksTypeOK(accounts, ledger)'
  <2>1. "accrue" \in BizTypes /\ Len(commissions) + 1 \in Nat /\ tx.agent \in Agents
    BY <1>1, <1>4, AtLayerType DEF BizTypes
  <2> QED
    BY <1>2, <1>3, <1>4, <2>1, AccrualDeltaType, PostType
<1>7. StoreOK'
  BY <1>1, <1>4, <1>5, <1>6 DEF StoreOK, StoreTypeOK
<1>8. tx' \in PaidTx /\ tx'.op = "paid" /\ tx.op = "paid"
  BY <1>1, <1>2, NextLayerType DEF AtLayer
<1> QED
  BY <1>1, <1>7, <1>8, TxContinues

(* A store nobody writes to stays well-typed.                              *)
LEMMA StoreUnchanged ==
  ASSUME EngineTypeOK, UNCHANGED storeVars
  PROVE  StoreOK' /\ \A o : AccrualItems(o)' = AccrualItems(o)
  BY DEF EngineTypeOK, storeVars, StoreOK, StoreTypeOK, BooksTypeOK, AccrualItems, Accruals

(* A layer gets nothing.                                                   *)
LEMMA SkipLayerType ==
  ASSUME EngineTypeOK, SkipLayer
  PROVE  EngineTypeOK'
<1>1. AtLayer /\ NextLayer(0) /\ UNCHANGED storeVars /\ UNCHANGED <<undo, clock, beat>>
  BY DEF SkipLayer
<1>2. tx' \in PaidTx /\ tx'.op = "paid" /\ tx.op = "paid"
  BY <1>1, NextLayerType DEF AtLayer
<1> QED
  BY <1>1, <1>2, StoreUnchanged, TxContinues

(* An accrual that would overflow is rolled back.                          *)
LEMMA AbortAccrualType ==
  ASSUME EngineTypeOK, NEW rate \in Rates, AbortAccrual(rate)
  PROVE  EngineTypeOK'
<1>1. tx.op = "paid" /\ Rollback /\ UNCHANGED clock /\ beat' \in Beat
  BY DEF AbortAccrual, AtLayer, EngineTypeOK
<1> QED
  BY <1>1, RollbackType

(* The next line item, or the end of the accrual.                          *)
LEMMA NextBaseType ==
  ASSUME EngineTypeOK, NextBase
  PROVE  EngineTypeOK'
<1>1. tx.op = "paid" /\ UNCHANGED <<clock, beat>> /\ beat' \in Beat
  BY DEF NextBase, EngineTypeOK
<1>2. CASE tx.item < Len(Basket[tx.order])
  <2>1. /\ tx' = [tx EXCEPT !.item = @ + 1, !.layer = 1,
                            !.agent = Referrer[tx.order], !.allocated = 0]
        /\ UNCHANGED storeVars /\ UNCHANGED undo
    BY <1>2 DEF NextBase
  <2>2. tx \in PaidTx
    BY <1>1, TxKinds
  <2>3. Referrer[tx.order] \in Agents \cup {NoAgent} /\ tx.item + 1 \in Nat \ {0}
    BY <2>2, EngineAssumption DEF PaidTx
  <2>4. tx' = [op |-> "paid", order |-> tx.order, freezeDays |-> tx.freezeDays,
               item |-> tx.item + 1, layer |-> 1,
               agent |-> Referrer[tx.order], allocated |-> 0]
    BY <2>1, <2>2 DEF PaidTx
  <2>5. tx' \in PaidTx /\ tx'.op = "paid"
    BY <2>2, <2>3, <2>4 DEF PaidTx
  <2> QED
    BY <1>1, <2>1, <2>5, StoreUnchanged, TxContinues
<1>3. CASE ~(tx.item < Len(Basket[tx.order]))
  <2>1. Commit
    BY <1>3 DEF NextBase
  <2> QED
    BY <1>1, <2>1, CommitType
<1> QED
  BY <1>2, <1>3

(* A receipt dates the order's rows.                                       *)
LEMMA OnOrderReceivedType ==
  ASSUME EngineTypeOK, NEW o \in Orders, NEW at \in ReceiptTimes, OnOrderReceived(o, at)
  PROVE  EngineTypeOK'
<1>1. /\ Unlocked
      /\ UNCHANGED <<accounts, ledger, vouchers, clock, tx, undo, beat>>
  BY DEF OnOrderReceived
<1> DEFINE dated(c) == [commissions[c] EXCEPT
                          !.availableAt = at + commissions[c].freezeDays]
           row(c) == IF commissions[c].order = o /\ AwaitsReceipt(commissions[c])
                       THEN dated(c) ELSE commissions[c]
<1>2. commissions' = [c \in DOMAIN commissions |-> row(c)]
  BY DEF OnOrderReceived
<1>3. /\ commissions \in Seq(Commission) /\ BooksTypeOK(accounts, ledger)
      /\ vouchers \subseteq Voucher /\ clock \in 0 .. MaxTime /\ beat \in Beat
  BY DEF EngineTypeOK, StoreTypeOK
<1>4. ASSUME NEW c \in DOMAIN commissions
      PROVE  row(c) \in Commission
  <2>1. commissions[c] \in Commission
    BY <1>3
  <2>2. at + commissions[c].freezeDays \in Int
    BY <2>1, EngineAssumption DEF Commission
  <2>3. dated(c) \in Commission
    BY <2>1, <2>2 DEF Commission
  <2> QED
    BY <2>1, <2>3
<1> HIDE DEF row, dated
<1>5. commissions' \in Seq(Commission)
  <2>1. DOMAIN commissions = 1 .. Len(commissions) /\ Len(commissions) \in Nat
    BY <1>3
  <2> QED
    BY <1>2, <1>4, <2>1
<1>6. StoreOK'
  BY <1>1, <1>3, <1>5 DEF StoreOK, StoreTypeOK, BooksTypeOK
<1> QED
  BY <1>1, <1>3, <1>6, PlainStep

(* What a receipt leaves of a row: everything but the date, and the date   *)
(* too if the row had one.                                                 *)
LEMMA ReceivedRow ==
  ASSUME EngineTypeOK, NEW o \in Orders, NEW at \in ReceiptTimes, OnOrderReceived(o, at),
         NEW c \in DOMAIN commissions
  PROVE  LET r == commissions[c]
             s == commissions'[c]
         IN  /\ r.order = s.order /\ r.item = s.item /\ r.agent = s.agent
             /\ r.layer = s.layer /\ r.base = s.base /\ r.amount = s.amount
             /\ r.freezeDays = s.freezeDays /\ r.state = s.state
             /\ r.reversed = s.reversed /\ r.reverseOf = s.reverseOf /\ r.target = s.target
             /\ r.availableAt # Unset => s.availableAt = r.availableAt
<1>1. commissions[c] \in Commission
  BY DEF EngineTypeOK, StoreTypeOK
<1>2. commissions'[c] = IF commissions[c].order = o /\ AwaitsReceipt(commissions[c])
                          THEN [commissions[c] EXCEPT
                                  !.availableAt = at + commissions[c].freezeDays]
                          ELSE commissions[c]
  BY DEF OnOrderReceived
<1> DEFINE r == commissions[c]
<1>3. CASE r.order = o /\ AwaitsReceipt(r)
  <2>1. r.availableAt = Unset
    BY <1>3 DEF AwaitsReceipt
  <2> QED
    BY <1>1, <1>2, <1>3, <2>1 DEF Commission
<1>4. CASE ~(r.order = o /\ AwaitsReceipt(r))
  BY <1>2, <1>4
<1> QED
  BY <1>3, <1>4

-----------------------------------------------------------------------------

(* The delta of a clawback.                                                *)
LEMMA DebitType ==
  ASSUME NEW bucket \in Buckets, NEW amount \in Int
  PROVE  /\ DebitDelta(bucket, amount) \in Delta
         /\ [NoMoves EXCEPT ![bucket] = -amount] \in BucketMoves
         /\ \A b \in Buckets :
              DebitDelta(bucket, amount)[b] = [NoMoves EXCEPT ![bucket] = -amount][b]
         /\ \A b \in Buckets \ {bucket} : DebitDelta(bucket, amount)[b] = 0
<1>1. bucket \in Columns /\ "totalReversed" \in Columns /\ "totalReversed" \notin Buckets
  BY DEF Columns, Buckets, Totals
<1> QED
  BY <1>1 DEF DebitDelta, Delta, NoDelta, NoMoves, BucketMoves, Columns

(* A clawback debits a bucket.                                             *)
LEMMA ReversalBucketType == \A s : ReversalBucket(s) \in Buckets
  BY DEF ReversalBucket, Buckets

(* A clawback keeps the rows' and the books' types, and every line item    *)
(* that had an accrual still has one.                                      *)
LEMMA ClawBackType ==
  ASSUME EngineTypeOK, NEW c \in DOMAIN commissions, NEW target \in Nat,
         NEW terminal \in {"reversed", "void"}, NEW biz \in {"reverse", "void"},
         ClawBack(c, target, terminal, biz)
  PROVE  /\ BooksTypeOK(accounts, ledger)'
         /\ commissions' \in Seq(Commission)
         /\ \A o : AccrualItems(o) \subseteq AccrualItems(o)'
<1> DEFINE row == commissions[c]
           delta == target - row.reversed
           bucket == ReversalBucket(row.state)
           ended == [row EXCEPT !.reversed = target,
                                !.state = IF target >= row.amount THEN terminal ELSE @]
           record == ReversalRecord(c, target)
<1>1. commissions \in Seq(Commission) /\ BooksTypeOK(accounts, ledger)
  BY DEF EngineTypeOK, StoreTypeOK
<1>2. row \in Commission /\ c \in Nat
  BY <1>1
<1>3. ended \in Commission /\ ended.order = row.order /\ ended.item = row.item
        /\ ended.amount = row.amount
  <2>1. (IF target >= row.amount THEN terminal ELSE row.state) \in CommissionStates
    BY <1>2 DEF Commission, CommissionStates
  <2>2. ended = [row EXCEPT !.reversed = target,
                   !.state = IF target >= row.amount THEN terminal ELSE row.state]
    BY <1>2 DEF Commission
  <2> HIDE DEF row, ended
  <2> QED
    BY <1>2, <2>1, <2>2 DEF Commission
<1>4. record \in Commission
  <2>1. record =
          [order |-> row.order, item |-> row.item, agent |-> row.agent,
           layer |-> row.layer, base |-> row.base, amount |-> row.reversed - target,
           state |-> "reversed", freezeDays |-> 0, availableAt |-> Unset,
           reversed |-> 0, reverseOf |-> c, target |-> target]
    BY DEF ReversalRecord
  <2>2. row.reversed - target \in Int /\ Unset \in Int
    BY <1>2 DEF Commission, Unset
  <2> HIDE DEF row, record
  <2> QED
    BY <1>2, <2>1, <2>2 DEF Commission, CommissionStates
<1>5. commissions' = Append([commissions EXCEPT ![c] = ended], record)
  BY <1>1 DEF ClawBack
<1>6. [commissions EXCEPT ![c] = ended] \in Seq(Commission)
  BY <1>1, <1>3, RowsType
<1>7. commissions' \in Seq(Commission)
  BY <1>4, <1>5, <1>6, RowsType
<1>8. BooksTypeOK(accounts, ledger)'
  <2>1. Post(row.agent, DebitDelta(bucket, delta), biz, Len(commissions) + 1,
             [NoMoves EXCEPT ![bucket] = -delta])
    BY DEF ClawBack
  <2>2. row.agent \in Agents /\ delta \in Int /\ bucket \in Buckets
    BY <1>2, ReversalBucketType DEF Commission
  <2>3. biz \in BizTypes /\ Len(commissions) + 1 \in Nat
    BY <1>1 DEF BizTypes
  <2> HIDE DEF row, delta, bucket
  <2> QED
    BY <1>1, <2>1, <2>2, <2>3, DebitType, PostType
<1>9. ASSUME NEW o
      PROVE  AccrualItems(o) \subseteq AccrualItems(o)'
  <2>1. /\ DOMAIN commissions \subseteq DOMAIN commissions'
        /\ \A x \in DOMAIN commissions :
             commissions'[x] = IF x = c THEN ended ELSE commissions[x]
    <3> HIDE DEF ended, record
    <3> DEFINE S == [commissions EXCEPT ![c] = ended]
    <3>1. S \in Seq(Commission) /\ Len(S) = Len(commissions)
      BY <1>1, <1>6
    <3>2. \A x \in DOMAIN commissions : S[x] = IF x = c THEN ended ELSE commissions[x]
      BY <1>1
    <3> HIDE DEF S
    <3> QED
      BY <1>1, <1>4, <1>5, <3>1, <3>2 DEF S
  <2>2. Accruals(o) \subseteq Accruals(o)'
    <3> HIDE DEF ended
    <3> QED
      BY <1>3, <2>1 DEF Accruals
  <2> QED
    <3> HIDE DEF ended
    <3>1. \A x \in Accruals(o) : commissions'[x].item = commissions[x].item
      BY <1>3, <2>1 DEF Accruals
    <3> QED
      BY <2>2, <3>1 DEF AccrualItems
<1> QED
  BY <1>7, <1>8, <1>9

(* The columns no clawback and no transition touches.                      *)
SameAccrual(r, s) ==
  /\ r.order = s.order /\ r.item = s.item /\ r.agent = s.agent /\ r.layer = s.layer
  /\ r.base = s.base /\ r.amount = s.amount /\ r.freezeDays = s.freezeDays
  /\ r.availableAt = s.availableAt /\ r.reverseOf = s.reverseOf /\ r.target = s.target

(* What a clawback leaves of the table: the row with its new total, the    *)
(* reversal row after the last one, and every other row as it was.         *)
LEMMA ClawBackRows ==
  ASSUME EngineTypeOK, NEW c \in DOMAIN commissions, NEW target \in Nat,
         NEW terminal \in {"reversed", "void"}, NEW biz \in {"reverse", "void"},
         ClawBack(c, target, terminal, biz)
  PROVE  /\ commissions \in Seq(Commission) /\ commissions' \in Seq(Commission)
         /\ DOMAIN commissions = 1 .. Len(commissions) /\ Len(commissions) \in Nat
         /\ Len(commissions') = Len(commissions) + 1
         /\ DOMAIN commissions' = DOMAIN commissions \cup {Len(commissions) + 1}
         /\ Len(commissions) + 1 \notin DOMAIN commissions
         /\ \A y \in DOMAIN commissions \ {c} : commissions'[y] = commissions[y]
         /\ SameAccrual(commissions[c], commissions'[c])
         /\ commissions'[c].reversed = target
         /\ commissions'[c].state =
              IF target >= commissions[c].amount THEN terminal ELSE commissions[c].state
         /\ commissions'[Len(commissions) + 1] = ReversalRecord(c, target)
<1> DEFINE row == commissions[c]
           ended == [row EXCEPT !.reversed = target,
                                !.state = IF target >= row.amount THEN terminal ELSE row.state]
           record == ReversalRecord(c, target)
           S == [commissions EXCEPT ![c] = ended]
           n == Len(commissions)
<1>1. commissions \in Seq(Commission) /\ commissions' \in Seq(Commission)
  BY ClawBackType DEF EngineTypeOK, StoreTypeOK
<1>2. row \in Commission
  BY <1>1
<1>3. commissions' = Append(S, record)
  <2>1. [row EXCEPT !.reversed = target,
                    !.state = IF target >= row.amount THEN terminal ELSE @] = ended
    BY <1>2 DEF Commission
  <2> QED
    BY <1>1, <2>1 DEF ClawBack
<1>4. ended \in Commission
  <2>1. (IF target >= row.amount THEN terminal ELSE row.state) \in CommissionStates
    BY <1>2 DEF Commission, CommissionStates
  <2> HIDE DEF row
  <2> QED
    BY <1>2, <2>1 DEF Commission
<1> HIDE DEF ended, record
<1>5. /\ n \in Nat /\ DOMAIN commissions = 1 .. n
      /\ S \in Seq(Commission) /\ DOMAIN S = 1 .. n /\ Len(S) = n
  BY <1>1, <1>4, RowsType
<1>6. S[c] = ended /\ \A y \in DOMAIN commissions \ {c} : S[y] = commissions[y]
  BY <1>1
<1> HIDE DEF S, n
<1>7. /\ Len(commissions') = n + 1 /\ DOMAIN commissions' = 1 .. n + 1
      /\ commissions'[n + 1] = record
      /\ \A y \in 1 .. n : commissions'[y] = S[y]
  BY <1>3, <1>5
<1>8. 1 .. n + 1 = (1 .. n) \cup {n + 1} /\ n + 1 \notin 1 .. n
  BY <1>5
<1>9. /\ commissions'[c] = ended
      /\ \A y \in DOMAIN commissions \ {c} : commissions'[y] = commissions[y]
  BY <1>5, <1>6, <1>7
<1>10. /\ SameAccrual(row, ended) /\ ended.reversed = target
       /\ ended.state = IF target >= row.amount THEN terminal ELSE row.state
  <2> HIDE DEF row
  <2> QED
    BY <1>2 DEF ended, SameAccrual, Commission
<1> QED
  BY <1>1, <1>5, <1>7, <1>8, <1>9, <1>10 DEF record, n

(* The running total a refund builds on is a natural number.               *)
LEMMA CumulativesType ==
  ASSUME vouchers \subseteq Voucher, NEW o, NEW i
  PROVE  Cumulatives(o, i) \subseteq Nat
  BY DEF Cumulatives, Voucher

(* A refund opens its transaction.                                         *)
LEMMA OnOrderRefundedType ==
  ASSUME EngineTypeOK, NEW o \in Orders, NEW key \in RefundKeys, NEW ev \in RefundEvents,
         OnOrderRefunded(o, key, ev)
  PROVE  EngineTypeOK'
<1> DEFINE t == [op |-> "refund", order |-> o, key |-> key,
                 shares |-> RefundShares(o, ev), items |-> AccrualItems(o),
                 item |-> 0, target |-> 0, todo |-> {}]
<1>1. Begin(t) /\ UNCHANGED clock /\ beat' \in Beat
  BY DEF OnOrderRefunded, EngineTypeOK
<1>2. commissions \in Seq(Commission)
  BY DEF EngineTypeOK, StoreTypeOK
<1>3. RefundShares(o, ev) \in [AllItems -> Nat] /\ AccrualItems(o) \in SUBSET Nat
  BY <1>2, RefundSharesType, AccrualsType
<1>4. t \in RefundTx /\ t.items \subseteq AccrualItems(t.order)
  BY <1>3 DEF RefundTx
<1> HIDE DEF t
<1> QED
  BY <1>1, <1>4, BeginType

(* A refund turns to a line item and writes its voucher.                   *)
LEMMA RefundItemType ==
  ASSUME EngineTypeOK, NEW i \in AllItems, RefundItem(i)
  PROVE  EngineTypeOK'
<1>1. /\ tx.op = "refund" /\ NextItem(i)
      /\ UNCHANGED <<accounts, ledger, commissions, undo, clock, beat>>
  BY DEF RefundItem
<1>2. PICK cum \in Cumulatives(tx.order, i) :
        LET target == RefundTarget(tx.order, i, cum)
        IN  IF target > cum /\ ~Vouched(tx.order, i, tx.key)
              THEN /\ vouchers' = vouchers \cup
                        {[order |-> tx.order, item |-> i, key |-> tx.key,
                          amount |-> tx.shares[i], cumulative |-> target]}
                   /\ tx' = [tx EXCEPT !.items = @ \ {i}, !.item = i,
                                       !.target = target,
                                       !.todo = AccrualsOf(tx.order, i)]
              ELSE /\ tx' = [tx EXCEPT !.items = @ \ {i}]
                   /\ UNCHANGED vouchers
  BY DEF RefundItem
<1> DEFINE target == RefundTarget(tx.order, i, cum)
<1>3. /\ tx \in RefundTx /\ tx.items \subseteq AccrualItems(tx.order)
      /\ commissions \in Seq(Commission) /\ vouchers \subseteq Voucher
      /\ BooksTypeOK(accounts, ledger)
  BY <1>1, TxKinds DEF EngineTypeOK, StoreTypeOK
<1>4. /\ tx.order \in Orders /\ tx.key \in RefundKeys /\ tx.shares[i] \in Nat
      /\ i \in tx.items /\ i \in Nat /\ cum \in Nat
  BY <1>1, <1>3, CumulativesType, ItemsType DEF RefundTx, NextItem
<1>5. BaseOf(tx.order, i) \in Nat /\ AccrualsOf(tx.order, i) \in SUBSET Nat
  <2>1. AccrualsOf(tx.order, i) # {}
    BY <1>3, <1>4, AccrualsType
  <2>2. DOMAIN commissions \subseteq Nat
    BY <1>3
  <2> QED
    BY <1>3, <1>4, <2>1, <2>2, AccrualsType
<1>6. target \in Nat /\ target <= cum + tx.shares[i]
  BY <1>4, <1>5 DEF RefundTarget
<1>7. \A o : AccrualItems(o)' = AccrualItems(o)
  BY <1>1 DEF AccrualItems, Accruals
<1>8. CASE target > cum /\ ~Vouched(tx.order, i, tx.key)
  <2>1. /\ vouchers' = vouchers \cup
               {[order |-> tx.order, item |-> i, key |-> tx.key,
                 amount |-> tx.shares[i], cumulative |-> target]}
        /\ tx' = [tx EXCEPT !.items = @ \ {i}, !.item = i, !.target = target,
                            !.todo = AccrualsOf(tx.order, i)]
    BY <1>2, <1>8
  <2> HIDE DEF target
  <2>2. tx.shares[i] \in Nat \ {0}
    BY <1>4, <1>6, <1>8
  <2>3. [order |-> tx.order, item |-> i, key |-> tx.key,
         amount |-> tx.shares[i], cumulative |-> target] \in Voucher
    BY <1>4, <1>6, <2>2 DEF Voucher
  <2>4. tx' = [op |-> "refund", order |-> tx.order, key |-> tx.key, shares |-> tx.shares,
               items |-> tx.items \ {i}, item |-> i, target |-> target,
               todo |-> AccrualsOf(tx.order, i)]
    BY <1>3, <2>1 DEF RefundTx
  <2>5. tx' \in RefundTx /\ (tx.op = "refund" => tx.items \subseteq AccrualItems(tx.order))'
    BY <1>3, <1>4, <1>5, <1>6, <1>7, <2>4 DEF RefundTx
  <2>6. StoreOK'
    BY <1>1, <1>3, <2>1, <2>3 DEF StoreOK, StoreTypeOK, BooksTypeOK
  <2> QED
    BY <1>1, <2>5, <2>6, TxContinues
<1>9. CASE ~(target > cum /\ ~Vouched(tx.order, i, tx.key))
  <2>1. tx' = [tx EXCEPT !.items = tx.items \ {i}] /\ UNCHANGED vouchers
    BY <1>2, <1>3, <1>9 DEF RefundTx
  <2>2. tx' \in RefundTx /\ (tx.op = "refund" => tx.items \subseteq AccrualItems(tx.order))'
    BY <1>3, <1>7, <2>1 DEF RefundTx
  <2>3. StoreOK'
    BY <1>1, <1>3, <2>1 DEF StoreOK, StoreTypeOK, BooksTypeOK
  <2> QED
    BY <1>1, <2>2, <2>3, TxContinues
<1> QED
  BY <1>8, <1>9

(* The share a refund has of a row, and the total it wants reversed, are   *)
(* whole numbers.                                                          *)
LEMMA WantReversedType ==
  ASSUME EngineTypeOK, NEW c \in DOMAIN commissions, tx.op = "refund"
  PROVE  /\ MulDiv(commissions[c].amount, tx.target, commissions[c].base, "down") \in Int
         /\ WantReversed(c) \in Int
<1>1. commissions[c] \in Commission /\ tx \in RefundTx
  BY TxKinds DEF EngineTypeOK, StoreTypeOK
<1>2. /\ commissions[c].amount \in Int /\ commissions[c].base \in Nat \ {0}
      /\ tx.target \in Int
  BY <1>1 DEF Commission, RefundTx
<1>3. MulDiv(commissions[c].amount, tx.target, commissions[c].base, "down") \in Int
  BY <1>2, MulDivType
<1> QED
  BY <1>2, <1>3 DEF WantReversed

(* A refund claws back one layer.                                          *)
LEMMA ReverseLayerType ==
  ASSUME EngineTypeOK, NEW c \in DOMAIN commissions, ReverseLayer(c)
  PROVE  EngineTypeOK'
<1>1. /\ tx.op = "refund" /\ c \in tx.todo /\ NeedsReversal(c)
      /\ ClawBack(c, WantReversed(c), "reversed", "reverse")
      /\ tx' = [tx EXCEPT !.todo = @ \ {c}]
      /\ UNCHANGED <<vouchers, undo, clock, beat>>
  BY DEF ReverseLayer, NextToReverse
<1>2. /\ commissions[c] \in Commission /\ vouchers \subseteq Voucher
      /\ tx \in RefundTx /\ tx.items \subseteq AccrualItems(tx.order)
  BY <1>1, TxKinds DEF EngineTypeOK, StoreTypeOK
<1>3. WantReversed(c) \in Nat
  BY <1>1, <1>2, WantReversedType DEF NeedsReversal, Commission
<1>4. /\ BooksTypeOK(accounts, ledger)'
      /\ commissions' \in Seq(Commission)
      /\ \A o : AccrualItems(o) \subseteq AccrualItems(o)'
  BY <1>1, <1>3, ClawBackType
<1>5. StoreOK'
  BY <1>1, <1>2, <1>4 DEF StoreOK, StoreTypeOK
<1>6. tx' \in RefundTx /\ (tx.op = "refund" => tx.items \subseteq AccrualItems(tx.order))'
  BY <1>1, <1>2, <1>4 DEF RefundTx
<1> QED
  BY <1>1, <1>5, <1>6, TxContinues

(* A refund finds nothing to claw back from a layer.                       *)
LEMMA KeepLayerType ==
  ASSUME EngineTypeOK, NEW c \in DOMAIN commissions, KeepLayer(c)
  PROVE  EngineTypeOK'
<1>1. /\ tx.op = "refund" /\ tx' = [tx EXCEPT !.todo = @ \ {c}]
      /\ UNCHANGED storeVars /\ UNCHANGED <<undo, clock, beat>>
  BY DEF KeepLayer, NextToReverse
<1>2. tx \in RefundTx /\ tx.items \subseteq AccrualItems(tx.order)
  BY <1>1, TxKinds
<1>3. StoreOK' /\ \A o : AccrualItems(o)' = AccrualItems(o)
  BY <1>1, StoreUnchanged
<1>4. tx' \in RefundTx /\ (tx.op = "refund" => tx.items \subseteq AccrualItems(tx.order))'
  BY <1>1, <1>2, <1>3 DEF RefundTx
<1> QED
  BY <1>1, <1>3, <1>4, TxContinues

(* A refund that cannot be debited is rolled back.                         *)
LEMMA AbortRefundType ==
  ASSUME EngineTypeOK, NEW c \in DOMAIN commissions, AbortRefund(c)
  PROVE  EngineTypeOK'
<1>1. tx.op = "refund" /\ Rollback /\ UNCHANGED clock /\ beat' \in Beat
  BY DEF AbortRefund, NextToReverse, EngineTypeOK
<1> QED
  BY <1>1, RollbackType

(* A refund is done with all items.                                        *)
LEMMA CommitRefundType ==
  ASSUME EngineTypeOK, CommitRefund
  PROVE  EngineTypeOK'
<1>1. Commit /\ UNCHANGED clock /\ beat' \in Beat
  BY DEF CommitRefund, EngineTypeOK
<1> QED
  BY <1>1, CommitType

(* A transition changes nothing of the rows' types.                        *)
LEMMA TransitionType ==
  ASSUME EngineTypeOK, NEW c \in DOMAIN commissions, NEW from, NEW to \in CommissionStates,
         Transition(c, from, to)
  PROVE  commissions' \in Seq(Commission)
<1> DEFINE row == [commissions[c] EXCEPT !.state = to]
<1>1. commissions \in Seq(Commission)
  BY DEF EngineTypeOK, StoreTypeOK
<1>2. row \in Commission
  <2>1. commissions[c] \in Commission
    BY <1>1
  <2> QED
    BY <2>1 DEF Commission
<1>3. commissions' = [commissions EXCEPT ![c] = row]
  BY <1>1 DEF Transition
<1> HIDE DEF row
<1> QED
  BY <1>1, <1>2, <1>3, RowsType

(* What a transition leaves of the table: the row in its new state, and    *)
(* every other row as it was.                                              *)
LEMMA TransitionRows ==
  ASSUME EngineTypeOK, NEW c \in DOMAIN commissions, NEW from, NEW to \in CommissionStates,
         Transition(c, from, to)
  PROVE  /\ commissions \in Seq(Commission) /\ commissions' \in Seq(Commission)
         /\ DOMAIN commissions' = DOMAIN commissions /\ Len(commissions') = Len(commissions)
         /\ \A y \in DOMAIN commissions \ {c} : commissions'[y] = commissions[y]
         /\ SameAccrual(commissions[c], commissions'[c])
         /\ commissions'[c].reversed = commissions[c].reversed
         /\ commissions[c].state = from /\ commissions'[c].state = to
<1> DEFINE row == [commissions[c] EXCEPT !.state = to]
<1>1. commissions \in Seq(Commission) /\ commissions' \in Seq(Commission)
  BY TransitionType DEF EngineTypeOK, StoreTypeOK
<1>2. commissions[c] \in Commission
  BY <1>1
<1>3. commissions' = [commissions EXCEPT ![c] = row] /\ commissions[c].state = from
  BY <1>1 DEF Transition
<1>4. /\ SameAccrual(commissions[c], row) /\ row.reversed = commissions[c].reversed
      /\ row.state = to
  BY <1>2 DEF SameAccrual, Commission
<1> HIDE DEF row
<1>5. /\ DOMAIN commissions' = DOMAIN commissions /\ commissions'[c] = row
      /\ \A y \in DOMAIN commissions \ {c} : commissions'[y] = commissions[y]
  BY <1>3
<1>6. Len(commissions') = Len(commissions)
  BY <1>1, <1>5
<1> QED
  BY <1>1, <1>3, <1>4, <1>5, <1>6

(* Freezing a row and ending it.                                           *)
LEMMA RiskType ==
  ASSUME EngineTypeOK, NEW c \in DOMAIN commissions,
         FreezeCommission(c) \/ UnfreezeCommission(c)
  PROVE  EngineTypeOK'
<1>1. /\ Unlocked
      /\ UNCHANGED <<accounts, ledger, vouchers, clock, tx, undo, beat>>
      /\ Transition(c, "pending", "frozen") \/ Transition(c, "frozen", "pending")
  BY DEF FreezeCommission, UnfreezeCommission
<1>2. commissions' \in Seq(Commission)
  BY <1>1, TransitionType DEF CommissionStates
<1>3. StoreOK' /\ clock' \in 0 .. MaxTime /\ beat' \in Beat
  BY <1>1, <1>2 DEF EngineTypeOK, StoreOK, StoreTypeOK, BooksTypeOK
<1> QED
  BY <1>1, <1>3, PlainStep

(* Voiding a row.                                                          *)
LEMMA VoidType ==
  ASSUME EngineTypeOK, NEW c \in DOMAIN commissions, VoidCommission(c)
  PROVE  EngineTypeOK'
<1>1. /\ Unlocked
      /\ Outstanding(commissions[c]) > 0
      /\ ClawBack(c, commissions[c].amount, "void", "void")
      /\ UNCHANGED <<vouchers, clock, tx, undo, beat>>
  BY DEF VoidCommission
<1>2. commissions[c].amount \in Nat
  <2>1. commissions[c] \in Commission
    BY DEF EngineTypeOK, StoreTypeOK
  <2> QED
    BY <1>1, <2>1 DEF Outstanding, Commission
<1>3. BooksTypeOK(accounts, ledger)' /\ commissions' \in Seq(Commission)
  BY <1>1, <1>2, ClawBackType
<1>4. StoreOK' /\ clock' \in 0 .. MaxTime /\ beat' \in Beat
  BY <1>1, <1>3 DEF EngineTypeOK, StoreOK, StoreTypeOK
<1> QED
  BY <1>1, <1>4, PlainStep

-----------------------------------------------------------------------------

(* The idle heartbeat.                                                     *)
LEMMA BeatTypes ==
  ASSUME EngineTypeOK
  PROVE  NoBeat \in Beat /\ NextTenant \in Beat
  BY DEF NoBeat, Beat, NextTenant, EngineTypeOK

(* Tenants are numbers.                                                    *)
LEMMA TenantsType ==
  ASSUME EngineTypeOK, NEW S \in SUBSET (DOMAIN commissions)
  PROVE  {TenantOf[commissions[c].order] : c \in S} \in SUBSET Nat
<1>1. \A c \in DOMAIN commissions : commissions[c] \in Commission
  BY DEF EngineTypeOK, StoreTypeOK
<1>2. \A c \in S : commissions[c].order \in Orders
  BY <1>1 DEF Commission
<1> QED
  BY <1>2, EngineAssumption

(* Due rows are rows.                                                      *)
LEMMA DueType ==
  ASSUME NEW at, NEW t, NEW limit
  PROVE  /\ DueWork(at) \subseteq DOMAIN commissions
         /\ DueCommissions(t, at, limit) \subseteq DOMAIN commissions
  BY DEF DueWork, DueCommissions, Earliest, Due

(* The steps of the heartbeat that only read.                              *)
LEMMA MaintainReadsType ==
  ASSUME EngineTypeOK, MaintainStart \/ MaintainScan \/ TenantRoundsSpent \/ RoundEnds
  PROVE  EngineTypeOK'
<1>1. UNCHANGED storeVars /\ UNCHANGED <<clock, tx, undo>>
  BY DEF MaintainStart, MaintainScan, TenantRoundsSpent, RoundEnds
<1>2. beat \in Beat /\ clock \in Nat
  BY EngineAssumption DEF EngineTypeOK
<1>3. beat' \in Beat
  <2>1. CASE MaintainStart
    BY <1>2, <2>1, EngineAssumption DEF MaintainStart, NoBeat, Beat
  <2>2. CASE MaintainScan
    <3> DEFINE T == {TenantOf[commissions[c].order] : c \in DueWork(beat.now)}
    <3>1. T \in SUBSET Nat
      BY TenantsType, DueType
    <3>2. \/ beat' = NoBeat
          \/ beat' = [beat EXCEPT !.phase = "tenants", !.progressed = FALSE, !.tenants = T]
      BY <2>2 DEF MaintainScan
    <3> HIDE DEF T
    <3> QED
      BY <1>2, <3>1, <3>2, BeatTypes DEF Beat
  <2>3. CASE TenantRoundsSpent
    BY <2>3, BeatTypes DEF TenantRoundsSpent
  <2>4. CASE RoundEnds
    <3>1. \/ beat' = NoBeat
          \/ beat' = [phase |-> "scan", now |-> beat.now, round |-> beat.round + 1,
                      tenants |-> {}, tenantRound |-> 0, budget |-> beat.budget,
                      progressed |-> beat.progressed]
      BY <1>2, <2>4 DEF RoundEnds, Beat
    <3>2. beat.round + 1 \in Nat
      BY <1>2 DEF Beat
    <3> QED
      BY <1>2, <3>1, <3>2, BeatTypes DEF Beat
  <2> QED
    BY <2>1, <2>2, <2>3, <2>4
<1>4. StoreOK' /\ \A o : AccrualItems(o)' = AccrualItems(o)
  BY <1>1, StoreUnchanged
<1>5. TxTypeOK'
  BY <1>1, <1>4 DEF EngineTypeOK, TxTypeOK, StoreTypeOK, BooksTypeOK
<1> QED
  BY <1>1, <1>3, <1>4, <1>5 DEF EngineTypeOK, StoreOK

(* The heartbeat opens a batch.                                            *)
LEMMA MaintainTenantType ==
  ASSUME EngineTypeOK, NEW t \in Tenants, MaintainTenant(t)
  PROVE  EngineTypeOK'
<1> DEFINE todo == {c \in DueCommissions(t, beat.now, Permits) :
                      Outstanding(commissions[c]) > 0}
           b == [op |-> "settle", count |-> 0, todo |-> todo]
<1>1. Begin(b) /\ UNCHANGED clock /\ beat' \in Beat
  BY DEF MaintainTenant, EngineTypeOK
<1>2. todo \in SUBSET Nat
  <2>1. DOMAIN commissions \subseteq Nat
    BY DEF EngineTypeOK, StoreTypeOK
  <2> QED
    BY <2>1, DueType
<1> HIDE DEF todo
<1>3. b \in SettleTx /\ b.op # "refund"
  BY <1>2 DEF SettleTx
<1> HIDE DEF b
<1> QED
  BY <1>1, <1>3, BeginType

(* A batch settles one row.                                                *)
LEMMA SettleOneType ==
  ASSUME EngineTypeOK, NEW c \in DOMAIN commissions, SettleOne(c)
  PROVE  EngineTypeOK'
<1> DEFINE amount == Outstanding(commissions[c])
           k == commissions[c].agent
<1>1. /\ tx.op = "settle"
      /\ Transition(c, "pending", "settled")
      /\ Post(k, SettleDelta(amount), "settle", c, Moves("frozen", "available", amount))
      /\ tx' = [tx EXCEPT !.todo = @ \ {c}, !.count = @ + 1]
      /\ UNCHANGED <<vouchers, undo, clock, beat>>
  BY DEF SettleOne, NextToSettle
<1>2. /\ commissions \in Seq(Commission) /\ BooksTypeOK(accounts, ledger)
      /\ vouchers \subseteq Voucher /\ tx \in SettleTx
  BY <1>1, TxKinds DEF EngineTypeOK, StoreTypeOK
<1>3. amount \in Int /\ k \in Agents /\ c \in Nat
  <2>1. commissions[c] \in Commission /\ c \in Nat
    BY <1>2
  <2>2. /\ commissions[c].amount \in Int /\ commissions[c].reversed \in Nat
        /\ commissions[c].agent \in Agents
    BY <2>1 DEF Commission
  <2> QED
    BY <2>1, <2>2 DEF Outstanding
<1> HIDE DEF amount, k
<1>4. BooksTypeOK(accounts, ledger)'
  <2>1. "settle" \in BizTypes /\ "frozen" \in Buckets /\ "available" \in Buckets
    BY DEF BizTypes, Buckets
  <2> QED
    BY <1>1, <1>2, <1>3, <2>1, MoveType, PostType DEF SettleDelta
<1>5. commissions' \in Seq(Commission)
  BY <1>1, TransitionType DEF CommissionStates
<1>6. StoreOK'
  BY <1>1, <1>2, <1>4, <1>5 DEF StoreOK, StoreTypeOK
<1>7. tx' \in SettleTx /\ tx'.op = "settle"
  <2>1. tx' = [op |-> "settle", count |-> tx.count + 1, todo |-> tx.todo \ {c}]
    BY <1>1, <1>2 DEF SettleTx
  <2>2. tx.count + 1 \in Nat /\ tx.todo \ {c} \in SUBSET Nat
    BY <1>2 DEF SettleTx
  <2> QED
    BY <2>1, <2>2 DEF SettleTx
<1> QED
  BY <1>1, <1>6, <1>7, TxContinues

(* A batch is rolled back.                                                 *)
LEMMA AbortBatchType ==
  ASSUME EngineTypeOK, NEW c \in DOMAIN commissions, AbortBatch(c)
  PROVE  EngineTypeOK'
<1>1. tx.op = "settle" /\ Rollback /\ UNCHANGED clock /\ beat' \in Beat
  BY BeatTypes DEF AbortBatch, NextToSettle
<1> QED
  BY <1>1, RollbackType

(* A batch commits.                                                        *)
LEMMA CommitBatchType ==
  ASSUME EngineTypeOK, CommitBatch
  PROVE  EngineTypeOK'
<1>1. Commit /\ UNCHANGED clock /\ tx.op = "settle"
  BY DEF CommitBatch
<1>2. beat \in Beat /\ tx \in SettleTx
  BY <1>1, TxKinds DEF EngineTypeOK
<1>3. beat' \in Beat
  <2> DEFINE left == IF beat.budget < tx.count THEN 0 ELSE beat.budget - tx.count
  <2>1. left \in Nat
    BY <1>2 DEF Beat, SettleTx
  <2>2. \/ beat' = NextTenant
        \/ beat' = [phase |-> beat.phase, now |-> beat.now, round |-> beat.round,
                    tenants |-> beat.tenants, tenantRound |-> beat.tenantRound + 1,
                    budget |-> left, progressed |-> TRUE]
    BY <1>2 DEF CommitBatch, Beat
  <2>3. /\ beat.tenantRound + 1 \in Nat /\ beat.now \in Nat /\ beat.round \in Nat
        /\ beat.phase \in {"idle", "scan", "tenants"} /\ beat.tenants \in SUBSET Nat
    BY <1>2 DEF Beat
  <2> HIDE DEF left
  <2>4. [phase |-> beat.phase, now |-> beat.now, round |-> beat.round,
         tenants |-> beat.tenants, tenantRound |-> beat.tenantRound + 1,
         budget |-> left, progressed |-> TRUE] \in Beat
    BY <2>1, <2>3 DEF Beat
  <2> QED
    BY <2>2, <2>4, BeatTypes
<1> QED
  BY <1>1, <1>3, CommitType

(* Time passes.                                                            *)
LEMMA TickType ==
  ASSUME EngineTypeOK, Tick
  PROVE  EngineTypeOK'
<1>1. UNCHANGED storeVars /\ UNCHANGED <<tx, undo, beat>> /\ clock' \in 0 .. MaxTime
  BY EngineAssumption DEF Tick, EngineTypeOK
<1>2. StoreOK' /\ \A o : AccrualItems(o)' = AccrualItems(o)
  BY <1>1, StoreUnchanged
<1>3. TxTypeOK'
  BY <1>1, <1>2 DEF EngineTypeOK, TxTypeOK, StoreTypeOK, BooksTypeOK
<1> QED
  BY <1>1, <1>2, <1>3 DEF EngineTypeOK, StoreOK

(* The engine starts well-typed.                                           *)
LEMMA EngineInitType == EngineInit => EngineTypeOK
<1> SUFFICES ASSUME EngineInit PROVE EngineTypeOK
  OBVIOUS
<1>1. BooksTypeOK(accounts, ledger)
  <2>1. EmptyAccount \in Account
    BY DEF EmptyAccount, Account
  <2> QED
    BY <2>1 DEF EngineInit, BooksInit, BooksTypeOK
<1>2. StoreOK
  BY <1>1 DEF EngineInit, StoreOK, StoreTypeOK
<1>3. clock \in 0 .. MaxTime /\ beat \in Beat /\ TxTypeOK
  BY EngineAssumption DEF EngineInit, NoBeat, Beat, TxTypeOK
<1> QED
  BY <1>2, <1>3 DEF EngineTypeOK, StoreOK

(* Every step of the engine keeps its types.                               *)
LEMMA EngineNextType ==
  ASSUME EngineTypeOK, [EngineNext]_engineVars
  PROVE  EngineTypeOK'
<1>1. CASE TxStep
  BY <1>1, AccrueLayerType, AbortAccrualType, SkipLayerType, NextBaseType, RefundItemType,
     ReverseLayerType, KeepLayerType, AbortRefundType, SettleOneType, AbortBatchType,
     CommitRefundType, CommitBatchType DEF TxStep
<1>2. CASE BeatStep
  BY <1>2, MaintainReadsType, MaintainTenantType DEF BeatStep
<1>3. CASE Events
  BY <1>3, OnOrderPaidType, OnOrderReceivedType, OnOrderRefundedType, RiskType, VoidType
     DEF Events
<1>4. CASE Tick
  BY <1>4, TickType
<1>5. CASE UNCHANGED engineVars
  <2>1. UNCHANGED storeVars /\ UNCHANGED <<clock, tx, undo, beat>>
    BY <1>5 DEF engineVars, storeVars
  <2>2. StoreOK' /\ \A o : AccrualItems(o)' = AccrualItems(o)
    BY <2>1, StoreUnchanged
  <2>3. TxTypeOK'
    BY <2>1, <2>2 DEF EngineTypeOK, TxTypeOK, StoreTypeOK, BooksTypeOK
  <2> QED
    BY <2>1, <2>2, <2>3 DEF EngineTypeOK, StoreOK
<1> QED
  BY <1>1, <1>2, <1>3, <1>4, <1>5 DEF EngineNext

(* The engine is type-correct: every row, ledger entry, transaction and    *)
(* rollback snapshot keeps its shape whatever the orders, rates, refunds   *)
(* and work bounds are.                                                    *)
THEOREM EngineTypeCorrect == EngineSpec => []EngineTypeOK
  BY EngineInitType, EngineNextType, PTL DEF EngineSpec

-----------------------------------------------------------------------------
(***************************************************************************)
(* What a step may do to the store.  The invariants that relate rows and   *)
(* balances are proved from these five cases.                              *)
(***************************************************************************)

(* The steps that write rows or move money.                                *)
Writes ==
  \/ \E rate \in Rates : AccrueLayer(rate)
  \/ \E o \in Orders, at \in ReceiptTimes : OnOrderReceived(o, at)
  \/ \E c \in DOMAIN commissions :
       \/ ReverseLayer(c)
       \/ SettleOne(c)
       \/ FreezeCommission(c)
       \/ UnfreezeCommission(c)
       \/ VoidCommission(c)

(* Every step of the engine writes, or leaves the books, the rows and the  *)
(* snapshot alone, or takes, commits or undoes a transaction.              *)
LEMMA StoreStep ==
  ASSUME EngineTypeOK, [EngineNext]_engineVars
  PROVE  \/ UNCHANGED <<accounts, ledger, commissions, undo>> /\ (Unlocked' <=> Unlocked)
         \/ Writes /\ UNCHANGED undo /\ (Unlocked' <=> Unlocked)
         \/ \E t : Begin(t)
         \/ Commit
         \/ ~Unlocked /\ Rollback
<1> DEFINE Kept == UNCHANGED <<accounts, ledger, commissions, undo>> /\ (Unlocked' <=> Unlocked)
           Wrote == Writes /\ UNCHANGED undo /\ (Unlocked' <=> Unlocked)
           Undone == ~Unlocked /\ Rollback
           Began == \E t : Begin(t)
           Goal == Kept \/ Wrote \/ Began \/ Commit \/ Undone
<1> SUFFICES Goal
  OBVIOUS
<1> USE DEF storeVars
<1>1. ASSUME NEW op \in {"paid", "refund", "settle"}, tx.op = op
      PROVE  ~Unlocked /\ (tx' # Idle => (Unlocked' <=> Unlocked))
  BY <1>1 DEF Unlocked, Idle
<1>2. ASSUME NEW rate \in Rates, AccrueLayer(rate) \/ AbortAccrual(rate)
      PROVE  Wrote \/ Undone
  <2>1. AtLayer /\ tx.op = "paid"
    BY <1>2 DEF AccrueLayer, AbortAccrual, AtLayer
  <2>2. CASE AccrueLayer(rate)
    <3>1. tx'.op = "paid"
      BY <2>1, <2>2, AtLayerType, NextLayerType DEF AccrueLayer
    <3>2. Unlocked' <=> Unlocked
      BY <1>1, <2>1, <3>1 DEF Idle
    <3>3. UNCHANGED undo
      BY <2>2 DEF AccrueLayer
    <3> QED
      BY <2>2, <3>2, <3>3 DEF Writes
  <2>3. CASE AbortAccrual(rate)
    BY <1>1, <2>1, <2>3 DEF AbortAccrual
  <2> QED
    BY <1>2, <2>2, <2>3
<1>3. CASE SkipLayer
  <2>1. AtLayer /\ tx.op = "paid" /\ UNCHANGED <<accounts, ledger, commissions, undo>>
    BY <1>3 DEF SkipLayer, AtLayer
  <2>2. tx'.op = "paid"
    BY <1>3, <2>1, NextLayerType DEF SkipLayer
  <2> QED
    BY <1>1, <2>1, <2>2 DEF Idle
<1>4. CASE NextBase
  <2>1. tx.op = "paid" /\ tx \in PaidTx
    BY <1>4, TxKinds DEF NextBase
  <2>2. CASE tx.item < Len(Basket[tx.order])
    <3>1. /\ tx'.op = "paid"
          /\ UNCHANGED <<accounts, ledger, commissions, undo>>
      BY <1>4, <2>1, <2>2 DEF NextBase, PaidTx
    <3> QED
      BY <1>1, <2>1, <3>1 DEF Idle
  <2>3. CASE ~(tx.item < Len(Basket[tx.order]))
    BY <1>4, <2>3 DEF NextBase
  <2> QED
    BY <2>2, <2>3
<1>5. ASSUME NEW i \in AllItems, RefundItem(i)
      PROVE  Kept
  <2>1. tx.op = "refund" /\ tx \in RefundTx /\ UNCHANGED <<accounts, ledger, commissions, undo>>
    BY <1>5, TxKinds DEF RefundItem
  <2>2. tx'.op = "refund"
    BY <1>5, <2>1 DEF RefundItem, RefundTx
  <2> QED
    BY <1>1, <2>1, <2>2 DEF Idle
<1>6. ASSUME NEW c \in DOMAIN commissions,
             ReverseLayer(c) \/ KeepLayer(c) \/ AbortRefund(c)
      PROVE  Kept \/ Wrote \/ Undone
  <2>1. tx.op = "refund" /\ tx \in RefundTx
    BY <1>6, TxKinds DEF ReverseLayer, KeepLayer, AbortRefund, NextToReverse
  <2>2. CASE ReverseLayer(c) \/ KeepLayer(c)
    <3>1. tx'.op = "refund" /\ UNCHANGED undo
      BY <2>1, <2>2 DEF ReverseLayer, KeepLayer, RefundTx
    <3>2. ReverseLayer(c) \/ UNCHANGED <<accounts, ledger, commissions>>
      BY <2>2 DEF KeepLayer
    <3> QED
      BY <1>1, <2>1, <3>1, <3>2 DEF Idle, Writes
  <2>3. CASE AbortRefund(c)
    BY <1>1, <2>1, <2>3 DEF AbortRefund
  <2> QED
    BY <1>6, <2>2, <2>3
<1>7. ASSUME NEW c \in DOMAIN commissions, SettleOne(c) \/ AbortBatch(c)
      PROVE  Wrote \/ Undone
  <2>1. tx.op = "settle" /\ tx \in SettleTx
    BY <1>7, TxKinds DEF SettleOne, AbortBatch, NextToSettle
  <2>2. CASE SettleOne(c)
    <3>1. tx'.op = "settle" /\ UNCHANGED undo
      BY <2>1, <2>2 DEF SettleOne, SettleTx
    <3> QED
      BY <1>1, <2>1, <2>2, <3>1 DEF Idle, Writes
  <2>3. CASE AbortBatch(c)
    BY <1>1, <2>1, <2>3 DEF AbortBatch
  <2> QED
    BY <1>7, <2>2, <2>3
<1>8. CASE CommitRefund \/ CommitBatch
  BY <1>8 DEF CommitRefund, CommitBatch
<1>9. CASE BeatStep
  <2>1. CASE MaintainStart \/ MaintainScan \/ TenantRoundsSpent \/ RoundEnds
    BY <2>1 DEF MaintainStart, MaintainScan, TenantRoundsSpent, RoundEnds, Unlocked
  <2>2. ASSUME NEW t \in Tenants, MaintainTenant(t)
        PROVE  Began
    BY <2>2 DEF MaintainTenant
  <2> QED
    BY <1>9, <2>1, <2>2 DEF BeatStep
<1>10. CASE Events
  <2>1. ASSUME NEW o \in Orders, OnOrderPaid(o)
        PROVE  Began
    BY <2>1 DEF OnOrderPaid
  <2>2. ASSUME NEW o \in Orders, NEW key \in RefundKeys, NEW ev \in RefundEvents,
               OnOrderRefunded(o, key, ev)
        PROVE  Began
    BY <2>2 DEF OnOrderRefunded
  <2>3. ASSUME NEW o \in Orders, NEW at \in ReceiptTimes, OnOrderReceived(o, at)
        PROVE  Wrote
    <3>1. UNCHANGED <<tx, undo>>
      BY <2>3 DEF OnOrderReceived
    <3>2. Writes
      BY <2>3 DEF Writes
    <3> QED
      BY <3>1, <3>2 DEF Unlocked
  <2>4. ASSUME NEW c \in DOMAIN commissions,
               FreezeCommission(c) \/ UnfreezeCommission(c) \/ VoidCommission(c)
        PROVE  Wrote
    <3>1. UNCHANGED <<tx, undo>>
      BY <2>4 DEF FreezeCommission, UnfreezeCommission, VoidCommission
    <3>2. Writes
      BY <2>4 DEF Writes
    <3> QED
      BY <3>1, <3>2 DEF Unlocked
  <2> QED
    BY <1>10, <2>1, <2>2, <2>3, <2>4 DEF Events
<1>11. CASE Tick \/ UNCHANGED engineVars
  BY <1>11 DEF Tick, engineVars, Unlocked
<1>12. CASE TxStep
  <2> HIDE DEF Kept, Wrote, Began, Undone
  <2> QED
    BY <1>2, <1>3, <1>4, <1>5, <1>6, <1>7, <1>8, <1>12 DEF TxStep
<1> QED
  BY <1>9, <1>10, <1>11, <1>12 DEF EngineNext
-----------------------------------------------------------------------------
(***************************************************************************)
(* The books stay sound.  A failed transaction restores its snapshot, so   *)
(* the invariant has to hold of the snapshot as well: that is what makes   *)
(* it inductive.                                                           *)
(***************************************************************************)

Sound(acc, led) ==
  /\ LedgerChain(acc, led)
  /\ NoUnallowedDebt(acc, AllowNegative)
  /\ WithinWidth(acc)

BooksInv ==
  /\ EngineTypeOK
  /\ Sound(accounts, ledger)
  /\ Unlocked \/ Sound(undo.accounts, undo.ledger)

(* Books nobody writes to stay sound.                                      *)
LEMMA SoundUnchanged ==
  ASSUME Sound(accounts, ledger), UNCHANGED <<accounts, ledger>>
  PROVE  Sound(accounts, ledger)'
  BY DEF Sound, LedgerChain, NoUnallowedDebt, WithinWidth

(* A movement with matching deltas that IncrementAccount accepted, guarded *)
(* or harmless, keeps the books sound.                                     *)
LEMMA PostSound ==
  ASSUME BooksTypeOK(accounts, ledger), Sound(accounts, ledger),
         NEW k \in Agents, NEW d \in Delta, NEW biz \in BizTypes, NEW ref \in Nat,
         NEW moves \in BucketMoves,
         \A b \in Buckets : d[b] = moves[b],
         \/ Accepts(k, d, TRUE)
         \/ /\ Accepts(k, d, FALSE)
            /\ \A b \in Buckets : d[b] >= 0 \/ (AllowNegative /\ b = "available"),
         Post(k, d, biz, ref, moves)
  PROVE  Sound(accounts, ledger)'
<1>1. LedgerChain(accounts, ledger)'
  BY PostChain DEF Sound
<1>2. WithinWidth(accounts)'
  BY PostWidth DEF Sound
<1>3. NoUnallowedDebt(accounts, AllowNegative)'
  <2>1. NoUnallowedDebt(accounts, AllowNegative)
    BY DEF Sound
  <2>2. CASE Accepts(k, d, TRUE)
    BY <2>1, <2>2, PostGuarded
  <2>3. CASE \A b \in Buckets : d[b] >= 0 \/ (AllowNegative /\ b = "available")
    BY <2>1, <2>3, PostUnguarded
  <2> QED
    BY <2>2, <2>3
<1> QED
  BY <1>1, <1>2, <1>3 DEF Sound

(* An accrual only adds.                                                   *)
LEMMA AccrueLayerSound ==
  ASSUME EngineTypeOK, Sound(accounts, ledger), NEW rate \in Rates, AccrueLayer(rate)
  PROVE  Sound(accounts, ledger)'
<1> DEFINE amount == LayerAmount(rate)
           d == AccrualDelta(amount)
           moves == [NoMoves EXCEPT !["frozen"] = amount]
<1>1. /\ AtLayer /\ amount > 0 /\ Accepts(tx.agent, d, FALSE)
      /\ Post(tx.agent, d, "accrue", Len(commissions) + 1, moves)
  BY DEF AccrueLayer
<1>2. amount \in Int /\ tx.agent \in Agents
  BY <1>1, AtLayerType
<1>3. BooksTypeOK(accounts, ledger) /\ Len(commissions) + 1 \in Nat /\ "accrue" \in BizTypes
  BY DEF EngineTypeOK, StoreTypeOK, BizTypes
<1>4. \A b \in Buckets : d[b] >= 0
  BY <1>1, <1>2 DEF AccrualDelta, NoDelta, Columns, Buckets, Totals
<1>5. d \in Delta /\ moves \in BucketMoves /\ \A b \in Buckets : d[b] = moves[b]
  BY <1>2, AccrualDeltaType
<1> HIDE DEF d, moves, amount
<1> QED
  BY <1>1, <1>2, <1>3, <1>4, <1>5, PostSound

(* The debit of a clawback is guarded, or it is a debt the rules allow.    *)
LEMMA ClawBackSound ==
  ASSUME EngineTypeOK, Sound(accounts, ledger),
         NEW c \in DOMAIN commissions, NEW target \in Nat,
         NEW terminal, NEW biz \in {"reverse", "void"},
         CanClawBack(c, target), ClawBack(c, target, terminal, biz)
  PROVE  Sound(accounts, ledger)'
<1> DEFINE row == commissions[c]
           delta == target - row.reversed
           bucket == ReversalBucket(row.state)
           d == DebitDelta(bucket, delta)
           moves == [NoMoves EXCEPT ![bucket] = -delta]
<1>1. /\ Post(row.agent, d, biz, Len(commissions) + 1, moves)
      /\ Debitable(row.agent, bucket, delta)
  BY DEF ClawBack, CanClawBack
<1>2. row.agent \in Agents /\ delta \in Int /\ bucket \in Buckets
  <2>1. row \in Commission
    BY DEF EngineTypeOK, StoreTypeOK
  <2> QED
    BY <2>1, ReversalBucketType DEF Commission
<1>3. BooksTypeOK(accounts, ledger) /\ Len(commissions) + 1 \in Nat /\ biz \in BizTypes
  BY DEF EngineTypeOK, StoreTypeOK, BizTypes
<1>4. /\ d \in Delta /\ moves \in BucketMoves /\ \A b \in Buckets : d[b] = moves[b]
      /\ \A b \in Buckets \ {bucket} : d[b] = 0
  <2> HIDE DEF bucket, delta
  <2> QED
    BY <1>2, DebitType
<1>5. \/ Accepts(row.agent, d, TRUE)
      \/ AllowNegative /\ bucket = "available" /\ Accepts(row.agent, d, FALSE)
  BY <1>1 DEF Debitable
<1> HIDE DEF row, delta, bucket, d, moves
<1>6. CASE Accepts(row.agent, d, TRUE)
  BY <1>1, <1>2, <1>3, <1>4, <1>6, PostSound
<1>7. CASE AllowNegative /\ bucket = "available" /\ Accepts(row.agent, d, FALSE)
  <2>1. \A b \in Buckets : d[b] >= 0 \/ (AllowNegative /\ b = "available")
    BY <1>4, <1>7
  <2> QED
    BY <1>1, <1>2, <1>3, <1>4, <1>7, <2>1, PostSound
<1> QED
  BY <1>5, <1>6, <1>7

(* A refund's clawback.                                                    *)
LEMMA ReverseLayerSound ==
  ASSUME EngineTypeOK, Sound(accounts, ledger), NEW c \in DOMAIN commissions, ReverseLayer(c)
  PROVE  Sound(accounts, ledger)'
<1>1. /\ tx.op = "refund" /\ NeedsReversal(c) /\ CanClawBack(c, WantReversed(c))
      /\ ClawBack(c, WantReversed(c), "reversed", "reverse")
  BY DEF ReverseLayer, NextToReverse
<1>2. commissions[c] \in Commission
  BY DEF EngineTypeOK, StoreTypeOK
<1>3. WantReversed(c) \in Nat
  BY <1>1, <1>2, WantReversedType DEF NeedsReversal, Commission
<1> QED
  BY <1>1, <1>3, ClawBackSound

(* The clawback of a voided row.                                           *)
LEMMA VoidSound ==
  ASSUME EngineTypeOK, Sound(accounts, ledger), NEW c \in DOMAIN commissions, VoidCommission(c)
  PROVE  Sound(accounts, ledger)'
<1>1. /\ Outstanding(commissions[c]) > 0 /\ CanClawBack(c, commissions[c].amount)
      /\ ClawBack(c, commissions[c].amount, "void", "void")
  BY DEF VoidCommission
<1>2. commissions[c] \in Commission
  BY DEF EngineTypeOK, StoreTypeOK
<1>3. commissions[c].amount \in Nat
  BY <1>1, <1>2 DEF Outstanding, Commission
<1> QED
  BY <1>1, <1>3, ClawBackSound

(* Settlement is a guarded move.                                           *)
LEMMA SettleOneSound ==
  ASSUME EngineTypeOK, Sound(accounts, ledger), NEW c \in DOMAIN commissions, SettleOne(c)
  PROVE  Sound(accounts, ledger)'
<1> DEFINE amount == Outstanding(commissions[c])
           k == commissions[c].agent
           d == MoveDelta("frozen", "available", amount)
           moves == Moves("frozen", "available", amount)
<1>1. Accepts(k, d, TRUE) /\ Post(k, d, "settle", c, moves)
  BY DEF SettleOne, SettleDelta
<1>2. amount \in Int /\ k \in Agents /\ c \in Nat /\ BooksTypeOK(accounts, ledger)
  <2>1. commissions[c] \in Commission /\ c \in Nat /\ BooksTypeOK(accounts, ledger)
    BY DEF EngineTypeOK, StoreTypeOK
  <2>2. /\ commissions[c].amount \in Int /\ commissions[c].reversed \in Nat
        /\ commissions[c].agent \in Agents
    BY <2>1 DEF Commission
  <2> QED
    BY <2>1, <2>2 DEF Outstanding
<1> HIDE DEF amount, k
<1>3. "settle" \in BizTypes /\ "frozen" \in Buckets /\ "available" \in Buckets
  BY DEF BizTypes, Buckets
<1>4. d \in Delta /\ moves \in BucketMoves /\ \A b \in Buckets : d[b] = moves[b]
  BY <1>2, <1>3, MoveType
<1> HIDE DEF d, moves
<1> QED
  BY <1>1, <1>2, <1>3, <1>4, PostSound

(* Empty books are sound.                                                  *)
LEMMA EngineInitSound == EngineInit => Sound(accounts, ledger)
<1> SUFFICES ASSUME EngineInit PROVE Sound(accounts, ledger)
  OBVIOUS
<1>1. \A k \in Agents : accounts[k] = EmptyAccount /\ ledger[k] = << >>
  BY DEF EngineInit, BooksInit
<1>2. \A c \in Columns : EmptyAccount[c] = 0
  BY DEF EmptyAccount
<1>3. Buckets \subseteq Columns
  BY DEF Columns
<1>4. LedgerChain(accounts, ledger)
  BY <1>1, <1>2, <1>3 DEF LedgerChain, BalanceBefore
<1>5. NoUnallowedDebt(accounts, AllowNegative)
  BY <1>1, <1>2, <1>3 DEF NoUnallowedDebt, NegativeBuckets
<1>6. Fits(0)
  BY MaxMoneyAssumption DEF Fits, MinMoney
<1>7. WithinWidth(accounts)
  BY <1>1, <1>2, <1>6 DEF WithinWidth, Overflows
<1> QED
  BY <1>4, <1>5, <1>7 DEF Sound

(* A transaction record is never taken for the free lock.                  *)
LEMMA OpenTx ==
  ASSUME EngineTypeOK
  PROVE  Unlocked <=> tx.op \notin {"paid", "refund", "settle"}
  BY DEF EngineTypeOK, TxTypeOK, Unlocked, Idle, PaidTx, RefundTx, SettleTx

(* The snapshot of a transaction is sound because the books are.           *)
LEMMA BeginSound ==
  ASSUME BooksInv, NEW t, Begin(t)
  PROVE  Sound(accounts, ledger)' /\ Sound(undo.accounts, undo.ledger)'
<1>1. /\ UNCHANGED <<accounts, ledger>>
      /\ undo'.accounts = accounts /\ undo'.ledger = ledger
  BY DEF Begin, storeVars
<1> QED
  BY <1>1 DEF BooksInv, Sound, LedgerChain, NoUnallowedDebt, WithinWidth

(* Undoing a transaction restores sound books.                             *)
LEMMA RollbackSound ==
  ASSUME BooksInv, ~Unlocked, Rollback
  PROVE  Sound(accounts, ledger)' /\ Unlocked'
<1>1. accounts' = undo.accounts /\ ledger' = undo.ledger /\ Sound(undo.accounts, undo.ledger)
  BY DEF Rollback, BooksInv
<1>2. Unlocked'
  BY DEF Rollback, Unlocked
<1> QED
  BY <1>1, <1>2 DEF Sound, LedgerChain, NoUnallowedDebt, WithinWidth

(* Committing leaves the books.                                            *)
LEMMA CommitSound ==
  ASSUME BooksInv, Commit
  PROVE  Sound(accounts, ledger)' /\ Unlocked'
<1>1. UNCHANGED <<accounts, ledger>> /\ Unlocked'
  BY DEF Commit, storeVars, Unlocked
<1> QED
  BY <1>1, SoundUnchanged DEF BooksInv

(* A snapshot nobody replaces stays sound.                                 *)
LEMMA UndoKept ==
  ASSUME BooksInv, UNCHANGED undo, Unlocked => Unlocked'
  PROVE  Unlocked' \/ Sound(undo.accounts, undo.ledger)'
  BY DEF BooksInv, Sound, LedgerChain, NoUnallowedDebt, WithinWidth

(* Every write keeps the books sound.                                      *)
LEMMA WritesSound ==
  ASSUME EngineTypeOK, Sound(accounts, ledger), Writes
  PROVE  Sound(accounts, ledger)'
<1>1. ASSUME NEW rate \in Rates, AccrueLayer(rate)
      PROVE  Sound(accounts, ledger)'
  BY <1>1, AccrueLayerSound
<1>2. ASSUME NEW o \in Orders, NEW at \in ReceiptTimes, OnOrderReceived(o, at)
      PROVE  Sound(accounts, ledger)'
  BY <1>2, SoundUnchanged DEF OnOrderReceived
<1>3. ASSUME NEW c \in DOMAIN commissions, FreezeCommission(c) \/ UnfreezeCommission(c)
      PROVE  Sound(accounts, ledger)'
  BY <1>3, SoundUnchanged DEF FreezeCommission, UnfreezeCommission
<1> QED
  BY <1>1, <1>2, <1>3, ReverseLayerSound, SettleOneSound, VoidSound DEF Writes

(* Every step keeps the books, and the snapshot of an open transaction,    *)
(* sound.                                                                  *)
LEMMA EngineNextSound ==
  ASSUME BooksInv, [EngineNext]_engineVars
  PROVE  BooksInv'
<1> DEFINE Goal == /\ Sound(accounts, ledger)'
                   /\ Unlocked' \/ Sound(undo.accounts, undo.ledger)'
<1>0. EngineTypeOK /\ EngineTypeOK' /\ Sound(accounts, ledger)
  BY EngineNextType DEF BooksInv
<1> SUFFICES Goal
  BY <1>0 DEF BooksInv
<1>1. CASE UNCHANGED <<accounts, ledger, commissions, undo>> /\ (Unlocked' <=> Unlocked)
  BY <1>0, <1>1, SoundUnchanged, UndoKept
<1>2. CASE Writes /\ UNCHANGED undo /\ (Unlocked' <=> Unlocked)
  BY <1>0, <1>2, WritesSound, UndoKept
<1>3. ASSUME NEW t, Begin(t)
      PROVE  Goal
  BY <1>3, BeginSound
<1>4. CASE Commit
  BY <1>4, CommitSound
<1>5. CASE ~Unlocked /\ Rollback
  BY <1>5, RollbackSound
<1> HIDE DEF Goal
<1> QED
  BY <1>0, <1>1, <1>2, <1>3, <1>4, <1>5, StoreStep

(* The books stay sound along every behaviour.                             *)
LEMMA EngineBooksInvariant == EngineSpec => []BooksInv
<1>1. EngineInit => BooksInv
  BY EngineInitType, EngineInitSound DEF BooksInv, EngineInit, Unlocked
<1>2. BooksInv /\ [EngineNext]_engineVars => BooksInv'
  BY EngineNextSound
<1> QED
  BY <1>1, <1>2, PTL DEF EngineSpec

(* The account of every agent is the sum of its ledger at every point of   *)
(* its history (SelfCheck I1), for any number of agents and orders and     *)
(* also in the middle of a transaction and after a failed one.             *)
THEOREM EngineBooksBalance == EngineSpec => []BooksBalance
<1>1. BooksInv => BooksBalance
  BY DEF BooksInv, Sound, BooksBalance
<1> QED
  BY <1>1, EngineBooksInvariant, PTL

(* Only the withdrawable bucket can become negative, only under the debt   *)
(* policy, and no column ever leaves the machine integer's range           *)
(* (debitBucket, AccountDelta.Apply).                                      *)
THEOREM EngineBalancesSound == EngineSpec => []BalancesSound
<1>1. BooksInv => BalancesSound
  BY DEF BooksInv, Sound, BalancesSound
<1> QED
  BY <1>1, EngineBooksInvariant, PTL

=============================================================================
