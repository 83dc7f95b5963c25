-------------------------- MODULE ReconcileProofs --------------------------
(***************************************************************************)
(* The commission rows and the accounts agree: what SelfCheck adds up (I3) *)
(* and what every bucket is backed by, for tables of any length.  What a   *)
(* transaction committed stays: the history of the tables and the          *)
(* settlement dates promised in them.  And what holds of every line item:  *)
(* its layers together stay below the cap of the one accrual they come     *)
(* from, whatever the rate source answers; a refund is spread without      *)
(* exceeding it; and however it is split into instalments, each layer is   *)
(* reversed by its share of their total.                                   *)
(***************************************************************************)
EXTENDS CommissionsProofs

-----------------------------------------------------------------------------
(***************************************************************************)
(* The sums of a table of rows, as functions of the table, so that they    *)
(* can be taken of the rollback snapshot too.                              *)
(***************************************************************************)

RowsOf(coms, k, states) ==
  {c \in DOMAIN coms :
     coms[c].agent = k /\ coms[c].amount > 0 /\ coms[c].state \in states}

Outstandings(coms) == [c \in DOMAIN coms |-> Outstanding(coms[c])]

Amounts(coms) == [c \in DOMAIN coms |-> coms[c].amount]

Reverseds(coms) == [c \in DOMAIN coms |-> coms[c].reversed]

Negated(coms) == [c \in DOMAIN coms |-> -coms[c].amount]

RowsReversing(coms, c) == {r \in DOMAIN coms : coms[r].reverseOf = c}

Owed(coms, k, states) == SumFunctionOnSet(Outstandings(coms), RowsOf(coms, k, states))

Earned(coms, k) == SumFunctionOnSet(Amounts(coms), RowsOf(coms, k, CommissionStates))

Clawed(coms, k) == SumFunctionOnSet(Reverseds(coms), RowsOf(coms, k, CommissionStates))

ReversedIn(coms, c) == SumFunctionOnSet(Negated(coms), RowsReversing(coms, c))

Unsettled == {"pending", "frozen"}

(* What row x contributes to a sum of values over S.                       *)
Part(values, S, x) == IF x \in S THEN values[x] ELSE 0

(* An accrual and the reversal rows that point at it, or a reversal row.   *)
RowReconciles(coms, c) ==
  \/ /\ coms[c].amount > 0
     /\ coms[c].reverseOf = 0
     /\ coms[c].reversed = ReversedIn(coms, c)
     /\ coms[c].reversed <= coms[c].amount
     /\ coms[c].reversed = coms[c].amount <=> Terminal(coms[c].state)
  \/ /\ coms[c].amount < 0
     /\ coms[c].reverseOf \in DOMAIN coms
     /\ coms[c].state = "reversed"

AccountReconciles(acc, coms, k) ==
  /\ acc[k]["totalEarned"] = Earned(coms, k)
  /\ acc[k]["totalReversed"] = Clawed(coms, k)
  /\ acc[k]["frozen"] = Owed(coms, k, Unsettled)
  /\ acc[k]["available"] + acc[k]["withdrawing"] + acc[k]["withdrawn"]
       = Owed(coms, k, {"settled"})

Reconciled(acc, coms) ==
  /\ \A c \in DOMAIN coms : RowReconciles(coms, c)
  /\ \A k \in Agents : AccountReconciles(acc, coms, k)

-----------------------------------------------------------------------------
(***************************************************************************)
(* One row of a table changes                                              *)
(***************************************************************************)

(* The columns of a row that the sums look at.                             *)
SameMoney(r, s) ==
  /\ r.agent = s.agent /\ r.amount = s.amount /\ r.reversed = s.reversed
  /\ r.state = s.state /\ r.reverseOf = s.reverseOf

(* The values a row contributes are whole numbers, and the rows finite.    *)
LEMMA TableTypes ==
  ASSUME NEW coms \in Seq(Commission)
  PROVE  /\ DOMAIN coms = 1 .. Len(coms) /\ Len(coms) \in Nat
         /\ \A k, states : IsFiniteSet(RowsOf(coms, k, states))
         /\ \A c : IsFiniteSet(RowsReversing(coms, c))
         /\ \A c \in DOMAIN coms :
              /\ coms[c] \in Commission
              /\ coms[c].amount \in Int /\ coms[c].reversed \in Nat
              /\ coms[c].agent \in Agents /\ coms[c].state \in CommissionStates
              /\ coms[c].reverseOf \in Nat
              /\ Outstandings(coms)[c] = coms[c].amount - coms[c].reversed
              /\ Amounts(coms)[c] = coms[c].amount
              /\ Reverseds(coms)[c] = coms[c].reversed
              /\ Negated(coms)[c] = -coms[c].amount
              /\ Outstandings(coms)[c] \in Int /\ Amounts(coms)[c] \in Int
              /\ Reverseds(coms)[c] \in Int /\ Negated(coms)[c] \in Int
<1>1. DOMAIN coms = 1 .. Len(coms) /\ Len(coms) \in Nat
  OBVIOUS
<1>2. IsFiniteSet(DOMAIN coms)
  BY <1>1, FS_Interval
<1>3. /\ \A k, states : IsFiniteSet(RowsOf(coms, k, states))
      /\ \A c : IsFiniteSet(RowsReversing(coms, c))
  BY <1>2, FS_Subset DEF RowsOf, RowsReversing
<1>4. ASSUME NEW c \in DOMAIN coms
      PROVE  /\ coms[c] \in Commission
             /\ coms[c].amount \in Int /\ coms[c].reversed \in Nat
             /\ coms[c].agent \in Agents /\ coms[c].state \in CommissionStates
             /\ coms[c].reverseOf \in Nat
  <2>1. coms[c] \in Commission
    OBVIOUS
  <2> QED
    BY <2>1 DEF Commission
<1>5. \A c \in DOMAIN coms :
        /\ Outstandings(coms)[c] = coms[c].amount - coms[c].reversed
        /\ Amounts(coms)[c] = coms[c].amount
        /\ Reverseds(coms)[c] = coms[c].reversed
        /\ Negated(coms)[c] = -coms[c].amount
  BY DEF Outstandings, Outstanding, Amounts, Reverseds, Negated
<1>6. \A c \in DOMAIN coms :
        /\ Outstandings(coms)[c] \in Int /\ Amounts(coms)[c] \in Int
        /\ Reverseds(coms)[c] \in Int /\ Negated(coms)[c] \in Int
  BY <1>4, <1>5
<1> QED
  BY <1>1, <1>3, <1>4, <1>5, <1>6

(* A table B that is A but for row x, and but for new rows with no         *)
(* positive amount: every sum changes by the part of x.                    *)
LEMMA RowStep ==
  ASSUME NEW A \in Seq(Commission), NEW B \in Seq(Commission), NEW x,
         DOMAIN A \subseteq DOMAIN B,
         \A y \in DOMAIN A \ {x} : SameMoney(A[y], B[y]),
         \A y \in DOMAIN B \ DOMAIN A : y = x \/ B[y].amount <= 0,
         NEW k, NEW states
  PROVE  /\ Owed(B, k, states) = Owed(A, k, states)
              - Part(Outstandings(A), RowsOf(A, k, states), x)
              + Part(Outstandings(B), RowsOf(B, k, states), x)
         /\ Earned(B, k) = Earned(A, k)
              - Part(Amounts(A), RowsOf(A, k, CommissionStates), x)
              + Part(Amounts(B), RowsOf(B, k, CommissionStates), x)
         /\ Clawed(B, k) = Clawed(A, k)
              - Part(Reverseds(A), RowsOf(A, k, CommissionStates), x)
              + Part(Reverseds(B), RowsOf(B, k, CommissionStates), x)
<1>1. ASSUME NEW ss
      PROVE  /\ RowsOf(A, k, ss) \ {x} = RowsOf(B, k, ss) \ {x}
             /\ RowsOf(A, k, ss) \subseteq DOMAIN A /\ RowsOf(B, k, ss) \subseteq DOMAIN B
             /\ IsFiniteSet(RowsOf(A, k, ss))
  <2>1. IsFiniteSet(RowsOf(A, k, ss))
    BY TableTypes
  <2>2. /\ RowsOf(A, k, ss) \subseteq DOMAIN A
        /\ RowsOf(B, k, ss) \subseteq DOMAIN B
    BY DEF RowsOf
  <2>3. \A y \in DOMAIN A \ {x} : y \in RowsOf(A, k, ss) <=> y \in RowsOf(B, k, ss)
    BY DEF RowsOf, SameMoney
  <2>4. ASSUME NEW y \in DOMAIN B, y \notin DOMAIN A, y # x
        PROVE  y \notin RowsOf(B, k, ss)
    <3>1. B[y].amount <= 0 /\ B[y].amount \in Int
      BY <2>4, TableTypes
    <3> QED
      BY <3>1 DEF RowsOf
  <2> QED
    BY <2>1, <2>2, <2>3, <2>4
<1>2. /\ \A y \in DOMAIN A : /\ Outstandings(A)[y] \in Int /\ Amounts(A)[y] \in Int
                             /\ Reverseds(A)[y] \in Int
      /\ \A y \in DOMAIN B : /\ Outstandings(B)[y] \in Int /\ Amounts(B)[y] \in Int
                             /\ Reverseds(B)[y] \in Int
  BY TableTypes
<1>3. \A y \in DOMAIN A \ {x} : /\ Outstandings(A)[y] = Outstandings(B)[y]
                                /\ Amounts(A)[y] = Amounts(B)[y]
                                /\ Reverseds(A)[y] = Reverseds(B)[y]
  BY TableTypes DEF SameMoney
<1>4. ASSUME NEW f, NEW g, NEW ss,
             \A y \in DOMAIN A : f[y] \in Int,
             \A y \in DOMAIN B : g[y] \in Int,
             \A y \in DOMAIN A \ {x} : f[y] = g[y]
      PROVE  SumFunctionOnSet(g, RowsOf(B, k, ss)) =
               SumFunctionOnSet(f, RowsOf(A, k, ss))
                 - Part(f, RowsOf(A, k, ss), x) + Part(g, RowsOf(B, k, ss), x)
  <2> DEFINE S == RowsOf(A, k, ss)
             T == RowsOf(B, k, ss)
  <2>1. /\ S \ {x} = T \ {x} /\ IsFiniteSet(S)
        /\ \A y \in S : f[y] \in Int
        /\ \A y \in T : g[y] \in Int
        /\ \A y \in S \ {x} : f[y] = g[y]
    BY <1>1, <1>4
  <2> HIDE DEF S, T
  <2>2. SumFunctionOnSet(g, T) = SumFunctionOnSet(f, S) - (IF x \in S THEN f[x] ELSE 0)
                                                        + (IF x \in T THEN g[x] ELSE 0)
    BY <2>1, SumStep
  <2> QED
    BY <2>2 DEF S, T, Part
<1> QED
  BY <1>2, <1>3, <1>4 DEF Owed, Earned, Clawed

(* The same for the reversal rows of an accrual.                           *)
LEMMA ReversalStep ==
  ASSUME NEW A \in Seq(Commission), NEW B \in Seq(Commission), NEW x,
         DOMAIN A \subseteq DOMAIN B, DOMAIN B \subseteq DOMAIN A \cup {x},
         \A y \in DOMAIN A \ {x} : A[y].amount = B[y].amount /\ A[y].reverseOf = B[y].reverseOf,
         NEW c
  PROVE  ReversedIn(B, c) = ReversedIn(A, c)
           - Part(Negated(A), RowsReversing(A, c), x)
           + Part(Negated(B), RowsReversing(B, c), x)
<1> DEFINE S == RowsReversing(A, c)
           T == RowsReversing(B, c)
           f == Negated(A)
           g == Negated(B)
<1>1. S \subseteq DOMAIN A /\ T \subseteq DOMAIN B /\ IsFiniteSet(S)
  BY TableTypes, ZenonT(60) DEF RowsReversing
<1>2. S \ {x} = T \ {x}
  BY DEF RowsReversing
<1>3. /\ \A y \in DOMAIN A : f[y] \in Int
      /\ \A y \in DOMAIN B : g[y] \in Int
      /\ \A y \in DOMAIN A \ {x} : f[y] = g[y]
  BY TableTypes
<1> HIDE DEF S, T, f, g
<1>4. SumFunctionOnSet(g, T) = SumFunctionOnSet(f, S) - (IF x \in S THEN f[x] ELSE 0)
                                                      + (IF x \in T THEN g[x] ELSE 0)
  <2>1. /\ \A y \in S : f[y] \in Int
        /\ \A y \in T : g[y] \in Int
        /\ \A y \in S \ {x} : f[y] = g[y]
    BY <1>1, <1>3
  <2> QED
    BY <1>1, <1>2, <2>1, SumStep
<1> QED
  BY <1>4 DEF S, T, f, g, ReversedIn, Part

-----------------------------------------------------------------------------
(***************************************************************************)
(* Every write keeps the rows and the accounts reconciled                  *)
(***************************************************************************)

(* The columns of an account, one by one.                                  *)
LEMMA ColumnNames ==
  /\ Columns = {"frozen", "available", "withdrawing", "withdrawn", "totalEarned", "totalReversed"}
  /\ Buckets = {"frozen", "available", "withdrawing", "withdrawn"}
  BY DEF Columns, Buckets, Totals

(* Reversal rows and totals that no step touches still agree.              *)
LEMMA RowsStillReconcile ==
  ASSUME NEW A \in Seq(Commission), NEW B \in Seq(Commission), DOMAIN B = DOMAIN A,
         \A y \in DOMAIN A : /\ B[y].amount = A[y].amount /\ B[y].reversed = A[y].reversed
                             /\ B[y].reverseOf = A[y].reverseOf
                             /\ (Terminal(B[y].state) <=> Terminal(A[y].state))
                             /\ (A[y].state = "reversed" => B[y].state = "reversed"),
         \A c \in DOMAIN A : RowReconciles(A, c)
  PROVE  \A c \in DOMAIN B : RowReconciles(B, c)
<1>1. \A c : RowsReversing(B, c) = RowsReversing(A, c)
  BY DEF RowsReversing
<1>2. Negated(B) = Negated(A)
  BY DEF Negated
<1>3. \A c : ReversedIn(B, c) = ReversedIn(A, c)
  BY <1>1, <1>2 DEF ReversedIn
<1> QED
  BY <1>3 DEF RowReconciles

(* An accrual adds a pending row and as much frozen money.                 *)
LEMMA AccrueReconciles ==
  ASSUME EngineTypeOK, Reconciled(accounts, commissions), NEW rate \in Rates, AccrueLayer(rate)
  PROVE  Reconciled(accounts, commissions)'
<1> DEFINE amount == LayerAmount(rate)
           d == AccrualDelta(amount)
           row == NewCommission(amount)
           A == commissions
           B == commissions'
           x == Len(commissions) + 1
           agent == tx.agent
<1>1. /\ AtLayer /\ amount > 0
      /\ Post(agent, d, "accrue", Len(commissions) + 1, [NoMoves EXCEPT !["frozen"] = amount])
      /\ B = Append(A, row)
  BY DEF AccrueLayer
<1>2. /\ amount \in Int /\ agent \in Agents /\ row \in Commission
      /\ A \in Seq(Commission) /\ BooksTypeOK(accounts, ledger)
  BY <1>1, AtLayerType, NewCommissionType DEF EngineTypeOK, StoreTypeOK
<1>3. /\ row.agent = agent /\ row.amount = amount /\ row.reversed = 0
      /\ row.state = "pending" /\ row.reverseOf = 0
  BY DEF NewCommission
<1>4. /\ d["frozen"] = amount /\ d["totalEarned"] = amount
      /\ \A col \in {"available", "withdrawing", "withdrawn", "totalReversed"} : d[col] = 0
  BY ColumnNames DEF AccrualDelta, NoDelta
<1>5. d \in Delta
  BY <1>2, AccrualDeltaType
<1> HIDE DEF amount, d, row, agent
<1>6. /\ B \in Seq(Commission) /\ Len(A) \in Nat
      /\ DOMAIN A = 1 .. Len(A) /\ DOMAIN B = DOMAIN A \cup {x}
      /\ x \notin DOMAIN A /\ x # 0 /\ B[x] = row
      /\ \A y \in DOMAIN A : B[y] = A[y]
  BY <1>1, <1>2
<1> HIDE DEF A, B, x
<1>7. \A y \in DOMAIN A \ {x} : SameMoney(A[y], B[y])
  BY <1>6 DEF SameMoney
<1>8. ASSUME NEW k \in Agents
      PROVE  AccountReconciles(accounts', B, k)
  <2>1. AccountReconciles(accounts, A, k)
    BY DEF Reconciled, A
  <2>2. \A col \in Columns : /\ accounts[k][col] \in Int
                             /\ accounts'[k][col] = IF k = agent THEN accounts[k][col] + d[col]
                                                    ELSE accounts[k][col]
    BY <1>1, <1>2, <1>5, PostColumns
  <2>3. ASSUME NEW ss
        PROVE  /\ Owed(B, k, ss) = Owed(A, k, ss) - 0
                    + Part(Outstandings(B), RowsOf(B, k, ss), x)
               /\ Earned(B, k) = Earned(A, k) - 0
                    + Part(Amounts(B), RowsOf(B, k, CommissionStates), x)
               /\ Clawed(B, k) = Clawed(A, k) - 0
                    + Part(Reverseds(B), RowsOf(B, k, CommissionStates), x)
    <3>1. \A f, tt : Part(f, RowsOf(A, k, tt), x) = 0
      BY <1>6 DEF Part, RowsOf
    <3>2. \A y \in DOMAIN B \ DOMAIN A : y = x
      BY <1>6
    <3> QED
      BY <1>2, <1>6, <1>7, <3>1, <3>2, RowStep DEF A
  <2>4. /\ Part(Outstandings(B), RowsOf(B, k, Unsettled), x) = IF k = agent THEN amount ELSE 0
        /\ Part(Outstandings(B), RowsOf(B, k, {"settled"}), x) = 0
        /\ Part(Amounts(B), RowsOf(B, k, CommissionStates), x) = IF k = agent THEN amount ELSE 0
        /\ Part(Reverseds(B), RowsOf(B, k, CommissionStates), x) = 0
    <3>1. /\ Outstandings(B)[x] = amount /\ Amounts(B)[x] = amount /\ Reverseds(B)[x] = 0
      BY <1>2, <1>3, <1>6, TableTypes
    <3>2. x \in DOMAIN B /\ "pending" \in CommissionStates
      BY <1>6 DEF CommissionStates
    <3> QED
      BY <1>1, <1>3, <1>6, <3>1, <3>2 DEF Part, RowsOf, Unsettled
  <2>5. /\ \A col \in {"frozen", "totalEarned"} :
             accounts'[k][col] = accounts[k][col] + (IF k = agent THEN amount ELSE 0)
        /\ \A col \in {"available", "withdrawing", "withdrawn", "totalReversed"} :
             accounts'[k][col] = accounts[k][col]
    BY <1>2, <1>4, <2>2, ColumnNames, SMTT(30)
  <2>6. \A col \in Columns : accounts[k][col] \in Int
    BY <2>2
  <2> QED
    BY <1>2, <2>1, <2>3, <2>4, <2>5, <2>6, ColumnNames, SMTT(30) DEF AccountReconciles
<1>9. ASSUME NEW c \in DOMAIN B
      PROVE  RowReconciles(B, c)
  <2>1. \A y \in DOMAIN A : /\ A[y].reverseOf \in DOMAIN A \cup {0}
                            /\ A[y].reversed \in Nat /\ A[y].amount \in Int
    BY <1>2, TableTypes DEF Reconciled, RowReconciles, A
  <2>2. CASE c = x
    <3>1. RowsReversing(B, x) = {}
      BY <1>3, <1>6, <2>1 DEF RowsReversing
    <3>2. ReversedIn(B, x) = 0
      BY <3>1, SumOfNone DEF ReversedIn
    <3> QED
      BY <1>1, <1>2, <1>3, <1>6, <2>2, <3>2 DEF RowReconciles, Terminal
  <2>3. CASE c \in DOMAIN A
    <3>1. RowReconciles(A, c)
      BY <2>3 DEF Reconciled, A
    <3>2. c # 0 /\ B[c] = A[c]
      BY <1>6, <2>3
    <3>3. ReversedIn(B, c) = ReversedIn(A, c) - 0 + 0
      <4>1. /\ Part(Negated(A), RowsReversing(A, c), x) = 0
            /\ Part(Negated(B), RowsReversing(B, c), x) = 0
        BY <1>3, <1>6, <3>2 DEF Part, RowsReversing
      <4> QED
        BY <1>2, <1>6, <4>1, ReversalStep DEF A
    <3>4. A[c].amount > 0 => ReversedIn(A, c) = A[c].reversed
      BY <1>2, <2>1, <2>3, <3>1 DEF RowReconciles
    <3> QED
      BY <1>6, <2>1, <2>3, <3>1, <3>2, <3>3, <3>4 DEF RowReconciles
  <2> QED
    BY <1>6, <2>2, <2>3
<1> QED
  BY <1>8, <1>9 DEF Reconciled, B

(* A clawback raises the row's total by what it takes from the bucket the  *)
(* row's state names, and leaves a reversal row for exactly that.          *)
LEMMA ClawBackReconciles ==
  ASSUME EngineTypeOK, Reconciled(accounts, commissions),
         NEW c \in DOMAIN commissions, NEW target \in Nat,
         NEW terminal \in {"reversed", "void"}, NEW biz \in {"reverse", "void"},
         ~Terminal(commissions[c].state),
         commissions[c].reversed < target, target <= commissions[c].amount,
         ClawBack(c, target, terminal, biz)
  PROVE  Reconciled(accounts, commissions)'
<1> DEFINE A == commissions
           B == commissions'
           row == commissions[c]
           delta == target - row.reversed
           bucket == ReversalBucket(row.state)
           d == DebitDelta(bucket, delta)
           n == Len(commissions) + 1
<1>1. /\ A \in Seq(Commission) /\ B \in Seq(Commission)
      /\ DOMAIN A = 1 .. Len(A) /\ Len(A) \in Nat
      /\ DOMAIN B = DOMAIN A \cup {n} /\ n \notin DOMAIN A
      /\ \A y \in DOMAIN A \ {c} : B[y] = A[y]
      /\ SameAccrual(row, B[c]) /\ B[c].reversed = target
      /\ B[c].state = IF target >= row.amount THEN terminal ELSE row.state
      /\ B[n] = ReversalRecord(c, target)
  BY ClawBackRows, ZenonT(60)
<1>2. /\ row \in Commission /\ row.amount \in Int /\ row.reversed \in Nat
      /\ row.agent \in Agents /\ row.state \in CommissionStates /\ row.reverseOf \in Nat
      /\ A[c] = row /\ c \in DOMAIN A /\ c \in DOMAIN B /\ c # 0
  BY <1>1, TableTypes
<1>3. /\ B[c].agent = row.agent /\ B[c].amount = row.amount /\ B[c].reversed = target
      /\ B[c].reverseOf = row.reverseOf
      /\ B[c].state = IF target = row.amount THEN terminal ELSE row.state
  BY <1>1, <1>2 DEF SameAccrual
<1>4. /\ B[n].amount = -delta /\ B[n].reverseOf = c /\ B[n].state = "reversed"
  BY <1>1, <1>2 DEF ReversalRecord
<1>5. /\ delta \in Int /\ delta > 0 /\ bucket \in Buckets
      /\ bucket = IF row.state = "settled" THEN "available" ELSE "frozen"
      /\ row.state \in {"pending", "frozen", "settled"} /\ row.amount > 0
  BY <1>2, ReversalBucketType DEF ReversalBucket, CommissionStates, Terminal
<1>6. Post(row.agent, d, biz, n, [NoMoves EXCEPT ![bucket] = -delta])
  BY DEF ClawBack
<1>7. d \in Delta
  BY <1>5, DebitType
<1>8. \A col \in Columns : d[col] = IF col = bucket THEN -delta
                                    ELSE IF col = "totalReversed" THEN delta ELSE 0
  BY <1>5, ColumnNames DEF DebitDelta, NoDelta
<1>9. row.reverseOf = 0 /\ row.reversed = ReversedIn(A, c)
  BY <1>2, <1>5 DEF Reconciled, RowReconciles
<1>10. BooksTypeOK(accounts, ledger)
  BY DEF EngineTypeOK, StoreTypeOK
<1> HIDE DEF row, delta, bucket, d, A, B, n
<1>11. ASSUME NEW k \in Agents
       PROVE  AccountReconciles(accounts', B, k)
  <2>1. AccountReconciles(accounts, A, k)
    BY DEF Reconciled, A
  <2>2. \A col \in Columns :
          /\ accounts[k][col] \in Int
          /\ accounts'[k][col] = IF k = row.agent THEN accounts[k][col] + d[col]
                                 ELSE accounts[k][col]
    BY <1>2, <1>6, <1>7, <1>10, PostColumns
  <2>3. ASSUME NEW ss
        PROVE  /\ Owed(B, k, ss) = Owed(A, k, ss)
                    - Part(Outstandings(A), RowsOf(A, k, ss), c)
                    + Part(Outstandings(B), RowsOf(B, k, ss), c)
               /\ Earned(B, k) = Earned(A, k)
                    - Part(Amounts(A), RowsOf(A, k, CommissionStates), c)
                    + Part(Amounts(B), RowsOf(B, k, CommissionStates), c)
               /\ Clawed(B, k) = Clawed(A, k)
                    - Part(Reverseds(A), RowsOf(A, k, CommissionStates), c)
                    + Part(Reverseds(B), RowsOf(B, k, CommissionStates), c)
    <3>1. \A y \in DOMAIN B \ DOMAIN A : y = c \/ B[y].amount <= 0
      BY <1>1, <1>4, <1>5
    <3>2. \A y \in DOMAIN A \ {c} : SameMoney(A[y], B[y])
      BY <1>1 DEF SameMoney
    <3>3. A \in Seq(Commission) /\ B \in Seq(Commission) /\ DOMAIN A \subseteq DOMAIN B
      BY <1>1
    <3> QED
      BY <3>1, <3>2, <3>3, RowStep, SMTT(30)
  <2>4. /\ Outstandings(A)[c] = row.amount - row.reversed
        /\ Outstandings(B)[c] = row.amount - target
        /\ Amounts(A)[c] = row.amount /\ Amounts(B)[c] = row.amount
        /\ Reverseds(A)[c] = row.reversed /\ Reverseds(B)[c] = target
    BY <1>1, <1>2, <1>3, TableTypes
  <2>5. \A ss : /\ c \in RowsOf(A, k, ss) <=> k = row.agent /\ row.state \in ss
                /\ c \in RowsOf(B, k, ss) <=> /\ k = row.agent
                                              /\ B[c].state \in ss
    BY <1>2, <1>3, <1>5 DEF RowsOf
  <2>6. B[c].state \in CommissionStates /\ terminal \notin Unsettled \cup {"settled"}
    BY <1>2, <1>3 DEF CommissionStates, Unsettled
  <2>7. CASE k # row.agent
    <3>1. \A col \in Columns : accounts'[k][col] = accounts[k][col]
      BY <2>2, <2>7
    <3>2. \A f, ss : Part(f, RowsOf(A, k, ss), c) = 0 /\ Part(f, RowsOf(B, k, ss), c) = 0
      BY <2>5, <2>7 DEF Part
    <3> QED
      BY <2>1, <2>2, <2>3, <3>1, <3>2, ColumnNames DEF AccountReconciles
  <2>8. CASE k = row.agent
    <3>1. /\ Part(Amounts(A), RowsOf(A, k, CommissionStates), c) = row.amount
          /\ Part(Amounts(B), RowsOf(B, k, CommissionStates), c) = row.amount
          /\ Part(Reverseds(A), RowsOf(A, k, CommissionStates), c) = row.reversed
          /\ Part(Reverseds(B), RowsOf(B, k, CommissionStates), c) = target
      BY <1>2, <2>4, <2>5, <2>6, <2>8 DEF Part
    <3>2. \A ss : Part(Outstandings(A), RowsOf(A, k, ss), c) =
                    IF row.state \in ss THEN row.amount - row.reversed ELSE 0
      BY <2>4, <2>5, <2>8 DEF Part
    <3>3. \A ss \in {Unsettled, {"settled"}} :
            Part(Outstandings(B), RowsOf(B, k, ss), c) =
              IF row.state \in ss THEN row.amount - target ELSE 0
      <4>1. CASE target = row.amount
        BY <1>2, <1>3, <2>4, <2>5, <2>6, <2>8, <4>1 DEF Part
      <4>2. CASE target # row.amount
        BY <1>3, <2>4, <2>5, <2>8, <4>2 DEF Part
      <4> QED
        BY <4>1, <4>2
    <3>4. \A ss \in {Unsettled, {"settled"}} :
            Owed(B, k, ss) = Owed(A, k, ss)
              - (IF row.state \in ss THEN row.amount - row.reversed ELSE 0)
              + (IF row.state \in ss THEN row.amount - target ELSE 0)
      BY <2>3, <3>2, <3>3
    <3>5. \A col \in Columns : accounts'[k][col] = accounts[k][col] + d[col]
      BY <2>2, <2>8
    <3>6. accounts'[k]["totalEarned"] = Earned(B, k)
      BY <1>2, <1>5, <1>8, <2>1, <2>2, <2>3, <3>1, <3>5, ColumnNames DEF AccountReconciles
    <3>7. accounts'[k]["totalReversed"] = Clawed(B, k)
      <4>1. accounts'[k]["totalReversed"] = accounts[k]["totalReversed"] + (target - row.reversed)
        BY <1>5, <1>8, <3>5, ColumnNames DEF delta
      <4>2. accounts[k]["totalReversed"] \in Int /\ accounts[k]["totalReversed"] = Clawed(A, k)
        BY <2>1, <2>2, ColumnNames DEF AccountReconciles
      <4> QED
        BY <1>2, <2>3, <3>1, <4>1, <4>2
    <3>8. accounts'[k]["frozen"] = Owed(B, k, Unsettled)
      <4>1. accounts'[k]["frozen"] =
              accounts[k]["frozen"] - (IF row.state \in Unsettled THEN target - row.reversed ELSE 0)
        BY <1>2, <1>5, <1>8, <2>2, <3>5, ColumnNames DEF delta, Unsettled
      <4>2. accounts[k]["frozen"] \in Int /\ accounts[k]["frozen"] = Owed(A, k, Unsettled)
        BY <2>1, <2>2, ColumnNames DEF AccountReconciles
      <4> QED
        BY <1>2, <3>4, <4>1, <4>2
    <3>9. accounts'[k]["available"] + accounts'[k]["withdrawing"] + accounts'[k]["withdrawn"]
            = Owed(B, k, {"settled"})
      <4>1. /\ accounts'[k]["available"] = accounts[k]["available"]
                 - (IF row.state = "settled" THEN target - row.reversed ELSE 0)
            /\ accounts'[k]["withdrawing"] = accounts[k]["withdrawing"]
            /\ accounts'[k]["withdrawn"] = accounts[k]["withdrawn"]
        BY <1>2, <1>5, <1>8, <2>2, <3>5, ColumnNames DEF delta
      <4>2. /\ accounts[k]["available"] \in Int /\ accounts[k]["withdrawing"] \in Int
            /\ accounts[k]["withdrawn"] \in Int
            /\ accounts[k]["available"] + accounts[k]["withdrawing"] + accounts[k]["withdrawn"]
                 = Owed(A, k, {"settled"})
        BY <2>1, <2>2, ColumnNames DEF AccountReconciles
      <4> QED
        BY <1>2, <3>4, <4>1, <4>2
    <3> QED
      BY <3>6, <3>7, <3>8, <3>9 DEF AccountReconciles
  <2> QED
    BY <2>7, <2>8
<1>12. ASSUME NEW e
       PROVE  ReversedIn(B, e) = ReversedIn(A, e) - 0 + (IF e = c THEN delta ELSE 0)
  <2>1. Part(Negated(A), RowsReversing(A, e), n) = 0
    BY <1>1 DEF Part, RowsReversing
  <2>2. Negated(B)[n] = delta
    <3>1. n \in DOMAIN B /\ B \in Seq(Commission)
      BY <1>1
    <3>2. Negated(B)[n] = -B[n].amount
      BY <3>1 DEF Negated
    <3> QED
      BY <1>4, <1>5, <3>2
  <2>3. Part(Negated(B), RowsReversing(B, e), n) = IF e = c THEN delta ELSE 0
    BY <1>1, <1>4, <2>2 DEF Part, RowsReversing
  <2>4. \A y \in DOMAIN A \ {n} : A[y].amount = B[y].amount /\ A[y].reverseOf = B[y].reverseOf
    BY <1>1, <1>2, <1>3
  <2> QED
    BY <1>1, <2>1, <2>3, <2>4, ReversalStep
<1>13. ASSUME NEW e \in DOMAIN B
       PROVE  RowReconciles(B, e)
  <2>1. CASE e = n
    BY <1>1, <1>2, <1>4, <1>5, <2>1 DEF RowReconciles
  <2>2. CASE e = c
    <3>1. ReversedIn(B, c) = target
      BY <1>2, <1>9, <1>12 DEF delta
    <3>2. Terminal(terminal) /\ ~Terminal(row.state)
      BY DEF Terminal, row
    <3>3. target = row.amount <=> Terminal(B[c].state)
      BY <1>3, <3>2
    <3>4. target <= row.amount
      BY DEF row
    <3> QED
      BY <1>2, <1>3, <1>5, <1>9, <2>2, <3>1, <3>3, <3>4 DEF RowReconciles
  <2>3. CASE e \in DOMAIN A \ {c}
    <3>1. RowReconciles(A, e) /\ B[e] = A[e]
      BY <1>1, <2>3 DEF Reconciled, A
    <3>2. A[e].reversed \in Nat /\ A[e].reverseOf \in Nat
      BY <1>1, <2>3, TableTypes
    <3>3. A[e].amount > 0 => ReversedIn(B, e) = A[e].reversed
      <4>1. A[e].amount \in Int
        BY <1>1, <2>3, TableTypes
      <4>2. A[e].amount > 0 => ReversedIn(A, e) = A[e].reversed
        BY <3>1, <4>1 DEF RowReconciles
      <4> QED
        BY <1>12, <2>3, <3>2, <4>2
    <3> QED
      BY <1>1, <3>1, <3>2, <3>3 DEF RowReconciles
  <2> QED
    BY <1>1, <2>1, <2>2, <2>3
<1> QED
  BY <1>11, <1>13 DEF Reconciled, B

(* Settlement moves what is outstanding of the row together with its       *)
(* state.                                                                  *)
LEMMA SettleReconciles ==
  ASSUME EngineTypeOK, Reconciled(accounts, commissions),
         NEW c \in DOMAIN commissions, SettleOne(c)
  PROVE  Reconciled(accounts, commissions)'
<1> DEFINE A == commissions
           B == commissions'
           row == commissions[c]
           amount == Outstanding(row)
           d == SettleDelta(amount)
<1>1. /\ Transition(c, "pending", "settled")
      /\ Post(row.agent, d, "settle", c, Moves("frozen", "available", amount))
  BY DEF SettleOne
<1>2. /\ A \in Seq(Commission) /\ B \in Seq(Commission) /\ DOMAIN B = DOMAIN A
      /\ \A y \in DOMAIN A \ {c} : B[y] = A[y]
      /\ SameAccrual(row, B[c]) /\ B[c].reversed = row.reversed
      /\ row.state = "pending" /\ B[c].state = "settled"
  BY <1>1, TransitionRows DEF CommissionStates
<1>3. BooksTypeOK(accounts, ledger)
  BY DEF EngineTypeOK, StoreTypeOK
<1>4. /\ row.amount \in Int /\ row.reversed \in Nat /\ row.agent \in Agents
      /\ amount = row.amount - row.reversed /\ A[c] = row /\ c \in DOMAIN A
  BY <1>2, TableTypes DEF Outstanding
<1>5. row.amount > 0
  BY <1>2, <1>4 DEF Reconciled, RowReconciles
<1>6. /\ d \in Delta
      /\ \A col \in Columns : d[col] = IF col = "frozen" THEN -amount
                                       ELSE IF col = "available" THEN amount ELSE 0
  <2>1. "frozen" \in Buckets /\ "available" \in Buckets /\ amount \in Int
    BY <1>4 DEF Buckets
  <2> HIDE DEF amount
  <2> QED
    BY <2>1, MoveType, ColumnNames DEF SettleDelta, MoveDelta, NoDelta
<1> HIDE DEF A, B, row, amount, d
<1>7. ASSUME NEW k \in Agents
      PROVE  AccountReconciles(accounts', B, k)
  <2>1. AccountReconciles(accounts, A, k)
    BY DEF Reconciled, A
  <2>2. \A col \in Columns :
          /\ accounts[k][col] \in Int
          /\ accounts'[k][col] = IF k = row.agent THEN accounts[k][col] + d[col]
                                 ELSE accounts[k][col]
    BY <1>1, <1>3, <1>4, <1>6, PostColumns
  <2>3. ASSUME NEW ss
        PROVE  /\ Owed(B, k, ss) = Owed(A, k, ss)
                    - Part(Outstandings(A), RowsOf(A, k, ss), c)
                    + Part(Outstandings(B), RowsOf(B, k, ss), c)
               /\ Earned(B, k) = Earned(A, k)
                    - Part(Amounts(A), RowsOf(A, k, CommissionStates), c)
                    + Part(Amounts(B), RowsOf(B, k, CommissionStates), c)
               /\ Clawed(B, k) = Clawed(A, k)
                    - Part(Reverseds(A), RowsOf(A, k, CommissionStates), c)
                    + Part(Reverseds(B), RowsOf(B, k, CommissionStates), c)
    <3>1. \A y \in DOMAIN A \ {c} : SameMoney(A[y], B[y])
      BY <1>2 DEF SameMoney
    <3>2. \A y \in DOMAIN B \ DOMAIN A : y = c \/ B[y].amount <= 0
      BY <1>2, SMTT(30)
    <3>3. A \in Seq(Commission) /\ B \in Seq(Commission) /\ DOMAIN A \subseteq DOMAIN B
      BY <1>2
    <3> QED
      BY <3>1, <3>2, <3>3, RowStep
  <2>4. /\ Outstandings(A)[c] = amount /\ Outstandings(B)[c] = amount
        /\ Amounts(A)[c] = row.amount /\ Amounts(B)[c] = row.amount
        /\ Reverseds(A)[c] = row.reversed /\ Reverseds(B)[c] = row.reversed
    BY <1>2, <1>4, TableTypes DEF SameAccrual
  <2>5. \A ss : /\ c \in RowsOf(A, k, ss) <=> k = row.agent /\ "pending" \in ss
                /\ c \in RowsOf(B, k, ss) <=> k = row.agent /\ "settled" \in ss
    BY <1>2, <1>4, <1>5 DEF RowsOf, SameAccrual
  <2>6. /\ "pending" \in CommissionStates /\ "settled" \in CommissionStates
        /\ "pending" \in Unsettled /\ "settled" \notin Unsettled
    BY DEF CommissionStates, Unsettled
  <2>7. CASE k # row.agent
    <3>1. \A col \in Columns : accounts'[k][col] = accounts[k][col]
      BY <2>2, <2>7
    <3>2. \A f, ss : Part(f, RowsOf(A, k, ss), c) = 0 /\ Part(f, RowsOf(B, k, ss), c) = 0
      BY <2>5, <2>7 DEF Part
    <3> QED
      BY <2>1, <2>2, <2>3, <3>1, <3>2, ColumnNames DEF AccountReconciles
  <2>8. CASE k = row.agent
    <3>1. /\ Part(Amounts(A), RowsOf(A, k, CommissionStates), c) = row.amount
          /\ Part(Amounts(B), RowsOf(B, k, CommissionStates), c) = row.amount
          /\ Part(Reverseds(A), RowsOf(A, k, CommissionStates), c) = row.reversed
          /\ Part(Reverseds(B), RowsOf(B, k, CommissionStates), c) = row.reversed
      BY <2>4, <2>5, <2>6, <2>8 DEF Part
    <3>2. /\ Part(Outstandings(A), RowsOf(A, k, Unsettled), c) = amount
          /\ Part(Outstandings(B), RowsOf(B, k, Unsettled), c) = 0
          /\ Part(Outstandings(A), RowsOf(A, k, {"settled"}), c) = 0
          /\ Part(Outstandings(B), RowsOf(B, k, {"settled"}), c) = amount
      BY <2>4, <2>5, <2>6, <2>8 DEF Part
    <3>3. /\ accounts'[k]["totalEarned"] = accounts[k]["totalEarned"]
          /\ accounts'[k]["totalReversed"] = accounts[k]["totalReversed"]
          /\ accounts'[k]["frozen"] = accounts[k]["frozen"] - amount
          /\ accounts'[k]["available"] = accounts[k]["available"] + amount
          /\ accounts'[k]["withdrawing"] = accounts[k]["withdrawing"]
          /\ accounts'[k]["withdrawn"] = accounts[k]["withdrawn"]
      BY <1>4, <1>6, <2>2, <2>8, ColumnNames
    <3>4. amount \in Int /\ \A col \in Columns : accounts[k][col] \in Int
      BY <1>4, <2>2
    <3>5. Earned(B, k) = Earned(A, k) /\ Clawed(B, k) = Clawed(A, k)
      <4>1. Earned(A, k) \in Int /\ Clawed(A, k) \in Int
        BY <2>1, <3>4, ColumnNames DEF AccountReconciles
      <4>2. /\ Earned(B, k) = Earned(A, k) - row.amount + row.amount
            /\ Clawed(B, k) = Clawed(A, k) - row.reversed + row.reversed
        BY <2>3, <3>1
      <4> QED
        BY <1>4, <4>1, <4>2
    <3>6. /\ Owed(B, k, Unsettled) = Owed(A, k, Unsettled) - amount + 0
          /\ Owed(B, k, {"settled"}) = Owed(A, k, {"settled"}) - 0 + amount
      BY <2>3, <3>2
    <3> QED
      BY <2>1, <3>3, <3>4, <3>5, <3>6, ColumnNames DEF AccountReconciles
  <2> QED
    BY <2>7, <2>8
<1>8. \A e \in DOMAIN B : RowReconciles(B, e)
  <2>1. \A y \in DOMAIN A : /\ B[y].amount = A[y].amount /\ B[y].reversed = A[y].reversed
                            /\ B[y].reverseOf = A[y].reverseOf
                            /\ (Terminal(B[y].state) <=> Terminal(A[y].state))
                            /\ (A[y].state = "reversed" => B[y].state = "reversed")
    BY <1>2, <1>4 DEF SameAccrual, Terminal
  <2> QED
    BY <1>2, <2>1, RowsStillReconcile DEF Reconciled, A
<1> QED
  BY <1>7, <1>8 DEF Reconciled, B

(* A receipt, a freeze or its end changes no sum: the row stays among the  *)
(* unsettled ones.                                                         *)
LEMMA PlainReconciles ==
  ASSUME Reconciled(accounts, commissions), UNCHANGED accounts,
         commissions \in Seq(Commission), commissions' \in Seq(Commission),
         DOMAIN commissions' = DOMAIN commissions,
         \A y \in DOMAIN commissions :
           /\ commissions'[y].agent = commissions[y].agent
           /\ commissions'[y].amount = commissions[y].amount
           /\ commissions'[y].reversed = commissions[y].reversed
           /\ commissions'[y].reverseOf = commissions[y].reverseOf
           /\ \/ commissions'[y].state = commissions[y].state
              \/ commissions[y].state \in Unsettled /\ commissions'[y].state \in Unsettled
  PROVE  Reconciled(accounts, commissions)'
<1> DEFINE A == commissions
           B == commissions'
<1>1. \A y \in DOMAIN A : B[y].state \in CommissionStates <=> A[y].state \in CommissionStates
  BY DEF Unsettled, CommissionStates
<1>2. \A y \in DOMAIN A : /\ (Terminal(B[y].state) <=> Terminal(A[y].state))
                          /\ (A[y].state = "reversed" => B[y].state = "reversed")
                          /\ (B[y].state \in Unsettled <=> A[y].state \in Unsettled)
                          /\ (B[y].state \in {"settled"} <=> A[y].state \in {"settled"})
  BY DEF Unsettled, Terminal
<1>3. \A k : \A ss \in {CommissionStates, Unsettled, {"settled"}} :
        RowsOf(B, k, ss) = RowsOf(A, k, ss)
  BY <1>1, <1>2 DEF RowsOf
<1>4. /\ Outstandings(B) = Outstandings(A) /\ Amounts(B) = Amounts(A)
      /\ Reverseds(B) = Reverseds(A)
  BY DEF Outstandings, Outstanding, Amounts, Reverseds
<1>5. \A k : /\ Earned(B, k) = Earned(A, k) /\ Clawed(B, k) = Clawed(A, k)
             /\ Owed(B, k, Unsettled) = Owed(A, k, Unsettled)
             /\ Owed(B, k, {"settled"}) = Owed(A, k, {"settled"})
  BY <1>3, <1>4 DEF Earned, Clawed, Owed
<1>6. \A k \in Agents : AccountReconciles(accounts', B, k)
  BY <1>5 DEF Reconciled, AccountReconciles
<1>7. \A c \in DOMAIN B : RowReconciles(B, c)
  BY <1>2, RowsStillReconcile DEF Reconciled
<1> QED
  BY <1>6, <1>7 DEF Reconciled

(* Freezing a row, or the end of it, leaves it among the unsettled ones.   *)
LEMMA RiskReconciles ==
  ASSUME EngineTypeOK, Reconciled(accounts, commissions),
         NEW c \in DOMAIN commissions, FreezeCommission(c) \/ UnfreezeCommission(c)
  PROVE  Reconciled(accounts, commissions)'
<1>1. UNCHANGED accounts
  BY DEF FreezeCommission, UnfreezeCommission
<1>2. PICK from \in Unsettled, to \in Unsettled : Transition(c, from, to)
  BY DEF FreezeCommission, UnfreezeCommission, Unsettled
<1>3. to \in CommissionStates
  BY DEF Unsettled, CommissionStates
<1>4. /\ commissions \in Seq(Commission) /\ commissions' \in Seq(Commission)
      /\ DOMAIN commissions' = DOMAIN commissions
      /\ \A y \in DOMAIN commissions \ {c} : commissions'[y] = commissions[y]
      /\ SameAccrual(commissions[c], commissions'[c])
      /\ commissions'[c].reversed = commissions[c].reversed
      /\ commissions[c].state = from /\ commissions'[c].state = to
  BY <1>2, <1>3, TransitionRows
<1> QED
  BY <1>1, <1>4, PlainReconciles DEF SameAccrual

(* A receipt dates rows and moves no money.                                *)
LEMMA ReceivedReconciles ==
  ASSUME EngineTypeOK, Reconciled(accounts, commissions),
         NEW o \in Orders, NEW at \in ReceiptTimes, OnOrderReceived(o, at)
  PROVE  Reconciled(accounts, commissions)'
<1>1. UNCHANGED accounts
  BY DEF OnOrderReceived
<1>2. commissions \in Seq(Commission) /\ commissions' \in Seq(Commission)
  BY OnOrderReceivedType DEF EngineTypeOK, StoreTypeOK
<1>3. DOMAIN commissions' = DOMAIN commissions
  BY DEF OnOrderReceived
<1>4. ASSUME NEW y \in DOMAIN commissions
      PROVE  SameMoney(commissions[y], commissions'[y])
  BY <1>2, ReceivedRow DEF SameMoney
<1> QED
  BY <1>1, <1>2, <1>3, <1>4, PlainReconciles DEF SameMoney

(* The total a refund asks for never exceeds the row's amount.             *)
LEMMA ReverseReconciles ==
  ASSUME EngineTypeOK, Reconciled(accounts, commissions),
         NEW c \in DOMAIN commissions, ReverseLayer(c)
  PROVE  Reconciled(accounts, commissions)'
<1> DEFINE want == WantReversed(c)
<1>1. /\ tx.op = "refund" /\ ~Terminal(commissions[c].state)
      /\ want > commissions[c].reversed
      /\ ClawBack(c, want, "reversed", "reverse")
  BY DEF ReverseLayer, NextToReverse, NeedsReversal
<1>2. commissions[c].amount \in Int /\ commissions[c].reversed \in Nat
  BY TableTypes DEF EngineTypeOK, StoreTypeOK
<1>3. want \in Int
  BY <1>1, WantReversedType
<1>4. want <= commissions[c].amount
  <2> DEFINE due == MulDiv(commissions[c].amount, tx.target, commissions[c].base, "down")
  <2>1. want = IF due > commissions[c].amount THEN commissions[c].amount ELSE due
    BY DEF WantReversed
  <2>2. due \in Int
    BY <1>1, WantReversedType
  <2> HIDE DEF due, want
  <2> QED
    BY <1>2, <2>1, <2>2
<1> HIDE DEF want
<1>5. want \in Nat /\ commissions[c].reversed < want
  BY <1>1, <1>2, <1>3
<1> QED
  BY <1>1, <1>4, <1>5, ClawBackReconciles

(* Voiding a row claws back all that is outstanding of it.                 *)
LEMMA VoidReconciles ==
  ASSUME EngineTypeOK, Reconciled(accounts, commissions),
         NEW c \in DOMAIN commissions, VoidCommission(c)
  PROVE  Reconciled(accounts, commissions)'
<1>1. /\ commissions[c].state \in {"pending", "frozen"}
      /\ Outstanding(commissions[c]) > 0
      /\ ClawBack(c, commissions[c].amount, "void", "void")
  BY DEF VoidCommission
<1>2. commissions[c].amount \in Int /\ commissions[c].reversed \in Nat
  BY TableTypes DEF EngineTypeOK, StoreTypeOK
<1>3. /\ commissions[c].amount \in Nat /\ commissions[c].reversed < commissions[c].amount
      /\ commissions[c].amount <= commissions[c].amount
  BY <1>1, <1>2 DEF Outstanding
<1>4. ~Terminal(commissions[c].state)
  BY <1>1 DEF Terminal
<1> QED
  BY <1>1, <1>3, <1>4, ClawBackReconciles

(* Every write keeps the rows and the accounts reconciled.                 *)
LEMMA WritesReconcile ==
  ASSUME EngineTypeOK, Reconciled(accounts, commissions), Writes
  PROVE  Reconciled(accounts, commissions)'
  BY AccrueReconciles, ReceivedReconciles, ReverseReconciles, SettleReconciles,
     RiskReconciles, VoidReconciles DEF Writes

-----------------------------------------------------------------------------
(***************************************************************************)
(* The inductive invariant: a failed transaction restores its snapshot, so *)
(* the snapshot has to reconcile as well.                                  *)
(***************************************************************************)

ReconcileInv ==
  /\ EngineTypeOK
  /\ Reconciled(accounts, commissions)
  /\ Unlocked \/ Reconciled(undo.accounts, undo.commissions)

(* No rows reconcile with empty accounts.                                  *)
LEMMA EngineInitReconciles == EngineInit => Reconciled(accounts, commissions)
<1> SUFFICES ASSUME EngineInit PROVE Reconciled(accounts, commissions)
  OBVIOUS
<1>1. commissions = << >> /\ \A k \in Agents : accounts[k] = EmptyAccount
  BY DEF EngineInit, BooksInit
<1>2. \A k, ss : RowsOf(commissions, k, ss) = {}
  BY <1>1 DEF RowsOf
<1>3. \A k, ss : /\ Owed(commissions, k, ss) = 0
                 /\ Earned(commissions, k) = 0 /\ Clawed(commissions, k) = 0
  BY <1>2, SumOfNone DEF Owed, Earned, Clawed
<1>4. \A col \in Columns : EmptyAccount[col] = 0
  BY DEF EmptyAccount
<1> QED
  BY <1>1, <1>3, <1>4, ColumnNames DEF Reconciled, AccountReconciles

(* Every step keeps the rows and the accounts, and those of the snapshot   *)
(* of an open transaction, reconciled.                                     *)
LEMMA EngineNextReconciles ==
  ASSUME ReconcileInv, [EngineNext]_engineVars
  PROVE  ReconcileInv'
<1> DEFINE Goal == /\ Reconciled(accounts, commissions)'
                   /\ Unlocked' \/ Reconciled(undo.accounts, undo.commissions)'
<1>0. EngineTypeOK /\ EngineTypeOK' /\ Reconciled(accounts, commissions)
  BY EngineNextType DEF ReconcileInv
<1> SUFFICES Goal
  BY <1>0 DEF ReconcileInv
<1>1. ASSUME NEW a, NEW b, NEW e, NEW f, Reconciled(a, b), e = a, f = b
      PROVE  Reconciled(e, f)
  BY <1>1
<1>2. CASE UNCHANGED <<accounts, ledger, commissions, undo>> /\ (Unlocked' <=> Unlocked)
  BY <1>0, <1>1, <1>2 DEF ReconcileInv
<1>3. CASE Writes /\ UNCHANGED undo /\ (Unlocked' <=> Unlocked)
  BY <1>0, <1>1, <1>3, WritesReconcile DEF ReconcileInv
<1>4. ASSUME NEW t, Begin(t)
      PROVE  Goal
  BY <1>0, <1>1, <1>4 DEF Begin, storeVars
<1>5. CASE Commit
  BY <1>0, <1>1, <1>5 DEF Commit, storeVars, Unlocked
<1>6. CASE ~Unlocked /\ Rollback
  BY <1>1, <1>6 DEF Rollback, Unlocked, ReconcileInv
<1> HIDE DEF Goal
<1> QED
  BY <1>0, <1>2, <1>3, <1>4, <1>5, <1>6, StoreStep

(* What the invariant says of the live rows and accounts.                  *)
LEMMA ReconciledMeans ==
  ASSUME commissions \in Seq(Commission), Reconciled(accounts, commissions)
  PROVE  ReversalsReconcile /\ MoneyBacked
<1>1. \A k, states : /\ Rows(k, states) = RowsOf(commissions, k, states)
                     /\ OutstandingOf(k, states) = Owed(commissions, k, states)
  BY DEF Rows, RowsOf, OutstandingOf, Owed, Outstandings
<1>2. \A c : ReversedBy(c) = ReversedIn(commissions, c)
  BY DEF ReversedBy, ReversedIn, Negated, RowsReversing
<1>3. MoneyBacked
  BY <1>1 DEF MoneyBacked, Reconciled, AccountReconciles, Unsettled
<1>4. ASSUME NEW c \in DOMAIN commissions, commissions[c].amount > 0
      PROVE  /\ commissions[c].reversed = ReversedBy(c)
             /\ commissions[c].reversed <= commissions[c].amount
             /\ FullyReversed(commissions[c]) <=> Terminal(commissions[c].state)
  <2>1. commissions[c].amount \in Int /\ commissions[c].reversed \in Nat
    BY TableTypes
  <2>2. RowReconciles(commissions, c)
    BY DEF Reconciled
  <2> QED
    BY <1>2, <1>4, <2>1, <2>2 DEF RowReconciles, FullyReversed
<1>5. \A k \in Agents :
        /\ accounts[k]["totalEarned"] =
             SumFunctionOnSet(Amounts(commissions), Rows(k, CommissionStates))
        /\ accounts[k]["totalReversed"] =
             SumFunctionOnSet(Reverseds(commissions), Rows(k, CommissionStates))
  BY <1>1 DEF Reconciled, AccountReconciles, Earned, Clawed
<1>6. ReversalsReconcile
  BY <1>4, <1>5 DEF ReversalsReconcile, Amounts, Reverseds
<1> QED
  BY <1>3, <1>6

(* The rows and the accounts reconcile along every behaviour.              *)
LEMMA EngineReconcileInvariant == EngineSpec => []ReconcileInv
<1>1. EngineInit => ReconcileInv
  BY EngineInitType, EngineInitReconciles DEF ReconcileInv, EngineInit, Unlocked
<1>2. ReconcileInv /\ [EngineNext]_engineVars => ReconcileInv'
  BY EngineNextReconciles
<1> QED
  BY <1>1, <1>2, PTL DEF EngineSpec

(* SelfCheck's I3 holds of every table the engine can build: each row's    *)
(* accumulator is the sum of its reversal rows, is bounded by the accrual  *)
(* and decides the final state, and the account's gross totals roll up     *)
(* the rows (clawBack, creditAccrual), also inside a transaction.          *)
THEOREM EngineReversalsReconcile == EngineSpec => []ReversalsReconcile
<1>1. ReconcileInv => ReversalsReconcile
  BY ReconciledMeans DEF ReconcileInv, EngineTypeOK, StoreTypeOK
<1> QED
  BY <1>1, EngineReconcileInvariant, PTL

(* Every bucket is backed by rows, to the cent, however settlement,        *)
(* freezing, refunds, voiding and failed transactions interleave           *)
(* (settleOne, clawBack).                                                  *)
THEOREM EngineMoneyBacked == EngineSpec => []MoneyBacked
<1>1. ReconcileInv => MoneyBacked
  BY ReconciledMeans DEF ReconcileInv, EngineTypeOK, StoreTypeOK
<1> QED
  BY <1>1, EngineReconcileInvariant, PTL

-----------------------------------------------------------------------------
(***************************************************************************)
(* Committed history is kept                                               *)
(***************************************************************************)

(* A ledger that only got longer.                                          *)
LedgerGrows(led, men) ==
  \A k \in Agents :
    /\ Len(led[k]) <= Len(men[k])
    /\ \A i \in DOMAIN led[k] : men[k][i] = led[k][i]

(* A table that only got longer, and whose rows only advanced.             *)
RowsGrow(A, B) ==
  /\ Len(A) <= Len(B)
  /\ \A c \in DOMAIN A : SameFinancials(A[c], B[c])

(* Growing twice is growing.                                               *)
LEMMA GrowsOn ==
  ASSUME NEW L \in [Agents -> Seq(Entry)], NEW M \in [Agents -> Seq(Entry)],
         NEW N \in [Agents -> Seq(Entry)], LedgerGrows(L, M), LedgerGrows(M, N),
         NEW A \in Seq(Commission), NEW B \in Seq(Commission), NEW C \in Seq(Commission),
         RowsGrow(A, B), RowsGrow(B, C)
  PROVE  LedgerGrows(L, N) /\ RowsGrow(A, C)
<1>1. ASSUME NEW k \in Agents
      PROVE  /\ Len(L[k]) <= Len(N[k])
             /\ \A i \in DOMAIN L[k] : N[k][i] = L[k][i]
  <2>1. /\ L[k] \in Seq(Entry) /\ M[k] \in Seq(Entry) /\ N[k] \in Seq(Entry)
        /\ Len(L[k]) <= Len(M[k]) /\ Len(M[k]) <= Len(N[k])
        /\ \A i \in DOMAIN L[k] : M[k][i] = L[k][i]
        /\ \A i \in DOMAIN M[k] : N[k][i] = M[k][i]
    BY DEF LedgerGrows
  <2> QED
    BY <2>1, SMTT(30)
<1>2. /\ Len(A) <= Len(C)
      /\ \A c \in DOMAIN A : c \in DOMAIN B
  BY DEF RowsGrow
<1>3. ASSUME NEW c \in DOMAIN A
      PROVE  SameFinancials(A[c], C[c])
  <2>1. SameFinancials(A[c], B[c]) /\ SameFinancials(B[c], C[c])
    BY <1>2 DEF RowsGrow
  <2>2. /\ A[c].reversed \in Nat /\ B[c].reversed \in Nat
        /\ c \in DOMAIN C
    BY <1>2, TableTypes DEF RowsGrow
  <2>3. C[c].reversed \in Nat
    BY <2>2, TableTypes
  <2> QED
    BY <2>1, <2>2, <2>3 DEF SameFinancials
<1> QED
  BY <1>1, <1>2, <1>3 DEF LedgerGrows, RowsGrow

(* Staying the same is growing.                                            *)
LEMMA GrowsNot ==
  /\ \A L \in [Agents -> Seq(Entry)] : LedgerGrows(L, L)
  /\ \A A \in Seq(Commission) : RowsGrow(A, A)
<1>1. ASSUME NEW L \in [Agents -> Seq(Entry)]
      PROVE  LedgerGrows(L, L)
  <2>1. \A k \in Agents : Len(L[k]) \in Nat
    OBVIOUS
  <2> QED
    BY <2>1 DEF LedgerGrows
<1>2. ASSUME NEW A \in Seq(Commission)
      PROVE  RowsGrow(A, A)
  <2>1. Len(A) \in Nat /\ \A c \in DOMAIN A : A[c].reversed \in Nat
    BY TableTypes
  <2> QED
    BY <2>1 DEF RowsGrow, SameFinancials
<1> QED
  BY <1>1, <1>2

(* A movement of money appends to one ledger.                              *)
LEMMA PostGrows ==
  ASSUME BooksTypeOK(accounts, ledger),
         NEW k \in Agents, NEW d, NEW biz, NEW ref, NEW moves, Post(k, d, biz, ref, moves)
  PROVE  LedgerGrows(ledger, ledger')
<1> DEFINE entry == NewLedgerEntry(biz, ref, Apply(accounts[k], d), moves)
<1>1. ledger' = [ledger EXCEPT ![k] = Append(ledger[k], entry)]
  BY DEF Post
<1> HIDE DEF entry
<1>2. ledger \in [Agents -> Seq(Entry)]
  BY DEF BooksTypeOK
<1>3. ASSUME NEW j \in Agents
      PROVE  /\ Len(ledger[j]) <= Len(ledger'[j])
             /\ \A i \in DOMAIN ledger[j] : ledger'[j][i] = ledger[j][i]
  <2>1. ledger[j] \in Seq(Entry) /\ ledger[k] \in Seq(Entry)
    BY <1>2
  <2>2. CASE j = k
    <3>1. ledger'[j] = Append(ledger[j], entry)
      BY <1>1, <1>2, <2>2
    <3> QED
      BY <2>1, <3>1
  <2>3. CASE j # k
    BY <1>1, <1>2, <2>1, <2>3
  <2> QED
    BY <2>2, <2>3
<1> QED
  BY <1>3 DEF LedgerGrows

(* A clawback of a row that has not ended, to a larger total.              *)
LEMMA ClawBackGrows ==
  ASSUME EngineTypeOK, NEW c \in DOMAIN commissions, NEW target \in Nat,
         NEW terminal \in {"reversed", "void"}, NEW biz \in {"reverse", "void"},
         ~Terminal(commissions[c].state), commissions[c].reversed <= target,
         ClawBack(c, target, terminal, biz)
  PROVE  LedgerGrows(ledger, ledger') /\ RowsGrow(commissions, commissions')
<1>1. LedgerGrows(ledger, ledger')
  <2>1. commissions[c].agent \in Agents /\ BooksTypeOK(accounts, ledger)
    BY TableTypes DEF EngineTypeOK, StoreTypeOK
  <2> QED
    BY <2>1, PostGrows DEF ClawBack
<1>2. /\ commissions \in Seq(Commission) /\ Len(commissions) \in Nat
      /\ Len(commissions') = Len(commissions) + 1
      /\ \A y \in DOMAIN commissions \ {c} : commissions'[y] = commissions[y]
      /\ SameAccrual(commissions[c], commissions'[c])
      /\ commissions'[c].reversed = target
  BY ClawBackRows
<1>3. \A y \in DOMAIN commissions : commissions[y].reversed \in Nat
  BY <1>2, TableTypes
<1>4. \A y \in DOMAIN commissions \ {c} : SameFinancials(commissions[y], commissions'[y])
  BY <1>2, <1>3 DEF SameFinancials
<1>5. SameFinancials(commissions[c], commissions'[c])
  BY <1>2 DEF SameFinancials, SameAccrual
<1> QED
  BY <1>1, <1>2, <1>4, <1>5 DEF RowsGrow

(* A change of state of a row that has not ended.                          *)
LEMMA TransitionGrows ==
  ASSUME EngineTypeOK, NEW c \in DOMAIN commissions, NEW from, NEW to \in CommissionStates,
         Transition(c, from, to), ~Terminal(from)
  PROVE  RowsGrow(commissions, commissions')
<1>1. /\ commissions \in Seq(Commission) /\ Len(commissions) \in Nat
      /\ Len(commissions') = Len(commissions)
      /\ \A y \in DOMAIN commissions \ {c} : commissions'[y] = commissions[y]
      /\ SameAccrual(commissions[c], commissions'[c])
      /\ commissions'[c].reversed = commissions[c].reversed /\ commissions[c].state = from
  BY TransitionRows DEF EngineTypeOK, StoreTypeOK
<1>2. \A y \in DOMAIN commissions : commissions[y].reversed \in Nat
  BY <1>1, TableTypes
<1>3. \A y \in DOMAIN commissions \ {c} : SameFinancials(commissions[y], commissions'[y])
  BY <1>1, <1>2 DEF SameFinancials
<1>4. SameFinancials(commissions[c], commissions'[c])
  BY <1>1, <1>2 DEF SameFinancials, SameAccrual
<1> QED
  BY <1>1, <1>3, <1>4 DEF RowsGrow

(* Every write only adds to the ledger and only advances the rows.         *)
LEMMA WritesGrow ==
  ASSUME EngineTypeOK, Writes
  PROVE  LedgerGrows(ledger, ledger') /\ RowsGrow(commissions, commissions')
<1> DEFINE Goal == LedgerGrows(ledger, ledger') /\ RowsGrow(commissions, commissions')
<1>0. /\ BooksTypeOK(accounts, ledger) /\ commissions \in Seq(Commission)
      /\ ledger \in [Agents -> Seq(Entry)]
  BY DEF EngineTypeOK, StoreTypeOK, BooksTypeOK
<1>1. ASSUME NEW rate \in Rates, AccrueLayer(rate)
      PROVE  Goal
  <2>1. LedgerGrows(ledger, ledger')
    BY <1>0, <1>1, AtLayerType, PostGrows DEF AccrueLayer
  <2> DEFINE row == NewCommission(LayerAmount(rate))
  <2>2. commissions' = Append(commissions, row)
    BY <1>1 DEF AccrueLayer
  <2> HIDE DEF row
  <2>3. /\ Len(commissions) <= Len(commissions')
        /\ \A c \in DOMAIN commissions : commissions'[c] = commissions[c]
    BY <1>0, <2>2
  <2>4. \A c \in DOMAIN commissions : commissions[c].reversed \in Nat
    BY <1>0, TableTypes
  <2> QED
    BY <2>1, <2>3, <2>4 DEF RowsGrow, SameFinancials
<1>2. ASSUME NEW o \in Orders, NEW at \in ReceiptTimes, OnOrderReceived(o, at)
      PROVE  Goal
  <2>1. LedgerGrows(ledger, ledger')
    BY <1>0, <1>2, GrowsNot DEF OnOrderReceived
  <2>2. Len(commissions') = Len(commissions) /\ Len(commissions) \in Nat
    <3>1. DOMAIN commissions' = DOMAIN commissions
      BY <1>2 DEF OnOrderReceived
    <3>2. commissions' \in Seq(Commission)
      BY <1>2, OnOrderReceivedType DEF EngineTypeOK, StoreTypeOK
    <3> QED
      BY <1>0, <3>1, <3>2
  <2>3. \A c \in DOMAIN commissions : SameFinancials(commissions[c], commissions'[c])
    <3> SUFFICES ASSUME NEW c \in DOMAIN commissions
                 PROVE  SameFinancials(commissions[c], commissions'[c])
      OBVIOUS
    <3>1. commissions[c].reversed \in Nat
      BY <1>0, TableTypes
    <3> QED
      BY <1>2, <3>1, ReceivedRow DEF SameFinancials
  <2> QED
    BY <2>1, <2>2, <2>3 DEF RowsGrow
<1>3. ASSUME NEW c \in DOMAIN commissions, ReverseLayer(c)
      PROVE  Goal
  <2>1. /\ tx.op = "refund" /\ NeedsReversal(c)
        /\ ClawBack(c, WantReversed(c), "reversed", "reverse")
    BY <1>3 DEF ReverseLayer, NextToReverse
  <2>2. /\ ~Terminal(commissions[c].state) /\ commissions[c].reversed \in Nat
        /\ WantReversed(c) > commissions[c].reversed /\ WantReversed(c) \in Int
    BY <1>0, <2>1, TableTypes, WantReversedType DEF NeedsReversal
  <2>3. WantReversed(c) \in Nat /\ commissions[c].reversed <= WantReversed(c)
    BY <2>2
  <2> QED
    BY <2>1, <2>2, <2>3, ClawBackGrows
<1>4. ASSUME NEW c \in DOMAIN commissions, VoidCommission(c)
      PROVE  Goal
  <2>1. /\ commissions[c].state \in {"pending", "frozen"}
        /\ Outstanding(commissions[c]) > 0
        /\ ClawBack(c, commissions[c].amount, "void", "void")
    BY <1>4 DEF VoidCommission
  <2>2. commissions[c].reversed \in Nat /\ commissions[c].amount \in Int
    BY <1>0, TableTypes
  <2>3. commissions[c].amount \in Nat /\ commissions[c].reversed <= commissions[c].amount
    BY <2>1, <2>2 DEF Outstanding
  <2>4. ~Terminal(commissions[c].state)
    BY <2>1 DEF Terminal
  <2> QED
    BY <2>1, <2>3, <2>4, ClawBackGrows
<1>5. ASSUME NEW c \in DOMAIN commissions, SettleOne(c)
      PROVE  Goal
  <2>1. RowsGrow(commissions, commissions')
    BY <1>5, TransitionGrows DEF SettleOne, Terminal, CommissionStates
  <2>2. commissions[c].agent \in Agents
    BY <1>0, TableTypes
  <2>3. LedgerGrows(ledger, ledger')
    BY <1>0, <1>5, <2>2, PostGrows DEF SettleOne
  <2> QED
    BY <2>1, <2>3
<1>6. ASSUME NEW c \in DOMAIN commissions, FreezeCommission(c) \/ UnfreezeCommission(c)
      PROVE  Goal
  <2>1. RowsGrow(commissions, commissions')
    BY <1>6, TransitionGrows
       DEF FreezeCommission, UnfreezeCommission, Terminal, CommissionStates
  <2>2. LedgerGrows(ledger, ledger')
    BY <1>0, <1>6, GrowsNot DEF FreezeCommission, UnfreezeCommission
  <2> QED
    BY <2>1, <2>2
<1> HIDE DEF Goal
<1>7. Goal
  BY <1>1, <1>2, <1>3, <1>4, <1>5, <1>6 DEF Writes
<1> QED
  BY <1>7 DEF Goal

(* Only a roll-back ever takes a voucher away.                             *)
LEMMA VouchersStay ==
  ASSUME [EngineNext]_engineVars
  PROVE  vouchers \subseteq vouchers' \/ (~Unlocked /\ Rollback)
<1> DEFINE Goal == vouchers \subseteq vouchers' \/ (~Unlocked /\ Rollback)
<1> SUFFICES Goal
  OBVIOUS
<1>1. ASSUME tx.op \in {"paid", "refund", "settle"}
      PROVE  ~Unlocked
  BY <1>1 DEF Unlocked, Idle
<1>2. ASSUME TxStep
      PROVE  Goal
  <2>1. ASSUME NEW rate \in Rates, AccrueLayer(rate) \/ AbortAccrual(rate)
        PROVE  Goal
    BY <1>1, <2>1 DEF AccrueLayer, AbortAccrual, AtLayer
  <2>2. ASSUME NEW i \in AllItems, RefundItem(i)
        PROVE  Goal
    <3>1. \/ \E v : vouchers' = vouchers \cup v
          \/ UNCHANGED vouchers
      BY <2>2 DEF RefundItem
    <3> QED
      BY <3>1
  <2>3. ASSUME SkipLayer \/ NextBase \/ CommitRefund \/ CommitBatch
        PROVE  Goal
    BY <2>3 DEF SkipLayer, NextBase, CommitRefund, CommitBatch, Commit, storeVars
  <2>4. ASSUME NEW c \in DOMAIN commissions, ReverseLayer(c) \/ KeepLayer(c) \/ SettleOne(c)
        PROVE  Goal
    BY <2>4 DEF ReverseLayer, KeepLayer, SettleOne, storeVars
  <2>5. ASSUME NEW c \in DOMAIN commissions, AbortRefund(c) \/ AbortBatch(c)
        PROVE  Goal
    BY <1>1, <2>5 DEF AbortRefund, AbortBatch, NextToReverse, NextToSettle
  <2> HIDE DEF Goal
  <2> QED
    BY <1>2, <2>1, <2>2, <2>3, <2>4, <2>5 DEF TxStep
<1>3. ASSUME BeatStep \/ Tick \/ UNCHANGED engineVars
      PROVE  Goal
  BY <1>3 DEF BeatStep, MaintainStart, MaintainScan, MaintainTenant, TenantRoundsSpent,
              RoundEnds, Tick, Begin, storeVars, engineVars
<1>4. ASSUME Events
      PROVE  Goal
  BY <1>4 DEF Events, OnOrderPaid, OnOrderReceived, OnOrderRefunded, FreezeCommission,
              UnfreezeCommission, VoidCommission, Begin, storeVars
<1> HIDE DEF Goal
<1> QED
  BY <1>2, <1>3, <1>4 DEF EngineNext

(* What an open transaction would be rolled back to is what its own writes *)
(* have grown from.                                                        *)
HistoryInv ==
  /\ EngineTypeOK
  /\ Unlocked \/ /\ LedgerGrows(undo.ledger, ledger)
                 /\ RowsGrow(undo.commissions, commissions)
                 /\ undo.vouchers \subseteq vouchers

(* What a step may do to what is committed.                                *)
HistoryGrows ==
  /\ LedgerGrows(CommittedLedger, CommittedLedger')
  /\ RowsGrow(CommittedRows, CommittedRows')
  /\ CommittedVouchers \subseteq CommittedVouchers'

(* Every step extends the committed history, and its snapshot.             *)
LEMMA EngineNextHistory ==
  ASSUME HistoryInv, [EngineNext]_engineVars
  PROVE  HistoryInv' /\ HistoryGrows
<1> DEFINE Goal == /\ Unlocked' \/ /\ LedgerGrows(undo'.ledger, ledger')
                                   /\ RowsGrow(undo'.commissions, commissions')
                                   /\ undo'.vouchers \subseteq vouchers'
                   /\ HistoryGrows
<1>0. /\ EngineTypeOK /\ EngineTypeOK'
      /\ ledger \in [Agents -> Seq(Entry)] /\ commissions \in Seq(Commission)
      /\ ledger' \in [Agents -> Seq(Entry)] /\ commissions' \in Seq(Commission)
  BY EngineNextType DEF HistoryInv, EngineTypeOK, StoreTypeOK, BooksTypeOK
<1>1. /\ LedgerGrows(ledger, ledger) /\ RowsGrow(commissions, commissions)
  BY <1>0, GrowsNot
<1>2. ASSUME ~Unlocked
      PROVE  /\ undo.ledger \in [Agents -> Seq(Entry)] /\ undo.commissions \in Seq(Commission)
             /\ LedgerGrows(undo.ledger, undo.ledger)
             /\ RowsGrow(undo.commissions, undo.commissions)
             /\ LedgerGrows(undo.ledger, ledger)
             /\ RowsGrow(undo.commissions, commissions)
             /\ undo.vouchers \subseteq vouchers
  <2>1. undo.ledger \in [Agents -> Seq(Entry)] /\ undo.commissions \in Seq(Commission)
    BY <1>0, <1>2, OpenTx, TxKinds DEF StoreTypeOK, BooksTypeOK
  <2> QED
    BY <1>2, <2>1, GrowsNot DEF HistoryInv
<1> SUFFICES Goal
  BY <1>0 DEF HistoryInv
<1>8. Unlocked' <=> Unlocked => vouchers \subseteq vouchers'
  BY VouchersStay DEF Rollback, Unlocked
<1>3. CASE UNCHANGED <<accounts, ledger, commissions, undo>> /\ (Unlocked' <=> Unlocked)
  BY <1>1, <1>2, <1>3, <1>8 DEF HistoryGrows, CommittedLedger, CommittedRows, CommittedVouchers
<1>4. CASE Writes /\ UNCHANGED undo /\ (Unlocked' <=> Unlocked)
  <2>1. LedgerGrows(ledger, ledger') /\ RowsGrow(commissions, commissions')
    BY <1>0, <1>4, WritesGrow
  <2>2. CASE Unlocked
    BY <1>4, <1>8, <2>1, <2>2 DEF HistoryGrows, CommittedLedger, CommittedRows, CommittedVouchers
  <2>3. CASE ~Unlocked
    <3>1. /\ LedgerGrows(undo.ledger, ledger') /\ RowsGrow(undo.commissions, commissions')
      BY <1>0, <1>2, <2>1, <2>3, GrowsOn
    <3> QED
      BY <1>2, <1>4, <1>8, <2>3, <3>1
         DEF HistoryGrows, CommittedLedger, CommittedRows, CommittedVouchers
  <2> QED
    BY <2>2, <2>3
<1>5. ASSUME NEW t, Begin(t)
      PROVE  Goal
  BY <1>1, <1>5
     DEF Begin, storeVars, HistoryGrows, CommittedLedger, CommittedRows, CommittedVouchers
<1>6. CASE Commit
  BY <1>1, <1>2, <1>6
     DEF Commit, storeVars, Unlocked, HistoryGrows, CommittedLedger, CommittedRows,
         CommittedVouchers
<1>7. CASE ~Unlocked /\ Rollback
  BY <1>2, <1>7
     DEF Rollback, Unlocked, HistoryGrows, CommittedLedger, CommittedRows, CommittedVouchers
<1> HIDE DEF Goal
<1> QED
  BY <1>0, <1>3, <1>4, <1>5, <1>6, <1>7, StoreStep

(* What was once committed is history: no ledger entry changes or goes, no *)
(* row goes or changes its financial fields, its reversed total never      *)
(* shrinks, a final state is final and no voucher goes, for any history of *)
(* orders, refunds and failed transactions (Store.Update, ADR-004).        *)
THEOREM EngineHistoryKept == EngineSpec => HistoryKept
<1>1. EngineInit => HistoryInv
  BY EngineInitType DEF HistoryInv, EngineInit, Unlocked
<1>2. HistoryInv /\ [EngineNext]_engineVars => HistoryInv'
  BY EngineNextHistory
<1>3. HistoryInv /\ [EngineNext]_engineVars =>
        /\ \A k \in Agents :
             /\ Len(CommittedLedger[k]) <= Len(CommittedLedger'[k])
             /\ \A i \in DOMAIN CommittedLedger[k] :
                  CommittedLedger'[k][i] = CommittedLedger[k][i]
        /\ Len(CommittedRows) <= Len(CommittedRows')
        /\ \A c \in DOMAIN CommittedRows :
             SameFinancials(CommittedRows[c], CommittedRows'[c])
        /\ CommittedVouchers \subseteq CommittedVouchers'
  BY EngineNextHistory DEF HistoryGrows, LedgerGrows, RowsGrow
<1> QED
  BY <1>1, <1>2, <1>3, PTL DEF EngineSpec, HistoryKept

-----------------------------------------------------------------------------
(***************************************************************************)
(* Settlement dates.  A batch works on rows that were due when it was      *)
(* read; between the read and the row's turn neither the row's date nor    *)
(* the time of the call moves.                                             *)
(***************************************************************************)

Dated(coms, now) ==
  \A c \in DOMAIN coms :
    /\ coms[c].availableAt # Unset => coms[c].availableAt \in Nat
    /\ coms[c].state = "settled" => coms[c].availableAt \in 0 .. now

BatchDue ==
  /\ beat.now <= clock
  /\ tx.op = "settle" =>
       /\ beat.phase = "tenants"
       /\ \A c \in tx.todo :
            /\ c \in DOMAIN commissions
            /\ commissions[c].availableAt \in 0 .. beat.now

(* Rolling back moves no date: inside a transaction no date is written.    *)
SameDates(A, B) ==
  \A c \in DOMAIN A : c \in DOMAIN B /\ B[c].availableAt = A[c].availableAt

(* What a rollback would put back: rows with the dates of the live ones.   *)
Snapshot(coms, old, now) == Dated(old, now) /\ SameDates(old, coms)

DateInv ==
  /\ EngineTypeOK
  /\ Dated(commissions, clock)
  /\ BatchDue
  /\ Unlocked \/ Snapshot(commissions, undo.commissions, clock)

(* What a step may do to a row that is there before and after it.          *)
DateKept(r, s) ==
  /\ r.state # "settled" /\ s.state = "settled" => r.availableAt \in 0 .. clock
  /\ r.availableAt # Unset => s.availableAt = r.availableAt

(* A clawback moves no date and settles nothing.                           *)
LEMMA ClawBackDates ==
  ASSUME EngineTypeOK, NEW c \in DOMAIN commissions, NEW target \in Nat,
         NEW terminal \in {"reversed", "void"}, NEW biz \in {"reverse", "void"},
         ClawBack(c, target, terminal, biz)
  PROVE  /\ SameDates(commissions, commissions')
         /\ \A y \in DOMAIN commissions :
              commissions'[y].state = "settled" => commissions[y].state = "settled"
         /\ \A y \in DOMAIN commissions' \ DOMAIN commissions :
              commissions'[y].availableAt = Unset /\ commissions'[y].state # "settled"
<1>1. /\ DOMAIN commissions' = DOMAIN commissions \cup {Len(commissions) + 1}
      /\ \A y \in DOMAIN commissions \ {c} : commissions'[y] = commissions[y]
      /\ SameAccrual(commissions[c], commissions'[c])
      /\ commissions'[c].state =
           IF target >= commissions[c].amount THEN terminal ELSE commissions[c].state
      /\ commissions'[Len(commissions) + 1] = ReversalRecord(c, target)
  BY ClawBackRows
<1>2. /\ ReversalRecord(c, target).availableAt = Unset
      /\ ReversalRecord(c, target).state = "reversed"
  BY DEF ReversalRecord
<1> QED
  BY <1>1, <1>2 DEF SameDates, SameAccrual

(* What a write does to the dates.                                         *)
LEMMA WriteDates ==
  ASSUME EngineTypeOK, BatchDue, Writes
  PROVE  /\ UNCHANGED clock
         /\ DOMAIN commissions \subseteq DOMAIN commissions'
         /\ \A c \in DOMAIN commissions :
              /\ DateKept(commissions[c], commissions'[c])
              /\ \/ commissions'[c].availableAt = commissions[c].availableAt
                 \/ commissions'[c].availableAt \in Nat /\ commissions'[c].state # "settled"
         /\ ~Unlocked => SameDates(commissions, commissions')
         /\ \A c \in DOMAIN commissions' \ DOMAIN commissions :
              commissions'[c].availableAt = Unset /\ commissions'[c].state # "settled"
<1> DEFINE Goal ==
         /\ UNCHANGED clock
         /\ DOMAIN commissions \subseteq DOMAIN commissions'
         /\ \A c \in DOMAIN commissions :
              /\ DateKept(commissions[c], commissions'[c])
              /\ \/ commissions'[c].availableAt = commissions[c].availableAt
                 \/ commissions'[c].availableAt \in Nat /\ commissions'[c].state # "settled"
         /\ ~Unlocked => SameDates(commissions, commissions')
         /\ \A c \in DOMAIN commissions' \ DOMAIN commissions :
              commissions'[c].availableAt = Unset /\ commissions'[c].state # "settled"
<1>0. commissions \in Seq(Commission) /\ clock \in Nat
  BY EngineAssumption DEF EngineTypeOK, StoreTypeOK
<1>1. ASSUME UNCHANGED clock, SameDates(commissions, commissions'),
             \A y \in DOMAIN commissions : commissions'[y].state = "settled" =>
               commissions[y].state = "settled" \/ commissions[y].availableAt \in 0 .. clock,
             \A y \in DOMAIN commissions' \ DOMAIN commissions :
               commissions'[y].availableAt = Unset /\ commissions'[y].state # "settled"
      PROVE  Goal
  <2>1. ASSUME NEW c \in DOMAIN commissions
        PROVE  /\ c \in DOMAIN commissions'
               /\ DateKept(commissions[c], commissions'[c])
               /\ commissions'[c].availableAt = commissions[c].availableAt
    <3>1. c \in DOMAIN commissions' /\ commissions'[c].availableAt = commissions[c].availableAt
      BY <1>1 DEF SameDates
    <3>2. commissions'[c].state = "settled" =>
            commissions[c].state = "settled" \/ commissions[c].availableAt \in 0 .. clock
      BY <1>1
    <3> QED
      BY <3>1, <3>2, Zenon DEF DateKept
  <2>2. DOMAIN commissions \subseteq DOMAIN commissions'
    BY <2>1
  <2>3. \A c \in DOMAIN commissions :
          /\ DateKept(commissions[c], commissions'[c])
          /\ \/ commissions'[c].availableAt = commissions[c].availableAt
             \/ commissions'[c].availableAt \in Nat /\ commissions'[c].state # "settled"
    BY <2>1
  <2>4. ~Unlocked => SameDates(commissions, commissions')
    BY <1>1
  <2> QED
    BY <1>1, <2>2, <2>3, <2>4
<1>2. ASSUME NEW rate \in Rates, AccrueLayer(rate)
      PROVE  Goal
  <2> DEFINE row == NewCommission(LayerAmount(rate))
  <2>1. commissions' = Append(commissions, row) /\ UNCHANGED clock
    BY <1>2 DEF AccrueLayer
  <2>2. row.availableAt = Unset /\ row.state = "pending"
    BY DEF NewCommission
  <2> HIDE DEF row
  <2>3. /\ DOMAIN commissions' = DOMAIN commissions \cup {Len(commissions) + 1}
        /\ commissions'[Len(commissions) + 1] = row
        /\ \A c \in DOMAIN commissions : commissions'[c] = commissions[c]
    BY <1>0, <2>1
  <2> HIDE DEF Goal
  <2> QED
    BY <1>1, <2>1, <2>2, <2>3 DEF SameDates
<1>3. ASSUME NEW o \in Orders, NEW at \in ReceiptTimes, OnOrderReceived(o, at)
      PROVE  Goal
  <2>1. /\ Unlocked /\ UNCHANGED clock /\ DOMAIN commissions' = DOMAIN commissions
    BY <1>3 DEF OnOrderReceived
  <2>2. ASSUME NEW c \in DOMAIN commissions
        PROVE  /\ DateKept(commissions[c], commissions'[c])
               /\ \/ commissions'[c].availableAt = commissions[c].availableAt
                  \/ commissions'[c].availableAt \in Nat /\ commissions'[c].state # "settled"
    <3>1. /\ commissions'[c].state = commissions[c].state
          /\ commissions[c].availableAt # Unset =>
               commissions'[c].availableAt = commissions[c].availableAt
      BY <1>3, ReceivedRow
    <3>2. CASE commissions[c].order = o /\ AwaitsReceipt(commissions[c])
      <4>1. commissions[c] \in Commission /\ at \in Nat
        BY <1>0, EngineAssumption
      <4>2. commissions'[c] = [commissions[c] EXCEPT !.availableAt = at + commissions[c].freezeDays]
        BY <1>3, <3>2 DEF OnOrderReceived
      <4>3. commissions'[c].availableAt = at + commissions[c].freezeDays
        BY <4>1, <4>2 DEF Commission
      <4>4. commissions[c].freezeDays \in Nat
        BY <4>1 DEF Commission
      <4>5. commissions[c].state # "settled"
        BY <3>2 DEF AwaitsReceipt
      <4>6. commissions'[c].availableAt \in Nat /\ commissions'[c].state # "settled"
        BY <3>1, <4>1, <4>3, <4>4, <4>5
      <4>7. commissions[c].availableAt = Unset
        BY <3>2 DEF AwaitsReceipt
      <4> QED
        BY <4>5, <4>6, <4>7, Zenon DEF DateKept
    <3>3. CASE ~(commissions[c].order = o /\ AwaitsReceipt(commissions[c]))
      <4>1. commissions'[c] = commissions[c]
        BY <1>3, <3>3 DEF OnOrderReceived
      <4>2. commissions'[c].availableAt = commissions[c].availableAt
        BY <4>1
      <4> QED
        BY <3>1, <4>2, Zenon DEF DateKept
    <3> QED
      BY <3>2, <3>3
  <2> QED
    BY <2>1, <2>2
<1>4. ASSUME NEW c \in DOMAIN commissions, NEW target \in Nat, UNCHANGED clock,
             NEW terminal \in {"reversed", "void"}, NEW biz \in {"reverse", "void"},
             ClawBack(c, target, terminal, biz)
      PROVE  Goal
  BY <1>1, <1>4, ClawBackDates
<1>5. ASSUME NEW c \in DOMAIN commissions, ReverseLayer(c)
      PROVE  Goal
  <2>1. /\ tx.op = "refund" /\ NeedsReversal(c) /\ UNCHANGED clock
        /\ ClawBack(c, WantReversed(c), "reversed", "reverse")
    BY <1>5 DEF ReverseLayer, NextToReverse
  <2>2. WantReversed(c) \in Int /\ WantReversed(c) > commissions[c].reversed
        /\ commissions[c].reversed \in Nat
    BY <1>0, <2>1, TableTypes, WantReversedType DEF NeedsReversal
  <2>3. WantReversed(c) \in Nat
    BY <2>2
  <2> HIDE DEF Goal
  <2> QED
    BY <1>4, <2>1, <2>3
<1>6. ASSUME NEW c \in DOMAIN commissions, VoidCommission(c)
      PROVE  Goal
  <2>1. /\ Outstanding(commissions[c]) > 0 /\ UNCHANGED clock
        /\ ClawBack(c, commissions[c].amount, "void", "void")
    BY <1>6 DEF VoidCommission
  <2>2. commissions[c].reversed \in Nat /\ commissions[c].amount \in Int
    BY <1>0, TableTypes
  <2>3. commissions[c].amount \in Nat
    BY <2>1, <2>2 DEF Outstanding
  <2> HIDE DEF Goal
  <2> QED
    BY <1>4, <2>1, <2>3
<1>7. ASSUME NEW c \in DOMAIN commissions, NEW from, NEW to \in CommissionStates,
             Transition(c, from, to), UNCHANGED clock,
             to = "settled" => commissions[c].availableAt \in 0 .. clock
      PROVE  Goal
  <2>1. /\ DOMAIN commissions' = DOMAIN commissions
        /\ \A y \in DOMAIN commissions \ {c} : commissions'[y] = commissions[y]
        /\ SameAccrual(commissions[c], commissions'[c])
        /\ commissions'[c].state = to
    BY <1>7, TransitionRows
  <2> HIDE DEF Goal
  <2> QED
    BY <1>1, <1>7, <2>1 DEF SameDates, SameAccrual
<1>8. ASSUME NEW c \in DOMAIN commissions, SettleOne(c)
      PROVE  Goal
  <2>1. Transition(c, "pending", "settled") /\ UNCHANGED clock /\ tx.op = "settle" /\ c \in tx.todo
    BY <1>8 DEF SettleOne, NextToSettle
  <2>2. commissions[c].availableAt \in 0 .. beat.now /\ beat.now <= clock
    BY <2>1 DEF BatchDue
  <2>3. beat.now \in Nat
    BY DEF EngineTypeOK, Beat
  <2>4. commissions[c].availableAt \in 0 .. clock
    BY <1>0, <2>2, <2>3
  <2> HIDE DEF Goal
  <2> QED
    BY <1>7, <2>1, <2>4 DEF CommissionStates
<1>9. ASSUME NEW c \in DOMAIN commissions, FreezeCommission(c) \/ UnfreezeCommission(c)
      PROVE  Goal
  <2> HIDE DEF Goal
  <2> QED
    BY <1>7, <1>9 DEF FreezeCommission, UnfreezeCommission, CommissionStates
<1> HIDE DEF Goal
<1>10. Goal
  BY <1>2, <1>3, <1>5, <1>6, <1>8, <1>9 DEF Writes
<1> QED
  BY <1>10 DEF Goal

(* The batch stays due: a row leaves the batch when it is settled, and     *)
(* until then neither its date nor the time of the call moves.             *)
LEMMA BatchStep ==
  ASSUME EngineTypeOK, Dated(commissions, clock), BatchDue, [EngineNext]_engineVars
  PROVE  BatchDue' /\ clock <= clock'
<1> DEFINE Goal == BatchDue' /\ clock <= clock'
<1> SUFFICES Goal
  OBVIOUS
<1>0. /\ clock \in Nat /\ beat \in Beat /\ beat.now \in Nat /\ beat.now <= clock
      /\ Idle.op # "settle"
  BY EngineAssumption DEF EngineTypeOK, Beat, BatchDue, Idle
<1>1. ASSUME UNCHANGED clock, beat'.now \in {beat.now, 0, clock}, tx'.op # "settle"
      PROVE  Goal
  BY <1>0, <1>1 DEF BatchDue
<1>2. ASSUME UNCHANGED <<clock, beat>>, tx' = Idle \/ tx'.op # "settle"
      PROVE  Goal
  BY <1>0, <1>1, <1>2
<1>3. ASSUME NEW rate \in Rates, AccrueLayer(rate) \/ AbortAccrual(rate)
      PROVE  Goal
  <2>1. CASE AccrueLayer(rate)
    <3>1. AtLayer /\ NextLayer(LayerAmount(rate)) /\ UNCHANGED <<clock, beat>>
      BY <2>1 DEF AccrueLayer
    <3>2. tx'.op = "paid"
      BY <3>1, AtLayerType, NextLayerType
    <3> HIDE DEF Goal
    <3> QED
      BY <1>2, <3>1, <3>2
  <2>2. CASE AbortAccrual(rate)
    <3> HIDE DEF Goal
    <3> QED
      BY <1>2, <2>2 DEF AbortAccrual, Rollback
  <2> QED
    BY <1>3, <2>1, <2>2
<1>4. CASE SkipLayer
  <2>1. tx'.op = "paid" /\ UNCHANGED <<clock, beat>>
    BY <1>4, NextLayerType DEF SkipLayer
  <2> HIDE DEF Goal
  <2> QED
    BY <1>2, <2>1
<1>5. CASE NextBase
  <2>1. tx \in PaidTx /\ UNCHANGED <<clock, beat>>
    BY <1>5, TxKinds DEF NextBase
  <2>2. tx' = Idle \/ tx'.op # "settle"
    <3>1. CASE tx.item < Len(Basket[tx.order])
      <4>1. tx' = [tx EXCEPT !.item = tx.item + 1, !.layer = 1,
                             !.agent = Referrer[tx.order], !.allocated = 0]
        BY <1>5, <2>1, <3>1 DEF NextBase, PaidTx
      <4> QED
        BY <2>1, <4>1 DEF PaidTx
    <3>2. CASE ~(tx.item < Len(Basket[tx.order]))
      BY <1>5, <3>2 DEF NextBase, Commit
    <3> QED
      BY <3>1, <3>2
  <2> HIDE DEF Goal
  <2> QED
    BY <1>2, <2>1, <2>2
<1>6. ASSUME NEW i \in AllItems, RefundItem(i)
      PROVE  Goal
  <2>1. tx \in RefundTx /\ UNCHANGED <<clock, beat>>
    BY <1>6, TxKinds DEF RefundItem
  <2>2. \/ tx' = [tx EXCEPT !.items = tx.items \ {i}]
        \/ \E target :
             tx' = [tx EXCEPT !.items = tx.items \ {i}, !.item = i, !.target = target,
                              !.todo = AccrualsOf(tx.order, i)]
    BY <1>6, <2>1 DEF RefundItem, RefundTx
  <2>3. tx'.op # "settle"
    BY <2>1, <2>2 DEF RefundTx
  <2> HIDE DEF Goal
  <2> QED
    BY <1>2, <2>1, <2>3
<1>7. ASSUME NEW c \in DOMAIN commissions, ReverseLayer(c) \/ KeepLayer(c)
      PROVE  Goal
  <2>1. tx \in RefundTx /\ UNCHANGED <<clock, beat>> /\ tx' = [tx EXCEPT !.todo = @ \ {c}]
    BY <1>7, TxKinds DEF ReverseLayer, KeepLayer, NextToReverse
  <2>2. tx'.op # "settle"
    BY <2>1 DEF RefundTx
  <2> HIDE DEF Goal
  <2> QED
    BY <1>2, <2>1, <2>2
<1>8. ASSUME NEW c \in DOMAIN commissions, AbortRefund(c)
      PROVE  Goal
  <2> HIDE DEF Goal
  <2> QED
    BY <1>2, <1>8 DEF AbortRefund, Rollback
<1>9. CASE CommitRefund
  <2> HIDE DEF Goal
  <2> QED
    BY <1>2, <1>9 DEF CommitRefund, Commit
<1>10. ASSUME NEW c \in DOMAIN commissions, SettleOne(c)
       PROVE  Goal
  <2>1. /\ tx \in SettleTx /\ UNCHANGED <<clock, beat>> /\ tx.op = "settle"
        /\ tx' = [tx EXCEPT !.todo = @ \ {c}, !.count = @ + 1]
        /\ Transition(c, "pending", "settled")
    BY <1>10, TxKinds DEF SettleOne, NextToSettle
  <2>2. tx'.todo = tx.todo \ {c} /\ tx'.op = "settle"
    BY <2>1 DEF SettleTx
  <2>3. /\ DOMAIN commissions' = DOMAIN commissions
        /\ \A y \in DOMAIN commissions \ {c} : commissions'[y] = commissions[y]
    BY <2>1, TransitionRows DEF CommissionStates
  <2>4. beat.phase = "tenants"
    BY <2>1 DEF BatchDue
  <2>5. ASSUME NEW y \in tx'.todo
        PROVE  y \in DOMAIN commissions' /\ commissions'[y].availableAt \in 0 .. beat.now
    <3>1. y \in tx.todo /\ y # c
      BY <2>2
    <3>2. y \in DOMAIN commissions /\ commissions[y].availableAt \in 0 .. beat.now
      BY <2>1, <3>1 DEF BatchDue
    <3>3. commissions'[y] = commissions[y]
      BY <2>3, <3>1, <3>2
    <3> QED
      BY <2>3, <3>2, <3>3
  <2>6. beat' = beat /\ beat'.now <= clock' /\ clock' = clock
    BY <1>0, <2>1
  <2>7. \A y \in tx'.todo : y \in DOMAIN commissions' /\ commissions'[y].availableAt \in 0 .. beat'.now
    BY <2>5, <2>6
  <2>8. BatchDue'
    BY <2>4, <2>6, <2>7 DEF BatchDue
  <2> QED
    BY <1>0, <2>6, <2>8
<1>11. ASSUME NEW b, b = NoBeat \/ b = NextTenant
       PROVE  b.now \in {beat.now, 0}
  <2>1. NoBeat.now = 0
    BY DEF NoBeat
  <2>2. NextTenant.now = beat.now
    BY <1>0 DEF NextTenant, Beat
  <2> QED
    BY <1>11, <2>1, <2>2
<1>12. ASSUME NEW c \in DOMAIN commissions, AbortBatch(c)
       PROVE  Goal
  <2>1. beat' = NextTenant /\ UNCHANGED clock /\ tx' = Idle
    BY <1>12 DEF AbortBatch, Rollback
  <2> HIDE DEF Goal
  <2> QED
    BY <1>0, <1>1, <1>11, <2>1
<1>13. CASE CommitBatch
  <2>1. UNCHANGED clock /\ tx' = Idle
    BY <1>13 DEF CommitBatch, Commit
  <2>2. beat'.now \in {beat.now, 0}
    <3>1. CASE tx.count = 0
      BY <1>11, <1>13, <3>1 DEF CommitBatch
    <3>2. CASE tx.count # 0
      <4>1. beat' = [beat EXCEPT !.tenantRound = @ + 1, !.progressed = TRUE,
                       !.budget = IF @ < tx.count THEN 0 ELSE @ - tx.count]
        BY <1>13, <3>2 DEF CommitBatch
      <4> QED
        BY <1>0, <4>1 DEF Beat
    <3> QED
      BY <3>1, <3>2
  <2> HIDE DEF Goal
  <2> QED
    BY <1>0, <1>1, <2>1, <2>2
<1>14. CASE MaintainStart
  <2>1. UNCHANGED <<clock, tx>> /\ beat.phase = "idle" /\ beat'.now = clock
    BY <1>14 DEF MaintainStart, NoBeat
  <2>2. tx.op # "settle"
    BY <2>1 DEF BatchDue
  <2> HIDE DEF Goal
  <2> QED
    BY <1>1, <2>1, <2>2
<1>15. CASE MaintainScan \/ TenantRoundsSpent \/ RoundEnds
  <2>1. UNCHANGED <<clock, tx>> /\ tx = Idle
    BY <1>15 DEF MaintainScan, TenantRoundsSpent, RoundEnds, Unlocked
  <2>2. beat'.now \in {beat.now, 0}
    <3>1. CASE MaintainScan
      <4>1. \/ beat' = NoBeat
            \/ \E T : beat' = [beat EXCEPT !.phase = "tenants", !.progressed = FALSE,
                                           !.tenants = T]
        BY <3>1 DEF MaintainScan
      <4> QED
        BY <1>0, <1>11, <4>1 DEF Beat
    <3>2. CASE TenantRoundsSpent
      BY <1>11, <3>2 DEF TenantRoundsSpent
    <3>3. CASE RoundEnds
      <4>1. \/ beat' = NoBeat
            \/ beat' = [beat EXCEPT !.phase = "scan", !.round = @ + 1,
                                    !.tenants = {}, !.tenantRound = 0]
        BY <3>3 DEF RoundEnds
      <4> QED
        BY <1>0, <1>11, <4>1 DEF Beat
    <3> QED
      BY <1>15, <3>1, <3>2, <3>3
  <2> HIDE DEF Goal
  <2> QED
    BY <1>0, <1>1, <2>1, <2>2
<1>16. ASSUME NEW t \in Tenants, MaintainTenant(t)
       PROVE  Goal
  <2> DEFINE todo == {c \in DueCommissions(t, beat.now, Permits) :
                        Outstanding(commissions[c]) > 0}
  <2>1. /\ tx' = [op |-> "settle", count |-> 0, todo |-> todo]
        /\ beat.phase = "tenants" /\ UNCHANGED <<clock, beat, commissions>>
    BY <1>16 DEF MaintainTenant, Begin, storeVars
  <2>2. ASSUME NEW c \in todo
        PROVE  c \in DOMAIN commissions /\ commissions[c].availableAt \in 0 .. beat.now
    <3>1. c \in DOMAIN commissions /\ DueAt(commissions[c], beat.now)
      BY DEF DueCommissions, Earliest, Due
    <3> QED
      BY <1>0, <3>1 DEF DueAt, Dated
  <2> HIDE DEF todo
  <2>3. tx'.todo = todo
    BY <2>1
  <2> QED
    BY <1>0, <2>1, <2>2, <2>3 DEF BatchDue
<1>17. ASSUME NEW o \in Orders, OnOrderPaid(o)
       PROVE  Goal
  <2>1. UNCHANGED <<clock, beat>> /\ tx'.op = "paid"
    BY <1>17 DEF OnOrderPaid, Begin
  <2> HIDE DEF Goal
  <2> QED
    BY <1>2, <2>1
<1>18. ASSUME NEW o \in Orders, NEW key \in RefundKeys, NEW ev \in RefundEvents,
              OnOrderRefunded(o, key, ev)
       PROVE  Goal
  <2>1. UNCHANGED <<clock, beat>> /\ tx'.op = "refund"
    BY <1>18 DEF OnOrderRefunded, Begin
  <2> HIDE DEF Goal
  <2> QED
    BY <1>2, <2>1
<1>19. ASSUME NEW o \in Orders, NEW at \in ReceiptTimes, OnOrderReceived(o, at)
       PROVE  Goal
  <2>1. UNCHANGED <<clock, beat>> /\ tx' = Idle
    BY <1>19 DEF OnOrderReceived, Unlocked
  <2> HIDE DEF Goal
  <2> QED
    BY <1>2, <2>1
<1>20. ASSUME NEW c \in DOMAIN commissions,
              FreezeCommission(c) \/ UnfreezeCommission(c) \/ VoidCommission(c)
       PROVE  Goal
  <2>1. UNCHANGED <<clock, beat>> /\ tx' = Idle
    BY <1>20 DEF FreezeCommission, UnfreezeCommission, VoidCommission, Unlocked
  <2> HIDE DEF Goal
  <2> QED
    BY <1>2, <2>1
<1>21. CASE Tick
  <2>1. clock' = clock + 1 /\ UNCHANGED <<tx, beat, commissions>>
    BY <1>21 DEF Tick, storeVars
  <2> QED
    BY <1>0, <2>1 DEF BatchDue
<1>22. CASE UNCHANGED engineVars
  BY <1>0, <1>22 DEF engineVars, BatchDue
<1> HIDE DEF Goal
<1>23. CASE TxStep
  BY <1>23, <1>3, <1>4, <1>5, <1>6, <1>7, <1>8, <1>9, <1>10, <1>12, <1>13 DEF TxStep
<1>24. CASE BeatStep
  BY <1>24, <1>14, <1>15, <1>16 DEF BeatStep
<1>25. CASE Events
  BY <1>25, <1>17, <1>18, <1>19, <1>20 DEF Events
<1> QED
  BY <1>21, <1>22, <1>23, <1>24, <1>25 DEF EngineNext

(* Every step keeps the dates and the invariant.                           *)
LEMMA EngineNextDates ==
  ASSUME DateInv, [EngineNext]_engineVars
  PROVE  /\ DateInv'
         /\ \A c \in DOMAIN commissions \cap DOMAIN commissions' :
              DateKept(commissions[c], commissions'[c])
<1> DEFINE Goal == /\ Dated(commissions', clock')
                   /\ Unlocked' \/ Snapshot(commissions', undo'.commissions, clock')
                   /\ \A c \in DOMAIN commissions \cap DOMAIN commissions' :
                        DateKept(commissions[c], commissions'[c])
<1>0. EngineTypeOK /\ Dated(commissions, clock) /\ BatchDue
  BY DEF DateInv
<1>1. EngineTypeOK'
  BY <1>0, EngineNextType
<1>2. BatchDue' /\ clock <= clock'
  BY <1>0, BatchStep
<1>3. clock \in Nat /\ clock' \in Nat
  BY <1>0, <1>1, EngineAssumption DEF EngineTypeOK
<1> SUFFICES Goal
  BY <1>1, <1>2 DEF DateInv
<1>4. ASSUME NEW coms, Dated(coms, clock)
      PROVE  Dated(coms, clock')
  BY <1>2, <1>3, <1>4 DEF Dated
<1>5. Unlocked \/ Snapshot(commissions, undo.commissions, clock)
  BY DEF DateInv
<1>6. \A r : DateKept(r, r)
  BY DEF DateKept
<1>7. CASE UNCHANGED <<accounts, ledger, commissions, undo>> /\ (Unlocked' <=> Unlocked)
  BY <1>0, <1>4, <1>5, <1>6, <1>7 DEF Snapshot
<1>8. CASE Writes /\ UNCHANGED undo /\ (Unlocked' <=> Unlocked)
  <2>1. /\ UNCHANGED clock
        /\ DOMAIN commissions \subseteq DOMAIN commissions'
        /\ \A c \in DOMAIN commissions :
             /\ DateKept(commissions[c], commissions'[c])
             /\ \/ commissions'[c].availableAt = commissions[c].availableAt
                \/ commissions'[c].availableAt \in Nat /\ commissions'[c].state # "settled"
        /\ ~Unlocked => SameDates(commissions, commissions')
        /\ \A c \in DOMAIN commissions' \ DOMAIN commissions :
             commissions'[c].availableAt = Unset /\ commissions'[c].state # "settled"
    BY <1>0, <1>8, WriteDates
  <2>2. ASSUME NEW c \in DOMAIN commissions'
        PROVE  /\ commissions'[c].availableAt # Unset => commissions'[c].availableAt \in Nat
               /\ commissions'[c].state = "settled" => commissions'[c].availableAt \in 0 .. clock
    <3>1. CASE c \notin DOMAIN commissions
      BY <2>1, <3>1
    <3>2. CASE c \in DOMAIN commissions /\ commissions'[c].availableAt = commissions[c].availableAt
      <4>1. DateKept(commissions[c], commissions'[c])
        BY <2>1, <3>2
      <4>2. /\ commissions[c].availableAt # Unset => commissions[c].availableAt \in Nat
            /\ commissions[c].state = "settled" => commissions[c].availableAt \in 0 .. clock
        BY <1>0, <3>2 DEF Dated
      <4> QED
        BY <3>2, <4>1, <4>2, Zenon DEF DateKept
    <3>3. CASE /\ c \in DOMAIN commissions
               /\ commissions'[c].availableAt \in Nat /\ commissions'[c].state # "settled"
      BY <3>3
    <3> QED
      BY <2>1, <3>1, <3>2, <3>3
  <2>3. Dated(commissions', clock')
    BY <2>1, <2>2 DEF Dated
  <2>4. ASSUME ~Unlocked
        PROVE  Snapshot(commissions', undo'.commissions, clock')
    <3>1. /\ Dated(undo.commissions, clock) /\ SameDates(undo.commissions, commissions)
          /\ SameDates(commissions, commissions') /\ undo' = undo /\ clock' = clock
      BY <1>5, <1>8, <2>1, <2>4 DEF Snapshot
    <3>2. SameDates(undo.commissions, commissions')
      BY <3>1 DEF SameDates
    <3> QED
      BY <3>1, <3>2 DEF Snapshot
  <2>5. \A c \in DOMAIN commissions \cap DOMAIN commissions' :
          DateKept(commissions[c], commissions'[c])
    BY <2>1
  <2> QED
    BY <1>8, <2>3, <2>4, <2>5
<1>9. ASSUME NEW t, Begin(t)
      PROVE  Goal
  <2>1. commissions' = commissions /\ undo'.commissions = commissions
    BY <1>9 DEF Begin, storeVars
  <2>2. SameDates(commissions, commissions)
    BY DEF SameDates
  <2> QED
    BY <1>0, <1>4, <1>6, <2>1, <2>2 DEF Snapshot
<1>10. CASE Commit
  BY <1>0, <1>4, <1>6, <1>10 DEF Commit, storeVars, Unlocked
<1>11. CASE ~Unlocked /\ Rollback
  <2>1. /\ Dated(undo.commissions, clock) /\ SameDates(undo.commissions, commissions)
        /\ commissions' = undo.commissions /\ Unlocked'
    BY <1>5, <1>11 DEF Rollback, Unlocked, Snapshot
  <2>2. ASSUME NEW c \in DOMAIN commissions \cap DOMAIN commissions'
        PROVE  DateKept(commissions[c], commissions'[c])
    <3>1. commissions'[c].availableAt = commissions[c].availableAt
      BY <2>1 DEF SameDates
    <3>2. commissions'[c].state = "settled" => commissions'[c].availableAt \in 0 .. clock
      BY <2>1 DEF Dated
    <3> QED
      BY <3>1, <3>2 DEF DateKept
  <2>3. Dated(commissions', clock')
    BY <1>4, <2>1
  <2> QED
    BY <2>1, <2>2, <2>3
<1> HIDE DEF Goal
<1> QED
  BY <1>0, <1>7, <1>8, <1>9, <1>10, <1>11, StoreStep

(* At the start nothing has a date.                                        *)
LEMMA EngineInitDates == EngineInit => DateInv
BY EngineInitType DEF DateInv, EngineInit, Unlocked, Dated, BatchDue, NoBeat, Idle

(* A commission settles only once its promised date has come, and no       *)
(* replayed receipt, later freeze window or rollback moves a date that is  *)
(* fixed (OnOrderReceived, Maintain).                                      *)
THEOREM EngineSettlementDateKept == EngineSpec => SettlementDateKept
<1>1. EngineInit => DateInv
  BY EngineInitDates
<1>2. DateInv /\ [EngineNext]_engineVars => DateInv'
  BY EngineNextDates
<1>3. DateInv /\ [EngineNext]_engineVars =>
        \A c \in DOMAIN commissions \cap DOMAIN commissions' :
          /\ commissions[c].state # "settled" /\ commissions'[c].state = "settled"
               => commissions[c].availableAt \in 0 .. clock
          /\ commissions[c].availableAt # Unset
               => commissions'[c].availableAt = commissions[c].availableAt
  BY EngineNextDates DEF DateKept
<1> QED
  BY <1>1, <1>2, <1>3, PTL DEF EngineSpec, SettlementDateKept

-----------------------------------------------------------------------------
(***************************************************************************)
(* The layers of a line item                                               *)
(***************************************************************************)

ItemRows(coms, o, i) ==
  {c \in DOMAIN coms : coms[c].order = o /\ coms[c].item = i /\ coms[c].amount > 0}

Allocated(coms, o, i) == SumFunctionOnSet(Amounts(coms), ItemRows(coms, o, i))

CapOf(o, i) == ApplyRate(Basket[o][i], MaxAllocatableBP, "down")

(* Every accrual belongs to a line item of its order and carries its base. *)
Based(coms) ==
  \A c \in DOMAIN coms :
    coms[c].amount > 0 => /\ coms[c].item \in DOMAIN Basket[coms[c].order]
                          /\ coms[c].base = Basket[coms[c].order][coms[c].item]

Capped(coms) ==
  /\ Based(coms)
  /\ \A o \in Orders : \A i \in DOMAIN Basket[o] :
       ItemRows(coms, o, i) # {} => Allocated(coms, o, i) <= CapOf(o, i)

(* What the transaction of an order has allocated is what its rows say,    *)
(* and it has not come to the later items yet.                             *)
PaidSoFar ==
  tx.op = "paid" =>
    /\ tx.allocated = Allocated(commissions, tx.order, tx.item)
    /\ \A j \in Nat : j > tx.item => ItemRows(commissions, tx.order, j) = {}

CapInv ==
  /\ EngineTypeOK
  /\ Capped(commissions)
  /\ PaidSoFar
  /\ Unlocked \/ Capped(undo.commissions)

(* The rows of an item are finite and their amounts whole.                 *)
LEMMA ItemRowsType ==
  ASSUME NEW coms \in Seq(Commission), NEW o, NEW i
  PROVE  /\ IsFiniteSet(ItemRows(coms, o, i))
         /\ \A c \in ItemRows(coms, o, i) : Amounts(coms)[c] \in Int
         /\ Allocated(coms, o, i) \in Int
<1>1. IsFiniteSet(DOMAIN coms)
  BY TableTypes, FS_Interval
<1>2. IsFiniteSet(ItemRows(coms, o, i))
  BY <1>1, FS_Subset DEF ItemRows
<1>3. \A c \in ItemRows(coms, o, i) : Amounts(coms)[c] \in Int
  BY TableTypes DEF ItemRows
<1> QED
  BY <1>2, <1>3, SumIsInt DEF Allocated

(* Rows that keep their accrual, and new rows with no positive amount,     *)
(* leave what is allocated alone.                                          *)
LEMMA ItemsKept ==
  ASSUME NEW A \in Seq(Commission), NEW B \in Seq(Commission),
         DOMAIN A \subseteq DOMAIN B,
         \A y \in DOMAIN A : /\ B[y].order = A[y].order /\ B[y].item = A[y].item
                             /\ B[y].base = A[y].base /\ B[y].amount = A[y].amount,
         \A y \in DOMAIN B \ DOMAIN A : B[y].amount <= 0
  PROVE  /\ \A o, i : ItemRows(B, o, i) = ItemRows(A, o, i)
         /\ \A o, i : Allocated(B, o, i) = Allocated(A, o, i)
         /\ Capped(A) => Capped(B)
<1>0. \A y \in DOMAIN B \ DOMAIN A : ~(B[y].amount > 0)
  BY TableTypes
<1>1. ASSUME NEW o, NEW i
      PROVE  ItemRows(B, o, i) = ItemRows(A, o, i)
  BY <1>0 DEF ItemRows
<1>2. ASSUME NEW o, NEW i
      PROVE  Allocated(B, o, i) = Allocated(A, o, i)
  <2> DEFINE S == ItemRows(A, o, i)
  <2>1. IsFiniteSet(S)
    BY ItemRowsType
  <2>2. \A x \in DOMAIN A : Amounts(A)[x] = Amounts(B)[x]
    BY DEF Amounts
  <2>3. \A x \in S : Amounts(A)[x] = Amounts(B)[x]
    BY <2>2 DEF ItemRows
  <2> HIDE DEF S
  <2>4. SumFunctionOnSet(Amounts(B), S) = SumFunctionOnSet(Amounts(A), S)
    BY <2>1, <2>3, SumKept
  <2> QED
    BY <1>1, <2>4 DEF S, Allocated
<1>3. Based(A) => Based(B)
  BY <1>0 DEF Based
<1> QED
  BY <1>1, <1>2, <1>3 DEF Capped

(* A layer gets what is left of the cap at most.                           *)
LEMMA AccrueCapped ==
  ASSUME EngineTypeOK, Capped(commissions), PaidSoFar, NEW rate \in Rates, AccrueLayer(rate)
  PROVE  Capped(commissions') /\ PaidSoFar'
<1> DEFINE amount == LayerAmount(rate)
           row == NewCommission(amount)
           A == commissions
           B == commissions'
           x == Len(commissions) + 1
           o == tx.order
           i == tx.item
           allocated == tx.allocated
<1>1. /\ AtLayer /\ amount > 0 /\ NextLayer(amount)
      /\ B = Append(A, row) /\ tx.op = "paid" /\ tx.item <= Len(Basket[tx.order])
  BY DEF AccrueLayer, AtLayer
<1>2. /\ amount \in Int /\ row \in Commission /\ A \in Seq(Commission) /\ tx \in PaidTx
  BY <1>1, AtLayerType, NewCommissionType DEF EngineTypeOK, StoreTypeOK
<1>3. /\ row.order = o /\ row.item = i /\ row.amount = amount
      /\ row.base = Basket[o][i]
  BY DEF NewCommission
<1>4. o \in Orders /\ i \in Nat \ {0} /\ allocated \in Int
  BY <1>2 DEF PaidTx
<1>5. i \in DOMAIN Basket[o] /\ CapOf(o, i) \in Int
  <2>1. Basket[o] \in Seq(Nat \ {0})
    BY <1>4, EngineAssumption
  <2>2. i \in DOMAIN Basket[o]
    BY <1>1, <1>4, <2>1
  <2>3. Basket[o][i] \in Int
    <3> HIDE DEF o, i
    <3> QED
      BY <2>1, <2>2
  <2>4. MaxAllocatableBP \in Int
    BY RatesType
  <2> HIDE DEF o, i
  <2> QED
    BY <2>2, <2>3, <2>4, ApplyRateType DEF CapOf
<1>6. amount <= CapOf(o, i) - allocated
  <2>1. ApplyRate(Basket[o][i], rate, Rounding) \in Int
    <3>1. Basket[o][i] \in Nat
      BY <1>1, AtLayerType
    <3>2. rate \in Int
      BY RatesType
    <3> HIDE DEF o, i
    <3> QED
      BY <3>1, <3>2, ApplyRateType
  <2> QED
    BY <1>4, <1>5, <2>1 DEF LayerAmount, CapOf
<1>7. /\ allocated = Allocated(A, o, i)
      /\ \A j \in Nat : j > i => ItemRows(A, o, j) = {}
  BY <1>1 DEF PaidSoFar
<1>8. /\ tx'.order = o /\ tx'.item = i /\ tx'.allocated = allocated + amount
  BY <1>1, <1>2 DEF NextLayer, PaidTx
<1>9. /\ B \in Seq(Commission) /\ DOMAIN B = DOMAIN A \cup {x}
      /\ x \notin DOMAIN A /\ B[x] = row
      /\ \A y \in DOMAIN A : B[y] = A[y]
  <2> HIDE DEF row
  <2> QED
    BY <1>1, <1>2
<1> HIDE DEF amount, row, A, B, x, o, i, allocated
<1>10. ASSUME NEW oo, NEW ii
       PROVE  ItemRows(B, oo, ii) =
                IF oo = o /\ ii = i THEN ItemRows(A, oo, ii) \cup {x} ELSE ItemRows(A, oo, ii)
  BY <1>1, <1>3, <1>9 DEF ItemRows
<1>11. ASSUME NEW oo, NEW ii
       PROVE  Allocated(B, oo, ii) =
                Allocated(A, oo, ii) + (IF oo = o /\ ii = i THEN amount ELSE 0)
  <2> DEFINE S == ItemRows(A, oo, ii)
             T == ItemRows(B, oo, ii)
             f == Amounts(A)
             g == Amounts(B)
  <2>1. /\ IsFiniteSet(S) /\ SumFunctionOnSet(f, S) \in Int
        /\ \A y \in S : f[y] \in Int
        /\ \A y \in T : g[y] \in Int
    BY <1>2, <1>9, ItemRowsType DEF A, Allocated
  <2>2. /\ x \notin S /\ S \ {x} = T \ {x}
        /\ x \in T <=> (oo = o /\ ii = i)
    <3>1. x \notin S
      BY <1>9 DEF ItemRows
    <3> HIDE DEF S
    <3>2. T = IF oo = o /\ ii = i THEN S \cup {x} ELSE S
      BY <1>10 DEF S
    <3> HIDE DEF T
    <3> QED
      BY <3>1, <3>2
  <2>3. /\ \A y \in S \ {x} : f[y] = g[y]
        /\ g[x] = amount
    BY <1>3, <1>9 DEF ItemRows, Amounts
  <2> HIDE DEF S, T, f, g
  <2>4. SumFunctionOnSet(g, T) = SumFunctionOnSet(f, S) - (IF x \in S THEN f[x] ELSE 0)
                                                        + (IF x \in T THEN g[x] ELSE 0)
    BY <2>1, <2>2, <2>3, SumStep
  <2>5. SumFunctionOnSet(g, T) = SumFunctionOnSet(f, S) + (IF x \in T THEN g[x] ELSE 0)
    BY <1>2, <2>1, <2>2, <2>3, <2>4
  <2> QED
    BY <2>2, <2>3, <2>5 DEF S, T, f, g, Allocated
<1>12. Based(B)
  BY <1>3, <1>5, <1>9 DEF Based, Capped, A
<1>13. ASSUME NEW oo \in Orders, NEW ii \in DOMAIN Basket[oo], ItemRows(B, oo, ii) # {}
       PROVE  Allocated(B, oo, ii) <= CapOf(oo, ii)
  <2>1. CASE oo = o /\ ii = i
    BY <1>2, <1>4, <1>5, <1>6, <1>7, <1>11, <2>1
  <2>2. CASE ~(oo = o /\ ii = i)
    <3>1. ItemRows(A, oo, ii) # {} /\ Allocated(B, oo, ii) = Allocated(A, oo, ii) + 0
      BY <1>10, <1>11, <1>13, <2>2
    <3>2. Allocated(A, oo, ii) <= CapOf(oo, ii) /\ Allocated(A, oo, ii) \in Int
      BY <1>2, <3>1, ItemRowsType DEF Capped, A
    <3> QED
      BY <3>1, <3>2
  <2> QED
    BY <2>1, <2>2
<1>14. PaidSoFar'
  <2>1. tx'.allocated = Allocated(B, o, i)
    BY <1>7, <1>8, <1>11
  <2>2. \A j \in Nat : j > i => ItemRows(B, o, j) = {}
    BY <1>4, <1>7, <1>10
  <2> QED
    BY <1>8, <2>1, <2>2 DEF PaidSoFar, B, ItemRows, Allocated, Amounts
<1> QED
  BY <1>12, <1>13, <1>14 DEF Capped, B

(* No other write touches an accrual's item, base or amount.               *)
LEMMA OtherWriteRows ==
  ASSUME EngineTypeOK, Writes, ~ \E rate \in Rates : AccrueLayer(rate)
  PROVE  /\ DOMAIN commissions \subseteq DOMAIN commissions'
         /\ \A y \in DOMAIN commissions :
              /\ commissions'[y].order = commissions[y].order
              /\ commissions'[y].item = commissions[y].item
              /\ commissions'[y].base = commissions[y].base
              /\ commissions'[y].amount = commissions[y].amount
         /\ \A y \in DOMAIN commissions' \ DOMAIN commissions : commissions'[y].amount <= 0
<1> DEFINE Goal ==
         /\ DOMAIN commissions \subseteq DOMAIN commissions'
         /\ \A y \in DOMAIN commissions :
              /\ commissions'[y].order = commissions[y].order
              /\ commissions'[y].item = commissions[y].item
              /\ commissions'[y].base = commissions[y].base
              /\ commissions'[y].amount = commissions[y].amount
         /\ \A y \in DOMAIN commissions' \ DOMAIN commissions : commissions'[y].amount <= 0
<1> SUFFICES Goal
  OBVIOUS
<1>0. commissions \in Seq(Commission)
  BY DEF EngineTypeOK, StoreTypeOK
<1>1. ASSUME NEW o \in Orders, NEW at \in ReceiptTimes, OnOrderReceived(o, at)
      PROVE  Goal
  <2>1. DOMAIN commissions' = DOMAIN commissions
    BY <1>1 DEF OnOrderReceived
  <2> QED
    BY <1>1, <2>1, ReceivedRow
<1>2. ASSUME NEW c \in DOMAIN commissions, NEW from, NEW to \in CommissionStates,
             Transition(c, from, to)
      PROVE  Goal
  <2>1. /\ DOMAIN commissions' = DOMAIN commissions
        /\ \A y \in DOMAIN commissions \ {c} : commissions'[y] = commissions[y]
        /\ SameAccrual(commissions[c], commissions'[c])
    BY <1>2, TransitionRows
  <2> QED
    BY <2>1 DEF SameAccrual
<1>3. ASSUME NEW c \in DOMAIN commissions, NEW target \in Nat,
             NEW terminal \in {"reversed", "void"}, NEW biz \in {"reverse", "void"},
             commissions[c].reversed < target, ClawBack(c, target, terminal, biz)
      PROVE  Goal
  <2>1. /\ DOMAIN commissions' = DOMAIN commissions \cup {Len(commissions) + 1}
        /\ \A y \in DOMAIN commissions \ {c} : commissions'[y] = commissions[y]
        /\ SameAccrual(commissions[c], commissions'[c])
        /\ commissions'[Len(commissions) + 1] = ReversalRecord(c, target)
    BY <1>3, ClawBackRows
  <2>2. ReversalRecord(c, target).amount <= 0
    <3>1. ReversalRecord(c, target).amount = commissions[c].reversed - target
      BY DEF ReversalRecord
    <3>2. commissions[c].reversed \in Nat
      BY <1>0, TableTypes
    <3> QED
      BY <1>3, <3>1, <3>2
  <2> QED
    BY <2>1, <2>2 DEF SameAccrual
<1> HIDE DEF Goal
<1>4. ASSUME NEW c \in DOMAIN commissions, ReverseLayer(c)
      PROVE  Goal
  <2>1. /\ tx.op = "refund" /\ NeedsReversal(c)
        /\ ClawBack(c, WantReversed(c), "reversed", "reverse")
    BY <1>4 DEF ReverseLayer, NextToReverse
  <2>2. WantReversed(c) \in Int /\ WantReversed(c) > commissions[c].reversed
        /\ commissions[c].reversed \in Nat
    BY <1>0, <2>1, TableTypes, WantReversedType DEF NeedsReversal
  <2>3. WantReversed(c) \in Nat /\ commissions[c].reversed < WantReversed(c)
    BY <2>2
  <2> QED
    BY <1>3, <2>1, <2>3
<1>5. ASSUME NEW c \in DOMAIN commissions, VoidCommission(c)
      PROVE  Goal
  <2>1. /\ Outstanding(commissions[c]) > 0
        /\ ClawBack(c, commissions[c].amount, "void", "void")
    BY <1>5 DEF VoidCommission
  <2>2. commissions[c].reversed \in Nat /\ commissions[c].amount \in Int
    BY <1>0, TableTypes
  <2>3. commissions[c].amount \in Nat /\ commissions[c].reversed < commissions[c].amount
    BY <2>1, <2>2 DEF Outstanding
  <2> QED
    BY <1>3, <2>1, <2>3
<1>6. ASSUME NEW c \in DOMAIN commissions,
             SettleOne(c) \/ FreezeCommission(c) \/ UnfreezeCommission(c)
      PROVE  Goal
  BY <1>2, <1>6 DEF SettleOne, FreezeCommission, UnfreezeCommission, CommissionStates
<1> QED
  BY <1>1, <1>4, <1>5, <1>6 DEF Writes

(* How the transaction of an order comes to its next layer or item.        *)
LEMMA PaidStep ==
  ASSUME EngineTypeOK, [EngineNext]_engineVars
  PROVE  \/ UNCHANGED <<tx, commissions>>
         \/ tx'.op # "paid"
         \/ \E rate \in Rates : AccrueLayer(rate)
         \/ SkipLayer
         \/ NextBase
         \/ \E o \in Orders : OnOrderPaid(o)
<1> DEFINE Goal == \/ UNCHANGED <<tx, commissions>>
                   \/ tx'.op # "paid"
                   \/ \E rate \in Rates : AccrueLayer(rate)
                   \/ SkipLayer
                   \/ NextBase
                   \/ \E o \in Orders : OnOrderPaid(o)
<1> SUFFICES Goal
  OBVIOUS
<1>0. Idle.op # "paid"
  BY DEF Idle
<1>1. ASSUME tx' = Idle \/ tx'.op # "paid"
      PROVE  Goal
  BY <1>0, <1>1
<1>2. ASSUME UNCHANGED <<tx, commissions>>
      PROVE  Goal
  BY <1>2
<1>3. ASSUME \/ \E rate \in Rates : AccrueLayer(rate)
             \/ SkipLayer
             \/ NextBase
             \/ \E o \in Orders : OnOrderPaid(o)
      PROVE  Goal
  BY <1>3
<1> HIDE DEF Goal
<1>4. ASSUME NEW rate \in Rates, AbortAccrual(rate)
      PROVE  Goal
  BY <1>1, <1>4 DEF AbortAccrual, Rollback
<1>5. ASSUME NEW i \in AllItems, RefundItem(i)
      PROVE  Goal
  <2>1. tx \in RefundTx
    BY <1>5, TxKinds DEF RefundItem
  <2>2. \/ tx' = [tx EXCEPT !.items = tx.items \ {i}]
        \/ \E target :
             tx' = [tx EXCEPT !.items = tx.items \ {i}, !.item = i, !.target = target,
                              !.todo = AccrualsOf(tx.order, i)]
    BY <1>5, <2>1 DEF RefundItem, RefundTx
  <2>3. tx'.op # "paid"
    BY <2>1, <2>2 DEF RefundTx
  <2> QED
    BY <1>1, <2>3
<1>6. ASSUME NEW c \in DOMAIN commissions, ReverseLayer(c) \/ KeepLayer(c)
      PROVE  Goal
  <2>1. tx \in RefundTx /\ tx' = [tx EXCEPT !.todo = @ \ {c}]
    BY <1>6, TxKinds DEF ReverseLayer, KeepLayer, NextToReverse
  <2>2. tx'.op # "paid"
    BY <2>1 DEF RefundTx
  <2> QED
    BY <1>1, <2>2
<1>7. ASSUME NEW c \in DOMAIN commissions, SettleOne(c)
      PROVE  Goal
  <2>1. tx \in SettleTx /\ tx' = [tx EXCEPT !.todo = @ \ {c}, !.count = @ + 1]
    BY <1>7, TxKinds DEF SettleOne, NextToSettle
  <2>2. tx'.op # "paid"
    BY <2>1 DEF SettleTx
  <2> QED
    BY <1>1, <2>2
<1>8. ASSUME NEW c \in DOMAIN commissions, AbortRefund(c) \/ AbortBatch(c)
      PROVE  Goal
  BY <1>1, <1>8 DEF AbortRefund, AbortBatch, Rollback
<1>9. CASE CommitRefund \/ CommitBatch
  BY <1>1, <1>9 DEF CommitRefund, CommitBatch, Commit
<1>10. CASE MaintainStart \/ MaintainScan \/ TenantRoundsSpent \/ RoundEnds \/ Tick
  BY <1>2, <1>10 DEF MaintainStart, MaintainScan, TenantRoundsSpent, RoundEnds, Tick, storeVars
<1>11. ASSUME NEW t \in Tenants, MaintainTenant(t)
       PROVE  Goal
  <2>1. tx'.op = "settle"
    BY <1>11 DEF MaintainTenant, Begin
  <2> QED
    BY <1>1, <2>1
<1>12. ASSUME NEW o \in Orders, NEW key \in RefundKeys, NEW ev \in RefundEvents,
              OnOrderRefunded(o, key, ev)
       PROVE  Goal
  <2>1. tx'.op = "refund"
    BY <1>12 DEF OnOrderRefunded, Begin
  <2> QED
    BY <1>1, <2>1
<1>13. ASSUME NEW o \in Orders, NEW at \in ReceiptTimes, OnOrderReceived(o, at)
       PROVE  Goal
  BY <1>1, <1>13 DEF OnOrderReceived, Unlocked
<1>14. ASSUME NEW c \in DOMAIN commissions,
              FreezeCommission(c) \/ UnfreezeCommission(c) \/ VoidCommission(c)
       PROVE  Goal
  BY <1>1, <1>14 DEF FreezeCommission, UnfreezeCommission, VoidCommission, Unlocked
<1>15. CASE UNCHANGED engineVars
  BY <1>2, <1>15 DEF engineVars
<1>16. CASE TxStep
  BY <1>16, <1>3, <1>4, <1>5, <1>6, <1>7, <1>8, <1>9 DEF TxStep
<1>17. CASE BeatStep
  BY <1>17, <1>10, <1>11 DEF BeatStep
<1>18. CASE Events
  BY <1>18, <1>3, <1>12, <1>13, <1>14 DEF Events
<1> QED
  BY <1>10, <1>15, <1>16, <1>17, <1>18 DEF EngineNext

(* What the transaction has allocated stays what its rows say.             *)
LEMMA PaidSoFarStep ==
  ASSUME EngineTypeOK, Capped(commissions), PaidSoFar, [EngineNext]_engineVars
  PROVE  PaidSoFar'
<1>1. CASE UNCHANGED <<tx, commissions>>
  BY <1>1 DEF PaidSoFar, ItemRows, Allocated, Amounts
<1>2. CASE tx'.op # "paid"
  BY <1>2 DEF PaidSoFar
<1>3. ASSUME NEW rate \in Rates, AccrueLayer(rate)
      PROVE  PaidSoFar'
  BY <1>3, AccrueCapped
<1>4. ASSUME SkipLayer
      PROVE  PaidSoFar'
  <2>1. tx \in PaidTx /\ NextLayer(0) /\ commissions' = commissions /\ tx.op = "paid"
    BY <1>4, AtLayerType DEF SkipLayer, storeVars, AtLayer
  <2>2. tx'.order = tx.order /\ tx'.item = tx.item /\ tx'.allocated = tx.allocated
    BY <2>1 DEF NextLayer, PaidTx
  <2> QED
    BY <2>1, <2>2 DEF PaidSoFar, ItemRows, Allocated, Amounts
<1>5. ASSUME NextBase
      PROVE  PaidSoFar'
  <2>1. tx \in PaidTx /\ tx.op = "paid"
    BY <1>5, TxKinds DEF NextBase
  <2>2. CASE tx.item < Len(Basket[tx.order])
    <3>1. /\ tx' = [tx EXCEPT !.item = tx.item + 1, !.layer = 1,
                              !.agent = Referrer[tx.order], !.allocated = 0]
          /\ commissions' = commissions
      BY <1>5, <2>1, <2>2 DEF NextBase, PaidTx, storeVars
    <3>2. /\ tx'.order = tx.order /\ tx'.item = tx.item + 1 /\ tx'.allocated = 0
          /\ tx.item \in Nat
      BY <2>1, <3>1 DEF PaidTx
    <3>3. \A j \in Nat : j > tx.item => ItemRows(commissions, tx.order, j) = {}
      BY <2>1 DEF PaidSoFar
    <3>4. Allocated(commissions, tx.order, tx.item + 1) = 0
      <4>1. ItemRows(commissions, tx.order, tx.item + 1) = {}
        BY <3>2, <3>3
      <4> QED
        BY <4>1, SumOfNone DEF Allocated
    <3>5. \A j \in Nat : j > tx'.item => ItemRows(commissions, tx.order, j) = {}
      BY <3>2, <3>3
    <3> QED
      BY <3>1, <3>2, <3>4, <3>5 DEF PaidSoFar, ItemRows, Allocated, Amounts
  <2>3. CASE ~(tx.item < Len(Basket[tx.order]))
    <3>1. tx' = Idle
      BY <1>5, <2>3 DEF NextBase, Commit
    <3> QED
      BY <3>1 DEF PaidSoFar, Idle
  <2> QED
    BY <2>2, <2>3
<1>6. ASSUME NEW o \in Orders, OnOrderPaid(o)
      PROVE  PaidSoFar'
  <2>1. /\ tx'.order = o /\ tx'.item = 1 /\ tx'.allocated = 0
        /\ commissions' = commissions
        /\ \A c \in DOMAIN commissions : commissions[c].order # o
    BY <1>6 DEF OnOrderPaid, Begin, storeVars
  <2>2. \A j : ItemRows(commissions, o, j) = {}
    BY <2>1 DEF ItemRows
  <2>3. Allocated(commissions, o, 1) = 0
    BY <2>2, SumOfNone DEF Allocated
  <2> QED
    BY <2>1, <2>2, <2>3 DEF PaidSoFar, ItemRows, Allocated, Amounts
<1> QED
  BY <1>1, <1>2, <1>3, <1>4, <1>5, <1>6, PaidStep

(* A write keeps every item below its cap.                                 *)
LEMMA WritesCapped ==
  ASSUME EngineTypeOK, Capped(commissions), PaidSoFar, Writes, EngineTypeOK'
  PROVE  Capped(commissions')
<1>1. CASE \E rate \in Rates : AccrueLayer(rate)
  BY <1>1, AccrueCapped
<1>2. CASE ~ \E rate \in Rates : AccrueLayer(rate)
  <2>1. commissions \in Seq(Commission) /\ commissions' \in Seq(Commission)
    BY DEF EngineTypeOK, StoreTypeOK
  <2> QED
    BY <1>2, <2>1, OtherWriteRows, ItemsKept
<1> QED
  BY <1>1, <1>2

(* Every step of the engine keeps the caps, and those of the snapshot.     *)
LEMMA EngineNextCapped ==
  ASSUME CapInv, [EngineNext]_engineVars
  PROVE  CapInv'
<1>1. EngineTypeOK /\ Capped(commissions) /\ PaidSoFar /\ (Unlocked \/ Capped(undo.commissions))
  BY DEF CapInv
<1>2. EngineTypeOK'
  BY <1>1, EngineNextType
<1>3. PaidSoFar'
  BY <1>1, PaidSoFarStep
<1> DEFINE Goal == Capped(commissions') /\ (Unlocked' \/ Capped(undo'.commissions))
<1>4. ASSUME UNCHANGED <<accounts, ledger, commissions, undo>>, Unlocked' <=> Unlocked
      PROVE  Goal
  BY <1>1, <1>4
<1>5. ASSUME Writes, UNCHANGED undo, Unlocked' <=> Unlocked
      PROVE  Goal
  <2>1. Capped(commissions')
    BY <1>1, <1>2, <1>5, WritesCapped
  <2> QED
    BY <1>1, <1>5, <2>1
<1>6. ASSUME NEW t, Begin(t)
      PROVE  Goal
  BY <1>1, <1>6 DEF Begin, storeVars
<1>7. ASSUME Commit
      PROVE  Goal
  BY <1>1, <1>7 DEF Commit, storeVars, Unlocked
<1>8. ASSUME ~Unlocked, Rollback
      PROVE  Goal
  BY <1>1, <1>8 DEF Rollback, Unlocked
<1> HIDE DEF Goal
<1>9. Goal
  BY <1>1, <1>4, <1>5, <1>6, <1>7, <1>8, StoreStep
<1> QED
  BY <1>2, <1>3, <1>9 DEF Goal, CapInv, Capped, Based, ItemRows, Allocated, Amounts

(* The caps are what SelfCheck I2 asks for.                                *)
LEMMA CappedMeans ==
  ASSUME EngineTypeOK, Capped(commissions)
  PROVE  AllocationCapped
<1> SUFFICES ASSUME NEW o \in Orders, NEW i \in AccrualItems(o)
             PROVE  SumFunctionOnSet([c \in DOMAIN commissions |-> commissions[c].amount],
                                     AccrualsOf(o, i))
                      <= ApplyRate(BaseOf(o, i), MaxAllocatableBP, "down")
  BY DEF AllocationCapped
<1>1. AccrualsOf(o, i) = ItemRows(commissions, o, i)
  BY DEF AccrualsOf, Accruals, ItemRows
<1>2. ItemRows(commissions, o, i) # {}
  BY DEF AccrualItems, Accruals, ItemRows
<1>3. \A c \in ItemRows(commissions, o, i) :
        i \in DOMAIN Basket[o] /\ commissions[c].base = Basket[o][i]
  BY DEF Capped, Based, ItemRows
<1>4. i \in DOMAIN Basket[o] /\ BaseOf(o, i) = Basket[o][i]
  BY <1>1, <1>2, <1>3 DEF BaseOf
<1>5. Allocated(commissions, o, i) <= CapOf(o, i)
  BY <1>2, <1>4 DEF Capped
<1> QED
  BY <1>1, <1>4, <1>5 DEF Allocated, CapOf, Amounts

(* An empty store allocates nothing.                                       *)
LEMMA EngineInitCapped == EngineInit => CapInv
<1> SUFFICES ASSUME EngineInit PROVE CapInv
  OBVIOUS
<1>1. commissions = << >> /\ tx = Idle
  BY DEF EngineInit
<1>2. Capped(commissions)
  BY <1>1 DEF Capped, Based, ItemRows
<1>3. PaidSoFar
  BY <1>1 DEF PaidSoFar, Idle
<1> QED
  BY <1>1, <1>2, <1>3, EngineInitType DEF CapInv, Unlocked

(* Whatever rates the source answers, for any basket, chain and history,   *)
(* the layers of one line item never get more than the cap (accrueBase).   *)
THEOREM EngineAllocationCapped == EngineSpec => []AllocationCapped
<1>1. EngineInit => CapInv
  BY EngineInitCapped
<1>2. CapInv /\ [EngineNext]_engineVars => CapInv'
  BY EngineNextCapped
<1>3. CapInv => AllocationCapped
  BY CappedMeans DEF CapInv
<1> QED
  BY <1>1, <1>2, <1>3, PTL DEF EngineSpec

-----------------------------------------------------------------------------
(***************************************************************************)
(* Spreading a refund over the line items                                  *)
(***************************************************************************)

(* Rounding down of natural numbers is the floor of the quotient.          *)
LEMMA FloorBound ==
  ASSUME NEW a \in Nat, NEW b \in Nat, NEW d \in Nat \ {0}
  PROVE  /\ MulDiv(a, b, d, "down") = (a * b) \div d
         /\ MulDiv(a, b, d, "down") \in Nat
         /\ d * MulDiv(a, b, d, "down") <= a * b
         /\ a * b < d * MulDiv(a, b, d, "down") + d
<1> DEFINE n == a * b
           q == n \div d
<1>1. n \in Nat
  OBVIOUS
<1>2. MulDiv(a, b, d, "down") = q
  BY DEF MulDiv, MulDivAbs, Abs, RoundsUp
<1> HIDE DEF n
<1>3. q \in Nat /\ d * q <= n /\ n < d * q + d
  BY <1>1
<1> QED
  BY <1>2, <1>3 DEF n

(* The items of an order are some of its line items, and carry its bases.  *)
LEMMA OrderItems ==
  ASSUME EngineTypeOK, Based(commissions), NEW o \in Orders
  PROVE  /\ AccrualItems(o) \subseteq DOMAIN Basket[o]
         /\ AccrualItems(o) \subseteq AllItems /\ AccrualItems(o) \subseteq Nat
         /\ IsFiniteSet(AccrualItems(o))
         /\ \A i \in AccrualItems(o) : BaseOf(o, i) = Basket[o][i] /\ BaseOf(o, i) \in Nat \ {0}
         /\ \A i \in AccrualItems(o) : \A c \in AccrualsOf(o, i) :
              commissions[c].base = BaseOf(o, i)
<1>1. commissions \in Seq(Commission) /\ Basket[o] \in Seq(Nat \ {0})
  BY EngineAssumption DEF EngineTypeOK, StoreTypeOK
<1>2. AccrualItems(o) \subseteq DOMAIN Basket[o]
  BY DEF Based, AccrualItems, Accruals
<1>3. IsFiniteSet(AccrualItems(o))
  <2>1. IsFiniteSet(DOMAIN Basket[o])
    <3>1. DOMAIN Basket[o] = 1 .. Len(Basket[o]) /\ Len(Basket[o]) \in Nat
      BY <1>1
    <3> QED
      <4> DEFINE n == Len(Basket[o])
      <4> HIDE DEF n
      <4>1. n \in Int /\ DOMAIN Basket[o] = 1 .. n
        BY <3>1 DEF n
      <4>2. IsFiniteSet(1 .. n)
        BY <4>1, FS_Interval
      <4> QED
        BY <4>1, <4>2
  <2> QED
    BY <1>2, <2>1, FS_Subset
<1>4. AccrualItems(o) \subseteq Nat /\ \A i \in AccrualItems(o) : AccrualsOf(o, i) # {}
  BY <1>1, AccrualsType
<1>5. \A i : \A c \in AccrualsOf(o, i) : commissions[c].base = Basket[o][i]
  BY DEF Based, AccrualsOf, Accruals
<1>6. \A i \in AccrualItems(o) : BaseOf(o, i) = Basket[o][i]
  BY <1>4, <1>5 DEF BaseOf
<1>7. \A i \in AccrualItems(o) : Basket[o][i] \in Nat \ {0}
  BY <1>1, <1>2
<1>8. AccrualItems(o) \subseteq AllItems
  BY <1>2 DEF AllItems
<1> QED
  BY <1>2, <1>3, <1>4, <1>5, <1>6, <1>7, <1>8

(* What the items before the last one take of an amount is not more than   *)
(* the amount, although each part is rounded on its own.                   *)
LEMMA PortionsFit ==
  ASSUME EngineTypeOK, Based(commissions), NEW o \in Orders, Accruals(o) # {},
         NEW amount \in Nat \ {0}
  PROVE  /\ LastItem(o) \in AccrualItems(o)
         /\ \A i \in AccrualItems(o) :
              Portion(o, i, amount) \in Nat /\ Portion(o, i, amount) <= BaseOf(o, i)
         /\ Remainder(o, amount) \in Nat
         /\ Remainder(o, amount) =
              amount - SumFunctionOnSet([i \in AccrualItems(o) |-> Portion(o, i, amount)],
                                        AccrualItems(o) \ {LastItem(o)})
<1> DEFINE I == AccrualItems(o)
           last == LastItem(o)
           base == [i \in I |-> BaseOf(o, i)]
           part == [i \in I |-> Portion(o, i, amount)]
           B == OrderBase(o)
           R == I \ {last}
           U == SumFunctionOnSet(part, R)
           V == SumFunctionOnSet(base, R)
<1>1. /\ I \subseteq Nat /\ IsFiniteSet(I) /\ I # {}
      /\ \A i \in I : base[i] \in Nat \ {0}
  BY OrderItems, SMTT(30) DEF AccrualItems
<1>2. last \in I
  <2>1. I \subseteq Int
    BY <1>1
  <2> HIDE DEF I
  <2>2. Max(I) \in I
    BY <1>1, <2>1, MaxIn
  <2> QED
    BY <2>2 DEF LastItem, I
<1> HIDE DEF last
<1>3. IsFiniteSet(R)
  BY <1>1, FS_RemoveElement
<1>4. B = base[last] + V /\ V \in Int
  <2>1. SumFunctionOnSet(base, I) = base[last] + SumFunctionOnSet(base, I \ {last})
    <3>1. \A i \in I : base[i] \in Int
      BY <1>1
    <3> HIDE DEF base, I
    <3> QED
      BY <1>1, <1>2, <3>1, SumRemove, ZenonT(60) DEF Sum
  <2>2. V \in Int
    <3>1. \A i \in R : base[i] \in Int
      BY <1>1
    <3> HIDE DEF base, R
    <3> QED
      BY <1>3, <3>1, SumIsInt
  <2> QED
    BY <2>1, <2>2 DEF OrderBase
<1>5. V >= 0
  <2> DEFINE zero == [i \in R |-> 0]
  <2>1. \A i \in R : zero[i] \in Int /\ base[i] \in Int /\ 1 * zero[i] <= 1 * base[i]
    BY <1>1
  <2>2. 1 * SumFunctionOnSet(zero, R) <= 1 * V
    <3> HIDE DEF zero, base, R
    <3> QED
      BY <1>3, <2>1, SumScaled
  <2>3. 0 * SumFunctionOnSet(base, R) <= 1 * SumFunctionOnSet(zero, R)
    <3>1. \A i \in R : base[i] \in Int /\ zero[i] \in Int /\ 0 * base[i] <= 1 * zero[i]
      BY <1>1
    <3> HIDE DEF zero, base, R
    <3> QED
      BY <1>3, <3>1, SumScaled
  <2>4. SumFunctionOnSet(zero, R) \in Int
    <3>1. \A i \in R : zero[i] \in Int
      OBVIOUS
    <3> HIDE DEF zero, R
    <3> QED
      BY <1>3, <3>1, SumIsInt
  <2> HIDE DEF zero, base, R
  <2> QED
    BY <1>4, <2>2, <2>3, <2>4
<1>6. B \in Nat \ {0} /\ V <= B
  <2>1. base[last] \in Nat \ {0}
    BY <1>1, <1>2
  <2> HIDE DEF B, V, base
  <2> QED
    BY <1>4, <1>5, <2>1
<1>7. ASSUME NEW i \in I
      PROVE  part[i] \in Nat /\ part[i] <= base[i] /\ B * part[i] <= amount * base[i]
  <2> DEFINE x == MulDiv(amount, base[i], B, "down")
             b == base[i]
  <2>0. b \in Nat \ {0}
    BY <1>1, <1>7
  <2>1. x \in Nat /\ B * x <= amount * b
    <3> HIDE DEF B, b
    <3> QED
      BY <1>6, <2>0, FloorBound DEF b
  <2>2. part[i] = ClampShare(x, b)
    BY <1>7 DEF Portion
  <2> HIDE DEF x, b, part, B
  <2>3. part[i] \in Nat /\ part[i] <= b /\ part[i] <= x
    BY <2>0, <2>1, <2>2 DEF ClampShare
  <2>4. B * part[i] <= B * x
    BY <1>6, <2>1, <2>3
  <2>5. B * part[i] \in Int /\ B * x \in Int /\ amount * b \in Int
    BY <1>6, <2>0, <2>1, <2>3
  <2> QED
    BY <2>1, <2>3, <2>4, <2>5 DEF b
<1>8. B * U <= amount * V /\ U \in Int
  <2>1. \A i \in R : /\ part[i] \in Int /\ base[i] \in Int
                     /\ B * part[i] <= amount * base[i]
    <3> HIDE DEF part, base, B
    <3> QED
      BY <1>1, <1>7
  <2>2. amount \in Int /\ B \in Int
    BY <1>6
  <2> HIDE DEF part, base, B, R
  <2> QED
    BY <1>3, <2>1, <2>2, SumScaled, SumIsInt
<1>9. U <= amount
  <2> HIDE DEF U, V, B
  <2>1. amount * V <= amount * B
    BY <1>4, <1>6
  <2>2. B * U \in Int /\ amount * V \in Int /\ amount * B \in Int
    BY <1>4, <1>6, <1>8
  <2>3. B * U <= B * amount
    BY <1>6, <1>8, <2>1, <2>2
  <2>4. ASSUME U > amount PROVE FALSE
    <3>1. B * U > B * amount
      BY <1>6, <1>8, <2>4
    <3> QED
      BY <1>6, <2>2, <2>3, <3>1
  <2> QED
    BY <1>8, <2>4
<1>10. Remainder(o, amount) = amount - U
  BY DEF Remainder, last
<1>11. Remainder(o, amount) \in Nat
  <2> HIDE DEF U
  <2> QED
    BY <1>8, <1>9, <1>10
<1> QED
  BY <1>2, <1>7, <1>10, <1>11 DEF last

(* A refund spread over an order's items is never more than was refunded.  *)
LEMMA SharesFit ==
  ASSUME EngineTypeOK, Based(commissions)
  PROVE  RefundNotExceeded
<1> SUFFICES ASSUME NEW o \in Orders, NEW ev \in RefundEvents,
                    ev.kind = "amount", Accruals(o) # {}
             PROVE  /\ Distributed(o, ev) <= ev.amount
                    /\ \A i \in AccrualItems(o) : RefundShares(o, ev)[i] <= BaseOf(o, i)
  BY DEF RefundNotExceeded
<1> DEFINE I == AccrualItems(o)
           last == LastItem(o)
           amount == ev.amount
           part == [i \in I |-> Portion(o, i, amount)]
           R == I \ {last}
           U == SumFunctionOnSet(part, R)
           share == RefundShares(o, ev)
           rem == Remainder(o, amount)
<1>1. amount \in Nat \ {0}
  BY EngineAssumption
<1>2. /\ IsFiniteSet(I) /\ I \subseteq AllItems
      /\ \A i \in I : BaseOf(o, i) \in Nat \ {0}
  BY OrderItems
<1>3. /\ last \in I
      /\ \A i \in I : part[i] \in Nat /\ part[i] <= BaseOf(o, i)
      /\ rem \in Nat /\ rem = amount - U
  BY <1>1, PortionsFit
<1>4. ASSUME NEW i \in I
      PROVE  share[i] = IF i = last THEN ClampShare(rem, BaseOf(o, i)) ELSE part[i]
  BY <1>2, <1>4 DEF RefundShares
<1>5. ASSUME NEW i \in I
      PROVE  /\ share[i] \in Nat /\ share[i] <= BaseOf(o, i)
             /\ i = last => share[i] <= rem
  <2> HIDE DEF I, last, part, rem, share
  <2>1. CASE i = last
    <3>1. share[i] = ClampShare(rem, BaseOf(o, i))
      BY <1>4, <2>1
    <3>2. rem \in Nat /\ BaseOf(o, i) \in Nat
      BY <1>2, <1>3
    <3> QED
      BY <3>1, <3>2 DEF ClampShare
  <2>2. CASE i # last
    BY <1>3, <1>4, <1>5, <2>2
  <2> QED
    BY <2>1, <2>2
<1>6. U \in Int
  <2>1. \A i \in R : part[i] \in Int
    BY <1>3
  <2>2. IsFiniteSet(R)
    BY <1>2, FS_RemoveElement
  <2> HIDE DEF part, R
  <2> QED
    BY <2>1, <2>2, SumIsInt
<1>7. SumFunctionOnSet(share, I) = share[last] + SumFunctionOnSet(share, R)
  <2>1. \A i \in I : share[i] \in Int
    BY <1>5
  <2> HIDE DEF I, last, share
  <2> QED
    BY <1>2, <1>3, <2>1, SumRemove DEF Sum
<1>8. SumFunctionOnSet(share, R) = U
  <2>1. \A i \in R : part[i] = share[i]
    BY <1>4
  <2>2. IsFiniteSet(R)
    BY <1>2, FS_RemoveElement
  <2> HIDE DEF part, R, share
  <2> QED
    BY <2>1, <2>2, SumKept
<1>9. SumFunctionOnSet(share, I) <= amount
  <2>1. share[last] \in Nat /\ share[last] <= rem
    BY <1>3, <1>5
  <2> HIDE DEF share, last, U, rem, R, I
  <2> QED
    BY <1>1, <1>3, <1>6, <1>7, <1>8, <2>1
<1> QED
  BY <1>5, <1>9 DEF Distributed

(* However the accruals of an order came about, a whole-order refund is    *)
(* spread without exceeding the amount or the base of an item, for any     *)
(* number of items and any rounding of their parts (refundShares).         *)
THEOREM EngineRefundNotExceeded == EngineSpec => []RefundNotExceeded
<1>1. EngineInit => CapInv
  BY EngineInitCapped
<1>2. CapInv /\ [EngineNext]_engineVars => CapInv'
  BY EngineNextCapped
<1>3. CapInv => RefundNotExceeded
  BY SharesFit DEF CapInv, Capped
<1> QED
  BY <1>1, <1>2, <1>3, PTL DEF EngineSpec

(* Where rounding down takes products to.                                  *)
LEMMA Floors ==
  ASSUME NEW a \in Nat \ {0}, NEW d \in Nat \ {0}, NEW x \in Nat
  PROVE  /\ (a * x) \div d \in Nat
         /\ x = 0 => (a * x) \div d = 0
         /\ x <= d => (a * x) \div d <= a
         /\ x < d => (a * x) \div d < a
         /\ \A y \in Nat : x <= y => (a * x) \div d <= (a * y) \div d
<1> DEFINE p == a * x
           q == p \div d
<1>1. p \in Nat /\ a * d \in Nat
  OBVIOUS
<1>2. q \in Nat /\ d * q <= p /\ p < d * q + d
  <2> HIDE DEF p
  <2> QED
    BY <1>1
<1>3. d * q \in Nat
  <2> HIDE DEF q
  <2> QED
    BY <1>2
<1>4. ASSUME x = 0 PROVE q = 0
  <2>1. p = 0
    BY <1>4
  <2> HIDE DEF p
  <2> QED
    BY <2>1
<1>5. ASSUME x <= d PROVE q <= a
  <2>1. p <= a * d
    BY <1>5
  <2> HIDE DEF p, q
  <2>2. ASSUME q > a PROVE FALSE
    <3>1. d * q > d * a /\ d * a = a * d
      BY <1>2, <2>2
    <3> QED
      BY <1>1, <1>2, <1>3, <2>1, <3>1
  <2> QED
    BY <1>2, <2>2
<1>6. ASSUME x < d PROVE q < a
  <2>1. p < a * d
    BY <1>6
  <2> HIDE DEF p, q
  <2>2. ASSUME q >= a PROVE FALSE
    <3>1. d * q >= d * a /\ d * a = a * d
      BY <1>2, <2>2
    <3> QED
      BY <1>1, <1>2, <1>3, <2>1, <3>1
  <2> QED
    BY <1>2, <2>2
<1>7. ASSUME NEW y \in Nat, x <= y PROVE q <= (a * y) \div d
  <2> DEFINE n == a * y
             z == n \div d
  <2>1. n \in Nat /\ p <= n
    BY <1>7
  <2>2. z \in Nat /\ n < d * z + d
    <3> HIDE DEF n
    <3> QED
      BY <2>1
  <2> HIDE DEF p, q, n, z
  <2>3. ASSUME q > z PROVE FALSE
    <3>1. q >= z + 1
      BY <1>2, <2>2, <2>3
    <3>2. d * q >= d * (z + 1) /\ d * (z + 1) = d * z + d
      BY <1>2, <2>2, <3>1
    <3>3. d * z \in Nat
      BY <2>2
    <3> QED
      BY <1>1, <1>2, <1>3, <2>1, <2>2, <3>2, <3>3
  <2> QED
    BY <1>2, <2>2, <2>3 DEF z, n
<1> QED
  BY <1>2, <1>4, <1>5, <1>6, <1>7

-----------------------------------------------------------------------------
(***************************************************************************)
(* Instalments do not matter                                               *)
(***************************************************************************)

CumulativesIn(vous, o, i) ==
  {0} \cup {v.cumulative : v \in {w \in vous : w.order = o /\ w.item = i}}

(* R of the item's base has been refunded.                                 *)
RefundedTo(vous, o, i, R) ==
  R \in CumulativesIn(vous, o, i) /\ \A x \in CumulativesIn(vous, o, i) : x <= R

(* The row's accumulator is its share of what was refunded of its item.    *)
Proportional(row, vous) ==
  row.amount > 0 /\ row.state # "void" =>
    \E R \in Nat : /\ RefundedTo(vous, row.order, row.item, R)
                   /\ R <= row.base
                   /\ row.reversed = (row.amount * R) \div row.base

(* No reversal of a row was for more than its accumulator says.            *)
TargetsReached(coms) ==
  \A r \in DOMAIN coms :
    coms[r].reverseOf \in DOMAIN coms => coms[r].target <= coms[coms[r].reverseOf].reversed

(* A refund is vouched for only where there are commissions.               *)
VouchedOrders(coms, vous) ==
  \A v \in vous : \E c \in DOMAIN coms : coms[c].order = v.order

Refundable(coms, vous) ==
  /\ TargetsReached(coms)
  /\ VouchedOrders(coms, vous)

Todo == IF tx.op = "refund" THEN tx.todo ELSE {}

(* The layers a refund has still to come to: their item's voucher says     *)
(* what they are about to be reversed to, and they are still where an      *)
(* earlier instalment left them.                                           *)
Behind(c) ==
  /\ c \in DOMAIN commissions
  /\ commissions[c].amount > 0
  /\ RefundedTo(vouchers, commissions[c].order, commissions[c].item, tx.target)
  /\ tx.target <= commissions[c].base
  /\ commissions[c].state # "void" =>
       \E cum \in Nat : /\ cum < tx.target
                        /\ commissions[c].reversed =
                             (commissions[c].amount * cum) \div commissions[c].base

RefundInv ==
  /\ EngineTypeOK
  /\ \A c \in DOMAIN commissions : RowReconciles(commissions, c)
  /\ Based(commissions)
  /\ Refundable(commissions, vouchers)
  /\ \A c \in DOMAIN commissions \ Todo : Proportional(commissions[c], vouchers)
  /\ \A c \in Todo : Behind(c)
  /\ tx.op = "paid" => \A v \in vouchers : v.order # tx.order
  /\ Unlocked \/ /\ Refundable(undo.commissions, undo.vouchers)
                 /\ \A c \in DOMAIN undo.commissions :
                      Proportional(undo.commissions[c], undo.vouchers)

(* A row that keeps its money keeps its proportion.                        *)
LEMMA ProportionalKept ==
  ASSUME NEW r, NEW s, NEW vous, Proportional(r, vous),
         s.order = r.order, s.item = r.item, s.base = r.base, s.amount = r.amount,
         s.reversed = r.reversed, r.state = "void" => s.state = "void"
  PROVE  Proportional(s, vous)
  BY DEF Proportional

(* The table without the row's rows of other items: a voucher of another   *)
(* item changes nothing.                                                   *)
LEMMA OtherVoucher ==
  ASSUME NEW vous, NEW v, NEW o, NEW i, v.order # o \/ v.item # i
  PROVE  CumulativesIn(vous \cup {v}, o, i) = CumulativesIn(vous, o, i)
  BY DEF CumulativesIn

(* A voucher of the item with a larger total is its new total.             *)
LEMMA NextVoucher ==
  ASSUME NEW vous, NEW v, NEW cum \in Nat, v.cumulative \in Nat, v.cumulative > cum,
         RefundedTo(vous, v.order, v.item, cum),
         \A x \in CumulativesIn(vous, v.order, v.item) : x \in Nat
  PROVE  RefundedTo(vous \cup {v}, v.order, v.item, v.cumulative)
<1>1. CumulativesIn(vous \cup {v}, v.order, v.item)
        = CumulativesIn(vous, v.order, v.item) \cup {v.cumulative}
  BY DEF CumulativesIn
<1>2. \A x \in CumulativesIn(vous, v.order, v.item) : x <= v.cumulative
  BY DEF RefundedTo
<1> QED
  BY <1>1, <1>2 DEF RefundedTo

(* The vouchers' totals are natural numbers, and the largest is unique.    *)
LEMMA TotalsType ==
  ASSUME NEW vous, vous \subseteq Voucher, NEW o, NEW i
  PROVE  /\ \A x \in CumulativesIn(vous, o, i) : x \in Nat
         /\ \A R, S : RefundedTo(vous, o, i, R) /\ RefundedTo(vous, o, i, S) => R = S
         /\ \A R : RefundedTo(vous, o, i, R) => R \in Nat
<1>1. \A v \in vous : v.cumulative \in Nat
  BY DEF Voucher
<1>2. \A x \in CumulativesIn(vous, o, i) : x \in Nat
  BY <1>1 DEF CumulativesIn
<1> QED
  BY <1>2 DEF RefundedTo

(* What the live table and the live vouchers are after a step that leaves  *)
(* the money of every row alone.                                           *)
LEMMA MoneyKept ==
  ASSUME NEW A \in Seq(Commission), NEW B \in Seq(Commission), DOMAIN B = DOMAIN A,
         \A y \in DOMAIN A : /\ B[y].order = A[y].order /\ B[y].item = A[y].item
                             /\ B[y].base = A[y].base /\ B[y].amount = A[y].amount
                             /\ B[y].reversed = A[y].reversed
                             /\ B[y].reverseOf = A[y].reverseOf /\ B[y].target = A[y].target
                             /\ (A[y].state = "void" => B[y].state = "void"),
         NEW vous
  PROVE  /\ Refundable(A, vous) => Refundable(B, vous)
         /\ \A c \in DOMAIN A : Proportional(A[c], vous) => Proportional(B[c], vous)
<1>1. TargetsReached(A) => TargetsReached(B)
  BY DEF TargetsReached
<1>2. VouchedOrders(A, vous) => VouchedOrders(B, vous)
  BY DEF VouchedOrders
<1>3. ASSUME NEW c \in DOMAIN A, Proportional(A[c], vous)
      PROVE  Proportional(B[c], vous)
  <2> DEFINE r == A[c]
             s == B[c]
  <2>1. /\ s.order = r.order /\ s.item = r.item /\ s.base = r.base /\ s.amount = r.amount
        /\ s.reversed = r.reversed /\ (r.state = "void" => s.state = "void")
        /\ Proportional(r, vous)
    BY <1>3
  <2> HIDE DEF r, s
  <2>2. Proportional(s, vous)
    BY <2>1, ProportionalKept
  <2> QED
    BY <2>2 DEF s
<1> QED
  BY <1>1, <1>2, <1>3 DEF Refundable

(* The live part of the invariant.                                         *)
Refunds ==
  /\ Refundable(commissions, vouchers)
  /\ \A c \in DOMAIN commissions \ Todo : Proportional(commissions[c], vouchers)
  /\ \A c \in Todo : Behind(c)

(* A new row points at no accrual above its total.                         *)
LEMMA TargetsAppended ==
  ASSUME NEW A \in Seq(Commission), NEW B \in Seq(Commission), NEW x,
         DOMAIN B = DOMAIN A \cup {x}, x \notin DOMAIN A,
         \A y \in DOMAIN A : /\ A[y].reverseOf \in DOMAIN A \cup {0}
                             /\ B[y].reverseOf = A[y].reverseOf
                             /\ B[y].target = A[y].target
                             /\ A[y].reversed <= B[y].reversed,
         B[x].reverseOf \in DOMAIN A => B[x].target <= B[B[x].reverseOf].reversed,
         B[x].reverseOf # x, x # 0,
         TargetsReached(A)
  PROVE  TargetsReached(B)
<1> SUFFICES ASSUME NEW r \in DOMAIN B, B[r].reverseOf \in DOMAIN B
             PROVE  B[r].target <= B[B[r].reverseOf].reversed
  BY DEF TargetsReached
<1>1. CASE r = x
  BY <1>1
<1>2. CASE r \in DOMAIN A
  <2> DEFINE c == A[r].reverseOf
  <2>1. B[r].reverseOf = c /\ c \in DOMAIN A
    <3>1. DOMAIN A = 1 .. Len(A) /\ DOMAIN B = 1 .. Len(B)
      BY TableTypes
    <3>2. 0 \notin DOMAIN B
      BY <3>1
    <3>3. c # x
      BY <1>2
    <3> QED
      BY <1>2, <3>2, <3>3
  <2>2. A[r].target <= A[c].reversed
    BY <1>2, <2>1 DEF TargetsReached
  <2>3. /\ A[r].target \in Nat /\ A[c].reversed \in Nat /\ B[c].reversed \in Nat
    <3>1. A[r] \in Commission /\ A[c] \in Commission /\ B[c] \in Commission
      BY <1>2, <2>1
    <3> QED
      BY <3>1 DEF Commission
  <2>4. A[c].reversed <= B[c].reversed /\ B[r].target = A[r].target
    BY <1>2, <2>1
  <2> HIDE DEF c
  <2> QED
    BY <2>1, <2>2, <2>3, <2>4
<1> QED
  BY <1>1, <1>2

(* What the rows of a reconciled table point at.                           *)
LEMMA PointsBack ==
  ASSUME NEW A \in Seq(Commission), \A c \in DOMAIN A : RowReconciles(A, c)
  PROVE  \A y \in DOMAIN A : A[y].reverseOf \in DOMAIN A \cup {0}
  BY DEF RowReconciles

(* What every clawback does to the proportions.                            *)
LEMMA ClawBackRefunds ==
  ASSUME EngineTypeOK, \A c \in DOMAIN commissions : RowReconciles(commissions, c),
         Refundable(commissions, vouchers),
         NEW c \in DOMAIN commissions, NEW target \in Nat, commissions[c].reversed < target,
         NEW terminal \in {"reversed", "void"}, NEW biz \in {"reverse", "void"},
         ClawBack(c, target, terminal, biz)
  PROVE  /\ Refundable(commissions', vouchers)
         /\ \A y \in DOMAIN commissions' \ DOMAIN commissions :
              \A vous : Proportional(commissions'[y], vous)
<1> DEFINE A == commissions
           B == commissions'
           x == Len(commissions) + 1
<1>1. /\ A \in Seq(Commission) /\ B \in Seq(Commission)
      /\ Len(A) \in Nat /\ DOMAIN A = 1 .. Len(A)
      /\ DOMAIN B = DOMAIN A \cup {x} /\ x \notin DOMAIN A
      /\ \A y \in DOMAIN A \ {c} : B[y] = A[y]
      /\ SameAccrual(A[c], B[c]) /\ B[c].reversed = target
      /\ B[x] = ReversalRecord(c, target)
  BY ClawBackRows, ZenonT(60)
<1>2. /\ B[x].amount = A[c].reversed - target /\ B[x].reverseOf = c /\ B[x].target = target
  BY <1>1 DEF ReversalRecord
<1>3. A[c].reversed \in Nat
  BY <1>1, TableTypes
<1> HIDE DEF A, B
<1>4. \A y \in DOMAIN A : A[y].reverseOf \in DOMAIN A \cup {0}
  BY <1>1, PointsBack DEF A
<1>5. \A y \in DOMAIN A : /\ B[y].reverseOf = A[y].reverseOf /\ B[y].target = A[y].target
                          /\ A[y].reversed <= B[y].reversed /\ B[y].order = A[y].order
  <2>1. \A y \in DOMAIN A : A[y].reversed \in Nat
    BY <1>1, TableTypes
  <2> QED
    BY <1>1, <2>1 DEF SameAccrual, A
<1>6. TargetsReached(B)
  <2>1. TargetsReached(A) /\ c \in DOMAIN A /\ x # 0 /\ c # x
    BY <1>1 DEF Refundable, A
  <2>2. target <= target
    OBVIOUS
  <2> HIDE DEF x
  <2> QED
    BY <1>1, <1>2, <1>4, <1>5, <2>1, <2>2, TargetsAppended, SMTT(30)
<1>7. VouchedOrders(B, vouchers)
  BY <1>1, <1>5 DEF VouchedOrders, Refundable, A
<1>8. ~(B[x].amount > 0)
  BY <1>2, <1>3 DEF A
<1> QED
  BY <1>1, <1>6, <1>7, <1>8 DEF Refundable, Proportional, A, B

(* A refund claws one layer back to its share.                             *)
LEMMA ReverseRefunds ==
  ASSUME RefundInv, NEW c \in DOMAIN commissions, ReverseLayer(c)
  PROVE  Refunds'
<1> DEFINE A == commissions
           B == commissions'
           x == Len(commissions) + 1
           want == WantReversed(c)
           row == A[c]
<1>0. EngineTypeOK /\ \A y \in DOMAIN A : RowReconciles(A, y)
  BY DEF RefundInv
<1>1. /\ tx.op = "refund" /\ c \in tx.todo /\ want > row.reversed
      /\ ClawBack(c, want, "reversed", "reverse")
      /\ tx' = [tx EXCEPT !.todo = @ \ {c}] /\ UNCHANGED vouchers
  BY DEF ReverseLayer, NextToReverse, NeedsReversal
<1>2. tx \in RefundTx
  BY <1>0, <1>1, TxKinds
<1>3. tx'.op = "refund" /\ tx'.todo = tx.todo \ {c} /\ tx'.target = tx.target
  BY <1>1, <1>2 DEF RefundTx
<1>4. /\ row \in Commission /\ row.amount \in Int /\ row.base \in Nat \ {0}
      /\ row.reversed \in Nat /\ tx.target \in Nat
  <2>1. row \in Commission
    BY <1>0 DEF EngineTypeOK, StoreTypeOK
  <2> QED
    BY <1>2, <2>1 DEF Commission, RefundTx
<1>5. /\ row.amount > 0 /\ RefundedTo(vouchers, row.order, row.item, tx.target)
      /\ tx.target <= row.base
  <2>1. Behind(c)
    BY <1>1 DEF RefundInv, Todo
  <2> QED
    BY <2>1 DEF Behind
<1>6. want = (row.amount * tx.target) \div row.base /\ want \in Nat
  <2> DEFINE a == row.amount
             t == tx.target
             d == row.base
  <2>1. a \in Nat \ {0} /\ t \in Nat /\ d \in Nat \ {0} /\ t <= d
    BY <1>4, <1>5
  <2>2. want = IF MulDiv(a, t, d, "down") > a THEN a ELSE MulDiv(a, t, d, "down")
    BY DEF WantReversed
  <2> HIDE DEF a, t, d
  <2>3. MulDiv(a, t, d, "down") = (a * t) \div d /\ MulDiv(a, t, d, "down") \in Nat
    BY <2>1, FloorBound
  <2>4. (a * t) \div d <= a
    BY <2>1, Floors
  <2>5. want = (a * t) \div d /\ want \in Nat
    <3> DEFINE q == MulDiv(a, t, d, "down")
    <3>1. q \in Nat /\ q <= a
      BY <2>3, <2>4
    <3> HIDE DEF q
    <3>2. want = q
      BY <2>1, <2>2, <3>1 DEF q
    <3> QED
      BY <2>3, <3>1, <3>2 DEF q
  <2> QED
    BY <2>5 DEF a, t, d
<1> HIDE DEF want
<1>7. /\ DOMAIN B = DOMAIN A \cup {x} /\ x \notin DOMAIN A
      /\ \A y \in DOMAIN A \ {c} : B[y] = A[y]
      /\ SameAccrual(A[c], B[c]) /\ B[c].reversed = want
  BY <1>0, <1>1, <1>6, ClawBackRows
<1>8. /\ Refundable(B, vouchers)
      /\ \A y \in DOMAIN B \ DOMAIN A : \A vous : Proportional(B[y], vous)
  <2>1. commissions[c].reversed < want /\ Refundable(commissions, vouchers)
    BY <1>1, <1>4, <1>6 DEF RefundInv
  <2> QED
    BY <1>0, <1>1, <1>6, <2>1, ClawBackRefunds
<1>9. Proportional(B[c], vouchers)
  BY <1>4, <1>5, <1>6, <1>7 DEF Proportional, SameAccrual
<1>10. \A y \in DOMAIN B \ tx'.todo : Proportional(B[y], vouchers)
  <2> SUFFICES ASSUME NEW y \in DOMAIN B, y \notin tx'.todo
               PROVE  Proportional(B[y], vouchers)
    OBVIOUS
  <2>1. CASE y = c
    BY <1>9, <2>1
  <2>2. CASE y \notin DOMAIN A
    BY <1>8, <2>2
  <2>3. CASE y \in DOMAIN A /\ y # c
    <3>1. y \notin tx.todo /\ B[y] = A[y]
      BY <1>3, <1>7, <2>3
    <3>2. Proportional(A[y], vouchers)
      BY <1>1, <2>3, <3>1 DEF RefundInv, Todo
    <3> QED
      BY <3>1, <3>2
  <2> QED
    BY <2>1, <2>2, <2>3
<1>11. ASSUME NEW y \in tx'.todo
       PROVE  Behind(y)'
  <2>1. y \in tx.todo /\ y # c
    BY <1>3
  <2>2. Behind(y)
    BY <1>1, <2>1 DEF RefundInv, Todo
  <2>3. y \in DOMAIN A /\ y \in DOMAIN B /\ B[y] = A[y]
    BY <1>7, <2>1, <2>2 DEF Behind
  <2> QED
    BY <1>1, <1>3, <2>2, <2>3 DEF Behind
<1> QED
  BY <1>1, <1>3, <1>8, <1>10, <1>11 DEF Refunds, Todo

(* A layer that has its share already is left alone.                       *)
LEMMA KeepRefunds ==
  ASSUME RefundInv, NEW c \in DOMAIN commissions, KeepLayer(c)
  PROVE  Refunds'
<1> DEFINE row == commissions[c]
           want == WantReversed(c)
<1>0. EngineTypeOK /\ RowReconciles(commissions, c) /\ commissions \in Seq(Commission)
  BY DEF RefundInv, EngineTypeOK, StoreTypeOK
<1>1. /\ tx.op = "refund" /\ c \in tx.todo /\ ~NeedsReversal(c)
      /\ tx' = [tx EXCEPT !.todo = @ \ {c}] /\ UNCHANGED <<commissions, vouchers>>
  BY DEF KeepLayer, NextToReverse, storeVars
<1>2. tx \in RefundTx
  BY <1>0, <1>1, TxKinds
<1>3. tx'.op = "refund" /\ tx'.todo = tx.todo \ {c} /\ tx'.target = tx.target
  BY <1>1, <1>2 DEF RefundTx
<1>4. /\ row \in Commission /\ row.amount \in Int /\ row.base \in Nat \ {0}
      /\ row.reversed \in Nat /\ tx.target \in Nat
  <2>1. row \in Commission
    BY <1>0
  <2> QED
    BY <1>2, <2>1 DEF Commission, RefundTx
<1>5. Behind(c)
  BY <1>1 DEF RefundInv, Todo
<1>6. /\ row.amount > 0 /\ RefundedTo(vouchers, row.order, row.item, tx.target)
      /\ tx.target <= row.base
  BY <1>5 DEF Behind
<1>7. ASSUME row.state # "void"
      PROVE  row.reversed = (row.amount * tx.target) \div row.base
  <2> DEFINE a == row.amount
             t == tx.target
             d == row.base
             old == row.reversed
  <2>1. a \in Nat \ {0} /\ t \in Nat /\ d \in Nat \ {0} /\ t <= d /\ old \in Nat
    BY <1>4, <1>6
  <2>2. PICK cum \in Nat : cum < t /\ old = (a * cum) \div d
    BY <1>5, <1>7 DEF Behind
  <2>3. want = IF MulDiv(a, t, d, "down") > a THEN a ELSE MulDiv(a, t, d, "down")
    BY DEF WantReversed
  <2>4. old = a <=> Terminal(row.state)
    BY <1>0, <1>4, <1>6 DEF RowReconciles
  <2>5. ReversalExists(c, want) => want <= old
    <3> SUFFICES ASSUME NEW r \in DOMAIN commissions,
                        commissions[r].reverseOf = c, commissions[r].target = want
                 PROVE  want <= old
      BY DEF ReversalExists
    <3> QED
      BY DEF RefundInv, Refundable, TargetsReached
  <2>6. \/ Terminal(row.state) \/ ~(want > old) \/ ReversalExists(c, want)
    BY <1>1 DEF NeedsReversal
  <2> HIDE DEF a, t, d, old
  <2>7. MulDiv(a, t, d, "down") = (a * t) \div d /\ MulDiv(a, t, d, "down") \in Nat
    BY <2>1, FloorBound
  <2>8. (a * t) \div d <= a /\ old < a /\ old <= (a * t) \div d
    <3>1. cum < d /\ cum <= t
      BY <2>1, <2>2
    <3> QED
      BY <2>1, <2>2, <3>1, Floors
  <2> DEFINE q == (a * t) \div d
  <2>9. q \in Nat /\ q <= a /\ old < a /\ old <= q /\ want = q
    <3>1. q \in Nat /\ q <= a /\ old < a /\ old <= q
      BY <2>7, <2>8
    <3>2. want = IF q > a THEN a ELSE q
      BY <2>3, <2>7
    <3> HIDE DEF q, want
    <3> QED
      BY <2>1, <3>1, <3>2
  <2> HIDE DEF q, want
  <2>10. old = q
    BY <2>1, <2>4, <2>5, <2>6, <2>9
  <2> QED
    BY <2>10 DEF q, a, t, d, old
<1>8. Proportional(row, vouchers)
  BY <1>4, <1>6, <1>7 DEF Proportional
<1>9. ASSUME NEW y \in tx'.todo
      PROVE  Behind(y)'
  <2>1. Behind(y)
    BY <1>1, <1>3 DEF RefundInv, Todo
  <2> QED
    BY <1>1, <1>3, <2>1 DEF Behind
<1>10. \A y \in DOMAIN commissions \ tx'.todo : Proportional(commissions[y], vouchers)
  <2> SUFFICES ASSUME NEW y \in DOMAIN commissions, y \notin tx'.todo, y # c
               PROVE  Proportional(commissions[y], vouchers)
    BY <1>8
  <2>1. y \notin Todo
    BY <1>1, <1>3 DEF Todo
  <2> QED
    BY <2>1 DEF RefundInv
<1> QED
  BY <1>1, <1>3, <1>9, <1>10 DEF Refunds, Todo, RefundInv

(* A voided commission is exempt, and the others are not touched.          *)
LEMMA VoidRefunds ==
  ASSUME RefundInv, NEW c \in DOMAIN commissions, VoidCommission(c)
  PROVE  Refunds'
<1> DEFINE A == commissions
           B == commissions'
           total == A[c].amount
<1>0. EngineTypeOK /\ (\A y \in DOMAIN A : RowReconciles(A, y)) /\ Refundable(A, vouchers)
  BY DEF RefundInv
<1>1. /\ Outstanding(commissions[c]) > 0 /\ ClawBack(c, total, "void", "void")
      /\ tx = Idle /\ tx' = Idle /\ UNCHANGED vouchers
  BY DEF VoidCommission, Unlocked
<1>2. total \in Nat /\ A[c].reversed < total
  <2>1. A[c].reversed \in Nat /\ A[c].amount \in Int
    BY <1>0, TableTypes DEF EngineTypeOK, StoreTypeOK
  <2> QED
    BY <1>1, <2>1 DEF Outstanding
<1>3. Todo = {} /\ Todo' = {}
  BY <1>1 DEF Todo, Idle
<1> HIDE DEF total
<1>4. /\ Refundable(B, vouchers)
      /\ \A y \in DOMAIN B \ DOMAIN A : \A vous : Proportional(B[y], vous)
  BY <1>0, <1>1, <1>2, ClawBackRefunds
<1>5. /\ \A y \in DOMAIN A \ {c} : B[y] = A[y]
      /\ B[c].state = "void"
  <2>1. /\ \A y \in DOMAIN A \ {c} : B[y] = A[y]
        /\ B[c].state = IF total >= A[c].amount THEN "void" ELSE A[c].state
    BY <1>0, <1>1, <1>2, ClawBackRows
  <2> QED
    BY <1>2, <2>1 DEF total
<1>6. \A y \in DOMAIN B : Proportional(B[y], vouchers)
  <2> SUFFICES ASSUME NEW y \in DOMAIN B
               PROVE  Proportional(B[y], vouchers)
    OBVIOUS
  <2>1. CASE y = c
    BY <1>5, <2>1 DEF Proportional
  <2>2. CASE y \in DOMAIN A /\ y # c
    <3>1. Proportional(A[y], vouchers) /\ B[y] = A[y]
      BY <1>3, <1>5, <2>2 DEF RefundInv
    <3> QED
      BY <3>1
  <2> QED
    BY <1>4, <2>1, <2>2
<1> QED
  BY <1>1, <1>3, <1>4, <1>6 DEF Refunds

(* An accrual starts with nothing refunded.                                *)
LEMMA AccrueRefunds ==
  ASSUME RefundInv, NEW rate \in Rates, AccrueLayer(rate)
  PROVE  Refunds'
<1> DEFINE A == commissions
           B == commissions'
           x == Len(commissions) + 1
           row == NewCommission(LayerAmount(rate))
<1>0. EngineTypeOK /\ (\A y \in DOMAIN A : RowReconciles(A, y)) /\ Refundable(A, vouchers)
  BY DEF RefundInv
<1>1. /\ AtLayer /\ tx.op = "paid" /\ NextLayer(LayerAmount(rate))
      /\ B = Append(A, row) /\ UNCHANGED vouchers
  BY DEF AccrueLayer, AtLayer
<1>2. LayerAmount(rate) \in Int /\ row \in Commission /\ A \in Seq(Commission)
  BY <1>0, <1>1, AtLayerType, NewCommissionType DEF EngineTypeOK, StoreTypeOK
<1>3. tx'.op = "paid"
  BY <1>0, <1>1, <1>2, NextLayerType
<1>4. Todo = {} /\ Todo' = {}
  BY <1>1, <1>3 DEF Todo
<1>5. row.order = tx.order /\ row.reversed = 0 /\ row.reverseOf = 0
  BY DEF NewCommission
<1>6. row.base \in Nat \ {0} /\ row.amount \in Int
  BY <1>2 DEF Commission
<1> HIDE DEF row
<1>7. /\ B \in Seq(Commission) /\ DOMAIN B = DOMAIN A \cup {x} /\ DOMAIN A = 1 .. Len(A)
      /\ x \notin DOMAIN A /\ B[x] = row /\ x # 0
      /\ \A y \in DOMAIN A : B[y] = A[y]
  BY <1>1, <1>2
<1>8. Proportional(row, vouchers)
  <2>1. \A v \in vouchers : v.order # tx.order
    BY <1>1 DEF RefundInv
  <2>2. CumulativesIn(vouchers, row.order, row.item) = {0}
    BY <1>5, <2>1 DEF CumulativesIn
  <2>3. RefundedTo(vouchers, row.order, row.item, 0)
    BY <2>2 DEF RefundedTo
  <2> DEFINE a == row.amount
             d == row.base
  <2>4. a > 0 => (a * 0) \div d = 0
    <3>1. a > 0 => a \in Nat \ {0}
      BY <1>6
    <3>2. d \in Nat \ {0}
      BY <1>6
    <3> HIDE DEF a, d
    <3> QED
      BY <3>1, <3>2, Floors
  <2> QED
    BY <1>5, <1>6, <2>3, <2>4 DEF Proportional
<1>9. TargetsReached(B)
  <2>1. \A y \in DOMAIN A : A[y].reverseOf \in DOMAIN A \cup {0}
    BY <1>0, <1>2, PointsBack
  <2>2. \A y \in DOMAIN A : A[y].reversed <= B[y].reversed
    BY <1>2, <1>7, TableTypes
  <2>3. B[x].reverseOf = 0 /\ 0 \notin DOMAIN A /\ TargetsReached(A)
    BY <1>0, <1>5, <1>7 DEF Refundable
  <2> HIDE DEF A, B, x
  <2> QED
    BY <1>2, <1>7, <2>1, <2>2, <2>3, TargetsAppended
<1>10. VouchedOrders(B, vouchers)
  BY <1>0, <1>7 DEF VouchedOrders, Refundable
<1>11. \A y \in DOMAIN B : Proportional(B[y], vouchers)
  <2> SUFFICES ASSUME NEW y \in DOMAIN B
               PROVE  Proportional(B[y], vouchers)
    OBVIOUS
  <2>1. CASE y = x
    BY <1>7, <1>8, <2>1
  <2>2. CASE y \in DOMAIN A
    <3>1. Proportional(A[y], vouchers) /\ B[y] = A[y]
      BY <1>4, <1>7, <2>2 DEF RefundInv
    <3> QED
      BY <3>1
  <2> QED
    BY <1>7, <2>1, <2>2
<1> QED
  BY <1>1, <1>4, <1>9, <1>10, <1>11 DEF Refunds, Refundable

(* A refund comes to its next item: the layers of the item fall behind the *)
(* new voucher, those of the others stay where they are.                   *)
LEMMA ItemRefunds ==
  ASSUME RefundInv, NEW i \in AllItems, RefundItem(i)
  PROVE  Refunds' /\ tx'.op = "refund"
<1> DEFINE o == tx.order
           base == BaseOf(o, i)
<1>0. /\ EngineTypeOK /\ Based(commissions) /\ Refundable(commissions, vouchers)
      /\ commissions \in Seq(Commission) /\ vouchers \subseteq Voucher
  BY DEF RefundInv, EngineTypeOK, StoreTypeOK
<1>1. /\ tx.op = "refund" /\ tx.todo = {} /\ i \in tx.items
      /\ UNCHANGED commissions
  BY DEF RefundItem, NextItem
<1>2. tx \in RefundTx /\ tx.items \subseteq AccrualItems(o)
  BY <1>0, <1>1, TxKinds
<1>3. /\ o \in Orders /\ tx.shares[i] \in Nat /\ i \in AccrualItems(o)
  BY <1>1, <1>2 DEF RefundTx
<1>4. /\ base \in Nat \ {0}
      /\ \A c \in AccrualsOf(o, i) : commissions[c].base = base
  BY <1>0, <1>3, OrderItems
<1>5. PICK cum \in Cumulatives(o, i) :
        LET target == RefundTarget(o, i, cum)
        IN  /\ \A x \in Cumulatives(o, i) : x <= cum
            /\ IF target > cum /\ ~Vouched(o, i, tx.key)
                 THEN /\ vouchers' = vouchers \cup
                           {[order |-> o, item |-> i, key |-> tx.key,
                             amount |-> tx.shares[i], cumulative |-> target]}
                      /\ tx' = [tx EXCEPT !.items = @ \ {i}, !.item = i,
                                          !.target = target,
                                          !.todo = AccrualsOf(o, i)]
                 ELSE /\ tx' = [tx EXCEPT !.items = @ \ {i}]
                      /\ UNCHANGED vouchers
  BY DEF RefundItem
<1> DEFINE target == RefundTarget(o, i, cum)
           v == [order |-> o, item |-> i, key |-> tx.key,
                 amount |-> tx.shares[i], cumulative |-> target]
<1>6. RefundedTo(vouchers, o, i, cum) /\ cum \in Nat
  <2>1. Cumulatives(o, i) = CumulativesIn(vouchers, o, i)
    BY DEF Cumulatives, CumulativesIn
  <2> QED
    BY <1>0, <1>5, <2>1, TotalsType DEF RefundedTo
<1>7. target \in Nat /\ target <= base
  BY <1>3, <1>4, <1>6 DEF RefundTarget
<1>8. \A c \in DOMAIN commissions : Proportional(commissions[c], vouchers)
  BY <1>1 DEF RefundInv, Todo
<1>9. CASE ~(target > cum /\ ~Vouched(o, i, tx.key))
  <2>1. tx' = [tx EXCEPT !.items = @ \ {i}] /\ UNCHANGED vouchers
    BY <1>5, <1>9
  <2>2. tx'.todo = {} /\ tx'.op = "refund"
    BY <1>1, <1>2, <2>1 DEF RefundTx
  <2> QED
    BY <1>0, <1>1, <1>8, <2>1, <2>2 DEF Refunds, Todo
<1>10. CASE target > cum /\ ~Vouched(o, i, tx.key)
  <2>1. /\ vouchers' = vouchers \cup {v}
        /\ tx' = [tx EXCEPT !.items = @ \ {i}, !.item = i, !.target = target,
                            !.todo = AccrualsOf(o, i)]
    BY <1>5, <1>10
  <2>2. v.order = o /\ v.item = i /\ v.cumulative = target
    OBVIOUS
  <2> HIDE DEF v, target
  <2>3. /\ tx'.todo = AccrualsOf(o, i) /\ tx'.op = "refund" /\ tx'.target = target
    BY <1>1, <1>2, <2>1 DEF RefundTx
  <2> HIDE DEF o, base
  <2>4. RefundedTo(vouchers', o, i, target)
    <3>1. \A x \in CumulativesIn(vouchers, v.order, v.item) : x \in Nat
      BY <1>0, TotalsType
    <3>2. v.cumulative \in Nat /\ v.cumulative > cum /\ RefundedTo(vouchers, v.order, v.item, cum)
      BY <1>6, <1>7, <1>10, <2>2
    <3> QED
      BY <1>6, <2>1, <2>2, <3>1, <3>2, NextVoucher
  <2>5. ASSUME NEW c \in AccrualsOf(o, i)
        PROVE  Behind(c)'
    <3>1. /\ c \in DOMAIN commissions /\ commissions[c].order = o /\ commissions[c].item = i
          /\ commissions[c].amount > 0 /\ commissions[c].base = base
      BY <1>4, <2>5 DEF AccrualsOf, Accruals
    <3>2. ASSUME commissions[c].state # "void"
          PROVE  \E n \in Nat : /\ n < target
                                /\ commissions[c].reversed =
                                     (commissions[c].amount * n) \div commissions[c].base
      <4>1. PICK R \in Nat :
              /\ RefundedTo(vouchers, o, i, R)
              /\ commissions[c].reversed = (commissions[c].amount * R) \div commissions[c].base
        BY <1>8, <3>1, <3>2 DEF Proportional
      <4>2. R = cum
        BY <1>0, <1>6, <4>1, TotalsType
      <4>3. R < target
        BY <1>6, <1>7, <1>10, <4>2
      <4> QED
        BY <4>1, <4>3
    <3>3. /\ commissions' = commissions /\ tx'.target = target
          /\ RefundedTo(vouchers', commissions[c].order, commissions[c].item, target)
          /\ target <= commissions[c].base
      BY <1>1, <1>7, <2>3, <2>4, <3>1
    <3> QED
      BY <3>1, <3>2, <3>3 DEF Behind
  <2>6. ASSUME NEW c \in DOMAIN commissions \ AccrualsOf(o, i)
        PROVE  Proportional(commissions[c], vouchers')
    <3> DEFINE row == commissions[c]
               ro == row.order
               ri == row.item
    <3>1. Proportional(row, vouchers)
      BY <1>8, <2>6
    <3>2. row.amount > 0 => (v.order # ro \/ v.item # ri)
      BY <2>2, <2>6 DEF AccrualsOf, Accruals
    <3> HIDE DEF ro, ri
    <3>3. (v.order # ro \/ v.item # ri) =>
            CumulativesIn(vouchers', ro, ri) = CumulativesIn(vouchers, ro, ri)
      BY <2>1, OtherVoucher
    <3>4. row.order = ro /\ row.item = ri
      BY DEF ro, ri
    <3> HIDE DEF row
    <3>5. Proportional(row, vouchers')
      BY <3>1, <3>2, <3>3, <3>4 DEF Proportional, RefundedTo
    <3> QED
      BY <3>5 DEF row
  <2>7. Refundable(commissions, vouchers')
    <3>1. \E c \in DOMAIN commissions : commissions[c].order = o
      BY <1>3 DEF AccrualItems, Accruals
    <3> QED
      BY <1>0, <2>1, <2>2, <3>1 DEF Refundable, VouchedOrders
  <2> QED
    BY <1>1, <2>3, <2>5, <2>6, <2>7 DEF Refunds, Todo
<1> QED
  BY <1>9, <1>10

(* A step that leaves the money of the rows alone.                         *)
LEMMA PlainRefunds ==
  ASSUME RefundInv, EngineTypeOK', Todo = {}, Todo' = {}, UNCHANGED vouchers,
         \/ \E o \in Orders, at \in ReceiptTimes : OnOrderReceived(o, at)
         \/ \E c \in DOMAIN commissions :
              \E from \in CommissionStates \ {"void"}, to \in CommissionStates :
                Transition(c, from, to)
  PROVE  Refunds'
<1> DEFINE A == commissions
           B == commissions'
           Kept == /\ DOMAIN B = DOMAIN A
                   /\ \A y \in DOMAIN A :
                        /\ B[y].order = A[y].order /\ B[y].item = A[y].item
                        /\ B[y].base = A[y].base /\ B[y].amount = A[y].amount
                        /\ B[y].reversed = A[y].reversed
                        /\ B[y].reverseOf = A[y].reverseOf /\ B[y].target = A[y].target
                        /\ (A[y].state = "void" => B[y].state = "void")
<1>0. EngineTypeOK /\ A \in Seq(Commission) /\ B \in Seq(Commission)
  BY DEF RefundInv, EngineTypeOK, StoreTypeOK
<1>1. ASSUME NEW o \in Orders, NEW at \in ReceiptTimes, OnOrderReceived(o, at)
      PROVE  Kept
  <2>1. DOMAIN commissions' = DOMAIN commissions
    BY <1>1 DEF OnOrderReceived
  <2> QED
    BY <1>0, <1>1, <2>1, ReceivedRow
<1>2. ASSUME NEW c \in DOMAIN commissions, NEW from \in CommissionStates \ {"void"},
             NEW to \in CommissionStates, Transition(c, from, to)
      PROVE  Kept
  <2>1. /\ DOMAIN B = DOMAIN A
        /\ \A y \in DOMAIN A \ {c} : B[y] = A[y]
        /\ SameAccrual(A[c], B[c]) /\ B[c].reversed = A[c].reversed /\ A[c].state = from
    BY <1>0, <1>2, TransitionRows
  <2> QED
    BY <2>1 DEF SameAccrual
<1> HIDE DEF Kept
<1>3. Kept
  BY <1>1, <1>2
<1>4. /\ Refundable(A, vouchers) => Refundable(B, vouchers)
      /\ \A c \in DOMAIN A : Proportional(A[c], vouchers) => Proportional(B[c], vouchers)
  <2> HIDE DEF A, B
  <2> QED
    BY <1>0, <1>3, MoneyKept DEF Kept
<1>5. /\ Refundable(A, vouchers) /\ DOMAIN B = DOMAIN A
      /\ \A c \in DOMAIN A : Proportional(A[c], vouchers)
  BY <1>3 DEF RefundInv, Kept
<1> QED
  BY <1>4, <1>5 DEF Refunds

(* An order that is being paid for has no refund yet.                      *)
NotYetRefunded == tx.op = "paid" => \A v \in vouchers : v.order # tx.order

(* The live part of the invariant, step by step.                           *)
LEMMA RefundsStep ==
  ASSUME RefundInv, EngineTypeOK', [EngineNext]_engineVars
  PROVE  Refunds' /\ NotYetRefunded'
<1> DEFINE Goal == Refunds' /\ NotYetRefunded'
<1> SUFFICES Goal
  OBVIOUS
<1>0. EngineTypeOK /\ Refunds /\ NotYetRefunded /\ Idle.op = "none"
  BY DEF RefundInv, Refunds, NotYetRefunded, Idle
<1>1. ASSUME UNCHANGED <<commissions, vouchers, tx>>
      PROVE  Goal
  <2>1. Todo' = Todo /\ \A c \in Todo : Behind(c)'
    BY <1>0, <1>1 DEF Refunds, Todo, Behind
  <2>2. NotYetRefunded'
    BY <1>0, <1>1 DEF NotYetRefunded
  <2> QED
    BY <1>0, <1>1, <2>1, <2>2 DEF Refunds
<1>2. ASSUME UNCHANGED <<commissions, vouchers>>, Todo = {}, Todo' = {}, NotYetRefunded'
      PROVE  Goal
  BY <1>0, <1>2 DEF Refunds
<1>3. ASSUME Todo = {}, Commit
      PROVE  Goal
  <2>1. UNCHANGED <<commissions, vouchers>> /\ tx'.op = "none"
    BY <1>0, <1>3 DEF Commit, storeVars
  <2> QED
    BY <1>2, <1>3, <2>1 DEF Todo, NotYetRefunded
<1>4. ASSUME ~Unlocked, Rollback
      PROVE  Goal
  <2>1. tx'.op = "none" /\ commissions' = undo.commissions /\ vouchers' = undo.vouchers
    BY <1>0, <1>4 DEF Rollback
  <2>2. /\ Refundable(undo.commissions, undo.vouchers)
        /\ \A c \in DOMAIN undo.commissions : Proportional(undo.commissions[c], undo.vouchers)
    BY <1>4 DEF RefundInv
  <2>3. Todo' = {} /\ NotYetRefunded'
    BY <2>1 DEF Todo, NotYetRefunded
  <2> QED
    BY <2>1, <2>2, <2>3 DEF Refunds
<1>5. ASSUME Refunds', UNCHANGED vouchers,
             tx'.op # "paid" \/ (tx.op = "paid" /\ tx'.order = tx.order)
      PROVE  Goal
  BY <1>0, <1>5 DEF NotYetRefunded
<1>6. ASSUME tx.op # "none" PROVE ~Unlocked
  BY <1>0, <1>6 DEF Unlocked
<1>7. ASSUME Unlocked PROVE Todo = {} /\ tx.op = "none"
  BY <1>0, <1>7 DEF Unlocked, Todo
<1> HIDE DEF Goal
<1>8. ASSUME NEW rate \in Rates, AccrueLayer(rate)
      PROVE  Goal
  <2>1. AtLayer /\ NextLayer(LayerAmount(rate)) /\ UNCHANGED vouchers
    BY <1>8 DEF AccrueLayer
  <2>2. tx \in PaidTx /\ tx.op = "paid"
    BY <1>0, <2>1, TxKinds DEF AtLayer
  <2>3. tx'.order = tx.order
    BY <2>1, <2>2 DEF NextLayer, PaidTx
  <2> QED
    BY <1>5, <1>8, <2>1, <2>2, <2>3, AccrueRefunds
<1>9. ASSUME NEW rate \in Rates, AbortAccrual(rate)
      PROVE  Goal
  BY <1>4, <1>6, <1>9 DEF AbortAccrual, AtLayer
<1>10. ASSUME SkipLayer
       PROVE  Goal
  <2>1. AtLayer /\ NextLayer(0) /\ UNCHANGED <<commissions, vouchers>>
    BY <1>10 DEF SkipLayer, storeVars
  <2>2. tx \in PaidTx /\ tx.op = "paid"
    BY <1>0, <2>1, TxKinds DEF AtLayer
  <2>3. tx'.order = tx.order /\ tx'.op = "paid"
    BY <2>1, <2>2 DEF NextLayer, PaidTx
  <2> QED
    BY <1>0, <1>2, <2>1, <2>2, <2>3 DEF Todo, NotYetRefunded
<1>11. ASSUME NextBase
       PROVE  Goal
  <2>1. tx \in PaidTx /\ tx.op = "paid"
    BY <1>0, <1>11, TxKinds DEF NextBase
  <2>2. CASE tx.item < Len(Basket[tx.order])
    <3>1. /\ tx' = [tx EXCEPT !.item = tx.item + 1, !.layer = 1,
                              !.agent = Referrer[tx.order], !.allocated = 0]
          /\ UNCHANGED <<commissions, vouchers>>
      BY <1>11, <2>1, <2>2 DEF NextBase, PaidTx, storeVars
    <3>2. tx'.order = tx.order /\ tx'.op = "paid"
      BY <2>1, <3>1 DEF PaidTx
    <3> QED
      BY <1>0, <1>2, <2>1, <3>1, <3>2 DEF Todo, NotYetRefunded
  <2>3. CASE ~(tx.item < Len(Basket[tx.order]))
    BY <1>3, <1>11, <2>1, <2>3 DEF NextBase, Todo
  <2> QED
    BY <2>2, <2>3
<1>12. ASSUME NEW i \in AllItems, RefundItem(i)
       PROVE  Goal
  BY <1>12, ItemRefunds DEF Goal, NotYetRefunded
<1>13. ASSUME NEW c \in DOMAIN commissions, ReverseLayer(c) \/ KeepLayer(c)
       PROVE  Goal
  <2>1. /\ tx.op = "refund" /\ tx' = [tx EXCEPT !.todo = tx.todo \ {c}] /\ UNCHANGED vouchers
    BY <1>13 DEF ReverseLayer, KeepLayer, NextToReverse, storeVars
  <2>2. tx \in RefundTx
    BY <1>0, <2>1, TxKinds
  <2>3. tx'.op = "refund"
    BY <2>1, <2>2 DEF RefundTx
  <2> QED
    BY <1>5, <1>13, <2>1, <2>3, ReverseRefunds, KeepRefunds
<1>14. ASSUME NEW c \in DOMAIN commissions, AbortRefund(c) \/ AbortBatch(c)
       PROVE  Goal
  BY <1>4, <1>6, <1>14 DEF AbortRefund, AbortBatch, NextToReverse, NextToSettle
<1>15. ASSUME NEW c \in DOMAIN commissions, SettleOne(c)
       PROVE  Goal
  <2>1. /\ tx.op = "settle" /\ UNCHANGED vouchers /\ Transition(c, "pending", "settled")
        /\ tx' = [tx EXCEPT !.todo = tx.todo \ {c}, !.count = tx.count + 1]
    BY <1>15 DEF SettleOne, NextToSettle
  <2>2. tx \in SettleTx
    BY <1>0, <2>1, TxKinds
  <2>3. tx'.op = "settle"
    BY <2>1, <2>2 DEF SettleTx
  <2>4. Refunds'
    <3>1. Todo = {} /\ Todo' = {}
      BY <2>1, <2>3 DEF Todo
    <3>2. "pending" \in CommissionStates \ {"void"} /\ "settled" \in CommissionStates
      BY DEF CommissionStates
    <3> QED
      BY <2>1, <3>1, <3>2, PlainRefunds
  <2> QED
    BY <1>5, <2>1, <2>3, <2>4
<1>16. ASSUME CommitRefund \/ CommitBatch
       PROVE  Goal
  BY <1>3, <1>16 DEF CommitRefund, CommitBatch, Todo
<1>17. ASSUME NEW o \in Orders, OnOrderPaid(o)
       PROVE  Goal
  <2>1. /\ Unlocked /\ UNCHANGED <<commissions, vouchers>>
        /\ tx'.op = "paid" /\ tx'.order = o
        /\ \A c \in DOMAIN commissions : commissions[c].order # o
    BY <1>17 DEF OnOrderPaid, Begin, storeVars
  <2>2. NotYetRefunded'
    BY <1>0, <2>1 DEF NotYetRefunded, Refunds, Refundable, VouchedOrders
  <2> QED
    BY <1>2, <1>7, <2>1, <2>2 DEF Todo
<1>18. ASSUME NEW o \in Orders, NEW key \in RefundKeys, NEW ev \in RefundEvents,
              OnOrderRefunded(o, key, ev)
       PROVE  Goal
  <2>1. Unlocked /\ UNCHANGED <<commissions, vouchers>> /\ tx'.op = "refund" /\ tx'.todo = {}
    BY <1>18 DEF OnOrderRefunded, Begin, storeVars
  <2> QED
    BY <1>2, <1>7, <2>1 DEF Todo, NotYetRefunded
<1>19. ASSUME NEW t \in Tenants, MaintainTenant(t)
       PROVE  Goal
  <2>1. Unlocked /\ UNCHANGED <<commissions, vouchers>> /\ tx'.op = "settle"
    BY <1>19 DEF MaintainTenant, Begin, storeVars
  <2> QED
    BY <1>2, <1>7, <2>1 DEF Todo, NotYetRefunded
<1>20. ASSUME NEW o \in Orders, NEW at \in ReceiptTimes, OnOrderReceived(o, at)
       PROVE  Goal
  <2>1. Unlocked /\ UNCHANGED <<vouchers, tx>>
    BY <1>20 DEF OnOrderReceived
  <2>2. Todo = {} /\ Todo' = {} /\ tx'.op = "none"
    BY <1>7, <2>1 DEF Todo
  <2> QED
    BY <1>5, <1>20, <2>1, <2>2, PlainRefunds
<1>21. ASSUME NEW c \in DOMAIN commissions, FreezeCommission(c) \/ UnfreezeCommission(c)
       PROVE  Goal
  <2>1. /\ Unlocked /\ UNCHANGED <<vouchers, tx>>
        /\ \E from \in CommissionStates \ {"void"}, to \in CommissionStates :
             Transition(c, from, to)
    BY <1>21 DEF FreezeCommission, UnfreezeCommission, CommissionStates
  <2>2. Todo = {} /\ Todo' = {} /\ tx'.op = "none"
    BY <1>7, <2>1 DEF Todo
  <2> QED
    BY <1>5, <2>1, <2>2, PlainRefunds
<1>22. ASSUME NEW c \in DOMAIN commissions, VoidCommission(c)
       PROVE  Goal
  <2>1. Unlocked /\ UNCHANGED <<vouchers, tx>>
    BY <1>22 DEF VoidCommission
  <2>2. tx'.op = "none"
    BY <1>7, <2>1
  <2> QED
    BY <1>5, <1>22, <2>1, <2>2, VoidRefunds
<1>23. ASSUME MaintainStart \/ MaintainScan \/ TenantRoundsSpent \/ RoundEnds \/ Tick
              \/ UNCHANGED engineVars
       PROVE  Goal
  BY <1>1, <1>23
     DEF MaintainStart, MaintainScan, TenantRoundsSpent, RoundEnds, Tick, engineVars, storeVars
<1>24. CASE TxStep
  BY <1>8, <1>9, <1>10, <1>11, <1>12, <1>13, <1>14, <1>15, <1>16, <1>24 DEF TxStep
<1>25. CASE BeatStep
  BY <1>19, <1>23, <1>25 DEF BeatStep
<1>26. CASE Events
  BY <1>17, <1>18, <1>20, <1>21, <1>22, <1>26 DEF Events
<1> QED
  BY <1>23, <1>24, <1>25, <1>26 DEF EngineNext

(* The snapshot of an open transaction is a table that was proportional.   *)
LEMMA SnapshotStep ==
  ASSUME RefundInv, [EngineNext]_engineVars
  PROVE  Unlocked' \/ /\ Refundable(undo.commissions, undo.vouchers)'
                      /\ \A c \in DOMAIN undo'.commissions :
                           Proportional(undo.commissions[c], undo.vouchers)'
<1> DEFINE Goal == Unlocked' \/ /\ Refundable(undo'.commissions, undo'.vouchers)
                                /\ \A c \in DOMAIN undo'.commissions :
                                     Proportional(undo'.commissions[c], undo'.vouchers)
<1> SUFFICES Goal
  BY DEF Refundable, TargetsReached, VouchedOrders, Proportional, RefundedTo, CumulativesIn
<1>0. EngineTypeOK
  BY DEF RefundInv
<1>1. ASSUME UNCHANGED undo, Unlocked' <=> Unlocked
      PROVE  Goal
  BY <1>1 DEF RefundInv
<1>2. ASSUME NEW t, Begin(t)
      PROVE  Goal
  <2>1. Unlocked /\ undo'.commissions = commissions /\ undo'.vouchers = vouchers
    BY <1>2 DEF Begin
  <2>2. Todo = {}
    BY <2>1 DEF Unlocked, Idle, Todo
  <2> QED
    BY <2>1, <2>2 DEF RefundInv
<1>3. ASSUME Commit \/ Rollback
      PROVE  Goal
  BY <1>3 DEF Commit, Rollback, Unlocked
<1> HIDE DEF Goal
<1> QED
  BY <1>0, <1>1, <1>2, <1>3, StoreStep

(* Together with the two invariants it rests on.                           *)
LEMMA EngineNextRefunds ==
  ASSUME RefundInv, ReconcileInv, CapInv, [EngineNext]_engineVars
  PROVE  RefundInv'
<1>1. EngineTypeOK' /\ (\A c \in DOMAIN commissions : RowReconciles(commissions, c))'
  BY EngineNextReconciles DEF ReconcileInv, Reconciled
<1>2. Based(commissions)'
  BY EngineNextCapped DEF CapInv, Capped
<1>3. Refunds' /\ NotYetRefunded'
  BY <1>1, RefundsStep
<1>4. Unlocked' \/ /\ Refundable(undo.commissions, undo.vouchers)'
                   /\ \A c \in DOMAIN undo'.commissions :
                        Proportional(undo.commissions[c], undo.vouchers)'
  BY SnapshotStep
<1> QED
  BY <1>1, <1>2, <1>3, <1>4 DEF RefundInv, Refunds, NotYetRefunded

(* An empty store owes nothing.                                            *)
LEMMA EngineInitRefunds == EngineInit => RefundInv
<1> SUFFICES ASSUME EngineInit PROVE RefundInv
  OBVIOUS
<1>1. commissions = << >> /\ vouchers = {} /\ tx = Idle /\ tx.op = "none"
  BY DEF EngineInit, Idle
<1>2. DOMAIN commissions = {}
  BY <1>1
<1>3. Refundable(commissions, vouchers) /\ Based(commissions)
  BY <1>1, <1>2 DEF Refundable, TargetsReached, VouchedOrders, Based
<1> QED
  BY <1>1, <1>2, <1>3, EngineInitType DEF RefundInv, Todo, Unlocked

(* Between transactions every row is where its item's vouchers say.        *)
LEMMA RefundsMean ==
  ASSUME RefundInv
  PROVE  RefundsProportional
<1> SUFFICES ASSUME Unlocked, NEW c \in DOMAIN commissions,
                    commissions[c].amount > 0, commissions[c].state # "void"
             PROVE  commissions[c].reversed =
                      (commissions[c].amount * Refunded(commissions[c].order, commissions[c].item))
                        \div commissions[c].base
  BY DEF RefundsProportional
<1> DEFINE o == commissions[c].order
           i == commissions[c].item
<1>1. Todo = {} /\ vouchers \subseteq Voucher
  BY DEF Unlocked, Idle, Todo, RefundInv, EngineTypeOK, StoreTypeOK
<1>2. PICK R \in Nat : /\ RefundedTo(vouchers, o, i, R)
                       /\ commissions[c].reversed = (commissions[c].amount * R) \div commissions[c].base
  BY <1>1 DEF RefundInv, Proportional
<1> HIDE DEF o, i
<1>3. Cumulatives(o, i) = CumulativesIn(vouchers, o, i)
  BY DEF Cumulatives, CumulativesIn
<1>4. \A S : RefundedTo(vouchers, o, i, S) => S = R
  BY <1>1, <1>2, TotalsType
<1>5. Refunded(o, i) = R
  <2> DEFINE C == CumulativesIn(vouchers, o, i)
  <2>1. /\ R \in C /\ (\A y \in C : y <= R) /\ (\A y \in C : y \in Nat)
        /\ \A S : (S \in C /\ (\A y \in C : y <= S)) => S = R
    BY <1>1, <1>2, <1>4, TotalsType DEF RefundedTo
  <2> HIDE DEF C
  <2>2. Max(C) \in C /\ \A y \in C : Max(C) >= y
    BY <2>1 DEF Max
  <2>3. Max(C) = R
    BY <2>1, <2>2
  <2> QED
    BY <1>3, <2>3 DEF Refunded, C
<1> QED
  BY <1>2, <1>5 DEF o, i

(* Whatever the instalments, their order and what happens in between, a    *)
(* row has been reversed by exactly its share of what was refunded of its  *)
(* item, as by one refund of the whole (reversalDelta, applyRefund).       *)
THEOREM EngineRefundsProportional == EngineSpec => []RefundsProportional
<1> DEFINE Inv == RefundInv /\ ReconcileInv /\ CapInv
<1>1. EngineInit => Inv
  BY EngineInitRefunds, EngineInitReconciles, EngineInitCapped, EngineInitType
     DEF ReconcileInv, EngineInit, Unlocked
<1>2. Inv /\ [EngineNext]_engineVars => Inv'
  BY EngineNextRefunds, EngineNextReconciles, EngineNextCapped
<1>3. Inv => RefundsProportional
  BY RefundsMean
<1> HIDE DEF Inv
<1> QED
  BY <1>1, <1>2, <1>3, PTL DEF EngineSpec

-----------------------------------------------------------------------------
(***************************************************************************)
(* The budget of a Maintain call                                           *)
(***************************************************************************)

(* The rows that are settled in B and were not in A.                       *)
Fresh(A, B) ==
  {c \in DOMAIN B : B[c].state = "settled" /\ (c \in DOMAIN A => A[c].state # "settled")}

(* Of an open batch: its counter counts the rows it has settled, and with  *)
(* the rows it has still to settle stays within the budget.                *)
BatchCounted ==
  /\ \A c \in tx.todo :
       /\ c \in DOMAIN commissions /\ commissions[c].state # "settled"
       /\ c \in DOMAIN undo.commissions /\ undo.commissions[c].state # "settled"
  /\ IsFiniteSet(tx.todo)
  /\ Cardinality(Fresh(undo.commissions, commissions)) = tx.count
  /\ tx.count + Cardinality(tx.todo) <= beat.budget

BudgetInv ==
  /\ ~Unlocked /\ tx.op # "settle" => Fresh(undo.commissions, commissions) = {}
  /\ tx.op = "settle" => BatchCounted

(* A step that has no part in the charging.                                *)
BudgetKept ==
  beat.phase = "tenants" /\ beat'.phase = "tenants" => beat'.budget = beat.budget

(* At most limit rows of a set are among its earliest: they are numbered   *)
(* by how many rows are due before them.                                   *)
LEMMA EarliestBounded ==
  ASSUME EngineTypeOK, NEW S, S \subseteq DOMAIN commissions, NEW limit \in Nat
  PROVE  IsFiniteSet(Earliest(S, limit)) /\ Cardinality(Earliest(S, limit)) <= limit
<1> DEFINE E == Earliest(S, limit)
           Before(c) == {d \in S : DueBefore(d, c)}
           rank == [c \in E |-> Cardinality(Before(c))]
           T == 0 .. (limit - 1)
<1>1. /\ commissions \in Seq(Commission) /\ DOMAIN commissions = 1 .. Len(commissions)
      /\ Len(commissions) \in Nat
  BY TableTypes DEF EngineTypeOK, StoreTypeOK
<1>2. \A c \in S : c \in Nat /\ commissions[c].availableAt \in Int
  <2> SUFFICES ASSUME NEW c \in S
               PROVE  c \in Nat /\ commissions[c].availableAt \in Int
    OBVIOUS
  <2>1. c \in Nat /\ commissions[c] \in Commission
    BY <1>1
  <2> QED
    BY <2>1 DEF Commission
<1>3. IsFiniteSet(S)
  <2>1. 1 \in Int /\ Len(commissions) \in Int
    BY <1>1
  <2>2. IsFiniteSet(1 .. Len(commissions))
    BY <2>1, FS_Interval
  <2> QED
    BY <1>1, <2>2, FS_Subset
<1>4. \A c \in S : IsFiniteSet(Before(c)) /\ Cardinality(Before(c)) \in Nat
  BY <1>3, FS_Subset, FS_CardinalityType
<1>5. E \subseteq S /\ \A c \in E : Cardinality(Before(c)) < limit
  BY DEF Earliest
<1>6. ASSUME NEW c \in S, NEW d \in S, DueBefore(c, d)
      PROVE  Cardinality(Before(c)) < Cardinality(Before(d))
  <2> DEFINE B == Before(c)
             D == Before(d)
  <2>1. c \notin B
    BY <1>2 DEF DueBefore
  <2>2. B \subseteq D /\ c \in D
    BY <1>2, <1>6 DEF DueBefore
  <2>3. IsFiniteSet(B) /\ IsFiniteSet(D)
    BY <1>4
  <2> HIDE DEF B, D
  <2>4. IsFiniteSet(B \cup {c}) /\ Cardinality(B \cup {c}) = Cardinality(B) + 1
    BY <2>1, <2>3, FS_AddElement
  <2>5. Cardinality(B \cup {c}) <= Cardinality(D)
    BY <2>2, <2>3, FS_Subset
  <2>6. Cardinality(B) \in Nat /\ Cardinality(D) \in Nat
    BY <2>3, FS_CardinalityType
  <2>7. Cardinality(B) < Cardinality(D)
    BY <2>4, <2>5, <2>6
  <2> QED
    BY <2>7 DEF B, D
<1>7. \A c \in S, d \in S : c # d => DueBefore(c, d) \/ DueBefore(d, c)
  BY <1>2 DEF DueBefore
<1>8. \A c \in E, d \in E : c # d => rank[c] # rank[d]
  <2> SUFFICES ASSUME NEW c \in E, NEW d \in E, c # d
               PROVE  rank[c] # rank[d]
    OBVIOUS
  <2>1. c \in S /\ d \in S /\ rank[c] = Cardinality(Before(c)) /\ rank[d] = Cardinality(Before(d))
    BY <1>5
  <2>2. Cardinality(Before(c)) \in Nat /\ Cardinality(Before(d)) \in Nat
    BY <1>4, <2>1
  <2>3. CASE DueBefore(c, d)
    <3>1. Cardinality(Before(c)) < Cardinality(Before(d))
      BY <1>6, <2>1, <2>3
    <3> HIDE DEF Before, rank
    <3> QED
      BY <2>1, <2>2, <3>1
  <2>4. CASE DueBefore(d, c)
    <3>1. Cardinality(Before(d)) < Cardinality(Before(c))
      BY <1>6, <2>1, <2>4
    <3> HIDE DEF Before, rank
    <3> QED
      BY <2>1, <2>2, <3>1
  <2> QED
    BY <1>7, <2>1, <2>3, <2>4
<1>9. rank \in [E -> T]
  <2> SUFFICES ASSUME NEW c \in E
               PROVE  Cardinality(Before(c)) \in T
    OBVIOUS
  <2> DEFINE n == Cardinality(Before(c))
  <2>1. n \in Nat /\ n < limit
    BY <1>4, <1>5
  <2> HIDE DEF n
  <2>2. n \in T
    BY <2>1
  <2> QED
    BY <2>2 DEF n
<1>10. IsFiniteSet(T) /\ Cardinality(T) = limit
  BY FS_Interval
<1> HIDE DEF rank, T, E
<1>11. rank \in Injection(E, T)
  BY <1>8, <1>9 DEF Injection, IsInjective
<1>12. IsFiniteSet(E) /\ Cardinality(E) <= Cardinality(T)
  BY <1>10, <1>11, FS_Injection
<1> QED
  BY <1>10, <1>12 DEF E

(* Every write but the settlement of a row leaves no row settled that was  *)
(* not settled before.                                                     *)
LEMMA WritesSettle ==
  ASSUME EngineTypeOK, Writes, tx.op # "settle"
  PROVE  Fresh(commissions, commissions') = {}
<1> DEFINE Goal == Fresh(commissions, commissions') = {}
<1>0. commissions \in Seq(Commission)
  BY DEF EngineTypeOK, StoreTypeOK
<1>1. ASSUME \A y \in DOMAIN commissions' :
               commissions'[y].state = "settled" =>
                 y \in DOMAIN commissions /\ commissions[y].state = "settled"
      PROVE  Goal
  BY <1>1 DEF Fresh
<1> HIDE DEF Goal
<1>2. ASSUME NEW rate \in Rates, AccrueLayer(rate)
      PROVE  Goal
  <2> DEFINE row == NewCommission(LayerAmount(rate))
  <2>1. commissions' = Append(commissions, row)
    BY <1>2 DEF AccrueLayer
  <2>2. row.state = "pending"
    BY DEF NewCommission
  <2> HIDE DEF row
  <2>3. /\ DOMAIN commissions' = DOMAIN commissions \cup {Len(commissions) + 1}
        /\ commissions'[Len(commissions) + 1] = row
        /\ \A c \in DOMAIN commissions : commissions'[c] = commissions[c]
    BY <1>0, <2>1
  <2> QED
    BY <1>1, <2>2, <2>3
<1>3. ASSUME NEW o \in Orders, NEW at \in ReceiptTimes, OnOrderReceived(o, at)
      PROVE  Goal
  <2>1. DOMAIN commissions' = DOMAIN commissions
    BY <1>3 DEF OnOrderReceived
  <2>2. \A c \in DOMAIN commissions : commissions'[c].state = commissions[c].state
    BY <1>3, ReceivedRow
  <2> QED
    BY <1>1, <2>1, <2>2
<1>4. ASSUME NEW c \in DOMAIN commissions, NEW target \in Nat,
             NEW terminal \in {"reversed", "void"}, NEW biz \in {"reverse", "void"},
             ClawBack(c, target, terminal, biz)
      PROVE  Goal
  BY <1>1, <1>4, ClawBackDates
<1>5. ASSUME NEW c \in DOMAIN commissions, ReverseLayer(c)
      PROVE  Goal
  <2>1. /\ tx.op = "refund" /\ NeedsReversal(c)
        /\ ClawBack(c, WantReversed(c), "reversed", "reverse")
    BY <1>5 DEF ReverseLayer, NextToReverse
  <2>2. WantReversed(c) \in Int /\ WantReversed(c) > commissions[c].reversed
        /\ commissions[c].reversed \in Nat
    BY <1>0, <2>1, TableTypes, WantReversedType DEF NeedsReversal
  <2>3. WantReversed(c) \in Nat
    BY <2>2
  <2> QED
    BY <1>4, <2>1, <2>3
<1>6. ASSUME NEW c \in DOMAIN commissions, VoidCommission(c)
      PROVE  Goal
  <2>1. /\ Outstanding(commissions[c]) > 0
        /\ ClawBack(c, commissions[c].amount, "void", "void")
    BY <1>6 DEF VoidCommission
  <2>2. commissions[c].reversed \in Nat /\ commissions[c].amount \in Int
    BY <1>0, TableTypes
  <2>3. commissions[c].amount \in Nat
    BY <2>1, <2>2 DEF Outstanding
  <2> QED
    BY <1>4, <2>1, <2>3
<1>7. ASSUME NEW c \in DOMAIN commissions, FreezeCommission(c) \/ UnfreezeCommission(c)
      PROVE  Goal
  <2>1. \E from, to \in CommissionStates \ {"settled"} : Transition(c, from, to)
    BY <1>7 DEF FreezeCommission, UnfreezeCommission, CommissionStates
  <2>2. /\ DOMAIN commissions' = DOMAIN commissions
        /\ \A y \in DOMAIN commissions \ {c} : commissions'[y] = commissions[y]
        /\ commissions'[c].state # "settled"
    BY <2>1, TransitionRows
  <2> QED
    BY <1>1, <2>2
<1>8. \A c \in DOMAIN commissions : ~SettleOne(c)
  BY DEF SettleOne, NextToSettle
<1>9. Goal
  BY <1>2, <1>3, <1>5, <1>6, <1>7, <1>8 DEF Writes
<1> QED
  BY <1>9 DEF Goal

(* What a step has to do with batches: nothing, or it is one of the steps  *)
(* of a batch.                                                             *)
LEMMA BatchKinds ==
  ASSUME EngineTypeOK, BatchDue, [EngineNext]_engineVars
  PROVE  \/ tx.op # "settle" /\ tx'.op # "settle" /\ BudgetKept
         \/ UNCHANGED <<commissions, tx, undo, beat>>
         \/ \E t \in Tenants : MaintainTenant(t)
         \/ \E c \in DOMAIN commissions : SettleOne(c) \/ AbortBatch(c)
         \/ CommitBatch
<1> DEFINE Apart == tx.op # "settle" /\ tx'.op # "settle" /\ BudgetKept
           Stays == UNCHANGED <<commissions, tx, undo, beat>>
           Goal == \/ Apart
                   \/ Stays
                   \/ \E t \in Tenants : MaintainTenant(t)
                   \/ \E c \in DOMAIN commissions : SettleOne(c) \/ AbortBatch(c)
                   \/ CommitBatch
<1> SUFFICES Goal
  OBVIOUS
<1>0. beat \in Beat /\ Idle.op # "settle"
  BY DEF EngineTypeOK, Idle
<1>1. ASSUME UNCHANGED beat, tx.op # "settle", tx' = Idle \/ tx'.op # "settle"
      PROVE  Apart
  BY <1>0, <1>1 DEF BudgetKept
<1>2. ASSUME NEW rate \in Rates, AccrueLayer(rate) \/ AbortAccrual(rate)
      PROVE  Apart
  <2>1. CASE AccrueLayer(rate)
    <3>1. AtLayer /\ NextLayer(LayerAmount(rate)) /\ UNCHANGED beat
      BY <2>1 DEF AccrueLayer
    <3>2. tx'.op = "paid" /\ tx.op = "paid"
      BY <3>1, AtLayerType, NextLayerType DEF AtLayer
    <3> HIDE DEF Apart
    <3> QED
      BY <1>1, <3>1, <3>2
  <2>2. CASE AbortAccrual(rate)
    <3> HIDE DEF Apart
    <3> QED
      BY <1>1, <2>2 DEF AbortAccrual, AtLayer, Rollback
  <2> QED
    BY <1>2, <2>1, <2>2
<1>3. CASE SkipLayer
  <2>1. tx.op = "paid" /\ tx'.op = "paid" /\ UNCHANGED beat
    BY <1>3, NextLayerType DEF SkipLayer, AtLayer
  <2> HIDE DEF Apart
  <2> QED
    BY <1>1, <2>1
<1>4. CASE NextBase
  <2>1. tx \in PaidTx /\ tx.op = "paid" /\ UNCHANGED beat
    BY <1>4, TxKinds DEF NextBase
  <2>2. tx' = Idle \/ tx'.op # "settle"
    <3>1. CASE tx.item < Len(Basket[tx.order])
      <4>1. tx' = [tx EXCEPT !.item = tx.item + 1, !.layer = 1,
                             !.agent = Referrer[tx.order], !.allocated = 0]
        BY <1>4, <2>1, <3>1 DEF NextBase, PaidTx
      <4> QED
        BY <2>1, <4>1 DEF PaidTx
    <3>2. CASE ~(tx.item < Len(Basket[tx.order]))
      BY <1>4, <3>2 DEF NextBase, Commit
    <3> QED
      BY <3>1, <3>2
  <2> HIDE DEF Apart
  <2> QED
    BY <1>1, <2>1, <2>2
<1>5. ASSUME NEW i \in AllItems, RefundItem(i)
      PROVE  Apart
  <2>1. tx \in RefundTx /\ tx.op = "refund" /\ UNCHANGED beat
    BY <1>5, TxKinds DEF RefundItem
  <2>2. \/ tx' = [tx EXCEPT !.items = tx.items \ {i}]
        \/ \E target :
             tx' = [tx EXCEPT !.items = tx.items \ {i}, !.item = i, !.target = target,
                              !.todo = AccrualsOf(tx.order, i)]
    BY <1>5, <2>1 DEF RefundItem, RefundTx
  <2>3. tx'.op # "settle"
    BY <2>1, <2>2 DEF RefundTx
  <2> HIDE DEF Apart
  <2> QED
    BY <1>1, <2>1, <2>3
<1>6. ASSUME NEW c \in DOMAIN commissions, ReverseLayer(c) \/ KeepLayer(c)
      PROVE  Apart
  <2>1. /\ tx \in RefundTx /\ tx.op = "refund" /\ UNCHANGED beat
        /\ tx' = [tx EXCEPT !.todo = @ \ {c}]
    BY <1>6, TxKinds DEF ReverseLayer, KeepLayer, NextToReverse
  <2>2. tx'.op # "settle"
    BY <2>1 DEF RefundTx
  <2> HIDE DEF Apart
  <2> QED
    BY <1>1, <2>1, <2>2
<1>7. ASSUME NEW c \in DOMAIN commissions, AbortRefund(c)
      PROVE  Apart
  <2> HIDE DEF Apart
  <2> QED
    BY <1>1, <1>7 DEF AbortRefund, NextToReverse, Rollback
<1>8. CASE CommitRefund
  <2> HIDE DEF Apart
  <2> QED
    BY <1>1, <1>8 DEF CommitRefund, Commit
<1>9. CASE MaintainStart
  <2>1. UNCHANGED tx /\ beat.phase = "idle"
    BY <1>9 DEF MaintainStart
  <2>2. tx.op # "settle"
    BY <2>1 DEF BatchDue
  <2> QED
    BY <2>1, <2>2 DEF BudgetKept
<1>10. CASE MaintainScan
  <2>1. UNCHANGED tx /\ tx = Idle /\ beat.phase = "scan"
    BY <1>10 DEF MaintainScan, Unlocked
  <2> QED
    BY <1>0, <2>1 DEF BudgetKept
<1>11. CASE TenantRoundsSpent
  <2>1. UNCHANGED tx /\ tx = Idle /\ beat' = NextTenant
    BY <1>11 DEF TenantRoundsSpent, Unlocked
  <2>2. NextTenant.budget = beat.budget
    BY <1>0 DEF NextTenant, Beat
  <2> QED
    BY <1>0, <2>1, <2>2 DEF BudgetKept
<1>12. CASE RoundEnds
  <2>1. UNCHANGED tx /\ tx = Idle
    BY <1>12 DEF RoundEnds, Unlocked
  <2>2. \/ beat' = NoBeat
        \/ beat' = [beat EXCEPT !.phase = "scan", !.round = @ + 1,
                                !.tenants = {}, !.tenantRound = 0]
    BY <1>12 DEF RoundEnds
  <2>3. beat'.phase # "tenants"
    <3>1. NoBeat.phase = "idle"
      BY DEF NoBeat
    <3>2. [beat EXCEPT !.phase = "scan", !.round = @ + 1,
                       !.tenants = {}, !.tenantRound = 0].phase = "scan"
      BY <1>0 DEF Beat
    <3> QED
      BY <2>2, <3>1, <3>2
  <2> QED
    BY <1>0, <2>1, <2>3 DEF BudgetKept
<1>13. ASSUME NEW o \in Orders, OnOrderPaid(o)
       PROVE  Apart
  <2>1. UNCHANGED beat /\ tx = Idle /\ tx'.op = "paid"
    BY <1>13 DEF OnOrderPaid, Begin, Unlocked
  <2> HIDE DEF Apart
  <2> QED
    BY <1>0, <1>1, <2>1
<1>14. ASSUME NEW o \in Orders, NEW key \in RefundKeys, NEW ev \in RefundEvents,
              OnOrderRefunded(o, key, ev)
       PROVE  Apart
  <2>1. UNCHANGED beat /\ tx = Idle /\ tx'.op = "refund"
    BY <1>14 DEF OnOrderRefunded, Begin, Unlocked
  <2> HIDE DEF Apart
  <2> QED
    BY <1>0, <1>1, <2>1
<1>15. ASSUME NEW o \in Orders, NEW at \in ReceiptTimes, OnOrderReceived(o, at)
       PROVE  Apart
  <2>1. UNCHANGED <<beat, tx>> /\ tx = Idle
    BY <1>15 DEF OnOrderReceived, Unlocked
  <2> HIDE DEF Apart
  <2> QED
    BY <1>0, <1>1, <2>1
<1>16. ASSUME NEW c \in DOMAIN commissions,
              FreezeCommission(c) \/ UnfreezeCommission(c) \/ VoidCommission(c)
       PROVE  Apart
  <2>1. UNCHANGED <<beat, tx>> /\ tx = Idle
    BY <1>16 DEF FreezeCommission, UnfreezeCommission, VoidCommission, Unlocked
  <2> HIDE DEF Apart
  <2> QED
    BY <1>0, <1>1, <2>1
<1>17. CASE Tick \/ UNCHANGED engineVars
  BY <1>17 DEF Tick, engineVars, storeVars
<1> HIDE DEF Apart, Stays
<1>18. CASE TxStep
  BY <1>18, <1>2, <1>3, <1>4, <1>5, <1>6, <1>7, <1>8 DEF TxStep
<1>19. CASE BeatStep
  BY <1>19, <1>9, <1>10, <1>11, <1>12 DEF BeatStep
<1>20. CASE Events
  BY <1>20, <1>13, <1>14, <1>15, <1>16 DEF Events
<1> QED
  BY <1>17, <1>18, <1>19, <1>20 DEF EngineNext

(* A step that is none of a batch settles nothing and is charged nothing.  *)
LEMMA OtherSteps ==
  ASSUME EngineTypeOK, BudgetInv, [EngineNext]_engineVars, tx.op # "settle", tx'.op # "settle"
  PROVE  BudgetInv' /\ NewlySettled = {}
<1> DEFINE Goal == /\ ~Unlocked' => Fresh(undo'.commissions, commissions') = {}
                   /\ NewlySettled = {}
<1> SUFFICES Goal
  BY DEF BudgetInv, Fresh
<1>1. ~Unlocked => Fresh(undo.commissions, commissions) = {}
  BY DEF BudgetInv
<1>2. \A A : Fresh(A, A) = {}
  BY DEF Fresh
<1>3. \A A, B, C : Fresh(A, B) = {} /\ Fresh(B, C) = {} => Fresh(A, C) = {}
  BY DEF Fresh
<1>4. ASSUME NEW A, NEW B, CommittedRows = A, CommittedRows' = B, Fresh(A, B) = {}
      PROVE  NewlySettled = {}
  BY <1>4 DEF NewlySettled, Fresh
<1>5. /\ Unlocked => CommittedRows = commissions
      /\ ~Unlocked => CommittedRows = undo.commissions
      /\ Unlocked' => CommittedRows' = commissions'
      /\ ~Unlocked' => CommittedRows' = undo'.commissions
  BY DEF CommittedRows, Unlocked
<1>6. ASSUME UNCHANGED undo, Unlocked' <=> Unlocked, Fresh(commissions, commissions') = {}
      PROVE  Goal
  BY <1>1, <1>2, <1>3, <1>4, <1>5, <1>6
<1>7. ASSUME NEW t, Begin(t)
      PROVE  Goal
  <2>1. Unlocked /\ UNCHANGED commissions /\ undo'.commissions = commissions
    BY <1>7 DEF Begin, storeVars
  <2> QED
    BY <1>2, <1>4, <1>5, <2>1
<1>8. CASE Commit
  <2>1. Unlocked' /\ UNCHANGED commissions
    BY <1>8 DEF Commit, Unlocked, storeVars
  <2> QED
    BY <1>1, <1>2, <1>4, <1>5, <2>1
<1>9. CASE ~Unlocked /\ Rollback
  <2>1. Unlocked' /\ commissions' = undo.commissions
    BY <1>9 DEF Rollback, Unlocked
  <2> QED
    BY <1>2, <1>4, <1>5, <1>9, <2>1
<1> HIDE DEF Goal
<1>10. CASE UNCHANGED <<accounts, ledger, commissions, undo>> /\ (Unlocked' <=> Unlocked)
  BY <1>2, <1>6, <1>10
<1>11. CASE Writes /\ UNCHANGED undo /\ (Unlocked' <=> Unlocked)
  BY <1>6, <1>11, WritesSettle
<1> QED
  BY <1>7, <1>8, <1>9, <1>10, <1>11, StoreStep

(* A batch begins: no row of it was settled before, and it is no larger    *)
(* than the budget.                                                        *)
LEMMA BatchBegins ==
  ASSUME EngineTypeOK, NEW t \in Tenants, MaintainTenant(t)
  PROVE  BudgetInv' /\ NewlySettled = {} /\ BudgetKept
<1> DEFINE S == {c \in Due(beat.now) : TenantOf[commissions[c].order] = t}
           E == Earliest(S, Permits)
           todo == {c \in E : Outstanding(commissions[c]) > 0}
<1>1. /\ Unlocked /\ UNCHANGED <<commissions, beat>> /\ undo'.commissions = commissions
      /\ tx' = [op |-> "settle", count |-> 0, todo |-> todo]
  BY DEF MaintainTenant, Begin, storeVars, DueCommissions
<1>2. tx'.op = "settle" /\ tx'.count = 0 /\ tx'.todo = todo
  BY <1>1
<1>3. Permits \in Nat /\ Permits <= beat.budget /\ beat.budget \in Nat
  BY EngineAssumption DEF Permits, EngineTypeOK, Beat
<1>4. S \subseteq DOMAIN commissions /\ \A c \in S : commissions[c].state # "settled"
  BY DEF Due
<1>5. IsFiniteSet(E) /\ Cardinality(E) <= Permits
  <2> HIDE DEF S
  <2> QED
    BY <1>3, <1>4, EarliestBounded
<1>6. E \subseteq S
  BY DEF Earliest
<1> HIDE DEF S, E
<1>7. IsFiniteSet(todo) /\ Cardinality(todo) <= Cardinality(E)
      /\ Cardinality(todo) \in Nat /\ Cardinality(E) \in Nat
  <2>1. todo \in SUBSET E
    OBVIOUS
  <2> HIDE DEF todo
  <2> QED
    BY <1>5, <2>1, FS_Subset, FS_CardinalityType
<1>8. todo \subseteq E
  OBVIOUS
<1> HIDE DEF todo
<1>9. 0 + Cardinality(todo) <= beat.budget
  BY <1>3, <1>5, <1>7
<1>10. Fresh(commissions, commissions) = {}
  BY DEF Fresh
<1>11. Cardinality(Fresh(commissions, commissions)) = 0
  BY <1>10, FS_EmptySet
<1>12. BatchCounted'
  <2>1. \A c \in todo : c \in DOMAIN commissions /\ commissions[c].state # "settled"
    BY <1>4, <1>6, <1>8
  <2>2. Cardinality(Fresh(undo'.commissions, commissions')) = 0
    BY <1>1, <1>11
  <2> QED
    BY <1>1, <1>2, <1>7, <1>9, <2>1, <2>2 DEF BatchCounted, Fresh
<1>13. NewlySettled = {}
  <2>1. CommittedRows = commissions
    BY <1>1 DEF CommittedRows
  <2>2. ~Unlocked'
    BY <1>2 DEF Unlocked, Idle
  <2>3. CommittedRows' = commissions
    BY <1>1, <2>2 DEF CommittedRows, Unlocked
  <2> QED
    BY <1>10, <2>1, <2>3 DEF NewlySettled, Fresh
<1> QED
  BY <1>1, <1>2, <1>12, <1>13 DEF BudgetInv, BudgetKept

(* A row of the batch moves from the rows to settle to the settled ones.   *)
LEMMA RowSettles ==
  ASSUME EngineTypeOK, BudgetInv, NEW c \in DOMAIN commissions, SettleOne(c)
  PROVE  BudgetInv' /\ NewlySettled = {} /\ BudgetKept
<1> DEFINE old == undo.commissions
           F == Fresh(old, commissions)
           G == Fresh(old, commissions')
           n == Cardinality(tx.todo)
<1>1. /\ tx \in SettleTx /\ tx.op = "settle" /\ c \in tx.todo
      /\ Transition(c, "pending", "settled")
      /\ tx' = [tx EXCEPT !.todo = @ \ {c}, !.count = @ + 1]
      /\ UNCHANGED <<undo, beat>>
  BY TxKinds DEF SettleOne, NextToSettle
<1>2. BatchCounted
  BY <1>1 DEF BudgetInv
<1>3. tx'.op = "settle" /\ tx'.count = tx.count + 1 /\ tx'.todo = tx.todo \ {c}
  BY <1>1 DEF SettleTx
<1>4. /\ DOMAIN commissions' = DOMAIN commissions
      /\ \A y \in DOMAIN commissions \ {c} : commissions'[y] = commissions[y]
      /\ commissions[c].state = "pending" /\ commissions'[c].state = "settled"
  BY <1>1, TransitionRows DEF CommissionStates
<1>5. c \in DOMAIN old /\ old[c].state # "settled"
  BY <1>1, <1>2 DEF BatchCounted
<1>6. G = F \cup {c} /\ c \notin F
  <2> HIDE DEF old
  <2>1. c \in G /\ c \notin F
    BY <1>4, <1>5 DEF Fresh
  <2>2. \A y : y # c => (y \in G <=> y \in F)
    BY <1>4 DEF Fresh
  <2> HIDE DEF F, G
  <2> QED
    BY <2>1, <2>2
<1>7. IsFiniteSet(F)
  <2>1. commissions \in Seq(Commission)
    BY DEF EngineTypeOK, StoreTypeOK
  <2>2. 1 \in Int /\ Len(commissions) \in Int /\ DOMAIN commissions = 1 .. Len(commissions)
    BY <2>1
  <2>3. IsFiniteSet(1 .. Len(commissions))
    BY <2>2, FS_Interval
  <2>4. F \in SUBSET (1 .. Len(commissions))
    BY <2>2 DEF Fresh
  <2> QED
    BY <2>3, <2>4, FS_Subset
<1>8. Cardinality(F) = tx.count /\ tx.count \in Nat
  BY <1>1, <1>2 DEF BatchCounted, SettleTx
<1>9. /\ IsFiniteSet(tx.todo \ {c}) /\ Cardinality(tx.todo \ {c}) = n - 1
      /\ n \in Nat
  <2>1. IsFiniteSet(tx.todo)
    BY <1>2 DEF BatchCounted
  <2> QED
    BY <1>1, <2>1, FS_RemoveElement, FS_CardinalityType
<1>10. tx.count + n <= beat.budget /\ beat.budget \in Nat
  BY <1>2 DEF BatchCounted, EngineTypeOK, Beat
<1> HIDE DEF n
<1>11. (tx.count + 1) + (n - 1) <= beat.budget
  BY <1>8, <1>9, <1>10
<1>12. Cardinality(G) = tx.count + 1
  <2> HIDE DEF F, G
  <2> QED
    BY <1>6, <1>7, <1>8, FS_AddElement
<1>13. \A y \in tx.todo \ {c} :
         /\ y \in DOMAIN commissions' /\ commissions'[y].state # "settled"
         /\ y \in DOMAIN old /\ old[y].state # "settled"
  <2> SUFFICES ASSUME NEW y \in tx.todo \ {c}
               PROVE  /\ y \in DOMAIN commissions' /\ commissions'[y].state # "settled"
                      /\ y \in DOMAIN old /\ old[y].state # "settled"
    OBVIOUS
  <2>1. /\ y \in DOMAIN commissions /\ commissions[y].state # "settled"
        /\ y \in DOMAIN old /\ old[y].state # "settled"
    BY <1>2 DEF BatchCounted
  <2> QED
    BY <1>4, <2>1
<1>14. BatchCounted'
  BY <1>1, <1>3, <1>9, <1>11, <1>12, <1>13 DEF BatchCounted, Fresh, n
<1>15. NewlySettled = {}
  <2>1. ~Unlocked /\ ~Unlocked'
    BY <1>1, <1>3 DEF Unlocked, Idle
  <2>2. CommittedRows = old /\ CommittedRows' = old
    BY <1>1, <2>1 DEF CommittedRows, Unlocked
  <2> HIDE DEF old
  <2> QED
    BY <2>2 DEF NewlySettled
<1> QED
  BY <1>1, <1>3, <1>14, <1>15 DEF BudgetInv, BudgetKept

(* A batch is rolled back with all it settled, at no charge.               *)
LEMMA BatchAborts ==
  ASSUME EngineTypeOK, NEW c \in DOMAIN commissions, AbortBatch(c)
  PROVE  BudgetInv' /\ NewlySettled = {} /\ BudgetKept
<1>1. /\ tx.op = "settle" /\ tx' = Idle /\ beat' = NextTenant
      /\ commissions' = undo.commissions
  BY DEF AbortBatch, NextToSettle, Rollback
<1>2. Unlocked' /\ ~Unlocked /\ tx'.op # "settle"
  BY <1>1 DEF Unlocked, Idle
<1>3. NextTenant.budget = beat.budget
  BY DEF NextTenant, EngineTypeOK, Beat
<1>4. CommittedRows = undo.commissions /\ CommittedRows' = undo.commissions
  BY <1>1, <1>2 DEF CommittedRows, Unlocked
<1>5. NewlySettled = {}
  BY <1>4 DEF NewlySettled
<1> QED
  BY <1>1, <1>2, <1>3, <1>5 DEF BudgetInv, BudgetKept

(* A batch commits what its counter says, and is charged for it.           *)
LEMMA BatchCommits ==
  ASSUME EngineTypeOK, BudgetInv, BatchDue, CommitBatch
  PROVE  /\ BudgetInv'
         /\ beat.phase = "tenants" /\ beat'.phase = "tenants"
         /\ Cardinality(NewlySettled) = beat.budget - beat'.budget
<1> DEFINE n == tx.count
<1>1. /\ tx \in SettleTx /\ tx.op = "settle" /\ tx.todo = {} /\ tx' = Idle
      /\ UNCHANGED commissions
  BY TxKinds DEF CommitBatch, Commit, storeVars
<1>2. /\ Cardinality(Fresh(undo.commissions, commissions)) = n
      /\ n + Cardinality(tx.todo) <= beat.budget /\ beat.phase = "tenants"
  BY <1>1 DEF BudgetInv, BatchCounted, BatchDue
<1>3. n \in Nat /\ beat.budget \in Nat /\ n <= beat.budget
  <2>1. Cardinality(tx.todo) = 0
    BY <1>1, FS_EmptySet
  <2>2. n \in Nat /\ beat.budget \in Nat
    BY <1>1 DEF SettleTx, EngineTypeOK, Beat
  <2> HIDE DEF n
  <2> QED
    BY <1>2, <2>1, <2>2
<1>4. Unlocked' /\ ~Unlocked /\ tx'.op # "settle"
  BY <1>1 DEF Unlocked, Idle
<1>5. NewlySettled = Fresh(undo.commissions, commissions)
  <2>1. CommittedRows = undo.commissions /\ CommittedRows' = commissions
    BY <1>1, <1>4 DEF CommittedRows, Unlocked
  <2> QED
    BY <2>1 DEF NewlySettled, Fresh
<1>6. beat'.phase = "tenants" /\ beat'.budget = beat.budget - n
  <2>1. beat \in Beat
    BY DEF EngineTypeOK
  <2>2. CASE n = 0
    <3>1. beat' = NextTenant
      BY <2>2 DEF CommitBatch
    <3>2. NextTenant.phase = beat.phase /\ NextTenant.budget = beat.budget
      BY <2>1 DEF NextTenant, Beat
    <3>3. beat.budget - 0 = beat.budget
      BY <1>3
    <3> HIDE DEF n
    <3> QED
      BY <1>2, <2>2, <3>1, <3>2, <3>3
  <2>3. CASE n # 0
    <3> DEFINE left == IF beat.budget < n THEN 0 ELSE beat.budget - n
    <3>1. beat' = [beat EXCEPT !.tenantRound = beat.tenantRound + 1, !.progressed = TRUE,
                     !.budget = left]
      BY <2>1, <2>3 DEF CommitBatch, Beat
    <3>2. left = beat.budget - n
      BY <1>3
    <3> HIDE DEF left
    <3>3. beat'.phase = beat.phase /\ beat'.budget = left
      BY <2>1, <3>1 DEF Beat
    <3> QED
      BY <1>2, <3>2, <3>3
  <2> QED
    BY <2>2, <2>3
<1>7. beat.budget - (beat.budget - n) = n
  <2> HIDE DEF n
  <2> QED
    BY <1>3
<1> HIDE DEF n
<1>8. Cardinality(NewlySettled) = beat.budget - beat'.budget
  BY <1>2, <1>5, <1>6, <1>7
<1> QED
  BY <1>2, <1>4, <1>6, <1>8 DEF BudgetInv

(* What a step settles and what it is charged.                             *)
LEMMA EngineNextBudget ==
  ASSUME DateInv, BudgetInv, [EngineNext]_engineVars
  PROVE  /\ BudgetInv'
         /\ Cardinality(NewlySettled) =
              (IF beat.phase = "tenants" /\ beat'.phase = "tenants"
                 THEN beat.budget - beat'.budget
                 ELSE 0)
<1> DEFINE Charged == Cardinality(NewlySettled) =
                        (IF beat.phase = "tenants" /\ beat'.phase = "tenants"
                           THEN beat.budget - beat'.budget
                           ELSE 0)
           Goal == BudgetInv' /\ Charged
<1> SUFFICES Goal
  OBVIOUS
<1>0. EngineTypeOK /\ BatchDue /\ beat.budget \in Nat
  BY DEF DateInv, EngineTypeOK, Beat
<1>1. ASSUME NewlySettled = {}, BudgetKept
      PROVE  Charged
  <2>1. Cardinality(NewlySettled) = 0
    BY <1>1, FS_EmptySet
  <2>2. beat.budget - beat.budget = 0
    BY <1>0
  <2> QED
    BY <1>1, <2>1, <2>2 DEF BudgetKept
<1>2. CASE CommitBatch
  BY <1>0, <1>2, BatchCommits
<1> HIDE DEF Charged
<1>3. CASE tx.op # "settle" /\ tx'.op # "settle" /\ BudgetKept
  BY <1>0, <1>1, <1>3, OtherSteps
<1>4. CASE UNCHANGED <<commissions, tx, undo, beat>>
  <2>1. BudgetInv'
    BY <1>4 DEF BudgetInv, BatchCounted, Unlocked, Fresh
  <2>2. CommittedRows' = CommittedRows
    BY <1>4 DEF CommittedRows, Unlocked
  <2>3. NewlySettled = {} /\ BudgetKept
    BY <1>4, <2>2 DEF NewlySettled, BudgetKept
  <2> QED
    BY <1>1, <2>1, <2>3
<1>5. ASSUME NEW t \in Tenants, MaintainTenant(t)
      PROVE  Goal
  BY <1>0, <1>1, <1>5, BatchBegins
<1>6. ASSUME NEW c \in DOMAIN commissions, SettleOne(c) \/ AbortBatch(c)
      PROVE  Goal
  BY <1>0, <1>1, <1>6, RowSettles, BatchAborts
<1> HIDE DEF Goal
<1>7. CASE CommitBatch
  BY <1>2, <1>7 DEF Goal, Charged
<1> QED
  BY <1>0, <1>3, <1>4, <1>5, <1>6, <1>7, BatchKinds DEF Goal

(* A Maintain call settles exactly as many commissions as its budget is    *)
(* charged for, when their batch commits and never for a batch that was    *)
(* rolled back, over any number of tenants, rounds and rows and whatever   *)
(* comes between its batches (Maintain, workBudget).                       *)
THEOREM EngineBudgetCharged == EngineSpec => BudgetCharged
<1> DEFINE Inv == DateInv /\ BudgetInv
           Step == Cardinality(NewlySettled) =
                     (IF beat.phase = "tenants" /\ beat'.phase = "tenants"
                        THEN beat.budget - beat'.budget
                        ELSE 0)
<1>1. EngineInit => Inv
  <2> SUFFICES ASSUME EngineInit PROVE Inv
    OBVIOUS
  <2>1. DateInv
    BY EngineInitDates
  <2>2. Unlocked /\ tx.op # "settle"
    BY DEF EngineInit, Unlocked, Idle
  <2> QED
    BY <2>1, <2>2 DEF BudgetInv
<1>2. Inv /\ [EngineNext]_engineVars => Inv' /\ Step
  BY EngineNextDates, EngineNextBudget
<1>3. Inv /\ [EngineNext]_engineVars => Inv'
  BY <1>2
<1>4. Inv /\ [EngineNext]_engineVars => [Step]_engineVars
  BY <1>2
<1> HIDE DEF Inv, Step
<1>5. EngineSpec => [][Step]_engineVars
  BY <1>1, <1>3, <1>4, PTL DEF EngineSpec
<1> QED
  BY <1>5 DEF BudgetCharged, Step

=============================================================================
