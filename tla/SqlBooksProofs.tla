--------------------------- MODULE SqlBooksProofs ---------------------------
(***************************************************************************)
(* The money of the ledger on a SQL store: buckets against rows, entries   *)
(* against accounts and reversals against commissions, for any number of   *)
(* calls, agents, orders and retries and every interleaving of their       *)
(* statements.                                                             *)
(***************************************************************************)
EXTENDS SqlProofs

-----------------------------------------------------------------------------
(***************************************************************************)
(* Sums over the rows.  A kind of sum is named by a pair: what it compares *)
(* with a column of the accounts, or with the reversal rows, and of whom.  *)
(* Each adds up to zero over the committed rows.  A call that has written  *)
(* one side owes the other (Due).                                          *)
(***************************************************************************)

Kinds ==
  ({"reserved", "earned"} \X Agents)
    \cup ({"reversals"} \X (Orders \X Agents))
    \cup (IF AllowNegative THEN {} ELSE {"unsettled", "settled"} \X Agents)

AccountPart(j, a) ==
  CASE j[1] = "unsettled" -> a["frozen"]
    [] j[1] = "settled" -> a["available"] + a["withdrawing"] + a["withdrawn"]
    [] j[1] = "reserved" -> a["withdrawing"]
    [] j[1] = "earned" -> a["totalEarned"]
    [] OTHER -> 0

Unsettled == {"pending", "frozen"}

AccrualPart(j, id, row) ==
  CASE j[1] = "unsettled" /\ j[2] = row.agent /\ row.state \in Unsettled -> Outstanding(row)
    [] j[1] = "settled" /\ j[2] = row.agent /\ row.state = "settled" -> Outstanding(row)
    [] j[1] = "earned" /\ j[2] = row.agent -> row.amount
    [] j[1] = "reversals" /\ j[2] = <<id[2][2], id[2][3]>> -> row.reversed
    [] OTHER -> 0

ReversalPart(j, id, row) ==
  IF j[1] = "reversals" /\ j[2] = <<id[2][2], id[2][3]>> THEN -row.amount ELSE 0

WithdrawalPart(j, row) ==
  IF j[1] = "reserved" /\ j[2] = row.agent /\ row.state = "reserved" THEN row.amount ELSE 0

Weight(j, id, row) ==
  IF id[1] = "account" THEN IF id[2] = j[2] THEN AccountPart(j, row) ELSE 0
  ELSE IF IsAccrual(id) THEN -AccrualPart(j, id, row)
  ELSE IF IsReversal(id) THEN ReversalPart(j, id, row)
  ELSE IF id[1] = "withdrawal" THEN -WithdrawalPart(j, row)
  ELSE 0

Tally(j, F) == SumFunctionOnSet([id \in DOMAIN F |-> Weight(j, id, F[id])], DOMAIN F)

WeightIn(j, F, id) == IF id \in DOMAIN F THEN Weight(j, id, F[id]) ELSE 0

(* What a call has added to a sum and not committed.                       *)
Change(j, R, D) ==
  SumFunctionOnSet([id \in DOMAIN D |-> WeightIn(j, D, id) - WeightIn(j, R, id)], DOMAIN D)

(* What it has still to add: the increment it has asked for, the decision  *)
(* of a withdrawal and the accumulator of a reversed commission.           *)
DueIncrement(j, c) ==
  IF c.pc \in {"update", "lookup", "insert"} /\ j[2] = c.inc.key
  THEN AccountPart(j, c.inc.delta) ELSE 0

DueDecision(j, c) ==
  IF /\ c.pc \in Booking \cup {"decide"} /\ c.req.op \in {"payout", "reject"}
     /\ j[1] = "reserved" /\ j[2] = c.todo[1].row.agent
  THEN c.todo[1].row.amount ELSE 0

DueReversal(j, c) ==
  IF c.pc = "accumulate" /\ j[1] = "reversals"
     /\ j[2] = <<c.todo[1].id[2][2], c.todo[1].id[2][3]>>
  THEN -Reversed(c) ELSE 0

Owes(j, c) == DueIncrement(j, c) + DueDecision(j, c) + DueReversal(j, c)

(* The commissions a clawback has to do are not terminal, and a settlement *)
(* moves money between two buckets; without debt its guard never fails.    *)
LiveOK(c) ==
  /\ c.req.op \in {"refunded", "void"} /\ c.pc \notin {"vouchers", "voucher"} =>
       \A x \in Range(c.todo) : x.row.state \in Unsettled \cup {"settled"}
  /\ c.req.op = "maintain" /\ c.pc \in Booking =>
       /\ c.inc.delta["withdrawing"] = 0 /\ c.inc.delta["totalEarned"] = 0
       /\ c.inc.key = c.todo[1].row.agent
       /\ ~AllowNegative =>
            /\ c.pc \in {"update", "entry"}
            /\ c.inc.delta["available"] \in Nat /\ c.inc.delta["withdrawn"] = 0
            /\ c.inc.delta["available"] = -c.inc.delta["frozen"]

TallyLocal(R, D, c) == LiveOK(c) /\ \A j \in Kinds : Change(j, R, D) + Owes(j, c) = 0

TalliesZero(R) == \A j \in Kinds : Tally(j, R) = 0

TallyInv == TalliesZero(rows) /\ \A t \in Calls : TallyLocal(rows, Mine(t), call[t])

-----------------------------------------------------------------------------
(* The rows are well formed, and there are finitely many.                  *)
Ready(F) == RowsOK(F) /\ IsFiniteSet(DOMAIN F)

(* The names of the sums.                                                  *)
LEMMA KindsAre ==
  ASSUME NEW j \in Kinds
  PROVE  /\ j[1] \in {"reserved", "earned", "reversals", "unsettled", "settled"}
         /\ j[1] # "reversals" => j[2] \in Agents
         /\ j[1] = "reversals" => j[2] = <<j[2][1], j[2][2]>>
         /\ AllowNegative => j[1] \in {"reserved", "earned", "reversals"}
BY DEF Kinds

(* What a column of an account or an increment adds is a whole number.     *)
LEMMA AccountPartIs ==
  ASSUME NEW j, NEW a, a \in Account \/ a \in Delta
  PROVE  AccountPart(j, a) \in Int
<1>1. \A c \in Columns : a[c] \in Int
  BY DEF Account, Delta
<1> QED
  BY <1>1 DEF AccountPart, Columns, Buckets, Totals

(* The weight of a row is a whole number.                                  *)
LEMMA WeightIsInt ==
  ASSUME NEW j, NEW id, NEW row, RowOK(id, row)
  PROVE  Weight(j, id, row) \in Int
<1>1. CASE id[1] = "account"
  BY <1>1, AccountPartIs DEF Weight, RowOK
<1>2. CASE IsAccrual(id)
  <2>1. row.amount \in Int /\ row.reversed \in Int /\ row.amount - row.reversed \in Int
    BY <1>2 DEF RowOK, AccrualOK, AccrualRow
  <2>2. AccrualPart(j, id, row) \in Int
    BY <2>1 DEF AccrualPart, Outstanding
  <2> QED
    BY <1>2, <2>2 DEF Weight, IsAccrual
<1>3. CASE IsReversal(id)
  <2>1. row.amount \in Int
    BY <1>3 DEF RowOK, ReversalOK, ReversalRow
  <2>2. ReversalPart(j, id, row) \in Int
    BY <2>1 DEF ReversalPart
  <2> QED
    BY <1>3, <2>2 DEF Weight, IsAccrual, IsReversal
<1>4. CASE id[1] = "withdrawal"
  <2>1. row.amount \in Int
    BY <1>4 DEF RowOK, WithdrawalRow
  <2>2. WithdrawalPart(j, row) \in Int
    BY <2>1 DEF WithdrawalPart
  <2> QED
    BY <1>4, <2>2 DEF Weight, IsAccrual, IsReversal
<1>5. CASE id[1] # "account" /\ ~IsAccrual(id) /\ ~IsReversal(id) /\ id[1] # "withdrawal"
  BY <1>5 DEF Weight
<1> QED
  BY <1>1, <1>2, <1>3, <1>4, <1>5

(* A weight is a number.                                                   *)
LEMMA WeightInIsInt ==
  ASSUME NEW j, NEW F, RowsOK(F), NEW id
  PROVE  WeightIn(j, F, id) \in Int
BY WeightIsInt DEF WeightIn, RowsOK

(* A call that has written nothing has changed nothing.                    *)
LEMMA ChangeNone ==
  ASSUME NEW j, NEW R, NEW D, DOMAIN D = {}
  PROVE  Change(j, R, D) = 0
BY SumOfNone DEF Change

(* The weight a row has for the call that is about to write it.            *)
Had(j, R, D, id) == IF id \in DOMAIN D THEN Weight(j, id, D[id]) ELSE WeightIn(j, R, id)

(* One more write changes a sum by what it changes the weight of the row.  *)
LEMMA ChangeWith ==
  ASSUME NEW j, NEW R, RowsOK(R), NEW D, Ready(D), NEW id, NEW row, RowOK(id, row)
  PROVE  /\ Change(j, R, With(D, id, row)) =
              Change(j, R, D) + Weight(j, id, row) - Had(j, R, D, id)
         /\ Change(j, R, D) \in Int /\ Had(j, R, D, id) \in Int
         /\ Weight(j, id, row) \in Int
<1> DEFINE D2 == With(D, id, row)
           S == DOMAIN D
           T == DOMAIN D2
           f == [x \in S |-> WeightIn(j, D, x) - WeightIn(j, R, x)]
           g == [x \in T |-> WeightIn(j, D2, x) - WeightIn(j, R, x)]
<1>1. /\ T = S \cup {id} /\ D2[id] = row /\ \A x \in S \ {id} : D2[x] = D[x]
  BY DEF With
<1> HIDE DEF D2
<1>2. RowsOK(D2)
  BY <1>1 DEF RowsOK, Ready
<1>3. /\ \A x : WeightIn(j, R, x) \in Int
      /\ \A x : WeightIn(j, D, x) \in Int
      /\ \A x : WeightIn(j, D2, x) \in Int
  BY <1>2, WeightInIsInt DEF Ready
<1>4. IsFiniteSet(S) /\ S \ {id} = T \ {id}
  BY <1>1 DEF Ready
<1>5. \A x \in S \ {id} : f[x] = g[x]
  <2> SUFFICES ASSUME NEW x \in S \ {id} PROVE f[x] = g[x]
    OBVIOUS
  <2>1. x \in T /\ x \in DOMAIN D /\ D2[x] = D[x]
    BY <1>1
  <2>2. WeightIn(j, D2, x) = WeightIn(j, D, x)
    BY <2>1 DEF WeightIn
  <2> QED
    BY <2>1, <2>2
<1>6. (\A x \in S : f[x] \in Int) /\ (\A x \in T : g[x] \in Int)
  BY <1>3
<1>7. /\ id \in T /\ g[id] = Weight(j, id, row) - WeightIn(j, R, id)
      /\ id \in S => f[id] = Weight(j, id, D[id]) - WeightIn(j, R, id)
  BY <1>1 DEF WeightIn
<1>8. Weight(j, id, row) \in Int /\ (id \in S => Weight(j, id, D[id]) \in Int)
  BY WeightIsInt DEF RowsOK, Ready
<1>9. Change(j, R, D) = SumFunctionOnSet(f, S) /\ Change(j, R, D2) = SumFunctionOnSet(g, T)
  BY DEF Change
<1> HIDE DEF f, g, S, T
<1>10. SumFunctionOnSet(f, S) \in Int
  BY <1>4, <1>6, SumIsInt
<1>11. SumFunctionOnSet(g, T) =
         SumFunctionOnSet(f, S) - (IF id \in S THEN f[id] ELSE 0)
                                + (IF id \in T THEN g[id] ELSE 0)
  BY <1>4, <1>5, <1>6, SumStep
<1>12. Had(j, R, D, id) = IF id \in S THEN Weight(j, id, D[id]) ELSE WeightIn(j, R, id)
  BY DEF Had, S
<1>13. Change(j, R, D2) = Change(j, R, D) + Weight(j, id, row) - Had(j, R, D, id)
  BY <1>3, <1>7, <1>8, <1>9, <1>10, <1>11, <1>12
<1> QED
  BY <1>3, <1>8, <1>9, <1>10, <1>12, <1>13 DEF D2

(* What is committed adds up to what was and what the call has changed.    *)
LEMMA TallyOver ==
  ASSUME NEW j, NEW R, Ready(R), NEW D, Ready(D)
  PROVE  /\ Tally(j, Over(R, D)) = Tally(j, R) + Change(j, R, D)
         /\ Tally(j, R) \in Int /\ Change(j, R, D) \in Int
<1> DEFINE Q == Over(R, D)
           U == DOMAIN Q
           V == DOMAIN R
           S == DOMAIN D
           q == [x \in U |-> Weight(j, x, Q[x])]
           r == [x \in U |-> WeightIn(j, R, x)]
           h == [x \in U |-> q[x] - r[x]]
           f == [x \in S |-> WeightIn(j, D, x) - WeightIn(j, R, x)]
           w == [x \in V |-> Weight(j, x, R[x])]
<1>1. /\ U = V \cup S
      /\ \A x \in S : Q[x] = D[x]
      /\ \A x \in V \ S : Q[x] = R[x]
  BY DEF Over, Cur
<1>2. Tally(j, Q) = SumFunctionOnSet(q, U)
  BY DEF Tally
<1>2a. Tally(j, R) = SumFunctionOnSet(w, V) /\ Change(j, R, D) = SumFunctionOnSet(f, S)
  BY DEF Tally, Change
<1> HIDE DEF Q
<1>3. IsFiniteSet(U) /\ IsFiniteSet(V) /\ IsFiniteSet(S) /\ V \subseteq U /\ S \subseteq U
  BY <1>1, FS_Union DEF Ready
<1>4. \A x \in U : RowOK(x, Q[x])
  BY <1>1 DEF Ready, RowsOK
<1>5. \A x : WeightIn(j, R, x) \in Int /\ WeightIn(j, D, x) \in Int
  BY WeightInIsInt DEF Ready
<1>6. \A x \in U : q[x] \in Int /\ r[x] \in Int /\ h[x] = q[x] - r[x] /\ h[x] \in Int
  BY <1>4, <1>5, WeightIsInt
<1>7. \A x \in V : r[x] = w[x] /\ w[x] \in Int
  BY <1>3, <1>5 DEF WeightIn
<1>8. \A x \in U \ V : r[x] = 0
  BY DEF WeightIn
<1>9. \A x \in S : h[x] = f[x] /\ f[x] \in Int
  BY <1>1, <1>5 DEF WeightIn
<1>10. \A x \in U \ S : h[x] = 0
  <2> SUFFICES ASSUME NEW x \in U \ S PROVE h[x] = 0
    OBVIOUS
  <2>1. q[x] = r[x]
    BY <1>1 DEF WeightIn
  <2> HIDE DEF q, r
  <2> QED
    BY <1>6, <2>1
<1> HIDE DEF q, r, h, f, w, U, V, S
<1>11. SumFunctionOnSet(h, U) = SumFunctionOnSet(q, U) - SumFunctionOnSet(r, U)
  BY <1>3, <1>6, SumDifference
<1>12. SumFunctionOnSet(r, U) = SumFunctionOnSet(w, V)
  <2>1. SumFunctionOnSet(r, U) = SumFunctionOnSet(r, V)
    BY <1>3, <1>6, <1>8, SumSupport
  <2> QED
    BY <1>3, <1>7, <2>1, SumKept
<1>13. SumFunctionOnSet(h, U) = SumFunctionOnSet(f, S)
  <2>1. SumFunctionOnSet(h, U) = SumFunctionOnSet(h, S)
    BY <1>3, <1>6, <1>10, SumSupport
  <2> QED
    BY <1>3, <1>9, <2>1, SumKept
<1>14. /\ SumFunctionOnSet(w, V) \in Int /\ SumFunctionOnSet(f, S) \in Int
       /\ SumFunctionOnSet(q, U) \in Int
  BY <1>3, <1>6, <1>7, <1>9, SumIsInt
<1> QED
  BY <1>2, <1>2a, <1>11, <1>12, <1>13, <1>14 DEF Q

(* What another call commits does not touch what this one has changed.     *)
LEMMA ChangeKept ==
  ASSUME NEW j, NEW R, NEW Q, NEW D, IsFiniteSet(DOMAIN D), Unmoved(R, Q, D)
  PROVE  Change(j, Q, D) = Change(j, R, D)
<1> DEFINE f == [x \in DOMAIN D |-> WeightIn(j, D, x) - WeightIn(j, R, x)]
           g == [x \in DOMAIN D |-> WeightIn(j, D, x) - WeightIn(j, Q, x)]
<1>1. \A x \in DOMAIN D : f[x] = g[x]
  BY DEF Unmoved, WeightIn
<1> HIDE DEF f, g
<1>2. SumFunctionOnSet(g, DOMAIN D) = SumFunctionOnSet(f, DOMAIN D)
  BY <1>1, SumKept
<1> QED
  BY <1>2 DEF Change, f, g

-----------------------------------------------------------------------------
(* Rows that have no part in a sum, and rows that do.                      *)
LEMMA PlainWeight ==
  ASSUME NEW j, NEW id, NEW row, id[1] \in {"ledger", "refund"}
  PROVE  Weight(j, id, row) = 0
BY DEF Weight, IsAccrual, IsReversal

(* What an accrual weighs.                                                 *)
LEMMA AccrualWeight ==
  ASSUME NEW j, NEW id, NEW row, IsAccrual(id)
  PROVE  Weight(j, id, row) = -AccrualPart(j, id, row)
BY DEF Weight, IsAccrual

(* What a reversal weighs.                                                 *)
LEMMA ReversalWeight ==
  ASSUME NEW j, NEW id, NEW row, IsReversal(id)
  PROVE  Weight(j, id, row) = ReversalPart(j, id, row)
BY DEF Weight, IsAccrual, IsReversal

(* What a withdrawal weighs.                                               *)
LEMMA WithdrawalWeight ==
  ASSUME NEW j, NEW id, NEW row, id[1] = "withdrawal"
  PROVE  Weight(j, id, row) = -WithdrawalPart(j, row)
BY DEF Weight, IsAccrual, IsReversal

(* What an account weighs.                                                 *)
LEMMA AccountWeight ==
  ASSUME NEW j, NEW k, NEW a
  PROVE  Weight(j, <<"account", k>>, a) = IF k = j[2] THEN AccountPart(j, a) ELSE 0
BY DEF Weight

(* The column of an account after an increment.                            *)
LEMMA ApplyPart ==
  ASSUME NEW j, NEW a \in Account, NEW d \in Delta
  PROVE  /\ AccountPart(j, Apply(a, d)) = AccountPart(j, a) + AccountPart(j, d)
         /\ AccountPart(j, a) \in Int /\ AccountPart(j, d) \in Int
         /\ AccountPart(j, EmptyAccount) = 0
<1> DEFINE b == Apply(a, d)
<1>1. \A c \in Columns : a[c] \in Int /\ d[c] \in Int /\ b[c] = a[c] + d[c]
  BY ApplyIs DEF Account, Delta
<1>2. \A c \in Columns : EmptyAccount[c] = 0
  BY DEF EmptyAccount
<1> HIDE DEF b
<1>3. /\ "frozen" \in Columns /\ "available" \in Columns /\ "withdrawing" \in Columns
      /\ "withdrawn" \in Columns /\ "totalEarned" \in Columns
  BY DEF Columns, Buckets, Totals
<1>4. AccountPart(j, b) = AccountPart(j, a) + AccountPart(j, d)
  BY <1>1, <1>3 DEF AccountPart
<1>5. AccountPart(j, EmptyAccount) = 0
  BY <1>2, <1>3 DEF AccountPart
<1> QED
  BY <1>4, <1>5, AccountPartIs DEF b

(* Places of a call that owes a sum something.                             *)
Busy == Booking \cup {"decide", "accumulate"}

(* A call that is not between two writes owes nothing.                     *)
LEMMA OwesNothing ==
  ASSUME NEW j, NEW c, c.pc \notin Busy
  PROVE  Owes(j, c) = 0
BY DEF Owes, DueIncrement, DueDecision, DueReversal, Busy, Booking

(* What a call owes is a whole number.                                     *)
LEMMA OwesIsInt ==
  ASSUME NEW j, NEW R, NEW D, NEW c, Local(R, D, c)
  PROVE  Owes(j, c) \in Int
<1>1. DueIncrement(j, c) \in Int
  <2>1. CASE c.pc \in {"update", "lookup", "insert"}
    <3>1. c.inc.delta \in Delta
      BY <2>1 DEF Local, IncOK, Booking
    <3> QED
      BY <3>1, AccountPartIs DEF DueIncrement
  <2>2. CASE c.pc \notin {"update", "lookup", "insert"}
    BY <2>2 DEF DueIncrement
  <2> QED
    BY <2>1, <2>2
<1>2. DueDecision(j, c) \in Int
  <2>1. CASE c.pc \in Booking \cup {"decide"} /\ c.req.op \in {"payout", "reject"}
    <3>1. c.todo # << >>
      BY <2>1 DEF Local, TodoOK
    <3>2. c.todo[1].row.amount \in Int
      BY <2>1, <3>1, HeadCopy DEF Local, WithdrawalRow
    <3> QED
      BY <3>2 DEF DueDecision
  <2>2. CASE ~(c.pc \in Booking \cup {"decide"} /\ c.req.op \in {"payout", "reject"})
    BY <2>2 DEF DueDecision
  <2> QED
    BY <2>1, <2>2
<1>3. DueReversal(j, c) \in Int
  <2>1. CASE c.pc = "accumulate"
    <3>1. c.todo # << >>
      BY <2>1 DEF Local, TodoOK
    <3>2. Reversed(c) \in Int
      BY <2>1, <3>1, TargetType
    <3>3. -Reversed(c) \in Int
      BY <3>2
    <3> QED
      BY <3>3 DEF DueReversal
  <2>2. CASE c.pc # "accumulate"
    BY <2>2 DEF DueReversal
  <2> QED
    BY <2>1, <2>2
<1> QED
  BY <1>1, <1>2, <1>3 DEF Owes

(* A call that has written nothing owes nothing.                           *)
LEMMA TallyEmpty ==
  ASSUME NEW R, NEW D2, NEW c2, DOMAIN D2 = {}, c2.pc \notin Busy, LiveOK(c2)
  PROVE  TallyLocal(R, D2, c2)
BY ChangeNone, OwesNothing DEF TallyLocal

(* The end of a transaction.                                               *)
LEMMA TallyEnds ==
  ASSUME NEW R, NEW D, NEW c, NEW D2, NEW c2, NEW r, Ended(D2, c, c2, r)
  PROVE  TallyLocal(R, D2, c2)
<1>1. Range(c2.todo) = {}
  BY ShortLists DEF Ended
<1>2. LiveOK(c2)
  BY <1>1 DEF LiveOK, Ended, Booking
<1> QED
  BY <1>2, TallyEmpty DEF Ended, Busy, Booking

(* A step that writes nothing and owes the same.                           *)
LEMMA TallySame ==
  ASSUME NEW R, NEW D, NEW c, NEW c2, TallyLocal(R, D, c), LiveOK(c2),
         \A j \in Kinds : Owes(j, c2) = Owes(j, c)
  PROVE  TallyLocal(R, D, c2)
BY DEF TallyLocal

(* A step that writes a row and owes so much less.                         *)
LEMMA TallyWrite ==
  ASSUME NEW R, NEW D, NEW c, NEW D2, NEW c2, RowsOK(R), Ready(D), Local(R, D, c),
         Local(R, D2, c2), TallyLocal(R, D, c), LiveOK(c2),
         NEW id, NEW row, D2 = With(D, id, row),
         \A j \in Kinds :
           Weight(j, id, row) + Owes(j, c2) = Had(j, R, D, id) + Owes(j, c)
  PROVE  TallyLocal(R, D2, c2)
<1>1. RowOK(id, row)
  <2>1. id \in DOMAIN D2 /\ D2[id] = row
    BY DEF With
  <2> QED
    BY <2>1 DEF Local, OwnOK, RowsOK
<1>2. ASSUME NEW j \in Kinds PROVE Change(j, R, D2) + Owes(j, c2) = 0
  <2>1. /\ Change(j, R, D2) = Change(j, R, D) + Weight(j, id, row) - Had(j, R, D, id)
        /\ Change(j, R, D) \in Int /\ Had(j, R, D, id) \in Int
        /\ Weight(j, id, row) \in Int
    BY <1>1, ChangeWith
  <2>2. Owes(j, c) \in Int /\ Owes(j, c2) \in Int
    BY OwesIsInt
  <2>3. Change(j, R, D) + Owes(j, c) = 0
    BY DEF TallyLocal
  <2>4. Weight(j, id, row) + Owes(j, c2) = Had(j, R, D, id) + Owes(j, c)
    OBVIOUS
  <2> QED
    BY <2>1, <2>2, <2>3, <2>4
<1> QED
  BY <1>2 DEF TallyLocal

(* The weight of a row that is read and written back, and of a new one.    *)
LEMMA HadSwapped ==
  ASSUME NEW j, NEW R, NEW D, NEW D2, NEW x, NEW row, CopyOK(R, x), Swaps(R, D, D2, x, row)
  PROVE  Had(j, R, D, x.id) = Weight(j, x.id, x.row)
BY DEF Had, WeightIn, Swaps, CopyOK

(* A new row weighed nothing before.                                       *)
LEMMA HadNew ==
  ASSUME NEW j, NEW R, NEW D, NEW id, id \notin Known(R, D)
  PROVE  Had(j, R, D, id) = 0
BY DEF Had, WeightIn, Known

(* The commissions a call has left to do.                                  *)
LEMMA LiveTail ==
  ASSUME NEW R, NEW c, NEW c2, TodoOK(R, c), LiveOK(c), c2.req = c.req, c.todo # << >>,
         c2.todo = Tail(c.todo), c.pc \notin {"vouchers", "voucher"},
         c2.pc \notin Booking
  PROVE  LiveOK(c2)
<1>1. Range(c2.todo) \subseteq Range(c.todo)
  BY ListTail DEF TodoOK
<1> QED
  BY <1>1 DEF LiveOK

(* A step that keeps the list of the call.                                 *)
LEMMA LiveSame ==
  ASSUME NEW c, NEW c2, LiveOK(c), c2.req = c.req, c2.todo = c.todo,
         c.pc \notin {"vouchers", "voucher"},
         c2.pc \in Booking => c.req.op # "maintain"
  PROVE  LiveOK(c2)
BY DEF LiveOK

(* The steps that begin a transaction, end it or only look.                *)
LEMMA TallyBegins ==
  ASSUME NEW R, RowsOK(R), NEW D, NEW c, NEW D2, NEW c2, Local(R, D, c), TallyLocal(R, D, c),
         Local(R, D2, c2),
         \/ PaidStep(R, D, c, D2, c2) \/ ReceivedStep(R, D, c, D2, c2)
         \/ MaintainStep(R, D, c, D2, c2) \/ RefundedStep(R, D, c, D2, c2)
         \/ VoidStep(R, D, c, D2, c2) \/ RiskStep(R, D, c, D2, c2)
         \/ WithdrawStep(R, D, c, D2, c2) \/ CheckStep(R, D, c, D2, c2)
         \/ LedgerStep(R, D, c, D2, c2) \/ RetryStep(R, D, c, D2, c2)
  PROVE  TallyLocal(R, D2, c2)
<1>1. CASE \E r : Ended(D2, c, c2, r)
  BY <1>1, TallyEnds
<1>2. CASE RetryStep(R, D, c, D2, c2)
  <2>1. Range(c2.todo) = {}
    BY <1>2, ShortLists DEF RetryStep
  <2>2. LiveOK(c2)
    BY <1>2, <2>1 DEF LiveOK, RetryStep, Booking
  <2> QED
    BY <1>2, <2>2, TallyEmpty DEF RetryStep, Busy, Booking
<1>3. CASE ~\E r : Ended(D2, c, c2, r)
  <2>1. CASE LedgerStep(R, D, c, D2, c2)
    BY <1>3, <2>1 DEF LedgerStep
  <2>2. CASE RetryStep(R, D, c, D2, c2)
    BY <1>2, <2>2
  <2>3. CASE ~LedgerStep(R, D, c, D2, c2) /\ ~RetryStep(R, D, c, D2, c2)
    <3>1. Begun(R, D, c, D2, c2) /\ c2.pc \notin Busy
      BY <1>3, <2>3 DEF PaidStep, ReceivedStep, MaintainStep, RefundedStep, VoidStep,
         RiskStep, WithdrawStep, CheckStep, Busy, Booking
    <3>2. DOMAIN D2 = {} /\ c2.req = c.req
      BY <3>1 DEF Begun, Local, OwnOK, Idle
    <3>3. LiveOK(c2)
      <4>1. c2.req.op = "maintain" => c2.pc \notin Booking
        BY <3>1 DEF Busy
      <4>2. CASE VoidStep(R, D, c, D2, c2)
        <5>1. PICK id : c2.todo = <<[id |-> id, row |-> R[id]]>> /\ R[id].state \in Unsettled
          BY <1>3, <4>2 DEF VoidStep, Unsettled
        <5> DEFINE x == [id |-> id, row |-> R[id]]
        <5>2. Range(c2.todo) = {x} /\ x.row.state \in Unsettled
          BY <5>1, ShortLists
        <5> QED
          BY <4>1, <5>2 DEF LiveOK
      <4>3. CASE RefundedStep(R, D, c, D2, c2)
        <5>1. c2.pc = "vouchers" /\ c2.req.op = "refunded"
          BY <1>3, <3>2, <4>3 DEF RefundedStep
        <5> QED
          BY <5>1 DEF LiveOK, Booking
      <4>4. CASE c2.req.op \notin {"refunded", "void"}
        BY <4>1, <4>4 DEF LiveOK
      <4>5. c2.req.op \in {"refunded", "void"} =>
              RefundedStep(R, D, c, D2, c2) \/ VoidStep(R, D, c, D2, c2)
        BY <2>3, <3>2 DEF PaidStep, ReceivedStep, MaintainStep, RefundedStep, VoidStep,
           RiskStep, WithdrawStep, CheckStep
      <4> QED
        BY <4>2, <4>3, <4>4, <4>5
    <3> QED
      BY <3>1, <3>2, <3>3, TallyEmpty
  <2> QED
    BY <2>1, <2>2, <2>3
<1> QED
  BY <1>1, <1>3

(* A decision begins by asking for the money to be moved.                  *)
LEMMA TallyDecision ==
  ASSUME NEW R, RowsOK(R), NEW D, NEW c, NEW D2, NEW c2, Local(R, D, c), TallyLocal(R, D, c),
         DecisionStep(R, D, c, D2, c2)
  PROVE  TallyLocal(R, D2, c2)
<1>1. CASE \E r : Ended(D2, c, c2, r)
  BY <1>1, TallyEnds
<1>2. CASE ~\E r : Ended(D2, c, c2, r)
  <2> DEFINE id == <<"withdrawal", c.req.key>>
             k == R[id].agent
             n == R[id].amount
             b == DecisionBucket(c)
             d == MoveDelta("withdrawing", b, n)
             x == [id |-> id, row |-> R[id]]
  <2>1. /\ Begun(R, D, c, D2, c2) /\ id \in DOMAIN R /\ c2.todo = <<x>>
        /\ c2.pc = "update" /\ c2.inc.key = k /\ c2.inc.delta = d
        /\ c.req.op \in {"payout", "reject"} /\ c2.req = c.req
    BY <1>2 DEF DecisionStep, Asks, Begun
  <2>2. DOMAIN D2 = {}
    BY <2>1 DEF Begun, Local, OwnOK, Idle
  <2>3. k \in Agents /\ n \in Nat
    <3>1. RowOK(id, R[id]) /\ id[1] = "withdrawal"
      BY <2>1 DEF RowsOK
    <3> HIDE DEF id
    <3> QED
      BY <3>1 DEF RowOK, WithdrawalRow
  <2>4. c2.todo[1].row.agent = k /\ c2.todo[1].row.amount = n
    <3>1. c2.todo[1] = x
      BY <2>1
    <3> QED
      BY <3>1
  <2>5. \A col \in Columns : d[col] = IF col = "withdrawing" THEN -n ELSE IF col = b THEN n ELSE 0
    <3>1. b \in {"withdrawn", "available"}
      BY DEF DecisionBucket
    <3> HIDE DEF b, n
    <3> QED
      BY <2>3, <3>1, MoveDeltaIs DEF Buckets
  <2>6. b \in {"withdrawn", "available"}
    BY DEF DecisionBucket
  <2> HIDE DEF d, x, n, k, b, id
  <2>7. ASSUME NEW j \in Kinds PROVE Owes(j, c2) = 0
    <3>1. /\ d["withdrawing"] = -n /\ d["frozen"] = 0 /\ d["totalEarned"] = 0
          /\ d["available"] + d["withdrawn"] = n /\ d["available"] \in Int
          /\ d["withdrawn"] \in Int
      BY <2>3, <2>5, <2>6 DEF Columns, Buckets, Totals
    <3>2. AccountPart(j, d) = IF j[1] = "reserved" THEN -n ELSE 0
      BY <2>3, <3>1 DEF AccountPart
    <3>3. DueIncrement(j, c2) = IF j[2] = k /\ j[1] = "reserved" THEN -n ELSE 0
      BY <2>1, <3>2 DEF DueIncrement
    <3>4. DueDecision(j, c2) = IF j[2] = k /\ j[1] = "reserved" THEN n ELSE 0
      BY <2>1, <2>4 DEF DueDecision, Booking
    <3>5. DueReversal(j, c2) = 0
      BY <2>1 DEF DueReversal
    <3> QED
      BY <2>3, <3>3, <3>4, <3>5 DEF Owes
  <2>8. LiveOK(c2)
    BY <2>1 DEF LiveOK
  <2> QED
    BY <2>2, <2>7, <2>8, ChangeNone DEF TallyLocal
<1> QED
  BY <1>1, <1>2

(* A version of a commission that differs in its date only.                *)
LEMMA DatedWeight ==
  ASSUME NEW j, NEW id, NEW r, IsAccrual(id), AccrualOK(id, r)
  PROVE  Weight(j, id, [r EXCEPT !.dated = TRUE, !.version = @ + 1]) = Weight(j, id, r)
<1>1. r \in AccrualRow
  BY DEF AccrualOK
<1> DEFINE n == r.version + 1
           row == [r EXCEPT !.dated = TRUE, !.version = n]
<1>2. n \in Nat \ {0}
  BY <1>1 DEF AccrualRow
<1> HIDE DEF n
<1>3. /\ row.agent = r.agent /\ row.amount = r.amount
      /\ row.state = r.state /\ row.reversed = r.reversed
  BY <1>1, <1>2 DEF AccrualRow
<1> HIDE DEF row
<1>4. AccrualPart(j, id, row) = AccrualPart(j, id, r)
  BY <1>3 DEF AccrualPart, Outstanding
<1> QED
  BY <1>4, AccrualWeight DEF row, n

(* The columns of a version of a commission in another state.              *)
LEMMA MovedFields ==
  ASSUME NEW id, NEW r, AccrualOK(id, r), NEW state \in RowStates
  PROVE  LET row == [r EXCEPT !.state = state, !.version = @ + 1]
         IN  /\ row.agent = r.agent /\ row.amount = r.amount
             /\ row.reversed = r.reversed /\ row.state = state
<1>1. r \in AccrualRow
  BY DEF AccrualOK
<1> DEFINE n == r.version + 1
           row == [r EXCEPT !.state = state, !.version = n]
<1>2. n \in Nat \ {0}
  BY <1>1 DEF AccrualRow
<1> HIDE DEF n
<1>3. /\ row.agent = r.agent /\ row.amount = r.amount
      /\ row.state = state /\ row.reversed = r.reversed
  BY <1>1, <1>2 DEF AccrualRow
<1> HIDE DEF row
<1> QED
  BY <1>3 DEF row, n

(* Risk control moves a commission between the unsettled states.           *)
LEMMA FrozenWeight ==
  ASSUME NEW j, NEW id, NEW r, IsAccrual(id), r.state \in Unsettled, NEW row,
         row.agent = r.agent, row.amount = r.amount, row.reversed = r.reversed,
         row.state \in Unsettled
  PROVE  Weight(j, id, row) = Weight(j, id, r)
<1>3. AccrualPart(j, id, row) = AccrualPart(j, id, r)
  BY DEF AccrualPart, Outstanding, Unsettled
<1> QED
  BY <1>3, AccrualWeight

(* The steps whose write has no part in a sum.                             *)
LEMMA TallyAside ==
  ASSUME NEW R, RowsOK(R), NEW D, Ready(D), NEW c, NEW D2, NEW c2, Local(R, D, c),
         TallyLocal(R, D, c), Local(R, D2, c2),
         \/ DateStep(R, D, c, D2, c2) \/ FreezeStep(R, D, c, D2, c2)
  PROVE  TallyLocal(R, D2, c2)
<1>1. CASE \E r : Ended(D2, c, c2, r)
  BY <1>1, TallyEnds
<1>2. CASE ~\E r : Ended(D2, c, c2, r)
  <2> DEFINE x == c.todo[1]
             id == x.id
  <2>1. /\ c.todo # << >> /\ c.req.op \in {"received", "risk"} /\ c2.req = c.req
        /\ c.pc \notin Busy /\ c2.pc \notin Busy /\ WellFormed(c.req)
    BY <1>2 DEF DateStep, FreezeStep, Local, PlaceOK, GoesOn, Flows, Busy, Booking, RequestOK
  <2>2. /\ CopyOK(R, x) /\ IsAccrual(id) /\ AccrualOK(id, x.row)
    BY <2>1, HeadCopy DEF Local
  <2>3. LiveOK(c2)
    BY <2>1 DEF LiveOK
  <2>4. \A j \in Kinds : Owes(j, c) = 0 /\ Owes(j, c2) = 0
    BY <2>1, OwesNothing
  <2>5. ASSUME NEW row, Swaps(R, D, D2, x, row), \A j : Weight(j, id, row) = Weight(j, id, x.row)
        PROVE  TallyLocal(R, D2, c2)
    <3>1. D2 = With(D, id, row)
      BY <2>5 DEF Swaps
    <3>2. \A j \in Kinds : Had(j, R, D, id) = Weight(j, id, x.row)
      BY <2>2, <2>5, HadSwapped
    <3>3. \A j \in Kinds :
            Weight(j, id, row) + Owes(j, c2) = Had(j, R, D, id) + Owes(j, c)
      BY <2>4, <2>5, <3>2
    <3> HIDE DEF id, x
    <3> QED
      BY <2>3, <3>1, <3>3, TallyWrite
  <2>6. CASE D2 = D
    BY <2>3, <2>4, <2>6, TallySame
  <2>7. CASE DateStep(R, D, c, D2, c2)
    <3> DEFINE row == [x.row EXCEPT !.dated = TRUE, !.version = @ + 1]
    <3>1. D2 = D \/ Swaps(R, D, D2, x, row)
      BY <2>7 DEF DateStep
    <3>2. \A j : Weight(j, id, row) = Weight(j, id, x.row)
      BY <2>2, DatedWeight
    <3> HIDE DEF row, x
    <3> QED
      BY <2>5, <2>6, <3>1, <3>2
  <2>8. CASE FreezeStep(R, D, c, D2, c2)
    <3> DEFINE st == c.req.to
               row == [x.row EXCEPT !.state = st, !.version = @ + 1]
    <3>1. Swaps(R, D, D2, x, row) /\ x.row.state = c.req.from
      BY <1>2, <2>8 DEF FreezeStep
    <3>2. x.row.state \in Unsettled /\ st \in Unsettled
      BY <2>1, <2>8, <3>1 DEF WellFormed, Unsettled, FreezeStep, Local, PlaceOK
    <3>3. \A j : Weight(j, id, row) = Weight(j, id, x.row)
      <4> DEFINE r == x.row
      <4>1. IsAccrual(id) /\ AccrualOK(id, r) /\ r.state \in Unsettled /\ st \in RowStates
        BY <2>2, <3>2 DEF RowStates, Unsettled
      <4>2. /\ row.agent = r.agent /\ row.amount = r.amount
            /\ row.reversed = r.reversed /\ row.state = st
        <5>1. row = [r EXCEPT !.state = st, !.version = @ + 1]
          OBVIOUS
        <5> HIDE DEF x, id, r, st, row
        <5> QED
          BY <4>1, <5>1, MovedFields
      <4> HIDE DEF row, r, id
      <4>3. \A j : Weight(j, id, row) = Weight(j, id, r)
        BY <3>2, <4>1, <4>2, FrozenWeight
      <4> QED
        BY <4>3 DEF r
    <3> HIDE DEF row, x
    <3> QED
      BY <2>5, <3>1, <3>3
  <2> QED
    BY <2>7, <2>8
<1> QED
  BY <1>1, <1>2

(* The refund's voucher, and the rows it leaves to do.                     *)
LEMMA TallyVoucher ==
  ASSUME NEW R, RowsOK(R), NEW D, Ready(D), NEW c, NEW D2, NEW c2, Local(R, D, c),
         TallyLocal(R, D, c), Local(R, D2, c2),
         \/ VouchersStep(R, D, c, D2, c2) \/ VoucherStep(R, D, c, D2, c2)
         \/ WithdrawalsStep(R, D, c, D2, c2)
  PROVE  TallyLocal(R, D2, c2)
<1>1. CASE \E r : Ended(D2, c, c2, r)
  BY <1>1, TallyEnds
<1>2. CASE ~\E r : Ended(D2, c, c2, r)
  <2>1. c.pc \notin Busy /\ c2.pc \notin Busy /\ c2.req = c.req /\ c2.pc \notin Booking
    BY <1>2 DEF VouchersStep, VoucherStep, WithdrawalsStep, Flows, Busy, Booking
  <2>2. \A j \in Kinds : Owes(j, c) = 0 /\ Owes(j, c2) = 0
    BY <2>1, OwesNothing
  <2>3. CASE VouchersStep(R, D, c, D2, c2) \/ WithdrawalsStep(R, D, c, D2, c2)
    <3>1. D2 = D /\ (c2.pc = "voucher" \/ c.req.op = "check")
      BY <1>2, <2>3 DEF VouchersStep, WithdrawalsStep, Local, PlaceOK
    <3>2. LiveOK(c2)
      BY <2>1, <3>1 DEF LiveOK
    <3> QED
      BY <2>2, <3>1, <3>2, TallySame
  <2>4. CASE VoucherStep(R, D, c, D2, c2)
    <3> DEFINE id == <<"refund", <<c.req.order, c.req.key>>>>
               row == [amount |-> c.req.amount, cumulative |-> c.sum]
    <3>1. c.pc = "voucher" /\ c.req.op = "refunded" /\ IsList(c.todo)
      BY <2>4 DEF VoucherStep, Local, PlaceOK, TodoOK
    <3>2. LiveOK(c2)
      <4>1. ASSUME NEW x \in Range(c2.todo)
            PROVE  x.row.state \in Unsettled \cup {"settled"}
        <5>1. x.row.state \notin {"reversed", "void"}
          <6>1. CASE c2.todo = << >>
            BY <4>1, <6>1, ShortLists
          <6>2. CASE c2.todo \in ByLayer(Left(c))
            <7> DEFINE S == Left(c)
                       s == c2.todo
                       l == c.todo
            <7>1. IsFiniteSet(S)
              <8>1. S \in SUBSET Range(l)
                BY DEF Left
              <8>2. IsFiniteSet(Range(l))
                BY <3>1, ListFinite
              <8> HIDE DEF S, l
              <8> QED
                BY <8>1, <8>2, FS_Subset
            <7>2. s \in ByLayer(S)
              BY <6>2
            <7>3. Range(s) \subseteq S
              <8> HIDE DEF S, s
              <8> QED
                BY <7>1, <7>2, SortedQueryList
            <7> QED
              BY <4>1, <7>3 DEF Left
          <6> QED
            BY <2>4, <6>1, <6>2 DEF VoucherStep
        <5>2. CopyOK(R, x) /\ IsAccrual(x.id)
          BY <2>1, <3>1, <4>1 DEF Local, TodoOK
        <5>3. x.row.state \in RowStates
          BY <5>2 DEF CopyOK, RowOK, AccrualOK, AccrualRow
        <5> QED
          BY <5>1, <5>3 DEF RowStates, Unsettled
      <4> QED
        BY <2>1, <3>1, <4>1 DEF LiveOK
    <3>3. CASE D2 = D
      BY <2>2, <3>2, <3>3, TallySame
    <3>4. CASE id \notin Known(R, D) /\ D2 = With(D, id, row)
      <4>1. id[1] \in {"ledger", "refund"}
        OBVIOUS
      <4> HIDE DEF id, row
      <4>2. \A j \in Kinds : Weight(j, id, row) = 0 /\ Had(j, R, D, id) = 0
        BY <3>4, <4>1, PlainWeight, HadNew
      <4>3. \A j \in Kinds :
              Weight(j, id, row) + Owes(j, c2) = Had(j, R, D, id) + Owes(j, c)
        BY <2>2, <4>2
      <4> QED
        BY <3>2, <3>4, <4>3, TallyWrite
    <3> QED
      BY <2>4, <3>3, <3>4 DEF VoucherStep
  <2> QED
    BY <2>3, <2>4
<1> QED
  BY <1>1, <1>2

-----------------------------------------------------------------------------
(* What an increment that was just asked for owes.                         *)
LEMMA OwesIncrement ==
  ASSUME NEW j, NEW c2, c2.pc = "update", c2.req.op \notin {"payout", "reject"},
         AccountPart(j, c2.inc.delta) \in Int
  PROVE  Owes(j, c2) = IF j[2] = c2.inc.key THEN AccountPart(j, c2.inc.delta) ELSE 0
BY DEF Owes, DueIncrement, DueDecision, DueReversal

(* A layer is accrued and its credit asked for.                            *)
LEMMA TallyAccrue ==
  ASSUME NEW R, RowsOK(R), NEW D, Ready(D), NEW c, NEW D2, NEW c2, Local(R, D, c),
         TallyLocal(R, D, c), Local(R, D2, c2), AccrueStep(R, D, c, D2, c2)
  PROVE  TallyLocal(R, D2, c2)
<1> DEFINE x == c.todo[1]
           key == AccrualKey(c.req.order, x.agent)
           id == <<"commission", key>>
           k == x.agent
           n == x.amount
           d == Credit(x)
           row == NewAccrual(x)
<1>1. /\ c.pc = "accrue" /\ c.todo # << >> /\ c.req.op = "paid" /\ LiveOK(c) /\ c.pc \notin Busy
  BY DEF AccrueStep, Local, PlaceOK, TallyLocal, Busy, Booking
<1>2. x \in LayerItem /\ k \in Agents /\ n \in Nat
  BY <1>1, HeadCopy DEF Local, LayerItem
<1>3. \A j \in Kinds : Owes(j, c) = 0
  BY <1>1, OwesNothing
<1>4. CASE D2 = D /\ GoesOn(c, c2, "accrue")
  <2>1. c2.pc \notin Busy /\ LiveOK(c2)
    BY <1>1, <1>4 DEF GoesOn, Flows, LiveOK, Busy, Booking
  <2> QED
    BY <1>3, <1>4, <2>1, OwesNothing, TallySame
<1>5. CASE /\ id \notin Known(R, D) /\ D2 = With(D, id, row)
           /\ Increments(c, c2, k, d, FALSE, "accrue", key)
  <2>1. /\ c2.req = c.req /\ c2.pc = "update" /\ c2.inc.key = k /\ c2.inc.delta = d
    BY <1>5 DEF Increments, Flows, Asks
  <2>2. LiveOK(c2)
    BY <1>1, <2>1 DEF LiveOK
  <2>3. /\ row.amount = n /\ row.reversed = 0 /\ row.state = "pending" /\ row.agent = k
    BY DEF NewAccrual
  <2>4. \A col \in Columns : d[col] = IF col \in {"frozen", "totalEarned"} THEN n ELSE 0
    <3>1. d = [NoDelta EXCEPT !["frozen"] = n, !["totalEarned"] = n]
      BY DEF Credit
    <3> HIDE DEF d, n
    <3> QED
      BY <1>2, <3>1 DEF NoDelta, Columns, Buckets, Totals
  <2>5. IsAccrual(id) /\ id[2][1] = "accrue"
    BY DEF IsAccrual, AccrualKey
  <2> HIDE DEF d, row, id, k, n, key
  <2>6. ASSUME NEW j \in Kinds
        PROVE  Weight(j, id, row) + Owes(j, c2) = Had(j, R, D, id) + Owes(j, c)
    <3> DEFINE part == IF j[1] \in {"unsettled", "earned"} THEN n ELSE 0
    <3>1. AccountPart(j, d) = part
      <4>1. /\ d["withdrawing"] = 0 /\ d["frozen"] = n /\ d["totalEarned"] = n
            /\ d["available"] = 0 /\ d["withdrawn"] = 0
        BY <2>4 DEF Columns, Buckets, Totals
      <4> QED
        BY <4>1 DEF AccountPart
    <3>2. AccrualPart(j, id, row) = IF j[2] = k THEN part ELSE 0
      <4>1. Outstanding(row) = n
        BY <1>2, <2>3 DEF Outstanding
      <4>2. "pending" \in Unsettled /\ "pending" # "settled"
        BY DEF Unsettled
      <4>3. j[1] = "reversals" => part = 0
        OBVIOUS
      <4> QED
        BY <2>3, <4>1, <4>2, <4>3 DEF AccrualPart
    <3>3. part \in Int
      BY <1>2
    <3> HIDE DEF part
    <3>4. Owes(j, c2) = IF j[2] = k THEN part ELSE 0
      BY <1>1, <2>1, <3>1, <3>3, OwesIncrement
    <3>5. Weight(j, id, row) = -(IF j[2] = k THEN part ELSE 0)
      BY <2>5, <3>2, AccrualWeight
    <3>6. Had(j, R, D, id) = 0
      BY <1>5, HadNew
    <3> QED
      BY <1>3, <3>3, <3>4, <3>5, <3>6
  <2> QED
    BY <1>5, <2>2, <2>6, TallyWrite
<1> QED
  BY <1>4, <1>5 DEF AccrueStep

(* A commission is settled and its move asked for.                         *)
LEMMA TallySettle ==
  ASSUME NEW R, RowsOK(R), NEW D, Ready(D), NEW c, NEW D2, NEW c2, Local(R, D, c),
         TallyLocal(R, D, c), Local(R, D2, c2), SettleStep(R, D, c, D2, c2)
  PROVE  TallyLocal(R, D2, c2)
<1> DEFINE x == c.todo[1]
           r == x.row
           id == x.id
           k == r.agent
           n == Outstanding(r)
           st == "settled"
           row == [r EXCEPT !.state = st, !.version = @ + 1]
           d == MoveDelta("frozen", "available", n)
           ref == x.id[2]
<1>1. /\ c.pc = "settle" /\ c.todo # << >> /\ c.req.op = "maintain" /\ LiveOK(c)
      /\ c.pc \notin Busy
  BY DEF SettleStep, Local, PlaceOK, TallyLocal, Busy, Booking
<1>2. CopyOK(R, x) /\ IsAccrual(id) /\ AccrualOK(id, r)
  BY <1>1, HeadCopy DEF Local
<1>3. \A j \in Kinds : Owes(j, c) = 0
  BY <1>1, OwesNothing
<1>4. CASE D2 = D /\ GoesOn(c, c2, "settle")
  <2>1. c2.pc \notin Busy /\ LiveOK(c2)
    BY <1>1, <1>4 DEF GoesOn, Flows, LiveOK, Busy, Booking
  <2> QED
    BY <1>3, <1>4, <2>1, OwesNothing, TallySame
<1>5. CASE /\ r.state = "pending" /\ Swaps(R, D, D2, x, row)
           /\ Increments(c, c2, k, d, TRUE, "settle", ref)
  <2>1. /\ c2.req = c.req /\ c2.pc = "update" /\ c2.inc.key = k /\ c2.inc.delta = d
        /\ D2 = With(D, id, row) /\ c2.todo = c.todo
    BY <1>5 DEF Increments, Flows, Asks, Swaps
  <2>2. k \in Agents /\ n \in Nat
    BY <1>2 DEF AccrualOK, AccrualRow, Outstanding
  <2>3. /\ row.agent = k /\ row.amount = r.amount /\ row.reversed = r.reversed
        /\ row.state = "settled"
    <3>1. st \in RowStates
      BY DEF RowStates
    <3>2. row = [r EXCEPT !.state = st, !.version = @ + 1]
      OBVIOUS
    <3>3. st = "settled"
      OBVIOUS
    <3> HIDE DEF x, id, r, st, row
    <3> QED
      BY <1>2, <3>1, <3>2, <3>3, MovedFields DEF r
  <2>4. \A col \in Columns :
          d[col] = IF col = "frozen" THEN -n ELSE IF col = "available" THEN n ELSE 0
    <3> HIDE DEF n
    <3> QED
      BY <2>2, MoveDeltaIs DEF Buckets
  <2>5. Outstanding(row) = n
    <3> HIDE DEF row
    <3> QED
      BY <2>3 DEF Outstanding
  <2> HIDE DEF d, row, ref, n
  <2>6. /\ d["withdrawing"] = 0 /\ d["frozen"] = -n /\ d["totalEarned"] = 0
        /\ d["available"] = n /\ d["withdrawn"] = 0
    BY <2>4 DEF Columns, Buckets, Totals
  <2>7. LiveOK(c2)
    <3>1. d["available"] = -d["frozen"]
      BY <2>2, <2>6
    <3> QED
      BY <1>1, <2>1, <2>2, <2>6, <3>1 DEF LiveOK
  <2>8. ASSUME NEW j \in Kinds
        PROVE  Weight(j, id, row) + Owes(j, c2) = Had(j, R, D, id) + Owes(j, c)
    <3> DEFINE before == AccrualPart(j, id, r)
               after == AccrualPart(j, id, row)
               part == IF j[1] = "unsettled" THEN -n ELSE IF j[1] = "settled" THEN n ELSE 0
    <3>1. AccountPart(j, d) = part /\ part \in Int
      BY <2>2, <2>6 DEF AccountPart
    <3>2. r.state = "pending" /\ "pending" \in Unsettled /\ "settled" \notin Unsettled
      BY <1>5 DEF Unsettled
    <3>3. Outstanding(r) = n
      BY DEF n
    <3>4. before \in Int /\ after = before + (IF j[2] = k THEN part ELSE 0)
      <4>1. r.amount \in Int /\ r.reversed \in Int
        BY <1>2 DEF AccrualOK, AccrualRow
      <4>2. before \in Int
        BY <2>2, <3>3, <4>1 DEF AccrualPart
      <4>3. CASE j[1] = "reversals"
        BY <2>3, <4>2, <4>3 DEF AccrualPart
      <4>4. CASE j[1] # "reversals"
        <5>1. CASE j[2] # k
          BY <2>3, <4>2, <4>4, <5>1 DEF AccrualPart
        <5>2. CASE j[2] = k
          <6>1. CASE j[1] = "unsettled"
            BY <2>2, <2>3, <2>5, <3>2, <3>3, <5>2, <6>1 DEF AccrualPart
          <6>2. CASE j[1] = "settled"
            BY <2>2, <2>3, <2>5, <3>2, <3>3, <5>2, <6>2 DEF AccrualPart
          <6>3. CASE j[1] \notin {"unsettled", "settled"}
            <7>1. row.agent = r.agent /\ row.amount = r.amount
              BY <2>3
            <7>2. AccrualPart(j, id, row) = AccrualPart(j, id, r)
              BY <7>1, <4>4, <6>3 DEF AccrualPart
            <7>3. before = after /\ part = 0
              BY <7>2, <6>3
            <7> HIDE DEF before, after, part
            <7> QED
              BY <4>2, <7>3
          <6> QED
            BY <6>1, <6>2, <6>3
        <5> QED
          BY <5>1, <5>2
      <4> QED
        BY <4>2, <4>3, <4>4
    <3>5. Owes(j, c2) = IF j[2] = k THEN part ELSE 0
      BY <1>1, <2>1, <3>1, OwesIncrement
    <3>6. Weight(j, id, row) = -after
      BY <1>2, AccrualWeight
    <3>7. Had(j, R, D, id) = -before
      BY <1>2, <1>5, HadSwapped, AccrualWeight
    <3> HIDE DEF part, before, after
    <3> QED
      BY <1>3, <2>8, <3>1, <3>4, <3>5, <3>6, <3>7
  <2> HIDE DEF id
  <2> QED
    BY <2>1, <2>7, <2>8, TallyWrite
<1> QED
  BY <1>4, <1>5 DEF SettleStep

-----------------------------------------------------------------------------
(* A reversal row is appended, the accumulator still to be raised.         *)
LEMMA TallyClaw ==
  ASSUME NEW R, RowsOK(R), NEW D, Ready(D), NEW c, NEW D2, NEW c2, Local(R, D, c),
         TallyLocal(R, D, c), Local(R, D2, c2), ClawStep(R, D, c, D2, c2)
  PROVE  TallyLocal(R, D2, c2)
<1> DEFINE x == c.todo[1]
           id == ReversalId(c)
           n == Reversed(c)
           row == [layer |-> x.row.layer, agent |-> x.row.agent,
                   amount |-> -n, state |-> "reversed"]
<1>1. /\ c.pc = "claw" /\ c.todo # << >> /\ c.req.op \in {"refunded", "void"} /\ LiveOK(c)
      /\ c.pc \notin Busy /\ TodoOK(R, c)
  BY DEF ClawStep, Local, PlaceOK, TallyLocal, Busy, Booking
<1>2. n \in Int /\ AccrualOK(x.id, x.row)
  BY <1>1, TargetType
<1>3. \A j \in Kinds : Owes(j, c) = 0
  BY <1>1, OwesNothing
<1>4. CASE D2 = D /\ GoesOn(c, c2, "claw")
  <2>1. c2.pc \notin Busy /\ c2.pc \notin Booking /\ c2.req = c.req /\ c2.todo = Tail(c.todo)
    BY <1>4 DEF GoesOn, Flows, Busy, Booking
  <2>2. LiveOK(c2)
    BY <1>1, <2>1, LiveTail
  <2> QED
    BY <1>3, <1>4, <2>1, <2>2, OwesNothing, TallySame
<1>5. CASE /\ id \notin Known(R, D) /\ D2 = With(D, id, row)
           /\ Flows(c, c2) /\ c2.pc = "accumulate" /\ c2.todo = c.todo
  <2>1. c2.req = c.req /\ c2.sum = c.sum /\ c2.pc = "accumulate" /\ c2.todo = c.todo
    BY <1>5 DEF Flows
  <2>2. LiveOK(c2)
    BY <1>1, <2>1, LiveSame DEF Booking
  <2>3. Reversed(c2) = n
    BY <2>1 DEF Reversed, TargetOf
  <2>4. IsReversal(id) /\ id[2][2] = x.id[2][2] /\ id[2][3] = x.id[2][3]
    <3>1. /\ IsReversal(id) /\ id[2][2] = x.id[2][2] /\ id[2][3] = x.row.agent
      BY DEF ReversalId, ReversalKey, IsReversal
    <3>2. x.row.agent = x.id[2][3]
      BY <1>2 DEF AccrualOK
    <3> QED
      BY <3>1, <3>2
  <2>5. row.amount = -n
    OBVIOUS
  <2> HIDE DEF row, id, n
  <2>6. ASSUME NEW j \in Kinds
        PROVE  Weight(j, id, row) + Owes(j, c2) = Had(j, R, D, id) + Owes(j, c)
    <3> DEFINE own == j[1] = "reversals" /\ j[2] = <<x.id[2][2], x.id[2][3]>>
    <3>1. Weight(j, id, row) = IF own THEN n ELSE 0
      <4>1. -row.amount = n
        BY <1>2, <2>5 DEF n
      <4> QED
        BY <2>4, <4>1, ReversalWeight DEF ReversalPart
    <3>2. DueReversal(j, c2) = IF own THEN -n ELSE 0
      BY <2>1, <2>3 DEF DueReversal
    <3>3. DueIncrement(j, c2) = 0 /\ DueDecision(j, c2) = 0
      BY <2>1 DEF DueIncrement, DueDecision, Booking
    <3>4. Had(j, R, D, id) = 0
      BY <1>5, HadNew
    <3> HIDE DEF own
    <3>5. n \in Int
      BY <1>2 DEF n
    <3> QED
      BY <1>3, <3>1, <3>2, <3>3, <3>4, <3>5 DEF Owes
  <2> QED
    BY <1>5, <2>2, <2>6, TallyWrite
<1> QED
  BY <1>4, <1>5 DEF ClawStep

(* The columns of a commission that is reversed.                           *)
LEMMA ReversedFields ==
  ASSUME NEW r \in AccrualRow, NEW target, NEW state
  PROVE  LET row == [r EXCEPT !.reversed = target, !.version = @ + 1, !.state = state]
         IN  /\ row.agent = r.agent /\ row.amount = r.amount
             /\ row.reversed = target /\ row.state = state
<1> DEFINE n == r.version + 1
           row == [r EXCEPT !.reversed = target, !.version = n, !.state = state]
<1> HIDE DEF n
<1>1. /\ row.agent = r.agent /\ row.amount = r.amount
      /\ row.reversed = target /\ row.state = state
  BY DEF AccrualRow
<1> HIDE DEF row
<1> QED
  BY <1>1 DEF row, n

(* The accumulator is raised and the debit asked for.                      *)
LEMMA TallyAccumulate ==
  ASSUME NEW R, RowsOK(R), NEW D, Ready(D), NEW c, NEW D2, NEW c2, Local(R, D, c),
         TallyLocal(R, D, c), Local(R, D2, c2), AccumulateStep(R, D, c, D2, c2)
  PROVE  TallyLocal(R, D2, c2)
<1>0. CASE \E r : Ended(D2, c, c2, r)
  BY <1>0, TallyEnds
<1> DEFINE x == c.todo[1]
           r == x.row
           id == x.id
           k == r.agent
           n == Reversed(c)
           target == TargetOf(c, r)
           end == IF c.req.op = "void" THEN "void" ELSE "reversed"
           state == IF target = r.amount THEN end ELSE r.state
           row == [r EXCEPT !.reversed = target, !.version = @ + 1, !.state = state]
           d == Debit(c)
           b == ReversalBucket(r.state)
<1>1. /\ c.pc = "accumulate" /\ c.todo # << >> /\ c.req.op \in {"refunded", "void"}
      /\ LiveOK(c) /\ TodoOK(R, c)
  BY DEF AccumulateStep, Local, PlaceOK, TallyLocal, TodoOK
<1>2. /\ n \in Int /\ target \in Nat /\ CopyOK(R, x) /\ AccrualOK(id, r) /\ r \in AccrualRow
      /\ IsAccrual(id)
  <2>1. IsAccrual(id)
    BY <1>1, HeadCopy
  <2> QED
    BY <1>1, <2>1, TargetType
<1>3. r.state \in Unsettled \cup {"settled"}
  <2>1. x \in Range(c.todo)
    BY <1>1, HeadCopy
  <2> QED
    BY <1>1, <2>1 DEF LiveOK
<1>4. /\ k \in Agents /\ r.amount \in Nat /\ r.reversed \in Nat /\ target = r.reversed + n
  <2>1. k \in Agents /\ r.amount \in Nat /\ r.reversed \in Nat
    BY <1>2 DEF AccrualRow
  <2>2. n = target - r.reversed
    BY DEF Reversed
  <2> HIDE DEF n, target, r
  <2> QED
    BY <1>2, <2>1, <2>2
<1>5. /\ row.agent = k /\ row.amount = r.amount /\ row.reversed = target /\ row.state = state
  <2>1. row = [r EXCEPT !.reversed = target, !.version = @ + 1, !.state = state]
    OBVIOUS
  <2> HIDE DEF x, id, r, state, row, target
  <2> QED
    BY <1>2, <2>1, ReversedFields
<1>6. end \notin Unsettled /\ end # "settled"
  BY DEF Unsettled
<1>7. CASE /\ Swaps(R, D, D2, x, row)
           /\ \E biz : Increments(c, c2, k, d, TRUE, biz, ReversalId(c)[2])
  <2>1. /\ c2.req = c.req /\ c2.todo = c.todo /\ c2.pc = "update"
        /\ c2.inc.key = k /\ c2.inc.delta = d /\ D2 = With(D, id, row)
    BY <1>7 DEF Increments, Flows, Asks, Swaps
  <2>2. LiveOK(c2)
    BY <1>1, <2>1, LiveSame
  <2>3. /\ b = (IF r.state = "settled" THEN "available" ELSE "frozen")
        /\ \A col \in Columns :
             d[col] = IF col = b THEN -n ELSE IF col = "totalReversed" THEN n ELSE 0
    <3>1. d = [NoDelta EXCEPT ![b] = -n, !["totalReversed"] = n]
      BY DEF Debit
    <3>2. b = (IF r.state = "settled" THEN "available" ELSE "frozen")
      BY DEF ReversalBucket
    <3> HIDE DEF d, n, b, r
    <3> QED
      BY <1>2, <3>1, <3>2 DEF NoDelta, Columns, Buckets, Totals
  <2> HIDE DEF d, row, n, b, target
  <2>4. /\ d["withdrawing"] = 0 /\ d["totalEarned"] = 0 /\ d["withdrawn"] = 0
        /\ d["frozen"] = (IF r.state = "settled" THEN 0 ELSE -n)
        /\ d["available"] = (IF r.state = "settled" THEN -n ELSE 0)
    BY <2>3 DEF Columns, Buckets, Totals
  <2>5. ASSUME NEW j \in Kinds
        PROVE  Weight(j, id, row) + Owes(j, c2) = Had(j, R, D, id) + Owes(j, c)
    <3> DEFINE before == AccrualPart(j, id, r)
               after == AccrualPart(j, id, row)
               part == CASE j[1] = "unsettled" -> IF r.state = "settled" THEN 0 ELSE -n
                         [] j[1] = "settled" -> IF r.state = "settled" THEN -n ELSE 0
                         [] OTHER -> 0
               own == j[1] = "reversals" /\ j[2] = <<id[2][2], id[2][3]>>
               due == IF own THEN -n ELSE 0
    <3>1. AccountPart(j, d) = part /\ part \in Int /\ due \in Int
      BY <1>2, <2>4 DEF AccountPart, n
    <3>2. n \in Int
      BY <1>2 DEF n
    <3>3. target = r.amount => r.amount - target = 0
      BY <1>4
    <3>4. before \in Int /\ r.amount - r.reversed \in Int /\ r.amount - target \in Int
      <4>1. r.amount - r.reversed \in Int /\ r.amount - target \in Int
        BY <1>2, <1>4 DEF target
      <4> QED
        BY <1>4, <4>1 DEF AccrualPart, Outstanding
    <3>5. r.amount - target = (r.amount - r.reversed) - n
      BY <1>2, <1>4, <3>2 DEF target
    <3> HIDE DEF part
    <3>6. after - (IF j[2] = k THEN part ELSE 0) = before - due
      <4> DEFINE st == r.state
                 am == r.amount
                 rv == r.reversed
                 lo == am - target
                 hi == am - rv
                 st2 == row.state
      <4>1. /\ before = CASE j[1] = "unsettled" /\ j[2] = k /\ st \in Unsettled -> hi
                          [] j[1] = "settled" /\ j[2] = k /\ st = "settled" -> hi
                          [] j[1] = "earned" /\ j[2] = k -> am
                          [] own -> rv
                          [] OTHER -> 0
            /\ after = CASE j[1] = "unsettled" /\ j[2] = k /\ st2 \in Unsettled -> lo
                         [] j[1] = "settled" /\ j[2] = k /\ st2 = "settled" -> lo
                         [] j[1] = "earned" /\ j[2] = k -> am
                         [] own -> target
                         [] OTHER -> 0
        BY <1>5 DEF AccrualPart, Outstanding
      <4>2. /\ st2 = IF target = am THEN end ELSE st
            /\ lo = hi - n /\ (target = am => lo = 0) /\ target = rv + n
            /\ n \in Int /\ am \in Nat /\ rv \in Nat /\ lo \in Int /\ hi \in Int
            /\ st \in Unsettled \cup {"settled"} /\ target \in Int
        BY <1>2, <1>3, <1>4, <1>5, <3>2, <3>3, <3>4, <3>5 DEF target
      <4>3. "settled" \notin Unsettled
        BY DEF Unsettled
      <4>4. part = CASE j[1] = "unsettled" -> IF st = "settled" THEN 0 ELSE -n
                     [] j[1] = "settled" -> IF st = "settled" THEN -n ELSE 0
                     [] OTHER -> 0
        BY DEF part
      <4> HIDE DEF st, am, rv, lo, hi, st2, before, after, end, k, own
      <4>5. CASE j[1] = "unsettled"
        <5>1. ~own
          BY <4>5 DEF own
        <5>2. CASE st = "settled"
          <6>1. st2 \notin Unsettled
            BY <1>6, <4>2, <4>3, <5>2
          <6>2. before = 0 /\ after = 0 /\ part = 0
            BY <4>1, <4>3, <4>4, <4>5, <5>1, <5>2, <6>1
          <6> QED
            BY <5>1, <6>2
        <5>3. CASE st # "settled"
          <6>1. before = (IF j[2] = k THEN hi ELSE 0) /\ part = -n
            BY <4>1, <4>2, <4>4, <4>5, <5>1, <5>3
          <6>2. after = IF j[2] = k THEN lo ELSE 0
            BY <1>6, <4>1, <4>2, <4>5, <5>1, <5>3
          <6> QED
            BY <4>2, <5>1, <6>1, <6>2
        <5> QED
          BY <5>2, <5>3
      <4>6. CASE j[1] = "settled"
        <5>1. ~own
          BY <4>6 DEF own
        <5>2. CASE st # "settled"
          <6>1. st2 # "settled"
            BY <1>6, <4>2, <5>2
          <6>2. before = 0 /\ after = 0 /\ part = 0
            BY <4>1, <4>4, <4>6, <5>1, <5>2, <6>1
          <6> QED
            BY <5>1, <6>2
        <5>3. CASE st = "settled"
          <6>1. before = (IF j[2] = k THEN hi ELSE 0) /\ part = -n
            BY <4>1, <4>4, <4>6, <5>1, <5>3
          <6>2. after = IF j[2] = k THEN lo ELSE 0
            BY <1>6, <4>1, <4>2, <4>6, <5>1, <5>3
          <6> QED
            BY <4>2, <5>1, <6>1, <6>2
        <5> QED
          BY <5>2, <5>3
      <4>7. CASE j[1] = "earned"
        <5>1. ~own /\ part = 0 /\ before = after
          BY <4>1, <4>4, <4>7 DEF own
        <5>2. before \in Int
          BY <4>1, <4>2, <4>7, <5>1
        <5> QED
          BY <5>1, <5>2
      <4>8. CASE j[1] \notin {"unsettled", "settled", "earned"}
        <5>1. part = 0 /\ before = (IF own THEN rv ELSE 0) /\ after = IF own THEN target ELSE 0
          BY <4>1, <4>4, <4>8
        <5> QED
          BY <4>2, <5>1
      <4> QED
        BY <4>5, <4>6, <4>7, <4>8
    <3>7. Owes(j, c2) = IF j[2] = k THEN part ELSE 0
      BY <1>1, <2>1, <3>1, OwesIncrement
    <3>8. Owes(j, c) = due
      <4>1. DueIncrement(j, c) = 0 /\ DueDecision(j, c) = 0
        BY <1>1 DEF DueIncrement, DueDecision
      <4>2. DueReversal(j, c) = due
        BY <1>1 DEF DueReversal, n
      <4> HIDE DEF due
      <4> QED
        BY <3>1, <4>1, <4>2 DEF Owes
    <3>9. Weight(j, id, row) = -after
      BY <1>2, AccrualWeight
    <3>10. Had(j, R, D, id) = -before
      BY <1>2, <1>7, HadSwapped, AccrualWeight
    <3>11. after \in Int
      <4>1. RowOK(id, row)
        <5>1. id \in DOMAIN D2 /\ D2[id] = row
          BY <2>1 DEF With
        <5> QED
          BY <5>1 DEF Local, OwnOK, RowsOK
      <4>2. Weight(j, id, row) \in Int
        BY <4>1, WeightIsInt
      <4>3. row.amount \in Int /\ row.reversed \in Int
        BY <1>2, <1>4, <1>5 DEF target
      <4>4. row.amount - row.reversed \in Int
        BY <4>3
      <4> QED
        BY <4>3, <4>4 DEF AccrualPart, Outstanding
    <3> HIDE DEF before, after, due
    <3>12. before \in Int /\ part \in Int /\ due \in Int
      BY <3>1, <3>4
    <3> QED
      BY <3>6, <3>7, <3>8, <3>9, <3>10, <3>11, <3>12
  <2> HIDE DEF id
  <2> QED
    BY <2>1, <2>2, <2>5, TallyWrite
<1>8. ASSUME ~\E e : Ended(D2, c, c2, e)
      PROVE  /\ Swaps(R, D, D2, x, row)
             /\ \E biz : Increments(c, c2, k, d, TRUE, biz, ReversalId(c)[2])
  BY <1>8 DEF AccumulateStep
<1> QED
  BY <1>0, <1>7, <1>8

(* A withdrawal is recorded and its hold asked for.                        *)
LEMMA TallyReserve ==
  ASSUME NEW R, RowsOK(R), NEW D, Ready(D), NEW c, NEW D2, NEW c2, Local(R, D, c),
         TallyLocal(R, D, c), Local(R, D2, c2), ReserveStep(R, D, c, D2, c2)
  PROVE  TallyLocal(R, D2, c2)
<1> DEFINE id == <<"withdrawal", c.req.key>>
           k == c.req.agent
           n == c.req.amount
           d == MoveDelta("available", "withdrawing", n)
           row == NewWithdrawal(c)
           ref == c.req.key
<1>1. CASE \E r : Ended(D2, c, c2, r)
  BY <1>1, TallyEnds
<1>2. CASE /\ id \notin Known(R, D) /\ D2 = With(D, id, row)
           /\ Increments(c, c2, k, d, TRUE, "withdraw_hold", ref)
  <2>1. /\ c.pc \notin Busy /\ LiveOK(c) /\ c.req.op = "withdraw" /\ WellFormed(c.req)
    BY DEF ReserveStep, Local, PlaceOK, RequestOK, TallyLocal, Busy, Booking
  <2>2. /\ c2.req = c.req /\ c2.pc = "update" /\ c2.inc.key = k /\ c2.inc.delta = d
    BY <1>2 DEF Increments, Flows, Asks
  <2>3. LiveOK(c2)
    BY <2>1, <2>2 DEF LiveOK
  <2>4. k \in Agents /\ n \in Nat
    BY <2>1 DEF WellFormed
  <2>5. row.agent = k /\ row.amount = n /\ row.state = "reserved"
    BY DEF NewWithdrawal
  <2>6. \A col \in Columns :
          d[col] = IF col = "available" THEN -n ELSE IF col = "withdrawing" THEN n ELSE 0
    <3> HIDE DEF n
    <3> QED
      BY <2>4, MoveDeltaIs DEF Buckets
  <2>7. id[1] = "withdrawal"
    OBVIOUS
  <2> HIDE DEF d, row, id, k, n, ref
  <2>8. /\ d["withdrawing"] = n /\ d["frozen"] = 0 /\ d["totalEarned"] = 0
        /\ d["available"] = -n /\ d["withdrawn"] = 0
    BY <2>6 DEF Columns, Buckets, Totals
  <2>9. ASSUME NEW j \in Kinds
        PROVE  Weight(j, id, row) + Owes(j, c2) = Had(j, R, D, id) + Owes(j, c)
    <3> DEFINE part == IF j[1] = "reserved" THEN n ELSE 0
    <3>1. AccountPart(j, d) = part /\ part \in Int
      BY <2>4, <2>8 DEF AccountPart
    <3>2. Owes(j, c2) = IF j[2] = k THEN part ELSE 0
      BY <2>1, <2>2, <3>1, OwesIncrement
    <3>3. Weight(j, id, row) = -(IF j[2] = k THEN part ELSE 0)
      BY <2>5, <2>7, WithdrawalWeight DEF WithdrawalPart
    <3>4. Had(j, R, D, id) = 0 /\ Owes(j, c) = 0
      BY <1>2, <2>1, HadNew, OwesNothing
    <3> HIDE DEF part
    <3> QED
      BY <3>1, <3>2, <3>3, <3>4
  <2> QED
    BY <1>2, <2>3, <2>9, TallyWrite
<1> QED
  BY <1>1, <1>2 DEF ReserveStep

(* The columns of a withdrawal in another state.                           *)
LEMMA DecidedFields ==
  ASSUME NEW r \in WithdrawalRow, NEW state
  PROVE  LET row == [r EXCEPT !.state = state, !.version = @ + 1]
         IN  row.agent = r.agent /\ row.amount = r.amount /\ row.state = state
<1> DEFINE n == r.version + 1
           row == [r EXCEPT !.state = state, !.version = n]
<1> HIDE DEF n
<1>1. row.agent = r.agent /\ row.amount = r.amount /\ row.state = state
  BY DEF WithdrawalRow
<1> HIDE DEF row
<1> QED
  BY <1>1 DEF row, n

(* A withdrawal is decided when its money has moved.                       *)
LEMMA TallyDecide ==
  ASSUME NEW R, RowsOK(R), NEW D, Ready(D), NEW c, NEW D2, NEW c2, Local(R, D, c),
         TallyLocal(R, D, c), Local(R, D2, c2), DecideStep(R, D, c, D2, c2)
  PROVE  TallyLocal(R, D2, c2)
<1> DEFINE x == c.todo[1]
           r == x.row
           id == x.id
           k == r.agent
           n == r.amount
           state == DecisionState(c)
           row == [r EXCEPT !.state = state, !.version = @ + 1]
<1>1. CASE \E e : Ended(D2, c, c2, e)
  BY <1>1, TallyEnds
<1>2. CASE r.state = "reserved" /\ Swaps(R, D, D2, x, row) /\ GoesOn(c, c2, "decided")
  <2>1. /\ c.pc = "decide" /\ c.req.op \in {"payout", "reject"} /\ c.todo # << >> /\ TodoOK(R, c)
    BY DEF DecideStep, Local, PlaceOK, TodoOK
  <2>2. /\ c2.req = c.req /\ c2.pc = "decided" /\ D2 = With(D, id, row)
    BY <1>2 DEF GoesOn, Flows, Swaps
  <2>3. LiveOK(c2)
    BY <2>1, <2>2 DEF LiveOK
  <2>4. CopyOK(R, x) /\ id[1] = "withdrawal" /\ r \in WithdrawalRow
    <3>1. CopyOK(R, x) /\ id = <<"withdrawal", c.req.key>> /\ r \in WithdrawalRow
      BY <2>1, HeadCopy
    <3> QED
      BY <3>1
  <2>5. row.agent = k /\ row.amount = n /\ row.state = state
    <3>1. row = [r EXCEPT !.state = state, !.version = @ + 1]
      OBVIOUS
    <3> HIDE DEF x, r, id, state, row
    <3> QED
      BY <2>4, <3>1, DecidedFields
  <2>6. state # "reserved" /\ n \in Int
    BY <2>4 DEF DecisionState, WithdrawalRow
  <2> HIDE DEF row, state
  <2>7. ASSUME NEW j \in Kinds
        PROVE  Weight(j, id, row) + Owes(j, c2) = Had(j, R, D, id) + Owes(j, c)
    <3> DEFINE part == IF j[1] = "reserved" /\ j[2] = k THEN n ELSE 0
    <3>1. Owes(j, c2) = 0
      BY <2>2, OwesNothing DEF Busy, Booking
    <3>2. DueDecision(j, c) = part /\ DueIncrement(j, c) = 0 /\ DueReversal(j, c) = 0
      BY <2>1 DEF DueDecision, DueIncrement, DueReversal, Booking
    <3>3. part \in Int
      BY <2>6
    <3>4. Weight(j, id, row) = 0
      <4>1. WithdrawalPart(j, row) = 0
        BY <2>5, <2>6 DEF WithdrawalPart
      <4> QED
        BY <2>4, <4>1, WithdrawalWeight
    <3>5. Had(j, R, D, id) = -part
      <4>1. WithdrawalPart(j, r) = part
        BY <1>2 DEF WithdrawalPart
      <4>2. Had(j, R, D, id) = Weight(j, id, r)
        BY <1>2, <2>4, HadSwapped
      <4> QED
        BY <2>4, <4>1, <4>2, WithdrawalWeight
    <3> HIDE DEF part
    <3> QED
      BY <3>1, <3>2, <3>3, <3>4, <3>5 DEF Owes
  <2> HIDE DEF id
  <2> QED
    BY <2>2, <2>3, <2>7, TallyWrite
<1> QED
  BY <1>1, <1>2 DEF DecideStep

(* The entry of an increment has no part in a sum.                         *)
LEMMA TallyEntry ==
  ASSUME NEW R, RowsOK(R), NEW D, Ready(D), NEW c, NEW D2, NEW c2, Local(R, D, c),
         TallyLocal(R, D, c), Local(R, D2, c2), EntryStep(R, D, c, D2, c2)
  PROVE  TallyLocal(R, D2, c2)
<1> DEFINE row == NewEntry(D, c)
<1>1. PICK n : D2 = With(D, <<"ledger", n>>, row) /\ <<"ledger", n>> \notin Known(R, D)
  <2>1. PICK n \in Nat \ {0} :
          /\ \A id \in Known(R, D) : id[1] = "ledger" => id[2] < n
          /\ D2 = With(D, <<"ledger", n>>, NewEntry(D, c))
    BY DEF EntryStep
  <2>2. <<"ledger", n>> \notin Known(R, D)
    BY <2>1
  <2> QED
    BY <2>1, <2>2
<1> DEFINE id == <<"ledger", n>>
<1>2. /\ c.pc = "entry" /\ c2.req = c.req /\ c2.pc = LoopFor(c) /\ c.todo # << >>
      /\ c2.todo = IF LoopFor(c) = "decide" THEN c.todo ELSE Tail(c.todo)
      /\ LiveOK(c) /\ TodoOK(R, c)
      /\ c.req.op \in {"paid", "maintain", "refunded", "void", "withdraw", "payout", "reject"}
  BY DEF EntryStep, Flows, Local, TodoOK, PlaceOK, TallyLocal, Booking
<1>3. LoopFor(c) = "decide" <=> c.req.op \in {"payout", "reject"}
  BY <1>2 DEF LoopFor
<1>4. c2.pc \in {"accrue", "settle", "claw", "reserve", "decide"}
  BY <1>2 DEF LoopFor
<1>5. LiveOK(c2)
  <2>1. c2.pc \notin Booking
    BY <1>4 DEF Booking
  <2>2. CASE LoopFor(c) = "decide"
    BY <1>2, <1>3, <2>2 DEF LiveOK
  <2>3. CASE LoopFor(c) # "decide"
    BY <1>2, <2>1, <2>3, LiveTail
  <2> QED
    BY <2>2, <2>3
<1>6. ASSUME NEW j \in Kinds
      PROVE  Weight(j, id, row) + Owes(j, c2) = Had(j, R, D, id) + Owes(j, c)
  <2>1. Weight(j, id, row) = 0 /\ Had(j, R, D, id) = 0
    <3>1. id[1] \in {"ledger", "refund"}
      OBVIOUS
    <3> HIDE DEF id, row
    <3> QED
      BY <1>1, <3>1, PlainWeight, HadNew DEF id
  <2>2. DueIncrement(j, c) = 0 /\ DueReversal(j, c) = 0
    BY <1>2 DEF DueIncrement, DueReversal
  <2>3. DueIncrement(j, c2) = 0 /\ DueReversal(j, c2) = 0
    BY <1>4 DEF DueIncrement, DueReversal
  <2>4. DueDecision(j, c2) = DueDecision(j, c)
    BY <1>2, <1>3 DEF DueDecision, Booking
  <2>5. Owes(j, c) \in Int /\ Owes(j, c2) \in Int
    BY OwesIsInt
  <2>6. Owes(j, c2) = Owes(j, c)
    BY <2>2, <2>3, <2>4 DEF Owes
  <2> QED
    BY <2>1, <2>5, <2>6
<1> HIDE DEF row, id
<1> QED
  BY <1>1, <1>5, <1>6, TallyWrite DEF id

(* What a call owes while its increment waits for its row.                 *)
LEMMA OwesWaiting ==
  ASSUME NEW j, NEW c, NEW c2, c.pc \in {"update", "lookup", "insert"},
         c2.pc \in {"update", "lookup", "insert"}, c2.req = c.req, c2.todo = c.todo,
         c2.inc.key = c.inc.key, c2.inc.delta = c.inc.delta
  PROVE  Owes(j, c2) = Owes(j, c)
BY DEF Owes, DueIncrement, DueDecision, DueReversal, Booking

(* The look at the row.                                                    *)
LEMMA TallyLookup ==
  ASSUME NEW R, NEW D, NEW c, NEW D2, NEW c2,
         TallyLocal(R, D, c), LookupStep(R, D, c, D2, c2)
  PROVE  TallyLocal(R, D2, c2)
<1>1. /\ c.pc = "lookup" /\ D2 = D /\ c2.req = c.req /\ c2.todo = c.todo
      /\ c2.pc \in {"update", "insert"}
      /\ c2.inc.key = c.inc.key /\ c2.inc.delta = c.inc.delta /\ LiveOK(c)
  BY DEF LookupStep, Passes, MovesTo, Flows, TallyLocal
<1>2. LiveOK(c2)
  BY <1>1 DEF LiveOK, Booking
<1> QED
  BY <1>1, <1>2, OwesWaiting, TallySame

(* What an operation makes of an increment that failed: only a settlement  *)
(* goes on, which it does not without debt.                                *)
LEMMA TallyRefused ==
  ASSUME NEW R, NEW D, NEW c, NEW D2, NEW c2, Local(R, D, c),
         TallyLocal(R, D, c), Local(R, D2, c2), RefusedStep(R, D, c, D2, c2)
  PROVE  TallyLocal(R, D2, c2)
<1>1. CASE \E r : Ended(D2, c, c2, r)
  BY <1>1, TallyEnds
<1>2. CASE /\ c.req.op \in {"refunded", "void"} /\ D2 = D
           /\ Increments(c, c2, c.inc.key, c.inc.delta, FALSE, c.inc.biz, c.inc.ref)
  <2>1. /\ c2.req = c.req /\ c2.todo = c.todo /\ c2.pc = "update"
        /\ c2.inc.key = c.inc.key /\ c2.inc.delta = c.inc.delta
        /\ c.pc \in {"lookup", "insert"} /\ LiveOK(c)
    BY <1>2 DEF Increments, Flows, Asks, RefusedStep, TallyLocal
  <2>2. LiveOK(c2)
    BY <1>2, <2>1 DEF LiveOK, Booking
  <2> QED
    BY <1>2, <2>1, <2>2, OwesWaiting, TallySame
<1>3. CASE c.req.op = "maintain" /\ D2 = D /\ GoesOn(c, c2, "settle")
  <2>1. c.pc \in {"lookup", "insert"} /\ c.pc \in Booking /\ LiveOK(c) /\ c.inc.delta \in Delta
    BY DEF RefusedStep, TallyLocal, Booking, Local, IncOK
  <2>2. AllowNegative
    BY <1>3, <2>1 DEF LiveOK
  <2>3. c.inc.delta["withdrawing"] = 0 /\ c.inc.delta["totalEarned"] = 0
    BY <1>3, <2>1 DEF LiveOK
  <2>4. c2.pc = "settle" /\ c2.req = c.req
    BY <1>3 DEF GoesOn, Flows
  <2>5. LiveOK(c2)
    BY <1>3, <2>4 DEF LiveOK, Booking
  <2>6. ASSUME NEW j \in Kinds PROVE Owes(j, c2) = Owes(j, c)
    <3>1. Owes(j, c2) = 0
      BY <2>4, OwesNothing DEF Busy, Booking
    <3>2. AccountPart(j, c.inc.delta) = 0
      BY <2>2, <2>3, KindsAre DEF AccountPart
    <3>3. DueIncrement(j, c) = 0 /\ DueDecision(j, c) = 0 /\ DueReversal(j, c) = 0
      BY <1>3, <2>1, <3>2 DEF DueIncrement, DueDecision, DueReversal
    <3> QED
      BY <3>1, <3>3 DEF Owes
  <2> QED
    BY <1>3, <2>5, <2>6, TallySame
<1> QED
  BY <1>1, <1>2, <1>3 DEF RefusedStep

(* The first row of an account.                                            *)
LEMMA TallyInsert ==
  ASSUME NEW R, RowsOK(R), NEW D, Ready(D), NEW c, NEW D2, NEW c2, Local(R, D, c),
         TallyLocal(R, D, c), Local(R, D2, c2), InsertStep(R, D, c, D2, c2)
  PROVE  TallyLocal(R, D2, c2)
<1> DEFINE k == c.inc.key
           d == c.inc.delta
           id == <<"account", k>>
           row == Apply(EmptyAccount, d)
<1>1. /\ c.pc = "insert" /\ LiveOK(c) /\ d \in Delta /\ k \in Agents
  BY DEF InsertStep, TallyLocal, Local, IncOK, Booking
<1>2. CASE D2 = D /\ Passes(c, c2)
  <2>1. /\ c2.req = c.req /\ c2.todo = c.todo /\ c2.pc = "update"
        /\ c2.inc.key = c.inc.key /\ c2.inc.delta = c.inc.delta
    BY <1>2 DEF Passes, Flows
  <2>2. LiveOK(c2)
    BY <1>1, <2>1 DEF LiveOK, Booking
  <2> QED
    BY <1>1, <1>2, <2>1, <2>2, OwesWaiting, TallySame
<1>3. CASE id \notin Known(R, D) /\ D2 = With(D, id, row) /\ MovesTo(c, c2, "entry")
  <2>1. c2.req = c.req /\ c2.todo = c.todo /\ c2.pc = "entry" /\ c2.inc = c.inc
    BY <1>3 DEF MovesTo, Flows
  <2>2. LiveOK(c2)
    BY <1>1, <2>1 DEF LiveOK, Booking
  <2>3. EmptyAccount \in Account
    BY NoDeltaIs
  <2>4. ASSUME NEW j \in Kinds
        PROVE  Weight(j, id, row) + Owes(j, c2) = Had(j, R, D, id) + Owes(j, c)
    <3> DEFINE part == AccountPart(j, d)
    <3>1. AccountPart(j, row) = part /\ part \in Int
      <4> HIDE DEF d
      <4>1. /\ AccountPart(j, Apply(EmptyAccount, d)) = AccountPart(j, EmptyAccount) + part
            /\ AccountPart(j, EmptyAccount) = 0 /\ part \in Int
        BY <1>1, <2>3, ApplyPart
      <4> QED
        BY <4>1
    <3> HIDE DEF row, d
    <3>2. Weight(j, id, row) = IF j[2] = k THEN part ELSE 0
      <4> HIDE DEF part, k
      <4>1. Weight(j, <<"account", k>>, row) = IF k = j[2] THEN AccountPart(j, row) ELSE 0
        BY AccountWeight
      <4>2. Weight(j, id, row) = Weight(j, <<"account", k>>, row)
        BY DEF id
      <4> QED
        BY <3>1, <4>1, <4>2
    <3>3. Had(j, R, D, id) = 0
      BY <1>3, HadNew
    <3>4. DueIncrement(j, c) = IF j[2] = k THEN part ELSE 0
      BY <1>1 DEF DueIncrement, d
    <3>5. DueReversal(j, c) = 0 /\ DueReversal(j, c2) = 0 /\ DueIncrement(j, c2) = 0
      BY <1>1, <2>1 DEF DueReversal, DueIncrement
    <3>6. DueDecision(j, c) = DueDecision(j, c2)
      BY <1>1, <2>1 DEF DueDecision, Booking
    <3>7. Owes(j, c) \in Int /\ Owes(j, c2) \in Int
      BY OwesIsInt
    <3> HIDE DEF part, id
    <3>8. DueDecision(j, c2) \in Int
      <4>2. c2.todo # << >>
        BY <2>1 DEF Local, TodoOK, Booking
      <4>3. CASE c2.req.op \in {"payout", "reject"}
        <5>1. c2.todo[1].row.amount \in Int
          BY <4>2, <4>3, HeadCopy DEF Local, WithdrawalRow
        <5> QED
          BY <5>1 DEF DueDecision
      <4> QED
        BY <4>3 DEF DueDecision
    <3> QED
      BY <3>1, <3>2, <3>3, <3>4, <3>5, <3>6, <3>8 DEF Owes
  <2> HIDE DEF id, row
  <2> QED
    BY <1>3, <2>2, <2>4, TallyWrite
<1> QED
  BY <1>2, <1>3 DEF InsertStep, OwnAccount

(* A sum whose terms but one are no profit.                                *)
LEMMA SumAtMost ==
  ASSUME NEW f, NEW S, IsFiniteSet(S), \A x \in S : f[x] \in Int, NEW a,
         \A x \in S \ {a} : f[x] <= 0
  PROVE  LET own == IF a \in S THEN f[a] ELSE 0
         IN  /\ SumFunctionOnSet(f, S) <= own
             /\ \A x \in S \ {a} : SumFunctionOnSet(f, S) <= own + f[x]
<1> DEFINE T == S \ {a}
           z == [x \in T |-> 0]
           g == [x \in T |-> -f[x]]
           own == IF a \in S THEN f[a] ELSE 0
<1>1. IsFiniteSet(T) /\ {} \subseteq T
  BY FS_Difference
<1>2. SumFunctionOnSet(z, T) = 0
  <2>1. \A x \in T : z[x] \in Int
    OBVIOUS
  <2>2. \A x \in T \ {} : z[x] = 0
    OBVIOUS
  <2> HIDE DEF z, T
  <2> QED
    BY <1>1, <2>1, <2>2, SumSupport, SumOfNone
<1>3. \A x \in T : f[x] \in Int /\ z[x] \in Int /\ g[x] = z[x] - f[x] /\ g[x] >= 0 /\ g[x] \in Int
  OBVIOUS
<1>4. SumFunctionOnSet(f, S) = SumFunctionOnSet(f, T) + own
  <2>1. T \ {a} = S \ {a} /\ a \notin T /\ T \subseteq S
    OBVIOUS
  <2>2. SumFunctionOnSet(f, S) =
          SumFunctionOnSet(f, T) - (IF a \in T THEN f[a] ELSE 0) + (IF a \in S THEN f[a] ELSE 0)
    <3> HIDE DEF T
    <3> QED
      BY <1>1, <2>1, SumStep
  <2>3. SumFunctionOnSet(f, T) \in Int
    <3> HIDE DEF T
    <3> QED
      BY <1>1, <2>1, SumIsInt
  <2> HIDE DEF T
  <2> QED
    BY <2>1, <2>2, <2>3
<1>6. \A x \in T : f[x] = -g[x]
  OBVIOUS
<1> HIDE DEF z, g
<1>5. SumFunctionOnSet(g, T) = SumFunctionOnSet(z, T) - SumFunctionOnSet(f, T)
  <2> HIDE DEF T
  <2> QED
    BY <1>1, <1>3, SumDifference
<1>7. SumFunctionOnSet(g, T) \in Nat /\ \A x \in T : SumFunctionOnSet(g, T) >= g[x]
  <2> HIDE DEF T
  <2> QED
    BY <1>1, <1>3, SumAtLeast
<1>8. SumFunctionOnSet(f, T) \in Int /\ own \in Int
  <2>1. T \subseteq S
    OBVIOUS
  <2> HIDE DEF T
  <2> QED
    BY <1>1, <2>1, SumIsInt
<1> DEFINE total == SumFunctionOnSet(f, T)
           back == SumFunctionOnSet(g, T)
<1>9. back = -total /\ back \in Nat /\ total \in Int
  BY <1>2, <1>5, <1>7, <1>8
<1>10. \A x \in T : back >= g[x] /\ g[x] \in Int
  BY <1>3, <1>7
<1>11. SumFunctionOnSet(f, S) = total + own
  BY <1>4
<1> HIDE DEF total, back, own, T
<1>12. total + own <= own
  BY <1>8, <1>9
<1>13. \A x \in T : total + own <= own + f[x]
  <2> SUFFICES ASSUME NEW x \in T PROVE total + own <= own + f[x]
    OBVIOUS
  <2>1. f[x] = -g[x] /\ back >= g[x] /\ g[x] \in Int
    BY <1>6, <1>10
  <2> QED
    BY <1>8, <1>9, <2>1
<1> QED
  BY <1>11, <1>12, <1>13 DEF T, own

(* The rows a call would commit are well formed.                           *)
LEMMA OverReady ==
  ASSUME NEW R, Ready(R), NEW D, Ready(D)
  PROVE  Ready(Over(R, D))
<1>1. IsFiniteSet(DOMAIN R \cup DOMAIN D)
  BY FS_Union DEF Ready
<1>2. DOMAIN Over(R, D) = DOMAIN R \cup DOMAIN D
  BY DEF Over
<1>3. RowsOK(Over(R, D))
  BY DEF Over, Cur, Ready, RowsOK
<1> QED
  BY <1>1, <1>2, <1>3 DEF Ready

(* An account has what its unsettled commissions have outstanding, and has *)
(* earned what each of them was accrued with.                              *)
LEMMA AccountHolds ==
  ASSUME NEW Q, Ready(Q), NEW kind \in {"unsettled", "earned"}, NEW k
  PROVE  LET j == <<kind, k>>
             own == WeightIn(j, Q, <<"account", k>>)
         IN  /\ Tally(j, Q) <= own
             /\ \A id \in DOMAIN Q : IsAccrual(id) => Tally(j, Q) <= own + Weight(j, id, Q[id])
<1> DEFINE j == <<kind, k>>
           a == <<"account", k>>
           S == DOMAIN Q
           f == [x \in S |-> Weight(j, x, Q[x])]
<1>0. j[1] = kind /\ j[2] = k /\ kind # "reversals" /\ kind # "reserved"
  OBVIOUS
<1>1. IsFiniteSet(S) /\ \A x \in S : f[x] \in Int
  BY WeightIsInt DEF Ready, RowsOK
<1>2. ASSUME NEW x \in S \ {a} PROVE f[x] <= 0
  <2>1. RowOK(x, Q[x]) /\ f[x] = Weight(j, x, Q[x])
    BY DEF Ready, RowsOK
  <2>2. CASE x[1] = "account"
    <3>1. x = <<"account", x[2]>>
      BY <2>1, <2>2 DEF RowOK
    <3>2. x[2] # k
      BY <3>1
    <3> HIDE DEF j, a, f
    <3> QED
      BY <1>0, <2>1, <2>2, <3>2 DEF Weight
  <2>3. CASE IsAccrual(x)
    <3>1. Q[x] \in AccrualRow /\ Q[x].reversed <= Q[x].amount
      BY <2>1, <2>3 DEF RowOK, AccrualOK
    <3>2. Q[x].amount \in Nat /\ Q[x].reversed \in Nat
      BY <3>1 DEF AccrualRow
    <3>3. Q[x].amount - Q[x].reversed \in Nat
      BY <3>1, <3>2
    <3> HIDE DEF j, a, f
    <3>4. AccrualPart(j, x, Q[x]) \in Nat
      BY <3>2, <3>3 DEF AccrualPart, Outstanding
    <3> QED
      BY <2>1, <2>3, <3>4, AccrualWeight
  <2>4. CASE x[1] # "account" /\ ~IsAccrual(x)
    <3> HIDE DEF j, a, f
    <3>1. ReversalPart(j, x, Q[x]) = 0 /\ WithdrawalPart(j, Q[x]) = 0
      BY <1>0 DEF ReversalPart, WithdrawalPart
    <3>2. Weight(j, x, Q[x]) \in {0, -0}
      BY <2>4, <3>1 DEF Weight
    <3> QED
      BY <2>1, <3>2
  <2> QED
    BY <2>2, <2>3, <2>4
<1>3. WeightIn(j, Q, a) = IF a \in S THEN f[a] ELSE 0
  BY DEF WeightIn
<1>4. Tally(j, Q) = SumFunctionOnSet(f, S)
  BY DEF Tally
<1>5. ASSUME NEW id \in S, IsAccrual(id) PROVE id \in S \ {a} /\ f[id] = Weight(j, id, Q[id])
  BY <1>5 DEF IsAccrual
<1>6. /\ SumFunctionOnSet(f, S) <= (IF a \in S THEN f[a] ELSE 0)
      /\ \A x \in S \ {a} : SumFunctionOnSet(f, S) <= (IF a \in S THEN f[a] ELSE 0) + f[x]
  <2> HIDE DEF f, S, a, j
  <2> QED
    BY <1>1, <1>2, SumAtMost
<1> HIDE DEF f, a, j, S
<1>7. /\ Tally(j, Q) <= WeightIn(j, Q, a)
      /\ \A id \in S : IsAccrual(id) => Tally(j, Q) <= WeightIn(j, Q, a) + Weight(j, id, Q[id])
  BY <1>3, <1>4, <1>5, <1>6
<1> QED
  BY <1>7 DEF j, a, S

(* The sums over the rows a call would commit.                             *)
LEMMA TallyAhead ==
  ASSUME NEW R, Ready(R), NEW D, Ready(D), NEW c, Local(R, D, c), TalliesZero(R),
         TallyLocal(R, D, c), NEW j \in Kinds
  PROVE  /\ Tally(j, Over(R, D)) = -Owes(j, c) /\ Tally(j, Over(R, D)) \in Int
         /\ Tally(j, Over(R, D)) + Owes(j, c) = 0
<1>1. /\ Tally(j, Over(R, D)) = Tally(j, R) + Change(j, R, D)
      /\ Tally(j, R) = 0 /\ Change(j, R, D) \in Int
  BY TallyOver DEF TalliesZero
<1>2. Change(j, R, D) + Owes(j, c) = 0 /\ Owes(j, c) \in Int
  BY OwesIsInt DEF TallyLocal
<1> QED
  BY <1>1, <1>2

(* Without debt the frozen money of a settled commission is there, so the  *)
(* guard of the move is passed at once.                                    *)
LEMMA SettlementFits ==
  ASSUME NEW R, Ready(R), NEW D, Ready(D), NEW c, Local(R, D, c), TalliesZero(R),
         TallyLocal(R, D, c), AccountsSolvent(R), AccountsSolvent(D), AllowNegative = FALSE,
         c.req.op = "maintain", c.pc = "update"
  PROVE  /\ OwnAccount(c) \in Known(R, D)
         /\ NegativeBuckets(Apply(Cur(R, D, OwnAccount(c)), c.inc.delta)) = {}
<1> DEFINE k == c.inc.key
           d == c.inc.delta
           a == <<"account", k>>
           Q == Over(R, D)
           x == c.todo[1]
           cur == Cur(R, D, a)
<1>1. /\ k \in Agents /\ d \in Delta /\ c.todo # << >> /\ TodoOK(R, c)
      /\ d["withdrawing"] = 0 /\ d["totalEarned"] = 0 /\ d["withdrawn"] = 0
      /\ d["available"] \in Nat /\ d["available"] = -d["frozen"] /\ k = x.row.agent
  BY DEF TallyLocal, LiveOK, Booking, Local, TodoOK, IncOK
<1>2a. Ready(Q)
  BY OverReady
<1>3. ASSUME NEW kind \in {"unsettled", "earned"}
      PROVE  Tally(<<kind, k>>, Q) = -AccountPart(<<kind, k>>, d)
  <2> DEFINE j == <<kind, k>>
  <2>1. j \in Kinds /\ j[1] = kind /\ j[2] = k
    BY <1>1 DEF Kinds
  <2>2. Tally(j, Q) = -Owes(j, c)
    <3> HIDE DEF j, Q
    <3> QED
      BY <2>1, TallyAhead DEF Q
  <2>3. AccountPart(j, d) \in Int
    BY <1>1, AccountPartIs
  <2>4. Owes(j, c) = AccountPart(j, d)
    <3> HIDE DEF j
    <3> QED
      BY <2>1, <2>3, OwesIncrement
  <2> HIDE DEF Q
  <2> QED
    BY <2>2, <2>4
<1>4. a \in DOMAIN Q
  <2> DEFINE j == <<"earned", k>>
  <2>1. Tally(j, Q) = 0
    <3>1. AccountPart(j, d) = 0
      BY <1>1 DEF AccountPart
    <3>2. Tally(j, Q) = -AccountPart(j, d)
      BY <1>3
    <3> QED
      BY <3>1, <3>2
  <2>2. CopyOK(R, x) /\ IsAccrual(x.id) /\ AccrualOK(x.id, x.row)
    BY <1>1, HeadCopy
  <2>3. x.id \in DOMAIN Q
    BY <2>2 DEF CopyOK, Over
  <2> DEFINE y == x.id
             r == Q[y]
  <2> HIDE DEF Q
  <2>4. r \in AccrualRow /\ r.agent = k
    <3>1. AccrualOK(y, r)
      BY <1>2a, <2>2, <2>3 DEF Ready, RowsOK, RowOK
    <3> QED
      BY <1>1, <2>2, <3>1 DEF AccrualOK
  <2>5. r.amount \in Nat \ {0}
    BY <2>4 DEF AccrualRow
  <2>6. Tally(j, Q) <= WeightIn(j, Q, a) + Weight(j, y, r)
    <3> HIDE DEF y, k
    <3> QED
      BY <1>2a, <2>2, <2>3, AccountHolds DEF y
  <2>7. Weight(j, y, r) = -r.amount
    <3>1. AccrualPart(j, y, r) = r.amount
      BY <2>4 DEF AccrualPart
    <3> HIDE DEF y, r, j
    <3> QED
      BY <2>2, <3>1, AccrualWeight DEF y
  <2>8. a \notin DOMAIN Q => WeightIn(j, Q, a) = 0
    BY DEF WeightIn
  <2> HIDE DEF j, a, y, r
  <2> QED
    BY <2>1, <2>5, <2>6, <2>7, <2>8
<1>5. cur \in Account /\ Solvent(cur) /\ cur = Q[a]
  <2>1. a[1] = "account" /\ (a \in DOMAIN R \/ a \in DOMAIN D)
    BY <1>4 DEF Over
  <2>2. cur = Q[a]
    BY <1>4 DEF Over
  <2> HIDE DEF a
  <2>3. RowOK(a, cur) /\ Solvent(cur)
    BY <2>1 DEF Ready, RowsOK, Cur, AccountsSolvent
  <2> QED
    BY <2>1, <2>2, <2>3 DEF RowOK
<1>6. \A b \in Buckets : cur[b] \in Int /\ cur[b] >= 0 /\ d[b] \in Int
  <2>1. \A b \in Buckets : cur[b] >= 0
    BY <1>5 DEF Solvent, MayOwe
  <2> QED
    BY <1>1, <1>5, <2>1 DEF Account, Delta, Columns
<1>7. cur["frozen"] >= d["available"]
  <2> DEFINE j == <<"unsettled", k>>
  <2>1. Tally(j, Q) = d["available"]
    <3>1. Tally(j, Q) = -AccountPart(j, d)
      BY <1>3
    <3>2. AccountPart(j, d) = d["frozen"]
      BY DEF AccountPart
    <3>3. d["frozen"] \in Int
      BY <1>6 DEF Buckets
    <3> HIDE DEF j, d, Q
    <3> QED
      BY <1>1, <3>1, <3>2, <3>3
  <2>2. WeightIn(j, Q, a) = cur["frozen"]
    BY <1>4, <1>5 DEF WeightIn, Weight, AccountPart
  <2>3. Tally(j, Q) <= WeightIn(j, Q, a)
    <3> HIDE DEF Q, k
    <3> QED
      BY <1>2a, AccountHolds
  <2> HIDE DEF j, Q, a, cur, d
  <2> QED
    BY <2>1, <2>2, <2>3
<1>8. NegativeBuckets(Apply(cur, d)) = {}
  <2> DEFINE after == Apply(cur, d)
  <2>1. \A b \in Buckets : after[b] = cur[b] + d[b]
    <3> HIDE DEF cur, d
    <3> QED
      BY <1>1, <1>5, ApplyIs DEF Columns
  <2>2. \A b \in Buckets : b \in {"frozen", "available", "withdrawing", "withdrawn"}
    BY DEF Buckets
  <2>3. "frozen" \in Buckets
    BY DEF Buckets
  <2> HIDE DEF after, cur, d
  <2>4. d["frozen"] \in Int /\ d["frozen"] = -d["available"]
    BY <1>1, <1>6, <2>3
  <2>5. \A b \in Buckets : after[b] >= 0
    <3> SUFFICES ASSUME NEW b \in Buckets PROVE after[b] >= 0
      OBVIOUS
    <3>1. cur[b] \in Int /\ cur[b] >= 0 /\ d[b] \in Int /\ after[b] = cur[b] + d[b]
      BY <1>6, <2>1
    <3>2. CASE b = "frozen"
      BY <1>1, <1>7, <2>4, <3>1, <3>2
    <3>3. CASE b # "frozen"
      BY <1>1, <2>2, <3>1, <3>3
    <3> QED
      BY <3>2, <3>3
  <2>6. \A b \in Buckets : after[b] \in Int
    BY <1>6, <2>1
  <2>7. NegativeBuckets(after) = {}
    BY <2>5, <2>6 DEF NegativeBuckets
  <2> QED
    BY <2>7 DEF after
<1>9. OwnAccount(c) = a
  BY DEF OwnAccount
<1>10. a \in Known(R, D) /\ cur = Cur(R, D, OwnAccount(c)) /\ d = c.inc.delta
  BY <1>4, <1>9 DEF Over, Known
<1> HIDE DEF cur, d, Q, a
<1> QED
  BY <1>8, <1>9, <1>10

(* An increment of an account that is there.                               *)
LEMMA TallyUpdate ==
  ASSUME NEW R, Ready(R), NEW D, Ready(D), NEW c, NEW D2, NEW c2, Local(R, D, c),
         TalliesZero(R), TallyLocal(R, D, c), AccountsSolvent(R), AccountsSolvent(D),
         Local(R, D2, c2), UpdateStep(R, D, c, D2, c2)
  PROVE  TallyLocal(R, D2, c2)
<1> DEFINE k == c.inc.key
           d == c.inc.delta
           id == <<"account", k>>
           cur == Cur(R, D, id)
           row == Apply(cur, d)
<1>1. /\ c.pc = "update" /\ LiveOK(c) /\ d \in Delta /\ k \in Agents
  BY DEF UpdateStep, TallyLocal, Local, IncOK, Booking
<1>2. CASE D2 = D /\ MovesTo(c, c2, "lookup") /\ (id \notin Known(R, D) \/ NegativeBuckets(row) # {})
  <2>1. /\ c2.req = c.req /\ c2.todo = c.todo /\ c2.pc = "lookup"
        /\ c2.inc.key = c.inc.key /\ c2.inc.delta = c.inc.delta
    BY <1>2 DEF MovesTo, Flows
  <2>2. LiveOK(c2)
    <3>1. c.req.op = "maintain" => AllowNegative
      <4>1. CASE c.req.op = "maintain" /\ ~AllowNegative
        <5>1. AllowNegative = FALSE
          BY <4>1, SqlLedgerAssumption
        <5>2. /\ OwnAccount(c) \in Known(R, D)
              /\ NegativeBuckets(Apply(Cur(R, D, OwnAccount(c)), c.inc.delta)) = {}
          BY <1>1, <4>1, <5>1, SettlementFits
        <5> QED
          BY <1>2, <5>2 DEF OwnAccount
      <4> QED
        BY <4>1
    <3> QED
      BY <1>1, <2>1, <3>1 DEF LiveOK, Booking
  <2> QED
    BY <1>1, <1>2, <2>1, <2>2, OwesWaiting, TallySame
<1>3. CASE id \in Known(R, D) /\ D2 = With(D, id, row) /\ MovesTo(c, c2, "entry")
  <2>1. c2.req = c.req /\ c2.todo = c.todo /\ c2.pc = "entry" /\ c2.inc = c.inc
    BY <1>3 DEF MovesTo, Flows
  <2>2. LiveOK(c2)
    BY <1>1, <2>1 DEF LiveOK, Booking
  <2>3. cur \in Account
    <3>1. id[1] = "account" /\ (id \in DOMAIN D \/ id \in DOMAIN R)
      BY <1>3 DEF Known
    <3> HIDE DEF id
    <3> QED
      BY <3>1 DEF Cur, Ready, RowsOK, RowOK
  <2>4. ASSUME NEW j \in Kinds
        PROVE  Weight(j, id, row) + Owes(j, c2) = Had(j, R, D, id) + Owes(j, c)
    <3> DEFINE part == AccountPart(j, d)
               had == AccountPart(j, cur)
    <3>1. AccountPart(j, row) = had + part /\ part \in Int /\ had \in Int
      <4> HIDE DEF d, cur
      <4> QED
        BY <1>1, <2>3, ApplyPart
    <3>3. Had(j, R, D, id) = IF k = j[2] THEN had ELSE 0
      <4>1. Had(j, R, D, id) = Weight(j, id, cur)
        BY <1>3 DEF Had, WeightIn, Cur, Known
      <4>2. Weight(j, id, cur) = IF k = j[2] THEN AccountPart(j, cur) ELSE 0
        <5> HIDE DEF k, cur
        <5> QED
          BY AccountWeight
      <4> HIDE DEF id, cur
      <4> QED
        BY <4>1, <4>2
    <3> HIDE DEF row, d, cur
    <3>2. Weight(j, id, row) = IF k = j[2] THEN had + part ELSE 0
      <4> HIDE DEF part, k, had
      <4>1. Weight(j, <<"account", k>>, row) = IF k = j[2] THEN AccountPart(j, row) ELSE 0
        BY AccountWeight
      <4>2. Weight(j, id, row) = Weight(j, <<"account", k>>, row)
        BY DEF id
      <4> QED
        BY <3>1, <4>1, <4>2
    <3>4. DueIncrement(j, c) = IF j[2] = k THEN part ELSE 0
      BY <1>1 DEF DueIncrement, d
    <3>5. DueReversal(j, c) = 0 /\ DueReversal(j, c2) = 0 /\ DueIncrement(j, c2) = 0
      BY <1>1, <2>1 DEF DueReversal, DueIncrement
    <3>6. DueDecision(j, c) = DueDecision(j, c2)
      BY <1>1, <2>1 DEF DueDecision, Booking
    <3> HIDE DEF part, had, id
    <3>8. DueDecision(j, c2) \in Int
      <4>2. c2.todo # << >>
        BY <2>1 DEF Local, TodoOK, Booking
      <4>3. CASE c2.req.op \in {"payout", "reject"}
        <5>1. c2.todo[1].row.amount \in Int
          BY <4>2, <4>3, HeadCopy DEF Local, WithdrawalRow
        <5> QED
          BY <5>1 DEF DueDecision
      <4> QED
        BY <4>3 DEF DueDecision
    <3> QED
      BY <3>1, <3>2, <3>3, <3>4, <3>5, <3>6, <3>8 DEF Owes
  <2>5. RowsOK(R)
    BY DEF Ready
  <2> HIDE DEF id, row
  <2> QED
    BY <1>3, <2>2, <2>4, <2>5, TallyWrite
<1> QED
  BY <1>2, <1>3 DEF UpdateStep, OwnAccount

(* A statement keeps what its call has changed and owes in balance.        *)
LEMMA TallyEffect ==
  ASSUME NEW R, Ready(R), NEW D, Ready(D), NEW c, NEW D2, NEW c2, Local(R, D, c),
         TalliesZero(R), TallyLocal(R, D, c), AccountsSolvent(R), AccountsSolvent(D),
         Local(R, D2, c2), Effect(R, D, c, D2, c2)
  PROVE  TallyLocal(R, D2, c2)
<1>1. RowsOK(R)
  BY DEF Ready
<1>2. CASE \/ PaidStep(R, D, c, D2, c2) \/ ReceivedStep(R, D, c, D2, c2)
           \/ MaintainStep(R, D, c, D2, c2) \/ RefundedStep(R, D, c, D2, c2)
           \/ VoidStep(R, D, c, D2, c2) \/ RiskStep(R, D, c, D2, c2)
           \/ WithdrawStep(R, D, c, D2, c2) \/ CheckStep(R, D, c, D2, c2)
           \/ LedgerStep(R, D, c, D2, c2) \/ RetryStep(R, D, c, D2, c2)
  BY <1>1, <1>2, TallyBegins
<1>3. CASE DateStep(R, D, c, D2, c2) \/ FreezeStep(R, D, c, D2, c2)
  BY <1>1, <1>3, TallyAside
<1>4. CASE \/ VouchersStep(R, D, c, D2, c2) \/ VoucherStep(R, D, c, D2, c2)
           \/ WithdrawalsStep(R, D, c, D2, c2)
  BY <1>1, <1>4, TallyVoucher
<1>5. CASE AccrueStep(R, D, c, D2, c2)
  BY <1>1, <1>5, TallyAccrue
<1>6. CASE SettleStep(R, D, c, D2, c2)
  BY <1>1, <1>6, TallySettle
<1>7. CASE ClawStep(R, D, c, D2, c2)
  BY <1>1, <1>7, TallyClaw
<1>8. CASE AccumulateStep(R, D, c, D2, c2)
  BY <1>1, <1>8, TallyAccumulate
<1>9. CASE ReserveStep(R, D, c, D2, c2)
  BY <1>1, <1>9, TallyReserve
<1>10. CASE DecisionStep(R, D, c, D2, c2)
  BY <1>1, <1>10, TallyDecision
<1>11. CASE DecideStep(R, D, c, D2, c2)
  BY <1>1, <1>11, TallyDecide
<1>12. CASE UpdateStep(R, D, c, D2, c2)
  BY <1>12, TallyUpdate
<1>13. CASE LookupStep(R, D, c, D2, c2)
  BY <1>13, TallyLookup
<1>14. CASE InsertStep(R, D, c, D2, c2)
  BY <1>1, <1>14, TallyInsert
<1>15. CASE RefusedStep(R, D, c, D2, c2)
  BY <1>15, TallyRefused
<1>16. CASE EntryStep(R, D, c, D2, c2)
  BY <1>1, <1>16, TallyEntry
<1> QED
  BY <1>2, <1>3, <1>4, <1>5, <1>6, <1>7, <1>8, <1>9, <1>10, <1>11, <1>12, <1>13, <1>14,
     <1>15, <1>16 DEF Effect

(* A commit adds what its call has changed, which it no longer owes.       *)
LEMMA TalliesCommitted ==
  ASSUME NEW R, Ready(R), NEW D, Ready(D), NEW c, Local(R, D, c), TalliesZero(R),
         TallyLocal(R, D, c), c.pc \in Loops
  PROVE  TalliesZero(Over(R, D))
<1>1. c.pc \notin Busy
  BY DEF Loops, Busy, Booking
<1>2. ASSUME NEW j \in Kinds PROVE Tally(j, Over(R, D)) = 0
  <2> DEFINE a == Tally(j, Over(R, D))
  <2>1. a \in Int /\ a + Owes(j, c) = 0 /\ Owes(j, c) = 0
    BY <1>1, TallyAhead, OwesNothing
  <2> HIDE DEF a
  <2>2. a = 0
    BY <2>1
  <2> QED
    BY <2>2 DEF a
<1> QED
  BY <1>2 DEF TalliesZero

(* Every step keeps the sums equal, up to what open calls owe.             *)
LEMMA TallyStep ==
  ASSUME TypeInv, SolventInv, TallyInv, TypeInv', [SqlNext]_sqlVars
  PROVE  TallyInv'
<1>1. /\ Ready(rows) /\ TalliesZero(rows) /\ AccountsSolvent(rows)
      /\ \A t \in Calls :
           /\ Ready(Mine(t)) /\ Local(rows, Mine(t), call[t])
           /\ TallyLocal(rows, Mine(t), call[t]) /\ AccountsSolvent(Mine(t))
  BY LocalFacts DEF TallyInv, SolventInv, SolventLocal, Ready, OwnOK, TypeInv, StoreOK
<1>2. CASE Idles
  BY <1>1, <1>2 DEF Idles, TallyInv
<1>3. ASSUME NEW t \in Calls, Acts(t) PROVE TallyInv'
  <2>1. Local(rows, Mine(t)', call'[t])
    BY <1>3 DEF Acts, TypeInv
  <2>2. TallyLocal(rows, Mine(t)', call'[t])
    BY <1>1, <1>3, <2>1, TallyEffect DEF Acts
  <2> QED
    BY <1>1, <1>3, <2>2 DEF Acts, Rest, TallyInv
<1>4. ASSUME NEW t \in Calls, Commits(t) PROVE TallyInv'
  <2> DEFINE Q == Over(rows, Mine(t))
  <2>1. TalliesZero(Q)
    BY <1>1, <1>4, TalliesCommitted DEF Commits
  <2>2. TallyLocal(Q, Mine(t)', call'[t])
    BY <1>4, TallyEnds DEF Commits
  <2>3. ASSUME NEW u \in Calls \ {t} PROVE TallyLocal(Q, Mine(u), call[u])
    <3>1. Unmoved(rows, Q, Mine(u))
      <4>1. DOMAIN Mine(u) \cap DOMAIN Mine(t) = {}
        BY <1>4 DEF Commits
      <4> QED
        BY <4>1, OverUnmoved
    <3>2. \A j \in Kinds : Change(j, Q, Mine(u)) = Change(j, rows, Mine(u))
      BY <1>1, <3>1, ChangeKept DEF Ready
    <3> HIDE DEF Q
    <3> QED
      BY <1>1, <3>2 DEF TallyLocal
  <2>4. rows' = Q /\ Rest(t)
    BY <1>4 DEF Commits
  <2> HIDE DEF Q
  <2> QED
    BY <2>1, <2>2, <2>3, <2>4 DEF Rest, TallyInv
<1> QED
  BY <1>2, <1>3, <1>4, StepCases

(* At first all sums are 0.                                                *)
LEMMA TallyInit == SqlInit => TallyInv
<1> SUFFICES ASSUME SqlInit PROVE TallyInv
  OBVIOUS
<1>1. DOMAIN rows = {}
  BY DEF SqlInit
<1>2. \A j \in Kinds : Tally(j, rows) = 0
  BY <1>1, SumOfNone DEF Tally
<1>3. ASSUME NEW t \in Calls PROVE TallyLocal(rows, Mine(t), call[t])
  <2>1. DOMAIN Mine(t) = {}
    BY DEF SqlInit, Mine, OwnRows
  <2>2. call[t].pc \in {"idle", "done"} /\ call[t].todo = << >>
    BY DEF SqlInit, Closed
  <2>3. LiveOK(call[t])
    BY <2>2, ShortLists DEF LiveOK, Booking
  <2> QED
    BY <2>1, <2>2, <2>3, TallyEmpty DEF Busy, Booking
<1> QED
  BY <1>2, <1>3 DEF TallyInv, TalliesZero

(* Every sum is zero on the committed rows, at any time.                   *)
LEMMA TalliesBalance == SqlSpec => []TallyInv
<1>1. SqlInit => SolventInv /\ TallyInv
  BY SolventInit, TallyInit
<1>2. TypeInv /\ TypeInv' /\ SolventInv /\ TallyInv /\ [SqlNext]_sqlVars
        => SolventInv' /\ TallyInv'
  BY SolventStep, TallyStep
<1> QED
  BY <1>1, <1>2, TypeInvariant, PTL DEF SqlSpec

(* The sum of the opposites.                                               *)
LEMMA SumNegated ==
  ASSUME NEW f, NEW h, NEW U, IsFiniteSet(U), \A x \in U : f[x] \in Int /\ h[x] = -f[x]
  PROVE  SumFunctionOnSet(h, U) + SumFunctionOnSet(f, U) = 0
         /\ SumFunctionOnSet(h, U) \in Int /\ SumFunctionOnSet(f, U) \in Int
<1> DEFINE z == [x \in U |-> 0]
<1>1. \A x \in U : z[x] = 0 /\ z[x] \in Int
  OBVIOUS
<1> HIDE DEF z
<1>2. \A x \in U : f[x] \in Int /\ z[x] \in Int /\ h[x] = z[x] - f[x] /\ h[x] \in Int
  BY <1>1
<1>3. SumFunctionOnSet(h, U) = SumFunctionOnSet(z, U) - SumFunctionOnSet(f, U)
  BY <1>2, SumDifference
<1>4. SumFunctionOnSet(z, U) = 0
  <2>1. {} \subseteq U /\ \A x \in U \ {} : z[x] = 0
    BY <1>1
  <2> QED
    BY <1>2, <2>1, SumSupport, SumOfNone
<1>5. SumFunctionOnSet(h, U) \in Int /\ SumFunctionOnSet(f, U) \in Int
  BY <1>2, SumIsInt
<1> QED
  BY <1>3, <1>4, <1>5

(* A sum over one row and a set of others.                                 *)
LEMMA SumSplit ==
  ASSUME NEW f, NEW S, IsFiniteSet(S), \A x \in S : f[x] \in Int, NEW a, NEW U, U \subseteq S,
         a \notin U, \A x \in S \ U : x # a => f[x] = 0
  PROVE  /\ SumFunctionOnSet(f, S) = (IF a \in S THEN f[a] ELSE 0) + SumFunctionOnSet(f, U)
         /\ SumFunctionOnSet(f, U) \in Int
<1> DEFINE T == IF a \in S THEN U \cup {a} ELSE U
<1>1. T \subseteq S /\ IsFiniteSet(U) /\ U \ {a} = T \ {a} /\ IsFiniteSet(T)
  BY FS_Subset, FS_AddElement
<1>2. SumFunctionOnSet(f, S) = SumFunctionOnSet(f, T)
  <2>1. \A x \in S \ T : f[x] = 0
    OBVIOUS
  <2> HIDE DEF T
  <2> QED
    BY <1>1, <2>1, SumSupport
<1>3. a \in T <=> a \in S
  OBVIOUS
<1> HIDE DEF T
<1>4. SumFunctionOnSet(f, T) =
        SumFunctionOnSet(f, U) - (IF a \in U THEN f[a] ELSE 0) + (IF a \in T THEN f[a] ELSE 0)
  BY <1>1, SumStep
<1>5. SumFunctionOnSet(f, U) \in Int
  BY <1>1, SumIsInt
<1> QED
  BY <1>2, <1>3, <1>4, <1>5

(* A column of an account is the sum over the rows that back it.           *)
LEMMA AccountMatches ==
  ASSUME NEW R, Ready(R), NEW j, Tally(j, R) = 0, NEW U, U \subseteq DOMAIN R,
         NEW a, a \notin U,
         \A x \in DOMAIN R \ U : x # a => Weight(j, x, R[x]) = 0,
         NEW h, \A x \in U : h[x] = -Weight(j, x, R[x])
  PROVE  SumFunctionOnSet(h, U) = WeightIn(j, R, a)
<1> DEFINE S == DOMAIN R
           f == [x \in S |-> Weight(j, x, R[x])]
<1>1. IsFiniteSet(S) /\ \A x \in S : f[x] \in Int
  BY WeightIsInt DEF Ready, RowsOK
<1>2. IsFiniteSet(U) /\ U \subseteq S
  BY <1>1, FS_Subset
<1>3. SumFunctionOnSet(f, S) = 0
  BY DEF Tally
<1>4. \A x \in U : f[x] \in Int /\ h[x] = -f[x]
  BY <1>1
<1>5. (\A x \in S \ U : x # a => f[x] = 0) /\ WeightIn(j, R, a) = IF a \in S THEN f[a] ELSE 0
  BY DEF WeightIn
<1> HIDE DEF f, S
<1>6. SumFunctionOnSet(h, U) + SumFunctionOnSet(f, U) = 0
         /\ SumFunctionOnSet(h, U) \in Int /\ SumFunctionOnSet(f, U) \in Int
  BY <1>2, <1>4, SumNegated
<1>7. SumFunctionOnSet(f, S) = (IF a \in S THEN f[a] ELSE 0) + SumFunctionOnSet(f, U)
  BY <1>1, <1>2, <1>5, SumSplit
<1>8. WeightIn(j, R, a) \in Int
  BY WeightInIsInt DEF Ready
<1> QED
  BY <1>3, <1>5, <1>6, <1>7, <1>8

(* The rows of the accruals of an account.                                 *)
LEMMA AccrualsOfAre ==
  ASSUME RowsOK(rows), NEW k
  PROVE  /\ AccrualsOf(k) \subseteq DOMAIN rows
         /\ \A id \in DOMAIN rows : id \in AccrualsOf(k) <=> IsAccrual(id) /\ rows[id].agent = k
         /\ \A id \in AccrualsOf(k) : rows[id] \in AccrualRow /\ IsAccrual(id)
BY DEF AccrualsOf, RowsOf, IsAccrual, RowsOK, RowOK, AccrualOK

(* What a column of an account weighs.                                     *)
LEMMA CommittedWeight ==
  ASSUME RowsOK(rows), NEW j, NEW k, j[2] = k
  PROVE  WeightIn(j, rows, <<"account", k>>) = AccountPart(j, CommittedAccount(k))
<1> DEFINE a == <<"account", k>>
           zero == [c \in {"frozen", "available", "withdrawing", "withdrawn",
                           "totalEarned", "totalReversed"} |-> 0]
<1>1. AccountPart(j, zero) = 0
  <2>1. /\ zero["frozen"] = 0 /\ zero["available"] = 0 /\ zero["withdrawing"] = 0
        /\ zero["withdrawn"] = 0 /\ zero["totalEarned"] = 0
    OBVIOUS
  <2> HIDE DEF zero
  <2> QED
    BY <2>1 DEF AccountPart
<1>2. CASE a \in DOMAIN rows
  <2>1. WeightIn(j, rows, a) = Weight(j, a, rows[a])
    BY <1>2 DEF WeightIn
  <2>2. CommittedAccount(k) = rows[a]
    BY <1>2 DEF CommittedAccount
  <2>3. Weight(j, a, rows[a]) = AccountPart(j, rows[a])
    <3> DEFINE r == rows[a]
    <3> HIDE DEF r
    <3> QED
      BY AccountWeight
  <2> QED
    BY <2>1, <2>2, <2>3
<1>3. CASE a \notin DOMAIN rows
  BY <1>1, <1>3 DEF WeightIn, CommittedAccount
<1> QED
  BY <1>2, <1>3

(* The unsettled, or the settled, money of an account.                     *)
LEMMA OutstandingBacked ==
  ASSUME Ready(rows), TalliesZero(rows), NEW k \in Agents, NEW kind, NEW states,
         \/ kind = "unsettled" /\ states = {"pending", "frozen"}
         \/ kind = "settled" /\ states = {"settled"},
         AllowNegative = FALSE
  PROVE  SumOutstanding(k, states) = AccountPart(<<kind, k>>, CommittedAccount(k))
<1> DEFINE j == <<kind, k>>
           a == <<"account", k>>
           A == AccrualsOf(k)
           h == [id \in A |-> Outstanding(rows[id])]
           U == {id \in A : rows[id].state \in states}
<1>0. j \in Kinds /\ j[1] = kind /\ j[2] = k /\ Tally(j, rows) = 0
  BY DEF Kinds, TalliesZero
<1>1. RowsOK(rows) /\ U \subseteq DOMAIN rows
  BY AccrualsOfAre DEF Ready
<1>2. a \notin U
  <2>1. a[1] = "account"
    OBVIOUS
  <2> HIDE DEF a
  <2> QED
    BY <1>1, <2>1, AccrualsOfAre DEF IsAccrual
<1>3. ASSUME NEW x \in DOMAIN rows
      PROVE  /\ x \in U => h[x] = -Weight(j, x, rows[x])
             /\ x \notin U /\ x # a => Weight(j, x, rows[x]) = 0
  <2> DEFINE r == rows[x]
  <2>1. RowOK(x, r) /\ (x \in A <=> IsAccrual(x) /\ r.agent = k)
    BY <1>1, AccrualsOfAre DEF RowsOK
  <2>2. x \in U <=> IsAccrual(x) /\ r.agent = k /\ r.state \in states
    BY <2>1
  <2>3. x \in U => h[x] = Outstanding(r)
    OBVIOUS
  <2> HIDE DEF r, U, h, j
  <2>4. CASE IsAccrual(x)
    <3>1. r \in AccrualRow
      BY <2>1, <2>4 DEF RowOK, AccrualOK
    <3>2. r.amount \in Nat /\ r.reversed \in Nat
      BY <3>1 DEF AccrualRow
    <3>3. Outstanding(r) \in Int
      BY <3>2 DEF Outstanding
    <3>4. AccrualPart(j, x, r) = IF r.agent = k /\ r.state \in states THEN Outstanding(r) ELSE 0
      BY <1>0 DEF AccrualPart, Unsettled
    <3>5. Weight(j, x, r) = -AccrualPart(j, x, r)
      BY <2>4, AccrualWeight
    <3>6. x \in U => Weight(j, x, r) = -Outstanding(r)
      BY <2>2, <3>4, <3>5
    <3>7. x \notin U => Weight(j, x, r) \in {-0}
      BY <2>2, <2>4, <3>4, <3>5
    <3> QED
      BY <2>3, <3>3, <3>6, <3>7 DEF r
  <2>5. CASE ~IsAccrual(x)
    <3>1. x \notin U
      BY <2>2, <2>5
    <3>2. CASE x[1] = "account"
      <4>1. x = <<"account", x[2]>>
        BY <2>1, <3>2 DEF RowOK
      <4>2. x # a => x[2] # k
        BY <4>1
      <4> HIDE DEF a
      <4> QED
        BY <1>0, <3>1, <3>2, <4>2 DEF Weight, r
    <3>3. CASE x[1] # "account"
      <4>1. ReversalPart(j, x, r) = 0 /\ WithdrawalPart(j, r) = 0
        BY <1>0 DEF ReversalPart, WithdrawalPart
      <4>2. Weight(j, x, r) \in {0, -0}
        BY <2>5, <3>3, <4>1 DEF Weight
      <4> QED
        BY <3>1, <4>2 DEF r
    <3> QED
      BY <3>2, <3>3
  <2> QED
    BY <2>4, <2>5
<1>4. /\ \A x \in DOMAIN rows \ U : x # a => Weight(j, x, rows[x]) = 0
      /\ \A x \in U : h[x] = -Weight(j, x, rows[x])
  BY <1>1, <1>3
<1>5. SumOutstanding(k, states) = SumFunctionOnSet(h, U)
  BY DEF SumOutstanding
<1>6. WeightIn(j, rows, a) = AccountPart(j, CommittedAccount(k))
  BY <1>0, <1>1, CommittedWeight
<1> HIDE DEF U, h, a, j
<1>7. SumFunctionOnSet(h, U) = WeightIn(j, rows, a)
  BY <1>0, <1>1, <1>2, <1>4, AccountMatches
<1> QED
  BY <1>5, <1>6, <1>7 DEF j

(* However calls interleave, no commission is settled, reversed or voided  *)
(* on the strength of a row that another call changed meanwhile: the       *)
(* frozen bucket is what is outstanding on unsettled commissions and the   *)
(* other buckets what is outstanding on settled ones.  With a debt policy  *)
(* a settlement may be skipped after its row was advanced, so the claim is *)
(* made for ledgers without one.                                           *)
THEOREM ConcurrentMoneyBacked ==
  ASSUME AllowNegative = FALSE
  PROVE  SqlSpec => []SqlMoneyBacked
<1>1. TypeInv /\ TallyInv => SqlMoneyBacked
  <2> SUFFICES ASSUME TypeInv, TallyInv, NEW k \in Agents
               PROVE  LET a == CommittedAccount(k)
                      IN  /\ a["frozen"] = SumOutstanding(k, {"pending", "frozen"})
                          /\ a["available"] + a["withdrawing"] + a["withdrawn"]
                               = SumOutstanding(k, {"settled"})
    BY DEF SqlMoneyBacked
  <2>1. Ready(rows) /\ TalliesZero(rows)
    BY DEF Ready, TypeInv, StoreOK, TallyInv
  <2>2. SumOutstanding(k, {"pending", "frozen"})
          = AccountPart(<<"unsettled", k>>, CommittedAccount(k))
    BY <2>1, OutstandingBacked
  <2>3. SumOutstanding(k, {"settled"}) = AccountPart(<<"settled", k>>, CommittedAccount(k))
    BY <2>1, OutstandingBacked
  <2> QED
    BY <2>2, <2>3 DEF AccountPart
<1> QED
  BY <1>1, TypeInvariant, TalliesBalance, PTL

(* The accumulator of a commission is the sum of its reversal rows however *)
(* clawbacks, voids and retries interleave, although the row is appended   *)
(* before the accumulator is compared.                                     *)
THEOREM ConcurrentReversalsReconcile == SqlSpec => []SqlReversalsReconcile
<1>1. TypeInv /\ TallyInv => SqlReversalsReconcile
  <2> SUFFICES ASSUME TypeInv, TallyInv,
                      NEW id \in RowsOf("commission", rows), id[2][1] = "accrue"
               PROVE  rows[id].reversed =
                        SumFunctionOnSet([r \in RowsOf("commission", rows) |-> -rows[r].amount],
                                         Reversals(id[2][2], id[2][3], rows))
    BY DEF SqlReversalsReconcile
  <2> DEFINE o == id[2][2]
             k == id[2][3]
             j == <<"reversals", <<o, k>>>>
             S == DOMAIN rows
             U == Reversals(o, k, rows)
             f == [x \in S |-> Weight(j, x, rows[x])]
             g == [r \in RowsOf("commission", rows) |-> -rows[r].amount]
  <2>1. Ready(rows) /\ TalliesZero(rows)
    BY DEF Ready, TypeInv, StoreOK, TallyInv
  <2>2. /\ id \in S /\ IsAccrual(id) /\ AccrualOK(id, rows[id]) /\ o \in Orders /\ k \in Agents
        /\ id = <<"commission", <<"accrue", o, k>>>>
    <3>1. id \in S /\ IsAccrual(id) /\ RowOK(id, rows[id])
      BY <2>1 DEF RowsOf, IsAccrual, Ready, RowsOK
    <3>2. AccrualOK(id, rows[id])
      BY <3>1 DEF RowOK
    <3>3. id = <<"commission", <<"accrue", o, k>>>> /\ o \in Orders /\ k \in Agents
      BY <3>2 DEF AccrualOK, AccrualKey, AccrualRow
    <3> QED
      BY <3>1, <3>2, <3>3
  <2>3. j \in Kinds /\ j[1] = "reversals" /\ j[2] = <<o, k>>
    BY <2>2 DEF Kinds
  <2>4. SumFunctionOnSet(f, S) = 0
    BY <2>1, <2>3 DEF TalliesZero, Tally
  <2>5. \A x \in S : f[x] \in Int
    BY <2>1, WeightIsInt DEF Ready, RowsOK
  <2>6. U \subseteq S /\ U \subseteq RowsOf("commission", rows) /\ id \notin U
        /\ \A x \in S : x \in U <=> IsReversal(x) /\ x[2][2] = o /\ x[2][3] = k
    BY <2>2 DEF Reversals, RowsOf, IsReversal, IsAccrual
  <2>7. ASSUME NEW x \in S
        PROVE  /\ x = id => f[x] = -rows[id].reversed
               /\ x \in U => f[x] = g[x]
               /\ x \notin U /\ x # id => f[x] = 0
    <3> DEFINE r == rows[x]
    <3>1. RowOK(x, r) /\ f[x] = Weight(j, x, r)
      BY <2>1 DEF Ready, RowsOK
    <3>2. x \in U => g[x] = -r.amount
      BY <2>6
    <3> HIDE DEF f, g, r, U, S, o, k
    <3>3. CASE IsAccrual(x)
      <4>1. x = id <=> x[2][2] = o /\ x[2][3] = k
        <5>1. AccrualOK(x, r)
          BY <3>1, <3>3 DEF RowOK
        <5>2. x = <<"commission", <<"accrue", x[2][2], x[2][3]>>>>
          BY <5>1 DEF AccrualOK, AccrualKey
        <5> QED
          BY <2>2, <5>2 DEF o, k
      <4>2. AccrualPart(j, x, r) = IF x = id THEN r.reversed ELSE 0
        BY <2>3, <4>1 DEF AccrualPart
      <4>3. x \notin U
        BY <2>6, <3>3 DEF IsAccrual, IsReversal, S
      <4>4. Weight(j, x, r) = -AccrualPart(j, x, r)
        BY <3>3, AccrualWeight
      <4>5. x # id => Weight(j, x, r) \in {-0}
        BY <4>2, <4>4
      <4>6. x = id => Weight(j, x, r) = -r.reversed
        BY <4>2, <4>4
      <4> QED
        BY <3>1, <4>3, <4>5, <4>6 DEF r
    <3>4. CASE IsReversal(x)
      <4>1. Weight(j, x, r) = ReversalPart(j, x, r)
        BY <3>4, ReversalWeight
      <4>2. ReversalPart(j, x, r) = IF x \in U THEN -r.amount ELSE 0
        BY <2>3, <2>6, <3>4 DEF ReversalPart, S
      <4>3. x # id
        BY <2>2, <3>4 DEF IsReversal, IsAccrual
      <4> QED
        BY <3>1, <3>2, <4>1, <4>2, <4>3
    <3>5. CASE ~IsAccrual(x) /\ ~IsReversal(x)
      <4>1. x \notin U /\ x # id
        BY <2>2, <2>6, <3>5 DEF S
      <4>2. x[1] = "account" => Weight(j, x, r) = 0
        BY <2>3 DEF Weight, AccountPart
      <4>3. WithdrawalPart(j, r) = 0
        BY <2>3 DEF WithdrawalPart
      <4>4. x[1] # "account" => Weight(j, x, r) \in {0, -0}
        BY <3>5, <4>3 DEF Weight
      <4> QED
        BY <3>1, <4>1, <4>2, <4>4
    <3> QED
      BY <3>3, <3>4, <3>5
  <2>8. f[id] = -rows[id].reversed /\ rows[id].reversed \in Int /\ f[id] \in Int
    <3>1. f[id] = -rows[id].reversed /\ f[id] \in Int
      BY <2>2, <2>5, <2>7
    <3>2. rows[id].reversed \in Int
      BY <2>2 DEF AccrualOK, AccrualRow
    <3> QED
      BY <3>1, <3>2
  <2>9. (\A x \in S \ U : x # id => f[x] = 0) /\ (\A x \in U : f[x] = g[x])
    BY <2>6, <2>7
  <2>10. IsFiniteSet(S) /\ IsFiniteSet(U) /\ U \subseteq S
    BY <2>1, <2>6, FS_Subset DEF Ready
  <2> HIDE DEF f, g, S, U
  <2>11. /\ SumFunctionOnSet(f, S) = (IF id \in S THEN f[id] ELSE 0) + SumFunctionOnSet(f, U)
         /\ SumFunctionOnSet(f, U) \in Int
    BY <2>5, <2>6, <2>9, <2>10, SumSplit
  <2>12. SumFunctionOnSet(g, U) = SumFunctionOnSet(f, U)
    BY <2>9, <2>10, SumKept
  <2>13. rows[id].reversed = SumFunctionOnSet(g, U)
    BY <2>2, <2>4, <2>8, <2>11, <2>12
  <2> QED
    BY <2>13 DEF g, U
<1> QED
  BY <1>1, TypeInvariant, TalliesBalance, PTL

-----------------------------------------------------------------------------
(***************************************************************************)
(* The books of an account: its entries in the order of their ids          *)
(***************************************************************************)

EntryAt(F, n) == F[<<"ledger", n>>]

EntriesOf(F, k) == {n \in Nat : <<"ledger", n>> \in DOMAIN F /\ EntryAt(F, n).key = k}

Below(T, n) == {m \in T : m < n}

Balance(F, T, b) == IF T = {} THEN 0 ELSE EntryAt(F, Max(T)).after[b]

Chained(F, k) ==
  \A b \in Buckets : \A n \in EntriesOf(F, k) :
    EntryAt(F, n).after[b] = Balance(F, Below(EntriesOf(F, k), n), b) + EntryAt(F, n).delta[b]

Held(F, k, b) == IF <<"account", k>> \in DOMAIN F THEN F[<<"account", k>>][b] ELSE 0

BooksClosed(F, k) ==
  Chained(F, k) /\ \A b \in Buckets : Held(F, k, b) = Balance(F, EntriesOf(F, k), b)

(* An increment whose entry is still to be written.                        *)
BooksDue(F, k, d) ==
  Chained(F, k) /\ \A b \in Buckets : Held(F, k, b) = Balance(F, EntriesOf(F, k), b) + d[b]

BooksLocal(R, D, c) ==
  /\ \A e \in DOMAIN D : e[1] = "ledger" => <<"account", D[e].key>> \in DOMAIN D
  /\ \A k \in Agents : <<"account", k>> \in DOMAIN D =>
       IF c.pc = "entry" /\ c.inc.key = k THEN BooksDue(Over(R, D), k, c.inc.delta)
       ELSE BooksClosed(Over(R, D), k)

BooksInv ==
  /\ \A k \in Agents : BooksClosed(rows, k)
  /\ \A t \in Calls : BooksLocal(rows, Mine(t), call[t])

(* The same entries of an account, and the same balances.                  *)
SameEntries(F, G, k) ==
  /\ EntriesOf(F, k) = EntriesOf(G, k)
  /\ \A n \in EntriesOf(F, k) : EntryAt(F, n) = EntryAt(G, n)

(* Some generated ids.                                                     *)
IdSet(T) == IsFiniteSet(T) /\ T \subseteq Nat

SameOn(F, G, T) == \A n \in T : EntryAt(F, n) = EntryAt(G, n)

(* The entries of an account are finitely many.                            *)
LEMMA EntriesFinite ==
  ASSUME NEW F, IsFiniteSet(DOMAIN F), NEW k
  PROVE  IsFiniteSet(EntriesOf(F, k)) /\ EntriesOf(F, k) \subseteq Nat
<1> DEFINE f == [x \in DOMAIN F |-> x[2]]
           T == EntriesOf(F, k)
<1>1. \A n \in T : \E x \in DOMAIN F : n = f[x]
  <2> SUFFICES ASSUME NEW n \in T PROVE \E x \in DOMAIN F : n = f[x]
    OBVIOUS
  <2> DEFINE x == <<"ledger", n>>
  <2>1. x \in DOMAIN F /\ f[x] = n
    BY DEF EntriesOf
  <2> QED
    BY <2>1
<1>2. T \subseteq Nat
  BY DEF EntriesOf
<1> HIDE DEF f, T
<1>3. IsFiniteSet(T)
  BY <1>1, FiniteImage
<1> QED
  BY <1>2, <1>3 DEF T

(* The last of some entries is one of them.                                *)
LEMMA LastEntry ==
  ASSUME NEW T, IdSet(T), T # {}
  PROVE  Max(T) \in T
<1>1. T \subseteq Int /\ IsFiniteSet(T)
  BY DEF IdSet
<1> QED
  BY <1>1, MaxIn

(* The balance is that of the last entry, wherever the entry is.           *)
LEMMA BalanceSame ==
  ASSUME NEW F, NEW G, NEW T, NEW b, IdSet(T), SameOn(F, G, T)
  PROVE  Balance(F, T, b) = Balance(G, T, b)
<1>1. CASE T = {}
  BY <1>1 DEF Balance
<1>2. CASE T # {}
  <2>1. Max(T) \in T
    BY <1>2, LastEntry
  <2> QED
    BY <1>2, <2>1 DEF Balance, SameOn
<1> QED
  BY <1>1, <1>2

(* Books that have the same entries are the same.                          *)
LEMMA BooksSame ==
  ASSUME NEW F, NEW G, NEW k, IsFiniteSet(DOMAIN F), SameEntries(F, G, k), Chained(F, k)
  PROVE  /\ Chained(G, k)
         /\ \A b : Balance(F, EntriesOf(F, k), b) = Balance(G, EntriesOf(G, k), b)
<1> DEFINE T == EntriesOf(F, k)
<1>1. /\ EntriesOf(G, k) = T /\ \A n \in T : EntryAt(F, n) = EntryAt(G, n)
      /\ IsFiniteSet(T) /\ T \subseteq Nat
  BY EntriesFinite DEF SameEntries
<1>2. \A b \in Buckets : \A n \in T :
        EntryAt(F, n).after[b] = Balance(F, Below(T, n), b) + EntryAt(F, n).delta[b]
  BY DEF Chained
<1> HIDE DEF T
<1>3. ASSUME NEW b \in Buckets, NEW n \in T
      PROVE  EntryAt(G, n).after[b] = Balance(G, Below(T, n), b) + EntryAt(G, n).delta[b]
  <2> DEFINE U == Below(T, n)
  <2>1. U \subseteq T
    BY DEF Below
  <2>2. IdSet(U) /\ SameOn(F, G, U)
    BY <1>1, <2>1, FS_Subset DEF SameOn, IdSet
  <2> HIDE DEF U
  <2>3. Balance(F, U, b) = Balance(G, U, b)
    BY <2>2, BalanceSame
  <2> QED
    BY <1>1, <1>2, <2>3 DEF U
<1>4. \A b : Balance(F, T, b) = Balance(G, T, b)
  <2>1. SameOn(F, G, T) /\ IdSet(T)
    BY <1>1 DEF SameOn, IdSet
  <2> QED
    BY <1>1, <2>1, BalanceSame
<1> QED
  BY <1>1, <1>3, <1>4 DEF Chained, T

(* Books with the same entries and the same balances.                      *)
LEMMA BooksAlike ==
  ASSUME NEW F, NEW G, NEW k, IsFiniteSet(DOMAIN F), SameEntries(F, G, k),
         \A b \in Buckets : Held(F, k, b) = Held(G, k, b)
  PROVE  /\ BooksClosed(F, k) => BooksClosed(G, k)
         /\ \A d : BooksDue(F, k, d) => BooksDue(G, k, d)
<1>1. ASSUME BooksClosed(F, k) PROVE BooksClosed(G, k)
  BY <1>1, BooksSame DEF BooksClosed
<1>2. ASSUME NEW d, BooksDue(F, k, d) PROVE BooksDue(G, k, d)
  BY <1>2, BooksSame DEF BooksDue
<1> QED
  BY <1>1, <1>2

(* A row that is neither an entry nor the account itself.                  *)
LEMMA BooksAside ==
  ASSUME NEW R, NEW D, NEW id, NEW row, id[1] # "ledger", NEW k, id # <<"account", k>>
  PROVE  /\ SameEntries(Over(R, D), Over(R, With(D, id, row)), k)
         /\ \A b : Held(Over(R, D), k, b) = Held(Over(R, With(D, id, row)), k, b)
<1> DEFINE F == Over(R, D)
           G == Over(R, With(D, id, row))
<1>1. /\ DOMAIN G = DOMAIN F \cup {id}
      /\ \A x \in DOMAIN F : x # id => G[x] = F[x]
  BY DEF Over, Cur, With
<1> HIDE DEF F, G
<1>2. \A n : <<"ledger", n>> # id
  OBVIOUS
<1>3. SameEntries(F, G, k)
  BY <1>1, <1>2 DEF SameEntries, EntriesOf, EntryAt
<1>4. \A b : Held(F, k, b) = Held(G, k, b)
  BY <1>1 DEF Held
<1> QED
  BY <1>3, <1>4 DEF F, G

(* The books of an account a call has not written are the committed ones.  *)
LEMMA BooksOfOthers ==
  ASSUME NEW R, NEW D, NEW c, OwnOK(R, D, c), NEW k, <<"account", k>> \notin DOMAIN D,
         \A e \in DOMAIN D : e[1] = "ledger" => <<"account", D[e].key>> \in DOMAIN D
  PROVE  /\ SameEntries(R, Over(R, D), k)
         /\ \A b : Held(R, k, b) = Held(Over(R, D), k, b)
<1> DEFINE Q == Over(R, D)
<1>1. /\ DOMAIN Q = DOMAIN R \cup DOMAIN D
      /\ \A id \in DOMAIN D : Q[id] = D[id]
      /\ \A id \in DOMAIN R \ DOMAIN D : Q[id] = R[id]
  BY DEF Over, Cur
<1> HIDE DEF Q
<1>2. ASSUME NEW n, <<"ledger", n>> \in DOMAIN D
      PROVE  <<"ledger", n>> \notin DOMAIN R /\ D[<<"ledger", n>>].key # k
  <2> DEFINE e == <<"ledger", n>>
  <2>1. e[1] = "ledger"
    OBVIOUS
  <2> HIDE DEF e
  <2>2. e \notin DOMAIN R
    BY <1>2, <2>1 DEF OwnOK, IsVersioned, IsAccrual, e
  <2>3. D[e].key # k
    BY <1>2, <2>1 DEF e
  <2> QED
    BY <2>2, <2>3 DEF e
<1>3. SameEntries(R, Q, k)
  BY <1>1, <1>2 DEF SameEntries, EntriesOf, EntryAt
<1>4. \A b : Held(R, k, b) = Held(Q, k, b)
  BY <1>1 DEF Held
<1> QED
  BY <1>3, <1>4 DEF Q

(* What is neither committed nor written by a call does not change its     *)
(* books: the account is locked.                                           *)
LEMMA BooksKept ==
  ASSUME NEW R, NEW D, NEW E, NEW c, OwnOK(R, E, c), NEW k, <<"account", k>> \in DOMAIN D,
         DOMAIN D \cap DOMAIN E = {},
         \A e \in DOMAIN E : e[1] = "ledger" => <<"account", E[e].key>> \in DOMAIN E
  PROVE  /\ SameEntries(Over(R, D), Over(Over(R, E), D), k)
         /\ \A b : Held(Over(R, D), k, b) = Held(Over(Over(R, E), D), k, b)
<1> DEFINE F == Over(R, D)
           G == Over(Over(R, E), D)
<1>1. /\ DOMAIN F = DOMAIN R \cup DOMAIN D
      /\ DOMAIN G = DOMAIN R \cup DOMAIN E \cup DOMAIN D
      /\ \A id \in DOMAIN D : F[id] = D[id] /\ G[id] = D[id]
      /\ \A id \in DOMAIN R \ DOMAIN D : F[id] = R[id] /\ (id \notin DOMAIN E => G[id] = R[id])
      /\ \A id \in DOMAIN E : G[id] = E[id]
  BY DEF Over, Cur
<1> HIDE DEF F, G
<1>2. ASSUME NEW n, <<"ledger", n>> \in DOMAIN E
      PROVE  <<"ledger", n>> \notin DOMAIN R /\ E[<<"ledger", n>>].key # k
             /\ <<"ledger", n>> \notin DOMAIN D
  <2> DEFINE e == <<"ledger", n>>
  <2>1. e[1] = "ledger"
    OBVIOUS
  <2> HIDE DEF e
  <2>2. e \notin DOMAIN R /\ e \notin DOMAIN D
    BY <1>2, <2>1 DEF OwnOK, IsVersioned, IsAccrual, e
  <2>3. E[e].key # k
    BY <1>2, <2>1 DEF e
  <2> QED
    BY <2>2, <2>3 DEF e
<1>3. SameEntries(F, G, k)
  BY <1>1, <1>2 DEF SameEntries, EntriesOf, EntryAt
<1>4. \A b : Held(F, k, b) = Held(G, k, b)
  BY <1>1 DEF Held
<1> QED
  BY <1>3, <1>4 DEF F, G

(* A row that is not an entry leaves the entries as they are.              *)
LEMMA EntriesAside ==
  ASSUME NEW R, NEW D, NEW id, NEW row, id[1] # "ledger", NEW k
  PROVE  SameEntries(Over(R, D), Over(R, With(D, id, row)), k)
<1> DEFINE F == Over(R, D)
           G == Over(R, With(D, id, row))
<1>1. /\ DOMAIN G = DOMAIN F \cup {id}
      /\ \A x \in DOMAIN F : x # id => G[x] = F[x]
  BY DEF Over, Cur, With
<1> HIDE DEF F, G
<1>2. \A n : <<"ledger", n>> # id
  OBVIOUS
<1>3. SameEntries(F, G, k)
  BY <1>1, <1>2 DEF SameEntries, EntriesOf, EntryAt
<1> QED
  BY <1>3 DEF F, G

(* What a call writes, as far as the books are concerned: nothing, a row   *)
(* of another table, an account with an increment applied, or its entry.   *)
BookedAccount(R, D, c) ==
  Apply(IF OwnAccount(c) \in Known(R, D) THEN Cur(R, D, OwnAccount(c)) ELSE EmptyAccount,
        c.inc.delta)

WritesAside(D, c, D2, c2) ==
  /\ c.pc # "entry" /\ c2.pc # "entry"
  /\ D2 = D \/ \E id, row : id[1] \notin {"account", "ledger"} /\ D2 = With(D, id, row)

WritesAccount(R, D, c, D2, c2) ==
  /\ c.pc \in {"update", "insert"} /\ c2.pc = "entry" /\ c2.inc = c.inc
  /\ D2 = With(D, OwnAccount(c), BookedAccount(R, D, c))

(* The steps that begin or end a transaction leave nothing written.        *)
LEMMA BeginsOrEnds ==
  ASSUME NEW R, NEW D, NEW c, NEW D2, NEW c2, Local(R, D, c),
         \/ PaidStep(R, D, c, D2, c2) \/ ReceivedStep(R, D, c, D2, c2)
         \/ MaintainStep(R, D, c, D2, c2) \/ RefundedStep(R, D, c, D2, c2)
         \/ VoidStep(R, D, c, D2, c2) \/ RiskStep(R, D, c, D2, c2)
         \/ WithdrawStep(R, D, c, D2, c2) \/ CheckStep(R, D, c, D2, c2)
         \/ DecisionStep(R, D, c, D2, c2) \/ LedgerStep(R, D, c, D2, c2)
         \/ RetryStep(R, D, c, D2, c2)
  PROVE  DOMAIN D2 = {}
<1>1. CASE (\E r : Ended(D2, c, c2, r)) \/ RetryStep(R, D, c, D2, c2)
  BY <1>1 DEF Ended, RetryStep
<1>2. CASE Begun(R, D, c, D2, c2)
  BY <1>2 DEF Begun, Local, OwnOK, Idle
<1> QED
  BY <1>1, <1>2 DEF PaidStep, ReceivedStep, MaintainStep, RefundedStep, VoidStep,
     RiskStep, WithdrawStep, CheckStep, DecisionStep, LedgerStep

(* The steps that write neither an entry nor an account.                   *)
LEMMA AsideWrites ==
  ASSUME NEW R, NEW D, NEW c, NEW D2, NEW c2, Local(R, D, c),
         \/ AccrueStep(R, D, c, D2, c2) \/ DateStep(R, D, c, D2, c2)
         \/ SettleStep(R, D, c, D2, c2) \/ VouchersStep(R, D, c, D2, c2)
         \/ VoucherStep(R, D, c, D2, c2) \/ ClawStep(R, D, c, D2, c2)
         \/ AccumulateStep(R, D, c, D2, c2) \/ FreezeStep(R, D, c, D2, c2)
         \/ WithdrawalsStep(R, D, c, D2, c2)
         \/ ReserveStep(R, D, c, D2, c2) \/ DecideStep(R, D, c, D2, c2)
  PROVE  DOMAIN D2 = {} \/ WritesAside(D, c, D2, c2)
<1>1. CASE \E r : Ended(D2, c, c2, r)
  BY <1>1 DEF Ended
<1>2. CASE ~\E r : Ended(D2, c, c2, r)
  <2>1. c.pc # "entry"
    BY DEF AccrueStep, DateStep, SettleStep, VouchersStep, VoucherStep, ClawStep,
       AccumulateStep, FreezeStep, WithdrawalsStep, ReserveStep, DecideStep
  <2>2. c2.pc # "entry"
    BY <1>2 DEF AccrueStep, DateStep, SettleStep, VouchersStep, VoucherStep, ClawStep,
       AccumulateStep, FreezeStep, WithdrawalsStep, ReserveStep, DecideStep,
       GoesOn, Increments, Asks
  <2>3. D2 = D \/ \E id, row : id[1] \notin {"account", "ledger"} /\ D2 = With(D, id, row)
    <3>1. CASE AccrueStep(R, D, c, D2, c2)
      <4> DEFINE id == <<"commission", AccrualKey(c.req.order, c.todo[1].agent)>>
                 row == NewAccrual(c.todo[1])
      <4>1. id[1] \notin {"account", "ledger"} /\ (D2 = D \/ D2 = With(D, id, row))
        BY <3>1 DEF AccrueStep
      <4> HIDE DEF id, row
      <4> QED
        BY <4>1
    <3>2. CASE VoucherStep(R, D, c, D2, c2)
      BY <3>2 DEF VoucherStep
    <3>3. CASE ClawStep(R, D, c, D2, c2)
      BY <3>3 DEF ClawStep, ReversalId
    <3>4. CASE ReserveStep(R, D, c, D2, c2)
      BY <1>2, <3>4 DEF ReserveStep
    <3>5. CASE \/ DateStep(R, D, c, D2, c2) \/ SettleStep(R, D, c, D2, c2)
               \/ AccumulateStep(R, D, c, D2, c2) \/ FreezeStep(R, D, c, D2, c2)
               \/ DecideStep(R, D, c, D2, c2)
      <4>1. /\ c.todo # << >>
            /\ c.req.op \in {"received", "maintain", "refunded", "void", "risk",
                             "payout", "reject"}
        BY <3>5 DEF DateStep, SettleStep, AccumulateStep, FreezeStep, DecideStep,
           Local, PlaceOK, TodoOK
      <4>2. c.todo[1].id[1] \notin {"account", "ledger"}
        BY <4>1, HeadCopy DEF Local, IsAccrual
      <4>3. D2 = D \/ \E row : D2 = With(D, c.todo[1].id, row)
        BY <1>2, <3>5 DEF DateStep, SettleStep, AccumulateStep, FreezeStep, DecideStep, Swaps
      <4> QED
        BY <4>2, <4>3
    <3>6. CASE VouchersStep(R, D, c, D2, c2) \/ WithdrawalsStep(R, D, c, D2, c2)
      BY <1>2, <3>6 DEF VouchersStep, WithdrawalsStep
    <3> QED
      BY <3>1, <3>2, <3>3, <3>4, <3>5, <3>6
  <2> QED
    BY <2>1, <2>2, <2>3 DEF WritesAside
<1> QED
  BY <1>1, <1>2

(* The steps of an increment, up to its entry.                             *)
LEMMA IncrementWrites ==
  ASSUME NEW R, NEW D, NEW c, NEW D2, NEW c2, Local(R, D, c),
         \/ UpdateStep(R, D, c, D2, c2) \/ LookupStep(R, D, c, D2, c2)
         \/ InsertStep(R, D, c, D2, c2) \/ RefusedStep(R, D, c, D2, c2)
  PROVE  \/ DOMAIN D2 = {}
         \/ WritesAside(D, c, D2, c2)
         \/ WritesAccount(R, D, c, D2, c2)
<1>1. CASE UpdateStep(R, D, c, D2, c2)
  BY <1>1 DEF UpdateStep, WritesAside, WritesAccount, BookedAccount, MovesTo
<1>2. CASE InsertStep(R, D, c, D2, c2)
  BY <1>2 DEF InsertStep, WritesAside, WritesAccount, BookedAccount, MovesTo, Passes
<1>3. CASE LookupStep(R, D, c, D2, c2)
  BY <1>3 DEF LookupStep, WritesAside, MovesTo, Passes
<1>4. CASE RefusedStep(R, D, c, D2, c2)
  BY <1>4 DEF RefusedStep, WritesAside, Increments, Asks, GoesOn, Ended
<1> QED
  BY <1>1, <1>2, <1>3, <1>4

(* Every step is of one of these kinds.                                    *)
LEMMA WriteCases ==
  ASSUME NEW R, NEW D, NEW c, NEW D2, NEW c2, Local(R, D, c), Effect(R, D, c, D2, c2)
  PROVE  \/ DOMAIN D2 = {}
         \/ WritesAside(D, c, D2, c2)
         \/ WritesAccount(R, D, c, D2, c2)
         \/ EntryStep(R, D, c, D2, c2)
<1> DEFINE goal == \/ DOMAIN D2 = {}
                   \/ WritesAside(D, c, D2, c2)
                   \/ WritesAccount(R, D, c, D2, c2)
                   \/ EntryStep(R, D, c, D2, c2)
<1> SUFFICES goal
  OBVIOUS
<1>1. CASE \/ PaidStep(R, D, c, D2, c2) \/ ReceivedStep(R, D, c, D2, c2)
           \/ MaintainStep(R, D, c, D2, c2) \/ RefundedStep(R, D, c, D2, c2)
           \/ VoidStep(R, D, c, D2, c2) \/ RiskStep(R, D, c, D2, c2)
           \/ WithdrawStep(R, D, c, D2, c2) \/ CheckStep(R, D, c, D2, c2)
           \/ DecisionStep(R, D, c, D2, c2) \/ LedgerStep(R, D, c, D2, c2)
           \/ RetryStep(R, D, c, D2, c2)
  BY <1>1, BeginsOrEnds
<1>2. CASE \/ AccrueStep(R, D, c, D2, c2) \/ DateStep(R, D, c, D2, c2)
           \/ SettleStep(R, D, c, D2, c2) \/ VouchersStep(R, D, c, D2, c2)
           \/ VoucherStep(R, D, c, D2, c2) \/ ClawStep(R, D, c, D2, c2)
           \/ AccumulateStep(R, D, c, D2, c2) \/ FreezeStep(R, D, c, D2, c2)
           \/ WithdrawalsStep(R, D, c, D2, c2)
           \/ ReserveStep(R, D, c, D2, c2) \/ DecideStep(R, D, c, D2, c2)
  BY <1>2, AsideWrites
<1>3. CASE \/ UpdateStep(R, D, c, D2, c2) \/ LookupStep(R, D, c, D2, c2)
           \/ InsertStep(R, D, c, D2, c2) \/ RefusedStep(R, D, c, D2, c2)
  BY <1>3, IncrementWrites
<1>4. CASE EntryStep(R, D, c, D2, c2)
  BY <1>4
<1> HIDE DEF goal
<1> QED
  BY <1>1, <1>2, <1>3, <1>4 DEF Effect

(* A call that wrote nothing has no books to keep.                         *)
LEMMA BooksNothing ==
  ASSUME NEW R, NEW D2, NEW c2, DOMAIN D2 = {}
  PROVE  BooksLocal(R, D2, c2)
BY DEF BooksLocal

(* A step that writes neither an entry nor an account.                     *)
LEMMA BooksWritesAside ==
  ASSUME NEW R, NEW D, NEW c, NEW D2, NEW c2, Ready(R), IsFiniteSet(DOMAIN D), OwnOK(R, D, c),
         BooksLocal(R, D, c), WritesAside(D, c, D2, c2)
  PROVE  BooksLocal(R, D2, c2)
<1>1. c.pc # "entry" /\ c2.pc # "entry"
  BY DEF WritesAside
<1>2. CASE D2 = D
  BY <1>1, <1>2 DEF BooksLocal
<1>3. ASSUME NEW id, NEW row, id[1] \notin {"account", "ledger"}, D2 = With(D, id, row)
      PROVE  BooksLocal(R, D2, c2)
  <2>1. /\ DOMAIN D2 = DOMAIN D \cup {id}
        /\ \A x \in DOMAIN D \ {id} : D2[x] = D[x]
    BY <1>3 DEF With
  <2>2. \A k : <<"account", k>> # id
    BY <1>3
  <2>3. \A e \in DOMAIN D2 : e[1] = "ledger" => <<"account", D2[e].key>> \in DOMAIN D2
    BY <1>3, <2>1 DEF BooksLocal
  <2>4. ASSUME NEW k \in Agents, <<"account", k>> \in DOMAIN D2
        PROVE  BooksClosed(Over(R, D2), k)
    <3>1. BooksClosed(Over(R, D), k)
      BY <1>1, <2>1, <2>2, <2>4 DEF BooksLocal
    <3>2. IsFiniteSet(DOMAIN Over(R, D))
      BY FS_Union DEF Over, Ready
    <3>3. /\ SameEntries(Over(R, D), Over(R, D2), k)
          /\ \A b : Held(Over(R, D), k, b) = Held(Over(R, D2), k, b)
      BY <1>3, <2>2, BooksAside
    <3> QED
      BY <3>1, <3>2, <3>3, BooksAlike
  <2> QED
    BY <1>1, <2>3, <2>4 DEF BooksLocal
<1> QED
  BY <1>2, <1>3 DEF WritesAside

(* The balances of an account before the increment.                        *)
LEMMA HeldBefore ==
  ASSUME NEW R, NEW D, NEW c, NEW k \in Agents, Ready(R), OwnOK(R, D, c),
         IsFiniteSet(DOMAIN D), c.pc # "entry", BooksLocal(R, D, c), BooksClosed(R, k)
  PROVE  BooksClosed(Over(R, D), k)
<1>1. CASE <<"account", k>> \in DOMAIN D
  BY <1>1 DEF BooksLocal
<1>2. CASE <<"account", k>> \notin DOMAIN D
  <2>1. \A e \in DOMAIN D : e[1] = "ledger" => <<"account", D[e].key>> \in DOMAIN D
    BY DEF BooksLocal
  <2>2. /\ SameEntries(R, Over(R, D), k)
        /\ \A b : Held(R, k, b) = Held(Over(R, D), k, b)
    BY <1>2, <2>1, BooksOfOthers
  <2> QED
    BY <2>2, BooksAlike DEF Ready
<1> QED
  BY <1>1, <1>2

(* The increment of an account: its entry is due.                          *)
LEMMA BooksWritesAccount ==
  ASSUME NEW R, NEW D, NEW c, NEW D2, NEW c2, Ready(R), IsFiniteSet(DOMAIN D), Local(R, D, c),
         BooksLocal(R, D, c), \A k \in Agents : BooksClosed(R, k),
         WritesAccount(R, D, c, D2, c2)
  PROVE  BooksLocal(R, D2, c2)
<1> DEFINE k0 == c.inc.key
           id == OwnAccount(c)
           row == BookedAccount(R, D, c)
           d == c.inc.delta
           Q == Over(R, D)
           Q2 == Over(R, D2)
<1>1. /\ c.pc \in {"update", "insert"} /\ c2.pc = "entry" /\ c2.inc.key = k0
      /\ c2.inc.delta = d
      /\ D2 = With(D, id, row) /\ id = <<"account", k0>> /\ k0 \in Agents /\ d \in Delta
      /\ OwnOK(R, D, c) /\ RowsOK(D) /\ RowsOK(R)
  BY DEF WritesAccount, Local, IncOK, Booking, OwnAccount, OwnOK, Ready
<1>2. /\ DOMAIN D2 = DOMAIN D \cup {id} /\ D2[id] = row
      /\ \A x \in DOMAIN D \ {id} : D2[x] = D[x]
  BY <1>1 DEF With
<1>3. IsFiniteSet(DOMAIN Q)
  BY FS_Union DEF Over, Ready
<1>4. \A k \in Agents : BooksClosed(Q, k)
  BY <1>1, HeldBefore
<1>5. \A b \in Buckets : Held(Q2, k0, b) = Held(Q, k0, b) + d[b]
  <2> DEFINE a == IF id \in Known(R, D) THEN Cur(R, D, id) ELSE EmptyAccount
  <2>1. a \in Account
    <3>1. EmptyAccount \in Account
      BY NoDeltaIs
    <3>2. ASSUME id \in Known(R, D) PROVE Cur(R, D, id) \in Account
      <4>1. id[1] = "account"
        BY <1>1
      <4>2. \A x : x[1] = "account" => \A r : RowOK(x, r) => r \in Account
        BY DEF RowOK
      <4> HIDE DEF id
      <4> QED
        BY <1>1, <3>2, <4>1, <4>2 DEF RowsOK, Known, Cur
    <3> QED
      BY <3>1, <3>2
  <2>2. row = Apply(a, d)
    BY DEF BookedAccount
  <2>3. \A b \in Buckets : a[b] = Held(Q, k0, b)
    BY <1>1 DEF Held, Over, Known, EmptyAccount, Columns
  <2> HIDE DEF a, d
  <2>4. \A b \in Buckets : row[b] = a[b] + d[b]
    BY <1>1, <2>1, <2>2, ApplyIs DEF Columns
  <2>5. \A b : Held(Q2, k0, b) = row[b]
    BY <1>1, <1>2 DEF Held, Over, Cur
  <2> QED
    BY <2>3, <2>4, <2>5
<1>6. id[1] = "account" /\ id[1] # "ledger"
  BY <1>1
<1>7. \A k \in Agents : k # k0 => <<"account", k>> # id
  BY <1>1
<1> HIDE DEF k0, id, row, d, Q
<1>8. \A k : SameEntries(Q, Q2, k)
  BY <1>1, <1>6, EntriesAside DEF Q
<1> HIDE DEF Q2
<1>9. BooksDue(Q2, k0, d)
  <2>1. Chained(Q, k0) /\ \A b \in Buckets : Held(Q, k0, b) = Balance(Q, EntriesOf(Q, k0), b)
    BY <1>1, <1>4 DEF BooksClosed
  <2>2. /\ Chained(Q2, k0)
        /\ \A b : Balance(Q, EntriesOf(Q, k0), b) = Balance(Q2, EntriesOf(Q2, k0), b)
    BY <1>3, <1>8, <2>1, BooksSame
  <2> QED
    BY <1>5, <2>1, <2>2 DEF BooksDue
<1>10. ASSUME NEW k \in Agents, k # k0 PROVE BooksClosed(Q2, k)
  <2>1. \A b : Held(Q, k, b) = Held(Q2, k, b)
    BY <1>1, <1>6, <1>7, <1>10, BooksAside DEF Q, Q2
  <2> QED
    BY <1>3, <1>4, <1>8, <2>1, <1>10, BooksAlike
<1>11. \A e \in DOMAIN D2 : e[1] = "ledger" => <<"account", D2[e].key>> \in DOMAIN D2
  BY <1>2, <1>6 DEF BooksLocal
<1> QED
  BY <1>1, <1>9, <1>10, <1>11 DEF BooksLocal, Q2

(* The entry of an increment closes the books of its account.              *)
LEMMA EntryCloses ==
  ASSUME NEW F, NEW G, NEW k, NEW n \in Nat, NEW row, NEW d, IsFiniteSet(DOMAIN F),
         BooksDue(F, k, d),
         <<"ledger", n>> \notin DOMAIN F, \A m \in EntriesOf(F, k) : m < n,
         DOMAIN G = DOMAIN F \cup {<<"ledger", n>>}, G[<<"ledger", n>>] = row,
         \A x \in DOMAIN F : G[x] = F[x],
         row.key = k,
         \A b \in Buckets : row.delta[b] = d[b] /\ row.after[b] = Held(F, k, b)
  PROVE  BooksClosed(G, k)
<1> DEFINE T == EntriesOf(F, k)
           U == EntriesOf(G, k)
           id == <<"ledger", n>>
<1>1. id[1] = "ledger" /\ EntryAt(G, n) = row /\ n \in U
  BY DEF EntriesOf, EntryAt
<1>2. U = T \cup {n}
  <2>1. \A m \in Nat : <<"ledger", m>> \in DOMAIN G <=> <<"ledger", m>> \in DOMAIN F \/ m = n
    OBVIOUS
  <2>2. \A m \in Nat : <<"ledger", m>> \in DOMAIN F => EntryAt(G, m) = EntryAt(F, m)
    BY DEF EntryAt
  <2> QED
    BY <1>1, <2>1, <2>2 DEF EntriesOf
<1>3. \A m \in T : EntryAt(G, m) = EntryAt(F, m)
  BY DEF EntriesOf, EntryAt
<1>4. IsFiniteSet(T) /\ T \subseteq Nat
  BY EntriesFinite
<1>5. \A m \in T : m < n
  OBVIOUS
<1>6. \A b : Held(G, k, b) = Held(F, k, b)
  <2> DEFINE a == <<"account", k>>
  <2>1. a # id
    OBVIOUS
  <2> HIDE DEF a
  <2>2. (a \in DOMAIN G <=> a \in DOMAIN F) /\ (a \in DOMAIN F => G[a] = F[a])
    BY <2>1
  <2> QED
    BY <2>2 DEF Held, a
<1>7. /\ \A b \in Buckets : \A m \in T :
           EntryAt(F, m).after[b] = Balance(F, Below(T, m), b) + EntryAt(F, m).delta[b]
      /\ \A b \in Buckets : Held(F, k, b) = Balance(F, T, b) + d[b]
  BY DEF BooksDue, Chained
<1> HIDE DEF T, U, id
<1>8. ASSUME NEW S, S \subseteq T, NEW b PROVE Balance(G, S, b) = Balance(F, S, b)
  <2>1. IdSet(S) /\ SameOn(F, G, S)
    BY <1>3, <1>4, <1>8, FS_Subset DEF IdSet, SameOn
  <2> QED
    BY <2>1, BalanceSame
<1>9. Below(U, n) = T
  <2>1. ~(n < n)
    OBVIOUS
  <2> QED
    BY <1>2, <1>5, <2>1 DEF Below
<1>10. \A m \in T : Below(U, m) = Below(T, m)
  <2>1. ASSUME NEW m \in T PROVE ~(n < m)
    <3>1. m \in Int /\ m < n /\ n \in Int
      BY <1>4, <1>5
    <3> QED
      BY <3>1
  <2> QED
    BY <1>2, <2>1 DEF Below
<1>11. ASSUME NEW b \in Buckets, NEW m \in U
       PROVE  EntryAt(G, m).after[b] = Balance(G, Below(U, m), b) + EntryAt(G, m).delta[b]
  <2>1. CASE m = n
    <3>1. Balance(G, Below(U, m), b) = Balance(F, T, b)
      BY <1>8, <1>9, <2>1
    <3> QED
      BY <1>1, <1>7, <2>1, <3>1
  <2>2. CASE m # n
    <3>1. m \in T
      BY <1>2, <2>2
    <3>2. Below(T, m) \subseteq T
      BY DEF Below
    <3>3. Balance(G, Below(U, m), b) = Balance(F, Below(T, m), b)
      BY <1>8, <1>10, <3>1, <3>2
    <3> QED
      BY <1>3, <1>7, <3>1, <3>3
  <2> QED
    BY <2>1, <2>2
<1>12. Max(U) = n
  <2>1. U \subseteq Int /\ IsFiniteSet(U) /\ U # {}
    BY <1>1, <1>2, <1>4, FS_AddElement
  <2>2. Max(U) \in U /\ \A m \in U : Max(U) >= m
    BY <2>1, MaxIn
  <2>3. Max(U) >= n
    BY <1>1, <2>2
  <2>4. Max(U) \in T => Max(U) < n
    BY <1>5
  <2>5. Max(U) \in Int
    BY <2>1, <2>2
  <2> HIDE DEF Max
  <2> QED
    BY <1>2, <2>2, <2>3, <2>4, <2>5
<1>13. \A b \in Buckets : Held(G, k, b) = Balance(G, U, b)
  BY <1>1, <1>6, <1>12 DEF Balance
<1> QED
  BY <1>11, <1>13 DEF BooksClosed, Chained, U

(* The entry of one account leaves the books of the others alone.          *)
LEMMA EntryOfAnother ==
  ASSUME NEW F, NEW G, NEW k, NEW n, NEW row,
         <<"ledger", n>> \notin DOMAIN F,
         DOMAIN G = DOMAIN F \cup {<<"ledger", n>>}, G[<<"ledger", n>>] = row,
         \A x \in DOMAIN F : G[x] = F[x],
         row.key # k
  PROVE  SameEntries(F, G, k) /\ \A b : Held(F, k, b) = Held(G, k, b)
<1> DEFINE id == <<"ledger", n>>
<1>1. \A m \in Nat : <<"ledger", m>> \in DOMAIN G <=> <<"ledger", m>> \in DOMAIN F \/ m = n
  OBVIOUS
<1>2. \A m \in Nat : <<"ledger", m>> \in DOMAIN F => EntryAt(G, m) = EntryAt(F, m)
  BY DEF EntryAt
<1>3. EntryAt(G, n) = row
  BY DEF EntryAt
<1>4. <<"account", k>> # id
  OBVIOUS
<1>5. SameEntries(F, G, k)
  BY <1>1, <1>2, <1>3 DEF SameEntries, EntriesOf
<1>6. \A b : Held(F, k, b) = Held(G, k, b)
  BY <1>4 DEF Held
<1> QED
  BY <1>5, <1>6

(* The entry of the increment.                                             *)
LEMMA BooksEntry ==
  ASSUME NEW R, NEW D, NEW c, NEW D2, NEW c2, Ready(R), IsFiniteSet(DOMAIN D), Local(R, D, c),
         BooksLocal(R, D, c), EntryStep(R, D, c, D2, c2)
  PROVE  BooksLocal(R, D2, c2)
<1> DEFINE row == NewEntry(D, c)
           k0 == c.inc.key
           d == c.inc.delta
           F == Over(R, D)
           G == Over(R, D2)
<1>1. PICK n \in Nat \ {0} :
        /\ \A x \in Known(R, D) : x[1] = "ledger" => x[2] < n
        /\ D2 = With(D, <<"ledger", n>>, row)
  BY DEF EntryStep
<1> DEFINE id == <<"ledger", n>>
<1>2. /\ c.pc = "entry" /\ k0 \in Agents /\ <<"account", k0>> \in DOMAIN D
      /\ id[1] = "ledger" /\ id[2] = n /\ n \in Nat
      /\ row.key = k0
      /\ \A b \in Buckets : row.delta[b] = d[b] /\ row.after[b] = D[<<"account", k0>>][b]
  BY DEF EntryStep, Local, IncOK, Booking, NewEntry, OwnAccount
<1>3. c2.pc # "entry"
  BY DEF EntryStep, LoopFor
<1> HIDE DEF id, row, k0, d
<1>4. /\ DOMAIN D2 = DOMAIN D \cup {id} /\ D2[id] = row
      /\ \A x \in DOMAIN D \ {id} : D2[x] = D[x]
  BY <1>1 DEF With, id
<1>5. /\ DOMAIN F = Known(R, D)
      /\ \A x \in DOMAIN D : F[x] = D[x]
      /\ \A x \in DOMAIN R \ DOMAIN D : F[x] = R[x]
  BY DEF Over, Cur, Known
<1>6. id \notin DOMAIN F
  BY <1>1, <1>2, <1>5
<1>7. /\ DOMAIN G = DOMAIN F \cup {id} /\ G[id] = row
      /\ \A x \in DOMAIN F : G[x] = F[x]
  BY <1>4, <1>6 DEF Over, Cur
<1>8. IsFiniteSet(DOMAIN F)
  BY FS_Union DEF Over, Ready
<1>9. \A b \in Buckets : row.after[b] = Held(F, k0, b)
  BY <1>2, <1>5 DEF Held, Known
<1>10. BooksDue(F, k0, d)
  BY <1>2 DEF BooksLocal, k0, d
<1>11. \A m \in EntriesOf(F, k0) : m < n
  <2> SUFFICES ASSUME NEW m \in EntriesOf(F, k0) PROVE m < n
    OBVIOUS
  <2> DEFINE e == <<"ledger", m>>
  <2>1. e \in DOMAIN F /\ e[1] = "ledger" /\ e[2] = m
    BY DEF EntriesOf
  <2> HIDE DEF e
  <2> QED
    BY <1>1, <1>5, <2>1
<1> HIDE DEF F, G
<1>12. BooksClosed(G, k0)
  BY <1>2, <1>6, <1>7, <1>8, <1>9, <1>10, <1>11, EntryCloses DEF id
<1>13. ASSUME NEW k \in Agents, k # k0, <<"account", k>> \in DOMAIN D PROVE BooksClosed(G, k)
  <2>1. BooksClosed(F, k)
    BY <1>2, <1>13 DEF BooksLocal, F, k0
  <2>2. SameEntries(F, G, k) /\ \A b : Held(F, k, b) = Held(G, k, b)
    BY <1>2, <1>6, <1>7, <1>13, EntryOfAnother DEF id
  <2> QED
    BY <1>8, <2>1, <2>2, BooksAlike
<1>14. ASSUME NEW k \in Agents, <<"account", k>> \in DOMAIN D2 PROVE BooksClosed(G, k)
  <2>1. <<"account", k>> \in DOMAIN D
    <3> DEFINE a == <<"account", k>>
    <3>1. a \in DOMAIN D2 /\ a[1] = "account"
      BY <1>14
    <3> HIDE DEF a
    <3>2. a \in DOMAIN D
      BY <1>2, <1>4, <3>1
    <3> QED
      BY <3>2 DEF a
  <2> QED
    BY <1>12, <1>13, <2>1
<1>15. \A e \in DOMAIN D2 : e[1] = "ledger" => <<"account", D2[e].key>> \in DOMAIN D2
  BY <1>2, <1>4 DEF BooksLocal
<1> QED
  BY <1>3, <1>14, <1>15 DEF BooksLocal, G

(* Every step of a call, short of its commit.                              *)
LEMMA BooksEffect ==
  ASSUME NEW R, NEW D, NEW c, NEW D2, NEW c2, Ready(R), IsFiniteSet(DOMAIN D), Local(R, D, c),
         BooksLocal(R, D, c), \A k \in Agents : BooksClosed(R, k), Effect(R, D, c, D2, c2)
  PROVE  BooksLocal(R, D2, c2)
<1>1. OwnOK(R, D, c)
  BY DEF Local
<1> QED
  BY <1>1, WriteCases, BooksNothing, BooksWritesAside, BooksWritesAccount, BooksEntry

(* A call commits: the accounts it wrote are closed, and so are the others.*)
LEMMA BooksCommitted ==
  ASSUME NEW R, NEW D, NEW c, Ready(R), IsFiniteSet(DOMAIN D), OwnOK(R, D, c),
         BooksLocal(R, D, c), \A k \in Agents : BooksClosed(R, k), c.pc \in Loops
  PROVE  \A k \in Agents : BooksClosed(Over(R, D), k)
<1>1. c.pc # "entry"
  BY DEF Loops
<1> QED
  BY <1>1, HeldBefore

(* Every step keeps the entries of an agent in a chain that ends in the    *)
(* balances.                                                               *)
LEMMA BooksStep ==
  ASSUME TypeInv, BooksInv, [SqlNext]_sqlVars
  PROVE  BooksInv'
<1>1. /\ \A k \in Agents : BooksClosed(rows, k)
      /\ \A t \in Calls : BooksLocal(rows, Mine(t), call[t])
  BY DEF BooksInv
<1>2. Ready(rows)
  BY DEF Ready, TypeInv, StoreOK
<1>3. ASSUME NEW t \in Calls, Acts(t) PROVE BooksInv'
  <2>1. BooksLocal(rows, Mine(t)', call'[t])
    BY <1>1, <1>2, <1>3, LocalFacts, BooksEffect DEF Acts
  <2> QED
    BY <1>1, <1>3, <2>1 DEF BooksInv, Acts, Rest
<1>4. ASSUME NEW t \in Calls, Commits(t) PROVE BooksInv'
  <2> DEFINE E == Mine(t)
  <2>1. /\ OwnOK(rows, E, call[t]) /\ IsFiniteSet(DOMAIN E) /\ BooksLocal(rows, E, call[t])
        /\ call[t].pc \in Loops
    BY <1>1, <1>4, LocalFacts DEF Commits
  <2>2. \A k \in Agents : BooksClosed(rows', k)
    BY <1>1, <1>2, <1>4, <2>1, BooksCommitted DEF Commits
  <2>3. BooksLocal(rows', Mine(t)', call'[t])
    BY <1>4, BooksNothing DEF Commits, Ended
  <2>4. ASSUME NEW u \in Calls \ {t} PROVE BooksLocal(rows', Mine(u)', call'[u])
    <3> DEFINE D == Mine(u)
               c == call[u]
    <3>1. BooksLocal(rows, D, c) /\ IsFiniteSet(DOMAIN D) /\ DOMAIN D \cap DOMAIN E = {}
      BY <1>1, <1>4, LocalFacts DEF Commits
    <3>2. \A e \in DOMAIN E : e[1] = "ledger" => <<"account", E[e].key>> \in DOMAIN E
      BY <2>1 DEF BooksLocal
    <3> HIDE DEF D, c, E
    <3>3. ASSUME NEW k \in Agents, <<"account", k>> \in DOMAIN D
          PROVE  /\ SameEntries(Over(rows, D), Over(Over(rows, E), D), k)
                 /\ \A b : Held(Over(rows, D), k, b) = Held(Over(Over(rows, E), D), k, b)
      BY <2>1, <3>1, <3>2, <3>3, BooksKept
    <3>4. IsFiniteSet(DOMAIN Over(rows, D))
      BY <1>2, <3>1, FS_Union DEF Over, Ready
    <3>5. ASSUME NEW k \in Agents, <<"account", k>> \in DOMAIN D
          PROVE  /\ BooksClosed(Over(rows, D), k) => BooksClosed(Over(Over(rows, E), D), k)
                 /\ \A d : BooksDue(Over(rows, D), k, d) => BooksDue(Over(Over(rows, E), D), k, d)
      BY <3>3, <3>4, <3>5, BooksAlike
    <3>6. BooksLocal(Over(rows, E), D, c)
      BY <3>1, <3>5 DEF BooksLocal
    <3> QED
      BY <1>4, <3>6 DEF Commits, Rest, D, c, E
  <2> QED
    BY <2>2, <2>3, <2>4 DEF BooksInv
<1>5. CASE Idles
  BY <1>1, <1>5 DEF BooksInv, Idles
<1> QED
  BY <1>3, <1>4, <1>5, StepCases

(* At first there is nothing to book.                                      *)
LEMMA BooksStart ==
  ASSUME SqlInit
  PROVE  BooksInv
<1>1. rows = << >> /\ dirty = << >>
  BY DEF SqlInit
<1>2. \A t \in Calls : DOMAIN Mine(t) = {}
  BY <1>1 DEF Mine, OwnRows
<1>3. DOMAIN rows = {}
  BY <1>1
<1>4. \A k : EntriesOf(rows, k) = {} /\ \A b : Held(rows, k, b) = 0
  BY <1>3 DEF EntriesOf, Held
<1>5. \A k \in Agents : BooksClosed(rows, k)
  BY <1>4 DEF BooksClosed, Chained, Balance
<1> QED
  BY <1>2, <1>5 DEF BooksInv, BooksLocal

(* Whatever interleaving, however many attempts: every account is the sum  *)
(* of its ledger entries in the order of their ids, and every entry shows  *)
(* the balances it left.                                                   *)
THEOREM ConcurrentBooksBalance == SqlSpec => []SqlBooksBalance
<1>1. SqlInit => BooksInv
  BY BooksStart
<1>2. TypeInv /\ BooksInv /\ [SqlNext]_sqlVars => BooksInv'
  BY BooksStep
<1>3. ASSUME TypeInv, BooksInv PROVE SqlBooksBalance
  <2>1. RowsOK(rows)
    BY <1>3 DEF TypeInv, StoreOK
  <2> SUFFICES ASSUME NEW k \in Agents, NEW b \in Buckets
               PROVE  LET entries == CommittedLedger(k)
                          Bal(ids) == IF ids = {} THEN 0 ELSE entries[Max(ids)].after[b]
                      IN  /\ \A n \in DOMAIN entries :
                               entries[n].after[b] =
                                 Bal({m \in DOMAIN entries : m < n}) + entries[n].delta[b]
                          /\ CommittedAccount(k)[b] = Bal(DOMAIN entries)
    BY DEF SqlBooksBalance
  <2> DEFINE L == CommittedLedger(k)
             T == EntriesOf(rows, k)
  <2>2. DOMAIN L = T
    <3>1. ASSUME NEW id \in DOMAIN rows, id[1] = "ledger"
          PROVE  id[2] \in Nat /\ id = <<"ledger", id[2]>>
      BY <2>1, <3>1 DEF RowsOK, RowOK
    <3>2. DOMAIN L = {id[2] : id \in {x \in RowsOf("ledger", rows) : rows[x].key = k}}
      BY DEF CommittedLedger
    <3>3. ASSUME NEW id \in RowsOf("ledger", rows), rows[id].key = k PROVE id[2] \in T
      BY <3>1, <3>3 DEF RowsOf, EntriesOf, EntryAt
    <3>4. ASSUME NEW n \in T
          PROVE  \E id \in RowsOf("ledger", rows) : rows[id].key = k /\ n = id[2]
      <4> DEFINE e == <<"ledger", n>>
      <4>1. e \in DOMAIN rows /\ e[1] = "ledger" /\ e[2] = n /\ rows[e].key = k
        BY DEF EntriesOf, EntryAt
      <4> HIDE DEF e
      <4> QED
        BY <4>1 DEF RowsOf
    <3> HIDE DEF T, L
    <3> QED
      BY <3>2, <3>3, <3>4
  <2>3. \A n \in DOMAIN L : L[n] = EntryAt(rows, n)
    BY DEF CommittedLedger, EntryAt
  <2>4. IsFiniteSet(T) /\ T \subseteq Nat
    BY <1>3, EntriesFinite DEF TypeInv, StoreOK
  <2>5. /\ \A n \in T : EntryAt(rows, n).after[b] =
             Balance(rows, Below(T, n), b) + EntryAt(rows, n).delta[b]
        /\ Held(rows, k, b) = Balance(rows, T, b)
    BY <1>3 DEF BooksInv, BooksClosed, Chained
  <2>6. CommittedAccount(k)[b] = Held(rows, k, b)
    BY DEF CommittedAccount, Held, Buckets
  <2> HIDE DEF L, T
  <2>7. ASSUME NEW S, S \subseteq T
        PROVE  Balance(rows, S, b) = IF S = {} THEN 0 ELSE L[Max(S)].after[b]
    <3>1. CASE S = {}
      BY <3>1 DEF Balance
    <3>2. CASE S # {}
      <4>1. IdSet(S)
        BY <2>4, <2>7, FS_Subset DEF IdSet
      <4>2. Max(S) \in S
        BY <3>2, <4>1, LastEntry
      <4> DEFINE x == Max(S)
      <4>3. Balance(rows, S, b) = EntryAt(rows, x).after[b]
        BY <3>2 DEF Balance
      <4>4. x \in DOMAIN L
        <5>1. x \in S
          BY <4>2
        <5> HIDE DEF x
        <5>2. x \in T
          BY <2>7, <5>1
        <5> QED
          BY <2>2, <5>2
      <4> HIDE DEF x
      <4>5. L[x] = EntryAt(rows, x)
        BY <2>3, <4>4
      <4> QED
        BY <3>2, <4>3, <4>5 DEF x
    <3> QED
      BY <3>1, <3>2
  <2>8. \A n : Below(T, n) \subseteq T /\ Below(T, n) = {m \in DOMAIN L : m < n}
    BY <2>2 DEF Below
  <2>9. CommittedAccount(k)[b] = IF T = {} THEN 0 ELSE L[Max(T)].after[b]
    BY <2>5, <2>6, <2>7
  <2>10. ASSUME NEW n \in T
         PROVE  L[n].after[b] = (IF Below(T, n) = {} THEN 0 ELSE L[Max(Below(T, n))].after[b])
                                  + L[n].delta[b]
    <3>1. Balance(rows, Below(T, n), b)
            = IF Below(T, n) = {} THEN 0 ELSE L[Max(Below(T, n))].after[b]
      BY <2>7, <2>8
    <3> QED
      BY <2>2, <2>3, <2>5, <3>1
  <2> QED
    BY <2>2, <2>8, <2>9, <2>10 DEF L
<1> QED
  BY <1>1, <1>2, <1>3, TypeInvariant, PTL DEF SqlSpec

-----------------------------------------------------------------------------
(***************************************************************************)
(* The self check on one snapshot                                          *)
(***************************************************************************)

(* Every withdrawal has the entry that reserved its money.                 *)
AllHeld(R) == \A w \in DOMAIN R : w[1] = "withdrawal" => w[2] \in Holds(R)

(* A withdrawal a call has inserted: its entry is written, or the call is  *)
(* on the way to it.                                                       *)
HeldLocal(R, D, c) ==
  /\ \A w \in DOMAIN D : w[1] = "withdrawal" /\ w \notin DOMAIN R =>
       c.req.op = "withdraw" /\ w[2] = c.req.key /\ (w[2] \in Holds(D) \/ c.pc \in Booking)
  /\ c.req.op = "withdraw" /\ c.pc \in Booking =>
       c.inc.biz = "withdraw_hold" /\ c.inc.ref = c.req.key

HeldInv == AllHeld(rows) /\ \A t \in Calls : HeldLocal(rows, Mine(t), call[t])

(* The entries of holds stay when rows are written that are no entries.    *)
LEMMA HoldsKept ==
  ASSUME NEW D, NEW id, NEW row, id \notin DOMAIN D \/ id[1] # "ledger"
  PROVE  Holds(D) \subseteq Holds(With(D, id, row))
<1> DEFINE E == With(D, id, row)
<1>1. DOMAIN E = DOMAIN D \cup {id} /\ \A x \in DOMAIN D \ {id} : E[x] = D[x]
  BY DEF With
<1> HIDE DEF E
<1>2. ASSUME NEW x \in RowsOf("ledger", D), D[x].biz = "withdraw_hold"
      PROVE  x \in RowsOf("ledger", E) /\ E[x].biz = "withdraw_hold" /\ E[x].ref = D[x].ref
  BY <1>1, <1>2 DEF RowsOf
<1> QED
  BY <1>2 DEF Holds, E

(* A call that wrote nothing holds nothing.                                *)
LEMMA HeldNothing ==
  ASSUME NEW R, NEW D2, NEW c2, DOMAIN D2 = {}, c2.pc \notin Booking
  PROVE  HeldLocal(R, D2, c2)
BY DEF HeldLocal

(* The steps that begin or end a transaction.                              *)
LEMMA HeldBegins ==
  ASSUME NEW R, NEW D, NEW c, NEW D2, NEW c2, Local(R, D, c),
         \/ PaidStep(R, D, c, D2, c2) \/ ReceivedStep(R, D, c, D2, c2)
         \/ MaintainStep(R, D, c, D2, c2) \/ RefundedStep(R, D, c, D2, c2)
         \/ VoidStep(R, D, c, D2, c2) \/ RiskStep(R, D, c, D2, c2)
         \/ WithdrawStep(R, D, c, D2, c2) \/ CheckStep(R, D, c, D2, c2)
         \/ DecisionStep(R, D, c, D2, c2) \/ LedgerStep(R, D, c, D2, c2)
         \/ RetryStep(R, D, c, D2, c2)
  PROVE  HeldLocal(R, D2, c2)
<1>1. DOMAIN D2 = {}
  BY BeginsOrEnds
<1>2. c2.req = c.req
  BY DEF PaidStep, ReceivedStep, MaintainStep, RefundedStep, VoidStep, RiskStep, WithdrawStep,
     CheckStep, DecisionStep, LedgerStep, RetryStep, Begun, Ended
<1>3. c2.pc \in Booking => c.req.op \in {"payout", "reject"}
  BY DEF PaidStep, ReceivedStep, MaintainStep, RefundedStep, VoidStep, RiskStep, WithdrawStep,
     CheckStep, DecisionStep, LedgerStep, RetryStep, Begun, Ended, Booking
<1> QED
  BY <1>1, <1>2, <1>3 DEF HeldLocal

(* The steps of a call that is not a withdrawal.                           *)
LEMMA HeldAside ==
  ASSUME NEW R, NEW D, NEW c, NEW D2, NEW c2, Local(R, D, c), HeldLocal(R, D, c),
         \/ AccrueStep(R, D, c, D2, c2) \/ DateStep(R, D, c, D2, c2)
         \/ SettleStep(R, D, c, D2, c2) \/ VouchersStep(R, D, c, D2, c2)
         \/ VoucherStep(R, D, c, D2, c2) \/ ClawStep(R, D, c, D2, c2)
         \/ AccumulateStep(R, D, c, D2, c2) \/ FreezeStep(R, D, c, D2, c2)
         \/ WithdrawalsStep(R, D, c, D2, c2) \/ DecideStep(R, D, c, D2, c2)
  PROVE  HeldLocal(R, D2, c2)
<1>1. CASE \E r : Ended(D2, c, c2, r)
  BY <1>1, HeldNothing DEF Ended, Booking
<1>2. CASE ~\E r : Ended(D2, c, c2, r)
  <2>1. /\ c.pc \in {"accrue", "date", "settle", "vouchers", "voucher", "claw", "accumulate",
                     "risk", "withdrawals", "decide"}
        /\ c2.req = c.req
    BY <1>2 DEF AccrueStep, DateStep, SettleStep, VouchersStep, VoucherStep, ClawStep,
       AccumulateStep, FreezeStep, WithdrawalsStep, DecideStep, GoesOn, Increments, Flows
  <2>2. c.req.op # "withdraw"
    BY <2>1 DEF Local, PlaceOK
  <2>3. \/ D2 = D
        \/ \E id, row : (id[1] # "withdrawal" \/ id \in DOMAIN R) /\ D2 = With(D, id, row)
    <3>1. CASE AccrueStep(R, D, c, D2, c2)
      <4> DEFINE id == <<"commission", AccrualKey(c.req.order, c.todo[1].agent)>>
                 row == NewAccrual(c.todo[1])
      <4>1. id[1] # "withdrawal" /\ (D2 = D \/ D2 = With(D, id, row))
        BY <3>1 DEF AccrueStep
      <4> HIDE DEF id, row
      <4> QED
        BY <4>1
    <3>2. CASE VoucherStep(R, D, c, D2, c2)
      BY <3>2 DEF VoucherStep
    <3>3. CASE ClawStep(R, D, c, D2, c2)
      BY <3>3 DEF ClawStep, ReversalId
    <3>4. CASE \/ DateStep(R, D, c, D2, c2) \/ SettleStep(R, D, c, D2, c2)
               \/ AccumulateStep(R, D, c, D2, c2) \/ FreezeStep(R, D, c, D2, c2)
               \/ DecideStep(R, D, c, D2, c2)
      <4>1. /\ c.todo # << >>
            /\ c.req.op \in {"received", "maintain", "refunded", "void", "risk",
                             "payout", "reject"}
        BY <3>4 DEF DateStep, SettleStep, AccumulateStep, FreezeStep, DecideStep,
           Local, PlaceOK, TodoOK
      <4>2. c.todo[1].id \in DOMAIN R
        BY <4>1, HeadCopy DEF Local, CopyOK
      <4>3. D2 = D \/ \E row : D2 = With(D, c.todo[1].id, row)
        BY <1>2, <3>4 DEF DateStep, SettleStep, AccumulateStep, FreezeStep, DecideStep, Swaps
      <4> QED
        BY <4>2, <4>3
    <3>5. CASE VouchersStep(R, D, c, D2, c2) \/ WithdrawalsStep(R, D, c, D2, c2)
      BY <1>2, <3>5 DEF VouchersStep, WithdrawalsStep
    <3> QED
      BY <3>1, <3>2, <3>3, <3>4, <3>5
  <2>4. \A w \in DOMAIN D2 : w[1] = "withdrawal" /\ w \notin DOMAIN R => w \in DOMAIN D
    BY <2>3 DEF With
  <2> QED
    BY <2>1, <2>2, <2>4 DEF HeldLocal
<1> QED
  BY <1>1, <1>2

(* A withdrawal is inserted, and its increment asked for.                  *)
LEMMA HeldReserve ==
  ASSUME NEW R, NEW D, NEW c, NEW D2, NEW c2, Local(R, D, c), HeldLocal(R, D, c),
         ReserveStep(R, D, c, D2, c2)
  PROVE  HeldLocal(R, D2, c2)
<1>1. CASE \E r : Ended(D2, c, c2, r)
  BY <1>1, HeldNothing DEF Ended, Booking
<1>2. CASE ~\E r : Ended(D2, c, c2, r)
  <2> DEFINE id == <<"withdrawal", c.req.key>>
  <2>1. /\ c2.req = c.req /\ c2.pc = "update"
        /\ c2.inc.biz = "withdraw_hold" /\ c2.inc.ref = c.req.key
        /\ D2 = With(D, id, NewWithdrawal(c)) /\ c.pc = "reserve"
    BY <1>2 DEF ReserveStep, Increments, Flows, Asks
  <2>2. c.req.op = "withdraw" /\ c2.pc \in Booking
    BY <2>1 DEF Local, PlaceOK, Booking
  <2>3. id[2] = c.req.key
    OBVIOUS
  <2> HIDE DEF id
  <2>4. DOMAIN D2 = DOMAIN D \cup {id}
    BY <2>1 DEF With
  <2> QED
    BY <2>1, <2>2, <2>3, <2>4 DEF HeldLocal
<1> QED
  BY <1>1, <1>2

(* The steps of an increment.                                              *)
LEMMA HeldBooking ==
  ASSUME NEW R, NEW D, NEW c, NEW D2, NEW c2, Local(R, D, c), HeldLocal(R, D, c),
         \/ UpdateStep(R, D, c, D2, c2) \/ LookupStep(R, D, c, D2, c2)
         \/ InsertStep(R, D, c, D2, c2) \/ RefusedStep(R, D, c, D2, c2)
  PROVE  HeldLocal(R, D2, c2)
<1>1. CASE \E r : Ended(D2, c, c2, r)
  BY <1>1, HeldNothing DEF Ended, Booking
<1>2. CASE ~\E r : Ended(D2, c, c2, r)
  <2>1. c.pc \in Booking /\ c2.req = c.req
    BY <1>2 DEF UpdateStep, LookupStep, InsertStep, RefusedStep, MovesTo, Passes, GoesOn,
       Increments, Flows, Booking
  <2>2. \/ c2.pc \in Booking /\ c2.inc.biz = c.inc.biz /\ c2.inc.ref = c.inc.ref
        \/ c2.pc \notin Booking /\ c.req.op = "maintain"
    BY <1>2 DEF UpdateStep, LookupStep, InsertStep, RefusedStep, MovesTo, Passes, GoesOn,
       Increments, Asks, Booking
  <2>3. \A w \in DOMAIN D2 : w[1] = "withdrawal" => w \in DOMAIN D
    <3>1. D2 = D \/ \E row : D2 = With(D, OwnAccount(c), row)
      BY <1>2 DEF UpdateStep, LookupStep, InsertStep, RefusedStep
    <3>2. OwnAccount(c)[1] = "account"
      BY DEF OwnAccount
    <3> QED
      BY <3>1, <3>2 DEF With
  <2> QED
    BY <2>1, <2>2, <2>3 DEF HeldLocal
<1> QED
  BY <1>1, <1>2

(* The entry of the increment.                                             *)
LEMMA HeldEntry ==
  ASSUME NEW R, NEW D, NEW c, NEW D2, NEW c2, Local(R, D, c), HeldLocal(R, D, c),
         EntryStep(R, D, c, D2, c2)
  PROVE  HeldLocal(R, D2, c2)
<1> DEFINE row == NewEntry(D, c)
<1>1. PICK n \in Nat \ {0} : D2 = With(D, <<"ledger", n>>, row)
  BY DEF EntryStep
<1> DEFINE id == <<"ledger", n>>
<1>2. /\ c.pc \in Booking /\ c2.req = c.req /\ c2.pc \notin Booking
      /\ row.biz = c.inc.biz /\ row.ref = c.inc.ref /\ id[1] = "ledger"
  BY DEF EntryStep, Flows, NewEntry, LoopFor, Booking
<1> HIDE DEF id, row
<1>3. DOMAIN D2 = DOMAIN D \cup {id} /\ D2[id] = row
  BY <1>1 DEF With, id
<1>4. row.biz = "withdraw_hold" => row.ref \in Holds(D2)
  BY <1>2, <1>3 DEF Holds, RowsOf
<1> QED
  BY <1>2, <1>3, <1>4 DEF HeldLocal

(* A withdrawal and the entry of its reservation are written by the same   *)
(* call.                                                                   *)
LEMMA HeldEffect ==
  ASSUME NEW R, NEW D, NEW c, NEW D2, NEW c2, Local(R, D, c), HeldLocal(R, D, c),
         Effect(R, D, c, D2, c2)
  PROVE  HeldLocal(R, D2, c2)
<1> DEFINE goal == HeldLocal(R, D2, c2)
<1> SUFFICES goal
  OBVIOUS
<1>1. CASE \/ PaidStep(R, D, c, D2, c2) \/ ReceivedStep(R, D, c, D2, c2)
           \/ MaintainStep(R, D, c, D2, c2) \/ RefundedStep(R, D, c, D2, c2)
           \/ VoidStep(R, D, c, D2, c2) \/ RiskStep(R, D, c, D2, c2)
           \/ WithdrawStep(R, D, c, D2, c2) \/ CheckStep(R, D, c, D2, c2)
           \/ DecisionStep(R, D, c, D2, c2) \/ LedgerStep(R, D, c, D2, c2)
           \/ RetryStep(R, D, c, D2, c2)
  BY <1>1, HeldBegins
<1>2. CASE \/ AccrueStep(R, D, c, D2, c2) \/ DateStep(R, D, c, D2, c2)
           \/ SettleStep(R, D, c, D2, c2) \/ VouchersStep(R, D, c, D2, c2)
           \/ VoucherStep(R, D, c, D2, c2) \/ ClawStep(R, D, c, D2, c2)
           \/ AccumulateStep(R, D, c, D2, c2) \/ FreezeStep(R, D, c, D2, c2)
           \/ WithdrawalsStep(R, D, c, D2, c2) \/ DecideStep(R, D, c, D2, c2)
  BY <1>2, HeldAside
<1>3. CASE \/ UpdateStep(R, D, c, D2, c2) \/ LookupStep(R, D, c, D2, c2)
           \/ InsertStep(R, D, c, D2, c2) \/ RefusedStep(R, D, c, D2, c2)
  BY <1>3, HeldBooking
<1>4. CASE ReserveStep(R, D, c, D2, c2) \/ EntryStep(R, D, c, D2, c2)
  BY <1>4, HeldReserve, HeldEntry
<1> HIDE DEF goal
<1> QED
  BY <1>1, <1>2, <1>3, <1>4 DEF Effect

(* What is held stays held when a call commits.                            *)
LEMMA HeldCommitted ==
  ASSUME NEW R, NEW D, NEW c, OwnOK(R, D, c), AllHeld(R), HeldLocal(R, D, c), c.pc \in Loops
  PROVE  AllHeld(Over(R, D))
<1> DEFINE Q == Over(R, D)
<1>1. /\ DOMAIN Q = DOMAIN R \cup DOMAIN D
      /\ \A id \in DOMAIN D : Q[id] = D[id]
      /\ \A id \in DOMAIN R \ DOMAIN D : Q[id] = R[id]
  BY DEF Over, Cur
<1>2. \A e \in DOMAIN D : e[1] = "ledger" => e \notin DOMAIN R
  BY DEF OwnOK, IsVersioned, IsAccrual
<1>3. c.pc \notin Booking
  BY DEF Loops, Booking
<1> HIDE DEF Q
<1>4. Holds(R) \subseteq Holds(Q)
  <2>1. ASSUME NEW x \in RowsOf("ledger", R)
        PROVE  x \in RowsOf("ledger", Q) /\ Q[x] = R[x]
    BY <1>1, <1>2 DEF RowsOf
  <2> QED
    BY <2>1 DEF Holds
<1>5. Holds(D) \subseteq Holds(Q)
  <2>1. ASSUME NEW x \in RowsOf("ledger", D)
        PROVE  x \in RowsOf("ledger", Q) /\ Q[x] = D[x]
    BY <1>1 DEF RowsOf
  <2> QED
    BY <2>1 DEF Holds
<1>6. ASSUME NEW w \in DOMAIN Q, w[1] = "withdrawal" PROVE w[2] \in Holds(Q)
  <2>1. CASE w \in DOMAIN R
    BY <1>4, <1>6, <2>1 DEF AllHeld
  <2>2. CASE w \notin DOMAIN R
    BY <1>1, <1>3, <1>5, <1>6, <2>2 DEF HeldLocal
  <2> QED
    BY <2>1, <2>2
<1> QED
  BY <1>6 DEF AllHeld, Q

(* Every committed withdrawal has the entry of its reservation.            *)
LEMMA HeldStep ==
  ASSUME TypeInv, HeldInv, [SqlNext]_sqlVars
  PROVE  HeldInv'
<1>1. AllHeld(rows) /\ \A t \in Calls : HeldLocal(rows, Mine(t), call[t])
  BY DEF HeldInv
<1>2. ASSUME NEW t \in Calls, Acts(t) PROVE HeldInv'
  <2>1. HeldLocal(rows, Mine(t)', call'[t])
    BY <1>1, <1>2, LocalFacts, HeldEffect DEF Acts
  <2> QED
    BY <1>1, <1>2, <2>1 DEF HeldInv, Acts, Rest
<1>3. ASSUME NEW t \in Calls, Commits(t) PROVE HeldInv'
  <2>1. AllHeld(rows')
    BY <1>1, <1>3, LocalFacts, HeldCommitted DEF Commits
  <2>2. HeldLocal(rows', Mine(t)', call'[t])
    BY <1>3, HeldNothing DEF Commits, Ended, Booking
  <2>3. ASSUME NEW u \in Calls \ {t} PROVE HeldLocal(rows', Mine(u)', call'[u])
    <3>1. DOMAIN rows \subseteq DOMAIN rows'
      BY <1>3 DEF Commits, Over
    <3>2. HeldLocal(rows', Mine(u), call[u])
      BY <1>1, <3>1 DEF HeldLocal
    <3> QED
      BY <1>3, <3>2 DEF Commits, Rest
  <2> QED
    BY <2>1, <2>2, <2>3 DEF HeldInv
<1>4. CASE Idles
  BY <1>1, <1>4 DEF HeldInv, Idles
<1> QED
  BY <1>2, <1>3, <1>4, StepCases

(* There is no withdrawal at first.                                        *)
LEMMA HeldInit ==
  ASSUME SqlInit
  PROVE  HeldInv
<1>1. rows = << >> /\ dirty = << >>
  BY DEF SqlInit
<1>2. \A t \in Calls : call[t].pc \in {"idle", "done"}
  BY DEF SqlInit, Closed
<1>3. \A t \in Calls : DOMAIN Mine(t) = {}
  BY <1>1 DEF Mine, OwnRows
<1> QED
  BY <1>1, <1>2, <1>3 DEF HeldInv, HeldLocal, AllHeld, Booking

(* The withdrawing bucket of an account is what its withdrawals reserve.   *)
LEMMA ReservedMatches ==
  ASSUME NEW R, Ready(R), TalliesZero(R), NEW k \in Agents, <<"account", k>> \in DOMAIN R
  PROVE  R[<<"account", k>>]["withdrawing"] = Reserved(R)[k]
<1> DEFINE j == <<"reserved", k>>
           a == <<"account", k>>
           W == RowsOf("withdrawal", R)
           h == [id \in W |-> R[id].amount]
           U == {id \in {x \in W : R[x].state = "reserved"} : R[id].agent = k}
<1>0. j \in Kinds /\ j[1] = "reserved" /\ j[2] = k /\ Tally(j, R) = 0
  BY DEF Kinds, TalliesZero
<1>1. RowsOK(R) /\ U \subseteq DOMAIN R
  BY DEF Ready, RowsOf
<1>2. a \notin U
  <2>1. a[1] = "account"
    OBVIOUS
  <2> HIDE DEF a
  <2> QED
    BY <2>1 DEF RowsOf
<1>3. ASSUME NEW x \in DOMAIN R
      PROVE  /\ x \in U => h[x] = -Weight(j, x, R[x])
             /\ x \notin U /\ x # a => Weight(j, x, R[x]) = 0
  <2> DEFINE r == R[x]
  <2>1. RowOK(x, r)
    BY <1>1 DEF RowsOK
  <2>2. x \in U <=> x[1] = "withdrawal" /\ r.state = "reserved" /\ r.agent = k
    BY DEF RowsOf
  <2>3. x \in U => h[x] = r.amount
    OBVIOUS
  <2> HIDE DEF r, U, h, j
  <2>4. CASE x[1] = "withdrawal"
    <3>1. r.amount \in Int
      BY <2>1, <2>4 DEF RowOK, WithdrawalRow, IsAccrual, IsReversal
    <3>2. WithdrawalPart(j, r) = IF r.agent = k /\ r.state = "reserved" THEN r.amount ELSE 0
      BY <1>0 DEF WithdrawalPart
    <3>3. Weight(j, x, r) = -WithdrawalPart(j, r)
      BY <2>4, WithdrawalWeight
    <3>4. x \in U => Weight(j, x, r) = -r.amount
      BY <2>2, <3>2, <3>3
    <3>5. x \notin U => Weight(j, x, r) \in {-0}
      BY <2>2, <2>4, <3>2, <3>3
    <3> QED
      BY <2>3, <3>1, <3>4, <3>5 DEF r
  <2>5. CASE x[1] # "withdrawal"
    <3>1. x \notin U
      BY <2>2, <2>5
    <3>2. CASE x[1] = "account"
      <4>1. x = <<"account", x[2]>>
        BY <2>1, <3>2 DEF RowOK
      <4>2. x # a => x[2] # k
        BY <4>1
      <4> HIDE DEF a
      <4> QED
        BY <1>0, <3>1, <3>2, <4>2 DEF Weight, r
    <3>3. CASE x[1] # "account"
      <4>1. ReversalPart(j, x, r) = 0 /\ AccrualPart(j, x, r) = 0
        BY <1>0 DEF ReversalPart, AccrualPart
      <4>2. Weight(j, x, r) \in {0, -0}
        BY <2>5, <3>3, <4>1 DEF Weight
      <4> QED
        BY <3>1, <4>2 DEF r
    <3> QED
      BY <3>2, <3>3
  <2> QED
    BY <2>4, <2>5
<1>4. /\ \A x \in DOMAIN R \ U : x # a => Weight(j, x, R[x]) = 0
      /\ \A x \in U : h[x] = -Weight(j, x, R[x])
  BY <1>1, <1>3
<1>5. Reserved(R)[k] = SumFunctionOnSet(h, U)
  BY DEF Reserved
<1>6. WeightIn(j, R, a) = R[a]["withdrawing"]
  <2> DEFINE r == R[a]
  <2>1. Weight(j, a, r) = r["withdrawing"]
    <3> HIDE DEF r
    <3>1. AccountPart(j, r) = r["withdrawing"]
      BY <1>0 DEF AccountPart
    <3>2. Weight(j, a, r) = AccountPart(j, r)
      <4> HIDE DEF j
      <4> QED
        BY <1>0, AccountWeight
    <3> QED
      BY <3>1, <3>2
  <2> QED
    BY <2>1 DEF WeightIn
<1> HIDE DEF U, h, a, j
<1>7. SumFunctionOnSet(h, U) = WeightIn(j, R, a)
  BY <1>0, <1>1, <1>2, <1>4, AccountMatches
<1> QED
  BY <1>5, <1>6, <1>7 DEF a

(* What a check has read on MySQL, and what it answers.                    *)
CheckOK(c) ==
  engine = "mysql" =>
    /\ c.result # "alarm"
    /\ c.pc = "withdrawals" =>
         \A w \in DOMAIN c.snap : w[1] = "withdrawal" => w[2] \in c.todo[1].held
    /\ c.pc \in {"withdrawals", "ledger"} =>
         \A k \in Agents : <<"account", k>> \in DOMAIN c.snap =>
           c.snap[<<"account", k>>]["withdrawing"] = Reserved(c.snap)[k]
    /\ c.pc = "ledger" => c.todo[1].reserved = Reserved(c.snap)

CheckInv == \A t \in Calls : CheckOK(call[t])

(* What a SELECT sees is the snapshot.                                     *)
LEMMA SeesSnapshot ==
  ASSUME NEW R, NEW c, NEW seen, Sees(R, c, seen), engine = "mysql"
  PROVE  /\ DOMAIN seen = DOMAIN c.snap /\ \A id \in DOMAIN seen : seen[id] = c.snap[id]
         /\ Reserved(seen) = Reserved(c.snap)
<1> DEFINE F == c.snap
<1>1. DOMAIN seen = DOMAIN F /\ \A id \in DOMAIN seen : seen[id] = F[id]
  BY DEF Sees
<1> HIDE DEF F
<1> DEFINE V == RowsOf("withdrawal", seen)
           W == RowsOf("withdrawal", F)
           g == [id \in V |-> seen[id].amount]
           h == [id \in W |-> F[id].amount]
           A(k) == {id \in {x \in V : seen[x].state = "reserved"} : seen[id].agent = k}
           B(k) == {id \in {x \in W : F[x].state = "reserved"} : F[id].agent = k}
<1>2. V = W /\ \A id \in V : seen[id] = F[id]
  BY <1>1 DEF RowsOf
<1>3. g = h
  BY <1>2
<1>4. \A k : A(k) = B(k)
  BY <1>2
<1>5. /\ Reserved(seen) = [k \in Agents |-> SumFunctionOnSet(g, A(k))]
      /\ Reserved(F) = [k \in Agents |-> SumFunctionOnSet(h, B(k))]
  BY DEF Reserved
<1> HIDE DEF A, B, g, h
<1> QED
  BY <1>1, <1>3, <1>4, <1>5 DEF F

(* A check that reads one snapshot finds nothing.                          *)
LEMMA CheckEffect ==
  ASSUME NEW R, NEW D, NEW c, NEW D2, NEW c2, Ready(R), TalliesZero(R), AllHeld(R),
         Local(R, D, c), CheckOK(c), Effect(R, D, c, D2, c2)
  PROVE  CheckOK(c2)
<1>1. CASE WithdrawalsStep(R, D, c, D2, c2)
  <2> SUFFICES ASSUME engine = "mysql" PROVE CheckOK(c2)
    BY DEF CheckOK
  <2>1. PICK seen :
          /\ Sees(R, c, seen)
          /\ \/ /\ \E id \in RowsOf("withdrawal", seen) : id[2] \notin c.todo[1].held
                /\ Ended(D2, c, c2, "alarm")
             \/ /\ D2 = D /\ Flows(c, c2)
                /\ c2.pc = "ledger" /\ c2.todo = <<[reserved |-> Reserved(seen)]>>
    BY <1>1 DEF WithdrawalsStep
  <2>2. /\ DOMAIN seen = DOMAIN c.snap /\ Reserved(seen) = Reserved(c.snap)
    BY <2>1, SeesSnapshot
  <2>3. c.pc = "withdrawals" /\ c.result # "alarm"
    BY <1>1 DEF WithdrawalsStep, CheckOK
  <2>4. \A id \in RowsOf("withdrawal", seen) : id[2] \in c.todo[1].held
    BY <2>2, <2>3 DEF CheckOK, RowsOf
  <2>5. /\ c2.snap = c.snap /\ c2.result = c.result
        /\ c2.pc = "ledger" /\ c2.todo[1].reserved = Reserved(seen)
    BY <2>1, <2>4 DEF Flows
  <2>6. \A k \in Agents : <<"account", k>> \in DOMAIN c.snap =>
           c.snap[<<"account", k>>]["withdrawing"] = Reserved(c.snap)[k]
    BY <2>3 DEF CheckOK
  <2> QED
    BY <2>2, <2>3, <2>5, <2>6 DEF CheckOK
<1>2. CASE LedgerStep(R, D, c, D2, c2)
  <2> SUFFICES ASSUME engine = "mysql" PROVE CheckOK(c2)
    BY DEF CheckOK
  <2>1. PICK seen :
          /\ Sees(R, c, seen)
          /\ \/ Ended(D2, c, c2, "clean")
             \/ /\ \E k \in Agents :
                     /\ <<"account", k>> \in DOMAIN seen
                     /\ seen[<<"account", k>>]["withdrawing"] # c.todo[1].reserved[k]
                /\ Ended(D2, c, c2, "alarm")
    BY <1>2 DEF LedgerStep
  <2>2. /\ DOMAIN seen = DOMAIN c.snap
        /\ \A id \in DOMAIN seen : seen[id] = c.snap[id]
    BY <2>1, SeesSnapshot
  <2>3. c.pc = "ledger"
    BY <1>2 DEF LedgerStep
  <2>4. c.todo[1].reserved = Reserved(c.snap)
    BY <2>3 DEF CheckOK
  <2>5. \A k \in Agents : <<"account", k>> \in DOMAIN c.snap =>
           c.snap[<<"account", k>>]["withdrawing"] = Reserved(c.snap)[k]
    BY <2>3 DEF CheckOK
  <2>6. Ended(D2, c, c2, "clean")
    BY <2>1, <2>2, <2>4, <2>5
  <2> QED
    BY <2>6 DEF CheckOK, Ended
<1>3. CASE CheckStep(R, D, c, D2, c2)
  <2> SUFFICES ASSUME engine = "mysql" PROVE CheckOK(c2)
    BY DEF CheckOK
  <2>1. c2.snap = R /\ c2.pc = "withdrawals" /\ c2.todo[1].held = Holds(R)
        /\ c2.result = c.result
    BY <1>3 DEF CheckStep, Begun
  <2>2. \A k \in Agents : <<"account", k>> \in DOMAIN R =>
          R[<<"account", k>>]["withdrawing"] = Reserved(R)[k]
    BY ReservedMatches
  <2> QED
    BY <2>1, <2>2 DEF CheckOK, AllHeld
<1>4. CASE ~(WithdrawalsStep(R, D, c, D2, c2) \/ LedgerStep(R, D, c, D2, c2)
               \/ CheckStep(R, D, c, D2, c2))
  <2> DEFINE goal == c2.pc \notin {"withdrawals", "ledger"}
                     /\ (c2.result = c.result \/ c2.result # "alarm")
  <2>1. goal
    <3>1. CASE \/ PaidStep(R, D, c, D2, c2) \/ ReceivedStep(R, D, c, D2, c2)
               \/ MaintainStep(R, D, c, D2, c2) \/ RefundedStep(R, D, c, D2, c2)
               \/ VoidStep(R, D, c, D2, c2) \/ RiskStep(R, D, c, D2, c2)
               \/ WithdrawStep(R, D, c, D2, c2) \/ DecisionStep(R, D, c, D2, c2)
               \/ RetryStep(R, D, c, D2, c2)
      BY <3>1 DEF PaidStep, ReceivedStep, MaintainStep, RefundedStep, VoidStep, RiskStep,
         WithdrawStep, DecisionStep, RetryStep, Begun, Ended, Asks
    <3>2. CASE \/ AccrueStep(R, D, c, D2, c2) \/ DateStep(R, D, c, D2, c2)
               \/ SettleStep(R, D, c, D2, c2) \/ VouchersStep(R, D, c, D2, c2)
               \/ VoucherStep(R, D, c, D2, c2) \/ ClawStep(R, D, c, D2, c2)
               \/ AccumulateStep(R, D, c, D2, c2) \/ FreezeStep(R, D, c, D2, c2)
               \/ ReserveStep(R, D, c, D2, c2) \/ DecideStep(R, D, c, D2, c2)
      BY <3>2 DEF AccrueStep, DateStep, SettleStep, VouchersStep, VoucherStep, ClawStep,
         AccumulateStep, FreezeStep, ReserveStep, DecideStep, GoesOn, Increments, Flows,
         Asks, Ended
    <3>3. CASE \/ UpdateStep(R, D, c, D2, c2) \/ LookupStep(R, D, c, D2, c2)
               \/ InsertStep(R, D, c, D2, c2) \/ RefusedStep(R, D, c, D2, c2)
               \/ EntryStep(R, D, c, D2, c2)
      BY <3>3 DEF UpdateStep, LookupStep, InsertStep, RefusedStep, EntryStep, MovesTo,
         Passes, GoesOn, Increments, Flows, Asks, Ended, LoopFor
    <3> HIDE DEF goal
    <3> QED
      BY <1>4, <3>1, <3>2, <3>3 DEF Effect
  <2> QED
    BY <2>1 DEF CheckOK
<1> QED
  BY <1>1, <1>2, <1>3, <1>4

(* No step of any call makes a check on MySQL raise an alarm.              *)
LEMMA CheckHolds ==
  ASSUME TypeInv, TallyInv, HeldInv, CheckInv, [SqlNext]_sqlVars
  PROVE  CheckInv'
<1>1. /\ Ready(rows) /\ TalliesZero(rows) /\ AllHeld(rows)
      /\ \A t \in Calls : CheckOK(call[t])
  BY DEF TypeInv, StoreOK, Ready, TallyInv, HeldInv, CheckInv
<1>3. ASSUME NEW t \in Calls, Acts(t) PROVE CheckInv'
  <2>1. ASSUME CheckOK(call'[t]) PROVE CheckInv'
    BY <1>1, <1>3, <2>1 DEF CheckInv, CheckOK, Acts, Rest
  <2>2. CheckOK(call'[t])
    BY <1>1, <1>3, LocalFacts, CheckEffect DEF Acts
  <2> QED
    BY <2>1, <2>2
<1>4. ASSUME NEW t \in Calls, Commits(t) PROVE CheckInv'
  BY <1>1, <1>4 DEF CheckInv, CheckOK, Commits, Rest, Ended
<1>5. CASE Idles
  BY <1>1, <1>5 DEF CheckInv, CheckOK, Idles
<1> QED
  BY <1>3, <1>4, <1>5, StepCases

(* On an engine that gives a transaction one snapshot, no interleaving     *)
(* makes the self check raise an alarm: what is committed between two of   *)
(* its pages is not seen, and what the snapshot holds adds up.             *)
THEOREM ConcurrentSnapshotCheck == SqlSpec => []SnapshotCheckClean
<1>1. SqlInit => HeldInv /\ CheckInv
  <2>1. SqlInit => CheckInv
    BY DEF SqlInit, CheckInv, CheckOK, Closed
  <2> QED
    BY <2>1, HeldInit
<1>2. TypeInv /\ TallyInv /\ HeldInv /\ CheckInv /\ [SqlNext]_sqlVars => HeldInv' /\ CheckInv'
  BY HeldStep, CheckHolds
<1>3. CheckInv => SnapshotCheckClean
  BY DEF CheckInv, CheckOK, SnapshotCheckClean
<1> QED
  BY <1>1, <1>2, <1>3, TypeInvariant, TalliesBalance, PTL DEF SqlSpec

-----------------------------------------------------------------------------
(***************************************************************************)
(* Earned once                                                             *)
(***************************************************************************)

AccrualId(o, k) == <<"commission", AccrualKey(o, k)>>

(* The ids of the first n layers an order pays, and of all of them.        *)
PlannedIds(o, n) == {AccrualId(o, Plan[o][i].agent) : i \in 1 .. n}

AllPlanned(o) == PlannedIds(o, Len(Plan[o]))

(* The row is one the plan of its order asks for.                          *)
InPlan(id, row) ==
  \E o \in Orders : \E i \in DOMAIN Plan[o] :
    /\ id = AccrualId(o, Plan[o][i].agent)
    /\ row.agent = Plan[o][i].agent /\ row.amount = Plan[o][i].amount

(* Accruals are in the plan, and an order is accrued in full or not at all.*)
Accrued(R) ==
  \A id \in DOMAIN R : IsAccrual(id) =>
    InPlan(id, R[id]) /\ AllPlanned(id[2][2]) \subseteq DOMAIN R

(* The layers a payment has worked off.                                    *)
WorkedOff(c) ==
  Len(Plan[c.req.order]) - Len(c.todo) + (IF c.pc = "accrue" THEN 0 ELSE 1)

(* What is left to do is the plan behind its first n layers.               *)
PlanRest(c, n) ==
  /\ n \in Nat
  /\ \A i \in DOMAIN c.todo :
       /\ c.todo[i].agent = Plan[c.req.order][n + i].agent
       /\ c.todo[i].amount = Plan[c.req.order][n + i].amount

Paying(c) == c.req.op = "paid" /\ c.pc \in {"accrue"} \cup Booking

(* What a payment has left to do is the rest of the plan, and it has       *)
(* either written every layer so far or found them all committed.          *)
EarnedLocal(R, D, c) ==
  /\ \A id \in DOMAIN D : IsAccrual(id) /\ id \notin DOMAIN R =>
       c.req.op = "paid" /\ id[2][2] = c.req.order /\ InPlan(id, D[id])
  /\ Paying(c) =>
       /\ PlanRest(c, Len(Plan[c.req.order]) - Len(c.todo))
       /\ \/ PlannedIds(c.req.order, WorkedOff(c)) \subseteq DOMAIN D
          \/ AllPlanned(c.req.order) \subseteq DOMAIN R /\ c.pc = "accrue"

EarnedInv == Accrued(rows) /\ \A t \in Calls : EarnedLocal(rows, Mine(t), call[t])

(* A call that wrote nothing and pays nothing owes no layer.               *)
LEMMA EarnedNothing ==
  ASSUME NEW R, NEW D2, NEW c2, DOMAIN D2 = {}, ~Paying(c2)
  PROVE  EarnedLocal(R, D2, c2)
BY DEF EarnedLocal

(* What a call has written that is no accrual of its own, and no payment.  *)
LEMMA EarnedAlike ==
  ASSUME NEW R, NEW D, NEW c, NEW D2, NEW c2, OwnOK(R, D, c), EarnedLocal(R, D, c),
         c2.req = c.req, ~Paying(c2),
         \A id \in DOMAIN D2 : IsAccrual(id) /\ id \notin DOMAIN R =>
           id \in DOMAIN D /\ D2[id] = D[id]
  PROVE  EarnedLocal(R, D2, c2)
BY DEF EarnedLocal

(* The steps that begin or end a transaction, but for a payment.           *)
LEMMA EarnedBegins ==
  ASSUME NEW R, NEW D, NEW c, NEW D2, NEW c2, Local(R, D, c),
         \/ ReceivedStep(R, D, c, D2, c2)
         \/ MaintainStep(R, D, c, D2, c2) \/ RefundedStep(R, D, c, D2, c2)
         \/ VoidStep(R, D, c, D2, c2) \/ RiskStep(R, D, c, D2, c2)
         \/ WithdrawStep(R, D, c, D2, c2) \/ CheckStep(R, D, c, D2, c2)
         \/ DecisionStep(R, D, c, D2, c2) \/ LedgerStep(R, D, c, D2, c2)
         \/ RetryStep(R, D, c, D2, c2)
  PROVE  EarnedLocal(R, D2, c2)
<1>1. DOMAIN D2 = {}
  BY BeginsOrEnds
<1>2. ~Paying(c2)
  <2>1. c2.req = c.req
    BY DEF ReceivedStep, MaintainStep, RefundedStep, VoidStep, RiskStep, WithdrawStep,
       CheckStep, DecisionStep, LedgerStep, RetryStep, Begun, Ended
  <2>2. c2.pc \in {"again", "done"} \/ c.req.op # "paid"
    BY DEF ReceivedStep, MaintainStep, RefundedStep, VoidStep, RiskStep, WithdrawStep,
       CheckStep, DecisionStep, LedgerStep, RetryStep, Begun, Ended, Local, PlaceOK
  <2> QED
    BY <2>1, <2>2 DEF Paying, Booking
<1> QED
  BY <1>1, <1>2, EarnedNothing

(* A payment begins with the whole plan.                                   *)
LEMMA EarnedPaid ==
  ASSUME NEW R, NEW D, NEW c, NEW D2, NEW c2, Local(R, D, c), PaidStep(R, D, c, D2, c2)
  PROVE  EarnedLocal(R, D2, c2)
<1>1. DOMAIN D2 = {}
  BY BeginsOrEnds
<1>2. CASE Ended(D2, c, c2, "replayed")
  BY <1>1, <1>2, EarnedNothing DEF Ended, Paying, Booking
<1>3. CASE ~Ended(D2, c, c2, "replayed")
  <2> DEFINE o == c.req.order
             p == Plan[o]
             s == [i \in DOMAIN p |->
                     [layer |-> i, agent |-> p[i].agent, amount |-> p[i].amount]]
  <2>1. c2.todo = s /\ c2.pc = "accrue" /\ c2.req = c.req /\ c.req.op = "paid"
    BY <1>3 DEF PaidStep, Begun
  <2>2. o \in Orders
    BY <2>1 DEF Local, RequestOK, WellFormed
  <2>3. p \in Seq([agent : Agents, amount : Nat \ {0}])
    BY <2>2, SqlLedgerAssumption
  <2>4. Len(p) \in Nat /\ DOMAIN p = 1 .. Len(p)
    BY <2>3, LenProperties
  <2>5. DOMAIN s = DOMAIN p /\ \A i \in DOMAIN p : s[i].agent = p[i].agent /\ s[i].amount = p[i].amount
    OBVIOUS
  <2>6. Len(s) = Len(p)
    <3> HIDE DEF p
    <3>1. s \in Seq({s[i] : i \in DOMAIN s})
      BY <2>4
    <3> HIDE DEF s
    <3> QED
      BY <2>4, <2>5, <3>1, LenProperties
  <2> HIDE DEF s, p
  <2>7. \A i \in 1 .. Len(p) : 0 + i = i
    BY <2>4
  <2>8. PlannedIds(o, 0) = {}
    BY DEF PlannedIds
  <2>9. Len(p) - Len(c2.todo) = 0 /\ WorkedOff(c2) = 0 /\ c2.req.order = o
    BY <2>1, <2>4, <2>6 DEF WorkedOff, p
  <2>10. PlanRest(c2, 0)
    BY <2>1, <2>4, <2>5, <2>7 DEF PlanRest, p
  <2>11. PlanRest(c2, Len(Plan[c2.req.order]) - Len(c2.todo))
    BY <2>9, <2>10 DEF p
  <2>12. PlannedIds(c2.req.order, WorkedOff(c2)) \subseteq DOMAIN D2
    BY <2>8, <2>9
  <2> QED
    BY <1>1, <2>11, <2>12 DEF EarnedLocal
<1> QED
  BY <1>2, <1>3

(* The steps of a call that is not a payment.                              *)
LEMMA EarnedAside ==
  ASSUME NEW R, NEW D, NEW c, NEW D2, NEW c2, Local(R, D, c), EarnedLocal(R, D, c),
         \/ DateStep(R, D, c, D2, c2)
         \/ SettleStep(R, D, c, D2, c2) \/ VouchersStep(R, D, c, D2, c2)
         \/ VoucherStep(R, D, c, D2, c2) \/ ClawStep(R, D, c, D2, c2)
         \/ AccumulateStep(R, D, c, D2, c2) \/ FreezeStep(R, D, c, D2, c2)
         \/ ReserveStep(R, D, c, D2, c2)
         \/ WithdrawalsStep(R, D, c, D2, c2) \/ DecideStep(R, D, c, D2, c2)
  PROVE  EarnedLocal(R, D2, c2)
<1>1. CASE \E r : Ended(D2, c, c2, r)
  BY <1>1, EarnedNothing DEF Ended, Paying, Booking
<1>2. CASE ~\E r : Ended(D2, c, c2, r)
  <2>1. /\ c.pc \in {"date", "settle", "vouchers", "voucher", "claw", "accumulate",
                     "risk", "withdrawals", "decide", "reserve"}
        /\ c2.req = c.req
    BY <1>2 DEF DateStep, SettleStep, VouchersStep, VoucherStep, ClawStep, ReserveStep,
       AccumulateStep, FreezeStep, WithdrawalsStep, DecideStep, GoesOn, Increments, Flows
  <2>2. c.req.op # "paid"
    BY <2>1 DEF Local, PlaceOK
  <2>3. \/ D2 = D
        \/ \E id, row : (~IsAccrual(id) \/ id \in DOMAIN R) /\ D2 = With(D, id, row)
    <3>1. CASE ReserveStep(R, D, c, D2, c2)
      <4> DEFINE id == <<"withdrawal", c.req.key>>
      <4>1. ~IsAccrual(id) /\ D2 = With(D, id, NewWithdrawal(c))
        BY <1>2, <3>1 DEF ReserveStep, IsAccrual
      <4> HIDE DEF id
      <4> QED
        BY <4>1
    <3>2. CASE VoucherStep(R, D, c, D2, c2)
      BY <3>2 DEF VoucherStep, IsAccrual
    <3>3. CASE ClawStep(R, D, c, D2, c2)
      BY <3>3 DEF ClawStep, ReversalId, IsAccrual, ReversalKey
    <3>4. CASE \/ DateStep(R, D, c, D2, c2) \/ SettleStep(R, D, c, D2, c2)
               \/ AccumulateStep(R, D, c, D2, c2) \/ FreezeStep(R, D, c, D2, c2)
               \/ DecideStep(R, D, c, D2, c2)
      <4>1. /\ c.todo # << >>
            /\ c.req.op \in {"received", "maintain", "refunded", "void", "risk",
                             "payout", "reject"}
        BY <3>4 DEF DateStep, SettleStep, AccumulateStep, FreezeStep, DecideStep,
           Local, PlaceOK, TodoOK
      <4>2. c.todo[1].id \in DOMAIN R
        BY <4>1, HeadCopy DEF Local, CopyOK
      <4>3. D2 = D \/ \E row : D2 = With(D, c.todo[1].id, row)
        BY <1>2, <3>4 DEF DateStep, SettleStep, AccumulateStep, FreezeStep, DecideStep, Swaps
      <4> QED
        BY <4>2, <4>3
    <3>5. CASE VouchersStep(R, D, c, D2, c2) \/ WithdrawalsStep(R, D, c, D2, c2)
      BY <1>2, <3>5 DEF VouchersStep, WithdrawalsStep
    <3> QED
      BY <3>1, <3>2, <3>3, <3>4, <3>5
  <2>4. \A id \in DOMAIN D2 : IsAccrual(id) /\ id \notin DOMAIN R =>
          id \in DOMAIN D /\ D2[id] = D[id]
    BY <2>3 DEF With
  <2>5. ~Paying(c2) /\ OwnOK(R, D, c)
    BY <2>1, <2>2 DEF Paying, Local
  <2> QED
    BY <2>1, <2>4, <2>5, EarnedAlike
<1> QED
  BY <1>1, <1>2

(* One more number.                                                        *)
LEMMA OneMore ==
  ASSUME NEW n \in Nat
  PROVE  1 .. n + 1 = (1 .. n) \cup {n + 1}
OBVIOUS

(* A place in the plan, counted from its end.                              *)
LEMMA OneLess ==
  ASSUME NEW l \in Nat, NEW r \in Nat \ {0}, NEW r2, r2 = r - 1
  PROVE  (l - r) + 1 = l - r2 /\ (l - r) + 1 = l - r + 1
OBVIOUS

(* One layer of a payment is worked off: inserted, or found.               *)
LEMMA NextLayer ==
  ASSUME NEW c, IsList(c.todo), c.todo # << >>, c.req.order \in Orders, NEW n, PlanRest(c, n),
         n = Len(Plan[c.req.order]) - Len(c.todo)
  PROVE  /\ n + 1 \in DOMAIN Plan[c.req.order]
         /\ c.todo[1].agent = Plan[c.req.order][n + 1].agent
         /\ c.todo[1].amount = Plan[c.req.order][n + 1].amount
         /\ PlannedIds(c.req.order, n + 1)
              = PlannedIds(c.req.order, n) \cup {AccrualId(c.req.order, c.todo[1].agent)}
         /\ AccrualId(c.req.order, c.todo[1].agent) \in AllPlanned(c.req.order)
<1> DEFINE p == Plan[c.req.order]
<1>1. p \in Seq([agent : Agents, amount : Nat \ {0}])
  BY SqlLedgerAssumption
<1>2. Len(p) \in Nat /\ DOMAIN p = 1 .. Len(p)
  BY <1>1, LenProperties
<1>3. Len(c.todo) \in Nat \ {0}
  BY ListTail
<1>4. c.todo \in Seq(Range(c.todo))
  BY DEF IsList
<1>5. 1 \in DOMAIN c.todo
  BY <1>3, <1>4, LenProperties
<1>6. n \in Nat /\ n + 1 \in 1 .. Len(p)
  <2> DEFINE l == Len(p)
             r == Len(c.todo)
  <2>1. n \in Nat /\ n = l - r
    BY DEF PlanRest
  <2>2. l \in Nat /\ r \in Nat /\ r > 0
    BY <1>2, <1>3
  <2> HIDE DEF l, r
  <2>3. n + 1 \in 1 .. l
    BY <2>1, <2>2
  <2> QED
    BY <2>1, <2>3 DEF l
<1>7. c.todo[1].agent = p[n + 1].agent /\ c.todo[1].amount = p[n + 1].amount
  BY <1>5 DEF PlanRest
<1> DEFINE id(i) == AccrualId(c.req.order, p[i].agent)
<1>8. PlannedIds(c.req.order, n + 1) = {id(i) : i \in 1 .. n + 1}
  BY DEF PlannedIds
<1>9. PlannedIds(c.req.order, n) = {id(i) : i \in 1 .. n}
  BY DEF PlannedIds
<1>10. AllPlanned(c.req.order) = {id(i) : i \in 1 .. Len(p)}
  BY DEF AllPlanned, PlannedIds
<1>11. id(n + 1) = AccrualId(c.req.order, c.todo[1].agent)
  BY <1>7
<1> HIDE DEF p, id
<1>12. 1 .. n + 1 = (1 .. n) \cup {n + 1}
  BY <1>6, OneMore
<1>13. {id(i) : i \in 1 .. n + 1} = {id(i) : i \in 1 .. n} \cup {id(n + 1)}
  BY <1>12
<1>14. /\ PlannedIds(c.req.order, n + 1)
              = PlannedIds(c.req.order, n) \cup {AccrualId(c.req.order, c.todo[1].agent)}
       /\ AccrualId(c.req.order, c.todo[1].agent) \in AllPlanned(c.req.order)
  BY <1>6, <1>8, <1>9, <1>10, <1>11, <1>13
<1> QED
  BY <1>2, <1>6, <1>7, <1>14 DEF p

(* Behind the first of the rest there is the rest of one more.             *)
LEMMA RestOfTail ==
  ASSUME NEW c, NEW c2, IsList(c.todo), c.todo # << >>, c2.req = c.req, c2.todo = Tail(c.todo),
         NEW n, PlanRest(c, n)
  PROVE  PlanRest(c2, n + 1) /\ Len(c2.todo) = Len(c.todo) - 1 /\ Len(c.todo) \in Nat \ {0}
<1>1. /\ IsList(c2.todo) /\ Len(c2.todo) = Len(c.todo) - 1 /\ Len(c.todo) \in Nat \ {0}
      /\ \A i \in 1 .. Len(c2.todo) : c2.todo[i] = c.todo[i + 1]
  BY ListTail
<1>2. c2.todo \in Seq(Range(c2.todo)) /\ c.todo \in Seq(Range(c.todo))
  BY <1>1 DEF IsList
<1>3. DOMAIN c2.todo = 1 .. Len(c2.todo) /\ DOMAIN c.todo = 1 .. Len(c.todo)
  BY <1>2, LenProperties
<1>4. n \in Nat
  BY DEF PlanRest
<1>5. ASSUME NEW i \in DOMAIN c2.todo
      PROVE  i \in Int /\ i + 1 \in DOMAIN c.todo /\ n + (i + 1) = n + 1 + i
             /\ c2.todo[i] = c.todo[i + 1]
  <2>1. i \in 1 .. Len(c2.todo)
    BY <1>3
  <2>2. c2.todo[i] = c.todo[i + 1]
    BY <1>1, <2>1
  <2> DEFINE l == Len(c.todo)
             k == Len(c2.todo)
  <2>3. k = l - 1 /\ l \in Nat \ {0} /\ i \in 1 .. k
    BY <1>1, <2>1
  <2> HIDE DEF l, k
  <2>4. i \in Int /\ i + 1 \in 1 .. l /\ n + (i + 1) = n + 1 + i
    BY <1>4, <2>3
  <2> QED
    BY <1>3, <2>2, <2>4 DEF l
<1>6. \A i \in DOMAIN c2.todo :
        /\ c2.todo[i].agent = Plan[c2.req.order][n + 1 + i].agent
        /\ c2.todo[i].amount = Plan[c2.req.order][n + 1 + i].amount
  <2> SUFFICES ASSUME NEW i \in DOMAIN c2.todo
               PROVE  /\ c2.todo[i].agent = Plan[c2.req.order][n + 1 + i].agent
                      /\ c2.todo[i].amount = Plan[c2.req.order][n + 1 + i].amount
    OBVIOUS
  <2> DEFINE m == i + 1
  <2>1. m \in DOMAIN c.todo /\ n + m = n + 1 + i /\ c2.todo[i] = c.todo[m]
    BY <1>5
  <2> HIDE DEF m
  <2>2. /\ c.todo[m].agent = Plan[c.req.order][n + m].agent
        /\ c.todo[m].amount = Plan[c.req.order][n + m].amount
    BY <2>1 DEF PlanRest
  <2> QED
    BY <2>1, <2>2
<1> QED
  BY <1>1, <1>4, <1>6 DEF PlanRest

(* One layer of accrueBase: written, or passed over because every layer of *)
(* the order is there.                                                     *)
LEMMA EarnedAccrue ==
  ASSUME NEW R, NEW D, NEW c, NEW D2, NEW c2, Local(R, D, c), Accrued(R),
         EarnedLocal(R, D, c), AccrueStep(R, D, c, D2, c2)
  PROVE  EarnedLocal(R, D2, c2)
<1> DEFINE o == c.req.order
           x == c.todo[1]
           id == AccrualId(o, x.agent)
           n == Len(Plan[o]) - Len(c.todo)
<1>1. c.pc = "accrue" /\ c.todo # << >> /\ c.req.op = "paid" /\ Paying(c)
  BY DEF AccrueStep, Local, PlaceOK, Paying
<1>2. o \in Orders /\ IsList(c.todo)
  BY <1>1 DEF Local, RequestOK, WellFormed, TodoOK
<1>3. PlanRest(c, n)
  BY <1>1 DEF EarnedLocal
<1>4. /\ n + 1 \in DOMAIN Plan[o]
      /\ x.agent = Plan[o][n + 1].agent /\ x.amount = Plan[o][n + 1].amount
      /\ PlannedIds(o, n + 1) = PlannedIds(o, n) \cup {id}
      /\ id \in AllPlanned(o)
  <2> DEFINE m == n
  <2>1. m = Len(Plan[c.req.order]) - Len(c.todo) /\ PlanRest(c, m)
    BY <1>3
  <2> HIDE DEF m
  <2>2. /\ m + 1 \in DOMAIN Plan[c.req.order]
        /\ c.todo[1].agent = Plan[c.req.order][m + 1].agent
        /\ c.todo[1].amount = Plan[c.req.order][m + 1].amount
        /\ PlannedIds(c.req.order, m + 1)
             = PlannedIds(c.req.order, m) \cup {AccrualId(c.req.order, c.todo[1].agent)}
        /\ AccrualId(c.req.order, c.todo[1].agent) \in AllPlanned(c.req.order)
    BY <1>1, <1>2, <2>1, NextLayer
  <2> QED
    BY <2>2 DEF m
<1>5. WorkedOff(c) = n /\ n \in Nat
  <2>1. Len(Plan[o]) \in Nat /\ Len(c.todo) \in Nat
    BY <1>1, <1>2, SqlLedgerAssumption, LenProperties, ListTail
  <2> QED
    BY <1>1, <1>3, <2>1 DEF WorkedOff, PlanRest
<1>6. IsAccrual(id) /\ id[2][2] = o
  BY DEF AccrualId, AccrualKey, IsAccrual
<1>7. \/ PlannedIds(o, n) \subseteq DOMAIN D
      \/ AllPlanned(o) \subseteq DOMAIN R
  BY <1>1, <1>5 DEF EarnedLocal
<1>8. id \in DOMAIN R => AllPlanned(o) \subseteq DOMAIN R
  BY <1>6 DEF Accrued
<1>9. CASE id \in Known(R, D) /\ D2 = D /\ GoesOn(c, c2, "accrue")
  <2>1. c2.req = c.req /\ c2.pc = "accrue" /\ c2.todo = Tail(c.todo)
    BY <1>9 DEF GoesOn, Flows
  <2>2. PlanRest(c2, n + 1) /\ Len(c2.todo) = Len(c.todo) - 1 /\ Len(c.todo) \in Nat \ {0}
    <3> HIDE DEF n
    <3> QED
      BY <1>1, <1>2, <1>3, <2>1, RestOfTail
  <2>3. n + 1 = Len(Plan[o]) - Len(c2.todo) /\ WorkedOff(c2) = n + 1
    <3>1. Len(Plan[o]) \in Nat
      BY <1>2, SqlLedgerAssumption, LenProperties
    <3>2. (Len(Plan[o]) - Len(c.todo)) + 1 = Len(Plan[o]) - Len(c2.todo)
      BY <2>2, <3>1, OneLess
    <3>3. Len(Plan[c2.req.order]) - Len(c2.todo) + 0 = Len(Plan[o]) - Len(c2.todo)
      <4>1. Len(c2.todo) \in Int
        BY <2>2
      <4> HIDE DEF n
      <4> QED
        BY <2>1, <3>1, <4>1
    <3> QED
      BY <2>1, <3>2, <3>3 DEF WorkedOff
  <2> HIDE DEF n, id
  <2>4. PlannedIds(o, n + 1) \subseteq DOMAIN D \/ AllPlanned(o) \subseteq DOMAIN R
    BY <1>4, <1>7, <1>8, <1>9 DEF Known
  <2>5. \A a \in DOMAIN D2 : IsAccrual(a) /\ a \notin DOMAIN R =>
          c2.req.op = "paid" /\ a[2][2] = c2.req.order /\ InPlan(a, D2[a])
    BY <1>9, <2>1 DEF EarnedLocal
  <2> QED
    BY <1>9, <2>1, <2>2, <2>3, <2>4, <2>5 DEF EarnedLocal
<1>10. CASE ~(id \in Known(R, D) /\ D2 = D /\ GoesOn(c, c2, "accrue"))
  <2> DEFINE row == NewAccrual(x)
  <2>1. /\ id \notin Known(R, D) /\ D2 = With(D, id, row)
        /\ c2.req = c.req /\ c2.pc = "update" /\ c2.todo = c.todo
    BY <1>10 DEF AccrueStep, AccrualId, Increments, Flows, Asks
  <2>2. row.agent = x.agent /\ row.amount = x.amount
    BY DEF NewAccrual
  <2>3. InPlan(id, row)
    BY <1>2, <1>4, <2>2 DEF InPlan
  <2>4. n = Len(Plan[o]) - Len(c2.todo) /\ WorkedOff(c2) = n + 1 /\ PlanRest(c2, n)
    <3>1. Len(Plan[o]) \in Nat /\ Len(c.todo) \in Nat
      BY <1>1, <1>2, SqlLedgerAssumption, LenProperties, ListTail
    <3> QED
      BY <1>3, <2>1, <3>1 DEF WorkedOff, PlanRest
  <2> HIDE DEF n, id, row
  <2>5. DOMAIN D2 = DOMAIN D \cup {id} /\ D2[id] = row
        /\ \A a \in DOMAIN D : a # id => D2[a] = D[a]
    BY <2>1 DEF With
  <2>6. PlannedIds(o, n + 1) \subseteq DOMAIN D2
    BY <1>4, <1>7, <2>1, <2>5 DEF Known
  <2>7. \A a \in DOMAIN D2 : IsAccrual(a) /\ a \notin DOMAIN R =>
          c2.req.op = "paid" /\ a[2][2] = c2.req.order /\ InPlan(a, D2[a])
    BY <1>1, <1>6, <2>1, <2>3, <2>5 DEF EarnedLocal
  <2> QED
    BY <2>1, <2>4, <2>6, <2>7 DEF EarnedLocal
<1> QED
  BY <1>9, <1>10

(* The passes of IncrementAccount change an account and no commission.     *)
LEMMA EarnedBooking ==
  ASSUME NEW R, NEW D, NEW c, NEW D2, NEW c2, Local(R, D, c), EarnedLocal(R, D, c),
         \/ UpdateStep(R, D, c, D2, c2) \/ LookupStep(R, D, c, D2, c2)
         \/ InsertStep(R, D, c, D2, c2) \/ RefusedStep(R, D, c, D2, c2)
  PROVE  EarnedLocal(R, D2, c2)
<1>1. CASE \E r : Ended(D2, c, c2, r)
  BY <1>1, EarnedNothing DEF Ended, Paying, Booking
<1>2. CASE c.req.op = "maintain" /\ D2 = D /\ GoesOn(c, c2, "settle")
  BY <1>2, EarnedAlike DEF GoesOn, Flows, Paying, Local
<1>3. CASE ~(\E r : Ended(D2, c, c2, r))
           /\ ~(c.req.op = "maintain" /\ D2 = D /\ GoesOn(c, c2, "settle"))
  <2>1. c.pc \in Booking /\ c2.req = c.req /\ c2.pc \in Booking /\ c2.todo = c.todo
    BY <1>3 DEF UpdateStep, LookupStep, InsertStep, RefusedStep, MovesTo, Passes, Flows,
       Increments, Asks, Booking
  <2>2. D2 = D \/ \E row : D2 = With(D, OwnAccount(c), row)
    BY <1>3 DEF UpdateStep, LookupStep, InsertStep, RefusedStep
  <2>3. OwnAccount(c)[1] = "account"
    BY DEF OwnAccount
  <2>4. /\ DOMAIN D \subseteq DOMAIN D2
        /\ \A a \in DOMAIN D2 : IsAccrual(a) => a \in DOMAIN D /\ D2[a] = D[a]
    BY <2>2, <2>3 DEF With, IsAccrual
  <2>5. WorkedOff(c2) = WorkedOff(c) /\ c.pc # "accrue" /\ c2.pc # "accrue"
    BY <2>1 DEF WorkedOff, Booking
  <2>6. Paying(c2) => Paying(c)
    BY <2>1 DEF Paying
  <2>7. \A n : PlanRest(c, n) => PlanRest(c2, n)
    BY <2>1 DEF PlanRest
  <2> QED
    BY <2>1, <2>4, <2>5, <2>6, <2>7 DEF EarnedLocal
<1> QED
  BY <1>1, <1>2, <1>3

(* The entry closes a layer, and the payment goes on to the next one.      *)
LEMMA EarnedEntry ==
  ASSUME NEW R, NEW D, NEW c, NEW D2, NEW c2, Local(R, D, c), EarnedLocal(R, D, c),
         EntryStep(R, D, c, D2, c2)
  PROVE  EarnedLocal(R, D2, c2)
<1>1. PICK e, row : D2 = With(D, e, row) /\ e[1] = "ledger"
  <2>1. \A m : <<"ledger", m>>[1] = "ledger"
    OBVIOUS
  <2> QED
    BY <2>1 DEF EntryStep
<1>2. c2.req = c.req /\ c2.pc = LoopFor(c) /\ c.pc = "entry"
  BY DEF EntryStep, Flows
<1>3. /\ DOMAIN D \subseteq DOMAIN D2
      /\ \A a \in DOMAIN D2 : IsAccrual(a) => a \in DOMAIN D /\ D2[a] = D[a]
  BY <1>1 DEF With, IsAccrual
<1>4. CASE c.req.op # "paid"
  BY <1>2, <1>3, <1>4, EarnedAlike DEF Paying, Local
<1>5. CASE c.req.op = "paid"
  <2> DEFINE n == Len(Plan[c.req.order]) - Len(c.todo)
  <2>1. c2.pc = "accrue" /\ c2.todo = Tail(c.todo)
    BY <1>5 DEF EntryStep, LoopFor
  <2>2. Paying(c) /\ IsList(c.todo) /\ c.todo # << >> /\ c.req.order \in Orders
    BY <1>2, <1>5 DEF Paying, Booking, Local, TodoOK, RequestOK, WellFormed
  <2>3. PlanRest(c, n) /\ PlannedIds(c.req.order, WorkedOff(c)) \subseteq DOMAIN D
    BY <1>2, <2>2 DEF EarnedLocal
  <2>4. PlanRest(c2, n + 1) /\ Len(c2.todo) = Len(c.todo) - 1 /\ Len(c.todo) \in Nat \ {0}
    <3> HIDE DEF n
    <3> QED
      BY <1>2, <2>1, <2>2, <2>3, RestOfTail
  <2>5. n + 1 = Len(Plan[c.req.order]) - Len(c2.todo) /\ WorkedOff(c2) = WorkedOff(c)
    <3>1. Len(Plan[c.req.order]) \in Nat
      BY <2>2, SqlLedgerAssumption, LenProperties
    <3> DEFINE l == Len(Plan[c.req.order])
               r == Len(c.todo)
               r2 == Len(c2.todo)
    <3>2. WorkedOff(c) = l - r + 1 /\ WorkedOff(c2) = l - r2 + 0
      BY <1>2, <2>1 DEF WorkedOff
    <3>3. l \in Nat /\ r \in Nat \ {0} /\ r2 = r - 1
      BY <2>4, <3>1
    <3> HIDE DEF l, r, r2
    <3>4. l - r + 1 = l - r2 /\ l - r2 + 0 = l - r2
      BY <3>3
    <3>5. n + 1 = l - r2
      BY <3>4 DEF l, r, r2
    <3> HIDE DEF n
    <3> QED
      BY <3>2, <3>4, <3>5 DEF l, r2
  <2> HIDE DEF n
  <2> QED
    BY <1>2, <1>3, <2>1, <2>3, <2>4, <2>5 DEF EarnedLocal
<1> QED
  BY <1>4, <1>5

(* A payment writes every layer of its plan, or none.                      *)
LEMMA EarnedEffect ==
  ASSUME NEW R, NEW D, NEW c, NEW D2, NEW c2, Local(R, D, c), Accrued(R),
         EarnedLocal(R, D, c), Effect(R, D, c, D2, c2)
  PROVE  EarnedLocal(R, D2, c2)
<1> DEFINE goal == EarnedLocal(R, D2, c2)
<1> SUFFICES goal
  OBVIOUS
<1>1. CASE \/ ReceivedStep(R, D, c, D2, c2)
           \/ MaintainStep(R, D, c, D2, c2) \/ RefundedStep(R, D, c, D2, c2)
           \/ VoidStep(R, D, c, D2, c2) \/ RiskStep(R, D, c, D2, c2)
           \/ WithdrawStep(R, D, c, D2, c2) \/ CheckStep(R, D, c, D2, c2)
           \/ DecisionStep(R, D, c, D2, c2) \/ LedgerStep(R, D, c, D2, c2)
           \/ RetryStep(R, D, c, D2, c2)
  BY <1>1, EarnedBegins
<1>2. CASE \/ DateStep(R, D, c, D2, c2)
           \/ SettleStep(R, D, c, D2, c2) \/ VouchersStep(R, D, c, D2, c2)
           \/ VoucherStep(R, D, c, D2, c2) \/ ClawStep(R, D, c, D2, c2)
           \/ AccumulateStep(R, D, c, D2, c2) \/ FreezeStep(R, D, c, D2, c2)
           \/ ReserveStep(R, D, c, D2, c2)
           \/ WithdrawalsStep(R, D, c, D2, c2) \/ DecideStep(R, D, c, D2, c2)
  BY <1>2, EarnedAside
<1>3. CASE \/ UpdateStep(R, D, c, D2, c2) \/ LookupStep(R, D, c, D2, c2)
           \/ InsertStep(R, D, c, D2, c2) \/ RefusedStep(R, D, c, D2, c2)
  BY <1>3, EarnedBooking
<1>4. CASE PaidStep(R, D, c, D2, c2) \/ AccrueStep(R, D, c, D2, c2)
           \/ EntryStep(R, D, c, D2, c2)
  BY <1>4, EarnedPaid, EarnedAccrue, EarnedEntry
<1> HIDE DEF goal
<1> QED
  BY <1>1, <1>2, <1>3, <1>4 DEF Effect

(* When a call commits, its order is accrued in full.                      *)
LEMMA EarnedCommitted ==
  ASSUME NEW R, NEW D, NEW c, Local(R, D, c), Accrued(R), EarnedLocal(R, D, c),
         c.pc \in Loops, c.todo = << >>
  PROVE  Accrued(Over(R, D))
<1> DEFINE Q == Over(R, D)
<1>1. /\ DOMAIN Q = DOMAIN R \cup DOMAIN D
      /\ \A id \in DOMAIN D : Q[id] = D[id]
      /\ \A id \in DOMAIN R \ DOMAIN D : Q[id] = R[id]
  BY DEF Over, Cur
<1>2. OwnOK(R, D, c)
  BY DEF Local
<1> HIDE DEF Q
<1>3. ASSUME NEW id \in DOMAIN R, IsAccrual(id)
      PROVE  Q[id].agent = R[id].agent /\ Q[id].amount = R[id].amount
  <2>1. CASE id \in DOMAIN D
    BY <1>1, <1>2, <1>3, <2>1 DEF OwnOK, IsVersioned, Succeeds
  <2>2. CASE id \notin DOMAIN D
    BY <1>1, <2>2
  <2> QED
    BY <2>1, <2>2
<1>4. ASSUME NEW id \in DOMAIN Q, IsAccrual(id)
      PROVE  InPlan(id, Q[id]) /\ AllPlanned(id[2][2]) \subseteq DOMAIN Q
  <2>1. CASE id \in DOMAIN R
    BY <1>1, <1>3, <1>4, <2>1 DEF Accrued, InPlan
  <2>2. CASE id \notin DOMAIN R
    <3>1. id \in DOMAIN D /\ c.req.op = "paid" /\ id[2][2] = c.req.order /\ InPlan(id, D[id])
      BY <1>1, <1>4, <2>2 DEF EarnedLocal
    <3>2. c.pc = "accrue" /\ Paying(c) /\ c.req.order \in Orders
      BY <3>1 DEF Local, PlaceOK, Loops, Paying, RequestOK, WellFormed
    <3>3. WorkedOff(c) = Len(Plan[c.req.order])
      <4>1. Len(Plan[c.req.order]) \in Nat /\ Len(<< >>) = 0
        BY <3>2, SqlLedgerAssumption, LenProperties
      <4> QED
        BY <3>2, <4>1 DEF WorkedOff
    <3>4. AllPlanned(c.req.order) \subseteq DOMAIN D \/ AllPlanned(c.req.order) \subseteq DOMAIN R
      BY <3>2, <3>3 DEF EarnedLocal, AllPlanned
    <3> QED
      BY <1>1, <3>1, <3>4
  <2> QED
    BY <2>1, <2>2
<1> QED
  BY <1>4 DEF Accrued, Q

(* Every committed order has all layers of its plan, or none.              *)
LEMMA EarnedStep ==
  ASSUME TypeInv, EarnedInv, [SqlNext]_sqlVars
  PROVE  EarnedInv'
<1>1. Accrued(rows) /\ \A t \in Calls : EarnedLocal(rows, Mine(t), call[t])
  BY DEF EarnedInv
<1>2. ASSUME NEW t \in Calls, Acts(t) PROVE EarnedInv'
  <2>1. EarnedLocal(rows, Mine(t)', call'[t])
    BY <1>1, <1>2, LocalFacts, EarnedEffect DEF Acts
  <2> QED
    BY <1>1, <1>2, <2>1 DEF EarnedInv, Acts, Rest
<1>3. ASSUME NEW t \in Calls, Commits(t) PROVE EarnedInv'
  <2>1. Accrued(rows')
    BY <1>1, <1>3, LocalFacts, EarnedCommitted DEF Commits
  <2>2. EarnedLocal(rows', Mine(t)', call'[t])
    BY <1>3, EarnedNothing DEF Commits, Ended, Booking, Paying
  <2>3. ASSUME NEW u \in Calls \ {t} PROVE EarnedLocal(rows', Mine(u)', call'[u])
    <3>1. DOMAIN rows \subseteq DOMAIN rows'
      BY <1>3 DEF Commits, Over
    <3>2. EarnedLocal(rows', Mine(u), call[u])
      BY <1>1, <3>1 DEF EarnedLocal
    <3> QED
      BY <1>3, <3>2 DEF Commits, Rest
  <2> QED
    BY <2>1, <2>2, <2>3 DEF EarnedInv
<1>4. CASE Idles
  BY <1>1, <1>4 DEF EarnedInv, Idles
<1> QED
  BY <1>2, <1>3, <1>4, StepCases

(* No order is paid at first.                                              *)
LEMMA EarnedInit ==
  ASSUME SqlInit
  PROVE  EarnedInv
<1>1. rows = << >> /\ dirty = << >>
  BY DEF SqlInit
<1>2. \A t \in Calls : call[t].pc \in {"idle", "done"}
  BY DEF SqlInit, Closed
<1>3. \A t \in Calls : DOMAIN Mine(t) = {}
  BY <1>1 DEF Mine, OwnRows
<1>4. Accrued(rows)
  BY <1>1 DEF Accrued
<1>5. \A t \in Calls : ~Paying(call[t])
  BY <1>2 DEF Paying, Booking
<1> QED
  BY <1>3, <1>4, <1>5, EarnedNothing DEF EarnedInv

(* What the plan of an order gives an agent: one layer, or nothing.        *)
LEMMA PlannedIs ==
  ASSUME NEW o \in Orders, NEW k
  PROVE  /\ (\A i \in DOMAIN Plan[o] : Plan[o][i].agent # k) => Planned(o, k) = 0
         /\ \A i \in DOMAIN Plan[o] : Plan[o][i].agent = k =>
              Planned(o, k) = Plan[o][i].amount /\ Planned(o, k) \in Int
<1> DEFINE p == Plan[o]
           f == [i \in DOMAIN p |-> p[i].amount]
           S == {i \in DOMAIN p : p[i].agent = k}
<1>1. /\ \A i \in DOMAIN p : p[i] \in [agent : Agents, amount : Nat \ {0}]
      /\ \A i, j \in DOMAIN p : i # j => p[i].agent # p[j].agent
  <2>1. p \in Seq([agent : Agents, amount : Nat \ {0}])
    BY SqlLedgerAssumption
  <2> DEFINE T == [agent : Agents, amount : Nat \ {0}]
  <2> HIDE DEF p, T
  <2>2. p \in [1 .. Len(p) -> T] /\ DOMAIN p = 1 .. Len(p)
    BY <2>1, LenProperties DEF T
  <2> QED
    BY <2>2, SqlLedgerAssumption DEF T, p
<1>2. Planned(o, k) = SumFunctionOnSet(f, S)
  BY DEF Planned
<1> HIDE DEF p
<1>3. ASSUME \A i \in DOMAIN p : p[i].agent # k PROVE SumFunctionOnSet(f, S) = 0
  <2>1. S = {}
    BY <1>3
  <2> HIDE DEF f, S
  <2> QED
    BY <2>1, SumOfNone
<1>4. ASSUME NEW i \in DOMAIN p, p[i].agent = k
      PROVE  SumFunctionOnSet(f, S) = p[i].amount /\ p[i].amount \in Int
  <2>1. S = {i} /\ f[i] = p[i].amount /\ p[i].amount \in Int
    BY <1>1, <1>4
  <2> HIDE DEF f, S
  <2> QED
    BY <2>1, SumOfOne
<1> QED
  BY <1>2, <1>3, <1>4 DEF p

(* An accrued order has the accrual of every agent of its plan.            *)
LEMMA AccruedOrder ==
  ASSUME RowsOK(rows), Accrued(rows), NEW o \in Orders, Accruals(o, rows) # {}, NEW k,
         \E i \in DOMAIN Plan[o] : Plan[o][i].agent = k
  PROVE  /\ AccrualId(o, k) \in AccrualsOf(k)
         /\ rows[AccrualId(o, k)].amount = Planned(o, k)
         /\ Planned(o, k) \in Int
<1> DEFINE id == AccrualId(o, k)
<1>1. PICK a \in DOMAIN rows : IsAccrual(a) /\ a[2][2] = o
  BY DEF Accruals, RowsOf, IsAccrual
<1>2. AllPlanned(o) \subseteq DOMAIN rows
  BY <1>1 DEF Accrued
<1>3. id \in AllPlanned(o)
  <2>1. Plan[o] \in Seq([agent : Agents, amount : Nat \ {0}])
    BY SqlLedgerAssumption
  <2>2. DOMAIN Plan[o] = 1 .. Len(Plan[o])
    BY <2>1, LenProperties
  <2> QED
    BY <2>2 DEF AllPlanned, PlannedIds
<1>4. IsAccrual(id) /\ id[2][2] = o /\ id[2][3] = k
  BY DEF IsAccrual, AccrualId, AccrualKey
<1>5. \A q, l : id = AccrualId(q, l) => q = o /\ l = k
  BY DEF AccrualId, AccrualKey
<1> HIDE DEF id
<1>6. id \in DOMAIN rows
  BY <1>2, <1>3
<1>7. rows[id].agent = k
  BY <1>4, <1>6 DEF RowsOK, RowOK, AccrualOK
<1>8. id \in AccrualsOf(k)
  BY <1>4, <1>6, <1>7, AccrualsOfAre
<1>9. \E i \in DOMAIN Plan[o] : Plan[o][i].agent = k /\ rows[id].amount = Plan[o][i].amount
  <2>1. InPlan(id, rows[id])
    BY <1>4, <1>6 DEF Accrued
  <2> QED
    BY <1>5, <2>1 DEF InPlan
<1>10. rows[id].amount = Planned(o, k) /\ Planned(o, k) \in Int
  BY <1>9, PlannedIs
<1> QED
  BY <1>8, <1>10 DEF id

(* The accruals of an agent add up to what the accrued orders plan.        *)
LEMMA EarnedMatches ==
  ASSUME Ready(rows), Accrued(rows), NEW k,
         NEW h, \A id \in AccrualsOf(k) : h[id] = rows[id].amount
  PROVE  SumFunctionOnSet(h, AccrualsOf(k)) =
           SumFunctionOnSet([o \in Orders |-> Planned(o, k)],
                            {o \in Orders : Accruals(o, rows) # {}})
<1> DEFINE g == [o \in Orders |-> Planned(o, k)]
           T == {o \in Orders : Accruals(o, rows) # {}}
           S == {o \in T : \E i \in DOMAIN Plan[o] : Plan[o][i].agent = k}
           m == [o \in S |-> AccrualId(o, k)]
           U == AccrualsOf(k)
<1>0. RowsOK(rows)
  BY DEF Ready
<1>1. IsFiniteSet(T)
  <2> DEFINE f == [id \in DOMAIN rows |-> id[2][2]]
  <2>1. \A o \in T : \E id \in DOMAIN rows : o = f[id]
    BY DEF Accruals, RowsOf
  <2> HIDE DEF f, T
  <2> QED
    BY <2>1, FiniteImage DEF Ready
<1>2. S \subseteq T /\ IsFiniteSet(S)
  BY <1>1, FS_Subset
<1>3. ASSUME NEW o \in S
      PROVE  /\ m[o] \in U /\ h[m[o]] = g[o] /\ g[o] \in Int
             /\ m[o] = AccrualId(o, k)
  <2>1. /\ AccrualId(o, k) \in AccrualsOf(k)
        /\ rows[AccrualId(o, k)].amount = Planned(o, k)
        /\ Planned(o, k) \in Int
    BY <1>0, AccruedOrder
  <2> QED
    BY <2>1
<1>4. \A o \in T \ S : g[o] = 0
  BY PlannedIs
<1>5. ASSUME NEW id \in U PROVE \E o \in S : id = m[o]
  <2>1. id \in DOMAIN rows /\ IsAccrual(id) /\ rows[id].agent = k
    BY <1>0, AccrualsOfAre
  <2>2. PICK o \in Orders : \E i \in DOMAIN Plan[o] :
          id = AccrualId(o, Plan[o][i].agent) /\ rows[id].agent = Plan[o][i].agent
    BY <2>1 DEF Accrued, InPlan
  <2>3. id = AccrualId(o, k)
    BY <2>1, <2>2
  <2>4. id[2][2] = o
    BY <2>3 DEF AccrualId, AccrualKey
  <2>5. id \in Accruals(o, rows)
    BY <2>1, <2>4 DEF Accruals, RowsOf, IsAccrual
  <2> QED
    BY <2>1, <2>2, <2>3, <2>5
<1>6. \A x, y \in S : m[x] = m[y] => x = y
  BY DEF AccrualId, AccrualKey
<1> HIDE DEF g, T, S, m
<1>7. U = {m[o] : o \in S}
  BY <1>3, <1>5
<1>8. SumFunctionOnSet(g, T) = SumFunctionOnSet(g, S)
  <2>1. \A o \in T : g[o] \in Int
    BY <1>3, <1>4
  <2> QED
    BY <1>1, <1>2, <1>4, <2>1, SumSupport
<1>9. SumFunctionOnSet(h, {m[o] : o \in S}) = SumFunctionOnSet(g, S)
  BY <1>2, <1>3, <1>6, SumRenamed
<1> QED
  BY <1>7, <1>8, <1>9 DEF g, T

(* Racing deliveries of one payment, and a delivery tried again, credit    *)
(* every layer once (commission.go, OnOrderPaid): an agent's lifetime      *)
(* earnings are what the plans of the accrued orders give, because a       *)
(* payment commits the whole plan of an order or finds it committed.       *)
THEOREM ConcurrentEarnedOnce == SqlSpec => []SqlEarnedOnce
<1>1. SqlInit => EarnedInv
  BY EarnedInit
<1>2. TypeInv /\ EarnedInv /\ [SqlNext]_sqlVars => EarnedInv'
  BY EarnedStep
<1>3. TypeInv /\ TallyInv /\ EarnedInv => SqlEarnedOnce
  <2> SUFFICES ASSUME TypeInv, TallyInv, EarnedInv, NEW k \in Agents
               PROVE  CommittedAccount(k)["totalEarned"] =
                        SumFunctionOnSet([o \in Orders |-> Planned(o, k)],
                                         {o \in Orders : Accruals(o, rows) # {}})
    BY DEF SqlEarnedOnce
  <2> DEFINE j == <<"earned", k>>
             a == <<"account", k>>
             U == AccrualsOf(k)
             h == [id \in U |-> rows[id].amount]
  <2>1. Ready(rows) /\ RowsOK(rows) /\ Accrued(rows)
    BY DEF TypeInv, StoreOK, Ready, EarnedInv
  <2>2. j \in Kinds /\ j[1] = "earned" /\ j[2] = k /\ Tally(j, rows) = 0
    BY DEF Kinds, TallyInv, TalliesZero
  <2>3. U \subseteq DOMAIN rows /\ \A x \in DOMAIN rows : x \in U <=> IsAccrual(x) /\ rows[x].agent = k
    BY <2>1, AccrualsOfAre
  <2>4. a \notin U /\ a[1] = "account"
    BY <2>3 DEF IsAccrual
  <2>5. ASSUME NEW x \in DOMAIN rows
        PROVE  /\ x \in U => h[x] = -Weight(j, x, rows[x])
               /\ x \notin U /\ x # a => Weight(j, x, rows[x]) = 0
    <3> DEFINE r == rows[x]
    <3>1. RowOK(x, r) /\ (x \in U <=> IsAccrual(x) /\ r.agent = k) /\ (x \in U => h[x] = r.amount)
      BY <2>1, <2>3 DEF RowsOK
    <3> HIDE DEF j, r, U, h
    <3>2. CASE IsAccrual(x)
      <4>1. r.amount \in Nat
        BY <3>1, <3>2 DEF RowOK, AccrualOK, AccrualRow
      <4>2. AccrualPart(j, x, r) = IF r.agent = k THEN r.amount ELSE 0
        BY <2>2 DEF AccrualPart
      <4>3. Weight(j, x, r) = -AccrualPart(j, x, r)
        BY <3>2, AccrualWeight
      <4>4. x \in U => Weight(j, x, r) = -r.amount
        BY <3>1, <4>2, <4>3
      <4>5. x \notin U => Weight(j, x, r) \in {-0}
        BY <3>1, <3>2, <4>2, <4>3
      <4> QED
        BY <3>1, <4>1, <4>4, <4>5 DEF r
    <3>3. CASE ~IsAccrual(x)
      <4>1. x \notin U
        BY <3>1, <3>3
      <4>2. CASE x[1] = "account"
        <5>1. x = <<"account", x[2]>>
          BY <3>1, <4>2 DEF RowOK
        <5>2. x # a => x[2] # k
          BY <5>1
        <5> HIDE DEF a
        <5> QED
          BY <2>2, <4>1, <4>2, <5>2 DEF Weight, r
      <4>3. CASE x[1] # "account"
        <5>1. ReversalPart(j, x, r) = 0 /\ WithdrawalPart(j, r) = 0
          BY <2>2 DEF ReversalPart, WithdrawalPart
        <5>2. Weight(j, x, r) \in {0, -0}
          BY <3>3, <4>3, <5>1 DEF Weight
        <5> QED
          BY <4>1, <5>2 DEF r
      <4> QED
        BY <4>2, <4>3
    <3> QED
      BY <3>2, <3>3
  <2> HIDE DEF j, a, U, h
  <2>6. SumFunctionOnSet(h, U) = WeightIn(j, rows, a)
    BY <2>1, <2>2, <2>3, <2>4, <2>5, AccountMatches
  <2>7. WeightIn(j, rows, a) = AccountPart(j, CommittedAccount(k))
    BY <2>1, <2>2, CommittedWeight DEF a
  <2>8. AccountPart(j, CommittedAccount(k)) = CommittedAccount(k)["totalEarned"]
    BY <2>2 DEF AccountPart
  <2>9. \A id \in AccrualsOf(k) : h[id] = rows[id].amount
    BY DEF h, U
  <2> QED
    BY <2>1, <2>6, <2>7, <2>8, <2>9, EarnedMatches DEF U
<1> QED
  BY <1>1, <1>2, <1>3, TypeInvariant, TalliesBalance, PTL DEF SqlSpec

=============================================================================
