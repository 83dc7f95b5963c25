----------------------------- MODULE SqlProofs -----------------------------
(***************************************************************************)
(* The rows of the ledger on a SQL store: their shape, the guard against   *)
(* overdrafts, first bookings and decisions, for any number of calls,      *)
(* agents, orders and retries and every interleaving of their statements.  *)
(***************************************************************************)
EXTENDS SqlLedger, SumProofs, SequenceTheorems

-----------------------------------------------------------------------------
(***************************************************************************)
(* Lists of rows to do                                                     *)
(***************************************************************************)

IsList(s) == s \in Seq(Range(s))

(* A function on 1 .. n is a list.                                         *)
LEMMA ListIntro ==
  ASSUME NEW n \in Nat, NEW S, NEW s \in [1 .. n -> S]
  PROVE  IsList(s) /\ Range(s) \subseteq S
<1>1. s \in [1 .. n -> Range(s)]
  BY DEF Range
<1>2. Range(s) \subseteq S
  BY DEF Range
<1> QED
  BY <1>1, <1>2 DEF IsList

(* The first row of a list and the list behind it.                         *)
LEMMA ListTail ==
  ASSUME NEW s, IsList(s), s # << >>
  PROVE  /\ IsList(Tail(s)) /\ Range(Tail(s)) \subseteq Range(s)
         /\ s[1] \in Range(s)
         /\ Len(s) \in Nat \ {0} /\ Len(Tail(s)) = Len(s) - 1
         /\ \A i \in 1 .. Len(Tail(s)) : Tail(s)[i] = s[i + 1]
<1> DEFINE S == Range(s)
<1>1. s \in Seq(S)
  BY DEF IsList
<1>2. \A i \in DOMAIN s : s[i] \in S
  BY DEF Range
<1> HIDE DEF S
<1>3. /\ Len(s) \in Nat \ {0} /\ DOMAIN s = 1 .. Len(s)
      /\ Tail(s) \in Seq(S) /\ Len(Tail(s)) = Len(s) - 1
      /\ \A i \in 1 .. Len(Tail(s)) : Tail(s)[i] = s[i + 1]
  BY <1>1, HeadTailProperties
<1>4. Tail(s) \in [1 .. Len(Tail(s)) -> S] /\ Len(Tail(s)) \in Nat
  BY <1>3, LenProperties
<1>5. IsList(Tail(s)) /\ Range(Tail(s)) \subseteq S
  BY <1>4, ListIntro
<1> QED
  BY <1>2, <1>3, <1>5 DEF S

(* Lists of no row and of one row.                                         *)
LEMMA ShortLists ==
  /\ IsList(<< >>) /\ Range(<< >>) = {}
  /\ \A x : IsList(<<x>>) /\ Range(<<x>>) = {x} /\ <<x>> # << >> /\ <<x>>[1] = x
<1>1. Range(<< >>) = {}
  BY DEF Range
<1>2. \A x : Range(<<x>>) = {x} /\ <<x>> # << >> /\ <<x>>[1] = x
  BY DEF Range
<1> QED
  BY <1>1, <1>2 DEF IsList

(* The rows of a query in some order.                                      *)
LEMMA QueryList ==
  ASSUME NEW S, IsFiniteSet(S), NEW s \in SetToSeqs(S)
  PROVE  IsList(s) /\ Range(s) \subseteq S
<1>1. Cardinality(S) \in Nat
  BY FS_CardinalityType
<1>2. s \in [1 .. Cardinality(S) -> S]
  BY DEF SetToSeqs
<1> QED
  BY <1>1, <1>2, ListIntro

(* The rows of a query sorted by layer.                                    *)
LEMMA SortedQueryList ==
  ASSUME NEW S, IsFiniteSet(S), NEW s \in ByLayer(S)
  PROVE  IsList(s) /\ Range(s) \subseteq S
BY QueryList DEF ByLayer

(* A list has finitely many rows.                                          *)
LEMMA ListFinite ==
  ASSUME NEW s, IsList(s)
  PROVE  IsFiniteSet(Range(s))
<1>1. Len(s) \in Nat /\ DOMAIN s = 1 .. Len(s)
  BY DEF IsList
<1>2. IsFiniteSet(1 .. Len(s))
  BY <1>1, FS_Interval
<1>3. \A y \in Range(s) : \E i \in 1 .. Len(s) : y = s[i]
  BY <1>1 DEF Range
<1> QED
  BY <1>2, <1>3, FiniteImage

-----------------------------------------------------------------------------
(***************************************************************************)
(* What a call has written and not committed                               *)
(***************************************************************************)

Mine(t) == [id \in OwnRows(t) |-> dirty[id].row]

With(f, k, v) == [x \in DOMAIN f \cup {k} |-> IF x = k THEN v ELSE f[x]]

Owned == \A id \in DOMAIN dirty : dirty[id].by \in Calls

(* A row in a function of rows with one more.                              *)
LEMMA WithMeans ==
  ASSUME NEW f, NEW k, NEW v
  PROVE  /\ DOMAIN With(f, k, v) = DOMAIN f \cup {k}
         /\ With(f, k, v)[k] = v
         /\ \A x \in DOMAIN f \ {k} : With(f, k, v)[x] = f[x]
BY DEF With

(* The rows a call sees and works on.                                      *)
LEMMA MineMeans ==
  ASSUME NEW t
  PROVE  /\ DOMAIN Mine(t) = OwnRows(t)
         /\ \A id : Current(t, id) = IF id \in DOMAIN Mine(t) THEN Mine(t)[id] ELSE rows[id]
         /\ \A id : LockedByOther(t, id) <=> id \in DOMAIN dirty \ DOMAIN Mine(t)
         /\ \A id : Exists(id) <=> id \in DOMAIN rows \cup DOMAIN dirty
         /\ DOMAIN Mine(t) \subseteq DOMAIN dirty
BY DEF Mine, OwnRows, Current, LockedByOther, Exists

(* A write of t: its rows have one more, those of the others are the same. *)
LEMMA PutMine ==
  ASSUME NEW t \in Calls, NEW id, NEW row, ~LockedByOther(t, id), Owned,
         dirty' = Write(t, id, row)
  PROVE  /\ Mine(t)' = With(Mine(t), id, row)
         /\ \A u : u # t => Mine(u)' = Mine(u)
         /\ DOMAIN dirty' = DOMAIN dirty \cup {id}
         /\ Owned'
<1>1. /\ DOMAIN dirty' = DOMAIN dirty \cup {id}
      /\ dirty'[id].by = t /\ dirty'[id].row = row
      /\ \A x \in DOMAIN dirty \ {id} : dirty'[x] = dirty[x]
  BY DEF Write
<1>2. OwnRows(t)' = OwnRows(t) \cup {id}
  BY <1>1 DEF OwnRows
<1>3. ASSUME NEW u, u # t PROVE OwnRows(u)' = OwnRows(u) /\ id \notin OwnRows(u)
  <2>1. id \notin OwnRows(u)
    BY <1>3 DEF OwnRows, LockedByOther
  <2> QED
    BY <1>1, <1>3, <2>1 DEF OwnRows
<1>4. Mine(t)' = With(Mine(t), id, row)
  <2>1. \A x \in OwnRows(t) \ {id} : dirty'[x] = dirty[x]
    BY <1>1 DEF OwnRows
  <2> QED
    BY <1>1, <1>2, <2>1 DEF Mine, With
<1>5. ASSUME NEW u, u # t PROVE Mine(u)' = Mine(u)
  <2>1. \A x \in OwnRows(u) : dirty'[x] = dirty[x]
    BY <1>1, <1>3, <1>5 DEF OwnRows
  <2> QED
    BY <1>3, <1>5, <2>1 DEF Mine
<1>6. Owned'
  BY <1>1 DEF Owned
<1> QED
  BY <1>1, <1>4, <1>5, <1>6

(* The end of a transaction: its uncommitted rows are gone, those of the   *)
(* others are the same.                                                    *)
LEMMA DropMine ==
  ASSUME NEW t \in Calls, Owned, dirty' = Others(t)
  PROVE  /\ DOMAIN Mine(t)' = {}
         /\ \A u : u # t => Mine(u)' = Mine(u)
         /\ DOMAIN dirty' = DOMAIN dirty \ DOMAIN Mine(t)
         /\ Owned'
<1>1. /\ DOMAIN dirty' = DOMAIN dirty \ OwnRows(t)
      /\ \A x \in DOMAIN dirty' : dirty'[x] = dirty[x]
  BY DEF Others
<1>2. OwnRows(t)' = {}
  BY <1>1 DEF OwnRows
<1>3. ASSUME NEW u, u # t PROVE Mine(u)' = Mine(u)
  <2>1. OwnRows(u)' = OwnRows(u)
    BY <1>1, <1>3 DEF OwnRows
  <2>2. \A x \in OwnRows(u) : dirty'[x] = dirty[x]
    BY <1>1, <2>1 DEF OwnRows
  <2> QED
    BY <2>1, <2>2 DEF Mine
<1>4. Owned'
  BY <1>1 DEF Owned
<1> QED
  BY <1>1, <1>2, <1>3, <1>4 DEF Mine

-----------------------------------------------------------------------------
(***************************************************************************)
(* Rows                                                                    *)
(***************************************************************************)

IsAccrual(id) == id[1] = "commission" /\ id[2][1] = "accrue"

IsReversal(id) == id[1] = "commission" /\ id[2][1] = "reverse"

RowStates == {"pending", "frozen", "settled", "reversed", "void"}

AccrualRow ==
  [layer : Nat, agent : Agents, amount : Nat \ {0}, reversed : Nat,
   state : RowStates, dated : BOOLEAN, version : Nat \ {0}]

ReversalRow == [layer : Nat, agent : Agents, amount : Int, state : {"reversed"}]

WithdrawalRow ==
  [agent : Agents, amount : Nat \ {0}, state : {"reserved", "paid", "rejected"},
   version : Nat \ {0}]

AccrualOK(id, row) ==
  /\ id = <<"commission", AccrualKey(id[2][2], id[2][3])>>
  /\ id[2][2] \in Orders
  /\ row \in AccrualRow /\ row.agent = id[2][3] /\ row.reversed <= row.amount

ReversalOK(id, row) ==
  /\ id[2][2] \in Orders
  /\ row \in ReversalRow /\ row.agent = id[2][3]

EntryOK(row) ==
  row.key \in Agents /\ row.delta \in [Buckets -> Int] /\ row.after \in [Buckets -> Int]

(* A row of one of the tables, under its unique key.                       *)
RowOK(id, row) ==
  /\ id[1] \in {"account", "commission", "ledger", "refund", "withdrawal"}
  /\ id[1] = "account" =>
       id = <<"account", id[2]>> /\ id[2] \in Agents /\ row \in Account
  /\ id[1] = "commission" => id[2][1] \in {"accrue", "reverse"}
  /\ IsAccrual(id) => AccrualOK(id, row)
  /\ IsReversal(id) => ReversalOK(id, row)
  /\ id[1] = "ledger" => id = <<"ledger", id[2]>> /\ id[2] \in Nat \ {0} /\ EntryOK(row)
  /\ id[1] = "refund" => row.cumulative \in Nat
  /\ id[1] = "withdrawal" => id = <<"withdrawal", id[2]>> /\ row \in WithdrawalRow

RowsOK(f) == \A id \in DOMAIN f : RowOK(id, f[id])

(* Rows that are updated under a version.                                  *)
IsVersioned(id) == IsAccrual(id) \/ id[1] = "withdrawal"

(* b is a or a later version of it.                                        *)
Succeeds(a, b) ==
  /\ a.agent = b.agent /\ a.amount = b.amount
  /\ a.version <= b.version
  /\ a.version = b.version => a = b

(* The rows of R are in Q, as they were or in a later version.             *)
Grows(R, Q) ==
  /\ DOMAIN R \subseteq DOMAIN Q
  /\ \A id \in DOMAIN R : IsVersioned(id) => Succeeds(R[id], Q[id])

(* The rows of D are new to Q, or based on the same rows there, if they    *)
(* were in R.                                                              *)
Unmoved(R, Q, D) ==
  \A id \in DOMAIN D :
    /\ id \in DOMAIN R <=> id \in DOMAIN Q
    /\ id \in DOMAIN R => Q[id] = R[id]

(* A set of rows grows into itself.                                        *)
LEMMA GrowsReflexive ==
  ASSUME NEW R, RowsOK(R)
  PROVE  Grows(R, R)
BY DEF Grows, Succeeds, RowsOK, RowOK, IsVersioned, AccrualOK, AccrualRow, WithdrawalRow

(* An account is a row of its agent.                                       *)
LEMMA AccountRow ==
  ASSUME NEW k \in Agents, NEW a \in Account
  PROVE  RowOK(<<"account", k>>, a)
BY DEF RowOK, IsAccrual, IsReversal

(* An accrual that is not reversed beyond its amount is a row of its       *)
(* agent.                                                                  *)
LEMMA AccrualRowOK ==
  ASSUME NEW o \in Orders, NEW k, NEW row \in AccrualRow, row.agent = k,
         row.reversed <= row.amount
  PROVE  RowOK(<<"commission", AccrualKey(o, k)>>, row)
BY DEF RowOK, IsAccrual, IsReversal, AccrualOK, AccrualKey

(* A reversal is a row of its agent and its refund.                        *)
LEMMA ReversalRowOK ==
  ASSUME NEW o \in Orders, NEW k, NEW n, NEW row \in ReversalRow, row.agent = k
  PROVE  RowOK(<<"commission", ReversalKey(o, k, n)>>, row)
BY DEF RowOK, IsAccrual, IsReversal, ReversalOK, ReversalKey

(* A ledger entry is a row of its number.                                  *)
LEMMA EntryRow ==
  ASSUME NEW n \in Nat \ {0}, NEW row, EntryOK(row)
  PROVE  RowOK(<<"ledger", n>>, row)
BY DEF RowOK, IsAccrual, IsReversal

(* A refund voucher is a row of its key.                                   *)
LEMMA RefundRow ==
  ASSUME NEW key, NEW row, row.cumulative \in Nat
  PROVE  RowOK(<<"refund", key>>, row)
BY DEF RowOK, IsAccrual, IsReversal

(* A withdrawal is a row of its key.                                       *)
LEMMA WithdrawalRowOK ==
  ASSUME NEW key, NEW row \in WithdrawalRow
  PROVE  RowOK(<<"withdrawal", key>>, row)
BY DEF RowOK, IsAccrual, IsReversal

(* An unsettled commission is an accrual, and its row is well formed.      *)
LEMMA AccrualFound ==
  ASSUME NEW R, RowsOK(R), NEW id \in DOMAIN R, id[1] = "commission",
         IsAccrual(id) \/ R[id].state \in {"pending", "frozen"}
  PROVE  IsAccrual(id) /\ AccrualOK(id, R[id])
BY DEF RowsOK, RowOK, IsAccrual, IsReversal, ReversalOK, ReversalRow

-----------------------------------------------------------------------------
(***************************************************************************)
(* Accounts                                                                *)
(***************************************************************************)

Delta == [Columns -> Int]

(* The empty delta and the empty account are typed.                        *)
LEMMA NoDeltaIs == NoDelta \in Delta /\ EmptyAccount \in Account
BY DEF NoDelta, Delta, EmptyAccount, Account

(* A delta is added column by column.                                      *)
LEMMA ApplyIs ==
  ASSUME NEW a \in Account, NEW d \in Delta
  PROVE  /\ Apply(a, d) \in Account
         /\ \A c \in Columns : Apply(a, d)[c] = a[c] + d[c]
BY DEF Apply, Account, Delta

(* A move takes from one bucket what it gives to another.                  *)
LEMMA MoveDeltaIs ==
  ASSUME NEW from \in Buckets, NEW to \in Buckets, from # to, NEW n \in Int
  PROVE  /\ MoveDelta(from, to, n) \in Delta
         /\ \A c \in Columns :
              MoveDelta(from, to, n)[c] = IF c = from THEN -n ELSE IF c = to THEN n ELSE 0
BY DEF MoveDelta, NoDelta, Delta, Columns

-----------------------------------------------------------------------------
(***************************************************************************)
(* What is known of a call: R are the committed rows, D the rows it has    *)
(* written, c is its record                                                *)
(***************************************************************************)

Fields == {"req", "pc", "result", "tries", "snap", "todo", "sum", "inc"}

IncFields == {"key", "delta", "guard", "second", "biz", "ref"}

Idle == {"idle", "again", "done"}

Booking == {"update", "lookup", "insert", "entry"}

(* Places at which a call has written nothing yet.                         *)
Reading == {"vouchers", "voucher", "withdrawals", "ledger"}

ShapeOK(c) == DOMAIN c = Fields /\ DOMAIN c.inc = IncFields

RequestOK(c) ==
  /\ c.req.op = "none" \/ WellFormed(c.req)
  /\ c.tries \in 0 .. MaxRetries

PlaceOK(c) ==
  /\ c.pc \in Idle \cup Loops \cup Booking \cup Reading \cup {"accumulate", "decide"}
  /\ c.req.op = "none" => c.pc = "done"
  /\ c.pc = "accrue" => c.req.op = "paid"
  /\ c.pc = "date" => c.req.op = "received"
  /\ c.pc = "settle" => c.req.op = "maintain"
  /\ c.pc \in {"vouchers", "voucher"} => c.req.op = "refunded"
  /\ c.pc \in {"claw", "accumulate"} => c.req.op \in {"refunded", "void"}
  /\ c.pc = "risk" => c.req.op = "risk"
  /\ c.pc = "reserve" => c.req.op = "withdraw"
  /\ c.pc \in {"decide", "decided"} => c.req.op \in {"payout", "reject"}
  /\ c.pc \in {"withdrawals", "ledger"} => c.req.op = "check"
  /\ c.pc \in Booking =>
       c.req.op \in {"paid", "maintain", "refunded", "void", "withdraw", "payout", "reject"}

(* A row that was read, and may have moved since.                          *)
CopyOK(R, x) ==
  /\ x.id \in DOMAIN R /\ IsVersioned(x.id)
  /\ RowOK(x.id, x.row)
  /\ Succeeds(x.row, R[x.id])

LayerItem == [layer : Nat, agent : Agents, amount : Nat \ {0}]

TodoOK(R, c) ==
  /\ IsList(c.todo)
  /\ c.pc \in Booking \cup {"accumulate", "decide"} => c.todo # << >>
  /\ \A x \in Range(c.todo) :
       /\ c.req.op = "paid" => x \in LayerItem
       /\ c.req.op \in {"received", "maintain", "refunded", "void", "risk"} =>
            CopyOK(R, x) /\ IsAccrual(x.id)
       /\ c.req.op \in {"payout", "reject"} =>
            CopyOK(R, x) /\ x.id = <<"withdrawal", c.req.key>>

IncOK(D, c) ==
  /\ c.pc \in Booking =>
       /\ c.inc.key \in Agents /\ c.inc.delta \in Delta
       /\ c.inc.guard \in BOOLEAN /\ c.inc.second \in BOOLEAN
  /\ c.pc = "entry" => <<"account", c.inc.key>> \in DOMAIN D

SumOK(c) ==
  c.req.op = "refunded" /\ c.pc \notin Idle \cup {"vouchers"} =>
    c.sum \in 0 .. Base[c.req.order]

SnapOK(R, c) == RowsOK(c.snap) /\ Grows(c.snap, R)

OwnOK(R, D, c) ==
  /\ RowsOK(D)
  /\ c.pc \in Idle \cup Reading => DOMAIN D = {}
  /\ \A id \in DOMAIN D \cap DOMAIN R :
       /\ IsVersioned(id) \/ id[1] = "account"
       /\ IsVersioned(id) => Succeeds(R[id], D[id]) /\ R[id].version < D[id].version

Local(R, D, c) ==
  /\ ShapeOK(c) /\ RequestOK(c) /\ PlaceOK(c) /\ TodoOK(R, c) /\ IncOK(D, c)
  /\ SumOK(c) /\ SnapOK(R, c) /\ OwnOK(R, D, c)

StoreOK ==
  /\ engine \in Engines
  /\ DOMAIN call = Calls
  /\ IsFiniteSet(DOMAIN rows) /\ IsFiniteSet(DOMAIN dirty)
  /\ RowsOK(rows)
  /\ Owned

(* The inductive invariant the others rest on.                             *)
TypeInv == StoreOK /\ \A t \in Calls : Local(rows, Mine(t), call[t])

(* Copies and snapshots stay what they are when others commit.             *)
LEMMA SucceedsTransitive ==
  ASSUME NEW a, NEW b, NEW c, Succeeds(a, b), Succeeds(b, c),
         a.version \in Int, b.version \in Int, c.version \in Int
  PROVE  Succeeds(a, c)
BY DEF Succeeds

(* A versioned row carries a version from 1 on.                            *)
LEMMA VersionIsInt ==
  ASSUME NEW id, NEW row, RowOK(id, row), IsVersioned(id)
  PROVE  row.version \in Nat \ {0}
BY DEF RowOK, IsVersioned, AccrualOK, AccrualRow, WithdrawalRow

(* Growing twice is growing.                                               *)
LEMMA GrowsTransitive ==
  ASSUME NEW P, NEW R, NEW Q, Grows(P, R), Grows(R, Q), RowsOK(P), RowsOK(R), RowsOK(Q)
  PROVE  Grows(P, Q)
<1>1. DOMAIN P \subseteq DOMAIN Q
  BY DEF Grows
<1>2. ASSUME NEW id \in DOMAIN P, IsVersioned(id) PROVE Succeeds(P[id], Q[id])
  <2>1. id \in DOMAIN R /\ id \in DOMAIN Q
    BY DEF Grows
  <2>2. /\ P[id].version \in Int /\ R[id].version \in Int /\ Q[id].version \in Int
    BY <2>1, <1>2, VersionIsInt DEF RowsOK
  <2>3. Succeeds(P[id], R[id]) /\ Succeeds(R[id], Q[id])
    BY <2>1, <1>2 DEF Grows
  <2> QED
    BY <2>2, <2>3, SucceedsTransitive
<1> QED
  BY <1>1, <1>2 DEF Grows

(* A copy stays one while other calls commit.                              *)
LEMMA CopyKept ==
  ASSUME NEW R, NEW Q, RowsOK(R), RowsOK(Q), Grows(R, Q), NEW x, CopyOK(R, x)
  PROVE  CopyOK(Q, x)
<1>1. /\ x.id \in DOMAIN R /\ x.id \in DOMAIN Q /\ IsVersioned(x.id)
      /\ RowOK(x.id, x.row) /\ Succeeds(x.row, R[x.id]) /\ Succeeds(R[x.id], Q[x.id])
  BY DEF CopyOK, Grows
<1>2. x.row.version \in Int /\ R[x.id].version \in Int /\ Q[x.id].version \in Int
  BY <1>1, VersionIsInt DEF RowsOK
<1>3. Succeeds(x.row, Q[x.id])
  BY <1>1, <1>2, SucceedsTransitive
<1> QED
  BY <1>1, <1>3 DEF CopyOK

(* What is known of a call stays true when another call commits.           *)
LEMMA LocalKept ==
  ASSUME NEW R, NEW Q, NEW D, NEW c, RowsOK(R), RowsOK(Q), Grows(R, Q), Unmoved(R, Q, D),
         Local(R, D, c)
  PROVE  Local(Q, D, c)
<1>1. TodoOK(Q, c)
  BY CopyKept DEF Local, TodoOK
<1>2. SnapOK(Q, c)
  BY GrowsTransitive DEF Local, SnapOK
<1>3. OwnOK(Q, D, c)
  BY DEF Local, OwnOK, Unmoved
<1> QED
  BY <1>1, <1>2, <1>3 DEF Local

-----------------------------------------------------------------------------
(***************************************************************************)
(* The statements as one call sees them: R are the committed rows, D what  *)
(* the call has written, c its record; D2 and c2 are the two afterwards    *)
(***************************************************************************)

Cur(R, D, id) == IF id \in DOMAIN D THEN D[id] ELSE R[id]

Known(R, D) == DOMAIN R \cup DOMAIN D

Over(R, D) == [id \in DOMAIN R \cup DOMAIN D |-> Cur(R, D, id)]

(* A step inside a transaction, its begin and its end.                     *)
Flows(c, c2) ==
  /\ ShapeOK(c2)
  /\ c2.req = c.req /\ c2.tries = c.tries /\ c2.snap = c.snap /\ c2.sum = c.sum
  /\ c2.result = c.result

Begun(R, D, c, D2, c2) ==
  /\ c.pc \in {"idle", "again"}
  /\ D2 = D /\ ShapeOK(c2)
  /\ c2.req = c.req /\ c2.tries = c.tries /\ c2.result = c.result
  /\ c2.snap = IF engine = "mysql" THEN R ELSE << >>

Ended(D2, c, c2, result) ==
  /\ DOMAIN D2 = {} /\ ShapeOK(c2)
  /\ c2.req = c.req /\ c2.tries = c.tries /\ c2.result = result
  /\ c2.pc = "done" /\ c2.snap = << >> /\ c2.todo = << >>

(* The loop goes on, and an increment is asked for.                        *)
GoesOn(c, c2, pc) == Flows(c, c2) /\ c2.pc = pc /\ c2.todo = Tail(c.todo)

Asks(c2, key, delta, guard, biz, ref) ==
  /\ c2.pc = "update"
  /\ c2.inc.key = key /\ c2.inc.delta = delta /\ c2.inc.guard = guard
  /\ c2.inc.second = FALSE /\ c2.inc.biz = biz /\ c2.inc.ref = ref

Increments(c, c2, key, delta, guard, biz, ref) ==
  Flows(c, c2) /\ c2.todo = c.todo /\ Asks(c2, key, delta, guard, biz, ref)

(* A row that was read, has not moved, and is written back.                *)
Swaps(R, D, D2, x, row) ==
  x.id \notin DOMAIN D /\ R[x.id] = x.row /\ D2 = With(D, x.id, row)

PaidStep(R, D, c, D2, c2) ==
  /\ c.req.op = "paid"
  /\ \/ Ended(D2, c, c2, "replayed")
     \/ /\ Begun(R, D, c, D2, c2)
        /\ c2.pc = "accrue"
        /\ c2.todo = [i \in DOMAIN Plan[c.req.order] |->
                        [layer |-> i, agent |-> Plan[c.req.order][i].agent,
                         amount |-> Plan[c.req.order][i].amount]]

NewAccrual(x) ==
  [layer |-> x.layer, agent |-> x.agent, amount |-> x.amount,
   reversed |-> 0, state |-> "pending", dated |-> FALSE, version |-> 1]

Credit(x) == [NoDelta EXCEPT !["frozen"] = x.amount, !["totalEarned"] = x.amount]

AccrueStep(R, D, c, D2, c2) ==
  LET x == c.todo[1]
      key == AccrualKey(c.req.order, x.agent)
      id == <<"commission", key>>
  IN  /\ c.pc = "accrue" /\ c.todo # << >>
      /\ \/ /\ id \in Known(R, D)
            /\ D2 = D /\ GoesOn(c, c2, "accrue")
         \/ /\ id \notin Known(R, D)
            /\ D2 = With(D, id, NewAccrual(x))
            /\ Increments(c, c2, x.agent, Credit(x), FALSE, "accrue", key)

Undated(R, o) ==
  {id \in Accruals(o, R) : R[id].state \in {"pending", "frozen"} /\ ~R[id].dated}

ReceivedStep(R, D, c, D2, c2) ==
  /\ c.req.op = "received"
  /\ \/ Ended(D2, c, c2, "skipped")
     \/ /\ Begun(R, D, c, D2, c2)
        /\ c2.pc = "date"
        /\ c2.todo \in ByLayer(Copies(Undated(R, c.req.order), R))

DateStep(R, D, c, D2, c2) ==
  LET x == c.todo[1]
  IN  /\ c.pc = "date" /\ c.todo # << >>
      /\ GoesOn(c, c2, "date")
      /\ \/ D2 = D
         \/ Swaps(R, D, D2, x, [x.row EXCEPT !.dated = TRUE, !.version = @ + 1])

Due(R) ==
  {id \in RowsOf("commission", R) :
     id[2][1] = "accrue" /\ R[id].state = "pending" /\ R[id].dated}

MaintainStep(R, D, c, D2, c2) ==
  /\ c.req.op = "maintain"
  /\ \/ Ended(D2, c, c2, "skipped")
     \/ /\ Begun(R, D, c, D2, c2)
        /\ c2.pc = "settle"
        /\ c2.todo \in SetToSeqs(Copies(Due(R), R))

SettleStep(R, D, c, D2, c2) ==
  LET x == c.todo[1]
  IN  /\ c.pc = "settle" /\ c.todo # << >>
      /\ \/ D2 = D /\ GoesOn(c, c2, "settle")
         \/ /\ x.row.state = "pending"
            /\ Swaps(R, D, D2, x, [x.row EXCEPT !.state = "settled", !.version = @ + 1])
            /\ Increments(c, c2, x.row.agent,
                          MoveDelta("frozen", "available", Outstanding(x.row)),
                          TRUE, "settle", x.id[2])

RefundedStep(R, D, c, D2, c2) ==
  /\ c.req.op = "refunded"
  /\ \/ Ended(D2, c, c2, "skipped")
     \/ /\ Begun(R, D, c, D2, c2)
        /\ c2.pc = "vouchers"
        /\ c2.todo \in ByLayer(Copies(Accruals(c.req.order, R), R))

VouchersStep(R, D, c, D2, c2) ==
  /\ c.pc = "vouchers"
  /\ \/ Ended(D2, c, c2, "ok")
     \/ /\ D2 = D /\ ShapeOK(c2)
        /\ c2.req = c.req /\ c2.tries = c.tries /\ c2.snap = c.snap
        /\ c2.result = c.result /\ c2.todo = c.todo
        /\ c2.pc = "voucher"
        /\ c2.sum \in 0 .. Base[c.req.order]

Left(c) ==
  {x \in Range(c.todo) :
     /\ x.row.state \notin {"reversed", "void"}
     /\ WantReversed(x.row, c.sum, Base[c.req.order]) > x.row.reversed}

VoucherStep(R, D, c, D2, c2) ==
  LET id == <<"refund", <<c.req.order, c.req.key>>>>
  IN  /\ c.pc = "voucher"
      /\ Flows(c, c2) /\ c2.pc = "claw"
      /\ \/ D2 = D /\ c2.todo = << >>
         \/ /\ id \notin Known(R, D)
            /\ D2 = With(D, id, [amount |-> c.req.amount, cumulative |-> c.sum])
            /\ c2.todo \in ByLayer(Left(c))

VoidStep(R, D, c, D2, c2) ==
  LET id == <<"commission", c.req.key>>
  IN  /\ c.req.op = "void"
      /\ \/ Ended(D2, c, c2, "refused")
         \/ /\ Begun(R, D, c, D2, c2)
            /\ id \in DOMAIN R /\ R[id].state \in {"pending", "frozen"}
            /\ c2.pc = "claw" /\ c2.todo = <<[id |-> id, row |-> R[id]]>>

TargetOf(c, row) ==
  IF c.req.op = "void" THEN row.amount
  ELSE WantReversed(row, c.sum, Base[c.req.order])

(* What is reversed of a commission, and under which key.                  *)
Reversed(c) == TargetOf(c, c.todo[1].row) - c.todo[1].row.reversed

ReversalId(c) ==
  LET x == c.todo[1]
  IN  <<"commission", ReversalKey(x.id[2][2], x.row.agent, TargetOf(c, x.row))>>

ClawStep(R, D, c, D2, c2) ==
  LET x == c.todo[1]
  IN  /\ c.pc = "claw" /\ c.todo # << >>
      /\ \/ D2 = D /\ GoesOn(c, c2, "claw")
         \/ /\ ReversalId(c) \notin Known(R, D)
            /\ D2 = With(D, ReversalId(c),
                         [layer |-> x.row.layer, agent |-> x.row.agent,
                          amount |-> -Reversed(c), state |-> "reversed"])
            /\ Flows(c, c2) /\ c2.pc = "accumulate" /\ c2.todo = c.todo

Debit(c) ==
  [NoDelta EXCEPT ![ReversalBucket(c.todo[1].row.state)] = -Reversed(c),
                  !["totalReversed"] = Reversed(c)]

AccumulateStep(R, D, c, D2, c2) ==
  LET x == c.todo[1]
      target == TargetOf(c, x.row)
      end == IF c.req.op = "void" THEN "void" ELSE "reversed"
  IN  /\ c.pc = "accumulate"
      /\ \/ Ended(D2, c, c2, "conflict")
         \/ /\ target <= x.row.amount
            /\ Swaps(R, D, D2, x,
                     [x.row EXCEPT !.reversed = target, !.version = @ + 1,
                                   !.state = IF target = x.row.amount THEN end ELSE @])
            /\ \E biz \in {"void", "reverse"} :
                 Increments(c, c2, x.row.agent, Debit(c), TRUE, biz, ReversalId(c)[2])

RiskStep(R, D, c, D2, c2) ==
  LET id == <<"commission", c.req.key>>
  IN  /\ c.req.op = "risk"
      /\ \/ Ended(D2, c, c2, "refused")
         \/ /\ Begun(R, D, c, D2, c2)
            /\ id \in DOMAIN R /\ R[id].state = c.req.from
            /\ c2.pc = "risk" /\ c2.todo = <<[id |-> id, row |-> R[id]]>>

FreezeStep(R, D, c, D2, c2) ==
  LET x == c.todo[1]
  IN  /\ c.pc = "risk" /\ c.todo # << >>
      /\ \/ Ended(D2, c, c2, "conflict")
         \/ /\ x.row.state = c.req.from
            /\ Swaps(R, D, D2, x, [x.row EXCEPT !.state = c.req.to, !.version = @ + 1])
            /\ GoesOn(c, c2, "risk")

WithdrawStep(R, D, c, D2, c2) ==
  /\ c.req.op = "withdraw"
  /\ \/ Ended(D2, c, c2, "existed")
     \/ /\ Begun(R, D, c, D2, c2)
        /\ c2.pc = "reserve" /\ c2.todo = <<[hold |-> c.req.key]>>

NewWithdrawal(c) ==
  [agent |-> c.req.agent, amount |-> c.req.amount, state |-> "reserved", version |-> 1]

ReserveStep(R, D, c, D2, c2) ==
  LET id == <<"withdrawal", c.req.key>>
  IN  /\ c.pc = "reserve" /\ c.todo # << >>
      /\ \/ \E r \in {"existed", "notfound"} : Ended(D2, c, c2, r)
         \/ /\ id \notin Known(R, D)
            /\ D2 = With(D, id, NewWithdrawal(c))
            /\ Increments(c, c2, c.req.agent,
                          MoveDelta("available", "withdrawing", c.req.amount),
                          TRUE, "withdraw_hold", c.req.key)

DecisionBiz(c) == IF c.req.op = "payout" THEN "withdraw_paid" ELSE "withdraw_refund"

DecisionBucket(c) == IF c.req.op = "payout" THEN "withdrawn" ELSE "available"

DecisionState(c) == IF c.req.op = "payout" THEN "paid" ELSE "rejected"

DecisionStep(R, D, c, D2, c2) ==
  LET id == <<"withdrawal", c.req.key>>
  IN  /\ c.req.op \in {"payout", "reject"}
      /\ \/ Ended(D2, c, c2, "refused")
         \/ /\ Begun(R, D, c, D2, c2)
            /\ id \in DOMAIN R /\ R[id].state = "reserved"
            /\ c2.todo = <<[id |-> id, row |-> R[id]]>>
            /\ Asks(c2, R[id].agent,
                    MoveDelta("withdrawing", DecisionBucket(c), R[id].amount),
                    TRUE, DecisionBiz(c), c.req.key)

DecideStep(R, D, c, D2, c2) ==
  LET x == c.todo[1]
  IN  /\ c.pc = "decide"
      /\ \/ Ended(D2, c, c2, "conflict")
         \/ /\ x.row.state = "reserved"
            /\ Swaps(R, D, D2, x, [x.row EXCEPT !.state = DecisionState(c), !.version = @ + 1])
            /\ GoesOn(c, c2, "decided")

Holds(R) ==
  {R[id].ref : id \in {x \in RowsOf("ledger", R) : R[x].biz = "withdraw_hold"}}

CheckStep(R, D, c, D2, c2) ==
  /\ c.req.op = "check"
  /\ Begun(R, D, c, D2, c2)
  /\ c2.pc = "withdrawals" /\ c2.todo = <<[held |-> Holds(R)]>>

(* What a SELECT of a call that has written nothing returns.               *)
Sees(R, c, seen) ==
  LET from == IF engine = "mysql" THEN c.snap ELSE R
  IN  DOMAIN seen = DOMAIN from /\ \A id \in DOMAIN seen : seen[id] = from[id]

Reserved(seen) ==
  LET ids == RowsOf("withdrawal", seen)
  IN  [k \in Agents |-> SumFunctionOnSet(
         [id \in ids |-> seen[id].amount],
         {id \in {x \in ids : seen[x].state = "reserved"} : seen[id].agent = k})]

WithdrawalsStep(R, D, c, D2, c2) ==
  /\ c.pc = "withdrawals"
  /\ \E seen :
       /\ Sees(R, c, seen)
       /\ \/ /\ \E id \in RowsOf("withdrawal", seen) : id[2] \notin c.todo[1].held
             /\ Ended(D2, c, c2, "alarm")
          \/ /\ D2 = D /\ Flows(c, c2)
             /\ c2.pc = "ledger" /\ c2.todo = <<[reserved |-> Reserved(seen)]>>

LedgerStep(R, D, c, D2, c2) ==
  /\ c.pc = "ledger"
  /\ \E seen :
       /\ Sees(R, c, seen)
       /\ \/ Ended(D2, c, c2, "clean")
          \/ /\ \E k \in Agents :
                  /\ <<"account", k>> \in DOMAIN seen
                  /\ seen[<<"account", k>>]["withdrawing"] # c.todo[1].reserved[k]
             /\ Ended(D2, c, c2, "alarm")

OwnAccount(c) == <<"account", c.inc.key>>

(* Another pass of IncrementAccount, or the next place of the same pass.   *)
Passes(c, c2) ==
  /\ Flows(c, c2) /\ c2.todo = c.todo /\ c2.pc = "update"
  /\ c2.inc.key = c.inc.key /\ c2.inc.delta = c.inc.delta /\ c2.inc.guard = c.inc.guard
  /\ c2.inc.biz = c.inc.biz /\ c2.inc.ref = c.inc.ref
  /\ c2.inc.second = TRUE

MovesTo(c, c2, pc) == Flows(c, c2) /\ c2.todo = c.todo /\ c2.inc = c.inc /\ c2.pc = pc

UpdateStep(R, D, c, D2, c2) ==
  LET id == OwnAccount(c)
      after == Apply(Cur(R, D, id), c.inc.delta)
      accepted == c.inc.guard => NegativeBuckets(after) = {}
  IN  /\ c.pc = "update"
      /\ \/ /\ id \in Known(R, D) /\ accepted
            /\ D2 = With(D, id, after) /\ MovesTo(c, c2, "entry")
         \/ /\ id \notin Known(R, D) \/ ~accepted
            /\ D2 = D /\ MovesTo(c, c2, "lookup")

LookupStep(R, D, c, D2, c2) ==
  /\ c.pc = "lookup" /\ D2 = D
  /\ \/ OwnAccount(c) \in Known(R, D) /\ ~c.inc.second /\ Passes(c, c2)
     \/ /\ c.inc.guard => NegativeBuckets(Apply(EmptyAccount, c.inc.delta)) = {}
        /\ MovesTo(c, c2, "insert")

InsertStep(R, D, c, D2, c2) ==
  LET id == OwnAccount(c)
  IN  /\ c.pc = "insert"
      /\ \/ id \in Known(R, D) /\ ~c.inc.second /\ D2 = D /\ Passes(c, c2)
         \/ /\ id \notin Known(R, D)
            /\ D2 = With(D, id, Apply(EmptyAccount, c.inc.delta))
            /\ MovesTo(c, c2, "entry")

RefusedStep(R, D, c, D2, c2) ==
  /\ c.pc \in {"lookup", "insert"}
  /\ \/ /\ AllowNegative /\ c.inc.guard /\ c.req.op \in {"refunded", "void"}
        /\ ReversalBucket(c.todo[1].row.state) = "available"
        /\ D2 = D
        /\ Increments(c, c2, c.inc.key, c.inc.delta, FALSE, c.inc.biz, c.inc.ref)
     \/ /\ c.req.op = "maintain" /\ c.inc.second
        /\ D2 = D /\ GoesOn(c, c2, "settle")
     \/ c.inc.guard /\ Ended(D2, c, c2, "insufficient")
     \/ c.inc.second /\ Ended(D2, c, c2, "conflict")

LoopFor(c) ==
  CASE c.req.op = "paid" -> "accrue"
    [] c.req.op = "maintain" -> "settle"
    [] c.req.op \in {"refunded", "void"} -> "claw"
    [] c.req.op = "withdraw" -> "reserve"
    [] OTHER -> "decide"

NewEntry(D, c) ==
  [key |-> c.inc.key, biz |-> c.inc.biz, ref |-> c.inc.ref,
   delta |-> [b \in Buckets |-> c.inc.delta[b]],
   after |-> [b \in Buckets |-> D[OwnAccount(c)][b]]]

EntryStep(R, D, c, D2, c2) ==
  /\ c.pc = "entry"
  /\ \E n \in Nat \ {0} :
       /\ \A id \in Known(R, D) : id[1] = "ledger" => id[2] < n
       /\ D2 = With(D, <<"ledger", n>>, NewEntry(D, c))
  /\ Flows(c, c2) /\ c2.pc = LoopFor(c)
  /\ c2.todo = IF LoopFor(c) = "decide" THEN c.todo ELSE Tail(c.todo)

RetryStep(R, D, c, D2, c2) ==
  /\ c.pc \notin Idle
  /\ DOMAIN D2 = {} /\ ShapeOK(c2)
  /\ c2.req = c.req /\ c2.tries \in 0 .. MaxRetries
  /\ c2.result \in {"none", "exhausted"}
  /\ c2.pc \in {"again", "done"} /\ c2.snap = << >> /\ c2.todo = << >>

CommitStep(R, D, c, D2, c2) ==
  c.pc \in Loops /\ c.todo = << >> /\ Ended(D2, c, c2, "ok")

(* The row at the head of a list.                                          *)
LEMMA HeadCopy ==
  ASSUME NEW R, NEW c, TodoOK(R, c), c.todo # << >>
  PROVE  /\ c.todo[1] \in Range(c.todo)
         /\ c.req.op = "paid" => c.todo[1] \in LayerItem
         /\ c.req.op \in {"received", "maintain", "refunded", "void", "risk"} =>
              /\ CopyOK(R, c.todo[1]) /\ IsAccrual(c.todo[1].id)
              /\ AccrualOK(c.todo[1].id, c.todo[1].row)
         /\ c.req.op \in {"payout", "reject"} =>
              /\ CopyOK(R, c.todo[1]) /\ c.todo[1].id = <<"withdrawal", c.req.key>>
              /\ c.todo[1].row \in WithdrawalRow
<1>1. c.todo[1] \in Range(c.todo)
  BY ListTail DEF TodoOK
<1> QED
  BY <1>1 DEF TodoOK, CopyOK, RowOK

(* What a clawback reverses is a whole number.                             *)
LEMMA TargetType ==
  ASSUME NEW R, NEW D, NEW c, Local(R, D, c), c.pc \in {"claw", "accumulate"}, c.todo # << >>
  PROVE  /\ TargetOf(c, c.todo[1].row) \in Nat
         /\ c.todo[1].row \in AccrualRow /\ Reversed(c) \in Int
         /\ CopyOK(R, c.todo[1]) /\ AccrualOK(c.todo[1].id, c.todo[1].row)
<1> DEFINE x == c.todo[1]
<1>1. /\ c.req.op \in {"refunded", "void"} /\ WellFormed(c.req)
      /\ c.req.op = "refunded" => c.sum \in 0 .. Base[c.req.order]
  BY DEF PlaceOK, Local, RequestOK, SumOK, Idle
<1>2. CopyOK(R, x) /\ AccrualOK(x.id, x.row)
  BY <1>1, HeadCopy DEF Local
<1>3. x.row \in AccrualRow /\ x.row.amount \in Nat /\ x.row.reversed \in Nat
  BY <1>2 DEF AccrualOK, AccrualRow
<1>4. TargetOf(c, x.row) \in Nat
  <2>1. CASE c.req.op = "void"
    BY <1>3, <2>1 DEF TargetOf
  <2>2. CASE c.req.op = "refunded"
    <3>1. c.req.order \in Orders /\ Base[c.req.order] \in Nat \ {0}
      BY <1>1, <2>2, SqlLedgerAssumption DEF WellFormed
    <3>2. c.sum \in Nat
      BY <1>1, <2>2, <3>1
    <3> DEFINE n == x.row.amount * c.sum
    <3>3. n \in Nat
      BY <1>3, <3>2
    <3> HIDE DEF n
    <3>4. n \div Base[c.req.order] \in Nat
      BY <3>1, <3>3
    <3> QED
      BY <2>2, <3>4 DEF TargetOf, WantReversed, n
  <2> QED
    BY <1>1, <2>1, <2>2
<1> QED
  BY <1>2, <1>3, <1>4 DEF Reversed

-----------------------------------------------------------------------------
(***************************************************************************)
(* Every statement is such a step                                          *)
(***************************************************************************)

(* Nothing but the record and the uncommitted rows of t changes.           *)
Alone(t) ==
  /\ engine' = engine /\ rows' = rows
  /\ DOMAIN call' = Calls /\ \A u \in Calls \ {t} : call'[u] = call[u]
  /\ \A u : u # t => Mine(u)' = Mine(u)
  /\ Owned' /\ IsFiniteSet(DOMAIN dirty')

(* A statement that writes no row.                                         *)
LEMMA QuietStep ==
  ASSUME StoreOK, NEW t \in Calls, NEW c, Go(t, c), UNCHANGED <<engine, rows, dirty>>
  PROVE  Alone(t) /\ Mine(t)' = Mine(t) /\ call'[t] = c
<1>1. \A u : Mine(u)' = Mine(u)
  BY DEF Mine, OwnRows
<1>2. DOMAIN call' = Calls /\ call'[t] = c /\ \A u \in Calls \ {t} : call'[u] = call[u]
  BY DEF StoreOK, Go
<1>3. Owned' /\ IsFiniteSet(DOMAIN dirty')
  BY DEF StoreOK, Owned
<1> QED
  BY <1>1, <1>2, <1>3 DEF Alone

(* A statement that writes one row.                                        *)
LEMMA WritingStep ==
  ASSUME StoreOK, NEW t \in Calls, NEW id, NEW row, NEW c, ~LockedByOther(t, id),
         dirty' = Write(t, id, row), Go(t, c), UNCHANGED <<engine, rows>>
  PROVE  Alone(t) /\ Mine(t)' = With(Mine(t), id, row) /\ call'[t] = c
<1>1. /\ Mine(t)' = With(Mine(t), id, row)
      /\ \A u : u # t => Mine(u)' = Mine(u)
      /\ DOMAIN dirty' = DOMAIN dirty \cup {id}
      /\ Owned'
  BY PutMine DEF StoreOK
<1>2. DOMAIN call' = Calls /\ call'[t] = c /\ \A u \in Calls \ {t} : call'[u] = call[u]
  BY DEF StoreOK, Go
<1>3. IsFiniteSet(DOMAIN dirty')
  BY <1>1, FS_AddElement DEF StoreOK
<1> QED
  BY <1>1, <1>2, <1>3 DEF Alone

(* An INSERT and an UPDATE that do not wait.                               *)
LEMMA InsertEffect ==
  ASSUME StoreOK, NEW t \in Calls, NEW id, NEW row, NEW a, NEW b, Insert(t, id, row, a, b)
  PROVE  /\ Alone(t)
         /\ \/ /\ id \notin Known(rows, Mine(t))
               /\ Mine(t)' = With(Mine(t), id, row) /\ call'[t] = a
            \/ /\ id \in Known(rows, Mine(t))
               /\ Mine(t)' = Mine(t) /\ call'[t] = b
<1>1. /\ id \in DOMAIN dirty => id \in DOMAIN Mine(t)
      /\ DOMAIN Mine(t) \subseteq DOMAIN dirty
      /\ ~LockedByOther(t, id)
  BY MineMeans DEF Insert, InsertWaits
<1>2. CASE Exists(id)
  <2>1. dirty' = dirty /\ Go(t, b) /\ UNCHANGED <<engine, rows>>
    BY <1>2 DEF Insert
  <2>2. id \in Known(rows, Mine(t))
    BY <1>1, <1>2 DEF Exists, Known
  <2> QED
    BY <2>1, <2>2, QuietStep
<1>3. CASE ~Exists(id)
  <2>1. dirty' = Write(t, id, row) /\ Go(t, a) /\ UNCHANGED <<engine, rows>>
    BY <1>3 DEF Insert
  <2>2. id \notin Known(rows, Mine(t))
    BY <1>1, <1>3 DEF Exists, Known
  <2> QED
    BY <1>1, <2>1, <2>2, WritingStep
<1> QED
  BY <1>2, <1>3

(* A conditional UPDATE writes the row it matches or goes the other way.   *)
LEMMA UpdateEffect ==
  ASSUME StoreOK, NEW t \in Calls, NEW id, NEW matches, NEW row, NEW a, NEW b,
         UpdateRow(t, id, matches, row, a, b)
  PROVE  /\ Alone(t)
         /\ \/ /\ id \in Known(rows, Mine(t)) /\ matches
               /\ Mine(t)' = With(Mine(t), id, row) /\ call'[t] = a
            \/ /\ id \notin Known(rows, Mine(t)) \/ ~matches
               /\ Mine(t)' = Mine(t) /\ call'[t] = b
<1> DEFINE hit == id \in DOMAIN rows \cup OwnRows(t) /\ matches
<1>1. /\ DOMAIN Mine(t) = OwnRows(t)
      /\ id \in DOMAIN rows \cup OwnRows(t) => ~LockedByOther(t, id)
  BY MineMeans DEF UpdateRow, UpdateWaits
<1>2. CASE hit
  <2>1. dirty' = Write(t, id, row) /\ Go(t, a) /\ UNCHANGED <<engine, rows>>
    BY <1>2 DEF UpdateRow
  <2>2. id \in Known(rows, Mine(t)) /\ matches /\ ~LockedByOther(t, id)
    BY <1>1, <1>2 DEF Known
  <2> QED
    BY <2>1, <2>2, WritingStep
<1>3. CASE ~hit
  <2>1. dirty' = dirty /\ Go(t, b) /\ UNCHANGED <<engine, rows>>
    BY <1>3 DEF UpdateRow
  <2>2. id \notin Known(rows, Mine(t)) \/ ~matches
    BY <1>1, <1>3 DEF Known
  <2> QED
    BY <2>1, <2>2, QuietStep
<1> QED
  BY <1>2, <1>3

(* The end of a transaction that is rolled back, and an answer of one that *)
(* has written nothing.                                                    *)
LEMMA ReturnIs ==
  ASSUME NEW t, NEW result, ShapeOK(call[t])
  PROVE  /\ ShapeOK(Return(t, result))
         /\ Return(t, result).req = call[t].req /\ Return(t, result).tries = call[t].tries
         /\ Return(t, result).result = result /\ Return(t, result).pc = "done"
         /\ Return(t, result).snap = << >> /\ Return(t, result).todo = << >>
BY DEF Return, Closed, NoInc, ShapeOK, Fields, IncFields

(* A rollback drops what its own transaction wrote.                        *)
LEMMA DropEffect ==
  ASSUME StoreOK, NEW t \in Calls, NEW c, dirty' = Others(t), Go(t, c),
         UNCHANGED <<engine, rows>>
  PROVE  Alone(t) /\ DOMAIN Mine(t)' = {} /\ call'[t] = c
<1>1. /\ DOMAIN Mine(t)' = {}
      /\ \A u : u # t => Mine(u)' = Mine(u)
      /\ DOMAIN dirty' \subseteq DOMAIN dirty
      /\ Owned'
  BY DropMine DEF StoreOK
<1>2. DOMAIN call' = Calls /\ call'[t] = c /\ \A u \in Calls \ {t} : call'[u] = call[u]
  BY DEF StoreOK, Go
<1>3. IsFiniteSet(DOMAIN dirty')
  BY <1>1, FS_Subset DEF StoreOK
<1> QED
  BY <1>1, <1>2, <1>3 DEF Alone

(* A failing call rolls back and ends with its answer.                     *)
LEMMA FailEffect ==
  ASSUME StoreOK, NEW t \in Calls, NEW result, ShapeOK(call[t]), FailWith(t, result)
  PROVE  Alone(t) /\ Ended(Mine(t)', call[t], call'[t], result)
<1>1. Alone(t) /\ DOMAIN Mine(t)' = {} /\ call'[t] = Return(t, result)
  BY DropEffect DEF FailWith
<1> QED
  BY <1>1, ReturnIs DEF Ended

(* A call that wrote nothing ends with its answer.                         *)
LEMMA AnswerEffect ==
  ASSUME StoreOK, NEW t \in Calls, NEW result, ShapeOK(call[t]), DOMAIN Mine(t) = {},
         Answer(t, result)
  PROVE  Alone(t) /\ Ended(Mine(t)', call[t], call'[t], result)
<1>1. Alone(t) /\ Mine(t)' = Mine(t) /\ call'[t] = Return(t, result)
  BY QuietStep DEF Answer
<1> QED
  BY <1>1, ReturnIs DEF Ended

(* The begin of a transaction.                                             *)
LEMMA BeginEffect ==
  ASSUME StoreOK, NEW t \in Calls, NEW pc, NEW todo, ShapeOK(call[t]), Begins(t),
         Go(t, Opened(t, pc, todo)), UNCHANGED <<engine, rows, dirty>>
  PROVE  /\ Alone(t) /\ Begun(rows, Mine(t), call[t], Mine(t)', call'[t])
         /\ call'[t].pc = pc /\ call'[t].todo = todo
<1> DEFINE e == Opened(t, pc, todo)
<1>1. /\ ShapeOK(e)
      /\ e.req = call[t].req /\ e.tries = call[t].tries /\ e.result = call[t].result
      /\ e.snap = (IF engine = "mysql" THEN rows ELSE << >>)
      /\ e.pc = pc /\ e.todo = todo
  BY DEF Opened, ShapeOK, Fields
<1> HIDE DEF e
<1>2. Alone(t) /\ Mine(t)' = Mine(t) /\ call'[t] = e
  BY QuietStep DEF e
<1> QED
  BY <1>1, <1>2 DEF Begun, Begins

(* A row whose version is the one that was read is the row that was read,  *)
(* and the call has not written it.                                        *)
LEMMA Uncontended ==
  ASSUME NEW R, NEW D, NEW c, RowsOK(R), OwnOK(R, D, c), NEW x, CopyOK(R, x),
         Cur(R, D, x.id).version = x.row.version
  PROVE  x.id \notin DOMAIN D /\ R[x.id] = x.row
<1>1. /\ x.id \in DOMAIN R /\ RowOK(x.id, x.row) /\ RowOK(x.id, R[x.id])
      /\ IsVersioned(x.id) /\ Succeeds(x.row, R[x.id])
  BY DEF CopyOK, RowsOK
<1>2. x.row.version \in Int /\ R[x.id].version \in Int
  BY <1>1, VersionIsInt
<1>3. x.id \notin DOMAIN D
  <2> SUFFICES ASSUME x.id \in DOMAIN D PROVE FALSE
    OBVIOUS
  <2>1. /\ RowOK(x.id, D[x.id]) /\ R[x.id].version < D[x.id].version
        /\ D[x.id].version = x.row.version
    BY <1>1 DEF OwnOK, RowsOK, Cur
  <2> QED
    BY <1>1, <1>2, <2>1 DEF Succeeds
<1>4. R[x.id].version = x.row.version
  BY <1>3 DEF Cur
<1> QED
  BY <1>1, <1>3, <1>4 DEF Succeeds

(* The same in the terms of a statement that compares the version.         *)
LEMMA UncontendedCopy ==
  ASSUME NEW R, NEW D, NEW c, RowsOK(R), OwnOK(R, D, c), NEW x, CopyOK(R, x),
         NEW cur, cur = Cur(R, D, x.id), cur.version = x.row.version
  PROVE  x.id \notin DOMAIN D /\ R[x.id] = x.row /\ x.id \in DOMAIN R
<1>1. x.id \in DOMAIN R
  BY DEF CopyOK
<1>2. x.id \notin DOMAIN D /\ R[x.id] = x.row
  BY Uncontended
<1> QED
  BY <1>1, <1>2

(* What the invariant says of one call.                                    *)
LEMMA LocalOf ==
  ASSUME TypeInv, NEW t \in Calls
  PROVE  /\ StoreOK /\ RowsOK(rows) /\ Local(rows, Mine(t), call[t])
         /\ ShapeOK(call[t]) /\ DOMAIN call[t] = Fields /\ DOMAIN call[t].inc = IncFields
         /\ PlaceOK(call[t]) /\ OwnOK(rows, Mine(t), call[t])
         /\ call[t].pc \in Idle \cup Reading => DOMAIN Mine(t) = {}
         /\ Begins(t) => DOMAIN Mine(t) = {}
BY DEF TypeInv, StoreOK, Local, ShapeOK, OwnOK, Begins, Idle

(* The rows of a loop.                                                     *)
LEMMA HeadOf ==
  ASSUME TypeInv, NEW t \in Calls, call[t].todo # << >>
  PROVE  /\ Head1(t) \in Range(call[t].todo)
         /\ call[t].req.op \in {"received", "maintain", "refunded", "void", "risk"} =>
              CopyOK(rows, Head1(t)) /\ IsAccrual(Head1(t).id)
         /\ call[t].req.op \in {"payout", "reject"} =>
              CopyOK(rows, Head1(t)) /\ Head1(t).id = <<"withdrawal", call[t].req.key>>
<1>1. TodoOK(rows, call[t])
  BY DEF TypeInv, Local
<1>2. Head1(t) \in Range(call[t].todo)
  BY <1>1, ListTail DEF TodoOK, Head1
<1> QED
  BY <1>1, <1>2 DEF TodoOK

(* The record after the loop has gone on.                                  *)
LEMMA SkipIs ==
  ASSUME NEW t, ShapeOK(call[t]), NEW pc
  PROVE  /\ GoesOn(call[t], Skip(t), call[t].pc)
         /\ GoesOn(call[t], SkipTo(t, pc), pc)
         /\ Flows(call[t], At(t, pc)) /\ At(t, pc).pc = pc
         /\ At(t, pc).todo = call[t].todo /\ At(t, pc).inc = call[t].inc
BY DEF ShapeOK, Fields, IncFields, Skip, SkipTo, At, GoesOn, Flows, NoInc

(* A call that sets out to move an account knows what to move.             *)
LEMMA IncrementIs ==
  ASSUME NEW t, ShapeOK(call[t]), NEW key, NEW delta, NEW guard, NEW biz, NEW ref
  PROVE  Increments(call[t], Increment(t, key, delta, guard, biz, ref),
                    key, delta, guard, biz, ref)
BY DEF ShapeOK, Fields, IncFields, Increment, Increments, Flows, Asks

(* A statement reads its own writes over the committed rows.               *)
LEMMA CurrentIs ==
  ASSUME NEW t
  PROVE  \A id : Current(t, id) = Cur(rows, Mine(t), id)
BY DEF Current, Cur, Mine

-----------------------------------------------------------------------------
(* Payment, receipt and settlement.                                        *)

LEMMA OnOrderPaidEffect ==
  ASSUME TypeInv, NEW t \in Calls, OnOrderPaid(t)
  PROVE  Alone(t) /\ PaidStep(rows, Mine(t), call[t], Mine(t)', call'[t])
<1> DEFINE o == call[t].req.order
           todo == [i \in DOMAIN Plan[o] |->
                      [layer |-> i, agent |-> Plan[o][i].agent,
                       amount |-> Plan[o][i].amount]]
<1>1. StoreOK /\ ShapeOK(call[t]) /\ call[t].req.op = "paid" /\ Begins(t) /\ DOMAIN Mine(t) = {}
  BY LocalOf DEF OnOrderPaid, Req
<1>2. CASE Answer(t, "replayed")
  BY <1>1, <1>2, AnswerEffect DEF PaidStep
<1>3. CASE ~Answer(t, "replayed")
  <2>1. Go(t, Opened(t, "accrue", todo)) /\ UNCHANGED <<engine, rows, dirty>>
    BY <1>3 DEF OnOrderPaid, Req
  <2>2. todo = [i \in DOMAIN Plan[call[t].req.order] |->
                  [layer |-> i, agent |-> Plan[call[t].req.order][i].agent,
                   amount |-> Plan[call[t].req.order][i].amount]]
    OBVIOUS
  <2> HIDE DEF todo
  <2>3. /\ Alone(t) /\ Begun(rows, Mine(t), call[t], Mine(t)', call'[t])
        /\ call'[t].pc = "accrue" /\ call'[t].todo = todo
    BY <1>1, <2>1, BeginEffect
  <2> QED
    BY <1>1, <2>2, <2>3 DEF PaidStep
<1> QED
  BY <1>2, <1>3

(* The statement that inserts an accrual.                                  *)
LEMMA AccrueBaseEffect ==
  ASSUME TypeInv, NEW t \in Calls, AccrueBase(t)
  PROVE  Alone(t) /\ AccrueStep(rows, Mine(t), call[t], Mine(t)', call'[t])
<1> DEFINE x == call[t].todo[1]
           key == AccrualKey(call[t].req.order, x.agent)
           id == <<"commission", key>>
           row == NewAccrual(x)
           a == Increment(t, x.agent, Credit(x), FALSE, "accrue", key)
           b == Skip(t)
<1>1. /\ StoreOK /\ ShapeOK(call[t])
      /\ call[t].pc = "accrue" /\ call[t].todo # << >>
      /\ Insert(t, id, row, a, b)
  BY LocalOf DEF AccrueBase, Req, Head1, NewAccrual, Credit
<1>2. /\ Increments(call[t], a, x.agent, Credit(x), FALSE, "accrue", key)
      /\ GoesOn(call[t], b, "accrue")
  BY <1>1, SkipIs, IncrementIs
<1> HIDE DEF a, b, row, id
<1>3. /\ Alone(t)
      /\ \/ /\ id \notin Known(rows, Mine(t))
            /\ Mine(t)' = With(Mine(t), id, row) /\ call'[t] = a
         \/ /\ id \in Known(rows, Mine(t))
            /\ Mine(t)' = Mine(t) /\ call'[t] = b
  BY <1>1, InsertEffect
<1> QED
  BY <1>1, <1>2, <1>3 DEF AccrueStep, id, row

(* The statement that begins a receipt.                                    *)
LEMMA OnOrderReceivedEffect ==
  ASSUME TypeInv, NEW t \in Calls, OnOrderReceived(t)
  PROVE  Alone(t) /\ ReceivedStep(rows, Mine(t), call[t], Mine(t)', call'[t])
<1>1. /\ StoreOK /\ ShapeOK(call[t]) /\ call[t].req.op = "received"
      /\ Begins(t) /\ DOMAIN Mine(t) = {}
  BY LocalOf DEF OnOrderReceived, Req
<1>2. CASE Answer(t, "skipped")
  BY <1>1, <1>2, AnswerEffect DEF ReceivedStep
<1>3. CASE ~Answer(t, "skipped")
  <2>1. PICK s \in ByLayer(Copies(Undated(rows, call[t].req.order), rows)) :
          Go(t, Opened(t, "date", s)) /\ UNCHANGED <<engine, rows, dirty>>
    BY <1>3 DEF OnOrderReceived, Req, Undated
  <2> QED
    BY <1>1, <2>1, BeginEffect DEF ReceivedStep
<1> QED
  BY <1>2, <1>3

(* The statement that dates a commission.                                  *)
LEMMA DateEffect ==
  ASSUME TypeInv, NEW t \in Calls, SetCommissionAvailableAt(t)
  PROVE  Alone(t) /\ DateStep(rows, Mine(t), call[t], Mine(t)', call'[t])
<1> DEFINE x == call[t].todo[1]
           cur == Cur(rows, Mine(t), x.id)
           m == ~cur.dated /\ cur.version = x.row.version
           row == [cur EXCEPT !.dated = TRUE, !.version = @ + 1]
           b == Skip(t)
<1>1. /\ StoreOK /\ ShapeOK(call[t]) /\ RowsOK(rows) /\ OwnOK(rows, Mine(t), call[t])
      /\ call[t].pc = "date" /\ call[t].todo # << >>
      /\ UpdateRow(t, x.id, m, row, b, b)
  BY LocalOf, CurrentIs DEF SetCommissionAvailableAt, Head1
<1>2. GoesOn(call[t], b, "date")
  BY <1>1, SkipIs
<1>3. CopyOK(rows, x)
  BY <1>1, LocalOf, HeadOf DEF Head1, PlaceOK
<1> HIDE DEF b
<1>4. m => x.id \notin DOMAIN Mine(t) /\ rows[x.id] = x.row
  BY <1>1, <1>3, Uncontended
<1>5. m => cur = x.row
  BY <1>4 DEF Cur
<1>6. m => row = [x.row EXCEPT !.dated = TRUE, !.version = @ + 1]
  BY <1>5
<1> HIDE DEF m, row, x
<1>7. /\ Alone(t) /\ call'[t] = b
      /\ \/ m /\ Mine(t)' = With(Mine(t), x.id, row)
         \/ Mine(t)' = Mine(t)
  BY <1>1, UpdateEffect
<1> QED
  BY <1>1, <1>2, <1>4, <1>6, <1>7 DEF DateStep, Swaps, x

(* The statement that begins a batch of due commissions.                   *)
LEMMA MaintainEffect ==
  ASSUME TypeInv, NEW t \in Calls, MaintainTenant(t)
  PROVE  Alone(t) /\ MaintainStep(rows, Mine(t), call[t], Mine(t)', call'[t])
<1>1. /\ StoreOK /\ ShapeOK(call[t]) /\ call[t].req.op = "maintain"
      /\ Begins(t) /\ DOMAIN Mine(t) = {}
  BY LocalOf DEF MaintainTenant, Req
<1>2. CASE Answer(t, "skipped")
  BY <1>1, <1>2, AnswerEffect DEF MaintainStep
<1>3. CASE ~Answer(t, "skipped")
  <2>1. PICK s \in SetToSeqs(Copies(Due(rows), rows)) :
          Go(t, Opened(t, "settle", s)) /\ UNCHANGED <<engine, rows, dirty>>
    BY <1>3 DEF MaintainTenant, Req, Due
  <2> QED
    BY <1>1, <2>1, BeginEffect DEF MaintainStep
<1> QED
  BY <1>2, <1>3

(* The statement that settles one commission.                              *)
LEMMA SettleEffect ==
  ASSUME TypeInv, NEW t \in Calls, SettleOne(t)
  PROVE  Alone(t) /\ SettleStep(rows, Mine(t), call[t], Mine(t)', call'[t])
<1> DEFINE x == call[t].todo[1]
           cur == Cur(rows, Mine(t), x.id)
           m == cur.state = "pending" /\ cur.version = x.row.version
           row == [cur EXCEPT !.state = "settled", !.version = @ + 1]
           move == MoveDelta("frozen", "available", Outstanding(x.row))
           a == Increment(t, x.row.agent, move, TRUE, "settle", x.id[2])
           b == Skip(t)
<1>1. /\ StoreOK /\ ShapeOK(call[t]) /\ RowsOK(rows) /\ OwnOK(rows, Mine(t), call[t])
      /\ call[t].pc = "settle" /\ call[t].todo # << >>
      /\ UpdateRow(t, x.id, m, row, a, b)
  BY LocalOf, CurrentIs DEF SettleOne, Head1
<1>2. /\ GoesOn(call[t], b, "settle")
      /\ Increments(call[t], a, x.row.agent, move, TRUE, "settle", x.id[2])
  BY <1>1, SkipIs, IncrementIs
<1>3. CopyOK(rows, x)
  BY <1>1, LocalOf, HeadOf DEF Head1, PlaceOK
<1> HIDE DEF a, b
<1>4. m => x.id \notin DOMAIN Mine(t) /\ rows[x.id] = x.row
  BY <1>1, <1>3, Uncontended
<1>5. m => cur = x.row
  BY <1>4 DEF Cur
<1>6. m => x.row.state = "pending" /\ row = [x.row EXCEPT !.state = "settled", !.version = @ + 1]
  BY <1>5
<1> HIDE DEF m, row, x
<1>7. /\ Alone(t)
      /\ \/ m /\ Mine(t)' = With(Mine(t), x.id, row) /\ call'[t] = a
         \/ Mine(t)' = Mine(t) /\ call'[t] = b
  BY <1>1, UpdateEffect
<1> QED
  BY <1>1, <1>2, <1>4, <1>6, <1>7 DEF SettleStep, Swaps, x

-----------------------------------------------------------------------------
(* Refunds and clawbacks.                                                  *)

LEMMA OnOrderRefundedEffect ==
  ASSUME TypeInv, NEW t \in Calls, OnOrderRefunded(t)
  PROVE  Alone(t) /\ RefundedStep(rows, Mine(t), call[t], Mine(t)', call'[t])
<1>1. /\ StoreOK /\ ShapeOK(call[t]) /\ call[t].req.op = "refunded"
      /\ Begins(t) /\ DOMAIN Mine(t) = {}
  BY LocalOf DEF OnOrderRefunded, Req
<1>2. CASE Answer(t, "skipped")
  BY <1>1, <1>2, AnswerEffect DEF RefundedStep
<1>3. CASE ~Answer(t, "skipped")
  <2>1. PICK s \in ByLayer(Copies(Accruals(call[t].req.order, rows), rows)) :
          Go(t, Opened(t, "vouchers", s)) /\ UNCHANGED <<engine, rows, dirty>>
    BY <1>3 DEF OnOrderRefunded, Req
  <2> QED
    BY <1>1, <2>1, BeginEffect DEF RefundedStep
<1> QED
  BY <1>2, <1>3

(* The rows a SELECT returns are committed or the call's own, and well     *)
(* formed.                                                                 *)
LEMMA ViewIs ==
  ASSUME TypeInv, NEW t \in Calls
  PROVE  /\ RowsOK(View(t)) /\ DOMAIN View(t) \subseteq Known(rows, Mine(t))
         /\ IsFiniteSet(DOMAIN View(t))
         /\ DOMAIN Mine(t) \subseteq DOMAIN View(t)
         /\ DOMAIN Mine(t) = {} => Sees(rows, call[t], View(t))
<1> DEFINE seen == IF engine = "mysql" THEN call[t].snap ELSE rows
<1>1. RowsOK(seen) /\ DOMAIN seen \subseteq DOMAIN rows /\ RowsOK(Mine(t))
  BY DEF TypeInv, Local, StoreOK, SnapOK, OwnOK, Grows
<1>2. DOMAIN Mine(t) = OwnRows(t) /\ OwnRows(t) \subseteq DOMAIN dirty
  BY DEF Mine, OwnRows
<1>3. /\ DOMAIN View(t) = DOMAIN seen \cup DOMAIN Mine(t)
      /\ \A id \in DOMAIN View(t) :
           View(t)[id] = IF id \in DOMAIN Mine(t) THEN Mine(t)[id] ELSE seen[id]
  BY <1>2 DEF View, Mine
<1> HIDE DEF seen
<1>4. RowsOK(View(t)) /\ DOMAIN View(t) \subseteq Known(rows, Mine(t))
  BY <1>1, <1>3 DEF RowsOK, Known
<1>5. IsFiniteSet(DOMAIN rows \cup DOMAIN dirty)
  BY FS_Union DEF TypeInv, StoreOK
<1>6. DOMAIN View(t) \subseteq DOMAIN rows \cup DOMAIN dirty
  BY <1>1, <1>2, <1>3
<1>7. IsFiniteSet(DOMAIN View(t))
  BY <1>5, <1>6, FS_Subset
<1>8. DOMAIN Mine(t) = {} => Sees(rows, call[t], View(t))
  BY <1>3 DEF Sees, seen
<1> QED
  BY <1>3, <1>4, <1>7, <1>8

(* What has been refunded of an order is a natural number.                 *)
LEMMA CumulativeIsNat ==
  ASSUME NEW f, RowsOK(f), IsFiniteSet(DOMAIN f), NEW o
  PROVE  Cumulative(o, f) \in Nat
<1> DEFINE S == Vouchers(o, f)
           T == {f[id].cumulative : id \in S}
           g == [id \in S |-> f[id].cumulative]
<1>1. S \subseteq DOMAIN f /\ \A id \in S : f[id].cumulative \in Nat
  BY DEF Vouchers, RowsOf, RowsOK, RowOK
<1>2. IsFiniteSet(S)
  BY <1>1, FS_Subset
<1>3. T \subseteq Nat /\ \A y \in T : \E x \in S : y = g[x]
  BY <1>1
<1> HIDE DEF S, g
<1>4. IsFiniteSet(T)
  <2> HIDE DEF T
  <2> QED
    BY <1>2, <1>3, FiniteImage
<1>5. IsFiniteSet({0} \cup T) /\ {0} \cup T \subseteq Int /\ {0} \cup T # {}
  <2> HIDE DEF T
  <2> QED
    BY <1>3, <1>4, FS_AddElement
<1>6. Max({0} \cup T) \in {0} \cup T
  <2> HIDE DEF T
  <2> QED
    BY <1>5, MaxIn
<1> QED
  BY <1>3, <1>6 DEF Cumulative, S

(* The statement that reads what was refunded so far.                      *)
LEMMA VouchersEffect ==
  ASSUME TypeInv, NEW t \in Calls, CumulativeRefunds(t)
  PROVE  Alone(t) /\ VouchersStep(rows, Mine(t), call[t], Mine(t)', call'[t])
<1> DEFINE o == call[t].req.order
           cum == Cumulative(o, View(t))
           target == Min({cum + call[t].req.amount, Base[o]})
           e == [call[t] EXCEPT !.pc = "voucher", !.sum = target]
<1>1. /\ StoreOK /\ ShapeOK(call[t]) /\ PlaceOK(call[t])
      /\ call[t].pc = "vouchers" /\ DOMAIN Mine(t) = {}
  BY LocalOf DEF CumulativeRefunds, Reading
<1>2. CASE Answer(t, "ok")
  BY <1>1, <1>2, AnswerEffect DEF VouchersStep
<1>3. CASE ~Answer(t, "ok")
  <2>1. /\ ~(target <= cum)
        /\ Go(t, e) /\ UNCHANGED <<engine, rows, dirty>>
    BY <1>3 DEF CumulativeRefunds, Req
  <2>2. call[t].req.op = "refunded" /\ WellFormed(call[t].req)
    BY <1>1, LocalOf DEF PlaceOK, Local, RequestOK
  <2>3. o \in Orders /\ call[t].req.amount \in Nat /\ Base[o] \in Nat
    BY <2>2, SqlLedgerAssumption DEF WellFormed
  <2>4. cum \in Nat
    BY ViewIs, CumulativeIsNat
  <2> HIDE DEF cum, o
  <2>5. target \in 0 .. Base[o]
    <3> DEFINE n == cum + call[t].req.amount
               S == {n, Base[o]}
    <3>1. n \in Nat
      BY <2>3, <2>4
    <3> HIDE DEF n
    <3>2. IsFiniteSet({n}) /\ {n} \cup {Base[o]} = S
      BY FS_Singleton
    <3>3. IsFiniteSet(S) /\ S \subseteq Int /\ S # {}
      <4>1. IsFiniteSet({n} \cup {Base[o]})
        BY <3>2, FS_AddElement
      <4> QED
        BY <2>3, <3>2, <3>1, <4>1
    <3>4. Min(S) \in S /\ \A y \in S : Min(S) <= y
      <4> HIDE DEF S
      <4> QED
        BY <3>3, MinIn
    <3>5. Min(S) \in Nat /\ Min(S) <= Base[o]
      BY <2>3, <3>1, <3>4
    <3> QED
      BY <2>3, <3>5 DEF n
  <2> HIDE DEF target
  <2>6. /\ ShapeOK(e)
        /\ e.req = call[t].req /\ e.tries = call[t].tries /\ e.snap = call[t].snap
        /\ e.result = call[t].result /\ e.todo = call[t].todo
        /\ e.pc = "voucher" /\ e.sum = target
    BY <1>1 DEF ShapeOK, Fields
  <2> HIDE DEF e
  <2>7. Alone(t) /\ Mine(t)' = Mine(t) /\ call'[t] = e
    BY <1>1, <2>1, QuietStep
  <2> QED
    BY <1>1, <2>5, <2>6, <2>7 DEF VouchersStep, o
<1> QED
  BY <1>2, <1>3

(* The statement that inserts a refund voucher.                            *)
LEMMA VoucherEffect ==
  ASSUME TypeInv, NEW t \in Calls, AppendRefund(t)
  PROVE  Alone(t) /\ VoucherStep(rows, Mine(t), call[t], Mine(t)', call'[t])
<1> DEFINE id == <<"refund", <<call[t].req.order, call[t].req.key>>>>
           row == [amount |-> call[t].req.amount, cumulative |-> call[t].sum]
           b == [call[t] EXCEPT !.pc = "claw", !.todo = << >>]
<1>1. StoreOK /\ ShapeOK(call[t]) /\ call[t].pc = "voucher"
  BY LocalOf DEF AppendRefund
<1>2. PICK s \in ByLayer(Left(call[t])) :
        Insert(t, id, row, [call[t] EXCEPT !.pc = "claw", !.todo = s], b)
  BY DEF AppendRefund, Left, Req
<1> DEFINE a == [call[t] EXCEPT !.pc = "claw", !.todo = s]
<1>3. /\ Flows(call[t], a) /\ a.pc = "claw" /\ a.todo = s
      /\ Flows(call[t], b) /\ b.pc = "claw" /\ b.todo = << >>
  BY <1>1 DEF Flows, ShapeOK, Fields
<1> HIDE DEF a, b, row, id
<1>4. /\ Alone(t)
      /\ \/ /\ id \notin Known(rows, Mine(t))
            /\ Mine(t)' = With(Mine(t), id, row) /\ call'[t] = a
         \/ /\ id \in Known(rows, Mine(t))
            /\ Mine(t)' = Mine(t) /\ call'[t] = b
  BY <1>1, <1>2, InsertEffect DEF a
<1> QED
  BY <1>1, <1>3, <1>4 DEF VoucherStep, id, row

(* The statement that begins a void.                                       *)
LEMMA VoidEffect ==
  ASSUME TypeInv, NEW t \in Calls, VoidCommission(t)
  PROVE  Alone(t) /\ VoidStep(rows, Mine(t), call[t], Mine(t)', call'[t])
<1> DEFINE id == <<"commission", call[t].req.key>>
<1>1. /\ StoreOK /\ ShapeOK(call[t]) /\ call[t].req.op = "void"
      /\ Begins(t) /\ DOMAIN Mine(t) = {}
  BY LocalOf DEF VoidCommission, Req
<1>2. CASE Answer(t, "refused")
  BY <1>1, <1>2, AnswerEffect DEF VoidStep
<1>3. CASE ~Answer(t, "refused")
  <2>1. /\ id \in DOMAIN rows /\ rows[id].state \in {"pending", "frozen"}
        /\ Go(t, Opened(t, "claw", <<[id |-> id, row |-> rows[id]]>>))
        /\ UNCHANGED <<engine, rows, dirty>>
    BY <1>3 DEF VoidCommission, Req
  <2> QED
    BY <1>1, <2>1, BeginEffect DEF VoidStep
<1> QED
  BY <1>2, <1>3

(* The target of a clawback, as the model writes it.                       *)
LEMMA TargetIs ==
  ASSUME TypeInv, NEW t \in Calls, call[t].pc \in {"claw", "accumulate"}, call[t].todo # << >>
  PROVE  /\ TargetOf(call[t], Head1(t).row) = Target(t, Head1(t).row)
         /\ TargetOf(call[t], Head1(t).row) \in Nat
         /\ Head1(t).row \in AccrualRow
         /\ CopyOK(rows, Head1(t))
BY LocalOf, TargetType DEF TargetOf, Target, Req, Head1

(* The statement that inserts the reversal of one commission.              *)
LEMMA ClawEffect ==
  ASSUME TypeInv, NEW t \in Calls, ClawBack(t)
  PROVE  Alone(t) /\ ClawStep(rows, Mine(t), call[t], Mine(t)', call'[t])
<1> DEFINE x == call[t].todo[1]
           id == ReversalId(call[t])
           row == [layer |-> x.row.layer, agent |-> x.row.agent,
                   amount |-> -Reversed(call[t]), state |-> "reversed"]
           a == At(t, "accumulate")
           b == Skip(t)
<1>1. StoreOK /\ ShapeOK(call[t]) /\ call[t].pc = "claw" /\ call[t].todo # << >>
  BY LocalOf DEF ClawBack
<1>2. /\ Target(t, x.row) = TargetOf(call[t], x.row)
      /\ TargetOf(call[t], x.row) \in Int /\ x.row.reversed \in Int
  BY <1>1, TargetIs DEF Head1, AccrualRow
<1>3. x.row.reversed - TargetOf(call[t], x.row) = -Reversed(call[t])
  BY <1>2 DEF Reversed
<1>4. Insert(t, id, row, a, b)
  BY <1>2, <1>3 DEF ClawBack, ReversalId, Head1
<1>5. /\ GoesOn(call[t], b, "claw")
      /\ Flows(call[t], a) /\ a.pc = "accumulate" /\ a.todo = call[t].todo
  BY <1>1, SkipIs
<1> HIDE DEF a, b, row, id
<1>6. /\ Alone(t)
      /\ \/ /\ id \notin Known(rows, Mine(t))
            /\ Mine(t)' = With(Mine(t), id, row) /\ call'[t] = a
         \/ /\ id \in Known(rows, Mine(t))
            /\ Mine(t)' = Mine(t) /\ call'[t] = b
  BY <1>1, <1>4, InsertEffect
<1> QED
  BY <1>1, <1>5, <1>6 DEF ClawStep, id, row

(* The statement that raises the accumulator of an accrual.                *)
LEMMA AccumulateEffect ==
  ASSUME TypeInv, NEW t \in Calls, SetCommissionReversedAmount(t)
  PROVE  Alone(t) /\ AccumulateStep(rows, Mine(t), call[t], Mine(t)', call'[t])
<1> DEFINE x == call[t].todo[1]
           cur == Cur(rows, Mine(t), x.id)
           target == TargetOf(call[t], x.row)
           end == IF call[t].req.op = "void" THEN "void" ELSE "reversed"
           biz == IF call[t].req.op = "void" THEN "void" ELSE "reverse"
           new(r) == [r EXCEPT !.reversed = target, !.version = @ + 1,
                               !.state = IF target = r.amount THEN end ELSE @]
           a == Increment(t, x.row.agent, Debit(call[t]), TRUE, biz, ReversalId(call[t])[2])
           hit == cur.version = x.row.version /\ target <= cur.amount
<1>1. /\ StoreOK /\ ShapeOK(call[t]) /\ RowsOK(rows) /\ OwnOK(rows, Mine(t), call[t])
      /\ call[t].pc = "accumulate" /\ call[t].todo # << >>
  BY LocalOf DEF SetCommissionReversedAmount, Local, TodoOK
<1>2. /\ Target(t, x.row) = target /\ target \in Int /\ x.row.reversed \in Int
      /\ CopyOK(rows, x)
  BY <1>1, TargetIs DEF Head1, AccrualRow
<1>3. x.row.reversed - target = -Reversed(call[t]) /\ target - x.row.reversed = Reversed(call[t])
  BY <1>2 DEF Reversed
<1>4. Increments(call[t], a, x.row.agent, Debit(call[t]), TRUE, biz, ReversalId(call[t])[2])
  BY <1>1, IncrementIs
<1>5. \/ hit /\ UpdateRow(t, x.id, TRUE, new(cur), a, a)
      \/ FailWith(t, "conflict")
  <2>1. Current(t, x.id) = cur
    BY CurrentIs
  <2>2. [NoDelta EXCEPT ![ReversalBucket(x.row.state)] = x.row.reversed - target,
                        !["totalReversed"] = target - x.row.reversed] = Debit(call[t])
    BY <1>3 DEF Debit
  <2>3. ReversalKey(x.id[2][2], x.row.agent, target) = ReversalId(call[t])[2]
    BY DEF ReversalId
  <2> QED
    BY <1>2, <2>1, <2>2, <2>3 DEF SetCommissionReversedAmount, ReversedRow, Terminal, Req, Head1
<1>6. CASE FailWith(t, "conflict")
  BY <1>1, <1>6, FailEffect DEF AccumulateStep
<1>7. CASE hit /\ UpdateRow(t, x.id, TRUE, new(cur), a, a)
  <2>1. x.id \notin DOMAIN Mine(t) /\ rows[x.id] = x.row /\ x.id \in DOMAIN rows
    <3>1. cur = Cur(rows, Mine(t), x.id) /\ cur.version = x.row.version
      BY <1>7
    <3> HIDE DEF cur, x
    <3> QED
      BY <1>1, <1>2, <3>1, UncontendedCopy
  <2>2. cur = x.row
    BY <2>1 DEF Cur
  <2>3. new(cur) = new(x.row) /\ target <= x.row.amount
    BY <1>7, <2>2
  <2> DEFINE row == new(x.row)
  <2>4. row = [x.row EXCEPT !.reversed = target, !.version = @ + 1,
                            !.state = IF target = x.row.amount THEN end ELSE @]
    OBVIOUS
  <2>5. UpdateRow(t, x.id, TRUE, row, a, a) /\ x.id \in Known(rows, Mine(t))
    BY <1>7, <2>1, <2>3 DEF Known
  <2> HIDE DEF row, a, hit
  <2>6. Alone(t) /\ call'[t] = a /\ Mine(t)' = With(Mine(t), x.id, row)
    BY <1>1, <2>5, UpdateEffect
  <2>7. biz \in {"void", "reverse"}
    OBVIOUS
  <2>8. Swaps(rows, Mine(t), Mine(t)', x, row)
    BY <2>1, <2>6 DEF Swaps
  <2>9. Increments(call[t], call'[t], x.row.agent, Debit(call[t]), TRUE, biz, ReversalId(call[t])[2])
    BY <1>4, <2>6
  <2> HIDE DEF biz
  <2> QED
    BY <1>1, <2>3, <2>4, <2>6, <2>7, <2>8, <2>9 DEF AccumulateStep
<1> QED
  BY <1>5, <1>6, <1>7

-----------------------------------------------------------------------------
(* Risk control, withdrawals and the check.                                *)

LEMMA SetRiskEffect ==
  ASSUME TypeInv, NEW t \in Calls, SetRisk(t)
  PROVE  Alone(t) /\ RiskStep(rows, Mine(t), call[t], Mine(t)', call'[t])
<1> DEFINE id == <<"commission", call[t].req.key>>
<1>1. /\ StoreOK /\ ShapeOK(call[t]) /\ call[t].req.op = "risk"
      /\ Begins(t) /\ DOMAIN Mine(t) = {}
  BY LocalOf DEF SetRisk, Req
<1>2. CASE Answer(t, "refused")
  BY <1>1, <1>2, AnswerEffect DEF RiskStep
<1>3. CASE ~Answer(t, "refused")
  <2>1. /\ id \in DOMAIN rows /\ rows[id].state = call[t].req.from
        /\ Go(t, Opened(t, "risk", <<[id |-> id, row |-> rows[id]]>>))
        /\ UNCHANGED <<engine, rows, dirty>>
    BY <1>3 DEF SetRisk, Req
  <2> QED
    BY <1>1, <2>1, BeginEffect DEF RiskStep
<1> QED
  BY <1>2, <1>3

(* The statement that freezes or unfreezes a commission.                   *)
LEMMA FreezeEffect ==
  ASSUME TypeInv, NEW t \in Calls, TransitionRisk(t)
  PROVE  Alone(t) /\ FreezeStep(rows, Mine(t), call[t], Mine(t)', call'[t])
<1> DEFINE x == call[t].todo[1]
           cur == Cur(rows, Mine(t), x.id)
           hit == cur.state = call[t].req.from /\ cur.version = x.row.version
           new(r) == [r EXCEPT !.state = call[t].req.to, !.version = @ + 1]
           b == Skip(t)
<1>1. /\ StoreOK /\ ShapeOK(call[t]) /\ RowsOK(rows) /\ OwnOK(rows, Mine(t), call[t])
      /\ call[t].pc = "risk" /\ call[t].todo # << >>
      /\ \/ hit /\ UpdateRow(t, x.id, TRUE, new(cur), b, b)
         \/ FailWith(t, "conflict")
  BY LocalOf, CurrentIs DEF TransitionRisk, Head1, Req
<1>2. GoesOn(call[t], b, "risk")
  BY <1>1, SkipIs
<1>3. CopyOK(rows, x)
  BY <1>1, LocalOf, HeadOf DEF Head1, PlaceOK
<1>4. CASE FailWith(t, "conflict")
  BY <1>1, <1>4, FailEffect DEF FreezeStep
<1>5. CASE hit /\ UpdateRow(t, x.id, TRUE, new(cur), b, b)
  <2>1. x.id \notin DOMAIN Mine(t) /\ rows[x.id] = x.row /\ x.id \in DOMAIN rows
    <3>1. cur = Cur(rows, Mine(t), x.id) /\ cur.version = x.row.version
      BY <1>5
    <3> HIDE DEF cur, x
    <3> QED
      BY <1>1, <1>3, <3>1, UncontendedCopy
  <2>2. cur = x.row
    BY <2>1 DEF Cur
  <2> DEFINE row == new(x.row)
  <2>3. /\ UpdateRow(t, x.id, TRUE, row, b, b) /\ x.row.state = call[t].req.from
        /\ x.id \in Known(rows, Mine(t))
    BY <1>5, <2>1, <2>2 DEF Known
  <2>4. row = [x.row EXCEPT !.state = call[t].req.to, !.version = @ + 1]
    OBVIOUS
  <2> DEFINE id == x.id
  <2>5. StoreOK /\ UpdateRow(t, id, TRUE, row, b, b) /\ id \in Known(rows, Mine(t))
    BY <1>1, <2>3
  <2> HIDE DEF row, b, hit, id
  <2>6. Alone(t) /\ call'[t] = b /\ Mine(t)' = With(Mine(t), id, row)
    BY <2>5, UpdateEffect
  <2> QED
    BY <1>1, <1>2, <2>1, <2>3, <2>4, <2>6 DEF FreezeStep, Swaps, id
<1> QED
  BY <1>1, <1>4, <1>5

(* The statement that begins a request to withdraw.                        *)
LEMMA WithdrawEffect ==
  ASSUME TypeInv, NEW t \in Calls, RequestWithdraw(t)
  PROVE  Alone(t) /\ WithdrawStep(rows, Mine(t), call[t], Mine(t)', call'[t])
<1>1. /\ StoreOK /\ ShapeOK(call[t]) /\ call[t].req.op = "withdraw"
      /\ Begins(t) /\ DOMAIN Mine(t) = {}
  BY LocalOf DEF RequestWithdraw, Req
<1>2. CASE Answer(t, "existed")
  BY <1>1, <1>2, AnswerEffect DEF WithdrawStep
<1>3. CASE ~Answer(t, "existed")
  <2>1. /\ Go(t, Opened(t, "reserve", <<[hold |-> call[t].req.key]>>))
        /\ UNCHANGED <<engine, rows, dirty>>
    BY <1>3 DEF RequestWithdraw, Req
  <2> QED
    BY <1>1, <2>1, BeginEffect DEF WithdrawStep
<1> QED
  BY <1>2, <1>3

(* The statement that inserts a withdrawal.                                *)
LEMMA ReserveEffect ==
  ASSUME TypeInv, NEW t \in Calls, AppendWithdrawal(t)
  PROVE  Alone(t) /\ ReserveStep(rows, Mine(t), call[t], Mine(t)', call'[t])
<1> DEFINE c == call[t]
           id == <<"withdrawal", c.req.key>>
           row == NewWithdrawal(c)
           move == MoveDelta("available", "withdrawing", c.req.amount)
           a == Increment(t, c.req.agent, move, TRUE, "withdraw_hold", c.req.key)
           b == call[t]
<1>1. /\ StoreOK /\ ShapeOK(c) /\ c.pc = "reserve" /\ c.todo # << >>
  BY LocalOf DEF AppendWithdrawal
<1>2. CASE Exists(id) /\ ~InsertWaits(t, id)
  <2>1. FailWith(t, IF id \in DOMAIN View(t) THEN "existed" ELSE "notfound")
    BY <1>2 DEF AppendWithdrawal, Req
  <2>2. PICK r \in {"existed", "notfound"} : FailWith(t, r)
    BY <2>1
  <2> QED
    BY <1>1, <2>2, FailEffect DEF ReserveStep
<1>3. CASE ~(Exists(id) /\ ~InsertWaits(t, id))
  <2>1. Insert(t, id, row, a, b) /\ ~Exists(id)
    BY <1>3 DEF AppendWithdrawal, Req, NewWithdrawal, Insert
  <2>2. Increments(c, a, c.req.agent, move, TRUE, "withdraw_hold", c.req.key)
    BY <1>1, IncrementIs
  <2>3. id \notin Known(rows, Mine(t))
    BY <2>1, MineMeans DEF Exists, Known
  <2> HIDE DEF a, b, row, id
  <2>4. Alone(t) /\ Mine(t)' = With(Mine(t), id, row) /\ call'[t] = a
    BY <1>1, <2>1, <2>3, InsertEffect
  <2> QED
    BY <1>1, <2>2, <2>3, <2>4 DEF ReserveStep, id, row
<1> QED
  BY <1>2, <1>3

(* The statement that begins a payout or a rejection.                      *)
LEMMA DecisionEffect ==
  ASSUME TypeInv, NEW t \in Calls, DecideWithdraw(t)
  PROVE  Alone(t) /\ DecisionStep(rows, Mine(t), call[t], Mine(t)', call'[t])
<1> DEFINE c == call[t]
           id == <<"withdrawal", c.req.key>>
           k == rows[id].agent
           move == MoveDelta("withdrawing", DecisionBucket(c), rows[id].amount)
           todo == <<[id |-> id, row |-> rows[id]]>>
           i == Increment(t, k, move, TRUE, DecisionBiz(c), c.req.key)
           e == [Opened(t, "update", todo) EXCEPT !.inc = i.inc]
<1>1. /\ StoreOK /\ ShapeOK(c) /\ c.req.op \in {"payout", "reject"}
      /\ Begins(t) /\ DOMAIN Mine(t) = {}
  BY LocalOf DEF DecideWithdraw, Req
<1>2. CASE Answer(t, "refused")
  BY <1>1, <1>2, AnswerEffect DEF DecisionStep
<1>3. CASE ~Answer(t, "refused")
  <2>1. /\ id \in DOMAIN rows /\ rows[id].state = "reserved"
        /\ Go(t, e) /\ UNCHANGED <<engine, rows, dirty>>
    BY <1>1, <1>3 DEF DecideWithdraw, Req, DecisionBucket, DecisionBiz
  <2>2. Increments(c, i, k, move, TRUE, DecisionBiz(c), c.req.key)
    BY <1>1, IncrementIs
  <2> HIDE DEF i, todo, move, k
  <2>3. /\ ShapeOK(e)
        /\ e.req = c.req /\ e.tries = c.tries /\ e.result = c.result
        /\ e.snap = (IF engine = "mysql" THEN rows ELSE << >>)
        /\ e.pc = "update" /\ e.todo = todo /\ e.inc = i.inc
    BY <1>1, <2>2 DEF Opened, ShapeOK, Fields, Increments, Flows
  <2>4. Asks(e, k, move, TRUE, DecisionBiz(c), c.req.key)
    BY <2>2, <2>3 DEF Increments, Asks
  <2> HIDE DEF e
  <2>5. Alone(t) /\ Mine(t)' = Mine(t) /\ call'[t] = e
    BY <1>1, <2>1, QuietStep
  <2>6. Begun(rows, Mine(t), c, Mine(t)', call'[t])
    BY <1>1, <2>3, <2>5 DEF Begun, Begins
  <2> QED
    BY <1>1, <2>1, <2>3, <2>4, <2>5, <2>6 DEF DecisionStep, todo, move, k
<1> QED
  BY <1>2, <1>3

(* The statement that writes the state of a decided withdrawal.            *)
LEMMA DecideEffect ==
  ASSUME TypeInv, NEW t \in Calls, TransitionWithdrawal(t)
  PROVE  Alone(t) /\ DecideStep(rows, Mine(t), call[t], Mine(t)', call'[t])
<1> DEFINE x == call[t].todo[1]
           cur == Cur(rows, Mine(t), x.id)
           hit == cur.state = "reserved" /\ cur.version = x.row.version
           new(r) == [r EXCEPT !.state = DecisionState(call[t]), !.version = @ + 1]
           a == SkipTo(t, "decided")
           b == call[t]
<1>1. /\ StoreOK /\ ShapeOK(call[t]) /\ RowsOK(rows) /\ OwnOK(rows, Mine(t), call[t])
      /\ call[t].pc = "decide" /\ call[t].todo # << >>
      /\ \/ hit /\ UpdateRow(t, x.id, TRUE, new(cur), a, b)
         \/ FailWith(t, "conflict")
  BY LocalOf, CurrentIs DEF TransitionWithdrawal, Head1, Req, DecisionState, Local, TodoOK
<1>2. GoesOn(call[t], a, "decided")
  BY <1>1, SkipIs
<1>3. CopyOK(rows, x)
  BY <1>1, LocalOf, HeadOf DEF Head1, PlaceOK
<1>4. CASE FailWith(t, "conflict")
  BY <1>1, <1>4, FailEffect DEF DecideStep
<1>5. CASE hit /\ UpdateRow(t, x.id, TRUE, new(cur), a, b)
  <2>1. x.id \notin DOMAIN Mine(t) /\ rows[x.id] = x.row /\ x.id \in DOMAIN rows
    <3>1. cur = Cur(rows, Mine(t), x.id) /\ cur.version = x.row.version
      BY <1>5
    <3> HIDE DEF cur, x
    <3> QED
      BY <1>1, <1>3, <3>1, UncontendedCopy
  <2>2. cur = x.row
    BY <2>1 DEF Cur
  <2> DEFINE row == new(x.row)
  <2>3. /\ UpdateRow(t, x.id, TRUE, row, a, b) /\ x.row.state = "reserved"
        /\ x.id \in Known(rows, Mine(t))
    BY <1>5, <2>1, <2>2 DEF Known
  <2>4. row = [x.row EXCEPT !.state = DecisionState(call[t]), !.version = @ + 1]
    OBVIOUS
  <2> HIDE DEF row, a, b, hit
  <2>5. Alone(t) /\ call'[t] = a /\ Mine(t)' = With(Mine(t), x.id, row)
    <3> DEFINE id == x.id
    <3>1. StoreOK /\ UpdateRow(t, id, TRUE, row, a, b) /\ id \in Known(rows, Mine(t))
      BY <1>1, <2>3
    <3> HIDE DEF id, x, cur, new
    <3>2. /\ Alone(t)
          /\ \/ /\ id \in Known(rows, Mine(t)) /\ TRUE
                /\ Mine(t)' = With(Mine(t), id, row) /\ call'[t] = a
             \/ /\ id \notin Known(rows, Mine(t)) \/ ~TRUE
                /\ Mine(t)' = Mine(t) /\ call'[t] = b
      BY <3>1, UpdateEffect
    <3> QED
      BY <3>1, <3>2 DEF id
  <2> QED
    BY <1>1, <1>2, <2>1, <2>3, <2>4, <2>5 DEF DecideStep, Swaps
<1> QED
  BY <1>1, <1>4, <1>5

(* The statement that begins a self check.                                 *)
LEMMA SelfCheckEffect ==
  ASSUME TypeInv, NEW t \in Calls, SelfCheck(t)
  PROVE  Alone(t) /\ CheckStep(rows, Mine(t), call[t], Mine(t)', call'[t])
<1>1. /\ StoreOK /\ ShapeOK(call[t]) /\ call[t].req.op = "check" /\ Begins(t)
      /\ Go(t, Opened(t, "withdrawals", <<[held |-> Holds(rows)]>>))
      /\ UNCHANGED <<engine, rows, dirty>>
  BY LocalOf DEF SelfCheck, Req, Holds
<1> QED
  BY <1>1, BeginEffect DEF CheckStep

(* The check that reads the open withdrawals.                              *)
LEMMA WithdrawalsEffect ==
  ASSUME TypeInv, NEW t \in Calls, CheckWithdrawals(t)
  PROVE  Alone(t) /\ WithdrawalsStep(rows, Mine(t), call[t], Mine(t)', call'[t])
<1> DEFINE seen == View(t)
           todo == <<[reserved |-> Reserved(seen)]>>
           e == [call[t] EXCEPT !.pc = "ledger", !.todo = todo]
<1>1. /\ StoreOK /\ ShapeOK(call[t]) /\ call[t].pc = "withdrawals" /\ DOMAIN Mine(t) = {}
      /\ Sees(rows, call[t], seen)
  BY LocalOf, ViewIs DEF CheckWithdrawals, Reading
<1> HIDE DEF seen
<1>2. CASE \E id \in RowsOf("withdrawal", seen) : id[2] \notin call[t].todo[1].held
  <2>1. Answer(t, "alarm")
    BY <1>2 DEF CheckWithdrawals, Head1, seen
  <2> QED
    BY <1>1, <1>2, <2>1, AnswerEffect DEF WithdrawalsStep
<1>3. CASE ~(\E id \in RowsOf("withdrawal", seen) : id[2] \notin call[t].todo[1].held)
  <2>1. Go(t, e) /\ UNCHANGED <<engine, rows, dirty>>
    BY <1>3 DEF CheckWithdrawals, Head1, seen, Reserved
  <2> HIDE DEF todo
  <2>2. Flows(call[t], e) /\ e.pc = "ledger" /\ e.todo = todo
    BY <1>1 DEF Flows, ShapeOK, Fields
  <2> HIDE DEF e
  <2>3. Alone(t) /\ Mine(t)' = Mine(t) /\ call'[t] = e
    BY <1>1, <2>1, QuietStep
  <2> QED
    BY <1>1, <2>2, <2>3 DEF WithdrawalsStep, todo
<1> QED
  BY <1>2, <1>3

(* The check that reads the reserved columns.                              *)
LEMMA LedgerEffect ==
  ASSUME TypeInv, NEW t \in Calls, CheckReserved(t)
  PROVE  Alone(t) /\ LedgerStep(rows, Mine(t), call[t], Mine(t)', call'[t])
<1> DEFINE seen == View(t)
<1>1. /\ StoreOK /\ ShapeOK(call[t]) /\ call[t].pc = "ledger" /\ DOMAIN Mine(t) = {}
      /\ Sees(rows, call[t], seen)
  BY LocalOf, ViewIs DEF CheckReserved, Reading
<1>2. \/ Answer(t, "clean")
      \/ /\ Answer(t, "alarm")
         /\ \E k \in Agents :
              /\ <<"account", k>> \in DOMAIN seen
              /\ seen[<<"account", k>>]["withdrawing"] # call[t].todo[1].reserved[k]
  BY DEF CheckReserved, Head1
<1> HIDE DEF seen
<1>3. CASE Answer(t, "clean")
  BY <1>1, <1>3, AnswerEffect DEF LedgerStep
<1>4. CASE Answer(t, "alarm") /\ ~Answer(t, "clean")
  BY <1>1, <1>2, <1>4, AnswerEffect DEF LedgerStep
<1> QED
  BY <1>2, <1>3, <1>4

-----------------------------------------------------------------------------
(* Increments, ledger entries, and the ends of transactions.               *)

LEMMA UpdateAccountEffect ==
  ASSUME TypeInv, NEW t \in Calls, UpdateAccount(t)
  PROVE  Alone(t) /\ UpdateStep(rows, Mine(t), call[t], Mine(t)', call'[t])
<1> DEFINE id == OwnAccount(call[t])
           after == Apply(Cur(rows, Mine(t), id), call[t].inc.delta)
           m == call[t].inc.guard => NegativeBuckets(after) = {}
           a == At(t, "entry")
           b == At(t, "lookup")
<1>1. /\ StoreOK /\ ShapeOK(call[t]) /\ call[t].pc = "update"
      /\ UpdateRow(t, id, m, after, a, b)
  BY LocalOf, CurrentIs DEF UpdateAccount, AccountId, OwnAccount
<1>2. MovesTo(call[t], a, "entry") /\ MovesTo(call[t], b, "lookup")
  BY <1>1, SkipIs DEF MovesTo
<1> HIDE DEF a, b, m, after, id
<1>3. /\ Alone(t)
      /\ \/ /\ id \in Known(rows, Mine(t)) /\ m
            /\ Mine(t)' = With(Mine(t), id, after) /\ call'[t] = a
         \/ /\ id \notin Known(rows, Mine(t)) \/ ~m
            /\ Mine(t)' = Mine(t) /\ call'[t] = b
  BY <1>1, UpdateEffect
<1> QED
  BY <1>1, <1>2, <1>3 DEF UpdateStep, m, after, id

(* The next pass moves the same account by the same delta.                 *)
LEMMA NextPassIs ==
  ASSUME NEW t, ShapeOK(call[t])
  PROVE  Passes(call[t], NextPass(t))
BY DEF ShapeOK, Fields, IncFields, NextPass, Passes, Flows

(* The statement that looks for the account.                               *)
LEMMA LookupEffect ==
  ASSUME TypeInv, NEW t \in Calls, LookupAccount(t)
  PROVE  Alone(t) /\ LookupStep(rows, Mine(t), call[t], Mine(t)', call'[t])
<1> DEFINE c == call[t]
           id == OwnAccount(c)
<1>1. /\ StoreOK /\ ShapeOK(c) /\ c.pc = "lookup"
      /\ DOMAIN View(t) \subseteq Known(rows, Mine(t))
  BY LocalOf, ViewIs DEF LookupAccount
<1>2. IncrementError(t) = "none" /\ UNCHANGED <<engine, rows, dirty>>
  BY DEF LookupAccount
<1>3. /\ ~LooksNegative(t)
      /\ c.inc.second => id \notin DOMAIN View(t)
  BY <1>1, <1>2 DEF IncrementError, AccountId, OwnAccount
<1>4. CASE id \in DOMAIN View(t)
  <2>1. Go(t, NextPass(t)) /\ ~c.inc.second
    BY <1>3, <1>4 DEF LookupAccount, AccountId, OwnAccount
  <2>2. Alone(t) /\ Mine(t)' = Mine(t) /\ call'[t] = NextPass(t)
    BY <1>1, <1>2, <2>1, QuietStep
  <2> QED
    BY <1>1, <1>4, <2>1, <2>2, NextPassIs DEF LookupStep
<1>5. CASE id \notin DOMAIN View(t)
  <2>1. Go(t, At(t, "insert"))
    BY <1>5 DEF LookupAccount, AccountId, OwnAccount
  <2>2. Alone(t) /\ Mine(t)' = Mine(t) /\ call'[t] = At(t, "insert")
    BY <1>1, <1>2, <2>1, QuietStep
  <2>3. c.inc.guard => NegativeBuckets(Apply(EmptyAccount, c.inc.delta)) = {}
    BY <1>3, <1>5 DEF LooksNegative, FoundAccount, AccountId, OwnAccount
  <2> QED
    BY <1>1, <2>2, <2>3, SkipIs DEF LookupStep, MovesTo
<1> QED
  BY <1>4, <1>5

(* The statement that inserts the account.                                 *)
LEMMA InsertAccountEffect ==
  ASSUME TypeInv, NEW t \in Calls, InsertAccount(t)
  PROVE  Alone(t) /\ InsertStep(rows, Mine(t), call[t], Mine(t)', call'[t])
<1> DEFINE c == call[t]
           id == OwnAccount(c)
           row == Apply(EmptyAccount, c.inc.delta)
           a == At(t, "entry")
           b == NextPass(t)
<1>1. /\ StoreOK /\ ShapeOK(c) /\ c.pc = "insert"
      /\ IncrementError(t) = "none" /\ Insert(t, id, row, a, b)
  BY LocalOf DEF InsertAccount, AccountId, OwnAccount
<1>2. MovesTo(c, a, "entry") /\ Passes(c, b)
  BY <1>1, SkipIs, NextPassIs DEF MovesTo
<1>3. id \in Known(rows, Mine(t)) => ~c.inc.second
  <2>1. id \in Known(rows, Mine(t)) => Exists(id)
    BY MineMeans DEF Known
  <2>2. ~InsertWaits(t, id)
    BY <1>1 DEF Insert
  <2> QED
    BY <1>1, <2>1, <2>2 DEF IncrementError, Collides, AccountId, OwnAccount
<1> HIDE DEF a, b, row, id
<1>4. /\ Alone(t)
      /\ \/ /\ id \notin Known(rows, Mine(t))
            /\ Mine(t)' = With(Mine(t), id, row) /\ call'[t] = a
         \/ /\ id \in Known(rows, Mine(t))
            /\ Mine(t)' = Mine(t) /\ call'[t] = b
  BY <1>1, InsertEffect
<1> QED
  BY <1>1, <1>2, <1>3, <1>4 DEF InsertStep, id, row

(* An account that was not updated is read again, or the call is refused.  *)
LEMMA RefusedEffect ==
  ASSUME TypeInv, NEW t \in Calls, Refused(t)
  PROVE  Alone(t) /\ RefusedStep(rows, Mine(t), call[t], Mine(t)', call'[t])
<1> DEFINE c == call[t]
           why == IncrementError(t)
           e == [call[t] EXCEPT !.pc = "update", !.inc.guard = FALSE, !.inc.second = FALSE]
<1>1. StoreOK /\ ShapeOK(c)
  BY LocalOf
<1>2. /\ why \in {"insufficient", "conflict"}
      /\ why = "insufficient" => c.pc = "lookup" /\ c.inc.guard
      /\ why = "conflict" => c.inc.second /\ c.pc \in {"lookup", "insert"}
  BY DEF Refused, IncrementError, LooksNegative
<1>3. \/ /\ why = "insufficient" /\ AllowNegative /\ c.req.op \in {"refunded", "void"}
         /\ ReversalBucket(c.todo[1].row.state) = "available"
         /\ Go(t, e) /\ UNCHANGED <<engine, rows, dirty>>
      \/ /\ why = "conflict" /\ c.req.op = "maintain"
         /\ Go(t, SkipTo(t, "settle")) /\ UNCHANGED <<engine, rows, dirty>>
      \/ FailWith(t, why)
  BY DEF Refused, Req, Head1
<1> HIDE DEF why
<1>4. CASE FailWith(t, why)
  BY <1>1, <1>2, <1>4, FailEffect DEF RefusedStep
<1>5. CASE /\ why = "insufficient" /\ AllowNegative /\ c.req.op \in {"refunded", "void"}
           /\ ReversalBucket(c.todo[1].row.state) = "available"
           /\ Go(t, e) /\ UNCHANGED <<engine, rows, dirty>>
  <2>1. Increments(c, e, c.inc.key, c.inc.delta, FALSE, c.inc.biz, c.inc.ref)
    BY <1>1 DEF ShapeOK, Fields, IncFields, Increments, Flows, Asks
  <2> HIDE DEF e
  <2>2. Alone(t) /\ Mine(t)' = Mine(t) /\ call'[t] = e
    BY <1>1, <1>5, QuietStep
  <2> QED
    BY <1>2, <1>5, <2>1, <2>2 DEF RefusedStep
<1>6. CASE /\ why = "conflict" /\ c.req.op = "maintain"
           /\ Go(t, SkipTo(t, "settle")) /\ UNCHANGED <<engine, rows, dirty>>
  <2>1. Alone(t) /\ Mine(t)' = Mine(t) /\ call'[t] = SkipTo(t, "settle")
    BY <1>1, <1>6, QuietStep
  <2> QED
    BY <1>1, <1>2, <1>6, <2>1, SkipIs DEF RefusedStep
<1> QED
  BY <1>3, <1>4, <1>5, <1>6

(* A generated id is greater than every other one.                         *)
LEMMA NextLedgerIdIs ==
  ASSUME TypeInv
  PROVE  /\ NextLedgerId \in Nat \ {0}
         /\ \A id \in DOMAIN rows \cup DOMAIN dirty : id[1] = "ledger" => id[2] < NextLedgerId
<1> DEFINE L == RowsOf("ledger", rows) \cup RowsOf("ledger", dirty)
           ids == {id[2] : id \in L}
           g == [id \in L |-> id[2]]
<1>1. StoreOK /\ RowsOK(rows) /\ \A t \in Calls : RowsOK(Mine(t))
  BY DEF TypeInv, StoreOK, Local, OwnOK
<1>2. \A id \in DOMAIN rows : id[1] = "ledger" => id[2] \in Nat \ {0}
  BY <1>1 DEF RowsOK, RowOK
<1>3. ASSUME NEW id \in DOMAIN dirty, id[1] = "ledger" PROVE id[2] \in Nat \ {0}
  <2>1. dirty[id].by \in Calls /\ id \in DOMAIN Mine(dirty[id].by)
    BY <1>1 DEF StoreOK, Owned, Mine, OwnRows
  <2> QED
    BY <1>1, <1>3, <2>1 DEF RowsOK, RowOK
<1>4. L \subseteq DOMAIN rows \cup DOMAIN dirty /\ \A id \in L : id[2] \in Nat \ {0}
  BY <1>2, <1>3 DEF RowsOf
<1>5. IsFiniteSet(L)
  <2>1. IsFiniteSet(DOMAIN rows \cup DOMAIN dirty)
    BY <1>1, FS_Union DEF StoreOK
  <2> QED
    BY <1>4, <2>1, FS_Subset
<1>6. ids \subseteq Nat \ {0} /\ \A y \in ids : \E x \in L : y = g[x]
  BY <1>4
<1>7. IsFiniteSet(ids)
  <2> HIDE DEF L, ids, g
  <2> QED
    BY <1>5, <1>6, FiniteImage
<1>8. \A id \in DOMAIN rows \cup DOMAIN dirty : id[1] = "ledger" => id[2] \in ids
  BY DEF RowsOf
<1>9. NextLedgerId = IF ids = {} THEN 1 ELSE Max(ids) + 1
  BY DEF NextLedgerId
<1> HIDE DEF ids
<1>10. ids # {} => Max(ids) \in Nat \ {0} /\ \A y \in ids : Max(ids) >= y
  <2>1. ids \subseteq Int
    BY <1>6
  <2>2. ids # {} => Max(ids) \in ids /\ \A y \in ids : Max(ids) >= y
    BY <1>7, <2>1, MaxIn
  <2> QED
    BY <1>6, <2>2
<1> QED
  BY <1>6, <1>8, <1>9, <1>10

(* The statement that inserts the ledger entry of a move.                  *)
LEMMA BookedEffect ==
  ASSUME TypeInv, NEW t \in Calls, Booked(t)
  PROVE  Alone(t) /\ EntryStep(rows, Mine(t), call[t], Mine(t)', call'[t])
<1> DEFINE c == call[t]
           n == NextLedgerId
           id == <<"ledger", n>>
           row == NewEntry(Mine(t), c)
           b == IF LoopFor(c) = "decide" THEN At(t, "decide") ELSE SkipTo(t, LoopFor(c))
           a == [b EXCEPT !.inc = NoInc]
<1>1. /\ StoreOK /\ ShapeOK(c) /\ c.pc = "entry" /\ IncOK(Mine(t), c)
  BY LocalOf DEF Booked, AppendLedger, Local
<1>2. Cur(rows, Mine(t), OwnAccount(c)) = Mine(t)[OwnAccount(c)]
  BY <1>1 DEF IncOK, Cur, OwnAccount
<1>3. LoopOf(t) = LoopFor(c)
  BY DEF LoopOf, LoopFor, Req
<1>4. Insert(t, id, row, a, b)
  BY <1>2, <1>3, CurrentIs
     DEF Booked, AppendLedger, NewEntry, NewLedgerEntry, AccountId, OwnAccount
<1>5. /\ Flows(c, b) /\ b.pc = LoopFor(c)
      /\ b.todo = IF LoopFor(c) = "decide" THEN c.todo ELSE Tail(c.todo)
  BY <1>1, SkipIs DEF GoesOn
<1> HIDE DEF b
<1>6. /\ Flows(c, a) /\ a.pc = LoopFor(c)
      /\ a.todo = IF LoopFor(c) = "decide" THEN c.todo ELSE Tail(c.todo)
  BY <1>5 DEF Flows, ShapeOK, Fields, NoInc, IncFields
<1>7. /\ n \in Nat \ {0}
      /\ \A x \in Known(rows, Mine(t)) : x[1] = "ledger" => x[2] < n
  BY NextLedgerIdIs, MineMeans DEF Known
<1>8. id \notin Known(rows, Mine(t))
  <2> SUFFICES ASSUME id \in Known(rows, Mine(t)) PROVE FALSE
    OBVIOUS
  <2>1. id[1] = "ledger" /\ id[2] = n
    OBVIOUS
  <2>2. n < n
    BY <1>7, <2>1
  <2> QED
    BY <1>7, <2>2
<1> HIDE DEF a, id, row, n
<1>9. Alone(t) /\ Mine(t)' = With(Mine(t), id, row) /\ call'[t] = a
  BY <1>1, <1>4, <1>8, InsertEffect
<1> QED
  BY <1>1, <1>6, <1>7, <1>9 DEF EntryStep, id, row

(* A call that met a conflict starts again or gives up.                    *)
LEMMA RetryEffect ==
  ASSUME TypeInv, NEW t \in Calls, Retry(t)
  PROVE  Alone(t) /\ RetryStep(rows, Mine(t), call[t], Mine(t)', call'[t])
<1> DEFINE c == RunAgain(t)
<1>1. /\ StoreOK /\ ShapeOK(call[t]) /\ call[t].tries \in 0 .. MaxRetries
      /\ call[t].pc \notin Idle
  BY LocalOf DEF Local, RequestOK, Retry, Open, Idle
<1>2. Alone(t) /\ DOMAIN Mine(t)' = {} /\ call'[t] = c
  BY <1>1, DropEffect DEF Retry
<1>3. /\ ShapeOK(c) /\ c.req = call[t].req /\ c.tries \in 0 .. MaxRetries
      /\ c.result \in {"none", "exhausted"}
      /\ c.pc \in {"again", "done"} /\ c.snap = << >> /\ c.todo = << >>
  <2>1. MaxRetries \in Nat
    BY SqlAssumption
  <2> QED
    BY <1>1, <2>1 DEF RunAgain, Return, Closed, ShapeOK, Fields, IncFields, NoInc
<1> QED
  BY <1>1, <1>2, <1>3 DEF RetryStep

(* The rows after a commit.                                                *)
LEMMA CommitEffect ==
  ASSUME TypeInv, NEW t \in Calls, Commit(t)
  PROVE  /\ engine' = engine /\ rows' = Over(rows, Mine(t))
         /\ DOMAIN call' = Calls /\ \A u \in Calls \ {t} : call'[u] = call[u]
         /\ \A u : u # t => Mine(u)' = Mine(u)
         /\ Owned' /\ IsFiniteSet(DOMAIN dirty') /\ IsFiniteSet(DOMAIN rows')
         /\ CommitStep(rows, Mine(t), call[t], Mine(t)', call'[t])
         /\ \A u \in Calls \ {t} : DOMAIN Mine(u) \cap DOMAIN Mine(t) = {}
<1>1. /\ StoreOK /\ ShapeOK(call[t]) /\ engine' = engine
      /\ dirty' = Others(t) /\ Go(t, Return(t, "ok"))
      /\ call[t].pc \in Loops /\ call[t].todo = << >>
  BY LocalOf DEF Commit
<1>2. /\ DOMAIN Mine(t)' = {}
      /\ \A u : u # t => Mine(u)' = Mine(u)
      /\ DOMAIN dirty' \subseteq DOMAIN dirty
      /\ Owned'
  BY <1>1, DropMine DEF StoreOK
<1>3. rows' = Over(rows, Mine(t))
  BY DEF Commit, Over, Cur, Mine
<1>4. /\ DOMAIN call' = Calls /\ call'[t] = Return(t, "ok")
      /\ \A u \in Calls \ {t} : call'[u] = call[u]
  BY <1>1 DEF StoreOK, Go
<1>5. IsFiniteSet(DOMAIN dirty') /\ IsFiniteSet(DOMAIN rows')
  <2>1. IsFiniteSet(DOMAIN rows \cup DOMAIN dirty)
    BY <1>1, FS_Union DEF StoreOK
  <2>2. DOMAIN rows' \subseteq DOMAIN rows \cup DOMAIN dirty
    BY <1>3, MineMeans DEF Over
  <2> QED
    BY <1>1, <1>2, <2>1, <2>2, FS_Subset DEF StoreOK
<1>6. CommitStep(rows, Mine(t), call[t], Mine(t)', call'[t])
  BY <1>1, <1>2, <1>4, ReturnIs DEF CommitStep, Ended
<1>7. \A u \in Calls \ {t} : DOMAIN Mine(u) \cap DOMAIN Mine(t) = {}
  BY DEF Mine, OwnRows
<1> QED
  BY <1>1, <1>2, <1>3, <1>4, <1>5, <1>6, <1>7

-----------------------------------------------------------------------------
(***************************************************************************)
(* What is known of a call stays true when it takes a step                 *)
(***************************************************************************)

(* A statement of a transaction, other than its commit.                    *)
Effect(R, D, c, D2, c2) ==
  \/ PaidStep(R, D, c, D2, c2) \/ AccrueStep(R, D, c, D2, c2)
  \/ ReceivedStep(R, D, c, D2, c2) \/ DateStep(R, D, c, D2, c2)
  \/ MaintainStep(R, D, c, D2, c2) \/ SettleStep(R, D, c, D2, c2)
  \/ RefundedStep(R, D, c, D2, c2) \/ VouchersStep(R, D, c, D2, c2)
  \/ VoucherStep(R, D, c, D2, c2) \/ VoidStep(R, D, c, D2, c2)
  \/ ClawStep(R, D, c, D2, c2) \/ AccumulateStep(R, D, c, D2, c2)
  \/ RiskStep(R, D, c, D2, c2) \/ FreezeStep(R, D, c, D2, c2)
  \/ WithdrawStep(R, D, c, D2, c2) \/ ReserveStep(R, D, c, D2, c2)
  \/ DecisionStep(R, D, c, D2, c2) \/ DecideStep(R, D, c, D2, c2)
  \/ CheckStep(R, D, c, D2, c2) \/ WithdrawalsStep(R, D, c, D2, c2)
  \/ LedgerStep(R, D, c, D2, c2)
  \/ UpdateStep(R, D, c, D2, c2) \/ LookupStep(R, D, c, D2, c2)
  \/ InsertStep(R, D, c, D2, c2) \/ RefusedStep(R, D, c, D2, c2)
  \/ EntryStep(R, D, c, D2, c2) \/ RetryStep(R, D, c, D2, c2)

(* Whatever a call does inside its transaction is one of these.            *)
LEMMA StepEffect ==
  ASSUME TypeInv, NEW t \in Calls, Statement(t) \/ Retry(t)
  PROVE  Commit(t) \/ (Alone(t) /\ Effect(rows, Mine(t), call[t], Mine(t)', call'[t]))
<1> DEFINE D2 == Mine(t)'
           c2 == call'[t]
           goal == Commit(t) \/ (Alone(t) /\ Effect(rows, Mine(t), call[t], D2, c2))
<1> SUFFICES goal
  OBVIOUS
<1>1. CASE OnOrderPaid(t)
  BY <1>1, OnOrderPaidEffect DEF Effect
<1>2. CASE AccrueBase(t)
  BY <1>2, AccrueBaseEffect DEF Effect
<1>3. CASE OnOrderReceived(t)
  BY <1>3, OnOrderReceivedEffect DEF Effect
<1>4. CASE SetCommissionAvailableAt(t)
  BY <1>4, DateEffect DEF Effect
<1>5. CASE MaintainTenant(t)
  BY <1>5, MaintainEffect DEF Effect
<1>6. CASE SettleOne(t)
  BY <1>6, SettleEffect DEF Effect
<1>7. CASE OnOrderRefunded(t)
  BY <1>7, OnOrderRefundedEffect DEF Effect
<1>8. CASE CumulativeRefunds(t)
  BY <1>8, VouchersEffect DEF Effect
<1>9. CASE AppendRefund(t)
  BY <1>9, VoucherEffect DEF Effect
<1>10. CASE VoidCommission(t)
  BY <1>10, VoidEffect DEF Effect
<1>11. CASE ClawBack(t)
  BY <1>11, ClawEffect DEF Effect
<1>12. CASE SetCommissionReversedAmount(t)
  BY <1>12, AccumulateEffect DEF Effect
<1>13. CASE SetRisk(t)
  BY <1>13, SetRiskEffect DEF Effect
<1>14. CASE TransitionRisk(t)
  BY <1>14, FreezeEffect DEF Effect
<1>15. CASE RequestWithdraw(t)
  BY <1>15, WithdrawEffect DEF Effect
<1>16. CASE AppendWithdrawal(t)
  BY <1>16, ReserveEffect DEF Effect
<1>17. CASE DecideWithdraw(t)
  BY <1>17, DecisionEffect DEF Effect
<1>18. CASE TransitionWithdrawal(t)
  BY <1>18, DecideEffect DEF Effect
<1>19. CASE SelfCheck(t)
  BY <1>19, SelfCheckEffect DEF Effect
<1>20. CASE CheckWithdrawals(t)
  BY <1>20, WithdrawalsEffect DEF Effect
<1>21. CASE CheckReserved(t)
  BY <1>21, LedgerEffect DEF Effect
<1>22. CASE UpdateAccount(t)
  BY <1>22, UpdateAccountEffect DEF Effect
<1>23. CASE LookupAccount(t)
  BY <1>23, LookupEffect DEF Effect
<1>24. CASE InsertAccount(t)
  BY <1>24, InsertAccountEffect DEF Effect
<1>25. CASE Refused(t)
  BY <1>25, RefusedEffect DEF Effect
<1>26. CASE Booked(t)
  BY <1>26, BookedEffect DEF Effect
<1>27. CASE Retry(t)
  BY <1>27, RetryEffect DEF Effect
<1> HIDE DEF goal
<1>28. CASE Commit(t)
  BY <1>28 DEF goal
<1> QED
  BY <1>1, <1>2, <1>3, <1>4, <1>5, <1>6, <1>7, <1>8, <1>9, <1>10, <1>11, <1>12, <1>13,
     <1>14, <1>15, <1>16, <1>17, <1>18, <1>19, <1>20, <1>21, <1>22, <1>23, <1>24, <1>25,
     <1>26, <1>27, <1>28
     DEF Statement

-----------------------------------------------------------------------------
(* The parts of Local.                                                     *)

LEMMA EndedKeeps ==
  ASSUME NEW R, NEW D, NEW c, NEW D2, NEW c2, NEW r, Local(R, D, c), Ended(D2, c, c2, r)
  PROVE  Local(R, D2, c2)
<1>1. IsList(c2.todo) /\ Range(c2.todo) = {}
  BY ShortLists DEF Ended
<1>2. TodoOK(R, c2)
  BY <1>1 DEF TodoOK, Ended, Booking
<1>3. IncOK(D2, c2) /\ SumOK(c2)
  BY DEF IncOK, SumOK, Ended, Booking, Idle
<1>4. SnapOK(R, c2)
  BY DEF SnapOK, Ended, RowsOK, Grows
<1>5. OwnOK(R, D2, c2)
  BY DEF OwnOK, Ended, RowsOK
<1>6. PlaceOK(c2) /\ RequestOK(c2)
  BY DEF PlaceOK, RequestOK, Local, Ended, Idle, Booking
<1> QED
  BY <1>2, <1>3, <1>4, <1>5, <1>6 DEF Local, Ended

(* A call that has just begun is in order.                                 *)
LEMMA BegunKeeps ==
  ASSUME NEW R, NEW D, NEW c, NEW D2, NEW c2, RowsOK(R), Local(R, D, c),
         Begun(R, D, c, D2, c2), c2.pc \notin {"vouchers"} => c2.req.op # "refunded",
         PlaceOK(c2), TodoOK(R, c2), IncOK(D2, c2)
  PROVE  Local(R, D2, c2)
<1>1. SnapOK(R, c2)
  <2>1. CASE c2.snap = R
    BY <2>1, GrowsReflexive DEF SnapOK
  <2>2. CASE c2.snap = << >>
    BY <2>2 DEF SnapOK, RowsOK, Grows
  <2> QED
    BY <2>1, <2>2 DEF Begun
<1>2. DOMAIN D2 = {} /\ OwnOK(R, D2, c2)
  BY DEF Local, OwnOK, Begun, Idle
<1>3. RequestOK(c2) /\ SumOK(c2)
  BY DEF RequestOK, SumOK, Local, Begun
<1> QED
  BY <1>1, <1>2, <1>3 DEF Local, Begun

(* A call that goes on is in order when its place, its list, its move and  *)
(* its writes are.                                                         *)
LEMMA FlowKeeps ==
  ASSUME NEW R, NEW D, NEW c, NEW D2, NEW c2, Local(R, D, c), Flows(c, c2),
         c.pc \notin Idle \cup {"vouchers"},
         PlaceOK(c2), TodoOK(R, c2), IncOK(D2, c2), OwnOK(R, D2, c2)
  PROVE  Local(R, D2, c2)
BY DEF Local, Flows, RequestOK, SumOK, SnapOK

(* The uncommitted rows of a call.                                         *)
LEMMA OwnKept ==
  ASSUME NEW R, NEW D, NEW c, NEW c2, OwnOK(R, D, c),
         c2.pc \notin Idle \cup Reading \/ c.pc \in Idle \cup Reading
  PROVE  OwnOK(R, D, c2)
BY DEF OwnOK

(* An inserted row keeps the writes of a call in order.                    *)
LEMMA OwnInserted ==
  ASSUME NEW R, NEW D, NEW c, NEW c2, NEW id, NEW row, OwnOK(R, D, c),
         c2.pc \notin Idle \cup Reading, RowOK(id, row), id \notin DOMAIN R
  PROVE  OwnOK(R, With(D, id, row), c2)
<1> DEFINE E == With(D, id, row)
<1>1. DOMAIN E = DOMAIN D \cup {id} /\ E[id] = row /\ \A x \in DOMAIN D \ {id} : E[x] = D[x]
  BY DEF With
<1> HIDE DEF E
<1>2. RowsOK(E)
  BY <1>1 DEF OwnOK, RowsOK
<1> QED
  BY <1>1, <1>2 DEF OwnOK, E

(* A written account keeps the writes of a call in order.                  *)
LEMMA OwnAccountKept ==
  ASSUME NEW R, NEW D, NEW c, NEW c2, NEW k \in Agents, NEW row \in Account, OwnOK(R, D, c),
         c2.pc \notin Idle \cup Reading
  PROVE  OwnOK(R, With(D, <<"account", k>>, row), c2)
<1> DEFINE id == <<"account", k>>
           E == With(D, id, row)
<1>1. DOMAIN E = DOMAIN D \cup {id} /\ E[id] = row /\ \A x \in DOMAIN D \ {id} : E[x] = D[x]
  BY DEF With
<1>2. id[1] = "account" /\ ~IsVersioned(id) /\ RowOK(id, row)
  BY AccountRow DEF IsVersioned, IsAccrual
<1> HIDE DEF E, id
<1>3. RowsOK(E)
  BY <1>1, <1>2 DEF OwnOK, RowsOK
<1> QED
  BY <1>1, <1>2, <1>3 DEF OwnOK, E, id

(* A row written back with the next version keeps the writes of a call in  *)
(* order.                                                                  *)
LEMMA OwnSwapped ==
  ASSUME NEW R, NEW D, NEW c, NEW c2, NEW D2, NEW x, NEW row, OwnOK(R, D, c),
         c2.pc \notin Idle \cup Reading, Swaps(R, D, D2, x, row), CopyOK(R, x),
         RowOK(x.id, row), row.agent = x.row.agent, row.amount = x.row.amount,
         row.version = x.row.version + 1
  PROVE  OwnOK(R, D2, c2)
<1>1. /\ DOMAIN D2 = DOMAIN D \cup {x.id} /\ D2[x.id] = row
      /\ \A y \in DOMAIN D \ {x.id} : D2[y] = D[y]
      /\ R[x.id] = x.row
  BY DEF With, Swaps
<1>2. IsVersioned(x.id) /\ x.row.version \in Int
  BY VersionIsInt DEF CopyOK
<1>3. Succeeds(R[x.id], D2[x.id]) /\ R[x.id].version < D2[x.id].version
  BY <1>1, <1>2 DEF Succeeds
<1>4. RowsOK(D2)
  BY <1>1 DEF OwnOK, RowsOK
<1> QED
  BY <1>1, <1>2, <1>3, <1>4 DEF OwnOK

(* The rows a call has left to do.                                         *)
LEMMA TodoSame ==
  ASSUME NEW R, NEW c, NEW c2, TodoOK(R, c), c2.req = c.req, c2.todo = c.todo,
         c.todo # << >> \/ c2.pc \notin Booking \cup {"accumulate", "decide"}
  PROVE  TodoOK(R, c2)
BY DEF TodoOK

(* The rest of a list is one.                                              *)
LEMMA TodoTail ==
  ASSUME NEW R, NEW c, NEW c2, TodoOK(R, c), c2.req = c.req, c2.todo = Tail(c.todo),
         c.todo # << >>, c2.pc \notin Booking \cup {"accumulate", "decide"}
  PROVE  TodoOK(R, c2)
<1>1. IsList(c.todo)
  BY DEF TodoOK
<1>2. IsList(c2.todo) /\ Range(c2.todo) \subseteq Range(c.todo)
  BY <1>1, ListTail
<1> QED
  BY <1>2 DEF TodoOK

(* A row just read is a copy.                                              *)
LEMMA CopyIs ==
  ASSUME NEW R, RowsOK(R), NEW id \in DOMAIN R, IsVersioned(id)
  PROVE  CopyOK(R, [id |-> id, row |-> R[id]])
<1>1. RowOK(id, R[id])
  BY DEF RowsOK
<1>2. R[id].version \in Int
  BY <1>1, VersionIsInt
<1> QED
  BY <1>1, <1>2 DEF CopyOK, Succeeds

(* What a query reads is a list of copies.                                 *)
LEMMA TodoQuery ==
  ASSUME NEW R, RowsOK(R), NEW c2, NEW S, S \subseteq DOMAIN R, \A id \in S : IsAccrual(id),
         IsList(c2.todo), Range(c2.todo) \subseteq Copies(S, R),
         c2.req.op \in {"received", "maintain", "refunded", "void", "risk"},
         c2.todo # << >> \/ c2.pc \notin Booking \cup {"accumulate", "decide"}
  PROVE  TodoOK(R, c2)
<1>1. ASSUME NEW x \in Range(c2.todo) PROVE CopyOK(R, x) /\ IsAccrual(x.id)
  <2>1. PICK id \in S : x = [id |-> id, row |-> R[id]]
    BY <1>1 DEF Copies
  <2> QED
    BY <2>1, CopyIs DEF IsVersioned
<1> QED
  BY <1>1 DEF TodoOK

(* A query returns a list of copies.                                       *)
LEMMA CopiesFinite ==
  ASSUME NEW R, IsFiniteSet(DOMAIN R), NEW S, S \subseteq DOMAIN R
  PROVE  IsFiniteSet(Copies(S, R))
<1> DEFINE g == [id \in S |-> [id |-> id, row |-> R[id]]]
           T == Copies(S, R)
<1>1. IsFiniteSet(S)
  BY FS_Subset
<1>2. \A y \in T : \E id \in S : y = g[id]
  BY DEF Copies
<1> HIDE DEF T, g
<1>3. IsFiniteSet(T)
  BY <1>1, <1>2, FiniteImage
<1> QED
  BY <1>3 DEF T

(* The list of a call that begins: the copies of a query.                  *)
LEMMA BegunWithCopies ==
  ASSUME NEW R, NEW D, NEW c, NEW D2, NEW c2, RowsOK(R), IsFiniteSet(DOMAIN R), Local(R, D, c),
         Begun(R, D, c, D2, c2), NEW S, S \subseteq DOMAIN R, \A id \in S : IsAccrual(id),
         c2.todo \in SetToSeqs(Copies(S, R)),
         \/ c2.pc = "date" /\ c.req.op = "received"
         \/ c2.pc = "settle" /\ c.req.op = "maintain"
         \/ c2.pc = "vouchers" /\ c.req.op = "refunded"
  PROVE  Local(R, D2, c2)
<1>1. IsFiniteSet(Copies(S, R))
  BY CopiesFinite
<1>2. IsList(c2.todo) /\ Range(c2.todo) \subseteq Copies(S, R)
  BY <1>1, QueryList
<1>3. c2.req = c.req /\ D2 = D
  BY DEF Begun
<1>4. TodoOK(R, c2)
  BY <1>2, <1>3, TodoQuery DEF Booking
<1>5. PlaceOK(c2) /\ IncOK(D2, c2)
  BY <1>3 DEF PlaceOK, IncOK, Idle, Loops, Booking, Reading
<1> QED
  BY <1>3, <1>4, <1>5, BegunKeeps

(* A call that has just read one commission is in order.                   *)
LEMMA BegunWithOne ==
  ASSUME NEW R, NEW D, NEW c, NEW D2, NEW c2, RowsOK(R), Local(R, D, c),
         Begun(R, D, c, D2, c2), NEW id \in DOMAIN R, id[1] = "commission",
         R[id].state \in {"pending", "frozen"},
         c2.todo = <<[id |-> id, row |-> R[id]]>>,
         \/ c2.pc = "claw" /\ c.req.op = "void"
         \/ c2.pc = "risk" /\ c.req.op = "risk"
  PROVE  Local(R, D2, c2)
<1>1. IsAccrual(id)
  BY AccrualFound
<1> DEFINE x == [id |-> id, row |-> R[id]]
<1>2. IsList(<<x>>) /\ Range(<<x>>) = {x} /\ <<x>> # << >>
  BY ShortLists
<1>3. c2.req = c.req /\ D2 = D
  BY DEF Begun
<1>4. Copies({id}, R) = {x}
  BY DEF Copies
<1>5. c2.todo = <<x>>
  OBVIOUS
<1> HIDE DEF x
<1> DEFINE S == {id}
<1>6. /\ IsList(c2.todo) /\ Range(c2.todo) \subseteq Copies(S, R) /\ c2.todo # << >>
      /\ S \subseteq DOMAIN R /\ \A y \in S : IsAccrual(y)
  BY <1>1, <1>2, <1>4, <1>5
<1> HIDE DEF S
<1>7. TodoOK(R, c2)
  BY <1>3, <1>6, TodoQuery
<1>8. PlaceOK(c2) /\ IncOK(D2, c2)
  BY <1>3 DEF PlaceOK, IncOK, Idle, Loops, Booking, Reading
<1> QED
  BY <1>3, <1>7, <1>8, BegunKeeps

(* A row that is written back with its version raised.                     *)
LEMMA AccrualDated ==
  ASSUME NEW id, NEW r, AccrualOK(id, r)
  PROVE  LET row == [r EXCEPT !.dated = TRUE, !.version = @ + 1]
         IN  /\ RowOK(id, row) /\ row.agent = r.agent /\ row.amount = r.amount
             /\ row.version = r.version + 1
<1>1. r \in AccrualRow
  BY DEF AccrualOK
<1> DEFINE n == r.version + 1
           row == [r EXCEPT !.dated = TRUE, !.version = n]
<1>2. n \in Nat \ {0}
  BY <1>1 DEF AccrualRow
<1> HIDE DEF n
<1>3. /\ row \in AccrualRow /\ row.agent = r.agent /\ row.amount = r.amount
      /\ row.version = n /\ row.reversed = r.reversed
  BY <1>1, <1>2 DEF AccrualRow
<1> HIDE DEF row
<1>4. RowOK(id, row)
  BY <1>3, AccrualRowOK DEF AccrualOK
<1> QED
  BY <1>3, <1>4 DEF row, n

(* An accrual in another state and the next version is a row.              *)
LEMMA AccrualMoved ==
  ASSUME NEW id, NEW r, AccrualOK(id, r), NEW state \in RowStates
  PROVE  LET row == [r EXCEPT !.state = state, !.version = @ + 1]
         IN  /\ RowOK(id, row) /\ row.agent = r.agent /\ row.amount = r.amount
             /\ row.version = r.version + 1
<1>1. r \in AccrualRow
  BY DEF AccrualOK
<1> DEFINE n == r.version + 1
           row == [r EXCEPT !.state = state, !.version = n]
<1>2. n \in Nat \ {0}
  BY <1>1 DEF AccrualRow
<1> HIDE DEF n
<1>3. /\ row \in AccrualRow /\ row.agent = r.agent /\ row.amount = r.amount
      /\ row.version = n /\ row.reversed = r.reversed
  BY <1>1, <1>2 DEF AccrualRow
<1> HIDE DEF row
<1>4. RowOK(id, row)
  BY <1>3, AccrualRowOK DEF AccrualOK
<1> QED
  BY <1>3, <1>4 DEF row, n

(* A withdrawal in another state and the next version is a row.            *)
LEMMA WithdrawalMoved ==
  ASSUME NEW key, NEW r \in WithdrawalRow, NEW state \in {"reserved", "paid", "rejected"}
  PROVE  LET row == [r EXCEPT !.state = state, !.version = @ + 1]
         IN  /\ RowOK(<<"withdrawal", key>>, row)
             /\ row.agent = r.agent /\ row.amount = r.amount
             /\ row.version = r.version + 1
<1> DEFINE n == r.version + 1
           row == [r EXCEPT !.state = state, !.version = n]
<1>2. n \in Nat \ {0}
  BY DEF WithdrawalRow
<1> HIDE DEF n
<1>3. /\ row \in WithdrawalRow /\ row.agent = r.agent /\ row.amount = r.amount
      /\ row.version = n
  BY <1>2 DEF WithdrawalRow
<1> HIDE DEF row
<1>4. RowOK(<<"withdrawal", key>>, row)
  BY <1>3, WithdrawalRowOK
<1> QED
  BY <1>3, <1>4 DEF row, n

-----------------------------------------------------------------------------
(* One lemma per statement.                                                *)

LEMMA PaidLocal ==
  ASSUME NEW R, NEW D, NEW c, NEW D2, NEW c2, RowsOK(R), Local(R, D, c),
         PaidStep(R, D, c, D2, c2)
  PROVE  Local(R, D2, c2)
<1>1. CASE Ended(D2, c, c2, "replayed")
  BY <1>1, EndedKeeps
<1>2. CASE ~Ended(D2, c, c2, "replayed")
  <2> DEFINE p == Plan[c.req.order]
  <2>1. /\ Begun(R, D, c, D2, c2) /\ c2.pc = "accrue" /\ c.req.op = "paid"
        /\ c2.todo = [i \in DOMAIN p |->
                        [layer |-> i, agent |-> p[i].agent, amount |-> p[i].amount]]
    BY <1>2 DEF PaidStep
  <2>2. c2.req = c.req /\ D2 = D /\ c.req.order \in Orders
    BY <2>1 DEF Begun, Local, RequestOK, WellFormed
  <2>3. p \in Seq([agent : Agents, amount : Nat \ {0}])
    BY <2>2, SqlLedgerAssumption
  <2> HIDE DEF p
  <2>4. Len(p) \in Nat /\ DOMAIN p = 1 .. Len(p)
    BY <2>3
  <2>5. ASSUME NEW i \in 1 .. Len(p)
        PROVE  i \in Nat /\ p[i].agent \in Agents /\ p[i].amount \in Nat \ {0}
    <3> DEFINE S == [agent : Agents, amount : Nat \ {0}]
    <3>1. p \in Seq(S)
      BY <2>3
    <3> HIDE DEF S
    <3>2. p[i] \in S
      BY <3>1
    <3> QED
      BY <2>4, <3>2 DEF S
  <2>6. c2.todo \in [1 .. Len(p) -> LayerItem]
    BY <2>1, <2>4, <2>5 DEF LayerItem
  <2>7. IsList(c2.todo) /\ Range(c2.todo) \subseteq LayerItem
    BY <2>4, <2>6, ListIntro
  <2>8. TodoOK(R, c2)
    BY <2>1, <2>2, <2>7 DEF TodoOK, Booking
  <2>9. PlaceOK(c2) /\ IncOK(D2, c2)
    BY <2>1, <2>2 DEF PlaceOK, IncOK, Idle, Loops, Booking, Reading
  <2> QED
    BY <2>1, <2>2, <2>8, <2>9, BegunKeeps
<1> QED
  BY <1>1, <1>2

(* An increment that has been asked for.                                   *)
LEMMA IncrementsKeeps ==
  ASSUME NEW R, NEW D, NEW c, NEW D2, NEW c2, Local(R, D, c), c.todo # << >>,
         c.pc \notin Idle \cup Reading, OwnOK(R, D2, c2),
         NEW key \in Agents, NEW delta \in Delta, NEW guard \in BOOLEAN, NEW biz, NEW ref,
         Increments(c, c2, key, delta, guard, biz, ref),
         c.req.op \in {"paid", "maintain", "refunded", "void", "withdraw", "payout", "reject"}
  PROVE  Local(R, D2, c2)
<1>1. /\ c2.req = c.req /\ c2.pc = "update" /\ c2.todo = c.todo /\ Flows(c, c2)
      /\ c2.inc.key = key /\ c2.inc.delta = delta /\ c2.inc.guard = guard
      /\ c2.inc.second = FALSE
  BY DEF Increments, Flows, Asks
<1>2. TodoOK(R, c2)
  BY <1>1, TodoSame DEF Local
<1>3. PlaceOK(c2) /\ IncOK(D2, c2)
  BY <1>1 DEF PlaceOK, IncOK, Idle, Loops, Booking, Reading
<1> QED
  BY <1>1, <1>2, <1>3, FlowKeeps DEF Reading

(* A loop that goes on.                                                    *)
LEMMA GoesOnKeeps ==
  ASSUME NEW R, NEW D, NEW c, NEW D2, NEW c2, Local(R, D, c), c.todo # << >>,
         c.pc \notin Idle \cup Reading, OwnOK(R, D2, c2), NEW pc, GoesOn(c, c2, pc),
         \/ pc = "accrue" /\ c.req.op = "paid"
         \/ pc = "date" /\ c.req.op = "received"
         \/ pc = "settle" /\ c.req.op = "maintain"
         \/ pc = "claw" /\ c.req.op \in {"refunded", "void"}
         \/ pc = "risk" /\ c.req.op = "risk"
         \/ pc = "reserve" /\ c.req.op = "withdraw"
         \/ pc = "decided" /\ c.req.op \in {"payout", "reject"}
  PROVE  Local(R, D2, c2)
<1>1. c2.req = c.req /\ c2.pc = pc /\ c2.todo = Tail(c.todo) /\ Flows(c, c2)
  BY DEF GoesOn, Flows
<1>2. TodoOK(R, c2)
  BY <1>1, TodoTail DEF Local, Booking
<1>3. PlaceOK(c2) /\ IncOK(D2, c2)
  BY <1>1 DEF PlaceOK, IncOK, Idle, Loops, Booking, Reading
<1> QED
  BY <1>1, <1>2, <1>3, FlowKeeps DEF Reading

(* Inserting an accrual leaves the call in order.                          *)
LEMMA AccrueLocal ==
  ASSUME NEW R, NEW D, NEW c, NEW D2, NEW c2, RowsOK(R), Local(R, D, c),
         AccrueStep(R, D, c, D2, c2)
  PROVE  Local(R, D2, c2)
<1> DEFINE x == c.todo[1]
           key == AccrualKey(c.req.order, x.agent)
           id == <<"commission", key>>
<1>1. c.pc = "accrue" /\ c.todo # << >> /\ c.req.op = "paid" /\ c.pc \notin Idle \cup Reading
  BY DEF AccrueStep, Local, PlaceOK, Idle, Reading
<1>2. c.req.order \in Orders /\ x \in LayerItem /\ OwnOK(R, D, c)
  BY <1>1, HeadCopy DEF Local, RequestOK, WellFormed
<1>3. CASE D2 = D /\ GoesOn(c, c2, "accrue")
  <2>1. OwnOK(R, D2, c2)
    BY <1>2, <1>3, OwnKept DEF GoesOn, Idle, Reading
  <2> QED
    BY <1>1, <1>3, <2>1, GoesOnKeeps
<1>4. CASE /\ id \notin Known(R, D)
           /\ D2 = With(D, id, NewAccrual(x))
           /\ Increments(c, c2, x.agent, Credit(x), FALSE, "accrue", key)
  <2>1. NewAccrual(x) \in AccrualRow /\ NewAccrual(x).agent = x.agent
        /\ NewAccrual(x).reversed <= NewAccrual(x).amount
    BY <1>2 DEF NewAccrual, AccrualRow, LayerItem, RowStates
  <2>2. RowOK(id, NewAccrual(x))
    BY <1>2, <2>1, AccrualRowOK
  <2>3. OwnOK(R, D2, c2)
    BY <1>2, <1>4, <2>2, OwnInserted DEF Known, Increments, Asks, Idle, Reading
  <2>4. x.agent \in Agents /\ Credit(x) \in Delta
    BY <1>2 DEF LayerItem, Credit, NoDelta, Delta, Columns, Buckets, Totals
  <2> DEFINE k == x.agent
             d == Credit(x)
  <2>5. k \in Agents /\ d \in Delta /\ Increments(c, c2, k, d, FALSE, "accrue", key)
    BY <1>4, <2>4
  <2> HIDE DEF k, d, key
  <2> QED
    BY <1>1, <2>3, <2>5, IncrementsKeeps
<1> QED
  BY <1>3, <1>4 DEF AccrueStep

(* Beginning a receipt leaves the call in order.                           *)
LEMMA ReceivedLocal ==
  ASSUME NEW R, NEW D, NEW c, NEW D2, NEW c2, RowsOK(R), IsFiniteSet(DOMAIN R),
         Local(R, D, c), ReceivedStep(R, D, c, D2, c2)
  PROVE  Local(R, D2, c2)
<1>1. CASE Ended(D2, c, c2, "skipped")
  BY <1>1, EndedKeeps
<1>2. CASE ~Ended(D2, c, c2, "skipped")
  <2> DEFINE S == Undated(R, c.req.order)
  <2>1. /\ Begun(R, D, c, D2, c2) /\ c2.pc = "date" /\ c.req.op = "received"
        /\ c2.todo \in SetToSeqs(Copies(S, R))
    BY <1>2 DEF ReceivedStep, ByLayer
  <2>2. S \subseteq DOMAIN R /\ \A id \in S : IsAccrual(id)
    BY DEF Undated, Accruals, RowsOf, IsAccrual
  <2> HIDE DEF S
  <2> QED
    BY <2>1, <2>2, BegunWithCopies
<1> QED
  BY <1>1, <1>2

(* Dating a commission leaves the call in order.                           *)
LEMMA DateLocal ==
  ASSUME NEW R, NEW D, NEW c, NEW D2, NEW c2, RowsOK(R), Local(R, D, c),
         DateStep(R, D, c, D2, c2)
  PROVE  Local(R, D2, c2)
<1> DEFINE x == c.todo[1]
           row == [x.row EXCEPT !.dated = TRUE, !.version = @ + 1]
<1>1. /\ c.pc = "date" /\ c.todo # << >> /\ c.req.op = "received"
      /\ c.pc \notin Idle \cup Reading /\ GoesOn(c, c2, "date") /\ OwnOK(R, D, c)
      /\ c2.pc \notin Idle \cup Reading
  BY DEF DateStep, Local, PlaceOK, Idle, Reading, GoesOn
<1>2. CASE D2 = D
  <2>1. OwnOK(R, D2, c2)
    BY <1>1, <1>2, OwnKept
  <2> QED
    BY <1>1, <2>1, GoesOnKeeps
<1>3. CASE Swaps(R, D, D2, x, row)
  <2>1. CopyOK(R, x) /\ AccrualOK(x.id, x.row)
    BY <1>1, HeadCopy DEF Local
  <2>2. /\ row.agent = x.row.agent /\ row.amount = x.row.amount
        /\ row.version = x.row.version + 1 /\ RowOK(x.id, row)
    BY <2>1, AccrualDated
  <2> HIDE DEF row, x
  <2>4. OwnOK(R, D2, c2)
    BY <1>1, <1>3, <2>1, <2>2, OwnSwapped
  <2> QED
    BY <1>1, <2>4, GoesOnKeeps
<1> QED
  BY <1>2, <1>3 DEF DateStep

(* Beginning a batch leaves the call in order.                             *)
LEMMA MaintainLocal ==
  ASSUME NEW R, NEW D, NEW c, NEW D2, NEW c2, RowsOK(R), IsFiniteSet(DOMAIN R),
         Local(R, D, c), MaintainStep(R, D, c, D2, c2)
  PROVE  Local(R, D2, c2)
<1>1. CASE Ended(D2, c, c2, "skipped")
  BY <1>1, EndedKeeps
<1>2. CASE ~Ended(D2, c, c2, "skipped")
  <2> DEFINE S == Due(R)
  <2>1. /\ Begun(R, D, c, D2, c2) /\ c2.pc = "settle" /\ c.req.op = "maintain"
        /\ c2.todo \in SetToSeqs(Copies(S, R))
    BY <1>2 DEF MaintainStep
  <2>2. S \subseteq DOMAIN R /\ \A id \in S : IsAccrual(id)
    BY DEF Due, RowsOf, IsAccrual
  <2> HIDE DEF S
  <2> QED
    BY <2>1, <2>2, BegunWithCopies
<1> QED
  BY <1>1, <1>2

(* Settling a commission leaves the call in order.                         *)
LEMMA SettleLocal ==
  ASSUME NEW R, NEW D, NEW c, NEW D2, NEW c2, RowsOK(R), Local(R, D, c),
         SettleStep(R, D, c, D2, c2)
  PROVE  Local(R, D2, c2)
<1> DEFINE x == c.todo[1]
           row == [x.row EXCEPT !.state = "settled", !.version = @ + 1]
           delta == MoveDelta("frozen", "available", Outstanding(x.row))
<1>1. /\ c.pc = "settle" /\ c.todo # << >> /\ c.req.op = "maintain"
      /\ c.pc \notin Idle \cup Reading /\ OwnOK(R, D, c)
  BY DEF SettleStep, Local, PlaceOK, Idle, Reading
<1>2. CASE D2 = D /\ GoesOn(c, c2, "settle")
  <2>1. OwnOK(R, D2, c2)
    BY <1>1, <1>2, OwnKept DEF GoesOn, Idle, Reading
  <2> QED
    BY <1>1, <1>2, <2>1, GoesOnKeeps
<1>3. CASE /\ Swaps(R, D, D2, x, row)
           /\ Increments(c, c2, x.row.agent, delta, TRUE, "settle", x.id[2])
  <2>1. CopyOK(R, x) /\ AccrualOK(x.id, x.row)
    BY <1>1, HeadCopy DEF Local
  <2>2. "settled" \in RowStates
    BY DEF RowStates
  <2>3. /\ row.agent = x.row.agent /\ row.amount = x.row.amount
        /\ row.version = x.row.version + 1 /\ RowOK(x.id, row)
    <3> DEFINE id == x.id
               r == x.row
               st == "settled"
    <3>1. AccrualOK(id, r) /\ st \in RowStates
      BY <2>1, <2>2
    <3>2. row = [r EXCEPT !.state = st, !.version = @ + 1]
      OBVIOUS
    <3> HIDE DEF x, id, r, st, row
    <3>3. row.agent = r.agent /\ row.amount = r.amount
          /\ row.version = r.version + 1 /\ RowOK(id, row)
      BY <3>1, <3>2, AccrualMoved
    <3> QED
      BY <3>3 DEF id, r
  <2>4. x.row.agent \in Agents /\ Outstanding(x.row) \in Int
    BY <2>1 DEF AccrualOK, AccrualRow, Outstanding
  <2>5. delta \in Delta
    BY <2>4, MoveDeltaIs DEF Buckets
  <2>6. c2.pc \notin Idle \cup Reading
    BY <1>3 DEF Increments, Asks, Idle, Reading
  <2> HIDE DEF row, x, delta
  <2>7. OwnOK(R, D2, c2)
    BY <1>1, <1>3, <2>1, <2>3, <2>6, OwnSwapped
  <2> DEFINE ref == x.id[2]
  <2>8. Increments(c, c2, x.row.agent, delta, TRUE, "settle", ref)
    BY <1>3
  <2> HIDE DEF ref
  <2> QED
    BY <1>1, <2>4, <2>5, <2>7, <2>8, IncrementsKeeps
<1> QED
  BY <1>2, <1>3 DEF SettleStep

(* Beginning a refund leaves the call in order.                            *)
LEMMA RefundedLocal ==
  ASSUME NEW R, NEW D, NEW c, NEW D2, NEW c2, RowsOK(R), IsFiniteSet(DOMAIN R),
         Local(R, D, c), RefundedStep(R, D, c, D2, c2)
  PROVE  Local(R, D2, c2)
<1>1. CASE Ended(D2, c, c2, "skipped")
  BY <1>1, EndedKeeps
<1>2. CASE ~Ended(D2, c, c2, "skipped")
  <2> DEFINE S == Accruals(c.req.order, R)
  <2>1. /\ Begun(R, D, c, D2, c2) /\ c2.pc = "vouchers" /\ c.req.op = "refunded"
        /\ c2.todo \in SetToSeqs(Copies(S, R))
    BY <1>2 DEF RefundedStep, ByLayer
  <2>2. S \subseteq DOMAIN R /\ \A id \in S : IsAccrual(id)
    BY DEF Accruals, RowsOf, IsAccrual
  <2> HIDE DEF S
  <2> QED
    BY <2>1, <2>2, BegunWithCopies
<1> QED
  BY <1>1, <1>2

(* Reading the vouchers leaves the call in order.                          *)
LEMMA VouchersLocal ==
  ASSUME NEW R, NEW D, NEW c, NEW D2, NEW c2, Local(R, D, c),
         VouchersStep(R, D, c, D2, c2)
  PROVE  Local(R, D2, c2)
<1>1. CASE Ended(D2, c, c2, "ok")
  BY <1>1, EndedKeeps
<1>2. CASE ~Ended(D2, c, c2, "ok")
  <2>1. /\ c.pc = "vouchers" /\ c2.pc = "voucher" /\ D2 = D /\ ShapeOK(c2)
        /\ c2.req = c.req /\ c2.tries = c.tries /\ c2.snap = c.snap
        /\ c2.todo = c.todo /\ c2.sum \in 0 .. Base[c.req.order]
        /\ c.req.op = "refunded"
    BY <1>2 DEF VouchersStep, Local, PlaceOK
  <2>2. TodoOK(R, c2)
    BY <2>1, TodoSame DEF Local, Booking
  <2>3. OwnOK(R, D2, c2)
    BY <2>1, OwnKept DEF Local, Reading
  <2>4. PlaceOK(c2) /\ IncOK(D2, c2) /\ SumOK(c2) /\ RequestOK(c2) /\ SnapOK(R, c2)
    BY <2>1 DEF Local, PlaceOK, IncOK, SumOK, RequestOK, SnapOK, Idle, Loops, Booking, Reading
  <2> QED
    BY <2>1, <2>2, <2>3, <2>4 DEF Local
<1> QED
  BY <1>1, <1>2

(* Inserting a voucher leaves the call in order.                           *)
LEMMA VoucherLocal ==
  ASSUME NEW R, NEW D, NEW c, NEW D2, NEW c2, Local(R, D, c),
         VoucherStep(R, D, c, D2, c2)
  PROVE  Local(R, D2, c2)
<1> DEFINE id == <<"refund", <<c.req.order, c.req.key>>>>
           row == [amount |-> c.req.amount, cumulative |-> c.sum]
<1>1. /\ c.pc = "voucher" /\ Flows(c, c2) /\ c2.pc = "claw" /\ c2.req = c.req
      /\ c.req.op = "refunded" /\ OwnOK(R, D, c)
  BY DEF VoucherStep, Flows, Local, PlaceOK
<1>2. PlaceOK(c2) /\ IncOK(D2, c2)
  BY <1>1 DEF PlaceOK, IncOK, Idle, Loops, Booking, Reading
<1>3. CASE D2 = D /\ c2.todo = << >>
  <2>1. TodoOK(R, c2)
    <3>1. IsList(c2.todo) /\ Range(c2.todo) = {}
      BY <1>3, ShortLists
    <3> QED
      BY <1>1, <3>1 DEF TodoOK, Booking
  <2>2. OwnOK(R, D2, c2)
    BY <1>1, <1>3, OwnKept DEF Reading
  <2> QED
    BY <1>1, <1>2, <2>1, <2>2, FlowKeeps DEF Idle
<1>4. CASE /\ id \notin Known(R, D) /\ D2 = With(D, id, row)
           /\ c2.todo \in ByLayer(Left(c))
  <2>1. TodoOK(R, c2)
    <3>1. IsList(c.todo) /\ TodoOK(R, c)
      BY DEF Local, TodoOK
    <3>2. IsFiniteSet(Left(c)) /\ Left(c) \subseteq Range(c.todo)
      <4>1. IsFiniteSet(Range(c.todo))
        BY <3>1, ListFinite
      <4>2. Left(c) \subseteq Range(c.todo)
        BY DEF Left
      <4> QED
        BY <4>1, <4>2, FS_Subset
    <3>3. IsList(c2.todo) /\ Range(c2.todo) \subseteq Range(c.todo)
      BY <1>4, <3>2, SortedQueryList
    <3> QED
      BY <1>1, <3>1, <3>3 DEF TodoOK, Booking
  <2>2. OwnOK(R, D2, c2)
    <3>1. c.sum \in Nat
      <4>1. c.req.order \in Orders /\ c.sum \in 0 .. Base[c.req.order]
        BY <1>1 DEF Local, RequestOK, WellFormed, SumOK, Idle
      <4>2. Base[c.req.order] \in Nat
        BY <4>1, SqlLedgerAssumption
      <4> QED
        BY <4>1, <4>2
    <3>2. RowOK(id, row)
      BY <3>1, RefundRow
    <3> HIDE DEF id, row
    <3> QED
      BY <1>1, <1>4, <3>2, OwnInserted DEF Known, Idle, Reading
  <2> QED
    BY <1>1, <1>2, <2>1, <2>2, FlowKeeps DEF Idle
<1> QED
  BY <1>3, <1>4 DEF VoucherStep

(* Beginning a void leaves the call in order.                              *)
LEMMA VoidLocal ==
  ASSUME NEW R, NEW D, NEW c, NEW D2, NEW c2, RowsOK(R), Local(R, D, c),
         VoidStep(R, D, c, D2, c2)
  PROVE  Local(R, D2, c2)
<1>1. CASE Ended(D2, c, c2, "refused")
  BY <1>1, EndedKeeps
<1>2. CASE ~Ended(D2, c, c2, "refused")
  <2> DEFINE id == <<"commission", c.req.key>>
  <2>1. /\ Begun(R, D, c, D2, c2) /\ c.req.op = "void" /\ c2.pc = "claw"
        /\ id \in DOMAIN R /\ R[id].state \in {"pending", "frozen"}
        /\ c2.todo = <<[id |-> id, row |-> R[id]]>> /\ id[1] = "commission"
    BY <1>2 DEF VoidStep
  <2> HIDE DEF id
  <2> QED
    BY <2>1, BegunWithOne
<1> QED
  BY <1>1, <1>2

(* Inserting a reversal leaves the call in order.                          *)
LEMMA ClawLocal ==
  ASSUME NEW R, NEW D, NEW c, NEW D2, NEW c2, Local(R, D, c),
         ClawStep(R, D, c, D2, c2)
  PROVE  Local(R, D2, c2)
<1> DEFINE x == c.todo[1]
           row == [layer |-> x.row.layer, agent |-> x.row.agent,
                   amount |-> -Reversed(c), state |-> "reversed"]
<1>1. /\ c.pc = "claw" /\ c.todo # << >> /\ c.req.op \in {"refunded", "void"}
      /\ c.pc \notin Idle \cup Reading /\ OwnOK(R, D, c)
  BY DEF ClawStep, Local, PlaceOK, Idle, Reading
<1>2. CASE D2 = D /\ GoesOn(c, c2, "claw")
  <2>1. OwnOK(R, D2, c2)
    BY <1>1, <1>2, OwnKept DEF GoesOn, Idle, Reading
  <2> QED
    BY <1>1, <1>2, <2>1, GoesOnKeeps
<1>3. CASE /\ ReversalId(c) \notin Known(R, D) /\ D2 = With(D, ReversalId(c), row)
           /\ Flows(c, c2) /\ c2.pc = "accumulate" /\ c2.todo = c.todo
  <2>1. AccrualOK(x.id, x.row) /\ Reversed(c) \in Int
    BY <1>1, TargetType
  <2>2. row \in ReversalRow /\ row.agent = x.row.agent /\ x.id[2][2] \in Orders
    <3>1. x.row.layer \in Nat /\ x.row.agent \in Agents /\ -Reversed(c) \in Int
          /\ x.id[2][2] \in Orders
      BY <2>1 DEF AccrualOK, AccrualRow
    <3> QED
      BY <3>1 DEF ReversalRow
  <2>3. RowOK(ReversalId(c), row)
    <3> DEFINE o == x.id[2][2]
               k == x.row.agent
               n == TargetOf(c, x.row)
    <3>1. ReversalId(c) = <<"commission", ReversalKey(o, k, n)>>
      BY DEF ReversalId
    <3>2. o \in Orders /\ row \in ReversalRow /\ row.agent = k
      BY <2>2
    <3> HIDE DEF o, k, n, row
    <3> QED
      BY <3>1, <3>2, ReversalRowOK
  <2>4. c2.req = c.req /\ TodoOK(R, c2)
    BY <1>1, <1>3, TodoSame DEF Local, Flows
  <2>5. PlaceOK(c2) /\ IncOK(D2, c2)
    BY <1>1, <1>3, <2>4 DEF PlaceOK, IncOK, Idle, Loops, Booking, Reading
  <2> DEFINE id == ReversalId(c)
  <2>6. id \notin DOMAIN R /\ RowOK(id, row) /\ D2 = With(D, id, row)
        /\ c2.pc \notin Idle \cup Reading
    BY <1>3, <2>3 DEF Known, Idle, Reading
  <2> HIDE DEF id, row
  <2>7. OwnOK(R, D2, c2)
    BY <1>1, <2>6, OwnInserted
  <2> QED
    BY <1>1, <1>3, <2>4, <2>5, <2>7, FlowKeeps DEF Reading
<1> QED
  BY <1>2, <1>3 DEF ClawStep

(* Raising an accumulator leaves the call in order.                        *)
LEMMA AccumulateLocal ==
  ASSUME NEW R, NEW D, NEW c, NEW D2, NEW c2, Local(R, D, c),
         AccumulateStep(R, D, c, D2, c2)
  PROVE  Local(R, D2, c2)
<1>1. CASE Ended(D2, c, c2, "conflict")
  BY <1>1, EndedKeeps
<1>2. CASE ~Ended(D2, c, c2, "conflict")
  <2> DEFINE x == c.todo[1]
             r == x.row
             target == TargetOf(c, x.row)
             end == IF c.req.op = "void" THEN "void" ELSE "reversed"
             row == [r EXCEPT !.reversed = target, !.version = @ + 1,
                              !.state = IF target = r.amount THEN end ELSE @]
             key == ReversalId(c)[2]
             k == r.agent
             d == Debit(c)
  <2>1. c.pc = "accumulate" /\ target <= r.amount /\ Swaps(R, D, D2, x, row)
    BY <1>2 DEF AccumulateStep
  <2>2. PICK biz \in {"void", "reverse"} : Increments(c, c2, k, d, TRUE, biz, key)
    BY <1>2 DEF AccumulateStep
  <2>3. /\ c.todo # << >> /\ c.req.op \in {"refunded", "void"}
        /\ c.pc \notin Idle \cup Reading /\ OwnOK(R, D, c)
    BY <2>1 DEF Local, PlaceOK, TodoOK, Idle, Reading
  <2>4. /\ CopyOK(R, x) /\ AccrualOK(x.id, r) /\ target \in Nat /\ Reversed(c) \in Int
        /\ r \in AccrualRow
    BY <2>1, <2>3, TargetType
  <2>5. k \in Agents
    BY <2>4 DEF AccrualRow
  <2>6. d \in Delta
    <3>1. ReversalBucket(r.state) \in {"available", "frozen"}
      BY DEF ReversalBucket
    <3>2. -Reversed(c) \in Int
      BY <2>4
    <3> QED
      BY <2>4, <3>1, <3>2 DEF Debit, Delta, NoDelta, Columns, Buckets, Totals
  <2>7. end \in RowStates
    BY DEF RowStates
  <2> DEFINE id == x.id
  <2>8. /\ row.agent = r.agent /\ row.amount = r.amount
        /\ row.version = r.version + 1 /\ RowOK(id, row)
    <3> DEFINE n == r.version + 1
               state == IF target = r.amount THEN end ELSE r.state
    <3>1. /\ AccrualOK(id, r) /\ target \in Nat /\ target <= r.amount /\ r \in AccrualRow
          /\ n \in Nat \ {0} /\ state \in RowStates
      BY <2>1, <2>4, <2>7 DEF AccrualRow
    <3>2. row = [r EXCEPT !.reversed = target, !.version = n, !.state = state]
      OBVIOUS
    <3> HIDE DEF id, r, target, end, state, n
    <3>3. /\ row \in AccrualRow /\ row.agent = r.agent /\ row.amount = r.amount
          /\ row.version = n /\ row.reversed = target
      <4> HIDE DEF row
      <4> QED
        BY <3>1, <3>2 DEF AccrualRow
    <3> HIDE DEF row
    <3>4. RowOK(id, row)
      BY <3>1, <3>3, AccrualRowOK DEF AccrualOK
    <3> QED
      BY <3>3, <3>4 DEF n
  <2>9. c2.pc \notin Idle \cup Reading
    BY <2>2 DEF Increments, Asks, Idle, Reading
  <2> HIDE DEF row, target, end, key, d
  <2>10. OwnOK(R, D2, c2)
    BY <2>1, <2>3, <2>4, <2>8, <2>9, OwnSwapped
  <2> HIDE DEF k
  <2> QED
    BY <2>2, <2>3, <2>5, <2>6, <2>10, IncrementsKeeps
<1> QED
  BY <1>1, <1>2

(* Beginning a risk transition leaves the call in order.                   *)
LEMMA RiskLocal ==
  ASSUME NEW R, NEW D, NEW c, NEW D2, NEW c2, RowsOK(R), Local(R, D, c),
         RiskStep(R, D, c, D2, c2)
  PROVE  Local(R, D2, c2)
<1>1. CASE Ended(D2, c, c2, "refused")
  BY <1>1, EndedKeeps
<1>2. CASE ~Ended(D2, c, c2, "refused")
  <2> DEFINE id == <<"commission", c.req.key>>
  <2>1. c.req.op = "risk" /\ c.req.from \in {"pending", "frozen"}
    BY <1>2 DEF RiskStep, Local, RequestOK, WellFormed
  <2>2. /\ Begun(R, D, c, D2, c2) /\ c2.pc = "risk"
        /\ id \in DOMAIN R /\ R[id].state \in {"pending", "frozen"}
        /\ c2.todo = <<[id |-> id, row |-> R[id]]>> /\ id[1] = "commission"
    BY <1>2, <2>1 DEF RiskStep
  <2> HIDE DEF id
  <2> QED
    BY <2>1, <2>2, BegunWithOne
<1> QED
  BY <1>1, <1>2

(* Freezing or unfreezing leaves the call in order.                        *)
LEMMA FreezeLocal ==
  ASSUME NEW R, NEW D, NEW c, NEW D2, NEW c2, Local(R, D, c),
         FreezeStep(R, D, c, D2, c2)
  PROVE  Local(R, D2, c2)
<1>1. CASE Ended(D2, c, c2, "conflict")
  BY <1>1, EndedKeeps
<1>2. CASE ~Ended(D2, c, c2, "conflict")
  <2> DEFINE x == c.todo[1]
             r == x.row
             st == c.req.to
             row == [r EXCEPT !.state = st, !.version = @ + 1]
             id == x.id
  <2>1. /\ c.pc = "risk" /\ c.todo # << >> /\ Swaps(R, D, D2, x, row) /\ GoesOn(c, c2, "risk")
    BY <1>2 DEF FreezeStep
  <2>2. /\ c.req.op = "risk" /\ st \in RowStates
        /\ c.pc \notin Idle \cup Reading /\ OwnOK(R, D, c)
    BY <2>1 DEF Local, PlaceOK, RequestOK, WellFormed, Idle, Reading, RowStates
  <2>3. CopyOK(R, x) /\ AccrualOK(id, r)
    BY <2>1, <2>2, HeadCopy DEF Local
  <2>4. /\ row.agent = r.agent /\ row.amount = r.amount
        /\ row.version = r.version + 1 /\ RowOK(id, row)
    <3>1. row = [r EXCEPT !.state = st, !.version = @ + 1]
      OBVIOUS
    <3> HIDE DEF id, r, st, row
    <3> QED
      BY <2>2, <2>3, <3>1, AccrualMoved
  <2>5. c2.pc \notin Idle \cup Reading
    BY <2>1 DEF GoesOn, Idle, Reading
  <2> HIDE DEF row, st
  <2>6. OwnOK(R, D2, c2)
    BY <2>1, <2>2, <2>3, <2>4, <2>5, OwnSwapped
  <2> QED
    BY <2>1, <2>2, <2>6, GoesOnKeeps
<1> QED
  BY <1>1, <1>2

(* A call that asks to reserve money begins.                               *)
LEMMA WithdrawLocal ==
  ASSUME NEW R, NEW D, NEW c, NEW D2, NEW c2, RowsOK(R), Local(R, D, c),
         WithdrawStep(R, D, c, D2, c2)
  PROVE  Local(R, D2, c2)
<1>1. CASE Ended(D2, c, c2, "existed")
  BY <1>1, EndedKeeps
<1>2. CASE ~Ended(D2, c, c2, "existed")
  <2> DEFINE h == [hold |-> c.req.key]
  <2>1. /\ Begun(R, D, c, D2, c2) /\ c2.pc = "reserve" /\ c.req.op = "withdraw"
        /\ c2.todo = <<h>> /\ c2.req = c.req /\ D2 = D
    BY <1>2 DEF WithdrawStep, Begun
  <2> HIDE DEF h
  <2>2. IsList(c2.todo)
    BY <2>1, ShortLists
  <2>3. TodoOK(R, c2)
    BY <2>1, <2>2 DEF TodoOK, Booking
  <2>4. PlaceOK(c2) /\ IncOK(D2, c2)
    BY <2>1 DEF PlaceOK, IncOK, Idle, Loops, Booking, Reading
  <2> QED
    BY <2>1, <2>3, <2>4, BegunKeeps
<1> QED
  BY <1>1, <1>2

(* The withdrawal is inserted and its money is asked for.                  *)
LEMMA ReserveLocal ==
  ASSUME NEW R, NEW D, NEW c, NEW D2, NEW c2, RowsOK(R), Local(R, D, c),
         ReserveStep(R, D, c, D2, c2)
  PROVE  Local(R, D2, c2)
<1> DEFINE key == c.req.key
           id == <<"withdrawal", key>>
           row == NewWithdrawal(c)
           k == c.req.agent
           n == c.req.amount
           delta == MoveDelta("available", "withdrawing", n)
<1>1. CASE \E r \in {"existed", "notfound"} : Ended(D2, c, c2, r)
  BY <1>1, EndedKeeps
<1>2. CASE ~\E r \in {"existed", "notfound"} : Ended(D2, c, c2, r)
  <2>1. /\ c.pc = "reserve" /\ c.todo # << >> /\ c.req.op = "withdraw"
        /\ c.pc \notin Idle \cup Reading /\ OwnOK(R, D, c)
        /\ id \notin DOMAIN R /\ D2 = With(D, id, row)
        /\ Increments(c, c2, k, delta, TRUE, "withdraw_hold", key)
    BY <1>2 DEF ReserveStep, Known, Local, PlaceOK, Idle, Reading
  <2>2. k \in Agents /\ n \in Nat \ {0}
    BY <2>1 DEF Local, RequestOK, WellFormed
  <2>3. row \in WithdrawalRow
    BY <2>2 DEF NewWithdrawal, WithdrawalRow
  <2>4. delta \in Delta
    BY <2>2, MoveDeltaIs DEF Buckets
  <2>5. c2.pc \notin Idle \cup Reading
    BY <2>1 DEF Increments, Asks, Idle, Reading
  <2> HIDE DEF key, row, k, n, delta
  <2>6. RowOK(id, row)
    BY <2>3, WithdrawalRowOK
  <2> HIDE DEF id
  <2>7. OwnOK(R, D2, c2)
    BY <2>1, <2>5, <2>6, OwnInserted
  <2> QED
    BY <2>1, <2>2, <2>4, <2>7, IncrementsKeeps
<1> QED
  BY <1>1, <1>2

(* A decision begins with the move of the reserved money.                  *)
LEMMA DecisionLocal ==
  ASSUME NEW R, NEW D, NEW c, NEW D2, NEW c2, RowsOK(R), Local(R, D, c),
         DecisionStep(R, D, c, D2, c2)
  PROVE  Local(R, D2, c2)
<1> DEFINE key == c.req.key
           id == <<"withdrawal", key>>
           r == R[id]
           delta == MoveDelta("withdrawing", DecisionBucket(c), r.amount)
           x == [id |-> id, row |-> r]
<1>1. CASE Ended(D2, c, c2, "refused")
  BY <1>1, EndedKeeps
<1>2. CASE ~Ended(D2, c, c2, "refused")
  <2>1. /\ Begun(R, D, c, D2, c2) /\ c.req.op \in {"payout", "reject"}
        /\ id \in DOMAIN R /\ c2.todo = <<x>> /\ c2.req = c.req /\ D2 = D
        /\ Asks(c2, r.agent, delta, TRUE, DecisionBiz(c), key)
    BY <1>2 DEF DecisionStep, Begun
  <2>2. id[1] = "withdrawal" /\ RowOK(id, r) /\ r \in WithdrawalRow
    BY <2>1 DEF RowsOK, RowOK
  <2>3. r.agent \in Agents /\ r.amount \in Nat
    BY <2>2 DEF WithdrawalRow
  <2>4. delta \in Delta
    BY <2>3, MoveDeltaIs DEF Buckets, DecisionBucket
  <2>5. CopyOK(R, x)
    <3> HIDE DEF id
    <3> QED
      BY <2>1, <2>2, CopyIs DEF IsVersioned
  <2>6. x.id = <<"withdrawal", c2.req.key>>
    BY <2>1
  <2> HIDE DEF key, id, r, delta, x
  <2>7. IsList(c2.todo) /\ Range(c2.todo) = {x} /\ c2.todo # << >>
    BY <2>1, ShortLists
  <2>8. TodoOK(R, c2)
    BY <2>1, <2>5, <2>6, <2>7 DEF TodoOK
  <2>9. PlaceOK(c2) /\ IncOK(D2, c2)
    BY <2>1, <2>3, <2>4 DEF PlaceOK, IncOK, Asks, Idle, Loops, Booking, Reading
  <2> QED
    BY <2>1, <2>8, <2>9, BegunKeeps
<1> QED
  BY <1>1, <1>2

(* The state of a withdrawal advances.                                     *)
LEMMA DecideLocal ==
  ASSUME NEW R, NEW D, NEW c, NEW D2, NEW c2, Local(R, D, c),
         DecideStep(R, D, c, D2, c2)
  PROVE  Local(R, D2, c2)
<1>1. CASE Ended(D2, c, c2, "conflict")
  BY <1>1, EndedKeeps
<1>2. CASE ~Ended(D2, c, c2, "conflict")
  <2> DEFINE x == c.todo[1]
             r == x.row
             st == DecisionState(c)
             row == [r EXCEPT !.state = st, !.version = @ + 1]
             key == c.req.key
             id == x.id
  <2>1. /\ c.pc = "decide" /\ Swaps(R, D, D2, x, row) /\ GoesOn(c, c2, "decided")
    BY <1>2 DEF DecideStep
  <2>2. /\ c.req.op \in {"payout", "reject"} /\ st \in {"paid", "rejected"}
        /\ c.pc \notin Idle \cup Reading /\ OwnOK(R, D, c) /\ c.todo # << >>
    BY <2>1 DEF Local, PlaceOK, TodoOK, DecisionState, Idle, Reading
  <2>3. CopyOK(R, x) /\ id = <<"withdrawal", key>> /\ r \in WithdrawalRow
    BY <2>1, <2>2, HeadCopy DEF Local
  <2>4. /\ row.agent = r.agent /\ row.amount = r.amount
        /\ row.version = r.version + 1 /\ RowOK(id, row)
    <3>1. row = [r EXCEPT !.state = st, !.version = @ + 1]
      OBVIOUS
    <3> HIDE DEF id, r, st, row, key
    <3> QED
      BY <2>2, <2>3, <3>1, WithdrawalMoved
  <2>5. c2.pc \notin Idle \cup Reading
    BY <2>1 DEF GoesOn, Idle, Reading
  <2> HIDE DEF row, st
  <2>6. OwnOK(R, D2, c2)
    BY <2>1, <2>2, <2>3, <2>4, <2>5, OwnSwapped
  <2> QED
    BY <2>1, <2>2, <2>6, GoesOnKeeps
<1> QED
  BY <1>1, <1>2

(* The three pages of a check.                                             *)
LEMMA CheckLocal ==
  ASSUME NEW R, NEW D, NEW c, NEW D2, NEW c2, RowsOK(R), Local(R, D, c),
         CheckStep(R, D, c, D2, c2)
  PROVE  Local(R, D2, c2)
<1> DEFINE h == [held |-> Holds(R)]
<1>1. /\ Begun(R, D, c, D2, c2) /\ c2.pc = "withdrawals" /\ c.req.op = "check"
      /\ c2.todo = <<h>> /\ c2.req = c.req /\ D2 = D
  BY DEF CheckStep, Begun
<1> HIDE DEF h
<1>2. IsList(c2.todo)
  BY <1>1, ShortLists
<1>3. TodoOK(R, c2)
  BY <1>1, <1>2 DEF TodoOK, Booking
<1>4. PlaceOK(c2) /\ IncOK(D2, c2)
  BY <1>1 DEF PlaceOK, IncOK, Idle, Loops, Booking, Reading
<1> QED
  BY <1>1, <1>3, <1>4, BegunKeeps

(* Reading the open withdrawals leaves the check in order.                 *)
LEMMA WithdrawalsLocal ==
  ASSUME NEW R, NEW D, NEW c, NEW D2, NEW c2, Local(R, D, c),
         WithdrawalsStep(R, D, c, D2, c2)
  PROVE  Local(R, D2, c2)
<1>1. CASE Ended(D2, c, c2, "alarm")
  BY <1>1, EndedKeeps
<1>2. CASE ~Ended(D2, c, c2, "alarm")
  <2>1. PICK seen : /\ D2 = D /\ Flows(c, c2)
                    /\ c2.pc = "ledger" /\ c2.todo = <<[reserved |-> Reserved(seen)]>>
    BY <1>2 DEF WithdrawalsStep
  <2> DEFINE h == [reserved |-> Reserved(seen)]
  <2>2. /\ c.pc = "withdrawals" /\ c.req.op = "check" /\ c2.todo = <<h>> /\ c2.req = c.req
    BY <2>1 DEF WithdrawalsStep, Local, PlaceOK, Flows
  <2> HIDE DEF h
  <2>3. IsList(c2.todo)
    BY <2>2, ShortLists
  <2>4. TodoOK(R, c2)
    BY <2>1, <2>2, <2>3 DEF TodoOK, Booking
  <2>5. PlaceOK(c2) /\ IncOK(D2, c2)
    BY <2>1, <2>2 DEF PlaceOK, IncOK, Idle, Loops, Booking, Reading
  <2>6. OwnOK(R, D2, c2)
    BY <2>1, <2>2, OwnKept DEF Local, Reading
  <2> QED
    BY <2>1, <2>2, <2>4, <2>5, <2>6, FlowKeeps DEF Idle
<1> QED
  BY <1>1, <1>2

(* Reading the reserved columns leaves the check in order.                 *)
LEMMA LedgerLocal ==
  ASSUME NEW R, NEW D, NEW c, NEW D2, NEW c2, Local(R, D, c),
         LedgerStep(R, D, c, D2, c2)
  PROVE  Local(R, D2, c2)
BY EndedKeeps DEF LedgerStep

(* The account is updated, looked for and inserted.                        *)
LEMMA UpdateLocal ==
  ASSUME NEW R, NEW D, NEW c, NEW D2, NEW c2, RowsOK(R), Local(R, D, c),
         UpdateStep(R, D, c, D2, c2)
  PROVE  Local(R, D2, c2)
<1> DEFINE k == c.inc.key
           d == c.inc.delta
           id == <<"account", k>>
           cur == Cur(R, D, id)
           after == Apply(cur, d)
<1>1. /\ c.pc = "update" /\ c.pc \notin Idle \cup Reading /\ OwnOK(R, D, c)
      /\ k \in Agents /\ d \in Delta /\ c.todo # << >>
      /\ c.inc.guard \in BOOLEAN /\ c.inc.second \in BOOLEAN
      /\ c.req.op \in {"paid", "maintain", "refunded", "void", "withdraw", "payout", "reject"}
  BY DEF UpdateStep, Local, PlaceOK, TodoOK, IncOK, Idle, Reading, Booking
<1>2. CASE /\ id \in Known(R, D)
           /\ D2 = With(D, id, after) /\ MovesTo(c, c2, "entry")
  <2>1. cur \in Account
    <3>1. id[1] = "account"
      OBVIOUS
    <3>2. RowsOK(D) /\ (id \in DOMAIN D \/ id \in DOMAIN R)
      BY <1>1, <1>2 DEF OwnOK, Known
    <3> HIDE DEF id
    <3> QED
      BY <3>1, <3>2 DEF Cur, RowsOK, RowOK
  <2>2. after \in Account
    <3> HIDE DEF cur, d
    <3> QED
      BY <1>1, <2>1, ApplyIs
  <2>3. /\ c2.req = c.req /\ c2.pc = "entry" /\ c2.todo = c.todo /\ c2.inc = c.inc
        /\ Flows(c, c2)
    BY <1>2 DEF MovesTo, Flows
  <2>4. OwnOK(R, D2, c2)
    <3> HIDE DEF after, k
    <3> QED
      BY <1>1, <1>2, <2>2, <2>3, OwnAccountKept DEF Idle, Reading
  <2>5. id \in DOMAIN D2
    BY <1>2 DEF With
  <2>6. TodoOK(R, c2)
    BY <1>1, <2>3, TodoSame DEF Local
  <2>7. IncOK(D2, c2)
    BY <1>1, <2>3, <2>5 DEF IncOK
  <2>8. PlaceOK(c2)
    BY <1>1, <2>3 DEF PlaceOK, Idle, Loops, Booking, Reading
  <2> QED
    BY <1>1, <2>3, <2>4, <2>6, <2>7, <2>8, FlowKeeps DEF Reading
<1>3. CASE D2 = D /\ MovesTo(c, c2, "lookup")
  <2>1. /\ c2.req = c.req /\ c2.pc = "lookup" /\ c2.todo = c.todo /\ c2.inc = c.inc
        /\ Flows(c, c2)
    BY <1>3 DEF MovesTo, Flows
  <2>2. OwnOK(R, D2, c2)
    BY <1>1, <1>3, <2>1, OwnKept DEF Idle, Reading
  <2>3. TodoOK(R, c2)
    BY <1>1, <2>1, TodoSame DEF Local
  <2>4. IncOK(D2, c2) /\ PlaceOK(c2)
    BY <1>1, <2>1 DEF IncOK, PlaceOK, Idle, Loops, Booking, Reading
  <2> QED
    BY <1>1, <2>1, <2>2, <2>3, <2>4, FlowKeeps DEF Reading
<1> QED
  BY <1>2, <1>3 DEF UpdateStep, OwnAccount

(* A step to a place of the increment that writes nothing.                 *)
LEMMA BookingKeeps ==
  ASSUME NEW R, NEW D, NEW c, NEW c2, Local(R, D, c), c.pc \in Booking,
         Flows(c, c2), c2.todo = c.todo, c2.pc \in {"update", "lookup", "insert"},
         c2.inc.key = c.inc.key, c2.inc.delta = c.inc.delta,
         c2.inc.guard \in BOOLEAN, c2.inc.second \in BOOLEAN
  PROVE  Local(R, D, c2)
<1>1. /\ c.pc \notin Idle \cup Reading /\ OwnOK(R, D, c)
      /\ c.inc.key \in Agents /\ c.inc.delta \in Delta /\ c.todo # << >>
      /\ c.req.op \in {"paid", "maintain", "refunded", "void", "withdraw", "payout", "reject"}
  BY DEF Local, PlaceOK, TodoOK, IncOK, Idle, Reading, Booking
<1>2. c2.req = c.req
  BY DEF Flows
<1>3. OwnOK(R, D, c2)
  BY <1>1, OwnKept DEF Idle, Reading
<1>4. TodoOK(R, c2)
  BY <1>1, <1>2, TodoSame DEF Local
<1>5. IncOK(D, c2) /\ PlaceOK(c2)
  BY <1>1, <1>2 DEF IncOK, PlaceOK, Idle, Loops, Booking, Reading
<1> QED
  BY <1>1, <1>3, <1>4, <1>5, FlowKeeps DEF Reading

(* Looking for the account leaves the call in order.                       *)
LEMMA LookupLocal ==
  ASSUME NEW R, NEW D, NEW c, NEW D2, NEW c2, Local(R, D, c),
         LookupStep(R, D, c, D2, c2)
  PROVE  Local(R, D2, c2)
<1>1. /\ c.pc \in Booking /\ D2 = D /\ c.inc.guard \in BOOLEAN /\ c.inc.second \in BOOLEAN
  BY DEF LookupStep, Local, IncOK, Booking
<1>2. CASE Passes(c, c2)
  BY <1>1, <1>2, BookingKeeps DEF Passes
<1>3. CASE MovesTo(c, c2, "insert")
  BY <1>1, <1>3, BookingKeeps DEF MovesTo
<1> QED
  BY <1>2, <1>3 DEF LookupStep

(* Inserting the account leaves the call in order.                         *)
LEMMA InsertLocal ==
  ASSUME NEW R, NEW D, NEW c, NEW D2, NEW c2, RowsOK(R), Local(R, D, c),
         InsertStep(R, D, c, D2, c2)
  PROVE  Local(R, D2, c2)
<1> DEFINE k == c.inc.key
           d == c.inc.delta
           id == <<"account", k>>
           after == Apply(EmptyAccount, d)
<1>1. /\ c.pc = "insert" /\ c.pc \notin Idle \cup Reading /\ OwnOK(R, D, c)
      /\ c.pc \in Booking /\ k \in Agents /\ d \in Delta /\ c.todo # << >>
      /\ c.inc.guard \in BOOLEAN /\ c.inc.second \in BOOLEAN
      /\ c.req.op \in {"paid", "maintain", "refunded", "void", "withdraw", "payout", "reject"}
  BY DEF InsertStep, Local, PlaceOK, TodoOK, IncOK, Idle, Reading, Booking
<1>2. CASE D2 = D /\ Passes(c, c2)
  BY <1>1, <1>2, BookingKeeps DEF Passes
<1>3. CASE D2 = With(D, id, after) /\ MovesTo(c, c2, "entry")
  <2>1. after \in Account
    <3> HIDE DEF d
    <3> QED
      BY <1>1, NoDeltaIs, ApplyIs
  <2>2. /\ c2.req = c.req /\ c2.pc = "entry" /\ c2.todo = c.todo /\ c2.inc = c.inc
        /\ Flows(c, c2)
    BY <1>3 DEF MovesTo, Flows
  <2>3. OwnOK(R, D2, c2)
    <3> HIDE DEF after, k
    <3> QED
      BY <1>1, <1>3, <2>1, <2>2, OwnAccountKept DEF Idle, Reading
  <2>4. id \in DOMAIN D2
    BY <1>3 DEF With
  <2>5. TodoOK(R, c2)
    BY <1>1, <2>2, TodoSame DEF Local
  <2>6. IncOK(D2, c2)
    BY <1>1, <2>2, <2>4 DEF IncOK
  <2>7. PlaceOK(c2)
    BY <1>1, <2>2 DEF PlaceOK, Idle, Loops, Booking, Reading
  <2> QED
    BY <1>1, <2>2, <2>3, <2>5, <2>6, <2>7, FlowKeeps DEF Reading
<1> QED
  BY <1>2, <1>3 DEF InsertStep, OwnAccount

(* An increment that failed: a debt, a row skipped, or the end.            *)
LEMMA RefusedLocal ==
  ASSUME NEW R, NEW D, NEW c, NEW D2, NEW c2, Local(R, D, c),
         RefusedStep(R, D, c, D2, c2)
  PROVE  Local(R, D2, c2)
<1>1. /\ c.pc \in Booking /\ c.pc \notin Idle \cup Reading /\ OwnOK(R, D, c) /\ c.todo # << >>
  BY DEF RefusedStep, Local, PlaceOK, TodoOK, Idle, Reading, Booking
<1>2. CASE /\ D2 = D
           /\ Increments(c, c2, c.inc.key, c.inc.delta, FALSE, c.inc.biz, c.inc.ref)
  BY <1>1, <1>2, BookingKeeps DEF Increments, Asks
<1>3. CASE c.req.op = "maintain" /\ D2 = D /\ GoesOn(c, c2, "settle")
  <2>1. OwnOK(R, D2, c2)
    BY <1>1, <1>3, OwnKept DEF GoesOn, Idle, Reading
  <2> QED
    BY <1>1, <1>3, <2>1, GoesOnKeeps
<1>4. CASE \E r \in {"insufficient", "conflict"} : Ended(D2, c, c2, r)
  BY <1>4, EndedKeeps
<1> QED
  BY <1>2, <1>3, <1>4 DEF RefusedStep

(* The ledger entry.                                                       *)
LEMMA EntryLocal ==
  ASSUME NEW R, NEW D, NEW c, NEW D2, NEW c2, RowsOK(R), Local(R, D, c),
         EntryStep(R, D, c, D2, c2)
  PROVE  Local(R, D2, c2)
<1> DEFINE row == NewEntry(D, c)
           loop == LoopFor(c)
<1>1. PICK n \in Nat \ {0} :
        /\ \A id \in Known(R, D) : id[1] = "ledger" => id[2] < n
        /\ D2 = With(D, <<"ledger", n>>, row)
  BY DEF EntryStep
<1>2. /\ c.pc = "entry" /\ c.pc \notin Idle \cup Reading /\ OwnOK(R, D, c)
      /\ c.todo # << >> /\ c.inc.key \in Agents /\ c.inc.delta \in Delta
      /\ <<"account", c.inc.key>> \in DOMAIN D
      /\ c.req.op \in {"paid", "maintain", "refunded", "void", "withdraw", "payout", "reject"}
      /\ Flows(c, c2) /\ c2.pc = loop /\ c2.req = c.req
      /\ c2.todo = IF loop = "decide" THEN c.todo ELSE Tail(c.todo)
  BY DEF EntryStep, Local, PlaceOK, TodoOK, IncOK, Idle, Reading, Booking, Flows
<1> DEFINE id == <<"ledger", n>>
<1>3. id \notin DOMAIN R
  <2>1. id[1] = "ledger" /\ id[2] = n
    OBVIOUS
  <2> HIDE DEF id
  <2> QED
    BY <1>1, <2>1 DEF Known
<1>4. EntryOK(row)
  <2> DEFINE a == D[<<"account", c.inc.key>>]
             d == c.inc.delta
  <2>1. a \in Account
    <3> DEFINE acc == <<"account", c.inc.key>>
    <3>1. acc[1] = "account" /\ acc \in DOMAIN D /\ RowsOK(D) /\ a = D[acc]
      BY <1>2 DEF OwnOK
    <3> HIDE DEF acc, a
    <3> QED
      BY <3>1 DEF RowsOK, RowOK
  <2>2. /\ row.key = c.inc.key /\ row.delta = [b \in Buckets |-> d[b]]
        /\ row.after = [b \in Buckets |-> a[b]]
    BY DEF NewEntry, OwnAccount
  <2>3. \A b \in Buckets : a[b] \in Int /\ d[b] \in Int
    <3> HIDE DEF a, d
    <3> QED
      <4>1. d \in Delta
        BY <1>2 DEF d
      <4> QED
        BY <2>1, <4>1 DEF Account, Delta, Buckets, Columns
  <2> HIDE DEF a, d, row
  <2> QED
    BY <1>2, <2>2, <2>3 DEF EntryOK
<1>5. RowOK(id, row)
  <2> HIDE DEF row
  <2> QED
    BY <1>1, <1>4, EntryRow
<1>6. /\ loop \in {"accrue", "settle", "claw", "reserve", "decide"}
      /\ loop = "accrue" => c.req.op = "paid"
      /\ loop = "settle" => c.req.op = "maintain"
      /\ loop = "claw" => c.req.op \in {"refunded", "void"}
      /\ loop = "reserve" => c.req.op = "withdraw"
      /\ loop = "decide" => c.req.op \in {"payout", "reject"}
  BY <1>2 DEF LoopFor
<1> HIDE DEF loop, id, row
<1>7. OwnOK(R, D2, c2)
  <2>1. c2.pc \notin Idle \cup Reading
    BY <1>2, <1>6 DEF Idle, Reading
  <2>2. D2 = With(D, id, row)
    BY <1>1 DEF id
  <2> QED
    BY <1>2, <1>3, <1>5, <2>1, <2>2, OwnInserted
<1>8. CASE loop = "decide"
  <2>1. TodoOK(R, c2)
    BY <1>2, <1>8, TodoSame DEF Local
  <2>2. PlaceOK(c2) /\ IncOK(D2, c2)
    BY <1>2, <1>6, <1>8 DEF PlaceOK, IncOK, Idle, Loops, Booking, Reading
  <2> QED
    BY <1>2, <1>7, <2>1, <2>2, FlowKeeps DEF Reading
<1>9. CASE loop # "decide"
  <2>1. GoesOn(c, c2, loop)
    BY <1>2, <1>9 DEF GoesOn
  <2> QED
    BY <1>2, <1>6, <1>7, <1>9, <2>1, GoesOnKeeps
<1> QED
  BY <1>8, <1>9

(* The engine gave the transaction up.                                     *)
LEMMA RetryLocal ==
  ASSUME NEW R, NEW D, NEW c, NEW D2, NEW c2, Local(R, D, c),
         RetryStep(R, D, c, D2, c2)
  PROVE  Local(R, D2, c2)
<1>1. IsList(c2.todo) /\ Range(c2.todo) = {}
  BY ShortLists DEF RetryStep
<1>2. TodoOK(R, c2)
  BY <1>1 DEF TodoOK, RetryStep, Booking
<1>3. IncOK(D2, c2) /\ SumOK(c2)
  BY DEF IncOK, SumOK, RetryStep, Booking, Idle
<1>4. SnapOK(R, c2)
  BY DEF SnapOK, RetryStep, RowsOK, Grows
<1>5. OwnOK(R, D2, c2)
  BY DEF OwnOK, RetryStep, RowsOK
<1>6. PlaceOK(c2) /\ RequestOK(c2)
  BY DEF PlaceOK, RequestOK, Local, RetryStep, Idle, Booking
<1> QED
  BY <1>2, <1>3, <1>4, <1>5, <1>6 DEF Local, RetryStep

(* Whatever a call does short of its commit, what is known of it stays.    *)
LEMMA EffectLocal ==
  ASSUME NEW R, NEW D, NEW c, NEW D2, NEW c2, RowsOK(R), IsFiniteSet(DOMAIN R),
         Local(R, D, c), Effect(R, D, c, D2, c2)
  PROVE  Local(R, D2, c2)
<1> DEFINE goal == Local(R, D2, c2)
<1> SUFFICES goal
  OBVIOUS
<1>1. CASE PaidStep(R, D, c, D2, c2) \/ AccrueStep(R, D, c, D2, c2)
  BY <1>1, PaidLocal, AccrueLocal
<1>2. CASE ReceivedStep(R, D, c, D2, c2) \/ DateStep(R, D, c, D2, c2)
  BY <1>2, ReceivedLocal, DateLocal
<1>3. CASE MaintainStep(R, D, c, D2, c2) \/ SettleStep(R, D, c, D2, c2)
  BY <1>3, MaintainLocal, SettleLocal
<1>4. CASE RefundedStep(R, D, c, D2, c2) \/ VouchersStep(R, D, c, D2, c2)
  BY <1>4, RefundedLocal, VouchersLocal
<1>5. CASE VoucherStep(R, D, c, D2, c2) \/ VoidStep(R, D, c, D2, c2)
  BY <1>5, VoucherLocal, VoidLocal
<1>6. CASE ClawStep(R, D, c, D2, c2) \/ AccumulateStep(R, D, c, D2, c2)
  BY <1>6, ClawLocal, AccumulateLocal
<1>7. CASE RiskStep(R, D, c, D2, c2) \/ FreezeStep(R, D, c, D2, c2)
  BY <1>7, RiskLocal, FreezeLocal
<1>8. CASE WithdrawStep(R, D, c, D2, c2) \/ ReserveStep(R, D, c, D2, c2)
  BY <1>8, WithdrawLocal, ReserveLocal
<1>9. CASE DecisionStep(R, D, c, D2, c2) \/ DecideStep(R, D, c, D2, c2)
  BY <1>9, DecisionLocal, DecideLocal
<1>10. CASE \/ CheckStep(R, D, c, D2, c2) \/ WithdrawalsStep(R, D, c, D2, c2)
            \/ LedgerStep(R, D, c, D2, c2)
  BY <1>10, CheckLocal, WithdrawalsLocal, LedgerLocal
<1>11. CASE UpdateStep(R, D, c, D2, c2) \/ LookupStep(R, D, c, D2, c2)
  BY <1>11, UpdateLocal, LookupLocal
<1>12. CASE InsertStep(R, D, c, D2, c2) \/ RefusedStep(R, D, c, D2, c2)
  BY <1>12, InsertLocal, RefusedLocal
<1>13. CASE EntryStep(R, D, c, D2, c2) \/ RetryStep(R, D, c, D2, c2)
  BY <1>13, EntryLocal, RetryLocal
<1> HIDE DEF goal
<1> QED
  BY <1>1, <1>2, <1>3, <1>4, <1>5, <1>6, <1>7, <1>8, <1>9, <1>10, <1>11, <1>12, <1>13
     DEF Effect

-----------------------------------------------------------------------------
(***************************************************************************)
(* Commits                                                                 *)
(***************************************************************************)

(* What is committed is well formed, and grows.                            *)
LEMMA OverGrows ==
  ASSUME NEW R, NEW D, NEW c, RowsOK(R), OwnOK(R, D, c)
  PROVE  /\ RowsOK(Over(R, D)) /\ Grows(R, Over(R, D))
         /\ DOMAIN Over(R, D) = DOMAIN R \cup DOMAIN D
         /\ \A id \in DOMAIN D : Over(R, D)[id] = D[id]
         /\ \A id \in DOMAIN R \ DOMAIN D : Over(R, D)[id] = R[id]
<1> DEFINE Q == Over(R, D)
<1>1. /\ DOMAIN Q = DOMAIN R \cup DOMAIN D
      /\ \A id \in DOMAIN D : Q[id] = D[id]
      /\ \A id \in DOMAIN R \ DOMAIN D : Q[id] = R[id]
  BY DEF Over, Cur
<1> HIDE DEF Q
<1>2. RowsOK(Q)
  BY <1>1 DEF RowsOK, OwnOK
<1>3. ASSUME NEW id \in DOMAIN R, IsVersioned(id) PROVE Succeeds(R[id], Q[id])
  <2>1. CASE id \in DOMAIN D
    BY <1>1, <1>3, <2>1 DEF OwnOK
  <2>2. CASE id \notin DOMAIN D
    BY <1>1, <1>3, <2>2, GrowsReflexive DEF Grows
  <2> QED
    BY <2>1, <2>2
<1> QED
  BY <1>1, <1>2, <1>3 DEF Grows, Q

(* The rows another call has written do not move.                          *)
LEMMA OverUnmoved ==
  ASSUME NEW R, NEW D, NEW E, DOMAIN E \cap DOMAIN D = {}
  PROVE  Unmoved(R, Over(R, D), E)
BY DEF Unmoved, Over, Cur

(* Every step keeps the invariant.                                         *)
LEMMA TypeStep ==
  ASSUME TypeInv, [SqlNext]_sqlVars
  PROVE  TypeInv'
<1>1. ASSUME NEW t \in Calls, Statement(t) \/ Retry(t) PROVE TypeInv'
  <2>1. CASE Commit(t)
    <3>1. /\ engine' = engine /\ rows' = Over(rows, Mine(t))
          /\ DOMAIN call' = Calls /\ \A u \in Calls \ {t} : call'[u] = call[u]
          /\ \A u : u # t => Mine(u)' = Mine(u)
          /\ Owned' /\ IsFiniteSet(DOMAIN dirty') /\ IsFiniteSet(DOMAIN rows')
          /\ CommitStep(rows, Mine(t), call[t], Mine(t)', call'[t])
          /\ \A u \in Calls \ {t} : DOMAIN Mine(u) \cap DOMAIN Mine(t) = {}
      BY <2>1, CommitEffect
    <3>2. /\ RowsOK(rows) /\ engine \in Engines
          /\ \A u \in Calls : Local(rows, Mine(u), call[u])
      BY DEF TypeInv, StoreOK
    <3>3. OwnOK(rows, Mine(t), call[t])
      BY <3>2 DEF Local
    <3>4. RowsOK(rows') /\ Grows(rows, rows')
      BY <3>1, <3>2, <3>3, OverGrows
    <3>5. ASSUME NEW u \in Calls \ {t} PROVE Local(rows', Mine(u)', call'[u])
      <4>1. Unmoved(rows, rows', Mine(u))
        BY <3>1, OverUnmoved
      <4>2. Local(rows, Mine(u), call[u])
        BY <3>2
      <4>3. Local(rows', Mine(u), call[u])
        BY <3>2, <3>4, <4>1, <4>2, LocalKept
      <4> QED
        BY <3>1, <4>3
    <3>6. Local(rows', Mine(t)', call'[t])
      <4>1. Ended(Mine(t)', call[t], call'[t], "ok")
        BY <3>1 DEF CommitStep
      <4>2. Local(rows, Mine(t)', call'[t])
        BY <3>2, <4>1, EndedKeeps
      <4>3. Unmoved(rows, rows', Mine(t)')
        BY <4>1 DEF Unmoved, Ended
      <4> QED
        BY <3>2, <3>4, <4>2, <4>3, LocalKept
    <3> QED
      BY <3>1, <3>2, <3>4, <3>5, <3>6 DEF TypeInv, StoreOK
  <2>2. CASE /\ Alone(t)
             /\ Effect(rows, Mine(t), call[t], Mine(t)', call'[t])
    <3>1. /\ StoreOK /\ RowsOK(rows) /\ IsFiniteSet(DOMAIN rows) /\ engine \in Engines
          /\ \A u \in Calls : Local(rows, Mine(u), call[u])
      BY DEF TypeInv, StoreOK
    <3>2. Local(rows, Mine(t)', call'[t])
      BY <2>2, <3>1, EffectLocal
    <3>3. ASSUME NEW u \in Calls \ {t} PROVE Local(rows, Mine(u)', call'[u])
      <4>1. Mine(u)' = Mine(u) /\ call'[u] = call[u]
        BY <2>2 DEF Alone
      <4> QED
        BY <3>1, <4>1
    <3>4. StoreOK'
      BY <2>2, <3>1 DEF StoreOK, Alone
    <3>5. rows' = rows
      BY <2>2 DEF Alone
    <3> QED
      BY <3>2, <3>3, <3>4, <3>5 DEF TypeInv
  <2> QED
    BY <1>1, <2>1, <2>2, StepEffect
<1>2. CASE UNCHANGED sqlVars
  <2>1. \A u : Mine(u)' = Mine(u)
    BY <1>2 DEF sqlVars, Mine, OwnRows
  <2> QED
    BY <1>2, <2>1 DEF sqlVars, TypeInv, StoreOK, Owned
<1> QED
  BY <1>1, <1>2 DEF SqlNext

(* No call has begun, and nothing is stored.                               *)
LEMMA TypeInit ==
  ASSUME SqlInit
  PROVE  TypeInv
<1>1. PICK s \in Scenarios :
        call = [t \in Calls |->
                 IF t \in DOMAIN s THEN Closed(s[t], "idle", "none", 0)
                 ELSE Closed([op |-> "none", after |-> {}], "done", "none", 0)]
  BY DEF SqlInit
<1>2. /\ engine \in Engines /\ rows = << >> /\ dirty = << >> /\ DOMAIN call = Calls
  BY <1>1 DEF SqlInit
<1>3. DOMAIN << >> = {} /\ IsFiniteSet({})
  BY FS_EmptySet
<1>4. StoreOK
  BY <1>2, <1>3 DEF StoreOK, RowsOK, Owned
<1>5. ASSUME NEW t \in Calls PROVE Local(rows, Mine(t), call[t])
  <2> DEFINE c == call[t]
  <2>1. DOMAIN Mine(t) = {} /\ RowsOK(rows)
    BY <1>2, <1>3 DEF Mine, OwnRows, RowsOK
  <2>2. \/ c = Closed([op |-> "none", after |-> {}], "done", "none", 0)
        \/ t \in DOMAIN s /\ c = Closed(s[t], "idle", "none", 0)
    BY <1>1
  <2>3. ShapeOK(c) /\ c.snap = << >> /\ c.todo = << >> /\ c.pc \in {"idle", "done"}
    BY <2>2 DEF Closed, NoInc, ShapeOK, Fields, IncFields
  <2>4. MaxRetries \in Nat
    BY SqlAssumption
  <2>5. RequestOK(c) /\ PlaceOK(c)
    <3>1. CASE c = Closed([op |-> "none", after |-> {}], "done", "none", 0)
      BY <2>4, <3>1 DEF Closed, RequestOK, PlaceOK, Idle, Booking
    <3>2. CASE t \in DOMAIN s /\ c = Closed(s[t], "idle", "none", 0)
      <4>1. WellFormed(s[t])
        BY <3>2, SqlLedgerAssumption
      <4>2. c.req = s[t] /\ c.tries = 0 /\ c.pc = "idle"
        BY <3>2 DEF Closed
      <4>3. c.req.op # "none"
        BY <4>1, <4>2 DEF WellFormed
      <4> HIDE DEF c
      <4> QED
        BY <2>4, <4>1, <4>2, <4>3 DEF RequestOK, PlaceOK, Idle, Booking
    <3> QED
      BY <2>2, <3>1, <3>2
  <2> HIDE DEF c
  <2>6. IsList(c.todo) /\ Range(c.todo) = {}
    BY <2>3, ShortLists
  <2>7. TodoOK(rows, c)
    BY <2>3, <2>6 DEF TodoOK, Booking
  <2>8. IncOK(Mine(t), c) /\ SumOK(c)
    BY <2>3 DEF IncOK, SumOK, Booking, Idle
  <2>9. SnapOK(rows, c) /\ OwnOK(rows, Mine(t), c)
    BY <2>1, <2>3 DEF SnapOK, OwnOK, RowsOK, Grows
  <2> QED
    BY <2>3, <2>5, <2>7, <2>8, <2>9 DEF Local, c
<1> QED
  BY <1>4, <1>5 DEF TypeInv

(* What is known of the rows and of the calls, for any number of calls and *)
(* every interleaving of their statements.                                 *)
THEOREM TypeInvariant == SqlSpec => []TypeInv
<1>1. SqlInit => TypeInv
  BY TypeInit
<1>2. TypeInv /\ [SqlNext]_sqlVars => TypeInv'
  BY TypeStep
<1> QED
  BY <1>1, <1>2, PTL DEF SqlSpec

-----------------------------------------------------------------------------
(***************************************************************************)
(* Transactions open at a time                                             *)
(***************************************************************************)

PoolOK == Cardinality({t \in Calls : Open(t)}) <= MaxOpen

(* A statement is of an open transaction or opens one.                     *)
LEMMA OpensOne ==
  ASSUME NEW t \in Calls, Statement(t) \/ Retry(t)
  PROVE  Begins(t) \/ Open(t)
<1>1. CASE \/ OnOrderPaid(t) \/ OnOrderReceived(t) \/ MaintainTenant(t)
           \/ OnOrderRefunded(t) \/ VoidCommission(t) \/ SetRisk(t)
           \/ RequestWithdraw(t) \/ DecideWithdraw(t) \/ SelfCheck(t)
  BY <1>1 DEF OnOrderPaid, OnOrderReceived, MaintainTenant, OnOrderRefunded, VoidCommission,
              SetRisk, RequestWithdraw, DecideWithdraw, SelfCheck
<1>2. CASE \/ AccrueBase(t) \/ SetCommissionAvailableAt(t) \/ SettleOne(t)
           \/ CumulativeRefunds(t) \/ AppendRefund(t) \/ ClawBack(t)
           \/ SetCommissionReversedAmount(t) \/ TransitionRisk(t)
           \/ AppendWithdrawal(t) \/ TransitionWithdrawal(t)
  BY <1>2 DEF AccrueBase, SetCommissionAvailableAt, SettleOne, CumulativeRefunds, AppendRefund,
              ClawBack, SetCommissionReversedAmount, TransitionRisk, AppendWithdrawal,
              TransitionWithdrawal, Open
<1>3. CASE \/ CheckWithdrawals(t) \/ CheckReserved(t) \/ UpdateAccount(t)
           \/ LookupAccount(t) \/ InsertAccount(t) \/ Refused(t) \/ Booked(t) \/ Commit(t)
           \/ Retry(t)
  BY <1>3 DEF CheckWithdrawals, CheckReserved, UpdateAccount, LookupAccount, InsertAccount,
              Refused, IncrementError, Booked, AppendLedger, Commit, Loops, Retry, Open
<1> QED
  BY <1>1, <1>2, <1>3 DEF Statement

(* At first no transaction is open.                                        *)
LEMMA PoolInit ==
  ASSUME SqlInit
  PROVE  PoolOK
<1>1. \A t \in Calls : call[t].pc \in {"idle", "done"}
  BY DEF SqlInit, Closed
<1>2. {t \in Calls : Open(t)} = {}
  BY <1>1 DEF Open
<1> QED
  BY <1>2, FS_EmptySet, SqlAssumption DEF PoolOK

(* No step opens more transactions than the pool has connections.          *)
LEMMA PoolStep ==
  ASSUME TypeInv, PoolOK, [SqlNext]_sqlVars
  PROVE  PoolOK'
<1> DEFINE S == {t \in Calls : Open(t)}
           T == {t \in Calls : Open(t)}'
<1>1. IsFiniteSet(S) /\ Cardinality(S) \in Nat /\ MaxOpen \in Nat
  BY SqlAssumption, FS_Subset, FS_CardinalityType
<1>2. ASSUME NEW t \in Calls, Statement(t) \/ Retry(t) PROVE Cardinality(T) <= MaxOpen
  <2>1. \A u \in Calls \ {t} : call'[u] = call[u]
    BY <1>2, StepEffect, CommitEffect DEF Alone
  <2>2. T \subseteq S \cup {t}
    BY <2>1 DEF Open
  <2>3. CASE t \in S
    <3>1. T \subseteq S
      BY <2>2, <2>3
    <3> HIDE DEF S, T
    <3>2. Cardinality(T) <= Cardinality(S)
      BY <1>1, <3>1, FS_Subset
    <3>3. IsFiniteSet(T) /\ Cardinality(T) \in Nat
      BY <1>1, <3>1, FS_Subset, FS_CardinalityType
    <3> QED
      BY <1>1, <3>2, <3>3 DEF PoolOK, S
  <2>4. CASE t \notin S
    <3>1. Begins(t)
      BY <1>2, <2>4, OpensOne
    <3>2. Cardinality(S) < MaxOpen
      BY <3>1 DEF Begins
    <3> HIDE DEF S, T
    <3>3. IsFiniteSet(S \cup {t}) /\ Cardinality(S \cup {t}) = Cardinality(S) + 1
      BY <1>1, <2>4, FS_AddElement
    <3>4. /\ Cardinality(T) <= Cardinality(S \cup {t})
          /\ IsFiniteSet(T) /\ Cardinality(T) \in Nat
      BY <2>2, <3>3, FS_Subset, FS_CardinalityType
    <3> QED
      BY <1>1, <3>2, <3>3, <3>4
  <2> QED
    BY <2>3, <2>4
<1>3. CASE UNCHANGED sqlVars
  BY <1>3 DEF PoolOK, Open, sqlVars
<1> QED
  BY <1>2, <1>3 DEF SqlNext, PoolOK

(* The properties of the state that SqlTypeOK names.                       *)
LEMMA TypeOKHolds ==
  ASSUME TypeInv, PoolOK
  PROVE  SqlTypeOK
<1>1. /\ engine \in Engines /\ RowsOK(rows) /\ Owned
      /\ \A t \in Calls : Local(rows, Mine(t), call[t])
  BY DEF TypeInv, StoreOK
<1>2. \A id \in RowsOf("account", rows) : rows[id] \in Account
  BY <1>1 DEF RowsOf, RowsOK, RowOK
<1>3. ASSUME NEW id \in RowsOf("commission", rows), id[2][1] = "accrue"
      PROVE  /\ rows[id].reversed \in 0 .. rows[id].amount
             /\ rows[id].state \in {"pending", "frozen", "settled", "reversed", "void"}
             /\ rows[id].version \in Nat \ {0}
  <2>1. AccrualOK(id, rows[id])
    BY <1>1, <1>3, AccrualFound DEF RowsOf, IsAccrual
  <2> QED
    BY <2>1 DEF AccrualOK, AccrualRow, RowStates
<1>4. ASSUME NEW id \in DOMAIN dirty PROVE Open(dirty[id].by)
  <2>1. dirty[id].by \in Calls
    BY <1>1 DEF Owned
  <2>2. id \in DOMAIN Mine(dirty[id].by)
    BY DEF Mine, OwnRows
  <2>3. call[dirty[id].by].pc \notin Idle
    BY <1>1, <2>1, <2>2 DEF Local, OwnOK
  <2> QED
    BY <2>3 DEF Open, Idle
<1>5. \A t \in Calls : call[t].tries \in 0 .. MaxRetries
  BY <1>1 DEF Local, RequestOK
<1> QED
  BY <1>1, <1>2, <1>3, <1>4, <1>5 DEF SqlTypeOK, PoolOK

(* However the statements of any number of calls interleave: the committed *)
(* rows are well formed, no commission is reversed by more than its        *)
(* amount, an uncommitted row belongs to an open transaction, the pool is  *)
(* never exceeded and no call is tried more often than Store.maxRetries.   *)
THEOREM SqlRowsWellFormed == SqlSpec => []SqlTypeOK
<1>1. SqlInit => PoolOK
  BY PoolInit
<1>2. TypeInv /\ PoolOK /\ [SqlNext]_sqlVars => PoolOK'
  BY PoolStep
<1>3. TypeInv /\ PoolOK => SqlTypeOK
  BY TypeOKHolds
<1> QED
  BY <1>1, <1>2, <1>3, TypeInvariant, PTL DEF SqlSpec

-----------------------------------------------------------------------------
(***************************************************************************)
(* A step of the system: of one call, short of its commit or its commit    *)
(***************************************************************************)

(* What the calls other than t have written and know does not change.      *)
Rest(t) == \A u \in Calls \ {t} : Mine(u)' = Mine(u) /\ call'[u] = call[u]

Acts(t) ==
  /\ rows' = rows /\ engine' = engine /\ Rest(t)
  /\ Effect(rows, Mine(t), call[t], Mine(t)', call'[t])

Commits(t) ==
  /\ rows' = Over(rows, Mine(t)) /\ engine' = engine /\ Rest(t)
  /\ call[t].pc \in Loops /\ call[t].todo = << >>
  /\ Ended(Mine(t)', call[t], call'[t], "ok")
  /\ \A u \in Calls \ {t} : DOMAIN Mine(u) \cap DOMAIN Mine(t) = {}

Idles ==
  rows' = rows /\ engine' = engine /\ \A u \in Calls : Mine(u)' = Mine(u) /\ call'[u] = call[u]

(* A step changes nothing, is inside the transaction of one call, or       *)
(* commits it.                                                             *)
LEMMA StepCases ==
  ASSUME TypeInv, [SqlNext]_sqlVars
  PROVE  Idles \/ \E t \in Calls : Acts(t) \/ Commits(t)
<1>1. ASSUME NEW t \in Calls, Statement(t) \/ Retry(t) PROVE Acts(t) \/ Commits(t)
  <2>1. CASE Commit(t)
    BY <2>1, CommitEffect DEF Commits, CommitStep, Rest
  <2>2. CASE /\ Alone(t)
             /\ Effect(rows, Mine(t), call[t], Mine(t)', call'[t])
    BY <2>2 DEF Acts, Alone, Rest
  <2> QED
    BY <1>1, <2>1, <2>2, StepEffect
<1>2. CASE UNCHANGED sqlVars
  BY <1>2 DEF sqlVars, Mine, OwnRows, Idles
<1> QED
  BY <1>1, <1>2 DEF SqlNext

(* What is known of the rows and of one call.                              *)
LEMMA LocalFacts ==
  ASSUME TypeInv, NEW t \in Calls
  PROVE  /\ RowsOK(rows) /\ IsFiniteSet(DOMAIN rows) /\ IsFiniteSet(DOMAIN Mine(t))
         /\ Local(rows, Mine(t), call[t]) /\ OwnOK(rows, Mine(t), call[t])
<1>1. IsFiniteSet(DOMAIN Mine(t))
  BY MineMeans, FS_Subset DEF TypeInv, StoreOK
<1> QED
  BY <1>1 DEF TypeInv, StoreOK, Local

-----------------------------------------------------------------------------
(***************************************************************************)
(* No overdraft                                                            *)
(***************************************************************************)

MayOwe(b) == AllowNegative /\ b = "available"

Solvent(a) == \A b \in Buckets : a[b] >= 0 \/ MayOwe(b)

AccountsSolvent(F) == \A id \in DOMAIN F : id[1] = "account" => Solvent(F[id])

(* An increment without a guard takes nothing, but for the debt of a       *)
(* clawback; one with a guard inserts a first row it has passed.           *)
GuardOK(c) ==
  c.pc \in Booking =>
    /\ ~c.inc.guard => \A b \in Buckets : c.inc.delta[b] >= 0 \/ MayOwe(b)
    /\ c.req.op \in {"refunded", "void"} =>
         \A b \in Buckets : b # ReversalBucket(c.todo[1].row.state) => c.inc.delta[b] = 0
    /\ c.pc = "insert" /\ c.inc.guard => NegativeBuckets(Apply(EmptyAccount, c.inc.delta)) = {}

(* The second pass of a booking without a guard finds the row.             *)
FirstOK(R, D, c) ==
  c.req.op = "paid" =>
    /\ c.pc \in Booking => ~c.inc.guard
    /\ c.pc \in {"lookup", "insert"} => ~c.inc.second
    /\ c.pc = "update" /\ c.inc.second => OwnAccount(c) \in Known(R, D)
    /\ c.result # "conflict"

SolventLocal(R, D, c) == AccountsSolvent(D) /\ GuardOK(c) /\ FirstOK(R, D, c)

SolventInv ==
  AccountsSolvent(rows) /\ \A t \in Calls : SolventLocal(rows, Mine(t), call[t])

(* Rows that are not accounts do not matter.                               *)
LEMMA SolventOther ==
  ASSUME NEW D, AccountsSolvent(D), NEW id, NEW row, id[1] # "account"
  PROVE  AccountsSolvent(With(D, id, row))
BY DEF AccountsSolvent, With

(* A step that asks for no increment and books none.                       *)
LEMMA SolventQuiet ==
  ASSUME NEW R, NEW D, NEW c, NEW D2, NEW c2, SolventLocal(R, D, c), c2.req = c.req,
         c2.pc \notin Booking, AccountsSolvent(D2),
         c2.result = c.result \/ c2.result # "conflict" \/ c.req.op # "paid"
  PROVE  SolventLocal(R, D2, c2)
BY DEF SolventLocal, GuardOK, FirstOK, Booking

(* A call that ends leaves nothing to show.                                *)
LEMMA SolventEnds ==
  ASSUME NEW R, NEW D, NEW c, NEW D2, NEW c2, NEW r, SolventLocal(R, D, c), Ended(D2, c, c2, r),
         r # "conflict" \/ c.req.op # "paid"
  PROVE  SolventLocal(R, D2, c2)
BY SolventQuiet DEF Ended, AccountsSolvent, Booking

(* An increment is asked for.                                              *)
LEMMA SolventAsks ==
  ASSUME NEW R, NEW D, NEW c, NEW D2, NEW c2, SolventLocal(R, D, c), c2.req = c.req,
         c2.result = c.result, AccountsSolvent(D2),
         NEW key, NEW delta, NEW guard \in BOOLEAN, NEW biz, NEW ref,
         Asks(c2, key, delta, guard, biz, ref),
         ~guard => \A b \in Buckets : delta[b] >= 0 \/ MayOwe(b),
         c.req.op = "paid" => ~guard,
         c.req.op \in {"refunded", "void"} =>
           \A b \in Buckets : b # ReversalBucket(c2.todo[1].row.state) => delta[b] = 0
  PROVE  SolventLocal(R, D2, c2)
BY DEF SolventLocal, GuardOK, FirstOK, Asks

(* The account after an increment that was accepted.                       *)
LEMMA SolventAfter ==
  ASSUME NEW a \in Account, NEW d \in Delta, NEW guard \in BOOLEAN, Solvent(a),
         guard => NegativeBuckets(Apply(a, d)) = {},
         ~guard => \A b \in Buckets : d[b] >= 0 \/ MayOwe(b)
  PROVE  Solvent(Apply(a, d))
<1>1. /\ Apply(a, d) \in Account /\ \A b \in Buckets : Apply(a, d)[b] = a[b] + d[b]
      /\ \A b \in Buckets : a[b] \in Int /\ d[b] \in Int
  BY ApplyIs DEF Buckets, Columns, Account, Delta
<1> HIDE DEF Apply
<1>2. CASE guard
  BY <1>1, <1>2 DEF NegativeBuckets, Solvent
<1>3. CASE ~guard
  BY <1>1, <1>3 DEF Solvent
<1> QED
  BY <1>2, <1>3

(* A solvent account written keeps the accounts solvent.                   *)
LEMMA SolventAccount ==
  ASSUME NEW D, AccountsSolvent(D), NEW id, NEW a, Solvent(a)
  PROVE  AccountsSolvent(With(D, id, a))
BY DEF AccountsSolvent, With

(* The conditional update of an account keeps it solvent.                  *)
LEMMA SolventUpdate ==
  ASSUME NEW R, NEW D, NEW c, NEW D2, NEW c2, RowsOK(R), Local(R, D, c),
         AccountsSolvent(R), SolventLocal(R, D, c), UpdateStep(R, D, c, D2, c2)
  PROVE  SolventLocal(R, D2, c2)
<1> DEFINE k == c.inc.key
           d == c.inc.delta
           g == c.inc.guard
           id == <<"account", k>>
           cur == Cur(R, D, id)
           after == Apply(cur, d)
           accepted == g => NegativeBuckets(after) = {}
<1>1. /\ c.pc = "update" /\ RowsOK(D) /\ k \in Agents /\ d \in Delta /\ g \in BOOLEAN
      /\ AccountsSolvent(D) /\ GuardOK(c) /\ FirstOK(R, D, c)
  BY DEF UpdateStep, Local, IncOK, OwnOK, Booking, SolventLocal
<1>2. CASE /\ id \in Known(R, D) /\ accepted
           /\ D2 = With(D, id, after) /\ MovesTo(c, c2, "entry")
  <2>1. cur \in Account /\ Solvent(cur)
    <3>1. id[1] = "account" /\ (id \in DOMAIN D \/ id \in DOMAIN R)
      BY <1>2 DEF Known
    <3> HIDE DEF id
    <3> QED
      BY <1>1, <3>1 DEF Cur, RowsOK, RowOK, AccountsSolvent
  <2>2. ~g => \A b \in Buckets : d[b] >= 0 \/ MayOwe(b)
    BY <1>1 DEF GuardOK, Booking
  <2>3. Solvent(after)
    <3> HIDE DEF cur, d, g
    <3> QED
      BY <1>1, <1>2, <2>1, <2>2, SolventAfter
  <2> HIDE DEF id, after
  <2>4. AccountsSolvent(D2)
    BY <1>1, <1>2, <2>3, SolventAccount
  <2>5. GuardOK(c2) /\ FirstOK(R, D2, c2)
    BY <1>1, <1>2 DEF MovesTo, Flows, GuardOK, FirstOK, Booking
  <2> QED
    BY <2>4, <2>5 DEF SolventLocal
<1>3. CASE /\ id \notin Known(R, D) \/ ~accepted
           /\ D2 = D /\ MovesTo(c, c2, "lookup")
  <2>1. GuardOK(c2)
    BY <1>1, <1>3 DEF MovesTo, Flows, GuardOK, Booking
  <2>2. FirstOK(R, D2, c2)
    <3>1. c.req.op = "paid" => ~g /\ ~c.inc.second
      BY <1>1, <1>3 DEF FirstOK, OwnAccount, Booking
    <3> QED
      BY <1>1, <1>3, <3>1 DEF MovesTo, Flows, FirstOK
  <2> QED
    BY <1>1, <1>3, <2>1, <2>2 DEF SolventLocal
<1> QED
  BY <1>2, <1>3 DEF UpdateStep, OwnAccount

(* Looking for the account changes no balance.                             *)
LEMMA SolventLookup ==
  ASSUME NEW R, NEW D, NEW c, NEW D2, NEW c2, Local(R, D, c),
         SolventLocal(R, D, c), LookupStep(R, D, c, D2, c2)
  PROVE  SolventLocal(R, D2, c2)
<1>1. c.pc = "lookup" /\ D2 = D /\ AccountsSolvent(D) /\ GuardOK(c) /\ FirstOK(R, D, c)
  BY DEF LookupStep, SolventLocal
<1>2. CASE OwnAccount(c) \in Known(R, D) /\ Passes(c, c2)
  BY <1>1, <1>2 DEF Passes, Flows, SolventLocal, GuardOK, FirstOK, OwnAccount, Booking
<1>3. CASE /\ c.inc.guard => NegativeBuckets(Apply(EmptyAccount, c.inc.delta)) = {}
           /\ MovesTo(c, c2, "insert")
  BY <1>1, <1>3 DEF MovesTo, Flows, SolventLocal, GuardOK, FirstOK, Booking
<1> QED
  BY <1>2, <1>3 DEF LookupStep

(* A new account is empty, hence solvent.                                  *)
LEMMA SolventInsert ==
  ASSUME NEW R, NEW D, NEW c, NEW D2, NEW c2, Local(R, D, c),
         SolventLocal(R, D, c), InsertStep(R, D, c, D2, c2)
  PROVE  SolventLocal(R, D2, c2)
<1> DEFINE d == c.inc.delta
           g == c.inc.guard
           id == OwnAccount(c)
           after == Apply(EmptyAccount, d)
<1>1. /\ c.pc = "insert" /\ AccountsSolvent(D) /\ GuardOK(c) /\ FirstOK(R, D, c)
      /\ d \in Delta /\ g \in BOOLEAN
  BY DEF InsertStep, SolventLocal, Local, IncOK, Booking
<1>2. CASE id \in Known(R, D) /\ D2 = D /\ Passes(c, c2)
  BY <1>1, <1>2 DEF Passes, Flows, SolventLocal, GuardOK, FirstOK, OwnAccount, Booking
<1>3. CASE D2 = With(D, id, after) /\ MovesTo(c, c2, "entry")
  <2>1. /\ g => NegativeBuckets(after) = {}
        /\ ~g => \A b \in Buckets : d[b] >= 0 \/ MayOwe(b)
    BY <1>1 DEF GuardOK, Booking
  <2>2. EmptyAccount \in Account /\ Solvent(EmptyAccount)
    BY NoDeltaIs DEF EmptyAccount, Solvent, Buckets, Columns
  <2>3. Solvent(after)
    <3> HIDE DEF d, g
    <3> QED
      BY <1>1, <2>1, <2>2, SolventAfter
  <2> HIDE DEF id, after
  <2>4. AccountsSolvent(D2)
    BY <1>1, <1>3, <2>3, SolventAccount
  <2>5. GuardOK(c2) /\ FirstOK(R, D2, c2)
    BY <1>1, <1>3 DEF MovesTo, Flows, GuardOK, FirstOK, Booking
  <2> QED
    BY <2>4, <2>5 DEF SolventLocal
<1> QED
  BY <1>2, <1>3 DEF InsertStep

(* A refused move changes no balance.                                      *)
LEMMA SolventRefused ==
  ASSUME NEW R, NEW D, NEW c, NEW D2, NEW c2, Local(R, D, c),
         SolventLocal(R, D, c), RefusedStep(R, D, c, D2, c2)
  PROVE  SolventLocal(R, D2, c2)
<1>1. /\ c.pc \in {"lookup", "insert"} /\ c.pc \in Booking /\ c.inc.delta \in Delta
      /\ AccountsSolvent(D) /\ GuardOK(c) /\ FirstOK(R, D, c)
  BY DEF RefusedStep, SolventLocal, Local, IncOK, Booking
<1>2. CASE /\ AllowNegative /\ c.req.op \in {"refunded", "void"}
           /\ ReversalBucket(c.todo[1].row.state) = "available"
           /\ D2 = D
           /\ Increments(c, c2, c.inc.key, c.inc.delta, FALSE, c.inc.biz, c.inc.ref)
  <2>1. \A b \in Buckets : b # "available" => c.inc.delta[b] = 0
    BY <1>1, <1>2 DEF GuardOK
  <2>2. \A b \in Buckets : c.inc.delta[b] >= 0 \/ MayOwe(b)
    BY <1>2, <2>1 DEF MayOwe
  <2>3. /\ c2.req = c.req /\ c2.result = c.result /\ c2.todo = c.todo
        /\ Asks(c2, c.inc.key, c.inc.delta, FALSE, c.inc.biz, c.inc.ref)
    BY <1>2 DEF Increments, Flows
  <2>4. GuardOK(c2)
    BY <1>1, <2>2, <2>3 DEF GuardOK, Asks
  <2>5. FirstOK(R, D2, c2)
    BY <1>2, <2>3 DEF FirstOK
  <2> QED
    BY <1>1, <1>2, <2>4, <2>5 DEF SolventLocal
<1>3. CASE c.req.op = "maintain" /\ D2 = D /\ GoesOn(c, c2, "settle")
  BY <1>1, <1>3, SolventQuiet DEF GoesOn, Flows, Booking
<1>4. CASE Ended(D2, c, c2, "insufficient")
  BY <1>4, SolventEnds
<1>5. CASE c.inc.second /\ Ended(D2, c, c2, "conflict")
  <2>1. c.req.op # "paid"
    BY <1>1, <1>5 DEF FirstOK
  <2> QED
    BY <1>5, <2>1, SolventEnds
<1> QED
  BY <1>2, <1>3, <1>4, <1>5 DEF RefusedStep

(* What the operations ask of an account.                                  *)
LEMMA SolventAccrue ==
  ASSUME NEW R, NEW D, NEW c, NEW D2, NEW c2, Local(R, D, c),
         SolventLocal(R, D, c), AccrueStep(R, D, c, D2, c2)
  PROVE  SolventLocal(R, D2, c2)
<1> DEFINE x == c.todo[1]
           key == AccrualKey(c.req.order, x.agent)
           id == <<"commission", key>>
           k == x.agent
           d == Credit(x)
           row == NewAccrual(x)
<1>1. AccountsSolvent(D) /\ c.req.op = "paid" /\ c.todo # << >>
  BY DEF SolventLocal, AccrueStep, Local, PlaceOK
<1>2. CASE D2 = D /\ GoesOn(c, c2, "accrue")
  BY <1>1, <1>2, SolventQuiet DEF GoesOn, Flows, Booking
<1>3. CASE /\ D2 = With(D, id, row)
           /\ Increments(c, c2, k, d, FALSE, "accrue", key)
  <2>1. x.amount \in Nat
    BY <1>1, HeadCopy DEF Local, LayerItem
  <2>2. \A b \in Buckets : d[b] >= 0
    <3> DEFINE n == x.amount
    <3> HIDE DEF x
    <3>1. d = [NoDelta EXCEPT !["frozen"] = n, !["totalEarned"] = n]
      BY DEF Credit
    <3> HIDE DEF d, n
    <3>2. \A b \in Buckets : d[b] = IF b = "frozen" THEN n ELSE 0
      BY <3>1 DEF NoDelta, Buckets, Columns, Totals
    <3> QED
      BY <2>1, <3>2 DEF n
  <2>3. id[1] # "account"
    OBVIOUS
  <2> HIDE DEF id, key, k, d, row
  <2>4. AccountsSolvent(D2)
    BY <1>1, <1>3, <2>3, SolventOther
  <2> QED
    BY <1>1, <1>3, <2>2, <2>4, SolventAsks DEF Increments, Flows
<1> QED
  BY <1>2, <1>3 DEF AccrueStep

(* A settlement asks for a move it may make.                               *)
LEMMA SolventSettle ==
  ASSUME NEW R, NEW D, NEW c, NEW D2, NEW c2, Local(R, D, c),
         SolventLocal(R, D, c), SettleStep(R, D, c, D2, c2)
  PROVE  SolventLocal(R, D2, c2)
<1> DEFINE x == c.todo[1]
           k == x.row.agent
           ref == x.id[2]
           id == x.id
           d == MoveDelta("frozen", "available", Outstanding(x.row))
           row == [x.row EXCEPT !.state = "settled", !.version = @ + 1]
<1>1. AccountsSolvent(D) /\ c.req.op = "maintain" /\ c.todo # << >>
  BY DEF SolventLocal, SettleStep, Local, PlaceOK
<1>2. CASE D2 = D /\ GoesOn(c, c2, "settle")
  BY <1>1, <1>2, SolventQuiet DEF GoesOn, Flows, Booking
<1>3. CASE /\ D2 = With(D, id, row)
           /\ Increments(c, c2, k, d, TRUE, "settle", ref)
  <2>1. id[1] # "account"
    BY <1>1, HeadCopy DEF Local, IsAccrual
  <2> HIDE DEF id, k, d, row, ref
  <2>2. AccountsSolvent(D2)
    BY <1>1, <1>3, <2>1, SolventOther
  <2> QED
    BY <1>1, <1>3, <2>2, SolventAsks DEF Increments, Flows
<1> QED
  BY <1>2, <1>3 DEF SettleStep, Swaps

(* A clawback asks for a move it may make.                                 *)
LEMMA SolventAccumulate ==
  ASSUME NEW R, NEW D, NEW c, NEW D2, NEW c2, Local(R, D, c),
         SolventLocal(R, D, c), AccumulateStep(R, D, c, D2, c2)
  PROVE  SolventLocal(R, D2, c2)
<1> DEFINE x == c.todo[1]
           id == x.id
           k == x.row.agent
           ref == ReversalId(c)[2]
           d == Debit(c)
<1>1. /\ AccountsSolvent(D) /\ c.req.op \in {"refunded", "void"} /\ c.todo # << >>
      /\ c.pc = "accumulate"
  BY DEF SolventLocal, AccumulateStep, Local, PlaceOK, TodoOK
<1>2. CASE Ended(D2, c, c2, "conflict")
  BY <1>1, <1>2, SolventEnds
<1>3. CASE ~Ended(D2, c, c2, "conflict")
  <2>1. PICK biz : Increments(c, c2, k, d, TRUE, biz, ref)
    BY <1>3 DEF AccumulateStep
  <2>2. PICK row : D2 = With(D, id, row)
    BY <1>3 DEF AccumulateStep, Swaps
  <2>3. id[1] # "account" /\ c2.todo = c.todo
    BY <1>1, <2>1, HeadCopy DEF Local, IsAccrual, Increments
  <2>4. \A b \in Buckets : b # ReversalBucket(c.todo[1].row.state) => d[b] = 0
    <3> DEFINE e == ReversalBucket(c.todo[1].row.state)
               n == Reversed(c)
    <3>1. d = [NoDelta EXCEPT ![e] = -n, !["totalReversed"] = n]
      BY DEF Debit
    <3> HIDE DEF d, e, n
    <3> QED
      BY <3>1 DEF NoDelta, Buckets, Columns, Totals, e
  <2> HIDE DEF id, k, d, ref
  <2>5. AccountsSolvent(D2)
    BY <1>1, <2>2, <2>3, SolventOther
  <2>6. /\ c2.req = c.req /\ c2.result = c.result /\ Asks(c2, k, d, TRUE, biz, ref)
        /\ \A b \in Buckets : b # ReversalBucket(c2.todo[1].row.state) => d[b] = 0
    BY <2>1, <2>3, <2>4 DEF Increments, Flows
  <2> DEFINE g == TRUE
  <2>7. g \in BOOLEAN /\ g /\ Asks(c2, k, d, g, biz, ref)
    BY <2>6
  <2> HIDE DEF g, x
  <2> QED
    BY <1>1, <2>5, <2>6, <2>7, SolventAsks
<1> QED
  BY <1>2, <1>3

(* A reservation asks for a move it may make.                              *)
LEMMA SolventReserve ==
  ASSUME NEW R, NEW D, NEW c, NEW D2, NEW c2, Local(R, D, c),
         SolventLocal(R, D, c), ReserveStep(R, D, c, D2, c2)
  PROVE  SolventLocal(R, D2, c2)
<1> DEFINE id == <<"withdrawal", c.req.key>>
           k == c.req.agent
           ref == c.req.key
           row == NewWithdrawal(c)
           d == MoveDelta("available", "withdrawing", c.req.amount)
<1>1. AccountsSolvent(D) /\ c.req.op = "withdraw"
  BY DEF SolventLocal, ReserveStep, Local, PlaceOK
<1>2. CASE \E r \in {"existed", "notfound"} : Ended(D2, c, c2, r)
  BY <1>1, <1>2, SolventEnds
<1>3. CASE /\ D2 = With(D, id, row)
           /\ Increments(c, c2, k, d, TRUE, "withdraw_hold", ref)
  <2>1. id[1] # "account"
    OBVIOUS
  <2> HIDE DEF id, k, d, row, ref
  <2>2. AccountsSolvent(D2)
    BY <1>1, <1>3, <2>1, SolventOther
  <2> QED
    BY <1>1, <1>3, <2>2, SolventAsks DEF Increments, Flows
<1> QED
  BY <1>2, <1>3 DEF ReserveStep

(* A decision asks for a move it may make.                                 *)
LEMMA SolventDecision ==
  ASSUME NEW R, NEW D, NEW c, NEW D2, NEW c2, Local(R, D, c),
         SolventLocal(R, D, c), DecisionStep(R, D, c, D2, c2)
  PROVE  SolventLocal(R, D2, c2)
<1> DEFINE id == <<"withdrawal", c.req.key>>
           k == R[id].agent
           ref == c.req.key
           d == MoveDelta("withdrawing", DecisionBucket(c), R[id].amount)
           biz == DecisionBiz(c)
<1>1. AccountsSolvent(D) /\ c.req.op \in {"payout", "reject"}
  BY DEF SolventLocal, DecisionStep
<1>2. CASE Ended(D2, c, c2, "refused")
  BY <1>1, <1>2, SolventEnds
<1>3. CASE Begun(R, D, c, D2, c2) /\ Asks(c2, k, d, TRUE, biz, ref)
  <2> HIDE DEF id, k, d, ref, biz
  <2> QED
    BY <1>1, <1>3, SolventAsks DEF Begun
<1> QED
  BY <1>2, <1>3 DEF DecisionStep

(* The steps that ask for no increment and book none.                      *)
LEMMA SolventBegins ==
  ASSUME NEW R, NEW D, NEW c, NEW D2, NEW c2, Local(R, D, c), SolventLocal(R, D, c),
         \/ PaidStep(R, D, c, D2, c2) \/ ReceivedStep(R, D, c, D2, c2)
         \/ MaintainStep(R, D, c, D2, c2) \/ RefundedStep(R, D, c, D2, c2)
         \/ VoidStep(R, D, c, D2, c2) \/ RiskStep(R, D, c, D2, c2)
         \/ WithdrawStep(R, D, c, D2, c2) \/ CheckStep(R, D, c, D2, c2)
  PROVE  SolventLocal(R, D2, c2)
<1>1. CASE \E r \in {"replayed", "skipped", "refused", "existed"} : Ended(D2, c, c2, r)
  BY <1>1, SolventEnds
<1>2. CASE Begun(R, D, c, D2, c2) /\ c2.pc \notin Booking
  <2>1. AccountsSolvent(D2)
    BY <1>2 DEF SolventLocal, Begun
  <2> QED
    BY <1>2, <2>1, SolventQuiet DEF Begun
<1> QED
  BY <1>1, <1>2 DEF PaidStep, ReceivedStep, MaintainStep, RefundedStep, VoidStep, RiskStep,
                    WithdrawStep, CheckStep, Booking

(* Dating, freezing and deciding change no balance.                        *)
LEMMA SolventMoves ==
  ASSUME NEW R, NEW D, NEW c, NEW D2, NEW c2, Local(R, D, c), SolventLocal(R, D, c),
         \/ DateStep(R, D, c, D2, c2) \/ FreezeStep(R, D, c, D2, c2)
         \/ DecideStep(R, D, c, D2, c2)
  PROVE  SolventLocal(R, D2, c2)
<1>1. c.req.op # "paid" /\ AccountsSolvent(D)
  BY DEF DateStep, FreezeStep, DecideStep, Local, PlaceOK, SolventLocal
<1>2. CASE Ended(D2, c, c2, "conflict")
  BY <1>1, <1>2, SolventEnds
<1>3. CASE ~Ended(D2, c, c2, "conflict")
  <2>1. /\ c2.req = c.req /\ c2.pc \notin Booking
        /\ c.todo # << >> /\ c.req.op \in {"received", "risk", "payout", "reject"}
    BY <1>3 DEF DateStep, FreezeStep, DecideStep, GoesOn, Flows, Booking, Local, PlaceOK, TodoOK
  <2>2. c.todo[1].id[1] # "account"
    BY <2>1, HeadCopy DEF Local, IsAccrual
  <2>3. D2 = D \/ \E row : D2 = With(D, c.todo[1].id, row)
    BY <1>3 DEF DateStep, FreezeStep, DecideStep, Swaps
  <2> DEFINE id == c.todo[1].id
  <2> HIDE DEF id
  <2>4. AccountsSolvent(D2)
    <3>1. id[1] # "account" /\ (D2 = D \/ \E row : D2 = With(D, id, row))
      BY <2>2, <2>3 DEF id
    <3> QED
      BY <1>1, <3>1, SolventOther
  <2> QED
    BY <1>1, <2>1, <2>4, SolventQuiet
<1> QED
  BY <1>2, <1>3

(* The inserts, the checks and the retries change no balance.              *)
LEMMA SolventInserts ==
  ASSUME NEW R, NEW D, NEW c, NEW D2, NEW c2, Local(R, D, c), SolventLocal(R, D, c),
         \/ VouchersStep(R, D, c, D2, c2) \/ VoucherStep(R, D, c, D2, c2)
         \/ ClawStep(R, D, c, D2, c2) \/ WithdrawalsStep(R, D, c, D2, c2)
         \/ LedgerStep(R, D, c, D2, c2) \/ EntryStep(R, D, c, D2, c2)
         \/ RetryStep(R, D, c, D2, c2)
  PROVE  SolventLocal(R, D2, c2)
<1>1. AccountsSolvent(D)
  BY DEF SolventLocal
<1>2. CASE VouchersStep(R, D, c, D2, c2)
  BY <1>1, <1>2, SolventEnds, SolventQuiet DEF VouchersStep, Booking
<1>3. CASE VoucherStep(R, D, c, D2, c2)
  <2> DEFINE id == <<"refund", <<c.req.order, c.req.key>>>>
  <2>1. id[1] # "account"
    OBVIOUS
  <2>2. D2 = D \/ \E row : D2 = With(D, id, row)
    BY <1>3 DEF VoucherStep
  <2> HIDE DEF id
  <2>3. AccountsSolvent(D2)
    BY <1>1, <2>1, <2>2, SolventOther
  <2> QED
    BY <1>3, <2>3, SolventQuiet DEF VoucherStep, Flows, Booking
<1>4. CASE ClawStep(R, D, c, D2, c2)
  <2> DEFINE id == ReversalId(c)
  <2>1. id[1] # "account"
    BY DEF ReversalId
  <2>2. D2 = D \/ \E row : D2 = With(D, id, row)
    BY <1>4 DEF ClawStep
  <2> HIDE DEF id
  <2>3. AccountsSolvent(D2)
    BY <1>1, <2>1, <2>2, SolventOther
  <2> QED
    BY <1>4, <2>3, SolventQuiet DEF ClawStep, GoesOn, Flows, Booking
<1>5. CASE WithdrawalsStep(R, D, c, D2, c2)
  BY <1>1, <1>5, SolventEnds, SolventQuiet DEF WithdrawalsStep, Flows, Booking
<1>6. CASE LedgerStep(R, D, c, D2, c2)
  BY <1>6, SolventEnds DEF LedgerStep
<1>7. CASE EntryStep(R, D, c, D2, c2)
  <2>1. PICK n : D2 = With(D, <<"ledger", n>>, NewEntry(D, c))
    BY <1>7 DEF EntryStep
  <2> DEFINE id == <<"ledger", n>>
             row == NewEntry(D, c)
  <2>2. id[1] # "account"
    OBVIOUS
  <2> HIDE DEF id, row
  <2>3. AccountsSolvent(D2)
    BY <1>1, <2>1, <2>2, SolventOther DEF id, row
  <2>4. c2.pc \notin Booking
    BY <1>7 DEF EntryStep, LoopFor, Booking
  <2> QED
    BY <1>7, <2>3, <2>4, SolventQuiet DEF EntryStep, Flows
<1>8. CASE RetryStep(R, D, c, D2, c2)
  BY <1>8, SolventQuiet DEF RetryStep, AccountsSolvent, Booking
<1> QED
  BY <1>2, <1>3, <1>4, <1>5, <1>6, <1>7, <1>8

(* Nothing a call does overdraws an account.                               *)
LEMMA SolventEffect ==
  ASSUME NEW R, NEW D, NEW c, NEW D2, NEW c2, RowsOK(R), Local(R, D, c),
         AccountsSolvent(R), SolventLocal(R, D, c), Effect(R, D, c, D2, c2)
  PROVE  SolventLocal(R, D2, c2)
<1> DEFINE goal == SolventLocal(R, D2, c2)
<1> SUFFICES goal
  OBVIOUS
<1>1. CASE \/ UpdateStep(R, D, c, D2, c2) \/ LookupStep(R, D, c, D2, c2)
           \/ InsertStep(R, D, c, D2, c2) \/ RefusedStep(R, D, c, D2, c2)
  BY <1>1, SolventUpdate, SolventLookup, SolventInsert, SolventRefused
<1>2. CASE \/ AccrueStep(R, D, c, D2, c2) \/ SettleStep(R, D, c, D2, c2)
           \/ AccumulateStep(R, D, c, D2, c2) \/ ReserveStep(R, D, c, D2, c2)
           \/ DecisionStep(R, D, c, D2, c2)
  BY <1>2, SolventAccrue, SolventSettle, SolventAccumulate, SolventReserve, SolventDecision
<1>3. CASE \/ PaidStep(R, D, c, D2, c2) \/ ReceivedStep(R, D, c, D2, c2)
           \/ MaintainStep(R, D, c, D2, c2) \/ RefundedStep(R, D, c, D2, c2)
           \/ VoidStep(R, D, c, D2, c2) \/ RiskStep(R, D, c, D2, c2)
           \/ WithdrawStep(R, D, c, D2, c2) \/ CheckStep(R, D, c, D2, c2)
  BY <1>3, SolventBegins
<1>4. CASE \/ DateStep(R, D, c, D2, c2) \/ FreezeStep(R, D, c, D2, c2)
           \/ DecideStep(R, D, c, D2, c2)
  BY <1>4, SolventMoves
<1>5. CASE \/ VouchersStep(R, D, c, D2, c2) \/ VoucherStep(R, D, c, D2, c2)
           \/ ClawStep(R, D, c, D2, c2) \/ WithdrawalsStep(R, D, c, D2, c2)
           \/ LedgerStep(R, D, c, D2, c2) \/ EntryStep(R, D, c, D2, c2)
           \/ RetryStep(R, D, c, D2, c2)
  BY <1>5, SolventInserts
<1> HIDE DEF goal
<1> QED
  BY <1>1, <1>2, <1>3, <1>4, <1>5 DEF Effect

(* No step overdraws an account.                                           *)
LEMMA SolventStep ==
  ASSUME TypeInv, SolventInv, [SqlNext]_sqlVars
  PROVE  SolventInv'
<1>1. AccountsSolvent(rows) /\ \A t \in Calls : SolventLocal(rows, Mine(t), call[t])
  BY DEF SolventInv
<1>2. ASSUME NEW t \in Calls, Acts(t) PROVE SolventInv'
  <2>1. SolventLocal(rows, Mine(t)', call'[t])
    BY <1>1, <1>2, LocalFacts, SolventEffect DEF Acts
  <2> QED
    BY <1>1, <1>2, <2>1 DEF SolventInv, Acts, Rest
<1>3. ASSUME NEW t \in Calls, Commits(t) PROVE SolventInv'
  <2>1. AccountsSolvent(rows') /\ DOMAIN rows' = DOMAIN rows \cup DOMAIN Mine(t)
    BY <1>1, <1>3 DEF AccountsSolvent, Commits, Over, Cur, SolventLocal
  <2>2. SolventLocal(rows', Mine(t)', call'[t])
    <3>1. SolventLocal(rows, Mine(t)', call'[t])
      BY <1>1, <1>3, SolventEnds DEF Commits
    <3> QED
      BY <1>3, <3>1 DEF SolventLocal, FirstOK, Commits, Ended, Booking
  <2>3. ASSUME NEW u \in Calls \ {t} PROVE SolventLocal(rows', Mine(u)', call'[u])
    BY <1>1, <1>3, <2>1 DEF SolventLocal, FirstOK, Known, Commits, Rest
  <2> QED
    BY <2>1, <2>2, <2>3 DEF SolventInv
<1>4. CASE Idles
  BY <1>1, <1>4 DEF SolventInv, Idles
<1> QED
  BY <1>2, <1>3, <1>4, StepCases

(* There is no account at first.                                           *)
LEMMA SolventInit ==
  ASSUME SqlInit
  PROVE  SolventInv
<1>1. rows = << >> /\ dirty = << >>
  BY DEF SqlInit
<1>2. \A t \in Calls : call[t].pc \in {"idle", "done"} /\ call[t].result = "none"
  BY DEF SqlInit, Closed
<1>3. \A t \in Calls : DOMAIN Mine(t) = {}
  BY <1>1 DEF Mine, OwnRows
<1> QED
  BY <1>1, <1>2, <1>3 DEF SolventInv, SolventLocal, AccountsSolvent, GuardOK, FirstOK, Booking

(* However withdrawals, clawbacks and payments interleave, no two of them  *)
(* spend the same money: the guard of an increment is part of its UPDATE,  *)
(* so no bucket is ever committed below zero, but for the available bucket *)
(* where the rules allow the debt.                                         *)
THEOREM ConcurrentNoOverdraft == SqlSpec => []SqlNoOverdraft
<1>1. SqlInit => SolventInv
  BY SolventInit
<1>2. TypeInv /\ SolventInv /\ [SqlNext]_sqlVars => SolventInv'
  BY SolventStep
<1>3. ASSUME TypeInv, SolventInv PROVE SqlNoOverdraft
  <2>1. ASSUME NEW k \in Agents, NEW b \in Buckets, CommittedAccount(k)[b] < 0
        PROVE  AllowNegative /\ b = "available"
    <3> DEFINE id == <<"account", k>>
    <3>1. id \in DOMAIN rows
      BY <2>1 DEF CommittedAccount, Buckets
    <3>2. id[1] = "account" /\ rows[id] = CommittedAccount(k)
      BY <3>1 DEF CommittedAccount
    <3> HIDE DEF id
    <3>3. rows[id] \in Account
      BY <1>3, <3>1, <3>2 DEF TypeInv, StoreOK, RowsOK, RowOK
    <3>4. Solvent(rows[id])
      BY <3>1, <3>2, <1>3 DEF SolventInv, AccountsSolvent
    <3> QED
      BY <2>1, <3>2, <3>3, <3>4 DEF Solvent, MayOwe, Account, Buckets, Columns
  <2> DEFINE acc == [k \in Agents |-> CommittedAccount(k)]
  <2>2. \A k \in Agents : acc[k] = CommittedAccount(k)
    OBVIOUS
  <2> HIDE DEF acc
  <2>3. NoUnallowedDebt(acc, AllowNegative)
    BY <2>1, <2>2 DEF NoUnallowedDebt, NegativeBuckets
  <2> QED
    BY <2>3 DEF SqlNoOverdraft, acc
<1> QED
  BY <1>1, <1>2, <1>3, TypeInvariant, PTL DEF SqlSpec

(* The first bookings of an account may race each other, and the second    *)
(* pass of IncrementAccount then finds the row: a payment is never         *)
(* answered with a conflict.                                               *)
THEOREM ConcurrentFirstBookings == SqlSpec => []FirstBookingAccepted
<1>1. SqlInit => SolventInv
  BY SolventInit
<1>2. TypeInv /\ SolventInv /\ [SqlNext]_sqlVars => SolventInv'
  BY SolventStep
<1>3. SolventInv => FirstBookingAccepted
  BY DEF SolventInv, SolventLocal, FirstOK, FirstBookingAccepted, Req
<1> QED
  BY <1>1, <1>2, <1>3, TypeInvariant, PTL DEF SqlSpec

-----------------------------------------------------------------------------
(***************************************************************************)
(* One outcome of a withdrawal                                             *)
(***************************************************************************)

DecisionBizs == {"withdraw_paid", "withdraw_refund"}

StateFor(biz) == IF biz = "withdraw_paid" THEN "paid" ELSE "rejected"

IsDecision(F, e) == e[1] = "ledger" /\ F[e].biz \in DecisionBizs

(* Every decision has its entry, and every entry its decision.             *)
DecisionsBooked(R) ==
  /\ \A e \in DOMAIN R : IsDecision(R, e) =>
       /\ <<"withdrawal", R[e].ref>> \in DOMAIN R
       /\ R[<<"withdrawal", R[e].ref>>].state = StateFor(R[e].biz)
  /\ \A w \in DOMAIN R : w[1] = "withdrawal" /\ R[w].state # "reserved" =>
       \E e \in DOMAIN R :
         IsDecision(R, e) /\ R[e].ref = w[2] /\ R[w].state = StateFor(R[e].biz)

(* The entry a call is about to write is of its own decision.              *)
BizOK(c) ==
  c.pc \in Booking =>
    /\ c.req.op \in {"payout", "reject"} => c.inc.biz = DecisionBiz(c) /\ c.inc.ref = c.req.key
    /\ c.req.op \notin {"payout", "reject"} => c.inc.biz \notin DecisionBizs

(* A call has written the entry of its decision, then its state; a         *)
(* withdrawal it has written otherwise is new.                             *)
DecidedLocal(R, D, c) ==
  /\ \A e \in DOMAIN D : IsDecision(D, e) =>
       c.pc \in {"decide", "decided"} /\ D[e].ref = c.req.key /\ D[e].biz = DecisionBiz(c)
  /\ c.pc \in {"decide", "decided"} =>
       \E e \in DOMAIN D : IsDecision(D, e)
  /\ \A w \in DOMAIN D : w[1] = "withdrawal" =>
       \/ w \notin DOMAIN R /\ D[w].state = "reserved"
       \/ /\ c.pc = "decided" /\ w = <<"withdrawal", c.req.key>>
          /\ w \in DOMAIN R /\ R[w].state = "reserved" /\ D[w].state = DecisionState(c)
  /\ c.pc = "decided" => <<"withdrawal", c.req.key>> \in DOMAIN D \cap DOMAIN R
  /\ BizOK(c)

DecidedInv ==
  DecisionsBooked(rows) /\ \A t \in Calls : DecidedLocal(rows, Mine(t), call[t])

(* The same entries and withdrawals.                                       *)
SameAudit(D, D2) ==
  \A id : id[1] \in {"ledger", "withdrawal"} =>
    (id \in DOMAIN D <=> id \in DOMAIN D2) /\ (id \in DOMAIN D => D2[id] = D[id])

(* A step that touches neither entries nor withdrawals.                    *)
LEMMA DecidedSame ==
  ASSUME NEW R, NEW D, NEW c, NEW D2, NEW c2, DecidedLocal(R, D, c), SameAudit(D, D2),
         c2.req = c.req, c.pc \notin {"decide", "decided"}, c2.pc \notin {"decide", "decided"},
         BizOK(c2)
  PROVE  DecidedLocal(R, D2, c2)
<1>1. \A e \in DOMAIN D2 : IsDecision(D2, e) => e \in DOMAIN D /\ IsDecision(D, e)
  BY DEF SameAudit, IsDecision
<1>2. \A w \in DOMAIN D2 : w[1] = "withdrawal" => w \in DOMAIN D /\ D2[w] = D[w]
  BY DEF SameAudit
<1> QED
  BY <1>1, <1>2 DEF DecidedLocal

(* A call that wrote nothing is not between an entry and its state.        *)
LEMMA DecidedEmpty ==
  ASSUME NEW R, NEW D2, NEW c2, DOMAIN D2 = {}, c2.pc \notin {"decide", "decided"}, BizOK(c2)
  PROVE  DecidedLocal(R, D2, c2)
BY DEF DecidedLocal

(* Rows that are neither entries nor withdrawals do not matter.            *)
LEMMA SameAuditWith ==
  ASSUME NEW D, NEW id, NEW row, id[1] \notin {"ledger", "withdrawal"}
  PROVE  SameAudit(D, With(D, id, row)) /\ SameAudit(D, D)
BY DEF SameAudit, With

(* The steps that begin or end a transaction.                              *)
LEMMA DecidedBegins ==
  ASSUME NEW R, NEW D, NEW c, NEW D2, NEW c2, Local(R, D, c), DecidedLocal(R, D, c),
         \/ PaidStep(R, D, c, D2, c2) \/ ReceivedStep(R, D, c, D2, c2)
         \/ MaintainStep(R, D, c, D2, c2) \/ RefundedStep(R, D, c, D2, c2)
         \/ VoidStep(R, D, c, D2, c2) \/ RiskStep(R, D, c, D2, c2)
         \/ WithdrawStep(R, D, c, D2, c2) \/ CheckStep(R, D, c, D2, c2)
         \/ DecisionStep(R, D, c, D2, c2) \/ LedgerStep(R, D, c, D2, c2)
         \/ RetryStep(R, D, c, D2, c2)
  PROVE  DecidedLocal(R, D2, c2)
<1>1. CASE (\E r : Ended(D2, c, c2, r)) \/ RetryStep(R, D, c, D2, c2)
  BY <1>1, DecidedEmpty DEF Ended, RetryStep, BizOK, Booking
<1>2. CASE Begun(R, D, c, D2, c2) /\ c2.pc \notin Booking \cup {"decide", "decided"}
  <2>1. DOMAIN D2 = {}
    BY <1>2 DEF Begun, Local, OwnOK, Idle
  <2> QED
    BY <1>2, <2>1, DecidedEmpty DEF BizOK
<1>3. CASE DecisionStep(R, D, c, D2, c2) /\ Begun(R, D, c, D2, c2) /\ c2.pc = "update"
  <2>1. DOMAIN D2 = {}
    BY <1>3 DEF Begun, Local, OwnOK, Idle
  <2>2. c2.req = c.req /\ c.req.op \in {"payout", "reject"}
    BY <1>3 DEF DecisionStep, Begun
  <2>3. c2.inc.biz = DecisionBiz(c) /\ c2.inc.ref = c.req.key
    BY <1>3 DEF DecisionStep, Asks, Ended
  <2>4. BizOK(c2)
    BY <1>3, <2>2, <2>3 DEF BizOK, DecisionBiz
  <2> QED
    BY <1>3, <2>1, <2>4, DecidedEmpty
<1>4. CASE DecisionStep(R, D, c, D2, c2)
  BY <1>1, <1>3, <1>4 DEF DecisionStep, Asks
<1> QED
  BY <1>1, <1>2, <1>4 DEF PaidStep, ReceivedStep, MaintainStep, RefundedStep, VoidStep,
                    RiskStep, WithdrawStep, CheckStep, LedgerStep, Booking

(* The steps that write neither an entry nor a withdrawal.                 *)
LEMMA DecidedAside ==
  ASSUME NEW R, NEW D, NEW c, NEW D2, NEW c2, Local(R, D, c), DecidedLocal(R, D, c),
         \/ AccrueStep(R, D, c, D2, c2) \/ DateStep(R, D, c, D2, c2)
         \/ SettleStep(R, D, c, D2, c2) \/ VouchersStep(R, D, c, D2, c2)
         \/ VoucherStep(R, D, c, D2, c2) \/ ClawStep(R, D, c, D2, c2)
         \/ AccumulateStep(R, D, c, D2, c2) \/ FreezeStep(R, D, c, D2, c2)
         \/ WithdrawalsStep(R, D, c, D2, c2)
  PROVE  DecidedLocal(R, D2, c2)
<1>1. CASE \E r : Ended(D2, c, c2, r)
  BY <1>1, DecidedEmpty DEF Ended, BizOK, Booking
<1>2. CASE ~\E r : Ended(D2, c, c2, r)
  <2>1. /\ c.pc \in {"accrue", "date", "settle", "vouchers", "voucher", "claw", "accumulate",
                     "risk", "withdrawals"}
        /\ c2.req = c.req
    BY <1>2 DEF AccrueStep, DateStep, SettleStep, VouchersStep, VoucherStep, ClawStep,
       AccumulateStep, FreezeStep, WithdrawalsStep, GoesOn, Increments, Flows
  <2>2. c.req.op \notin {"payout", "reject"}
    BY <2>1 DEF Local, PlaceOK
  <2>3. c2.pc \notin {"decide", "decided"}
    BY <1>2 DEF AccrueStep, DateStep, SettleStep, VouchersStep, VoucherStep, ClawStep,
       AccumulateStep, FreezeStep, WithdrawalsStep, GoesOn, Increments, Flows, Asks
  <2>4. BizOK(c2)
    <3>1. c2.pc \in Booking => c2.inc.biz \in {"accrue", "settle", "void", "reverse"}
      BY <1>2 DEF AccrueStep, DateStep, SettleStep, VouchersStep, VoucherStep, ClawStep,
         AccumulateStep, FreezeStep, WithdrawalsStep, GoesOn, Increments, Flows, Asks, Booking
    <3> QED
      BY <2>1, <2>2, <3>1 DEF BizOK, DecisionBizs
  <2>5. SameAudit(D, D2)
    <3>1. D2 = D \/ \E id, row : id[1] \in {"commission", "refund"} /\ D2 = With(D, id, row)
      <4>1. CASE AccrueStep(R, D, c, D2, c2)
        <5> DEFINE id == <<"commission", AccrualKey(c.req.order, c.todo[1].agent)>>
                   row == NewAccrual(c.todo[1])
        <5>1. id[1] = "commission" /\ (D2 = D \/ D2 = With(D, id, row))
          BY <4>1 DEF AccrueStep
        <5> HIDE DEF id, row
        <5> QED
          BY <5>1
      <4>2. CASE VoucherStep(R, D, c, D2, c2)
        BY <4>2 DEF VoucherStep
      <4>3. CASE ClawStep(R, D, c, D2, c2)
        BY <4>3 DEF ClawStep, ReversalId
      <4>4. CASE \/ DateStep(R, D, c, D2, c2) \/ SettleStep(R, D, c, D2, c2)
                 \/ AccumulateStep(R, D, c, D2, c2) \/ FreezeStep(R, D, c, D2, c2)
        <5>1. /\ c.todo # << >>
              /\ c.req.op \in {"received", "maintain", "refunded", "void", "risk"}
          BY <4>4 DEF DateStep, SettleStep, AccumulateStep, FreezeStep, Local, PlaceOK, TodoOK
        <5>2. c.todo[1].id[1] = "commission"
          BY <5>1, HeadCopy DEF Local, IsAccrual
        <5>3. D2 = D \/ \E row : D2 = With(D, c.todo[1].id, row)
          BY <1>2, <4>4 DEF DateStep, SettleStep, AccumulateStep, FreezeStep, Swaps
        <5> QED
          BY <5>2, <5>3
      <4>5. CASE VouchersStep(R, D, c, D2, c2) \/ WithdrawalsStep(R, D, c, D2, c2)
        BY <1>2, <4>5 DEF VouchersStep, WithdrawalsStep
      <4> QED
        BY <4>1, <4>2, <4>3, <4>4, <4>5
    <3>2. CASE D2 = D
      BY <3>2 DEF SameAudit
    <3>3. ASSUME NEW id, NEW row, id[1] \in {"commission", "refund"}, D2 = With(D, id, row)
          PROVE  SameAudit(D, D2)
      BY <3>3, SameAuditWith
    <3> QED
      BY <3>1, <3>2, <3>3
  <2> QED
    BY <2>1, <2>3, <2>4, <2>5, DecidedSame
<1> QED
  BY <1>1, <1>2

(* The steps of an increment.                                              *)
LEMMA DecidedBooking ==
  ASSUME NEW R, NEW D, NEW c, NEW D2, NEW c2, Local(R, D, c), DecidedLocal(R, D, c),
         \/ UpdateStep(R, D, c, D2, c2) \/ LookupStep(R, D, c, D2, c2)
         \/ InsertStep(R, D, c, D2, c2) \/ RefusedStep(R, D, c, D2, c2)
  PROVE  DecidedLocal(R, D2, c2)
<1>1. CASE \E r : Ended(D2, c, c2, r)
  BY <1>1, DecidedEmpty DEF Ended, BizOK, Booking
<1>2. CASE ~\E r : Ended(D2, c, c2, r)
  <2>1. c.pc \in Booking /\ c2.req = c.req /\ BizOK(c)
    BY <1>2 DEF UpdateStep, LookupStep, InsertStep, RefusedStep, MovesTo, Passes, GoesOn,
       Increments, Flows, Booking, DecidedLocal
  <2>2. c2.pc \notin {"decide", "decided"}
    BY <1>2 DEF UpdateStep, LookupStep, InsertStep, RefusedStep, MovesTo, Passes, GoesOn,
       Increments, Asks
  <2>3. BizOK(c2)
    <3>1. \/ c2.inc.biz = c.inc.biz /\ c2.inc.ref = c.inc.ref
          \/ c2.pc \notin Booking
      BY <1>2 DEF UpdateStep, LookupStep, InsertStep, RefusedStep, MovesTo, Passes, GoesOn,
         Increments, Asks, Booking
    <3> QED
      BY <2>1, <3>1 DEF BizOK, DecisionBiz
  <2>4. SameAudit(D, D2)
    <3>1. D2 = D \/ \E row : D2 = With(D, OwnAccount(c), row)
      BY <1>2 DEF UpdateStep, LookupStep, InsertStep, RefusedStep
    <3>2. OwnAccount(c)[1] = "account"
      BY DEF OwnAccount
    <3> QED
      BY <3>1, <3>2, SameAuditWith
  <2> QED
    BY <2>1, <2>2, <2>3, <2>4, DecidedSame DEF Booking
<1> QED
  BY <1>1, <1>2

(* A withdrawal is inserted, reserved.                                     *)
LEMMA DecidedReserve ==
  ASSUME NEW R, NEW D, NEW c, NEW D2, NEW c2, Local(R, D, c), DecidedLocal(R, D, c),
         ReserveStep(R, D, c, D2, c2)
  PROVE  DecidedLocal(R, D2, c2)
<1> DEFINE id == <<"withdrawal", c.req.key>>
           row == NewWithdrawal(c)
<1>1. CASE \E r \in {"existed", "notfound"} : Ended(D2, c, c2, r)
  BY <1>1, DecidedEmpty DEF Ended, BizOK, Booking
<1>2. CASE ~\E r \in {"existed", "notfound"} : Ended(D2, c, c2, r)
  <2>1. /\ c.pc = "reserve" /\ c.req.op = "withdraw" /\ c2.req = c.req /\ c2.pc = "update"
        /\ c2.inc.biz = "withdraw_hold"
        /\ id \notin DOMAIN R /\ D2 = With(D, id, row) /\ row.state = "reserved"
    BY <1>2 DEF ReserveStep, Local, PlaceOK, Increments, Flows, Asks, Known, NewWithdrawal
  <2>2. BizOK(c2)
    BY <2>1 DEF BizOK, DecisionBizs
  <2>3. id[1] = "withdrawal"
    OBVIOUS
  <2> HIDE DEF id, row
  <2>4. /\ DOMAIN D2 = DOMAIN D \cup {id} /\ D2[id] = row
        /\ \A x \in DOMAIN D \ {id} : D2[x] = D[x]
    BY <2>1 DEF With
  <2>5. \A e \in DOMAIN D2 : IsDecision(D2, e) => e \in DOMAIN D /\ IsDecision(D, e)
    BY <2>3, <2>4 DEF IsDecision
  <2> QED
    BY <2>1, <2>2, <2>4, <2>5 DEF DecidedLocal
<1> QED
  BY <1>1, <1>2

(* The entry of the increment, and of a decision.                          *)
LEMMA DecidedEntry ==
  ASSUME NEW R, NEW D, NEW c, NEW D2, NEW c2, Local(R, D, c), DecidedLocal(R, D, c),
         EntryStep(R, D, c, D2, c2)
  PROVE  DecidedLocal(R, D2, c2)
<1> DEFINE row == NewEntry(D, c)
<1>1. PICK n \in Nat \ {0} : D2 = With(D, <<"ledger", n>>, row)
  BY DEF EntryStep
<1> DEFINE id == <<"ledger", n>>
<1>2. /\ c.pc = "entry" /\ BizOK(c) /\ c2.req = c.req /\ c2.pc = LoopFor(c)
      /\ row.biz = c.inc.biz /\ row.ref = c.inc.ref /\ id[1] = "ledger"
      /\ c.req.op \in {"paid", "maintain", "refunded", "void", "withdraw", "payout", "reject"}
  BY DEF EntryStep, DecidedLocal, Flows, NewEntry, Local, PlaceOK, Booking
<1>3. c.req.op \in {"payout", "reject"} <=> c2.pc = "decide"
  BY <1>2 DEF LoopFor
<1>4. c2.pc # "decided" /\ c2.pc \notin Booking
  BY <1>2 DEF LoopFor, Booking
<1>5. IF c2.pc = "decide" THEN row.biz = DecisionBiz(c) /\ row.ref = c.req.key
      ELSE row.biz \notin DecisionBizs
  BY <1>2, <1>3 DEF BizOK, Booking
<1>6. DecisionBiz(c) \in DecisionBizs /\ DecisionBiz(c2) = DecisionBiz(c)
  BY <1>2 DEF DecisionBiz, DecisionBizs
<1> HIDE DEF id, row
<1>7. /\ DOMAIN D2 = DOMAIN D \cup {id} /\ D2[id] = row
      /\ \A x \in DOMAIN D \ {id} : D2[x] = D[x]
  BY <1>1 DEF With, id
<1>8. \A e \in DOMAIN D : ~IsDecision(D, e)
  BY <1>2 DEF DecidedLocal
<1>9. \A e \in DOMAIN D2 : IsDecision(D2, e) => e = id
  BY <1>7, <1>8 DEF IsDecision
<1>10. IsDecision(D2, id) <=> row.biz \in DecisionBizs
  BY <1>2, <1>7 DEF IsDecision
<1>11. \A w \in DOMAIN D2 : w[1] = "withdrawal" => w \notin DOMAIN R /\ D2[w].state = "reserved"
  BY <1>2, <1>7 DEF DecidedLocal
<1> QED
  BY <1>2, <1>4, <1>5, <1>6, <1>7, <1>9, <1>10, <1>11 DEF DecidedLocal, BizOK

(* The state of the decision.                                              *)
LEMMA DecidedDecide ==
  ASSUME NEW R, NEW D, NEW c, NEW D2, NEW c2, Local(R, D, c), DecidedLocal(R, D, c),
         DecideStep(R, D, c, D2, c2)
  PROVE  DecidedLocal(R, D2, c2)
<1>1. CASE Ended(D2, c, c2, "conflict")
  BY <1>1, DecidedEmpty DEF Ended, BizOK, Booking
<1>2. CASE ~Ended(D2, c, c2, "conflict")
  <2> DEFINE x == c.todo[1]
             id == x.id
             st == DecisionState(c)
             row == [x.row EXCEPT !.state = st, !.version = @ + 1]
  <2>1. /\ c.pc = "decide" /\ x.row.state = "reserved" /\ R[id] = x.row
        /\ D2 = With(D, id, row) /\ c2.pc = "decided" /\ c2.req = c.req
        /\ c.todo # << >> /\ c.req.op \in {"payout", "reject"}
    BY <1>2 DEF DecideStep, Swaps, GoesOn, Flows, Local, PlaceOK, TodoOK
  <2>2. /\ CopyOK(R, x) /\ id = <<"withdrawal", c.req.key>> /\ x.row \in WithdrawalRow
    BY <2>1, HeadCopy DEF Local
  <2>3. row.state = st
    <3> DEFINE r == x.row
    <3>1. r \in WithdrawalRow /\ row = [r EXCEPT !.state = st, !.version = @ + 1]
      BY <2>2
    <3> HIDE DEF r, row, st
    <3> QED
      BY <3>1 DEF WithdrawalRow
  <2>4. id[1] = "withdrawal" /\ id \in DOMAIN R /\ R[id].state = "reserved"
    BY <2>1, <2>2 DEF CopyOK
  <2> HIDE DEF row
  <2>5. /\ DOMAIN D2 = DOMAIN D \cup {id} /\ D2[id] = row
        /\ \A y \in DOMAIN D \ {id} : D2[y] = D[y]
    BY <2>1 DEF With
  <2> HIDE DEF id
  <2>6. \A e \in DOMAIN D2 : IsDecision(D2, e) => e \in DOMAIN D /\ IsDecision(D, e) /\ D2[e] = D[e]
    BY <2>4, <2>5 DEF IsDecision
  <2>7. \E e \in DOMAIN D2 : IsDecision(D2, e)
    <3>1. PICK e \in DOMAIN D : IsDecision(D, e)
      BY <2>1 DEF DecidedLocal
    <3>2. e # id
      BY <2>4, <3>1 DEF IsDecision
    <3> QED
      BY <2>5, <3>1, <3>2 DEF IsDecision
  <2>8. DecisionBiz(c2) = DecisionBiz(c) /\ DecisionState(c2) = st
    BY <2>1 DEF DecisionBiz, DecisionState
  <2>9. \A w \in DOMAIN D2 : w[1] = "withdrawal" =>
          w = id \/ (w \notin DOMAIN R /\ D2[w].state = "reserved")
    BY <2>1, <2>5 DEF DecidedLocal
  <2> HIDE DEF st
  <2>10. BizOK(c2)
    BY <2>1 DEF BizOK, Booking
  <2>11. \A e \in DOMAIN D2 : IsDecision(D2, e) =>
           D2[e].ref = c2.req.key /\ D2[e].biz = DecisionBiz(c2)
    BY <2>1, <2>6, <2>8 DEF DecidedLocal
  <2>12. id = <<"withdrawal", c2.req.key>> /\ c2.pc = "decided"
    BY <2>1, <2>2
  <2>13. \A w \in DOMAIN D2 : w[1] = "withdrawal" =>
           \/ w \notin DOMAIN R /\ D2[w].state = "reserved"
           \/ /\ w = <<"withdrawal", c2.req.key>>
              /\ w \in DOMAIN R /\ R[w].state = "reserved" /\ D2[w].state = DecisionState(c2)
    BY <2>3, <2>4, <2>5, <2>8, <2>9, <2>12
  <2> QED
    BY <2>4, <2>5, <2>7, <2>10, <2>11, <2>12, <2>13 DEF DecidedLocal
<1> QED
  BY <1>1, <1>2

(* Inside a transaction the entry of a decision comes before its state.    *)
LEMMA DecidedEffect ==
  ASSUME NEW R, NEW D, NEW c, NEW D2, NEW c2, Local(R, D, c), DecidedLocal(R, D, c),
         Effect(R, D, c, D2, c2)
  PROVE  DecidedLocal(R, D2, c2)
<1> DEFINE goal == DecidedLocal(R, D2, c2)
<1> SUFFICES goal
  OBVIOUS
<1>1. CASE \/ PaidStep(R, D, c, D2, c2) \/ ReceivedStep(R, D, c, D2, c2)
           \/ MaintainStep(R, D, c, D2, c2) \/ RefundedStep(R, D, c, D2, c2)
           \/ VoidStep(R, D, c, D2, c2) \/ RiskStep(R, D, c, D2, c2)
           \/ WithdrawStep(R, D, c, D2, c2) \/ CheckStep(R, D, c, D2, c2)
           \/ DecisionStep(R, D, c, D2, c2) \/ LedgerStep(R, D, c, D2, c2)
           \/ RetryStep(R, D, c, D2, c2)
  BY <1>1, DecidedBegins
<1>2. CASE \/ AccrueStep(R, D, c, D2, c2) \/ DateStep(R, D, c, D2, c2)
           \/ SettleStep(R, D, c, D2, c2) \/ VouchersStep(R, D, c, D2, c2)
           \/ VoucherStep(R, D, c, D2, c2) \/ ClawStep(R, D, c, D2, c2)
           \/ AccumulateStep(R, D, c, D2, c2) \/ FreezeStep(R, D, c, D2, c2)
           \/ WithdrawalsStep(R, D, c, D2, c2)
  BY <1>2, DecidedAside
<1>3. CASE \/ UpdateStep(R, D, c, D2, c2) \/ LookupStep(R, D, c, D2, c2)
           \/ InsertStep(R, D, c, D2, c2) \/ RefusedStep(R, D, c, D2, c2)
  BY <1>3, DecidedBooking
<1>4. CASE \/ ReserveStep(R, D, c, D2, c2) \/ EntryStep(R, D, c, D2, c2)
           \/ DecideStep(R, D, c, D2, c2)
  BY <1>4, DecidedReserve, DecidedEntry, DecidedDecide
<1> HIDE DEF goal
<1> QED
  BY <1>1, <1>2, <1>3, <1>4 DEF Effect

(* The decisions stay booked when a call commits its own.                  *)
LEMMA DecisionsCommitted ==
  ASSUME NEW R, NEW D, NEW c, RowsOK(R), OwnOK(R, D, c), PlaceOK(c), c.pc # "decide",
         DecisionsBooked(R), DecidedLocal(R, D, c)
  PROVE  DecisionsBooked(Over(R, D))
<1> DEFINE Q == Over(R, D)
           w0 == <<"withdrawal", c.req.key>>
<1>1. /\ DOMAIN Q = DOMAIN R \cup DOMAIN D
      /\ \A id \in DOMAIN D : Q[id] = D[id]
      /\ \A id \in DOMAIN R \ DOMAIN D : Q[id] = R[id]
  BY DEF Over, Cur
<1>2. \A e \in DOMAIN D : e[1] = "ledger" => e \notin DOMAIN R
  BY DEF OwnOK, IsVersioned, IsAccrual
<1>3. \A w \in DOMAIN R : w[1] = "withdrawal" => w = <<"withdrawal", w[2]>>
  BY DEF RowsOK, RowOK
<1>4. w0[1] = "withdrawal" /\ w0[2] = c.req.key
  OBVIOUS
<1>5. c.pc = "decided" => c.req.op \in {"payout", "reject"}
  BY DEF PlaceOK
<1>6. StateFor(DecisionBiz(c)) = DecisionState(c) /\ DecisionState(c) # "reserved"
  BY DEF StateFor, DecisionBiz, DecisionState
<1> HIDE DEF Q, w0
<1>7. /\ c.pc = "decided" => w0 \in DOMAIN D /\ w0 \in DOMAIN R
      /\ \A w \in DOMAIN D : w[1] = "withdrawal" =>
           \/ w \notin DOMAIN R /\ D[w].state = "reserved"
           \/ /\ c.pc = "decided" /\ w = w0
              /\ w \in DOMAIN R /\ R[w].state = "reserved" /\ D[w].state = DecisionState(c)
  BY DEF DecidedLocal, w0
<1>8. ASSUME NEW e \in DOMAIN Q, IsDecision(Q, e)
      PROVE  /\ <<"withdrawal", Q[e].ref>> \in DOMAIN Q
             /\ Q[<<"withdrawal", Q[e].ref>>].state = StateFor(Q[e].biz)
  <2>1. CASE e \in DOMAIN D
    <3>1. IsDecision(D, e) /\ Q[e] = D[e]
      BY <1>1, <1>8, <2>1 DEF IsDecision
    <3>2. c.pc = "decided" /\ D[e].ref = c.req.key /\ D[e].biz = DecisionBiz(c)
      BY <2>1, <3>1 DEF DecidedLocal
    <3>3. w0 \in DOMAIN D /\ D[w0].state = DecisionState(c)
      BY <1>4, <1>7, <3>2
    <3>4. <<"withdrawal", Q[e].ref>> = w0
      BY <3>1, <3>2 DEF w0
    <3>5. StateFor(Q[e].biz) = DecisionState(c)
      BY <1>6, <3>1, <3>2
    <3>6. w0 \in DOMAIN Q /\ Q[w0].state = DecisionState(c)
      BY <1>1, <3>3
    <3> QED
      BY <3>4, <3>5, <3>6
  <2>2. CASE e \notin DOMAIN D
    <3> DEFINE w == <<"withdrawal", R[e].ref>>
    <3>1. e \in DOMAIN R /\ Q[e] = R[e] /\ IsDecision(R, e)
      BY <1>1, <1>8, <2>2 DEF IsDecision
    <3>2. w \in DOMAIN R /\ R[w].state = StateFor(R[e].biz)
      BY <3>1 DEF DecisionsBooked
    <3>3. w[1] = "withdrawal" /\ R[w].state # "reserved"
      BY <3>2 DEF StateFor
    <3>4. w \notin DOMAIN D
      <4> HIDE DEF w
      <4> QED
        BY <1>7, <3>2, <3>3
    <3> QED
      BY <1>1, <3>1, <3>2, <3>4
  <2> QED
    BY <2>1, <2>2
<1>9. ASSUME NEW w \in DOMAIN Q, w[1] = "withdrawal", Q[w].state # "reserved"
      PROVE  \E e \in DOMAIN Q :
               IsDecision(Q, e) /\ Q[e].ref = w[2] /\ Q[w].state = StateFor(Q[e].biz)
  <2>1. CASE w \in DOMAIN D
    <3>1. c.pc = "decided" /\ w = w0 /\ D[w].state = DecisionState(c) /\ Q[w] = D[w]
      BY <1>1, <1>7, <1>9, <2>1
    <3>2. PICK e \in DOMAIN D : IsDecision(D, e)
      BY <3>1 DEF DecidedLocal
    <3>3. D[e].ref = c.req.key /\ D[e].biz = DecisionBiz(c) /\ Q[e] = D[e] /\ IsDecision(Q, e)
      BY <1>1, <3>2 DEF DecidedLocal, IsDecision
    <3> QED
      BY <1>1, <1>4, <1>6, <3>1, <3>2, <3>3
  <2>2. CASE w \notin DOMAIN D
    <3>1. w \in DOMAIN R /\ Q[w] = R[w]
      BY <1>1, <2>2
    <3>2. PICK e \in DOMAIN R :
            IsDecision(R, e) /\ R[e].ref = w[2] /\ R[w].state = StateFor(R[e].biz)
      BY <1>9, <3>1 DEF DecisionsBooked
    <3>3. e \notin DOMAIN D
      BY <1>2, <3>2 DEF IsDecision
    <3>4. Q[e] = R[e] /\ IsDecision(Q, e) /\ e \in DOMAIN Q
      BY <1>1, <3>2, <3>3 DEF IsDecision
    <3> QED
      BY <3>1, <3>2, <3>4
  <2> QED
    BY <2>1, <2>2
<1> QED
  BY <1>8, <1>9 DEF DecisionsBooked, Q

(* No step books a decision twice or without its state.                    *)
LEMMA DecidedStep ==
  ASSUME TypeInv, DecidedInv, [SqlNext]_sqlVars
  PROVE  DecidedInv'
<1>1. DecisionsBooked(rows) /\ \A t \in Calls : DecidedLocal(rows, Mine(t), call[t])
  BY DEF DecidedInv
<1>2. ASSUME NEW t \in Calls, Acts(t) PROVE DecidedInv'
  <2>1. DecidedLocal(rows, Mine(t)', call'[t])
    BY <1>1, <1>2, LocalFacts, DecidedEffect DEF Acts
  <2> QED
    BY <1>1, <1>2, <2>1 DEF DecidedInv, Acts, Rest
<1>3. ASSUME NEW t \in Calls, Commits(t) PROVE DecidedInv'
  <2>1. /\ RowsOK(rows) /\ OwnOK(rows, Mine(t), call[t]) /\ PlaceOK(call[t])
        /\ call[t].pc # "decide"
    BY <1>3, LocalFacts DEF Local, Commits, Loops
  <2>2. DecisionsBooked(rows')
    BY <1>1, <1>3, <2>1, DecisionsCommitted DEF Commits
  <2>3. DecidedLocal(rows', Mine(t)', call'[t])
    BY <1>3, DecidedEmpty DEF Commits, Ended, BizOK, Booking
  <2>4. ASSUME NEW u \in Calls \ {t} PROVE DecidedLocal(rows', Mine(u)', call'[u])
    <3>1. Unmoved(rows, rows', Mine(u))
      BY <1>3, OverUnmoved DEF Commits
    <3>2. DecidedLocal(rows', Mine(u), call[u])
      BY <1>1, <3>1 DEF DecidedLocal, Unmoved
    <3> QED
      BY <1>3, <3>2 DEF Commits, Rest
  <2> QED
    BY <2>2, <2>3, <2>4 DEF DecidedInv
<1>4. CASE Idles
  BY <1>1, <1>4 DEF DecidedInv, Idles
<1> QED
  BY <1>2, <1>3, <1>4, StepCases

(* There is no decision at first.                                          *)
LEMMA DecidedInit ==
  ASSUME SqlInit
  PROVE  DecidedInv
<1>1. rows = << >> /\ dirty = << >>
  BY DEF SqlInit
<1>2. \A t \in Calls : call[t].pc \in {"idle", "done"}
  BY DEF SqlInit, Closed
<1>3. \A t \in Calls : DOMAIN Mine(t) = {}
  BY <1>1 DEF Mine, OwnRows
<1> QED
  BY <1>1, <1>2, <1>3 DEF DecidedInv, DecidedLocal, DecisionsBooked, BizOK, Booking

(* A payout record and a rejection that race each other, and attempts that *)
(* are given up and run again: the state of a withdrawal has its ledger    *)
(* entry, and no other outcome has one.                                    *)
THEOREM ConcurrentOneOutcome == SqlSpec => []DecidedOnce
<1>1. SqlInit => DecidedInv
  BY DecidedInit
<1>2. TypeInv /\ DecidedInv /\ [SqlNext]_sqlVars => DecidedInv'
  BY DecidedStep
<1>3. ASSUME TypeInv, DecidedInv PROVE DecidedOnce
  <2>1. DecisionsBooked(rows) /\ RowsOK(rows)
    BY <1>3 DEF DecidedInv, TypeInv, StoreOK
  <2> SUFFICES ASSUME NEW w \in RowsOf("withdrawal", rows)
               PROVE  {rows[e].biz : e \in {x \in RowsOf("ledger", rows) :
                                       /\ rows[x].biz \in {"withdraw_paid", "withdraw_refund"}
                                       /\ rows[x].ref = w[2]}}
                        = CASE rows[w].state = "paid" -> {"withdraw_paid"}
                            [] rows[w].state = "rejected" -> {"withdraw_refund"}
                            [] OTHER -> {}
    BY DEF DecidedOnce
  <2> DEFINE S == {x \in RowsOf("ledger", rows) :
                     /\ rows[x].biz \in {"withdraw_paid", "withdraw_refund"}
                     /\ rows[x].ref = w[2]}
             T == {rows[e].biz : e \in S}
  <2>2. /\ w \in DOMAIN rows /\ w[1] = "withdrawal" /\ w = <<"withdrawal", w[2]>>
        /\ rows[w].state \in {"reserved", "paid", "rejected"}
    BY <2>1 DEF RowsOf, RowsOK, RowOK, WithdrawalRow
  <2>3. ASSUME NEW e \in S
        PROVE  rows[e].biz \in DecisionBizs /\ rows[w].state = StateFor(rows[e].biz)
    <3>1. e \in DOMAIN rows /\ IsDecision(rows, e) /\ rows[e].ref = w[2]
      BY <2>3 DEF RowsOf, IsDecision, DecisionBizs
    <3> QED
      BY <2>1, <2>2, <3>1 DEF DecisionsBooked, IsDecision
  <2>4. rows[w].state # "reserved" =>
          \E e \in S : rows[w].state = StateFor(rows[e].biz)
    <3>1. ASSUME rows[w].state # "reserved"
          PROVE  \E e \in S : rows[w].state = StateFor(rows[e].biz)
      <4>1. PICK e \in DOMAIN rows :
              /\ IsDecision(rows, e) /\ rows[e].ref = w[2]
              /\ rows[w].state = StateFor(rows[e].biz)
        BY <2>1, <2>2, <3>1 DEF DecisionsBooked
      <4>2. e \in S
        BY <4>1 DEF RowsOf, IsDecision, DecisionBizs
      <4> QED
        BY <4>1, <4>2
    <3> QED
      BY <3>1
  <2> HIDE DEF S
  <2>5. CASE rows[w].state = "paid"
    <3>1. \A e \in S : rows[e].biz = "withdraw_paid"
      BY <2>3, <2>5 DEF StateFor, DecisionBizs
    <3>2. T = {"withdraw_paid"}
      BY <2>4, <2>5, <3>1
    <3> QED
      BY <2>5, <3>2 DEF S
  <2>6. CASE rows[w].state = "rejected"
    <3>1. \A e \in S : rows[e].biz = "withdraw_refund"
      BY <2>3, <2>6 DEF StateFor, DecisionBizs
    <3>2. T = {"withdraw_refund"}
      BY <2>4, <2>6, <3>1
    <3> QED
      BY <2>6, <3>2 DEF S
  <2>7. CASE rows[w].state = "reserved"
    <3>1. S = {}
      BY <2>3, <2>7 DEF StateFor
    <3>2. T = {}
      BY <3>1
    <3> QED
      BY <2>7, <3>2 DEF S
  <2> QED
    BY <2>2, <2>5, <2>6, <2>7
<1> QED
  BY <1>1, <1>2, <1>3, TypeInvariant, PTL DEF SqlSpec

=============================================================================
