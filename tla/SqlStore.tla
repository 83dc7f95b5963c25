------------------------------ MODULE SqlStore ------------------------------
(***************************************************************************)
(* The portable SQL store (store/sql) over a database that runs several    *)
(* transactions at once.  Store.Update opens one transaction per attempt   *)
(* and sets no isolation level, so a transaction runs at the default of    *)
(* its engine: READ COMMITTED on PostgreSQL, where every SELECT sees what  *)
(* is committed when it runs, and REPEATABLE READ on MySQL, where every    *)
(* SELECT sees what was committed at the transaction's first one.  On both *)
(* an UPDATE works on the current row and waits for the transaction that   *)
(* has it locked, and so does an INSERT whose unique key another open      *)
(* transaction has just inserted.  SQLite lets one transaction write at a  *)
(* time, which is the store the module Commissions describes.              *)
(*                                                                         *)
(* A step is one SQL statement.  A call keeps what was asked (req), where  *)
(* it is (pc), what it read (todo, sum) and the account delta it is        *)
(* applying (inc).                                                         *)
(***************************************************************************)
EXTENDS Integers, FiniteSets, Sequences, SequencesExt

CONSTANTS
  Calls,        \* names of calls, 1 .. n
  Scenarios,    \* sequences of requests; each call runs in Store.Update or View
  Agents,       \* accounts
  MaxMoney,     \* range of the machine integer
  Engines,      \* the database engines: "postgres", "mysql"
  MaxOpen,      \* transactions open at a time, the size of the caller's pool
  MaxRetries    \* Store.maxRetries

ASSUME SqlAssumption ==
  /\ IsFiniteSet(Calls)
  /\ Engines \subseteq {"postgres", "mysql"}
  /\ \A s \in Scenarios : DOMAIN s \subseteq Calls
  /\ MaxOpen \in Nat \ {0}
  /\ MaxRetries \in Nat

VARIABLES
  engine,       \* the engine in use
  rows,         \* rows[id]: the committed row of each row id
  dirty,        \* dirty[id]: an uncommitted row and the call that wrote it
  call          \* call[t]: the state of call t

sqlVars == <<engine, rows, dirty, call>>

(* A row id is a table and the unique key of the row in it.                *)
RowsOf(table, f) == {id \in DOMAIN f : id[1] = table}

CommittedAccount(k) ==
  IF <<"account", k>> \in DOMAIN rows THEN rows[<<"account", k>>]
  ELSE [c \in {"frozen", "available", "withdrawing", "withdrawn",
               "totalEarned", "totalReversed"} |-> 0]

(* The entries of an account in dist_ledger, by their generated ids.       *)
CommittedLedger(k) ==
  [n \in {id[2] : id \in {x \in RowsOf("ledger", rows) : rows[x].key = k}} |->
     rows[<<"ledger", n>>]]

(* The account arithmetic is that of the books.                            *)
INSTANCE Books WITH
  accounts <- [k \in Agents |-> CommittedAccount(k)],
  ledger <- [k \in Agents |-> CommittedLedger(k)],
  Rounding <- "down"

-----------------------------------------------------------------------------
(***************************************************************************)
(* Statements                                                              *)
(***************************************************************************)

OwnRows(t) == {id \in DOMAIN dirty : dirty[id].by = t}

LockedByOther(t, id) == id \in DOMAIN dirty /\ dirty[id].by # t

ViewCommitted(t) ==  \* mutant: a new snapshot for every SELECT
  [id \in DOMAIN rows \cup OwnRows(t) |->
     IF id \in OwnRows(t) THEN dirty[id].row ELSE rows[id]]

(* What a SELECT of t sees: the snapshot of the statement or of the        *)
(* transaction, and t's own writes.                                        *)
View(t) ==
  LET seen == IF engine = "mysql" THEN call[t].snap ELSE rows
  IN  [id \in DOMAIN seen \cup OwnRows(t) |->
         IF id \in OwnRows(t) THEN dirty[id].row ELSE seen[id]]

(* The row an UPDATE of t works on.                                        *)
Current(t, id) == IF id \in OwnRows(t) THEN dirty[id].row ELSE rows[id]

Exists(id) == id \in DOMAIN rows \cup DOMAIN dirty

(* An UPDATE waits for a locked row.  PostgreSQL does not look at a row    *)
(* that is not committed yet, MySQL waits for it.                          *)
UpdateWaits(t, id) ==
  LockedByOther(t, id) /\ (engine = "mysql" \/ id \in DOMAIN rows)

InsertWaits(t, id) == LockedByOther(t, id)

Write(t, id, row) ==
  [x \in DOMAIN dirty \cup {id} |->
     IF x = id THEN [by |-> t, row |-> row] ELSE dirty[x]]

Go(t, c) == call' = [call EXCEPT ![t] = c]

(* insertReturningID and execInsert: a colliding unique key is not an      *)
(* error, it is the answer "not inserted".                                 *)
Insert(t, id, row, onInserted, onDuplicate) ==
  /\ ~InsertWaits(t, id)
  /\ IF Exists(id)
     THEN dirty' = dirty /\ Go(t, onDuplicate)
     ELSE dirty' = Write(t, id, row) /\ Go(t, onInserted)
  /\ UNCHANGED <<engine, rows>>

(* updateVersioned: an UPDATE with its conditions in the WHERE clause hits *)
(* one row or none.                                                        *)
UpdateRow(t, id, matches, row, onHit, onMiss) ==
  /\ ~UpdateWaits(t, id)
  /\ IF id \in DOMAIN rows \cup OwnRows(t) /\ matches
     THEN dirty' = Write(t, id, row) /\ Go(t, onHit)
     ELSE dirty' = dirty /\ Go(t, onMiss)
  /\ UNCHANGED <<engine, rows>>

-----------------------------------------------------------------------------
(***************************************************************************)
(* Transactions                                                            *)
(***************************************************************************)

NoInc == [key |-> "none", delta |-> NoDelta, guard |-> FALSE, second |-> FALSE,
          biz |-> "none", ref |-> << >>]

Closed(req, pc, result, tries) ==
  [req |-> req, pc |-> pc, result |-> result, tries |-> tries, snap |-> << >>,
   todo |-> << >>, sum |-> 0, inc |-> NoInc]

Return(t, result) == Closed(call[t].req, "done", result, call[t].tries)

RunAgain(t) ==
  IF call[t].tries < MaxRetries
  THEN Closed(call[t].req, "again", "none", call[t].tries + 1)
  ELSE Return(t, "exhausted")

Open(t) == call[t].pc \notin {"idle", "again", "done"}

(* runTx begins a transaction when the pool has a connection; the first    *)
(* SELECT, which is part of the same step, takes MySQL's snapshot.  A      *)
(* caller may make a call only when calls it waits for have returned.      *)
Begins(t) ==
  /\ call[t].pc \in {"idle", "again"}
  /\ \A u \in call[t].req.after : call[u].pc = "done"
  /\ Cardinality({u \in Calls : Open(u)}) < MaxOpen

Opened(t, pc, todo) ==
  [call[t] EXCEPT !.pc = pc, !.todo = todo,
                  !.snap = IF engine = "mysql" THEN rows ELSE << >>]

Others(t) == [id \in DOMAIN dirty \ OwnRows(t) |-> dirty[id]]

(* The function given to Update returned an error: roll back and return    *)
(* it.  An error of the ledger is never retried.                           *)
FailWith(t, result) ==
  /\ dirty' = Others(t)
  /\ Go(t, Return(t, result))
  /\ UNCHANGED <<engine, rows>>

(* The call has read what it needed and has nothing to write.              *)
Answer(t, result) ==
  /\ Go(t, Return(t, result))
  /\ UNCHANGED <<engine, rows, dirty>>

Loops == {"accrue", "date", "claw", "settle", "risk", "reserve", "decided"}

Commit(t) ==
  /\ call[t].pc \in Loops
  /\ call[t].todo = << >>
  /\ rows' = [id \in DOMAIN rows \cup OwnRows(t) |->
                IF id \in OwnRows(t) THEN dirty[id].row ELSE rows[id]]
  /\ dirty' = Others(t)
  /\ Go(t, Return(t, "ok"))
  /\ UNCHANGED engine

RetryKeepingWrites(t) ==  \* mutant: the next attempt without a rollback
  /\ Open(t)
  /\ \E u \in Calls \ {t} : Open(u)
  /\ call[t].pc \notin {"ledger", "withdrawals"}
  /\ Go(t, RunAgain(t))
  /\ UNCHANGED <<engine, rows, dirty>>

(* The engine gives up the transaction with a retryable error (deadlock,   *)
(* lock wait timeout, serialization failure).  Update rolls back and runs  *)
(* the function again, at most maxRetries times; View does not retry.  The *)
(* engine may do this at any statement while another transaction is open:  *)
(* gap locks and the choice of the victim are not modelled.                *)
Retry(t) ==
  /\ Open(t)
  /\ \E u \in Calls \ {t} : Open(u)
  /\ call[t].pc \notin {"ledger", "withdrawals"}
  /\ dirty' = Others(t)
  /\ Go(t, RunAgain(t))
  /\ UNCHANGED <<engine, rows>>

-----------------------------------------------------------------------------
(***************************************************************************)
(* IncrementAccount and AppendLedger.  The loop has two passes: an UPDATE  *)
(* that carries the guard, a look at the row when the UPDATE hit nothing,  *)
(* and an INSERT of the first row.                                         *)
(***************************************************************************)

AccountId(t) == <<"account", call[t].inc.key>>

At(t, pc) == [call[t] EXCEPT !.pc = pc]

NextPassForgotten(t) == [call[t] EXCEPT !.pc = "update"]  \* mutant: no end

NextPass(t) == [call[t] EXCEPT !.pc = "update", !.inc.second = TRUE]

UpdateAccountAsSeen(t) ==  \* mutant: the balance read is written back
  LET seen == View(t)
      id == AccountId(t)
      after == Apply(IF id \in DOMAIN seen THEN seen[id] ELSE EmptyAccount,
                     call[t].inc.delta)
  IN  /\ call[t].pc = "update"
      /\ UpdateRow(t, id, call[t].inc.guard => NegativeBuckets(after) = {},
                   after, At(t, "entry"), At(t, "lookup"))

UpdateAccountUnguarded(t) ==  \* mutant: no guard in the WHERE clause
  LET id == AccountId(t)
      after == Apply(Current(t, id), call[t].inc.delta)
  IN  /\ call[t].pc = "update"
      /\ UpdateRow(t, id, TRUE, after, At(t, "entry"), At(t, "lookup"))

UpdateAccount(t) ==
  LET id == AccountId(t)
      after == Apply(Current(t, id), call[t].inc.delta)
  IN  /\ call[t].pc = "update"
      /\ UpdateRow(t, id, call[t].inc.guard => NegativeBuckets(after) = {},
                   after, At(t, "entry"), At(t, "lookup"))

(* The row as the look finds it, and the balance the increment would give. *)
FoundAccount(t) ==
  LET seen == View(t)
  IN  IF AccountId(t) \in DOMAIN seen THEN seen[AccountId(t)] ELSE EmptyAccount

LooksNegative(t) ==
  /\ call[t].inc.guard
  /\ NegativeBuckets(Apply(FoundAccount(t), call[t].inc.delta)) # {}

Collides(t) == Exists(AccountId(t)) /\ ~InsertWaits(t, AccountId(t))

IncrementErrorAtOnce(t) ==  \* mutant: a lost race for the first row is a conflict
  IF call[t].pc = "lookup" /\ LooksNegative(t) THEN "insufficient"
  ELSE IF \/ call[t].pc = "lookup" /\ call[t].inc.second /\ AccountId(t) \in DOMAIN View(t)
          \/ call[t].pc = "insert" /\ Collides(t)
  THEN "conflict"
  ELSE "none"

(* The error the increment ends with: the balance does not suffice, or the *)
(* second pass missed the row as well.                                     *)
IncrementError(t) ==
  IF call[t].pc = "lookup" /\ LooksNegative(t) THEN "insufficient"
  ELSE IF /\ call[t].inc.second
          /\ \/ call[t].pc = "lookup" /\ AccountId(t) \in DOMAIN View(t)
             \/ call[t].pc = "insert" /\ Collides(t)
  THEN "conflict"
  ELSE "none"

(* The look at the row: another pass when it is there, else the INSERT.    *)
LookupAccount(t) ==
  /\ call[t].pc = "lookup"
  /\ IncrementError(t) = "none"
  /\ Go(t, IF AccountId(t) \in DOMAIN View(t) THEN NextPass(t) ELSE At(t, "insert"))
  /\ UNCHANGED <<engine, rows, dirty>>

InsertAccount(t) ==
  /\ call[t].pc = "insert"
  /\ IncrementError(t) = "none"
  /\ Insert(t, AccountId(t), Apply(EmptyAccount, call[t].inc.delta),
            At(t, "entry"), NextPass(t))

(* The generated id of the next ledger entry.                              *)
NextLedgerId ==
  LET ids == {id[2] : id \in RowsOf("ledger", rows) \cup RowsOf("ledger", dirty)}
  IN  IF ids = {} THEN 1 ELSE Max(ids) + 1

(* AppendLedger with the account IncrementAccount returned; the account    *)
(* row is locked by this transaction.                                      *)
AppendLedger(t, onInserted) ==
  LET inc == call[t].inc
      moves == [b \in Buckets |-> inc.delta[b]]
      entry == NewLedgerEntry(inc.biz, inc.ref, Current(t, AccountId(t)), moves)
  IN  /\ call[t].pc = "entry"
      /\ Insert(t, <<"ledger", NextLedgerId>>,
                [key |-> inc.key, biz |-> entry.biz, ref |-> entry.ref,
                 delta |-> entry.delta, after |-> entry.after],
                [onInserted EXCEPT !.inc = NoInc], onInserted)

SqlInit ==
  /\ engine \in Engines
  /\ rows = << >>
  /\ dirty = << >>
  /\ \E s \in Scenarios :
       call = [t \in Calls |->
                 IF t \in DOMAIN s THEN Closed(s[t], "idle", "none", 0)
                 ELSE Closed([op |-> "none", after |-> {}], "done", "none", 0)]

=============================================================================
