------------------------------- MODULE Books -------------------------------
(***************************************************************************)
(* The books every component posts to: one account per agent (a tenant and *)
(* a user) and one append-only ledger per account.  An operation changes   *)
(* an account by an AccountDelta (Tx.IncrementAccount) and records the     *)
(* movement as a ledger entry with the balances after it (newLedgerEntry,  *)
(* Tx.AppendLedger), always in that order and in one transaction.          *)
(***************************************************************************)
EXTENDS Money, Sequences

CONSTANTS
  Agents,             \* the accounts
  Rounding            \* Rules.Rounding, for commissions and for fees

ASSUME RoundingAssumption == Rounding \in Roundings

VARIABLES
  accounts,           \* accounts[k]: the columns of agent k's account
  ledger              \* ledger[k]: agent k's ledger entries, oldest first

booksVars == <<accounts, ledger>>

Buckets == {"frozen", "available", "withdrawing", "withdrawn"}

Totals == {"totalEarned", "totalReversed"}

Columns == Buckets \cup Totals

BizTypes == {"accrue", "settle", "reverse", "void",
             "withdraw_hold", "withdraw_paid", "withdraw_refund"}

Account == [Columns -> Int]

Entry == [biz : BizTypes, ref : Nat,
          delta : [Buckets -> Int], after : [Buckets -> Int]]

(* The account of an agent nothing was ever booked for.                    *)
EmptyAccount == [c \in Columns |-> 0]

(***************************************************************************)
(* Account deltas                                                          *)
(***************************************************************************)

NoDelta == [c \in Columns |-> 0]

(* Money that goes from one bucket to another, as an AccountDelta and as   *)
(* the two deltas of a ledger entry (AddToDelta, AddDelta).                *)
MoveDelta(from, to, amount) ==
  [NoDelta EXCEPT ![from] = -amount, ![to] = amount]

(* AccountDelta.Apply, before its overflow checks.                         *)
Apply(a, d) == [c \in Columns |-> a[c] + d[c]]

Overflows(a) == \E c \in Columns : ~Fits(a[c])

NegativeBuckets(a) == {b \in Buckets : a[b] < 0}

AcceptsAnyWidth(k, d, requireNonNegative) ==  \* mutant: the sum may wrap
  requireNonNegative => NegativeBuckets(Apply(accounts[k], d)) = {}

(* IncrementAccount succeeds: no column overflows and, if the delta asks   *)
(* for it (RequireNonNegative), no bucket at all ends up below zero.  The  *)
(* guard looks at every bucket, not only at those the delta changes.       *)
Accepts(k, d, requireNonNegative) ==
  LET a == Apply(accounts[k], d)
  IN  /\ ~Overflows(a)
      /\ requireNonNegative => NegativeBuckets(a) = {}

(***************************************************************************)
(* Ledger entries                                                          *)
(***************************************************************************)

NoMoves == [b \in Buckets |-> 0]

Moves(from, to, amount) ==
  [NoMoves EXCEPT ![from] = -amount, ![to] = amount]

NewLedgerEntryBefore(biz, ref, saved, moves) ==  \* mutant: the balances before
  [biz |-> biz, ref |-> ref, delta |-> moves,
   after |-> [b \in Buckets |-> saved[b] - moves[b]]]

(* newLedgerEntry followed by AddDelta for the second bucket of a two-     *)
(* bucket move: the deltas the caller names, and the balances of the saved *)
(* account after the movement.                                             *)
NewLedgerEntry(biz, ref, saved, moves) ==
  [biz |-> biz, ref |-> ref, delta |-> moves,
   after |-> [b \in Buckets |-> saved[b]]]

(* One movement of money: IncrementAccount, then AppendLedger with the     *)
(* account it returned.                                                    *)
Post(k, d, biz, ref, moves) ==
  LET saved == Apply(accounts[k], d)
  IN  /\ accounts' = [accounts EXCEPT ![k] = saved]
      /\ ledger' = [ledger EXCEPT
                      ![k] = Append(@, NewLedgerEntry(biz, ref, saved, moves))]

BooksInit ==
  /\ accounts = [k \in Agents |-> EmptyAccount]
  /\ ledger = [k \in Agents |-> << >>]

(***************************************************************************)
(* What the books promise, as predicates on an account table and a ledger  *)
(* so that they can be stated of a rollback snapshot too.                  *)
(***************************************************************************)

BooksTypeOK(acc, led) ==
  /\ acc \in [Agents -> Account]
  /\ led \in [Agents -> Seq(Entry)]

BalanceBefore(L, i, b) == IF i = 1 THEN 0 ELSE L[i - 1].after[b]

(* Every entry's balances are those of the entry before it plus its own    *)
(* deltas, and the account is where the last entry left it: the account    *)
(* equals the sum of all its deltas (SelfCheck's I1) at every point of     *)
(* its history, not only at the end.                                       *)
LedgerChain(acc, led) ==
  \A k \in Agents : \A b \in Buckets :
    /\ \A i \in 1 .. Len(led[k]) :
         led[k][i].after[b] = BalanceBefore(led[k], i, b) + led[k][i].delta[b]
    /\ acc[k][b] = BalanceBefore(led[k], Len(led[k]) + 1, b)

(* No column of an account has left the range of the machine integer.      *)
WithinWidth(acc) == \A k \in Agents : ~Overflows(acc[k])

(* Only the withdrawable bucket can be negative, and only where debt is    *)
(* allowed.                                                                *)
NoUnallowedDebt(acc, debtAllowed) ==
  \A k \in Agents :
    NegativeBuckets(acc[k]) \subseteq (IF debtAllowed THEN {"available"} ELSE {})

=============================================================================
