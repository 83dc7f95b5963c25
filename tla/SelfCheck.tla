----------------------------- MODULE SelfCheck -----------------------------
(***************************************************************************)
(* SelfCheck (selfcheck.go): the four invariants that the library verifies *)
(* on its own rows, each as the set of violations it reports, and the      *)
(* candidate filter of a store that does the sums itself                   *)
(* (store/sql/reconcile.go).                                               *)
(*                                                                         *)
(* A check reads an image of the store.  The image of the running system   *)
(* is StoreImage; the properties also look at images that somebody has     *)
(* tampered with, because a check that never fails says nothing.  Wording, *)
(* counters and the cap on the evidence recorded are left out.             *)
(***************************************************************************)
EXTENDS Kernel

(* What the View of the self check sees.                                   *)
StoreImage == [accounts |-> accounts, ledger |-> ledger,
               commissions |-> commissions, withdrawals |-> withdrawals]

-----------------------------------------------------------------------------
(***************************************************************************)
(* I1: an account is the sum of its ledger deltas                          *)
(***************************************************************************)

SummedDeltas(img, k) ==
  LET entries == img.ledger[k]
  IN  [b \in Buckets |->
         SumFunctionOnSet([i \in DOMAIN entries |-> entries[i].delta[b]], DOMAIN entries)]

LastEntry(L) == L[Len(L)]

PermitsNoDebt(b) == FALSE  \* mutant: a debt is never permitted

(* A debt in the withdrawable bucket is a note where the rules permit it.  *)
PermitsDebt(b) == AllowNegative /\ b = "available"

JudgeBySums(img, k) ==  \* mutant: the last entry's balances are not compared
  LET acct == img.accounts[k]
  IN  {<<"negative", k, b>> : b \in {x \in NegativeBuckets(acct) : ~PermitsDebt(x)}}
        \cup {<<"sum", k, b>> : b \in {x \in Buckets : SummedDeltas(img, k)[x] # acct[x]}}

(* accountConservationViolations: the one judgement both paths share.      *)
AccountConservationViolations(img, k) ==
  LET acct == img.accounts[k]
      entries == img.ledger[k]
      sums == SummedDeltas(img, k)
      Off(kind, Wrong(_)) == {<<kind, k, b>> : b \in {x \in Buckets : Wrong(x)}}
  IN  Off("negative", LAMBDA b : acct[b] < 0 /\ ~PermitsDebt(b))
        \cup (IF entries = << >>
                THEN Off("no entries", LAMBDA b : acct[b] # 0)
                ELSE Off("sum", LAMBDA b : sums[b] # acct[b])
                       \cup Off("tail", LAMBDA b : LastEntry(entries).after[b] # acct[b]))

(* checkLedgerConservation: every account, row by row.                     *)
CheckLedgerConservation(img) ==
  UNION {AccountConservationViolations(img, k) : k \in Agents}

CandidatesBySum(img) ==  \* mutant: the last entry is not joined
  {k \in Agents : \E b \in Buckets :
     \/ img.accounts[k][b] # SummedDeltas(img, k)[b]
     \/ img.accounts[k][b] < 0}

(* ReconcileAccounts: the accounts the aggregate query lets through.  A    *)
(* comparison with the balances of a last entry that is not there is NULL, *)
(* which is no candidate.                                                  *)
Candidates(img) ==
  {k \in Agents : \E b \in Buckets :
     \/ img.accounts[k][b] # SummedDeltas(img, k)[b]
     \/ /\ img.ledger[k] # << >>
        /\ LastEntry(img.ledger[k]).after[b] # img.accounts[k][b]
     \/ img.accounts[k][b] < 0}

(* checkLedgerConservationReconciled: the same judgement of the            *)
(* candidates only, where they fit on one page.                            *)
CheckLedgerConservationReconciled(img) ==
  UNION {AccountConservationViolations(img, k) : k \in Candidates(img)}

-----------------------------------------------------------------------------
(***************************************************************************)
(* I2: commissions and ledger entries point at each other, and the layers  *)
(* of a line item stay below the cap                                       *)
(***************************************************************************)

Entries(img) == UNION {{img.ledger[k][i] : i \in DOMAIN img.ledger[k]} : k \in Agents}

RefsOf(img, bizTypes) == {e.ref : e \in {x \in Entries(img) : x.biz \in bizTypes}}

(* referencesCommission                                                    *)
CommissionRefs == {"accrue", "reverse", "void"}

AccrualRows(img) == {c \in DOMAIN img.commissions : img.commissions[c].amount > 0}

ReversalRows(img) == DOMAIN img.commissions \ AccrualRows(img)

CheckAllocationCap(img) ==
  LET refs == RefsOf(img, CommissionRefs)
      known == DOMAIN img.commissions
      Item(c) == <<img.commissions[c].order, img.commissions[c].item>>
      Group(g) == {c \in AccrualRows(img) : Item(c) = g}
      Allocated(g) == SumFunctionOnSet([c \in known |-> img.commissions[c].amount], Group(g))
      CapOf(g) == ApplyRate(img.commissions[Min(Group(g))].base, MaxAllocatableBP, "down")
  IN  {<<"no entry", c>> : c \in known \ refs}
        \cup {<<"missing commission", r>> : r \in refs \ known}
        \cup {<<"over the cap", g>> : g \in
                {h \in {Item(c) : c \in AccrualRows(img)} : Allocated(h) > CapOf(h)}}

-----------------------------------------------------------------------------
(***************************************************************************)
(* I3: accumulators, reversal rows, states and account totals              *)
(***************************************************************************)

(* A reversal row whose original is there and is an accrual is counted;    *)
(* any other is a violation of its own.                                    *)
LinkedReversals(img) ==
  {r \in ReversalRows(img) : img.commissions[r].reverseOf \in AccrualRows(img)}

CheckReversalReconciliation(img) ==
  LET row(c) == img.commissions[c]
      touched == {c \in AccrualRows(img) : row(c).reversed # 0}
      linked == LinkedReversals(img)
      ReversalSum(rs) == SumFunctionOnSet([r \in DOMAIN img.commissions |-> -row(r).amount], rs)
      ReversedOf(c) == ReversalSum({r \in linked : row(r).reverseOf = c})
      Earned(k) == SumFunctionOnSet([c \in DOMAIN img.commissions |-> row(c).amount],
                                    {c \in AccrualRows(img) : row(c).agent = k})
      Lost(k) == ReversalSum({r \in linked : row(r).agent = k})
      ids == touched \cup {row(r).reverseOf : r \in linked}
  IN  {<<"range", c>> : c \in {x \in touched : row(x).reversed \notin 0 .. row(x).amount}}
        \cup {<<"state", c>> : c \in
                {x \in touched : FullyReversed(row(x)) # Terminal(row(x).state)}}
        \cup {<<"unlinked reversal", r>> : r \in ReversalRows(img) \ linked}
        \cup {<<"accumulator", c>> : c \in {x \in ids : row(x).reversed # ReversedOf(x)}}
        \cup {<<"exceeds", c>> : c \in {x \in ids : ReversedOf(x) > row(x).amount}}
        \cup {<<"total earned", k>> : k \in
                {x \in Agents : img.accounts[x]["totalEarned"] # Earned(x)}}
        \cup {<<"total reversed", k>> : k \in
                {x \in Agents : img.accounts[x]["totalReversed"] # Lost(x)}}

-----------------------------------------------------------------------------
(***************************************************************************)
(* I4: withdrawals, the reserved bucket and the ledger                     *)
(***************************************************************************)

CheckWithdrawalReconciliation(img) ==
  LET row(w) == img.withdrawals[w]
      Lacking(kind, biz, ws) == {<<kind, w>> : w \in ws \ RefsOf(img, {biz})}
      InState(s) == {w \in DOMAIN img.withdrawals : row(w).state = s}
      ReservedBy(k) == SumFunctionOnSet([w \in DOMAIN img.withdrawals |-> Held(row(w))],
                                        {w \in DOMAIN img.withdrawals : row(w).agent = k})
  IN  Lacking("no hold", "withdraw_hold", DOMAIN img.withdrawals)
        \cup Lacking("never moved", "withdraw_paid", InState("paid"))
        \cup Lacking("never came back", "withdraw_refund", InState("rejected"))
        \cup {<<"reserved", k>> : k \in
                {x \in Agents : img.accounts[x]["withdrawing"] # ReservedBy(x)}}

-----------------------------------------------------------------------------

(* SelfCheck's Report.OK, over a store that is checked row by row.         *)
ReportOK(img) ==
  /\ CheckLedgerConservation(img) = {}
  /\ CheckAllocationCap(img) = {}
  /\ CheckReversalReconciliation(img) = {}
  /\ CheckWithdrawalReconciliation(img) = {}

-----------------------------------------------------------------------------
(***************************************************************************)
(* Properties                                                              *)
(***************************************************************************)

(* No false alarm: whatever operations, refusals, roll-backs and crashes   *)
(* came before, a self check that waits for the lock finds nothing to      *)
(* report; a debt the rules permit is no violation either (SelfCheck).     *)
NoFalseAlarm == Unlocked => ReportOK(StoreImage)

Without(f, x) == [y \in DOMAIN f \ {x} |-> f[y]]

WithoutEntry(L, i) == SubSeq(L, 1, i - 1) \o SubSeq(L, i + 1, Len(L))

(* A column of an account is off by one and the ledger does not know, or   *)
(* knows in the delta of an entry but not in its balances.                 *)
ColumnOff(k, col, d) == [StoreImage EXCEPT !.accounts[k][col] = @ + d]

DeltaOff(k, i, b) ==
  [StoreImage EXCEPT !.accounts[k][b] = @ + 1, !.ledger[k][i].delta[b] = @ + 1]

WrongAccounts ==
  {ColumnOff(k, col, d) : k \in Agents, col \in Columns, d \in {-1, 1}}
  \cup UNION {{DeltaOff(k, i, b) : i \in DOMAIN ledger[k], b \in Buckets} : k \in Agents}

(* A row is missing.                                                       *)
EntryLost(k, i) == [StoreImage EXCEPT !.ledger[k] = WithoutEntry(@, i)]

CommissionLost(c) == [StoreImage EXCEPT !.commissions = Without(@, c)]

WithdrawalLost(w) == [StoreImage EXCEPT !.withdrawals = Without(@, w)]

OpenWithdrawals ==
  {w \in DOMAIN withdrawals : withdrawals[w].state \in {"applied", "approved", "pay_failed"}}

LostRows ==
  {CommissionLost(c) : c \in DOMAIN commissions}
  \cup {WithdrawalLost(w) : w \in OpenWithdrawals}
  \cup UNION {{EntryLost(k, i) : i \in DOMAIN ledger[k]} : k \in Agents}

(* A row that claims what did not happen: an accumulator off by one, and a *)
(* withdrawal closed without its money.                                    *)
AccumulatorOff(c) == [StoreImage EXCEPT !.commissions[c].reversed = @ + 1]

ClosedUnpaid(w, s) == [StoreImage EXCEPT !.withdrawals[w].state = s]

WrongRows ==
  {AccumulatorOff(c) : c \in {x \in DOMAIN commissions : commissions[x].amount > 0}}
  \cup {ClosedUnpaid(w, s) : w \in OpenWithdrawals, s \in {"paid", "rejected"}}

(* What the self check is asked to notice.  Some single writes that are    *)
(* lost or alone are not here, because none of the four invariants looks   *)
(* at them: a commission's state written without its money or the money    *)
(* without the state (settleOne), a withdrawal lost after it was closed, a *)
(* lost refund voucher.                                                    *)
Tampered == WrongAccounts \cup LostRows \cup WrongRows

(* At every point of every history, at least one of the four invariants    *)
(* reports each of these: a column of an account that is one off; a bucket *)
(* and the delta of an entry both one too high, but not the balance after  *)
(* it; a missing ledger entry, commission or open withdrawal; an accrual's *)
(* accumulator that is one too high; an open withdrawal that is marked     *)
(* paid or rejected and nothing else (SelfCheck).                          *)
CorruptionFound == Unlocked => \A img \in Tampered : ~ReportOK(img)

(* The narrowing of a reconciling store never drops a broken account: on   *)
(* sound and on tampered rows, both paths of I1 report the same violations *)
(* (ReconcileAccounts).                                                    *)
NarrowingComplete ==
  Unlocked =>
    \A img \in Tampered \cup {StoreImage} :
      CheckLedgerConservationReconciled(img) = CheckLedgerConservation(img)

=============================================================================
