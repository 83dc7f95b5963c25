---------------------------- MODULE MemoryStore ----------------------------
(***************************************************************************)
(* The in-memory store (store/memory).  It has no copy of the committed    *)
(* data: a transaction changes the maps and the indexes in place under the *)
(* write lock, and an undo log holds what is needed to take it back.       *)
(*                                                                         *)
(* Rows of the four append-only tables share one id counter; a row carries *)
(* what the indexes sort and group it by.  Versions are left out: a write  *)
(* whose version does not match returns an error and changes nothing, as   *)
(* does one with a key that is there or an id that is not.                 *)
(***************************************************************************)
EXTENDS Integers, Sequences, FiniteSets, FiniteSetsExt

CONSTANTS
  NewRows,        \* the rows callers append
  PutKeys,        \* [table, tenant, user] of agents, bindings and accounts
  PutValues,      \* values put under them
  Times,          \* settlement dates; 0 is the zero time
  MaxId,          \* bound on the ids handed out
  MaxWrites       \* bound on the writes that are kept

Tables == {"commission", "refund", "withdrawal", "ledger"}
IdTables == {"commission", "withdrawal", "ledger"}

(* Of the states of a commission, pending, frozen and settled matter here; *)
(* a withdrawal is applied, other rows have no state.                      *)
RowStates == {"pending", "frozen", "settled", "applied", "none"}

(* A row: what the indexes depend on, and the rest of it.  Tenants and     *)
(* users are numbers in the code as well.                                  *)
StoredRow ==
  [table : Tables, tenant : Nat, order : Nat, user : Nat,
   state : RowStates, at : Times \cup {0}, rest : {0, 1}]

ASSUME MemoryAssumption ==
  /\ NewRows \subseteq StoredRow
  /\ PutKeys \subseteq [table : STRING, tenant : Nat, user : Nat]
  /\ Times \subseteq Nat \ {0}
  /\ MaxId \in Nat /\ MaxWrites \in Nat

VARIABLES
  rows,           \* commissions, refunds, withdrawals, ledger: id -> row
  puts,           \* agents, bindings, accounts: key -> value
  idem,           \* idem, refundIdem, withdrawIdem: key -> id
  ids,            \* commissionIDs, withdrawalIDs, ledgerIDs
  groups,         \* byOrder, byAgent, refundsByOrder, ledgerByUser, -ByTenant
  accountIDs,     \* account keys sorted by (tenant, user)
  pendingDue,     \* <<tenant, at, id>> sorted
  nextID,         \* the last id handed out
  phase,          \* the lock: "free", "open" (write-locked), "closed"
  undo,           \* the undo log of the open transaction
  writes          \* number of writes the data shows, for the bound

data == <<rows, puts, idem, ids, groups, accountIDs, pendingDue, nextID>>
memVars == <<data, phase, undo, writes>>

HasKey(row) == row.table # "ledger"
KeyOf(row) == <<row.table, row.tenant, row.order, row.user>>

GroupsOf(row) ==
  CASE row.table = "commission" ->
         {<<"byOrder", row.tenant, row.order>>, <<"byAgent", row.tenant, row.user>>}
    [] row.table = "refund" -> {<<"refundsByOrder", row.tenant, row.order>>}
    [] row.table = "ledger" ->
         {<<"ledgerByUser", row.tenant, row.user>>, <<"ledgerByTenant", row.tenant, 0>>}
    [] OTHER -> {}

(* f with k set to v, k new or not.                                        *)
With(f, k, v) == [x \in DOMAIN f \cup {k} |-> IF x = k THEN v ELSE f[x]]

(* sort.Search over a sorted slice: the first of the qualifying positions, *)
(* or the one behind the end.                                              *)
Search(s, qualifying) == Min(qualifying \cup {Len(s) + 1})

InsertAt(s, i, e) == SubSeq(s, 1, i - 1) \o <<e>> \o SubSeq(s, i, Len(s))
RemoveAt(s, i) == SubSeq(s, 1, i - 1) \o SubSeq(s, i + 1, Len(s))

-----------------------------------------------------------------------------
(***************************************************************************)
(* Undo records                                                            *)
(***************************************************************************)

NoteLatest(saved, f, k, none) ==  \* mutant: a later value replaces the first
  With(saved, k, IF k \in DOMAIN f THEN [existed |-> TRUE, val |-> f[k]]
                 ELSE [existed |-> FALSE, val |-> none])

(* saveRow, saveIdem, ...: the value before the transaction's first write. *)
Note(saved, f, k, none) ==
  IF k \in DOMAIN saved THEN saved
  ELSE With(saved, k, IF k \in DOMAIN f THEN [existed |-> TRUE, val |-> f[k]]
                      ELSE [existed |-> FALSE, val |-> none])

(* restoreMap                                                              *)
RestoreMap(saved, f) ==
  LET gone == {k \in DOMAIN saved : ~saved[k].existed}
      back == DOMAIN saved \ gone
  IN  [k \in (DOMAIN f \ gone) \cup back |->
         IF k \in back THEN saved[k].val ELSE f[k]]

(* noteAppendIndex, for each index a row goes into.                        *)
NoteIndexes(saved, f, S) ==
  [k \in DOMAIN saved \cup S |->
     IF k \in DOMAIN saved THEN saved[k]
     ELSE [existed |-> k \in DOMAIN f, length |-> IF k \in DOMAIN f THEN Len(f[k]) ELSE 0]]

(* restoreAppendIndex: keys the transaction created are deleted.           *)
RestoreIndex(saved, f) ==
  [k \in DOMAIN f \ {x \in DOMAIN saved : ~saved[x].existed} |->
     IF k \in DOMAIN saved THEN SubSeq(f[k], 1, saved[k].length) ELSE f[k]]

(* orderedUndo: nothing, the old length, or the old slice.                 *)
Unsaved == [kind |-> "none", length |-> 0, full |-> << >>]

NoteAppend(o, cur) ==
  IF o.kind = "none" THEN [o EXCEPT !.kind = "length", !.length = Len(cur)] ELSE o

NoteStructuralWhole(o, cur) ==  \* mutant: clones what the transaction appended
  IF o.kind = "full" THEN o ELSE [o EXCEPT !.kind = "full", !.full = cur]

NoteStructural(o, cur) ==
  CASE o.kind = "full" -> o
    [] o.kind = "length" ->
         [o EXCEPT !.kind = "full", !.full = SubSeq(cur, 1, o.length)]
    [] OTHER -> [o EXCEPT !.kind = "full", !.full = cur]

RestoreOrdered(o, cur) ==
  CASE o.kind = "full" -> o.full
    [] o.kind = "length" -> SubSeq(cur, 1, o.length)
    [] OTHER -> cur

NoUndo ==
  [rows |-> << >>, puts |-> << >>, idem |-> << >>, groups |-> << >>,
   idsLen |-> [t \in IdTables |-> 0],
   due |-> Unsaved, accountIDs |-> Unsaved, nextID |-> 0, writes |-> 0]

NewUndo ==
  [NoUndo EXCEPT !.idsLen = [t \in IdTables |-> Len(ids[t])], !.nextID = nextID,
                 !.writes = writes]

-----------------------------------------------------------------------------
(***************************************************************************)
(* Index maintenance                                                       *)
(***************************************************************************)

Tracked(state) == state \in {"pending", "frozen"}

DueLess(x, y) ==
  \/ x[1] < y[1]
  \/ x[1] = y[1] /\ x[2] < y[2]
  \/ x[1] = y[1] /\ x[2] = y[2] /\ x[3] < y[3]

(* insertDue: at the end, or in the middle with a full snapshot.           *)
InsertDue(ref, u) ==
  LET pos == Search(pendingDue, {i \in DOMAIN pendingDue : ~DueLess(pendingDue[i], ref)})
  IN  /\ pendingDue' = InsertAt(pendingDue, pos, ref)
      /\ undo' = [u EXCEPT !.due = IF pos = Len(pendingDue) + 1
                                   THEN NoteAppend(@, pendingDue)
                                   ELSE NoteStructural(@, pendingDue)]

RemoveDue(ref, u) ==
  LET pos == Search(pendingDue, {i \in DOMAIN pendingDue : ~DueLess(pendingDue[i], ref)})
  IN  IF pos <= Len(pendingDue) /\ pendingDue[pos] = ref
      THEN /\ pendingDue' = RemoveAt(pendingDue, pos)
           /\ undo' = [u EXCEPT !.due = NoteStructural(@, pendingDue)]
      ELSE pendingDue' = pendingDue /\ undo' = u

AccountLess(x, y) == x[1] < y[1] \/ (x[1] = y[1] /\ x[2] < y[2])

(* insertAccountID                                                         *)
InsertAccountID(key, u) ==
  LET pos == Search(accountIDs, {i \in DOMAIN accountIDs : ~AccountLess(accountIDs[i], key)})
  IN  IF pos <= Len(accountIDs) /\ accountIDs[pos] = key
      THEN accountIDs' = accountIDs /\ undo' = u
      ELSE /\ accountIDs' = InsertAt(accountIDs, pos, key)
           /\ undo' = [u EXCEPT !.accountIDs = IF pos = Len(accountIDs) + 1
                                               THEN NoteAppend(@, accountIDs)
                                               ELSE NoteStructural(@, accountIDs)]

-----------------------------------------------------------------------------
(***************************************************************************)
(* Transactions                                                            *)
(***************************************************************************)

MemInit ==
  /\ rows = << >> /\ puts = << >> /\ idem = << >>
  /\ ids = [t \in IdTables |-> << >>]
  /\ groups = << >> /\ accountIDs = << >> /\ pendingDue = << >>
  /\ nextID = 0
  /\ phase = "free"
  /\ undo = NoUndo
  /\ writes = 0

(* Update takes the lock and starts a new undo log.                        *)
Begin ==
  /\ phase = "free" /\ phase' = "open"
  /\ undo' = NewUndo
  /\ UNCHANGED <<data, writes>>

Writes ==
  /\ phase = "open" /\ UNCHANGED phase
  /\ writes < MaxWrites /\ writes' = writes + 1

NoRow == [table |-> "none", tenant |-> 0, order |-> 0, user |-> 0,
          state |-> "none", at |-> 0, rest |-> 0]

(* AppendCommission, AppendRefund, AppendWithdrawal, AppendLedger.         *)
AppendRow(row) ==
  LET id == nextID + 1
      key == KeyOf(row)
      u == [undo EXCEPT
              !.rows = Note(@, rows, id, NoRow),
              !.idem = IF HasKey(row) THEN Note(@, idem, key, 0) ELSE @,
              !.groups = NoteIndexes(@, groups, GroupsOf(row))]
  IN  /\ Writes
      /\ id <= MaxId
      /\ HasKey(row) => key \notin DOMAIN idem
      /\ nextID' = id
      /\ rows' = With(rows, id, row)
      /\ idem' = IF HasKey(row) THEN With(idem, key, id) ELSE idem
      /\ ids' = IF row.table \in IdTables
                THEN [ids EXCEPT ![row.table] = Append(@, id)] ELSE ids
      /\ groups' = [g \in DOMAIN groups \cup GroupsOf(row) |->
                      IF g \notin GroupsOf(row) THEN groups[g]
                      ELSE Append(IF g \in DOMAIN groups THEN groups[g] ELSE << >>, id)]
      /\ IF row.table = "commission" /\ Tracked(row.state) /\ row.at # 0
         THEN InsertDue(<<row.tenant, row.at, id>>, u)
         ELSE pendingDue' = pendingDue /\ undo' = u
      /\ UNCHANGED <<puts, accountIDs>>

Commissions == {id \in DOMAIN rows : rows[id].table = "commission"}

(* SetCommissionAvailableAt: the first date stays.                         *)
SetCommissionAvailableAt(id, at) ==
  LET row == [rows[id] EXCEPT !.at = at]
      u == [undo EXCEPT !.rows = Note(@, rows, id, NoRow)]
  IN  /\ Writes
      /\ rows[id].at = 0
      /\ rows' = [rows EXCEPT ![id] = row]
      /\ IF Tracked(row.state)
         THEN InsertDue(<<row.tenant, at, id>>, u)
         ELSE pendingDue' = pendingDue /\ undo' = u
      /\ UNCHANGED <<puts, idem, ids, groups, accountIDs, nextID>>

(* SetCommissionReversedAmount and TransitionWithdrawal change what no     *)
(* index depends on.                                                       *)
Amend(id) ==
  /\ Writes
  /\ rows[id].table \in {"commission", "withdrawal"}
  /\ rows[id].rest = 0
  /\ rows' = [rows EXCEPT ![id].rest = 1]
  /\ undo' = [undo EXCEPT !.rows = Note(@, rows, id, NoRow)]
  /\ UNCHANGED <<puts, idem, ids, groups, accountIDs, pendingDue, nextID>>

(* Pending, frozen and settled stand for the states of a commission; the   *)
(* others are, like settled, outside the index for good.                   *)
CanTransition(from, to) ==
  <<from, to>> \in {<<"pending", "frozen">>, <<"frozen", "pending">>,
                    <<"pending", "settled">>, <<"frozen", "settled">>}

(* TransitionCommission: freezing keeps the index entry.                   *)
TransitionCommission(id, to) ==
  LET row == rows[id]
      u == [undo EXCEPT !.rows = Note(@, rows, id, NoRow)]
  IN  /\ Writes
      /\ CanTransition(row.state, to)
      /\ rows' = [rows EXCEPT ![id].state = to]
      /\ IF ~Tracked(to) /\ row.at # 0
         THEN RemoveDue(<<row.tenant, row.at, id>>, u)
         ELSE pendingDue' = pendingDue /\ undo' = u
      /\ UNCHANGED <<puts, idem, ids, groups, accountIDs, nextID>>

(* PutAgent, PutBinding, PutAccount, IncrementAccount: only accounts have  *)
(* an ordered index.                                                       *)
Put(k, v) ==
  LET u == [undo EXCEPT !.puts = Note(@, puts, k, 0)]
  IN  /\ Writes
      /\ puts' = With(puts, k, v)
      /\ IF k.table = "account" /\ k \notin DOMAIN puts
         THEN InsertAccountID(<<k.tenant, k.user>>, u)
         ELSE accountIDs' = accountIDs /\ undo' = u
      /\ UNCHANGED <<rows, idem, ids, groups, pendingDue, nextID>>

CommitKeepingUndo ==  \* mutant: the undo log outlives its transaction
  /\ phase = "open" /\ phase' = "free"
  /\ UNCHANGED <<data, writes, undo>>

(* The function returned nil.                                              *)
Commit ==
  /\ phase = "open" /\ phase' = "free"
  /\ undo' = NoUndo
  /\ UNCHANGED <<data, writes>>

Restored ==
  [rows |-> RestoreMap(undo.rows, rows),
   puts |-> RestoreMap(undo.puts, puts),
   idem |-> RestoreMap(undo.idem, idem),
   ids |-> [t \in IdTables |-> SubSeq(ids[t], 1, undo.idsLen[t])],
   groups |-> RestoreIndex(undo.groups, groups),
   accountIDs |-> RestoreOrdered(undo.accountIDs, accountIDs),
   pendingDue |-> RestoreOrdered(undo.due, pendingDue),
   nextID |-> undo.nextID]

(* rollback: the function returned an error.                               *)
Rollback ==
  /\ phase = "open" /\ phase' = "free"
  /\ rows' = Restored.rows
  /\ puts' = Restored.puts
  /\ idem' = Restored.idem
  /\ ids' = Restored.ids
  /\ groups' = Restored.groups
  /\ accountIDs' = Restored.accountIDs
  /\ pendingDue' = Restored.pendingDue
  /\ nextID' = Restored.nextID
  /\ undo' = NoUndo
  /\ writes' = undo.writes

(* Close may be called again.                                              *)
Close ==
  /\ phase # "open" /\ phase' = "closed"
  /\ UNCHANGED <<data, undo, writes>>

MemNext ==
  \/ Begin \/ Commit \/ Rollback \/ Close
  \/ \E row \in NewRows : AppendRow(row)
  \/ \E id \in Commissions, at \in Times : SetCommissionAvailableAt(id, at)
  \/ \E id \in Commissions, to \in {"pending", "frozen", "settled"} :
       TransitionCommission(id, to)
  \/ \E id \in DOMAIN rows : Amend(id)
  \/ \E k \in PutKeys, v \in PutValues : Put(k, v)

MemSpec == MemInit /\ [][MemNext]_memVars

-----------------------------------------------------------------------------
(***************************************************************************)
(* Readers of the settlement index                                         *)
(***************************************************************************)

(* An index entry is trusted when it agrees with its commission.           *)
Fresh(ref) ==
  /\ ref[3] \in DOMAIN rows
  /\ rows[ref[3]].state = "pending"
  /\ rows[ref[3]].at = ref[2]

(* The tenant's part of the index that is due, found by two searches: from *)
(* DueFrom up to, and without, DueTo.                                      *)
DueFrom(tenant) ==
  Search(pendingDue, {i \in DOMAIN pendingDue : pendingDue[i][1] >= tenant})

DueTo(tenant, dueAt) ==
  Search(pendingDue, {i \in DueFrom(tenant) .. Len(pendingDue) :
                        pendingDue[i][1] # tenant \/ pendingDue[i][2] > dueAt})

DueTrusting(tenant, dueAt, limit) ==  \* mutant: index entries are believed
  SubSeq(pendingDue, DueFrom(tenant),
         Min({DueTo(tenant, dueAt) - 1, DueFrom(tenant) + limit - 1}))

(* DueCommissions: that part is scanned, and stale entries are passed over *)
(* until the page is full; out[i] is what the scan has after position i.   *)
DueCommissions(tenant, dueAt, limit) ==
  LET last == DueTo(tenant, dueAt) - 1
      out[i \in 0 .. last] ==
        IF i < DueFrom(tenant) THEN << >>
        ELSE IF Len(out[i - 1]) < limit /\ Fresh(pendingDue[i])
               THEN Append(out[i - 1], pendingDue[i])
        ELSE out[i - 1]
  IN  out[last]

-----------------------------------------------------------------------------
(***************************************************************************)
(* Properties                                                              *)
(***************************************************************************)

(* Ids are handed out without gaps, also after rollbacks, and an undo log  *)
(* exists only while the transaction it belongs to is open (Update).       *)
MemTypeOK ==
  /\ nextID \in 0 .. MaxId
  /\ DOMAIN rows = 1 .. nextID
  /\ DOMAIN puts \subseteq PutKeys
  /\ phase \in {"free", "open", "closed"}
  /\ phase # "open" => undo = NoUndo
  /\ writes \in 0 .. MaxWrites

Increasing(s, Less(_, _)) == \A i, j \in DOMAIN s : i < j => Less(s[i], s[j])

Elements(s) == {s[i] : i \in DOMAIN s}

(* Every index says exactly what the maps say, inside a transaction and    *)
(* after any rollback: the key and group indexes, the ascending id lists,  *)
(* the sorted accounts, and the settlement index of dated commissions that *)
(* are pending or frozen.  No entry is missing, none is left behind, and   *)
(* no group key outlives its rows (store/memory/memory.go, undo log).      *)
IndexesAgree ==
  /\ idem = [k \in {KeyOf(rows[id]) : id \in {x \in DOMAIN rows : HasKey(rows[x])}} |->
               CHOOSE id \in DOMAIN rows : HasKey(rows[id]) /\ KeyOf(rows[id]) = k]
  /\ \A t \in IdTables :
       /\ Elements(ids[t]) = {id \in DOMAIN rows : rows[id].table = t}
       /\ Increasing(ids[t], LAMBDA x, y : x < y)
  /\ DOMAIN groups = UNION {GroupsOf(rows[id]) : id \in DOMAIN rows}
  /\ \A g \in DOMAIN groups :
       /\ Elements(groups[g]) = {id \in DOMAIN rows : g \in GroupsOf(rows[id])}
       /\ Increasing(groups[g], LAMBDA x, y : x < y)
  /\ Elements(accountIDs) = {<<k.tenant, k.user>> : k \in {x \in DOMAIN puts : x.table = "account"}}
  /\ Increasing(accountIDs, AccountLess)
  /\ Elements(pendingDue) =
       {<<rows[id].tenant, rows[id].at, id>> :
          id \in {x \in Commissions : rows[x].state \in {"pending", "frozen"} /\ rows[x].at # 0}}
  /\ Increasing(pendingDue, DueLess)

(* The commissions a batch of a tenant must see: pending, dated, due.      *)
DueSet(tenants, dueAt) ==
  {<<rows[id].tenant, rows[id].at, id>> :
     id \in {x \in Commissions : /\ rows[x].state = "pending"
                                 /\ rows[x].tenant \in tenants
                                 /\ rows[x].at \in 1 .. dueAt}}

(* s is the first `limit` of S in the given order.                         *)
FirstOf(s, S, limit, Less(_, _)) ==
  /\ Elements(s) \subseteq S
  /\ Len(s) = Min({limit, Cardinality(S)})
  /\ Increasing(s, Less)
  /\ \A x \in S \ Elements(s), i \in DOMAIN s : Less(s[i], x)

Tenants == {r.tenant : r \in NewRows}

(* A batch reads exactly the tenant's due commissions, earliest first, and *)
(* a limit cuts off only later ones: freezing and unfreezing, settling and *)
(* rollbacks neither hide a due commission nor show one that is not        *)
(* (store/memory/reader.go, DueCommissions).                               *)
DueExact ==
  \A tenant \in Tenants, dueAt \in Times, limit \in 1 .. MaxId :
    FirstOf(DueCommissions(tenant, dueAt, limit), DueSet({tenant}, dueAt), limit, DueLess)

(* What a transaction that started now would see, although the only copy   *)
(* is being changed: the undo log applied to the data.                     *)
CommittedContents ==
  IF phase = "open" THEN [rows |-> Restored.rows, puts |-> Restored.puts]
  ELSE [rows |-> rows, puts |-> puts]

Port == INSTANCE StoreSpec WITH
  committed <- CommittedContents,
  working <- [rows |-> rows, puts |-> puts]

(* The in-memory store keeps the promises of the Store port: every write   *)
(* of a transaction leaves the committed contents what they were, commit   *)
(* publishes all of them and rollback none, rows are append-only under     *)
(* ascending ids and unique keys, and a date is written once.              *)
ImplementsStore == Port!Spec
=============================================================================
