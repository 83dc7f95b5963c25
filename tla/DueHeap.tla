------------------------------ MODULE DueHeap ------------------------------
(***************************************************************************)
(* DueWork of the in-memory store: the earliest due commissions of all     *)
(* tenants, selected in one walk over an index sorted by tenant with a     *)
(* heap of at most `limit` entries whose root is the latest of them.       *)
(***************************************************************************)
EXTENDS MemoryStore

(* Later settlement date, then larger id.                                  *)
Worse(x, y) == x[2] > y[2] \/ (x[2] = y[2] /\ x[3] > y[3])

(* Of a place of the heap and the two below it, the one with the worst:    *)
(* ids differ, so only one is.                                             *)
Largest(h, i) ==
  LET family == {i, 2 * i, 2 * i + 1} \cap DOMAIN h
  IN  CHOOSE j \in family : \A k \in family : ~Worse(h[k], h[j])

Swap(h, i, j) == [h EXCEPT ![i] = h[j], ![j] = h[i]]

(* at[n] is the heap and the entry's place after n swaps; once no child is *)
(* worse, the entry is swapped with itself.                                *)
SiftDown(h, i) ==
  LET at[n \in 0 .. Len(h)] ==
        IF n = 0 THEN <<h, i>>
        ELSE LET below == Largest(at[n - 1][1], at[n - 1][2])
             IN  <<Swap(at[n - 1][1], at[n - 1][2], below), below>>
  IN  at[Len(h)][1]

(* heapifyWorstFirst: the places that have others below them, last first.  *)
Heapify(h) ==
  LET parents == Len(h) \div 2
      built[n \in 0 .. parents] ==
        IF n = 0 THEN h ELSE SiftDown(built[n - 1], parents + 1 - n)
  IN  built[parents]

OfferUnordered(h, ref, limit) ==  \* mutant: the heap is built too late
  IF Len(h) < limit THEN Append(h, ref)
  ELSE IF Worse(h[1], ref) THEN SiftDown([h EXCEPT ![1] = ref], 1) ELSE h

(* One candidate of the walk.                                              *)
Offer(h, ref, limit) ==
  IF Len(h) < limit
  THEN LET g == Append(h, ref) IN IF Len(g) = limit THEN Heapify(g) ELSE g
  ELSE IF Worse(h[1], ref) THEN SiftDown([h EXCEPT ![1] = ref], 1)
  ELSE h

WorkLess(x, y) == x[2] < y[2] \/ (x[2] = y[2] /\ x[3] < y[3])

(* The sort of the result.                                                 *)
InOrder(S) ==
  [n \in 1 .. Cardinality(S) |->
     CHOOSE x \in S : Cardinality({y \in S : WorkLess(y, x)}) = n - 1]

(* kept[n] is the heap when the walk has passed n entries of the index.    *)
DueWork(dueAt, limit) ==
  LET kept[n \in 0 .. Len(pendingDue)] ==
        IF n = 0 THEN << >>
        ELSE IF pendingDue[n][2] <= dueAt /\ Fresh(pendingDue[n])
               THEN Offer(kept[n - 1], pendingDue[n], limit)
        ELSE kept[n - 1]
  IN  InOrder(Elements(kept[Len(pendingDue)]))

(* The scan behind Maintain returns the earliest due commissions of the    *)
(* whole installation, whatever tenants they belong to and however small   *)
(* the limit (store/memory/reader.go, DueWork): no tenant is passed over   *)
(* because of its place in the index.                                      *)
DueWorkExact ==
  \A dueAt \in Times, limit \in 1 .. MaxId :
    FirstOf(DueWork(dueAt, limit), DueSet(Tenants, dueAt), limit, WorkLess)
=============================================================================
