------------------------- MODULE MemoryStoreProofs -------------------------
(***************************************************************************)
(* The in-memory store, for any rows, keys and number of writes: its undo  *)
(* log always holds what the open transaction started from, its indexes    *)
(* agree with its maps, a batch and the scan over all tenants read exactly *)
(* what is due, and the store implements the Store port.                   *)
(***************************************************************************)
EXTENDS DueHeap, SequenceTheorems, FiniteSetTheorems, WellFoundedInduction, TLAPS

-----------------------------------------------------------------------------
(***************************************************************************)
(* Maps and their undo records                                             *)
(***************************************************************************)

(* f is a function.                                                        *)
IsMap(f) == f = [x \in DOMAIN f |-> f[x]]

(* Two functions are the same when they map the same things alike.         *)
LEMMA SameMap ==
  ASSUME NEW f, NEW g, IsMap(f), IsMap(g), DOMAIN f = DOMAIN g,
         \A x \in DOMAIN f : f[x] = g[x]
  PROVE  f = g
BY DEF IsMap

(* Putting a key.                                                          *)
LEMMA WithMap ==
  ASSUME NEW f, NEW k, NEW v
  PROVE  /\ IsMap(With(f, k, v))
         /\ DOMAIN With(f, k, v) = DOMAIN f \cup {k}
         /\ With(f, k, v)[k] = v
         /\ \A x \in DOMAIN f \ {k} : With(f, k, v)[x] = f[x]
BY DEF With, IsMap

(* An update in place is a put.                                            *)
LEMMA ExceptIsWith ==
  ASSUME NEW f, IsMap(f), NEW k \in DOMAIN f, NEW v
  PROVE  [f EXCEPT ![k] = v] = With(f, k, v)
BY DEF With, IsMap

(* A map without undo records is what it was.                              *)
LEMMA RestoreNothing ==
  ASSUME NEW f, IsMap(f)
  PROVE  RestoreMap(<< >>, f) = f
<1>1. DOMAIN << >> = {}
  OBVIOUS
<1> QED
  BY <1>1 DEF RestoreMap, IsMap

(* What is restored.                                                       *)
LEMMA RestoreMapMeans ==
  ASSUME NEW saved, NEW f
  PROVE  /\ IsMap(RestoreMap(saved, f))
         /\ \A x : x \in DOMAIN RestoreMap(saved, f) <=>
              IF x \in DOMAIN saved THEN saved[x].existed ELSE x \in DOMAIN f
         /\ \A x \in DOMAIN RestoreMap(saved, f) :
              RestoreMap(saved, f)[x] = IF x \in DOMAIN saved THEN saved[x].val ELSE f[x]
BY DEF RestoreMap, IsMap

(* A write that noted the old value first leaves what would be restored.   *)
LEMMA MapKept ==
  ASSUME NEW saved, NEW f, NEW k, NEW none, NEW v
  PROVE  RestoreMap(Note(saved, f, k, none), With(f, k, v)) = RestoreMap(saved, f)
<1> DEFINE n == Note(saved, f, k, none)
           g == With(f, k, v)
           A == RestoreMap(n, g)
           B == RestoreMap(saved, f)
<1>1. /\ IsMap(A) /\ IsMap(B)
      /\ \A x : x \in DOMAIN A <=> IF x \in DOMAIN n THEN n[x].existed ELSE x \in DOMAIN g
      /\ \A x \in DOMAIN A : A[x] = IF x \in DOMAIN n THEN n[x].val ELSE g[x]
      /\ \A x : x \in DOMAIN B <=> IF x \in DOMAIN saved THEN saved[x].existed ELSE x \in DOMAIN f
      /\ \A x \in DOMAIN B : B[x] = IF x \in DOMAIN saved THEN saved[x].val ELSE f[x]
  BY RestoreMapMeans
<1>2. /\ DOMAIN n = DOMAIN saved \cup {k}
      /\ \A x \in DOMAIN saved : n[x] = saved[x]
      /\ k \notin DOMAIN saved =>
           /\ n[k].existed <=> k \in DOMAIN f
           /\ k \in DOMAIN f => n[k].val = f[k]
  BY DEF Note, With
<1>3. /\ DOMAIN g = DOMAIN f \cup {k}
      /\ \A x \in DOMAIN f \ {k} : g[x] = f[x]
  BY DEF With
<1> HIDE DEF n, g, A, B
<1>4. DOMAIN A = DOMAIN B
  <2>1. ASSUME NEW x PROVE x \in DOMAIN A <=> x \in DOMAIN B
    BY <1>1, <1>2, <1>3
  <2> QED
    BY <2>1
<1>5. ASSUME NEW x \in DOMAIN A PROVE A[x] = B[x]
  BY <1>1, <1>2, <1>3, <1>4
<1>6. A = B
  BY <1>1, <1>4, <1>5, SameMap
<1> QED
  BY <1>6 DEF A, B, n, g

-----------------------------------------------------------------------------
(***************************************************************************)
(* Append-only indexes and their undo records                              *)
(***************************************************************************)

(* A prefix is not changed by what is appended behind it.                  *)
LEMMA PrefixKept ==
  ASSUME NEW T, NEW s \in Seq(T), NEW e \in T, NEW n \in 0 .. Len(s)
  PROVE  /\ SubSeq(Append(s, e), 1, n) = SubSeq(s, 1, n)
         /\ SubSeq(s, 1, Len(s)) = s
         /\ SubSeq(s, 1, n) \in Seq(T)
         /\ Len(SubSeq(s, 1, n)) = n
OBVIOUS

(* Index slices with the lengths they had.                                 *)
LengthsOK(saved, f) ==
  \A k \in DOMAIN saved :
    /\ saved[k].existed \in BOOLEAN
    /\ saved[k].existed => k \in DOMAIN f /\ saved[k].length \in 0 .. Len(f[k])

(* Every index is a slice of ids.                                          *)
IsIndex(f) == IsMap(f) /\ \A k \in DOMAIN f : f[k] \in Seq(Nat)

(* The indexes after an append of id to those in S.                        *)
Appended(f, S, id) ==
  [g \in DOMAIN f \cup S |->
     IF g \notin S THEN f[g]
     ELSE Append(IF g \in DOMAIN f THEN f[g] ELSE << >>, id)]

(* Appending to noted indexes leaves what would be restored.               *)
LEMMA IndexKept ==
  ASSUME NEW saved, NEW f, NEW S, NEW id \in Nat, IsIndex(f), LengthsOK(saved, f)
  PROVE  /\ IsIndex(Appended(f, S, id))
         /\ LengthsOK(NoteIndexes(saved, f, S), Appended(f, S, id))
         /\ RestoreIndex(NoteIndexes(saved, f, S), Appended(f, S, id)) = RestoreIndex(saved, f)
<1> DEFINE n == NoteIndexes(saved, f, S)
           g == Appended(f, S, id)
           A == RestoreIndex(n, g)
           B == RestoreIndex(saved, f)
<1>1. /\ DOMAIN n = DOMAIN saved \cup S
      /\ \A k \in DOMAIN saved : n[k] = saved[k]
      /\ \A k \in S \ DOMAIN saved :
           /\ n[k].existed = (k \in DOMAIN f)
           /\ k \in DOMAIN f => n[k].length = Len(f[k])
  BY DEF NoteIndexes
<1>2. /\ DOMAIN g = DOMAIN f \cup S /\ IsMap(g)
      /\ \A k \in DOMAIN f \ S : g[k] = f[k]
      /\ \A k \in DOMAIN f \cap S : g[k] = Append(f[k], id)
      /\ \A k \in S \ DOMAIN f : g[k] = Append(<< >>, id)
  BY DEF Appended, IsMap
<1>3. /\ IsMap(A) /\ IsMap(B)
      /\ \A x : x \in DOMAIN A <=> x \in DOMAIN g /\ (x \in DOMAIN n => n[x].existed)
      /\ \A x \in DOMAIN A : A[x] = IF x \in DOMAIN n THEN SubSeq(g[x], 1, n[x].length) ELSE g[x]
      /\ \A x : x \in DOMAIN B <=> x \in DOMAIN f /\ (x \in DOMAIN saved => saved[x].existed)
      /\ \A x \in DOMAIN B : B[x] = IF x \in DOMAIN saved THEN SubSeq(f[x], 1, saved[x].length) ELSE f[x]
  BY DEF RestoreIndex, IsMap
<1> HIDE DEF n, g, A, B
<1>4. \A k \in DOMAIN f : f[k] \in Seq(Nat) /\ Len(f[k]) \in Nat
  BY DEF IsIndex
<1>5. ASSUME NEW k \in DOMAIN g
      PROVE  /\ g[k] \in Seq(Nat)
             /\ k \in DOMAIN f => Len(f[k]) <= Len(g[k])
  <2>1. CASE k \in DOMAIN f \ S
    BY <2>1, <1>2, <1>4
  <2>2. CASE k \in DOMAIN f \cap S
    <3>1. g[k] = Append(f[k], id) /\ f[k] \in Seq(Nat)
      BY <2>2, <1>2, <1>4
    <3> QED
      BY <3>1
  <2>3. CASE k \in S \ DOMAIN f
    <3>1. << >> \in Seq(Nat) /\ Append(<< >>, id) \in Seq(Nat)
      OBVIOUS
    <3> QED
      BY <2>3, <1>2, <3>1
  <2> QED
    BY <2>1, <2>2, <2>3, <1>2
<1>6. IsIndex(g)
  BY <1>2, <1>5 DEF IsIndex
<1>7. LengthsOK(n, g)
  <2>1. ASSUME NEW k \in DOMAIN n
        PROVE  /\ n[k].existed \in BOOLEAN
               /\ n[k].existed => k \in DOMAIN g /\ n[k].length \in 0 .. Len(g[k])
    <3>1. CASE k \in DOMAIN saved
      <4>1. /\ n[k] = saved[k] /\ saved[k].existed \in BOOLEAN
            /\ saved[k].existed => k \in DOMAIN f /\ saved[k].length \in 0 .. Len(f[k])
        BY <3>1, <1>1 DEF LengthsOK
      <4>2. ASSUME saved[k].existed
            PROVE  k \in DOMAIN g /\ Len(f[k]) <= Len(g[k]) /\ g[k] \in Seq(Nat) /\ f[k] \in Seq(Nat)
        BY <4>1, <4>2, <1>2, <1>4, <1>5
      <4> QED
        BY <4>1, <4>2
    <3>2. CASE k \in S \ DOMAIN saved
      <4>1. /\ n[k].existed = (k \in DOMAIN f)
            /\ k \in DOMAIN f => n[k].length = Len(f[k])
        BY <3>2, <1>1
      <4>2. ASSUME k \in DOMAIN f
            PROVE  k \in DOMAIN g /\ Len(f[k]) <= Len(g[k]) /\ g[k] \in Seq(Nat) /\ f[k] \in Seq(Nat)
        BY <4>2, <1>2, <1>4, <1>5
      <4>3. n[k].existed \in BOOLEAN
        BY <4>1
      <4>4. ASSUME k \in DOMAIN f
            PROVE  n[k].length \in 0 .. Len(g[k])
        BY <4>1, <4>2, <4>4
      <4> QED
        BY <4>1, <4>2, <4>3, <4>4
    <3> QED
      BY <3>1, <3>2, <1>1
  <2> QED
    BY <2>1 DEF LengthsOK
<1>8. DOMAIN A = DOMAIN B
  <2>1. ASSUME NEW x PROVE x \in DOMAIN A <=> x \in DOMAIN B
    BY <1>1, <1>2, <1>3 DEF LengthsOK
  <2> QED
    BY <2>1
<1>9. ASSUME NEW x \in DOMAIN A PROVE A[x] = B[x]
  <2>0. x \in DOMAIN B /\ x \in DOMAIN f /\ x \in DOMAIN g /\ f[x] \in Seq(Nat)
    BY <1>3, <1>4, <1>8, <1>9
  <2>1. CASE x \in DOMAIN saved
    <3>1. /\ A[x] = SubSeq(g[x], 1, saved[x].length)
          /\ B[x] = SubSeq(f[x], 1, saved[x].length)
          /\ saved[x].length \in 0 .. Len(f[x])
      BY <2>0, <2>1, <1>1, <1>3 DEF LengthsOK
    <3>2. g[x] = f[x] \/ g[x] = Append(f[x], id)
      BY <2>0, <1>2
    <3> QED
      BY <3>1, <3>2, <2>0, PrefixKept, SMTT(30)
  <2>2. CASE x \in S \ DOMAIN saved
    <3>1. A[x] = SubSeq(Append(f[x], id), 1, Len(f[x])) /\ B[x] = f[x]
      BY <2>0, <2>2, <1>1, <1>2, <1>3
    <3>2. Len(f[x]) \in 0 .. Len(f[x])
      BY <2>0
    <3> QED
      BY <3>1, <3>2, <2>0, PrefixKept
  <2>3. CASE x \notin DOMAIN n
    BY <2>0, <2>3, <1>1, <1>2, <1>3
  <2> QED
    BY <2>1, <2>2, <2>3, <1>1
<1>10. A = B
  BY <1>3, <1>8, <1>9, SameMap
<1> QED
  BY <1>6, <1>7, <1>10 DEF A, B, n, g

-----------------------------------------------------------------------------
(***************************************************************************)
(* Sorted slices and their undo records                                    *)
(***************************************************************************)

(* The undo record of a sorted slice.                                      *)
SliceLog(T) == [kind : {"none", "length", "full"}, length : Nat, full : Seq(T)]

LogOK(o, cur, T) ==
  o \in SliceLog(T) /\ (o.kind = "length" => o.length <= Len(cur))

(* Entries added at the end leave what would be restored.                  *)
LEMMA AppendKept ==
  ASSUME NEW T, NEW cur \in Seq(T), NEW e \in T, NEW o, LogOK(o, cur, T)
  PROVE  /\ LogOK(NoteAppend(o, cur), Append(cur, e), T)
         /\ RestoreOrdered(NoteAppend(o, cur), Append(cur, e)) = RestoreOrdered(o, cur)
<1>1. /\ o \in SliceLog(T)
      /\ o.kind \in {"none", "length", "full"} /\ o.length \in Nat /\ o.full \in Seq(T)
      /\ o.kind = "length" => o.length \in 0 .. Len(cur)
      /\ Len(cur) \in Nat /\ Append(cur, e) \in Seq(T) /\ Len(Append(cur, e)) = Len(cur) + 1
  BY DEF LogOK, SliceLog
<1>2. CASE o.kind = "none"
  <2> DEFINE p == [o EXCEPT !.kind = "length", !.length = Len(cur)]
  <2>1. NoteAppend(o, cur) = p
    BY <1>2 DEF NoteAppend
  <2>2. p \in SliceLog(T) /\ p.kind = "length" /\ p.length = Len(cur)
    BY <1>1 DEF SliceLog
  <2> HIDE DEF p
  <2>3. SubSeq(Append(cur, e), 1, Len(cur)) = cur
    OBVIOUS
  <2> QED
    BY <1>1, <1>2, <2>1, <2>2, <2>3 DEF LogOK, RestoreOrdered
<1>3. CASE o.kind = "length"
  <2>1. SubSeq(Append(cur, e), 1, o.length) = SubSeq(cur, 1, o.length)
    BY <1>1, <1>3, PrefixKept
  <2> QED
    BY <1>1, <1>3, <2>1 DEF LogOK, RestoreOrdered, NoteAppend
<1>4. CASE o.kind = "full"
  BY <1>1, <1>4 DEF LogOK, RestoreOrdered, NoteAppend
<1> QED
  BY <1>1, <1>2, <1>3, <1>4

(* After a copy was taken the slice may become anything.                   *)
LEMMA StructuralKept ==
  ASSUME NEW T, NEW cur \in Seq(T), NEW new \in Seq(T), NEW o, LogOK(o, cur, T)
  PROVE  /\ LogOK(NoteStructural(o, cur), new, T)
         /\ RestoreOrdered(NoteStructural(o, cur), new) = RestoreOrdered(o, cur)
<1>1. /\ o \in SliceLog(T)
      /\ o.kind \in {"none", "length", "full"} /\ o.length \in Nat /\ o.full \in Seq(T)
      /\ o.kind = "length" => o.length \in 0 .. Len(cur)
  BY DEF LogOK, SliceLog
<1>2. CASE o.kind = "none"
  <2> DEFINE p == [o EXCEPT !.kind = "full", !.full = cur]
  <2>1. NoteStructural(o, cur) = p
    BY <1>2 DEF NoteStructural
  <2>2. p \in SliceLog(T) /\ p.kind = "full" /\ p.full = cur
    BY <1>1 DEF SliceLog
  <2> HIDE DEF p
  <2> QED
    BY <1>1, <1>2, <2>1, <2>2 DEF LogOK, RestoreOrdered
<1>3. CASE o.kind = "length"
  <2> DEFINE q == SubSeq(cur, 1, o.length)
  <2>0. q \in Seq(T)
    BY <1>1, <1>3
  <2> HIDE DEF q
  <2> DEFINE p == [o EXCEPT !.kind = "full", !.full = q]
  <2>1. NoteStructural(o, cur) = p
    BY <1>3 DEF NoteStructural, q
  <2>2. p \in SliceLog(T) /\ p.kind = "full" /\ p.full = q
    BY <1>1, <2>0 DEF SliceLog
  <2> HIDE DEF p
  <2>3. RestoreOrdered(o, cur) = q
    BY <1>3 DEF RestoreOrdered, q
  <2> QED
    BY <1>1, <1>3, <2>1, <2>2, <2>3 DEF LogOK, RestoreOrdered
<1>4. CASE o.kind = "full"
  BY <1>1, <1>4 DEF LogOK, RestoreOrdered, NoteStructural
<1> QED
  BY <1>1, <1>2, <1>3, <1>4

(* What a restored slice is.                                               *)
LEMMA RestoredSlice ==
  ASSUME NEW T, NEW cur \in Seq(T), NEW o, LogOK(o, cur, T)
  PROVE  RestoreOrdered(o, cur) \in Seq(T)
BY DEF LogOK, SliceLog, RestoreOrdered

(* A set of numbers has its minimum.                                       *)
LEMMA MinNat ==
  ASSUME NEW S, S \subseteq Nat, S # {}
  PROVE  Min(S) \in S /\ \A y \in S : Min(S) <= y
<1> DEFINE R == OpToRel(<, Nat)
<1>0. \A x, y \in Nat : <<x, y>> \in R <=> x < y
  BY DEF OpToRel
<1>3. IsWellFoundedOn(R, Nat)
  BY NatLessThanWellFounded
<1> HIDE DEF R
<1>1. \E x \in S : \A y \in S : ~(<<y, x>> \in R)
  BY <1>3, WFMin
<1>2. \E x \in S : \A y \in S : x <= y
  <2>1. PICK x \in S : \A y \in S : ~(<<y, x>> \in R)
    BY <1>1
  <2>2. ASSUME NEW y \in S PROVE x <= y
    <3>1. x \in Nat /\ y \in Nat /\ ~(<<y, x>> \in R)
      BY <2>1
    <3>2. ~(y < x)
      BY <3>1, <1>0
    <3> QED
      BY <3>1, <3>2
  <2> QED
    BY <2>2
<1> QED
  BY <1>2 DEF Min

(* The search finds the first qualifying position.                         *)
LEMMA SearchMeans ==
  ASSUME NEW T, NEW s \in Seq(T), NEW Q, Q \subseteq DOMAIN s
  PROVE  /\ Search(s, Q) \in 1 .. Len(s) + 1
         /\ Search(s, Q) <= Len(s) => Search(s, Q) \in Q
         /\ \A i \in DOMAIN s : i < Search(s, Q) => i \notin Q
<1> DEFINE S == Q \cup {Len(s) + 1}
<1>1. S \subseteq Nat /\ S # {} /\ Len(s) \in Nat /\ DOMAIN s = 1 .. Len(s)
  OBVIOUS
<1>2. Min(S) \in S /\ \A y \in S : Min(S) <= y
  BY <1>1, MinNat
<1>3. Search(s, Q) = Min(S)
  BY DEF Search
<1>4. Q \subseteq S /\ Len(s) + 1 \in S /\ \A x \in S : x \in Q \/ x = Len(s) + 1
  OBVIOUS
<1> HIDE DEF S
<1>5. Min(S) <= Len(s) + 1 /\ Min(S) \in Nat /\ (Min(S) \in 1 .. Len(s) \/ Min(S) = Len(s) + 1)
  BY <1>1, <1>2, <1>4
<1>6. \A i \in DOMAIN s : i < Min(S) => i \notin Q
  BY <1>1, <1>2, <1>4, <1>5
<1>7. Min(S) <= Len(s) => Min(S) \in Q
  BY <1>1, <1>2, <1>4, <1>5
<1> QED
  BY <1>1, <1>3, <1>5, <1>6, <1>7

(* What an insertion gives.                                                *)
LEMMA InsertAtMeans ==
  ASSUME NEW T, NEW s \in Seq(T), NEW pos \in 1 .. Len(s) + 1, NEW e \in T
  PROVE  /\ InsertAt(s, pos, e) \in Seq(T)
         /\ Len(InsertAt(s, pos, e)) = Len(s) + 1
         /\ \A i \in 1 .. Len(s) + 1 :
              InsertAt(s, pos, e)[i] = IF i < pos THEN s[i] ELSE IF i = pos THEN e ELSE s[i - 1]
         /\ pos = Len(s) + 1 => InsertAt(s, pos, e) = Append(s, e)
<1> DEFINE a == SubSeq(s, 1, pos - 1)
           b == SubSeq(s, pos, Len(s))
<1>1. /\ a \in Seq(T) /\ Len(a) = pos - 1 /\ \A i \in 1 .. pos - 1 : a[i] = s[i]
      /\ b \in Seq(T) /\ Len(b) = Len(s) - pos + 1
      /\ \A i \in 1 .. Len(s) - pos + 1 : b[i] = s[i + pos - 1]
      /\ Len(s) \in Nat
  OBVIOUS
<1> HIDE DEF a, b
<1> DEFINE c == a \o <<e>>
<1>2. c \in Seq(T) /\ Len(c) = pos /\ \A i \in 1 .. pos : c[i] = IF i < pos THEN s[i] ELSE e
  BY <1>1
<1> HIDE DEF c
<1> DEFINE d == c \o b
<1>3. d \in Seq(T) /\ Len(d) = Len(s) + 1
  <2>1. c \in Seq(T) /\ b \in Seq(T)
    BY <1>1, <1>2
  <2>2. d \in Seq(T) /\ Len(d) = Len(c) + Len(b)
    BY <2>1
  <2> QED
    BY <2>2, <1>1, <1>2
<1>4. \A i \in 1 .. Len(s) + 1 : d[i] = IF i <= pos THEN c[i] ELSE b[i - pos]
  BY <1>1, <1>2, SMTT(30)
<1> HIDE DEF d
<1>5. ASSUME NEW i \in 1 .. Len(s) + 1
      PROVE  d[i] = IF i < pos THEN s[i] ELSE IF i = pos THEN e ELSE s[i - 1]
  <2>1. CASE i <= pos
    BY <2>1, <1>1, <1>2, <1>4
  <2>2. CASE i > pos
    <3>1. i - pos \in 1 .. Len(s) - pos + 1 /\ (i - pos) + pos - 1 = i - 1
      BY <2>2, <1>1
    <3>2. b[i - pos] = s[(i - pos) + pos - 1]
      BY <3>1, <1>1
    <3> QED
      BY <2>2, <3>1, <3>2, <1>1, <1>4
  <2> QED
    BY <2>1, <2>2, <1>1
<1>6. InsertAt(s, pos, e) = d
  BY DEF InsertAt, a, b, c, d
<1>7. ASSUME pos = Len(s) + 1
      PROVE  d = Append(s, e)
  <2>1. ASSUME NEW i \in 1 .. Len(s) + 1 PROVE d[i] = Append(s, e)[i]
    BY <1>7, <1>5, <1>1
  <2>2. Append(s, e) \in Seq(T) /\ Len(Append(s, e)) = Len(s) + 1
    OBVIOUS
  <2> QED
    BY <2>1, <2>2, <1>1, <1>3, SeqEqual
<1> QED
  BY <1>3, <1>5, <1>6, <1>7

(* What a removal gives.                                                   *)
LEMMA RemoveAtMeans ==
  ASSUME NEW T, NEW s \in Seq(T), NEW pos \in 1 .. Len(s)
  PROVE  /\ RemoveAt(s, pos) \in Seq(T)
         /\ Len(RemoveAt(s, pos)) = Len(s) - 1
         /\ \A i \in 1 .. Len(s) - 1 :
              RemoveAt(s, pos)[i] = IF i < pos THEN s[i] ELSE s[i + 1]
<1> DEFINE a == SubSeq(s, 1, pos - 1)
           b == SubSeq(s, pos + 1, Len(s))
<1>1. /\ a \in Seq(T) /\ Len(a) = pos - 1 /\ \A i \in 1 .. pos - 1 : a[i] = s[i]
      /\ b \in Seq(T) /\ Len(b) = Len(s) - pos
      /\ \A i \in 1 .. Len(s) - pos : b[i] = s[i + pos]
      /\ Len(s) \in Nat
  OBVIOUS
<1> HIDE DEF a, b
<1> DEFINE d == a \o b
<1>3. d \in Seq(T) /\ Len(d) = Len(s) - 1
  <2>1. a \in Seq(T) /\ b \in Seq(T)
    BY <1>1
  <2>2. d \in Seq(T) /\ Len(d) = Len(a) + Len(b)
    BY <2>1
  <2> QED
    BY <2>2, <1>1
<1>4. \A i \in 1 .. Len(s) - 1 : d[i] = IF i < pos THEN a[i] ELSE b[i - pos + 1]
  BY <1>1
<1> HIDE DEF d
<1>5. ASSUME NEW i \in 1 .. Len(s) - 1
      PROVE  d[i] = IF i < pos THEN s[i] ELSE s[i + 1]
  <2>1. CASE i < pos
    BY <2>1, <1>1, <1>4
  <2>2. CASE i >= pos
    <3>1. i - pos + 1 \in 1 .. Len(s) - pos /\ (i - pos + 1) + pos = i + 1
      BY <2>2, <1>1
    <3>2. b[i - pos + 1] = s[(i - pos + 1) + pos]
      BY <3>1, <1>1
    <3> QED
      BY <2>2, <3>1, <3>2, <1>1, <1>4
  <2> QED
    BY <2>1, <2>2, <1>1
<1>6. RemoveAt(s, pos) = d
  BY DEF RemoveAt, a, b, d
<1> QED
  BY <1>3, <1>5, <1>6

(* A slice sorted by an order given as a set of pairs.                     *)
SortedBy(s, L) == \A i, j \in DOMAIN s : i < j => <<s[i], s[j]>> \in L

(* A strict total order of T.                                              *)
StrictOrder(L, T) ==
  /\ \A x, y, z \in T : <<x, y>> \in L /\ <<y, z>> \in L => <<x, z>> \in L
  /\ \A x \in T : <<x, x>> \notin L
  /\ \A x, y \in T : <<x, y>> \in L \/ <<y, x>> \in L \/ x = y

(* The place of e: behind what is smaller, before what is larger.          *)
Place(pos, s, e, L) ==
  /\ pos \in 1 .. Len(s) + 1
  /\ \A i \in DOMAIN s : i < pos => <<s[i], e>> \in L
  /\ pos <= Len(s) => <<e, s[pos]>> \in L

(* The positions at which the search for e may stop.                       *)
Stops(Q, s, e, L) ==
  Q \subseteq DOMAIN s /\ \A i \in DOMAIN s : i \in Q <=> <<s[i], e>> \notin L

(* An entry put at its place leaves the slice sorted.                      *)
LEMMA InsertSorted ==
  ASSUME NEW T, NEW L, StrictOrder(L, T), NEW s \in Seq(T), SortedBy(s, L),
         NEW e \in T, NEW pos, Place(pos, s, e, L)
  PROVE  /\ SortedBy(InsertAt(s, pos, e), L)
         /\ Elements(InsertAt(s, pos, e)) = Elements(s) \cup {e}
<1>0. /\ pos \in 1 .. Len(s) + 1
      /\ \A i \in DOMAIN s : i < pos => <<s[i], e>> \in L
      /\ pos <= Len(s) => <<e, s[pos]>> \in L
      /\ \A x, y, z \in T : <<x, y>> \in L /\ <<y, z>> \in L => <<x, z>> \in L
  BY DEF Place, StrictOrder
<1> DEFINE n == InsertAt(s, pos, e)
<1>1. /\ n \in Seq(T) /\ Len(n) = Len(s) + 1
      /\ \A i \in 1 .. Len(s) + 1 :
           n[i] = IF i < pos THEN s[i] ELSE IF i = pos THEN e ELSE s[i - 1]
  BY <1>0, InsertAtMeans
<1>2. /\ Len(s) \in Nat /\ DOMAIN s = 1 .. Len(s) /\ \A i \in 1 .. Len(s) : s[i] \in T
  OBVIOUS
<1> HIDE DEF n
<1>3. DOMAIN n = 1 .. Len(s) + 1
  BY <1>1, <1>2
<1>4. ASSUME NEW j \in pos .. Len(s) PROVE <<e, s[j]>> \in L
  <2>1. CASE j = pos
    BY <2>1, <1>0, <1>2
  <2>2. CASE j > pos
    <3>1. pos \in DOMAIN s /\ j \in DOMAIN s /\ pos < j
      BY <2>2, <1>0, <1>2
    <3>2. <<s[pos], s[j]>> \in L /\ <<e, s[pos]>> \in L
      BY <3>1, <1>0, <1>2 DEF SortedBy
    <3> QED
      BY <3>1, <3>2, <1>0, <1>2
  <2> QED
    BY <2>1, <2>2, <1>0, <1>2
<1>5. ASSUME NEW i \in DOMAIN n, NEW j \in DOMAIN n, i < j
      PROVE  <<n[i], n[j]>> \in L
  <2>0. /\ i \in 1 .. Len(s) + 1 /\ j \in 1 .. Len(s) + 1
        /\ n[i] = IF i < pos THEN s[i] ELSE IF i = pos THEN e ELSE s[i - 1]
        /\ n[j] = IF j < pos THEN s[j] ELSE IF j = pos THEN e ELSE s[j - 1]
    BY <1>0, <1>1, <1>3
  <2>1. CASE j < pos
    <3>1. i \in DOMAIN s /\ j \in DOMAIN s /\ n[i] = s[i] /\ n[j] = s[j]
      BY <2>0, <2>1, <1>0, <1>2, <1>5
    <3> QED
      BY <3>1, <1>5 DEF SortedBy
  <2>2. CASE j = pos
    <3>1. i \in DOMAIN s /\ n[i] = s[i] /\ n[j] = e /\ i < pos
      BY <2>0, <2>2, <1>0, <1>2, <1>5
    <3> QED
      BY <3>1, <1>0
  <2>3. CASE j > pos /\ i < pos
    <3>1. i \in DOMAIN s /\ j - 1 \in DOMAIN s /\ i < j - 1 /\ n[i] = s[i] /\ n[j] = s[j - 1]
      BY <2>0, <2>3, <1>0, <1>2
    <3> QED
      BY <3>1 DEF SortedBy
  <2>4. CASE j > pos /\ i = pos
    <3>1. j - 1 \in pos .. Len(s) /\ n[i] = e /\ n[j] = s[j - 1]
      BY <2>0, <2>4, <1>0, <1>2
    <3> QED
      BY <3>1, <1>4
  <2>5. CASE j > pos /\ i > pos
    <3>1. /\ i - 1 \in DOMAIN s /\ j - 1 \in DOMAIN s /\ i - 1 < j - 1
          /\ n[i] = s[i - 1] /\ n[j] = s[j - 1]
      BY <2>0, <2>5, <1>0, <1>2, <1>5
    <3> QED
      BY <3>1 DEF SortedBy
  <2> QED
    BY <1>0, <2>0, <2>1, <2>2, <2>3, <2>4, <2>5
<1>6. ASSUME NEW i \in DOMAIN n PROVE n[i] \in Elements(s) \cup {e}
  <2>1. CASE i < pos
    <3>1. i \in DOMAIN s /\ n[i] = s[i]
      BY <2>1, <1>0, <1>1, <1>2, <1>3
    <3> QED
      BY <3>1 DEF Elements
  <2>2. CASE i = pos
    BY <2>2, <1>0, <1>1, <1>2, <1>3
  <2>3. CASE i > pos
    <3>1. i - 1 \in DOMAIN s /\ n[i] = s[i - 1]
      BY <2>3, <1>0, <1>1, <1>2, <1>3
    <3> QED
      BY <3>1 DEF Elements
  <2>4. i < pos \/ i = pos \/ i > pos
    BY <1>0, <1>2, <1>3
  <2> QED
    BY <2>1, <2>2, <2>3, <2>4
<1>7. ASSUME NEW x \in Elements(s) \cup {e} PROVE \E i \in DOMAIN n : n[i] = x
  <2>1. CASE x = e
    <3>1. pos \in DOMAIN n /\ n[pos] = e
      BY <1>0, <1>1, <1>2, <1>3
    <3> QED
      BY <3>1, <2>1
  <2>2. CASE x \in Elements(s)
    <3>1. PICK i \in DOMAIN s : s[i] = x
      BY <2>2 DEF Elements
    <3>2. i \in 1 .. Len(s) + 1 /\ i + 1 \in 1 .. Len(s) + 1 /\ (i + 1) - 1 = i
      BY <1>2
    <3>3. IF i < pos THEN n[i] = x ELSE n[i + 1] = x
      BY <3>1, <3>2, <1>0, <1>1
    <3> QED
      BY <3>2, <3>3, <1>3
  <2> QED
    BY <2>1, <2>2
<1>8. Elements(n) = Elements(s) \cup {e}
  BY <1>6, <1>7 DEF Elements
<1> QED
  BY <1>5, <1>8 DEF SortedBy, n

(* An entry taken out leaves the slice sorted.                             *)
LEMMA RemoveSorted ==
  ASSUME NEW T, NEW L, StrictOrder(L, T), NEW s \in Seq(T), SortedBy(s, L),
         NEW pos \in 1 .. Len(s)
  PROVE  /\ SortedBy(RemoveAt(s, pos), L)
         /\ Elements(RemoveAt(s, pos)) = Elements(s) \ {s[pos]}
<1> DEFINE n == RemoveAt(s, pos)
<1>1. /\ n \in Seq(T) /\ Len(n) = Len(s) - 1
      /\ \A i \in 1 .. Len(s) - 1 : n[i] = IF i < pos THEN s[i] ELSE s[i + 1]
  BY RemoveAtMeans
<1>2. /\ Len(s) \in Nat /\ DOMAIN s = 1 .. Len(s) /\ \A i \in 1 .. Len(s) : s[i] \in T
  OBVIOUS
<1> HIDE DEF n
<1>3. DOMAIN n = 1 .. Len(s) - 1
  BY <1>1, <1>2
<1>4. ASSUME NEW i \in DOMAIN s, NEW j \in DOMAIN s, i # j PROVE s[i] # s[j]
  <2>1. i < j \/ j < i
    BY <1>2, <1>4
  <2>2. <<s[i], s[j]>> \in L \/ <<s[j], s[i]>> \in L
    BY <2>1 DEF SortedBy
  <2> QED
    BY <2>2, <1>2 DEF StrictOrder
<1>5. ASSUME NEW i \in DOMAIN n, NEW j \in DOMAIN n, i < j
      PROVE  <<n[i], n[j]>> \in L
  <2> DEFINE a == IF i < pos THEN i ELSE i + 1
             b == IF j < pos THEN j ELSE j + 1
  <2>1. a \in DOMAIN s /\ b \in DOMAIN s /\ a < b /\ n[i] = s[a] /\ n[j] = s[b]
    BY <1>1, <1>2, <1>3, <1>5
  <2> HIDE DEF a, b
  <2> QED
    BY <2>1 DEF SortedBy
<1>6. ASSUME NEW i \in DOMAIN n PROVE n[i] \in Elements(s) \ {s[pos]}
  <2> DEFINE a == IF i < pos THEN i ELSE i + 1
  <2>1. a \in DOMAIN s /\ a # pos /\ n[i] = s[a] /\ pos \in DOMAIN s
    BY <1>1, <1>2, <1>3
  <2> HIDE DEF a
  <2> QED
    BY <2>1, <1>4 DEF Elements
<1>7. ASSUME NEW x \in Elements(s) \ {s[pos]} PROVE \E i \in DOMAIN n : n[i] = x
  <2>1. PICK j \in DOMAIN s : s[j] = x
    BY DEF Elements
  <2> DEFINE a == IF j < pos THEN j ELSE j - 1
  <2>2. a \in DOMAIN n /\ n[a] = s[j]
    BY <2>1, <1>1, <1>2, <1>3
  <2> HIDE DEF a
  <2> QED
    BY <2>1, <2>2
<1>8. Elements(n) = Elements(s) \ {s[pos]}
  BY <1>6, <1>7 DEF Elements
<1> QED
  BY <1>5, <1>8 DEF SortedBy, n

(* An entry that is there is where the search stops.                       *)
LEMMA FindSorted ==
  ASSUME NEW T, NEW L, StrictOrder(L, T), NEW s \in Seq(T), SortedBy(s, L),
         NEW e \in Elements(s), NEW Q, Stops(Q, s, e, L)
  PROVE  Search(s, Q) \in 1 .. Len(s) /\ s[Search(s, Q)] = e
<1>1. PICK k \in DOMAIN s : s[k] = e
  BY DEF Elements
<1>2. /\ Len(s) \in Nat /\ DOMAIN s = 1 .. Len(s) /\ \A i \in 1 .. Len(s) : s[i] \in T
  OBVIOUS
<1>3. k \in Q
  BY <1>1, <1>2 DEF Stops, StrictOrder
<1>4. \A i \in DOMAIN s : i < k => i \notin Q
  BY <1>1 DEF SortedBy, Stops
<1>5. Q \subseteq DOMAIN s
  BY DEF Stops
<1>6. /\ Search(s, Q) \in 1 .. Len(s) + 1
      /\ Search(s, Q) <= Len(s) => Search(s, Q) \in Q
      /\ \A i \in DOMAIN s : i < Search(s, Q) => i \notin Q
  BY <1>5, SearchMeans
<1>7. Search(s, Q) = k
  <2> DEFINE z == Search(s, Q)
  <2>0. z \in Nat /\ k \in Nat /\ k <= Len(s) /\ z >= 1
    BY <1>2, <1>6
  <2>1. ~(k < z)
    BY <1>3, <1>6
  <2>2. ASSUME z < k PROVE FALSE
    <3>1. z \in DOMAIN s /\ z <= Len(s)
      BY <2>0, <2>2, <1>2
    <3> QED
      BY <3>1, <2>2, <1>4, <1>6
  <2> HIDE DEF z
  <2>3. z = k
    BY <2>0, <2>1, <2>2
  <2> QED
    BY <2>3 DEF z
<1> QED
  BY <1>1, <1>2, <1>7

(* Appending to a list of ids below the new one.                           *)
LEMMA AppendSorted ==
  ASSUME NEW s \in Seq(Nat), NEW e \in Nat, \A x \in Elements(s) : x < e,
         \A i, j \in DOMAIN s : i < j => s[i] < s[j]
  PROVE  /\ Append(s, e) \in Seq(Nat)
         /\ \A i, j \in DOMAIN Append(s, e) : i < j => Append(s, e)[i] < Append(s, e)[j]
         /\ Elements(Append(s, e)) = Elements(s) \cup {e}
<1> DEFINE n == Append(s, e)
<1>1. /\ n \in Seq(Nat) /\ Len(s) \in Nat /\ DOMAIN s = 1 .. Len(s)
      /\ DOMAIN n = 1 .. Len(s) + 1 /\ n[Len(s) + 1] = e
      /\ \A i \in 1 .. Len(s) : n[i] = s[i]
      /\ \A i \in 1 .. Len(s) : s[i] \in Nat
  OBVIOUS
<1> HIDE DEF n
<1>2. ASSUME NEW i \in DOMAIN n, NEW j \in DOMAIN n, i < j
      PROVE  n[i] < n[j]
  <2>1. i \in DOMAIN s /\ n[i] = s[i] /\ s[i] \in Elements(s)
    BY <1>1, <1>2 DEF Elements
  <2>2. CASE j = Len(s) + 1
    BY <2>1, <2>2, <1>1
  <2>3. CASE j # Len(s) + 1
    <3>1. j \in DOMAIN s /\ n[j] = s[j]
      BY <2>3, <1>1
    <3> QED
      BY <3>1, <2>1, <1>2
  <2> QED
    BY <2>2, <2>3
<1>3. \A i \in DOMAIN n : n[i] \in Elements(s) \cup {e}
  BY <1>1 DEF Elements
<1>4. \A x \in Elements(s) \cup {e} : \E i \in DOMAIN n : n[i] = x
  BY <1>1 DEF Elements
<1>5. Elements(n) = Elements(s) \cup {e}
  BY <1>3, <1>4 DEF Elements
<1> QED
  BY <1>1, <1>2, <1>5 DEF n

-----------------------------------------------------------------------------
(***************************************************************************)
(* The two sorted indexes                                                  *)
(***************************************************************************)

DueRef == Nat \X Nat \X Nat
DueOrder == {p \in DueRef \X DueRef : DueLess(p[1], p[2])}

AccountRef == Nat \X Nat
AccountOrder == {p \in AccountRef \X AccountRef : AccountLess(p[1], p[2])}

(* The order of the settlement index is a strict order.                    *)
LEMMA DueOrderFacts ==
  /\ \A x, y \in DueRef : <<x, y>> \in DueOrder <=> DueLess(x, y)
  /\ StrictOrder(DueOrder, DueRef)
<1>1. \A x, y \in DueRef : <<x, y>> \in DueOrder <=> DueLess(x, y)
  BY DEF DueOrder
<1>2. \A x, y, z \in DueRef : DueLess(x, y) /\ DueLess(y, z) => DueLess(x, z)
  BY DEF DueLess, DueRef
<1>3. \A x \in DueRef : ~DueLess(x, x)
  BY DEF DueLess, DueRef
<1>4. \A x, y \in DueRef : DueLess(x, y) \/ DueLess(y, x) \/ x = y
  BY DEF DueLess, DueRef
<1> QED
  BY <1>1, <1>2, <1>3, <1>4 DEF StrictOrder

(* So is the order of the accounts.                                        *)
LEMMA AccountOrderFacts ==
  /\ \A x, y \in AccountRef : <<x, y>> \in AccountOrder <=> AccountLess(x, y)
  /\ StrictOrder(AccountOrder, AccountRef)
<1>1. \A x, y \in AccountRef : <<x, y>> \in AccountOrder <=> AccountLess(x, y)
  BY DEF AccountOrder
<1>2. \A x, y, z \in AccountRef : AccountLess(x, y) /\ AccountLess(y, z) => AccountLess(x, z)
  BY DEF AccountLess, AccountRef
<1>3. \A x \in AccountRef : ~AccountLess(x, x)
  BY DEF AccountLess, AccountRef
<1>4. \A x, y \in AccountRef : AccountLess(x, y) \/ AccountLess(y, x) \/ x = y
  BY DEF AccountLess, AccountRef
<1> QED
  BY <1>1, <1>2, <1>3, <1>4 DEF StrictOrder

(* The place the search finds for an entry that is not there yet.          *)
LEMMA PlaceFound ==
  ASSUME NEW T, NEW L, StrictOrder(L, T), NEW s \in Seq(T), NEW e \in T,
         e \notin Elements(s), NEW Q, Stops(Q, s, e, L)
  PROVE  Place(Search(s, Q), s, e, L)
<1>1. Q \subseteq DOMAIN s /\ \A i \in DOMAIN s : s[i] \in T /\ s[i] # e
  BY DEF Elements, Stops
<1>2. /\ Search(s, Q) \in 1 .. Len(s) + 1
      /\ Search(s, Q) <= Len(s) => Search(s, Q) \in Q
      /\ \A i \in DOMAIN s : i < Search(s, Q) => i \notin Q
  BY <1>1, SearchMeans
<1> DEFINE z == Search(s, Q)
<1>3. ASSUME z <= Len(s) PROVE <<e, s[z]>> \in L
  <2>1. z \in DOMAIN s /\ <<s[z], e>> \notin L
    BY <1>1, <1>2, <1>3 DEF Stops
  <2> HIDE DEF z
  <2> QED
    BY <2>1, <1>1 DEF StrictOrder
<1> QED
  BY <1>2, <1>3 DEF Place, Stops

(* A new entry is put where the search says.                               *)
LEMMA InsertInOrder ==
  ASSUME NEW T, NEW L, StrictOrder(L, T), NEW s \in Seq(T), SortedBy(s, L), NEW e \in T,
         e \notin Elements(s), NEW Q, Stops(Q, s, e, L)
  PROVE  /\ Search(s, Q) <= Len(s) => s[Search(s, Q)] # e
         /\ InsertAt(s, Search(s, Q), e) \in Seq(T)
         /\ SortedBy(InsertAt(s, Search(s, Q), e), L)
         /\ Elements(InsertAt(s, Search(s, Q), e)) = Elements(s) \cup {e}
         /\ Search(s, Q) = Len(s) + 1 => InsertAt(s, Search(s, Q), e) = Append(s, e)
<1> DEFINE pos == Search(s, Q)
<1>1. Place(pos, s, e, L)
  BY PlaceFound
<1> HIDE DEF pos
<1>2. pos \in 1 .. Len(s) + 1 /\ (pos <= Len(s) => s[pos] # e)
  BY <1>1 DEF Elements, Place
<1>3. /\ InsertAt(s, pos, e) \in Seq(T)
      /\ pos = Len(s) + 1 => InsertAt(s, pos, e) = Append(s, e)
  BY <1>2, InsertAtMeans
<1>4. /\ SortedBy(InsertAt(s, pos, e), L)
      /\ Elements(InsertAt(s, pos, e)) = Elements(s) \cup {e}
  BY <1>1, InsertSorted
<1> QED
  BY <1>2, <1>3, <1>4 DEF pos

(* The fields of an undo log.                                              *)
Log(r, p, i, g, l, d, a, n, w) ==
  [rows |-> r, puts |-> p, idem |-> i, groups |-> g, idsLen |-> l,
   due |-> d, accountIDs |-> a, nextID |-> n, writes |-> w]

IsLog(u) ==
  u = Log(u.rows, u.puts, u.idem, u.groups, u.idsLen, u.due, u.accountIDs, u.nextID, u.writes)

(* Reading a field of a log.                                               *)
LEMMA LogFields ==
  ASSUME NEW r, NEW p, NEW i, NEW g, NEW l, NEW d, NEW a, NEW n, NEW w
  PROVE  LET u == Log(r, p, i, g, l, d, a, n, w)
         IN  /\ IsLog(u)
             /\ u.rows = r /\ u.puts = p /\ u.idem = i /\ u.groups = g /\ u.idsLen = l
             /\ u.due = d /\ u.accountIDs = a /\ u.nextID = n /\ u.writes = w
BY DEF Log, IsLog

(* Writing to a log.                                                       *)
LEMMA LogExcept ==
  ASSUME NEW u, IsLog(u), NEW x
  PROVE  /\ [u EXCEPT !.rows = x] = Log(x, u.puts, u.idem, u.groups, u.idsLen, u.due,
                                        u.accountIDs, u.nextID, u.writes)
         /\ [u EXCEPT !.puts = x] = Log(u.rows, x, u.idem, u.groups, u.idsLen, u.due,
                                        u.accountIDs, u.nextID, u.writes)
         /\ [u EXCEPT !.due = x] = Log(u.rows, u.puts, u.idem, u.groups, u.idsLen, x,
                                       u.accountIDs, u.nextID, u.writes)
         /\ [u EXCEPT !.accountIDs = x] = Log(u.rows, u.puts, u.idem, u.groups, u.idsLen,
                                              u.due, x, u.nextID, u.writes)
<1> DEFINE r == u.rows
           p == u.puts
           i == u.idem
           g == u.groups
           l == u.idsLen
           d == u.due
           a == u.accountIDs
           n == u.nextID
           w == u.writes
<1>0. u = Log(r, p, i, g, l, d, a, n, w)
  BY DEF IsLog
<1> HIDE DEF r, p, i, g, l, d, a, n, w
<1>1. [u EXCEPT !.rows = x] = Log(x, p, i, g, l, d, a, n, w)
  BY <1>0 DEF Log
<1>2. [u EXCEPT !.puts = x] = Log(r, x, i, g, l, d, a, n, w)
  BY <1>0 DEF Log
<1>3. [u EXCEPT !.due = x] = Log(r, p, i, g, l, x, a, n, w)
  BY <1>0 DEF Log
<1>4. [u EXCEPT !.accountIDs = x] = Log(r, p, i, g, l, d, x, n, w)
  BY <1>0 DEF Log
<1> QED
  BY <1>1, <1>2, <1>3, <1>4 DEF r, p, i, g, l, d, a, n, w

(* What the append of a row notes in a log.                                *)
LEMMA LogNoted ==
  ASSUME NEW u, IsLog(u), NEW x, NEW y, NEW z
  PROVE  [u EXCEPT !.rows = x, !.idem = y, !.groups = z] =
           Log(x, u.puts, y, z, u.idsLen, u.due, u.accountIDs, u.nextID, u.writes)
<1> DEFINE r == u.rows
           p == u.puts
           i == u.idem
           g == u.groups
           l == u.idsLen
           d == u.due
           a == u.accountIDs
           n == u.nextID
           w == u.writes
<1>0. u = Log(r, p, i, g, l, d, a, n, w)
  BY DEF IsLog
<1> HIDE DEF r, p, i, g, l, d, a, n, w
<1>1. [u EXCEPT !.rows = x] = Log(x, p, i, g, l, d, a, n, w)
  BY <1>0 DEF Log
<1>2. [Log(x, p, i, g, l, d, a, n, w) EXCEPT !.idem = y] = Log(x, p, y, g, l, d, a, n, w)
  BY DEF Log
<1>3. [Log(x, p, y, g, l, d, a, n, w) EXCEPT !.groups = z] = Log(x, p, y, z, l, d, a, n, w)
  BY DEF Log
<1>4. [u EXCEPT !.rows = x, !.idem = y, !.groups = z] =
        [[[u EXCEPT !.rows = x] EXCEPT !.idem = y] EXCEPT !.groups = z]
  OBVIOUS
<1> QED
  BY <1>1, <1>2, <1>3, <1>4 DEF r, p, i, g, l, d, a, n, w

DueSorted(D) == D \in Seq(DueRef) /\ SortedBy(D, DueOrder)
AccountsSorted(A) == A \in Seq(AccountRef) /\ SortedBy(A, AccountOrder)

(* The log u with what the step did to the settlement index noted in it.   *)
DueLogged(u) ==
  /\ undo' = Log(u.rows, u.puts, u.idem, u.groups, u.idsLen, undo'.due,
                 u.accountIDs, u.nextID, u.writes)
  /\ DueSorted(pendingDue')
  /\ LogOK(undo'.due, pendingDue', DueRef)
  /\ RestoreOrdered(undo'.due, pendingDue') = RestoreOrdered(u.due, pendingDue)

(* insertDue, at the end or in the middle.                                 *)
LEMMA InsertDueEffect ==
  ASSUME DueSorted(pendingDue), NEW ref \in DueRef, ref \notin Elements(pendingDue),
         NEW u, IsLog(u), LogOK(u.due, pendingDue, DueRef), InsertDue(ref, u)
  PROVE  DueLogged(u) /\ Elements(pendingDue') = Elements(pendingDue) \cup {ref}
<1> DEFINE s == pendingDue
           Q == {i \in DOMAIN s : ~DueLess(s[i], ref)}
           pos == Search(s, Q)
           o == IF pos = Len(s) + 1 THEN NoteAppend(u.due, s) ELSE NoteStructural(u.due, s)
<1>1. s \in Seq(DueRef) /\ SortedBy(s, DueOrder)
  BY DEF DueSorted
<1>2. Stops(Q, s, ref, DueOrder)
  BY <1>1, DueOrderFacts DEF Stops
<1>3. pendingDue' = InsertAt(s, pos, ref) /\ undo' = [u EXCEPT !.due = o]
  BY DEF InsertDue
<1>a. StrictOrder(DueOrder, DueRef)
  BY DueOrderFacts
<1> HIDE DEF Q
<1>5. /\ pos <= Len(s) => s[pos] # ref
      /\ InsertAt(s, pos, ref) \in Seq(DueRef) /\ SortedBy(InsertAt(s, pos, ref), DueOrder)
      /\ Elements(InsertAt(s, pos, ref)) = Elements(s) \cup {ref}
      /\ pos = Len(s) + 1 => InsertAt(s, pos, ref) = Append(s, ref)
  BY <1>1, <1>2, <1>a, InsertInOrder
<1> HIDE DEF pos
<1>7. LogOK(o, pendingDue', DueRef) /\ RestoreOrdered(o, pendingDue') = RestoreOrdered(u.due, s)
  <2>1. CASE pos = Len(s) + 1
    <3>1. o = NoteAppend(u.due, s) /\ pendingDue' = Append(s, ref)
      BY <2>1, <1>3, <1>5
    <3> QED
      BY <3>1, <1>1, AppendKept
  <2>2. CASE pos # Len(s) + 1
    <3>1. o = NoteStructural(u.due, s) /\ pendingDue' \in Seq(DueRef)
      BY <2>2, <1>3, <1>5
    <3> QED
      BY <3>1, <1>1, StructuralKept
  <2> QED
    BY <2>1, <2>2
<1> HIDE DEF o
<1>8. undo' = Log(u.rows, u.puts, u.idem, u.groups, u.idsLen, o, u.accountIDs, u.nextID, u.writes)
  BY <1>3, LogExcept
<1>9. undo'.due = o
  BY <1>8, LogFields
<1> QED
  BY <1>3, <1>5, <1>7, <1>8, <1>9 DEF DueLogged, DueSorted

(* removeDue of an entry that is there.                                    *)
LEMMA RemoveDueEffect ==
  ASSUME DueSorted(pendingDue), NEW ref \in Elements(pendingDue), ref \in DueRef,
         NEW u, IsLog(u), LogOK(u.due, pendingDue, DueRef), RemoveDue(ref, u)
  PROVE  DueLogged(u) /\ Elements(pendingDue') = Elements(pendingDue) \ {ref}
<1> DEFINE s == pendingDue
           Q == {i \in DOMAIN s : ~DueLess(s[i], ref)}
           pos == Search(s, Q)
           o == NoteStructural(u.due, s)
<1>1. s \in Seq(DueRef) /\ SortedBy(s, DueOrder)
  BY DEF DueSorted
<1>2. Stops(Q, s, ref, DueOrder)
  BY <1>1, DueOrderFacts DEF Stops
<1>a. StrictOrder(DueOrder, DueRef)
  BY DueOrderFacts
<1>3. pos \in 1 .. Len(s) /\ s[pos] = ref
  <2> HIDE DEF Q
  <2> QED
    BY <1>1, <1>2, <1>a, FindSorted
<1>4. pendingDue' = RemoveAt(s, pos) /\ undo' = [u EXCEPT !.due = o]
  <2>1. pos <= Len(s) /\ s[pos] = ref
    BY <1>1, <1>3
  <2> QED
    BY <2>1 DEF RemoveDue
<1> HIDE DEF Q, pos
<1>5. /\ SortedBy(RemoveAt(s, pos), DueOrder)
      /\ Elements(RemoveAt(s, pos)) = Elements(s) \ {ref}
  BY <1>1, <1>3, <1>a, RemoveSorted
<1>6. RemoveAt(s, pos) \in Seq(DueRef)
  BY <1>1, <1>3, RemoveAtMeans
<1>7. LogOK(o, pendingDue', DueRef) /\ RestoreOrdered(o, pendingDue') = RestoreOrdered(u.due, s)
  BY <1>1, <1>4, <1>6, StructuralKept
<1> HIDE DEF o
<1>8. undo' = Log(u.rows, u.puts, u.idem, u.groups, u.idsLen, o, u.accountIDs, u.nextID, u.writes)
  BY <1>4, LogExcept
<1>9. undo'.due = o
  BY <1>8, LogFields
<1> QED
  BY <1>4, <1>5, <1>6, <1>7, <1>8, <1>9 DEF DueLogged, DueSorted

(* A write that has nothing to do with the settlement index.               *)
LEMMA DueUntouched ==
  ASSUME DueSorted(pendingDue), NEW u, IsLog(u), LogOK(u.due, pendingDue, DueRef),
         pendingDue' = pendingDue, undo' = u
  PROVE  DueLogged(u)
BY DEF DueLogged, IsLog

(* insertAccountID of a key that is not there.                             *)
LEMMA InsertAccountEffect ==
  ASSUME AccountsSorted(accountIDs), NEW key \in AccountRef, key \notin Elements(accountIDs),
         NEW u, IsLog(u), LogOK(u.accountIDs, accountIDs, AccountRef), InsertAccountID(key, u)
  PROVE  /\ undo' = Log(u.rows, u.puts, u.idem, u.groups, u.idsLen, u.due,
                        undo'.accountIDs, u.nextID, u.writes)
         /\ AccountsSorted(accountIDs')
         /\ LogOK(undo'.accountIDs, accountIDs', AccountRef)
         /\ RestoreOrdered(undo'.accountIDs, accountIDs') = RestoreOrdered(u.accountIDs, accountIDs)
         /\ Elements(accountIDs') = Elements(accountIDs) \cup {key}
<1> DEFINE s == accountIDs
           Q == {i \in DOMAIN s : ~AccountLess(s[i], key)}
           pos == Search(s, Q)
           o == IF pos = Len(s) + 1 THEN NoteAppend(u.accountIDs, s)
                ELSE NoteStructural(u.accountIDs, s)
<1>1. s \in Seq(AccountRef) /\ SortedBy(s, AccountOrder)
  BY DEF AccountsSorted
<1>2. Stops(Q, s, key, AccountOrder)
  BY <1>1, AccountOrderFacts DEF Stops
<1>a. StrictOrder(AccountOrder, AccountRef)
  BY AccountOrderFacts
<1> HIDE DEF Q
<1>5. /\ pos <= Len(s) => s[pos] # key
      /\ InsertAt(s, pos, key) \in Seq(AccountRef) /\ SortedBy(InsertAt(s, pos, key), AccountOrder)
      /\ Elements(InsertAt(s, pos, key)) = Elements(s) \cup {key}
      /\ pos = Len(s) + 1 => InsertAt(s, pos, key) = Append(s, key)
  BY <1>1, <1>2, <1>a, InsertInOrder
<1>3. accountIDs' = InsertAt(s, pos, key) /\ undo' = [u EXCEPT !.accountIDs = o]
  BY <1>5 DEF InsertAccountID, Q
<1> HIDE DEF pos
<1>7. /\ LogOK(o, accountIDs', AccountRef)
      /\ RestoreOrdered(o, accountIDs') = RestoreOrdered(u.accountIDs, s)
  <2>1. CASE pos = Len(s) + 1
    <3>1. o = NoteAppend(u.accountIDs, s) /\ accountIDs' = Append(s, key)
      BY <2>1, <1>3, <1>5
    <3> QED
      BY <3>1, <1>1, AppendKept
  <2>2. CASE pos # Len(s) + 1
    <3>1. o = NoteStructural(u.accountIDs, s) /\ accountIDs' \in Seq(AccountRef)
      BY <2>2, <1>3, <1>5
    <3> QED
      BY <3>1, <1>1, StructuralKept
  <2> QED
    BY <2>1, <2>2
<1> HIDE DEF o
<1>8. undo' = Log(u.rows, u.puts, u.idem, u.groups, u.idsLen, u.due, o, u.nextID, u.writes)
  BY <1>3, LogExcept
<1>9. undo'.accountIDs = o
  BY <1>8, LogFields
<1> QED
  BY <1>3, <1>5, <1>7, <1>8, <1>9 DEF AccountsSorted

-----------------------------------------------------------------------------
(***************************************************************************)
(* What the tables say, with the tables as parameters                      *)
(***************************************************************************)

RowsOK(R, n) == n \in 0 .. MaxId /\ R \in [1 .. n -> StoredRow]

KeysOK(R, I) ==
  /\ IsMap(I)
  /\ \A k : k \in DOMAIN I <=> \E id \in DOMAIN R : HasKey(R[id]) /\ KeyOf(R[id]) = k
  /\ \A id \in DOMAIN R : HasKey(R[id]) => I[KeyOf(R[id])] = id

(* The ids of S, ascending.                                                *)
IdList(s, S) ==
  /\ s \in Seq(Nat)
  /\ Elements(s) = S
  /\ \A i, j \in DOMAIN s : i < j => s[i] < s[j]

InTable(R, t) == {id \in DOMAIN R : R[id].table = t}

IdsOK(R, S) == IsMap(S) /\ DOMAIN S = IdTables /\ \A t \in IdTables : IdList(S[t], InTable(R, t))

InGroup(R, g) == {id \in DOMAIN R : g \in GroupsOf(R[id])}

GroupsOK(R, G) ==
  /\ IsMap(G)
  /\ \A g : g \in DOMAIN G <=> \E id \in DOMAIN R : g \in GroupsOf(R[id])
  /\ \A g \in DOMAIN G : IdList(G[g], InGroup(R, g))

Accounts(P) == {<<k.tenant, k.user>> : k \in {x \in DOMAIN P : x.table = "account"}}

PutsOK(P, A) ==
  IsMap(P) /\ DOMAIN P \subseteq PutKeys /\ AccountsSorted(A) /\ Elements(A) = Accounts(P)

IsDue(row) == row.table = "commission" /\ Tracked(row.state) /\ row.at # 0

DueRefs(R) ==
  {<<R[id].tenant, R[id].at, id>> : id \in {x \in DOMAIN R : IsDue(R[x])}}

DueOK(R, D) == DueSorted(D) /\ Elements(D) = DueRefs(R)

(* R2 is R with a new row under the next id.                               *)
Extends(R, id, row, R2) ==
  /\ id \in Nat /\ id \notin DOMAIN R
  /\ DOMAIN R2 = DOMAIN R \cup {id}
  /\ \A x \in DOMAIN R : x \in Nat /\ x < id /\ R2[x] = R[x]
  /\ R2[id] = row

(* R2 is R with rows about the same things.                                *)
SameSubjects(R, R2) ==
  /\ DOMAIN R2 = DOMAIN R
  /\ \A id \in DOMAIN R :
       /\ HasKey(R2[id]) = HasKey(R[id]) /\ KeyOf(R2[id]) = KeyOf(R[id])
       /\ GroupsOf(R2[id]) = GroupsOf(R[id]) /\ R2[id].table = R[id].table

(* A new row under the next id.                                            *)
LEMMA RowAppended ==
  ASSUME NEW R, NEW n, RowsOK(R, n), n + 1 <= MaxId, NEW row \in StoredRow
  PROVE  /\ RowsOK(With(R, n + 1, row), n + 1)
         /\ Extends(R, n + 1, row, With(R, n + 1, row))
<1>1. /\ n \in Nat /\ MaxId \in Nat /\ n + 1 \in 0 .. MaxId /\ DOMAIN R = 1 .. n
      /\ \A x \in 1 .. n : R[x] \in StoredRow
  BY MemoryAssumption DEF RowsOK
<1> DEFINE R2 == With(R, n + 1, row)
<1>2. /\ IsMap(R2) /\ DOMAIN R2 = DOMAIN R \cup {n + 1} /\ R2[n + 1] = row
      /\ \A x \in DOMAIN R \ {n + 1} : R2[x] = R[x]
  BY DEF With, IsMap
<1> HIDE DEF R2
<1>3. DOMAIN R2 = 1 .. n + 1
  BY <1>1, <1>2
<1>4. \A x \in 1 .. n + 1 : R2[x] \in StoredRow
  BY <1>1, <1>2
<1>5. RowsOK(R2, n + 1)
  BY <1>1, <1>2, <1>3, <1>4 DEF RowsOK, IsMap
<1>6. Extends(R, n + 1, row, R2)
  BY <1>1, <1>2 DEF Extends
<1> QED
  BY <1>5, <1>6 DEF R2

(* A new row and its key.                                                  *)
LEMMA KeysAppended ==
  ASSUME NEW R, NEW R2, NEW I, NEW id, NEW row, Extends(R, id, row, R2), KeysOK(R, I),
         HasKey(row) => KeyOf(row) \notin DOMAIN I
  PROVE  KeysOK(R2, IF HasKey(row) THEN With(I, KeyOf(row), id) ELSE I)
<1> DEFINE key == KeyOf(row)
           I2 == With(I, key, id)
<1>1. /\ IsMap(I2) /\ DOMAIN I2 = DOMAIN I \cup {key} /\ I2[key] = id
      /\ \A x \in DOMAIN I \ {key} : I2[x] = I[x]
  BY DEF With, IsMap
<1> HIDE DEF key, I2
<1>2. ASSUME HasKey(row) PROVE KeysOK(R2, I2)
  <2>0. key \notin DOMAIN I
    BY <1>2 DEF key
  <2>1. ASSUME NEW k
        PROVE  k \in DOMAIN I2 <=> \E x \in DOMAIN R2 : HasKey(R2[x]) /\ KeyOf(R2[x]) = k
    BY <1>1, <1>2 DEF KeysOK, Extends, key
  <2>2. ASSUME NEW x \in DOMAIN R2, HasKey(R2[x]) PROVE I2[KeyOf(R2[x])] = x
    <3>1. CASE x = id
      BY <3>1, <1>1 DEF Extends, key
    <3>2. CASE x \in DOMAIN R
      <4>1. R2[x] = R[x] /\ HasKey(R[x])
        BY <3>2, <2>2 DEF Extends
      <4>2. KeyOf(R[x]) \in DOMAIN I /\ I[KeyOf(R[x])] = x
        BY <3>2, <4>1 DEF KeysOK
      <4> QED
        BY <4>1, <4>2, <2>0, <1>1
    <3> QED
      BY <3>1, <3>2 DEF Extends
  <2> QED
    BY <1>1, <2>1, <2>2 DEF KeysOK
<1>3. ASSUME ~HasKey(row) PROVE KeysOK(R2, I)
  BY <1>3 DEF KeysOK, Extends
<1> QED
  BY <1>2, <1>3 DEF I2, key

(* A new row and the list of its table.                                    *)
LEMMA IdsAppended ==
  ASSUME NEW R, NEW R2, NEW S, NEW id, NEW row, Extends(R, id, row, R2), IdsOK(R, S)
  PROVE  IdsOK(R2, IF row.table \in IdTables
                   THEN [S EXCEPT ![row.table] = Append(@, id)] ELSE S)
<1> DEFINE t0 == row.table
           S2 == [S EXCEPT ![t0] = Append(S[t0], id)]
<1>1. ASSUME NEW t \in IdTables, t # t0
      PROVE  InTable(R2, t) = InTable(R, t)
  BY <1>1 DEF InTable, Extends
<1>2. ASSUME t0 \in IdTables PROVE IdsOK(R2, S2)
  <2>1. InTable(R2, t0) = InTable(R, t0) \cup {id}
    BY DEF InTable, Extends
  <2>2. IdList(S[t0], InTable(R, t0)) /\ id \in Nat /\ \A x \in InTable(R, t0) : x < id
    BY <1>2 DEF IdsOK, Extends, InTable
  <2>3. IdList(Append(S[t0], id), InTable(R2, t0))
    BY <2>1, <2>2, AppendSorted DEF IdList
  <2>4. IsMap(S2) /\ DOMAIN S2 = IdTables /\ S2[t0] = Append(S[t0], id)
    BY <1>2 DEF IdsOK, IsMap
  <2>5. \A t \in IdTables \ {t0} : S2[t] = S[t]
    BY <1>2 DEF IdsOK, IsMap
  <2> HIDE DEF S2, t0
  <2>6. ASSUME NEW t \in IdTables PROVE IdList(S2[t], InTable(R2, t))
    <3>1. CASE t = t0
      BY <3>1, <2>3, <2>4
    <3>2. CASE t # t0
      BY <3>2, <1>1, <2>5 DEF IdsOK
    <3> QED
      BY <3>1, <3>2
  <2> QED
    BY <2>4, <2>6 DEF IdsOK
<1>3. ASSUME t0 \notin IdTables PROVE IdsOK(R2, S)
  BY <1>1, <1>3 DEF IdsOK
<1> QED
  BY <1>2, <1>3

(* A new row and the groups it is in.                                      *)
LEMMA GroupsAppended ==
  ASSUME NEW R, NEW R2, NEW G, NEW id, NEW row, Extends(R, id, row, R2), GroupsOK(R, G)
  PROVE  GroupsOK(R2, Appended(G, GroupsOf(row), id))
<1> DEFINE S == GroupsOf(row)
           G2 == Appended(G, S, id)
<1>1. /\ DOMAIN G2 = DOMAIN G \cup S /\ IsMap(G2)
      /\ \A k \in DOMAIN G \ S : G2[k] = G[k]
      /\ \A k \in DOMAIN G \cap S : G2[k] = Append(G[k], id)
      /\ \A k \in S \ DOMAIN G : G2[k] = Append(<< >>, id)
  BY DEF Appended, IsMap
<1>0. S = GroupsOf(row)
  OBVIOUS
<1> HIDE DEF S, G2
<1>2. ASSUME NEW g
      PROVE  g \in DOMAIN G2 <=> \E x \in DOMAIN R2 : g \in GroupsOf(R2[x])
  BY <1>0, <1>1 DEF GroupsOK, Extends
<1>3. ASSUME NEW g \in DOMAIN G2 PROVE IdList(G2[g], InGroup(R2, g))
  <2>1. CASE g \in DOMAIN G \ S
    <3>1. InGroup(R2, g) = InGroup(R, g)
      BY <2>1, <1>0 DEF InGroup, Extends
    <3> QED
      BY <2>1, <3>1, <1>1 DEF GroupsOK
  <2>2. CASE g \in DOMAIN G \cap S
    <3>1. InGroup(R2, g) = InGroup(R, g) \cup {id}
      BY <2>2, <1>0 DEF InGroup, Extends
    <3>2. IdList(G[g], InGroup(R, g)) /\ id \in Nat /\ \A x \in InGroup(R, g) : x < id
      BY <2>2 DEF GroupsOK, Extends, InGroup
    <3>3. IdList(Append(G[g], id), InGroup(R2, g))
      BY <3>1, <3>2, AppendSorted DEF IdList
    <3> QED
      BY <2>2, <3>3, <1>1
  <2>3. CASE g \in S \ DOMAIN G
    <3>1. InGroup(R, g) = {} /\ InGroup(R2, g) = {id}
      BY <2>3, <1>0 DEF InGroup, Extends, GroupsOK
    <3> DEFINE nil == << >>
    <3>a. nil \in Seq(Nat) /\ DOMAIN nil = {}
      OBVIOUS
    <3>b. Elements(nil) = {}
      BY <3>a DEF Elements
    <3>c. G2[g] = Append(nil, id) /\ id \in Nat
      BY <2>3, <1>1 DEF Extends
    <3> HIDE DEF nil
    <3>2. IdList(nil, {})
      BY <3>a, <3>b DEF IdList
    <3>3. IdList(Append(nil, id), {id})
      BY <3>2, <3>c, <3>b, AppendSorted DEF IdList
    <3> QED
      BY <3>1, <3>3, <3>c
  <2> QED
    BY <2>1, <2>2, <2>3, <1>1
<1>4. GroupsOK(R2, G2)
  BY <1>1, <1>2, <1>3 DEF GroupsOK
<1> QED
  BY <1>4 DEF G2, S

(* Rows about the same things have the same keys, lists and groups.        *)
LEMMA SubjectsKept ==
  ASSUME NEW R, NEW R2, NEW I, NEW S, NEW G, SameSubjects(R, R2),
         KeysOK(R, I), IdsOK(R, S), GroupsOK(R, G)
  PROVE  KeysOK(R2, I) /\ IdsOK(R2, S) /\ GroupsOK(R2, G)
<1>1. KeysOK(R2, I)
  BY DEF KeysOK, SameSubjects
<1>2. \A t : InTable(R2, t) = InTable(R, t)
  BY DEF InTable, SameSubjects
<1>3. \A g : InGroup(R2, g) = InGroup(R, g)
  BY DEF InGroup, SameSubjects
<1>4. IdsOK(R2, S)
  BY <1>2 DEF IdsOK
<1>5. GroupsOK(R2, G)
  BY <1>3 DEF GroupsOK, SameSubjects
<1> QED
  BY <1>1, <1>4, <1>5

(* A new row and the settlement index.                                     *)
LEMMA DueAppended ==
  ASSUME NEW R, NEW R2, NEW id, NEW row, Extends(R, id, row, R2)
  PROVE  /\ IsDue(row) => DueRefs(R2) = DueRefs(R) \cup {<<row.tenant, row.at, id>>}
         /\ ~IsDue(row) => DueRefs(R2) = DueRefs(R)
         /\ <<row.tenant, row.at, id>> \notin DueRefs(R)
BY DEF DueRefs, Extends

(* A rewritten row and the settlement index.                               *)
LEMMA DueRewritten ==
  ASSUME NEW R, NEW id \in DOMAIN R, NEW new
  PROVE  LET R2 == With(R, id, new)
             old == <<R[id].tenant, R[id].at, id>>
             ref == <<new.tenant, new.at, id>>
         IN  /\ IsDue(R[id]) /\ IsDue(new) /\ old = ref => DueRefs(R2) = DueRefs(R)
             /\ ~IsDue(R[id]) /\ ~IsDue(new) => DueRefs(R2) = DueRefs(R)
             /\ ~IsDue(R[id]) /\ IsDue(new) => DueRefs(R2) = DueRefs(R) \cup {ref}
             /\ IsDue(R[id]) /\ ~IsDue(new) => DueRefs(R2) = DueRefs(R) \ {old}
             /\ ~IsDue(R[id]) => ref \notin DueRefs(R)
             /\ IsDue(R[id]) => old \in DueRefs(R)
<1> DEFINE R2 == With(R, id, new)
           old == <<R[id].tenant, R[id].at, id>>
           ref == <<new.tenant, new.at, id>>
           Ref(T, x) == <<T[x].tenant, T[x].at, x>>
<1>1. /\ DOMAIN R2 = DOMAIN R /\ R2[id] = new
      /\ \A x \in DOMAIN R \ {id} : R2[x] = R[x]
  BY DEF With
<1> HIDE DEF R2
<1>2. /\ \A y : y \in DueRefs(R) <=> \E x \in DOMAIN R : IsDue(R[x]) /\ y = Ref(R, x)
      /\ \A y : y \in DueRefs(R2) <=> \E x \in DOMAIN R : IsDue(R2[x]) /\ y = Ref(R2, x)
  BY <1>1 DEF DueRefs
<1>a. /\ \A x \in DOMAIN R \ {id} : Ref(R2, x) = Ref(R, x) /\ Ref(R, x) # old /\ Ref(R, x) # ref
      /\ Ref(R2, id) = ref /\ Ref(R, id) = old
  BY <1>1
<1> HIDE DEF Ref, old, ref
<1>4. ASSUME IsDue(R[id]), IsDue(new), old = ref PROVE DueRefs(R2) = DueRefs(R)
  <2>1. \A y : y \in DueRefs(R2) <=> y \in DueRefs(R)
    BY <1>1, <1>2, <1>4, <1>a
  <2> QED
    BY <2>1
<1>5. ASSUME ~IsDue(R[id]), ~IsDue(new) PROVE DueRefs(R2) = DueRefs(R)
  <2>1. \A y : y \in DueRefs(R2) <=> y \in DueRefs(R)
    BY <1>1, <1>2, <1>5, <1>a
  <2> QED
    BY <2>1
<1>6. ASSUME ~IsDue(R[id]), IsDue(new) PROVE DueRefs(R2) = DueRefs(R) \cup {ref}
  <2>1. \A y : y \in DueRefs(R2) <=> y \in DueRefs(R) \/ y = ref
    BY <1>1, <1>2, <1>6, <1>a
  <2> QED
    BY <2>1
<1>7. ASSUME IsDue(R[id]), ~IsDue(new) PROVE DueRefs(R2) = DueRefs(R) \ {old}
  <2>1. \A y : y \in DueRefs(R2) <=> y \in DueRefs(R) /\ y # old
    BY <1>1, <1>2, <1>7, <1>a
  <2> QED
    BY <2>1
<1>8. ASSUME ~IsDue(R[id]) PROVE ref \notin DueRefs(R)
  BY <1>2, <1>8, <1>a
<1>9. ASSUME IsDue(R[id]) PROVE old \in DueRefs(R)
  BY <1>2, <1>9, <1>a
<1> QED
  BY <1>4, <1>5, <1>6, <1>7, <1>8, <1>9 DEF R2, old, ref

-----------------------------------------------------------------------------
(***************************************************************************)
(* The inductive invariant                                                 *)
(***************************************************************************)

TablesOK(R, n, I, S, G, P, A, D) ==
  /\ RowsOK(R, n) /\ KeysOK(R, I) /\ IdsOK(R, S) /\ GroupsOK(R, G)
  /\ PutsOK(P, A) /\ DueOK(R, D)

LiveOK == TablesOK(rows, nextID, idem, ids, groups, puts, accountIDs, pendingDue)

(* What a rollback would put back.                                         *)
BackRows == RestoreMap(undo.rows, rows)
BackPuts == RestoreMap(undo.puts, puts)
BackIdem == RestoreMap(undo.idem, idem)
BackIds == [t \in IdTables |-> SubSeq(ids[t], 1, undo.idsLen[t])]
BackGroups == RestoreIndex(undo.groups, groups)
BackAccounts == RestoreOrdered(undo.accountIDs, accountIDs)
BackDue == RestoreOrdered(undo.due, pendingDue)

BackOK ==
  TablesOK(BackRows, undo.nextID, BackIdem, BackIds, BackGroups, BackPuts, BackAccounts, BackDue)

(* The undo log fits the tables.                                           *)
UndoOK ==
  /\ IsLog(undo)
  /\ LogOK(undo.due, pendingDue, DueRef)
  /\ LogOK(undo.accountIDs, accountIDs, AccountRef)
  /\ LengthsOK(undo.groups, groups)
  /\ \A t \in IdTables : undo.idsLen[t] \in 0 .. Len(ids[t])
  /\ undo.writes \in 0 .. MaxWrites

(* The tables agree, and so would the tables a rollback leaves.            *)
MemInv ==
  /\ phase \in {"free", "open", "closed"}
  /\ phase # "open" => undo = NoUndo
  /\ writes \in 0 .. MaxWrites
  /\ LiveOK /\ UndoOK
  /\ phase = "open" => BackOK

(* A step after which a rollback would leave the same.                     *)
BackKept ==
  /\ BackRows' = BackRows /\ BackPuts' = BackPuts /\ BackIdem' = BackIdem
  /\ BackIds' = BackIds /\ BackGroups' = BackGroups
  /\ BackAccounts' = BackAccounts /\ BackDue' = BackDue
  /\ undo'.nextID = undo.nextID /\ undo'.writes = undo.writes

-----------------------------------------------------------------------------
(***************************************************************************)
(* Writes                                                                  *)
(***************************************************************************)

(* The fields of a row.                                                    *)
LEMMA RowTyped ==
  ASSUME NEW row \in StoredRow
  PROVE  /\ row.table \in Tables /\ row.tenant \in Nat /\ row.order \in Nat
         /\ row.user \in Nat /\ row.at \in Nat /\ row.at \in Times \cup {0}
<1>1. \A x \in Times \cup {0} : x \in Nat
  BY MemoryAssumption
<1>2. /\ row.table \in Tables /\ row.tenant \in Nat /\ row.order \in Nat
      /\ row.user \in Nat /\ row.at \in Times \cup {0}
  BY DEF StoredRow
<1> QED
  BY <1>1, <1>2

(* The id lists after an append.                                           *)
LEMMA BackIdsKept ==
  ASSUME NEW S, NEW S2, NEW id \in Nat, NEW t0, NEW len,
         IsMap(S), DOMAIN S = IdTables, \A t \in IdTables : S[t] \in Seq(Nat),
         S2 = IF t0 \in IdTables THEN [S EXCEPT ![t0] = Append(S[t0], id)] ELSE S,
         \A t \in IdTables : len[t] \in 0 .. Len(S[t])
  PROVE  \A t \in IdTables : /\ len[t] \in 0 .. Len(S2[t])
                             /\ SubSeq(S2[t], 1, len[t]) = SubSeq(S[t], 1, len[t])
<1> SUFFICES ASSUME NEW t \in IdTables
             PROVE  /\ len[t] \in 0 .. Len(S2[t])
                    /\ SubSeq(S2[t], 1, len[t]) = SubSeq(S[t], 1, len[t])
  OBVIOUS
<1>1. S[t] \in Seq(Nat) /\ len[t] \in 0 .. Len(S[t])
  OBVIOUS
<1>2. CASE t = t0
  <2>1. S2[t] = Append(S[t], id)
    BY <1>2 DEF IsMap
  <2>2. SubSeq(Append(S[t], id), 1, len[t]) = SubSeq(S[t], 1, len[t])
    BY <1>1, PrefixKept
  <2>3. Len(Append(S[t], id)) = Len(S[t]) + 1 /\ Len(S[t]) \in Nat
    BY <1>1
  <2> QED
    BY <1>1, <2>1, <2>2, <2>3
<1>3. CASE t # t0
  <2>1. S2[t] = S[t]
    BY <1>3 DEF IsMap
  <2> QED
    BY <1>1, <2>1
<1> QED
  BY <1>2, <1>3

(* AppendCommission, AppendRefund, AppendWithdrawal, AppendLedger.         *)
LEMMA AppendStep ==
  ASSUME LiveOK, UndoOK, NEW row \in NewRows, AppendRow(row)
  PROVE  /\ LiveOK' /\ UndoOK' /\ BackKept
         /\ Extends(rows, nextID + 1, row, rows')
         /\ HasKey(row) => KeyOf(row) \notin DOMAIN idem
<1> DEFINE id == nextID + 1
           key == KeyOf(row)
           nr == Note(undo.rows, rows, id, NoRow)
           ni == IF HasKey(row) THEN Note(undo.idem, idem, key, 0) ELSE undo.idem
           ng == NoteIndexes(undo.groups, groups, GroupsOf(row))
           u == [undo EXCEPT !.rows = nr, !.idem = ni, !.groups = ng]
           ref == <<row.tenant, row.at, id>>
<1>0. /\ RowsOK(rows, nextID) /\ KeysOK(rows, idem) /\ IdsOK(rows, ids)
      /\ GroupsOK(rows, groups) /\ PutsOK(puts, accountIDs) /\ DueOK(rows, pendingDue)
  BY DEF LiveOK, TablesOK
<1>1. /\ id <= MaxId
      /\ HasKey(row) => key \notin DOMAIN idem
      /\ nextID' = id
      /\ rows' = With(rows, id, row)
      /\ idem' = IF HasKey(row) THEN With(idem, key, id) ELSE idem
      /\ ids' = IF row.table \in IdTables
                THEN [ids EXCEPT ![row.table] = Append(ids[row.table], id)] ELSE ids
      /\ groups' = Appended(groups, GroupsOf(row), id)
      /\ puts' = puts /\ accountIDs' = accountIDs
  BY DEF AppendRow, Appended
<1>2. IF IsDue(row) THEN InsertDue(ref, u) ELSE pendingDue' = pendingDue /\ undo' = u
  BY DEF AppendRow, IsDue
<1>3. /\ row \in StoredRow /\ row.tenant \in Nat /\ row.at \in Nat
      /\ nextID \in Nat /\ id \in Nat
  <2>1. row \in StoredRow
    BY MemoryAssumption
  <2>2. nextID \in Nat /\ id \in Nat
    BY <1>0 DEF RowsOK
  <2> QED
    BY <2>1, <2>2, RowTyped
<1>4. RowsOK(rows', nextID') /\ Extends(rows, id, row, rows')
  BY <1>0, <1>1, <1>3, RowAppended
<1>5. /\ KeysOK(rows', idem') /\ IdsOK(rows', ids') /\ GroupsOK(rows', groups')
  <2>1. KeysOK(rows', idem')
    BY <1>0, <1>1, <1>4, KeysAppended
  <2>2. IdsOK(rows', ids')
    BY <1>0, <1>1, <1>4, IdsAppended
  <2>3. GroupsOK(rows', groups')
    BY <1>0, <1>1, <1>4, GroupsAppended
  <2> QED
    BY <2>1, <2>2, <2>3
<1>6. PutsOK(puts', accountIDs')
  BY <1>0, <1>1
<1>7. /\ u = Log(nr, undo.puts, ni, ng, undo.idsLen, undo.due,
                 undo.accountIDs, undo.nextID, undo.writes)
      /\ IsLog(undo)
  <2>1. IsLog(undo)
    BY DEF UndoOK
  <2> HIDE DEF nr, ni, ng
  <2> QED
    BY <2>1, LogNoted
<1> HIDE DEF u
<1>8. /\ IsLog(u) /\ u.rows = nr /\ u.puts = undo.puts /\ u.idem = ni /\ u.groups = ng
      /\ u.idsLen = undo.idsLen /\ u.due = undo.due /\ u.accountIDs = undo.accountIDs
      /\ u.nextID = undo.nextID /\ u.writes = undo.writes
  <2> HIDE DEF nr, ni, ng
  <2> QED
    BY <1>7, LogFields
<1>9. DueSorted(pendingDue) /\ LogOK(u.due, pendingDue, DueRef)
  BY <1>0, <1>8 DEF DueOK, UndoOK
<1>10. DueLogged(u) /\ DueOK(rows', pendingDue')
  <2>0. ref \in DueRef /\ Elements(pendingDue) = DueRefs(rows)
    BY <1>0, <1>3 DEF DueRef, DueOK
  <2>a. /\ IsDue(row) => DueRefs(rows') = DueRefs(rows) \cup {ref}
        /\ ~IsDue(row) => DueRefs(rows') = DueRefs(rows)
        /\ ref \notin DueRefs(rows)
    BY <1>4, DueAppended
  <2> HIDE DEF ref
  <2>1. CASE IsDue(row)
    <3>1. DueLogged(u) /\ Elements(pendingDue') = Elements(pendingDue) \cup {ref}
      BY <2>0, <2>1, <2>a, <1>2, <1>8, <1>9, InsertDueEffect
    <3> QED
      BY <3>1, <2>0, <2>1, <2>a DEF DueOK, DueLogged
  <2>2. CASE ~IsDue(row)
    <3>1. DueLogged(u) /\ pendingDue' = pendingDue
      BY <2>2, <1>2, <1>8, <1>9, DueUntouched
    <3> QED
      BY <3>1, <2>0, <2>2, <2>a DEF DueOK, DueLogged
  <2> QED
    BY <2>1, <2>2
<1>11. /\ undo' = Log(nr, undo.puts, ni, ng, undo.idsLen, undo'.due, undo.accountIDs,
                      undo.nextID, undo.writes)
       /\ LogOK(undo'.due, pendingDue', DueRef)
       /\ BackDue' = BackDue
  BY <1>8, <1>10 DEF DueLogged, BackDue
<1>12. /\ IsLog(undo') /\ undo'.rows = nr /\ undo'.puts = undo.puts /\ undo'.idem = ni
       /\ undo'.groups = ng /\ undo'.idsLen = undo.idsLen
       /\ undo'.accountIDs = undo.accountIDs
       /\ undo'.nextID = undo.nextID /\ undo'.writes = undo.writes
  <2> HIDE DEF nr, ni, ng
  <2> DEFINE d == undo'.due
  <2>1. undo' = Log(nr, undo.puts, ni, ng, undo.idsLen, d, undo.accountIDs,
                    undo.nextID, undo.writes)
    BY <1>11
  <2> HIDE DEF d
  <2> QED
    BY <2>1, LogFields
<1>13. BackRows' = BackRows
  BY <1>1, <1>12, MapKept DEF BackRows
<1>14. BackIdem' = BackIdem
  <2>1. CASE HasKey(row)
    BY <2>1, <1>1, <1>12, MapKept DEF BackIdem
  <2>2. CASE ~HasKey(row)
    BY <2>2, <1>1, <1>12 DEF BackIdem
  <2> QED
    BY <2>1, <2>2
<1>15. LengthsOK(undo'.groups, groups') /\ BackGroups' = BackGroups
  <2>1. IsIndex(groups) /\ LengthsOK(undo.groups, groups)
    BY <1>0 DEF GroupsOK, IdList, IsIndex, UndoOK
  <2> QED
    BY <2>1, <1>1, <1>3, <1>12, IndexKept DEF BackGroups
<1>16. /\ \A t \in IdTables : undo'.idsLen[t] \in 0 .. Len(ids'[t])
       /\ BackIds' = BackIds
  <2>1. /\ IsMap(ids) /\ DOMAIN ids = IdTables /\ \A t \in IdTables : ids[t] \in Seq(Nat)
        /\ \A t \in IdTables : undo.idsLen[t] \in 0 .. Len(ids[t])
    BY <1>0 DEF IdsOK, IdList, UndoOK
  <2>2. \A t \in IdTables : /\ undo.idsLen[t] \in 0 .. Len(ids'[t])
                            /\ SubSeq(ids'[t], 1, undo.idsLen[t]) = SubSeq(ids[t], 1, undo.idsLen[t])
    <3> DEFINE len == undo.idsLen
               t0 == row.table
    <3>1. /\ \A t \in IdTables : len[t] \in 0 .. Len(ids[t])
          /\ ids' = IF t0 \in IdTables THEN [ids EXCEPT ![t0] = Append(ids[t0], id)] ELSE ids
      BY <1>1, <2>1
    <3> HIDE DEF len, t0, id
    <3>2. \A t \in IdTables : /\ len[t] \in 0 .. Len(ids'[t])
                              /\ SubSeq(ids'[t], 1, len[t]) = SubSeq(ids[t], 1, len[t])
      BY <2>1, <3>1, <1>3, BackIdsKept
    <3> QED
      BY <3>2 DEF len
  <2> QED
    BY <2>2, <1>12 DEF BackIds
<1>17. BackPuts' = BackPuts /\ BackAccounts' = BackAccounts
  BY <1>1, <1>12 DEF BackPuts, BackAccounts
<1>18. LiveOK'
  BY <1>4, <1>5, <1>6, <1>10 DEF LiveOK, TablesOK
<1>19. UndoOK'
  BY <1>1, <1>11, <1>12, <1>15, <1>16 DEF UndoOK
<1>20. BackKept
  BY <1>11, <1>12, <1>13, <1>14, <1>15, <1>16, <1>17 DEF BackKept
<1> QED
  BY <1>1, <1>4, <1>18, <1>19, <1>20

(* What a rewrite of a row may do to it.                                   *)
Advances(old, new) ==
  /\ new.table = old.table /\ new.tenant = old.tenant
  /\ new.order = old.order /\ new.user = old.user
  /\ old.at # 0 => new.at = old.at
  /\ Tracked(new.state) => Tracked(old.state)

(* The log with the old value of a row noted.                              *)
RowLog(id) == [undo EXCEPT !.rows = Note(undo.rows, rows, id, NoRow)]

(* A row is rewritten and the settlement index follows.                    *)
Rewrites(id, new) ==
  /\ new \in StoredRow /\ Advances(rows[id], new)
  /\ rows' = With(rows, id, new)
  /\ DueLogged(RowLog(id)) /\ Elements(pendingDue') = DueRefs(rows')
  /\ UNCHANGED <<puts, idem, ids, groups, accountIDs, nextID>>

(* The log of a rewrite.                                                   *)
LEMMA RowLogFields ==
  ASSUME UndoOK, NEW id
  PROVE  LET u == RowLog(id)
         IN  /\ IsLog(u) /\ u.rows = Note(undo.rows, rows, id, NoRow) /\ u.puts = undo.puts
             /\ u.idem = undo.idem /\ u.groups = undo.groups /\ u.idsLen = undo.idsLen
             /\ u.due = undo.due /\ u.accountIDs = undo.accountIDs
             /\ u.nextID = undo.nextID /\ u.writes = undo.writes
<1> DEFINE nr == Note(undo.rows, rows, id, NoRow)
<1>1. RowLog(id) = [undo EXCEPT !.rows = nr] /\ IsLog(undo)
  BY DEF RowLog, UndoOK
<1> HIDE DEF nr
<1>2. RowLog(id) = Log(nr, undo.puts, undo.idem, undo.groups, undo.idsLen, undo.due,
                       undo.accountIDs, undo.nextID, undo.writes)
  BY <1>1, LogExcept
<1>3. LET u == RowLog(id)
      IN  /\ IsLog(u) /\ u.rows = nr /\ u.puts = undo.puts
          /\ u.idem = undo.idem /\ u.groups = undo.groups /\ u.idsLen = undo.idsLen
          /\ u.due = undo.due /\ u.accountIDs = undo.accountIDs
          /\ u.nextID = undo.nextID /\ u.writes = undo.writes
  BY <1>2, LogFields
<1> QED
  BY <1>3 DEF nr

(* Rewrites keep the tables in agreement and the snapshot what it is.      *)
LEMMA RewriteStep ==
  ASSUME LiveOK, UndoOK, NEW id \in DOMAIN rows, NEW new, Rewrites(id, new)
  PROVE  LiveOK' /\ UndoOK' /\ BackKept
<1>0. /\ RowsOK(rows, nextID) /\ KeysOK(rows, idem) /\ IdsOK(rows, ids)
      /\ GroupsOK(rows, groups) /\ PutsOK(puts, accountIDs) /\ DueOK(rows, pendingDue)
  BY DEF LiveOK, TablesOK
<1>1. /\ puts' = puts /\ idem' = idem /\ ids' = ids /\ groups' = groups
      /\ accountIDs' = accountIDs /\ nextID' = nextID
      /\ rows' = With(rows, id, new) /\ new \in StoredRow /\ Advances(rows[id], new)
  BY DEF Rewrites
<1>2. /\ DOMAIN rows' = DOMAIN rows /\ rows'[id] = new /\ IsMap(rows')
      /\ \A x \in DOMAIN rows \ {id} : rows'[x] = rows[x]
  BY <1>1 DEF With, IsMap
<1>3. SameSubjects(rows, rows')
  BY <1>1, <1>2 DEF SameSubjects, Advances, HasKey, KeyOf, GroupsOf
<1>4. RowsOK(rows', nextID')
  <2>1. DOMAIN rows = 1 .. nextID /\ nextID \in 0 .. MaxId /\ \A x \in 1 .. nextID : rows[x] \in StoredRow
    BY <1>0 DEF RowsOK
  <2>2. \A x \in 1 .. nextID : rows'[x] \in StoredRow
    BY <2>1, <1>1, <1>2
  <2> QED
    BY <2>1, <2>2, <1>1, <1>2 DEF RowsOK, IsMap
<1>5. KeysOK(rows', idem') /\ IdsOK(rows', ids') /\ GroupsOK(rows', groups')
  BY <1>0, <1>1, <1>3, SubjectsKept
<1>6. DueOK(rows', pendingDue')
  BY DEF Rewrites, DueLogged, DueOK
<1>7. LiveOK'
  BY <1>0, <1>1, <1>4, <1>5, <1>6 DEF LiveOK, TablesOK
<1> DEFINE nr == Note(undo.rows, rows, id, NoRow)
<1>8. /\ undo' = Log(nr, undo.puts, undo.idem, undo.groups, undo.idsLen, undo'.due,
                     undo.accountIDs, undo.nextID, undo.writes)
      /\ LogOK(undo'.due, pendingDue', DueRef)
      /\ BackDue' = BackDue
  BY RowLogFields DEF Rewrites, DueLogged, BackDue
<1>9. /\ IsLog(undo') /\ undo'.rows = nr /\ undo'.puts = undo.puts /\ undo'.idem = undo.idem
      /\ undo'.groups = undo.groups /\ undo'.idsLen = undo.idsLen
      /\ undo'.accountIDs = undo.accountIDs
      /\ undo'.nextID = undo.nextID /\ undo'.writes = undo.writes
  <2> HIDE DEF nr
  <2> DEFINE d == undo'.due
  <2>1. undo' = Log(nr, undo.puts, undo.idem, undo.groups, undo.idsLen, d,
                    undo.accountIDs, undo.nextID, undo.writes)
    BY <1>8
  <2> HIDE DEF d
  <2> QED
    BY <2>1, LogFields
<1>10. BackRows' = BackRows
  BY <1>1, <1>9, MapKept DEF BackRows
<1>11. /\ BackPuts' = BackPuts /\ BackIdem' = BackIdem /\ BackIds' = BackIds
       /\ BackGroups' = BackGroups /\ BackAccounts' = BackAccounts
  BY <1>1, <1>9 DEF BackPuts, BackIdem, BackIds, BackGroups, BackAccounts
<1>12. UndoOK'
  BY <1>1, <1>8, <1>9 DEF UndoOK
<1> QED
  BY <1>7, <1>8, <1>9, <1>10, <1>11, <1>12 DEF BackKept

(* Facts about a stored row and its place in the settlement index.         *)
LEMMA StoredRowFacts ==
  ASSUME LiveOK, UndoOK, NEW id \in DOMAIN rows
  PROVE  /\ rows[id] \in StoredRow /\ id \in Nat /\ IsMap(rows)
         /\ DueSorted(pendingDue) /\ Elements(pendingDue) = DueRefs(rows)
         /\ IsLog(RowLog(id)) /\ LogOK(RowLog(id).due, pendingDue, DueRef)
<1>1. RowsOK(rows, nextID) /\ DueOK(rows, pendingDue)
  BY DEF LiveOK, TablesOK
<1>2. IsLog(RowLog(id)) /\ RowLog(id).due = undo.due
  BY RowLogFields
<1> QED
  BY <1>1, <1>2 DEF RowsOK, DueOK, UndoOK, IsMap

(* SetCommissionAvailableAt enters the commission into the index.          *)
LEMMA SetAvailableStep ==
  ASSUME LiveOK, UndoOK, NEW id \in Commissions, NEW at \in Times,
         SetCommissionAvailableAt(id, at)
  PROVE  Rewrites(id, [rows[id] EXCEPT !.at = at])
<1> DEFINE new == [rows[id] EXCEPT !.at = at]
           old == rows[id]
           ref == <<new.tenant, new.at, id>>
<1>0. /\ old \in StoredRow /\ id \in Nat /\ IsMap(rows) /\ id \in DOMAIN rows
      /\ DueSorted(pendingDue) /\ Elements(pendingDue) = DueRefs(rows)
      /\ IsLog(RowLog(id)) /\ LogOK(RowLog(id).due, pendingDue, DueRef)
      /\ old.table = "commission"
  BY StoredRowFacts DEF Commissions
<1>1. /\ old.at = 0 /\ rows' = [rows EXCEPT ![id] = new]
      /\ IF Tracked(new.state) THEN InsertDue(<<new.tenant, at, id>>, RowLog(id))
         ELSE pendingDue' = pendingDue /\ undo' = RowLog(id)
      /\ UNCHANGED <<puts, idem, ids, groups, accountIDs, nextID>>
  BY DEF SetCommissionAvailableAt, RowLog
<1>2. /\ new \in StoredRow /\ new.table = old.table /\ new.tenant = old.tenant
      /\ new.order = old.order /\ new.user = old.user /\ new.state = old.state
      /\ new.at = at
  BY <1>0 DEF StoredRow
<1> HIDE DEF new
<1>3. at # 0 /\ at \in Nat /\ new.tenant \in Nat
  BY <1>2, RowTyped, MemoryAssumption
<1>4. rows' = With(rows, id, new)
  BY <1>0, <1>1, ExceptIsWith
<1>5. Advances(old, new)
  BY <1>1, <1>2 DEF Advances
<1>6. ~IsDue(old) /\ (IsDue(new) <=> Tracked(new.state))
  BY <1>0, <1>1, <1>2, <1>3 DEF IsDue
<1>7. DueLogged(RowLog(id)) /\ Elements(pendingDue') = DueRefs(rows')
  <2>0. ref \in DueRef /\ ref = <<new.tenant, at, id>>
    BY <1>0, <1>2, <1>3 DEF DueRef
  <2>1. /\ ref \notin DueRefs(rows)
        /\ IsDue(new) => DueRefs(rows') = DueRefs(rows) \cup {ref}
        /\ ~IsDue(new) => DueRefs(rows') = DueRefs(rows)
    BY <1>0, <1>4, <1>6, DueRewritten
  <2> HIDE DEF ref
  <2>2. CASE Tracked(new.state)
    <3>1. InsertDue(ref, RowLog(id))
      BY <2>0, <2>2, <1>1
    <3>2. DueLogged(RowLog(id)) /\ Elements(pendingDue') = Elements(pendingDue) \cup {ref}
      BY <3>1, <2>0, <2>1, <1>0, InsertDueEffect
    <3> QED
      BY <3>2, <2>1, <2>2, <1>0, <1>6
  <2>3. CASE ~Tracked(new.state)
    <3>1. DueLogged(RowLog(id))
      BY <2>3, <1>0, <1>1, DueUntouched
    <3> QED
      BY <3>1, <2>1, <2>3, <1>0, <1>1, <1>6
  <2> QED
    BY <2>2, <2>3
<1>8. Rewrites(id, new)
  BY <1>1, <1>2, <1>4, <1>5, <1>7 DEF Rewrites
<1> QED
  BY <1>8 DEF new

(* A row rewritten at the same place of the index, as due as it was,       *)
(* leaves the references of the index as they are.                         *)
LEMMA DueKept ==
  ASSUME NEW R, NEW id \in DOMAIN R, NEW new,
         new.tenant = R[id].tenant, new.at = R[id].at, IsDue(R[id]) <=> IsDue(new)
  PROVE  DueRefs(With(R, id, new)) = DueRefs(R)
<1>1. CASE IsDue(R[id])
  BY <1>1, DueRewritten
<1>2. CASE ~IsDue(R[id])
  BY <1>2, DueRewritten
<1> QED
  BY <1>1, <1>2

(* SetCommissionReversedAmount and TransitionWithdrawal leave the index.   *)
LEMMA AmendStep ==
  ASSUME LiveOK, UndoOK, NEW id \in DOMAIN rows, Amend(id)
  PROVE  Rewrites(id, [rows[id] EXCEPT !.rest = 1])
<1> DEFINE new == [rows[id] EXCEPT !.rest = 1]
           old == rows[id]
<1>0. /\ old \in StoredRow /\ id \in Nat /\ IsMap(rows)
      /\ DueSorted(pendingDue) /\ Elements(pendingDue) = DueRefs(rows)
      /\ IsLog(RowLog(id)) /\ LogOK(RowLog(id).due, pendingDue, DueRef)
  BY StoredRowFacts
<1>1. /\ rows' = [rows EXCEPT ![id] = new]
      /\ pendingDue' = pendingDue /\ undo' = RowLog(id)
      /\ UNCHANGED <<puts, idem, ids, groups, accountIDs, nextID>>
  BY DEF Amend, RowLog
<1>2. /\ new \in StoredRow /\ new.table = old.table /\ new.tenant = old.tenant
      /\ new.order = old.order /\ new.user = old.user /\ new.state = old.state
      /\ new.at = old.at
  BY <1>0 DEF StoredRow
<1> HIDE DEF new
<1>4. rows' = With(rows, id, new)
  BY <1>0, <1>1, ExceptIsWith
<1>5. Advances(old, new) /\ (IsDue(old) <=> IsDue(new))
  BY <1>2 DEF Advances, IsDue
<1>6. DueRefs(rows') = DueRefs(rows)
  <2>1. DueRefs(With(rows, id, new)) = DueRefs(rows)
    BY <1>2, <1>5, DueKept
  <2> QED
    BY <2>1, <1>4
<1>7. DueLogged(RowLog(id))
  BY <1>0, <1>1, DueUntouched
<1>8. Rewrites(id, new)
  BY <1>0, <1>1, <1>2, <1>4, <1>5, <1>6, <1>7 DEF Rewrites
<1> QED
  BY <1>8 DEF new

(* TransitionCommission keeps the entry of a frozen commission and removes *)
(* that of a settled one.                                                  *)
LEMMA TransitionStep ==
  ASSUME LiveOK, UndoOK, NEW id \in Commissions, NEW to \in {"pending", "frozen", "settled"},
         TransitionCommission(id, to)
  PROVE  Rewrites(id, [rows[id] EXCEPT !.state = to])
<1> DEFINE new == [rows[id] EXCEPT !.state = to]
           old == rows[id]
           ref == <<old.tenant, old.at, id>>
<1>0. /\ old \in StoredRow /\ id \in Nat /\ IsMap(rows) /\ id \in DOMAIN rows
      /\ DueSorted(pendingDue) /\ Elements(pendingDue) = DueRefs(rows)
      /\ IsLog(RowLog(id)) /\ LogOK(RowLog(id).due, pendingDue, DueRef)
      /\ old.table = "commission"
  BY StoredRowFacts DEF Commissions
<1>1. /\ CanTransition(old.state, to) /\ rows' = [rows EXCEPT ![id] = new]
      /\ IF ~Tracked(to) /\ old.at # 0 THEN RemoveDue(ref, RowLog(id))
         ELSE pendingDue' = pendingDue /\ undo' = RowLog(id)
      /\ UNCHANGED <<puts, idem, ids, groups, accountIDs, nextID>>
  BY DEF TransitionCommission, RowLog
<1>a. to \in RowStates
  BY DEF RowStates
<1>2. /\ new \in StoredRow /\ new.table = old.table /\ new.tenant = old.tenant
      /\ new.order = old.order /\ new.user = old.user /\ new.state = to
      /\ new.at = old.at
  BY <1>0, <1>a DEF StoredRow
<1> HIDE DEF new
<1>3. Tracked(old.state)
  BY <1>1 DEF CanTransition, Tracked
<1>4. rows' = With(rows, id, new)
  BY <1>0, <1>1, ExceptIsWith
<1>5. Advances(old, new)
  BY <1>2, <1>3 DEF Advances
<1>6. (IsDue(old) <=> old.at # 0) /\ (IsDue(new) <=> Tracked(to) /\ old.at # 0)
  BY <1>0, <1>2, <1>3 DEF IsDue
<1>7. DueLogged(RowLog(id)) /\ Elements(pendingDue') = DueRefs(rows')
  <2>0. ref \in DueRef /\ ref = <<new.tenant, new.at, id>>
    BY <1>0, <1>2, RowTyped DEF DueRef
  <2>1. /\ IsDue(old) => ref \in DueRefs(rows)
        /\ IsDue(old) /\ ~IsDue(new) => DueRefs(rows') = DueRefs(rows) \ {ref}
        /\ (IsDue(old) <=> IsDue(new)) => DueRefs(rows') = DueRefs(rows)
    BY <2>0, <1>0, <1>4, DueRewritten
  <2> HIDE DEF ref
  <2>2. CASE ~Tracked(to) /\ old.at # 0
    <3>1. RemoveDue(ref, RowLog(id)) /\ ref \in Elements(pendingDue)
      BY <2>1, <2>2, <1>0, <1>1, <1>6
    <3>2. DueLogged(RowLog(id)) /\ Elements(pendingDue') = Elements(pendingDue) \ {ref}
      BY <3>1, <2>0, <1>0, RemoveDueEffect
    <3> QED
      BY <3>2, <2>1, <2>2, <1>0, <1>6
  <2>3. CASE ~(~Tracked(to) /\ old.at # 0)
    <3>1. DueLogged(RowLog(id))
      BY <2>3, <1>0, <1>1, DueUntouched
    <3> QED
      BY <3>1, <2>1, <2>3, <1>0, <1>1, <1>6
  <2> QED
    BY <2>2, <2>3
<1>8. Rewrites(id, new)
  BY <1>1, <1>2, <1>4, <1>5, <1>7 DEF Rewrites
<1> QED
  BY <1>8 DEF new

(* PutAgent, PutBinding, PutAccount, IncrementAccount.                     *)
LEMMA PutStep ==
  ASSUME LiveOK, UndoOK, NEW k \in PutKeys, NEW v \in PutValues, Put(k, v)
  PROVE  /\ LiveOK' /\ UndoOK' /\ BackKept
         /\ rows' = rows /\ puts' = With(puts, k, v)
<1> DEFINE np == Note(undo.puts, puts, k, 0)
           u == [undo EXCEPT !.puts = np]
           key == <<k.tenant, k.user>>
<1>0. /\ RowsOK(rows, nextID) /\ KeysOK(rows, idem) /\ IdsOK(rows, ids)
      /\ GroupsOK(rows, groups) /\ PutsOK(puts, accountIDs) /\ DueOK(rows, pendingDue)
      /\ IsLog(undo)
  BY DEF LiveOK, TablesOK, UndoOK
<1>1. /\ puts' = With(puts, k, v)
      /\ IF k.table = "account" /\ k \notin DOMAIN puts THEN InsertAccountID(key, u)
         ELSE accountIDs' = accountIDs /\ undo' = u
      /\ rows' = rows /\ idem' = idem /\ ids' = ids /\ groups' = groups
      /\ pendingDue' = pendingDue /\ nextID' = nextID
  BY DEF Put
<1>2. u = Log(undo.rows, np, undo.idem, undo.groups, undo.idsLen, undo.due,
              undo.accountIDs, undo.nextID, undo.writes)
  <2> HIDE DEF np
  <2> QED
    BY <1>0, LogExcept
<1> HIDE DEF u
<1>3. /\ IsLog(u) /\ u.rows = undo.rows /\ u.puts = np /\ u.idem = undo.idem
      /\ u.groups = undo.groups /\ u.idsLen = undo.idsLen /\ u.due = undo.due
      /\ u.accountIDs = undo.accountIDs /\ u.nextID = undo.nextID /\ u.writes = undo.writes
  <2> HIDE DEF np
  <2> QED
    BY <1>2, LogFields
<1>4. /\ IsMap(puts') /\ DOMAIN puts' = DOMAIN puts \cup {k} /\ DOMAIN puts' \subseteq PutKeys
  BY <1>0, <1>1 DEF With, IsMap, PutsOK
<1>5. key \in AccountRef /\ \A x \in PutKeys :
        x.table = k.table /\ x.tenant = k.tenant /\ x.user = k.user => x = k
  <2>1. \A x \in PutKeys : x \in [table : STRING, tenant : Nat, user : Nat]
    BY MemoryAssumption
  <2> QED
    BY <2>1 DEF AccountRef
<1>6. \A y : y \in Accounts(puts') <=>
        y \in Accounts(puts) \/ (k.table = "account" /\ y = key)
  BY <1>4 DEF Accounts
<1>7. AccountsSorted(accountIDs) /\ Elements(accountIDs) = Accounts(puts) /\ DOMAIN puts \subseteq PutKeys
  BY <1>0 DEF PutsOK
<1>8. LogOK(u.accountIDs, accountIDs, AccountRef)
  BY <1>3 DEF UndoOK
<1>9. /\ undo' = Log(u.rows, u.puts, u.idem, u.groups, u.idsLen, u.due,
                     undo'.accountIDs, u.nextID, u.writes)
      /\ AccountsSorted(accountIDs')
      /\ LogOK(undo'.accountIDs, accountIDs', AccountRef)
      /\ RestoreOrdered(undo'.accountIDs, accountIDs') = RestoreOrdered(u.accountIDs, accountIDs)
      /\ Elements(accountIDs') = Accounts(puts')
  <2>1. CASE k.table = "account" /\ k \notin DOMAIN puts
    <3>1. key \notin Elements(accountIDs)
      BY <2>1, <1>5, <1>7 DEF Accounts
    <3>2. InsertAccountID(key, u)
      BY <2>1, <1>1
    <3> HIDE DEF key
    <3>3. /\ undo' = Log(u.rows, u.puts, u.idem, u.groups, u.idsLen, u.due,
                         undo'.accountIDs, u.nextID, u.writes)
          /\ AccountsSorted(accountIDs')
          /\ LogOK(undo'.accountIDs, accountIDs', AccountRef)
          /\ RestoreOrdered(undo'.accountIDs, accountIDs') = RestoreOrdered(u.accountIDs, accountIDs)
          /\ Elements(accountIDs') = Elements(accountIDs) \cup {key}
      BY <3>1, <3>2, <1>3, <1>5, <1>7, <1>8, InsertAccountEffect
    <3>4. Accounts(puts') = Accounts(puts) \cup {key}
      BY <2>1, <1>6
    <3> QED
      BY <3>3, <3>4, <1>7
  <2>2. CASE ~(k.table = "account" /\ k \notin DOMAIN puts)
    <3>1. accountIDs' = accountIDs /\ undo' = u
      BY <2>2, <1>1
    <3>2. Accounts(puts') = Accounts(puts)
      <4>1. k.table = "account" => key \in Accounts(puts)
        BY <2>2 DEF Accounts
      <4> QED
        BY <4>1, <1>6
    <3> QED
      BY <3>1, <3>2, <1>3, <1>7, <1>8 DEF IsLog
  <2> QED
    BY <2>1, <2>2
<1>10. /\ IsLog(undo') /\ undo'.rows = undo.rows /\ undo'.puts = np /\ undo'.idem = undo.idem
       /\ undo'.groups = undo.groups /\ undo'.idsLen = undo.idsLen /\ undo'.due = undo.due
       /\ undo'.nextID = undo.nextID /\ undo'.writes = undo.writes
  <2> HIDE DEF np
  <2> DEFINE a == undo'.accountIDs
  <2>1. undo' = Log(undo.rows, np, undo.idem, undo.groups, undo.idsLen, undo.due,
                    a, undo.nextID, undo.writes)
    BY <1>3, <1>9
  <2> HIDE DEF a
  <2> QED
    BY <2>1, LogFields
<1>11. PutsOK(puts', accountIDs')
  BY <1>4, <1>9 DEF PutsOK
<1>12. LiveOK'
  BY <1>0, <1>1, <1>11 DEF LiveOK, TablesOK
<1>13. BackPuts' = BackPuts
  BY <1>1, <1>10, MapKept DEF BackPuts
<1>14. BackAccounts' = BackAccounts
  BY <1>3, <1>9 DEF BackAccounts
<1>15. /\ BackRows' = BackRows /\ BackIdem' = BackIdem /\ BackIds' = BackIds
       /\ BackGroups' = BackGroups /\ BackDue' = BackDue
  BY <1>1, <1>10 DEF BackRows, BackIdem, BackIds, BackGroups, BackDue
<1>16. UndoOK'
  BY <1>1, <1>9, <1>10 DEF UndoOK
<1> QED
  BY <1>1, <1>10, <1>12, <1>13, <1>14, <1>15, <1>16 DEF BackKept

-----------------------------------------------------------------------------
(***************************************************************************)
(* Transactions                                                            *)
(***************************************************************************)

(* An empty log fits any tables.                                           *)
LEMMA NoUndoFits ==
  ASSUME LiveOK, undo = NoUndo
  PROVE  UndoOK
<1> DEFINE z == [t \in IdTables |-> 0]
           e == Unsaved
<1>1. NoUndo = Log(<< >>, << >>, << >>, << >>, z, e, e, 0, 0)
  BY DEF NoUndo, Log
<1>2. e \in SliceLog(DueRef) /\ e \in SliceLog(AccountRef) /\ e.kind = "none"
  BY DEF SliceLog, Unsaved
<1>3. \A t \in IdTables : z[t] = 0
  OBVIOUS
<1> HIDE DEF z, e
<1>4. /\ IsLog(undo) /\ undo.groups = << >> /\ undo.idsLen = z /\ undo.due = e
      /\ undo.accountIDs = e /\ undo.writes = 0
  BY <1>1, LogFields
<1>5. LengthsOK(<< >>, groups)
  BY DEF LengthsOK
<1>6. \A t \in IdTables : ids[t] \in Seq(Nat)
  BY DEF LiveOK, TablesOK, IdsOK, IdList
<1>7. \A t \in IdTables : Len(ids[t]) \in Nat
  BY <1>6
<1>8. MaxWrites \in Nat
  BY MemoryAssumption
<1> QED
  BY <1>2, <1>3, <1>4, <1>5, <1>7, <1>8 DEF UndoOK, LogOK

(* A transaction starts with a log that would restore the present tables.  *)
LEMMA BeginStep ==
  ASSUME LiveOK, writes \in 0 .. MaxWrites, Begin
  PROVE  /\ LiveOK' /\ UndoOK' /\ BackOK'
         /\ BackRows' = rows /\ BackPuts' = puts
<1> DEFINE len == [t \in IdTables |-> Len(ids[t])]
           e == Unsaved
<1>0. /\ RowsOK(rows, nextID) /\ KeysOK(rows, idem) /\ IdsOK(rows, ids)
      /\ GroupsOK(rows, groups) /\ PutsOK(puts, accountIDs) /\ DueOK(rows, pendingDue)
  BY DEF LiveOK, TablesOK
<1>1. /\ rows' = rows /\ puts' = puts /\ idem' = idem /\ ids' = ids /\ groups' = groups
      /\ accountIDs' = accountIDs /\ pendingDue' = pendingDue /\ nextID' = nextID
      /\ undo' = [NoUndo EXCEPT !.idsLen = len, !.nextID = nextID, !.writes = writes]
  BY DEF Begin, data, NewUndo
<1>2. NoUndo = Log(<< >>, << >>, << >>, << >>, [t \in IdTables |-> 0], e, e, 0, 0)
  BY DEF NoUndo, Log
<1>3. e \in SliceLog(DueRef) /\ e \in SliceLog(AccountRef) /\ e.kind = "none"
  BY DEF SliceLog, Unsaved
<1>4. \A t \in IdTables : len[t] = Len(ids[t])
  OBVIOUS
<1> HIDE DEF len, e
<1>5. undo' = Log(<< >>, << >>, << >>, << >>, len, e, e, nextID, writes)
  <2> DEFINE z == [t \in IdTables |-> 0]
  <2>1. NoUndo = Log(<< >>, << >>, << >>, << >>, z, e, e, 0, 0)
    BY <1>2
  <2> HIDE DEF z
  <2> DEFINE nil == << >>
             x == nextID
             y == writes
  <2>2. /\ NoUndo = Log(nil, nil, nil, nil, z, e, e, 0, 0)
        /\ undo' = [[[NoUndo EXCEPT !.idsLen = len] EXCEPT !.nextID = x] EXCEPT !.writes = y]
    BY <2>1, <1>1
  <2> HIDE DEF nil, x, y
  <2>3. [NoUndo EXCEPT !.idsLen = len] = Log(nil, nil, nil, nil, len, e, e, 0, 0)
    BY <2>2 DEF Log
  <2>4. [Log(nil, nil, nil, nil, len, e, e, 0, 0) EXCEPT !.nextID = x] =
          Log(nil, nil, nil, nil, len, e, e, x, 0)
    BY DEF Log
  <2>5. [Log(nil, nil, nil, nil, len, e, e, x, 0) EXCEPT !.writes = y] =
          Log(nil, nil, nil, nil, len, e, e, x, y)
    BY DEF Log
  <2> QED
    BY <2>2, <2>3, <2>4, <2>5 DEF nil, x, y
<1>6. /\ IsLog(undo') /\ undo'.rows = << >> /\ undo'.puts = << >> /\ undo'.idem = << >>
      /\ undo'.groups = << >> /\ undo'.idsLen = len /\ undo'.due = e
      /\ undo'.accountIDs = e /\ undo'.nextID = nextID /\ undo'.writes = writes
  BY <1>5, LogFields
<1>7. \A t \in IdTables : /\ ids[t] \in Seq(Nat) /\ Len(ids[t]) \in Nat
                          /\ SubSeq(ids[t], 1, Len(ids[t])) = ids[t]
  <2>1. \A t \in IdTables : ids[t] \in Seq(Nat)
    BY <1>0 DEF IdsOK, IdList
  <2> QED
    BY <2>1
<1>8. LengthsOK(<< >>, groups)
  BY DEF LengthsOK
<1>9. UndoOK'
  BY <1>1, <1>3, <1>4, <1>6, <1>7, <1>8 DEF UndoOK, LogOK
<1>10. IsMap(rows) /\ IsMap(puts) /\ IsMap(idem) /\ IsMap(groups) /\ IsMap(ids) /\ DOMAIN ids = IdTables
  BY <1>0 DEF RowsOK, PutsOK, KeysOK, GroupsOK, IdsOK, IsMap
<1>11. BackRows' = rows /\ BackPuts' = puts /\ BackIdem' = idem
  BY <1>1, <1>6, <1>10, RestoreNothing DEF BackRows, BackPuts, BackIdem
<1>12. BackIds' = ids
  <2>1. BackIds' = [t \in IdTables |-> ids[t]]
    BY <1>1, <1>4, <1>6, <1>7 DEF BackIds
  <2> QED
    BY <2>1, <1>10 DEF IsMap
<1>13. BackGroups' = groups
  <2>1. DOMAIN << >> = {}
    OBVIOUS
  <2>2. RestoreIndex(<< >>, groups) = groups
    BY <2>1, <1>10 DEF RestoreIndex, IsMap
  <2> QED
    BY <2>2, <1>1, <1>6 DEF BackGroups
<1>14. BackAccounts' = accountIDs /\ BackDue' = pendingDue
  BY <1>1, <1>3, <1>6 DEF BackAccounts, BackDue, RestoreOrdered
<1>15. BackOK'
  <2>1. TablesOK(BackRows', undo'.nextID, BackIdem', BackIds', BackGroups', BackPuts',
                 BackAccounts', BackDue')
    BY <1>0, <1>6, <1>11, <1>12, <1>13, <1>14 DEF TablesOK
  <2> QED
    BY <2>1 DEF BackOK
<1>16. LiveOK'
  BY <1>1 DEF LiveOK
<1> QED
  BY <1>9, <1>11, <1>15, <1>16

(* The tables before and after a rollback.                                 *)
LEMMA RollbackStep ==
  ASSUME BackOK, UndoOK, Rollback
  PROVE  /\ LiveOK' /\ writes' \in 0 .. MaxWrites
         /\ rows' = BackRows /\ puts' = BackPuts
<1>1. /\ rows' = BackRows /\ puts' = BackPuts /\ idem' = BackIdem /\ ids' = BackIds
      /\ groups' = BackGroups /\ accountIDs' = BackAccounts /\ pendingDue' = BackDue
      /\ nextID' = undo.nextID
  BY DEF Rollback, Restored, BackRows, BackPuts, BackIdem, BackIds, BackGroups,
         BackAccounts, BackDue
<1>2. LiveOK'
  BY <1>1 DEF LiveOK, BackOK
<1> QED
  BY <1>1, <1>2 DEF Rollback, UndoOK

(* The log after a transaction fits.                                       *)
LEMMA NoUndoFitsNext ==
  (LiveOK /\ undo = NoUndo)' => UndoOK'
<1>1. LiveOK /\ undo = NoUndo => UndoOK
  BY NoUndoFits
<1> QED
  BY <1>1, PTL

(* What any write does.                                                    *)
WriteEffect ==
  /\ LiveOK' /\ UndoOK' /\ BackKept
  /\ \/ \E row \in NewRows :
          /\ Extends(rows, nextID + 1, row, rows') /\ puts' = puts
     \/ \E id \in DOMAIN rows, new \in StoredRow :
          /\ Advances(rows[id], new) /\ rows' = With(rows, id, new) /\ puts' = puts
     \/ \E k \in PutKeys, v \in PutValues :
          rows' = rows /\ puts' = With(puts, k, v)

WriteAction ==
  \/ \E row \in NewRows : AppendRow(row)
  \/ \E id \in Commissions, at \in Times : SetCommissionAvailableAt(id, at)
  \/ \E id \in Commissions, to \in {"pending", "frozen", "settled"} :
       TransitionCommission(id, to)
  \/ \E id \in DOMAIN rows : Amend(id)
  \/ \E k \in PutKeys, v \in PutValues : Put(k, v)

(* Every write keeps the tables in agreement and what is committed.        *)
LEMMA WriteStep ==
  ASSUME LiveOK, UndoOK, WriteAction
  PROVE  WriteEffect /\ Writes
<1>1. ASSUME NEW row \in NewRows, AppendRow(row) PROVE WriteEffect /\ Writes
  <2>1. LiveOK' /\ UndoOK' /\ BackKept /\ Extends(rows, nextID + 1, row, rows')
    BY <1>1, AppendStep
  <2>2. Writes /\ puts' = puts
    BY <1>1 DEF AppendRow
  <2> QED
    BY <2>1, <2>2 DEF WriteEffect
<1>2. ASSUME NEW id \in DOMAIN rows, NEW new, Rewrites(id, new) PROVE WriteEffect
  <2>1. LiveOK' /\ UndoOK' /\ BackKept
    BY <1>2, RewriteStep
  <2>2. new \in StoredRow /\ Advances(rows[id], new) /\ rows' = With(rows, id, new) /\ puts' = puts
    BY <1>2 DEF Rewrites
  <2> QED
    BY <2>1, <2>2 DEF WriteEffect
<1>3. ASSUME NEW id \in Commissions, NEW at \in Times, SetCommissionAvailableAt(id, at)
      PROVE  WriteEffect /\ Writes
  <2>1. Rewrites(id, [rows[id] EXCEPT !.at = at]) /\ id \in DOMAIN rows
    BY <1>3, SetAvailableStep DEF Commissions
  <2>2. Writes
    BY <1>3 DEF SetCommissionAvailableAt
  <2> QED
    BY <2>1, <2>2, <1>2
<1>4. ASSUME NEW id \in Commissions, NEW to \in {"pending", "frozen", "settled"},
             TransitionCommission(id, to)
      PROVE  WriteEffect /\ Writes
  <2>1. Rewrites(id, [rows[id] EXCEPT !.state = to]) /\ id \in DOMAIN rows
    BY <1>4, TransitionStep DEF Commissions
  <2>2. Writes
    BY <1>4 DEF TransitionCommission
  <2> QED
    BY <2>1, <2>2, <1>2
<1>5. ASSUME NEW id \in DOMAIN rows, Amend(id) PROVE WriteEffect /\ Writes
  <2>1. Rewrites(id, [rows[id] EXCEPT !.rest = 1])
    BY <1>5, AmendStep
  <2>2. Writes
    BY <1>5 DEF Amend
  <2> QED
    BY <2>1, <2>2, <1>2
<1>6. ASSUME NEW k \in PutKeys, NEW v \in PutValues, Put(k, v) PROVE WriteEffect /\ Writes
  <2>1. LiveOK' /\ UndoOK' /\ BackKept /\ rows' = rows /\ puts' = With(puts, k, v)
    BY <1>6, PutStep
  <2>2. Writes
    BY <1>6 DEF Put
  <2> QED
    BY <2>1, <2>2 DEF WriteEffect
<1> QED
  BY <1>1, <1>3, <1>4, <1>5, <1>6 DEF WriteAction

(* The empty store.                                                        *)
LEMMA MemInitInv == MemInit => MemInv
<1> SUFFICES ASSUME MemInit PROVE MemInv
  OBVIOUS
<1> DEFINE nil == << >>
<1>1. /\ rows = nil /\ puts = nil /\ idem = nil /\ groups = nil /\ accountIDs = nil
      /\ pendingDue = nil /\ nextID = 0 /\ phase = "free" /\ undo = NoUndo /\ writes = 0
      /\ ids = [t \in IdTables |-> nil]
  BY DEF MemInit
<1>2. /\ DOMAIN nil = {} /\ IsMap(nil) /\ nil \in Seq(Nat) /\ nil \in Seq(AccountRef)
      /\ nil \in Seq(DueRef) /\ nil \in [1 .. 0 -> StoredRow]
  BY DEF IsMap
<1>3. Elements(nil) = {}
  BY <1>2 DEF Elements
<1>4. \A t \in IdTables : ids[t] = nil
  BY <1>1
<1>5. IsMap(ids) /\ DOMAIN ids = IdTables
  BY <1>1 DEF IsMap
<1> HIDE DEF nil
<1>6. RowsOK(rows, nextID)
  BY <1>1, <1>2, MemoryAssumption DEF RowsOK
<1>7. KeysOK(rows, idem) /\ GroupsOK(rows, groups)
  BY <1>1, <1>2 DEF KeysOK, GroupsOK
<1>8. IdsOK(rows, ids)
  <2>1. \A t \in IdTables : InTable(rows, t) = {}
    BY <1>1, <1>2 DEF InTable
  <2>2. IdList(nil, {})
    BY <1>2, <1>3 DEF IdList
  <2> QED
    BY <2>1, <2>2, <1>4, <1>5 DEF IdsOK
<1>9. PutsOK(puts, accountIDs)
  <2>1. Accounts(nil) = {} /\ SortedBy(nil, AccountOrder)
    BY <1>2 DEF Accounts, SortedBy
  <2> QED
    BY <2>1, <1>1, <1>2, <1>3 DEF PutsOK, AccountsSorted
<1>10. DueOK(rows, pendingDue)
  <2>1. DueRefs(nil) = {} /\ SortedBy(nil, DueOrder)
    BY <1>2 DEF DueRefs, SortedBy
  <2> QED
    BY <2>1, <1>1, <1>2, <1>3 DEF DueOK, DueSorted
<1>11. LiveOK
  BY <1>6, <1>7, <1>8, <1>9, <1>10 DEF LiveOK, TablesOK
<1>12. UndoOK
  BY <1>1, <1>11, NoUndoFits
<1> QED
  BY <1>1, <1>11, <1>12, MemoryAssumption DEF MemInv

(* Each step keeps the invariant.                                          *)
LEMMA MemNextInv == MemInv /\ [MemNext]_memVars => MemInv'
<1> SUFFICES ASSUME MemInv, [MemNext]_memVars PROVE MemInv'
  OBVIOUS
<1>0. /\ phase \in {"free", "open", "closed"} /\ (phase # "open" => undo = NoUndo)
      /\ writes \in 0 .. MaxWrites /\ LiveOK /\ UndoOK /\ (phase = "open" => BackOK)
      /\ MaxWrites \in Nat
  BY MemoryAssumption DEF MemInv
<1>1. CASE UNCHANGED memVars
  <2>1. /\ rows' = rows /\ puts' = puts /\ idem' = idem /\ ids' = ids /\ groups' = groups
        /\ accountIDs' = accountIDs /\ pendingDue' = pendingDue /\ nextID' = nextID
        /\ undo' = undo /\ phase' = phase /\ writes' = writes
    BY <1>1 DEF memVars, data
  <2> QED
    BY <2>1, <1>0 DEF MemInv, LiveOK, UndoOK, BackOK, BackRows, BackPuts, BackIdem,
                      BackIds, BackGroups, BackAccounts, BackDue
<1>2. CASE Begin
  BY <1>0, <1>2, BeginStep DEF Begin, MemInv
<1>3. CASE Commit
  <2>1. LiveOK' /\ undo' = NoUndo /\ phase' = "free" /\ writes' = writes
    BY <1>0, <1>3 DEF Commit, data, LiveOK
  <2> QED
    BY <2>1, <1>0, NoUndoFitsNext DEF MemInv
<1>4. CASE Rollback
  <2>1. LiveOK' /\ undo' = NoUndo /\ phase' = "free" /\ writes' \in 0 .. MaxWrites
    BY <1>0, <1>4, RollbackStep DEF Rollback
  <2> QED
    BY <2>1, <1>0, NoUndoFitsNext DEF MemInv
<1>5. CASE Close
  <2>1. LiveOK' /\ undo' = NoUndo /\ phase' = "closed" /\ writes' = writes
    BY <1>0, <1>5 DEF Close, data, LiveOK
  <2> QED
    BY <2>1, <1>0, NoUndoFitsNext DEF MemInv
<1>6. CASE WriteAction
  <2>1. WriteEffect /\ Writes
    BY <1>0, <1>6, WriteStep
  <2>2. /\ phase = "open" /\ phase' = "open" /\ writes' \in 0 .. MaxWrites
    BY <2>1, <1>0 DEF Writes
  <2>3. BackOK'
    <3>1. TablesOK(BackRows', undo'.nextID, BackIdem', BackIds', BackGroups', BackPuts',
                   BackAccounts', BackDue')
      BY <2>1, <2>2, <1>0 DEF WriteEffect, BackKept, BackOK
    <3> QED
      BY <3>1 DEF BackOK
  <2> QED
    BY <2>1, <2>2, <2>3 DEF MemInv, WriteEffect
<1> QED
  BY <1>1, <1>2, <1>3, <1>4, <1>5, <1>6 DEF MemNext, WriteAction

(* The tables agree along every behaviour.                                 *)
LEMMA MemInvariant == MemSpec => []MemInv
<1> QED
  BY MemInitInv, MemNextInv, PTL DEF MemSpec

-----------------------------------------------------------------------------
(***************************************************************************)
(* The theorems                                                            *)
(***************************************************************************)

(* Ids are handed out without gaps, whatever was rolled back, and no undo  *)
(* log outlives its transaction (store/memory, Update).                    *)
THEOREM MemTypeCorrect == MemSpec => []MemTypeOK
<1>1. MemInv => MemTypeOK
  BY DEF MemInv, LiveOK, TablesOK, RowsOK, PutsOK, MemTypeOK
<1> QED
  BY <1>1, MemInvariant, PTL

(* Every index of the in-memory store says what its maps say, inside       *)
(* transactions and after rollbacks, for any rows, keys and number of      *)
(* writes: insertDue, removeDue, insertAccountID, the append indexes and   *)
(* the undo log that takes them back (store/memory).                       *)
THEOREM MemIndexesAgree == MemSpec => []IndexesAgree
<1>1. ASSUME MemInv PROVE IndexesAgree
  <2>0. /\ RowsOK(rows, nextID) /\ KeysOK(rows, idem) /\ IdsOK(rows, ids)
        /\ GroupsOK(rows, groups) /\ PutsOK(puts, accountIDs) /\ DueOK(rows, pendingDue)
    BY <1>1 DEF MemInv, LiveOK, TablesOK
  <2>1. idem = [k \in {KeyOf(rows[id]) : id \in {x \in DOMAIN rows : HasKey(rows[x])}} |->
                  CHOOSE id \in DOMAIN rows : HasKey(rows[id]) /\ KeyOf(rows[id]) = k]
    <3> DEFINE K == {KeyOf(rows[id]) : id \in {x \in DOMAIN rows : HasKey(rows[x])}}
               C(k) == CHOOSE id \in DOMAIN rows : HasKey(rows[id]) /\ KeyOf(rows[id]) = k
    <3>1. DOMAIN idem = K
      <4>1. \A k : k \in K <=> \E id \in DOMAIN rows : HasKey(rows[id]) /\ KeyOf(rows[id]) = k
        OBVIOUS
      <4> HIDE DEF K
      <4> QED
        BY <4>1, <2>0 DEF KeysOK
    <3>2. ASSUME NEW k \in DOMAIN idem PROVE idem[k] = C(k)
      <4>1. \E id \in DOMAIN rows : HasKey(rows[id]) /\ KeyOf(rows[id]) = k
        BY <2>0 DEF KeysOK
      <4>2. /\ C(k) \in DOMAIN rows /\ HasKey(rows[C(k)]) /\ KeyOf(rows[C(k)]) = k
        BY <4>1
      <4> HIDE DEF C
      <4> QED
        BY <4>2, <2>0 DEF KeysOK
    <3>3. IsMap(idem)
      BY <2>0 DEF KeysOK
    <3> HIDE DEF K, C
    <3>4. idem = [k \in K |-> C(k)]
      BY <3>1, <3>2, <3>3 DEF IsMap
    <3> QED
      BY <3>4 DEF K, C
  <2>2. \A t \in IdTables :
          /\ Elements(ids[t]) = {id \in DOMAIN rows : rows[id].table = t}
          /\ Increasing(ids[t], LAMBDA x, y : x < y)
    BY <2>0 DEF IdsOK, IdList, InTable, Increasing
  <2>3. DOMAIN groups = UNION {GroupsOf(rows[id]) : id \in DOMAIN rows}
    BY <2>0 DEF GroupsOK
  <2>4. \A g \in DOMAIN groups :
          /\ Elements(groups[g]) = {id \in DOMAIN rows : g \in GroupsOf(rows[id])}
          /\ Increasing(groups[g], LAMBDA x, y : x < y)
    BY <2>0 DEF GroupsOK, IdList, InGroup, Increasing
  <2>5. /\ Elements(accountIDs) =
             {<<k.tenant, k.user>> : k \in {x \in DOMAIN puts : x.table = "account"}}
        /\ Increasing(accountIDs, AccountLess)
    <3>1. accountIDs \in Seq(AccountRef) /\ SortedBy(accountIDs, AccountOrder)
      BY <2>0 DEF PutsOK, AccountsSorted
    <3>2. Increasing(accountIDs, AccountLess)
      <4>1. ASSUME NEW i \in DOMAIN accountIDs, NEW j \in DOMAIN accountIDs, i < j
            PROVE  AccountLess(accountIDs[i], accountIDs[j])
        <5>1. accountIDs[i] \in AccountRef /\ accountIDs[j] \in AccountRef
          BY <3>1
        <5>2. <<accountIDs[i], accountIDs[j]>> \in AccountOrder
          BY <3>1, <4>1 DEF SortedBy
        <5> QED
          BY <5>1, <5>2, AccountOrderFacts
      <4> QED
        BY <4>1 DEF Increasing
    <3> QED
      BY <3>2, <2>0 DEF PutsOK, Accounts
  <2>6. /\ Elements(pendingDue) =
             {<<rows[id].tenant, rows[id].at, id>> :
                id \in {x \in Commissions : rows[x].state \in {"pending", "frozen"} /\ rows[x].at # 0}}
        /\ Increasing(pendingDue, DueLess)
    <3>1. pendingDue \in Seq(DueRef) /\ SortedBy(pendingDue, DueOrder)
      BY <2>0 DEF DueOK, DueSorted
    <3>2. Increasing(pendingDue, DueLess)
      <4>1. ASSUME NEW i \in DOMAIN pendingDue, NEW j \in DOMAIN pendingDue, i < j
            PROVE  DueLess(pendingDue[i], pendingDue[j])
        <5>1. pendingDue[i] \in DueRef /\ pendingDue[j] \in DueRef
          BY <3>1
        <5>2. <<pendingDue[i], pendingDue[j]>> \in DueOrder
          BY <3>1, <4>1 DEF SortedBy
        <5> QED
          BY <5>1, <5>2, DueOrderFacts
      <4> QED
        BY <4>1 DEF Increasing
    <3>3. {x \in DOMAIN rows : IsDue(rows[x])} =
            {x \in Commissions : rows[x].state \in {"pending", "frozen"} /\ rows[x].at # 0}
      BY DEF IsDue, Tracked, Commissions
    <3> QED
      BY <3>2, <3>3, <2>0 DEF DueOK, DueRefs
  <2> QED
    BY <2>1, <2>2, <2>3, <2>4, <2>5, <2>6 DEF IndexesAgree
<1> QED
  BY <1>1, MemInvariant, PTL

(* A write of the store is a legal write of the port.                      *)
LEMMA WriteIsLegal ==
  ASSUME LiveOK, WriteEffect
  PROVE  Port!LegalWrite([rows |-> rows, puts |-> puts], [rows |-> rows', puts |-> puts'])
<1>0. KeysOK(rows', idem') /\ RowsOK(rows, nextID)
  BY DEF WriteEffect, LiveOK, TablesOK
<1>1. Port!UniqueKeys([rows |-> rows', puts |-> puts'])
  BY <1>0 DEF Port!UniqueKeys, KeysOK
<1>2. ASSUME NEW row \in NewRows, Extends(rows, nextID + 1, row, rows'), puts' = puts
      PROVE  Port!LegalWrite([rows |-> rows, puts |-> puts], [rows |-> rows', puts |-> puts'])
  BY <1>1, <1>2 DEF Port!LegalWrite, Port!Subject, Port!Waits, Extends
<1>3. ASSUME NEW id \in DOMAIN rows, NEW new \in StoredRow, Advances(rows[id], new),
             rows' = With(rows, id, new), puts' = puts
      PROVE  Port!LegalWrite([rows |-> rows, puts |-> puts], [rows |-> rows', puts |-> puts'])
  <2>1. /\ DOMAIN rows' = DOMAIN rows /\ rows'[id] = new
        /\ \A x \in DOMAIN rows \ {id} : rows'[x] = rows[x]
    BY <1>3 DEF With
  <2>2. ASSUME NEW x \in DOMAIN rows
        PROVE  /\ Port!Subject(rows'[x]) = Port!Subject(rows[x])
               /\ rows[x].at # 0 => rows'[x].at = rows[x].at
               /\ Port!Waits(rows'[x]) => Port!Waits(rows[x])
    BY <2>1, <1>3 DEF Port!Subject, Port!Waits, Advances, Tracked
  <2> QED
    BY <2>1, <2>2, <1>1, <1>3 DEF Port!LegalWrite
<1>4. ASSUME NEW k \in PutKeys, NEW v \in PutValues, rows' = rows, puts' = With(puts, k, v)
      PROVE  Port!LegalWrite([rows |-> rows, puts |-> puts], [rows |-> rows', puts |-> puts'])
  <2>1. DOMAIN puts \subseteq DOMAIN puts'
    BY <1>4 DEF With
  <2> QED
    BY <2>1, <1>1, <1>4 DEF Port!LegalWrite, Port!Subject, Port!Waits
<1> QED
  BY <1>2, <1>3, <1>4 DEF WriteEffect

(* The contents the port speaks of, in a transaction and outside.          *)
LEMMA CommittedMeans ==
  /\ phase = "open" => CommittedContents = [rows |-> BackRows, puts |-> BackPuts]
  /\ phase # "open" => CommittedContents = [rows |-> rows, puts |-> puts]
BY DEF CommittedContents, Restored, BackRows, BackPuts

(* The same after a step.                                                  *)
LEMMA CommittedMeansNext ==
  /\ phase' = "open" => CommittedContents' = [rows |-> BackRows', puts |-> BackPuts']
  /\ phase' # "open" => CommittedContents' = [rows |-> rows', puts |-> puts']
BY DEF CommittedContents, Restored, BackRows, BackPuts

(* Every step of the store is a step of the port, or none.                 *)
LEMMA StepImplements ==
  ASSUME MemInv, [MemNext]_memVars
  PROVE  [Port!StoreNext]_(Port!storeVars)
<1>0. /\ phase \in {"free", "open", "closed"} /\ writes \in 0 .. MaxWrites
      /\ LiveOK /\ UndoOK /\ (phase = "open" => BackOK)
  BY DEF MemInv
<1>1. CASE UNCHANGED memVars
  <2>1. rows' = rows /\ puts' = puts /\ undo' = undo /\ phase' = phase
    BY <1>1 DEF memVars, data
  <2>2. BackRows' = BackRows /\ BackPuts' = BackPuts
    BY <2>1 DEF BackRows, BackPuts
  <2>3. CommittedContents' = CommittedContents
    BY <2>1, <2>2, CommittedMeans, CommittedMeansNext
  <2> QED
    BY <2>1, <2>3 DEF Port!storeVars
<1>2. CASE Begin
  <2>1. phase = "free" /\ phase' = "open" /\ rows' = rows /\ puts' = puts
    BY <1>2 DEF Begin, data
  <2>2. BackRows' = rows /\ BackPuts' = puts
    BY <1>0, <1>2, BeginStep
  <2>3. CommittedContents' = CommittedContents
    BY <2>1, <2>2, CommittedMeans, CommittedMeansNext
  <2> QED
    BY <2>1, <2>3 DEF Port!StoreNext, Port!BeginTx
<1>3. CASE Commit
  <2>1. phase = "open" /\ phase' = "free" /\ rows' = rows /\ puts' = puts
    BY <1>3 DEF Commit, data
  <2>2. CommittedContents' = [rows |-> rows, puts |-> puts]
    BY <2>1, CommittedMeansNext
  <2> QED
    BY <2>1, <2>2 DEF Port!StoreNext, Port!CommitTx
<1>4. CASE Rollback
  <2>1. phase = "open" /\ phase' = "free"
    BY <1>4 DEF Rollback
  <2>2. rows' = BackRows /\ puts' = BackPuts
    BY <2>1, <1>0, <1>4, RollbackStep
  <2>3. /\ CommittedContents = [rows |-> rows', puts |-> puts']
        /\ CommittedContents' = [rows |-> rows', puts |-> puts']
    BY <2>1, <2>2, CommittedMeans, CommittedMeansNext
  <2> QED
    BY <2>1, <2>3 DEF Port!StoreNext, Port!RollbackTx
<1>5. CASE Close
  <2>1. phase # "open" /\ phase' = "closed" /\ rows' = rows /\ puts' = puts
    BY <1>5 DEF Close, data
  <2>2. CommittedContents' = CommittedContents
    BY <2>1, CommittedMeans, CommittedMeansNext
  <2> QED
    BY <2>1, <2>2 DEF Port!StoreNext, Port!CloseStore
<1>6. CASE WriteAction
  <2>1. WriteEffect /\ phase = "open" /\ phase' = "open"
    BY <1>0, <1>6, WriteStep DEF Writes
  <2>2. BackRows' = BackRows /\ BackPuts' = BackPuts
    BY <2>1 DEF WriteEffect, BackKept
  <2>3. CommittedContents' = CommittedContents
    BY <2>1, <2>2, CommittedMeans, CommittedMeansNext
  <2>4. Port!LegalWrite([rows |-> rows, puts |-> puts], [rows |-> rows', puts |-> puts'])
    BY <2>1, <1>0, WriteIsLegal
  <2> QED
    BY <2>1, <2>3, <2>4 DEF Port!StoreNext, Port!WriteTx
<1> QED
  BY <1>1, <1>2, <1>3, <1>4, <1>5, <1>6 DEF MemNext, WriteAction

(* The in-memory store implements the Store port (store.go): although it   *)
(* keeps one copy of the data and changes it in place, the undo log makes  *)
(* its transactions atomic, for any sequence of writes and rollbacks.      *)
THEOREM MemImplementsStore == MemSpec => ImplementsStore
<1>1. MemInit => Port!StoreInit
  BY DEF MemInit, Port!StoreInit, CommittedContents
<1>2. MemInv /\ [MemNext]_memVars => [Port!StoreNext]_(Port!storeVars)
  BY StepImplements
<1> QED
  BY <1>1, <1>2, MemInvariant, PTL DEF MemSpec, ImplementsStore, Port!Spec

-----------------------------------------------------------------------------
(***************************************************************************)
(* The scan of the settlement index                                        *)
(***************************************************************************)

(* g[i] is what a scan from position lo has found after position i.        *)
Scans(g, lo, n, limit) ==
  g = [i \in 0 .. n |->
         IF i < lo THEN << >>
         ELSE IF Len(g[i - 1]) < limit /\ Fresh(pendingDue[i])
                THEN Append(g[i - 1], pendingDue[i])
         ELSE g[i - 1]]

Scan(lo, n, limit) == CHOOSE g : Scans(g, lo, n, limit)

(* One position of the scan.                                               *)
ScanOne(s, i, lo, limit) ==
  IF i < lo THEN << >>
  ELSE IF Len(s) < limit /\ Fresh(pendingDue[i]) THEN Append(s, pendingDue[i])
  ELSE s

(* The reader's loop is that scan.                                         *)
LEMMA ScanUnfolded ==
  ASSUME NEW tenant, NEW dueAt, NEW limit
  PROVE  DueCommissions(tenant, dueAt, limit) =
           Scan(DueFrom(tenant), DueTo(tenant, dueAt) - 1, limit)[DueTo(tenant, dueAt) - 1]
BY DEF DueCommissions, Scan, Scans

(* The values of a scan.                                                   *)
LEMMA ScanValue ==
  ASSUME NEW g, NEW lo \in Nat \ {0}, NEW n \in Nat, NEW limit, Scans(g, lo, n, limit)
  PROVE  /\ g[0] = << >>
         /\ \A i \in 1 .. n : g[i] = ScanOne(g[i - 1], i, lo, limit)
<1> DEFINE body(i) == IF i < lo THEN << >>
                      ELSE IF Len(g[i - 1]) < limit /\ Fresh(pendingDue[i])
                             THEN Append(g[i - 1], pendingDue[i])
                      ELSE g[i - 1]
<1>1. g = [i \in 0 .. n |-> body(i)]
  BY DEF Scans
<1>2. body(0) = << >>
  OBVIOUS
<1>3. \A i : body(i) = ScanOne(g[i - 1], i, lo, limit)
  BY DEF ScanOne
<1> HIDE DEF body
<1>4. \A i \in 0 .. n : g[i] = body(i)
  BY <1>1
<1> QED
  BY <1>2, <1>3, <1>4

(* There is such a scan, however long the index is.                        *)
LEMMA ScanExists ==
  ASSUME NEW lo \in Nat \ {0}, NEW limit, NEW n \in Nat
  PROVE  Scans(Scan(lo, n, limit), lo, n, limit)
<1> DEFINE Has(k) == \E g : Scans(g, lo, k, limit)
           Bad == {k \in Nat : ~Has(k)}
<1>1. ASSUME Bad # {} PROVE FALSE
  <2> DEFINE m == Min(Bad)
  <2>1. m \in Bad /\ \A y \in Bad : m <= y
    <3>1. Bad \subseteq Nat
      OBVIOUS
    <3> HIDE DEF Bad
    <3> QED
      BY <1>1, <3>1, MinNat
  <2> HIDE DEF m
  <2>2. m \in Nat /\ ~Has(m) /\ \A k \in Nat : k < m => Has(k)
    BY <2>1
  <2> HIDE DEF Bad
  <2>3. CASE m = 0
    <3> DEFINE g == [i \in 0 .. 0 |-> << >>]
    <3>1. \A i \in 0 .. 0 : i < lo
      OBVIOUS
    <3>2. Scans(g, lo, 0, limit)
      BY <3>1 DEF Scans
    <3> HIDE DEF g
    <3> QED
      BY <2>2, <2>3, <3>2
  <2>4. CASE m # 0
    <3>1. m - 1 \in Nat /\ m - 1 < m
      BY <2>2, <2>4
    <3>2. PICK h : Scans(h, lo, m - 1, limit)
      BY <2>2, <3>1
    <3> DEFINE H(i) == IF i < lo THEN << >>
                       ELSE IF Len(h[i - 1]) < limit /\ Fresh(pendingDue[i])
                              THEN Append(h[i - 1], pendingDue[i])
                       ELSE h[i - 1]
               g == [i \in 0 .. m |-> IF i = m THEN H(m) ELSE h[i]]
               G(i) == IF i < lo THEN << >>
                       ELSE IF Len(g[i - 1]) < limit /\ Fresh(pendingDue[i])
                              THEN Append(g[i - 1], pendingDue[i])
                       ELSE g[i - 1]
    <3>3. h = [i \in 0 .. m - 1 |-> H(i)]
      BY <3>2 DEF Scans
    <3>4. \A i \in 0 .. m - 1 : h[i] = H(i)
      <4> HIDE DEF H
      <4> QED
        BY <3>3
    <3>5. \A i \in 0 .. m : g[i] = IF i = m THEN H(m) ELSE h[i]
      <4> HIDE DEF H
      <4> QED
        OBVIOUS
    <3>6. \A i \in 0 .. m : i < lo \/ g[i - 1] = h[i - 1]
      <4> HIDE DEF H, g
      <4> TAKE i \in 0 .. m
      <4>1. CASE i < lo
        BY <4>1
      <4>2. CASE ~(i < lo)
        <5>1. i - 1 \in 0 .. m /\ i - 1 # m
          BY <2>2, <4>2
        <5> QED
          BY <3>5, <5>1
      <4> QED
        BY <4>1, <4>2
    <3>7. \A i \in 0 .. m : G(i) = H(i)
      <4> TAKE i \in 0 .. m
      <4>1. CASE i < lo
        BY <4>1
      <4>2. CASE ~(i < lo)
        <5>1. g[i - 1] = h[i - 1]
          BY <3>6, <4>2
        <5> HIDE DEF g
        <5> QED
          BY <5>1
      <4> QED
        BY <4>1, <4>2
    <3>8. \A i \in 0 .. m : g[i] = G(i)
      <4> HIDE DEF H, g, G
      <4> TAKE i \in 0 .. m
      <4>1. CASE i = m
        BY <3>5, <3>7, <4>1
      <4>2. CASE i # m
        <5>1. i \in 0 .. m - 1
          BY <2>2, <4>2
        <5> QED
          BY <3>4, <3>5, <3>7, <4>2, <5>1
      <4> QED
        BY <4>1, <4>2
    <3>9. g = [i \in 0 .. m |-> G(i)]
      <4>1. g = [i \in 0 .. m |-> g[i]]
        OBVIOUS
      <4> HIDE DEF g, G, H
      <4> QED
        BY <3>8, <4>1
    <3>10. Scans(g, lo, m, limit)
      <4> HIDE DEF g
      <4> QED
        BY <3>9 DEF Scans
    <3> HIDE DEF g
    <3> QED
      BY <2>2, <3>10
  <2> QED
    BY <2>3, <2>4
<1>2. Has(n)
  BY <1>1
<1> QED
  BY <1>2 DEF Scan

(* The fresh entries between two positions.                                *)
Seen(lo, n) == {pendingDue[i] : i \in {j \in lo .. n : Fresh(pendingDue[j])}}

(* s holds the first `limit` entries of V, or all of them.                 *)
Firsts(s, V, limit) ==
  /\ s \in Seq(DueRef) /\ Len(s) <= limit
  /\ IsFiniteSet(V) /\ Cardinality(V) \in Nat
  /\ Len(s) <= Cardinality(V)
  /\ Elements(s) \subseteq V
  /\ Len(s) < limit => Elements(s) = V /\ Len(s) = Cardinality(V)
  /\ SortedBy(s, DueOrder)
  /\ \A x \in V \ Elements(s) : \A i \in DOMAIN s : <<s[i], x>> \in DueOrder

FirstSeen(s, lo, n, limit) == Firsts(s, Seen(lo, n), limit)

(* Nothing is the first of nothing.                                        *)
LEMMA FirstsOfNothing ==
  ASSUME NEW limit \in Nat
  PROVE  Firsts(<< >>, {}, limit)
<1>1. IsFiniteSet({}) /\ Cardinality({}) = 0
  BY FS_EmptySet
<1>2. /\ << >> \in Seq(DueRef) /\ Len(<< >>) = 0 /\ Elements(<< >>) = {}
      /\ SortedBy(<< >>, DueOrder)
  BY DEF Elements, SortedBy
<1> QED
  BY <1>1, <1>2 DEF Firsts

(* Entries further on are later than those seen.                           *)
LEMMA SeenStep ==
  ASSUME DueSorted(pendingDue), NEW lo \in Nat \ {0}, NEW n \in Nat,
         n + 1 <= Len(pendingDue)
  PROVE  /\ n + 1 < lo => Seen(lo, n + 1) = {}
         /\ ~Fresh(pendingDue[n + 1]) => Seen(lo, n + 1) = Seen(lo, n)
         /\ n + 1 >= lo /\ Fresh(pendingDue[n + 1]) =>
              Seen(lo, n + 1) = Seen(lo, n) \cup {pendingDue[n + 1]}
         /\ \A y \in Seen(lo, n) : <<y, pendingDue[n + 1]>> \in DueOrder
         /\ pendingDue[n + 1] \in DueRef /\ pendingDue[n + 1] \notin Seen(lo, n)
<1> DEFINE D == pendingDue
           e == D[n + 1]
<1>1. /\ D \in Seq(DueRef) /\ SortedBy(D, DueOrder) /\ Len(D) \in Nat
      /\ DOMAIN D = 1 .. Len(D) /\ n + 1 \in DOMAIN D /\ e \in DueRef
  BY DEF DueSorted
<1>2. \A i \in lo .. n : i \in DOMAIN D /\ <<D[i], e>> \in DueOrder
  <2> TAKE i \in lo .. n
  <2>1. i \in DOMAIN D /\ i < n + 1
    BY <1>1
  <2> QED
    BY <1>1, <2>1 DEF SortedBy
<1>3. \A y \in Seen(lo, n) : <<y, e>> \in DueOrder
  BY <1>2 DEF Seen
<1>4. e \notin Seen(lo, n)
  BY <1>1, <1>3, DueOrderFacts DEF StrictOrder
<1>5. n + 1 < lo => lo .. n + 1 = {}
  OBVIOUS
<1>6. n + 1 >= lo => lo .. n + 1 = (lo .. n) \cup {n + 1}
  OBVIOUS
<1>7. lo .. n + 1 \subseteq (lo .. n) \cup {n + 1} /\ lo .. n \subseteq lo .. n + 1
  OBVIOUS
<1>8. n + 1 < lo => Seen(lo, n + 1) = {}
  BY <1>5 DEF Seen
<1>9. ~Fresh(e) => Seen(lo, n + 1) = Seen(lo, n)
  BY <1>7 DEF Seen
<1>10. n + 1 >= lo /\ Fresh(e) => Seen(lo, n + 1) = Seen(lo, n) \cup {e}
  BY <1>6 DEF Seen
<1> QED
  BY <1>1, <1>3, <1>4, <1>8, <1>9, <1>10

(* A later entry put at the end keeps a list sorted.                       *)
LEMMA LaterAppended ==
  ASSUME NEW s \in Seq(DueRef), NEW e \in DueRef, SortedBy(s, DueOrder),
         \A i \in DOMAIN s : <<s[i], e>> \in DueOrder
  PROVE  /\ Append(s, e) \in Seq(DueRef) /\ Len(Append(s, e)) = Len(s) + 1
         /\ SortedBy(Append(s, e), DueOrder)
         /\ Elements(Append(s, e)) = Elements(s) \cup {e}
<1> DEFINE n == Append(s, e)
<1>1. /\ n \in Seq(DueRef) /\ Len(s) \in Nat /\ DOMAIN s = 1 .. Len(s)
      /\ Len(n) = Len(s) + 1
      /\ DOMAIN n = 1 .. Len(s) + 1 /\ n[Len(s) + 1] = e
      /\ \A i \in 1 .. Len(s) : n[i] = s[i]
  OBVIOUS
<1> HIDE DEF n
<1>2. ASSUME NEW i \in DOMAIN n, NEW j \in DOMAIN n, i < j
      PROVE  <<n[i], n[j]>> \in DueOrder
  <2>1. i \in DOMAIN s /\ n[i] = s[i]
    BY <1>1, <1>2
  <2>2. CASE j = Len(s) + 1
    BY <2>1, <2>2, <1>1
  <2>3. CASE j # Len(s) + 1
    <3>1. j \in DOMAIN s /\ n[j] = s[j]
      BY <2>3, <1>1
    <3> QED
      BY <3>1, <2>1, <1>2 DEF SortedBy
  <2> QED
    BY <2>2, <2>3
<1>3. \A i \in DOMAIN n : n[i] \in Elements(s) \cup {e}
  BY <1>1 DEF Elements
<1>4. \A x \in Elements(s) \cup {e} : \E i \in DOMAIN n : n[i] = x
  BY <1>1 DEF Elements
<1>5. Elements(n) = Elements(s) \cup {e}
  BY <1>3, <1>4 DEF Elements
<1>6. SortedBy(n, DueOrder)
  BY <1>2 DEF SortedBy
<1> QED
  BY <1>1, <1>5, <1>6 DEF n

(* One position of the scan keeps it so.                                   *)
LEMMA FirstSeenStep ==
  ASSUME DueSorted(pendingDue), NEW lo \in Nat \ {0}, NEW n \in Nat,
         n + 1 <= Len(pendingDue), NEW limit \in Nat, NEW s, FirstSeen(s, lo, n, limit)
  PROVE  FirstSeen(ScanOne(s, n + 1, lo, limit), lo, n + 1, limit)
<1> DEFINE e == pendingDue[n + 1]
           S == Seen(lo, n)
           S2 == Seen(lo, n + 1)
           t == ScanOne(s, n + 1, lo, limit)
<1>1. /\ n + 1 < lo => S2 = {}
      /\ ~Fresh(e) => S2 = S
      /\ n + 1 >= lo /\ Fresh(e) => S2 = S \cup {e}
      /\ \A y \in S : <<y, e>> \in DueOrder
      /\ e \in DueRef /\ e \notin S
  BY SeenStep
<1>2. /\ s \in Seq(DueRef) /\ Len(s) <= limit /\ Len(s) \in Nat
      /\ IsFiniteSet(S) /\ Cardinality(S) \in Nat
      /\ Len(s) <= Cardinality(S)
      /\ Elements(s) \subseteq S
      /\ Len(s) < limit => Elements(s) = S /\ Len(s) = Cardinality(S)
      /\ SortedBy(s, DueOrder)
      /\ \A x \in S \ Elements(s) : \A i \in DOMAIN s : <<s[i], x>> \in DueOrder
  BY DEF FirstSeen, Firsts
<1>3. t = IF n + 1 < lo THEN << >>
          ELSE IF Len(s) < limit /\ Fresh(e) THEN Append(s, e) ELSE s
  BY DEF ScanOne
<1>4. /\ IsFiniteSet(S \cup {e}) /\ Cardinality(S \cup {e}) = Cardinality(S) + 1
  BY <1>1, <1>2, FS_AddElement
<1>5. Firsts(t, S2, limit) => FirstSeen(t, lo, n + 1, limit)
  BY DEF FirstSeen
<1> HIDE DEF e, S, S2, t
<1>6. CASE n + 1 < lo
  <2>1. t = << >> /\ S2 = {}
    BY <1>1, <1>3, <1>6
  <2> QED
    BY <1>5, <2>1, FirstsOfNothing DEF t
<1>7. CASE n + 1 >= lo /\ ~Fresh(e)
  <2>1. t = s /\ S2 = S
    BY <1>1, <1>3, <1>7
  <2>2. Firsts(s, S, limit)
    BY <1>2 DEF Firsts
  <2> QED
    BY <1>5, <2>1, <2>2 DEF t
<1>8. CASE n + 1 >= lo /\ Fresh(e) /\ Len(s) < limit
  <2>1. t = Append(s, e) /\ S2 = S \cup {e}
    BY <1>1, <1>3, <1>8
  <2>2. Elements(s) = S /\ Len(s) = Cardinality(S)
    BY <1>2, <1>8
  <2>3. \A i \in DOMAIN s : <<s[i], e>> \in DueOrder
    BY <1>1, <2>2 DEF Elements
  <2>4. /\ Append(s, e) \in Seq(DueRef) /\ Len(Append(s, e)) = Len(s) + 1
        /\ SortedBy(Append(s, e), DueOrder)
        /\ Elements(Append(s, e)) = S \cup {e}
    BY <1>1, <1>2, <2>2, <2>3, LaterAppended
  <2>5. Firsts(Append(s, e), S \cup {e}, limit)
    <3> DEFINE u == Append(s, e)
               V == S \cup {e}
    <3>1. /\ u \in Seq(DueRef) /\ Len(u) = Len(s) + 1 /\ SortedBy(u, DueOrder)
          /\ Elements(u) = V
      BY <2>4
    <3>2. IsFiniteSet(V) /\ Cardinality(V) = Cardinality(S) + 1
      BY <1>4
    <3> HIDE DEF u, V
    <3>3. Len(u) <= limit /\ Cardinality(V) \in Nat /\ Len(u) = Cardinality(V)
      BY <1>2, <1>8, <2>2, <3>1, <3>2
    <3>4. Firsts(u, V, limit)
      BY <3>1, <3>2, <3>3 DEF Firsts
    <3> QED
      BY <3>4 DEF u, V
  <2> QED
    BY <1>5, <2>1, <2>5 DEF t
<1>9. CASE n + 1 >= lo /\ Fresh(e) /\ ~(Len(s) < limit)
  <2>1. t = s /\ S2 = S \cup {e}
    BY <1>1, <1>3, <1>9
  <2>2. \A i \in DOMAIN s : <<s[i], e>> \in DueOrder
    BY <1>1, <1>2 DEF Elements
  <2>3. Firsts(s, S \cup {e}, limit)
    <3> DEFINE V == S \cup {e}
    <3>1. Elements(s) \subseteq V /\ \A x \in V : x \in S \/ x = e
      BY <1>2
    <3>2. IsFiniteSet(V) /\ Cardinality(V) = Cardinality(S) + 1
      BY <1>4
    <3> HIDE DEF V
    <3>3. Cardinality(V) \in Nat /\ Len(s) <= Cardinality(V)
      BY <1>2, <3>2
    <3>4. \A x \in V \ Elements(s) : \A i \in DOMAIN s : <<s[i], x>> \in DueOrder
      BY <1>2, <2>2, <3>1
    <3>5. Firsts(s, V, limit)
      BY <1>2, <1>9, <3>1, <3>2, <3>3, <3>4 DEF Firsts
    <3> QED
      BY <3>5 DEF V
  <2> QED
    BY <1>5, <2>1, <2>3 DEF t
<1>10. n + 1 < lo \/ n + 1 >= lo
  OBVIOUS
<1> QED
  BY <1>6, <1>7, <1>8, <1>9, <1>10 DEF t

(* What the scan has found after each position.                            *)
LEMMA ScanFinds ==
  ASSUME DueSorted(pendingDue), NEW lo \in Nat \ {0}, NEW n \in Nat,
         n <= Len(pendingDue), NEW limit \in Nat
  PROVE  FirstSeen(Scan(lo, n, limit)[n], lo, n, limit)
<1> DEFINE g == Scan(lo, n, limit)
           Bad == {k \in 0 .. n : ~FirstSeen(g[k], lo, k, limit)}
<1>1. Scans(g, lo, n, limit)
  BY ScanExists
<1> HIDE DEF g
<1>2. /\ g[0] = << >>
      /\ \A i \in 1 .. n : g[i] = ScanOne(g[i - 1], i, lo, limit)
  BY <1>1, ScanValue
<1>3. FirstSeen(g[0], lo, 0, limit)
  <2>1. Seen(lo, 0) = {}
    <3>1. lo .. 0 = {}
      OBVIOUS
    <3> QED
      BY <3>1 DEF Seen
  <2> QED
    BY <1>2, <2>1, FirstsOfNothing DEF FirstSeen
<1>4. ASSUME Bad # {} PROVE FALSE
  <2> DEFINE m == Min(Bad)
  <2>1. m \in Bad /\ \A y \in Bad : m <= y
    <3>1. Bad \subseteq Nat
      OBVIOUS
    <3> HIDE DEF Bad
    <3> QED
      BY <1>4, <3>1, MinNat
  <2> HIDE DEF m
  <2>2. m \in 0 .. n /\ ~FirstSeen(g[m], lo, m, limit) /\ m # 0
    BY <2>1, <1>3
  <2>3. m - 1 \in Nat /\ m - 1 \in 0 .. n /\ m - 1 < m /\ (m - 1) + 1 = m /\ m \in 1 .. n
    BY <2>2
  <2>4. FirstSeen(g[m - 1], lo, m - 1, limit)
    BY <2>1, <2>3
  <2>5. (m - 1) + 1 <= Len(pendingDue)
    <3>1. Len(pendingDue) \in Nat
      BY DEF DueSorted
    <3> QED
      BY <2>3, <3>1
  <2>6. FirstSeen(ScanOne(g[m - 1], (m - 1) + 1, lo, limit), lo, (m - 1) + 1, limit)
    <3> DEFINE k == m - 1
    <3>1. k \in Nat /\ k + 1 <= Len(pendingDue) /\ FirstSeen(g[k], lo, k, limit)
      BY <2>3, <2>4, <2>5
    <3> HIDE DEF k, Bad
    <3>2. FirstSeen(ScanOne(g[k], k + 1, lo, limit), lo, k + 1, limit)
      BY <3>1, FirstSeenStep
    <3> QED
      BY <3>2 DEF k
  <2> QED
    BY <2>2, <2>3, <2>6, <1>2
<1>5. FirstSeen(g[n], lo, n, limit)
  BY <1>4
<1> QED
  BY <1>5 DEF g

(* The place of a due reference, given where the search stops.             *)
LEMMA DuePlace ==
  ASSUME DueSorted(pendingDue), NEW tenant \in Nat, NEW dueAt \in Nat
  PROVE  /\ DueFrom(tenant) \in Nat \ {0} /\ DueTo(tenant, dueAt) - 1 \in Nat
         /\ DueTo(tenant, dueAt) - 1 <= Len(pendingDue)
         /\ \A i \in DueFrom(tenant) .. DueTo(tenant, dueAt) - 1 :
              i \in DOMAIN pendingDue /\ pendingDue[i][1] = tenant /\ pendingDue[i][2] <= dueAt
         /\ \A i \in DOMAIN pendingDue :
              pendingDue[i][1] = tenant /\ pendingDue[i][2] <= dueAt =>
                i \in DueFrom(tenant) .. DueTo(tenant, dueAt) - 1
<1> DEFINE D == pendingDue
           lo == DueFrom(tenant)
           hi == DueTo(tenant, dueAt)
           From == {i \in DOMAIN D : D[i][1] >= tenant}
           To == {i \in lo .. Len(D) : D[i][1] # tenant \/ D[i][2] > dueAt}
<1>1. /\ D \in Seq(DueRef) /\ SortedBy(D, DueOrder) /\ Len(D) \in Nat
      /\ DOMAIN D = 1 .. Len(D)
  BY DEF DueSorted
<1>2. \A i \in DOMAIN D : /\ D[i] \in DueRef
                          /\ D[i][1] \in Nat /\ D[i][2] \in Nat /\ D[i][3] \in Nat
  BY <1>1 DEF DueRef
<1>3. \A i, j \in DOMAIN D :
        i < j => D[i][1] < D[j][1] \/ (D[i][1] = D[j][1] /\ D[i][2] <= D[j][2])
  <2> TAKE i, j \in DOMAIN D
  <2> HAVE i < j
  <2>1. <<D[i], D[j]>> \in DueOrder
    BY <1>1 DEF SortedBy
  <2>2. DueLess(D[i], D[j])
    BY <1>2, <2>1, DueOrderFacts
  <2> QED
    BY <1>2, <2>2 DEF DueLess
<1>4. lo = Search(D, From) /\ hi = Search(D, To)
  BY DEF DueFrom, DueTo
<1>5. /\ lo \in 1 .. Len(D) + 1
      /\ lo <= Len(D) => lo \in From
      /\ \A i \in DOMAIN D : i < lo => i \notin From
  BY <1>1, <1>4, SearchMeans
<1>6. To \subseteq DOMAIN D
  BY <1>1, <1>5
<1>7. /\ hi \in 1 .. Len(D) + 1
      /\ hi <= Len(D) => hi \in To
      /\ \A i \in DOMAIN D : i < hi => i \notin To
  <2> HIDE DEF D, lo, hi, From, To
  <2> QED
    BY <1>1, <1>4, <1>6, SearchMeans
<1>8. /\ \A i \in DOMAIN D : i \in From <=> D[i][1] >= tenant
      /\ \A i \in DOMAIN D : i \in To <=> i >= lo /\ (D[i][1] # tenant \/ D[i][2] > dueAt)
  BY <1>1, <1>5
<1> HIDE DEF D, lo, hi, From, To
<1>9. lo \in Nat \ {0} /\ hi - 1 \in Nat /\ hi - 1 <= Len(D)
  BY <1>1, <1>5, <1>7
<1>10. ASSUME NEW i \in lo .. hi - 1
       PROVE  i \in DOMAIN D /\ D[i][1] = tenant /\ D[i][2] <= dueAt
  <2>1. i \in DOMAIN D /\ i < hi /\ i >= lo
    BY <1>1, <1>5, <1>7, <1>9
  <2> QED
    BY <2>1, <1>2, <1>7, <1>8
<1>11. ASSUME NEW i \in DOMAIN D, D[i][1] = tenant, D[i][2] <= dueAt
       PROVE  i \in lo .. hi - 1
  <2>1. i >= lo
    BY <1>1, <1>2, <1>5, <1>8, <1>11
  <2>2. ASSUME i >= hi PROVE FALSE
    <3>1. hi \in DOMAIN D /\ hi \in To
      BY <1>1, <1>7, <2>2
    <3>2. hi >= lo /\ (D[hi][1] # tenant \/ D[hi][2] > dueAt)
      BY <1>8, <3>1
    <3>3. lo \in DOMAIN D /\ D[lo][1] >= tenant
      BY <1>1, <1>5, <1>8, <3>1, <3>2
    <3>4. D[hi][1] >= tenant
      <4>1. CASE lo = hi
        BY <3>3, <4>1
      <4>2. CASE lo # hi
        <5>1. lo < hi
          BY <1>1, <3>1, <3>2, <3>3, <4>2
        <5> QED
          BY <1>2, <1>3, <3>1, <3>3, <5>1
      <4> QED
        BY <4>1, <4>2
    <3>5. hi # i
      BY <1>2, <1>11, <3>1, <3>2
    <3>6. hi < i
      BY <1>1, <2>2, <3>1, <3>5
    <3>7. D[hi][1] < D[i][1] \/ (D[hi][1] = D[i][1] /\ D[hi][2] <= D[i][2])
      BY <1>3, <3>1, <3>6
    <3> QED
      BY <1>2, <1>11, <3>1, <3>2, <3>4, <3>7
  <2> QED
    BY <1>1, <1>5, <1>7, <2>1, <2>2
<1> QED
  BY <1>9, <1>10, <1>11 DEF D, lo, hi

(* The fresh entries between the two searches are the due commissions.     *)
LEMMA SeenIsDue ==
  ASSUME RowsOK(rows, nextID), DueOK(rows, pendingDue), NEW tenant \in Nat, NEW dueAt \in Nat
  PROVE  Seen(DueFrom(tenant), DueTo(tenant, dueAt) - 1) = DueSet({tenant}, dueAt)
<1> DEFINE D == pendingDue
           Part == DueFrom(tenant) .. DueTo(tenant, dueAt) - 1
           Ref(x) == <<rows[x].tenant, rows[x].at, x>>
<1>1. DueSorted(D) /\ Elements(D) = DueRefs(rows)
  BY DEF DueOK
<1>2. /\ \A i \in Part : i \in DOMAIN D /\ D[i][1] = tenant /\ D[i][2] <= dueAt
      /\ \A i \in DOMAIN D : D[i][1] = tenant /\ D[i][2] <= dueAt => i \in Part
  BY <1>1, DuePlace
<1>3. \A x \in DOMAIN rows : rows[x].tenant \in Nat /\ rows[x].at \in Nat
  BY RowTyped DEF RowsOK
<1>4. \A y : y \in Seen(DueFrom(tenant), DueTo(tenant, dueAt) - 1) <=>
              \E i \in Part : y = D[i] /\ Fresh(D[i])
  BY DEF Seen
<1>5. \A y : y \in DueSet({tenant}, dueAt) <=>
              \E x \in DOMAIN rows :
                /\ rows[x].table = "commission" /\ rows[x].state = "pending"
                /\ rows[x].tenant = tenant /\ rows[x].at \in 1 .. dueAt
                /\ y = Ref(x)
  BY DEF DueSet, Commissions
<1>6. \A y : y \in Elements(D) <=> \E x \in DOMAIN rows : IsDue(rows[x]) /\ y = Ref(x)
  BY <1>1 DEF DueRefs
<1> HIDE DEF D, Part
<1>7. ASSUME NEW i \in Part, Fresh(D[i])
      PROVE  D[i] \in DueSet({tenant}, dueAt)
  <2>1. i \in DOMAIN D /\ D[i] \in Elements(D)
    BY <1>2 DEF Elements
  <2>2. PICK x \in DOMAIN rows : IsDue(rows[x]) /\ D[i] = Ref(x)
    BY <1>6, <2>1
  <2>3. D[i][1] = rows[x].tenant /\ D[i][2] = rows[x].at /\ D[i][3] = x
    BY <2>2
  <2>4. rows[x].table = "commission" /\ rows[x].at # 0 /\ rows[x].state = "pending"
    BY <1>7, <2>2, <2>3 DEF IsDue, Fresh
  <2>5. rows[x].tenant = tenant /\ rows[x].at <= dueAt
    BY <1>2, <2>3
  <2>6. rows[x].at \in 1 .. dueAt
    BY <1>3, <2>4, <2>5
  <2> HIDE DEF Ref
  <2> QED
    BY <1>5, <2>2, <2>4, <2>5, <2>6
<1>8. ASSUME NEW x \in DOMAIN rows, rows[x].table = "commission", rows[x].state = "pending",
             rows[x].tenant = tenant, rows[x].at \in 1 .. dueAt
      PROVE  \E i \in Part : Ref(x) = D[i] /\ Fresh(D[i])
  <2>1. IsDue(rows[x])
    BY <1>8 DEF IsDue, Tracked
  <2>2. PICK i \in DOMAIN D : Ref(x) = D[i]
    BY <1>6, <2>1 DEF Elements
  <2>3. D[i][1] = tenant /\ D[i][2] = rows[x].at /\ D[i][3] = x
    BY <1>8, <2>2
  <2>4. Fresh(D[i])
    BY <1>8, <2>3 DEF Fresh
  <2>5. i \in Part
    BY <1>2, <1>8, <2>3
  <2> QED
    BY <2>2, <2>4, <2>5
<1> DEFINE A == Seen(DueFrom(tenant), DueTo(tenant, dueAt) - 1)
           B == DueSet({tenant}, dueAt)
<1> HIDE DEF Ref
<1>9. \A y : y \in A => y \in B
  BY <1>4, <1>7
<1>10. \A y : y \in B => y \in A
  BY <1>4, <1>5, <1>8
<1> HIDE DEF A, B
<1>11. A = B
  BY <1>9, <1>10
<1> QED
  BY <1>11 DEF A, B

(* A batch of the in-memory store reads exactly the tenant's due           *)
(* commissions, earliest first, and its limit cuts off only later ones,    *)
(* whatever was frozen, settled or rolled back before (reader.go,          *)
(* DueCommissions).                                                        *)
THEOREM MemDueExact == MemSpec => []DueExact
<1>1. ASSUME MemInv PROVE DueExact
  <2>1. /\ RowsOK(rows, nextID) /\ DueOK(rows, pendingDue) /\ DueSorted(pendingDue)
    BY <1>1 DEF MemInv, LiveOK, TablesOK, DueOK
  <2>2. /\ \A tenant \in Tenants : tenant \in Nat
        /\ \A dueAt \in Times : dueAt \in Nat
        /\ \A limit \in 1 .. MaxId : limit \in Nat
    BY MemoryAssumption, RowTyped DEF Tenants
  <2>3. ASSUME NEW tenant \in Nat, NEW dueAt \in Nat, NEW limit \in Nat
        PROVE  FirstOf(DueCommissions(tenant, dueAt, limit), DueSet({tenant}, dueAt), limit,
                       DueLess)
    <3> DEFINE s == DueCommissions(tenant, dueAt, limit)
               S == DueSet({tenant}, dueAt)
               lo == DueFrom(tenant)
               last == DueTo(tenant, dueAt) - 1
    <3>1. lo \in Nat \ {0} /\ last \in Nat /\ last <= Len(pendingDue)
      BY <2>1, DuePlace
    <3>2. s = Scan(lo, last, limit)[last]
      BY ScanUnfolded
    <3>3. Seen(lo, last) = S
      BY <2>1, SeenIsDue
    <3> HIDE DEF s, S, lo, last
    <3>4. FirstSeen(Scan(lo, last, limit)[last], lo, last, limit)
      BY <2>1, <3>1, ScanFinds
    <3>5. Firsts(s, S, limit)
      BY <3>2, <3>3, <3>4 DEF FirstSeen
    <3>6. /\ s \in Seq(DueRef) /\ Len(s) \in Nat /\ Len(s) <= limit
          /\ Cardinality(S) \in Nat /\ Len(s) <= Cardinality(S)
          /\ Elements(s) \subseteq S
          /\ Len(s) < limit => Elements(s) = S /\ Len(s) = Cardinality(S)
          /\ SortedBy(s, DueOrder)
          /\ \A x \in S \ Elements(s) : \A i \in DOMAIN s : <<s[i], x>> \in DueOrder
      BY <3>5 DEF Firsts
    <3>7. Len(s) = Min({limit, Cardinality(S)})
      <4> DEFINE m == Min({limit, Cardinality(S)})
      <4>1. m \in {limit, Cardinality(S)} /\ m <= limit /\ m <= Cardinality(S)
        <5>1. {limit, Cardinality(S)} \subseteq Nat /\ {limit, Cardinality(S)} # {}
          BY <3>6
        <5> QED
          BY <5>1, MinNat
      <4> HIDE DEF m
      <4>2. Len(s) = m
        BY <3>6, <4>1
      <4> QED
        BY <4>2 DEF m
    <3>8. Increasing(s, DueLess)
      BY <3>6 DEF Increasing, SortedBy, DueOrder
    <3>9. \A x \in S \ Elements(s), i \in DOMAIN s : DueLess(s[i], x)
      BY <3>6 DEF DueOrder
    <3>10. FirstOf(s, S, limit, DueLess)
      BY <3>6, <3>7, <3>8, <3>9 DEF FirstOf
    <3> QED
      BY <3>10 DEF s, S
  <2> QED
    BY <2>2, <2>3 DEF DueExact
<1> QED
  BY <1>1, MemInvariant, PTL

-----------------------------------------------------------------------------
(***************************************************************************)
(* The heap of the walk over all tenants                                   *)
(***************************************************************************)

(* Counting up from zero reaches every number of the range.                *)
LEMMA CountingUp ==
  ASSUME NEW N \in Nat, NEW S, 0 \in S, \A n \in 1 .. N : n - 1 \in S => n \in S
  PROVE  \A n \in 0 .. N : n \in S
<1> DEFINE Bad == {n \in 0 .. N : n \notin S}
<1>1. ASSUME Bad # {} PROVE FALSE
  <2>1. Bad \subseteq Nat
    OBVIOUS
  <2>2. \A n \in Bad : n \in 0 .. N /\ n \notin S
    OBVIOUS
  <2>3. \A n \in 0 .. N : n \in Bad \/ n \in S
    OBVIOUS
  <2> DEFINE m == Min(Bad)
  <2> HIDE DEF Bad
  <2>4. m \in Bad /\ \A y \in Bad : m <= y
    BY <1>1, <2>1, MinNat
  <2> HIDE DEF m
  <2>5. m \in 0 .. N /\ m \notin S /\ m # 0
    BY <2>2, <2>4
  <2>6. m \in 1 .. N /\ m - 1 \in 0 .. N /\ ~(m <= m - 1)
    BY <2>5
  <2>7. m - 1 \notin Bad
    BY <2>4, <2>6
  <2>8. m - 1 \in S
    BY <2>3, <2>6, <2>7
  <2> QED
    BY <2>5, <2>6, <2>8
<1> QED
  BY <1>1

(* g holds the values of a loop before and after each of its N rounds.     *)
History(g, D, x, N, G) ==
  /\ g \in [0 .. N -> D]
  /\ g[0] = x
  /\ \A n \in 1 .. N : g[n] = G[n][g[n - 1]]

(* A loop over values of D has a history.                                  *)
LEMMA LoopHistory ==
  ASSUME NEW D, NEW x \in D, NEW N \in Nat, NEW G \in [1 .. N -> [D -> D]]
  PROVE  \E g : History(g, D, x, N, G)
<1> DEFINE Is(g, m) == g[0] = x /\ \A n \in 1 .. m : g[n] = G[n][g[n - 1]]
           S == {m \in 0 .. N : \E g \in [0 .. m -> D] : Is(g, m)}
<1>1. 0 \in S
  <2> DEFINE g == [n \in 0 .. 0 |-> x]
  <2>1. g \in [0 .. 0 -> D] /\ g[0] = x
    OBVIOUS
  <2>2. \A n \in 1 .. 0 : FALSE
    OBVIOUS
  <2> HIDE DEF g
  <2>3. Is(g, 0) /\ 0 \in 0 .. N
    BY <2>1, <2>2
  <2> QED
    BY <2>1, <2>3
<1>2. ASSUME NEW m \in 1 .. N, m - 1 \in S PROVE m \in S
  <2>1. PICK h \in [0 .. m - 1 -> D] : Is(h, m - 1)
    BY <1>2
  <2> DEFINE g == [n \in 0 .. m |-> IF n = m THEN G[m][h[m - 1]] ELSE h[n]]
  <2>2. m \in Nat /\ m - 1 \in 0 .. m - 1 /\ h[m - 1] \in D /\ G[m][h[m - 1]] \in D
    OBVIOUS
  <2>3. g \in [0 .. m -> D]
    BY <2>2
  <2>4. \A n \in 0 .. m - 1 : g[n] = h[n] /\ n \in 0 .. m
    BY <2>2
  <2>5. g[m] = G[m][h[m - 1]] /\ g[m - 1] = h[m - 1]
    BY <2>2, <2>4
  <2> HIDE DEF g
  <2>6. g[0] = x
    BY <2>1, <2>2, <2>4
  <2>7. ASSUME NEW n \in 1 .. m PROVE g[n] = G[n][g[n - 1]]
    <3>1. CASE n = m
      BY <2>5, <3>1
    <3>2. CASE n # m
      <4>1. n \in 1 .. m - 1 /\ n - 1 \in 0 .. m - 1 /\ n \in 0 .. m - 1
        BY <3>2
      <4>2. h[n] = G[n][h[n - 1]]
        BY <2>1, <4>1
      <4> QED
        BY <4>1, <4>2, <2>4
    <3> QED
      BY <3>1, <3>2
  <2>8. Is(g, m)
    BY <2>6, <2>7
  <2> HIDE DEF Is
  <2> QED
    BY <2>3, <2>8
<1>3. \A n \in 0 .. N : n \in S
  <2> HIDE DEF S
  <2> QED
    BY <1>1, <1>2, CountingUp
<1>4. N \in 0 .. N
  OBVIOUS
<1> QED
  BY <1>3, <1>4 DEF History

(* Worse is a weak order.                                                  *)
LEMMA WorseFacts ==
  /\ \A x \in DueRef : ~Worse(x, x)
  /\ \A x, y \in DueRef : Worse(x, y) => ~Worse(y, x)
  /\ \A x, y, z \in DueRef : Worse(x, y) /\ Worse(y, z) => Worse(x, z)
  /\ \A x, y, z \in DueRef : ~Worse(x, y) /\ ~Worse(y, z) => ~Worse(x, z)
BY DEF Worse, DueRef

(* g is h in another order.                                                *)
Distinct(h) == \A i, j \in DOMAIN h : h[i] = h[j] => i = j

Rearranged(h, g) ==
  /\ g \in Seq(DueRef) /\ Len(g) = Len(h)
  /\ Elements(g) = Elements(h)
  /\ Distinct(h) => Distinct(g)

(* Nothing below a place is worse than it; from place a on, no place has   *)
(* something worse below it.                                               *)
Below(q, h) == {2 * q, 2 * q + 1} \cap DOMAIN h

Above(h, q) == \A k \in Below(q, h) : ~Worse(h[k], h[q])

HeapFrom(h, a) == \A q \in DOMAIN h : q >= a => Above(h, q)

(* The worst of the family.                                                *)
LEMMA LargestMeans ==
  ASSUME NEW h \in Seq(DueRef), NEW p \in DOMAIN h
  PROVE  /\ Largest(h, p) \in DOMAIN h
         /\ Largest(h, p) = p \/ Largest(h, p) \in Below(p, h)
         /\ \A k \in Below(p, h) \cup {p} : ~Worse(h[k], h[Largest(h, p)])
<1> DEFINE F == {p, 2 * p, 2 * p + 1} \cap DOMAIN h
           W(j) == \A k \in F : ~Worse(h[k], h[j])
<1>1. \A k \in DOMAIN h : h[k] \in DueRef
  OBVIOUS
<1>2. p \in F /\ \A k : k \in F <=> (k = p \/ k \in Below(p, h))
  BY DEF Below
<1>3. \E j \in F : W(j)
  <2> DEFINE a == IF 2 * p \in DOMAIN h /\ Worse(h[2 * p], h[p]) THEN 2 * p ELSE p
             b == IF 2 * p + 1 \in DOMAIN h /\ Worse(h[2 * p + 1], h[a]) THEN 2 * p + 1 ELSE a
  <2>1. a \in F /\ b \in F
    OBVIOUS
  <2>2. ~Worse(h[p], h[a]) /\ (2 * p \in DOMAIN h => ~Worse(h[2 * p], h[a]))
    BY <1>1, WorseFacts
  <2>3. h[a] \in DueRef /\ h[b] \in DueRef /\ h[p] \in DueRef
    BY <1>1, <2>1
  <2>4. ~Worse(h[a], h[b])
    <3> HIDE DEF a
    <3> QED
      BY <1>1, <2>3, WorseFacts
  <2>5. 2 * p + 1 \in DOMAIN h => ~Worse(h[2 * p + 1], h[b])
    <3> HIDE DEF a
    <3> QED
      BY <1>1, <2>3, WorseFacts
  <2> HIDE DEF a, b
  <2>6. ASSUME NEW k \in F PROVE ~Worse(h[k], h[b])
    <3>1. k \in {p, 2 * p, 2 * p + 1} /\ k \in DOMAIN h /\ h[k] \in DueRef
      BY <1>1
    <3> QED
      BY <3>1, <2>2, <2>3, <2>4, <2>5, WorseFacts
  <2> QED
    BY <2>1, <2>6
<1>4. Largest(h, p) = CHOOSE j \in F : W(j)
  BY DEF Largest
<1> DEFINE L == Largest(h, p)
<1>5. L \in F /\ W(L)
  <2> HIDE DEF F, W
  <2> QED
    BY <1>3, <1>4
<1> HIDE DEF L
<1>6. \A k \in Below(p, h) \cup {p} : ~Worse(h[k], h[L])
  BY <1>2, <1>5
<1>7. L \in DOMAIN h /\ (L = p \/ L \in Below(p, h))
  BY <1>2, <1>5
<1> QED
  BY <1>6, <1>7 DEF L

(* What a swap does.                                                       *)
LEMMA SwapMeans ==
  ASSUME NEW h \in Seq(DueRef), NEW i \in DOMAIN h, NEW j \in DOMAIN h
  PROVE  /\ Rearranged(h, Swap(h, i, j))
         /\ DOMAIN Swap(h, i, j) = DOMAIN h
         /\ Swap(h, i, j)[i] = h[j] /\ Swap(h, i, j)[j] = h[i]
         /\ \A k \in DOMAIN h \ {i, j} : Swap(h, i, j)[k] = h[k]
         /\ i = j => Swap(h, i, j) = h
<1> DEFINE g == Swap(h, i, j)
<1>1. /\ DOMAIN g = DOMAIN h /\ g[i] = h[j] /\ g[j] = h[i]
      /\ \A k \in DOMAIN h \ {i, j} : g[k] = h[k]
      /\ i = j => g = h
      /\ g \in Seq(DueRef) /\ Len(g) = Len(h)
  BY DEF Swap
<1> HIDE DEF g
<1>2. \A x : x \in Elements(g) <=> x \in Elements(h)
  BY <1>1 DEF Elements
<1>3. Elements(g) = Elements(h)
  BY <1>2
<1>4. Distinct(h) => Distinct(g)
  BY <1>1 DEF Distinct
<1>5. Rearranged(h, g)
  BY <1>1, <1>3, <1>4 DEF Rearranged
<1> QED
  BY <1>1, <1>5 DEF g

(* A state of the sift: the heap and the entry's place.                    *)
SiftStates(h) == [1 .. Len(h) -> DueRef] \X (1 .. Len(h))

SiftOnce(z) == <<Swap(z[1], z[2], Largest(z[1], z[2])), Largest(z[1], z[2])>>

Sifts(g, h, i) ==
  g = [n \in 0 .. Len(h) |->
         IF n = 0 THEN <<h, i>>
         ELSE LET below == Largest(g[n - 1][1], g[n - 1][2])
              IN  <<Swap(g[n - 1][1], g[n - 1][2], below), below>>]

Sift(h, i) == CHOOSE g : Sifts(g, h, i)

(* One swap of the sift.                                                   *)
LEMMA SiftOnceTyped ==
  ASSUME NEW h \in Seq(DueRef), NEW z \in SiftStates(h)
  PROVE  /\ SiftOnce(z) \in SiftStates(h)
         /\ z[1] \in Seq(DueRef) /\ z[2] \in DOMAIN z[1] /\ DOMAIN z[1] = 1 .. Len(h)
<1>1. z[1] \in [1 .. Len(h) -> DueRef] /\ z[2] \in 1 .. Len(h) /\ Len(h) \in Nat
  BY DEF SiftStates
<1> DEFINE f == z[1]
           p == z[2]
<1> HIDE DEF f, p
<1>2. f \in Seq(DueRef) /\ DOMAIN f = 1 .. Len(h) /\ p \in DOMAIN f
  BY <1>1 DEF f, p
<1>3. Largest(f, p) \in DOMAIN f
  BY <1>2, LargestMeans
<1>4. Swap(f, p, Largest(f, p)) \in Seq(DueRef) /\ DOMAIN Swap(f, p, Largest(f, p)) = 1 .. Len(h)
  BY <1>2, <1>3, SwapMeans DEF Rearranged
<1> DEFINE b == Largest(f, p)
           g == Swap(f, p, b)
<1>5. SiftOnce(z) = <<g, b>>
  BY DEF SiftOnce, f, p
<1>6. g \in Seq(DueRef) /\ DOMAIN g = 1 .. Len(h) /\ b \in 1 .. Len(h)
  BY <1>2, <1>3, <1>4
<1> HIDE DEF b, g
<1>7. g \in [1 .. Len(h) -> DueRef]
  BY <1>6
<1>8. SiftOnce(z) \in SiftStates(h)
  BY <1>5, <1>6, <1>7 DEF SiftStates
<1> QED
  BY <1>2, <1>8 DEF f, p

(* The sift, swap by swap.                                                 *)
LEMMA SiftValue ==
  ASSUME NEW h \in Seq(DueRef), NEW i \in DOMAIN h
  PROVE  /\ SiftDown(h, i) = Sift(h, i)[Len(h)][1]
         /\ Sift(h, i)[0] = <<h, i>>
         /\ \A n \in 1 .. Len(h) : Sift(h, i)[n] = SiftOnce(Sift(h, i)[n - 1])
<1> DEFINE N == Len(h)
           D == SiftStates(h)
           x == <<h, i>>
           G == [n \in 1 .. N |-> [z \in D |-> SiftOnce(z)]]
<1>1. N \in Nat /\ x \in D
  <2>1. h \in [1 .. Len(h) -> DueRef] /\ i \in 1 .. Len(h) /\ Len(h) \in Nat
    OBVIOUS
  <2> QED
    BY <2>1 DEF SiftStates
<1>2. \A z \in D : SiftOnce(z) \in D
  BY SiftOnceTyped
<1> HIDE DEF D
<1>3. G \in [1 .. N -> [D -> D]]
  BY <1>2
<1>4. \A n \in 1 .. N : \A z \in D : G[n][z] = SiftOnce(z)
  OBVIOUS
<1> HIDE DEF G, N, x
<1>5. PICK g : History(g, D, x, N, G)
  BY <1>1, <1>3, LoopHistory
<1>6. g \in [0 .. N -> D] /\ g[0] = x /\ \A n \in 1 .. N : g[n] = G[n][g[n - 1]]
  BY <1>5 DEF History
<1>7. \A n \in 1 .. N : n - 1 \in 0 .. N /\ g[n - 1] \in D /\ g[n] = SiftOnce(g[n - 1])
  <2> TAKE n \in 1 .. N
  <2>1. n - 1 \in 0 .. N
    BY <1>1
  <2>2. g[n - 1] \in D
    BY <2>1, <1>6
  <2> QED
    BY <2>1, <2>2, <1>4, <1>6
<1> DEFINE Body(f, n) == IF n = 0 THEN <<h, i>>
                         ELSE LET below == Largest(f[n - 1][1], f[n - 1][2])
                              IN  <<Swap(f[n - 1][1], f[n - 1][2], below), below>>
<1>8. \A f, n : Body(f, n) = IF n = 0 THEN x ELSE SiftOnce(f[n - 1])
  BY DEF SiftOnce, x
<1>9. \A f : Sifts(f, h, i) <=> f = [n \in 0 .. N |-> Body(f, n)]
  BY DEF Sifts, N
<1> HIDE DEF Body
<1>10. Sifts(g, h, i)
  <2>1. \A n \in 0 .. N : g[n] = Body(g, n)
    <3> TAKE n \in 0 .. N
    <3>1. CASE n = 0
      BY <1>6, <1>8, <3>1
    <3>2. CASE n # 0
      <4>1. n \in 1 .. N
        BY <1>1, <3>2
      <4> QED
        BY <1>7, <1>8, <3>2, <4>1
    <3> QED
      BY <3>1, <3>2
  <2>2. g = [n \in 0 .. N |-> g[n]]
    BY <1>6
  <2>3. g = [n \in 0 .. N |-> Body(g, n)]
    BY <2>1, <2>2
  <2> QED
    BY <2>3, <1>9
<1> DEFINE c == Sift(h, i)
<1>11. Sifts(c, h, i)
  BY <1>10 DEF Sift
<1>12. SiftDown(h, i) = c[N][1]
  BY DEF SiftDown, Sift, Sifts, N
<1> HIDE DEF c
<1>13. c = [n \in 0 .. N |-> Body(c, n)]
  BY <1>9, <1>11
<1>14. \A n \in 0 .. N : c[n] = Body(c, n)
  BY <1>13
<1>15. c[0] = x
  BY <1>1, <1>8, <1>14
<1>16. \A n \in 1 .. N : c[n] = SiftOnce(c[n - 1])
  <2> TAKE n \in 1 .. N
  <2>1. n \in 0 .. N /\ n # 0
    BY <1>1
  <2> QED
    BY <1>8, <1>14, <2>1
<1> QED
  BY <1>12, <1>15, <1>16 DEF c, N, x

(* A rearrangement of a rearrangement.                                     *)
LEMMA RearrangedTwice ==
  ASSUME NEW f, NEW g, NEW h, Rearranged(f, g), Rearranged(g, h)
  PROVE  Rearranged(f, h)
BY DEF Rearranged

(* What the sift has done when the entry is at p: from place i on, only    *)
(* the entry itself may be better than what is below it.                   *)
Sinking(g, p, i) ==
  /\ p \in DOMAIN g /\ p >= i
  /\ \A q \in DOMAIN g : q >= i /\ q # p => Above(g, q)
  /\ \A q \in DOMAIN g : q >= i /\ p \in Below(q, g) =>
       \A k \in Below(p, g) : ~Worse(g[k], g[q])

(* A swap with the worst of the family keeps that.                         *)
LEMMA SinkingKept ==
  ASSUME NEW g \in Seq(DueRef), NEW p \in DOMAIN g, NEW i \in DOMAIN g, Sinking(g, p, i)
  PROVE  Sinking(Swap(g, p, Largest(g, p)), Largest(g, p), i)
<1> DEFINE b == Largest(g, p)
           f == Swap(g, p, b)
<1>1. /\ b \in DOMAIN g /\ (b = p \/ b \in Below(p, g))
      /\ \A k \in Below(p, g) \cup {p} : ~Worse(g[k], g[b])
  BY LargestMeans
<1>2. /\ DOMAIN f = DOMAIN g /\ f[p] = g[b] /\ f[b] = g[p]
      /\ \A k \in DOMAIN g \ {p, b} : f[k] = g[k]
      /\ b = p => f = g
  <2> HIDE DEF b
  <2> QED
    BY <1>1, SwapMeans
<1>3. /\ p >= i
      /\ \A q \in DOMAIN g : q >= i /\ q # p => Above(g, q)
      /\ \A q \in DOMAIN g : q >= i /\ p \in Below(q, g) =>
           \A k \in Below(p, g) : ~Worse(g[k], g[q])
  BY DEF Sinking
<1> HIDE DEF b, f
<1>4. CASE b = p
  <2>1. f = g /\ Sinking(g, b, i)
    BY <1>2, <1>4
  <2> QED
    BY <2>1 DEF f, b
<1>5. CASE b # p
  <2>1. /\ DOMAIN g \subseteq Nat \ {0} /\ b \in DOMAIN g
        /\ b \in Below(p, g) /\ (b = 2 * p \/ b = 2 * p + 1) /\ b > p
    BY <1>1, <1>5 DEF Below
  <2>2. \A q : Below(q, f) = Below(q, g)
    BY <1>2 DEF Below
  <2>3. \A q \in DOMAIN g : \A k \in Below(q, g) :
          k \in DOMAIN g /\ (k = 2 * q \/ k = 2 * q + 1) /\ q \in Nat /\ k > q
    BY <2>1 DEF Below
  <2>4. \A q \in DOMAIN g : b \in Below(q, g) => q = p
    BY <2>1, <2>3
  <2>5. ASSUME NEW q \in DOMAIN g, q >= i, q # b, NEW k \in Below(q, g)
        PROVE  ~Worse(f[k], f[q])
    <3>1. k \in DOMAIN g /\ k # q
      BY <2>1, <2>3
    <3>2. CASE q = p
      <4>1. f[q] = g[b]
        BY <1>2, <3>2
      <4>2. CASE k = b
        BY <1>1, <1>2, <4>1, <4>2
      <4>3. CASE k # b
        <5>1. f[k] = g[k]
          BY <1>2, <3>1, <3>2, <4>3
        <5> QED
          BY <1>1, <3>2, <4>1, <5>1
      <4> QED
        BY <4>2, <4>3
    <3>3. CASE q # p
      <4>1. f[q] = g[q] /\ Above(g, q)
        BY <1>2, <1>3, <2>5, <3>3
      <4>2. CASE k = p
        <5>1. f[k] = g[b] /\ ~Worse(g[b], g[q])
          BY <1>2, <1>3, <2>1, <2>5, <4>2
        <5> QED
          BY <4>1, <5>1
      <4>3. CASE k # p
        <5>1. k # b
          BY <2>4, <3>3
        <5>2. f[k] = g[k]
          BY <1>2, <3>1, <4>3, <5>1
        <5> QED
          BY <4>1, <5>2 DEF Above
      <4> QED
        BY <4>2, <4>3
    <3> QED
      BY <3>2, <3>3
  <2>6. \A q \in DOMAIN f : q >= i /\ q # b => Above(f, q)
    BY <1>2, <2>2, <2>5 DEF Above
  <2>7. ASSUME NEW q \in DOMAIN g, q >= i, b \in Below(q, g), NEW k \in Below(b, g)
        PROVE  ~Worse(f[k], f[q])
    <3>1. q = p /\ f[q] = g[b]
      BY <1>2, <2>4, <2>7
    <3>2. k \in DOMAIN g /\ k > b
      BY <2>1, <2>3
    <3>3. k # b /\ k # p
      BY <3>2, <2>1
    <3>4. f[k] = g[k]
      BY <1>2, <3>2, <3>3
    <3>5. b >= i /\ i \in Nat
      BY <1>3, <2>1
    <3>6. Above(g, b)
      BY <1>3, <1>5, <2>1, <3>5
    <3> QED
      BY <3>1, <3>4, <3>6 DEF Above
  <2>8. b >= i
    BY <1>3, <2>1
  <2>9. Sinking(f, b, i)
    BY <1>2, <2>1, <2>2, <2>6, <2>7, <2>8 DEF Sinking
  <2> QED
    BY <2>9 DEF f, b
<1> QED
  BY <1>4, <1>5

(* The sift puts one entry in its place below.                             *)
LEMMA SiftDownMeans ==
  ASSUME NEW h \in Seq(DueRef), NEW i \in DOMAIN h
  PROVE  /\ Rearranged(h, SiftDown(h, i))
         /\ HeapFrom(h, i + 1) => HeapFrom(SiftDown(h, i), i)
<1> DEFINE N == Len(h)
           c == Sift(h, i)
           Good(z, n) == /\ z \in SiftStates(h)
                         /\ Rearranged(h, z[1])
                         /\ HeapFrom(h, i + 1) => Sinking(z[1], z[2], i)
                         /\ Largest(z[1], z[2]) = z[2] \/ z[2] >= n + 1
           S == {n \in 0 .. N : Good(c[n], n)}
<1>1. /\ SiftDown(h, i) = c[N][1] /\ c[0] = <<h, i>>
      /\ \A n \in 1 .. N : c[n] = SiftOnce(c[n - 1])
  BY SiftValue
<1>2. N \in Nat /\ i \in 1 .. N /\ DOMAIN h = 1 .. N /\ h \in [1 .. N -> DueRef]
  OBVIOUS
<1> HIDE DEF c, N
<1>3. Good(c[0], 0)
  <2>1. c[0][1] = h /\ c[0][2] = i /\ c[0] \in SiftStates(h)
    BY <1>1, <1>2 DEF SiftStates, N
  <2>2. Rearranged(h, h)
    BY DEF Rearranged
  <2>3. ASSUME HeapFrom(h, i + 1) PROVE Sinking(h, i, i)
    <3>1. \A q \in DOMAIN h : q >= i /\ q # i => Above(h, q)
      BY <1>2, <2>3 DEF HeapFrom
    <3>2. \A q \in DOMAIN h : q >= i => i \notin Below(q, h)
      BY <1>2 DEF Below
    <3> QED
      BY <1>2, <3>1, <3>2 DEF Sinking
  <2> QED
    BY <1>2, <2>1, <2>2, <2>3
<1>4. ASSUME NEW n \in 1 .. N, Good(c[n - 1], n - 1) PROVE Good(c[n], n)
  <2> DEFINE z == c[n - 1]
             g == z[1]
             p == z[2]
             b == Largest(g, p)
             f == Swap(g, p, b)
  <2>1. /\ z \in SiftStates(h) /\ Rearranged(h, g)
        /\ HeapFrom(h, i + 1) => Sinking(g, p, i)
        /\ Largest(g, p) = p \/ p >= n
    <3>1. n - 1 + 1 = n
      BY <1>2
    <3> QED
      BY <1>4, <3>1
  <2>2. c[n] = SiftOnce(z)
    BY <1>1
  <2>3. SiftOnce(z) = <<f, b>>
    BY DEF SiftOnce
  <2>4. c[n] = <<f, b>> /\ c[n] \in SiftStates(h)
    <3> HIDE DEF z
    <3> QED
      BY <2>1, <2>2, <2>3, SiftOnceTyped DEF z
  <2> HIDE DEF z
  <2>5. g \in Seq(DueRef) /\ p \in DOMAIN g /\ DOMAIN g = 1 .. N
    BY <2>1, SiftOnceTyped DEF N
  <2> HIDE DEF g, p
  <2>6. b \in DOMAIN g /\ (b = p \/ b \in Below(p, g))
    BY <2>5, LargestMeans
  <2>7. Rearranged(g, f) /\ (b = p => f = g)
    <3> HIDE DEF b
    <3> QED
      BY <2>5, <2>6, SwapMeans
  <2>8. Rearranged(h, f)
    <3> HIDE DEF f
    <3> QED
      BY <2>1, <2>7, RearrangedTwice
  <2>9. HeapFrom(h, i + 1) => Sinking(f, b, i)
    BY <1>2, <2>1, <2>5, SinkingKept
  <2>10. Largest(f, b) = b \/ b >= n + 1
    <3>1. CASE b = p
      <4>1. f = g
        BY <2>7, <3>1
      <4> QED
        BY <3>1, <4>1
    <3>2. CASE b # p
      <4>1. p >= n /\ p \in Nat /\ n \in Nat /\ n >= 1
        BY <1>2, <2>1, <2>5, <3>2
      <4>2. b = 2 * p \/ b = 2 * p + 1
        BY <2>6, <3>2 DEF Below
      <4> HIDE DEF b
      <4> QED
        BY <4>1, <4>2
    <3> QED
      BY <3>1, <3>2
  <2> HIDE DEF f, b
  <2>11. c[n][1] = f /\ c[n][2] = b
    BY <2>4
  <2> QED
    BY <2>4, <2>8, <2>9, <2>10, <2>11
<1>5. N \in S
  <2>1. 0 \in S
    BY <1>2, <1>3
  <2>2. \A n \in 1 .. N : n - 1 \in S => n \in S
    <3> HIDE DEF Good
    <3> SUFFICES ASSUME NEW n \in 1 .. N, n - 1 \in S PROVE n \in S
      OBVIOUS
    <3>1. Good(c[n - 1], n - 1) /\ n \in 0 .. N
      BY <1>2
    <3> QED
      BY <1>4, <3>1
  <2> HIDE DEF S
  <2>3. \A n \in 0 .. N : n \in S
    BY <1>2, <2>1, <2>2, CountingUp
  <2> QED
    BY <1>2, <2>3
<1> DEFINE g == c[N][1]
           p == c[N][2]
<1>6. /\ c[N] \in SiftStates(h) /\ Rearranged(h, g)
      /\ HeapFrom(h, i + 1) => Sinking(g, p, i)
      /\ Largest(g, p) = p \/ p >= N + 1
  BY <1>5
<1>7. g \in Seq(DueRef) /\ p \in DOMAIN g /\ DOMAIN g = 1 .. N
  BY <1>6, SiftOnceTyped DEF N
<1> HIDE DEF g, p
<1>8. Largest(g, p) = p
  BY <1>2, <1>6, <1>7
<1>9. Above(g, p)
  BY <1>7, <1>8, LargestMeans DEF Above
<1>10. HeapFrom(h, i + 1) => HeapFrom(g, i)
  BY <1>6, <1>9 DEF HeapFrom, Sinking
<1> QED
  BY <1>1, <1>6, <1>10 DEF g

Heapifies(g, h) ==
  g = [n \in 0 .. Len(h) \div 2 |->
         IF n = 0 THEN h ELSE SiftDown(g[n - 1], Len(h) \div 2 + 1 - n)]

Building(h) == CHOOSE g : Heapifies(g, h)

(* The heap, place by place.                                               *)
LEMMA HeapifyValue ==
  ASSUME NEW h \in Seq(DueRef)
  PROVE  /\ Heapify(h) = Building(h)[Len(h) \div 2]
         /\ Building(h)[0] = h
         /\ \A n \in 1 .. Len(h) \div 2 :
              Building(h)[n] = SiftDown(Building(h)[n - 1], Len(h) \div 2 + 1 - n)
<1> DEFINE N == Len(h) \div 2
           D == {s \in Seq(DueRef) : Len(s) = Len(h)}
           G == [n \in 1 .. N |-> [s \in D |-> SiftDown(s, N + 1 - n)]]
<1>1. N \in Nat /\ h \in D /\ Len(h) \in Nat /\ \A n \in 1 .. N : N + 1 - n \in 1 .. Len(h)
  OBVIOUS
<1>2. \A n \in 1 .. N : \A s \in D : SiftDown(s, N + 1 - n) \in D
  <2> SUFFICES ASSUME NEW n \in 1 .. N, NEW s \in D PROVE SiftDown(s, N + 1 - n) \in D
    OBVIOUS
  <2> DEFINE i == N + 1 - n
  <2>1. s \in Seq(DueRef) /\ Len(s) = Len(h) /\ i \in 1 .. Len(h)
    BY <1>1
  <2> HIDE DEF i
  <2>2. i \in DOMAIN s
    BY <2>1
  <2>3. SiftDown(s, i) \in Seq(DueRef) /\ Len(SiftDown(s, i)) = Len(h)
    BY <2>1, <2>2, SiftDownMeans DEF Rearranged
  <2>4. SiftDown(s, i) \in D
    BY <2>3
  <2> HIDE DEF D
  <2> QED
    BY <2>4 DEF i
<1> HIDE DEF D, N
<1>3. G \in [1 .. N -> [D -> D]]
  BY <1>2
<1>4. \A n \in 1 .. N : \A s \in D : G[n][s] = SiftDown(s, N + 1 - n)
  OBVIOUS
<1> HIDE DEF G
<1>5. PICK g : History(g, D, h, N, G)
  BY <1>1, <1>3, LoopHistory
<1>6. g \in [0 .. N -> D] /\ g[0] = h /\ \A n \in 1 .. N : g[n] = G[n][g[n - 1]]
  BY <1>5 DEF History
<1>7. \A n \in 1 .. N : g[n] = SiftDown(g[n - 1], N + 1 - n)
  <2> TAKE n \in 1 .. N
  <2>1. n - 1 \in 0 .. N
    BY <1>1
  <2>2. g[n - 1] \in D
    BY <2>1, <1>6
  <2> QED
    BY <2>2, <1>4, <1>6
<1> DEFINE Body(f, n) == IF n = 0 THEN h ELSE SiftDown(f[n - 1], N + 1 - n)
<1>8. \A f : Heapifies(f, h) <=> f = [n \in 0 .. N |-> Body(f, n)]
  BY DEF Heapifies, N
<1>9. \A f, n : Body(f, n) = IF n = 0 THEN h ELSE SiftDown(f[n - 1], N + 1 - n)
  OBVIOUS
<1> HIDE DEF Body
<1>10. Heapifies(g, h)
  <2>1. \A n \in 0 .. N : g[n] = Body(g, n)
    <3> TAKE n \in 0 .. N
    <3>1. CASE n = 0
      BY <1>6, <1>9, <3>1
    <3>2. CASE n # 0
      <4>1. n \in 1 .. N
        BY <1>1, <3>2
      <4> QED
        BY <1>7, <1>9, <3>2, <4>1
    <3> QED
      BY <3>1, <3>2
  <2>2. g = [n \in 0 .. N |-> g[n]]
    BY <1>6
  <2>3. g = [n \in 0 .. N |-> Body(g, n)]
    BY <2>1, <2>2
  <2> QED
    BY <2>3, <1>8
<1> DEFINE c == Building(h)
<1>11. Heapifies(c, h)
  BY <1>10 DEF Building
<1>12. Heapify(h) = c[N]
  BY DEF Heapify, Building, Heapifies, N
<1> HIDE DEF c
<1>13. c = [n \in 0 .. N |-> Body(c, n)]
  BY <1>8, <1>11
<1>14. \A n \in 0 .. N : c[n] = Body(c, n)
  BY <1>13
<1>15. c[0] = h
  BY <1>1, <1>9, <1>14
<1>16. \A n \in 1 .. N : c[n] = SiftDown(c[n - 1], N + 1 - n)
  <2> TAKE n \in 1 .. N
  <2>1. n \in 0 .. N /\ n # 0
    BY <1>1
  <2> QED
    BY <1>9, <1>14, <2>1
<1> QED
  BY <1>12, <1>15, <1>16 DEF c, N

(* Heapify makes a heap of the same entries.                               *)
LEMMA HeapifyMeans ==
  ASSUME NEW h \in Seq(DueRef)
  PROVE  Rearranged(h, Heapify(h)) /\ HeapFrom(Heapify(h), 1)
<1> DEFINE N == Len(h) \div 2
           c == Building(h)
           Good(f, n) == Rearranged(h, f) /\ HeapFrom(f, N + 1 - n)
           S == {n \in 0 .. N : Good(c[n], n)}
<1>1. /\ Heapify(h) = c[N] /\ c[0] = h
      /\ \A n \in 1 .. N : c[n] = SiftDown(c[n - 1], N + 1 - n)
  BY HeapifyValue
<1>2. /\ N \in Nat /\ Len(h) \in Nat /\ DOMAIN h = 1 .. Len(h)
      /\ N <= Len(h) /\ 2 * (N + 1) > Len(h)
  OBVIOUS
<1> HIDE DEF c, N
<1>3. Good(h, 0)
  <2>1. Rearranged(h, h)
    BY DEF Rearranged
  <2>2. \A q \in DOMAIN h : q >= N + 1 - 0 => Below(q, h) = {}
    BY <1>2 DEF Below
  <2> QED
    BY <2>1, <2>2 DEF HeapFrom, Above
<1>4. ASSUME NEW n \in 1 .. N, NEW f, Good(f, n - 1) PROVE Good(SiftDown(f, N + 1 - n), n)
  <2> DEFINE i == N + 1 - n
  <2>1. Rearranged(h, f) /\ HeapFrom(f, N + 1 - (n - 1))
    BY <1>4
  <2>2. i \in 1 .. Len(h) /\ i + 1 = N + 1 - (n - 1)
    BY <1>2
  <2> HIDE DEF i
  <2>3. f \in Seq(DueRef) /\ i \in DOMAIN f
    BY <2>1, <2>2 DEF Rearranged
  <2>4. Rearranged(f, SiftDown(f, i)) /\ HeapFrom(SiftDown(f, i), i)
    BY <2>1, <2>2, <2>3, SiftDownMeans
  <2>5. Rearranged(h, SiftDown(f, i))
    BY <2>1, <2>4, RearrangedTwice
  <2> QED
    BY <2>4, <2>5 DEF i
<1>5. N \in S
  <2>1. 0 \in S
    <3> HIDE DEF Good
    <3> QED
      BY <1>1, <1>2, <1>3
  <2>2. \A n \in 1 .. N : n - 1 \in S => n \in S
    <3> HIDE DEF Good
    <3> SUFFICES ASSUME NEW n \in 1 .. N, n - 1 \in S PROVE n \in S
      OBVIOUS
    <3>1. Good(c[n - 1], n - 1) /\ n \in 0 .. N
      BY <1>2
    <3>2. Good(c[n], n)
      BY <1>1, <1>4, <3>1
    <3> QED
      BY <3>1, <3>2
  <2> HIDE DEF S
  <2>3. \A n \in 0 .. N : n \in S
    BY <1>2, <2>1, <2>2, CountingUp
  <2> QED
    BY <1>2, <2>3
<1>6. N + 1 - N = 1
  BY <1>2
<1> QED
  BY <1>1, <1>5, <1>6

(* The root of a heap is a worst entry.                                    *)
LEMMA RootIsWorst ==
  ASSUME NEW h \in Seq(DueRef), HeapFrom(h, 1)
  PROVE  \A k \in DOMAIN h : ~Worse(h[k], h[1])
<1> DEFINE Bad == {k \in DOMAIN h : Worse(h[k], h[1])}
<1>1. /\ DOMAIN h = 1 .. Len(h) /\ Len(h) \in Nat
      /\ \A k \in DOMAIN h : h[k] \in DueRef
  OBVIOUS
<1>2. ASSUME Bad # {} PROVE FALSE
  <2>1. Bad \subseteq Nat /\ \A k : k \in Bad <=> k \in DOMAIN h /\ Worse(h[k], h[1])
    BY <1>1
  <2> DEFINE m == Min(Bad)
  <2> HIDE DEF Bad
  <2>2. m \in Bad /\ \A y \in Bad : m <= y
    BY <1>2, <2>1, MinNat
  <2> HIDE DEF m
  <2>3. m \in DOMAIN h /\ Worse(h[m], h[1]) /\ 1 \in DOMAIN h
    BY <1>1, <2>1, <2>2
  <2>4. m # 1
    BY <1>1, <2>3, WorseFacts
  <2> DEFINE q == m \div 2
  <2>5. q \in DOMAIN h /\ q >= 1 /\ q < m /\ (m = 2 * q \/ m = 2 * q + 1)
    BY <1>1, <2>3, <2>4
  <2> HIDE DEF q
  <2>6. ~Worse(h[m], h[q])
    BY <2>3, <2>5 DEF HeapFrom, Above, Below
  <2>7. q \notin Bad
    BY <1>1, <2>2, <2>3, <2>5
  <2>8. ~Worse(h[q], h[1])
    BY <2>1, <2>5, <2>7
  <2> QED
    BY <1>1, <2>3, <2>5, <2>6, <2>8, WorseFacts
<1> QED
  BY <1>2

(* h holds the `limit` best of V, or all of it; a full h is a heap.        *)
Keeps(h, V, limit) ==
  /\ h \in Seq(DueRef) /\ Distinct(h) /\ Len(h) <= limit
  /\ Elements(h) \subseteq V
  /\ Len(h) < limit => Elements(h) = V
  /\ Len(h) = limit => HeapFrom(h, 1)
  /\ \A x \in V \ Elements(h) : \A k \in DOMAIN h : ~Worse(h[k], x)

(* What does not depend on the order.                                      *)
LEMMA KeepsRearranged ==
  ASSUME NEW V, NEW limit, NEW h \in Seq(DueRef), NEW g, Rearranged(h, g), HeapFrom(g, 1),
         Distinct(h), Len(h) <= limit, Elements(h) \subseteq V,
         Len(h) < limit => Elements(h) = V,
         \A x \in V \ Elements(h) : \A k \in DOMAIN h : ~Worse(h[k], x)
  PROVE  Keeps(g, V, limit)
<1>1. /\ g \in Seq(DueRef) /\ Len(g) = Len(h) /\ Elements(g) = Elements(h) /\ Distinct(g)
  BY DEF Rearranged
<1>2. ASSUME NEW x \in V \ Elements(g), NEW k \in DOMAIN g PROVE ~Worse(g[k], x)
  <2>1. PICK j \in DOMAIN h : h[j] = g[k]
    BY <1>1 DEF Elements
  <2> QED
    BY <1>1, <2>1
<1> QED
  BY <1>1, <1>2 DEF Keeps

(* The entry after an append.                                              *)
LEMMA OfferedIsKept ==
  ASSUME NEW h \in Seq(DueRef), Distinct(h), NEW ref \in DueRef, ref \notin Elements(h)
  PROVE  /\ Append(h, ref) \in Seq(DueRef) /\ Len(Append(h, ref)) = Len(h) + 1
         /\ Elements(Append(h, ref)) = Elements(h) \cup {ref}
         /\ Distinct(Append(h, ref))
<1> DEFINE g == Append(h, ref)
           N == Len(h)
<1>1. /\ N \in Nat /\ DOMAIN h = 1 .. N
      /\ g \in Seq(DueRef) /\ Len(g) = N + 1 /\ DOMAIN g = 1 .. N + 1
      /\ g[N + 1] = ref /\ \A k \in 1 .. N : g[k] = h[k]
  OBVIOUS
<1> HIDE DEF g, N
<1>2. \A x : x \in Elements(g) <=> x \in Elements(h) \cup {ref}
  <2>1. ASSUME NEW x \in Elements(g) PROVE x \in Elements(h) \cup {ref}
    <3>1. PICK k \in DOMAIN g : x = g[k]
      BY <2>1 DEF Elements
    <3>2. k = N + 1 \/ k \in 1 .. N
      BY <1>1
    <3> QED
      BY <1>1, <3>1, <3>2 DEF Elements
  <2>2. ASSUME NEW x \in Elements(h) PROVE x \in Elements(g)
    <3>1. PICK k \in DOMAIN h : x = h[k]
      BY <2>2 DEF Elements
    <3>2. k \in DOMAIN g /\ g[k] = x
      BY <1>1, <3>1
    <3> QED
      BY <3>2 DEF Elements
  <2>3. ref \in Elements(g)
    <3>1. N + 1 \in DOMAIN g
      BY <1>1
    <3> QED
      BY <1>1, <3>1 DEF Elements
  <2> QED
    BY <2>1, <2>2, <2>3
<1>3. Elements(g) = Elements(h) \cup {ref}
  BY <1>2
<1>4. Distinct(g)
  <2> SUFFICES ASSUME NEW i \in DOMAIN g, NEW j \in DOMAIN g, g[i] = g[j] PROVE i = j
    BY DEF Distinct
  <2>1. \A k \in 1 .. N : g[k] # ref
    BY <1>1 DEF Elements
  <2>2. (i = N + 1 \/ i \in 1 .. N) /\ (j = N + 1 \/ j \in 1 .. N)
    BY <1>1
  <2> QED
    BY <1>1, <2>1, <2>2 DEF Distinct
<1> QED
  BY <1>1, <1>3, <1>4 DEF g, N

(* One candidate.                                                          *)
LEMMA OfferMeans ==
  ASSUME NEW limit \in Nat \ {0}, NEW h, NEW V, Keeps(h, V, limit), V \subseteq DueRef,
         NEW ref \in DueRef, ref \notin V
  PROVE  Keeps(Offer(h, ref, limit), V \cup {ref}, limit)
<1> DEFINE U == V \cup {ref}
<1>1. /\ h \in Seq(DueRef) /\ Distinct(h) /\ Len(h) <= limit /\ Len(h) \in Nat
      /\ Elements(h) \subseteq V
      /\ Len(h) < limit => Elements(h) = V
      /\ Len(h) = limit => HeapFrom(h, 1)
      /\ \A x \in V \ Elements(h) : \A k \in DOMAIN h : ~Worse(h[k], x)
  BY DEF Keeps
<1>2. /\ ref \notin Elements(h) /\ DOMAIN h = 1 .. Len(h)
      /\ \A k \in DOMAIN h : h[k] \in DueRef
  BY <1>1
<1>3. CASE Len(h) < limit
  <2> DEFINE g == Append(h, ref)
  <2>1. /\ g \in Seq(DueRef) /\ Len(g) = Len(h) + 1 /\ Elements(g) = U /\ Distinct(g)
    BY <1>1, <1>2, <1>3, OfferedIsKept
  <2>2. Offer(h, ref, limit) = IF Len(g) = limit THEN Heapify(g) ELSE g
    BY <1>3 DEF Offer
  <2> HIDE DEF g, U
  <2>3. Len(g) <= limit
    BY <1>1, <1>3, <2>1
  <2>4. CASE Len(g) = limit
    <3>1. Rearranged(g, Heapify(g)) /\ HeapFrom(Heapify(g), 1)
      BY <2>1, HeapifyMeans
    <3>2. Keeps(Heapify(g), U, limit)
      BY <2>1, <2>3, <3>1, KeepsRearranged
    <3> QED
      BY <2>2, <2>4, <3>2 DEF U
  <2>5. CASE Len(g) # limit
    <3>1. Keeps(g, U, limit)
      BY <2>1, <2>3, <2>5 DEF Keeps
    <3> QED
      BY <2>2, <2>5, <3>1 DEF U
  <2> QED
    BY <2>4, <2>5
<1>4. CASE Len(h) = limit
  <2>1. HeapFrom(h, 1) /\ 1 \in DOMAIN h
    BY <1>1, <1>2, <1>4
  <2>2. \A k \in DOMAIN h : ~Worse(h[k], h[1])
    BY <1>1, <2>1, RootIsWorst
  <2>3. CASE Worse(h[1], ref)
    <3> DEFINE g == [h EXCEPT ![1] = ref]
    <3>1. /\ g \in Seq(DueRef) /\ Len(g) = Len(h) /\ DOMAIN g = DOMAIN h
          /\ g[1] = ref /\ \A k \in DOMAIN h \ {1} : g[k] = h[k]
      BY <1>1, <2>1
    <3>2. Offer(h, ref, limit) = SiftDown(g, 1)
      BY <1>4, <2>3 DEF Offer
    <3> HIDE DEF g
    <3>3. Distinct(g)
      <4> SUFFICES ASSUME NEW i \in DOMAIN g, NEW j \in DOMAIN g, g[i] = g[j] PROVE i = j
        BY DEF Distinct
      <4>1. \A k \in DOMAIN h : h[k] # ref
        BY <1>2 DEF Elements
      <4>2. \A k, l \in DOMAIN h : h[k] = h[l] => k = l
        BY <1>1 DEF Distinct
      <4> QED
        BY <3>1, <4>1, <4>2
    <3>4. Elements(g) \subseteq U
      <4> SUFFICES ASSUME NEW x \in Elements(g) PROVE x \in U
        OBVIOUS
      <4>1. PICK k \in DOMAIN g : x = g[k]
        BY DEF Elements
      <4>2. CASE k = 1
        BY <3>1, <4>1, <4>2
      <4>3. CASE k # 1
        <5>1. x = h[k] /\ k \in DOMAIN h
          BY <3>1, <4>1, <4>3
        <5>2. x \in Elements(h)
          BY <5>1 DEF Elements
        <5> QED
          BY <1>1, <5>2
      <4> QED
        BY <4>2, <4>3
    <3>5. HeapFrom(g, 2)
      <4> SUFFICES ASSUME NEW q \in DOMAIN g, q >= 2, NEW k \in Below(q, g)
                   PROVE  ~Worse(g[k], g[q])
        BY DEF HeapFrom, Above
      <4>1. q \in DOMAIN h /\ q # 1 /\ q >= 1 /\ k \in DOMAIN h /\ k # 1 /\ k \in Below(q, h)
        BY <1>2, <3>1 DEF Below
      <4>2. g[k] = h[k] /\ g[q] = h[q] /\ ~Worse(h[k], h[q])
        BY <2>1, <3>1, <4>1 DEF HeapFrom, Above
      <4> QED
        BY <4>2
    <3>6. ASSUME NEW x \in U \ Elements(g), NEW k \in DOMAIN g PROVE ~Worse(g[k], x)
      <4>1. x \in V /\ x # ref /\ x \in DueRef
        BY <2>1, <3>1 DEF Elements
      <4>2. x = h[1] \/ x \in V \ Elements(h)
        <5>1. ASSUME x \in Elements(h) PROVE x = h[1]
          <6>1. PICK j \in DOMAIN h : x = h[j]
            BY <5>1 DEF Elements
          <6> QED
            BY <3>1, <6>1 DEF Elements
        <5> QED
          BY <4>1, <5>1
      <4>3. ~Worse(h[1], x)
        BY <1>1, <2>1, <2>2, <4>2
      <4>4. CASE k = 1
        BY <1>2, <2>1, <2>3, <3>1, <4>1, <4>3, <4>4, WorseFacts
      <4>5. CASE k # 1
        <5>1. g[k] = h[k] /\ ~Worse(h[k], x)
          BY <1>1, <2>2, <3>1, <4>2, <4>5
        <5> QED
          BY <5>1
      <4> QED
        BY <4>4, <4>5
    <3>7. Rearranged(g, SiftDown(g, 1)) /\ HeapFrom(SiftDown(g, 1), 1)
      <4>1. 1 \in DOMAIN g /\ 1 + 1 = 2
        BY <2>1, <3>1
      <4> QED
        BY <3>1, <3>5, <4>1, SiftDownMeans
    <3> HIDE DEF U
    <3>8. Len(g) <= limit /\ ~(Len(g) < limit)
      BY <1>1, <1>4, <3>1
    <3>9. Keeps(SiftDown(g, 1), U, limit)
      BY <3>1, <3>3, <3>4, <3>6, <3>7, <3>8, KeepsRearranged
    <3> QED
      BY <3>2, <3>9 DEF U
  <2>4. CASE ~Worse(h[1], ref)
    <3>1. Offer(h, ref, limit) = h
      BY <1>4, <2>4 DEF Offer
    <3>2. ASSUME NEW x \in U \ Elements(h), NEW k \in DOMAIN h PROVE ~Worse(h[k], x)
      <4>1. CASE x = ref
        BY <1>2, <2>1, <2>2, <2>4, <4>1, WorseFacts
      <4>2. CASE x # ref
        BY <1>1, <4>2
      <4> QED
        BY <4>1, <4>2
    <3>3. Keeps(h, U, limit)
      BY <1>1, <1>4, <3>2 DEF Keeps
    <3> QED
      BY <3>1, <3>3
  <2> QED
    BY <2>3, <2>4
<1> QED
  BY <1>1, <1>3, <1>4

(* Offers give heaps of references.                                        *)
LEMMA OfferTyped ==
  ASSUME NEW h \in Seq(DueRef), NEW ref \in DueRef, NEW limit \in Nat \ {0}
  PROVE  Offer(h, ref, limit) \in Seq(DueRef)
<1>1. CASE Len(h) < limit
  <2> DEFINE g == Append(h, ref)
  <2>1. g \in Seq(DueRef)
    OBVIOUS
  <2>2. Offer(h, ref, limit) = IF Len(g) = limit THEN Heapify(g) ELSE g
    BY <1>1 DEF Offer
  <2> HIDE DEF g
  <2>3. Heapify(g) \in Seq(DueRef)
    BY <2>1, HeapifyMeans DEF Rearranged
  <2> QED
    BY <2>1, <2>2, <2>3
<1>2. CASE ~(Len(h) < limit)
  <2> DEFINE g == [h EXCEPT ![1] = ref]
  <2>1. Len(h) \in Nat /\ 1 \in DOMAIN h
    BY <1>2
  <2>2. g \in Seq(DueRef) /\ 1 \in DOMAIN g
    BY <2>1
  <2>3. Offer(h, ref, limit) = IF Worse(h[1], ref) THEN SiftDown(g, 1) ELSE h
    BY <1>2 DEF Offer
  <2> HIDE DEF g
  <2>4. SiftDown(g, 1) \in Seq(DueRef)
    BY <2>2, SiftDownMeans DEF Rearranged
  <2> QED
    BY <2>3, <2>4
<1> QED
  BY <1>1, <1>2

(* The entries the walk considers.                                         *)
Wanted(i, dueAt) == pendingDue[i][2] <= dueAt /\ Fresh(pendingDue[i])

WalkOne(h, i, dueAt, limit) ==
  IF Wanted(i, dueAt) THEN Offer(h, pendingDue[i], limit) ELSE h

Walks(g, dueAt, limit) ==
  g = [n \in 0 .. Len(pendingDue) |->
         IF n = 0 THEN << >>
         ELSE IF pendingDue[n][2] <= dueAt /\ Fresh(pendingDue[n])
                THEN Offer(g[n - 1], pendingDue[n], limit)
         ELSE g[n - 1]]

Walk(dueAt, limit) == CHOOSE g : Walks(g, dueAt, limit)

(* The walk, entry by entry.                                               *)
LEMMA WalkValue ==
  ASSUME DueSorted(pendingDue), NEW dueAt, NEW limit \in Nat \ {0}
  PROVE  /\ DueWork(dueAt, limit) = InOrder(Elements(Walk(dueAt, limit)[Len(pendingDue)]))
         /\ Walk(dueAt, limit)[0] = << >>
         /\ \A n \in 1 .. Len(pendingDue) :
              Walk(dueAt, limit)[n] = WalkOne(Walk(dueAt, limit)[n - 1], n, dueAt, limit)
<1> DEFINE N == Len(pendingDue)
           D == Seq(DueRef)
           x == << >>
           G == [n \in 1 .. N |-> [h \in D |-> WalkOne(h, n, dueAt, limit)]]
<1>1. N \in Nat /\ x \in D /\ \A n \in 1 .. N : pendingDue[n] \in DueRef
  BY DEF DueSorted
<1>2. \A n \in 1 .. N : \A h \in D : WalkOne(h, n, dueAt, limit) \in D
  BY <1>1, OfferTyped DEF WalkOne
<1> HIDE DEF D, N, x
<1>3. G \in [1 .. N -> [D -> D]]
  BY <1>2
<1>4. \A n \in 1 .. N : \A h \in D : G[n][h] = WalkOne(h, n, dueAt, limit)
  OBVIOUS
<1> HIDE DEF G
<1>5. PICK g : History(g, D, x, N, G)
  BY <1>1, <1>3, LoopHistory
<1>6. g \in [0 .. N -> D] /\ g[0] = x /\ \A n \in 1 .. N : g[n] = G[n][g[n - 1]]
  BY <1>5 DEF History
<1>7. \A n \in 1 .. N : g[n] = WalkOne(g[n - 1], n, dueAt, limit)
  <2> TAKE n \in 1 .. N
  <2>1. n - 1 \in 0 .. N
    BY <1>1
  <2>2. g[n - 1] \in D
    BY <2>1, <1>6
  <2> QED
    BY <2>2, <1>4, <1>6
<1> DEFINE Body(f, n) == IF n = 0 THEN << >>
                         ELSE IF pendingDue[n][2] <= dueAt /\ Fresh(pendingDue[n])
                                THEN Offer(f[n - 1], pendingDue[n], limit)
                         ELSE f[n - 1]
<1>8. \A f : Walks(f, dueAt, limit) <=> f = [n \in 0 .. N |-> Body(f, n)]
  BY DEF Walks, N
<1>9. \A f, n : Body(f, n) = IF n = 0 THEN x ELSE WalkOne(f[n - 1], n, dueAt, limit)
  BY DEF WalkOne, Wanted, x
<1> HIDE DEF Body
<1>10. Walks(g, dueAt, limit)
  <2>1. \A n \in 0 .. N : g[n] = Body(g, n)
    <3> TAKE n \in 0 .. N
    <3>1. CASE n = 0
      BY <1>6, <1>9, <3>1
    <3>2. CASE n # 0
      <4>1. n \in 1 .. N
        BY <1>1, <3>2
      <4> QED
        BY <1>7, <1>9, <3>2, <4>1
    <3> QED
      BY <3>1, <3>2
  <2>2. g = [n \in 0 .. N |-> g[n]]
    BY <1>6
  <2>3. g = [n \in 0 .. N |-> Body(g, n)]
    BY <2>1, <2>2
  <2> QED
    BY <2>3, <1>8
<1> DEFINE c == Walk(dueAt, limit)
<1>11. Walks(c, dueAt, limit)
  BY <1>10 DEF Walk
<1>12. DueWork(dueAt, limit) = InOrder(Elements(c[N]))
  BY DEF DueWork, Walk, Walks, N
<1> HIDE DEF c
<1>13. c = [n \in 0 .. N |-> Body(c, n)]
  BY <1>8, <1>11
<1>14. \A n \in 0 .. N : c[n] = Body(c, n)
  BY <1>13
<1>15. c[0] = x
  BY <1>1, <1>9, <1>14
<1>16. \A n \in 1 .. N : c[n] = WalkOne(c[n - 1], n, dueAt, limit)
  <2> TAKE n \in 1 .. N
  <2>1. n \in 0 .. N /\ n # 0
    BY <1>1
  <2> QED
    BY <1>9, <1>14, <2>1
<1> QED
  BY <1>12, <1>15, <1>16 DEF c, N, x

(* What the walk has considered after n entries.                           *)
Considered(n, dueAt) == {pendingDue[i] : i \in {j \in 1 .. n : Wanted(j, dueAt)}}

(* The heap keeps the best of it.                                          *)
LEMMA WalkKeeps ==
  ASSUME DueSorted(pendingDue), NEW dueAt, NEW limit \in Nat \ {0}
  PROVE  Keeps(Walk(dueAt, limit)[Len(pendingDue)], Considered(Len(pendingDue), dueAt), limit)
<1> DEFINE N == Len(pendingDue)
           c == Walk(dueAt, limit)
           V(n) == Considered(n, dueAt)
           S == {n \in 0 .. N : Keeps(c[n], V(n), limit)}
<1>1. /\ c[0] = << >>
      /\ \A n \in 1 .. N : c[n] = WalkOne(c[n - 1], n, dueAt, limit)
  BY WalkValue
<1>2. N \in Nat /\ \A n \in 1 .. N : pendingDue[n] \in DueRef
  BY DEF DueSorted
<1>3. \A i, j \in 1 .. N : i < j => pendingDue[i] # pendingDue[j]
  <2>1. \A i, j \in 1 .. N : i < j => <<pendingDue[i], pendingDue[j]>> \in DueOrder
    BY DEF DueSorted, SortedBy
  <2>2. \A x \in DueRef : <<x, x>> \notin DueOrder
    BY DueOrderFacts DEF StrictOrder
  <2> QED
    BY <1>2, <2>1, <2>2
<1> HIDE DEF c, N
<1>4. Keeps(c[0], V(0), limit)
  <2> DEFINE nil == << >>
  <2>1. /\ nil \in Seq(DueRef) /\ Len(nil) = 0 /\ DOMAIN nil = {}
    OBVIOUS
  <2>2. V(0) = {}
    <3>1. \A j \in 1 .. 0 : FALSE
      OBVIOUS
    <3> QED
      BY <3>1 DEF Considered
  <2> HIDE DEF nil
  <2>3. Elements(nil) = {} /\ Distinct(nil)
    BY <2>1 DEF Elements, Distinct
  <2>4. Keeps(nil, {}, limit)
    BY <2>1, <2>3 DEF Keeps
  <2> QED
    BY <1>1, <2>2, <2>4 DEF nil
<1>5. ASSUME NEW n \in 1 .. N, Keeps(c[n - 1], V(n - 1), limit) PROVE Keeps(c[n], V(n), limit)
  <2>1. n - 1 \in Nat /\ \A j : j \in 1 .. n <=> (j \in 1 .. n - 1 \/ j = n)
    BY <1>2
  <2>2. \A x : x \in V(n) <=> \E j \in 1 .. n : Wanted(j, dueAt) /\ x = pendingDue[j]
    BY DEF Considered
  <2>3. \A x : x \in V(n - 1) <=> \E j \in 1 .. n - 1 : Wanted(j, dueAt) /\ x = pendingDue[j]
    BY DEF Considered
  <2>4. CASE Wanted(n, dueAt)
    <3> DEFINE ref == pendingDue[n]
    <3>1. V(n) = V(n - 1) \cup {ref}
      <4> DEFINE A == V(n)
                 B == V(n - 1) \cup {ref}
      <4>1. \A x : x \in A <=> x \in B
        BY <2>1, <2>2, <2>3, <2>4
      <4> HIDE DEF A, B
      <4>2. A = B
        BY <4>1
      <4> QED
        BY <4>2 DEF A, B
    <3>2. V(n - 1) \subseteq DueRef /\ ref \notin V(n - 1) /\ ref \in DueRef
      <4>1. \A j \in 1 .. n - 1 : j \in 1 .. N /\ j < n
        BY <1>2
      <4> QED
        BY <1>2, <1>3, <2>3, <4>1
    <3>3. c[n] = Offer(c[n - 1], ref, limit)
      BY <1>1, <2>4 DEF WalkOne
    <3> HIDE DEF ref, V
    <3>4. Keeps(Offer(c[n - 1], ref, limit), V(n - 1) \cup {ref}, limit)
      BY <1>5, <3>2, OfferMeans
    <3> QED
      BY <3>1, <3>3, <3>4
  <2>5. CASE ~Wanted(n, dueAt)
    <3>1. V(n) = V(n - 1)
      <4> DEFINE A == V(n)
                 B == V(n - 1)
      <4>1. \A x : x \in A <=> x \in B
        BY <2>1, <2>2, <2>3, <2>5
      <4> HIDE DEF A, B
      <4>2. A = B
        BY <4>1
      <4> QED
        BY <4>2 DEF A, B
    <3>2. c[n] = c[n - 1]
      BY <1>1, <2>5 DEF WalkOne
    <3> HIDE DEF V
    <3> QED
      BY <1>5, <3>1, <3>2
  <2> QED
    BY <2>4, <2>5
<1>6. N \in S
  <2> HIDE DEF V
  <2>1. 0 \in S
    BY <1>2, <1>4
  <2>2. \A n \in 1 .. N : n - 1 \in S => n \in S
    <3> SUFFICES ASSUME NEW n \in 1 .. N, n - 1 \in S PROVE n \in S
      OBVIOUS
    <3>1. Keeps(c[n - 1], V(n - 1), limit) /\ n \in 0 .. N
      BY <1>2
    <3> QED
      BY <1>5, <3>1
  <2> HIDE DEF S
  <2>3. \A n \in 0 .. N : n \in S
    BY <1>2, <2>1, <2>2, CountingUp
  <2> QED
    BY <1>2, <2>3
<1> QED
  BY <1>6 DEF c, N

(* The sort: every entry has a place, that of the number of entries before *)
(* it.                                                                     *)
LEMMA InOrderMeans ==
  ASSUME NEW S, S \subseteq DueRef, IsFiniteSet(S),
         \A x, y \in S : x # y => WorkLess(x, y) \/ WorkLess(y, x)
  PROVE  /\ DOMAIN InOrder(S) = 1 .. Cardinality(S) /\ Len(InOrder(S)) = Cardinality(S)
         /\ Elements(InOrder(S)) = S
         /\ \A i, j \in DOMAIN InOrder(S) : i < j => WorkLess(InOrder(S)[i], InOrder(S)[j])
<1> DEFINE N == Cardinality(S)
           Before(x) == {y \in S : WorkLess(y, x)}
           rank == [x \in S |-> Cardinality(Before(x))]
           T == 0 .. (N - 1)
           At(n) == CHOOSE x \in S : Cardinality(Before(x)) = n - 1
           s == InOrder(S)
<1>1. N \in Nat
  BY FS_CardinalityType
<1>2. /\ \A x \in DueRef : ~WorkLess(x, x)
      /\ \A x, y, z \in DueRef : WorkLess(x, y) /\ WorkLess(y, z) => WorkLess(x, z)
  BY DEF WorkLess, DueRef
<1>3. \A x \in S : x \in DueRef /\ IsFiniteSet(Before(x)) /\ Cardinality(Before(x)) \in Nat
  BY FS_Subset, FS_CardinalityType
<1>4. ASSUME NEW x \in S, NEW y \in S, WorkLess(x, y)
      PROVE  Cardinality(Before(x)) < Cardinality(Before(y))
  <2> DEFINE A == Before(x)
             B == Before(y)
  <2>1. x \notin A
    BY <1>2, <1>3
  <2>2. A \subseteq B /\ x \in B
    BY <1>2, <1>3, <1>4
  <2>3. IsFiniteSet(A) /\ IsFiniteSet(B)
    BY <1>3
  <2> HIDE DEF A, B
  <2>4. IsFiniteSet(A \cup {x}) /\ Cardinality(A \cup {x}) = Cardinality(A) + 1
    BY <2>1, <2>3, FS_AddElement
  <2>5. Cardinality(A \cup {x}) <= Cardinality(B)
    BY <2>2, <2>3, FS_Subset
  <2>6. Cardinality(A) \in Nat /\ Cardinality(B) \in Nat
    BY <2>3, FS_CardinalityType
  <2>7. Cardinality(A) < Cardinality(B)
    BY <2>4, <2>5, <2>6
  <2> QED
    BY <2>7 DEF A, B
<1>5. \A x \in S : Cardinality(Before(x)) < N
  <2> SUFFICES ASSUME NEW x \in S PROVE Cardinality(Before(x)) < N
    OBVIOUS
  <2> DEFINE A == Before(x)
  <2>1. A \subseteq S /\ x \notin A /\ IsFiniteSet(A)
    BY <1>2, <1>3
  <2> HIDE DEF A
  <2>2. Cardinality(A \cup {x}) = Cardinality(A) + 1
    BY <2>1, FS_AddElement
  <2>3. Cardinality(A \cup {x}) <= N
    <3>1. (A \cup {x}) \in SUBSET S
      BY <2>1
    <3> QED
      BY <3>1, FS_Subset
  <2>4. Cardinality(A) \in Nat
    BY <2>1, FS_CardinalityType
  <2> HIDE DEF N
  <2>5. Cardinality(A) < N
    BY <1>1, <2>2, <2>3, <2>4
  <2> QED
    BY <2>5 DEF A
<1>6. \A x \in S : rank[x] = Cardinality(Before(x))
  OBVIOUS
<1> HIDE DEF rank, N, Before
<1>7. rank \in [S -> T]
  <2>1. \A x \in S : Cardinality(Before(x)) \in T
    BY <1>1, <1>3, <1>5
  <2> HIDE DEF T
  <2> QED
    BY <2>1 DEF rank
<1>8. \A x, y \in S : rank[x] = rank[y] => x = y
  <2> SUFFICES ASSUME NEW x \in S, NEW y \in S, x # y PROVE rank[x] # rank[y]
    OBVIOUS
  <2>1. rank[x] \in Nat /\ rank[y] \in Nat
    BY <1>3, <1>6
  <2>2. rank[x] < rank[y] \/ rank[y] < rank[x]
    BY <1>4, <1>6
  <2> QED
    BY <2>1, <2>2
<1>9. IsFiniteSet(T) /\ Cardinality(T) = N
  <2>1. 0 \in Int /\ N - 1 \in Int
    BY <1>1
  <2>2. IsFiniteSet(T) /\ Cardinality(T) = IF 0 > N - 1 THEN 0 ELSE (N - 1) - 0 + 1
    BY <2>1, FS_Interval
  <2> QED
    BY <1>1, <2>2
<1>10. \A t \in T : \E x \in S : rank[x] = t
  <2> HIDE DEF T
  <2>1. rank \in Injection(S, T)
    BY <1>7, <1>8 DEF Injection, IsInjective
  <2>2. rank \in Surjection(S, T)
    BY <1>9, <2>1, FS_Injection DEF N
  <2> QED
    BY <2>2 DEF Surjection
<1>11. s = [n \in 1 .. N |-> At(n)]
  BY DEF InOrder, N, Before
<1>12. \A n \in 1 .. N : At(n) \in S /\ Cardinality(Before(At(n))) = n - 1
  <2> SUFFICES ASSUME NEW n \in 1 .. N
               PROVE  At(n) \in S /\ Cardinality(Before(At(n))) = n - 1
    OBVIOUS
  <2>1. n - 1 \in T
    BY <1>1
  <2>2. \E x \in S : Cardinality(Before(x)) = n - 1
    BY <1>6, <1>10, <2>1
  <2> QED
    BY <2>2
<1> HIDE DEF At, s
<1>13. /\ DOMAIN s = 1 .. N
       /\ \A n \in 1 .. N : s[n] \in S /\ Cardinality(Before(s[n])) = n - 1
  BY <1>11, <1>12
<1>14. Len(s) = N
  <2>1. s \in [1 .. N -> S]
    BY <1>11, <1>12
  <2>2. s \in Seq(S)
    BY <1>1, <2>1
  <2> QED
    BY <1>1, <1>13, <2>2
<1>15. Elements(s) = S
  <2>1. ASSUME NEW x \in S PROVE x \in Elements(s)
    <3> DEFINE n == rank[x] + 1
    <3>1. rank[x] \in T
      BY <1>7
    <3>2. n \in 1 .. N /\ n - 1 = rank[x]
      BY <1>1, <3>1
    <3> HIDE DEF n
    <3>3. s[n] \in S /\ rank[s[n]] = rank[x]
      BY <1>6, <1>13, <3>2
    <3>4. s[n] = x
      BY <1>8, <3>3
    <3> QED
      BY <1>13, <3>2, <3>4 DEF Elements
  <2>2. ASSUME NEW x \in Elements(s) PROVE x \in S
    BY <1>13, <2>2 DEF Elements
  <2> QED
    BY <2>1, <2>2
<1>16. ASSUME NEW i \in 1 .. N, NEW j \in 1 .. N, i < j PROVE WorkLess(s[i], s[j])
  <2>1. /\ s[i] \in S /\ s[j] \in S
        /\ Cardinality(Before(s[i])) = i - 1 /\ Cardinality(Before(s[j])) = j - 1
    BY <1>13
  <2>2. i - 1 < j - 1
    BY <1>1, <1>16
  <2>3. s[i] # s[j]
    BY <1>1, <2>1, <2>2
  <2>4. ASSUME WorkLess(s[j], s[i]) PROVE FALSE
    <3>1. Cardinality(Before(s[j])) < Cardinality(Before(s[i]))
      BY <1>4, <2>1, <2>4
    <3> QED
      BY <1>1, <2>1, <2>2, <3>1
  <2> QED
    BY <2>1, <2>3, <2>4
<1> QED
  BY <1>13, <1>14, <1>15, <1>16 DEF s, N

(* A sequence without repetitions has as many elements as places.          *)
LEMMA DistinctCounted ==
  ASSUME NEW h \in Seq(DueRef), Distinct(h)
  PROVE  IsFiniteSet(Elements(h)) /\ Cardinality(Elements(h)) = Len(h)
<1> DEFINE E == Elements(h)
           N == Len(h)
<1>1. N \in Nat /\ DOMAIN h = 1 .. N /\ h \in [1 .. N -> DueRef]
  OBVIOUS
<1> HIDE DEF N
<1>2. \A k \in 1 .. N : h[k] \in E
  BY <1>1 DEF Elements
<1>3. \A x \in E : \E k \in 1 .. N : h[k] = x
  BY <1>1 DEF Elements
<1> HIDE DEF E
<1>4. h \in [1 .. N -> E]
  BY <1>1, <1>2
<1>5. \A i, j \in 1 .. N : h[i] = h[j] => i = j
  BY <1>1 DEF Distinct
<1>6. h \in Surjection(1 .. N, E) /\ h \in Injection(1 .. N, E)
  BY <1>3, <1>4, <1>5 DEF Surjection, Injection, IsInjective
<1>7. IsFiniteSet(1 .. N) /\ Cardinality(1 .. N) = N
  <2>1. 1 \in Int /\ N \in Int
    BY <1>1
  <2>2. IsFiniteSet(1 .. N) /\ Cardinality(1 .. N) = IF 1 > N THEN 0 ELSE N - 1 + 1
    BY <2>1, FS_Interval
  <2> QED
    BY <1>1, <2>2
<1>8. IsFiniteSet(E) /\ Cardinality(E) = N
  BY <1>6, <1>7, FS_Surjection
<1> QED
  BY <1>8 DEF E, N

(* Every row belongs to a tenant callers write for, and so does every row  *)
(* a rollback would put back.                                              *)
OfTenants(R) == \A id \in DOMAIN R : R[id].tenant \in Tenants

TenantsKnown == OfTenants(rows) /\ (phase = "open" => OfTenants(BackRows))

(* A write leaves a row with its tenant.                                   *)
LEMMA WriteOfTenants ==
  ASSUME WriteEffect, OfTenants(rows)
  PROVE  OfTenants(rows')
<1>1. ASSUME NEW row \in NewRows, Extends(rows, nextID + 1, row, rows') PROVE OfTenants(rows')
  BY <1>1 DEF Extends, OfTenants, Tenants
<1>2. ASSUME NEW id \in DOMAIN rows, NEW new, Advances(rows[id], new), rows' = With(rows, id, new)
      PROVE  OfTenants(rows')
  <2> DEFINE g == With(rows, id, new)
  <2>1. /\ DOMAIN g = DOMAIN rows \cup {id} /\ g[id] = new
        /\ \A x \in DOMAIN rows \ {id} : g[x] = rows[x]
    BY DEF With
  <2>2. rows' = g
    BY <1>2
  <2> HIDE DEF g
  <2>3. new.tenant = rows[id].tenant
    BY <1>2 DEF Advances
  <2> QED
    BY <2>2, <2>3, <2>1 DEF OfTenants
<1>3. CASE rows' = rows
  BY <1>3
<1> QED
  BY <1>1, <1>2, <1>3 DEF WriteEffect

(* The tenants stay known, through writes and rollbacks.                   *)
LEMMA TenantsKnownNext ==
  MemInv /\ TenantsKnown /\ [MemNext]_memVars => TenantsKnown'
<1> SUFFICES ASSUME MemInv, TenantsKnown, [MemNext]_memVars PROVE TenantsKnown'
  OBVIOUS
<1>0. /\ LiveOK /\ UndoOK /\ writes \in 0 .. MaxWrites /\ (phase = "open" => BackOK)
      /\ OfTenants(rows) /\ (phase = "open" => OfTenants(BackRows))
  BY DEF MemInv, TenantsKnown
<1>1. CASE UNCHANGED memVars
  <2>1. rows' = rows /\ undo' = undo /\ phase' = phase
    BY <1>1 DEF memVars, data
  <2> QED
    BY <2>1, <1>0 DEF TenantsKnown, BackRows
<1>2. CASE Begin
  <2>1. rows' = rows /\ BackRows' = rows
    BY <1>0, <1>2, BeginStep DEF Begin, data
  <2> QED
    BY <2>1, <1>0 DEF TenantsKnown
<1>3. CASE Commit
  <2>1. rows' = rows /\ phase' = "free"
    BY <1>3 DEF Commit, data
  <2> QED
    BY <2>1, <1>0 DEF TenantsKnown
<1>4. CASE Rollback
  <2>1. rows' = BackRows /\ phase = "open" /\ phase' = "free"
    <3>1. phase = "open" /\ phase' = "free"
      BY <1>4 DEF Rollback
    <3> QED
      BY <1>0, <1>4, <3>1, RollbackStep
  <2> QED
    BY <2>1, <1>0 DEF TenantsKnown
<1>5. CASE Close
  <2>1. rows' = rows /\ phase' = "closed"
    BY <1>5 DEF Close, data
  <2> QED
    BY <2>1, <1>0 DEF TenantsKnown
<1>6. CASE WriteAction
  <2>1. WriteEffect /\ Writes
    BY <1>0, <1>6, WriteStep
  <2>2. phase = "open" /\ BackRows' = BackRows
    BY <2>1 DEF Writes, WriteEffect, BackKept
  <2>3. OfTenants(rows')
    BY <1>0, <2>1, WriteOfTenants
  <2> QED
    BY <1>0, <2>2, <2>3 DEF TenantsKnown
<1> QED
  BY <1>1, <1>2, <1>3, <1>4, <1>5, <1>6 DEF MemNext, WriteAction

(* The tenants are known along every behaviour.                            *)
LEMMA TenantsInvariant == MemSpec => []TenantsKnown
<1>1. MemInit => TenantsKnown
  BY DEF MemInit, TenantsKnown, OfTenants
<1> QED
  BY <1>1, MemInvariant, TenantsKnownNext, PTL DEF MemSpec

(* The fresh entries of the whole index that are due are the due           *)
(* commissions of all tenants.                                             *)
LEMMA ConsideredIsDue ==
  ASSUME RowsOK(rows, nextID), DueOK(rows, pendingDue), OfTenants(rows), NEW dueAt \in Nat
  PROVE  Considered(Len(pendingDue), dueAt) = DueSet(Tenants, dueAt)
<1> DEFINE D == pendingDue
           Ref(x) == <<rows[x].tenant, rows[x].at, x>>
           A == Considered(Len(D), dueAt)
           B == DueSet(Tenants, dueAt)
<1>1. Elements(D) = DueRefs(rows) /\ DOMAIN D = 1 .. Len(D)
  BY DEF DueOK, DueSorted
<1>2. \A x \in DOMAIN rows : rows[x].at \in Nat /\ rows[x].tenant \in Tenants
  BY RowTyped DEF RowsOK, OfTenants
<1>3. \A y : y \in A <=> \E i \in DOMAIN D : y = D[i] /\ D[i][2] <= dueAt /\ Fresh(D[i])
  BY <1>1 DEF Considered, Wanted
<1>4. \A y : y \in B <=> \E x \in DOMAIN rows :
               /\ rows[x].table = "commission" /\ rows[x].state = "pending"
               /\ rows[x].tenant \in Tenants /\ rows[x].at \in 1 .. dueAt
               /\ y = Ref(x)
  BY DEF DueSet, Commissions
<1>5. \A y : y \in Elements(D) <=> \E x \in DOMAIN rows : IsDue(rows[x]) /\ y = Ref(x)
  BY <1>1 DEF DueRefs
<1> HIDE DEF D, A, B
<1>6. ASSUME NEW i \in DOMAIN D, D[i][2] <= dueAt, Fresh(D[i]) PROVE D[i] \in B
  <2>1. D[i] \in Elements(D)
    BY DEF Elements
  <2>2. PICK x \in DOMAIN rows : IsDue(rows[x]) /\ D[i] = Ref(x)
    BY <1>5, <2>1
  <2>3. D[i][2] = rows[x].at /\ D[i][3] = x
    BY <2>2
  <2>4. rows[x].table = "commission" /\ rows[x].at # 0 /\ rows[x].state = "pending"
    BY <1>6, <2>2, <2>3 DEF IsDue, Fresh
  <2>5. rows[x].at \in 1 .. dueAt /\ rows[x].tenant \in Tenants
    BY <1>2, <1>6, <2>3, <2>4
  <2> HIDE DEF Ref
  <2> QED
    BY <1>4, <2>2, <2>4, <2>5
<1>7. ASSUME NEW x \in DOMAIN rows, rows[x].table = "commission", rows[x].state = "pending",
             rows[x].at \in 1 .. dueAt
      PROVE  \E i \in DOMAIN D : Ref(x) = D[i] /\ D[i][2] <= dueAt /\ Fresh(D[i])
  <2>1. IsDue(rows[x])
    BY <1>7 DEF IsDue, Tracked
  <2>2. PICK i \in DOMAIN D : Ref(x) = D[i]
    BY <1>5, <2>1 DEF Elements
  <2>3. D[i][2] = rows[x].at /\ D[i][3] = x
    BY <2>2
  <2>4. Fresh(D[i]) /\ D[i][2] <= dueAt
    BY <1>7, <2>3 DEF Fresh
  <2> QED
    BY <2>2, <2>4
<1> HIDE DEF Ref
<1>8. \A y : y \in A => y \in B
  BY <1>3, <1>6
<1>9. \A y : y \in B => y \in A
  BY <1>3, <1>4, <1>7
<1>10. A = B
  BY <1>8, <1>9
<1> QED
  BY <1>10 DEF A, B, D

(* Due commissions have different ids.                                     *)
LEMMA DueOrdered ==
  ASSUME RowsOK(rows, nextID), NEW S, NEW dueAt \in Nat
  PROVE  /\ DueSet(S, dueAt) \subseteq DueRef
         /\ \A x, y \in DueSet(S, dueAt) : x # y => WorkLess(x, y) \/ WorkLess(y, x)
<1> DEFINE Ref(x) == <<rows[x].tenant, rows[x].at, x>>
<1>1. \A y \in DueSet(S, dueAt) : \E x \in DOMAIN rows : y = Ref(x)
  BY DEF DueSet, Commissions
<1>2. \A x \in DOMAIN rows : rows[x].tenant \in Nat /\ rows[x].at \in Nat /\ x \in Nat
  BY RowTyped DEF RowsOK
<1>3. \A x \in DOMAIN rows : Ref(x) \in DueRef
  BY <1>2 DEF DueRef
<1>4. ASSUME NEW x \in DOMAIN rows, NEW y \in DOMAIN rows, x # y
      PROVE  WorkLess(Ref(x), Ref(y)) \/ WorkLess(Ref(y), Ref(x))
  BY <1>2, <1>4 DEF WorkLess
<1> HIDE DEF Ref
<1> QED
  BY <1>1, <1>3, <1>4

(* The scan behind Maintain returns the earliest due commissions of the    *)
(* whole installation, for any number of tenants, commissions and any      *)
(* limit: the heap built in place over the first `limit` entries and       *)
(* sifted for every later one loses nothing (reader.go, DueWork).          *)
THEOREM MemDueWorkExact == MemSpec => []DueWorkExact
<1>1. ASSUME MemInv, TenantsKnown PROVE DueWorkExact
  <2>1. /\ RowsOK(rows, nextID) /\ DueOK(rows, pendingDue) /\ DueSorted(pendingDue)
        /\ OfTenants(rows)
    BY <1>1 DEF MemInv, LiveOK, TablesOK, DueOK, TenantsKnown
  <2>2. /\ \A dueAt \in Times : dueAt \in Nat
        /\ \A limit \in 1 .. MaxId : limit \in Nat \ {0}
    BY MemoryAssumption
  <2>3. ASSUME NEW dueAt \in Nat, NEW limit \in Nat \ {0}
        PROVE  FirstOf(DueWork(dueAt, limit), DueSet(Tenants, dueAt), limit, WorkLess)
    <3> DEFINE h == Walk(dueAt, limit)[Len(pendingDue)]
               V == DueSet(Tenants, dueAt)
               E == Elements(h)
               s == DueWork(dueAt, limit)
    <3>1. s = InOrder(E)
      BY <2>1, WalkValue
    <3>2. V = Considered(Len(pendingDue), dueAt)
      BY <2>1, ConsideredIsDue
    <3> HIDE DEF h, s
    <3>3. Keeps(h, V, limit)
      BY <2>1, <3>2, WalkKeeps DEF h
    <3>4. V \subseteq DueRef /\ \A x, y \in V : x # y => WorkLess(x, y) \/ WorkLess(y, x)
      BY <2>1, DueOrdered
    <3>5. IsFiniteSet(V)
      <4> DEFINE D == pendingDue
      <4>1. D \in Seq(DueRef) /\ Distinct(D)
        <5>1. /\ \A i, j \in DOMAIN D : i < j => <<D[i], D[j]>> \in DueOrder
              /\ D \in Seq(DueRef) /\ DOMAIN D = 1 .. Len(D) /\ Len(D) \in Nat
          BY <2>1 DEF DueSorted, SortedBy
        <5>2. \A x \in DueRef : <<x, x>> \notin DueOrder
          BY DueOrderFacts DEF StrictOrder
        <5> HIDE DEF D
        <5> SUFFICES ASSUME NEW i \in DOMAIN D, NEW j \in DOMAIN D, D[i] = D[j] PROVE i = j
          BY <5>1 DEF Distinct
        <5>3. D[i] \in DueRef /\ i \in Nat /\ j \in Nat
          BY <5>1
        <5>4. ASSUME i < j \/ j < i PROVE FALSE
          <6> DEFINE x == D[i]
          <6>1. <<x, x>> \in DueOrder
            BY <5>1, <5>4
          <6>2. x \in DueRef
            BY <5>3
          <6> HIDE DEF x
          <6> QED
            BY <5>2, <6>1, <6>2
        <5> QED
          BY <5>3, <5>4
      <4>2. IsFiniteSet(Elements(D))
        BY <4>1, DistinctCounted
      <4>3. V \in SUBSET Elements(D)
        <5>1. \A j \in 1 .. Len(D) : j \in DOMAIN D
          BY <4>1
        <5> QED
          BY <3>2, <5>1 DEF Considered, Elements
      <4> QED
        BY <4>2, <4>3, FS_Subset
    <3> HIDE DEF V, E
    <3>6. /\ h \in Seq(DueRef) /\ Distinct(h) /\ Len(h) <= limit /\ Len(h) \in Nat
          /\ E \subseteq V
          /\ Len(h) < limit => E = V
          /\ \A x \in V \ E : \A k \in DOMAIN h : ~Worse(h[k], x)
      BY <3>3 DEF Keeps, E
    <3>7. IsFiniteSet(E) /\ Cardinality(E) = Len(h)
      BY <3>6, DistinctCounted DEF E
    <3>8. Cardinality(V) \in Nat /\ Cardinality(E) <= Cardinality(V)
      BY <3>5, <3>6, FS_Subset, FS_CardinalityType
    <3>9. /\ DOMAIN s = 1 .. Cardinality(E) /\ Len(s) = Cardinality(E) /\ Elements(s) = E
          /\ \A i, j \in DOMAIN s : i < j => WorkLess(s[i], s[j])
      BY <3>1, <3>4, <3>6, <3>7, InOrderMeans
    <3>10. Len(s) = Min({limit, Cardinality(V)})
      <4> DEFINE m == Min({limit, Cardinality(V)})
      <4>1. m \in {limit, Cardinality(V)} /\ m <= limit /\ m <= Cardinality(V)
        <5>1. {limit, Cardinality(V)} \subseteq Nat /\ {limit, Cardinality(V)} # {}
          BY <3>8
        <5> QED
          BY <5>1, MinNat
      <4> HIDE DEF m
      <4>2. Len(s) = m
        BY <3>6, <3>7, <3>8, <3>9, <4>1
      <4> QED
        BY <4>2 DEF m
    <3>11. ASSUME NEW x \in V \ Elements(s), NEW i \in DOMAIN s PROVE WorkLess(s[i], x)
      <4>1. x \in V \ E /\ s[i] \in E
        BY <3>9 DEF Elements
      <4>2. PICK k \in DOMAIN h : s[i] = h[k]
        BY <4>1 DEF E, Elements
      <4>3. ~Worse(s[i], x) /\ s[i] # x /\ s[i] \in V
        BY <3>6, <4>1, <4>2
      <4>4. ~WorkLess(x, s[i])
        <5>1. s[i] \in DueRef /\ x \in DueRef
          BY <3>4, <4>1, <4>3
        <5> DEFINE y == s[i]
        <5> HIDE DEF y
        <5>2. y \in DueRef /\ ~Worse(y, x)
          BY <4>3, <5>1 DEF y
        <5>3. ~WorkLess(x, y)
          BY <5>1, <5>2 DEF Worse, WorkLess, DueRef
        <5> QED
          BY <5>3 DEF y
      <4> QED
        BY <3>4, <4>1, <4>3, <4>4
    <3>12. FirstOf(s, V, limit, WorkLess)
      <4>1. Increasing(s, WorkLess)
        BY <3>9 DEF Increasing
      <4> QED
        BY <3>6, <3>9, <3>10, <3>11, <4>1 DEF FirstOf
    <3> QED
      BY <3>12 DEF s, V
  <2> QED
    BY <2>2, <2>3 DEF DueWorkExact
<1> QED
  BY <1>1, MemInvariant, TenantsInvariant, PTL
=============================================================================
