----------------------------- MODULE SumProofs -----------------------------
(***************************************************************************)
(* What a sum over the rows of a table does when a row is added, changed   *)
(* or leaves the table, for tables of any size.  SelfCheck's invariants    *)
(* compare such sums with balances.                                        *)
(*                                                                         *)
(* The sum of the Functions module is a recursion over subsets.  It is     *)
(* reasoned about with minimal counterexamples: a family of subsets of a   *)
(* finite set that is not empty has a minimal member.                      *)
(***************************************************************************)
EXTENDS Integers, FiniteSets, FiniteSetsExt, FiniteSetTheorems, TLAPS

(* The sum of f over S, as the model writes it.                            *)
Sum(f, S) == SumFunctionOnSet(f, S)

(* A non-empty family of subsets of a finite set has a member none of      *)
(* whose proper subsets is in the family.                                  *)
LEMMA MinimalSubset ==
  ASSUME NEW S, IsFiniteSet(S), NEW F \in SUBSET SUBSET S, F # {}
  PROVE  \E m \in F : \A t \in F : t \subseteq m => t = m
<1>1. IsWellFoundedOn(StrictSubsetOrdering(S), SUBSET S)
  BY FS_StrictSubsetOrderingWellFounded, FS_FiniteSubsetsOfFinite
<1>2. PICK m \in F : \A t \in F : ~(<<t, m>> \in StrictSubsetOrdering(S))
  BY <1>1, WFMin
<1> QED
  BY <1>2 DEF StrictSubsetOrdering

-----------------------------------------------------------------------------
(***************************************************************************)
(* The recursion is well defined                                           *)
(***************************************************************************)

Pick(s) == CHOOSE x \in s : TRUE

(* g adds up the values of f over every subset of T.                       *)
AddsUp(f, g, T) ==
  g = [s \in SUBSET T |->
         IF s = {} THEN 0 ELSE f[Pick(s)] + g[s \ {Pick(s)}]]

Adder(f, T) == CHOOSE g : AddsUp(f, g, T)

(* The element the recursion takes out first is one of the set's.          *)
LEMMA PickIn == ASSUME NEW s, s # {} PROVE Pick(s) \in s
  BY DEF Pick

(* The library's sum over S is the adder of S at S.                        *)
LEMMA SumUnfolded ==
  ASSUME NEW f, NEW S
  PROVE  Sum(f, S) = Adder(f, S)[S]
  BY DEF Sum, SumFunctionOnSet, FoldFunctionOnSet, MapThenFoldSet, Adder, AddsUp, Pick

(* What an adder is at one of its subsets.                                 *)
LEMMA AddsUpValue ==
  ASSUME NEW f, NEW g, NEW T, AddsUp(f, g, T), NEW s \in SUBSET T
  PROVE  g[s] = IF s = {} THEN 0 ELSE f[Pick(s)] + g[s \ {Pick(s)}]
<1> DEFINE body(x) == IF x = {} THEN 0 ELSE f[Pick(x)] + g[x \ {Pick(x)}]
<1>1. g = [x \in SUBSET T |-> body(x)]
  BY DEF AddsUp
<1> HIDE DEF body
<1>2. g[s] = body(s)
  BY <1>1
<1> QED
  BY <1>2 DEF body

(* Two adders of the same function agree wherever both are defined, so a   *)
(* partial sum does not depend on the set the recursion started from.      *)
LEMMA AddersAgree ==
  ASSUME NEW f, NEW g, NEW h, NEW A, NEW B, IsFiniteSet(A),
         AddsUp(f, g, A), AddsUp(f, h, B),
         NEW u \in SUBSET A, u \in SUBSET B
  PROVE  g[u] = h[u]
<1> DEFINE F == {s \in SUBSET A : s \in SUBSET B /\ g[s] # h[s]}
<1>1. ASSUME F # {} PROVE FALSE
  <2>1. PICK m \in F : \A t \in F : t \subseteq m => t = m
    <3> HIDE DEF F
    <3>1. F \in SUBSET SUBSET A
      BY DEF F
    <3> QED
      BY <1>1, <3>1, MinimalSubset
  <2>2. m \in SUBSET A /\ m \in SUBSET B /\ g[m] # h[m]
    BY <2>1
  <2>3. /\ g[m] = IF m = {} THEN 0 ELSE f[Pick(m)] + g[m \ {Pick(m)}]
        /\ h[m] = IF m = {} THEN 0 ELSE f[Pick(m)] + h[m \ {Pick(m)}]
    BY <2>2, AddsUpValue
  <2>4. m # {}
    BY <2>2, <2>3
  <2>5. Pick(m) \in m
    BY <2>4, PickIn
  <2>6. m \ {Pick(m)} \notin F
    BY <2>1, <2>5
  <2>7. g[m \ {Pick(m)}] = h[m \ {Pick(m)}]
    BY <2>2, <2>6
  <2> QED
    BY <2>2, <2>3, <2>4, <2>7
<1> QED
  BY <1>1

(* Every finite set has an adder: a least set without one would have one   *)
(* built from the adders of its proper subsets.                            *)
LEMMA AdderExists ==
  ASSUME NEW f, NEW S, IsFiniteSet(S)
  PROVE  AddsUp(f, Adder(f, S), S)
<1> DEFINE F == {T \in SUBSET S : ~AddsUp(f, Adder(f, T), T)}
<1>1. ASSUME F # {} PROVE FALSE
  <2>1. PICK m \in F : \A t \in F : t \subseteq m => t = m
    <3> HIDE DEF F
    <3>1. F \in SUBSET SUBSET S
      BY DEF F
    <3> QED
      BY <1>1, <3>1, MinimalSubset
  <2>2. m \in SUBSET S /\ ~AddsUp(f, Adder(f, m), m)
    BY <2>1
  <2>3. ASSUME NEW t \in SUBSET m, t # m
        PROVE  AddsUp(f, Adder(f, t), t) /\ IsFiniteSet(t)
    BY <2>1, <2>2, <2>3, FS_Subset
  <2> DEFINE rest(s) == s \ {Pick(s)}
             val(s) == IF s = {} THEN 0 ELSE f[Pick(s)] + Adder(f, rest(s))[rest(s)]
             g == [s \in SUBSET m |-> val(s)]
  <2>4. ASSUME NEW t \in SUBSET m, t # m
        PROVE  Adder(f, t)[t] = val(t)
    <3>1. Adder(f, t)[t] = IF t = {} THEN 0 ELSE f[Pick(t)] + Adder(f, t)[rest(t)]
      BY <2>3, <2>4, AddsUpValue
    <3>2. CASE t = {}
      BY <3>1, <3>2
    <3>3. CASE t # {}
      <4>1. Pick(t) \in t
        BY <3>3, PickIn
      <4>2. rest(t) \in SUBSET m /\ rest(t) # m /\ rest(t) \in SUBSET t
        BY <4>1
      <4>3. Adder(f, t)[rest(t)] = Adder(f, rest(t))[rest(t)]
        BY <2>3, <2>4, <4>2, AddersAgree
      <4> QED
        BY <3>1, <3>3, <4>3
    <3> QED
      BY <3>2, <3>3
  <2>5. ASSUME NEW s \in SUBSET m
        PROVE  val(s) = IF s = {} THEN 0 ELSE f[Pick(s)] + g[rest(s)]
    <3>1. CASE s = {}
      BY <3>1
    <3>2. CASE s # {}
      <4>1. Pick(s) \in s
        BY <3>2, PickIn
      <4>2. rest(s) \in SUBSET m /\ rest(s) # m
        BY <4>1
      <4>3. g[rest(s)] = Adder(f, rest(s))[rest(s)]
        <5>1. g[rest(s)] = val(rest(s))
          <6> HIDE DEF val, rest
          <6> QED
            BY <4>2
        <5> QED
          BY <2>4, <4>2, <5>1
      <4> QED
        BY <3>2, <4>3
    <3> QED
      BY <3>1, <3>2
  <2>6. AddsUp(f, g, m)
    <3>1. \A s \in SUBSET m : val(s) = IF s = {} THEN 0 ELSE f[Pick(s)] + g[rest(s)]
      BY <2>5
    <3>2. g = [s \in SUBSET m |-> IF s = {} THEN 0 ELSE f[Pick(s)] + g[rest(s)]]
      <4> HIDE DEF val
      <4> QED
      BY <3>1
    <3> HIDE DEF g
    <3> QED
      BY <3>2 DEF AddsUp
  <2>7. AddsUp(f, Adder(f, m), m)
    <3> HIDE DEF g
    <3> QED
      BY <2>6 DEF Adder
  <2> QED
    BY <2>2, <2>7
<1> QED
  BY <1>1, FS_Subset

(* The recursion equation of the sum itself.                               *)
LEMMA SumUnfolds ==
  ASSUME NEW f, NEW S, IsFiniteSet(S)
  PROVE  Sum(f, S) = IF S = {} THEN 0 ELSE f[Pick(S)] + Sum(f, S \ {Pick(S)})
<1>1. Sum(f, S) = IF S = {} THEN 0 ELSE f[Pick(S)] + Adder(f, S)[S \ {Pick(S)}]
  BY AdderExists, AddsUpValue, SumUnfolded
<1>2. IsFiniteSet(S \ {Pick(S)})
  BY FS_Subset
<1>3. Adder(f, S)[S \ {Pick(S)}] = Sum(f, S \ {Pick(S)})
  BY <1>2, AdderExists, AddersAgree, SumUnfolded
<1> QED
  BY <1>1, <1>3

-----------------------------------------------------------------------------
(***************************************************************************)
(* What the proofs about the components use                                *)
(***************************************************************************)

(* Nothing adds up to nothing.                                             *)
LEMMA SumEmpty == ASSUME NEW f PROVE Sum(f, {}) = 0
  BY SumUnfolds, FS_EmptySet

(* A sum of whole numbers is a whole number.                               *)
LEMMA SumType ==
  ASSUME NEW f, NEW S, IsFiniteSet(S), \A x \in S : f[x] \in Int
  PROVE  Sum(f, S) \in Int
<1> DEFINE F == {T \in SUBSET S : Sum(f, T) \notin Int}
<1>1. ASSUME F # {} PROVE FALSE
  <2>1. PICK m \in F : \A t \in F : t \subseteq m => t = m
    <3> HIDE DEF F
    <3>1. F \in SUBSET SUBSET S
      BY DEF F
    <3> QED
      BY <1>1, <3>1, MinimalSubset
  <2>2. m \in SUBSET S /\ Sum(f, m) \notin Int /\ IsFiniteSet(m)
    BY <2>1, FS_Subset
  <2>3. m # {}
    BY <2>2, SumEmpty
  <2>4. Pick(m) \in m
    BY <2>3, PickIn
  <2>5. Sum(f, m \ {Pick(m)}) \in Int
    BY <2>1, <2>2, <2>4
  <2> QED
    BY <2>2, <2>3, <2>4, <2>5, SumUnfolds
<1> QED
  BY <1>1

(* Any element may be taken out first, not only the one the recursion      *)
(* chooses.                                                                *)
LEMMA SumRemove ==
  ASSUME NEW f, NEW S, IsFiniteSet(S), \A y \in S : f[y] \in Int, NEW x \in S
  PROVE  Sum(f, S) = f[x] + Sum(f, S \ {x})
<1> DEFINE F == {T \in SUBSET S : \E y \in T : Sum(f, T) # f[y] + Sum(f, T \ {y})}
<1>1. ASSUME F # {} PROVE FALSE
  <2>1. PICK m \in F : \A t \in F : t \subseteq m => t = m
    <3> HIDE DEF F
    <3>1. F \in SUBSET SUBSET S
      BY DEF F
    <3> QED
      BY <1>1, <3>1, MinimalSubset
  <2>2. m \in SUBSET S /\ IsFiniteSet(m)
    BY <2>1, FS_Subset
  <2>3. PICK y \in m : Sum(f, m) # f[y] + Sum(f, m \ {y})
    BY <2>1
  <2> DEFINE p == Pick(m)
             both == m \ {y, p}
  <2>4. p \in m /\ Sum(f, m) = f[p] + Sum(f, m \ {p})
    BY <2>2, <2>3, PickIn, SumUnfolds
  <2>5. p # y
    BY <2>3, <2>4
  <2> HIDE DEF p
  <2>6. Sum(f, m \ {p}) = f[y] + Sum(f, both)
    <3>1. m \ {p} \notin F /\ m \ {p} \in SUBSET S
      BY <2>1, <2>2, <2>4
    <3>2. y \in m \ {p} /\ (m \ {p}) \ {y} = both
      BY <2>3, <2>5
    <3> QED
      BY <3>1, <3>2
  <2>7. Sum(f, m \ {y}) = f[p] + Sum(f, both)
    <3>1. m \ {y} \notin F /\ m \ {y} \in SUBSET S
      BY <2>1, <2>2, <2>3
    <3>2. p \in m \ {y} /\ (m \ {y}) \ {p} = both
      BY <2>4, <2>5
    <3> QED
      BY <3>1, <3>2
  <2>8. f[p] \in Int /\ f[y] \in Int /\ Sum(f, both) \in Int
    <3>1. IsFiniteSet(both)
      BY <2>2, FS_Subset
    <3>2. Sum(f, both) \in Int
      BY <2>2, <3>1, SumType
    <3> QED
      BY <2>2, <2>3, <2>4, <3>2
  <2> HIDE DEF both
  <2> QED
    BY <2>3, <2>4, <2>6, <2>7, <2>8
<1> QED
  BY <1>1

(* A sum depends on the values at its elements only.                       *)
LEMMA SumSame ==
  ASSUME NEW f, NEW g, NEW S, IsFiniteSet(S), \A x \in S : f[x] = g[x]
  PROVE  Sum(f, S) = Sum(g, S)
<1> DEFINE F == {T \in SUBSET S : Sum(f, T) # Sum(g, T)}
<1>1. ASSUME F # {} PROVE FALSE
  <2>1. PICK m \in F : \A t \in F : t \subseteq m => t = m
    <3> HIDE DEF F
    <3>1. F \in SUBSET SUBSET S
      BY DEF F
    <3> QED
      BY <1>1, <3>1, MinimalSubset
  <2>2. m \in SUBSET S /\ Sum(f, m) # Sum(g, m) /\ IsFiniteSet(m)
    BY <2>1, FS_Subset
  <2>3. m # {}
    BY <2>2, SumEmpty
  <2>4. Pick(m) \in m
    BY <2>3, PickIn
  <2>5. Sum(f, m \ {Pick(m)}) = Sum(g, m \ {Pick(m)})
    BY <2>1, <2>2, <2>4
  <2> QED
    BY <2>2, <2>3, <2>4, <2>5, SumUnfolds
<1> QED
  BY <1>1

(* One row x changes its value, joins the rows added up or leaves them:    *)
(* the sum changes by what that row contributed before and after.          *)
LEMMA SumStep ==
  ASSUME NEW f, NEW g, NEW S, NEW T, IsFiniteSet(S), NEW x, S \ {x} = T \ {x},
         \A y \in S : f[y] \in Int,
         \A y \in T : g[y] \in Int,
         \A y \in S \ {x} : f[y] = g[y]
  PROVE  SumFunctionOnSet(g, T) =
           SumFunctionOnSet(f, S) - (IF x \in S THEN f[x] ELSE 0)
                                  + (IF x \in T THEN g[x] ELSE 0)
<1> DEFINE R == S \ {x}
<1>1. IsFiniteSet(R) /\ IsFiniteSet(T) /\ R = T \ {x}
  <2>1. IsFiniteSet(R) /\ IsFiniteSet(R \cup {x})
    BY FS_RemoveElement, FS_AddElement
  <2>2. T \subseteq R \cup {x}
    OBVIOUS
  <2> QED
    BY <2>1, <2>2, FS_Subset
<1>2. Sum(f, R) = Sum(g, R) /\ Sum(f, R) \in Int
  BY <1>1, SumSame, SumType
<1>3. Sum(f, S) = Sum(f, R) + (IF x \in S THEN f[x] ELSE 0)
  <2>1. CASE x \in S
    <3>1. Sum(f, S) = f[x] + Sum(f, R)
      BY <2>1, SumRemove
    <3> QED
      BY <1>2, <2>1, <3>1
  <2>2. CASE x \notin S
    <3>1. Sum(f, S) = Sum(f, R)
      <4>1. R = S
        BY <2>2
      <4> HIDE DEF R
      <4> QED
        BY <4>1
    <3> QED
      BY <1>2, <2>2, <3>1
  <2> QED
    BY <2>1, <2>2
<1>4. Sum(g, T) = Sum(g, R) + (IF x \in T THEN g[x] ELSE 0)
  <2>1. CASE x \in T
    <3>1. Sum(g, T) = g[x] + Sum(g, R)
      BY <1>1, <2>1, SumRemove
    <3> QED
      BY <1>2, <2>1, <3>1
  <2>2. CASE x \notin T
    <3>1. Sum(g, T) = Sum(g, R)
      <4>1. R = T
        BY <1>1, <2>2
      <4> HIDE DEF R
      <4> QED
        BY <4>1
    <3> QED
      BY <1>2, <2>2, <3>1
  <2> QED
    BY <2>1, <2>2
<1>5. (x \in S => f[x] \in Int) /\ (x \in T => g[x] \in Int)
  OBVIOUS
<1> QED
  BY <1>2, <1>3, <1>4, <1>5 DEF Sum

(* The same values over the same rows.                                     *)
LEMMA SumKept ==
  ASSUME NEW f, NEW g, NEW S, IsFiniteSet(S), \A x \in S : f[x] = g[x]
  PROVE  SumFunctionOnSet(g, S) = SumFunctionOnSet(f, S)
  BY SumSame DEF Sum

(* No rows add up to zero.                                                 *)
LEMMA SumOfNone == ASSUME NEW f PROVE SumFunctionOnSet(f, {}) = 0
  BY SumEmpty DEF Sum

(* A sum of whole numbers is a whole number.                               *)
LEMMA SumIsInt ==
  ASSUME NEW f, NEW S, IsFiniteSet(S), \A x \in S : f[x] \in Int
  PROVE  SumFunctionOnSet(f, S) \in Int
  BY SumType DEF Sum

(* Where every value of f is at most a/b of the value of g, so is the sum. *)
LEMMA SumScaled ==
  ASSUME NEW f, NEW g, NEW S, IsFiniteSet(S), NEW a \in Int, NEW b \in Int,
         \A x \in S : f[x] \in Int /\ g[x] \in Int /\ b * f[x] <= a * g[x]
  PROVE  b * SumFunctionOnSet(f, S) <= a * SumFunctionOnSet(g, S)
<1> DEFINE F == {T \in SUBSET S : ~(b * Sum(f, T) <= a * Sum(g, T))}
<1>1. ASSUME F # {} PROVE FALSE
  <2>1. PICK m \in F : \A t \in F : t \subseteq m => t = m
    <3> HIDE DEF F
    <3>1. F \in SUBSET SUBSET S
      BY DEF F
    <3> QED
      BY <1>1, <3>1, MinimalSubset
  <2>2. m \in SUBSET S /\ ~(b * Sum(f, m) <= a * Sum(g, m)) /\ IsFiniteSet(m)
    BY <2>1, FS_Subset
  <2>3. m # {}
    BY <2>2, SumEmpty
  <2> DEFINE p == Pick(m)
             rest == m \ {p}
             u == Sum(f, rest)
             v == Sum(g, rest)
  <2>4. p \in m
    BY <2>3, PickIn
  <2>5. Sum(f, m) = f[p] + u /\ Sum(g, m) = g[p] + v
    BY <2>2, <2>3, SumUnfolds
  <2>6. rest \in SUBSET S /\ rest \notin F /\ IsFiniteSet(rest)
    BY <2>1, <2>2, <2>4, FS_Subset
  <2>7. b * u <= a * v
    BY <2>6
  <2>8. u \in Int /\ v \in Int
    <3> HIDE DEF rest
    <3> QED
      BY <2>6, SumType
  <2>9. f[p] \in Int /\ g[p] \in Int /\ b * f[p] <= a * g[p]
    BY <2>2, <2>4
  <2> HIDE DEF u, v, p, rest, F
  <2>10. b * (f[p] + u) = b * f[p] + b * u /\ a * (g[p] + v) = a * g[p] + a * v
    BY <2>8, <2>9
  <2>11. b * f[p] \in Int /\ b * u \in Int /\ a * g[p] \in Int /\ a * v \in Int
    BY <2>8, <2>9
  <2> QED
    BY <2>2, <2>5, <2>7, <2>9, <2>10, <2>11
<1> QED
  BY <1>1 DEF Sum

(* What adds nothing can be left out.                                      *)
LEMMA SumSupport ==
  ASSUME NEW f, NEW S, IsFiniteSet(S), NEW T, T \subseteq S,
         \A x \in S : f[x] \in Int,
         \A x \in S \ T : f[x] = 0
  PROVE  SumFunctionOnSet(f, S) = SumFunctionOnSet(f, T)
<1> DEFINE F == {D \in SUBSET (S \ T) : Sum(f, T \cup D) # Sum(f, T)}
<1>0. IsFiniteSet(S \ T)
  BY FS_Difference
<1>1. ASSUME F # {} PROVE FALSE
  <2>1. PICK m \in F : \A t \in F : t \subseteq m => t = m
    <3> HIDE DEF F
    <3>1. F \in SUBSET SUBSET (S \ T)
      BY DEF F
    <3> QED
      BY <1>0, <1>1, <3>1, MinimalSubset
  <2>2. m \in SUBSET (S \ T) /\ Sum(f, T \cup m) # Sum(f, T)
    BY <2>1
  <2>3. m # {}
    <3>1. T \cup {} = T
      OBVIOUS
    <3> QED
      BY <2>2, <3>1
  <2>4. PICK p \in m : TRUE
    BY <2>3
  <2> DEFINE rest == m \ {p}
             U == T \cup m
  <2>5. Sum(f, T \cup rest) = Sum(f, T)
    <3>1. rest \in SUBSET (S \ T) /\ rest \notin F
      <4> HIDE DEF F
      <4> QED
        BY <2>1, <2>2, <2>4
    <3> HIDE DEF rest
    <3> QED
      BY <3>1
  <2>6. U \ {p} = T \cup rest /\ p \in U /\ IsFiniteSet(U) /\ \A x \in U : f[x] \in Int
    <3>1. U \subseteq S
      BY <2>2
    <3>2. U \ {p} = T \cup rest /\ p \in U
      BY <2>2, <2>4
    <3> QED
      BY <3>1, <3>2, FS_Subset
  <2>7. Sum(f, U) = f[p] + Sum(f, U \ {p})
    <3> HIDE DEF U
    <3> QED
      BY <2>6, SumRemove
  <2>8. Sum(f, T) \in Int /\ f[p] = 0
    <3>1. IsFiniteSet(T)
      BY FS_Subset
    <3>2. \A x \in T : f[x] \in Int
      OBVIOUS
    <3> QED
      BY <2>2, <2>4, <3>1, <3>2, SumType
  <2> QED
    <3> DEFINE a == Sum(f, T)
    <3>1. Sum(f, U) = 0 + a
      BY <2>5, <2>6, <2>7, <2>8
    <3>2. a \in Int /\ Sum(f, U) # a
      BY <2>2, <2>8
    <3> HIDE DEF a, U
    <3> QED
      BY <3>1, <3>2
<1>2. S \ T \notin F /\ S = T \cup (S \ T)
  BY <1>1
<1> QED
  BY <1>2 DEF Sum

(* The difference of two sums is the sum of the differences.               *)
LEMMA SumDifference ==
  ASSUME NEW f, NEW g, NEW h, NEW S, IsFiniteSet(S),
         \A x \in S : f[x] \in Int /\ g[x] \in Int /\ h[x] = g[x] - f[x]
  PROVE  SumFunctionOnSet(h, S) = SumFunctionOnSet(g, S) - SumFunctionOnSet(f, S)
<1> DEFINE F == {T \in SUBSET S : Sum(h, T) # Sum(g, T) - Sum(f, T)}
<1>1. ASSUME F # {} PROVE FALSE
  <2>1. PICK m \in F : \A t \in F : t \subseteq m => t = m
    <3> HIDE DEF F
    <3>1. F \in SUBSET SUBSET S
      BY DEF F
    <3> QED
      BY <1>1, <3>1, MinimalSubset
  <2>2. m \in SUBSET S /\ Sum(h, m) # Sum(g, m) - Sum(f, m) /\ IsFiniteSet(m)
    BY <2>1, FS_Subset
  <2>3. m # {}
    BY <2>2, SumEmpty
  <2> DEFINE p == Pick(m)
             rest == m \ {p}
             u == Sum(f, rest)
             v == Sum(g, rest)
             w == Sum(h, rest)
  <2>4. p \in m
    BY <2>3, PickIn
  <2>5. Sum(f, m) = f[p] + u /\ Sum(g, m) = g[p] + v /\ Sum(h, m) = h[p] + w
    BY <2>2, <2>3, SumUnfolds
  <2>6. rest \in SUBSET S /\ rest \notin F /\ IsFiniteSet(rest)
    BY <2>1, <2>2, <2>4, FS_Subset
  <2>7. w = v - u
    <3> HIDE DEF rest
    <3> QED
      BY <2>6
  <2>8. u \in Int /\ v \in Int
    <3> HIDE DEF rest
    <3> QED
      BY <2>6, SumType
  <2>9. f[p] \in Int /\ g[p] \in Int /\ h[p] = g[p] - f[p]
    BY <2>2, <2>4
  <2> HIDE DEF u, v, w, p, rest, F
  <2> QED
    BY <2>2, <2>5, <2>7, <2>8, <2>9
<1> QED
  BY <1>1 DEF Sum

(* A sum of values none of which is negative is at least each of them.     *)
LEMMA SumAtLeast ==
  ASSUME NEW f, NEW S, IsFiniteSet(S), \A x \in S : f[x] \in Int /\ f[x] >= 0
  PROVE  /\ SumFunctionOnSet(f, S) \in Nat
         /\ \A x \in S : SumFunctionOnSet(f, S) >= f[x]
<1>1. ASSUME NEW T, T \subseteq S PROVE SumFunctionOnSet(f, T) \in Int /\ SumFunctionOnSet(f, T) >= 0
  <2> DEFINE z == [x \in T |-> 0]
             a == SumFunctionOnSet(f, T)
             b == SumFunctionOnSet(z, T)
  <2>1. IsFiniteSet(T)
    BY <1>1, FS_Subset
  <2> DEFINE one == 1
  <2>2. one \in Int /\ \A x \in T : z[x] \in Int /\ f[x] \in Int /\ one * z[x] <= one * f[x]
    BY <1>1
  <2>3. \A x \in T \ {} : z[x] = 0
    OBVIOUS
  <2> HIDE DEF z
  <2>4. b = 0
    BY <2>1, <2>2, <2>3, SumSupport, SumOfNone
  <2>5. one * b <= one * a
    <3> HIDE DEF one
    <3> QED
      BY <2>1, <2>2, SumScaled
  <2>6. a \in Int
    BY <2>1, <2>2, SumIsInt
  <2> HIDE DEF a, b
  <2> QED
    BY <2>4, <2>5, <2>6 DEF a
<1>2. ASSUME NEW x \in S PROVE SumFunctionOnSet(f, S) >= f[x]
  <2> DEFINE T == S \ {x}
  <2>1. SumFunctionOnSet(f, S) = f[x] + SumFunctionOnSet(f, T)
    BY SumRemove DEF Sum
  <2>2. T \subseteq S
    OBVIOUS
  <2> HIDE DEF T
  <2>3. SumFunctionOnSet(f, T) \in Int /\ SumFunctionOnSet(f, T) >= 0
    BY <1>1, <2>2
  <2> QED
    BY <2>1, <2>3
<1> QED
  BY <1>1, <1>2

-----------------------------------------------------------------------------
(***************************************************************************)
(* The largest and the smallest of a finite set                            *)
(***************************************************************************)

(* A finite set that is not empty has a greatest element in a total order. *)
LEMMA GreatestExists ==
  ASSUME NEW S, IsFiniteSet(S), S # {}, NEW R,
         \A x, y \in S : <<x, y>> \in R \/ <<y, x>> \in R,
         \A x, y, z \in S : <<x, y>> \in R /\ <<y, z>> \in R => <<x, z>> \in R
  PROVE  \E x \in S : \A y \in S : <<y, x>> \in R
<1> DEFINE F == {T \in SUBSET S : T # {} /\ ~ \E x \in T : \A y \in T : <<y, x>> \in R}
<1>1. ASSUME F # {} PROVE FALSE
  <2>1. PICK m \in F : \A t \in F : t \subseteq m => t = m
    <3> HIDE DEF F
    <3>1. F \in SUBSET SUBSET S
      BY DEF F
    <3> QED
      BY <1>1, <3>1, MinimalSubset
  <2>2. m \in SUBSET S /\ m # {} /\ ~ \E x \in m : \A y \in m : <<y, x>> \in R
    BY <2>1
  <2>3. PICK p \in m : TRUE
    BY <2>2
  <2>4. m \ {p} = {} \/ \E x \in m \ {p} : \A y \in m \ {p} : <<y, x>> \in R
    <3>1. m \ {p} \notin F
      <4> HIDE DEF F
      <4> QED
        BY <2>1, <2>3
    <3>2. m \ {p} \in SUBSET S
      BY <2>2
    <3> QED
      BY <3>1, <3>2
  <2>5. CASE m \ {p} = {}
    BY <2>2, <2>3, <2>5
  <2>6. CASE \E x \in m \ {p} : \A y \in m \ {p} : <<y, x>> \in R
    <3>1. PICK x \in m \ {p} : \A y \in m \ {p} : <<y, x>> \in R
      BY <2>6
    <3>2. CASE <<p, x>> \in R
      BY <2>2, <3>1, <3>2
    <3>3. CASE <<x, p>> \in R
      <4>1. \A y \in m : <<y, p>> \in R
        BY <2>2, <2>3, <3>1, <3>3
      <4> QED
        BY <2>2, <2>3, <4>1
    <3> QED
      BY <2>2, <2>3, <3>1, <3>2, <3>3
  <2> QED
    BY <2>4, <2>5, <2>6
<1> QED
  BY <1>1

(* The largest of finitely many numbers.                                   *)
LEMMA MaxIn ==
  ASSUME NEW S, S \subseteq Int, IsFiniteSet(S), S # {}
  PROVE  Max(S) \in S /\ \A y \in S : Max(S) >= y
<1> DEFINE R == {e \in S \X S : e[1] <= e[2]}
<1>1. \A x, y \in S : <<x, y>> \in R <=> x <= y
  OBVIOUS
<1>2. /\ \A x, y \in S : <<x, y>> \in R \/ <<y, x>> \in R
      /\ \A x, y, z \in S : <<x, y>> \in R /\ <<y, z>> \in R => <<x, z>> \in R
  <2> HIDE DEF R
  <2> QED
    BY <1>1
<1>3. \E x \in S : \A y \in S : <<y, x>> \in R
  <2> HIDE DEF R
  <2> QED
    BY <1>2, GreatestExists
<1>4. \E x \in S : \A y \in S : x >= y
  <2> HIDE DEF R
  <2> QED
    BY <1>1, <1>3
<1> QED
  BY <1>4 DEF Max

(* A finite set of integers has its minimum.                               *)
LEMMA MinIn ==
  ASSUME NEW S, S \subseteq Int, IsFiniteSet(S), S # {}
  PROVE  Min(S) \in S /\ \A y \in S : Min(S) <= y
<1> DEFINE R == {p \in S \X S : p[1] >= p[2]}
<1>1. \A x, y \in S : <<x, y>> \in R <=> x >= y
  OBVIOUS
<1> HIDE DEF R
<1>0. \A x, y \in S : x >= y \/ y >= x
  OBVIOUS
<1>2. \A x, y \in S : <<x, y>> \in R \/ <<y, x>> \in R
  BY <1>0, <1>1
<1>3. \A x, y, z \in S : <<x, y>> \in R /\ <<y, z>> \in R => <<x, z>> \in R
  BY <1>1
<1>4. \E x \in S : \A y \in S : <<y, x>> \in R
  BY <1>2, <1>3, GreatestExists
<1>5. \E x \in S : \A y \in S : x <= y
  BY <1>1, <1>4
<1> QED
  BY <1>5 DEF Min

(* The values of a function on a finite set are finitely many.             *)
LEMMA FiniteImage ==
  ASSUME NEW S, IsFiniteSet(S), NEW f, NEW T, \A y \in T : \E x \in S : y = f[x]
  PROVE  IsFiniteSet(T)
<1> DEFINE U == {f[x] : x \in S}
           g == [x \in S |-> f[x]]
<1>1. g \in Surjection(S, U)
  BY DEF Surjection
<1>2. IsFiniteSet(U)
  <2> HIDE DEF U, g
  <2> QED
    BY <1>1, FS_Surjection
<1>3. T \in SUBSET U
  OBVIOUS
<1> HIDE DEF U
<1> QED
  BY <1>2, <1>3, FS_Subset

(* A sum over another index: m names every element anew.                   *)
LEMMA SumRenamed ==
  ASSUME NEW f, NEW g, NEW m, NEW S, IsFiniteSet(S),
         \A x \in S : g[x] \in Int /\ f[m[x]] = g[x],
         \A x, y \in S : m[x] = m[y] => x = y
  PROVE  SumFunctionOnSet(f, {m[x] : x \in S}) = SumFunctionOnSet(g, S)
<1> DEFINE I(T) == {m[x] : x \in T}
           F == {T \in SUBSET S : Sum(f, I(T)) # Sum(g, T)}
<1>1. ASSUME F # {} PROVE FALSE
  <2>1. PICK t \in F : \A u \in F : u \subseteq t => u = t
    <3> HIDE DEF F
    <3>1. F \in SUBSET SUBSET S
      BY DEF F
    <3> QED
      BY <1>1, <3>1, MinimalSubset
  <2>2. t \in SUBSET S /\ Sum(f, I(t)) # Sum(g, t) /\ IsFiniteSet(t)
    BY <2>1, FS_Subset
  <2>3. t # {}
    <3>1. ASSUME t = {} PROVE FALSE
      <4>1. I(t) = {}
        BY <3>1
      <4> QED
        BY <2>2, <3>1, <4>1, SumEmpty
    <3> QED
      BY <3>1
  <2>4. PICK a \in t : TRUE
    BY <2>3
  <2> DEFINE u == t \ {a}
  <2>5. Sum(f, I(u)) = Sum(g, u)
    <3>1. u \in SUBSET S /\ u \subseteq t /\ u # t
      BY <2>2, <2>4
    <3> QED
      BY <2>1, <3>1
  <2>6. Sum(g, t) = g[a] + Sum(g, u)
    BY <2>2, <2>4, SumRemove
  <2> DEFINE J == I(t)
             b == m[a]
  <2>7. IsFiniteSet(J) /\ b \in J /\ J \ {b} = I(u) /\ \A y \in J : f[y] \in Int
    <3>1. IsFiniteSet(J)
      <4>1. \A y \in J : \E x \in t : y = m[x]
        OBVIOUS
      <4> HIDE DEF J
      <4> QED
        BY <2>2, <4>1, FiniteImage
    <3>2. J \ {b} = I(u)
      BY <2>2, <2>4
    <3>3. \A y \in J : f[y] \in Int
      BY <2>2
    <3> QED
      BY <2>4, <3>1, <3>2, <3>3
  <2>8. f[b] = g[a]
    BY <2>2, <2>4
  <2> HIDE DEF J, b, I, u
  <2>9. Sum(f, J) = f[b] + Sum(f, J \ {b})
    BY <2>7, SumRemove
  <2> QED
    BY <2>2, <2>5, <2>6, <2>7, <2>8, <2>9 DEF J
<1>2. F = {}
  BY <1>1
<1>3. S \in SUBSET S
  OBVIOUS
<1> QED
  BY <1>2, <1>3 DEF Sum

(* A sum over one element.                                                 *)
LEMMA SumOfOne ==
  ASSUME NEW f, NEW x, f[x] \in Int
  PROVE  SumFunctionOnSet(f, {x}) = f[x]
<1>1. IsFiniteSet({}) /\ {} \ {x} = {x} \ {x} /\ x \notin {} /\ x \in {x}
  BY FS_EmptySet
<1>2. \A y \in {x} : f[y] \in Int
  OBVIOUS
<1> DEFINE e == {}
           t == {x}
<1>3. \A y \in e : f[y] \in Int
  OBVIOUS
<1>4. \A y \in e \ {x} : f[y] = f[y]
  OBVIOUS
<1> HIDE DEF e, t
<1>5. SumFunctionOnSet(f, t) =
        SumFunctionOnSet(f, e) - (IF x \in e THEN f[x] ELSE 0) + (IF x \in t THEN f[x] ELSE 0)
  BY <1>1, <1>2, <1>3, <1>4, SumStep DEF e, t
<1> QED
  BY <1>1, <1>5, SumOfNone DEF e, t

=============================================================================
