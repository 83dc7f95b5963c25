-------------------------- MODULE RelationsProofs --------------------------
(***************************************************************************)
(* The agents form a forest whatever operators do, an order stays paid     *)
(* along it, and a customer has one owner at a time: for every set of      *)
(* users and orders, every expiry rule and every level rule.               *)
(***************************************************************************)
EXTENDS Relations, TLAPS

-----------------------------------------------------------------------------
(***************************************************************************)
(* Types                                                                   *)
(***************************************************************************)

(* The type invariant, with the domains of the tables.                     *)
TablesOK ==
  /\ agents \in [Users -> Agent \cup {Unregistered}]
  /\ bindings \in [Users -> Binding \cup {Unbound}]
  /\ history \in [Users -> SUBSET Binding]
  /\ paidAt \in [Orders -> 0 .. MaxTime \cup {Unpaid}]
  /\ accruals \in [Orders -> Accrual \cup {NoAccrual}]
  /\ clock \in 0 .. MaxTime

(* What a chain is made of.                                                *)
LEMMA ChainType ==
  ASSUME NEW u \in Users, NEW n \in Nat, NEW w \in ChainsFrom(u, n)
  PROVE  /\ w \in Seq(Users) /\ Len(w) \in 1 .. n /\ DOMAIN w = 1 .. Len(w)
         /\ w \in [1 .. Len(w) -> Users]
         /\ w[1] = u /\ IsChain(w)
<1>1. PICK k \in 1 .. n : w \in [1 .. k -> Users]
  BY DEF ChainsFrom
<1>2. k \in Nat /\ w \in Seq(Users) /\ Len(w) = k
  BY <1>1
<1> QED
  BY <1>1, <1>2 DEF ChainsFrom

(* An agent with a status operators give is registered.                    *)
LEMMA RegisteredIs ==
  ASSUME TablesOK, NEW u \in Users
  PROVE  /\ Registered(u) <=> agents[u] \in Agent
         /\ agents[u].status = "active" => Registered(u)
         /\ agents[u].parent \in Users \cup {NoUser}
<1>1. Unregistered.status = "none" /\ Unregistered.parent = NoUser
  BY DEF Unregistered
<1>2. Unregistered \notin Agent
  BY <1>1 DEF Agent, AgentStatuses
<1>3. agents[u] \in Agent \cup {Unregistered}
  BY DEF TablesOK
<1> QED
  BY <1>1, <1>2, <1>3 DEF Registered, Agent

(* How an agent row may change.                                            *)
LEMMA BindAgentRows ==
  ASSUME TablesOK, NEW u \in Users, NEW parent \in Users \cup {NoUser}, NEW status \in Statuses,
         BindAgent(u, parent, status)
  PROVE  /\ agents' \in [Users -> Agent \cup {Unregistered}]
         /\ \A x \in Users \ {u} : agents'[x] = agents[x]
         /\ agents'[u] \in Agent
         /\ agents'[u].parent = parent
         /\ Registered(u) => /\ agents[u].parent = parent
                             /\ agents'[u].depth = agents[u].depth
         /\ ~Registered(u) => \E d \in ResolveDepth(u, parent) : agents'[u].depth = d
<1>1. status \in AgentStatuses /\ agents \in [Users -> Agent \cup {Unregistered}]
  BY RelationsAssumption DEF TablesOK
<1>2. CASE ~Registered(u)
  <2>1. PICK d \in ResolveDepth(u, parent) :
          agents' = [agents EXCEPT ![u] = [parent |-> parent, depth |-> d, status |-> status]]
    BY <1>2 DEF BindAgent
  <2>2. d \in 1 .. MaxLevels
    <3>1. CASE parent = NoUser
      BY <2>1, <3>1 DEF ResolveDepth, MaxLevels
    <3>2. CASE parent # NoUser
      <4>1. MaxLevels - 1 = 2 /\ 2 \in Nat
        BY DEF MaxLevels
      <4>2. PICK w \in ChainsFrom(parent, 2) : d = Len(w) + 1
        BY <2>1, <3>2, <4>1 DEF ResolveDepth
      <4>3. Len(w) \in 1 .. 2
        BY <3>2, <4>1, <4>2, ChainType
      <4> DEFINE n == Len(w)
      <4>4. d = n + 1 /\ n \in 1 .. 2
        BY <4>2, <4>3
      <4> HIDE DEF n
      <4> QED
        BY <4>4 DEF MaxLevels
    <3> QED
      BY <3>1, <3>2
  <2>3. [parent |-> parent, depth |-> d, status |-> status] \in Agent
    BY <1>1, <2>2 DEF Agent
  <2> QED
    BY <1>1, <1>2, <2>1, <2>3
<1>3. CASE Registered(u)
  <2>1. agents[u].parent = parent /\ agents' = [agents EXCEPT ![u].status = status]
    BY <1>3 DEF BindAgent
  <2>2. agents[u] \in Agent
    BY <1>3, RegisteredIs
  <2> DEFINE r == [agents[u] EXCEPT !.status = status]
  <2>3. r \in Agent /\ r.parent = agents[u].parent /\ r.depth = agents[u].depth
    BY <1>1, <2>2 DEF Agent
  <2>4. agents' = [agents EXCEPT ![u] = r]
    BY <2>1
  <2> HIDE DEF r
  <2> QED
    BY <1>1, <1>3, <2>1, <2>3, <2>4
<1> QED
  BY <1>2, <1>3

(* The binding a request writes.                                           *)
LEMMA NewBindingType ==
  ASSUME TablesOK, NEW u \in Users, NEW at \in BoundTimes
  PROVE  /\ NewBinding(u, at) \in Binding /\ at \in Nat
         /\ NewBinding(u, at).boundAt = at
         /\ NewBinding(u, at).expireAt = ExpiryFor(at)
<1>1. at \in Nat /\ clock \in Nat /\ ExpiryFor(at) \in Nat \cup {Never}
  BY RelationsAssumption DEF TablesOK, BoundTimes, ExpiryFor, Never
<1> QED
  BY <1>1 DEF NewBinding, Binding

(* What OnOrderPaid books.                                                 *)
LEMMA BookedRow ==
  ASSUME TablesOK, NEW o \in Orders, OnOrderPaid(o)
  PROVE  /\ UNCHANGED <<agents, bindings, history, paidAt, clock>>
         /\ paidAt[o] \in 0 .. MaxTime
         /\ bindings[BuyerOf[o]] \in Binding
         /\ Attributable(BuyerOf[o], paidAt[o])
         /\ agents[bindings[BuyerOf[o]].agent].status = "active"
         /\ \E w \in ChainsFrom(bindings[BuyerOf[o]].agent, Levels), paid \in SUBSET (1 .. MaxLevels) :
              /\ Len(w) = Levels \/ ToRoot(w)
              /\ [chain |-> w, paid |-> paid, binding |-> bindings[BuyerOf[o]]] \in Accrual
              /\ accruals' = [accruals EXCEPT ![o] =
                   [chain |-> w, paid |-> paid, binding |-> bindings[BuyerOf[o]]]]
<1> DEFINE b == BuyerOf[o]
<1>1. /\ paidAt[o] # Unpaid /\ Attributable(b, paidAt[o]) /\ Eligible(bindings[b].agent, b)
      /\ UNCHANGED <<agents, bindings, history, paidAt, clock>>
  BY DEF OnOrderPaid
<1>2. b \in Users /\ Levels \in 1 .. 3
  BY RelationsAssumption DEF MaxLevels
<1>3. paidAt[o] \in 0 .. MaxTime /\ bindings[b] \in Binding
  BY <1>1, <1>2 DEF TablesOK, Attributable
<1>4. PICK w \in ChainsFrom(bindings[b].agent, Levels) :
        /\ Len(w) = Levels \/ ToRoot(w)
        /\ \E paid \in SUBSET {l \in DOMAIN w : Eligible(w[l], b)} :
             accruals' = [accruals EXCEPT ![o] =
               [chain |-> w, paid |-> paid, binding |-> bindings[b]]]
  BY DEF OnOrderPaid
<1>5. PICK paid \in SUBSET {l \in DOMAIN w : Eligible(w[l], b)} :
        accruals' = [accruals EXCEPT ![o] = [chain |-> w, paid |-> paid, binding |-> bindings[b]]]
  BY <1>4
<1>6. /\ Len(w) \in 1 .. Levels /\ DOMAIN w = 1 .. Len(w) /\ w \in [1 .. Len(w) -> Users]
  <2>1. bindings[b].agent \in Users
    BY <1>3 DEF Binding
  <2> QED
    BY <1>2, <2>1, ChainType
<1>7. w \in UNION {[1 .. n -> Users] : n \in 1 .. MaxLevels} /\ paid \in SUBSET (1 .. MaxLevels)
  BY <1>2, <1>6 DEF MaxLevels
<1>8. [chain |-> w, paid |-> paid, binding |-> bindings[b]] \in Accrual
  BY <1>3, <1>7 DEF Accrual
<1> QED
  BY <1>1, <1>3, <1>4, <1>5, <1>7, <1>8 DEF Eligible

(* Every step keeps the tables' shapes.                                    *)
LEMMA NextTables ==
  ASSUME TablesOK, [Next]_vars
  PROVE  TablesOK'
<1>1. ASSUME NEW u \in Users, NEW parent \in Users \cup {NoUser}, NEW status \in Statuses,
             BindAgent(u, parent, status)
      PROVE  TablesOK'
  <2>1. agents' \in [Users -> Agent \cup {Unregistered}]
    BY <1>1, BindAgentRows
  <2>2. UNCHANGED <<bindings, history, paidAt, accruals, clock>>
    BY <1>1 DEF BindAgent
  <2> QED
    BY <2>1, <2>2 DEF TablesOK
<1>2. ASSUME NEW o \in Orders, NEW u \in Users, NEW at \in BoundTimes, BindBuyer(BuyerOf[o], u, at)
      PROVE  TablesOK'
  <2> DEFINE b == BuyerOf[o]
             n == NewBinding(u, at)
  <2>1. n \in Binding /\ b \in Users
    BY NewBindingType, RelationsAssumption
  <2>2. /\ bindings' = [bindings EXCEPT ![b] = n]
        /\ history' = [history EXCEPT ![b] = history[b] \cup {n}]
        /\ UNCHANGED <<agents, paidAt, accruals, clock>>
    BY <1>2 DEF BindBuyer
  <2> HIDE DEF b, n
  <2> QED
    BY <2>1, <2>2 DEF TablesOK
<1>3. ASSUME NEW o \in Orders, Pay(o)
      PROVE  TablesOK'
  BY <1>3 DEF Pay, TablesOK
<1>4. ASSUME NEW o \in Orders, OnOrderPaid(o)
      PROVE  TablesOK'
  <2>1. /\ UNCHANGED <<agents, bindings, history, paidAt, clock>>
        /\ \E a \in Accrual : accruals' = [accruals EXCEPT ![o] = a]
    BY <1>4, BookedRow
  <2> QED
    BY <2>1 DEF TablesOK
<1>5. CASE Tick
  BY <1>5, RelationsAssumption DEF Tick, TablesOK
<1>6. CASE UNCHANGED vars
  BY <1>6 DEF vars, TablesOK
<1> QED
  BY <1>1, <1>2, <1>3, <1>4, <1>5, <1>6 DEF Next

(* Empty tables have their shapes.                                         *)
LEMMA InitTables == Init => TablesOK
  BY RelationsAssumption DEF Init, TablesOK

(* The rows of every reachable state have the shape the code gives them.   *)
THEOREM RelationsTypeCorrect == Spec => []RelationsTypeOK
<1>1. TablesOK => RelationsTypeOK
  BY DEF TablesOK, RelationsTypeOK
<1>2. TablesOK /\ [Next]_vars => TablesOK'
  BY NextTables
<1> QED
  BY <1>1, <1>2, InitTables, PTL DEF Spec

-----------------------------------------------------------------------------
(***************************************************************************)
(* The forest                                                              *)
(***************************************************************************)

(* A chain of at most two agents that reaches the root is as long as its   *)
(* first agent is deep.                                                    *)
LEMMA ChainDepth ==
  ASSUME TablesOK, Grounded, NEW p \in Users, NEW w \in ChainsFrom(p, 2), ToRoot(w),
         \A x \in Range(w) : Registered(x)
  PROVE  Registered(p) /\ agents[p].depth = Len(w)
<1>1. /\ Len(w) \in 1 .. 2 /\ DOMAIN w = 1 .. Len(w) /\ w \in [1 .. Len(w) -> Users]
      /\ w[1] = p /\ IsChain(w)
  BY ChainType
<1>2. \A j \in 1 .. Len(w) : Registered(w[j])
  BY <1>1 DEF Range
<1>3. w[Len(w)] \in Users /\ Registered(w[Len(w)]) /\ agents[w[Len(w)]].depth = 1
  BY <1>1, <1>2 DEF ToRoot, Grounded
<1>4. CASE Len(w) = 1
  BY <1>1, <1>3, <1>4
<1>5. CASE Len(w) = 2
  <2>1. /\ w[1] \in Users /\ w[2] \in Users /\ Registered(w[1])
        /\ agents[w[1]].parent = w[2] /\ w[2] # NoUser
    BY <1>1, <1>2, <1>5, RelationsAssumption DEF IsChain
  <2>2. agents[w[1]].depth = agents[w[2]].depth + 1
    BY <2>1 DEF Grounded
  <2> QED
    BY <1>1, <1>3, <1>5, <2>1, <2>2
<1> QED
  BY <1>1, <1>4, <1>5

(* A row that is written keeps the forest: a new agent has nobody below    *)
(* it, an old one does not move.                                           *)
LEMMA BindAgentGrounded ==
  ASSUME TablesOK, Grounded, NEW u \in Users, NEW parent \in Users \cup {NoUser},
         NEW status \in Statuses, BindAgent(u, parent, status)
  PROVE  Grounded'
<1>1. /\ \A x \in Users \ {u} : agents'[x] = agents[x]
      /\ agents'[u] \in Agent /\ agents'[u].parent = parent
      /\ Registered(u) => agents[u].parent = parent /\ agents'[u].depth = agents[u].depth
      /\ ~Registered(u) => \E d \in ResolveDepth(u, parent) : agents'[u].depth = d
  BY BindAgentRows
<1>2. Registered(u)'
  <2>1. TablesOK'
    BY NextTables DEF Next
  <2> QED
    BY <1>1, <2>1, RegisteredIs DEF Registered, Agent, Unregistered, AgentStatuses
<1>3. parent # u
  BY DEF BindAgent
<1>4. \A x \in Users \ {u} : Registered(x)' <=> Registered(x)
  BY <1>1 DEF Registered
<1>5. parent = NoUser \/ parent \in Users \ {u}
  BY <1>3
<1>6. /\ agents'[u].depth \in 1 .. MaxLevels
      /\ IF parent = NoUser THEN agents'[u].depth = 1
         ELSE Registered(parent) /\ agents'[u].depth = agents[parent].depth + 1
  <2>1. agents'[u].depth \in 1 .. MaxLevels
    BY <1>1 DEF Agent
  <2>2. CASE Registered(u)
    BY <1>1, <2>1, <2>2 DEF Grounded
  <2>3. CASE ~Registered(u) /\ parent = NoUser
    BY <1>1, <2>1, <2>3 DEF ResolveDepth
  <2>4. CASE ~Registered(u) /\ parent # NoUser
    <3>1. MaxLevels - 1 = 2
      BY DEF MaxLevels
    <3>2. PICK w \in ChainsFrom(parent, 2) :
            /\ ToRoot(w) /\ (\A x \in Range(w) : Registered(x))
            /\ agents'[u].depth = Len(w) + 1
      BY <1>1, <2>4, <3>1 DEF ResolveDepth
    <3>3. parent \in Users
      BY <2>4
    <3>4. Registered(parent) /\ agents[parent].depth = Len(w)
      BY <3>2, <3>3, ChainDepth
    <3> QED
      BY <2>1, <2>4, <3>2, <3>4
  <2> QED
    BY <2>2, <2>3, <2>4
<1> SUFFICES ASSUME NEW x \in Users, Registered(x)'
             PROVE  /\ agents'[x].depth \in 1 .. MaxLevels
                    /\ IF agents'[x].parent = NoUser
                         THEN agents'[x].depth = 1
                         ELSE /\ Registered(agents[x].parent)'
                              /\ agents'[x].depth = agents'[agents'[x].parent].depth + 1
  BY DEF Grounded
<1>7. CASE x = u
  <2>1. parent # NoUser => Registered(parent)' /\ agents'[parent] = agents[parent]
    BY <1>1, <1>4, <1>5, <1>6
  <2> QED
    BY <1>1, <1>6, <1>7, <2>1 DEF Registered
<1>8. CASE x # u
  <2> DEFINE p == agents[x].parent
  <2>1. Registered(x) /\ agents'[x] = agents[x] /\ p \in Users \cup {NoUser}
    BY <1>1, <1>4, <1>8, RegisteredIs
  <2>2. /\ agents[x].depth \in 1 .. MaxLevels
        /\ IF p = NoUser THEN agents[x].depth = 1
           ELSE Registered(p) /\ agents[x].depth = agents[p].depth + 1
    BY <2>1 DEF Grounded
  <2>3. CASE p = NoUser
    BY <2>1, <2>2, <2>3
  <2>4. CASE p # NoUser /\ p # u
    BY <1>1, <1>4, <2>1, <2>2, <2>4 DEF Registered
  <2>5. CASE p = u
    <3>1. Registered(u) /\ u # NoUser
      BY <2>2, <2>5, RelationsAssumption
    <3>2. agents'[u].depth = agents[u].depth
      BY <1>1, <3>1
    <3> QED
      BY <1>2, <2>1, <2>2, <2>5, <3>1, <3>2 DEF Registered
  <2> QED
    BY <2>3, <2>4, <2>5
<1> QED
  BY <1>7, <1>8

(* Nothing else writes agent rows.                                         *)
LEMMA OtherSteps ==
  ASSUME [Next]_vars
  PROVE  \/ \E u \in Users, parent \in Users \cup {NoUser}, status \in Statuses :
              BindAgent(u, parent, status)
         \/ UNCHANGED agents
  BY DEF Next, BindBuyer, Pay, OnOrderPaid, Tick, vars

(* Every step keeps the forest.                                            *)
LEMMA NextGrounded ==
  ASSUME TablesOK, Grounded, [Next]_vars
  PROVE  Grounded'
<1>1. CASE UNCHANGED agents
  BY <1>1 DEF Grounded, Registered
<1> QED
  BY <1>1, OtherSteps, BindAgentGrounded

(* For any users and whatever operators register, in any order, the agents *)
(* are a forest of at most three levels and every stored depth is the real *)
(* one (resolveDepth).                                                     *)
THEOREM AgentsGrounded == Spec => []Grounded
<1>1. Init => TablesOK /\ Grounded
  BY InitTables DEF Init, Grounded, Registered
<1>2. TablesOK /\ Grounded /\ [Next]_vars => (TablesOK /\ Grounded)'
  BY NextTables, NextGrounded
<1> QED
  BY <1>1, <1>2, PTL DEF Spec

-----------------------------------------------------------------------------
(***************************************************************************)
(* An order stays paid along the tree                                      *)
(***************************************************************************)

(* Parents are fixed once an agent is registered, so that it is enough     *)
(* that everybody in the chain of a booked order is.                       *)
ChainRegistered ==
  \A o \in Orders : accruals[o] # NoAccrual =>
    \A j \in DOMAIN accruals[o].chain : Registered(accruals[o].chain[j])

(* The uplines of a registered agent are registered.                       *)
LEMMA UplinesRegistered ==
  ASSUME TablesOK, Grounded, NEW u \in Users, Registered(u), NEW w \in ChainsFrom(u, Levels)
  PROVE  \A j \in DOMAIN w : Registered(w[j])
<1>1. Levels \in 1 .. 3 /\ Levels \in Nat
  BY RelationsAssumption DEF MaxLevels
<1>2. /\ Len(w) \in 1 .. Levels /\ DOMAIN w = 1 .. Len(w) /\ w \in [1 .. Len(w) -> Users]
      /\ w[1] = u /\ IsChain(w)
  BY <1>1, ChainType
<1> DEFINE n == Len(w)
<1>3. n \in 1 .. 3 /\ w \in [1 .. n -> Users] /\ DOMAIN w = 1 .. n
      /\ \A j \in 1 .. n - 1 : agents[w[j]].parent = w[j + 1]
  BY <1>1, <1>2 DEF IsChain
<1> HIDE DEF n
<1>4. ASSUME NEW j \in 1 .. n - 1, Registered(w[j])
      PROVE  Registered(w[j + 1])
  <2>1. w[j] \in Users /\ w[j + 1] \in Users /\ agents[w[j]].parent = w[j + 1]
    BY <1>3, <1>4
  <2> QED
    BY <1>4, <2>1, RelationsAssumption DEF Grounded
<1>5. Registered(w[1])
  BY <1>2
<1>6. 2 \in 1 .. n => Registered(w[2])
  <2>1. ASSUME 2 \in 1 .. n PROVE Registered(w[1 + 1])
    BY <1>3, <1>4, <1>5, <2>1
  <2> QED
    BY <2>1
<1>7. 3 \in 1 .. n => Registered(w[3])
  <2>1. ASSUME 3 \in 1 .. n PROVE Registered(w[2 + 1])
    BY <1>3, <1>4, <1>6, <2>1
  <2> QED
    BY <2>1
<1>8. \A j \in 1 .. n : j = 1 \/ j = 2 \/ j = 3
  BY <1>3
<1> QED
  BY <1>3, <1>5, <1>6, <1>7, <1>8

(* A chain of registered agents outlives every change of an agent row.     *)
LEMMA ChainsKept ==
  ASSUME TablesOK, NEW u \in Users, NEW parent \in Users \cup {NoUser}, NEW status \in Statuses,
         BindAgent(u, parent, status),
         NEW n \in Nat \ {0}, NEW w \in [1 .. n -> Users], Len(w) = n,
         \A j \in 1 .. n : Registered(w[j])
  PROVE  /\ \A j \in 1 .. n : Registered(w[j])'
         /\ IsChain(w) => IsChain(w)'
         /\ ToRoot(w) => ToRoot(w)'
<1>1. /\ \A x \in Users \ {u} : agents'[x] = agents[x]
      /\ agents'[u] \in Agent /\ agents'[u].parent = parent
      /\ Registered(u) => agents[u].parent = parent
  BY BindAgentRows
<1>2. Unregistered \notin Agent
  BY DEF Unregistered, Agent, AgentStatuses
<1>3. \A x \in Users : Registered(x) => Registered(x)' /\ agents'[x].parent = agents[x].parent
  BY <1>1, <1>2 DEF Registered
<1>4. \A j \in 1 .. n : /\ w[j] \in Users /\ Registered(w[j])'
                        /\ agents'[w[j]].parent = agents[w[j]].parent
  BY <1>3
<1>5. n \in 1 .. n /\ \A j \in 1 .. n - 1 : j \in 1 .. n
  OBVIOUS
<1> QED
  BY <1>4, <1>5 DEF IsChain, ToRoot

TreeInv == TablesOK /\ Grounded /\ ChainRegistered /\ PaidAlongTree

(* What the chain of a booked order looks like.                            *)
LEMMA BookedChain ==
  ASSUME TablesOK, NEW o \in Orders, accruals[o] # NoAccrual
  PROVE  \E n \in Nat \ {0} : /\ accruals[o].chain \in [1 .. n -> Users]
                               /\ Len(accruals[o].chain) = n
                               /\ DOMAIN accruals[o].chain = 1 .. n
<1>1. accruals[o] \in Accrual
  BY DEF TablesOK
<1>2. PICK n \in 1 .. MaxLevels : accruals[o].chain \in [1 .. n -> Users]
  BY <1>1 DEF Accrual
<1>3. n \in Nat \ {0} /\ Len(accruals[o].chain) = n
  BY <1>2 DEF MaxLevels
<1> QED
  BY <1>2, <1>3

(* Every step keeps the booked chains.                                     *)
LEMMA NextPaidAlong ==
  ASSUME TreeInv, [Next]_vars
  PROVE  TreeInv'
<1>0. TablesOK /\ Grounded /\ ChainRegistered /\ PaidAlongTree
  BY DEF TreeInv
<1>1. TablesOK' /\ Grounded'
  BY <1>0, NextTables, NextGrounded
<1> DEFINE Kept(o) ==
      \E w : /\ accruals'[o].chain = w
             /\ \A j \in DOMAIN w : Registered(w[j])'
             /\ w[1] = accruals'[o].binding.agent
             /\ IsChain(w)'
             /\ Len(w) = Levels \/ ToRoot(w)'
<1> SUFFICES ASSUME NEW o \in Orders, accruals'[o] # NoAccrual
             PROVE  Kept(o)
  BY <1>1, ZenonT(60) DEF TreeInv, ChainRegistered, PaidAlongTree, IsChain, ToRoot, Registered
<1>2. ASSUME accruals'[o] = accruals[o], UNCHANGED agents
      PROVE  Kept(o)
  <2>1. PICK w : w = accruals[o].chain
    OBVIOUS
  <2>2. /\ w[1] = accruals[o].binding.agent /\ IsChain(w) /\ (Len(w) = Levels \/ ToRoot(w))
        /\ \A j \in DOMAIN w : Registered(w[j])
    BY <1>0, <1>2, <2>1 DEF ChainRegistered, PaidAlongTree
  <2>3. IsChain(w)' /\ (ToRoot(w) => ToRoot(w)') /\ \A j \in DOMAIN w : Registered(w[j])'
    BY <1>2, <2>2 DEF IsChain, ToRoot, Registered
  <2> QED
    BY <1>2, <2>1, <2>2, <2>3
<1>3. ASSUME NEW u \in Users, NEW parent \in Users \cup {NoUser}, NEW status \in Statuses,
             BindAgent(u, parent, status)
      PROVE  Kept(o)
  <2>0. PICK w : w = accruals[o].chain
    OBVIOUS
  <2>1. accruals' = accruals
    BY <1>3 DEF BindAgent
  <2>2. /\ w[1] = accruals[o].binding.agent /\ IsChain(w) /\ (Len(w) = Levels \/ ToRoot(w))
        /\ \A j \in DOMAIN w : Registered(w[j])
    BY <1>0, <2>0, <2>1 DEF ChainRegistered, PaidAlongTree
  <2>3. PICK n \in Nat \ {0} : w \in [1 .. n -> Users] /\ Len(w) = n /\ DOMAIN w = 1 .. n
    BY <1>0, <2>0, <2>1, BookedChain
  <2>4. accruals'[o].chain = w /\ accruals'[o].binding = accruals[o].binding
    BY <2>0, <2>1
  <2>5. /\ \A j \in 1 .. n : Registered(w[j])'
        /\ IsChain(w) => IsChain(w)'
        /\ ToRoot(w) => ToRoot(w)'
    BY <1>0, <1>3, <2>2, <2>3, ChainsKept
  <2> QED
    BY <2>2, <2>3, <2>4, <2>5
<1>4. ASSUME NEW p \in Orders, OnOrderPaid(p)
      PROVE  Kept(o)
  <2>1. CASE o # p
    <3>1. accruals'[o] = accruals[o] /\ UNCHANGED agents
      BY <1>0, <1>4, <2>1, BookedRow DEF TablesOK
    <3> QED
      BY <1>2, <3>1
  <2>2. CASE o = p
    <3> DEFINE b == bindings[BuyerOf[p]]
    <3>1. UNCHANGED agents /\ b \in Binding /\ agents[b.agent].status = "active"
      BY <1>0, <1>4, BookedRow
    <3>2. PICK w \in ChainsFrom(b.agent, Levels), paid \in SUBSET (1 .. MaxLevels) :
            /\ Len(w) = Levels \/ ToRoot(w)
            /\ accruals' = [accruals EXCEPT ![p] = [chain |-> w, paid |-> paid, binding |-> b]]
      BY <1>0, <1>4, BookedRow
    <3>3. b.agent \in Users /\ Levels \in Nat
      BY <3>1, RelationsAssumption DEF Binding
    <3>4. Registered(b.agent)
      BY <1>0, <3>1, <3>3, RegisteredIs
    <3>5. w[1] = b.agent /\ IsChain(w) /\ \A j \in DOMAIN w : Registered(w[j])
      BY <1>0, <3>2, <3>3, <3>4, ChainType, UplinesRegistered
    <3>6. accruals'[o].chain = w /\ accruals'[o].binding = b
      BY <1>0, <2>2, <3>2 DEF TablesOK
    <3> HIDE DEF b
    <3> QED
      BY <3>1, <3>2, <3>5, <3>6 DEF IsChain, ToRoot, Registered
  <2> QED
    BY <2>1, <2>2
<1>5. \/ accruals'[o] = accruals[o] /\ UNCHANGED agents
      \/ \E u \in Users, parent \in Users \cup {NoUser}, status \in Statuses :
           BindAgent(u, parent, status)
      \/ \E p \in Orders : OnOrderPaid(p)
  BY DEF Next, BindBuyer, Pay, Tick, vars
<1> HIDE DEF Kept
<1> QED
  BY <1>2, <1>3, <1>4, <1>5

(* Whatever is registered later, the chain of a booked order is the chain  *)
(* of uplines of the agent it was attributed to, complete up to the root   *)
(* or to the last level (BindAgent, ErrParentAlreadySet).                  *)
THEOREM OrdersPaidAlongTree == Spec => []PaidAlongTree
<1>1. Init => TreeInv
  <2>1. Init => ChainRegistered /\ PaidAlongTree
    BY DEF Init, ChainRegistered, PaidAlongTree
  <2>2. Init => Grounded
    BY DEF Init, Grounded, Registered
  <2> QED
    BY <2>1, <2>2, InitTables DEF TreeInv
<1>2. TreeInv /\ [Next]_vars => TreeInv'
  BY NextPaidAlong
<1>3. TreeInv => PaidAlongTree
  BY DEF TreeInv
<1> QED
  BY <1>1, <1>2, <1>3, PTL DEF Spec

-----------------------------------------------------------------------------
(***************************************************************************)
(* One owner at a time                                                     *)
(***************************************************************************)

(* The first binding has run out when the second begins.                   *)
Before(g, h) == g.expireAt # Never /\ g.expireAt <= h.boundAt

(* A buyer's row is the last of its bindings, and they follow each other.  *)
Succession(b) ==
  /\ bindings[b] = Unbound => history[b] = {}
  /\ bindings[b] # Unbound => bindings[b] \in history[b]
  /\ \A g \in history[b] : g.expireAt = ExpiryFor(g.boundAt)
  /\ \A g \in history[b] : g # bindings[b] => Before(g, bindings[b])
  /\ \A g, h \in history[b] : g # h => Before(g, h) \/ Before(h, g)

(* What a booked order rests on: a binding its buyer had when it paid.     *)
OwnerKept ==
  \A o \in Orders : accruals[o] # NoAccrual =>
    /\ paidAt[o] \in 0 .. MaxTime
    /\ accruals[o].binding \in history[BuyerOf[o]]
    /\ Covers(accruals[o].binding, paidAt[o])

OwnerInv == TablesOK /\ (\A b \in Users : Succession(b)) /\ OwnerKept

(* What follows an expired binding follows everything it followed.         *)
LEMMA BeforeTransitive ==
  ASSUME NEW g \in Binding, NEW h \in Binding, NEW k \in Binding,
         Before(g, h), Before(h, k), h.expireAt = ExpiryFor(h.boundAt)
  PROVE  Before(g, k)
<1>1. /\ g.expireAt \in Nat /\ h.expireAt \in Nat /\ h.boundAt \in Nat /\ k.boundAt \in Nat
      /\ g.expireAt <= h.boundAt /\ h.expireAt <= k.boundAt /\ h.expireAt # Never
  BY DEF Before, Binding
<1>2. h.boundAt <= h.expireAt
  BY <1>1, RelationsAssumption DEF ExpiryFor
<1>3. g.expireAt <= k.boundAt
  BY <1>1, <1>2
<1> QED
  BY <1>3 DEF Before

(* The first binding wins while it is effective, so that a new one begins  *)
(* after the end of all others.                                            *)
LEMMA BindBuyerSucceeds ==
  ASSUME OwnerInv, NEW b \in Users, NEW u \in Users, NEW at \in BoundTimes, BindBuyer(b, u, at)
  PROVE  \A x \in Users : Succession(x)'
<1> DEFINE n == NewBinding(u, at)
           H == history[b]
<1>0. TablesOK /\ Succession(b) /\ \A x \in Users : Succession(x)
  BY DEF OwnerInv
<1>1. n \in Binding /\ at \in Nat /\ n.boundAt = at /\ n.expireAt = ExpiryFor(at)
  BY <1>0, NewBindingType
<1>2. /\ bindings[b] # Unbound => ~Effective(bindings[b], at)
      /\ bindings' = [bindings EXCEPT ![b] = n]
      /\ history' = [history EXCEPT ![b] = H \cup {n}]
  BY DEF BindBuyer
<1> HIDE DEF n, H
<1>3. bindings'[b] = n /\ history'[b] = H \cup {n} /\ n # Unbound
  <2>1. n.agent \in Users /\ Unbound.agent \notin Users
    BY <1>1, RelationsAssumption DEF Binding, Unbound
  <2>2. n # Unbound
    BY <2>1
  <2> QED
    BY <1>0, <1>2, <2>2 DEF TablesOK
<1>4. \A x \in Users \ {b} : bindings'[x] = bindings[x] /\ history'[x] = history[x]
  BY <1>0, <1>2 DEF TablesOK
<1>5. H \subseteq Binding
  BY <1>0 DEF TablesOK, H
<1>6. ASSUME NEW g \in H
      PROVE  Before(g, n)
  <2> DEFINE cur == bindings[b]
  <2>1. cur # Unbound /\ cur \in H /\ cur \in Binding /\ g \in Binding
    BY <1>0, <1>5, <1>6 DEF Succession, TablesOK, H
  <2>2. Before(cur, n)
    <3>1. cur.expireAt # Never /\ ~(at < cur.expireAt)
      BY <1>2, <2>1 DEF Effective
    <3>2. cur.expireAt \in Nat
      BY <2>1, <3>1 DEF Binding
    <3>3. cur.expireAt <= at
      BY <1>1, <3>1, <3>2
    <3> QED
      BY <1>1, <3>1, <3>3 DEF Before
  <2>3. CASE g = cur
    BY <2>2, <2>3
  <2>4. CASE g # cur
    <3>1. Before(g, cur) /\ cur.expireAt = ExpiryFor(cur.boundAt)
      BY <1>0, <1>6, <2>1, <2>4 DEF Succession, H
    <3> HIDE DEF cur
    <3> QED
      BY <1>1, <2>1, <2>2, <3>1, BeforeTransitive
  <2> QED
    BY <2>3, <2>4
<1>7. Succession(b)'
  <2>1. \A g \in H : g.expireAt = ExpiryFor(g.boundAt)
    BY <1>0 DEF Succession, H
  <2>2. \A g, h \in H : g # h => Before(g, h) \/ Before(h, g)
    BY <1>0 DEF Succession, H
  <2>3. \A g \in H \cup {n} : g.expireAt = ExpiryFor(g.boundAt)
    BY <1>1, <2>1
  <2>4. \A g \in H \cup {n} : g # n => Before(g, n)
    BY <1>6
  <2>5. \A g, h \in H \cup {n} : g # h => Before(g, h) \/ Before(h, g)
    BY <2>2, <2>4
  <2> QED
    BY <1>3, <2>3, <2>4, <2>5 DEF Succession
<1>8. ASSUME NEW x \in Users \ {b}
      PROVE  Succession(x)'
  BY <1>0, <1>4, <1>8 DEF Succession
<1> QED
  BY <1>7, <1>8

(* Every step keeps the succession of the owners and what orders rest on.  *)
LEMMA NextOwner ==
  ASSUME OwnerInv, [Next]_vars
  PROVE  OwnerInv'
<1>0. TablesOK /\ (\A b \in Users : Succession(b)) /\ OwnerKept /\ TablesOK'
  BY NextTables DEF OwnerInv
<1>1. ASSUME UNCHANGED <<bindings, history>>
      PROVE  \A b \in Users : Succession(b)'
  BY <1>0, <1>1 DEF Succession
<1>2. ASSUME NEW b \in Users, history'[b] = history[b] \/ \E n : history'[b] = history[b] \cup {n}
      PROVE  history[b] \subseteq history'[b]
  BY <1>2
<1>3. ASSUME UNCHANGED <<paidAt, accruals>>, \A b \in Users : history[b] \subseteq history'[b]
      PROVE  OwnerKept'
  <2>1. \A o \in Orders : BuyerOf[o] \in Users
    BY RelationsAssumption
  <2> QED
    BY <1>0, <1>3, <2>1 DEF OwnerKept, Covers, Effective
<1>4. ASSUME NEW u \in Users, NEW parent \in Users \cup {NoUser}, NEW status \in Statuses,
             BindAgent(u, parent, status)
      PROVE  OwnerInv'
  BY <1>0, <1>1, <1>3, <1>4 DEF BindAgent, OwnerInv
<1>5. ASSUME NEW o \in Orders, NEW u \in Users, NEW at \in BoundTimes, BindBuyer(BuyerOf[o], u, at)
      PROVE  OwnerInv'
  <2>1. BuyerOf[o] \in Users
    BY RelationsAssumption
  <2>2. \A x \in Users : Succession(x)'
    BY <1>5, <2>1, BindBuyerSucceeds
  <2>3. /\ UNCHANGED <<paidAt, accruals>>
        /\ history' = [history EXCEPT ![BuyerOf[o]] = history[BuyerOf[o]] \cup {NewBinding(u, at)}]
    BY <1>5 DEF BindBuyer
  <2>4. \A b \in Users : history[b] \subseteq history'[b]
    BY <1>0, <2>1, <2>3 DEF TablesOK
  <2> QED
    BY <1>0, <1>3, <2>2, <2>3, <2>4 DEF OwnerInv
<1>6. ASSUME NEW p \in Orders, Pay(p)
      PROVE  OwnerInv'
  <2>1. /\ paidAt[p] = Unpaid /\ paidAt' = [paidAt EXCEPT ![p] = clock]
        /\ UNCHANGED <<bindings, history, accruals>>
    BY <1>6 DEF Pay
  <2>2. accruals[p] = NoAccrual
    BY <1>0, <2>1 DEF OwnerKept, Unpaid
  <2>3. \A o \in Orders : accruals[o] # NoAccrual => paidAt'[o] = paidAt[o]
    BY <1>0, <2>1, <2>2 DEF TablesOK
  <2>4. OwnerKept'
    BY <1>0, <2>1, <2>3 DEF OwnerKept, Covers, Effective
  <2> QED
    BY <1>0, <1>1, <2>1, <2>4 DEF OwnerInv
<1>7. ASSUME NEW p \in Orders, OnOrderPaid(p)
      PROVE  OwnerInv'
  <2> DEFINE b == BuyerOf[p]
             cur == bindings[b]
  <2>1. /\ UNCHANGED <<bindings, history, paidAt>> /\ paidAt[p] \in 0 .. MaxTime
        /\ cur \in Binding /\ Attributable(b, paidAt[p])
        /\ \E w, paid : accruals' = [accruals EXCEPT ![p] =
                          [chain |-> w, paid |-> paid, binding |-> cur]]
    BY <1>0, <1>7, BookedRow
  <2>2. b \in Users /\ cur # Unbound /\ cur \in history[b] /\ Covers(cur, paidAt[p])
    BY <1>0, <2>1, RelationsAssumption DEF Attributable, Succession, Covers
  <2>3. accruals'[p].binding = cur /\ \A o \in Orders \ {p} : accruals'[o] = accruals[o]
    BY <1>0, <2>1 DEF TablesOK
  <2> HIDE DEF cur
  <2>4. OwnerKept'
    BY <1>0, <2>1, <2>2, <2>3 DEF OwnerKept, Covers, Effective
  <2> QED
    BY <1>0, <1>1, <2>1, <2>4 DEF OwnerInv
<1>8. CASE Tick \/ UNCHANGED vars
  BY <1>0, <1>1, <1>3, <1>8 DEF Tick, vars, OwnerInv
<1> QED
  BY <1>4, <1>5, <1>6, <1>7, <1>8 DEF Next

(* No table, no owner.                                                     *)
LEMMA InitOwner == Init => OwnerInv
  BY InitTables DEF Init, OwnerInv, OwnerKept, Succession

(* Bindings that follow each other cover no moment together.               *)
LEMMA OneOwner ==
  ASSUME OwnerInv
  PROVE  OneOwnerAtATime
<1> SUFFICES ASSUME NEW b \in Users, NEW g \in history[b], NEW h \in history[b], g # h,
                    NEW at \in 0 .. MaxTime, Covers(g, at), Covers(h, at)
             PROVE  FALSE
  BY DEF OneOwnerAtATime
<1>1. g \in Binding /\ h \in Binding /\ (Before(g, h) \/ Before(h, g))
  BY DEF OwnerInv, TablesOK, Succession
<1>2. ASSUME NEW x \in Binding, NEW y \in Binding, Before(x, y), Covers(x, at), Covers(y, at)
      PROVE  FALSE
  <2>1. x.expireAt \in Nat /\ y.boundAt \in Nat /\ x.expireAt <= y.boundAt /\ y.boundAt <= at
    BY <1>2 DEF Before, Covers, Binding
  <2>2. at < x.expireAt /\ at \in Nat
    BY <1>2, RelationsAssumption DEF Before, Covers, Effective
  <2> QED
    BY <2>1, <2>2
<1> QED
  BY <1>1, <1>2

(* For any expiry rule and any times the callers name, no two bindings of  *)
(* a buyer cover the same moment (BindBuyer).                              *)
THEOREM CustomersHaveOneOwner == Spec => []OneOwnerAtATime
<1>1. OwnerInv /\ [Next]_vars => OwnerInv'
  BY NextOwner
<1>2. OwnerInv => OneOwnerAtATime
  BY OneOwner
<1> QED
  BY <1>1, <1>2, InitOwner, PTL DEF Spec

(* However late the payment event comes and whatever bindings are made     *)
(* before and after, exactly one binding the buyer ever had covers, by the *)
(* dates it carries, the payment of a booked order: the one the order was  *)
(* booked along (OnOrderPaid, BindBuyer).                                  *)
THEOREM OrdersBookedForOwner == Spec => []BookedForOwner
<1>1. OwnerInv /\ [Next]_vars => OwnerInv'
  BY NextOwner
<1>2. OwnerInv => BookedForOwner
  <2> SUFFICES ASSUME OwnerInv, NEW o \in Orders, accruals[o] # NoAccrual
               PROVE  {h \in history[BuyerOf[o]] : Covers(h, paidAt[o])} = {accruals[o].binding}
    BY DEF BookedForOwner
  <2>1. /\ paidAt[o] \in 0 .. MaxTime /\ accruals[o].binding \in history[BuyerOf[o]]
        /\ Covers(accruals[o].binding, paidAt[o]) /\ BuyerOf[o] \in Users
    BY RelationsAssumption DEF OwnerInv, OwnerKept
  <2>2. \A h \in history[BuyerOf[o]] : Covers(h, paidAt[o]) => h = accruals[o].binding
    BY <2>1, OneOwner DEF OneOwnerAtATime
  <2> QED
    BY <2>1, <2>2
<1> QED
  BY <1>1, <1>2, InitOwner, PTL DEF Spec

=============================================================================
