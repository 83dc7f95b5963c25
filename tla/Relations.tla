----------------------------- MODULE Relations -----------------------------
(***************************************************************************)
(* Who earns on an order: the agents and their uplines (BindAgent), the    *)
(* buyers' bindings (BindBuyer) and the attribution of a paid order        *)
(* (OnOrderPaid), for the users of one tenant.  How much each of them      *)
(* earns is the subject of Commissions, where the attributed agent and the *)
(* uplines are parameters.                                                 *)
(*                                                                         *)
(* The order system delivers the payment event of an order as often and as *)
(* late as it likes, always with the original payment time.  A delivery    *)
(* that books nothing changes nothing, so that only the one that books the *)
(* order is a step.                                                        *)
(***************************************************************************)
EXTENDS Integers, Sequences, Functions

CONSTANTS
  Users,              \* user ids; a buyer may be an agent too
  NoUser,             \* user id 0
  Statuses,           \* the statuses operators give to agents
  Orders,             \* order ids
  BuyerOf,            \* BuyerOf[o]: who buys order o
  Levels,             \* Rules.Levels
  BindExpireDays,     \* Rules.BindExpireDays; 0 means never
  MaxTime             \* bound: the clock stops here

AgentStatuses == {"inactive", "active", "disabled"}

MaxLevels == 3

ASSUME RelationsAssumption ==
  /\ NoUser \notin Users
  /\ Statuses \subseteq AgentStatuses
  /\ BuyerOf \in [Orders -> Users]
  /\ Levels \in 1 .. MaxLevels
  /\ BindExpireDays \in Nat
  /\ MaxTime \in Nat

VARIABLES
  agents,             \* agents[u]: the agent row of user u, or Unregistered
  bindings,           \* bindings[b]: the binding row of buyer b, or Unbound
  history,            \* auxiliary: every binding a buyer ever had
  paidAt,             \* paidAt[o]: when order o was paid, or Unpaid
  accruals,           \* accruals[o]: what was booked for order o, or NoAccrual
  clock

vars == <<agents, bindings, history, paidAt, accruals, clock>>

-----------------------------------------------------------------------------
(***************************************************************************)
(* Rows                                                                    *)
(***************************************************************************)

Agent == [parent : Users \cup {NoUser}, depth : 1 .. MaxLevels, status : AgentStatuses]

Unregistered == [parent |-> NoUser, depth |-> 0, status |-> "none"]

Registered(u) == agents[u] # Unregistered

Never == -1           \* a zero ExpireAt

(* The time of writing is auxiliary: the row has only the time the caller  *)
(* named.                                                                  *)
Binding ==
  [agent : Users, boundAt : Nat, expireAt : Nat \cup {Never}, writtenAt : Nat]

Unbound == [agent |-> NoUser]

(* Binding.Effective; nothing ever clears Active.                          *)
Effective(b, at) == b.expireAt = Never \/ at < b.expireAt

ExpiryFor(boundAt) == IF BindExpireDays = 0 THEN Never ELSE boundAt + BindExpireDays

Unpaid == -1

NoAccrual == [chain |-> << >>]

-----------------------------------------------------------------------------
(***************************************************************************)
(* The relation chain                                                      *)
(***************************************************************************)

(* A run of agents, each the upline of the one before.                     *)
IsChain(w) == \A j \in 1 .. Len(w) - 1 : agents[w[j]].parent = w[j + 1]

(* The chains of at most n agents that start with u.                       *)
ChainsFrom(u, n) ==
  {w \in UNION {[1 .. k -> Users] : k \in 1 .. n} : w[1] = u /\ IsChain(w)}

ToRoot(w) == agents[w[Len(w)]].parent = NoUser

ResolveDepthUnchecked(u, parent) ==  \* mutant: the uplines need not exist
  IF parent = NoUser THEN {1}
  ELSE {Len(w) + 1 : w \in {v \in ChainsFrom(parent, MaxLevels - 1) : ToRoot(v)}}

(* resolveDepth: the depth of a new agent u below parent.  The walk up to  *)
(* the root must be short enough, meet only registered agents and never u. *)
ResolveDepth(u, parent) ==
  IF parent = NoUser THEN {1}
  ELSE {Len(w) + 1 : w \in {v \in ChainsFrom(parent, MaxLevels - 1) :
                              /\ ToRoot(v)
                              /\ \A x \in Range(v) : Registered(x) /\ x # u}}

BindAgentMoving(u, parent, status) ==  \* mutant: the parent may change
  /\ parent # u
  /\ \E d \in ResolveDepth(u, parent) :
       agents' = [agents EXCEPT ![u] = [parent |-> parent, depth |-> d, status |-> status]]
  /\ UNCHANGED <<bindings, history, paidAt, accruals, clock>>

(* An agent is registered below its parent, or changes its status; its     *)
(* parent never changes (ErrParentAlreadySet).                             *)
BindAgent(u, parent, status) ==
  /\ parent # u
  /\ \/ /\ ~Registered(u)
        /\ \E d \in ResolveDepth(u, parent) :
             agents' = [agents EXCEPT ![u] = [parent |-> parent, depth |-> d,
                                              status |-> status]]
     \/ /\ Registered(u)
        /\ agents[u].parent = parent
        /\ agents' = [agents EXCEPT ![u].status = status]
  /\ UNCHANGED <<bindings, history, paidAt, accruals, clock>>

-----------------------------------------------------------------------------
(***************************************************************************)
(* Bindings                                                                *)
(***************************************************************************)

(* The time the caller names, past, present or future; the clock's if it   *)
(* names none.                                                             *)
BoundTimes == 0 .. MaxTime

NewBinding(u, boundAt) ==
  [agent |-> u, boundAt |-> boundAt, expireAt |-> ExpiryFor(boundAt),
   writtenAt |-> clock]

BindBuyerAnyway(b, u, boundAt) ==  \* mutant: the last binding wins
  /\ agents[u].status = "active"
  /\ u # b
  /\ bindings' = [bindings EXCEPT ![b] = NewBinding(u, boundAt)]
  /\ history' = [history EXCEPT ![b] = @ \cup {NewBinding(u, boundAt)}]
  /\ UNCHANGED <<agents, paidAt, accruals, clock>>

(* The first binding wins while it is effective at BoundAt.                *)
BindBuyer(b, u, boundAt) ==
  /\ agents[u].status = "active"
  /\ u # b
  /\ bindings[b] # Unbound => ~Effective(bindings[b], boundAt)
  /\ bindings' = [bindings EXCEPT ![b] = NewBinding(u, boundAt)]
  /\ history' = [history EXCEPT ![b] = @ \cup {NewBinding(u, boundAt)}]
  /\ UNCHANGED <<agents, paidAt, accruals, clock>>

-----------------------------------------------------------------------------
(***************************************************************************)
(* Orders                                                                  *)
(***************************************************************************)

(* The buyer pays, in the order system.                                    *)
Pay(o) ==
  /\ paidAt[o] = Unpaid
  /\ paidAt' = [paidAt EXCEPT ![o] = clock]
  /\ UNCHANGED <<agents, bindings, history, accruals, clock>>

AttributableNow(b, at) ==  \* mutant: the binding that exists now counts
  /\ bindings[b] # Unbound
  /\ Effective(bindings[b], at)

(* The binding row that is there now existed and was effective when the    *)
(* order was paid.                                                         *)
Attributable(b, at) ==
  /\ bindings[b] # Unbound
  /\ bindings[b].boundAt <= at
  /\ Effective(bindings[b], at)

(* The default EligibilityChecker.                                         *)
Eligible(u, b) == agents[u].status = "active" /\ u # b

(* OnOrderPaid: the order is booked unless it was before, its buyer is not *)
(* attributable or the level-1 agent is not eligible.  Every eligible      *)
(* agent of the chain is paid except where the amount comes out as zero; a *)
(* level that is not eligible is passed over.                              *)
OnOrderPaid(o) ==
  LET b == BuyerOf[o]
  IN  /\ paidAt[o] # Unpaid
      /\ accruals[o] = NoAccrual
      /\ Attributable(b, paidAt[o])
      /\ Eligible(bindings[b].agent, b)
      /\ \E w \in ChainsFrom(bindings[b].agent, Levels) :
           /\ Len(w) = Levels \/ ToRoot(w)
           /\ \E paid \in SUBSET {l \in DOMAIN w : Eligible(w[l], b)} :
                /\ paid # {}
                /\ accruals' = [accruals EXCEPT ![o] =
                     [chain |-> w, paid |-> paid, binding |-> bindings[b]]]
  /\ UNCHANGED <<agents, bindings, history, paidAt, clock>>

-----------------------------------------------------------------------------

Tick ==
  /\ clock < MaxTime
  /\ clock' = clock + 1
  /\ UNCHANGED <<agents, bindings, history, paidAt, accruals>>

Init ==
  /\ agents = [u \in Users |-> Unregistered]
  /\ bindings = [b \in Users |-> Unbound]
  /\ history = [b \in Users |-> {}]
  /\ paidAt = [o \in Orders |-> Unpaid]
  /\ accruals = [o \in Orders |-> NoAccrual]
  /\ clock = 0

Next ==
  \/ \E u \in Users, parent \in Users \cup {NoUser}, status \in Statuses :
       BindAgent(u, parent, status)
  \/ \E o \in Orders, u \in Users, at \in BoundTimes : BindBuyer(BuyerOf[o], u, at)
  \/ \E o \in Orders : Pay(o) \/ OnOrderPaid(o)
  \/ Tick

Spec == Init /\ [][Next]_vars

-----------------------------------------------------------------------------
(***************************************************************************)
(* Properties                                                              *)
(***************************************************************************)

Accrual ==
  [chain : UNION {[1 .. n -> Users] : n \in 1 .. MaxLevels},
   paid : SUBSET (1 .. MaxLevels),
   binding : Binding]

(* Rows have the shape the code gives them.                                *)
RelationsTypeOK ==
  /\ agents \in [Users -> Agent \cup {Unregistered}]
  /\ bindings \in [Users -> Binding \cup {Unbound}]
  /\ \A b \in Users : history[b] \subseteq Binding
  /\ paidAt \in [Orders -> 0 .. MaxTime \cup {Unpaid}]
  /\ \A o \in Orders : accruals[o] = NoAccrual \/ accruals[o] \in Accrual
  /\ clock \in 0 .. MaxTime

(* The agents are a forest of at most MaxLevels levels: every upline is    *)
(* registered and sits exactly one level higher, so no chain ever closes   *)
(* into a cycle and a stored depth is the real one (resolveDepth).         *)
Grounded ==
  \A u \in Users : Registered(u) =>
    /\ agents[u].depth \in 1 .. MaxLevels
    /\ IF agents[u].parent = NoUser
         THEN agents[u].depth = 1
         ELSE /\ Registered(agents[u].parent)
              /\ agents[u].depth = agents[agents[u].parent].depth + 1

(* The tree an order was paid along is still the tree: whatever operators  *)
(* do later, the chain of a booked order is the real chain of uplines of   *)
(* the agent it was attributed to, complete up to the root or to the last  *)
(* level, and its statuses alone have changed (BindAgent).                 *)
PaidAlongTree ==
  \A o \in Orders : accruals[o] # NoAccrual =>
    LET w == accruals[o].chain
    IN  /\ w[1] = accruals[o].binding.agent
        /\ IsChain(w)
        /\ Len(w) = Levels \/ ToRoot(w)

(* The binding says that its agent owns the customer at that time.         *)
Covers(h, at) == h.boundAt <= at /\ Effective(h, at)

(* A customer never has two owners: no two bindings a buyer ever had cover *)
(* the same moment, whatever times the callers name and in whatever order  *)
(* the requests come (BindBuyer: the first binding wins).                  *)
OneOwnerAtATime ==
  \A b \in Users : \A g, h \in history[b] :
    g # h => \A at \in 0 .. MaxTime : ~(Covers(g, at) /\ Covers(h, at))

(* No two agents can claim a booked order: by the dates the bindings       *)
(* carry, the one it was booked along covers the time of payment, and no   *)
(* other the buyer had, or gets later, does (OnOrderPaid, BindBuyer).      *)
(* When a binding was written is another matter: AttributedAtPayment.      *)
BookedForOwner ==
  \A o \in Orders : accruals[o] # NoAccrual =>
    {h \in history[BuyerOf[o]] : Covers(h, paidAt[o])} = {accruals[o].binding}

(* The second contract of README.md: the binding an order is booked along  *)
(* already existed when the order was paid; one created afterwards does    *)
(* not capture the order (OnOrderPaid's attribution rules).                *)
AttributedAtPayment ==
  \A o \in Orders : accruals[o] # NoAccrual =>
    accruals[o].binding.writtenAt <= paidAt[o]

=============================================================================
