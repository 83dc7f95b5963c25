SPECIFICATION Spec
CONSTANTS
  u1 = u1
  u2 = u2
  u3 = u3
  u4 = u4
  o1 = o1
  nobody = nobody
  Users = {u1, u2, u3, u4}
  NoUser = nobody
  Statuses = {"active", "disabled"}
  Orders <- OneOrder
  BuyerOf <- ThirdBuys
  Levels = 2
  BindExpireDays = 1
  MaxTime = 1
INVARIANTS
  Grounded
  PaidAlongTree
  OneOwnerAtATime
  BookedForOwner
SYMMETRY AgentSymmetry
