SPECIFICATION SqlSpec
CONSTANTS
  a1 = a1
  a2 = a2
  o1 = o1
  o2 = o2
  o3 = o3
  Agents = {a1, a2}
  MaxMoney = 100
  Engines = {"postgres", "mysql"}
  MaxOpen = 2
  MaxRetries = 0
  Calls = {1, 2, 3}
  Scenarios <- RefundScenarios
  Orders <- ThreeOrders
  Base <- SmallBases
  Plan <- SmallPlans
  AllowNegative = FALSE
INVARIANT
  RefundsAddUp
