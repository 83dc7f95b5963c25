SPECIFICATION FairEngineSpec
CONSTANTS
  k1 = k1
  k2 = k2
  o1 = o1
  o2 = o2
  r1 = r1
  r2 = r2
  none = none
  MaxMoney = 100
  Agents = {k1, k2}
  NoAgent = none
  Orders <- TwoOrders
  TenantOf <- TwoTenants
  Basket <- TwoBaskets
  Referrer <- TwoReferrers
  Upline <- Alone
  Levels = 1
  Rates = {5000}
  RateSourceFails = TRUE
  MaxAllocatableBP = 9000
  Rounding = "half-up"
  FreezeWindows = {0, 1}
  AllowNegative = FALSE
  RefundKeys = {r1}
  RefundEvents <- NoRefunds
  ReceiptTimes = {0}
  MaxTime = 1
  MaintainBatch = 2
  MaintainWorkBatch = 2
  MaxMaintainRounds = 1
  MaxSettlePerMaintain = 2
PROPERTIES
  BudgetCharged
  DueSettles
