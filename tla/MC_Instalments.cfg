SPECIFICATION EngineSpec
CONSTANTS
  k1 = k1
  k2 = k2
  o1 = o1
  o2 = o2
  r1 = r1
  r2 = r2
  none = none
  MaxMoney = 4
  Agents = {k1, k2}
  NoAgent = none
  Orders <- OneOrder
  TenantOf <- OneTenant
  Basket <- InstalmentBasket
  Referrer <- OneReferrer
  Upline <- Chain
  Levels = 2
  Rates = {2000, 5000, 9000}
  RateSourceFails = TRUE
  MaxAllocatableBP = 9000
  Rounding = "half-up"
  FreezeWindows = {1}
  AllowNegative = FALSE
  RefundKeys = {r1, r2}
  RefundEvents <- InstalmentRefunds
  ReceiptTimes = {0, 1}
  MaxTime = 1
  MaintainBatch = 2
  MaintainWorkBatch = 2
  MaxMaintainRounds = 3
  MaxSettlePerMaintain = 3
INVARIANTS
  EngineTypeOK
  MoneyBacked
  ReversalsReconcile
  RefundsProportional
  AllocationCapped
  BalancesSound
PROPERTIES
  SettlementDateKept
  HistoryKept
