SPECIFICATION FairKernelSpec
CONSTANTS
  k1 = k1
  k2 = k2
  o1 = o1
  o2 = o2
  r1 = r1
  q1 = q1
  q2 = q2
  p1 = p1
  p2 = p2
  none = none
  MaxMoney = 100
  Agents = {k1, k2}
  NoAgent = none
  Orders <- TwoOrders
  TenantOf <- SameTenant
  Basket <- TwoBaskets
  Referrer <- TwoReferrers
  Upline <- Pair
  Levels = 1
  Rates = {5000}
  RateSourceFails = FALSE
  MaxAllocatableBP = 9000
  Rounding = "half-up"
  FreezeWindows = {0}
  AllowNegative = TRUE
  RefundKeys = {r1}
  RefundEvents <- FirstItemRefund
  ReceiptTimes = {0}
  MaxTime = 0
  MaintainBatch = 2
  MaintainWorkBatch = 2
  MaxMaintainRounds = 2
  MaxSettlePerMaintain = 3
  RequestKeys = {q1}
  WithdrawAmounts = {2}
  MinWithdraw = 1
  FeeRateBP = 0
  Workers = {}
  LostAnswers = FALSE
  MaxCrashes = 0
PROPERTIES
  OthersSettle
