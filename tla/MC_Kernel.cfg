SPECIFICATION KernelSpec
CONSTANTS
  k1 = k1
  k2 = k2
  o1 = o1
  o2 = o2
  r1 = r1
  q1 = q1
  q2 = q2
  p1 = p1
  p2 = p2
  none = none
  MaxMoney = 100
  Agents = {k1}
  NoAgent = none
  Orders <- OneOrder
  TenantOf <- OneTenant
  Basket <- OneBasket
  Referrer <- OneReferrer
  Upline <- Solo
  Levels = 1
  Rates = {5000}
  RateSourceFails = TRUE
  MaxAllocatableBP = 9000
  Rounding = "half-up"
  FreezeWindows = {0}
  AllowNegative = FALSE
  RefundKeys = {r1}
  RefundEvents <- PartRefunds
  ReceiptTimes = {0}
  MaxTime = 0
  MaintainBatch = 2
  MaintainWorkBatch = 2
  MaxMaintainRounds = 2
  MaxSettlePerMaintain = 3
  RequestKeys = {q1, q2}
  WithdrawAmounts = {2}
  MinWithdraw = 1
  FeeRateBP = 5000
  Workers = {p1}
  LostAnswers = TRUE
  MaxCrashes = 1
INVARIANTS
  MoneyBacked
  BooksBalance
  RefundsProportional
  CorruptionFound
  NarrowingComplete
