SPECIFICATION FairKernelSpec
CONSTANTS
  k1 = k1
  k2 = k2
  o1 = o1
  o2 = o2
  r1 = r1
  q1 = q1
  q2 = q2
  p1 = p1
  p2 = p2
  none = none
  MaxMoney = 100
  Agents = {k1}
  NoAgent = none
  Orders <- OneOrder
  TenantOf <- OneTenant
  Basket <- DebtBasket
  Referrer <- OneReferrer
  Upline <- Solo
  Levels = 1
  Rates = {5000}
  RateSourceFails = TRUE
  MaxAllocatableBP = 9000
  Rounding = "half-up"
  FreezeWindows = {0}
  AllowNegative = TRUE
  RefundKeys = {r1}
  RefundEvents <- SpreadRefund
  ReceiptTimes = {0}
  MaxTime = 0
  MaintainBatch = 2
  MaintainWorkBatch = 2
  MaxMaintainRounds = 1
  MaxSettlePerMaintain = 3
  RequestKeys = {q1}
  WithdrawAmounts = {4}
  MinWithdraw = 1
  FeeRateBP = 5000
  Workers = {p1, p2}
  LostAnswers = TRUE
  MaxCrashes = 1
INVARIANTS
  WithdrawalsReconcile
  OneOutcome
  PaidWasTransferred
  RefundNotExceeded
  NoFalseAlarm
PROPERTIES
  PayoutsRecorded
