SPECIFICATION FairSqlSpec
CONSTANTS
  a1 = a1
  a2 = a2
  o1 = o1
  o2 = o2
  o3 = o3
  Agents = {a1, a2}
  MaxMoney = 100
  Engines = {"postgres", "mysql"}
  MaxOpen = 2
  MaxRetries = 1
  Calls = {1, 2, 3, 4, 5, 6, 7, 8}
  Scenarios <- RaceScenarios
  Orders <- ThreeOrders
  Base <- SmallBases
  Plan <- SmallPlans
  AllowNegative = FALSE
INVARIANTS
  SqlTypeOK
  SqlBooksBalance
  SqlReversalsReconcile
  SqlEarnedOnce
  SqlMoneyBacked
  FirstBookingAccepted
  SqlNoOverdraft
  DecidedOnce
  SnapshotCheckClean
PROPERTY
  CallsReturn
