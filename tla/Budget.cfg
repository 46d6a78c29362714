SPECIFICATION AccountingSpec
CONSTANTS
  t1 = t1
  t2 = t2
  g1 = g1
  g2 = g2
  openai = openai
  Tasks <- TwoTasks
  Grants <- TwoGrants
  Providers = {openai}
  Applies <- SomeApply
  ProviderOf <- SameProvider
  Estimate <- Estimates
  GrantLimit <- Limits
  ProviderLimit <- ProviderLimits
  NoLimit = NoLimit
  Costs = {1, 3}
  UnitsPerCent = 2
  NoCost = NoCost
  Policies <- BudgetPolicies
  NoPolicy = NoPolicy
  FlushLimit = 2
  MaxPeriod = 2
  MaxAttempts = 2
  Models <- TwoModels
  MaxMonth = 2
  MaxCalls = 2
  MaxFaults = 1
  Histories <- MCHistories
CHECK_DEADLOCK FALSE
INVARIANTS ReservationsAddUp WithinLimits SpendRecorded UsageReported UsageCountedOnce
