SPECIFICATION ChatSpec
CONSTANTS
  N = 2
  Threads = {t1}
  Free = Free
  Sessions = {}
  NoSession = NoSession
  Ops <- ClockedOps
  MaxGen = 1
  RRWrap = 2
  Life = 1
  Cooldowns = {1}
  DefaultCooldown = 1
  DisabledRecovery = 0
  HasStore = FALSE
  HasRefresher = TRUE
  Answers <- AllAnswers
  Transport = "auto"
  Max5xxRetries = 1
  CooldownConfig = 1
  RetryAfters = {0}
  QueueMaxRounds = 2
  QueueWaitMax = 1
  QueueWaitBudget = 2
  QueueWaitJitter = 1
  QueueWaits = {1, 2}
  StrayMarkers = {"429"}
INVARIANTS ChatInv AttemptsMatch WorksOnTried QueueBudgetKept NoStorm NothingReplayed
PROPERTIES QuotaKeepsAccount UsesPool
