SPECIFICATION ChatSpec
CONSTANTS
  N = 2
  Threads = {t1}
  Free = Free
  Sessions = {3}
  NoSession = NoSession
  Ops <- ClockedOps
  MaxGen = 1
  RRWrap = 2
  Life = 1
  Cooldowns = {1, 2}
  DefaultCooldown = 1
  DisabledRecovery = 1
  HasStore = FALSE
  HasRefresher = TRUE
  Answers <- AllAnswers
  Transport = "auto"
  Max5xxRetries = 1
  CooldownConfig = 1
  RetryAfters = {0, 2}
  QueueMaxRounds = 2
  QueueWaitMax = 2
  QueueWaitBudget = 3
  QueueWaitJitter = 1
  QueueWaits = {1, 2, 3}
  StrayMarkers = {}
PROPERTIES QueueRetriesSame
