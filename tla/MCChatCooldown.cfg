SPECIFICATION ChatSpec
CONSTANTS
  N = 1
  Threads = {t1, t2}
  Free = Free
  Sessions = {}
  NoSession = NoSession
  Ops <- ClockedOps
  MaxGen = 1
  RRWrap = 1
  Life = 1
  Cooldowns = {1, 2}
  DefaultCooldown = 1
  DisabledRecovery = 1
  HasStore = FALSE
  HasRefresher = TRUE
  Answers <- AllAnswers
  Transport = "auto"
  Max5xxRetries = 1
  CooldownConfig = 1
  RetryAfters = {0, 2}
  QueueMaxRounds = 2
  QueueWaitMax = 2
  QueueWaitBudget = 3
  QueueWaitJitter = 1
  QueueWaits = {1, 2, 3}
  StrayMarkers = {}
PROPERTIES CooldownHonoured
