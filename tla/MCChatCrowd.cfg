SPECIFICATION ChatFairSpec
CONSTANTS
  N = 1
  Threads = {t1, t2}
  Free = Free
  Sessions = {}
  NoSession = NoSession
  Ops <- CrowdOps
  MaxGen = 1
  RRWrap = 1
  Life = 1
  Cooldowns = {1}
  DefaultCooldown = 1
  DisabledRecovery = 1
  HasStore = TRUE
  HasRefresher = TRUE
  Answers <- CrowdAnswers
  Transport = "bearer"
  Max5xxRetries = 1
  CooldownConfig = 1
  RetryAfters = {0}
  QueueMaxRounds = 1
  QueueWaitMax = 2
  QueueWaitBudget = 3
  QueueWaitJitter = 1
  QueueWaits = {1}
  StrayMarkers = {}
PROPERTIES EveryRequestAnswered CallsReturn
