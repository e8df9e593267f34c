SPECIFICATION HealthFairSpec
CONSTANTS
  N = 1
  Threads = {t1, t2}
  Free = Free
  Sessions = {}
  NoSession = NoSession
  Ops <- RecoverOps
  MaxGen = 0
  RRWrap = 1
  Life = 0
  Cooldowns = {0}
  DefaultCooldown = 1
  DisabledRecovery = 0
  HasStore = FALSE
  HasRefresher = FALSE
PROPERTIES OutOfServiceEnds
