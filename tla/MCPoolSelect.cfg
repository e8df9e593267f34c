SPECIFICATION SelectSpec
CONSTANTS
  N = 2
  Threads = {t1, t2}
  Free = Free
  Sessions = {3}
  NoSession = NoSession
  Ops <- SelectOps
  MaxGen = 0
  RRWrap = 2
  Life = 0
  Cooldowns = {0}
  DefaultCooldown = 1
  DisabledRecovery = 0
  HasStore = FALSE
  HasRefresher = TRUE
SYMMETRY Symmetric
PROPERTIES SelectTruthful
