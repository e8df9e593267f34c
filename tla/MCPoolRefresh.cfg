SPECIFICATION Spec
CONSTANTS
  N = 2
  Threads = {t1, t2}
  Free = Free
  Sessions = {}
  NoSession = NoSession
  Ops <- RefreshOps
  MaxGen = 2
  RRWrap = 2
  Life = 1
  Cooldowns = {}
  DefaultCooldown = 1
  DisabledRecovery = 1
  HasStore = TRUE
  HasRefresher = TRUE
SYMMETRY Symmetric
INVARIANTS PoolInv SpentTokenNotResent SingleFlight
PROPERTIES DiskNeverRegresses SavedBeforeReturn
