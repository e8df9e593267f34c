SPECIFICATION RoutingSpec
CONSTANTS
  a1 = a1
  a2 = a2
  lite = lite
  pro = pro
  Owners = {a1, a2}
  Callers = {c1, c2}
  Starter = c1
  NoOwner = NoOwner
  Models = {lite, pro}
  Lite = lite
  Offers <- TwoOffers
  TTL = 1
  MaxReaders = 1
  Tiers = {lite}
  NoModel = NoModel
  BearerAccounts = {a1}
INVARIANTS RoutingInv HitIsGood RemembersListing ConcreteByCosy ForcedKept ProbedFirst
PROPERTIES ServesReady FallbackLearned
