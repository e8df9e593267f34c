SPECIFICATION FairSpec
CONSTANTS
  Users = {u1, u2}
  Known = {u1}
  Servers = {serve}
  Tools = {doctor}
  Logins = {login}
  Imports = {import}
  NoAccount = NoAccount
  MaxIssued = 2
INVARIANTS ProcessesInv FileReadable
PROPERTIES LossesExplained LoginEnds
