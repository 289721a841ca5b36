CONSTANTS
  Thread = {t1, t2}
  Account = {a1}
  Name = {n1}
  Value = {0, 1}
  MaxRole = 2
  Addr = {1, 2}
  Column = {c1, c2}
  MaxParams = 3
  Update = {u1, u2, u3}
  RedisClient = {k1}
  MaxLoans = 3
  Player = {l1, l2}
  MaxToken = 2
  Capacity = 1
  MaxSession = 2
  Member = {m1, m2, m3}
  Limit = 1
  MaxTeam = 1
  Friends = {f1, f2}
SPECIFICATION MCSpec
INVARIANTS CacheCoherent NoSilentLoss UsedOnceAligns ReportedKept NoCrossLoan TrueMeansDone LogoutRevokes IdentityOwn OverfullByOverlap CachedAreStored
VIEW MCView
SYMMETRY MCSymmetry
CHECK_DEADLOCK FALSE
