CONSTANTS
  Thread = {t1, t2}
  Account = {a1}
  Name = {n1}
  Value = {0, 1}
  MaxRole = 2
  Addr = {1, 2}
SPECIFICATION Spec
INVARIANT SaveStores
