CONSTANTS
  r1 = r1 r2 = r2 r3 = r3 l1 = l1 l2 = l2 k1 = k1 k2 = k2 k3 = k3
  Role = {r1, r2, r3}
  Line = {l1, l2}
  Worker = {k1, k2, k3}
  Granted <- MCGranted
  Nil = Nil
SPECIFICATION FairSpec
PROPERTIES PoolGathers LoadReturns
CHECK_DEADLOCK FALSE
