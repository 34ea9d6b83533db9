CONSTANTS
  m1 = m1 m2 = m2 m3 = m3 m4 = m4 ca = ca cb = cb w1 = w1 w2 = w2
  Writer = {w1}
  Menu = {m1, m2, m3, m4}
  Code = {ca, cb}
  Top = Top
  Nil = Nil
  Orders <- MCOrders
  File <- MCFile
  InitTrees <- MCInitTrees
  MaxOps = 2
  MaxFaults = 0
SPECIFICATION Spec
INVARIANT CodeUniqueForEachLevel
CHECK_DEADLOCK FALSE
