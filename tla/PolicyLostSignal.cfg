CONSTANTS
  r1 = r1 r2 = r2 top = top leaf = leaf x = x y = y
  w1 = w1 w2 = w2
  Role = {r1, r2}
  Menu = {top, leaf}
  Resource = {x, y}
  Root = root
  Parent <- MCParent
  Anc <- MCAnc
  Writer = {w1, w2}
  Nil = Nil
  InitDBs <- MCInitDBs
  RoleForms <- MCRoleForms
  MenuForms <- MCMenuForms
  MenuFile <- NoMenuFile
  DenyOperateMenu = FALSE
  MaxOps = 1
  MaxClock = 2
  MaxFaults = 0
SPECIFICATION FairSpec
PROPERTY ChangesReachEnforcer
CHECK_DEADLOCK FALSE
