CONSTANTS
  r1 = r1 r2 = r2 top = top leaf = leaf x = x y = y
  w1 = w1 w2 = w2
  Role = {r1, r2}
  Menu = {top, leaf}
  Resource = {x, y}
  Root = root
  Parent <- MCParent
  Anc <- MCAnc
  Writer = {w1, w2}
  Nil = Nil
  InitDBs <- MCInitDBs
  RoleForms <- MCRoleForms
  MenuForms <- MCMenuForms
  MenuFile <- MCMenuFile
  DenyOperateMenu = FALSE
  MaxOps = 2
  MaxClock = 2
  MaxFaults = 1
SPECIFICATION FairSpec
INVARIANTS TypeOK NoSilentStaleness LoadSound LoadComplete
PROPERTY EventuallyEnforced
CHECK_DEADLOCK FALSE
