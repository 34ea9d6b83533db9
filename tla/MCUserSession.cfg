CONSTANTS
  u1 = u1 r1 = r1 r2 = r2 c1 = c1 c2 = c2 a1 = a1
  Request = {c1, c2}
  Admin = {a1}
  User = {u1}
  Role = {r1, r2}
  Root = root
  Nil = Nil
  InitUsers <- MCInitUsers
  InitRoles <- MCInitRoles
  RoleSets <- MCRoleSets
  Lifetime = 2
  CacheLife = 1
  MaxOps = 3
  MaxFaults = 1
SYMMETRY Requests
SPECIFICATION Spec
INVARIANTS TypeOK CacheCoherent TokensToActivated LogoutLasts
PROPERTY AdmissionSound
CHECK_DEADLOCK FALSE
