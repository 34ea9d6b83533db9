----------------------------- MODULE PolicyGather -----------------------------
(***************************************************************************)
(* What Casbinx.load (internal/mods/rbac/casbin.go) promises of its worker *)
(* pool: in one step, the lines of every role whose queries did not fail,  *)
(* each of them and no other.  This is how PolicySync takes it.            *)
(***************************************************************************)
CONSTANTS Role,    \* the enabled roles the load found
          Line,    \* the <<path, method>> pairs
          Granted, \* what queryRoleResources returns for a role
          Nil      \* no result yet

VARIABLES result,  \* the gathered lines
          left     \* the roles whose queries failed

Policy(rs) == {x \in Role \X Line : x[1] \in rs /\ x[2] \in Granted[x[1]]}

Init == result = Nil /\ left = {}

Gather ==
    /\ result = Nil
    /\ \E rs \in SUBSET Role : left' = rs /\ result' = Policy(Role \ rs)

Spec == Init /\ [][Gather]_<<result, left>>

===============================================================================
