---------------------------- MODULE MCUserSession ----------------------------
(* One user of two roles, two requests and one change at a time.           *)
EXTENDS UserSession, TLC

CONSTANTS u1, r1, r2, c1, c2, a1

MCInitUsers == {u1 :> "activated", u1 :> "unborn"}
MCInitRoles == u1 :> {r1}
MCRoleSets == {{r1}, {r2}}

\* The requests are interchangeable.
Requests == Permutations(Request)
===============================================================================
