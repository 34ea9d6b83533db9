----------------------------- MODULE MCPolicySync -----------------------------
(* A small instance of PolicySync: a menu with one child and two roles.     *)
EXTENDS PolicySync, TLC

CONSTANTS r1, r2, top, leaf, x, y, w1, w2

MCParent == (leaf :> top) @@ (top :> Root)
MCAnc == (leaf :> {top}) @@ (top :> {})

\* Either one role is granted the child and the other is yet to be created,
\* or the child is yet to be created and the other role was removed.
MCInitDBs ==
    {[role     |-> (r1 :> "enabled") @@ (r2 :> "unborn"),
      roleMenu |-> (r1 :> {leaf}) @@ (r2 :> {}),
      menu     |-> (top :> "enabled") @@ (leaf :> "enabled"),
      res      |-> (top :> {x}) @@ (leaf :> {y})],
     [role     |-> (r1 :> "enabled") @@ (r2 :> "deleted"),
      roleMenu |-> (r1 :> {top}) @@ (r2 :> {}),
      menu     |-> (top :> "enabled") @@ (leaf :> "unborn"),
      res      |-> (top :> {x}) @@ (leaf :> {})]}

MCRoleForms == {[status |-> "enabled", menus |-> {top}],
                [status |-> "disabled", menus |-> {leaf}]}
MCMenuForms == {[status |-> "disabled", res |-> {y}]}
MCMenuFile == top :> [status |-> "enabled", res |-> {x, y}]
NoMenuFile == [m \in {} |-> m]
===============================================================================
