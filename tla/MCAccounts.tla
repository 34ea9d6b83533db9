----------------------------- MODULE MCAccounts -----------------------------
(* Two requests at a time; one user and one role to begin with, and room for
one more of each; forms of users name the first role or none. *)
EXTENDS Accounts

CONSTANTS u1, u2, o1, o2, n1, n2, dflt, p1

MCFirstRow == [i \in {u1, u2, o1, o2} |->
    [name |-> n1, pass |-> IF i \in {o1, o2} THEN Empty ELSE dflt, profile |-> "old"]]

MCRoleSets == {{}, {o1}}

==============================================================================
