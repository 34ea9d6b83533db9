----------------------------- MODULE MCPolicyLoad -----------------------------
(* Three roles of one or two lines, one of them without any, and three workers. *)
EXTENDS PolicyLoad, TLC

CONSTANTS r1, r2, r3, l1, l2, k1, k2, k3

MCGranted == r1 :> {l1, l2} @@ r2 :> {l1} @@ r3 :> {}
================================================================================
