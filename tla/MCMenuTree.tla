------------------------------ MODULE MCMenuTree ------------------------------
(* A chain of two menus, a third somewhere, and a fourth to create.          *)
EXTENDS MenuQuery, TLC

CONSTANTS m1, m2, m3, m4, ca, cb, w1, w2

MCRow(p, path, c) == [parent |-> p, path |-> path, code |-> c, status |-> "enabled"]

MCTree(row) == m1 :> MCRow(Top, <<>>, ca) @@ m2 :> MCRow(m1, <<m1>>, cb)
                    @@ m3 :> row @@ m4 :> Nil
MCInitTrees == {MCTree(MCRow(Top, <<>>, cb)), MCTree(MCRow(m1, <<m1>>, ca)),
                MCTree(MCRow(m2, <<m1, m2>>, cb)), [m \in Menu |-> Nil]}

MCFile == <<[code |-> ca, status |-> "enabled", above |-> 0],
            [code |-> cb, status |-> "disabled", above |-> 1]>>
MCOrders == {<<m1, m2, m3, m4>>, <<m4, m3, m2, m1>>}
================================================================================
