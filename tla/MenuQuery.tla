------------------------------ MODULE MenuQuery ------------------------------
(***************************************************************************)
(* What the queries for menus answer: the tree of the menu page (Query of  *)
(* biz/menu.biz.go) and that of the user who is logged in (QueryMenus of   *)
(* biz/login.biz.go).                                                      *)
(*                                                                         *)
(* Both pick rows, add rows so that every menu has those above it, and     *)
(* then hang each row below its parent.  They find the rows above and      *)
(* below by the paths and draw the tree by the parents.  Each takes        *)
(* several queries; here they all see one table.                           *)
(***************************************************************************)
EXTENDS MenuTree

CONSTANT Orders \* ways "sequence DESC, created_at DESC" may order the menus

ASSUME MenuQueryAssumption ==
    \A o \in Orders : o \in Seq(Menu) /\ IsInjective(o) /\ ToSet(o) = Menu

\* The members of s that are in T, in their order.
Pick(s, T) ==
    LET picked[i \in 0..Len(s)] ==
          IF i = 0 THEN <<>>
          ELSE IF s[i] \in T THEN Append(picked[i-1], s[i]) ELSE picked[i-1]
    IN  picked[Len(s)]

\* The rows of S, in the order of the query.
Query(o, S) == Pick(o, S \cap Rows)

\* Less compares the columns that the query orders by.
Sort(o, data) ==
    LET sorted[i \in 0..Len(o)] ==
          IF i = 0 THEN <<>> ELSE sorted[i-1] \o Pick(data, {o[i]})
    IN  sorted[Len(o)]

\* The rows with these identifiers.  Without any there is no condition and all rows
\* are found, so the callers ask only if they have some.
InIDs(o, ids) == Query(o, IF ids = <<>> THEN Menu ELSE ToSet(ids))

\* Every menu in the paths of the data once, except those that precede the row
\* whose path they are in.  A row that is in a path before it is passed over.
SplitParentIDs(data) ==
    LET step(acc, m) ==
          LET path == menu[m].path IN
          IF m \in acc.seen THEN acc
          ELSE [ids  |-> acc.ids \o Pick(path, Menu \ (acc.seen \cup {m})),
                seen |-> acc.seen \cup {m} \cup ToSet(path)]
        split[i \in 0..Len(data)] ==
          IF i = 0 THEN [ids |-> <<>>, seen |-> {}] ELSE step(split[i-1], data[i])
    IN  split[Len(data)].ids

\* The data with those rows that are not in it yet.
Added(data, more) == data \o Pick(more, Menu \ ToSet(data))

\* The rows below m, by its path.
ChildRows(o, m) == Query(o, Under(menu, Prefix(m, menu[m])))

\* Mutant: a menu that is found below several is added every time.
AppendChildrenAgain(o, data) ==
    LET below[i \in 0..Len(data)] ==
          IF i = 0 THEN data ELSE below[i-1] \o ChildRows(o, data[i])
        all == below[Len(data)]
        ids == SplitParentIDs(all)
    IN  Sort(o, IF ids = <<>> THEN all ELSE Added(all, InIDs(o, ids)))

\* All menus below the data, then all above those.
AppendChildren(o, data) ==
    LET below[i \in 0..Len(data)] ==
          IF i = 0 THEN data ELSE Added(below[i-1], ChildRows(o, data[i]))
        all == below[Len(data)]
        ids == SplitParentIDs(all)
    IN  Sort(o, IF ids = <<>> THEN all ELSE Added(all, InIDs(o, ids)))

\* The menus without a parent, and below each menu of the data its own.
ChildrenOf(p) == {m \in Rows : menu[m].parent = p}
ToTree(data) == [list |-> Pick(data, ChildrenOf(Top)),
                 below |-> [p \in ToSet(data) |-> Pick(data, ChildrenOf(p))]]

\* Query with a name, which the menus S match.
QueryByName(o, S) == ToTree(AppendChildren(o, Query(o, S)))

\* The last menu of a code path, Nil if a code is not found.  Each code is looked up
\* below the PARENT of the menu before it (menu.biz.go:227), for the first code Top.
LastMenu(codes) ==
    LET at(m, c) == {n \in ChildrenOf(IF m = Top THEN Top ELSE menu[m].parent) : menu[n].code = c}
        last[i \in 0..Len(codes)] ==
          IF i = 0 THEN Top
          ELSE IF last[i-1] = Nil \/ at(last[i-1], codes[i]) = {} THEN Nil
          ELSE CHOOSE n \in at(last[i-1], codes[i]) : TRUE
    IN  last[Len(codes)]

\* Query with a code path: what is below its last menu.  A code that is not found
\* is an error, and a path without a code has nothing below it.
NotFound == Nil
QueryByCode(o, codes) ==
    LET last == LastMenu(codes) IN
    IF last = Nil THEN NotFound
    ELSE ToTree(IF last = Top THEN <<>> ELSE AppendChildren(o, ChildRows(o, last)))

Enabled == {m \in Rows : menu[m].status = "enabled"}

\* Mutant: the rows above are asked for even if none are missing.
QueryMenusUnasked(o, held) ==
    LET data == Query(o, held \cap Enabled)
        miss == Pick(SplitParentIDs(data), Menu \ ToSet(data))
    IN  ToTree(Sort(o, Added(data, InIDs(o, miss))))

\* QueryMenus of a user whose roles have the menus held.  What is filled in above
\* them is not asked for its status.
QueryMenus(o, held) ==
    LET data == Query(o, held \cap Enabled)
        miss == Pick(SplitParentIDs(data), Menu \ ToSet(data))
    IN  ToTree(IF miss = <<>> THEN data ELSE Sort(o, data \o InIDs(o, miss)))

\* QueryMenus of the root user, for whom nothing is filled in.
QueryMenusOfRoot(o) == ToTree(Query(o, Enabled))

-----------------------------------------------------------------------------
(* What they should answer, by the parents alone.                          *)

\* The menus above m: those in every set that has its parent and with each of its
\* menus the parent.  And those below it.
Above(m) ==
    {n \in Rows : \A S \in SUBSET Rows :
        (\A k \in S \cup {m} : menu[k].parent \in Rows => menu[k].parent \in S) => n \in S}
Below(m) == {n \in Rows : m \in Above(n)}

\* The tree of the rows S in the order o.
TreeOf(o, S) == [list |-> Pick(o, S \cap ChildrenOf(Top)),
                 below |-> [p \in S |-> Pick(o, S \cap ChildrenOf(p))]]

Upward(S) == S \cup UNION {Above(m) : m \in S}

\* The menus that can be reached in a tree from its list: those in every set that has
\* its list and with each menu those below it.
Drawn(tree) ==
    LET all == DOMAIN tree.below IN
    {n \in all : \A S \in SUBSET all :
        /\ ToSet(tree.list) \subseteq S
        /\ \A p \in S : ToSet(tree.below[p]) \subseteq S
        => n \in S}

\* A table whose paths nothing has broken, and one that nobody is about to change.
Intact == slips \cap {"late", "below itself"} = {}
Settled == Intact /\ \A w \in Writer : pc[w] = "idle"

\* After login a user sees each enabled menu of his roles in its place, with all
\* above it, and nothing else (login.biz.go:311).
UserSeesMenus ==
    \A o \in Orders : \A held \in SUBSET Rows :
        QueryMenus(o, held) = TreeOf(o, Upward(held \cap Enabled))

\* The root user, for whom nothing is filled in, sees exactly the enabled menus that
\* have only enabled ones above.
RootSeesMenus ==
    \A o \in Orders : Drawn(QueryMenusOfRoot(o)) = {m \in Enabled : Above(m) \subseteq Enabled}

\* After login everyone sees what he should.
LoginShowsMenus == Settled => UserSeesMenus /\ RootSeesMenus

\* A search for a name shows every match with all above and all below it.
NameShowsBranches ==
    \A o \in Orders, S \in SUBSET Rows :
        QueryByName(o, S) = TreeOf(o, Upward(S \cup UNION {Below(m) : m \in S}))

\* A code path of one code shows what is below the menu at the top with this code,
\* and says so if there is none.  It holds of no longer path: with two codes both are
\* looked for at the top (menu.biz.go:227).
CodeShowsBranch ==
    \A o \in Orders, c \in Code :
        LET S == {m \in Rows : menu[m].parent = Top /\ menu[m].code = c} IN
        /\ S = {} => QueryByCode(o, <<c>>) = NotFound
        /\ \A m \in S : QueryByCode(o, <<c>>) =
                TreeOf(o, IF Below(m) = {} THEN {} ELSE {m} \cup Below(m))

\* A search shows whole branches, each menu once and in order, whatever else
\* matches above or below it (menu.biz.go:244).
SearchShowsBranches == Settled => NameShowsBranches /\ (CodesDistinct(menu) => CodeShowsBranch)

==============================================================================
