------------------------------- MODULE MenuTree -------------------------------
(***************************************************************************)
(* The tree of menus (internal/mods/rbac/biz/menu.biz.go).                 *)
(*                                                                         *)
(* A row names its parent and also carries the whole path down to it; the  *)
(* path is how the code finds the menus below (LIKE 'path%').  Create,     *)
(* Update and Delete read what they need one query after the other, before *)
(* they open their transaction, so anything may commit in between.  The    *)
(* transaction itself is one step: its writes are serialised by the row    *)
(* locks of the database.                                                  *)
(*                                                                         *)
(* A process that starts goes through the menu file in one transaction: it *)
(* reads a snapshot of the table and creates what it does not find there.  *)
(***************************************************************************)
EXTENDS Naturals, FiniteSets, Sequences, SequencesExt, Functions

CONSTANTS Writer,    \* goroutines that serve requests on menus
          Menu,      \* identifiers
          Code,
          Top,       \* the empty parent_id
          Nil,       \* no row, no operation
          File,      \* the menu file: each item comes after the one it is under
          InitTrees, \* the tables at start, one way or another
          MaxOps,    \* bound: operations begun
          MaxFaults  \* bound: failures

VARIABLES
    menu,       \* the committed row of each identifier
    used,       \* identifiers handed out so far
    pc, op,     \* each writer's program counter and operation
    late,       \* history: writers whose view of the tree is out of date
    lateCode,   \* history: writers whose check of the code is out of date
    slips,      \* history: what went wrong so far
    ops, faults \* counters of the bounds

vars == <<menu, used, pc, op, late, lateCode, slips, ops, faults>>

Status == {"enabled", "disabled"}
Form == [parent : Menu \cup {Top}, code : Code, status : Status]
Row == [parent : Menu \cup {Top}, path : Seq(Menu), code : Code, status : Status]
Op == [kind : {"create", "update", "delete"}, menu : Menu, form : Form,
       old : Row, path : Seq(Menu), kids : SUBSET (Menu \X Seq(Menu))]
Load == [kind : {"load"}, seen : [Menu -> Row \cup {Nil}]]
\* An item has a code and no id, as in both files of the repository, and so it is
\* looked for by its code: of the three ways to look for one (menu.biz.go:75) those by
\* id and by name are not modelled.
Item == [code : Code, status : Status, above : Nat]
Slip == {"late", "late code", "below itself", "code kept"}

RowsOf(t) == {m \in Menu : t[m] # Nil}

\* ParentPathPrefix, the path of the children of m in the row r.
Prefix(m, r) == Append(r.path, m)

\* In the table t, m is at the top, or its parent is there and its path is that
\* of the parent with the parent appended.
Hung(t, m) ==
    \/ t[m].parent = Top /\ t[m].path = <<>>
    \/ /\ t[m].parent \in RowsOf(t)
       /\ t[m].path = Prefix(t[m].parent, t[t[m].parent])
Tree(t) == \A m \in RowsOf(t) : Hung(t, m)

\* A place in the tree, and what a code is unique for; none without a row.
Place(r) == IF r = Nil THEN <<>> ELSE <<r.parent, r.path>>
Level(r) == IF r = Nil THEN <<>> ELSE <<r.parent, r.code>>

CodesDistinct(t) == \A m, n \in RowsOf(t) : m # n => Level(t[m]) # Level(t[n])

ASSUME MenuTreeAssumption ==
    /\ Top \notin Menu
    /\ Nil \notin Row /\ Nil \notin Op /\ Nil \notin Load /\ Nil \notin Menu \cup {Top}
    /\ File \in Seq(Item)
    /\ \A i, j \in 1..Len(File) :
         /\ File[i].above < i
         /\ i # j /\ File[i].above = File[j].above => File[i].code # File[j].code
    /\ InitTrees \subseteq {t \in [Menu -> Row \cup {Nil}] : Tree(t) /\ CodesDistinct(t)}
    /\ MaxOps \in Nat /\ MaxFaults \in Nat

Rows == RowsOf(menu)

\* The menus of the table t found below the path p.
Under(t, p) == {n \in Menu : t[n] # Nil /\ IsPrefix(p, t[n].path)}

Init ==
    /\ menu \in InitTrees
    /\ used = Rows
    /\ pc = [w \in Writer |-> "idle"] /\ op = [w \in Writer |-> Nil]
    /\ late = {} /\ lateCode = {} /\ slips = {}
    /\ ops = 0 /\ faults = 0

-----------------------------------------------------------------------------
(* The reads before the transaction.                                       *)

Begin(w, o, where) ==
    /\ pc[w] = "idle"
    /\ ops < MaxOps
    /\ ops' = ops + 1
    /\ op' = [op EXCEPT ![w] = o]
    /\ pc' = [pc EXCEPT ![w] = where]
    /\ UNCHANGED <<menu, late, lateCode, slips, faults>>

Goto(w, where) ==
    /\ pc' = [pc EXCEPT ![w] = where]
    /\ UNCHANGED <<menu, used, late, lateCode, slips, ops, faults>>

Finish(w) ==
    /\ pc' = [pc EXCEPT ![w] = "idle"]
    /\ op' = [op EXCEPT ![w] = Nil]

\* An error before the transaction: the request changes nothing.
Refuse(w) ==
    /\ Finish(w)
    /\ late' = late \ {w} /\ lateCode' = lateCode \ {w}
    /\ UNCHANGED <<menu, used, slips, ops, faults>>

\* Mutant: an identifier is not taken as soon as it is handed out.
CreateLate(w) ==
    \E m \in Menu \ used, f \in Form :
        /\ Begin(w, [kind |-> "create", menu |-> m, form |-> f,
                     old |-> [parent |-> Top, path |-> <<>>, code |-> f.code, status |-> f.status],
                     path |-> <<>>, kids |-> {}],
                 IF f.parent = Top THEN "code" ELSE "parent")
        /\ UNCHANGED used

\* A new row has an identifier nobody else has (util.NewXID).
Create(w) ==
    \E m \in Menu \ used, f \in Form :
        /\ Begin(w, [kind |-> "create", menu |-> m, form |-> f,
                     old |-> [parent |-> Top, path |-> <<>>, code |-> f.code, status |-> f.status],
                     path |-> <<>>, kids |-> {}],
                 IF f.parent = Top THEN "code" ELSE "parent")
        /\ used' = used \cup {m}

\* The row is read and kept.  A form with the same parent leaves the path as it
\* was read.
Update(w) ==
    \E m \in Rows, f \in Form :
        /\ Begin(w, [kind |-> "update", menu |-> m, form |-> f, old |-> menu[m],
                     path |-> IF f.parent = menu[m].parent THEN menu[m].path ELSE <<>>,
                     kids |-> {}],
                 IF f.parent = menu[m].parent THEN "code"
                 ELSE IF f.parent = Top THEN "children" ELSE "parent")
        /\ UNCHANGED used

Delete(w) ==
    \E m \in Rows :
        /\ Begin(w, [kind |-> "delete", menu |-> m,
                     form |-> [parent |-> menu[m].parent, code |-> menu[m].code,
                               status |-> menu[m].status],
                     old |-> menu[m], path |-> <<>>, kids |-> {}],
                 "children")
        /\ UNCHANGED used

\* InitFromFile opens its transaction.
StartLoad(w) ==
    /\ Begin(w, [kind |-> "load", seen |-> menu], "load")
    /\ UNCHANGED used

\* The new parent is looked up; nothing is asked of where it hangs.
ReadParent(w) ==
    /\ pc[w] = "parent"
    /\ LET p == op[w].form.parent IN
         IF menu[p] = Nil THEN Refuse(w)
         ELSE /\ op' = [op EXCEPT ![w].path = Prefix(p, menu[p])]
              /\ Goto(w, IF op[w].kind = "create" THEN "code" ELSE "children")

\* The menus below are listed with their paths.
ReadChildren(w) ==
    /\ pc[w] = "children"
    /\ op' = [op EXCEPT ![w].kids =
                {<<n, menu[n].path>> : n \in Under(menu, Prefix(op[w].menu, op[w].old))}]
    /\ Goto(w, IF op[w].kind = "delete" THEN "ready" ELSE "code")

\* Mutant: the code is looked for among all the menus of a new row's parent but
\* never for an update.
CheckCodeOfNew(w) ==
    /\ pc[w] = "code"
    /\ LET f == op[w].form IN
         IF /\ op[w].kind = "create"
            /\ \E n \in Rows : menu[n].parent = f.parent /\ menu[n].code = f.code
         THEN Refuse(w)
         ELSE UNCHANGED op /\ Goto(w, "ready")

\* The code must be free at its level.  An update that keeps its code does not
\* look, not even when it moves to another level.
CheckCode(w) ==
    /\ pc[w] = "code"
    /\ LET f == op[w].form IN
         IF /\ op[w].kind = "create" \/ f.code # op[w].old.code
            /\ \E n \in Rows : menu[n].parent = f.parent /\ menu[n].code = f.code
         THEN Refuse(w)
         ELSE UNCHANGED op /\ Goto(w, "ready")

-----------------------------------------------------------------------------
(* The transactions.                                                       *)

Created(o) == [parent |-> o.form.parent, path |-> o.path,
               code |-> o.form.code, status |-> o.form.status]

\* The table t after the status of a menu was pushed to those below.
Spread(t, o) ==
    LET below == Under(t, Prefix(o.menu, o.old))
    IN  [n \in Menu |-> IF o.old.status # o.form.status /\ n \in below
                        THEN [t[n] EXCEPT !.status = o.form.status] ELSE t[n]]

\* The table t after the listed menus below got their new paths.
Rehang(t, o) ==
    LET tail(p) == SubSeq(p, Len(o.old.path) + 2, Len(p))
        new(k) == Append(o.path, o.menu) \o tail(k[2])
    IN  [n \in Menu |-> IF t[n] = Nil THEN Nil
                        ELSE IF \E k \in o.kids : k[1] = n
                        THEN [t[n] EXCEPT !.path = new(CHOOSE k \in o.kids : k[1] = n)]
                        ELSE t[n]]

\* The row is saved whole, if it is still there.
Save(t, o) == [t EXCEPT ![o.menu] = IF @ = Nil THEN Nil ELSE Created(o)]

\* Mutant: the paths are rewritten before the status is pushed.
SavedInOtherOrder(o) == Save(Spread(Rehang(menu, o), o), o)

Saved(o) == Save(Rehang(Spread(menu, o), o), o)

\* Mutant: the listed menus below are left alone.
RemovedAlone(o) == [menu EXCEPT ![o.menu] = Nil]

Removed(o) == [n \in Menu |-> IF n = o.menu \/ \E k \in o.kids : k[1] = n THEN Nil ELSE menu[n]]

\* Mutant: the code is looked up without the parent.
FileMenuAnywhere(t) ==
    LET at[i \in 1..Len(File)] ==
          LET S == {n \in Menu : t[n] # Nil /\ t[n].code = File[i].code}
          IN  IF S = {} THEN Nil ELSE CHOOSE n \in S : TRUE
    IN  at

\* The menu of each item of the file in the table t, by its code below the menu of
\* the item it is under; Nil if it is to be created.
FileMenu(t) ==
    LET at[i \in 1..Len(File)] ==
          LET up == File[i].above
              p == IF up = 0 THEN Top ELSE at[up]
              S == {n \in Menu : t[n] # Nil /\ t[n].parent = p /\ t[n].code = File[i].code}
          IN  IF p = Nil \/ S = {} THEN Nil ELSE CHOOSE n \in S : TRUE
    IN  at

\* The menu of an item, where new gives the identifiers of those to create.
MenuOf(at, new, i) == IF at[i] = Nil THEN new[i] ELSE at[i]

\* The path of each item that is created: that of what it is under, as read if it
\* was found.
FilePath(t, new) ==
    LET at == FileMenu(t)
        path[i \in 1..Len(File)] ==
          LET up == File[i].above IN
          IF up = 0 THEN <<>>
          ELSE Append(IF at[up] = Nil THEN path[up] ELSE t[at[up]].path, MenuOf(at, new, up))
    IN  path

\* The row of an item: one that was found is written back whole and as read.
FileRow(t, new, i) ==
    LET at == FileMenu(t)
        up == File[i].above
    IN  IF at[i] # Nil THEN [t[at[i]] EXCEPT !.status = File[i].status]
        ELSE [parent |-> IF up = 0 THEN Top ELSE MenuOf(at, new, up),
              path |-> FilePath(t, new)[i], code |-> File[i].code, status |-> File[i].status]

\* The table after createInBatchByParent.  Of what it found it writes the rows
\* that differ from the file, be it in a column that is left out here.
Loaded(o, new, differ) ==
    LET at == FileMenu(o.seen)
        written == {i \in 1..Len(File) :
                      \/ at[i] = Nil
                      \/ /\ menu[at[i]] # Nil
                         /\ at[i] \in differ \/ o.seen[at[i]].status # File[i].status}
        items(n) == {i \in written : MenuOf(at, new, i) = n}
    IN  [n \in Menu |-> IF items(n) = {} THEN menu[n]
                        ELSE FileRow(o.seen, new, CHOOSE i \in items(n) : TRUE)]

\* The operation moves its menu to another parent.
Moves(o) == o.kind = "update" /\ o.form.parent # o.old.parent

\* What this commit does wrong, if anything: it rests on rows or on a check
\* that changed since, hangs a menu below itself, or takes a code along.
Slips(w) ==
    LET o == op[w] IN
    {s \in Slip :
        \/ s = "late" /\ w \in late
        \/ s = "late code" /\ w \in lateCode
        \/ /\ s = "below itself" /\ Moves(o)
           /\ o.form.parent \in Under(menu, Prefix(o.menu, o.old)) \cup {o.menu}
        \/ s = "code kept" /\ Moves(o) /\ o.form.code = o.old.code}

\* The rows an operation relies on: its menu, all below it, and its new parent.
Relied(o) ==
    IF o.kind = "load" THEN Range(FileMenu(o.seen)) \ {Nil}
    ELSE {o.menu, o.form.parent} \cup Under(menu, Prefix(o.menu, o.old))
            \cup Under(menu', Prefix(o.menu, o.old))

\* The places an operation means to take, as parent and code.
Wanted(o) ==
    LET at == FileMenu(o.seen) IN
    IF o.kind # "load" THEN {<<o.form.parent, o.form.code>>}
    ELSE {<<Top, File[i].code>> : i \in {j \in 1..Len(File) : File[j].above = 0}}
         \cup {<<at[File[i].above], File[i].code>> :
                 i \in {j \in 1..Len(File) : File[j].above # 0}}

\* The commit of w makes other writers late.
Outdates(w) ==
    LET others == {v \in Writer \ {w} : pc[v] # "idle"}
        moved == {n \in Menu : Place(menu[n]) # Place(menu'[n])}
        coded == {n \in Menu : menu'[n] # Nil /\ Level(menu'[n]) # Level(menu[n])}
    IN  /\ late' = (late \ {w}) \cup {v \in others : moved \cap Relied(op[v]) # {}}
        /\ lateCode' = (lateCode \ {w}) \cup
             {v \in others : \E n \in coded :
                               /\ Level(menu'[n]) \in Wanted(op[v])
                               /\ op[v].kind # "load" => n # op[v].menu}

\* InitFromFile commits.
CommitLoad(w) ==
    /\ pc[w] = "load"
    /\ LET at == FileMenu(op[w].seen)
           found == Range(at) \ {Nil}
           missing == {i \in DOMAIN at : at[i] = Nil}
       IN  \E new \in [missing -> Menu \ used], differ \in SUBSET found :
             /\ IsInjective(new)
             /\ menu' = Loaded(op[w], new, differ)
             /\ used' = used \cup Range(new)
    /\ slips' = slips \cup Slips(w)
    /\ Outdates(w)
    /\ Finish(w)
    /\ UNCHANGED <<ops, faults>>

Commit(w) ==
    /\ pc[w] = "ready"
    /\ menu' = CASE op[w].kind = "create" -> [menu EXCEPT ![op[w].menu] = Created(op[w])]
                 [] op[w].kind = "update" -> Saved(op[w])
                 [] op[w].kind = "delete" -> Removed(op[w])
    /\ slips' = slips \cup Slips(w)
    /\ Outdates(w)
    /\ Finish(w)
    /\ UNCHANGED <<used, ops, faults>>

\* A failed query or transaction, or a crash: nothing is committed.
Fail(w) ==
    /\ pc[w] # "idle"
    /\ faults < MaxFaults
    /\ faults' = faults + 1
    /\ Finish(w)
    /\ late' = late \ {w} /\ lateCode' = lateCode \ {w}
    /\ UNCHANGED <<menu, used, slips, ops>>

-----------------------------------------------------------------------------

Next == \E w \in Writer : \/ Create(w) \/ Update(w) \/ Delete(w)
                          \/ ReadParent(w) \/ ReadChildren(w) \/ CheckCode(w)
                          \/ Commit(w) \/ StartLoad(w) \/ CommitLoad(w) \/ Fail(w)

Spec == Init /\ [][Next]_vars

-----------------------------------------------------------------------------
(* Properties.                                                             *)

TypeOK ==
    /\ menu \in [Menu -> Row \cup {Nil}]
    /\ Rows \subseteq used /\ used \subseteq Menu
    /\ pc \in [Writer -> {"idle", "parent", "children", "code", "ready", "load"}]
    /\ op \in [Writer -> Op \cup Load \cup {Nil}]
    /\ \A w \in Writer : CASE pc[w] = "idle" -> op[w] = Nil
                         [] pc[w] = "load" -> op[w] \in Load
                         [] OTHER -> op[w] \in Op
    /\ late \subseteq Writer /\ lateCode \subseteq Writer /\ slips \subseteq Slip
    /\ ops \in 0..MaxOps /\ faults \in 0..MaxFaults

\* The parent of every menu is there, and its path is that of the parent with
\* the parent appended: as long as no operation committed on a view of the
\* tree that was out of date and no menu was hung below itself, the path tells
\* exactly what is below a menu.
PathsFollowParents == slips \cap {"late", "below itself"} = {} => Tree(menu)

\* Two menus of one parent have different codes, as long as no operation
\* committed on a check out of date and no menu was moved with its code.
CodesUniqueUnlessSlipped == slips \cap {"late code", "code kept"} = {} => CodesDistinct(menu)

\* When the status of a menu changes, every menu that ends up below it has the
\* new status, also when the same operation moves it: nothing below keeps a
\* status of its own.
StatusSpreads ==
    [][\A w \in Writer :
         /\ pc[w] = "ready" /\ pc'[w] = "idle" /\ op[w].kind = "update"
         /\ op[w].form.status # op[w].old.status
         /\ menu # menu' /\ slips' \cap {"late", "below itself"} = {}
         => \A n \in Under(menu', Prefix(op[w].menu, menu'[op[w].menu])) :
              menu'[n].status = op[w].form.status]_vars

\* The menus of the table t that stand where the file has each of its items: the
\* same codes all the way up.
Named(t) ==
    LET at[i \in 1..Len(File)] ==
          {n \in Menu : /\ t[n] # Nil /\ t[n].code = File[i].code
                        /\ IF File[i].above = 0 THEN t[n].parent = Top
                           ELSE t[n].parent \in at[File[i].above]}
    IN  at

\* A process that started has every item of the menu file in the table, once, also
\* when an earlier start or a request has created some of them (main.go:44), unless
\* they changed while it went through the file.
FileInstalled ==
    [][\A w \in Writer :
         /\ pc[w] = "load" /\ pc'[w] = "idle" /\ faults' = faults
         /\ CodesDistinct(menu) /\ Named(op[w].seen) = Named(menu)
         => \A i \in 1..Len(File) : Cardinality(Named(menu')[i]) = 1]_vars

\* "Code of menu (unique for each level)" (schema/menu.go:28): two menus of one
\* parent never have the same code.
CodeUniqueForEachLevel == CodesDistinct(menu)

=============================================================================
