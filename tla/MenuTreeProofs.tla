---------------------------- MODULE MenuTreeProofs ----------------------------
(***************************************************************************)
(* Theorems about MenuTree and MenuQuery for any menus, codes, writers,    *)
(* menu files, orders of the menus and tables to start with.               *)
(*                                                                         *)
(* Neither property of the tree is inductive.  It takes what each writer   *)
(* still knows at its commit: unless it is late, the places that it has    *)
(* read are those of the table, and unless its check of the code is late,  *)
(* nobody else has the level that it is about to take.  Paths have any     *)
(* length and items of the menu file any depth, so some of the lemmas are  *)
(* proved by induction, which is derived here from the least number.       *)
(*                                                                         *)
(* The queries carry a list along a list of menus.  What one such fold     *)
(* gives for the empty list and for one more menu is proved once; what     *)
(* the queries answer follows by induction on lists and, since the path    *)
(* of a row is the set of those above it, does not depend on how the list  *)
(* was put together.                                                       *)
(***************************************************************************)
EXTENDS MenuQuery, SequenceTheorems, FiniteSetTheorems, WellFoundedInduction, TLAPS

Table == [Menu -> Row \cup {Nil}]
Count == Len(File)

\* The menu above an item of the file, Nil if it is yet to be created.
Over(at, i) == IF File[i].above = 0 THEN Top ELSE at[File[i].above]
Found(t, p, i) == {n \in Menu : t[n] # Nil /\ t[n].parent = p /\ t[n].code = File[i].code}

Active(w) == pc[w] \in {"parent", "children", "code", "ready"}
Creates(w) == Active(w) /\ op[w].kind = "create"

\* What an operation is at each step of its writer, and that identifiers are
\* used before they are anybody's.
Fits(w) ==
    LET o == op[w] IN
    /\ o.menu \in used
    /\ o.kind = "create" => pc[w] # "children"
    /\ o.kind = "delete" => pc[w] \in {"children", "ready"}
    /\ pc[w] = "parent" => o.form.parent # Top
    /\ pc[w] # "parent" => o.form.parent \in used \cup {Top}
TypeInv ==
    /\ TypeOK
    /\ \A m \in Rows : menu[m].parent \in used \cup {Top}
    /\ \A w \in Writer : Active(w) => Fits(w)
    /\ \A w \in Writer : pc[w] = "load" => RowsOf(op[w].seen) \subseteq used
    /\ \A w \in Writer : Creates(w) => menu[op[w].menu] = Nil
    /\ \A v, w \in Writer : v # w /\ Creates(v) /\ Creates(w) => op[v].menu # op[w].menu

\* The path that o has read is that of the children of its parent in t.
PathRead(t, o) ==
    \/ o.form.parent = Top /\ o.path = <<>>
    \/ o.form.parent \in RowsOf(t) /\ o.path = Prefix(o.form.parent, t[o.form.parent])

\* The menus that o has listed are those below it in t, with their paths.
KidsRead(t, o) ==
    o.kids = {<<n, t[n].path>> : n \in Under(t, Prefix(o.menu, o.old))}

\* What w has read of the tree and finds in the table t.
View(w, t) ==
    LET o == op[w] IN
    IF o.kind = "load"
    THEN \A n \in Range(FileMenu(o.seen)) \ {Nil} : Place(t[n]) = Place(o.seen[n])
    ELSE /\ o.kind # "create" => Place(t[o.menu]) = Place(o.old)
         /\ o.kind = "create" /\ pc[w] # "parent" => PathRead(t, o)
         /\ Moves(o) /\ pc[w] # "parent" => PathRead(t, o)
         /\ o.kind = "update" /\ ~Moves(o) =>
              pc[w] \in {"code", "ready"} /\ o.path = o.old.path /\ o.kids = {}
         /\ Moves(o) /\ pc[w] \in {"code", "ready"} => KidsRead(t, o)
         /\ o.kind = "delete" /\ pc[w] = "ready" => KidsRead(t, o)
TreeInv ==
    slips \cap {"late", "below itself"} = {} =>
        /\ Tree(menu)
        /\ \A w \in Writer \ late : pc[w] # "idle" => View(w, menu)

\* The operation keeps its level, or has found the level free that it takes.
Keeps(o) == o.kind = "update" /\ ~Moves(o) /\ o.form.code = o.old.code
Checked(w) ==
    LET o == op[w] IN
    pc[w] = "ready" /\ (o.kind = "create" \/ (o.kind = "update" /\ o.form.code # o.old.code))

\* Nobody but the menu of o, or of the item, has in t a level that w wants.
CodeView(w, t) ==
    LET o == op[w]
        at == FileMenu(o.seen)
    IN  IF o.kind = "load"
        THEN \A i \in 1..Count, n \in RowsOf(t) :
                Level(t[n]) = <<Over(at, i), File[i].code>> => n = at[i]
        ELSE Keeps(o) \/ Checked(w) =>
                \A n \in RowsOf(t) \ {o.menu} : Level(t[n]) # <<o.form.parent, o.form.code>>
CodeInv ==
    slips \cap {"late code", "code kept"} = {} =>
        /\ CodesDistinct(menu)
        /\ \A w \in Writer \ lateCode : pc[w] # "idle" => CodeView(w, menu)

\* The inductive invariant.
IInv == TypeInv /\ TreeInv /\ CodeInv

-----------------------------------------------------------------------------
(* Induction.                                                              *)

Less == {e \in Nat \X Nat : e[1] < e[2]}
\* A set of numbers has a least one.
LEMMA LeastNumber ==
  ASSUME NEW T \in SUBSET Nat, T # {}
  PROVE  \E n \in T : \A k \in T : n <= k
<1>0. IsWellFoundedOn(Less, Nat)
  <2>1. Less = OpToRel(<, Nat)
    BY DEF Less, OpToRel
  <2>. QED BY <2>1, NatLessThanWellFounded
<1>1. PICK n \in T : \A k \in T : ~(<<k, n>> \in Less)
  BY <1>0, WFMin
<1>2. ASSUME NEW k \in T PROVE n <= k
  <2>1. n \in Nat /\ k \in Nat /\ <<k, n>> \notin Less
    BY <1>1
  <2>2. <<k, n>> \in Less <=> k < n
    BY <2>1 DEF Less
  <2>. QED BY <2>1, <2>2
<1>. QED BY <1>2

\* So a set with 0 that is closed under the successor has them all.
LEMMA SetInduction ==
  ASSUME NEW S, 0 \in S, \A n \in Nat : n \in S => n + 1 \in S
  PROVE  Nat \subseteq S
<1>. DEFINE T == Nat \ S
<1>. SUFFICES ASSUME T # {} PROVE FALSE
  OBVIOUS
<1>1. T \in SUBSET Nat
  OBVIOUS
<1>. HIDE DEF T
<1>2. PICK n \in T : \A k \in T : n <= k
  BY <1>1, LeastNumber
<1>3. n \in Nat /\ n # 0 /\ n \notin S
  BY DEF T
<1>4. n - 1 \in Nat /\ ~(n <= n - 1) /\ (n - 1) + 1 = n
  BY <1>3
<1>5. n - 1 \in S
  BY <1>2, <1>4 DEF T
<1>. QED BY <1>3, <1>4, <1>5

\* A forest on 1..N whose parents come first, with a value in V for each root (a)
\* and a function of the parent's value for every other node (s); and what it is
\* for f to give values accordingly.
Forest(N, up, V, a, s) ==
    /\ N \in Nat /\ up \in [1..N -> Nat]
    /\ \A i \in 1..N : up[i] < i
    /\ a \in [1..N -> V] /\ s \in [(1..N) \X V -> V]
Values(n, up, a, s, f) ==
    \A i \in 1..n : f[i] = IF up[i] = 0 THEN a[i] ELSE s[<<i, f[up[i]]>>]

LEMMA TreeRecursion ==
  \A N, up, V, a, s : Forest(N, up, V, a, s) => \E f \in [1..N -> V] : Values(N, up, a, s, f)
<1>. SUFFICES ASSUME NEW N \in Nat, NEW up \in [1..N -> Nat], \A i \in 1..N : up[i] < i,
                     NEW V, NEW a \in [1..N -> V], NEW s \in [(1..N) \X V -> V]
              PROVE  \E f \in [1..N -> V] : Values(N, up, a, s, f)
  BY DEF Forest
<1>. USE DEF Values
<1>. DEFINE Solves(f, n) == Values(n, up, a, s, f)
            S == {n \in Nat : n <= N => \E f \in [1..n -> V] : Solves(f, n)}
<1>1. 0 \in S
  <2>1. [i \in 1..0 |-> a[i]] \in [1..0 -> V]
    OBVIOUS
  <2>2. \A f : Solves(f, 0)
    OBVIOUS
  <2>. QED BY <2>1, <2>2
<1>2. ASSUME NEW n \in Nat, n \in S PROVE n + 1 \in S
  <2>. SUFFICES ASSUME n + 1 <= N PROVE \E f \in [1..n+1 -> V] : Solves(f, n + 1)
    OBVIOUS
  <2>1. PICK f \in [1..n -> V] : Solves(f, n)
    BY <1>2
  <2>. DEFINE new == IF up[n+1] = 0 THEN a[n+1] ELSE s[<<n+1, f[up[n+1]]>>]
              g == [i \in 1..n+1 |-> IF i = n + 1 THEN new ELSE f[i]]
  <2>2. new \in V
    <3>1. n + 1 \in 1..N /\ (up[n+1] # 0 => up[n+1] \in 1..n)
      OBVIOUS
    <3>. QED BY <3>1
  <2>3. g \in [1..n+1 -> V] /\ (\A i \in 1..n : g[i] = f[i]) /\ g[n+1] = new
    <3>1. \A i \in 1..n+1 : i # n + 1 => i \in 1..n
      OBVIOUS
    <3>2. g \in [1..n+1 -> V]
      BY <2>2, <3>1
    <3>3. \A i \in 1..n : g[i] = f[i]
      OBVIOUS
    <3>4. n + 1 \in 1..n+1
      OBVIOUS
    <3>. QED BY <3>2, <3>3, <3>4
  <2>4. \A i \in 1..n+1 : up[i] # 0 => up[i] \in 1..n
    OBVIOUS
  <2>. HIDE DEF g
  <2>5. Solves(g, n + 1)
    <3>1. ASSUME NEW i \in 1..n+1 PROVE g[i] = IF up[i] = 0 THEN a[i] ELSE s[<<i, g[up[i]]>>]
      <4>0. up[i] # 0 => up[i] \in 1..n /\ g[up[i]] = f[up[i]]
        BY <2>3, <2>4
      <4>1. CASE i = n + 1
        BY <4>0, <4>1 DEF g
      <4>2. CASE i \in 1..n
        BY <2>1, <2>3, <4>0, <4>2
      <4>. QED BY <4>1, <4>2
    <3>. QED BY <3>1
  <2>. QED BY <2>3, <2>5
<1>. HIDE DEF S
<1>3. Nat \subseteq S
  BY <1>1, <1>2, SetInduction
<1>4. N \in S
  BY <1>3
<1>5. N <= N
  OBVIOUS
<1>6. \E f \in [1..N -> V] : Solves(f, N)
  BY <1>4, <1>5 DEF S
<1>. QED BY <1>6

-----------------------------------------------------------------------------
(* The menu file.                                                          *)

\* Each item comes after the one it is under.
LEMMA FileTyped ==
  /\ Count \in Nat
  /\ \A i \in 1..Count :
       /\ File[i] \in Item /\ File[i].above \in Nat /\ File[i].above < i
       /\ File[i].above # 0 => File[i].above \in 1..Count
<1>1. File \in Seq(Item) /\ Count \in Nat
  BY MenuTreeAssumption DEF Count
<1>2. ASSUME NEW i \in 1..Count
      PROVE  /\ File[i] \in Item /\ File[i].above \in Nat /\ File[i].above < i
             /\ File[i].above # 0 => File[i].above \in 1..Count
  <2>1. File[i] \in Item
    BY <1>1 DEF Count
  <2>2. File[i].above \in Nat /\ File[i].above < i
    BY <2>1, MenuTreeAssumption DEF Item, Count
  <2>. QED BY <1>1, <2>1, <2>2
<1>. QED BY <1>1, <1>2

Choice(t, p, i) ==
    IF p = Nil \/ Found(t, p, i) = {} THEN Nil ELSE CHOOSE n \in Found(t, p, i) : TRUE

\* FileMenu gives each item a menu or Nil, and does so by its defining equation.
LEMMA FileMenuIs ==
  ASSUME NEW t \in Table
  PROVE  /\ FileMenu(t) \in [1..Count -> Menu \cup {Nil}]
         /\ \A i \in 1..Count : FileMenu(t)[i] = Choice(t, Over(FileMenu(t), i), i)
<1>. DEFINE V == Menu \cup {Nil}
            up == [i \in 1..Count |-> File[i].above]
            a == [i \in 1..Count |-> Choice(t, Top, i)]
            s == [e \in (1..Count) \X V |-> Choice(t, e[2], e[1])]
            body(f, i) == Choice(t, IF File[i].above = 0 THEN Top ELSE f[File[i].above], i)
            at == FileMenu(t)
<1>1. \A p, i : Choice(t, p, i) \in V
  BY DEF Choice, Found
<1>2. Count \in Nat
  BY FileTyped
<1>3. up \in [1..Count -> Nat] /\ \A i \in 1..Count : up[i] < i
  BY FileTyped
<1>4. a \in [1..Count -> V] /\ s \in [(1..Count) \X V -> V]
  BY <1>1
<1>5. PICK f \in [1..Count -> V] : Values(Count, up, a, s, f)
  <2>. HIDE DEF V, up, a, s
  <2>1. Forest(Count, up, V, a, s)
    BY <1>2, <1>3, <1>4 DEF Forest
  <2>. QED BY <2>1, TreeRecursion
<1>6. ASSUME NEW i \in 1..Count PROVE f[i] = body(f, i)
  <2>1. CASE File[i].above = 0
    BY <1>5, <2>1 DEF Values
  <2>2. CASE File[i].above # 0
    <3>1. File[i].above \in 1..Count
      BY <2>2, FileTyped
    <3>2. f[File[i].above] \in V
      BY <1>5, <3>1
    <3>3. f[i] = s[<<i, f[File[i].above]>>]
      BY <1>5, <2>2 DEF Values
    <3>4. s[<<i, f[File[i].above]>>] = Choice(t, f[File[i].above], i)
      BY <3>2
    <3>. QED BY <2>2, <3>3, <3>4
  <2>. QED BY <2>1, <2>2
<1>7. f = [i \in 1..Count |-> body(f, i)]
  <2>. HIDE DEF body
  <2>. QED BY <1>5, <1>6
<1>8. at = CHOOSE g : g = [i \in 1..Count |-> body(g, i)]
  BY DEF FileMenu, Choice, Count, Found
<1>9. at = [i \in 1..Count |-> body(at, i)]
  <2>. HIDE DEF body, at
  <2>. QED BY <1>7, <1>8
<1>10. at \in [1..Count -> V]
  <2>. HIDE DEF at
  <2>1. \A i \in 1..Count : body(at, i) \in V
    BY <1>1
  <2>. HIDE DEF body
  <2>. QED BY <1>9, <2>1
<1>11. \A i \in 1..Count : at[i] = body(at, i)
  <2>. HIDE DEF body, at
  <2>. QED BY <1>9
<1>. QED BY <1>10, <1>11 DEF Over

\* What is known of the menu of an item: it is the one found below the menu above,
\* and an item has none only if nothing is found there or that menu is missing.
LEMMA FileMenuFound ==
  ASSUME NEW t \in Table, NEW i \in 1..Count
  PROVE  LET at == FileMenu(t) IN
         /\ at[i] \in Menu \cup {Nil} /\ Over(at, i) \in Menu \cup {Top, Nil}
         /\ at[i] # Nil => /\ at[i] \in RowsOf(t) /\ Over(at, i) # Nil
                           /\ t[at[i]].parent = Over(at, i) /\ t[at[i]].code = File[i].code
         /\ at[i] = Nil => Over(at, i) = Nil \/ Found(t, Over(at, i), i) = {}
<1>. DEFINE at == FileMenu(t)
<1>1. at \in [1..Count -> Menu \cup {Nil}] /\ at[i] = Choice(t, Over(at, i), i)
  BY FileMenuIs
<1>2. Over(at, i) \in Menu \cup {Top, Nil}
  <2>1. File[i].above # 0 => File[i].above \in 1..Count
    BY FileTyped
  <2>. HIDE DEF at
  <2>. QED BY <1>1, <2>1 DEF Over
<1>. HIDE DEF at
<1>3. at[i] # Nil => at[i] \in Found(t, Over(at, i), i) /\ Over(at, i) # Nil
  BY <1>1 DEF Choice
<1>4. at[i] = Nil => Over(at, i) = Nil \/ Found(t, Over(at, i), i) = {}
  <2>1. Nil \notin Menu
    BY MenuTreeAssumption
  <2>2. Found(t, Over(at, i), i) \subseteq Menu
    BY DEF Found
  <2>. QED BY <1>1, <2>1, <2>2 DEF Choice
<1>. QED BY <1>1, <1>2, <1>3, <1>4 DEF at, Found, RowsOf

Missing(t) == {i \in 1..Count : FileMenu(t)[i] = Nil}

LEMMA MenuOfTyped ==
  ASSUME NEW t \in Table, NEW new \in [Missing(t) -> Menu], NEW i \in 1..Count
  PROVE  MenuOf(FileMenu(t), new, i) \in Menu
BY FileMenuFound DEF MenuOf, Missing

\* FilePath gives paths, and does so by its defining equation.
PathBelow(t, new, up, p) ==
    Append(IF FileMenu(t)[up] = Nil THEN p ELSE t[FileMenu(t)[up]].path, MenuOf(FileMenu(t), new, up))

LEMMA FilePathIs ==
  ASSUME NEW t \in Table, NEW new \in [Missing(t) -> Menu]
  PROVE  /\ FilePath(t, new) \in [1..Count -> Seq(Menu)]
         /\ \A i \in 1..Count : FilePath(t, new)[i] =
              IF File[i].above = 0 THEN <<>>
              ELSE PathBelow(t, new, File[i].above, FilePath(t, new)[File[i].above])
<1>. DEFINE V == Seq(Menu)
            up == [i \in 1..Count |-> File[i].above]
            a == [i \in 1..Count |-> <<>>]
            s == [e \in (1..Count) \X V |->
                    IF File[e[1]].above = 0 THEN <<>> ELSE PathBelow(t, new, File[e[1]].above, e[2])]
            body(f, i) == IF File[i].above = 0 THEN <<>>
                          ELSE PathBelow(t, new, File[i].above, f[File[i].above])
            path == FilePath(t, new)
<1>1. ASSUME NEW i \in 1..Count, NEW p \in V PROVE PathBelow(t, new, i, p) \in V
  <2>1. MenuOf(FileMenu(t), new, i) \in Menu
    BY MenuOfTyped
  <2>2. FileMenu(t)[i] # Nil => t[FileMenu(t)[i]].path \in V
    <3>1. FileMenu(t)[i] # Nil => FileMenu(t)[i] \in RowsOf(t)
      BY FileMenuFound
    <3>. QED BY <3>1 DEF RowsOf, Table, Row
  <2>. QED BY <2>1, <2>2 DEF PathBelow
<1>2. Count \in Nat
  BY FileTyped
<1>3. up \in [1..Count -> Nat] /\ \A i \in 1..Count : up[i] < i
  BY FileTyped
<1>4. a \in [1..Count -> V] /\ s \in [(1..Count) \X V -> V]
  <2>1. <<>> \in V
    OBVIOUS
  <2>2. \A i \in 1..Count, p \in V :
          (IF File[i].above = 0 THEN <<>> ELSE PathBelow(t, new, File[i].above, p)) \in V
    <3>. HIDE DEF V
    <3>. QED BY <1>1, <2>1, FileTyped
  <2>. HIDE DEF V
  <2>. QED BY <2>1, <2>2
<1>5. PICK f \in [1..Count -> V] : Values(Count, up, a, s, f)
  <2>. HIDE DEF V, up, a, s
  <2>1. Forest(Count, up, V, a, s)
    BY <1>2, <1>3, <1>4 DEF Forest
  <2>. QED BY <2>1, TreeRecursion
<1>6. ASSUME NEW i \in 1..Count PROVE f[i] = body(f, i)
  <2>1. CASE File[i].above = 0
    BY <1>5, <2>1 DEF Values
  <2>2. CASE File[i].above # 0
    <3>1. File[i].above \in 1..Count
      BY <2>2, FileTyped
    <3>2. f[File[i].above] \in V
      BY <1>5, <3>1
    <3>3. f[i] = s[<<i, f[File[i].above]>>]
      BY <1>5, <2>2 DEF Values
    <3>4. s[<<i, f[File[i].above]>>] = PathBelow(t, new, File[i].above, f[File[i].above])
      <4>. HIDE DEF V
      <4>. QED BY <2>2, <3>2
    <3>. QED BY <2>2, <3>3, <3>4
  <2>. QED BY <2>1, <2>2
<1>7. f = [i \in 1..Count |-> body(f, i)]
  <2>. HIDE DEF body, V
  <2>. QED BY <1>5, <1>6
<1>8. path = CHOOSE g : g = [i \in 1..Count |-> body(g, i)]
  BY DEF FilePath, PathBelow, Count
<1>9. path = [i \in 1..Count |-> body(path, i)]
  <2>. HIDE DEF body, path
  <2>. QED BY <1>7, <1>8
<1>10. path \in [1..Count -> V]
  <2>. HIDE DEF path, V
  <2>. DEFINE S == {n \in Nat : \A i \in 1..Count : i <= n => path[i] \in V}
  <2>1. ASSUME NEW n \in Nat, n \in S PROVE n + 1 \in S
    <3>1. ASSUME NEW i \in 1..Count, i <= n + 1 PROVE path[i] \in V
      <4>1. path[i] = body(path, i)
        <5>. HIDE DEF body
        <5>. QED BY <1>9
      <4>2. CASE File[i].above = 0
        BY <4>1, <4>2 DEF V
      <4>3. CASE File[i].above # 0
        <5>1. File[i].above \in 1..Count /\ File[i].above <= n
          BY <1>2, <3>1, <4>3, FileTyped
        <5>2. path[File[i].above] \in V
          BY <2>1, <5>1
        <5>. QED BY <1>1, <4>1, <4>3, <5>1, <5>2
      <4>. QED BY <4>2, <4>3
    <3>. QED BY <3>1
  <2>2. 0 \in S
    OBVIOUS
  <2>. HIDE DEF S
  <2>3. Nat \subseteq S
    BY <2>1, <2>2, SetInduction
  <2>4. \A i \in 1..Count : path[i] \in V
    BY <1>2, <2>3 DEF S
  <2>. HIDE DEF body
  <2>. QED BY <1>9, <2>4
<1>11. \A i \in 1..Count : path[i] = body(path, i)
  <2>. HIDE DEF body, path
  <2>. QED BY <1>9
<1>. QED BY <1>10, <1>11

-----------------------------------------------------------------------------
(* What the transactions write.                                            *)

NewPath(o, p) == Append(o.path, o.menu) \o SubSeq(p, Len(o.old.path) + 2, Len(p))
Listed(o) == {k[1] : k \in o.kids}

\* Spread and Rehang change the status and the path of a row, and no more.
LEMMA SpreadRow ==
  ASSUME NEW t \in Table, NEW o \in Op
  PROVE  /\ Spread(t, o) \in Table
         /\ \A n \in Menu :
              /\ Spread(t, o)[n] = Nil <=> t[n] = Nil
              /\ t[n] # Nil => /\ Spread(t, o)[n].parent = t[n].parent
                               /\ Spread(t, o)[n].code = t[n].code
                               /\ Spread(t, o)[n].path = t[n].path
                               /\ o.old.status # o.form.status /\ n \in Under(t, Prefix(o.menu, o.old))
                                    => Spread(t, o)[n].status = o.form.status
<1>. DEFINE b(n) == IF o.old.status # o.form.status /\ n \in Under(t, Prefix(o.menu, o.old))
                    THEN [t[n] EXCEPT !.status = o.form.status] ELSE t[n]
<1>1. o.form.status \in Status /\ Nil \notin Row
  BY MenuTreeAssumption DEF Op, Form
<1>2. ASSUME NEW n \in Menu
      PROVE  /\ b(n) \in Row \cup {Nil}
             /\ b(n) = Nil <=> t[n] = Nil
             /\ t[n] # Nil => /\ b(n).parent = t[n].parent /\ b(n).code = t[n].code
                              /\ b(n).path = t[n].path
                              /\ o.old.status # o.form.status /\ n \in Under(t, Prefix(o.menu, o.old))
                                   => b(n).status = o.form.status
  <2>1. CASE t[n] = Nil
    BY <2>1 DEF Under
  <2>2. CASE t[n] # Nil
    <3>1. t[n] \in Row
      BY <2>2 DEF Table
    <3>2. [t[n] EXCEPT !.status = o.form.status] \in Row
      BY <1>1, <3>1 DEF Row
    <3>3. b(n) \in Row /\ b(n) # Nil
      BY <1>1, <3>1, <3>2
    <3>4. /\ b(n).parent = t[n].parent /\ b(n).code = t[n].code /\ b(n).path = t[n].path
          /\ o.old.status # o.form.status /\ n \in Under(t, Prefix(o.menu, o.old))
               => b(n).status = o.form.status
      BY <3>1 DEF Row
    <3>. QED BY <2>2, <3>3, <3>4
  <2>. QED BY <2>1, <2>2
<1>3. Spread(t, o) = [n \in Menu |-> b(n)]
  BY DEF Spread
<1>. HIDE DEF b
<1>. QED BY <1>2, <1>3 DEF Table

LEMMA RehangRow ==
  ASSUME NEW t \in Table, NEW o \in Op
  PROVE  /\ Rehang(t, o) \in Table
         /\ \A n \in Menu :
              /\ Rehang(t, o)[n] = Nil <=> t[n] = Nil
              /\ t[n] # Nil => /\ Rehang(t, o)[n].parent = t[n].parent
                               /\ Rehang(t, o)[n].code = t[n].code
                               /\ Rehang(t, o)[n].status = t[n].status
                               /\ n \notin Listed(o) => Rehang(t, o)[n].path = t[n].path
                               /\ n \in Listed(o) => \E k \in o.kids :
                                    k[1] = n /\ Rehang(t, o)[n].path = NewPath(o, k[2])
<1>. DEFINE some(n) == CHOOSE k \in o.kids : k[1] = n
            b(n) == IF t[n] = Nil THEN Nil
                    ELSE IF \E k \in o.kids : k[1] = n
                    THEN [t[n] EXCEPT !.path = NewPath(o, some(n)[2])] ELSE t[n]
<1>1. Nil \notin Row
  BY MenuTreeAssumption
<1>2. ASSUME NEW k \in o.kids PROVE NewPath(o, k[2]) \in Seq(Menu)
  <2>1. k[2] \in Seq(Menu) /\ o.path \in Seq(Menu) /\ o.menu \in Menu /\ o.old.path \in Seq(Menu)
    BY DEF Op, Row
  <2>2. SubSeq(k[2], Len(o.old.path) + 2, Len(k[2])) \in Seq(Menu)
    <3>1. Len(o.old.path) + 2 \in Nat /\ Len(o.old.path) + 2 >= 1 /\ Len(k[2]) \in Nat
      BY <2>1
    <3>2. \A i \in (Len(o.old.path) + 2)..Len(k[2]) : k[2][i] \in Menu
      BY <2>1, <3>1
    <3>. QED BY <2>1, <3>1, <3>2
  <2>. QED BY <2>1, <2>2 DEF NewPath
<1>3. ASSUME NEW n \in Menu
      PROVE  /\ b(n) \in Row \cup {Nil}
             /\ b(n) = Nil <=> t[n] = Nil
             /\ t[n] # Nil => /\ b(n).parent = t[n].parent /\ b(n).code = t[n].code
                              /\ b(n).status = t[n].status
                              /\ n \notin Listed(o) => b(n).path = t[n].path
                              /\ n \in Listed(o) => \E k \in o.kids :
                                    k[1] = n /\ b(n).path = NewPath(o, k[2])
  <2>1. CASE t[n] = Nil
    BY <2>1
  <2>2. CASE t[n] # Nil /\ n \notin Listed(o)
    <3>1. b(n) = t[n]
      BY <2>2 DEF Listed
    <3>2. t[n] \in Row
      BY <2>2 DEF Table
    <3>. HIDE DEF b
    <3>. QED BY <1>1, <2>2, <3>1, <3>2
  <2>3. CASE t[n] # Nil /\ n \in Listed(o)
    <3>1. some(n) \in o.kids /\ some(n)[1] = n
      BY <2>3 DEF Listed
    <3>. HIDE DEF some
    <3>2. b(n) = [t[n] EXCEPT !.path = NewPath(o, some(n)[2])]
      BY <2>3, <3>1
    <3>3. t[n] \in Row /\ NewPath(o, some(n)[2]) \in Seq(Menu)
      BY <1>2, <2>3, <3>1 DEF Table
    <3>. HIDE DEF b
    <3>4. b(n) \in Row /\ b(n).parent = t[n].parent /\ b(n).code = t[n].code
          /\ b(n).status = t[n].status /\ b(n).path = NewPath(o, some(n)[2])
      BY <3>2, <3>3 DEF Row
    <3>. QED BY <1>1, <2>3, <3>1, <3>4
  <2>. QED BY <2>1, <2>2, <2>3
<1>4. Rehang(t, o) = [n \in Menu |-> b(n)]
  BY DEF Rehang, NewPath
<1>. HIDE DEF b
<1>. QED BY <1>3, <1>4 DEF Table

LEMMA CreatedTyped ==
  ASSUME NEW o \in Op
  PROVE  /\ Created(o) \in Row /\ Created(o) # Nil
         /\ Created(o).parent = o.form.parent /\ Created(o).path = o.path
         /\ Created(o).code = o.form.code /\ Created(o).status = o.form.status
BY MenuTreeAssumption DEF Created, Op, Form, Row

\* The rows that an update leaves.
LEMMA SavedRow ==
  ASSUME menu \in Table, NEW o \in Op
  PROVE  /\ Saved(o) \in Table
         /\ \A n \in Menu :
              /\ Saved(o)[n] = Nil <=> menu[n] = Nil
              /\ n = o.menu /\ menu[n] # Nil => Saved(o)[n] = Created(o)
              /\ n # o.menu /\ menu[n] # Nil =>
                   /\ Saved(o)[n].parent = menu[n].parent /\ Saved(o)[n].code = menu[n].code
                   /\ n \notin Listed(o) => Saved(o)[n].path = menu[n].path
                   /\ n \in Listed(o) => \E k \in o.kids :
                        k[1] = n /\ Saved(o)[n].path = NewPath(o, k[2])
                   /\ o.old.status # o.form.status /\ n \in Under(menu, Prefix(o.menu, o.old))
                        => Saved(o)[n].status = o.form.status
<1>. DEFINE s == Spread(menu, o)
            r == Rehang(s, o)
<1>1. s \in Table
  BY SpreadRow
<1>2. r \in Table
  BY <1>1, RehangRow
<1>3. o.menu \in Menu
  BY DEF Op
<1>4. Saved(o) = [r EXCEPT ![o.menu] = IF r[o.menu] = Nil THEN Nil ELSE Created(o)]
  BY DEF Saved, Save
<1>5. Saved(o) \in Table
  <2>. HIDE DEF r
  <2>. QED BY <1>2, <1>4, CreatedTyped DEF Table
<1>6. ASSUME NEW n \in Menu
      PROVE  Saved(o)[n] = IF n = o.menu THEN IF r[n] = Nil THEN Nil ELSE Created(o) ELSE r[n]
  <2>. HIDE DEF r
  <2>. QED BY <1>2, <1>3, <1>4 DEF Table
<1>7. ASSUME NEW n \in Menu
      PROVE  /\ r[n] = Nil <=> s[n] = Nil
             /\ s[n] # Nil => /\ r[n].parent = s[n].parent /\ r[n].code = s[n].code
                              /\ r[n].status = s[n].status
                              /\ n \notin Listed(o) => r[n].path = s[n].path
                              /\ n \in Listed(o) => \E k \in o.kids :
                                   k[1] = n /\ r[n].path = NewPath(o, k[2])
  <2>. HIDE DEF s
  <2>. QED BY <1>1, RehangRow
<1>8. ASSUME NEW n \in Menu
      PROVE  /\ s[n] = Nil <=> menu[n] = Nil
             /\ menu[n] # Nil => /\ s[n].parent = menu[n].parent /\ s[n].code = menu[n].code
                                 /\ s[n].path = menu[n].path
                                 /\ o.old.status # o.form.status /\ n \in Under(menu, Prefix(o.menu, o.old))
                                      => s[n].status = o.form.status
  BY SpreadRow
<1>. HIDE DEF s, r
<1>. QED BY <1>5, <1>6, <1>7, <1>8, CreatedTyped

LEMMA RemovedRow ==
  ASSUME menu \in Table, NEW o \in Op
  PROVE  /\ Removed(o) \in Table
         /\ \A n \in Menu : Removed(o)[n] = IF n = o.menu \/ n \in Listed(o) THEN Nil ELSE menu[n]
BY DEF Removed, Listed, Table

LEMMA FileRowIs ==
  ASSUME NEW t \in Table, NEW new \in [Missing(t) -> Menu], NEW i \in 1..Count
  PROVE  LET at == FileMenu(t) r == FileRow(t, new, i) IN
         /\ r \in Row /\ r # Nil /\ r.code = File[i].code
         /\ at[i] # Nil => /\ r.parent = t[at[i]].parent /\ r.path = t[at[i]].path
         /\ at[i] = Nil => /\ r.path = FilePath(t, new)[i]
                           /\ r.parent = IF File[i].above = 0 THEN Top
                                         ELSE MenuOf(at, new, File[i].above)
<1>. DEFINE at == FileMenu(t)
            r == FileRow(t, new, i)
<1>1. File[i].code \in Code /\ File[i].status \in Status /\ Nil \notin Row
  BY FileTyped, MenuTreeAssumption DEF Item
<1>2. CASE at[i] # Nil
  <2>1. at[i] \in RowsOf(t) /\ t[at[i]].code = File[i].code
    BY <1>2, FileMenuFound
  <2>2. t[at[i]] \in Row
    BY <2>1 DEF RowsOf, Table
  <2>3. r = [t[at[i]] EXCEPT !.status = File[i].status]
    BY <1>2 DEF FileRow
  <2>. HIDE DEF at, r
  <2>4. r \in Row /\ r.code = File[i].code /\ r.parent = t[at[i]].parent /\ r.path = t[at[i]].path
    BY <1>1, <2>1, <2>2, <2>3 DEF Row
  <2>. QED BY <1>1, <1>2, <2>4 DEF at, r
<1>3. CASE at[i] = Nil
  <2>. DEFINE p == IF File[i].above = 0 THEN Top ELSE MenuOf(at, new, File[i].above)
  <2>1. FilePath(t, new)[i] \in Seq(Menu)
    BY FilePathIs
  <2>2. p \in Menu \cup {Top}
    BY MenuOfTyped, FileTyped
  <2>3. r = [parent |-> p, path |-> FilePath(t, new)[i], code |-> File[i].code,
             status |-> File[i].status]
    BY <1>3 DEF FileRow
  <2>. HIDE DEF at, r, p
  <2>4. r \in Row /\ r.code = File[i].code /\ r.parent = p /\ r.path = FilePath(t, new)[i]
    BY <1>1, <2>1, <2>2, <2>3 DEF Row
  <2>. QED BY <1>1, <1>3, <2>4 DEF at, r, p
<1>. QED BY <1>2, <1>3

\* A load leaves a menu alone or writes the row of an item to it, and it writes
\* all that it creates.
LEMMA LoadedRow ==
  ASSUME menu \in Table, NEW o, o.seen \in Table,
         NEW new \in [Missing(o.seen) -> Menu], NEW differ
  PROVE  LET at == FileMenu(o.seen) IN
         /\ Loaded(o, new, differ) \in Table
         /\ \A n \in Menu :
              \/ /\ Loaded(o, new, differ)[n] = menu[n]
                 /\ \A i \in Missing(o.seen) : new[i] # n
              \/ \E i \in 1..Count :
                   /\ MenuOf(at, new, i) = n
                   /\ Loaded(o, new, differ)[n] = FileRow(o.seen, new, i)
                   /\ at[i] = Nil \/ menu[at[i]] # Nil
<1>. DEFINE at == FileMenu(o.seen)
            written == {i \in 1..Count :
                          \/ at[i] = Nil
                          \/ /\ menu[at[i]] # Nil
                             /\ at[i] \in differ \/ o.seen[at[i]].status # File[i].status}
            items(n) == {i \in written : MenuOf(at, new, i) = n}
            pick(n) == CHOOSE i \in items(n) : TRUE
            b(n) == IF items(n) = {} THEN menu[n] ELSE FileRow(o.seen, new, pick(n))
<1>1. Loaded(o, new, differ) = [n \in Menu |-> b(n)]
  BY DEF Loaded, Count
<1>2. ASSUME NEW n \in Menu
      PROVE  /\ b(n) \in Row \cup {Nil}
             /\ \/ /\ b(n) = menu[n]
                   /\ \A i \in Missing(o.seen) : new[i] # n
                \/ \E i \in 1..Count :
                     /\ MenuOf(at, new, i) = n
                     /\ b(n) = FileRow(o.seen, new, i)
                     /\ at[i] = Nil \/ menu[at[i]] # Nil
  <2>1. CASE items(n) = {}
    <3>1. ASSUME NEW i \in Missing(o.seen) PROVE new[i] # n
      BY <2>1 DEF Missing, MenuOf
    <3>2. b(n) = menu[n]
      BY <2>1
    <3>. HIDE DEF b
    <3>. QED BY <3>1, <3>2 DEF Table
  <2>2. CASE items(n) # {}
    <3>1. pick(n) \in items(n)
      <4>. HIDE DEF items
      <4>. QED BY <2>2
    <3>2. b(n) = FileRow(o.seen, new, pick(n))
      BY <2>2
    <3>. HIDE DEF pick, b
    <3>3. pick(n) \in 1..Count /\ MenuOf(at, new, pick(n)) = n
          /\ (at[pick(n)] = Nil \/ menu[at[pick(n)]] # Nil)
      BY <3>1
    <3>4. b(n) \in Row
      BY <3>2, <3>3, FileRowIs
    <3>. HIDE DEF at
    <3>. QED BY <3>2, <3>3, <3>4
  <2>. QED BY <2>1, <2>2
<1>. HIDE DEF b
<1>3. Loaded(o, new, differ) \in Table
  BY <1>1, <1>2 DEF Table
<1>. QED BY <1>1, <1>2, <1>3

-----------------------------------------------------------------------------
(* Types.                                                                  *)

Steps == {"idle", "parent", "children", "code", "ready", "load"}

TableTypes ==
    /\ menu \in Table /\ Rows \subseteq used /\ used \subseteq Menu
    /\ \A m \in Rows : menu[m].parent \in used \cup {Top}

HistoryTypes ==
    /\ late \subseteq Writer /\ lateCode \subseteq Writer /\ slips \subseteq Slip
    /\ ops \in 0..MaxOps /\ faults \in 0..MaxFaults

WriterTypes(w) ==
    /\ pc[w] \in Steps
    /\ pc[w] = "idle" => op[w] = Nil
    /\ pc[w] = "load" => op[w] \in Load /\ RowsOf(op[w].seen) \subseteq used
    /\ Active(w) => op[w] \in Op /\ Fits(w)
    /\ Creates(w) => menu[op[w].menu] = Nil

CreatesDistinct ==
    \A v, w \in Writer : v # w /\ Creates(v) /\ Creates(w) => op[v].menu # op[w].menu

LEMMA TypeParts ==
  TypeInv <=> /\ TableTypes /\ HistoryTypes /\ CreatesDistinct
              /\ pc \in [Writer -> Steps] /\ op \in [Writer -> Op \cup Load \cup {Nil}]
              /\ \A w \in Writer : WriterTypes(w)
BY DEF TypeInv, TypeOK, TableTypes, HistoryTypes, CreatesDistinct, WriterTypes, Steps, Table,
       Active, Creates

LEMMA TypePartsNext ==
  TypeInv' <=> /\ TableTypes' /\ HistoryTypes' /\ CreatesDistinct'
               /\ pc' \in [Writer -> Steps] /\ op' \in [Writer -> Op \cup Load \cup {Nil}]
               /\ \A w \in Writer : WriterTypes(w)'
BY DEF TypeInv, TypeOK, TableTypes, HistoryTypes, CreatesDistinct, WriterTypes, Steps, Table,
       Active, Creates

\* A step of one writer keeps the types of the others if no identifier is taken
\* back and nobody else's new menu gets a row.
LEMMA StepTypes ==
  ASSUME TypeInv, NEW w \in Writer, NEW x, NEW y,
         pc' = [pc EXCEPT ![w] = x], op' = [op EXCEPT ![w] = y],
         TableTypes', HistoryTypes', WriterTypes(w)', used \subseteq used',
         \A v \in Writer \ {w} : Creates(v) => menu'[op[v].menu] = Nil,
         \A v \in Writer \ {w} : Creates(v) /\ Creates(w)' => op[v].menu # y.menu
  PROVE  TypeInv'
<1>1. /\ CreatesDistinct /\ pc \in [Writer -> Steps] /\ op \in [Writer -> Op \cup Load \cup {Nil}]
      /\ \A v \in Writer : WriterTypes(v)
  BY TypeParts
<1>2. pc'[w] = x /\ op'[w] = y /\ \A v \in Writer \ {w} : pc'[v] = pc[v] /\ op'[v] = op[v]
  BY <1>1
<1>3. \A v \in Writer \ {w} : (Active(v)' <=> Active(v)) /\ (Creates(v)' <=> Creates(v))
  BY <1>2 DEF Active, Creates
<1>4. ASSUME NEW v \in Writer \ {w} PROVE WriterTypes(v)'
  <2>1. WriterTypes(v) /\ pc'[v] = pc[v] /\ op'[v] = op[v]
    BY <1>1, <1>2
  <2>2. Active(v) /\ Fits(v) => Fits(v)'
    BY <2>1 DEF Fits
  <2>. QED BY <2>1, <2>2, <1>3 DEF WriterTypes
<1>5. x \in Steps /\ y \in Op \cup Load \cup {Nil}
  BY <1>2 DEF WriterTypes, Steps, Active
<1>6. pc' \in [Writer -> Steps] /\ op' \in [Writer -> Op \cup Load \cup {Nil}]
  BY <1>1, <1>5
<1>7. CreatesDistinct'
  <2>1. \A v, u \in Writer \ {w} : v # u /\ Creates(v)' /\ Creates(u)' => op'[v].menu # op'[u].menu
    BY <1>1, <1>2, <1>3 DEF CreatesDistinct
  <2>2. \A v \in Writer \ {w} : Creates(v)' /\ Creates(w)' => op'[v].menu # op'[w].menu
    BY <1>2, <1>3
  <2>. QED BY <2>1, <2>2 DEF CreatesDistinct
<1>. QED BY <1>4, <1>6, <1>7, TypePartsNext

\* So a step that leaves the tables alone has little to show.
LEMMA ReadTypes ==
  ASSUME TypeInv, NEW w \in Writer, NEW x, NEW y,
         pc' = [pc EXCEPT ![w] = x], op' = [op EXCEPT ![w] = y],
         HistoryTypes', WriterTypes(w)', menu' = menu, used' = used,
         Creates(w)' => Creates(w) /\ y.menu = op[w].menu
  PROVE  TypeInv'
<1>1. TableTypes /\ CreatesDistinct /\ \A v \in Writer : WriterTypes(v)
  BY TypeParts
<1>2. TableTypes'
  BY <1>1 DEF TableTypes, Rows
<1>3. \A v \in Writer : Creates(v) => menu'[op[v].menu] = Nil
  BY <1>1 DEF WriterTypes
<1>4. \A v \in Writer \ {w} : Creates(v) /\ Creates(w)' => op[v].menu # y.menu
  BY <1>1 DEF CreatesDistinct
<1>. QED BY <1>2, <1>3, <1>4, StepTypes

\* The request is over, and nothing was written.
LEMMA FinishTypes ==
  ASSUME TypeInv, NEW w \in Writer, Finish(w), HistoryTypes', menu' = menu, used' = used
  PROVE  TypeInv'
<1>1. pc'[w] = "idle" /\ op'[w] = Nil
  BY TypeParts DEF Finish
<1>2. ~Active(w)' /\ ~Creates(w)'
  BY <1>1 DEF Active, Creates
<1>3. WriterTypes(w)'
  BY <1>1, <1>2 DEF WriterTypes, Steps
<1>. QED BY <1>2, <1>3, ReadTypes DEF Finish

LEMMA RefuseTypes ==
  ASSUME TypeInv, NEW w \in Writer, Refuse(w)
  PROVE  TypeInv'
<1>1. HistoryTypes'
  BY TypeParts DEF Refuse, HistoryTypes
<1>. QED BY <1>1, FinishTypes DEF Refuse

LEMMA RaisedCounter ==
  ASSUME NEW n \in Nat, NEW k \in 0..n, k < n
  PROVE  k + 1 \in 0..n
OBVIOUS

LEMMA FailTypes ==
  ASSUME TypeInv, NEW w \in Writer, Fail(w)
  PROVE  TypeInv'
<1>1. faults \in 0..MaxFaults /\ MaxFaults \in Nat /\ faults < MaxFaults
  BY TypeParts, MenuTreeAssumption DEF Fail, HistoryTypes
<1>2. faults + 1 \in 0..MaxFaults
  BY ONLY <1>1, RaisedCounter
<1>3. HistoryTypes'
  BY <1>2, TypeParts DEF Fail, HistoryTypes
<1>. QED BY <1>3, FinishTypes DEF Fail

LEMMA BeginTypes ==
  ASSUME TypeInv, NEW w \in Writer, NEW o, NEW where, Begin(w, o, where)
  PROVE  HistoryTypes' /\ menu' = menu
<1>1. ops \in 0..MaxOps /\ MaxOps \in Nat /\ ops < MaxOps
  BY TypeParts, MenuTreeAssumption DEF Begin, HistoryTypes
<1>2. ops + 1 \in 0..MaxOps
  BY ONLY <1>1, RaisedCounter
<1>. QED BY <1>2, TypeParts DEF Begin, HistoryTypes

LEMMA CreateTypes ==
  ASSUME TypeInv, NEW w \in Writer, Create(w)
  PROVE  TypeInv'
<1>1. PICK m \in Menu \ used, f \in Form :
        /\ Begin(w, [kind |-> "create", menu |-> m, form |-> f,
                     old |-> [parent |-> Top, path |-> <<>>, code |-> f.code, status |-> f.status],
                     path |-> <<>>, kids |-> {}],
                 IF f.parent = Top THEN "code" ELSE "parent")
        /\ used' = used \cup {m}
  BY DEF Create
<1>. DEFINE old == [parent |-> Top, path |-> <<>>, code |-> f.code, status |-> f.status]
            o == [kind |-> "create", menu |-> m, form |-> f, old |-> old, path |-> <<>>, kids |-> {}]
            where == IF f.parent = Top THEN "code" ELSE "parent"
<1>2. HistoryTypes' /\ menu' = menu
  BY <1>1, BeginTypes
<1>3. pc' = [pc EXCEPT ![w] = where] /\ op' = [op EXCEPT ![w] = o]
  BY <1>1 DEF Begin
<1>4. o \in Op /\ o.kind = "create" /\ o.menu = m /\ o.form = f
  <2>1. old \in Row
    BY DEF Form, Row
  <2>2. <<>> \in Seq(Menu) /\ {} \in SUBSET (Menu \X Seq(Menu))
    OBVIOUS
  <2>. HIDE DEF old
  <2>. QED BY <2>1, <2>2 DEF Op
<1>. HIDE DEF o, where
<1>5. pc'[w] = where /\ op'[w] = o
  BY <1>3, TypeParts
<1>6. TableTypes /\ \A v \in Writer : WriterTypes(v)
  BY TypeParts
<1>7. TableTypes' /\ menu[m] = Nil
  BY <1>1, <1>2, <1>6 DEF TableTypes, Rows, RowsOf
<1>8. WriterTypes(w)'
  <2>1. where = IF f.parent = Top THEN "code" ELSE "parent"
    BY DEF where
  <2>2. Fits(w)'
    BY <1>1, <1>4, <1>5, <2>1 DEF Fits
  <2>. QED BY <1>2, <1>4, <1>5, <1>7, <2>1, <2>2 DEF WriterTypes, Steps, Active, Creates
<1>9. ASSUME NEW v \in Writer \ {w}, Creates(v) PROVE menu'[op[v].menu] = Nil /\ op[v].menu # o.menu
  <2>1. op[v].menu \in used
    BY <1>6, <1>9 DEF WriterTypes, Fits, Creates
  <2>. QED BY <1>2, <1>4, <1>6, <1>9, <2>1 DEF WriterTypes
<1>. QED BY <1>1, <1>2, <1>3, <1>7, <1>8, <1>9, StepTypes

\* An update or a deletion starts from a row.
LEMMA StartTypes ==
  ASSUME TypeInv, NEW w \in Writer, NEW o \in Op, NEW where,
         Begin(w, o, where), used' = used,
         o.kind \in {"update", "delete"}, o.menu \in Rows,
         where \in {"parent", "children", "code"},
         o.kind = "delete" => where = "children",
         where = "parent" => o.form.parent # Top,
         where # "parent" => o.form.parent \in used \cup {Top}
  PROVE  TypeInv'
<1>1. HistoryTypes' /\ menu' = menu
  BY BeginTypes
<1>2. pc' = [pc EXCEPT ![w] = where] /\ op' = [op EXCEPT ![w] = o]
  BY DEF Begin
<1>3. pc'[w] = where /\ op'[w] = o /\ o.menu \in used
  BY <1>2, TypeParts DEF TableTypes
<1>4. Fits(w)' /\ ~Creates(w)'
  BY <1>3 DEF Fits, Creates
<1>5. WriterTypes(w)'
  BY <1>3, <1>4 DEF WriterTypes, Steps, Active
<1>. QED BY <1>1, <1>2, <1>4, <1>5, ReadTypes

LEMMA UpdateTypes ==
  ASSUME TypeInv, NEW w \in Writer, Update(w)
  PROVE  TypeInv'
<1>1. PICK m \in Rows, f \in Form :
        /\ Begin(w, [kind |-> "update", menu |-> m, form |-> f, old |-> menu[m],
                     path |-> IF f.parent = menu[m].parent THEN menu[m].path ELSE <<>>,
                     kids |-> {}],
                 IF f.parent = menu[m].parent THEN "code"
                 ELSE IF f.parent = Top THEN "children" ELSE "parent")
        /\ UNCHANGED used
  BY DEF Update
<1>. DEFINE path == IF f.parent = menu[m].parent THEN menu[m].path ELSE <<>>
            o == [kind |-> "update", menu |-> m, form |-> f, old |-> menu[m], path |-> path, kids |-> {}]
            where == IF f.parent = menu[m].parent THEN "code"
                     ELSE IF f.parent = Top THEN "children" ELSE "parent"
<1>2. menu[m] \in Row /\ m \in Menu /\ menu[m].parent \in used \cup {Top}
  BY TypeParts DEF TableTypes, Table, Rows, RowsOf
<1>3. path \in Seq(Menu) /\ {} \in SUBSET (Menu \X Seq(Menu))
  BY <1>2 DEF Row
<1>. HIDE DEF path
<1>4. o \in Op /\ o.kind = "update" /\ o.menu = m /\ o.form = f
  BY <1>2, <1>3 DEF Op
<1>5. Begin(w, o, where)
  BY <1>1 DEF path
<1>6. /\ where \in {"parent", "children", "code"}
      /\ where = "parent" => f.parent # Top
      /\ where # "parent" => f.parent \in used \cup {Top}
  BY <1>2
<1>. HIDE DEF o, where
<1>. QED BY <1>1, <1>4, <1>5, <1>6, StartTypes

LEMMA DeleteTypes ==
  ASSUME TypeInv, NEW w \in Writer, Delete(w)
  PROVE  TypeInv'
<1>1. PICK m \in Rows :
        /\ Begin(w, [kind |-> "delete", menu |-> m,
                     form |-> [parent |-> menu[m].parent, code |-> menu[m].code,
                               status |-> menu[m].status],
                     old |-> menu[m], path |-> <<>>, kids |-> {}],
                 "children")
        /\ UNCHANGED used
  BY DEF Delete
<1>. DEFINE f == [parent |-> menu[m].parent, code |-> menu[m].code, status |-> menu[m].status]
            o == [kind |-> "delete", menu |-> m, form |-> f, old |-> menu[m], path |-> <<>>, kids |-> {}]
<1>2. menu[m] \in Row /\ m \in Menu /\ menu[m].parent \in used \cup {Top}
  BY TypeParts DEF TableTypes, Table, Rows, RowsOf
<1>3. f \in Form /\ f.parent = menu[m].parent
  BY <1>2 DEF Row, Form
<1>4. Begin(w, o, "children")
  BY <1>1
<1>. HIDE DEF f
<1>5. <<>> \in Seq(Menu) /\ {} \in SUBSET (Menu \X Seq(Menu))
  OBVIOUS
<1>6. o \in Op /\ o.kind = "delete" /\ o.menu = m /\ o.form = f
  BY <1>2, <1>3, <1>5 DEF Op
<1>. HIDE DEF o
<1>. QED BY <1>1, <1>2, <1>3, <1>4, <1>6, StartTypes

LEMMA StartLoadTypes ==
  ASSUME TypeInv, NEW w \in Writer, StartLoad(w)
  PROVE  TypeInv'
<1>. DEFINE o == [kind |-> "load", seen |-> menu]
<1>1. HistoryTypes' /\ menu' = menu
  BY BeginTypes DEF StartLoad
<1>2. pc' = [pc EXCEPT ![w] = "load"] /\ op' = [op EXCEPT ![w] = o] /\ used' = used
  BY DEF StartLoad, Begin
<1>3. o \in Load /\ o.seen = menu /\ RowsOf(menu) \subseteq used
  BY TypeParts DEF TableTypes, Table, Load, Rows
<1>. HIDE DEF o
<1>4. pc'[w] = "load" /\ op'[w] = o
  BY <1>2, TypeParts
<1>5. ~Active(w)' /\ ~Creates(w)'
  BY <1>4 DEF Active, Creates
<1>6. WriterTypes(w)'
  BY <1>2, <1>3, <1>4, <1>5 DEF WriterTypes, Steps
<1>. QED BY <1>1, <1>2, <1>5, <1>6, ReadTypes

\* The queries between the first and the transaction.
LEMMA GotoTypes ==
  ASSUME TypeInv, NEW w \in Writer, Active(w), NEW where, NEW o \in Op,
         Goto(w, where), op' = [op EXCEPT ![w] = o],
         o.kind = op[w].kind, o.menu = op[w].menu, o.form = op[w].form,
         where \in {"children", "code", "ready"},
         o.kind = "create" => where # "children",
         o.kind = "delete" => where # "code",
         o.form.parent \in used \cup {Top}
  PROVE  TypeInv'
<1>1. HistoryTypes' /\ menu' = menu /\ used' = used
  BY TypeParts DEF Goto, HistoryTypes
<1>2. pc' = [pc EXCEPT ![w] = where] /\ pc'[w] = where /\ op'[w] = o
  BY TypeParts DEF Goto
<1>3. WriterTypes(w)
  BY TypeParts
<1>4. Fits(w)'
  BY <1>1, <1>2, <1>3 DEF Fits, WriterTypes
<1>5. Creates(w)' <=> Creates(w)
  BY <1>2 DEF Creates, Active
<1>6. WriterTypes(w)'
  BY <1>1, <1>2, <1>3, <1>4, <1>5 DEF WriterTypes, Steps, Active
<1>. QED BY <1>1, <1>2, <1>5, <1>6, ReadTypes

LEMMA ReadParentTypes ==
  ASSUME TypeInv, NEW w \in Writer, ReadParent(w)
  PROVE  TypeInv'
<1>. DEFINE p == op[w].form.parent
<1>1. Active(w) /\ op[w] \in Op /\ Fits(w) /\ TableTypes /\ pc[w] = "parent"
  BY TypeParts DEF ReadParent, WriterTypes, Active
<1>2. p \in Menu
  BY <1>1 DEF Fits, Op, Form
<1>3. CASE menu[p] = Nil
  BY <1>3, RefuseTypes DEF ReadParent
<1>4. CASE menu[p] # Nil
  <2>. DEFINE o == [op[w] EXCEPT !.path = Prefix(p, menu[p])]
  <2>1. Prefix(p, menu[p]) \in Seq(Menu)
    BY <1>1, <1>2, <1>4 DEF Prefix, TableTypes, Table, Row
  <2>2. o \in Op /\ o.kind = op[w].kind /\ o.menu = op[w].menu /\ o.form = op[w].form
    BY <1>1, <2>1 DEF Op
  <2>3. Goto(w, IF op[w].kind = "create" THEN "code" ELSE "children") /\ op' = [op EXCEPT ![w] = o]
    BY <1>4 DEF ReadParent
  <2>4. p \in used
    BY <1>1, <1>2, <1>4 DEF TableTypes, Rows, RowsOf
  <2>5. op[w].kind # "delete"
    BY <1>1 DEF Fits
  <2>. HIDE DEF o
  <2>. QED BY <1>1, <2>2, <2>3, <2>4, <2>5, GotoTypes
<1>. QED BY <1>3, <1>4

LEMMA ReadChildrenTypes ==
  ASSUME TypeInv, NEW w \in Writer, ReadChildren(w)
  PROVE  TypeInv'
<1>. DEFINE kids == {<<n, menu[n].path>> : n \in Under(menu, Prefix(op[w].menu, op[w].old))}
            o == [op[w] EXCEPT !.kids = kids]
<1>1. Active(w) /\ op[w] \in Op /\ Fits(w) /\ TableTypes /\ pc[w] = "children"
  BY TypeParts DEF ReadChildren, WriterTypes, Active
<1>2. kids \subseteq Menu \X Seq(Menu)
  BY <1>1 DEF Under, TableTypes, Table, Row
<1>. HIDE DEF kids
<1>3. o \in Op /\ o.kind = op[w].kind /\ o.menu = op[w].menu /\ o.form = op[w].form
  BY <1>1, <1>2 DEF Op
<1>4. Goto(w, IF op[w].kind = "delete" THEN "ready" ELSE "code") /\ op' = [op EXCEPT ![w] = o]
  BY DEF ReadChildren, kids
<1>5. o.form.parent \in used \cup {Top} /\ op[w].kind # "create"
  BY <1>1, <1>3 DEF Fits
<1>. HIDE DEF o
<1>. QED BY <1>1, <1>3, <1>4, <1>5, GotoTypes

LEMMA CheckCodeTypes ==
  ASSUME TypeInv, NEW w \in Writer, CheckCode(w)
  PROVE  TypeInv'
<1>1. Active(w) /\ op[w] \in Op /\ Fits(w) /\ pc[w] = "code"
  BY TypeParts DEF CheckCode, WriterTypes, Active
<1>2. CASE Refuse(w)
  BY <1>2, RefuseTypes
<1>3. CASE op' = op /\ Goto(w, "ready")
  <2>1. op' = [op EXCEPT ![w] = op[w]]
    BY <1>3, TypeParts
  <2>2. op[w].form.parent \in used \cup {Top}
    BY <1>1 DEF Fits
  <2>. QED BY <1>1, <1>3, <2>1, <2>2, GotoTypes
<1>. QED BY <1>2, <1>3 DEF CheckCode

\* What is true of the writer that commits, and how the history goes on.
LEMMA CommitHistory ==
  ASSUME TypeInv, NEW w \in Writer, slips' = slips \cup Slips(w), Outdates(w),
         ops' = ops, faults' = faults
  PROVE  HistoryTypes'
<1>1. Slips(w) \subseteq Slip
  BY DEF Slips
<1>2. late' \subseteq Writer /\ lateCode' \subseteq Writer
  BY TypeParts DEF Outdates, HistoryTypes
<1>. QED BY <1>1, <1>2, TypeParts DEF HistoryTypes

LEMMA FinishedTypes ==
  ASSUME TypeInv, NEW w \in Writer, Finish(w), HistoryTypes', TableTypes', used \subseteq used',
         \A v \in Writer \ {w} : Creates(v) => menu'[op[v].menu] = Nil
  PROVE  TypeInv'
<1>1. pc'[w] = "idle" /\ op'[w] = Nil
  BY TypeParts DEF Finish
<1>2. ~Active(w)' /\ ~Creates(w)'
  BY <1>1 DEF Active, Creates
<1>3. WriterTypes(w)'
  BY <1>1, <1>2 DEF WriterTypes, Steps
<1>. QED BY <1>2, <1>3, StepTypes DEF Finish

LEMMA CommitTypes ==
  ASSUME TypeInv, NEW w \in Writer, Commit(w)
  PROVE  TypeInv'
<1>. DEFINE o == op[w]
<1>1. pc[w] = "ready" /\ Active(w) /\ o \in Op /\ Fits(w) /\ WriterTypes(w)
  BY TypeParts DEF Commit, WriterTypes, Active
<1>2. HistoryTypes'
  BY CommitHistory DEF Commit
<1>3. TableTypes /\ CreatesDistinct /\ \A v \in Writer : WriterTypes(v)
  BY TypeParts
<1>4. o.menu \in used /\ o.form.parent \in used \cup {Top} /\ used' = used /\ o.menu \in Menu
  BY <1>1 DEF Fits, Commit, Op
<1>5. Created(o) \in Row /\ Created(o).parent = o.form.parent
  BY <1>1, CreatedTyped
<1>6. TableTypes' /\ \A v \in Writer \ {w} : Creates(v) => menu'[op[v].menu] = Nil
  <2>1. CASE o.kind = "create"
    <3>1. menu' = [menu EXCEPT ![o.menu] = Created(o)]
      BY <2>1 DEF Commit
    <3>2. \A n \in Menu : menu'[n] = IF n = o.menu THEN Created(o) ELSE menu[n]
      BY <1>3, <3>1 DEF TableTypes, Table
    <3>3. menu' \in Table
      BY <1>3, <1>5, <3>1 DEF TableTypes, Table
    <3>4. TableTypes'
      BY <1>3, <1>4, <1>5, <3>2, <3>3 DEF TableTypes, Rows, RowsOf
    <3>5. \A v \in Writer \ {w} : Creates(v) => op[v].menu \in Menu /\ op[v].menu # o.menu
                                              /\ menu[op[v].menu] = Nil
      BY <1>1, <1>3, <2>1 DEF CreatesDistinct, Creates, WriterTypes, Op
    <3>. QED BY <3>2, <3>4, <3>5
  <2>2. CASE o.kind = "update"
    <3>1. menu' = Saved(o)
      BY <2>2 DEF Commit
    <3>2. menu' \in Table /\ \A n \in Menu :
            /\ menu'[n] = Nil <=> menu[n] = Nil
            /\ menu[n] # Nil => menu'[n].parent \in {menu[n].parent, o.form.parent}
      <4>. HIDE DEF o
      <4>. QED BY <1>1, <1>3, <1>5, <3>1, SavedRow DEF TableTypes
    <3>3. TableTypes'
      BY <1>3, <1>4, <3>2 DEF TableTypes, Rows, RowsOf
    <3>4. \A v \in Writer \ {w} : Creates(v) => op[v].menu \in Menu /\ menu[op[v].menu] = Nil
      BY <1>3 DEF Creates, WriterTypes, Op
    <3>. QED BY <3>2, <3>3, <3>4
  <2>3. CASE o.kind = "delete"
    <3>1. menu' = Removed(o)
      BY <2>3 DEF Commit
    <3>2. menu' \in Table /\ \A n \in Menu : menu'[n] \in {menu[n], Nil}
      <4>. HIDE DEF o
      <4>. QED BY <1>1, <1>3, <3>1, RemovedRow DEF TableTypes
    <3>3. TableTypes'
      BY <1>3, <1>4, <3>2 DEF TableTypes, Rows, RowsOf
    <3>4. \A v \in Writer \ {w} : Creates(v) => op[v].menu \in Menu /\ menu[op[v].menu] = Nil
      BY <1>3 DEF Creates, WriterTypes, Op
    <3>. QED BY <3>2, <3>3, <3>4
  <2>. QED BY <1>1, <2>1, <2>2, <2>3 DEF Op
<1>. QED BY <1>2, <1>4, <1>6, FinishedTypes DEF Commit

\* What a load commits.
LEMMA CommitLoadIs ==
  ASSUME TypeInv, NEW w \in Writer, CommitLoad(w)
  PROVE  /\ op[w] \in Load /\ op[w].kind = "load" /\ op[w].seen \in Table
         /\ RowsOf(op[w].seen) \subseteq used
         /\ \E new \in [Missing(op[w].seen) -> Menu \ used], differ \in SUBSET Range(FileMenu(op[w].seen)) :
              /\ IsInjective(new)
              /\ menu' = Loaded(op[w], new, differ) /\ used' = used \cup Range(new)
<1>1. op[w] \in Load /\ RowsOf(op[w].seen) \subseteq used
  BY TypeParts DEF CommitLoad, WriterTypes
<1>2. op[w].kind = "load" /\ op[w].seen \in Table
  BY <1>1 DEF Load, Table
<1>3. {i \in DOMAIN FileMenu(op[w].seen) : FileMenu(op[w].seen)[i] = Nil} = Missing(op[w].seen)
  BY <1>2, FileMenuIs DEF Missing
<1>4. \E new \in [{i \in DOMAIN FileMenu(op[w].seen) : FileMenu(op[w].seen)[i] = Nil} -> Menu \ used],
         differ \in SUBSET Range(FileMenu(op[w].seen)) :
                  /\ IsInjective(new)
                  /\ menu' = Loaded(op[w], new, differ) /\ used' = used \cup Range(new)
  BY DEF CommitLoad
<1>. QED BY <1>1, <1>2, <1>3, <1>4

LEMMA CommitLoadTypes ==
  ASSUME TypeInv, NEW w \in Writer, CommitLoad(w)
  PROVE  TypeInv'
<1>. DEFINE t == op[w].seen
            at == FileMenu(t)
<1>1. t \in Table /\ RowsOf(t) \subseteq used
  BY CommitLoadIs
<1>2. PICK new \in [Missing(t) -> Menu \ used], differ \in SUBSET Range(at) :
        menu' = Loaded(op[w], new, differ) /\ used' = used \cup Range(new)
  BY CommitLoadIs
<1>3. TableTypes /\ \A v \in Writer : WriterTypes(v)
  BY TypeParts
<1>4. new \in [Missing(t) -> Menu] /\ Range(new) \subseteq Menu \ used
  BY <1>2 DEF Range
<1>5. menu \in Table
  BY <1>3 DEF TableTypes
<1>. HIDE DEF t
<1>6. /\ menu' \in Table
      /\ \A n \in Menu : \/ menu'[n] = menu[n]
                         \/ \E i \in 1..Count : /\ MenuOf(at, new, i) = n
                                                /\ menu'[n] = FileRow(t, new, i)
                                                /\ at[i] = Nil \/ menu[at[i]] # Nil
  BY <1>1, <1>2, <1>4, <1>5, LoadedRow DEF t
<1>7. ASSUME NEW i \in 1..Count
      PROVE  /\ at[i] # Nil => MenuOf(at, new, i) = at[i] /\ at[i] \in used
             /\ at[i] = Nil => MenuOf(at, new, i) \in Menu \ used /\ MenuOf(at, new, i) \in used'
  <2>1. at[i] # Nil => at[i] \in RowsOf(t)
    BY <1>1, FileMenuFound
  <2>2. at[i] = Nil => i \in Missing(t)
    BY DEF Missing
  <2>. HIDE DEF at
  <2>. QED BY <1>1, <1>2, <2>1, <2>2 DEF MenuOf, Range
<1>8. ASSUME NEW i \in 1..Count PROVE FileRow(t, new, i).parent \in used' \cup {Top}
  <2>1. File[i].above # 0 => File[i].above \in 1..Count
    BY FileTyped
  <2>2. at[i] # Nil => /\ Over(at, i) # Nil /\ t[at[i]].parent = Over(at, i)
    BY <1>1, FileMenuFound
  <2>3. /\ at[i] # Nil => FileRow(t, new, i).parent = t[at[i]].parent
        /\ at[i] = Nil => FileRow(t, new, i).parent = IF File[i].above = 0 THEN Top
                                                      ELSE MenuOf(at, new, File[i].above)
    BY <1>1, <1>4, FileRowIs
  <2>. HIDE DEF at
  <2>4. File[i].above # 0 => MenuOf(at, new, File[i].above) \in used'
    BY <1>2, <1>7, <2>1
  <2>5. File[i].above # 0 /\ Over(at, i) # Nil => Over(at, i) \in used'
    BY <1>2, <1>7, <2>1 DEF Over
  <2>. QED BY <2>2, <2>3, <2>4, <2>5 DEF Over
<1>9. \A n \in Menu : n \in used' \/ menu'[n] = menu[n]
  <2>. HIDE DEF at
  <2>. QED BY <1>2, <1>6, <1>7
<1>10. TableTypes'
  <2>1. \A n \in Menu : menu'[n] # Nil => n \in used'
    BY <1>2, <1>3, <1>9 DEF TableTypes, Rows, RowsOf
  <2>2. \A n \in Menu : menu'[n] # Nil => menu'[n].parent \in used' \cup {Top}
    <3>. HIDE DEF at
    <3>. QED BY <1>2, <1>3, <1>6, <1>8 DEF TableTypes, Rows, RowsOf
  <2>. QED BY <1>2, <1>3, <1>4, <1>6, <2>1, <2>2 DEF TableTypes, Rows, RowsOf
<1>11. ASSUME NEW v \in Writer \ {w}, Creates(v) PROVE menu'[op[v].menu] = Nil
  <2>1. op[v].menu \in used /\ menu[op[v].menu] = Nil /\ op[v].menu \in Menu
    BY <1>3, <1>11 DEF WriterTypes, Fits, Creates, Op
  <2>. HIDE DEF at
  <2>2. \A i \in 1..Count : MenuOf(at, new, i) = op[v].menu => at[i] # Nil /\ menu[at[i]] = Nil
    BY <1>7, <2>1
  <2>. QED BY <1>6, <2>1, <2>2
<1>12. HistoryTypes'
  BY CommitHistory DEF CommitLoad
<1>. QED BY <1>2, <1>10, <1>11, <1>12, FinishedTypes DEF CommitLoad

LEMMA TypesKept == TypeInv /\ [Next]_vars => TypeInv'
<1>1. ASSUME TypeInv, Next PROVE TypeInv'
  BY <1>1, CreateTypes, UpdateTypes, DeleteTypes, ReadParentTypes, ReadChildrenTypes,
     CheckCodeTypes, CommitTypes, StartLoadTypes, CommitLoadTypes, FailTypes DEF Next
<1>2. ASSUME TypeInv, UNCHANGED vars PROVE TypeInv'
  BY <1>2 DEF vars, TypeInv, TypeOK, Fits, Active, Creates, Rows
<1>. QED BY <1>1, <1>2

LEMMA TypesInit == Init => TypeInv
<1>. SUFFICES ASSUME Init PROVE TypeInv
  OBVIOUS
<1>1. menu \in Table /\ Tree(menu)
  BY MenuTreeAssumption DEF Init, Table
<1>2. \A m \in Rows : menu[m].parent \in Rows \cup {Top}
  BY <1>1 DEF Tree, Hung, Rows
<1>3. TableTypes
  BY <1>1, <1>2 DEF Init, TableTypes, Rows, RowsOf
<1>4. HistoryTypes
  BY MenuTreeAssumption DEF Init, HistoryTypes
<1>5. pc = [w \in Writer |-> "idle"] /\ op = [w \in Writer |-> Nil]
  BY DEF Init
<1>6. \A w \in Writer : pc[w] = "idle" /\ op[w] = Nil /\ ~Active(w) /\ ~Creates(w)
  BY <1>5 DEF Active, Creates
<1>7. CreatesDistinct /\ \A w \in Writer : WriterTypes(w)
  BY <1>6 DEF CreatesDistinct, WriterTypes, Steps
<1>8. pc \in [Writer -> Steps] /\ op \in [Writer -> Op \cup Load \cup {Nil}]
  BY <1>5 DEF Steps
<1>. QED BY <1>3, <1>4, <1>7, <1>8, TypeParts

-----------------------------------------------------------------------------
(* Paths.                                                                  *)

LEMMA PrefixOfAppend ==
  ASSUME NEW p \in Seq(Menu), NEW q \in Seq(Menu), NEW m \in Menu, NEW k \in Menu
  PROVE  /\ IsPrefix(Append(p, m), Append(q, k)) <=> (p = q /\ m = k) \/ IsPrefix(Append(p, m), q)
         /\ ~IsPrefix(Append(p, m), p)
         /\ IsPrefix(p, p)
<1>. DEFINE a == Append(p, m)
            b == Append(q, k)
<1>1. /\ a \in Seq(Menu) /\ Len(a) = Len(p) + 1 /\ a[Len(p) + 1] = m
      /\ \A i \in 1..Len(p) : a[i] = p[i]
  OBVIOUS
<1>2. /\ b \in Seq(Menu) /\ Len(b) = Len(q) + 1 /\ b[Len(q) + 1] = k
      /\ \A i \in 1..Len(q) : b[i] = q[i]
  OBVIOUS
<1>. HIDE DEF a, b
<1>3. ASSUME NEW s \in Seq(Menu), NEW t \in Seq(Menu)
      PROVE  IsPrefix(s, t) <=> Len(s) <= Len(t) /\ \A i \in 1..Len(s) : s[i] = t[i]
  <2>1. CASE Len(s) <= Len(t)
    <3>1. SubSeq(s, 1, Len(s)) \in Seq(Menu) /\ Len(SubSeq(s, 1, Len(s))) = Len(s)
          /\ \A i \in 1..Len(s) : SubSeq(s, 1, Len(s))[i] = s[i]
      OBVIOUS
    <3>2. SubSeq(t, 1, Len(s)) \in Seq(Menu) /\ Len(SubSeq(t, 1, Len(s))) = Len(s)
          /\ \A i \in 1..Len(s) : SubSeq(t, 1, Len(s))[i] = t[i]
      BY <2>1
    <3>3. (SubSeq(s, 1, Len(s)) = SubSeq(t, 1, Len(s))) <=> \A i \in 1..Len(s) : s[i] = t[i]
      BY <3>1, <3>2
    <3>. QED BY <2>1, <3>3 DEF IsPrefix
  <2>. QED BY <2>1 DEF IsPrefix
<1>4. IsPrefix(a, b) <=> Len(p) <= Len(q) /\ \A i \in 1..(Len(p) + 1) : a[i] = b[i]
  BY <1>1, <1>2, <1>3
<1>5. IsPrefix(a, q) <=> Len(p) + 1 <= Len(q) /\ \A i \in 1..(Len(p) + 1) : a[i] = q[i]
  BY <1>1, <1>3
<1>9. IsPrefix(a, b) <=> (p = q /\ m = k) \/ IsPrefix(a, q)
  <2>1. CASE Len(p) = Len(q)
    <3>1. (\A i \in 1..(Len(p) + 1) : a[i] = b[i]) <=> (\A i \in 1..Len(p) : p[i] = q[i]) /\ m = k
      <4>1. \A i \in 1..(Len(p) + 1) : i \in 1..Len(p) \/ i = Len(p) + 1
        OBVIOUS
      <4>2. 1..Len(p) \subseteq 1..(Len(p) + 1) /\ Len(p) + 1 \in 1..(Len(p) + 1)
        OBVIOUS
      <4>. QED BY <1>1, <1>2, <2>1, <4>1, <4>2
    <3>2. p = q <=> \A i \in 1..Len(p) : p[i] = q[i]
      BY <2>1
    <3>3. Len(p) <= Len(q) /\ ~(Len(p) + 1 <= Len(q))
      BY <2>1
    <3>. QED BY ONLY <1>4, <1>5, <3>1, <3>2, <3>3
  <2>2. CASE Len(p) < Len(q)
    <3>1. \A i \in 1..(Len(p) + 1) : i \in 1..Len(q)
      BY <2>2
    <3>2. (\A i \in 1..(Len(p) + 1) : a[i] = b[i]) <=> (\A i \in 1..(Len(p) + 1) : a[i] = q[i])
      BY <1>2, <3>1
    <3>3. Len(p) <= Len(q) /\ Len(p) + 1 <= Len(q) /\ p # q
      BY <2>2
    <3>. QED BY ONLY <1>4, <1>5, <3>2, <3>3
  <2>3. CASE Len(p) > Len(q)
    <3>1. ~(Len(p) <= Len(q)) /\ ~(Len(p) + 1 <= Len(q)) /\ p # q
      BY <2>3
    <3>. QED BY ONLY <1>4, <1>5, <3>1
  <2>. QED BY <2>1, <2>2, <2>3
<1>10. ~IsPrefix(a, p) /\ IsPrefix(p, p)
  BY <1>1, <1>3
<1>. QED BY <1>9, <1>10 DEF a, b

\* What is below the old place of o comes below its new one, in the same order.
LEMMA NewPathIs ==
  ASSUME NEW o \in Op
  PROVE  /\ NewPath(o, Prefix(o.menu, o.old)) = Append(o.path, o.menu)
         /\ \A q \in Seq(Menu), k \in Menu : IsPrefix(Prefix(o.menu, o.old), q) =>
              NewPath(o, Append(q, k)) = Append(NewPath(o, q), k)
<1>. DEFINE x == Append(o.path, o.menu)
            l == Len(o.old.path)
<1>1. o.menu \in Menu /\ x \in Seq(Menu) /\ l \in Nat /\ o.old.path \in Seq(Menu)
  BY DEF Op, Row
<1>2. Prefix(o.menu, o.old) \in Seq(Menu) /\ Len(Prefix(o.menu, o.old)) = l + 1
  BY <1>1 DEF Prefix
<1>. HIDE DEF x, l
<1>3. NewPath(o, Prefix(o.menu, o.old)) = x
  <2>1. SubSeq(Prefix(o.menu, o.old), l + 2, l + 1) = <<>>
    BY <1>1, <1>2
  <2>2. x \o <<>> = x
    BY <1>1
  <2>. QED BY <1>2, <2>1, <2>2 DEF NewPath, x, l
<1>4. ASSUME NEW q \in Seq(Menu), NEW k \in Menu, IsPrefix(Prefix(o.menu, o.old), q)
      PROVE  NewPath(o, Append(q, k)) = Append(NewPath(o, q), k)
  <2>1. Len(q) >= l + 1
    BY <1>2, <1>4 DEF IsPrefix
  <2>. DEFINE s == SubSeq(q, l + 2, Len(q))
              v == Append(q, k)
              u == SubSeq(v, l + 2, Len(q) + 1)
  <2>2. s \in Seq(Menu) /\ Len(s) = Len(q) - (l + 1) /\ \A i \in 1..Len(s) : s[i] = q[l + 1 + i]
    <3>1. l + 2 >= 1 /\ l + 2 \in Nat /\ Len(q) \in Nat /\ l + 2 <= Len(q) + 1
      BY <1>1, <2>1
    <3>2. \A i \in (l + 2)..Len(q) : q[i] \in Menu
      BY <3>1
    <3>3. Len(s) = IF l + 2 <= Len(q) THEN Len(q) - (l + 2) + 1 ELSE 0
      BY <3>1, <3>2, SubSeqProperties
    <3>4. s \in Seq(Menu) /\ \A i \in 1..(Len(q) - (l + 2) + 1) : s[i] = q[l + 2 + i - 1]
      BY <3>1, <3>2, SubSeqProperties
    <3>5. Len(s) = Len(q) - (l + 1) /\ \A i \in 1..(Len(q) - (l + 2) + 1) : l + 2 + i - 1 = l + 1 + i
      BY <1>1, <3>1, <3>3
    <3>6. Len(q) - (l + 2) + 1 = Len(q) - (l + 1)
      BY <1>1
    <3>. HIDE DEF s
    <3>. QED BY <3>4, <3>5, <3>6
  <2>3. u \in Seq(Menu) /\ Len(u) = Len(q) - l /\ \A i \in 1..Len(u) : u[i] = v[l + 1 + i]
    <3>1. l + 2 >= 1 /\ l + 2 \in Nat /\ Len(q) + 1 \in Nat /\ l + 2 <= Len(q) + 1
      BY <1>1, <2>1
    <3>2. v \in Seq(Menu) /\ Len(v) = Len(q) + 1
      OBVIOUS
    <3>. HIDE DEF v
    <3>3. \A i \in (l + 2)..(Len(q) + 1) : v[i] \in Menu
      BY <3>1, <3>2
    <3>4. Len(u) = IF l + 2 <= Len(q) + 1 THEN Len(q) + 1 - (l + 2) + 1 ELSE 0
      BY <3>1, <3>3, SubSeqProperties
    <3>5. u \in Seq(Menu) /\ \A i \in 1..(Len(q) + 1 - (l + 2) + 1) : u[i] = v[l + 2 + i - 1]
      BY <3>1, <3>3, SubSeqProperties
    <3>6. Len(u) = Len(q) - l /\ \A i \in 1..(Len(q) - l) : l + 2 + i - 1 = l + 1 + i
      BY <1>1, <3>1, <3>4
    <3>7. Len(q) + 1 - (l + 2) + 1 = Len(q) - l
      BY <1>1
    <3>. HIDE DEF u
    <3>. QED BY <3>5, <3>6, <3>7
  <2>. HIDE DEF s, u
  <2>4. Len(s) \in Nat /\ Len(u) = Len(s) + 1
    BY <1>1, <2>1, <2>2, <2>3
  <2>5. u = Append(s, k)
    <3>1. ASSUME NEW i \in 1..Len(u) PROVE u[i] = Append(s, k)[i]
      <4>1. CASE i = Len(s) + 1
        <5>1. l + 1 + i = Len(q) + 1
          BY <1>1, <2>2, <4>1
        <5>2. u[i] = k
          BY <2>3, <5>1
        <5>. QED BY <2>2, <4>1, <5>2
      <4>2. CASE i \in 1..Len(s)
        <5>1. l + 1 + i \in 1..Len(q)
          BY <1>1, <2>1, <2>2, <4>2
        <5>. QED BY <2>2, <2>3, <4>2, <5>1
      <4>. QED BY <2>4, <4>1, <4>2
    <3>2. Append(s, k) \in Seq(Menu) /\ Len(Append(s, k)) = Len(s) + 1
      BY <2>2
    <3>. QED BY <2>3, <2>4, <3>1, <3>2
  <2>6. x \o Append(s, k) = Append(x \o s, k)
    BY <1>1, <2>2
  <2>7. NewPath(o, q) = x \o s
    BY DEF NewPath, x, s, l
  <2>8. NewPath(o, Append(q, k)) = x \o u
    <3>1. Len(Append(q, k)) = Len(q) + 1
      OBVIOUS
    <3>. QED BY <3>1 DEF NewPath, x, u, l
  <2>. QED BY <2>5, <2>6, <2>7, <2>8
<1>. QED BY <1>3, <1>4 DEF x

LEMMA PlaceIs ==
  ASSUME NEW r \in Row \cup {Nil}, NEW s \in Row \cup {Nil}
  PROVE  /\ Place(r) = Place(s) <=> \/ r = Nil /\ s = Nil
                                    \/ r # Nil /\ s # Nil /\ r.parent = s.parent /\ r.path = s.path
         /\ Level(r) = Level(s) <=> \/ r = Nil /\ s = Nil
                                    \/ r # Nil /\ s # Nil /\ r.parent = s.parent /\ r.code = s.code
BY DEF Place, Level

-----------------------------------------------------------------------------
(* The tree.                                                               *)

\* Tables whose rows stand at the same places are both trees or neither.
LEMMA SamePlaces ==
  ASSUME NEW t \in Table, NEW u \in Table, \A n \in Menu : Place(t[n]) = Place(u[n]), Tree(t)
  PROVE  Tree(u)
<1>1. \A n \in Menu : /\ t[n] = Nil <=> u[n] = Nil
                      /\ t[n] # Nil => t[n].parent = u[n].parent /\ t[n].path = u[n].path
  BY PlaceIs DEF Table
<1>2. RowsOf(t) = RowsOf(u) /\ RowsOf(t) \subseteq Menu
  BY <1>1 DEF RowsOf
<1>3. ASSUME NEW n \in RowsOf(u) PROVE Hung(u, n)
  <2>1. Hung(t, n) /\ u[n].parent = t[n].parent /\ u[n].path = t[n].path
    BY <1>1, <1>2 DEF Tree, RowsOf
  <2>2. t[n].parent \in RowsOf(t) => u[t[n].parent].path = t[t[n].parent].path
    BY <1>1, <1>2 DEF RowsOf
  <2>. QED BY <1>2, <2>1, <2>2 DEF Hung, Prefix
<1>. QED BY <1>3 DEF Tree

\* What was listed is what is below.
LEMMA ListedIs ==
  ASSUME NEW t, NEW o, KidsRead(t, o)
  PROVE  /\ Listed(o) = Under(t, Prefix(o.menu, o.old))
         /\ \A k \in o.kids : k[2] = t[k[1]].path
<1>. DEFINE below == Under(t, Prefix(o.menu, o.old))
<1>1. o.kids = {<<n, t[n].path>> : n \in below}
  BY DEF KidsRead
<1>. HIDE DEF below
<1>2. \A k \in o.kids : k[1] \in below /\ k[2] = t[k[1]].path
  BY <1>1
<1>3. \A n \in below : <<n, t[n].path>> \in o.kids
  BY <1>1
<1>4. Listed(o) \subseteq below
  BY <1>2 DEF Listed
<1>5. below \subseteq Listed(o)
  <2>1. ASSUME NEW n \in below PROVE n \in Listed(o)
    <3>1. \E k \in o.kids : k[1] = n
      BY <1>3
    <3>. QED BY <3>1 DEF Listed
  <2>. QED BY <2>1
<1>. QED BY <1>2, <1>4, <1>5 DEF below

\* A new row that hangs right, where no row was.
LEMMA CreateTree ==
  ASSUME menu \in Table, Tree(menu), NEW o \in Op, menu[o.menu] = Nil, PathRead(menu, o)
  PROVE  Tree([menu EXCEPT ![o.menu] = Created(o)])
<1>. DEFINE t == [menu EXCEPT ![o.menu] = Created(o)]
<1>1. o.menu \in Menu /\ \A n \in Menu : t[n] = IF n = o.menu THEN Created(o) ELSE menu[n]
  BY DEF Op, Table
<1>2. /\ Created(o) # Nil /\ Created(o).parent = o.form.parent /\ Created(o).path = o.path
  BY CreatedTyped
<1>. HIDE DEF t
<1>3. RowsOf(t) = RowsOf(menu) \cup {o.menu} /\ o.menu \notin RowsOf(menu)
  BY <1>1, <1>2 DEF RowsOf
<1>4. ASSUME NEW n \in RowsOf(t) PROVE Hung(t, n)
  <2>0. RowsOf(menu) \subseteq Menu /\ \A k \in RowsOf(menu) : t[k] = menu[k]
    BY <1>1, <1>3 DEF RowsOf
  <2>1. CASE n = o.menu
    BY <1>1, <1>2, <1>3, <2>0, <2>1 DEF PathRead, Hung, Prefix
  <2>2. CASE n \in RowsOf(menu)
    <3>1. Hung(menu, n) /\ t[n] = menu[n]
      BY <2>0, <2>2 DEF Tree
    <3>. QED BY <1>3, <2>0, <3>1 DEF Hung, Prefix
  <2>. QED BY <1>3, <2>1, <2>2
<1>. QED BY <1>4 DEF Tree, t

\* A row at a place other than the top has a parent, and is below just what that
\* one is below, and the parent itself.
LEMMA BelowParent ==
  ASSUME NEW t \in Table, Tree(t), NEW n \in RowsOf(t), t[n].parent # Top \/ t[n].path # <<>>,
         NEW p \in Seq(Menu), NEW m \in Menu
  PROVE  LET k == t[n].parent IN
         /\ k \in RowsOf(t) /\ k \in Menu /\ t[k].path \in Seq(Menu) /\ t[n].path = Append(t[k].path, k)
         /\ n \in Under(t, Append(p, m)) <=> (p = t[k].path /\ m = k) \/ k \in Under(t, Append(p, m))
<1>. DEFINE k == t[n].parent
<1>1. Hung(t, n) /\ n \in Menu /\ t[n] # Nil
  BY DEF Tree, RowsOf
<1>2. k \in RowsOf(t) /\ t[n].path = Append(t[k].path, k)
  BY <1>1 DEF Hung, Prefix
<1>3. k \in Menu /\ t[k] # Nil /\ t[k].path \in Seq(Menu)
  BY <1>2 DEF RowsOf, Table, Row
<1>. HIDE DEF k
<1>4. n \in Under(t, Append(p, m)) <=> IsPrefix(Append(p, m), Append(t[k].path, k))
  BY <1>1, <1>2 DEF Under
<1>5. k \in Under(t, Append(p, m)) <=> IsPrefix(Append(p, m), t[k].path)
  BY <1>3 DEF Under
<1>6. IsPrefix(Append(p, m), Append(t[k].path, k))
        <=> (p = t[k].path /\ m = k) \/ IsPrefix(Append(p, m), t[k].path)
  BY <1>3, PrefixOfAppend
<1>. QED BY <1>2, <1>3, <1>4, <1>5, <1>6 DEF k

\* A menu with all that is below it is removed.
LEMMA RemoveTree ==
  ASSUME menu \in Table, Tree(menu), NEW o \in Op, menu[o.menu] # Nil,
         Place(menu[o.menu]) = Place(o.old), KidsRead(menu, o)
  PROVE  Tree(Removed(o))
<1>. DEFINE m == o.menu
            below == Under(menu, Prefix(m, o.old))
            t == Removed(o)
<1>1. m \in Menu /\ menu[m] \in Row /\ o.old \in Row /\ o.old # Nil
  BY MenuTreeAssumption DEF Op, Table
<1>2. o.old.path = menu[m].path /\ o.old.path \in Seq(Menu)
  BY <1>1, PlaceIs DEF Row
<1>3. Listed(o) = below
  BY ListedIs
<1>4. \A n \in Menu : t[n] = IF n = m \/ n \in below THEN Nil ELSE menu[n]
  BY <1>3, RemovedRow
<1>. HIDE DEF t
<1>5. RowsOf(t) = {n \in RowsOf(menu) : n # m /\ n \notin below}
  <2>. HIDE DEF below, m
  <2>. QED BY <1>4 DEF RowsOf
<1>6. ASSUME NEW n \in RowsOf(t) PROVE Hung(t, n)
  <2>1. n \in RowsOf(menu) /\ n # m /\ n \notin below /\ n \in Menu /\ Hung(menu, n)
    BY <1>5 DEF RowsOf, Tree
  <2>2. t[n] = menu[n]
    BY <1>4, <2>1
  <2>3. CASE menu[n].parent = Top /\ menu[n].path = <<>>
    BY <2>2, <2>3 DEF Hung
  <2>4. CASE menu[n].parent # Top \/ menu[n].path # <<>>
    <3>. DEFINE k == menu[n].parent
    <3>1. /\ k \in RowsOf(menu) /\ k \in Menu /\ menu[n].path = Append(menu[k].path, k)
          /\ n \in below <=> (o.old.path = menu[k].path /\ m = k) \/ k \in below
      BY <1>1, <1>2, <2>1, <2>4, BelowParent DEF Prefix
    <3>2. k # m /\ k \notin below
      BY <1>2, <2>1, <3>1
    <3>. HIDE DEF below, m
    <3>3. k \in RowsOf(t) /\ t[k] = menu[k]
      BY <1>4, <1>5, <3>1, <3>2
    <3>. QED BY <2>2, <3>1, <3>3 DEF Hung, Prefix
  <2>. QED BY <2>3, <2>4
<1>. QED BY <1>6 DEF Tree, t

\* A menu is moved, with all that is below it, to a place that is not below it.
LEMMA MoveTree ==
  ASSUME menu \in Table, Tree(menu), NEW o \in Op, menu[o.menu] # Nil,
         Place(menu[o.menu]) = Place(o.old), KidsRead(menu, o), PathRead(menu, o),
         o.form.parent \notin Under(menu, Prefix(o.menu, o.old)) \cup {o.menu}
  PROVE  Tree(Saved(o))
<1>. DEFINE m == o.menu
            below == Under(menu, Prefix(m, o.old))
            t == Saved(o)
<1>1. m \in Menu /\ menu[m] \in Row /\ o.old \in Row /\ o.old # Nil
  BY MenuTreeAssumption DEF Op, Table
<1>2. o.old.path = menu[m].path /\ o.old.path \in Seq(Menu)
  BY <1>1, PlaceIs DEF Row
<1>3. /\ Listed(o) = below
      /\ \A k \in o.kids : k[2] = menu[k[1]].path
  BY ListedIs
<1>4. \A n \in Menu : t[n] = Nil <=> menu[n] = Nil
  BY SavedRow
<1>5. /\ t[m] # Nil /\ t[m].parent = o.form.parent /\ t[m].path = o.path
  BY <1>1, SavedRow, CreatedTyped
<1>6. ASSUME NEW n \in Menu, n # m, menu[n] # Nil
      PROVE  /\ t[n].parent = menu[n].parent
             /\ n \notin below => t[n].path = menu[n].path
             /\ n \in below => t[n].path = NewPath(o, menu[n].path)
  <2>1. /\ t[n].parent = menu[n].parent
        /\ n \notin Listed(o) => t[n].path = menu[n].path
        /\ n \in Listed(o) => \E k \in o.kids : k[1] = n /\ t[n].path = NewPath(o, k[2])
    BY <1>6, SavedRow
  <2>. HIDE DEF t, below, m
  <2>. QED BY <1>3, <2>1
<1>7. m \notin below
  <2>1. ~IsPrefix(Append(menu[m].path, m), menu[m].path)
    BY <1>1, <1>2, PrefixOfAppend
  <2>. QED BY <1>2, <2>1 DEF Under, Prefix
<1>. HIDE DEF t
<1>8. RowsOf(t) = RowsOf(menu)
  BY <1>4 DEF RowsOf
<1>9. ASSUME NEW n \in RowsOf(t) PROVE Hung(t, n)
  <2>1. n \in RowsOf(menu) /\ n \in Menu /\ menu[n] # Nil /\ Hung(menu, n)
    BY <1>8 DEF RowsOf, Tree
  <2>2. CASE n = m
    <3>1. CASE o.form.parent = Top /\ o.path = <<>>
      BY <1>5, <2>2, <3>1 DEF Hung
    <3>2. CASE o.form.parent \in RowsOf(menu) /\ o.path = Prefix(o.form.parent, menu[o.form.parent])
      <4>. DEFINE p == o.form.parent
      <4>1. p \in Menu /\ p # m /\ menu[p] # Nil /\ p \notin below
        BY <3>2 DEF RowsOf
      <4>2. t[p].path = menu[p].path
        BY <1>6, <4>1
      <4>. QED BY <1>5, <1>8, <2>2, <3>2, <4>2 DEF Hung, Prefix
    <3>. QED BY <3>1, <3>2 DEF PathRead
  <2>3. CASE n # m /\ menu[n].parent = Top /\ menu[n].path = <<>>
    <3>1. n \notin below
      <4>1. ~IsPrefix(Append(menu[m].path, m), <<>>)
        BY <1>1, <1>2 DEF IsPrefix
      <4>. QED BY <1>2, <2>3, <4>1 DEF Under, Prefix
    <3>. HIDE DEF below, m
    <3>. QED BY <1>6, <2>1, <2>3, <3>1 DEF Hung
  <2>4. CASE n # m /\ (menu[n].parent # Top \/ menu[n].path # <<>>)
    <3>. DEFINE k == menu[n].parent
    <3>1. /\ k \in RowsOf(menu) /\ k \in Menu /\ menu[k].path \in Seq(Menu)
          /\ menu[n].path = Append(menu[k].path, k)
          /\ n \in below <=> (o.old.path = menu[k].path /\ m = k) \/ k \in below
      BY <1>1, <1>2, <2>1, <2>4, BelowParent DEF Prefix
    <3>2. k \in RowsOf(t) /\ t[n].parent = k /\ menu[k] # Nil
      BY <1>6, <1>8, <2>1, <2>4, <3>1 DEF RowsOf
    <3>3. t[n].path = Append(t[k].path, k)
      <4>1. CASE k = m
        <5>1. n \in below /\ menu[n].path = Prefix(m, o.old)
          BY <1>2, <3>1, <4>1 DEF Prefix
        <5>2. t[n].path = NewPath(o, Prefix(m, o.old))
          BY <1>6, <2>1, <2>4, <5>1
        <5>. QED BY <1>5, <4>1, <5>2, NewPathIs
      <4>2. CASE k # m /\ k \in below
        <5>1. n \in below /\ IsPrefix(Prefix(m, o.old), menu[k].path)
          BY <3>1, <4>2 DEF Under
        <5>2. NewPath(o, Append(menu[k].path, k)) = Append(NewPath(o, menu[k].path), k)
          BY <3>1, <5>1, NewPathIs
        <5>. HIDE DEF below, m, k
        <5>. QED BY <1>6, <2>1, <2>4, <3>1, <3>2, <4>2, <5>1, <5>2
      <4>3. CASE k # m /\ k \notin below
        <5>1. n \notin below
          BY <3>1, <4>3
        <5>. HIDE DEF below, m, k
        <5>. QED BY <1>6, <2>1, <2>4, <3>1, <3>2, <4>3, <5>1
      <4>. QED BY <4>1, <4>2, <4>3
    <3>. QED BY <3>2, <3>3 DEF Hung, Prefix
  <2>. QED BY <2>2, <2>3, <2>4
<1>. QED BY <1>9 DEF Tree, t

\* A menu that stays where it is.
LEMMA StayTree ==
  ASSUME menu \in Table, Tree(menu), NEW o \in Op, o.form.parent = o.old.parent,
         Place(menu[o.menu]) = Place(o.old), o.path = o.old.path, o.kids = {}
  PROVE  Tree(Saved(o))
<1>1. o.menu \in Menu /\ o.old \in Row /\ o.old # Nil /\ menu[o.menu] \in Row \cup {Nil}
  BY MenuTreeAssumption DEF Op, Table
<1>2. menu[o.menu] # Nil /\ menu[o.menu].parent = o.old.parent /\ menu[o.menu].path = o.old.path
  BY <1>1, PlaceIs
<1>3. Saved(o) \in Table
  BY SavedRow
<1>4. ASSUME NEW n \in Menu PROVE Place(menu[n]) = Place(Saved(o)[n])
  <2>1. n \notin Listed(o)
    BY DEF Listed
  <2>2. Saved(o)[n] = Nil <=> menu[n] = Nil
    BY SavedRow
  <2>3. menu[n] # Nil => Saved(o)[n].parent = menu[n].parent /\ Saved(o)[n].path = menu[n].path
    <3>1. CASE n = o.menu
      BY <1>2, <3>1, SavedRow, CreatedTyped
    <3>2. CASE n # o.menu
      BY <2>1, <3>2, SavedRow
    <3>. QED BY <3>1, <3>2
  <2>. QED BY <1>3, <2>2, <2>3 DEF Place
<1>. QED BY <1>3, <1>4, SamePlaces

\* A load leaves the rows of used identifiers at their places, and gives those it
\* creates the rows of their items.
LoadOf(o, new, differ) ==
    /\ o.seen \in Table /\ RowsOf(o.seen) \subseteq used
    /\ new \in [Missing(o.seen) -> Menu \ used] /\ IsInjective(new)
    /\ differ \subseteq Range(FileMenu(o.seen))

LEMMA LoadedItems ==
  ASSUME menu \in Table, RowsOf(menu) \subseteq used,
         NEW o, NEW new, NEW differ, LoadOf(o, new, differ)
  PROVE  LET at == FileMenu(o.seen)
             t == Loaded(o, new, differ)
         IN  /\ t \in Table
             /\ \A i \in 1..Count :
                  /\ MenuOf(at, new, i) \in Menu
                  /\ at[i] # Nil => MenuOf(at, new, i) = at[i] /\ at[i] \in used /\ at[i] \in RowsOf(o.seen)
                  /\ at[i] = Nil => /\ MenuOf(at, new, i) \notin used
                                    /\ t[MenuOf(at, new, i)] = FileRow(o.seen, new, i)
             /\ \A n \in used \cap Menu :
                  \/ t[n] = menu[n]
                  \/ \E i \in 1..Count :
                       at[i] = n /\ menu[n] # Nil /\ t[n] = FileRow(o.seen, new, i)
             /\ \A n \in Menu \ used :
                  \/ t[n] = Nil
                  \/ \E i \in 1..Count : at[i] = Nil /\ MenuOf(at, new, i) = n
<1>. DEFINE at == FileMenu(o.seen)
            t == Loaded(o, new, differ)
<1>1. o.seen \in Table /\ new \in [Missing(o.seen) -> Menu \ used] /\ new \in [Missing(o.seen) -> Menu]
  BY DEF LoadOf
<1>2. /\ t \in Table
      /\ \A n \in Menu :
           \/ t[n] = menu[n] /\ \A i \in Missing(o.seen) : new[i] # n
           \/ \E i \in 1..Count : /\ MenuOf(at, new, i) = n
                                  /\ t[n] = FileRow(o.seen, new, i)
                                  /\ at[i] = Nil \/ menu[at[i]] # Nil
  BY <1>1, LoadedRow
<1>. HIDE DEF t
<1>3. ASSUME NEW i \in 1..Count
      PROVE  /\ at[i] # Nil => /\ MenuOf(at, new, i) = at[i] /\ at[i] \in Menu
                               /\ at[i] \in used /\ at[i] \in RowsOf(o.seen)
             /\ at[i] = Nil => /\ i \in Missing(o.seen) /\ MenuOf(at, new, i) = new[i]
                               /\ new[i] \in Menu \ used
  <2>1. at[i] # Nil => at[i] \in RowsOf(o.seen)
    BY <1>1, FileMenuFound
  <2>2. at[i] = Nil => i \in Missing(o.seen)
    BY DEF Missing
  <2>. HIDE DEF at
  <2>. QED BY <1>1, <2>1, <2>2 DEF MenuOf, LoadOf, RowsOf
<1>4. \A i, j \in Missing(o.seen) : new[i] = new[j] => i = j
  BY <1>1 DEF LoadOf, IsInjective
<1>. HIDE DEF at
<1>5. ASSUME NEW i \in 1..Count, at[i] = Nil
      PROVE  t[MenuOf(at, new, i)] = FileRow(o.seen, new, i)
  <2>1. new[i] \in Menu \ used /\ i \in Missing(o.seen) /\ MenuOf(at, new, i) = new[i]
    BY <1>3, <1>5
  <2>2. PICK j \in 1..Count : MenuOf(at, new, j) = new[i] /\ t[new[i]] = FileRow(o.seen, new, j)
    BY <1>2, <2>1
  <2>3. at[j] = Nil /\ j = i
    BY <1>3, <1>4, <2>1, <2>2
  <2>. QED BY <2>1, <2>2, <2>3
<1>6. ASSUME NEW n \in used \cap Menu
      PROVE  \/ t[n] = menu[n]
             \/ \E i \in 1..Count : at[i] = n /\ menu[n] # Nil /\ t[n] = FileRow(o.seen, new, i)
  BY <1>2, <1>3, <1>6
<1>7. ASSUME NEW n \in Menu \ used
      PROVE  t[n] = Nil \/ \E i \in 1..Count : at[i] = Nil /\ MenuOf(at, new, i) = n
  <2>1. menu[n] = Nil
    BY <1>7 DEF RowsOf
  <2>. QED BY <1>2, <1>3, <1>7, <2>1
<1>. QED BY <1>2, <1>3, <1>5, <1>6, <1>7 DEF at, t

\* So the tree grows by the items that were missing.
LEMMA LoadTree ==
  ASSUME menu \in Table, RowsOf(menu) \subseteq used, Tree(menu),
         NEW o, NEW new, NEW differ, LoadOf(o, new, differ),
         \A n \in Range(FileMenu(o.seen)) \ {Nil} : Place(menu[n]) = Place(o.seen[n])
  PROVE  Tree(Loaded(o, new, differ))
<1>. DEFINE at == FileMenu(o.seen)
            t == Loaded(o, new, differ)
            of(i) == MenuOf(at, new, i)
<1>1. o.seen \in Table /\ new \in [Missing(o.seen) -> Menu]
  BY DEF LoadOf
<1>2. /\ t \in Table
      /\ \A i \in 1..Count :
           /\ of(i) \in Menu
           /\ at[i] # Nil => of(i) = at[i] /\ at[i] \in used /\ at[i] \in RowsOf(o.seen)
           /\ at[i] = Nil => of(i) \notin used /\ t[of(i)] = FileRow(o.seen, new, i)
      /\ \A n \in used \cap Menu :
           \/ t[n] = menu[n]
           \/ \E i \in 1..Count : at[i] = n /\ menu[n] # Nil /\ t[n] = FileRow(o.seen, new, i)
      /\ \A n \in Menu \ used : t[n] = Nil \/ \E i \in 1..Count : at[i] = Nil /\ of(i) = n
  BY LoadedItems
<1>3. ASSUME NEW i \in 1..Count, at[i] # Nil
      PROVE  /\ menu[at[i]] # Nil /\ menu[at[i]].parent = o.seen[at[i]].parent
             /\ menu[at[i]].path = o.seen[at[i]].path
  <2>1. at[i] \in Range(at) \ {Nil}
    BY <1>1, <1>3, FileMenuIs DEF Range
  <2>2. at[i] \in Menu /\ o.seen[at[i]] # Nil /\ o.seen[at[i]] \in Row \cup {Nil}
    BY <1>1, <1>2, <1>3 DEF RowsOf, Table
  <2>3. menu[at[i]] \in Row \cup {Nil} /\ Place(menu[at[i]]) = Place(o.seen[at[i]])
    BY <2>1, <2>2 DEF Table
  <2>. HIDE DEF at
  <2>. QED BY <2>2, <2>3, PlaceIs
<1>4. ASSUME NEW i \in 1..Count
      PROVE  LET r == FileRow(o.seen, new, i) IN
             /\ r # Nil
             /\ at[i] # Nil => r.parent = o.seen[at[i]].parent /\ r.path = o.seen[at[i]].path
             /\ at[i] = Nil => /\ r.path = FilePath(o.seen, new)[i]
                               /\ r.parent = IF File[i].above = 0 THEN Top ELSE of(File[i].above)
  BY <1>1, FileRowIs
<1>. HIDE DEF at, t, of
<1>5. ASSUME NEW n \in used \cap Menu
      PROVE  /\ t[n] = Nil <=> menu[n] = Nil
             /\ t[n] # Nil => t[n].parent = menu[n].parent /\ t[n].path = menu[n].path
  <2>1. CASE t[n] = menu[n]
    BY <2>1
  <2>2. CASE t[n] # menu[n]
    <3>1. PICK i \in 1..Count : at[i] = n /\ menu[n] # Nil /\ t[n] = FileRow(o.seen, new, i)
      BY <1>2, <1>5, <2>2
    <3>2. at[i] # Nil
      BY <1>5, <3>1, MenuTreeAssumption
    <3>. QED BY <1>3, <1>4, <3>1, <3>2
  <2>. QED BY <2>1, <2>2
<1>6. ASSUME NEW i \in 1..Count
      PROVE  /\ of(i) \in RowsOf(t)
             /\ t[of(i)].path = IF at[i] = Nil THEN FilePath(o.seen, new)[i] ELSE o.seen[at[i]].path
  <2>1. CASE at[i] = Nil
    BY <1>2, <1>4, <2>1 DEF RowsOf
  <2>2. CASE at[i] # Nil
    BY <1>2, <1>3, <1>5, <2>2 DEF RowsOf
  <2>. QED BY <2>1, <2>2
<1>7. ASSUME NEW n \in RowsOf(t) PROVE Hung(t, n)
  <2>1. CASE n \in used
    <3>1. n \in Menu /\ n \in RowsOf(menu) /\ Hung(menu, n)
      BY <1>5, <1>7, <2>1 DEF RowsOf, Tree
    <3>2. t[n].parent = menu[n].parent /\ t[n].path = menu[n].path
      BY <1>5, <1>7, <2>1 DEF RowsOf
    <3>3. ASSUME menu[n].parent \in RowsOf(menu)
          PROVE  /\ menu[n].parent \in RowsOf(t)
                 /\ t[menu[n].parent].path = menu[menu[n].parent].path
      BY <1>5, <3>3 DEF RowsOf
    <3>. QED BY <3>1, <3>2, <3>3 DEF Hung, Prefix
  <2>2. CASE n \notin used
    <3>1. PICK i \in 1..Count : at[i] = Nil /\ of(i) = n
      BY <1>2, <1>7, <2>2 DEF RowsOf
    <3>2. /\ t[n].path = FilePath(o.seen, new)[i]
          /\ t[n].parent = IF File[i].above = 0 THEN Top ELSE of(File[i].above)
      BY <1>2, <1>4, <3>1
    <3>3. FilePath(o.seen, new)[i] =
            IF File[i].above = 0 THEN <<>>
            ELSE PathBelow(o.seen, new, File[i].above, FilePath(o.seen, new)[File[i].above])
      BY <1>1, FilePathIs
    <3>4. CASE File[i].above = 0
      BY <3>2, <3>3, <3>4 DEF Hung
    <3>5. CASE File[i].above # 0
      <4>. DEFINE up == File[i].above
      <4>1. up \in 1..Count
        BY <3>5, FileTyped
      <4>2. t[n].path = PathBelow(o.seen, new, up, FilePath(o.seen, new)[up]) /\ t[n].parent = of(up)
        BY <3>2, <3>3, <3>5
      <4>. HIDE DEF up
      <4>3. t[n].path = Append(IF at[up] = Nil THEN FilePath(o.seen, new)[up] ELSE o.seen[at[up]].path, of(up))
        BY <4>2 DEF PathBelow, at, of
      <4>. QED BY <1>6, <4>1, <4>2, <4>3 DEF Hung, Prefix
    <3>. QED BY <3>4, <3>5
  <2>. QED BY <2>1, <2>2
<1>. QED BY <1>7 DEF Tree, t

-----------------------------------------------------------------------------
(* What a writer has read.                                                 *)

Clean == slips \cap {"late", "below itself"} = {}
MovedNow == {n \in Menu : Place(menu[n]) # Place(menu'[n])}

\* An active writer has the operation of its kind.
LEMMA KindIs ==
  ASSUME TypeInv, NEW w \in Writer, pc[w] # "idle"
  PROVE  /\ menu \in Table
         /\ pc[w] = "load" => op[w] \in Load /\ op[w].kind = "load" /\ op[w].seen \in Table
         /\ pc[w] # "load" => Active(w) /\ op[w] \in Op /\ Fits(w) /\ op[w].kind # "load"
<1>1. WriterTypes(w) /\ menu \in Table
  BY TypeParts DEF TableTypes
<1>. QED BY <1>1 DEF WriterTypes, Steps, Active, Load, Op, Table

\* What was read is still so after a step that moves none of the rows relied on.
LEMMA ViewKept ==
  ASSUME TypeInv, TypeInv', NEW v \in Writer, pc[v] # "idle", pc'[v] = pc[v], op'[v] = op[v],
         View(v, menu), MovedNow \cap Relied(op[v]) = {}
  PROVE  View(v, menu)'
<1>. DEFINE o == op[v]
<1>1. menu \in Table /\ menu' \in Table
  BY TypeParts, TypePartsNext DEF TableTypes
<1>2. ASSUME NEW n \in Menu, n \in Relied(o)
      PROVE  /\ Place(menu[n]) = Place(menu'[n])
             /\ menu[n] = Nil <=> menu'[n] = Nil
             /\ menu[n] # Nil => menu[n].path = menu'[n].path
  <2>1. Place(menu[n]) = Place(menu'[n])
    BY <1>2 DEF MovedNow
  <2>. QED BY <1>1, <2>1, PlaceIs DEF Table
<1>3. CASE pc[v] = "load"
  <2>1. o \in Load /\ o.kind = "load" /\ o.seen \in Table
    BY <1>3, KindIs
  <2>2. \A n \in Range(FileMenu(o.seen)) \ {Nil} : n \in Menu
    BY <2>1, FileMenuIs DEF Range
  <2>3. \A n \in Range(FileMenu(o.seen)) \ {Nil} : n \in Relied(o)
    BY <2>1 DEF Relied
  <2>4. \A n \in Range(FileMenu(o.seen)) \ {Nil} : Place(menu[n]) = Place(o.seen[n])
    BY <2>1 DEF View
  <2>5. \A n \in Range(FileMenu(o.seen)) \ {Nil} : Place(menu'[n]) = Place(o.seen[n])
    BY <1>2, <2>2, <2>3, <2>4
  <2>. QED BY <2>1, <2>5 DEF View
<1>4. CASE pc[v] # "load"
  <2>1. o \in Op /\ o.kind # "load" /\ o.menu \in Menu /\ o.form.parent \in Menu \cup {Top}
    BY <1>4, KindIs DEF Op, Form
  <2>. DEFINE p == Prefix(o.menu, o.old)
  <2>2. Relied(o) = {o.menu, o.form.parent} \cup Under(menu, p) \cup Under(menu', p)
    BY <2>1 DEF Relied
  <2>. HIDE DEF p, o
  <2>3. Under(menu, p) = Under(menu', p)
    BY <1>2, <2>2 DEF Under
  <2>4. \A n \in Under(menu, p) : menu[n].path = menu'[n].path
    BY <1>2, <2>2 DEF Under
  <2>5. KidsRead(menu, o) => KidsRead(menu', o)
    <3>1. {<<n, menu[n].path>> : n \in Under(menu, p)} = {<<n, menu'[n].path>> : n \in Under(menu', p)}
      BY <2>3, <2>4
    <3>. QED BY <3>1 DEF KidsRead, p
  <2>6. PathRead(menu, o) => PathRead(menu', o)
    <3>1. o.form.parent \in RowsOf(menu) =>
            o.form.parent \in RowsOf(menu') /\ menu[o.form.parent].path = menu'[o.form.parent].path
      BY <1>2, <2>2 DEF RowsOf
    <3>. QED BY <3>1 DEF PathRead, Prefix
  <2>7. Place(menu[o.menu]) = Place(menu'[o.menu])
    BY <1>2, <2>1, <2>2
  <2>. QED BY <2>1, <2>5, <2>6, <2>7 DEF View, o
<1>. QED BY <1>3, <1>4

\* A step of w that writes no row.
LEMMA TreeReads ==
  ASSUME TypeInv, TypeInv', TreeInv, NEW w \in Writer, menu' = menu, slips' = slips,
         late \ {w} \subseteq late',
         \A v \in Writer \ {w} : pc'[v] = pc[v] /\ op'[v] = op[v],
         Clean /\ w \notin late' /\ pc'[w] # "idle" => View(w, menu)'
  PROVE  TreeInv'
<1>. SUFFICES ASSUME Clean
              PROVE  /\ Tree(menu')
                     /\ \A v \in Writer \ late' : pc'[v] # "idle" => View(v, menu)'
  BY DEF TreeInv, Clean
<1>1. Tree(menu) /\ \A v \in Writer \ late : pc[v] # "idle" => View(v, menu)
  BY DEF TreeInv, Clean
<1>2. ASSUME NEW v \in Writer \ late', pc'[v] # "idle", v # w PROVE View(v, menu)'
  <2>1. v \notin late /\ pc'[v] = pc[v] /\ op'[v] = op[v]
    BY <1>2
  <2>2. View(v, menu)
    BY <1>1, <1>2, <2>1
  <2>3. MovedNow \cap Relied(op[v]) = {}
    BY DEF MovedNow
  <2>. QED BY <1>2, <2>1, <2>2, <2>3, ViewKept
<1>. QED BY <1>1, <1>2

\* A commit of w makes everyone late whose rows it moves.
LEMMA TreeWrites ==
  ASSUME TypeInv, TypeInv', TreeInv, NEW w \in Writer, Outdates(w), Finish(w), slips \subseteq slips',
         Clean' => Tree(menu')
  PROVE  TreeInv'
<1>. SUFFICES ASSUME Clean'
              PROVE  \A v \in Writer \ late' : pc'[v] # "idle" => View(v, menu)'
  BY DEF TreeInv, Clean
<1>1. \A v \in Writer \ late : pc[v] # "idle" => View(v, menu)
  BY DEF TreeInv, Clean
<1>2. ASSUME NEW v \in Writer \ late', pc'[v] # "idle" PROVE View(v, menu)'
  <2>1. v # w /\ pc'[v] = pc[v] /\ op'[v] = op[v]
    BY <1>2, TypeParts DEF Finish
  <2>2. late' = (late \ {w}) \cup
                {u \in {x \in Writer \ {w} : pc[x] # "idle"} : MovedNow \cap Relied(op[u]) # {}}
    BY DEF Outdates, MovedNow
  <2>3. v \notin late /\ MovedNow \cap Relied(op[v]) = {}
    BY <1>2, <2>1, <2>2
  <2>4. View(v, menu)
    BY <1>1, <1>2, <2>1, <2>3
  <2>. QED BY <1>2, <2>1, <2>3, <2>4, ViewKept
<1>. QED BY <1>2

LEMMA OthersWait ==
  ASSUME TypeInv, NEW w \in Writer, NEW x, NEW y,
         pc' = [pc EXCEPT ![w] = x], op' = [op EXCEPT ![w] = y]
  PROVE  /\ pc'[w] = x /\ op'[w] = y
         /\ \A v \in Writer \ {w} : pc'[v] = pc[v] /\ op'[v] = op[v]
BY TypeParts

\* The first query of each operation.
LEMMA BeginTree ==
  ASSUME TypeInv, TypeInv', TreeInv, NEW w \in Writer, NEW o, NEW where, Begin(w, o, where),
         pc'[w] = where /\ op'[w] = o => View(w, menu)'
  PROVE  TreeInv'
<1>1. /\ menu' = menu /\ slips' = slips /\ late' = late
      /\ pc' = [pc EXCEPT ![w] = where] /\ op' = [op EXCEPT ![w] = o]
  BY DEF Begin
<1>. QED BY <1>1, OthersWait, TreeReads

LEMMA CreateTreeInv ==
  ASSUME TypeInv, TypeInv', TreeInv, NEW w \in Writer, Create(w)
  PROVE  TreeInv'
<1>1. PICK m \in Menu \ used, f \in Form :
        Begin(w, [kind |-> "create", menu |-> m, form |-> f,
                  old |-> [parent |-> Top, path |-> <<>>, code |-> f.code, status |-> f.status],
                  path |-> <<>>, kids |-> {}],
              IF f.parent = Top THEN "code" ELSE "parent")
  BY DEF Create
<1>. DEFINE o == [kind |-> "create", menu |-> m, form |-> f,
                  old |-> [parent |-> Top, path |-> <<>>, code |-> f.code, status |-> f.status],
                  path |-> <<>>, kids |-> {}]
            where == IF f.parent = Top THEN "code" ELSE "parent"
<1>2. o.kind = "create" /\ o.form = f /\ o.path = <<>>
  OBVIOUS
<1>3. where # "parent" => f.parent = Top
  OBVIOUS
<1>4. Begin(w, o, where)
  BY <1>1
<1>. HIDE DEF o, where
<1>5. ASSUME pc'[w] = where, op'[w] = o PROVE View(w, menu)'
  BY <1>2, <1>3, <1>5 DEF View, PathRead, Moves
<1>. QED BY <1>4, <1>5, BeginTree

LEMMA UpdateTreeInv ==
  ASSUME TypeInv, TypeInv', TreeInv, NEW w \in Writer, Update(w)
  PROVE  TreeInv'
<1>1. PICK m \in Rows, f \in Form :
        Begin(w, [kind |-> "update", menu |-> m, form |-> f, old |-> menu[m],
                  path |-> IF f.parent = menu[m].parent THEN menu[m].path ELSE <<>>,
                  kids |-> {}],
              IF f.parent = menu[m].parent THEN "code"
              ELSE IF f.parent = Top THEN "children" ELSE "parent")
  BY DEF Update
<1>. DEFINE o == [kind |-> "update", menu |-> m, form |-> f, old |-> menu[m],
                  path |-> IF f.parent = menu[m].parent THEN menu[m].path ELSE <<>>,
                  kids |-> {}]
            where == IF f.parent = menu[m].parent THEN "code"
                     ELSE IF f.parent = Top THEN "children" ELSE "parent"
<1>2. /\ o.kind = "update" /\ o.menu = m /\ o.form = f /\ o.old = menu[m] /\ o.kids = {}
      /\ o.path = IF f.parent = menu[m].parent THEN menu[m].path ELSE <<>>
  OBVIOUS
<1>3. /\ f.parent = menu[m].parent => where = "code"
      /\ f.parent # menu[m].parent => where = IF f.parent = Top THEN "children" ELSE "parent"
  OBVIOUS
<1>4. Begin(w, o, where) /\ menu' = menu
  BY <1>1 DEF Begin
<1>. HIDE DEF o, where
<1>5. ASSUME pc'[w] = where, op'[w] = o PROVE View(w, menu)'
  <2>1. Moves(o) <=> f.parent # menu[m].parent
    BY <1>2 DEF Moves
  <2>. QED BY <1>2, <1>3, <1>4, <1>5, <2>1 DEF View, PathRead
<1>. QED BY <1>4, <1>5, BeginTree

LEMMA DeleteTreeInv ==
  ASSUME TypeInv, TypeInv', TreeInv, NEW w \in Writer, Delete(w)
  PROVE  TreeInv'
<1>1. PICK m \in Rows :
        Begin(w, [kind |-> "delete", menu |-> m,
                  form |-> [parent |-> menu[m].parent, code |-> menu[m].code,
                            status |-> menu[m].status],
                  old |-> menu[m], path |-> <<>>, kids |-> {}],
              "children")
  BY DEF Delete
<1>. DEFINE o == [kind |-> "delete", menu |-> m,
                  form |-> [parent |-> menu[m].parent, code |-> menu[m].code,
                            status |-> menu[m].status],
                  old |-> menu[m], path |-> <<>>, kids |-> {}]
<1>2. o.kind = "delete" /\ o.menu = m /\ o.old = menu[m]
  OBVIOUS
<1>3. Begin(w, o, "children") /\ menu' = menu
  BY <1>1 DEF Begin
<1>. HIDE DEF o
<1>4. ASSUME pc'[w] = "children", op'[w] = o PROVE View(w, menu)'
  BY <1>2, <1>3, <1>4 DEF View, Moves
<1>. QED BY <1>3, <1>4, BeginTree

LEMMA StartLoadTreeInv ==
  ASSUME TypeInv, TypeInv', TreeInv, NEW w \in Writer, StartLoad(w)
  PROVE  TreeInv'
<1>. DEFINE o == [kind |-> "load", seen |-> menu]
<1>1. Begin(w, o, "load") /\ menu' = menu /\ o.kind = "load" /\ o.seen = menu
  BY DEF StartLoad, Begin
<1>. HIDE DEF o
<1>2. ASSUME pc'[w] = "load", op'[w] = o PROVE View(w, menu)'
  BY <1>1, <1>2 DEF View
<1>. QED BY <1>1, <1>2, BeginTree

\* A request that ends without a commit.
LEMMA FinishTree ==
  ASSUME TypeInv, TypeInv', TreeInv, NEW w \in Writer, Finish(w), menu' = menu, slips' = slips,
         late' = late \ {w}
  PROVE  TreeInv'
<1>1. pc'[w] = "idle" /\ \A v \in Writer \ {w} : pc'[v] = pc[v] /\ op'[v] = op[v]
  BY TypeParts DEF Finish
<1>. QED BY <1>1, TreeReads

\* The queries that follow.
LEMMA GotoTree ==
  ASSUME TypeInv, TypeInv', TreeInv, NEW w \in Writer, Active(w), NEW o, NEW where,
         Goto(w, where), op' = [op EXCEPT ![w] = o],
         View(w, menu) /\ pc'[w] = where /\ op'[w] = o => View(w, menu)'
  PROVE  TreeInv'
<1>1. /\ menu' = menu /\ slips' = slips /\ late' = late
      /\ pc' = [pc EXCEPT ![w] = where]
  BY DEF Goto
<1>2. pc'[w] = where /\ op'[w] = o /\ \A v \in Writer \ {w} : pc'[v] = pc[v] /\ op'[v] = op[v]
  BY <1>1, OthersWait
<1>3. Clean /\ w \notin late => View(w, menu)
  BY DEF TreeInv, Clean, Active
<1>. QED BY <1>1, <1>2, <1>3, TreeReads

LEMMA ReadParentTreeInv ==
  ASSUME TypeInv, TypeInv', TreeInv, NEW w \in Writer, ReadParent(w)
  PROVE  TreeInv'
<1>. DEFINE p == op[w].form.parent
<1>1. Active(w) /\ pc[w] = "parent" /\ op[w] \in Op /\ Fits(w) /\ op[w].kind # "load" /\ p \in Menu \cup {Top}
  BY KindIs DEF ReadParent, Op, Form
<1>2. p # Top /\ op[w].kind # "delete"
  BY <1>1 DEF Fits
<1>3. CASE menu[p] = Nil
  BY <1>3, FinishTree DEF ReadParent, Refuse
<1>4. CASE menu[p] # Nil
  <2>. DEFINE o == [op[w] EXCEPT !.path = Prefix(p, menu[p])]
              where == IF op[w].kind = "create" THEN "code" ELSE "children"
  <2>1. /\ o.kind = op[w].kind /\ o.menu = op[w].menu /\ o.form = op[w].form /\ o.old = op[w].old
        /\ o.path = Prefix(p, menu[p])
    BY <1>1 DEF Op
  <2>2. Goto(w, where) /\ op' = [op EXCEPT ![w] = o] /\ menu' = menu
    BY <1>4 DEF ReadParent, Goto
  <2>. HIDE DEF o
  <2>3. PathRead(menu, o) /\ (Moves(o) <=> Moves(op[w]))
    BY <1>1, <1>2, <1>4, <2>1 DEF PathRead, RowsOf, Moves
  <2>4. ASSUME View(w, menu), pc'[w] = where, op'[w] = o PROVE View(w, menu)'
    <3>1. op[w].kind # "create" => Place(menu[o.menu]) = Place(o.old)
      BY <1>1, <2>1, <2>4 DEF View
    <3>2. op[w].kind = "update" => Moves(op[w])
      BY <1>1, <2>4 DEF View
    <3>3. op[w].kind = "create" => where = "code" /\ ~Moves(o)
      BY <2>1 DEF Moves
    <3>4. op[w].kind # "create" => where = "children"
      OBVIOUS
    <3>. HIDE DEF where
    <3>. QED BY <1>1, <1>2, <2>1, <2>2, <2>3, <2>4, <3>1, <3>2, <3>3, <3>4 DEF View
  <2>. HIDE DEF where
  <2>. QED BY <1>1, <2>2, <2>4, GotoTree
<1>. QED BY <1>3, <1>4

LEMMA ReadChildrenTreeInv ==
  ASSUME TypeInv, TypeInv', TreeInv, NEW w \in Writer, ReadChildren(w)
  PROVE  TreeInv'
<1>. DEFINE kids == {<<n, menu[n].path>> : n \in Under(menu, Prefix(op[w].menu, op[w].old))}
            o == [op[w] EXCEPT !.kids = kids]
            where == IF op[w].kind = "delete" THEN "ready" ELSE "code"
<1>1. Active(w) /\ pc[w] = "children" /\ op[w] \in Op /\ Fits(w) /\ op[w].kind # "load"
  BY KindIs DEF ReadChildren
<1>2. op[w].kind # "create"
  BY <1>1 DEF Fits
<1>3. /\ o.kind = op[w].kind /\ o.menu = op[w].menu /\ o.form = op[w].form /\ o.old = op[w].old
      /\ o.path = op[w].path /\ o.kids = kids
  BY <1>1 DEF Op
<1>4. Goto(w, where) /\ op' = [op EXCEPT ![w] = o] /\ menu' = menu
  BY DEF ReadChildren, Goto
<1>. HIDE DEF o
<1>5. KidsRead(menu, o) /\ (Moves(o) <=> Moves(op[w]))
  BY <1>3 DEF KidsRead, Moves
<1>. HIDE DEF kids
<1>6. ASSUME View(w, menu), pc'[w] = where, op'[w] = o PROVE View(w, menu)'
  <2>1. Place(menu[o.menu]) = Place(o.old)
    BY <1>1, <1>2, <1>3, <1>6 DEF View
  <2>2. op[w].kind = "update" => Moves(op[w])
    BY <1>1, <1>6 DEF View
  <2>3. Moves(op[w]) => PathRead(menu, op[w])
    BY <1>1, <1>6 DEF View
  <2>4. PathRead(menu, op[w]) => PathRead(menu, o)
    BY <1>3 DEF PathRead
  <2>. HIDE DEF where
  <2>. QED BY <1>1, <1>2, <1>3, <1>4, <1>5, <1>6, <2>1, <2>2, <2>3, <2>4 DEF View
<1>. HIDE DEF where
<1>. QED BY <1>1, <1>4, <1>6, GotoTree

LEMMA CheckCodeTreeInv ==
  ASSUME TypeInv, TypeInv', TreeInv, NEW w \in Writer, CheckCode(w)
  PROVE  TreeInv'
<1>1. Active(w) /\ pc[w] = "code" /\ op[w] \in Op /\ Fits(w) /\ op[w].kind # "load"
  BY KindIs DEF CheckCode
<1>2. CASE Refuse(w)
  BY <1>2, FinishTree DEF Refuse
<1>3. CASE op' = op /\ Goto(w, "ready")
  <2>1. op' = [op EXCEPT ![w] = op[w]] /\ menu' = menu
    BY <1>3, TypeParts DEF Goto
  <2>2. op[w].kind # "delete"
    BY <1>1 DEF Fits
  <2>3. ASSUME View(w, menu), pc'[w] = "ready", op'[w] = op[w] PROVE View(w, menu)'
    BY <1>1, <2>1, <2>2, <2>3 DEF View
  <2>. QED BY <1>1, <1>3, <2>1, <2>3, GotoTree
<1>. QED BY <1>2, <1>3 DEF CheckCode

LEMMA FailTreeInv ==
  ASSUME TypeInv, TypeInv', TreeInv, NEW w \in Writer, Fail(w)
  PROVE  TreeInv'
BY FinishTree DEF Fail

\* A commit that does nothing wrong rests on a view that is up to date.
LEMMA CleanCommit ==
  ASSUME TypeInv, TreeInv, NEW w \in Writer, pc[w] # "idle", slips' = slips \cup Slips(w), Clean'
  PROVE  /\ Tree(menu) /\ View(w, menu)
         /\ Moves(op[w]) => op[w].form.parent \notin
              Under(menu, Prefix(op[w].menu, op[w].old)) \cup {op[w].menu}
<1>1. Clean /\ "late" \notin Slips(w) /\ "below itself" \notin Slips(w)
  BY DEF Clean
<1>2. w \notin late
  BY <1>1 DEF Slips, Slip
<1>3. Tree(menu) /\ View(w, menu)
  BY <1>1, <1>2 DEF TreeInv, Clean
<1>4. Moves(op[w]) => op[w].form.parent \notin
              Under(menu, Prefix(op[w].menu, op[w].old)) \cup {op[w].menu}
  BY <1>1 DEF Slips, Slip
<1>. QED BY <1>3, <1>4

LEMMA CommitTreeInv ==
  ASSUME TypeInv, TypeInv', TreeInv, NEW w \in Writer, Commit(w)
  PROVE  TreeInv'
<1>. DEFINE o == op[w]
<1>1. pc[w] = "ready" /\ slips' = slips \cup Slips(w) /\ Outdates(w) /\ Finish(w)
  BY DEF Commit
<1>2. menu \in Table /\ o \in Op /\ Active(w) /\ o.kind # "load" /\ o.old \in Row /\ o.old # Nil
      /\ o.menu \in Menu /\ menu[o.menu] \in Row \cup {Nil}
  BY <1>1, KindIs, MenuTreeAssumption DEF Op, Table
<1>3. ASSUME Clean' PROVE Tree(menu')
  <2>1. /\ Tree(menu) /\ View(w, menu)
        /\ Moves(o) => o.form.parent \notin Under(menu, Prefix(o.menu, o.old)) \cup {o.menu}
    BY <1>1, <1>3, CleanCommit
  <2>2. CASE o.kind = "create"
    <3>1. menu[o.menu] = Nil
      BY <1>2, <2>2, TypeParts DEF WriterTypes, Creates
    <3>2. PathRead(menu, o)
      BY <1>1, <2>1, <2>2 DEF View
    <3>3. menu' = [menu EXCEPT ![o.menu] = Created(o)]
      BY <2>2 DEF Commit
    <3>. HIDE DEF o
    <3>. QED BY <1>2, <2>1, <3>1, <3>2, <3>3, CreateTree
  <2>3. CASE o.kind = "update"
    <3>1. menu' = Saved(o) /\ Place(menu[o.menu]) = Place(o.old)
      BY <2>1, <2>3 DEF Commit, View
    <3>2. CASE Moves(o)
      <4>1. PathRead(menu, o) /\ KidsRead(menu, o)
        BY <1>1, <2>1, <2>3, <3>2 DEF View
      <4>2. menu[o.menu] # Nil
        BY <1>2, <3>1, PlaceIs
      <4>. HIDE DEF o
      <4>. QED BY <1>2, <2>1, <3>1, <3>2, <4>1, <4>2, MoveTree
    <3>3. CASE ~Moves(o)
      <4>1. o.path = o.old.path /\ o.kids = {} /\ o.form.parent = o.old.parent
        BY <2>1, <2>3, <3>3 DEF View, Moves
      <4>. HIDE DEF o
      <4>. QED BY <1>2, <2>1, <3>1, <4>1, StayTree
    <3>. QED BY <3>2, <3>3
  <2>4. CASE o.kind = "delete"
    <3>1. menu' = Removed(o) /\ Place(menu[o.menu]) = Place(o.old) /\ KidsRead(menu, o)
      BY <1>1, <2>1, <2>4 DEF Commit, View
    <3>2. menu[o.menu] # Nil
      BY <1>2, <3>1, PlaceIs
    <3>. HIDE DEF o
    <3>. QED BY <1>2, <2>1, <3>1, <3>2, RemoveTree
  <2>. QED BY <1>2, <2>2, <2>3, <2>4 DEF Op
<1>. QED BY <1>1, <1>3, TreeWrites

LEMMA CommitLoadTreeInv ==
  ASSUME TypeInv, TypeInv', TreeInv, NEW w \in Writer, CommitLoad(w)
  PROVE  TreeInv'
<1>. DEFINE o == op[w]
<1>1. pc[w] = "load" /\ slips' = slips \cup Slips(w) /\ Outdates(w) /\ Finish(w)
  BY DEF CommitLoad
<1>2. menu \in Table /\ RowsOf(menu) \subseteq used
  BY TypeParts DEF TableTypes, Rows
<1>3. o.kind = "load" /\ \E new, differ : LoadOf(o, new, differ) /\ menu' = Loaded(o, new, differ)
  BY CommitLoadIs DEF LoadOf
<1>4. ASSUME Clean' PROVE Tree(menu')
  <2>1. Tree(menu) /\ View(w, menu)
    BY <1>1, <1>4, CleanCommit
  <2>2. \A n \in Range(FileMenu(o.seen)) \ {Nil} : Place(menu[n]) = Place(o.seen[n])
    BY <1>3, <2>1 DEF View
  <2>. HIDE DEF o
  <2>. QED BY <1>2, <1>3, <2>1, <2>2, LoadTree
<1>. QED BY <1>1, <1>4, TreeWrites

LEMMA TreeKept == TypeInv /\ TypeInv' /\ TreeInv /\ [Next]_vars => TreeInv'
<1>1. ASSUME TypeInv, TypeInv', TreeInv, Next PROVE TreeInv'
  BY <1>1, CreateTreeInv, UpdateTreeInv, DeleteTreeInv, ReadParentTreeInv, ReadChildrenTreeInv,
     CheckCodeTreeInv, CommitTreeInv, StartLoadTreeInv, CommitLoadTreeInv, FailTreeInv DEF Next
<1>2. ASSUME TreeInv, UNCHANGED vars PROVE TreeInv'
  BY <1>2 DEF vars, TreeInv, View
<1>. QED BY <1>1, <1>2

LEMMA TreeInit == Init => TreeInv
<1>. SUFFICES ASSUME Init PROVE TreeInv
  OBVIOUS
<1>1. Tree(menu) /\ \A w \in Writer : pc[w] = "idle"
  BY MenuTreeAssumption DEF Init
<1>. QED BY <1>1 DEF TreeInv

-----------------------------------------------------------------------------
(* Codes.                                                                  *)

CleanCode == slips \cap {"late code", "code kept"} = {}
CodedNow == {n \in Menu : menu'[n] # Nil /\ Level(menu'[n]) # Level(menu[n])}
Takes(o) == \E n \in CodedNow :
               Level(menu'[n]) \in Wanted(o) /\ (o.kind # "load" => n # o.menu)

\* What a load wants is the level of each of its items.
LEMMA WantedIs ==
  ASSUME NEW o
  PROVE  /\ o.kind # "load" => Wanted(o) = {<<o.form.parent, o.form.code>>}
         /\ o.kind = "load" => \A i \in 1..Count :
              <<Over(FileMenu(o.seen), i), File[i].code>> \in Wanted(o)
<1>. DEFINE at == FileMenu(o.seen)
<1>1. o.kind = "load" =>
        Wanted(o) = {<<Top, File[i].code>> : i \in {j \in 1..Count : File[j].above = 0}}
                    \cup {<<at[File[i].above], File[i].code>> :
                            i \in {j \in 1..Count : File[j].above # 0}}
  BY DEF Wanted, Count
<1>2. o.kind # "load" => Wanted(o) = {<<o.form.parent, o.form.code>>}
  BY DEF Wanted
<1>. HIDE DEF at
<1>3. ASSUME NEW i \in 1..Count, o.kind = "load" PROVE <<Over(at, i), File[i].code>> \in Wanted(o)
  BY <1>1, <1>3 DEF Over
<1>. QED BY <1>2, <1>3 DEF at

\* What a writer found free is free after a step that takes nothing it wants.
LEMMA CodeViewKept ==
  ASSUME TypeInv, TypeInv', NEW v \in Writer, pc[v] # "idle", pc'[v] = pc[v], op'[v] = op[v],
         CodeView(v, menu), ~Takes(op[v])
  PROVE  CodeView(v, menu)'
<1>. DEFINE o == op[v]
<1>1. menu \in Table /\ menu' \in Table
  BY TypeParts, TypePartsNext DEF TableTypes
<1>2. ASSUME NEW n \in RowsOf(menu'), NEW a, NEW c, Level(menu'[n]) = <<a, c>>,
             <<a, c>> \in Wanted(o), o.kind # "load" => n # o.menu
      PROVE  n \in RowsOf(menu) /\ Level(menu[n]) = <<a, c>>
  <2>1. n \in Menu /\ menu'[n] # Nil
    BY DEF RowsOf
  <2>2. Level(menu[n]) = <<a, c>>
    <3>1. n \notin CodedNow
      BY <1>2 DEF Takes
    <3>. QED BY <1>2, <2>1, <3>1 DEF CodedNow
  <2>3. menu[n] # Nil
    BY <2>2 DEF Level
  <2>. QED BY <2>1, <2>2, <2>3 DEF RowsOf
<1>3. CASE o.kind = "load"
  <2>. DEFINE at == FileMenu(o.seen)
  <2>1. \A i \in 1..Count, n \in RowsOf(menu) :
          Level(menu[n]) = <<Over(at, i), File[i].code>> => n = at[i]
    BY <1>3 DEF CodeView
  <2>2. \A i \in 1..Count : <<Over(at, i), File[i].code>> \in Wanted(o)
    BY <1>3, WantedIs
  <2>. HIDE DEF at, o
  <2>3. \A i \in 1..Count, n \in RowsOf(menu') :
          Level(menu'[n]) = <<Over(at, i), File[i].code>> => n = at[i]
    BY <1>2, <1>3, <2>1, <2>2
  <2>. QED BY <1>3, <2>3 DEF CodeView, at, o
<1>4. CASE o.kind # "load"
  <2>1. Checked(v)' <=> Checked(v)
    BY DEF Checked
  <2>2. ASSUME Keeps(o) \/ Checked(v), NEW n \in RowsOf(menu') \ {o.menu}
        PROVE  Level(menu'[n]) # <<o.form.parent, o.form.code>>
    <3>1. \A k \in RowsOf(menu) \ {o.menu} : Level(menu[k]) # <<o.form.parent, o.form.code>>
      BY <1>4, <2>2 DEF CodeView
    <3>2. <<o.form.parent, o.form.code>> \in Wanted(o)
      BY <1>4, WantedIs
    <3>. HIDE DEF o
    <3>. QED BY <1>2, <2>2, <3>1, <3>2
  <2>. QED BY <1>4, <2>1, <2>2 DEF CodeView
<1>. QED BY <1>3, <1>4

\* A step of w that writes no row.
LEMMA CodeReads ==
  ASSUME TypeInv, TypeInv', CodeInv, NEW w \in Writer, menu' = menu, slips' = slips,
         lateCode \ {w} \subseteq lateCode',
         \A v \in Writer \ {w} : pc'[v] = pc[v] /\ op'[v] = op[v],
         CleanCode /\ w \notin lateCode' /\ pc'[w] # "idle" => CodeView(w, menu)'
  PROVE  CodeInv'
<1>. SUFFICES ASSUME CleanCode
              PROVE  /\ CodesDistinct(menu')
                     /\ \A v \in Writer \ lateCode' : pc'[v] # "idle" => CodeView(v, menu)'
  BY DEF CodeInv, CleanCode
<1>1. CodesDistinct(menu) /\ \A v \in Writer \ lateCode : pc[v] # "idle" => CodeView(v, menu)
  BY DEF CodeInv, CleanCode
<1>2. ASSUME NEW v \in Writer \ lateCode', pc'[v] # "idle", v # w PROVE CodeView(v, menu)'
  <2>1. v \notin lateCode /\ pc'[v] = pc[v] /\ op'[v] = op[v]
    BY <1>2
  <2>2. CodeView(v, menu)
    BY <1>1, <1>2, <2>1
  <2>3. ~Takes(op[v])
    BY DEF Takes, CodedNow
  <2>. QED BY <1>2, <2>1, <2>2, <2>3, CodeViewKept
<1>. QED BY <1>1, <1>2

\* A commit of w makes everyone late who wants what it takes.
LEMMA CodeWrites ==
  ASSUME TypeInv, TypeInv', CodeInv, NEW w \in Writer, Outdates(w), Finish(w), slips \subseteq slips',
         CleanCode' => CodesDistinct(menu')
  PROVE  CodeInv'
<1>. SUFFICES ASSUME CleanCode'
              PROVE  \A v \in Writer \ lateCode' : pc'[v] # "idle" => CodeView(v, menu)'
  BY DEF CodeInv, CleanCode
<1>1. \A v \in Writer \ lateCode : pc[v] # "idle" => CodeView(v, menu)
  BY DEF CodeInv, CleanCode
<1>2. ASSUME NEW v \in Writer \ lateCode', pc'[v] # "idle" PROVE CodeView(v, menu)'
  <2>1. v # w /\ pc'[v] = pc[v] /\ op'[v] = op[v]
    BY <1>2, TypeParts DEF Finish
  <2>2. lateCode' = (lateCode \ {w}) \cup
                    {u \in {x \in Writer \ {w} : pc[x] # "idle"} : Takes(op[u])}
    BY DEF Outdates, Takes, CodedNow
  <2>3. v \notin lateCode /\ ~Takes(op[v])
    BY <1>2, <2>1, <2>2
  <2>4. CodeView(v, menu)
    BY <1>1, <1>2, <2>1, <2>3
  <2>. QED BY <1>2, <2>1, <2>3, <2>4, CodeViewKept
<1>. QED BY <1>2

LEMMA BeginCode ==
  ASSUME TypeInv, TypeInv', CodeInv, NEW w \in Writer, NEW o, NEW where, Begin(w, o, where),
         CodesDistinct(menu) /\ pc'[w] = where /\ op'[w] = o => CodeView(w, menu)'
  PROVE  CodeInv'
<1>1. /\ menu' = menu /\ slips' = slips /\ lateCode' = lateCode
      /\ pc' = [pc EXCEPT ![w] = where] /\ op' = [op EXCEPT ![w] = o]
  BY DEF Begin
<1>2. CleanCode => CodesDistinct(menu)
  BY DEF CodeInv, CleanCode
<1>. QED BY <1>1, <1>2, OthersWait, CodeReads

LEMMA FinishCode ==
  ASSUME TypeInv, TypeInv', CodeInv, NEW w \in Writer, Finish(w), menu' = menu, slips' = slips,
         lateCode' = lateCode \ {w}
  PROVE  CodeInv'
<1>1. pc'[w] = "idle" /\ \A v \in Writer \ {w} : pc'[v] = pc[v] /\ op'[v] = op[v]
  BY TypeParts DEF Finish
<1>. QED BY <1>1, CodeReads

LEMMA GotoCode ==
  ASSUME TypeInv, TypeInv', CodeInv, NEW w \in Writer, Active(w), NEW o, NEW where,
         Goto(w, where), op' = [op EXCEPT ![w] = o],
         CodeView(w, menu) /\ pc'[w] = where /\ op'[w] = o => CodeView(w, menu)'
  PROVE  CodeInv'
<1>1. /\ menu' = menu /\ slips' = slips /\ lateCode' = lateCode
      /\ pc' = [pc EXCEPT ![w] = where]
  BY DEF Goto
<1>2. pc'[w] = where /\ op'[w] = o /\ \A v \in Writer \ {w} : pc'[v] = pc[v] /\ op'[v] = op[v]
  BY <1>1, OthersWait
<1>3. CleanCode /\ w \notin lateCode => CodeView(w, menu)
  BY DEF CodeInv, CleanCode, Active
<1>. QED BY <1>1, <1>2, <1>3, CodeReads

LEMMA CreateCodeInv ==
  ASSUME TypeInv, TypeInv', CodeInv, NEW w \in Writer, Create(w)
  PROVE  CodeInv'
<1>1. PICK m \in Menu \ used, f \in Form :
        Begin(w, [kind |-> "create", menu |-> m, form |-> f,
                  old |-> [parent |-> Top, path |-> <<>>, code |-> f.code, status |-> f.status],
                  path |-> <<>>, kids |-> {}],
              IF f.parent = Top THEN "code" ELSE "parent")
  BY DEF Create
<1>. DEFINE o == [kind |-> "create", menu |-> m, form |-> f,
                  old |-> [parent |-> Top, path |-> <<>>, code |-> f.code, status |-> f.status],
                  path |-> <<>>, kids |-> {}]
            where == IF f.parent = Top THEN "code" ELSE "parent"
<1>2. o.kind = "create" /\ where # "ready" /\ Begin(w, o, where)
  BY <1>1
<1>. HIDE DEF o, where
<1>3. ASSUME pc'[w] = where, op'[w] = o PROVE CodeView(w, menu)'
  BY <1>2, <1>3 DEF CodeView, Keeps, Checked
<1>. QED BY <1>2, <1>3, BeginCode

\* An update that leaves its menu where it is, with its code, has its level.
LEMMA UpdateCodeInv ==
  ASSUME TypeInv, TypeInv', CodeInv, NEW w \in Writer, Update(w)
  PROVE  CodeInv'
<1>1. PICK m \in Rows, f \in Form :
        Begin(w, [kind |-> "update", menu |-> m, form |-> f, old |-> menu[m],
                  path |-> IF f.parent = menu[m].parent THEN menu[m].path ELSE <<>>,
                  kids |-> {}],
              IF f.parent = menu[m].parent THEN "code"
              ELSE IF f.parent = Top THEN "children" ELSE "parent")
  BY DEF Update
<1>. DEFINE o == [kind |-> "update", menu |-> m, form |-> f, old |-> menu[m],
                  path |-> IF f.parent = menu[m].parent THEN menu[m].path ELSE <<>>,
                  kids |-> {}]
            where == IF f.parent = menu[m].parent THEN "code"
                     ELSE IF f.parent = Top THEN "children" ELSE "parent"
<1>2. /\ o.kind = "update" /\ o.menu = m /\ o.form = f /\ o.old = menu[m]
      /\ where # "ready" /\ Begin(w, o, where)
  BY <1>1
<1>. HIDE DEF o, where
<1>3. menu' = menu /\ m \in RowsOf(menu) /\ menu[m] # Nil
  BY <1>2 DEF Begin, Rows, RowsOf
<1>4. ASSUME CodesDistinct(menu), pc'[w] = where, op'[w] = o PROVE CodeView(w, menu)'
  <2>1. ~Checked(w)'
    BY <1>2, <1>4 DEF Checked
  <2>2. ASSUME Keeps(o), NEW n \in RowsOf(menu) \ {m}
        PROVE  Level(menu[n]) # <<f.parent, f.code>>
    <3>1. Level(menu[m]) = <<f.parent, f.code>>
      BY <1>2, <1>3, <2>2 DEF Keeps, Moves, Level
    <3>. QED BY <1>3, <1>4, <2>2, <3>1 DEF CodesDistinct
  <2>. QED BY <1>2, <1>3, <1>4, <2>1, <2>2 DEF CodeView
<1>. QED BY <1>2, <1>4, BeginCode

LEMMA DeleteCodeInv ==
  ASSUME TypeInv, TypeInv', CodeInv, NEW w \in Writer, Delete(w)
  PROVE  CodeInv'
<1>1. PICK m \in Rows :
        Begin(w, [kind |-> "delete", menu |-> m,
                  form |-> [parent |-> menu[m].parent, code |-> menu[m].code,
                            status |-> menu[m].status],
                  old |-> menu[m], path |-> <<>>, kids |-> {}],
              "children")
  BY DEF Delete
<1>. DEFINE o == [kind |-> "delete", menu |-> m,
                  form |-> [parent |-> menu[m].parent, code |-> menu[m].code,
                            status |-> menu[m].status],
                  old |-> menu[m], path |-> <<>>, kids |-> {}]
<1>2. o.kind = "delete" /\ Begin(w, o, "children")
  BY <1>1
<1>. HIDE DEF o
<1>3. ASSUME pc'[w] = "children", op'[w] = o PROVE CodeView(w, menu)'
  BY <1>2, <1>3 DEF CodeView, Keeps, Checked
<1>. QED BY <1>2, <1>3, BeginCode

\* A load finds the only menu that has the level of an item.
LEMMA FoundOnly ==
  ASSUME NEW t \in Table, CodesDistinct(t), NEW i \in 1..Count, NEW n \in RowsOf(t),
         Level(t[n]) = <<Over(FileMenu(t), i), File[i].code>>
  PROVE  n = FileMenu(t)[i]
<1>. DEFINE at == FileMenu(t)
            p == Over(at, i)
<1>1. n \in Menu /\ t[n] \in Row /\ t[n] # Nil
  BY DEF RowsOf, Table
<1>2. t[n].parent = p /\ t[n].code = File[i].code
  BY <1>1 DEF Level
<1>3. p # Nil
  BY <1>1, <1>2, MenuTreeAssumption DEF Row
<1>4. n \in Found(t, p, i)
  BY <1>1, <1>2 DEF Found
<1>5. at[i] # Nil
  BY <1>3, <1>4, FileMenuFound
<1>6. at[i] \in RowsOf(t) /\ t[at[i]].parent = p /\ t[at[i]].code = File[i].code
  BY <1>5, FileMenuFound
<1>7. Level(t[at[i]]) = Level(t[n])
  BY <1>1, <1>2, <1>6 DEF Level, RowsOf
<1>. HIDE DEF at, p
<1>8. n = at[i]
  BY <1>6, <1>7 DEF CodesDistinct
<1>. QED BY <1>8 DEF at

LEMMA StartLoadCodeInv ==
  ASSUME TypeInv, TypeInv', CodeInv, NEW w \in Writer, StartLoad(w)
  PROVE  CodeInv'
<1>. DEFINE o == [kind |-> "load", seen |-> menu]
<1>1. Begin(w, o, "load") /\ menu' = menu /\ o.kind = "load" /\ o.seen = menu /\ menu \in Table
  BY TypeParts DEF StartLoad, Begin, TableTypes
<1>. HIDE DEF o
<1>2. ASSUME CodesDistinct(menu), pc'[w] = "load", op'[w] = o PROVE CodeView(w, menu)'
  <2>1. \A i \in 1..Count, n \in RowsOf(menu) :
          Level(menu[n]) = <<Over(FileMenu(menu), i), File[i].code>> => n = FileMenu(menu)[i]
    BY <1>1, <1>2, FoundOnly
  <2>. QED BY <1>1, <1>2, <2>1 DEF CodeView
<1>. QED BY <1>1, <1>2, BeginCode

LEMMA ReadParentCodeInv ==
  ASSUME TypeInv, TypeInv', CodeInv, NEW w \in Writer, ReadParent(w)
  PROVE  CodeInv'
<1>. DEFINE p == op[w].form.parent
<1>1. Active(w) /\ pc[w] = "parent" /\ op[w] \in Op /\ op[w].kind # "load"
  BY KindIs DEF ReadParent
<1>2. CASE menu[p] = Nil
  BY <1>2, FinishCode DEF ReadParent, Refuse
<1>3. CASE menu[p] # Nil
  <2>. DEFINE o == [op[w] EXCEPT !.path = Prefix(p, menu[p])]
              where == IF op[w].kind = "create" THEN "code" ELSE "children"
  <2>1. o.kind = op[w].kind /\ o.menu = op[w].menu /\ o.form = op[w].form /\ o.old = op[w].old
    BY <1>1 DEF Op
  <2>2. Goto(w, where) /\ op' = [op EXCEPT ![w] = o] /\ menu' = menu /\ where # "ready"
    BY <1>3 DEF ReadParent, Goto
  <2>. HIDE DEF o, where
  <2>3. ASSUME CodeView(w, menu), pc'[w] = where, op'[w] = o PROVE CodeView(w, menu)'
    BY <1>1, <2>1, <2>2, <2>3 DEF CodeView, Checked, Keeps, Moves
  <2>. QED BY <1>1, <2>2, <2>3, GotoCode
<1>. QED BY <1>2, <1>3

LEMMA ReadChildrenCodeInv ==
  ASSUME TypeInv, TypeInv', CodeInv, NEW w \in Writer, ReadChildren(w)
  PROVE  CodeInv'
<1>. DEFINE kids == {<<n, menu[n].path>> : n \in Under(menu, Prefix(op[w].menu, op[w].old))}
            o == [op[w] EXCEPT !.kids = kids]
            where == IF op[w].kind = "delete" THEN "ready" ELSE "code"
<1>1. Active(w) /\ pc[w] = "children" /\ op[w] \in Op /\ op[w].kind # "load"
  BY KindIs DEF ReadChildren
<1>. HIDE DEF kids
<1>2. o.kind = op[w].kind /\ o.menu = op[w].menu /\ o.form = op[w].form /\ o.old = op[w].old
  BY <1>1 DEF Op
<1>3. Goto(w, where) /\ op' = [op EXCEPT ![w] = o] /\ menu' = menu
  BY DEF ReadChildren, Goto, kids
<1>4. where = "ready" => op[w].kind = "delete"
  OBVIOUS
<1>. HIDE DEF o, where
<1>5. ASSUME CodeView(w, menu), pc'[w] = where, op'[w] = o PROVE CodeView(w, menu)'
  BY <1>1, <1>2, <1>3, <1>4, <1>5 DEF CodeView, Checked, Keeps, Moves
<1>. QED BY <1>1, <1>3, <1>5, GotoCode

LEMMA CheckCodeCodeInv ==
  ASSUME TypeInv, TypeInv', CodeInv, NEW w \in Writer, CheckCode(w)
  PROVE  CodeInv'
<1>. DEFINE o == op[w]
            taken == /\ o.kind = "create" \/ o.form.code # o.old.code
                     /\ \E n \in Rows : menu[n].parent = o.form.parent /\ menu[n].code = o.form.code
<1>1. Active(w) /\ pc[w] = "code" /\ o \in Op /\ o.kind # "load"
  BY KindIs DEF CheckCode
<1>2. CASE taken
  BY <1>2, FinishCode DEF CheckCode, Refuse
<1>3. CASE ~taken
  <2>1. op' = op /\ Goto(w, "ready")
    BY <1>3 DEF CheckCode
  <2>2. op' = [op EXCEPT ![w] = op[w]] /\ menu' = menu
    BY <2>1, TypeParts DEF Goto
  <2>3. ASSUME CodeView(w, menu), pc'[w] = "ready", op'[w] = op[w] PROVE CodeView(w, menu)'
    <3>1. ASSUME Keeps(o) \/ Checked(w)', NEW n \in RowsOf(menu) \ {o.menu}
          PROVE  Level(menu[n]) # <<o.form.parent, o.form.code>>
      <4>1. CASE Keeps(o)
        BY <1>1, <2>3, <3>1, <4>1 DEF CodeView
      <4>2. CASE Checked(w)'
        <5>1. o.kind = "create" \/ o.form.code # o.old.code
          BY <2>3, <4>2 DEF Checked
        <5>2. menu[n].parent # o.form.parent \/ menu[n].code # o.form.code
          BY <1>3, <3>1, <5>1 DEF Rows
        <5>. QED BY <5>2 DEF Level
      <4>. QED BY <3>1, <4>1, <4>2
    <3>. QED BY <1>1, <2>2, <2>3, <3>1 DEF CodeView
  <2>. HIDE DEF taken, o
  <2>. QED BY <1>1, <2>1, <2>2, <2>3, GotoCode
<1>. QED BY <1>2, <1>3

LEMMA FailCodeInv ==
  ASSUME TypeInv, TypeInv', CodeInv, NEW w \in Writer, Fail(w)
  PROVE  CodeInv'
BY FinishCode DEF Fail

\* Two items of the file have different menus.
LEMMA FileMenuDistinct ==
  ASSUME NEW t \in Table, NEW i \in 1..Count, NEW j \in 1..Count,
         FileMenu(t)[i] # Nil, FileMenu(t)[i] = FileMenu(t)[j]
  PROVE  i = j
<1>. DEFINE at == FileMenu(t)
            Only(k) == \A l \in 1..Count : at[k] # Nil /\ at[k] = at[l] => k = l
            S == {n \in Nat : \A k \in 1..Count : k <= n => Only(k)}
<1>1. 0 \in S
  OBVIOUS
<1>2. ASSUME NEW n \in Nat, n \in S PROVE n + 1 \in S
  <2>1. ASSUME NEW k \in 1..Count, k <= n + 1, NEW l \in 1..Count, at[k] # Nil, at[k] = at[l]
        PROVE  k = l
    <3>1. /\ Over(at, k) = t[at[k]].parent /\ File[k].code = t[at[k]].code /\ Over(at, k) # Nil
          /\ Over(at, l) = t[at[l]].parent /\ File[l].code = t[at[l]].code
      BY <2>1, FileMenuFound
    <3>2. Over(at, k) = Over(at, l) /\ File[k].code = File[l].code /\ Over(at, k) # Nil
      BY <2>1, <3>1
    <3>. DEFINE a == File[k].above
                b == File[l].above
    <3>3. /\ a \in Nat /\ b \in Nat /\ a < k
          /\ a # 0 => a \in 1..Count
          /\ b # 0 => b \in 1..Count
      BY FileTyped
    <3>4. \A e \in 1..Count : at[e] \in Menu \cup {Nil}
      BY FileMenuIs
    <3>. HIDE DEF at
    <3>5. a = b
      <4>1. CASE a = 0 \/ b = 0
        BY <3>2, <3>3, <3>4, <4>1, MenuTreeAssumption DEF Over
      <4>2. CASE a # 0 /\ b # 0
        <5>1. at[a] = at[b] /\ at[a] # Nil
          BY <3>2, <4>2 DEF Over
        <5>2. a \in 1..Count /\ b \in 1..Count /\ a <= n
          BY <2>1, <3>3, <4>2
        <5>3. Only(a)
          BY <1>2, <5>2
        <5>. HIDE DEF a, b
        <5>. QED BY <5>1, <5>2, <5>3
      <4>. QED BY <4>1, <4>2
    <3>. QED BY <3>2, <3>5, MenuTreeAssumption DEF Count
  <2>. HIDE DEF at
  <2>. QED BY <2>1
<1>. HIDE DEF S
<1>3. Nat \subseteq S
  BY <1>1, <1>2, SetInduction
<1>4. i \in S /\ i <= i
  BY <1>3
<1>. QED BY <1>4 DEF S

\* The level of an item once all above it are there.
LevelOf(at, new, i) ==
    <<IF File[i].above = 0 THEN Top ELSE MenuOf(at, new, File[i].above), File[i].code>>

\* Two items have different menus and levels after the load as well.
LEMMA ItemsDistinct ==
  ASSUME NEW o, NEW new, NEW differ, LoadOf(o, new, differ),
         NEW i \in 1..Count, NEW j \in 1..Count, i # j
  PROVE  LET at == FileMenu(o.seen) IN
         /\ MenuOf(at, new, i) # MenuOf(at, new, j)
         /\ LevelOf(at, new, i) # LevelOf(at, new, j)
<1>. DEFINE at == FileMenu(o.seen)
<1>1. o.seen \in Table /\ new \in [Missing(o.seen) -> Menu \ used] /\ RowsOf(o.seen) \subseteq used
  BY DEF LoadOf
<1>2. \A k \in 1..Count : /\ at[k] # Nil => at[k] \in Menu /\ at[k] \in used
                          /\ at[k] = Nil => k \in Missing(o.seen) /\ new[k] \in Menu \ used
  <2>1. \A k \in 1..Count : at[k] # Nil => at[k] \in RowsOf(o.seen) /\ at[k] \in Menu
    BY <1>1, FileMenuFound DEF RowsOf
  <2>2. \A k \in 1..Count : at[k] = Nil => k \in Missing(o.seen)
    BY DEF Missing
  <2>. HIDE DEF at
  <2>. QED BY <1>1, <2>1, <2>2
<1>3. \A k, l \in Missing(o.seen) : new[k] = new[l] => k = l
  BY <1>1 DEF LoadOf, IsInjective
<1>4. \A k, l \in 1..Count : at[k] # Nil /\ at[k] = at[l] => k = l
  BY <1>1, FileMenuDistinct
<1>. HIDE DEF at
<1>5. ASSUME NEW k \in 1..Count, NEW l \in 1..Count, MenuOf(at, new, k) = MenuOf(at, new, l)
      PROVE  k = l
  BY <1>2, <1>3, <1>4, <1>5 DEF MenuOf
<1>6. \A k \in 1..Count : MenuOf(at, new, k) \in Menu
  BY <1>2 DEF MenuOf
<1>7. ASSUME LevelOf(at, new, i) = LevelOf(at, new, j) PROVE FALSE
  <2>. DEFINE a == File[i].above
              b == File[j].above
  <2>1. (a # 0 => a \in 1..Count) /\ (b # 0 => b \in 1..Count)
    BY FileTyped
  <2>2. File[i].code = File[j].code
    BY <1>7 DEF LevelOf
  <2>3. (IF a = 0 THEN Top ELSE MenuOf(at, new, a)) = (IF b = 0 THEN Top ELSE MenuOf(at, new, b))
    BY <1>7 DEF LevelOf
  <2>4. a = b
    <3>. HIDE DEF a, b
    <3>. QED BY <1>5, <1>6, <2>1, <2>3, MenuTreeAssumption
  <2>. QED BY <2>2, <2>4, MenuTreeAssumption DEF Count
<1>. QED BY <1>5, <1>7 DEF at

\* A load creates what is missing at its level, and takes no level that is not free.
LEMMA LoadCodes ==
  ASSUME menu \in Table, RowsOf(menu) \subseteq used,
         \A n \in RowsOf(menu) : menu[n].parent \in used \cup {Top},
         CodesDistinct(menu), NEW o, NEW new, NEW differ, LoadOf(o, new, differ),
         \A i \in 1..Count, n \in RowsOf(menu) :
            Level(menu[n]) = <<Over(FileMenu(o.seen), i), File[i].code>> => n = FileMenu(o.seen)[i]
  PROVE  CodesDistinct(Loaded(o, new, differ))
<1>. DEFINE at == FileMenu(o.seen)
            t == Loaded(o, new, differ)
            of(i) == MenuOf(at, new, i)
            Stays(n) == n \in RowsOf(menu) /\ t[n] = menu[n]
            OfItem(n, i) == of(i) = n /\ Level(t[n]) = LevelOf(at, new, i)
<1>1. o.seen \in Table /\ new \in [Missing(o.seen) -> Menu]
  BY DEF LoadOf
<1>2. /\ t \in Table
      /\ \A i \in 1..Count :
           /\ of(i) \in Menu
           /\ at[i] # Nil => of(i) = at[i] /\ at[i] \in used /\ at[i] \in RowsOf(o.seen)
           /\ at[i] = Nil => of(i) \notin used /\ t[of(i)] = FileRow(o.seen, new, i)
      /\ \A n \in used \cap Menu :
           \/ t[n] = menu[n]
           \/ \E i \in 1..Count : at[i] = n /\ menu[n] # Nil /\ t[n] = FileRow(o.seen, new, i)
      /\ \A n \in Menu \ used : t[n] = Nil \/ \E i \in 1..Count : at[i] = Nil /\ of(i) = n
  BY LoadedItems
<1>. HIDE DEF t
<1>3. ASSUME NEW i \in 1..Count
      PROVE  /\ Level(FileRow(o.seen, new, i)) = LevelOf(at, new, i)
             /\ File[i].above # 0 => File[i].above \in 1..Count
  <2>1. /\ FileRow(o.seen, new, i) # Nil /\ FileRow(o.seen, new, i).code = File[i].code
        /\ at[i] # Nil => FileRow(o.seen, new, i).parent = o.seen[at[i]].parent
        /\ at[i] = Nil => FileRow(o.seen, new, i).parent =
                            IF File[i].above = 0 THEN Top ELSE of(File[i].above)
    BY <1>1, FileRowIs
  <2>2. at[i] # Nil => o.seen[at[i]].parent = Over(at, i) /\ Over(at, i) # Nil
    BY <1>1, FileMenuFound
  <2>3. File[i].above # 0 => File[i].above \in 1..Count
    BY FileTyped
  <2>. HIDE DEF at
  <2>4. at[i] # Nil => Over(at, i) = IF File[i].above = 0 THEN Top ELSE of(File[i].above)
    BY <1>2, <2>2, <2>3 DEF Over
  <2>. QED BY <2>1, <2>2, <2>3, <2>4 DEF Level, LevelOf
<1>4. ASSUME NEW n \in RowsOf(t) PROVE Stays(n) \/ \E i \in 1..Count : OfItem(n, i)
  <2>1. n \in Menu /\ t[n] # Nil
    BY DEF RowsOf
  <2>2. CASE n \in used
    <3>1. CASE t[n] = menu[n]
      BY <2>1, <3>1 DEF RowsOf
    <3>2. CASE \E i \in 1..Count : at[i] = n /\ menu[n] # Nil /\ t[n] = FileRow(o.seen, new, i)
      <4>1. PICK i \in 1..Count : at[i] = n /\ t[n] = FileRow(o.seen, new, i)
        BY <3>2
      <4>2. n # Nil
        BY <2>1, MenuTreeAssumption
      <4>3. OfItem(n, i)
        BY <1>2, <1>3, <4>1, <4>2
      <4>. QED BY <4>3
    <3>. QED BY <1>2, <2>1, <2>2, <3>1, <3>2
  <2>3. CASE n \notin used
    <3>1. PICK i \in 1..Count : at[i] = Nil /\ of(i) = n
      BY <1>2, <2>1, <2>3
    <3>2. OfItem(n, i)
      BY <1>2, <1>3, <3>1
    <3>. QED BY <3>2
  <2>. QED BY <2>2, <2>3
<1>5. ASSUME NEW m, Stays(m), NEW i \in 1..Count, of(i) # m
      PROVE  Level(menu[m]) # LevelOf(at, new, i)
  <2>. SUFFICES ASSUME Level(menu[m]) = LevelOf(at, new, i) PROVE FALSE
    OBVIOUS
  <2>1. m \in RowsOf(menu) /\ m \in Menu /\ m # Nil /\ menu[m] # Nil
    BY <1>5, MenuTreeAssumption DEF RowsOf
  <2>2. menu[m].parent = IF File[i].above = 0 THEN Top ELSE of(File[i].above)
    BY <2>1 DEF Level, LevelOf
  <2>3. menu[m].parent \in used \cup {Top}
    BY <2>1
  <2>4. File[i].above # 0 => /\ File[i].above \in 1..Count /\ at[File[i].above] # Nil
                             /\ of(File[i].above) = at[File[i].above]
    <3>. SUFFICES ASSUME File[i].above # 0
                  PROVE  /\ File[i].above \in 1..Count /\ at[File[i].above] # Nil
                         /\ of(File[i].above) = at[File[i].above]
      OBVIOUS
    <3>. DEFINE a == File[i].above
    <3>1. a \in 1..Count
      BY <1>3
    <3>2. menu[m].parent = of(a)
      BY <2>2
    <3>. HIDE DEF a
    <3>3. of(a) \in Menu
      BY <1>2, <3>1
    <3>4. of(a) \in used
      BY <2>3, <3>2, <3>3, MenuTreeAssumption
    <3>5. at[a] # Nil /\ of(a) = at[a]
      BY <1>2, <3>1, <3>4
    <3>. QED BY <3>1, <3>5 DEF a
  <2>5. LevelOf(at, new, i) = <<Over(at, i), File[i].code>>
    BY <2>4 DEF LevelOf, Over
  <2>6. m = at[i]
    BY <2>1, <2>5
  <2>. QED BY <1>2, <1>5, <2>1, <2>6
<1>6. \A i, j \in 1..Count : i # j => LevelOf(at, new, i) # LevelOf(at, new, j)
  BY ItemsDistinct
<1>. HIDE DEF at, of
<1>7. ASSUME NEW m \in RowsOf(t), NEW n \in RowsOf(t), m # n PROVE Level(t[m]) # Level(t[n])
  <2>1. CASE Stays(m) /\ Stays(n)
    BY <1>7, <2>1 DEF CodesDistinct
  <2>2. ASSUME NEW i \in 1..Count, Stays(m), OfItem(n, i) PROVE Level(t[m]) # Level(t[n])
    BY <1>5, <1>7, <2>2
  <2>3. ASSUME NEW i \in 1..Count, OfItem(m, i), Stays(n) PROVE Level(t[m]) # Level(t[n])
    BY <1>5, <1>7, <2>3
  <2>4. ASSUME NEW i \in 1..Count, NEW j \in 1..Count, OfItem(m, i), OfItem(n, j)
        PROVE  Level(t[m]) # Level(t[n])
    BY <1>6, <1>7, <2>4
  <2>. HIDE DEF Stays, OfItem
  <2>. QED BY <1>4, <2>1, <2>2, <2>3, <2>4
<1>. QED BY <1>7 DEF CodesDistinct, t

\* A row takes a level that nobody else has.
LEMMA TakeCodes ==
  ASSUME menu \in Table, NEW t \in Table, CodesDistinct(menu), NEW o \in Op,
         RowsOf(t) \subseteq RowsOf(menu) \cup {o.menu},
         \A n \in RowsOf(t) \ {o.menu} : Level(t[n]) = Level(menu[n]),
         o.menu \in RowsOf(t) => Level(t[o.menu]) = <<o.form.parent, o.form.code>>,
         \A n \in RowsOf(menu) \ {o.menu} : Level(menu[n]) # <<o.form.parent, o.form.code>>
  PROVE  CodesDistinct(t)
<1>1. ASSUME NEW m \in RowsOf(t), NEW n \in RowsOf(t), m # n PROVE Level(t[m]) # Level(t[n])
  <2>1. CASE m # o.menu /\ n # o.menu
    BY <1>1, <2>1 DEF CodesDistinct
  <2>2. CASE m = o.menu
    BY <1>1, <2>2
  <2>3. CASE n = o.menu
    BY <1>1, <2>3
  <2>. QED BY <2>1, <2>2, <2>3
<1>. QED BY <1>1 DEF CodesDistinct

\* A commit that does nothing wrong takes a level that is free.
LEMMA CleanCodeCommit ==
  ASSUME TypeInv, CodeInv, NEW w \in Writer, pc[w] # "idle", slips' = slips \cup Slips(w), CleanCode'
  PROVE  /\ CodesDistinct(menu) /\ CodeView(w, menu)
         /\ Moves(op[w]) => op[w].form.code # op[w].old.code
<1>1. CleanCode /\ "late code" \notin Slips(w) /\ "code kept" \notin Slips(w)
  BY DEF CleanCode
<1>2. w \notin lateCode
  BY <1>1 DEF Slips, Slip
<1>3. CodesDistinct(menu) /\ CodeView(w, menu)
  BY <1>1, <1>2 DEF CodeInv, CleanCode
<1>4. Moves(op[w]) => op[w].form.code # op[w].old.code
  BY <1>1 DEF Slips, Slip
<1>. QED BY <1>3, <1>4

LEMMA CommitCodeInv ==
  ASSUME TypeInv, TypeInv', CodeInv, NEW w \in Writer, Commit(w)
  PROVE  CodeInv'
<1>. DEFINE o == op[w]
            level == <<o.form.parent, o.form.code>>
<1>1. pc[w] = "ready" /\ slips' = slips \cup Slips(w) /\ Outdates(w) /\ Finish(w)
  BY DEF Commit
<1>2. /\ menu \in Table /\ menu' \in Table /\ o \in Op /\ o.kind # "load" /\ o.menu \in Menu
  BY <1>1, KindIs, TypePartsNext DEF Op, TableTypes
<1>3. Created(o) # Nil /\ Level(Created(o)) = level
  <2>. HIDE DEF o
  <2>. QED BY <1>2, CreatedTyped DEF Level
<1>4. ASSUME CleanCode' PROVE CodesDistinct(menu')
  <2>1. /\ CodesDistinct(menu) /\ CodeView(w, menu)
        /\ Moves(o) => o.form.code # o.old.code
    BY <1>1, <1>4, CleanCodeCommit
  <2>2. o.kind \in {"create", "update"} => Keeps(o) \/ Checked(w)
    BY <1>1, <2>1 DEF Keeps, Checked
  <2>3. o.kind \in {"create", "update"} => \A n \in RowsOf(menu) \ {o.menu} : Level(menu[n]) # level
    BY <1>2, <2>1, <2>2 DEF CodeView
  <2>4. CASE o.kind = "create"
    <3>1. menu' = [menu EXCEPT ![o.menu] = Created(o)]
      BY <2>4 DEF Commit
    <3>2. \A n \in Menu : menu'[n] = IF n = o.menu THEN Created(o) ELSE menu[n]
      BY <1>2, <3>1 DEF Table
    <3>3. RowsOf(menu') \subseteq RowsOf(menu) \cup {o.menu}
      BY <3>2 DEF RowsOf
    <3>4. \A n \in RowsOf(menu') \ {o.menu} : Level(menu'[n]) = Level(menu[n])
      BY <3>2 DEF RowsOf
    <3>5. Level(menu'[o.menu]) = level
      BY <1>2, <1>3, <3>2
    <3>. HIDE DEF o
    <3>. QED BY <1>2, <2>1, <2>3, <2>4, <3>3, <3>4, <3>5, TakeCodes
  <2>5. CASE o.kind = "update"
    <3>1. menu' = Saved(o)
      BY <2>5 DEF Commit
    <3>. HIDE DEF o
    <3>2. \A n \in Menu :
            /\ menu'[n] = Nil <=> menu[n] = Nil
            /\ n = o.menu /\ menu[n] # Nil => menu'[n] = Created(o)
            /\ n # o.menu /\ menu[n] # Nil =>
                 menu'[n].parent = menu[n].parent /\ menu'[n].code = menu[n].code
      BY <1>2, <3>1, SavedRow
    <3>3. RowsOf(menu') \subseteq RowsOf(menu) \cup {o.menu}
      BY <3>2 DEF RowsOf
    <3>4. \A n \in RowsOf(menu') \ {o.menu} : Level(menu'[n]) = Level(menu[n])
      BY <3>2 DEF RowsOf, Level
    <3>5. o.menu \in RowsOf(menu') => Level(menu'[o.menu]) = level
      BY <1>3, <3>2 DEF RowsOf
    <3>. QED BY <1>2, <2>1, <2>3, <2>5, <3>3, <3>4, <3>5, TakeCodes
  <2>6. CASE o.kind = "delete"
    <3>1. menu' = Removed(o)
      BY <2>6 DEF Commit
    <3>2. \A n \in Menu : menu'[n] \in {menu[n], Nil}
      <4>. HIDE DEF o
      <4>. QED BY <1>2, <3>1, RemovedRow
    <3>. HIDE DEF o
    <3>. QED BY <2>1, <3>2 DEF CodesDistinct, RowsOf
  <2>. QED BY <1>2, <2>4, <2>5, <2>6 DEF Op
<1>. QED BY <1>1, <1>4, CodeWrites

LEMMA CommitLoadCodeInv ==
  ASSUME TypeInv, TypeInv', CodeInv, NEW w \in Writer, CommitLoad(w)
  PROVE  CodeInv'
<1>. DEFINE o == op[w]
<1>1. pc[w] = "load" /\ slips' = slips \cup Slips(w) /\ Outdates(w) /\ Finish(w)
  BY DEF CommitLoad
<1>2. /\ menu \in Table /\ RowsOf(menu) \subseteq used
      /\ \A n \in RowsOf(menu) : menu[n].parent \in used \cup {Top}
  BY TypeParts DEF TableTypes, Rows
<1>3. o.kind = "load" /\ \E new, differ : LoadOf(o, new, differ) /\ menu' = Loaded(o, new, differ)
  BY CommitLoadIs DEF LoadOf
<1>4. ASSUME CleanCode' PROVE CodesDistinct(menu')
  <2>1. CodesDistinct(menu) /\ CodeView(w, menu)
    BY <1>1, <1>4, CleanCodeCommit
  <2>2. \A i \in 1..Count, n \in RowsOf(menu) :
          Level(menu[n]) = <<Over(FileMenu(o.seen), i), File[i].code>> => n = FileMenu(o.seen)[i]
    BY <1>3, <2>1 DEF CodeView
  <2>. HIDE DEF o
  <2>. QED BY <1>2, <1>3, <2>1, <2>2, LoadCodes
<1>. QED BY <1>1, <1>4, CodeWrites

LEMMA CodesKept == TypeInv /\ TypeInv' /\ CodeInv /\ [Next]_vars => CodeInv'
<1>1. ASSUME TypeInv, TypeInv', CodeInv, Next PROVE CodeInv'
  BY <1>1, CreateCodeInv, UpdateCodeInv, DeleteCodeInv, ReadParentCodeInv, ReadChildrenCodeInv,
     CheckCodeCodeInv, CommitCodeInv, StartLoadCodeInv, CommitLoadCodeInv, FailCodeInv DEF Next
<1>2. ASSUME CodeInv, UNCHANGED vars PROVE CodeInv'
  BY <1>2 DEF vars, CodeInv, CodeView, Checked
<1>. QED BY <1>1, <1>2

LEMMA CodesInit == Init => CodeInv
<1>. SUFFICES ASSUME Init PROVE CodeInv
  OBVIOUS
<1>1. CodesDistinct(menu) /\ \A w \in Writer : pc[w] = "idle"
  BY MenuTreeAssumption DEF Init
<1>. QED BY <1>1 DEF CodeInv

LEMMA Invariant == Spec => []IInv
<1>1. Init => IInv
  BY TypesInit, TreeInit, CodesInit DEF IInv
<1>2. IInv /\ [Next]_vars => IInv'
  BY TypesKept, TreeKept, CodesKept DEF IInv
<1>. QED BY <1>1, <1>2, PTL DEF Spec

-----------------------------------------------------------------------------

\* Rows, identifiers and operations have their types in every reachable state
\* (menu.biz.go, menu.dal.go): an identifier is nobody's before it is handed out, and
\* each writer is at the step that its operation allows.
THEOREM MenuTypeCorrect == Spec => []TypeOK
<1>1. IInv => TypeOK
  BY DEF IInv, TypeInv
<1>. QED BY <1>1, Invariant, PTL

\* The parent_path of every menu is that of its parent with the parent appended, for
\* trees of any depth, whatever requests and starting processes do at the same time, as
\* long as none of them committed on a view out of date or hung a menu below itself
\* (menu.biz.go Create, Update, Delete, createInBatchByParent).
THEOREM PathsAlwaysFollow == Spec => []PathsFollowParents
<1>1. IInv => PathsFollowParents
  BY DEF IInv, TreeInv, PathsFollowParents
<1>. QED BY <1>1, Invariant, PTL

\* No two menus of one parent have the same code, as long as nobody committed on a check
\* out of date or moved a menu with its code (menu.biz.go, ExistsCodeByParentID), and a
\* starting process takes no code that a request took before.
THEOREM CodesStayUnique == Spec => []CodesUniqueUnlessSlipped
<1>1. IInv => CodesUniqueUnlessSlipped
  BY DEF IInv, CodeInv, CodesUniqueUnlessSlipped
<1>. QED BY <1>1, Invariant, PTL

-----------------------------------------------------------------------------
(* Statuses.                                                               *)

LEMMA LastOfPrefix ==
  ASSUME NEW p \in Seq(Menu), NEW q \in Seq(Menu), NEW m \in Menu, IsPrefix(Append(p, m), q)
  PROVE  Len(p) + 1 \in 1..Len(q) /\ q[Len(p) + 1] = m
<1>. DEFINE a == Append(p, m)
            l == Len(p) + 1
<1>1. a \in Seq(Menu) /\ Len(a) = l /\ a[l] = m /\ l \in Nat /\ l >= 1
  OBVIOUS
<1>. HIDE DEF a, l
<1>2. l <= Len(q) /\ SubSeq(a, 1, l) = SubSeq(q, 1, l)
  BY <1>1 DEF IsPrefix, a
<1>3. l \in 1..Len(q)
  BY <1>1, <1>2
<1>4. SubSeq(a, 1, l)[l] = a[l]
  BY <1>1
<1>5. SubSeq(q, 1, l)[l] = q[l]
  BY <1>1, <1>2
<1>. QED BY <1>1, <1>2, <1>3, <1>4, <1>5 DEF l

\* In a tree, who is on a path has its own path before it.
LEMMA OnPath ==
  ASSUME NEW t \in Table, Tree(t), NEW n \in RowsOf(t), NEW i \in 1..Len(t[n].path),
         NEW m \in Menu, t[n].path[i] = m
  PROVE  m \in RowsOf(t) /\ t[m].path \in Seq(Menu) /\ n \in Under(t, Prefix(m, t[m]))
<1>. DEFINE Good(k) == \A j \in 1..Len(t[k].path) : t[k].path[j] = m =>
                          m \in RowsOf(t) /\ t[m].path \in Seq(Menu) /\ k \in Under(t, Prefix(m, t[m]))
            S == {l \in Nat : \A k \in RowsOf(t) : Len(t[k].path) = l => Good(k)}
<1>0. \A k \in RowsOf(t) : k \in Menu /\ t[k] # Nil /\ t[k].path \in Seq(Menu)
  BY DEF RowsOf, Table, Row
<1>1. 0 \in S
  OBVIOUS
<1>2. ASSUME NEW l \in Nat, l \in S PROVE l + 1 \in S
  <2>1. ASSUME NEW k \in RowsOf(t), Len(t[k].path) = l + 1, NEW j \in 1..Len(t[k].path),
               t[k].path[j] = m
        PROVE  m \in RowsOf(t) /\ t[m].path \in Seq(Menu) /\ k \in Under(t, Prefix(m, t[m]))
    <3>. DEFINE p == t[k].parent
    <3>1. p \in RowsOf(t) /\ t[k].path = Append(t[p].path, p)
      <4>1. Hung(t, k) /\ t[k].path # <<>>
        BY <2>1 DEF Tree
      <4>. QED BY <4>1 DEF Hung, Prefix
    <3>. HIDE DEF p
    <3>2. t[p].path \in Seq(Menu) /\ p \in Menu /\ t[p] # Nil /\ Len(t[p].path) = l
      BY <1>0, <2>1, <3>1
    <3>3. CASE j = l + 1
      <4>1. p = m
        BY <2>1, <3>1, <3>2, <3>3
      <4>2. t[k].path = Prefix(m, t[m]) /\ t[k].path \in Seq(Menu)
        BY <1>0, <3>1, <4>1 DEF Prefix
      <4>3. IsPrefix(t[k].path, t[k].path)
        BY <4>2, PrefixOfAppend
      <4>. QED BY <1>0, <3>1, <3>2, <4>1, <4>2, <4>3 DEF Under
    <3>4. CASE j # l + 1
      <4>1. j \in 1..Len(t[p].path)
        BY <2>1, <3>2, <3>4
      <4>2. t[p].path[j] = m
        BY <2>1, <3>1, <3>2, <4>1
      <4>3. Good(p)
        BY <1>2, <3>1, <3>2
      <4>4. m \in RowsOf(t) /\ t[m].path \in Seq(Menu) /\ p \in Under(t, Prefix(m, t[m]))
        BY <4>1, <4>2, <4>3
      <4>5. IsPrefix(Append(t[m].path, m), t[k].path)
        BY <3>1, <3>2, <4>4, PrefixOfAppend DEF Under, Prefix
      <4>. QED BY <1>0, <4>4, <4>5 DEF Under, Prefix
    <3>. QED BY <3>3, <3>4
  <2>. QED BY <2>1
<1>. HIDE DEF S
<1>3. Nat \subseteq S
  BY <1>1, <1>2, SetInduction
<1>4. Len(t[n].path) \in S
  BY <1>0, <1>3
<1>5. Good(n)
  BY <1>4 DEF S
<1>. QED BY <1>5

\* All that an update leaves below its menu has the new status: what was below had it
\* pushed down, and nothing else comes to be below.
LEMMA StatusPushed ==
  ASSUME menu \in Table, Tree(menu), NEW o \in Op, o.kind = "update",
         Place(menu[o.menu]) = Place(o.old), o.form.status # o.old.status,
         Moves(o) => KidsRead(menu, o),
         ~Moves(o) => o.path = o.old.path /\ o.kids = {},
         NEW n \in Under(Saved(o), Prefix(o.menu, Saved(o)[o.menu]))
  PROVE  Saved(o)[n].status = o.form.status
<1>. DEFINE m == o.menu
            t == Saved(o)
            below == Under(menu, Prefix(m, o.old))
<1>1. m \in Menu /\ o.old \in Row /\ o.old # Nil /\ menu[m] \in Row \cup {Nil} /\ o.path \in Seq(Menu)
  BY MenuTreeAssumption DEF Op, Table
<1>2. menu[m] # Nil /\ menu[m].path = o.old.path
  BY <1>1, PlaceIs
<1>3. t[m] = Created(o) /\ Created(o).path = o.path /\ Created(o).status = o.form.status
  BY <1>1, <1>2, SavedRow, CreatedTyped
<1>4. n \in Menu /\ t[n] # Nil /\ IsPrefix(Append(o.path, m), t[n].path)
  BY <1>3 DEF Under, Prefix
<1>5. CASE n = m
  BY <1>3, <1>5
<1>6. CASE n # m
  <2>1. /\ menu[n] # Nil
        /\ n \notin Listed(o) => t[n].path = menu[n].path
        /\ n \in below => t[n].status = o.form.status
    BY <1>4, <1>6, SavedRow
  <2>2. n \in below
    <3>1. CASE ~Moves(o)
      <4>1. n \notin Listed(o)
        BY <3>1 DEF Listed
      <4>2. IsPrefix(Append(o.old.path, m), menu[n].path)
        BY <1>4, <2>1, <3>1, <4>1
      <4>. QED BY <1>4, <2>1, <4>2 DEF Under, Prefix
    <3>2. CASE Moves(o)
      <4>1. Listed(o) = below
        BY <3>2, ListedIs
      <4>2. CASE n \notin Listed(o)
        <5>1. IsPrefix(Append(o.path, m), menu[n].path)
          BY <1>4, <2>1, <4>2
        <5>2. n \in RowsOf(menu) /\ menu[n].path \in Seq(Menu)
          BY <1>4, <2>1 DEF RowsOf, Table, Row
        <5>3. Len(o.path) + 1 \in 1..Len(menu[n].path) /\ menu[n].path[Len(o.path) + 1] = m
          BY <1>1, <5>1, <5>2, LastOfPrefix
        <5>4. n \in Under(menu, Prefix(m, menu[m]))
          BY <1>1, <5>2, <5>3, OnPath
        <5>. QED BY <1>2, <5>4 DEF Prefix
      <4>. QED BY <4>1, <4>2
    <3>. QED BY <3>1, <3>2
  <2>. QED BY <2>1, <2>2
<1>. QED BY <1>5, <1>6

\* Only a commit ends an operation and writes.
LEMMA EndsByCommit ==
  ASSUME TypeInv, Next, NEW w \in Writer, pc[w] = "ready", pc'[w] = "idle", menu' # menu
  PROVE  Commit(w)
<1>1. PICK v \in Writer :
        \/ Create(v) \/ Update(v) \/ Delete(v)
        \/ ReadParent(v) \/ ReadChildren(v) \/ CheckCode(v)
        \/ Commit(v) \/ StartLoad(v) \/ CommitLoad(v) \/ Fail(v)
  BY DEF Next
<1>2. Commit(v) \/ CommitLoad(v)
  <2>1. Create(v) \/ Update(v) \/ Delete(v) \/ StartLoad(v) => menu' = menu
    BY DEF Create, Update, Delete, StartLoad, Begin
  <2>2. ReadParent(v) \/ ReadChildren(v) \/ CheckCode(v) => menu' = menu
    BY DEF ReadParent, ReadChildren, CheckCode, Refuse, Goto
  <2>3. Fail(v) => menu' = menu
    BY DEF Fail
  <2>. QED BY <1>1, <2>1, <2>2, <2>3
<1>3. v # w => pc'[w] = pc[w]
  BY <1>2, TypeParts DEF Commit, CommitLoad, Finish
<1>. QED BY <1>2, <1>3 DEF CommitLoad

LEMMA StatusStep ==
  ASSUME IInv, IInv', Next, NEW w \in Writer,
         pc[w] = "ready", pc'[w] = "idle", op[w].kind = "update",
         op[w].form.status # op[w].old.status, menu # menu', Clean',
         NEW n \in Under(menu', Prefix(op[w].menu, menu'[op[w].menu]))
  PROVE  menu'[n].status = op[w].form.status
<1>. DEFINE o == op[w]
<1>1. Commit(w)
  BY EndsByCommit DEF IInv
<1>2. menu' = Saved(o) /\ slips' = slips \cup Slips(w)
  BY <1>1 DEF Commit
<1>3. menu \in Table /\ o \in Op
  BY KindIs DEF IInv
<1>4. Tree(menu) /\ View(w, menu)
  BY <1>2, CleanCommit DEF IInv
<1>5. /\ Place(menu[o.menu]) = Place(o.old)
      /\ Moves(o) => KidsRead(menu, o)
      /\ ~Moves(o) => o.path = o.old.path /\ o.kids = {}
  BY <1>4 DEF View
<1>. HIDE DEF o
<1>6. n \in Under(Saved(o), Prefix(o.menu, Saved(o)[o.menu]))
  BY <1>2 DEF o
<1>7. o.kind = "update" /\ o.form.status # o.old.status
  BY DEF o
<1>8. Saved(o)[n].status = o.form.status
  BY <1>3, <1>4, <1>5, <1>6, <1>7, StatusPushed
<1>. QED BY <1>2, <1>8 DEF o

\* When an update changes the status of a menu, all that ends up below it has the new
\* status, however deep, also when the same update moves it there (menu.biz.go Update:
\* UpdateStatusByParentPath before the paths are rewritten).
THEOREM StatusAlwaysSpreads == Spec => StatusSpreads
<1>1. ASSUME IInv, IInv', [Next]_vars
      PROVE  [\A w \in Writer :
         /\ pc[w] = "ready" /\ pc'[w] = "idle" /\ op[w].kind = "update"
         /\ op[w].form.status # op[w].old.status
         /\ menu # menu' /\ slips' \cap {"late", "below itself"} = {}
         => \A n \in Under(menu', Prefix(op[w].menu, menu'[op[w].menu])) :
              menu'[n].status = op[w].form.status]_vars
  <2>1. CASE Next
    BY <1>1, <2>1, StatusStep DEF Clean
  <2>2. CASE UNCHANGED vars
    BY <2>2
  <2>. QED BY <1>1, <2>1, <2>2
<1>. QED BY <1>1, Invariant, PTL DEF Spec, StatusSpreads

-----------------------------------------------------------------------------
(* What a start leaves in the table.                                       *)

\* The menus below one of v with the code of the item.
NamedBelow(t, i, v) ==
    {n \in Menu : t[n] # Nil /\ t[n].code = File[i].code /\ t[n].parent \in v}

\* Named gives sets of menus, and does so by its defining equation.
LEMMA NamedIs ==
  ASSUME NEW t \in Table
  PROVE  /\ Named(t) \in [1..Count -> SUBSET Menu]
         /\ \A i \in 1..Count : Named(t)[i] =
              NamedBelow(t, i, IF File[i].above = 0 THEN {Top} ELSE Named(t)[File[i].above])
<1>. DEFINE V == SUBSET Menu
            up == [i \in 1..Count |-> File[i].above]
            a == [i \in 1..Count |-> NamedBelow(t, i, {Top})]
            s == [e \in (1..Count) \X V |-> NamedBelow(t, e[1], e[2])]
            body(f, i) == NamedBelow(t, i, IF File[i].above = 0 THEN {Top} ELSE f[File[i].above])
            at == Named(t)
<1>1. \A i, v : NamedBelow(t, i, v) \in V
  BY DEF NamedBelow
<1>2. Count \in Nat
  BY FileTyped
<1>3. up \in [1..Count -> Nat] /\ \A i \in 1..Count : up[i] < i
  BY FileTyped
<1>4. a \in [1..Count -> V] /\ s \in [(1..Count) \X V -> V]
  BY <1>1
<1>5. PICK f \in [1..Count -> V] : Values(Count, up, a, s, f)
  <2>. HIDE DEF V, up, a, s
  <2>1. Forest(Count, up, V, a, s)
    BY <1>2, <1>3, <1>4 DEF Forest
  <2>. QED BY <2>1, TreeRecursion
<1>6. ASSUME NEW i \in 1..Count PROVE f[i] = body(f, i)
  <2>1. CASE File[i].above = 0
    BY <1>5, <2>1 DEF Values
  <2>2. CASE File[i].above # 0
    <3>1. File[i].above \in 1..Count
      BY <2>2, FileTyped
    <3>2. f[File[i].above] \in V
      BY <1>5, <3>1
    <3>3. f[i] = s[<<i, f[File[i].above]>>]
      BY <1>5, <2>2 DEF Values
    <3>4. s[<<i, f[File[i].above]>>] = NamedBelow(t, i, f[File[i].above])
      <4>. HIDE DEF V
      <4>. QED BY <3>2
    <3>. QED BY <2>2, <3>3, <3>4
  <2>. QED BY <2>1, <2>2
<1>7. f = [i \in 1..Count |-> body(f, i)]
  <2>. HIDE DEF body, V
  <2>. QED BY <1>5, <1>6
<1>8. at = CHOOSE g : g = [i \in 1..Count |-> body(g, i)]
  <2>1. \A g : [i \in 1..Len(File) |->
                  {n \in Menu : /\ t[n] # Nil /\ t[n].code = File[i].code
                                /\ IF File[i].above = 0 THEN t[n].parent = Top
                                   ELSE t[n].parent \in g[File[i].above]}]
               = [i \in 1..Count |-> body(g, i)]
    BY DEF NamedBelow, Count
  <2>. HIDE DEF body
  <2>. QED BY <2>1 DEF Named
<1>9. at = [i \in 1..Count |-> body(at, i)]
  <2>. HIDE DEF body, at
  <2>. QED BY <1>7, <1>8
<1>10. \A i \in 1..Count : at[i] = body(at, i)
  <2>. HIDE DEF body, at
  <2>. QED BY <1>9
<1>11. at \in [1..Count -> V]
  <2>. HIDE DEF at
  <2>1. \A i \in 1..Count : body(at, i) \in V
    BY <1>1
  <2>. HIDE DEF body
  <2>. QED BY <1>9, <2>1
<1>. QED BY <1>10, <1>11

\* Where nobody has the level of another, a load finds just what stands at an item.
LEMMA NamedFound ==
  ASSUME NEW t \in Table, NEW u \in Table, Named(t) = Named(u), CodesDistinct(u), NEW i \in 1..Count
  PROVE  Named(u)[i] = IF FileMenu(t)[i] = Nil THEN {} ELSE {FileMenu(t)[i]}
<1>. DEFINE at == FileMenu(t)
            N == Named(u)
            One(k) == N[k] = IF at[k] = Nil THEN {} ELSE {at[k]}
            S == {n \in Nat : \A k \in 1..Count : k <= n => One(k)}
<1>1. 0 \in S
  OBVIOUS
<1>2. ASSUME NEW n \in Nat, n \in S PROVE n + 1 \in S
  <2>1. ASSUME NEW k \in 1..Count, k <= n + 1 PROVE One(k)
    <3>. DEFINE up == File[k].above
                above == IF up = 0 THEN {Top} ELSE N[up]
                p == Over(at, k)
    <3>1. N[k] = NamedBelow(t, k, above) /\ N[k] = NamedBelow(u, k, above)
      BY NamedIs
    <3>2. up # 0 => up \in 1..Count /\ up <= n
      BY <2>1, FileTyped
    <3>3. above = IF p = Nil THEN {} ELSE {p}
      <4>1. up # 0 => One(up)
        <5>. HIDE DEF One, up
        <5>. QED BY <1>2, <3>2
      <4>. HIDE DEF at, N
      <4>. QED BY <4>1, MenuTreeAssumption DEF Over
    <3>4. p # Nil => N[k] = Found(t, p, k)
      BY <3>1, <3>3 DEF NamedBelow, Found
    <3>5. p = Nil => N[k] = {}
      BY <3>1, <3>3 DEF NamedBelow
    <3>6. at[k] = Nil => p = Nil \/ Found(t, p, k) = {}
      BY FileMenuFound
    <3>7. at[k] # Nil => p # Nil /\ at[k] \in Found(t, p, k)
      BY FileMenuFound DEF Found, RowsOf
    <3>. HIDE DEF up, above, p, at, N
    <3>8. \A m, l \in N[k] : m = l
      <4>1. ASSUME NEW m \in N[k], NEW l \in N[k] PROVE m = l
        <5>1. /\ m \in RowsOf(u) /\ u[m] # Nil /\ u[m].code = File[k].code /\ u[m].parent \in above
              /\ l \in RowsOf(u) /\ u[l] # Nil /\ u[l].code = File[k].code /\ u[l].parent \in above
          BY <3>1 DEF NamedBelow, RowsOf
        <5>2. Level(u[m]) = Level(u[l])
          BY <3>3, <5>1 DEF Level
        <5>. QED BY <5>1, <5>2 DEF CodesDistinct
      <4>. QED BY <4>1
    <3>. QED BY <3>4, <3>5, <3>6, <3>7, <3>8
  <2>. HIDE DEF One
  <2>. QED BY <2>1
<1>. HIDE DEF S
<1>3. Nat \subseteq S
  BY <1>1, <1>2, SetInduction
<1>4. i \in S /\ i <= i
  BY <1>3
<1>5. One(i)
  BY <1>4 DEF S
<1>. QED BY <1>5

\* In a table where no two have the same level and every item has its menu, that one
\* stands alone where the file has the item.
LEMMA NamedOnce ==
  ASSUME NEW t \in Table, CodesDistinct(t), NEW at, NEW new,
         \A i \in 1..Count : /\ MenuOf(at, new, i) \in RowsOf(t)
                             /\ Level(t[MenuOf(at, new, i)]) = LevelOf(at, new, i),
         NEW j \in 1..Count
  PROVE  Named(t)[j] = {MenuOf(at, new, j)}
<1>. DEFINE N == Named(t)
            of(i) == MenuOf(at, new, i)
            One(k) == N[k] = {of(k)}
            S == {n \in Nat : \A k \in 1..Count : k <= n => One(k)}
<1>1. 0 \in S
  OBVIOUS
<1>2. ASSUME NEW n \in Nat, n \in S PROVE n + 1 \in S
  <2>1. ASSUME NEW k \in 1..Count, k <= n + 1 PROVE One(k)
    <3>. DEFINE up == File[k].above
                p == IF up = 0 THEN Top ELSE of(up)
    <3>1. N[k] = NamedBelow(t, k, IF up = 0 THEN {Top} ELSE N[up])
      BY NamedIs
    <3>2. up # 0 => up \in 1..Count /\ up <= n
      BY <2>1, FileTyped
    <3>3. (IF up = 0 THEN {Top} ELSE N[up]) = {p}
      <4>1. up # 0 => One(up)
        <5>. HIDE DEF One, up
        <5>. QED BY <1>2, <3>2
      <4>. HIDE DEF N, up
      <4>. QED BY <4>1
    <3>4. of(k) \in Menu /\ of(k) \in RowsOf(t) /\ t[of(k)] # Nil
      BY DEF RowsOf
    <3>5. Level(t[of(k)]) = <<p, File[k].code>>
      BY DEF LevelOf
    <3>6. t[of(k)].parent = p /\ t[of(k)].code = File[k].code
      BY <3>4, <3>5 DEF Level
    <3>. HIDE DEF p, N, of, up
    <3>7. of(k) \in N[k]
      BY <3>1, <3>3, <3>4, <3>6 DEF NamedBelow
    <3>8. ASSUME NEW l \in N[k] PROVE l = of(k)
      <4>1. l \in RowsOf(t) /\ Level(t[l]) = <<p, File[k].code>>
        BY <3>1, <3>3, <3>8 DEF NamedBelow, RowsOf, Level
      <4>. QED BY <3>4, <3>5, <4>1 DEF CodesDistinct
    <3>. QED BY <3>7, <3>8
  <2>. HIDE DEF One
  <2>. QED BY <2>1
<1>. HIDE DEF S
<1>3. Nat \subseteq S
  BY <1>1, <1>2, SetInduction
<1>4. j \in S /\ j <= j
  BY <1>3
<1>5. One(j)
  BY <1>4 DEF S
<1>. QED BY <1>5

LEMMA Installed ==
  ASSUME menu \in Table, RowsOf(menu) \subseteq used,
         \A n \in RowsOf(menu) : menu[n].parent \in used \cup {Top},
         CodesDistinct(menu), NEW o, NEW new, NEW differ, LoadOf(o, new, differ),
         Named(o.seen) = Named(menu), NEW j \in 1..Count
  PROVE  Cardinality(Named(Loaded(o, new, differ))[j]) = 1
<1>. DEFINE at == FileMenu(o.seen)
            t == Loaded(o, new, differ)
            of(i) == MenuOf(at, new, i)
<1>1. o.seen \in Table /\ new \in [Missing(o.seen) -> Menu]
  BY DEF LoadOf
<1>2. /\ t \in Table
      /\ \A i \in 1..Count :
           /\ of(i) \in Menu
           /\ at[i] # Nil => of(i) = at[i] /\ at[i] \in used /\ at[i] \in RowsOf(o.seen)
           /\ at[i] = Nil => of(i) \notin used /\ t[of(i)] = FileRow(o.seen, new, i)
      /\ \A n \in used \cap Menu :
           \/ t[n] = menu[n]
           \/ \E i \in 1..Count : at[i] = n /\ menu[n] # Nil /\ t[n] = FileRow(o.seen, new, i)
  BY LoadedItems
<1>3. \A i \in 1..Count : Named(menu)[i] = IF at[i] = Nil THEN {} ELSE {at[i]}
  BY <1>1, NamedFound
<1>4. ASSUME NEW i \in 1..Count
      PROVE  /\ FileRow(o.seen, new, i) # Nil
             /\ Level(FileRow(o.seen, new, i)) = LevelOf(at, new, i)
             /\ at[i] # Nil => LevelOf(at, new, i) = <<Over(at, i), File[i].code>>
  <2>1. /\ FileRow(o.seen, new, i) # Nil /\ FileRow(o.seen, new, i).code = File[i].code
        /\ at[i] # Nil => FileRow(o.seen, new, i).parent = o.seen[at[i]].parent
        /\ at[i] = Nil => FileRow(o.seen, new, i).parent =
                            IF File[i].above = 0 THEN Top ELSE of(File[i].above)
    BY <1>1, FileRowIs
  <2>2. at[i] # Nil => o.seen[at[i]].parent = Over(at, i) /\ Over(at, i) # Nil
    BY <1>1, FileMenuFound
  <2>3. File[i].above # 0 => File[i].above \in 1..Count
    BY FileTyped
  <2>. HIDE DEF at
  <2>4. at[i] # Nil => Over(at, i) = IF File[i].above = 0 THEN Top ELSE of(File[i].above)
    BY <1>2, <2>2, <2>3 DEF Over
  <2>. QED BY <2>1, <2>2, <2>3, <2>4 DEF Level, LevelOf
\* Who has the level of an item stands at it.
<1>5. ASSUME NEW i \in 1..Count, NEW n \in RowsOf(menu)
      PROVE  Level(menu[n]) = <<Over(at, i), File[i].code>> <=> at[i] # Nil /\ n = at[i]
  <2>1. n \in Menu /\ menu[n] # Nil /\ menu[n] \in Row /\ n # Nil
    BY MenuTreeAssumption DEF RowsOf, Table
  <2>2. Named(menu)[i] = NamedBelow(menu, i, IF File[i].above = 0 THEN {Top} ELSE Named(menu)[File[i].above])
    BY NamedIs
  <2>3. File[i].above # 0 => File[i].above \in 1..Count
    BY FileTyped
  <2>. HIDE DEF at
  <2>4. Over(at, i) # Nil => Named(menu)[i] = NamedBelow(menu, i, {Over(at, i)})
    BY <1>3, <2>2, <2>3 DEF Over
  <2>5. Over(at, i) = Nil => Named(menu)[i] = {}
    <3>1. Over(at, i) = Nil => File[i].above # 0 /\ Named(menu)[File[i].above] = {}
      BY <1>3, <2>3, MenuTreeAssumption DEF Over
    <3>. QED BY <2>2, <3>1 DEF NamedBelow
  <2>6. menu[n].parent # Nil
    BY <2>1, MenuTreeAssumption DEF Row
  <2>7. Level(menu[n]) = <<Over(at, i), File[i].code>> <=> n \in Named(menu)[i]
    BY <2>1, <2>4, <2>5, <2>6 DEF NamedBelow, Level
  <2>. QED BY <1>3, <2>7
<1>6. CodesDistinct(t)
  BY <1>5, LoadCodes
<1>7. \A i, k \in 1..Count : at[i] # Nil /\ at[i] = at[k] => i = k
  BY <1>1, FileMenuDistinct
<1>8. ASSUME NEW i \in 1..Count, at[i] # Nil PROVE at[i] \in RowsOf(menu)
  <2>1. at[i] \in Named(menu)[i]
    BY <1>3, <1>8
  <2>. HIDE DEF at
  <2>. QED BY <2>1, NamedIs DEF NamedBelow, RowsOf
<1>. HIDE DEF t, at
<1>9. ASSUME NEW i \in 1..Count
      PROVE  of(i) \in RowsOf(t) /\ Level(t[of(i)]) = LevelOf(at, new, i)
  <2>1. CASE at[i] = Nil
    BY <1>2, <1>4, <2>1 DEF RowsOf
  <2>2. CASE at[i] # Nil
    <3>. DEFINE n == of(i)
    <3>1. n = at[i] /\ n \in used \cap Menu /\ n \in RowsOf(menu) /\ menu[n] # Nil
      BY <1>2, <1>8, <2>2 DEF RowsOf
    <3>2. LevelOf(at, new, i) = <<Over(at, i), File[i].code>>
      BY <1>4, <2>2
    <3>3. Level(menu[n]) = LevelOf(at, new, i)
      BY <1>5, <2>2, <3>1, <3>2
    <3>. HIDE DEF n
    <3>4. CASE t[n] = menu[n]
      BY <3>1, <3>3, <3>4 DEF RowsOf, n
    <3>5. CASE \E k \in 1..Count : at[k] = n /\ menu[n] # Nil /\ t[n] = FileRow(o.seen, new, k)
      <4>1. PICK k \in 1..Count : at[k] = n /\ t[n] = FileRow(o.seen, new, k)
        BY <3>5
      <4>2. k = i
        BY <1>7, <2>2, <3>1, <4>1
      <4>. QED BY <1>4, <3>1, <4>1, <4>2 DEF RowsOf, n
    <3>. QED BY <1>2, <3>1, <3>4, <3>5
  <2>. QED BY <2>1, <2>2
<1>10. Named(t)[j] = {of(j)}
  BY <1>2, <1>6, <1>9, NamedOnce
<1>. QED BY <1>10, FS_Singleton DEF t

\* Only a commit ends a load without a failure.
LEMMA LoadEnds ==
  ASSUME TypeInv, Next, NEW w \in Writer, pc[w] = "load", pc'[w] = "idle", faults' = faults
  PROVE  CommitLoad(w)
<1>1. PICK v \in Writer :
        \/ Create(v) \/ Update(v) \/ Delete(v)
        \/ ReadParent(v) \/ ReadChildren(v) \/ CheckCode(v)
        \/ Commit(v) \/ StartLoad(v) \/ CommitLoad(v) \/ Fail(v)
  BY DEF Next
<1>2. ~Fail(v)
  <2>1. faults \in Nat
    BY TypeParts, MenuTreeAssumption DEF HistoryTypes
  <2>. QED BY <2>1 DEF Fail
<1>3. \E x : pc' = [pc EXCEPT ![v] = x]
  BY <1>1, <1>2 DEF Create, Update, Delete, StartLoad, Begin, ReadParent, ReadChildren, CheckCode,
                    Refuse, Goto, Commit, CommitLoad, Finish
<1>4. v = w
  BY <1>3, TypeParts
<1>. QED BY <1>1, <1>2, <1>4 DEF Create, Update, Delete, StartLoad, Begin, ReadParent, ReadChildren,
                                 CheckCode, Commit

\* A process that started has left one menu in the table for each item of the menu file,
\* for a file of any length and depth, whichever of them were there before
\* (menu.biz.go InitFromFile, createInBatchByParent).
THEOREM FileAlwaysInstalled == Spec => FileInstalled
<1>1. ASSUME IInv, [Next]_vars
      PROVE  [\A w \in Writer :
         /\ pc[w] = "load" /\ pc'[w] = "idle" /\ faults' = faults
         /\ CodesDistinct(menu) /\ Named(op[w].seen) = Named(menu)
         => \A i \in 1..Len(File) : Cardinality(Named(menu')[i]) = 1]_vars
  <2>1. ASSUME Next, NEW w \in Writer, pc[w] = "load", pc'[w] = "idle", faults' = faults,
               CodesDistinct(menu), Named(op[w].seen) = Named(menu), NEW i \in 1..Count
        PROVE  Cardinality(Named(menu')[i]) = 1
    <3>1. CommitLoad(w)
      BY <1>1, <2>1, LoadEnds DEF IInv
    <3>2. \E new, differ : LoadOf(op[w], new, differ) /\ menu' = Loaded(op[w], new, differ)
      BY <1>1, <3>1, CommitLoadIs DEF LoadOf, IInv
    <3>3. /\ menu \in Table /\ RowsOf(menu) \subseteq used
          /\ \A n \in RowsOf(menu) : menu[n].parent \in used \cup {Top}
      BY <1>1, TypeParts DEF IInv, TableTypes, Rows
    <3>. QED BY <2>1, <3>2, <3>3, Installed
  <2>2. CASE Next
    BY <2>1, <2>2 DEF Count
  <2>3. CASE UNCHANGED vars
    BY <2>3
  <2>. QED BY <1>1, <2>2, <2>3
<1>. QED BY <1>1, Invariant, PTL DEF Spec, FileInstalled

-----------------------------------------------------------------------------
(* Lists: a value is carried along a list of menus from the front.         *)

\* A list can be built up from the empty one.
LEMMA ListInduction ==
  ASSUME NEW S, <<>> \in S, \A s \in Seq(Menu), m \in Menu : s \in S => Append(s, m) \in S
  PROVE  Seq(Menu) \subseteq S
<1>. DEFINE N == {n \in Nat : \A s \in Seq(Menu) : Len(s) = n => s \in S}
<1>1. 0 \in N
  <2>1. \A s \in Seq(Menu) : Len(s) = 0 => s = <<>>
    OBVIOUS
  <2>. QED BY <2>1
<1>2. ASSUME NEW n \in Nat, n \in N PROVE n + 1 \in N
  <2>1. ASSUME NEW s \in Seq(Menu), Len(s) = n + 1 PROVE s \in S
    <3>. DEFINE p == SubSeq(s, 1, n)
    <3>1. p \in Seq(Menu) /\ Len(p) = n /\ s[n+1] \in Menu
      BY <2>1
    <3>2. s = Append(p, s[n+1])
      BY <2>1
    <3>. HIDE DEF p
    <3>. QED BY <1>2, <3>1, <3>2
  <2>. QED BY <2>1
<1>. HIDE DEF N
<1>3. Nat \subseteq N
  BY <1>1, <1>2, SetInduction
<1>. QED BY <1>3 DEF N

\* The values at each place of s, from b on, where each comes from the one before by e.
Runs(V, e, b, s, f) ==
    /\ f \in [0..Len(s) -> V] /\ f[0] = b
    /\ \A i \in 1..Len(s) : f[i] = e[<<f[i-1], s[i]>>]
Run(V, e, b, s) == CHOOSE f : Runs(V, e, b, s, f)
Folded(V, e, b, s) == Run(V, e, b, s)[Len(s)]

LEMMA RunExists ==
  ASSUME NEW V, NEW b \in V, NEW e \in [V \X Menu -> V], NEW s \in Seq(Menu)
  PROVE  \E f : Runs(V, e, b, s, f)
<1>. DEFINE S == {t \in Seq(Menu) : \E f : Runs(V, e, b, t, f)}
<1>1. <<>> \in S
  <2>1. Runs(V, e, b, <<>>, [i \in 0..0 |-> b])
    BY DEF Runs
  <2>. QED BY <2>1
<1>2. ASSUME NEW t \in Seq(Menu), NEW m \in Menu, t \in S PROVE Append(t, m) \in S
  <2>. DEFINE n == Len(t)
              u == Append(t, m)
  <2>1. PICK f : Runs(V, e, b, t, f)
    BY <1>2
  <2>2. /\ n \in Nat /\ u \in Seq(Menu) /\ Len(u) = n + 1 /\ u[n+1] = m
        /\ \A i \in 1..n : u[i] = t[i]
    OBVIOUS
  <2>3. f \in [0..n -> V] /\ f[0] = b /\ \A i \in 1..n : f[i] = e[<<f[i-1], t[i]>>]
    BY <2>1 DEF Runs
  <2>. HIDE DEF n, u
  <2>. DEFINE g == [i \in 0..n+1 |-> IF i = n + 1 THEN e[<<f[n], m>>] ELSE f[i]]
  <2>4. e[<<f[n], m>>] \in V
    BY <2>2, <2>3
  <2>5. g \in [0..n+1 -> V]
    <3>1. \A i \in 0..n+1 : i # n + 1 => i \in 0..n
      BY <2>2
    <3>. QED BY <2>3, <2>4, <3>1
  <2>6. (\A i \in 0..n : g[i] = f[i]) /\ g[n+1] = e[<<f[n], m>>]
    BY <2>2
  <2>. HIDE DEF g
  <2>7. \A i \in 1..n+1 : g[i] = e[<<g[i-1], u[i]>>]
    <3>1. ASSUME NEW i \in 1..n+1 PROVE g[i] = e[<<g[i-1], u[i]>>]
      <4>1. CASE i = n + 1
        <5>1. i - 1 = n /\ n \in 0..n
          BY <2>2, <4>1
        <5>. QED BY <2>2, <2>6, <4>1, <5>1
      <4>2. CASE i # n + 1
        <5>1. i \in 1..n /\ i \in 0..n /\ i - 1 \in 0..n
          BY <2>2, <4>2
        <5>. QED BY <2>2, <2>3, <2>6, <5>1
      <4>. QED BY <4>1, <4>2
    <3>. QED BY <3>1
  <2>8. g[0] = b
    BY <2>2, <2>3, <2>6
  <2>9. Runs(V, e, b, u, g)
    BY <2>2, <2>5, <2>7, <2>8 DEF Runs
  <2>. QED BY <2>2, <2>9 DEF u
<1>. HIDE DEF S
<1>3. Seq(Menu) \subseteq S
  BY <1>1, <1>2, ListInduction
<1>. QED BY <1>3 DEF S

LEMMA RunIs ==
  ASSUME NEW V, NEW b \in V, NEW e \in [V \X Menu -> V], NEW s \in Seq(Menu)
  PROVE  Runs(V, e, b, s, Run(V, e, b, s))
BY RunExists DEF Run

\* Whatever takes the steps as long as its values are in V ends with the same value.
Follows(V, e, b, s, n, f) ==
    f[0] = b /\ \A i \in 1..n : f[i-1] \in V => f[i] = e[<<f[i-1], s[i]>>]

Stepping(V, e, b, s, n) ==
    b \in V /\ e \in [V \X Menu -> V] /\ s \in Seq(Menu) /\ n \in 0..Len(s)

LEMMA RunOnly ==
  \A V, e, b, s, n, f, g :
    Stepping(V, e, b, s, n) /\ Follows(V, e, b, s, n, f) /\ Follows(V, e, b, s, n, g)
      => f[n] = g[n] /\ f[n] \in V
<1>. SUFFICES ASSUME NEW V, NEW b, NEW e, NEW s, NEW n, NEW f, NEW g, Stepping(V, e, b, s, n),
                     Follows(V, e, b, s, n, f), Follows(V, e, b, s, n, g)
              PROVE  f[n] = g[n] /\ f[n] \in V
  OBVIOUS
<1>0. b \in V /\ e \in [V \X Menu -> V] /\ s \in Seq(Menu) /\ n \in 0..Len(s)
  BY DEF Stepping
<1>. USE DEF Follows
<1>. DEFINE S == {k \in Nat : k <= n => f[k] = g[k] /\ f[k] \in V}
<1>1. 0 \in S
  BY <1>0
<1>2. ASSUME NEW k \in Nat, k \in S PROVE k + 1 \in S
  <2>. SUFFICES ASSUME k + 1 <= n PROVE f[k+1] = g[k+1] /\ f[k+1] \in V
    OBVIOUS
  <2>1. k + 1 \in 1..n /\ (k + 1) - 1 = k /\ k <= n /\ k + 1 \in 1..Len(s)
    BY <1>0
  <2>2. f[k] = g[k] /\ f[k] \in V
    BY <1>2, <2>1
  <2>3. f[k+1] = e[<<f[k], s[k+1]>>] /\ g[k+1] = e[<<f[k], s[k+1]>>]
    BY <2>1, <2>2
  <2>4. s[k+1] \in Menu
    BY <1>0, <2>1
  <2>. QED BY <1>0, <2>2, <2>3, <2>4
<1>. HIDE DEF S
<1>3. Nat \subseteq S
  BY <1>1, <1>2, SetInduction
<1>4. n \in S /\ n <= n
  BY <1>0, <1>3
<1>. QED BY <1>4 DEF S

\* The value for the empty list, and the one for a list with one more menu.
Folds(V, e, b) == b \in V /\ e \in [V \X Menu -> V]

LEMMA FoldedIs ==
  \A V, e, b : Folds(V, e, b) =>
    /\ Folded(V, e, b, <<>>) = b
    /\ \A s \in Seq(Menu) : Folded(V, e, b, s) \in V
    /\ \A s \in Seq(Menu), m \in Menu :
         Folded(V, e, b, Append(s, m)) = e[<<Folded(V, e, b, s), m>>]
<1>. SUFFICES ASSUME NEW V, NEW e, NEW b, Folds(V, e, b)
              PROVE  /\ Folded(V, e, b, <<>>) = b
                     /\ \A s \in Seq(Menu) : Folded(V, e, b, s) \in V
                     /\ \A s \in Seq(Menu), m \in Menu :
                          Folded(V, e, b, Append(s, m)) = e[<<Folded(V, e, b, s), m>>]
  OBVIOUS
<1>0. b \in V /\ e \in [V \X Menu -> V]
  BY DEF Folds
<1>1. Folded(V, e, b, <<>>) = b
  <2>1. <<>> \in Seq(Menu) /\ Len(<<>>) = 0
    OBVIOUS
  <2>2. Runs(V, e, b, <<>>, Run(V, e, b, <<>>))
    BY <1>0, <2>1, RunIs
  <2>. QED BY <2>1, <2>2 DEF Runs, Folded
<1>2. ASSUME NEW s \in Seq(Menu) PROVE Folded(V, e, b, s) \in V
  <2>1. Runs(V, e, b, s, Run(V, e, b, s))
    BY <1>0, RunIs
  <2>2. Len(s) \in 0..Len(s)
    OBVIOUS
  <2>. QED BY <2>1, <2>2 DEF Runs, Folded
<1>3. ASSUME NEW s \in Seq(Menu), NEW m \in Menu
      PROVE  Folded(V, e, b, Append(s, m)) = e[<<Folded(V, e, b, s), m>>]
  <2>. DEFINE u == Append(s, m)
              n == Len(s)
              f == Run(V, e, b, s)
              g == Run(V, e, b, u)
  <2>1. /\ n \in Nat /\ u \in Seq(Menu) /\ Len(u) = n + 1 /\ u[n+1] = m
        /\ \A i \in 1..n : u[i] = s[i]
    OBVIOUS
  <2>2. Runs(V, e, b, s, f) /\ Runs(V, e, b, u, g)
    BY <1>0, <2>1, RunIs
  <2>. HIDE DEF f, g, u
  <2>3. /\ f[0] = b /\ \A i \in 1..n : f[i] = e[<<f[i-1], s[i]>>]
        /\ g[0] = b /\ \A i \in 1..n+1 : g[i] = e[<<g[i-1], u[i]>>]
    BY <2>1, <2>2 DEF Runs
  <2>. HIDE DEF n
  <2>4. \A i \in 1..n : g[i] = e[<<g[i-1], s[i]>>]
    <3>1. \A i \in 1..n : i \in 1..n+1
      BY <2>1
    <3>. QED BY <2>1, <2>3, <3>1
  <2>5. n \in 0..Len(s)
    BY <2>1 DEF n
  <2>6. f[n] = g[n]
    <3>1. Follows(V, e, b, s, n, f)
      BY <2>3 DEF Follows
    <3>2. Follows(V, e, b, s, n, g)
      BY <2>3, <2>4 DEF Follows
    <3>3. Stepping(V, e, b, s, n)
      BY <1>0, <2>5 DEF Stepping
    <3>. QED BY <3>1, <3>2, <3>3, RunOnly
  <2>7. g[n+1] = e[<<g[n], m>>]
    <3>1. n + 1 \in 1..n+1 /\ (n + 1) - 1 = n
      BY <2>1
    <3>. QED BY <2>1, <2>3, <3>1
  <2>. QED BY <2>1, <2>6, <2>7 DEF f, g, u, n, Folded
<1>. QED BY <1>1, <1>2, <1>3

LEMMA StepsFold ==
  \A V, e, b, s, f :
    Stepping(V, e, b, s, Len(s)) /\ Follows(V, e, b, s, Len(s), f) => f[Len(s)] = Folded(V, e, b, s)
<1>. SUFFICES ASSUME NEW V, NEW e, NEW b, NEW s, NEW f, Stepping(V, e, b, s, Len(s)),
                     Follows(V, e, b, s, Len(s), f)
              PROVE  f[Len(s)] = Folded(V, e, b, s)
  OBVIOUS
<1>1. Runs(V, e, b, s, Run(V, e, b, s))
  BY RunIs DEF Stepping
<1>2. Follows(V, e, b, s, Len(s), Run(V, e, b, s))
  BY <1>1 DEF Runs, Follows
<1>. QED BY <1>2, RunOnly DEF Folded

\* A run takes its values, which are in V.
LEMMA RunTyped ==
  \A V, e, b, s : Stepping(V, e, b, s, Len(s)) =>
    LET f == Run(V, e, b, s) IN
    /\ f \in [0..Len(s) -> V] /\ f[0] = b
    /\ \A i \in 1..Len(s) : f[i-1] \in V /\ s[i] \in Menu /\ f[i] = e[<<f[i-1], s[i]>>]
<1>. SUFFICES ASSUME NEW V, NEW e, NEW b, NEW s, Stepping(V, e, b, s, Len(s))
              PROVE  LET f == Run(V, e, b, s) IN
                     /\ f \in [0..Len(s) -> V] /\ f[0] = b
                     /\ \A i \in 1..Len(s) : f[i-1] \in V /\ s[i] \in Menu
                                             /\ f[i] = e[<<f[i-1], s[i]>>]
  OBVIOUS
<1>. DEFINE f == Run(V, e, b, s)
<1>1. s \in Seq(Menu) /\ Len(s) \in Nat
  BY DEF Stepping
<1>2. Runs(V, e, b, s, f)
  BY RunIs DEF Stepping
<1>. HIDE DEF f
<1>3. \A i \in 1..Len(s) : i - 1 \in 0..Len(s) /\ s[i] \in Menu
  BY <1>1
<1>. QED BY <1>2, <1>3 DEF Runs, f

-----------------------------------------------------------------------------
(* What is picked from a list.                                             *)

PickStep(T) == [e \in Seq(Menu) \X Menu |-> IF e[2] \in T THEN Append(e[1], e[2]) ELSE e[1]]

LEMMA PickFolds ==
  ASSUME NEW s \in Seq(Menu), NEW T
  PROVE  /\ PickStep(T) \in [Seq(Menu) \X Menu -> Seq(Menu)]
         /\ Pick(s, T) = Folded(Seq(Menu), PickStep(T), <<>>, s)
<1>. DEFINE V == Seq(Menu)
            n == Len(s)
            body(f, i) == IF i = 0 THEN <<>>
                          ELSE IF s[i] \in T THEN Append(f[i-1], s[i]) ELSE f[i-1]
            g == Run(V, PickStep(T), <<>>, s)
            picked == CHOOSE f : f = [i \in 0..n |-> body(f, i)]
<1>1. PickStep(T) \in [V \X Menu -> V] /\ <<>> \in V
  BY DEF PickStep
<1>2. \A v \in V, m \in Menu : PickStep(T)[<<v, m>>] = IF m \in T THEN Append(v, m) ELSE v
  BY DEF PickStep
<1>3. n \in 0..n /\ n \in Nat /\ \A i \in 1..n : s[i] \in Menu
  OBVIOUS
<1>. HIDE DEF V, n
<1>4. Stepping(V, PickStep(T), <<>>, s, n)
  BY <1>1, <1>3 DEF Stepping, V, n
<1>5. /\ g \in [0..n -> V] /\ g[0] = <<>>
      /\ \A i \in 1..n : g[i-1] \in V /\ g[i] = PickStep(T)[<<g[i-1], s[i]>>]
  BY <1>4, RunTyped DEF n
<1>. HIDE DEF g
<1>6. ASSUME NEW i \in 0..n PROVE g[i] = body(g, i)
  <2>1. i = 0 \/ i \in 1..n
    BY <1>3
  <2>. QED BY <1>2, <1>3, <1>5, <2>1
<1>. HIDE DEF body
<1>7. g = [i \in 0..n |-> body(g, i)]
  BY <1>5, <1>6
<1>8. picked = [i \in 0..n |-> body(picked, i)]
  BY <1>7
<1>9. Pick(s, T) = picked[n]
  BY DEF Pick, body, n
<1>. HIDE DEF picked
<1>10. \A i \in 0..n : picked[i] = body(picked, i)
  BY <1>8
<1>11. Follows(V, PickStep(T), <<>>, s, n, picked)
  <2>1. picked[0] = <<>>
    <3>1. 0 \in 0..n
      BY <1>3
    <3>. QED BY <1>10, <3>1 DEF body
  <2>2. ASSUME NEW i \in 1..n, picked[i-1] \in V PROVE picked[i] = PickStep(T)[<<picked[i-1], s[i]>>]
    <3>1. i \in 0..n /\ i # 0 /\ s[i] \in Menu
      BY <1>3
    <3>2. picked[i] = IF s[i] \in T THEN Append(picked[i-1], s[i]) ELSE picked[i-1]
      BY <1>10, <3>1 DEF body
    <3>. QED BY <1>2, <2>2, <3>1, <3>2
  <2>. QED BY <2>1, <2>2 DEF Follows
<1>12. picked[n] = Folded(V, PickStep(T), <<>>, s)
  BY <1>4, <1>11, StepsFold DEF n
<1>. QED BY <1>1, <1>9, <1>12 DEF V

\* What is picked from the empty list, and from a list with one more menu.
LEMMA PickIs ==
  ASSUME NEW T
  PROVE  /\ Pick(<<>>, T) = <<>>
         /\ \A s \in Seq(Menu) : Pick(s, T) \in Seq(Menu)
         /\ \A s \in Seq(Menu), m \in Menu :
              Pick(Append(s, m), T) = IF m \in T THEN Append(Pick(s, T), m) ELSE Pick(s, T)
<1>. DEFINE F(s) == Folded(Seq(Menu), PickStep(T), <<>>, s)
<1>1. <<>> \in Seq(Menu) /\ \A s \in Seq(Menu), m \in Menu : Append(s, m) \in Seq(Menu)
  OBVIOUS
<1>2. PickStep(T) \in [Seq(Menu) \X Menu -> Seq(Menu)] /\ \A s \in Seq(Menu) : Pick(s, T) = F(s)
  BY <1>1, PickFolds
<1>3. /\ F(<<>>) = <<>> /\ \A s \in Seq(Menu) : F(s) \in Seq(Menu)
      /\ \A s \in Seq(Menu), m \in Menu : F(Append(s, m)) = PickStep(T)[<<F(s), m>>]
  <2>1. Folds(Seq(Menu), PickStep(T), <<>>)
    BY <1>1, <1>2 DEF Folds
  <2>. QED BY <2>1, FoldedIs
<1>. HIDE DEF F
<1>4. ASSUME NEW s \in Seq(Menu), NEW m \in Menu
      PROVE  PickStep(T)[<<F(s), m>>] = IF m \in T THEN Append(F(s), m) ELSE F(s)
  BY <1>3 DEF PickStep
<1>5. ASSUME NEW s \in Seq(Menu), NEW m \in Menu
      PROVE  Pick(Append(s, m), T) = IF m \in T THEN Append(Pick(s, T), m) ELSE Pick(s, T)
  <2>1. Append(s, m) \in Seq(Menu)
    BY <1>1
  <2>2. Pick(Append(s, m), T) = F(Append(s, m)) /\ Pick(s, T) = F(s)
    BY <1>2, <2>1
  <2>. QED BY <1>3, <1>4, <2>2
<1>. QED BY <1>1, <1>2, <1>3, <1>5

\* Nothing twice, by the numbers of the places.
Once(s) == \A i, j \in 1..Len(s) : s[i] = s[j] => i = j

LEMMA OnceAppend ==
  ASSUME NEW s \in Seq(Menu), NEW m \in Menu
  PROVE  /\ ToSet(Append(s, m)) = ToSet(s) \cup {m}
         /\ Once(Append(s, m)) <=> Once(s) /\ m \notin ToSet(s)
<1>. DEFINE n == Len(s)
            u == Append(s, m)
<1>1. /\ n \in Nat /\ u \in Seq(Menu) /\ Len(u) = n + 1 /\ u[n+1] = m
      /\ (\A i \in 1..n : u[i] = s[i]) /\ DOMAIN s = 1..n /\ DOMAIN u = 1..n+1
  OBVIOUS
<1>. HIDE DEF n, u
<1>2. \A i : i \in 1..n+1 <=> i \in 1..n \/ i = n + 1
  BY <1>1
<1>3. ToSet(s) = {s[i] : i \in 1..n} /\ ToSet(u) = {u[i] : i \in 1..n+1}
  BY <1>1 DEF ToSet
<1>4. ToSet(u) = ToSet(s) \cup {m}
  BY <1>1, <1>2, <1>3
<1>5. Once(u) <=> Once(s) /\ m \notin ToSet(s)
  <2>1. Once(u) <=> \A i, j \in 1..n+1 : u[i] = u[j] => i = j
    BY <1>1 DEF Once
  <2>2. Once(s) <=> \A i, j \in 1..n : s[i] = s[j] => i = j
    BY DEF Once, n
  <2>3. ~(n + 1 \in 1..n)
    BY <1>1
  <2>4. ASSUME Once(u) PROVE Once(s) /\ m \notin ToSet(s)
    BY <1>1, <1>2, <1>3, <2>1, <2>2, <2>3, <2>4
  <2>5. ASSUME Once(s), m \notin ToSet(s) PROVE Once(u)
    <3>1. ASSUME NEW i \in 1..n+1, NEW j \in 1..n+1, u[i] = u[j] PROVE i = j
      <4>1. CASE i = n + 1 /\ j = n + 1
        BY <4>1
      <4>2. CASE i \in 1..n /\ j \in 1..n
        BY <1>1, <2>2, <2>5, <3>1, <4>2
      <4>3. CASE (i \in 1..n /\ j = n + 1) \/ (j \in 1..n /\ i = n + 1)
        BY <1>1, <1>3, <2>5, <3>1, <4>3
      <4>. QED BY <1>2, <4>1, <4>2, <4>3
    <3>. QED BY <2>1, <3>1
  <2>. QED BY <2>4, <2>5
<1>. QED BY <1>4, <1>5 DEF u

LEMMA EmptyIs == ToSet(<<>>) = {} /\ Once(<<>>) /\ <<>> \in Seq(Menu) /\ Len(<<>>) = 0
BY DEF ToSet, Once

\* It picks just those that are in T, and nothing twice that is there once.
LEMMA PickSet ==
  ASSUME NEW T, NEW s \in Seq(Menu)
  PROVE  /\ Pick(s, T) \in Seq(Menu) /\ ToSet(Pick(s, T)) = ToSet(s) \cap T
         /\ Once(s) => Once(Pick(s, T))
<1>. DEFINE P(t) == ToSet(Pick(t, T)) = ToSet(t) \cap T /\ (Once(t) => Once(Pick(t, T)))
            S == {t \in Seq(Menu) : P(t)}
<1>1. <<>> \in S
  BY EmptyIs, PickIs
<1>2. ASSUME NEW t \in Seq(Menu), NEW m \in Menu, t \in S PROVE Append(t, m) \in S
  <2>0. Append(t, m) \in Seq(Menu)
    OBVIOUS
  <2>1. Append(t, m) \in Seq(Menu) /\ Pick(t, T) \in Seq(Menu) /\ P(t)
    BY <1>2, <2>0, PickIs
  <2>2. Pick(Append(t, m), T) = IF m \in T THEN Append(Pick(t, T), m) ELSE Pick(t, T)
    BY PickIs
  <2>3. /\ ToSet(Append(t, m)) = ToSet(t) \cup {m}
        /\ Once(Append(t, m)) <=> Once(t) /\ m \notin ToSet(t)
    BY OnceAppend
  <2>4. /\ ToSet(Append(Pick(t, T), m)) = ToSet(Pick(t, T)) \cup {m}
        /\ Once(Append(Pick(t, T), m)) <=> Once(Pick(t, T)) /\ m \notin ToSet(Pick(t, T))
    BY <2>1, OnceAppend
  <2>. QED BY <2>1, <2>2, <2>3, <2>4
<1>. HIDE DEF S
<1>3. Seq(Menu) \subseteq S
  BY <1>1, <1>2, ListInduction
<1>4. P(s)
  BY <1>3 DEF S
<1>. QED BY <1>4, PickIs

\* Picking twice is picking what is in both.
LEMMA PickTwice ==
  ASSUME NEW T, NEW U, NEW s \in Seq(Menu)
  PROVE  Pick(Pick(s, T), U) = Pick(s, T \cap U)
<1>. DEFINE S == {t \in Seq(Menu) : Pick(Pick(t, T), U) = Pick(t, T \cap U)}
<1>1. <<>> \in S
  BY EmptyIs, PickIs
<1>2. ASSUME NEW t \in Seq(Menu), NEW m \in Menu, t \in S PROVE Append(t, m) \in S
  <2>0. Append(t, m) \in Seq(Menu)
    OBVIOUS
  <2>1. Append(t, m) \in Seq(Menu) /\ Pick(t, T) \in Seq(Menu)
    BY <2>0, PickIs
  <2>2. Pick(Append(t, m), T) = IF m \in T THEN Append(Pick(t, T), m) ELSE Pick(t, T)
    BY PickIs
  <2>3. Pick(Append(t, m), T \cap U)
          = IF m \in T \cap U THEN Append(Pick(t, T \cap U), m) ELSE Pick(t, T \cap U)
    BY PickIs
  <2>4. Pick(Append(Pick(t, T), m), U)
          = IF m \in U THEN Append(Pick(Pick(t, T), U), m) ELSE Pick(Pick(t, T), U)
    BY <2>1, PickIs
  <2>5. Pick(Append(Pick(t, T), m), U) = IF m \in U THEN Append(Pick(t, T \cap U), m) ELSE Pick(t, T \cap U)
    BY <1>2, <2>4
  <2>6. Pick(Pick(Append(t, m), T), U) = Pick(Append(t, m), T \cap U)
    <3>1. CASE m \in T /\ m \in U
      BY <2>2, <2>3, <2>5, <3>1
    <3>2. CASE m \in T /\ m \notin U
      BY <2>2, <2>3, <2>5, <3>2
    <3>3. CASE m \notin T
      BY <1>2, <2>2, <2>3, <3>3
    <3>. QED BY <3>1, <3>2, <3>3
  <2>. QED BY <2>1, <2>6
<1>. HIDE DEF S
<1>3. Seq(Menu) \subseteq S
  BY <1>1, <1>2, ListInduction
<1>. QED BY <1>3 DEF S

\* A menu on a list without doubles is picked by itself; picking depends on members only.
LEMMA PickOne ==
  ASSUME NEW s \in Seq(Menu), Once(s), NEW m \in Menu
  PROVE  Pick(s, {m}) = IF m \in ToSet(s) THEN <<m>> ELSE <<>>
<1>. DEFINE S == {t \in Seq(Menu) : Once(t) => Pick(t, {m}) = IF m \in ToSet(t) THEN <<m>> ELSE <<>>}
<1>1. <<>> \in S
  BY EmptyIs, PickIs
<1>2. ASSUME NEW t \in Seq(Menu), NEW k \in Menu, t \in S PROVE Append(t, k) \in S
  <2>1. Append(t, k) \in Seq(Menu) /\ Append(<<>>, m) = <<m>>
    OBVIOUS
  <2>2. Pick(Append(t, k), {m}) = IF k \in {m} THEN Append(Pick(t, {m}), k) ELSE Pick(t, {m})
    BY PickIs
  <2>3. /\ ToSet(Append(t, k)) = ToSet(t) \cup {k}
        /\ Once(Append(t, k)) <=> Once(t) /\ k \notin ToSet(t)
    BY OnceAppend
  <2>. QED BY <1>2, <2>1, <2>2, <2>3
<1>. HIDE DEF S
<1>3. Seq(Menu) \subseteq S
  BY <1>1, <1>2, ListInduction
<1>. QED BY <1>3 DEF S

-----------------------------------------------------------------------------
(* Sorting.                                                                *)

SortStep(data) == [e \in Seq(Menu) \X Menu |-> e[1] \o Pick(data, {e[2]})]

LEMMA SortFolds ==
  ASSUME NEW o \in Seq(Menu), NEW data \in Seq(Menu)
  PROVE  /\ SortStep(data) \in [Seq(Menu) \X Menu -> Seq(Menu)]
         /\ Sort(o, data) = Folded(Seq(Menu), SortStep(data), <<>>, o)
<1>. DEFINE V == Seq(Menu)
            n == Len(o)
            body(f, i) == IF i = 0 THEN <<>> ELSE f[i-1] \o Pick(data, {o[i]})
            g == Run(V, SortStep(data), <<>>, o)
            sorted == CHOOSE f : f = [i \in 0..n |-> body(f, i)]
<1>1. SortStep(data) \in [V \X Menu -> V] /\ <<>> \in V
  <2>1. \A m \in Menu : Pick(data, {m}) \in Seq(Menu)
    BY PickIs
  <2>2. \A v \in V, m \in Menu : v \o Pick(data, {m}) \in V
    BY <2>1
  <2>. QED BY <2>2 DEF SortStep
<1>2. \A v \in V, m \in Menu : SortStep(data)[<<v, m>>] = v \o Pick(data, {m})
  BY DEF SortStep
<1>3. n \in 0..n /\ n \in Nat /\ \A i \in 1..n : o[i] \in Menu
  OBVIOUS
<1>. HIDE DEF V, n
<1>4. Stepping(V, SortStep(data), <<>>, o, n)
  BY <1>1, <1>3 DEF Stepping, V, n
<1>5. /\ g \in [0..n -> V] /\ g[0] = <<>>
      /\ \A i \in 1..n : g[i-1] \in V /\ g[i] = SortStep(data)[<<g[i-1], o[i]>>]
  BY <1>4, RunTyped DEF n
<1>. HIDE DEF g
<1>6. ASSUME NEW i \in 0..n PROVE g[i] = body(g, i)
  <2>1. i = 0 \/ i \in 1..n
    BY <1>3
  <2>. QED BY <1>2, <1>3, <1>5, <2>1
<1>. HIDE DEF body
<1>7. g = [i \in 0..n |-> body(g, i)]
  BY <1>5, <1>6
<1>8. sorted = [i \in 0..n |-> body(sorted, i)]
  BY <1>7
<1>9. Sort(o, data) = sorted[n]
  BY DEF Sort, body, n
<1>. HIDE DEF sorted
<1>10. \A i \in 0..n : sorted[i] = body(sorted, i)
  BY <1>8
<1>11. Follows(V, SortStep(data), <<>>, o, n, sorted)
  <2>1. sorted[0] = <<>>
    <3>1. 0 \in 0..n
      BY <1>3
    <3>. QED BY <1>10, <3>1 DEF body
  <2>2. ASSUME NEW i \in 1..n, sorted[i-1] \in V
        PROVE  sorted[i] = SortStep(data)[<<sorted[i-1], o[i]>>]
    <3>1. i \in 0..n /\ i # 0 /\ o[i] \in Menu
      BY <1>3
    <3>2. sorted[i] = sorted[i-1] \o Pick(data, {o[i]})
      BY <1>10, <3>1 DEF body
    <3>. QED BY <1>2, <2>2, <3>1, <3>2
  <2>. QED BY <2>1, <2>2 DEF Follows
<1>12. sorted[n] = Folded(V, SortStep(data), <<>>, o)
  BY <1>4, <1>11, StepsFold DEF n
<1>. QED BY <1>1, <1>9, <1>12 DEF V

\* Sorting a list without doubles picks its menus from the order (schema/menu.go:76).
LEMMA SortIs ==
  ASSUME NEW o \in Seq(Menu), NEW data \in Seq(Menu), Once(data)
  PROVE  Sort(o, data) = Pick(o, ToSet(data))
<1>. DEFINE F(s) == Folded(Seq(Menu), SortStep(data), <<>>, s)
            S == {s \in Seq(Menu) : F(s) = Pick(s, ToSet(data))}
<1>0. SortStep(data) \in [Seq(Menu) \X Menu -> Seq(Menu)] /\ <<>> \in Seq(Menu)
  BY SortFolds, EmptyIs
<1>1. Sort(o, data) = F(o)
  BY SortFolds
<1>2. /\ F(<<>>) = <<>> /\ \A s \in Seq(Menu) : F(s) \in Seq(Menu)
      /\ \A s \in Seq(Menu), m \in Menu : F(Append(s, m)) = SortStep(data)[<<F(s), m>>]
  <2>1. Folds(Seq(Menu), SortStep(data), <<>>)
    BY <1>0 DEF Folds
  <2>. QED BY <2>1, FoldedIs
<1>. HIDE DEF F
<1>3. <<>> \in S
  BY <1>1, <1>2, PickIs
<1>4. ASSUME NEW s \in Seq(Menu), NEW m \in Menu, s \in S PROVE Append(s, m) \in S
  <2>1. Append(s, m) \in Seq(Menu) /\ F(s) \in Seq(Menu) /\ F(s) = Pick(s, ToSet(data))
    BY <1>2, <1>4
  <2>2. F(Append(s, m)) = F(s) \o Pick(data, {m})
    BY <1>2, <2>1 DEF SortStep
  <2>3. Pick(data, {m}) = IF m \in ToSet(data) THEN <<m>> ELSE <<>>
    BY PickOne
  <2>4. Pick(Append(s, m), ToSet(data)) = IF m \in ToSet(data) THEN Append(F(s), m) ELSE F(s)
    BY <2>1, PickIs
  <2>5. F(s) \o <<m>> = Append(F(s), m) /\ F(s) \o <<>> = F(s)
    BY <2>1
  <2>. QED BY <2>1, <2>2, <2>3, <2>4, <2>5
<1>. HIDE DEF S
<1>5. Seq(Menu) \subseteq S
  BY <1>3, <1>4, ListInduction
<1>. QED BY <1>1, <1>5 DEF S

\* What Added gives: no menu twice.
LEMMA ConcatIs ==
  ASSUME NEW s \in Seq(Menu), NEW t \in Seq(Menu)
  PROVE  /\ s \o t \in Seq(Menu) /\ ToSet(s \o t) = ToSet(s) \cup ToSet(t)
         /\ Once(s) /\ Once(t) /\ ToSet(s) \cap ToSet(t) = {} => Once(s \o t)
<1>. DEFINE S == {u \in Seq(Menu) : /\ ToSet(s \o u) = ToSet(s) \cup ToSet(u)
                                    /\ Once(s) /\ Once(u) /\ ToSet(s) \cap ToSet(u) = {} => Once(s \o u)}
<1>1. <<>> \in S
  <2>1. s \o <<>> = s
    OBVIOUS
  <2>. QED BY <2>1, EmptyIs
<1>2. ASSUME NEW u \in Seq(Menu), NEW m \in Menu, u \in S PROVE Append(u, m) \in S
  <2>1. Append(u, m) \in Seq(Menu) /\ s \o Append(u, m) = Append(s \o u, m) /\ s \o u \in Seq(Menu)
    OBVIOUS
  <2>2. /\ ToSet(Append(u, m)) = ToSet(u) \cup {m}
        /\ Once(Append(u, m)) <=> Once(u) /\ m \notin ToSet(u)
    BY OnceAppend
  <2>3. /\ ToSet(Append(s \o u, m)) = ToSet(s \o u) \cup {m}
        /\ Once(Append(s \o u, m)) <=> Once(s \o u) /\ m \notin ToSet(s \o u)
    BY <2>1, OnceAppend
  <2>. QED BY <1>2, <2>1, <2>2, <2>3
<1>. HIDE DEF S
<1>3. Seq(Menu) \subseteq S
  BY <1>1, <1>2, ListInduction
<1>4. s \o t \in Seq(Menu)
  OBVIOUS
<1>. QED BY <1>3, <1>4 DEF S

LEMMA AddedIs ==
  ASSUME NEW s \in Seq(Menu), NEW t \in Seq(Menu)
  PROVE  /\ Added(s, t) \in Seq(Menu) /\ ToSet(Added(s, t)) = ToSet(s) \cup ToSet(t)
         /\ Once(s) /\ Once(t) => Once(Added(s, t))
<1>. DEFINE p == Pick(t, Menu \ ToSet(s))
<1>1. p \in Seq(Menu) /\ ToSet(p) = ToSet(t) \cap (Menu \ ToSet(s)) /\ (Once(t) => Once(p))
  BY PickSet
<1>2. ToSet(t) \subseteq Menu
  BY DEF ToSet
<1>. HIDE DEF p
<1>3. /\ s \o p \in Seq(Menu) /\ ToSet(s \o p) = ToSet(s) \cup ToSet(p)
      /\ Once(s) /\ Once(p) /\ ToSet(s) \cap ToSet(p) = {} => Once(s \o p)
  BY <1>1, ConcatIs
<1>. QED BY <1>1, <1>2, <1>3 DEF Added, p

-----------------------------------------------------------------------------
(* Paths and parents.                                                      *)

\* The menus on the path of m.
OnPathOf(m) == ToSet(menu[m].path)
Hangs == menu \in Table /\ Tree(menu)

LEMMA RowIs ==
  ASSUME menu \in Table
  PROVE  \A m \in Rows : m \in Menu /\ menu[m] # Nil /\ menu[m] \in Row /\ menu[m].path \in Seq(Menu)
                         /\ menu[m].parent \in Menu \cup {Top} /\ menu[m].status \in Status
BY DEF Rows, RowsOf, Table, Row

LEMMA PrefixPlaces ==
  ASSUME NEW p \in Seq(Menu), NEW q \in Seq(Menu), NEW m \in Menu, IsPrefix(Append(p, m), q)
  PROVE  \A j \in 1..Len(p) : j \in 1..Len(q) /\ q[j] = p[j]
<1>. DEFINE a == Append(p, m)
            l == Len(p) + 1
<1>1. a \in Seq(Menu) /\ Len(a) = l /\ l \in Nat /\ \A j \in 1..Len(p) : j \in 1..l /\ a[j] = p[j]
  OBVIOUS
<1>. HIDE DEF a, l
<1>2. l <= Len(q) /\ SubSeq(a, 1, l) = SubSeq(q, 1, l)
  BY <1>1 DEF IsPrefix, a
<1>3. \A j \in 1..l : SubSeq(a, 1, l)[j] = a[j]
  BY <1>1
<1>4. \A j \in 1..l : SubSeq(q, 1, l)[j] = q[j]
  BY <1>1, <1>2
<1>5. \A j \in 1..l : j \in 1..Len(q)
  BY <1>1, <1>2
<1>. QED BY <1>1, <1>2, <1>3, <1>4, <1>5

\* The path of a menu is that of the parent and the parent, or empty at the top.
LEMMA PathSet ==
  ASSUME Hangs, NEW m \in Rows
  PROVE  /\ menu[m].parent = Top => menu[m].path = <<>> /\ OnPathOf(m) = {}
         /\ menu[m].parent # Top => LET p == menu[m].parent IN
              /\ p \in Rows /\ Len(menu[m].path) = Len(menu[p].path) + 1
              /\ OnPathOf(m) = OnPathOf(p) \cup {p}
<1>1. Hung(menu, m) /\ Rows = RowsOf(menu) /\ menu \in Table
  BY DEF Hangs, Tree, Rows
<1>2. Top \notin Rows
  BY MenuTreeAssumption DEF Rows, RowsOf
<1>3. CASE menu[m].parent = Top
  <2>1. menu[m].path = <<>>
    BY <1>1, <1>2, <1>3 DEF Hung
  <2>. QED BY <1>3, <2>1, EmptyIs DEF OnPathOf
<1>4. CASE menu[m].parent # Top
  <2>. DEFINE p == menu[m].parent
  <2>1. p \in Rows /\ menu[m].path = Append(menu[p].path, p)
    BY <1>1, <1>4 DEF Hung, Prefix
  <2>2. p \in Menu /\ menu[p].path \in Seq(Menu)
    BY <1>1, <2>1, RowIs
  <2>. HIDE DEF p
  <2>3. ToSet(Append(menu[p].path, p)) = ToSet(menu[p].path) \cup {p}
    BY <2>2, OnceAppend
  <2>4. Len(Append(menu[p].path, p)) = Len(menu[p].path) + 1
    BY <2>2
  <2>. QED BY <1>4, <2>1, <2>3, <2>4 DEF OnPathOf, p
<1>. QED BY <1>3, <1>4

\* Who is on the path of n is a row that has n below it by the path, and is followed
\* there by whoever is on its own path.
LEMMA PathClosed ==
  ASSUME Hangs, NEW n \in Rows
  PROVE  /\ OnPathOf(n) \subseteq Rows
         /\ \A m \in OnPathOf(n) : n \in Under(menu, Prefix(m, menu[m])) /\ OnPathOf(m) \subseteq OnPathOf(n)
<1>1. menu \in Table /\ Tree(menu) /\ n \in RowsOf(menu) /\ menu[n].path \in Seq(Menu)
  BY RowIs DEF Hangs, Rows
<1>2. ASSUME NEW m \in OnPathOf(n)
      PROVE  m \in Rows /\ n \in Under(menu, Prefix(m, menu[m])) /\ OnPathOf(m) \subseteq OnPathOf(n)
  <2>1. PICK i \in 1..Len(menu[n].path) : menu[n].path[i] = m
    BY <1>1 DEF OnPathOf, ToSet
  <2>2. m \in Menu
    BY <1>1, <2>1
  <2>3. m \in RowsOf(menu) /\ menu[m].path \in Seq(Menu) /\ n \in Under(menu, Prefix(m, menu[m]))
    BY <1>1, <2>1, <2>2, OnPath
  <2>4. IsPrefix(Append(menu[m].path, m), menu[n].path)
    BY <2>3 DEF Under, Prefix
  <2>5. \A j \in 1..Len(menu[m].path) : j \in 1..Len(menu[n].path) /\ menu[n].path[j] = menu[m].path[j]
    BY <1>1, <2>2, <2>3, <2>4, PrefixPlaces
  <2>6. OnPathOf(m) \subseteq OnPathOf(n)
    <3>1. ASSUME NEW k \in OnPathOf(m) PROVE k \in OnPathOf(n)
      <4>1. PICK j \in 1..Len(menu[m].path) : menu[m].path[j] = k
        BY <2>3 DEF OnPathOf, ToSet
      <4>2. j \in 1..Len(menu[n].path) /\ menu[n].path[j] = k
        BY <2>5, <4>1
      <4>. QED BY <1>1, <4>2 DEF OnPathOf, ToSet
    <3>. QED BY <3>1
  <2>. QED BY <2>3, <2>6 DEF Rows
<1>. QED BY <1>2

\* What is below m by the path has m on the path.
LEMMA UnderIs ==
  ASSUME Hangs, NEW m \in Rows
  PROVE  Under(menu, Prefix(m, menu[m])) = {n \in Rows : m \in OnPathOf(n)}
<1>1. menu \in Table /\ m \in Menu /\ menu[m].path \in Seq(Menu)
  BY RowIs DEF Hangs
<1>2. ASSUME NEW n \in Under(menu, Prefix(m, menu[m])) PROVE n \in Rows /\ m \in OnPathOf(n)
  <2>1. n \in Rows /\ IsPrefix(Append(menu[m].path, m), menu[n].path)
    BY DEF Under, Prefix, Rows, RowsOf
  <2>2. menu[n].path \in Seq(Menu)
    BY <1>1, <2>1, RowIs
  <2>3. Len(menu[m].path) + 1 \in 1..Len(menu[n].path) /\ menu[n].path[Len(menu[m].path) + 1] = m
    BY <1>1, <2>1, <2>2, LastOfPrefix
  <2>. QED BY <2>1, <2>2, <2>3 DEF OnPathOf, ToSet
<1>3. ASSUME NEW n \in Rows, m \in OnPathOf(n) PROVE n \in Under(menu, Prefix(m, menu[m]))
  BY <1>3, PathClosed
<1>. QED BY <1>2, <1>3

\* By the parents alone: the menus above m are those on its path.
LEMMA AboveIs ==
  ASSUME Hangs, NEW m \in Rows
  PROVE  Above(m) = OnPathOf(m)
<1>. DEFINE Closed(S) == \A k \in S \cup {m} : menu[k].parent \in Rows => menu[k].parent \in S
<1>1. OnPathOf(m) \in SUBSET Rows /\ Closed(OnPathOf(m))
  <2>1. OnPathOf(m) \subseteq Rows
    BY PathClosed
  <2>2. ASSUME NEW k \in OnPathOf(m) \cup {m}, menu[k].parent \in Rows PROVE menu[k].parent \in OnPathOf(m)
    <3>1. k \in Rows /\ OnPathOf(k) \subseteq OnPathOf(m)
      BY <2>1, PathClosed
    <3>2. menu[k].parent # Top
      BY <2>2, MenuTreeAssumption DEF Rows, RowsOf
    <3>3. menu[k].parent \in OnPathOf(k)
      BY <3>1, <3>2, PathSet
    <3>. QED BY <3>1, <3>3
  <2>. QED BY <2>1, <2>2
<1>2. ASSUME NEW S \in SUBSET Rows, Closed(S) PROVE OnPathOf(m) \subseteq S
  <2>. DEFINE N == {l \in Nat : \A k \in S \cup {m} : Len(menu[k].path) = l => OnPathOf(k) \subseteq S}
  <2>0. \A k \in S \cup {m} : k \in Rows /\ menu[k].path \in Seq(Menu)
    BY RowIs DEF Hangs
  <2>1. 0 \in N
    <3>1. ASSUME NEW k \in S \cup {m}, Len(menu[k].path) = 0 PROVE OnPathOf(k) \subseteq S
      <4>1. menu[k].path = <<>>
        BY <2>0, <3>1
      <4>. QED BY <4>1, EmptyIs DEF OnPathOf
    <3>. QED BY <3>1
  <2>2. ASSUME NEW l \in Nat, l \in N PROVE l + 1 \in N
    <3>1. ASSUME NEW k \in S \cup {m}, Len(menu[k].path) = l + 1 PROVE OnPathOf(k) \subseteq S
      <4>. DEFINE p == menu[k].parent
      <4>1. k \in Rows
        BY <2>0
      <4>2. p # Top
        BY <3>1, <4>1, PathSet, EmptyIs
      <4>3. p \in Rows /\ Len(menu[k].path) = Len(menu[p].path) + 1 /\ OnPathOf(k) = OnPathOf(p) \cup {p}
        BY <4>1, <4>2, PathSet
      <4>4. p \in S
        BY <1>2, <4>3
      <4>5. Len(menu[p].path) = l
        <5>1. Len(menu[p].path) \in Nat
          BY <2>0, <4>4
        <5>. QED BY <3>1, <4>3, <5>1
      <4>. HIDE DEF p
      <4>6. OnPathOf(p) \subseteq S
        BY <2>2, <4>4, <4>5
      <4>. QED BY <4>3, <4>4, <4>6
    <3>. QED BY <3>1
  <2>. HIDE DEF N
  <2>3. Nat \subseteq N
    BY <2>1, <2>2, SetInduction
  <2>4. Len(menu[m].path) \in N
    BY <2>0, <2>3
  <2>. QED BY <2>4 DEF N
<1>3. Above(m) = {n \in Rows : \A S \in SUBSET Rows : Closed(S) => n \in S}
  BY DEF Above
<1>. HIDE DEF Closed
<1>. QED BY <1>1, <1>2, <1>3

LEMMA BelowIs ==
  ASSUME Hangs, NEW m \in Rows
  PROVE  Below(m) = Under(menu, Prefix(m, menu[m]))
BY AboveIs, UnderIs DEF Below

\* A set of rows with all that is on their paths.
Up(S) == S \cup UNION {OnPathOf(m) : m \in S}

LEMMA UpIs ==
  ASSUME Hangs
  PROVE  \A S \in SUBSET Rows : Upward(S) = Up(S) /\ Up(S) \subseteq Rows /\ Up(Up(S)) = Up(S)
<1>. SUFFICES ASSUME NEW S \in SUBSET Rows
              PROVE  Upward(S) = Up(S) /\ Up(S) \subseteq Rows /\ Up(Up(S)) = Up(S)
  OBVIOUS
<1>1. \A m \in S : Above(m) = OnPathOf(m) /\ OnPathOf(m) \subseteq Rows
  BY AboveIs, PathClosed
<1>2. Upward(S) = Up(S) /\ Up(S) \subseteq Rows
  BY <1>1 DEF Upward, Up
<1>3. \A m \in Up(S) : OnPathOf(m) \subseteq Up(S)
  <2>1. \A k \in S : \A m \in OnPathOf(k) : OnPathOf(m) \subseteq OnPathOf(k)
    BY PathClosed
  <2>. QED BY <2>1 DEF Up
<1>. QED BY <1>2, <1>3 DEF Up

-----------------------------------------------------------------------------
(* The menus above a list.                                                 *)

Splits == [ids : Seq(Menu), seen : SUBSET Menu]
SplitStep ==
    [e \in Splits \X Menu |->
        LET acc == e[1] m == e[2] IN
        IF m \notin Rows \/ m \in acc.seen THEN acc
        ELSE [ids  |-> acc.ids \o Pick(menu[m].path, Menu \ (acc.seen \cup {m})),
              seen |-> acc.seen \cup {m} \cup ToSet(menu[m].path)]]
NoSplit == [ids |-> <<>>, seen |-> {}]

LEMMA SplitStepIs ==
  ASSUME menu \in Table
  PROVE  /\ SplitStep \in [Splits \X Menu -> Splits] /\ NoSplit \in Splits
         /\ \A a \in Splits, m \in Rows : SplitStep[<<a, m>>] =
              IF m \in a.seen THEN a
              ELSE [ids  |-> a.ids \o Pick(menu[m].path, Menu \ (a.seen \cup {m})),
                    seen |-> a.seen \cup {m} \cup ToSet(menu[m].path)]
<1>1. ASSUME NEW a \in Splits, NEW m \in Rows
      PROVE  [ids  |-> a.ids \o Pick(menu[m].path, Menu \ (a.seen \cup {m})),
              seen |-> a.seen \cup {m} \cup ToSet(menu[m].path)] \in Splits
  <2>1. m \in Menu /\ menu[m].path \in Seq(Menu) /\ a.ids \in Seq(Menu) /\ a.seen \subseteq Menu
    BY RowIs DEF Splits
  <2>2. Pick(menu[m].path, Menu \ (a.seen \cup {m})) \in Seq(Menu)
    BY <2>1, PickIs
  <2>3. ToSet(menu[m].path) \subseteq Menu
    BY <2>1 DEF ToSet
  <2>4. a.ids \o Pick(menu[m].path, Menu \ (a.seen \cup {m})) \in Seq(Menu)
    BY <2>1, <2>2
  <2>. QED BY <2>1, <2>3, <2>4 DEF Splits
<1>2. SplitStep \in [Splits \X Menu -> Splits]
  BY <1>1 DEF SplitStep
<1>3. NoSplit \in Splits
  BY EmptyIs DEF NoSplit, Splits
<1>4. Rows \subseteq Menu
  BY RowIs
<1>. QED BY <1>2, <1>3, <1>4 DEF SplitStep

LEMMA SplitFolds ==
  ASSUME menu \in Table, NEW data \in Seq(Menu), ToSet(data) \subseteq Rows
  PROVE  SplitParentIDs(data) = Folded(Splits, SplitStep, NoSplit, data).ids
<1>. DEFINE n == Len(data)
            step(acc, m) ==
              LET path == menu[m].path IN
              IF m \in acc.seen THEN acc
              ELSE [ids  |-> acc.ids \o Pick(path, Menu \ (acc.seen \cup {m})),
                    seen |-> acc.seen \cup {m} \cup ToSet(path)]
            body(f, i) == IF i = 0 THEN [ids |-> <<>>, seen |-> {}] ELSE step(f[i-1], data[i])
            g == Run(Splits, SplitStep, NoSplit, data)
            split == CHOOSE f : f = [i \in 0..n |-> body(f, i)]
<1>1. SplitStep \in [Splits \X Menu -> Splits] /\ NoSplit \in Splits
  BY SplitStepIs
<1>2. \A v \in Splits, m \in Rows : SplitStep[<<v, m>>] = step(v, m)
  BY SplitStepIs
<1>3. n \in 0..n /\ n \in Nat /\ \A i \in 1..n : data[i] \in Rows
  <2>1. n \in Nat /\ DOMAIN data = 1..n
    OBVIOUS
  <2>2. \A i \in 1..n : data[i] \in ToSet(data)
    BY <2>1 DEF ToSet
  <2>. QED BY <2>1, <2>2
<1>. HIDE DEF n, step
<1>4. Stepping(Splits, SplitStep, NoSplit, data, n)
  BY <1>1, <1>3 DEF Stepping, n
<1>5. /\ g \in [0..n -> Splits] /\ g[0] = NoSplit
      /\ \A i \in 1..n : g[i-1] \in Splits /\ g[i] = SplitStep[<<g[i-1], data[i]>>]
  BY <1>4, RunTyped DEF n
<1>. HIDE DEF g
<1>6. ASSUME NEW i \in 0..n PROVE g[i] = body(g, i)
  <2>1. i = 0 \/ i \in 1..n
    BY <1>3
  <2>. QED BY <1>2, <1>3, <1>5, <2>1 DEF NoSplit
<1>. HIDE DEF body
<1>7. g = [i \in 0..n |-> body(g, i)]
  BY <1>5, <1>6
<1>8. split = [i \in 0..n |-> body(split, i)]
  BY <1>7
<1>9. SplitParentIDs(data) = split[n].ids
  BY DEF SplitParentIDs, body, step, n
<1>. HIDE DEF split
<1>10. \A i \in 0..n : split[i] = body(split, i)
  BY <1>8
<1>11. Follows(Splits, SplitStep, NoSplit, data, n, split)
  <2>1. split[0] = NoSplit
    <3>1. 0 \in 0..n
      BY <1>3
    <3>. QED BY <1>10, <3>1 DEF body, NoSplit
  <2>2. ASSUME NEW i \in 1..n, split[i-1] \in Splits
        PROVE  split[i] = SplitStep[<<split[i-1], data[i]>>]
    <3>1. i \in 0..n /\ i # 0 /\ data[i] \in Rows
      BY <1>3
    <3>2. split[i] = step(split[i-1], data[i])
      BY <1>10, <3>1 DEF body
    <3>. QED BY <1>2, <2>2, <3>1, <3>2
  <2>. QED BY <2>1, <2>2 DEF Follows
<1>12. split[n] = Folded(Splits, SplitStep, NoSplit, data)
  BY <1>4, <1>11, StepsFold DEF n
<1>. QED BY <1>9, <1>12

\* What is on the paths of the data is in the data or asked for; a row that was seen
\* before adds nothing to what has been seen (schema/menu.go:99).
LEMMA SplitIs ==
  ASSUME Hangs, NEW data \in Seq(Menu), ToSet(data) \subseteq Rows
  PROVE  LET ids == SplitParentIDs(data) IN
         /\ ids \in Seq(Menu) /\ ToSet(ids) \subseteq Up(ToSet(data))
         /\ Up(ToSet(data)) \subseteq ToSet(data) \cup ToSet(ids)
<1>. DEFINE F(s) == Folded(Splits, SplitStep, NoSplit, s)
            Good(s) == /\ F(s).seen = Up(ToSet(s)) /\ ToSet(F(s).ids) \subseteq F(s).seen
                       /\ F(s).seen \subseteq ToSet(s) \cup ToSet(F(s).ids)
            S == {s \in Seq(Menu) : ToSet(s) \subseteq Rows => Good(s)}
<1>1. menu \in Table
  BY DEF Hangs
<1>2. SplitStep \in [Splits \X Menu -> Splits] /\ NoSplit \in Splits
  BY <1>1, SplitStepIs
<1>3. /\ F(<<>>) = NoSplit /\ \A s \in Seq(Menu) : F(s) \in Splits
      /\ \A s \in Seq(Menu), m \in Menu : F(Append(s, m)) = SplitStep[<<F(s), m>>]
  <2>1. Folds(Splits, SplitStep, NoSplit)
    BY <1>2 DEF Folds
  <2>. QED BY <2>1, FoldedIs
<1>4. SplitParentIDs(data) = F(data).ids
  BY <1>1, SplitFolds
<1>. HIDE DEF F
<1>5. <<>> \in S
  BY <1>3, EmptyIs DEF NoSplit, Up
<1>6. ASSUME NEW s \in Seq(Menu), NEW m \in Menu, s \in S PROVE Append(s, m) \in S
  <2>. DEFINE u == Append(s, m)
  <2>1. u \in Seq(Menu)
    OBVIOUS
  <2>2. ToSet(u) = ToSet(s) \cup {m}
    BY OnceAppend
  <2>3. SUFFICES ASSUME ToSet(u) \subseteq Rows PROVE Good(u)
    BY <2>1
  <2>. HIDE DEF u
  <2>4. m \in Rows /\ ToSet(s) \subseteq Rows /\ F(s) \in Splits
    BY <1>3, <2>2, <2>3
  <2>5. Good(s)
    BY <1>6, <2>4
  <2>6. F(u) = IF m \in F(s).seen THEN F(s)
               ELSE [ids  |-> F(s).ids \o Pick(menu[m].path, Menu \ (F(s).seen \cup {m})),
                     seen |-> F(s).seen \cup {m} \cup ToSet(menu[m].path)]
    <3>1. F(u) = SplitStep[<<F(s), m>>]
      BY <1>3 DEF u
    <3>2. \A a \in Splits, k \in Rows : SplitStep[<<a, k>>] =
            IF k \in a.seen THEN a
            ELSE [ids  |-> a.ids \o Pick(menu[k].path, Menu \ (a.seen \cup {k})),
                  seen |-> a.seen \cup {k} \cup ToSet(menu[k].path)]
      BY <1>1, SplitStepIs
    <3>. QED BY <2>4, <3>1, <3>2
  <2>7. Up(ToSet(u)) = Up(ToSet(s)) \cup {m} \cup OnPathOf(m)
    BY <2>2 DEF Up
  <2>8. CASE m \in F(s).seen
    <3>1. OnPathOf(m) \subseteq Up(ToSet(s))
      <4>1. Up(Up(ToSet(s))) = Up(ToSet(s))
        BY <2>4, UpIs
      <4>. QED BY <2>5, <2>8, <4>1 DEF Up
    <3>2. Up(ToSet(u)) = Up(ToSet(s))
      BY <2>5, <2>7, <2>8, <3>1
    <3>. QED BY <2>2, <2>5, <2>6, <2>8, <3>2
  <2>9. CASE m \notin F(s).seen
    <3>. DEFINE up == Pick(menu[m].path, Menu \ (F(s).seen \cup {m}))
    <3>1. menu[m].path \in Seq(Menu) /\ F(s).ids \in Seq(Menu)
      BY <1>1, <2>4, RowIs DEF Splits
    <3>2. up \in Seq(Menu) /\ ToSet(up) = OnPathOf(m) \cap (Menu \ (F(s).seen \cup {m}))
      BY <3>1, PickSet DEF OnPathOf
    <3>3. OnPathOf(m) \subseteq Menu
      BY <3>1 DEF OnPathOf, ToSet
    <3>. HIDE DEF up
    <3>4. ToSet(F(s).ids \o up) = ToSet(F(s).ids) \cup ToSet(up)
      BY <3>1, <3>2, ConcatIs
    <3>5. F(u).ids = F(s).ids \o up /\ F(u).seen = F(s).seen \cup {m} \cup OnPathOf(m)
      <4>1. F(u) = [ids |-> F(s).ids \o up, seen |-> F(s).seen \cup {m} \cup OnPathOf(m)]
        BY <2>6, <2>9 DEF up, OnPathOf
      <4>. QED BY <4>1
    <3>. QED BY <2>2, <2>5, <2>7, <3>2, <3>3, <3>4, <3>5
  <2>. QED BY <2>8, <2>9
<1>. HIDE DEF S
<1>7. Seq(Menu) \subseteq S
  BY <1>5, <1>6, ListInduction
<1>8. Good(data)
  BY <1>7 DEF S
<1>9. F(data).ids \in Seq(Menu)
  BY <1>3 DEF Splits
<1>. QED BY <1>4, <1>8, <1>9

-----------------------------------------------------------------------------
(* The queries.                                                            *)

LEMMA OrderIs ==
  ASSUME NEW o \in Orders
  PROVE  o \in Seq(Menu) /\ Once(o) /\ ToSet(o) = Menu
<1>1. o \in Seq(Menu) /\ IsInjective(o) /\ ToSet(o) = Menu
  BY MenuQueryAssumption
<1>. QED BY <1>1 DEF IsInjective, Once

LEMMA QueryIs ==
  ASSUME NEW o \in Orders, menu \in Table, NEW S
  PROVE  /\ Query(o, S) \in Seq(Menu) /\ Once(Query(o, S)) /\ ToSet(Query(o, S)) = S \cap Rows
         /\ Query(o, S) = Pick(o, S \cap Rows)
<1>1. Rows \subseteq Menu
  BY RowIs
<1>2. o \in Seq(Menu) /\ Once(o) /\ ToSet(o) = Menu
  BY OrderIs
<1>. QED BY <1>1, <1>2, PickSet DEF Query

\* Asked for some identifiers, it finds their rows.
LEMMA InIDsIs ==
  ASSUME NEW o \in Orders, menu \in Table, NEW ids, ids # <<>>, ToSet(ids) \subseteq Rows
  PROVE  InIDs(o, ids) \in Seq(Menu) /\ Once(InIDs(o, ids)) /\ ToSet(InIDs(o, ids)) = ToSet(ids)
<1>1. InIDs(o, ids) = Query(o, ToSet(ids))
  BY DEF InIDs
<1>. QED BY <1>1, QueryIs

\* The data with all above them, in order, whichever of them are asked for.
LEMMA FilledIs ==
  ASSUME Hangs, NEW o \in Orders, NEW d \in Seq(Menu), Once(d), ToSet(d) \subseteq Rows
  PROVE  LET ids == SplitParentIDs(d) IN
         Sort(o, IF ids = <<>> THEN d ELSE Added(d, InIDs(o, ids))) = Pick(o, Up(ToSet(d)))
<1>. DEFINE ids == SplitParentIDs(d)
            all == IF ids = <<>> THEN d ELSE Added(d, InIDs(o, ids))
<1>1. menu \in Table /\ o \in Seq(Menu)
  BY OrderIs DEF Hangs
<1>2. /\ ids \in Seq(Menu) /\ ToSet(ids) \subseteq Up(ToSet(d))
      /\ Up(ToSet(d)) \subseteq ToSet(d) \cup ToSet(ids)
  BY SplitIs
<1>3. Up(ToSet(d)) \subseteq Rows /\ ToSet(d) \subseteq Up(ToSet(d))
  BY UpIs DEF Up
<1>. HIDE DEF ids
<1>4. all \in Seq(Menu) /\ Once(all) /\ ToSet(all) = Up(ToSet(d))
  <2>1. CASE ids = <<>>
    BY <1>2, <1>3, <2>1, EmptyIs
  <2>2. CASE ids # <<>>
    <3>1. InIDs(o, ids) \in Seq(Menu) /\ Once(InIDs(o, ids)) /\ ToSet(InIDs(o, ids)) = ToSet(ids)
      BY <1>1, <1>2, <1>3, <2>2, InIDsIs
    <3>2. /\ Added(d, InIDs(o, ids)) \in Seq(Menu) /\ Once(Added(d, InIDs(o, ids)))
          /\ ToSet(Added(d, InIDs(o, ids))) = ToSet(d) \cup ToSet(ids)
      BY <3>1, AddedIs
    <3>. QED BY <1>2, <1>3, <2>2, <3>2
  <2>. QED BY <2>1, <2>2
<1>. HIDE DEF all
<1>5. Sort(o, all) = Pick(o, Up(ToSet(d)))
  BY <1>1, <1>4, SortIs
<1>. QED BY <1>5 DEF all, ids

BelowStep(o) ==
    [e \in Seq(Menu) \X Menu |-> IF e[2] \in Rows THEN Added(e[1], ChildRows(o, e[2])) ELSE e[1]]
AllBelow(o, data) == Folded(Seq(Menu), BelowStep(o), data, data)

LEMMA BelowStepIs ==
  ASSUME menu \in Table, NEW o \in Orders
  PROVE  /\ BelowStep(o) \in [Seq(Menu) \X Menu -> Seq(Menu)]
         /\ \A d \in Seq(Menu), m \in Rows : BelowStep(o)[<<d, m>>] = Added(d, ChildRows(o, m))
<1>1. ASSUME NEW d \in Seq(Menu), NEW m \in Rows PROVE Added(d, ChildRows(o, m)) \in Seq(Menu)
  <2>1. ChildRows(o, m) \in Seq(Menu)
    BY QueryIs DEF ChildRows
  <2>. QED BY <2>1, AddedIs
<1>2. Rows \subseteq Menu
  BY RowIs
<1>. QED BY <1>1, <1>2 DEF BelowStep

LEMMA BelowFolds ==
  ASSUME menu \in Table, NEW o \in Orders, NEW data \in Seq(Menu), ToSet(data) \subseteq Rows
  PROVE  LET all == AllBelow(o, data)
             ids == SplitParentIDs(all)
         IN  AppendChildren(o, data) = Sort(o, IF ids = <<>> THEN all ELSE Added(all, InIDs(o, ids)))
<1>. DEFINE n == Len(data)
            V == Seq(Menu)
            body(f, i) == IF i = 0 THEN data ELSE Added(f[i-1], ChildRows(o, data[i]))
            g == Run(V, BelowStep(o), data, data)
            below == CHOOSE f : f = [i \in 0..n |-> body(f, i)]
<1>1. BelowStep(o) \in [V \X Menu -> V] /\ data \in V
  BY BelowStepIs
<1>2. \A v \in V, m \in Rows : BelowStep(o)[<<v, m>>] = Added(v, ChildRows(o, m))
  BY BelowStepIs
<1>3. n \in 0..n /\ n \in Nat /\ \A i \in 1..n : data[i] \in Rows
  <2>1. n \in Nat /\ DOMAIN data = 1..n
    OBVIOUS
  <2>2. \A i \in 1..n : data[i] \in ToSet(data)
    BY <2>1 DEF ToSet
  <2>. QED BY <2>1, <2>2
<1>. HIDE DEF V, n
<1>4. Stepping(V, BelowStep(o), data, data, n)
  BY <1>1, <1>3 DEF Stepping, V, n
<1>5. /\ g \in [0..n -> V] /\ g[0] = data
      /\ \A i \in 1..n : g[i-1] \in V /\ g[i] = BelowStep(o)[<<g[i-1], data[i]>>]
  BY <1>4, RunTyped DEF n
<1>. HIDE DEF g
<1>6. ASSUME NEW i \in 0..n PROVE g[i] = body(g, i)
  <2>1. i = 0 \/ i \in 1..n
    BY <1>3
  <2>. QED BY <1>2, <1>3, <1>5, <2>1
<1>. HIDE DEF body
<1>7. g = [i \in 0..n |-> body(g, i)]
  BY <1>5, <1>6
<1>8. below = [i \in 0..n |-> body(below, i)]
  BY <1>7
<1>9. LET all == below[n]
          ids == SplitParentIDs(all)
      IN  AppendChildren(o, data) = Sort(o, IF ids = <<>> THEN all ELSE Added(all, InIDs(o, ids)))
  BY DEF AppendChildren, body, n
<1>. HIDE DEF below
<1>10. \A i \in 0..n : below[i] = body(below, i)
  BY <1>8
<1>11. Follows(V, BelowStep(o), data, data, n, below)
  <2>1. below[0] = data
    <3>1. 0 \in 0..n
      BY <1>3
    <3>. QED BY <1>10, <3>1 DEF body
  <2>2. ASSUME NEW i \in 1..n, below[i-1] \in V
        PROVE  below[i] = BelowStep(o)[<<below[i-1], data[i]>>]
    <3>1. i \in 0..n /\ i # 0 /\ data[i] \in Rows
      BY <1>3
    <3>2. below[i] = Added(below[i-1], ChildRows(o, data[i]))
      BY <1>10, <3>1 DEF body
    <3>. QED BY <1>2, <2>2, <3>1, <3>2
  <2>. QED BY <2>1, <2>2 DEF Follows
<1>12. below[n] = AllBelow(o, data)
  BY <1>4, <1>11, StepsFold DEF n, V, AllBelow
<1>. QED BY <1>9, <1>12

\* The menus below the data are added to them, none twice (menu.biz.go:244).
LEMMA AllBelowIs ==
  ASSUME Hangs, NEW o \in Orders, NEW data \in Seq(Menu), Once(data), ToSet(data) \subseteq Rows
  PROVE  /\ AllBelow(o, data) \in Seq(Menu) /\ Once(AllBelow(o, data))
         /\ ToSet(AllBelow(o, data)) = ToSet(data) \cup UNION {Below(m) : m \in ToSet(data)}
<1>. DEFINE F(s) == Folded(Seq(Menu), BelowStep(o), data, s)
            With(S) == ToSet(data) \cup UNION {Below(m) : m \in S}
            Good(s) == Once(F(s)) /\ ToSet(F(s)) = With(ToSet(s))
            S == {s \in Seq(Menu) : ToSet(s) \subseteq Rows => Good(s)}
<1>1. menu \in Table
  BY DEF Hangs
<1>2. BelowStep(o) \in [Seq(Menu) \X Menu -> Seq(Menu)]
  BY <1>1, BelowStepIs
<1>3. /\ F(<<>>) = data /\ \A s \in Seq(Menu) : F(s) \in Seq(Menu)
      /\ \A s \in Seq(Menu), m \in Menu : F(Append(s, m)) = BelowStep(o)[<<F(s), m>>]
  <2>1. Folds(Seq(Menu), BelowStep(o), data)
    BY <1>2 DEF Folds
  <2>. QED BY <2>1, FoldedIs
<1>. HIDE DEF F
<1>5. <<>> \in S
  BY <1>3, EmptyIs
<1>6. ASSUME NEW s \in Seq(Menu), NEW m \in Menu, s \in S PROVE Append(s, m) \in S
  <2>. DEFINE u == Append(s, m)
  <2>1. u \in Seq(Menu)
    OBVIOUS
  <2>2. ToSet(u) = ToSet(s) \cup {m}
    BY OnceAppend
  <2>3. SUFFICES ASSUME ToSet(u) \subseteq Rows PROVE Good(u)
    BY <2>1
  <2>. HIDE DEF u
  <2>4. m \in Rows /\ ToSet(s) \subseteq Rows /\ F(s) \in Seq(Menu)
    BY <1>3, <2>2, <2>3
  <2>5. Good(s)
    BY <1>6, <2>4
  <2>6. F(u) = Added(F(s), ChildRows(o, m))
    BY <1>1, <1>3, <2>4, BelowStepIs DEF u
  <2>7. /\ ChildRows(o, m) \in Seq(Menu) /\ Once(ChildRows(o, m))
        /\ ToSet(ChildRows(o, m)) = Below(m)
    <3>1. Below(m) = Under(menu, Prefix(m, menu[m])) /\ Below(m) \subseteq Rows
      BY <2>4, BelowIs DEF Below
    <3>. QED BY <1>1, <3>1, QueryIs DEF ChildRows
  <2>8. With(ToSet(u)) = With(ToSet(s)) \cup Below(m)
    BY <2>2
  <2>. HIDE DEF With
  <2>. QED BY <2>4, <2>5, <2>6, <2>7, <2>8, AddedIs
<1>. HIDE DEF S
<1>7. Seq(Menu) \subseteq S
  BY <1>5, <1>6, ListInduction
<1>8. Good(data)
  BY <1>7 DEF S
<1>9. F(data) \in Seq(Menu)
  BY <1>3
<1>. QED BY <1>8, <1>9 DEF AllBelow, F

LEMMA AppendChildrenIs ==
  ASSUME Hangs, NEW o \in Orders, NEW data \in Seq(Menu), Once(data), ToSet(data) \subseteq Rows
  PROVE  AppendChildren(o, data) = Pick(o, Up(ToSet(data) \cup UNION {Below(m) : m \in ToSet(data)}))
<1>. DEFINE all == AllBelow(o, data)
<1>1. menu \in Table
  BY DEF Hangs
<1>2. /\ all \in Seq(Menu) /\ Once(all)
      /\ ToSet(all) = ToSet(data) \cup UNION {Below(m) : m \in ToSet(data)}
  BY AllBelowIs
<1>3. ToSet(all) \subseteq Rows
  BY <1>2 DEF Below
<1>4. LET ids == SplitParentIDs(all)
      IN  AppendChildren(o, data) = Sort(o, IF ids = <<>> THEN all ELSE Added(all, InIDs(o, ids)))
  BY <1>1, BelowFolds
<1>. HIDE DEF all
<1>5. AppendChildren(o, data) = Pick(o, Up(ToSet(all)))
  BY <1>2, <1>3, <1>4, FilledIs
<1>. QED BY <1>2, <1>5

-----------------------------------------------------------------------------
(* The trees that they answer.                                             *)

LEMMA TreeIs ==
  ASSUME menu \in Table, NEW o \in Orders, NEW S \in SUBSET Rows
  PROVE  ToTree(Pick(o, S)) = TreeOf(o, S)
<1>1. o \in Seq(Menu) /\ ToSet(o) = Menu /\ Rows \subseteq Menu
  BY OrderIs, RowIs
<1>2. ToSet(Pick(o, S)) = S
  <2>1. ToSet(Pick(o, S)) = ToSet(o) \cap S
    BY <1>1, PickSet
  <2>. QED BY <1>1, <2>1
<1>3. \A p : Pick(Pick(o, S), ChildrenOf(p)) = Pick(o, S \cap ChildrenOf(p))
  BY <1>1, PickTwice
<1>. QED BY <1>2, <1>3 DEF ToTree, TreeOf

\* A user sees the enabled menus of his roles and all above them (login.biz.go:311).
LEMMA QueryMenusIs ==
  ASSUME Hangs, NEW o \in Orders, NEW held \in SUBSET Rows
  PROVE  QueryMenus(o, held) = TreeOf(o, Upward(held \cap Enabled))
<1>. DEFINE H == held \cap Enabled
            data == Query(o, H)
            miss == Pick(SplitParentIDs(data), Menu \ ToSet(data))
            all == IF miss = <<>> THEN data ELSE Sort(o, data \o InIDs(o, miss))
<1>1. menu \in Table /\ o \in Seq(Menu) /\ Rows \subseteq Menu /\ ToSet(o) = Menu
  BY OrderIs, RowIs DEF Hangs
<1>2. H \subseteq Rows
  OBVIOUS
<1>. HIDE DEF H
<1>3. /\ data \in Seq(Menu) /\ Once(data) /\ ToSet(data) = H /\ data = Pick(o, H)
  <2>1. H \cap Rows = H
    BY <1>2
  <2>. QED BY <1>1, <2>1, QueryIs
<1>4. QueryMenus(o, held) = ToTree(all)
  BY DEF QueryMenus, H
<1>. HIDE DEF data
<1>5. LET ids == SplitParentIDs(data) IN
      ids \in Seq(Menu) /\ ToSet(ids) \subseteq Up(H) /\ Up(H) \subseteq H \cup ToSet(ids)
  <2>1. Hangs /\ data \in Seq(Menu) /\ ToSet(data) \subseteq Rows
    BY <1>2, <1>3
  <2>. QED BY <1>3, <2>1, SplitIs
<1>6. Upward(H) = Up(H) /\ Up(H) \subseteq Rows /\ H \subseteq Up(H)
  BY <1>2, UpIs DEF Up
<1>7. miss \in Seq(Menu) /\ ToSet(miss) = Up(H) \ H
  <2>1. /\ Pick(SplitParentIDs(data), Menu \ ToSet(data)) \in Seq(Menu)
        /\ ToSet(Pick(SplitParentIDs(data), Menu \ ToSet(data)))
             = ToSet(SplitParentIDs(data)) \cap (Menu \ ToSet(data))
    BY <1>5, PickSet
  <2>. QED BY <1>1, <1>3, <1>5, <1>6, <2>1
<1>. HIDE DEF miss
<1>8. all = Pick(o, Up(H))
  <2>1. CASE miss = <<>>
    <3>1. Up(H) = H
      BY <1>6, <1>7, <2>1, EmptyIs
    <3>. QED BY <1>3, <2>1, <3>1
  <2>2. CASE miss # <<>>
    <3>1. /\ InIDs(o, miss) \in Seq(Menu) /\ Once(InIDs(o, miss))
          /\ ToSet(InIDs(o, miss)) = Up(H) \ H
      BY <1>1, <1>6, <1>7, <2>2, InIDsIs
    <3>2. /\ data \o InIDs(o, miss) \in Seq(Menu) /\ Once(data \o InIDs(o, miss))
          /\ ToSet(data \o InIDs(o, miss)) = Up(H)
      <4>1. /\ data \o InIDs(o, miss) \in Seq(Menu)
            /\ ToSet(data \o InIDs(o, miss)) = ToSet(data) \cup ToSet(InIDs(o, miss))
            /\ Once(data) /\ Once(InIDs(o, miss)) /\ ToSet(data) \cap ToSet(InIDs(o, miss)) = {}
                 => Once(data \o InIDs(o, miss))
        BY <1>3, <3>1, ConcatIs
      <4>2. ToSet(data) \cap ToSet(InIDs(o, miss)) = {} /\ ToSet(data) \cup ToSet(InIDs(o, miss)) = Up(H)
        BY <1>3, <1>6, <3>1
      <4>. QED BY <1>3, <3>1, <4>1, <4>2
    <3>3. Sort(o, data \o InIDs(o, miss)) = Pick(o, Up(H))
      BY <1>1, <3>2, SortIs
    <3>. QED BY <2>2, <3>3
  <2>. QED BY <2>1, <2>2
<1>. HIDE DEF all
<1>9. ToTree(Pick(o, Up(H))) = TreeOf(o, Up(H))
  BY <1>1, <1>6, TreeIs
<1>. QED BY <1>4, <1>6, <1>8, <1>9 DEF H

\* The root user sees the enabled menus that have only enabled ones above.
LEMMA RootDrawn ==
  ASSUME Hangs, NEW o \in Orders
  PROVE  Drawn(QueryMenusOfRoot(o)) = {m \in Enabled : Above(m) \subseteq Enabled}
<1>. DEFINE tree == TreeOf(o, Enabled)
            G == {m \in Enabled : OnPathOf(m) \subseteq Enabled}
            Closed(S) == /\ Enabled \cap ChildrenOf(Top) \subseteq S
                         /\ \A p \in S : Enabled \cap ChildrenOf(p) \subseteq S
<1>1. menu \in Table /\ o \in Seq(Menu) /\ ToSet(o) = Menu /\ Rows \subseteq Menu
  BY OrderIs, RowIs DEF Hangs
<1>2. Enabled \subseteq Rows
  BY DEF Enabled
<1>3. QueryMenusOfRoot(o) = tree
  <2>1. Query(o, Enabled) = Pick(o, Enabled)
    <3>1. Enabled \cap Rows = Enabled
      BY <1>2
    <3>. QED BY <3>1 DEF Query
  <2>. QED BY <1>1, <1>2, <2>1, TreeIs DEF QueryMenusOfRoot
<1>4. \A T : T \subseteq Menu => ToSet(Pick(o, T)) = T
  <2>1. \A T : ToSet(Pick(o, T)) = ToSet(o) \cap T
    BY <1>1, PickSet
  <2>. QED BY <1>1, <2>1
<1>5. /\ DOMAIN tree.below = Enabled /\ ToSet(tree.list) = Enabled \cap ChildrenOf(Top)
      /\ \A p \in Enabled : ToSet(tree.below[p]) = Enabled \cap ChildrenOf(p)
  <2>1. \A p : Enabled \cap ChildrenOf(p) \subseteq Menu
    BY <1>1, <1>2
  <2>2. /\ tree.list = Pick(o, Enabled \cap ChildrenOf(Top))
        /\ tree.below = [p \in Enabled |-> Pick(o, Enabled \cap ChildrenOf(p))]
    BY DEF TreeOf
  <2>. HIDE DEF tree
  <2>. QED BY <1>4, <2>1, <2>2
<1>. HIDE DEF tree
<1>6. Drawn(tree) = {n \in Enabled : \A S \in SUBSET Enabled : Closed(S) => n \in S}
  BY <1>5 DEF Drawn
<1>7. G \in SUBSET Enabled /\ Closed(G)
  <2>1. ASSUME NEW m \in Enabled \cap ChildrenOf(Top) PROVE m \in G
    <3>1. m \in Rows /\ menu[m].parent = Top
      BY DEF ChildrenOf
    <3>. QED BY <3>1, PathSet
  <2>2. ASSUME NEW p \in G, NEW m \in Enabled \cap ChildrenOf(p) PROVE m \in G
    <3>1. m \in Rows /\ menu[m].parent = p /\ p \in Rows
      BY <1>2 DEF ChildrenOf
    <3>2. p # Top
      BY <1>1, <3>1, MenuTreeAssumption
    <3>3. OnPathOf(m) = OnPathOf(p) \cup {p}
      BY <3>1, <3>2, PathSet
    <3>. QED BY <3>3
  <2>. QED BY <2>1, <2>2
<1>8. ASSUME NEW S \in SUBSET Enabled, Closed(S) PROVE G \subseteq S
  <2>. DEFINE N == {l \in Nat : \A m \in G : Len(menu[m].path) = l => m \in S}
  <2>0. \A m \in G : m \in Rows /\ menu[m].path \in Seq(Menu)
    BY <1>1, <1>2, RowIs
  <2>1. ASSUME NEW l \in Nat, NEW m \in G, Len(menu[m].path) = l, menu[m].parent = Top PROVE m \in S
    BY <1>8, <2>0, <2>1 DEF ChildrenOf
  <2>2. ASSUME NEW m \in G, menu[m].parent # Top
        PROVE  LET p == menu[m].parent IN
               /\ p \in G /\ Len(menu[p].path) \in Nat /\ Len(menu[m].path) = Len(menu[p].path) + 1
               /\ p \in S => m \in S
    <3>. DEFINE p == menu[m].parent
    <3>1. p \in Rows /\ Len(menu[m].path) = Len(menu[p].path) + 1 /\ OnPathOf(m) = OnPathOf(p) \cup {p}
      BY <2>0, <2>2, PathSet
    <3>2. p \in G
      BY <3>1
    <3>3. m \in Enabled \cap ChildrenOf(p)
      BY <2>0 DEF ChildrenOf
    <3>4. Len(menu[p].path) \in Nat
      BY <2>0, <3>2
    <3>. HIDE DEF p, G
    <3>. QED BY <1>8, <3>1, <3>2, <3>3, <3>4 DEF p
  <2>. HIDE DEF G
  <2>3. 0 \in N
    <3>1. ASSUME NEW m \in G, Len(menu[m].path) = 0 PROVE m \in S
      <4>1. CASE menu[m].parent = Top
        BY <2>1, <3>1, <4>1
      <4>2. CASE menu[m].parent # Top
        BY <2>2, <3>1, <4>2
      <4>. QED BY <4>1, <4>2
    <3>. QED BY <3>1
  <2>4. ASSUME NEW l \in Nat, l \in N PROVE l + 1 \in N
    <3>1. ASSUME NEW m \in G, Len(menu[m].path) = l + 1 PROVE m \in S
      <4>1. CASE menu[m].parent = Top
        BY <2>1, <3>1, <4>1
      <4>2. CASE menu[m].parent # Top
        BY <2>2, <2>4, <3>1, <4>2
      <4>. QED BY <4>1, <4>2
    <3>. QED BY <3>1
  <2>. HIDE DEF N
  <2>5. Nat \subseteq N
    BY <2>3, <2>4, SetInduction
  <2>6. ASSUME NEW m \in G PROVE m \in S
    <3>1. Len(menu[m].path) \in N
      BY <2>0, <2>5
    <3>. QED BY <3>1 DEF N
  <2>. QED BY <2>6
<1>9. G = {m \in Enabled : Above(m) \subseteq Enabled}
  BY <1>2, AboveIs
<1>. HIDE DEF Closed, G
<1>10. Drawn(tree) = G
  BY <1>6, <1>7, <1>8
<1>. QED BY <1>3, <1>9, <1>10

\* A search for a name shows the matches with all above and below (menu.biz.go:177).
LEMMA ByNameIs ==
  ASSUME Hangs, NEW o \in Orders, NEW S \in SUBSET Rows
  PROVE  QueryByName(o, S) = TreeOf(o, Upward(S \cup UNION {Below(m) : m \in S}))
<1>. DEFINE B == S \cup UNION {Below(m) : m \in S}
<1>1. menu \in Table
  BY DEF Hangs
<1>2. Query(o, S) \in Seq(Menu) /\ Once(Query(o, S)) /\ ToSet(Query(o, S)) = S
  BY <1>1, QueryIs
<1>3. AppendChildren(o, Query(o, S)) = Pick(o, Up(B))
  BY <1>2, AppendChildrenIs
<1>4. B \subseteq Rows
  BY DEF Below
<1>. HIDE DEF B
<1>5. Upward(B) = Up(B) /\ Up(B) \in SUBSET Rows
  BY <1>4, UpIs
<1>6. ToTree(Pick(o, Up(B))) = TreeOf(o, Up(B))
  BY <1>1, <1>5, TreeIs
<1>. QED BY <1>3, <1>5, <1>6 DEF QueryByName, B

\* The menus on a path that comes from m at the top are m and some below it.
LEMMA BranchClosed ==
  ASSUME Hangs, NEW m \in Rows, menu[m].parent = Top
  PROVE  \A n \in Rows : m \in OnPathOf(n) => OnPathOf(n) \subseteq {m} \cup Below(m)
<1>. DEFINE N == {l \in Nat : \A n \in Rows : Len(menu[n].path) = l /\ m \in OnPathOf(n)
                                 => OnPathOf(n) \subseteq {m} \cup Below(m)}
<1>0. /\ \A n \in Rows : Len(menu[n].path) \in Nat
      /\ \A n \in Rows : m \in OnPathOf(n) => n \in Below(m)
  <2>1. \A n \in Rows : menu[n].path \in Seq(Menu)
    BY RowIs DEF Hangs
  <2>2. \A n \in Rows : Above(n) = OnPathOf(n)
    BY AboveIs
  <2>. QED BY <2>1, <2>2 DEF Below
<1>1. OnPathOf(m) = {}
  BY PathSet
<1>2. ASSUME NEW n \in Rows, m \in OnPathOf(n)
      PROVE  LET p == menu[n].parent IN
             /\ p \in Rows /\ Len(menu[n].path) = Len(menu[p].path) + 1
             /\ OnPathOf(n) = OnPathOf(p) \cup {p}
  BY <1>2, PathSet
<1>3. 0 \in N
  <2>1. ASSUME NEW n \in Rows, Len(menu[n].path) = 0, m \in OnPathOf(n) PROVE FALSE
    <3>. DEFINE p == menu[n].parent
    <3>1. p \in Rows /\ Len(menu[n].path) = Len(menu[p].path) + 1
      BY <1>2, <2>1
    <3>2. Len(menu[p].path) \in Nat
      BY <1>0, <3>1
    <3>. QED BY <2>1, <3>1, <3>2
  <2>. QED BY <2>1
<1>4. ASSUME NEW l \in Nat, l \in N PROVE l + 1 \in N
  <2>1. ASSUME NEW n \in Rows, Len(menu[n].path) = l + 1, m \in OnPathOf(n)
        PROVE  OnPathOf(n) \subseteq {m} \cup Below(m)
    <3>. DEFINE p == menu[n].parent
    <3>1. p \in Rows /\ Len(menu[n].path) = Len(menu[p].path) + 1 /\ OnPathOf(n) = OnPathOf(p) \cup {p}
      BY <1>2, <2>1
    <3>2. Len(menu[p].path) = l
      <4>1. Len(menu[p].path) \in Nat
        BY <1>0, <3>1
      <4>. QED BY <2>1, <3>1, <4>1
    <3>. HIDE DEF p
    <3>3. CASE p = m
      BY <1>1, <3>1, <3>3
    <3>4. CASE p # m
      <4>1. m \in OnPathOf(p)
        BY <2>1, <3>1, <3>4
      <4>2. OnPathOf(p) \subseteq {m} \cup Below(m)
        BY <1>4, <3>1, <3>2, <4>1
      <4>3. p \in Below(m)
        BY <1>0, <3>1, <4>1
      <4>. QED BY <3>1, <4>2, <4>3
    <3>. QED BY <3>3, <3>4
  <2>. QED BY <2>1
<1>. HIDE DEF N
<1>5. Nat \subseteq N
  BY <1>3, <1>4, SetInduction
<1>6. ASSUME NEW n \in Rows, m \in OnPathOf(n) PROVE OnPathOf(n) \subseteq {m} \cup Below(m)
  <2>1. Len(menu[n].path) \in N
    BY <1>0, <1>5
  <2>. QED BY <1>6, <2>1 DEF N
<1>. QED BY <1>6

\* All below a menu at the top, with all above and below them, is its branch.
LEMMA BranchIs ==
  ASSUME Hangs, NEW m \in Rows, menu[m].parent = Top
  PROVE  Up(Below(m) \cup UNION {Below(k) : k \in Below(m)})
           = IF Below(m) = {} THEN {} ELSE {m} \cup Below(m)
<1>1. \A n \in Rows : Above(n) = OnPathOf(n)
  BY AboveIs
<1>2. \A k \in Below(m) : Below(k) \subseteq Below(m)
  <2>1. ASSUME NEW k \in Below(m), NEW n \in Below(k) PROVE n \in Below(m)
    <3>1. n \in Rows /\ k \in OnPathOf(n) /\ m \in OnPathOf(k)
      BY <1>1 DEF Below
    <3>2. OnPathOf(k) \subseteq OnPathOf(n)
      BY <3>1, PathClosed
    <3>. QED BY <1>1, <3>1, <3>2 DEF Below
  <2>. QED BY <2>1
<1>3. Below(m) \cup UNION {Below(k) : k \in Below(m)} = Below(m)
  BY <1>2
<1>4. \A n \in Below(m) : n \in Rows /\ m \in OnPathOf(n)
  BY <1>1 DEF Below
<1>5. \A n \in Below(m) : OnPathOf(n) \subseteq {m} \cup Below(m)
  BY <1>4, BranchClosed
<1>6. Up(Below(m)) = IF Below(m) = {} THEN {} ELSE {m} \cup Below(m)
  BY <1>4, <1>5 DEF Up
<1>. QED BY <1>3, <1>6

\* One code finds what the top has with it: nothing, or the one menu.
LEMMA LastMenuIs ==
  ASSUME menu \in Table, CodesDistinct(menu), NEW c \in Code
  PROVE  LET S == {m \in Rows : menu[m].parent = Top /\ menu[m].code = c} IN
         /\ S = {} => LastMenu(<<c>>) = Nil
         /\ \A m \in S : LastMenu(<<c>>) = m
<1>. DEFINE codes == <<c>>
            S == {n \in Rows : menu[n].parent = Top /\ menu[n].code = c}
            at(k, x) == {n \in ChildrenOf(IF k = Top THEN Top ELSE menu[k].parent) : menu[n].code = x}
            one == IF S = {} THEN Nil ELSE CHOOSE n \in S : TRUE
            next(k, x) == IF k = Nil \/ at(k, x) = {} THEN Nil ELSE CHOOSE n \in at(k, x) : TRUE
            body(f, i) == IF i = 0 THEN Top ELSE next(f[i-1], codes[i])
            g == [i \in 0..1 |-> IF i = 0 THEN Top ELSE one]
            last == CHOOSE f : f = [i \in 0..1 |-> body(f, i)]
<1>1. Top # Nil
  BY MenuTreeAssumption
<1>2. at(Top, c) = S
  BY DEF ChildrenOf
<1>3. codes[1] = c
  OBVIOUS
<1>4. ASSUME NEW m \in S, NEW n \in S PROVE m = n
  <2>1. n \in RowsOf(menu) /\ m \in RowsOf(menu)
    BY DEF Rows
  <2>2. Level(menu[n]) = Level(menu[m])
    BY <2>1 DEF Level, RowsOf
  <2>. QED BY <2>1, <2>2 DEF CodesDistinct
<1>5. (S = {} => one = Nil) /\ \A m \in S : one = m
  <2>. HIDE DEF S
  <2>. QED BY <1>4
<1>. HIDE DEF at, codes, S
<1>6. next(Top, c) = one
  BY <1>1, <1>2
<1>. HIDE DEF next, one
<1>7. \A f : f[0] = Top => body(f, 1) = one
  BY <1>3, <1>6
<1>8. \A f : body(f, 0) = Top
  OBVIOUS
<1>. HIDE DEF body
<1>9. \A i : i \in 0..1 <=> i = 0 \/ i = 1
  OBVIOUS
<1>10. g = [i \in 0..1 |-> body(g, i)]
  <2>1. g[0] = Top /\ g[1] = one
    OBVIOUS
  <2>. QED BY <1>7, <1>8, <1>9, <2>1
<1>. HIDE DEF g
<1>11. last = [i \in 0..1 |-> body(last, i)]
  BY <1>10
<1>12. LastMenu(codes) = last[1]
  <2>1. Len(codes) = 1
    BY DEF codes
  <2>. QED BY <2>1 DEF LastMenu, body, next, at
<1>. HIDE DEF last
<1>13. last[0] = Top /\ last[1] = one
  BY <1>7, <1>8, <1>9, <1>11
<1>. QED BY <1>5, <1>12, <1>13 DEF codes, S, one

\* A code of the top shows the branch of the menu that has it (menu.biz.go:177).
LEMMA ByCodeIs ==
  ASSUME Hangs, CodesDistinct(menu), NEW o \in Orders, NEW m \in Rows, NEW c \in Code,
         menu[m].parent = Top, menu[m].code = c
  PROVE  QueryByCode(o, <<c>>) = TreeOf(o, IF Below(m) = {} THEN {} ELSE {m} \cup Below(m))
<1>. DEFINE B == IF Below(m) = {} THEN {} ELSE {m} \cup Below(m)
            data == ChildRows(o, m)
<1>1. menu \in Table /\ m \in Menu
  BY RowIs DEF Hangs
<1>2. LastMenu(<<c>>) = m /\ m \notin {Nil, Top}
  BY <1>1, LastMenuIs, MenuTreeAssumption
<1>3. QueryByCode(o, <<c>>) = ToTree(AppendChildren(o, data))
  BY <1>2 DEF QueryByCode
<1>4. data \in Seq(Menu) /\ Once(data) /\ ToSet(data) = Below(m)
  <2>1. /\ data \in Seq(Menu) /\ Once(data)
        /\ ToSet(data) = Under(menu, Prefix(m, menu[m])) \cap Rows
    BY <1>1, QueryIs DEF ChildRows
  <2>2. Below(m) = Under(menu, Prefix(m, menu[m])) /\ Below(m) \subseteq Rows
    BY BelowIs DEF Below
  <2>. QED BY <2>1, <2>2
<1>. HIDE DEF data
<1>5. ToSet(data) \subseteq Rows
  BY <1>4 DEF Below
<1>6. AppendChildren(o, data) = Pick(o, Up(Below(m) \cup UNION {Below(k) : k \in Below(m)}))
  BY <1>4, <1>5, AppendChildrenIs
<1>7. Up(Below(m) \cup UNION {Below(k) : k \in Below(m)}) = B /\ B \subseteq Rows
  BY BranchIs DEF Below
<1>8. ToTree(Pick(o, B)) = TreeOf(o, B)
  BY <1>1, <1>7, TreeIs
<1>. QED BY <1>3, <1>6, <1>7, <1>8

-----------------------------------------------------------------------------

\* A table whose paths nothing has broken hangs together, whoever is about to change it.
LEMMA IntactHangs == IInv /\ Intact => Hangs
<1>. SUFFICES ASSUME IInv, Intact PROVE Hangs
  OBVIOUS
<1>1. menu \in Table
  BY TypeParts DEF IInv, TableTypes
<1>2. Tree(menu)
  BY DEF IInv, TreeInv, Intact
<1>. QED BY <1>1, <1>2 DEF Hangs

\* What the lists show of such a table.
LEMMA IntactShows ==
  IInv /\ Intact => /\ UserSeesMenus /\ RootSeesMenus /\ NameShowsBranches
                    /\ CodesDistinct(menu) => CodeShowsBranch
<1>. SUFFICES ASSUME IInv, Intact
              PROVE  /\ UserSeesMenus /\ RootSeesMenus /\ NameShowsBranches
                     /\ CodesDistinct(menu) => CodeShowsBranch
  OBVIOUS
<1>1. Hangs
  BY IntactHangs
<1>2. UserSeesMenus
  BY <1>1, QueryMenusIs DEF UserSeesMenus
<1>3. RootSeesMenus
  BY <1>1, RootDrawn DEF RootSeesMenus
<1>4. NameShowsBranches
  BY <1>1, ByNameIs DEF NameShowsBranches
<1>5. ASSUME CodesDistinct(menu), NEW o \in Orders, NEW c \in Code
      PROVE  LET S == {m \in Rows : menu[m].parent = Top /\ menu[m].code = c} IN
             /\ S = {} => QueryByCode(o, <<c>>) = NotFound
             /\ \A m \in S : QueryByCode(o, <<c>>) =
                  TreeOf(o, IF Below(m) = {} THEN {} ELSE {m} \cup Below(m))
  <2>1. menu \in Table
    BY <1>1 DEF Hangs
  <2>. QED BY <1>1, <1>5, <2>1, LastMenuIs, ByCodeIs DEF QueryByCode, NotFound
<1>. QED BY <1>2, <1>3, <1>4, <1>5 DEF CodeShowsBranch

\* A user sees each enabled menu of his roles in its place, with all above it, and
\* nothing else, and the root user the enabled menus that have only enabled ones above
\* (login.biz.go:311); and this also while others are about to change the menus.
THEOREM LoginAlwaysShowsMenus ==
  Spec => []LoginShowsMenus /\ [](Intact => UserSeesMenus /\ RootSeesMenus)
<1>1. IInv => LoginShowsMenus /\ (Intact => UserSeesMenus /\ RootSeesMenus)
  BY IntactShows DEF LoginShowsMenus, Settled
<1>. QED BY <1>1, Invariant, PTL

\* A search for a name or for a code of the top shows whole branches, each menu once
\* and in order, whatever else matches above or below it (menu.biz.go:244); and this
\* also while others are about to change the menus.
THEOREM SearchAlwaysShowsBranches ==
  Spec => /\ []SearchShowsBranches
          /\ [](Intact => NameShowsBranches /\ (CodesDistinct(menu) => CodeShowsBranch))
<1>1. IInv => /\ SearchShowsBranches
              /\ Intact => NameShowsBranches /\ (CodesDistinct(menu) => CodeShowsBranch)
  BY IntactShows DEF SearchShowsBranches, Settled
<1>. QED BY <1>1, Invariant, PTL

=============================================================================
